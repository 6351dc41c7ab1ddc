---------------------------- MODULE PaynowRefund ----------------------------
(***************************************************************************)
(* Refunds of one Paynow payment: zwrocPlatnoscPaynow of billing/billing   *)
(* .service.ts.  An operator either orders the refund at Paynow or, when   *)
(* it was made in the merchant's panel there or its answer was lost,       *)
(* records it.  Paynow is outside: it knows a refund by its idempotency    *)
(* key and does not return more than was paid.  Requests of several        *)
(* operators interleave between their statements, and may die.             *)
(*                                                                         *)
(* One unit of the payment credited one unit of the wallet; what the       *)
(* reversal does with other shares is TopUpReversal.                       *)
(***************************************************************************)
EXTENDS Integers, FiniteSetsExt

CONSTANTS
    Operators,
    Paid,           \* kwotaMinor
    MaxRequests     \* bound on the requests

ASSUME RefundConstants == Paid \in Nat \ {0} /\ MaxRequests \in Nat

VARIABLES
    zwrocono, zwrotyIds,    \* of the row PaynowPlatnosc
    balance, taken,         \* the balance; the reversals of this top-up
    refunds,                \* those made at Paynow
    step, panel, kwota, seen,   \* what each operator is doing; the row it read
    due,                    \* what could not be taken, to be reported
    doubtful,               \* refunds an operator was told to look into
    byHand,                 \* a refund was recorded, or made, by hand
    died, requests

paymentRow == <<zwrocono, zwrotyIds>>
funds == <<balance, taken>>
operator == <<step, panel, kwota, seen, due>>
notes == <<doubtful, byHand, died, requests>>
refundVars == <<paymentRow, funds, refunds, operator, notes>>

Amounts == 1 .. Paid
Modes == {"api", "panel", "merchant"}
\* A refund id: of the mode, and for the first two of the key, which is computed
\* from the state that was read and the amount.
RefundIds == [mode : Modes, seen : 0 .. Paid, amount : Amounts]
Id(mode, s, a) == [mode |-> mode, seen |-> s, amount |-> a]
Total(ids) == MapThenSumSet(LAMBDA r : r.amount, ids)
Returned == Total(refunds)

RefundInit ==
    /\ zwrocono = 0 /\ zwrotyIds = {}
    /\ balance = Paid /\ taken = 0
    /\ refunds = {}
    /\ step = [o \in Operators |-> "idle"]
    /\ panel = [o \in Operators |-> FALSE]
    /\ kwota = [o \in Operators |-> 0]
    /\ seen = [o \in Operators |-> 0]
    /\ due = [o \in Operators |-> 0]
    /\ doubtful = {} /\ byHand = FALSE /\ died = FALSE
    /\ requests = 0

MoveTo(o, place) == step' = [step EXCEPT ![o] = place]
MyId(o) == Id(IF panel[o] THEN "panel" ELSE "api", seen[o], kwota[o])

-----------------------------------------------------------------------------

\* A refund made in the merchant's panel; Paynow sends no notice of it.
MerchantRefund(a) ==
    /\ Returned + a <= Paid
    /\ Id("merchant", 0, a) \notin refunds
    /\ refunds' = refunds \cup {Id("merchant", 0, a)}
    /\ byHand' = TRUE
    /\ UNCHANGED <<paymentRow, funds, operator, doubtful, died, requests>>

\* The row is read and the amount compared with what is left.  An operator
\* records by hand only what Paynow's panel shows beyond what is recorded.
Begin(o, a, byPanel) ==
    /\ step[o] = "idle" /\ requests < MaxRequests
    /\ a <= Paid - zwrocono
    /\ byPanel => Returned >= zwrocono + a
    /\ kwota' = [kwota EXCEPT ![o] = a]
    /\ seen' = [seen EXCEPT ![o] = zwrocono]
    /\ panel' = [panel EXCEPT ![o] = byPanel]
    /\ byHand' = (byHand \/ byPanel)
    /\ MoveTo(o, IF byPanel THEN "record" ELSE "call")
    /\ requests' = requests + 1
    /\ UNCHANGED <<paymentRow, funds, refunds, due, doubtful, died>>

\* Paynow has the refund of this key, or makes it.
Accepts(o) == MyId(o) \in refunds \/ Returned + kwota[o] <= Paid

Call(o) ==
    /\ step[o] = "call" /\ Accepts(o)
    /\ refunds' = refunds \cup {MyId(o)}
    /\ MoveTo(o, "record")
    /\ UNCHANGED <<paymentRow, funds, panel, kwota, seen, due, notes>>

\* PaynowBlad: the refund was refused.  Assumed: no refund was made.  The client
\* takes every answer that is not 2xx for a refusal, one of 5xx included
\* (paynow.client.ts:166-170, billing.service.ts:1262-1269).
Refused(o) ==
    /\ step[o] = "call"
    /\ MoveTo(o, "idle")
    /\ UNCHANGED <<paymentRow, funds, refunds, panel, kwota, seen, due, notes>>

\* Mutated form: an answer that did not come is taken for a refusal.
Unsure_Never(o) == {}

Unsure(o) == {MyId(o)}

\* No answer, or one without an id: it may have been accepted.
NoAnswer(o) ==
    /\ step[o] = "call"
    /\ refunds' \in {refunds} \cup {r \in {refunds \cup {MyId(o)}} : Accepts(o)}
    /\ doubtful' = doubtful \cup Unsure(o)
    /\ MoveTo(o, "idle")
    /\ UNCHANGED <<paymentRow, funds, panel, kwota, seen, due, byHand, died, requests>>

\* Mutated form: without the look into zwrotyIds.
Known_Never(o) == FALSE

Known(o) == MyId(o) \in zwrotyIds

\* Mutated form: the amount was compared before the lock, that was enough.
TooMuch_Never(o) == FALSE

TooMuch(o) == zwrocono + kwota[o] > Paid

\* Mutated form: the share of this refund counts from the row that was read.
Share_Seen(o) == seen[o] + kwota[o] - taken

\* cofnijDoladowanie: the part of the total not reversed yet.
Share(o) == zwrocono + kwota[o] - taken

Least(a, b) == IF a < b THEN a ELSE b

\* The transaction under the lock of the row.
Record(o) ==
    /\ step[o] = "record"
    /\ \/ /\ Known(o)
          /\ MoveTo(o, "idle")
          /\ UNCHANGED <<paymentRow, funds, due, doubtful>>
       \/ /\ ~Known(o) /\ TooMuch(o)
          /\ doubtful' = doubtful \cup {MyId(o)}
          /\ MoveTo(o, "idle")
          /\ UNCHANGED <<paymentRow, funds, due>>
       \/ /\ ~Known(o) /\ ~TooMuch(o)
          /\ zwrocono' = zwrocono + kwota[o]
          /\ zwrotyIds' = zwrotyIds \cup {MyId(o)}
          /\ balance' = balance - Least(Share(o), balance)
          /\ taken' = taken + Least(Share(o), balance)
          /\ due' = [due EXCEPT ![o] = Share(o) - Least(Share(o), balance)]
          /\ MoveTo(o, "report")
          /\ UNCHANGED doubtful
    /\ UNCHANGED <<refunds, panel, kwota, seen, byHand, died, requests>>

\* zglosCofniecie names what could not be taken.
Report(o) ==
    /\ step[o] = "report"
    /\ due' = [due EXCEPT ![o] = 0]
    /\ doubtful' = IF due[o] > 0 THEN doubtful \cup {MyId(o)} ELSE doubtful
    /\ MoveTo(o, "idle")
    /\ UNCHANGED <<paymentRow, funds, refunds, panel, kwota, seen, byHand, died, requests>>

\* The customer spends the balance.
Spend ==
    /\ balance > 0
    /\ balance' = balance - 1
    /\ UNCHANGED <<paymentRow, taken, refunds, operator, notes>>

Die(o) ==
    /\ step[o] # "idle"
    /\ MoveTo(o, "idle")
    /\ due' = [due EXCEPT ![o] = 0]
    /\ died' = TRUE
    /\ UNCHANGED <<paymentRow, funds, refunds, panel, kwota, seen, doubtful, byHand, requests>>

RefundNext ==
    \/ \E a \in Amounts : MerchantRefund(a)
    \/ \E o \in Operators :
        \/ \E a \in Amounts, byPanel \in BOOLEAN : Begin(o, a, byPanel)
        \/ Call(o) \/ Refused(o) \/ NoAnswer(o) \/ Record(o) \/ Report(o) \/ Die(o)
    \/ Spend

RefundSpec == RefundInit /\ [][RefundNext]_refundVars

-----------------------------------------------------------------------------
(* Properties.                                                             *)

RefundTypeOK ==
    /\ zwrocono \in 0 .. Paid /\ zwrotyIds \subseteq RefundIds
    /\ balance \in Nat /\ taken \in Nat
    /\ refunds \subseteq RefundIds
    /\ step \in [Operators -> {"idle", "call", "record", "report"}]
    /\ panel \in [Operators -> BOOLEAN]
    /\ kwota \in [Operators -> 0 .. Paid]
    /\ seen \in [Operators -> 0 .. Paid]
    /\ due \in [Operators -> Nat]
    /\ doubtful \subseteq RefundIds
    /\ {byHand, died} \subseteq BOOLEAN
    /\ requests \in 0 .. MaxRequests

\* Refunds recorded at the same time by several operators never exceed the
\* payment together, and no more is taken from the wallet than was recorded
\* (billing.service.ts:1283-1291).
WithinPayment == taken <= zwrocono /\ zwrocono <= Paid

\* As long as nobody records or refunds by hand, no more is recorded than Paynow
\* has returned, whatever answers are lost and requests retried.
RecordedWasReturned == ~byHand => zwrocono <= Returned

\* Once nobody is at work, every refund that Paynow made is recorded, or an
\* operator was told to look for it (billing.service.ts:1268-1279), except those
\* made by hand and the work of a request that died.
RefundIsRecordedOrTold ==
    (\A o \in Operators : step[o] = "idle") /\ ~died =>
        \A r \in refunds : r.mode = "merchant" \/ r \in zwrotyIds \cup doubtful

\* What was recorded is out of the wallet, or an operator was told of a refund
\* the balance did not cover, however refunds and spending meet.
RecordedIsTakenOrTold ==
    (\A o \in Operators : step[o] = "idle") /\ ~died /\ taken < zwrocono =>
        zwrotyIds \cap doubtful # {}

=============================================================================
