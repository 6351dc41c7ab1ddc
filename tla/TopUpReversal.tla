---------------------------- MODULE TopUpReversal ----------------------------
(***************************************************************************)
(* Money for a top-up goes back to the card: charge.refunded and           *)
(* charge.dispute.created in billing/billing.service.ts                    *)
(* (handleZwrotPlatnosci, cofnijDoladowanie, zglosCofniecie).              *)
(*                                                                         *)
(* One top-up of one customer, who goes on spending and topping up.  Its   *)
(* events come in any order, even before it is credited; the intake        *)
(* (StripeWebhook) has each handled by a worker until a run ends without an *)
(* error, sometimes by two at a time, and again if one of them fails late. *)
(* The transaction of cofnijDoladowanie is two steps, what it reads once it *)
(* has the customer's row and its commit; a worker can die there, and      *)
(* between the commit and the report.                                      *)
(***************************************************************************)
EXTENDS Integers

CONSTANTS
    Reversals,      \* refund and dispute events of the payment
    Amount,         \* [Reversals -> Nat]: amount_refunded, which is cumulative, or
                    \* the amount of the dispute
    PaidMinor,      \* what the customer paid; 0 if the row does not say
    TopUp,          \* what the wallet was credited with
    Reversers,
    Nobody,
    NoReversal,
    MaxWallet       \* bound on the balance

ASSUME ReversalConstants ==
    /\ Amount \in [Reversals -> Nat]
    /\ {PaidMinor, TopUp, MaxWallet} \subseteq Nat
    /\ Nobody \notin Reversers
    /\ NoReversal \notin Reversals

VARIABLES
    handled,        \* [Reversals -> "absent", "open" (received) or "done"]
    credited,       \* the top-up has been booked in the wallet
    balance,        \* the customer's balance
    rowLock,        \* who holds the customer's row
    reversed,       \* sum of the rows with metadata.zwrotZa of this top-up
    reversedBy,     \* the events whose row exists (key stripe:<event.id>)
    kwotaCofnieta,  \* the mark on the top-up, 0 for null
    told,           \* <<event, shortage>> that administrators were told of
    stray,          \* events they were told of as not of a top-up
    place, reversal, rest, take   \* where each worker is, its event, reszta, pobierz

tables == <<credited, balance, reversed, reversedBy, kwotaCofnieta>>
reports == <<told, stray>>
worker == <<place, reversal, rest, take>>
reversalVars == <<handled, rowLock, reports, tables, worker>>

Least(a, b) == IF a < b THEN a ELSE b
Greatest(a, b) == IF a < b THEN b ELSE a

\* doCofniecia: the share of the credit, rounded half up to the last unit.
Share(a) ==
    IF PaidMinor = 0 \/ a >= PaidMinor
    THEN TopUp
    ELSE (2 * TopUp * a + PaidMinor) \div (2 * PaidMinor)

Due(e) == Share(Amount[e])

ReversalInit ==
    /\ handled = [e \in Reversals |-> "absent"]
    /\ credited = FALSE /\ balance = 0
    /\ rowLock = Nobody
    /\ reversed = 0 /\ reversedBy = {} /\ kwotaCofnieta = 0 /\ told = {} /\ stray = {}
    /\ place = [w \in Reversers |-> "idle"]
    /\ reversal = [w \in Reversers |-> NoReversal]
    /\ rest = [w \in Reversers |-> 0]
    /\ take = [w \in Reversers |-> 0]

Idle(w) ==
    /\ place' = [place EXCEPT ![w] = "idle"]
    /\ reversal' = [reversal EXCEPT ![w] = NoReversal]
    /\ rest' = [rest EXCEPT ![w] = 0]
    /\ take' = [take EXCEPT ![w] = 0]

\* The intake takes the event in.
Receive(e) ==
    /\ handled[e] = "absent"
    /\ handled' = [handled EXCEPT ![e] = "open"]
    /\ UNCHANGED <<rowLock, reports, tables, worker>>

\* Mutated form: a plain SELECT of the balance.
RowFree_NoForUpdate == TRUE

RowFree == rowLock = Nobody

\* checkout.session.completed is handled: the wallet has the top-up.
CreditTopUp ==
    /\ ~credited
    /\ RowFree
    /\ balance + TopUp <= MaxWallet
    /\ credited' = TRUE
    /\ balance' = balance + TopUp
    /\ UNCHANGED <<handled, rowLock, reports, reversed, reversedBy, kwotaCofnieta, worker>>

\* A worker runs the handler, which looks for the top-up by its payment.
Begin(w, e) ==
    /\ place[w] = "idle"
    /\ handled[e] = "open"
    /\ place' = [place EXCEPT ![w] = IF credited THEN "lock" ELSE "stray"]
    /\ reversal' = [reversal EXCEPT ![w] = e]
    /\ UNCHANGED <<handled, rowLock, reports, tables, rest, take>>

\* SELECT ... FOR UPDATE, then how much is still to be reversed, and how much
\* of it the balance covers.
LockRow(w) ==
    LET reszta == Due(reversal[w]) - reversed IN
    /\ place[w] = "lock"
    /\ RowFree
    /\ rowLock' = w
    /\ rest' = [rest EXCEPT ![w] = reszta]
    /\ take' = [take EXCEPT ![w] = IF reszta > 0 THEN Least(reszta, balance) ELSE 0]
    /\ place' = [place EXCEPT ![w] = "write"]
    /\ UNCHANGED <<handled, reports, tables, reversal>>

\* zapiszWpis meets the row of an earlier run for the same event.
KeyTaken(w) == take[w] > 0 /\ reversal[w] \in reversedBy

\* Mutated form: the mark is written whatever it was.
Marked_Last(w) == Due(reversal[w])

\* updateMany with kwotaCofnieta null or less: the mark only goes up.
Marked(w) == Greatest(kwotaCofnieta, Due(reversal[w]))

\* Mutated form: a reversal that found an empty wallet is not reported.
ToReport_TakenOnly(w) == take[w] > 0

\* cofnijDoladowanie returned something.
ToReport(w) == rest[w] > 0

\* The commit.
Write(w) ==
    /\ place[w] = "write"
    /\ ~KeyTaken(w)
    /\ kwotaCofnieta' = Marked(w)
    /\ balance' = balance - take[w]
    /\ reversed' = reversed + take[w]
    /\ reversedBy' = IF take[w] > 0 THEN reversedBy \cup {reversal[w]} ELSE reversedBy
    /\ rowLock' = Nobody
    /\ place' = [place EXCEPT ![w] = IF ToReport(w) THEN "report" ELSE "finish"]
    /\ UNCHANGED <<handled, credited, reports, reversal, rest, take>>

\* oznaczNieudane, without a condition: the event, done or not, waits for a retry.
Reopened(w) == handled' = [handled EXCEPT ![reversal[w]] = "open"]

\* P2002: the transaction is undone and the run has failed.
KeyClash(w) ==
    /\ place[w] = "write"
    /\ KeyTaken(w)
    /\ rowLock' = Nobody
    /\ Reopened(w)
    /\ Idle(w)
    /\ UNCHANGED <<reports, tables>>

\* zglosCofniecie: the audit entry and the notice to administrators.
Report(w) ==
    /\ place[w] = "report"
    /\ told' = told \cup {<<reversal[w], rest[w] - take[w]>>}
    /\ place' = [place EXCEPT ![w] = "finish"]
    /\ UNCHANGED <<handled, rowLock, stray, tables, reversal, rest, take>>

\* zglosZwrotBezDoladowania: no top-up has this payment, or not yet.
ReportStray(w) ==
    /\ place[w] = "stray"
    /\ stray' = stray \cup {reversal[w]}
    /\ place' = [place EXCEPT ![w] = "finish"]
    /\ UNCHANGED <<handled, rowLock, told, tables, reversal, rest, take>>

\* zakonczZdarzenie: nobody will run the handler again.
FinishReversal(w) ==
    /\ place[w] = "finish"
    /\ handled' = [handled EXCEPT ![reversal[w]] = "done"]
    /\ Idle(w)
    /\ UNCHANGED <<rowLock, reports, tables>>

\* The run fails, or its process dies and the event is left for another run.
ReverserDies(w) ==
    /\ place[w] # "idle"
    /\ rowLock' = IF rowLock = w THEN Nobody ELSE rowLock
    /\ Reopened(w) \/ UNCHANGED handled
    /\ Idle(w)
    /\ UNCHANGED <<reports, tables>>

\* Any other movement of the ledger on the same wallet.
OtherMovement(delta) ==
    /\ RowFree
    /\ balance + delta \in 0 .. MaxWallet
    /\ balance' = balance + delta
    /\ UNCHANGED <<handled, rowLock, reports, credited, reversed, reversedBy, kwotaCofnieta, worker>>

Reverse(w) ==
    LockRow(w) \/ Write(w) \/ KeyClash(w) \/ Report(w) \/ ReportStray(w) \/ FinishReversal(w)

ReversalNext ==
    \/ \E e \in Reversals : Receive(e) \/ \E w \in Reversers : Begin(w, e)
    \/ \E w \in Reversers : Reverse(w) \/ ReverserDies(w)
    \/ CreditTopUp
    \/ \E delta \in {-1, 1} : OtherMovement(delta)

ReversalSpec == ReversalInit /\ [][ReversalNext]_reversalVars

-----------------------------------------------------------------------------
(* Properties.                                                             *)

ReversalPlaces == {"idle", "stray", "lock", "write", "report", "finish"}

ReversalTypeOK ==
    /\ handled \in [Reversals -> {"absent", "open", "done"}]
    /\ credited \in BOOLEAN
    /\ balance \in Nat
    /\ rowLock \in Reversers \cup {Nobody}
    /\ reversed \in Nat
    /\ reversedBy \subseteq Reversals
    /\ kwotaCofnieta \in Nat
    /\ told \subseteq Reversals \X Nat
    /\ stray \subseteq Reversals
    /\ place \in [Reversers -> ReversalPlaces]
    /\ reversal \in [Reversers -> Reversals \cup {NoReversal}]
    /\ rest \in [Reversers -> Int]
    /\ take \in [Reversers -> Nat]

ReceivedReversals == {e \in Reversals : handled[e] # "absent"}

\* "Two events of one payment count one after the other; before, both saw that
\* nothing was reversed and both took all of it": what is taken from the wallet
\* is never more than the share of the largest amount that went back to the
\* card, whatever order partial refunds and disputes are handled in.
ReversedWithinReturned ==
    reversed > 0 => \E e \in ReceivedReversals : reversed <= Due(e)

\* The share of an event is reversed, or administrators know the shortage, or have
\* been told of the event itself.
Settled(e) ==
    \/ reversed >= Due(e)
    \/ e \in stray
    \/ \E m \in told : m[1] = e /\ reversed + m[2] >= Due(e)

\* Nothing that has to go back is forgotten: once an event is done, its share is
\* reversed, or administrators were told of the shortage that the balance left or,
\* before the top-up was credited, of the event (zglosZwrotBezDoladowania), even if
\* a run died after its commit and another one finished.
ReversedOrTold == \A e \in Reversals : handled[e] = "done" => Settled(e)

\* kwotaCofnieta, the base of the partner's commission, is the whole of what
\* went back: it covers every event that is done and was not reported as no top-up's,
\* in whatever order they were, and what the ledger has taken.
MarkIsWhole ==
    /\ kwotaCofnieta >= reversed
    /\ \A e \in Reversals : handled[e] = "done" => e \in stray \/ kwotaCofnieta >= Due(e)

\* A worker that knows its event has one that was received.
Working(w) ==
    place[w] # "idle" => reversal[w] \in Reversals /\ handled[reversal[w]] # "absent"

\* Between lock and commit the row is the worker's and what it has computed holds.
Holding(w) ==
    place[w] = "write" =>
        /\ rowLock = w
        /\ rest[w] = Due(reversal[w]) - reversed
        /\ take[w] = IF rest[w] > 0 THEN Least(rest[w], balance) ELSE 0

\* After the commit the mark covers the event, and what is not reversed is the
\* shortage the worker is about to report or has reported.
Committed(w) ==
    /\ place[w] = "report" =>
           /\ kwotaCofnieta >= Due(reversal[w])
           /\ rest[w] - take[w] \in Nat
           /\ reversed + (rest[w] - take[w]) >= Due(reversal[w])
    /\ place[w] = "finish" =>
           /\ reversal[w] \in stray \/ kwotaCofnieta >= Due(reversal[w])
           /\ Settled(reversal[w])

\* The inductive invariant: what each worker knows at each place, beside the
\* properties themselves.
ReversalIInv ==
    /\ ReversalTypeOK
    /\ \A w \in Reversers : Working(w) /\ Holding(w) /\ Committed(w)
    /\ ReversedWithinReturned
    /\ ReversedOrTold
    /\ MarkIsWhole

=============================================================================
