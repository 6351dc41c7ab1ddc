---------------------------- MODULE PaynowPayment ----------------------------
(***************************************************************************)
(* How a Paynow payment becomes money in a wallet, and an order:           *)
(* utworzDoladowaniePaynow, handlePaynowNotification, sprawdzPlatnosc-     *)
(* Paynow and zaksiegujPaynow of billing/billing.service.ts.               *)
(*                                                                         *)
(* Paynow is outside: it has a status for each payment under the record's  *)
(* externalId, its own one and those it may open when the first one is     *)
(* abandoned, and sends a notice of every status until it hears 200: late, *)
(* repeated and in any order.  A Handler is one request that takes a       *)
(* notice or, for a customer who has come back, asks for the status.  Its  *)
(* statements interleave with those of others; it may fail or die between  *)
(* any two of them.  The wallet is taken at its promise (WalletPromise): a *)
(* credit under a key happens once.  What the realisation of an order does *)
(* is ServiceOrder.                                                        *)
(***************************************************************************)
EXTENDS Integers, FiniteSets

CONSTANTS
    Own,            \* the paymentId Paynow gave this record
    Repeats,        \* payments Paynow opens under the same externalId
    NoPayment,      \* null
    Handlers,
    Amount,
    MaxFalls        \* bound on requests that fail or die

ASSUME PaynowConstants ==
    /\ Own \notin Repeats /\ NoPayment \notin Repeats \cup {Own}
    /\ Amount \in Nat \ {0}
    /\ MaxFalls \in Nat

VARIABLES
    kind,                   \* meta.kind: a top-up, or an order of a service
    creating,               \* where the request that creates the payment is
    paymentId, status,      \* the row PaynowPlatnosc
    paynow,                 \* [payments -> status at Paynow, "none" before it]
    sent,                   \* the notices sent: each may come any number of times
    owed,                   \* the confirmations not yet answered with 200
    pc, notice, asked,      \* each handler; asked: it works for a customer
    wallet, booked,         \* the balance; the payments credited
    effects,                \* how often the bonus, mail, points were started
    order,                  \* the service that waits for the payment
    told,                   \* payments administrators were told do not match
    alarm, flagged, flagging, \* of the order: told; the event; between the two
    falls

row == <<paymentId, status>>
atPaynow == <<paynow, sent, owed>>
handlers == <<pc, notice, asked>>
money == <<wallet, booked>>
service == <<order, alarm, flagged, flagging>>
vars == <<kind, creating, row, atPaynow, handlers, money, effects, service, told, falls>>

Payments == Repeats \cup {Own}
\* REJECTED stands for REJECTED, ERROR, EXPIRED and ABANDONED.
Statuses == {"NEW", "PENDING", "CONFIRMED", "REJECTED"}
Notices == [payment : Payments, status : Statuses]
Note(p, s) == [payment |-> p, status |-> s]
Places == {"idle", "mismatch", "write", "book", "mark", "effects", "realise"}

Init ==
    /\ kind \in {"doladowanie", "zamowienie"}
    /\ creating = "ask"
    /\ paymentId = NoPayment /\ status = "NEW"
    /\ paynow = [p \in Payments |-> "none"]
    /\ sent = {} /\ owed = {}
    /\ pc = [h \in Handlers |-> "idle"]
    /\ notice = [h \in Handlers |-> Note(Own, "NEW")]
    /\ asked = [h \in Handlers |-> FALSE]
    /\ wallet = 0 /\ booked = {}
    /\ effects = 0
    /\ order = "waiting"
    /\ told = {} /\ alarm = FALSE /\ flagged = FALSE /\ flagging = FALSE
    /\ falls = 0

-----------------------------------------------------------------------------
(* Paynow and the customer.                                                *)

Becomes(p, s) ==
    /\ paynow' = [paynow EXCEPT ![p] = s]
    /\ sent' = sent \cup {Note(p, s)}
    /\ owed' = IF s = "CONFIRMED" THEN owed \cup {p} ELSE owed

\* The customer pays or gives up; no one pays without the address that the
\* request returned.
Progress(p, s) ==
    /\ paynow[p] = "NEW" \/ (paynow[p] = "PENDING" /\ s # "PENDING")
    /\ s # "NEW"
    /\ s = "REJECTED" \/ p # Own \/ creating = "done"
    /\ Becomes(p, s)
    /\ UNCHANGED <<kind, creating, row, handlers, money, effects, service, told, falls>>

\* The merchant's panel can let a customer repeat an abandoned payment.
Repeat(p) ==
    /\ p # Own /\ paynow[p] = "none" /\ paynow[Own] = "REJECTED"
    /\ Becomes(p, "NEW")
    /\ UNCHANGED <<kind, creating, row, handlers, money, effects, service, told, falls>>

-----------------------------------------------------------------------------
(* utworzDoladowaniePaynow.                                                *)

\* The call: accepted, accepted with an answer that is lost or unusable, or
\* refused.
Ask ==
    /\ creating = "ask"
    /\ \/ Becomes(Own, "NEW") /\ creating' \in {"save", "error"}
       \/ UNCHANGED atPaynow /\ creating' = "error"
    /\ UNCHANGED <<kind, row, handlers, money, effects, service, told, falls>>

SaveId ==
    /\ creating = "save"
    /\ paymentId' = Own /\ status' = "NEW"
    /\ creating' = "done"
    /\ UNCHANGED <<kind, atPaynow, handlers, money, effects, service, told, falls>>

\* An answer without an address still carries the id.
SaveError ==
    /\ creating = "error"
    /\ status' = "REJECTED"
    /\ paymentId' \in {NoPayment} \cup {p \in {Own} : paynow[p] # "none"}
    /\ creating' = "failed"
    /\ UNCHANGED <<kind, atPaynow, handlers, money, effects, service, told, falls>>

CreationDies ==
    /\ creating \in {"ask", "save", "error"} /\ falls < MaxFalls
    /\ creating' = "failed"
    /\ falls' = falls + 1
    /\ UNCHANGED <<kind, row, atPaynow, handlers, money, effects, service, told>>

-----------------------------------------------------------------------------
(* The handlers.                                                           *)

Goto(h, place) == pc' = [pc EXCEPT ![h] = place]

Forget(h) ==
    /\ notice' = [notice EXCEPT ![h] = Note(Own, "NEW")]
    /\ asked' = [asked EXCEPT ![h] = FALSE]

\* The request is answered with 200.
Finish(h) ==
    /\ Goto(h, "idle")
    /\ Forget(h)
    /\ owed' = IF notice[h].status = "CONFIRMED" /\ ~asked[h]
               THEN owed \ {notice[h].payment} ELSE owed

\* zastosujStatusPaynow.
Route(s) == IF s = "CONFIRMED" THEN "book" ELSE "write"

\* Mutated form: any payment of the record's externalId counts.
IsOurs_Any(p) == TRUE

\* Only the payment created for this record.
IsOurs(p) == p = paymentId

\* A notice, first or repeated: the row is read and compared.
Receive(h, n) ==
    /\ pc[h] = "idle" /\ n \in sent
    /\ notice' = [notice EXCEPT ![h] = n]
    /\ asked' = [asked EXCEPT ![h] = FALSE]
    /\ Goto(h, IF IsOurs(n.payment) THEN Route(n.status) ELSE "mismatch")
    /\ UNCHANGED <<kind, creating, row, atPaynow, money, effects, service, told, falls>>

\* sprawdzPlatnoscPaynow: the status is asked for and then applied.
Check(h) ==
    /\ pc[h] = "idle"
    /\ status # "CONFIRMED" /\ paymentId = Own
    /\ notice' = [notice EXCEPT ![h] = Note(Own, paynow[Own])]
    /\ asked' = [asked EXCEPT ![h] = TRUE]
    /\ Goto(h, Route(paynow[Own]))
    /\ UNCHANGED <<kind, creating, row, atPaynow, money, effects, service, told, falls>>

\* Mutated form: a payment that does not match is only logged.
MoneyIsThere_Never(n) == FALSE

MoneyIsThere(n) == n.status = "CONFIRMED"

\* zglosNiezgodnoscPaynow.
Mismatch(h) ==
    /\ pc[h] = "mismatch"
    /\ told' = IF MoneyIsThere(notice[h]) THEN told \cup {notice[h].payment} ELSE told
    /\ Finish(h)
    /\ UNCHANGED <<kind, creating, row, paynow, sent, money, effects, service, falls>>

\* The condition of both updates.
NotConfirmed == status # "CONFIRMED"

Write(h) ==
    /\ pc[h] = "write"
    /\ status' = IF NotConfirmed THEN notice[h].status ELSE status
    /\ Finish(h)
    /\ UNCHANGED <<kind, creating, paymentId, paynow, sent, money, effects, service, told, falls>>

\* The credit under `paynow:<paymentId>`, or the row that is there.
Credit ==
    /\ wallet' = IF Own \in booked THEN wallet ELSE wallet + Amount
    /\ booked' = booked \cup {Own}

Book(h) ==
    /\ pc[h] = "book"
    /\ Credit
    /\ Goto(h, "mark")
    /\ UNCHANGED <<kind, creating, row, atPaynow, notice, asked, effects, service, told, falls>>

\* Mutated form: whoever booked goes on to the effects.
WonMark_Any == TRUE

\* The update counted a row.
WonMark == NotConfirmed

Mark(h) ==
    /\ pc[h] = "mark"
    /\ status' = "CONFIRMED"
    /\ IF WonMark THEN Goto(h, "effects") /\ UNCHANGED <<owed, notice, asked>>
                  ELSE Finish(h)
    /\ UNCHANGED <<kind, creating, paymentId, paynow, sent, money, effects, service, told, falls>>

\* poZaksiegowaniuDoladowania; an error in it does not keep an order from
\* being realised.
Effects(h) ==
    /\ pc[h] = "effects"
    /\ effects' = effects + 1
    /\ IF kind = "zamowienie" THEN Goto(h, "realise") /\ UNCHANGED <<owed, notice, asked>>
                              ELSE Finish(h)
    /\ UNCHANGED <<kind, creating, row, paynow, sent, money, service, told, falls>>

\* zrealizujZamowienie: the service is started, or an alarm says why not.
Realise(h) ==
    /\ pc[h] = "realise"
    /\ \/ order = "waiting" /\ order' = "taken" /\ UNCHANGED alarm
       \/ alarm' = TRUE /\ UNCHANGED order
    /\ Finish(h)
    /\ UNCHANGED <<kind, creating, row, paynow, sent, money, effects, flagged, flagging, told, falls>>

\* An error that is thrown, or a death: no 200.
Fall(h) ==
    /\ pc[h] # "idle" /\ falls < MaxFalls
    /\ Goto(h, "idle")
    /\ Forget(h)
    /\ falls' = falls + 1
    /\ UNCHANGED <<kind, creating, row, atPaynow, money, effects, service, told>>

-----------------------------------------------------------------------------
(* The order, besides the payment.                                         *)

\* The customer cancels it, or pays for it from the wallet.
OrderGoes(to) ==
    /\ order = "waiting"
    /\ order' = to
    /\ UNCHANGED <<kind, creating, row, atPaynow, handlers, money, effects, alarm, flagged,
                   flagging, told, falls>>

\* Mutated form: it looks only at orders whose payment has failed.
PaidAndWaiting_Failed == kind = "zamowienie" /\ order = "waiting" /\ status = "REJECTED"

PaidAndWaiting == kind = "zamowienie" /\ order = "waiting" /\ status = "CONFIRMED"

\* abandonStalePendingPayments after 48 hours: an order paid through Paynow that
\* still waits gets an event, once, ...
Flag ==
    /\ PaidAndWaiting /\ ~flagged
    /\ flagged' = TRUE /\ flagging' = TRUE
    /\ UNCHANGED <<kind, creating, row, atPaynow, handlers, money, effects, order, alarm, told, falls>>

\* ... and administrators a notice.
FlagNotice ==
    /\ flagging
    /\ flagging' = FALSE
    /\ alarm' = TRUE
    /\ UNCHANGED <<kind, creating, row, atPaynow, handlers, money, effects, order, flagged, told, falls>>

FlagDies ==
    /\ flagging /\ falls < MaxFalls
    /\ flagging' = FALSE
    /\ falls' = falls + 1
    /\ UNCHANGED <<kind, creating, row, atPaynow, handlers, money, effects, order, alarm, flagged, told>>

HandlerStep(h) ==
    \/ Mismatch(h) \/ Write(h) \/ Book(h) \/ Mark(h) \/ Effects(h) \/ Realise(h)

Next ==
    \/ \E p \in Payments : Repeat(p) \/ \E s \in Statuses : Progress(p, s)
    \/ Ask \/ SaveId \/ SaveError \/ CreationDies
    \/ \E h \in Handlers :
          (\E n \in sent : Receive(h, n)) \/ Check(h) \/ HandlerStep(h) \/ Fall(h)
    \/ \E to \in {"taken", "canceled"} : OrderGoes(to)
    \/ Flag \/ FlagNotice \/ FlagDies

Spec == Init /\ [][Next]_vars

\* A request that was taken goes on; Paynow repeats a confirmation until it hears
\* 200, and an attempt gets through in the end (it tries for 48 hours); other
\* notices may be lost; the cleanup runs every hour.
FairSpec ==
    /\ Spec
    /\ \A h \in Handlers : WF_vars(HandlerStep(h))
    /\ \A p \in Payments :
          SF_vars(p \in owed /\ \E h \in Handlers : Receive(h, Note(p, "CONFIRMED")))
    /\ WF_vars(Flag)

-----------------------------------------------------------------------------
(* Properties.                                                             *)

TypeOK ==
    /\ kind \in {"doladowanie", "zamowienie"}
    /\ creating \in {"ask", "save", "error", "done", "failed"}
    /\ paymentId \in {NoPayment, Own} /\ status \in Statuses
    /\ paynow \in [Payments -> Statuses \cup {"none"}]
    /\ owed \subseteq Payments /\ sent \subseteq Notices
    /\ pc \in [Handlers -> Places]
    /\ notice \in [Handlers -> Notices]
    /\ asked \in [Handlers -> BOOLEAN]
    /\ wallet \in 0 .. Amount /\ booked \subseteq {Own}
    /\ effects \in Nat
    /\ order \in {"waiting", "taken", "canceled"}
    /\ told \subseteq Payments
    /\ {alarm, flagged, flagging} \subseteq BOOLEAN
    /\ falls \in 0 .. MaxFalls

\* The wallet is credited only for a payment that Paynow has confirmed, and only
\* for the one created for this record: the amount of another one is unknown
\* (billing.service.ts:1077-1080).
BookedWasPaid == Own \in booked => paynow[Own] = "CONFIRMED"

\* A record is CONFIRMED only when its money is in the wallet, so that whoever
\* finds it so need not book it (billing.service.ts:1093, 1182).
ConfirmedIsBooked == status = "CONFIRMED" => Own \in booked

\* A notice that comes late or out of order does not take back CONFIRMED
\* (billing.service.ts:1145).
ConfirmedIsFinal == [][status = "CONFIRMED" => status' = "CONFIRMED"]_vars

\* Bonus, mail and points are started by one handler only, however many book the
\* same payment (billing.service.ts:1174-1179).
EffectsOnce == effects <= 1

\* What a customer has paid is booked, or administrators know of it, although
\* requests fail and die and the customer never comes back.
PaidIsBookedOrTold ==
    \A p \in Payments : paynow[p] = "CONFIRMED" ~> p \in booked \/ p \in told

\* A paid order does not wait unnoticed, although the one handler that may
\* realise it can die before it does (billing.service.ts:1186-1188,
\* subscriptions.service.ts:2190-2195): it is taken, canceled by the customer,
\* reported, or carries the event of the cleanup.
PaidOrderIsAnswered ==
    kind = "zamowienie" /\ status = "CONFIRMED" ~> order # "waiting" \/ alarm \/ flagged

=============================================================================
