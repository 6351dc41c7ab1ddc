---------------------------- MODULE StripeWebhook ----------------------------
(***************************************************************************)
(* How a Stripe event becomes money in a wallet: billing/billing.service   *)
(* .ts (handleStripeWebhook .. przetworzPonownie), the state machine of    *)
(* billing/stripe/webhook-ewidencja.ts and the retry scheduler beside it.  *)
(*                                                                         *)
(* Stripe delivers an event until it hears 200, in parallel and in any     *)
(* order; the scheduler and an administrator replay stored events; every   *)
(* one of them is a Worker, which may fail, be slower than its lease, or   *)
(* die between any two statements.  The handler modelled is the one that   *)
(* moves money, handleCheckoutCompleted, for sessions that are paid for    *)
(* (the others are done without an effect); its wallet is WalletPromise,   *)
(* what WalletLedger is proved to implement.                               *)
(*                                                                         *)
(* Time is seen only through what the code compares it with: a claim whose *)
(* five minutes are over, a retry that is due.  claimedAt is the number of *)
(* the claim, unique as the code's condition on it needs.                  *)
(***************************************************************************)
EXTENDS Integers, FiniteSetsExt

CONSTANTS
    Events,         \* Stripe event ids
    Sessions,       \* checkout sessions: several events may report one
    Users,
    Session,        \* [Events -> Sessions]
    Payer,          \* [Sessions -> Users]
    Paid,           \* [Sessions -> Nat \ {0}], what the session was paid with
    Workers,
    NoEvent,
    NoKey,
    MaxClaims       \* bound on the claims

ASSUME WebhookConstants ==
    /\ Session \in [Events -> Sessions]
    /\ Payer \in [Sessions -> Users]
    /\ Paid \in [Sessions -> Nat \ {0}]
    /\ NoEvent \notin Events
    /\ NoKey \notin Sessions \cup Events
    /\ MaxClaims \in Nat \ {0}

VARIABLES
    status,         \* [Events -> status of the row, "absent" before it exists]
    claimedAt,      \* [Events -> number of the claim in force, 0 for null]
    claims,         \* how many were made so far
    due,            \* [Events -> nextAttemptAt has passed]
    payload,        \* [Events -> the stored content is there]
    overran,        \* claims, as <<event, number>>, older than DZIERZAWA_MS
    pc, event, seen, byStripe,    \* what each worker is doing
    answered,       \* events to which Stripe has heard 200
    wallet, booked  \* WalletPromise

row == <<status, claimedAt, claims, due, payload>>
money == <<wallet, booked>>
vars == <<row, overran, pc, event, seen, byStripe, answered, money>>

IdempotencyKey_PerEvent(e) == e     \* mutated form: stripe:checkout:<event.id>

\* `stripe:checkout:${session.id}`
IdempotencyKey(e) == Session[e]

Movement(e) == [user |-> Payer[Session[e]], key |-> IdempotencyKey(e),
                delta |-> Paid[Session[e]]]

Wallet == INSTANCE WalletPromise WITH Movements <- {Movement(e) : e \in Events}

Statuses == {"absent", "PENDING", "FAILED", "PROCESSED"}
Places == {"idle", "claim", "handle", "finish", "fail"}

-----------------------------------------------------------------------------

\* decyzja(): the row may be taken over, its last attempt failed or its lease is
\* over.
MayTakeOver(e) ==
    \/ status[e] = "FAILED"
    \/ status[e] = "PENDING" /\ <<e, claimedAt[e]>> \in overran

\* decyzja(): the event was handled before.
IsDuplicate(e) == status[e] = "PROCESSED"

\* Mutated form: updateMany without the status and the claim in its WHERE.
StillAsSeen_Unchecked(w) == TRUE

\* The WHERE of the take-over.  zajmijZdarzenie compares claimedAt only if it
\* read one; przetworzPonownie compares it always.
StillAsSeen(w) ==
    LET e == event[w] IN
    /\ status[e] = seen[w].status
    /\ claimedAt[e] = seen[w].claimedAt \/ (byStripe[w] /\ seen[w].claimedAt = 0)

NotSeen == [status |-> "absent", claimedAt |-> 0]

Init ==
    /\ status = [e \in Events |-> "absent"]
    /\ claimedAt = [e \in Events |-> 0]
    /\ claims = 0
    /\ due = [e \in Events |-> FALSE]
    /\ payload = [e \in Events |-> FALSE]
    /\ overran = {}
    /\ pc = [w \in Workers |-> "idle"]
    /\ event = [w \in Workers |-> NoEvent]
    /\ seen = [w \in Workers |-> NotSeen]
    /\ byStripe = [w \in Workers |-> FALSE]
    /\ answered = {}
    /\ Wallet!PromiseInit

\* w is free again.
Released(w) ==
    /\ pc' = [pc EXCEPT ![w] = "idle"]
    /\ event' = [event EXCEPT ![w] = NoEvent]
    /\ seen' = [seen EXCEPT ![w] = NotSeen]
    /\ byStripe' = [byStripe EXCEPT ![w] = FALSE]

\* w is about to run the handler of e under its next claim.
Claimed(w, e) ==
    /\ claims < MaxClaims
    /\ claims' = claims + 1
    /\ claimedAt' = [claimedAt EXCEPT ![e] = claims + 1]
    /\ status' = [status EXCEPT ![e] = "PENDING"]
    /\ due' = [due EXCEPT ![e] = FALSE]
    /\ pc' = [pc EXCEPT ![w] = "handle"]
    /\ event' = [event EXCEPT ![w] = e]
    /\ seen' = [seen EXCEPT ![w] = NotSeen]

\* The first delivery of e (one of several, if it is lost): create() succeeds.
DeliverNew(w, e) ==
    /\ pc[w] = "idle"
    /\ status[e] = "absent"
    /\ Claimed(w, e)
    /\ payload' = [payload EXCEPT ![e] = TRUE]
    /\ byStripe' = [byStripe EXCEPT ![w] = TRUE]
    /\ UNCHANGED <<overran, answered, money>>

\* A later delivery of e meets the row of an event that is done: 200.
DeliverDuplicate(w, e) ==
    /\ pc[w] = "idle"
    /\ IsDuplicate(e)
    /\ answered' = answered \cup {e}
    /\ UNCHANGED <<row, overran, pc, event, seen, byStripe, money>>

\* w has read a row it may take over; a row in anybody's fresh lease is a 409,
\* which changes nothing.
Looked(w, e, stripe) ==
    /\ pc[w] = "idle"
    /\ MayTakeOver(e)
    /\ pc' = [pc EXCEPT ![w] = "claim"]
    /\ event' = [event EXCEPT ![w] = e]
    /\ seen' = [seen EXCEPT ![w] = [status |-> status[e], claimedAt |-> claimedAt[e]]]
    /\ byStripe' = [byStripe EXCEPT ![w] = stripe]
    /\ UNCHANGED <<row, overran, answered, money>>

DeliverAgain(w, e) == Looked(w, e, TRUE)

\* przetworzPonownie, called by an administrator or by ponow().
Replay(w, e) == payload[e] /\ Looked(w, e, FALSE)

\* Mutated form: an abandoned claim is not looked for.
WaitsForRetry_FailedOnly(e) == payload[e] /\ status[e] = "FAILED" /\ due[e]

\* What the query of ponow() selects.
WaitsForRetry(e) ==
    /\ payload[e]
    /\ \/ status[e] = "FAILED" /\ due[e]
       \/ status[e] = "PENDING" /\ <<e, claimedAt[e]>> \in overran

RetryPass(w, e) == WaitsForRetry(e) /\ Replay(w, e)

\* The conditional take-over finds the row as it was read ...
TakeOver(w) ==
    LET e == event[w] IN
    /\ pc[w] = "claim"
    /\ StillAsSeen(w)
    /\ Claimed(w, e)
    /\ payload' = [payload EXCEPT ![e] = byStripe[w] \/ @]
    /\ UNCHANGED <<overran, byStripe, answered, money>>

\* ... or somebody else was first: 409.  (Past the bound on attempts nobody
\* claims, and no worker is kept by that.)
TakeOverLost(w) ==
    /\ pc[w] = "claim"
    /\ ~StillAsSeen(w) \/ claims = MaxClaims
    /\ Released(w)
    /\ UNCHANGED <<row, overran, answered, money>>

\* DoladowanieService.zaksieguj: the top-up and its row, or the existing row.
Handle(w) ==
    LET e == event[w] IN
    /\ pc[w] = "handle"
    /\ pc' = [pc EXCEPT ![w] = "finish"]
    /\ IF IdempotencyKey(e) \in booked THEN UNCHANGED money ELSE Wallet!Move(Movement(e))
    /\ UNCHANGED <<row, overran, event, seen, byStripe, answered>>

\* The handler throws, before it has booked anything or after.
HandlerFails(w) ==
    /\ pc[w] \in {"handle", "finish"}
    /\ pc' = [pc EXCEPT ![w] = "fail"]
    /\ UNCHANGED <<row, overran, event, seen, byStripe, answered, money>>

\* zakonczZdarzenie, and the 200 to Stripe if it was Stripe that called.
Finish(w) ==
    LET e == event[w] IN
    /\ pc[w] = "finish"
    /\ status' = [status EXCEPT ![e] = "PROCESSED"]
    /\ claimedAt' = [claimedAt EXCEPT ![e] = 0]
    /\ due' = [due EXCEPT ![e] = FALSE]
    /\ \/ answered' = IF byStripe[w] THEN answered \cup {e} ELSE answered
       \/ UNCHANGED answered        \* the response is lost
    /\ Released(w)
    /\ UNCHANGED <<claims, payload, overran, money>>

FailedStatus_AsDone == "PROCESSED"  \* mutated form: "seen" recorded as "done"

FailedStatus == "FAILED"

\* oznaczNieudane: the update is not conditional on anything.
MarkFailed(w) ==
    LET e == event[w] IN
    /\ pc[w] = "fail"
    /\ status' = [status EXCEPT ![e] = FailedStatus]
    /\ claimedAt' = [claimedAt EXCEPT ![e] = 0]
    /\ due' = [due EXCEPT ![e] = FALSE]
    /\ Released(w)
    /\ UNCHANGED <<claims, payload, overran, answered, money>>

\* The process dies, the row stays as it is; so it does if the statement that
\* records success or failure fails.
Die(w) ==
    /\ pc[w] # "idle"
    /\ Released(w)
    /\ UNCHANGED <<row, overran, answered, money>>

\* Five minutes have passed since the claim in force, whether its worker is
\* dead or slow.
LeaseRunsOut(e) ==
    /\ status[e] = "PENDING"
    /\ <<e, claimedAt[e]>> \notin overran
    /\ overran' = overran \cup {<<e, claimedAt[e]>>}
    /\ UNCHANGED <<row, pc, event, seen, byStripe, answered, money>>

\* nextAttemptAt comes.
RetryFallsDue(e) ==
    /\ status[e] = "FAILED"
    /\ ~due[e]
    /\ due' = [due EXCEPT ![e] = TRUE]
    /\ UNCHANGED <<status, claimedAt, claims, payload, overran, pc, event, seen,
                   byStripe, answered, money>>

\* Only what is done loses its content.
Purgeable(e) == status[e] = "PROCESSED"

\* wyczyscTresci, 90 days after processedAt: longer than any worker runs.
Purge(e) ==
    /\ payload[e]
    /\ Purgeable(e)
    /\ \A w \in Workers : event[w] # e
    /\ payload' = [payload EXCEPT ![e] = FALSE]
    /\ UNCHANGED <<status, claimedAt, claims, due, overran, pc, event, seen,
                   byStripe, answered, money>>

Work(w) ==
    \/ TakeOver(w) \/ TakeOverLost(w) \/ Handle(w) \/ Finish(w) \/ MarkFailed(w)

Arrival(w, e) ==
    \/ DeliverNew(w, e) \/ DeliverDuplicate(w, e) \/ DeliverAgain(w, e)
    \/ Replay(w, e)

Next ==
    \/ \E w \in Workers, e \in Events : Arrival(w, e)
    \/ \E w \in Workers : Work(w) \/ HandlerFails(w) \/ Die(w)
    \/ \E e \in Events : LeaseRunsOut(e) \/ RetryFallsDue(e) \/ Purge(e)

Spec == Init /\ [][Next]_vars

\* A worker goes on until it dies, time passes, and the cron comes round every
\* minute for what waits.  Deaths in the handler use up attempts; those between
\* the read of a row and its take-over do not, and are not repeated for ever.
Fairness ==
    /\ \A w \in Workers : WF_vars(Work(w)) /\ SF_vars(TakeOver(w))
    /\ \A e \in Events : WF_vars(LeaseRunsOut(e)) /\ WF_vars(RetryFallsDue(e))
    /\ \A e \in Events : SF_vars(\E w \in Workers : RetryPass(w, e))

FairSpec == Spec /\ Fairness

-----------------------------------------------------------------------------
(* Properties.                                                             *)

TypeOK ==
    /\ status \in [Events -> Statuses]
    /\ claimedAt \in [Events -> 0 .. MaxClaims]
    /\ claims \in 0 .. MaxClaims
    /\ due \in [Events -> BOOLEAN]
    /\ payload \in [Events -> BOOLEAN]
    /\ overran \subseteq Events \X (1 .. MaxClaims)
    /\ pc \in [Workers -> Places]
    /\ event \in [Workers -> Events \cup {NoEvent}]
    /\ seen \in [Workers -> [status: Statuses, claimedAt: 0 .. MaxClaims]]
    /\ byStripe \in [Workers -> BOOLEAN]
    /\ answered \subseteq Events
    /\ wallet \in [Users -> Nat]
    /\ booked \subseteq Sessions

Paying(e) == IdempotencyKey(e) \in booked

\* webhook-ewidencja.ts:34: PROCESSED, and nothing less, means handled.  An
\* event that its row or Stripe takes for done has its money in the wallet:
\* "the customer paid, the balance did not show up, and the system took the
\* event for handled" does not come back, whoever failed or died on the way.
DoneMeansBooked ==
    \A e \in Events : status[e] = "PROCESSED" \/ e \in answered => Paying(e)

Received == {s \in Sessions : \E e \in Events : Session[e] = s /\ status[e] # "absent"}

\* A session is credited at most once although two of its events, their
\* redeliveries and their replays are handled in parallel.
CreditedOnce ==
    \A u \in Users :
        wallet[u] <= MapThenSumSet(LAMBDA s : Paid[s], {s \in Received : Payer[s] = u})

Handling(w, e) == event[w] = e /\ pc[w] \in {"handle", "finish", "fail"}

\* billing.service.ts:1407-1410: two processes do not run the handler of one
\* event in parallel, as long as none has been slower than its lease.
AloneUnlessOverrun ==
    \A e \in Events : \A v, w \in Workers :
        v # w /\ Handling(v, e) /\ Handling(w, e) =>
            \E n \in 1 .. claims : <<e, n>> \in overran

\* What is not done can be done again: its content is there to replay.
UnfinishedKeepsPayload ==
    \A e \in Events : status[e] \in {"PENDING", "FAILED"} => payload[e]

\* An event that was received is handled in the end, whatever dies, although
\* Stripe may never deliver it again.
ReceivedIsBooked ==
    \A e \in Events : status[e] # "absent" ~> Paying(e) \/ claims = MaxClaims

=============================================================================
