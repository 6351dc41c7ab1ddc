---------------------------- MODULE StripeProofs ----------------------------
(***************************************************************************)
(* Top-ups through Stripe, and their reversal.  For every set of events,   *)
(* sessions and workers and any number of claims: an event recorded as     *)
(* done is booked, a session is credited at most once, what is not done    *)
(* keeps its content, and the handler of an event runs alone until a lease *)
(* is overrun. For every amount and every rate of credit: no more is taken *)
(* back than was returned to the card, nothing is forgotten, and the mark  *)
(* on the top-up is the whole of what went back.                           *)
(***************************************************************************)
EXTENDS StripeWebhook, TopUpReversal, SumTheorems

-----------------------------------------------------------------------------
(* The intake.                                                             *)

\* A busy worker has an event, whose content is still there.
Known(w) == pc[w] # "idle" => event[w] \in Events /\ payload[event[w]]

\* A worker that is done with the handler has its event booked.
Booking(w) == pc[w] = "finish" => Paying(event[w])

\* A claim in force is one of those made.
ClaimsAreCounted ==
    \A e \in Events : status[e] = "PENDING" => claimedAt[e] \in 1 .. claims

InTime(e) == \A n \in 1 .. claims : <<e, n>> \notin overran

\* As long as no lease of e was overrun: who handles e is alone and the row says
\* so, and who wants to take it over has seen it failed.
Alone(e) ==
    InTime(e) =>
        /\ \A v, w \in Workers : Handling(v, e) /\ Handling(w, e) => v = w
        /\ \A w \in Workers : Handling(w, e) => status[e] = "PENDING"
        /\ \A w \in Workers :
              event[w] = e /\ pc[w] = "claim" => seen[w].status = "FAILED"

\* The inductive invariant.
IInv ==
    /\ TypeOK
    /\ \A w \in Workers : Known(w) /\ Booking(w)
    /\ ClaimsAreCounted
    /\ DoneMeansBooked
    /\ UnfinishedKeepsPayload
    /\ \A e \in Events : Alone(e)

\* Initially nothing was received.
LEMMA InitIInv == Init => IInv
<1> SUFFICES ASSUME Init PROVE IInv
  OBVIOUS
<1>1. TypeOK
  BY WebhookConstants
     DEF Init, TypeOK, Statuses, Places, NotSeen, Wallet!PromiseInit
<1>2. \A w \in Workers : Known(w) /\ Booking(w)
  BY DEF Init, Known, Booking
<1>3. ClaimsAreCounted /\ DoneMeansBooked /\ UnfinishedKeepsPayload
  BY DEF Init, ClaimsAreCounted, DoneMeansBooked, UnfinishedKeepsPayload
<1>4. \A e \in Events : Alone(e)
  BY DEF Init, Alone, Handling
<1> QED
  BY <1>1, <1>2, <1>3, <1>4 DEF IInv

-----------------------------------------------------------------------------
(* A claim: of a new row, or of one that was read and may be taken over.   *)

\* What both claims do to the row and to their worker.
Claim(v, e) == DeliverNew(v, e) \/ (TakeOver(v) /\ event[v] = e)

\* A claim is made on an event in nobody's lease: if none was overrun, nobody is
\* handling it.
LEMMA ClaimFindsNobody ==
    ASSUME IInv, NEW v \in Workers, NEW e \in Events, Claim(v, e), InTime(e)
    PROVE  \A w \in Workers : ~Handling(w, e)
<1>1. status[e] # "PENDING"
  <2>1. CASE DeliverNew(v, e)
    BY <2>1 DEF DeliverNew
  <2>2. CASE TakeOver(v) /\ event[v] = e
    BY <2>2 DEF IInv, Alone, TakeOver, StillAsSeen
  <2> QED
    BY <2>1, <2>2 DEF Claim
<1> QED
  BY <1>1 DEF IInv, Alone

\* Either claim keeps the invariant.
LEMMA ClaimKeepsIInv ==
    ASSUME IInv, NEW v \in Workers, NEW e \in Events, Claim(v, e)
    PROVE  IInv'
<1> USE DEF IInv
<1>1. /\ Claimed(v, e)
      /\ UNCHANGED <<overran, answered, wallet, booked>>
      /\ payload' = [payload EXCEPT ![e] = TRUE]
      /\ byStripe' \in [Workers -> BOOLEAN]
  <2>1. CASE DeliverNew(v, e)
    BY <2>1 DEF DeliverNew, TypeOK, money
  <2>2. CASE TakeOver(v) /\ event[v] = e
    <3>1. payload[e] = TRUE
      BY <2>2 DEF TakeOver, Known, TypeOK
    <3>2. (byStripe[v] \/ payload[e]) = TRUE
      BY <3>1
    <3> QED
      BY <2>2, <3>2 DEF TakeOver, TypeOK, money
  <2> QED
    BY <2>1, <2>2 DEF Claim
<1>2. claims + 1 \in 1 .. MaxClaims /\ claims \in 0 .. MaxClaims
  BY <1>1, WebhookConstants DEF Claimed, TypeOK
<1>3. TypeOK'
  <2>1. /\ status' \in [Events -> Statuses] /\ due' \in [Events -> BOOLEAN]
        /\ payload' \in [Events -> BOOLEAN]
    BY <1>1 DEF Claimed, TypeOK, Statuses
  <2>2. /\ claimedAt' \in [Events -> 0 .. MaxClaims]
        /\ claims' \in 0 .. MaxClaims
    BY <1>1, <1>2 DEF Claimed, TypeOK
  <2>3. /\ pc' \in [Workers -> Places] /\ event' \in [Workers -> Events \cup {NoEvent}]
        /\ seen' \in [Workers -> [status: Statuses, claimedAt: 0 .. MaxClaims]]
    BY <1>1, <1>2, WebhookConstants DEF Claimed, NotSeen, TypeOK, Places, Statuses
  <2> QED
    BY <1>1, <2>1, <2>2, <2>3 DEF TypeOK
<1>4. ASSUME NEW w \in Workers PROVE Known(w)' /\ Booking(w)'
  BY <1>1 DEF Claimed, TypeOK, Known, Booking, Paying, IdempotencyKey
<1>5. ClaimsAreCounted'
  BY <1>1, <1>2 DEF Claimed, TypeOK, ClaimsAreCounted
<1>6. DoneMeansBooked'
  BY <1>1 DEF Claimed, TypeOK, DoneMeansBooked, Paying, IdempotencyKey
<1>7. UnfinishedKeepsPayload'
  BY <1>1 DEF Claimed, TypeOK, UnfinishedKeepsPayload
<1>8. ASSUME NEW f \in Events PROVE Alone(f)'
  <2>1. InTime(f)' => InTime(f)
    BY <1>1, <1>2 DEF Claimed, TypeOK, InTime
  <2>2. CASE f = e
    <3>1. InTime(e)' => \A w \in Workers : ~Handling(w, e)
      BY <2>1, <2>2, ClaimFindsNobody
    <3>2. \A w \in Workers : w # v =>
             pc'[w] = pc[w] /\ event'[w] = event[w] /\ seen'[w] = seen[w]
      BY <1>1 DEF Claimed, TypeOK
    <3>3. status'[e] = "PENDING" /\ pc'[v] = "handle"
      BY <1>1 DEF Claimed, TypeOK
    <3> QED
      BY <2>1, <2>2, <3>1, <3>2, <3>3 DEF Alone, Handling
  <2>3. CASE f # e
    BY <1>1, <2>1, <2>3 DEF Claimed, TypeOK, Alone, Handling
  <2> QED
    BY <2>2, <2>3
<1> QED
  BY <1>3, <1>4, <1>5, <1>6, <1>7, <1>8

-----------------------------------------------------------------------------
(* The other steps.                                                        *)

\* A worker reads a row that it may take over.
LEMMA LookedKeepsIInv ==
    ASSUME IInv, NEW v \in Workers, NEW e \in Events, NEW b \in BOOLEAN, Looked(v, e, b)
    PROVE  IInv'
<1> USE DEF IInv
<1>1. UNCHANGED <<status, claimedAt, claims, due, payload, overran, answered, wallet, booked>>
  BY DEF Looked, row, money
<1>2. TypeOK'
  BY <1>1 DEF Looked, TypeOK, Places
<1>3. status[e] \in {"PENDING", "FAILED"}
  BY DEF Looked, MayTakeOver
<1>4. ASSUME NEW w \in Workers PROVE Known(w)' /\ Booking(w)'
  BY <1>1, <1>3
     DEF Looked, TypeOK, Known, Booking, UnfinishedKeepsPayload, Paying, IdempotencyKey
<1>5. ClaimsAreCounted' /\ DoneMeansBooked' /\ UnfinishedKeepsPayload'
  BY <1>1 DEF ClaimsAreCounted, DoneMeansBooked, UnfinishedKeepsPayload, Paying, IdempotencyKey
<1>6. ASSUME NEW f \in Events PROVE Alone(f)'
  <2>1. InTime(e) => status[e] = "FAILED"
    BY DEF Looked, MayTakeOver, ClaimsAreCounted, InTime
  <2>2. InTime(f)' <=> InTime(f)
    BY <1>1 DEF InTime
  <2> QED
    BY <1>1, <2>1, <2>2 DEF Looked, TypeOK, Alone, Handling
<1> QED
  BY <1>2, <1>4, <1>5, <1>6

\* A worker is free again and the row as it was: the race was lost, or the worker died.
LEMMA ReleasedKeepsIInv ==
    ASSUME IInv, NEW v \in Workers, TakeOverLost(v) \/ Die(v)
    PROVE  IInv'
<1> USE DEF IInv
<1>1. /\ UNCHANGED <<status, claimedAt, claims, due, payload, overran, answered,
                     wallet, booked>>
      /\ Released(v)
  BY DEF TakeOverLost, Die, row, money
<1>2. TypeOK'
  BY <1>1, WebhookConstants DEF Released, NotSeen, TypeOK, Places, Statuses
<1>3. ASSUME NEW w \in Workers PROVE Known(w)' /\ Booking(w)'
  BY <1>1 DEF Released, TypeOK, Known, Booking, Paying, IdempotencyKey
<1>4. ClaimsAreCounted' /\ DoneMeansBooked' /\ UnfinishedKeepsPayload'
  BY <1>1 DEF ClaimsAreCounted, DoneMeansBooked, UnfinishedKeepsPayload, Paying, IdempotencyKey
<1>5. ASSUME NEW f \in Events PROVE Alone(f)'
  <2>1. InTime(f)' <=> InTime(f)
    BY <1>1 DEF InTime
  <2> QED
    BY <1>1, <2>1 DEF Released, TypeOK, Alone, Handling
<1> QED
  BY <1>2, <1>3, <1>4, <1>5

\* The handler books the session, or finds it booked, or fails.
LEMMA HandlerKeepsIInv ==
    ASSUME IInv, NEW v \in Workers, Handle(v) \/ HandlerFails(v)
    PROVE  IInv'
<1> USE DEF IInv
<1> DEFINE k == IdempotencyKey(event[v])
<1>1. /\ UNCHANGED <<status, claimedAt, claims, due, payload, overran, event, seen,
                     byStripe, answered>>
      /\ pc[v] \in {"handle", "finish"}
      /\ event[v] \in Events
      /\ \/ pc' = [pc EXCEPT ![v] = "finish"]
         \/ pc' = [pc EXCEPT ![v] = "fail"]
  BY DEF Handle, HandlerFails, row, Known
<1>2. /\ booked \subseteq booked' /\ booked' \subseteq booked \cup {k}
      /\ pc'[v] = "finish" => k \in booked'
      /\ wallet' \in [Users -> Nat]
  <2>1. CASE HandlerFails(v)
    BY <2>1 DEF HandlerFails, money, TypeOK
  <2>2. CASE Handle(v) /\ k \in booked
    BY <2>2 DEF Handle, money, TypeOK
  <2>3. CASE Handle(v) /\ k \notin booked
    <3>1. Wallet!Move(Movement(event[v]))
      BY <2>3 DEF Handle
    <3>2. k \in Sessions /\ k # NoKey
      BY <1>1, WebhookConstants DEF IdempotencyKey
    <3>3. booked' = booked \cup {k}
      BY <3>1, <3>2 DEF Wallet!Move, Movement
    <3>4. wallet' \in [Users -> Nat]
      <4>1. Movement(event[v]).user \in Users /\ Movement(event[v]).delta \in Nat
        BY <1>1, WebhookConstants DEF Movement
      <4> QED
        BY <3>1, <4>1 DEF Wallet!Move, TypeOK
    <3> QED
      BY <3>3, <3>4
  <2> QED
    BY <2>1, <2>2, <2>3
<1>3. k \in Sessions
  BY <1>1, WebhookConstants DEF IdempotencyKey
<1>4. TypeOK'
  BY <1>1, <1>2, <1>3 DEF TypeOK, Places
<1>5. \A e \in Events : Paying(e) => Paying(e)'
  BY <1>2 DEF Paying, IdempotencyKey
<1>6. ASSUME NEW w \in Workers PROVE Known(w)' /\ Booking(w)'
  <2>1. Known(w)'
    BY <1>1 DEF TypeOK, Known
  <2>2. CASE w = v
    BY <1>1, <1>2, <2>1, <2>2 DEF Booking, Paying, IdempotencyKey
  <2>3. CASE w # v
    BY <1>1, <1>5, <2>1, <2>3 DEF TypeOK, Booking, Known, Paying, IdempotencyKey
  <2> QED
    BY <2>1, <2>2, <2>3
<1>7. ClaimsAreCounted' /\ DoneMeansBooked' /\ UnfinishedKeepsPayload'
  BY <1>1, <1>5 DEF ClaimsAreCounted, DoneMeansBooked, UnfinishedKeepsPayload
<1>8. ASSUME NEW f \in Events PROVE Alone(f)'
  <2>1. InTime(f)' <=> InTime(f)
    BY <1>1 DEF InTime
  <2> QED
    BY <1>1, <2>1 DEF TypeOK, Alone, Handling
<1> QED
  BY <1>4, <1>6, <1>7, <1>8

\* The outcome is recorded.
LEMMA OutcomeKeepsIInv ==
    ASSUME IInv, NEW v \in Workers, Finish(v) \/ MarkFailed(v)
    PROVE  IInv'
<1> USE DEF IInv
<1> DEFINE e == event[v]
<1>1. /\ UNCHANGED <<claims, payload, overran, wallet, booked>>
      /\ Released(v)
      /\ claimedAt' = [claimedAt EXCEPT ![e] = 0]
      /\ due' = [due EXCEPT ![e] = FALSE]
      /\ pc[v] \in {"finish", "fail"}
      /\ e \in Events
  BY DEF Finish, MarkFailed, money, Known
<1>2. \/ /\ status' = [status EXCEPT ![e] = "PROCESSED"]
         /\ answered' \subseteq answered \cup {e}
         /\ Paying(e)
      \/ status' = [status EXCEPT ![e] = "FAILED"] /\ answered' = answered
  BY DEF Finish, MarkFailed, FailedStatus, Booking
<1>3. TypeOK'
  <2>1. /\ status' \in [Events -> Statuses] /\ due' \in [Events -> BOOLEAN]
        /\ claimedAt' \in [Events -> 0 .. MaxClaims]
        /\ answered' \subseteq Events
    BY SMTT(30), <1>1, <1>2, WebhookConstants DEF TypeOK, Statuses
  <2>2. /\ pc' \in [Workers -> Places] /\ event' \in [Workers -> Events \cup {NoEvent}]
        /\ seen' \in [Workers -> [status: Statuses, claimedAt: 0 .. MaxClaims]]
        /\ byStripe' \in [Workers -> BOOLEAN]
    BY <1>1, WebhookConstants DEF Released, NotSeen, TypeOK, Places, Statuses
  <2> QED
    BY <1>1, <2>1, <2>2 DEF TypeOK
<1>4. ASSUME NEW w \in Workers PROVE Known(w)' /\ Booking(w)'
  BY <1>1 DEF Released, TypeOK, Known, Booking, Paying, IdempotencyKey
<1>5. ClaimsAreCounted'
  BY <1>1, <1>2 DEF TypeOK, ClaimsAreCounted
<1>6. DoneMeansBooked'
  BY <1>1, <1>2 DEF TypeOK, DoneMeansBooked, Paying, IdempotencyKey
<1>7. UnfinishedKeepsPayload'
  BY <1>1, <1>2 DEF TypeOK, UnfinishedKeepsPayload, Known
<1>8. ASSUME NEW f \in Events PROVE Alone(f)'
  <2>1. InTime(f)' <=> InTime(f)
    BY <1>1 DEF InTime
  <2>2. \A w \in Workers : w # v => pc'[w] = pc[w] /\ event'[w] = event[w] /\ seen'[w] = seen[w]
    BY <1>1 DEF Released, TypeOK
  <2>3. pc'[v] = "idle"
    BY <1>1 DEF Released, TypeOK
  <2>4. CASE f = e
    BY <1>1, <2>1, <2>2, <2>3, <2>4 DEF Alone, Handling
  <2>5. CASE f # e
    <3>1. status'[f] = status[f]
      BY <1>1, <1>2, <2>5 DEF TypeOK
    <3>2. \A w \in Workers :
             /\ Handling(w, f)' => Handling(w, f)
             /\ event'[w] = f /\ pc'[w] = "claim" =>
                   event[w] = f /\ pc[w] = "claim" /\ seen'[w] = seen[w]
      BY <2>2, <2>3 DEF Handling
    <3> QED
      BY <2>1, <3>1, <3>2 DEF Alone
  <2> QED
    BY <2>4, <2>5
<1> QED
  BY <1>3, <1>4, <1>5, <1>6, <1>7, <1>8

\* Stripe hears 200 for an event that is done.
LEMMA DuplicateKeepsIInv ==
    ASSUME IInv, NEW v \in Workers, NEW e \in Events, DeliverDuplicate(v, e)
    PROVE  IInv'
<1> USE DEF IInv
<1>1. /\ UNCHANGED <<status, claimedAt, claims, due, payload, overran, pc, event, seen,
                     byStripe, wallet, booked>>
      /\ answered' = answered \cup {e} /\ Paying(e)
  BY DEF DeliverDuplicate, IsDuplicate, DoneMeansBooked, row, money
<1>2. TypeOK'
  BY <1>1 DEF TypeOK
<1>3. \A w \in Workers : Known(w)' /\ Booking(w)'
  BY <1>1 DEF Known, Booking, Paying, IdempotencyKey
<1>4. ClaimsAreCounted' /\ DoneMeansBooked' /\ UnfinishedKeepsPayload'
  BY <1>1 DEF ClaimsAreCounted, DoneMeansBooked, UnfinishedKeepsPayload, Paying, IdempotencyKey
<1>5. \A f \in Events : Alone(f)'
  BY <1>1 DEF Alone, InTime, Handling
<1> QED
  BY <1>2, <1>3, <1>4, <1>5

\* Time passes: a lease runs out, a retry falls due, the content of what is done goes.
LEMMA TimeKeepsIInv ==
    ASSUME IInv, NEW e \in Events, LeaseRunsOut(e) \/ RetryFallsDue(e) \/ Purge(e)
    PROVE  IInv'
<1> USE DEF IInv
<1>1. UNCHANGED <<status, claimedAt, claims, pc, event, seen, byStripe, answered,
                  wallet, booked>>
  BY DEF LeaseRunsOut, RetryFallsDue, Purge, row, money
<1>2. /\ \A f \in Events : payload'[f] = payload[f] \/ (f = e /\ status[e] = "PROCESSED"
                                                        /\ \A w \in Workers : event[w] # e)
      /\ payload' \in [Events -> BOOLEAN] /\ due' \in [Events -> BOOLEAN]
  BY DEF LeaseRunsOut, RetryFallsDue, Purge, Purgeable, row, TypeOK
<1>3. overran \subseteq overran' /\ overran' \subseteq Events \X (1 .. MaxClaims)
  <2>1. CASE LeaseRunsOut(e)
    BY <2>1 DEF LeaseRunsOut, ClaimsAreCounted, TypeOK
  <2>2. CASE RetryFallsDue(e) \/ Purge(e)
    BY <2>2 DEF RetryFallsDue, Purge, TypeOK
  <2> QED
    BY <2>1, <2>2
<1>4. TypeOK'
  BY <1>1, <1>2, <1>3 DEF TypeOK
<1>5. \A w \in Workers : Known(w)' /\ Booking(w)'
  BY <1>1, <1>2 DEF Known, Booking, Paying, IdempotencyKey
<1>6. ClaimsAreCounted' /\ DoneMeansBooked' /\ UnfinishedKeepsPayload'
  BY <1>1, <1>2
     DEF ClaimsAreCounted, DoneMeansBooked, UnfinishedKeepsPayload, Paying, IdempotencyKey
<1>7. \A f \in Events : Alone(f)'
  BY <1>1, <1>3 DEF Alone, InTime, Handling
<1> QED
  BY <1>4, <1>5, <1>6, <1>7

\* A step that changes nothing.
LEMMA StutterKeepsIInv == ASSUME IInv, UNCHANGED vars PROVE IInv'
BY DEF IInv, TypeOK, Known, Booking, ClaimsAreCounted, DoneMeansBooked,
       UnfinishedKeepsPayload, Alone, InTime, Handling, Paying, IdempotencyKey,
       vars, row, money

\* Every step keeps the invariant.
LEMMA StepKeepsIInv == IInv /\ [Next]_vars => IInv'
<1> SUFFICES ASSUME IInv, [Next]_vars PROVE IInv'
  OBVIOUS
<1>1. CASE UNCHANGED vars
  BY <1>1, StutterKeepsIInv
<1>2. CASE \E w \in Workers, e \in Events : Arrival(w, e)
  <2> PICK w \in Workers, e \in Events : Arrival(w, e)
    BY <1>2
  <2>1. CASE DeliverNew(w, e)
    BY <2>1, ClaimKeepsIInv DEF Claim
  <2>2. CASE DeliverDuplicate(w, e)
    BY <2>2, DuplicateKeepsIInv
  <2>3. CASE DeliverAgain(w, e)
    BY <2>3, LookedKeepsIInv DEF DeliverAgain
  <2>4. CASE Replay(w, e)
    BY <2>4, LookedKeepsIInv DEF Replay
  <2> QED
    BY <2>1, <2>2, <2>3, <2>4 DEF Arrival
<1>3. CASE \E w \in Workers : Work(w) \/ HandlerFails(w) \/ Die(w)
  <2> PICK w \in Workers : Work(w) \/ HandlerFails(w) \/ Die(w)
    BY <1>3
  <2>1. CASE TakeOver(w)
    <3>1. event[w] \in Events
      BY <2>1 DEF TakeOver, IInv, Known
    <3> QED
      BY <2>1, <3>1, ClaimKeepsIInv DEF Claim
  <2>2. CASE TakeOverLost(w) \/ Die(w)
    BY <2>2, ReleasedKeepsIInv
  <2>3. CASE Handle(w) \/ HandlerFails(w)
    BY <2>3, HandlerKeepsIInv
  <2>4. CASE Finish(w) \/ MarkFailed(w)
    BY <2>4, OutcomeKeepsIInv
  <2> QED
    BY <2>1, <2>2, <2>3, <2>4 DEF Work
<1>4. CASE \E e \in Events : LeaseRunsOut(e) \/ RetryFallsDue(e) \/ Purge(e)
  BY <1>4, TimeKeepsIInv
<1> QED
  BY <1>1, <1>2, <1>3, <1>4 DEF Next

\* The inductive invariant of the intake, in every reachable state.
THEOREM Invariant == Spec => []IInv
BY InitIInv, StepKeepsIInv, PTL DEF Spec

\* The state has its type; balances stay natural numbers.
THEOREM TypeCorrect == Spec => []TypeOK
<1>1. IInv => TypeOK
  BY DEF IInv
<1> QED
  BY <1>1, Invariant, PTL

\* An event that its row or Stripe takes for done has its money in the wallet,
\* whoever failed or died on the way.
THEOREM NothingIsLost == Spec => []DoneMeansBooked
<1>1. IInv => DoneMeansBooked
  BY DEF IInv
<1> QED
  BY <1>1, Invariant, PTL

\* What is not done can be replayed: the purge never takes its content.
THEOREM ReplayIsPossible == Spec => []UnfinishedKeepsPayload
<1>1. IInv => UnfinishedKeepsPayload
  BY DEF IInv
<1> QED
  BY <1>1, Invariant, PTL

\* Until a worker overruns its lease, the handler of an event runs once at a time,
\* however many deliveries, retries and replays race for it.
THEOREM HandlerRunsAlone == Spec => []AloneUnlessOverrun
<1>1. IInv => AloneUnlessOverrun
  BY DEF IInv, Alone, InTime, AloneUnlessOverrun
<1> QED
  BY <1>1, Invariant, PTL

-----------------------------------------------------------------------------
(* The balance.                                                            *)

\* The sum in CreditedOnce.
LEMMA PaidIsSum ==
    ASSUME NEW S \in SUBSET Sessions, IsFiniteSet(S)
    PROVE  MapThenSumSet(LAMBDA s : Paid[s], S) = SumOver(Paid, S)
<1> DEFINE Iter == CHOOSE iter : iter =
        [t \in SUBSET S |->
           IF t = {} THEN 0
           ELSE LET x == (CHOOSE x \in t : TRUE) IN Paid[x] + iter[t \ {x}]]
<1>1. \A s \in S : Paid[s] \in Int
  BY WebhookConstants
<1>2. PICK g : Summation(g, Paid, S)
  BY <1>1, SummationExists
<1>3. g = [t \in SUBSET S |->
             IF t = {} THEN 0
             ELSE LET x == (CHOOSE x \in t : TRUE) IN Paid[x] + g[t \ {x}]]
  BY <1>2 DEF Summation, AnyOf
<1>4. Iter = [t \in SUBSET S |->
                IF t = {} THEN 0
                ELSE LET x == (CHOOSE x \in t : TRUE) IN Paid[x] + Iter[t \ {x}]]
  BY <1>3
<1>5. MapThenSumSet(LAMBDA s : Paid[s], S) = Iter[S]
  BY DEF MapThenSumSet, MapThenFoldSet
<1> HIDE DEF Iter
<1>6. Summation(Iter, Paid, S)
  BY <1>4 DEF Summation, AnyOf
<1>7. SumOver(Paid, S) = Iter[S]
  BY <1>1, <1>6, SumIs
<1> QED
  BY <1>5, <1>7

BookedOf(u) == {s \in booked : Payer[s] = u}

\* The books: a balance is what the booked sessions of the customer were paid with,
\* and a session is booked for an event that was received.
Balanced ==
    /\ IsFiniteSet(Received)
    /\ \A e \in Events : payload[e] => status[e] # "absent"
    /\ booked \subseteq Received
    /\ \A u \in Users : wallet[u] = SumOver(Paid, BookedOf(u))

\* The sessions received are finitely many.
LEMMA ReceivedIsFinite == Balanced => IsFiniteSet(Received) /\ Received \subseteq Sessions
BY DEF Balanced, Received

\* Nothing is booked at the start.
LEMMA InitBalanced == Init => Balanced
<1> SUFFICES ASSUME Init PROVE Balanced
  OBVIOUS
<1>1. Received = {} /\ booked = {} /\ \A u \in Users : wallet[u] = 0 /\ BookedOf(u) = {}
  BY DEF Init, Received, BookedOf, Wallet!PromiseInit
<1>2. \A e \in Events : ~payload[e]
  BY DEF Init
<1> QED
  BY <1>1, <1>2, SumOfNone, FS_EmptySet DEF Balanced

\* A step that books nothing keeps the books; it receives one session more, if any.
LEMMA OthersKeepBalanced ==
    ASSUME Balanced, UNCHANGED <<wallet, booked>>,
           NEW E, IsFiniteSet(E),
           \A e \in Events :
             /\ status[e] # "absent" => status'[e] # "absent"
             /\ status'[e] # "absent" => status[e] # "absent" \/ Session[e] \in E
             /\ payload'[e] => status'[e] # "absent"
    PROVE  Balanced'
<1>1. Received' \subseteq Received \cup E
  BY DEF Received
<1>2. IsFiniteSet(Received')
  BY <1>1, FS_Union, FS_Subset DEF Balanced
<1>3. Received \subseteq Received'
  BY DEF Received
<1>4. \A u \in Users : BookedOf(u)' = BookedOf(u)
  BY DEF BookedOf
<1> QED
  BY <1>2, <1>3, <1>4 DEF Balanced

\* The session is booked, and its customer credited.
LEMMA HandleKeepsBalanced ==
    ASSUME IInv, Balanced, NEW v \in Workers, Handle(v)
    PROVE  Balanced'
<1> DEFINE e == event[v]
           k == Session[e]
<1>1. /\ e \in Events /\ k \in Sessions /\ k # NoKey
      /\ payload[e] /\ status[e] # "absent"
      /\ UNCHANGED <<status, payload>>
  BY WebhookConstants DEF IInv, Known, Balanced, Handle, row
<1>2. CASE k \in booked
  <2>1. UNCHANGED <<wallet, booked>>
    BY <1>2 DEF Handle, IdempotencyKey, money
  <2> QED
    BY <1>1, <2>1, FS_EmptySet, OthersKeepBalanced DEF Balanced
<1>3. CASE k \notin booked
  <2>1. /\ wallet' = [wallet EXCEPT ![Payer[k]] = @ + Paid[k]]
        /\ booked' = booked \cup {k}
    BY <1>1, <1>3 DEF Handle, Wallet!Move, Movement, IdempotencyKey
  <2>2. Received' = Received /\ k \in Received
    BY <1>1 DEF Received
  <2>3. ASSUME NEW u \in Users PROVE wallet'[u] = SumOver(Paid, BookedOf(u)')
    <3>1. BookedOf(u) \in SUBSET Sessions /\ IsFiniteSet(BookedOf(u))
      BY ReceivedIsFinite, FS_Subset DEF Balanced, BookedOf
    <3>2. wallet[u] = SumOver(Paid, BookedOf(u)) /\ wallet[u] \in Nat
      BY DEF Balanced, IInv, TypeOK
    <3>3. CASE Payer[k] = u
      <4>1. BookedOf(u)' = BookedOf(u) \cup {k} /\ k \notin BookedOf(u)
        BY <1>3, <2>1, <3>3 DEF BookedOf
      <4>2. SumOver(Paid, BookedOf(u) \cup {k}) = SumOver(Paid, BookedOf(u)) + Paid[k]
        <5>1. \A y \in BookedOf(u) \cup {k} : Paid[y] \in Int
          BY <1>1, <3>1, WebhookConstants
        <5> QED
          BY <3>1, <4>1, <5>1, SumAdds
      <4>3. wallet'[u] = wallet[u] + Paid[k]
        BY <2>1, <3>3 DEF IInv, TypeOK
      <4> QED
        BY <3>2, <4>1, <4>2, <4>3
    <3>4. CASE Payer[k] # u
      <4>1. BookedOf(u)' = BookedOf(u)
        BY <2>1, <3>4 DEF BookedOf
      <4>2. wallet'[u] = wallet[u]
        BY <2>1, <3>4 DEF IInv, TypeOK
      <4> QED
        BY <3>2, <4>1, <4>2
    <3> QED
      BY <3>3, <3>4
  <2> QED
    BY <1>1, <2>1, <2>2, <2>3 DEF Balanced
<1> QED
  BY <1>2, <1>3

\* Every step keeps the balances the sums of what is booked.
LEMMA StepKeepsBalanced == IInv /\ Balanced /\ [Next]_vars => Balanced'
<1> SUFFICES ASSUME IInv, Balanced, [Next]_vars PROVE Balanced'
  OBVIOUS
<1> USE FS_EmptySet DEF Balanced
<1>1. CASE UNCHANGED vars
  BY <1>1, OthersKeepBalanced DEF vars, row, money
<1>2. ASSUME NEW v \in Workers, NEW e \in Events, Claim(v, e) PROVE Balanced'
  <2>1. /\ Claimed(v, e) /\ payload' = [payload EXCEPT ![e] = payload'[e]]
        /\ UNCHANGED <<wallet, booked>>
    BY <1>2 DEF Claim, DeliverNew, TakeOver, IInv, TypeOK, money
  <2> DEFINE E == {Session[e]}
  <2>2. IsFiniteSet(E)
    BY FS_Singleton
  <2>3. \A f \in Events :
          /\ status[f] # "absent" => status'[f] # "absent"
          /\ status'[f] # "absent" => status[f] # "absent" \/ Session[f] \in E
          /\ payload'[f] => status'[f] # "absent"
    BY <2>1 DEF Claimed, IInv, TypeOK
  <2> HIDE DEF E
  <2> QED
    BY <2>1, <2>2, <2>3, OthersKeepBalanced
<1>3. CASE \E w \in Workers, e \in Events : Arrival(w, e)
  <2> PICK w \in Workers, e \in Events : Arrival(w, e)
    BY <1>3
  <2>1. CASE DeliverNew(w, e)
    BY <2>1, <1>2 DEF Claim
  <2>2. CASE DeliverDuplicate(w, e) \/ DeliverAgain(w, e) \/ Replay(w, e)
    BY <2>2, OthersKeepBalanced DEF DeliverDuplicate, DeliverAgain, Replay, Looked, row, money
  <2> QED
    BY <2>1, <2>2 DEF Arrival
<1>4. CASE \E w \in Workers : Work(w) \/ HandlerFails(w) \/ Die(w)
  <2> PICK w \in Workers : Work(w) \/ HandlerFails(w) \/ Die(w)
    BY <1>4
  <2>1. CASE TakeOver(w)
    <3>1. event[w] \in Events
      BY <2>1 DEF TakeOver, IInv, Known
    <3> QED
      BY <2>1, <3>1, <1>2 DEF Claim
  <2>2. CASE Handle(w)
    BY <2>2, HandleKeepsBalanced
  <2>3. CASE TakeOverLost(w) \/ HandlerFails(w) \/ Die(w)
    BY <2>3, OthersKeepBalanced DEF TakeOverLost, HandlerFails, Die, row, money
  <2>4. CASE Finish(w) \/ MarkFailed(w)
    <3>1. event[w] \in Events /\ payload[event[w]]
      BY <2>4 DEF Finish, MarkFailed, IInv, Known
    <3>2. /\ status' = [status EXCEPT ![event[w]] = status'[event[w]]]
          /\ status'[event[w]] # "absent"
          /\ UNCHANGED <<payload, wallet, booked>>
      BY <2>4, <3>1 DEF Finish, MarkFailed, FailedStatus, IInv, TypeOK, money
    <3>3. \A f \in Events :
            /\ status'[f] # "absent" <=> status[f] # "absent"
            /\ payload'[f] => status'[f] # "absent"
      BY <3>1, <3>2 DEF IInv, TypeOK
    <3> QED
      BY <3>2, <3>3, OthersKeepBalanced
  <2> QED
    BY <2>1, <2>2, <2>3, <2>4 DEF Work
<1>5. CASE \E e \in Events : LeaseRunsOut(e) \/ RetryFallsDue(e) \/ Purge(e)
  <2> PICK e \in Events : LeaseRunsOut(e) \/ RetryFallsDue(e) \/ Purge(e)
    BY <1>5
  <2>1. UNCHANGED <<status, wallet, booked>> /\ \A f \in Events : payload'[f] => payload[f]
    BY DEF LeaseRunsOut, RetryFallsDue, Purge, row, money, IInv, TypeOK
  <2> QED
    BY <2>1, OthersKeepBalanced
<1> QED
  BY <1>1, <1>3, <1>4, <1>5 DEF Next

\* A balance is never more than what the sessions received for the customer were paid
\* with: each is credited at most once, although several events report it, and their
\* redeliveries and replays are handled in parallel.
THEOREM CreditedAtMostOnce == Spec => []CreditedOnce
<1>1. Init => IInv /\ Balanced
  BY InitIInv, InitBalanced
<1>2. IInv /\ Balanced /\ [Next]_vars => IInv' /\ Balanced'
  BY StepKeepsIInv, StepKeepsBalanced
<1>3. IInv /\ Balanced => CreditedOnce
  <2> SUFFICES ASSUME Balanced, NEW u \in Users
               PROVE  wallet[u] <= MapThenSumSet(LAMBDA s : Paid[s],
                                                 {s \in Received : Payer[s] = u})
    BY DEF CreditedOnce
  <2> DEFINE S == {s \in Received : Payer[s] = u}
  <2>1. S \in SUBSET Sessions /\ IsFiniteSet(S) /\ BookedOf(u) \in SUBSET S
    BY ReceivedIsFinite, FS_Subset DEF Balanced, BookedOf
  <2>2. MapThenSumSet(LAMBDA s : Paid[s], S) = SumOver(Paid, S)
    BY <2>1, PaidIsSum
  <2>3. \A s \in S : Paid[s] \in Nat
    BY <2>1, WebhookConstants
  <2>4. SumOver(Paid, BookedOf(u)) <= SumOver(Paid, S)
    BY <2>1, <2>3, PartsAreLess
  <2>5. wallet[u] = SumOver(Paid, BookedOf(u))
    BY DEF Balanced
  <2> QED
    BY <2>2, <2>4, <2>5
<1> QED
  BY <1>1, <1>2, <1>3, PTL DEF Spec

-----------------------------------------------------------------------------
(* The reversals.                                                          *)

\* Products and quotients of naturals are naturals.
LEMMA NatArithmetic ==
    /\ \A a, b \in Nat : a * b \in Nat
    /\ \A a \in Nat, b \in Nat \ {0} : a \div b \in Nat
<1>1. \A a, b \in Nat : a * b \in Nat
  BY Z3
<1>2. \A a \in Nat, b \in Nat \ {0} : a \div b \in Nat
  BY Z3
<1> QED
  BY <1>1, <1>2

\* The share of an event is an amount of money.
LEMMA DueIsNat == ASSUME NEW e \in Reversals PROVE Due(e) \in Nat
<1> DEFINE a == Amount[e]
<1>1. a \in Nat /\ TopUp \in Nat /\ PaidMinor \in Nat
  BY ReversalConstants
<1>2. CASE PaidMinor = 0 \/ a >= PaidMinor
  BY <1>1, <1>2 DEF Due, Share
<1>3. CASE ~(PaidMinor = 0 \/ a >= PaidMinor)
  <2> DEFINE n == 2 * TopUp * a + PaidMinor
             d == 2 * PaidMinor
  <2>1. (2 * TopUp) * a \in Nat
    BY <1>1, NatArithmetic
  <2>2. n \in Nat /\ d \in Nat \ {0}
    BY <1>1, <1>3, <2>1
  <2> HIDE DEF n, d
  <2>3. n \div d \in Nat
    BY <2>2, NatArithmetic
  <2>4. Due(e) = n \div d
    BY <1>3 DEF Due, Share, n, d
  <2> QED
    BY <2>3, <2>4
<1> QED
  BY <1>2, <1>3

\* Initially nothing was received.
LEMMA ReversalInitIInv == ReversalInit => ReversalIInv
<1> SUFFICES ASSUME ReversalInit PROVE ReversalIInv
  OBVIOUS
<1>1. ReversalTypeOK
  <2>1. credited \in BOOLEAN /\ stray \subseteq Reversals /\ told \subseteq Reversals \X Nat
    BY Zenon DEF ReversalInit
  <2>2. balance \in Nat /\ reversed \in Nat /\ kwotaCofnieta \in Nat
    BY DEF ReversalInit
  <2>3. /\ handled \in [Reversals -> {"absent", "open", "done"}]
        /\ rowLock \in Reversers \cup {Nobody}
        /\ reversedBy \subseteq Reversals
    BY DEF ReversalInit
  <2>4. /\ place \in [Reversers -> ReversalPlaces]
        /\ reversal \in [Reversers -> Reversals \cup {NoReversal}]
        /\ rest \in [Reversers -> Int] /\ take \in [Reversers -> Nat]
    BY DEF ReversalInit, ReversalPlaces
  <2> QED
    BY <2>1, <2>2, <2>3, <2>4 DEF ReversalTypeOK
<1>2. \A w \in Reversers : Working(w) /\ Holding(w) /\ Committed(w)
  BY DEF ReversalInit, Working, Holding, Committed
<1>3. ReversedWithinReturned /\ ReversedOrTold /\ MarkIsWhole
  BY DEF ReversalInit, ReversedWithinReturned, ReversedOrTold, MarkIsWhole
<1> QED
  BY <1>1, <1>2, <1>3 DEF ReversalIInv

\* Every action but Write leaves what was reversed alone, and only FinishReversal
\* closes a reversal.
LEMMA QuietActions ==
    ASSUME ReversalIInv,
           \/ \E e \in Reversals : Receive(e)
           \/ \E w \in Reversers, e \in Reversals : Begin(w, e)
           \/ \E w \in Reversers :
                \/ LockRow(w) \/ KeyClash(w) \/ Report(w)
                \/ ReportStray(w) \/ ReverserDies(w)
           \/ CreditTopUp
           \/ \E delta \in {-1, 1} : OtherMovement(delta)
    PROVE  ReversalIInv'
<1> USE DEF ReversalIInv
<1>d. \A e \in Reversals : Due(e) \in Nat /\ Due(e)' = Due(e)
  BY DueIsNat DEF Due, Share
<1>0. /\ UNCHANGED <<reversed, kwotaCofnieta, reversedBy>>
      /\ told \subseteq told' /\ stray \subseteq stray'
      /\ ReceivedReversals \subseteq ReceivedReversals'
      /\ \A e \in Reversals : handled'[e] = "done" => handled[e] = "done"
  BY DEF ReversalTypeOK, ReceivedReversals, Receive, Begin, LockRow, KeyClash, Report,
         ReportStray, ReverserDies, Reopened, CreditTopUp, OtherMovement, Idle, tables, reports
<1>1. ReversedWithinReturned' /\ ReversedOrTold' /\ MarkIsWhole'
  <2>1. ReversedWithinReturned'
    BY <1>0, <1>d DEF ReversedWithinReturned, ReceivedReversals
  <2>2. \A e \in Reversals : Settled(e) => Settled(e)'
    BY <1>0, <1>d DEF Settled
  <2>3. ReversedOrTold'
    BY <1>0, <2>2 DEF ReversedOrTold
  <2>4. MarkIsWhole'
    BY <1>0, <1>d DEF MarkIsWhole
  <2> QED
    BY <2>1, <2>3, <2>4
<1>2. CASE \E e \in Reversals : Receive(e)
  <2> PICK e \in Reversals : Receive(e)
    BY <1>2
  <2>1. ReversalTypeOK'
    BY DEF Receive, ReversalTypeOK, tables, reports, worker
  <2>2. \A w \in Reversers : Working(w)' /\ Holding(w)' /\ Committed(w)'
    BY <1>d
       DEF Receive, ReversalTypeOK, Working, Holding, Committed, Settled, tables, reports,
           worker
  <2> QED
    BY <1>1, <2>1, <2>2
<1>3. CASE \E w \in Reversers, e \in Reversals : Begin(w, e)
  <2> PICK v \in Reversers, e \in Reversals : Begin(v, e)
    BY <1>3
  <2>1. ReversalTypeOK'
    BY DEF Begin, ReversalTypeOK, ReversalPlaces, tables, reports
  <2>2. ASSUME NEW w \in Reversers PROVE Working(w)' /\ Holding(w)' /\ Committed(w)'
    <3>1. CASE w = v
      BY <3>1 DEF Begin, ReversalTypeOK, Working, Holding, Committed
    <3>2. CASE w # v
      BY <3>2, <1>d
         DEF Begin, ReversalTypeOK, Working, Holding, Committed, Settled, tables, reports
    <3> QED
      BY <3>1, <3>2
  <2> QED
    BY <1>1, <2>1, <2>2
<1>4. CASE \E w \in Reversers : LockRow(w)
  <2> PICK v \in Reversers : LockRow(v)
    BY <1>4
  <2>0. reversal[v] \in Reversals
    BY DEF LockRow, Working
  <2>1. ReversalTypeOK'
    BY <2>0, <1>d DEF LockRow, ReversalTypeOK, ReversalPlaces, Least, tables, reports
  <2>2. ASSUME NEW w \in Reversers PROVE Working(w)' /\ Holding(w)' /\ Committed(w)'
    <3>1. CASE w = v
      BY <3>1, <1>d, <2>0
         DEF LockRow, ReversalTypeOK, Working, Holding, Committed, tables, reports
    <3>2. CASE w # v
      BY <3>2, <1>d, ReversalConstants
         DEF LockRow, RowFree, ReversalTypeOK, Working, Holding, Committed, Settled, tables,
             reports
    <3> QED
      BY <3>1, <3>2
  <2> QED
    BY <1>1, <2>1, <2>2
<1>5. CASE \E w \in Reversers : KeyClash(w) \/ ReverserDies(w)
  <2> PICK v \in Reversers : KeyClash(v) \/ ReverserDies(v)
    BY <1>5
  <2>1. ReversalTypeOK'
    BY DEF KeyClash, ReverserDies, Reopened, Idle, ReversalTypeOK, ReversalPlaces, tables,
           reports
  <2>2. ASSUME NEW w \in Reversers PROVE Working(w)' /\ Holding(w)' /\ Committed(w)'
    <3>1. CASE w = v
      BY <3>1
         DEF KeyClash, ReverserDies, Reopened, Idle, ReversalTypeOK, Working, Holding, Committed
    <3>2. CASE w # v
      BY <3>2, <1>d
         DEF KeyClash, ReverserDies, Reopened, Idle, ReversalTypeOK, Working, Holding,
             Committed, Settled, tables, reports
    <3> QED
      BY <3>1, <3>2
  <2> QED
    BY <1>1, <2>1, <2>2
<1>6. CASE \E w \in Reversers : Report(w)
  <2> PICK v \in Reversers : Report(v)
    BY <1>6
  <2>0. reversal[v] \in Reversals /\ rest[v] - take[v] \in Nat
    BY DEF Report, Working, Committed
  <2>1. ReversalTypeOK'
    BY <2>0 DEF Report, ReversalTypeOK, ReversalPlaces, tables, reports
  <2>2. ASSUME NEW w \in Reversers PROVE Working(w)' /\ Holding(w)' /\ Committed(w)'
    <3>1. CASE w = v
      <4> DEFINE m == <<reversal[v], rest[v] - take[v]>>
      <4>1. m \in told' /\ m[1] = reversal[v] /\ m[2] = rest[v] - take[v]
        BY DEF Report
      <4>2. reversed' + m[2] >= Due(reversal[v])'
        BY <2>0, <4>1, <1>0, <1>d DEF Report, Committed
      <4>3. reversal'[v] = reversal[v] /\ place'[v] = "finish" /\ handled' = handled
        BY DEF Report, ReversalTypeOK
      <4>4. Settled(reversal[v])'
        BY <4>1, <4>2, <4>3 DEF Settled
      <4>5. kwotaCofnieta' >= Due(reversal[v])'
        BY <2>0, <1>0, <1>d DEF Report, Committed
      <4> QED
        BY <3>1, <2>0, <4>3, <4>4, <4>5 DEF Report, Working, Holding, Committed, Settled
    <3>2. CASE w # v
      BY <3>2, <1>d
         DEF Report, ReversalTypeOK, Working, Holding, Committed, Settled, tables, reports
    <3> QED
      BY <3>1, <3>2
  <2> QED
    BY <1>1, <2>1, <2>2
<1>8. CASE \E w \in Reversers : ReportStray(w)
  <2> PICK v \in Reversers : ReportStray(v)
    BY <1>8
  <2>0. reversal[v] \in Reversals
    BY DEF ReportStray, Working
  <2>1. ReversalTypeOK'
    BY <2>0 DEF ReportStray, ReversalTypeOK, ReversalPlaces, tables, reports
  <2>2. ASSUME NEW w \in Reversers PROVE Working(w)' /\ Holding(w)' /\ Committed(w)'
    <3>1. CASE w = v
      BY <3>1, <2>0 DEF ReportStray, ReversalTypeOK, Working, Holding, Committed, Settled
    <3>2. CASE w # v
      BY <3>2, <1>d
         DEF ReportStray, ReversalTypeOK, Working, Holding, Committed, Settled, tables, reports
    <3> QED
      BY <3>1, <3>2
  <2> QED
    BY <1>1, <2>1, <2>2
<1>9. CASE CreditTopUp
  <2>1. ReversalTypeOK'
    BY <1>9, ReversalConstants DEF CreditTopUp, ReversalTypeOK, worker, reports
  <2>2. \A w \in Reversers : Working(w)' /\ Holding(w)' /\ Committed(w)'
    BY <1>9, <1>d, ReversalConstants DEF CreditTopUp, RowFree, ReversalTypeOK, Working, Holding,
                                         Committed, Settled, worker, reports
  <2> QED
    BY <1>1, <2>1, <2>2
<1>7. CASE \E delta \in {-1, 1} : OtherMovement(delta)
  <2> PICK delta \in {-1, 1} : OtherMovement(delta)
    BY <1>7
  <2>1. ReversalTypeOK'
    BY ReversalConstants DEF OtherMovement, ReversalTypeOK, worker, reports
  <2>2. \A w \in Reversers : Working(w)' /\ Holding(w)' /\ Committed(w)'
    BY <1>d, ReversalConstants DEF OtherMovement, RowFree, ReversalTypeOK, Working, Holding,
                                   Committed, Settled, worker, reports
  <2> QED
    BY <1>1, <2>1, <2>2
<1> QED
  BY <1>2, <1>3, <1>4, <1>5, <1>6, <1>7, <1>8, <1>9

\* What a commit does to the reversals: it takes what it computed under the lock,
\* which together with what was reversed before is at most the share of its event.
LEMMA WriteEffect ==
    ASSUME ReversalIInv, NEW v \in Reversers, Write(v)
    PROVE  /\ reversal[v] \in ReceivedReversals
           /\ take[v] \in Nat /\ rest[v] \in Int
           /\ reversed' = reversed + take[v]
           /\ take[v] <= balance
           /\ take[v] = 0 \/ reversed' <= Due(reversal[v])
           /\ rest[v] > 0 =>
                 rest[v] - take[v] \in Nat /\ reversed' + (rest[v] - take[v]) = Due(reversal[v])
           /\ ~(rest[v] > 0) => reversed' >= Due(reversal[v])
           /\ kwotaCofnieta' >= kwotaCofnieta
           /\ kwotaCofnieta' >= Due(reversal[v])
           /\ kwotaCofnieta' \in Nat
<1> USE DEF ReversalIInv
<1>1. reversal[v] \in Reversals /\ reversal[v] \in ReceivedReversals
  BY DEF Write, Working, ReceivedReversals
<1>2. Due(reversal[v]) \in Nat
  BY <1>1, DueIsNat
<1>3. /\ rest[v] = Due(reversal[v]) - reversed
      /\ take[v] = IF rest[v] > 0 THEN Least(rest[v], balance) ELSE 0
  BY DEF Write, Holding
<1>4. balance \in Nat /\ reversed \in Nat /\ kwotaCofnieta \in Nat /\ take[v] \in Nat
  BY DEF ReversalTypeOK
<1>5. /\ kwotaCofnieta' = Greatest(kwotaCofnieta, Due(reversal[v]))
      /\ reversed' = reversed + take[v]
  BY DEF Write, Marked
<1> QED
  BY <1>1, <1>2, <1>3, <1>4, <1>5 DEF Least, Greatest

\* The commit of a reversal keeps the invariant.
LEMMA WriteKeepsIInv == ASSUME ReversalIInv, NEW v \in Reversers, Write(v) PROVE ReversalIInv'
<1> USE DEF ReversalIInv
<1>d. \A e \in Reversals : Due(e) \in Nat /\ Due(e)' = Due(e)
  BY DueIsNat DEF Due, Share
<1>e. /\ reversal[v] \in Reversals /\ UNCHANGED <<handled, told, stray>>
      /\ ReceivedReversals' = ReceivedReversals
  BY DEF Write, Working, ReceivedReversals, reports
<1>t. take[v] \in Nat /\ take[v] <= balance /\ kwotaCofnieta' \in Nat
  BY WriteEffect
<1>1. ReversalTypeOK'
  <2>1. balance' \in Nat /\ reversed' \in Nat
    BY <1>t DEF Write, ReversalTypeOK
  <2>2. reversedBy' \subseteq Reversals
    BY <1>e DEF Write, ReversalTypeOK
  <2>3. place' \in [Reversers -> ReversalPlaces]
    BY DEF Write, ReversalTypeOK, ReversalPlaces
  <2>4. rowLock' \in Reversers \cup {Nobody}
    BY DEF Write
  <2>5. UNCHANGED <<handled, credited, told, stray, reversal, rest, take>>
    BY DEF Write, reports
  <2> QED
    BY <1>t, <2>1, <2>2, <2>3, <2>4, <2>5 DEF ReversalTypeOK
<1>2. \A e \in Reversals : Settled(e) => Settled(e)'
  BY <1>d, <1>e, WriteEffect DEF ReversalTypeOK, Settled
<1>3. ReversedWithinReturned'
  BY <1>d, <1>e, WriteEffect DEF ReversalTypeOK, ReversedWithinReturned, ReceivedReversals
<1>4. ReversedOrTold'
  BY <1>2, <1>e DEF ReversedOrTold
<1>5. MarkIsWhole'
  BY <1>d, <1>e, WriteEffect DEF ReversalTypeOK, MarkIsWhole
<1>6. ASSUME NEW w \in Reversers PROVE Working(w)' /\ Holding(w)' /\ Committed(w)'
  <2>1. CASE w = v
    <3>1. Working(w)' /\ Holding(w)'
      BY <2>1, <1>e DEF Write, ReversalTypeOK, Working, Holding
    <3>2. Committed(w)'
      <4>1. /\ reversal'[v] = reversal[v] /\ rest'[v] = rest[v] /\ take'[v] = take[v]
            /\ place'[v] = IF rest[v] > 0 THEN "report" ELSE "finish"
        BY DEF Write, ToReport, ReversalTypeOK
      <4>2. kwotaCofnieta' >= Due(reversal[v])
        BY WriteEffect
      <4>3. CASE rest[v] > 0
        BY <2>1, <4>1, <4>2, <4>3, <1>d, <1>e, WriteEffect DEF ReversalTypeOK, Committed
      <4>4. CASE ~(rest[v] > 0)
        <5>1. reversed' >= Due(reversal[v])
          BY <4>4, WriteEffect
        <5> QED
          BY <2>1, <4>1, <4>2, <4>4, <5>1 DEF Committed, Settled
      <4> QED
        BY <4>3, <4>4
    <3> QED
      BY <3>1, <3>2
  <2>2. CASE w # v
    <3>1. /\ place'[w] = place[w] /\ reversal'[w] = reversal[w]
          /\ rest'[w] = rest[w] /\ take'[w] = take[w]
      BY <2>2 DEF Write, ReversalTypeOK
    <3>2. Working(w)'
      BY <3>1, <1>e DEF Working
    <3>3. Holding(w)'
      BY <2>2, <3>1 DEF Write, Holding
    <3>4. Committed(w)'
      <4>1. place[w] # "idle" => reversal[w] \in Reversals
        BY DEF Working
      <4> QED
        BY <1>2, <1>d, <1>e, <4>1, <3>1, WriteEffect DEF ReversalTypeOK, Committed
    <3> QED
      BY <3>2, <3>3, <3>4
  <2> QED
    BY <2>1, <2>2
<1> QED
  BY <1>1, <1>3, <1>4, <1>5, <1>6

\* An event is closed only after its commit, and its report if there was one to make.
LEMMA FinishKeepsIInv ==
    ASSUME ReversalIInv, NEW v \in Reversers, FinishReversal(v)
    PROVE  ReversalIInv'
<1> USE DEF ReversalIInv
<1>d. \A e \in Reversals : Due(e) \in Nat /\ Due(e)' = Due(e)
  BY DueIsNat DEF Due, Share
<1>e. reversal[v] \in Reversals /\ UNCHANGED <<reversed, told, stray, kwotaCofnieta>>
  BY DEF FinishReversal, Working, tables, reports
<1>1. ReversalTypeOK'
  BY <1>e DEF FinishReversal, Idle, ReversalTypeOK, ReversalPlaces, tables, reports
<1>2. \A e \in Reversals : Settled(e) => Settled(e)'
  BY <1>d, <1>e DEF Settled
<1>3. Settled(reversal[v]) /\ (reversal[v] \in stray \/ kwotaCofnieta >= Due(reversal[v]))
  BY DEF FinishReversal, Committed
<1>4. \A e \in Reversals : handled'[e] = IF e = reversal[v] THEN "done" ELSE handled[e]
  BY DEF FinishReversal, ReversalTypeOK
<1>5. ReversedWithinReturned'
  BY <1>d, <1>e, <1>4 DEF ReversedWithinReturned, ReceivedReversals
<1>6. ReversedOrTold'
  BY <1>2, <1>3, <1>4, <1>e DEF ReversedOrTold
<1>7. MarkIsWhole'
  BY <1>d, <1>e, <1>3, <1>4 DEF MarkIsWhole
<1>8. ASSUME NEW w \in Reversers PROVE Working(w)' /\ Holding(w)' /\ Committed(w)'
  <2>1. CASE w = v
    BY <2>1 DEF FinishReversal, Idle, ReversalTypeOK, Working, Holding, Committed
  <2>2. CASE w # v
    BY <2>2, <1>d, <1>2, <1>4, <1>e
       DEF FinishReversal, Idle, ReversalTypeOK, Working, Holding, Committed, tables, reports
  <2> QED
    BY <2>1, <2>2
<1> QED
  BY <1>1, <1>5, <1>6, <1>7, <1>8

\* A step that changes nothing.
LEMMA ReversalStutterKeepsIInv ==
    ASSUME ReversalIInv, UNCHANGED reversalVars
    PROVE  ReversalIInv'
BY DEF ReversalIInv, ReversalTypeOK, Working, Holding, Committed, Settled,
       ReversedWithinReturned, ReversedOrTold, MarkIsWhole, ReceivedReversals, Due, Share,
       reversalVars, tables, reports, worker

\* Every step keeps the invariant.
LEMMA ReversalStepKeepsIInv == ReversalIInv /\ [ReversalNext]_reversalVars => ReversalIInv'
<1> SUFFICES ASSUME ReversalIInv, [ReversalNext]_reversalVars PROVE ReversalIInv'
  OBVIOUS
<1>1. CASE UNCHANGED reversalVars
  BY <1>1, ReversalStutterKeepsIInv
<1>2. CASE \E w \in Reversers : Write(w)
  BY <1>2, WriteKeepsIInv
<1>3. CASE \E w \in Reversers : FinishReversal(w)
  BY <1>3, FinishKeepsIInv
<1> QED
  BY <1>1, <1>2, <1>3, QuietActions DEF ReversalNext, Reverse

\* The inductive invariant of the reversal, in every reachable state.
THEOREM ReversalInvariant == ReversalSpec => []ReversalIInv
BY ReversalInitIInv, ReversalStepKeepsIInv, PTL DEF ReversalSpec

\* The state has its type; the balance is never negative, whatever is taken back.
THEOREM ReversalTypeCorrect == ReversalSpec => []ReversalTypeOK
<1>1. ReversalIInv => ReversalTypeOK
  BY DEF ReversalIInv
<1> QED
  BY <1>1, ReversalInvariant, PTL

\* However many refunds and disputes of a payment are handled at once, and wherever
\* their runs die, the wallet gives back no more than the share of what was returned
\* to the card.
THEOREM NeverTakesTooMuch == ReversalSpec => []ReversedWithinReturned
<1>1. ReversalIInv => ReversedWithinReturned
  BY DEF ReversalIInv
<1> QED
  BY <1>1, ReversalInvariant, PTL

\* A refund or dispute that is done was reversed, or its shortage reported.
THEOREM NothingIsForgotten == ReversalSpec => []ReversedOrTold
<1>1. ReversalIInv => ReversedOrTold
  BY DEF ReversalIInv
<1> QED
  BY <1>1, ReversalInvariant, PTL

\* The mark, from which the partner's commission is computed, covers every event
\* that is done and all that the ledger took, in whatever order events came.
THEOREM MarkCoversAll == ReversalSpec => []MarkIsWhole
<1>1. ReversalIInv => MarkIsWhole
  BY DEF ReversalIInv
<1> QED
  BY <1>1, ReversalInvariant, PTL

=============================================================================
