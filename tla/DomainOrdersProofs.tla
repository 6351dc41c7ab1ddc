-------------------------- MODULE DomainOrdersProofs --------------------------
(***************************************************************************)
(* For any number of requests and passes over any number of orders for the *)
(* name: a fee that was taken is followed to its end, a customer has one   *)
(* renewal outstanding or just ended, and, as long as nothing misleads a   *)
(* pass (Clean names what may), no fee goes back for what the registrar    *)
(* has done and no order is closed as served that was not.                 *)
(*                                                                         *)
(* The argument: from its insertion until its first answer an order is     *)
(* served by one request (OneServes), and the passes find it only after    *)
(* that; what a request or a pass knows of the registrar (Knows) stays     *)
(* true, since only that request can call the registrar for the order.     *)
(***************************************************************************)
EXTENDS DomainOrders, FiniteSetTheorems, TLAPS

JobType == [at: Places, op: Operations, on: {0} \cup Orders,
            late: BOOLEAN, date: {NoDate} \cup Dates]

\* A request serves the order it put in until its answer is written.
Requests == {"register", "transfer", "renew", "retry"}
Serving == {"charge", "call", "answer", "unsure", "write", "refund", "fail"}
Serves(c, o) == job[c].op \in Requests /\ job[c].at \in Serving /\ Order(c) = o

OneServes == \A c, d \in Callers, o \in Orders : Serves(c, o) /\ Serves(d, o) => c = d

\* What a caller is at fits the order it is at.
AtRequest(c) ==
    /\ At(c, "lock") \/ At(c, "put")
    /\ \/ job[c].op \in {"register", "transfer", "renew"} /\ Order(c) = 0
       \/ /\ job[c].op = "retry" /\ Order(c) \in Orders
          /\ kind[Order(c)] # "RENEW" /\ status[Order(c)] \in {"FAILED", "PENDING_PAYMENT"}
    /\ job[c].op = "register" => name = "free"
    /\ job[c].op = "transfer" => name = "elsewhere"

AtService(c) ==
    /\ job[c].at \in Serving /\ job[c].op \in Requests
    /\ Order(c) \in Orders
    /\ status[Order(c)] = "QUEUED" /\ Order(c) \notin old

AtUncertain(c) ==
    /\ job[c].at \in {"row", "look", "close", "refund", "fail"} /\ job[c].op = "uncertain"
    /\ Order(c) \in Orders
    /\ status[Order(c)] \in {"UNCERTAIN", "SUBMITTED", "COMPLETED", "FAILED"}

AtTransfers(c) ==
    /\ job[c].at \in {"state", "accept", "refund", "fail"} /\ job[c].op = "transfers"
    /\ Order(c) \in Orders /\ ref[Order(c)] \in Orders
    /\ kind[Order(c)] = "TRANSFER"
    /\ status[Order(c)] \in {"SUBMITTED", "COMPLETED", "FAILED"}

AtRest(c) == Order(c) = 0 /\ \/ At(c, "idle") /\ job[c].op = "none"
                             \/ job[c].at \in {"ask", "sync"} /\ job[c].op = "sync"

JobFits(c) == AtRequest(c) \/ AtService(c) \/ AtUncertain(c) \/ AtTransfers(c) \/ AtRest(c)

\* Date d is that of the row when the clean renewal o was ordered.
DateOfOrder(o, d) == d # NoDate /\ expiry = IF sent[o] = "done" THEN d + 1 ELSE d

\* What a caller has learnt of its order at the registrar and in the wallet.
Knows(c) ==
    LET o == Order(c) IN
    /\ At(c, "charge") => o \notin charged
    /\ At(c, "charge") \/ At(c, "call") => sent[o] = "no"
    /\ At(c, "answer") \/ At(c, "unsure") => sent[o] # "no"
    /\ At(c, "write") => sent[o] \in {"done", "pending", "failed"}
    /\ At(c, "refund") => o \in charged
    /\ At(c, "refund") \/ At(c, "fail") => (Clean(o) => sent[o] \in {"lost", "failed"})
    /\ At(c, "fail") => o \notin charged \/ o \in refunded \cup byHand
    /\ job[c].op = "uncertain" => sent[o] # "no" /\ (job[c].late => sent[o] # "open")
    /\ At(c, "row") /\ o \in clean => status[o] # "COMPLETED"
    /\ At(c, "look") /\ o \in clean => DateOfOrder(o, job[c].date)
    /\ At(c, "close") =>
         /\ o \in clean => sent[o] = "done"
         /\ kind[o] = "REGISTER" => \E p \in Orders : kind[p] = "REGISTER" /\ sent[p] = "done"
    /\ At(c, "accept") => sent[ref[o]] = "done"

\* What the status of an order says of the wallet and of the registrar, and what
\* the dates say of a renewal that nothing has misled.
OrderFits(o) ==
    /\ status[o] = "none" => /\ sent[o] = "no" /\ ref[o] = 0 /\ kind[o] = "RENEW"
                             /\ o \notin charged \cup due \cup old \cup clean
    /\ status[o] = "UNCERTAIN" => sent[o] # "no"
    /\ status[o] = "SUBMITTED" => kind[o] = "TRANSFER" /\ ref[o] \in Orders
    /\ ref[o] # 0 => status[o] \in {"SUBMITTED", "COMPLETED", "FAILED"}
    /\ kind[o] = "REGISTER" => name = "free"
    /\ kind[o] = "TRANSFER" => name = "elsewhere"
    /\ sent[o] \in {"pending", "failed"} => kind[o] = "TRANSFER"
    /\ o \in due => /\ sent[o] \notin {"no", "open"}
                    /\ status[o] \in {"UNCERTAIN", "SUBMITTED", "COMPLETED", "FAILED"}
    /\ o \in clean => /\ kind[o] = "RENEW"
                      /\ IF status[o] = "COMPLETED" THEN sent[o] = "done" ELSE DateOfOrder(o, row)

\* FeeIsAnswered, with the request named that still serves a QUEUED order.
FeeIsFollowed(o) ==
    o \in charged =>
        \/ o \in left
        \/ status[o] = "QUEUED" /\ \E c \in Callers : Serves(c, o)
        \/ status[o] \in {"SUBMITTED", "UNCERTAIN", "COMPLETED"}
        \/ status[o] = "FAILED" /\ o \in refunded \cup byHand

\* A renewal that holds the row found none in progress, and none gets there.
Renewing(c) == At(c, "put") /\ job[c].op = "renew"
Outstanding(o) ==
    /\ kind[o] = "RENEW"
    /\ \/ status[o] = "UNCERTAIN"
       \/ status[o] \in {"QUEUED", "COMPLETED"} /\ o \notin old
RenewalLock ==
    /\ \A c, d \in Callers : Renewing(c) /\ Renewing(d) => c = d
    /\ \A c \in Callers, o \in Orders : Renewing(c) => ~InProgress(o)
    /\ \A o, p \in Orders : Outstanding(o) /\ Outstanding(p) => o = p

\* The registrar counts a year for each renewal it has done.
Executed == {o \in Orders : kind[o] = "RENEW" /\ sent[o] = "done"}
ExpiryFits == expiry = 1 + Cardinality(Executed)

\* The inductive invariant.
IInv ==
    /\ TypeOK
    /\ \A c \in Callers : JobFits(c) /\ Knows(c)
    /\ \A o \in Orders : OrderFits(o) /\ FeeIsFollowed(o)
    /\ OneServes
    /\ RenewalLock
    /\ ExpiryFits

-----------------------------------------------------------------------------

\* The invariant holds at the start.
LEMMA InitIInv == Init => IInv
<1> SUFFICES ASSUME Init PROVE IInv
  OBVIOUS
<1>1. TypeOK
  BY DomainConstants
     DEF Init, TypeOK, Rest, Statuses, Kinds, Places, Operations, Nowhere, Dates, NoDate
<1>2. \A c \in Callers : JobFits(c) /\ Knows(c)
  BY DEF Init, Rest, JobFits, Knows, AtRest, At, Order
<1>3. \A o \in Orders : OrderFits(o) /\ FeeIsFollowed(o)
  BY DEF Init, OrderFits, FeeIsFollowed
<1>4. OneServes /\ RenewalLock
  BY DEF Init, Rest, OneServes, Serves, Requests, RenewalLock, Renewing, At, Outstanding,
         InProgress
<1>5. ExpiryFits
  <2>1. Executed = {}
    BY DEF Init, Executed
  <2> QED
    BY <2>1, FS_EmptySet DEF Init, ExpiryFits
<1> QED
  BY <1>1, <1>2, <1>3, <1>4, <1>5 DEF IInv

\* A step that only moves caller c on, to a job that fits and of which it knows
\* what it should, neither into the service of an order nor out of it unnoticed.
LEMMA MovingOnKeepsIInv ==
    ASSUME IInv, NEW c \in Callers, NEW r \in JobType,
           job' = [job EXCEPT ![c] = r],
           UNCHANGED <<name, order, money, registrar>>,
           \/ row' = row /\ clean' = clean
           \/ row' \in {Nowhere, NoDate} \cup Dates /\ clean' = {},
           left \subseteq left', left' \subseteq Orders, deaths' \in 0 .. MaxDeaths,
           JobFits(c)', Knows(c)',
           \A o \in Orders : Serves(c, o)' => Serves(c, o),
           \A o \in Orders : Serves(c, o) => Serves(c, o)' \/ o \in left' \/ o \notin charged,
           Renewing(c)' => /\ \A d \in Callers : ~Renewing(d)
                           /\ \A o \in Orders : ~InProgress(o)
    PROVE  IInv'
<1> USE DEF order, money, registrar
<1>1. TypeOK'
  BY DEF IInv, TypeOK, JobType
<1>2. /\ job'[c] = r
      /\ \A d \in Callers : d # c => job'[d] = job[d]
  BY DEF IInv, TypeOK, JobType
<1>3. \A d \in Callers : JobFits(d)' /\ Knows(d)'
  <2> SUFFICES ASSUME NEW d \in Callers, d # c PROVE JobFits(d)' /\ Knows(d)'
    OBVIOUS
  <2>1. JobFits(d) /\ Knows(d) /\ job'[d] = job[d]
    BY <1>2 DEF IInv
  <2>2. JobFits(d)'
    BY <2>1 DEF JobFits, AtRequest, AtService, AtUncertain, AtTransfers, AtRest, At, Order
  <2> QED
    BY <2>1, <2>2 DEF Knows, Clean, At, Order, DateOfOrder
<1>4. \A o \in Orders : OrderFits(o)'
  BY DEF IInv, OrderFits, DateOfOrder
<1>5. \A o \in Orders : FeeIsFollowed(o)'
  <2> SUFFICES ASSUME NEW o \in Orders, o \in charged, status[o] = "QUEUED", o \notin left'
               PROVE  \E d \in Callers : Serves(d, o)'
    BY DEF IInv, FeeIsFollowed
  <2>1. PICK d \in Callers : Serves(d, o)
    BY DEF IInv, FeeIsFollowed
  <2> QED
    BY <1>2, <2>1 DEF Serves, Order
<1>6. OneServes'
  BY <1>2 DEF IInv, OneServes, Serves, Order
<1>7. RenewalLock'
  <2>1. \A d \in Callers : d # c => (Renewing(d)' <=> Renewing(d))
    BY <1>2 DEF Renewing, At
  <2>2. \A o \in Orders : (InProgress(o)' <=> InProgress(o))
                          /\ (Outstanding(o)' <=> Outstanding(o))
    BY DEF InProgress, Outstanding
  <2> QED
    BY <2>1, <2>2 DEF IInv, RenewalLock
<1>8. ExpiryFits'
  BY DEF IInv, ExpiryFits, Executed
<1> QED
  BY <1>1, <1>3, <1>4, <1>5, <1>6, <1>7, <1>8 DEF IInv

-----------------------------------------------------------------------------
(* One lemma for each kind of step.                                        *)

\* A request or a pass begins.
LEMMA BeginKeepsIInv ==
    ASSUME IInv, NEW c \in Callers, Begin(c)
    PROVE  IInv'
<1> USE DEF order, money, registrar, ghost
<1>1. /\ job[c] \in JobType /\ Rest \in JobType
      /\ left \subseteq Orders /\ deaths \in 0 .. MaxDeaths
  BY DEF IInv, TypeOK, JobType, Rest, Places, Operations
<1>2. ASSUME NEW r \in JobType, r.at \notin Serving, r.at = "put" => r.op # "renew",
             At(c, "idle"), job' = [job EXCEPT ![c] = r],
             UNCHANGED <<name, order, money, row, registrar, clean, ghost>>,
             JobFits(c)', Knows(c)'
      PROVE  IInv'
  <2>1. job'[c] = r
    BY <1>2 DEF IInv, TypeOK
  <2>2. \A o \in Orders : ~Serves(c, o) /\ ~Serves(c, o)'
    BY <1>2, <2>1 DEF Serves, At, Serving
  <2>3. ~Renewing(c)'
    BY <1>2, <2>1 DEF Renewing, At
  <2> QED
    BY <1>1, <1>2, <2>2, <2>3, MovingOnKeepsIInv
<1>3. CASE BeginRegister(c)
  <2> DEFINE r == [Rest EXCEPT !.at = "put", !.op = "register", !.on = 0]
  <2>1. r \in JobType /\ job' = [job EXCEPT ![c] = r]
       /\ job'[c].at = "put" /\ job'[c].op = "register" /\ job'[c].on = 0
    BY <1>1, <1>3
       DEF BeginRegister, Starts, IInv, TypeOK, JobType, Places, Operations, Rest
  <2>2. JobFits(c)' /\ Knows(c)'
    BY <1>3, <2>1 DEF BeginRegister, Available, JobFits, AtRequest, Knows, At, Order, Rest
  <2> QED
    BY <1>2, <1>3, <2>1, <2>2 DEF BeginRegister, Starts, Serving, Rest
<1>4. CASE BeginTransfer(c)
  <2> DEFINE r == [Rest EXCEPT !.at = "put", !.op = "transfer", !.on = 0]
  <2>1. r \in JobType /\ job' = [job EXCEPT ![c] = r]
       /\ job'[c].at = "put" /\ job'[c].op = "transfer" /\ job'[c].on = 0
    BY <1>1, <1>4
       DEF BeginTransfer, Starts, IInv, TypeOK, JobType, Places, Operations, Rest
  <2>2. JobFits(c)' /\ Knows(c)'
    BY <1>4, <2>1 DEF BeginTransfer, JobFits, AtRequest, Knows, At, Order, Rest
  <2> QED
    BY <1>2, <1>4, <2>1, <2>2 DEF BeginTransfer, Starts, Serving, Rest
<1>5. CASE BeginRenew(c)
  <2> DEFINE r == [Rest EXCEPT !.at = "lock", !.op = "renew", !.on = 0]
  <2>1. r \in JobType /\ job' = [job EXCEPT ![c] = r]
       /\ job'[c].at = "lock" /\ job'[c].op = "renew" /\ job'[c].on = 0
    BY <1>1, <1>5
       DEF BeginRenew, Starts, IInv, TypeOK, JobType, Places, Operations, Rest
  <2>2. JobFits(c)' /\ Knows(c)'
    BY <1>5, <2>1 DEF BeginRenew, JobFits, AtRequest, Knows, At, Order, Rest
  <2> QED
    BY <1>2, <1>5, <2>1, <2>2 DEF BeginRenew, Starts, Serving, Rest
<1>6. CASE BeginSync(c)
  <2> DEFINE r == [Rest EXCEPT !.at = "ask", !.op = "sync", !.date = row]
  <2>1. r \in JobType /\ job' = [job EXCEPT ![c] = r]
       /\ job'[c].at = "ask" /\ job'[c].op = "sync" /\ job'[c].on = 0
    BY <1>1, <1>6 DEF BeginSync, IInv, TypeOK, JobType, Places, Operations, Rest
  <2>2. JobFits(c)' /\ Knows(c)'
    BY <2>1 DEF JobFits, AtRest, Knows, At, Order, Rest
  <2> QED
    BY <1>2, <1>6, <2>1, <2>2 DEF BeginSync, Serving, Rest
<1>7. ASSUME NEW o \in Orders, BeginRetry(c, o) PROVE IInv'
  <2> DEFINE r == [Rest EXCEPT !.at = "lock", !.op = "retry", !.on = o]
  <2>1. r \in JobType /\ job' = [job EXCEPT ![c] = r]
       /\ job'[c].at = "lock" /\ job'[c].op = "retry" /\ job'[c].on = o
    BY <1>1, <1>7
       DEF BeginRetry, Starts, IInv, TypeOK, JobType, Places, Operations, Rest
  <2>2. JobFits(c)' /\ Knows(c)'
    BY <1>7, <2>1 DEF BeginRetry, JobFits, AtRequest, Knows, At, Order, Rest
  <2> QED
    BY <1>2, <1>7, <2>1, <2>2 DEF BeginRetry, Starts, Serving, Rest
<1>8. ASSUME NEW o \in Orders, BeginUncertain(c, o) PROVE IInv'
  <2> DEFINE r == [at |-> "row", op |-> "uncertain", on |-> o, late |-> o \in due,
                   date |-> NoDate]
  <2>1. r \in JobType /\ job' = [job EXCEPT ![c] = r]
       /\ job'[c].at = "row" /\ job'[c].op = "uncertain" /\ job'[c].on = o
       /\ job'[c] = r
    BY <1>1, <1>8
       DEF BeginUncertain, IInv, TypeOK, JobType, Places, Operations
  <2>2. OrderFits(o) /\ (job'[c].late => o \in due)
    <3>1. r.late => o \in due
      BY ZenonT(20)
    <3> QED
      BY <2>1, <3>1 DEF IInv
  <2>3. JobFits(c)' /\ Knows(c)'
    BY <1>8, <2>1, <2>2 DEF BeginUncertain, OrderFits, JobFits, AtUncertain, Knows, At, Order
  <2> QED
    BY <1>2, <1>8, <2>1, <2>3 DEF BeginUncertain, Serving
<1>9. ASSUME NEW o \in Orders, BeginTransfers(c, o) PROVE IInv'
  <2> DEFINE r == [Rest EXCEPT !.at = "state", !.op = "transfers", !.on = o]
  <2>1. r \in JobType /\ job' = [job EXCEPT ![c] = r]
       /\ job'[c].at = "state" /\ job'[c].op = "transfers" /\ job'[c].on = o
    BY <1>1, <1>9
       DEF BeginTransfers, Starts, IInv, TypeOK, JobType, Places, Operations, Rest
  <2>2. OrderFits(o)
    BY DEF IInv
  <2>3. JobFits(c)' /\ Knows(c)'
    BY <1>9, <2>1, <2>2
       DEF BeginTransfers, OrderFits, JobFits, AtTransfers, Knows, At, Order, Rest
  <2> QED
    BY <1>2, <1>9, <2>1, <2>3 DEF BeginTransfers, Starts, Serving, Rest
<1> QED
  BY <1>3, <1>4, <1>5, <1>6, <1>7, <1>8, <1>9 DEF Begin

\* A request takes the lock and looks, or hears from the registrar.
LEMMA RequestMovesOnKeepsIInv ==
    ASSUME IInv, NEW c \in Callers,
           LockAndLook(c) \/ AnsweredDone(c) \/ AnsweredNo(c) \/ NotAnswered(c)
    PROVE  IInv'
<1> USE DEF order, money, registrar, ghost
<1>1. /\ job[c] \in JobType /\ Rest \in JobType
      /\ left \subseteq Orders /\ deaths \in 0 .. MaxDeaths
  BY DEF IInv, TypeOK, JobType, Rest, Places, Operations
<1>2. JobFits(c) /\ Knows(c)
  BY DEF IInv
<1>3. ASSUME LockAndLook(c), ~MayPut(c) PROVE IInv'
  <2>1. /\ job' = [job EXCEPT ![c] = Rest]
        /\ job'[c].at = "idle" /\ job'[c].op = "none" /\ job'[c].on = 0
    BY <1>1, <1>3 DEF LockAndLook, Stops, IInv, TypeOK, Rest
  <2>2. JobFits(c)' /\ Knows(c)'
    BY <2>1 DEF JobFits, AtRest, Knows, At, Order
  <2>3. \A o \in Orders : ~Serves(c, o) /\ ~Serves(c, o)' /\ ~Renewing(c)'
    BY <1>3, <2>1 DEF LockAndLook, Serves, Renewing, At, Serving
  <2> QED
    BY <1>1, <1>3, <2>1, <2>2, <2>3, MovingOnKeepsIInv DEF LockAndLook, Renewing, At
<1>4. ASSUME LockAndLook(c), MayPut(c) PROVE IInv'
  <2> DEFINE r == [job[c] EXCEPT !.at = "put"]
  <2>1. r \in JobType /\ job' = [job EXCEPT ![c] = r]
       /\ job'[c].at = "put" /\ job'[c].op = job[c].op /\ job'[c].on = job[c].on
    BY <1>1, <1>4 DEF LockAndLook, Goes, IInv, TypeOK, JobType, Places
  <2>2. AtRequest(c)
    BY <1>2, <1>4
       DEF LockAndLook, JobFits, AtService, AtUncertain, AtTransfers, AtRest, At, Serving
  <2>3. JobFits(c)' /\ Knows(c)'
    BY <1>4, <2>1, <2>2 DEF LockAndLook, AtRequest, JobFits, Knows, At, Order
  <2>4. \A o \in Orders : ~Serves(c, o) /\ ~Serves(c, o)'
    BY <1>4, <2>1 DEF LockAndLook, Serves, At, Serving
  <2>5. Renewing(c)' => (\A d \in Callers : ~Renewing(d)) /\ (\A o \in Orders : ~InProgress(o))
    BY <1>4, <2>1 DEF LockAndLook, MayPut, RowFree, Renewing, At
  <2> QED
    BY <1>1, <1>4, <2>1, <2>3, <2>4, <2>5, MovingOnKeepsIInv DEF LockAndLook
<1>5. ASSUME At(c, "answer"), NEW r \in JobType, job' = [job EXCEPT ![c] = r],
             UNCHANGED <<name, order, money, row, registrar, clean, ghost>>,
             r.op = job[c].op, r.on = job[c].on, r.at \in Serving, Knows(c)'
      PROVE  IInv'
  <2>1. AtService(c)
    BY <1>2, <1>5 DEF JobFits, AtRequest, AtUncertain, AtTransfers, AtRest, At
  <2>2. job'[c] = r
    BY <1>5 DEF IInv, TypeOK
  <2>3. JobFits(c)'
    BY <1>5, <2>1, <2>2 DEF JobFits, AtService, Order
  <2>4. \A o \in Orders : Serves(c, o)' <=> Serves(c, o)
    BY <1>5, <2>2, <2>1 DEF Serves, AtService, Order
  <2>5. ~Renewing(c)'
    BY <1>5, <2>2 DEF Renewing, At, Serving
  <2> QED
    BY <1>1, <1>5, <2>3, <2>4, <2>5, MovingOnKeepsIInv
<1>6. CASE AnsweredDone(c)
  <2>1. PICK d \in {expiry, NoDate} : job' = [job EXCEPT ![c].at = "write", ![c].date = d]
    BY <1>6 DEF AnsweredDone
  <2> DEFINE r == [job[c] EXCEPT !.at = "write", !.date = d]
  <2>2. r \in JobType /\ job' = [job EXCEPT ![c] = r]
       /\ r.at = "write" /\ r.op = job[c].op /\ r.on = job[c].on
       /\ job'[c].at = "write" /\ job'[c].op = job[c].op /\ job'[c].on = job[c].on
    BY <1>1, <2>1 DEF IInv, TypeOK, JobType, Places
  <2>3. AtService(c)
    BY <1>2, <1>6 DEF AnsweredDone, JobFits, AtRequest, AtUncertain, AtTransfers, AtRest, At
  <2>4. Knows(c)'
    BY <1>6, <2>2, <2>3 DEF AnsweredDone, Knows, AtService, Requests, At, Order
  <2> QED
    BY <1>5, <1>6, <2>2, <2>4 DEF AnsweredDone, Serving
<1>7. CASE AnsweredNo(c) \/ NotAnswered(c)
  <2>1. PICK place \in {"refund", "fail", "unsure"} :
            /\ job' = [job EXCEPT ![c].at = place]
            /\ place = "unsure" <=> NotAnswered(c) /\ ~AnsweredNo(c)
            /\ place = "refund" <=> AnsweredNo(c) /\ Order(c) \in charged
            /\ place = "fail" <=> AnsweredNo(c) /\ Order(c) \notin charged
    <3>1. CASE AnsweredNo(c)
      BY <3>1 DEF AnsweredNo, AfterRefusal, Goes
    <3>2. CASE NotAnswered(c) /\ ~AnsweredNo(c)
      BY <3>2 DEF NotAnswered, AfterSilence, Goes
    <3> QED
      BY <1>7, <3>1, <3>2
  <2> DEFINE r == [job[c] EXCEPT !.at = place]
  <2>2. r \in JobType /\ job' = [job EXCEPT ![c] = r]
       /\ r.at = place /\ r.op = job[c].op /\ r.on = job[c].on
       /\ job'[c].at = place /\ job'[c].op = job[c].op /\ job'[c].on = job[c].on
    BY <1>1, <2>1 DEF IInv, TypeOK, JobType, Places
  <2>3. /\ At(c, "answer")
        /\ UNCHANGED <<name, order, money, row, registrar, clean, ghost>>
    BY <1>7 DEF AnsweredNo, NotAnswered
  <2>4. AtService(c)
    BY <1>2, <2>3 DEF JobFits, AtRequest, AtUncertain, AtTransfers, AtRest, At
  <2>5. Knows(c)'
    BY <1>2, <1>7, <2>1, <2>2, <2>3, <2>4
       DEF AnsweredNo, Knows, AtService, Requests, At, Order
  <2> QED
    BY <1>5, <2>1, <2>2, <2>3, <2>5 DEF Serving
<1> QED
  BY <1>3, <1>4, <1>6, <1>7

\* A pass reads the row.
LEMMA ReadRowKeepsIInv ==
    ASSUME IInv, NEW c \in Callers, ReadRow(c)
    PROVE  IInv'
<1> USE DEF order, money, registrar, ghost
<1> DEFINE r == [job[c] EXCEPT !.at = "look", !.date = IF row = Nowhere THEN NoDate ELSE row]
<1>1. job[c] \in JobType /\ left \subseteq Orders /\ deaths \in 0 .. MaxDeaths
  BY DEF IInv, TypeOK, JobType
<1>2. r \in JobType /\ job' = [job EXCEPT ![c] = r]
     /\ job'[c].at = "look" /\ job'[c].op = job[c].op /\ job'[c].on = job[c].on
     /\ job'[c].late = job[c].late
     /\ job'[c].date = IF row = Nowhere THEN NoDate ELSE row
  BY <1>1 DEF ReadRow, IInv, TypeOK, JobType, Places
<1>3. AtUncertain(c) /\ Knows(c)
  BY DEF ReadRow, IInv, JobFits, AtRequest, AtService, AtTransfers, AtRest, At, Serving
<1>4. JobFits(c)'
  BY <1>2, <1>3 DEF ReadRow, JobFits, AtUncertain, Order
<1>5. Knows(c)'
  <2>1. Order(c) \in clean => DateOfOrder(Order(c), row) /\ row # Nowhere
    <3>1. /\ OrderFits(Order(c)) /\ expiry \in Dates
          /\ Order(c) \in clean => status[Order(c)] # "COMPLETED"
      BY <1>3 DEF ReadRow, Knows, IInv, TypeOK, AtUncertain
    <3> QED
      BY <3>1, DomainConstants DEF OrderFits, DateOfOrder, Nowhere, Dates
  <2> QED
    BY <1>2, <1>3, <2>1 DEF ReadRow, Knows, DateOfOrder, At, Order
<1>6. \A o \in Orders : ~Serves(c, o) /\ ~Serves(c, o)'
  BY <1>2, <1>3 DEF Serves, AtUncertain, Requests
<1>7. ~Renewing(c)'
  BY <1>2 DEF Renewing, At
<1> QED
  BY <1>1, <1>2, <1>4, <1>5, <1>6, <1>7, MovingOnKeepsIInv DEF ReadRow

\* What a pass concludes from the registrar's state is so, for an order that
\* nothing has misled.
LEMMA LookIsRight ==
    ASSUME IInv, NEW c \in Callers, At(c, "look")
    PROVE  LET o == Order(c) IN
           /\ FoundDone(c) /\ o \in clean => sent[o] = "done"
           /\ FoundDone(c) /\ kind[o] = "REGISTER" =>
                \E p \in Orders : kind[p] = "REGISTER" /\ sent[p] = "done"
           /\ FoundNothing(c) /\ job[c].late /\ Clean(o) => sent[o] = "lost"
<1> DEFINE o == Order(c)
<1>1. AtUncertain(c) /\ Knows(c) /\ o \in Orders
  BY DEF IInv, JobFits, AtRequest, AtService, AtUncertain, AtTransfers, AtRest, At, Serving
<1>2. /\ OrderFits(o)
      /\ sent[o] \in {"no", "open", "lost", "pending", "done", "failed"}
      /\ kind[o] \in Kinds /\ expiry \in Dates /\ o \in Orders
  BY <1>1 DEF IInv, TypeOK
<1>3. ASSUME o \in clean
      PROVE  /\ kind[o] = "RENEW" /\ DateOfOrder(o, job[c].date)
             /\ job[c].date \in Nat
  <2>1. kind[o] = "RENEW" /\ DateOfOrder(o, job[c].date)
    BY <1>1, <1>2, <1>3 DEF OrderFits, Knows
  <2>2. job[c].date \in Nat
    BY DEF IInv, TypeOK, NoDate, Dates
  <2> QED
    BY <2>1, <2>2
<1>4. FoundDone(c) /\ o \in clean => sent[o] = "done"
  BY <1>2, <1>3 DEF FoundDone, Renewed, Dates, DateOfOrder
<1>5. ASSUME FoundDone(c), kind[o] = "REGISTER"
      PROVE  \E p \in Orders : kind[p] = "REGISTER" /\ sent[p] = "done"
  <2>1. PICK p \in Orders : kind[p] # "RENEW" /\ sent[p] = "done"
    BY <1>5 DEF FoundDone, Objects
  <2>2. kind[p] \in Kinds /\ OrderFits(p) /\ OrderFits(o)
    BY <1>1 DEF IInv, TypeOK
  <2>3. kind[p] = "REGISTER"
    BY <1>5, <2>1, <2>2 DEF OrderFits, Kinds
  <2> QED
    BY <2>1, <2>3
<1>6. ASSUME FoundNothing(c), job[c].late, Clean(o) PROVE sent[o] = "lost"
  <2>1. sent[o] \notin {"no", "open"}
    BY <1>1, <1>6 DEF AtUncertain, Knows
  <2>2. CASE kind[o] = "RENEW"
    <3>1. o \in clean /\ ~Renewed(c)
      BY <1>6, <2>2 DEF Clean, FoundNothing
    <3>2. sent[o] # "done"
      BY <1>2, <1>3, <3>1 DEF Renewed, Dates, DateOfOrder
    <3> QED
      BY <1>2, <2>1, <2>2, <3>2 DEF OrderFits
  <2>3. CASE kind[o] # "RENEW"
    BY <1>2, <1>6, <2>1, <2>3 DEF FoundNothing, Objects
  <2> QED
    BY <2>2, <2>3
<1> QED
  BY <1>4, <1>5, <1>6

\* LookAtRegistrar keeps the invariant.
LEMMA LookAtRegistrarKeepsIInv ==
    ASSUME IInv, NEW c \in Callers, LookAtRegistrar(c)
    PROVE  IInv'
<1> USE DEF order, money, registrar, ghost
<1> DEFINE o == Order(c)
<1>1. /\ job[c] \in JobType /\ Rest \in JobType /\ expiry \in Dates
      /\ left \subseteq Orders /\ deaths \in 0 .. MaxDeaths
  BY DEF IInv, TypeOK, JobType, Rest, Places, Operations
<1>2. AtUncertain(c) /\ Knows(c) /\ At(c, "look")
  BY DEF LookAtRegistrar, IInv, JobFits, AtRequest, AtService, AtTransfers, AtRest, At, Serving
<1>3. ASSUME NEW r \in JobType, job' = [job EXCEPT ![c] = r], JobFits(c)', Knows(c)',
             r.op = "uncertain" \/ r = Rest
      PROVE  IInv'
  <2>1. job'[c] = r
    BY <1>3 DEF IInv, TypeOK
  <2>2. \A p \in Orders : ~Serves(c, p) /\ ~Serves(c, p)'
    BY <1>2, <1>3, <2>1 DEF Serves, AtUncertain, Requests, Rest
  <2>3. ~Renewing(c)'
    BY <1>3, <2>1 DEF Renewing, At, Rest
  <2> QED
    BY <1>1, <1>3, <2>2, <2>3, MovingOnKeepsIInv DEF LookAtRegistrar
<1>4. ASSUME FoundDone(c), job' = [job EXCEPT ![c].at = "close", ![c].date = expiry]
      PROVE  IInv'
  <2> DEFINE r == [job[c] EXCEPT !.at = "close", !.date = expiry]
  <2>1. r \in JobType /\ job' = [job EXCEPT ![c] = r] /\ r.op = job[c].op
       /\ job'[c].at = "close" /\ job'[c].op = job[c].op /\ job'[c].on = job[c].on
       /\ job'[c].late = job[c].late
    BY <1>1, <1>4 DEF IInv, TypeOK, JobType, Places
  <2>2. JobFits(c)'
    BY <1>2, <2>1 DEF LookAtRegistrar, JobFits, AtUncertain, Order
  <2>3. Knows(c)'
    BY <1>2, <1>4, <2>1, LookIsRight DEF LookAtRegistrar, Knows, At, Order
  <2> QED
    BY <1>2, <1>3, <2>1, <2>2, <2>3 DEF AtUncertain
<1>5. ASSUME FoundNothing(c), job[c].late, Goes(c, AfterRefusal(o))
      PROVE  IInv'
  <2>1. PICK place \in {"refund", "fail"} :
            /\ job' = [job EXCEPT ![c].at = place]
            /\ place = "refund" <=> o \in charged
    BY <1>5 DEF AfterRefusal, Goes
  <2> DEFINE r == [job[c] EXCEPT !.at = place]
  <2>2. r \in JobType /\ job' = [job EXCEPT ![c] = r] /\ r.op = job[c].op
       /\ job'[c].at = place /\ job'[c].op = job[c].op /\ job'[c].on = job[c].on
       /\ job'[c].late = job[c].late
    BY <1>1, <2>1 DEF IInv, TypeOK, JobType, Places
  <2>3. JobFits(c)'
    BY <1>2, <2>1, <2>2 DEF LookAtRegistrar, JobFits, AtUncertain, Order
  <2>4. Clean(o) => sent[o] = "lost"
    BY <1>2, <1>5, LookIsRight
  <2>5. Knows(c)'
    BY <1>2, <2>1, <2>2, <2>4 DEF LookAtRegistrar, Knows, Clean, At, Order
  <2> QED
    BY <1>2, <1>3, <2>2, <2>3, <2>5 DEF AtUncertain
<1>6. ASSUME Stops(c) PROVE IInv'
  <2>1. /\ job' = [job EXCEPT ![c] = Rest]
        /\ job'[c].at = "idle" /\ job'[c].op = "none" /\ job'[c].on = 0
    BY <1>6 DEF Stops, IInv, TypeOK, Rest
  <2>2. JobFits(c)' /\ Knows(c)'
    BY <2>1 DEF JobFits, AtRest, Knows, At, Order
  <2> QED
    BY <1>1, <1>3, <2>1, <2>2
<1> QED
  BY <1>4, <1>5, <1>6 DEF LookAtRegistrar

\* A pass over the transfers or synchronizuj asks for the state; a pass gives up; a
\* caller dies.
LEMMA AskingKeepsIInv ==
    ASSUME IInv, NEW c \in Callers, AskState(c) \/ AskSync(c) \/ AskFails(c) \/ Die(c)
    PROVE  IInv'
<1> USE DEF order, money, registrar, ghost
<1>1. /\ job[c] \in JobType /\ Rest \in JobType
      /\ left \subseteq Orders /\ deaths \in 0 .. MaxDeaths
  BY DEF IInv, TypeOK, JobType, Rest, Places, Operations
<1>2. ASSUME Stops(c), UNCHANGED <<name, order, money, row, registrar, clean>>,
             left \subseteq left', left' \subseteq Orders, deaths' \in 0 .. MaxDeaths,
             \A o \in Orders : Serves(c, o) => o \in left'
      PROVE  IInv'
  <2>1. /\ job' = [job EXCEPT ![c] = Rest]
        /\ job'[c].at = "idle" /\ job'[c].op = "none" /\ job'[c].on = 0
    BY <1>2 DEF Stops, IInv, TypeOK, Rest
  <2>2. JobFits(c)' /\ Knows(c)' /\ ~Renewing(c)'
    BY <2>1 DEF JobFits, AtRest, Knows, Renewing, At, Order
  <2>3. \A o \in Orders : ~Serves(c, o)'
    BY <2>1 DEF Serves, Requests
  <2> QED
    BY <1>1, <1>2, <2>1, <2>2, <2>3, MovingOnKeepsIInv
<1>3. CASE AskFails(c)
  BY <1>1, <1>2, <1>3 DEF AskFails, Serves, Serving, At
<1>4. CASE Die(c)
  <2>1. deaths' \in 0 .. MaxDeaths
    BY <1>1, <1>4, DomainConstants DEF Die
  <2>2. left \subseteq left' /\ left' \subseteq Orders
    BY <1>1, <1>4 DEF Die
  <2>3. \A o \in Orders : Serves(c, o) => o \in left'
    BY <1>4 DEF Die, Serves, Requests, Order
  <2> QED
    BY <1>2, <1>4, <2>1, <2>2, <2>3 DEF Die
<1>5. ASSUME AskState(c), ~Stops(c) PROVE IInv'
  <2>1. AtTransfers(c)
    BY <1>5
       DEF AskState, IInv, JobFits, AtRequest, AtService, AtUncertain, AtRest, At, Serving
  <2>2. PICK place \in {"accept", "refund"} :
            /\ job' = [job EXCEPT ![c].at = place]
            /\ place = "accept" => sent[ref[Order(c)]] = "done"
            /\ place = "refund" => sent[ref[Order(c)]] = "failed" /\ Order(c) \in charged
    BY <1>5 DEF AskState, Goes
  <2> DEFINE r == [job[c] EXCEPT !.at = place]
  <2>3. r \in JobType /\ job' = [job EXCEPT ![c] = r]
       /\ job'[c].at = place /\ job'[c].op = job[c].op /\ job'[c].on = job[c].on
    BY <1>1, <2>2 DEF IInv, TypeOK, JobType, Places
  <2>4. JobFits(c)'
    BY <1>5, <2>1, <2>2, <2>3 DEF AskState, JobFits, AtTransfers, Order
  <2>5. Knows(c)'
    <3>1. 0 \notin Orders /\ (Clean(Order(c)) => ref[Order(c)] = Order(c))
      BY <2>1 DEF Clean, AtTransfers, Orders
    <3> QED
      BY <1>5, <2>1, <2>2, <2>3, <3>1 DEF AskState, AtTransfers, Knows, Clean, At, Order
  <2>6. \A o \in Orders : ~Serves(c, o) /\ ~Serves(c, o)' /\ ~Renewing(c)'
    BY <2>1, <2>2, <2>3 DEF Serves, AtTransfers, Requests, Renewing, At
  <2> QED
    BY <1>1, <1>5, <2>1, <2>2, <2>3, <2>4, <2>5, <2>6, MovingOnKeepsIInv
       DEF AskState, AtTransfers
<1>6. ASSUME AskState(c), Stops(c) PROVE IInv'
  BY <1>1, <1>2, <1>6 DEF AskState, Serves, Serving, At
<1>7. ASSUME AskSync(c), Stops(c) PROVE IInv'
  BY <1>1, <1>2, <1>7 DEF AskSync, Serves, Serving, At
<1>8. ASSUME AskSync(c), ~Stops(c) PROVE IInv'
  <2> DEFINE r == [job[c] EXCEPT !.at = "sync", !.date = expiry]
  <2>1. r \in JobType /\ job' = [job EXCEPT ![c] = r]
       /\ job'[c].at = "sync" /\ job'[c].op = job[c].op /\ job'[c].on = job[c].on
    BY <1>1, <1>8 DEF AskSync, IInv, TypeOK, JobType, Places
  <2>2. AtRest(c)
    BY <1>8 DEF AskSync, IInv, JobFits, AtRequest, AtService, AtUncertain, AtTransfers, At,
                Serving
  <2>3. JobFits(c)' /\ Knows(c)' /\ ~Renewing(c)'
    BY <1>8, <2>1, <2>2 DEF AskSync, JobFits, AtRest, Knows, Renewing, At, Order
  <2>4. \A o \in Orders : ~Serves(c, o) /\ ~Serves(c, o)'
    BY <1>8, <2>1, <2>2 DEF AskSync, AtRest, Serves, Requests, Serving, At
  <2> QED
    BY <1>1, <1>8, <2>1, <2>3, <2>4, MovingOnKeepsIInv DEF AskSync
<1> QED
  BY <1>3, <1>4, <1>5, <1>6, <1>7, <1>8

\* An order is put in by a caller that comes from its lock.
LEMMA PutKeepsIInv ==
    ASSUME IInv, NEW c \in Callers, Put(c)
    PROVE  IInv'
<1> USE DEF order, money, registrar, ghost
<1>1. PICK o \in Orders, place \in {"charge", "call"} :
          /\ At(c, "put") /\ status[o] = "none"
          /\ status' = [status EXCEPT ![o] = "QUEUED"]
          /\ kind' = [kind EXCEPT ![o] = KindOf(c)]
          /\ clean' = IF KindOf(c) = "RENEW" /\ row = expiry THEN clean \cup {o} ELSE clean
          /\ job' = [job EXCEPT ![c].on = o, ![c].at = place]
          /\ UNCHANGED <<name, ref, due, old, money, row, registrar, ghost>>
  BY DEF Put
<1>2. AtRequest(c)
  BY <1>1 DEF IInv, JobFits, AtService, AtUncertain, AtTransfers, AtRest, At, Serving
<1>3. \A d \in Callers : Order(d) # o
  BY <1>1 DEF IInv, JobFits, AtRequest, AtService, AtUncertain, AtTransfers, AtRest, Orders
<1>4. OrderFits(o)
  BY DEF IInv
<1>5. /\ KindOf(c) \in Kinds
      /\ KindOf(c) = "RENEW" <=> Renewing(c)
      /\ KindOf(c) = "REGISTER" => name = "free"
      /\ KindOf(c) = "TRANSFER" => name = "elsewhere"
  <2>1. CASE job[c].op = "retry"
    <3>1. /\ KindOf(c) = kind[Order(c)] /\ OrderFits(Order(c))
          /\ kind[Order(c)] \in Kinds /\ kind[Order(c)] # "RENEW"
      BY <1>2, <2>1 DEF KindOf, AtRequest, IInv, TypeOK
    <3> QED
      BY <2>1, <3>1 DEF OrderFits, Renewing
  <2>2. CASE job[c].op \in {"register", "transfer", "renew"}
    BY <1>1, <1>2, <2>2 DEF KindOf, AtRequest, Kinds, Renewing
  <2> QED
    BY <1>2, <2>1, <2>2 DEF AtRequest
<1>6. TypeOK'
  <2>1. job' \in [Callers -> JobType]
    <3> DEFINE r == [job[c] EXCEPT !.on = o, !.at = place]
    <3>1. r \in JobType /\ job \in [Callers -> JobType]
      BY DEF IInv, TypeOK, JobType, Places
    <3>2. job' = [job EXCEPT ![c] = r]
      BY <1>1, <3>1
    <3> QED
      BY <3>1, <3>2
  <2>2. /\ status' \in [Orders -> Statuses] /\ kind' \in [Orders -> Kinds]
        /\ clean' \subseteq Orders
    BY <1>1, <1>5 DEF IInv, TypeOK, Statuses
  <2> QED
    BY <1>1, <2>1, <2>2 DEF IInv, TypeOK, JobType
<1>7. /\ job'[c].at = place /\ job'[c].on = o /\ job'[c].op = job[c].op
      /\ \A d \in Callers : d # c => job'[d] = job[d]
      /\ status'[o] = "QUEUED" /\ kind'[o] = KindOf(c)
      /\ \A p \in Orders : p # o => /\ status'[p] = status[p] /\ kind'[p] = kind[p]
                                    /\ p \in clean' <=> p \in clean
  BY <1>1 DEF IInv, TypeOK
<1>13. status[o] = "none" /\ UNCHANGED <<name, ref, old, charged, refunded, byHand, row, sent>>
  BY <1>1
<1>8. \A d \in Callers : JobFits(d)' /\ Knows(d)'
  <2>1. JobFits(c)' /\ Knows(c)'
    BY <1>1, <1>2, <1>4, <1>7
       DEF OrderFits, AtRequest, JobFits, AtService, Knows, Serving, Requests, At, Order
  <2>2. ASSUME NEW d \in Callers, d # c PROVE JobFits(d)' /\ Knows(d)'
    <3>1. JobFits(d) /\ Knows(d) /\ job'[d] = job[d] /\ Order(d) # o
      BY <1>3, <1>7, <2>2 DEF IInv
    <3>2. JobFits(d)'
      BY <1>7, <1>13, <3>1
         DEF JobFits, AtRequest, AtService, AtUncertain, AtTransfers, AtRest, At, Order
    <3>3. Order(d) \in Orders => Knows(d)'
      <4>1. \A p \in Orders : kind[p] = "REGISTER" /\ sent[p] = "done" =>
                               kind'[p] = "REGISTER"
        BY <1>4, <1>7, <1>13 DEF OrderFits
      <4>2. \A p \in Orders, x \in {NoDate} \cup Dates : DateOfOrder(p, x)' <=> DateOfOrder(p, x)
        BY <1>1 DEF DateOfOrder
      <4>3. job[d].date \in {NoDate} \cup Dates
        BY DEF IInv, TypeOK
      <4> QED
        BY <1>7, <1>13, <3>1, <4>1, <4>2, <4>3 DEF Knows, Clean, At, Order
    <3>4. Order(d) \notin Orders => Knows(d)'
      BY <3>1
         DEF JobFits, AtRequest, AtService, AtUncertain, AtTransfers, AtRest, Knows, At, Order
    <3> QED
      BY <3>2, <3>3, <3>4
  <2> QED
    BY <2>1, <2>2
<1>9. \A p \in Orders : OrderFits(p)' /\ FeeIsFollowed(p)'
  <2>1. OrderFits(o)' /\ FeeIsFollowed(o)'
    <3>1. o \in clean' => kind'[o] = "RENEW" /\ DateOfOrder(o, row)'
      <4>1. expiry # NoDate
        BY DEF IInv, TypeOK, Dates, NoDate
      <4> QED
        BY <1>1, <1>4, <1>7, <4>1 DEF OrderFits, DateOfOrder
    <3> QED
      BY <1>1, <1>4, <1>5, <1>7, <3>1 DEF OrderFits, FeeIsFollowed
  <2>2. ASSUME NEW p \in Orders, p # o PROVE OrderFits(p)' /\ FeeIsFollowed(p)'
    <3>1. OrderFits(p)'
      BY <1>1, <1>7, <2>2 DEF IInv, OrderFits, DateOfOrder
    <3>2. \A d \in Callers : Serves(d, p) => Serves(d, p)'
      BY <1>1, <1>7 DEF Serves, Serving, At, Order
    <3> QED
      BY <1>1, <1>7, <2>2, <3>1, <3>2 DEF IInv, FeeIsFollowed
  <2> QED
    BY <2>1, <2>2
<1>10. OneServes'
  <2>1. \A d \in Callers, p \in Orders : Serves(d, p)' => (d = c /\ p = o) \/ Serves(d, p)
    BY <1>7 DEF Serves, Order
  <2>2. \A d \in Callers : ~Serves(d, o)
    BY <1>3 DEF Serves
  <2> QED
    BY <2>1, <2>2 DEF IInv, OneServes
<1>11. RenewalLock'
  <2>1. \A d \in Callers : Renewing(d)' => d # c /\ Renewing(d)
    BY <1>7 DEF Renewing, At
  <2>2. \A p \in Orders : p # o => /\ InProgress(p)' => InProgress(p)
                                   /\ Outstanding(p)' => Outstanding(p)
    BY <1>1, <1>7 DEF InProgress, Outstanding
  <2>3. CASE Renewing(c)
    <3>1. \A d \in Callers : ~Renewing(d)'
      BY <2>1, <2>3 DEF IInv, RenewalLock
    <3>2. \A p \in Orders : p # o => ~Outstanding(p)'
      BY <2>2, <2>3 DEF IInv, RenewalLock, Outstanding, InProgress
    <3> QED
      BY <3>1, <3>2 DEF RenewalLock
  <2>4. CASE ~Renewing(c)
    <3>1. ~InProgress(o)' /\ ~Outstanding(o)'
      BY <1>5, <1>7, <2>4 DEF InProgress, Outstanding
    <3> QED
      BY <2>1, <2>2, <3>1 DEF IInv, RenewalLock
  <2> QED
    BY <2>3, <2>4
<1>12. ExpiryFits'
  <2>1. Executed' = Executed
    BY <1>1, <1>4, <1>7 DEF Executed, OrderFits
  <2> QED
    BY <1>1, <2>1 DEF IInv, ExpiryFits
<1> QED
  BY <1>6, <1>8, <1>9, <1>10, <1>11, <1>12 DEF IInv

\* A step that writes order o alone, and what it knew of it moves c on.  What is
\* left to show is what the callers at that order know.
LEMMA OrderStepKeepsIInv ==
    ASSUME IInv, NEW c \in Callers, NEW o \in Orders, Order(c) = o,
           TypeOK', UNCHANGED <<name, kind, due, old, expiry>>, left \subseteq left',
           \A d \in Callers : d # c => job'[d] = job[d],
           \A p \in Orders : p # o => /\ status'[p] = status[p] /\ ref'[p] = ref[p]
                                      /\ sent'[p] = sent[p]
                                      /\ p \in charged' <=> p \in charged
                                      /\ p \in refunded' <=> p \in refunded
                                      /\ p \in byHand' <=> p \in byHand,
           sent'[o] = "done" <=> sent[o] = "done",
           (row' = row /\ clean' = clean) \/ clean' \subseteq {o},
           \A d \in Callers : d = c \/ Order(d) = o => JobFits(d)' /\ Knows(d)',
           OrderFits(o)', FeeIsFollowed(o)',
           \A p \in Orders : Serves(c, p)' => Serves(c, p),
           ~Renewing(c)',
           InProgress(o)' => InProgress(o), Outstanding(o)' => Outstanding(o)
    PROVE  IInv'
<1>1. \A d \in Callers : JobFits(d)' /\ Knows(d)'
  <2> SUFFICES ASSUME NEW d \in Callers, d # c, Order(d) # o PROVE JobFits(d)' /\ Knows(d)'
    OBVIOUS
  <2>1. JobFits(d) /\ Knows(d) /\ job'[d] = job[d]
    BY DEF IInv
  <2>2. JobFits(d)'
    BY <2>1 DEF JobFits, AtRequest, AtService, AtUncertain, AtTransfers, AtRest, At, Order
  <2>3. CASE Order(d) \in Orders
    <3>1. \A p \in Orders : sent[p] = "done" => sent'[p] = "done"
      OBVIOUS
    <3>2. At(d, "accept") => AtTransfers(d)
      BY <2>1 DEF JobFits, AtRequest, AtService, AtUncertain, AtRest, At, Serving
    <3>3. /\ sent'[Order(d)] = sent[Order(d)] /\ ref'[Order(d)] = ref[Order(d)]
          /\ Order(d) \in charged' <=> Order(d) \in charged
          /\ Order(d) \in refunded' <=> Order(d) \in refunded
          /\ Order(d) \in byHand' <=> Order(d) \in byHand
          /\ Order(d)' = Order(d)
      BY <2>1, <2>3 DEF Order
    <3>4. Order(d) \in clean' => Order(d) \in clean /\ row' = row
      OBVIOUS
    <3>5. Clean(Order(d))' => Clean(Order(d))
      BY <3>3, <3>4 DEF Clean
    <3>6. /\ At(d, "row") /\ Order(d) \in clean' => status'[Order(d)] # "COMPLETED"
          /\ At(d, "look") /\ Order(d) \in clean' => DateOfOrder(Order(d), job[d].date)'
          /\ At(d, "refund") => Order(d) \in charged'
          /\ At(d, "refund") \/ At(d, "fail") =>
               (Clean(Order(d))' => sent'[Order(d)] \in {"lost", "failed"})
      BY <2>1, <2>3, <3>3, <3>4, <3>5 DEF Knows, DateOfOrder
    <3>7. At(d, "close") =>
            /\ Order(d) \in clean' => sent'[Order(d)] = "done"
            /\ kind[Order(d)] = "REGISTER" =>
                 \E p \in Orders : kind[p] = "REGISTER" /\ sent'[p] = "done"
      BY <2>1, <3>1, <3>3, <3>4 DEF Knows
    <3>8. At(d, "accept") => sent'[ref'[Order(d)]] = "done"
      BY <2>1, <3>1, <3>2, <3>3 DEF Knows, AtTransfers
    <3> QED
      BY <2>1, <2>2, <3>3, <3>6, <3>7, <3>8 DEF Knows, At
  <2>4. CASE Order(d) \notin Orders
    BY SMTT(30), <2>1, <2>4
       DEF JobFits, AtRequest, AtService, AtUncertain, AtTransfers, AtRest, Knows, At, Order
  <2> QED
    BY <2>2, <2>3, <2>4
<1>2. \A p \in Orders : OrderFits(p)' /\ FeeIsFollowed(p)'
  <2> SUFFICES ASSUME NEW p \in Orders, p # o PROVE OrderFits(p)' /\ FeeIsFollowed(p)'
    OBVIOUS
  <2>1. OrderFits(p) /\ FeeIsFollowed(p)
    BY DEF IInv
  <2>2. OrderFits(p)'
    BY <2>1 DEF OrderFits, DateOfOrder
  <2>3. \A d \in Callers : Serves(d, p) => Serves(d, p)'
    BY DEF Serves, Order
  <2> QED
    BY <2>1, <2>2, <2>3 DEF FeeIsFollowed
<1>3. OneServes'
  <2>1. \A d \in Callers, p \in Orders : Serves(d, p)' => Serves(d, p)
    BY DEF Serves, Order
  <2> QED
    BY <2>1 DEF IInv, OneServes
<1>4. RenewalLock'
  <2>1. \A d \in Callers : Renewing(d)' => Renewing(d)
    BY DEF Renewing, At
  <2>2. \A p \in Orders :
           (InProgress(p)' => InProgress(p)) /\ (Outstanding(p)' => Outstanding(p))
    BY DEF InProgress, Outstanding
  <2> QED
    BY <2>1, <2>2 DEF IInv, RenewalLock
<1>5. ExpiryFits'
  <2>1. Executed' = Executed
    BY DEF Executed
  <2> QED
    BY <2>1 DEF IInv, ExpiryFits
<1> QED
  BY <1>1, <1>2, <1>3, <1>4, <1>5 DEF IInv

\* Where a caller is after a step, and that the others are where they were.
LEMMA JobAfter ==
    ASSUME TypeOK, NEW c \in Callers
    PROVE  /\ \A place \in Places : Goes(c, place) =>
                /\ job' \in [Callers -> JobType]
                /\ job'[c].at = place /\ job'[c].op = job[c].op /\ job'[c].on = job[c].on
                /\ job'[c].late = job[c].late
                /\ \A d \in Callers : d # c => job'[d] = job[d]
           /\ Stops(c) =>
                /\ job' \in [Callers -> JobType]
                /\ job'[c].at = "idle" /\ job'[c].op = "none" /\ job'[c].on = 0
                /\ \A d \in Callers : d # c => job'[d] = job[d]
<1>1. job \in [Callers -> JobType] /\ Rest \in JobType
  BY DEF TypeOK, JobType, Rest, Places, Operations
<1>2. ASSUME NEW place \in Places, Goes(c, place)
      PROVE  /\ job' \in [Callers -> JobType]
             /\ job'[c].at = place /\ job'[c].op = job[c].op /\ job'[c].on = job[c].on
             /\ job'[c].late = job[c].late
             /\ \A d \in Callers : d # c => job'[d] = job[d]
  <2> DEFINE r == [job[c] EXCEPT !.at = place]
  <2>1. r \in JobType /\ job' = [job EXCEPT ![c] = r]
    BY <1>1, <1>2 DEF Goes, JobType
  <2>2. r.at = place /\ r.op = job[c].op /\ r.on = job[c].on /\ r.late = job[c].late
    BY <1>1 DEF JobType
  <2> HIDE DEF r
  <2> QED
    BY <1>1, <2>1, <2>2
<1>3. ASSUME Stops(c)
      PROVE  /\ job' \in [Callers -> JobType]
             /\ job'[c].at = "idle" /\ job'[c].op = "none" /\ job'[c].on = 0
             /\ \A d \in Callers : d # c => job'[d] = job[d]
  BY <1>1, <1>3 DEF Stops, Rest
<1> QED
  BY <1>2, <1>3

\* Nobody else is at an order that a request serves.
LEMMA ServedAlone ==
    ASSUME IInv, NEW c \in Callers, AtService(c), NEW d \in Callers, d # c
    PROVE  Order(d) # Order(c)
<1> SUFFICES ASSUME Order(d) = Order(c) PROVE FALSE
  OBVIOUS
<1>1. ~AtRequest(d) /\ ~AtUncertain(d) /\ ~AtTransfers(d) /\ ~AtRest(d)
  BY DEF AtService, AtRequest, AtUncertain, AtTransfers, AtRest, Orders
<1>2. AtService(d)
  BY <1>1 DEF IInv, JobFits
<1> QED
  BY <1>2 DEF IInv, OneServes, Serves, AtService

\* A request charges its order, is refused, or calls the registrar.
LEMMA ChargeAndCallKeepsIInv ==
    ASSUME IInv, NEW c \in Callers,
           Charge(c) \/ ChargeRefused(c) \/ ChargeUnheard(c) \/ CallRegistrar(c)
    PROVE  IInv'
<1> USE DEF order, money, registrar, ghost
<1>1. TypeOK /\ JobFits(c) /\ Knows(c)
  BY DEF IInv
<1>2. AtService(c)
  BY <1>1 DEF Charge, ChargeRefused, ChargeUnheard, CallRegistrar, JobFits, AtRequest,
              AtUncertain, AtTransfers, AtRest, At
<1>3. PICK o \in Orders :
          /\ o = Order(c) /\ status[o] = "QUEUED" /\ o \notin old
          /\ OrderFits(o) /\ FeeIsFollowed(o)
          /\ \A d \in Callers : Order(d) = o => d = c
  BY <1>2, ServedAlone DEF AtService, IInv
<1>4. CASE Charge(c)
  <2>1. /\ job' \in [Callers -> JobType]
        /\ job'[c].at = "call" /\ job'[c].op = job[c].op /\ job'[c].on = job[c].on
        /\ \A d \in Callers : d # c => job'[d] = job[d]
    BY <1>1, <1>4, JobAfter DEF Charge, Places
  <2>2. TypeOK'
    BY <1>1, <1>3, <1>4, <2>1 DEF Charge, TypeOK, JobType
  <2>3. JobFits(c)' /\ Knows(c)' /\ Serves(c, o)'
    BY <1>1, <1>2, <1>3, <1>4, <2>1
       DEF Charge, JobFits, AtService, Knows, Serves, Serving, Requests, At, Order
  <2>4. OrderFits(o)' /\ FeeIsFollowed(o)'
    BY <1>3, <1>4, <2>3 DEF Charge, OrderFits, FeeIsFollowed, DateOfOrder
  <2>5. ~Renewing(c)' /\ \A p \in Orders : Serves(c, p)' => Serves(c, p)
    BY <1>2, <2>1 DEF Renewing, Serves, AtService, At, Order
  <2>6. (InProgress(o)' => InProgress(o)) /\ (Outstanding(o)' => Outstanding(o))
    BY <1>4 DEF Charge, InProgress, Outstanding
  <2>7. \A p \in Orders : p # o => /\ status'[p] = status[p] /\ ref'[p] = ref[p]
                                   /\ sent'[p] = sent[p]
                                   /\ p \in charged' <=> p \in charged
                                   /\ p \in refunded' <=> p \in refunded
                                   /\ p \in byHand' <=> p \in byHand
    BY <1>3, <1>4 DEF Charge
  <2> QED
    BY <1>3, <1>4, <2>1, <2>2, <2>3, <2>4, <2>5, <2>6, <2>7, OrderStepKeepsIInv DEF Charge
<1>5. CASE ChargeRefused(c)
  <2>1. /\ job' \in [Callers -> JobType]
        /\ job'[c].at = "idle" /\ job'[c].op = "none" /\ job'[c].on = 0
        /\ \A d \in Callers : d # c => job'[d] = job[d]
    BY <1>1, <1>5, JobAfter DEF ChargeRefused
  <2>2. status' = [status EXCEPT ![o] = "PENDING_PAYMENT"]
    BY <1>3, <1>5 DEF ChargeRefused, SetStatus
  <2>3. TypeOK'
    <3>1. status' \in [Orders -> Statuses]
      BY <1>1, <2>2 DEF TypeOK, Statuses
    <3> QED
      BY <1>1, <1>5, <2>1, <3>1 DEF ChargeRefused, SetStatus, TypeOK, JobType
  <2>4. /\ status'[o] = "PENDING_PAYMENT"
        /\ \A p \in Orders : p # o => status'[p] = status[p]
    BY <1>1, <1>3, <2>2 DEF TypeOK
  <2>5. JobFits(c)' /\ Knows(c)' /\ ~Renewing(c)' /\ \A p \in Orders : ~Serves(c, p)'
    BY <2>1 DEF JobFits, AtRest, Knows, Renewing, Serves, Requests, At, Order
  <2>6. OrderFits(o)' /\ FeeIsFollowed(o)'
    BY <1>1, <1>3, <1>5, <2>4 DEF ChargeRefused, SetStatus, Knows, OrderFits, FeeIsFollowed,
           DateOfOrder
  <2>7. ~InProgress(o)' /\ ~Outstanding(o)'
    BY <2>4 DEF InProgress, Outstanding
  <2> QED
    BY <1>3, <1>5, <2>1, <2>3, <2>4, <2>5, <2>6, <2>7, OrderStepKeepsIInv
       DEF ChargeRefused, SetStatus
<1>6. CASE CallRegistrar(c)
  <2>1. /\ job' \in [Callers -> JobType]
        /\ job'[c].at = "answer" /\ job'[c].op = job[c].op /\ job'[c].on = job[c].on
        /\ \A d \in Callers : d # c => job'[d] = job[d]
    BY <1>1, <1>6, JobAfter DEF CallRegistrar, Places
  <2>2. TypeOK'
    BY <1>1, <1>3, <1>6, <2>1 DEF CallRegistrar, TypeOK, JobType
  <2>3. sent[o] = "no" /\ sent'[o] = "open" /\ \A p \in Orders : p # o => sent'[p] = sent[p]
    BY <1>1, <1>3, <1>6 DEF CallRegistrar, Knows, TypeOK
  <2>4. JobFits(c)' /\ Knows(c)' /\ Serves(c, o)'
    BY <1>1, <1>2, <1>6, <2>1, <2>3
       DEF CallRegistrar, JobFits, AtService, Knows, Serves, Serving, Requests, At, Order
  <2>5. OrderFits(o)' /\ FeeIsFollowed(o)'
    BY <1>3, <1>6, <2>3, <2>4 DEF CallRegistrar, OrderFits, FeeIsFollowed, DateOfOrder
  <2>6. ~Renewing(c)' /\ \A p \in Orders : Serves(c, p)' => Serves(c, p)
    BY <1>2, <2>1 DEF Renewing, Serves, AtService, At, Order
  <2>7. (InProgress(o)' => InProgress(o)) /\ (Outstanding(o)' => Outstanding(o))
    BY <1>6 DEF CallRegistrar, InProgress, Outstanding
  <2> QED
    BY <1>3, <1>6, <2>1, <2>2, <2>3, <2>4, <2>5, <2>6, <2>7, OrderStepKeepsIInv
       DEF CallRegistrar
<1>7. CASE ChargeUnheard(c)
  <2>1. /\ job' \in [Callers -> JobType]
        /\ job'[c].at = "idle" /\ job'[c].op = "none" /\ job'[c].on = 0
        /\ \A d \in Callers : d # c => job'[d] = job[d]
    BY <1>1, <1>7, JobAfter DEF ChargeUnheard
  <2>2. /\ status' = [status EXCEPT ![o] = "PENDING_PAYMENT"]
        /\ charged' = charged \cup {o} /\ left' = left \cup {o}
        /\ UNCHANGED <<name, kind, ref, due, old, refunded, byHand, row, registrar, clean, deaths>>
    BY <1>3, <1>7 DEF ChargeUnheard, SetStatus
  <2>3. TypeOK'
    <3>1. status' \in [Orders -> Statuses]
      BY <1>1, <2>2 DEF TypeOK, Statuses
    <3> QED
      BY <1>1, <1>3, <2>1, <2>2, <3>1 DEF TypeOK, JobType
  <2>4. /\ status'[o] = "PENDING_PAYMENT"
        /\ \A p \in Orders : p # o => status'[p] = status[p]
    BY <1>1, <1>3, <2>2 DEF TypeOK
  <2>5. JobFits(c)' /\ Knows(c)' /\ ~Renewing(c)' /\ \A p \in Orders : ~Serves(c, p)'
    BY <2>1 DEF JobFits, AtRest, Knows, Renewing, Serves, Requests, At, Order
  <2>6. OrderFits(o)' /\ FeeIsFollowed(o)'
    BY <1>3, <2>2, <2>4 DEF OrderFits, FeeIsFollowed, DateOfOrder
  <2>7. ~InProgress(o)' /\ ~Outstanding(o)'
    BY <2>4 DEF InProgress, Outstanding
  <2>8. \A p \in Orders : p # o => (p \in charged' <=> p \in charged)
    BY <2>2
  <2> QED
    BY <1>3, <2>1, <2>2, <2>3, <2>4, <2>5, <2>6, <2>7, <2>8, OrderStepKeepsIInv
<1> QED
  BY <1>4, <1>5, <1>6, <1>7

\* A caller that stops.
LEMMA StopsAtRest ==
    ASSUME IInv, NEW c \in Callers, Stops(c)
    PROVE  /\ job' \in [Callers -> JobType]
           /\ \A d \in Callers : d # c => job'[d] = job[d]
           /\ JobFits(c)' /\ Knows(c)' /\ ~Renewing(c)' /\ \A o \in Orders : ~Serves(c, o)'
<1>1. /\ job' \in [Callers -> JobType]
      /\ job'[c].at = "idle" /\ job'[c].op = "none" /\ job'[c].on = 0
      /\ \A d \in Callers : d # c => job'[d] = job[d]
  BY JobAfter DEF IInv
<1>2. JobFits(c)' /\ Knows(c)' /\ ~Renewing(c)' /\ \A o \in Orders : ~Serves(c, o)'
  BY <1>1 DEF JobFits, AtRest, Knows, Renewing, Serves, Requests, At, Order
<1> QED
  BY <1>1, <1>2

\* The answer to a request is written.
LEMMA AnswerWrittenKeepsIInv ==
    ASSUME IInv, NEW c \in Callers, MarkUncertain(c) \/ WriteDone(c) \/ WriteSubmitted(c)
    PROVE  IInv'
<1> USE DEF order, money, registrar, ghost
<1>1. TypeOK /\ JobFits(c) /\ Knows(c)
  BY DEF IInv
<1>2. AtService(c)
  BY <1>1 DEF MarkUncertain, WriteDone, WriteSubmitted, JobFits, AtRequest, AtUncertain,
              AtTransfers, AtRest, At
<1>3. PICK o \in Orders :
          /\ o = Order(c) /\ status[o] = "QUEUED" /\ o \notin old
          /\ OrderFits(o) /\ FeeIsFollowed(o)
          /\ \A d \in Callers : Order(d) = o => d = c
  BY <1>2, ServedAlone DEF AtService, IInv
<1>4. /\ job' \in [Callers -> JobType]
      /\ \A d \in Callers : d # c => job'[d] = job[d]
      /\ JobFits(c)' /\ Knows(c)' /\ ~Renewing(c)' /\ \A p \in Orders : ~Serves(c, p)'
  BY StopsAtRest DEF MarkUncertain, WriteDone, WriteSubmitted
<1>5. CASE MarkUncertain(c)
  <2>1. /\ status' \in [Orders -> Statuses] /\ status'[o] = "UNCERTAIN"
        /\ \A p \in Orders : p # o => status'[p] = status[p]
    BY <1>1, <1>3, <1>5 DEF MarkUncertain, SetStatus, TypeOK, Statuses
  <2>2. TypeOK'
    BY <1>1, <1>4, <1>5, <2>1 DEF MarkUncertain, SetStatus, TypeOK, JobType
  <2>3. OrderFits(o)' /\ FeeIsFollowed(o)'
    BY <1>1, <1>3, <1>5, <2>1
       DEF MarkUncertain, SetStatus, Knows, At, OrderFits, FeeIsFollowed, DateOfOrder
  <2>4. (InProgress(o)' => InProgress(o)) /\ (Outstanding(o)' => Outstanding(o))
    BY <1>3, <1>5, <2>1 DEF MarkUncertain, SetStatus, InProgress, Outstanding
  <2> QED
    BY <1>3, <1>4, <1>5, <2>1, <2>2, <2>3, <2>4, OrderStepKeepsIInv
       DEF MarkUncertain, SetStatus
<1>6. CASE WriteDone(c)
  <2>1. /\ status' \in [Orders -> Statuses] /\ status'[o] = "COMPLETED"
        /\ \A p \in Orders : p # o => status'[p] = status[p]
    BY <1>1, <1>3, <1>6 DEF WriteDone, SetStatus, TypeOK, Statuses
  <2>2. row' \in {Nowhere, NoDate} \cup Dates
    BY <1>1, <1>6 DEF WriteDone, RowAfter, TypeOK
  <2>6. clean' \subseteq {o} /\ clean' \subseteq clean
    BY <1>3, <1>6 DEF WriteDone, CleanAfter
  <2>3. TypeOK'
    BY <1>1, <1>4, <1>6, <2>1, <2>2, <2>6 DEF WriteDone, SetStatus, TypeOK, JobType
  <2>4. OrderFits(o)' /\ FeeIsFollowed(o)'
    <3>1. o \in clean' => o \in clean /\ sent[o] = "done"
      BY <1>1, <1>3, <1>6, <2>6 DEF WriteDone, Knows, OrderFits
    <3> QED
      BY <1>3, <1>6, <2>1, <3>1 DEF WriteDone, SetStatus, OrderFits, FeeIsFollowed
  <2>5. (InProgress(o)' => InProgress(o)) /\ (Outstanding(o)' => Outstanding(o))
    BY <1>3, <1>6, <2>1 DEF WriteDone, SetStatus, InProgress, Outstanding
  <2> QED
    BY <1>3, <1>4, <1>6, <2>1, <2>3, <2>4, <2>5, <2>6, OrderStepKeepsIInv
       DEF WriteDone, SetStatus
<1>7. CASE WriteSubmitted(c)
  <2>1. /\ status' \in [Orders -> Statuses] /\ status'[o] = "SUBMITTED"
        /\ ref' \in [Orders -> {0} \cup Orders] /\ ref'[o] = o
        /\ \A p \in Orders : p # o => status'[p] = status[p] /\ ref'[p] = ref[p]
    BY <1>1, <1>3, <1>7 DEF WriteSubmitted, TypeOK, Statuses
  <2>2. TypeOK'
    BY <1>1, <1>4, <1>7, <2>1 DEF WriteSubmitted, TypeOK, JobType
  <2>3. OrderFits(o)' /\ FeeIsFollowed(o)'
    BY <1>3, <1>7, <2>1 DEF WriteSubmitted, OrderFits, FeeIsFollowed
  <2>4. ~InProgress(o)' /\ ~Outstanding(o)'
    BY <1>3, <1>7 DEF WriteSubmitted, InProgress, Outstanding
  <2> QED
    BY <1>3, <1>4, <1>7, <2>1, <2>2, <2>3, <2>4, OrderStepKeepsIInv DEF WriteSubmitted
<1> QED
  BY <1>5, <1>6, <1>7

\* The fee goes back, or cannot, and the order is closed as failed, by its
\* request or by any number of passes.
LEMMA RefundKeepsIInv ==
    ASSUME IInv, NEW c \in Callers, Refund(c) \/ RefundFails(c)
    PROVE  IInv'
<1> USE DEF order, money, registrar, ghost
<1>1. TypeOK /\ JobFits(c) /\ Knows(c) /\ At(c, "refund")
  BY DEF IInv, Refund, RefundFails
<1>2. AtService(c) \/ AtUncertain(c) \/ AtTransfers(c)
  BY <1>1 DEF JobFits, AtRequest, AtRest, At
<1>3. PICK o \in Orders : o = Order(c) /\ OrderFits(o) /\ FeeIsFollowed(o)
  BY <1>2 DEF AtService, AtUncertain, AtTransfers, IInv
<1>4. /\ UNCHANGED <<name, order, charged, row, registrar, clean, ghost>>
      /\ refunded' \cup byHand' = refunded \cup byHand \cup {o}
      /\ refunded \subseteq refunded' /\ refunded' \subseteq refunded \cup {o}
      /\ byHand \subseteq byHand' /\ byHand' \subseteq byHand \cup {o}
  BY <1>3 DEF Refund, RefundFails
<1>5. /\ job' \in [Callers -> JobType]
      /\ job'[c].at = "fail" /\ job'[c].op = job[c].op /\ job'[c].on = job[c].on
      /\ job'[c].late = job[c].late
      /\ \A d \in Callers : d # c => job'[d] = job[d]
  BY <1>1, JobAfter DEF Refund, RefundFails, Places
<1>6. TypeOK'
  <2>1. o \in charged
    BY <1>1, <1>3 DEF Knows
  <2> QED
    BY <1>1, <1>3, <1>4, <1>5, <2>1 DEF TypeOK, JobType
<1>7. JobFits(c)' /\ Knows(c)' /\ ~Renewing(c)'
  <2>1. JobFits(c)' /\ ~Renewing(c)'
    BY <1>2, <1>4, <1>5
       DEF JobFits, AtService, AtUncertain, AtTransfers, Renewing, Serving, At, Order
  <2> QED
    BY <1>1, <1>3, <1>4, <1>5, <2>1 DEF Knows, Clean, At, Order
<1>8. ASSUME NEW d \in Callers, d # c, Order(d) = o PROVE JobFits(d)' /\ Knows(d)'
  <2>1. JobFits(d) /\ Knows(d) /\ job'[d] = job[d]
    BY <1>5, <1>8 DEF IInv
  <2>2. JobFits(d)'
    BY <1>4, <2>1 DEF JobFits, AtRequest, AtService, AtUncertain, AtTransfers, AtRest, At, Order
  <2> QED
    BY <1>4, <1>8, <2>1, <2>2 DEF Knows, Clean, At, Order, DateOfOrder
<1>9. OrderFits(o)' /\ FeeIsFollowed(o)'
  <2>1. \A d \in Callers : Serves(d, o) => Serves(d, o)'
    BY <1>5 DEF Serves, Serving, Order
  <2> QED
    BY <1>3, <1>4, <2>1 DEF OrderFits, FeeIsFollowed, DateOfOrder
<1>10. \A p \in Orders : Serves(c, p)' => Serves(c, p)
  BY <1>1, <1>5 DEF Serves, Serving, At, Order
<1>11. (InProgress(o)' => InProgress(o)) /\ (Outstanding(o)' => Outstanding(o))
  BY <1>4 DEF InProgress, Outstanding
<1>12. \A p \in Orders : p # o => /\ status'[p] = status[p] /\ ref'[p] = ref[p]
                                  /\ sent'[p] = sent[p]
                                  /\ p \in charged' <=> p \in charged
                                  /\ p \in refunded' <=> p \in refunded
                                  /\ p \in byHand' <=> p \in byHand
  BY <1>4
<1> QED
  BY <1>3, <1>4, <1>5, <1>6, <1>7, <1>8, <1>9, <1>10, <1>11, <1>12, OrderStepKeepsIInv

\* Fail keeps the invariant.
LEMMA FailKeepsIInv ==
    ASSUME IInv, NEW c \in Callers, Fail(c)
    PROVE  IInv'
<1> USE DEF order, money, registrar, ghost
<1>1. TypeOK /\ JobFits(c) /\ Knows(c) /\ At(c, "fail")
  BY DEF IInv, Fail
<1>2. AtService(c) \/ AtUncertain(c) \/ AtTransfers(c)
  BY <1>1 DEF JobFits, AtRequest, AtRest, At
<1>3. PICK o \in Orders : o = Order(c) /\ OrderFits(o) /\ FeeIsFollowed(o)
  BY <1>2 DEF AtService, AtUncertain, AtTransfers, IInv
<1>4. /\ UNCHANGED <<name, kind, ref, due, old, money, row, registrar, clean, ghost>>
      /\ status' \in [Orders -> Statuses] /\ status'[o] = "FAILED"
      /\ \A p \in Orders : p # o => status'[p] = status[p]
  BY <1>1, <1>3 DEF Fail, SetStatus, TypeOK, Statuses
<1>5. /\ job' \in [Callers -> JobType]
      /\ \A d \in Callers : d # c => job'[d] = job[d]
      /\ JobFits(c)' /\ Knows(c)' /\ ~Renewing(c)' /\ \A p \in Orders : ~Serves(c, p)'
  BY StopsAtRest DEF Fail
<1>6. TypeOK'
  BY <1>1, <1>4, <1>5 DEF TypeOK, JobType
<1>7. ASSUME NEW d \in Callers, d # c, Order(d) = o PROVE JobFits(d)' /\ Knows(d)'
  <2>1. JobFits(d) /\ Knows(d) /\ job'[d] = job[d] /\ ~AtService(c)
    BY <1>3, <1>5, <1>7, ServedAlone DEF IInv
  <2>2. status[o] # "QUEUED"
    BY <1>2, <1>3, <2>1 DEF AtUncertain, AtTransfers
  <2>3. JobFits(d)'
    BY <1>4, <1>7, <2>1, <2>2
       DEF JobFits, AtRequest, AtService, AtUncertain, AtTransfers, AtRest, At, Order
  <2> QED
    BY <1>4, <1>7, <2>1, <2>3 DEF Knows, Clean, At, Order, DateOfOrder
<1>8. OrderFits(o)' /\ FeeIsFollowed(o)'
  BY <1>1, <1>2, <1>3, <1>4
     DEF OrderFits, FeeIsFollowed, Knows, Clean, AtService, AtUncertain, AtTransfers, DateOfOrder
<1>9. ~InProgress(o)' /\ ~Outstanding(o)'
  BY <1>4 DEF InProgress, Outstanding
<1> QED
  BY <1>3, <1>4, <1>5, <1>6, <1>7, <1>8, <1>9, OrderStepKeepsIInv

\* A pass closes an order that was done.
LEMMA CloseKeepsIInv ==
    ASSUME IInv, NEW c \in Callers, Close(c)
    PROVE  IInv'
<1> USE DEF order, money, registrar, ghost
<1>1. TypeOK /\ JobFits(c) /\ Knows(c)
  BY DEF IInv
<1>2. AtUncertain(c)
  BY <1>1 DEF Close, JobFits, AtRequest, AtService, AtTransfers, AtRest, At, Serving
<1>3. PICK o \in Orders : o = Order(c) /\ OrderFits(o) /\ FeeIsFollowed(o)
  BY <1>2 DEF AtUncertain, IInv
<1>4. /\ UNCHANGED <<name, kind, ref, due, old, money, registrar, ghost>>
      /\ status' \in [Orders -> Statuses]
      /\ status'[o] = IF status[o] = "UNCERTAIN" THEN "COMPLETED" ELSE status[o]
      /\ \A p \in Orders : p # o => status'[p] = status[p]
      /\ row' \in {Nowhere, NoDate} \cup Dates
  BY <1>1, <1>3 DEF Close, TypeOK, Statuses
<1>10. \/ status[o] # "UNCERTAIN" /\ row' = row /\ clean' = clean
       \/ clean' = CleanAfter(c) /\ (status[o] = "UNCERTAIN" \/ kind[o] # "RENEW")
  BY <1>3 DEF Close
<1>11. /\ (row' = row /\ clean' = clean) \/ clean' \subseteq {o}
       /\ clean' \subseteq clean
       /\ o \in clean' =>
            /\ sent[o] = "done"
            /\ status'[o] = status[o]
               \/ \A d \in Callers \ {c} : ~(Order(d) = o /\ At(d, "row"))
  <2>1. o \in clean => sent[o] = "done"
    BY <1>1, <1>3 DEF Close, Knows
  <2> QED
    BY <1>3, <1>4, <1>10, <2>1 DEF CleanAfter
<1>5. /\ job' \in [Callers -> JobType]
      /\ \A d \in Callers : d # c => job'[d] = job[d]
      /\ JobFits(c)' /\ Knows(c)' /\ ~Renewing(c)' /\ \A p \in Orders : ~Serves(c, p)'
  BY StopsAtRest DEF Close
<1>6. TypeOK'
  BY <1>1, <1>4, <1>5, <1>11 DEF TypeOK, JobType
<1>7. ASSUME NEW d \in Callers, d # c, Order(d) = o PROVE JobFits(d)' /\ Knows(d)'
  <2>1. JobFits(d) /\ Knows(d) /\ job'[d] = job[d]
    BY <1>5, <1>7 DEF IInv
  <2>2. JobFits(d)'
    BY <1>4, <1>7, <2>1
       DEF JobFits, AtRequest, AtService, AtUncertain, AtTransfers, AtRest, At, Order
  <2> QED
    BY <1>3, <1>4, <1>7, <1>11, <2>1, <2>2 DEF Knows, Clean, DateOfOrder, At, Order
<1>8. OrderFits(o)' /\ FeeIsFollowed(o)'
  BY <1>2, <1>3, <1>4, <1>10, <1>11
     DEF OrderFits, FeeIsFollowed, AtUncertain, DateOfOrder
<1>9. (InProgress(o)' => InProgress(o)) /\ (Outstanding(o)' => Outstanding(o))
  BY <1>4 DEF InProgress, Outstanding
<1> QED
  BY <1>3, <1>4, <1>5, <1>6, <1>7, <1>8, <1>9, <1>11, OrderStepKeepsIInv

\* CloseAsSubmitted keeps the invariant.
LEMMA CloseAsSubmittedKeepsIInv ==
    ASSUME IInv, NEW c \in Callers, CloseAsSubmitted(c)
    PROVE  IInv'
<1> USE DEF order, money, registrar, ghost
<1>1. TypeOK /\ JobFits(c) /\ Knows(c)
  BY DEF IInv
<1>2. AtUncertain(c)
  BY <1>1 DEF CloseAsSubmitted, JobFits, AtRequest, AtService, AtTransfers, AtRest, At, Serving
<1>3. PICK o \in Orders : o = Order(c) /\ OrderFits(o) /\ FeeIsFollowed(o)
  BY <1>2 DEF AtUncertain, IInv
<1>4. /\ UNCHANGED <<name, kind, due, old, money, row, registrar, clean, ghost>>
      /\ status' \in [Orders -> Statuses] /\ ref' \in [Orders -> {0} \cup Orders]
      /\ status[o] = "UNCERTAIN" => status'[o] = "SUBMITTED" /\ ref'[o] \in Orders
      /\ status[o] # "UNCERTAIN" => status'[o] = status[o] /\ ref'[o] = ref[o]
      /\ \A p \in Orders : p # o => status'[p] = status[p] /\ ref'[p] = ref[p]
      /\ kind[o] = "TRANSFER"
  BY <1>1, <1>3 DEF CloseAsSubmitted, Objects, TypeOK, Statuses
<1>5. /\ job' \in [Callers -> JobType]
      /\ \A d \in Callers : d # c => job'[d] = job[d]
      /\ JobFits(c)' /\ Knows(c)' /\ ~Renewing(c)' /\ \A p \in Orders : ~Serves(c, p)'
  BY StopsAtRest DEF CloseAsSubmitted
<1>6. TypeOK'
  BY <1>1, <1>4, <1>5 DEF TypeOK, JobType
<1>7. ASSUME NEW d \in Callers, d # c, Order(d) = o PROVE JobFits(d)' /\ Knows(d)'
  <2>1. JobFits(d) /\ Knows(d) /\ job'[d] = job[d]
    BY <1>5, <1>7 DEF IInv
  <2>2. JobFits(d)'
    BY <1>4, <1>7, <2>1
       DEF JobFits, AtRequest, AtService, AtUncertain, AtTransfers, AtRest, At, Order
  <2>3. Clean(o)' => Clean(o)
    BY <1>3, <1>4 DEF OrderFits, Clean
  <2>4. At(d, "accept") => status[o] # "UNCERTAIN"
    BY <1>7, <2>1 DEF JobFits, AtRequest, AtService, AtUncertain, AtTransfers, AtRest, At,
                      Serving
  <2> QED
    BY <1>4, <1>7, <2>1, <2>2, <2>3, <2>4 DEF Knows, At, Order, DateOfOrder
<1>8. OrderFits(o)' /\ FeeIsFollowed(o)'
  BY <1>2, <1>3, <1>4 DEF OrderFits, FeeIsFollowed, AtUncertain
<1>9. (InProgress(o)' => InProgress(o)) /\ (Outstanding(o)' => Outstanding(o))
  BY <1>4 DEF InProgress, Outstanding
<1> QED
  BY <1>3, <1>4, <1>5, <1>6, <1>7, <1>8, <1>9, OrderStepKeepsIInv

\* A transfer is accepted; the dates are synchronized.
LEMMA AcceptKeepsIInv ==
    ASSUME IInv, NEW c \in Callers, AcceptTransfer(c)
    PROVE  IInv'
<1> USE DEF order, money, registrar, ghost
<1>1. TypeOK /\ JobFits(c) /\ Knows(c)
  BY DEF IInv
<1>2. AtTransfers(c)
  BY <1>1 DEF AcceptTransfer, JobFits, AtRequest, AtService, AtUncertain, AtRest, At, Serving
<1>3. PICK o \in Orders : o = Order(c) /\ OrderFits(o) /\ FeeIsFollowed(o)
  BY <1>2 DEF AtTransfers, IInv
<1>4. /\ UNCHANGED <<name, kind, ref, due, old, money, registrar, ghost>>
      /\ status' \in [Orders -> Statuses]
      /\ status'[o] = IF status[o] = "SUBMITTED" THEN "COMPLETED" ELSE status[o]
      /\ \A p \in Orders : p # o => status'[p] = status[p]
      /\ row' \in Dates /\ clean' = {}
      /\ kind[o] = "TRANSFER"
  BY <1>1, <1>2, <1>3 DEF AcceptTransfer, AtTransfers, TypeOK, Statuses
<1>5. /\ job' \in [Callers -> JobType]
      /\ \A d \in Callers : d # c => job'[d] = job[d]
      /\ JobFits(c)' /\ Knows(c)' /\ ~Renewing(c)' /\ \A p \in Orders : ~Serves(c, p)'
  BY StopsAtRest DEF AcceptTransfer
<1>6. TypeOK'
  BY <1>1, <1>4, <1>5 DEF TypeOK, JobType
<1>7. ASSUME NEW d \in Callers, d # c, Order(d) = o PROVE JobFits(d)' /\ Knows(d)'
  <2>1. JobFits(d) /\ Knows(d) /\ job'[d] = job[d]
    BY <1>5, <1>7 DEF IInv
  <2>2. JobFits(d)'
    BY <1>4, <1>7, <2>1
       DEF JobFits, AtRequest, AtService, AtUncertain, AtTransfers, AtRest, At, Order
  <2> QED
    BY <1>3, <1>4, <1>7, <2>1, <2>2 DEF Knows, Clean, At, Order
<1>8. OrderFits(o)' /\ FeeIsFollowed(o)'
  BY <1>2, <1>3, <1>4 DEF OrderFits, FeeIsFollowed, AtTransfers
<1>9. (InProgress(o)' => InProgress(o)) /\ (Outstanding(o)' => Outstanding(o))
  BY <1>4 DEF InProgress, Outstanding
<1> QED
  BY <1>3, <1>4, <1>5, <1>6, <1>7, <1>8, <1>9, OrderStepKeepsIInv

\* Sync keeps the invariant.
LEMMA SyncKeepsIInv ==
    ASSUME IInv, NEW c \in Callers, Sync(c)
    PROVE  IInv'
<1> USE DEF order, money, registrar, ghost
<1>1. /\ job' = [job EXCEPT ![c] = Rest] /\ Rest \in JobType
      /\ JobFits(c)' /\ Knows(c)' /\ ~Renewing(c)' /\ \A o \in Orders : ~Serves(c, o)'
  BY StopsAtRest DEF Sync, Stops, Rest, JobType, Places, Operations
<1>2. \A o \in Orders : ~Serves(c, o)
  BY DEF Sync, Serves, Serving, At
<1>3. (row' = row /\ clean' = clean) \/ (row' \in {Nowhere, NoDate} \cup Dates /\ clean' = {})
  BY DEF Sync, IInv, TypeOK
<1>4. left \subseteq Orders /\ deaths \in 0 .. MaxDeaths
  BY DEF IInv, TypeOK
<1> QED
  BY <1>1, <1>2, <1>3, <1>4, MovingOnKeepsIInv DEF Sync

\* Each renewal is done once, so the dates stay within their bound.
LEMMA ExecutedIsBounded ==
    ASSUME NEW S \in SUBSET Orders
    PROVE  IsFiniteSet(S) /\ Cardinality(S) \in 0 .. MaxOrders
<1>1. IsFiniteSet(Orders) /\ Cardinality(Orders) = MaxOrders
  BY FS_Interval, DomainConstants DEF Orders
<1> QED
  BY <1>1, FS_Subset, FS_CardinalityType, DomainConstants

\* The registrar does what it was asked.
LEMMA ExecuteKeepsIInv ==
    ASSUME IInv, NEW o \in Orders, Execute(o)
    PROVE  IInv'
<1> USE DEF order, money, registrar, ghost
<1>1. TypeOK /\ OrderFits(o) /\ sent[o] = "open"
  BY DEF IInv, Execute
<1>2. /\ UNCHANGED <<name, order, money, row, ghost, job>>
      /\ sent' = [sent EXCEPT ![o] = IF kind[o] = "TRANSFER" THEN "pending" ELSE "done"]
      /\ sent'[o] = IF kind[o] = "TRANSFER" THEN "pending" ELSE "done"
      /\ \A p \in Orders : p # o => sent'[p] = sent[p]
      /\ clean' = clean \cap {o}
      /\ expiry' = IF kind[o] = "RENEW" THEN expiry + 1 ELSE expiry
  BY <1>1 DEF Execute, TypeOK
<1>3. expiry' \in Dates /\ ExpiryFits'
  <2>1. CASE kind[o] = "RENEW"
    <3>1. Executed' = Executed \cup {o} /\ o \notin Executed /\ Executed \in SUBSET Orders
      BY <1>1, <1>2, <2>1 DEF Executed
    <3>2. Cardinality(Executed') = Cardinality(Executed) + 1
      BY <3>1, ExecutedIsBounded, FS_AddElement
    <3>3. Cardinality(Executed') \in 0 .. MaxOrders /\ Cardinality(Executed) \in 0 .. MaxOrders
      BY <3>1, ExecutedIsBounded
    <3> QED
      BY <1>2, <2>1, <3>2, <3>3, DomainConstants DEF IInv, ExpiryFits, Dates
  <2>2. CASE kind[o] # "RENEW"
    <3>1. Executed' = Executed
      BY <1>1, <1>2, <2>2 DEF Executed
    <3> QED
      BY <1>1, <1>2, <2>2, <3>1 DEF IInv, ExpiryFits, TypeOK
  <2> QED
    BY <2>1, <2>2
<1>4. TypeOK'
  <2>1. sent' \in [Orders -> {"no", "open", "lost", "pending", "done", "failed"}]
    BY <1>1, <1>2 DEF TypeOK
  <2> QED
    BY <1>1, <1>2, <1>3, <2>1 DEF TypeOK
<1>5. \A d \in Callers : JobFits(d)' /\ Knows(d)'
  <2> SUFFICES ASSUME NEW d \in Callers PROVE JobFits(d)' /\ Knows(d)'
    OBVIOUS
  <2>1. JobFits(d) /\ Knows(d)
    BY DEF IInv
  <2>2. JobFits(d)'
    BY <1>2, <2>1 DEF JobFits, AtRequest, AtService, AtUncertain, AtTransfers, AtRest, At, Order
  <2>3. \A p \in Orders : Clean(p)' => Clean(p)
    BY <1>2 DEF Clean
  <2>4. \A p \in Orders : sent[p] = "done" => sent'[p] = "done"
    BY <1>1, <1>2
  <2>7. ASSUME NEW p \in clean', NEW x \in {NoDate} \cup Dates, DateOfOrder(p, x)
        PROVE  DateOfOrder(p, x)'
    <3>1. p = o /\ kind[o] = "RENEW"
      BY <1>1, <1>2, <2>7 DEF OrderFits
    <3> QED
      BY <1>1, <1>2, <2>7, <3>1 DEF DateOfOrder
  <2>5. CASE Order(d) \in Orders
    <3>1. At(d, "accept") => ref[Order(d)] \in Orders
      BY <2>1 DEF JobFits, AtRequest, AtService, AtUncertain, AtTransfers, AtRest, At, Serving
    <3>2. At(d, "look") /\ Order(d) \in clean' => DateOfOrder(Order(d), job[d].date)'
      <4>1. job[d].date \in {NoDate} \cup Dates /\ clean' \subseteq clean
        BY <1>2 DEF IInv, TypeOK
      <4>2. At(d, "look") /\ Order(d) \in clean' => DateOfOrder(Order(d), job[d].date)
        BY <2>1, <4>1 DEF Knows
      <4> QED
        BY <1>2, <2>7, <4>1, <4>2 DEF DateOfOrder, Order
    <3> QED
      BY <1>1, <1>2, <2>1, <2>2, <2>3, <2>4, <2>5, <3>1, <3>2 DEF Knows, At, Order
  <2>6. CASE Order(d) \notin Orders
    BY <1>2, <2>1, <2>2, <2>6
       DEF JobFits, AtRequest, AtService, AtUncertain, AtTransfers, AtRest, Knows, At, Order
  <2> QED
    BY <2>5, <2>6
<1>6. \A p \in Orders : OrderFits(p)' /\ FeeIsFollowed(p)'
  <2>1. OrderFits(o)'
    <3>1. row \in Nat /\ expiry \in Nat
      BY <1>1, DomainConstants DEF TypeOK, Nowhere, NoDate, Dates
    <3> QED
      BY <1>1, <1>2, <3>1 DEF OrderFits, DateOfOrder
  <2>2. ASSUME NEW p \in Orders, p # o PROVE OrderFits(p)'
    BY <1>2, <2>2 DEF IInv, OrderFits
  <2>3. \A p \in Orders : FeeIsFollowed(p)'
    BY <1>2 DEF IInv, FeeIsFollowed, Serves, Order
  <2> QED
    BY <2>1, <2>2, <2>3
<1>7. OneServes' /\ RenewalLock'
  BY <1>2 DEF IInv, OneServes, Serves, RenewalLock, Renewing, Outstanding, InProgress, At, Order
<1> QED
  BY <1>3, <1>4, <1>5, <1>6, <1>7 DEF IInv

\* It does not do it, or a transfer ends.
LEMMA DropAndSettleKeepsIInv ==
    ASSUME IInv, NEW o \in Orders, Drop(o) \/ Settle(o)
    PROVE  IInv'
<1> USE DEF order, money, registrar, ghost
<1>1. TypeOK /\ OrderFits(o)
  BY DEF IInv
<1>2. /\ UNCHANGED <<name, order, money, row, expiry, clean, ghost, job>>
      /\ sent' \in [Orders -> {"no", "open", "lost", "pending", "done", "failed"}]
      /\ \/ sent[o] = "open" /\ sent'[o] = "lost"
         \/ sent[o] = "pending" /\ sent'[o] \in {"done", "failed"} /\ kind[o] = "TRANSFER"
      /\ \A p \in Orders : p # o => sent'[p] = sent[p]
  BY <1>1 DEF Drop, Settle, TypeOK
<1>3. TypeOK'
  BY <1>1, <1>2 DEF TypeOK
<1>4. \A d \in Callers : JobFits(d)' /\ Knows(d)'
  <2> SUFFICES ASSUME NEW d \in Callers PROVE JobFits(d)' /\ Knows(d)'
    OBVIOUS
  <2>1. JobFits(d) /\ Knows(d)
    BY DEF IInv
  <2>2. JobFits(d)'
    BY <1>2, <2>1 DEF JobFits, AtRequest, AtService, AtUncertain, AtTransfers, AtRest, At, Order
  <2>3. \A p \in Orders : Clean(p)' => Clean(p)
    BY <1>2 DEF Clean
  <2>4. \A p \in Orders : sent[p] = "done" => sent'[p] = "done"
    BY <1>2
  <2>7. ASSUME NEW p \in clean', NEW x \in {NoDate} \cup Dates, DateOfOrder(p, x)
        PROVE  DateOfOrder(p, x)'
    <3>1. p \in Orders /\ (sent'[p] = "done" <=> sent[p] = "done")
      <4>1. p \in Orders /\ OrderFits(p)
        BY <1>2 DEF IInv, TypeOK
      <4> QED
        BY <1>2, <4>1 DEF OrderFits
    <3> QED
      BY <1>2, <2>7, <3>1 DEF DateOfOrder
  <2>5. CASE Order(d) \in Orders
    <3>1. At(d, "accept") => ref[Order(d)] \in Orders
      BY <2>1 DEF JobFits, AtRequest, AtService, AtUncertain, AtTransfers, AtRest, At, Serving
    <3>2. At(d, "look") /\ Order(d) \in clean' => DateOfOrder(Order(d), job[d].date)'
      <4>1. job[d].date \in {NoDate} \cup Dates /\ clean' \subseteq clean
        BY <1>2 DEF IInv, TypeOK
      <4>2. At(d, "look") /\ Order(d) \in clean' => DateOfOrder(Order(d), job[d].date)
        BY <2>1, <4>1 DEF Knows
      <4> QED
        BY <1>2, <2>7, <4>1, <4>2 DEF DateOfOrder, Order
    <3> QED
      BY <1>2, <2>1, <2>2, <2>3, <2>4, <2>5, <3>1, <3>2 DEF Knows, At, Order
  <2>6. CASE Order(d) \notin Orders
    BY <1>2, <2>1, <2>2, <2>6
       DEF JobFits, AtRequest, AtService, AtUncertain, AtTransfers, AtRest, Knows, At, Order
  <2> QED
    BY <2>5, <2>6
<1>5. \A p \in Orders : OrderFits(p)' /\ FeeIsFollowed(p)'
  <2>1. OrderFits(o)'
    BY <1>1, <1>2 DEF OrderFits, DateOfOrder
  <2>2. ASSUME NEW p \in Orders, p # o PROVE OrderFits(p)'
    BY <1>2, <2>2 DEF IInv, OrderFits, DateOfOrder
  <2>3. \A p \in Orders : FeeIsFollowed(p)'
    BY <1>2 DEF IInv, FeeIsFollowed, Serves, Order
  <2> QED
    BY <2>1, <2>2, <2>3
<1>6. OneServes' /\ RenewalLock'
  BY <1>2 DEF IInv, OneServes, Serves, RenewalLock, Renewing, Outstanding, InProgress, At, Order
<1>7. ExpiryFits'
  <2>1. Executed' = Executed
    BY <1>2 DEF Executed
  <2> QED
    BY <1>2, <2>1 DEF IInv, ExpiryFits
<1> QED
  BY <1>3, <1>4, <1>5, <1>6, <1>7 DEF IInv

\* Time passes.
LEMMA TimeKeepsIInv ==
    ASSUME IInv, NEW o \in Orders, HourPasses(o) \/ GetsOld(o)
    PROVE  IInv'
<1> USE DEF order, money, registrar, ghost
<1>1. /\ UNCHANGED <<name, status, kind, ref, money, row, registrar, clean, ghost, job>>
      /\ \/ due' = due \cup {o} /\ old' = old /\ status[o] = "UNCERTAIN" /\ sent[o] # "open"
         \/ /\ old' = old \cup {o} /\ due' = due
            /\ status[o] # "none" /\ \A c \in Callers : Order(c) # o
  BY DEF HourPasses, GetsOld
<1>2. TypeOK'
  BY <1>1 DEF IInv, TypeOK
<1>3. \A d \in Callers : JobFits(d)' /\ Knows(d)'
  <2> SUFFICES ASSUME NEW d \in Callers PROVE JobFits(d)' /\ Knows(d)'
    OBVIOUS
  <2>1. JobFits(d) /\ Knows(d)
    BY DEF IInv
  <2>2. JobFits(d)'
    BY <1>1, <2>1 DEF JobFits, AtRequest, AtService, AtUncertain, AtTransfers, AtRest, At, Order
  <2> QED
    BY <1>1, <2>1, <2>2 DEF Knows, Clean, At, Order, DateOfOrder
<1>4. \A p \in Orders : OrderFits(p)' /\ FeeIsFollowed(p)'
  <2>1. \A p \in Orders : OrderFits(p)'
    BY <1>1 DEF IInv, OrderFits, DateOfOrder
  <2>2. \A p \in Orders : FeeIsFollowed(p)'
    BY <1>1 DEF IInv, FeeIsFollowed, Serves, Order
  <2> QED
    BY <2>1, <2>2
<1>5. OneServes' /\ RenewalLock'
  <2>1. OneServes'
    BY <1>1 DEF IInv, OneServes, Serves, Order
  <2>2. \A p \in Orders :
           (InProgress(p)' => InProgress(p)) /\ (Outstanding(p)' => Outstanding(p))
    BY <1>1 DEF InProgress, Outstanding
  <2>3. \A d \in Callers : Renewing(d)' <=> Renewing(d)
    BY <1>1 DEF Renewing, At
  <2> QED
    BY <2>1, <2>2, <2>3 DEF IInv, RenewalLock
<1>6. ExpiryFits'
  BY <1>1 DEF IInv, ExpiryFits, Executed
<1> QED
  BY <1>2, <1>3, <1>4, <1>5, <1>6 DEF IInv

\* A stutter.
LEMMA StutterKeepsIInv == IInv /\ UNCHANGED vars => IInv'
<1> SUFFICES ASSUME IInv, UNCHANGED vars PROVE IInv'
  OBVIOUS
<1> USE DEF vars, order, money, registrar, ghost
<1>1. TypeOK'
  BY DEF IInv, TypeOK
<1>2. \A d \in Callers : JobFits(d)' /\ Knows(d)'
  BY DEF IInv, JobFits, AtRequest, AtService, AtUncertain, AtTransfers, AtRest, Knows, Clean,
         At, Order, DateOfOrder
<1>3. \A p \in Orders : OrderFits(p)' /\ FeeIsFollowed(p)'
  BY DEF IInv, OrderFits, FeeIsFollowed, Serves, Order, DateOfOrder
<1>4. OneServes' /\ RenewalLock' /\ ExpiryFits'
  BY DEF IInv, OneServes, Serves, RenewalLock, Renewing, Outstanding, InProgress, ExpiryFits,
         Executed, At, Order
<1> QED
  BY <1>1, <1>2, <1>3, <1>4 DEF IInv

\* The invariant is inductive.
LEMMA StepKeepsIInv == IInv /\ [Next]_vars => IInv'
<1> SUFFICES ASSUME IInv, [Next]_vars PROVE IInv'
  OBVIOUS
<1>1. ASSUME NEW c \in Callers, Work(c) PROVE IInv'
  BY <1>1, RequestMovesOnKeepsIInv, ReadRowKeepsIInv, LookAtRegistrarKeepsIInv,
     AskingKeepsIInv, PutKeepsIInv, ChargeAndCallKeepsIInv, AnswerWrittenKeepsIInv,
     RefundKeepsIInv, FailKeepsIInv, CloseKeepsIInv, CloseAsSubmittedKeepsIInv,
     AcceptKeepsIInv, SyncKeepsIInv
     DEF Work
<1>2. ASSUME NEW c \in Callers, Begin(c) \/ Die(c) PROVE IInv'
  BY <1>2, BeginKeepsIInv, AskingKeepsIInv
<1>3. ASSUME NEW o \in Orders,
             Execute(o) \/ Drop(o) \/ Settle(o) \/ HourPasses(o) \/ GetsOld(o)
      PROVE  IInv'
  BY <1>3, ExecuteKeepsIInv, DropAndSettleKeepsIInv, TimeKeepsIInv
<1> QED
  BY <1>1, <1>2, <1>3, StutterKeepsIInv DEF Next

\* The inductive invariant holds.
THEOREM Invariant == Spec => []IInv
BY InitIInv, StepKeepsIInv, PTL DEF Spec

-----------------------------------------------------------------------------
(* What follows from it.                                                   *)

\* Every state of the program is well formed: among others, what was given back
\* was taken, and the registrar's date moves at most once for each order.
THEOREM TypeCorrect == Spec => []TypeOK
<1>1. IInv => TypeOK
  BY DEF IInv
<1> QED
  BY <1>1, Invariant, PTL

\* At most one request is between the insertion of an order and the first answer
\* to it: only that request calls the registrar for the order.
THEOREM ServedByOne == Spec => []OneServes
<1>1. IInv => OneServes
  BY DEF IInv
<1> QED
  BY <1>1, Invariant, PTL

\* A fee that was taken is being worked on, waits for the registrar, bought
\* something, went back or was logged for a correction, or its request died or
\* took the debit for refused.
THEOREM FeesAreAnswered == Spec => []FeeIsAnswered
<1>1. IInv => FeeIsAnswered
  BY DEF IInv, TypeOK, FeeIsFollowed, FeeIsAnswered, Serves
<1> QED
  BY <1>1, Invariant, PTL

\* A double click, or a renewal ordered again while the first is UNCERTAIN or has
\* just ended, finds the first.
THEOREM RenewsOnce == Spec => []OneRenewalAtATime
<1>1. IInv => OneRenewalAtATime
  <2> DEFINE S == {o \in Orders : kind[o] = "RENEW"
                     /\ \/ status[o] = "UNCERTAIN"
                        \/ status[o] \in {"QUEUED", "COMPLETED"} /\ o \notin old}
  <2> SUFFICES ASSUME IInv PROVE Cardinality(S) <= 1
    BY DEF OneRenewalAtATime
  <2>1. \A o, p \in S : o = p
    BY DEF IInv, RenewalLock, Outstanding
  <2> HIDE DEF S
  <2>2. CASE S = {}
    BY <2>2, FS_EmptySet
  <2>3. ASSUME NEW o \in S PROVE Cardinality(S) <= 1
    <3>1. S = {o}
      BY <2>1, <2>3
    <3>2. Cardinality({o}) = 1
      BY FS_Singleton
    <3> QED
      BY <3>1, <3>2
  <2> QED
    BY <2>2, <2>3
<1> QED
  BY <1>1, Invariant, PTL

\* No fee goes back for what the registrar has done or may still do, whoever gives
\* it back and whatever answer was lost: also when one pass closes a renewal while
\* another, which has read its row, judges it.  Not for what Clean names: a row that
\* was moved, by the renewal's own closing or by synchronizuj too, before a pass
\* read it; there the code gives back the fee of a renewal that was done.
THEOREM RefundsAreRight == Spec => RefundIsRight
<1> DEFINE Step == \A o \in refunded' \ refunded : Clean(o) => sent[o] \in {"lost", "failed"}
<1>1. IInv /\ [Next]_vars => Step
  <2> SUFFICES ASSUME IInv, [Next]_vars, NEW o \in refunded' \ refunded, Clean(o)
               PROVE  sent[o] \in {"lost", "failed"}
    OBVIOUS
  <2>1. PICK c \in Callers : Refund(c)
    <3>1. ASSUME NEW c \in Callers, Begin(c) PROVE FALSE
      BY <3>1 DEF Begin, BeginRegister, BeginTransfer, BeginRenew, BeginSync, BeginRetry,
                  BeginUncertain, BeginTransfers, money
    <3>2. ASSUME NEW c \in Callers, Work(c), ~Refund(c) PROVE FALSE
      BY <3>2 DEF Work, LockAndLook, Put, Charge, ChargeRefused, ChargeUnheard,
                  CallRegistrar, AnsweredDone, AnsweredNo, NotAnswered, MarkUncertain, WriteDone, WriteSubmitted,
                  RefundFails, Fail, ReadRow, LookAtRegistrar, Close, CloseAsSubmitted,
                  AskState, AcceptTransfer, AskSync, Sync, AskFails, money
    <3>3. ASSUME NEW c \in Callers, Die(c) PROVE FALSE
      BY <3>3 DEF Die, money
    <3>4. ASSUME NEW p \in Orders,
                 Execute(p) \/ Drop(p) \/ Settle(p) \/ HourPasses(p) \/ GetsOld(p)
          PROVE  FALSE
      BY <3>4 DEF Execute, Drop, Settle, HourPasses, GetsOld, money
    <3> QED
      BY <3>1, <3>2, <3>3, <3>4 DEF Next, vars, money
  <2>2. At(c, "refund") /\ o = Order(c) /\ Knows(c)
    BY <2>1 DEF Refund, IInv
  <2> QED
    BY <2>2 DEF Knows
<1>2. IInv /\ [Next]_vars => [Step]_vars
  BY <1>1
<1> QED
  BY <1>2, Invariant, PTL DEF Spec, RefundIsRight

\* No order is closed as served that the registrar did not serve, by its request,
\* by a pass that looks later or by the pass over the transfers, unless another
\* date or another object under the name misled the pass.
THEOREM CompletionsAreRight == Spec => CompletionIsRight
<1> DEFINE Step ==
      \A o \in Orders : status[o] # "COMPLETED" /\ status'[o] = "COMPLETED" /\ Clean(o) =>
        \E p \in Orders : sent[p] = "done" /\ kind[p] = kind[o] /\ (kind[o] = "RENEW" => p = o)
<1>1. IInv /\ [Next]_vars => Step
  <2> SUFFICES ASSUME IInv, [Next]_vars, NEW o \in Orders, Clean(o),
                      status[o] # "COMPLETED", status'[o] = "COMPLETED"
               PROVE  \E p \in Orders :
                        sent[p] = "done" /\ kind[p] = kind[o] /\ (kind[o] = "RENEW" => p = o)
    OBVIOUS
  <2>1. PICK c \in Callers : WriteDone(c) \/ Close(c) \/ AcceptTransfer(c)
    <3>1. ASSUME NEW c \in Callers, Begin(c) PROVE FALSE
      BY <3>1 DEF Begin, BeginRegister, BeginTransfer, BeginRenew, BeginSync, BeginRetry,
                  BeginUncertain, BeginTransfers, order
    <3>2. ASSUME NEW c \in Callers, Put(c) \/ WriteSubmitted(c) \/ CloseAsSubmitted(c)
          PROVE  FALSE
      BY <3>2 DEF Put, WriteSubmitted, CloseAsSubmitted, IInv, TypeOK
    <3>3. ASSUME NEW c \in Callers, MarkUncertain(c) \/ ChargeRefused(c)
                                   \/ ChargeUnheard(c) \/ Fail(c)
          PROVE  FALSE
      BY <3>3 DEF MarkUncertain, ChargeRefused, ChargeUnheard, Fail, SetStatus, IInv, TypeOK
    <3>4. ASSUME NEW c \in Callers, Die(c) \/
                 LockAndLook(c) \/ Charge(c) \/ CallRegistrar(c) \/ AnsweredDone(c)
                 \/ AnsweredNo(c) \/ NotAnswered(c) \/ Refund(c) \/ RefundFails(c) \/ ReadRow(c)
                 \/ LookAtRegistrar(c) \/ AskState(c) \/ AskSync(c) \/ Sync(c) \/ AskFails(c)
          PROVE  FALSE
      BY <3>4 DEF Die, LockAndLook, Charge, CallRegistrar, AnsweredDone, AnsweredNo,
                  NotAnswered, Refund, RefundFails, ReadRow, LookAtRegistrar, AskState, AskSync,
                  Sync, AskFails, order
    <3>5. ASSUME NEW p \in Orders,
                 Execute(p) \/ Drop(p) \/ Settle(p) \/ HourPasses(p) \/ GetsOld(p)
          PROVE  FALSE
      BY <3>5 DEF Execute, Drop, Settle, HourPasses, GetsOld, order
    <3> QED
      BY <3>1, <3>2, <3>3, <3>4, <3>5 DEF Next, Work, vars, order
  <2>2. /\ o = Order(c) /\ JobFits(c) /\ Knows(c) /\ OrderFits(o)
        /\ kind[o] \in Kinds
    BY <2>1 DEF WriteDone, SetStatus, Close, AcceptTransfer, IInv, TypeOK
  <2>3. CASE WriteDone(c)
    BY <2>2, <2>3 DEF WriteDone, Knows, OrderFits
  <2>4. CASE Close(c)
    BY <2>2, <2>4 DEF Close, Knows, Clean, Kinds
  <2>5. CASE AcceptTransfer(c)
    <3>1. AtTransfers(c) /\ sent[ref[o]] = "done"
      BY <2>2, <2>5 DEF AcceptTransfer, Knows, JobFits, AtRequest, AtService, AtUncertain,
                        AtRest, At, Serving
    <3>2. ref[o] = o /\ kind[o] = "TRANSFER"
      BY <2>2, <3>1 DEF AtTransfers, Clean, Orders
    <3> QED
      BY <3>1, <3>2
  <2> QED
    BY <2>1, <2>3, <2>4, <2>5
<1>2. IInv /\ [Next]_vars => [Step]_vars
  BY <1>1
<1> QED
  BY <1>2, Invariant, PTL DEF Spec, CompletionIsRight
=============================================================================
