---------------------------- MODULE QueueProofs -----------------------------
(***************************************************************************)
(* What goes through a queue: orders with their provisioning job, and the  *)
(* tasks of the nodes.  For any number of payments, attempts and deaths,   *)
(* and any price: hosting follows the fee, a fee that went back leaves no  *)
(* hosting behind, a fee that was charged is answered, and a payment is    *)
(* used or reported.  For any number of tasks, waves and retries: a wave   *)
(* reaches the second node only by a success on the first, and the tasks   *)
(* of a node run one at a time.                                            *)
(***************************************************************************)
EXTENDS ServiceOrder, NodeTasks, FiniteSetTheorems, TLAPS

-----------------------------------------------------------------------------
(* The order.                                                              *)

\* Where a run is once the fee is charged.
AfterDebit == {"recheck", "claim", "why", "giveback", "enqueue", "queued", "undo", "reset"}

RunOK(r) ==
    /\ pc[r] # "idle" => r \in paid \cup {Checkout}
    /\ pc[r] \in AfterDebit => charged
    /\ pc[r] = "reset" => Refunded
    /\ pc[r] = "why" => Refunded \/ status # "PENDING_PAYMENT"

JobOK ==
    /\ job # "none" => charged
    /\ worker # "idle" <=> job = "active"
    /\ job \in {"failed", "completed"} => account \/ Refunded \/ deaths > 0

\* What the worker knows of the account and of the fee at each of its places.
WorkerOK ==
    /\ worker \in {"read", "create", "limits", "save", "rollback"} => ~account
    /\ worker \in {"error", "fatal", "refund", "reset"} => ~account \/ late
    /\ worker \in {"promote", "finalize"} => account
    /\ worker = "reset" => Refunded
    /\ refund \in {"job", "order"} => worker \in {"idle", "start", "reset"}

\* The run that will answer for a charge, as long as nothing else does.
Responsible(r) ==
    \/ pc[r] \in {"enqueue", "undo"}
    \/ pc[r] \in {"recheck", "claim"} /\ status \in {"PENDING_PAYMENT", "CANCELED"}
    \/ pc[r] \in {"why", "giveback"} /\ status = "CANCELED"

\* A charge is answered, or the job or a run is going to answer it.
Answering ==
    deaths = 0 /\ charged =>
        \/ account
        \/ Refunded
        \/ job \in {"waiting", "active"}
        \/ \E r \in Runs : Responsible(r)

\* A run that set the order going, and a payment nobody was told of.
Holds(r) == pc[r] \in {"enqueue", "queued", "undo"} \/ r \in Unreported

\* A fee that stands has set the order going once.
OneFeeOnePayment ==
    ~Refunded => \A r \in Runs : Holds(r) =>
        /\ charged /\ status # "PENDING_PAYMENT"
        /\ \A q \in Runs : Holds(q) => q = r

\* Whoever gave the fee back has told of it or is about to.
Reporting ==
    deaths = 0 /\ Refunded /\ paid # {} =>
        \/ alarm \/ told # {}
        \/ worker = "reset"
        \/ \E r \in Runs : pc[r] \in {"fail", "reset"}

\* An order is paid at the check-out or by payments.
WaysToPay ==
    /\ oplata = "PORTFEL" => paid = {}
    /\ oplata = "PAYNOW" => pc[Checkout] = "idle" /\ (charged => paid # {})

PaymentsOK == OneFeeOnePayment /\ Reporting /\ WaysToPay

\* The inductive invariant.
IInv ==
    /\ TypeOK
    /\ FeeFirst
    /\ status \in {"PROVISIONING", "ACTIVE"} => charged
    /\ \A r \in Runs : RunOK(r)
    /\ JobOK
    /\ WorkerOK
    /\ RefundLeavesNoHosting
    /\ Answering
    /\ PaymentsOK

\* The invariant holds at the start.
LEMMA InitIInv == Init => IInv
<1> SUFFICES ASSUME Init PROVE IInv
  OBVIOUS
<1>1. TypeOK
  <2>1. {old, account, onNode, charged, alarm, late, canceling, cleaning} \subseteq BOOLEAN
    BY DEF Init
  <2>2. pc \in [Runs -> Places] /\ wallet \in Nat
    BY OrderConstants DEF Init, Runs, Places
  <2> QED
    BY <2>1, <2>2, OrderConstants DEF Init, TypeOK, WorkerPlaces
<1>2. FeeFirst /\ JobOK /\ WorkerOK /\ RefundLeavesNoHosting /\ Answering
  BY DEF Init, FeeFirst, JobOK, WorkerOK, RefundLeavesNoHosting, Answering, Refunded
<1>3. \A r \in Runs : RunOK(r)
  BY DEF Init, RunOK, AfterDebit, Runs
<1>4. PaymentsOK
  BY OrderConstants
     DEF Init, PaymentsOK, OneFeeOnePayment, Holds, Unreported, Reporting, WaysToPay, Refunded, Runs
<1> QED
  BY <1>1, <1>2, <1>3, <1>4 DEF Init, IInv

-----------------------------------------------------------------------------
(* The runs.                                                               *)

\* Steps that set nothing going and report what they give back.
LEMMA PaymentsKept ==
    ASSUME IInv, UNCHANGED oplata,
           \A q \in Runs : Holds(q)' => Holds(q),
           charged => charged', Refunded => Refunded',
           status' = "PENDING_PAYMENT" => status = "PENDING_PAYMENT" \/ Refunded',
           Reporting', WaysToPay'
    PROVE  PaymentsOK'
<1>1. OneFeeOnePayment'
  BY DEF IInv, PaymentsOK, OneFeeOnePayment
<1> QED
  BY <1>1 DEF PaymentsOK

\* A step of a run that leaves the order, the job and the money alone.
LEMMA QuietMove ==
    ASSUME IInv, NEW r \in Runs, NEW place \in Places, Goto(r, place),
           pc[r] # "idle", UNCHANGED <<order, hosting, money, paid, queue, others>>,
           UNCHANGED alarm, told \subseteq told', told' \subseteq paid,
           place \in AfterDebit => charged,
           place # "reset",
           place = "why" => status # "PENDING_PAYMENT",
           Answering',
           place \in {"enqueue", "queued", "undo"} => Holds(r),
           place = "idle" => r \in told' \/ r = Checkout,
           pc[r] # "reset",
           pc[r] = "fail" => told' # {} \/ r = Checkout
    PROVE  IInv'
<1>1. /\ pc' = [pc EXCEPT ![r] = place]
      /\ \A q \in Runs : pc'[q] = IF q = r THEN place ELSE pc[q]
  BY DEF IInv, TypeOK, Goto
<1>2. TypeOK'
  <2>1. {old, account, onNode, charged, alarm, late, canceling, cleaning}' \subseteq BOOLEAN
    BY DEF IInv, TypeOK, order, hosting, money, queue, others
  <2> QED
    BY <1>1, <2>1 DEF IInv, TypeOK, order, hosting, money, queue, others
<1>3. ASSUME NEW q \in Runs PROVE RunOK(q)'
  BY <1>1 DEF IInv, RunOK, notes, Refunded, order, money
<1>4. PaymentsOK'
  <2>1. WaysToPay'
    BY <1>1 DEF IInv, RunOK, PaymentsOK, WaysToPay, money, others, Runs
  <2>2. Reporting'
    BY <1>1 DEF IInv, PaymentsOK, WaysToPay, Reporting, TypeOK, Refunded, money, others, queue
  <2>3. ASSUME NEW q \in Runs, Holds(q)' PROVE Holds(q)
    BY <1>1, <2>3, OrderConstants DEF IInv, TypeOK, Holds, Unreported, others
  <2> QED
    BY <2>1, <2>2, <2>3, PaymentsKept DEF order, money, others, Refunded
<1> QED
  BY <1>2, <1>3, <1>4
     DEF IInv, FeeFirst, JobOK, WorkerOK, RefundLeavesNoHosting, Refunded, order, hosting,
         money, queue, others

\* Steps of a run that read, or pass an error on.
LEMMA ReadingKeepsIInv ==
    ASSUME IInv, NEW r \in Runs, Check(r) \/ Recheck(r) \/ Why(r) \/ EnqueueFails(r) \/ Fail(r)
    PROVE  IInv'
<1> DEFINE place == pc'[r]
<1>1. /\ Goto(r, place) /\ place \in Places /\ pc[r] # "idle"
      /\ UNCHANGED <<order, hosting, money, paid, queue, others>>
      /\ \A q \in Runs : q # r => pc'[q] = pc[q]
      /\ UNCHANGED alarm /\ told \subseteq told' /\ told' \subseteq paid
  <2>1. /\ Goto(r, place) /\ place \in Places /\ pc[r] # "idle"
        /\ \A q \in Runs : q # r => pc'[q] = pc[q]
    BY DEF IInv, TypeOK, Check, Recheck, Why, EnqueueFails, Fail, Goto, Places
  <2>2. UNCHANGED <<order, hosting, money, paid, queue, others>>
    BY DEF Check, Recheck, Why, EnqueueFails, Fail, notes
  <2>3. UNCHANGED alarm /\ (told' = told \/ told' = told \cup ({r} \cap Payments))
    BY DEF Check, Recheck, Why, EnqueueFails, Fail, notes
  <2>4. {r} \cap Payments \subseteq paid
    BY <2>1, OrderConstants DEF IInv, RunOK
  <2>5. told \subseteq told' /\ told' \subseteq paid
    BY <2>3, <2>4 DEF IInv, TypeOK
  <2> QED
    BY <2>1, <2>2, <2>3, <2>5
<1>2. /\ place \in AfterDebit => charged
      /\ place \notin {"reset", "why"}
      /\ pc[r] # "reset"
      /\ place \in {"enqueue", "queued", "undo"} => Holds(r)
  BY DEF IInv, TypeOK, RunOK, AfterDebit, Check, Recheck, Why, EnqueueFails, Fail, Goto, Holds
<1>7. /\ place = "idle" => r \in told' \/ r = Checkout
      /\ pc[r] = "fail" => told' # {} \/ r = Checkout
  BY DEF IInv, TypeOK, Check, Recheck, Why, EnqueueFails, Fail, Goto, Runs
<1>3. Responsible(r) /\ ~Refunded /\ status # "PENDING_PAYMENT" => Responsible(r)'
  BY <1>1 DEF IInv, TypeOK, Responsible, Check, Recheck, ChargeStands, Why, OrderIsGone,
         EnqueueFails, Fail, Goto, order
<1>4. Responsible(r) /\ ~Refunded /\ status = "PENDING_PAYMENT" => Responsible(r)'
  BY <1>1 DEF IInv, TypeOK, RunOK, Responsible, Check, Recheck, ChargeStands, Why, OrderIsGone,
         EnqueueFails, Fail, Goto, order
<1>5. \A q \in Runs : q # r /\ Responsible(q) => Responsible(q)'
  BY <1>1 DEF Responsible, order
<1>6. Answering'
  BY <1>1, <1>3, <1>4, <1>5 DEF IInv, Answering, Refunded, hosting, money, queue, others
<1> HIDE DEF place
<1> QED
  BY <1>1, <1>2, <1>6, <1>7, QuietMove

\* MarkQueued keeps the invariant.
LEMMA MarkQueuedKeepsIInv ==
    ASSUME IInv, NEW r \in Runs, MarkQueued(r)
    PROVE  IInv'
<1>1. /\ pc' = [pc EXCEPT ![r] = "idle"] /\ pc[r] = "queued" /\ charged /\ stage' = "queued"
      /\ UNCHANGED <<status, old, hosting, money, notes, queue, others>>
      /\ \A q \in Runs : pc'[q] = IF q = r THEN "idle" ELSE pc[q]
  BY DEF IInv, TypeOK, RunOK, AfterDebit, MarkQueued, Goto
<1>2. TypeOK'
  <2>1. {old, account, onNode, charged, alarm, late, canceling, cleaning}' \subseteq BOOLEAN
    BY <1>1 DEF IInv, TypeOK, hosting, money, notes, queue, others
  <2> QED
    BY <1>1, <2>1 DEF IInv, TypeOK, hosting, money, notes, queue, others, Places
<1>3. ASSUME NEW q \in Runs PROVE RunOK(q)'
  BY <1>1 DEF IInv, RunOK, notes, Refunded, money, AfterDebit
<1>4. Answering'
  BY <1>1 DEF IInv, Answering, Responsible, Refunded, hosting, money, queue, others
<1>5. PaymentsOK'
  <2>1. WaysToPay'
    BY <1>1 DEF IInv, PaymentsOK, WaysToPay, money, notes, others, Runs
  <2>2. Reporting'
    BY <1>1 DEF IInv, PaymentsOK, Reporting, Refunded, money, notes, others, queue
  <2>3. ASSUME NEW q \in Runs, Holds(q)' PROVE Holds(q)
    BY <1>1, <2>3 DEF Holds, Unreported, notes, others
  <2> QED
    BY <1>1, <2>1, <2>2, <2>3, PaymentsKept DEF money, others, Refunded
<1> QED
  BY <1>1, <1>2, <1>3, <1>4, <1>5
     DEF IInv, FeeFirst, JobOK, WorkerOK, RefundLeavesNoHosting, Refunded, hosting, money,
         queue, others

\* The statements that move the money, the order or the job.
LEMMA DebitKeepsIInv ==
    ASSUME IInv, NEW r \in Runs, Debit(r)
    PROVE  IInv'
<1>1. /\ pc[r] = "debit" /\ pc' = [pc EXCEPT ![r] = pc'[r]]
      /\ pc'[r] \in {"recheck", "fail"} /\ (pc'[r] = "recheck" => charged')
      /\ UNCHANGED <<order, hosting, notes, queue, others, refund>>
      /\ \A q \in Runs : pc'[q] = IF q = r THEN pc'[r] ELSE pc[q]
  BY DEF IInv, TypeOK, Debit, Goto, money
<1>2. wallet' \in Nat /\ charged' \in BOOLEAN /\ (charged => charged')
  <2>1. charged \in BOOLEAN /\ wallet \in Nat
    BY DEF IInv, TypeOK
  <2>2. charged' = charged \/ charged' = TRUE
    BY Zenon DEF Debit, money
  <2>3. wallet' \in Nat
    BY <2>1, OrderConstants DEF Debit, money
  <2>4. charged' \in BOOLEAN /\ (charged => charged')
    <3>1. CASE charged' = charged
      BY <2>1, <3>1
    <3>2. CASE charged' = TRUE
      BY <3>2
    <3> QED
      BY <2>2, <3>1, <3>2
  <2> QED
    BY <2>3, <2>4
<1>3. charged' /\ ~charged => pc'[r] = "recheck"
  BY <1>1 DEF IInv, TypeOK, Debit, Goto, money
<1>4. TypeOK'
  <2>1. {old, account, onNode, charged, alarm, late, canceling, cleaning}' \subseteq BOOLEAN
    BY <1>1, <1>2 DEF IInv, TypeOK, order, hosting, notes, queue, others
  <2>2. pc' \in [Runs -> Places]
    BY <1>1 DEF IInv, TypeOK, Places
  <2> QED
    BY <1>1, <1>2, <2>1, <2>2 DEF IInv, TypeOK, order, hosting, notes, queue, others
<1>5. ASSUME NEW q \in Runs PROVE RunOK(q)'
  BY <1>1, <1>2 DEF IInv, RunOK, notes, Refunded, order, AfterDebit
<1>6. Answering'
  <2>1. \A q \in Runs : Responsible(q) => Responsible(q)'
    BY <1>1 DEF Responsible, order
  <2>2. charged' /\ ~charged => Responsible(r)'
    BY <1>1, <1>3 DEF IInv, TypeOK, Responsible, order
  <2> QED
    BY <1>1, <1>2, <2>1, <2>2 DEF IInv, Answering, Refunded, hosting, queue, others
<1>7. PaymentsOK'
  <2>1. WaysToPay'
    <3>1. oplata = "PAYNOW" => r \in paid
      BY <1>1 DEF IInv, PaymentsOK, WaysToPay, RunOK
    <3> QED
      BY <1>1, <3>1 DEF IInv, PaymentsOK, WaysToPay, notes, others, Runs
  <2>2. Reporting'
    BY <1>1 DEF IInv, PaymentsOK, Reporting, Refunded, notes, others, queue
  <2>3. ASSUME NEW q \in Runs, Holds(q)' PROVE Holds(q)
    BY <1>1, <2>3 DEF Holds, Unreported, notes, others
  <2> QED
    BY <1>1, <1>2, <2>1, <2>2, <2>3, PaymentsKept DEF order, others, Refunded
<1> QED
  BY <1>1, <1>2, <1>4, <1>5, <1>6, <1>7
     DEF IInv, FeeFirst, JobOK, WorkerOK, RefundLeavesNoHosting, Refunded, order, hosting,
         queue, others

\* Claim keeps the invariant.
LEMMA ClaimKeepsIInv ==
    ASSUME IInv, NEW r \in Runs, Claim(r)
    PROVE  IInv'
<1>1. /\ pc[r] = "claim" /\ pc' = [pc EXCEPT ![r] = pc'[r]] /\ charged
      /\ UNCHANGED <<stage, old, hosting, money, notes, queue, others>>
      /\ \/ /\ status = "PENDING_PAYMENT" /\ status' = "PROVISIONING" /\ pc'[r] = "enqueue"
         \/ /\ status # "PENDING_PAYMENT" /\ status' = status /\ pc'[r] = "why"
      /\ \A q \in Runs : pc'[q] = IF q = r THEN pc'[r] ELSE pc[q]
  BY DEF IInv, TypeOK, RunOK, AfterDebit, Claim, Goto
<1>2. TypeOK'
  <2>1. {old, account, onNode, charged, alarm, late, canceling, cleaning}' \subseteq BOOLEAN
    BY <1>1 DEF IInv, TypeOK, hosting, money, notes, queue, others
  <2>2. pc' \in [Runs -> Places]
    BY <1>1 DEF IInv, TypeOK, Places
  <2> QED
    BY <1>1, <2>1, <2>2 DEF IInv, TypeOK, hosting, money, notes, queue, others
<1>3. ASSUME NEW q \in Runs PROVE RunOK(q)'
  BY <1>1 DEF IInv, RunOK, notes, Refunded, money, AfterDebit
<1>4. Answering'
  <2>1. CASE status = "PENDING_PAYMENT"
    BY <1>1, <2>1 DEF Answering, Responsible
  <2>2. CASE status # "PENDING_PAYMENT"
    <3>1. \A q \in Runs : Responsible(q) => Responsible(q)'
      BY <1>1, <2>2 DEF Responsible
    <3> QED
      BY <1>1, <2>2, <3>1 DEF IInv, Answering, Refunded, hosting, money, queue, others
  <2> QED
    BY <2>1, <2>2
<1>5. PaymentsOK'
  <2>1. WaysToPay'
    BY <1>1 DEF IInv, PaymentsOK, WaysToPay, money, notes, others, Runs
  <2>2. Reporting'
    BY <1>1 DEF IInv, PaymentsOK, Reporting, Refunded, money, notes, others, queue
  <2>3. \A q \in Runs \ {r} : Holds(q)' => Holds(q)
    BY <1>1 DEF Holds, Unreported, notes, others
  <2>4. CASE status = "PENDING_PAYMENT"
    BY <1>1, <2>1, <2>2, <2>3, <2>4
       DEF IInv, PaymentsOK, OneFeeOnePayment, Refunded, money
  <2>5. CASE status # "PENDING_PAYMENT"
    <3>1. ~Holds(r)'
      BY <1>1, <2>5 DEF Holds, Unreported
    <3> QED
      BY <1>1, <2>1, <2>2, <2>3, <2>5, <3>1, PaymentsKept DEF money, others, Refunded
  <2> QED
    BY <2>4, <2>5
<1> QED
  BY <1>1, <1>2, <1>3, <1>4, <1>5
     DEF IInv, FeeFirst, JobOK, WorkerOK, RefundLeavesNoHosting, Refunded, hosting, money,
         queue, others

\* The credit of a run is there once, and it is not the one of the job.
LEMMA RefundByRunKeepsIInv ==
    ASSUME IInv, NEW r \in Runs, GiveBack(r) \/ Undo(r)
    PROVE  IInv'
<1>1. /\ pc' = [pc EXCEPT ![r] = pc'[r]] /\ pc'[r] \in {"fail", "reset"} /\ charged
      /\ UNCHANGED <<order, hosting, notes, queue, others, charged>>
      /\ refund' = IF Refunded THEN refund ELSE IF SettingUp THEN "amid" ELSE "order"
      /\ \A q \in Runs : pc'[q] = IF q = r THEN pc'[r] ELSE pc[q]
      /\ pc[r] # "idle"
  BY DEF IInv, TypeOK, RunOK, AfterDebit, GiveBack, Undo, CreditByRun, Credit, Goto
<1>2. /\ wallet' \in Nat /\ refund' \in {"job", "order", "amid"}
      /\ refund' \in {"job", "order"} =>
            refund = refund' \/ (~account /\ worker \in {"idle", "start"})
  BY <1>1, OrderConstants
     DEF IInv, TypeOK, GiveBack, Undo, CreditByRun, Credit, Refunded, SettingUp
<1>3. TypeOK'
  <2>1. {old, account, onNode, charged, alarm, late, canceling, cleaning}' \subseteq BOOLEAN
    BY <1>1 DEF IInv, TypeOK, order, hosting, notes, queue, others
  <2>2. pc' \in [Runs -> Places]
    BY <1>1 DEF IInv, TypeOK, Places
  <2> QED
    BY <1>1, <1>2, <2>1, <2>2 DEF IInv, TypeOK, order, hosting, notes, queue, others, Refunded
<1>4. ASSUME NEW q \in Runs PROVE RunOK(q)'
  BY <1>1, <1>2 DEF IInv, RunOK, Refunded, notes
<1>5. Answering'
  BY <1>1, <1>2 DEF Answering, Refunded
<1>6. PaymentsOK'
  <2>1. WaysToPay'
    BY <1>1 DEF IInv, PaymentsOK, WaysToPay, notes, others, Runs
  <2>2. Reporting'
    BY <1>1 DEF Reporting
  <2> QED
    BY <1>2, <2>1, <2>2 DEF PaymentsOK, OneFeeOnePayment, Refunded
<1> QED
  BY <1>1, <1>2, <1>3, <1>4, <1>5, <1>6
     DEF IInv, FeeFirst, JobOK, WorkerOK, RefundLeavesNoHosting, Refunded, order, hosting,
         queue, others

\* Enqueue keeps the invariant.
LEMMA EnqueueKeepsIInv ==
    ASSUME IInv, NEW r \in Runs, Enqueue(r)
    PROVE  IInv'
<1>1. /\ pc' = [pc EXCEPT ![r] = "queued"] /\ charged /\ pc[r] # "idle"
      /\ UNCHANGED <<order, hosting, money, notes, worker, late, others>>
      /\ job' = (IF job = "none" THEN "waiting" ELSE job)
      /\ attempts' \in {0, attempts}
      /\ \A q \in Runs : pc'[q] = IF q = r THEN "queued" ELSE pc[q]
  BY DEF IInv, TypeOK, RunOK, AfterDebit, Enqueue, Goto
<1>2. TypeOK'
  <2>1. {old, account, onNode, charged, alarm, late, canceling, cleaning}' \subseteq BOOLEAN
    BY <1>1 DEF IInv, TypeOK, order, hosting, money, notes, others
  <2>2. pc' \in [Runs -> Places] /\ attempts' \in 0 .. MaxAttempts - 1
    BY <1>1, OrderConstants DEF IInv, TypeOK, Places
  <2> QED
    BY <1>1, <2>1, <2>2 DEF IInv, TypeOK, order, hosting, money, notes, others
<1>3. ASSUME NEW q \in Runs PROVE RunOK(q)'
  BY <1>1 DEF IInv, RunOK, notes, Refunded, order, money, AfterDebit
<1>4. Answering'
  BY <1>1 DEF IInv, TypeOK, JobOK, Answering, Refunded, hosting, money, others
<1>6. PaymentsOK'
  <2>1. WaysToPay'
    BY <1>1 DEF IInv, PaymentsOK, WaysToPay, money, notes, others, Runs
  <2>2. Reporting'
    BY <1>1 DEF IInv, PaymentsOK, Reporting, Refunded, money, notes, others, Enqueue
  <2>3. ASSUME NEW q \in Runs, Holds(q)' PROVE Holds(q)
    BY <1>1, <2>3 DEF Holds, Unreported, notes, others, Enqueue
  <2> QED
    BY <1>1, <2>1, <2>2, <2>3, PaymentsKept DEF order, money, others, Refunded
<1>5. JobOK'
  BY <1>1 DEF IInv, JobOK, Refunded, hosting, money, others
<1> QED
  BY <1>1, <1>2, <1>3, <1>4, <1>5, <1>6
     DEF IInv, FeeFirst, WorkerOK, RefundLeavesNoHosting, Refunded, order, hosting, money, others

\* ResetOrder keeps the invariant.
LEMMA ResetOrderKeepsIInv ==
    ASSUME IInv, NEW r \in Runs, ResetOrder(r)
    PROVE  IInv'
<1>1. /\ pc' = [pc EXCEPT ![r] = "fail"] /\ charged /\ Refunded /\ pc[r] # "idle"
      /\ status' = "PENDING_PAYMENT"
      /\ UNCHANGED <<stage, old, hosting, money, notes, queue, others>>
      /\ \A q \in Runs : pc'[q] = IF q = r THEN "fail" ELSE pc[q]
  BY DEF IInv, TypeOK, RunOK, AfterDebit, ResetOrder, Goto
<1>2. TypeOK'
  <2>1. {old, account, onNode, charged, alarm, late, canceling, cleaning}' \subseteq BOOLEAN
    BY <1>1 DEF IInv, TypeOK, hosting, money, notes, queue, others
  <2>2. pc' \in [Runs -> Places]
    BY <1>1 DEF IInv, TypeOK, Places
  <2> QED
    BY <1>1, <2>1, <2>2 DEF IInv, TypeOK, hosting, money, notes, queue, others
<1>3. ASSUME NEW q \in Runs PROVE RunOK(q)'
  BY <1>1 DEF IInv, RunOK, notes, Refunded, money, AfterDebit
<1>4. Answering' /\ PaymentsOK'
  <2>1. WaysToPay'
    BY <1>1 DEF IInv, PaymentsOK, WaysToPay, money, notes, others, Runs
  <2>2. Reporting'
    BY <1>1 DEF Reporting
  <2> QED
    BY <1>1, <2>1, <2>2 DEF Answering, PaymentsOK, OneFeeOnePayment, Refunded, money
<1> QED
  BY <1>1, <1>2, <1>3, <1>4
     DEF IInv, FeeFirst, JobOK, WorkerOK, RefundLeavesNoHosting, Refunded, hosting, money,
         queue, others

-----------------------------------------------------------------------------
(* The worker.                                                             *)

\* A step of the worker that leaves the money alone, and the order, too, unless
\* there is an account.
LEMMA WorkerMove ==
    ASSUME IInv, job \in {"waiting", "active"},
           UNCHANGED <<old, money, notes, pc, others>>,
           stage' \in {"none", "queued", "running", "retrying", "failed", "completed"},
           job' \in {"waiting", "active", "failed", "completed"},
           attempts' \in 0 .. MaxAttempts - 1,
           worker' \in WorkerPlaces,
           {account, onNode, late}' \subseteq BOOLEAN,
           account => account',
           status' = status \/ (status' = "ACTIVE" /\ account'),
           JobOK', WorkerOK', RefundLeavesNoHosting',
           job' \in {"waiting", "active"} \/ account' \/ Refunded,
           worker # "reset"
    PROVE  IInv'
<1>1. charged
  BY DEF IInv, JobOK
<1>2. TypeOK'
  <2>1. {old, account, onNode, charged, alarm, late, canceling, cleaning}' \subseteq BOOLEAN
    <3>1. {old, charged, alarm, canceling, cleaning} \subseteq BOOLEAN
      BY DEF IInv, TypeOK
    <3> QED
      BY <3>1 DEF money, notes, others
  <2> QED
    BY <2>1 DEF IInv, TypeOK, money, notes, others
<1>3. FeeFirst'
  BY <1>1 DEF FeeFirst, money
<1>4. ASSUME NEW q \in Runs PROVE RunOK(q)'
  BY DEF IInv, RunOK, notes, Refunded, money
<1>5. Answering'
  BY DEF IInv, Answering, Refunded, money, notes, others
<1>6. PaymentsOK'
  <2>1. WaysToPay' /\ Reporting'
    BY DEF IInv, PaymentsOK, WaysToPay, Reporting, Refunded, money, notes, others
  <2>2. \A q \in Runs : Holds(q)' => Holds(q)
    BY DEF Holds, Unreported, notes, others
  <2> QED
    BY <2>1, <2>2, PaymentsKept DEF money, others, Refunded
<1> QED
  BY <1>1, <1>2, <1>3, <1>4, <1>5, <1>6 DEF IInv, money

\* The worker up to the saved account.
LEMMA SettingUpKeepsIInv ==
    ASSUME IInv,
           Take \/ Start \/ Existing \/ Promote \/ Read \/ Create \/ CreateFails
           \/ SetLimits \/ Save \/ SaveFails \/ Rollback
    PROVE  IInv'
<1>1. /\ job \in {"waiting", "active"}
      /\ UNCHANGED <<old, money, notes, pc, attempts, late, others>>
      /\ stage' \in {stage, "running", "failed"}
      /\ job' \in {"active", "failed"}
      /\ worker' \in WorkerPlaces
      /\ job' = "active" \/ Refunded
      /\ worker # "reset"
  BY DEF IInv, TypeOK, JobOK, WorkerPlaces, Take, Start, FeeWentBack, Existing, HasAccount,
         Promote, Read, Create, CreateFails, SetLimits, Save, SaveFails, Rollback, order,
         hosting
<1>2. attempts \in 0 .. MaxAttempts - 1 /\ {account, onNode, late} \subseteq BOOLEAN
  BY DEF IInv, TypeOK
<1>3. /\ account' = account \/ account' = TRUE
      /\ onNode' = onNode \/ onNode' = TRUE \/ onNode' = FALSE
      /\ status' = status \/ (status' = "ACTIVE" /\ account')
  BY <1>2 DEF IInv, WorkerOK, Take, Start, Existing, Promote, Read, Create, CreateFails,
              SetLimits, Save, SaveFails, Rollback, order, hosting
<1>4. {account, onNode, late}' \subseteq BOOLEAN /\ (account => account')
  <2>1. account' \in BOOLEAN /\ (account => account')
    <3>1. CASE account' = account
      BY <1>2, <3>1
    <3>2. CASE account' = TRUE
      BY <3>2
    <3> QED
      BY <1>3, <3>1, <3>2
  <2>2. onNode' \in BOOLEAN /\ late' \in BOOLEAN
    BY <1>1, <1>2, <1>3
  <2> QED
    BY <2>1, <2>2
<1>5. JobOK'
  BY <1>1 DEF IInv, TypeOK, JobOK, Refunded, money, others, Take, Start, Existing, Promote,
              Read, Create, CreateFails, SetLimits, Save, SaveFails, Rollback
<1>6. WorkerOK'
  <2>1. CASE Take \/ Start \/ Existing \/ Promote
    BY <1>1, <2>1 DEF IInv, WorkerOK, Refunded, money, hosting, Take, Start, FeeWentBack,
                      Existing, HasAccount, Promote
  <2>2. CASE Read \/ SetLimits \/ SaveFails
    BY <1>1, <2>2 DEF IInv, WorkerOK, Refunded, money, hosting, Read, SetLimits, SaveFails
  <2>3. CASE Create \/ CreateFails \/ Rollback
    <3>1. /\ worker \in {"create", "rollback"} /\ worker' \in {"error", "fatal", "limits"}
          /\ UNCHANGED <<account, late, refund>>
      BY <1>1, <2>3 DEF Create, CreateFails, Rollback, money
    <3> QED
      BY <3>1 DEF IInv, WorkerOK
  <2>4. CASE Save
    BY <1>1, <2>4 DEF IInv, WorkerOK, Refunded, money, Save
  <2> QED
    BY <2>1, <2>2, <2>3, <2>4
<1>7. RefundLeavesNoHosting'
  BY <1>1 DEF IInv, WorkerOK, RefundLeavesNoHosting, money, hosting, Take, Start, Existing,
              Promote, Read, Create, CreateFails, SetLimits, Save, SaveFails, Rollback
<1> QED
  BY <1>1, <1>2, <1>3, <1>4, <1>5, <1>6, <1>7, WorkerMove DEF IInv, TypeOK

\* The end of an attempt.
LEMMA EndingKeepsIInv ==
    ASSUME IInv, Finalize \/ FinalizeFails \/ TryAgain \/ GiveUp
    PROVE  IInv'
<1>1. /\ job = "active"
      /\ UNCHANGED <<status, old, hosting, money, notes, pc, others>>
      /\ stage' \in {"completed", "retrying", "failed"}
      /\ job' \in {"waiting", "active", "completed"}
      /\ worker' \in WorkerPlaces
      /\ job' \in {"waiting", "active"} \/ account'
      /\ worker # "reset"
  BY DEF IInv, TypeOK, JobOK, WorkerOK, WorkerPlaces, Finalize, FinalizeFails, TryAgain, GiveUp,
         hosting
<1>2. {account, onNode, late}' \subseteq BOOLEAN
  <2>1. {account, onNode, late} \subseteq BOOLEAN
    BY DEF IInv, TypeOK
  <2>2. late' \in {late, TRUE}
    BY DEF Finalize, FinalizeFails, TryAgain, GiveUp
  <2> QED
    BY <1>1, <2>1, <2>2 DEF hosting
<1>3. attempts' \in 0 .. MaxAttempts - 1
  BY OrderConstants DEF IInv, TypeOK, Finalize, FinalizeFails, TryAgain, LastAttempt, GiveUp
<1>4. JobOK'
  BY <1>1 DEF IInv, TypeOK, JobOK, WorkerOK, Refunded, hosting, money, others, Finalize,
              FinalizeFails, TryAgain, GiveUp
<1>5. WorkerOK'
  BY <1>1
     DEF IInv, WorkerOK, Refunded, hosting, money, Finalize, FinalizeFails, TryAgain, GiveUp
<1>6. RefundLeavesNoHosting'
  BY <1>1 DEF IInv, WorkerOK, RefundLeavesNoHosting, hosting, money, Finalize, FinalizeFails,
              TryAgain, GiveUp
<1> QED
  BY <1>1, <1>2, <1>3, <1>4, <1>5, <1>6, WorkerMove DEF hosting

\* RefundFee keeps the invariant.
LEMMA RefundFeeKeepsIInv ==
    ASSUME IInv, RefundFee
    PROVE  IInv'
<1>1. /\ worker = "refund" /\ worker' = "reset" /\ charged
      /\ UNCHANGED <<order, hosting, notes, pc, job, attempts, late, others, charged>>
      /\ refund' = IF Refunded THEN refund ELSE "job"
  BY DEF IInv, TypeOK, JobOK, RefundFee, Credit
<1>2. wallet' \in Nat /\ refund' # "nobody"
  BY <1>1, OrderConstants DEF IInv, TypeOK, RefundFee, Credit, Refunded
<1>3. TypeOK'
  <2>1. {old, account, onNode, charged, alarm, late, canceling, cleaning}' \subseteq BOOLEAN
    BY <1>1 DEF IInv, TypeOK, order, hosting, notes, others
  <2> QED
    BY <1>1, <1>2, <2>1 DEF IInv, TypeOK, WorkerPlaces, order, hosting, notes, others
<1>4. ASSUME NEW q \in Runs PROVE RunOK(q)'
  BY <1>1, <1>2 DEF IInv, RunOK, notes, Refunded, order
<1>5. Answering'
  BY <1>1, <1>2 DEF IInv, Answering, Refunded, notes, others
<1>7. PaymentsOK'
  <2>1. WaysToPay'
    BY <1>1 DEF IInv, PaymentsOK, WaysToPay, notes, others
  <2>2. Reporting'
    BY <1>1 DEF Reporting
  <2> QED
    BY <1>2, <2>1, <2>2 DEF PaymentsOK, OneFeeOnePayment, Refunded
<1>6. JobOK' /\ WorkerOK' /\ RefundLeavesNoHosting'
  BY <1>1, <1>2 DEF IInv, JobOK, WorkerOK, RefundLeavesNoHosting, Refunded, hosting, others
<1> QED
  BY <1>1, <1>2, <1>3, <1>4, <1>5, <1>6, <1>7 DEF IInv, FeeFirst, Refunded, order, hosting

\* ResetAfterRefund keeps the invariant.
LEMMA ResetAfterRefundKeepsIInv ==
    ASSUME IInv, ResetAfterRefund
    PROVE  IInv'
<1>1. /\ worker = "reset" /\ worker' = "idle" /\ job' = "failed" /\ charged /\ Refunded
      /\ status' = "PENDING_PAYMENT"
      /\ UNCHANGED <<stage, old, hosting, money, paid, told, pc, attempts, late, others>>
      /\ alarm' = (IF paid # {} THEN TRUE ELSE alarm)
  BY DEF IInv, TypeOK, JobOK, WorkerOK, ResetAfterRefund
<1>2. TypeOK'
  <2>1. alarm' = alarm \/ alarm' = TRUE
    BY <1>1
  <2>2. alarm' \in BOOLEAN
    BY <2>1 DEF IInv, TypeOK
  <2>3. {old, account, onNode, charged, alarm, late, canceling, cleaning}' \subseteq BOOLEAN
    BY <1>1, <2>2 DEF IInv, TypeOK, hosting, money, others
  <2> QED
    BY <1>1, <2>3 DEF IInv, TypeOK, WorkerPlaces, hosting, money, others
<1>3. ASSUME NEW q \in Runs PROVE RunOK(q)'
  BY <1>1 DEF IInv, RunOK, notes, Refunded, money
<1>4. Answering' /\ PaymentsOK'
  <2>1. WaysToPay'
    BY <1>1 DEF IInv, PaymentsOK, WaysToPay, money, others
  <2>2. Reporting'
    BY <1>1 DEF Reporting
  <2> QED
    BY <1>1, <2>1, <2>2 DEF Answering, PaymentsOK, OneFeeOnePayment, Refunded, money
<1>5. JobOK' /\ WorkerOK' /\ RefundLeavesNoHosting'
  BY <1>1 DEF IInv, JobOK, WorkerOK, RefundLeavesNoHosting, Refunded, hosting, money
<1> QED
  BY <1>1, <1>2, <1>3, <1>4, <1>5 DEF IInv, FeeFirst, Refunded, hosting, money

-----------------------------------------------------------------------------
(* Payments, staff, cancellations, the cleanup, deaths.                    *)

\* Confirm keeps the invariant.
LEMMA ConfirmKeepsIInv ==
    ASSUME IInv, NEW p \in Payments, Confirm(p)
    PROVE  IInv'
<1>1. /\ pc' = [pc EXCEPT ![p] = "check"] /\ paid' = paid \cup {p} /\ p \in Runs
      /\ UNCHANGED <<order, hosting, charged, refund, told, alarm, queue, others>>
      /\ \A q \in Runs : pc'[q] = IF q = p THEN "check" ELSE pc[q]
  BY DEF IInv, TypeOK, Confirm, Goto, Runs
<1>2. wallet' \in Nat
  BY OrderConstants DEF IInv, TypeOK, Confirm
<1>3. TypeOK'
  <2>1. {old, account, onNode, charged, alarm, late, canceling, cleaning}' \subseteq BOOLEAN
    BY <1>1 DEF IInv, TypeOK, order, hosting, queue, others
  <2>2. pc' \in [Runs -> Places]
    BY <1>1 DEF IInv, TypeOK, Places
  <2> QED
    BY <1>1, <1>2, <2>1, <2>2 DEF IInv, TypeOK, order, hosting, queue, others
<1>4. ASSUME NEW q \in Runs PROVE RunOK(q)'
  BY <1>1 DEF IInv, RunOK, notes, Refunded, order, AfterDebit
<1>5. PaymentsOK'
  <2>1. WaysToPay'
    BY <1>1, OrderConstants DEF IInv, PaymentsOK, WaysToPay, others, Confirm
  <2>2. Reporting'
    <3>1. pc[p] = "idle" /\ oplata = "PAYNOW"
      BY OrderConstants DEF IInv, RunOK, Runs, Confirm
    <3> QED
      BY <1>1, <3>1 DEF IInv, FeeFirst, PaymentsOK, WaysToPay, Reporting, Refunded, others, queue
  <2>3. ASSUME NEW q \in Runs, Holds(q)' PROVE Holds(q)
    BY <1>1, <2>3 DEF Holds, Unreported, others
  <2> QED
    BY <1>1, <2>1, <2>2, <2>3, PaymentsKept DEF order, others, Refunded
<1>6. Answering'
  <2>1. ASSUME NEW q \in Runs, Responsible(q), deaths = 0, charged, ~account, ~Refunded
        PROVE  Answering'
    <3>1. CASE q # p
      BY <1>1, <2>1, <3>1 DEF Answering, Responsible, order
    <3>2. CASE q = p
      BY <2>1, <3>2, OrderConstants DEF IInv, RunOK, Responsible, Confirm
    <3> QED
      BY <3>1, <3>2
  <2> QED
    BY <1>1, <2>1 DEF IInv, Answering, Refunded, hosting, queue, others
<1> QED
  BY <1>1, <1>3, <1>4, <1>5, <1>6
     DEF IInv, FeeFirst, JobOK, WorkerOK, RefundLeavesNoHosting, Refunded, order, hosting,
         queue, others

\* A run dies, or the worker does.
LEMMA DeathKeepsIInv ==
    ASSUME IInv, DieWorker \/ \E r \in Runs : DieRun(r)
    PROVE  IInv'
<1>1. /\ deaths' \in 0 .. MaxDeaths /\ deaths' # 0
      /\ died' \subseteq Runs \cup {"worker"}
      /\ UNCHANGED <<order, hosting, money, notes, attempts, late, oplata, canceling, cleaning>>
  BY OrderConstants DEF IInv, TypeOK, DieRun, DieWorker, queue
<1>2. /\ \A q \in Runs : pc'[q] \in {pc[q], "idle"}
      /\ pc' \in [Runs -> Places]
  BY DEF IInv, TypeOK, DieRun, DieWorker, Goto, Places
<1>3. /\ worker' \in {worker, "idle"} /\ worker' \in WorkerPlaces
      /\ \/ UNCHANGED <<job, worker>>
         \/ job = "active" /\ job' \in {"waiting", "failed"} /\ worker' = "idle"
  BY DEF IInv, TypeOK, JobOK, DieRun, DieWorker, WorkerPlaces, queue
<1>4. TypeOK'
  <2>1. {old, account, onNode, charged, alarm, late, canceling, cleaning}' \subseteq BOOLEAN
    BY <1>1 DEF IInv, TypeOK, order, hosting, money, notes
  <2> QED
    BY <1>1, <1>2, <1>3, <2>1 DEF IInv, TypeOK, order, hosting, money, notes
<1>5. ASSUME NEW q \in Runs PROVE RunOK(q)'
  BY <1>1, <1>2 DEF IInv, RunOK, Refunded, order, money, notes, AfterDebit
<1>6. Answering' /\ PaymentsOK'
  <2>1. WaysToPay'
    BY <1>1, <1>2 DEF IInv, PaymentsOK, WaysToPay, money, notes, Runs
  <2>2. Reporting'
    BY <1>1 DEF Reporting
  <2>3. ASSUME NEW q \in Runs, Holds(q)' PROVE Holds(q)
    <3>1. died \subseteq died' /\ (pc'[q] = pc[q] \/ q \in died')
      BY DEF IInv, TypeOK, DieRun, DieWorker, Goto
    <3> QED
      BY <1>1, <1>2, <2>3, <3>1 DEF Holds, Unreported, notes
  <2> QED
    BY <1>1, <2>1, <2>2, <2>3, PaymentsKept DEF Answering, Refunded, order, money
<1>7. JobOK' /\ WorkerOK'
  BY <1>1, <1>3 DEF IInv, TypeOK, JobOK, WorkerOK, Refunded, hosting, money
<1> QED
  BY <1>1, <1>4, <1>5, <1>6, <1>7
     DEF IInv, FeeFirst, RefundLeavesNoHosting, Refunded, order, hosting, money

\* A retry from the panel, or its refusal.
LEMMA PanelKeepsIInv ==
    ASSUME IInv, RetryJob \/ DiscardJob
    PROVE  IInv'
<1>1. /\ job = "failed" /\ worker = "idle" /\ job' \in {"waiting", "none"} /\ charged
      /\ stage' \in {stage, "queued"} /\ attempts' \in {0, attempts}
      /\ UNCHANGED <<status, old, hosting, money, notes, pc, worker, late, others>>
  BY DEF IInv, TypeOK, JobOK, RetryJob, DiscardJob, order
<1>2. TypeOK'
  <2>1. {old, account, onNode, charged, alarm, late, canceling, cleaning}' \subseteq BOOLEAN
    BY <1>1 DEF IInv, TypeOK, hosting, money, notes, others
  <2>2. attempts' \in 0 .. MaxAttempts - 1
    BY <1>1, OrderConstants DEF IInv, TypeOK
  <2> QED
    BY <1>1, <2>1, <2>2 DEF IInv, TypeOK, hosting, money, notes, others
<1>3. ASSUME NEW q \in Runs PROVE RunOK(q)'
  BY <1>1 DEF IInv, RunOK, Refunded, money, notes
<1>4. Answering'
  BY <1>1 DEF IInv, JobOK, Answering, Refunded, hosting, money, notes, others
<1>6. PaymentsOK'
  <2>1. WaysToPay' /\ Reporting'
    BY <1>1 DEF IInv, PaymentsOK, WaysToPay, Reporting, Refunded, money, notes, others
  <2>2. \A q \in Runs : Holds(q)' => Holds(q)
    BY <1>1 DEF Holds, Unreported, notes, others
  <2> QED
    BY <1>1, <2>1, <2>2, PaymentsKept DEF money, others, Refunded
<1>5. JobOK' /\ WorkerOK' /\ RefundLeavesNoHosting'
  BY <1>1 DEF IInv, JobOK, WorkerOK, RefundLeavesNoHosting, Refunded, hosting, money, others
<1> QED
  BY <1>1, <1>2, <1>3, <1>4, <1>5, <1>6 DEF IInv, FeeFirst, Refunded, hosting, money

\* A cancellation, by the customer or by the cleanup, and what leads to it.
LEMMA CancelKeepsIInv ==
    ASSUME IInv, BeginCancel \/ Cancel \/ GetsOld \/ BeginCleanup \/ Cleanup
    PROVE  IInv'
<1>1. /\ status' \in {status, "CANCELED"}
      /\ UNCHANGED <<stage, hosting, money, paid, told, pc, queue, oplata, deaths, died>>
  BY DEF BeginCancel, Cancel, GetsOld, BeginCleanup, Cleanup, StillUnpaid, order, notes, others
<1>2. /\ alarm' = alarm \/ alarm' = TRUE
      /\ old' = old \/ old' = TRUE
      /\ canceling' = canceling \/ canceling' \in BOOLEAN
      /\ cleaning' = cleaning \/ cleaning' \in BOOLEAN
  BY DEF IInv, TypeOK, BeginCancel, Cancel, GetsOld, BeginCleanup, Cleanup, order, notes, others
<1>3. /\ alarm' \in BOOLEAN /\ (alarm => alarm')
      /\ {old, canceling, cleaning}' \subseteq BOOLEAN
  <2>1. alarm \in BOOLEAN /\ {old, canceling, cleaning} \subseteq BOOLEAN
    BY DEF IInv, TypeOK
  <2>2. alarm' \in BOOLEAN /\ (alarm => alarm')
    BY <1>2, <2>1
  <2>3. {old, canceling, cleaning}' \subseteq BOOLEAN
    BY <1>2, <2>1
  <2> QED
    BY <2>2, <2>3
<1>4. TypeOK'
  <2>1. {old, account, onNode, charged, alarm, late, canceling, cleaning}' \subseteq BOOLEAN
    BY <1>1, <1>3 DEF IInv, TypeOK, hosting, money, queue
  <2> QED
    BY <1>1, <1>2, <2>1 DEF IInv, TypeOK, hosting, money, queue
<1>5. ASSUME NEW q \in Runs PROVE RunOK(q)'
  BY <1>1 DEF IInv, RunOK, Refunded, money
<1>6. PaymentsOK'
  <2>1. WaysToPay' /\ Reporting'
    BY <1>1, <1>3 DEF IInv, PaymentsOK, WaysToPay, Reporting, Refunded, money, queue
  <2>2. \A q \in Runs : Holds(q)' => Holds(q)
    BY <1>1 DEF Holds, Unreported
  <2> QED
    BY <1>1, <2>1, <2>2, PaymentsKept DEF money, Refunded
<1>7. Answering'
  <2>1. \A q \in Runs : Responsible(q) => Responsible(q)'
    BY <1>1 DEF Responsible
  <2> QED
    BY <1>1, <2>1 DEF IInv, Answering, Refunded, hosting, money, queue
<1> QED
  BY <1>1, <1>4, <1>5, <1>6, <1>7
     DEF IInv, FeeFirst, JobOK, WorkerOK, RefundLeavesNoHosting, Refunded, hosting, money, queue

\* Another purchase from the same wallet.
LEMMA OtherChargeKeepsIInv ==
    ASSUME IInv, OtherCharge
    PROVE  IInv'
<1>1. UNCHANGED <<order, hosting, charged, refund, notes, pc, queue, others>>
  BY DEF OtherCharge
<1>2. TypeOK'
  <2>1. wallet' \in Nat
    BY OrderConstants DEF IInv, TypeOK, OtherCharge
  <2>2. {old, account, onNode, charged, alarm, late, canceling, cleaning}' \subseteq BOOLEAN
    BY <1>1 DEF IInv, TypeOK, order, hosting, notes, queue, others
  <2> QED
    BY <1>1, <2>1, <2>2 DEF IInv, TypeOK, order, hosting, notes, queue, others
<1>3. \A q \in Runs : RunOK(q)'
  BY <1>1 DEF IInv, RunOK, Refunded, order, notes
<1>4. Answering'
  BY <1>1 DEF IInv, Answering, Responsible, Refunded, order, hosting, notes, queue, others
<1>5. PaymentsOK'
  <2>1. WaysToPay' /\ Reporting'
    BY <1>1 DEF IInv, PaymentsOK, WaysToPay, Reporting, Refunded, notes, others, queue
  <2>2. \A q \in Runs : Holds(q)' => Holds(q)
    BY <1>1 DEF Holds, Unreported, notes, others
  <2> QED
    BY <1>1, <2>1, <2>2, PaymentsKept DEF order, others, Refunded
<1> QED
  BY <1>1, <1>2, <1>3, <1>4, <1>5
     DEF IInv, FeeFirst, JobOK, WorkerOK, RefundLeavesNoHosting, Refunded, order, hosting,
         queue, others

-----------------------------------------------------------------------------
(* The theorems.                                                           *)

\* The invariant is inductive.
LEMMA StepKeepsIInv == IInv /\ [Next]_vars => IInv'
<1> SUFFICES ASSUME IInv, [Next]_vars PROVE IInv'
  OBVIOUS
<1>1. ASSUME NEW p \in Payments, Confirm(p) PROVE IInv'
  BY <1>1, ConfirmKeepsIInv
<1>2. ASSUME NEW r \in Runs, RunStep(r) PROVE IInv'
  BY <1>2, ReadingKeepsIInv, MarkQueuedKeepsIInv, DebitKeepsIInv, ClaimKeepsIInv,
     RefundByRunKeepsIInv, EnqueueKeepsIInv, ResetOrderKeepsIInv DEF RunStep
<1>3. CASE WorkerStep
  BY <1>3, SettingUpKeepsIInv, EndingKeepsIInv, RefundFeeKeepsIInv, ResetAfterRefundKeepsIInv
     DEF WorkerStep
<1>4. CASE UNCHANGED vars
  <2>1. /\ UNCHANGED <<order, hosting, money, notes, pc, queue, others>>
        /\ UNCHANGED <<status, stage, old, account, onNode, wallet, charged, refund>>
        /\ UNCHANGED <<paid, told, alarm, job, attempts, worker, late>>
        /\ UNCHANGED <<oplata, canceling, cleaning, deaths, died>>
    BY <1>4 DEF vars, order, hosting, money, notes, queue, others
  <2> QED
    BY <2>1 DEF IInv, TypeOK, FeeFirst, RunOK, JobOK, WorkerOK, RefundLeavesNoHosting, Answering,
                Responsible, PaymentsOK, OneFeeOnePayment, Holds, Unreported, Reporting,
                WaysToPay, Refunded
<1> QED
  BY <1>1, <1>2, <1>3, <1>4, DeathKeepsIInv, PanelKeepsIInv, CancelKeepsIInv,
     OtherChargeKeepsIInv DEF Next

\* The invariant the theorems below rest on (subscriptions.service.ts:1660-1800,
\* provisioning-queue.service.ts:421-601).
THEOREM Invariant == Spec => []IInv
<1> QED
  BY InitIInv, StepKeepsIInv, PTL DEF Spec

\* Every variable keeps its type: places, statuses and the attempts of the job
\* stay within what the code writes.
THEOREM TypeCorrect == Spec => []TypeOK
<1>1. IInv => TypeOK
  BY DEF IInv
<1> QED
  BY <1>1, Invariant, PTL

\* Hosting and refunds only ever follow the charge of the order, whatever the
\* runs of several payments do at once (subscriptions.service.ts:1714-1740).
THEOREM FeeComesFirst == Spec => []FeeFirst
<1>1. IInv => FeeFirst
  BY DEF IInv
<1> QED
  BY <1>1, Invariant, PTL

\* A fee that went back leaves no hosting behind, and none comes later: whoever
\* gave it back, unless a job was setting the hosting up meanwhile or failed after
\* it had saved the account (provisioning-queue.service.ts:425-473,
\* subscriptions.service.ts:1740-1800).
THEOREM RefundedOrderHasNoHosting == Spec => []RefundLeavesNoHosting
<1>1. IInv => RefundLeavesNoHosting
  BY DEF IInv
<1> QED
  BY <1>1, Invariant, PTL

\* At rest, a charge has become hosting or has gone back, for any number of
\* payments and attempts (subscriptions.service.ts:1724-1800).
THEOREM ChargesAreAnswered == Spec => []ChargeIsAnswered
<1>1. IInv => ChargeIsAnswered
  BY DEF IInv, ChargeIsAnswered, Answering, Quiet, Responsible
<1> QED
  BY <1>1, Invariant, PTL

\* One fee uses one payment.  Each other payment of the order was reported by its
\* own run, and none was forgotten when the fee went back, for any number of
\* payments and whoever of their runs dies (billing.service.ts:954-978,
\* provisioning-queue.service.ts:556-579).
THEOREM PaymentsAreUsedOrTold == Spec => []PaidOrTold
<1>1. ASSUME IInv PROVE PaidOrTold
  <2>1. ASSUME NEW p \in Unreported PROVE p \in Runs /\ Holds(p)
    BY <1>1, <2>1 DEF IInv, TypeOK, Unreported, Holds, Runs
  <2>2. Unreported # {} => charged
    BY <1>1, <2>1 DEF IInv, FeeFirst, PaymentsOK, OneFeeOnePayment
  <2>3. ~Refunded => \A p, q \in Unreported : p = q
    BY <1>1, <2>1 DEF IInv, PaymentsOK, OneFeeOnePayment
  <2>4. Refunded /\ Unreported # {} /\ Quiet /\ deaths = 0 => alarm \/ told # {}
    BY <1>1 DEF IInv, PaymentsOK, Reporting, Unreported, Quiet
  <2> QED
    BY <2>2, <2>3, <2>4 DEF PaidOrTold
<1> QED
  BY <1>1, Invariant, PTL

-----------------------------------------------------------------------------
(* The tasks of the nodes.                                                 *)

\* Nothing knows of a task that does not exist yet.
Unknown(i) ==
    /\ run[i] = "none" /\ complete[i] = "none" /\ fail[i] = "none"
    /\ i \notin retrying /\ i \notin done /\ wave[i] = 0
    /\ \A n \in Nodes : i \notin found[n]

\* A confirmation is sent by an execution that succeeded.
SentByDone(i) == complete[i] # "none" => i \in done

\* Rows say RUNNING for one task of a node at most, ...
OneRunning ==
    \A i, j \in Ids :
        taskStatus[i] = "RUNNING" /\ taskStatus[j] = "RUNNING" /\ node[i] = node[j] => i = j

\* ... and for one whose runner is at work, until it is given up.
WorksAsRow(i) == run[i] = "work" => taskStatus[i] = "RUNNING" \/ node[i] \in givenUp

\* The inductive invariant.
TasksIInv ==
    /\ TasksTypeOK
    /\ \A i \in Ids : taskStatus[i] = "absent" => Unknown(i)
    /\ \A i \in Ids : SentByDone(i) /\ WorksAsRow(i)
    /\ OneRunning
    /\ NextAfterSuccess

\* The invariant holds at the start.
LEMMA TasksInitIInv == TasksInit => TasksIInv
  BY TaskConstants
     DEF TasksInit, TasksIInv, TasksTypeOK, Ids, Nodes, Statuses, Handlers, Unknown, SentByDone,
         WorksAsRow, OneRunning, NextAfterSuccess, IsUpdate

-----------------------------------------------------------------------------
(* Rows.                                                                   *)

\* What a new row does to the rows there are: nothing.
LEMMA CreateFacts ==
    ASSUME TasksIInv, NEW n \in Nodes, NEW w \in 0 .. MaxWaves, CreateTask(n, w)
    PROVE  /\ node' \in [Ids -> Nodes] /\ wave' \in [Ids -> 0 .. MaxWaves]
           /\ taskStatus' \in [Ids -> Statuses] /\ stale' = stale
           /\ \E i \in Ids :
                /\ taskStatus[i] = "absent" /\ taskStatus'[i] = "QUEUED"
                /\ node'[i] = n /\ wave'[i] = w
                /\ \A j \in Ids : j # i =>
                    taskStatus'[j] = taskStatus[j] /\ node'[j] = node[j] /\ wave'[j] = wave[j]
  BY DEF TasksIInv, TasksTypeOK, CreateTask, Oldest, Absent, Statuses

\* A new row keeps the invariant if an update of the second node follows a
\* success on the first.
LEMMA CreateKeepsIInv ==
    ASSUME TasksIInv, NEW n \in Nodes, NEW w \in 0 .. MaxWaves, CreateTask(n, w),
           UNCHANGED <<fail, retrying, lease, done, givenUp, retries>>,
           waves' \in 0 .. MaxWaves,
           complete' \in [Ids -> Handlers], run' \in [Ids -> {"none", "work", "ask"}],
           \A i \in Ids : /\ complete'[i] \in {complete[i], "none"}
                          /\ run'[i] \in {run[i], "none"},
           w > 0 /\ n = Second => \E j \in done : wave[j] = w /\ node[j] = Canary
    PROVE  TasksIInv'
<1>1. PICK i \in Ids :
        /\ taskStatus[i] = "absent" /\ taskStatus'[i] = "QUEUED"
        /\ node'[i] = n /\ wave'[i] = w
        /\ \A j \in Ids : j # i =>
            taskStatus'[j] = taskStatus[j] /\ node'[j] = node[j] /\ wave'[j] = wave[j]
  BY CreateFacts
<1>2. TasksTypeOK'
  BY CreateFacts DEF TasksIInv, TasksTypeOK, lease
<1>3. i \notin done /\ run[i] = "none" /\ complete[i] = "none"
  BY <1>1 DEF TasksIInv, Unknown
<1>4. ASSUME NEW j \in Ids PROVE (taskStatus[j] = "absent" => Unknown(j))'
  BY <1>1 DEF TasksIInv, TasksTypeOK, Unknown, lease
<1>5. ASSUME NEW j \in Ids PROVE SentByDone(j)' /\ WorksAsRow(j)'
  BY <1>1, <1>3 DEF TasksIInv, TasksTypeOK, SentByDone, WorksAsRow
<1>6. OneRunning'
  BY <1>1 DEF TasksIInv, OneRunning
<1>7. NextAfterSuccess'
  <2>1. \A j \in done : j \in Ids /\ j # i
    BY <1>3 DEF TasksIInv, TasksTypeOK
  <2> QED
    BY <1>1, <2>1 DEF TasksIInv, NextAfterSuccess, IsUpdate
<1> QED
  BY <1>2, <1>4, <1>5, <1>6, <1>7 DEF TasksIInv

\* Rows that leave RUNNING, or do not reach it, keep the invariant, if the runners
\* left at work are noted.
LEMMA RowsKeepIInv ==
    ASSUME TasksIInv, NEW S \in SUBSET Ids,
           UNCHANGED <<node, wave, run, retries, waves>>,
           taskStatus' \in [Ids -> Statuses], stale' \in [Ids -> BOOLEAN],
           \A i \in Ids \ S : taskStatus'[i] = taskStatus[i],
           \A i \in S :
              taskStatus[i] # "absent" /\ taskStatus'[i] \in Statuses \ {"absent", "RUNNING"},
           givenUp' = givenUp \cup LeftAtWork(S),
           complete' \in [Ids -> Handlers], fail' \in [Ids -> Handlers \ {"written"}],
           \A i \in Ids : /\ complete'[i] # "none" => complete[i] # "none"
                          /\ fail'[i] # "none" => fail[i] # "none",
           done' = done, retrying' \subseteq retrying,
           request' \in [Nodes -> {"idle", "reclaim", "lease"}],
           found' \in [Nodes -> SUBSET Ids],
           \A n \in Nodes : found'[n] \subseteq found[n]
    PROVE  TasksIInv'
<1>1. TasksTypeOK'
  <2>1. LeftAtWork(S) \subseteq Nodes
    BY DEF TasksIInv, TasksTypeOK, LeftAtWork
  <2> QED
    BY <2>1 DEF TasksIInv, TasksTypeOK
<1>2. ASSUME NEW i \in Ids PROVE (taskStatus[i] = "absent" => Unknown(i))'
  BY DEF TasksIInv, TasksTypeOK, Unknown, Handlers
<1>3. ASSUME NEW i \in Ids PROVE SentByDone(i)' /\ WorksAsRow(i)'
  BY DEF TasksIInv, SentByDone, WorksAsRow, LeftAtWork
<1>4. OneRunning'
  BY DEF TasksIInv, OneRunning
<1>5. NextAfterSuccess'
  BY DEF TasksIInv, NextAfterSuccess, IsUpdate
<1> QED
  BY <1>1, <1>2, <1>3, <1>4, <1>5 DEF TasksIInv

-----------------------------------------------------------------------------
(* Queueing and retries.                                                   *)

\* New tasks are queued.
LEMMA QueueingKeepsIInv ==
    ASSUME TasksIInv, QueueWave \/ \E n \in Profiled : QueueProfile(n)
    PROVE  TasksIInv'
<1>1. ASSUME QueueWave PROVE TasksIInv'
  BY <1>1, TaskConstants, CreateKeepsIInv
     DEF QueueWave, TasksIInv, TasksTypeOK, Nodes, reports, lease
<1>2. ASSUME NEW n \in Profiled, QueueProfile(n) PROVE TasksIInv'
  BY <1>2, TaskConstants, CreateKeepsIInv
     DEF QueueProfile, TasksIInv, TasksTypeOK, Nodes, reports, lease, bounds
<1> QED
  BY <1>1, <1>2

\* BeginRetry keeps the invariant.
LEMMA BeginRetryKeepsIInv ==
    ASSUME TasksIInv, NEW i \in Ids, BeginRetry(i)
    PROVE  TasksIInv'
<1>1. /\ taskStatus[i] = "FAILED"
      /\ retrying' = retrying \cup {i} /\ retries' \in 0 .. MaxRetries
      /\ UNCHANGED <<task, run, reports, lease, done, givenUp, waves>>
  BY TaskConstants DEF TasksIInv, TasksTypeOK, BeginRetry
<1>2. TasksTypeOK'
  BY <1>1 DEF TasksIInv, TasksTypeOK, task, reports, lease
<1>3. \A j \in Ids : (taskStatus[j] = "absent" => Unknown(j))'
  BY <1>1 DEF TasksIInv, Unknown, task, reports, lease
<1> QED
  BY <1>1, <1>2, <1>3
     DEF TasksIInv, SentByDone, WorksAsRow, OneRunning, NextAfterSuccess, IsUpdate, task,
         reports

\* Retry keeps the invariant.
LEMMA RetryKeepsIInv ==
    ASSUME TasksIInv, NEW i \in Ids, Retry(i)
    PROVE  TasksIInv'
<1>1. taskStatus[i] # "absent"
  BY DEF TasksIInv, Unknown, Retry
<1>2. /\ \A j \in Ids \ {i} : taskStatus'[j] = taskStatus[j]
      /\ taskStatus'[i] = "QUEUED"
      /\ taskStatus' \in [Ids -> Statuses] /\ stale' \in [Ids -> BOOLEAN]
  BY DEF TasksIInv, TasksTypeOK, Retry, Statuses
<1>3. /\ {i} \in SUBSET Ids
      /\ \A j \in {i} :
           taskStatus[j] # "absent" /\ taskStatus'[j] \in Statuses \ {"absent", "RUNNING"}
  BY <1>1, <1>2 DEF Statuses
<1>4. /\ UNCHANGED <<node, wave, run, retries, waves, complete, fail, request, found, done>>
      /\ retrying' \subseteq retrying /\ givenUp' = givenUp \cup LeftAtWork({i})
  BY DEF Retry, reports, lease, bounds
<1>5. /\ complete \in [Ids -> Handlers] /\ fail \in [Ids -> Handlers \ {"written"}]
      /\ request \in [Nodes -> {"idle", "reclaim", "lease"}] /\ found \in [Nodes -> SUBSET Ids]
  BY DEF TasksIInv, TasksTypeOK
<1> QED
  BY <1>2, <1>3, <1>4, <1>5, RowsKeepIInv

-----------------------------------------------------------------------------
(* The lease.                                                              *)

\* Poll keeps the invariant.
LEMMA PollKeepsIInv ==
    ASSUME TasksIInv, NEW n \in Nodes, Poll(n)
    PROVE  TasksIInv'
<1>1. /\ UNCHANGED <<task, run, reports, retrying, done, givenUp, bounds>>
      /\ request' \in [Nodes -> {"idle", "reclaim", "lease"}]
      /\ found' \in [Nodes -> SUBSET Ids]
      /\ \A m \in Nodes, i \in Ids :
           i \in found'[m] => i \in found[m] \/ taskStatus[i] = "RUNNING"
  BY DEF TasksIInv, TasksTypeOK, Poll, RequestAt, IsStale
<1>2. TasksTypeOK'
  BY <1>1 DEF TasksIInv, TasksTypeOK, task, reports, bounds
<1>3. \A j \in Ids : (taskStatus[j] = "absent" => Unknown(j))'
  BY <1>1 DEF TasksIInv, Unknown, task, reports
<1> QED
  BY <1>1, <1>2, <1>3
     DEF TasksIInv, SentByDone, WorksAsRow, OneRunning, NextAfterSuccess, IsUpdate, task,
         reports

\* Reclaim keeps the invariant.
LEMMA ReclaimKeepsIInv ==
    ASSUME TasksIInv, NEW n \in Nodes, Reclaim(n)
    PROVE  TasksIInv'
<1>1. found[n] \subseteq Ids /\ \A i \in found[n] : taskStatus[i] # "absent"
  BY DEF TasksIInv, TasksTypeOK, Unknown
<1>2. /\ \A i \in Ids \ found[n] : taskStatus'[i] = taskStatus[i]
      /\ \A i \in found[n] : taskStatus'[i] = "FAILED"
      /\ taskStatus' \in [Ids -> Statuses]
  BY <1>1 DEF TasksIInv, TasksTypeOK, Reclaim, Statuses
<1>3. stale' \in [Ids -> BOOLEAN]
  BY DEF TasksIInv, TasksTypeOK, Reclaim
<1>4. /\ request' \in [Nodes -> {"idle", "reclaim", "lease"}]
      /\ found' \in [Nodes -> SUBSET Ids]
      /\ \A m \in Nodes : found'[m] \subseteq found[m]
  BY DEF TasksIInv, TasksTypeOK, Reclaim, RequestAt
<1> QED
  BY <1>1, <1>2, <1>3, <1>4, RowsKeepIInv
     DEF TasksIInv, TasksTypeOK, Reclaim, Statuses, reports, bounds

\* Lease keeps the invariant.
LEMMA LeaseKeepsIInv ==
    ASSUME TasksIInv, NEW n \in Nodes, Lease(n)
    PROVE  TasksIInv'
<1>1. /\ UNCHANGED <<node, wave, reports, retrying, found, done, givenUp, bounds>>
      /\ request' \in [Nodes -> {"idle", "reclaim", "lease"}]
  BY DEF TasksIInv, TasksTypeOK, Lease, RequestAt
<1>2. CASE UNCHANGED <<taskStatus, stale, run>>
  BY <1>1, <1>2
     DEF TasksIInv, TasksTypeOK, Unknown, SentByDone, WorksAsRow, OneRunning, NextAfterSuccess,
         IsUpdate, reports, bounds
<1>3. ASSUME NEW i \in Ids, i \in Candidates(n),
             taskStatus' = [taskStatus EXCEPT ![i] = "RUNNING"],
             stale' = [stale EXCEPT ![i] = FALSE],
             run' \in {run, [run EXCEPT ![i] = IF @ = "none" THEN "work" ELSE @]}
      PROVE  TasksIInv'
  <2>1. /\ taskStatus[i] = "QUEUED" /\ node[i] = n
        /\ \A j \in Ids : node[j] = n => taskStatus[j] # "RUNNING"
    BY <1>3 DEF Candidates, NodeIsBusy
  <2>2. /\ run' \in [Ids -> {"none", "work", "ask"}]
        /\ \A j \in Ids : j # i => run'[j] = run[j]
    BY <1>3 DEF TasksIInv, TasksTypeOK
  <2>3. TasksTypeOK'
    BY <1>1, <1>3, <2>2 DEF TasksIInv, TasksTypeOK, Statuses, reports, bounds
  <2>4. \A j \in Ids : (taskStatus[j] = "absent" => Unknown(j))'
    BY <1>1, <1>3, <2>2 DEF TasksIInv, TasksTypeOK, Unknown, reports
  <2>5. \A j \in Ids : SentByDone(j)' /\ WorksAsRow(j)'
    BY <1>1, <1>3, <2>2 DEF TasksIInv, TasksTypeOK, SentByDone, WorksAsRow, reports
  <2>6. OneRunning'
    BY <1>1, <1>3, <2>1 DEF TasksIInv, TasksTypeOK, OneRunning
  <2> QED
    BY <1>1, <2>3, <2>4, <2>5, <2>6 DEF TasksIInv, NextAfterSuccess, IsUpdate
<1> QED
  BY <1>2, <1>3 DEF Lease, Oldest

-----------------------------------------------------------------------------
(* The runner.                                                             *)

\* A step of a runner, or of what it sends, leaves the rows alone.
LEMMA RunnerKeepsIInv ==
    ASSUME TasksIInv, NEW i \in Ids,
           Succeed(i) \/ ReportFail(i) \/ LoseComplete(i) \/ RunnerDies(i) \/ HandlerDies(i)
    PROVE  TasksIInv'
<1>1. /\ UNCHANGED <<task, retrying, lease, givenUp, bounds>>
      /\ run' \in [Ids -> {"none", "work", "ask"}]
      /\ complete' \in [Ids -> Handlers]
      /\ fail' \in [Ids -> Handlers \ {"written"}]
      /\ \A j \in Ids : j # i =>
            run'[j] = run[j] /\ complete'[j] = complete[j] /\ fail'[j] = fail[j]
      /\ run'[i] = "work" => run[i] = "work"
  BY DEF TasksIInv, TasksTypeOK, Succeed, ReportFail, LoseComplete, RunnerDies, HandlerDies,
         reports, Handlers
<1>2. /\ done' \subseteq Ids /\ done \subseteq done' /\ done' \subseteq done \cup {i}
      /\ complete'[i] # "none" => i \in done'
      /\ taskStatus[i] # "absent"
  BY DEF TasksIInv, TasksTypeOK, Unknown, SentByDone, Succeed, ReportFail, LoseComplete,
         RunnerDies, HandlerDies, reports
<1>3. TasksTypeOK'
  BY <1>1, <1>2 DEF TasksIInv, TasksTypeOK, task, lease, bounds
<1>4. \A j \in Ids : (taskStatus[j] = "absent" => Unknown(j))'
  BY <1>1, <1>2 DEF TasksIInv, Unknown, task, lease
<1>5. \A j \in Ids : SentByDone(j)' /\ WorksAsRow(j)'
  BY <1>1, <1>2 DEF TasksIInv, SentByDone, WorksAsRow, task
<1> QED
  BY <1>1, <1>2, <1>3, <1>4, <1>5 DEF TasksIInv, OneRunning, NextAfterSuccess, IsUpdate, task

\* Heartbeat keeps the invariant.
LEMMA HeartbeatKeepsIInv ==
    ASSUME TasksIInv, NEW i \in Ids, GoStale(i) \/ Heartbeat(i)
    PROVE  TasksIInv'
<1>1. /\ UNCHANGED <<node, wave, taskStatus, run, reports, retrying>>
      /\ UNCHANGED <<lease, done, givenUp, bounds>>
      /\ stale' \in [Ids -> BOOLEAN]
  BY DEF TasksIInv, TasksTypeOK, GoStale, Heartbeat
<1> QED
  BY <1>1
     DEF TasksIInv, TasksTypeOK, Unknown, SentByDone, WorksAsRow, OneRunning, NextAfterSuccess,
         IsUpdate, reports, lease, bounds

-----------------------------------------------------------------------------
(* The reports.                                                            *)

\* Check keeps the invariant.
LEMMA CheckKeepsIInv ==
    ASSUME TasksIInv, NEW i \in Ids, CheckComplete(i) \/ CheckFail(i)
    PROVE  TasksIInv'
<1>1. /\ complete' \in [Ids -> Handlers] /\ fail' \in [Ids -> Handlers \ {"written"}]
      /\ \A j \in Ids : /\ complete'[j] # "none" => complete[j] # "none"
                        /\ fail'[j] # "none" => fail[j] # "none"
      /\ UNCHANGED <<task, run, retrying, lease, done, givenUp, bounds>>
  BY DEF TasksIInv, TasksTypeOK, CheckComplete, CheckFail, Handlers
<1>2. givenUp' = givenUp \cup LeftAtWork({})
  BY <1>1 DEF LeftAtWork
<1> QED
  BY <1>1, <1>2, RowsKeepIInv DEF TasksIInv, TasksTypeOK, task, lease, bounds

\* Write keeps the invariant.
LEMMA WriteKeepsIInv ==
    ASSUME TasksIInv, NEW i \in Ids, WriteComplete(i) \/ WriteFail(i)
    PROVE  TasksIInv'
<1>1. taskStatus[i] # "absent"
  BY DEF TasksIInv, TasksTypeOK, Unknown, WriteComplete, WriteFail
<1>2. /\ \A j \in Ids \ {i} : taskStatus'[j] = taskStatus[j]
      /\ taskStatus'[i] \in {"COMPLETED", "FAILED"}
      /\ taskStatus' \in [Ids -> Statuses] /\ stale' \in [Ids -> BOOLEAN]
      /\ UNCHANGED <<node, wave>>
  BY ZenonT(40) DEF TasksIInv, TasksTypeOK, WriteComplete, WriteFail, AfterFailure, Statuses
<1>3. /\ complete' \in [Ids -> Handlers] /\ fail' \in [Ids -> Handlers \ {"written"}]
      /\ \A j \in Ids : /\ complete'[j] # "none" => complete[j] # "none"
                        /\ fail'[j] # "none" => fail[j] # "none"
      /\ givenUp' = givenUp \cup LeftAtWork({i})
      /\ UNCHANGED <<run, retrying, lease, done, bounds>>
  <2>1. CASE WriteComplete(i)
    BY <2>1 DEF TasksIInv, TasksTypeOK, WriteComplete, Handlers
  <2>2. CASE WriteFail(i)
    BY <2>2 DEF TasksIInv, TasksTypeOK, WriteFail, Handlers
  <2> QED
    BY <2>1, <2>2
<1>4. /\ {i} \in SUBSET Ids
      /\ \A j \in {i} :
           taskStatus[j] # "absent" /\ taskStatus'[j] \in Statuses \ {"absent", "RUNNING"}
  BY <1>1, <1>2 DEF Statuses
<1>5. request \in [Nodes -> {"idle", "reclaim", "lease"}] /\ found \in [Nodes -> SUBSET Ids]
  BY DEF TasksIInv, TasksTypeOK
<1>6. UNCHANGED <<retries, waves, request, found>>
  BY <1>3 DEF lease, bounds
<1> QED
  BY <1>2, <1>3, <1>4, <1>5, <1>6, RowsKeepIInv

\* MoveOn keeps the invariant.
LEMMA MoveOnKeepsIInv ==
    ASSUME TasksIInv, NEW i \in Ids, MoveOn(i)
    PROVE  TasksIInv'
<1>1. /\ complete[i] = "written" /\ complete' = [complete EXCEPT ![i] = "none"]
      /\ UNCHANGED <<fail, retrying, lease, done, givenUp, bounds>>
      /\ run' \in [Ids -> {"none", "work", "ask"}]
      /\ \A j \in Ids : run'[j] \in {run[j], "none"}
  BY DEF TasksIInv, TasksTypeOK, MoveOn, Answered
<1>2. complete' \in [Ids -> Handlers] /\ \A j \in Ids : complete'[j] \in {complete[j], "none"}
  BY <1>1 DEF TasksIInv, TasksTypeOK, Handlers
<1>3. i \in done
  BY <1>1 DEF TasksIInv, SentByDone
<1>4. CASE node[i] = Canary /\ CreateTask(Second, wave[i])
  BY <1>1, <1>2, <1>3, <1>4, CreateKeepsIInv DEF TasksIInv, TasksTypeOK, Nodes, bounds
<1>5. CASE UNCHANGED task
  <2>1. TasksTypeOK'
    BY <1>1, <1>2, <1>5 DEF TasksIInv, TasksTypeOK, task, lease, bounds
  <2> QED
    BY <1>1, <1>2, <1>5, <2>1
       DEF TasksIInv, Unknown, SentByDone, WorksAsRow, OneRunning, NextAfterSuccess, IsUpdate,
           task, lease
<1> QED
  BY <1>4, <1>5 DEF MoveOn, NextWave

-----------------------------------------------------------------------------
(* The theorems.                                                           *)

\* The invariant is inductive.
LEMMA TasksStepKeepsIInv == TasksIInv /\ [TasksNext]_tasksVars => TasksIInv'
<1> SUFFICES ASSUME TasksIInv, [TasksNext]_tasksVars PROVE TasksIInv'
  OBVIOUS
<1>1. CASE UNCHANGED tasksVars
  BY <1>1
     DEF TasksIInv, TasksTypeOK, Unknown, SentByDone, WorksAsRow, OneRunning, NextAfterSuccess,
         IsUpdate, tasksVars, task, reports, lease, bounds
<1>2. ASSUME NEW n \in Nodes, Poll(n) \/ LeaseStep(n) PROVE TasksIInv'
  BY <1>2, PollKeepsIInv, ReclaimKeepsIInv, LeaseKeepsIInv DEF LeaseStep
<1>3. ASSUME NEW i \in Ids, ReportStep(i) PROVE TasksIInv'
  BY <1>3, CheckKeepsIInv, WriteKeepsIInv, MoveOnKeepsIInv DEF ReportStep
<1> QED
  BY <1>1, <1>2, <1>3, QueueingKeepsIInv, BeginRetryKeepsIInv, RetryKeepsIInv, RunnerKeepsIInv,
     HeartbeatKeepsIInv DEF TasksNext

\* The invariant the theorems below rest on (node-tasks.service.ts:677-832,
\* 1272-1333).
THEOREM TasksInvariant == TasksSpec => []TasksIInv
<1> QED
  BY TasksInitIInv, TasksStepKeepsIInv, PTL DEF TasksSpec

\* Rows, runners, reports and lease requests stay within what the code writes.
THEOREM TasksTypeCorrect == TasksSpec => []TasksTypeOK
<1>1. TasksIInv => TasksTypeOK
  BY DEF TasksIInv
<1> QED
  BY <1>1, TasksInvariant, PTL

\* A wave reaches the next node by a success on the node before it, whatever is
\* lost, late or run again (node-tasks.service.ts:536-563).
THEOREM WaveFollowsSuccess == TasksSpec => []NextAfterSuccess
<1>1. TasksIInv => NextAfterSuccess
  BY DEF TasksIInv
<1> QED
  BY <1>1, TasksInvariant, PTL

\* One task at a time rebuilds a node, if no row left RUNNING under its runner
\* (node-tasks.service.ts:726-745).
THEOREM OneAtATime == TasksSpec => []AloneOnNode
<1>1. TasksIInv => AloneOnNode
  <2> SUFFICES ASSUME TasksIInv, NEW n \in Nodes \ givenUp
               PROVE  Cardinality({i \in Ids : node[i] = n /\ run[i] = "work"}) <= 1
    BY DEF AloneOnNode
  <2> DEFINE Working == {i \in Ids : node[i] = n /\ run[i] = "work"}
  <2>1. \A i, j \in Working : i = j
    BY DEF TasksIInv, WorksAsRow, OneRunning
  <2>2. CASE Working = {}
    BY <2>2, FS_EmptySet
  <2>3. ASSUME NEW i \in Working PROVE Cardinality(Working) <= 1
    <3>1. Working = {i}
      BY <2>1
    <3>2. Cardinality({i}) = 1
      BY FS_Singleton
    <3> HIDE DEF Working
    <3> QED
      BY <3>1, <3>2
  <2> QED
    BY <2>2, <2>3
<1> QED
  BY <1>1, TasksInvariant, PTL

=============================================================================
