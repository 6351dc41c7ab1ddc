----------------------------- MODULE ServiceOrder -----------------------------
(***************************************************************************)
(* One order of a hosting account: it is paid from the wallet, at once or  *)
(* when a Paynow payment for it is confirmed (subscriptions.service.ts),   *)
(* set up by a job of the BullMQ queue (provisioning-queue.service.ts,     *)
(* provisioning.service.ts), and may be canceled by the customer or by the *)
(* cleanup of orders that nobody paid.                                     *)
(*                                                                         *)
(* A Run is one execution of payFromWalletAndProvision: the check-out      *)
(* itself, or what a confirmed payment starts.  The job runs in a worker   *)
(* of its own, one job at a time.  Statements of the runs, of the worker,  *)
(* of a cancellation and of the cleanup interleave; a run and the worker   *)
(* may die between any two of them.                                        *)
(***************************************************************************)
EXTENDS Integers, FiniteSets

CONSTANTS
    Payments,       \* Paynow payments that name this order
    Checkout,       \* the run of a purchase from the wallet
    Price,
    MaxAttempts,    \* of the job
    MaxWallet,      \* bound on the wallet
    MaxDeaths       \* bound on the deaths of runs and of the worker

ASSUME OrderConstants ==
    /\ Checkout \notin Payments
    /\ Price \in Nat \ {0}
    /\ MaxAttempts \in Nat \ {0}
    /\ MaxWallet \in Nat /\ MaxDeaths \in Nat

VARIABLES
    oplata,                 \* how the customer chose to pay the order
    status, stage,          \* Subscription.status, .provisioningStage
    old,                    \* the order is older than 48 hours
    account,                \* the Account row exists
    onNode,                 \* the DirectAdmin account exists
    wallet, charged,        \* the balance; the row `sub-<id>-initial`
    refund,                 \* the row `sub-<id>-initial-refund`: who wrote it, and when
    paid,                   \* the payments that are CONFIRMED
    told,                   \* those whose own run reported its error
    alarm,                  \* administrators were told of the paid order
    pc,                     \* where each run is
    job, attempts,          \* the job in Redis; its attemptsMade
    worker,                 \* where the worker is in runJob
    late,                   \* an attempt failed after the account was saved
    canceling, cleaning,    \* a cancel and a cleanup between read and write
    deaths, died            \* their number; the runs, and "worker", that died

order == <<status, stage, old>>
hosting == <<account, onNode>>
money == <<wallet, charged, refund>>
notes == <<paid, told, alarm>>
queue == <<job, attempts, worker, late>>
others == <<oplata, canceling, cleaning, deaths, died>>
vars == <<order, hosting, money, notes, pc, queue, others>>

Runs == Payments \cup {Checkout}
Places == {"idle", "check", "debit", "recheck", "claim", "why", "giveback",
           "enqueue", "queued", "undo", "reset", "fail"}
WorkerPlaces == {"idle", "start", "existing", "promote", "read", "create", "limits",
                 "save", "rollback", "finalize", "error", "fatal", "refund", "reset"}
Refunded == refund # "nobody"

Init ==
    /\ oplata \in {"PORTFEL", "PAYNOW"}
    /\ status = "PENDING_PAYMENT" /\ stage = "none"
    /\ old = FALSE
    /\ account = FALSE /\ onNode = FALSE
    /\ wallet = (IF oplata = "PORTFEL" THEN Price ELSE 0) /\ charged = FALSE /\ refund = "nobody"
    /\ paid = {} /\ told = {} /\ alarm = FALSE
    /\ pc = [r \in Runs |-> IF r = Checkout /\ oplata = "PORTFEL" THEN "debit" ELSE "idle"]
    /\ job = "none" /\ attempts = 0 /\ worker = "idle" /\ late = FALSE
    /\ canceling = FALSE /\ cleaning = FALSE /\ deaths = 0 /\ died = {}

Goto(r, place) == pc' = [pc EXCEPT ![r] = place]

-----------------------------------------------------------------------------
(* Paying for the order.                                                   *)

\* zaksiegujPaynow books the payment, marks it CONFIRMED and starts its run.
Confirm(p) ==
    /\ oplata = "PAYNOW"
    /\ p \notin paid
    /\ wallet + Price <= MaxWallet
    /\ paid' = paid \cup {p}
    /\ wallet' = wallet + Price
    /\ Goto(p, "check")
    /\ UNCHANGED <<order, hosting, charged, refund, told, alarm, queue, others>>

\* oplacZamowienieZPortfela takes only an order that was never charged.
StillToPay == status = "PENDING_PAYMENT" /\ ~charged

Check(r) ==
    /\ pc[r] = "check"
    /\ Goto(r, IF StillToPay THEN "debit" ELSE "fail")
    /\ UNCHANGED <<order, hosting, money, notes, queue, others>>

\* The debit under `sub-<id>-initial`, or the row of another run.
Debit(r) ==
    /\ pc[r] = "debit"
    /\ \/ /\ charged
          /\ Goto(r, "recheck")
          /\ UNCHANGED money
       \/ /\ ~charged /\ wallet >= Price
          /\ wallet' = wallet - Price
          /\ charged' = TRUE
          /\ Goto(r, "recheck")
          /\ UNCHANGED refund
       \/ /\ ~charged /\ wallet < Price
          /\ Goto(r, "fail")
          /\ UNCHANGED money
    /\ UNCHANGED <<order, hosting, notes, queue, others>>

ChargeStands == ~Refunded

Recheck(r) ==
    /\ pc[r] = "recheck"
    /\ Goto(r, IF ChargeStands THEN "claim" ELSE "fail")
    /\ UNCHANGED <<order, hosting, money, notes, queue, others>>

\* The conditional update PENDING_PAYMENT -> PROVISIONING.
Claim(r) ==
    /\ pc[r] = "claim"
    /\ IF status = "PENDING_PAYMENT"
       THEN status' = "PROVISIONING" /\ Goto(r, "enqueue")
       ELSE UNCHANGED status /\ Goto(r, "why")
    /\ UNCHANGED <<stage, old, hosting, money, notes, queue, others>>

\* Mutated form: the run leaves a canceled order without a look at its charge.
OrderIsGone_Never == FALSE

OrderIsGone == status = "CANCELED"

\* Another run of the same charge has it, or the order is gone.
Why(r) ==
    /\ pc[r] = "why"
    /\ Goto(r, IF OrderIsGone THEN "giveback" ELSE "fail")
    /\ UNCHANGED <<order, hosting, money, notes, queue, others>>

\* The credit under `sub-<id>-initial-refund`, which is there once.
Credit(by) ==
    /\ refund' = IF Refunded THEN refund ELSE by
    /\ wallet' = IF Refunded THEN wallet ELSE wallet + Price
    /\ UNCHANGED charged

\* A run gives the fee back while a job sets the hosting up, or after it has.
SettingUp == account \/ worker \notin {"idle", "start"}

CreditByRun == Credit(IF SettingUp THEN "amid" ELSE "order")

GiveBack(r) ==
    /\ pc[r] = "giveback"
    /\ CreditByRun
    /\ Goto(r, "fail")
    /\ UNCHANGED <<order, hosting, notes, queue, others>>

\* queue.add: a job id that is there already is not added again.
Enqueue(r) ==
    /\ pc[r] = "enqueue"
    /\ IF job = "none" THEN job' = "waiting" /\ attempts' = 0
                       ELSE UNCHANGED <<job, attempts>>
    /\ Goto(r, "queued")
    /\ UNCHANGED <<order, hosting, money, notes, worker, late, others>>

\* markQueued, which may come after the worker has begun.
MarkQueued(r) ==
    /\ pc[r] = "queued"
    /\ stage' = "queued"
    /\ Goto(r, "idle")
    /\ UNCHANGED <<status, old, hosting, money, notes, queue, others>>

\* Redis does not take the job, or the database not the mark.
EnqueueFails(r) ==
    /\ pc[r] \in {"enqueue", "queued"}
    /\ Goto(r, "undo")
    /\ UNCHANGED <<order, hosting, money, notes, queue, others>>

Undo(r) ==
    /\ pc[r] = "undo"
    /\ CreditByRun
    /\ Goto(r, "reset")
    /\ UNCHANGED <<order, hosting, notes, queue, others>>

ResetOrder(r) ==
    /\ pc[r] = "reset"
    /\ status' = "PENDING_PAYMENT"
    /\ Goto(r, "fail")
    /\ UNCHANGED <<stage, old, hosting, money, notes, queue, others>>

\* Mutated form: the error of a run is only logged.
Fail_Silent(r) ==
    /\ pc[r] = "fail"
    /\ Goto(r, "idle")
    /\ UNCHANGED <<order, hosting, money, notes, queue, others>>

\* The customer at the check-out sees the error; zrealizujZamowienie turns it
\* into an alarm.
Fail(r) ==
    /\ pc[r] = "fail"
    /\ told' = told \cup ({r} \cap Payments)
    /\ Goto(r, "idle")
    /\ UNCHANGED <<order, hosting, money, paid, alarm, queue, others>>

-----------------------------------------------------------------------------
(* runJob.                                                                 *)

Take ==
    /\ job = "waiting" /\ worker = "idle"
    /\ job' = "active" /\ worker' = "start"
    /\ UNCHANGED <<order, hosting, money, notes, pc, attempts, late, others>>

\* Mutated form: the worker does not look for the refund.
FeeWentBack_Never == FALSE

FeeWentBack == Refunded

\* An order whose fee went back is not set up by a retry from the panel.
Start ==
    /\ worker = "start"
    /\ IF FeeWentBack
       THEN stage' = "failed" /\ job' = "failed" /\ worker' = "idle"
       ELSE stage' = "running" /\ worker' = "existing" /\ UNCHANGED job
    /\ UNCHANGED <<status, old, hosting, money, notes, pc, attempts, late, others>>

HasAccount == account

Existing ==
    /\ worker = "existing"
    /\ worker' = IF HasAccount THEN "promote" ELSE "read"
    /\ UNCHANGED <<order, hosting, money, notes, pc, job, attempts, late, others>>

Promote ==
    /\ worker = "promote"
    /\ status' = "ACTIVE"
    /\ worker' = "finalize"
    /\ UNCHANGED <<stage, old, hosting, money, notes, pc, job, attempts, late, others>>

\* provisionForSubscription reads the order.
Read ==
    /\ worker = "read"
    /\ worker' = IF ~account /\ status \in {"PROVISIONING", "PENDING_PAYMENT"}
                 THEN "create" ELSE "fatal"
    /\ UNCHANGED <<order, hosting, money, notes, pc, job, attempts, late, others>>

\* createAccount; a domain the node has already is refused for good.
Create ==
    /\ worker = "create"
    /\ worker' = IF onNode THEN "fatal" ELSE "limits"
    /\ onNode' = TRUE
    /\ UNCHANGED <<order, account, money, notes, pc, job, attempts, late, others>>

\* No node, no package, no answer; the account may be there all the same.
CreateFails ==
    /\ worker = "create"
    /\ onNode' \in {onNode, TRUE}
    /\ worker' \in {"error", "fatal"}
    /\ UNCHANGED <<order, account, money, notes, pc, job, attempts, late, others>>

SetLimits ==
    /\ worker = "limits"
    /\ worker' \in {"save", "rollback"}
    /\ UNCHANGED <<order, hosting, money, notes, pc, job, attempts, late, others>>

\* The transaction: the Account row and status ACTIVE, on the id alone.
Save ==
    /\ worker = "save"
    /\ account' = TRUE
    /\ status' = "ACTIVE"
    /\ worker' = "finalize"
    /\ UNCHANGED <<stage, old, onNode, money, notes, pc, job, attempts, late, others>>

SaveFails ==
    /\ worker = "save"
    /\ worker' = "rollback"
    /\ UNCHANGED <<order, hosting, money, notes, pc, job, attempts, late, others>>

\* wycofajKontoDa: the deletion may fail, too.
Rollback ==
    /\ worker = "rollback"
    /\ onNode' \in {FALSE, TRUE}
    /\ worker' \in {"error", "fatal"}
    /\ UNCHANGED <<order, account, money, notes, pc, job, attempts, late, others>>

\* The stage and the promotion code.
Finalize ==
    /\ worker = "finalize"
    /\ stage' = "completed"
    /\ job' = "completed" /\ worker' = "idle"
    /\ UNCHANGED <<status, old, hosting, money, notes, pc, attempts, late, others>>

FinalizeFails ==
    /\ worker = "finalize"
    /\ stage' = "completed"
    /\ worker' \in {"error", "fatal"} /\ late' = TRUE
    /\ UNCHANGED <<status, old, hosting, money, notes, pc, job, attempts, others>>

LastAttempt == attempts + 1 >= MaxAttempts

\* A transient error of an early attempt: BullMQ runs the job again.
TryAgain ==
    /\ worker = "error"
    /\ ~LastAttempt
    /\ stage' = "retrying"
    /\ attempts' = attempts + 1
    /\ job' = "waiting" /\ worker' = "idle"
    /\ UNCHANGED <<status, old, hosting, money, notes, pc, late, others>>

\* A permanent one, or the last attempt.
GiveUp ==
    /\ worker = "fatal" \/ (worker = "error" /\ LastAttempt)
    /\ stage' = "failed"
    /\ worker' = "refund"
    /\ UNCHANGED <<status, old, hosting, money, notes, pc, job, attempts, late, others>>

RefundFee ==
    /\ worker = "refund"
    /\ Credit("job")
    /\ worker' = "reset"
    /\ UNCHANGED <<order, hosting, notes, pc, job, attempts, late, others>>

\* The order is PENDING_PAYMENT again; UnrecoverableError ends the job.
ResetAfterRefund ==
    /\ worker = "reset"
    /\ status' = "PENDING_PAYMENT"
    /\ alarm' = (IF paid # {} THEN TRUE ELSE alarm)
    /\ job' = "failed" /\ worker' = "idle"
    /\ UNCHANGED <<stage, old, hosting, money, paid, told, pc, attempts, late, others>>

-----------------------------------------------------------------------------
(* Staff, the customer, the cleanup, deaths.                               *)

\* retryJob: attempts start anew.
RetryJob ==
    /\ job = "failed"
    /\ job' = "waiting" /\ attempts' = 0
    /\ stage' = "queued"
    /\ UNCHANGED <<status, old, hosting, money, notes, pc, worker, late, others>>

\* odrzucJob removes a failed job and leaves the order alone.
DiscardJob ==
    /\ job = "failed"
    /\ job' = "none"
    /\ UNCHANGED <<order, hosting, money, notes, pc, attempts, worker, late, others>>

\* cancel of an order that is not ACTIVE is immediate: it reads ...
BeginCancel ==
    /\ status \in {"PENDING_PAYMENT", "PROVISIONING"}
    /\ ~account
    /\ canceling' = TRUE
    /\ UNCHANGED <<order, hosting, money, notes, pc, queue, oplata, cleaning, deaths, died>>

\* ... and writes without a condition (tearDownCanceledSubscription).
Cancel ==
    /\ canceling
    /\ canceling' = FALSE
    /\ status' = "CANCELED"
    /\ UNCHANGED <<stage, old, hosting, money, notes, pc, queue, oplata, cleaning, deaths, died>>

\* 48 hours have passed: none of the statements of a run, a job or a cancel
\* takes that long.
GetsOld ==
    /\ ~old
    /\ \A r \in Runs : pc[r] = "idle"
    /\ worker = "idle" /\ ~canceling
    /\ old' = TRUE
    /\ UNCHANGED <<status, stage, hosting, money, notes, pc, queue, others>>

\* oplaconePrzezPaynow.
PaidThroughPaynow == paid # {}

\* abandonStalePendingPayments picks the order; one paid through Paynow is
\* reported instead.
BeginCleanup ==
    /\ old /\ ~cleaning
    /\ status = "PENDING_PAYMENT" /\ ~account
    /\ IF PaidThroughPaynow THEN alarm' = TRUE /\ UNCHANGED cleaning
                            ELSE cleaning' = TRUE /\ UNCHANGED alarm
    /\ UNCHANGED <<order, hosting, money, paid, told, pc, queue, oplata, canceling, deaths, died>>

StillUnpaid == status = "PENDING_PAYMENT" /\ ~account

Cleanup ==
    /\ cleaning
    /\ cleaning' = FALSE
    /\ status' = IF StillUnpaid THEN "CANCELED" ELSE status
    /\ UNCHANGED <<stage, old, hosting, money, notes, pc, queue, oplata, canceling, deaths, died>>

OtherCharge ==
    /\ wallet >= Price
    /\ wallet' = wallet - Price
    /\ UNCHANGED <<order, hosting, charged, refund, notes, pc, queue, others>>

\* A run dies where it is.
DieRun(r) ==
    /\ pc[r] # "idle" /\ deaths < MaxDeaths
    /\ Goto(r, "idle")
    /\ deaths' = deaths + 1 /\ died' = died \cup {r}
    /\ UNCHANGED <<order, hosting, money, notes, queue, oplata, canceling, cleaning>>

\* The worker dies, or a statement outside its try block fails: BullMQ runs the
\* job again, or fails it if that has happened too often.
DieWorker ==
    /\ worker # "idle" /\ deaths < MaxDeaths
    /\ worker' = "idle"
    /\ job' \in {"waiting", "failed"}
    /\ deaths' = deaths + 1 /\ died' = died \cup {"worker"}
    /\ UNCHANGED <<order, hosting, money, notes, pc, attempts, late, oplata, canceling, cleaning>>

RunStep(r) ==
    \/ Check(r) \/ Debit(r) \/ Recheck(r) \/ Claim(r) \/ Why(r) \/ GiveBack(r)
    \/ Enqueue(r) \/ MarkQueued(r) \/ EnqueueFails(r) \/ Undo(r) \/ ResetOrder(r) \/ Fail(r)

WorkerStep ==
    \/ Take \/ Start \/ Existing \/ Promote \/ Read \/ Create \/ CreateFails
    \/ SetLimits \/ Save \/ SaveFails \/ Rollback \/ Finalize \/ FinalizeFails
    \/ TryAgain \/ GiveUp \/ RefundFee \/ ResetAfterRefund

Next ==
    \/ \E p \in Payments : Confirm(p)
    \/ \E r \in Runs : RunStep(r) \/ DieRun(r)
    \/ WorkerStep \/ DieWorker
    \/ RetryJob \/ DiscardJob
    \/ BeginCancel \/ Cancel
    \/ GetsOld \/ BeginCleanup \/ Cleanup
    \/ OtherCharge

Spec == Init /\ [][Next]_vars

-----------------------------------------------------------------------------
(* Properties.                                                             *)

TypeOK ==
    /\ oplata \in {"PORTFEL", "PAYNOW"}
    /\ status \in {"PENDING_PAYMENT", "PROVISIONING", "ACTIVE", "CANCELED"}
    /\ stage \in {"none", "queued", "running", "retrying", "failed", "completed"}
    /\ refund \in {"nobody", "job", "order", "amid"}
    /\ {old, account, onNode, charged, alarm, late, canceling, cleaning} \subseteq BOOLEAN
    /\ wallet \in Nat
    /\ paid \subseteq Payments /\ told \subseteq paid
    /\ pc \in [Runs -> Places]
    /\ job \in {"none", "waiting", "active", "failed", "completed"}
    /\ attempts \in 0 .. MaxAttempts - 1
    /\ worker \in WorkerPlaces
    /\ deaths \in 0 .. MaxDeaths
    /\ died \subseteq Runs \cup {"worker"}

\* Hosting is set up only for an order whose fee was charged, and the fee goes
\* back only if it was charged.
FeeFirst ==
    /\ account => charged
    /\ Refunded => charged

\* An order whose fee went back has no hosting, and gets none later: neither by
\* the job run again after a death, nor by a retry from the panel, nor by another
\* run of the order (provisioning-queue.service.ts:425-431, 445-473).  This is so
\* for the fee that the job gives back, unless an attempt failed after it had
\* saved the account, and for the fee that a run gives back before a job is past
\* the look at the refund with which it starts.  A run that gives it back later
\* ("amid") does not stop the job: one whose markQueued failed after queue.add,
\* or a second one that finds the order canceled.
RefundLeavesNoHosting == refund \in {"job", "order"} => ~account \/ late

Quiet ==
    /\ \A r \in Runs : pc[r] = "idle"
    /\ worker = "idle" /\ job \notin {"waiting", "active"}
    /\ ~canceling /\ ~cleaning

\* Once everything has come to rest, a fee that was charged has become hosting
\* or has gone back, whatever runs, cancellations, the cleanup and failures met
\* on the way; only a death leaves it unanswered (one between debit and claim
\* leaves a charged order that the cleanup takes for unpaid).
ChargeIsAnswered == Quiet /\ deaths = 0 /\ charged => account \/ Refunded

\* The confirmed payments whose run is over without an error of its own.
Unreported == {p \in paid \ (told \cup died) : pc[p] = "idle"}

\* A confirmed payment is used for the order, or administrators know of it.  One
\* fee uses one payment: whatever else was paid for the order was reported by the
\* run of that very payment.  If the fee has gone back, no payment is used, and
\* administrators were told that the order failed.
PaidOrTold ==
    /\ Unreported # {} => charged
    /\ ~Refunded => \A p, q \in Unreported : p = q
    /\ Refunded /\ Unreported # {} /\ Quiet /\ deaths = 0 => alarm \/ told # {}

=============================================================================
