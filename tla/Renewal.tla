------------------------------- MODULE Renewal -------------------------------
(***************************************************************************)
(* The life of one hosting service paid from the wallet: the hourly pass   *)
(* of subscriptions/renewal.scheduler.ts, "pay now" in the customer panel, *)
(* and the operations of subscriptions.service.ts and cykl-zycia-uslugi    *)
(* .service.ts that change the same row meanwhile.                         *)
(*                                                                         *)
(* None of them holds a lock: each reads the row, then awaits the wallet   *)
(* or the server, then writes, sometimes on a condition.  A Caller is one  *)
(* run of one operation; its steps are the statements between which others *)
(* get in, and it can die at any of them.                                  *)
(*                                                                         *)
(* Time: period p ends at 2 * p on the clock, and the last 24 hours before *)
(* it are the odd tick 2 * p - 1.  Grace is zero days, as in the code.     *)
(***************************************************************************)
EXTENDS Integers, FiniteSets

CONSTANTS
    Operations,     \* the operations in play, a subset of AllOperations
    Callers,
    FullPrice, IntroPrice, IntroPeriods,
    MaxPeriod,      \* bound on currentPeriodEnd
    MaxClock,       \* bound on the clock
    MaxRefunds,     \* bound on the refunds of one period
    MaxWallet       \* bound on the wallet

AllOperations ==
    { "renew", "pay", "restore", "grace", "finalize", "expire",     \* the pass, the customer
      "cancel", "end", "suspend", "unsuspend", "uncancel" }         \* customer and staff

ASSUME RenewalConstants ==
    /\ Operations \subseteq AllOperations
    /\ 0 < IntroPrice /\ IntroPrice < FullPrice
    /\ {IntroPrice, FullPrice, IntroPeriods, MaxPeriod, MaxRefunds, MaxWallet} \subseteq Nat
    /\ MaxPeriod > 0 /\ MaxClock \in 0 .. 2 * MaxPeriod

VARIABLES
    clock,
    status,         \* Subscription.status
    periodEnd,      \* Subscription.currentPeriodEnd, the number of the period
    cancelAt,       \* on the clock; Never for null
    introLeft,      \* Subscription.introDiscountPeriodsLeft
    reason,         \* why the last SUSPENDED event was written
    account,        \* Account.status
    hosting,        \* the account on the DirectAdmin server
    wallet,
    charged,        \* [Keys -> amount debited under the key, 0 for no row]
    refunded,       \* the keys whose `:zwrot` row exists
    revoked,            \* keys in use, paid back or about to be, as the cancellation was revoked
    pc, op, seen, key   \* where each caller is, what it runs, the row it read,
                        \* and its idempotency key

row == <<status, periodEnd, cancelAt, introLeft, reason, account>>
money == <<wallet, charged, refunded, revoked>>
caller == <<pc, op, seen, key>>
vars == <<clock, row, hosting, money, caller>>

Never == -1
Periods == 1 .. MaxPeriod
Keys == Periods \X (0 .. MaxRefunds)
NoKey == <<0, 0>>
Statuses == {"ACTIVE", "PAST_DUE", "SUSPENDED", "CANCELED", "EXPIRED"}
Places == {"idle", "key", "find", "debit", "pastdue", "extend", "stopped",
           "refund", "unsuspend", "on", "reactivate", "off", "write", "cancel"}

Row == [status |-> status, periodEnd |-> periodEnd, introLeft |-> introLeft]
NoRow == [status |-> "none", periodEnd |-> 0, introLeft |-> 0]

Ended(p) == 2 * p <= clock
InWindow(p) == 2 * p - 1 <= clock

Init ==
    /\ clock = 0
    /\ status = "ACTIVE" /\ periodEnd = 1 /\ cancelAt = Never
    /\ introLeft = IntroPeriods
    /\ reason = "none" /\ account = "ACTIVE" /\ hosting = "on"
    /\ wallet = 0 /\ charged = [k \in Keys |-> 0] /\ refunded = {} /\ revoked = {}
    /\ pc = [c \in Callers |-> "idle"] /\ op = [c \in Callers |-> "none"]
    /\ seen = [c \in Callers |-> NoRow] /\ key = [c \in Callers |-> NoKey]

Goto(c, place) == pc' = [pc EXCEPT ![c] = place]

\* c has started operation o with a read of the row.
Begun(c, o, place) ==
    /\ pc[c] = "idle"
    /\ o \in Operations
    /\ Goto(c, place)
    /\ op' = [op EXCEPT ![c] = o]
    /\ seen' = [seen EXCEPT ![c] = Row]
    /\ UNCHANGED key

Done(c) ==
    /\ Goto(c, "idle")
    /\ op' = [op EXCEPT ![c] = "none"]
    /\ seen' = [seen EXCEPT ![c] = NoRow]
    /\ key' = [key EXCEPT ![c] = NoKey]

Moves(c, place) == Goto(c, place) /\ UNCHANGED <<op, seen, key>>

-----------------------------------------------------------------------------
(* Starting: what each operation asks of the row it reads.                 *)

\* runRenewalWindow: one of the rows due in the next 24 hours.
BeginRenew(c) ==
    /\ status \in {"ACTIVE", "PAST_DUE"}
    /\ InWindow(periodEnd)
    /\ cancelAt = Never
    /\ Begun(c, "renew", "key")
    /\ UNCHANGED <<clock, row, hosting, money>>

\* Mutated form: every return is paid for.
FirstPlace_Pay == "key"

\* oplacIPrzywroc: a period already paid for only needs the account back.
FirstPlace == IF status = "SUSPENDED" /\ ~Ended(periodEnd) THEN "unsuspend" ELSE "key"

\* retryPastDueNow.
BeginPay(c) ==
    /\ status = "PAST_DUE" \/ (status = "SUSPENDED" /\ reason = "GRACE_EXPIRED")
    /\ Begun(c, "pay", FirstPlace)
    /\ UNCHANGED <<clock, row, hosting, money>>

\* runPaymentSuspensionRestore.
BeginRestore(c) ==
    /\ status = "SUSPENDED" /\ reason = "GRACE_EXPIRED"
    /\ ~(cancelAt # Never /\ cancelAt <= clock)
    /\ Begun(c, "restore", FirstPlace)
    /\ UNCHANGED <<clock, row, hosting, money>>

\* suspend and tearDownCanceledSubscription leave out the server if the account
\* is already marked as suspended.
FirstOff == IF account = "ACTIVE" THEN "off" ELSE "write"

\* runGraceExpiry and the read of suspend (tylkoGdyStatus).
BeginGrace(c) ==
    /\ status = "PAST_DUE"
    /\ Ended(periodEnd)
    /\ Begun(c, "grace", FirstOff)
    /\ UNCHANGED <<clock, row, hosting, money>>

\* suspend by staff: abuse, a decision, a request.
BeginSuspend(c) ==
    /\ status \in {"ACTIVE", "PAST_DUE"}
    /\ Begun(c, "suspend", FirstOff)
    /\ UNCHANGED <<clock, row, hosting, money>>

\* dopiszPowodZawieszenia: staff suspend what is suspended for non-payment.
SuspendAgain ==
    /\ "suspend" \in Operations
    /\ status = "SUSPENDED" /\ reason = "GRACE_EXPIRED"
    /\ reason' = "STAFF"
    /\ UNCHANGED <<clock, status, periodEnd, cancelAt, introLeft, account, hosting, money, caller>>

\* unsuspend by staff, without a charge.
BeginUnsuspend(c) ==
    /\ status = "SUSPENDED"
    /\ Begun(c, "unsuspend", "on")
    /\ UNCHANGED <<clock, row, hosting, money>>

\* cancel(atPeriodEnd) by the customer.
BeginCancel(c) ==
    /\ status = "ACTIVE"
    /\ ~Ended(periodEnd)
    /\ Begun(c, "cancel", "cancel")
    /\ UNCHANGED <<clock, row, hosting, money>>

\* cancel(atPeriodEnd: false), which also takes an EXPIRED row, and
\* zakonczPrzezOperatora, which does not.
BeginEnd(c) ==
    /\ status # "CANCELED"
    /\ Begun(c, "end", FirstOff)
    /\ UNCHANGED <<clock, row, hosting, money>>

\* finalizeScheduledCancellation, called for the rows of runRenewalWindow.
BeginFinalize(c) ==
    /\ status \in {"ACTIVE", "PAST_DUE"} /\ InWindow(periodEnd)
    /\ cancelAt # Never /\ cancelAt <= clock
    /\ Ended(periodEnd) \/ 2 * periodEnd <= cancelAt
    /\ Begun(c, "finalize", FirstOff)
    /\ UNCHANGED <<clock, row, hosting, money>>

\* ... which moves a cancellation that would cut a paid period short.
PostponeCancel ==
    /\ "finalize" \in Operations
    /\ status \in {"ACTIVE", "PAST_DUE"} /\ InWindow(periodEnd)
    /\ cancelAt # Never /\ cancelAt <= clock
    /\ ~Ended(periodEnd) /\ 2 * periodEnd > cancelAt
    /\ cancelAt' = 2 * periodEnd
    /\ UNCHANGED <<clock, status, periodEnd, introLeft, reason, account, hosting, money, caller>>

-----------------------------------------------------------------------------
(* attemptRenewal.                                                         *)

\* Mutated form: the number in the key is not determined by the refunds.
RenewalKeys_Any(p) == {k \in Keys : k[1] = p /\ k \notin refunded}

\* kluczOdnowienia: the first key of the period that was not paid back.
RenewalKeys(p) ==
    {k \in Keys : k[1] = p /\ k \notin refunded /\ \A m \in 0 .. k[2] - 1 : <<p, m>> \in refunded}

PickKey(c) ==
    /\ pc[c] = "key"
    /\ \E k \in RenewalKeys(seen[c].periodEnd) : key' = [key EXCEPT ![c] = k]
    /\ Goto(c, "find")
    /\ UNCHANGED <<clock, row, hosting, money, op, seen>>

\* Mutated form: a period already paid for is left to whoever paid for it.
FindCharge_Leave(c) ==
    /\ pc[c] = "find"
    /\ IF charged[key[c]] > 0 THEN Done(c) ELSE Moves(c, "debit")
    /\ UNCHANGED <<clock, row, hosting, money>>

\* findByIdempotencyKey: a period already paid for is only extended.
FindCharge(c) ==
    /\ pc[c] = "find"
    /\ Moves(c, IF charged[key[c]] > 0 THEN "extend" ELSE "debit")
    /\ UNCHANGED <<clock, row, hosting, money>>

\* resolveNextRenewalAmount, of the row as it was read.
Price(r) == IF r.introLeft > 0 THEN IntroPrice ELSE FullPrice

\* The debit goes through, or finds the row of another caller.
Debit(c) ==
    LET k == key[c] IN
    /\ pc[c] = "debit"
    /\ Moves(c, "extend")
    /\ IF charged[k] > 0
       THEN UNCHANGED money
       ELSE /\ wallet >= Price(seen[c])
            /\ wallet' = wallet - Price(seen[c])
            /\ charged' = [charged EXCEPT ![k] = Price(seen[c])]
            /\ UNCHANGED <<refunded, revoked>>
    /\ UNCHANGED <<clock, row, hosting>>

\* ConflictException.  WalletLedger: a caller may be told so although another
\* has just paid under the same key.
DebitRefused(c) ==
    /\ pc[c] = "debit"
    /\ wallet < Price(seen[c])
    /\ IF seen[c].status = "ACTIVE" THEN Moves(c, "pastdue") ELSE Done(c)
    /\ UNCHANGED <<clock, row, hosting, money>>

\* Mutated form: updateMany on the id alone.
StillOwed_Any(c) == TRUE

StillOwed(c) == status = "ACTIVE" /\ periodEnd = seen[c].periodEnd

\* markPastDue.
MarkPastDue(c) ==
    /\ pc[c] = "pastdue"
    /\ status' = IF StillOwed(c) THEN "PAST_DUE" ELSE status
    /\ Done(c)
    /\ UNCHANGED <<clock, periodEnd, cancelAt, introLeft, reason, account, hosting, money>>

\* The WHERE of extendPeriod.
MayExtend(c) == periodEnd = seen[c].periodEnd /\ cancelAt = Never

\* Mutated form: who moves the period does not use up the discount.
AfterExtend_Kept(c) == introLeft

\* introDiscountPeriodsLeft: { decrement: 1 } if the row read had any.
AfterExtend(c) == IF seen[c].introLeft > 0 THEN introLeft - 1 ELSE introLeft

\* What is left to do once the period is paid for.
Paid(c) == IF seen[c].status = "SUSPENDED" THEN Moves(c, "unsuspend") ELSE Done(c)

\* extendPeriod.
Extend(c) ==
    /\ pc[c] = "extend"
    /\ MayExtend(c)
    /\ seen[c].periodEnd < MaxPeriod
    /\ periodEnd' = seen[c].periodEnd + 1
    /\ status' = IF seen[c].status = "SUSPENDED" THEN status ELSE "ACTIVE"
    /\ introLeft' = AfterExtend(c)
    /\ Paid(c)
    /\ UNCHANGED <<clock, cancelAt, reason, account, hosting, money>>

ExtendRefused(c) ==
    /\ pc[c] = "extend"
    /\ ~MayExtend(c)
    /\ Moves(c, "stopped")
    /\ UNCHANGED <<clock, row, hosting, money>>

\* Mutated form: any refused extension counts as a cancellation.
CanceledMeanwhile_Any(c) == TRUE

CanceledMeanwhile(c) == cancelAt # Never /\ periodEnd = seen[c].periodEnd

\* zwrotGdyAnulowana: was it a cancellation of this period that stopped us?
WhyStopped(c) ==
    /\ pc[c] = "stopped"
    /\ IF CanceledMeanwhile(c) THEN Moves(c, "refund") ELSE Paid(c)
    /\ UNCHANGED <<clock, row, hosting, money>>

RefundDue(k) == charged[k] > 0 /\ k \notin refunded

\* The REFUND under `<key>:zwrot`.
Refund(c) ==
    LET k == key[c] IN
    /\ pc[c] = "refund"
    /\ wallet' = IF RefundDue(k) THEN wallet + charged[k] ELSE wallet
    /\ refunded' = refunded \cup {k}
    /\ Done(c)
    /\ UNCHANGED <<clock, row, hosting, charged, revoked>>

-----------------------------------------------------------------------------
(* The server, and the writes after it.                                    *)

\* unsuspend reads the row again.
ReadSuspended(c) ==
    /\ pc[c] = "unsuspend"
    /\ IF status = "SUSPENDED"
       THEN Goto(c, "on") /\ seen' = [seen EXCEPT ![c] = Row] /\ UNCHANGED <<op, key>>
       ELSE Done(c)
    /\ UNCHANGED <<clock, row, hosting, money>>

ServerOn(c) ==
    /\ pc[c] = "on"
    /\ hosting' = "on"
    /\ Moves(c, "reactivate")
    /\ UNCHANGED <<clock, row, money>>

\* The transaction of unsuspend writes status and currentPeriodEnd, as read.
Reactivate(c) ==
    /\ pc[c] = "reactivate"
    /\ status' = "ACTIVE"
    /\ periodEnd' = seen[c].periodEnd
    /\ account' = "ACTIVE"
    /\ Done(c)
    /\ UNCHANGED <<clock, cancelAt, introLeft, reason, hosting, money>>

ServerOff(c) ==
    /\ pc[c] = "off"
    /\ hosting' = "off"
    /\ Moves(c, "write")
    /\ UNCHANGED <<clock, row, money>>

\* The server does not answer: staff and unsuspend give up, the rest go on.
ServerFails(c) ==
    /\ \/ pc[c] = "on" /\ Done(c)
       \/ pc[c] = "off" /\ op[c] = "suspend" /\ Done(c)
       \/ pc[c] = "off" /\ op[c] # "suspend" /\ Moves(c, "write")
    /\ UNCHANGED <<clock, row, hosting, money>>

\* The unconditional update of suspend.
WriteSuspended(c) ==
    /\ pc[c] = "write"
    /\ op[c] \in {"grace", "suspend"}
    /\ status' = "SUSPENDED"
    /\ reason' = IF op[c] = "grace" THEN "GRACE_EXPIRED" ELSE "STAFF"
    /\ account' = "SUSPENDED"
    /\ Done(c)
    /\ UNCHANGED <<clock, periodEnd, cancelAt, introLeft, hosting, money>>

\* The unconditional update of tearDownCanceledSubscription.
WriteCanceled(c) ==
    /\ pc[c] = "write"
    /\ op[c] \in {"end", "finalize"}
    /\ status' = "CANCELED"
    /\ cancelAt' = clock
    /\ account' = "SUSPENDED"
    /\ Done(c)
    /\ UNCHANGED <<clock, periodEnd, introLeft, reason, hosting, money>>

\* The write of cancel, conditional on the period that was read.
WriteCancelAt(c) ==
    /\ pc[c] = "cancel"
    /\ cancelAt' = IF periodEnd = seen[c].periodEnd THEN 2 * periodEnd ELSE cancelAt
    /\ Done(c)
    /\ UNCHANGED <<clock, status, periodEnd, introLeft, reason, account, hosting, money>>

\* cofnijAnulacje: read and conditional write check the same.
Uncancel ==
    /\ "uncancel" \in Operations
    /\ status = "ACTIVE"
    /\ cancelAt > clock
    /\ cancelAt' = Never
    /\ revoked' = revoked \cup {key[c] : c \in {d \in Callers : pc[d] = "refund" \/ key[d] \in refunded}}
    /\ UNCHANGED <<clock, status, periodEnd, introLeft, reason, account, hosting,
                   wallet, charged, refunded, caller>>

\* wygasPoZawieszeniu, 14 days after the suspension: no operation lasts so long
\* as to have begun before it.
Expire ==
    /\ "expire" \in Operations
    /\ status = "SUSPENDED" /\ reason = "GRACE_EXPIRED"
    /\ \A c \in Callers : pc[c] # "idle" => seen[c].status = "SUSPENDED"
    /\ status' = "EXPIRED"
    /\ cancelAt' = clock
    /\ UNCHANGED <<clock, periodEnd, introLeft, reason, account, hosting, money, caller>>

\* The process that runs c is killed, or a statement of c fails.
Die(c) ==
    /\ pc[c] # "idle"
    /\ Done(c)
    /\ UNCHANGED <<clock, row, hosting, money>>

TopUp ==
    /\ wallet + FullPrice <= MaxWallet
    /\ wallet' = wallet + FullPrice
    /\ UNCHANGED <<clock, row, hosting, charged, refunded, revoked, caller>>

\* The other services of the customer are paid from the same wallet.
OtherCharge ==
    /\ wallet >= FullPrice
    /\ wallet' = wallet - FullPrice
    /\ UNCHANGED <<clock, row, hosting, charged, refunded, revoked, caller>>

Tick ==
    /\ clock < MaxClock
    /\ clock' = clock + 1
    /\ UNCHANGED <<row, hosting, money, caller>>

Begin(c) ==
    \/ BeginRenew(c) \/ BeginPay(c) \/ BeginRestore(c) \/ BeginGrace(c)
    \/ BeginSuspend(c) \/ BeginUnsuspend(c) \/ BeginCancel(c) \/ BeginEnd(c)
    \/ BeginFinalize(c)

Work(c) ==
    \/ PickKey(c) \/ FindCharge(c) \/ Debit(c) \/ DebitRefused(c) \/ MarkPastDue(c)
    \/ Extend(c) \/ ExtendRefused(c) \/ WhyStopped(c) \/ Refund(c)
    \/ ReadSuspended(c) \/ ServerOn(c) \/ Reactivate(c) \/ ServerOff(c)
    \/ WriteSuspended(c) \/ WriteCanceled(c) \/ WriteCancelAt(c)

Next ==
    \/ \E c \in Callers : Begin(c) \/ Work(c) \/ ServerFails(c) \/ Die(c)
    \/ SuspendAgain \/ PostponeCancel \/ Uncancel \/ Expire
    \/ TopUp \/ OtherCharge \/ Tick

Spec == Init /\ [][Next]_vars

\* An operation goes on until it dies; the hourly pass comes round for ever,
\* and is not always killed, nor the server always down, when it has come as far.
Fairness ==
    /\ \A c \in Callers : WF_vars(Work(c))
    /\ SF_vars(\E c \in Callers : BeginRenew(c) \/ BeginRestore(c))
    /\ SF_vars(\E c \in Callers : PickKey(c) \/ ReadSuspended(c))
    /\ SF_vars(\E c \in Callers : FindCharge(c) \/ ServerOn(c))
    /\ SF_vars(\E c \in Callers : Extend(c) \/ Reactivate(c))

FairSpec == Spec /\ Fairness

-----------------------------------------------------------------------------
(* Properties.                                                             *)

TypeOK ==
    /\ clock \in 0 .. 2 * MaxPeriod
    /\ status \in Statuses
    /\ periodEnd \in Periods
    /\ cancelAt \in {Never} \cup 0 .. 2 * MaxPeriod
    /\ introLeft \in 0 .. IntroPeriods
    /\ reason \in {"none", "GRACE_EXPIRED", "STAFF"}
    /\ account \in {"ACTIVE", "SUSPENDED"} /\ hosting \in {"on", "off"}
    /\ wallet \in Nat
    /\ charged \in [Keys -> {0, IntroPrice, FullPrice}]
    /\ refunded \subseteq Keys /\ revoked \subseteq Keys
    /\ pc \in [Callers -> Places]
    /\ op \in [Callers -> AllOperations \cup {"none"}]
    /\ seen \in [Callers -> [status: Statuses \cup {"none"}, periodEnd: 0 .. MaxPeriod,
                             introLeft: 0 .. IntroPeriods]]
    /\ key \in [Callers -> Keys \cup {NoKey}]

\* The charges for period p that were not paid back.
Kept(p) == {k \in Keys : k[1] = p /\ charged[k] > 0 /\ k \notin refunded}

\* One period is charged for once, whatever passes, "pay now", cancellations,
\* their revocation and deaths do to it, in any order.
ChargedOnce == \A p \in Periods : Cardinality(Kept(p)) <= 1

\* The charges that may have bought the service its way out of period p.
Bought(p) == Kept(p) \cup {k \in revoked : k[1] = p}

\* A period the service moved into was paid for and stays so: a charge given
\* back (zwrotGdyAnulowana) does not also buy the period, unless the customer
\* revokes the cancellation while a renewal still has the key of that charge.
PeriodsArePaid == \A p \in 1 .. periodEnd - 1 : Bought(p) # {}

\* The starting discount is used up by the periods charged at that price, one
\* for each, whether the period was moved by the caller that was charged or by
\* one that found the charge.
DiscountUsedOncePerPeriod ==
    introLeft = IntroPeriods -
        Cardinality({p \in 1 .. periodEnd - 1 : \E k \in Bought(p) : charged[k] = IntroPrice})

\* A service paid beyond the next 24 hours does not fall behind: a pass that was
\* refused and is late does not mark what the customer has paid meanwhile.
FallsBehindOnlyUnpaid ==
    [][status # "PAST_DUE" /\ status' = "PAST_DUE" => InWindow(periodEnd)]_vars

\* The wallet sees of all this only movements that happen once: the callers
\* rely on WalletPromise and on nothing else.
BookedKeys == {<<"charge", k>> : k \in {k \in Keys : charged[k] > 0}}
              \cup {<<"zwrot", k>> : k \in refunded}
Customer == "customer"
Unkeyed == <<"other", NoKey>>
Movements ==
    [user: {Customer}, key: {"charge"} \X Keys, delta: {-IntroPrice, -FullPrice}]
    \cup [user: {Customer}, key: {"zwrot"} \X Keys, delta: {IntroPrice, FullPrice}]
    \cup [user: {Customer}, key: {Unkeyed}, delta: {FullPrice, -FullPrice}]
Wallet == INSTANCE WalletPromise
            WITH Users <- {Customer}, NoKey <- Unkeyed, booked <- BookedKeys,
                 wallet <- [u \in {Customer} |-> wallet]
KeepsPromise == Wallet!Promise

\* A service suspended although its period is paid (suspend writes without a
\* condition after the server answered) comes back by itself.
SuspendedButPaid ==
    status = "SUSPENDED" /\ reason = "GRACE_EXPIRED" /\ ~Ended(periodEnd) /\ cancelAt = Never
PaidServiceComesBack == SuspendedButPaid ~> ~SuspendedButPaid

\* The customer has been charged for the period to come, and the service has not
\* moved on: its caller died between the debit and the extension, or the service
\* had moved on and unsuspend has written back the period it had read
\* (subscriptions.service.ts:1230-1239).
ChargedNotGiven ==
    /\ Kept(periodEnd) # {} /\ periodEnd < MaxPeriod /\ cancelAt = Never
    /\ status \in {"ACTIVE", "PAST_DUE"} \/ (status = "SUSPENDED" /\ reason = "GRACE_EXPIRED")

\* A later pass gives the period, without another charge and although the wallet
\* may be empty by then, unless the service is canceled, expires or is suspended
\* by staff.
ChargedPeriodIsGiven == ChargedNotGiven ~> ~ChargedNotGiven

=============================================================================
