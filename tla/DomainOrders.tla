----------------------------- MODULE DomainOrders -----------------------------
(***************************************************************************)
(* Orders for one domain name of one customer at the registrar:            *)
(* register, transfer, renew and ponowZamowienie (the retry by staff) of   *)
(* domains/domain-registrar.service.ts, the two passes that settle what    *)
(* the registrar left open, and synchronizuj.                              *)
(*                                                                         *)
(* The registrar may do what it was asked and not answer (it is external:  *)
(* Execute, Drop, Settle).  Such an order is UNCERTAIN until a pass finds  *)
(* out, or the fee goes back after an hour.  A Caller is a request or a    *)
(* pass over one order; nothing keeps a pass from overlapping itself.      *)
(***************************************************************************)
EXTENDS Naturals, FiniteSets

CONSTANTS
    Callers,
    MaxOrders,      \* bound on the orders
    MaxDeaths       \* bound on the callers that die

ASSUME DomainConstants == MaxOrders \in Nat /\ MaxDeaths \in Nat

VARIABLES
    name,       \* "free", "elsewhere" (at another registrar) or "ours", at the start
    status,     \* DomainRegistrarOrder.status, "none" before the order exists
    kind,       \* DomainRegistrarOrder.type
    ref,        \* providerOrderId, as the order that made the registrar's object
    charged,    \* orders with a `domain-<type>:<id>` row in the wallet
    refunded,   \* orders with a `domain-<type>-refund:<id>` row
    byHand,     \* orders whose refund failed and was logged for a correction
    row,        \* Domain.expiresAt in years: Nowhere if the name is not a row of ours
    due,        \* UNCERTAIN for NIEPEWNE_ZWROT_MS
    old,        \* too long ago for a renewal to count as in progress or as a double click
    sent,       \* what became of the request at the registrar
    expiry,     \* the expiry date at the registrar
    clean,      \* renewals whose row is still that of the moment they were ordered (Clean)
    left,       \* orders whose request died, or heard an error after the debit
    deaths,
    job         \* what each caller is at

order == <<status, kind, ref, due, old>>
money == <<charged, refunded, byHand>>
registrar == <<sent, expiry>>
ghost == <<left, deaths>>
vars == <<name, order, money, row, registrar, clean, ghost, job>>

Orders == 1 .. MaxOrders
Nowhere == MaxOrders + 2
NoDate == 0
Dates == 1 .. MaxOrders + 1

Kinds == {"REGISTER", "TRANSFER", "RENEW"}
Statuses == {"none", "QUEUED", "PENDING_PAYMENT", "SUBMITTED", "UNCERTAIN", "COMPLETED", "FAILED"}
Places == {"idle", "lock", "put", "charge", "call", "answer", "unsure", "write",
           "refund", "fail", "row", "look", "close", "state", "accept", "ask", "sync"}
Operations == {"none", "register", "transfer", "renew", "retry", "uncertain", "transfers", "sync"}

Rest == [at |-> "idle", op |-> "none", on |-> 0, late |-> FALSE, date |-> NoDate]

Init ==
    /\ name \in {"free", "elsewhere", "ours"}
    /\ status = [o \in Orders |-> "none"] /\ kind = [o \in Orders |-> "RENEW"]
    /\ ref = [o \in Orders |-> 0]
    /\ charged = {} /\ refunded = {} /\ byHand = {}
    /\ row = (IF name = "ours" THEN 1 ELSE Nowhere) /\ expiry = 1
    /\ due = {} /\ old = {} /\ clean = {} /\ left = {} /\ deaths = 0
    /\ sent = [o \in Orders |-> "no"]
    /\ job = [c \in Callers |-> Rest]

At(c, place) == job[c].at = place
Order(c) == job[c].on
Goes(c, place) == job' = [job EXCEPT ![c].at = place]
Stops(c) == job' = [job EXCEPT ![c] = Rest]
Starts(c, o, operation, place) ==
    /\ At(c, "idle")
    /\ job' = [job EXCEPT ![c] = [Rest EXCEPT !.at = place, !.op = operation, !.on = o]]

SetStatus(o, s) == status' = [status EXCEPT ![o] = s] /\ UNCHANGED <<kind, ref, due, old>>

\* What the registrar has under the name: one object for each registration or
\* transfer it accepted.
Objects == {p \in Orders : kind[p] # "RENEW" /\ sent[p] \in {"pending", "done", "failed"}}
Available == name = "free" /\ \A p \in Objects : sent[p] = "failed"

-----------------------------------------------------------------------------
(* A request is taken, up to its order.                                    *)

\* The bound on the orders leaves one for every request that may put one in.
Room == Cardinality({o \in Orders : status[o] = "none"})
            > Cardinality({c \in Callers : At(c, "lock") \/ At(c, "put")})

\* register: the availability is asked for before the order is put in.
BeginRegister(c) ==
    /\ Available /\ Room
    /\ Starts(c, 0, "register", "put")
    /\ UNCHANGED <<name, order, money, row, registrar, clean, ghost>>

BeginTransfer(c) ==
    /\ name = "elsewhere" /\ Room
    /\ Starts(c, 0, "transfer", "put")
    /\ UNCHANGED <<name, order, money, row, registrar, clean, ghost>>

BeginRenew(c) ==
    /\ row # Nowhere /\ Room
    /\ Starts(c, 0, "renew", "lock")
    /\ UNCHANGED <<name, order, money, row, registrar, clean, ghost>>

\* ponowZamowienie of order o, up to its transaction.
BeginRetry(c, o) ==
    /\ status[o] \in {"FAILED", "PENDING_PAYMENT"} /\ Room
    /\ kind[o] = "TRANSFER" \/ (kind[o] = "REGISTER" /\ Available)
    /\ Starts(c, o, "retry", "lock")
    /\ UNCHANGED <<name, order, money, row, registrar, clean, ghost>>

\* Mutated form: the row is read without FOR UPDATE.
RowFree_NoForUpdate(operation) == TRUE

\* FOR UPDATE on the domain (renew) or on the orders for the name (retry).
RowFree(operation) == \A c \in Callers : ~(At(c, "put") /\ job[c].op = operation)

\* A renewal in progress, just finished, or UNCERTAIN.
InProgress(o) ==
    /\ kind[o] = "RENEW"
    /\ \/ status[o] \in {"QUEUED", "SUBMITTED", "COMPLETED"} /\ o \notin old
       \/ status[o] = "UNCERTAIN"

\* A later order for the name that may still be served, or was.
Retried(o) ==
    \E p \in Orders : p > o /\ kind[p] = kind[o]
                      /\ status[p] \in {"QUEUED", "SUBMITTED", "UNCERTAIN", "COMPLETED"}

MayPut(c) ==
    IF job[c].op = "renew" THEN \A o \in Orders : ~InProgress(o)
    ELSE /\ Order(c) \in charged => Order(c) \in refunded
         /\ ~Retried(Order(c))

LockAndLook(c) ==
    /\ At(c, "lock")
    /\ RowFree(job[c].op)
    /\ IF MayPut(c) THEN Goes(c, "put") ELSE Stops(c)
    /\ UNCHANGED <<name, order, money, row, registrar, clean, ghost>>

KindOf(c) ==
    CASE job[c].op = "register" -> "REGISTER"
      [] job[c].op = "transfer" -> "TRANSFER"
      [] job[c].op = "renew" -> "RENEW"
      [] OTHER -> kind[Order(c)]

\* The order is put in; the transaction ends.  A renewal that Verris pays for
\* (naKosztVerris) is not charged.
Put(c) ==
    /\ At(c, "put")
    /\ \E o \in Orders :
        /\ status[o] = "none" /\ \A p \in Orders : p < o => status[p] # "none"
        /\ status' = [status EXCEPT ![o] = "QUEUED"]
        /\ kind' = [kind EXCEPT ![o] = KindOf(c)]
        /\ clean' = IF KindOf(c) = "RENEW" /\ row = expiry THEN clean \cup {o} ELSE clean
        /\ \E place \in {"charge"} \cup (IF KindOf(c) = "RENEW" THEN {"call"} ELSE {}) :
             job' = [job EXCEPT ![c].on = o, ![c].at = place]
    /\ UNCHANGED <<name, ref, due, old, money, row, registrar, ghost>>

-----------------------------------------------------------------------------
(* zrealizujRejestracje, zrealizujTransfer and the rest of renew.          *)

Charge(c) ==
    /\ At(c, "charge")
    /\ charged' = charged \cup {Order(c)}
    /\ Goes(c, "call")
    /\ UNCHANGED <<name, order, refunded, byHand, row, registrar, clean, ghost>>

ChargeRefused(c) ==
    /\ At(c, "charge")
    /\ SetStatus(Order(c), "PENDING_PAYMENT")
    /\ Stops(c)
    /\ UNCHANGED <<name, money, row, registrar, clean, ghost>>

\* The debit is committed and its answer lost: the catch takes it for no payment.
ChargeUnheard(c) ==
    /\ At(c, "charge")
    /\ charged' = charged \cup {Order(c)}
    /\ left' = left \cup {Order(c)}
    /\ SetStatus(Order(c), "PENDING_PAYMENT")
    /\ Stops(c)
    /\ UNCHANGED <<name, refunded, byHand, row, registrar, clean, deaths>>

CallRegistrar(c) ==
    /\ At(c, "call")
    /\ sent' = [sent EXCEPT ![Order(c)] = "open"]
    /\ Goes(c, "answer")
    /\ UNCHANGED <<name, order, money, row, expiry, clean, ghost>>

\* The answer of a renewal may lack the date (and domainInfo fail after it).
AnsweredDone(c) ==
    /\ At(c, "answer")
    /\ sent[Order(c)] \in {"done", "pending", "failed"}
    /\ \E d \in {expiry, NoDate} : job' = [job EXCEPT ![c].at = "write", ![c].date = d]
    /\ UNCHANGED <<name, order, money, row, registrar, clean, ghost>>

\* Mutated form: a refused order is closed and no more.
AfterRefusal_Fail(o) == "fail"

\* refundAndFail, or zamowienieNieudane for what was not charged.
AfterRefusal(o) == IF o \in charged THEN "refund" ELSE "fail"

AnsweredNo(c) ==
    /\ At(c, "answer")
    /\ sent[Order(c)] = "lost"
    /\ Goes(c, AfterRefusal(Order(c)))
    /\ UNCHANGED <<name, order, money, row, registrar, clean, ghost>>

\* Mutated form: no answer is taken for a refusal.
AfterSilence_Refund == "refund"

\* RejestrWynikNiepewny.
AfterSilence == "unsure"

NotAnswered(c) ==
    /\ At(c, "answer")
    /\ Goes(c, AfterSilence)
    /\ UNCHANGED <<name, order, money, row, registrar, clean, ghost>>

\* oznaczNiepewne.
MarkUncertain(c) ==
    /\ At(c, "unsure")
    /\ SetStatus(Order(c), "UNCERTAIN")
    /\ Stops(c)
    /\ UNCHANGED <<name, money, row, registrar, clean, ghost>>

\* The date an answer leaves in the row.
RowAfter(d) == IF d # NoDate THEN d ELSE IF row = Nowhere THEN NoDate ELSE row

\* What is clean after c has moved the date of a renewal: no other renewal is, nor
\* is this one for a pass over it that has yet to read the row.
CleanAfter(c) ==
    {o \in clean : o = Order(c) /\ \A d \in Callers \ {c} : ~(Order(d) = o /\ At(d, "row"))}

\* The transaction that ends a registration or a renewal.
WriteDone(c) ==
    /\ At(c, "write")
    /\ kind[Order(c)] # "TRANSFER"
    /\ SetStatus(Order(c), "COMPLETED")
    /\ row' = RowAfter(job[c].date)
    /\ clean' = CleanAfter(c)
    /\ Stops(c)
    /\ UNCHANGED <<name, money, registrar, ghost>>

WriteSubmitted(c) ==
    /\ At(c, "write")
    /\ kind[Order(c)] = "TRANSFER"
    /\ status' = [status EXCEPT ![Order(c)] = "SUBMITTED"]
    /\ ref' = [ref EXCEPT ![Order(c)] = Order(c)]
    /\ Stops(c)
    /\ UNCHANGED <<name, kind, due, old, money, row, registrar, clean, ghost>>

\* refundAndFail: the credit, whose key is that of the order ...
Refund(c) ==
    /\ At(c, "refund")
    /\ refunded' = refunded \cup {Order(c)}
    /\ Goes(c, "fail")
    /\ UNCHANGED <<name, order, charged, byHand, row, registrar, clean, ghost>>

\* ... or its error, which is logged, and ...
RefundFails(c) ==
    /\ At(c, "refund")
    /\ byHand' = byHand \cup {Order(c)}
    /\ Goes(c, "fail")
    /\ UNCHANGED <<name, order, charged, refunded, row, registrar, clean, ghost>>

\* ... the write of the status, without a condition.
Fail(c) ==
    /\ At(c, "fail")
    /\ SetStatus(Order(c), "FAILED")
    /\ Stops(c)
    /\ UNCHANGED <<name, money, row, registrar, clean, ghost>>

-----------------------------------------------------------------------------
(* domknijNiepewne, for one order of its list.                             *)

BeginUncertain(c, o) ==
    /\ status[o] = "UNCERTAIN"
    /\ At(c, "idle")
    /\ job' = [job EXCEPT ![c] = [at |-> "row", op |-> "uncertain", on |-> o,
                                  late |-> o \in due, date |-> NoDate]]
    /\ UNCHANGED <<name, order, money, row, registrar, clean, ghost>>

\* The domain row is read; then the registrar is asked.
ReadRow(c) ==
    /\ At(c, "row")
    /\ job' = [job EXCEPT ![c].at = "look", ![c].date = IF row = Nowhere THEN NoDate ELSE row]
    /\ UNCHANGED <<name, order, money, row, registrar, clean, ghost>>

\* Mutated form: any date that is not earlier is a renewal.
Renewed_NotEarlier(c) == expiry >= job[c].date

\* A year more than the row says.
Renewed(c) == expiry >= job[c].date + 1

FoundDone(c) ==
    CASE kind[Order(c)] = "REGISTER" -> \E p \in Objects : sent[p] = "done"
      [] kind[Order(c)] = "TRANSFER" -> Objects # {}
      [] OTHER -> job[c].date # NoDate /\ Renewed(c)

FoundNothing(c) ==
    IF kind[Order(c)] = "RENEW" THEN job[c].date # NoDate /\ ~Renewed(c) ELSE Objects = {}

\* stanNiepewnego: "wykonane", "niewykonane" or "nie-wiadomo".
LookAtRegistrar(c) ==
    /\ At(c, "look")
    /\ \/ FoundDone(c) /\ job' = [job EXCEPT ![c].at = "close", ![c].date = expiry]
       \/ FoundNothing(c) /\ job[c].late /\ Goes(c, AfterRefusal(Order(c)))
       \/ ~FoundDone(c) /\ ~(FoundNothing(c) /\ job[c].late) /\ Stops(c)
    /\ UNCHANGED <<name, order, money, row, registrar, clean, ghost>>

\* zamknij: conditional on UNCERTAIN.  A registration writes the row in any
\* case, a renewal only if it closed its order.
Close(c) ==
    LET o == Order(c) IN
    /\ At(c, "close")
    /\ kind[o] # "TRANSFER"
    /\ status' = [status EXCEPT ![o] = IF @ = "UNCERTAIN" THEN "COMPLETED" ELSE @]
    /\ IF kind[o] = "RENEW" /\ status[o] # "UNCERTAIN"
       THEN UNCHANGED <<row, clean>>
       ELSE row' = job[c].date /\ clean' = CleanAfter(c)
    /\ Stops(c)
    /\ UNCHANGED <<name, kind, ref, due, old, money, registrar, ghost>>

CloseAsSubmitted(c) ==
    LET o == Order(c) IN
    /\ At(c, "close")
    /\ kind[o] = "TRANSFER"
    /\ IF status[o] = "UNCERTAIN"
       THEN /\ status' = [status EXCEPT ![o] = "SUBMITTED"]
            /\ \E p \in Objects : ref' = [ref EXCEPT ![o] = p]
       ELSE UNCHANGED <<status, ref>>
    /\ Stops(c)
    /\ UNCHANGED <<name, kind, due, old, money, row, registrar, clean, ghost>>

-----------------------------------------------------------------------------
(* domknijTransfery, for one order of its list, and synchronizuj.          *)

BeginTransfers(c, o) ==
    /\ kind[o] = "TRANSFER" /\ status[o] = "SUBMITTED"
    /\ Starts(c, o, "transfers", "state")
    /\ UNCHANGED <<name, order, money, row, registrar, clean, ghost>>

AskState(c) ==
    LET state == sent[ref[Order(c)]] IN
    /\ At(c, "state")
    /\ \/ state = "done" /\ Goes(c, "accept")
       \/ state = "failed" /\ IF Order(c) \in charged THEN Goes(c, "refund") ELSE Stops(c)
       \/ state = "pending" /\ Stops(c)
    /\ UNCHANGED <<name, order, money, row, registrar, clean, ghost>>

\* The domain goes to who paid for it; the order is closed if it is SUBMITTED.
AcceptTransfer(c) ==
    LET o == Order(c) IN
    /\ At(c, "accept")
    /\ status' = [status EXCEPT ![o] = IF @ = "SUBMITTED" THEN "COMPLETED" ELSE @]
    /\ row' = expiry
    /\ clean' = {}
    /\ Stops(c)
    /\ UNCHANGED <<name, kind, ref, due, old, money, registrar, ghost>>

\* synchronizuj reads the row, asks the registrar ...
BeginSync(c) ==
    /\ row # Nowhere
    /\ At(c, "idle")
    /\ job' = [job EXCEPT ![c] = [Rest EXCEPT !.at = "ask", !.op = "sync", !.date = row]]
    /\ UNCHANGED <<name, order, money, row, registrar, clean, ghost>>

AskSync(c) ==
    /\ At(c, "ask")
    /\ IF expiry # job[c].date
       THEN job' = [job EXCEPT ![c].at = "sync", ![c].date = expiry]
       ELSE Stops(c)
    /\ UNCHANGED <<name, order, money, row, registrar, clean, ghost>>

\* ... and writes a date that differs from what it read.
Sync(c) ==
    /\ At(c, "sync")
    /\ row' = job[c].date
    /\ clean' = IF row' # row THEN {} ELSE clean
    /\ Stops(c)
    /\ UNCHANGED <<name, order, money, registrar, ghost>>

\* A question to the registrar fails: it is asked again by a later run.
AskFails(c) ==
    /\ At(c, "look") \/ At(c, "state") \/ At(c, "ask")
    /\ Stops(c)
    /\ UNCHANGED <<name, order, money, row, registrar, clean, ghost>>

\* The process dies.
Die(c) ==
    /\ ~At(c, "idle")
    /\ deaths < MaxDeaths
    /\ deaths' = deaths + 1
    /\ left' = IF job[c].op \in {"register", "transfer", "renew", "retry"}
               THEN left \cup ({Order(c)} \cap Orders) ELSE left
    /\ Stops(c)
    /\ UNCHANGED <<name, order, money, row, registrar, clean>>

-----------------------------------------------------------------------------
(* The registrar and time.                                                 *)

\* The registrar does what it was asked.
Execute(o) ==
    /\ sent[o] = "open"
    /\ kind[o] = "REGISTER" => Available
    /\ kind[o] = "TRANSFER" => \A p \in Objects : sent[p] = "failed"
    /\ sent' = [sent EXCEPT ![o] = IF kind[o] = "TRANSFER" THEN "pending" ELSE "done"]
    /\ expiry' = IF kind[o] = "RENEW" THEN expiry + 1 ELSE expiry
    /\ clean' = clean \cap {o}
    /\ UNCHANGED <<name, order, money, row, ghost, job>>

\* It does not: it refuses, or the request is lost.
Drop(o) ==
    /\ sent[o] = "open"
    /\ sent' = [sent EXCEPT ![o] = "lost"]
    /\ UNCHANGED <<name, order, money, row, expiry, clean, ghost, job>>

\* A transfer takes days, and ends one way or the other.
Settle(o) ==
    /\ kind[o] = "TRANSFER" /\ sent[o] = "pending"
    /\ \E state \in {"done", "failed"} : sent' = [sent EXCEPT ![o] = state]
    /\ UNCHANGED <<name, order, money, row, expiry, clean, ghost, job>>

\* An hour without an answer.  ASSUMED of the registrar: what it has not done
\* within the hour it does not do.
HourPasses(o) ==
    /\ status[o] = "UNCERTAIN" /\ o \notin due
    /\ sent[o] # "open"
    /\ due' = due \cup {o}
    /\ UNCHANGED <<name, status, kind, ref, old, money, row, registrar, clean, ghost, job>>

\* A quarter of an hour after the order, a minute for a finished renewal.  No
\* request lasts that long: each of its calls has a time limit.
GetsOld(o) ==
    /\ kind[o] = "RENEW" /\ status[o] \in {"QUEUED", "SUBMITTED", "COMPLETED"} /\ o \notin old
    /\ \A c \in Callers : Order(c) # o
    /\ old' = old \cup {o}
    /\ UNCHANGED <<name, status, kind, ref, due, money, row, registrar, clean, ghost, job>>

Begin(c) ==
    \/ BeginRegister(c) \/ BeginTransfer(c) \/ BeginRenew(c) \/ BeginSync(c)
    \/ \E o \in Orders : BeginRetry(c, o) \/ BeginUncertain(c, o) \/ BeginTransfers(c, o)

Work(c) ==
    \/ LockAndLook(c) \/ Put(c) \/ Charge(c) \/ ChargeRefused(c) \/ ChargeUnheard(c)
    \/ CallRegistrar(c) \/ AnsweredDone(c) \/ AnsweredNo(c) \/ NotAnswered(c) \/ MarkUncertain(c)
    \/ WriteDone(c) \/ WriteSubmitted(c) \/ Refund(c) \/ RefundFails(c) \/ Fail(c)
    \/ ReadRow(c) \/ LookAtRegistrar(c) \/ Close(c) \/ CloseAsSubmitted(c)
    \/ AskState(c) \/ AcceptTransfer(c) \/ AskSync(c) \/ Sync(c) \/ AskFails(c)

Next ==
    \/ \E c \in Callers : Begin(c) \/ Work(c) \/ Die(c)
    \/ \E o \in Orders : Execute(o) \/ Drop(o) \/ Settle(o) \/ HourPasses(o) \/ GetsOld(o)

Spec == Init /\ [][Next]_vars

-----------------------------------------------------------------------------
(* Properties.                                                             *)

TypeOK ==
    /\ name \in {"free", "elsewhere", "ours"}
    /\ status \in [Orders -> Statuses] /\ kind \in [Orders -> Kinds]
    /\ ref \in [Orders -> {0} \cup Orders]
    /\ refunded \subseteq charged /\ charged \subseteq Orders /\ byHand \subseteq Orders
    /\ row \in {Nowhere, NoDate} \cup Dates /\ expiry \in Dates
    /\ sent \in [Orders -> {"no", "open", "lost", "pending", "done", "failed"}]
    /\ \A S \in {due, old, clean, left} : S \subseteq Orders
    /\ deaths \in 0 .. MaxDeaths
    /\ job \in [Callers -> [at: Places, op: Operations, on: {0} \cup Orders,
                            late: BOOLEAN, date: {NoDate} \cup Dates]]

\* Nothing misleads a pass over order o.  A pass judges a renewal by a year more
\* than the row, so a renewal is clean while the row has the date it was ordered
\* at, if that was the registrar's, or every pass over it has read that date.  It
\* is spoilt by another renewal, registration or transfer that moves a date, by
\* synchronizuj when it writes what this renewal did at the registrar, and by a
\* pass that closes the renewal while another pass over it has yet to read the
\* row.  In the last two the code does give back the fee of a renewal that was
\* done (ServedIsNotRefunded).  For a registration or a transfer: what was found
\* under the name is the order's own.
Clean(o) == IF kind[o] = "RENEW" THEN o \in clean ELSE ref[o] \in {0, o}

\* No fee goes back for what the registrar has done: not after an answer that did
\* not come, not by a pass that looks while another closes the order, not for a
\* transfer that goes on; Clean names the cases in which it may.
RefundIsRight ==
    [][\A o \in refunded' \ refunded : Clean(o) => sent[o] \in {"lost", "failed"}]_vars

\* domain-registrar.service.ts:1302: what was done is closed "as after a
\* successful operation", and only what was not done is given back.
ServedIsNotRefunded == \A o \in refunded : sent[o] # "done"

\* An order is closed as served only if the registrar served it; a registration
\* or a transfer is looked for by its name, so another order for the name counts.
CompletionIsRight ==
    [][\A o \in Orders : status[o] # "COMPLETED" /\ status'[o] = "COMPLETED" /\ Clean(o) =>
         \E p \in Orders : sent[p] = "done" /\ kind[p] = kind[o] /\ (kind[o] = "RENEW" => p = o)]_vars

\* A fee that was taken is being worked on, waits for the registrar, bought
\* something, or went back (if only into the log of corrections), unless its
\* request died or took the debit for refused.
FeeIsAnswered ==
    \A o \in charged :
        \/ \E c \in Callers : Order(c) = o
        \/ status[o] \in {"SUBMITTED", "UNCERTAIN", "COMPLETED"}
        \/ status[o] = "FAILED" /\ o \in refunded \cup byHand
        \/ o \in left

\* A customer who clicks twice, just after a renewal has ended, or again while the
\* outcome is uncertain, does not renew, and pay, twice.
OneRenewalAtATime ==
    Cardinality({o \in Orders : kind[o] = "RENEW"
                    /\ \/ status[o] = "UNCERTAIN"
                       \/ status[o] \in {"QUEUED", "COMPLETED"} /\ o \notin old}) <= 1

=============================================================================
