---------------------------- MODULE WalletLedger ----------------------------
(***************************************************************************)
(* billing/wallet-ledger.service.ts, and the same protocol followed by     *)
(* billing/doladowanie.service.ts for top-ups: the only way in which       *)
(* User.walletBalance changes.                                             *)
(*                                                                         *)
(* Every request that moves money (a web hook, a pass of the renewal cron, *)
(* an operator, an order) is a Caller.  Its call is split where another    *)
(* caller can get in between: the look-up of the idempotency key outside   *)
(* the transaction, SELECT ... FOR UPDATE on the customer's row, the       *)
(* insert under the unique index, the commit, the second look-up by the    *)
(* loser of a key race.  A caller can die at any of these points.          *)
(*                                                                         *)
(* PostgreSQL is taken at READ COMMITTED: what a transaction writes is     *)
(* invisible until it commits, a row locked FOR UPDATE makes others wait,  *)
(* and the insert of a key that an open transaction has inserted waits for *)
(* that transaction to end.                                                *)
(***************************************************************************)
EXTENDS Integers, Sequences, FiniteSets

CONSTANTS
    Users,          \* customers: rows of "User"
    Subaccounts,    \* those with customerOwnerId set
    Keys,           \* idempotency keys
    NoKey,          \* input.idempotencyKey is absent
    Requests,       \* the LedgerEntryInputs callers may present
    NoRequest,
    Callers,        \* concurrent requests, cron passes and workers
    NoCaller,
    MaxEntries      \* bound on the entries of one customer

ASSUME WalletConstants ==
    /\ Subaccounts \subseteq Users
    /\ NoKey \notin Keys
    /\ NoCaller \notin Callers
    /\ NoRequest \notin Requests
    /\ MaxEntries \in Nat
    /\ Requests \subseteq [user: Users, key: Keys \cup {NoKey}, delta: Int]

VARIABLES
    walletBalance,  \* [Users -> Nat], committed
    ledger,         \* [Users -> Seq(Entry)], committed WalletTransaction rows
    rowLock,        \* [Users -> Callers \cup {NoCaller}]
    pc,             \* where each caller is
    req,            \* the input each caller is working on
    draft,          \* the balanceAfter of the row a caller is writing
    reply           \* what the caller was told

vars == <<walletBalance, ledger, rowLock, pc, req, draft, reply>>

Entry == [key: Keys \cup {NoKey}, amount: Int, balanceAfter: Nat]

Places == {"idle", "fastpath", "lock", "insert", "commit", "lookup", "done"}

\* "entry" stands for the row with the caller's key (its own, or the winner's).
Replies == {"none", "entry", "insufficient", "subaccount"}

-----------------------------------------------------------------------------

\* Some committed row of u carries key k.
HasKey(u, k) == \E i \in DOMAIN ledger[u] : ledger[u][i].key = k

\* findByIdempotencyKey: the committed row with this key, if the caller gave one.
Booked(k) == k # NoKey /\ \E u \in Users : HasKey(u, k)

\* Mutated form: no unique index on idempotencyKey.
UniqueOK_NoIndex(c) == TRUE

\* The unique index lets the row of c in: no committed row has its key, nor
\* has the row of a transaction that is still open (the insert waits for it).
UniqueOK(c) ==
    \/ req[c].key = NoKey
    \/ /\ ~Booked(req[c].key)
       /\ \A d \in Callers : pc[d] = "commit" => req[d].key # req[c].key

\* Mutated form: a plain SELECT, without FOR UPDATE.
RowAvailable_NoForUpdate(u) == TRUE

\* SELECT ... FOR UPDATE returns when nobody holds the customer's row.
RowAvailable(u) == rowLock[u] = NoCaller

\* newBalance.isNegative() does not hold.
Covered(r) == walletBalance[r.user] + r.delta >= 0

-----------------------------------------------------------------------------

Init ==
    /\ walletBalance = [u \in Users |-> 0]
    /\ ledger = [u \in Users |-> <<>>]
    /\ rowLock = [u \in Users |-> NoCaller]
    /\ pc = [c \in Callers |-> "idle"]
    /\ req = [c \in Callers |-> NoRequest]
    /\ draft = [c \in Callers |-> 0]
    /\ reply = [c \in Callers |-> "none"]

\* credit, debit or zaksieguj is called; repeating a call is another Call.
Call(c, r) ==
    /\ pc[c] = "idle"
    /\ req' = [req EXCEPT ![c] = r]
    /\ pc' = [pc EXCEPT ![c] = "fastpath"]
    /\ UNCHANGED <<walletBalance, ledger, rowLock, draft, reply>>

\* The idempotency read outside the transaction.
FastPath(c) ==
    /\ pc[c] = "fastpath"
    /\ IF Booked(req[c].key)
       THEN /\ pc' = [pc EXCEPT ![c] = "done"]
            /\ reply' = [reply EXCEPT ![c] = "entry"]
       ELSE /\ pc' = [pc EXCEPT ![c] = "lock"]
            /\ UNCHANGED reply
    /\ UNCHANGED <<walletBalance, ledger, rowLock, req, draft>>

\* The row is read and the call refused: the exception ends the transaction.
Refuse(c, why) ==
    /\ pc[c] = "lock"
    /\ RowAvailable(req[c].user)
    /\ pc' = [pc EXCEPT ![c] = "done"]
    /\ reply' = [reply EXCEPT ![c] = why]
    /\ UNCHANGED <<walletBalance, ledger, rowLock, req, draft>>

RefuseSubaccount(c) ==
    /\ Refuse(c, "subaccount")
    /\ req[c].user \in Subaccounts

RefuseInsufficient(c) ==
    /\ Refuse(c, "insufficient")
    /\ req[c].user \notin Subaccounts
    /\ ~Covered(req[c])

\* The row is locked and the new balance computed and written.
LockRow(c) ==
    LET u == req[c].user IN
    /\ pc[c] = "lock"
    /\ RowAvailable(u)
    /\ u \notin Subaccounts
    /\ Covered(req[c])
    /\ Len(ledger[u]) < MaxEntries
    /\ rowLock' = [rowLock EXCEPT ![u] = c]
    /\ draft' = [draft EXCEPT ![c] = walletBalance[u] + req[c].delta]
    /\ pc' = [pc EXCEPT ![c] = "insert"]
    /\ UNCHANGED <<walletBalance, ledger, req, reply>>

\* The WalletTransaction row goes in, with the document made in the same
\* transaction.
Insert(c) ==
    /\ pc[c] = "insert"
    /\ UniqueOK(c)
    /\ pc' = [pc EXCEPT ![c] = "commit"]
    /\ UNCHANGED <<walletBalance, ledger, rowLock, req, draft, reply>>

\* Mutated form: the transaction is abandoned but its row stays locked.
Unlocked_Never(c) == rowLock

\* The row locks once the transaction of c is over.
Unlocked(c) == [u \in Users |-> IF rowLock[u] = c THEN NoCaller ELSE rowLock[u]]

\* The key is that of a committed row.
KeyTaken(c) == Booked(req[c].key)

\* The insert hits the unique index (P2002) and the transaction is undone.
KeyClash(c) ==
    /\ pc[c] = "insert"
    /\ KeyTaken(c)
    /\ rowLock' = Unlocked(c)
    /\ draft' = [draft EXCEPT ![c] = 0]
    /\ pc' = [pc EXCEPT ![c] = "lookup"]
    /\ UNCHANGED <<walletBalance, ledger, req, reply>>

\* The loser of the race returns the winner's row.
Lookup(c) ==
    /\ pc[c] = "lookup"
    /\ Booked(req[c].key)
    /\ pc' = [pc EXCEPT ![c] = "done"]
    /\ reply' = [reply EXCEPT ![c] = "entry"]
    /\ UNCHANGED <<walletBalance, ledger, rowLock, req, draft>>

\* The row written by the transaction of c.
NewRow(c) ==
    [key |-> req[c].key, amount |-> req[c].delta, balanceAfter |-> draft[c]]

\* The balance and the row become visible together.
Commit(c) ==
    LET u == req[c].user IN
    /\ pc[c] = "commit"
    /\ walletBalance' = [walletBalance EXCEPT ![u] = draft[c]]
    /\ ledger' = [ledger EXCEPT ![u] = Append(@, NewRow(c))]
    /\ rowLock' = Unlocked(c)
    /\ draft' = [draft EXCEPT ![c] = 0]
    /\ pc' = [pc EXCEPT ![c] = "done"]
    /\ reply' = [reply EXCEPT ![c] = "entry"]
    /\ UNCHANGED req

\* The caller gets its answer.
Return(c) ==
    /\ pc[c] = "done"
    /\ pc' = [pc EXCEPT ![c] = "idle"]
    /\ req' = [req EXCEPT ![c] = NoRequest]
    /\ reply' = [reply EXCEPT ![c] = "none"]
    /\ UNCHANGED <<walletBalance, ledger, rowLock, draft>>

\* The process or its database connection dies.  An open transaction is lost
\* with its locks; a committed one stays although its caller never hears of it.
Crash(c) ==
    /\ pc[c] # "idle"
    /\ pc' = [pc EXCEPT ![c] = "idle"]
    /\ req' = [req EXCEPT ![c] = NoRequest]
    /\ reply' = [reply EXCEPT ![c] = "none"]
    /\ draft' = [draft EXCEPT ![c] = 0]
    /\ rowLock' = Unlocked(c)
    /\ UNCHANGED <<walletBalance, ledger>>

\* What ends the wait for the customer's row, and the wait for the key.
RowGranted(c) == RefuseSubaccount(c) \/ RefuseInsufficient(c) \/ LockRow(c)
KeyGranted(c) == Insert(c) \/ KeyClash(c)

\* What a caller does by itself once it has been called.
Step(c) ==
    \/ FastPath(c)
    \/ RowGranted(c)
    \/ KeyGranted(c)
    \/ Lookup(c)
    \/ Commit(c)
    \/ Return(c)

Next ==
    \/ \E c \in Callers, r \in Requests : Call(c, r)
    \/ \E c \in Callers : Step(c)
    \/ \E c \in Callers : Crash(c)

Spec == Init /\ [][Next]_vars

\* A caller that can go on does.  PostgreSQL serves those who wait for a row, or
\* for the transaction that inserted their key, in the order of arrival: who is
\* let in again and again gets in.
Fairness ==
    \A c \in Callers :
        WF_vars(Step(c)) /\ SF_vars(RowGranted(c)) /\ SF_vars(KeyGranted(c))

FairSpec == Spec /\ Fairness

-----------------------------------------------------------------------------
(* Properties.                                                             *)

TypeOK ==
    /\ walletBalance \in [Users -> Nat]
    /\ ledger \in [Users -> Seq(Entry)]
    /\ rowLock \in [Users -> Callers \cup {NoCaller}]
    /\ pc \in [Callers -> Places]
    /\ req \in [Callers -> Requests \cup {NoRequest}]
    /\ draft \in [Callers -> Nat]
    /\ reply \in [Callers -> Replies]

\* The row before row i of u left this balance.
BalanceBefore(u, i) == IF i = 1 THEN 0 ELSE ledger[u][i - 1].balanceAfter

\* "The row in WalletTransaction always matches the running balance": each row
\* continues the balance the previous one left, whatever callers interleaved,
\* and the last one is the balance on the customer's card.  Lost updates break
\* it: two callers that compute from the same balance.
LedgerMatchesBalance ==
    \A u \in Users :
        /\ \A i \in DOMAIN ledger[u] :
              ledger[u][i].balanceAfter = BalanceBefore(u, i) + ledger[u][i].amount
        /\ walletBalance[u] = BalanceBefore(u, Len(ledger[u]) + 1)

\* "Debits never bring balance below 0", at any row of the history, although
\* the balance may have been spent by others since the call began.
NeverOverdrawn ==
    \A u \in Users :
        /\ walletBalance[u] >= 0
        /\ \A i \in DOMAIN ledger[u] : ledger[u][i].balanceAfter >= 0

\* The movement of one idempotency key happens once: duplicated web hooks, a
\* crash after the commit and the retry, two cron passes, in any interleaving,
\* and even for callers that name different customers (an operator's key).
KeyMovesMoneyOnce ==
    \A u, v \in Users : \A i \in DOMAIN ledger[u], j \in DOMAIN ledger[v] :
        /\ ledger[u][i].key = ledger[v][j].key
        /\ ledger[u][i].key # NoKey
        => u = v /\ i = j

\* The ledger is append-only, and a balance moves exactly with one new row of
\* its customer that carries the difference.
MoneyMovesWithItsRow ==
    [][\A u \in Users :
          \/ UNCHANGED <<walletBalance[u], ledger[u]>>
          \/ LET n == Len(ledger[u]) + 1 IN
                /\ Len(ledger'[u]) = n
                /\ \A i \in 1 .. n - 1 : ledger'[u][i] = ledger[u][i]
                /\ walletBalance'[u] = walletBalance[u] + ledger'[u][n].amount
                /\ walletBalance'[u] = ledger'[u][n].balanceAfter]_vars

\* The bound MaxEntries, not the program, holds back calls for u.
AtBound(u) == Len(ledger[u]) = MaxEntries

\* Nobody waits for ever: neither the row lock nor the wait for a key that an
\* open transaction has inserted holds up a call, whoever dies holding them.
EveryCallEnds ==
    \A c \in Callers :
        pc[c] # "idle" ~> \/ pc[c] \in {"idle", "done"}
                          \/ AtBound(req[c].user)

-----------------------------------------------------------------------------
(* Why it holds: the inductive invariant.                                  *)

Working(c)   == pc[c] # "idle"
HoldsRow(c)  == pc[c] \in {"insert", "commit"}

\* A caller inside its transaction holds the row of its customer, and so what
\* it computed from the balance is still what the balance makes it.
OpenTransactions ==
    \A c \in Callers :
        /\ Working(c) => req[c] \in Requests
        /\ HoldsRow(c) =>
              /\ rowLock[req[c].user] = c
              /\ draft[c] = walletBalance[req[c].user] + req[c].delta

\* An inserted row has its key for itself until it is committed or undone.
InsertedKeys ==
    \A c \in Callers : pc[c] = "commit" /\ req[c].key # NoKey =>
        /\ ~Booked(req[c].key)
        /\ \A d \in Callers \ {c} : pc[d] = "commit" => req[d].key # req[c].key

IInv ==
    /\ TypeOK
    /\ OpenTransactions
    /\ InsertedKeys
    /\ LedgerMatchesBalance
    /\ KeyMovesMoneyOnce

-----------------------------------------------------------------------------
(* The wallet keeps its promise.                                           *)

BookedKeys == {k \in Keys : Booked(k)}

Abstract == INSTANCE WalletPromise
              WITH Movements <- Requests, wallet <- walletBalance,
                   booked <- BookedKeys

\* Every behaviour of callers, locks and crashes is one of atomic movements.
KeepsPromise == Abstract!Promise

=============================================================================
