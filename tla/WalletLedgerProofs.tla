------------------------- MODULE WalletLedgerProofs -------------------------
(***************************************************************************)
(* For every set of customers, keys, requests and concurrent callers: the  *)
(* ledger explains the balance, the balance is never negative, a key moves *)
(* money once, and WalletLedger implements WalletPromise.                  *)
(***************************************************************************)
EXTENDS WalletLedger, TLAPS

\* Initially nothing is booked and nobody has called.
LEMMA InitIInv == Init => IInv
<1> SUFFICES ASSUME Init PROVE IInv
  OBVIOUS
<1>1. TypeOK
  BY DEF Init, TypeOK, Places, Replies
<1>2. OpenTransactions /\ InsertedKeys
  BY DEF Init, OpenTransactions, InsertedKeys, Working, HoldsRow
<1>3. LedgerMatchesBalance /\ KeyMovesMoneyOnce
  BY DEF Init, LedgerMatchesBalance, KeyMovesMoneyOnce, BalanceBefore
<1> QED
  BY <1>1, <1>2, <1>3 DEF IInv

\* Actions that leave the committed tables alone keep what is said of them.
LEMMA QuietStep ==
    ASSUME UNCHANGED <<walletBalance, ledger>>
    PROVE  /\ LedgerMatchesBalance => LedgerMatchesBalance'
           /\ KeyMovesMoneyOnce => KeyMovesMoneyOnce'
           /\ \A k : Booked(k)' <=> Booked(k)
BY DEF LedgerMatchesBalance, KeyMovesMoneyOnce, BalanceBefore, Booked, HasKey

\* Every action but Commit moves callers and locks only.
LEMMA QuietActions ==
    ASSUME NEW c \in Callers, IInv,
           \/ \E r \in Requests : Call(c, r)
           \/ FastPath(c) \/ RefuseSubaccount(c) \/ RefuseInsufficient(c)
           \/ LockRow(c) \/ Insert(c) \/ KeyClash(c) \/ Lookup(c)
           \/ Return(c) \/ Crash(c)
    PROVE  IInv'
<1> USE DEF IInv
<1>0. UNCHANGED <<walletBalance, ledger>>
  BY DEF Call, FastPath, RefuseSubaccount, RefuseInsufficient, Refuse, LockRow,
         Insert, KeyClash, Lookup, Return, Crash
<1>1. LedgerMatchesBalance' /\ KeyMovesMoneyOnce' /\ (\A k : Booked(k)' <=> Booked(k))
  BY <1>0, QuietStep
<1>2. CASE \E r \in Requests : Call(c, r)
  <2> PICK r \in Requests : Call(c, r)
    BY <1>2
  <2>1. TypeOK'
    BY DEF Call, TypeOK, Places
  <2>2. OpenTransactions'
    BY DEF Call, TypeOK, OpenTransactions, Working, HoldsRow
  <2>3. InsertedKeys'
    BY <1>1 DEF Call, TypeOK, InsertedKeys
  <2> QED
    BY <1>1, <2>1, <2>2, <2>3
<1>3. CASE FastPath(c)
  <2>1. TypeOK'
    BY <1>3 DEF FastPath, TypeOK, Places, Replies
  <2>2. OpenTransactions'
    BY <1>3 DEF FastPath, TypeOK, OpenTransactions, Working, HoldsRow
  <2>3. InsertedKeys'
    BY <1>1, <1>3 DEF FastPath, TypeOK, InsertedKeys
  <2> QED
    BY <1>1, <2>1, <2>2, <2>3
<1>4. CASE RefuseSubaccount(c) \/ RefuseInsufficient(c)
  <2>1. TypeOK'
    BY <1>4 DEF RefuseSubaccount, RefuseInsufficient, Refuse, TypeOK, Places, Replies
  <2>2. OpenTransactions'
    BY <1>4 DEF RefuseSubaccount, RefuseInsufficient, Refuse, TypeOK,
                OpenTransactions, Working, HoldsRow
  <2>3. InsertedKeys'
    BY <1>1, <1>4 DEF RefuseSubaccount, RefuseInsufficient, Refuse, TypeOK,
                      InsertedKeys
  <2> QED
    BY <1>1, <2>1, <2>2, <2>3
<1>5. CASE LockRow(c)
  <2>0. req[c] \in [user: Users, key: Keys \cup {NoKey}, delta: Int]
    BY <1>5, WalletConstants DEF LockRow, OpenTransactions, Working
  <2>1. TypeOK'
    <3>1. walletBalance[req[c].user] + req[c].delta \in Nat
      BY <1>5, <2>0 DEF LockRow, Covered, TypeOK
    <3> QED
      BY <1>5, <2>0, <3>1 DEF LockRow, TypeOK, Places
  <2>2. OpenTransactions'
    BY <1>5, <2>0, WalletConstants
       DEF LockRow, RowAvailable, TypeOK, OpenTransactions, Working, HoldsRow
  <2>3. InsertedKeys'
    BY <1>1, <1>5 DEF LockRow, TypeOK, InsertedKeys
  <2> QED
    BY <1>1, <2>1, <2>2, <2>3
<1>6. CASE Insert(c)
  <2>1. TypeOK'
    BY <1>6 DEF Insert, TypeOK, Places
  <2>2. OpenTransactions'
    BY <1>6 DEF Insert, TypeOK, OpenTransactions, Working, HoldsRow
  <2>3. InsertedKeys'
    BY <1>1, <1>6 DEF Insert, UniqueOK, TypeOK, InsertedKeys
  <2> QED
    BY <1>1, <2>1, <2>2, <2>3
<1>7. CASE KeyClash(c)
  <2>1. TypeOK'
    BY <1>7 DEF KeyClash, Unlocked, TypeOK, Places
  <2>2. OpenTransactions'
    BY <1>7, WalletConstants
       DEF KeyClash, Unlocked, TypeOK, OpenTransactions, Working, HoldsRow
  <2>3. InsertedKeys'
    BY <1>1, <1>7 DEF KeyClash, KeyTaken, TypeOK, InsertedKeys
  <2> QED
    BY <1>1, <2>1, <2>2, <2>3
<1>8. CASE Lookup(c)
  <2>1. TypeOK'
    BY <1>8 DEF Lookup, TypeOK, Places, Replies
  <2>2. OpenTransactions'
    BY <1>8 DEF Lookup, TypeOK, OpenTransactions, Working, HoldsRow
  <2>3. InsertedKeys'
    BY <1>1, <1>8 DEF Lookup, TypeOK, InsertedKeys
  <2> QED
    BY <1>1, <2>1, <2>2, <2>3
<1>9. CASE Return(c)
  <2>1. TypeOK'
    BY <1>9 DEF Return, TypeOK, Places, Replies
  <2>2. OpenTransactions'
    BY <1>9 DEF Return, TypeOK, OpenTransactions, Working, HoldsRow
  <2>3. InsertedKeys'
    BY <1>1, <1>9 DEF Return, TypeOK, InsertedKeys
  <2> QED
    BY <1>1, <2>1, <2>2, <2>3
<1>10. CASE Crash(c)
  <2>1. TypeOK'
    BY <1>10 DEF Crash, Unlocked, TypeOK, Places, Replies
  <2>2. OpenTransactions'
    BY <1>10, WalletConstants
       DEF Crash, Unlocked, TypeOK, OpenTransactions, Working, HoldsRow
  <2>3. InsertedKeys'
    BY <1>1, <1>10 DEF Crash, TypeOK, InsertedKeys
  <2> QED
    BY <1>1, <2>1, <2>2, <2>3
<1> QED
  BY <1>2, <1>3, <1>4, <1>5, <1>6, <1>7, <1>8, <1>9, <1>10

-----------------------------------------------------------------------------
(* The commit: the only step that moves money.                             *)

\* A commit appends one row to the ledger of its customer, and the balance it
\* writes is the one it locked plus the amount of the row.
LEMMA CommitEffect ==
    ASSUME NEW c \in Callers, IInv, Commit(c)
    PROVE  \E u \in Users, row \in Entry :
              /\ req[c] \in Requests /\ req[c].user = u
              /\ row.key = req[c].key /\ row.amount = req[c].delta
              /\ row.balanceAfter = walletBalance[u] + row.amount
              /\ walletBalance' = [walletBalance EXCEPT ![u] = row.balanceAfter]
              /\ ledger' = [ledger EXCEPT ![u] = Append(@, row)]
<1>1. /\ req[c] \in Requests
      /\ req[c].user \in Users
      /\ req[c].key \in Keys \cup {NoKey}
      /\ req[c].delta \in Int
  BY WalletConstants DEF IInv, OpenTransactions, Working, Commit
<1>2. draft[c] = walletBalance[req[c].user] + req[c].delta
  BY DEF IInv, OpenTransactions, HoldsRow, Commit
<1>3. NewRow(c) \in Entry
  BY <1>1 DEF IInv, TypeOK, NewRow, Entry
<1>4. /\ walletBalance' = [walletBalance EXCEPT ![req[c].user] = NewRow(c).balanceAfter]
      /\ ledger' = [ledger EXCEPT ![req[c].user] = Append(@, NewRow(c))]
  BY DEF Commit, NewRow
<1>5. /\ NewRow(c).key = req[c].key
      /\ NewRow(c).amount = req[c].delta
      /\ NewRow(c).balanceAfter = walletBalance[req[c].user] + NewRow(c).amount
  BY <1>2 DEF NewRow
<1> QED
  BY <1>1, <1>3, <1>4, <1>5

\* The ledger of u grows by row, spelled out index by index.
RowAppended(u, row) ==
    /\ Len(ledger[u]) \in Nat
    /\ DOMAIN ledger[u] = 1 .. Len(ledger[u])
    /\ Len(ledger'[u]) = Len(ledger[u]) + 1
    /\ DOMAIN ledger'[u] = 1 .. Len(ledger[u]) + 1
    /\ \A i \in 1 .. Len(ledger[u]) : ledger'[u][i] = ledger[u][i]
    /\ ledger'[u][Len(ledger[u]) + 1] = row
    /\ \A v \in Users \ {u} : ledger'[v] = ledger[v]

\* A row appended to one ledger leaves the others and the earlier rows alone.
LEMMA AppendedRow ==
    ASSUME TypeOK, NEW u \in Users, NEW row \in Entry,
           ledger' = [ledger EXCEPT ![u] = Append(@, row)]
    PROVE  ledger' \in [Users -> Seq(Entry)] /\ RowAppended(u, row)
<1>1. ledger[u] \in Seq(Entry) /\ ledger'[u] = Append(ledger[u], row)
  BY DEF TypeOK
<1>2. ledger' \in [Users -> Seq(Entry)]
  BY <1>1 DEF TypeOK
<1>3. \A v \in Users \ {u} : ledger'[v] = ledger[v]
  BY DEF TypeOK
<1> QED
  BY <1>1, <1>2, <1>3 DEF RowAppended

\* The keys that are booked after a row has been appended.
LEMMA AppendedKey ==
    ASSUME NEW u \in Users, NEW row \in Entry, RowAppended(u, row), NEW k
    PROVE  Booked(k)' <=> Booked(k) \/ (k = row.key /\ k # NoKey)
<1>1. \A v \in Users \ {u} : HasKey(v, k)' <=> HasKey(v, k)
  BY DEF HasKey, RowAppended
<1>2. HasKey(u, k)' <=> HasKey(u, k) \/ k = row.key
  BY SMTT(30) DEF HasKey, RowAppended
<1> QED
  BY <1>1, <1>2 DEF Booked

\* A commit keeps the invariant: what it writes was computed under the row lock
\* it still holds, and its key is nobody else's.
LEMMA CommitStep ==
    ASSUME NEW c \in Callers, IInv, Commit(c)
    PROVE  IInv'
<1>0. TypeOK
  BY DEF IInv
<1> PICK u \in Users, row \in Entry :
            /\ req[c] \in Requests /\ req[c].user = u
            /\ row.key = req[c].key /\ row.amount = req[c].delta
            /\ row.balanceAfter = walletBalance[u] + row.amount
            /\ walletBalance' = [walletBalance EXCEPT ![u] = row.balanceAfter]
            /\ ledger' = [ledger EXCEPT ![u] = Append(@, row)]
  BY CommitEffect
<1>a. ledger' \in [Users -> Seq(Entry)] /\ RowAppended(u, row)
  BY <1>0, AppendedRow
<1>1. TypeOK'
  <2>1. walletBalance' \in [Users -> Nat] /\ ledger' \in [Users -> Seq(Entry)]
    BY <1>0, <1>a DEF TypeOK, Entry
  <2>2. /\ pc' \in [Callers -> Places] /\ req' \in [Callers -> Requests \cup {NoRequest}]
        /\ reply' \in [Callers -> Replies] /\ draft' \in [Callers -> Nat]
        /\ rowLock' \in [Users -> Callers \cup {NoCaller}]
    BY <1>0 DEF TypeOK, Commit, Unlocked, Places, Replies
  <2> QED
    BY <2>1, <2>2 DEF TypeOK
<1>2. OpenTransactions'
  <2> SUFFICES ASSUME NEW d \in Callers
               PROVE  /\ Working(d)' => req'[d] \in Requests
                      /\ HoldsRow(d)' =>
                            /\ rowLock'[req'[d].user] = d
                            /\ draft'[d] = walletBalance'[req'[d].user] + req'[d].delta
    BY DEF OpenTransactions
  <2>1. CASE d = c
    BY <1>0, <2>1 DEF TypeOK, Commit, HoldsRow
  <2>2. CASE d # c
    <3>1. /\ req'[d] = req[d] /\ draft'[d] = draft[d] /\ pc'[d] = pc[d]
      BY <1>0, <2>2 DEF TypeOK, Commit
    <3>2. HoldsRow(d) => req[d].user \in Users /\ req[d].user # u
      BY <2>2, WalletConstants DEF IInv, OpenTransactions, HoldsRow, Working, Commit
    <3>3. HoldsRow(d) => /\ rowLock'[req[d].user] = d
                         /\ walletBalance'[req[d].user] = walletBalance[req[d].user]
      BY <1>0, <2>2, <3>2 DEF IInv, OpenTransactions, Commit, Unlocked, TypeOK
    <3> QED
      BY <3>1, <3>3 DEF IInv, OpenTransactions, Working, HoldsRow
  <2> QED
    BY <2>1, <2>2
<1>3. InsertedKeys'
  <2>1. \A k : Booked(k)' <=> Booked(k) \/ (k = row.key /\ k # NoKey)
    BY <1>a, AppendedKey
  <2> QED
    BY <1>0, <2>1 DEF IInv, InsertedKeys, Commit, TypeOK
<1>4. LedgerMatchesBalance'
  <2> SUFFICES ASSUME NEW v \in Users
               PROVE  /\ \A i \in DOMAIN ledger'[v] :
                            ledger'[v][i].balanceAfter
                              = BalanceBefore(v, i)' + ledger'[v][i].amount
                      /\ walletBalance'[v] = BalanceBefore(v, Len(ledger[v]) + 1)'
    BY DEF LedgerMatchesBalance
  <2>1. CASE v # u
    <3>1. ledger'[v] = ledger[v] /\ walletBalance'[v] = walletBalance[v]
      BY <1>0, <2>1 DEF TypeOK
    <3> QED
      BY <2>1, <3>1 DEF IInv, LedgerMatchesBalance, BalanceBefore
  <2>2. CASE v = u
    <3> DEFINE n == Len(ledger[u])
    <3>1. \A i \in 1 .. n + 1 : BalanceBefore(u, i)' = BalanceBefore(u, i)
      BY <1>a DEF BalanceBefore, RowAppended
    <3>2. row.balanceAfter = BalanceBefore(u, n + 1) + row.amount
      BY DEF IInv, LedgerMatchesBalance
    <3>3. \A i \in 1 .. n + 1 :
             ledger'[u][i].balanceAfter
               = BalanceBefore(u, i)' + ledger'[u][i].amount
      BY <1>a, <3>1, <3>2 DEF IInv, LedgerMatchesBalance, RowAppended
    <3>4. walletBalance'[u] = row.balanceAfter
      BY <1>0 DEF TypeOK
    <3>5. BalanceBefore(u, Len(ledger[u]) + 1)' = row.balanceAfter
      BY <1>a DEF BalanceBefore, RowAppended
    <3> QED
      BY <1>a, <2>2, <3>3, <3>4, <3>5 DEF RowAppended
  <2> QED
    BY <2>1, <2>2
<1>5. KeyMovesMoneyOnce'
  <2> SUFFICES ASSUME NEW v \in Users, NEW w \in Users,
                      NEW i \in DOMAIN ledger'[v], NEW j \in DOMAIN ledger'[w],
                      ledger'[v][i].key = ledger'[w][j].key,
                      ledger'[v][i].key # NoKey
               PROVE  v = w /\ i = j
    BY DEF KeyMovesMoneyOnce
  <2> DEFINE n == Len(ledger[u])
             IsNew(x, h) == x = u /\ h = n + 1
  <2>1. \A x \in Users : \A h \in DOMAIN ledger'[x] :
           \/ IsNew(x, h) /\ ledger'[x][h].key = row.key
           \/ /\ ~IsNew(x, h)
              /\ h \in DOMAIN ledger[x]
              /\ ledger'[x][h] = ledger[x][h]
    BY <1>a DEF RowAppended
  <2>2. \A x \in Users : \A h \in DOMAIN ledger[x] :
           row.key # NoKey => ledger[x][h].key # row.key
    BY DEF IInv, InsertedKeys, Commit, Booked, HasKey
  <2>3. CASE IsNew(v, i) /\ IsNew(w, j)
    BY <2>3
  <2>4. CASE ~IsNew(v, i) /\ ~IsNew(w, j)
    BY <2>1, <2>4 DEF IInv, KeyMovesMoneyOnce
  <2>5. CASE IsNew(v, i) /\ ~IsNew(w, j)
    BY <2>1, <2>2, <2>5
  <2>6. CASE ~IsNew(v, i) /\ IsNew(w, j)
    BY <2>1, <2>2, <2>6
  <2> QED
    BY <2>3, <2>4, <2>5, <2>6
<1> QED
  BY <1>1, <1>2, <1>3, <1>4, <1>5 DEF IInv

-----------------------------------------------------------------------------
(* The theorems.                                                           *)

\* Every step keeps the invariant.
LEMMA NextIInv == IInv /\ [Next]_vars => IInv'
<1> SUFFICES ASSUME IInv, [Next]_vars PROVE IInv'
  OBVIOUS
<1>1. CASE \E c \in Callers, r \in Requests : Call(c, r)
  BY <1>1, QuietActions
<1>2. CASE \E c \in Callers : Step(c)
  BY <1>2, QuietActions, CommitStep DEF Step, RowGranted, KeyGranted
<1>3. CASE \E c \in Callers : Crash(c)
  BY <1>3, QuietActions
<1>4. CASE UNCHANGED vars
  <2>1. LedgerMatchesBalance' /\ KeyMovesMoneyOnce' /\ \A k : Booked(k)' <=> Booked(k)
    BY <1>4, QuietStep DEF vars, IInv
  <2>2. TypeOK' /\ OpenTransactions' /\ InsertedKeys'
    BY <1>4, <2>1 DEF vars, IInv, TypeOK, OpenTransactions, InsertedKeys, Working, HoldsRow
  <2> QED
    BY <2>1, <2>2 DEF IInv
<1> QED
  BY <1>1, <1>2, <1>3, <1>4 DEF Next

\* The invariant holds in every reachable state.
LEMMA Invariance == Spec => []IInv
BY InitIInv, NextIInv, PTL DEF Spec

\* Type correctness: in particular the committed balance is a natural number.
THEOREM TypeCorrect == Spec => []TypeOK
<1>1. IInv => TypeOK
  BY DEF IInv
<1> QED
  BY Invariance, <1>1, PTL

\* Whatever callers interleave and wherever they die, the WalletTransaction
\* rows of a customer add up to User.walletBalance.
THEOREM LedgerExplainsBalance == Spec => []LedgerMatchesBalance
<1>1. IInv => LedgerMatchesBalance
  BY DEF IInv
<1> QED
  BY Invariance, <1>1, PTL

\* No debit brings a balance below zero, now or anywhere in the history.
THEOREM NoOverdraft == Spec => []NeverOverdrawn
<1>1. IInv => NeverOverdrawn
  <2> SUFFICES ASSUME TypeOK, NEW u \in Users
               PROVE  /\ walletBalance[u] >= 0
                      /\ \A i \in DOMAIN ledger[u] : ledger[u][i].balanceAfter >= 0
    BY DEF IInv, NeverOverdrawn
  <2>1. walletBalance[u] >= 0
    BY DEF TypeOK
  <2>2. ledger[u] \in Seq(Entry)
    BY DEF TypeOK
  <2>3. \A i \in DOMAIN ledger[u] : ledger[u][i] \in Entry
    BY <2>2
  <2> QED
    BY <2>1, <2>3 DEF Entry
<1> QED
  BY Invariance, <1>1, PTL

\* One idempotency key moves money once, for any number of callers that use it.
THEOREM ExactlyOnce == Spec => []KeyMovesMoneyOnce
<1>1. IInv => KeyMovesMoneyOnce
  BY DEF IInv
<1> QED
  BY Invariance, <1>1, PTL

\* The initial states are those of the promise.
LEMMA PromiseStart == Init => Abstract!PromiseInit
<1> SUFFICES ASSUME Init PROVE Abstract!PromiseInit
  OBVIOUS
<1>1. BookedKeys = {}
  BY DEF Init, BookedKeys, Booked, HasKey
<1> QED
  BY <1>1 DEF Init, Abstract!PromiseInit

\* A commit is one movement of the promise; every other step is invisible.
LEMMA PromiseStep ==
    IInv /\ [Next]_vars => [Abstract!PromiseNext]_(Abstract!promiseVars)
<1> SUFFICES ASSUME IInv, [Next]_vars
             PROVE  Abstract!PromiseNext \/ UNCHANGED Abstract!promiseVars
  OBVIOUS
<1>0. TypeOK
  BY DEF IInv
<1>1. CASE UNCHANGED <<walletBalance, ledger>>
  BY <1>1 DEF Abstract!promiseVars, BookedKeys, Booked, HasKey
<1>2. CASE \E c \in Callers : Commit(c)
  <2> PICK c \in Callers : Commit(c)
    BY <1>2
  <2> PICK u \in Users, row \in Entry :
              /\ req[c] \in Requests /\ req[c].user = u
              /\ row.key = req[c].key /\ row.amount = req[c].delta
              /\ row.balanceAfter = walletBalance[u] + row.amount
              /\ walletBalance' = [walletBalance EXCEPT ![u] = row.balanceAfter]
              /\ ledger' = [ledger EXCEPT ![u] = Append(@, row)]
    BY CommitEffect
  <2> DEFINE r == req[c]
  <2>1. RowAppended(u, row)
    BY <1>0, AppendedRow
  <2>2. BookedKeys' = BookedKeys \cup ({r.key} \ {NoKey})
    <3>1. \A k : Booked(k)' <=> Booked(k) \/ (k = row.key /\ k # NoKey)
      BY <2>1, AppendedKey
    <3>2. row.key \in Keys \cup {NoKey}
      BY DEF Entry
    <3> QED
      BY <3>1, <3>2 DEF BookedKeys
  <2>3. r.key \notin BookedKeys
    BY WalletConstants DEF IInv, InsertedKeys, Commit, BookedKeys
  <2>4. /\ walletBalance[r.user] + r.delta >= 0
        /\ walletBalance' = [walletBalance EXCEPT ![r.user] = @ + r.delta]
    BY DEF Entry
  <2>5. Abstract!Move(r)
    BY <2>2, <2>3, <2>4 DEF Abstract!Move
  <2> QED
    BY <2>5 DEF Abstract!PromiseNext
<1>3. UNCHANGED <<walletBalance, ledger>> \/ \E c \in Callers : Commit(c)
  BY DEF vars, Next, Step, RowGranted, KeyGranted, Call, FastPath,
         RefuseSubaccount, RefuseInsufficient, Refuse, LockRow, Insert, KeyClash,
         Lookup, Return, Crash
<1> QED
  BY <1>1, <1>2, <1>3

\* The ledger implements the promise the rest of the platform relies on.
THEOREM Refinement == Spec => KeepsPromise
BY PromiseStart, PromiseStep, Invariance, PTL
   DEF Spec, KeepsPromise, Abstract!Promise

\* The ledger is append-only, and no balance moves without its row.
THEOREM AppendOnly == Spec => MoneyMovesWithItsRow
<1> DEFINE A == \A u \in Users :
                  \/ UNCHANGED <<walletBalance[u], ledger[u]>>
                  \/ LET n == Len(ledger[u]) + 1 IN
                        /\ Len(ledger'[u]) = n
                        /\ \A i \in 1 .. n - 1 : ledger'[u][i] = ledger[u][i]
                        /\ walletBalance'[u] = walletBalance[u] + ledger'[u][n].amount
                        /\ walletBalance'[u] = ledger'[u][n].balanceAfter
<1>1. IInv /\ [Next]_vars => [A]_vars
  <2> SUFFICES ASSUME IInv, Next PROVE A
    OBVIOUS
  <2>0. TypeOK
    BY DEF IInv
  <2>1. CASE UNCHANGED <<walletBalance, ledger>>
    BY <2>1
  <2>2. ASSUME NEW c \in Callers, Commit(c) PROVE A
    <3> PICK u \in Users, row \in Entry :
                /\ req[c] \in Requests /\ req[c].user = u
                /\ row.key = req[c].key /\ row.amount = req[c].delta
                /\ row.balanceAfter = walletBalance[u] + row.amount
                /\ walletBalance' = [walletBalance EXCEPT ![u] = row.balanceAfter]
                /\ ledger' = [ledger EXCEPT ![u] = Append(@, row)]
      BY <2>2, CommitEffect
    <3>1. RowAppended(u, row)
      BY <2>0, AppendedRow
    <3>2. walletBalance'[u] = row.balanceAfter
      BY <2>0 DEF TypeOK
    <3>3. \A v \in Users \ {u} : walletBalance'[v] = walletBalance[v] /\ ledger'[v] = ledger[v]
      BY <2>0, <3>1 DEF TypeOK, RowAppended
    <3> QED
      BY <3>1, <3>2, <3>3 DEF RowAppended
  <2>3. UNCHANGED <<walletBalance, ledger>> \/ \E c \in Callers : Commit(c)
    BY DEF Next, Step, RowGranted, KeyGranted, Call, FastPath,
           RefuseSubaccount, RefuseInsufficient, Refuse, LockRow, Insert,
           KeyClash, Lookup, Return, Crash
  <2> QED
    BY <2>1, <2>2, <2>3
<1> QED
  BY <1>1, Invariance, PTL DEF Spec, MoneyMovesWithItsRow

=============================================================================
