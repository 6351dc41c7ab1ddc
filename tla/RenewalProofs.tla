----------------------------- MODULE RenewalProofs -----------------------------
(***************************************************************************)
(* For any number of callers, periods, refunds and prices, wherever        *)
(* callers die: a period is charged once, the wallet sees each movement    *)
(* once, and only what is due falls behind.  As long as nobody suspends    *)
(* the service, every period it moved into was paid for and used up the    *)
(* discount once.                                                          *)
(***************************************************************************)
EXTENDS Renewal, FiniteSetTheorems, TLAPS

-----------------------------------------------------------------------------
(* The first invariant: keys and charges.                                  *)

\* TypeOK, except that the discount is only counted in the second part.
CallersTyped ==
    /\ pc \in [Callers -> Places]
    /\ op \in [Callers -> AllOperations \cup {"none"}]
    /\ seen \in [Callers -> [status: Statuses \cup {"none"}, periodEnd: 0 .. MaxPeriod,
                             introLeft: Int]]
    /\ key \in [Callers -> Keys \cup {NoKey}]

RowTyped ==
    /\ clock \in 0 .. 2 * MaxPeriod
    /\ status \in Statuses
    /\ periodEnd \in Periods
    /\ cancelAt \in {Never} \cup 0 .. 2 * MaxPeriod
    /\ introLeft \in Int
    /\ reason \in {"none", "GRACE_EXPIRED", "STAFF"}
    /\ account \in {"ACTIVE", "SUSPENDED"} /\ hosting \in {"on", "off"}

MoneyTyped ==
    /\ wallet \in Nat
    /\ charged \in [Keys -> {0, IntroPrice, FullPrice}]
    /\ refunded \subseteq Keys /\ revoked \subseteq Keys

\* The numbers of a period are used in turn: all below k were paid back.
LowerRefunded(k) == \A m \in 0 .. k[2] - 1 : <<k[1], m>> \in refunded

HoldsKey == {"find", "debit", "extend", "stopped", "refund"}

\* What a caller does agrees with the row it read and the key it holds.
Sound(c) ==
    /\ pc[c] # "idle" => seen[c].periodEnd \in Periods
    /\ pc[c] \in HoldsKey =>
         key[c] \in Keys /\ key[c][1] = seen[c].periodEnd /\ LowerRefunded(key[c])
    /\ pc[c] \in {"extend", "stopped", "refund"} => charged[key[c]] > 0
    /\ pc[c] \in {"key", "find", "debit"} /\ seen[c].status = "ACTIVE" => InWindow(seen[c].periodEnd)
    /\ pc[c] = "pastdue" => InWindow(seen[c].periodEnd)

Charges ==
    /\ \A k \in Keys : charged[k] > 0 => LowerRefunded(k)
    /\ \A k \in refunded : charged[k] > 0

\* The inductive invariant of the first part.
IInv ==
    /\ CallersTyped
    /\ RowTyped
    /\ MoneyTyped
    /\ \A c \in Callers : Sound(c)
    /\ Charges

\* What the constants and bounds are.
LEMMA Values ==
    /\ Keys = Periods \X (0 .. MaxRefunds)
    /\ NoKey \notin Keys
    /\ IntroPrice \in Nat /\ FullPrice \in Nat /\ 0 < IntroPrice /\ IntroPrice < FullPrice
    /\ MaxPeriod \in Nat /\ 0 < MaxPeriod /\ MaxRefunds \in Nat /\ IntroPeriods \in Nat
    /\ MaxClock \in 0 .. 2 * MaxPeriod
  BY RenewalConstants DEF Keys, NoKey, Periods

\* One caller moves.
Mover(c) ==
    /\ CallersTyped'
    /\ \A d \in Callers \ {c} :
         pc'[d] = pc[d] /\ op'[d] = op[d] /\ seen'[d] = seen[d] /\ key'[d] = key[d]

\* A caller that is done is at rest again.
LEMMA DoneMoves ==
    ASSUME CallersTyped, NEW c \in Callers, Done(c)
    PROVE  Mover(c) /\ pc'[c] = "idle" /\ op'[c] = "none" /\ seen'[c] = NoRow /\ key'[c] = NoKey
<1>1. NoRow \in [status: Statuses \cup {"none"}, periodEnd: 0 .. MaxPeriod, introLeft: Int]
  BY Values DEF NoRow
<1> QED
  BY <1>1 DEF CallersTyped, Done, Goto, Mover, Places

\* A caller that goes on keeps what it has read and its key.
LEMMA MovesMoves ==
    ASSUME CallersTyped, NEW c \in Callers, NEW p \in Places, Moves(c, p)
    PROVE  /\ Mover(c) /\ pc'[c] = p
           /\ op'[c] = op[c] /\ seen'[c] = seen[c] /\ key'[c] = key[c]
  BY DEF CallersTyped, Moves, Goto, Mover

\* A caller that begins has read the row.
LEMMA BegunMoves ==
    ASSUME CallersTyped, RowTyped, NEW c \in Callers, NEW o \in AllOperations, NEW p \in Places,
           Begun(c, o, p)
    PROVE  /\ Mover(c) /\ pc'[c] = p /\ op'[c] = o /\ o \in Operations
           /\ seen'[c] = Row /\ key'[c] = key[c] /\ pc[c] = "idle"
<1>1. Row \in [status: Statuses \cup {"none"}, periodEnd: 0 .. MaxPeriod, introLeft: Int]
  BY Values DEF Row, RowTyped, Periods
<1> QED
  BY <1>1 DEF CallersTyped, Begun, Goto, Mover

\* Nothing another caller or the clock does makes c unsound.
LEMMA StaysSound ==
    ASSUME NEW d \in Callers, Sound(d), IInv, CallersTyped',
           pc'[d] = pc[d], seen'[d] = seen[d], key'[d] = key[d],
           clock' \in Nat, clock' >= clock, refunded \subseteq refunded',
           charged' \in [Keys -> {0, IntroPrice, FullPrice}],
           \A k \in Keys : charged[k] > 0 => charged'[k] > 0
    PROVE  Sound(d)'
<1>1. pc[d] # "idle" => seen[d].periodEnd \in Int
  BY DEF IInv, CallersTyped
<1>2. \A p \in Int : InWindow(p) => InWindow(p)'
  BY DEF InWindow, IInv, RowTyped
<1>3. \A k \in Keys : LowerRefunded(k) => LowerRefunded(k)'
  BY DEF LowerRefunded
<1>4. seen[d].periodEnd \in Int
  BY Values DEF IInv, CallersTyped
<1> QED
  BY <1>2, <1>3, <1>4 DEF Sound, HoldsKey

\* A step of c that leaves the money alone.
LEMMA MoverKeepsIInv ==
    ASSUME IInv, NEW c \in Callers, Mover(c), RowTyped', Sound(c)', UNCHANGED <<clock, money>>
    PROVE  IInv'
<1>1. ASSUME NEW d \in Callers PROVE Sound(d)'
  BY StaysSound DEF IInv, Mover, RowTyped, MoneyTyped, money
<1>2. MoneyTyped' /\ Charges'
  BY DEF IInv, MoneyTyped, Charges, LowerRefunded, money
<1> QED
  BY <1>1, <1>2 DEF IInv, Mover

\* A caller that is done is sound.
LEMMA DoneKeepsIInv ==
    ASSUME IInv, NEW c \in Callers, Done(c), RowTyped', UNCHANGED <<clock, money>>
    PROVE  IInv'
<1>1. Mover(c) /\ pc'[c] = "idle"
  BY DoneMoves DEF IInv
<1> QED
  BY <1>1, MoverKeepsIInv DEF Sound, HoldsKey

\* A step without a caller keeps the invariant if time goes on and the ledger stays.
LEMMA SystemKeepsIInv ==
    ASSUME IInv, UNCHANGED <<caller, charged, refunded>>, RowTyped', clock' >= clock,
           wallet' \in Nat, revoked' \subseteq Keys
    PROVE  IInv'
<1>1. CallersTyped'
  BY DEF IInv, CallersTyped, caller
<1>2. ASSUME NEW d \in Callers PROVE Sound(d)'
  BY <1>1, StaysSound DEF IInv, caller, RowTyped, MoneyTyped
<1>3. MoneyTyped' /\ Charges'
  BY DEF IInv, MoneyTyped, Charges, LowerRefunded
<1> QED
  BY <1>1, <1>2, <1>3 DEF IInv

\* The invariant holds at the start.
LEMMA InitIInv == Init => IInv
<1> SUFFICES ASSUME Init PROVE IInv
  OBVIOUS
<1>1. CallersTyped
  BY Values DEF Init, CallersTyped, NoRow, Places
<1>2. RowTyped /\ MoneyTyped
  BY Values DEF Init, RowTyped, MoneyTyped, Statuses, Periods, Never
<1>3. Charges /\ \A c \in Callers : Sound(c)
  BY DEF Init, Charges, Sound, HoldsKey
<1> QED
  BY <1>1, <1>2, <1>3 DEF IInv

-----------------------------------------------------------------------------
(* Starting, the keys and the charge.                                      *)

\* An operation that starts with a row it may renew.
LEMMA BegunKeepsIInv ==
    ASSUME IInv, NEW c \in Callers, NEW o \in AllOperations, NEW p \in Places \ HoldsKey,
           Begun(c, o, p), p \notin {"pastdue"},
           p = "key" /\ status = "ACTIVE" => InWindow(periodEnd),
           UNCHANGED <<clock, row, hosting, money>>
    PROVE  IInv'
<1>1. /\ Mover(c) /\ pc'[c] = p /\ seen'[c] = Row /\ UNCHANGED clock
  BY BegunMoves DEF IInv
<1>2. RowTyped'
  BY DEF IInv, RowTyped, row
<1>3. Sound(c)'
  BY <1>1 DEF IInv, RowTyped, Sound, HoldsKey, Row, InWindow
<1> QED
  BY <1>1, <1>2, <1>3, MoverKeepsIInv

\* Begin keeps the invariant.
LEMMA BeginKeepsIInv ==
    ASSUME IInv, NEW c \in Callers, Begin(c)
    PROVE  IInv'
<1> USE BegunKeepsIInv DEF AllOperations, Places, HoldsKey
<1>1. CASE BeginRenew(c)
  BY <1>1 DEF BeginRenew
<1>2. CASE BeginPay(c)
  BY <1>2 DEF BeginPay, FirstPlace
<1>3. CASE BeginRestore(c)
  BY <1>3 DEF BeginRestore, FirstPlace
<1>4. CASE BeginGrace(c)
  BY <1>4 DEF BeginGrace, FirstOff
<1>5. CASE BeginSuspend(c)
  BY <1>5 DEF BeginSuspend, FirstOff
<1>6. CASE BeginUnsuspend(c)
  BY <1>6 DEF BeginUnsuspend
<1>7. CASE BeginCancel(c)
  BY <1>7 DEF BeginCancel
<1>8. CASE BeginEnd(c)
  BY <1>8 DEF BeginEnd, FirstOff
<1>9. CASE BeginFinalize(c)
  BY <1>9 DEF BeginFinalize, FirstOff
<1> QED
  BY <1>1, <1>2, <1>3, <1>4, <1>5, <1>6, <1>7, <1>8, <1>9 DEF Begin

\* A step on: place, row, money and key of c are all there is to look at.
LEMMA OnKeepsIInv ==
    ASSUME IInv, NEW c \in Callers, NEW p \in Places, Moves(c, p), RowTyped', UNCHANGED <<clock, money>>,
           p \in HoldsKey => pc[c] \in HoldsKey,
           p \in {"extend", "stopped", "refund"} => charged[key[c]] > 0,
           p = "debit" => pc[c] = "find",
           p \notin {"key", "find", "idle"},
           p = "pastdue" => pc[c] = "debit" /\ seen[c].status = "ACTIVE",
           pc[c] # "idle"
    PROVE  IInv'
<1>1. Mover(c) /\ pc'[c] = p /\ seen'[c] = seen[c] /\ key'[c] = key[c]
  BY MovesMoves DEF IInv
<1>2. Sound(c)
  BY DEF IInv
<1>3. Sound(c)'
  BY <1>1, <1>2 DEF Sound, HoldsKey, LowerRefunded, InWindow, money
<1> QED
  BY <1>1, <1>3, MoverKeepsIInv

\* PickKey keeps the invariant.
LEMMA PickKeyKeepsIInv ==
    ASSUME IInv, NEW c \in Callers, PickKey(c)
    PROVE  IInv'
<1>1. PICK k \in RenewalKeys(seen[c].periodEnd) : key' = [key EXCEPT ![c] = k]
  BY DEF PickKey
<1>2. k \in Keys /\ k[1] = seen[c].periodEnd /\ LowerRefunded(k)
  BY DEF RenewalKeys, LowerRefunded
<1>3. Mover(c) /\ pc'[c] = "find" /\ seen'[c] = seen[c] /\ key'[c] = k
  BY <1>1, <1>2 DEF PickKey, Goto, IInv, CallersTyped, Mover, Places
<1>4. RowTyped' /\ Sound(c)
  BY DEF PickKey, IInv, RowTyped, row
<1>5. Sound(c)'
  BY <1>2, <1>3, <1>4 DEF PickKey, Sound, HoldsKey, LowerRefunded, InWindow, money
<1> QED
  BY <1>3, <1>4, <1>5, MoverKeepsIInv DEF PickKey

\* Debit keeps the invariant.
LEMMA DebitKeepsIInv ==
    ASSUME IInv, NEW c \in Callers, Debit(c)
    PROVE  IInv'
<1>1. RowTyped' /\ Sound(c) /\ pc[c] = "debit" /\ Moves(c, "extend")
  BY DEF Debit, IInv, RowTyped, row
<1>2. CASE charged[key[c]] > 0
  BY <1>1, <1>2, OnKeepsIInv DEF Debit, HoldsKey, Places
<1>3. CASE ~(charged[key[c]] > 0)
  <2> DEFINE k == key[c]
  <2>1. k \in Keys /\ LowerRefunded(k) /\ Price(seen[c]) \in {IntroPrice, FullPrice}
    BY <1>1 DEF Sound, HoldsKey, Price
  <2>2. /\ wallet' = wallet - Price(seen[c]) /\ wallet >= Price(seen[c])
        /\ charged' = [charged EXCEPT ![k] = Price(seen[c])]
        /\ UNCHANGED <<clock, refunded, revoked>>
    BY <1>3 DEF Debit
  <2>3. Mover(c) /\ pc'[c] = "extend" /\ seen'[c] = seen[c] /\ key'[c] = k
    BY <1>1, MovesMoves DEF IInv, Places
  <2>4. MoneyTyped' /\ charged'[k] > 0 /\ \A j \in Keys : charged[j] > 0 => charged'[j] > 0
    BY <2>1, <2>2, Values DEF IInv, MoneyTyped
  <2>5. Charges'
    <3>1. \A j \in Keys : j # k => charged'[j] = charged[j]
      BY <2>2, <2>1 DEF IInv, MoneyTyped
    <3>2. refunded \subseteq Keys
      BY DEF IInv, MoneyTyped
    <3> QED
      BY <2>1, <2>2, <2>4, <3>1, <3>2 DEF IInv, Charges, LowerRefunded
  <2>6. Sound(c)'
    BY <1>1, <2>1, <2>2, <2>3, <2>4 DEF Sound, HoldsKey, LowerRefunded
  <2>7. ASSUME NEW d \in Callers \ {c} PROVE Sound(d)'
    <3>1. clock' \in Nat /\ clock' >= clock /\ CallersTyped'
      BY <2>2, <2>3 DEF IInv, RowTyped, Mover
    <3> QED
      BY <3>1, <2>2, <2>3, <2>4, StaysSound DEF IInv, Mover, MoneyTyped
  <2> QED
    BY <1>1, <2>3, <2>4, <2>5, <2>6, <2>7 DEF IInv, Mover
<1> QED
  BY <1>2, <1>3

\* Refund keeps the invariant.
LEMMA RefundKeepsIInv ==
    ASSUME IInv, NEW c \in Callers, Refund(c)
    PROVE  IInv'
<1> DEFINE k == key[c]
<1>1. RowTyped' /\ Sound(c) /\ pc[c] = "refund" /\ Done(c)
  BY DEF Refund, IInv, RowTyped, row
<1>2. k \in Keys /\ charged[k] > 0
  BY <1>1 DEF Sound, HoldsKey
<1>3. Mover(c) /\ pc'[c] = "idle"
  BY <1>1, DoneMoves DEF IInv
<1>4. UNCHANGED <<clock, charged, revoked>> /\ refunded' = refunded \cup {k}
  BY DEF Refund
<1>5. MoneyTyped'
  BY <1>2, <1>4, Values DEF IInv, MoneyTyped, Refund
<1>6. Charges'
  BY <1>2, <1>4 DEF IInv, Charges, LowerRefunded
<1>7. ASSUME NEW d \in Callers \ {c} PROVE Sound(d)'
  <2>1. clock' \in Nat /\ clock' >= clock /\ CallersTyped'
    BY <1>3, <1>4 DEF IInv, RowTyped, Mover
  <2> QED
    BY <1>3, <1>4, <1>5, <2>1, StaysSound DEF IInv, Mover, MoneyTyped
<1>8. Sound(c)'
  BY <1>3 DEF Sound, HoldsKey
<1> QED
  BY <1>1, <1>3, <1>5, <1>6, <1>7, <1>8 DEF IInv, Mover

\* Steps around the charge.
LEMMA ChargingKeepsIInv ==
    ASSUME IInv, NEW c \in Callers,
           FindCharge(c) \/ DebitRefused(c) \/ MarkPastDue(c) \/ Extend(c) \/ ExtendRefused(c)
             \/ WhyStopped(c)
    PROVE  IInv'
<1> USE DEF Places, HoldsKey
<1>1. Sound(c)
  BY DEF IInv
<1>2. CASE FindCharge(c)
  <2>1. RowTyped'
    BY <1>2 DEF FindCharge, IInv, RowTyped, row
  <2> QED
    BY <1>2, <2>1, OnKeepsIInv DEF FindCharge
<1>3. CASE DebitRefused(c)
  <2>1. RowTyped'
    BY <1>3 DEF DebitRefused, IInv, RowTyped, row
  <2> QED
    BY <1>3, <2>1, OnKeepsIInv, DoneKeepsIInv DEF DebitRefused
<1>4. CASE MarkPastDue(c)
  <2>1. RowTyped'
    BY <1>4 DEF MarkPastDue, IInv, RowTyped, Statuses
  <2> QED
    BY <1>4, <2>1, DoneKeepsIInv DEF MarkPastDue
<1>5. CASE Extend(c)
  <2>1. RowTyped'
    BY <1>1, <1>5, Values DEF Extend, AfterExtend, IInv, RowTyped, Sound, Periods, Statuses
  <2> QED
    BY <1>1, <1>5, <2>1, OnKeepsIInv, DoneKeepsIInv DEF Extend, Paid
<1>6. CASE ExtendRefused(c)
  <2>1. RowTyped'
    BY <1>6 DEF ExtendRefused, IInv, RowTyped, row
  <2> QED
    BY <1>1, <1>6, <2>1, OnKeepsIInv DEF ExtendRefused, Sound
<1>7. CASE WhyStopped(c)
  <2>1. RowTyped'
    BY <1>7 DEF WhyStopped, IInv, RowTyped, row
  <2> QED
    BY <1>1, <1>7, <2>1, OnKeepsIInv, DoneKeepsIInv DEF WhyStopped, Paid, Sound
<1> QED
  BY <1>2, <1>3, <1>4, <1>5, <1>6, <1>7

-----------------------------------------------------------------------------
(* The server and the writes.                                              *)

\* ReadSuspended keeps the invariant.
LEMMA ReadSuspendedKeepsIInv ==
    ASSUME IInv, NEW c \in Callers, ReadSuspended(c)
    PROVE  IInv'
<1>1. RowTyped'
  BY DEF ReadSuspended, IInv, RowTyped, row
<1>2. CASE status = "SUSPENDED"
  <2>1. Row \in [status: Statuses \cup {"none"}, periodEnd: 0 .. MaxPeriod, introLeft: Int]
    BY Values DEF Row, IInv, RowTyped, Periods
  <2>2. /\ pc' = [pc EXCEPT ![c] = "on"] /\ seen' = [seen EXCEPT ![c] = Row]
        /\ UNCHANGED <<op, key>>
    BY <1>2 DEF ReadSuspended, Goto
  <2>3. Mover(c) /\ pc'[c] = "on" /\ seen'[c] = Row
    BY <2>1, <2>2 DEF IInv, CallersTyped, Mover, Places
  <2>4. Sound(c)'
    BY <2>3 DEF Sound, HoldsKey, Row, IInv, RowTyped
  <2> QED
    BY <1>1, <2>3, <2>4, MoverKeepsIInv DEF ReadSuspended
<1>3. CASE status # "SUSPENDED"
  BY <1>1, <1>3, DoneKeepsIInv DEF ReadSuspended
<1> QED
  BY <1>2, <1>3

\* Calls to the node and the writes after them.
LEMMA WritingKeepsIInv ==
    ASSUME IInv, NEW c \in Callers,
           \/ Reactivate(c) \/ WriteSuspended(c) \/ WriteCanceled(c) \/ WriteCancelAt(c)
           \/ ServerOn(c) \/ ServerOff(c) \/ ServerFails(c) \/ Die(c)
    PROVE  IInv'
<1> USE DEF Places, HoldsKey
<1>1. Sound(c)
  BY DEF IInv
<1>2. CASE Reactivate(c)
  <2>1. RowTyped'
    BY <1>1, <1>2 DEF Reactivate, IInv, RowTyped, Sound, Statuses
  <2> QED
    BY <1>2, <2>1, DoneKeepsIInv DEF Reactivate
<1>3. CASE WriteSuspended(c)
  <2>1. RowTyped'
    BY <1>3 DEF WriteSuspended, IInv, RowTyped, Statuses
  <2> QED
    BY <1>3, <2>1, DoneKeepsIInv DEF WriteSuspended
<1>4. CASE WriteCanceled(c)
  <2>1. RowTyped'
    BY <1>4 DEF WriteCanceled, IInv, RowTyped, Statuses
  <2> QED
    BY <1>4, <2>1, DoneKeepsIInv DEF WriteCanceled
<1>5. CASE WriteCancelAt(c)
  <2>1. RowTyped'
    BY <1>5, Values DEF WriteCancelAt, IInv, RowTyped, Periods
  <2> QED
    BY <1>5, <2>1, DoneKeepsIInv DEF WriteCancelAt
<1>6. CASE ServerOn(c) \/ ServerOff(c)
  <2>1. RowTyped'
    BY <1>6 DEF ServerOn, ServerOff, IInv, RowTyped, row
  <2> QED
    BY <1>6, <2>1, OnKeepsIInv DEF ServerOn, ServerOff
<1>7. CASE ServerFails(c)
  <2>1. RowTyped'
    BY <1>7 DEF ServerFails, IInv, RowTyped, row
  <2> QED
    BY <1>7, <2>1, OnKeepsIInv, DoneKeepsIInv DEF ServerFails
<1>8. CASE Die(c)
  <2>1. RowTyped'
    BY <1>8 DEF Die, IInv, RowTyped, row
  <2> QED
    BY <1>8, <2>1, DoneKeepsIInv DEF Die
<1> QED
  BY <1>2, <1>3, <1>4, <1>5, <1>6, <1>7, <1>8

\* What is not a step of a caller.
LEMMA SystemStepKeepsIInv ==
    ASSUME IInv,
           SuspendAgain \/ PostponeCancel \/ Uncancel \/ Expire \/ TopUp \/ OtherCharge \/ Tick
    PROVE  IInv'
<1>0. wallet \in Nat /\ FullPrice \in Nat /\ revoked \subseteq Keys /\ clock >= clock
  BY Values DEF IInv, MoneyTyped, RowTyped
<1>1. CASE SuspendAgain
  <2>1. RowTyped'
    BY <1>1 DEF SuspendAgain, IInv, RowTyped
  <2> QED
    BY <1>0, <1>1, <2>1, SystemKeepsIInv DEF SuspendAgain, money
<1>2. CASE PostponeCancel
  <2>1. RowTyped'
    BY <1>2, Values DEF PostponeCancel, IInv, RowTyped, Periods
  <2> QED
    BY <1>0, <1>2, <2>1, SystemKeepsIInv DEF PostponeCancel, money
<1>3. CASE Uncancel
  <2>1. RowTyped'
    BY <1>3 DEF Uncancel, IInv, RowTyped
  <2>2. \A c \in Callers : pc[c] = "refund" \/ key[c] \in refunded => key[c] \in Keys
    BY DEF IInv, Sound, HoldsKey, MoneyTyped
  <2>3. revoked' \subseteq Keys
    BY <1>0, <1>3, <2>2 DEF Uncancel
  <2> QED
    BY <1>0, <1>3, <2>1, <2>3, SystemKeepsIInv DEF Uncancel
<1>4. CASE Expire
  <2>1. RowTyped'
    BY <1>4 DEF Expire, IInv, RowTyped, Statuses
  <2> QED
    BY <1>0, <1>4, <2>1, SystemKeepsIInv DEF Expire, money
<1>5. CASE TopUp \/ OtherCharge
  <2>1. RowTyped'
    BY <1>5 DEF TopUp, OtherCharge, IInv, RowTyped, row
  <2> QED
    BY <1>0, <1>5, <2>1, SystemKeepsIInv DEF TopUp, OtherCharge
<1>6. CASE Tick
  <2>1. RowTyped'
    BY <1>6, Values DEF Tick, IInv, RowTyped, row
  <2> QED
    BY <1>0, <1>6, <2>1, SystemKeepsIInv DEF Tick, money, IInv, RowTyped
<1> QED
  BY <1>1, <1>2, <1>3, <1>4, <1>5, <1>6

\* One step.
LEMMA NextKeepsIInv == IInv /\ [Next]_vars => IInv'
<1> SUFFICES ASSUME IInv, [Next]_vars PROVE IInv'
  OBVIOUS
<1>1. ASSUME NEW c \in Callers, Begin(c) \/ Work(c) \/ ServerFails(c) \/ Die(c)
      PROVE  IInv'
  BY <1>1, BeginKeepsIInv, PickKeyKeepsIInv, DebitKeepsIInv, RefundKeepsIInv,
     ChargingKeepsIInv, ReadSuspendedKeepsIInv, WritingKeepsIInv DEF Work
<1>2. CASE UNCHANGED vars
  BY <1>2
     DEF vars, row, money, caller, IInv, CallersTyped, RowTyped, MoneyTyped, Charges,
         Sound, LowerRefunded, InWindow
<1> QED
  BY <1>1, <1>2, SystemStepKeepsIInv DEF Next

\* The first layer holds throughout.
LEMMA Invariant == Spec => []IInv
BY InitIInv, NextKeepsIInv, PTL DEF Spec

-----------------------------------------------------------------------------
(* What follows from the first invariant.                                  *)

\* One period is charged for once, whatever passes, "pay now", cancellations,
\* suspensions and deaths do to it (renewal.scheduler.ts:317-350).
THEOREM PeriodIsChargedOnce == Spec => []ChargedOnce
<1>1. IInv => ChargedOnce
  <2> SUFFICES ASSUME IInv, NEW p \in Periods PROVE Cardinality(Kept(p)) <= 1
    BY DEF ChargedOnce
  <2>1. ASSUME NEW j \in Kept(p), NEW k \in Kept(p) PROVE j = k
    <3>1. /\ j \in Keys /\ k \in Keys /\ LowerRefunded(j) /\ LowerRefunded(k)
          /\ j = <<p, j[2]>> /\ k = <<p, k[2]>> /\ j \notin refunded /\ k \notin refunded
          /\ j[2] \in Nat /\ k[2] \in Nat
      BY Values DEF Kept, IInv, Charges
    <3>2. ~(j[2] < k[2]) /\ ~(k[2] < j[2])
      BY <3>1 DEF LowerRefunded
    <3> QED
      BY <3>1, <3>2
  <2>2. CASE Kept(p) = {}
    BY <2>2, FS_EmptySet
  <2>3. ASSUME NEW k \in Kept(p) PROVE Cardinality(Kept(p)) <= 1
    <3>1. Kept(p) = {k}
      BY <2>1
    <3>2. Cardinality({k}) = 1
      BY FS_Singleton
    <3> QED
      BY <3>1, <3>2
  <2> QED
    BY <2>2, <2>3
<1> QED
  BY <1>1, Invariant, PTL

\* A pass that was refused and is late does not mark what is paid beyond the next
\* day (markPastDue, renewal.scheduler.ts:392-404).
THEOREM OnlyDueFallsBehind == Spec => FallsBehindOnlyUnpaid
<1>1. IInv /\ [Next]_vars => [status # "PAST_DUE" /\ status' = "PAST_DUE" => InWindow(periodEnd)]_vars
  <2> SUFFICES ASSUME IInv, Next, status # "PAST_DUE", status' = "PAST_DUE"
               PROVE  InWindow(periodEnd)
    OBVIOUS
  <2>1. PICK c \in Callers : MarkPastDue(c)
    BY DEF Next, Begin, Work, BeginRenew, BeginPay, BeginRestore, BeginGrace, BeginSuspend,
           BeginUnsuspend, BeginCancel, BeginEnd, BeginFinalize, PickKey, FindCharge, Debit,
           DebitRefused, Extend, ExtendRefused, WhyStopped, Refund, ReadSuspended, ServerOn,
           Reactivate, ServerOff, WriteSuspended, WriteCanceled, WriteCancelAt, ServerFails,
           Die, SuspendAgain, PostponeCancel, Uncancel, Expire, TopUp, OtherCharge, Tick, row
  <2> QED
    BY <2>1 DEF MarkPastDue, StillOwed, IInv, Sound
<1> QED
  BY <1>1, Invariant, PTL DEF Spec, FallsBehindOnlyUnpaid

-----------------------------------------------------------------------------
(* The promise of the wallet.                                              *)

\* A movement by delta under the key k is one the wallet promises.
LEMMA OneMovement ==
    ASSUME IInv, NEW k, NEW delta \in Int,
           [user |-> Customer, key |-> k, delta |-> delta] \in Movements,
           k \notin BookedKeys, wallet + delta >= 0, wallet' = wallet + delta,
           BookedKeys' = BookedKeys \cup ({k} \ {Unkeyed})
    PROVE  Wallet!PromiseNext
<1> DEFINE m == [user |-> Customer, key |-> k, delta |-> delta]
<1>1. [u \in {Customer} |-> wallet'] = [[u \in {Customer} |-> wallet] EXCEPT ![Customer] = @ + delta]
  BY DEF IInv
<1>2. Wallet!Move(m)
  BY <1>1 DEF Wallet!Move
<1> QED
  BY <1>2 DEF Wallet!PromiseNext

\* A debit is a movement of the wallet, or meets its own key.
LEMMA DebitIsMovement ==
    ASSUME IInv, NEW c \in Callers, Debit(c)
    PROVE  Wallet!PromiseNext \/ UNCHANGED <<wallet, charged, refunded>>
<1> DEFINE k == key[c]  a == Price(seen[c])
<1>1. CASE charged[k] > 0
  BY <1>1 DEF Debit, money
<1>2. CASE ~(charged[k] > 0)
  <2>1. k \in Keys /\ a \in {IntroPrice, FullPrice}
    BY DEF IInv, Sound, HoldsKey, Debit, Price
  <2>2. /\ wallet >= a /\ wallet' = wallet - a /\ charged' = [charged EXCEPT ![k] = a]
        /\ refunded' = refunded
    BY <1>2 DEF Debit
  <2>3. [user |-> Customer, key |-> <<"charge", k>>, delta |-> -a] \in Movements
    BY <2>1 DEF Movements
  <2>4. <<"charge", k>> \notin BookedKeys
    BY <1>2 DEF BookedKeys
  <2>5. \A j \in Keys : charged'[j] > 0 <=> charged[j] > 0 \/ j = k
    BY <2>1, <2>2, Values DEF IInv, MoneyTyped
  <2>6. BookedKeys' = BookedKeys \cup ({<<"charge", k>>} \ {Unkeyed})
    <3>1. {j \in Keys : charged'[j] > 0} = {j \in Keys : charged[j] > 0} \cup {k}
      BY <2>1, <2>5
    <3>2. <<"charge", k>> # Unkeyed
      BY DEF Unkeyed
    <3> QED
      BY <2>2, <3>1, <3>2 DEF BookedKeys
  <2>7. wallet \in Nat /\ a \in Nat /\ -a \in Int /\ wallet + (-a) >= 0 /\ wallet' = wallet + (-a)
    BY <2>1, <2>2, Values DEF IInv, MoneyTyped
  <2> QED
    BY <2>3, <2>4, <2>6, <2>7, OneMovement
<1> QED
  BY <1>1, <1>2

\* So is a refund.
LEMMA RefundIsMovement ==
    ASSUME IInv, NEW c \in Callers, Refund(c)
    PROVE  Wallet!PromiseNext \/ UNCHANGED <<wallet, charged, refunded>>
<1> DEFINE k == key[c]  a == charged[k]
<1>1. k \in Keys /\ a \in {IntroPrice, FullPrice} /\ charged' = charged
  BY Values DEF IInv, Sound, HoldsKey, Refund, MoneyTyped
<1>2. CASE k \in refunded
  BY <1>2 DEF Refund, RefundDue
<1>3. CASE k \notin refunded
  <2>1. wallet' = wallet + a /\ refunded' = refunded \cup {k}
    BY <1>1, <1>3, Values DEF Refund, RefundDue
  <2>2. [user |-> Customer, key |-> <<"zwrot", k>>, delta |-> a] \in Movements
    BY <1>1 DEF Movements
  <2>3. <<"zwrot", k>> \notin BookedKeys
    BY <1>3 DEF BookedKeys
  <2>4. BookedKeys' = BookedKeys \cup ({<<"zwrot", k>>} \ {Unkeyed})
    <3>1. <<"zwrot", k>> # Unkeyed
      BY DEF Unkeyed
    <3> QED
      BY <1>1, <2>1, <3>1 DEF BookedKeys
  <2>5. a \in Int /\ wallet + a >= 0
    BY <1>1, Values DEF IInv, MoneyTyped
  <2> QED
    BY <2>1, <2>2, <2>3, <2>4, <2>5, OneMovement
<1> QED
  BY <1>2, <1>3

\* What goes on in the wallet beside the service are movements of it.
LEMMA OtherMovement ==
    ASSUME IInv, TopUp \/ OtherCharge
    PROVE  Wallet!PromiseNext
<1>1. Unkeyed \notin BookedKeys /\ BookedKeys' = BookedKeys
  BY DEF Unkeyed, BookedKeys, TopUp, OtherCharge
<1>2. CASE TopUp
  <2>1. [user |-> Customer, key |-> Unkeyed, delta |-> FullPrice] \in Movements
    BY DEF Movements
  <2>2. FullPrice \in Int /\ wallet + FullPrice >= 0 /\ wallet' = wallet + FullPrice
    BY <1>2, Values DEF TopUp, IInv, MoneyTyped
  <2> QED
    BY <1>1, <2>1, <2>2, OneMovement
<1>3. CASE OtherCharge
  <2>1. [user |-> Customer, key |-> Unkeyed, delta |-> -FullPrice] \in Movements
    BY DEF Movements
  <2>2. /\ -FullPrice \in Int /\ wallet + (-FullPrice) >= 0
        /\ wallet' = wallet + (-FullPrice)
    BY <1>3, Values DEF OtherCharge, IInv, MoneyTyped
  <2> QED
    BY <1>1, <2>1, <2>2, OneMovement
<1> QED
  BY <1>2, <1>3

\* Every step is a movement of the wallet or leaves it alone.
LEMMA PromiseStep ==
    IInv /\ [Next]_vars =>
      [Wallet!PromiseNext]_<<[u \in {Customer} |-> wallet], BookedKeys>>
<1> SUFFICES ASSUME IInv, [Next]_vars
             PROVE  Wallet!PromiseNext \/ UNCHANGED <<wallet, charged, refunded>>
  BY DEF BookedKeys
<1>1. ASSUME NEW c \in Callers, Begin(c) \/ ServerFails(c) \/ Die(c)
      PROVE  UNCHANGED <<wallet, charged, refunded>>
  BY <1>1 DEF Begin, BeginRenew, BeginPay, BeginRestore, BeginGrace, BeginSuspend,
              BeginUnsuspend, BeginCancel, BeginEnd, BeginFinalize, ServerFails, Die, money
<1>2. ASSUME NEW c \in Callers, Work(c), ~Debit(c), ~Refund(c)
      PROVE  UNCHANGED <<wallet, charged, refunded>>
  BY <1>2 DEF Work, PickKey, FindCharge, DebitRefused, MarkPastDue, Extend, ExtendRefused,
              WhyStopped, ReadSuspended, ServerOn, Reactivate, ServerOff, WriteSuspended,
              WriteCanceled, WriteCancelAt, money
<1>3. ASSUME SuspendAgain \/ PostponeCancel \/ Uncancel \/ Expire \/ Tick \/ UNCHANGED vars
      PROVE  UNCHANGED <<wallet, charged, refunded>>
  BY <1>3 DEF SuspendAgain, PostponeCancel, Uncancel, Expire, Tick, vars, money
<1> QED
  BY <1>1, <1>2, <1>3, DebitIsMovement, RefundIsMovement, OtherMovement DEF Next

\* The renewal implements the promise of the wallet: a charge and its refund
\* happen once (renewal.scheduler.ts:317-350, wallet-ledger.service.ts).
THEOREM MovedOnce == Spec => KeepsPromise
<1>1. Init => Wallet!PromiseInit
  BY Values DEF Init, Wallet!PromiseInit, BookedKeys
<1> QED
  BY <1>1, PromiseStep, Invariant, PTL DEF Spec, KeepsPromise, Wallet!Promise, Wallet!promiseVars

-----------------------------------------------------------------------------
(* The second invariant: what was paid for, if nobody suspends.            *)

\* unsuspend writes back the period it read, so what follows is proved for a
\* service that is neither suspended by the grace pass nor by staff.
NoSuspension == Operations \cap {"grace", "suspend"} = {}

\* What is left of the discount at the start of period p, and its price.
Left(p) == IF p - 1 < IntroPeriods THEN IntroPeriods - (p - 1) ELSE 0
PriceOf(p) == IF Left(p) > 0 THEN IntroPrice ELSE FullPrice

\* The discount that is left at a period is within what was granted.
LEMMA LeftBounds == \A p \in Periods : Left(p) \in 0 .. IntroPeriods
  BY Values DEF Left, Periods

\* What a caller read is no later than the row, and what it holds of a canceled
\* period does not extend the service.
Fits(c) ==
    /\ op[c] \notin {"grace", "suspend"}
    /\ pc[c] \notin {"unsuspend", "on", "reactivate"}
    /\ seen[c].status # "SUSPENDED" /\ seen[c].introLeft \in 0 .. IntroPeriods
    /\ pc[c] # "idle" => seen[c].periodEnd <= periodEnd /\ seen[c].introLeft = Left(seen[c].periodEnd)
    /\ pc[c] = "refund" => key[c] \in revoked \/ (cancelAt # Never /\ periodEnd = key[c][1])
    /\ key[c] \in refunded \ revoked => cancelAt # Never \/ periodEnd # key[c][1]

RightCharge(k) == charged[k] > 0 => charged[k] = PriceOf(k[1]) /\ k[1] <= periodEnd

\* The inductive invariant of the second part.
PaidInv ==
    /\ IInv
    /\ status # "SUSPENDED"
    /\ introLeft = Left(periodEnd)
    /\ \A k \in Keys : RightCharge(k)
    /\ \A k \in revoked : charged[k] > 0
    /\ \A c \in Callers : Fits(c)
    /\ PeriodsArePaid

\* Nothing another caller does makes c unfit, as long as the period moves on, and
\* only when it is not canceled.
LEMMA StaysFit ==
    ASSUME PaidInv, NEW d \in Callers, periodEnd' \in Periods, periodEnd' >= periodEnd,
           pc'[d] = pc[d], op'[d] = op[d], seen'[d] = seen[d], key'[d] = key[d],
           refunded' = refunded, revoked \subseteq revoked',
           cancelAt # Never => cancelAt' # Never /\ periodEnd' = periodEnd
    PROVE  Fits(d)'
<1>1. Fits(d) /\ Sound(d)
  BY DEF PaidInv, IInv
<1>2. periodEnd \in Int /\ seen[d].periodEnd \in Int /\ periodEnd' \in Int
  BY Values DEF PaidInv, IInv, RowTyped, CallersTyped, Periods
<1>3. key[d] \in refunded => key[d][1] \in Int /\ key[d][1] <= periodEnd
  BY Values DEF PaidInv, IInv, MoneyTyped, Charges, RightCharge, Periods
<1>4. Left(seen[d].periodEnd)' = Left(seen[d].periodEnd)
  BY DEF Left
<1> QED
  BY <1>1, <1>2, <1>3, <1>4 DEF Fits

\* A step of c that leaves period, discount and money alone.
LEMMA MoverKeepsPaidInv ==
    ASSUME PaidInv, IInv', NEW c \in Callers, Mover(c), Fits(c)', status' # "SUSPENDED",
           UNCHANGED <<periodEnd, introLeft, money>>, cancelAt # Never => cancelAt' # Never
    PROVE  PaidInv'
<1>1. ASSUME NEW d \in Callers \ {c} PROVE Fits(d)'
  <2>1. periodEnd' \in Periods /\ periodEnd' >= periodEnd
    BY Values DEF PaidInv, IInv, RowTyped, Periods
  <2> QED
    BY <2>1, StaysFit DEF Mover, money
<1>2. PeriodsArePaid'
  BY DEF PaidInv, PeriodsArePaid, Bought, Kept, money
<1>3. ASSUME NEW k \in Keys PROVE RightCharge(k)'
  BY DEF PaidInv, RightCharge, PriceOf, Left, money
<1> QED
  BY <1>1, <1>2, <1>3 DEF PaidInv, Left, money

\* Who is done fits.
LEMMA DoneFits ==
    ASSUME IInv, NEW c \in Callers, Done(c), refunded' \subseteq Keys
    PROVE  Mover(c) /\ Fits(c)'
<1>1. Mover(c) /\ pc'[c] = "idle" /\ op'[c] = "none" /\ seen'[c] = NoRow /\ key'[c] = NoKey
  BY DoneMoves DEF IInv
<1> QED
  BY <1>1, Values DEF Fits, NoRow

\* A caller stops.
LEMMA DoneKeepsPaidInv ==
    ASSUME PaidInv, IInv', NEW c \in Callers, Done(c), status' # "SUSPENDED",
           UNCHANGED <<periodEnd, introLeft, money>>, cancelAt # Never => cancelAt' # Never
    PROVE  PaidInv'
<1>1. refunded' \subseteq Keys
  BY DEF IInv, MoneyTyped
<1> QED
  BY <1>1, DoneFits, MoverKeepsPaidInv DEF PaidInv

\* A caller goes on.
LEMMA OnKeepsPaidInv ==
    ASSUME PaidInv, IInv', NEW c \in Callers, NEW p \in Places \ {"unsuspend", "on", "reactivate"},
           Moves(c, p), pc[c] # "idle", UNCHANGED <<row, money>>,
           p = "refund" => cancelAt # Never /\ periodEnd = key[c][1]
    PROVE  PaidInv'
<1>1. /\ Mover(c) /\ pc'[c] = p
      /\ op'[c] = op[c] /\ seen'[c] = seen[c] /\ key'[c] = key[c]
  BY MovesMoves DEF PaidInv, IInv
<1>2. Fits(c) /\ status # "SUSPENDED"
  BY DEF PaidInv
<1>3. Fits(c)'
  BY <1>1, <1>2 DEF Fits, Left, row, money
<1> QED
  BY <1>1, <1>2, <1>3, MoverKeepsPaidInv DEF row

\* A caller begins.
LEMMA BegunKeepsPaidInv ==
    ASSUME PaidInv, IInv', NoSuspension, NEW c \in Callers, NEW o \in AllOperations,
           NEW p \in Places \ {"unsuspend", "on", "reactivate", "refund"},
           Begun(c, o, p), UNCHANGED <<row, money>>
    PROVE  PaidInv'
<1>1. /\ Mover(c) /\ pc'[c] = p /\ op'[c] = o /\ o \in Operations
      /\ seen'[c] = Row /\ key'[c] = key[c]
  BY BegunMoves DEF PaidInv, IInv
<1>2. /\ Fits(c) /\ status # "SUSPENDED" /\ introLeft = Left(periodEnd) /\ periodEnd \in Int
      /\ introLeft \in 0 .. IntroPeriods
  BY Values, LeftBounds DEF PaidInv, IInv, RowTyped, Periods
<1>3. Fits(c)'
  BY <1>1, <1>2 DEF Fits, Row, NoSuspension, Left, row, money
<1> QED
  BY <1>1, <1>2, <1>3, MoverKeepsPaidInv DEF row

\* Begin keeps the second layer.
LEMMA BeginKeepsPaidInv ==
    ASSUME PaidInv, IInv', NoSuspension, NEW c \in Callers, Begin(c)
    PROVE  PaidInv'
<1> USE BegunKeepsPaidInv DEF AllOperations, Places
<1>0. status # "SUSPENDED"
  BY DEF PaidInv
<1>1. CASE BeginRenew(c)
  BY <1>1 DEF BeginRenew
<1>2. CASE BeginPay(c)
  BY <1>0, <1>2 DEF BeginPay, FirstPlace
<1>3. CASE BeginGrace(c) \/ BeginSuspend(c)
  BY <1>3 DEF BeginGrace, BeginSuspend, Begun, NoSuspension
<1>4. CASE BeginRestore(c) \/ BeginUnsuspend(c)
  BY <1>0, <1>4 DEF BeginRestore, BeginUnsuspend
<1>5. CASE BeginCancel(c)
  BY <1>5 DEF BeginCancel
<1>6. CASE BeginEnd(c)
  BY <1>6 DEF BeginEnd, FirstOff
<1>7. CASE BeginFinalize(c)
  BY <1>7 DEF BeginFinalize, FirstOff
<1> QED
  BY <1>1, <1>2, <1>3, <1>4, <1>5, <1>6, <1>7 DEF Begin

\* PickKey keeps the second layer.
LEMMA PickKeyKeepsPaidInv ==
    ASSUME PaidInv, IInv', NEW c \in Callers, PickKey(c)
    PROVE  PaidInv'
<1>1. PICK k \in RenewalKeys(seen[c].periodEnd) : key' = [key EXCEPT ![c] = k]
  BY DEF PickKey
<1>2. k \in Keys /\ k \notin refunded
  BY DEF RenewalKeys
<1>3. /\ Mover(c) /\ pc'[c] = "find" /\ seen'[c] = seen[c] /\ key'[c] = k /\ op'[c] = op[c]
  BY <1>1, <1>2 DEF PickKey, Goto, PaidInv, IInv, CallersTyped, Mover, Places
<1>4. Fits(c) /\ pc[c] = "key" /\ status # "SUSPENDED"
  BY DEF PaidInv, PickKey
<1>5. Fits(c)'
  BY <1>2, <1>3, <1>4 DEF PickKey, Fits, Left, row, money
<1> QED
  BY <1>3, <1>4, <1>5, MoverKeepsPaidInv DEF PickKey, row

\* A charge is of the period its caller read, at the price of that period.
LEMMA DebitKeepsPaidInv ==
    ASSUME PaidInv, IInv', NEW c \in Callers, Debit(c)
    PROVE  PaidInv'
<1> DEFINE k == key[c]
<1>1. Sound(c) /\ Fits(c) /\ pc[c] = "debit" /\ Moves(c, "extend") /\ UNCHANGED row
  BY DEF Debit, PaidInv, IInv
<1>2. CASE charged[k] > 0
  BY <1>1, <1>2, OnKeepsPaidInv DEF Debit, Places
<1>3. CASE ~(charged[k] > 0)
  <2>1. /\ k \in Keys /\ k[1] = seen[c].periodEnd /\ k[1] <= periodEnd
        /\ Price(seen[c]) = PriceOf(k[1])
    BY <1>1 DEF Sound, HoldsKey, Fits, Price, PriceOf
  <2>2. charged' = [charged EXCEPT ![k] = PriceOf(k[1])] /\ UNCHANGED <<refunded, revoked>>
    BY <1>3, <2>1 DEF Debit
  <2>3. /\ Mover(c) /\ pc'[c] = "extend"
        /\ op'[c] = op[c] /\ seen'[c] = seen[c] /\ key'[c] = k
    BY <1>1, MovesMoves DEF PaidInv, IInv, Places
  <2>4. /\ charged'[k] = PriceOf(k[1]) /\ charged'[k] > 0
        /\ \A j \in Keys : j # k => charged'[j] = charged[j]
    BY <2>1, <2>2, Values DEF PaidInv, IInv, MoneyTyped, PriceOf
  <2>5. Fits(c)'
    BY <1>1, <2>2, <2>3 DEF Fits, Left, row
  <2>6. ASSUME NEW d \in Callers \ {c} PROVE Fits(d)'
    <3>1. periodEnd' \in Periods /\ periodEnd' >= periodEnd
      BY <1>1, Values DEF PaidInv, IInv, RowTyped, Periods, row
    <3> QED
      BY <1>1, <2>2, <2>3, <3>1, StaysFit DEF Mover, row
  <2>7. ASSUME NEW j \in Keys PROVE RightCharge(j)'
    BY <1>1, <2>1, <2>4 DEF PaidInv, RightCharge, PriceOf, Left, row
  <2>8. PeriodsArePaid'
    <3>1. \A p \in Periods : Bought(p) \subseteq Bought(p)'
      BY <2>2, <2>4 DEF Bought, Kept
    <3>2. \A p \in 1 .. periodEnd - 1 : p \in Periods
      BY Values DEF PaidInv, IInv, RowTyped, Periods
    <3> QED
      BY <1>1, <3>1, <3>2 DEF PaidInv, PeriodsArePaid, row
  <2>9. \A j \in revoked' : charged'[j] > 0
    BY <2>2, <2>4 DEF PaidInv, IInv, MoneyTyped
  <2> QED
    BY <1>1, <2>5, <2>6, <2>7, <2>8, <2>9 DEF PaidInv, Left, row
<1> QED
  BY <1>2, <1>3

\* The caller that moves the period holds a charge of it that was not paid back,
\* or whose cancellation was revoked.
LEMMA ExtendKeepsPaidInv ==
    ASSUME PaidInv, IInv', NEW c \in Callers, Extend(c)
    PROVE  PaidInv'
<1> DEFINE k == key[c]
<1>1. /\ Sound(c) /\ Fits(c) /\ pc[c] = "extend" /\ UNCHANGED money
      /\ cancelAt = Never /\ cancelAt' = cancelAt
      /\ periodEnd = seen[c].periodEnd /\ periodEnd' = periodEnd + 1 /\ Done(c)
      /\ status' = "ACTIVE"
  BY DEF Extend, MayExtend, Paid, PaidInv, IInv, Fits
<1>2. /\ periodEnd \in Int /\ periodEnd' \in Int /\ periodEnd \in Periods /\ periodEnd' \in Periods
      /\ IntroPeriods \in Int
  BY Values DEF PaidInv, IInv, RowTyped, Periods
<1>3. introLeft' = Left(periodEnd)'
  <2>1. introLeft = Left(periodEnd) /\ seen[c].introLeft = Left(periodEnd)
    BY <1>1 DEF PaidInv, Fits
  <2>2. introLeft' = IF Left(periodEnd) > 0 THEN Left(periodEnd) - 1 ELSE Left(periodEnd)
    BY <2>1 DEF Extend, AfterExtend
  <2> QED
    BY <1>1, <1>2, <2>2 DEF Left
<1>4. Mover(c) /\ Fits(c)'
  <2>1. refunded' \subseteq Keys
    BY DEF IInv, MoneyTyped
  <2> QED
    BY <1>1, <2>1, DoneFits DEF PaidInv
<1>5. ASSUME NEW d \in Callers \ {c} PROVE Fits(d)'
  BY <1>1, <1>2, <1>4, StaysFit DEF Mover, money
<1>6. ASSUME NEW j \in Keys PROVE RightCharge(j)'
  BY <1>1, <1>2, Values DEF PaidInv, RightCharge, PriceOf, Left, money, Periods
<1>7. PeriodsArePaid'
  <2>1. k \in Keys /\ k[1] = periodEnd /\ charged[k] > 0 /\ (k \in refunded => k \in revoked)
    BY <1>1 DEF Sound, HoldsKey, Fits
  <2>2. k \in Bought(periodEnd)
    BY <2>1 DEF Bought, Kept
  <2>3. \A p \in 1 .. periodEnd : Bought(p) # {}
    BY <1>2, <2>2 DEF PaidInv, PeriodsArePaid
  <2>4. \A p : Bought(p)' = Bought(p)
    BY <1>1 DEF Bought, Kept, money
  <2> QED
    BY <1>1, <1>2, <2>3, <2>4 DEF PeriodsArePaid
<1> QED
  BY <1>1, <1>3, <1>4, <1>5, <1>6, <1>7 DEF PaidInv, money

\* What is paid back is a charge of the period that was canceled, or one whose
\* cancellation was revoked.
LEMMA RefundKeepsPaidInv ==
    ASSUME PaidInv, IInv', NEW c \in Callers, Refund(c)
    PROVE  PaidInv'
<1> DEFINE k == key[c]
<1>1. /\ Sound(c) /\ Fits(c) /\ pc[c] = "refund" /\ Done(c) /\ UNCHANGED <<row, charged, revoked>>
      /\ refunded' = refunded \cup {k}
  BY DEF Refund, PaidInv, IInv
<1>2. k \in Keys /\ (k \in revoked \/ (cancelAt # Never /\ periodEnd = k[1]))
  BY <1>1 DEF Sound, HoldsKey, Fits
<1>3. Mover(c) /\ Fits(c)'
  <2>1. refunded' \subseteq Keys
    BY DEF IInv, MoneyTyped
  <2> QED
    BY <1>1, <2>1, DoneFits DEF PaidInv
<1>4. ASSUME NEW d \in Callers \ {c} PROVE Fits(d)'
  <2>1. /\ pc'[d] = pc[d] /\ op'[d] = op[d] /\ seen'[d] = seen[d] /\ key'[d] = key[d] /\ Fits(d)
    BY <1>3 DEF Mover, PaidInv
  <2> QED
    BY <1>1, <1>2, <2>1 DEF Fits, Left, row
<1>5. ASSUME NEW j \in Keys PROVE RightCharge(j)'
  BY <1>1 DEF PaidInv, RightCharge, PriceOf, Left, row
<1>6. PeriodsArePaid'
  <2>1. ASSUME NEW p \in 1 .. periodEnd - 1 PROVE Bought(p)' # {}
    <3>1. PICK j \in Bought(p) : TRUE
      BY DEF PaidInv, PeriodsArePaid
    <3>2. periodEnd # p
      BY Values DEF PaidInv, IInv, RowTyped, Periods
    <3>3. j \in Bought(p)'
      BY <1>1, <1>2, <3>1, <3>2 DEF Bought, Kept
    <3> QED
      BY <3>3
  <2> QED
    BY <1>1, <2>1 DEF PeriodsArePaid, row
<1> QED
  BY <1>1, <1>3, <1>4, <1>5, <1>6 DEF PaidInv, Left, row

\* Steps of a caller that pay and extend nothing.
LEMMA OtherWorkKeepsPaidInv ==
    ASSUME PaidInv, IInv', NEW c \in Callers,
           \/ FindCharge(c) \/ DebitRefused(c) \/ MarkPastDue(c) \/ ExtendRefused(c) \/ WhyStopped(c)
           \/ ReadSuspended(c) \/ ServerOn(c) \/ Reactivate(c) \/ ServerOff(c)
           \/ WriteSuspended(c) \/ WriteCanceled(c) \/ WriteCancelAt(c)
           \/ ServerFails(c) \/ Die(c)
    PROVE  PaidInv'
<1> USE DEF Places
<1>0. Fits(c) /\ Sound(c) /\ status # "SUSPENDED"
  BY DEF PaidInv, IInv
<1>1. CASE FindCharge(c)
  BY <1>1, OnKeepsPaidInv DEF FindCharge
<1>2. CASE DebitRefused(c)
  BY <1>0, <1>2, OnKeepsPaidInv, DoneKeepsPaidInv DEF DebitRefused, row
<1>3. CASE MarkPastDue(c)
  BY <1>0, <1>3, DoneKeepsPaidInv DEF MarkPastDue
<1>4. CASE ExtendRefused(c)
  BY <1>4, OnKeepsPaidInv DEF ExtendRefused
<1>5. CASE WhyStopped(c)
  BY <1>0, <1>5, OnKeepsPaidInv, DoneKeepsPaidInv
     DEF WhyStopped, CanceledMeanwhile, Paid, Fits, Sound, HoldsKey, row
<1>6. CASE ReadSuspended(c) \/ ServerOn(c) \/ Reactivate(c) \/ WriteSuspended(c)
  BY <1>0, <1>6 DEF ReadSuspended, ServerOn, Reactivate, WriteSuspended, Fits
<1>7. CASE ServerOff(c)
  BY <1>7, OnKeepsPaidInv DEF ServerOff
<1>8. CASE WriteCanceled(c)
  <2>1. cancelAt' # Never
    BY <1>8 DEF WriteCanceled, PaidInv, IInv, RowTyped, Never
  <2> QED
    BY <1>8, <2>1, DoneKeepsPaidInv DEF WriteCanceled
<1>9. CASE WriteCancelAt(c)
  <2>1. 2 * periodEnd # Never
    BY Values DEF PaidInv, IInv, RowTyped, Periods, Never
  <2> QED
    BY <1>0, <1>9, <2>1, DoneKeepsPaidInv DEF WriteCancelAt
<1>10. CASE ServerFails(c)
  BY <1>0, <1>10, OnKeepsPaidInv, DoneKeepsPaidInv DEF ServerFails, row, Fits
<1>11. CASE Die(c)
  BY <1>0, <1>11, DoneKeepsPaidInv DEF Die, row
<1> QED
  BY <1>1, <1>2, <1>3, <1>4, <1>5, <1>6, <1>7, <1>8, <1>9, <1>10, <1>11

\* What is not a step of a caller.
LEMMA SystemStepKeepsPaidInv ==
    ASSUME PaidInv, IInv',
           SuspendAgain \/ PostponeCancel \/ Uncancel \/ Expire \/ TopUp \/ OtherCharge \/ Tick
             \/ UNCHANGED vars
    PROVE  PaidInv'
<1>0. status # "SUSPENDED" /\ periodEnd \in Periods /\ periodEnd >= periodEnd /\ 2 * periodEnd # Never
  BY Values DEF PaidInv, IInv, RowTyped, Periods, Never
<1>1. /\ UNCHANGED <<status, periodEnd, introLeft, charged, refunded, caller>>
      /\ revoked \subseteq revoked' /\ (cancelAt # Never => cancelAt' # Never \/ Uncancel)
  BY <1>0 DEF SuspendAgain, PostponeCancel, Uncancel, Expire, TopUp, OtherCharge, Tick,
              vars, row, money
<1>2. ASSUME NEW d \in Callers PROVE Fits(d)'
  <2>1. CASE Uncancel
    <3>1. pc[d] = "refund" \/ key[d] \in refunded => key[d] \in revoked'
      BY <2>1 DEF Uncancel
    <3> QED
      BY <1>1, <3>1 DEF PaidInv, Fits, Left, caller
  <2>2. CASE ~Uncancel
    BY <1>0, <1>1, <2>2, StaysFit DEF caller
  <2> QED
    BY <2>1, <2>2
<1>3. \A k \in revoked' : charged'[k] > 0
  <2>1. \A d \in Callers : pc[d] = "refund" \/ key[d] \in refunded => charged[key[d]] > 0
    BY DEF PaidInv, IInv, Sound, Charges
  <2>2. CASE Uncancel
    BY <1>1, <2>1, <2>2 DEF Uncancel, PaidInv
  <2>3. CASE ~Uncancel
    <3>1. revoked' = revoked
      BY <2>3 DEF SuspendAgain, PostponeCancel, Expire, TopUp, OtherCharge, Tick, vars, money
    <3> QED
      BY <1>1, <3>1 DEF PaidInv
  <2> QED
    BY <2>2, <2>3
<1>4. PeriodsArePaid'
  BY <1>1 DEF PaidInv, PeriodsArePaid, Bought, Kept
<1>5. ASSUME NEW k \in Keys PROVE RightCharge(k)'
  BY <1>1 DEF PaidInv, RightCharge, PriceOf, Left
<1> QED
  BY <1>0, <1>1, <1>2, <1>3, <1>4, <1>5 DEF PaidInv, Left

\* One step.
LEMMA NextKeepsPaidInv == PaidInv /\ NoSuspension /\ [Next]_vars => PaidInv'
<1> SUFFICES ASSUME PaidInv, NoSuspension, [Next]_vars PROVE PaidInv'
  OBVIOUS
<1>1. IInv'
  BY NextKeepsIInv DEF PaidInv
<1>2. ASSUME NEW c \in Callers, Begin(c) \/ Work(c) \/ ServerFails(c) \/ Die(c)
      PROVE  PaidInv'
  BY <1>1, <1>2, BeginKeepsPaidInv, PickKeyKeepsPaidInv, DebitKeepsPaidInv, ExtendKeepsPaidInv,
     RefundKeepsPaidInv, OtherWorkKeepsPaidInv DEF Work
<1> QED
  BY <1>1, <1>2, SystemStepKeepsPaidInv DEF Next

\* The second layer at the start.
LEMMA InitPaidInv == Init => PaidInv
<1> SUFFICES ASSUME Init PROVE PaidInv
  OBVIOUS
<1>1. introLeft = Left(periodEnd)
  BY Values DEF Init, Left
<1>2. \A c \in Callers : Fits(c)
  BY Values DEF Init, Fits, NoRow
<1>3. PeriodsArePaid
  BY DEF Init, PeriodsArePaid
<1>4. \A k \in Keys : RightCharge(k)
  BY DEF Init, RightCharge
<1> QED
  BY <1>1, <1>2, <1>3, <1>4, InitIInv DEF Init, PaidInv

\* The second layer holds throughout, while nobody suspends.
LEMMA PaidInvariant ==
    ASSUME NoSuspension
    PROVE  Spec => []PaidInv
<1>1. PaidInv /\ [Next]_vars => PaidInv'
  BY NextKeepsPaidInv, NoSuspension
<1> QED
  BY <1>1, InitPaidInv, PTL DEF Spec

-----------------------------------------------------------------------------
(* What follows from the second invariant.                                 *)

\* A period the service moved into was paid for and stays so, as long as nobody
\* suspends it (renewal.scheduler.ts:317-350, :369).
THEOREM EveryPeriodIsPaid ==
    ASSUME NoSuspension
    PROVE  Spec => []PeriodsArePaid
<1>1. PaidInv => PeriodsArePaid
  BY DEF PaidInv
<1> QED
  BY <1>1, PaidInvariant, NoSuspension, PTL

\* The starting discount is used up by the periods charged at that price, whoever
\* moved them (extendPeriod, renewal.scheduler.ts:351-390).
THEOREM DiscountIsUsedOnce ==
    ASSUME NoSuspension
    PROVE  Spec => []DiscountUsedOncePerPeriod
<1>1. PaidInv => DiscountUsedOncePerPeriod
  <2> SUFFICES ASSUME PaidInv PROVE DiscountUsedOncePerPeriod
    OBVIOUS
  <2> DEFINE Used == {p \in 1 .. periodEnd - 1 : \E k \in Bought(p) : charged[k] = IntroPrice}
             n == IF periodEnd - 1 < IntroPeriods THEN periodEnd - 1 ELSE IntroPeriods
  <2>1. periodEnd \in Int /\ periodEnd >= 1 /\ IntroPeriods \in Nat /\ introLeft = Left(periodEnd)
    BY Values DEF PaidInv, IInv, RowTyped, Periods
  <2>2. ASSUME NEW p \in 1 .. periodEnd - 1
        PROVE  (\E k \in Bought(p) : charged[k] = IntroPrice) <=> p <= IntroPeriods
    <3>1. \A k \in Bought(p) : charged[k] = PriceOf(p)
      BY DEF PaidInv, IInv, MoneyTyped, Bought, Kept, RightCharge
    <3>2. Bought(p) # {}
      BY DEF PaidInv, PeriodsArePaid
    <3>3. p \in Int /\ (PriceOf(p) = IntroPrice <=> p <= IntroPeriods)
      BY <2>1, Values DEF PriceOf, Left
    <3> QED
      BY <3>1, <3>2, <3>3
  <2>3. Used = 1 .. n
    <3>1. \A p : p \in Used <=> p \in 1 .. n
      BY <2>1, <2>2
    <3> QED
      BY <3>1
  <2>4. Cardinality(Used) = n
    <3>1. n \in Int /\ n >= 0
      BY <2>1
    <3>2. Cardinality(1 .. n) = IF 1 > n THEN 0 ELSE n - 1 + 1
      BY <3>1, FS_Interval
    <3> HIDE DEF Used, n
    <3> QED
      BY <2>3, <3>1, <3>2
  <2>5. introLeft = IntroPeriods - n
    BY <2>1 DEF Left
  <2> HIDE DEF n
  <2> QED
    BY <2>4, <2>5 DEF DiscountUsedOncePerPeriod
<1> QED
  BY <1>1, PaidInvariant, NoSuspension, PTL

\* The state has its type; the count of the discount, unless somebody suspends.
THEOREM TypeCorrect ==
    ASSUME NoSuspension
    PROVE  Spec => []TypeOK
<1>1. PaidInv => TypeOK
  <2> SUFFICES ASSUME PaidInv PROVE TypeOK
    OBVIOUS
  <2>1. introLeft \in 0 .. IntroPeriods
    BY LeftBounds DEF PaidInv, IInv, RowTyped
  <2>2. seen \in [Callers -> [status: Statuses \cup {"none"}, periodEnd: 0 .. MaxPeriod,
                               introLeft: 0 .. IntroPeriods]]
    BY DEF PaidInv, IInv, CallersTyped, Fits
  <2> QED
    BY <2>1, <2>2 DEF PaidInv, IInv, RowTyped, MoneyTyped, CallersTyped, TypeOK
<1> QED
  BY <1>1, PaidInvariant, NoSuspension, PTL

=============================================================================
