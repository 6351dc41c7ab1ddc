---------------------------- MODULE PaynowProofs ----------------------------
(***************************************************************************)
(* Payments through Paynow, and their refunds.  For any number of          *)
(* handlers, repeated payments and failures: what the wallet got was paid; *)
(* CONFIRMED means booked, is never taken back, and starts the effects of  *)
(* a payment once.  For any payment and number of operators: refunds       *)
(* recorded at once stay within the payment and what Paynow has returned,  *)
(* and none that Paynow made and no shortage is overlooked.                *)
(***************************************************************************)
EXTENDS PaynowPayment, PaynowRefund, SumTheorems

-----------------------------------------------------------------------------
(* The payment.                                                            *)

\* While the payment is being created no notice of it matches the record.
Creation ==
    /\ creating \in {"ask", "save", "error"} =>
         /\ paymentId = NoPayment /\ status = "NEW"
         /\ \A h \in Handlers : pc[h] \in {"idle", "mismatch"}
    /\ creating = "ask" => paynow[Own] = "none"
    /\ creating = "save" => paynow[Own] # "none"
    /\ paymentId = Own => paynow[Own] # "none"

\* What has been sent, and what a handler works on, Paynow has said; and it does
\* not take back a confirmation.
SaidByPaynow(n) == n.status = "CONFIRMED" => paynow[n.payment] = "CONFIRMED"

\* A handler on its way to the wallet, or past it.
Confirming(h) == pc[h] \in {"book", "mark", "effects", "realise"}

Handling(h) ==
    /\ Confirming(h) => paynow[Own] = "CONFIRMED"
    /\ pc[h] \in {"mark", "effects", "realise"} => Own \in booked
    /\ pc[h] = "write" => notice[h].status # "CONFIRMED"

\* The effects are owed to the one handler whose mark was the first.
OneStart ==
    /\ effects \in {0, 1}
    /\ effects = 1 => status = "CONFIRMED"
    /\ \A h \in Handlers : pc[h] = "effects" =>
         /\ status = "CONFIRMED" /\ effects = 0
         /\ \A g \in Handlers : pc[g] = "effects" => g = h

\* The inductive invariant.
IInv ==
    /\ TypeOK
    /\ wallet = IF Own \in booked THEN Amount ELSE 0
    /\ Creation
    /\ \A n \in sent : SaidByPaynow(n)
    /\ \A h \in Handlers : Handling(h)
    /\ BookedWasPaid
    /\ ConfirmedIsBooked
    /\ OneStart

\* The invariant holds at the start.
LEMMA InitIInv == Init => IInv
<1> SUFFICES ASSUME Init PROVE IInv
  OBVIOUS
<1>1. TypeOK
  <2>1. Note(Own, "NEW") \in Notices
    BY DEF Note, Notices, Payments, Statuses
  <2>2. notice \in [Handlers -> Notices] /\ asked \in [Handlers -> BOOLEAN]
    BY <2>1 DEF Init
  <2>3. {alarm, flagged, flagging} \subseteq BOOLEAN
    BY DEF Init
  <2> QED
    BY <2>2, <2>3, PaynowConstants DEF Init, TypeOK, Payments, Statuses, Places
<1>2. Creation /\ OneStart
  BY PaynowConstants DEF Init, Creation, OneStart, Payments
<1>3. BookedWasPaid /\ ConfirmedIsBooked
  BY DEF Init, BookedWasPaid, ConfirmedIsBooked
<1> QED
  BY <1>1, <1>2, <1>3 DEF Init, IInv, Handling, Confirming

\* A handler that gives its notice up is as it was at first.
LEMMA Forgetting ==
    ASSUME TypeOK, NEW h \in Handlers, Forget(h)
    PROVE  /\ notice' \in [Handlers -> Notices] /\ asked' \in [Handlers -> BOOLEAN]
           /\ notice' = [notice EXCEPT ![h] = notice'[h]]
           /\ asked' = [asked EXCEPT ![h] = asked'[h]]
<1>1. Note(Own, "NEW") \in Notices
  BY DEF Note, Notices, Payments, Statuses
<1>2. notice' \in [Handlers -> Notices] /\ notice' = [notice EXCEPT ![h] = notice'[h]]
  BY <1>1 DEF Forget, TypeOK
<1>3. asked' \in [Handlers -> BOOLEAN] /\ asked' = [asked EXCEPT ![h] = asked'[h]]
  BY DEF Forget, TypeOK
<1> QED
  BY <1>2, <1>3

\* So is one that has answered.
LEMMA Finishing ==
    ASSUME TypeOK, NEW h \in Handlers, Finish(h)
    PROVE  /\ notice' \in [Handlers -> Notices] /\ asked' \in [Handlers -> BOOLEAN]
           /\ notice' = [notice EXCEPT ![h] = notice'[h]]
           /\ asked' = [asked EXCEPT ![h] = asked'[h]]
           /\ pc' = [pc EXCEPT ![h] = "idle"]
           /\ owed' \subseteq Payments
<1>1. Forget(h) /\ pc' = [pc EXCEPT ![h] = "idle"] /\ owed' \subseteq Payments
  BY DEF Finish, Goto, TypeOK
<1> QED
  BY <1>1, Forgetting

-----------------------------------------------------------------------------
(* Steps outside the handlers.                                             *)

\* A payment that is not confirmed changes its status.
LEMMA PaynowKeepsIInv ==
    ASSUME IInv, NEW p \in Payments, NEW s \in Statuses, Progress(p, s) \/ Repeat(p)
    PROVE  IInv'
<1>1. /\ paynow[p] # "CONFIRMED" /\ (p = Own => paynow[Own] # "none")
      /\ \E t \in Statuses : Becomes(p, t)
      /\ UNCHANGED <<kind, creating, row, handlers, money, effects, service, told, falls>>
  BY DEF Progress, Repeat, Statuses
<1> PICK t \in Statuses : Becomes(p, t)
  BY <1>1
<1>2. TypeOK /\ paynow' = [paynow EXCEPT ![p] = t]
  BY DEF IInv, Becomes
<1>3. TypeOK'
  BY <1>1, <1>2
     DEF TypeOK, Becomes, Note, Notices, row, handlers, money, service
<1>4. \A q \in Payments : paynow[q] = "CONFIRMED" => paynow'[q] = "CONFIRMED"
  BY <1>1, <1>2 DEF TypeOK
<1>5. Own \in Payments
  BY DEF Payments
<1>6. paynow'[p] = t /\ t # "none" /\ (p # Own => paynow'[Own] = paynow[Own])
  BY <1>2, <1>5 DEF TypeOK, Statuses
<1>7. Creation'
  BY <1>1, <1>5, <1>6 DEF IInv, Creation, row, handlers
<1>8. \A n \in sent' : SaidByPaynow(n)'
  BY <1>2, <1>4, <1>6 DEF IInv, Becomes, SaidByPaynow, TypeOK, Notices, Note
<1>9. \A h \in Handlers : Handling(h)'
  BY <1>1, <1>4, <1>5 DEF IInv, Handling, Confirming, handlers, money
<1>10. BookedWasPaid' /\ ConfirmedIsBooked' /\ OneStart'
  BY <1>1, <1>4, <1>5
     DEF IInv, BookedWasPaid, ConfirmedIsBooked, OneStart, row, handlers, money
<1> QED
  BY <1>1, <1>3, <1>7, <1>8, <1>9, <1>10 DEF IInv, money

\* The request that creates the payment.
LEMMA CreationKeepsIInv ==
    ASSUME IInv, Ask \/ SaveId \/ SaveError \/ CreationDies
    PROVE  IInv'
<1>1. Own \in Payments /\ Own # NoPayment /\ "NEW" \in Statuses
  BY PaynowConstants DEF Payments, Statuses
<1>2. TypeOK /\ Creation
  BY DEF IInv
<1>3. TypeOK'
  BY <1>1, <1>2, PaynowConstants
     DEF TypeOK, Ask, SaveId, SaveError, CreationDies, Becomes, Note, Notices, row,
         atPaynow, handlers, money, service, Statuses
<1>4. /\ UNCHANGED <<wallet, booked, effects, pc, notice>>
      /\ status # "CONFIRMED"
      /\ status' # "CONFIRMED"
  BY <1>2 DEF Ask, SaveId, SaveError, CreationDies, Creation, row, handlers, money
<1>5. \A h \in Handlers : pc[h] \in {"idle", "mismatch"}
  BY <1>2 DEF Ask, SaveId, SaveError, CreationDies, Creation
<1>6. /\ \A q \in Payments : paynow[q] = "CONFIRMED" => paynow'[q] = "CONFIRMED"
      /\ \A n \in sent' : n \in sent \/ n.status = "NEW"
  BY <1>1, <1>2
     DEF TypeOK, Creation, Ask, SaveId, SaveError, CreationDies, Becomes, Note, atPaynow
<1>7. Creation'
  BY <1>1, <1>2
     DEF TypeOK, Creation, Ask, SaveId, SaveError, CreationDies, Becomes, row,
         atPaynow, handlers
<1>8. \A n \in sent' : SaidByPaynow(n)'
  BY <1>2, <1>6 DEF IInv, SaidByPaynow, TypeOK, Notices
<1>9. \A h \in Handlers : Handling(h)'
  BY <1>4, <1>5 DEF Handling, Confirming
<1>10. BookedWasPaid' /\ ConfirmedIsBooked' /\ OneStart'
  BY <1>1, <1>4, <1>5, <1>6 DEF IInv, BookedWasPaid, ConfirmedIsBooked, OneStart
<1> QED
  BY <1>3, <1>4, <1>7, <1>8, <1>9, <1>10 DEF IInv

\* The order and the cleanup do not touch the payment.
LEMMA OrderKeepsIInv ==
    ASSUME IInv,
           (\E to \in {"taken", "canceled"} : OrderGoes(to)) \/ Flag \/ FlagNotice \/ FlagDies
    PROVE  IInv'
<1>1. UNCHANGED <<creating, row, atPaynow, handlers, money, effects>>
  BY DEF OrderGoes, Flag, FlagNotice, FlagDies
<1>2. TypeOK'
  <2>1. /\ order' \in {"waiting", "taken", "canceled"} /\ falls' \in 0 .. MaxFalls
        /\ UNCHANGED <<kind, told>>
    BY PaynowConstants DEF IInv, TypeOK, OrderGoes, Flag, FlagNotice, FlagDies
  <2>2. {alarm', flagged', flagging'} \subseteq BOOLEAN
    BY DEF IInv, TypeOK, OrderGoes, Flag, FlagNotice, FlagDies
  <2> QED
    BY <1>1, <2>1, <2>2 DEF IInv, TypeOK, row, atPaynow, handlers, money
<1> QED
  BY <1>1, <1>2
     DEF IInv, Creation, SaidByPaynow, Handling, Confirming, BookedWasPaid,
         ConfirmedIsBooked, OneStart, row, atPaynow, handlers, money

-----------------------------------------------------------------------------
(* Steps of a handler.                                                     *)

\* A handler at work on a notice of what Paynow has said.
Started(h) ==
    /\ notice' = [notice EXCEPT ![h] = notice'[h]] /\ notice'[h] \in Notices
    /\ asked' = [asked EXCEPT ![h] = asked'[h]] /\ asked'[h] \in BOOLEAN
    /\ pc' = [pc EXCEPT ![h] = pc'[h]]
    /\ pc'[h] \in {"idle", "mismatch", "write", "book"}
    /\ pc'[h] = "write" => notice'[h].status # "CONFIRMED"
    /\ pc'[h] = "book" => paynow[Own] = "CONFIRMED"
    /\ pc'[h] \in {"write", "book"} => paymentId # NoPayment

\* Where a handler that takes a notice, asks, reports a mismatch or falls gets to.
LEMMA Starting ==
    ASSUME IInv, NEW h \in Handlers,
           (\E n \in sent : Receive(h, n)) \/ Check(h) \/ Mismatch(h) \/ Fall(h)
    PROVE  Started(h)
<1>1. TypeOK /\ Creation /\ Own \in Payments /\ Own # NoPayment /\ NoPayment \notin Payments
  BY PaynowConstants DEF IInv, Payments
<1>2. ASSUME NEW n \in sent, Receive(h, n) PROVE Started(h)
  <2>1. n \in Notices /\ SaidByPaynow(n)
    BY <1>1 DEF IInv, TypeOK
  <2>2. /\ notice' = [notice EXCEPT ![h] = n] /\ asked' = [asked EXCEPT ![h] = FALSE]
        /\ pc' = [pc EXCEPT ![h] = IF IsOurs(n.payment) THEN Route(n.status) ELSE "mismatch"]
    BY <1>2 DEF Receive, Goto
  <2>3. IsOurs(n.payment) => n.payment = Own /\ paymentId # NoPayment
    BY <1>1, <2>1 DEF IsOurs, TypeOK, Notices
  <2>4. asked' = [asked EXCEPT ![h] = asked'[h]] /\ asked'[h] \in BOOLEAN
    BY <1>1, <2>2 DEF TypeOK
  <2> QED
    BY <1>1, <2>1, <2>2, <2>3, <2>4 DEF Started, TypeOK, Route, SaidByPaynow
<1>3. CASE Check(h)
  <2>1. Note(Own, paynow[Own]) \in Notices
    BY <1>1, <1>3 DEF TypeOK, Creation, Check, Note, Notices
  <2>2. asked' = [asked EXCEPT ![h] = asked'[h]] /\ asked'[h] \in BOOLEAN
    BY <1>1, <1>3 DEF TypeOK, Check
  <2> QED
    BY <1>1, <1>3, <2>1, <2>2 DEF TypeOK, Started, Check, Goto, Route, Note
<1>4. CASE Mismatch(h)
  BY <1>1, <1>4, Finishing DEF TypeOK, Started, Mismatch
<1>5. CASE Fall(h)
  BY <1>1, <1>5, Forgetting DEF TypeOK, Started, Fall, Goto
<1> QED
  BY <1>2, <1>3, <1>4, <1>5

\* A handler that starts on a notice, or that gives up.
LEMMA NoticeKeepsIInv ==
    ASSUME IInv, NEW h \in Handlers,
           (\E n \in sent : Receive(h, n)) \/ Check(h) \/ Mismatch(h) \/ Fall(h)
    PROVE  IInv'
<1>1. TypeOK /\ Creation /\ Own \in Payments /\ Own # NoPayment
  BY PaynowConstants DEF IInv, Payments
<1>2. UNCHANGED <<kind, creating, row, paynow, sent, money, effects, service>>
  BY DEF Receive, Check, Mismatch, Fall, atPaynow
<1>3. Started(h)
  BY Starting
<1>4. TypeOK'
  <2>1. owed' \subseteq Payments /\ told' \subseteq Payments /\ falls' \in 0 .. MaxFalls
    <3>1. CASE (\E n \in sent : Receive(h, n)) \/ Check(h)
      BY <1>1, <3>1 DEF TypeOK, Receive, Check, atPaynow
    <3>2. CASE Mismatch(h)
      BY <1>1, <3>2, Finishing DEF TypeOK, Mismatch, Notices
    <3>3. CASE Fall(h)
      BY <1>1, <3>3, PaynowConstants DEF TypeOK, Fall, atPaynow
    <3> QED
      BY <3>1, <3>2, <3>3
  <2>2. notice' \in [Handlers -> Notices] /\ pc' \in [Handlers -> Places]
    BY <1>1, <1>3 DEF TypeOK, Started, Places
  <2>3. asked' \in [Handlers -> BOOLEAN]
    BY <1>1, <1>3 DEF TypeOK, Started
  <2> QED
    BY <1>1, <1>2, <2>1, <2>2, <2>3 DEF TypeOK, row, money, service
<1>5. Creation'
  BY <1>1, <1>2, <1>3 DEF TypeOK, Creation, row, Started
<1>6. ASSUME NEW g \in Handlers PROVE Handling(g)'
  BY <1>1, <1>2, <1>3 DEF IInv, TypeOK, Handling, Confirming, money, Started
<1>7. OneStart'
  BY <1>1, <1>2, <1>3 DEF IInv, TypeOK, OneStart, row, Started
<1> QED
  BY <1>2, <1>4, <1>5, <1>6, <1>7
     DEF IInv, SaidByPaynow, BookedWasPaid, ConfirmedIsBooked, row, money

\* A handler that books, marks and starts what follows.
LEMMA BookingKeepsIInv ==
    ASSUME IInv, NEW h \in Handlers, Book(h) \/ Mark(h) \/ Effects(h) \/ Realise(h)
    PROVE  IInv'
<1>1. /\ TypeOK /\ Creation /\ Handling(h) /\ OneStart /\ Own \in Payments
      /\ wallet = IF Own \in booked THEN Amount ELSE 0
      /\ BookedWasPaid /\ ConfirmedIsBooked
  BY DEF IInv, Payments
<1>2. /\ UNCHANGED <<creating, paymentId, paynow, sent, told, falls, kind>>
      /\ pc' = [pc EXCEPT ![h] = pc'[h]]
      /\ pc'[h] \in {"idle", "mark", "effects", "realise"}
      /\ notice' \in [Handlers -> Notices] /\ notice' = [notice EXCEPT ![h] = notice'[h]]
      /\ asked' \in [Handlers -> BOOLEAN]
      /\ owed' \subseteq Payments
  <2>1. CASE Finish(h) /\ ~Book(h)
    BY <1>1, <2>1, Finishing DEF TypeOK, Mark, Effects, Realise, row
  <2>2. CASE ~Finish(h) \/ Book(h)
    BY <1>1, <2>2 DEF TypeOK, Book, Mark, Effects, Realise, Goto, row, atPaynow
  <2> QED
    BY <2>1, <2>2
<1>3. /\ Confirming(h) /\ paynow[Own] = "CONFIRMED"
      /\ creating \notin {"ask", "save", "error"}
  BY <1>1 DEF Book, Mark, Effects, Realise, Handling, Confirming, Creation
<1>4. /\ wallet' = (IF Own \in booked' THEN Amount ELSE 0)
      /\ booked \subseteq booked' /\ Own \in booked' /\ booked' \subseteq {Own}
  <2>1. CASE Book(h)
    BY <1>1, <2>1, PaynowConstants DEF Book, Credit, TypeOK
  <2>2. CASE Mark(h) \/ Effects(h) \/ Realise(h)
    BY <1>1, <2>2 DEF Mark, Effects, Realise, Handling, TypeOK, money
  <2> QED
    BY <2>1, <2>2
<1>5. OneStart' /\ status' \in Statuses /\ (status' # status => status' = "CONFIRMED")
  <2>1. CASE Book(h) \/ Realise(h)
    BY <1>1, <1>2, <2>1 DEF Book, Realise, Finish, Goto, TypeOK, OneStart, row
  <2>2. CASE Mark(h)
    <3>1. status' = "CONFIRMED" /\ effects' = effects
      BY <2>2 DEF Mark
    <3>2. CASE status # "CONFIRMED"
      <4>1. effects = 0 /\ \A g \in Handlers : pc[g] # "effects"
        BY <1>1, <3>2 DEF OneStart
      <4> QED
        BY <1>1, <1>2, <3>1, <4>1 DEF TypeOK, OneStart, Statuses
    <3>3. CASE status = "CONFIRMED"
      <4>1. pc'[h] = "idle"
        BY <1>1, <2>2, <3>3 DEF Mark, WonMark, NotConfirmed, Finish, Goto, TypeOK
      <4> QED
        BY <1>1, <1>2, <3>1, <4>1 DEF TypeOK, OneStart, Statuses
    <3> QED
      BY <3>2, <3>3
  <2>3. CASE Effects(h)
    <3>1. /\ status = "CONFIRMED" /\ effects = 0 /\ effects' = 1 /\ status' = status
          /\ pc'[h] # "effects"
          /\ \A g \in Handlers : pc[g] = "effects" => g = h
      BY <1>1, <2>3 DEF Effects, Finish, Goto, TypeOK, OneStart, row
    <3> QED
      BY <1>1, <1>2, <3>1 DEF TypeOK, OneStart
  <2> QED
    BY <2>1, <2>2, <2>3
<1>6. TypeOK'
  <2>1. /\ order' \in {"waiting", "taken", "canceled"}
        /\ {alarm', flagged', flagging'} \subseteq BOOLEAN
    BY <1>1 DEF TypeOK, Book, Mark, Effects, Realise, service
  <2>2. wallet' \in 0 .. Amount /\ effects' \in Nat
    BY <1>4, <1>5, PaynowConstants DEF OneStart
  <2> QED
    BY <1>1, <1>2, <1>4, <1>5, <2>1, <2>2 DEF TypeOK, Places
<1>7. Creation' /\ ConfirmedIsBooked' /\ BookedWasPaid'
  BY <1>1, <1>2, <1>3, <1>4, <1>5 DEF Creation, ConfirmedIsBooked, BookedWasPaid
<1>8. ASSUME NEW g \in Handlers PROVE Handling(g)'
  BY <1>1, <1>2, <1>3, <1>4 DEF IInv, TypeOK, Handling, Confirming
<1> QED
  BY <1>2, <1>4, <1>5, <1>6, <1>7, <1>8 DEF IInv, SaidByPaynow

\* A handler that writes a status that is not CONFIRMED.
LEMMA WriteKeepsIInv ==
    ASSUME IInv, NEW h \in Handlers, Write(h)
    PROVE  IInv'
<1>1. TypeOK /\ Handling(h)
  BY DEF IInv
<1>2. /\ UNCHANGED <<kind, creating, paymentId, paynow, sent, money, effects>>
      /\ UNCHANGED <<service, told, falls>>
      /\ pc' = [pc EXCEPT ![h] = "idle"]
      /\ pc[h] = "write"
      /\ status = "CONFIRMED" => status' = "CONFIRMED"
      /\ status # "CONFIRMED" => status' # "CONFIRMED"
  BY <1>1 DEF Write, NotConfirmed, Finish, Goto, Handling
<1>3. TypeOK'
  <2>1. status' \in Statuses
    BY <1>1 DEF TypeOK, Write, Notices
  <2> QED
    BY <1>1, <1>2, <2>1, Finishing DEF TypeOK, Write, Places, money, service
<1>4. Creation'
  BY <1>1, <1>2 DEF IInv, Creation, TypeOK
<1>5. ASSUME NEW g \in Handlers PROVE Handling(g)'
  <2>1. notice'[g] = notice[g] \/ g = h
    BY <1>1 DEF Write, Finish, Forget, TypeOK
  <2> QED
    BY <1>1, <1>2, <2>1 DEF IInv, TypeOK, Handling, Confirming, money
<1>6. OneStart'
  BY <1>1, <1>2 DEF IInv, TypeOK, OneStart
<1> QED
  BY <1>2, <1>3, <1>4, <1>5, <1>6
     DEF IInv, SaidByPaynow, BookedWasPaid, ConfirmedIsBooked, money

\* Every step keeps the invariant.
LEMMA StepKeepsIInv == IInv /\ [Next]_vars => IInv'
<1> SUFFICES ASSUME IInv, [Next]_vars PROVE IInv'
  OBVIOUS
<1>1. CASE \E p \in Payments : Repeat(p) \/ \E s \in Statuses : Progress(p, s)
  <2> PICK p \in Payments : Repeat(p) \/ \E s \in Statuses : Progress(p, s)
    BY <1>1
  <2>1. \E s \in Statuses : Progress(p, s) \/ Repeat(p)
    BY DEF Statuses
  <2> QED
    BY <2>1, PaynowKeepsIInv
<1>2. CASE Ask \/ SaveId \/ SaveError \/ CreationDies
  BY <1>2, CreationKeepsIInv
<1>3. CASE \E h \in Handlers :
              (\E n \in sent : Receive(h, n)) \/ Check(h) \/ HandlerStep(h) \/ Fall(h)
  BY <1>3, NoticeKeepsIInv, BookingKeepsIInv, WriteKeepsIInv DEF HandlerStep
<1>4. CASE (\E to \in {"taken", "canceled"} : OrderGoes(to)) \/ Flag \/ FlagNotice \/ FlagDies
  BY <1>4, OrderKeepsIInv
<1>5. CASE UNCHANGED vars
  <2>1. TypeOK'
    BY <1>5 DEF IInv, TypeOK, vars, row, atPaynow, handlers, money, service
  <2> QED
    BY <1>5, <2>1
       DEF IInv, Creation, SaidByPaynow, Handling, Confirming, BookedWasPaid,
           ConfirmedIsBooked, OneStart, vars, row, atPaynow, handlers, money
<1> QED
  BY <1>1, <1>2, <1>3, <1>4, <1>5 DEF Next

-----------------------------------------------------------------------------
(* What follows.                                                           *)

\* The inductive invariant, in every reachable state.
THEOREM Invariant == Spec => []IInv
BY InitIInv, StepKeepsIInv, PTL DEF Spec

\* The state has its type; the wallet never holds the amount twice.
THEOREM TypeCorrect == Spec => []TypeOK
<1>1. IInv => TypeOK
  BY DEF IInv
<1> QED
  BY <1>1, Invariant, PTL

\* The wallet is credited only for a payment of this record that Paynow has
\* confirmed.
THEOREM OnlyPaidIsBooked == Spec => []BookedWasPaid
<1>1. IInv => BookedWasPaid
  BY DEF IInv
<1> QED
  BY <1>1, Invariant, PTL

\* Whoever finds the record CONFIRMED finds the money in the wallet, wherever
\* handlers died.
THEOREM ConfirmedMeansBooked == Spec => []ConfirmedIsBooked
<1>1. IInv => ConfirmedIsBooked
  BY DEF IInv
<1> QED
  BY <1>1, Invariant, PTL

\* Bonus, mail and points are started once, however many handlers book the same
\* payment.
THEOREM EffectsAreOnce == Spec => []EffectsOnce
<1>1. IInv => EffectsOnce
  BY DEF IInv, OneStart, EffectsOnce
<1> QED
  BY <1>1, Invariant, PTL

\* No notice, however late, takes back CONFIRMED.
THEOREM ConfirmedStays == Spec => ConfirmedIsFinal
<1> DEFINE A == status = "CONFIRMED" => status' = "CONFIRMED"
<1>1. IInv /\ [Next]_vars => [A]_vars
  <2> SUFFICES ASSUME IInv, Next, status = "CONFIRMED", status' # status
               PROVE  FALSE
    OBVIOUS
  <2>1. creating \notin {"ask", "save", "error"}
    BY DEF IInv, Creation
  <2> QED
    BY <2>1
       DEF Next, Repeat, Progress, Ask, SaveId, SaveError, CreationDies, Receive, Check,
           HandlerStep, Mismatch, Write, Book, Mark, Effects, Realise, Fall, OrderGoes,
           Flag, FlagNotice, FlagDies, NotConfirmed, row
<1> QED
  BY <1>1, Invariant, PTL DEF Spec, ConfirmedIsFinal

-----------------------------------------------------------------------------
(* The refunds.                                                            *)

\* An operator at work has an amount.
HasAmount(o) == step[o] # "idle" => kwota[o] \in Amounts

\* A refund that Paynow made is recorded, reported, or about to be.
Followed(r) ==
    \/ died
    \/ r.mode = "merchant"
    \/ r \in zwrotyIds \cup doubtful
    \/ \E o \in Operators : step[o] = "record" /\ MyId(o) = r

\* What was recorded is taken, reported, or about to be.
ShortageFollowed ==
    \/ died
    \/ taken = zwrocono
    \/ zwrotyIds \cap doubtful # {}
    \/ \E o \in Operators : step[o] = "report" /\ due[o] > 0 /\ MyId(o) \in zwrotyIds

\* The inductive invariant.
RefundIInv ==
    /\ RefundTypeOK
    /\ WithinPayment
    /\ \A o \in Operators : HasAmount(o)
    /\ \A r \in refunds : Followed(r)
    /\ ShortageFollowed

\* An operator at work has an id.
LEMMA IdIsTyped ==
    ASSUME RefundTypeOK, NEW o \in Operators, kwota[o] \in Amounts
    PROVE  MyId(o) \in RefundIds
BY DEF RefundTypeOK, MyId, Id, RefundIds, Modes

\* The invariant holds at the start.
LEMMA RefundInitIInv == RefundInit => RefundIInv
<1> SUFFICES ASSUME RefundInit PROVE RefundIInv
  OBVIOUS
<1>1. RefundTypeOK
  <2>1. panel \in [Operators -> BOOLEAN] /\ {byHand, died} \subseteq BOOLEAN
    BY DEF RefundInit
  <2> QED
    BY <2>1, RefundConstants DEF RefundInit, RefundTypeOK, RefundIds
<1> QED
  BY <1>1, RefundConstants
     DEF RefundInit, RefundIInv, WithinPayment, HasAmount, Followed, ShortageFollowed

-----------------------------------------------------------------------------
(* One lemma for each kind of step.                                        *)

\* Refunds by the merchant, spending: the operators are not concerned.
LEMMA OutsideKeepsIInv ==
    ASSUME RefundIInv, (\E a \in Amounts : MerchantRefund(a)) \/ Spend
    PROVE  RefundIInv'
<1>1. CASE Spend
  <2>1. RefundTypeOK'
    BY <1>1 DEF RefundIInv, RefundTypeOK, Spend, paymentRow, operator, notes
  <2> QED
    BY <1>1, <2>1
       DEF RefundIInv, Spend, WithinPayment, HasAmount, Followed, ShortageFollowed, MyId,
           paymentRow, operator, notes
<1>2. ASSUME NEW a \in Amounts, MerchantRefund(a) PROVE RefundIInv'
  <2>1. /\ Id("merchant", 0, a) \in RefundIds /\ Id("merchant", 0, a).mode = "merchant"
        /\ refunds' = refunds \cup {Id("merchant", 0, a)}
        /\ byHand' = TRUE
        /\ UNCHANGED <<paymentRow, funds, operator, doubtful, died, requests>>
    BY <1>2, RefundConstants DEF MerchantRefund, Id, RefundIds, Modes
  <2>2. RefundTypeOK'
    BY <2>1 DEF RefundIInv, RefundTypeOK, paymentRow, funds, operator
  <2>3. \A r \in refunds' : Followed(r)'
    BY <2>1 DEF RefundIInv, Followed, MyId, paymentRow, operator
  <2> QED
    BY <2>1, <2>2, <2>3
       DEF RefundIInv, WithinPayment, HasAmount, ShortageFollowed, MyId, paymentRow, funds,
           operator
<1> QED
  BY <1>1, <1>2

\* A request begins.
LEMMA BeginKeepsIInv ==
    ASSUME RefundIInv, NEW o \in Operators, NEW a \in Amounts, NEW byPanel \in BOOLEAN,
           Begin(o, a, byPanel)
    PROVE  RefundIInv'
<1>1. /\ RefundTypeOK /\ a \in 0 .. Paid /\ step[o] = "idle"
      /\ UNCHANGED <<zwrocono, zwrotyIds, balance, taken, refunds, due, doubtful, died>>
  BY DEF RefundIInv, Begin, Amounts, paymentRow, funds
<1>2. /\ kwota' = [kwota EXCEPT ![o] = a] /\ seen' = [seen EXCEPT ![o] = zwrocono]
      /\ panel' = [panel EXCEPT ![o] = byPanel]
      /\ step' = [step EXCEPT ![o] = step'[o]] /\ step'[o] \in {"call", "record"}
  BY <1>1 DEF Begin, MoveTo, RefundTypeOK
<1>3. RefundTypeOK'
  <2>1. panel' \in [Operators -> BOOLEAN] /\ byHand' \in BOOLEAN /\ died' \in BOOLEAN
    BY <1>1, <1>2 DEF RefundTypeOK, Begin
  <2>2. requests' \in 0 .. MaxRequests
    BY <1>1, RefundConstants DEF RefundTypeOK, Begin
  <2>3. /\ kwota' \in [Operators -> 0 .. Paid] /\ seen' \in [Operators -> 0 .. Paid]
        /\ step' \in [Operators -> {"idle", "call", "record", "report"}]
    BY <1>1, <1>2 DEF RefundTypeOK
  <2> QED
    BY <1>1, <2>1, <2>2, <2>3 DEF RefundTypeOK
<1>4. \A p \in Operators : p # o =>
         step'[p] = step[p] /\ kwota'[p] = kwota[p] /\ MyId(p)' = MyId(p)
  BY <1>1, <1>2 DEF RefundTypeOK, MyId
<1>5. \A r \in refunds' : Followed(r)'
  BY <1>1, <1>4 DEF RefundIInv, Followed
<1>6. ShortageFollowed'
  BY <1>1, <1>4 DEF RefundIInv, ShortageFollowed
<1> QED
  BY <1>1, <1>2, <1>3, <1>4, <1>5, <1>6 DEF RefundIInv, WithinPayment, HasAmount, RefundTypeOK

\* Paynow answers, or not.
LEMMA CallKeepsIInv ==
    ASSUME RefundIInv, NEW o \in Operators, Call(o) \/ Refused(o) \/ NoAnswer(o)
    PROVE  RefundIInv'
<1>1. /\ RefundTypeOK /\ step[o] = "call" /\ MyId(o) \in RefundIds
      /\ UNCHANGED <<zwrocono, zwrotyIds, balance, taken, panel, kwota, seen, due,
                     byHand, died, requests>>
      /\ step' = [step EXCEPT ![o] = step'[o]] /\ step'[o] \in {"idle", "record"}
      /\ refunds' \in {refunds, refunds \cup {MyId(o)}}
      /\ doubtful' \in {doubtful, doubtful \cup {MyId(o)}}
      /\ refunds' # refunds => step'[o] = "record" \/ MyId(o) \in doubtful'
  BY IdIsTyped
     DEF RefundIInv, HasAmount, Call, Refused, NoAnswer, Unsure, MoveTo, RefundTypeOK,
         paymentRow, funds, notes
<1>2. RefundTypeOK'
  BY <1>1 DEF RefundTypeOK
<1>3. \A p \in Operators : MyId(p)' = MyId(p) /\ (p # o => step'[p] = step[p])
  BY <1>1 DEF RefundTypeOK, MyId
<1>4. step'[o] = "record" => \E p \in Operators : step'[p] = "record" /\ MyId(p)' = MyId(o)
  BY <1>3
<1>5. ASSUME NEW r \in refunds' PROVE Followed(r)'
  <2>1. CASE r \in refunds
    BY <1>1, <1>3, <2>1 DEF RefundIInv, Followed
  <2>2. CASE r \notin refunds
    <3>1. r = MyId(o) /\ (step'[o] = "record" \/ r \in doubtful')
      BY <1>1, <2>2
    <3> QED
      BY <1>4, <3>1 DEF Followed
  <2> QED
    BY <2>1, <2>2
<1>6. ShortageFollowed'
  BY <1>1, <1>3 DEF RefundIInv, ShortageFollowed
<1> QED
  BY <1>1, <1>2, <1>3, <1>5, <1>6 DEF RefundIInv, WithinPayment, HasAmount, RefundTypeOK

\* The transaction takes what the balance covers and no more than is recorded.
LEMMA RecordIsWithin ==
    ASSUME RefundIInv, NEW o \in Operators, Record(o), ~Known(o), ~TooMuch(o)
    PROVE  /\ zwrocono' = zwrocono + kwota[o] /\ zwrocono' \in 0 .. Paid
           /\ zwrotyIds' = zwrotyIds \cup {MyId(o)}
           /\ balance' \in Nat /\ taken' \in Nat /\ taken' <= zwrocono'
           /\ due' = [due EXCEPT ![o] = due'[o]] /\ due'[o] \in Nat
           /\ due'[o] > 0 \/ taken' = zwrocono'
           /\ step' = [step EXCEPT ![o] = "report"]
           /\ doubtful' = doubtful
<1>1. /\ RefundTypeOK /\ kwota[o] \in Nat /\ zwrocono \in Nat
      /\ taken \in Nat /\ balance \in Nat
      /\ taken <= zwrocono /\ Paid \in Nat
  BY RefundConstants DEF RefundIInv, RefundTypeOK, WithinPayment
<1> DEFINE s == zwrocono + kwota[o] - taken
           l == IF s < balance THEN s ELSE balance
<1>2. /\ zwrocono' = zwrocono + kwota[o] /\ zwrotyIds' = zwrotyIds \cup {MyId(o)}
      /\ balance' = balance - l /\ taken' = taken + l
      /\ due' = [due EXCEPT ![o] = s - l]
      /\ step' = [step EXCEPT ![o] = "report"] /\ doubtful' = doubtful
  BY DEF Record, Share, Least, MoveTo
<1>3. zwrocono + kwota[o] <= Paid
  BY <1>1 DEF TooMuch
<1>4. s \in Nat /\ l \in Nat /\ l <= s /\ l <= balance
  BY <1>1
<1>5. due'[o] = s - l
  BY <1>1, <1>2 DEF RefundTypeOK
<1>6. due' = [due EXCEPT ![o] = due'[o]]
  BY <1>2, <1>5
<1>7. /\ zwrocono' \in 0 .. Paid /\ balance' \in Nat /\ taken' \in Nat
      /\ taken' <= zwrocono' /\ due'[o] \in Nat
      /\ due'[o] > 0 \/ taken' = zwrocono'
  <2> HIDE DEF l
  <2> QED
    BY <1>1, <1>2, <1>3, <1>4, <1>5
<1> QED
  BY <1>2, <1>6, <1>7

\* Record keeps the invariant.
LEMMA RecordKeepsIInv ==
    ASSUME RefundIInv, NEW o \in Operators, Record(o)
    PROVE  RefundIInv'
<1>1. /\ RefundTypeOK /\ step[o] = "record" /\ MyId(o) \in RefundIds
      /\ UNCHANGED <<refunds, panel, kwota, seen, byHand, died, requests>>
  BY IdIsTyped DEF RefundIInv, HasAmount, Record
<1>2. \A p \in Operators : MyId(p)' = MyId(p)
  BY <1>1 DEF MyId
<1>3. /\ step' = [step EXCEPT ![o] = step'[o]] /\ step'[o] \in {"idle", "report"}
      /\ \A p \in Operators : p # o => step'[p] = step[p]
      /\ zwrotyIds \subseteq zwrotyIds' /\ doubtful \subseteq doubtful'
      /\ MyId(o) \in zwrotyIds' \cup doubtful'
  BY <1>1 DEF Record, MoveTo, RefundTypeOK, Known, paymentRow
<1>4. ASSUME NEW r \in refunds' PROVE Followed(r)'
  BY <1>1, <1>2, <1>3 DEF RefundIInv, Followed
<1>5. CASE Known(o) \/ TooMuch(o)
  <2>1. /\ UNCHANGED <<paymentRow, funds, due>>
        /\ doubtful' \subseteq RefundIds
    BY <1>1, <1>5 DEF Record, RefundTypeOK
  <2>2. RefundTypeOK'
    BY <1>1, <1>2, <1>3, <2>1 DEF RefundTypeOK, paymentRow, funds
  <2>3. ShortageFollowed'
    BY <1>1, <1>2, <1>3, <2>1 DEF RefundIInv, ShortageFollowed, paymentRow, funds
  <2> QED
    BY <1>1, <1>2, <1>3, <1>4, <2>1, <2>2, <2>3
       DEF RefundIInv, WithinPayment, HasAmount, paymentRow, funds
<1>6. CASE ~Known(o) /\ ~TooMuch(o)
  <2>1. /\ zwrocono' \in 0 .. Paid
        /\ zwrotyIds' = zwrotyIds \cup {MyId(o)}
        /\ balance' \in Nat /\ taken' \in Nat /\ taken' <= zwrocono'
        /\ due' = [due EXCEPT ![o] = due'[o]] /\ due'[o] \in Nat
        /\ due'[o] > 0 \/ taken' = zwrocono'
        /\ step'[o] = "report" /\ doubtful' = doubtful
    BY <1>1, <1>6, RecordIsWithin DEF RefundTypeOK
  <2>2. RefundTypeOK'
    BY <1>1, <1>2, <1>3, <2>1 DEF RefundTypeOK
  <2>3. ShortageFollowed'
    BY <1>1, <1>2, <2>1 DEF ShortageFollowed
  <2>4. WithinPayment'
    BY <2>1, RefundConstants DEF WithinPayment
  <2> QED
    BY <1>1, <1>2, <1>3, <1>4, <2>1, <2>2, <2>3, <2>4 DEF RefundIInv, HasAmount
<1> QED
  BY <1>5, <1>6

\* The report, or a death.
LEMMA EndKeepsIInv ==
    ASSUME RefundIInv, NEW o \in Operators, Report(o) \/ Die(o)
    PROVE  RefundIInv'
<1>1. /\ RefundTypeOK /\ UNCHANGED <<zwrocono, zwrotyIds, balance, taken, refunds, panel, kwota,
                               seen, byHand, requests>>
      /\ step' = [step EXCEPT ![o] = "idle"] /\ due' = [due EXCEPT ![o] = 0]
      /\ \A p \in Operators : MyId(p)' = MyId(p)
  BY DEF RefundIInv, Report, Die, MoveTo, MyId, paymentRow, funds
<1>2. /\ died' \in BOOLEAN /\ doubtful' \subseteq RefundIds
  BY IdIsTyped DEF RefundIInv, RefundTypeOK, HasAmount, Report, Die
<1>3. RefundTypeOK'
  BY <1>1, <1>2 DEF RefundTypeOK
<1>4. \A p \in Operators : p # o => step'[p] = step[p] /\ due'[p] = due[p]
  BY <1>1 DEF RefundTypeOK
<1>5. CASE Die(o)
  BY <1>1, <1>3, <1>4, <1>5
     DEF RefundIInv, RefundTypeOK, Die, WithinPayment, HasAmount, Followed, ShortageFollowed
<1>6. CASE Report(o)
  <2>1. /\ step[o] = "report" /\ died' = died /\ doubtful \subseteq doubtful'
        /\ due[o] > 0 => MyId(o) \in doubtful'
    BY <1>6 DEF Report
  <2>2. ASSUME NEW r \in refunds' PROVE Followed(r)'
    BY <1>1, <1>4, <2>1 DEF RefundIInv, Followed
  <2>3. ShortageFollowed'
    BY <1>1, <1>4, <2>1 DEF RefundIInv, ShortageFollowed
  <2> QED
    BY <1>1, <1>3, <1>4, <2>2, <2>3 DEF RefundIInv, RefundTypeOK, WithinPayment, HasAmount
<1> QED
  BY <1>5, <1>6

\* Every step keeps the invariant.
LEMMA RefundStepKeepsIInv == RefundIInv /\ [RefundNext]_refundVars => RefundIInv'
<1> SUFFICES ASSUME RefundIInv, [RefundNext]_refundVars PROVE RefundIInv'
  OBVIOUS
<1>1. CASE UNCHANGED refundVars
  <2>1. RefundTypeOK'
    BY <1>1 DEF RefundIInv, RefundTypeOK, refundVars, paymentRow, funds, operator, notes
  <2> QED
    BY <1>1, <2>1
       DEF RefundIInv, WithinPayment, HasAmount, Followed, ShortageFollowed, MyId, refundVars,
           paymentRow, funds, operator, notes
<1> QED
  BY <1>1, OutsideKeepsIInv, BeginKeepsIInv, CallKeepsIInv, RecordKeepsIInv, EndKeepsIInv
     DEF RefundNext

-----------------------------------------------------------------------------
(* The total.                                                              *)

AmountOf(ids) == [r \in ids |-> r.amount]

\* The total of a set of refunds is a sum.
LEMMA TotalIsSum ==
    ASSUME NEW ids \in SUBSET RefundIds, IsFiniteSet(ids)
    PROVE  Total(ids) = SumOver(AmountOf(ids), ids)
<1> DEFINE Iter == CHOOSE iter : iter =
        [s \in SUBSET ids |-> IF s = {} THEN 0
                              ELSE LET x == (CHOOSE x \in s : TRUE) IN x.amount + iter[s \ {x}]]
<1>1. \A r \in ids : AmountOf(ids)[r] \in Int
  BY DEF AmountOf, RefundIds, Amounts
<1>2. PICK g : Summation(g, AmountOf(ids), ids)
  BY <1>1, SummationExists
<1>3. \A s \in SUBSET ids : s # {} => AnyOf(s) \in ids
  BY AnyOfIsOne
<1>4. g = [s \in SUBSET ids |-> IF s = {} THEN 0
                                ELSE LET x == (CHOOSE x \in s : TRUE) IN x.amount + g[s \ {x}]]
  BY <1>2, <1>3 DEF Summation, AmountOf, AnyOf
<1>5. Iter = [s \in SUBSET ids |->
                IF s = {} THEN 0
                ELSE LET x == (CHOOSE x \in s : TRUE) IN x.amount + Iter[s \ {x}]]
  BY <1>4
<1>6. Total(ids) = Iter[ids]
  BY DEF Total, MapThenSumSet, MapThenFoldSet
<1> HIDE DEF Iter
<1>7. Summation(Iter, AmountOf(ids), ids)
  BY <1>3, <1>5 DEF Summation, AmountOf, AnyOf
<1>8. SumOver(AmountOf(ids), ids) = Iter[ids]
  BY <1>1, <1>7, SumIs
<1> QED
  BY <1>6, <1>8

\* One refund more adds its amount.
LEMMA TotalAdds ==
    ASSUME NEW ids \in SUBSET RefundIds, IsFiniteSet(ids), NEW r \in RefundIds, r \notin ids
    PROVE  Total(ids \cup {r}) = Total(ids) + r.amount
<1> DEFINE more == ids \cup {r}
<1>1. more \in SUBSET RefundIds /\ IsFiniteSet(more)
  BY FS_AddElement
<1>2. Total(more) = SumOver(AmountOf(more), more) /\ Total(ids) = SumOver(AmountOf(ids), ids)
  BY <1>1, TotalIsSum
<1>3. /\ \A x \in more : AmountOf(more)[x] \in Int
      /\ \A x \in ids : AmountOf(ids)[x] \in Int /\ AmountOf(ids)[x] = AmountOf(more)[x]
      /\ AmountOf(more)[r] = r.amount
  BY <1>1 DEF AmountOf, RefundIds, Amounts
<1>4. SumOver(AmountOf(more), more) = SumOver(AmountOf(more), ids) + AmountOf(more)[r]
  BY <1>3, SumAdds
<1>5. SumOver(AmountOf(ids), ids) = SumOver(AmountOf(more), ids)
  BY <1>3, SumsAgree
<1> QED
  BY <1>2, <1>3, <1>4, <1>5

\* Some of the refunds are no more than all of them.
LEMMA TotalOfPart ==
    ASSUME NEW ids \in SUBSET RefundIds, IsFiniteSet(ids), NEW part \in SUBSET ids
    PROVE  Total(part) <= Total(ids)
<1>1. IsFiniteSet(part) /\ part \in SUBSET RefundIds
  BY FS_Subset
<1>2. Total(part) = SumOver(AmountOf(part), part) /\ Total(ids) = SumOver(AmountOf(ids), ids)
  BY <1>1, TotalIsSum
<1>3. /\ \A x \in ids : AmountOf(ids)[x] \in Nat
      /\ \A x \in part : AmountOf(part)[x] \in Int /\ AmountOf(part)[x] = AmountOf(ids)[x]
  BY <1>1 DEF AmountOf, RefundIds, Amounts
<1>4. SumOver(AmountOf(part), part) = SumOver(AmountOf(ids), part)
  BY <1>1, <1>3, SumsAgree
<1>5. SumOver(AmountOf(ids), part) <= SumOver(AmountOf(ids), ids)
  BY <1>3, PartsAreLess
<1> QED
  BY <1>2, <1>4, <1>5

\* What the row has recorded: the total of the ids it keeps, each of which Paynow has
\* returned before unless somebody works by hand.
Recorded ==
    /\ IsFiniteSet(refunds) /\ IsFiniteSet(zwrotyIds)
    /\ zwrocono = Total(zwrotyIds)
    /\ ~byHand =>
         /\ zwrotyIds \subseteq refunds
         /\ \A o \in Operators : step[o] = "record" => MyId(o) \in refunds

\* Nothing is recorded at the start.
LEMMA InitRecorded == RefundInit => Recorded
<1> SUFFICES ASSUME RefundInit PROVE Recorded
  OBVIOUS
<1>1. IsFiniteSet(refunds) /\ IsFiniteSet(zwrotyIds) /\ {} \in SUBSET RefundIds
  BY FS_EmptySet DEF RefundInit
<1>2. Total({}) = 0
  BY <1>1, TotalIsSum, SumOfNone DEF RefundInit
<1> QED
  BY <1>1, <1>2 DEF RefundInit, Recorded

\* A step that does not record keeps it.
LEMMA OthersKeepRecorded ==
    ASSUME RefundIInv, Recorded, IsFiniteSet(refunds'), refunds \subseteq refunds',
           UNCHANGED <<zwrocono, zwrotyIds>>, byHand => byHand',
           ~byHand' => \A o \in Operators : step'[o] = "record" =>
                         \/ step[o] = "record" /\ MyId(o)' = MyId(o)
                         \/ MyId(o)' \in refunds'
    PROVE  Recorded'
<1>1. Total(zwrotyIds)' = Total(zwrotyIds)
  BY DEF Total, MapThenSumSet, MapThenFoldSet
<1> QED
  BY <1>1 DEF Recorded

\* Every step keeps what is recorded within what was returned.
LEMMA StepKeepsRecorded == RefundIInv /\ Recorded /\ [RefundNext]_refundVars => Recorded'
<1> SUFFICES ASSUME RefundIInv, Recorded, [RefundNext]_refundVars PROVE Recorded'
  OBVIOUS
<1>1. CASE UNCHANGED refundVars
  BY <1>1, OthersKeepRecorded DEF Recorded, MyId, refundVars, paymentRow, operator, notes
<1>2. CASE Spend
  BY <1>2, OthersKeepRecorded DEF Recorded, Spend, MyId, paymentRow, operator, notes
<1>3. ASSUME NEW a \in Amounts, MerchantRefund(a) PROVE Recorded'
  <2>1. IsFiniteSet(refunds')
    BY <1>3, FS_AddElement DEF MerchantRefund, Recorded
  <2> QED
    BY <1>3, <2>1, OthersKeepRecorded DEF MerchantRefund, MyId, paymentRow, operator
<1>4. ASSUME NEW o \in Operators, NEW a \in Amounts, NEW byPanel \in BOOLEAN,
             Begin(o, a, byPanel)
      PROVE  Recorded'
  <2>1. \A p \in Operators : p # o => step'[p] = step[p] /\ MyId(p)' = MyId(p)
    BY <1>4 DEF RefundIInv, RefundTypeOK, Begin, MoveTo, MyId
  <2>2. step'[o] = "record" => byHand'
    BY <1>4 DEF RefundIInv, RefundTypeOK, Begin, MoveTo
  <2> QED
    BY <1>4, <2>1, <2>2, OthersKeepRecorded DEF Recorded, Begin, paymentRow
<1>5. ASSUME NEW o \in Operators, Call(o) \/ Refused(o) \/ NoAnswer(o) PROVE Recorded'
  <2>1. /\ refunds' \in {refunds, refunds \cup {MyId(o)}}
        /\ UNCHANGED <<zwrocono, zwrotyIds, panel, kwota, seen, byHand>>
    BY <1>5 DEF Call, Refused, NoAnswer, paymentRow, notes
  <2>2. IsFiniteSet(refunds') /\ refunds \subseteq refunds'
    BY <2>1, FS_AddElement DEF Recorded
  <2>3. \A p \in Operators : MyId(p)' = MyId(p) /\ (p # o => step'[p] = step[p])
    BY <1>5, <2>1 DEF RefundIInv, RefundTypeOK, Call, Refused, NoAnswer, MoveTo, MyId
  <2>4. step'[o] = "record" => MyId(o) \in refunds'
    BY <1>5 DEF RefundIInv, RefundTypeOK, Call, Refused, NoAnswer, MoveTo
  <2> QED
    BY <2>1, <2>2, <2>3, <2>4, OthersKeepRecorded
<1>6. ASSUME NEW o \in Operators, Record(o) PROVE Recorded'
  <2>1. /\ UNCHANGED <<refunds, panel, kwota, seen, byHand>>
        /\ step' = [step EXCEPT ![o] = step'[o]] /\ step'[o] # "record" /\ step[o] = "record"
    BY <1>6 DEF RefundIInv, RefundTypeOK, Record, MoveTo
  <2>2. \A p \in Operators : MyId(p)' = MyId(p) /\ (step'[p] = "record" => step[p] = "record")
    BY <2>1 DEF RefundIInv, RefundTypeOK, MyId
  <2>3. CASE UNCHANGED <<zwrocono, zwrotyIds>>
    BY <2>1, <2>2, <2>3, OthersKeepRecorded DEF Recorded
  <2>4. CASE /\ ~Known(o)
             /\ zwrocono' = zwrocono + kwota[o] /\ zwrotyIds' = zwrotyIds \cup {MyId(o)}
    <3>1. MyId(o) \in RefundIds /\ zwrotyIds \in SUBSET RefundIds /\ MyId(o).amount = kwota[o]
      BY <2>1, IdIsTyped DEF RefundIInv, RefundTypeOK, HasAmount, MyId, Id
    <3>2. zwrocono' = Total(zwrotyIds')
      BY <2>4, <3>1, TotalAdds DEF Recorded, Known
    <3>3. IsFiniteSet(zwrotyIds')
      BY <2>4, FS_AddElement DEF Recorded
    <3>4. Total(zwrotyIds)' = Total(zwrotyIds')
      BY DEF Total, MapThenSumSet, MapThenFoldSet
    <3> QED
      BY <2>1, <2>2, <2>4, <3>2, <3>3, <3>4 DEF Recorded
  <2> QED
    BY <1>6, <2>3, <2>4 DEF Record, paymentRow
<1>7. ASSUME NEW o \in Operators, Report(o) \/ Die(o) PROVE Recorded'
  <2>1. /\ UNCHANGED <<zwrocono, zwrotyIds, refunds, panel, kwota, seen, byHand>>
        /\ step' = [step EXCEPT ![o] = "idle"]
    BY <1>7 DEF Report, Die, MoveTo, paymentRow
  <2>2. \A p \in Operators : MyId(p)' = MyId(p) /\ (step'[p] = "record" => step[p] = "record")
    BY <2>1 DEF RefundIInv, RefundTypeOK, MyId
  <2> QED
    BY <2>1, <2>2, OthersKeepRecorded DEF Recorded
<1> QED
  BY <1>1, <1>2, <1>3, <1>4, <1>5, <1>6, <1>7 DEF RefundNext

-----------------------------------------------------------------------------
(* What follows.                                                           *)

\* The inductive invariant, in every reachable state.
THEOREM RefundInvariant == RefundSpec => []RefundIInv
BY RefundInitIInv, RefundStepKeepsIInv, PTL DEF RefundSpec

\* The state has its type; the balance stays a natural number.
THEOREM RefundTypeCorrect == RefundSpec => []RefundTypeOK
<1>1. RefundIInv => RefundTypeOK
  BY DEF RefundIInv
<1> QED
  BY <1>1, RefundInvariant, PTL

\* However many operators record refunds at once, together they do not exceed the
\* payment, and the wallet loses no more than was recorded.
THEOREM NeverMoreThanPaid == RefundSpec => []WithinPayment
<1>1. RefundIInv => WithinPayment
  BY DEF RefundIInv
<1> QED
  BY <1>1, RefundInvariant, PTL

\* A refund that Paynow made for a request that did not die is recorded, or an
\* operator was told to look for it.
THEOREM NoRefundIsOverlooked == RefundSpec => []RefundIsRecordedOrTold
<1>1. RefundIInv => RefundIsRecordedOrTold
  BY DEF RefundIInv, Followed, RefundIsRecordedOrTold
<1> QED
  BY <1>1, RefundInvariant, PTL

\* What was recorded is out of the wallet, or an operator was told of a refund that
\* the balance did not cover.
THEOREM NoShortageIsOverlooked == RefundSpec => []RecordedIsTakenOrTold
<1>1. RefundIInv => RecordedIsTakenOrTold
  BY DEF RefundIInv, RefundTypeOK, ShortageFollowed, RecordedIsTakenOrTold
<1> QED
  BY <1>1, RefundInvariant, PTL

\* As long as nobody records or refunds by hand, the row says no more than Paynow has
\* returned, whatever answers are lost and requests retried.
THEOREM OnlyReturnedIsRecorded == RefundSpec => []RecordedWasReturned
<1>1. RefundInit => RefundIInv /\ Recorded
  BY RefundInitIInv, InitRecorded
<1>2. RefundIInv /\ Recorded /\ [RefundNext]_refundVars => RefundIInv' /\ Recorded'
  BY RefundStepKeepsIInv, StepKeepsRecorded
<1>3. RefundIInv /\ Recorded => RecordedWasReturned
  <2> SUFFICES ASSUME RefundIInv, Recorded, ~byHand PROVE zwrocono <= Returned
    BY DEF RecordedWasReturned
  <2>1. refunds \in SUBSET RefundIds /\ zwrotyIds \in SUBSET refunds /\ IsFiniteSet(refunds)
    BY DEF RefundIInv, RefundTypeOK, Recorded
  <2>2. Total(zwrotyIds) <= Total(refunds)
    BY <2>1, TotalOfPart
  <2> QED
    BY <2>2 DEF Recorded, Returned
<1> QED
  BY <1>1, <1>2, <1>3, PTL DEF RefundSpec

=============================================================================
