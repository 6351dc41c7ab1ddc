----------------------- MODULE AutoscaleBillingProofs -----------------------
(***************************************************************************)
(* For every price list, length of a block, balance, and number of changes *)
(* of the level and of errors: what rounding leaves is carried on, a claim *)
(* is charged or left where a run stopped, and the statement has a block   *)
(* once.                                                                   *)
(***************************************************************************)
EXTENDS AutoscaleBilling, SumTheorems

-----------------------------------------------------------------------------
(* Operators of the model.                                                 *)

\* The least of two numbers.
LEMMA LessOf ==
    ASSUME NEW a \in Int, NEW b \in Int
    PROVE  Min({a, b}) = IF a <= b THEN a ELSE b
  BY DEF Min

\* Rounding moves a price by half a grosz at most.
LEMMA RoundedIs ==
    ASSUME NEW x \in Int
    PROVE  Rounded(x) \in Int /\ x - Rounded(x) \in Carries
<1> DEFINE q == (2 * x + Grosz) \div (2 * Grosz)
<1>1. Grosz \in Nat \ {0}
  BY BillingConstants
<1>2. /\ q \in Int /\ 2 * x + Grosz >= (2 * Grosz) * q
      /\ 2 * x + Grosz < (2 * Grosz) * q + 2 * Grosz
  BY <1>1
<1>3. (2 * Grosz) * q = 2 * (q * Grosz) /\ q * Grosz \in Int
  BY <1>1, <1>2
<1>4. Rounded(x) = q * Grosz
  BY DEF Rounded
<1> HIDE DEF q
<1>5. 2 * (x - Rounded(x)) >= -Grosz /\ 2 * (x - Rounded(x)) <= Grosz
  BY <1>1, <1>2, <1>3, <1>4
<1> QED
  BY <1>1, <1>3, <1>4, <1>5 DEF Carries

\* A product of integers divided by the length of a block.
LEMMA PartIsInt ==
    ASSUME NEW a \in Int, NEW b \in Int
    PROVE  (a * b) \div BlockLen \in Int
<1>1. BlockLen \in Nat \ {0} /\ a * b \in Int
  BY BillingConstants
<1> QED
  BY <1>1

\* u lies on the grid of blocks that begins at x.
OnGrid(x, u) == \E n \in Nat : u = x + n * BlockLen

\* Blocks one after the other: a number is on its own grid, and the grid moves by blocks.
LEMMA Grid ==
    ASSUME NEW x \in Int, NEW u \in Int
    PROVE  /\ OnGrid(x, x)
           /\ OnGrid(x, u) => x <= u /\ OnGrid(x, u + BlockLen)
           /\ OnGrid(x, u) /\ x # u => OnGrid(x, u - BlockLen)
<1>1. BlockLen \in Nat \ {0}
  BY BillingConstants
<1>2. OnGrid(x, x)
  <2>1. x = x + 0 * BlockLen
    BY <1>1
  <2> QED
    BY <2>1 DEF OnGrid
<1>3. ASSUME NEW n \in Nat, u = x + n * BlockLen
      PROVE  /\ x <= u /\ OnGrid(x, u + BlockLen)
             /\ x # u => OnGrid(x, u - BlockLen)
  <2>1. n * BlockLen \in Nat /\ (n + 1) * BlockLen = n * BlockLen + BlockLen
    BY <1>1
  <2>2. x <= u
    BY <1>3, <2>1
  <2>3. u + BlockLen = x + (n + 1) * BlockLen /\ n + 1 \in Nat
    BY <1>1, <1>3, <2>1
  <2>4. OnGrid(x, u + BlockLen)
    BY <2>3 DEF OnGrid
  <2>5. ASSUME x # u PROVE OnGrid(x, u - BlockLen)
    <3>1. n # 0
      BY <1>1, <1>3, <2>5
    <3>2. n - 1 \in Nat /\ (n - 1) * BlockLen = n * BlockLen - BlockLen
      BY <1>1, <3>1
    <3>3. u - BlockLen = x + (n - 1) * BlockLen
      BY <1>1, <1>3, <2>1, <3>2
    <3> QED
      BY <3>2, <3>3 DEF OnGrid
  <2> QED
    BY <2>2, <2>4, <2>5
<1>4. OnGrid(x, u) => \E n \in Nat : u = x + n * BlockLen
  BY DEF OnGrid
<1> QED
  BY <1>2, <1>3, <1>4

\* Times are pairs of integers.
LEMMA TimesAre ==
    ASSUME NEW u \in Times
    PROVE  /\ u = <<u[1], u[2]>>
           /\ u[1] \in 0 .. MaxScales
           /\ u[2] \in -BlockLen .. MaxTime + BlockLen /\ u[2] \in Int
           /\ End(u) = <<u[1], u[2] + BlockLen>> /\ Start(u) = <<u[1], u[2] - BlockLen>>
           /\ Start(End(u)) = u /\ End(Start(u)) = u /\ End(u) # u
<1>1. BlockLen \in Nat \ {0} /\ {MaxTime, MaxScales} \subseteq Nat
  BY BillingConstants
<1>2. PICK a \in 0 .. MaxScales, b \in -BlockLen .. MaxTime + BlockLen : u = <<a, b>>
  BY DEF Times
<1> QED
  BY <1>1, <1>2 DEF Start, End

\* What the bounds allow as a boundary of the row.
LEMMA TimesHave ==
    ASSUME NEW a \in 0 .. MaxScales, NEW b \in -BlockLen .. MaxTime + BlockLen
    PROVE  <<a, b>> \in Times
  BY DEF Times

\* Level 0 is "not raised"; every other level has its price.
LEMMA LevelsAre ==
    /\ Levels \subseteq Nat /\ 0 \in Levels /\ Runs = {"engine", "cron"}
    /\ \A l \in Levels : l > 0 <=> l \in DOMAIN Cost
    /\ \A l \in DOMAIN Cost : l \in Levels /\ Cost[l] \in Nat
    /\ Grosz \in Nat \ {0} /\ BlockLen \in Nat \ {0} /\ MaxTime \in Nat /\ MaxScales \in Nat
    /\ MaxErrors \in Nat /\ Pool \in Nat /\ Balance \in Nat
  BY BillingConstants DEF Levels, Runs

-----------------------------------------------------------------------------
(* What a run is.                                                          *)

Spots == {"idle", "looked", "next", "compare", "claim"} \cup Billing

RunType ==
    [pc : Spots, part : {"block", "topup"}, at : 0 .. MaxTime, mine : Levels,
     next : Times, seen : [until : Times, carry : Carries, paid : Levels]]

Pending(p) == run[p].pc \in Billing

\* A run that bills for a level, from a boundary.
Active(p) == run[p].pc \notin {"idle", "looked"}

\* What of a run its key and its price depend on.
SameBill(p) ==
    /\ run'[p].part = run[p].part /\ run'[p].at = run[p].at /\ run'[p].mine = run[p].mine
    /\ run'[p].next = run[p].next /\ run'[p].seen = run[p].seen

OthersStay(p) == \A q \in Runs : q # p => run'[q] = run[q]

\* What a run holds while the types are right.
LEMMA RunsAre ==
    ASSUME TypeOK
    PROVE  /\ run \in [Runs -> RunType]
           /\ \A p \in Runs :
                /\ run[p] \in RunType /\ run[p].pc \in Spots
                /\ run[p].part \in {"block", "topup"}
                /\ run[p].at \in 0 .. MaxTime /\ run[p].mine \in Levels
                /\ run[p].next \in Times /\ run[p].seen.until \in Times
                /\ run[p].seen.carry \in Carries /\ run[p].seen.paid \in Levels
  BY DEF TypeOK, RunType, Spots

\* A run that is at nothing.
LEMMA IdleIs ==
    /\ Idle \in RunType /\ None \in Times /\ 0 \in Carries /\ None = <<0, 0>>
    /\ Idle.pc = "idle"
<1>1. None \in Times /\ 0 \in Carries
  BY LevelsAre, TimesHave DEF None, Carries
<1> QED
  BY <1>1, LevelsAre DEF Idle, Unread, RunType, Spots, None

\* A run that goes on keeps its bill, and the other run is untouched.
LEMMA Going ==
    ASSUME run \in [Runs -> RunType], NEW p \in Runs, NEW place \in Spots, Goto(p, place)
    PROVE  /\ run' \in [Runs -> RunType] /\ OthersStay(p)
           /\ run'[p].pc = place /\ SameBill(p)
  BY DEF Goto, RunType, OthersStay, SameBill

\* A run that stops forgets its bill.
LEMMA Stopping ==
    ASSUME run \in [Runs -> RunType], NEW p \in Runs, Stop(p)
    PROVE  run' \in [Runs -> RunType] /\ OthersStay(p) /\ run'[p] = Idle /\ run'[p].pc = "idle"
  BY IdleIs DEF Stop, OthersStay

\* A run that begins starts at the boundary it was given.
LEMMA Beginning ==
    ASSUME run \in [Runs -> RunType], NEW p \in Runs, now \in 0 .. MaxTime,
           NEW l \in Levels, NEW boundary \in Times, Begin(p, l, boundary)
    PROVE  /\ run' \in [Runs -> RunType] /\ OthersStay(p)
           /\ run'[p].pc = "next" /\ run'[p].at = now /\ run'[p].mine = l
           /\ run'[p].next = boundary
<1>1. Idle \in RunType
  BY IdleIs
<1>2. [Idle EXCEPT !.pc = "next", !.at = now, !.mine = l, !.next = boundary] \in RunType
  BY <1>1 DEF RunType, Spots
<1> QED
  BY <1>1, <1>2 DEF Begin, OthersStay, Idle

\* A run that read the row holds what the row said.
LEMMA Seeing ==
    ASSUME run \in [Runs -> RunType], NEW p \in Runs, NEW kind \in {"block", "topup"},
           until \in Times, carry \in Carries, paid \in Levels, See(p, kind)
    PROVE  /\ run' \in [Runs -> RunType] /\ OthersStay(p)
           /\ run'[p].pc = "claim" /\ run'[p].part = kind
           /\ run'[p].at = run[p].at /\ run'[p].mine = run[p].mine /\ run'[p].next = run[p].next
           /\ run'[p].seen.until = until /\ run'[p].seen.carry = carry
           /\ run'[p].seen.paid = paid
  BY ZenonT(40) DEF See, RunType, Spots, OthersStay

\* After a block comes the next one; after a raise, nothing.
LEMMA Proceeding ==
    ASSUME run \in [Runs -> RunType], NEW p \in Runs, Proceed(p),
           IsBlock(p) => End(run[p].next) \in Times
    PROVE  /\ run' \in [Runs -> RunType] /\ OthersStay(p)
           /\ IF IsBlock(p)
              THEN /\ run'[p].pc = "next" /\ run'[p].next = End(run[p].next)
                   /\ run'[p].at = run[p].at /\ run'[p].mine = run[p].mine
              ELSE run'[p].pc = "idle"
<1>1. CASE IsBlock(p)
  <2>1. Unread \in [until : Times, carry : Carries, paid : Levels]
    BY IdleIs, LevelsAre DEF Unread
  <2> QED
    BY SMTT(30), <1>1, <2>1 DEF Proceed, RunType, Spots, OthersStay
<1>2. CASE ~IsBlock(p)
  BY <1>2, Stopping DEF Proceed
<1> QED
  BY <1>1, <1>2

-----------------------------------------------------------------------------
(* What a run bills for, and when.                                         *)

\* The account above its plan has the boundary of its episode; the engine bills
\* from the boundary it has read.  It has looked once for each change.
LevelFits ==
    /\ IF level > 0 THEN until[1] = episode /\ episode >= 1 ELSE until = None
    /\ At("engine", "looked") /\ level > 0 => run["engine"].next[1] = episode
    /\ ~At("cron", "looked")
    /\ episode <= scales /\ (At("engine", "looked") => episode < scales)

\* A block that has begun; a raise inside a block, from a lower level.
RunFits(p) ==
    Active(p) =>
      /\ run[p].mine \in DOMAIN Cost /\ run[p].at <= now
      /\ run[p].next[1] \in 1 .. episode
      /\ At(p, "claim") \/ Pending(p) =>
           IF IsBlock(p) THEN run[p].next[2] <= run[p].at
           ELSE /\ run[p].seen.until[1] \in 1 .. episode
                /\ run[p].seen.until[2] > run[p].at
                /\ 0 < run[p].seen.paid /\ run[p].seen.paid < run[p].mine

Fits == TypeOK /\ LevelFits /\ \A p \in Runs : RunFits(p)

\* The block a claim is for, and what is left of its price.
Begun(p) == IF IsBlock(p) THEN run[p].next ELSE Start(run[p].seen.until)
Rest(p) == Exact(p) - Amount(p)

\* The arithmetic of a claim: where its block begins and ends, its key, and its price, its
\* amount and the rest between them.
LEMMA ClaimsAre ==
    ASSUME Fits, NEW p \in Runs, At(p, "claim") \/ Pending(p)
    PROVE  /\ Price(p) \in Int /\ Exact(p) \in Int /\ Amount(p) \in Int
           /\ Rest(p) \in Carries /\ Rest(p) = Price(p) + run[p].seen.carry - Amount(p)
           /\ Key(p) \in Keys /\ Begun(p) \in Times /\ Claimed(p) \in Times
           /\ Key(p) = <<Begun(p), IF IsBlock(p) THEN 0 ELSE run[p].mine>>
           /\ Claimed(p) = End(Begun(p)) /\ Begun(p) = Start(Claimed(p))
           /\ Claimed(p)[1] \in 1 .. episode
           /\ Claimed(p)[1] = Begun(p)[1]
           /\ Claimed(p)[2] = Begun(p)[2] + BlockLen
           /\ IsBlock(p) => Claimed(p) = End(run[p].next) /\ Begun(p) = run[p].next
           /\ ~IsBlock(p) => Claimed(p) = run[p].seen.until
<1> DEFINE r == run[p]
<1>1. /\ r.at \in 0 .. MaxTime /\ r.mine \in Levels /\ r.next \in Times
      /\ r.seen.until \in Times /\ r.seen.carry \in Carries /\ r.seen.paid \in Levels
  BY RunsAre DEF Fits
<1>2. /\ r.mine \in DOMAIN Cost /\ r.next[1] \in 1 .. episode
      /\ IsBlock(p) => r.next[2] <= r.at
      /\ ~IsBlock(p) => /\ r.seen.until[1] \in 1 .. episode /\ r.seen.until[2] > r.at
                        /\ 0 < r.seen.paid /\ r.seen.paid < r.mine
  BY DEF Fits, RunFits, Active, At, Pending, Billing
<1>3. /\ r.next = <<r.next[1], r.next[2]>> /\ r.next[1] \in 0 .. MaxScales
      /\ r.next[2] \in -BlockLen .. MaxTime + BlockLen
      /\ End(r.next) = <<r.next[1], r.next[2] + BlockLen>> /\ Start(End(r.next)) = r.next
  BY <1>1, TimesAre
<1>4. /\ r.seen.until = <<r.seen.until[1], r.seen.until[2]>>
      /\ r.seen.until[1] \in 0 .. MaxScales
      /\ r.seen.until[2] \in -BlockLen .. MaxTime + BlockLen
      /\ Start(r.seen.until) = <<r.seen.until[1], r.seen.until[2] - BlockLen>>
      /\ End(Start(r.seen.until)) = r.seen.until
  BY <1>1, TimesAre
<1>5. Price(p) \in Int
  <2>1. CASE IsBlock(p)
    BY <1>2, <2>1, LevelsAre DEF Price
  <2>2. CASE ~IsBlock(p)
    <3>1. r.seen.paid \in DOMAIN Cost
      BY <1>1, <1>2, <2>2, LevelsAre
    <3>2. Cost[r.mine] - Cost[r.seen.paid] \in Int /\ r.seen.until[2] - r.at \in Int
      BY <1>1, <1>2, <1>4, <3>1, LevelsAre
    <3>3. ((Cost[r.mine] - Cost[r.seen.paid]) * (r.seen.until[2] - r.at)) \div BlockLen \in Int
      BY <3>2, PartIsInt
    <3> QED
      BY <2>2, <3>3 DEF Price
  <2> QED
    BY <2>1, <2>2
<1>6. r.seen.carry \in Int
  BY <1>1 DEF Carries
<1>7. Exact(p) \in Int
  BY <1>5, <1>6 DEF Exact
<1>8. Amount(p) \in Int /\ Rest(p) \in Carries
  BY <1>7, RoundedIs DEF Amount, Rest
<1>9. Rest(p) = Price(p) + r.seen.carry - Amount(p)
  BY <1>5, <1>6, <1>7, <1>8 DEF Rest, Exact
<1>10. /\ End(r.next) \in Times \/ ~IsBlock(p)
       /\ Start(r.seen.until) \in Times \/ IsBlock(p)
  <2>1. CASE IsBlock(p)
    <3>1. r.next[2] + BlockLen \in -BlockLen .. MaxTime + BlockLen
      BY <1>1, <1>2, <1>3, <2>1, LevelsAre
    <3> QED
      BY <1>3, <2>1, <3>1, TimesHave
  <2>2. CASE ~IsBlock(p)
    <3>1. r.seen.until[2] - BlockLen \in -BlockLen .. MaxTime + BlockLen
      BY <1>1, <1>2, <1>4, <2>2, LevelsAre
    <3> QED
      BY <1>4, <2>2, <3>1, TimesHave
  <2> QED
    BY <2>1, <2>2
<1>11. /\ Begun(p) \in Times /\ Claimed(p) \in Times
       /\ Claimed(p) = End(Begun(p)) /\ Begun(p) = Start(Claimed(p))
       /\ Claimed(p)[1] \in 1 .. episode
       /\ Claimed(p)[1] = Begun(p)[1]
       /\ Claimed(p)[2] = Begun(p)[2] + BlockLen
  <2>1. CASE IsBlock(p)
    BY <1>1, <1>2, <1>3, <1>10, <2>1 DEF Begun, Claimed
  <2>2. CASE ~IsBlock(p)
    <3>1. r.seen.until[2] = (r.seen.until[2] - BlockLen) + BlockLen
      BY <1>4, LevelsAre
    <3> QED
      BY <1>1, <1>2, <1>4, <1>10, <2>2, <3>1 DEF Begun, Claimed
  <2> QED
    BY <2>1, <2>2
<1>12. Key(p) = <<Begun(p), IF IsBlock(p) THEN 0 ELSE r.mine>>
  BY DEF Key, Begun
<1>13. Key(p) \in Keys
  BY <1>1, <1>11, <1>12, LevelsAre DEF Keys
<1> QED
  BY <1>5, <1>7, <1>8, <1>9, <1>11, <1>12, <1>13 DEF Begun, Claimed

\* A run that goes on as it was bills for the same.
LEMMA SameBills ==
    ASSUME NEW p \in Runs, SameBill(p)
    PROVE  /\ Price(p)' = Price(p) /\ Exact(p)' = Exact(p) /\ Amount(p)' = Amount(p)
           /\ Rest(p)' = Rest(p) /\ Key(p)' = Key(p) /\ Begun(p)' = Begun(p)
           /\ Claimed(p)' = Claimed(p) /\ IsBlock(p)' = IsBlock(p)
<1>1. IsBlock(p)' = IsBlock(p)
  BY DEF SameBill, IsBlock
<1>2. Price(p)' = Price(p)
  BY <1>1 DEF SameBill, Price
<1>3. Exact(p)' = Exact(p) /\ Amount(p)' = Amount(p) /\ Rest(p)' = Rest(p)
  BY <1>2 DEF SameBill, Exact, Amount, Rounded, Rest
<1> QED
  BY <1>1, <1>2, <1>3 DEF SameBill, Key, Begun, Claimed

-----------------------------------------------------------------------------
(* Types and fits are kept.                                                *)

\* What a step of one run leaves right about the other.
LEMMA OtherFits ==
    ASSUME Fits, NEW q \in Runs, run'[q] = run[q], now' \in Int, now <= now',
           episode' \in Int, episode <= episode'
    PROVE  RunFits(q)'
<1>1. RunFits(q) /\ run[q].at \in Int /\ now \in Int /\ episode \in Int
  BY RunsAre DEF Fits, TypeOK
<1>2. \A u \in Times : u[1] \in Int
  BY TimesAre
<1>3. run[q].next[1] \in Int /\ run[q].seen.until[1] \in Int
  BY <1>2, RunsAre DEF Fits
<1> QED
  BY <1>1, <1>3 DEF RunFits, Active, At, Pending, IsBlock

\* A run that does not bill for anything fits.
LEMMA RestFits ==
    ASSUME NEW p \in Runs, run'[p].pc \in {"idle", "looked"}
    PROVE  RunFits(p)'
  BY DEF RunFits, Active

\* A step of a run on a level that stays.
LEMMA BillKeepsLevel ==
    ASSUME Fits, NEW p \in Runs, OthersStay(p), UNCHANGED <<level, episode, scales>>,
           run'[p].pc # "looked",
           until' = until \/ (level > 0 /\ until'[1] = until[1])
    PROVE  LevelFits'
  BY LevelsAre DEF Fits, LevelFits, OthersStay, At

\* A step of a run on its bill keeps types and ranges.
LEMMA BillKeepsFits ==
    ASSUME Fits, NEW p \in Runs, OthersStay(p), UNCHANGED <<level, outside, clock, scales>>,
           run' \in [Runs -> RunType], run'[p].pc # "looked", RunFits(p)',
           until' = until \/ (level > 0 /\ until'[1] = until[1] /\ until' \in Times),
           carry' \in Carries, paid' \in Levels, pool' \in 0 .. Pool, balance' \in 0 .. Balance,
           {DOMAIN charged', DOMAIN rows', DOMAIN book', lost', unsure'} \subseteq SUBSET Keys,
           errors' \in 0 .. MaxErrors
    PROVE  Fits'
<1>1. LevelFits'
  BY BillKeepsLevel DEF clock
<1>2. \A q \in Runs : RunFits(q)'
  <2>1. now' \in Int /\ now <= now' /\ episode' \in Int /\ episode <= episode'
    BY DEF Fits, TypeOK, clock
  <2> QED
    BY <2>1, OtherFits DEF OthersStay
<1>3. TypeOK'
  BY DEF Fits, TypeOK, clock, RunType, Spots
<1> QED
  BY <1>1, <1>2, <1>3 DEF Fits

\* Look keeps types and ranges.
LEMMA LookKeepsFits == ASSUME Fits, Look PROVE Fits'
<1>1. /\ run \in [Runs -> RunType] /\ "engine" \in Runs /\ until \in Times
      /\ scales \in 0 .. MaxScales /\ now \in Int /\ episode \in Int
  BY RunsAre, LevelsAre DEF Fits, TypeOK
<1>2. /\ run' \in [Runs -> RunType] /\ OthersStay("engine")
      /\ run'["engine"].pc = "looked" /\ run'["engine"].next = until
  BY ZenonT(40), <1>1 DEF Look, RunType, Spots, OthersStay
<1>3. scales' \in 0 .. MaxScales
  BY <1>1, LevelsAre DEF Look, Fits, TypeOK
<1>4. LevelFits'
  BY <1>1, <1>2, LevelsAre
     DEF Fits, LevelFits, Look, OthersStay, At, row, clock, TypeOK
<1>5. \A q \in Runs : RunFits(q)'
  BY <1>1, <1>2, OtherFits, RestFits DEF Look, OthersStay, clock
<1>6. TypeOK'
  BY <1>2, <1>3 DEF Fits, TypeOK, Look, RunType, Spots, row, money, clock, ghosts
<1> QED
  BY <1>4, <1>5, <1>6 DEF Fits

\* BeginCron keeps types and ranges.
LEMMA BeginCronKeepsFits == ASSUME Fits, BeginCron PROVE Fits'
<1>1. /\ run \in [Runs -> RunType] /\ "cron" \in Runs /\ until \in Times
      /\ now \in 0 .. MaxTime /\ level \in Levels
  BY RunsAre, LevelsAre DEF Fits, TypeOK
<1>2. /\ run' \in [Runs -> RunType] /\ OthersStay("cron")
      /\ run'["cron"].pc = "next" /\ run'["cron"].at = now
      /\ run'["cron"].mine = level /\ run'["cron"].next = until
  BY <1>1, Beginning DEF BeginCron
<1>3. /\ level \in DOMAIN Cost /\ until[1] = episode /\ episode >= 1
      /\ now \in Int /\ episode \in Int
  BY LevelsAre, <1>1 DEF Fits, LevelFits, BeginCron, TypeOK
<1>4. RunFits("cron")'
  BY <1>2, <1>3, LevelsAre DEF RunFits, Active, At, Pending, Billing, BeginCron, clock
<1> QED
  BY <1>1, <1>2, <1>4, BillKeepsFits
     DEF BeginCron, row, money, clock, ghosts, Fits, TypeOK

\* Tick keeps types and ranges.
LEMMA TickKeepsFits == ASSUME Fits, Tick PROVE Fits'
<1>1. now \in 0 .. MaxTime /\ now' \in 0 .. MaxTime /\ now <= now' /\ episode \in Int
  BY LevelsAre DEF Fits, TypeOK, Tick
<1>2. \A q \in Runs : RunFits(q)'
  BY <1>1, OtherFits, LevelsAre DEF Tick
<1>3. LevelFits'
  BY DEF Fits, LevelFits, Tick, At, row
<1>4. TypeOK'
  BY <1>1 DEF Fits, TypeOK, Tick, row, money, ghosts
<1> QED
  BY <1>2, <1>3, <1>4 DEF Fits

\* Scale keeps types and ranges.
LEMMA ScaleKeepsFits == ASSUME Fits, NEW l \in Levels, Scale(l) PROVE Fits'
<1>1. /\ run \in [Runs -> RunType] /\ "engine" \in Runs /\ until \in Times
      /\ now \in 0 .. MaxTime /\ level \in Levels /\ episode \in 0 .. MaxScales
      /\ scales \in 0 .. MaxScales /\ run["engine"].next \in Times
  BY RunsAre, LevelsAre DEF Fits, TypeOK
<1>2. /\ episode' \in 0 .. MaxScales /\ episode <= episode' /\ episode' <= scales
  BY <1>1, LevelsAre DEF Scale, Fits, LevelFits
<1>3. until' \in Times
  <2>1. now \in -BlockLen .. MaxTime + BlockLen
    BY <1>1, LevelsAre
  <2>2. <<episode', now>> \in Times
    BY <1>2, <2>1, TimesHave
  <2> QED
    BY <1>1, <2>2, IdleIs DEF Scale
<1>4. IF l = 0
      THEN run'["engine"].pc = "idle" /\ run' \in [Runs -> RunType] /\ OthersStay("engine")
      ELSE /\ run' \in [Runs -> RunType] /\ OthersStay("engine")
           /\ run'["engine"].pc = "next" /\ run'["engine"].at = now
           /\ run'["engine"].mine = l
           /\ run'["engine"].next = IF level = 0 THEN until' ELSE run["engine"].next
  BY <1>1, <1>3, Stopping, Beginning DEF Scale
<1>5. l # 0 => episode' >= 1 /\ run'["engine"].next[1] = episode' /\ until'[1] = episode'
  <2>1. CASE level = 0
    BY <1>1, <1>4, <2>1 DEF Scale
  <2>2. CASE level # 0
    BY <1>1, <1>4, <2>2, LevelsAre DEF Scale, Fits, LevelFits
  <2> QED
    BY <2>1, <2>2
<1>6. LevelFits'
  BY <1>1, <1>2, <1>4, <1>5, LevelsAre DEF Scale, Fits, LevelFits, OthersStay, At
<1>7. RunFits("engine")'
  <2>1. CASE l = 0
    BY <1>4, <2>1, RestFits, <1>1
  <2>2. CASE l # 0
    BY <1>1, <1>2, <1>4, <1>5, <2>2, LevelsAre
       DEF RunFits, Active, At, Pending, Billing, Scale
  <2> QED
    BY <2>1, <2>2
<1>8. \A q \in Runs : RunFits(q)'
  <2>1. now' = now /\ now \in Int /\ episode \in Int /\ episode' \in Int
    BY <1>1, <1>2 DEF Scale
  <2> QED
    BY <1>2, <1>4, <1>7, <2>1, OtherFits DEF OthersStay
<1>9. TypeOK'
  BY <1>1, <1>2, <1>3, <1>4 DEF Fits, TypeOK, Scale, money, ghosts, RunType, Spots
<1> QED
  BY <1>6, <1>8, <1>9 DEF Fits

\* Read keeps types and ranges.
LEMMA ReadKeepsFits ==
    ASSUME Fits, NEW p \in Runs, ReadBlock(p) \/ ReadRaise(p)
    PROVE  Fits'
<1>1. /\ run \in [Runs -> RunType] /\ until \in Times /\ carry \in Carries /\ paid \in Levels
      /\ RunFits(p) /\ run[p].pc \in {"next", "compare"} /\ run[p].mine \in Levels
      /\ "compare" \in Spots
  BY RunsAre DEF Fits, TypeOK, ReadBlock, ReadRaise, At, Spots
<1>2. run[p].mine \in DOMAIN Cost /\ run[p].at <= now /\ run[p].next[1] \in 1 .. episode
  BY <1>1 DEF RunFits, Active
<1>3. CASE ReadBlock(p) /\ run[p].next[2] <= run[p].at
  <2>1. See(p, "block")
    BY <1>3 DEF ReadBlock
  <2>2. RunFits(p)'
    BY <1>1, <1>2, <1>3, <2>1, Seeing
       DEF RunFits, Active, At, Pending, Billing, IsBlock, ReadBlock, clock
  <2> QED
    BY <1>1, <1>3, <2>1, <2>2, Seeing, BillKeepsFits
       DEF ReadBlock, row, money, clock, ghosts, Fits, TypeOK
<1>4. CASE ReadBlock(p) /\ ~(run[p].next[2] <= run[p].at)
  <2>1. Goto(p, "compare")
    BY <1>4 DEF ReadBlock
  <2>2. RunFits(p)'
    BY <1>1, <1>2, <1>4, <2>1, Going
       DEF RunFits, Active, At, Pending, Billing, SameBill, ReadBlock, clock
  <2> QED
    BY <1>1, <1>4, <2>1, <2>2, Going, BillKeepsFits
       DEF ReadBlock, row, money, clock, ghosts, Fits, TypeOK
<1>5. CASE ReadRaise(p) /\ Inside(p) /\ 0 < paid /\ paid < run[p].mine
  <2>1. See(p, "topup") /\ paid' = paid
    BY <1>5, <1>1, LevelsAre DEF ReadRaise
  <2>2. /\ level > 0 /\ until[1] = episode /\ episode >= 1
        /\ until[2] > run[p].at /\ episode \in Int
    BY <1>5, LevelsAre DEF Fits, LevelFits, Inside, TypeOK
  <2>3. RunFits(p)'
    BY <1>1, <1>2, <1>5, <2>1, <2>2, Seeing
       DEF RunFits, Active, At, Pending, Billing, IsBlock, ReadRaise, clock
  <2> QED
    BY <1>1, <1>5, <2>1, <2>3, Seeing, BillKeepsFits
       DEF ReadRaise, money, clock, ghosts, Fits, TypeOK
<1>6. CASE ReadRaise(p) /\ ~(Inside(p) /\ 0 < paid /\ paid < run[p].mine)
  <2>1. Stop(p) /\ paid' \in Levels
    BY <1>6, <1>1 DEF ReadRaise
  <2>2. /\ run' \in [Runs -> RunType] /\ OthersStay(p) /\ run'[p].pc = "idle"
    BY <1>1, <2>1, Stopping
  <2> QED
    BY <1>1, <1>6, <2>1, <2>2, RestFits, BillKeepsFits
       DEF ReadRaise, money, clock, ghosts, Fits, TypeOK
<1> QED
  BY <1>3, <1>4, <1>5, <1>6

\* A run moves on in its bill, proceeds to the next one, or stops.
LEMMA MoveFits ==
    ASSUME Fits, NEW p \in Runs, At(p, "claim") \/ Pending(p), UNCHANGED clock,
           \/ \E place \in Billing \cup {"compare"} : Goto(p, place)
           \/ Proceed(p) \/ Stop(p)
    PROVE  /\ run' \in [Runs -> RunType] /\ OthersStay(p)
           /\ run'[p].pc # "looked" /\ RunFits(p)'
<1>1. run \in [Runs -> RunType] /\ RunFits(p) /\ Active(p)
  BY RunsAre DEF Fits, At, Pending, Billing, Active
<1>2. /\ run[p].mine \in DOMAIN Cost /\ run[p].at <= now /\ run[p].next[1] \in 1 .. episode
      /\ IF IsBlock(p) THEN run[p].next[2] <= run[p].at
         ELSE /\ run[p].seen.until[1] \in 1 .. episode
              /\ run[p].seen.until[2] > run[p].at
              /\ 0 < run[p].seen.paid /\ run[p].seen.paid < run[p].mine
  BY <1>1 DEF RunFits
<1>3. ASSUME NEW place \in Billing \cup {"compare"}, Goto(p, place)
      PROVE  /\ run' \in [Runs -> RunType] /\ OthersStay(p)
             /\ run'[p].pc # "looked" /\ RunFits(p)'
  <2>1. /\ run' \in [Runs -> RunType] /\ OthersStay(p) /\ run'[p].pc = place /\ SameBill(p)
    BY <1>1, <1>3, Going DEF Spots
  <2>2. run'[p].pc # "looked"
    BY <2>1 DEF Billing
  <2>3. RunFits(p)'
    BY <1>2, <2>1 DEF RunFits, SameBill, IsBlock, clock
  <2> QED
    BY <2>1, <2>2, <2>3
<1>4. ASSUME Proceed(p)
      PROVE  /\ run' \in [Runs -> RunType] /\ OthersStay(p)
             /\ run'[p].pc # "looked" /\ RunFits(p)'
  <2>1. IsBlock(p) => /\ End(run[p].next) \in Times
                      /\ End(run[p].next)[1] \in 1 .. episode
    BY ClaimsAre
  <2>2. /\ run' \in [Runs -> RunType] /\ OthersStay(p)
        /\ IF IsBlock(p)
           THEN /\ run'[p].pc = "next" /\ run'[p].next = End(run[p].next)
                /\ run'[p].at = run[p].at /\ run'[p].mine = run[p].mine
           ELSE run'[p].pc = "idle"
    BY <1>1, <1>4, <2>1, Proceeding
  <2>3. run'[p].pc # "looked"
    BY <2>2
  <2>4. RunFits(p)'
    BY <1>2, <2>1, <2>2 DEF RunFits, clock, Active, At, Pending, Billing
  <2> QED
    BY <2>2, <2>3, <2>4
<1>5. ASSUME Stop(p)
      PROVE  /\ run' \in [Runs -> RunType] /\ OthersStay(p)
             /\ run'[p].pc # "looked" /\ RunFits(p)'
  BY <1>1, <1>5, Stopping, RestFits
<1> QED
  BY <1>3, <1>4, <1>5

\* Claim keeps types and ranges.
LEMMA ClaimKeepsFits == ASSUME Fits, NEW p \in Runs, Claim(p) PROVE Fits'
<1>1. /\ At(p, "claim") /\ UNCHANGED clock
      /\ (\E place \in Billing \cup {"compare"} : Goto(p, place)) \/ Proceed(p)
  BY DEF Claim, Billing
<1>2. /\ run' \in [Runs -> RunType] /\ OthersStay(p)
      /\ run'[p].pc # "looked" /\ RunFits(p)'
  BY <1>1, MoveFits
<1>3. /\ Rest(p) \in Carries /\ Key(p) \in Keys /\ Claimed(p) \in Times
      /\ Claimed(p)[1] = Begun(p)[1] /\ Claimed(p)[1] >= 1
      /\ IsBlock(p) => Claimed(p) = End(run[p].next) /\ Begun(p) = run[p].next
  BY <1>1, ClaimsAre DEF Fits, TypeOK
<1>4. until' = until \/ (level > 0 /\ until'[1] = until[1] /\ until' \in Times)
  <2>1. CASE IsBlock(p)
    <3>1. until = run[p].next /\ until' = Claimed(p) /\ until[1] >= 1
      BY <1>3, <2>1 DEF Claim, ClaimMatches
    <3>2. level > 0
      BY <3>1, IdleIs DEF Fits, LevelFits
    <3> QED
      BY <1>3, <2>1, <3>1, <3>2
  <2>2. CASE ~IsBlock(p)
    BY <2>2 DEF Claim
  <2> QED
    BY <2>1, <2>2
<1>5. carry' \in Carries /\ paid' \in Levels
  BY <1>3, RunsAre DEF Claim, Rest, Fits
<1>6. DOMAIN book' \subseteq Keys
  <2>1. book' = Put(book, Key(p), [price |-> Price(p), amount |-> Amount(p)])
    BY DEF Claim
  <2>2. DOMAIN book' = DOMAIN book \cup {Key(p)}
    BY <2>1 DEF Put
  <2> QED
    BY <1>3, <2>2 DEF Fits, TypeOK
<1> QED
  BY <1>2, <1>4, <1>5, <1>6, BillKeepsFits DEF Claim, money, clock, Fits, TypeOK

\* ClaimFails keeps types and ranges.
LEMMA ClaimFailsKeepsFits == ASSUME Fits, NEW p \in Runs, ClaimFails(p) PROVE Fits'
<1>1. /\ At(p, "claim") /\ UNCHANGED clock
      /\ (\E place \in Billing \cup {"compare"} : Goto(p, place)) \/ Stop(p)
  BY DEF ClaimFails
<1>2. /\ run' \in [Runs -> RunType] /\ OthersStay(p)
      /\ run'[p].pc # "looked" /\ RunFits(p)'
  BY <1>1, MoveFits
<1> QED
  BY <1>2, BillKeepsFits
     DEF ClaimFails, row, money, ghosts, clock, Fits, TypeOK

\* What is taken is covered, once for each key.
LEMMA TakeIs ==
    ASSUME Fits, NEW p \in Runs, Pending(p), Amount(p) >= 0, Take(p)
    PROVE  /\ pool' \in 0 .. Pool /\ balance' \in 0 .. Balance
           /\ DOMAIN charged' = DOMAIN charged \cup {Key(p)} /\ Key(p) \in Keys
           /\ \A k \in DOMAIN charged : charged'[k] = charged[k]
           /\ Key(p) \notin DOMAIN charged => charged'[Key(p)] = Amount(p)
<1>1. /\ pool \in 0 .. Pool /\ balance \in 0 .. Balance /\ Amount(p) \in Int /\ Key(p) \in Keys
      /\ Pool \in Nat /\ Balance \in Nat
  BY ClaimsAre, LevelsAre DEF Fits, TypeOK
<1>2. CASE Key(p) \in DOMAIN charged
  BY <1>1, <1>2 DEF Take
<1>3. CASE Key(p) \notin DOMAIN charged
  <2>1. FromPool(Amount(p)) = IF Amount(p) <= pool THEN Amount(p) ELSE pool
    BY <1>1, LessOf DEF FromPool
  <2>2. /\ balance >= Amount(p) - FromPool(Amount(p))
        /\ pool' = pool - FromPool(Amount(p))
        /\ balance' = balance - (Amount(p) - FromPool(Amount(p)))
        /\ charged' = Put(charged, Key(p), Amount(p))
    BY <1>3 DEF Take
  <2>3. pool' \in 0 .. Pool /\ balance' \in 0 .. Balance
    BY <1>1, <2>1, <2>2
  <2>4. /\ DOMAIN charged' = DOMAIN charged \cup {Key(p)} /\ charged'[Key(p)] = Amount(p)
        /\ \A k \in DOMAIN charged : k # Key(p) => charged'[k] = charged[k]
    BY <2>2 DEF Put
  <2> QED
    BY <1>1, <1>3, <2>3, <2>4
<1> QED
  BY <1>2, <1>3

\* The claim of a run stands in the book, at its price and for its amount.
Standing(p) ==
    Pending(p) =>
      /\ Amount(p) > 0
      /\ Key(p) \in DOMAIN book
      /\ book[Key(p)] = [price |-> Price(p), amount |-> Amount(p)]

\* Charge keeps types and ranges.
LEMMA ChargeKeepsFits ==
    ASSUME Fits, NEW p \in Runs, Standing(p),
           Charge(p) \/ ChargeRefused(p) \/ ChargeFails(p)
    PROVE  Fits'
<1>1. /\ Pending(p) /\ UNCHANGED clock
      /\ (\E place \in Billing \cup {"compare"} : Goto(p, place)) \/ Proceed(p)
  BY DEF Charge, ChargeRefused, ChargeFails, Pending, At, Billing
<1>2. /\ run' \in [Runs -> RunType] /\ OthersStay(p)
      /\ run'[p].pc # "looked" /\ RunFits(p)'
  BY <1>1, MoveFits
<1>3. Amount(p) >= 0
  BY <1>1, ClaimsAre DEF Standing
<1>4. /\ pool' \in 0 .. Pool /\ balance' \in 0 .. Balance /\ DOMAIN charged' \subseteq Keys
      /\ unsure' \subseteq Keys
  <2>1. CASE Take(p)
    BY <1>1, <1>3, <2>1, TakeIs
       DEF Charge, ChargeRefused, ChargeFails, ghosts, Fits, TypeOK
  <2>2. CASE UNCHANGED <<pool, balance, charged, unsure>>
    BY <2>2 DEF Fits, TypeOK
  <2> QED
    BY <2>1, <2>2 DEF Charge, ChargeRefused, ChargeFails, money, ghosts
<1>5. errors' \in 0 .. MaxErrors
  BY LevelsAre DEF Fits, TypeOK, Charge, ChargeRefused, ChargeFails
<1> QED
  BY <1>2, <1>4, <1>5, BillKeepsFits
     DEF Charge, ChargeRefused, ChargeFails, row, money, clock, ghosts, Fits, TypeOK

\* Statement keeps types and ranges.
LEMMA StatementKeepsFits ==
    ASSUME Fits, NEW p \in Runs, LookUp(p) \/ Write(p)
    PROVE  Fits'
<1>1. /\ Pending(p) /\ UNCHANGED clock
      /\ (\E place \in Billing \cup {"compare"} : Goto(p, place)) \/ Proceed(p)
  BY DEF LookUp, Write, Pending, At, Billing
<1>2. /\ run' \in [Runs -> RunType] /\ OthersStay(p)
      /\ run'[p].pc # "looked" /\ RunFits(p)'
  BY <1>1, MoveFits
<1>3. DOMAIN rows' \subseteq Keys
  <2>1. Key(p) \in Keys
    BY <1>1, ClaimsAre
  <2> QED
    BY <2>1 DEF LookUp, Write, Put, money, Fits, TypeOK
<1> QED
  BY <1>2, <1>3, BillKeepsFits
     DEF LookUp, Write, row, money, clock, ghosts, Fits, TypeOK

\* Release keeps types and ranges.
LEMMA ReleaseKeepsFits == ASSUME Fits, NEW p \in Runs, Release(p) PROVE Fits'
<1>1. /\ Pending(p) /\ UNCHANGED clock
      /\ (\E place \in Billing \cup {"compare"} : Goto(p, place)) \/ Stop(p)
  BY DEF Release, Pending, Billing
<1>2. /\ run' \in [Runs -> RunType] /\ OthersStay(p)
      /\ run'[p].pc # "looked" /\ RunFits(p)'
  BY <1>1, MoveFits
<1>3. /\ Key(p) \in Keys
      /\ Claimed(p)[1] = Begun(p)[1] /\ Claimed(p)[1] >= 1
      /\ IsBlock(p) => Begun(p) = run[p].next
      /\ run[p].next \in Times /\ run[p].seen.carry \in Carries /\ run[p].seen.paid \in Levels
  BY <1>1, ClaimsAre, RunsAre DEF Fits, TypeOK
<1>4. until' = until \/ (level > 0 /\ until'[1] = until[1] /\ until' \in Times)
  <2>1. CASE ReleaseMatches(p) /\ IsBlock(p)
    <3>1. until = Claimed(p) /\ until' = run[p].next
      BY <2>1 DEF Release, ReleaseMatches
    <3>2. level > 0
      BY <1>3, <3>1, IdleIs DEF Fits, LevelFits
    <3> QED
      BY <1>3, <2>1, <3>1, <3>2
  <2>2. CASE ~(ReleaseMatches(p) /\ IsBlock(p))
    BY <2>2 DEF Release, row
  <2> QED
    BY <2>1, <2>2
<1>5. /\ carry' \in Carries /\ paid' \in Levels
      /\ DOMAIN book' \subseteq Keys /\ lost' \subseteq Keys
  BY <1>3 DEF Release, row, Restrict, Fits, TypeOK
<1> QED
  BY <1>2, <1>4, <1>5, BillKeepsFits DEF Release, money, clock, Fits, TypeOK

\* RunDies keeps types and ranges.
LEMMA RunDiesKeepsFits == ASSUME Fits, NEW p \in Runs, Die(p) PROVE Fits'
<1>1. run' \in [Runs -> RunType] /\ OthersStay(p) /\ run'[p].pc = "idle"
  BY RunsAre, Stopping DEF Fits, Die
<1>2. lost' \subseteq Keys
  BY ClaimsAre DEF Die, Pending, Fits, TypeOK
<1>3. errors' \in 0 .. MaxErrors
  BY LevelsAre DEF Fits, TypeOK, Die
<1> QED
  BY <1>1, <1>2, <1>3, RestFits, BillKeepsFits
     DEF Die, row, money, clock, Fits, TypeOK

\* Types and ranges are right at the start.
LEMMA InitFits == ASSUME Init PROVE Fits
<1>1. run = [p \in Runs |-> Idle] /\ run \in [Runs -> RunType]
  BY IdleIs DEF Init
<1>2. \A p \in Runs : run[p].pc = "idle"
  BY <1>1, IdleIs
<1>3. TypeOK
  BY <1>1, IdleIs, LevelsAre DEF Init, TypeOK, RunType, Spots
<1>4. LevelFits
  BY <1>2, LevelsAre DEF Init, LevelFits, At
<1> QED
  BY <1>2, <1>3, <1>4 DEF Fits, RunFits, Active

-----------------------------------------------------------------------------
(* What lies where in the row and in the book.                             *)

\* A run that may come to claim a raise, or goes on to it after its block.
MayRaise(r) == run[r].pc \in {"next", "compare", "claim"} \/ (Pending(r) /\ IsBlock(r))

\* Nobody raises any more in the block that ends at u; nobody but p.
Late(u) == now >= u[2] /\ \A r \in Runs : MayRaise(r) => run[r].at >= u[2]
LateBut(p, u) == now >= u[2] /\ \A r \in Runs : r # p /\ MayRaise(r) => run[r].at >= u[2]

\* Where the row stood before the claim of q.
Under(q) == IF IsBlock(q) THEN run[q].next ELSE run[q].seen.until

\* A raise to l in the block that p has claimed was there before p's, a raise itself.
Beneath(p, l) == ~IsBlock(p) /\ (l <= run[p].seen.paid \/ Late(Claimed(p)))
Underneath(p) ==
    \A l \in DOMAIN Cost :
       <<Begun(p), l>> \in DOMAIN book /\ <<Begun(p), l>> # Key(p) => Beneath(p, l)
UnderneathBut(p, q) ==
    \A l \in DOMAIN Cost :
       <<Begun(p), l>> \in DOMAIN book /\ <<Begun(p), l>> \notin {Key(p), Key(q)} =>
         Beneath(p, l)

KeysDiffer == \A p, q \in Runs : p # q /\ Pending(p) /\ Pending(q) => Key(p) # Key(q)

\* The blocks of an episode lie in a row and end at its boundary.
BookOnGrid ==
    \A k \in DOMAIN book :
       /\ k[1][1] \in 1 .. episode
       /\ k[1][1] = until[1] => OnGrid(k[1][2] + BlockLen, until[2])

\* In the last block the level that is paid is above every raise.
RaisesFit ==
    \A l \in DOMAIN Cost : <<Start(until), l>> \in DOMAIN book => l <= paid \/ Late(until)

\* The last claim has put its rest into the row, unless a raise was claimed above it.
OnTop(p) ==
    Pending(p) /\ until = Claimed(p) =>
      /\ paid > run[p].mine \/ (carry = Rest(p) /\ Underneath(p))
      /\ paid >= run[p].mine \/ LateBut(p, Claimed(p))

\* So it will be again when the claim of q, the next one, is given back.
Stack(p, q) ==
    p # q /\ Pending(p) /\ Pending(q) /\ Under(q) = Claimed(p) /\ ReleaseMatches(q) =>
      /\ \/ run[q].seen.paid > run[p].mine
         \/ run[q].seen.carry = Rest(p) /\ UnderneathBut(p, q)
      /\ run[q].seen.paid >= run[p].mine \/ LateBut(p, Claimed(p))

\* A run that claims the next block has read the level of the last one, or the last
\* claim is on top.
Stale(p, q) ==
    /\ p # q /\ Pending(p) /\ At(q, "claim") /\ IsBlock(q)
    /\ run[q].next = until /\ until = Claimed(p)
    => run[q].seen.paid = paid \/ (carry = Rest(p) /\ Underneath(p))

\* The level that a claim of a block gives back is above every raise before it.
RaisesBefore(q) ==
    IsBlock(q) /\ (Pending(q) \/ (At(q, "claim") /\ run[q].next = until)) =>
      \A l \in DOMAIN Cost :
         <<Start(run[q].next), l>> \in DOMAIN book =>
           l <= run[q].seen.paid \/ Late(run[q].next)

Sound ==
    /\ KeysDiffer /\ BookOnGrid /\ RaisesFit
    /\ \A p \in Runs : Standing(p) /\ OnTop(p) /\ RaisesBefore(p)
    /\ \A p, q \in Runs : Stack(p, q) /\ Stale(p, q)

\* No step brings a raise into a block that has passed.
RaisersStay ==
    /\ now <= now' /\ now' \in Int
    /\ \A r \in Runs :
         MayRaise(r)' => \/ MayRaise(r) /\ run'[r].at = run[r].at
                         \/ run'[r].at = now

\* A block in which nobody raises any more stays so.
LEMMA LateKept ==
    ASSUME Fits, RaisersStay, NEW u, u[2] \in Int
    PROVE  /\ Late(u) => /\ now' >= u[2]
                         /\ \A r \in Runs : MayRaise(r)' => run'[r].at >= u[2]
           /\ \A p \in Runs : LateBut(p, u) =>
                /\ now' >= u[2]
                /\ \A r \in Runs : r # p /\ MayRaise(r)' => run'[r].at >= u[2]
<1>1. now \in Int /\ \A r \in Runs : run[r].at \in Int
  BY RunsAre DEF Fits, TypeOK
<1> QED
  BY <1>1 DEF RaisersStay, Late, LateBut

\* What lies beneath a claim stays beneath it.
LEMMA BeneathKept ==
    ASSUME Fits, RaisersStay, NEW p \in Runs, Pending(p), SameBill(p), NEW l \in DOMAIN Cost,
           Beneath(p, l)
    PROVE  Beneath(p, l)'
<1>1. /\ Claimed(p)' = Claimed(p) /\ IsBlock(p)' = IsBlock(p)
      /\ run'[p].seen.paid = run[p].seen.paid
  BY SameBills DEF SameBill
<1>2. Claimed(p)[2] \in Int
  BY ClaimsAre, TimesAre
<1>3. Late(Claimed(p)) => Late(Claimed(p))'
  BY <1>1, <1>2, LateKept DEF Late
<1> QED
  BY <1>1, <1>3 DEF Beneath

\* The three things a claim depends on its block for.
LEMMA UnderneathKept ==
    ASSUME Fits, RaisersStay, NEW p \in Runs, Pending(p), SameBill(p),
           DOMAIN book' \subseteq DOMAIN book
    PROVE  /\ Underneath(p) => Underneath(p)'
           /\ LateBut(p, Claimed(p)) => LateBut(p, Claimed(p))'
           /\ \A q \in Runs : SameBill(q) /\ UnderneathBut(p, q) => UnderneathBut(p, q)'
<1>1. Begun(p)' = Begun(p) /\ Key(p)' = Key(p) /\ Claimed(p)' = Claimed(p)
  BY SameBills
<1>2. Claimed(p)[2] \in Int
  BY ClaimsAre, TimesAre
<1>3. LateBut(p, Claimed(p)) => LateBut(p, Claimed(p))'
  BY <1>1, <1>2, LateKept DEF LateBut
<1>4. Underneath(p) => Underneath(p)'
  BY <1>1, BeneathKept DEF Underneath
<1>5. \A q \in Runs : SameBill(q) /\ UnderneathBut(p, q) => UnderneathBut(p, q)'
  <2>1. TAKE q \in Runs
  <2>2. HAVE SameBill(q) /\ UnderneathBut(p, q)
  <2>3. Key(q)' = Key(q)
    BY <2>2, SameBills
  <2> QED
    BY <1>1, <2>2, <2>3, BeneathKept DEF UnderneathBut
<1> QED
  BY <1>3, <1>4, <1>5

-----------------------------------------------------------------------------
(* Steps that leave the row and the book alone.                            *)

\* A run goes on with its bill, is at none, or has just read the row.
Steady(r) ==
    SameBill(r) /\ (Pending(r)' => Pending(r)) /\ (At(r, "claim")' => At(r, "claim"))
Out(r) == ~Pending(r)' /\ ~At(r, "claim")'
JustSaw(r) == ~Pending(r)' /\ run'[r].seen.paid = paid

Quiet ==
    /\ UNCHANGED <<row, book>> /\ RaisersStay
    /\ episode' \in Int /\ episode <= episode'
    /\ \A r \in Runs : Steady(r) \/ Out(r) \/ JustSaw(r)

\* A quiet step leaves the claims of the runs in the book, under different keys.
LEMMA QuietKeepsStanding ==
    ASSUME Fits, Quiet, KeysDiffer, \A p \in Runs : Standing(p)
    PROVE  KeysDiffer' /\ \A p \in Runs : Standing(p)'
<1>1. \A p \in Runs : Pending(p)' => Pending(p) /\ SameBill(p)
  BY DEF Quiet, Steady, Out, JustSaw
<1>2. \A p \in Runs : Pending(p)' => /\ Key(p)' = Key(p) /\ Price(p)' = Price(p)
                                     /\ Amount(p)' = Amount(p)
  BY <1>1, SameBills
<1>3. KeysDiffer'
  BY <1>1, <1>2 DEF KeysDiffer
<1>4. \A p \in Runs : Standing(p)'
  BY <1>1, <1>2 DEF Standing, Quiet
<1> QED
  BY <1>3, <1>4

\* A quiet step leaves the book on its grid, and the raises below the level paid.
LEMMA QuietKeepsBook ==
    ASSUME Fits, Quiet, BookOnGrid, RaisesFit
    PROVE  BookOnGrid' /\ RaisesFit'
<1>1. until' = until /\ paid' = paid /\ book' = book /\ RaisersStay
  BY DEF Quiet, row
<1>2. BookOnGrid'
  <2>1. \A k \in DOMAIN book : k[1][1] \in 1 .. episode'
    BY DEF Quiet, BookOnGrid, Fits, TypeOK
  <2> QED
    BY <1>1, <2>1 DEF BookOnGrid
<1>3. Late(until) => Late(until)'
  <2>1. until[2] \in Int
    BY TimesAre DEF Fits, TypeOK
  <2> QED
    BY <1>1, <2>1, LateKept DEF Late
<1>4. RaisesFit'
  BY <1>1, <1>3 DEF RaisesFit
<1> QED
  BY <1>2, <1>4

\* A quiet step leaves the last claim on top of the book.
LEMMA QuietKeepsTop ==
    ASSUME Fits, Quiet, NEW p \in Runs, NEW q \in Runs, OnTop(p), Stack(p, q), Stale(p, q)
    PROVE  OnTop(p)' /\ Stack(p, q)' /\ Stale(p, q)'
<1>1. /\ until' = until /\ paid' = paid /\ carry' = carry /\ book' = book /\ RaisersStay
  BY DEF Quiet, row
<1>2. \A r \in Runs : Pending(r)' => Pending(r) /\ SameBill(r)
  BY DEF Quiet, Steady, Out, JustSaw
<1> SUFFICES ASSUME Pending(p)'
             PROVE  OnTop(p)' /\ Stack(p, q)' /\ Stale(p, q)'
  BY DEF OnTop, Stack, Stale
<1>3. /\ Pending(p) /\ SameBill(p) /\ run'[p].mine = run[p].mine
      /\ Claimed(p)' = Claimed(p) /\ Rest(p)' = Rest(p)
  BY <1>2, SameBills DEF SameBill
<1>4. /\ Underneath(p) => Underneath(p)'
      /\ LateBut(p, Claimed(p)) => LateBut(p, Claimed(p))'
      /\ \A r \in Runs : SameBill(r) /\ UnderneathBut(p, r) => UnderneathBut(p, r)'
  BY <1>1, <1>3, UnderneathKept
<1>5. OnTop(p)'
  BY <1>1, <1>3, <1>4 DEF OnTop
<1>6. Stack(p, q)'
  <2> SUFFICES ASSUME Pending(q)' PROVE Stack(p, q)'
    BY DEF Stack
  <2>1. /\ Pending(q) /\ SameBill(q) /\ Claimed(q)' = Claimed(q)
        /\ IsBlock(q)' = IsBlock(q)
    BY <1>2, SameBills
  <2>2. Under(q)' = Under(q) /\ (ReleaseMatches(q)' => ReleaseMatches(q))
    BY <1>1, <2>1 DEF Under, SameBill, ReleaseMatches
  <2> QED
    BY <1>3, <1>4, <2>1, <2>2 DEF Stack, SameBill
<1>7. Stale(p, q)'
  <2> SUFFICES ASSUME At(q, "claim")' PROVE Stale(p, q)'
    BY DEF Stale
  <2>1. CASE Steady(q)
    <3>1. At(q, "claim") /\ SameBill(q) /\ IsBlock(q)' = IsBlock(q)
      BY <2>1, SameBills DEF Steady
    <3> QED
      BY <1>1, <1>3, <1>4, <3>1 DEF Stale, SameBill
  <2>2. CASE JustSaw(q)
    BY <1>1, <2>2 DEF Stale, JustSaw
  <2> QED
    BY <2>1, <2>2 DEF Quiet, Out
<1> QED
  BY <1>5, <1>6, <1>7

\* A quiet step leaves the raises before a block where they were.
LEMMA QuietKeepsRaises ==
    ASSUME Fits, Quiet, RaisesFit, NEW q \in Runs, RaisesBefore(q)
    PROVE  RaisesBefore(q)'
<1>1. /\ until' = until /\ paid' = paid /\ book' = book /\ RaisersStay
  BY DEF Quiet, row
<1>2. CASE Steady(q)
  <2>1. /\ IsBlock(q)' = IsBlock(q) /\ run'[q].next = run[q].next
        /\ run'[q].seen.paid = run[q].seen.paid
    BY <1>2, SameBills DEF Steady, SameBill
  <2>2. Late(run[q].next) => Late(run[q].next)'
    <3>1. run[q].next[2] \in Int
      BY RunsAre, TimesAre DEF Fits
    <3> QED
      BY <1>1, <2>1, <3>1, LateKept DEF Late
  <2> QED
    BY <1>1, <1>2, <2>1, <2>2 DEF RaisesBefore, Steady
<1>3. CASE Out(q)
  BY <1>3 DEF Out, RaisesBefore
<1>4. CASE JustSaw(q)
  <2>1. Late(until) => Late(until)'
    <3>1. until[2] \in Int
      BY TimesAre DEF Fits, TypeOK
    <3> QED
      BY <1>1, <3>1, LateKept DEF Late
  <2> QED
    BY <1>1, <1>4, <2>1 DEF RaisesBefore, RaisesFit, JustSaw
<1> QED
  BY <1>2, <1>3, <1>4 DEF Quiet

\* Steps that leave row and book alone keep the book sound.
LEMMA QuietKeeps == ASSUME Fits, Sound, Quiet PROVE Sound'
<1>1. KeysDiffer' /\ \A p \in Runs : Standing(p)'
  BY QuietKeepsStanding DEF Sound
<1>2. BookOnGrid' /\ RaisesFit'
  BY QuietKeepsBook DEF Sound
<1>3. \A p, q \in Runs : OnTop(p)' /\ Stack(p, q)' /\ Stale(p, q)'
  BY QuietKeepsTop DEF Sound
<1>4. \A q \in Runs : RaisesBefore(q)'
  BY QuietKeepsRaises DEF Sound
<1> QED
  BY <1>1, <1>2, <1>3, <1>4 DEF Sound

\* A step of one run is steady for the other.
LEMMA OthersAreSteady ==
    ASSUME NEW p \in Runs, OthersStay(p)
    PROVE  /\ \A q \in Runs : q # p => Steady(q)
           /\ \A q \in Runs : q # p => /\ run'[q].at = run[q].at
                                       /\ MayRaise(q)' => MayRaise(q)
  BY DEF OthersStay, Steady, SameBill, Pending, At, MayRaise, IsBlock

\* Where a run goes from its claim.
Moves(p) ==
    \/ \E place \in Billing : Goto(p, place)
    \/ IsBlock(p) /\ Goto(p, "compare")
    \/ Proceed(p) \/ Stop(p)

\* Where a run can go from a claim.
LEMMA MovesAre ==
    ASSUME Fits, NEW p \in Runs, At(p, "claim") \/ Pending(p), UNCHANGED clock, Moves(p)
    PROVE  /\ RaisersStay /\ OthersStay(p)
           /\ Out(p) \/ (SameBill(p) /\ Pending(p)' /\ ~At(p, "claim")')
           /\ Proceed(p) \/ Stop(p) \/ Goto(p, "compare") => Out(p)
           /\ \A place \in Billing : Goto(p, place) => SameBill(p) /\ Pending(p)'
           /\ ~IsBlock(p) => ~MayRaise(p)'
           /\ MayRaise(p)' => run'[p].at = run[p].at
<1>1. run \in [Runs -> RunType] /\ (MayRaise(p) \/ (Pending(p) /\ ~IsBlock(p)))
  BY RunsAre DEF Fits, MayRaise, At
<1>2. now \in Int /\ now' = now /\ run \in [Runs -> RunType]
  BY RunsAre DEF Fits, TypeOK, clock
<1>3. ASSUME NEW place \in Billing, Goto(p, place)
      PROVE  /\ OthersStay(p) /\ SameBill(p) /\ Pending(p)' /\ ~At(p, "claim")'
             /\ IsBlock(p)' = IsBlock(p) /\ (MayRaise(p)' => IsBlock(p))
  <2>1. OthersStay(p) /\ run'[p].pc = place /\ SameBill(p)
    BY <1>2, <1>3, Going DEF Spots
  <2> QED
    BY <2>1, SameBills DEF Pending, At, Billing, MayRaise
<1>4. ASSUME Goto(p, "compare") PROVE OthersStay(p) /\ Out(p) /\ run'[p].at = run[p].at
  <2>1. OthersStay(p) /\ run'[p].pc = "compare" /\ SameBill(p)
    BY <1>2, <1>4, Going DEF Spots
  <2> QED
    BY <2>1 DEF SameBill, Out, Pending, At, Billing
<1>5. ASSUME Stop(p) PROVE OthersStay(p) /\ Out(p) /\ ~MayRaise(p)'
  <2>1. OthersStay(p) /\ run'[p].pc = "idle"
    BY <1>2, <1>5, Stopping
  <2> QED
    BY <2>1 DEF Out, Pending, At, Billing, MayRaise
<1>6. ASSUME Proceed(p)
      PROVE  /\ OthersStay(p) /\ Out(p)
             /\ IF IsBlock(p) THEN run'[p].at = run[p].at ELSE ~MayRaise(p)'
  <2>1. IsBlock(p) => End(run[p].next) \in Times
    BY ClaimsAre
  <2>2. /\ OthersStay(p)
        /\ IF IsBlock(p) THEN run'[p].pc = "next" /\ run'[p].at = run[p].at
           ELSE run'[p].pc = "idle"
    BY <1>2, <1>6, <2>1, Proceeding
  <2> QED
    BY <2>2 DEF Out, Pending, At, Billing, MayRaise
<1>7. /\ OthersStay(p) /\ (MayRaise(p)' => IsBlock(p) /\ run'[p].at = run[p].at)
      /\ Out(p) \/ (SameBill(p) /\ Pending(p)' /\ ~At(p, "claim")')
  <2>1. CASE \E place \in Billing : Goto(p, place)
    BY <1>3, <2>1 DEF SameBill
  <2>2. CASE IsBlock(p) /\ Goto(p, "compare")
    BY <1>4, <2>2
  <2>3. CASE Proceed(p)
    BY <1>6, <2>3
  <2>4. CASE Stop(p)
    BY <1>5, <2>4
  <2> QED
    BY <2>1, <2>2, <2>3, <2>4 DEF Moves
<1>8. IsBlock(p) => MayRaise(p)
  BY <1>1
<1>9. RaisersStay
  BY <1>2, <1>7, <1>8, OthersAreSteady DEF RaisersStay
<1> QED
  BY <1>3, <1>4, <1>5, <1>6, <1>7, <1>9

\* The steps of a claimed bill that touch neither the row nor the book.
LEMMA BillIsQuiet ==
    ASSUME Fits, NEW p \in Runs,
           \/ ClaimFails(p) \/ Charge(p) \/ ChargeRefused(p) \/ ChargeFails(p)
           \/ LookUp(p) \/ Write(p) \/ (Release(p) /\ ~ReleaseMatches(p))
    PROVE  Quiet
<1>1. At(p, "claim") \/ Pending(p)
  BY DEF ClaimFails, Charge, ChargeRefused, ChargeFails, LookUp, Write, Release, At, Pending,
         Billing
<1>2. Moves(p)
  BY DEF ClaimFails, Charge, ChargeRefused, ChargeFails, LookUp, Write, Release, Moves, Billing
<1>3. UNCHANGED <<row, book>> /\ UNCHANGED clock
  BY DEF ClaimFails, Charge, ChargeRefused, ChargeFails, LookUp, Write, Release, ghosts
<1>4. Out(p) \/ Steady(p)
  <2>1. CASE ClaimFails(p)
    BY <1>1, <1>2, <1>3, <2>1, MovesAre DEF ClaimFails
  <2>2. CASE Pending(p)
    BY <1>1, <1>2, <1>3, <2>2, MovesAre DEF Steady
  <2> QED
    BY <2>1, <2>2 DEF Charge, ChargeRefused, ChargeFails, LookUp, Write, Release, At, Pending,
         Billing
<1>5. \A r \in Runs : Steady(r) \/ Out(r)
  BY <1>1, <1>2, <1>3, <1>4, MovesAre, OthersAreSteady
<1>6. episode' \in Int /\ episode <= episode'
  BY <1>3 DEF clock, Fits, TypeOK
<1> QED
  BY <1>1, <1>2, <1>3, <1>5, <1>6, MovesAre DEF Quiet

\* Looking, beginning, time, a change of level in an episode and a death are quiet.
LEMMA RestIsQuiet ==
    ASSUME Fits, Look \/ BeginCron \/ Tick \/ (\E l \in Levels : Scale(l) /\ until' = until)
                 \/ \E p \in Runs : Die(p)
    PROVE  Quiet
<1>1. /\ now \in 0 .. MaxTime /\ episode \in Int /\ MaxTime \in Nat
      /\ run \in [Runs -> RunType] /\ until \in Times /\ level \in Levels
      /\ "engine" \in Runs /\ "cron" \in Runs /\ run["engine"].next \in Times
  BY RunsAre, LevelsAre DEF Fits, TypeOK
<1>2. ASSUME NEW p \in Runs, OthersStay(p),
             run'[p].pc \in {"idle", "looked"} \/ (run'[p].pc = "next" /\ run'[p].at = now),
             UNCHANGED <<row, book>>, now' = now, episode' \in Int, episode <= episode'
      PROVE  Quiet
  <2>1. Out(p) /\ (MayRaise(p)' => run'[p].at = now)
    BY <1>2 DEF Out, Pending, At, Billing, MayRaise
  <2> QED
    BY <1>1, <1>2, <2>1, OthersAreSteady DEF Quiet, RaisersStay
<1>3. CASE Look
  <2>1. OthersStay("engine") /\ run'["engine"].pc = "looked"
    BY <1>1, <1>3 DEF Look, OthersStay, RunType
  <2> QED
    BY <1>1, <1>2, <1>3, <2>1 DEF Look, ghosts, clock
<1>4. CASE BeginCron
  <2>1. OthersStay("cron") /\ run'["cron"].pc = "next" /\ run'["cron"].at = now
    BY <1>1, <1>4, Beginning DEF BeginCron
  <2> QED
    BY <1>1, <1>2, <1>4, <2>1 DEF BeginCron, ghosts, clock
<1>5. CASE Tick
  BY <1>1, <1>5 DEF Tick, Quiet, ghosts, RaisersStay, Steady, SameBill, Pending, At, MayRaise,
     IsBlock
<1>6. ASSUME NEW l \in Levels, Scale(l), until' = until PROVE Quiet
  <2>1. episode' \in Int /\ episode <= episode'
    BY <1>1, <1>6 DEF Scale
  <2>2. /\ OthersStay("engine")
        /\ \/ run'["engine"].pc = "idle"
           \/ run'["engine"].pc = "next" /\ run'["engine"].at = now
    BY <1>1, <1>6, Stopping, Beginning DEF Scale
  <2> QED
    BY <1>1, <1>2, <1>6, <2>1, <2>2 DEF Scale, ghosts, row
<1>7. ASSUME NEW p \in Runs, Die(p) PROVE Quiet
  BY <1>1, <1>2, <1>7, Stopping DEF Die, clock
<1> QED
  BY <1>3, <1>4, <1>5, <1>6, <1>7

\* Reading the row is quiet, unless it fills in a level that was unknown.
LEMMA ReadIsQuiet ==
    ASSUME Fits, NEW p \in Runs, ReadBlock(p) \/ (ReadRaise(p) /\ paid' = paid)
    PROVE  Quiet
<1>1. /\ now \in Int /\ episode \in Int /\ run \in [Runs -> RunType]
      /\ until \in Times /\ carry \in Carries /\ paid \in Levels /\ MayRaise(p)
  BY RunsAre DEF Fits, TypeOK, MayRaise, ReadBlock, ReadRaise, At
<1>2. /\ UNCHANGED <<row, book>> /\ UNCHANGED clock
      /\ (\E kind \in {"block", "topup"} : See(p, kind)) \/ Goto(p, "compare") \/ Stop(p)
  BY DEF ReadBlock, ReadRaise, ghosts, row
<1>3. /\ OthersStay(p) /\ (MayRaise(p)' => run'[p].at = run[p].at)
      /\ Out(p) \/ JustSaw(p)
  <2>1. CASE \E kind \in {"block", "topup"} : See(p, kind)
    BY <1>1, <2>1, Seeing DEF JustSaw, Pending, Billing
  <2>2. CASE Goto(p, "compare")
    BY <1>1, <2>2, Going DEF Spots, SameBill, Out, Pending, At, Billing
  <2>3. CASE Stop(p)
    BY <1>1, <2>3, Stopping DEF Out, Pending, At, Billing, MayRaise
  <2> QED
    BY <1>2, <2>1, <2>2, <2>3
<1> QED
  BY <1>1, <1>2, <1>3, OthersAreSteady DEF Quiet, RaisersStay, clock

-----------------------------------------------------------------------------
(* A claim.                                                                *)

\* The numbers the order of blocks and levels is about.
LEMMA NumbersAre ==
    ASSUME Fits
    PROVE  /\ paid \in Int /\ carry \in Int /\ now \in Int /\ episode \in Int
           /\ until[1] \in Int /\ until[2] \in Int
           /\ \A l \in DOMAIN Cost : l \in Int /\ l > 0
           /\ \A p \in Runs : /\ run[p].mine \in Int /\ run[p].at \in Int
                              /\ run[p].next[2] \in Int /\ run[p].seen.until[2] \in Int
                              /\ run[p].seen.paid \in Int /\ run[p].seen.carry \in Int
<1>1. /\ paid \in Levels /\ carry \in Carries /\ now \in Int /\ episode \in Int
      /\ until \in Times
  BY DEF Fits, TypeOK
<1>2. (\A l \in Levels : l \in Int) /\ (\A c \in Carries : c \in Int)
  <2>1. \A c \in Carries : c \in Int
    BY LevelsAre DEF Carries
  <2>2. \A l \in Levels : l \in Int
    BY LevelsAre
  <2> QED
    BY <2>1, <2>2
<1>3. \A u \in Times : u[1] \in Int /\ u[2] \in Int
  BY TimesAre
<1>4. \A l \in DOMAIN Cost : l \in Int /\ l > 0
  BY BillingConstants
<1>5. \A p \in Runs : /\ run[p].mine \in Int /\ run[p].at \in Int
                      /\ run[p].next[2] \in Int /\ run[p].seen.until[2] \in Int
                      /\ run[p].seen.paid \in Int /\ run[p].seen.carry \in Int
  <2>1. TAKE p \in Runs
  <2>2. /\ run[p].at \in 0 .. MaxTime /\ run[p].mine \in Levels
        /\ run[p].next \in Times /\ run[p].seen.until \in Times
        /\ run[p].seen.carry \in Carries /\ run[p].seen.paid \in Levels
    BY RunsAre DEF Fits
  <2> QED
    BY <1>2, <1>3, <2>2
<1> QED
  BY <1>1, <1>2, <1>3, <1>4, <1>5

\* No claim stands on the block that comes next.
LEMMA NextIsFree ==
    ASSUME Fits, BookOnGrid, NEW l
    PROVE  <<until, l>> \notin DOMAIN book
<1>1. until[2] \in Int /\ BlockLen \in Nat \ {0}
  BY TimesAre, LevelsAre DEF Fits, TypeOK
<1>2. OnGrid(until[2] + BlockLen, until[2]) => until[2] + BlockLen <= until[2]
  BY <1>1, Grid
<1> QED
  BY <1>1, <1>2 DEF BookOnGrid

\* A claimed block is the one after the boundary of the row, which it moves.
LEMMA ClaimedBlockIs ==
    ASSUME Fits, Sound, NEW q \in Runs, Claim(q), IsBlock(q)
    PROVE  /\ until = run[q].next /\ Begun(q) = until /\ Key(q) = <<until, 0>>
           /\ until' = End(until) /\ until'[2] = until[2] + BlockLen
           /\ run[q].at >= until[2]
<1>1. At(q, "claim") /\ ClaimMatches(q)
  BY DEF Claim
<1>2. /\ Key(q) = <<Begun(q), 0>> /\ Begun(q) = run[q].next /\ until = run[q].next
      /\ run[q].at >= run[q].next[2]
  BY <1>1, ClaimsAre, RunsAre, TimesAre DEF Fits, RunFits, Active, At, ClaimMatches
<1>3. until' = End(until) /\ until'[2] = until[2] + BlockLen
  BY <1>2, TimesAre DEF Claim, Fits, TypeOK
<1> QED
  BY <1>2, <1>3

\* A claimed raise is above all of its block, the last one, and leaves the boundary.
LEMMA ClaimedRaiseIs ==
    ASSUME Fits, Sound, NEW q \in Runs, Claim(q), ~IsBlock(q)
    PROVE  /\ until' = until /\ run[q].seen.until = until /\ Begun(q) = Start(until)
           /\ Key(q) = <<Start(until), run[q].mine>>
           /\ run[q].seen.paid = paid /\ paid < run[q].mine
           /\ ~Late(until) /\ \A p \in Runs : p # q => ~LateBut(p, until)
           /\ ~MayRaise(q)'
<1>1. At(q, "claim") /\ ClaimMatches(q) /\ UNCHANGED clock /\ Moves(q)
  BY DEF Claim, Moves, Billing
<1>2. /\ Key(q) = <<Begun(q), run[q].mine>> /\ run[q].seen.until = until
      /\ run[q].seen.paid = paid /\ Begun(q) = Start(until)
  BY <1>1, ClaimsAre DEF ClaimMatches, Begun
<1>3. paid < run[q].mine /\ until[2] > run[q].at
  BY <1>1, <1>2 DEF Fits, RunFits, Active, At
<1>4. until[2] \in Int /\ run[q].at \in Int /\ MayRaise(q)
  BY <1>1, TimesAre, RunsAre DEF Fits, TypeOK, MayRaise, At
<1>5. ~(run[q].at >= until[2])
  BY <1>3, <1>4
<1>6. ~Late(until) /\ \A p \in Runs : p # q => ~LateBut(p, until)
  BY <1>4, <1>5 DEF Late, LateBut
<1> QED
  BY <1>1, <1>2, <1>3, <1>6, MovesAre DEF Claim

\* A claim that was made: the row was as it was read, and the book has a new key.
LEMMA ClaimIs ==
    ASSUME Fits, Sound, NEW q \in Runs, Claim(q)
    PROVE  /\ At(q, "claim") /\ ~Pending(q)
           /\ until = Under(q) /\ until' = Claimed(q) /\ until' \in Times
           /\ paid' = run[q].mine /\ carry' = Rest(q) /\ run[q].seen.carry = carry
           /\ until'[1] = until[1] /\ Start(until') = Begun(q)
           /\ DOMAIN book' = DOMAIN book \cup {Key(q)} /\ Key(q) \notin DOMAIN book
           /\ \A k \in DOMAIN book : book'[k] = book[k]
           /\ book'[Key(q)] = [price |-> Price(q), amount |-> Amount(q)]
           /\ RaisersStay /\ OthersStay(q) /\ UNCHANGED clock
           /\ ~At(q, "claim")'
           /\ Pending(q)' => SameBill(q) /\ Amount(q) > 0
<1>1. /\ At(q, "claim") /\ ClaimMatches(q) /\ UNCHANGED clock /\ Moves(q) /\ ~Pending(q)
      /\ BookOnGrid /\ RaisesFit
  BY DEF Claim, Moves, Billing, Sound, At, Pending
<1>2. /\ RaisersStay /\ OthersStay(q) /\ ~At(q, "claim")'
      /\ Pending(q)' => SameBill(q)
  BY <1>1, MovesAre DEF Out
<1>3. /\ Claimed(q) \in Times /\ Claimed(q)[1] = Begun(q)[1]
      /\ Begun(q) = Start(Claimed(q)) /\ Begun(q) \in Times
      /\ Key(q) = <<Begun(q), IF IsBlock(q) THEN 0 ELSE run[q].mine>>
      /\ run[q].mine \in DOMAIN Cost
  BY <1>1, ClaimsAre DEF Fits, RunFits, Active, At
<1>4. until = Under(q) /\ run[q].seen.carry = carry
  BY <1>1 DEF ClaimMatches, Under
<1>5. until' = Claimed(q) /\ paid' = run[q].mine /\ carry' = Rest(q)
  BY <1>4 DEF Claim, Claimed, Under, Rest
<1>6. until'[1] = until[1]
  <2>1. CASE IsBlock(q)
    BY <1>1, <1>3, <1>5, <2>1, ClaimedBlockIs
  <2>2. CASE ~IsBlock(q)
    BY <2>2, ClaimedRaiseIs
  <2> QED
    BY <2>1, <2>2
<1>7. Key(q) \notin DOMAIN book
  <2>1. CASE IsBlock(q)
    BY <1>1, <2>1, ClaimedBlockIs, NextIsFree
  <2>2. CASE ~IsBlock(q)
    <3>1. /\ Key(q) = <<Start(until), run[q].mine>> /\ paid < run[q].mine /\ ~Late(until)
      BY <2>2, ClaimedRaiseIs
    <3>2. ~(run[q].mine <= paid)
      BY <3>1, NumbersAre
    <3> QED
      BY <1>1, <1>3, <3>1, <3>2 DEF RaisesFit
  <2> QED
    BY <2>1, <2>2
<1>8. /\ DOMAIN book' = DOMAIN book \cup {Key(q)}
      /\ \A k \in DOMAIN book : k # Key(q) => book'[k] = book[k]
      /\ book'[Key(q)] = [price |-> Price(q), amount |-> Amount(q)]
  <2>1. book' = Put(book, Key(q), [price |-> Price(q), amount |-> Amount(q)])
    BY DEF Claim
  <2> QED
    BY <2>1 DEF Put
<1>9. Pending(q)' => Amount(q) > 0
  <2>1. ~(Amount(q) > 0) => Out(q)
    BY <1>1, MovesAre DEF Claim
  <2> QED
    BY <2>1 DEF Out
<1> QED
  BY <1>1, <1>2, <1>3, <1>4, <1>5, <1>6, <1>7, <1>8, <1>9

\* The raises below the claim of q are those that were in the book before it.
LEMMA ClaimedBlockHolds ==
    ASSUME Fits, Sound, NEW q \in Runs, Claim(q), NEW l \in DOMAIN Cost,
           <<Start(until'), l>> \in DOMAIN book'
    PROVE  /\ ~IsBlock(q)
           /\ \/ l = run[q].mine
              \/ <<Start(until), l>> \in DOMAIN book /\ l <= paid
<1>1. /\ Start(until') = Begun(q) /\ DOMAIN book' = DOMAIN book \cup {Key(q)}
      /\ BookOnGrid /\ RaisesFit
  BY ClaimIs DEF Sound
<1>2. CASE IsBlock(q)
  <2>1. Begun(q) = until /\ Key(q) = <<until, 0>> /\ l # 0
    BY <1>2, ClaimedBlockIs, BillingConstants
  <2> QED
    BY <1>1, <2>1, NextIsFree
<1>3. CASE ~IsBlock(q)
  <2>1. /\ Begun(q) = Start(until) /\ Key(q) = <<Start(until), run[q].mine>> /\ ~Late(until)
    BY <1>3, ClaimedRaiseIs
  <2> QED
    BY <1>1, <1>3, <2>1 DEF RaisesFit
<1> QED
  BY <1>2, <1>3

\* A claim is put where nothing was, and leaves the claims of others in the book.
LEMMA ClaimKeepsBook ==
    ASSUME Fits, Sound, NEW q \in Runs, Claim(q)
    PROVE  BookOnGrid' /\ RaisesFit' /\ KeysDiffer' /\ \A p \in Runs : Standing(p)'
<1>1. /\ until' = Claimed(q) /\ paid' = run[q].mine /\ until'[1] = until[1]
      /\ DOMAIN book' = DOMAIN book \cup {Key(q)} /\ Key(q) \notin DOMAIN book
      /\ \A k \in DOMAIN book : book'[k] = book[k]
      /\ book'[Key(q)] = [price |-> Price(q), amount |-> Amount(q)]
      /\ OthersStay(q) /\ UNCHANGED clock
      /\ Pending(q)' => SameBill(q) /\ Amount(q) > 0
  BY ClaimIs
<1>2. /\ BookOnGrid /\ KeysDiffer /\ \A p \in Runs : Standing(p)
  BY DEF Sound
<1>3. BookOnGrid'
  <2> SUFFICES ASSUME NEW k \in DOMAIN book'
               PROVE  /\ k[1][1] \in 1 .. episode
                      /\ k[1][1] = until[1] => OnGrid(k[1][2] + BlockLen, until'[2])
    BY <1>1 DEF BookOnGrid, clock
  <2>1. CASE k \in DOMAIN book
    <3>1. /\ k[1][1] \in 1 .. episode
          /\ k[1][1] = until[1] => OnGrid(k[1][2] + BlockLen, until[2])
      BY <1>2, <2>1 DEF BookOnGrid
    <3>2. CASE IsBlock(q)
      <4>1. until'[2] = until[2] + BlockLen
        BY <3>2, ClaimedBlockIs
      <4>2. k[1][2] + BlockLen \in Int /\ until[2] \in Int
        BY <2>1, NumbersAre, TimesAre, LevelsAre DEF Fits, TypeOK, Keys
      <4>3. OnGrid(k[1][2] + BlockLen, until[2]) => OnGrid(k[1][2] + BlockLen, until'[2])
        BY <4>1, <4>2, Grid
      <4> QED
        BY <3>1, <4>3
    <3>3. CASE ~IsBlock(q)
      BY <3>1, <3>3, ClaimedRaiseIs
    <3> QED
      BY <3>2, <3>3
  <2>2. CASE k = Key(q)
    <3>1. /\ k[1] = Begun(q) /\ Begun(q)[1] = until'[1] /\ until'[1] \in 1 .. episode
          /\ until'[2] = Begun(q)[2] + BlockLen
      BY <1>1, <2>2, ClaimIs, ClaimsAre
    <3>2. OnGrid(until'[2], until'[2])
      <4>1. until'[2] \in Int
        BY ClaimIs, TimesAre
      <4> QED
        BY <4>1, Grid
    <3> QED
      BY <1>1, <3>1, <3>2
  <2> QED
    BY <1>1, <2>1, <2>2
<1>4. RaisesFit'
  <2> SUFFICES ASSUME NEW l \in DOMAIN Cost, <<Start(until'), l>> \in DOMAIN book'
               PROVE  l <= run[q].mine
    BY <1>1 DEF RaisesFit
  <2>1. /\ ~IsBlock(q) /\ (l = run[q].mine \/ l <= paid)
    BY ClaimedBlockHolds
  <2>2. paid < run[q].mine
    BY <2>1, ClaimedRaiseIs
  <2> QED
    BY <2>1, <2>2, NumbersAre
<1>5. \A p \in Runs : p # q => /\ Key(p)' = Key(p) /\ (Pending(p)' <=> Pending(p))
                               /\ Price(p)' = Price(p) /\ Amount(p)' = Amount(p)
  BY <1>1, OthersAreSteady, SameBills DEF OthersStay, Steady, Pending
<1>6. Pending(q)' => /\ Key(q)' = Key(q) /\ Price(q)' = Price(q) /\ Amount(q)' = Amount(q)
  BY <1>1, SameBills
<1>7. KeysDiffer'
  <2>1. \A p \in Runs : Pending(p) => Key(p) # Key(q)
    BY <1>1, <1>2 DEF Standing
  <2> QED
    BY <1>2, <1>5, <1>6, <2>1 DEF KeysDiffer
<1>8. \A p \in Runs : Standing(p)'
  <2>1. Standing(q)'
    BY <1>1, <1>6 DEF Standing
  <2>2. ASSUME NEW p \in Runs, p # q PROVE Standing(p)'
    BY <1>1, <1>2, <1>5, <2>2 DEF Standing
  <2> QED
    BY <2>1, <2>2
<1> QED
  BY <1>3, <1>4, <1>7, <1>8

\* After a claim, the last claim is on top.
LEMMA ClaimKeepsTop ==
    ASSUME Fits, Sound, NEW q \in Runs, Claim(q)
    PROVE  \A p \in Runs : OnTop(p)'
<1>1. /\ until = Under(q) /\ until' = Claimed(q) /\ paid' = run[q].mine /\ carry' = Rest(q)
      /\ DOMAIN book' = DOMAIN book \cup {Key(q)} /\ Start(until') = Begun(q)
      /\ RaisersStay /\ OthersStay(q) /\ UNCHANGED clock
      /\ Pending(q)' => SameBill(q) /\ Amount(q) > 0
  BY ClaimIs
<1>2. BookOnGrid /\ RaisesFit /\ \A p \in Runs : Standing(p) /\ OnTop(p)
  BY DEF Sound
<1>3. OnTop(q)'
  <2> SUFFICES ASSUME Pending(q)'
               PROVE  OnTop(q)'
    BY DEF OnTop
  <2>1. /\ Claimed(q)' = Claimed(q) /\ Rest(q)' = Rest(q) /\ Key(q)' = Key(q)
        /\ Begun(q)' = Begun(q) /\ run'[q].mine = run[q].mine /\ IsBlock(q)' = IsBlock(q)
        /\ run'[q].seen.paid = run[q].seen.paid
    BY <1>1, SameBills DEF SameBill
  <2>2. Underneath(q)'
    <3> SUFFICES ASSUME NEW l \in DOMAIN Cost, <<Begun(q), l>> \in DOMAIN book',
                        <<Begun(q), l>> # Key(q)
                 PROVE  ~IsBlock(q) /\ l <= run[q].seen.paid
      BY <2>1 DEF Underneath, Beneath
    <3>1. ~IsBlock(q) /\ (l = run[q].mine \/ l <= paid)
      BY <1>1, ClaimedBlockHolds
    <3>2. Key(q) = <<Begun(q), run[q].mine>> /\ run[q].seen.paid = paid
      BY <3>1, ClaimedRaiseIs
    <3> QED
      BY <3>1, <3>2
  <2>3. run[q].mine \in Int
    BY NumbersAre
  <2> QED
    BY <1>1, <2>1, <2>2, <2>3 DEF OnTop
<1>4. ASSUME NEW p \in Runs, p # q PROVE OnTop(p)'
  <2> SUFFICES ASSUME Pending(p), until' = Claimed(p), SameBill(p)
               PROVE  paid' > run[p].mine
    <3>1. /\ run'[p].mine = run[p].mine /\ SameBill(p) /\ (Pending(p)' => Pending(p))
          /\ Claimed(p)' = Claimed(p)
      BY <1>1, <1>4, OthersAreSteady, SameBills DEF Steady, SameBill
    <3>2. paid' \in Int /\ run[p].mine \in Int
      BY <1>1, NumbersAre
    <3> QED
      BY <3>1, <3>2 DEF OnTop
  <2>1. Key(p) \in DOMAIN book /\ Begun(p) = Begun(q)
    BY <1>1, <1>2, ClaimsAre DEF Standing
  <2>2. CASE IsBlock(q)
    <3>1. Key(p)[1] = until
      BY <2>1, <2>2, ClaimsAre, ClaimedBlockIs
    <3>2. Key(p) = <<until, Key(p)[2]>>
      BY <3>1, ClaimsAre
    <3> QED
      BY <1>2, <2>1, <3>2, NextIsFree
  <2>3. CASE ~IsBlock(q)
    <3>1. /\ until' = until /\ paid < run[q].mine /\ ~LateBut(p, until)
      BY <1>4, <2>3, ClaimedRaiseIs
    <3>2. paid >= run[p].mine
      BY <1>2, <3>1 DEF OnTop
    <3> QED
      BY <1>1, <3>1, <3>2, NumbersAre
  <2> QED
    BY <2>2, <2>3
<1> QED
  BY <1>3, <1>4

\* The claim of q lies on that of p.
LEMMA ClaimIsStacked ==
    ASSUME Fits, Sound, NEW q \in Runs, Claim(q), NEW p \in Runs, p # q
    PROVE  Stack(p, q)'
<1>1. /\ until = Under(q) /\ paid' = run[q].mine /\ run[q].seen.carry = carry
      /\ DOMAIN book' = DOMAIN book \cup {Key(q)}
      /\ RaisersStay /\ OthersStay(q) /\ UNCHANGED clock
      /\ Pending(q)' => SameBill(q)
  BY ClaimIs
<1>2. OnTop(p) /\ Stale(p, q)
  BY DEF Sound
<1> SUFFICES ASSUME Pending(p), Pending(q)', SameBill(p), SameBill(q), until = Claimed(p)
             PROVE  /\ \/ run[q].seen.paid > run[p].mine
                       \/ run[q].seen.carry = Rest(p) /\ UnderneathBut(p, q)'
                    /\ run[q].seen.paid >= run[p].mine \/ LateBut(p, Claimed(p))'
  <2>1. SameBill(p) /\ (Pending(p)' => Pending(p))
    BY <1>1, OthersAreSteady DEF Steady
  <2>2. /\ Claimed(p)' = Claimed(p) /\ Rest(p)' = Rest(p)
        /\ run'[p].mine = run[p].mine
    BY <2>1, SameBills DEF SameBill
  <2>3. Pending(q)' => /\ SameBill(q) /\ IsBlock(q)' = IsBlock(q) /\ run'[q].next = run[q].next
                       /\ run'[q].seen = run[q].seen
    BY <1>1, SameBills DEF SameBill
  <2>4. Pending(q)' => Under(q)' = Under(q)
    BY <2>3 DEF Under
  <2> QED
    BY <1>1, <2>1, <2>2, <2>3, <2>4 DEF Stack
<1>3. /\ Underneath(p) => UnderneathBut(p, q)'
      /\ LateBut(p, Claimed(p)) => LateBut(p, Claimed(p))'
  <2>1. /\ Begun(p)' = Begun(p) /\ Key(p)' = Key(p) /\ Key(q)' = Key(q)
        /\ Claimed(p)' = Claimed(p)
    BY SameBills
  <2>2. Claimed(p)[2] \in Int
    BY ClaimsAre, TimesAre
  <2>3. \A l \in DOMAIN Cost : Beneath(p, l) => Beneath(p, l)'
    BY <1>1, BeneathKept
  <2>4. Underneath(p) => UnderneathBut(p, q)'
    BY <1>1, <2>1, <2>3 DEF Underneath, UnderneathBut
  <2>5. LateBut(p, Claimed(p)) => LateBut(p, Claimed(p))'
    BY <1>1, <2>1, <2>2, LateKept DEF LateBut
  <2> QED
    BY <2>4, <2>5
<1>4. CASE ~IsBlock(q)
  <2>1. run[q].seen.paid = paid
    BY <1>4, ClaimedRaiseIs
  <2> QED
    BY <1>1, <1>2, <1>3, <2>1 DEF OnTop
<1>5. CASE IsBlock(q)
  <2>1. At(q, "claim") /\ run[q].next = until /\ run[q].at >= until[2]
    BY <1>5, ClaimIs, ClaimedBlockIs
  <2>2. \/ run[q].seen.paid > run[p].mine
        \/ run[q].seen.carry = Rest(p) /\ UnderneathBut(p, q)'
    BY <1>1, <1>2, <1>3, <1>5, <2>1 DEF OnTop, Stale
  <2>3. LateBut(p, Claimed(p))'
    <3>1. Claimed(p)' = until /\ run'[q].at = run[q].at /\ now' = now
      BY <1>1, SameBills DEF SameBill, clock
    <3>2. now >= run[q].at
      BY <2>1, NumbersAre DEF Fits, RunFits, Active, At
    <3>3. now >= until[2] /\ run'[q].at >= until[2]
      BY <2>1, <3>1, <3>2, NumbersAre
    <3>4. \A r \in Runs : r # p => r = q
      BY LevelsAre
    <3> QED
      BY <3>1, <3>3, <3>4 DEF LateBut
  <2> QED
    BY <2>2, <2>3
<1> QED
  BY <1>4, <1>5

\* After a claim, giving it back would put the one under it on top again.
LEMMA ClaimKeepsStack ==
    ASSUME Fits, Sound, NEW q \in Runs, Claim(q)
    PROVE  \A p, r \in Runs : Stack(p, r)' /\ Stale(p, r)'
<1>1. /\ until = Under(q) /\ until' = Claimed(q) /\ paid' = run[q].mine /\ carry' = Rest(q)
      /\ DOMAIN book' = DOMAIN book \cup {Key(q)} /\ Key(q) \notin DOMAIN book
      /\ Start(until') = Begun(q)
      /\ RaisersStay /\ OthersStay(q) /\ UNCHANGED clock /\ ~At(q, "claim")'
      /\ Pending(q)' => SameBill(q)
  BY ClaimIs
<1>2. BookOnGrid /\ \A p \in Runs : Standing(p)
  BY DEF Sound
<1>3. ASSUME NEW p \in Runs, p # q PROVE Stack(q, p)'
  <2> SUFFICES ASSUME Pending(p), SameBill(p), ~IsBlock(p), Begun(p) = Begun(q),
                      run[p].mine = run[q].mine
               PROVE  FALSE
    <3>1. SameBill(p) /\ (Pending(p)' => Pending(p))
      BY <1>1, <1>3, OthersAreSteady DEF Steady
    <3>2. /\ Claimed(p)' = Claimed(p) /\ IsBlock(p)' = IsBlock(p)
          /\ run'[p].next = run[p].next /\ run'[p].seen = run[p].seen
          /\ run'[p].mine = run[p].mine
      BY <3>1, SameBills DEF SameBill
    <3>3. Under(p)' = Under(p)
      BY <3>2 DEF Under
    <3>4. Pending(q)' => Claimed(q)' = Claimed(q)
      BY <1>1, SameBills
    <3>5. /\ Pending(p) => /\ Claimed(p) = End(Begun(p)) /\ End(Begun(p)) # Begun(p)
                           /\ IsBlock(p) => Begun(p) = run[p].next
                           /\ Begun(p) = Start(Claimed(p))
      BY ClaimsAre, TimesAre
    <3> QED
      BY <1>1, <3>1, <3>2, <3>3, <3>4, <3>5 DEF Stack, ReleaseMatches, Under
  <2>1. Key(p) = <<Begun(q), run[q].mine>> /\ Key(p) \in DOMAIN book
    BY <1>2, ClaimsAre DEF Standing
  <2>2. CASE IsBlock(q)
    BY <1>2, <2>1, <2>2, ClaimedBlockIs, NextIsFree
  <2>3. CASE ~IsBlock(q)
    BY <1>1, <2>1, <2>3, ClaimedRaiseIs
  <2> QED
    BY <2>2, <2>3
<1>4. ASSUME NEW p \in Runs, p # q PROVE Stale(q, p)'
  <2> SUFFICES ASSUME Pending(q)', until' = Claimed(q)'
               PROVE  (carry = Rest(q) /\ Underneath(q))'
    BY DEF Stale
  <2>1. OnTop(q)' /\ paid' = run'[q].mine /\ run[q].mine \in Int /\ run'[q].mine = run[q].mine
    BY <1>1, ClaimKeepsTop, NumbersAre DEF SameBill
  <2> QED
    BY <2>1 DEF OnTop
<1>5. \A p \in Runs : Stale(p, q)'
  BY <1>1 DEF Stale
<1>6. \A p, r \in Runs : p # r => p = q \/ r = q
  BY LevelsAre
<1>7. \A p \in Runs : Stack(p, p)' /\ Stale(p, p)'
  BY DEF Stack, Stale
<1> QED
  BY <1>3, <1>4, <1>5, <1>6, <1>7, ClaimIsStacked

\* A claim leaves the raises before a block where they were.
LEMMA ClaimKeepsRaises ==
    ASSUME Fits, Sound, NEW q \in Runs, Claim(q)
    PROVE  \A p \in Runs : RaisesBefore(p)'
<1>1. /\ until = Under(q) /\ until' = Claimed(q)
      /\ DOMAIN book' = DOMAIN book \cup {Key(q)} /\ Start(until') = Begun(q)
      /\ RaisersStay /\ OthersStay(q) /\ UNCHANGED clock /\ ~At(q, "claim")'
      /\ Pending(q)' => SameBill(q)
      /\ At(q, "claim")
  BY ClaimIs
<1>2. \A p \in Runs : RaisesBefore(p)
  BY DEF Sound
<1>3. \A p \in Runs : run[p].next[2] \in Int
  BY NumbersAre
<1>4. RaisesBefore(q)'
  <2> SUFFICES ASSUME Pending(q)', IsBlock(q)' PROVE RaisesBefore(q)'
    BY <1>1 DEF RaisesBefore
  <2>1. /\ IsBlock(q) /\ run'[q].next = run[q].next /\ run'[q].seen.paid = run[q].seen.paid
    BY <1>1, SameBills DEF SameBill
  <2>2. /\ run[q].next = until /\ Key(q) = <<until, 0>> /\ Start(until) # until
    BY <2>1, ClaimedBlockIs, TimesAre, LevelsAre DEF Fits, TypeOK
  <2>3. Late(run[q].next) => Late(run[q].next)'
    BY <1>1, <1>3, <2>1, LateKept DEF Late
  <2> QED
    BY <1>1, <1>2, <2>1, <2>2, <2>3 DEF RaisesBefore
<1>5. ASSUME NEW p \in Runs, p # q PROVE RaisesBefore(p)'
  <2>1. Steady(p) /\ SameBill(p) /\ IsBlock(p)' = IsBlock(p)
    BY <1>1, <1>5, OthersAreSteady, SameBills DEF Steady
  <2> SUFFICES ASSUME IsBlock(p), Pending(p) \/ At(p, "claim"),
                      Pending(p) \/ run[p].next = until',
                      NEW l \in DOMAIN Cost, <<Start(run[p].next), l>> \in DOMAIN book'
               PROVE  l <= run[p].seen.paid \/ Late(run[p].next)'
    BY <2>1 DEF RaisesBefore, Steady, SameBill
  <2>2. run'[p].next = run[p].next /\ run'[p].at = run[p].at
    BY <2>1 DEF SameBill
  <2>3. CASE Pending(p) /\ <<Start(run[p].next), l>> \in DOMAIN book
    <3>1. Late(run[p].next) => Late(run[p].next)'
      BY <1>1, <1>3, <2>2, LateKept DEF Late
    <3> QED
      BY <1>2, <2>3, <3>1 DEF RaisesBefore
  <2>4. CASE <<Start(run[p].next), l>> = Key(q) \/ run[p].next = until'
    <3>1. ~IsBlock(q)
      <4>1. CASE run[p].next = until'
        BY <4>1, ClaimedBlockHolds
      <4>2. CASE <<Start(run[p].next), l>> = Key(q)
        BY <4>2, ClaimedBlockIs, BillingConstants
      <4> QED
        BY <2>4, <4>1, <4>2
    <3>2. ~MayRaise(q)'
      BY <3>1, ClaimedRaiseIs
    <3>3. run[p].next[2] <= run[p].at /\ run[p].at <= now
      BY DEF Fits, RunFits, Active, At, Pending, Billing
    <3>4. now' >= run[p].next[2] /\ run'[p].at >= run[p].next[2]
      BY <1>1, <2>2, <3>3, NumbersAre DEF clock
    <3>5. \A r \in Runs : r # q => r = p
      BY <1>5, LevelsAre
    <3> QED
      BY <2>2, <3>2, <3>4, <3>5 DEF Late
  <2> QED
    BY <1>1, <2>3, <2>4
<1> QED
  BY <1>4, <1>5

\* A claim keeps the book sound.
LEMMA ClaimKeeps == ASSUME Fits, Sound, NEW q \in Runs, Claim(q) PROVE Sound'
  BY ClaimKeepsBook, ClaimKeepsTop, ClaimKeepsStack, ClaimKeepsRaises DEF Sound

-----------------------------------------------------------------------------
(* A claim that is given back.                                             *)

\* A claim that is given back was the last one, and the row is as it was read.
LEMMA ReleaseIs ==
    ASSUME Fits, Sound, NEW q \in Runs, Release(q), ReleaseMatches(q)
    PROVE  /\ Pending(q) /\ until = Claimed(q) /\ until' = Under(q)
           /\ carry' = run[q].seen.carry /\ paid' = run[q].seen.paid
           /\ DOMAIN book' = DOMAIN book \ {Key(q)}
           /\ \A k \in DOMAIN book' : book'[k] = book[k]
           /\ until'[1] = until[1] /\ Start(until) = Begun(q)
           /\ carry = Rest(q) /\ Underneath(q)
           /\ RaisersStay /\ OthersStay(q) /\ UNCHANGED clock /\ Out(q)
           /\ MayRaise(q)' => IsBlock(q) /\ run'[q].at >= until'[2]
           /\ IsBlock(q) => until' = run[q].next /\ until'[2] = until[2] - BlockLen
           /\ ~IsBlock(q) => until' = until
<1>1. /\ Pending(q) /\ Moves(q) /\ UNCHANGED clock /\ OnTop(q)
  BY DEF Release, Pending, Moves, Billing, Sound
<1>2. /\ RaisersStay /\ OthersStay(q) /\ Out(q)
      /\ ~IsBlock(q) => ~MayRaise(q)'
      /\ MayRaise(q)' => run'[q].at = run[q].at
  BY <1>1, MovesAre DEF Release
<1>3. until = Claimed(q) /\ paid = run[q].mine
  BY DEF Release, ReleaseMatches
<1>4. /\ until' = Under(q) /\ carry' = run[q].seen.carry /\ paid' = run[q].seen.paid
      /\ DOMAIN book' = DOMAIN book \ {Key(q)}
      /\ \A k \in DOMAIN book' : book'[k] = book[k]
  BY <1>3 DEF Release, Under, Claimed, Restrict
<1>5. /\ Start(until) = Begun(q) /\ Begun(q)[1] = until[1]
      /\ until[2] = Begun(q)[2] + BlockLen /\ Begun(q)[2] \in Int
      /\ IsBlock(q) => Begun(q) = run[q].next
      /\ ~IsBlock(q) => Claimed(q) = run[q].seen.until
  BY <1>1, <1>3, ClaimsAre, TimesAre
<1>6. carry = Rest(q) /\ Underneath(q)
  <2>1. ~(paid > run[q].mine)
    BY <1>3, NumbersAre
  <2> QED
    BY <1>1, <1>3, <2>1 DEF OnTop
<1>7. IsBlock(q) => until' = run[q].next /\ until'[2] = until[2] - BlockLen
  BY <1>4, <1>5, LevelsAre DEF Under
<1>8. IsBlock(q) => run[q].at >= run[q].next[2]
  BY <1>1, NumbersAre DEF Fits, RunFits, Active, Pending, Billing
<1> QED
  BY <1>1, <1>2, <1>3, <1>4, <1>5, <1>6, <1>7, <1>8 DEF Under

\* Giving a claim back leaves the claims of others in the book.
LEMMA ReleaseKeepsBook ==
    ASSUME Fits, Sound, NEW q \in Runs, Release(q), ReleaseMatches(q)
    PROVE  BookOnGrid' /\ RaisesFit' /\ KeysDiffer' /\ \A p \in Runs : Standing(p)'
<1>1. /\ Pending(q) /\ until = Claimed(q) /\ paid' = run[q].seen.paid
      /\ DOMAIN book' = DOMAIN book \ {Key(q)}
      /\ \A k \in DOMAIN book' : book'[k] = book[k]
      /\ until'[1] = until[1] /\ Start(until) = Begun(q)
      /\ Underneath(q) /\ RaisersStay /\ OthersStay(q) /\ UNCHANGED clock /\ Out(q)
      /\ IsBlock(q) => until' = run[q].next /\ until'[2] = until[2] - BlockLen
      /\ ~IsBlock(q) => until' = until
  BY ReleaseIs
<1>2. /\ BookOnGrid /\ KeysDiffer /\ RaisesBefore(q) /\ \A p \in Runs : Standing(p)
  BY DEF Sound
<1>3. BookOnGrid'
  <2> SUFFICES ASSUME NEW k \in DOMAIN book'
               PROVE  /\ k[1][1] \in 1 .. episode
                      /\ k[1][1] = until[1] => OnGrid(k[1][2] + BlockLen, until'[2])
    BY <1>1 DEF BookOnGrid, clock
  <2>1. /\ k \in DOMAIN book /\ k # Key(q) /\ k \in Keys
        /\ k[1][1] \in 1 .. episode
        /\ k[1][1] = until[1] => OnGrid(k[1][2] + BlockLen, until[2])
    BY <1>1, <1>2 DEF BookOnGrid, Fits, TypeOK
  <2>2. CASE IsBlock(q) /\ k[1][1] = until[1]
    <3>1. k = <<k[1], k[2]>> /\ k[1] \in Times /\ k[2] \in Levels
      BY <2>1 DEF Keys
    <3>2. /\ k[1] = <<k[1][1], k[1][2]>> /\ k[1][2] \in Int /\ until[2] \in Int
          /\ until = <<until[1], until[2]>> /\ Start(until) = <<until[1], until[2] - BlockLen>>
      BY <3>1, TimesAre DEF Fits, TypeOK
    <3>3. k[1][2] + BlockLen # until[2]
      <4> SUFFICES ASSUME k[1][2] + BlockLen = until[2] PROVE FALSE
        OBVIOUS
      <4>1. k[1][2] = until[2] - BlockLen
        BY <3>2, LevelsAre
      <4>2. k[1] = Begun(q)
        BY <1>1, <2>2, <3>2, <4>1
      <4>3. Key(q) = <<Begun(q), 0>>
        BY <1>1, <2>2, ClaimsAre
      <4>4. k[2] \in DOMAIN Cost
        BY <2>1, <3>1, <4>2, <4>3 DEF Levels
      <4> QED
        BY <1>1, <2>1, <2>2, <3>1, <4>2, <4>4 DEF Underneath, Beneath
    <3>4. k[1][2] + BlockLen \in Int
      BY <3>2, LevelsAre
    <3> QED
      BY <1>1, <2>1, <2>2, <3>2, <3>3, <3>4, Grid
  <2> QED
    BY <1>1, <2>1, <2>2
<1>4. RaisesFit'
  <2> SUFFICES ASSUME NEW l \in DOMAIN Cost, <<Start(until'), l>> \in DOMAIN book'
               PROVE  l <= run[q].seen.paid \/ Late(until)'
    BY <1>1 DEF RaisesFit
  <2>1. CASE IsBlock(q)
    <3>1. l <= run[q].seen.paid \/ Late(run[q].next)
      BY <1>1, <1>2, <2>1 DEF RaisesBefore
    <3>2. Late(run[q].next) => Late(until)'
      BY <1>1, <2>1, NumbersAre, LateKept DEF Late
    <3> QED
      BY <3>1, <3>2
  <2>2. CASE ~IsBlock(q)
    <3>1. <<Begun(q), l>> \in DOMAIN book /\ <<Begun(q), l>> # Key(q)
      BY <1>1, <2>2
    <3>2. l <= run[q].seen.paid \/ Late(until)
      BY <1>1, <3>1 DEF Underneath, Beneath
    <3>3. Late(until) => Late(until)'
      BY <1>1, <2>2, NumbersAre, LateKept DEF Late
    <3> QED
      BY <3>2, <3>3
  <2> QED
    BY <2>1, <2>2
<1>5. \A p \in Runs : Pending(p)' => /\ p # q /\ Pending(p) /\ Key(p)' = Key(p)
                                    /\ Price(p)' = Price(p) /\ Amount(p)' = Amount(p)
  BY <1>1, OthersAreSteady, SameBills DEF Steady, Out
<1>6. KeysDiffer'
  BY <1>2, <1>5 DEF KeysDiffer
<1>7. \A p \in Runs : Standing(p)'
  <2> SUFFICES ASSUME NEW p \in Runs, Pending(p)' PROVE Standing(p)'
    BY DEF Standing
  <2>1. Key(p) # Key(q)
    BY <1>1, <1>2, <1>5 DEF KeysDiffer
  <2> QED
    BY <1>1, <1>2, <1>5, <2>1 DEF Standing
<1> QED
  BY <1>3, <1>4, <1>6, <1>7

\* After giving a claim back, the one under it is on top.
LEMMA ReleaseKeepsTop ==
    ASSUME Fits, Sound, NEW q \in Runs, Release(q), ReleaseMatches(q)
    PROVE  \A p, r \in Runs : OnTop(p)' /\ Stack(p, r)' /\ Stale(p, r)'
<1>1. /\ Pending(q) /\ until' = Under(q)
      /\ carry' = run[q].seen.carry /\ paid' = run[q].seen.paid
      /\ DOMAIN book' = DOMAIN book \ {Key(q)}
      /\ RaisersStay /\ OthersStay(q) /\ Out(q)
  BY ReleaseIs
<1>2. \A p \in Runs : p # q => Stack(p, q)
  BY DEF Sound
<1>3. ASSUME NEW p \in Runs PROVE OnTop(p)'
  <2> SUFFICES ASSUME Pending(p)' PROVE OnTop(p)'
    BY DEF OnTop
  <2>1. /\ p # q /\ Pending(p) /\ SameBill(p)
        /\ Claimed(p)' = Claimed(p) /\ Rest(p)' = Rest(p)
        /\ Begun(p)' = Begun(p) /\ Key(p)' = Key(p)
        /\ run'[p].mine = run[p].mine
    BY <1>1, OthersAreSteady, SameBills DEF Steady, Out, SameBill
  <2>2. UnderneathBut(p, q) => Underneath(p)'
    <3>1. \A l \in DOMAIN Cost : Beneath(p, l) => Beneath(p, l)'
      BY <1>1, <2>1, BeneathKept
    <3> QED
      BY <1>1, <2>1, <3>1 DEF Underneath, UnderneathBut
  <2>3. LateBut(p, Claimed(p)) => LateBut(p, Claimed(p))'
    BY <1>1, <2>1, UnderneathKept
  <2> QED
    BY <1>1, <1>2, <2>1, <2>2, <2>3 DEF OnTop, Stack
<1>4. ASSUME NEW p \in Runs, NEW r \in Runs PROVE Stack(p, r)' /\ Stale(p, r)'
  BY <1>1, <1>4, LevelsAre DEF Stack, Stale, Out
<1> QED
  BY <1>3, <1>4

\* Giving a claim back leaves the raises before a block where they were.
LEMMA ReleaseKeepsRaises ==
    ASSUME Fits, Sound, NEW q \in Runs, Release(q), ReleaseMatches(q)
    PROVE  \A p \in Runs : RaisesBefore(p)'
<1>1. /\ until' = Under(q) /\ DOMAIN book' = DOMAIN book \ {Key(q)}
      /\ RaisersStay /\ OthersStay(q) /\ UNCHANGED clock /\ Out(q)
      /\ MayRaise(q)' => run'[q].at >= until'[2]
  BY ReleaseIs
<1>2. \A p \in Runs : RaisesBefore(p)
  BY DEF Sound
<1>3. RaisesBefore(q)'
  BY <1>1 DEF RaisesBefore, Out
<1>4. ASSUME NEW p \in Runs, p # q PROVE RaisesBefore(p)'
  <2>1. /\ Steady(p) /\ SameBill(p) /\ IsBlock(p)' = IsBlock(p)
        /\ run'[p].next = run[p].next /\ run'[p].at = run[p].at
        /\ run'[p].seen.paid = run[p].seen.paid
    BY <1>1, <1>4, OthersAreSteady, SameBills DEF Steady, SameBill
  <2>2. CASE Pending(p) /\ IsBlock(p)
    <3>1. Late(run[p].next) => Late(run[p].next)'
      BY <1>1, <2>1, NumbersAre, LateKept DEF Late
    <3> QED
      BY <1>1, <1>2, <2>1, <2>2, <3>1 DEF RaisesBefore
  <2>3. CASE At(p, "claim") /\ IsBlock(p) /\ run[p].next = until'
    <3>1. run[p].next[2] <= run[p].at /\ run[p].at <= now
      BY <2>3 DEF Fits, RunFits, Active, At, Pending, Billing
    <3>2. now' >= run[p].next[2] /\ run'[p].at >= run[p].next[2]
      BY <1>1, <2>1, <3>1, NumbersAre DEF clock
    <3>3. \A r \in Runs : r # q => r = p
      BY <1>4, LevelsAre
    <3>4. Late(run[p].next)'
      BY <1>1, <2>1, <2>3, <3>2, <3>3 DEF Late
    <3> QED
      BY <2>1, <3>4 DEF RaisesBefore
  <2> QED
    BY <2>1, <2>2, <2>3 DEF RaisesBefore, Steady
<1> QED
  BY <1>3, <1>4

\* Giving a claim back keeps the book sound.
LEMMA ReleaseKeeps ==
    ASSUME Fits, Sound, NEW q \in Runs, Release(q), ReleaseMatches(q)
    PROVE  Sound'
  BY ReleaseKeepsBook, ReleaseKeepsTop, ReleaseKeepsRaises DEF Sound

-----------------------------------------------------------------------------
(* The other steps that change the row.                                    *)

\* A level that was not known: nobody has claimed the block then.
LEMMA LevelSeenKeeps ==
    ASSUME Fits, Sound, NEW q \in Runs, ReadRaise(q), paid' # paid
    PROVE  Sound'
<1>1. /\ paid = 0 /\ until[2] > run[q].at /\ MayRaise(q)
      /\ Stop(q) /\ UNCHANGED <<until, carry, book>> /\ UNCHANGED clock
  BY DEF ReadRaise, Inside, At, MayRaise, ghosts
<1>2. OthersStay(q) /\ run'[q].pc = "idle" /\ RaisersStay
  <2>1. OthersStay(q) /\ run'[q].pc = "idle"
    BY <1>1, RunsAre, Stopping DEF Fits
  <2> QED
    BY <1>1, <2>1, OthersAreSteady, NumbersAre
       DEF RaisersStay, MayRaise, Pending, Billing, clock
<1>3. ~Pending(q)' /\ ~At(q, "claim")'
  BY <1>2 DEF Pending, At, Billing
<1>4. \A p \in Runs : p # q => /\ Steady(p) /\ SameBill(p)
                               /\ Key(p)' = Key(p) /\ Price(p)' = Price(p)
                               /\ Amount(p)' = Amount(p) /\ IsBlock(p)' = IsBlock(p)
                               /\ Claimed(p)' = Claimed(p)
  BY <1>2, OthersAreSteady, SameBills DEF Steady
<1>5. KeysDiffer' /\ \A p \in Runs : Standing(p)'
  BY <1>1, <1>3, <1>4 DEF Sound, KeysDiffer, Standing, Steady
<1>6. Late(until) => Late(until)'
  BY <1>1, <1>2, NumbersAre, LateKept DEF Late
<1>7. BookOnGrid' /\ RaisesFit'
  <2>1. \A l \in DOMAIN Cost : ~(l <= paid)
    BY <1>1, BillingConstants
  <2> QED
    BY <1>1, <1>6, <2>1 DEF Sound, BookOnGrid, RaisesFit, clock
<1>8. ASSUME NEW p \in Runs, Pending(p)' PROVE until' # Claimed(p)'
  <2>1. p # q /\ Pending(p) /\ Claimed(p)' = Claimed(p)
    BY <1>3, <1>4, <1>8 DEF Steady
  <2>2. ~(paid >= run[p].mine)
    BY <1>1, <2>1, BillingConstants DEF Fits, RunFits, Active, Pending, Billing
  <2>3. ~LateBut(p, until)
    BY <1>1, <2>1, NumbersAre DEF LateBut
  <2> QED
    BY <1>1, <2>1, <2>2, <2>3 DEF Sound, OnTop
<1>9. \A p, r \in Runs : OnTop(p)' /\ Stack(p, r)' /\ Stale(p, r)'
  BY <1>3, <1>8, LevelsAre DEF OnTop, Stack, Stale
<1>10. \A p \in Runs : RaisesBefore(p)'
  <2>1. RaisesBefore(q)'
    BY <1>3 DEF RaisesBefore
  <2>2. ASSUME NEW p \in Runs, p # q PROVE RaisesBefore(p)'
    <3>1. Late(run[p].next) => Late(run[p].next)'
      BY <1>2, <1>4, <2>2, NumbersAre, LateKept DEF Late, SameBill
    <3> QED
      BY <1>1, <1>4, <2>2, <3>1 DEF Sound, RaisesBefore, Steady, SameBill
  <2> QED
    BY <2>1, <2>2
<1> QED
  BY <1>5, <1>7, <1>9, <1>10 DEF Sound

\* An episode begins or ends: no claim is on its blocks.
LEMMA EpisodeKeeps ==
    ASSUME Fits, Sound, NEW l \in Levels, Scale(l), until' # until
    PROVE  Sound'
<1>1. /\ episode' \in Int /\ episode <= episode' /\ until'[1] \notin 1 .. episode
      /\ until' = <<until'[1], until'[2]>>
      /\ UNCHANGED <<carry, paid, book, now>>
  <2>1. episode \in Int /\ episode >= 0
    BY DEF Fits, TypeOK
  <2> QED
    BY <2>1 DEF Scale, None, ghosts
<1>2. OthersStay("engine") /\ run'["engine"].pc \in {"idle", "next"} /\ "engine" \in Runs
      /\ (run'["engine"].pc = "next" => run'["engine"].at = now)
  <2>1. /\ now \in 0 .. MaxTime /\ until \in Times
        /\ run \in [Runs -> RunType] /\ "engine" \in Runs
    BY RunsAre, LevelsAre DEF Fits, TypeOK
  <2>2. until' \in Times /\ run["engine"].next \in Times
    BY <2>1, RunsAre, ScaleKeepsFits DEF Fits, TypeOK
  <2> QED
    BY <2>1, <2>2, Stopping, Beginning DEF Scale
<1>3. /\ ~Pending("engine")' /\ ~At("engine", "claim")' /\ RaisersStay
  <2>1. ~Pending("engine")' /\ ~At("engine", "claim")'
    BY <1>2 DEF Pending, At, Billing
  <2>2. MayRaise("engine")' => run'["engine"].at = now
    BY <1>2 DEF MayRaise, Pending, Billing
  <2>3. \A r \in Runs : r # "engine" => /\ run'[r].at = run[r].at
                                        /\ MayRaise(r)' => MayRaise(r)
    BY <1>2, OthersAreSteady
  <2> QED
    BY <1>1, <2>1, <2>2, <2>3, NumbersAre DEF RaisersStay
<1>4. \A p \in Runs : p # "engine" =>
        /\ Steady(p) /\ SameBill(p)
        /\ Key(p)' = Key(p) /\ Price(p)' = Price(p)
        /\ Amount(p)' = Amount(p) /\ IsBlock(p)' = IsBlock(p)
        /\ Claimed(p)' = Claimed(p)
  BY <1>2, OthersAreSteady, SameBills DEF Steady
<1>5. KeysDiffer' /\ \A p \in Runs : Standing(p)'
  BY <1>1, <1>3, <1>4 DEF Sound, KeysDiffer, Standing, Steady
<1>6. \A k \in DOMAIN book : k[1][1] # until'[1]
  BY <1>1 DEF Sound, BookOnGrid
<1>7. BookOnGrid' /\ RaisesFit'
  <2>1. Start(until')[1] = until'[1]
    BY DEF Start
  <2>2. \A k \in DOMAIN book : k[1][1] \in 1 .. episode'
    BY <1>1, NumbersAre DEF Sound, BookOnGrid
  <2>3. BookOnGrid'
    BY <1>1, <1>6, <2>2 DEF BookOnGrid
  <2>4. \A j \in DOMAIN Cost : <<Start(until'), j>> \notin DOMAIN book
    BY <1>6, <2>1
  <2> QED
    BY <1>1, <2>3, <2>4 DEF RaisesFit
<1>8. ASSUME NEW p \in Runs, Pending(p)' PROVE until' # Claimed(p)'
  <2>1. Pending(p) /\ Claimed(p)' = Claimed(p)
    BY <1>3, <1>4, <1>8 DEF Steady
  <2> QED
    BY <1>1, <2>1, ClaimsAre
<1>9. \A p, r \in Runs : OnTop(p)' /\ Stack(p, r)' /\ Stale(p, r)'
  BY <1>3, <1>8, LevelsAre DEF OnTop, Stack, Stale
<1>10. \A p \in Runs : RaisesBefore(p)'
  <2>1. RaisesBefore("engine")'
    BY <1>3 DEF RaisesBefore
  <2>2. ASSUME NEW p \in Runs, p # "engine" PROVE RaisesBefore(p)'
    <3>1. Late(run[p].next) => Late(run[p].next)'
      BY <1>3, <1>4, <2>2, NumbersAre, LateKept DEF Late, SameBill
    <3>2. At(p, "claim")' => run'[p].next # until'
      BY <1>1, <1>4, <2>2 DEF Steady, SameBill, Fits, RunFits, Active, At
    <3> QED
      BY <1>1, <1>4, <2>2, <3>1, <3>2 DEF Sound, RaisesBefore, Steady, SameBill
  <2> QED
    BY <2>1, <2>2
<1> QED
  BY <1>5, <1>7, <1>9, <1>10 DEF Sound

-----------------------------------------------------------------------------
(* What was claimed is charged.                                            *)

\* A charge is for a claim that stands and that no run is at, unless its run was told
\* of an error.
ChargesStand ==
    \A k \in DOMAIN charged :
       \/ k \in unsure
       \/ /\ k \in DOMAIN book /\ charged[k] = book[k].amount
          /\ \A p \in Runs : Pending(p) => Key(p) # k

WritesAreNew == \A p \in Runs : At(p, "write") => Key(p) \notin DOMAIN rows

Paid == ChargesStand /\ WritesAreNew /\ RowOnce /\ ClaimIsCharged

Answered(k) ==
    \/ k \in DOMAIN charged /\ (charged[k] = book[k].amount \/ k \in unsure)
    \/ k \in DOMAIN rows
    \/ \E p \in Runs : Pending(p) /\ Key(p) = k
    \/ k \in lost

\* ClaimIsCharged, claim by claim.
LEMMA ClaimsAnswered ==
    ClaimIsCharged <=> \A k \in DOMAIN book : book[k].amount > 0 => Answered(k)
  BY DEF ClaimIsCharged, Answered, Pending

\* Nothing that answers a claim goes away.
LEMMA AnswersGrow ==
    ASSUME NEW k \in DOMAIN book, Answered(k), k \in DOMAIN book', book'[k] = book[k],
           DOMAIN charged \subseteq DOMAIN charged',
           \A j \in DOMAIN charged : charged'[j] = charged[j],
           DOMAIN rows \subseteq DOMAIN rows', lost \subseteq lost', unsure \subseteq unsure',
           \A p \in Runs : Pending(p) /\ Key(p) = k =>
             (Pending(p)' /\ Key(p)' = Key(p)) \/ Answered(k)'
    PROVE  Answered(k)'
<1>1. CASE k \in DOMAIN charged /\ (charged[k] = book[k].amount \/ k \in unsure)
  BY <1>1 DEF Answered
<1>2. CASE k \in DOMAIN rows \/ k \in lost
  BY <1>2 DEF Answered
<1>3. CASE \E p \in Runs : Pending(p) /\ Key(p) = k
  BY <1>3 DEF Answered
<1> QED
  BY <1>1, <1>2, <1>3 DEF Answered

\* Steps at which no run leaves its claim or takes one.
LEMMA StayKeepsPaid ==
    ASSUME Paid, UNCHANGED <<charged, rows, book, lost, unsure>>,
           \A r \in Runs : /\ Pending(r)' <=> Pending(r)
                           /\ Pending(r) => SameBill(r)
                           /\ At(r, "write")' => At(r, "write")
    PROVE  Paid'
<1>1. \A r \in Runs : Pending(r) => Key(r)' = Key(r)
  BY SameBills
<1>2. ChargesStand'
  BY <1>1 DEF Paid, ChargesStand
<1>3. WritesAreNew'
  BY <1>1 DEF Paid, WritesAreNew, Pending, At, Billing
<1>4. RowOnce'
  BY DEF Paid, RowOnce
<1>5. \A k \in DOMAIN book : Answered(k) => Answered(k)'
  BY <1>1, AnswersGrow
<1>6. \A k \in DOMAIN book' : book'[k].amount > 0 => Answered(k)'
  BY <1>5, ClaimsAnswered DEF Paid
<1>7. ClaimIsCharged'
  BY <1>6 DEF ClaimIsCharged, Answered, Pending
<1> QED
  BY <1>2, <1>3, <1>4, <1>7 DEF Paid

\* A step of one run leaves the claim of the other pending.
LEMMA OthersPending ==
    ASSUME NEW p \in Runs, OthersStay(p)
    PROVE  \A q \in Runs : q # p => /\ Pending(q)' <=> Pending(q)
                                    /\ SameBill(q) /\ Key(q)' = Key(q)
                                    /\ At(q, "write")' <=> At(q, "write")
<1>1. \A q \in Runs : q # p => SameBill(q)
  BY DEF OthersStay, SameBill
<1> QED
  BY <1>1, SameBills DEF OthersStay, Pending, At

\* A run that is at no claim before and after a step.
LEMMA FreeStepKeepsPaid ==
    ASSUME Paid, UNCHANGED <<charged, rows, book, lost, unsure>>, NEW p \in Runs,
           OthersStay(p), ~Pending(p), ~Pending(p)'
    PROVE  Paid'
<1>1. ~At(p, "write")'
  BY DEF Pending, At, Billing
<1> QED
  BY <1>1, OthersPending, StayKeepsPaid

\* Steps that charge nothing and write no row.
LEMMA FreeSteps ==
    ASSUME Fits, Paid,
           \/ Look \/ BeginCron \/ Tick \/ \E l \in Levels : Scale(l)
           \/ \E p \in Runs : ReadBlock(p) \/ ReadRaise(p) \/ ClaimFails(p)
    PROVE  Paid'
<1>1. /\ now \in 0 .. MaxTime /\ run \in [Runs -> RunType] /\ until \in Times
      /\ carry \in Carries /\ paid \in Levels /\ level \in Levels
      /\ "engine" \in Runs /\ "cron" \in Runs /\ run["engine"].next \in Times
  BY RunsAre, LevelsAre DEF Fits, TypeOK
<1>2. CASE Look
  <2>1. OthersStay("engine") /\ run'["engine"].pc = "looked" /\ run["engine"].pc = "idle"
    BY <1>1, <1>2 DEF Look, OthersStay, RunType, At
  <2> QED
    BY <1>1, <1>2, <2>1, FreeStepKeepsPaid DEF Look, money, ghosts, Pending, Billing
<1>3. CASE BeginCron
  <2>1. OthersStay("cron") /\ run'["cron"].pc = "next" /\ run["cron"].pc = "idle"
    BY <1>1, <1>3, Beginning DEF BeginCron, At
  <2> QED
    BY <1>1, <1>3, <2>1, FreeStepKeepsPaid DEF BeginCron, money, ghosts, Pending, Billing
<1>4. CASE Tick
  BY <1>4, StayKeepsPaid DEF Tick, money, ghosts, Pending, At, SameBill
<1>5. ASSUME NEW l \in Levels, Scale(l) PROVE Paid'
  <2>1. until' \in Times
    BY <1>5, ScaleKeepsFits DEF Fits, TypeOK
  <2>2. OthersStay("engine") /\ run'["engine"].pc \in {"idle", "next"}
    BY <1>1, <1>5, <2>1, Stopping, Beginning DEF Scale
  <2> QED
    BY <1>1, <1>5, <2>2, FreeStepKeepsPaid DEF Scale, At, money, ghosts, Pending, Billing
<1>6. ASSUME NEW p \in Runs, ReadBlock(p) \/ ReadRaise(p) PROVE Paid'
  <2>1. \/ \E kind \in {"block", "topup"} : See(p, kind)
        \/ Goto(p, "compare") \/ Stop(p)
    BY <1>6 DEF ReadBlock, ReadRaise
  <2>2. OthersStay(p) /\ run'[p].pc \in {"claim", "compare", "idle"}
    BY <1>1, <2>1, Seeing, Going, Stopping DEF Spots
  <2> QED
    BY <1>6, <2>2, FreeStepKeepsPaid
       DEF ReadBlock, ReadRaise, At, money, ghosts, Pending, Billing
<1>7. ASSUME NEW p \in Runs, ClaimFails(p) PROVE Paid'
  <2>1. Goto(p, "compare") \/ Stop(p)
    BY <1>7 DEF ClaimFails
  <2>2. OthersStay(p) /\ run'[p].pc \in {"compare", "idle"}
    BY <1>1, <2>1, Going, Stopping DEF Spots
  <2> QED
    BY <1>7, <2>2, FreeStepKeepsPaid DEF ClaimFails, At, money, ghosts, Pending, Billing
<1> QED
  BY <1>2, <1>3, <1>4, <1>5, <1>6, <1>7

\* A charge, after which the run leaves its claim or was told of an error.
LEMMA TakeKeepsPaid ==
    ASSUME Fits, Paid, KeysDiffer, NEW p \in Runs, Standing(p), Pending(p), OthersStay(p),
           Take(p), UNCHANGED <<rows, book, lost>>,
           ~At(p, "write")', Pending(p)' => SameBill(p),
           \/ unsure' = unsure /\ ~Pending(p)'
           \/ unsure' = unsure \cup {Key(p)}
    PROVE  Paid'
<1>1. /\ DOMAIN charged' = DOMAIN charged \cup {Key(p)}
      /\ \A k \in DOMAIN charged : charged'[k] = charged[k]
      /\ Key(p) \notin DOMAIN charged => charged'[Key(p)] = Amount(p)
      /\ Key(p) \in DOMAIN book /\ book[Key(p)].amount = Amount(p)
  <2>1. Amount(p) >= 0
    BY ClaimsAre DEF Standing
  <2> QED
    BY SMTT(30), <2>1, TakeIs DEF Standing
<1>2. \A q \in Runs : q # p => /\ Pending(q)' <=> Pending(q)
                               /\ SameBill(q) /\ Key(q)' = Key(q)
                               /\ At(q, "write")' <=> At(q, "write")
  BY OthersPending
<1>3. Pending(p)' => Key(p)' = Key(p)
  BY SameBills
<1>4. ChargesStand'
  <2> SUFFICES ASSUME NEW k \in DOMAIN charged', k \notin unsure'
               PROVE  /\ k \in DOMAIN book /\ charged'[k] = book[k].amount
                      /\ \A q \in Runs : Pending(q)' => Key(q)' # k
    BY DEF ChargesStand
  <2>1. CASE k \in DOMAIN charged
    <3>1. /\ k \in DOMAIN book /\ charged[k] = book[k].amount
          /\ \A q \in Runs : Pending(q) => Key(q) # k
      BY <2>1 DEF Paid, ChargesStand
    <3> QED
      BY <1>1, <1>2, <1>3, <2>1, <3>1
  <2>2. CASE k = Key(p) /\ k \notin DOMAIN charged
    <3>1. ~Pending(p)'
      BY <2>2
    <3> QED
      BY <1>1, <1>2, <2>2, <3>1 DEF KeysDiffer
  <2> QED
    BY <1>1, <2>1, <2>2
<1>5. WritesAreNew'
  BY <1>2 DEF Paid, WritesAreNew
<1>6. RowOnce'
  BY DEF Paid, RowOnce
<1>7. Answered(Key(p)) => Key(p) \in DOMAIN charged' /\ (charged'[Key(p)] = book[Key(p)].amount
                                                         \/ Key(p) \in unsure')
  BY <1>1 DEF Paid, ChargesStand
<1>8. \A k \in DOMAIN book' : book'[k].amount > 0 => Answered(k)'
  <2> SUFFICES ASSUME NEW k \in DOMAIN book, book[k].amount > 0 PROVE Answered(k)'
    OBVIOUS
  <2>1. Answered(k)
    BY ClaimsAnswered DEF Paid
  <2>2. CASE k = Key(p)
    BY <1>7, <2>1, <2>2 DEF Answered
  <2>3. CASE k # Key(p)
    BY <1>1, <1>2, <2>1, <2>3, AnswersGrow
  <2> QED
    BY <2>2, <2>3
<1>9. ClaimIsCharged'
  BY <1>8 DEF ClaimIsCharged, Answered, Pending
<1> QED
  BY <1>4, <1>5, <1>6, <1>9 DEF Paid

\* The charge answers the claim it was made for, and no other.
LEMMA ChargeKeepsPaid ==
    ASSUME Fits, Paid, Sound, NEW p \in Runs, Charge(p) \/ ChargeRefused(p) \/ ChargeFails(p)
    PROVE  Paid'
<1>1. /\ Pending(p) /\ UNCHANGED clock /\ Moves(p) /\ Standing(p) /\ KeysDiffer
      /\ run \in [Runs -> RunType]
  BY RunsAre
     DEF Charge, ChargeRefused, ChargeFails, Pending, At, Billing, Moves, Sound, Fits
<1>2. OthersStay(p) /\ (Pending(p)' => SameBill(p))
  BY <1>1, MovesAre DEF Out
<1>3. CASE Charge(p)
  <2>1. ~Pending(p)' /\ ~At(p, "write")'
    BY <1>1, <1>3, MovesAre DEF Charge, Out, Pending, At, Billing
  <2> QED
    BY <1>1, <1>2, <1>3, <2>1, TakeKeepsPaid DEF Charge, ghosts
<1>4. ASSUME ChargeRefused(p) \/ ChargeFails(p)
      PROVE  Pending(p)' /\ SameBill(p) /\ ~At(p, "write")'
  <2>1. \E place \in {"short", "failed"} : Goto(p, place)
    BY <1>4 DEF ChargeRefused, ChargeFails
  <2>2. SameBill(p) /\ run'[p].pc \in {"short", "failed"}
    BY <1>1, <2>1, Going DEF Spots, Billing
  <2> QED
    BY <2>2 DEF Pending, At, Billing
<1>5. CASE ChargeFails(p) /\ Take(p) /\ unsure' = unsure \cup {Key(p)}
  BY <1>1, <1>2, <1>4, <1>5, TakeKeepsPaid DEF ChargeFails
<1>6. CASE /\ ChargeRefused(p) \/ ChargeFails(p)
           /\ UNCHANGED <<charged, rows, book, lost, unsure>>
  <2>1. \A r \in Runs : /\ Pending(r)' <=> Pending(r)
                        /\ Pending(r) => SameBill(r)
                        /\ At(r, "write")' => At(r, "write")
    BY <1>1, <1>2, <1>4, <1>6, OthersPending
  <2> QED
    BY <1>6, <2>1, StayKeepsPaid
<1> QED
  BY <1>3, <1>5, <1>6 DEF ChargeRefused, ChargeFails, money, ghosts

\* A row is written once, for a claim that stands.
LEMMA StatementKeepsPaid ==
    ASSUME Fits, Paid, Sound, NEW p \in Runs, LookUp(p) \/ Write(p)
    PROVE  Paid'
<1>1. /\ Pending(p) /\ UNCHANGED clock /\ Moves(p) /\ KeysDiffer
      /\ run \in [Runs -> RunType]
  BY RunsAre DEF LookUp, Write, Pending, At, Billing, Moves, Sound, Fits
<1>2. OthersStay(p) /\ UNCHANGED <<charged, book, lost, unsure>>
  BY <1>1, MovesAre DEF LookUp, Write, money, ghosts
<1>3. \A q \in Runs : q # p => /\ Pending(q)' <=> Pending(q)
                               /\ SameBill(q) /\ Key(q)' = Key(q)
                               /\ At(q, "write")' <=> At(q, "write")
  BY <1>2, OthersPending
<1>4. CASE LookUp(p) /\ Key(p) \notin DOMAIN rows
  <2>1. Goto(p, "write")
    BY <1>4 DEF LookUp
  <2>2. SameBill(p) /\ run'[p].pc = "write" /\ Key(p)' = Key(p)
    BY <1>1, <2>1, Going, SameBills DEF Spots, Billing
  <2>3. rows' = rows /\ Pending(p)'
    BY <1>4, <2>2 DEF LookUp, money, Pending, Billing
  <2>4. ChargesStand' /\ RowOnce'
    BY <1>1, <1>2, <1>3, <2>2, <2>3 DEF Paid, ChargesStand, RowOnce
  <2>5. WritesAreNew'
    BY <1>3, <1>4, <2>2, <2>3 DEF Paid, WritesAreNew
  <2>6. \A k \in DOMAIN book : Answered(k) => Answered(k)'
    BY <1>2, <1>3, <2>2, <2>3, AnswersGrow
  <2>7. \A k \in DOMAIN book' : book'[k].amount > 0 => Answered(k)'
    BY <1>2, <2>6, ClaimsAnswered DEF Paid
  <2> QED
    BY <2>4, <2>5, <2>7 DEF Paid, ClaimIsCharged, Answered, Pending
<1>5. CASE Write(p) \/ (LookUp(p) /\ Key(p) \in DOMAIN rows)
  <2>1. Proceed(p) /\ ~Pending(p)' /\ ~At(p, "write")'
    BY <1>1, <1>5, MovesAre DEF LookUp, Write, Out, Pending, At, Billing
  <2>2. /\ DOMAIN rows' = DOMAIN rows \cup {Key(p)}
        /\ \A k \in DOMAIN rows' : rows'[k] = 1
    <3>1. CASE LookUp(p) /\ Key(p) \in DOMAIN rows
      BY <3>1 DEF LookUp, money, Paid, RowOnce
    <3>2. CASE Write(p)
      BY <3>2 DEF Write, Put, Paid, RowOnce, WritesAreNew
    <3> QED
      BY <1>5, <3>1, <3>2
  <2>3. ChargesStand' /\ RowOnce'
    BY <1>1, <1>2, <1>3, <2>1, <2>2 DEF Paid, ChargesStand, RowOnce
  <2>4. WritesAreNew'
    <3> SUFFICES ASSUME NEW q \in Runs, At(q, "write")' PROVE Key(q)' \notin DOMAIN rows'
      BY DEF WritesAreNew
    <3>1. q # p /\ At(q, "write") /\ Pending(q)
      BY <1>3, <2>1 DEF Pending, At, Billing
    <3> QED
      BY <1>1, <1>3, <2>2, <3>1 DEF Paid, WritesAreNew, KeysDiffer
  <2>5. ASSUME NEW k \in DOMAIN book, Answered(k) PROVE Answered(k)'
    <3>1. CASE k = Key(p)
      BY <2>2, <3>1 DEF Answered
    <3>2. CASE k # Key(p)
      BY <1>2, <1>3, <2>2, <2>5, <3>2, AnswersGrow
    <3> QED
      BY <3>1, <3>2
  <2>6. \A k \in DOMAIN book' : book'[k].amount > 0 => Answered(k)'
    BY <1>2, <2>5, ClaimsAnswered DEF Paid
  <2> QED
    BY <2>3, <2>4, <2>6 DEF Paid, ClaimIsCharged, Answered, Pending
<1> QED
  BY <1>4, <1>5

\* A run leaves its claim, which is given back, or lost.
LEMMA LeaveKeepsPaid ==
    ASSUME Paid, NEW p \in Runs, OthersStay(p), ~Pending(p)', ~At(p, "write")',
           UNCHANGED <<charged, rows, unsure>>, lost \subseteq lost',
           \/ Pending(p) /\ Key(p) \in lost' /\ book' = book
           \/ ~Pending(p) /\ book' = book
           \/ /\ Pending(p) /\ DOMAIN book' = DOMAIN book \ {Key(p)}
              /\ \A k \in DOMAIN book' : book'[k] = book[k]
    PROVE  Paid'
<1>1. \A q \in Runs : q # p => /\ Pending(q)' <=> Pending(q)
                               /\ SameBill(q) /\ Key(q)' = Key(q)
                               /\ At(q, "write")' <=> At(q, "write")
  BY OthersPending
<1>2. ChargesStand'
  <2> SUFFICES ASSUME NEW k \in DOMAIN charged, k \notin unsure
               PROVE  /\ k \in DOMAIN book' /\ charged[k] = book'[k].amount
                      /\ \A q \in Runs : Pending(q)' => Key(q)' # k
    BY DEF ChargesStand
  <2>1. /\ k \in DOMAIN book /\ charged[k] = book[k].amount
        /\ \A q \in Runs : Pending(q) => Key(q) # k
    BY DEF Paid, ChargesStand
  <2> QED
    BY <1>1, <2>1
<1>3. WritesAreNew' /\ RowOnce'
  BY <1>1 DEF Paid, WritesAreNew, RowOnce
<1>4. ASSUME NEW k \in DOMAIN book', book'[k].amount > 0 PROVE Answered(k)'
  <2>1. k \in DOMAIN book /\ book'[k] = book[k]
    BY <1>4
  <2>2. Answered(k)
    BY <1>4, <2>1, ClaimsAnswered DEF Paid
  <2>3. CASE Pending(p) /\ k = Key(p)
    <3>1. k \in lost'
      BY <1>4, <2>3
    <3> QED
      BY <3>1 DEF Answered
  <2>4. CASE ~(Pending(p) /\ k = Key(p))
    BY <1>1, <1>4, <2>1, <2>2, <2>4, AnswersGrow
  <2> QED
    BY <2>3, <2>4
<1> QED
  BY <1>2, <1>3, <1>4 DEF Paid, ClaimIsCharged, Answered, Pending

\* A claim that is given back was not charged.
LEMMA ReleaseKeepsPaid ==
    ASSUME Fits, Paid, Sound, NEW p \in Runs, Release(p)
    PROVE  Paid'
<1>1. Pending(p) /\ UNCHANGED clock /\ Moves(p)
  BY DEF Release, Pending, Billing, Moves
<1>2. OthersStay(p) /\ Out(p)
  BY <1>1, MovesAre DEF Release
<1>3. ~Pending(p)' /\ ~At(p, "write")'
  BY <1>2 DEF Out, Pending, At, Billing
<1>4. UNCHANGED <<charged, rows, unsure>>
  BY DEF Release, money
<1>5. CASE ReleaseMatches(p)
  <2>1. /\ DOMAIN book' = DOMAIN book \ {Key(p)} /\ \A k \in DOMAIN book' : book'[k] = book[k]
        /\ lost' = lost
    BY <1>5, ReleaseIs DEF Release
  <2> QED
    BY <1>1, <1>2, <1>3, <1>4, <2>1, LeaveKeepsPaid
<1>6. CASE ~ReleaseMatches(p)
  <2>1. lost' = lost \cup {Key(p)} /\ book' = book
    BY <1>6 DEF Release
  <2> QED
    BY <1>1, <1>2, <1>3, <1>4, <2>1, LeaveKeepsPaid
<1> QED
  BY <1>5, <1>6

\* A run that dies leaves its claim for what it is.
LEMMA RunDiesKeepsPaid ==
    ASSUME Fits, Paid, NEW p \in Runs, Die(p)
    PROVE  Paid'
<1>1. OthersStay(p) /\ run'[p].pc = "idle"
  BY RunsAre, Stopping DEF Fits, Die
<1>2. ~Pending(p)' /\ ~At(p, "write")'
  BY <1>1 DEF Pending, At, Billing
<1>3. /\ UNCHANGED <<charged, rows, unsure, book>>
      /\ lost' = IF Pending(p) THEN lost \cup {Key(p)} ELSE lost
  BY DEF Die, money, Pending
<1> QED
  BY <1>1, <1>2, <1>3, LeaveKeepsPaid

\* A new claim has no row yet, and a run that goes on to charge it.
LEMMA ClaimKeepsPaid ==
    ASSUME Fits, Paid, Sound, NEW p \in Runs, Claim(p)
    PROVE  Paid'
<1>1. /\ ~Pending(p) /\ OthersStay(p) /\ (Pending(p)' => SameBill(p))
      /\ DOMAIN book' = DOMAIN book \cup {Key(p)} /\ Key(p) \notin DOMAIN book
      /\ \A k \in DOMAIN book : book'[k] = book[k]
      /\ book'[Key(p)] = [price |-> Price(p), amount |-> Amount(p)]
      /\ UNCHANGED <<charged, rows, lost, unsure>> /\ UNCHANGED clock
      /\ At(p, "claim") /\ run \in [Runs -> RunType]
  BY ClaimIs, RunsAre DEF Claim, money, Fits
<1>2. \A q \in Runs : q # p => /\ Pending(q)' <=> Pending(q)
                               /\ SameBill(q) /\ Key(q)' = Key(q)
                               /\ At(q, "write")' <=> At(q, "write")
  BY <1>1, OthersPending
<1>3. /\ Pending(p)' => Key(p)' = Key(p)
      /\ ~At(p, "write")' /\ (Amount(p) > 0 => Pending(p)')
  <2>1. CASE Amount(p) > 0
    <3>1. Goto(p, "charge")
      BY <2>1 DEF Claim
    <3>2. SameBill(p) /\ run'[p].pc = "charge"
      BY <1>1, <3>1, Going DEF Spots, Billing
    <3> QED
      BY <3>2, SameBills DEF At, Pending, Billing
  <2>2. CASE ~(Amount(p) > 0)
    <3>1. Proceed(p) /\ Moves(p)
      BY <2>2 DEF Claim, Moves
    <3>2. Out(p)
      BY <1>1, <3>1, MovesAre
    <3> QED
      BY <2>2, <3>2 DEF Out, At, Pending, Billing
  <2> QED
    BY <2>1, <2>2
<1>4. ChargesStand'
  <2> SUFFICES ASSUME NEW k \in DOMAIN charged, k \notin unsure
               PROVE  /\ k \in DOMAIN book' /\ charged[k] = book'[k].amount
                      /\ \A q \in Runs : Pending(q)' => Key(q)' # k
    BY <1>1 DEF ChargesStand
  <2>1. /\ k \in DOMAIN book /\ charged[k] = book[k].amount
        /\ \A q \in Runs : Pending(q) => Key(q) # k
    BY DEF Paid, ChargesStand
  <2> QED
    BY <1>1, <1>2, <1>3, <2>1
<1>5. WritesAreNew' /\ RowOnce'
  BY <1>1, <1>2, <1>3 DEF Paid, WritesAreNew, RowOnce
<1>6. ASSUME NEW k \in DOMAIN book', book'[k].amount > 0 PROVE Answered(k)'
  <2>1. CASE k = Key(p)
    <3>1. Pending(p)' /\ Key(p)' = k
      BY <1>1, <1>3, <1>6, <2>1
    <3> QED
      BY <3>1 DEF Answered
  <2>2. CASE k \in DOMAIN book
    <3>1. Answered(k)
      BY <1>1, <1>6, <2>2, ClaimsAnswered DEF Paid
    <3> QED
      BY <1>1, <1>2, <1>6, <2>2, <3>1, AnswersGrow
  <2> QED
    BY <1>1, <1>6, <2>1, <2>2
<1> QED
  BY <1>4, <1>5, <1>6 DEF Paid, ClaimIsCharged, Answered, Pending

-----------------------------------------------------------------------------
(* What rounding leaves is carried on.                                     *)

\* What the claims of a book leave of their prices.
LeftOf(b) == [k \in DOMAIN b |-> b[k].price - b[k].amount]
CarriedBy(b) == MapThenSumSet(LAMBDA k : b[k].price - b[k].amount, DOMAIN b)

BookFits(b) ==
    IsFiniteSet(DOMAIN b) /\ \A k \in DOMAIN b : b[k].price \in Int /\ b[k].amount \in Int

\* What rounding left over the book is a sum over its keys.
LEMMA CarriedIsSum ==
    ASSUME NEW b, BookFits(b)
    PROVE  CarriedBy(b) = SumOver(LeftOf(b), DOMAIN b)
<1> DEFINE S == DOMAIN b
           Iter == CHOOSE iter : iter =
               [s \in SUBSET S |->
                  IF s = {} THEN 0
                  ELSE LET x == (CHOOSE x \in s : TRUE)
                       IN  (b[x].price - b[x].amount) + iter[s \ {x}]]
<1>1. IsFiniteSet(S) /\ \A k \in S : LeftOf(b)[k] \in Int
  BY DEF LeftOf, BookFits
<1>2. PICK g : Summation(g, LeftOf(b), S)
  <2> HIDE DEF S
  <2> QED
    BY <1>1, SummationExists
<1>3. \A s \in SUBSET S : s # {} => AnyOf(s) \in S
  BY AnyOfIsOne
<1>4. g = [s \in SUBSET S |-> IF s = {} THEN 0
                              ELSE LET x == (CHOOSE x \in s : TRUE)
                                   IN  (b[x].price - b[x].amount) + g[s \ {x}]]
  BY <1>2, <1>3 DEF Summation, LeftOf, AnyOf
<1>5. Iter = [s \in SUBSET S |-> IF s = {} THEN 0
                                 ELSE LET x == (CHOOSE x \in s : TRUE)
                                      IN  (b[x].price - b[x].amount) + Iter[s \ {x}]]
  BY <1>4
<1>6. CarriedBy(b) = Iter[S]
  BY DEF CarriedBy, MapThenSumSet, MapThenFoldSet
<1> HIDE DEF Iter
<1>7. Summation(Iter, LeftOf(b), S)
  BY <1>3, <1>5 DEF Summation, LeftOf, AnyOf
<1>8. SumOver(LeftOf(b), S) = Iter[S]
  <2> HIDE DEF S
  <2> QED
    BY <1>1, <1>7, SumIs
<1> QED
  BY <1>6, <1>8

\* A claim more adds what it leaves.
LEMMA CarriedAdds ==
    ASSUME NEW b, BookFits(b), NEW c, NEW k, k \notin DOMAIN b, DOMAIN c = DOMAIN b \cup {k},
           \A j \in DOMAIN b : c[j] = b[j], c[k].price \in Int, c[k].amount \in Int
    PROVE  /\ BookFits(c) /\ CarriedBy(b) \in Int
           /\ CarriedBy(c) = CarriedBy(b) + (c[k].price - c[k].amount)
<1> DEFINE S == DOMAIN b
<1>1. BookFits(c)
  <2>1. IsFiniteSet(DOMAIN c)
    BY FS_AddElement DEF BookFits
  <2> QED
    BY <2>1 DEF BookFits
<1>2. CarriedBy(c) = SumOver(LeftOf(c), S \cup {k}) /\ CarriedBy(b) = SumOver(LeftOf(b), S)
  BY <1>1, CarriedIsSum
<1>3. /\ IsFiniteSet(S) /\ k \notin S
      /\ \A x \in S \cup {k} : LeftOf(c)[x] \in Int
      /\ \A x \in S : LeftOf(b)[x] \in Int /\ LeftOf(b)[x] = LeftOf(c)[x]
      /\ LeftOf(c)[k] = c[k].price - c[k].amount
  BY DEF LeftOf, BookFits
<1> HIDE DEF S
<1>4. /\ SumOver(LeftOf(c), S) \in Int
      /\ SumOver(LeftOf(c), S \cup {k}) = SumOver(LeftOf(c), S) + LeftOf(c)[k]
  BY <1>3, SumAdds
<1>5. SumOver(LeftOf(b), S) = SumOver(LeftOf(c), S)
  BY <1>3, SumsAgree
<1> QED
  BY <1>1, <1>2, <1>3, <1>4, <1>5

Kept == BookFits(book) /\ CarryIsKept

\* CarryIsKept is about that sum.
LEMMA CarriedIsKept == CarryIsKept <=> CarriedBy(book) = carry
  BY DEF CarryIsKept, CarriedBy

\* The same after a step.
LEMMA CarriedIsKeptAfter ==
    ASSUME BookFits(book'), CarriedBy(book') = carry'
    PROVE  Kept'
<1>1. CarryIsKept'
  BY DEF CarryIsKept, CarriedBy, MapThenSumSet, MapThenFoldSet
<1> QED
  BY <1>1 DEF Kept, BookFits

\* A claim adds its rest to the sum and to the row.
LEMMA ClaimKeepsCarry ==
    ASSUME Fits, Sound, Kept, NEW p \in Runs, Claim(p)
    PROVE  Kept'
<1>1. /\ carry' = Rest(p) /\ run[p].seen.carry = carry /\ At(p, "claim")
      /\ DOMAIN book' = DOMAIN book \cup {Key(p)} /\ Key(p) \notin DOMAIN book
      /\ \A k \in DOMAIN book : book'[k] = book[k]
      /\ book'[Key(p)] = [price |-> Price(p), amount |-> Amount(p)]
  BY ClaimIs
<1>2. Price(p) \in Int /\ Amount(p) \in Int /\ Rest(p) = Price(p) + carry - Amount(p)
  BY <1>1, ClaimsAre
<1>3. BookFits(book) /\ CarriedBy(book) = carry /\ carry \in Int
  BY CarriedIsKept, NumbersAre DEF Kept
<1>4. BookFits(book') /\ CarriedBy(book') = CarriedBy(book) + (Price(p) - Amount(p))
  BY <1>1, <1>2, <1>3, CarriedAdds
<1>5. CarriedBy(book') = carry'
  BY <1>1, <1>2, <1>3, <1>4
<1> QED
  BY <1>4, <1>5, CarriedIsKeptAfter

\* A claim that is given back takes its rest out of both.
LEMMA ReleaseKeepsCarry ==
    ASSUME Fits, Sound, Kept, NEW p \in Runs, Release(p), ReleaseMatches(p)
    PROVE  Kept'
<1>1. /\ Pending(p) /\ carry = Rest(p) /\ carry' = run[p].seen.carry
      /\ DOMAIN book' = DOMAIN book \ {Key(p)}
      /\ \A k \in DOMAIN book' : book'[k] = book[k]
  BY ReleaseIs
<1>2. /\ Price(p) \in Int /\ Amount(p) \in Int /\ run[p].seen.carry \in Int
      /\ carry = Price(p) + run[p].seen.carry - Amount(p)
  BY <1>1, ClaimsAre, NumbersAre
<1>3. /\ Key(p) \in DOMAIN book
      /\ book[Key(p)].price = Price(p) /\ book[Key(p)].amount = Amount(p)
  <2>1. Standing(p)
    BY DEF Sound
  <2> QED
    BY <1>1, <2>1 DEF Standing
<1>4. BookFits(book) /\ CarriedBy(book) = carry
  BY CarriedIsKept DEF Kept
<1>5. BookFits(book')
  <2>1. IsFiniteSet(DOMAIN book')
    BY <1>1, <1>4, FS_Subset DEF BookFits
  <2> QED
    BY <1>1, <1>4, <2>1 DEF BookFits
<1>6. DOMAIN book = DOMAIN book' \cup {Key(p)} /\ Key(p) \notin DOMAIN book'
  BY <1>1, <1>3
<1>7. /\ CarriedBy(book') \in Int
      /\ CarriedBy(book) = CarriedBy(book') + (Price(p) - Amount(p))
  <2>1. /\ book[Key(p)].price \in Int /\ book[Key(p)].amount \in Int
        /\ \A k \in DOMAIN book' : book[k] = book'[k]
    BY <1>1, <1>2, <1>3
  <2>2. /\ CarriedBy(book') \in Int
        /\ CarriedBy(book) = CarriedBy(book') + (book[Key(p)].price - book[Key(p)].amount)
    BY <1>5, <1>6, <2>1, CarriedAdds
  <2> QED
    BY <1>3, <2>2
<1>8. CarriedBy(book') = carry'
  BY <1>1, <1>2, <1>4, <1>7
<1> QED
  BY <1>5, <1>8, CarriedIsKeptAfter

\* No other step changes the sum or the row.
LEMMA RestKeepsCarry ==
    ASSUME Kept, UNCHANGED <<carry, book>>
    PROVE  Kept'
  BY DEF Kept, CarryIsKept, BookFits, MapThenSumSet, MapThenFoldSet

-----------------------------------------------------------------------------
(* The invariant.                                                          *)

Bills == Fits /\ Sound /\ Paid /\ Kept

\* The start: nothing is claimed and nothing is carried.
LEMMA InitBills == Init => Bills
<1> SUFFICES ASSUME Init PROVE Bills
  OBVIOUS
<1>1. Fits
  BY InitFits
<1>2. \A p \in Runs : ~Pending(p) /\ ~At(p, "claim") /\ ~At(p, "write")
  BY IdleIs DEF Init, Pending, At, Billing
<1>3. DOMAIN book = {} /\ DOMAIN charged = {} /\ DOMAIN rows = {} /\ carry = 0
  BY DEF Init
<1>4. Sound
  BY <1>2, <1>3 DEF Sound, KeysDiffer, BookOnGrid, RaisesFit, Standing, OnTop, RaisesBefore,
     Stack, Stale
<1>5. Paid
  BY <1>2, <1>3 DEF Paid, ChargesStand, WritesAreNew, RowOnce, ClaimIsCharged
<1>6. Kept
  <2>1. BookFits(book)
    BY <1>3, FS_EmptySet DEF BookFits
  <2>2. CarriedBy(book) = 0
    BY <1>3, <2>1, CarriedIsSum, SumOfNone
  <2> QED
    BY <1>3, <2>1, <2>2, CarriedIsKept DEF Kept
<1> QED
  BY <1>1, <1>4, <1>5, <1>6 DEF Bills

\* One step: types and ranges.
LEMMA StepKeepsFits == ASSUME Fits, Sound, Next PROVE Fits'
<1>1. \A p \in Runs : Standing(p)
  BY DEF Sound
<1>2. CASE Look \/ BeginCron \/ Tick \/ \E l \in Levels : Scale(l)
  BY <1>2, LookKeepsFits, BeginCronKeepsFits, TickKeepsFits, ScaleKeepsFits
<1>3. CASE \E p \in Runs : Bill(p) \/ ChargeFails(p) \/ Die(p)
  BY <1>1, <1>3, ReadKeepsFits, ClaimKeepsFits, ClaimFailsKeepsFits, ChargeKeepsFits,
     StatementKeepsFits, ReleaseKeepsFits, RunDiesKeepsFits DEF Bill
<1> QED
  BY <1>2, <1>3 DEF Next

\* One step: the book.
LEMMA StepKeepsSound == ASSUME Fits, Sound, Next PROVE Sound'
<1>1. CASE Look \/ BeginCron \/ Tick \/ \E p \in Runs : Die(p)
  BY <1>1, RestIsQuiet, QuietKeeps
<1>2. ASSUME NEW l \in Levels, Scale(l) PROVE Sound'
  BY <1>2, RestIsQuiet, QuietKeeps, EpisodeKeeps
<1>3. ASSUME NEW p \in Runs, ReadBlock(p) \/ ReadRaise(p) PROVE Sound'
  BY <1>3, ReadIsQuiet, QuietKeeps, LevelSeenKeeps
<1>4. ASSUME NEW p \in Runs, Claim(p) PROVE Sound'
  BY <1>4, ClaimKeeps
<1>5. ASSUME NEW p \in Runs, Release(p) PROVE Sound'
  BY <1>5, BillIsQuiet, QuietKeeps, ReleaseKeeps
<1>6. ASSUME NEW p \in Runs,
             ClaimFails(p) \/ Charge(p) \/ ChargeRefused(p) \/ ChargeFails(p)
               \/ LookUp(p) \/ Write(p)
      PROVE  Sound'
  BY <1>6, BillIsQuiet, QuietKeeps
<1> QED
  BY <1>1, <1>2, <1>3, <1>4, <1>5, <1>6 DEF Next, Bill

\* One step: charges and rows.
LEMMA StepKeepsPaid == ASSUME Fits, Sound, Paid, Next PROVE Paid'
<1>1. CASE \/ Look \/ BeginCron \/ Tick \/ \E l \in Levels : Scale(l)
           \/ \E p \in Runs : ReadBlock(p) \/ ReadRaise(p) \/ ClaimFails(p)
  BY <1>1, FreeSteps
<1>2. ASSUME NEW p \in Runs, Claim(p) \/ Release(p) \/ Die(p) PROVE Paid'
  BY <1>2, ClaimKeepsPaid, ReleaseKeepsPaid, RunDiesKeepsPaid
<1>3. ASSUME NEW p \in Runs,
             Charge(p) \/ ChargeRefused(p) \/ ChargeFails(p) \/ LookUp(p) \/ Write(p)
      PROVE  Paid'
  BY <1>3, ChargeKeepsPaid, StatementKeepsPaid
<1> QED
  BY <1>1, <1>2, <1>3 DEF Next, Bill

\* One step: what is carried.
LEMMA StepKeepsKept == ASSUME Fits, Sound, Kept, Next PROVE Kept'
<1>1. CASE \/ Look \/ BeginCron \/ Tick \/ \E l \in Levels : Scale(l)
           \/ \E p \in Runs : ReadBlock(p) \/ ReadRaise(p) \/ ClaimFails(p) \/ Charge(p)
                \/ ChargeRefused(p) \/ ChargeFails(p) \/ LookUp(p) \/ Write(p) \/ Die(p)
                \/ (Release(p) /\ ~ReleaseMatches(p))
  <2>1. UNCHANGED <<carry, book>>
    BY <1>1 DEF Look, BeginCron, Tick, Scale, ReadBlock, ReadRaise, ClaimFails, Charge,
       ChargeRefused, ChargeFails, LookUp, Write, Die, Release, row, ghosts
  <2> QED
    BY <2>1, RestKeepsCarry
<1>2. ASSUME NEW p \in Runs, Claim(p) PROVE Kept'
  BY <1>2, ClaimKeepsCarry
<1>3. ASSUME NEW p \in Runs, Release(p), ReleaseMatches(p) PROVE Kept'
  BY <1>3, ReleaseKeepsCarry
<1> QED
  BY <1>1, <1>2, <1>3 DEF Next, Bill

\* A stutter.
LEMMA NoStepKeepsBills == ASSUME Bills, UNCHANGED vars PROVE Bills'
<1>1. /\ UNCHANGED <<level, until, carry, paid, pool, balance, charged, outside, rows, now>>
      /\ UNCHANGED <<episode, run, book, lost, unsure, scales, errors>>
  BY DEF vars, row, money, clock, ghosts
<1>2. Fits'
  BY <1>1 DEF Bills, Fits, TypeOK, LevelFits, RunFits, Active, At, Pending, IsBlock
<1>3. Quiet
  BY <1>1, NumbersAre
     DEF Bills, Quiet, row, RaisersStay, Steady, SameBill, Pending, At, MayRaise, IsBlock
<1>4. Sound'
  BY <1>3, QuietKeeps DEF Bills
<1>5. Paid'
  BY <1>1, StayKeepsPaid DEF Bills, SameBill, Pending, At
<1>6. Kept'
  BY <1>1, RestKeepsCarry DEF Bills
<1> QED
  BY <1>2, <1>4, <1>5, <1>6 DEF Bills

\* The invariant is inductive.
LEMMA StepKeepsBills == Bills /\ [Next]_vars => Bills'
  BY StepKeepsFits, StepKeepsSound, StepKeepsPaid, StepKeepsKept, NoStepKeepsBills DEF Bills

\* The invariant holds throughout.
THEOREM BillingInvariant == Spec => []Bills
  BY InitBills, StepKeepsBills, PTL DEF Spec

\* The row, the money and the runs keep their types: no balance below zero, a carry
\* of half a grosz at most.
THEOREM BillingTypeCorrect == Spec => []TypeOK
<1>1. Bills => TypeOK
  BY DEF Bills, Fits
<1> QED
  BY <1>1, BillingInvariant, PTL

\* What rounding leaves of the prices of the claims that stand is what the row
\* carries, whatever the two runs claim, raise and give back.
THEOREM CarryIsAlwaysKept == Spec => []CarryIsKept
<1>1. Bills => CarryIsKept
  BY DEF Bills, Kept
<1> QED
  BY <1>1, BillingInvariant, PTL

\* A claim is charged, is in the statement, or its run is at it or left it behind.
THEOREM ClaimsAreCharged == Spec => []ClaimIsCharged
<1>1. Bills => ClaimIsCharged
  BY DEF Bills, Paid
<1> QED
  BY <1>1, BillingInvariant, PTL

\* The statement has a block once.
THEOREM RowsAreOnce == Spec => []RowOnce
<1>1. Bills => RowOnce
  BY DEF Bills, Paid
<1> QED
  BY <1>1, BillingInvariant, PTL
=============================================================================
