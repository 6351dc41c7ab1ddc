-------------------------- MODULE AutoscaleBilling --------------------------
(***************************************************************************)
(* Billing of the resources an account takes above its plan, in blocks of  *)
(* 15 minutes paid in advance: autoscaling/autoscaling-billing.service.ts, *)
(* kredyty-autoskalowania.ts and the episode of autoscaling-engine.service.*)
(*                                                                         *)
(* Two runs bill the same account, the engine after it changed the level   *)
(* and the cron.  A run claims a block by a conditional update of the      *)
(* account's row, charges it, and gives the claim back when that failed;   *)
(* a raise of the level inside a paid block is charged for the rest of it. *)
(* What rounding leaves is carried to the next charge.                     *)
(*                                                                         *)
(* Money is counted in units, Grosz of them to a grosz.  A time is an      *)
(* episode and a tick: episodes start at milliseconds of their own.        *)
(***************************************************************************)
EXTENDS Integers, FiniteSetsExt, Functions

CONSTANTS
    Cost,               \* the price of a block at each level above the plan
    Grosz, BlockLen,    \* units to a grosz, ticks to a block
    Balance, Pool,      \* what the customer starts with
    MaxTime, MaxScales, MaxErrors

ASSUME BillingConstants ==
    /\ {Grosz, BlockLen} \subseteq Nat \ {0}
    /\ {Balance, Pool, MaxTime, MaxScales, MaxErrors} \subseteq Nat
    /\ \A l \in DOMAIN Cost : l \in Nat \ {0} /\ Cost[l] \in Nat /\ Cost[l] % BlockLen = 0

Runs == {"engine", "cron"}
Levels == {0} \cup DOMAIN Cost

VARIABLES
    level, until, carry, paid,  \* Account.scaled*, scaledBilledUntil,
                                \* scaledCostCarryPln, scaledBlockPaid*
    pool, balance,      \* KredytAutoskalowania.pozostalo, User.walletBalance
    charged,            \* what was taken, by idempotency key
    outside, rows,      \* paymentSource is MANUAL; rows of the owner's statement
    now, episode,
    run,                \* each run: its place, whether it bills a block or a raise,
                        \* the time and the level it bills for, its nextBlockStart,
                        \* and what it read of the row
    book,               \* claims that stand: their exact price and the amount
    lost, unsure,       \* claims left without a charge; those charged by a run
                        \* that was told of an error
    scales, errors

row == <<until, carry, paid>>
money == <<pool, balance, charged, rows>>
clock == <<now, episode>>
ghosts == <<book, lost, unsure>>
vars == <<level, row, money, outside, clock, run, ghosts, scales, errors>>

\* f with v under the key k.
Put(f, k, v) == [x \in DOMAIN f \cup {k} |-> IF x = k THEN v ELSE f[x]]

None == <<0, 0>>        \* no time
End(block) == <<block[1], block[2] + BlockLen>>
Start(end) == <<end[1], end[2] - BlockLen>>

Unread == [until |-> None, carry |-> 0, paid |-> 0]
Idle == [pc |-> "idle", part |-> "block", at |-> 0, mine |-> 0, next |-> None, seen |-> Unread]

Init ==
    /\ level = 0 /\ until = None /\ carry = 0 /\ paid = 0
    /\ pool = Pool /\ balance = Balance /\ charged = <<>>
    /\ outside \in BOOLEAN /\ rows = <<>>
    /\ now = 0 /\ episode = 0
    /\ run = [p \in Runs |-> Idle]
    /\ book = <<>> /\ lost = {} /\ unsure = {}
    /\ scales = 0 /\ errors = 0

At(p, place) == run[p].pc = place
Goto(p, place) == run' = [run EXCEPT ![p].pc = place]
Stop(p) == run' = [run EXCEPT ![p] = Idle]

\* A run for a level, from the boundary it has read.
Begin(p, l, boundary) ==
    run' = [run EXCEPT ![p] =
               [Idle EXCEPT !.pc = "next", !.at = now, !.mine = l, !.next = boundary]]

\* roundToCurrency: to the nearest grosz, half up.
Rounded(x) == ((2 * x + Grosz) \div (2 * Grosz)) * Grosz

IsBlock(p) == run[p].part = "block"

\* What a run is about to charge: the block, or the rest of it at the higher price.
Price(p) ==
    LET r == run[p] IN
    IF IsBlock(p) THEN Cost[r.mine]
    ELSE ((Cost[r.mine] - Cost[r.seen.paid]) * (r.seen.until[2] - r.at)) \div BlockLen

Exact(p) == Price(p) + run[p].seen.carry
Amount(p) == Rounded(Exact(p))
Key(p) == IF IsBlock(p) THEN <<run[p].next, 0>> ELSE <<Start(run[p].seen.until), run[p].mine>>

-----------------------------------------------------------------------------
(* The level.                                                              *)

\* The engine reads the account, ...
Look ==
    /\ At("engine", "idle") /\ scales < MaxScales
    /\ run' = [run EXCEPT !["engine"].pc = "looked", !["engine"].next = until]
    /\ scales' = scales + 1
    /\ UNCHANGED <<level, row, money, outside, clock, ghosts, errors>>

\* ... and applies the change: an episode begins and ends with its first and last
\* delta.  It bills at once, from the boundary it had read.
Scale(l) ==
    /\ At("engine", "looked") /\ l # level
    /\ level' = l
    /\ episode' = IF level = 0 THEN episode + 1 ELSE episode
    /\ until' = IF level = 0 THEN <<episode', now>> ELSE IF l = 0 THEN None ELSE until
    /\ IF l = 0 THEN Stop("engine")
       ELSE Begin("engine", l, IF level = 0 THEN until' ELSE run["engine"].next)
    /\ UNCHANGED <<carry, paid, money, outside, now, ghosts, scales, errors>>

\* chargeDueBlocks, every 5 minutes.
BeginCron ==
    /\ At("cron", "idle") /\ level > 0
    /\ Begin("cron", level, until)
    /\ UNCHANGED <<level, row, money, outside, clock, ghosts, scales, errors>>

Tick ==
    /\ now < MaxTime
    /\ now' = now + 1
    /\ UNCHANGED <<level, row, money, outside, episode, run, ghosts, scales, errors>>

-----------------------------------------------------------------------------
(* billDueBlocks, doplataZaPodbicie: claim.                                *)

\* The state of the row, before a claim.
See(p, kind) ==
    run' = [run EXCEPT ![p].pc = "claim", ![p].part = kind,
                       ![p].seen = [until |-> until, carry |-> carry, paid |-> paid]]

\* A block that has begun; then the raise.
ReadBlock(p) ==
    /\ At(p, "next")
    /\ IF run[p].next[2] <= run[p].at THEN See(p, "block") ELSE Goto(p, "compare")
    /\ UNCHANGED <<level, row, money, outside, clock, ghosts, scales, errors>>

\* The run is inside the last block claimed.
Inside(p) == until # None /\ until[2] > run[p].at /\ until[2] - BlockLen <= run[p].at

\* Only inside a block that is paid, at a lower level than the run's.  An unknown
\* level counts as the run's.
ReadRaise(p) ==
    /\ At(p, "compare")
    /\ IF Inside(p) /\ 0 < paid /\ paid < run[p].mine THEN See(p, "topup") ELSE Stop(p)
    /\ paid' = IF Inside(p) /\ paid = 0 THEN run[p].mine ELSE paid
    /\ UNCHANGED <<level, until, carry, money, outside, clock, ghosts, scales, errors>>

\* Mutated forms: the carry is not compared, or with nothing carried; nothing is
\* compared.
ClaimMatches_NoCarry(p) ==
    IF IsBlock(p) THEN until = run[p].next
    ELSE until = run[p].seen.until /\ paid = run[p].seen.paid
ClaimMatches_Zero(p) == carry = 0 /\ ClaimMatches_NoCarry(p)
ClaimMatches_Any(p) == TRUE

\* The condition of the update.
ClaimMatches(p) ==
    /\ carry = run[p].seen.carry
    /\ IF IsBlock(p) THEN until = run[p].next
       ELSE until = run[p].seen.until /\ paid = run[p].seen.paid

\* The next block, or the end.
Proceed(p) ==
    IF IsBlock(p)
    THEN run' = [run EXCEPT ![p].pc = "next", ![p].next = End(@), ![p].seen = Unread]
    ELSE Stop(p)

Claim(p) ==
    /\ At(p, "claim") /\ ClaimMatches(p)
    /\ carry' = Exact(p) - Amount(p)
    /\ paid' = run[p].mine
    /\ until' = IF IsBlock(p) THEN End(run[p].next) ELSE until
    /\ book' = Put(book, Key(p), [price |-> Price(p), amount |-> Amount(p)])
    /\ IF Amount(p) > 0 THEN Goto(p, "charge") ELSE Proceed(p)
    /\ UNCHANGED <<level, money, outside, clock, lost, unsure, scales, errors>>

\* Another run was first.
ClaimFails(p) ==
    /\ At(p, "claim") /\ ~ClaimMatches(p)
    /\ IF IsBlock(p) THEN Goto(p, "compare") ELSE Stop(p)
    /\ UNCHANGED <<level, row, money, outside, clock, ghosts, scales, errors>>

-----------------------------------------------------------------------------
(* Charge.                                                                 *)

FromPool(a) == Min({a, pool})

\* obciazAutoskalowanie: once per key; the pool first, the rest from the wallet, in
\* one transaction.
Take(p) ==
    LET a == Amount(p) IN
    IF Key(p) \in DOMAIN charged THEN UNCHANGED <<pool, balance, charged>>
    ELSE /\ balance >= a - FromPool(a)
         /\ pool' = pool - FromPool(a)
         /\ balance' = balance - (a - FromPool(a))
         /\ charged' = Put(charged, Key(p), a)

Charge(p) ==
    /\ At(p, "charge") /\ ~outside
    /\ Take(p) /\ Proceed(p)
    /\ UNCHANGED <<level, row, rows, outside, clock, ghosts, scales, errors>>

\* Out of funds.
ChargeRefused(p) ==
    /\ At(p, "charge") /\ ~outside
    /\ Key(p) \notin DOMAIN charged /\ balance < Amount(p) - FromPool(Amount(p))
    /\ Goto(p, "short")
    /\ UNCHANGED <<level, row, money, outside, clock, ghosts, scales, errors>>

\* An error before the transaction, or after it (its answer, the event's row).
ChargeFails(p) ==
    /\ At(p, "charge") /\ ~outside
    /\ errors < MaxErrors /\ errors' = errors + 1
    /\ \/ UNCHANGED <<pool, balance, charged, unsure>>
       \/ Take(p) /\ unsure' = unsure \cup {Key(p)}
    /\ Goto(p, "failed")
    /\ UNCHANGED <<level, row, rows, outside, clock, book, lost, scales>>

\* Settled outside: is it in the statement already, ...
LookUp(p) ==
    /\ At(p, "charge") /\ outside
    /\ IF Key(p) \in DOMAIN rows THEN Proceed(p) ELSE Goto(p, "write")
    /\ UNCHANGED <<level, row, money, outside, clock, ghosts, scales, errors>>

\* ... and put it there.
Write(p) ==
    /\ At(p, "write")
    /\ rows' = Put(rows, Key(p), IF Key(p) \in DOMAIN rows THEN rows[Key(p)] + 1 ELSE 1)
    /\ Proceed(p)
    /\ UNCHANGED <<level, row, pool, balance, charged, outside, clock, ghosts>>
    /\ UNCHANGED <<scales, errors>>

Claimed(p) == IF IsBlock(p) THEN End(run[p].next) ELSE run[p].seen.until

\* Mutated form: the paid level is not compared.
ReleaseMatches_NoPaid(p) == until = Claimed(p)

\* zwolnij, unless the block moved on or a raise was charged into it.
ReleaseMatches(p) == until = Claimed(p) /\ paid = run[p].mine

Release(p) ==
    /\ run[p].pc \in {"short", "failed"}
    /\ IF ReleaseMatches(p)
       THEN /\ until' = IF IsBlock(p) THEN run[p].next ELSE until
            /\ carry' = run[p].seen.carry
            /\ paid' = run[p].seen.paid
            /\ book' = Restrict(book, DOMAIN book \ {Key(p)})
            /\ UNCHANGED lost
       ELSE /\ lost' = lost \cup {Key(p)}
            /\ UNCHANGED <<row, book>>
    /\ IF IsBlock(p) /\ At(p, "failed") THEN Goto(p, "compare") ELSE Stop(p)
    /\ UNCHANGED <<level, money, outside, clock, unsure, scales, errors>>

Billing == {"charge", "write", "short", "failed"}

\* A restart; outside the wallet an error also ends the run where it stands.
Die(p) ==
    /\ ~At(p, "idle") /\ errors < MaxErrors
    /\ errors' = errors + 1
    /\ lost' = IF run[p].pc \in Billing THEN lost \cup {Key(p)} ELSE lost
    /\ Stop(p)
    /\ UNCHANGED <<level, row, money, outside, clock, book, unsure, scales>>

Bill(p) ==
    \/ ReadBlock(p) \/ ReadRaise(p) \/ Claim(p) \/ ClaimFails(p)
    \/ Charge(p) \/ ChargeRefused(p) \/ LookUp(p) \/ Write(p) \/ Release(p)

Next ==
    \/ Look \/ BeginCron \/ Tick
    \/ \E l \in Levels : Scale(l)
    \/ \E p \in Runs : Bill(p) \/ ChargeFails(p) \/ Die(p)

Spec == Init /\ [][Next]_vars

\* The cron comes again and a run goes on to its end.
FairSpec ==
    Spec /\ WF_vars(BeginCron) /\ \A p \in Runs : WF_vars(Bill(p))

-----------------------------------------------------------------------------
(* Properties.                                                             *)

Times == (0 .. MaxScales) \X (-BlockLen .. MaxTime + BlockLen)
Keys == Times \X Levels

\* Half a grosz either way.
Carries == {c \in -Grosz .. Grosz : -Grosz <= 2 * c /\ 2 * c <= Grosz}

TypeOK ==
    /\ level \in Levels /\ paid \in Levels
    /\ until \in Times /\ carry \in Carries
    /\ pool \in 0 .. Pool /\ balance \in 0 .. Balance
    /\ {DOMAIN charged, DOMAIN rows, DOMAIN book, lost, unsure} \subseteq SUBSET Keys
    /\ outside \in BOOLEAN
    /\ now \in 0 .. MaxTime /\ episode \in 0 .. MaxScales
    /\ run \in [Runs -> [pc : {"idle", "looked", "next", "compare", "claim"} \cup Billing,
                         part : {"block", "topup"}, at : 0 .. MaxTime, mine : Levels,
                         next : Times, seen : [until : Times, carry : Carries, paid : Levels]]]
    /\ scales \in 0 .. MaxScales /\ errors \in 0 .. MaxErrors

\* The price of the claims that stand is what they charge and what they carry on,
\* although two runs read, move and give back the carry (autoscaling-billing
\* .service.ts:157-160).
CarryIsKept ==
    MapThenSumSet(LAMBDA k : book[k].price - book[k].amount, DOMAIN book) = carry

\* What is claimed gets charged, as much as was claimed; or its run is still at it
\* or stopped, or the claim could not be given back because the block had moved on
\* (:184-188).  A run told of an error may charge another amount when it repeats.
ClaimIsCharged ==
    \A k \in DOMAIN book : book[k].amount > 0 =>
        \/ k \in DOMAIN charged /\ (charged[k] = book[k].amount \/ k \in unsure)
        \/ k \in DOMAIN rows
        \/ \E p \in Runs : run[p].pc \in Billing /\ Key(p) = k
        \/ k \in lost

\* The owner's statement has a block once, although looking for it and adding it
\* are two statements (:155-158).
RowOnce == \A k \in DOMAIN rows : rows[k] = 1

\* Blocks are not left behind while the customer has the money.
CatchesUp ==
    <>[](\/ level = 0 \/ until[2] > now
         \/ ~outside /\ balance + pool < Max({Cost[l] : l \in DOMAIN Cost}) + Grosz)

=============================================================================
