# Verris: the money core in TLA+

Verris is a hosting platform: a NestJS API (`apps/api`) over PostgreSQL, panels for customers,
staff and administrators, DirectAdmin nodes with an agent on each, card payments through Stripe,
transfers and BLIK through Paynow, and a domain registrar. Everything a customer pays goes
through a prepaid wallet; services are charged from it by requests and by cron passes.

This directory models the parts of the API where a wrong order of steps costs money or a node:
the wallet ledger; the two ways money comes in (Stripe events, Paynow payments) and the two ways
it goes back (reversals by Stripe, refunds at Paynow); the three things that are paid for
(hosting and its renewal, autoscaled resources, domains); and the tasks that rebuild nodes.
Paths below are relative to `src/apps/api/src` unless they begin with another directory of the
repository.

## 1. Inventory

| Component | State it keeps | Operations | What is hard |
|---|---|---|---|
| Wallet ledger (`billing/wallet-ledger.service.ts`, `doladowanie.service.ts`) | `User.walletBalance`, `WalletTransaction` rows with a unique `idempotencyKey` | credit, debit, top-up | concurrent callers, duplicates, crashes between commit and answer |
| Stripe event intake (`billing/stripe/*`, `billing.service.ts` 1340-1524) | `StripeWebhookEvent`: status, claim, attempts, next attempt, payload | delivery, claim, take-over, handler, outcome, retry cron, replay, purge | parallel and repeated deliveries, leases, deaths, late outcomes |
| Reversal of top-ups (`billing.service.ts` 1536-1774) | `kwotaCofnieta`, adjustment rows | refund and dispute events | cumulative amounts, spent balance, repeated and parallel runs |
| Paynow payments (`billing/paynow`, `billing.service.ts` 667-1229) | `PaynowPlatnosc` | creation, notice, check, booking, mark, effects, realisation of an order | statuses out of order, a second payment under one record, lost answers |
| Paynow refunds (`billing.service.ts` 1230-1335) | `zwroconoMinor`, `zwrotyIds` | order at Paynow, record by hand | a lost answer, two operators, a key computed from what was read |
| Renewal and life cycle (`subscriptions/renewal.scheduler.ts`, `subscriptions.service.ts`, `cykl-zycia-uslugi.service.ts`) | `Subscription` row, `Account.status`, the account on the node, the discount left | renewal pass, pay now, grace, restore, expiry, cancel, uncancel, finalize, suspend, unsuspend, end | no lock is held across the wallet or server calls; passes overlap |
| Service orders and the provisioning queue (`subscriptions/subscriptions.service.ts`, `provisioning-queue.service.ts`, `provisioning.service.ts`) | status and stage of the order, `Account`, the BullMQ job | payment, job, retry, refund, cancel, cleanup of unpaid orders | at-least-once jobs, a fee between debit and claim, partial failure |
| Node tasks (`servers/node-tasks.service.ts`, `ops/scripts/verris-tasks.sh`, `verris-task-run.sh`) | `NodeTask` | queue, wave, lease, heartbeat, report, reclaim, retry | the agent and the reclaim pass disagree on who runs a task |
| Autoscaling billing (`autoscaling/autoscaling-billing.service.ts`, `kredyty-autoskalowania.ts`) | `scaledBilledUntil`, the carry, what the block has paid, credits, the owner's statement | block, raise inside a block, claim, charge, release, restart | claim before charge, rounding, two tables for one key |
| Domain orders (`domains/domain-registrar.service.ts`) | `DomainRegistrarOrder`, `Domain.expiresAt` | register, transfer, renew, retry by staff, pass over uncertain orders and over transfers, synchronisation | the registrar acts and does not answer |
| Wallet auto top-up, autoscaling engine, plan change, ownership change, node migration, VPS, invoices and KSeF, promotions and partners, job registry | own tables | see section 6 and `PROJECT.json` | not modelled |
| Authentication, tickets, mail, statistics, panels | no state the money depends on | | not modelled |

How they interact: every component that moves money calls the ledger with an idempotency key
that names the thing paid for (`stripe:checkout:<session>`, `paynow:<id>`, `sub-<id>-initial`,
`sub-<id>-renew-<period>`, `domain-<type>:<order>`, ...). Row locks are held only inside single
transactions: by the ledger, by reversals and refunds that take from the wallet, by orders of
domains. Across calls nothing is locked: crons, HTTP handlers, web hooks and queue workers read
a row, await the wallet, a payment provider, a node or the registrar, then write, sometimes
under a condition in the `WHERE`. The cron registry (`zadania-w-tle`) counts overlapping passes
but does not prevent them.

What makes each component correct:

* ledger: the rows explain the balance, it is never negative, a key moves money once;
* Stripe intake: an event recorded as done is in the wallet, once; a received one gets there in
  the end;
* reversal: what goes back to the card is taken once, and what the balance does not cover is
  reported;
* Paynow payments: only confirmed money is booked, once, with its effects once; what was paid is
  booked or administrators know; a paid order does not wait unnoticed;
* Paynow refunds: all refunds together stay within the payment; none made at Paynow is
  overlooked;
* orders: a charge becomes hosting or goes back; a confirmed payment is used or reported;
* renewal: a period is charged once, only paid periods are served, a paid service comes back;
* node tasks: one at a time on a node, the fleet follows success only, nothing waits for ever;
* autoscaling: a block is charged once, for what was claimed, and rounding loses nothing;
* domains: the fee goes back if and only if the registrar did not do what was ordered.

## 2. Modules

| Module | What it is |
|---|---|
| `WalletPromise` | abstract specification: atomic movements, each key at most once, balance never negative |
| `WalletLedger` | `applyEntry`/`zapiszWpis`/`zaksieguj` split at the points where another caller gets in; implements `WalletPromise` |
| `StripeWebhook` | the event state machine; its wallet is an instance of `WalletPromise` |
| `TopUpReversal` | refunds and disputes of one top-up, handled by the workers of the intake |
| `PaynowPayment` | one payment record from its creation to its effects |
| `PaynowRefund` | refunds of one Paynow payment by several operators |
| `ServiceOrder` | one order: payments, job, refund, cancel, cleanup; its wallet books a key once |
| `Renewal` | one service and all operations on its row; proved to stay within `WalletPromise` |
| `NodeTasks` | whole-node tasks and the wave over the fleet |
| `AutoscaleBilling` | the billing of one account above its plan |
| `DomainOrders` | orders for one domain name |
| `WalletLedgerProofs`, `StripeProofs` (`StripeWebhook`, `TopUpReversal`), `PaynowProofs` (`PaynowPayment`, `PaynowRefund`), `QueueProofs` (`ServiceOrder`, `NodeTasks`), `RenewalProofs`, `AutoscaleBillingProofs`, `DomainOrdersProofs` | the proofs about all ten of them |
| `SumTheorems` | induction over numbers and finite sets, and what follows for sums over finite sets |
| `MC*` | constants, symmetry and bounds for TLC |

The composition is by contract: the upper modules never look into the ledger, they rely on the
promise that `WalletLedger` is proved to keep. `StripeWebhook` moves its wallet by the promise's
own action; `Renewal` is proved to move it in no other way, under a key at a time; in
`ServiceOrder` and `PaynowPayment`, with a key or two each, that a key moves money once is taken
from the ledger and nothing is claimed about it. The order whose realisation
a confirmed Paynow payment starts is `order` in `PaynowPayment` (waiting, taken, canceled) and
the whole of `ServiceOrder`, where a payment that is confirmed starts a run.

Where one module of proofs extends two components, one of the two has names of its own for what
both have: `RefundInit`, `TasksNext`, `ReversalSpec`, `balance` for the wallet, `step`,
`request` and `place` for where an operator, an agent and a worker are.

Names ending in a mutation (`UniqueOK_NoIndex`, `RenewalKeys_Any`, ...) are not used by the
specifications: they are plausible bugs, and each property has been seen to fail under one.

### WalletLedger

A *caller* is one call: idle, fast path (key look-up outside the transaction), lock (`SELECT ...
FOR UPDATE`), insert (unique index), commit, lookup (the loser of a key race), done.
`walletBalance` and `ledger` are the committed tables; what an open transaction has computed is
`draft`. PostgreSQL is modelled at READ COMMITTED: an insert of a key that an open transaction
has inserted waits for its end. `Crash` aborts whatever is open and releases its locks; calling
again is another `Call`.

`LockRow` joins the lock, the balance check and the update: while the lock is held nobody else
can change what is read. `Insert` and `Commit` are apart because the unique index makes others
wait in between.

### StripeWebhook

A *worker* is a delivery by Stripe, a pass of the retry cron, or a replay by an administrator.
It reads the row (`Looked`), takes it over on a condition (`TakeOver`), runs the handler
(`Handle`), records the outcome (`Finish`, `MarkFailed`), and may fail or die anywhere. Time
appears as what the code compares it with: a claim older than the lease (`overran`), a retry
that is due (`due`). A claim is identified by its number, as the code identifies it by
`claimedAt`: two claims in one millisecond are left out.

Of the handlers the one that credits a wallet is modelled (`checkout.session.completed` and its
async variant, for sessions that are paid). The alarm (`alarmuj`) only reads.

### TopUpReversal

One top-up and its refund and dispute events. A *worker* runs `handleZwrotPlatnosci` for an
event: it looks for the top-up (`Begin`), takes the customer's row and computes the share that
has to go back, what is left of it (`rest`) and what the balance covers (`take`) (`LockRow`),
commits (`Write`), reports (`Report`), and closes the event (`FinishReversal`). The lock and the
commit are apart so that a death falls between them; while the row is held nobody else moves the
balance (`OtherMovement`, every other use of the ledger). The state of the event is that of
`StripeWebhook` reduced to open and done: an open one may be run by several workers, and a late
failure reopens it (`Reopened`). A refund handled before the top-up is credited is reported as
not of a top-up (`ReportStray`). The ledger is used through `zapiszWpis` in the caller's
transaction, so a key that is already booked is an error here (`KeyClash`) and not the existing
row.

### Renewal

A *caller* is one run of an operation on the service: which row it read (`seen`), which key it
charges under, and where it is. The steps are the awaits of the code, in its order: the key
(`kluczOdnowienia`), the look-up, the debit, `extendPeriod` with the condition in its `WHERE`,
`zwrotGdyAnulowana` (look again, then refund), the calls to DirectAdmin, and the unconditional
writes after them. Period *p* ends at `2p` on the clock; the odd tick before it is the last 24
hours, in which the pass looks at the service. Grace is zero days, as configured in the code.

`Expire` waits until no payment from before the suspension is in flight, and the write of
`cofnijAnulacje` is one step because its read and its `WHERE` check the same: both because 14
days, or nothing, lie in between.

### PaynowPayment

A *handler* is one request: it takes a notice, or asks Paynow for the status for a customer who
has come back. Its statements are `Book` (credit), `Mark` (CONFIRMED, under a condition that
only one handler wins), `Effects` and `Realise`; the record is created by `Ask` and `SaveId`,
whose answer may be lost. Paynow is external: a status for each payment under the record's
`externalId`, of which the customer may open another one (`Repeat`), notices that are lost,
repeated and reordered, and a confirmation repeated until it hears 200. `Flag` is the hourly
cleanup that leaves an event at a paid order nobody has taken; the event is written before the
notices go out.

### PaynowRefund

An *operator* is in one request: `api` orders the refund at Paynow under a key computed from the
sum it read and the amount; `panel` records one that was made in the merchant's panel, or whose
answer was lost; a refund made in that panel is a `merchant` one (`MerchantRefund`). Paynow
knows a refund by its key and does not return more than was paid. Recording is a transaction
under the row's lock (amount, ids, what is taken from the wallet); what could not be taken is
reported after it.

### ServiceOrder

A *run* is one execution of `payFromWalletAndProvision`: the check-out itself, or what a
confirmed payment starts. It debits, claims the order by a conditional update, and puts the job
into the queue; if the claim fails, it looks whether the order is gone and gives the fee back.
The job is one worker with attempts: account on the node, `Account` row, ACTIVE, or, after the
last one, the refund and the reset of the row. The customer's cancel and the cleanup after 48
hours read and write in two steps. A death resets the run or the worker; BullMQ then runs the
job again.

Who gave the fee back, and when, is kept in `refund`: the job, a run that did it before a job
was past its look at the refund (`order`), or a run that did it later (`amid`). Reports are kept
apart, too: `told` are the payments whose own run ended in an error that `zrealizujZamowienie`
reported, `alarm` is the notice of the order by the job or the cleanup, `died` who died.

### NodeTasks

A task is a row, perhaps a runner on its node, and perhaps a handler of its report in the API.
The agent of a node has one lease request at a time (it holds a lock): reclaim of what is stale,
then lease of the oldest task, if no other runs. `Succeed` and the reports may be lost; the
heartbeat goes stale (`GoStale`) for a dead runner and, when the network is gone for 15 minutes,
for one at work. `Retry` queues a failed task again under the same id. `MoveOn` and
`AfterFailure` (`dalejFala`) carry the wave on or end it.

### AutoscaleBilling

Two *runs* bill an account, the engine's after a change of level and the cron's. A run reads the
row, claims the next block by an update that compares `scaledBilledUntil`, the carry and what is
paid, charges credits first and then the wallet (or adds the block to the owner's statement),
and gives the claim back when the charge failed. A raise inside a paid block is charged for the
rest of it. Money is in units, `Grosz` of them to a grosz; times are pairs of episode and tick,
since a new episode starts at a millisecond of its own.

### DomainOrders

All orders for one name of one customer. A *caller* is a request, a pass over one order, or the
synchronisation. A request creates the order (a renewal under the lock on the domain, a retry
under one on the orders for the name), charges, and calls the registrar, who answers, refuses,
or does not answer: then the order is UNCERTAIN. A debit that was committed while its answer was
lost leaves PENDING_PAYMENT, as any error of it does (`ChargeUnheard`). The registrar is external
(`Execute`, `Drop`, `Settle`). A pass finds out what happened by the object or the date, closes
the order, or gives the fee back after an hour (`due`). The synchronisation reads the row, asks
the registrar, and writes in three steps (`BeginSync`, `AskSync`, `Sync`). `left` marks the orders whose request
died or did not hear of its debit, `clean` the renewals whose row has the date they were ordered
at, or had it when the passes over them read it.

## 3. Runs

| Run | Question | Result |
|---|---|---|
| `wallet` | 3 callers, duplicate keys, a subaccount, crashes: balance = rows, refinement of `WalletPromise`, every call ends | holds |
| `webhook` | 2 events of one session, 2 workers, 3 claims: done means booked, booked once, alone unless a lease was overrun; a received event is booked in the end, though Stripe may never come back | holds |
| `reversal` | a refund and a dispute of one top-up, 2 workers, deaths, a late credit: no more is taken than the largest amount returned, what is done was reversed or reported, the mark is whole | holds |
| `renewal` | renew, pay, cancel, uncancel, end over 3 periods with one refund: charged once, periods are paid, discount used once a period, only the unpaid fall behind | holds |
| `renewal_live` | renewal, restore, grace, expiry, cancellation and its finalization, suspension by staff and its end, deaths: a service suspended although paid comes back, a charged period that the service lacks is given | holds |
| `service_order` | check-out and 2 payments, 3 attempts of the job, a death: a charge is answered; what the one fee did not use was reported by its own run; what went back leaves no hosting | holds |
| `paynow` | 2 handlers, the record's own payment and another one, 2 falls: booked was paid, effects once; what was paid is booked or told, a paid order is answered | holds |
| `paynow_refund` | 2 operators, 4 requests, 3 units: within the payment, recorded was returned, nothing overlooked | holds |
| `node_tasks` | 2 nodes, 2 tasks, a wave, a retry: the wave follows success, alone on the node; every queued task gets its turn | holds |
| `autoscale` | 2 levels, 3 ticks, 3 changes of level, an error: the carry is kept, a claim is charged, a row once; blocks are not left behind | holds |
| `domain_orders` | 2 orders, 2 callers, 2 deaths: a fee is answered, one renewal at a time, refund and completion are right unless a pass was misled (`Clean`) | holds |
| `domain_judged` | "done: as after a success; not done: refund" (domain-registrar.service.ts:1302) | violated |

**domain_judged** is a disagreement between the code and its comment. A renewal whose answer was
lost is judged by the date of the domain's row, "the one from before the order" (1415). It need
not be that one: the synchronisation writes the registrar's date into the row (923-926), and a
run of the pass that closes the order moves it before an overlapping run compares it. After the
hour a renewal that the registrar did is then taken for undone, refunded and set to FAILED,
without a condition on the status. `RefundIsRight` does not speak of these renewals: `Clean`
names them, with those whose date another order for the name has moved. It says that there is no
further way. A pass that has read the row before another one closes the order judges right, and
so does one whose order nobody else has touched, whatever was lost, late, dropped or dead.

### What the properties do not say

What follows was met while modelling. Each point is either an exception a property names or a
part of the code where the property would not hold; none contradicts a line of the repository
other than those named.

*Wallet.* A duplicate that passed the fast path may be refused for lack of money although its
entry exists (the balance is compared at wallet-ledger.service.ts:170, before the unique index
speaks), while lines 55-56 promise the existing entry. The money is right; the answer is not.
`Renewal` takes this refusal into account.

*Stripe.* `oznaczNieudane` (billing.service.ts:1476) writes FAILED without a condition: a worker
that overran its lease and fails late opens the row of the present owner, and a third one starts
beside it, against the comment at 1513-1514. `AloneUnlessOverrun` excepts events whose lease was
overrun; the key keeps the money right.

*Reversal.* `zglosCofniecie` (1628) runs after the transaction: if the process dies in between,
the retry finds nothing left to reverse and closes the event, and nobody is told.
`ReversedOrTold` does not count a reversal as reported, only the shortage. It counts a refund
reported before its top-up was credited as told: the notice calls it "not a top-up", the mark
stays empty, and the top-up is later credited in full. A run that took what the balance covered
and died leaves its row; if the wallet has money again at the retry, the retry meets the row
(P2002, 1716) and fails until the balance is empty (`KeyClash`).

*Renewal.* A process killed between the debit and the extension (renewal.scheduler.ts:296)
leaves the charge to the next pass, which gives the period without another one
(`ChargedPeriodIsGiven`); a cancellation in between takes the service out of the pass, and the
charge is neither served nor refunded: both that property and `PeriodsArePaid` leave the case
out. A payment in flight lifts a suspension by staff, since the `WHERE` of `extendPeriod` has no
status (369), or finishes after grace has switched the account off: ACTIVE, hosting off (230). A
cancellation revoked between the refused extension and the refund (324, 339-350) lets another
renewal in flight extend on the charge that is then refunded: `PeriodsArePaid` excepts the period
(`revoked`). `unsuspend` writes back the period it read before the server call
(subscriptions.service.ts:1239), and so can take away one that a renewal has given meanwhile,
against renewal.scheduler.ts:450: "opłaconego okresu nie odbieramy", a period that is paid for
is not taken away. The service lacks the
period until the next pass, which finds its charge and gives it again, and decrements the
discount again: `PeriodsArePaid` and `DiscountUsedOncePerPeriod` are for that reason checked and
proved without suspensions, and no property says that a period is never taken away.

*Orders.* A death between the debit (subscriptions.service.ts:1715) and the claim (1732) leaves
a charged order that is PENDING_PAYMENT; the cleanup cancels it after 48 hours and gives nothing
back (2199, 2174): `ChargeIsAnswered` is about behaviours without a death. `RefundLeavesNoHosting`
excepts a fee given back `amid` a job, in two traces. A second run of the charge, of another
payment, finds the order canceled and gives the fee back while a job is past its look at the
refund: the job then saves the account and writes ACTIVE without a condition (787). And
`markQueued` fails after `queue.add` has succeeded (provisioning-queue.service.ts:165-178): the
run takes it for a job that was not queued, and gives the fee back while the job runs. In
both a customer has hosting that nobody paid for. `PaidOrTold` looks for the reports of the
payments whose own run did not die. If the fee went back and nobody died, it is content with one
report of the order, by the job, the cleanup or any run: a second run that claims the order after
the refund, so that its job refuses to set it up, adds no report of its own. A lost answer of
`createAccount` ends in a refund and an orphan account on the node, which no property counts as
hosting. An attempt that fails after the account was saved ends in a refund with the hosting in
place (`late`; provisioning-queue.service.ts:600). `markQueued` may overwrite a later stage.

*Paynow.* The event of a paid order is written before its notices, so a death between them
leaves the event alone (`flagged`). A PENDING that comes after REJECTED may keep the customer
from repeating the payment. A death after the mark and before the effects loses the bonus and
the mail: `EffectsOnce` is at most once. In `PaynowRefund`, recording by hand a refund that a
retry then makes through the API counts it twice (`byHand`); a retry after a lost answer has a
new key if another refund was recorded meanwhile (1231-1234). `Refused` assumes that Paynow made
no refund: the client takes every answer that is not 2xx for a refusal, one of 5xx included
(paynow.client.ts:166-170, billing.service.ts:1262-1269), and if Paynow made the refund
nevertheless, nobody here knows of it.

*Node tasks.* A runner that works on while its heartbeat is lost for 15 minutes has its task
given up and may get another beside it (`givenUp`). The reclaim's FAILED is written without a
condition and can replace a COMPLETED that came between; a failure by reclaim sends no notice of
the wave; a retry of an old failed task of a wave goes on beside a newer wave; a death of the
API between COMPLETED and `dalejFala` ends the wave silently.

*Autoscaling.* After an error told although the charge went through, the repetition at another
level meets the key of the first and charges nothing (`unsure`). The look-up at
kredyty-autoskalowania.ts:115 is outside the transaction; the claim is what keeps the two runs
apart. A death between claim and charge loses the block for the company, as the comment at
autoscaling-billing.service.ts:184 accepts.

*Domains.* An uncertain registration that was not executed is closed as served by another
order's domain of the same name; a transfer found by its name may be another object, a failed
one. A renewal answered without a date leaves the row behind, so that the next uncertain renewal
is taken for done. A death leaves an order QUEUED for ever, which also blocks the retry by staff; a
debit that was committed while its answer was lost leaves it PENDING_PAYMENT with the fee taken
(1064-1078), and the retry by staff is a new order with a charge of its own (`left`). The error of a refund is only logged
(`byHand`). The model assumes that the registrar
does nothing with a request after the hour; a row without a date is never settled.

### Bounds

*wallet*: three callers are needed for a key race with a third party, a lock holder and a
waiter; two customers and a subaccount, and keys that are shared across customers. `MaxEntries`
bounds the rows of a customer, not what one call does. *webhook*: three claims are the shortest
chain claim, take-over, take-over; two events of one session race for one key. *reversal*: a
refund of half and a dispute of the whole are the pair in which order matters (the share is
rounded up, and the smaller comes last or first); the balance bound leaves room to spend the
top-up and to top up again. *renewal*: two callers are enough for every pairwise race of
operations on a service; three periods let a late caller be one and two periods behind; one
refund per period uses the second key; one discounted period is the smallest number that can be
used twice. The clock of `renewal` stops within the third period, whose end adds nothing: no
renewal leads out of it. *renewal_live* has two periods and one key for each, since its questions
are about one period whose charge stands; after a refund that period is charged no more. `end`
writes what `finalize` writes, whenever it likes, so that `renewal` leaves `finalize` to
`renewal_live`; there a cancellation is also postponed (`PostponeCancel`), which nothing but the
write-back of `unsuspend` leads to. *service_order*: a check-out and two payments are a pair of
runs with a third that finds the order taken, three attempts a first, a repeated and a last one,
and a wallet that holds two prices. *paynow*: two handlers meet in every pair of statements, and
the second payment under the record is the one that must not be booked. *paynow_refund*: three
units allow a refund, a second one, and a third that is too much; four requests a retry of each
operator's. *node_tasks*: a canary and a second node, with one task of the wave on each or a
hosting profile beside it on the canary. *autoscale*: `Grosz = 4` and blocks at a grosz and a
half and at three, so that blocks and raises leave carries of either sign; three ticks of two to
a block, three changes of level: up inside a block, up or down again, and a second episode.
*domain_orders*: two orders for a name are the second click; two callers are a pass beside a
request, a pass, or the synchronisation. Three callers with one death, and three orders, were
tried once as well: they hold.

### Fairness

* `WalletLedger`: a caller that can go on does (weak), and PostgreSQL serves waiters for a row
  or a key in order of arrival (strong on the grant of the row and of the key).
* `StripeWebhook`: workers go on; leases run out and retries fall due (time passes); the cron
  comes every minute and takes the oldest waiting events (strong, for 25 or fewer waiting). A
  death between the read of a row and its take-over is not repeated for ever.
* `Renewal`: an operation goes on until it dies (weak). The hourly pass, which both renews and
  restores, begins again and again, and neither deaths nor node failures stop every pass at the
  same place: four strong conditions, on its beginning, its first look at the row, its look at the
  charge or its call to the node, and its last write. Each is on the two operations and all
  callers together. No fairness is given to customers, staff or the clock.
* `PaynowPayment`: a request that was taken goes on until it falls; Paynow repeats a
  confirmation until it hears 200, for 48 hours, and gets through in the end (strong); the
  cleanup comes every hour (weak). Notices of other statuses may all be lost and the customer
  need not come back.
* `NodeTasks`: agents poll every minute and their requests go on (weak); a script ends, if only
  because systemd stops it after two hours; a row without a runner goes stale. Nothing makes
  nodes stay alive or answers arrive.
* `AutoscaleBilling`: the cron begins again and a run goes on (weak). Errors and changes of the
  level are bounded, so `CatchesUp` is about what remains when they stop.

## 4. Proofs

Every theorem holds for all values of the constants, from the named assumption of its component
(`WalletConstants`, `WebhookConstants`, `ReversalConstants`, `PaynowConstants`,
`RefundConstants`, `OrderConstants`, `TaskConstants`, `RenewalConstants`, `BillingConstants`,
`DomainConstants`) alone. The bounds (`MaxWallet`, `MaxAttempts`, `MaxDeaths`, `MaxOrders`,
`MaxTime`, ...) are arbitrary in them. For each component the type invariant is proved
(`TypeCorrect`, `ReversalTypeCorrect`, `RefundTypeCorrect`, `TasksTypeCorrect`,
`BillingTypeCorrect`), and:

| Module | Theorem | Property |
|---|---|---|
| `WalletLedgerProofs` | `LedgerExplainsBalance` | `LedgerMatchesBalance` |
| | `NoOverdraft` | `NeverOverdrawn` |
| | `ExactlyOnce` | `KeyMovesMoneyOnce` |
| | `AppendOnly` | `MoneyMovesWithItsRow` |
| | `Refinement` | `KeepsPromise`: `WalletLedger` implements `WalletPromise` |
| `StripeProofs` | `NothingIsLost` | `DoneMeansBooked` |
| | `ReplayIsPossible` | `UnfinishedKeepsPayload` |
| | `HandlerRunsAlone` | `AloneUnlessOverrun` |
| | `CreditedAtMostOnce` | `CreditedOnce` |
| | `NeverTakesTooMuch` | `ReversedWithinReturned` |
| | `NothingIsForgotten` | `ReversedOrTold` |
| | `MarkCoversAll` | `MarkIsWhole` |
| `PaynowProofs` | `OnlyPaidIsBooked` | `BookedWasPaid` |
| | `ConfirmedMeansBooked` | `ConfirmedIsBooked` |
| | `ConfirmedStays` | `ConfirmedIsFinal` |
| | `EffectsAreOnce` | `EffectsOnce` |
| | `NeverMoreThanPaid` | `WithinPayment` |
| | `OnlyReturnedIsRecorded` | `RecordedWasReturned` |
| | `NoRefundIsOverlooked` | `RefundIsRecordedOrTold` |
| | `NoShortageIsOverlooked` | `RecordedIsTakenOrTold` |
| `QueueProofs` | `FeeComesFirst` | `FeeFirst` |
| | `RefundedOrderHasNoHosting` | `RefundLeavesNoHosting` |
| | `ChargesAreAnswered` | `ChargeIsAnswered` |
| | `PaymentsAreUsedOrTold` | `PaidOrTold` |
| | `WaveFollowsSuccess` | `NextAfterSuccess` |
| | `OneAtATime` | `AloneOnNode` |
| `RenewalProofs` | `PeriodIsChargedOnce` | `ChargedOnce` |
| | `OnlyDueFallsBehind` | `FallsBehindOnlyUnpaid` |
| | `MovedOnce` | `KeepsPromise` of `Renewal` |
| | `EveryPeriodIsPaid` | `PeriodsArePaid`, while nobody suspends |
| | `DiscountIsUsedOnce` | `DiscountUsedOncePerPeriod`, while nobody suspends |
| `AutoscaleBillingProofs` | `CarryIsAlwaysKept` | `CarryIsKept` |
| | `ClaimsAreCharged` | `ClaimIsCharged` |
| | `RowsAreOnce` | `RowOnce` |
| `DomainOrdersProofs` | `FeesAreAnswered` | `FeeIsAnswered` |
| | `RenewsOnce` | `OneRenewalAtATime` |
| | `RefundsAreRight` | `RefundIsRight` |
| | `CompletionsAreRight` | `CompletionIsRight` |

Where a property is proved and not in a run (`NeverOverdrawn`, `KeyMovesMoneyOnce`,
`MoneyMovesWithItsRow`, `UnfinishedKeepsPayload`, `ConfirmedIsBooked`, `ConfirmedIsFinal`,
`FeeFirst`, the promise of `Renewal`), a run would add nothing to the
proof. `TypeCorrect` of `RenewalProofs` also stands while nobody suspends.

**Wallet.** The inductive invariant is `IInv`. Neither `LedgerMatchesBalance` nor
`KeyMovesMoneyOnce` is inductive: a commit writes a balance computed earlier, under a key looked
up earlier. `OpenTransactions` says that who is inside its transaction holds the row and that
its draft is still the balance plus the amount; `InsertedKeys` that an inserted key belongs to
one open transaction and to no committed row. Only `Commit` changes the tables: `CommitEffect`
describes the row it appends, `AppendedRow` and `AppendedKey` what that does to the sequence and
to the set of booked keys, and all other actions are covered by `QuietStep` and `QuietActions`.

**Intake.** `DoneMeansBooked` needs that a worker past the handler has its event booked
(`Booking`); the replay that a busy worker's event still has its content (`Known`), which the
purge respects because it takes only what nobody works on. `AloneUnlessOverrun` needs more:
until a lease of the event was overrun, whoever handles it is alone, the row says PENDING, and
whoever is about to take it over has read FAILED (`Alone`). A claim succeeds only on a row that
is as it was read, so by `Alone` nobody is handling it (`ClaimFindsNobody`). `CreditedOnce` is
proved beside it, from `Balanced`: a balance is the sum of the sessions of the customer that are
booked, and a booked session is one that was received. A handler adds one session to the sum or,
if the key is there, none (`HandleKeepsBalanced`).

**Reversal.** Between lock and commit what the worker computed still holds because it holds the
row (`Holding`); `WriteEffect` says what its commit therefore does: the sum reversed is at most
the share of the event, and together with the shortage exactly it. `Committed` carries that to
the report and to the end. `DueIsNat` is the only arithmetic with products.

**Paynow payment.** A notice is true when it is sent and CONFIRMED is the last status, so a
notice of CONFIRMED stays true (`SaidByPaynow`) however late it is. `Creation` says which
payment the record can name while its creation runs; `Handling` that a handler past a statement
has found or done what the statement does; `OneStart` that effects were started or somebody has
won the mark and is about to, never both: the condition of the mark does the rest.

**Paynow refund.** `HasAmount` says that an operator at work has an amount within the payment,
`Followed` that a refund made at Paynow is recorded, told, or in the hands of an operator whose
key it has, `ShortageFollowed` the same of what the wallet did not cover. `RecordedWasReturned`
follows from `Recorded`: the amount on the payment is the total of the ids recorded with it,
and, as long as nobody worked by hand, these are refunds that Paynow has made; parts of a set of
amounts add up to no more than the whole (`PartsAreLess`).

**Sums.** The models sum over sets with `MapThenSumSet` of the community modules, a fold whose
value only an induction gives. The induction theorems of the library take a predicate as an
operator, which the provers cannot instantiate; `SumTheorems` states them for a *set* instead, a
set of numbers closed under successor (`NaturalsAre`) and a set of subsets closed under adding
an element (`SubsetsAre`), and comprehension makes the set from the predicate. From there:
exactly one function sums over all subsets (`SummationsAgree`), the fold is that function
(`SumIs`), and a sum changes by an element as it should (`SumTakes`, `SumAdds`).

**Order.** Five groups of facts: what a run past a statement knows (`RunOK`), how job and row go
together (`JobOK`), what the worker inside an attempt may assume (`WorkerOK`: among it that a fee
given back by the job, or before the job's look at it, finds no attempt under way), while nobody
has died who answers for the fee (`Answering`), and what became of the payments (`PaymentsOK`).
The fee is answered by the account, the refund, the job, or a *responsible* run, one that is
going to claim the order, put the job into the queue or give the fee back. Two runs that charge
on one key are the case that makes it hard: the loser of the claim gives the fee back only if the
order is gone. A payment is accounted for by `OneFeeOnePayment`: as long as the fee stands, at
most one run `Holds` the order, which is the one that claimed it or a payment that nobody
reported, because the claim takes the order out of PENDING_PAYMENT and only who gave the fee back
puts it there again; and by `Reporting`: after a refund somebody has told of it or is about to.

**Node tasks.** `Unknown` rows have neither runner nor report; a report is sent by an execution
that is `done` (`SentByDone`); of the tasks that say RUNNING on a node there is one
(`OneRunning`), and on nodes that were never given up a runner at work has such a row
(`WorksAsRow`). A lease needs that no row of the node is RUNNING, which is what closes the
induction.

**Renewal.** Two layers. The first, `IInv`, holds whatever operations run: what every caller has
read or been told of the wallet (`Sound`), and `Charges`: the keys of a period are used in turn,
each after the one before was refunded, and only what was charged is refunded. It gives
`ChargedOnce`, `FallsBehindOnlyUnpaid` and the promise. The second, `PaidInv`, is relative to
`NoSuspension == Operations \cap {"grace", "suspend"} = {}`: a period is extended only by a
caller that holds a standing charge for it (`Fits`), at the price that the discount left at its
beginning gives (`RightCharge`), and the number of discounted periods left is a function of the
period. With suspensions `unsuspend` writes the period back, and the second layer is false.

**Autoscaling.** The invariant `Bills` has four parts. `Fits`: types and ranges, and that a run
at work belongs to an episode that has begun. `Kept`: price minus amount, summed over the claims
that stand, is the carry of the row. It is inductive only if a claim is given back on the row it
left, which `Sound` provides. The claims that stand lie on a grid of blocks that ends at the
boundary of the row (`BookOnGrid`), so a block claimed beyond it is a new one. In the last block
the level paid is above every raise, unless the block is *late*: it is over for everybody who
may still raise in it (`RaisesFit`). What the row holds is the rest of the last claim (`OnTop`),
unless a raise was claimed above it; giving back the later claim restores that (`Stack`),
because a claim was made on a row that was as it had been read. `Stale` is about a run that
claims the next block with a level it read earlier, which the condition of that claim does not
compare. So two runs that claim, raise, fail and give back in any order behave like a stack, and
a claim that another one lies on is not given back but left (`ReleaseMatches` fails and it is
`lost`). `Paid`: a charge stands for its claim; who is about to write a row has looked and found
none, and nobody else has the key. Most steps leave row and book alone (`Quiet`); the rest are
`Claim`, `Release` and the filling in of an unknown level.

**Domains.** One request serves an order until its first answer is written (`OneServes`), and
the passes find the order only after that: hence nobody but that request calls the registrar for
it, and what a caller has learnt (`Knows`) stays true however long it sleeps. `FeeIsFollowed`
names who answers for a fee. `RenewalLock`: who holds the domain's row for a renewal found none
in progress, and of the renewals in progress or uncertain there is one. The date at the
registrar is one year more than the renewals it has done (`ExpiryFits`). The row of a clean
renewal has the date of its order (`DateOfOrder`), one behind the registrar if it was done and
equal if not, until the order is closed (`OrderFits`); from then on a pass that is still at work
has that date with it (`Knows`). That is why the comparison in `stanNiepewnego` is right for it,
and `LookIsRight` is the place where it is used. `RefundIsRight` and `CompletionIsRight` are properties of steps
and follow from the invariant by cases on the action.

Only model-checked: the eight liveness properties (`EveryCallEnds`, `ReceivedIsBooked`,
`PaidServiceComesBack`, `ChargedPeriodIsGiven`, `PaidIsBookedOrTold`, `PaidOrderIsAnswered`, `QueuedIsLeased`,
`CatchesUp`), which are outside TLAPS. Every other property of a passing run is the statement of
a theorem.

## 5. Plan

The first plan is done: the ledger, both ways in, both ways back, the order, the renewal, node
tasks, autoscaling, domains, all with proofs. What would come next:

1. `Renewal` with suspensions: an invariant that says which periods an `unsuspend` can write
   back, so that the second layer of the proof needs no assumption on the operations.
2. `ServiceOrder` with Stripe and operators' orders, `Renewal` with the promise of payment,
   MANUAL services and `unsuspend` with a charge.
3. The engine of autoscaling (episodes and its own locks) above `AutoscaleBilling`; the
   migration between nodes, whose phases are persisted and resumed; the numbering of invoices.

## 6. Not modelled

* Wallet auto top-up: the money it brings is `StripeWebhook`; a charge of the card without an
  answer is tried again the next time (wallet-auto-topup.service.ts:283), and whether that
  charges twice depends on Stripe.
* Autoscaling engine: thresholds on measured load. Plan change, ownership change, migration:
  long operations on one service, after the money core. VPS: the renewal scheme again, with a
  provider that deletes servers. Invoices, corrections, KSeF, promotions, partners: documents
  and commissions that follow the money.
* Background job registry, DirectAdmin client, shell scripts on nodes: in the models a call that
  succeeds, fails or never returns.
* Authentication, tickets, mail, statistics, panels: no state the money depends on.

Left out in modelled components: services with source MANUAL or a Stripe subscription, promises
of payment, `unsuspend` with a charge (subscriptions.service.ts:1198; its own key makes a second
charge of the period possible); orders of application-level services, by operators, of price 0,
or without Redis; Stripe events that neither credit a wallet nor reverse a top-up; the partner
commissions that follow the mark of a reversal; the repetition of a Paynow payment as a new
record; the tasks of accounts on nodes and what single kinds do after their report; changes of
prices and discounts, the expiry of credits, shared pools and `MAX_BLOCKS_PER_PASS` of
autoscaling; WHOIS privacy, prices, the ban on trials and names that leave the registrar.
