# Staking rewards backend: specifications, checks and proofs

This directory is a verification project for the NestJS backend in `src/`: a
staking and rewards service over PostgreSQL (through Prisma), Redis queues
(Bull) and a Solana RPC node. It models what the program does to its stored
state when several handlers, jobs and replicas run at once, model-checks small
instances with TLC, and proves the most important results with TLAPS.

The deployment (`k8s/deployment.yaml`) runs three replicas of one process. Each
serves HTTP, fires every `@Cron`, and works off every Bull queue. There is no
`$transaction` anywhere in `src/`: a handler is a sequence of single Prisma
statements, each atomic, with an `await` between them at which every other
handler of every replica may run. This shapes all the models: **one Prisma call
is one step**, and what a handler has read is a stale copy from then on.

## 1. Inventory

| Component | Source | State | Operations that change it |
|---|---|---|---|
| Staking | `modules/staking/staking.service.ts` | `stake_positions`, `penalty_transactions`, `program_states.totalRewardPool` | `stakeTokens`, `unstakeTokens`, `finalizeUnstake` |
| Cooldown finalizer | `workers/processors/cooldown-finalizer.processor.ts` | `stake_positions` | hourly job |
| Reward distribution | `workers/worker.service.ts`, `processors/reward-distribution.processor.ts`, `redis/redis.module.ts` | Bull queue, `stake_positions.lastRewardTs`, `program_states.currentEpoch` | weekly cron on each replica, manual trigger, the job with retries |
| Pause switch | `modules/admin/admin.service.ts` | `program_states.isPaused` | `pauseProgram`, `unpauseProgram` |
| Reward claims, vesting | `modules/rewards/rewards.service.ts` | `reward_nfts`, `stake_positions.lastClaimTs/lastRewardTs` | `claimRewards`, `vestReward` |
| Reward pool, revenue | `modules/admin/admin.service.ts` | `totalRewardPool`, `revenue_transactions`, `cashback_pools` | `replenishRewardPool` (`recordRevenueReplenishment` has no caller) |
| Idempotency | `common/middleware/idempotency.middleware.ts` | `idempotency_records` | around every keyed POST |
| Cashback | `modules/cashback/cashback.service.ts` | `cashback_pools`, `cashback_transactions` | `initializePools`, `fundPools`, `distributeCashback` |
| Discount | `modules/discount/discount.service.ts` | `staking_snapshots` | daily cron on each replica |
| Referral | `modules/referral/referral.service.ts` | `referrals`, `device_fingerprints` | `createReferral`, `payWelcomeBonus` (`distributeReferralRewards` has no caller) |
| Compliance | `modules/compliance/compliance.service.ts` | `compliance_status` | `addToAllowlist`, `addToDenylist`, `removeFromList`, `syncAllowlist` |
| Authentication | `modules/auth/*` | `users`, `sessions` | `verify` (login), `validateSession` with expiry behind every guard, `revokeSession` (logout) |
| Event indexer | `modules/indexer/indexer.service.ts` | `events`; the subscription, its flag and the reconnect counter in memory | `startIndexer`, `stopIndexer`, `handleLogs` with the finality update, `handleReconnect` |
| Indexer sync | `processors/indexer-sync.processor.ts` | `events`; `lastProcessedSlot` in memory | a job every two minutes, queued by each replica |
| Transaction retry | `processors/transaction-retry.processor.ts` | none reachable | nothing ever enqueues it |
| Insights | `modules/insights/insights.service.ts` | none | reads; `getRewardPreview` repeats the arithmetic of a claim |
| Program info, tiers, health, observability, HTTP layer, scripts | the rest | none, or single-row CRUD | reads |

How they meet. Staking, claims, distribution and finalizer all write
`stake_positions`, each a different set of columns, by primary key and without
looking at the row again. Staking, revenue and replenishment write one counter,
`totalRewardPool`: two by SQL increment, one by an absolute value it computed.
The distribution and the claims read that counter once each, early.
The distribution reads the pause switch that admins set. The idempotency
middleware stands in front of every mutating endpoint. The queue couples the
crons of all replicas with the workers of all replicas. The session check stands
in front of the guarded endpoints, so that a login, a logout and the calls that
they admit overlap. The live subscription and the sync job of every replica fill
one table of events and know of each other only through it.

What is hard, and what makes each component correct:

* **Staking.** The guards of `unstakeTokens` test a row that was read three
  statements before the update. What must survive overlapping requests: a
  position is opened, unstaked and settled once each and never comes back; a
  staker gets a whole cooldown; nothing is withheld without an audit row;
  penalties are charged only for a running lock; the pool and the audit table
  agree; a charged staker gets into the cooldown.
* **Distribution.** Queued by every replica, retried from the start over
  half-stamped positions, running against a pause. Epochs must not be invented,
  an epoch must mean that every position was stamped, timestamps must not go
  back further than a run lasts, a pause must take effect, the queue must drain.
* **Claims.** A claim pays from `lastRewardTs`, which the distribution moves
  under it. The seven-day wait is tested on a row that was read, and the
  timestamps that should stop the next claim are written last, after the NFT.
  Receipts must never change or be worth nothing; a week must not be paid twice,
  and where the code lets that happen, by claims that overlap or are cut short,
  it must not go further than that.
* **Reward pool.** No order of absolute writes and increments may make money;
  what can be lost must be confined to the window of a replenishment; what the
  audit table says must have moved.
* **Idempotency.** At most one run for a key, under concurrent repeats, failing
  statements and crashes; no request blocked by a dead one; no replay of another
  body's response.
* **Cashback.** A payment is measured with a balance that was read before and
  then sent as a decrement; nothing makes a pool's row unique. Over all rows the
  balances and the journal must add up, and an overdraft must stay bounded.
* **Sessions.** A login stores its session two statements after it looked for
  the user, an expired session is deleted by whoever finds it, and a logout
  deletes while other requests look. A token whose logout went through must never
  pass the guard again.
* **Referral.** A referral is found and then created, a bonus is tested on a row
  that was read and then marked by wallet. The first referrer has to stay, and
  the bonus may be promised at most as often as calls can be in flight.
* **Compliance.** Allowing a wallet looks and then upserts. A denial may only be
  undone by a call that looked before it, or by the bulk import.
* **Indexer.** Two writers look and then create; one of them also finalizes. A
  transaction has one event, that never goes back and is not finalized before the
  chain; a failed signature is not forgotten by the sync; starts, stops,
  reconnects and failures do not pile up subscriptions.
* **Discount.** Every replica takes the daily snapshot, the endpoint takes more,
  and jobs overlap and are cut short. The discount has to be one that an amount
  held in the period has earned.

`PROJECT.json` lists the hazards at their lines and the properties that cover
them; those that no property covers carry a note saying why.

## 2. Modules and the code they stand for

```
StakingMath        pure arithmetic of power, penalty, reward and preview
Sums               the sum of a function over a finite set, by counting
PositionLifecycle  abstract: what a position is to its owner
Staking            EXTENDS StakingMath, Sums; implements PositionLifecycle
RewardPool         EXTENDS Sums; the money that several components add to
Distribution       EXTENDS StakingMath; queue, workers, pause switch
Rewards            EXTENDS Distribution; claims and vesting, the same rows
Idempotency        the middleware and the handler behind it
Cashback           the cashback pools, their funding and the payments
EventLog           abstract: what the events table promises its readers
Indexer            live logs, sync jobs and the service; implements EventLog
Requests           users, session check and requests in flight
Sessions           EXTENDS Requests; login, guard, logout
Referral           EXTENDS Requests; referrals, devices, welcome bonus
Compliance         EXTENDS Requests; allowlist, denylist, bulk import
Accounts           EXTENDS Sessions, Referral, Compliance; their composition
Snapshots          daily snapshots, average and discount
MC*                instances for TLC
SumsProofs         lemmas about sums, averages and division
StakingProofs, RewardPoolProofs, IdempotencyProofs, IndexerProofs,
AccountsProofs     theorems about the module of that name
RewardsProofs      theorems about Distribution, Rewards and StakingMath
BenefitsProofs     theorems about Cashback and Snapshots
```

Each proof module begins with the inductive invariants of its component, so that
the modules above hold what is translated from the code and what is claimed of
it, and nothing else.

**Names.** A handler is split into actions at its awaits and named after the
handler and the statement: `UnstakeRead`, `UnstakePenalty`, `UnstakeCredit`,
`UnstakeWrite` are `unstakeTokens`. The request's `pc` is the name of the next
statement. A refused request writes nothing and is not a step; its condition is
the guard of the first action. Definitions whose name ends in `_Something` and
whose comment says MUTANT are plausible bugs; they are not part of the
specification and exist so that each property can be shown to fail on one.

**StakingMath.** `PowerMultiplier`, `PenaltyAmount`, `WeeklyEmission`,
`ApyCap`, `ProRataReward`: the code's expressions, floors included. JavaScript
numbers and `BigInt` are mathematical integers here: the code computes with
floating point numbers, and what is checked and proved is its result as long as
every product stays below 2^53. `YearBp` is the code's `52 * 10000`. What the
arithmetic has to satisfy is stated of the rows and requests of `Rewards`
(`CapHolds`, `SplittingNeverPays`, `PreviewCoversClaim`), and for the power of a
stake as the theorem `PowerAlwaysGrows`.

**Sums.** A sum over rows, as an SQL `SUM` or a `reduce` forms it, is defined as
the number of its units (`Cardinality` of the pairs of a row and a unit of its
value, the negative ones apart) instead of by recursion: the prover has no
induction over data, but it has the cardinality of finite sets, and from that
`SumsProofs` derives what one more row or one changed value does to a sum.
`MCCashback` assumes that it agrees with a fold on all small functions, and TLC
evaluates that assumption.

**PositionLifecycle** (abstract, 47 lines): each position is `none`, `active`,
`cooling` or `withdrawn`, moves only forward, and its principal is set once and
released once.

**Staking.** Variables `position`, `penaltyTx`, `pool`, `clock` and the request
slots. Inputs: any address, amount, tier and lock. `pool` may be `Null`, since
no code creates the `program_states` row and the handlers test for it. `paidOut`
is the principal that replies have reported. `Abort` ends a request after any
statement, for a thrown error or a dead replica. `FinalizerRun` is the hourly
job with its query as written. The finalizer's later writes to the totals are
not there: `FinalizerSelectsNothing` proves that the query has no result.

**RewardPool.** One balance, one revenue audit sum, two cashback sums.
`ReplenishRead`/`ReplenishWrite` keep the read value in between; revenue is the
audit row followed by its three increments, with the silent skips when the
program row or the cashback rows are missing; `PenaltyCredit` is the only
statement of `unstakeTokens` that the pool sees. `contributed` and `exposed` are
book-keeping of the specification (a contribution is exposed when it reaches the
pool inside another request's replenishment window).

**Distribution.** `waiting` counts the jobs in the queue by attempts and
stalls, which is all that Bull distinguishes; `worker` is the processor of each
replica (Bull's concurrency of 1); `completed` counts the runs that wrote an
epoch. `ScheduleWeekly` fires once per replica and
week. A run is `JobRead`, `JobFind`, one `JobStamp` per position with a positive
share of the pool that `JobRead` copied, `JobEpoch`. `PoolChanges` sets
`totalRewardPool` to any of its values at any moment: it stands for the credits
of unstakes and for top-ups, whose own statements are in `RewardPool`. `JobFail` retries up to the configured attempts, `JobStall`
is a dead replica whose job Bull hands over once; both are the library's
behaviour, modelled from how `redis.module.ts` configures it. Backoff is not
timed: a retry may come at any moment, which includes the configured delays.
`SwitchRead`/`SwitchWrite` are pause and unpause.

**Rewards.** Extends the distribution with `reward_nfts` and claim requests:
`ClaimRead` (position, the seven-day wait), `ClaimState` (program row, weeks,
amount), `ClaimCreate` (the NFT, unique by seed), `ClaimUpdate` (both
timestamps), `VestRead`/`VestWrite`, `ClaimAbort`. `Worth` is
`calculateProRataReward` with the program's row of that moment. The column
`weeks` of an NFT is what the reply says, and `unsettled` is history: the NFTs
whose claim was cut short between the NFT and the timestamps. From the vesting
time of an NFT follow the time its claim computed with (`ClaimedAt`) and the time
from which it was paid (`PaidFrom`).

**Idempotency.** `record` by key, requests at `lookup`, `create`, `refind`,
`handler`, `respond`, and `store`, the update that the overridden `res.json`
starts and nobody waits for. The handler behind is one step. Every statement may
throw (`FindFails`, `CreateFails`, `StoreFails`) and every request may die
(`Crash`). A client's retry is another request with the same key. Records are
never deleted: no code in `src/` deletes them.

**Cashback.** `balance` by kind of pool and by pair of rows: `initializePools`
looks for rows and then adds a pair, so that two requests at once add two, and
every later `findFirst`, which has no order, may return either (`\E i \in pairs`
in `FundRead`, `FundFind`, `DistributeRead`, `DistributeFind`). A funding is
find, increment, find, increment; a payment is find, find, and a `Debit` and a
`Record` for each kind, the bonus pool first, with the amounts fixed when the
rows were read. `debits` is the sum of the journal, `funded` what was added.
The thirty snapshots are abstracted to their average, in the units that
`calculateCashbackPercentage` compares with. `recordRevenueReplenishment` funds
the same rows; its increments are among those of `fundPools`.

**Indexer.** `chain` is what the program's transactions are on the chain, and
external: slots go by (`Advance`), transactions land and are notified to the
subscriptions that are live (`Land`), and are finalized in order. Of
`lastProcessedSlot` the code uses only the distance to the current slot, so the
distance is the state (`behind`). A job is `SyncStart` (the slots), `SyncPage`
(`getSignaturesForAddress`), and for each signature `SyncFind` and `SyncCreate`,
or `SyncSkip` for a call that throws; `SyncEnd` moves the cursor. A notification
is handled by `LiveFind`, then `LiveStatus` and `LiveFinalize` or `LiveCreate`,
and `LiveFail`. `stopIndexer` is split at the await of the removal
(`StopIndexer`, `Stopped`), during which `isRunning` is still true. A start runs
up to its first await at once and is one step. `minContextSlot` is no filter:
the RPC node answers with the newest signatures, and this is what `Page` says.
`excused` counts the stops that failed or overlapped another one.

**Requests, Sessions, Referral, Compliance, Accounts.** One set of request slots
over one database. `Check` admits a request if the token's session row is
there and has not expired, and deletes one that has in a statement of its own
(`Expire`); an admitted request then runs any of the guarded handlers.
`createReferral` has no guard. Tokens are model values that are drawn up once;
signatures and the JWT library are external, and a token lives as long as the
library's reading of `expiresIn`. `overtaken`, `revoked` and `bonuses` are
history. `Abort` ends a request after any statement.

**Snapshots.** `staked` is the sum of a wallet's active positions and changes at
any time, `held` is its history by day. Amounts are in a unit of which `Billion`
make the divisor of the discount, so that a wallet can hold less than one
billion and still have its row. A job groups, looks up a user and
creates a row for each wallet, and then cleans up old rows. `Average` divides by
the number of rows that are found, as the code does: a day counts once for every
job that ran on it, and days without a stake have no row.

**RequestLifetime.** Staking and Distribution have one assumption about time: no
handler or run is alive for longer than `RequestLifetime` ticks, less than half
of the cooldown, and in Rewards less than half of the week between claims
(`WaitAssumption`). Cooldown and week are days; a handler is a handful of
statements behind HTTP and connection timeouts. Without it a request that sleeps through a
whole cooldown could write over a settled position, and the code has nothing
against that; several properties are stated *up to one lifetime* so that they
say exactly how much staleness can cost. `MaxRun` in Snapshots is the same for a
snapshot job, in days.

## 3. Runs

| Run | Instance | What it checks |
|---|---|---|
| `staking` | one position, three handlers at once, one cut short, 6 ticks | `RefinesLifecycle`, the safety and action properties of the life of a position, `PoolLedger`, `ChargesEndWithOverlap`, and under fairness `ChargedIsUnstaked` |
| `reward_pool` | three requests, four contributions, one cut short | `PoolIsBacked`, `LossIsExposed`, `RevenueIsRecorded`, with and without a program row |
| `distribution` | two positions, two replicas, two firings of the cron, one failure or crash, one change of the pool | `EpochIsSupported`, `EpochMeansStamped`, `BoundedRegression` |
| `distribution_pause` | one position, two replicas, a manual trigger, a pause and an unpause, one failure or crash | `PauseDrains`, and under fairness `JobsDrain` |
| `rewards` | one position, three NFT seeds, two claims or vests at once, one cut short, over the cron | `WeeksPaidOnce`, `DoublePayBounded`, `ClaimsPay`, `CapHolds`, `SplittingNeverPays`, `NftKeepsTerms`, `PreviewCoversClaim` |
| `rewards_overlap` | two claims at once, none cut short | finding: overlapping claims of one position are both paid, for the same weeks |
| `rewards_credit` | one claim slot | finding: the weekly job takes accrued weeks away without paying |
| `idempotency` | three requests, two keys, two bodies, two failing statements, one crash | `AtMostOneRun`, `ExtraRunsAreFaults`, `ReplayFitsBody`, `StoredIsFinal`, and under fairness `EveryRequestIsAnswered` |
| `cashback` | three requests, four fundings and payments, one cut short | `BooksClose`, `OverdraftBounded` |
| `indexer` | one replica, two transactions of which one failed, a page of one, two stops, a start, a failing call, a replacement | `RefinesEventLog`, `SubscriptionsBounded`, and under fairness `TransactionsAreIndexed` |
| `accounts` | two requests at a time and six in all, two wallets, two tokens, one cut short | `LogoutIsFinal`, `ReferrerIsFinal`, `DenialHolds`, `BonusBounded` |
| `snapshots` | two jobs that may overlap, a window of one day, one cut short | `DiscountIsEarned` |

`rewards_overlap` and `rewards_credit` each check a statement of the repository
that the code does not keep; `PROJECT.json` quotes it. `WeeksPaidOnce` and
`DoublePayBounded` in `rewards` are what is left of the first: with overlapping
claims allowed, they say where a week can be paid twice and how often.

**What the passing runs add up to.** The overlaps in staking cost at most money
that is recorded (several penalties for one position) and never a second life,
a short cooldown or an early release. Replenishment is the only writer that can
lose money, and only what arrives within its window: a top-up that overlaps an
unstake's penalty overwrites it. A cashback pool can go below zero, by at most
one largest payment for each other request in flight, and no refill of it is
ever lost. Of the claims of a position that overlap each may be paid for the same
weeks, at most as many as there are handlers in flight: the first to write its
timestamps stops all that come after. A distribution may lose an
epoch to another but never counts one it has not stamped. The middleware runs a
key's handler twice only past a failing table. The welcome bonus can be promised
once for each call in flight, since nothing but the read row stops the second. A
denial is safe against everything but a call that looked before it and the bulk
import. The events table is right whatever the order of its writers, since every
write is either guarded by the unique signature or can only be repeated.

**Where code and wording differ.** Besides the two findings, these were met while
modelling and are built into the modules as the code has them. The hourly
finalizer selects no row (`FinalizerSelectsNothing`): it asks for active
positions in a cooldown, and `unstakeTokens` makes a position inactive in the same update
that starts the cooldown. A repeat that comes before the response is stored is
answered with status 200 and the placeholder `{}`. `revokeSession` swallows a
failing delete, and the logout is answered all the same. `minContextSlot` in the sync
job filters nothing, which is what lets it recover failed signatures. An event is
finalized only when a second notification of its signature arrives. The
thirty-day average is one over the snapshots that exist, so that days without a
stake do not lower it and a day counts once for every job.

**Bounds.** They are constants, named in the modules: `MaxTime`, `MaxAborts`,
`MaxCredits`, `MaxTriggers`, `MaxSwitches`, `MaxFaults`, `MaxCrashes`. Three
slots in `staking` are one more than any race here needs (two unstakes and a
settlement); with a cooldown of 3, a lifetime of 1 and a lock of 3 the clock's 6
ticks reach unstakes before, at and after the unlock time, a settlement after
the first two, and a charge that would come too late. The penalty is odd, so that
its halves lose a unit. In `distribution` two positions let a failed run leave one stamped and the
other not, and the second firing lets a run of one week overlap one of the next;
the small pool leaves one of the positions without a share until the change,
which falls between any two statements of a run. There the total power has one
value; in `distribution_pause` it is also zero.
In `distribution_pause` both crons and the trigger give three jobs within the
two ticks that `PauseDrains` needs; one admin suffices to pause and to unpause
between any two statements of a run. In `rewards` two slots are two claims that
overlap, two vests, or one of each, and three seeds let a third claim follow two
that overlapped, which is what `DoublePayBounded` excludes in time; a week of 3
and 6 ticks give each claim a successor a week later. There the pool is constant
(`MaxPoolChanges` is 0), since no step but `ClaimState` looks at it and its
arithmetic is proved for every pool. One fault is enough for a retry over half-stamped positions; in
`idempotency` two faults can meet in one key. In `cashback` three requests are
what it takes for two of them to open two pairs of pools and for three payments
to meet in one row; fundings are chosen so that the balance reaches the bound
exactly. In `indexer` one replica already has all the pairs of writers (its live
handler and its job), a page of one lets a newer transaction push another one
out of reach, and two stops with one failing removal reach every way to leave a
subscription behind; more replicas are covered by the proofs. In `accounts` two
slots are what a race of two statements needs, and six requests let a login, a
logout and a guarded call follow each other around a race. In `snapshots` two
jobs overlap each other and a change of the stake; the amounts lie around the
thresholds of the discount. In `rewards` the pool gives a weekly share of 210,
which the cap cuts to 7.

**Fairness.** Three kinds, none on the arrival of a request: a request whose
statement has returned is resumed by the event loop (`Continue`, `Progress`,
`Run`, `SyncWork`); Bull gives a waiting job to an idle worker (`Run`), for the
sync job to some replica, not to each (`\E r : SyncStart(r)`); the cron, the
clock and the chain go on (`FinalizerRun`, `Tick`, `Advance`). All are weak
fairness. Notifications get none: `TransactionsAreIndexed` holds without them.

**Deadlock.** The bounded clock and the bounded numbers of requests stop most
models at the end of their instance, which the program does not do: these
configurations say `CHECK_DEADLOCK FALSE`. `Staking` and `Indexer` are checked
for deadlock: the finalizer can always run, and slots always go by.

## 4. Proofs

The theorems hold for all values of the constants that satisfy the named
assumptions, so for any number of replicas, requests, positions and keys. The
assumptions are the types of the inputs, that slots and rows are finitely many
(`FiniteAssumption`, `NftAssumption`, `RequestAssumption`, `WalletAssumption`:
sums and counts are over them), that `Null` is no row, and the one on time
(`PeriodAssumption`, see RequestLifetime above). Every safety and every action
property that a passing run checks is a theorem. The inductive invariants were
checked by TLC on the instances of the runs before they were proved.

*StakingProofs* — `TypeCorrect`, `WithholdingIsRecorded`, `ReportsAreSettled`,
`CooldownIsFull`, `WithdrawalIsCooled`, `PenaltyIsEarly`, `ChargesEnd`,
`Refinement`, `FinalizerSelectsNothing`, `PoolMatchesLedger`. The invariants are
not inductive on their own: an unstake in flight writes what it read long ago.
`IInv` adds what is true of each slot. An unstake in flight (`Unstaking`) sees
its position still active or in a cooldown that began at most one lifetime
before its own `now`; since the cooldown is longer than two lifetimes
(`PeriodAssumption`), the cooldown cannot end while the request lives, so no
settlement comes between its read and its write. That is the whole reason why an
unconditional update does not revive a settled position, and it needs the
assumption on time. The refinement theorem maps each statement to a step of
`PositionLifecycle` or to a stutter. `PoolLedger` only speaks of moments at which
no penalty waits for its credit; `LedgerInv` says at every moment that the pool
and what is due to it (`AllDue`, a sum over the requests) are the initial pool
and what is recorded (`AllRecorded`, a sum over the positions and their rows).

*RewardPoolProofs* — `TypeCorrect`, `PoolBacked`, `LossExposed`,
`RevenuesAreRecorded`. The strengthening says that the value a replenishment has
read obeys the same bounds as the pool itself, for as long as it is in flight.
`RevenueInv` adds to the cashback pools what the revenues in flight have recorded
and not moved yet.

*IdempotencyProofs* — `TypeCorrect`, `RunsOnce`, `ReplaysFit`,
`ResponsesAreFinal`, `ExtraRunsNeedFaults`. The invariant says that the row of an
owner is still its own (`OwnerInv`, from the unique index and the absence of
deletes), that a stored response is that of a run with the row's key
(`ResponseInv`), and what each stage of a request has not done yet (`StageInv`).
`FaultInv` counts the requests without a row of their own when they get to the
handler instead of when it has run: each cost one fault of the table.

*BenefitsProofs, cashback* — `TypeCorrect`, `OverdraftIsBounded`,
`BooksAlwaysClose`, for any number of requests, rows, fundings and payments. Call
the requests that have read a row for a payment and not yet taken it the row's
claimants, `n` of `N` requests. The bound `balance >= -(N-1) * MaxDue` is not
inductive, since it says nothing of the claimants' coming debits. `Covered` does:
either the balance would cover one more payment after the `N - n` other requests'
largest ones, or some claimant's own payment is so covered. A claimant that joins
has just seen the balance and is the witness; one that leaves takes at most
`MaxDue`, which the decrease of `n` makes up for. `BookInv` adds to the books
what requests have taken and not recorded yet; a row that is not there yet has
nothing in it (`PairInv`), so that opening one leaves the sum as it is.

*BenefitsProofs, snapshots* — `SnapshotsTypeCorrect`, `AveragesAreOfHeld`,
`DiscountsAreEarned`. Every row an average is made of is an amount that was held
in the period or within a run before it. An average lies between two of the
values it is made of (`AverageBetween`), and the percentage rises with the
amount, so the discount is one that a held amount earns.

*RewardsProofs, distribution* — `DistributionTypeCorrect`, `RegressionIsBounded`,
`PauseIsEffective`, `EpochIsStamped`, `EpochsAreSupported`. `DistributionInv` says
that a run is younger than a lifetime, that it began before the pause that is in
force, and (`Looped`) that whatever it has behind it was stamped or opened since
it looked: that is what makes an epoch mean that everybody was stamped, though
other runs and new stakes write the same rows. `EpochInv` extends the bound on
the epoch to the copies that runs in flight have read.

*RewardsProofs, claims* — `TypeCorrect`, `ReceiptsPay`, `CapAlwaysHolds`,
`SplittingNeverGains`, `PreviewsCoverClaims`, `NftTermsAreKept`. `IInv` says that
what a request counted its weeks from lies before its own time (`ClaimInv`), and
that every NFT, and every reward that waits for its create, pays for at least a
week and within the cap (`Worthy`).

*RewardsProofs, times* — `PayInvariant`, `WeeksArePaidOnce`, `DoublePayIsBounded`.
Claims of a position may overlap and be cut short anywhere, and distributions
write the same row. `PayInv` says of a claim in flight and of every NFT that the
time from which it is paid comes after all paid and settled claims that were more
than a lifetime before its own (`Follows`); a claim that was settled has left
both timestamps at most a lifetime behind it, whatever stale stamp or claim has
overwritten them since (`PaidInv`); and one whose timestamps are still to be
written is young, so that it overlaps everything that could miss it
(`SettlingIsYoung`). `Crowd` bounds the double payments: the NFTs of one lifetime
and the claims that may still become one are no more than the slots. A new claim
could only break that if some NFT of its own lifetime had been settled, and then
`lastClaimTs` makes it wait, since a week is longer than two lifetimes
(`WaitAssumption`); so each of those NFTs still occupies a slot of its own
(`SlotsSuffice`).

*RewardsProofs, arithmetic* — what the claims rest on, for all pools, stakes,
weeks and months, from what a quotient of naturals lies between: `RewardIsCapped`,
`RewardSplits`, `RewardIsPreviewed`, and the theorem `PowerAlwaysGrows`. They are
about exact integers (see StakingMath).

*IndexerProofs* — `TypeCorrect`, `SubscriptionsAreBounded`, `Refinement`, for any
number of replicas, transactions, calls and failures. For the refinement the
invariant (`TableInv`) keeps that whatever is in flight has landed, and that what
is about to be finalized is stored and final on the chain, which stays true under
every step of the others since nothing goes back. `SubscriptionsBounded` is not
inductive. `ServiceInv` counts the waiting stops together with the live
subscriptions and allows for both one for each excuse, one while `isRunning` and
one while some waiting stop is going to remove something: a start uses the
second, a stop trades it for the third.

*AccountsProofs* — `TypeCorrect`, `BonusIsBounded`, `LogoutsAreFinal`,
`DenialsHold`, `ReferrersAreFinal`. The invariant says that what a handler found
is still there for its next statement (`Kept`), that a revoked token has no
session and ids are never drawn twice (`SessionInv`), that the calls that may
still pay leave room for their promises (`BonusInv`), and that whoever goes on to
allow a denied wallet was overtaken by the denial (`Warned`).

*SumsProofs* — what a sum becomes when a row is added (`SumGrows`, `SumAppends`)
or a value changes (`SumChanges`), that a sum of zeros is zero and one of naturals
a natural, what bounds on the values say of the sum (`SumAtMost`, `SumAtLeast`)
and of the average, and what a quotient lies between (`DivFloor`).

Only model-checked: the liveness properties (`ChargedIsUnstaked`, `JobsDrain`,
`EveryRequestIsAnswered`, `TransactionsAreIndexed`) under the fairness they need,
which is out of the prover's reach; and that the sums by counting are those of a
fold.

## 5. Not modelled

* Transaction retry: unreachable, since nothing calls `addTransactionRetry`.
  `distributeReferralRewards`, `validateWallet` and `revokeAllUserSessions` have
  no caller either, and neither has `recordRevenueReplenishment`: the admin
  controller has no route to it, and no other class injects the service that the
  admin module exports. `RewardPool` has its statements all the same, since it is the code that
  ties the pool to the cashback pools; what `PoolIsBacked`, `LossIsExposed` and
  `RevenueIsRecorded` say of it holds as soon as somebody calls it, and its steps
  in the model are none that the running program takes today.
* Program info, tiers, health, observability, HTTP routing, DTO validation,
  scripts: reads, wording, wiring, single-row CRUD. Insights only reads; its
  preview is in `StakingMath`.
* What the RPC node, Bull, PostgreSQL and the JWT library do inside: they are
  modelled from how `src/` uses them and marked external.
* `totalStakingPower` and `totalStaked` are never increased by any code in
  `src/`; the seed script writes zero. The distribution and the claims read
  them, so the total is a constant of a behaviour, zero among its values. Since
  the column is not the sum of anything, nothing can be said of what all stakers
  together are paid: each claim is bounded by its own cap (`CapHolds`) and not by
  the emission of the week.
* On-chain effects: signatures and PDAs are computed or verified, but no handler
  sends a transaction.
* Tier changes by an admin during a stake: the tier is read once and only its
  existence matters to the row.
* Width: `BigInt` columns are 64 bit, amounts do not come near.

## 6. Plan

Every part of the code that changes shared state and has a caller is modelled,
and every safety property that a passing run checks is a theorem. In the order
of what they would add:

1. Theorems about the abstract specifications (`PositionLifecycle`, `EventLog`):
   what follows for the principal of a position, or for a finalized event, from
   the specification alone, and through the refinement for the code.
2. `BooksClose` and `RevenueIsRecorded` over one set of cashback rows, with a
   revenue and a funding at once.
3. A run of `indexer` with two replicas, once its state space is cut down by
   dropping the service's starts and stops from it.
