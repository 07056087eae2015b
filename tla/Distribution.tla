---------------------------- MODULE Distribution ----------------------------
(***************************************************************************)
(* The weekly reward distribution: worker.service.ts puts jobs on a Bull   *)
(* queue, reward-distribution.processor.ts works them off, one at a time   *)
(* on each replica, and the pause switch of admin.service.ts is to hold    *)
(* it.  Every replica runs its own cron.                                   *)
(*                                                                         *)
(* Every Prisma call is one step.  A job may fail at any of them, and Bull *)
(* then runs it again from its beginning, or its replica may die, and Bull *)
(* hands the stalled job to another one.  No run of a job and no admin     *)
(* request outlives RequestLifetime ticks of the clock.                    *)
(***************************************************************************)
EXTENDS Integers, FiniteSets, StakingMath

CONSTANTS Positions,        \* stake positions
          Replicas,         \* backend processes: each has a cron, a worker
          Admins,           \* slots for pause and unpause requests
          Power,            \* stakingPower of a position
          TotalPowers,      \* values program_states.totalStakingPower has
          InitialPool,      \* program_states.totalRewardPool at first
          PoolSizes,        \* values that it may have
          Week,             \* ticks between two firings of the cron
          MaxAttempts,      \* attempts of a job (redis.module.ts)
          RequestLifetime,  \* bound on the age of a run or a request
          MaxTime,          \* bound of the model: the clock's last tick
          MaxTriggers,      \* bound of the model: manual distributions
          MaxSwitches,      \* bound of the model: pause, unpause requests
          MaxPoolChanges,   \* bound of the model: credits and top-ups
          MaxFaults,        \* bound of the model: failures and crashes
          Null              \* a missing row

ASSUME PowerAssumption ==
    Power \in [Positions -> Nat] /\ TotalPowers \subseteq Nat
ASSUME PoolAssumption ==
    PoolSizes \subseteq Nat /\ InitialPool \in PoolSizes
ASSUME PeriodAssumption ==
    Week \in Nat \ {0} /\ MaxAttempts \in Nat \ {0} /\ RequestLifetime \in Nat
ASSUME BoundAssumption ==
    /\ MaxTime \in Nat /\ MaxTriggers \in Nat
    /\ MaxSwitches \in Nat /\ MaxPoolChanges \in Nat /\ MaxFaults \in Nat

VARIABLES clock,     \* seconds since the epoch, in ticks
          position,  \* stake_positions: a row or Null for each position
          program,   \* the row of program_states, or Null
          waiting,   \* jobs in the queue: how many of each kind
          worker,    \* the processor on each replica
          admin,     \* admin requests in flight
          fired,     \* the last tick on which a replica's cron fired
          completed, \* runs that wrote an epoch so far
          pausedAt,  \* when the last pause was written
          used       \* how much of the bounds is used up

queueVars == <<waiting, fired>>
bookVars  == <<completed, pausedAt, used>>
distributionVars ==
    <<clock, position, program, queueVars, worker, admin, bookVars>>

PositionRow == [isActive : BOOLEAN, startTs : Nat,
                lastRewardTs : Int, lastClaimTs : Nat]

ProgramRow == [isPaused : BOOLEAN, currentEpoch : Nat,
               totalStakingPower : TotalPowers, totalRewardPool : PoolSizes]

ASSUME NullAssumption == Null \notin PositionRow /\ Null \notin ProgramRow

(* A job has made some attempts that failed and has stalled some times;    *)
(* Bull gives up on a job that stalls twice (its maxStalledCount is 1).    *)
Job == [attempts : 0..(MaxAttempts - 1), stalled : 0..1]

NewJob == [attempts |-> 0, stalled |-> 0]

(* pc names the next statement of a run: "find" is the findMany, "loop"    *)
(* the update of one of todo or, when none is left, that of the epoch;     *)
(* epoch and pool are what it read of the program's row.                   *)
Worker == [pc : {"idle", "find", "loop"}, job : Job, epoch : Nat, pool : Nat,
           began : Nat, now : Nat, todo : SUBSET Positions]

IdleWorker == [pc |-> "idle", job |-> NewJob, epoch |-> 0, pool |-> 0,
               began |-> 0, now |-> 0, todo |-> {}]

(* How much of the model's bounds is used up. *)
Used == [triggers : Nat, switches : Nat, pools : Nat, faults : Nat]

Exists(p) == position[p] # Null
Active(p) == Exists(p) /\ position[p].isActive

WorkerFree(w) == worker[w].pc = "idle"
Finish(w) == worker' = [worker EXCEPT ![w] = IdleWorker]

Enqueue(j) == waiting' = [waiting EXCEPT ![j] = @ + 1]

DistributionTypeOK ==
    /\ clock \in Nat
    /\ position \in [Positions -> PositionRow \union {Null}]
    /\ program \in ProgramRow \union {Null}
    /\ waiting \in [Job -> Nat]
    /\ worker \in [Replicas -> Worker]
    /\ admin \in [Admins -> [pc : {"idle", "pause", "unpause"}, began : Nat]]
    /\ fired \in [Replicas -> Int]
    /\ completed \in Nat /\ pausedAt \in Nat
    /\ used \in Used

DistributionInit ==
    /\ clock = 0
    /\ position = [p \in Positions |-> Null]
    /\ \/ program = Null
       \/ \E total \in TotalPowers :
              program = [isPaused |-> FALSE, currentEpoch |-> 0,
                         totalStakingPower |-> total,
                         totalRewardPool |-> InitialPool]
    /\ waiting = [j \in Job |-> 0]
    /\ worker = [w \in Replicas |-> IdleWorker]
    /\ admin = [a \in Admins |-> [pc |-> "idle", began |-> 0]]
    /\ fired = [w \in Replicas |-> -1]
    /\ completed = 0 /\ pausedAt = 0
    /\ used = [triggers |-> 0, switches |-> 0, pools |-> 0, faults |-> 0]

(***************************************************************************)
(* stakeTokens, unstakeTokens and the writers of the pool, as this         *)
(* component sees them.                                                    *)
(***************************************************************************)

(* The create of a request that took its time, now, some statements ago.   *)
Opened(p, now) ==
    /\ ~Exists(p)
    /\ now <= clock /\ clock <= now + RequestLifetime
    /\ position' = [position EXCEPT ![p] =
           [isActive |-> TRUE, startTs |-> now,
            lastRewardTs |-> now, lastClaimTs |-> now]]
    /\ UNCHANGED <<clock, program, queueVars, worker, admin, bookVars>>

Closed(p) ==
    /\ Active(p)
    /\ position' = [position EXCEPT ![p].isActive = FALSE]
    /\ UNCHANGED <<clock, program, queueVars, worker, admin, bookVars>>

(* The credit of a penalty or the write of a top-up, at any moment.  What  *)
(* they make of the pool is the subject of RewardPool; a stale top-up can  *)
(* also make it less.                                                      *)
PoolChanges(size) ==
    /\ used.pools < MaxPoolChanges
    /\ program # Null
    /\ program' = [program EXCEPT !.totalRewardPool = size]
    /\ used' = [used EXCEPT !.pools = @ + 1]
    /\ UNCHANGED <<clock, position, queueVars, worker, admin, completed, pausedAt>>

(***************************************************************************)
(* worker.service.ts                                                       *)
(***************************************************************************)

(* The cron of every replica that is up fires at the start of a week.      *)
ScheduleWeekly(w) ==
    /\ clock % Week = 0 /\ fired[w] # clock
    /\ fired' = [fired EXCEPT ![w] = clock]
    /\ Enqueue(NewJob)
    /\ UNCHANGED <<clock, position, program, worker, admin, bookVars>>

TriggerWeekly ==
    /\ used.triggers < MaxTriggers
    /\ used' = [used EXCEPT !.triggers = @ + 1]
    /\ Enqueue(NewJob)
    /\ UNCHANGED <<clock, position, program, fired, worker, admin, completed,
                   pausedAt>>

(***************************************************************************)
(* Bull: what becomes of a job whose run did not return.                   *)
(***************************************************************************)

(* MUTANT of Retried: a failed attempt is not counted. *)
Retried_Uncounted(queue, j) == [queue EXCEPT ![j] = @ + 1]

(* The queue after a failure of job j, which is dropped after the last. *)
Retried(queue, j) ==
    IF j.attempts + 1 < MaxAttempts
    THEN [queue EXCEPT ![[j EXCEPT !.attempts = @ + 1]] = @ + 1]
    ELSE queue

(* The queue after the replica that ran job j has died. *)
Recovered(queue, j) ==
    IF j.stalled = 0 THEN [queue EXCEPT ![[j EXCEPT !.stalled = 1]] = @ + 1]
    ELSE queue

(***************************************************************************)
(* handleWeeklyDistribution                                                *)
(***************************************************************************)

(* MUTANT of Held: the switch is not looked at. *)
Held_Never(row) == FALSE

Held(row) == row.isPaused

(* MUTANT of JobRead: the new epoch is written before the positions. *)
JobRead_EpochFirst(w, j) ==
    /\ WorkerFree(w) /\ waiting[j] > 0
    /\ LET rest == [waiting EXCEPT ![j] = @ - 1]
       IN  IF program = Null THEN waiting' = Retried(rest, j) ELSE waiting' = rest
    /\ IF program = Null \/ (program # Null /\ Held(program))
       THEN UNCHANGED <<worker, program>>
       ELSE /\ program' = [program EXCEPT !.currentEpoch = @ + 1]
            /\ worker' = [worker EXCEPT ![w] =
                   [IdleWorker EXCEPT !.pc = "find", !.job = j, !.began = clock,
                                      !.epoch = program.currentEpoch,
                                      !.pool = program.totalRewardPool]]
    /\ UNCHANGED <<clock, position, fired, admin, bookVars>>

(* Take a job and read the state: without a row the attempt fails, and     *)
(* when the program is paused the job is done.                             *)
JobRead(w, j) ==
    /\ WorkerFree(w) /\ waiting[j] > 0
    /\ LET rest == [waiting EXCEPT ![j] = @ - 1]
       IN  IF program = Null THEN waiting' = Retried(rest, j) ELSE waiting' = rest
    /\ IF program = Null \/ (program # Null /\ Held(program))
       THEN UNCHANGED worker
       ELSE worker' = [worker EXCEPT ![w] =
                [IdleWorker EXCEPT !.pc = "find", !.job = j, !.began = clock,
                                   !.epoch = program.currentEpoch,
                                   !.pool = program.totalRewardPool]]
    /\ UNCHANGED <<clock, position, program, fired, admin, bookVars>>

(* The active positions, and only then the time.  The total power has no   *)
(* writer, so it is still what the run read.                               *)
JobFind(w) ==
    LET found == {p \in Positions : Active(p)}
    IN  /\ worker[w].pc = "find"
        /\ IF found = {}
           THEN Finish(w)
           ELSE worker' = [worker EXCEPT
                    ![w].pc = "loop", ![w].now = clock,
                    ![w].todo = {p \in found :
                        SharePositive(worker[w].pool, Power[p],
                                      program.totalStakingPower)}]
        /\ UNCHANGED <<clock, position, program, queueVars, admin, bookVars>>

(* MUTANT of RewardTs: the start of the week that is paid, not its end. *)
RewardTs_WeekAgo(now) == now - Week

RewardTs(now) == now

(* One turn of the loop; its update does not re-read the position. *)
JobStamp(w, p) ==
    /\ worker[w].pc = "loop" /\ p \in worker[w].todo
    /\ position' = [position EXCEPT ![p].lastRewardTs = RewardTs(worker[w].now)]
    /\ worker' = [worker EXCEPT ![w].todo = @ \ {p}]
    /\ UNCHANGED <<clock, program, queueVars, admin, bookVars>>

(* MUTANT of JobEpoch: the epoch is written while the loop still runs. *)
JobEpoch_NotAwaited(w) ==
    /\ worker[w].pc = "loop"
    /\ program' = [program EXCEPT !.currentEpoch = worker[w].epoch + 1]
    /\ completed' = completed + 1
    /\ Finish(w)
    /\ UNCHANGED <<clock, position, queueVars, admin, pausedAt, used>>

(* The epoch is the one that was read, plus one. *)
JobEpoch(w) ==
    /\ worker[w].pc = "loop" /\ worker[w].todo = {}
    /\ program' = [program EXCEPT !.currentEpoch = worker[w].epoch + 1]
    /\ completed' = completed + 1
    /\ Finish(w)
    /\ UNCHANGED <<clock, position, queueVars, admin, pausedAt, used>>

Fault == /\ used.faults < MaxFaults
         /\ used' = [used EXCEPT !.faults = @ + 1]

(* A statement of the run throws; the processor rethrows. *)
JobFail(w) ==
    /\ ~WorkerFree(w) /\ Fault
    /\ waiting' = Retried(waiting, worker[w].job)
    /\ Finish(w)
    /\ UNCHANGED <<clock, position, program, fired, admin, completed, pausedAt>>

(* The replica dies within the run. *)
JobStall(w) ==
    /\ ~WorkerFree(w) /\ Fault
    /\ waiting' = Recovered(waiting, worker[w].job)
    /\ Finish(w)
    /\ UNCHANGED <<clock, position, program, fired, admin, completed, pausedAt>>

(***************************************************************************)
(* pauseProgram and unpauseProgram: check, then set.                       *)
(***************************************************************************)

SwitchRead(a, to) ==
    /\ admin[a].pc = "idle" /\ used.switches < MaxSwitches
    /\ program # Null
    /\ program.isPaused = (to = "unpause")
    /\ admin' = [admin EXCEPT ![a] = [pc |-> to, began |-> clock]]
    /\ used' = [used EXCEPT !.switches = @ + 1]
    /\ UNCHANGED <<clock, position, program, queueVars, worker, completed, pausedAt>>

SwitchWrite(a) ==
    /\ admin[a].pc # "idle"
    /\ program' = [program EXCEPT !.isPaused = (admin[a].pc = "pause")]
    /\ pausedAt' = IF admin[a].pc = "pause" /\ ~program.isPaused
                   THEN clock ELSE pausedAt
    /\ admin' = [admin EXCEPT ![a].pc = "idle"]
    /\ UNCHANGED <<clock, position, queueVars, worker, completed, used>>

(***************************************************************************)
(* The environment                                                         *)
(***************************************************************************)

Young(began) == clock < began + RequestLifetime

DistributionTick ==
    /\ clock < MaxTime
    /\ \A w \in Replicas : WorkerFree(w) \/ Young(worker[w].began)
    /\ \A a \in Admins : admin[a].pc = "idle" \/ Young(admin[a].began)
    /\ clock' = clock + 1
    /\ UNCHANGED <<position, program, queueVars, worker, admin, bookVars>>

Run(w) == \/ \E j \in Job : JobRead(w, j)
          \/ JobFind(w)
          \/ \E p \in Positions : JobStamp(w, p)
          \/ JobEpoch(w)

(* All steps but those of the clock. *)
DistributionStep ==
    \/ \E p \in Positions : Closed(p) \/ \E now \in 0..clock : Opened(p, now)
    \/ \E size \in PoolSizes : PoolChanges(size)
    \/ \E w \in Replicas : ScheduleWeekly(w) \/ Run(w) \/ JobFail(w) \/ JobStall(w)
    \/ TriggerWeekly
    \/ \E a \in Admins : \/ \E to \in {"pause", "unpause"} : SwitchRead(a, to)
                         \/ SwitchWrite(a)

DistributionNext == DistributionStep \/ DistributionTick

DistributionSpec == DistributionInit /\ [][DistributionNext]_distributionVars

(* Bull hands a waiting job to any idle worker, and a run goes on as soon  *)
(* as its statement has returned.                                          *)
DistributionFairSpec ==
    DistributionSpec /\ \A w \in Replicas : WF_distributionVars(Run(w))

-----------------------------------------------------------------------------
(***************************************************************************)
(* Properties                                                              *)
(***************************************************************************)

(* An epoch is only counted for a run that went to its end: crashes,       *)
(* retries and runs that overlap may lose an epoch but never invent one    *)
(* (reward-distribution.processor.ts:78-86).                               *)
EpochIsSupported == program # Null => program.currentEpoch <= completed

(* When a run counts its epoch, every active position with a share of the  *)
(* pool that this run has read carries the timestamp of that run or of one *)
(* at most a lifetime older, whatever the other workers, new stakes, a     *)
(* changing pool and earlier failed attempts wrote meanwhile.  A position  *)
(* that only a credit since gives a share is left for the next week        *)
(* (reward-distribution.processor.ts:21, :45, :61-86).                     *)
EpochMeansStamped ==
    [][\A w \in Replicas :
           (WorkerFree(w)' /\ completed' # completed /\ ~WorkerFree(w)) =>
               \A p \in Positions :
                   (Active(p) /\ SharePositive(worker[w].pool, Power[p],
                                               program.totalStakingPower))
                   => position[p].lastRewardTs + RequestLifetime
                          >= worker[w].now]_distributionVars

(* Runs that overlap may set a position's lastRewardTs back, and with it   *)
(* what a claim pays, but by no more than the lifetime of a run            *)
(* (reward-distribution.processor.ts:43, :67-70).                          *)
BoundedRegression ==
    [][\A p \in Positions :
           Exists(p) => position'[p].lastRewardTs + RequestLifetime
                            >= position[p].lastRewardTs]_distributionVars

(* A pause is effective: once the program has been paused for longer than  *)
(* a run lives, no distribution touches a position or the epoch, though    *)
(* the switch is read once and early (reward-distribution.processor.ts:27).*)
PauseDrains ==
    [][(/\ program # Null /\ program.isPaused
        /\ clock > pausedAt + RequestLifetime)
       => /\ completed' = completed
          /\ \A p \in Positions : Exists(p) =>
                 position'[p].lastRewardTs = position[p].lastRewardTs
      ]_distributionVars

(* Every job comes to an end: it is completed or dropped, also when the    *)
(* state's row is missing and each attempt must fail                       *)
(* (redis.module.ts:19-24, reward-distribution.processor.ts:23-25).        *)
JobsDrain ==
    []<>(\A j \in Job : waiting[j] = 0 /\ \A w \in Replicas : WorkerFree(w))

=============================================================================
