---------------------------- MODULE RewardsProofs ----------------------------
(***************************************************************************)
(* Theorems about Distribution and Rewards.  The first part is about the   *)
(* distribution alone: its runs overlap, fail and are repeated, and still  *)
(* timestamps go back no further than a run lives, an epoch means that     *)
(* everybody was stamped and some run ended, and a pause is effective.     *)
(* The second is the arithmetic by which claims pay, the third what every  *)
(* NFT is worth, and the fourth the times for which claims are paid when   *)
(* they overlap, are cut short and meet the distribution.                  *)
(***************************************************************************)
EXTENDS Rewards, SumsProofs

-----------------------------------------------------------------------------
(***************************************************************************)
(* The distribution                                                        *)
(***************************************************************************)

(* A position has a share of the pool that the run of q has read.          *)
HasShare(q, p) == SharePositive(q.pool, Power[p], program.totalStakingPower)

(* A position that a run in its loop has behind it, or does not know, was  *)
(* stamped or opened since the run looked, or by a run just before.        *)
Looped(q) ==
    /\ q.began <= q.now /\ q.now <= clock
    /\ \A p \in q.todo : Exists(p)
    /\ \A p \in Positions \ q.todo :
           Active(p) /\ HasShare(q, p) => position[p].lastRewardTs + RequestLifetime >= q.now

(* A run is young, it began before the pause, and it has its row.          *)
WorkerInv(q) ==
    q.pc # "idle" =>
        /\ program # Null
        /\ q.began <= clock /\ clock <= q.began + RequestLifetime
        /\ program.isPaused => q.began <= pausedAt
        /\ q.pc = "loop" => Looped(q)

DistributionInv ==
    /\ DistributionTypeOK
    /\ \A p \in Positions : Exists(p) => position[p].lastRewardTs <= clock
    /\ \A w \in Replicas : WorkerInv(worker[w])
    /\ \A a \in Admins : admin[a].pc # "idle" => program # Null

(* Neither the row nor a run in flight has an epoch that no run wrote.     *)
EpochInv ==
    program # Null =>
        /\ program.currentEpoch <= completed
        /\ \A w \in Replicas : ~WorkerFree(w) => worker[w].epoch <= completed

LEMMA IdleWorkerIs ==
    /\ IdleWorker \in Worker /\ IdleWorker.pc = "idle"
    /\ IdleWorker.job = NewJob /\ IdleWorker.todo = {}
    /\ NewJob \in Job
  BY PeriodAssumption DEF IdleWorker, Worker, NewJob, Job

LEMMA DistributionInitInv == DistributionInit => DistributionInv
<1> SUFFICES ASSUME DistributionInit PROVE DistributionInv
  OBVIOUS
<1>1. DistributionTypeOK
  <2>1. program \in ProgramRow \union {Null}
    <3>1. \A total \in TotalPowers :
              [isPaused |-> FALSE, currentEpoch |-> 0, totalStakingPower |-> total,
               totalRewardPool |-> InitialPool] \in ProgramRow
      BY PoolAssumption DEF ProgramRow
    <3> QED
      BY <3>1 DEF DistributionInit
  <2>2. worker \in [Replicas -> Worker] /\ waiting \in [Job -> Nat]
    BY IdleWorkerIs DEF DistributionInit
  <2>3. completed \in Nat /\ fired \in [Replicas -> Int]
    BY DEF DistributionInit
  <2>4. /\ admin \in [Admins -> [pc : {"idle", "pause", "unpause"}, began : Nat]]
        /\ used \in Used
    BY DEF DistributionInit, Used
  <2>5. position \in [Positions -> PositionRow \union {Null}]
    BY DEF DistributionInit
  <2>6. clock \in Nat /\ pausedAt \in Nat
    BY DEF DistributionInit
  <2> QED
    BY <2>1, <2>2, <2>3, <2>4, <2>5, <2>6 DEF DistributionTypeOK
<1>2. \A w \in Replicas : WorkerInv(worker[w])
  BY IdleWorkerIs DEF DistributionInit, WorkerInv
<1>3. /\ \A p \in Positions : ~Exists(p)
      /\ \A a \in Admins : admin[a].pc = "idle"
  BY DEF DistributionInit, Exists
<1> QED
  BY <1>1, <1>2, <1>3 DEF DistributionInv

(* What the steps of this component do to the rows: none disappears, a     *)
(* timestamp that is written is young, and nothing becomes active again.   *)
RowsGoOn ==
    \A p \in Positions :
        /\ Exists(p) => Exists(p)'
        /\ Exists(p)' => position'[p].lastRewardTs <= clock'
        /\ Active(p)' => \/ Active(p) /\ position'[p].lastRewardTs = position[p].lastRewardTs
                         \/ position'[p].lastRewardTs + RequestLifetime >= clock'

(* The state's row keeps its total, and a pause is written at its time. *)
ProgramGoesOn ==
    program # Null =>
        /\ program' # Null
        /\ program'.totalStakingPower = program.totalStakingPower
        /\ program'.isPaused => \/ program.isPaused /\ pausedAt' = pausedAt
                                \/ pausedAt' = clock

(* One turn of a loop at most, or the end of a run. *)
RunGoesOn(q, next) ==
    \/ next.pc = "idle"
    \/ /\ next.pc = q.pc /\ next.began = q.began /\ next.now = q.now
       /\ next.pool = q.pool
       /\ next.todo \subseteq q.todo
       /\ \A p \in q.todo \ next.todo :
              Exists(p)' => position'[p].lastRewardTs + RequestLifetime >= clock'

LEMMA WorkerGoesOn ==
    ASSUME DistributionInv, DistributionTypeOK', RowsGoOn, ProgramGoesOn,
           clock <= clock', NEW w \in Replicas, RunGoesOn(worker[w], worker'[w]),
           clock' # clock /\ worker[w].pc # "idle"
               => clock' <= worker[w].began + RequestLifetime
    PROVE  WorkerInv(worker[w])'
<1> SUFFICES ASSUME worker'[w].pc # "idle" PROVE WorkerInv(worker[w])'
  BY DEF WorkerInv
<1>1. /\ worker[w] \in Worker /\ worker'[w] \in Worker
      /\ clock \in Nat /\ clock' \in Nat /\ pausedAt \in Nat
      /\ worker[w].pc # "idle" /\ WorkerInv(worker[w])
      /\ worker'[w].pc = worker[w].pc /\ worker'[w].began = worker[w].began
      /\ worker'[w].now = worker[w].now /\ worker'[w].pool = worker[w].pool
  BY DEF DistributionInv, DistributionTypeOK, RunGoesOn
<1>2. /\ program' # Null
      /\ worker'[w].began <= clock' /\ clock' <= worker'[w].began + RequestLifetime
  BY <1>1, PeriodAssumption DEF WorkerInv, ProgramGoesOn, Worker
<1>3. program'.isPaused => worker'[w].began <= pausedAt'
  BY <1>1 DEF WorkerInv, ProgramGoesOn
<1>4. ASSUME worker'[w].pc = "loop" PROVE Looped(worker[w])'
  <2>1. Looped(worker[w])
    BY <1>1, <1>4 DEF WorkerInv
  <2>2. worker'[w].began <= worker'[w].now /\ worker'[w].now <= clock'
    BY <1>1, <2>1 DEF Looped, Worker
  <2>3. \A p \in worker'[w].todo : Exists(p)'
    BY <1>1, <2>1 DEF Looped, RowsGoOn, RunGoesOn, Worker
  <2>4. ASSUME NEW p \in Positions \ worker'[w].todo, Active(p)', HasShare(worker[w], p)'
        PROVE  position'[p].lastRewardTs + RequestLifetime >= worker'[w].now
    <3>1. HasShare(worker[w], p)
      BY <1>1, <2>4 DEF HasShare, ProgramGoesOn, WorkerInv
    <3>2. Exists(p)' /\ position'[p] \in PositionRow
      BY <2>4 DEF Active, Exists, DistributionTypeOK
    <3>3. CASE position'[p].lastRewardTs + RequestLifetime >= clock'
      BY <2>2, <3>2, <3>3, <1>1, PeriodAssumption DEF PositionRow, Worker
    <3>4. CASE Active(p) /\ position'[p].lastRewardTs = position[p].lastRewardTs
      <4>1. CASE p \in worker[w].todo
        BY <2>4, <3>2, <3>3, <4>1 DEF RunGoesOn
      <4>2. CASE p \notin worker[w].todo
        BY <1>1, <2>1, <3>1, <3>4, <4>2 DEF Looped
      <4> QED
        BY <4>1, <4>2
    <3> QED
      BY <2>4, <3>3, <3>4 DEF RowsGoOn
  <2> QED
    BY <2>2, <2>3, <2>4 DEF Looped
<1> QED
  BY <1>2, <1>3, <1>4 DEF WorkerInv

(* The rows stay. *)
LEMMA RowsStay ==
    ASSUME DistributionInv, UNCHANGED position, clock <= clock', clock' \in Nat
    PROVE  RowsGoOn
<1>1. ASSUME NEW p \in Positions, Exists(p) PROVE position[p].lastRewardTs <= clock'
  <2>1. position[p] \in PositionRow /\ clock \in Nat /\ position[p].lastRewardTs <= clock
    BY <1>1 DEF DistributionInv, DistributionTypeOK, Exists
  <2> QED
    BY <2>1 DEF PositionRow
<1> QED
  BY <1>1 DEF RowsGoOn, Exists, Active

LEMMA ProgramStays ==
    ASSUME UNCHANGED <<program, pausedAt>>
    PROVE  ProgramGoesOn
  BY DEF ProgramGoesOn

(***************************************************************************)
(* The steps of a run                                                      *)
(***************************************************************************)

LEMMA RetriedType ==
    ASSUME NEW queue \in [Job -> Nat], NEW j \in Job
    PROVE  Retried(queue, j) \in [Job -> Nat] /\ Recovered(queue, j) \in [Job -> Nat]
<1>1. ASSUME NEW k PROVE [queue EXCEPT ![k] = @ + 1] \in [Job -> Nat]
  <2>1. CASE k \in Job
    BY <2>1
  <2>2. CASE k \notin Job
    BY <2>2
  <2> QED
    BY <2>1, <2>2
<1> QED
  BY <1>1 DEF Retried, Recovered

LEMMA DistributionFacts ==
    ASSUME DistributionInv
    PROVE  /\ DistributionTypeOK
           /\ clock \in Nat /\ clock <= clock /\ pausedAt \in Nat
           /\ position \in [Positions -> PositionRow \union {Null}]
           /\ program \in ProgramRow \union {Null}
           /\ waiting \in [Job -> Nat] /\ worker \in [Replicas -> Worker]
           /\ completed \in Nat
           /\ used \in Used
           /\ \A w \in Replicas : WorkerInv(worker[w])
  BY DEF DistributionInv, DistributionTypeOK

(* The steps that write no position and let no worker go on. *)
LEMMA WorkersWait ==
    ASSUME DistributionInv, DistributionTypeOK', ProgramGoesOn,
           UNCHANGED <<clock, position>>,
           \A w \in Replicas : worker'[w] = worker[w] \/ worker'[w].pc = "idle",
           \A a \in Admins : admin'[a].pc # "idle" => program' # Null
    PROVE  DistributionInv'
<1>1. clock \in Nat /\ clock <= clock' /\ RowsGoOn
  BY DistributionFacts, RowsStay
<1>2. ASSUME NEW w \in Replicas PROVE WorkerInv(worker[w])'
  <2>1. RunGoesOn(worker[w], worker'[w])
    BY DEF RunGoesOn
  <2> QED
    BY <1>1, <2>1, WorkerGoesOn
<1> QED
  BY <1>1, <1>2 DEF DistributionInv, RowsGoOn

LEMMA JobReadInv ==
    ASSUME DistributionInv, NEW w \in Replicas, NEW j \in Job, JobRead(w, j)
    PROVE  DistributionInv'
<1>1. waiting' \in [Job -> Nat]
  <2> DEFINE rest == [waiting EXCEPT ![j] = waiting[j] - 1]
  <2>1. rest \in [Job -> Nat]
    <3>1. waiting[j] \in Nat /\ waiting[j] > 0 /\ waiting \in [Job -> Nat]
      BY DistributionFacts DEF JobRead
    <3>2. waiting[j] - 1 \in Nat
      BY <3>1
    <3> QED
      BY <3>1, <3>2
  <2>2. waiting' = Retried(rest, j) \/ waiting' = rest
    BY DEF JobRead
  <2> HIDE DEF rest
  <2> QED
    BY <2>1, <2>2, RetriedType
<1>2. CASE UNCHANGED worker
  <2>1. DistributionTypeOK'
    BY <1>1, <1>2 DEF JobRead, DistributionInv, DistributionTypeOK, bookVars
  <2> QED
    BY <1>2, <2>1, WorkersWait, ProgramStays DEF JobRead, DistributionInv, bookVars
<1>3. CASE /\ program # Null /\ ~Held(program)
           /\ worker' = [worker EXCEPT ![w] =
                  [IdleWorker EXCEPT !.pc = "find", !.job = j, !.began = clock,
                                     !.epoch = program.currentEpoch,
                                     !.pool = program.totalRewardPool]]
  <2> DEFINE q == [IdleWorker EXCEPT !.pc = "find", !.job = j, !.began = clock,
                                     !.epoch = program.currentEpoch,
                                     !.pool = program.totalRewardPool]
  <2>1. program.currentEpoch \in Nat /\ program.totalRewardPool \in Nat
    BY <1>3, DistributionFacts, PoolAssumption DEF ProgramRow
  <2>2. q \in Worker /\ q.pc = "find" /\ q.began = clock
    BY <2>1, DistributionFacts, IdleWorkerIs DEF IdleWorker, Worker
  <2>3. worker' = [worker EXCEPT ![w] = q]
    BY <1>3
  <2> HIDE DEF q
  <2>4. worker' \in [Replicas -> Worker]
    BY <2>2, <2>3, DistributionFacts
  <2>5. UNCHANGED <<clock, position, program, fired, admin, bookVars>>
    BY DEF JobRead
  <2>6. DistributionTypeOK'
    BY <1>1, <2>4, <2>5 DEF DistributionInv, DistributionTypeOK, bookVars
  <2>7. ASSUME NEW v \in Replicas PROVE WorkerInv(worker[v])'
    <3>1. CASE v = w
      <4>1. worker'[v].pc = "find" /\ worker'[v].began = clock
        BY <2>2, <2>3, <3>1, DistributionFacts
      <4>2. ~program.isPaused /\ clock <= clock + RequestLifetime
        BY <1>3, DistributionFacts, PeriodAssumption DEF Held
      <4> QED
        BY <1>3, <2>5, <4>1, <4>2, DistributionFacts DEF WorkerInv
    <3>2. CASE v # w
      <4>1. worker'[v] = worker[v]
        BY <2>3, <3>2, DistributionFacts
      <4>2. RunGoesOn(worker[v], worker'[v])
        BY <4>1 DEF RunGoesOn
      <4> QED
        BY <2>5, <2>6, <4>2, WorkerGoesOn, RowsStay, ProgramStays, DistributionFacts
           DEF bookVars
    <3> QED
      BY <3>1, <3>2
  <2> QED
    BY <2>5, <2>6, <2>7 DEF DistributionInv, Exists
<1> QED
  BY <1>2, <1>3 DEF JobRead

LEMMA JobFindInv ==
    ASSUME DistributionInv, NEW w \in Replicas, JobFind(w)
    PROVE  DistributionInv'
<1>0. /\ UNCHANGED <<clock, position, program, waiting, fired, admin, bookVars>>
      /\ worker[w].pc = "find"
  BY DEF JobFind, queueVars
<1>1. CASE Finish(w)
  <2>1. worker' \in [Replicas -> Worker]
    BY <1>1, IdleWorkerIs, DistributionFacts DEF Finish
  <2>2. DistributionTypeOK'
    BY <1>0, <2>1 DEF DistributionInv, DistributionTypeOK, bookVars
  <2>3. \A v \in Replicas : worker'[v] = worker[v] \/ worker'[v].pc = "idle"
    BY <1>1, IdleWorkerIs, DistributionFacts DEF Finish
  <2> QED
    BY <1>0, <2>2, <2>3, WorkersWait, ProgramStays DEF DistributionInv, bookVars
<1>2. CASE worker' = [worker EXCEPT ![w] =
               [worker[w] EXCEPT !.pc = "loop", !.now = clock,
                   !.todo = {p \in {r \in Positions : Active(r)} : HasShare(worker[w], p)}]]
  <2>1. PICK q \in Worker :
            /\ q.pc = "loop" /\ q.now = clock /\ q.began = worker[w].began
            /\ q.pool = worker[w].pool
            /\ q.todo = {p \in {r \in Positions : Active(r)} : HasShare(worker[w], p)}
            /\ worker' = [worker EXCEPT ![w] = q]
    <3> DEFINE todo == {p \in {r \in Positions : Active(r)} : HasShare(worker[w], p)}
    <3>1. todo \in SUBSET Positions
      OBVIOUS
    <3> HIDE DEF todo
    <3>2. worker[w] \in Worker /\ clock \in Nat
      BY DistributionFacts
    <3>3. /\ [worker[w] EXCEPT !.pc = "loop", !.now = clock, !.todo = todo] \in Worker
          /\ [worker[w] EXCEPT !.pc = "loop", !.now = clock, !.todo = todo].began
                 = worker[w].began
          /\ [worker[w] EXCEPT !.pc = "loop", !.now = clock, !.todo = todo].pool
                 = worker[w].pool
      BY <3>1, <3>2 DEF Worker
    <3>4. worker' = [worker EXCEPT ![w] =
              [worker[w] EXCEPT !.pc = "loop", !.now = clock, !.todo = todo]]
      BY <1>2 DEF todo
    <3>5. /\ [worker[w] EXCEPT !.pc = "loop", !.now = clock, !.todo = todo].pc = "loop"
          /\ [worker[w] EXCEPT !.pc = "loop", !.now = clock, !.todo = todo].now = clock
          /\ [worker[w] EXCEPT !.pc = "loop", !.now = clock, !.todo = todo].todo = todo
      BY <3>2 DEF Worker
    <3> QED
      BY <3>3, <3>4, <3>5 DEF todo
  <2>2. worker' \in [Replicas -> Worker]
    BY <2>1, DistributionFacts
  <2>3. DistributionTypeOK'
    BY <1>0, <2>2 DEF DistributionInv, DistributionTypeOK, bookVars
  <2>4. ASSUME NEW v \in Replicas PROVE WorkerInv(worker[v])'
    <3>1. CASE v = w
      <4>1. worker'[v] = q
        BY <2>1, <3>1, DistributionFacts
      <4>2. /\ program # Null /\ q.began <= clock /\ clock <= q.began + RequestLifetime
            /\ program.isPaused => q.began <= pausedAt
        BY <1>0, <2>1, DistributionFacts DEF WorkerInv
      <4>3. \A p \in q.todo : Exists(p)'
        BY <1>0, <2>1 DEF Active, Exists
      <4>4. \A p \in Positions \ q.todo : ~(Active(p)' /\ HasShare(q, p)')
        BY <1>0, <2>1 DEF Active, Exists, HasShare
      <4>5. clock <= clock
        BY DistributionFacts
      <4>6. Looped(worker[v])'
        BY <1>0, <2>1, <4>1, <4>2, <4>3, <4>4, <4>5 DEF Looped
      <4> QED
        BY <1>0, <4>1, <4>2, <4>6 DEF WorkerInv, bookVars
    <3>2. CASE v # w
      <4>1. worker'[v] = worker[v]
        BY <2>1, <3>2, DistributionFacts
      <4>2. RunGoesOn(worker[v], worker'[v])
        BY <4>1 DEF RunGoesOn
      <4> QED
        BY <1>0, <2>3, <4>2, WorkerGoesOn, RowsStay, ProgramStays, DistributionFacts
           DEF bookVars
    <3> QED
      BY <3>1, <3>2
  <2> QED
    BY <1>0, <2>3, <2>4 DEF DistributionInv, Exists
<1> QED
  BY <1>1, <1>2 DEF JobFind, HasShare

(* A step after which a row carries a young timestamp, or is a new one. *)
LEMMA OneRow ==
    ASSUME DistributionInv, NEW p \in Positions, NEW row \in PositionRow,
           position' = [position EXCEPT ![p] = row],
           UNCHANGED clock,
           row.lastRewardTs <= clock,
           \/ row.lastRewardTs + RequestLifetime >= clock
           \/ /\ Exists(p) /\ row.lastRewardTs = position[p].lastRewardTs
              /\ row.isActive => Active(p)
    PROVE  /\ position' \in [Positions -> PositionRow \union {Null}]
           /\ RowsGoOn
<1>1. /\ position' \in [Positions -> PositionRow \union {Null}]
      /\ position'[p] = row /\ \A v \in Positions \ {p} : position'[v] = position[v]
  BY DistributionFacts
<1>2. Exists(p)'
  BY <1>1, NullAssumption DEF Exists
<1>3. ASSUME NEW v \in Positions
      PROVE  /\ Exists(v) => Exists(v)'
             /\ Exists(v)' => position'[v].lastRewardTs <= clock'
             /\ Active(v)' =>
                    \/ Active(v) /\ position'[v].lastRewardTs = position[v].lastRewardTs
                    \/ position'[v].lastRewardTs + RequestLifetime >= clock'
  <2>1. CASE v = p
    BY <1>1, <1>2, <2>1 DEF Active, Exists
  <2>2. CASE v # p
    BY <1>1, <2>2 DEF DistributionInv, Active, Exists
  <2> QED
    BY <2>1, <2>2
<1> QED
  BY <1>1, <1>3 DEF RowsGoOn

(* No worker goes on. *)
LEMMA RowWritten ==
    ASSUME DistributionInv, position' \in [Positions -> PositionRow \union {Null}],
           RowsGoOn, UNCHANGED <<clock, program, queueVars, worker, admin, bookVars>>
    PROVE  DistributionInv'
<1>1. DistributionTypeOK'
  BY DEF DistributionInv, DistributionTypeOK, queueVars, bookVars
<1>2. ASSUME NEW w \in Replicas PROVE WorkerInv(worker[w])'
  <2>1. RunGoesOn(worker[w], worker'[w])
    BY DEF RunGoesOn
  <2> QED
    BY <1>1, <2>1, WorkerGoesOn, ProgramStays, DistributionFacts DEF bookVars
<1> QED
  BY <1>1, <1>2 DEF DistributionInv, RowsGoOn

LEMMA OpenedInv ==
    ASSUME DistributionInv, NEW p \in Positions, NEW now \in 0..clock, Opened(p, now)
    PROVE  DistributionInv'
<1>1. PICK row \in PositionRow : /\ position' = [position EXCEPT ![p] = row]
                                 /\ row.lastRewardTs = now
  <2>1. [isActive |-> TRUE, startTs |-> now,
         lastRewardTs |-> now, lastClaimTs |-> now] \in PositionRow
    BY DistributionFacts DEF PositionRow
  <2>2. position' = [position EXCEPT ![p] =
            [isActive |-> TRUE, startTs |-> now,
             lastRewardTs |-> now, lastClaimTs |-> now]]
    BY DEF Opened
  <2> QED
    BY <2>1, <2>2
<1>2. now + RequestLifetime >= clock /\ now <= clock /\ UNCHANGED clock
  BY DistributionFacts, PeriodAssumption DEF Opened
<1> QED
  BY <1>1, <1>2, OneRow, RowWritten, DistributionFacts DEF Opened

LEMMA ClosedInv ==
    ASSUME DistributionInv, NEW p \in Positions, Closed(p)
    PROVE  DistributionInv'
<1>1. position[p] \in PositionRow /\ Exists(p) /\ Active(p)
  BY DistributionFacts DEF Closed, Active, Exists
<1>2. PICK row \in PositionRow : /\ position' = [position EXCEPT ![p] = row]
                                 /\ row.lastRewardTs = position[p].lastRewardTs
  <2>1. /\ [position[p] EXCEPT !.isActive = FALSE] \in PositionRow
        /\ [position[p] EXCEPT !.isActive = FALSE].lastRewardTs = position[p].lastRewardTs
    BY <1>1 DEF PositionRow
  <2>2. position' = [position EXCEPT ![p] = [position[p] EXCEPT !.isActive = FALSE]]
    BY DEF Closed
  <2> QED
    BY <2>1, <2>2
<1>3. position[p].lastRewardTs <= clock
  BY <1>1 DEF DistributionInv
<1> QED
  BY <1>1, <1>2, <1>3, OneRow, RowWritten DEF Closed

LEMMA JobStampEffect ==
    ASSUME DistributionInv, NEW w \in Replicas, NEW p \in Positions, JobStamp(w, p)
    PROVE  /\ worker[w].pc = "loop" /\ p \in worker[w].todo /\ Looped(worker[w])
           /\ WorkerInv(worker[w]) /\ worker[w] \in Worker
           /\ Exists(p) /\ position[p] \in PositionRow
           /\ position' = [position EXCEPT ![p] =
                   [position[p] EXCEPT !.lastRewardTs = worker[w].now]]
           /\ worker[w].now \in Nat /\ worker[w].now <= clock
           /\ worker[w].now + RequestLifetime >= clock
<1>1. /\ worker[w].pc = "loop" /\ p \in worker[w].todo
      /\ WorkerInv(worker[w]) /\ worker[w] \in Worker
  BY DistributionFacts DEF JobStamp
<1>2. Looped(worker[w]) /\ clock <= worker[w].began + RequestLifetime
  BY <1>1 DEF WorkerInv
<1>3. Exists(p) /\ position[p] \in PositionRow
  BY <1>1, <1>2, DistributionFacts DEF Looped, Exists
<1>4. /\ worker[w].now \in Nat /\ worker[w].now <= clock
      /\ worker[w].now + RequestLifetime >= clock
  BY <1>1, <1>2, DistributionFacts, PeriodAssumption DEF Looped, Worker
<1>5. position' = [position EXCEPT ![p] =
          [position[p] EXCEPT !.lastRewardTs = worker[w].now]]
  BY DEF JobStamp, RewardTs
<1> QED
  BY <1>1, <1>2, <1>3, <1>4, <1>5

LEMMA JobStampInv ==
    ASSUME DistributionInv, NEW w \in Replicas, NEW p \in Positions, JobStamp(w, p)
    PROVE  DistributionInv'
<1>1. PICK row \in PositionRow : /\ position' = [position EXCEPT ![p] = row]
                                 /\ row.lastRewardTs = worker[w].now
  <2>1. /\ [position[p] EXCEPT !.lastRewardTs = worker[w].now] \in PositionRow
        /\ [position[p] EXCEPT !.lastRewardTs = worker[w].now].lastRewardTs = worker[w].now
    BY JobStampEffect DEF PositionRow
  <2> QED
    BY <2>1, JobStampEffect
<1>2. UNCHANGED <<clock, program, queueVars, admin, bookVars>>
  BY DEF JobStamp
<1>3. position' \in [Positions -> PositionRow \union {Null}] /\ RowsGoOn
  BY <1>1, <1>2, OneRow, JobStampEffect
<1>4. PICK q \in Worker : /\ worker' = [worker EXCEPT ![w] = q]
                          /\ q.pc = worker[w].pc /\ q.began = worker[w].began
                          /\ q.now = worker[w].now /\ q.todo = worker[w].todo \ {p}
                          /\ q.pool = worker[w].pool
  <2> DEFINE q == [worker[w] EXCEPT !.todo = worker[w].todo \ {p}]
  <2>1. /\ q \in Worker /\ q.pc = worker[w].pc /\ q.began = worker[w].began
        /\ q.now = worker[w].now /\ q.todo = worker[w].todo \ {p}
        /\ q.pool = worker[w].pool
    BY JobStampEffect DEF Worker
  <2>2. worker' = [worker EXCEPT ![w] = q]
    BY DEF JobStamp
  <2> HIDE DEF q
  <2> QED
    BY <2>1, <2>2
<1>5. DistributionTypeOK'
  <2>1. worker' \in [Replicas -> Worker]
    BY <1>4, DistributionFacts
  <2> QED
    BY <1>2, <1>3, <2>1 DEF DistributionInv, DistributionTypeOK, queueVars, bookVars
<1>6. ASSUME NEW v \in Replicas PROVE WorkerInv(worker[v])'
  <2>1. CASE v = w
    <3>1. worker'[w] = q
      BY <1>4, DistributionFacts
    <3>2. position'[p].lastRewardTs = worker[w].now
      BY <1>1, DistributionFacts
    <3>3. RunGoesOn(worker[w], worker'[w])
      BY <1>2, <1>4, <3>1, <3>2, JobStampEffect DEF RunGoesOn
    <3> QED
      BY <1>2, <1>3, <1>5, <2>1, <3>3, WorkerGoesOn, ProgramStays, DistributionFacts
         DEF bookVars
  <2>2. CASE v # w
    <3>1. worker'[v] = worker[v]
      BY <1>4, <2>2, DistributionFacts
    <3>2. RunGoesOn(worker[v], worker'[v])
      BY <3>1 DEF RunGoesOn
    <3> QED
      BY <1>2, <1>3, <1>5, <3>2, WorkerGoesOn, ProgramStays, DistributionFacts
         DEF bookVars
  <2> QED
    BY <2>1, <2>2
<1> QED
  BY <1>2, <1>3, <1>5, <1>6 DEF DistributionInv, RowsGoOn

LEMMA FinishEffect ==
    ASSUME DistributionInv, NEW w \in Replicas, Finish(w)
    PROVE  /\ worker' \in [Replicas -> Worker]
           /\ \A v \in Replicas : worker'[v] = worker[v] \/ worker'[v].pc = "idle"
  BY IdleWorkerIs, DistributionFacts DEF Finish

LEMMA JobEpochInv ==
    ASSUME DistributionInv, NEW w \in Replicas, JobEpoch(w)
    PROVE  DistributionInv'
<1>1. /\ program # Null /\ program \in ProgramRow /\ worker[w].epoch \in Nat
  BY DistributionFacts DEF JobEpoch, WorkerInv, Worker
<1>2. PICK row \in ProgramRow : /\ program' = row
                                /\ row.totalStakingPower = program.totalStakingPower
                                /\ row.isPaused = program.isPaused
  <2> DEFINE row == [program EXCEPT !.currentEpoch = worker[w].epoch + 1]
  <2>1. /\ row \in ProgramRow /\ row.totalStakingPower = program.totalStakingPower
        /\ row.isPaused = program.isPaused
    BY <1>1 DEF ProgramRow
  <2>2. program' = row
    BY DEF JobEpoch
  <2> HIDE DEF row
  <2> QED
    BY <2>1, <2>2
<1>3. program' # Null /\ ProgramGoesOn
  BY <1>2, NullAssumption DEF JobEpoch, ProgramGoesOn
<1>4. completed' \in Nat
  BY DistributionFacts DEF JobEpoch
<1>5. DistributionTypeOK'
  BY <1>2, <1>4, FinishEffect
     DEF JobEpoch, DistributionInv, DistributionTypeOK, queueVars, bookVars
<1> QED
  BY <1>3, <1>5, FinishEffect, WorkersWait DEF JobEpoch

LEMMA FaultType ==
    ASSUME DistributionInv, Fault
    PROVE  used' \in Used
<1>1. PICK n \in Nat : used' = [used EXCEPT !.faults = n]
  <2>1. used.faults + 1 \in Nat
    BY DistributionFacts DEF Used
  <2> QED
    BY <2>1 DEF Fault
<1> QED
  BY <1>1, DistributionFacts DEF Used

LEMMA JobEndsInv ==
    ASSUME DistributionInv, NEW w \in Replicas, JobFail(w) \/ JobStall(w)
    PROVE  DistributionInv'
<1>1. worker[w].job \in Job
  BY DistributionFacts DEF Worker
<1>2. waiting' \in [Job -> Nat]
  BY <1>1, RetriedType, DistributionFacts DEF JobFail, JobStall
<1>3. /\ UNCHANGED <<clock, position, program, fired, admin, completed, pausedAt>>
      /\ Finish(w) /\ used' \in Used
  BY FaultType DEF JobFail, JobStall
<1>4. DistributionTypeOK'
  BY <1>2, <1>3, FinishEffect DEF DistributionInv, DistributionTypeOK
<1> QED
  BY <1>3, <1>4, FinishEffect, WorkersWait, ProgramStays DEF DistributionInv

LEMMA TriggerInv ==
    ASSUME DistributionInv, TriggerWeekly \/ \E w \in Replicas : ScheduleWeekly(w)
    PROVE  DistributionInv'
<1>1. waiting' \in [Job -> Nat]
  BY DistributionFacts, IdleWorkerIs DEF ScheduleWeekly, TriggerWeekly, Enqueue
<1>2. used' \in Used
  <2>1. used.triggers + 1 \in Nat
    BY DistributionFacts DEF Used
  <2> QED
    BY <2>1, DistributionFacts DEF ScheduleWeekly, TriggerWeekly, bookVars, Used
<1>3. fired' \in [Replicas -> Int]
  BY DEF DistributionInv, DistributionTypeOK, ScheduleWeekly, TriggerWeekly
<1>4. UNCHANGED <<clock, position, program, worker, admin, completed, pausedAt>>
  BY DEF ScheduleWeekly, TriggerWeekly, bookVars
<1>5. DistributionTypeOK'
  BY <1>1, <1>2, <1>3, <1>4 DEF DistributionInv, DistributionTypeOK
<1> QED
  BY <1>4, <1>5, WorkersWait, ProgramStays DEF DistributionInv

LEMMA SwitchInv ==
    ASSUME DistributionInv, NEW a \in Admins,
           SwitchWrite(a) \/ \E to \in {"pause", "unpause"} : SwitchRead(a, to)
    PROVE  DistributionInv'
<1>1. CASE SwitchWrite(a)
  <2>1. program # Null /\ program \in ProgramRow
    BY <1>1, DistributionFacts DEF SwitchWrite, DistributionInv
  <2>2. PICK row \in ProgramRow : /\ program' = row
                                  /\ row.totalStakingPower = program.totalStakingPower
                                  /\ row.isPaused = (admin[a].pc = "pause")
    <3> DEFINE row == [program EXCEPT !.isPaused = (admin[a].pc = "pause")]
    <3>1. /\ row \in ProgramRow /\ row.totalStakingPower = program.totalStakingPower
          /\ row.isPaused = (admin[a].pc = "pause")
      BY <2>1 DEF ProgramRow
    <3>2. program' = row
      BY <1>1 DEF SwitchWrite
    <3> HIDE DEF row
    <3> QED
      BY <3>1, <3>2
  <2>3. program' # Null /\ ProgramGoesOn /\ pausedAt' \in Nat
    BY <1>1, <2>1, <2>2, NullAssumption, DistributionFacts DEF SwitchWrite, ProgramGoesOn
  <2>4. /\ admin' \in [Admins -> [pc : {"idle", "pause", "unpause"}, began : Nat]]
        /\ UNCHANGED <<clock, position, waiting, fired, worker, completed, used>>
    BY <1>1 DEF SwitchWrite, DistributionInv, DistributionTypeOK, queueVars
  <2>5. DistributionTypeOK'
    BY <2>2, <2>3, <2>4 DEF DistributionInv, DistributionTypeOK
  <2> QED
    BY <2>3, <2>4, <2>5, WorkersWait
<1>2. ASSUME NEW to \in {"pause", "unpause"}, SwitchRead(a, to) PROVE DistributionInv'
  <2>1. /\ program # Null
        /\ UNCHANGED <<clock, position, program, waiting, fired, worker, completed, pausedAt>>
    BY <1>2 DEF SwitchRead, queueVars
  <2>2. admin' \in [Admins -> [pc : {"idle", "pause", "unpause"}, began : Nat]]
    BY <1>2, DistributionFacts DEF SwitchRead, DistributionInv, DistributionTypeOK
  <2>3. used' \in Used
    <3>1. used.switches + 1 \in Nat
      BY DistributionFacts DEF Used
    <3> QED
      BY <1>2, <3>1, DistributionFacts DEF SwitchRead, Used
  <2>4. DistributionTypeOK'
    BY <2>1, <2>2, <2>3 DEF DistributionInv, DistributionTypeOK
  <2> QED
    BY <2>1, <2>4, WorkersWait, ProgramStays
<1> QED
  BY <1>1, <1>2

LEMMA PoolChangesInv ==
    ASSUME DistributionInv, NEW size \in PoolSizes, PoolChanges(size)
    PROVE  DistributionInv'
<1>1. program # Null /\ program \in ProgramRow
  BY DistributionFacts DEF PoolChanges
<1>2. PICK row \in ProgramRow : /\ program' = row
                                /\ row.totalStakingPower = program.totalStakingPower
                                /\ row.isPaused = program.isPaused
  <2> DEFINE row == [program EXCEPT !.totalRewardPool = size]
  <2>1. /\ row \in ProgramRow /\ row.totalStakingPower = program.totalStakingPower
        /\ row.isPaused = program.isPaused
    BY <1>1 DEF ProgramRow
  <2>2. program' = row
    BY DEF PoolChanges
  <2> HIDE DEF row
  <2> QED
    BY <2>1, <2>2
<1>3. used' \in Used
  <2>1. used.pools + 1 \in Nat
    BY DistributionFacts DEF Used
  <2> QED
    BY <2>1, DistributionFacts DEF PoolChanges, Used
<1>4. /\ UNCHANGED <<clock, position, waiting, fired, worker, admin, completed, pausedAt>>
      /\ program' # Null /\ ProgramGoesOn
  BY <1>2, NullAssumption DEF PoolChanges, queueVars, ProgramGoesOn
<1>5. DistributionTypeOK'
  BY <1>2, <1>3, <1>4 DEF DistributionInv, DistributionTypeOK
<1> QED
  BY <1>4, <1>5, WorkersWait

LEMMA ClockInv ==
    ASSUME DistributionInv, DistributionTick
    PROVE  DistributionInv'
<1>1. /\ UNCHANGED <<position, program, queueVars, worker, admin, bookVars>>
      /\ clock' = clock + 1 /\ clock \in Nat /\ clock' \in Nat /\ clock <= clock'
  BY DistributionFacts DEF DistributionTick
<1>2. DistributionTypeOK' /\ RowsGoOn
  BY <1>1, RowsStay DEF DistributionInv, DistributionTypeOK, queueVars, bookVars
<1>3. ASSUME NEW w \in Replicas PROVE WorkerInv(worker[w])'
  <2>1. RunGoesOn(worker[w], worker'[w])
    BY <1>1 DEF RunGoesOn
  <2>2. worker[w].pc # "idle" => clock' <= worker[w].began + RequestLifetime
    <3>1. worker[w].began \in Nat
      BY DistributionFacts DEF Worker
    <3> QED
      BY <1>1, <3>1, PeriodAssumption DEF DistributionTick, Young, WorkerFree
  <2> QED
    BY <1>1, <1>2, <2>1, <2>2, WorkerGoesOn, ProgramStays DEF bookVars
<1> QED
  BY <1>1, <1>2, <1>3 DEF DistributionInv, RowsGoOn

LEMMA StepInv == ASSUME DistributionInv, DistributionStep PROVE DistributionInv'
<1>1. ASSUME NEW p \in Positions, Closed(p) \/ \E now \in 0..clock : Opened(p, now)
      PROVE  DistributionInv'
  BY <1>1, OpenedInv, ClosedInv
<1>2. ASSUME NEW w \in Replicas, Run(w) PROVE DistributionInv'
  BY <1>2, JobReadInv, JobFindInv, JobStampInv, JobEpochInv DEF Run
<1>3. ASSUME NEW w \in Replicas, JobFail(w) \/ JobStall(w) PROVE DistributionInv'
  BY <1>3, JobEndsInv
<1>4. ASSUME TriggerWeekly \/ \E w \in Replicas : ScheduleWeekly(w) PROVE DistributionInv'
  BY <1>4, TriggerInv
<1>5. ASSUME NEW a \in Admins,
             SwitchWrite(a) \/ \E to \in {"pause", "unpause"} : SwitchRead(a, to)
      PROVE  DistributionInv'
  BY <1>5, SwitchInv
<1>6. ASSUME NEW size \in PoolSizes, PoolChanges(size) PROVE DistributionInv'
  BY <1>6, PoolChangesInv
<1> QED
  BY <1>1, <1>2, <1>3, <1>4, <1>5, <1>6 DEF DistributionStep

LEMMA ClockGoesOn == ASSUME DistributionStep PROVE UNCHANGED clock
  BY DEF DistributionStep, Opened, Closed, PoolChanges, ScheduleWeekly, TriggerWeekly, Run, JobRead,
     JobFind, JobStamp, JobEpoch, JobFail, JobStall, SwitchRead, SwitchWrite

(* A position is written by an open, a close or a stamp. *)
LEMMA PositionWrittenBy ==
    ASSUME DistributionInv, DistributionStep \/ DistributionTick, ~UNCHANGED position
    PROVE  \E v \in Positions : \E row \in PositionRow :
               position' = [position EXCEPT ![v] = row]
<1>1. \/ \E v \in Positions : Closed(v) \/ \E now \in 0..clock : Opened(v, now)
      \/ \E w \in Replicas, v \in Positions : JobStamp(w, v)
  BY DEF DistributionStep, DistributionTick, PoolChanges, ScheduleWeekly, TriggerWeekly, Run, JobRead,
     JobFind, JobEpoch, JobFail, JobStall, SwitchRead, SwitchWrite
<1>2. ASSUME NEW v \in Positions, NEW now \in 0..clock, Opened(v, now)
      PROVE  \E row \in PositionRow : position' = [position EXCEPT ![v] = row]
  <2>1. [isActive |-> TRUE, startTs |-> now,
         lastRewardTs |-> now, lastClaimTs |-> now] \in PositionRow
    BY DistributionFacts DEF PositionRow
  <2>2. position' = [position EXCEPT ![v] =
            [isActive |-> TRUE, startTs |-> now,
             lastRewardTs |-> now, lastClaimTs |-> now]]
    BY <1>2 DEF Opened
  <2> QED
    BY <2>1, <2>2
<1>3. ASSUME NEW v \in Positions, Closed(v)
      PROVE  \E row \in PositionRow : position' = [position EXCEPT ![v] = row]
  <2>1. position[v] \in PositionRow
    BY <1>3, DistributionFacts DEF Closed, Active, Exists
  <2>2. [position[v] EXCEPT !.isActive = FALSE] \in PositionRow
    BY <2>1 DEF PositionRow
  <2> QED
    BY <1>3, <2>2 DEF Closed
<1>4. ASSUME NEW w \in Replicas, NEW v \in Positions, JobStamp(w, v)
      PROVE  \E row \in PositionRow : position' = [position EXCEPT ![v] = row]
  <2>1. [position[v] EXCEPT !.lastRewardTs = worker[w].now] \in PositionRow
    BY <1>4, JobStampEffect DEF PositionRow
  <2> QED
    BY <1>4, <2>1, JobStampEffect
<1> QED
  BY <1>1, <1>2, <1>3, <1>4

LEMMA DistributionNextInv ==
    DistributionInv /\ [DistributionNext]_distributionVars => DistributionInv'
<1> SUFFICES ASSUME DistributionInv, [DistributionNext]_distributionVars
             PROVE  DistributionInv'
  OBVIOUS
<1>1. CASE UNCHANGED distributionVars
  BY <1>1, RowsStay, RowWritten, DistributionFacts DEF distributionVars
<1> QED
  BY <1>1, StepInv, ClockInv DEF DistributionNext

(* The invariant of the distribution holds in every state: runs are young, *)
(* and what they have behind them is stamped.                              *)
THEOREM DistributionInvariant == DistributionSpec => []DistributionInv
<1> QED
  BY DistributionInitInv, DistributionNextInv, PTL DEF DistributionSpec

(* Every variable of the distribution has its type. *)
THEOREM DistributionTypeCorrect == DistributionSpec => []DistributionTypeOK
<1>1. DistributionInv => DistributionTypeOK
  BY DEF DistributionInv
<1> QED
  BY <1>1, DistributionInvariant, PTL

(***************************************************************************)
(* Timestamps, epochs and the pause                                        *)
(***************************************************************************)

LEMMA StampedBy ==
    ASSUME DistributionInv, [DistributionNext]_distributionVars,
           NEW p \in Positions, Exists(p),
           position'[p].lastRewardTs # position[p].lastRewardTs
    PROVE  \E w \in Replicas : JobStamp(w, p)
<1>1. position[p] \in PositionRow /\ position \in [Positions -> PositionRow \union {Null}]
  BY DistributionFacts DEF Exists
<1>2. ~UNCHANGED position
  OBVIOUS
<1>3. ASSUME NEW v \in Positions, NEW now \in 0..clock, Opened(v, now) PROVE FALSE
  <2>1. v # p
    BY <1>3 DEF Opened
  <2> QED
    BY <1>1, <1>3, <2>1 DEF Opened
<1>4. ASSUME NEW v \in Positions, Closed(v) PROVE FALSE
  <2>1. position'[p] = position[p] \/ position'[p] = [position[p] EXCEPT !.isActive = FALSE]
    BY <1>1, <1>4 DEF Closed
  <2> QED
    BY <1>1, <2>1 DEF PositionRow
<1>5. PICK w \in Replicas, v \in Positions : JobStamp(w, v)
  BY <1>2, <1>3, <1>4 DEF DistributionNext, DistributionStep, DistributionTick,
     PoolChanges, ScheduleWeekly, TriggerWeekly, Run, JobRead, JobFind, JobEpoch, JobFail, JobStall,
     SwitchRead, SwitchWrite, distributionVars
<1>6. v = p
  BY <1>1, <1>5 DEF JobStamp
<1> QED
  BY <1>5, <1>6

LEMMA CompletedBy ==
    ASSUME [DistributionNext]_distributionVars, completed' # completed
    PROVE  \E w \in Replicas : JobEpoch(w)
  BY DEF DistributionNext, DistributionStep, DistributionTick, Opened, Closed,
     PoolChanges, ScheduleWeekly, TriggerWeekly, Run, JobRead, JobFind, JobStamp, JobFail, JobStall,
     SwitchRead, SwitchWrite, distributionVars, bookVars

(* Runs that overlap set a position's lastRewardTs back by no more than    *)
(* the lifetime of a run (reward-distribution.processor.ts:43, :67-70).    *)
THEOREM RegressionIsBounded == DistributionSpec => BoundedRegression
<1>1. DistributionInv /\ [DistributionNext]_distributionVars =>
        [\A p \in Positions :
            Exists(p) => position'[p].lastRewardTs + RequestLifetime
                             >= position[p].lastRewardTs]_distributionVars
  <2> SUFFICES ASSUME DistributionInv, [DistributionNext]_distributionVars,
                      NEW p \in Positions, Exists(p)
               PROVE  position'[p].lastRewardTs + RequestLifetime
                          >= position[p].lastRewardTs
    OBVIOUS
  <2>1. /\ position[p] \in PositionRow /\ position[p].lastRewardTs \in Int
        /\ position[p].lastRewardTs <= clock /\ clock \in Nat
    BY DistributionFacts DEF Exists, DistributionInv, PositionRow
  <2>2. CASE position'[p].lastRewardTs = position[p].lastRewardTs
    BY <2>1, <2>2, PeriodAssumption
  <2>3. CASE position'[p].lastRewardTs # position[p].lastRewardTs
    <3>1. PICK w \in Replicas : JobStamp(w, p)
      BY <2>3, StampedBy
    <3>2. position'[p].lastRewardTs = worker[w].now
      BY <3>1, <2>1, JobStampEffect, DistributionFacts DEF PositionRow
    <3>3. worker[w].now \in Nat /\ worker[w].now + RequestLifetime >= clock
      BY <3>1, JobStampEffect
    <3> QED
      BY <2>1, <3>2, <3>3, PeriodAssumption
  <2> QED
    BY <2>2, <2>3
<1> QED
  BY <1>1, DistributionInvariant, PTL DEF DistributionSpec, BoundedRegression

(* A pause that has lasted for longer than a run lives is effective: no    *)
(* distribution stamps a position or counts an epoch                       *)
(* (reward-distribution.processor.ts:27-30).                               *)
THEOREM PauseIsEffective == DistributionSpec => PauseDrains
<1>1. DistributionInv /\ [DistributionNext]_distributionVars =>
        [(/\ program # Null /\ program.isPaused
          /\ clock > pausedAt + RequestLifetime)
         => /\ completed' = completed
            /\ \A p \in Positions : Exists(p) =>
                   position'[p].lastRewardTs = position[p].lastRewardTs
        ]_distributionVars
  <2> SUFFICES ASSUME DistributionInv, [DistributionNext]_distributionVars,
                      program # Null, program.isPaused,
                      clock > pausedAt + RequestLifetime
               PROVE  /\ completed' = completed
                      /\ \A p \in Positions : Exists(p) =>
                             position'[p].lastRewardTs = position[p].lastRewardTs
    OBVIOUS
  <2>1. ASSUME NEW w \in Replicas PROVE worker[w].pc = "idle"
    <3>1. /\ WorkerInv(worker[w]) /\ worker[w].began \in Nat
          /\ clock \in Nat /\ pausedAt \in Nat
      BY DistributionFacts DEF Worker
    <3> QED
      BY <3>1, PeriodAssumption DEF WorkerInv
  <2>2. completed' = completed
    BY <2>1, CompletedBy DEF JobEpoch
  <2>3. ASSUME NEW p \in Positions, Exists(p)
        PROVE  position'[p].lastRewardTs = position[p].lastRewardTs
    BY <2>1, <2>3, StampedBy DEF JobStamp
  <2> QED
    BY <2>2, <2>3
<1> QED
  BY <1>1, DistributionInvariant, PTL DEF DistributionSpec, PauseDrains

(* When a run counts its epoch, every active position that has a share of  *)
(* the pool which the run has read carries its timestamp, or one no more   *)
(* than a run's lifetime older, whatever became of the pool meanwhile      *)
(* (reward-distribution.processor.ts:21, :45, :61-86).                     *)
THEOREM EpochIsStamped == DistributionSpec => EpochMeansStamped
<1>1. DistributionInv /\ [DistributionNext]_distributionVars =>
        [\A w \in Replicas :
            (WorkerFree(w)' /\ completed' # completed /\ ~WorkerFree(w)) =>
                \A p \in Positions :
                    (Active(p) /\ SharePositive(worker[w].pool, Power[p],
                                                program.totalStakingPower))
                    => position[p].lastRewardTs + RequestLifetime
                           >= worker[w].now]_distributionVars
  <2> SUFFICES ASSUME DistributionInv, [DistributionNext]_distributionVars,
                      NEW w \in Replicas, WorkerFree(w)', completed' # completed,
                      ~WorkerFree(w), NEW p \in Positions, Active(p), HasShare(worker[w], p)
               PROVE  position[p].lastRewardTs + RequestLifetime >= worker[w].now
    BY DEF HasShare
  <2>1. PICK v \in Replicas : JobEpoch(v)
    BY CompletedBy
  <2>2. v = w
    BY <2>1, DistributionFacts DEF JobEpoch, Finish, WorkerFree
  <2>3. worker[w].pc = "loop" /\ worker[w].todo = {}
    BY <2>1, <2>2 DEF JobEpoch
  <2>4. Looped(worker[w])
    BY <2>3, DistributionFacts DEF WorkerInv
  <2> QED
    BY <2>3, <2>4 DEF Looped
<1> QED
  BY <1>1, DistributionInvariant, PTL DEF DistributionSpec, EpochMeansStamped

(***************************************************************************)
(* Epochs are backed by runs                                               *)
(***************************************************************************)

LEMMA EpochKept ==
    ASSUME EpochInv, completed' = completed,
           program' # Null => /\ program # Null
                              /\ program'.currentEpoch = program.currentEpoch,
           \A w \in Replicas : worker'[w].pc # "idle" =>
               worker[w].pc # "idle" /\ worker'[w].epoch = worker[w].epoch
    PROVE  EpochInv'
  BY DEF EpochInv, WorkerFree

(* A run takes its epoch along from statement to statement. *)
LEMMA EpochGoesAlong ==
    ASSUME DistributionInv, EpochInv, NEW w \in Replicas,
           JobFind(w) \/ (\E p \in Positions : JobStamp(w, p)) \/ JobFail(w) \/ JobStall(w)
    PROVE  EpochInv'
<1>1. worker[w].pc # "idle" /\ UNCHANGED <<program, completed>>
  BY DEF JobFind, JobStamp, JobFail, JobStall, WorkerFree, bookVars
<1>2. worker \in [Replicas -> Worker]
  BY DistributionFacts
<1>3. \/ Finish(w)
      \/ \E pc, now, todo : worker' = [worker EXCEPT ![w].pc = pc, ![w].now = now,
                                                     ![w].todo = todo]
      \/ \E todo : worker' = [worker EXCEPT ![w].todo = todo]
  BY DEF JobFind, JobStamp, JobFail, JobStall
<1>4. \A v \in Replicas : worker'[v].pc # "idle" =>
          worker[v].pc # "idle" /\ worker'[v].epoch = worker[v].epoch
  <2>1. CASE Finish(w)
    BY <1>2, <2>1, IdleWorkerIs DEF Finish
  <2>2. ASSUME NEW pc, NEW now, NEW todo,
               worker' = [worker EXCEPT ![w].pc = pc, ![w].now = now, ![w].todo = todo]
        PROVE  \A v \in Replicas : worker'[v].pc # "idle" =>
                   worker[v].pc # "idle" /\ worker'[v].epoch = worker[v].epoch
    BY <1>1, <1>2, <2>2 DEF Worker
  <2>3. ASSUME NEW todo, worker' = [worker EXCEPT ![w].todo = todo]
        PROVE  \A v \in Replicas : worker'[v].pc # "idle" =>
                   worker[v].pc # "idle" /\ worker'[v].epoch = worker[v].epoch
    BY <1>1, <1>2, <2>3 DEF Worker
  <2> QED
    BY <1>3, <2>1, <2>2, <2>3
<1> QED
  BY <1>1, <1>4, EpochKept

LEMMA JobReadEpoch ==
    ASSUME DistributionInv, EpochInv, NEW w \in Replicas, NEW j \in Job, JobRead(w, j)
    PROVE  EpochInv'
<1>1. UNCHANGED <<program, completed>>
  BY DEF JobRead, bookVars
<1>2. CASE worker' = worker
  BY <1>1, <1>2, EpochKept
<1>3. CASE worker' # worker
  <2>1. PICK run : /\ worker' = [worker EXCEPT ![w] = run]
                   /\ run.epoch = program.currentEpoch
    <3> DEFINE run == [IdleWorker EXCEPT !.pc = "find", !.job = j, !.began = clock,
                                         !.epoch = program.currentEpoch,
                                         !.pool = program.totalRewardPool]
    <3>1. worker' = [worker EXCEPT ![w] = run]
      BY <1>3 DEF JobRead
    <3>2. run.epoch = program.currentEpoch
      BY DEF IdleWorker
    <3> HIDE DEF run
    <3> QED
      BY <3>1, <3>2
  <2>2. worker \in [Replicas -> Worker]
    BY DistributionFacts
  <2>3. /\ worker'[w].epoch = program.currentEpoch
        /\ \A v \in Replicas \ {w} : worker'[v] = worker[v]
    BY <2>1, <2>2
  <2> QED
    BY <1>1, <2>3 DEF EpochInv, WorkerFree
<1> QED
  BY <1>2, <1>3

LEMMA JobEpochEpoch ==
    ASSUME DistributionInv, EpochInv, NEW w \in Replicas, JobEpoch(w)
    PROVE  EpochInv'
<1>1. /\ program \in ProgramRow /\ worker[w].epoch \in Nat /\ completed \in Nat
      /\ program # Null /\ worker[w].epoch <= completed
  BY DistributionFacts DEF JobEpoch, WorkerInv, Worker, EpochInv, WorkerFree
<1>2. program'.currentEpoch = worker[w].epoch + 1 /\ completed' = completed + 1
  BY <1>1 DEF JobEpoch, ProgramRow
<1>3. \A v \in Replicas : worker'[v].pc # "idle" =>
          worker'[v] = worker[v] /\ worker[v].epoch \in Nat
  BY FinishEffect, DistributionFacts DEF JobEpoch, Worker
<1> QED
  BY <1>1, <1>2, <1>3 DEF EpochInv, WorkerFree

LEMMA SwitchEpoch ==
    ASSUME DistributionInv, EpochInv, NEW a \in Admins, SwitchWrite(a)
    PROVE  EpochInv'
<1>1. program # Null /\ program \in ProgramRow
  BY DistributionFacts DEF SwitchWrite, DistributionInv
<1>2. program'.currentEpoch = program.currentEpoch
  BY <1>1 DEF SwitchWrite, ProgramRow
<1> QED
  BY <1>1, <1>2, EpochKept DEF SwitchWrite

LEMMA PoolEpoch ==
    ASSUME DistributionInv, EpochInv, NEW size \in PoolSizes, PoolChanges(size)
    PROVE  EpochInv'
<1>1. program # Null /\ program \in ProgramRow
  BY DistributionFacts DEF PoolChanges
<1>2. program'.currentEpoch = program.currentEpoch
  BY <1>1 DEF PoolChanges, ProgramRow
<1> QED
  BY <1>1, <1>2, EpochKept DEF PoolChanges

LEMMA NextEpoch ==
    DistributionInv /\ EpochInv /\ [DistributionNext]_distributionVars => EpochInv'
<1> SUFFICES ASSUME DistributionInv, EpochInv, [DistributionNext]_distributionVars
             PROVE  EpochInv'
  OBVIOUS
<1>1. ASSUME UNCHANGED <<program, worker, completed>> PROVE EpochInv'
  BY <1>1 DEF EpochInv, WorkerFree
<1>2. CASE UNCHANGED distributionVars \/ DistributionTick
  BY <1>1, <1>2 DEF distributionVars, DistributionTick, bookVars
<1>3. CASE TriggerWeekly \/ \E p \in Positions :
                                Closed(p) \/ \E now \in 0..clock : Opened(p, now)
  BY <1>1, <1>3 DEF TriggerWeekly, Opened, Closed, bookVars
<1>4. ASSUME NEW w \in Replicas,
             ScheduleWeekly(w) \/ Run(w) \/ JobFail(w) \/ JobStall(w)
      PROVE  EpochInv'
  <2>1. CASE ScheduleWeekly(w)
    BY <1>1, <2>1 DEF ScheduleWeekly, bookVars
  <2> QED
    BY <1>4, <2>1, EpochGoesAlong, JobReadEpoch, JobEpochEpoch DEF Run
<1>5. ASSUME NEW a \in Admins, NEW to \in {"pause", "unpause"}, SwitchRead(a, to)
      PROVE  EpochInv'
  BY <1>1, <1>5 DEF SwitchRead
<1> QED
  BY <1>2, <1>3, <1>4, <1>5, SwitchEpoch, PoolEpoch DEF DistributionNext, DistributionStep

(* The epoch of the state's row never exceeds the runs that went to their  *)
(* end, for any number of workers, retries, crashes and overlapping runs:  *)
(* what a run has read is an epoch that was counted before                 *)
(* (reward-distribution.processor.ts:78-86).                               *)
THEOREM EpochsAreSupported == DistributionSpec => []EpochIsSupported
<1>1. DistributionInit => EpochInv
  BY IdleWorkerIs DEF DistributionInit, EpochInv, WorkerFree
<1>2. EpochInv => EpochIsSupported
  BY DEF EpochInv, EpochIsSupported
<1> QED
  BY <1>1, <1>2, NextEpoch, DistributionInvariant, PTL DEF DistributionSpec

(***************************************************************************)
(* The arithmetic                                                          *)
(***************************************************************************)

LEMMA TimesUp ==
    ASSUME NEW a \in Nat, NEW b \in Nat, NEW c \in Nat, a <= b
    PROVE  a * c <= b * c
  OBVIOUS

(* A quotient is the only number that fits. *)
LEMMA DivIs ==
    ASSUME NEW a \in Nat, NEW b \in Nat \ {0}, NEW q \in Nat,
           b * q <= a, a < b * q + b
    PROVE  a \div b = q
<1>1. PICK d \in Nat : d = a \div b /\ b * d <= a /\ a < b * d + b
  BY DivFloor
<1>2. CASE d < q
  <2>1. (d + 1) * b <= q * b
    BY <1>2, TimesUp
  <2> QED
    BY <1>1, <2>1
<1>3. CASE q < d
  <2>1. (q + 1) * b <= d * b
    BY <1>3, TimesUp
  <2> QED
    BY <1>1, <2>1
<1> QED
  BY <1>1, <1>2, <1>3

LEMMA DivUp ==
    ASSUME NEW a \in Nat, NEW b \in Nat, NEW d \in Nat \ {0}, a <= b
    PROVE  a \div d <= b \div d
<1>1. PICK x \in Nat, y \in Nat : /\ x = a \div d /\ d * x <= a /\ a < d * x + d
                                  /\ y = b \div d /\ d * y <= b /\ b < d * y + d
  BY DivFloor
<1>2. CASE y < x
  <2>1. (y + 1) * d <= x * d
    BY <1>2, TimesUp
  <2> QED
    BY <1>1, <2>1
<1> QED
  BY <1>1, <1>2

(* Two floors together are at most the floor of the sum. *)
LEMMA DivSplits ==
    ASSUME NEW a \in Nat, NEW b \in Nat, NEW d \in Nat \ {0}
    PROVE  (a \div d) + (b \div d) <= (a + b) \div d
<1>1. PICK x \in Nat : x = a \div d /\ d * x <= a
  BY DivFloor
<1>2. PICK y \in Nat : y = b \div d /\ d * y <= b
  BY DivFloor
<1>3. PICK z \in Nat : z = (a + b) \div d /\ a + b < d * z + d
  <2>1. a + b \in Nat
    OBVIOUS
  <2> QED
    BY <2>1, DivFloor
<1>4. CASE z < x + y
  <2>1. (z + 1) * d <= (x + y) * d
    BY <1>4, TimesUp
  <2> QED
    BY <1>1, <1>2, <1>3, <2>1
<1> QED
  BY <1>1, <1>2, <1>3, <1>4

(* A factor of both sides of a division does not matter. *)
LEMMA DivCancels ==
    ASSUME NEW a \in Nat, NEW b \in Nat \ {0}, NEW k \in Nat \ {0}
    PROVE  (a * k) \div (b * k) = a \div b
<1>1. PICK q \in Nat : q = a \div b /\ b * q <= a /\ a < b * q + b
  BY DivFloor
<1>2. (b * k) * q <= a * k
  <2>1. (b * q) * k <= a * k
    BY <1>1, TimesUp
  <2> QED
    BY <2>1
<1>3. a * k < (b * k) * q + b * k
  <2>1. (a + 1) * k <= (b * q + b) * k
    BY <1>1, TimesUp
  <2> QED
    BY <2>1
<1>4. a * k \in Nat /\ b * k \in Nat \ {0}
  OBVIOUS
<1> QED
  BY <1>1, <1>2, <1>3, <1>4, DivIs

(* What a stake a of t gets of the emission of a week. *)
Share(p, a, t) == (StakingPoolShare(WeeklyEmission(p)) * a) \div t

LEMMA EmissionParts ==
    ASSUME NEW p \in Nat
    PROVE  /\ WeeklyEmission(p) \in Nat
           /\ StakingPoolShare(WeeklyEmission(p)) \in Nat
           /\ StakingPoolShare(WeeklyEmission(p)) <= WeeklyEmission(p)
<1>1. PICK w \in Nat : w = WeeklyEmission(p)
  BY DEF WeeklyEmission, WeeklyEmissionBp
<1>2. PICK s \in Nat : s = (w * 40) \div 100 /\ s * 100 <= w * 40
  OBVIOUS
<1> QED
  BY <1>1, <1>2 DEF StakingPoolShare

LEMMA ShareParts ==
    ASSUME NEW p \in Nat, NEW a \in Nat, NEW t \in Nat \ {0}
    PROVE  /\ Share(p, a, t) \in Nat
           /\ Share(p, a, t) * t <= StakingPoolShare(WeeklyEmission(p)) * a
           /\ Share(p, a, t) <= (WeeklyEmission(p) * a) \div t
<1>1. PICK w \in Nat, s \in Nat : /\ w = WeeklyEmission(p) /\ s = StakingPoolShare(w)
                                  /\ s <= w
  BY EmissionParts
<1>2. s * a \in Nat /\ w * a \in Nat /\ s * a <= w * a
  BY <1>1, TimesUp
<1>3. (s * a) \div t \in Nat /\ t * ((s * a) \div t) <= s * a
  BY <1>2, DivFloor
<1>4. (s * a) \div t <= (w * a) \div t
  BY <1>2, DivUp
<1> QED
  BY <1>1, <1>3, <1>4 DEF Share

LEMMA RatesAre == YearBp \in Nat \ {0} /\ MaxApyBp \in Nat
  BY SMT DEF YearBp, MaxApyBp

(* The cap does not look at the number of weeks, but for rounding. *)
LEMMA CapIs ==
    ASSUME NEW a \in Nat \ {0}, NEW x \in Nat, NEW n \in Nat \ {0}
    PROVE  ApyCap(a, x * n, n) = IF (x * YearBp) \div a > MaxApyBp
                                 THEN (a * MaxApyBp * n) \div YearBp
                                 ELSE x * n
<1>1. PICK k \in Nat : k = YearBp
  BY RatesAre
<1>2. x * k \in Nat /\ a * n \in Nat \ {0} /\ x * n * k = (x * k) * n
  OBVIOUS
<1>3. ((x * k) * n) \div (a * n) = (x * k) \div a
  BY <1>2, DivCancels
<1>4. FloorDiv(x * n * k, a * n) = (x * k) \div a
  BY <1>2, <1>3 DEF FloorDiv
<1> QED
  BY <1>1, <1>4 DEF ApyCap

(* Rounding down twice, at a rate m with year k, where the rate q of the   *)
(* reward x of a week on a stake a is itself rounded down.                 *)
LEMMA CapArithmetic ==
    ASSUME NEW a \in Nat \ {0}, NEW x \in Nat, NEW n \in Nat \ {0},
           NEW k \in Nat \ {0}, NEW m \in Nat
    PROVE  /\ (a * m * n) \div k \in Nat
           /\ (x * k) \div a > m => (a * m * n) \div k <= x * n
           /\ ((a * m * n) \div k) * k < (m + 1) * a * n
           /\ ~((x * k) \div a > m) => (x * n) * k < (m + 1) * a * n
<1>1. PICK q \in Nat : /\ q = (x * k) \div a
                       /\ a * q <= x * k /\ x * k < a * q + a
  <2>1. x * k \in Nat
    OBVIOUS
  <2> QED
    BY <2>1, DivFloor
<1>2. PICK c \in Nat : c = (a * m * n) \div k /\ k * c <= a * m * n
  <2>1. a * m * n \in Nat
    OBVIOUS
  <2> QED
    BY <2>1, DivFloor
<1>3. (m + 1) * a * n = a * m * n + a * n /\ a * n > 0
  OBVIOUS
<1>4. c * k < (m + 1) * a * n
  BY <1>2, <1>3
<1>5. ASSUME q > m PROVE c <= x * n
  <2>1. (m + 1) * a <= q * a
    BY <1>5, TimesUp
  <2>2. ((m + 1) * a) * n <= (x * k) * n
    BY <1>1, <2>1, TimesUp
  <2>3. c * k < (x * n) * k
    BY <1>4, <2>2
  <2>4. CASE x * n < c
    <3>1. x * n \in Nat
      OBVIOUS
    <3>2. (x * n) * k <= c * k
      BY <2>4, <3>1, TimesUp
    <3> QED
      BY <2>3, <3>2
  <2> QED
    BY <2>4
<1>6. ASSUME ~(q > m) PROVE (x * n) * k < (m + 1) * a * n
  <2>1. q * a <= m * a
    BY <1>6, TimesUp
  <2>2. (x * k + 1) * n <= ((m + 1) * a) * n
    <3>1. x * k + 1 \in Nat /\ (m + 1) * a \in Nat /\ x * k + 1 <= (m + 1) * a
      BY <1>1, <2>1
    <3> QED
      BY <3>1, TimesUp
  <2> QED
    BY <2>2
<1> QED
  BY <1>1, <1>2, <1>4, <1>5, <1>6

LEMMA CapBounds ==
    ASSUME NEW a \in Nat \ {0}, NEW x \in Nat, NEW n \in Nat \ {0}
    PROVE  /\ ApyCap(a, x * n, n) \in Nat
           /\ ApyCap(a, x * n, n) <= x * n
           /\ ApyCap(a, x * n, n) * YearBp < (MaxApyBp + 1) * a * n
<1>1. PICK k \in Nat \ {0}, m \in Nat : k = YearBp /\ m = MaxApyBp
  BY RatesAre
<1>2. ApyCap(a, x * n, n) = IF (x * k) \div a > m THEN (a * m * n) \div k ELSE x * n
  BY <1>1, CapIs
<1>3. x * n \in Nat
  OBVIOUS
<1> QED
  BY <1>1, <1>2, <1>3, CapArithmetic

(* A reward is a share of the weekly emission, times the weeks, capped. *)
LEMMA RewardIs ==
    ASSUME NEW power \in Nat \ {0}, NEW total \in Nat \ {0}, NEW pool \in Nat
    PROVE  \E x \in Nat :
               /\ x <= (WeeklyEmission(pool) * power) \div total
               /\ \A n \in Nat \ {0} :
                      ProRataReward(power, total, pool, n) = ApyCap(power, x * n, n)
<1>1. PICK x \in Nat : /\ x = Share(pool, power, total)
                       /\ x <= (WeeklyEmission(pool) * power) \div total
  BY ShareParts
<1>2. ASSUME NEW n \in Nat \ {0}
      PROVE  ProRataReward(power, total, pool, n) = ApyCap(power, x * n, n)
  BY <1>1 DEF ProRataReward, Share
<1> QED
  BY <1>1, <1>2

LEMMA NoReward ==
    ASSUME NEW power, NEW total, NEW pool, NEW n, power = 0 \/ total = 0
    PROVE  ProRataReward(power, total, pool, n) = 0
  BY DEF ProRataReward

(* With all roundings a reward is below the yearly cap.                    *)
LEMMA RewardIsCapped ==
    ASSUME NEW power \in Nat, NEW total \in Nat, NEW pool \in Nat, NEW n \in Nat \ {0}
    PROVE  /\ ProRataReward(power, total, pool, n) \in Nat
           /\ ProRataReward(power, total, pool, n) # 0 =>
                  ProRataReward(power, total, pool, n) * YearBp
                      < (MaxApyBp + 1) * power * n
<1>1. CASE power = 0 \/ total = 0
  BY <1>1, NoReward
<1>2. CASE power # 0 /\ total # 0
  <2>1. PICK x \in Nat : ProRataReward(power, total, pool, n) = ApyCap(power, x * n, n)
    BY <1>2, RewardIs
  <2> QED
    BY <1>2, <2>1, CapBounds
<1> QED
  BY <1>1, <1>2

(* Whether the cap applies depends on the share of a week alone, and a     *)
(* floor of a sum is at least the sum of the floors.                       *)
LEMMA RewardSplits ==
    ASSUME NEW power \in Nat, NEW total \in Nat, NEW pool \in Nat,
           NEW n \in Nat \ {0}, NEW m \in Nat \ {0}
    PROVE  ProRataReward(power, total, pool, n) + ProRataReward(power, total, pool, m)
               <= ProRataReward(power, total, pool, n + m)
<1>0. n + m \in Nat \ {0}
  OBVIOUS
<1>1. CASE power = 0 \/ total = 0
  BY <1>1, NoReward
<1>2. CASE power # 0 /\ total # 0
  <2>1. PICK x \in Nat : \A i \in Nat \ {0} :
            ProRataReward(power, total, pool, i) = ApyCap(power, x * i, i)
    <3>1. power \in Nat \ {0} /\ total \in Nat \ {0}
      BY <1>2
    <3>2. \E x \in Nat :
              /\ x <= (WeeklyEmission(pool) * power) \div total
              /\ \A i \in Nat \ {0} :
                     ProRataReward(power, total, pool, i) = ApyCap(power, x * i, i)
      BY <3>1, RewardIs, Zenon
    <3> QED
      BY <3>2, Zenon
  <2>2. PICK a \in Nat \ {0} : a = power
    BY <1>2
  <2>3. PICK d \in Nat \ {0}, r \in Nat : d = YearBp /\ r = MaxApyBp
    BY RatesAre
  <2>4. ApyCap(a, x * n, n) + ApyCap(a, x * m, m) <= ApyCap(a, x * (n + m), n + m)
    <3>1. CASE (x * d) \div a > r
      <4>1. /\ ApyCap(a, x * n, n) = (a * r * n) \div d
            /\ ApyCap(a, x * m, m) = (a * r * m) \div d
            /\ ApyCap(a, x * (n + m), n + m) = (a * r * (n + m)) \div d
        BY <1>0, <2>3, <3>1, CapIs
      <4>2. PICK i \in Nat, j \in Nat : i = a * r * n /\ j = a * r * m
        OBVIOUS
      <4>3. a * r * (n + m) = i + j
        BY <4>2
      <4>4. (i \div d) + (j \div d) <= (i + j) \div d
        BY DivSplits
      <4> QED
        BY <4>1, <4>2, <4>3, <4>4
    <3>2. CASE ~((x * d) \div a > r)
      <4>1. /\ ApyCap(a, x * n, n) = x * n /\ ApyCap(a, x * m, m) = x * m
            /\ ApyCap(a, x * (n + m), n + m) = x * (n + m)
        BY <1>0, <2>3, <3>2, CapIs
      <4>2. x * n + x * m <= x * (n + m)
        OBVIOUS
      <4> QED
        BY <4>1, <4>2
    <3> QED
      BY <3>1, <3>2
  <2> QED
    BY <1>0, <2>1, <2>2, <2>4
<1> QED
  BY <1>1, <1>2

LEMMA RewardIsPreviewed ==
    ASSUME NEW power \in Nat, NEW total \in Nat, NEW pool \in Nat, NEW n \in Nat \ {0}
    PROVE  ProRataReward(power, total, pool, n) <= RewardPreview(power, total, pool, n)
<1>1. WeeklyEmission(pool) \in Nat
  BY EmissionParts
<1>2. CASE total = 0
  BY <1>2, NoReward DEF RewardPreview
<1>3. CASE power = 0 /\ total # 0
  <2>1. PICK w \in Nat : w = WeeklyEmission(pool)
    BY <1>1
  <2>2. (w * power) \div total = 0
    BY <1>3
  <2>3. RewardPreview(power, total, pool, n) = 0
    BY <1>3, <2>1, <2>2 DEF RewardPreview
  <2> QED
    BY <1>3, <2>3, NoReward
<1>4. CASE power # 0 /\ total # 0
  <2>1. PICK x \in Nat, y \in Nat :
            /\ y = (WeeklyEmission(pool) * power) \div total /\ x <= y
            /\ ProRataReward(power, total, pool, n) = ApyCap(power, x * n, n)
    <3>1. WeeklyEmission(pool) * power \in Nat
      BY <1>1
    <3>2. (WeeklyEmission(pool) * power) \div total \in Nat
      BY <1>4, <3>1, DivFloor
    <3> QED
      BY <1>4, <3>2, RewardIs
  <2>2. PICK u \in Nat : u = ProRataReward(power, total, pool, n) /\ u <= x * n
    BY <1>4, <2>1, CapBounds
  <2>3. x * n <= y * n
    BY <2>1, TimesUp
  <2>4. RewardPreview(power, total, pool, n) = y * n
    BY <1>4, <2>1 DEF RewardPreview
  <2>5. u <= y * n
    BY <2>2, <2>3
  <2> QED
    BY <2>2, <2>4, <2>5
<1> QED
  BY <1>2, <1>3, <1>4

(* The ranges of months leave no gap, and their multipliers rise. *)
LEMMA MultiplierGrows ==
    ASSUME NEW n \in Nat
    PROVE  /\ PowerMultiplier(n) \in Nat
           /\ PowerMultiplier(n) <= PowerMultiplier(n + 1)
  BY DEF PowerMultiplier

(* A longer lock never gives less power, no duration falls between the     *)
(* ranges, and two deposits never give more power than one of their sum    *)
(* (staking.service.ts:52, :363-371).                                      *)
THEOREM PowerAlwaysGrows ==
    ASSUME NEW stake \in Nat, NEW more \in Nat, NEW months \in Nat
    PROVE  /\ StakingPower(stake, months) <= StakingPower(stake, months + 1)
           /\ StakingPower(stake, months) + StakingPower(more, months)
                  <= StakingPower(stake + more, months)
<1>1. PICK k \in Nat, m \in Nat : /\ k = PowerMultiplier(months) /\ k <= m
                                  /\ m = PowerMultiplier(months + 1)
  <2>1. months + 1 \in Nat
    OBVIOUS
  <2> QED
    BY <2>1, MultiplierGrows
<1>2. (stake * k) \div 100 <= (stake * m) \div 100
  <2>1. k * stake <= m * stake
    BY <1>1, TimesUp
  <2>2. stake * k \in Nat /\ stake * m \in Nat /\ stake * k <= stake * m
    BY <2>1
  <2> QED
    BY <2>2, DivUp
<1>3. (stake * k) \div 100 + (more * k) \div 100 <= ((stake + more) * k) \div 100
  <2>1. stake * k \in Nat /\ more * k \in Nat /\ (stake + more) * k = stake * k + more * k
    OBVIOUS
  <2>2. (stake * k) \div 100 + (more * k) \div 100 <= (stake * k + more * k) \div 100
    BY <2>1, DivSplits
  <2> QED
    BY <2>1, <2>2
<1> QED
  BY <1>1, <1>2, <1>3 DEF StakingPower

(***************************************************************************)
(* The claims                                                              *)
(***************************************************************************)

(* A reward that pays for at least a week, within the cap.                 *)
Worthy(amount, p, weeks) ==
    /\ weeks >= 1 /\ amount >= 1
    /\ amount * YearBp < (MaxApyBp + 1) * Power[p] * weeks

Receipts ==
    \A n \in Nfts : nft[n] # Null =>
        Worthy(nft[n].rewardAmount, nft[n].position, nft[n].weeks)

(* A request is young, what it names is there, and it counted its weeks    *)
(* from a time before its own.                                             *)
ClaimInv(q) ==
    q.pc # "idle" =>
        /\ q.nft \in Nfts
        /\ q.now <= clock /\ clock <= q.now + RequestLifetime
        /\ q.pc = "vest" => nft[q.nft] # Null
        /\ q.pc # "vest" => q.position \in Positions /\ Exists(q.position)
        /\ q.pc = "state" => q.lastRewardTs <= q.now
        /\ q.pc = "create" => Worthy(q.reward, q.position, q.weeks)

IInv == /\ TypeOK
        /\ DistributionInv
        /\ \A c \in Claims : ClaimInv(claim[c])
        /\ Receipts

LEMMA IdleClaimIs == IdleClaim \in Claim /\ IdleClaim.pc = "idle"
  BY DEF IdleClaim, Claim

LEMMA InitIInv == Init => IInv
  BY DistributionInitInv, IdleClaimIs
     DEF Init, IInv, TypeOK, DistributionInv, ClaimInv, Receipts

LEMMA Facts ==
    ASSUME IInv
    PROVE  /\ DistributionInv /\ Receipts /\ aborts \in Nat
           /\ unsettled \in SUBSET Nfts
           /\ nft \in [Nfts -> NftRow \union {Null}]
           /\ claim \in [Claims -> Claim]
           /\ \A c \in Claims : ClaimInv(claim[c])
           /\ clock \in Nat /\ clock <= clock
           /\ clock <= clock + RequestLifetime
  BY PeriodAssumption DEF IInv, TypeOK, DistributionTypeOK

(* Nothing that a request named disappears. *)
NothingIsLost ==
    /\ \A p \in Positions : Exists(p) => Exists(p)'
    /\ \A n \in Nfts : nft[n] # Null => nft'[n] # Null

(* A request that waits while others go on. *)
LEMMA ClaimWaits ==
    ASSUME NEW q \in Claim, ClaimInv(q), NothingIsLost,
           clock \in Nat, clock' \in Nat, clock <= clock',
           q.pc # "idle" => clock' <= q.now + RequestLifetime
    PROVE  ClaimInv(q)'
<1> SUFFICES ASSUME q.pc # "idle" PROVE ClaimInv(q)'
  BY DEF ClaimInv
<1>1. q.nft \in Nfts /\ q.now <= clock /\ q.now \in Nat
  BY DEF ClaimInv, Claim
<1>2. q.now <= clock' /\ clock' <= q.now + RequestLifetime
  BY <1>1
<1>3. q.pc = "vest" => nft'[q.nft] # Null
  BY <1>1 DEF ClaimInv, NothingIsLost
<1>4. q.pc # "vest" => q.position \in Positions /\ Exists(q.position)'
  BY DEF ClaimInv, NothingIsLost
<1> QED
  BY <1>1, <1>2, <1>3, <1>4 DEF ClaimInv

(* One request goes on to q, the others wait. *)
LEMMA OneClaim ==
    ASSUME IInv, NEW c \in Claims, NEW q \in Claim,
           claim' = [claim EXCEPT ![c] = q],
           ClaimInv(q)', DistributionInv', NothingIsLost, UNCHANGED clock,
           nft' \in [Nfts -> NftRow \union {Null}], Receipts',
           aborts' \in Nat, unsettled' \in SUBSET Nfts
    PROVE  IInv'
<1>1. claim' \in [Claims -> Claim]
  BY Facts
<1>2. TypeOK'
  BY <1>1 DEF TypeOK, DistributionInv
<1>3. ASSUME NEW d \in Claims PROVE ClaimInv(claim[d])'
  <2>1. CASE d = c
    <3>1. claim'[d] = q
      BY <2>1, Facts
    <3> QED
      BY <3>1 DEF ClaimInv
  <2>2. CASE d # c
    <3>1. PICK r \in Claim : claim[d] = r /\ claim'[d] = r
      BY <2>2, Facts
    <3>2. ClaimInv(r) /\ (r.pc # "idle" => clock' <= r.now + RequestLifetime)
      <4>1. ClaimInv(r)
        BY <3>1, Facts
      <4> QED
        BY <4>1 DEF ClaimInv
    <3>3. ClaimInv(r)'
      BY <3>2, ClaimWaits, Facts
    <3> QED
      BY <3>1, <3>3 DEF ClaimInv
  <2> QED
    BY <2>1, <2>2
<1> QED
  BY <1>2, <1>3 DEF IInv

LEMMA IdleInv == ClaimInv(IdleClaim)'
  BY IdleClaimIs DEF ClaimInv

(* A step of a request that writes none of the rows. *)
LEMMA OnlyClaim ==
    ASSUME IInv, NEW c \in Claims, NEW q \in Claim,
           claim' = [claim EXCEPT ![c] = q], ClaimInv(q),
           UNCHANGED <<distributionVars, nft>>,
           aborts' \in Nat, unsettled' \in SUBSET Nfts
    PROVE  IInv'
<1>1. DistributionInv'
  BY DistributionNextInv, Facts
<1>2. NothingIsLost /\ UNCHANGED clock
  BY DEF NothingIsLost, Exists, distributionVars
<1>3. ClaimInv(q)'
  BY DEF ClaimInv, Exists, distributionVars
<1>4. Receipts' /\ nft' \in [Nfts -> NftRow \union {Null}]
  BY Facts DEF Receipts
<1> QED
  BY <1>1, <1>2, <1>3, <1>4, OneClaim

LEMMA ReplyInv ==
    ASSUME IInv, NEW c \in Claims, Reply(c),
           UNCHANGED <<distributionVars, nft>>,
           aborts' \in Nat, unsettled' \in SUBSET Nfts
    PROVE  IInv'
  BY OnlyClaim, IdleClaimIs DEF Reply, ClaimInv

LEMMA ReadEffect ==
    ASSUME IInv, NEW c \in Claims, NEW p \in Positions, NEW n \in Nfts,
           ClaimRead(c, p, n)
    PROVE  /\ Exists(p) /\ position[p] \in PositionRow
           /\ position[p].lastRewardTs <= clock
           /\ \E q \in Claim : /\ claim' = [claim EXCEPT ![c] = q]
                              /\ q.pc = "state" /\ q.position = p /\ q.nft = n
                              /\ q.now = clock
                              /\ q.lastRewardTs = position[p].lastRewardTs
<1>1. Exists(p) /\ position[p] \in PositionRow /\ position[p].lastRewardTs <= clock
  BY Facts, DistributionFacts DEF ClaimRead, Active, Exists, DistributionInv
<1> DEFINE q == [IdleClaim EXCEPT !.pc = "state", !.position = p, !.nft = n,
                                  !.now = clock,
                                  !.lastRewardTs = position[p].lastRewardTs]
<1>2. position[p].lastRewardTs \in Int
  BY <1>1 DEF PositionRow
<1>3. /\ q \in Claim /\ q.pc = "state" /\ q.position = p /\ q.nft = n
      /\ q.now = clock /\ q.lastRewardTs = position[p].lastRewardTs
  BY <1>2, Facts DEF IdleClaim, Claim
<1>4. claim' = [claim EXCEPT ![c] = q]
  BY DEF ClaimRead
<1> HIDE DEF q
<1> QED
  BY <1>1, <1>3, <1>4

LEMMA ClaimReadInv ==
    ASSUME IInv, NEW c \in Claims, NEW p \in Positions, NEW n \in Nfts,
           ClaimRead(c, p, n)
    PROVE  IInv'
<1>1. Exists(p) /\ position[p].lastRewardTs <= clock
  BY ReadEffect
<1>2. PICK q \in Claim : /\ claim' = [claim EXCEPT ![c] = q]
                         /\ q.pc = "state" /\ q.position = p /\ q.nft = n
                         /\ q.now = clock /\ q.lastRewardTs = position[p].lastRewardTs
  BY ReadEffect
<1>3. ClaimInv(q)
  BY <1>1, <1>2, Facts DEF ClaimInv
<1> QED
  BY <1>2, <1>3, OnlyClaim, Facts DEF ClaimRead

LEMMA WorthIs ==
    ASSUME DistributionInv, program # Null, NEW p \in Positions, NEW weeks \in Nat \ {0}
    PROVE  /\ Worth(p, weeks) \in Nat
           /\ Worth(p, weeks) # 0 => Worthy(Worth(p, weeks), p, weeks)
           /\ Worth(p, weeks) <= RewardPreview(Power[p], program.totalStakingPower,
                                               program.totalRewardPool, weeks)
           /\ \A more \in Nat \ {0} :
                  Worth(p, weeks) + Worth(p, more) <= Worth(p, weeks + more)
<1>1. PICK total \in Nat, pool \in Nat, power \in Nat :
          /\ total = program.totalStakingPower /\ pool = program.totalRewardPool
          /\ power = Power[p]
  BY DistributionFacts, PowerAssumption, PoolAssumption DEF ProgramRow
<1>2. \A n : Worth(p, n) = ProRataReward(power, total, pool, n)
  BY <1>1 DEF Worth
<1>3. PICK reward : reward = ProRataReward(power, total, pool, weeks)
  OBVIOUS
<1>4. /\ reward \in Nat
      /\ reward # 0 => reward * YearBp < (MaxApyBp + 1) * power * weeks
      /\ reward <= RewardPreview(power, total, pool, weeks)
  BY <1>3, RewardIsCapped, RewardIsPreviewed
<1>5. reward # 0 => Worthy(reward, p, weeks)
  BY <1>1, <1>4 DEF Worthy
<1>6. ASSUME NEW more \in Nat \ {0}
      PROVE  Worth(p, weeks) + Worth(p, more) <= Worth(p, weeks + more)
  <2>1. ProRataReward(power, total, pool, weeks) + ProRataReward(power, total, pool, more)
            <= ProRataReward(power, total, pool, weeks + more)
    BY RewardSplits
  <2> QED
    BY <1>2, <2>1
<1>7. Worth(p, weeks) = reward
  BY <1>2, <1>3
<1> QED
  BY <1>1, <1>4, <1>5, <1>6, <1>7

(* A claim that goes on after the second read has weeks worth something.   *)
LEMMA StateEffect ==
    ASSUME IInv, NEW c \in Claims, NEW q \in Claim, claim[c] = q,
           ClaimState(c), ~Reply(c)
    PROVE  \E r \in Claim : /\ claim' = [claim EXCEPT ![c] = r]
                            /\ r.pc = "create" /\ r.position = q.position
                            /\ r.nft = q.nft /\ r.now = q.now
                            /\ r.weeks = WeeksElapsed(q)
                            /\ Worthy(r.reward, r.position, r.weeks)
<1>1. PICK weeks : weeks = WeeksElapsed(q)
  OBVIOUS
<1>2. q.position \in Positions /\ q.lastRewardTs <= q.now
  BY Facts DEF ClaimInv, ClaimState, ClaimAt
<1>3. weeks \in Nat
  <2>1. q.now - q.lastRewardTs \in Nat
    BY <1>2 DEF Claim
  <2> QED
    BY <1>1, <2>1, DivFloor, PeriodAssumption DEF WeeksElapsed
<1>4. PICK reward :
          reward = IF program = Null THEN 0 ELSE Worth(q.position, weeks)
  OBVIOUS
<1>5. /\ weeks # 0 /\ reward # 0
      /\ claim' = [claim EXCEPT ![c] =
             [claim[c] EXCEPT !.pc = "create", !.weeks = weeks, !.reward = reward]]
  BY <1>1, <1>4 DEF ClaimState
<1>6. reward \in Nat /\ Worthy(reward, q.position, weeks)
  BY <1>2, <1>3, <1>4, <1>5, WorthIs, Facts
<1> DEFINE r == [q EXCEPT !.pc = "create", !.weeks = weeks, !.reward = reward]
<1>7. /\ r \in Claim /\ r.pc = "create" /\ r.position = q.position
      /\ r.nft = q.nft /\ r.now = q.now /\ r.weeks = weeks /\ r.reward = reward
  BY <1>3, <1>6 DEF Claim
<1>8. claim' = [claim EXCEPT ![c] = r]
  BY <1>5
<1> HIDE DEF r
<1> QED
  BY <1>1, <1>6, <1>7, <1>8

LEMMA ClaimStateInv ==
    ASSUME IInv, NEW c \in Claims, ClaimState(c)
    PROVE  IInv'
<1>1. PICK q \in Claim : claim[c] = q
  BY Facts
<1>2. /\ q.pc = "state" /\ ClaimInv(q)
      /\ UNCHANGED <<distributionVars, nft, unsettled, aborts>>
  BY <1>1, Facts DEF ClaimState, ClaimAt
<1>3. CASE Reply(c)
  BY <1>2, <1>3, ReplyInv, Facts
<1>4. CASE ~Reply(c)
  <2>1. PICK r \in Claim : /\ claim' = [claim EXCEPT ![c] = r]
                           /\ r.pc = "create" /\ r.position = q.position
                           /\ r.nft = q.nft /\ r.now = q.now
                           /\ Worthy(r.reward, r.position, r.weeks)
    BY <1>1, <1>4, StateEffect
  <2>2. ClaimInv(r)
    BY <1>2, <2>1 DEF ClaimInv
  <2> QED
    BY <1>2, <2>1, <2>2, OnlyClaim, Facts
<1> QED
  BY <1>3, <1>4

(* A row of the table of NFTs is written. *)
LEMMA NftWritten ==
    ASSUME IInv, NEW n \in Nfts, NEW row \in NftRow,
           nft' = [nft EXCEPT ![n] = row],
           Worthy(row.rewardAmount, row.position, row.weeks),
           UNCHANGED position
    PROVE  /\ nft' \in [Nfts -> NftRow \union {Null}] /\ Receipts'
           /\ NothingIsLost /\ nft'[n] = row /\ row # Null
<1>1. /\ nft' \in [Nfts -> NftRow \union {Null}] /\ nft'[n] = row
      /\ row # Null /\ \A m \in Nfts \ {n} : nft'[m] = nft[m]
  BY Facts, NftNullAssumption
<1>2. Receipts'
  <2> SUFFICES ASSUME NEW m \in Nfts, nft'[m] # Null
               PROVE  Worthy(nft'[m].rewardAmount, nft'[m].position, nft'[m].weeks)
    BY DEF Receipts, Worthy
  <2>1. CASE m = n
    BY <1>1, <2>1
  <2>2. CASE m # n
    <3>1. nft'[m] = nft[m]
      BY <1>1, <2>2
    <3> QED
      BY <3>1, Facts DEF Receipts
  <2> QED
    BY <2>1, <2>2
<1>3. NothingIsLost
  BY <1>1 DEF NothingIsLost, Exists
<1> QED
  BY <1>1, <1>2, <1>3

(* The create of an NFT whose seed was not used before. *)
LEMMA CreateEffect ==
    ASSUME IInv, NEW c \in Claims, NEW q \in Claim, claim[c] = q,
           ClaimCreate(c), nft[q.nft] = Null
    PROVE  \E r \in Claim, row \in NftRow :
               /\ claim' = [claim EXCEPT ![c] = r]
               /\ r.pc = "update" /\ r.position = q.position
               /\ r.nft = q.nft /\ r.now = q.now
               /\ nft' = [nft EXCEPT ![q.nft] = row]
               /\ Worthy(row.rewardAmount, row.position, row.weeks)
               /\ row.position = q.position /\ row.weeks = q.weeks
               /\ row.vestTs = q.now + VestingPeriod
<1>1. /\ q.position \in Positions /\ Worthy(q.reward, q.position, q.weeks)
      /\ q.weeks \in Nat /\ q.reward \in Nat /\ q.now \in Nat
  BY Facts DEF ClaimInv, Claim, ClaimCreate, ClaimAt
<1>2. q.now + VestingPeriod \in Nat
  BY <1>1, VestingAssumption
<1> DEFINE r == [q EXCEPT !.pc = "update"]
           row == Minted(q)
<1>3. /\ r \in Claim /\ r.pc = "update" /\ r.position = q.position
      /\ r.nft = q.nft /\ r.now = q.now
  BY DEF Claim
<1>4. /\ row \in NftRow /\ Worthy(row.rewardAmount, row.position, row.weeks)
      /\ row.position = q.position /\ row.weeks = q.weeks
      /\ row.vestTs = q.now + VestingPeriod
  BY <1>1, <1>2 DEF Minted, NftRow
<1>5. claim' = [claim EXCEPT ![c] = r] /\ nft' = [nft EXCEPT ![q.nft] = row]
  BY DEF ClaimCreate
<1> HIDE DEF r, row
<1> QED
  BY <1>3, <1>4, <1>5

LEMMA ClaimCreateInv ==
    ASSUME IInv, NEW c \in Claims, ClaimCreate(c)
    PROVE  IInv'
<1>1. PICK q \in Claim : claim[c] = q
  BY Facts
<1>2. /\ q.pc = "create" /\ ClaimInv(q) /\ q.nft \in Nfts
      /\ UNCHANGED <<distributionVars, unsettled, aborts>>
  BY <1>1, Facts DEF ClaimCreate, ClaimAt, ClaimInv
<1>3. CASE nft[q.nft] # Null
  BY <1>1, <1>2, <1>3, ReplyInv, Facts DEF ClaimCreate
<1>4. CASE nft[q.nft] = Null
  <2>1. PICK r \in Claim, row \in NftRow :
            /\ claim' = [claim EXCEPT ![c] = r]
            /\ r.pc = "update" /\ r.position = q.position
            /\ r.nft = q.nft /\ r.now = q.now
            /\ nft' = [nft EXCEPT ![q.nft] = row]
            /\ Worthy(row.rewardAmount, row.position, row.weeks)
    BY <1>1, <1>4, CreateEffect
  <2>2. UNCHANGED <<position, clock>>
    BY <1>2 DEF distributionVars
  <2>3. /\ nft' \in [Nfts -> NftRow \union {Null}] /\ Receipts' /\ NothingIsLost
    BY <1>2, <2>1, <2>2, NftWritten
  <2>4. ClaimInv(r)'
    <3>1. r.position \in Positions /\ Exists(r.position)'
      BY <1>2, <2>1, <2>2 DEF ClaimInv, Exists
    <3> QED
      BY <1>2, <2>1, <2>2, <3>1 DEF ClaimInv
  <2>5. DistributionInv' /\ aborts' \in Nat /\ unsettled' \in SUBSET Nfts
    BY <1>2, DistributionNextInv, Facts
  <2> QED
    BY <2>1, <2>2, <2>3, <2>4, <2>5, OneClaim
<1> QED
  BY <1>3, <1>4

LEMMA ClaimUpdateInv ==
    ASSUME IInv, NEW c \in Claims, ClaimUpdate(c)
    PROVE  IInv'
<1>1. PICK q \in Claim : claim[c] = q
  BY Facts
<1>2. /\ q.pc = "update" /\ ClaimInv(q) /\ q.now \in Nat
      /\ UNCHANGED <<clock, program, queueVars, worker, admin, bookVars,
                   nft, unsettled, aborts>>
  BY <1>1, Facts DEF ClaimUpdate, ClaimAt, Claim
<1>3. PICK p \in Positions : p = q.position
  BY <1>2 DEF ClaimInv
<1>4. Exists(p) /\ position[p] \in PositionRow /\ q.now <= clock
      /\ q.now + RequestLifetime >= clock
  BY <1>2, <1>3, Facts, DistributionFacts, PeriodAssumption DEF ClaimInv, Exists
<1>5. PICK row \in PositionRow : /\ position' = [position EXCEPT ![p] = row]
                                 /\ row.lastRewardTs = q.now
  <2> DEFINE row == [position[p] EXCEPT !.lastRewardTs = q.now, !.lastClaimTs = q.now]
  <2>1. row \in PositionRow /\ row.lastRewardTs = q.now
    <3>1. position[p] \in PositionRow /\ q.now \in Nat
      BY <1>2, <1>4
    <3>2. PICK old \in PositionRow, t \in Nat : old = position[p] /\ t = q.now
      BY <3>1
    <3>3. /\ [old EXCEPT !.lastRewardTs = t, !.lastClaimTs = t] \in PositionRow
          /\ [old EXCEPT !.lastRewardTs = t, !.lastClaimTs = t].lastRewardTs = t
      <4>0. /\ [old EXCEPT !.lastRewardTs = t] \in PositionRow
            /\ [old EXCEPT !.lastRewardTs = t].lastRewardTs = t
        BY DEF PositionRow
      <4>1. PICK one \in PositionRow :
                one = [old EXCEPT !.lastRewardTs = t] /\ one.lastRewardTs = t
        BY <4>0
      <4>2. /\ [one EXCEPT !.lastClaimTs = t] \in PositionRow
            /\ [one EXCEPT !.lastClaimTs = t].lastRewardTs = t
        BY <4>1 DEF PositionRow
      <4> QED
        BY <4>1, <4>2
    <3> QED
      BY <3>2, <3>3
  <2>2. position' = [position EXCEPT ![p] = row]
    BY <1>1, <1>3 DEF ClaimUpdate
  <2> HIDE DEF row
  <2> QED
    BY <2>1, <2>2
<1>6. position' \in [Positions -> PositionRow \union {Null}] /\ RowsGoOn
  BY <1>2, <1>4, <1>5, OneRow, Facts
<1>7. DistributionInv'
  BY <1>2, <1>6, RowWritten, Facts
<1>8. /\ NothingIsLost /\ Receipts' /\ nft' \in [Nfts -> NftRow \union {Null}]
  BY <1>2, <1>6, Facts DEF NothingIsLost, RowsGoOn, Receipts
<1> QED
  BY <1>2, <1>7, <1>8, OneClaim, IdleClaimIs, IdleInv, Facts DEF ClaimUpdate, Reply

LEMMA VestReadEffect ==
    ASSUME IInv, NEW c \in Claims, NEW n \in Nfts, VestRead(c, n)
    PROVE  \E q \in Claim : /\ claim' = [claim EXCEPT ![c] = q]
                            /\ q.pc = "vest" /\ q.nft = n /\ q.now = clock
<1> DEFINE q == [IdleClaim EXCEPT !.pc = "vest", !.nft = n, !.now = clock]
<1>1. q \in Claim /\ q.pc = "vest" /\ q.nft = n /\ q.now = clock
  <2>1. clock \in Nat /\ IdleClaim \in Claim
    BY IdleClaimIs, Facts
  <2> QED
    BY <2>1 DEF Claim
<1>2. claim' = [claim EXCEPT ![c] = q]
  BY DEF VestRead
<1> HIDE DEF q
<1> QED
  BY <1>1, <1>2

LEMMA VestReadInv ==
    ASSUME IInv, NEW c \in Claims, NEW n \in Nfts, VestRead(c, n)
    PROVE  IInv'
<1>1. PICK q \in Claim : /\ claim' = [claim EXCEPT ![c] = q]
                         /\ q.pc = "vest" /\ q.nft = n /\ q.now = clock
  BY VestReadEffect
<1>2. ClaimInv(q)
  BY <1>1, Facts DEF ClaimInv, VestRead
<1> QED
  BY <1>1, <1>2, OnlyClaim, Facts DEF VestRead

LEMMA VestEffect ==
    ASSUME IInv, NEW c \in Claims, VestWrite(c)
    PROVE  \E n \in Nfts : \E row \in NftRow :
               /\ nft[n] # Null /\ nft[n] \in NftRow
               /\ row = [nft[n] EXCEPT !.isActive = FALSE]
               /\ nft' = [nft EXCEPT ![n] = row]
               /\ Worthy(row.rewardAmount, row.position, row.weeks)
<1>1. PICK q \in Claim : claim[c] = q
  BY Facts
<1>2. q.pc = "vest" /\ ClaimInv(q)
  BY <1>1, Facts DEF VestWrite, ClaimAt
<1>3. PICK n \in Nfts : n = q.nft /\ nft[n] # Null
  BY <1>2 DEF ClaimInv
<1>4. /\ nft[n] \in NftRow
      /\ Worthy(nft[n].rewardAmount, nft[n].position, nft[n].weeks)
  BY <1>3, Facts DEF Receipts
<1>5. PICK row : row = [nft[n] EXCEPT !.isActive = FALSE]
  OBVIOUS
<1>6. row \in NftRow /\ Worthy(row.rewardAmount, row.position, row.weeks)
  BY <1>4, <1>5 DEF NftRow
<1>7. nft' = [nft EXCEPT ![n] = row]
  BY <1>1, <1>3, <1>5 DEF VestWrite
<1> QED
  BY <1>3, <1>4, <1>5, <1>6, <1>7

LEMMA VestWriteInv ==
    ASSUME IInv, NEW c \in Claims, VestWrite(c)
    PROVE  IInv'
<1>1. PICK n \in Nfts, row \in NftRow :
          /\ nft' = [nft EXCEPT ![n] = row]
          /\ Worthy(row.rewardAmount, row.position, row.weeks)
  BY VestEffect
<1>2. Reply(c) /\ UNCHANGED <<distributionVars, unsettled, aborts>>
  BY DEF VestWrite
<1>3. UNCHANGED <<position, clock>>
  BY <1>2 DEF distributionVars
<1>4. /\ nft' \in [Nfts -> NftRow \union {Null}] /\ Receipts' /\ NothingIsLost
  BY <1>1, <1>3, NftWritten
<1>5. DistributionInv' /\ aborts' \in Nat /\ unsettled' \in SUBSET Nfts
  BY <1>2, DistributionNextInv, Facts
<1> QED
  BY <1>2, <1>3, <1>4, <1>5, OneClaim, IdleClaimIs, IdleInv DEF Reply

LEMMA ClaimAbortInv ==
    ASSUME IInv, NEW c \in Claims, ClaimAbort(c)
    PROVE  IInv'
<1>1. aborts' \in Nat
  BY Facts DEF ClaimAbort
<1>2. unsettled' \in SUBSET Nfts
  <2>1. ClaimAt(c, "update") => claim[c].nft \in Nfts
    BY Facts DEF ClaimInv, ClaimAt
  <2> QED
    BY <2>1, Facts DEF ClaimAbort
<1> QED
  BY <1>1, <1>2, ReplyInv DEF ClaimAbort

(* The steps of the others leave the claims and the NFTs alone. *)
LEMMA OthersInv ==
    ASSUME IInv, DistributionStep \/ Tick, UNCHANGED rewardVars
    PROVE  IInv'
<1>1. DistributionInv'
  BY StepInv, ClockInv, Facts DEF Tick
<1>2. UNCHANGED <<nft, claim, unsettled, aborts>>
  BY DEF rewardVars
<1>3. TypeOK' /\ Receipts'
  BY <1>1, <1>2, Facts DEF TypeOK, DistributionInv, Receipts
<1>4. ASSUME NEW p \in Positions, Exists(p) PROVE Exists(p)'
  <2>1. CASE UNCHANGED position
    BY <1>4, <2>1 DEF Exists
  <2>2. CASE ~UNCHANGED position
    <3>1. PICK v \in Positions, row \in PositionRow : position' = [position EXCEPT ![v] = row]
      BY <2>2, PositionWrittenBy, Facts DEF Tick
    <3> QED
      BY <1>4, <3>1, NullAssumption, Facts, DistributionFacts DEF Exists
  <2> QED
    BY <2>1, <2>2
<1>5. NothingIsLost
  BY <1>2, <1>4 DEF NothingIsLost
<1>6. clock' \in Nat /\ clock <= clock'
  <2>1. clock \in Nat /\ clock' \in Nat
    BY <1>1, Facts DEF DistributionInv, DistributionTypeOK
  <2>2. clock' = clock \/ clock' = clock + 1
    BY ClockGoesOn DEF Tick, DistributionTick
  <2> QED
    BY <2>1, <2>2
<1>7. ASSUME NEW d \in Claims PROVE ClaimInv(claim[d])'
  <2>1. PICK r \in Claim : claim[d] = r /\ claim'[d] = r
    BY <1>2, Facts
  <2>2. ClaimInv(r)
    BY <2>1, Facts
  <2>3. r.pc # "idle" => clock' <= r.now + RequestLifetime
    <3>1. CASE Tick
      <4>1. clock' = clock + 1 /\ (r.pc = "idle" \/ clock < r.now + RequestLifetime)
        BY <2>1, <3>1 DEF Tick, DistributionTick, ClaimFree, Young
      <4> QED
        BY <4>1, Facts, PeriodAssumption DEF Claim
    <3>2. CASE DistributionStep
      BY <2>2, <3>2, ClockGoesOn DEF ClaimInv
    <3> QED
      BY <3>1, <3>2
  <2>4. ClaimInv(r)'
    BY <1>5, <1>6, <2>2, <2>3, ClaimWaits, Facts
  <2> QED
    BY <2>1, <2>4 DEF ClaimInv
<1> QED
  BY <1>1, <1>3, <1>7 DEF IInv

LEMMA NextInv == IInv /\ [Next]_vars => IInv'
<1> SUFFICES ASSUME IInv, [Next]_vars PROVE IInv'
  OBVIOUS
<1>1. CASE UNCHANGED vars
  <2>1. UNCHANGED <<distributionVars, nft, claim, unsettled, aborts, position, clock>>
    BY <1>1 DEF vars, rewardVars, distributionVars
  <2>2. DistributionInv'
    BY <2>1, DistributionNextInv, Facts
  <2>3. TypeOK' /\ Receipts'
    BY <2>1, <2>2, Facts DEF TypeOK, DistributionInv, Receipts
  <2>4. \A c \in Claims : ClaimInv(claim[c])'
    BY <2>1, Facts DEF ClaimInv, Exists
  <2> QED
    BY <2>2, <2>3, <2>4 DEF IInv
<1>2. CASE DistributionStep /\ UNCHANGED rewardVars
  BY <1>2, OthersInv
<1>3. CASE Tick
  BY <1>3, OthersInv DEF Tick
<1>4. ASSUME NEW c \in Claims, ClaimStep(c) PROVE IInv'
  BY <1>4, ClaimReadInv, ClaimStateInv, ClaimCreateInv, ClaimUpdateInv, VestReadInv,
     VestWriteInv, ClaimAbortInv DEF ClaimStep
<1> QED
  BY <1>1, <1>2, <1>3, <1>4 DEF Next

(* The inductive invariant holds in every state of the composition. *)
THEOREM InductiveInvariant == Spec => []IInv
<1> QED
  BY InitIInv, NextInv, PTL DEF Spec

(* Every variable has its type, those of the distribution included. *)
THEOREM TypeCorrect == Spec => []TypeOK
<1>1. IInv => TypeOK
  BY DEF IInv
<1> QED
  BY <1>1, InductiveInvariant, PTL

(* No NFT is minted for nothing or less, in whatever order claims and      *)
(* distributions write lastRewardTs: a claim reads it before it takes its  *)
(* time (rewards.service.ts:41, :64-80).                                   *)
THEOREM ReceiptsPay == Spec => []ClaimsPay
<1>1. IInv => ClaimsPay
  BY DEF IInv, Receipts, Worthy, ClaimsPay
<1> QED
  BY <1>1, InductiveInvariant, PTL

(* For every pool, every power and every number of weeks, what is paid is  *)
(* below 75.01 per cent of the power a year, with all roundings            *)
(* (rewards.service.ts:291-305).                                           *)
THEOREM CapAlwaysHolds == Spec => []CapHolds
<1>1. IInv => CapHolds
  BY DEF IInv, Receipts, Worthy, CapHolds
<1> QED
  BY <1>1, InductiveInvariant, PTL

(* No way to cut a number of weeks in two claims pays more than one claim: *)
(* whether the cap applies depends on the share of a week alone            *)
(* (rewards.service.ts:281-304).                                           *)
THEOREM SplittingNeverGains == Spec => []SplittingNeverPays
<1>1. IInv => SplittingNeverPays
  <2> SUFFICES ASSUME IInv, program # Null, NEW p \in Positions,
                      NEW some \in 1..(MaxTime \div Week), NEW more \in 1..(MaxTime \div Week)
               PROVE  Worth(p, some) + Worth(p, more) <= Worth(p, some + more)
    BY DEF SplittingNeverPays
  <2>1. some \in Nat \ {0} /\ more \in Nat \ {0}
    OBVIOUS
  <2> QED
    BY <2>1, WorthIs, Facts
<1> QED
  BY <1>1, InductiveInvariant, PTL

(* A preview is never below the claim that is computed with it, for all    *)
(* values (insights.service.ts:148-161, rewards.service.ts:270-305).       *)
THEOREM PreviewsCoverClaims == Spec => PreviewCoversClaim
<1>1. IInv /\ [Next]_vars =>
        [\A c \in Claims : ClaimAt(c, "state") /\ ClaimAt(c, "create")' =>
            LET q == claim'[c]
            IN  q.reward <= RewardPreview(Power[q.position], program.totalStakingPower,
                                          program.totalRewardPool, q.weeks)]_vars
  <2> SUFFICES ASSUME IInv, [Next]_vars, NEW c \in Claims,
                      ClaimAt(c, "state"), ClaimAt(c, "create")'
               PROVE  claim'[c].reward <= RewardPreview(Power[claim'[c].position],
                          program.totalStakingPower, program.totalRewardPool,
                          claim'[c].weeks)
    OBVIOUS
  <2>1. claim[c] \in Claim /\ claim \in [Claims -> Claim] /\ ClaimInv(claim[c])
    BY Facts
  <2>2. ClaimState(c)
    <3>1. claim' # claim /\ claim'[c] # claim[c]
      BY DEF ClaimAt
    <3>2. PICK d \in Claims : ClaimStep(d)
      BY <3>1 DEF Next, Tick, vars, rewardVars
    <3>3. d = c
      BY <2>1, <3>1, <3>2 DEF ClaimStep, ClaimRead, ClaimState, ClaimCreate, ClaimUpdate,
         VestRead, VestWrite, ClaimAbort, Reply
    <3> QED
      BY <3>2, <3>3, <2>1, IdleClaimIs DEF ClaimStep, ClaimRead, ClaimCreate, ClaimUpdate,
         VestRead, VestWrite, ClaimAbort, Reply, ClaimAt, ClaimFree
  <2>3. PICK weeks, reward :
            /\ weeks = WeeksElapsed(claim[c])
            /\ reward = IF program = Null THEN 0 ELSE Worth(claim[c].position, weeks)
    OBVIOUS
  <2>4. /\ weeks # 0 /\ reward # 0
        /\ claim' = [claim EXCEPT ![c].pc = "create", ![c].weeks = weeks,
                                  ![c].reward = reward]
    BY <2>1, <2>2, <2>3, IdleClaimIs DEF ClaimState, ClaimAt, Reply
  <2>5. /\ claim'[c].reward = reward /\ claim'[c].weeks = weeks
        /\ claim'[c].position = claim[c].position
    BY <2>1, <2>4 DEF Claim
  <2>6. claim[c].position \in Positions /\ weeks \in Nat \ {0}
    <3>1. claim[c].now - claim[c].lastRewardTs \in Nat
      BY <2>1 DEF ClaimInv, ClaimAt, Claim
    <3> QED
      BY <2>1, <2>3, <2>4, <3>1, DivFloor, PeriodAssumption
         DEF WeeksElapsed, ClaimInv, ClaimAt
  <2>7. program # Null /\ reward = Worth(claim[c].position, weeks)
    BY <2>3, <2>4
  <2> QED
    BY <2>5, <2>6, <2>7, WorthIs, Facts
<1> QED
  BY <1>1, InductiveInvariant, PTL DEF Spec, PreviewCoversClaim

(* An NFT keeps its terms, and a vested one never becomes active again     *)
(* (rewards.service.ts:92-104, :171).                                      *)
THEOREM NftTermsAreKept == Spec => NftKeepsTerms
<1>1. IInv /\ [Next]_vars =>
        [\A n \in Nfts : nft[n] # Null =>
            \E active \in BOOLEAN :
                /\ nft'[n] = [nft[n] EXCEPT !.isActive = active]
                /\ active => nft[n].isActive]_vars
  <2> SUFFICES ASSUME IInv, [Next]_vars, NEW n \in Nfts, nft[n] # Null
               PROVE  \E active \in BOOLEAN :
                          /\ nft'[n] = [nft[n] EXCEPT !.isActive = active]
                          /\ active => nft[n].isActive
    OBVIOUS
  <2>1. nft[n] \in NftRow /\ nft[n].isActive \in BOOLEAN
    BY Facts DEF NftRow
  <2>2. CASE nft'[n] = nft[n]
    <3>1. nft'[n] = [nft[n] EXCEPT !.isActive = nft[n].isActive]
      BY <2>1, <2>2 DEF NftRow
    <3> QED
      BY <2>1, <3>1
  <2>3. CASE nft'[n] # nft[n]
    <3>1. ~UNCHANGED nft
      BY <2>3
    <3>2. PICK c \in Claims : ClaimCreate(c) \/ VestWrite(c)
      BY <3>1 DEF Next, ClaimStep, ClaimRead, ClaimState, ClaimUpdate, VestRead,
         ClaimAbort, Tick, vars, rewardVars
    <3>3. ~ClaimCreate(c)
      <4> SUFFICES ASSUME ClaimCreate(c) PROVE FALSE
        OBVIOUS
      <4>1. claim[c].nft # n
        BY <3>1 DEF ClaimCreate
      <4> QED
        BY <2>3, <3>1, <4>1, Facts DEF ClaimCreate
    <3>4. PICK m \in Nfts, row \in NftRow :
              row = [nft[m] EXCEPT !.isActive = FALSE] /\ nft' = [nft EXCEPT ![m] = row]
      BY <3>2, <3>3, VestEffect
    <3>5. m = n /\ nft'[n] = row
      BY <2>3, <3>4, Facts
    <3> QED
      BY <3>4, <3>5
  <2> QED
    BY <2>2, <2>3
<1> QED
  BY <1>1, InductiveInvariant, PTL DEF Spec, NftKeepsTerms

(***************************************************************************)
(* The times of positions and claims                                       *)
(***************************************************************************)

(* A claim that has read its position and may still write.                 *)
Handling(q, p) == q.pc \in {"state", "create", "update"} /\ q.position = p

(* It has no NFT yet; it is going to be paid from this time, or later.     *)
Before(q) == q.pc \in {"state", "create"}
Lower(q) == IF q.pc = "state" THEN q.lastRewardTs ELSE q.now - q.weeks * Week

(* An NFT whose claim has yet to write the position's timestamps.          *)
Settling(n) == \E c \in Claims : claim[c].pc = "update" /\ claim[c].nft = n

Sound(p) == Paid(p) \ unsettled

(* To be paid at one time, from another, repeats nothing: no week before   *)
(* the stake, and none of an earlier claim of which it could know.         *)
Follows(now, from, p) ==
    /\ position[p].startTs <= from
    /\ \A m \in Sound(p) : ClaimedAt(m) + RequestLifetime < now =>
                               ClaimedAt(m) <= from + RequestLifetime

HandlerInv(q) ==
    \A p \in Positions : Handling(q, p) =>
        /\ position[p].startTs <= q.now
        /\ Before(q) => Follows(q.now, Lower(q), p)
        /\ q.pc = "update" => q.nft \in Paid(p) /\ ClaimedAt(q.nft) = q.now

(* What a claim has written is later set back by no more than a lifetime.  *)
PaidInv(n, p) ==
    /\ ClaimedAt(n) \in Nat /\ ClaimedAt(n) <= clock
    /\ Exists(p) /\ Follows(ClaimedAt(n), PaidFrom(n), p)
    /\ n \notin unsettled /\ ~Settling(n) =>
           /\ ClaimedAt(n) <= position[p].lastRewardTs + RequestLifetime
           /\ ClaimedAt(n) <= position[p].lastClaimTs + RequestLifetime

(* The NFTs and the handlers without one of a lifetime from t.             *)
Near(p, t) == {m \in Sound(p) : t <= ClaimedAt(m) /\ ClaimedAt(m) <= t + RequestLifetime}
Coming(p, t) == {c \in Claims : /\ Before(claim[c]) /\ claim[c].position = p
                                /\ t <= claim[c].now
                                /\ claim[c].now <= t + RequestLifetime}

(* There are no more of them than there are slots. *)
Crowd(p, t) ==
    Cardinality(Near(p, t)) + Cardinality(Coming(p, t)) <= Cardinality(Claims)

RowTimes == \A p \in Positions : Exists(p) =>
                position[p].startTs <= position[p].lastRewardTs

RunTimes == \A w \in Replicas : worker[w].pc = "loop" =>
                \A p \in worker[w].todo : position[p].startTs <= worker[w].now

PayInv ==
    /\ RowTimes /\ RunTimes
    /\ \A c \in Claims : HandlerInv(claim[c])
    /\ \A p \in Positions : \A n \in Paid(p) : PaidInv(n, p)
    /\ \A p \in Positions, t \in Nat : Crowd(p, t)

LEMMA RowTypes ==
    ASSUME IInv, NEW p \in Positions, Exists(p)
    PROVE  /\ position[p] \in PositionRow
           /\ position[p].startTs \in Nat /\ position[p].lastRewardTs \in Int
           /\ position[p].lastClaimTs \in Nat
           /\ position[p].lastRewardTs <= clock
  BY Facts, DistributionFacts DEF PositionRow, Exists, DistributionInv

LEMMA PaidTypes ==
    ASSUME IInv, NEW p \in Positions, NEW n \in Paid(p)
    PROVE  /\ n \in Nfts /\ nft[n] # Null /\ nft[n] \in NftRow /\ nft[n].position = p
           /\ ClaimedAt(n) \in Int /\ PaidFrom(n) \in Int
<1>1. n \in Nfts /\ nft[n] # Null /\ nft[n] \in NftRow /\ nft[n].position = p
  BY Facts DEF Paid
<1>2. PICK v \in Nat, k \in Nat : v = nft[n].vestTs /\ k = nft[n].weeks
  BY <1>1 DEF NftRow
<1>3. v - VestingPeriod \in Int /\ k * Week \in Int
  BY VestingAssumption, PeriodAssumption
<1>4. v - VestingPeriod - k * Week \in Int
  BY <1>3
<1> QED
  BY <1>1, <1>2, <1>3, <1>4 DEF ClaimedAt, PaidFrom

(***************************************************************************)
(* What every step does to the times                                       *)
(***************************************************************************)

(* A timestamp is kept or set to a young one, not before the start.        *)
RowsMoveOn ==
    \A p \in Positions :
        /\ Exists(p)' => position'[p].startTs <= position'[p].lastRewardTs
        /\ Exists(p) =>
               /\ Exists(p)' /\ position'[p].startTs = position[p].startTs
               /\ \/ position'[p].lastRewardTs = position[p].lastRewardTs
                  \/ position'[p].lastRewardTs + RequestLifetime >= clock'
               /\ \/ position'[p].lastClaimTs = position[p].lastClaimTs
                  \/ position'[p].lastClaimTs + RequestLifetime >= clock'

(* The terms of an NFT stay, and a new one is young.                       *)
NftsMoveOn ==
    /\ \A n \in Nfts : nft[n] # Null =>
           /\ nft'[n] # Null /\ nft'[n].position = nft[n].position
           /\ nft'[n].vestTs = nft[n].vestTs /\ nft'[n].weeks = nft[n].weeks
    /\ \A n \in Nfts : nft[n] = Null /\ nft'[n] # Null =>
           (ClaimedAt(n) + RequestLifetime >= clock)'
    /\ unsettled \subseteq unsettled'

MovesOn == /\ IInv /\ PayInv /\ IInv'
           /\ clock \in Nat /\ clock' \in Nat /\ clock <= clock'
           /\ RowsMoveOn /\ NftsMoveOn

LEMMA TermsStay ==
    ASSUME NftsMoveOn, NEW n \in Nfts, nft[n] # Null
    PROVE  /\ ClaimedAt(n)' = ClaimedAt(n) /\ PaidFrom(n)' = PaidFrom(n)
           /\ nft'[n] # Null /\ nft'[n].position = nft[n].position
  BY DEF NftsMoveOn, ClaimedAt, PaidFrom

LEMMA SoundMovesOn ==
    ASSUME MovesOn, NEW p \in Positions, NEW m \in Sound(p)'
    PROVE  \/ m \in Sound(p) /\ ClaimedAt(m)' = ClaimedAt(m)
           \/ (ClaimedAt(m) + RequestLifetime >= clock)'
<1>1. m \in Nfts /\ nft'[m] # Null /\ nft'[m].position = p /\ m \notin unsettled'
  BY DEF Sound, Paid
<1>2. CASE nft[m] = Null
  BY <1>1, <1>2 DEF MovesOn, NftsMoveOn
<1>3. CASE nft[m] # Null
  BY <1>1, <1>3, TermsStay DEF MovesOn, NftsMoveOn, Sound, Paid
<1> QED
  BY <1>2, <1>3

LEMMA FollowsOn ==
    ASSUME MovesOn, NEW p \in Positions, Exists(p), NEW now \in Nat, now <= clock,
           NEW from \in Int, Follows(now, from, p)
    PROVE  Follows(now, from, p)'
<1>1. position'[p].startTs <= from
  BY DEF MovesOn, RowsMoveOn, Follows
<1>2. ASSUME NEW m \in Sound(p)', (ClaimedAt(m) + RequestLifetime)' < now
      PROVE  ClaimedAt(m)' <= from + RequestLifetime
  <2>1. CASE m \in Sound(p) /\ ClaimedAt(m)' = ClaimedAt(m)
    BY <1>2, <2>1 DEF Follows
  <2>2. CASE (ClaimedAt(m) + RequestLifetime >= clock)'
    <3>1. m \in Nfts /\ nft'[m] # Null /\ nft'[m] \in NftRow
      BY DEF Sound, Paid, MovesOn, IInv, TypeOK
    <3>2. ClaimedAt(m)' \in Int
      BY <3>1, VestingAssumption DEF ClaimedAt, NftRow
    <3> QED
      BY <1>2, <2>2, <3>2, PeriodAssumption DEF MovesOn
  <2> QED
    BY <2>1, <2>2, SoundMovesOn
<1> QED
  BY <1>1, <1>2 DEF Follows

LEMMA LowerType ==
    ASSUME NEW q \in Claim
    PROVE  Lower(q) \in Int /\ q.now \in Nat /\ q.weeks \in Nat
<1>1. q.lastRewardTs \in Int /\ q.now \in Nat /\ q.weeks \in Nat
  BY DEF Claim
<1>2. q.weeks * Week \in Int
  BY <1>1, PeriodAssumption
<1> QED
  BY <1>1, <1>2 DEF Lower

LEMMA HandlerWaits ==
    ASSUME MovesOn, NEW q \in Claim, ClaimInv(q), HandlerInv(q)
    PROVE  HandlerInv(q)'
<1> SUFFICES ASSUME NEW p \in Positions, Handling(q, p)
             PROVE  /\ position'[p].startTs <= q.now
                    /\ Before(q) => Follows(q.now, Lower(q), p)'
                    /\ q.pc = "update" => q.nft \in Paid(p)' /\ ClaimedAt(q.nft)' = q.now
  BY DEF HandlerInv, Handling, Before, Lower
<1>1. Exists(p) /\ q.now <= clock /\ q.now \in Nat /\ Lower(q) \in Int
  BY LowerType DEF Handling, ClaimInv
<1>2. position'[p].startTs <= q.now
  BY <1>1 DEF HandlerInv, MovesOn, RowsMoveOn
<1>3. Before(q) => Follows(q.now, Lower(q), p)'
  BY <1>1, FollowsOn DEF HandlerInv
<1>4. ASSUME q.pc = "update"
      PROVE  q.nft \in Paid(p)' /\ ClaimedAt(q.nft)' = q.now
  <2>1. q.nft \in Paid(p) /\ ClaimedAt(q.nft) = q.now
    BY <1>4 DEF HandlerInv
  <2> QED
    BY <2>1, TermsStay DEF MovesOn, Paid
<1> QED
  BY <1>2, <1>3, <1>4

(* An NFT that is settled now was so before, or both timestamps are its.   *)
Settles(n, p) ==
    (n \notin unsettled /\ ~Settling(n))' =>
        \/ n \notin unsettled /\ ~Settling(n)
        \/ /\ position'[p].lastRewardTs = ClaimedAt(n)
           /\ position'[p].lastClaimTs = ClaimedAt(n)

LEMMA PaidStays ==
    ASSUME MovesOn, NEW p \in Positions, NEW n \in Paid(p), Settles(n, p)
    PROVE  PaidInv(n, p)'
<1>1. /\ PaidInv(n, p) /\ n \in Nfts /\ nft[n] # Null
      /\ ClaimedAt(n) \in Nat /\ PaidFrom(n) \in Int
      /\ ClaimedAt(n) <= clock /\ Exists(p) /\ Exists(p)'
      /\ ClaimedAt(n)' = ClaimedAt(n) /\ PaidFrom(n)' = PaidFrom(n)
  BY PaidTypes, TermsStay DEF MovesOn, PayInv, PaidInv, RowsMoveOn
<1>2. Follows(ClaimedAt(n), PaidFrom(n), p)'
  <2>1. PICK now \in Nat, from \in Int : now = ClaimedAt(n) /\ from = PaidFrom(n)
    BY <1>1
  <2>2. Follows(now, from, p)'
    BY <1>1, <2>1, FollowsOn DEF PaidInv
  <2> QED
    BY <1>1, <2>1, <2>2 DEF Follows
<1>3. ASSUME (n \notin unsettled /\ ~Settling(n))'
      PROVE  /\ ClaimedAt(n) <= position'[p].lastRewardTs + RequestLifetime
             /\ ClaimedAt(n) <= position'[p].lastClaimTs + RequestLifetime
  <2>1. position'[p] \in PositionRow
    BY <1>1 DEF Exists, MovesOn, IInv, TypeOK, DistributionTypeOK
  <2>2. position'[p].lastRewardTs \in Int /\ position'[p].lastClaimTs \in Nat
    BY <2>1 DEF PositionRow
  <2>3. CASE n \notin unsettled /\ ~Settling(n)
    BY <1>1, <2>2, <2>3, PeriodAssumption DEF PaidInv, MovesOn, RowsMoveOn
  <2>4. CASE /\ position'[p].lastRewardTs = ClaimedAt(n)
             /\ position'[p].lastClaimTs = ClaimedAt(n)
    BY <1>1, <2>4, PeriodAssumption
  <2> QED
    BY <1>3, <2>3, <2>4 DEF Settles
<1>4. ClaimedAt(n)' \in Nat /\ ClaimedAt(n)' <= clock'
  BY <1>1 DEF MovesOn
<1> QED
  BY <1>1, <1>2, <1>3, <1>4 DEF PaidInv

(***************************************************************************)
(* No more claims of a lifetime than slots                                 *)
(***************************************************************************)

(* NFTs that each keep a slot busy leave room for those to come.           *)
LEMMA SlotsSuffice ==
    ASSUME IInv, NEW N \in SUBSET Nfts, NEW A \in SUBSET Claims,
           NEW c \in Claims \ A,
           \A m \in N : \E d \in Claims \ (A \union {c}) : claim[d].nft = m
    PROVE  Cardinality(N) + Cardinality(A) + 1 <= Cardinality(Claims)
<1> DEFINE U == Claims \ (A \union {c})
           f == [m \in N |-> CHOOSE d \in U : claim[d].nft = m]
<1>1. ASSUME NEW m \in N PROVE f[m] \in U /\ claim[f[m]].nft = m
  OBVIOUS
<1>2. f \in Injection(N, U)
  <2>1. f \in [N -> U]
    BY <1>1
  <2>2. \A m, n \in N : f[m] = f[n] => m = n
    BY <1>1
  <2> HIDE DEF f, U
  <2>3. DOMAIN f = N
    BY <2>1
  <2> QED
    BY <2>1, <2>2, <2>3 DEF Injection, IsInjective
<1> HIDE DEF f
<1>3. /\ IsFiniteSet(Claims) /\ IsFiniteSet(A) /\ IsFiniteSet(U)
      /\ IsFiniteSet(A \union {c})
  BY NftAssumption, FS_Subset
<1>4. Cardinality(N) <= Cardinality(U)
  BY <1>2, <1>3, FS_Injection
<1>5. Cardinality(A \union {c}) = Cardinality(A) + 1
  BY <1>3, FS_AddElement
<1>6. /\ (A \union {c}) \union U = Claims /\ (A \union {c}) \intersect U = {}
  OBVIOUS
<1>7. Cardinality(Claims) = Cardinality(A \union {c}) + Cardinality(U) - 0
  BY <1>3, <1>6, FS_Union, FS_EmptySet
<1>8. IsFiniteSet(N)
  BY NftAssumption, FS_Subset
<1>9. /\ Cardinality(N) \in Nat /\ Cardinality(A) \in Nat /\ Cardinality(U) \in Nat
  BY <1>3, <1>8, FS_CardinalityType
<1> QED
  BY <1>4, <1>5, <1>7, <1>9

LEMMA CrowdTypes ==
    ASSUME NEW p \in Positions, NEW t \in Nat
    PROVE  /\ Near(p, t) \in SUBSET Nfts /\ Near(p, t)' \in SUBSET Nfts
           /\ Coming(p, t) \in SUBSET Claims /\ Coming(p, t)' \in SUBSET Claims
           /\ \A S \in SUBSET Nfts : IsFiniteSet(S) /\ Cardinality(S) \in Nat
           /\ \A S \in SUBSET Claims : IsFiniteSet(S) /\ Cardinality(S) \in Nat
<1>1. /\ \A S \in SUBSET Nfts : IsFiniteSet(S) /\ Cardinality(S) \in Nat
      /\ \A S \in SUBSET Claims : IsFiniteSet(S) /\ Cardinality(S) \in Nat
  BY NftAssumption, FS_Subset, FS_CardinalityType
<1> QED
  BY <1>1 DEF Near, Coming, Sound, Paid

LEMMA CrowdLess ==
    ASSUME NEW p \in Positions, NEW t \in Nat, Crowd(p, t),
           Near(p, t)' \subseteq Near(p, t), Coming(p, t)' \subseteq Coming(p, t)
    PROVE  Crowd(p, t)'
<1>1. /\ Cardinality(Near(p, t)') <= Cardinality(Near(p, t))
      /\ Cardinality(Coming(p, t)') <= Cardinality(Coming(p, t))
  BY CrowdTypes, FS_Subset
<1>2. /\ Cardinality(Near(p, t)') \in Nat /\ Cardinality(Near(p, t)) \in Nat
      /\ Cardinality(Coming(p, t)') \in Nat /\ Cardinality(Coming(p, t)) \in Nat
      /\ Cardinality(Claims) \in Nat
  BY CrowdTypes
<1> QED
  BY <1>1, <1>2 DEF Crowd

(* A claim turns into an NFT. *)
LEMMA CrowdMoves ==
    ASSUME NEW p \in Positions, NEW t \in Nat, Crowd(p, t),
           NEW n \in Nfts, NEW c \in Coming(p, t),
           Near(p, t)' \subseteq Near(p, t) \union {n},
           Coming(p, t)' \subseteq Coming(p, t) \ {c}
    PROVE  Crowd(p, t)'
<1>1. PICK N \in SUBSET Nfts, A \in SUBSET Claims : N = Near(p, t) /\ A = Coming(p, t)
  BY CrowdTypes
<1>2. /\ Cardinality(N) \in Nat /\ Cardinality(A) \in Nat
      /\ IsFiniteSet(N) /\ IsFiniteSet(A)
      /\ Cardinality(Near(p, t)') \in Nat /\ Cardinality(Coming(p, t)') \in Nat
      /\ Cardinality(Claims) \in Nat
  BY CrowdTypes
<1>3. Cardinality(Near(p, t)') <= Cardinality(N) + 1
  <2>1. /\ IsFiniteSet(N \union {n})
        /\ \/ Cardinality(N \union {n}) = Cardinality(N)
           \/ Cardinality(N \union {n}) = Cardinality(N) + 1
    BY <1>2, FS_AddElement
  <2>2. Cardinality(Near(p, t)') <= Cardinality(N \union {n})
    BY <1>1, <2>1, FS_Subset
  <2> QED
    BY <1>2, <2>1, <2>2
<1>4. Cardinality(Coming(p, t)') <= Cardinality(A) - 1
  <2>1. c \in A /\ IsFiniteSet(A \ {c}) /\ Cardinality(A \ {c}) = Cardinality(A) - 1
    BY <1>1, <1>2, FS_RemoveElement
  <2> QED
    BY <1>1, <2>1, FS_Subset
<1> QED
  BY <1>1, <1>2, <1>3, <1>4 DEF Crowd

(***************************************************************************)
(* The steps                                                               *)
(***************************************************************************)

LEMMA RowsStayPut ==
    ASSUME IInv, PayInv, UNCHANGED position
    PROVE  RowsMoveOn
  BY DEF PayInv, RowTimes, RowsMoveOn, Exists

LEMMA OneRowMoves ==
    ASSUME IInv, PayInv, NEW p \in Positions, NEW row \in PositionRow,
           position' = [position EXCEPT ![p] = row],
           row.startTs <= row.lastRewardTs,
           Exists(p) =>
               /\ row.startTs = position[p].startTs
               /\ \/ row.lastRewardTs = position[p].lastRewardTs
                  \/ row.lastRewardTs + RequestLifetime >= clock'
               /\ \/ row.lastClaimTs = position[p].lastClaimTs
                  \/ row.lastClaimTs + RequestLifetime >= clock'
    PROVE  RowsMoveOn
<1>1. position'[p] = row /\ \A v \in Positions \ {p} : position'[v] = position[v]
  BY Facts, DistributionFacts
<1>2. row # Null
  BY NullAssumption
<1> QED
  BY <1>1, <1>2 DEF PayInv, RowTimes, RowsMoveOn, Exists

(* How the distribution writes positions: opened, closed or stamped. *)
LEMMA DistributionRows ==
    ASSUME IInv, PayInv, DistributionStep
    PROVE  RowsMoveOn
<1>1. CASE UNCHANGED position
  BY <1>1, RowsStayPut
<1>2. CASE ~UNCHANGED position
  <2>1. \/ \E p \in Positions : Closed(p) \/ \E now \in 0..clock : Opened(p, now)
        \/ \E w \in Replicas, p \in Positions : JobStamp(w, p)
    BY <1>2 DEF DistributionStep, PoolChanges, ScheduleWeekly, TriggerWeekly, Run,
       JobRead, JobFind, JobEpoch, JobFail, JobStall, SwitchRead, SwitchWrite
  <2>2. DistributionInv /\ UNCHANGED clock
    BY Facts, ClockGoesOn
  <2>3. ASSUME NEW p \in Positions, NEW now \in 0..clock, Opened(p, now)
        PROVE  RowsMoveOn
    <3>1. PICK row \in PositionRow : /\ position' = [position EXCEPT ![p] = row]
                                     /\ row.startTs <= row.lastRewardTs
      <4> DEFINE row == [isActive |-> TRUE, startTs |-> now,
                         lastRewardTs |-> now, lastClaimTs |-> now]
      <4>1. row \in PositionRow /\ row.startTs <= row.lastRewardTs
        BY <2>2, DistributionFacts DEF PositionRow
      <4>2. position' = [position EXCEPT ![p] = row]
        BY <2>3 DEF Opened
      <4> QED
        BY <4>1, <4>2
    <3> QED
      BY <2>3, <3>1, OneRowMoves DEF Opened
  <2>4. ASSUME NEW p \in Positions, Closed(p)
        PROVE  RowsMoveOn
    <3>1. Exists(p) /\ position[p] \in PositionRow
      BY <2>4, RowTypes DEF Closed, Active
    <3>2. PICK row \in PositionRow : /\ position' = [position EXCEPT ![p] = row]
                                     /\ row.startTs = position[p].startTs
                                     /\ row.lastRewardTs = position[p].lastRewardTs
                                     /\ row.lastClaimTs = position[p].lastClaimTs
      <4> DEFINE row == [position[p] EXCEPT !.isActive = FALSE]
      <4>1. /\ row \in PositionRow /\ row.startTs = position[p].startTs
            /\ row.lastRewardTs = position[p].lastRewardTs
            /\ row.lastClaimTs = position[p].lastClaimTs
        BY <3>1 DEF PositionRow
      <4>2. position' = [position EXCEPT ![p] = row]
        BY <2>4 DEF Closed
      <4> HIDE DEF row
      <4> QED
        BY <4>1, <4>2
    <3>3. row.startTs <= row.lastRewardTs
      BY <3>1, <3>2 DEF PayInv, RowTimes
    <3> QED
      BY <3>2, <3>3, OneRowMoves
  <2>5. ASSUME NEW w \in Replicas, NEW p \in Positions, JobStamp(w, p)
        PROVE  RowsMoveOn
    <3>1. /\ Exists(p) /\ position[p] \in PositionRow
          /\ worker[w].now + RequestLifetime >= clock
          /\ position[p].startTs <= worker[w].now
      BY <2>2, <2>5, JobStampEffect DEF PayInv, RunTimes
    <3>2. PICK row \in PositionRow : /\ position' = [position EXCEPT ![p] = row]
                                     /\ row.startTs = position[p].startTs
                                     /\ row.lastRewardTs = worker[w].now
                                     /\ row.lastClaimTs = position[p].lastClaimTs
      <4> DEFINE row == [position[p] EXCEPT !.lastRewardTs = worker[w].now]
      <4>1. /\ row \in PositionRow /\ row.startTs = position[p].startTs
            /\ row.lastRewardTs = worker[w].now
            /\ row.lastClaimTs = position[p].lastClaimTs
        BY <2>2, <2>5, JobStampEffect DEF PositionRow
      <4>2. position' = [position EXCEPT ![p] = row]
        BY <2>2, <2>5, JobStampEffect
      <4> HIDE DEF row
      <4> QED
        BY <4>1, <4>2
    <3> QED
      BY <2>2, <3>1, <3>2, OneRowMoves
  <2> QED
    BY <2>1, <2>3, <2>4, <2>5
<1> QED
  BY <1>1, <1>2

(* A run in its loop was there with no less to do, or has just looked. *)
LEMMA LoopsGoOn ==
    ASSUME DistributionInv, DistributionStep, NEW w \in Replicas, worker'[w].pc = "loop"
    PROVE  \/ /\ worker[w].pc = "loop" /\ worker'[w].now = worker[w].now
              /\ worker'[w].todo \subseteq worker[w].todo
           \/ /\ worker'[w].now = clock
              /\ \A p \in worker'[w].todo : Active(p)
<1>1. worker \in [Replicas -> Worker] /\ IdleWorker.pc = "idle"
  BY DistributionFacts, IdleWorkerIs
<1>2. ASSUME NEW v \in Replicas, Finish(v)
      PROVE  worker'[w] = worker[w]
  BY <1>1, <1>2 DEF Finish
<1>3. ASSUME NEW v \in Replicas, NEW j \in Job, JobRead(v, j)
      PROVE  worker'[w] = worker[w]
  <2>1. CASE UNCHANGED worker
    BY <2>1
  <2>2. CASE ~UNCHANGED worker
    <3> DEFINE q == [IdleWorker EXCEPT !.pc = "find", !.job = j, !.began = clock,
                                       !.epoch = program.currentEpoch,
                                       !.pool = program.totalRewardPool]
    <3>1. worker' = [worker EXCEPT ![v] = q]
      BY <1>3, <2>2 DEF JobRead
    <3>2. q.pc = "find"
      BY DEF IdleWorker
    <3> HIDE DEF q
    <3> QED
      BY <1>1, <3>1, <3>2
  <2> QED
    BY <2>1, <2>2
<1>4. ASSUME NEW v \in Replicas, JobFind(v), worker'[w] # worker[w]
      PROVE  worker'[w].now = clock /\ \A p \in worker'[w].todo : Active(p)
  <2>1. v = w /\ ~Finish(v)
    BY <1>1, <1>2, <1>4 DEF JobFind
  <2>2. PICK todo \in SUBSET {p \in Positions : Active(p)} :
            worker' = [worker EXCEPT ![v].pc = "loop", ![v].now = clock, ![v].todo = todo]
    BY <1>4, <2>1 DEF JobFind
  <2>3. worker'[w] = [worker[w] EXCEPT !.pc = "loop", !.now = clock, !.todo = todo]
    BY <1>1, <2>1, <2>2
  <2>4. worker'[w].now = clock /\ worker'[w].todo = todo
    BY <1>1, <2>3 DEF Worker
  <2> QED
    BY <2>4
<1>5. ASSUME NEW v \in Replicas, NEW p \in Positions, JobStamp(v, p), worker'[w] # worker[w]
      PROVE  /\ worker[w].pc = "loop" /\ worker'[w].now = worker[w].now
             /\ worker'[w].todo \subseteq worker[w].todo
  <2>1. v = w /\ worker[w].pc = "loop"
        /\ worker'[w] = [worker[w] EXCEPT !.todo = worker[w].todo \ {p}]
    BY <1>1, <1>5 DEF JobStamp
  <2> QED
    BY <1>1, <2>1 DEF Worker
<1>6. CASE worker'[w] = worker[w]
  BY <1>6
<1>7. CASE worker'[w] # worker[w]
  <2>1. ~UNCHANGED worker
    BY <1>7
  <2>2. \E v \in Replicas : \/ JobFind(v)
                            \/ \E p \in Positions : JobStamp(v, p)
    <3>1. \E v \in Replicas : Run(v) \/ JobFail(v) \/ JobStall(v)
      BY <2>1 DEF DistributionStep, Opened, Closed, PoolChanges, ScheduleWeekly,
         TriggerWeekly, SwitchRead, SwitchWrite
    <3> QED
      BY <1>2, <1>3, <1>7, <3>1 DEF Run, JobEpoch, JobFail, JobStall
  <2> QED
    BY <1>4, <1>5, <1>7, <2>2
<1> QED
  BY <1>6, <1>7

LEMMA DistributionRuns ==
    ASSUME IInv, PayInv, DistributionStep
    PROVE  RunTimes'
<1> SUFFICES ASSUME NEW w \in Replicas, worker'[w].pc = "loop",
                    NEW p \in worker'[w].todo
             PROVE  position'[p].startTs <= worker'[w].now
  BY DEF RunTimes
<1>1. RowsMoveOn /\ DistributionInv
  BY DistributionRows, Facts
<1>2. p \in Positions
  <2>1. worker'[w] \in Worker
    BY <1>1, StepInv DEF DistributionInv, DistributionTypeOK
  <2> QED
    BY <2>1 DEF Worker
<1>3. CASE worker[w].pc = "loop" /\ worker'[w].now = worker[w].now /\ p \in worker[w].todo
  <2>1. Exists(p)
    BY <1>1, <1>3 DEF DistributionInv, WorkerInv, Looped
  <2> QED
    BY <1>1, <1>2, <1>3, <2>1 DEF PayInv, RunTimes, RowsMoveOn
<1>4. CASE worker'[w].now = clock /\ Active(p)
  <2>1. /\ Exists(p) /\ position[p].startTs <= position[p].lastRewardTs
        /\ position[p].lastRewardTs <= clock /\ position[p].startTs \in Nat
        /\ position[p].lastRewardTs \in Int /\ clock \in Nat
    BY <1>2, <1>4, RowTypes, Facts DEF Active, PayInv, RowTimes
  <2>2. position'[p].startTs = position[p].startTs
    BY <1>1, <1>2, <2>1 DEF RowsMoveOn
  <2> QED
    BY <1>4, <2>1, <2>2
<1> QED
  BY <1>1, <1>3, <1>4, LoopsGoOn

LEMMA NftsStayPut ==
    ASSUME UNCHANGED nft, unsettled \subseteq unsettled'
    PROVE  NftsMoveOn
  BY DEF NftsMoveOn

(* Without a new NFT none comes near. *)
LEMMA NearLess ==
    ASSUME NftsMoveOn, \A n \in Nfts : nft'[n] # Null => nft[n] # Null,
           NEW p \in Positions, NEW t \in Nat
    PROVE  Near(p, t)' \subseteq Near(p, t)
<1> SUFFICES ASSUME NEW m \in Near(p, t)' PROVE m \in Near(p, t)
  OBVIOUS
<1>1. /\ m \in Nfts /\ nft'[m] # Null /\ nft'[m].position = p /\ m \notin unsettled'
      /\ t <= ClaimedAt(m)' /\ ClaimedAt(m)' <= t + RequestLifetime
  BY DEF Near, Sound, Paid
<1>2. nft[m] # Null /\ nft[m].position = p /\ ClaimedAt(m)' = ClaimedAt(m)
      /\ m \notin unsettled
  BY <1>1, TermsStay DEF NftsMoveOn
<1> QED
  BY <1>1, <1>2 DEF Near, Sound, Paid

(* Without a new claim none is coming. *)
LEMMA ComingLess ==
    ASSUME IInv, NEW c \in Claims, NEW r \in Claim, claim' = [claim EXCEPT ![c] = r],
           Before(r) => /\ Before(claim[c]) /\ r.position = claim[c].position
                        /\ r.now = claim[c].now,
           NEW p \in Positions, NEW t \in Nat
    PROVE  Coming(p, t)' \subseteq Coming(p, t)
<1>1. claim'[c] = r /\ \A d \in Claims \ {c} : claim'[d] = claim[d]
  BY Facts
<1> SUFFICES ASSUME NEW d \in Coming(p, t)' PROVE d \in Coming(p, t)
  OBVIOUS
<1>2. /\ d \in Claims /\ Before(claim'[d]) /\ claim'[d].position = p
      /\ t <= claim'[d].now /\ claim'[d].now <= t + RequestLifetime
  BY DEF Coming, Before
<1>3. CASE d = c
  BY <1>1, <1>2, <1>3 DEF Coming
<1>4. CASE d # c
  BY <1>1, <1>2, <1>4 DEF Coming
<1> QED
  BY <1>3, <1>4

(* An NFT stays settled or not when no claim writes timestamps.            *)
LEMMA SettledStays ==
    ASSUME IInv, NEW c \in Claims, NEW r \in Claim, claim' = [claim EXCEPT ![c] = r],
           unsettled \subseteq unsettled',
           \/ claim[c].pc # "update" \/ claim[c].nft \in unsettled',
           NEW p \in Positions, NEW n \in Nfts
    PROVE  Settles(n, p)
<1> SUFFICES ASSUME n \notin unsettled', ~Settling(n)', Settling(n)
             PROVE  FALSE
  BY DEF Settles
<1>1. PICK d \in Claims : claim[d].pc = "update" /\ claim[d].nft = n
  BY DEF Settling
<1>2. CASE d = c
  BY <1>1, <1>2
<1>3. CASE d # c
  <2>1. claim'[d] = claim[d]
    BY <1>3, Facts
  <2> QED
    BY <1>1, <2>1 DEF Settling
<1> QED
  BY <1>2, <1>3

LEMMA HandlerIs ==
    ASSUME NEW d \in Claims, NEW r \in Claim, claim'[d] = r, HandlerInv(r)'
    PROVE  HandlerInv(claim[d])'
  BY DEF HandlerInv, Handling, Before, Lower, Follows

(* One request goes on to r. *)
LEMMA PayStep ==
    ASSUME MovesOn, NEW c \in Claims, NEW r \in Claim,
           claim' = [claim EXCEPT ![c] = r], HandlerInv(r)', UNCHANGED worker,
           \A p \in Positions : \A n \in Paid(p)' :
               (n \in Paid(p) /\ Settles(n, p)) \/ PaidInv(n, p)',
           \A p \in Positions, t \in Nat : Crowd(p, t)'
    PROVE  PayInv'
<1>1. IInv /\ PayInv /\ RowsMoveOn /\ RowTimes'
  BY DEF MovesOn, RowsMoveOn, RowTimes
<1>2. RunTimes'
  <2> SUFFICES ASSUME NEW w \in Replicas, worker[w].pc = "loop", NEW p \in worker[w].todo
               PROVE  position'[p].startTs <= worker[w].now
    BY DEF RunTimes
  <2>1. p \in Positions /\ Exists(p)
    BY <1>1, Facts, DistributionFacts DEF WorkerInv, Looped, Worker
  <2> QED
    BY <1>1, <2>1 DEF PayInv, RunTimes, RowsMoveOn
<1>3. ASSUME NEW d \in Claims PROVE HandlerInv(claim[d])'
  <2>1. CASE d = c
    <3>1. claim'[d] = r
      BY <1>1, <2>1, Facts
    <3> QED
      BY <3>1, HandlerIs
  <2>2. CASE d # c
    <3>1. PICK q \in Claim : claim[d] = q /\ claim'[d] = q
      BY <1>1, <2>2, Facts
    <3>2. ClaimInv(q) /\ HandlerInv(q)
      BY <1>1, <3>1, Facts DEF PayInv
    <3> QED
      BY <3>1, <3>2, HandlerIs, HandlerWaits
  <2> QED
    BY <2>1, <2>2
<1>4. \A p \in Positions : \A n \in Paid(p)' : PaidInv(n, p)'
  BY PaidStays
<1> QED
  BY <1>1, <1>2, <1>3, <1>4 DEF PayInv

(* An NFT whose claim has yet to write the timestamps is young.            *)
LEMMA SettlingIsYoung ==
    ASSUME IInv, PayInv, NEW p \in Positions, NEW n \in Paid(p), Settling(n)
    PROVE  ClaimedAt(n) + RequestLifetime >= clock
<1>1. PICK d \in Claims : claim[d].pc = "update" /\ claim[d].nft = n
  BY DEF Settling
<1>2. PICK q \in Claim : claim[d] = q
  BY Facts
<1>3. ClaimInv(q) /\ HandlerInv(q)
  BY <1>2, Facts DEF PayInv
<1>4. clock <= q.now + RequestLifetime /\ ClaimedAt(n) = q.now
  BY <1>1, <1>2, <1>3 DEF ClaimInv, HandlerInv, Handling
<1> QED
  BY <1>4

LEMMA ClaimReadPay ==
    ASSUME IInv, PayInv, NEW c \in Claims, NEW p \in Positions, NEW n \in Nfts,
           ClaimRead(c, p, n)
    PROVE  PayInv'
<1>1. /\ Exists(p) /\ position[p].lastRewardTs <= clock
      /\ position[p].startTs <= position[p].lastRewardTs
  BY ReadEffect DEF PayInv, RowTimes
<1>2. /\ position[p].startTs \in Nat /\ position[p].lastRewardTs \in Int
      /\ position[p].lastClaimTs \in Nat /\ clock \in Nat
  BY <1>1, RowTypes, Facts
<1>3. PICK q \in Claim : /\ claim' = [claim EXCEPT ![c] = q]
                         /\ q.pc = "state" /\ q.position = p /\ q.now = clock
                         /\ q.lastRewardTs = position[p].lastRewardTs
  BY ReadEffect
<1>4. /\ UNCHANGED <<distributionVars, nft, unsettled>> /\ claim[c].pc = "idle"
      /\ clock >= position[p].lastClaimTs + Week
  BY DEF ClaimRead, ClaimFree, Waited
<1>5. UNCHANGED <<position, clock, worker>>
  BY <1>4 DEF distributionVars
<1>6. MovesOn
  <2>1. [Next]_vars
    BY DEF Next, ClaimStep
  <2> QED
    BY <1>4, <1>5, <2>1, NextInv, RowsStayPut, NftsStayPut, Facts DEF MovesOn
<1>7. Follows(clock, position[p].lastRewardTs, p)
  <2> SUFFICES ASSUME NEW m \in Sound(p), ClaimedAt(m) + RequestLifetime < clock
               PROVE  ClaimedAt(m) <= position[p].lastRewardTs + RequestLifetime
    BY <1>1 DEF Follows
  <2>1. m \in Paid(p) /\ m \notin unsettled /\ ClaimedAt(m) \in Int
    BY PaidTypes DEF Sound
  <2>2. ~Settling(m)
    BY <1>2, <2>1, SettlingIsYoung, PeriodAssumption
  <2> QED
    BY <2>1, <2>2 DEF PayInv, PaidInv
<1>8. HandlerInv(q)'
  <2>1. PICK now \in Nat, from \in Int : now = clock /\ from = position[p].lastRewardTs
    BY <1>2
  <2>2. Follows(now, from, p)'
    BY <1>1, <1>2, <1>6, <1>7, <2>1, FollowsOn
  <2>3. q.now = now /\ Lower(q) = from
    BY <1>3, <2>1 DEF Lower
  <2>4. \A v \in Positions : Handling(q, v) => v = p
    BY <1>3 DEF Handling
  <2>5. position'[p].startTs <= q.now
    BY <1>1, <1>2, <1>3, <1>5
  <2>6. Follows(q.now, Lower(q), p)'
    BY <2>2, <2>3 DEF Follows
  <2>7. q.pc # "update"
    BY <1>3
  <2> QED
    BY <2>4, <2>5, <2>6, <2>7 DEF HandlerInv, Handling
<1>9. ASSUME NEW v \in Positions, NEW m \in Paid(v)'
      PROVE  m \in Paid(v) /\ Settles(m, v)
  <2>1. m \in Paid(v) /\ m \in Nfts
    BY <1>4 DEF Paid
  <2> QED
    BY <1>3, <1>4, <2>1, SettledStays
<1>10. ASSUME NEW v \in Positions, NEW t \in Nat
       PROVE  Crowd(v, t)'
  <2>1. Near(v, t)' = Near(v, t) /\ Crowd(v, t)
    BY <1>4 DEF Near, Sound, Paid, ClaimedAt, PayInv
  <2>2. Coming(v, t)' \subseteq Coming(v, t) \union {c}
    BY <1>3, Facts DEF Coming, Before
  <2>3. CASE Coming(v, t)' \subseteq Coming(v, t)
    BY <2>1, <2>3, CrowdLess
  <2>4. CASE c \in Coming(v, t)'
    <3>1. v = p /\ t <= clock /\ clock <= t + RequestLifetime
      BY <1>3, <2>4, Facts DEF Coming, Before
    <3>2. ASSUME NEW m \in Near(v, t)
          PROVE  \E d \in Claims \ (Coming(v, t) \union {c}) : claim[d].nft = m
      <4>1. /\ m \in Paid(p) /\ m \notin unsettled /\ ClaimedAt(m) \in Int
            /\ t <= ClaimedAt(m)
        BY <3>1, PaidTypes DEF Near, Sound
      <4>2. ClaimedAt(m) <= position[p].lastClaimTs + RequestLifetime => FALSE
        BY <1>2, <1>4, <3>1, <4>1, WaitAssumption, PeriodAssumption
      <4>3. Settling(m)
        BY <4>1, <4>2 DEF PayInv, PaidInv
      <4> QED
        BY <1>4, <4>3 DEF Settling, Coming, Before
    <3>3. c \notin Coming(v, t)
      BY <1>4 DEF Coming, Before
    <3>4. Cardinality(Near(v, t)) + Cardinality(Coming(v, t)) + 1 <= Cardinality(Claims)
      <4>1. PICK N \in SUBSET Nfts, A \in SUBSET Claims : N = Near(v, t) /\ A = Coming(v, t)
        BY CrowdTypes
      <4> QED
        BY <3>2, <3>3, <4>1, SlotsSuffice
    <3>5. Cardinality(Coming(v, t)') <= Cardinality(Coming(v, t)) + 1
      <4>1. /\ IsFiniteSet(Coming(v, t)) /\ IsFiniteSet(Coming(v, t) \union {c})
            /\ Cardinality(Coming(v, t) \union {c}) = Cardinality(Coming(v, t)) + 1
        BY <3>3, CrowdTypes, FS_AddElement
      <4>2. Cardinality(Coming(v, t)') <= Cardinality(Coming(v, t) \union {c})
        BY <2>2, <4>1, FS_Subset
      <4> QED
        BY <4>1, <4>2
    <3>6. /\ Cardinality(Near(v, t)) \in Nat /\ Cardinality(Coming(v, t)) \in Nat
          /\ Cardinality(Coming(v, t)') \in Nat /\ Cardinality(Claims) \in Nat
      BY CrowdTypes
    <3> QED
      BY <2>1, <3>4, <3>5, <3>6 DEF Crowd
  <2> QED
    BY <2>2, <2>3, <2>4
<1> QED
  BY <1>3, <1>5, <1>6, <1>8, <1>9, <1>10, PayStep

LEMMA MovesOnStill ==
    ASSUME IInv, PayInv, [Next]_vars, UNCHANGED distributionVars, NftsMoveOn
    PROVE  MovesOn /\ UNCHANGED <<position, clock, worker>>
<1>1. UNCHANGED <<position, clock, worker>>
  BY DEF distributionVars
<1> QED
  BY <1>1, NextInv, RowsStayPut, Facts DEF MovesOn

LEMMA NotHandling ==
    ASSUME NEW q, q.pc \in {"idle", "vest"}
    PROVE  HandlerInv(q)' /\ ~Before(q)
  BY DEF HandlerInv, Handling, Before

(* A request goes on to r and no NFT is created.                           *)
LEMMA NoNewNft ==
    ASSUME MovesOn, NEW c \in Claims, NEW r \in Claim,
           claim' = [claim EXCEPT ![c] = r], HandlerInv(r)', UNCHANGED worker,
           \A n \in Nfts : nft'[n] # Null => nft[n] # Null,
           Before(r) => /\ Before(claim[c]) /\ r.position = claim[c].position
                        /\ r.now = claim[c].now,
           \A p \in Positions : \A n \in Paid(p) : Settles(n, p)
    PROVE  PayInv'
<1>1. IInv /\ PayInv /\ NftsMoveOn
  BY DEF MovesOn
<1>2. ASSUME NEW p \in Positions, NEW n \in Paid(p)'
      PROVE  n \in Paid(p) /\ Settles(n, p)
  <2>1. n \in Nfts /\ nft[n] # Null /\ nft'[n].position = p
    BY DEF Paid
  <2>2. n \in Paid(p)
    BY <1>1, <2>1, TermsStay DEF Paid
  <2> QED
    BY <2>2
<1>3. ASSUME NEW p \in Positions, NEW t \in Nat PROVE Crowd(p, t)'
  BY <1>1, NearLess, ComingLess, CrowdLess DEF PayInv
<1> QED
  BY <1>2, <1>3, PayStep

LEMMA ReplyPay ==
    ASSUME IInv, PayInv, [Next]_vars, NEW c \in Claims, Reply(c),
           UNCHANGED distributionVars, NftsMoveOn,
           \A n \in Nfts : nft'[n] # Null => nft[n] # Null,
           claim[c].pc # "update" \/ claim[c].nft \in unsettled'
    PROVE  PayInv'
<1>1. MovesOn /\ UNCHANGED worker /\ unsettled \subseteq unsettled'
  BY MovesOnStill DEF NftsMoveOn
<1>2. PICK r \in Claim : r = IdleClaim /\ claim' = [claim EXCEPT ![c] = r]
  BY IdleClaimIs DEF Reply
<1>3. HandlerInv(r)' /\ ~Before(r)
  <2>1. r.pc = "idle"
    BY <1>2, IdleClaimIs
  <2> QED
    BY <2>1, NotHandling
<1>4. ASSUME NEW p \in Positions, NEW n \in Paid(p) PROVE Settles(n, p)
  <2>1. n \in Nfts
    BY DEF Paid
  <2> QED
    BY <1>1, <1>2, <2>1, SettledStays
<1> QED
  BY <1>1, <1>2, <1>3, <1>4, NoNewNft

LEMMA ClaimStatePay ==
    ASSUME IInv, PayInv, NEW c \in Claims, ClaimState(c)
    PROVE  PayInv'
<1>1. PICK q \in Claim : claim[c] = q
  BY Facts
<1>2. q.pc = "state" /\ UNCHANGED <<distributionVars, nft, unsettled>>
      /\ ClaimInv(q) /\ HandlerInv(q)
  BY <1>1, Facts DEF ClaimState, ClaimAt, PayInv
<1>3. [Next]_vars /\ NftsMoveOn
  BY <1>2, NftsStayPut DEF Next, ClaimStep
<1>4. CASE Reply(c)
  BY <1>1, <1>2, <1>3, <1>4, ReplyPay
<1>5. CASE ~Reply(c)
  <2>1. PICK r \in Claim : /\ claim' = [claim EXCEPT ![c] = r]
                           /\ r.pc = "create" /\ r.position = q.position
                           /\ r.now = q.now /\ r.weeks = WeeksElapsed(q)
                           /\ r.nft = q.nft /\ Worthy(r.reward, r.position, r.weeks)
    BY <1>1, <1>5, StateEffect
  <2>2. MovesOn /\ UNCHANGED worker
    BY <1>2, <1>3, MovesOnStill
  <2>3. Lower(q) <= Lower(r)
    <3>1. PICK now \in Nat, from \in Int : now = q.now /\ from = q.lastRewardTs
      BY DEF Claim
    <3>2. now - from \in Nat
      BY <1>2, <3>1 DEF ClaimInv
    <3>3. PICK k \in Nat : k = (now - from) \div Week /\ Week * k <= now - from
      BY <3>2, DivFloor, PeriodAssumption
    <3>4. r.weeks = k /\ Lower(q) = from /\ Lower(r) = now - k * Week
      BY <1>2, <2>1, <3>1, <3>3 DEF WeeksElapsed, Lower
    <3>5. Week * k = k * Week /\ k * Week \in Int
      BY PeriodAssumption
    <3> QED
      BY <3>1, <3>3, <3>4, <3>5
  <2>4. HandlerInv(r)
    <3> SUFFICES ASSUME NEW p \in Positions, Handling(r, p)
                 PROVE  /\ position[p].startTs <= r.now
                        /\ Follows(r.now, Lower(r), p)
      BY <2>1 DEF HandlerInv
    <3>1. Handling(q, p)
      BY <1>2, <2>1 DEF Handling
    <3>2. position[p].startTs <= q.now /\ Follows(q.now, Lower(q), p)
      BY <1>2, <3>1 DEF HandlerInv, Before
    <3>3. PICK from \in Int, up \in Int : from = Lower(q) /\ up = Lower(r) /\ from <= up
      BY <2>3, LowerType
    <3>4. position[p].startTs \in Nat
      BY <1>2, <3>1, RowTypes DEF ClaimInv, Handling
    <3>5. position[p].startTs <= up
      BY <3>2, <3>3, <3>4 DEF Follows
    <3>6. ASSUME NEW m \in Sound(p), ClaimedAt(m) + RequestLifetime < q.now
          PROVE  ClaimedAt(m) <= up + RequestLifetime
      <4>1. ClaimedAt(m) \in Int /\ ClaimedAt(m) <= from + RequestLifetime
        BY <3>2, <3>3, <3>6, PaidTypes DEF Follows, Sound
      <4> QED
        BY <3>3, <4>1, PeriodAssumption
    <3> QED
      BY <2>1, <3>2, <3>3, <3>5, <3>6 DEF Follows
  <2>5. HandlerInv(r)'
    <3>1. ClaimInv(r)
      BY <1>2, <2>1 DEF ClaimInv
    <3> QED
      BY <2>2, <2>4, <3>1, HandlerWaits
  <2>6. ASSUME NEW p \in Positions, NEW n \in Paid(p) PROVE Settles(n, p)
    <3>1. n \in Nfts
      BY DEF Paid
    <3> QED
      BY <1>1, <1>2, <2>1, <3>1, SettledStays
  <2>7. /\ Before(claim[c]) /\ r.position = claim[c].position /\ r.now = claim[c].now
        /\ \A n \in Nfts : nft'[n] # Null => nft[n] # Null
    BY <1>1, <1>2, <2>1 DEF Before
  <2> QED
    BY <2>1, <2>2, <2>5, <2>6, <2>7, NoNewNft
<1> QED
  BY <1>4, <1>5

LEMMA ClaimCreatePay ==
    ASSUME IInv, PayInv, NEW c \in Claims, ClaimCreate(c)
    PROVE  PayInv'
<1>1. PICK q \in Claim : claim[c] = q
  BY Facts
<1>2. /\ q.pc = "create" /\ UNCHANGED <<distributionVars, unsettled>>
      /\ ClaimInv(q) /\ HandlerInv(q) /\ [Next]_vars
  BY <1>1, Facts DEF ClaimCreate, ClaimAt, PayInv, Next, ClaimStep
<1>3. CASE nft[q.nft] # Null
  <2>1. Reply(c) /\ UNCHANGED nft
    BY <1>1, <1>3 DEF ClaimCreate
  <2>2. NftsMoveOn
    BY <1>2, <2>1, NftsStayPut
  <2> QED
    BY <1>1, <1>2, <2>1, <2>2, ReplyPay
<1>4. CASE nft[q.nft] = Null
  <2>1. PICK p \in Positions, n \in Nfts, now \in Nat, weeks \in Nat :
            p = q.position /\ n = q.nft /\ now = q.now /\ weeks = q.weeks
    BY <1>2 DEF ClaimInv, Claim
  <2>2. PICK r \in Claim, row \in NftRow :
            /\ claim' = [claim EXCEPT ![c] = r]
            /\ r.pc = "update" /\ r.position = p /\ r.nft = n /\ r.now = now
            /\ nft' = [nft EXCEPT ![n] = row]
            /\ row.position = p /\ row.weeks = weeks
            /\ row.vestTs = now + VestingPeriod
    BY <1>1, <1>4, <2>1, CreateEffect
  <2>3. /\ nft'[n] = row /\ row # Null /\ nft[n] = Null
        /\ \A m \in Nfts \ {n} : nft'[m] = nft[m]
    BY <1>4, <2>1, <2>2, NftNullAssumption, Facts
  <2>4. ClaimedAt(n)' = now /\ PaidFrom(n)' = now - weeks * Week
    BY <2>2, <2>3, VestingAssumption DEF ClaimedAt, PaidFrom
  <2>5. now <= clock /\ clock <= now + RequestLifetime /\ Exists(p) /\ Handling(q, p)
    BY <1>2, <2>1 DEF ClaimInv, Handling
  <2>6. NftsMoveOn
    <3>1. (ClaimedAt(n) + RequestLifetime >= clock)'
      BY <1>2, <2>4, <2>5 DEF distributionVars
    <3> QED
      BY <1>2, <2>3, <3>1 DEF NftsMoveOn
  <2>7. MovesOn /\ UNCHANGED <<position, clock, worker>>
    BY <1>2, <2>6, MovesOnStill
  <2>8. HandlerInv(r)'
    <3>1. \A v \in Positions : Handling(r, v) => v = p
      BY <2>2 DEF Handling
    <3>2. position'[p].startTs <= r.now
      BY <1>2, <2>1, <2>2, <2>5, <2>7 DEF HandlerInv
    <3>3. r.nft \in Paid(p)' /\ ClaimedAt(r.nft)' = r.now
      BY <2>2, <2>3, <2>4 DEF Paid
    <3> QED
      BY <2>2, <3>1, <3>2, <3>3 DEF HandlerInv, Handling, Before
  <2>9. PaidInv(n, p)'
    <3>1. Lower(q) = now - weeks * Week /\ Lower(q) \in Int
      BY <1>2, <2>1, LowerType DEF Lower
    <3>2. Follows(now, Lower(q), p)
      BY <1>2, <2>1, <2>5 DEF HandlerInv, Before
    <3>3. Follows(now, Lower(q), p)'
      BY <2>5, <2>7, <3>1, <3>2, FollowsOn
    <3>4. Follows(ClaimedAt(n), PaidFrom(n), p)'
      BY <2>4, <3>1, <3>3 DEF Follows
    <3>5. Settling(n)'
      <4>1. claim'[c] = r
        BY <2>2, Facts
      <4> QED
        BY <2>2, <4>1 DEF Settling
    <3>6. Exists(p)' /\ ClaimedAt(n)' \in Nat /\ ClaimedAt(n)' <= clock'
      BY <2>4, <2>5, <2>7 DEF Exists
    <3> QED
      BY <3>4, <3>5, <3>6 DEF PaidInv
  <2>10. ASSUME NEW v \in Positions, NEW m \in Paid(v)'
         PROVE  (m \in Paid(v) /\ Settles(m, v)) \/ PaidInv(m, v)'
    <3>1. CASE m = n
      <4>1. v = p
        BY <2>2, <2>3, <3>1 DEF Paid
      <4> QED
        BY <2>9, <3>1, <4>1
    <3>2. CASE m # n
      <4>1. m \in Paid(v) /\ m \in Nfts
        BY <2>3, <3>2 DEF Paid
      <4> QED
        BY <1>1, <1>2, <2>2, <4>1, SettledStays
    <3> QED
      BY <3>1, <3>2
  <2>11. ASSUME NEW v \in Positions, NEW t \in Nat
         PROVE  Crowd(v, t)'
    <3>1. Crowd(v, t) /\ ~Before(r) /\ claim'[c] = r
      BY <2>2, Facts DEF PayInv, Before
    <3>2. Coming(v, t)' \subseteq Coming(v, t)
      BY <2>2, <3>1, ComingLess
    <3>3. c \notin Coming(v, t)'
      BY <3>1 DEF Coming, Before
    <3>4. Near(v, t)' \subseteq Near(v, t) \union {n}
      <4> SUFFICES ASSUME NEW m \in Near(v, t)', m # n PROVE m \in Near(v, t)
        OBVIOUS
      <4>1. m \in Nfts /\ nft'[m] = nft[m]
        BY <2>3 DEF Near, Sound, Paid
      <4> QED
        BY <1>2, <4>1 DEF Near, Sound, Paid, ClaimedAt
    <3>5. CASE n \in Near(v, t)'
      <4>1. v = p /\ t <= now /\ now <= t + RequestLifetime
        BY <2>2, <2>3, <2>4, <3>5 DEF Near, Sound, Paid
      <4>2. c \in Coming(v, t)
        BY <1>1, <1>2, <2>1, <4>1 DEF Coming, Before
      <4> QED
        BY <3>1, <3>2, <3>3, <3>4, <4>2, CrowdMoves
    <3>6. CASE n \notin Near(v, t)'
      <4>1. Near(v, t)' \subseteq Near(v, t)
        BY <3>4, <3>6
      <4> QED
        BY <3>1, <3>2, <4>1, CrowdLess
    <3> QED
      BY <3>5, <3>6
  <2> QED
    BY <2>2, <2>7, <2>8, <2>10, <2>11, PayStep
<1> QED
  BY <1>3, <1>4

LEMMA ClaimUpdatePay ==
    ASSUME IInv, PayInv, NEW c \in Claims, ClaimUpdate(c)
    PROVE  PayInv'
<1>1. PICK q \in Claim : claim[c] = q
  BY Facts
<1>2. /\ q.pc = "update" /\ Reply(c)
      /\ UNCHANGED <<clock, worker, nft, unsettled>>
      /\ ClaimInv(q) /\ HandlerInv(q) /\ [Next]_vars
  BY <1>1, Facts DEF ClaimUpdate, ClaimAt, PayInv, Next, ClaimStep
<1>3. PICK p \in Positions, now \in Nat : p = q.position /\ now = q.now
  BY <1>2 DEF ClaimInv, Claim
<1>4. /\ Exists(p) /\ position[p] \in PositionRow /\ clock <= now + RequestLifetime
      /\ position[p].startTs <= now
      /\ q.nft \in Paid(p) /\ ClaimedAt(q.nft) = now
  BY <1>2, <1>3, RowTypes DEF ClaimInv, HandlerInv, Handling
<1>5. PICK row \in PositionRow : /\ position' = [position EXCEPT ![p] = row]
                                 /\ row.startTs = position[p].startTs
                                 /\ row.lastRewardTs = now /\ row.lastClaimTs = now
  <2> DEFINE one == [position[p] EXCEPT !.lastRewardTs = now]
             row == [one EXCEPT !.lastClaimTs = now]
  <2>1. one \in PositionRow /\ one.startTs = position[p].startTs /\ one.lastRewardTs = now
    BY <1>4 DEF PositionRow
  <2>2. position' = [position EXCEPT ![p] = row]
    BY <1>1, <1>3 DEF ClaimUpdate
  <2> HIDE DEF one
  <2>3. /\ row \in PositionRow /\ row.startTs = position[p].startTs
        /\ row.lastRewardTs = now /\ row.lastClaimTs = now
    BY <2>1 DEF PositionRow
  <2> HIDE DEF row
  <2> QED
    BY <2>2, <2>3
<1>6. MovesOn
  <2>1. RowsMoveOn
    BY <1>2, <1>4, <1>5, OneRowMoves
  <2> QED
    BY <1>2, <2>1, NftsStayPut, NextInv, Facts DEF MovesOn
<1>7. PICK r \in Claim : r.pc = "idle" /\ claim' = [claim EXCEPT ![c] = r]
  BY <1>2, IdleClaimIs DEF Reply
<1>8. HandlerInv(r)' /\ ~Before(r)
  BY <1>7, NotHandling
<1>9. ASSUME NEW v \in Positions, NEW n \in Paid(v) PROVE Settles(n, v)
  <2>1. n \in Nfts /\ nft[n].position = v
    BY DEF Paid
  <2>2. CASE n = q.nft
    <3>1. v = p
      BY <1>4, <2>1, <2>2 DEF Paid
    <3>2. position'[p] = row
      BY <1>5, Facts, DistributionFacts
    <3> QED
      BY <1>4, <1>5, <2>2, <3>1, <3>2 DEF Settles
  <2>3. CASE n # q.nft
    <3> SUFFICES ASSUME n \notin unsettled', ~Settling(n)', Settling(n)
                 PROVE  FALSE
      BY <1>2 DEF Settles
    <3>1. PICK d \in Claims : claim[d].pc = "update" /\ claim[d].nft = n
      BY DEF Settling
    <3>2. d # c
      BY <1>1, <2>3, <3>1
    <3>3. claim'[d] = claim[d]
      BY <1>7, <3>2, Facts
    <3> QED
      BY <3>1, <3>3 DEF Settling
  <2> QED
    BY <2>2, <2>3
<1> QED
  BY <1>2, <1>6, <1>7, <1>8, <1>9, NoNewNft

LEMMA VestReadPay ==
    ASSUME IInv, PayInv, NEW c \in Claims, NEW n \in Nfts, VestRead(c, n)
    PROVE  PayInv'
<1>1. PICK r \in Claim : claim' = [claim EXCEPT ![c] = r] /\ r.pc = "vest"
  BY VestReadEffect
<1>2. UNCHANGED <<distributionVars, nft, unsettled>> /\ claim[c].pc = "idle"
  BY DEF VestRead, ClaimFree
<1>3. MovesOn /\ UNCHANGED worker
  <2>1. [Next]_vars
    BY DEF Next, ClaimStep
  <2> QED
    BY <1>2, <2>1, MovesOnStill, NftsStayPut
<1>4. HandlerInv(r)' /\ ~Before(r)
  BY <1>1, NotHandling
<1>5. ASSUME NEW p \in Positions, NEW m \in Paid(p) PROVE Settles(m, p)
  <2>1. m \in Nfts
    BY DEF Paid
  <2> QED
    BY <1>1, <1>2, <2>1, SettledStays
<1> QED
  BY <1>1, <1>2, <1>3, <1>4, <1>5, NoNewNft

LEMMA VestWritePay ==
    ASSUME IInv, PayInv, NEW c \in Claims, VestWrite(c)
    PROVE  PayInv'
<1>1. PICK n \in Nfts, row \in NftRow :
          /\ nft[n] # Null /\ nft[n] \in NftRow
          /\ row = [nft[n] EXCEPT !.isActive = FALSE]
          /\ nft' = [nft EXCEPT ![n] = row]
  BY VestEffect
<1>2. /\ Reply(c) /\ UNCHANGED <<distributionVars, unsettled>>
      /\ claim[c].pc # "update" /\ [Next]_vars
  BY DEF VestWrite, ClaimAt, Next, ClaimStep
<1>3. /\ row # Null /\ row.position = nft[n].position
      /\ row.vestTs = nft[n].vestTs /\ row.weeks = nft[n].weeks
  BY <1>1, NftNullAssumption DEF NftRow
<1>4. nft'[n] = row /\ \A m \in Nfts \ {n} : nft'[m] = nft[m]
  BY <1>1, Facts
<1>5. NftsMoveOn
  BY <1>1, <1>2, <1>3, <1>4 DEF NftsMoveOn
<1>6. \A m \in Nfts : nft'[m] # Null => nft[m] # Null
  BY <1>1, <1>4
<1> QED
  BY <1>2, <1>5, <1>6, ReplyPay

LEMMA ClaimAbortPay ==
    ASSUME IInv, PayInv, NEW c \in Claims, ClaimAbort(c)
    PROVE  PayInv'
<1>1. Reply(c) /\ UNCHANGED <<distributionVars, nft>> /\ [Next]_vars
  BY DEF ClaimAbort, Next, ClaimStep
<1>2. /\ unsettled \subseteq unsettled'
      /\ claim[c].pc # "update" \/ claim[c].nft \in unsettled'
  BY DEF ClaimAbort, ClaimAt
<1> QED
  BY <1>1, <1>2, NftsStayPut, ReplyPay

(* Steps that leave the claims and the NFTs alone.                         *)
LEMMA OthersPay ==
    ASSUME IInv, PayInv, [Next]_vars, RowsMoveOn, RunTimes',
           UNCHANGED rewardVars, clock' \in Nat, clock <= clock'
    PROVE  PayInv'
<1>1. UNCHANGED <<nft, claim, unsettled>> /\ NftsMoveOn
  BY NftsStayPut DEF rewardVars
<1>2. MovesOn /\ RowTimes'
  BY <1>1, NextInv, Facts DEF MovesOn, RowsMoveOn, RowTimes
<1>3. ASSUME NEW d \in Claims PROVE HandlerInv(claim[d])'
  <2>1. PICK q \in Claim : claim[d] = q /\ claim'[d] = q
    BY <1>1, Facts
  <2>2. ClaimInv(q) /\ HandlerInv(q)
    BY <2>1, Facts DEF PayInv
  <2> QED
    BY <1>2, <2>1, <2>2, HandlerIs, HandlerWaits
<1>4. ASSUME NEW p \in Positions, NEW n \in Paid(p)' PROVE PaidInv(n, p)'
  <2>1. n \in Paid(p) /\ Settles(n, p)
    BY <1>1 DEF Paid, Settles, Settling
  <2> QED
    BY <1>2, <2>1, PaidStays
<1>5. ASSUME NEW p \in Positions, NEW t \in Nat PROVE Crowd(p, t)'
  BY <1>1 DEF PayInv, Crowd, Near, Sound, Paid, ClaimedAt, Coming, Before
<1> QED
  BY <1>2, <1>3, <1>4, <1>5 DEF PayInv

LEMMA InitPay == Init => PayInv
<1> SUFFICES ASSUME Init PROVE PayInv
  OBVIOUS
<1>1. RowTimes /\ RunTimes
  BY IdleWorkerIs DEF Init, DistributionInit, RowTimes, RunTimes, Exists
<1>2. \A c \in Claims : HandlerInv(claim[c])
  BY IdleClaimIs DEF Init, HandlerInv, Handling
<1>3. \A p \in Positions : Paid(p) = {}
  BY DEF Init, Paid
<1>4. ASSUME NEW p \in Positions, NEW t \in Nat PROVE Crowd(p, t)
  <2>1. Near(p, t) = {} /\ Coming(p, t) = {}
    BY <1>3, IdleClaimIs DEF Init, Near, Sound, Coming, Before
  <2> QED
    BY <2>1, NftAssumption, FS_EmptySet, FS_CardinalityType DEF Crowd
<1> QED
  BY <1>1, <1>2, <1>3, <1>4 DEF PayInv

LEMMA NextPay == IInv /\ PayInv /\ [Next]_vars => PayInv'
<1> SUFFICES ASSUME IInv, PayInv, [Next]_vars PROVE PayInv'
  OBVIOUS
<1>1. CASE UNCHANGED vars
  <2>1. UNCHANGED <<position, clock, worker, rewardVars>>
    BY <1>1 DEF vars, distributionVars
  <2> QED
    BY <2>1, RowsStayPut, OthersPay, Facts DEF PayInv, RunTimes
<1>2. CASE DistributionStep /\ UNCHANGED rewardVars
  BY <1>2, ClockGoesOn, DistributionRows, DistributionRuns, OthersPay, Facts
<1>3. CASE Tick
  <2>1. UNCHANGED <<position, worker, rewardVars>> /\ clock' = clock + 1
    BY <1>3 DEF Tick, DistributionTick
  <2>2. clock' \in Nat /\ clock <= clock'
    BY <2>1, Facts
  <2> QED
    BY <2>1, <2>2, RowsStayPut, OthersPay DEF PayInv, RunTimes
<1>4. ASSUME NEW c \in Claims, ClaimStep(c) PROVE PayInv'
  BY <1>4, ClaimReadPay, ClaimStatePay, ClaimCreatePay, ClaimUpdatePay, VestReadPay,
     VestWritePay, ClaimAbortPay DEF ClaimStep
<1> QED
  BY <1>1, <1>2, <1>3, <1>4 DEF Next

(* In every state what claims in flight will be paid, and what NFTs were,  *)
(* follows on what was paid before (rewards.service.ts:31-115).            *)
THEOREM PayInvariant == Spec => []PayInv
<1> QED
  BY InitPay, NextPay, InductiveInvariant, PTL DEF Spec

(* Whatever claims, distributions and aborted requests do to each other,   *)
(* two claims of a position are paid for the same weeks, by more than a    *)
(* lifetime, only if they ran at the same time or if the first was cut     *)
(* short before its timestamps (rewards.service.ts:64-65, :106-112).       *)
THEOREM WeeksArePaidOnce == Spec => []WeeksPaidOnce
<1>1. PayInv => WeeksPaidOnce
  <2> SUFFICES ASSUME PayInv, NEW p \in Positions, NEW n \in Paid(p)
               PROVE  /\ position[p].startTs <= PaidFrom(n)
                      /\ \A m \in Paid(p) \ unsettled :
                            ClaimedAt(m) + RequestLifetime < ClaimedAt(n) =>
                                ClaimedAt(m) <= PaidFrom(n) + RequestLifetime
    BY DEF WeeksPaidOnce
  <2> QED
    BY DEF PayInv, PaidInv, Follows, Sound
<1> QED
  BY <1>1, PayInvariant, PTL

(* However many claims of a position are sent, no more of them are paid    *)
(* within a lifetime than there are handlers in flight                     *)
(* (rewards.service.ts:47-52, :106-112).                                   *)
THEOREM DoublePayIsBounded == Spec => []DoublePayBounded
<1>1. PayInv => DoublePayBounded
  <2> SUFFICES ASSUME PayInv, NEW p \in Positions, NEW n \in Sound(p)
               PROVE  Cardinality({m \in Sound(p) :
                                       /\ ClaimedAt(n) <= ClaimedAt(m)
                                       /\ ClaimedAt(m) <= ClaimedAt(n) + RequestLifetime})
                          <= Cardinality(Claims)
    BY DEF DoublePayBounded, Sound
  <2>1. PICK t \in Nat : t = ClaimedAt(n)
    BY DEF PayInv, PaidInv, Sound
  <2>2. Cardinality(Near(p, t)) + Cardinality(Coming(p, t)) <= Cardinality(Claims)
    BY DEF PayInv, Crowd
  <2>3. /\ Cardinality(Near(p, t)) \in Nat /\ Cardinality(Coming(p, t)) \in Nat
        /\ Cardinality(Claims) \in Nat
    BY CrowdTypes
  <2>4. Cardinality(Near(p, t)) <= Cardinality(Claims)
    BY <2>2, <2>3
  <2> QED
    BY <2>1, <2>4 DEF Near
<1> QED
  BY <1>1, PayInvariant, PTL

=============================================================================
