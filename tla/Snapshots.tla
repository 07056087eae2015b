----------------------------- MODULE Snapshots -----------------------------
(***************************************************************************)
(* discount.service.ts: the daily snapshots of what every wallet stakes,   *)
(* the average over the last days and the discount it gives.  The cron job *)
(* runs on every replica, and an endpoint starts it as well.               *)
(*                                                                         *)
(* An amount is a whole number of units, of which Billion make 1000000000  *)
(* of what the columns count.  The table compares with nothing finer than  *)
(* a unit, so an average may be rounded down to one.                       *)
(***************************************************************************)
EXTENDS Sums

CONSTANTS Jobs,        \* slots for runs of createDailySnapshots
          Wallets,
          Amounts,     \* what a wallet may have in active positions
          Billion,     \* 1000000000 of what the columns count
          Window,      \* days that an average looks back (30)
          Keep,        \* days that a snapshot is kept (90)
          MaxRun,      \* the days a job may take
          MaxTime,     \* bound of the model: the clock, in days
          MaxJobs,  \* bound of the model: jobs begun
          MaxCuts    \* bound of the model: jobs cut short

ASSUME WalletAssumption == IsFiniteSet(Wallets)
ASSUME AmountAssumption == Amounts \subseteq Nat /\ 0 \in Amounts
ASSUME BillionAssumption == Billion \in Nat \ {0}
ASSUME DayAssumption ==
    /\ Window \in Nat /\ Keep \in Nat /\ MaxRun \in Nat
    /\ Window <= Keep
ASSUME DayBoundAssumption == MaxTime \in Nat /\ MaxJobs \in Nat /\ MaxCuts \in Nat

VARIABLES clock,
          staked,    \* the sum of a wallet's active positions
          held,      \* history: what a wallet had staked, by day
          rows,      \* staking_snapshots
          job,       \* the jobs in flight
          begun, cuts

snapshotVars == <<clock, staked, held, rows, job, begun, cuts>>

(* id tells the rows of different jobs apart. *)
Row == [id : Nat, wallet : Wallets, amount : Nat, date : Nat]

(* sums is what groupBy found and is still to be looked up; pc names the   *)
(* next statement ("user" for each of them).                               *)
Job == [pc : {"idle", "user", "create", "clean"}, id : Nat, since : Nat,
        sums : SUBSET [wallet : Wallets, amount : Nat], snapshots : SUBSET Row]

NoJob == [pc |-> "idle", id |-> 0, since |-> 0, sums |-> {}, snapshots |-> {}]

JobFree(j) == job[j].pc = "idle"
JobAt(j, s) == job[j].pc = s
JobDone(j) == job' = [job EXCEPT ![j] = NoJob]

SnapshotsTypeOK ==
    /\ clock \in 0..MaxTime
    /\ staked \in [Wallets -> Amounts]
    /\ held \in [Wallets -> [0..MaxTime -> SUBSET Amounts]]
    /\ rows \in SUBSET Row
    /\ job \in [Jobs -> Job]
    /\ begun \in Nat /\ cuts \in Nat

(* Nobody stakes yet. *)
SnapshotsInit ==
    /\ clock = 0
    /\ staked = [w \in Wallets |-> 0]
    /\ held = [w \in Wallets |-> [d \in 0..MaxTime |-> IF d = 0 THEN {0} ELSE {}]]
    /\ rows = {}
    /\ job = [j \in Jobs |-> NoJob]
    /\ begun = 0 /\ cuts = 0

(***************************************************************************)
(* createDailySnapshots                                                    *)
(***************************************************************************)

(* groupBy over the active positions: a wallet without one is not found.   *)
SnapshotGroup(j) ==
    LET sums == {[wallet |-> w, amount |-> staked[w]] :
                     w \in {v \in Wallets : staked[v] > 0}}
    IN  /\ JobFree(j)
        /\ begun < MaxJobs /\ begun' = begun + 1
        /\ job' = [job EXCEPT ![j] =
               [pc |-> IF sums = {} THEN "clean" ELSE "user", id |-> begun,
                since |-> clock, sums |-> sums, snapshots |-> {}]]
        /\ UNCHANGED <<clock, staked, held, rows, cuts>>

(* findUnique, which finds the user that the position refers to, and the   *)
(* row in memory.                                                          *)
SnapshotUser(j, s) ==
    LET q == job[j]
        rest == q.sums \ {s}
    IN  /\ JobAt(j, "user") /\ s \in q.sums
        /\ job' = [job EXCEPT ![j] =
               [q EXCEPT !.pc = IF rest = {} THEN "create" ELSE "user",
                         !.sums = rest,
                         !.snapshots = @ \union
                             {[id |-> q.id, wallet |-> s.wallet,
                               amount |-> s.amount, date |-> clock]}]]
        /\ UNCHANGED <<clock, staked, held, rows, begun, cuts>>

SnapshotCreate(j) ==
    /\ JobAt(j, "create")
    /\ rows' = rows \union job[j].snapshots
    /\ job' = [job EXCEPT ![j].pc = "clean"]
    /\ UNCHANGED <<clock, staked, held, begun, cuts>>

SnapshotClean(j) ==
    /\ JobAt(j, "clean")
    /\ rows' = {x \in rows : x.date >= clock - Keep}
    /\ JobDone(j)
    /\ UNCHANGED <<clock, staked, held, begun, cuts>>

(* A statement throws or the replica dies; what was written stays. *)
JobAbort(j) ==
    /\ ~JobFree(j)
    /\ cuts < MaxCuts /\ cuts' = cuts + 1
    /\ JobDone(j)
    /\ UNCHANGED <<clock, staked, held, rows, begun>>

(***************************************************************************)
(* Meanwhile                                                               *)
(***************************************************************************)

(* Positions of the wallet are opened, or go into their cooldown. *)
Restake(w, a) ==
    /\ staked' = [staked EXCEPT ![w] = a]
    /\ held' = [held EXCEPT ![w][clock] = @ \union {a}]
    /\ UNCHANGED <<clock, rows, job, begun, cuts>>

Tick ==
    /\ clock < MaxTime
    /\ \A j \in Jobs : ~JobFree(j) => clock < job[j].since + MaxRun
    /\ clock' = clock + 1
    /\ held' = [w \in Wallets |-> [held[w] EXCEPT ![clock + 1] = {staked[w]}]]
    /\ UNCHANGED <<staked, rows, job, begun, cuts>>

JobStep(j) ==
    \/ SnapshotGroup(j)
    \/ \E s \in job[j].sums : SnapshotUser(j, s)
    \/ SnapshotCreate(j)
    \/ SnapshotClean(j)
    \/ JobAbort(j)

SnapshotsNext ==
    \/ Tick
    \/ \E w \in Wallets, a \in Amounts : Restake(w, a)
    \/ \E j \in Jobs : JobStep(j)

SnapshotsSpec == SnapshotsInit /\ [][SnapshotsNext]_snapshotVars

-----------------------------------------------------------------------------
(***************************************************************************)
(* What the rows are for                                                   *)
(***************************************************************************)

Used(w) == {x \in rows : x.wallet = w /\ x.date >= clock - Window}

Total(S) == SumOver([x \in S |-> x.amount])

(* MUTANT of Average: divided by the days, not by the snapshots. *)
Average_Daily(w) == IF Window = 0 THEN 0 ELSE Total(Used(w)) \div Window

(* calculate30DayAverage. *)
Average(w) == IF Used(w) = {} THEN 0 ELSE Total(Used(w)) \div Cardinality(Used(w))

(* calculateDiscountPercentage. *)
Percentage(amount) == CASE amount < Billion       -> 0
                        [] amount < 10 * Billion  -> 5
                        [] amount < 50 * Billion  -> 10
                        [] amount < 100 * Billion -> 15
                        [] OTHER                  -> 20

(* What a wallet had staked in the days that an average looks back, and in *)
(* those that a job may have taken before.                                 *)
Held(w) == UNION {held[w][d] : d \in {e \in 0..clock : e >= clock - Window - MaxRun}}

(* A day may be counted once for every replica, once more for every call   *)
(* of the endpoint, or not at all, amounts change while a job is under way *)
(* and old rows are deleted by each of them: still the discount is one     *)
(* that an amount held in the period has earned, and as long as there is a *)
(* snapshot no less than the least of them has                             *)
(* (discount.service.ts:23-64, :81-97, :185-189).                          *)
DiscountIsEarned ==
    \A w \in Wallets :
        /\ \E a \in Held(w) : /\ Average(w) <= a
                              /\ Percentage(Average(w)) <= Percentage(a)
        /\ Used(w) # {} =>
               \E a \in Held(w) : /\ Average(w) >= a
                                  /\ Percentage(Average(w)) >= Percentage(a)

=============================================================================
