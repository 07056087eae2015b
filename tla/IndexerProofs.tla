--------------------------- MODULE IndexerProofs ---------------------------
(***************************************************************************)
(* Theorems about Indexer: its types, the bound on its subscriptions, and  *)
(* that the two writers of the events table keep what EventLog promises.   *)
(***************************************************************************)
EXTENDS Indexer, FiniteSetTheorems, TLAPS

(***************************************************************************)
(* The inductive invariant                                                 *)
(***************************************************************************)

(* What is worked on has landed, and what is to be finalized is stored and *)
(* final.                                                                  *)
HandlerInv(q) ==
    q.pc # "idle" =>
        /\ q.signature \in Signatures /\ Landed(q.signature)
        /\ q.pc \in {"status", "finalize"} => Stored(q.signature)
        /\ q.pc = "finalize" => chain[q.signature].finalized

TableInv ==
    /\ \A s \in Signatures : Stored(s) => Landed(s)
    /\ \A r \in Replicas : \A n \in notice[r] : Landed(n[2])
    /\ \A r \in Replicas : \A s \in sync[r].todo : Landed(s)
    /\ \A h \in Handlers : HandlerInv(handler[h])

(* A job that is under way has fixed the slot it began at. *)
JobInv == \A r \in Replicas : ~SyncFree(r) => behind[r] # Null

(* The stops of replica r that wait for their removals, and whether one of *)
(* them is going to remove anything.                                       *)
Pending(r) == {c \in Stops : stop[c].replica = r}
Removing(r) == \E c \in Pending(r) : stop[c].id \in subs[r]

(* The slack that a stop uses up when it resets isRunning. *)
Slack(r) == excused[r] + (IF indexer[r].isRunning THEN 1 ELSE 0)
                       + (IF Removing(r) THEN 1 ELSE 0)

ServiceInv(r) ==
    /\ IsFiniteSet(subs[r])
    /\ indexer[r].isRunning => indexer[r].subscriptionId \in subs[r]
    /\ Cardinality(subs[r]) + Cardinality(Pending(r)) <= Slack(r)

IInv == /\ TypeOK
        /\ TableInv
        /\ JobInv
        /\ \A c \in Stops : stop[c] # NoStop => stop[c].replica \in Replicas
        /\ \A r \in Replicas : ServiceInv(r)

-----------------------------------------------------------------------------
(***************************************************************************)
(* What the invariant gives                                                *)
(***************************************************************************)

LEMMA Facts ==
    ASSUME IInv
    PROVE  /\ TypeOK
           /\ chain \in [Signatures -> TxRow \union {Null}]
           /\ event \in [Signatures -> {"none", "confirmed", "finalized"}]
           /\ indexer \in [Replicas -> Service]
           /\ subs \in [Replicas -> SUBSET Nat]
           /\ notice \in [Replicas -> SUBSET (Nat \X Signatures)]
           /\ handler \in [Handlers -> Handling]
           /\ stop \in [Stops -> Stopping]
           /\ behind \in [Replicas -> 0..MaxLag \union {Null}]
           /\ sync \in [Replicas -> SyncJob]
           /\ excused \in [Replicas -> Nat]
           /\ used \in [starts : Nat, crashes : Nat, faults : Nat]
           /\ \A s \in Signatures : Stored(s) => Landed(s)
           /\ \A r \in Replicas : \A n \in notice[r] : Landed(n[2])
           /\ \A r \in Replicas : \A s \in sync[r].todo : Landed(s)
           /\ \A h \in Handlers : HandlerInv(handler[h])
           /\ \A r \in Replicas : sync[r].pc # "idle" => behind[r] # Null
           /\ \A c \in Stops : stop[c] # NoStop => stop[c].replica \in Replicas
           /\ \A r \in Replicas : ServiceInv(r)
  BY DEF IInv, TypeOK, TableInv, JobInv, SyncFree

LEMMA IdleIs ==
    /\ IdleSync \in SyncJob /\ IdleSync.todo = {} /\ IdleSync.pc = "idle"
    /\ IdleHandler \in Handling /\ IdleHandler.pc = "idle" /\ IdleHandler.replica = Null
    /\ NoStop \in Stopping /\ NoStop.replica = Null
  BY DEF IdleSync, SyncJob, IdleHandler, Handling, NoStop, Stopping

LEMMA SubscribedIs ==
    ASSUME NEW id \in Nat
    PROVE  /\ Subscribed(id) \in Service
           /\ Subscribed(id).isRunning = TRUE /\ Subscribed(id).subscriptionId = id
  BY DEF Subscribed, Service

(* A replica that is subscribed once and owes nothing. *)
LEMMA FreshService ==
    ASSUME NEW r \in Replicas, indexer[r].isRunning, indexer[r].subscriptionId = 0,
           subs[r] = {0}, excused[r] = 0, Pending(r) = {}
    PROVE  ServiceInv(r)
<1>1. IsFiniteSet(subs[r]) /\ Cardinality(subs[r]) = 1 /\ Cardinality(Pending(r)) = 0
  BY FS_Singleton, FS_EmptySet
<1>2. ~Removing(r)
  BY DEF Removing
<1>3. Slack(r) = 1
  BY <1>2 DEF Slack
<1> QED
  BY <1>1, <1>3 DEF ServiceInv

LEMMA InitIInv == Init => IInv
<1> SUFFICES ASSUME Init PROVE IInv
  OBVIOUS
<1>1. TypeOK
  <2>1. /\ chain \in [Signatures -> TxRow \union {Null}]
        /\ event \in [Signatures -> {"none", "confirmed", "finalized"}]
    BY DEF Init
  <2>2. indexer \in [Replicas -> Service] /\ handler \in [Handlers -> Handling]
    BY IdleIs, SubscribedIs DEF Init
  <2>3. subs \in [Replicas -> SUBSET Nat]
    BY DEF Init
  <2>4. /\ notice \in [Replicas -> SUBSET (Nat \X Signatures)]
        /\ stop \in [Stops -> Stopping] /\ sync \in [Replicas -> SyncJob]
    BY IdleIs DEF Init
  <2>5. behind \in [Replicas -> 0..MaxLag \union {Null}] /\ excused \in [Replicas -> Nat]
    BY DEF Init
  <2>6. used \in [starts : Nat, crashes : Nat, faults : Nat]
    BY DEF Init
  <2> QED
    BY <2>1, <2>2, <2>3, <2>4, <2>5, <2>6 DEF TypeOK
<1>2. TableInv
  BY IdleIs DEF Init, TableInv, Stored, HandlerInv
<1>3. ASSUME NEW r \in Replicas PROVE ServiceInv(r)
  <2>1. Pending(r) = {}
    BY IdleIs, NullAssumption DEF Init, Pending
  <2>2. /\ indexer[r].isRunning /\ indexer[r].subscriptionId = 0
        /\ subs[r] = {0} /\ excused[r] = 0
    BY SubscribedIs DEF Init
  <2> QED
    BY <2>1, <2>2, FreshService
<1>4. \A c \in Stops : stop[c] = NoStop
  BY DEF Init
<1>5. JobInv
  BY IdleIs DEF Init, JobInv, SyncFree
<1> QED
  BY <1>1, <1>2, <1>3, <1>4, <1>5 DEF IInv

(***************************************************************************)
(* What a step may do                                                      *)
(***************************************************************************)

(* Neither the chain nor the table goes back. *)
NothingGoesBack ==
    /\ \A s \in Signatures : Landed(s) => /\ Landed(s)'
                                          /\ chain[s].finalized => chain'[s].finalized
    /\ \A s \in Signatures : Stored(s) => Stored(s)'
    /\ \A s \in Signatures : Stored(s)' => Landed(s)'

LEMMA ChainStays ==
    ASSUME IInv, UNCHANGED chainVars PROVE NothingGoesBack
  BY Facts DEF chainVars, NothingGoesBack, Landed, Stored

LEMMA HandlerStays ==
    ASSUME NEW q \in Handling, HandlerInv(q), NothingGoesBack
    PROVE  HandlerInv(q)'
  BY DEF HandlerInv, NothingGoesBack

LEMMA TableGoesOn ==
    ASSUME IInv, NothingGoesBack,
           \A r \in Replicas : \A n \in notice'[r] : n \in notice[r] \/ Landed(n[2])',
           \A r \in Replicas : \A s \in sync'[r].todo : s \in sync[r].todo \/ Landed(s)',
           \A h \in Handlers : handler'[h] = handler[h] \/ HandlerInv(handler[h])'
    PROVE  TableInv'
<1>1. ASSUME NEW r \in Replicas, NEW n \in notice'[r] PROVE Landed(n[2])'
  <2>1. CASE n \in notice[r]
    <3>1. Landed(n[2]) /\ n[2] \in Signatures
      BY <2>1, Facts
    <3> QED
      BY <3>1 DEF NothingGoesBack
  <2> QED
    BY <1>1, <2>1
<1>2. ASSUME NEW r \in Replicas, NEW s \in sync'[r].todo PROVE Landed(s)'
  <2>1. CASE s \in sync[r].todo
    <3>1. Landed(s) /\ s \in Signatures
      BY <2>1, Facts DEF SyncJob
    <3> QED
      BY <3>1 DEF NothingGoesBack
  <2> QED
    BY <1>2, <2>1
<1>3. ASSUME NEW h \in Handlers PROVE HandlerInv(handler[h])'
  <2>1. CASE handler'[h] = handler[h]
    <3>1. PICK q \in Handling : q = handler[h] /\ q = handler'[h]
      BY <2>1, Facts
    <3>2. HandlerInv(q)
      BY <3>1, Facts
    <3>3. HandlerInv(q)'
      BY <3>2, HandlerStays
    <3> QED
      BY <3>1, <3>3 DEF HandlerInv
  <2> QED
    BY <1>3, <2>1
<1> QED
  BY <1>1, <1>2, <1>3 DEF TableInv, NothingGoesBack

(* The steps that leave the subscriptions alone. *)
LEMMA ServicesStay ==
    ASSUME IInv, UNCHANGED <<indexer, subs, stop, excused>>, TypeOK', TableInv', JobInv'
    PROVE  IInv'
<1>1. ASSUME NEW r \in Replicas PROVE ServiceInv(r)'
  BY Facts DEF ServiceInv, Slack, Removing, Pending
<1>2. \A c \in Stops : stop'[c] # NoStop => stop'[c].replica \in Replicas
  BY Facts
<1> QED
  BY <1>1, <1>2 DEF IInv

LEMMA FaultType ==
    ASSUME IInv, Fault
    PROVE  used' \in [starts : Nat, crashes : Nat, faults : Nat]
<1>1. PICK n \in Nat : used' = [used EXCEPT !.faults = n]
  <2>1. used.faults + 1 \in Nat
    BY Facts
  <2> QED
    BY <2>1 DEF Fault
<1> QED
  BY <1>1, Facts

(***************************************************************************)
(* The chain                                                               *)
(***************************************************************************)

LEMMA LongerType == \A n \in 0..MaxLag : Longer(n) \in 0..MaxLag
  BY DistanceAssumption DEF Longer

LEMMA LagType ==
    ASSUME IInv
    PROVE  /\ Lag \in [Replicas -> 0..MaxLag \union {Null}]
           /\ \A r \in Replicas : behind[r] # Null => Lag[r] # Null
<1>1. ASSUME NEW r \in Replicas
      PROVE  (IF behind[r] = Null THEN Null ELSE Longer(behind[r])) \in 0..MaxLag \union {Null}
  BY Facts, LongerType
<1>2. ASSUME NEW r \in Replicas, behind[r] # Null PROVE Longer(behind[r]) # Null
  BY <1>2, Facts, LongerType, NullAssumption
<1> QED
  BY <1>1, <1>2 DEF Lag

(* What the three steps of the chain have in common. *)
ChainGoesOn ==
    /\ chain' \in [Signatures -> TxRow \union {Null}]
    /\ behind' \in [Replicas -> 0..MaxLag \union {Null}]
    /\ \A r \in Replicas : behind[r] # Null => behind'[r] # Null
    /\ \A s \in Signatures : Landed(s) => /\ Landed(s)'
                                          /\ chain[s].finalized => chain'[s].finalized
    /\ \A r \in Replicas : \A n \in notice'[r] : n \in notice[r] \/ Landed(n[2])'
    /\ notice' \in [Replicas -> SUBSET (Nat \X Signatures)]
    /\ UNCHANGED <<event, indexer, subs, handler, stop, excused, sync, used>>

LEMMA ChainGoesOnInv == ASSUME IInv, ChainGoesOn PROVE IInv'
<1>1. TypeOK'
  BY Facts DEF ChainGoesOn, TypeOK
<1>2. NothingGoesBack
  BY Facts DEF ChainGoesOn, NothingGoesBack, Stored
<1>3. TableInv'
  BY <1>2, TableGoesOn DEF ChainGoesOn
<1>4. JobInv'
  BY Facts DEF ChainGoesOn, JobInv, SyncFree
<1> QED
  BY <1>1, <1>3, <1>4, ServicesStay DEF ChainGoesOn

(* A transaction that is a slot older, with more newer ones. *)
LEMMA OlderType ==
    ASSUME NEW row \in TxRow, NEW n \in Nat
    PROVE  /\ [row EXCEPT !.age = Longer(row.age)] \in TxRow
           /\ [row EXCEPT !.age = Longer(row.age)].finalized = row.finalized
           /\ [row EXCEPT !.newer = row.newer + 1, !.age = Longer(row.age)] \in TxRow
           /\ [row EXCEPT !.newer = row.newer + 1, !.age = Longer(row.age)].finalized
                  = row.finalized
<1>1. Longer(row.age) \in 0..MaxLag /\ row.newer + 1 \in Nat
  BY LongerType DEF TxRow
<1> QED
  BY <1>1 DEF TxRow

LEMMA AdvanceInv == ASSUME IInv, Advance PROVE ChainGoesOn
<1> DEFINE row(t) == IF Landed(t) THEN [chain[t] EXCEPT !.age = Longer(chain[t].age)]
                     ELSE Null
<1>1. chain' = [t \in Signatures |-> row(t)]
  BY DEF Advance
<1>2. ASSUME NEW t \in Signatures
      PROVE  /\ row(t) \in TxRow \union {Null}
             /\ Landed(t) => row(t) \in TxRow /\ row(t).finalized = chain[t].finalized
  <2>1. CASE Landed(t)
    <3>1. chain[t] \in TxRow
      BY <2>1, Facts DEF Landed
    <3> QED
      BY <2>1, <3>1, OlderType
  <2>2. CASE ~Landed(t)
    BY <2>2
  <2> QED
    BY <2>1, <2>2
<1> HIDE DEF row
<1>3. chain' \in [Signatures -> TxRow \union {Null}]
  BY <1>1, <1>2
<1>4. ASSUME NEW t \in Signatures, Landed(t)
      PROVE  Landed(t)' /\ chain'[t].finalized = chain[t].finalized
  BY <1>1, <1>2, <1>4, NullAssumption DEF Landed
<1>5. /\ behind' \in [Replicas -> 0..MaxLag \union {Null}]
      /\ \A r \in Replicas : behind[r] # Null => behind'[r] # Null
  BY LagType DEF Advance
<1> QED
  BY <1>3, <1>4, <1>5, Facts DEF Advance, liveVars, ChainGoesOn

LEMMA LandInv ==
    ASSUME IInv, NEW s \in Signatures, Land(s)
    PROVE  /\ ChainGoesOn
           /\ Landed(s)' /\ chain'[s].finalized = FALSE
           /\ \A t \in Signatures \ {s} :
                  /\ Landed(t)' <=> Landed(t)
                  /\ Landed(t) => chain'[t].finalized = chain[t].finalized
<1> DEFINE new == [newer |-> 0, age |-> 0, finalized |-> FALSE]
           row(t) == IF t = s THEN new
                     ELSE IF Landed(t) THEN [chain[t] EXCEPT !.newer = chain[t].newer + 1,
                                                  !.age = Longer(chain[t].age)]
                     ELSE Null
<1>1. chain' = [t \in Signatures |-> row(t)]
  BY DEF Land
<1>2. new \in TxRow /\ new.finalized = FALSE
  BY DistanceAssumption DEF TxRow
<1>3. ASSUME NEW t \in Signatures \ {s}
      PROVE  /\ row(t) \in TxRow \union {Null}
             /\ Landed(t) => row(t) \in TxRow /\ row(t).finalized = chain[t].finalized
             /\ ~Landed(t) => row(t) = Null
  <2>1. CASE Landed(t)
    <3>1. chain[t] \in TxRow
      BY <2>1, Facts DEF Landed
    <3> QED
      BY <2>1, <3>1, OlderType
  <2>2. CASE ~Landed(t)
    BY <2>2
  <2> QED
    BY <2>1, <2>2
<1>4. row(s) = new
  OBVIOUS
<1> HIDE DEF row, new
<1>5. chain' \in [Signatures -> TxRow \union {Null}]
  BY <1>1, <1>2, <1>3, <1>4
<1>6. Landed(s)' /\ chain'[s].finalized = FALSE
  BY <1>1, <1>2, <1>4, NullAssumption DEF Landed
<1>7. ASSUME NEW t \in Signatures \ {s}
      PROVE  /\ Landed(t)' <=> Landed(t)
             /\ Landed(t) => chain'[t].finalized = chain[t].finalized
  BY <1>1, <1>3, NullAssumption DEF Landed
<1>8. /\ notice' \in [Replicas -> SUBSET (Nat \X Signatures)]
      /\ \A r \in Replicas : \A n \in notice'[r] : n \in notice[r] \/ Landed(n[2])'
  <2>1. CASE notice' = notice
    BY <2>1, Facts
  <2>2. CASE notice' = [r \in Replicas |-> notice[r] \union (subs[r] \X {s})]
    <3>1. ASSUME NEW r \in Replicas PROVE subs[r] \X {s} \in SUBSET (Nat \X Signatures)
      BY Facts
    <3>2. ASSUME NEW r \in Replicas, NEW n \in subs[r] \X {s} PROVE n[2] = s
      OBVIOUS
    <3> QED
      BY <1>6, <2>2, <3>1, <3>2, Facts
  <2> QED
    BY <2>1, <2>2 DEF Land
<1>9. /\ behind' \in [Replicas -> 0..MaxLag \union {Null}]
      /\ \A r \in Replicas : behind[r] # Null => behind'[r] # Null
  BY LagType DEF Land
<1> QED
  BY <1>5, <1>6, <1>7, <1>8, <1>9 DEF Land, ChainGoesOn

LEMMA FinalizeInv ==
    ASSUME IInv, NEW s \in Signatures, Finalize(s)
    PROVE  /\ ChainGoesOn
           /\ Landed(s)' /\ chain'[s].finalized = TRUE
           /\ \A t \in Signatures \ {s} : chain'[t] = chain[t]
<1>1. chain[s] \in TxRow
  BY Facts DEF Finalize, Landed
<1>2. PICK row \in TxRow : chain' = [chain EXCEPT ![s] = row] /\ row.finalized = TRUE
  <2>1. [chain[s] EXCEPT !.finalized = TRUE] \in TxRow
    BY <1>1 DEF TxRow
  <2>2. [chain[s] EXCEPT !.finalized = TRUE].finalized = TRUE
    BY <1>1 DEF TxRow
  <2>3. chain' = [chain EXCEPT ![s] = [chain[s] EXCEPT !.finalized = TRUE]]
    BY DEF Finalize
  <2> QED
    BY <2>1, <2>2, <2>3
<1>3. /\ chain' \in [Signatures -> TxRow \union {Null}]
      /\ chain'[s] = row /\ \A t \in Signatures \ {s} : chain'[t] = chain[t]
  BY <1>2, Facts
<1>4. Landed(s)' /\ chain'[s].finalized = TRUE
  BY <1>2, <1>3, NullAssumption DEF Landed
<1>5. UNCHANGED <<event, indexer, subs, notice, handler, stop, excused, behind, sync, used>>
  BY DEF Finalize, liveVars, syncVars
<1>6. ASSUME NEW t \in Signatures, Landed(t)
      PROVE  Landed(t)' /\ (chain[t].finalized => chain'[t].finalized)
  <2>1. CASE t = s
    BY <1>4, <2>1
  <2>2. CASE t # s
    BY <1>3, <1>6, <2>2 DEF Landed
  <2> QED
    BY <2>1, <2>2
<1> QED
  BY <1>3, <1>4, <1>5, <1>6, Facts DEF ChainGoesOn

LEMMA ChainInv == ASSUME IInv, ChainStep PROVE IInv'
  BY ChainGoesOnInv, AdvanceInv, LandInv, FinalizeInv DEF ChainStep

(***************************************************************************)
(* The sync job                                                            *)
(***************************************************************************)

(* A step of a job that leaves the table alone. *)
LEMMA SyncMoves ==
    ASSUME IInv, NEW r \in Replicas, NEW job \in SyncJob,
           sync' = [sync EXCEPT ![r] = job],
           \A s \in job.todo : s \in sync[r].todo \/ Landed(s),
           behind' \in [Replicas -> 0..MaxLag \union {Null}],
           job.pc # "idle" => behind'[r] # Null,
           \A q \in Replicas \ {r} : behind'[q] = behind[q],
           used' \in [starts : Nat, crashes : Nat, faults : Nat],
           event' \in [Signatures -> {"none", "confirmed", "finalized"}],
           UNCHANGED <<chain, liveVars>>, NothingGoesBack
    PROVE  IInv'
<1>1. TypeOK'
  BY Facts DEF TypeOK, liveVars
<1>2. ASSUME NEW q \in Replicas, NEW s \in sync'[q].todo
      PROVE  s \in sync[q].todo \/ Landed(s)'
  <2>1. CASE q = r
    BY <1>2, <2>1, Facts DEF Landed
  <2>2. CASE q # r
    BY <1>2, <2>2, Facts
  <2> QED
    BY <2>1, <2>2
<1>3. TableInv'
  BY <1>2, TableGoesOn DEF liveVars
<1>4. JobInv'
  BY Facts DEF JobInv, SyncFree
<1> QED
  BY <1>1, <1>3, <1>4, ServicesStay DEF liveVars

(* The jobs that the steps leave behind. *)
LEMMA SyncMovesOn ==
    ASSUME IInv, NEW r \in Replicas, NEW s
    PROVE  /\ [sync[r] EXCEPT !.pc = "find", !.todo = sync[r].todo \ {s}] \in SyncJob
           /\ [sync[r] EXCEPT !.pc = "find", !.todo = sync[r].todo \ {s}].todo
                  \subseteq sync[r].todo
           /\ [sync[r] EXCEPT !.pc = "create"] \in SyncJob
           /\ [sync[r] EXCEPT !.pc = "create"].todo = sync[r].todo
<1>1. sync[r] \in SyncJob
  BY Facts
<1> QED
  BY <1>1 DEF SyncJob

LEMMA SyncNextJob ==
    ASSUME IInv, NEW r \in Replicas, NEW s, SyncNext(r, s)
    PROVE  \E job \in SyncJob : /\ sync' = [sync EXCEPT ![r] = job]
                                /\ job.todo \subseteq sync[r].todo
<1>1. sync' = [sync EXCEPT ![r] =
                   [sync[r] EXCEPT !.pc = "find", !.todo = sync[r].todo \ {s}]]
  BY DEF SyncNext
<1> QED
  BY <1>1, SyncMovesOn

LEMMA GapType ==
    ASSUME IInv, NEW r \in Replicas
    PROVE  Gap(r) \in 0..MaxLag /\ Gap(r) \in Nat /\ Gap(r) # Null
<1>1. Gap(r) \in 0..MaxLag
  BY Facts, DistanceAssumption DEF Gap
<1> QED
  BY <1>1, NullAssumption, DistanceAssumption

LEMMA SyncStartInv == ASSUME IInv, NEW r \in Replicas, SyncStart(r) PROVE IInv'
<1> DEFINE job == [pc |-> "page", todo |-> {},
                   stride |-> IF Gap(r) < Batch + 1 THEN Gap(r) ELSE Batch + 1]
<1>1. job \in SyncJob /\ job.todo = {}
  BY GapType, DistanceAssumption DEF SyncJob
<1>2. sync' = [sync EXCEPT ![r] = job]
  BY DEF SyncStart
<1> HIDE DEF job
<1>3. /\ behind' \in [Replicas -> 0..MaxLag \union {Null}]
      /\ behind'[r] # Null /\ \A q \in Replicas \ {r} : behind'[q] = behind[q]
  BY GapType, Facts DEF SyncStart
<1>4. NothingGoesBack
  BY ChainStays DEF SyncStart
<1>5. UNCHANGED <<chain, event, liveVars, used>>
  BY DEF SyncStart, chainVars
<1>6. /\ event' \in [Signatures -> {"none", "confirmed", "finalized"}]
      /\ used' \in [starts : Nat, crashes : Nat, faults : Nat]
  BY <1>5, Facts
<1> QED
  BY <1>1, <1>2, <1>3, <1>4, <1>5, <1>6, SyncMoves

(* The steps that only concern the job and, if a call fails, the bound. *)
LEMMA OnlyTheJob ==
    ASSUME IInv, NEW r \in Replicas, NEW job \in SyncJob,
           sync' = [sync EXCEPT ![r] = job],
           \A s \in job.todo : s \in sync[r].todo \/ Landed(s),
           job.pc = "idle" \/ sync[r].pc # "idle",
           UNCHANGED used \/ Fault,
           UNCHANGED <<chainVars, liveVars, behind>>
    PROVE  IInv'
<1>1. NothingGoesBack
  BY ChainStays
<1>2. used' \in [starts : Nat, crashes : Nat, faults : Nat]
  BY FaultType, Facts
<1>3. UNCHANGED <<chain, event, liveVars, behind>>
  BY DEF chainVars
<1>4. /\ behind' \in [Replicas -> 0..MaxLag \union {Null}]
      /\ event' \in [Signatures -> {"none", "confirmed", "finalized"}]
      /\ job.pc # "idle" => behind'[r] # Null
  BY <1>3, Facts
<1> QED
  BY <1>1, <1>2, <1>3, <1>4, SyncMoves

LEMMA SyncPageInv == ASSUME IInv, NEW r \in Replicas, SyncPage(r) PROVE IInv'
<1> DEFINE job == [sync[r] EXCEPT !.pc = "find", !.todo = Page(r)]
<1>1. sync[r] \in SyncJob
  BY Facts
<1>2. Page(r) \subseteq Signatures /\ \A s \in Page(r) : Landed(s)
  BY DEF Page
<1>3. job \in SyncJob /\ job.todo = Page(r)
  BY <1>1, <1>2 DEF SyncJob
<1>4. sync' = [sync EXCEPT ![r] = job]
  BY DEF SyncPage
<1> HIDE DEF job
<1>5. UNCHANGED <<chainVars, liveVars, behind, used>> /\ sync[r].pc # "idle"
  BY DEF SyncPage, SyncAt
<1> QED
  BY <1>2, <1>3, <1>4, <1>5, OnlyTheJob

LEMMA SyncFindInv ==
    ASSUME IInv, NEW r \in Replicas, NEW s \in Signatures, SyncFind(r, s) PROVE IInv'
<1>1. UNCHANGED <<chainVars, liveVars, behind, used>> /\ sync[r].pc # "idle"
  BY DEF SyncFind, SyncAt
<1>2. PICK job \in SyncJob : /\ sync' = [sync EXCEPT ![r] = job]
                             /\ job.todo \subseteq sync[r].todo
  <2>1. CASE Stored(s)
    BY <2>1, SyncNextJob DEF SyncFind
  <2>2. CASE ~Stored(s)
    <3>1. sync' = [sync EXCEPT ![r] = [sync[r] EXCEPT !.pc = "create"]]
      BY <2>2 DEF SyncFind
    <3> QED
      BY <3>1, SyncMovesOn
  <2> QED
    BY <2>1, <2>2
<1> QED
  BY <1>1, <1>2, OnlyTheJob

(* Storing an event of a transaction that has landed. *)
LEMMA CreateType ==
    ASSUME IInv, NEW s \in Signatures, Landed(s), Create(s), UNCHANGED chain
    PROVE  /\ event' \in [Signatures -> {"none", "confirmed", "finalized"}]
           /\ NothingGoesBack
           /\ \A t \in Signatures \ {s} : event'[t] = event[t]
           /\ Stored(s) => event' = event
           /\ ~Stored(s) => event' = [event EXCEPT ![s] = "confirmed"]
<1>1. CASE Stored(s)
  <2>1. event' = event
    BY <1>1, Facts DEF Create
  <2> QED
    BY <1>1, <2>1, Facts, ChainStays DEF chainVars
<1>2. CASE ~Stored(s)
  <2>1. event' = [event EXCEPT ![s] = "confirmed"]
    BY <1>2 DEF Create
  <2>2. /\ event' \in [Signatures -> {"none", "confirmed", "finalized"}]
        /\ event'[s] = "confirmed" /\ \A t \in Signatures \ {s} : event'[t] = event[t]
    BY <2>1, Facts
  <2>3. NothingGoesBack
    BY <2>2, Facts DEF NothingGoesBack, Stored, Landed
  <2> QED
    BY <1>2, <2>1, <2>2, <2>3
<1> QED
  BY <1>1, <1>2

LEMMA NewestHasLanded ==
    ASSUME IInv, NEW r \in Replicas, NEW s \in Signatures, Newest(s, sync[r].todo)
    PROVE  Landed(s)
  BY Facts DEF Newest

LEMMA SyncCreateInv ==
    ASSUME IInv, NEW r \in Replicas, NEW s \in Signatures, SyncCreate(r, s) PROVE IInv'
<1>1. UNCHANGED <<chain, liveVars, behind, used>> /\ sync[r].pc # "idle"
  BY DEF SyncCreate, SyncAt
<1>2. Landed(s)
  BY NewestHasLanded DEF SyncCreate
<1>3. /\ event' \in [Signatures -> {"none", "confirmed", "finalized"}]
      /\ NothingGoesBack
  BY <1>1, <1>2, CreateType DEF SyncCreate
<1>4. PICK job \in SyncJob : /\ sync' = [sync EXCEPT ![r] = job]
                             /\ job.todo \subseteq sync[r].todo
  BY SyncNextJob DEF SyncCreate
<1>5. /\ behind' \in [Replicas -> 0..MaxLag \union {Null}] /\ behind'[r] # Null
      /\ used' \in [starts : Nat, crashes : Nat, faults : Nat]
  BY <1>1, Facts
<1> QED
  BY <1>1, <1>3, <1>4, <1>5, SyncMoves

LEMMA SyncSkipInv ==
    ASSUME IInv, NEW r \in Replicas, NEW s \in Signatures, SyncSkip(r, s) PROVE IInv'
<1>1. UNCHANGED <<chainVars, liveVars, behind>> /\ Fault /\ sync[r].pc # "idle"
  BY DEF SyncSkip
<1>2. PICK job \in SyncJob : /\ sync' = [sync EXCEPT ![r] = job]
                             /\ job.todo \subseteq sync[r].todo
  BY SyncNextJob DEF SyncSkip
<1> QED
  BY <1>1, <1>2, OnlyTheJob

LEMMA SyncFailInv == ASSUME IInv, NEW r \in Replicas, SyncFail(r) PROVE IInv'
<1>1. UNCHANGED <<chainVars, liveVars, behind>> /\ Fault
  BY DEF SyncFail
<1>2. sync' = [sync EXCEPT ![r] = IdleSync]
  BY DEF SyncFail
<1> QED
  BY <1>1, <1>2, IdleIs, OnlyTheJob

LEMMA SyncEndInv == ASSUME IInv, NEW r \in Replicas, SyncEnd(r) PROVE IInv'
<1>1. behind[r] \in 0..MaxLag /\ sync[r].stride \in Nat
  BY Facts DEF SyncEnd, SyncAt, SyncJob
<1>2. PICK n \in 0..MaxLag : behind' = [behind EXCEPT ![r] = n]
  <2>1. (IF behind[r] > sync[r].stride THEN behind[r] - sync[r].stride ELSE 0) \in 0..MaxLag
    BY <1>1, DistanceAssumption
  <2> QED
    BY <2>1 DEF SyncEnd
<1>3. /\ behind' \in [Replicas -> 0..MaxLag \union {Null}]
      /\ \A q \in Replicas \ {r} : behind'[q] = behind[q]
  BY <1>2, Facts
<1>4. UNCHANGED <<chain, event, liveVars, used>> /\ NothingGoesBack
  BY ChainStays DEF SyncEnd, chainVars
<1>5. /\ event' \in [Signatures -> {"none", "confirmed", "finalized"}]
      /\ used' \in [starts : Nat, crashes : Nat, faults : Nat]
  BY <1>4, Facts
<1>6. sync' = [sync EXCEPT ![r] = IdleSync]
  BY DEF SyncEnd
<1> QED
  BY <1>3, <1>4, <1>5, <1>6, IdleIs, SyncMoves

LEMMA SyncStepInv == ASSUME IInv, NEW r \in Replicas, SyncStep(r) PROVE IInv'
  BY SyncStartInv, SyncPageInv, SyncFindInv, SyncCreateInv, SyncEndInv, SyncFailInv,
     SyncSkipInv DEF SyncStep, SyncWork

(***************************************************************************)
(* handleLogs                                                              *)
(***************************************************************************)

(* A step of a call, which leaves the services and the jobs alone. *)
LEMMA CallMoves ==
    ASSUME IInv, NEW h \in Handlers, NEW call \in Handling,
           handler' = [handler EXCEPT ![h] = call],
           HandlerInv(call)',
           event' \in [Signatures -> {"none", "confirmed", "finalized"}],
           used' \in [starts : Nat, crashes : Nat, faults : Nat],
           notice' \in [Replicas -> SUBSET (Nat \X Signatures)],
           \A r \in Replicas : notice'[r] \subseteq notice[r],
           UNCHANGED <<chain, indexer, subs, stop, excused, syncVars>>, NothingGoesBack
    PROVE  IInv'
<1>1. TypeOK'
  BY Facts DEF TypeOK, syncVars
<1>2. \A g \in Handlers : handler'[g] = handler[g] \/ HandlerInv(handler[g])'
  <2> SUFFICES ASSUME NEW g \in Handlers
               PROVE  handler'[g] = handler[g] \/ HandlerInv(handler[g])'
    OBVIOUS
  <2>1. CASE g = h
    <3>1. handler'[g] = call
      BY <2>1, Facts
    <3> QED
      BY <3>1 DEF HandlerInv
  <2>2. CASE g # h
    BY <2>2, Facts
  <2> QED
    BY <2>1, <2>2
<1>3. TableInv'
  BY <1>2, TableGoesOn DEF syncVars
<1>4. JobInv'
  BY Facts DEF JobInv, SyncFree, syncVars
<1> QED
  BY <1>1, <1>3, <1>4, ServicesStay

LEMMA CallEnds ==
    ASSUME IInv, NEW h \in Handlers, HandlerDone(h),
           event' \in [Signatures -> {"none", "confirmed", "finalized"}],
           UNCHANGED used \/ Fault,
           UNCHANGED <<chain, indexer, subs, notice, stop, excused, syncVars>>,
           NothingGoesBack
    PROVE  IInv'
<1>1. handler' = [handler EXCEPT ![h] = IdleHandler]
  BY DEF HandlerDone
<1>2. HandlerInv(IdleHandler)'
  BY IdleIs DEF HandlerInv, IdleHandler
<1>3. /\ used' \in [starts : Nat, crashes : Nat, faults : Nat]
      /\ notice' \in [Replicas -> SUBSET (Nat \X Signatures)]
  BY FaultType, Facts
<1> QED
  BY <1>1, <1>2, <1>3, IdleIs, CallMoves

LEMMA LiveFindInv ==
    ASSUME IInv, NEW h \in Handlers, NEW r \in Replicas, NEW s \in Signatures,
           NEW id \in subs[r], LiveFind(h, r, id, s)
    PROVE  IInv'
<1> DEFINE call == [pc |-> IF Stored(s) THEN "status" ELSE "create",
                    replica |-> r, signature |-> s]
<1>1. UNCHANGED <<chainVars, indexer, subs, stop, excused, syncVars, used>>
  BY DEF LiveFind
<1>2. NothingGoesBack /\ UNCHANGED <<chain, event>>
  BY <1>1, ChainStays DEF chainVars
<1>3. /\ notice' \in [Replicas -> SUBSET (Nat \X Signatures)]
      /\ \A q \in Replicas : notice'[q] \subseteq notice[q]
  BY Facts DEF LiveFind
<1>4. Landed(s) /\ Landed(s)'
  <2>1. <<id, s>> \in notice[r] /\ <<id, s>>[2] = s
    BY DEF LiveFind
  <2> QED
    BY <2>1, <1>2, Facts DEF NothingGoesBack
<1>5. /\ event' \in [Signatures -> {"none", "confirmed", "finalized"}]
      /\ used' \in [starts : Nat, crashes : Nat, faults : Nat]
  BY <1>1, <1>2, Facts
<1>6. CASE handler' = handler
  <2>1. handler' = [handler EXCEPT ![h] = handler[h]] /\ handler[h] \in Handling
    BY <1>6, Facts
  <2>2. PICK q \in Handling : q = handler[h]
    BY <2>1
  <2>3. HandlerInv(q)'
    BY <2>2, <1>2, Facts, HandlerStays
  <2> QED
    BY <1>1, <1>2, <1>3, <1>5, <2>1, <2>2, <2>3, CallMoves
<1>7. CASE handler' = [handler EXCEPT ![h] = call]
  <2>1. /\ call \in Handling /\ call.signature = s
        /\ call.pc = IF Stored(s) THEN "status" ELSE "create"
    BY DEF Handling
  <2> HIDE DEF call
  <2>2. PICK q \in Handling : q = call
    BY <2>1
  <2>3. HandlerInv(q)'
    BY <1>2, <1>4, <2>1, <2>2 DEF HandlerInv, Stored
  <2> QED
    BY <1>1, <1>2, <1>3, <1>5, <1>7, <2>2, <2>3, CallMoves
<1> QED
  BY <1>6, <1>7 DEF LiveFind

(* What a call is at work on. *)
LEMMA AtWork ==
    ASSUME IInv, NEW h \in Handlers, ~HandlerFree(h)
    PROVE  /\ handler[h] \in Handling
           /\ handler[h].signature \in Signatures /\ Landed(handler[h].signature)
           /\ handler[h].pc \in {"status", "finalize"} => Stored(handler[h].signature)
           /\ handler[h].pc = "finalize" => chain[handler[h].signature].finalized
  BY Facts DEF HandlerFree, HandlerInv

LEMMA LiveStatusInv == ASSUME IInv, NEW h \in Handlers, LiveStatus(h) PROVE IInv'
<1>1. UNCHANGED <<chainVars, indexer, subs, notice, stop, excused, syncVars, used>>
  BY DEF LiveStatus
<1>2. NothingGoesBack /\ UNCHANGED <<chain, event>>
  BY <1>1, ChainStays DEF chainVars
<1>3. /\ event' \in [Signatures -> {"none", "confirmed", "finalized"}]
      /\ used' \in [starts : Nat, crashes : Nat, faults : Nat]
      /\ notice' \in [Replicas -> SUBSET (Nat \X Signatures)]
  BY <1>1, <1>2, Facts
<1>4. CASE chain[handler[h].signature].finalized
  <2>1. handler[h].pc = "status" /\ handler' = [handler EXCEPT ![h] =
                                        [handler[h] EXCEPT !.pc = "finalize"]]
    BY <1>4 DEF LiveStatus, HandlerAt, HandlerGoto
  <2>2. PICK s \in Signatures : /\ s = handler[h].signature /\ handler[h] \in Handling
                                /\ Landed(s) /\ Stored(s) /\ chain[s].finalized
    BY <1>4, <2>1, AtWork DEF HandlerFree
  <2> DEFINE call == [handler[h] EXCEPT !.pc = "finalize"]
  <2>5. call \in Handling /\ call.signature = s /\ call.pc = "finalize"
    BY <2>2 DEF Handling
  <2>3. PICK q \in Handling : q = call /\ q.signature = s /\ q.pc = "finalize"
    BY <2>5
  <2>4. HandlerInv(q)'
    BY <1>2, <2>2, <2>3 DEF HandlerInv, Landed, Stored
  <2> QED
    BY <1>1, <1>2, <1>3, <2>1, <2>3, <2>4, CallMoves
<1>5. CASE ~chain[handler[h].signature].finalized
  <2>1. HandlerDone(h)
    BY <1>5 DEF LiveStatus
  <2> QED
    BY <1>1, <1>2, <1>3, <2>1, CallEnds
<1> QED
  BY <1>4, <1>5

LEMMA LiveFinalizeEvent ==
    ASSUME IInv, NEW h \in Handlers, LiveFinalize(h)
    PROVE  /\ event' = [event EXCEPT ![handler[h].signature] = "finalized"]
           /\ handler[h].signature \in Signatures
           /\ Landed(handler[h].signature) /\ Stored(handler[h].signature)
           /\ chain[handler[h].signature].finalized
           /\ event' \in [Signatures -> {"none", "confirmed", "finalized"}]
           /\ NothingGoesBack
<1>1. /\ event' = [event EXCEPT ![handler[h].signature] = "finalized"]
      /\ handler[h].pc = "finalize" /\ UNCHANGED chain
  BY DEF LiveFinalize, HandlerAt
<1>2. PICK s \in Signatures : /\ s = handler[h].signature
                              /\ Landed(s) /\ Stored(s) /\ chain[s].finalized
  BY <1>1, AtWork DEF HandlerFree
<1>3. /\ event' \in [Signatures -> {"none", "confirmed", "finalized"}]
      /\ event'[s] = "finalized" /\ \A t \in Signatures \ {s} : event'[t] = event[t]
  BY <1>1, <1>2, Facts
<1>4. NothingGoesBack
  BY <1>1, <1>2, <1>3, Facts DEF NothingGoesBack, Stored, Landed
<1> QED
  BY <1>1, <1>2, <1>3, <1>4

LEMMA LiveFinalizeInv == ASSUME IInv, NEW h \in Handlers, LiveFinalize(h) PROVE IInv'
<1>1. /\ UNCHANGED <<chain, indexer, subs, notice, stop, excused, syncVars, used>>
      /\ HandlerDone(h)
  BY DEF LiveFinalize
<1> QED
  BY <1>1, LiveFinalizeEvent, CallEnds

LEMMA LiveCreateInv == ASSUME IInv, NEW h \in Handlers, LiveCreate(h) PROVE IInv'
<1>1. /\ UNCHANGED <<chain, indexer, subs, notice, stop, excused, syncVars, used>>
      /\ HandlerDone(h) /\ Create(handler[h].signature)
  BY DEF LiveCreate
<1>2. PICK s \in Signatures : s = handler[h].signature /\ Landed(s) /\ Create(s)
  BY <1>1, AtWork DEF LiveCreate, HandlerAt, HandlerFree
<1>3. /\ event' \in [Signatures -> {"none", "confirmed", "finalized"}]
      /\ NothingGoesBack
  BY <1>1, <1>2, CreateType
<1> QED
  BY <1>1, <1>3, CallEnds

LEMMA LiveFailInv == ASSUME IInv, NEW h \in Handlers, LiveFail(h) PROVE IInv'
<1>1. /\ UNCHANGED <<chainVars, indexer, subs, notice, stop, excused, syncVars>>
      /\ HandlerDone(h) /\ Fault
  BY DEF LiveFail
<1>2. NothingGoesBack /\ UNCHANGED <<chain, event>>
  BY <1>1, ChainStays DEF chainVars
<1>3. event' \in [Signatures -> {"none", "confirmed", "finalized"}]
  BY <1>2, Facts
<1> QED
  BY <1>1, <1>2, <1>3, CallEnds

LEMMA LiveStepInv == ASSUME IInv, NEW h \in Handlers, LiveStep(h) PROVE IInv'
  BY LiveFindInv, LiveStatusInv, LiveFinalizeInv, LiveCreateInv, LiveFailInv DEF LiveStep

(***************************************************************************)
(* startIndexer, stopIndexer, handleReconnect and a crash                  *)
(***************************************************************************)

(* A step of the service on replica r. *)
LEMMA ServiceMoves ==
    ASSUME IInv, NEW r \in Replicas,
           indexer' \in [Replicas -> Service], subs' \in [Replicas -> SUBSET Nat],
           excused' \in [Replicas -> Nat], stop' \in [Stops -> Stopping],
           notice' \in [Replicas -> SUBSET (Nat \X Signatures)],
           used' \in [starts : Nat, crashes : Nat, faults : Nat],
           \A q \in Replicas \ {r} : /\ indexer'[q] = indexer[q] /\ subs'[q] = subs[q]
                                     /\ excused'[q] = excused[q],
           \A q \in Replicas : notice'[q] \subseteq notice[q],
           \A c \in Stops : stop'[c] = stop[c] \/ {stop[c].replica, stop'[c].replica}
                                                      \subseteq {r, Null},
           \A c \in Stops : stop'[c] # NoStop => stop'[c].replica \in Replicas,
           ServiceInv(r)',
           handler' \in [Handlers -> Handling],
           \A h \in Handlers : handler'[h] \in {handler[h], IdleHandler},
           behind' \in [Replicas -> 0..MaxLag \union {Null}],
           sync' \in [Replicas -> SyncJob],
           \A q \in Replicas : \/ sync'[q] = IdleSync
                               \/ sync'[q] = sync[q] /\ behind'[q] = behind[q],
           UNCHANGED chainVars
    PROVE  IInv'
<1>1. TypeOK'
  BY Facts DEF TypeOK, chainVars
<1>2. ASSUME NEW q \in Replicas PROVE ServiceInv(q)'
  <2>1. CASE q = r
    BY <2>1
  <2>2. CASE q # r
    <3>1. /\ indexer'[q] = indexer[q] /\ subs'[q] = subs[q] /\ excused'[q] = excused[q]
      BY <2>2
    <3>2. Pending(q)' = Pending(q)
      BY <2>2, NullAssumption DEF Pending
    <3>3. \A c \in Pending(q) : stop'[c] = stop[c]
      BY <2>2, NullAssumption DEF Pending
    <3> QED
      BY <3>1, <3>2, <3>3, Facts DEF ServiceInv, Slack, Removing
  <2> QED
    BY <2>1, <2>2
<1>3. NothingGoesBack
  BY ChainStays
<1>4. TableInv'
  <2>1. \A h \in Handlers : handler'[h] = handler[h] \/ HandlerInv(handler[h])'
    BY IdleIs DEF HandlerInv, IdleHandler
  <2>2. \A q \in Replicas : \A s \in sync'[q].todo : s \in sync[q].todo \/ Landed(s)'
    BY IdleIs
  <2> QED
    BY <1>3, <2>1, <2>2, TableGoesOn
<1>5. JobInv'
  BY IdleIs, Facts DEF JobInv, SyncFree
<1> QED
  BY <1>1, <1>2, <1>4, <1>5 DEF IInv

(* The steps that leave the calls and the jobs alone. *)
LEMMA SubscriptionMoves ==
    ASSUME IInv, NEW r \in Replicas,
           indexer' \in [Replicas -> Service], subs' \in [Replicas -> SUBSET Nat],
           excused' \in [Replicas -> Nat], stop' \in [Stops -> Stopping],
           notice' \in [Replicas -> SUBSET (Nat \X Signatures)],
           used' \in [starts : Nat, crashes : Nat, faults : Nat],
           \A q \in Replicas \ {r} : /\ indexer'[q] = indexer[q] /\ subs'[q] = subs[q]
                                     /\ excused'[q] = excused[q],
           \A q \in Replicas : notice'[q] \subseteq notice[q],
           \A c \in Stops : stop'[c] = stop[c] \/ {stop[c].replica, stop'[c].replica}
                                                      \subseteq {r, Null},
           \A c \in Stops : stop'[c] # NoStop => stop'[c].replica \in Replicas,
           ServiceInv(r)',
           UNCHANGED <<chainVars, handler, syncVars>>
    PROVE  IInv'
<1>1. /\ handler' \in [Handlers -> Handling] /\ sync' \in [Replicas -> SyncJob]
      /\ behind' \in [Replicas -> 0..MaxLag \union {Null}]
      /\ UNCHANGED <<chainVars, sync, behind, handler>>
  BY Facts DEF syncVars
<1>2. /\ \A h \in Handlers : handler'[h] \in {handler[h], IdleHandler}
      /\ \A q \in Replicas : \/ sync'[q] = IdleSync
                             \/ sync'[q] = sync[q] /\ behind'[q] = behind[q]
  BY <1>1
<1> QED
  BY <1>1, <1>2, ServiceMoves

LEMMA PendingIsFinite ==
    ASSUME NEW r
    PROVE  IsFiniteSet(Pending(r)) /\ Cardinality(Pending(r)) \in Nat
<1>1. Pending(r) \subseteq Stops
  BY DEF Pending
<1> QED
  BY <1>1, BoundAssumption, FS_Subset, FS_CardinalityType

LEMMA ServiceFacts ==
    ASSUME IInv, NEW r \in Replicas
    PROVE  /\ IsFiniteSet(subs[r]) /\ Cardinality(subs[r]) \in Nat
           /\ IsFiniteSet(Pending(r)) /\ Cardinality(Pending(r)) \in Nat
           /\ excused[r] \in Nat /\ Slack(r) \in Nat
           /\ indexer[r].isRunning => indexer[r].subscriptionId \in subs[r]
           /\ Cardinality(subs[r]) + Cardinality(Pending(r)) <= Slack(r)
<1>1. IsFiniteSet(subs[r]) /\ excused[r] \in Nat
  BY Facts DEF ServiceInv
<1>2. Slack(r) \in Nat
  BY <1>1 DEF Slack
<1> QED
  BY <1>1, <1>2, Facts, PendingIsFinite, FS_CardinalityType DEF ServiceInv

(* Another subscription is paid for by isRunning. *)
LEMMA StartedInv ==
    ASSUME IInv, NEW r \in Replicas, NEW on \in Service, Started(r, on),
           ~indexer[r].isRunning, UNCHANGED <<stop, excused>>
    PROVE  /\ indexer' \in [Replicas -> Service] /\ subs' \in [Replicas -> SUBSET Nat]
           /\ \A q \in Replicas \ {r} : indexer'[q] = indexer[q] /\ subs'[q] = subs[q]
           /\ ServiceInv(r)'
<1> DEFINE id == on.next
           new == [Subscribed(on.next) EXCEPT !.timers = on.timers]
<1>1. id \in Nat
  BY DEF Service
<1>2. new \in Service /\ new.isRunning = TRUE /\ new.subscriptionId = id
  <2>1. on.timers \in Nat
    BY DEF Service
  <2> QED
    BY <1>1, <2>1, SubscribedIs DEF Service
<1>3. indexer' = [indexer EXCEPT ![r] = new] /\ subs' = [subs EXCEPT ![r] = @ \union {id}]
  BY DEF Started
<1> HIDE DEF new, id
<1>4. /\ indexer' \in [Replicas -> Service] /\ subs' \in [Replicas -> SUBSET Nat]
      /\ \A q \in Replicas \ {r} : indexer'[q] = indexer[q] /\ subs'[q] = subs[q]
      /\ indexer'[r] = new /\ subs'[r] = subs[r] \union {id}
  <2>1. subs[r] \union {id} \in SUBSET Nat
    BY <1>1, Facts
  <2> QED
    BY <1>2, <1>3, <2>1, Facts
<1>5. /\ IsFiniteSet(subs'[r]) /\ Cardinality(subs'[r]) \in Nat
      /\ Cardinality(subs'[r]) <= Cardinality(subs[r]) + 1
  <2>1. CASE id \in subs[r]
    <3>1. subs'[r] = subs[r]
      BY <1>4, <2>1
    <3> QED
      BY <3>1, ServiceFacts
  <2>2. CASE id \notin subs[r]
    <3>1. IsFiniteSet(subs[r]) /\ Cardinality(subs[r]) \in Nat
      BY ServiceFacts
    <3>2. /\ IsFiniteSet(subs[r] \union {id})
          /\ Cardinality(subs[r] \union {id}) = Cardinality(subs[r]) + 1
      BY <2>2, <3>1, FS_AddElement
    <3> QED
      BY <1>4, <3>1, <3>2
  <2> QED
    BY <2>1, <2>2
<1>6. Pending(r)' = Pending(r)
  BY DEF Pending
<1>7. Removing(r) => Removing(r)'
  BY <1>4, <1>6 DEF Removing
<1>8. Slack(r)' \in Nat /\ Slack(r)' >= Slack(r) + 1
  BY <1>2, <1>4, <1>7, ServiceFacts DEF Slack
<1>9. Cardinality(subs[r])' + Cardinality(Pending(r))' <= Slack(r)'
  BY <1>5, <1>6, <1>8, ServiceFacts
<1>10. indexer'[r].subscriptionId \in subs'[r]
  BY <1>2, <1>4
<1> QED
  BY <1>4, <1>5, <1>9, <1>10 DEF ServiceInv

(* A start that fails leaves the subscriptions alone. *)
LEMMA SameSubscriptions ==
    ASSUME IInv, NEW r \in Replicas, NEW new \in Service,
           indexer' = [indexer EXCEPT ![r] = new],
           new.isRunning = indexer[r].isRunning,
           new.subscriptionId = indexer[r].subscriptionId,
           UNCHANGED <<subs, stop, excused>>
    PROVE  /\ indexer' \in [Replicas -> Service] /\ subs' \in [Replicas -> SUBSET Nat]
           /\ \A q \in Replicas \ {r} : indexer'[q] = indexer[q] /\ subs'[q] = subs[q]
           /\ ServiceInv(r)'
<1>1. /\ indexer' \in [Replicas -> Service] /\ subs' \in [Replicas -> SUBSET Nat]
      /\ \A q \in Replicas \ {r} : indexer'[q] = indexer[q] /\ subs'[q] = subs[q]
      /\ indexer'[r] = new
  BY Facts
<1>2. ServiceInv(r)
  BY Facts
<1> QED
  BY <1>1, <1>2 DEF ServiceInv, Slack, Removing, Pending

LEMMA RefusedInv ==
    ASSUME IInv, NEW r \in Replicas, NEW on \in Service, Refused(r, on),
           on.isRunning = indexer[r].isRunning,
           on.subscriptionId = indexer[r].subscriptionId,
           UNCHANGED <<stop, excused>>
    PROVE  /\ indexer' \in [Replicas -> Service] /\ subs' \in [Replicas -> SUBSET Nat]
           /\ \A q \in Replicas \ {r} : indexer'[q] = indexer[q] /\ subs'[q] = subs[q]
           /\ ServiceInv(r)'
<1> DEFINE later == [on EXCEPT !.reconnectAttempts = on.reconnectAttempts + 1,
                               !.timers = on.timers + 1]
<1>1. PICK n \in Nat, m \in Nat : n = on.reconnectAttempts + 1 /\ m = on.timers + 1
  BY DEF Service
<1>2. /\ later \in Service /\ later.isRunning = on.isRunning
      /\ later.subscriptionId = on.subscriptionId
  BY <1>1 DEF Service
<1> HIDE DEF later
<1>3. PICK new \in Service : /\ indexer' = [indexer EXCEPT ![r] = new]
                             /\ new.isRunning = on.isRunning
                             /\ new.subscriptionId = on.subscriptionId
  BY <1>2 DEF Refused, later
<1>4. UNCHANGED <<subs, stop, excused>>
  BY DEF Refused
<1> QED
  BY <1>3, <1>4, SameSubscriptions

(* What a start or a reconnect leaves alone. *)
LEMMA OnlyTheService ==
    ASSUME IInv, NEW r \in Replicas,
           indexer' \in [Replicas -> Service], subs' \in [Replicas -> SUBSET Nat],
           \A q \in Replicas \ {r} : indexer'[q] = indexer[q] /\ subs'[q] = subs[q],
           ServiceInv(r)',
           used' \in [starts : Nat, crashes : Nat, faults : Nat],
           UNCHANGED <<chainVars, notice, handler, stop, excused, syncVars>>
    PROVE  IInv'
<1>1. /\ excused' \in [Replicas -> Nat] /\ stop' \in [Stops -> Stopping]
      /\ notice' \in [Replicas -> SUBSET (Nat \X Signatures)]
      /\ \A q \in Replicas \ {r} : /\ indexer'[q] = indexer[q] /\ subs'[q] = subs[q]
                                   /\ excused'[q] = excused[q]
      /\ \A q \in Replicas : notice'[q] \subseteq notice[q]
      /\ \A c \in Stops : stop'[c] = stop[c]
      /\ \A c \in Stops : stop'[c] # NoStop => stop'[c].replica \in Replicas
  BY Facts
<1> QED
  BY <1>1, SubscriptionMoves

LEMMA StartIndexerInv == ASSUME IInv, NEW r \in Replicas, StartIndexer(r) PROVE IInv'
<1>1. UNCHANGED <<chainVars, notice, handler, stop, excused, syncVars>>
  BY DEF StartIndexer
<1>2. PICK on \in Service : on = indexer[r]
  BY Facts
<1>3. used' \in [starts : Nat, crashes : Nat, faults : Nat]
  <2>1. used.starts + 1 \in Nat /\ used.faults + 1 \in Nat
    BY Facts
  <2>2. PICK n \in Nat, m \in Nat : n = used.starts + 1 /\ m = used.faults + 1
    BY <2>1
  <2>3. \/ used' = [used EXCEPT !.starts = n]
        \/ used' = [used EXCEPT !.starts = n, !.faults = m]
    BY <2>2 DEF StartIndexer
  <2> QED
    BY <2>3, Facts
<1>4. CASE Started(r, on)
  BY <1>1, <1>2, <1>3, <1>4, StartedInv, OnlyTheService DEF StartIndexer
<1>5. CASE Refused(r, on)
  BY <1>1, <1>2, <1>3, <1>5, RefusedInv, OnlyTheService
<1> QED
  BY <1>2, <1>4, <1>5 DEF StartIndexer

LEMMA ReconnectInv == ASSUME IInv, NEW r \in Replicas, Reconnect(r) PROVE IInv'
<1> DEFINE on == [indexer[r] EXCEPT !.timers = indexer[r].timers - 1]
<1>1. UNCHANGED <<chainVars, notice, handler, stop, excused, syncVars>>
  BY DEF Reconnect
<1>2. /\ on \in Service /\ on.isRunning = indexer[r].isRunning
      /\ on.subscriptionId = indexer[r].subscriptionId
  <2>1. indexer[r] \in Service /\ indexer[r].timers > 0
    BY Facts DEF Reconnect
  <2>2. PICK n \in Nat : n = indexer[r].timers - 1
    BY <2>1 DEF Service
  <2> QED
    BY <2>1, <2>2 DEF Service
<1>3. \/ on.isRunning /\ indexer' = [indexer EXCEPT ![r] = on] /\ UNCHANGED <<subs, used>>
      \/ ~on.isRunning /\ Started(r, on) /\ UNCHANGED used
      \/ ~on.isRunning /\ Refused(r, on) /\ Fault
  BY DEF Reconnect
<1> HIDE DEF on
<1>4. used' \in [starts : Nat, crashes : Nat, faults : Nat]
  BY <1>3, FaultType, Facts
<1>5. /\ indexer' \in [Replicas -> Service] /\ subs' \in [Replicas -> SUBSET Nat]
      /\ \A q \in Replicas \ {r} : indexer'[q] = indexer[q] /\ subs'[q] = subs[q]
      /\ ServiceInv(r)'
  <2>1. CASE on.isRunning /\ indexer' = [indexer EXCEPT ![r] = on] /\ UNCHANGED subs
    BY <1>1, <1>2, <2>1, SameSubscriptions
  <2>2. CASE ~on.isRunning /\ Started(r, on)
    BY <1>1, <1>2, <2>2, StartedInv
  <2>3. CASE ~on.isRunning /\ Refused(r, on)
    BY <1>1, <1>2, <2>3, RefusedInv
  <2> QED
    BY <1>3, <2>1, <2>2, <2>3
<1> QED
  BY <1>1, <1>4, <1>5, OnlyTheService

(* A stop that waits will remove the current subscription: that, or the    *)
(* stop that is excused, makes room for it.                                *)
LEMMA StopIndexerInv ==
    ASSUME IInv, NEW r \in Replicas, NEW c \in Stops, StopIndexer(c, r) PROVE IInv'
<1> DEFINE id == indexer[r].subscriptionId
           new == [replica |-> r, id |-> id]
<1>1. UNCHANGED <<chainVars, indexer, subs, notice, handler, syncVars, used>>
  BY DEF StopIndexer
<1>2. stop[c] = NoStop /\ indexer[r].isRunning /\ stop' = [stop EXCEPT ![c] = new]
  BY DEF StopIndexer
<1>3. new \in Stopping /\ new.replica = r /\ new.id = id /\ id \in subs[r]
  <2>1. indexer[r] \in Service /\ id \in subs[r]
    BY <1>2, Facts, ServiceFacts
  <2> QED
    BY <2>1 DEF Stopping, Service
<1> HIDE DEF new, id
<1>4. /\ stop' \in [Stops -> Stopping] /\ stop'[c] = new
      /\ \A d \in Stops \ {c} : stop'[d] = stop[d]
  BY <1>2, <1>3, Facts
<1>5. Pending(r)' = Pending(r) \union {c} /\ c \notin Pending(r)
  BY <1>2, <1>3, <1>4, IdleIs, NullAssumption DEF Pending
<1>6. Cardinality(Pending(r)') = Cardinality(Pending(r)) + 1
  BY <1>5, ServiceFacts, FS_AddElement
<1>7. Removing(r)'
  BY <1>1, <1>3, <1>4, <1>5 DEF Removing
<1>8. /\ excused' \in [Replicas -> Nat] /\ excused'[r] \in Nat
      /\ \A q \in Replicas \ {r} : excused'[q] = excused[q]
      /\ \/ excused'[r] = excused[r] + 1
         \/ excused'[r] = excused[r] /\ Pending(r) = {}
  <2>1. PICK n \in Nat : n = excused[r] + 1
    BY Facts
  <2>2. \/ excused' = [excused EXCEPT ![r] = n]
        \/ excused' = excused /\ Pending(r) = {}
    BY <2>1 DEF StopIndexer, Excuse, Pending
  <2> QED
    BY <2>1, <2>2, Facts
<1>9. Slack(r)' \in Nat /\ Slack(r)' >= Slack(r) + 1
  <2>1. CASE Pending(r) = {}
    BY <1>1, <1>7, <1>8, <2>1, ServiceFacts DEF Slack, Removing
  <2>2. CASE excused'[r] = excused[r] + 1
    BY <1>1, <1>7, <2>2, ServiceFacts DEF Slack
  <2> QED
    BY <1>8, <2>1, <2>2
<1>10. ServiceInv(r)'
  <2>1. Cardinality(subs[r])' + Cardinality(Pending(r))' <= Slack(r)'
    BY <1>1, <1>6, <1>9, ServiceFacts
  <2> QED
    BY <1>1, <2>1, ServiceFacts DEF ServiceInv
<1>11. /\ \A d \in Stops : stop'[d] = stop[d] \/ {stop[d].replica, stop'[d].replica}
                                                    \subseteq {r, Null}
       /\ \A d \in Stops : stop'[d] # NoStop => stop'[d].replica \in Replicas
  BY <1>2, <1>3, <1>4, IdleIs, Facts
<1>12. /\ indexer' \in [Replicas -> Service] /\ subs' \in [Replicas -> SUBSET Nat]
       /\ notice' \in [Replicas -> SUBSET (Nat \X Signatures)]
       /\ used' \in [starts : Nat, crashes : Nat, faults : Nat]
       /\ \A q \in Replicas \ {r} : indexer'[q] = indexer[q] /\ subs'[q] = subs[q]
       /\ \A q \in Replicas : notice'[q] \subseteq notice[q]
  BY <1>1, Facts
<1> QED
  BY <1>1, <1>4, <1>8, <1>10, <1>11, <1>12, SubscriptionMoves

LEMMA StoppedInv == ASSUME IInv, NEW c \in Stops, Stopped(c) PROVE IInv'
<1>1. PICK r \in Replicas, id \in Nat \union {Null} : stop[c] = [replica |-> r, id |-> id]
  <2>1. stop[c] \in Stopping /\ stop[c].replica \in Replicas
    BY Facts DEF Stopped
  <2> QED
    BY <2>1 DEF Stopping
<1>2. stop[c].replica = r /\ stop[c].id = id
  BY <1>1
<1>3. /\ indexer' = [indexer EXCEPT ![r].isRunning = FALSE, ![r].subscriptionId = Null]
      /\ stop' = [stop EXCEPT ![c] = NoStop]
      /\ UNCHANGED <<chainVars, handler, syncVars>>
      /\ \/ /\ subs' = [subs EXCEPT ![r] = @ \ {id}]
            /\ notice' = [notice EXCEPT ![r] = {n \in @ : n[1] # id}]
            /\ UNCHANGED <<excused, used>>
         \/ Fault /\ Excuse(r) /\ UNCHANGED <<subs, notice>>
  BY <1>2 DEF Stopped
<1>4. /\ indexer' \in [Replicas -> Service] /\ indexer'[r].isRunning = FALSE
      /\ \A q \in Replicas \ {r} : indexer'[q] = indexer[q]
  <2> DEFINE off == [indexer[r] EXCEPT !.isRunning = FALSE]
             new == [off EXCEPT !.subscriptionId = Null]
  <2>4. indexer[r] \in Service
    BY Facts
  <2>1. off \in Service
    BY <2>4 DEF Service
  <2>2. new \in Service /\ new.isRunning = FALSE
    BY <2>1 DEF Service
  <2>3. indexer' = [indexer EXCEPT ![r] = new]
    BY <1>3, Facts
  <2> HIDE DEF off, new
  <2> QED
    BY <2>2, <2>3, Facts
<1>5. /\ stop' \in [Stops -> Stopping] /\ stop'[c] = NoStop
      /\ \A d \in Stops \ {c} : stop'[d] = stop[d]
  BY <1>3, IdleIs, Facts
<1>6. Pending(r)' = Pending(r) \ {c} /\ c \in Pending(r)
  BY <1>2, <1>5, IdleIs, NullAssumption DEF Pending
<1>7. /\ Cardinality(Pending(r)') = Cardinality(Pending(r)) - 1
      /\ Cardinality(Pending(r)') \in Nat
  <2>1. IsFiniteSet(Pending(r)) /\ Cardinality(Pending(r)) \in Nat
    BY ServiceFacts
  <2>2. /\ IsFiniteSet(Pending(r) \ {c})
        /\ Cardinality(Pending(r) \ {c}) = Cardinality(Pending(r)) - 1
    BY <1>6, <2>1, FS_RemoveElement
  <2> QED
    BY <1>6, <2>2, FS_CardinalityType
<1>8. CASE UNCHANGED subs /\ Fault /\ Excuse(r) /\ UNCHANGED notice
  <2>1. PICK n \in Nat : n = excused[r] + 1
    BY Facts
  <2>2. /\ excused' \in [Replicas -> Nat] /\ excused'[r] = excused[r] + 1
        /\ \A q \in Replicas \ {r} : excused'[q] = excused[q]
    BY <1>8, <2>1, Facts DEF Excuse
  <2>3. Slack(r)' \in Nat /\ Slack(r)' >= Slack(r) - 1
    BY <2>2, ServiceFacts DEF Slack
  <2>4. Cardinality(subs[r])' + Cardinality(Pending(r))' <= Slack(r)'
    BY <1>7, <1>8, <2>3, ServiceFacts
  <2>5. ServiceInv(r)'
    BY <1>4, <1>8, <2>4, ServiceFacts DEF ServiceInv
  <2>6. used' \in [starts : Nat, crashes : Nat, faults : Nat]
    BY <1>8, FaultType
  <2>7. /\ subs' \in [Replicas -> SUBSET Nat]
        /\ notice' \in [Replicas -> SUBSET (Nat \X Signatures)]
        /\ \A q \in Replicas \ {r} : subs'[q] = subs[q]
        /\ \A q \in Replicas : notice'[q] \subseteq notice[q]
    BY <1>8, Facts
  <2>8. /\ \A d \in Stops : stop'[d] = stop[d] \/ {stop[d].replica, stop'[d].replica}
                                                     \subseteq {r, Null}
        /\ \A d \in Stops : stop'[d] # NoStop => stop'[d].replica \in Replicas
    BY <1>2, <1>5, IdleIs, Facts
  <2> QED
    BY <1>3, <1>4, <1>5, <2>2, <2>5, <2>6, <2>7, <2>8, SubscriptionMoves
<1>9. CASE /\ subs' = [subs EXCEPT ![r] = @ \ {id}]
           /\ notice' = [notice EXCEPT ![r] = {n \in @ : n[1] # id}]
           /\ UNCHANGED <<excused, used>>
  <2>1. /\ subs' \in [Replicas -> SUBSET Nat] /\ subs'[r] = subs[r] \ {id}
        /\ \A q \in Replicas \ {r} : subs'[q] = subs[q]
    <3>1. subs[r] \ {id} \in SUBSET Nat
      BY Facts
    <3> QED
      BY <1>9, <3>1, Facts
  <2>2. /\ notice' \in [Replicas -> SUBSET (Nat \X Signatures)]
        /\ \A q \in Replicas : notice'[q] \subseteq notice[q]
    <3>1. /\ {n \in notice[r] : n[1] # id} \in SUBSET (Nat \X Signatures)
          /\ {n \in notice[r] : n[1] # id} \subseteq notice[r]
      BY Facts
    <3>2. notice' = [notice EXCEPT ![r] = {n \in notice[r] : n[1] # id}]
      BY <1>9
    <3> QED
      BY <3>1, <3>2, Facts
  <2>3. /\ IsFiniteSet(subs'[r])
        /\ Cardinality(subs'[r]) + Cardinality(Pending(r)') <= Slack(r)'
    <3>1. CASE id \in subs[r]
      <4>1. IsFiniteSet(subs[r]) /\ Cardinality(subs[r]) \in Nat
        BY ServiceFacts
      <4>2. /\ IsFiniteSet(subs[r] \ {id})
            /\ Cardinality(subs[r] \ {id}) = Cardinality(subs[r]) - 1
        BY <3>1, <4>1, FS_RemoveElement
      <4>3. Slack(r)' \in Nat /\ Slack(r)' >= Slack(r) - 2
        BY <1>9, ServiceFacts DEF Slack
      <4> QED
        BY <1>7, <2>1, <4>1, <4>2, <4>3, ServiceFacts
    <3>2. CASE id \notin subs[r]
      <4>1. subs'[r] = subs[r]
        BY <2>1, <3>2
      <4>2. Removing(r) => Removing(r)'
        BY <1>2, <1>5, <1>6, <3>2, <4>1 DEF Removing, Pending
      <4>3. Slack(r)' \in Nat /\ Slack(r)' >= Slack(r) - 1
        BY <1>9, <4>2, ServiceFacts DEF Slack
      <4> QED
        BY <1>7, <4>1, <4>3, ServiceFacts
    <3> QED
      BY <3>1, <3>2
  <2>4. ServiceInv(r)'
    BY <1>4, <2>3 DEF ServiceInv
  <2>5. /\ used' \in [starts : Nat, crashes : Nat, faults : Nat]
        /\ excused' \in [Replicas -> Nat]
        /\ \A q \in Replicas \ {r} : excused'[q] = excused[q]
    BY <1>9, Facts
  <2>6. /\ \A d \in Stops : stop'[d] = stop[d] \/ {stop[d].replica, stop'[d].replica}
                                                     \subseteq {r, Null}
        /\ \A d \in Stops : stop'[d] # NoStop => stop'[d].replica \in Replicas
    BY <1>2, <1>5, IdleIs, Facts
  <2> QED
    BY <1>3, <1>4, <1>5, <2>1, <2>2, <2>4, <2>5, <2>6, SubscriptionMoves
<1> QED
  BY <1>3, <1>8, <1>9

LEMMA ResumedType == ASSUME IInv PROVE Resumed \subseteq 0..MaxLag \union {Null}
<1> DEFINE Known == {u \in Signatures : Stored(u)}
<1>1. ASSUME NEW s \in Known PROVE chain[s].age \in 0..MaxLag
  <2>1. chain[s] \in TxRow
    BY Facts DEF Landed
  <2> QED
    BY <2>1 DEF TxRow
<1>2. \A s \in Signatures : Newest(s, Known) => s \in Known
  BY DEF Newest
<1>3. \/ Resumed = {Null}
      \/ Resumed = {chain[s].age : s \in {t \in Signatures : Newest(t, Known)}}
  BY DEF Resumed
<1> HIDE DEF Known
<1> QED
  BY <1>1, <1>2, <1>3

LEMMA CrashInv == ASSUME IInv, NEW r \in Replicas, Crash(r) PROVE IInv'
<1>1. /\ indexer' = [indexer EXCEPT ![r] = Subscribed(0)]
      /\ subs' = [subs EXCEPT ![r] = {0}] /\ notice' = [notice EXCEPT ![r] = {}]
      /\ handler' = [h \in Handlers |->
             IF handler[h].replica = r THEN IdleHandler ELSE handler[h]]
      /\ stop' = [c \in Stops |-> IF stop[c].replica = r THEN NoStop ELSE stop[c]]
      /\ excused' = [excused EXCEPT ![r] = 0]
      /\ sync' = [sync EXCEPT ![r] = IdleSync]
      /\ UNCHANGED chainVars
  BY DEF Crash
<1>2. PICK slots \in 0..MaxLag \union {Null} : behind' = [behind EXCEPT ![r] = slots]
  BY ResumedType DEF Crash
<1>3. PICK n \in Nat : used' = [used EXCEPT !.crashes = n]
  <2>1. used.crashes + 1 \in Nat
    BY Facts
  <2> QED
    BY <2>1 DEF Crash
<1>10. PICK fresh \in Service : /\ fresh = Subscribed(0)
                                /\ fresh.isRunning = TRUE /\ fresh.subscriptionId = 0
  BY SubscribedIs
<1>11. indexer' \in [Replicas -> Service] /\ indexer'[r] = fresh
  BY <1>1, <1>10, Facts
<1>12. excused' \in [Replicas -> Nat] /\ excused'[r] = 0
  BY <1>1, Facts
<1>13. subs' \in [Replicas -> SUBSET Nat] /\ subs'[r] = {0}
  BY <1>1, Facts
<1>4. /\ indexer' \in [Replicas -> Service] /\ subs' \in [Replicas -> SUBSET Nat]
      /\ excused' \in [Replicas -> Nat]
      /\ used' \in [starts : Nat, crashes : Nat, faults : Nat]
      /\ \A q \in Replicas \ {r} : /\ indexer'[q] = indexer[q] /\ subs'[q] = subs[q]
                                   /\ excused'[q] = excused[q]
      /\ indexer'[r].isRunning = TRUE /\ indexer'[r].subscriptionId = 0
      /\ subs'[r] = {0} /\ excused'[r] = 0
  BY <1>1, <1>3, <1>10, <1>11, <1>12, <1>13, Facts
<1>5. /\ notice' \in [Replicas -> SUBSET (Nat \X Signatures)]
      /\ \A q \in Replicas : notice'[q] \subseteq notice[q]
  BY <1>1, Facts
<1>6. /\ stop' \in [Stops -> Stopping]
      /\ \A c \in Stops : stop'[c] = stop[c] \/ {stop[c].replica, stop'[c].replica}
                                                   \subseteq {r, Null}
      /\ \A c \in Stops : stop'[c] # NoStop => stop'[c].replica \in Replicas
  BY <1>1, IdleIs, Facts
<1>7. ServiceInv(r)'
  <2>1. Pending(r)' = {}
    BY <1>1, IdleIs, NullAssumption DEF Pending
  <2>2. ~Removing(r)'
    BY <2>1 DEF Removing
  <2>3. Slack(r)' = 1
    BY <1>4, <2>2 DEF Slack
  <2>4. /\ IsFiniteSet(subs'[r]) /\ Cardinality(subs'[r]) = 1
        /\ Cardinality(Pending(r)') = 0
    <3>1. IsFiniteSet({0}) /\ Cardinality({0}) = 1
      BY FS_Singleton
    <3> QED
      BY <1>4, <2>1, <3>1, FS_EmptySet
  <2>5. indexer'[r].subscriptionId \in subs'[r]
    BY <1>4
  <2> QED
    BY <2>3, <2>4, <2>5 DEF ServiceInv
<1>8. /\ handler' \in [Handlers -> Handling]
      /\ \A h \in Handlers : handler'[h] \in {handler[h], IdleHandler}
  BY <1>1, IdleIs, Facts
<1>9. /\ behind' \in [Replicas -> 0..MaxLag \union {Null}]
      /\ sync' \in [Replicas -> SyncJob]
      /\ \A q \in Replicas : \/ sync'[q] = IdleSync
                             \/ sync'[q] = sync[q] /\ behind'[q] = behind[q]
  BY <1>1, <1>2, IdleIs, Facts
<1> QED
  BY <1>1, <1>4, <1>5, <1>6, <1>7, <1>8, <1>9, ServiceMoves

(***************************************************************************)
(* The theorems                                                            *)
(***************************************************************************)

LEMMA NextInv == IInv /\ [Next]_vars => IInv'
<1> SUFFICES ASSUME IInv, [Next]_vars PROVE IInv'
  OBVIOUS
<1>1. CASE ChainStep
  BY <1>1, ChainInv
<1>2. ASSUME NEW r \in Replicas, SyncStep(r) PROVE IInv'
  BY <1>2, SyncStepInv
<1>3. ASSUME NEW r \in Replicas, ServiceStep(r) PROVE IInv'
  BY <1>3, StartIndexerInv, ReconnectInv, StopIndexerInv, CrashInv DEF ServiceStep
<1>4. ASSUME NEW h \in Handlers, LiveStep(h) PROVE IInv'
  BY <1>4, LiveStepInv
<1>5. ASSUME NEW c \in Stops, Stopped(c) PROVE IInv'
  BY <1>5, StoppedInv
<1>6. CASE UNCHANGED vars
  <2>1. UNCHANGED <<chain, event, indexer, subs, notice, handler, stop, excused,
                    behind, sync, used>>
    BY <1>6 DEF vars, chainVars, liveVars, syncVars
  <2>2. NothingGoesBack
    BY <2>1, ChainStays DEF chainVars
  <2>3. TypeOK' /\ TableInv' /\ JobInv'
    BY <2>1, <2>2, TableGoesOn, Facts DEF TypeOK, JobInv, SyncFree
  <2> QED
    BY <2>1, <2>3, ServicesStay
<1> QED
  BY <1>1, <1>2, <1>3, <1>4, <1>5, <1>6 DEF Next

(* Every reachable state satisfies the inductive invariant. *)
THEOREM InductiveInvariant == Spec => []IInv
  BY InitIInv, NextInv, PTL DEF Spec

(* Every reachable state is well typed: the events table, the service, the *)
(* sync job and the calls of handleLogs and stopIndexer in flight keep the *)
(* shapes the code gives them.                                             *)
THEOREM TypeCorrect == Spec => []TypeOK
<1>1. IInv => TypeOK
  BY Facts
<1> QED
  BY <1>1, InductiveInvariant, PTL

(* However starts, stops, reconnects and crashes interleave, a replica has *)
(* at most one live subscription besides those that stops have left behind *)
(* (indexer.service.ts:63-81).                                             *)
THEOREM SubscriptionsAreBounded == Spec => []SubscriptionsBounded
<1>1. ASSUME IInv, NEW r \in Replicas PROVE Cardinality(subs[r]) <= 1 + excused[r]
  <2> DEFINE m == Cardinality(subs[r])
             n == Cardinality(Pending(r))
  <2>1. m \in Nat /\ n \in Nat /\ excused[r] \in Nat /\ m + n <= Slack(r)
    BY <1>1, ServiceFacts
  <2>2. IsFiniteSet(Pending(r)) /\ (n = 0 <=> Pending(r) = {})
    BY ServiceFacts, <1>1, FS_EmptySet
  <2> HIDE DEF m, n
  <2>3. CASE Pending(r) = {}
    <3>1. ~Removing(r)
      BY <2>3 DEF Removing
    <3>2. Slack(r) <= excused[r] + 1
      BY <2>1, <3>1 DEF Slack
    <3> QED
      BY <2>1, <2>2, <2>3, <3>2 DEF m, Slack
  <2>4. CASE Pending(r) # {}
    <3>1. Slack(r) <= excused[r] + 2
      BY <2>1 DEF Slack
    <3> QED
      BY <2>1, <2>2, <2>4, <3>1 DEF m, Slack
  <2> QED
    BY <2>3, <2>4
<1>2. IInv => SubscriptionsBounded
  BY <1>1 DEF SubscriptionsBounded
<1> QED
  BY <1>2, InductiveInvariant, PTL

(***************************************************************************)
(* The refinement                                                          *)
(***************************************************************************)

Ledger == [s \in Signatures |-> IF ~Landed(s) THEN "absent"
                                ELSE IF chain[s].finalized THEN "finalized"
                                ELSE "confirmed"]

LEMMA RefinesInit == Init => Log!LogInit
<1> SUFFICES ASSUME Init PROVE Log!LogInit
  OBVIOUS
<1>1. \A s \in Signatures : ~Landed(s) /\ event[s] = "none"
  BY DEF Init, Landed
<1>2. event = [s \in Signatures |-> "none"]
  BY DEF Init
<1> QED
  BY <1>1, <1>2 DEF Log!LogInit

LEMMA SameBooks ==
    ASSUME UNCHANGED chainVars
    PROVE  [Log!LogNext]_Log!logVars
  BY DEF chainVars, Log!logVars, Landed

LEMMA RefinesAdvance ==
    ASSUME IInv, Advance PROVE [Log!LogNext]_Log!logVars
<1>1. \A t \in Signatures : Landed(t) => chain[t] \in TxRow
  BY Facts DEF Landed
<1>2. ASSUME NEW t \in Signatures
      PROVE  /\ Landed(t)' <=> Landed(t)
             /\ Landed(t) => chain'[t].finalized = chain[t].finalized
  <2>1. CASE Landed(t)
    <3>1. chain'[t] = [chain[t] EXCEPT !.age = Longer(chain[t].age)]
      BY <2>1 DEF Advance
    <3> QED
      BY <1>1, <2>1, <3>1, OlderType, NullAssumption DEF Landed
  <2>2. CASE ~Landed(t)
    BY <2>2 DEF Advance, Landed
  <2> QED
    BY <2>1, <2>2
<1>3. Ledger' = Ledger
  BY <1>2 DEF Ledger
<1>4. UNCHANGED event
  BY DEF Advance
<1> QED
  BY <1>3, <1>4 DEF Log!logVars, Ledger

LEMMA RefinesLand ==
    ASSUME IInv, NEW s \in Signatures, Land(s) PROVE [Log!LogNext]_Log!logVars
<1>1. ~Landed(s) /\ UNCHANGED event
  BY DEF Land
<1>2. Ledger[s] = "absent" /\ Ledger' = [Ledger EXCEPT ![s] = "confirmed"]
  BY <1>1, LandInv DEF Ledger
<1>3. Log!Confirm(s)
  BY <1>1, <1>2 DEF Log!Confirm, Ledger
<1> QED
  BY <1>3 DEF Log!LogNext

LEMMA RefinesFinalize ==
    ASSUME IInv, NEW s \in Signatures, Finalize(s) PROVE [Log!LogNext]_Log!logVars
<1>1. Landed(s) /\ ~chain[s].finalized /\ UNCHANGED event
  BY DEF Finalize
<1>2. \A t \in Signatures \ {s} : /\ Landed(t)' <=> Landed(t)
                                  /\ chain'[t] = chain[t]
  BY FinalizeInv DEF Landed
<1>3. Ledger[s] = "confirmed" /\ Ledger' = [Ledger EXCEPT ![s] = "finalized"]
  BY <1>1, <1>2, FinalizeInv DEF Ledger
<1>4. Log!Root(s)
  BY <1>1, <1>3 DEF Log!Root, Ledger
<1> QED
  BY <1>4 DEF Log!LogNext

(* A create of either writer. *)
LEMMA RefinesCreate ==
    ASSUME IInv, NEW s \in Signatures, Landed(s), Create(s), UNCHANGED chain
    PROVE  [Log!LogNext]_Log!logVars
<1>1. Ledger' = Ledger /\ Ledger[s] # "absent"
  BY DEF Ledger, Landed
<1>2. CASE Stored(s)
  <2>1. UNCHANGED chainVars
    BY <1>2, CreateType DEF chainVars
  <2> QED
    BY <2>1, SameBooks
<1>3. CASE ~Stored(s)
  <2>1. event[s] = "none" /\ event' = [event EXCEPT ![s] = "confirmed"]
    BY <1>3, CreateType DEF Stored
  <2>2. Log!Store(s)
    BY <1>1, <2>1 DEF Log!Store, Ledger
  <2> QED
    BY <2>2 DEF Log!LogNext
<1> QED
  BY <1>2, <1>3

LEMMA RefinesLiveFinalize ==
    ASSUME IInv, NEW h \in Handlers, LiveFinalize(h) PROVE [Log!LogNext]_Log!logVars
<1>1. PICK s \in Signatures :
          /\ event' = [event EXCEPT ![s] = "finalized"]
          /\ Landed(s) /\ Stored(s) /\ chain[s].finalized
  BY LiveFinalizeEvent
<1>2. UNCHANGED chain
  BY DEF LiveFinalize
<1>3. Ledger' = Ledger /\ Ledger[s] = "finalized"
  BY <1>1, <1>2 DEF Ledger, Landed
<1>4. CASE event[s] = "confirmed"
  <2>1. Log!Mark(s)
    BY <1>1, <1>3, <1>4 DEF Log!Mark, Ledger
  <2> QED
    BY <2>1 DEF Log!LogNext
<1>5. CASE event[s] = "finalized"
  <2>1. event' = event
    BY <1>1, <1>5, Facts
  <2> QED
    BY <1>2, <2>1, SameBooks DEF chainVars
<1> QED
  BY <1>1, <1>4, <1>5, Facts DEF Stored

LEMMA RefinesSync ==
    ASSUME IInv, NEW r \in Replicas, SyncStep(r) PROVE [Log!LogNext]_Log!logVars
<1>1. ASSUME NEW s \in Signatures, SyncCreate(r, s) PROVE [Log!LogNext]_Log!logVars
  <2>1. Landed(s) /\ Create(s) /\ UNCHANGED chain
    BY <1>1, NewestHasLanded DEF SyncCreate
  <2> QED
    BY <2>1, RefinesCreate
<1>2. CASE \E s \in Signatures : SyncFind(r, s) \/ SyncSkip(r, s)
  BY <1>2, SameBooks DEF SyncFind, SyncSkip
<1>3. CASE SyncStart(r) \/ SyncPage(r) \/ SyncEnd(r) \/ SyncFail(r)
  BY <1>3, SameBooks DEF SyncStart, SyncPage, SyncEnd, SyncFail
<1> QED
  BY <1>1, <1>2, <1>3 DEF SyncStep, SyncWork

LEMMA RefinesLive ==
    ASSUME IInv, NEW h \in Handlers, LiveStep(h) PROVE [Log!LogNext]_Log!logVars
<1>1. CASE LiveCreate(h)
  <2>1. PICK s \in Signatures : Landed(s) /\ Create(s) /\ UNCHANGED chain
    BY <1>1, AtWork DEF LiveCreate, HandlerAt, HandlerFree
  <2> QED
    BY <2>1, RefinesCreate
<1>2. CASE LiveFinalize(h)
  BY <1>2, RefinesLiveFinalize
<1>3. CASE \E r \in Replicas, s \in Signatures : \E id \in subs[r] : LiveFind(h, r, id, s)
  BY <1>3, SameBooks DEF LiveFind
<1>4. CASE LiveStatus(h) \/ LiveFail(h)
  BY <1>4, SameBooks DEF LiveStatus, LiveFail
<1> QED
  BY <1>1, <1>2, <1>3, <1>4 DEF LiveStep

LEMMA RefinesService ==
    ASSUME (\E r \in Replicas : ServiceStep(r)) \/ (\E c \in Stops : Stopped(c))
    PROVE  [Log!LogNext]_Log!logVars
<1>1. UNCHANGED chainVars
  BY DEF ServiceStep, StartIndexer, Reconnect, StopIndexer, Crash, Stopped
<1> QED
  BY <1>1, SameBooks

LEMMA RefinesNext == IInv /\ [Next]_vars => [Log!LogNext]_Log!logVars
<1> SUFFICES ASSUME IInv, [Next]_vars PROVE [Log!LogNext]_Log!logVars
  OBVIOUS
<1>1. CASE ChainStep
  BY <1>1, RefinesAdvance, RefinesLand, RefinesFinalize DEF ChainStep
<1>2. CASE UNCHANGED vars
  BY <1>2, SameBooks DEF vars
<1> QED
  BY <1>1, <1>2, RefinesSync, RefinesLive, RefinesService DEF Next

(* Whatever the order in which live notifications and sync jobs of any     *)
(* number of replicas look and write, through failed calls and crashes,    *)
(* every step is one that EventLog allows: at most one event for a         *)
(* transaction, never before it, never gone, finalized after the chain     *)
(* (indexer.service.ts:83-170, indexer-sync.processor.ts:30-118).          *)
THEOREM Refinement == Spec => RefinesEventLog
  BY RefinesInit, RefinesNext, InductiveInvariant,
     PTL DEF Spec, RefinesEventLog, Log!LogSpec

=============================================================================
