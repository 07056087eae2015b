------------------------------ MODULE Indexer ------------------------------
(***************************************************************************)
(* indexer.service.ts and indexer-sync.processor.ts: every replica listens *)
(* to the program's logs and works off sync jobs, and all of them fill one *)
(* table of events.  A call of Prisma or of the RPC node is one step, but  *)
(* for getTransaction: what it answers does not depend on the state, and   *)
(* its step is that of the create that follows.                            *)
(*                                                                         *)
(* Slots are relative: of lastProcessedSlot the code only ever uses the    *)
(* distance to the chain's current slot, and that distance is the state.   *)
(***************************************************************************)
EXTENDS Integers, FiniteSets

CONSTANTS Replicas,       \* backend processes
          Signatures,     \* the program's transactions
          Failed,         \* those that failed on the chain
          Handlers,       \* slots for calls of handleLogs in flight
          Stops,          \* slots for calls of stopIndexer in flight
          PageLimit,      \* signatures in a page of the RPC node (1000)
          Batch,          \* slots that a sync moves on by, less one (50)
          Recent,         \* slots that a first sync looks back (100)
          MaxReconnects,  \* MAX_RECONNECT_ATTEMPTS (10)
          MaxLag,         \* bound of the model: distances told apart
          MaxStarts,      \* bound of the model: start requests
          MaxCrashes,     \* bound of the model: replicas that are replaced
          MaxFaults,      \* bound of the model: calls that fail
          Null            \* a missing value

ASSUME SignatureAssumption == Failed \subseteq Signatures
ASSUME DistanceAssumption ==
    /\ PageLimit \in Nat \ {0} /\ Batch \in Nat
    /\ MaxLag \in Nat /\ Recent \in 2..MaxLag
ASSUME BoundAssumption ==
    /\ IsFiniteSet(Stops)
    /\ MaxReconnects \in Nat /\ MaxStarts \in Nat
    /\ MaxCrashes \in Nat /\ MaxFaults \in Nat

VARIABLES chain,    \* the transactions of the program on the chain
          event,    \* the events table, by signature
          indexer,  \* the fields of IndexerService on each replica
          subs,     \* subscriptions that are live at a replica's connection
          notice,   \* log notifications on their way to a subscription
          handler,  \* handleLogs in flight
          stop,     \* stopIndexer in flight
          behind,   \* current slot less lastProcessedSlot; Null when it is 0
          sync,     \* the processor on each replica
          excused,  \* stops that overlapped or failed, on each replica
          used      \* how much of the bounds is used up

chainVars == <<chain, event>>
liveVars  == <<indexer, subs, notice, handler, stop, excused>>
syncVars  == <<behind, sync>>
vars == <<chainVars, liveVars, syncVars, used>>

(* newer counts the transactions that came after this one, age the slots.  *)
TxRow == [newer : Nat, age : 0..MaxLag, finalized : BOOLEAN]

(* timers counts the reconnects that are waiting in setTimeout. *)
Service == [isRunning : BOOLEAN, subscriptionId : Nat \union {Null},
            reconnectAttempts : Nat, timers : Nat, next : Nat]

(* pc names the next call.  In "find" it is findUnique for the newest      *)
(* signature of todo or, when none is left, the end of the job.            *)
SyncJob == [pc : {"idle", "page", "find", "create"},
            stride : Nat, todo : SUBSET Signatures]

Handling == [pc : {"idle", "status", "finalize", "create"},
             replica : Replicas \union {Null},
             signature : Signatures \union {Null}]

Stopping == [replica : Replicas \union {Null}, id : Nat \union {Null}]

ASSUME NullAssumption ==
    /\ Null \notin TxRow /\ Null \notin Nat
    /\ Null \notin Replicas /\ Null \notin Signatures

IdleSync == [pc |-> "idle", stride |-> 0, todo |-> {}]
IdleHandler == [pc |-> "idle", replica |-> Null, signature |-> Null]
NoStop == [replica |-> Null, id |-> Null]

Landed(s) == chain[s] # Null
Stored(s) == event[s] # "none"

TypeOK ==
    /\ chain \in [Signatures -> TxRow \union {Null}]
    /\ event \in [Signatures -> {"none", "confirmed", "finalized"}]
    /\ indexer \in [Replicas -> Service]
    /\ subs \in [Replicas -> SUBSET Nat]
    /\ notice \in [Replicas -> SUBSET (Nat \X Signatures)]
    /\ handler \in [Handlers -> Handling]
    /\ stop \in [Stops -> Stopping]
    /\ behind \in [Replicas -> 0..MaxLag \union {Null}]
    /\ sync \in [Replicas -> SyncJob]
    /\ excused \in [Replicas -> Nat]
    /\ used \in [starts : Nat, crashes : Nat, faults : Nat]

(* A process that has just run its onModuleInit hooks: it is subscribed. *)
Subscribed(id) == [isRunning |-> TRUE, subscriptionId |-> id,
                   reconnectAttempts |-> 0, timers |-> 0, next |-> id + 1]

Init ==
    /\ chain = [s \in Signatures |-> Null]
    /\ event = [s \in Signatures |-> "none"]
    /\ indexer = [r \in Replicas |-> Subscribed(0)]
    /\ subs = [r \in Replicas |-> {0}]
    /\ notice = [r \in Replicas |-> {}]
    /\ handler = [h \in Handlers |-> IdleHandler]
    /\ stop = [c \in Stops |-> NoStop]
    /\ behind = [r \in Replicas |-> Null]
    /\ sync = [r \in Replicas |-> IdleSync]
    /\ excused = [r \in Replicas |-> 0]
    /\ used = [starts |-> 0, crashes |-> 0, faults |-> 0]

(* A call fails: at most MaxFaults times. *)
Fault == /\ used.faults < MaxFaults
         /\ used' = [used EXCEPT !.faults = @ + 1]

(***************************************************************************)
(* The chain and the node that is asked about it                           *)
(***************************************************************************)

Longer(n) == IF n < MaxLag THEN n + 1 ELSE MaxLag

Lag == [r \in Replicas |-> IF behind[r] = Null THEN Null ELSE Longer(behind[r])]

(* A slot without a transaction of the program. *)
Advance ==
    /\ chain' = [t \in Signatures |->
           IF Landed(t) THEN [chain[t] EXCEPT !.age = Longer(@)] ELSE Null]
    /\ behind' = Lag
    /\ UNCHANGED <<event, liveVars, sync, used>>

(* A slot with one: every live subscription is told.  handleLogs returns   *)
(* at once when it is told of a failed one.                                *)
Land(s) ==
    /\ ~Landed(s)
    /\ chain' = [t \in Signatures |->
           IF t = s THEN [newer |-> 0, age |-> 0, finalized |-> FALSE]
           ELSE IF Landed(t) THEN [chain[t] EXCEPT !.newer = @ + 1,
                                                   !.age = Longer(@)]
           ELSE Null]
    /\ notice' = IF s \in Failed THEN notice
                 ELSE [r \in Replicas |-> notice[r] \union (subs[r] \X {s})]
    /\ behind' = Lag
    /\ UNCHANGED <<event, indexer, subs, handler, stop, excused, sync, used>>

(* The chain finalizes in the order of its slots. *)
Finalize(s) ==
    /\ Landed(s) /\ ~chain[s].finalized
    /\ \A t \in Signatures :
           Landed(t) /\ chain[t].newer > chain[s].newer => chain[t].finalized
    /\ chain' = [chain EXCEPT ![s].finalized = TRUE]
    /\ UNCHANGED <<event, liveVars, syncVars, used>>

(* MUTANT of Page: only the slots behind the cursor are asked for. *)
Page_Range(r) == {s \in Signatures : /\ Landed(s)
                                     /\ chain[s].newer < PageLimit
                                     /\ chain[s].age < behind[r]}

(* getSignaturesForAddress.  minContextSlot is not a filter: it only says  *)
(* how far the node must be.  The answer is the newest signatures.         *)
Page(r) == {s \in Signatures : Landed(s) /\ chain[s].newer < PageLimit}

(* s comes first in an answer that holds the signatures S. *)
Newest(s, S) == s \in S /\ \A t \in S : chain[s].newer <= chain[t].newer

(***************************************************************************)
(* indexer-sync.processor.ts                                               *)
(***************************************************************************)

SyncFree(r) == sync[r].pc = "idle"
SyncAt(r, s) == sync[r].pc = s

(* The signature's turn is over. *)
SyncNext(r, s) == sync' = [sync EXCEPT ![r].pc = "find", ![r].todo = @ \ {s}]

Gap(r) == IF behind[r] = Null THEN Recent ELSE behind[r]

(* getSlot.  endSlot is fixed here, as a number of slots to move on by.  A *)
(* job that finds itself caught up writes nothing.                         *)
SyncStart(r) ==
    /\ SyncFree(r)
    /\ Gap(r) >= 2
    /\ behind' = [behind EXCEPT ![r] = Gap(r)]
    /\ sync' = [sync EXCEPT ![r] =
           [pc |-> "page", todo |-> {},
            stride |-> IF Gap(r) < Batch + 1 THEN Gap(r) ELSE Batch + 1]]
    /\ UNCHANGED <<chainVars, liveVars, used>>

SyncPage(r) ==
    /\ SyncAt(r, "page")
    /\ sync' = [sync EXCEPT ![r].pc = "find", ![r].todo = Page(r)]
    /\ UNCHANGED <<chainVars, liveVars, behind, used>>

SyncFind(r, s) ==
    /\ SyncAt(r, "find") /\ Newest(s, sync[r].todo)
    /\ IF Stored(s) THEN SyncNext(r, s)
       ELSE sync' = [sync EXCEPT ![r].pc = "create"]
    /\ UNCHANGED <<chainVars, liveVars, behind, used>>

(* The unique signature makes a second create throw, which is caught. *)
Create(s) == event' = [event EXCEPT ![s] = IF Stored(s) THEN @ ELSE "confirmed"]

SyncCreate(r, s) ==
    /\ SyncAt(r, "create") /\ Newest(s, sync[r].todo)
    /\ Create(s)
    /\ SyncNext(r, s)
    /\ UNCHANGED <<chain, liveVars, behind, used>>

(* A call that throws, or a transaction that the node does not have: the   *)
(* loop goes on without this signature.                                    *)
SyncSkip(r, s) ==
    /\ sync[r].pc \in {"find", "create"} /\ Newest(s, sync[r].todo)
    /\ Fault
    /\ SyncNext(r, s)
    /\ UNCHANGED <<chainVars, liveVars, behind>>

(* The signatures are dealt with: lastProcessedSlot becomes endSlot. *)
SyncEnd(r) ==
    /\ SyncAt(r, "find") /\ sync[r].todo = {}
    /\ behind' = [behind EXCEPT ![r] = IF @ > sync[r].stride
                                       THEN @ - sync[r].stride ELSE 0]
    /\ sync' = [sync EXCEPT ![r] = IdleSync]
    /\ UNCHANGED <<chainVars, liveVars, used>>

(* Without a page the job fails.  Bull's next attempt is another start. *)
SyncFail(r) ==
    /\ SyncAt(r, "page")
    /\ Fault
    /\ sync' = [sync EXCEPT ![r] = IdleSync]
    /\ UNCHANGED <<chainVars, liveVars, behind>>

(***************************************************************************)
(* handleLogs                                                              *)
(***************************************************************************)

HandlerFree(h) == handler[h].pc = "idle"
HandlerAt(h, s) == handler[h].pc = s

HandlerGoto(h, s) == handler' = [handler EXCEPT ![h].pc = s]
HandlerDone(h) == handler' = [handler EXCEPT ![h] = IdleHandler]

(* findUnique.  Only an event that is there already may be finalized. *)
LiveFind(h, r, id, s) ==
    /\ HandlerFree(h)
    /\ <<id, s>> \in notice[r]
    /\ notice' = [notice EXCEPT ![r] = @ \ {<<id, s>>}]
    /\ handler' = IF event[s] = "finalized" THEN handler
                  ELSE [handler EXCEPT ![h] =
                      [pc |-> IF Stored(s) THEN "status" ELSE "create",
                       replica |-> r, signature |-> s]]
    /\ UNCHANGED <<chainVars, indexer, subs, stop, excused, syncVars, used>>

(* MUTANT of LiveStatus: any status will do. *)
LiveStatus_Any(h) ==
    /\ HandlerAt(h, "status")
    /\ HandlerGoto(h, "finalize")
    /\ UNCHANGED <<chainVars, indexer, subs, notice, stop, excused, syncVars, used>>

(* getSignatureStatus. *)
LiveStatus(h) ==
    /\ HandlerAt(h, "status")
    /\ IF chain[handler[h].signature].finalized
       THEN HandlerGoto(h, "finalize") ELSE HandlerDone(h)
    /\ UNCHANGED <<chainVars, indexer, subs, notice, stop, excused, syncVars, used>>

LiveFinalize(h) ==
    /\ HandlerAt(h, "finalize")
    /\ event' = [event EXCEPT ![handler[h].signature] = "finalized"]
    /\ HandlerDone(h)
    /\ UNCHANGED <<chain, indexer, subs, notice, stop, excused, syncVars, used>>

LiveCreate(h) ==
    /\ HandlerAt(h, "create")
    /\ Create(handler[h].signature)
    /\ HandlerDone(h)
    /\ UNCHANGED <<chain, indexer, subs, notice, stop, excused, syncVars, used>>

(* A call that throws, or no transaction: nothing asks for it again. *)
LiveFail(h) ==
    /\ ~HandlerFree(h)
    /\ Fault
    /\ HandlerDone(h)
    /\ UNCHANGED <<chainVars, indexer, subs, notice, stop, excused, syncVars>>

(***************************************************************************)
(* startIndexer, stopIndexer, handleReconnect                              *)
(***************************************************************************)

(* The try block up to backfillRecentEvents, which only counts, and the    *)
(* catch block.  on is the service as the caller leaves it.                *)
Started(r, on) ==
    /\ indexer' = [indexer EXCEPT ![r] =
           [Subscribed(on.next) EXCEPT !.timers = on.timers]]
    /\ subs' = [subs EXCEPT ![r] = @ \union {on.next}]

Refused(r, on) ==
    /\ indexer' = [indexer EXCEPT ![r] =
           IF on.reconnectAttempts >= MaxReconnects THEN on
           ELSE [on EXCEPT !.reconnectAttempts = @ + 1, !.timers = @ + 1]]
    /\ UNCHANGED subs

(* POST indexer/start. *)
StartIndexer(r) ==
    /\ ~indexer[r].isRunning
    /\ used.starts < MaxStarts
    /\ \/ /\ Started(r, indexer[r])
          /\ used' = [used EXCEPT !.starts = @ + 1]
       \/ /\ Refused(r, indexer[r])
          /\ used.faults < MaxFaults
          /\ used' = [used EXCEPT !.starts = @ + 1, !.faults = @ + 1]
    /\ UNCHANGED <<chainVars, notice, handler, stop, excused, syncVars>>

(* setTimeout comes back. *)
Reconnect(r) ==
    LET on == [indexer[r] EXCEPT !.timers = @ - 1]
    IN  /\ indexer[r].timers > 0
        /\ \/ /\ on.isRunning
              /\ indexer' = [indexer EXCEPT ![r] = on]
              /\ UNCHANGED <<subs, used>>
           \/ ~on.isRunning /\ Started(r, on) /\ UNCHANGED used
           \/ ~on.isRunning /\ Refused(r, on) /\ Fault
        /\ UNCHANGED <<chainVars, notice, handler, stop, excused, syncVars>>

Excuse(r) == excused' = [excused EXCEPT ![r] = @ + 1]

(* MUTANT of StopIndexer: the flag is reset before the subscription is. *)
StopIndexer_FlagFirst(c, r) ==
    /\ stop[c] = NoStop
    /\ indexer[r].isRunning
    /\ stop' = [stop EXCEPT ![c] = [replica |-> r, id |-> indexer[r].subscriptionId]]
    /\ indexer' = [indexer EXCEPT ![r].isRunning = FALSE]
    /\ IF \E d \in Stops : stop[d].replica = r THEN Excuse(r) ELSE UNCHANGED excused
    /\ UNCHANGED <<chainVars, subs, notice, handler, syncVars, used>>

(* Up to the await of removeOnLogsListener: isRunning is still true. *)
StopIndexer(c, r) ==
    /\ stop[c] = NoStop
    /\ indexer[r].isRunning
    /\ stop' = [stop EXCEPT ![c] = [replica |-> r, id |-> indexer[r].subscriptionId]]
    /\ IF \E d \in Stops : stop[d].replica = r THEN Excuse(r) ELSE UNCHANGED excused
    /\ UNCHANGED <<chainVars, indexer, subs, notice, handler, syncVars, used>>

(* After it, whether the removal failed or not. *)
Stopped(c) ==
    LET r == stop[c].replica
        id == stop[c].id
    IN  /\ stop[c] # NoStop
        /\ indexer' = [indexer EXCEPT ![r].isRunning = FALSE,
                                      ![r].subscriptionId = Null]
        /\ stop' = [stop EXCEPT ![c] = NoStop]
        /\ \/ /\ subs' = [subs EXCEPT ![r] = @ \ {id}]
              /\ notice' = [notice EXCEPT ![r] = {n \in @ : n[1] # id}]
              /\ UNCHANGED <<excused, used>>
           \/ Fault /\ Excuse(r) /\ UNCHANGED <<subs, notice>>
        /\ UNCHANGED <<chainVars, handler, syncVars>>

(***************************************************************************)
(* A replica dies and is replaced                                          *)
(***************************************************************************)

(* onModuleInit of the processor: the slot of the newest event. *)
Resumed ==
    IF \A s \in Signatures : ~Stored(s) THEN {Null}
    ELSE {chain[s].age : s \in {t \in Signatures :
              Newest(t, {u \in Signatures : Stored(u)})}}

Crash(r) ==
    /\ used.crashes < MaxCrashes
    /\ used' = [used EXCEPT !.crashes = @ + 1]
    /\ indexer' = [indexer EXCEPT ![r] = Subscribed(0)]
    /\ subs' = [subs EXCEPT ![r] = {0}]
    /\ notice' = [notice EXCEPT ![r] = {}]
    /\ handler' = [h \in Handlers |->
           IF handler[h].replica = r THEN IdleHandler ELSE handler[h]]
    /\ stop' = [c \in Stops |-> IF stop[c].replica = r THEN NoStop ELSE stop[c]]
    /\ excused' = [excused EXCEPT ![r] = 0]
    /\ \E slots \in Resumed : behind' = [behind EXCEPT ![r] = slots]
    /\ sync' = [sync EXCEPT ![r] = IdleSync]
    /\ UNCHANGED chainVars

ChainStep == Advance \/ \E s \in Signatures : Land(s) \/ Finalize(s)

SyncWork(r) == \/ SyncPage(r)
               \/ \E s \in Signatures : SyncFind(r, s) \/ SyncCreate(r, s)
               \/ SyncEnd(r)

SyncStep(r) == \/ SyncStart(r) \/ SyncWork(r) \/ SyncFail(r)
               \/ \E s \in Signatures : SyncSkip(r, s)

LiveStep(h) ==
    \/ \E r \in Replicas, s \in Signatures : \E id \in subs[r] : LiveFind(h, r, id, s)
    \/ LiveStatus(h)
    \/ LiveFinalize(h)
    \/ LiveCreate(h)
    \/ LiveFail(h)

ServiceStep(r) ==
    \/ StartIndexer(r)
    \/ Reconnect(r)
    \/ \E c \in Stops : StopIndexer(c, r)
    \/ Crash(r)

Next == \/ ChainStep
        \/ \E r \in Replicas : SyncStep(r) \/ ServiceStep(r)
        \/ \E h \in Handlers : LiveStep(h)
        \/ \E c \in Stops : Stopped(c)

Spec == Init /\ [][Next]_vars

(* The chain goes on, the queue gives its jobs to some replica whenever    *)
(* one has something to do, and a job that has begun is gone on with.      *)
Fairness == /\ WF_vars(Advance)
            /\ WF_vars(\E r \in Replicas : SyncStart(r))
            /\ \A r \in Replicas : WF_vars(SyncWork(r))

FairSpec == Spec /\ Fairness

-----------------------------------------------------------------------------
(***************************************************************************)
(* Properties                                                              *)
(***************************************************************************)

(* Two writers fill the table on every replica, each after a look that is  *)
(* stale by then, and still a transaction has one event that never goes    *)
(* away or back and is finalized after the chain                           *)
(* (indexer.service.ts:92-127, :231-249, indexer-sync.processor.ts:72-104).*)
Log == INSTANCE EventLog WITH
    ledger <- [s \in Signatures |-> IF ~Landed(s) THEN "absent"
                                    ELSE IF chain[s].finalized THEN "finalized"
                                    ELSE "confirmed"],
    log <- event

RefinesEventLog == Log!LogSpec

(* A replica listens once: each further subscription that is live is owed  *)
(* to a removal that failed or to a stop that began while another one was  *)
(* waiting for its removal (indexer.service.ts:63-81).                     *)
SubscriptionsBounded ==
    \A r \in Replicas : Cardinality(subs[r]) <= 1 + excused[r]

(* Newer ones fill the page. *)
OutOfReach(s) == Landed(s) /\ chain[s].newer >= PageLimit

(* Every transaction, failed ones included, gets its event, unless so many *)
(* newer ones come first that no page shows it any more: a signature that  *)
(* fails is asked for again though the cursor has passed it                *)
(* (indexer-sync.processor.ts:46-112).                                     *)
TransactionsAreIndexed ==
    \A s \in Signatures :
        Landed(s) ~> (Stored(s) \/ OutOfReach(s))

=============================================================================
