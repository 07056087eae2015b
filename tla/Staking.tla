------------------------------ MODULE Staking ------------------------------
(***************************************************************************)
(* staking.service.ts on several replicas over one database, with the      *)
(* hourly cooldown finalizer.                                              *)
(*                                                                         *)
(* Every Prisma call is one atomic statement; between two of them any      *)
(* other request may run, and the request may end there (a statement       *)
(* fails, the replica dies) with what it wrote already committed.  A       *)
(* request slot is one handler in flight; what the handler read and keeps  *)
(* in local variables is in the slot.  Refused requests write nothing and  *)
(* are not steps.  The clock is in ticks and no handler outlives           *)
(* RequestLifetime of them.                                                *)
(***************************************************************************)
EXTENDS Integers, Sequences, StakingMath, Sums

CONSTANTS Pdas,             \* position addresses: one per owner and seed
          Requests,         \* request slots
          Amounts,          \* amounts a staker can deposit
          Tiers,            \* ids of the active tiers
          LockPeriods,      \* lock lengths, in ticks
          CooldownPeriod,   \* ticks between unstake and finalize
          RequestLifetime,  \* bound on the age of a request in flight
          InitialPool,      \* the reward pool at the start
          MaxTime,          \* bound of the model: the clock's last tick
          MaxAborts,        \* bound of the model: requests cut short
          Null              \* SQL null, a missing row

ASSUME FiniteAssumption == IsFiniteSet(Pdas) /\ IsFiniteSet(Requests)
ASSUME AmountAssumption == Amounts \subseteq Nat \ {0} /\ InitialPool \in Nat
ASSUME PeriodAssumption ==
    /\ LockPeriods \subseteq Nat
    /\ RequestLifetime \in Nat /\ CooldownPeriod \in Nat
    /\ 2 * RequestLifetime < CooldownPeriod
ASSUME BoundAssumption == MaxTime \in Nat /\ MaxAborts \in Nat
ASSUME TierAssumption == Tiers \subseteq Int

VARIABLES clock,     \* seconds since the epoch, in ticks
          position,  \* stake_positions: a row or Null for each pda
          penaltyTx, \* penalty_transactions, by position, oldest first
          pool,      \* program_states.totalRewardPool, Null without a row
          request,   \* the handlers in flight
          paidOut,   \* principal that finalizeUnstake has reported, by pda
          aborts     \* requests cut short so far

vars == <<clock, position, penaltyTx, pool, request, paidOut, aborts>>

(***************************************************************************)
(* Rows and requests                                                       *)
(***************************************************************************)

PositionRow == [tierId : Tiers, amount : Nat, unlockTs : Nat,
                cooldownEnd : Nat \union {Null},
                pendingPrincipal : Nat \union {Null}, isActive : BOOLEAN]

ASSUME NullAssumption ==
    Null \notin Int /\ Null \notin Pdas /\ Null \notin PositionRow

PenaltyRow == [penaltyAmount : Nat, toRewardPool : Nat, toProtocol : Nat]

UnstakeStates == {"penalty", "credit", "write"}

(* pc names the statement that comes next: "create" in stakeTokens,        *)
(* "penalty", "credit", "write" in unstakeTokens, "settle" in              *)
(* finalizeUnstake.  row is what was read, or is about to be created.      *)
Request == [pc : {"idle", "create", "settle"} \union UnstakeStates,
            pda : Pdas \union {Null}, now : Nat,
            row : PositionRow \union {Null}]

Idle == [pc |-> "idle", pda |-> Null, now |-> 0, row |-> Null]

Free(r) == request[r].pc = "idle"
At(r, s) == request[r].pc = s
Goto(r, s) == request' = [request EXCEPT ![r].pc = s]
Done(r) == request' = [request EXCEPT ![r] = Idle]

(* The handler r has read row for pda p and computed its Date.now(). *)
Begin(r, s, p, row) ==
    request' = [request EXCEPT ![r] =
                   [pc |-> s, pda |-> p, now |-> clock, row |-> row]]

Exists(p) == position[p] # Null

(* What a row means to its owner. *)
Phase(p) ==
    IF ~Exists(p) THEN "none"
    ELSE IF position[p].isActive THEN "active"
    ELSE IF position[p].cooldownEnd \in {Null, 0} THEN "withdrawn"
    ELSE "cooling"

Principal(p) == IF Exists(p) THEN position[p].amount ELSE 0

TypeOK ==
    /\ clock \in Nat
    /\ position \in [Pdas -> PositionRow \union {Null}]
    /\ penaltyTx \in [Pdas -> Seq(PenaltyRow)]
    /\ pool \in Nat \union {Null}
    /\ request \in [Requests -> Request]
    /\ paidOut \in [Pdas -> Nat]
    /\ aborts \in Nat

(* The state's row may be missing: handlers test for it, none creates it. *)
Init ==
    /\ clock = 0
    /\ position = [p \in Pdas |-> Null]
    /\ penaltyTx = [p \in Pdas |-> <<>>]
    /\ pool \in {InitialPool, Null}
    /\ request = [r \in Requests |-> Idle]
    /\ paidOut = [p \in Pdas |-> 0]
    /\ aborts = 0

(***************************************************************************)
(* stakeTokens: read the tier, create the row.  The unique pda makes a     *)
(* second create fail (P2002).                                             *)
(***************************************************************************)

NewPosition(amount, tierId, lock) ==
    [tierId |-> tierId, amount |-> amount, unlockTs |-> clock + lock,
     cooldownEnd |-> Null, pendingPrincipal |-> Null, isActive |-> TRUE]

StakeRead(r, p, amount, tierId, lock) ==
    /\ Free(r)
    /\ Begin(r, "create", p, NewPosition(amount, tierId, lock))
    /\ UNCHANGED <<clock, position, penaltyTx, pool, paidOut, aborts>>

(* MUTANT of StakeCreate: without the unique index an old row is replaced. *)
StakeCreate_NotUnique(r) ==
    /\ At(r, "create")
    /\ position' = [position EXCEPT ![request[r].pda] = request[r].row]
    /\ Done(r)
    /\ UNCHANGED <<clock, penaltyTx, pool, paidOut, aborts>>

StakeCreate(r) ==
    LET p == request[r].pda
    IN  /\ At(r, "create")
        /\ position' = IF Exists(p) THEN position
                       ELSE [position EXCEPT ![p] = request[r].row]
        /\ Done(r)
        /\ UNCHANGED <<clock, penaltyTx, pool, paidOut, aborts>>

(***************************************************************************)
(* unstakeTokens                                                           *)
(***************************************************************************)

(* MUTANT of IsEarly: everybody who unstakes pays. *)
IsEarly_Always(row, now) == TRUE

IsEarly(row, now) == now < row.unlockTs

PenaltyOf(row) == PenaltyAmount(row.amount, row.tierId)

(* MUTANT of UnstakeRead: neither guard on the row is there. *)
UnstakeRead_Unguarded(r, p) ==
    /\ Free(r)
    /\ Exists(p)
    /\ Begin(r, IF IsEarly(position[p], clock) THEN "penalty" ELSE "write",
             p, position[p])
    /\ UNCHANGED <<clock, position, penaltyTx, pool, paidOut, aborts>>

(* The guards test the row as it was read; a penalty is due before unlock. *)
UnstakeRead(r, p) ==
    /\ Free(r)
    /\ Exists(p)
    /\ position[p].isActive
    /\ position[p].cooldownEnd \in {Null, 0}
    /\ Begin(r, IF IsEarly(position[p], clock) THEN "penalty" ELSE "write",
             p, position[p])
    /\ UNCHANGED <<clock, position, penaltyTx, pool, paidOut, aborts>>

(* The audit row of the penalty. *)
UnstakePenalty(r) ==
    LET penalty == PenaltyOf(request[r].row)
    IN  /\ At(r, "penalty")
        /\ penaltyTx' = [penaltyTx EXCEPT ![request[r].pda] =
               Append(@, [penaltyAmount |-> penalty,
                          toRewardPool  |-> PenaltyHalf(penalty),
                          toProtocol    |-> PenaltyHalf(penalty)])]
        /\ Goto(r, "credit")
        /\ UNCHANGED <<clock, position, pool, paidOut, aborts>>

(* MUTANT of Credited: the absolute write that loses the pool's own value. *)
Credited_Absolute(balance, credit) == InitialPool + credit

(* What an SQL increment by credit makes of a balance. *)
Credited(balance, credit) == balance + credit

(* MUTANT of UnstakeCredit: the handler returns when there is no state row. *)
UnstakeCredit_Returns(r) ==
    /\ At(r, "credit")
    /\ pool' = IF pool = Null THEN Null
               ELSE Credited(pool, PenaltyHalf(PenaltyOf(request[r].row)))
    /\ IF pool = Null THEN Done(r) ELSE Goto(r, "write")
    /\ UNCHANGED <<clock, position, penaltyTx, paidOut, aborts>>

(* The pool's share, as an SQL increment, when there is a state row. *)
UnstakeCredit(r) ==
    /\ At(r, "credit")
    /\ pool' = IF pool = Null THEN Null
               ELSE Credited(pool, PenaltyHalf(PenaltyOf(request[r].row)))
    /\ Goto(r, "write")
    /\ UNCHANGED <<clock, position, penaltyTx, paidOut, aborts>>

(* MUTANT of Owed: the penalty is withheld from a matured position as well. *)
Owed_Always(row, now) == row.amount - PenaltyOf(row)

(* The principal that will be released after the cooldown. *)
Owed(row, now) ==
    IF IsEarly(row, now) THEN row.amount - PenaltyOf(row) ELSE row.amount

(* MUTANT of CooldownFrom: the cooldown ends when it starts. *)
CooldownFrom_Now(now) == now + 1

CooldownFrom(now) == now + CooldownPeriod

(* The last write, of the row as it is now, from what was read before. *)
UnstakeWrite(r) ==
    LET q == request[r]
    IN  /\ At(r, "write")
        /\ position' = [position EXCEPT
               ![q.pda].cooldownEnd = CooldownFrom(q.now),
               ![q.pda].pendingPrincipal = Owed(q.row, q.now),
               ![q.pda].isActive = FALSE]
        /\ Done(r)
        /\ UNCHANGED <<clock, penaltyTx, pool, paidOut, aborts>>

(***************************************************************************)
(* finalizeUnstake                                                         *)
(***************************************************************************)

(* MUTANT of CooledDown: the comparison with the clock is dropped. *)
CooledDown_Ignored(row, now) == row.cooldownEnd \notin {Null, 0}

CooledDown(row, now) ==
    /\ row.cooldownEnd \notin {Null, 0}
    /\ row.cooldownEnd <= now

FinalizeRead(r, p) ==
    /\ Free(r)
    /\ Exists(p)
    /\ ~position[p].isActive
    /\ CooledDown(position[p], clock)
    /\ Begin(r, "settle", p, position[p])
    /\ UNCHANGED <<clock, position, penaltyTx, pool, paidOut, aborts>>

(* MUTANT of FinalizeWrite: the end of the cooldown is not reset. *)
FinalizeWrite_KeepsCooldown(r) ==
    LET q == request[r]
    IN  /\ At(r, "settle")
        /\ position' = [position EXCEPT ![q.pda].pendingPrincipal = 0,
                                        ![q.pda].amount = 0]
        /\ paidOut' = [paidOut EXCEPT ![q.pda] = @ + q.row.pendingPrincipal]
        /\ Done(r)
        /\ UNCHANGED <<clock, penaltyTx, pool, aborts>>

(* The reply reports the pending principal that was read, not written. *)
FinalizeWrite(r) ==
    LET q == request[r]
    IN  /\ At(r, "settle")
        /\ position' = [position EXCEPT ![q.pda].cooldownEnd = 0,
                                        ![q.pda].pendingPrincipal = 0,
                                        ![q.pda].amount = 0]
        /\ paidOut' = [paidOut EXCEPT ![q.pda] = @ + q.row.pendingPrincipal]
        /\ Done(r)
        /\ UNCHANGED <<clock, penaltyTx, pool, aborts>>

(***************************************************************************)
(* The hourly job of cooldown-finalizer.processor.ts.  Its query asks for  *)
(* active rows with an expired cooldown.  Of its loop only the write to    *)
(* the row is here: the totals it lowers afterwards are not kept, since    *)
(* the query never selects a row (StakingProofs!FinalizerSelectsNothing).  *)
(***************************************************************************)

Selected == {p \in Pdas :
    /\ Exists(p)
    /\ position[p].isActive
    /\ position[p].cooldownEnd # Null
    /\ position[p].cooldownEnd <= clock
    /\ position[p].pendingPrincipal # Null
    /\ position[p].pendingPrincipal > 0}

FinalizerRun ==
    /\ position' = [p \in Pdas |->
           IF p \in Selected
           THEN [position[p] EXCEPT !.isActive = FALSE,
                                    !.pendingPrincipal = 0,
                                    !.cooldownEnd = Null]
           ELSE position[p]]
    /\ UNCHANGED <<clock, penaltyTx, pool, request, paidOut, aborts>>

(***************************************************************************)
(* The environment                                                         *)
(***************************************************************************)

(* A statement throws or the replica dies; what was written stays. *)
Abort(r) ==
    /\ ~Free(r)
    /\ aborts < MaxAborts
    /\ aborts' = aborts + 1
    /\ Done(r)
    /\ UNCHANGED <<clock, position, penaltyTx, pool, paidOut>>

(* Time passes, but a request in flight never grows older than its bound. *)
Tick ==
    /\ clock < MaxTime
    /\ \A r \in Requests : Free(r) \/ clock < request[r].now + RequestLifetime
    /\ clock' = clock + 1
    /\ UNCHANGED <<position, penaltyTx, pool, request, paidOut, aborts>>

(* The next statement of a request that has begun. *)
Continue(r) == \/ StakeCreate(r)
               \/ UnstakePenalty(r)
               \/ UnstakeCredit(r)
               \/ UnstakeWrite(r)
               \/ FinalizeWrite(r)

Arrive(r) == \E p \in Pdas :
    \/ \E a \in Amounts, t \in Tiers, l \in LockPeriods : StakeRead(r, p, a, t, l)
    \/ UnstakeRead(r, p)
    \/ FinalizeRead(r, p)

Next == \/ \E r \in Requests : Arrive(r) \/ Continue(r) \/ Abort(r)
        \/ FinalizerRun
        \/ Tick

Spec == Init /\ [][Next]_vars

(* The event loop resumes a handler whose statement has returned, the cron *)
(* fires every hour, and time goes on; nobody has to send a request.       *)
Fairness == /\ \A r \in Requests : WF_vars(Continue(r))
            /\ WF_vars(FinalizerRun)
            /\ WF_vars(Tick)

FairSpec == Spec /\ Fairness

-----------------------------------------------------------------------------
(***************************************************************************)
(* Properties                                                              *)
(***************************************************************************)

(* What unstakeTokens and finalizeUnstake do to the rows, from any number  *)
(* of replicas at once, is a life of each position: opened once, unstaked  *)
(* once, settled once, never revived by the stale write of a request that  *)
(* read the row before (staking.service.ts:188 and :259 do not re-read).   *)
Lifecycle == INSTANCE PositionLifecycle WITH
                 phase <- [p \in Pdas |-> Phase(p)],
                 principal <- [p \in Pdas |-> Principal(p)]

RefinesLifecycle == Lifecycle!Spec

(* The pool's shares in the audit table, and those among them whose        *)
(* request has yet to credit the pool.                                     *)
Recorded(p) == SumOver([i \in 1..Len(penaltyTx[p]) |-> penaltyTx[p][i].toRewardPool])

AllRecorded == SumOver([p \in Pdas |-> Recorded(p)])

Due(r) == IF At(r, "credit") THEN PenaltyHalf(PenaltyOf(request[r].row)) ELSE 0

AllDue == SumOver([r \in Requests |-> Due(r)])

(* The pool and the audit table agree: once no request is between its      *)
(* penalty row and its credit, and unless a request was cut short there,   *)
(* the pool has grown by the recorded shares and nothing else, whatever    *)
(* other credits ran in between (staking.service.ts:159-180).              *)
PoolLedger ==
    (pool # Null /\ aborts = 0 /\ \A r \in Requests : ~At(r, "credit"))
    => pool = InitialPool + AllRecorded

(* Nothing is withheld from a staker without an audit row of that penalty, *)
(* even when several unstakes of one position overlap: what is missing     *)
(* from the pending principal is the amount of some penalty_transactions   *)
(* row of the position (staking.service.ts:156-168, :192).                 *)
WithheldIsRecorded ==
    \A p \in Pdas : Phase(p) = "cooling" =>
        \/ position[p].pendingPrincipal = position[p].amount
        \/ \E i \in 1..Len(penaltyTx[p]) :
               penaltyTx[p][i].penaltyAmount =
                   position[p].amount - position[p].pendingPrincipal

(* A caller is told that principal is released only when the row says so:  *)
(* a position with a reported payout is settled and stays so               *)
(* (staking.service.ts:259-282).                                           *)
ReportedIsSettled == \A p \in Pdas : paidOut[p] > 0 => Phase(p) = "withdrawn"

(* An early-unstake penalty is charged only on a position whose lock was   *)
(* still running within the lifetime of a request: no matured position     *)
(* pays later, whichever stale request runs (staking.service.ts:140).      *)
PenaltyOnlyWhileLocked ==
    [][\A p \in Pdas : penaltyTx'[p] # penaltyTx[p] =>
           clock < position[p].unlockTs + RequestLifetime]_vars

(* Unstakes of one position that overlap may each charge it, but never     *)
(* later than their own overlap allows: once the cooldown has run for two  *)
(* lifetimes of a request no further penalty is recorded, and none at all  *)
(* for a settled position (staking.service.ts:128-134, :159).              *)
ChargesEndWithOverlap ==
    [][\A p \in Pdas :
           (penaltyTx'[p] # penaltyTx[p] /\ Phase(p) # "active") =>
               /\ Phase(p) = "cooling"
               /\ clock + CooldownPeriod
                      <= position[p].cooldownEnd + 2 * RequestLifetime]_vars

(* A position that stops being active, or whose cooldown is written again  *)
(* by an overlapping unstake, still has the whole cooldown before it, less *)
(* the lifetime of one request (staking.service.ts:136-138, :188).         *)
FullCooldown ==
    [][\A p \in Pdas :
           Phase(p)' = "cooling" /\ position'[p] # position[p] =>
               position'[p].cooldownEnd + RequestLifetime
                   >= clock + CooldownPeriod]_vars

(* No settlement before the end of the cooldown that is in the row at the  *)
(* moment of the write, though the handler compared the clock with the row *)
(* it had read before (staking.service.ts:235-266).                        *)
NoEarlyWithdrawal ==
    [][\A p \in Pdas :
           Phase(p) = "cooling" /\ Phase(p)' = "withdrawn" =>
               clock >= position[p].cooldownEnd]_vars

(* A staker who has been charged gets into the cooldown: unless a request  *)
(* is cut short, the penalty is not taken from a position that then stays  *)
(* active (staking.service.ts:148-195).                                    *)
ChargedIsUnstaked ==
    \A p \in Pdas : penaltyTx[p] # <<>> ~>
                        (Phase(p) \in {"cooling", "withdrawn"} \/ aborts > 0)

=============================================================================
