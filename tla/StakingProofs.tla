--------------------------- MODULE StakingProofs ---------------------------
(***************************************************************************)
(* Theorems about Staking for every number of positions, replicas and      *)
(* requests, every amount, lock and cooldown, with their proofs.           *)
(***************************************************************************)
EXTENDS Staking, SumsProofs

(***************************************************************************)
(* The inductive invariant behind the theorems of this module.  The        *)
(* heart of it is RequestInv: an unstake still in flight on a position in  *)
(* cooldown has so recent a now that the cooldown cannot end before the    *)
(* request does, hence no settlement can come between its read and write.  *)
(***************************************************************************)

RowShape(x) ==
    IF x.isActive
    THEN x.cooldownEnd = Null /\ x.pendingPrincipal = Null
    ELSE /\ x.cooldownEnd \in Nat
         /\ x.pendingPrincipal \in Nat
         /\ x.cooldownEnd = 0 => x.amount = 0

RowInv == \A p \in Pdas : Exists(p) => RowShape(position[p])

SameDeposit(x, y) == /\ x.amount = y.amount
                     /\ x.tierId = y.tierId
                     /\ x.unlockTs = y.unlockTs

HasPenalty(p, amount) ==
    \E i \in 1..Len(penaltyTx[p]) : penaltyTx[p][i].penaltyAmount = amount

InFlight(q) == /\ q.pda \in Pdas
               /\ q.row \in PositionRow
               /\ q.now <= clock
               /\ clock <= q.now + RequestLifetime

Creating(q) == /\ q.row.isActive
               /\ q.row.amount \in Amounts
               /\ RowShape(q.row)

Unstaking(q) ==
    /\ Phase(q.pda) \in {"active", "cooling"}
    /\ SameDeposit(q.row, position[q.pda])
    /\ Phase(q.pda) = "cooling" =>
           q.now + CooldownPeriod <= position[q.pda].cooldownEnd + RequestLifetime
    /\ q.pc = "penalty" => IsEarly(q.row, q.now)
    /\ q.pc = "credit" \/ (q.pc = "write" /\ IsEarly(q.row, q.now)) =>
           HasPenalty(q.pda, PenaltyOf(q.row))

Settling(q) == /\ Phase(q.pda) \in {"cooling", "withdrawn"}
               /\ Phase(q.pda) = "cooling" => position[q.pda].cooldownEnd <= q.now
               /\ q.row.pendingPrincipal \in Nat

SlotInv(r) ==
    /\ ~Free(r) => InFlight(request[r])
    /\ At(r, "create") => Creating(request[r])
    /\ request[r].pc \in UnstakeStates => Unstaking(request[r])
    /\ At(r, "settle") => Settling(request[r])

RequestInv == \A r \in Requests : SlotInv(r)

IInv == TypeOK /\ RowInv /\ RequestInv /\ WithheldIsRecorded /\ ReportedIsSettled

(* The ledger of the pool at every moment: what was recorded and is not    *)
(* credited yet is the difference.                                         *)
LedgerInv ==
    (pool # Null /\ aborts = 0) => pool + AllDue = InitialPool + AllRecorded

-----------------------------------------------------------------------------
(***************************************************************************)
(* Arithmetic                                                              *)
(***************************************************************************)

(* A penalty never exceeds the deposit, and its halves never exceed it.    *)
LEMMA PenaltyBounded ==
    ASSUME NEW a \in Nat, NEW t
    PROVE  /\ PenaltyAmount(a, t) \in Nat
           /\ PenaltyAmount(a, t) <= a
           /\ PenaltyHalf(PenaltyAmount(a, t)) \in Nat
<1>1. PenaltyBp(t) \in {500, 750, 1000, 1250}
  BY DEF PenaltyBp
<1>2. \A b \in {500, 750, 1000, 1250} :
          (a * b) \div 10000 \in Nat /\ (a * b) \div 10000 <= a
  OBVIOUS
<1>3. /\ PenaltyAmount(a, t) \in Nat
      /\ PenaltyAmount(a, t) <= a
  BY <1>1, <1>2 DEF PenaltyAmount
<1> QED
  BY <1>3 DEF PenaltyHalf

(* What will be released is a natural number, whole or less the penalty.   *)
LEMMA OwedIsNat ==
    ASSUME NEW row \in PositionRow, NEW now \in Nat
    PROVE  /\ PenaltyOf(row) \in Nat
           /\ PenaltyHalf(PenaltyOf(row)) \in Nat
           /\ Owed(row, now) \in Nat
           /\ Owed(row, now) = IF IsEarly(row, now)
                               THEN row.amount - PenaltyOf(row) ELSE row.amount
<1>1. row.amount \in Nat
  BY DEF PositionRow
<1> QED
  BY <1>1, PenaltyBounded DEF PenaltyOf, Owed

(***************************************************************************)
(* The invariant                                                           *)
(***************************************************************************)

LEMMA IdleIsRequest == Idle \in Request /\ Idle.pc = "idle"
  BY DEF Idle, Request

LEMMA InitIInv == Init => IInv
<1> SUFFICES ASSUME Init PROVE IInv
  OBVIOUS
<1>1. TypeOK
  BY IdleIsRequest, AmountAssumption DEF Init, TypeOK
<1>2. RowInv /\ WithheldIsRecorded /\ ReportedIsSettled
  BY DEF Init, RowInv, Exists, WithheldIsRecorded, ReportedIsSettled, Phase
<1>3. RequestInv
  BY DEF Init, RequestInv, SlotInv, Idle, Free, At, UnstakeStates
<1> QED
  BY <1>1, <1>2, <1>3 DEF IInv

(* A step that leaves the rows and the audit table alone preserves what is *)
(* said of them, and of every request that it leaves alone at that time.   *)
LEMMA SameRows ==
    ASSUME IInv, UNCHANGED <<position, penaltyTx, paidOut>>
    PROVE  /\ RowInv' /\ WithheldIsRecorded' /\ ReportedIsSettled'
           /\ \A p : (Phase(p)' = Phase(p)) /\ (Exists(p)' <=> Exists(p))
           /\ \A p, n : HasPenalty(p, n)' <=> HasPenalty(p, n)
  BY DEF IInv, RowInv, WithheldIsRecorded, ReportedIsSettled, Phase, Exists,
         RowShape, HasPenalty

LEMMA StutterInv == ASSUME IInv, UNCHANGED vars PROVE IInv'
  BY DEF IInv, TypeOK, RowInv, RowShape, RequestInv, SlotInv, WithheldIsRecorded,
         ReportedIsSettled, Phase, Exists, Free, At, InFlight, Creating, Unstaking,
         Settling, SameDeposit, HasPenalty, IsEarly, PenaltyOf, vars

(* An idle slot has nothing to satisfy. *)
LEMMA FreeSlot == ASSUME NEW r \in Requests, Free(r)' PROVE SlotInv(r)'
  BY DEF Free, SlotInv, At, UnstakeStates

(* Finishing a request leaves the other slots as they were. *)
LEMMA DoneRequests ==
    ASSUME NEW r \in Requests, IInv, Done(r)
    PROVE  /\ request' \in [Requests -> Request]
           /\ SlotInv(r)'
           /\ \A s \in Requests \ {r} : request'[s] = request[s]
<1>1. /\ request' \in [Requests -> Request]
      /\ Free(r)'
      /\ \A s \in Requests \ {r} : request'[s] = request[s]
  BY IdleIsRequest DEF IInv, TypeOK, Done, Free
<1> QED
  BY <1>1, FreeSlot

(* So does beginning one. *)
LEMMA BeginRequests ==
    ASSUME NEW r \in Requests, NEW s \in {"create", "settle"} \union UnstakeStates,
           NEW p \in Pdas, NEW row \in PositionRow, IInv, Begin(r, s, p, row)
    PROVE  /\ request' \in [Requests -> Request]
           /\ request'[r] = [pc |-> s, pda |-> p, now |-> clock, row |-> row]
           /\ \A t \in Requests \ {r} : request'[t] = request[t]
<1>1. [pc |-> s, pda |-> p, now |-> clock, row |-> row] \in Request
  BY DEF IInv, TypeOK, Request
<1> QED
  BY <1>1 DEF IInv, TypeOK, Begin

(* Null is no row: it has not the fields of one. *)
LEMMA NullNotRow == Null \notin PositionRow
  BY NullAssumption

(* A slot keeps its invariant when nothing it depends on changes: its own  *)
(* record, the clock, and the row and the audit rows of its position.      *)
LEMMA SlotOnOwnRow ==
    ASSUME NEW r \in Requests, IInv, request'[r] = request[r], clock' = clock,
           NEW p, p = request[r].pda,
           p \in Pdas => /\ Phase(p)' = Phase(p)
                         /\ position'[p] = position[p]
                         /\ \A n : HasPenalty(p, n) => HasPenalty(p, n)'
    PROVE  SlotInv(r)'
<1>1. SlotInv(r)
  BY DEF IInv, RequestInv
<1>2. ~Free(r) => InFlight(request[r])'
  BY <1>1 DEF SlotInv, InFlight
<1>3. At(r, "create") => Creating(request[r])'
  BY <1>1 DEF SlotInv, Creating, RowShape
<1>4. request[r].pc \in UnstakeStates => Unstaking(request[r])'
  <2>1. request[r].pc \in UnstakeStates => Unstaking(request[r]) /\ request[r].pda \in Pdas
    BY <1>1 DEF SlotInv, Free, UnstakeStates, InFlight
  <2> QED
    BY <2>1 DEF Unstaking, SameDeposit, IsEarly, PenaltyOf
<1>5. At(r, "settle") => Settling(request[r])'
  <2>1. At(r, "settle") => Settling(request[r]) /\ request[r].pda \in Pdas
    BY <1>1 DEF SlotInv, Free, At, InFlight
  <2> QED
    BY <2>1 DEF Settling, At
<1> QED
  BY <1>2, <1>3, <1>4, <1>5 DEF SlotInv, Free, At

LEMMA SameSlot ==
    ASSUME NEW r \in Requests, IInv, request'[r] = request[r], clock' = clock,
           \A p \in Pdas : /\ Phase(p)' = Phase(p)
                           /\ position'[p] = position[p]
                           /\ \A n : HasPenalty(p, n) => HasPenalty(p, n)'
    PROVE  SlotInv(r)'
  BY SlotOnOwnRow

(***************************************************************************)
(* The reading steps: a slot is filled, no row changes.                    *)
(***************************************************************************)

(* Filling slot r with a record that satisfies the invariant keeps it. *)
LEMMA BeginKeepsIInv ==
    ASSUME NEW r \in Requests, NEW s \in {"create", "settle"} \union UnstakeStates,
           NEW p \in Pdas, NEW row \in PositionRow, IInv, Begin(r, s, p, row),
           UNCHANGED <<clock, position, penaltyTx, pool, paidOut, aborts>>,
           SlotInv(r)'
    PROVE  IInv'
<1>1. TypeOK'
  BY BeginRequests DEF IInv, TypeOK
<1>2. ASSUME NEW t \in Requests PROVE SlotInv(t)'
  <2>1. CASE t = r
    BY <2>1
  <2>2. CASE t # r
    BY <2>2, BeginRequests, SameRows, SameSlot
  <2> QED
    BY <2>1, <2>2
<1> QED
  BY <1>1, <1>2, SameRows DEF IInv, RequestInv

LEMMA StakeReadInv ==
    ASSUME NEW r \in Requests, NEW p \in Pdas, NEW a \in Amounts, NEW t \in Tiers,
           NEW l \in LockPeriods, IInv, StakeRead(r, p, a, t, l)
    PROVE  IInv'
<1> DEFINE row == NewPosition(a, t, l)
<1>1. /\ row \in PositionRow /\ row.isActive /\ row.amount \in Amounts /\ RowShape(row)
  BY AmountAssumption, PeriodAssumption
     DEF NewPosition, PositionRow, RowShape, IInv, TypeOK
<1>2. /\ Begin(r, "create", p, row)
      /\ UNCHANGED <<clock, position, penaltyTx, pool, paidOut, aborts>>
  BY DEF StakeRead
<1> HIDE DEF row
<1>3. request'[r] = [pc |-> "create", pda |-> p, now |-> clock, row |-> row]
  BY <1>1, <1>2, BeginRequests
<1>4. clock <= clock + RequestLifetime /\ clock' = clock /\ clock \in Nat
  BY <1>2, PeriodAssumption DEF IInv, TypeOK
<1>5. SlotInv(r)'
  BY <1>1, <1>3, <1>4 DEF SlotInv, Free, At, UnstakeStates, InFlight, Creating
<1> QED
  BY <1>1, <1>2, <1>5, BeginKeepsIInv

LEMMA UnstakeReadInv ==
    ASSUME NEW r \in Requests, NEW p \in Pdas, IInv, UnstakeRead(r, p)
    PROVE  IInv'
<1> DEFINE s == IF IsEarly(position[p], clock) THEN "penalty" ELSE "write"
<1>1. /\ Begin(r, s, p, position[p])
      /\ UNCHANGED <<clock, position, penaltyTx, pool, paidOut, aborts>>
      /\ position[p] \in PositionRow
      /\ Phase(p) = "active" /\ Phase(p)' = "active"
  BY DEF UnstakeRead, Phase, Exists, IInv, TypeOK
<1>2. s \in UnstakeStates /\ (s = "penalty" <=> IsEarly(position[p], clock)) /\ s # "credit"
  BY DEF UnstakeStates
<1> HIDE DEF s
<1>3. request'[r] = [pc |-> s, pda |-> p, now |-> clock, row |-> position[p]]
  BY <1>1, <1>2, BeginRequests
<1>4. clock <= clock + RequestLifetime /\ clock' = clock /\ clock \in Nat
  BY <1>1, PeriodAssumption DEF IInv, TypeOK
<1>5. InFlight(request[r])' /\ Unstaking(request[r])'
  BY <1>1, <1>2, <1>3, <1>4 DEF InFlight, Unstaking, SameDeposit, UnstakeStates, IsEarly
<1>6. SlotInv(r)'
  BY <1>2, <1>3, <1>5 DEF SlotInv, At, UnstakeStates
<1> QED
  BY <1>1, <1>2, <1>6, BeginKeepsIInv

LEMMA FinalizeReadInv ==
    ASSUME NEW r \in Requests, NEW p \in Pdas, IInv, FinalizeRead(r, p)
    PROVE  IInv'
<1>1. /\ Begin(r, "settle", p, position[p])
      /\ UNCHANGED <<clock, position, penaltyTx, pool, paidOut, aborts>>
      /\ position[p] \in PositionRow
      /\ Phase(p) = "cooling" /\ Phase(p)' = "cooling"
      /\ position[p].cooldownEnd <= clock
      /\ position[p].pendingPrincipal \in Nat
  BY DEF FinalizeRead, CooledDown, Phase, Exists, IInv, TypeOK, RowInv, RowShape
<1>2. request'[r] = [pc |-> "settle", pda |-> p, now |-> clock, row |-> position[p]]
  BY <1>1, BeginRequests
<1>3. clock <= clock + RequestLifetime /\ clock' = clock /\ clock \in Nat
  BY <1>1, PeriodAssumption DEF IInv, TypeOK
<1>4. InFlight(request[r])' /\ Settling(request[r])'
  BY <1>1, <1>2, <1>3 DEF InFlight, Settling
<1>5. SlotInv(r)'
  BY <1>2, <1>4 DEF SlotInv, At, UnstakeStates
<1> QED
  BY <1>1, <1>5, BeginKeepsIInv

(***************************************************************************)
(* The writing steps                                                       *)
(***************************************************************************)

(* A slot that is not at rest is on a position and holds a row. *)
LEMMA BusySlot ==
    ASSUME NEW r \in Requests, IInv, ~Free(r)
    PROVE  /\ request[r] \in Request
           /\ request[r].pda \in Pdas
           /\ request[r].row \in PositionRow
           /\ request[r].now \in Nat
           /\ request[r].now <= clock /\ clock <= request[r].now + RequestLifetime
           /\ clock \in Nat
  BY DEF IInv, TypeOK, RequestInv, SlotInv, InFlight, Request

LEMMA StakeCreateInv ==
    ASSUME NEW r \in Requests, IInv, StakeCreate(r)
    PROVE  IInv'
<1>0. PICK p \in Pdas : p = request[r].pda
  BY BusySlot DEF StakeCreate, At, Free
<1>1. CASE Exists(p)
  <2>1. UNCHANGED <<clock, position, penaltyTx, pool, paidOut, aborts>> /\ Done(r)
    BY <1>0, <1>1 DEF StakeCreate
  <2>2. ASSUME NEW t \in Requests PROVE SlotInv(t)'
    <3>1. CASE t = r
      BY <3>1, <2>1, DoneRequests
    <3>2. CASE t # r
      BY <3>2, <2>1, DoneRequests, SameRows, SameSlot
    <3> QED
      BY <3>1, <3>2
  <2>3. TypeOK'
    BY <2>1, DoneRequests DEF IInv, TypeOK
  <2> QED
    BY <2>1, <2>2, <2>3, SameRows DEF IInv, RequestInv
<1>2. CASE ~Exists(p)
  <2>1. /\ Done(r) /\ At(r, "create") /\ ~Free(r)
        /\ UNCHANGED <<clock, penaltyTx, pool, paidOut, aborts>>
        /\ position' = [position EXCEPT ![p] = request[r].row]
    BY <1>0, <1>2 DEF StakeCreate, At, Free
  <2>2. /\ p \in Pdas /\ request[r].row \in PositionRow /\ Creating(request[r])
    BY <2>1, BusySlot DEF IInv, RequestInv, SlotInv
  <2>3. /\ position'[p] = request[r].row
        /\ \A q \in Pdas \ {p} : position'[q] = position[q]
        /\ position' \in [Pdas -> PositionRow \union {Null}]
        /\ request[r].row # Null
    BY <2>1, <2>2, NullNotRow DEF IInv, TypeOK
  <2>4. /\ Phase(p) = "none" /\ Phase(p)' = "active"
        /\ \A q \in Pdas \ {p} : Phase(q)' = Phase(q)
    <3>1. Phase(p) = "none"
      BY <1>2 DEF Phase
    <3>2. Phase(p)' = "active"
      BY <2>2, <2>3 DEF Phase, Exists, Creating
    <3> QED
      BY <3>1, <3>2, <2>3 DEF Phase, Exists
  <2>5. TypeOK'
    BY <2>1, <2>3, DoneRequests DEF IInv, TypeOK
  <2>6. RowInv' /\ WithheldIsRecorded' /\ ReportedIsSettled'
    <3>1. RowInv'
      BY <2>2, <2>3 DEF IInv, RowInv, RowShape, Creating, Exists
    <3>2. WithheldIsRecorded'
      BY <2>1, <2>3, <2>4 DEF IInv, WithheldIsRecorded
    <3>3. ReportedIsSettled'
      BY <2>1, <2>4 DEF IInv, ReportedIsSettled
    <3> QED
      BY <3>1, <3>2, <3>3
  <2>7. ASSUME NEW t \in Requests \ {r} PROVE SlotInv(t)'
    <3>1. request'[t] = request[t] /\ SlotInv(t)
      BY <2>1, DoneRequests DEF IInv, RequestInv
    <3>2. CASE request[t].pda # p /\ ~Free(t)
      <4>1. PICK q \in Pdas : q = request[t].pda
        BY <3>2, BusySlot
      <4>2. Phase(q)' = Phase(q) /\ position'[q] = position[q]
        BY <2>3, <2>4, <3>2, <4>1
      <4>3. \A n : HasPenalty(q, n) => HasPenalty(q, n)'
        BY <2>1 DEF HasPenalty
      <4> QED
        BY <2>1, <3>1, <4>1, <4>2, <4>3, SlotOnOwnRow
    <3>3. CASE request[t].pda = p \/ Free(t)
      <4>1. request[t].pc \notin UnstakeStates \union {"settle"}
        BY <2>4, <3>1, <3>3 DEF SlotInv, Unstaking, Settling, Free, UnstakeStates, At
      <4> QED
        BY <2>1, <3>1, <4>1 DEF SlotInv, At, Free, InFlight, Creating, RowShape
    <3> QED
      BY <3>2, <3>3
  <2> QED
    BY <2>1, <2>5, <2>6, <2>7, DoneRequests DEF IInv, RequestInv
<1> QED
  BY <1>1, <1>2

(* The separation of the two writers of a row.  A settlement that is in    *)
(* flight while an unstake of the same position is in flight would have    *)
(* seen the cooldown end before the unstake was too old to exist.          *)
LEMMA NoSettleWhileUnstaking ==
    ASSUME IInv, NEW r \in Requests, NEW t \in Requests,
           request[r].pc \in UnstakeStates, At(t, "settle")
    PROVE  request[r].pda # request[t].pda
<1> SUFFICES ASSUME request[r].pda = request[t].pda PROVE FALSE
  OBVIOUS
<1>1. ~Free(r) /\ ~Free(t)
  BY DEF Free, At, UnstakeStates
<1>2. PICK p \in Pdas : p = request[r].pda /\ p = request[t].pda
  BY <1>1, BusySlot
<1>3. Unstaking(request[r]) /\ Settling(request[t])
  BY DEF IInv, RequestInv, SlotInv
<1>4. Phase(p) = "cooling"
  BY <1>2, <1>3 DEF Unstaking, Settling
<1>5. position[p].cooldownEnd \in Nat
  BY <1>4 DEF Phase, Exists, IInv, RowInv, RowShape
<1>6. /\ request[r].now + CooldownPeriod <= position[p].cooldownEnd + RequestLifetime
      /\ position[p].cooldownEnd <= request[t].now
  BY <1>2, <1>3, <1>4 DEF Unstaking, Settling
<1>7. /\ request[t].now <= clock /\ clock <= request[r].now + RequestLifetime
      /\ request[t].now \in Nat /\ request[r].now \in Nat /\ clock \in Nat
  BY <1>1, BusySlot
<1> QED
  BY <1>5, <1>6, <1>7, PeriodAssumption

(* Moving slot r to its next statement changes nothing else of it. *)
LEMMA GotoRequests ==
    ASSUME NEW r \in Requests, NEW s \in UnstakeStates, IInv, ~Free(r), Goto(r, s)
    PROVE  /\ request' \in [Requests -> Request]
           /\ request'[r] = [request[r] EXCEPT !.pc = s]
           /\ request'[r].pc = s /\ request'[r].pda = request[r].pda
           /\ request'[r].now = request[r].now /\ request'[r].row = request[r].row
           /\ \A t \in Requests \ {r} : request'[t] = request[t]
  BY BusySlot DEF IInv, TypeOK, Goto, Request

LEMMA UnstakePenaltyInv ==
    ASSUME NEW r \in Requests, IInv, UnstakePenalty(r)
    PROVE  IInv'
<1>0. PICK p \in Pdas : p = request[r].pda
  BY BusySlot DEF UnstakePenalty, At, Free
<1> DEFINE fine == PenaltyOf(request[r].row)
           audit == [penaltyAmount |-> fine, toRewardPool |-> PenaltyHalf(fine),
                     toProtocol |-> PenaltyHalf(fine)]
<1>1. /\ At(r, "penalty") /\ ~Free(r) /\ Goto(r, "credit") /\ "credit" \in UnstakeStates
      /\ UNCHANGED <<clock, position, pool, paidOut, aborts>>
      /\ penaltyTx' = [penaltyTx EXCEPT ![p] = Append(@, audit)]
      /\ Unstaking(request[r]) /\ InFlight(request[r])
  BY <1>0 DEF UnstakePenalty, At, Free, UnstakeStates, IInv, RequestInv, SlotInv
<1>2. audit \in PenaltyRow
  BY <1>1, BusySlot, OwedIsNat DEF PenaltyRow
<1>3. /\ penaltyTx[p] \in Seq(PenaltyRow)
      /\ penaltyTx'[p] = Append(penaltyTx[p], audit)
      /\ \A q \in Pdas \ {p} : penaltyTx'[q] = penaltyTx[q]
      /\ penaltyTx' \in [Pdas -> Seq(PenaltyRow)]
  BY <1>1, <1>2 DEF IInv, TypeOK
<1>4. PICK n : n = fine
  OBVIOUS
<1>5. HasPenalty(p, n)'
  <2>1. Len(penaltyTx'[p]) \in 1..Len(penaltyTx'[p])
    BY <1>2, <1>3
  <2>2. penaltyTx'[p][Len(penaltyTx'[p])] = audit
    BY <1>2, <1>3
  <2> QED
    BY <2>1, <2>2, <1>4 DEF HasPenalty
<1>6. \A q \in Pdas : \A m : HasPenalty(q, m) => HasPenalty(q, m)'
  <2>1. \A i \in 1..Len(penaltyTx[p]) :
            i \in 1..Len(penaltyTx'[p]) /\ penaltyTx'[p][i] = penaltyTx[p][i]
    BY <1>2, <1>3
  <2>2. \A m : HasPenalty(p, m) => HasPenalty(p, m)'
    BY <2>1 DEF HasPenalty
  <2>3. \A q \in Pdas \ {p} : \A m : HasPenalty(q, m) => HasPenalty(q, m)'
    BY <1>3 DEF HasPenalty
  <2> QED
    BY <2>2, <2>3
<1>7. \A q \in Pdas : Phase(q)' = Phase(q) /\ position'[q] = position[q]
  BY <1>1 DEF Phase, Exists
<1>8. TypeOK'
  BY <1>1, <1>3, GotoRequests DEF IInv, TypeOK
<1>9. RowInv' /\ ReportedIsSettled'
  BY <1>1, <1>7 DEF IInv, RowInv, RowShape, Exists, ReportedIsSettled
<1>10. WithheldIsRecorded'
  BY <1>6, <1>7 DEF IInv, WithheldIsRecorded, HasPenalty
<1>11. ASSUME NEW t \in Requests \ {r} PROVE SlotInv(t)'
  BY <1>1, <1>6, <1>7, GotoRequests, SameSlot
<1>12. SlotInv(r)'
  <2>1. InFlight(request[r])'
    BY <1>1, GotoRequests DEF InFlight
  <2>2. Unstaking(request[r])'
    BY <1>0, <1>1, <1>4, <1>5, <1>7, GotoRequests
       DEF Unstaking, SameDeposit, IsEarly, PenaltyOf
  <2> QED
    BY <2>1, <2>2, <1>1, GotoRequests DEF SlotInv, At
<1> QED
  BY <1>8, <1>9, <1>10, <1>11, <1>12 DEF IInv, RequestInv

LEMMA UnstakeCreditInv ==
    ASSUME NEW r \in Requests, IInv, UnstakeCredit(r)
    PROVE  IInv'
<1>0. PICK p \in Pdas : p = request[r].pda
  BY BusySlot DEF UnstakeCredit, At, Free
<1>1. /\ At(r, "credit") /\ ~Free(r) /\ Goto(r, "write") /\ "write" \in UnstakeStates
      /\ UNCHANGED <<clock, position, penaltyTx, paidOut, aborts>>
      /\ Unstaking(request[r]) /\ InFlight(request[r])
  BY <1>0 DEF UnstakeCredit, At, Free, UnstakeStates, IInv, RequestInv, SlotInv
<1>2. pool' \in Nat \union {Null}
  <2>1. PenaltyHalf(PenaltyOf(request[r].row)) \in Nat
    BY <1>1, BusySlot, OwedIsNat
  <2> DEFINE half == PenaltyHalf(PenaltyOf(request[r].row))
  <2>2. pool' = IF pool = Null THEN Null ELSE pool + half
    BY DEF UnstakeCredit, Credited
  <2> HIDE DEF half
  <2>3. pool \in Nat \union {Null}
    BY DEF IInv, TypeOK
  <2> QED
    BY <2>1, <2>2, <2>3 DEF half
<1>3. TypeOK'
  BY <1>1, <1>2, GotoRequests DEF IInv, TypeOK
<1>4. ASSUME NEW t \in Requests \ {r} PROVE SlotInv(t)'
  BY <1>1, SameRows, GotoRequests, SameSlot
<1>5. SlotInv(r)'
  <2>1. InFlight(request[r])'
    BY <1>1, GotoRequests DEF InFlight
  <2>2. Unstaking(request[r])'
    BY <1>0, <1>1, SameRows, GotoRequests
       DEF Unstaking, SameDeposit, IsEarly, PenaltyOf, At
  <2> QED
    BY <2>1, <2>2, <1>1, GotoRequests DEF SlotInv, At
<1> QED
  BY <1>1, <1>3, <1>4, <1>5, SameRows DEF IInv, RequestInv

(* The write of unstakeTokens finds the position active or in cooldown and *)
(* leaves it in cooldown, with the end that every unstake in flight needs. *)
LEMMA UnstakeWriteEffect ==
    ASSUME NEW r \in Requests, IInv, UnstakeWrite(r),
           NEW p \in Pdas, p = request[r].pda
    PROVE  /\ position' \in [Pdas -> PositionRow \union {Null}]
           /\ Exists(p) /\ position[p] \in PositionRow /\ position'[p] \in PositionRow
           /\ position'[p] = [position[p] EXCEPT
                  !.cooldownEnd = request[r].now + CooldownPeriod,
                  !.pendingPrincipal = Owed(request[r].row, request[r].now),
                  !.isActive = FALSE]
           /\ \A q \in Pdas \ {p} : position'[q] = position[q] /\ Phase(q)' = Phase(q)
           /\ Phase(p) \in {"active", "cooling"} /\ Phase(p)' = "cooling"
           /\ position'[p].cooldownEnd + RequestLifetime >= clock + CooldownPeriod
           /\ RowShape(position'[p])
<1> DEFINE q == request[r]
<1>1. /\ At(r, "write") /\ ~Free(r) /\ q.pc \in UnstakeStates /\ Unstaking(q)
      /\ q.now \in Nat /\ q.row \in PositionRow /\ clock <= q.now + RequestLifetime
      /\ clock \in Nat
  BY BusySlot DEF UnstakeWrite, At, Free, UnstakeStates, IInv, RequestInv, SlotInv
<1>2. /\ Exists(p) /\ Phase(p) \in {"active", "cooling"} /\ position[p] \in PositionRow
  BY <1>1 DEF Unstaking, Phase, Exists, IInv, TypeOK
<1> DEFINE row == [position[p] EXCEPT
                      !.cooldownEnd = q.now + CooldownPeriod,
                      !.pendingPrincipal = Owed(q.row, q.now),
                      !.isActive = FALSE]
<1>3. position' = [position EXCEPT ![p] = row]
  BY DEF UnstakeWrite, CooldownFrom, IInv, TypeOK
<1>4. /\ q.now + CooldownPeriod \in Nat /\ q.now + CooldownPeriod > 0
      /\ q.now + CooldownPeriod + RequestLifetime >= clock + CooldownPeriod
  BY <1>1, PeriodAssumption
<1>5. /\ row \in PositionRow /\ row.cooldownEnd = q.now + CooldownPeriod
      /\ row.pendingPrincipal \in Nat /\ ~row.isActive
  BY <1>1, <1>2, <1>4, OwedIsNat DEF PositionRow
<1>6. /\ position'[p] = row
      /\ \A x \in Pdas \ {p} : position'[x] = position[x]
      /\ position' \in [Pdas -> PositionRow \union {Null}]
  BY <1>3, <1>5 DEF IInv, TypeOK
<1>7. \A x \in Pdas \ {p} : Phase(x)' = Phase(x)
  BY <1>6 DEF Phase, Exists
<1>8. Phase(p)' = "cooling"
  BY <1>4, <1>5, <1>6, NullNotRow, NullAssumption DEF Phase, Exists
<1> HIDE DEF row
<1>9. RowShape(row)
  BY <1>4, <1>5 DEF RowShape
<1> QED
  BY <1>2, <1>4, <1>5, <1>6, <1>7, <1>8, <1>9 DEF row

LEMMA UnstakeWriteInv ==
    ASSUME NEW r \in Requests, IInv, UnstakeWrite(r)
    PROVE  IInv'
<1>0. PICK p \in Pdas : p = request[r].pda
  BY BusySlot DEF UnstakeWrite, At, Free
<1> DEFINE q == request[r]
<1>1. /\ At(r, "write") /\ ~Free(r) /\ Done(r) /\ Unstaking(q)
      /\ q.now \in Nat /\ q.row \in PositionRow
      /\ UNCHANGED <<clock, penaltyTx, pool, paidOut, aborts>>
  BY BusySlot DEF UnstakeWrite, At, Free, UnstakeStates, IInv, RequestInv, SlotInv
<1>2. /\ position' \in [Pdas -> PositionRow \union {Null}]
      /\ position[p] \in PositionRow /\ Exists(p) /\ position'[p] \in PositionRow
      /\ \A x \in Pdas \ {p} : position'[x] = position[x] /\ Phase(x)' = Phase(x)
      /\ Phase(p) \in {"active", "cooling"} /\ Phase(p)' = "cooling"
      /\ position'[p].cooldownEnd + RequestLifetime >= clock + CooldownPeriod
      /\ position'[p].pendingPrincipal = Owed(q.row, q.now)
      /\ position'[p].cooldownEnd \in Nat
      /\ SameDeposit(position'[p], position[p])
      /\ RowShape(position'[p])
  <2>1. /\ position'[p] = [position[p] EXCEPT
                  !.cooldownEnd = q.now + CooldownPeriod,
                  !.pendingPrincipal = Owed(q.row, q.now),
                  !.isActive = FALSE]
        /\ position[p] \in PositionRow
    BY <1>0, UnstakeWriteEffect
  <2>2. position'[p].pendingPrincipal = Owed(q.row, q.now)
        /\ SameDeposit(position'[p], position[p])
    BY <2>1 DEF PositionRow, SameDeposit
  <2>3. position'[p].cooldownEnd \in Nat
    BY <1>1, <2>1, PeriodAssumption DEF PositionRow
  <2> QED
    BY <1>0, <2>2, <2>3, UnstakeWriteEffect
<1>3. TypeOK'
  BY <1>1, <1>2, DoneRequests DEF IInv, TypeOK
<1>4. RowInv'
  BY <1>2 DEF IInv, RowInv, Exists, RowShape
<1>5. WithheldIsRecorded'
  <2>1. \/ position'[p].pendingPrincipal = position'[p].amount
        \/ HasPenalty(p, position'[p].amount - position'[p].pendingPrincipal)
    <3>1. q.row.amount = position'[p].amount /\ q.row.amount \in Nat
      BY <1>0, <1>1, <1>2 DEF Unstaking, SameDeposit, PositionRow
    <3>2. CASE ~IsEarly(q.row, q.now)
      BY <3>1, <3>2, <1>2 DEF Owed
    <3>3. CASE IsEarly(q.row, q.now)
      <4>1. HasPenalty(p, PenaltyOf(q.row))
        BY <1>0, <1>1, <3>3 DEF Unstaking, At
      <4>2. position'[p].pendingPrincipal = q.row.amount - PenaltyOf(q.row)
            /\ PenaltyOf(q.row) \in Nat
        BY <1>1, <1>2, <3>3, OwedIsNat
      <4>3. position'[p].amount - position'[p].pendingPrincipal = PenaltyOf(q.row)
        BY <3>1, <4>2
      <4> QED
        BY <4>1, <4>3
    <3> QED
      BY <3>2, <3>3
  <2> QED
    BY <1>1, <1>2, <2>1 DEF IInv, WithheldIsRecorded, HasPenalty
<1>6. ReportedIsSettled'
  BY <1>1, <1>2 DEF IInv, ReportedIsSettled
<1>7. ASSUME NEW t \in Requests \ {r} PROVE SlotInv(t)'
  <2>1. request'[t] = request[t] /\ SlotInv(t)
    BY <1>1, DoneRequests DEF IInv, RequestInv
  <2>2. CASE Free(t)
    BY <2>1, <2>2, FreeSlot DEF Free
  <2>3. CASE ~Free(t)
    <3>1. PICK x \in Pdas : x = request[t].pda
      BY <2>3, BusySlot
    <3>2. \A n : HasPenalty(x, n) => HasPenalty(x, n)'
      BY <1>1 DEF HasPenalty
    <3>3. CASE x # p
      BY <1>1, <1>2, <2>1, <3>1, <3>2, <3>3, SlotOnOwnRow
    <3>4. CASE x = p
      <4>1. InFlight(request[t])'
        BY <1>1, <2>1, <2>3 DEF SlotInv, InFlight
      <4>2. ~At(t, "settle")
        BY <1>1, <2>1, <2>3, <3>1, <3>4, <1>0, <1>2, NoSettleWhileUnstaking
           DEF At, UnstakeStates
      <4>3. request[t].now + CooldownPeriod <= position'[p].cooldownEnd + RequestLifetime
        BY <1>2, <2>3, BusySlot, PeriodAssumption
      <4>4. request[t].pc \in UnstakeStates => Unstaking(request[t])'
        BY <1>1, <1>2, <2>1, <3>1, <3>2, <3>4, <4>3
           DEF SlotInv, Unstaking, SameDeposit, IsEarly, PenaltyOf
      <4>5. At(t, "create") => Creating(request[t])'
        BY <2>1 DEF SlotInv, Creating, RowShape
      <4> QED
        BY <2>1, <4>1, <4>2, <4>4, <4>5 DEF SlotInv, At
    <3> QED
      BY <3>3, <3>4
  <2> QED
    BY <2>2, <2>3
<1> QED
  BY <1>1, <1>3, <1>4, <1>5, <1>6, <1>7, DoneRequests DEF IInv, RequestInv

(* The write of finalizeUnstake finds the position cooled down or settled  *)
(* already, and leaves it settled.                                         *)
LEMMA FinalizeWriteEffect ==
    ASSUME NEW r \in Requests, IInv, FinalizeWrite(r),
           NEW p \in Pdas, p = request[r].pda
    PROVE  /\ position' \in [Pdas -> PositionRow \union {Null}]
           /\ \A q \in Pdas \ {p} : position'[q] = position[q] /\ Phase(q)' = Phase(q)
           /\ Phase(p) \in {"cooling", "withdrawn"} /\ Phase(p)' = "withdrawn"
           /\ Phase(p) = "cooling" => position[p].cooldownEnd <= clock
           /\ Exists(p) /\ Exists(p)' /\ position'[p].amount = 0
           /\ RowShape(position'[p])
           /\ Phase(p) = "withdrawn" => position[p].amount = 0
           /\ request[r].row.pendingPrincipal \in Nat
<1> DEFINE q == request[r]
<1>1. /\ At(r, "settle") /\ ~Free(r) /\ Settling(q)
      /\ q.now \in Nat /\ q.now <= clock /\ clock \in Nat
  BY BusySlot DEF FinalizeWrite, At, Free, IInv, RequestInv, SlotInv
<1>2. /\ Exists(p) /\ position[p] \in PositionRow /\ ~position[p].isActive
      /\ Phase(p) \in {"cooling", "withdrawn"}
      /\ position[p].cooldownEnd \in Nat /\ position[p].pendingPrincipal \in Nat
      /\ Phase(p) = "cooling" => position[p].cooldownEnd <= q.now
      /\ Phase(p) = "withdrawn" => position[p].amount = 0
  BY <1>1, NullAssumption
     DEF Settling, Phase, Exists, IInv, TypeOK, RowInv, RowShape
<1> DEFINE row == [position[p] EXCEPT !.cooldownEnd = 0, !.pendingPrincipal = 0,
                                      !.amount = 0]
<1>3. position' = [position EXCEPT ![p] = row]
  BY DEF FinalizeWrite, IInv, TypeOK
<1>4. /\ row \in PositionRow /\ row.cooldownEnd = 0 /\ row.pendingPrincipal = 0
      /\ row.amount = 0 /\ ~row.isActive
  BY <1>2 DEF PositionRow
<1> HIDE DEF row
<1>5. /\ position'[p] = row
      /\ \A x \in Pdas \ {p} : position'[x] = position[x]
      /\ position' \in [Pdas -> PositionRow \union {Null}]
  BY <1>3, <1>4 DEF IInv, TypeOK
<1>6. \A x \in Pdas \ {p} : Phase(x)' = Phase(x)
  BY <1>5 DEF Phase, Exists
<1>7. Exists(p)' /\ Phase(p)' = "withdrawn"
  BY <1>4, <1>5, NullNotRow DEF Phase, Exists
<1>8. RowShape(row)
  BY <1>4 DEF RowShape
<1>9. Phase(p) = "cooling" => position[p].cooldownEnd <= clock
  BY <1>1, <1>2
<1> QED
  BY <1>1, <1>2, <1>4, <1>5, <1>6, <1>7, <1>8, <1>9 DEF Settling

LEMMA FinalizeWriteInv ==
    ASSUME NEW r \in Requests, IInv, FinalizeWrite(r)
    PROVE  IInv'
<1>0. PICK p \in Pdas : p = request[r].pda
  BY BusySlot DEF FinalizeWrite, At, Free
<1>1. /\ At(r, "settle") /\ ~Free(r) /\ Done(r)
      /\ UNCHANGED <<clock, penaltyTx, pool, aborts>>
  BY DEF FinalizeWrite, At, Free
<1>2. /\ position' \in [Pdas -> PositionRow \union {Null}]
      /\ \A x \in Pdas \ {p} : position'[x] = position[x] /\ Phase(x)' = Phase(x)
      /\ Phase(p) \in {"cooling", "withdrawn"} /\ Phase(p)' = "withdrawn"
      /\ RowShape(position'[p])
      /\ request[r].row.pendingPrincipal \in Nat
  BY <1>0, FinalizeWriteEffect
<1>3. /\ paidOut' \in [Pdas -> Nat]
      /\ \A x \in Pdas \ {p} : paidOut'[x] = paidOut[x]
  BY <1>0, <1>2 DEF FinalizeWrite, IInv, TypeOK
<1>4. TypeOK'
  BY <1>1, <1>2, <1>3, DoneRequests DEF IInv, TypeOK
<1>5. RowInv'
  BY <1>2 DEF IInv, RowInv, Exists, RowShape
<1>6. WithheldIsRecorded'
  BY <1>1, <1>2 DEF IInv, WithheldIsRecorded
<1>7. ReportedIsSettled'
  BY <1>2, <1>3 DEF IInv, ReportedIsSettled
<1>8. ASSUME NEW t \in Requests \ {r} PROVE SlotInv(t)'
  <2>1. request'[t] = request[t] /\ SlotInv(t)
    BY <1>1, DoneRequests DEF IInv, RequestInv
  <2>2. CASE Free(t)
    BY <2>1, <2>2, FreeSlot DEF Free
  <2>3. CASE ~Free(t)
    <3>1. PICK x \in Pdas : x = request[t].pda
      BY <2>3, BusySlot
    <3>2. \A n : HasPenalty(x, n) => HasPenalty(x, n)'
      BY <1>1 DEF HasPenalty
    <3>3. CASE x # p
      BY <1>1, <1>2, <2>1, <3>1, <3>2, <3>3, SlotOnOwnRow
    <3>4. CASE x = p
      <4>1. InFlight(request[t])'
        BY <1>1, <2>1, <2>3 DEF SlotInv, InFlight
      <4>2. request[t].pc \notin UnstakeStates
        BY <1>0, <1>1, <3>1, <3>4, NoSettleWhileUnstaking
      <4>3. At(t, "settle") => Settling(request[t])'
        BY <1>2, <2>1, <3>1, <3>4 DEF SlotInv, Settling
      <4>4. At(t, "create") => Creating(request[t])'
        BY <2>1 DEF SlotInv, Creating, RowShape
      <4> QED
        BY <2>1, <4>1, <4>2, <4>3, <4>4 DEF SlotInv, At
    <3> QED
      BY <3>3, <3>4
  <2> QED
    BY <2>2, <2>3
<1> QED
  BY <1>1, <1>4, <1>5, <1>6, <1>7, <1>8, DoneRequests DEF IInv, RequestInv

(***************************************************************************)
(* The steps of the job and of the environment                             *)
(***************************************************************************)

(* The query of the finalizer asks for active rows with an end of cooldown *)
(* and a pending principal: the invariant says that an active row has      *)
(* neither.                                                                *)
LEMMA SelectedIsEmpty == ASSUME IInv PROVE Selected = {}
  BY DEF IInv, RowInv, RowShape, Selected

LEMMA FinalizerRunInv ==
    ASSUME IInv, FinalizerRun
    PROVE  IInv' /\ UNCHANGED vars
<1>1. position' = position
  BY SelectedIsEmpty DEF FinalizerRun, IInv, TypeOK
<1>2. UNCHANGED vars
  BY <1>1 DEF FinalizerRun, vars
<1> QED
  BY <1>2, StutterInv

LEMMA AbortInv ==
    ASSUME NEW r \in Requests, IInv, Abort(r)
    PROVE  IInv'
<1>1. Done(r) /\ UNCHANGED <<clock, position, penaltyTx, pool, paidOut>>
      /\ aborts' = aborts + 1
  BY DEF Abort
<1>2. TypeOK'
  BY <1>1, DoneRequests DEF IInv, TypeOK
<1>3. ASSUME NEW t \in Requests PROVE SlotInv(t)'
  <2>1. CASE t = r
    BY <2>1, <1>1, DoneRequests
  <2>2. CASE t # r
    BY <2>2, <1>1, DoneRequests, SameRows, SameSlot
  <2> QED
    BY <2>1, <2>2
<1> QED
  BY <1>1, <1>2, <1>3, SameRows DEF IInv, RequestInv

(* Time passes: the guard keeps every request within its lifetime. *)
LEMMA TickInv == ASSUME IInv, Tick PROVE IInv'
<1>1. /\ UNCHANGED <<position, penaltyTx, pool, request, paidOut, aborts>>
      /\ clock' = clock + 1 /\ clock \in Nat /\ clock' \in Nat
  BY DEF Tick, IInv, TypeOK
<1>2. TypeOK'
  BY <1>1 DEF IInv, TypeOK
<1>3. ASSUME NEW r \in Requests PROVE SlotInv(r)'
  <2>1. SlotInv(r) /\ request'[r] = request[r]
    BY <1>1 DEF IInv, RequestInv
  <2>2. ~Free(r) => InFlight(request[r])'
    <3> SUFFICES ASSUME ~Free(r) PROVE InFlight(request[r])'
      OBVIOUS
    <3>1. InFlight(request[r]) /\ clock < request[r].now + RequestLifetime
          /\ request[r].now \in Nat
      BY <2>1, BusySlot DEF SlotInv, Tick
    <3> QED
      BY <1>1, <3>1, PeriodAssumption DEF InFlight
  <2>3. At(r, "create") => Creating(request[r])'
    BY <2>1, <1>1 DEF SlotInv, Creating, RowShape
  <2>4. request[r].pc \in UnstakeStates => Unstaking(request[r])'
    BY <1>1, <2>1 DEF SlotInv, Unstaking, SameDeposit, IsEarly, PenaltyOf, Phase,
                      Exists, HasPenalty
  <2>5. At(r, "settle") => Settling(request[r])'
    BY <1>1, <2>1 DEF SlotInv, Settling, Phase, Exists
  <2> QED
    BY <2>1, <2>2, <2>3, <2>4, <2>5 DEF SlotInv, Free, At
<1> QED
  BY <1>1, <1>2, <1>3, SameRows DEF IInv, RequestInv

(***************************************************************************)
(* Safety theorems                                                         *)
(***************************************************************************)

LEMMA NextInv == ASSUME IInv, [Next]_vars PROVE IInv'
<1>1. ASSUME NEW r \in Requests, Arrive(r) PROVE IInv'
  BY <1>1, StakeReadInv, UnstakeReadInv, FinalizeReadInv DEF Arrive
<1>2. ASSUME NEW r \in Requests, Continue(r) PROVE IInv'
  BY <1>2, StakeCreateInv, UnstakePenaltyInv, UnstakeCreditInv, UnstakeWriteInv,
     FinalizeWriteInv DEF Continue
<1> QED
  BY <1>1, <1>2, AbortInv, FinalizerRunInv, TickInv, StutterInv DEF Next

(* The invariant holds in every reachable state of staking.service.ts and  *)
(* the finalizer, for every number of replicas, positions and crashes.     *)
THEOREM InductiveInvariant == Spec => []IInv
<1>1. Init => IInv
  BY InitIInv
<1>2. IInv /\ [Next]_vars => IInv'
  BY NextInv
<1> QED
  BY <1>1, <1>2, PTL DEF Spec

(* Every row, audit row and request that the staking handlers leave behind *)
(* is well formed; in particular no pending principal is ever negative.    *)
THEOREM TypeCorrect == Spec => []TypeOK
<1>1. IInv => TypeOK
  BY DEF IInv
<1> QED
  BY <1>1, InductiveInvariant, PTL

(* However unstakes of a position overlap, what is withheld from the staker *)
(* is the amount of a recorded penalty.                                     *)
THEOREM WithholdingIsRecorded == Spec => []WithheldIsRecorded
<1>1. IInv => WithheldIsRecorded
  BY DEF IInv
<1> QED
  BY <1>1, InductiveInvariant, PTL

(* A reported payout is that of a settled position. *)
THEOREM ReportsAreSettled == Spec => []ReportedIsSettled
<1>1. IInv => ReportedIsSettled
  BY DEF IInv
<1> QED
  BY <1>1, InductiveInvariant, PTL

(* The query of the hourly finalizer (cooldown-finalizer.processor.ts:24)  *)
(* selects no row in any reachable state: unstakeTokens clears isActive in *)
(* the same update that sets the end of the cooldown.                      *)
THEOREM FinalizerSelectsNothing == Spec => [](Selected = {})
<1>1. IInv => Selected = {}
  BY SelectedIsEmpty
<1> QED
  BY <1>1, InductiveInvariant, PTL

(***************************************************************************)
(* Each step, seen from one position                                       *)
(***************************************************************************)

(* Rows are changed by three statements only. *)
LEMMA RowWriters ==
    ASSUME IInv, [Next]_vars, position' # position
    PROVE  \E r \in Requests : StakeCreate(r) \/ UnstakeWrite(r) \/ FinalizeWrite(r)
<1>1. ASSUME NEW r \in Requests, Arrive(r) PROVE position' = position
  BY <1>1 DEF Arrive, StakeRead, UnstakeRead, FinalizeRead
<1>2. ASSUME NEW r \in Requests, UnstakePenalty(r) \/ UnstakeCredit(r) \/ Abort(r)
      PROVE  position' = position
  BY <1>2 DEF UnstakePenalty, UnstakeCredit, Abort
<1>3. FinalizerRun => position' = position
  BY FinalizerRunInv DEF vars
<1>4. Tick \/ UNCHANGED vars => position' = position
  BY DEF Tick, vars
<1> QED
  BY <1>1, <1>2, <1>3, <1>4 DEF Next, Continue

(* A create opens a position at an address without one, or does nothing. *)
LEMMA StakeCreateEffect ==
    ASSUME NEW r \in Requests, IInv, StakeCreate(r), position' # position,
           NEW p \in Pdas, p = request[r].pda
    PROVE  /\ \A q \in Pdas \ {p} : position'[q] = position[q] /\ Phase(q)' = Phase(q)
           /\ Phase(p) = "none" /\ Phase(p)' = "active"
           /\ Exists(p)' /\ position'[p].amount \in Amounts
           /\ position' \in [Pdas -> PositionRow \union {Null}]
<1>1. /\ ~Exists(p) /\ position' = [position EXCEPT ![p] = request[r].row]
      /\ At(r, "create") /\ ~Free(r)
  BY DEF StakeCreate, At, Free
<1>2. request[r].row \in PositionRow /\ Creating(request[r])
  BY <1>1, BusySlot DEF IInv, RequestInv, SlotInv
<1>3. /\ position'[p] = request[r].row /\ request[r].row # Null
      /\ \A q \in Pdas \ {p} : position'[q] = position[q]
      /\ position' \in [Pdas -> PositionRow \union {Null}]
  BY <1>1, <1>2, NullNotRow DEF IInv, TypeOK
<1>4. Phase(p) = "none"
  BY <1>1 DEF Phase
<1>5. Phase(p)' = "active" /\ Exists(p)' /\ position'[p].amount \in Amounts
  BY <1>2, <1>3 DEF Phase, Exists, Creating
<1> QED
  BY <1>3, <1>4, <1>5 DEF Phase, Exists

LEMMA FullCooldownStep ==
    ASSUME IInv, [Next]_vars, NEW p \in Pdas,
           Phase(p)' = "cooling", position'[p] # position[p]
    PROVE  position'[p].cooldownEnd + RequestLifetime >= clock + CooldownPeriod
<1>1. PICK r \in Requests : StakeCreate(r) \/ UnstakeWrite(r) \/ FinalizeWrite(r)
  BY RowWriters
<1>2. PICK x \in Pdas : x = request[r].pda
  BY <1>1, BusySlot DEF StakeCreate, UnstakeWrite, FinalizeWrite, At, Free
<1>3. CASE StakeCreate(r)
  BY <1>2, <1>3, StakeCreateEffect
<1>4. CASE UnstakeWrite(r)
  BY <1>2, <1>4, UnstakeWriteEffect
<1>5. CASE FinalizeWrite(r)
  BY <1>2, <1>5, FinalizeWriteEffect
<1> QED
  BY <1>1, <1>3, <1>4, <1>5

(* Whenever a cooldown is started or written again, its end is a whole     *)
(* cooldown away, less the age a request can reach.                        *)
THEOREM CooldownIsFull == Spec => FullCooldown
<1>1. IInv /\ [Next]_vars =>
        [\A p \in Pdas :
           Phase(p)' = "cooling" /\ position'[p] # position[p] =>
               position'[p].cooldownEnd + RequestLifetime
                   >= clock + CooldownPeriod]_vars
  BY FullCooldownStep
<1> QED
  BY <1>1, InductiveInvariant, PTL DEF Spec, FullCooldown

LEMMA NoEarlyWithdrawalStep ==
    ASSUME IInv, [Next]_vars, NEW p \in Pdas,
           Phase(p) = "cooling", Phase(p)' = "withdrawn"
    PROVE  clock >= position[p].cooldownEnd
<1>0. position' # position
  BY DEF Phase, Exists
<1>1. PICK r \in Requests : StakeCreate(r) \/ UnstakeWrite(r) \/ FinalizeWrite(r)
  BY <1>0, RowWriters
<1>2. PICK x \in Pdas : x = request[r].pda
  BY <1>1, BusySlot DEF StakeCreate, UnstakeWrite, FinalizeWrite, At, Free
<1>3. CASE StakeCreate(r)
  BY <1>0, <1>2, <1>3, StakeCreateEffect
<1>4. CASE UnstakeWrite(r)
  BY <1>2, <1>4, UnstakeWriteEffect
<1>5. CASE FinalizeWrite(r)
  <2>1. p = x
    BY <1>2, <1>5, FinalizeWriteEffect
  <2>2. position[p].cooldownEnd <= clock
    BY <1>2, <1>5, <2>1, FinalizeWriteEffect
  <2>3. position[p].cooldownEnd \in Nat /\ clock \in Nat
    BY DEF Phase, Exists, IInv, TypeOK, RowInv, RowShape
  <2> QED
    BY <2>2, <2>3
<1> QED
  BY <1>1, <1>3, <1>4, <1>5

(* No interleaving settles a position before its cooldown has ended. *)
THEOREM WithdrawalIsCooled == Spec => NoEarlyWithdrawal
<1>1. IInv /\ [Next]_vars =>
        [\A p \in Pdas :
           Phase(p) = "cooling" /\ Phase(p)' = "withdrawn" =>
               clock >= position[p].cooldownEnd]_vars
  BY NoEarlyWithdrawalStep
<1> QED
  BY <1>1, InductiveInvariant, PTL DEF Spec, NoEarlyWithdrawal

(* Only the penalty statement of an unstake writes to the audit table, and *)
(* it stands where the invariant says.                                     *)
LEMMA PenaltyWriter ==
    ASSUME IInv, [Next]_vars, NEW p \in Pdas, penaltyTx'[p] # penaltyTx[p]
    PROVE  \E r \in Requests :
               /\ At(r, "penalty") /\ request[r].pda = p
               /\ Unstaking(request[r])
               /\ request[r].now \in Nat /\ clock \in Nat
               /\ clock <= request[r].now + RequestLifetime
<1>1. PICK r \in Requests : UnstakePenalty(r)
  <2>1. ASSUME NEW r \in Requests, Arrive(r) PROVE penaltyTx' = penaltyTx
    BY <2>1 DEF Arrive, StakeRead, UnstakeRead, FinalizeRead
  <2>2. ASSUME NEW r \in Requests,
               StakeCreate(r) \/ UnstakeCredit(r) \/ UnstakeWrite(r)
                   \/ FinalizeWrite(r) \/ Abort(r)
        PROVE  penaltyTx' = penaltyTx
    BY <2>2 DEF StakeCreate, UnstakeCredit, UnstakeWrite, FinalizeWrite, Abort
  <2>3. FinalizerRun \/ Tick \/ UNCHANGED vars => penaltyTx' = penaltyTx
    BY DEF FinalizerRun, Tick, vars
  <2> QED
    BY <2>1, <2>2, <2>3 DEF Next, Continue
<1>2. /\ At(r, "penalty") /\ ~Free(r) /\ request[r].pc \in UnstakeStates
      /\ Unstaking(request[r])
  BY <1>1 DEF UnstakePenalty, At, Free, UnstakeStates, IInv, RequestInv, SlotInv
<1>3. PICK x \in Pdas : x = request[r].pda
  BY <1>2, BusySlot
<1>4. p = x
  BY <1>1, <1>3 DEF UnstakePenalty, IInv, TypeOK
<1> QED
  BY <1>2, <1>3, <1>4, BusySlot

LEMMA PenaltyWhileLockedStep ==
    ASSUME IInv, [Next]_vars, NEW p \in Pdas, penaltyTx'[p] # penaltyTx[p]
    PROVE  clock < position[p].unlockTs + RequestLifetime
<1>1. PICK r \in Requests :
          /\ At(r, "penalty") /\ request[r].pda = p
          /\ Unstaking(request[r])
          /\ request[r].now \in Nat /\ clock \in Nat
          /\ clock <= request[r].now + RequestLifetime
  BY PenaltyWriter
<1>2. /\ request[r].now < position[p].unlockTs
      /\ position[p] \in PositionRow
  BY <1>1 DEF Unstaking, IsEarly, SameDeposit, At, Phase, Exists, IInv, TypeOK
<1>3. position[p].unlockTs \in Nat
  BY <1>2 DEF PositionRow
<1> QED
  BY <1>1, <1>2, <1>3, PeriodAssumption

(* No position pays an early-unstake penalty once its lock has been over   *)
(* for the lifetime of a request.                                          *)
THEOREM PenaltyIsEarly == Spec => PenaltyOnlyWhileLocked
<1>1. IInv /\ [Next]_vars =>
        [\A p \in Pdas : penaltyTx'[p] # penaltyTx[p] =>
             clock < position[p].unlockTs + RequestLifetime]_vars
  BY PenaltyWhileLockedStep
<1> QED
  BY <1>1, InductiveInvariant, PTL DEF Spec, PenaltyOnlyWhileLocked

LEMMA ChargesEndStep ==
    ASSUME IInv, [Next]_vars, NEW p \in Pdas, penaltyTx'[p] # penaltyTx[p],
           Phase(p) # "active"
    PROVE  /\ Phase(p) = "cooling"
           /\ clock + CooldownPeriod
                  <= position[p].cooldownEnd + 2 * RequestLifetime
<1>1. PICK r \in Requests :
          /\ At(r, "penalty") /\ request[r].pda = p
          /\ Unstaking(request[r])
          /\ request[r].now \in Nat /\ clock \in Nat
          /\ clock <= request[r].now + RequestLifetime
  BY PenaltyWriter
<1>2. Phase(p) = "cooling"
  BY <1>1 DEF Unstaking
<1>3. request[r].now + CooldownPeriod <= position[p].cooldownEnd + RequestLifetime
  BY <1>1, <1>2 DEF Unstaking
<1>4. position[p].cooldownEnd \in Nat
  BY <1>2 DEF Phase, Exists, IInv, RowInv, RowShape
<1> QED
  BY <1>1, <1>2, <1>3, <1>4, PeriodAssumption

(* Unstakes that overlap may charge a position several times, but once its *)
(* cooldown has run for two lifetimes of a request none charges it again.  *)
THEOREM ChargesEnd == Spec => ChargesEndWithOverlap
<1>1. IInv /\ [Next]_vars =>
        [\A p \in Pdas :
            (penaltyTx'[p] # penaltyTx[p] /\ Phase(p) # "active") =>
                /\ Phase(p) = "cooling"
                /\ clock + CooldownPeriod
                       <= position[p].cooldownEnd + 2 * RequestLifetime]_vars
  BY ChargesEndStep
<1> QED
  BY <1>1, InductiveInvariant, PTL DEF Spec, ChargesEndWithOverlap

(***************************************************************************)
(* The rows implement the life of a position                               *)
(***************************************************************************)

LEMMA RefinesInit == Init => Lifecycle!Init
  BY DEF Init, Lifecycle!Init, Phase, Principal, Exists

(* Nothing but position matters to the abstract state. *)
LEMMA RefinesSameRows ==
    ASSUME position' = position
    PROVE  UNCHANGED Lifecycle!lifecycleVars
  BY DEF Lifecycle!lifecycleVars, Phase, Principal, Exists

LEMMA RefinesCreate ==
    ASSUME NEW r \in Requests, IInv, StakeCreate(r), position' # position
    PROVE  Lifecycle!Next
<1>1. PICK p \in Pdas : p = request[r].pda
  BY BusySlot DEF StakeCreate, At, Free
<1>2. /\ \A q \in Pdas \ {p} : position'[q] = position[q] /\ Phase(q)' = Phase(q)
      /\ Phase(p) = "none" /\ Phase(p)' = "active"
      /\ Exists(p)' /\ position'[p].amount \in Amounts
  BY <1>1, StakeCreateEffect
<1>3. \A q \in Pdas \ {p} : Principal(q)' = Principal(q)
  BY <1>2 DEF Principal, Exists
<1>4. PICK a \in Amounts : a = Principal(p)'
  BY <1>2 DEF Principal
<1>5. Lifecycle!Open(p, a)
  BY <1>2, <1>3, <1>4 DEF Lifecycle!Open
<1> QED
  BY <1>5 DEF Lifecycle!Next

LEMMA RefinesUnstake ==
    ASSUME NEW r \in Requests, IInv, UnstakeWrite(r)
    PROVE  [Lifecycle!Next]_Lifecycle!lifecycleVars
<1>1. PICK p \in Pdas : p = request[r].pda
  BY BusySlot DEF UnstakeWrite, At, Free
<1>2. /\ Exists(p) /\ position[p] \in PositionRow
      /\ position'[p] = [position[p] EXCEPT
                  !.cooldownEnd = request[r].now + CooldownPeriod,
                  !.pendingPrincipal = Owed(request[r].row, request[r].now),
                  !.isActive = FALSE]
      /\ \A q \in Pdas \ {p} : position'[q] = position[q] /\ Phase(q)' = Phase(q)
      /\ Phase(p) \in {"active", "cooling"} /\ Phase(p)' = "cooling"
  BY <1>1, UnstakeWriteEffect
<1>3. Principal(p)' = Principal(p)
  <2>1. position'[p] # Null
    BY <1>2 DEF Phase, Exists
  <2>2. position'[p].amount = position[p].amount
    BY <1>2 DEF PositionRow
  <2> QED
    BY <1>2, <2>1, <2>2 DEF Principal, Exists
<1>4. \A q \in Pdas : Principal(q)' = Principal(q)
  BY <1>2, <1>3 DEF Principal, Exists
<1>5. CASE Phase(p) = "active"
  <2>1. Lifecycle!Unstake(p)
    BY <1>2, <1>4, <1>5 DEF Lifecycle!Unstake
  <2> QED
    BY <2>1 DEF Lifecycle!Next
<1>6. CASE Phase(p) = "cooling"
  BY <1>2, <1>4, <1>6 DEF Lifecycle!lifecycleVars
<1> QED
  BY <1>2, <1>5, <1>6

LEMMA RefinesFinalize ==
    ASSUME NEW r \in Requests, IInv, FinalizeWrite(r)
    PROVE  [Lifecycle!Next]_Lifecycle!lifecycleVars
<1>1. PICK p \in Pdas : p = request[r].pda
  BY BusySlot DEF FinalizeWrite, At, Free
<1>2. /\ \A q \in Pdas \ {p} : position'[q] = position[q] /\ Phase(q)' = Phase(q)
      /\ Phase(p) \in {"cooling", "withdrawn"} /\ Phase(p)' = "withdrawn"
      /\ Exists(p) /\ Exists(p)' /\ position'[p].amount = 0
      /\ Phase(p) = "withdrawn" => position[p].amount = 0
  BY <1>1, FinalizeWriteEffect
<1>3. /\ \A q \in Pdas \ {p} : Principal(q)' = Principal(q)
      /\ Principal(p)' = 0
      /\ Phase(p) = "withdrawn" => Principal(p) = 0
  BY <1>2 DEF Principal, Exists
<1>4. CASE Phase(p) = "cooling"
  <2>1. Lifecycle!Withdraw(p)
    BY <1>2, <1>3, <1>4 DEF Lifecycle!Withdraw
  <2> QED
    BY <2>1 DEF Lifecycle!Next
<1>5. CASE Phase(p) = "withdrawn"
  BY <1>2, <1>3, <1>5 DEF Lifecycle!lifecycleVars
<1> QED
  BY <1>2, <1>4, <1>5

(* staking.service.ts implements the life of a position: every statement   *)
(* of every request is one step of it or leaves it unchanged, for any      *)
(* number of replicas, as long as no request lives half a cooldown.        *)
THEOREM Refinement == Spec => RefinesLifecycle
<1>1. Init => Lifecycle!Init
  BY RefinesInit
<1>2. IInv /\ [Next]_vars => [Lifecycle!Next]_Lifecycle!lifecycleVars
  BY RowWriters, RefinesSameRows, RefinesCreate, RefinesUnstake, RefinesFinalize
<1> QED
  BY <1>1, <1>2, InductiveInvariant, PTL DEF Spec, RefinesLifecycle, Lifecycle!Spec

-----------------------------------------------------------------------------
(***************************************************************************)
(* The ledger of the pool: the shares that are recorded and not credited   *)
(***************************************************************************)

LEMMA RecordedType ==
    ASSUME TypeOK
    PROVE  /\ \A p \in Pdas : Recorded(p) \in Int
           /\ AllRecorded \in Int
<1>1. ASSUME NEW p \in Pdas PROVE Recorded(p) \in Int
  <2>1. PICK s : s = penaltyTx[p]
    OBVIOUS
  <2>2. s \in Seq(PenaltyRow)
    BY <2>1 DEF TypeOK
  <2>3. PICK n \in Nat : n = Len(s)
    BY <2>2
  <2>4. \A i \in 1..n : s[i] \in PenaltyRow
    BY <2>2, <2>3
  <2>5. PICK f : f = [i \in 1..n |-> s[i].toRewardPool]
    OBVIOUS
  <2>6. f \in [1..n -> Int] /\ IsFiniteSet(1..n)
    BY <2>4, <2>5, FS_Interval DEF PenaltyRow
  <2>7. SumOver(f) \in Int
    BY <2>6, SumType
  <2> QED
    BY <2>1, <2>3, <2>5, <2>7 DEF Recorded
<1>2. PICK g : g = [p \in Pdas |-> Recorded(p)]
  OBVIOUS
<1>3. g \in [Pdas -> Int]
  BY <1>1, <1>2
<1>4. SumOver(g) \in Int
  BY <1>3, FiniteAssumption, SumType
<1> QED
  BY <1>1, <1>2, <1>4 DEF AllRecorded

LEMMA DueNat == ASSUME IInv, NEW r \in Requests PROVE Due(r) \in Nat
<1>1. CASE At(r, "credit")
  <2>1. request[r].row \in PositionRow
    BY <1>1, BusySlot DEF At, Free
  <2> QED
    BY <1>1, <2>1, OwedIsNat DEF Due
<1>2. CASE ~At(r, "credit")
  BY <1>2 DEF Due
<1> QED
  BY <1>1, <1>2

(* Requests, before and after a step of one of them. *)
LEMMA DueMoves ==
    ASSUME IInv, NEW r \in Requests, Due(r)' \in Nat,
           \A s \in Requests \ {r} : request'[s] = request[s]
    PROVE  /\ AllDue \in Int /\ AllDue' \in Int
           /\ AllDue' - AllDue = Due(r)' - Due(r)
<1>1. PICK f, g : /\ f = [s \in Requests |-> Due(s)]
                  /\ g = [s \in Requests |-> Due(s)']
  OBVIOUS
<1>2. \A s \in Requests : Due(s) \in Nat
  BY DueNat
<1>3. \A s \in Requests \ {r} : Due(s)' = Due(s)
  BY DEF Due, At
<1>4. /\ f \in [Requests -> Int] /\ g \in [Requests -> Int]
      /\ f[r] = Due(r) /\ g[r] = Due(r)'
      /\ \A s \in Requests \ {r} : g[s] = f[s]
  BY <1>1, <1>2, <1>3
<1>5. SumOver(g) - SumOver(f) = g[r] - f[r]
  BY <1>4, FiniteAssumption, SumChanges
<1>6. SumOver(f) \in Int /\ SumOver(g) \in Int
  BY <1>4, FiniteAssumption, SumType
<1>7. AllDue = SumOver(f) /\ AllDue' = SumOver(g)
  BY <1>1 DEF AllDue
<1> QED
  BY <1>4, <1>5, <1>6, <1>7

(* What a step records, and what it credits to the pool, differ by what it *)
(* leaves to credit.                                                       *)
LEMMA LedgerKept ==
    ASSUME IInv, LedgerInv, NEW r \in Requests, Due(r)' \in Nat,
           \A s \in Requests \ {r} : request'[s] = request[s],
           aborts' = aborts,
           NEW m \in Int, NEW n \in Int,
           Due(r)' - Due(r) = m - n,
           AllRecorded' = AllRecorded + m,
           pool' = IF pool = Null THEN Null ELSE pool + n
    PROVE  LedgerInv'
<1> SUFFICES ASSUME pool # Null, aborts = 0
             PROVE  pool' + AllDue' = InitialPool + AllRecorded'
  BY DEF LedgerInv
<1>1. PICK a, b, u, v \in Int :
          /\ a = AllDue /\ b = AllDue' /\ u = Due(r) /\ v = Due(r)'
          /\ b - a = v - u
  <2>1. /\ AllDue \in Int /\ AllDue' \in Int
        /\ AllDue' - AllDue = Due(r)' - Due(r)
    BY DueMoves
  <2>2. Due(r) \in Int /\ Due(r)' \in Int
    BY DueNat
  <2> QED
    BY <2>1, <2>2
<1>2. PICK x, y \in Int : x = AllRecorded /\ y = pool
  BY RecordedType DEF IInv, TypeOK
<1>3. y + a = InitialPool + x /\ InitialPool \in Int
  BY <1>1, <1>2, AmountAssumption DEF LedgerInv
<1>4. b = a + (m - n)
  BY <1>1
<1>5. (y + n) + b = InitialPool + (x + m)
  <2>1. PICK i \in Int : i = InitialPool /\ y + a = i + x
    BY <1>3
  <2>2. (y + n) + b = i + (x + m)
    BY <1>4, <2>1
  <2> QED
    BY <2>1, <2>2
<1>6. pool' = y + n /\ AllDue' = b /\ AllRecorded' = x + m
  BY <1>1, <1>2
<1> QED
  BY <1>5, <1>6

(* A request that neither records nor credits nor is about to.             *)
LEMMA LedgerUntouched ==
    ASSUME IInv, LedgerInv, NEW r \in Requests,
           request[r].pc # "credit", request'[r].pc # "credit",
           \A s \in Requests \ {r} : request'[s] = request[s],
           UNCHANGED <<penaltyTx, pool, aborts>>
    PROVE  LedgerInv'
<1>1. Due(r) = 0 /\ Due(r)' = 0
  BY DEF Due, At
<1>2. AllRecorded' = AllRecorded /\ AllRecorded \in Int
  BY RecordedType DEF AllRecorded, Recorded, IInv
<1>3. AllRecorded' = AllRecorded + 0
  BY <1>2
<1>4. pool' = IF pool = Null THEN Null ELSE pool + 0
  BY DEF IInv, TypeOK
<1>5. Due(r)' - Due(r) = 0 - 0 /\ Due(r)' \in Nat
  BY <1>1
<1> QED
  BY <1>3, <1>4, <1>5, LedgerKept

LEMMA DoneOthers ==
    ASSUME NEW r \in Requests, IInv, Done(r)
    PROVE  /\ request'[r].pc = "idle"
           /\ \A s \in Requests \ {r} : request'[s] = request[s]
  BY IdleIsRequest DEF IInv, TypeOK, Done

LEMMA BeginOthers ==
    ASSUME NEW r \in Requests, NEW s, NEW p, NEW row, IInv, Begin(r, s, p, row)
    PROVE  /\ request'[r].pc = s
           /\ \A t \in Requests \ {r} : request'[t] = request[t]
  BY DEF IInv, TypeOK, Begin

LEMMA ArriveLedger ==
    ASSUME IInv, LedgerInv, NEW r \in Requests, Arrive(r)
    PROVE  LedgerInv'
<1>1. PICK p \in Pdas : \/ \E a \in Amounts, t \in Tiers, l \in LockPeriods :
                               StakeRead(r, p, a, t, l)
                        \/ UnstakeRead(r, p)
                        \/ FinalizeRead(r, p)
  BY DEF Arrive
<1>2. Free(r) /\ UNCHANGED <<penaltyTx, pool, aborts>>
  BY <1>1 DEF StakeRead, UnstakeRead, FinalizeRead
<1>3. \E s \in {"create", "penalty", "write", "settle"} : \E row : Begin(r, s, p, row)
  BY <1>1 DEF StakeRead, UnstakeRead, FinalizeRead
<1>4. /\ request'[r].pc # "credit"
      /\ \A t \in Requests \ {r} : request'[t] = request[t]
  BY <1>3, BeginOthers
<1> QED
  BY <1>2, <1>4, LedgerUntouched DEF Free

LEMMA QuietLedger ==
    ASSUME IInv, LedgerInv, NEW r \in Requests,
           StakeCreate(r) \/ UnstakeWrite(r) \/ FinalizeWrite(r)
    PROVE  LedgerInv'
<1>1. /\ request[r].pc \in {"create", "write", "settle"} /\ Done(r)
      /\ UNCHANGED <<penaltyTx, pool, aborts>>
  BY DEF StakeCreate, UnstakeWrite, FinalizeWrite, At
<1> QED
  BY <1>1, DoneOthers, LedgerUntouched

(* The audit row adds to what is recorded what it adds to what is due.     *)
LEMMA PenaltyRecorded ==
    ASSUME IInv, NEW r \in Requests, UnstakePenalty(r)
    PROVE  AllRecorded' = AllRecorded + PenaltyHalf(PenaltyOf(request[r].row))
<1>1. PICK p \in Pdas : p = request[r].pda
  BY BusySlot DEF UnstakePenalty, At, Free
<1>2. PICK fine \in Nat, half \in Nat :
          fine = PenaltyOf(request[r].row) /\ half = PenaltyHalf(fine)
  <2>1. request[r].row \in PositionRow /\ 0 \in Nat
    BY BusySlot DEF UnstakePenalty, At, Free
  <2> QED
    BY <2>1, OwedIsNat
<1>3. PICK audit \in PenaltyRow, s \in Seq(PenaltyRow), n \in Nat :
          /\ audit = [penaltyAmount |-> fine, toRewardPool |-> half, toProtocol |-> half]
          /\ s = penaltyTx[p] /\ n = Len(s)
  <2>1. [penaltyAmount |-> fine, toRewardPool |-> half, toProtocol |-> half] \in PenaltyRow
    BY DEF PenaltyRow
  <2>2. penaltyTx[p] \in Seq(PenaltyRow)
    BY DEF IInv, TypeOK
  <2>3. Len(penaltyTx[p]) \in Nat
    BY <2>2
  <2> QED
    BY <2>1, <2>2, <2>3
<1>4. /\ penaltyTx'[p] = Append(s, audit)
      /\ \A q \in Pdas \ {p} : penaltyTx'[q] = penaltyTx[q]
  BY <1>1, <1>2, <1>3 DEF UnstakePenalty, IInv, TypeOK
<1>5. Recorded(p)' = Recorded(p) + half
  <2>1. PICK f, g : /\ f = [i \in 1..n |-> s[i].toRewardPool]
                    /\ g = [i \in 1..(n + 1) |-> Append(s, audit)[i].toRewardPool]
    OBVIOUS
  <2>2. /\ Len(Append(s, audit)) = n + 1
        /\ Append(s, audit)[n + 1] = audit
        /\ \A i \in 1..n : Append(s, audit)[i] = s[i] /\ s[i] \in PenaltyRow
    BY <1>3
  <2>3. f \in [1..n -> Int] /\ \A i \in 1..n : g[i] = f[i]
    BY <2>1, <2>2 DEF PenaltyRow
  <2>4. g[n + 1] = half /\ g \in [1..(n + 1) -> Int]
    BY <1>3, <2>1, <2>2 DEF PenaltyRow
  <2>5. SumOver(g) = SumOver(f) + g[n + 1]
    BY <2>3, <2>4, SumAppends
  <2>6. SumOver(g) = SumOver(f) + half
    BY <2>4, <2>5
  <2>7. Recorded(p) = SumOver(f)
    BY <1>3, <2>1 DEF Recorded
  <2>8. Recorded(p)' = SumOver(g)
    BY <1>4, <2>1, <2>2 DEF Recorded
  <2> QED
    BY <2>6, <2>7, <2>8
<1>6. PICK u, v : /\ u = [q \in Pdas |-> Recorded(q)]
                  /\ v = [q \in Pdas |-> Recorded(q)']
  OBVIOUS
<1>7. \A q \in Pdas : Recorded(q) \in Int
  BY RecordedType DEF IInv
<1>8. \A q \in Pdas \ {p} : Recorded(q)' = Recorded(q)
  BY <1>4 DEF Recorded
<1>9. /\ u \in [Pdas -> Int] /\ v \in [Pdas -> Int]
      /\ \A q \in Pdas \ {p} : v[q] = u[q]
      /\ v[p] - u[p] = half
  BY <1>5, <1>6, <1>7, <1>8
<1>10. SumOver(v) - SumOver(u) = half /\ SumOver(u) \in Int /\ SumOver(v) \in Int
  BY <1>9, FiniteAssumption, SumChanges, SumType
<1>11. AllRecorded = SumOver(u) /\ AllRecorded' = SumOver(v)
  BY <1>6 DEF AllRecorded
<1> QED
  BY <1>2, <1>10, <1>11

LEMMA PenaltyLedger ==
    ASSUME IInv, LedgerInv, NEW r \in Requests, UnstakePenalty(r)
    PROVE  LedgerInv'
<1>1. PICK half \in Nat : half = PenaltyHalf(PenaltyOf(request[r].row))
  <2>1. request[r].row \in PositionRow /\ 0 \in Nat
    BY BusySlot DEF UnstakePenalty, At, Free
  <2> QED
    BY <2>1, OwedIsNat
<1>2. /\ request[r].pc = "penalty" /\ ~Free(r) /\ Goto(r, "credit")
      /\ UNCHANGED <<pool, aborts>>
  BY DEF UnstakePenalty, At, Free
<1>3. /\ request'[r].pc = "credit" /\ request'[r].row = request[r].row
      /\ \A t \in Requests \ {r} : request'[t] = request[t]
  BY <1>2, GotoRequests DEF UnstakeStates
<1>4. Due(r) = 0 /\ Due(r)' = half
  BY <1>1, <1>2, <1>3 DEF Due, At, PenaltyOf
<1>5. Due(r)' - Due(r) = half - 0
  BY <1>4
<1>6. AllRecorded' = AllRecorded + half
  BY <1>1, PenaltyRecorded
<1>7. pool' = IF pool = Null THEN Null ELSE pool + 0
  BY <1>2 DEF IInv, TypeOK
<1> QED
  BY <1>2, <1>3, <1>4, <1>5, <1>6, <1>7, LedgerKept

LEMMA CreditLedger ==
    ASSUME IInv, LedgerInv, NEW r \in Requests, UnstakeCredit(r)
    PROVE  LedgerInv'
<1>1. PICK half \in Nat : half = PenaltyHalf(PenaltyOf(request[r].row))
  <2>1. request[r].row \in PositionRow /\ 0 \in Nat
    BY BusySlot DEF UnstakeCredit, At, Free
  <2> QED
    BY <2>1, OwedIsNat
<1>2. /\ request[r].pc = "credit" /\ ~Free(r) /\ Goto(r, "write")
      /\ UNCHANGED <<penaltyTx, aborts>>
  BY DEF UnstakeCredit, At, Free
<1>3. /\ request'[r].pc = "write"
      /\ \A t \in Requests \ {r} : request'[t] = request[t]
  BY <1>2, GotoRequests DEF UnstakeStates
<1>4. Due(r) = half /\ Due(r)' = 0
  BY <1>1, <1>2, <1>3 DEF Due, At
<1>5. Due(r)' - Due(r) = 0 - half
  BY <1>4
<1>6. AllRecorded' = AllRecorded + 0
  BY <1>2, RecordedType DEF AllRecorded, Recorded, IInv
<1>7. pool' = IF pool = Null THEN Null ELSE pool + half
  BY <1>1 DEF UnstakeCredit, Credited
<1> QED
  BY <1>2, <1>3, <1>4, <1>5, <1>6, <1>7, LedgerKept

LEMMA NextLedger == IInv /\ LedgerInv /\ [Next]_vars => LedgerInv'
<1> SUFFICES ASSUME IInv, LedgerInv, [Next]_vars PROVE LedgerInv'
  OBVIOUS
<1>1. ASSUME UNCHANGED <<request, penaltyTx, pool, aborts>> PROVE LedgerInv'
  BY <1>1 DEF LedgerInv, AllDue, Due, At, AllRecorded, Recorded
<1>2. CASE UNCHANGED vars \/ Tick
  BY <1>1, <1>2 DEF vars, Tick
<1>3. CASE FinalizerRun
  BY <1>1, <1>3 DEF FinalizerRun
<1>4. ASSUME NEW r \in Requests, Continue(r) PROVE LedgerInv'
  BY <1>4, QuietLedger, PenaltyLedger, CreditLedger DEF Continue
<1>5. ASSUME NEW r \in Requests, Abort(r) PROVE LedgerInv'
  BY <1>5 DEF Abort, LedgerInv, IInv, TypeOK
<1> QED
  BY <1>2, <1>3, <1>4, <1>5, ArriveLedger DEF Next

(* The pool has grown by exactly the shares that the penalty rows record,  *)
(* whatever other unstakes credited in between: at every moment of a run   *)
(* without crashes but for the credits still in flight, and so exactly     *)
(* whenever there are none (staking.service.ts:159-180).                   *)
THEOREM PoolMatchesLedger == Spec => []PoolLedger
<1>1. Init => LedgerInv
  <2> SUFFICES ASSUME Init PROVE LedgerInv
    OBVIOUS
  <2>1. PICK f, g : /\ f = [r \in Requests |-> Due(r)]
                    /\ g = [p \in Pdas |-> Recorded(p)]
    OBVIOUS
  <2>2. ASSUME NEW p \in Pdas PROVE Recorded(p) = 0
    <3>1. PICK h : h = [i \in 1..Len(penaltyTx[p]) |-> penaltyTx[p][i].toRewardPool]
      OBVIOUS
    <3>2. h \in [{} -> Int]
      BY <3>1 DEF Init
    <3> QED
      BY <3>1, <3>2, SumZero DEF Recorded
  <2>3. f \in [Requests -> Int] /\ \A r \in Requests : f[r] = 0
    BY <2>1 DEF Init, Due, At, Idle
  <2>4. g \in [Pdas -> Int] /\ \A p \in Pdas : g[p] = 0
    BY <2>1, <2>2
  <2>5. AllDue = 0 /\ AllRecorded = 0
    BY <2>1, <2>3, <2>4, SumZero DEF AllDue, AllRecorded
  <2>6. pool # Null => pool = InitialPool
    BY DEF Init
  <2> QED
    BY <2>5, <2>6, AmountAssumption DEF LedgerInv
<1>2. IInv /\ LedgerInv => PoolLedger
  <2> SUFFICES ASSUME IInv, LedgerInv, pool # Null, aborts = 0,
                      \A r \in Requests : ~At(r, "credit")
               PROVE  pool = InitialPool + AllRecorded
    BY DEF PoolLedger
  <2>1. PICK f : f = [r \in Requests |-> Due(r)]
    OBVIOUS
  <2>2. f \in [Requests -> Int] /\ \A r \in Requests : f[r] = 0
    BY <2>1 DEF Due
  <2>3. AllDue = 0
    BY <2>1, <2>2, SumZero DEF AllDue
  <2>4. pool \in Nat
    BY DEF IInv, TypeOK
  <2> QED
    BY <2>3, <2>4 DEF LedgerInv
<1> QED
  BY <1>1, <1>2, NextLedger, InductiveInvariant, PTL DEF Spec

=============================================================================
