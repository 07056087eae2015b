-------------------------- MODULE RewardPoolProofs --------------------------
(***************************************************************************)
(* Theorems about RewardPool: the bounds on the reward pool hold for any   *)
(* number of admins, revenues and unstakes at once.                        *)
(***************************************************************************)
EXTENDS RewardPool, SumsProofs

(***************************************************************************)
(* The inductive invariant: what a replenishment has read is bounded in    *)
(* the same way as the pool, for as long as it is in flight.               *)
(***************************************************************************)

Bounded(balance) == /\ InitialPool <= balance
                    /\ balance <= InitialPool + contributed
                    /\ InitialPool + contributed <= balance + exposed

IInv == /\ TypeOK
        /\ Bounded(pool)
        /\ \A r \in Requests : At(r, "topup") => Bounded(request[r].read)

(* What a revenue has recorded and not moved yet accounts for the rest, if *)
(* no request was cut short.                                               *)
Unmoved(r) ==
    CASE request[r].pc \in {"pool", "lookup", "perpetual"} -> ToCashback(request[r].amount)
      [] At(r, "bonus") -> ToBonus(request[r].amount)
      [] OTHER -> 0

AllUnmoved == SumOver([r \in Requests |-> Unmoved(r)])

RevenueInv ==
    /\ Funded + AllUnmoved <= revenueTx.toCashbackPool
    /\ aborts = 0 => Funded + AllUnmoved = revenueTx.toCashbackPool

-----------------------------------------------------------------------------
(* The shares of a revenue are natural numbers. *)
LEMMA SharesAreNat ==
    ASSUME NEW a \in Nat
    PROVE  /\ ToRewardPool(a) \in Nat /\ ToPerpetual(a) \in Nat
           /\ ToBonus(a) \in Nat /\ ToCashback(a) \in Nat
  BY DEF ToRewardPool, ToPerpetual, ToBonus, ToCashback

LEMMA InitIInv == Init => IInv
<1> SUFFICES ASSUME Init PROVE IInv
  OBVIOUS
<1>1. TypeOK
  BY AmountAssumption DEF Init, TypeOK, Request, Idle
<1>2. Bounded(pool)
  BY AmountAssumption DEF Init, Bounded
<1>3. \A r \in Requests : ~At(r, "topup")
  BY DEF Init, Idle, At
<1> QED
  BY <1>1, <1>2, <1>3 DEF IInv

LEMMA DoneRequests ==
    ASSUME NEW r \in Requests, IInv, Done(r)
    PROVE  /\ request' \in [Requests -> Request]
           /\ ~At(r, "topup")'
           /\ \A s \in Requests \ {r} : request'[s] = request[s]
  BY DEF IInv, TypeOK, Done, Idle, Request, At

LEMMA GotoRequests ==
    ASSUME NEW r \in Requests, IInv,
           NEW s \in {"lookup", "perpetual", "bonus", "open"}, Goto(r, s)
    PROVE  /\ request' \in [Requests -> Request]
           /\ ~At(r, "topup")'
           /\ \A t \in Requests \ {r} : request'[t] = request[t]
  BY DEF IInv, TypeOK, Goto, Request, At

(* An amount that is added to the pool, or to what a replenishment had     *)
(* read, keeps the pool and all the other reads within their bounds.       *)
LEMMA ContributeBounds ==
    ASSUME NEW r \in Requests, NEW amount \in Nat, IInv, Contribute(r, amount),
           NEW base \in Nat, Bounded(base), pool' = base + amount,
           \A s \in Requests \ {r} : request'[s] = request[s],
           ~At(r, "topup")'
    PROVE  /\ pool' \in Nat /\ contributed' \in Nat /\ exposed' \in Nat
           /\ Bounded(pool)'
           /\ \A s \in Requests : At(s, "topup")' => Bounded(request[s].read)'
<1>1. /\ pool \in Nat /\ contributed \in Nat /\ exposed \in Nat /\ InitialPool \in Nat
      /\ contributed' = contributed + amount
      /\ exposed' \in {exposed, exposed + amount}
  BY AmountAssumption DEF IInv, TypeOK, Contribute
<1>2. pool' \in Nat /\ contributed' \in Nat /\ exposed' \in Nat /\ exposed <= exposed'
  BY <1>1
<1>3. Bounded(pool)'
  <2>1. /\ InitialPool <= base /\ base <= InitialPool + contributed
        /\ InitialPool + contributed <= base + exposed
    BY DEF Bounded
  <2>2. /\ InitialPool <= pool' /\ pool' <= InitialPool + contributed'
        /\ InitialPool + contributed' <= pool' + exposed'
    <3>1. CASE exposed' = exposed
      BY <1>1, <2>1, <3>1
    <3>2. CASE exposed' = exposed + amount
      BY <1>1, <2>1, <3>2
    <3> QED
      BY <1>1, <3>1, <3>2
  <2> QED
    BY <2>2 DEF Bounded
<1>4. ASSUME NEW s \in Requests, At(s, "topup")' PROVE Bounded(request[s].read)'
  <2>1. s # r /\ request'[s] = request[s] /\ At(s, "topup")
    BY <1>4 DEF At
  <2>2. exposed' = exposed + amount
    BY <2>1 DEF Contribute, Window
  <2>3. Bounded(request[s].read) /\ request[s].read \in Nat
    BY <2>1 DEF IInv, TypeOK, Request
  <2> QED
    BY <1>1, <2>1, <2>2, <2>3 DEF Bounded
<1> QED
  BY <1>2, <1>3, <1>4

LEMMA ReplenishReadInv ==
    ASSUME NEW r \in Requests, NEW a \in TopUps, IInv, ReplenishRead(r, a)
    PROVE  IInv'
<1>1. a \in Nat
  BY AmountAssumption
<1>2. [pc |-> "topup", read |-> pool, amount |-> a] \in Request
  BY <1>1 DEF IInv, TypeOK, Request
<1>3. TypeOK'
  BY <1>2 DEF ReplenishRead, IInv, TypeOK, money
<1>4. UNCHANGED money
  BY DEF ReplenishRead
<1>5. ASSUME NEW s \in Requests, At(s, "topup")' PROVE Bounded(request[s].read)'
  <2>1. CASE s = r
    BY <1>4, <2>1 DEF ReplenishRead, IInv, TypeOK, Bounded, money
  <2>2. CASE s # r
    BY <1>4, <1>5, <2>2 DEF ReplenishRead, IInv, TypeOK, Bounded, money, At
  <2> QED
    BY <2>1, <2>2
<1> QED
  BY <1>3, <1>4, <1>5 DEF IInv, Bounded, money

LEMMA ReplenishWriteInv ==
    ASSUME NEW r \in Requests, IInv, ReplenishWrite(r)
    PROVE  IInv'
<1>1. PICK base \in Nat, amount \in Nat :
          base = request[r].read /\ amount = request[r].amount
  BY DEF IInv, TypeOK, Request
<1>2. /\ Bounded(base) /\ pool' = base + amount /\ Contribute(r, amount) /\ Done(r)
      /\ UNCHANGED <<seeded, cashback, cashbackOpen, revenueTx, unfunded, started, aborts>>
  BY <1>1 DEF ReplenishWrite, IInv, At
<1>3. /\ pool' \in Nat /\ contributed' \in Nat /\ exposed' \in Nat
      /\ Bounded(pool)'
      /\ \A s \in Requests : At(s, "topup")' => Bounded(request[s].read)'
  BY <1>2, DoneRequests, ContributeBounds
<1> QED
  BY <1>2, <1>3, DoneRequests DEF IInv, TypeOK

LEMMA PenaltyCreditInv ==
    ASSUME NEW r \in Requests, NEW a \in Penalties, IInv, PenaltyCredit(r, a)
    PROVE  IInv'
<1>1. a \in Nat
  BY AmountAssumption
<1>2. /\ Bounded(pool) /\ pool \in Nat /\ pool' = pool + a
      /\ Contribute(r, a) /\ Free(r) /\ request' = request
      /\ UNCHANGED <<seeded, cashback, cashbackOpen, revenueTx, unfunded, aborts>>
      /\ started' \in Nat
  BY DEF PenaltyCredit, Incremented, IInv, TypeOK
<1>3. PICK base \in Nat : base = pool
  BY <1>2
<1>4. ~At(r, "topup")' /\ \A s \in Requests : request'[s] = request[s]
  BY <1>2 DEF Free, At
<1>5. /\ pool' \in Nat /\ contributed' \in Nat /\ exposed' \in Nat
      /\ Bounded(pool)'
      /\ \A s \in Requests : At(s, "topup")' => Bounded(request[s].read)'
  BY <1>1, <1>2, <1>3, <1>4, ContributeBounds
<1> QED
  BY <1>2, <1>5 DEF IInv, TypeOK

(* The steps that leave the reward pool alone and begin no replenishment. *)
LEMMA OtherSteps ==
    ASSUME IInv, UNCHANGED money, TypeOK',
           \A s \in Requests : request'[s] = request[s] \/ ~At(s, "topup")'
    PROVE  IInv'
  BY DEF IInv, Bounded, money, At, TypeOK

LEMMA RevenuePoolInv ==
    ASSUME NEW r \in Requests, IInv, RevenuePool(r)
    PROVE  IInv'
<1>1. /\ Goto(r, "lookup")
      /\ UNCHANGED <<seeded, cashback, cashbackOpen, revenueTx, unfunded, started, aborts>>
  BY DEF RevenuePool
<1>2. CASE seeded
  <2>1. PICK amount \in Nat : amount = ToRewardPool(request[r].amount)
    BY SharesAreNat DEF IInv, TypeOK, Request
  <2>2. /\ Bounded(pool) /\ pool \in Nat /\ pool' = pool + amount
        /\ Contribute(r, amount)
    BY <1>2, <2>1 DEF RevenuePool, Incremented, IInv, TypeOK
  <2>3. PICK base \in Nat : base = pool
    BY <2>2
  <2>4. /\ pool' \in Nat /\ contributed' \in Nat /\ exposed' \in Nat
        /\ Bounded(pool)'
        /\ \A s \in Requests : At(s, "topup")' => Bounded(request[s].read)'
    BY <1>1, <2>2, <2>3, GotoRequests, ContributeBounds
  <2> QED
    BY <1>1, <2>4, GotoRequests DEF IInv, TypeOK
<1>3. CASE ~seeded
  <2>1. UNCHANGED money
    BY <1>3 DEF RevenuePool
  <2>2. TypeOK'
    BY <1>1, <2>1, GotoRequests DEF IInv, TypeOK, money
  <2> QED
    BY <1>1, <2>1, <2>2, GotoRequests, OtherSteps
<1> QED
  BY <1>2, <1>3

LEMMA RevenueCreateInv ==
    ASSUME NEW r \in Requests, NEW a \in Revenues, IInv, RevenueCreate(r, a)
    PROVE  IInv'
<1>1. a \in Nat /\ [pc |-> "pool", read |-> 0, amount |-> a] \in Request
  BY AmountAssumption DEF Request
<1>2. TypeOK'
  <2>1. revenueTx' \in [toRewardPool : Nat, toCashbackPool : Nat]
    <3>1. PICK x \in Nat, y \in Nat : x = ToRewardPool(a) /\ y = ToCashback(a)
      BY <1>1, SharesAreNat
    <3>2. revenueTx' = [revenueTx EXCEPT !.toRewardPool = @ + x,
                                         !.toCashbackPool = @ + y]
      BY <3>1 DEF RevenueCreate
    <3>3. revenueTx \in [toRewardPool : Nat, toCashbackPool : Nat]
      BY DEF IInv, TypeOK
    <3>4. PICK m \in Nat, n \in Nat :
              revenueTx = [toRewardPool |-> m, toCashbackPool |-> n]
      BY <3>3
    <3>5. revenueTx' = [toRewardPool |-> m + x, toCashbackPool |-> n + y]
      BY <3>2, <3>4
    <3>6. m + x \in Nat /\ n + y \in Nat
      OBVIOUS
    <3> QED
      BY <3>5, <3>6
  <2>2. request' \in [Requests -> Request] /\ started' \in Nat
    BY <1>1 DEF RevenueCreate, IInv, TypeOK
  <2> QED
    BY <2>1, <2>2 DEF RevenueCreate, IInv, TypeOK, money
<1>3. \A s \in Requests : request'[s] = request[s] \/ ~At(s, "topup")'
  BY DEF RevenueCreate, IInv, TypeOK, At
<1> QED
  BY <1>2, <1>3, OtherSteps DEF RevenueCreate

LEMMA CashbackInv ==
    ASSUME NEW r \in Requests, IInv,
           RevenueLookup(r) \/ RevenuePerpetual(r) \/ RevenueBonus(r)
    PROVE  IInv'
<1>1. request[r].amount \in Nat
  BY DEF IInv, TypeOK, Request
<1>2. Done(r) \/ Goto(r, "perpetual") \/ Goto(r, "bonus")
  BY DEF RevenueLookup, RevenuePerpetual, RevenueBonus
<1>3. /\ request' \in [Requests -> Request]
      /\ \A s \in Requests : request'[s] = request[s] \/ ~At(s, "topup")'
  BY <1>2, DoneRequests, GotoRequests
<1>4. CASE RevenueLookup(r)
  <2>1. unfunded' \in Nat
    BY <1>1, <1>4, SharesAreNat DEF RevenueLookup, IInv, TypeOK
  <2>2. TypeOK'
    BY <1>3, <1>4, <2>1 DEF RevenueLookup, IInv, TypeOK, money
  <2> QED
    BY <1>3, <1>4, <2>2, OtherSteps DEF RevenueLookup
<1>5. CASE RevenuePerpetual(r)
  <2>1. TypeOK'
    BY <1>1, <1>3, <1>5, SharesAreNat DEF RevenuePerpetual, IInv, TypeOK, money
  <2> QED
    BY <1>3, <1>5, <2>1, OtherSteps DEF RevenuePerpetual
<1>6. CASE RevenueBonus(r)
  <2>1. TypeOK'
    BY <1>1, <1>3, <1>6, SharesAreNat DEF RevenueBonus, IInv, TypeOK, money
  <2> QED
    BY <1>3, <1>6, <2>1, OtherSteps DEF RevenueBonus
<1> QED
  BY <1>4, <1>5, <1>6

LEMMA AbortInv ==
    ASSUME NEW r \in Requests, IInv, Abort(r)
    PROVE  IInv'
<1>1. Done(r)
  BY DEF Abort
<1>2. TypeOK'
  BY <1>1, DoneRequests DEF Abort, IInv, TypeOK, money
<1> QED
  BY <1>1, <1>2, DoneRequests, OtherSteps DEF Abort

LEMMA InitializeInv ==
    ASSUME NEW r \in Requests, IInv, InitializeRead(r) \/ InitializeCreate(r)
    PROVE  IInv'
<1>1. Goto(r, "open") \/ Done(r)
  BY DEF InitializeRead, InitializeCreate
<1>2. /\ request' \in [Requests -> Request]
      /\ ~At(r, "topup")'
      /\ \A s \in Requests \ {r} : request'[s] = request[s]
  BY <1>1, DoneRequests, GotoRequests
<1>3. TypeOK'
  BY <1>2 DEF InitializeRead, InitializeCreate, IInv, TypeOK, money
<1> QED
  BY <1>2, <1>3, OtherSteps DEF InitializeRead, InitializeCreate

LEMMA NextInv == ASSUME IInv, [Next]_vars PROVE IInv'
<1>1. ASSUME NEW r \in Requests, Step(r) PROVE IInv'
  BY <1>1, ReplenishReadInv, ReplenishWriteInv, RevenueCreateInv, RevenuePoolInv,
     CashbackInv, PenaltyCreditInv, InitializeInv, AbortInv DEF Step
<1>2. CASE UNCHANGED vars
  BY <1>2 DEF vars, IInv, TypeOK, Bounded, At, money
<1> QED
  BY <1>1, <1>2 DEF Next

LEMMA InductiveInvariant == Spec => []IInv
<1>1. Init => IInv
  BY InitIInv
<1>2. IInv /\ [Next]_vars => IInv'
  BY NextInv
<1> QED
  BY <1>1, <1>2, PTL DEF Spec

(* The state rows, the audit sums and the requests are well formed. *)
THEOREM TypeCorrect == Spec => []TypeOK
<1>1. IInv => TypeOK
  BY DEF IInv
<1> QED
  BY <1>1, InductiveInvariant, PTL

(* The reward pool holds at most what was put into it. *)
THEOREM PoolBacked == Spec => []PoolIsBacked
<1>1. IInv => PoolIsBacked
  BY DEF IInv, Bounded, PoolIsBacked
<1> QED
  BY <1>1, InductiveInvariant, PTL

(* A contribution is lost only when it falls between the read and the      *)
(* write of somebody else's replenishment.                                 *)
THEOREM LossExposed == Spec => []LossIsExposed
<1>1. IInv => LossIsExposed
  BY DEF IInv, Bounded, LossIsExposed
<1> QED
  BY <1>1, InductiveInvariant, PTL

-----------------------------------------------------------------------------
(***************************************************************************)
(* The audit rows: what a revenue in flight has not moved yet              *)
(***************************************************************************)

LEMMA UnmovedNat ==
    ASSUME TypeOK, NEW r \in Requests
    PROVE  Unmoved(r) \in Nat
<1>1. request[r].amount \in Nat
  BY DEF TypeOK, Request
<1> QED
  BY <1>1, SharesAreNat DEF Unmoved

LEMMA UnmovedMoves ==
    ASSUME TypeOK, TypeOK', NEW r \in Requests,
           \A s \in Requests \ {r} : request'[s] = request[s]
    PROVE  /\ AllUnmoved \in Int /\ AllUnmoved' \in Int
           /\ Unmoved(r) \in Nat /\ Unmoved(r)' \in Nat
           /\ AllUnmoved' - AllUnmoved = Unmoved(r)' - Unmoved(r)
<1>1. PICK f, g : /\ f = [s \in Requests |-> Unmoved(s)]
                  /\ g = [s \in Requests |-> Unmoved(s)']
  OBVIOUS
<1>2. \A s \in Requests : Unmoved(s) \in Nat
  BY UnmovedNat
<1>3. \A s \in Requests : Unmoved(s)' \in Nat
  <2> SUFFICES ASSUME NEW s \in Requests PROVE Unmoved(s)' \in Nat
    OBVIOUS
  <2>1. request'[s].amount \in Nat
    BY DEF TypeOK, Request
  <2> QED
    BY <2>1, SharesAreNat DEF Unmoved
<1>4. \A s \in Requests \ {r} : Unmoved(s)' = Unmoved(s)
  BY DEF Unmoved, At
<1>5. /\ f \in [Requests -> Int] /\ g \in [Requests -> Int]
      /\ f[r] = Unmoved(r) /\ g[r] = Unmoved(r)'
      /\ \A s \in Requests \ {r} : g[s] = f[s]
  BY <1>1, <1>2, <1>3, <1>4
<1>6. SumOver(g) - SumOver(f) = g[r] - f[r]
  BY <1>5, RequestAssumption, SumChanges
<1>7. SumOver(f) \in Int /\ SumOver(g) \in Int
  BY <1>5, RequestAssumption, SumType
<1>8. AllUnmoved = SumOver(f) /\ AllUnmoved' = SumOver(g)
  BY <1>1 DEF AllUnmoved
<1> QED
  BY <1>2, <1>3, <1>5, <1>6, <1>7, <1>8

LEMMA FundedType ==
    ASSUME TypeOK
    PROVE  Funded \in Nat /\ revenueTx.toCashbackPool \in Nat
  BY DEF TypeOK, Funded

(* What a step moves to the cashback pools, or finds no pools for, and     *)
(* what it leaves to move add up to what it records.                       *)
LEMMA RevenueKept ==
    ASSUME TypeOK, TypeOK', RevenueInv, NEW r \in Requests,
           \A s \in Requests \ {r} : request'[s] = request[s],
           aborts' = aborts,
           NEW m \in Int, NEW n \in Int,
           Unmoved(r)' - Unmoved(r) = m - n,
           Funded' = Funded + n,
           revenueTx'.toCashbackPool = revenueTx.toCashbackPool + m
    PROVE  RevenueInv'
<1>1. PICK a, b, u, v \in Int :
          /\ a = AllUnmoved /\ b = AllUnmoved' /\ u = Unmoved(r) /\ v = Unmoved(r)'
          /\ b - a = v - u
  BY UnmovedMoves
<1>2. PICK f \in Nat, x \in Nat : f = Funded /\ x = revenueTx.toCashbackPool
  BY FundedType
<1>3. f + a <= x /\ (aborts = 0 => f + a = x)
  BY <1>1, <1>2 DEF RevenueInv
<1>4. b = a + m - n
  BY <1>1
<1>5. (f + n) + b <= x + m /\ (aborts = 0 => (f + n) + b = x + m)
  BY <1>3, <1>4
<1> QED
  BY <1>1, <1>2, <1>5 DEF RevenueInv

LEMMA GotoEffect ==
    ASSUME TypeOK, NEW r \in Requests, NEW s, Goto(r, s)
    PROVE  /\ request'[r].pc = s /\ request'[r].amount = request[r].amount
           /\ \A q \in Requests \ {r} : request'[q] = request[q]
  BY DEF TypeOK, Goto, Request

LEMMA DoneEffect ==
    ASSUME TypeOK, NEW r \in Requests, Done(r)
    PROVE  /\ request'[r].pc = "idle"
           /\ \A q \in Requests \ {r} : request'[q] = request[q]
  BY DEF TypeOK, Done, Idle

(* Neither top-ups nor penalties nor the opening of the pools have a part  *)
(* in it.                                                                  *)
LEMMA OtherRevenue ==
    ASSUME TypeOK, TypeOK', RevenueInv, NEW r \in Requests,
           \/ \E a \in TopUps : ReplenishRead(r, a)
           \/ ReplenishWrite(r)
           \/ \E a \in Penalties : PenaltyCredit(r, a)
           \/ InitializeRead(r)
           \/ InitializeCreate(r)
    PROVE  RevenueInv'
<1>1. /\ request[r].pc \in {"idle", "topup", "open"}
      /\ request'[r].pc \in {"idle", "topup", "open"}
      /\ \A s \in Requests \ {r} : request'[s] = request[s]
  <2>1. ASSUME NEW a \in TopUps, ReplenishRead(r, a)
        PROVE  /\ request[r].pc = "idle" /\ request'[r].pc = "topup"
               /\ \A s \in Requests \ {r} : request'[s] = request[s]
    BY <2>1 DEF ReplenishRead, Free, TypeOK
  <2>2. CASE ReplenishWrite(r)
    BY <2>2, DoneEffect DEF ReplenishWrite, At
  <2>3. ASSUME NEW a \in Penalties, PenaltyCredit(r, a)
        PROVE  request[r].pc = "idle" /\ request' = request
    BY <2>3 DEF PenaltyCredit, Free
  <2>4. CASE InitializeRead(r)
    BY <2>4, GotoEffect DEF InitializeRead, Free
  <2>5. CASE InitializeCreate(r)
    BY <2>5, DoneEffect DEF InitializeCreate, At
  <2> QED
    BY <2>1, <2>2, <2>3, <2>4, <2>5
<1>2. UNCHANGED <<cashback, unfunded, revenueTx, aborts>>
  BY DEF ReplenishRead, ReplenishWrite, PenaltyCredit, InitializeRead, InitializeCreate
<1>3. Unmoved(r) = 0 /\ Unmoved(r)' = 0
  BY <1>1 DEF Unmoved, At
<1>4. Funded' = Funded + 0 /\ revenueTx'.toCashbackPool = revenueTx.toCashbackPool + 0
  BY <1>2, FundedType DEF Funded
<1> QED
  BY <1>1, <1>2, <1>3, <1>4, RevenueKept

LEMMA CreateRevenue ==
    ASSUME TypeOK, TypeOK', RevenueInv, NEW r \in Requests, NEW a \in Revenues,
           RevenueCreate(r, a)
    PROVE  RevenueInv'
<1>1. PICK m \in Nat : m = ToCashback(a)
  BY AmountAssumption, SharesAreNat
<1>2. /\ request[r].pc = "idle"
      /\ request'[r].pc = "pool" /\ request'[r].amount = a
      /\ \A s \in Requests \ {r} : request'[s] = request[s]
  BY DEF RevenueCreate, Free, TypeOK
<1>3. Unmoved(r) = 0 /\ Unmoved(r)' = m
  BY <1>1, <1>2 DEF Unmoved, At
<1>4. revenueTx'.toCashbackPool = revenueTx.toCashbackPool + m
  BY <1>1 DEF RevenueCreate, TypeOK
<1>5. Funded' = Funded + 0 /\ aborts' = aborts
  BY FundedType DEF RevenueCreate, Funded
<1>6. Unmoved(r)' - Unmoved(r) = m - 0
  BY <1>3
<1> QED
  BY <1>2, <1>4, <1>5, <1>6, RevenueKept

LEMMA MoveRevenue ==
    ASSUME TypeOK, TypeOK', RevenueInv, NEW r \in Requests,
           RevenuePool(r) \/ RevenueLookup(r) \/ RevenuePerpetual(r) \/ RevenueBonus(r)
    PROVE  RevenueInv'
<1>1. PICK p \in Nat, b \in Nat : /\ p = ToPerpetual(request[r].amount)
                                  /\ b = ToBonus(request[r].amount)
                                  /\ p + b = ToCashback(request[r].amount)
  BY SharesAreNat DEF TypeOK, Request, ToCashback
<1>2. /\ UNCHANGED <<revenueTx, aborts>>
      /\ \A s \in Requests \ {r} : request'[s] = request[s]
  BY GotoEffect, DoneEffect
     DEF RevenuePool, RevenueLookup, RevenuePerpetual, RevenueBonus
<1>3. revenueTx'.toCashbackPool = revenueTx.toCashbackPool + 0
  BY <1>2, FundedType
<1>4. PICK c \in Nat, d \in Nat, e \in Nat :
          /\ cashback = [perpetual |-> c, bonus |-> d] /\ e = unfunded
          /\ Funded = c + d + e
  BY DEF TypeOK, Funded
<1>5. CASE RevenuePool(r)
  <2>1. /\ request[r].pc = "pool" /\ request'[r].pc = "lookup"
        /\ request'[r].amount = request[r].amount
        /\ UNCHANGED <<cashback, unfunded>>
    BY <1>5, GotoEffect DEF RevenuePool, At
  <2>2. Unmoved(r) = p + b /\ Unmoved(r)' = p + b
    <3>1. ToCashback(request'[r].amount) = p + b
      BY <1>1, <2>1 DEF ToCashback
    <3> QED
      BY <1>1, <2>1, <3>1 DEF Unmoved, At
  <2>3. Unmoved(r)' - Unmoved(r) = 0 - 0 /\ Funded' = Funded + 0
    BY <1>4, <2>1, <2>2 DEF Funded
  <2> QED
    BY <1>2, <1>3, <2>3, RevenueKept
<1>6. CASE RevenueLookup(r) /\ cashbackOpen
  <2>1. /\ request[r].pc = "lookup" /\ request'[r].pc = "perpetual"
        /\ request'[r].amount = request[r].amount
        /\ UNCHANGED <<cashback, unfunded>>
    BY <1>6, GotoEffect DEF RevenueLookup, At
  <2>2. Unmoved(r) = p + b /\ Unmoved(r)' = p + b
    <3>1. ToCashback(request'[r].amount) = p + b
      BY <1>1, <2>1 DEF ToCashback
    <3> QED
      BY <1>1, <2>1, <3>1 DEF Unmoved, At
  <2>3. Unmoved(r)' - Unmoved(r) = 0 - 0 /\ Funded' = Funded + 0
    BY <1>4, <2>1, <2>2 DEF Funded
  <2> QED
    BY <1>2, <1>3, <2>3, RevenueKept
<1>7. CASE RevenueLookup(r) /\ ~cashbackOpen
  <2>1. /\ request[r].pc = "lookup" /\ request'[r].pc = "idle"
        /\ cashback' = cashback /\ unfunded' = e + (p + b)
    BY <1>1, <1>4, <1>7, DoneEffect DEF RevenueLookup, At
  <2>2. Unmoved(r) = p + b /\ Unmoved(r)' = 0
    BY <1>1, <2>1 DEF Unmoved, At
  <2>3. Unmoved(r)' - Unmoved(r) = 0 - (p + b) /\ Funded' = Funded + (p + b)
    BY <1>4, <2>1, <2>2 DEF Funded
  <2> QED
    BY <1>2, <1>3, <2>3, RevenueKept
<1>8. CASE RevenuePerpetual(r)
  <2>1. /\ request[r].pc = "perpetual" /\ request'[r].pc = "bonus"
        /\ request'[r].amount = request[r].amount /\ unfunded' = unfunded
        /\ cashback' = [perpetual |-> c + p, bonus |-> d]
    BY <1>1, <1>4, <1>8, GotoEffect DEF RevenuePerpetual, At
  <2>2. Unmoved(r) = p + b /\ Unmoved(r)' = b
    BY <1>1, <2>1 DEF Unmoved, At
  <2>3. Unmoved(r)' - Unmoved(r) = 0 - p /\ Funded' = Funded + p
    BY <1>4, <2>1, <2>2 DEF Funded
  <2> QED
    BY <1>2, <1>3, <2>3, RevenueKept
<1>9. CASE RevenueBonus(r)
  <2>1. /\ request[r].pc = "bonus" /\ request'[r].pc = "idle"
        /\ unfunded' = unfunded
        /\ cashback' = [perpetual |-> c, bonus |-> d + b]
    BY <1>1, <1>4, <1>9, DoneEffect DEF RevenueBonus, At
  <2>2. Unmoved(r) = b /\ Unmoved(r)' = 0
    BY <1>1, <2>1 DEF Unmoved, At
  <2>3. Unmoved(r)' - Unmoved(r) = 0 - b /\ Funded' = Funded + b
    BY <1>4, <2>1, <2>2 DEF Funded
  <2> QED
    BY <1>2, <1>3, <2>3, RevenueKept
<1> QED
  BY <1>5, <1>6, <1>7, <1>8, <1>9

LEMMA AbortRevenue ==
    ASSUME TypeOK, TypeOK', RevenueInv, NEW r \in Requests, Abort(r)
    PROVE  RevenueInv'
<1>1. /\ aborts' # 0 /\ UNCHANGED <<cashback, unfunded, revenueTx>>
      /\ request'[r].pc = "idle"
      /\ \A s \in Requests \ {r} : request'[s] = request[s]
  BY DoneEffect DEF Abort, TypeOK
<1>2. Unmoved(r)' = 0
  BY <1>1 DEF Unmoved, At
<1>3. AllUnmoved' \in Int /\ AllUnmoved \in Int /\ AllUnmoved' <= AllUnmoved
  BY <1>1, <1>2, UnmovedMoves
<1>4. Funded' = Funded /\ Funded \in Nat /\ revenueTx.toCashbackPool \in Nat
  BY <1>1, FundedType DEF Funded
<1> QED
  BY <1>1, <1>3, <1>4 DEF RevenueInv

LEMMA NextRevenue == TypeOK /\ TypeOK' /\ RevenueInv /\ [Next]_vars => RevenueInv'
<1> SUFFICES ASSUME TypeOK, TypeOK', RevenueInv, [Next]_vars PROVE RevenueInv'
  OBVIOUS
<1>1. CASE UNCHANGED vars
  BY <1>1 DEF vars, RevenueInv, Funded, AllUnmoved, Unmoved, At
<1>2. ASSUME NEW r \in Requests, Step(r) PROVE RevenueInv'
  BY <1>2, OtherRevenue, CreateRevenue, MoveRevenue, AbortRevenue DEF Step
<1> QED
  BY <1>1, <1>2 DEF Next

(* What revenues brought to the cashback pools, or found no pools for, is  *)
(* never more than the audit rows record, and all of it once no request is *)
(* between its row and its updates and none was cut short                  *)
(* (admin.service.ts:366-412).                                             *)
THEOREM RevenuesAreRecorded == Spec => []RevenueIsRecorded
<1>1. Init => RevenueInv
  <2> SUFFICES ASSUME Init PROVE RevenueInv
    OBVIOUS
  <2>1. PICK f : f = [r \in Requests |-> Unmoved(r)]
    OBVIOUS
  <2>2. f \in [Requests -> Int] /\ \A r \in Requests : f[r] = 0
    BY <2>1 DEF Init, Unmoved, At, Idle
  <2>3. AllUnmoved = 0
    BY <2>1, <2>2, SumZero DEF AllUnmoved
  <2> QED
    BY <2>3 DEF Init, RevenueInv, Funded
<1>2. TypeOK /\ RevenueInv => RevenueIsRecorded
  <2> SUFFICES ASSUME TypeOK, RevenueInv PROVE RevenueIsRecorded
    OBVIOUS
  <2>1. PICK f : f = [r \in Requests |-> Unmoved(r)]
    OBVIOUS
  <2>2. f \in [Requests -> Nat] /\ AllUnmoved = SumOver(f)
    BY <2>1, UnmovedNat DEF AllUnmoved
  <2>3. PICK a \in Nat : a = AllUnmoved
    BY <2>2, RequestAssumption, SumOfNats
  <2>4. ASSUME \A r \in Requests : request[r].pc \in {"idle", "topup", "open"}
        PROVE  a = 0
    <3>1. f \in [Requests -> Int] /\ \A r \in Requests : f[r] = 0
      BY <2>1, <2>4 DEF Unmoved, At
    <3> QED
      BY <2>2, <2>3, <3>1, SumZero
  <2>5. Funded \in Nat /\ revenueTx.toCashbackPool \in Nat
    BY FundedType
  <2> QED
    BY <2>3, <2>4, <2>5 DEF RevenueInv, RevenueIsRecorded
<1> QED
  BY <1>1, <1>2, NextRevenue, TypeCorrect, PTL DEF Spec

=============================================================================
