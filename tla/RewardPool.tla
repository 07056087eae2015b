---------------------------- MODULE RewardPool -----------------------------
(***************************************************************************)
(* The money of program_states.totalRewardPool and of the two cashback     *)
(* pools, and everybody who adds to it: replenishRewardPool and            *)
(* recordRevenueReplenishment of admin.service.ts, and the penalty credit  *)
(* of staking.service.ts.  A replenishment writes the sum it computed from *)
(* what it had read; the others send increments.  Each statement is one    *)
(* step, and a request may end after any of them.                          *)
(***************************************************************************)
EXTENDS Sums

CONSTANTS Requests,      \* request slots
          TopUps,        \* amounts an admin can replenish with
          Revenues,      \* amounts of revenue an admin can record
          Penalties,     \* shares of penalties that unstakes credit
          InitialPool,   \* the reward pool at the start
          MaxCredits,    \* bound of the model: contributions begun
          MaxAborts      \* bound of the model: requests cut short

ASSUME RequestAssumption == IsFiniteSet(Requests)
ASSUME AmountAssumption ==
    /\ TopUps \subseteq Nat \ {0} /\ Revenues \subseteq Nat \ {0}
    /\ Penalties \subseteq Nat /\ InitialPool \in Nat
ASSUME BoundAssumption == MaxCredits \in Nat /\ MaxAborts \in Nat

VARIABLES seeded,       \* whether program_states has its row
          pool,         \* its totalRewardPool
          cashback,     \* what revenues added to the cashback balances
          cashbackOpen, \* whether there are rows in cashback_pools
          revenueTx,    \* sums over revenue_transactions
          request,      \* the handlers in flight
          contributed,  \* all that was added to the pool so far
          exposed,      \* the part that was added inside another's window
          unfunded,     \* cashback recorded while there were no pools
          started, aborts

money == <<pool, contributed, exposed>>
vars == <<seeded, money, cashback, cashbackOpen, revenueTx, request, unfunded, started,
          aborts>>

(***************************************************************************)
(* The split of a revenue: 5% to the reward pool, 2% and 3% to cashback.   *)
(***************************************************************************)
ToRewardPool(amount) == (amount * 5) \div 100
ToPerpetual(amount)  == (amount * 2) \div 100
ToBonus(amount)      == (amount * 3) \div 100
ToCashback(amount)   == ToPerpetual(amount) + ToBonus(amount)

(* pc names the next statement: "topup" is the write of a replenishment,   *)
(* "pool", "perpetual" and "bonus" are the three updates of a revenue,     *)
(* "lookup" stands for the two findFirst before the second of them, and    *)
(* "open" is the createMany of the cashback pools.                         *)
Request == [pc : {"idle", "topup", "pool", "lookup", "perpetual", "bonus", "open"},
            read : Nat, amount : Nat]

Idle == [pc |-> "idle", read |-> 0, amount |-> 0]

Free(r) == request[r].pc = "idle"
At(r, s) == request[r].pc = s
Goto(r, s) == request' = [request EXCEPT ![r].pc = s]
Done(r) == request' = [request EXCEPT ![r] = Idle]

(* A replenishment other than r's stands between its read and its write. *)
Window(r) == \E s \in Requests \ {r} : At(s, "topup")

TypeOK ==
    /\ seeded \in BOOLEAN
    /\ pool \in Nat /\ contributed \in Nat /\ exposed \in Nat
    /\ cashback \in [perpetual : Nat, bonus : Nat]
    /\ cashbackOpen \in BOOLEAN /\ unfunded \in Nat
    /\ revenueTx \in [toRewardPool : Nat, toCashbackPool : Nat]
    /\ request \in [Requests -> Request]
    /\ started \in Nat /\ aborts \in Nat

(* Nothing in the program creates the state's row, or removes it. *)
Init ==
    /\ seeded \in BOOLEAN
    /\ pool = InitialPool
    /\ cashback = [perpetual |-> 0, bonus |-> 0]
    /\ revenueTx = [toRewardPool |-> 0, toCashbackPool |-> 0]
    /\ request = [r \in Requests |-> Idle]
    /\ cashbackOpen = FALSE /\ unfunded = 0
    /\ contributed = 0 /\ exposed = 0 /\ started = 0 /\ aborts = 0

(* Book-keeping of the specification: amount reached the pool, from r. *)
Contribute(r, amount) ==
    /\ contributed' = contributed + amount
    /\ exposed' = IF Window(r) THEN exposed + amount ELSE exposed

(***************************************************************************)
(* replenishRewardPool: read the pool, write the sum.                      *)
(***************************************************************************)

ReplenishRead(r, amount) ==
    /\ seeded
    /\ Free(r) /\ started < MaxCredits
    /\ request' = [request EXCEPT ![r] = [pc |-> "topup", read |-> pool,
                                          amount |-> amount]]
    /\ started' = started + 1
    /\ UNCHANGED <<seeded, money, cashback, cashbackOpen, revenueTx, unfunded, aborts>>

ReplenishWrite(r) ==
    LET q == request[r]
    IN  /\ At(r, "topup")
        /\ pool' = q.read + q.amount
        /\ Contribute(r, q.amount)
        /\ Done(r)
        /\ UNCHANGED <<seeded, cashback, cashbackOpen, revenueTx, unfunded, started, aborts>>

(***************************************************************************)
(* recordRevenueReplenishment, which nothing in src/ calls yet: the audit  *)
(* row, then three increments.                                             *)
(***************************************************************************)

RevenueCreate(r, amount) ==
    /\ Free(r) /\ started < MaxCredits
    /\ revenueTx' = [revenueTx EXCEPT !.toRewardPool = @ + ToRewardPool(amount),
                                      !.toCashbackPool = @ + ToCashback(amount)]
    /\ request' = [request EXCEPT ![r] = [pc |-> "pool", read |-> 0,
                                          amount |-> amount]]
    /\ started' = started + 1
    /\ UNCHANGED <<seeded, money, cashback, cashbackOpen, unfunded, aborts>>

(* MUTANT of Incremented: the balance is set, not incremented. *)
Incremented_Set(balance, amount) == InitialPool + amount

(* What an SQL increment makes of a balance, whoever wrote it meanwhile. *)
Incremented(balance, amount) == balance + amount

(* MUTANT of RevenuePool: the whole revenue reaches the pool. *)
RevenuePool_Whole(r) ==
    LET share == ToRewardPool(request[r].amount)
    IN  /\ At(r, "pool")
        /\ IF seeded
           THEN pool' = Incremented(pool, request[r].amount) /\ Contribute(r, share)
           ELSE UNCHANGED money
        /\ Goto(r, "lookup")
        /\ UNCHANGED <<seeded, cashback, cashbackOpen, revenueTx, unfunded, started, aborts>>

(* Without a state row the increment is skipped silently. *)
RevenuePool(r) ==
    LET share == ToRewardPool(request[r].amount)
    IN  /\ At(r, "pool")
        /\ IF seeded
           THEN pool' = Incremented(pool, share) /\ Contribute(r, share)
           ELSE UNCHANGED money
        /\ Goto(r, "lookup")
        /\ UNCHANGED <<seeded, cashback, cashbackOpen, revenueTx, unfunded, started, aborts>>

(* With one of the cashback rows missing the rest is skipped silently. *)
RevenueLookup(r) ==
    /\ At(r, "lookup")
    /\ IF cashbackOpen
       THEN Goto(r, "perpetual") /\ UNCHANGED unfunded
       ELSE Done(r) /\ unfunded' = unfunded + ToCashback(request[r].amount)
    /\ UNCHANGED <<seeded, money, cashback, cashbackOpen, revenueTx, started, aborts>>

(* MUTANT of RevenuePerpetual: the update of the bonus pool is forgotten. *)
RevenuePerpetual_Last(r) ==
    /\ At(r, "perpetual")
    /\ cashback' = [cashback EXCEPT !.perpetual = @ + ToPerpetual(request[r].amount)]
    /\ Done(r)
    /\ UNCHANGED <<seeded, money, cashbackOpen, revenueTx, unfunded, started, aborts>>

RevenuePerpetual(r) ==
    /\ At(r, "perpetual")
    /\ cashback' = [cashback EXCEPT !.perpetual = @ + ToPerpetual(request[r].amount)]
    /\ Goto(r, "bonus")
    /\ UNCHANGED <<seeded, money, cashbackOpen, revenueTx, unfunded, started, aborts>>

RevenueBonus(r) ==
    /\ At(r, "bonus")
    /\ cashback' = [cashback EXCEPT !.bonus = @ + ToBonus(request[r].amount)]
    /\ Done(r)
    /\ UNCHANGED <<seeded, money, cashbackOpen, revenueTx, unfunded, started, aborts>>

(***************************************************************************)
(* unstakeTokens: Staking!UnstakeCredit, as the pool sees it.              *)
(***************************************************************************)

PenaltyCredit(r, amount) ==
    /\ seeded
    /\ Free(r) /\ started < MaxCredits
    /\ pool' = Incremented(pool, amount)
    /\ Contribute(r, amount)
    /\ started' = started + 1
    /\ UNCHANGED <<seeded, cashback, cashbackOpen, revenueTx, request, unfunded, aborts>>

(***************************************************************************)
(* initializePools of cashback.service.ts: look for rows, then add a pair. *)
(* Two requests may both add one.  The balances here are sums over all the *)
(* rows of a type, to which a new pair of zeros adds nothing.              *)
(***************************************************************************)

InitializeRead(r) ==
    /\ Free(r) /\ ~cashbackOpen
    /\ Goto(r, "open")
    /\ UNCHANGED <<seeded, money, cashback, cashbackOpen, revenueTx, unfunded,
                   started, aborts>>

InitializeCreate(r) ==
    /\ At(r, "open")
    /\ cashbackOpen' = TRUE
    /\ Done(r)
    /\ UNCHANGED <<seeded, money, cashback, revenueTx, unfunded, started, aborts>>

(* A statement throws or the replica dies; what was written stays. *)
Abort(r) ==
    /\ ~Free(r) /\ aborts < MaxAborts
    /\ aborts' = aborts + 1
    /\ Done(r)
    /\ UNCHANGED <<seeded, money, cashback, cashbackOpen, revenueTx, unfunded, started>>

Step(r) ==
    \/ \E a \in TopUps : ReplenishRead(r, a)
    \/ ReplenishWrite(r)
    \/ \E a \in Revenues : RevenueCreate(r, a)
    \/ RevenuePool(r)
    \/ RevenueLookup(r)
    \/ RevenuePerpetual(r)
    \/ RevenueBonus(r)
    \/ \E a \in Penalties : PenaltyCredit(r, a)
    \/ InitializeRead(r)
    \/ InitializeCreate(r)
    \/ Abort(r)

Next == \E r \in Requests : Step(r)

Spec == Init /\ [][Next]_vars

-----------------------------------------------------------------------------
(***************************************************************************)
(* Properties                                                              *)
(***************************************************************************)

(* No interleaving of top-ups, revenues and penalty credits makes money:   *)
(* the pool never holds more than was put into it, and never less than it  *)
(* started with (admin.service.ts:274-287, :379; staking.service.ts:173).  *)
PoolIsBacked ==
    /\ InitialPool <= pool
    /\ pool <= InitialPool + contributed

(* What can be lost: only a contribution that reached the pool while some  *)
(* replenishment stood between its read and its write.  Everything else    *)
(* is still there, in every order (admin.service.ts:274-287).              *)
LossIsExposed == InitialPool + contributed <= pool + exposed

Funded == cashback.perpetual + cashback.bonus + unfunded

(* The audit table bounds what revenues moved, even after a crash between  *)
(* the statements: nothing reached the cashback pools that no row records, *)
(* and when no request was cut short all of it did, but for the revenues   *)
(* that found no cashback pools (admin.service.ts:366-412).                *)
RevenueIsRecorded ==
    /\ Funded <= revenueTx.toCashbackPool
    /\ (aborts = 0 /\ \A r \in Requests : request[r].pc \in {"idle", "topup", "open"}) =>
           Funded = revenueTx.toCashbackPool

=============================================================================
