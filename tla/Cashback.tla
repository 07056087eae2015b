------------------------------ MODULE Cashback ------------------------------
(***************************************************************************)
(* cashback.service.ts: the two kinds of cashback pools, their opening,    *)
(* their funding and the payments out of them.  A payment is the minimum   *)
(* of what is due and of a balance that was read before; it is then sent   *)
(* as a decrement, and recorded by a further statement.                    *)
(*                                                                         *)
(* Each statement is one step, and a request may end after any of them.    *)
(* Nothing makes poolType unique: two requests that open the pools at once *)
(* add a pair of rows each, and every later findFirst, which has no order, *)
(* may return either.  recordRevenueReplenishment of admin.service.ts      *)
(* funds the same rows; the pairs of increments it can make are those that *)
(* fundPools can make, so it has no actions of its own here.               *)
(***************************************************************************)
EXTENDS Sums

CONSTANTS Requests,     \* request slots
          PerpetualSums, BonusSums,  \* amounts the pools are funded with
          Volumes,      \* trading volumes a payment is claimed for
          Averages,     \* 30-day averages of a wallet's stake, in billions
          MaxDue,       \* the largest cashback one request can ask for
          MaxStarted,   \* bound of the model: fundings and payments begun
          MaxAborts,    \* bound of the model: requests cut short
          Null          \* no row read yet

(* In basis points of the volume, by the average stake in whole billions:  *)
(* the code compares with multiples of a billion only.                     *)
CashbackBp(billions) ==
    IF billions < 1 THEN 50
    ELSE IF billions < 10 THEN 100
    ELSE IF billions < 100 THEN 150
    ELSE 200

CashbackAmount(volume, billions) == (volume * CashbackBp(billions)) \div 10000

(* A cashback of zero is answered before any pool is looked at. *)
Dues == {CashbackAmount(v, a) : v \in Volumes, a \in Averages} \ {0}

ASSUME RequestAssumption == IsFiniteSet(Requests) /\ Requests # {} /\ Null \notin Requests
ASSUME SumAssumption == PerpetualSums \subseteq Nat /\ BonusSums \subseteq Nat
ASSUME DueAssumption ==
    /\ Dues \subseteq Nat \ {0}
    /\ MaxDue \in Nat /\ \A d \in Dues : d <= MaxDue
ASSUME BoundAssumption == MaxStarted \in Nat /\ MaxAborts \in Nat

VARIABLES pairs,    \* the pairs of rows there are, by the request that made them
          balance,  \* cashback_pools.balance, by poolType and pair
          debits,   \* sums over cashback_transactions, by poolType
          request,  \* the handlers in flight
          funded,   \* all that was added to the pools so far, by poolType
          started, aborts

vars == <<pairs, balance, debits, request, funded, started, aborts>>

Kinds == {"BONUS", "PERPETUAL"}

(* Something for each kind. *)
Both(bonus, perpetual) == [k \in Kinds |-> IF k = "BONUS" THEN bonus ELSE perpetual]

(* pc names the next statement of fundPools ("fundPerpetual", "findBonus", *)
(* "fundBonus"), of distributeCashback ("findPerpetual", and a debit and a *)
(* record for each kind) or of initializePools ("open").  row and sum are  *)
(* the rows that were found and what will be moved into or out of them.    *)
DebitAt  == Both("debitBonus", "debitPerpetual")
RecordAt == Both("recordBonus", "recordPerpetual")

Request == [pc : {"idle", "open", "fundPerpetual", "findBonus", "fundBonus",
                  "findPerpetual", "debitBonus", "recordBonus",
                  "debitPerpetual", "recordPerpetual"},
            due : Nat,
            row : [Kinds -> Requests \union {Null}],
            sum : [Kinds -> Nat]]

Idle == [pc |-> "idle", due |-> 0, row |-> Both(Null, Null), sum |-> Both(0, 0)]

Free(r) == request[r].pc = "idle"
At(r, s) == request[r].pc = s
Goto(r, s) == request' = [request EXCEPT ![r].pc = s]
Done(r) == request' = [request EXCEPT ![r] = Idle]

TypeOK ==
    /\ pairs \in SUBSET Requests
    /\ balance \in [Kinds -> [Requests -> Int]]
    /\ debits \in [Kinds -> Nat] /\ funded \in [Kinds -> Nat]
    /\ request \in [Requests -> Request]
    /\ started \in Nat /\ aborts \in Nat

Init ==
    /\ pairs = {}
    /\ balance = [k \in Kinds |-> [i \in Requests |-> 0]]
    /\ debits = [k \in Kinds |-> 0] /\ funded = [k \in Kinds |-> 0]
    /\ request = [r \in Requests |-> Idle]
    /\ started = 0 /\ aborts = 0

(***************************************************************************)
(* initializePools: look for rows, then add a pair of them.                *)
(***************************************************************************)

InitializeRead(r) ==
    /\ Free(r) /\ pairs = {}
    /\ Goto(r, "open")
    /\ UNCHANGED <<pairs, balance, debits, funded, started, aborts>>

InitializeCreate(r) ==
    /\ At(r, "open")
    /\ pairs' = pairs \union {r}
    /\ balance' = [k \in Kinds |-> [balance[k] EXCEPT ![r] = 0]]
    /\ Done(r)
    /\ UNCHANGED <<debits, funded, started, aborts>>

(***************************************************************************)
(* fundPools: find and increment the perpetual pool, then the bonus pool.  *)
(***************************************************************************)

Start == started < MaxStarted /\ started' = started + 1

FundRead(r, i, perpetual, bonus) ==
    /\ Free(r) /\ i \in pairs /\ Start
    /\ request' = [request EXCEPT ![r] =
           [pc |-> "fundPerpetual", due |-> 0,
            row |-> Both(Null, i), sum |-> Both(bonus, perpetual)]]
    /\ UNCHANGED <<pairs, balance, debits, funded, aborts>>

(* MUTANT of Incremented: the balance is set, not incremented. *)
Incremented_Set(old, sum) == sum

(* What an SQL increment makes of a balance, whoever wrote it meanwhile. *)
Incremented(old, sum) == old + sum

Fund(r, k) ==
    LET q == request[r]
    IN  /\ balance' = [balance EXCEPT ![k][q.row[k]] = Incremented(@, q.sum[k])]
        /\ funded' = [funded EXCEPT ![k] = @ + q.sum[k]]
        /\ UNCHANGED <<pairs, debits, started, aborts>>

FundPerpetual(r) == At(r, "fundPerpetual") /\ Fund(r, "PERPETUAL") /\ Goto(r, "findBonus")

FundFind(r, i) ==
    /\ At(r, "findBonus") /\ i \in pairs
    /\ request' = [request EXCEPT ![r].pc = "fundBonus",
                                  ![r].row = Both(i, @["PERPETUAL"])]
    /\ UNCHANGED <<pairs, balance, debits, funded, started, aborts>>

FundBonus(r) == At(r, "fundBonus") /\ Fund(r, "BONUS") /\ Done(r)

(***************************************************************************)
(* distributeCashback: find both pools; then, for the bonus pool first,    *)
(* take what it had at the time and record it.                             *)
(***************************************************************************)

(* MUTANT of Payable: the balance that was read is not looked at. *)
Payable_Unbounded(due, read) == due

Payable(due, read) ==
    IF read <= 0 THEN 0 ELSE IF due <= read THEN due ELSE read

DistributeRead(r, i, due) ==
    /\ Free(r) /\ i \in pairs /\ Start
    /\ request' = [request EXCEPT ![r] =
           [pc |-> "findPerpetual", due |-> due,
            row |-> Both(i, Null),
            sum |-> Both(Payable(due, balance["BONUS"][i]), 0)]]
    /\ UNCHANGED <<pairs, balance, debits, funded, aborts>>

(* The statement that comes after, for a payment of bonus and perpetual. *)
FirstDebit(bonus, perpetual) == IF bonus > 0 THEN "debitBonus"
                                ELSE IF perpetual > 0 THEN "debitPerpetual" ELSE "idle"

(* What the bonus pool cannot pay is due from the perpetual pool. *)
DistributeFind(r, i) ==
    LET q    == request[r]
        rest == Payable(q.due - q.sum["BONUS"], balance["PERPETUAL"][i])
        next == FirstDebit(q.sum["BONUS"], rest)
    IN  /\ At(r, "findPerpetual") /\ i \in pairs
        /\ request' = [request EXCEPT ![r] =
               IF next = "idle" THEN Idle
               ELSE [pc |-> next, due |-> q.due,
                     row |-> Both(q.row["BONUS"], i),
                     sum |-> Both(q.sum["BONUS"], rest)]]
        /\ UNCHANGED <<pairs, balance, debits, funded, started, aborts>>

Debit(r, k) ==
    LET q == request[r]
    IN  /\ At(r, DebitAt[k])
        /\ balance' = [balance EXCEPT ![k][q.row[k]] = @ - q.sum[k]]
        /\ Goto(r, RecordAt[k])
        /\ UNCHANGED <<pairs, debits, funded, started, aborts>>

(* The transaction row; after that of the bonus comes the perpetual pool. *)
Record(r, k) ==
    LET q == request[r]
    IN  /\ At(r, RecordAt[k])
        /\ debits' = [debits EXCEPT ![k] = @ + q.sum[k]]
        /\ IF k = "BONUS" /\ q.sum["PERPETUAL"] > 0
           THEN Goto(r, "debitPerpetual") ELSE Done(r)
        /\ UNCHANGED <<pairs, balance, funded, started, aborts>>

(* A statement throws or the replica dies; what was written stays. *)
Abort(r) ==
    /\ ~Free(r) /\ aborts < MaxAborts
    /\ aborts' = aborts + 1
    /\ Done(r)
    /\ UNCHANGED <<pairs, balance, debits, funded, started>>

Step(r) ==
    \/ InitializeRead(r)
    \/ InitializeCreate(r)
    \/ \E i \in pairs, p \in PerpetualSums, b \in BonusSums : FundRead(r, i, p, b)
    \/ FundPerpetual(r)
    \/ \E i \in pairs : FundFind(r, i)
    \/ FundBonus(r)
    \/ \E i \in pairs, d \in Dues : DistributeRead(r, i, d)
    \/ \E i \in pairs : DistributeFind(r, i)
    \/ \E k \in Kinds : Debit(r, k)
    \/ \E k \in Kinds : Record(r, k)
    \/ Abort(r)

Next == \E r \in Requests : Step(r)

Spec == Init /\ [][Next]_vars

-----------------------------------------------------------------------------
(***************************************************************************)
(* Properties                                                              *)
(***************************************************************************)

(* What the rows of a kind have together. *)
Left(k) == SumOver([i \in pairs |-> balance[k][i]])

(* The books close: for each kind of pool, over however many rows of it    *)
(* there are, what is left and what the transactions record is no more     *)
(* than what was put in, and exactly that once nobody stands between a     *)
(* debit and its record and no request was cut short there                 *)
(* (cashback.service.ts:64-67, :90-93, :161-176, :184-199).                *)
BooksClose ==
    \A k \in Kinds :
        /\ Left(k) + debits[k] <= funded[k]
        /\ (aborts = 0 /\ \A r \in Requests : ~At(r, RecordAt[k]))
               => Left(k) + debits[k] = funded[k]

(* Payments that overlap may overdraw a pool, since each was measured with *)
(* a balance that the others have taken from since; but the overdraft is   *)
(* bounded by the payments in flight: it never exceeds the largest payment *)
(* for each of the other requests, however often the pools are refilled    *)
(* and paid from (cashback.service.ts:142-163, :180-187).                  *)
OverdraftBounded ==
    \A k \in Kinds, i \in Requests :
        balance[k][i] + (Cardinality(Requests) - 1) * MaxDue >= 0

=============================================================================
