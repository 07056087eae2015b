--------------------------- MODULE BenefitsProofs ---------------------------
(***************************************************************************)
(* Theorems about what a stake earns besides its rewards: the payments of  *)
(* Cashback and the discounts of Snapshots, whose 30-day averages both of  *)
(* them go by.  The two have no variable in common.                        *)
(*                                                                         *)
(* Cashback: however many requests overlap and however many rows of a kind *)
(* they have made, the overdraft of a row is bounded by the payments in    *)
(* flight.  The argument is IInv: the last of the payments to read a row   *)
(* saw a balance that covered it, and only the others, of at most MaxDue   *)
(* each, can have taken from the row since.                                *)
(*                                                                         *)
(* Snapshots: whatever jobs overlap, every row that an average is made of  *)
(* is an amount its wallet held in the period.  The argument is            *)
(* SnapshotsIInv: what a job found in its first statement was held on that *)
(* day, and no day's record loses an amount.                               *)
(***************************************************************************)
EXTENDS Cashback, Snapshots, SumsProofs

(***************************************************************************)
(* The inductive invariant.  Claimants are the requests that have read row *)
(* i for a payment they have not taken yet.  The last of them to read saw  *)
(* a balance that covered its own payment; only the others have taken from *)
(* the row since.                                                          *)
(***************************************************************************)

Holding == Both({"findPerpetual", "debitBonus"},
                {"debitBonus", "recordBonus", "debitPerpetual"})

Claimants(k, i) == {r \in Requests : /\ request[r].pc \in Holding[k]
                                     /\ request[r].row[k] = i
                                     /\ request[r].sum[k] > 0}

Slack(k, i) == (Cardinality(Requests) - Cardinality(Claimants(k, i))) * MaxDue

Covered(k, i) ==
    \/ balance[k][i] + Slack(k, i) >= MaxDue
    \/ \E r \in Claimants(k, i) : balance[k][i] + Slack(k, i) >= request[r].sum[k]

RowInv(r) ==
    /\ At(r, "open") => r \notin pairs
    /\ request[r].due <= MaxDue
    /\ \A k \in Kinds : request[r].pc \in Holding[k] => request[r].sum[k] <= request[r].due
    /\ request[r].pc \in {"fundPerpetual"} \union Holding["PERPETUAL"] =>
           request[r].row["PERPETUAL"] \in pairs
    /\ request[r].pc \in {"fundBonus"} \union Holding["BONUS"] =>
           request[r].row["BONUS"] \in pairs

(* A row that is not there has nothing in it. *)
PairInv == \A k \in Kinds, i \in Requests \ pairs : balance[k][i] = 0

IInv == /\ TypeOK
        /\ PairInv
        /\ \A r \in Requests : RowInv(r)
        /\ \A k \in Kinds, i \in Requests : Covered(k, i)

(* What a request has taken and not recorded yet accounts for the rest, if *)
(* none was cut short.                                                     *)
Unrecorded(r, k) == IF At(r, RecordAt[k]) THEN request[r].sum[k] ELSE 0

AllUnrecorded(k) == SumOver([r \in Requests |-> Unrecorded(r, k)])

BookInv ==
    \A k \in Kinds :
        /\ Left(k) + debits[k] + AllUnrecorded(k) <= funded[k]
        /\ aborts = 0 => Left(k) + debits[k] + AllUnrecorded(k) = funded[k]

-----------------------------------------------------------------------------
(***************************************************************************)
(* Arithmetic and cardinalities                                            *)
(***************************************************************************)

LEMMA MulSucc ==
    ASSUME NEW a \in Int, NEW b \in Int
    PROVE  (a + 1) * b = a * b + b
  OBVIOUS

LEMMA MulNat ==
    ASSUME NEW a \in Nat, NEW b \in Nat
    PROVE  a * b \in Nat
  OBVIOUS

LEMMA MulMono ==
    ASSUME NEW a \in Int, NEW c \in Int, NEW b \in Nat, a <= c
    PROVE  a * b <= c * b
<1>1. c - a \in Nat
  OBVIOUS
<1>2. (c - a) * b \in Nat
  BY <1>1, MulNat
<1>3. (c - a) * b = c * b - a * b
  OBVIOUS
<1> QED
  BY <1>2, <1>3

LEMMA ClaimantCount ==
    ASSUME NEW k \in Kinds, NEW i \in Requests
    PROVE  /\ IsFiniteSet(Claimants(k, i))
           /\ Cardinality(Claimants(k, i)) \in Nat
           /\ Cardinality(Requests) \in Nat
           /\ Cardinality(Claimants(k, i)) <= Cardinality(Requests)
<1>1. Claimants(k, i) \subseteq Requests
  BY DEF Claimants
<1> QED
  BY <1>1, RequestAssumption, FS_Subset, FS_CardinalityType

LEMMA SlackNat ==
    ASSUME NEW k \in Kinds, NEW i \in Requests
    PROVE  Slack(k, i) \in Nat
<1>1. PICK n \in Nat, c \in Nat :
          /\ n = Cardinality(Requests) /\ c = Cardinality(Claimants(k, i)) /\ c <= n
  BY ClaimantCount
<1>2. n - c \in Nat
  BY <1>1
<1> QED
  BY <1>1, <1>2, DueAssumption, MulNat DEF Slack

(* What covers a row bounds its overdraft. *)
LEMMA CoveredBounds ==
    ASSUME TypeOK, NEW k \in Kinds, NEW i \in Requests, Covered(k, i)
    PROVE  balance[k][i] + (Cardinality(Requests) - 1) * MaxDue >= 0
<1>1. PICK n \in Nat, c \in Nat, b \in Int, m \in Nat :
          /\ n = Cardinality(Requests) /\ c = Cardinality(Claimants(k, i)) /\ c <= n
          /\ b = balance[k][i] /\ m = MaxDue
  BY ClaimantCount, DueAssumption DEF TypeOK
<1>2. Slack(k, i) = (n - c) * m
  BY <1>1 DEF Slack
<1>3. (n - 1) * m + m = n * m
  <2>1. n - 1 \in Int
    OBVIOUS
  <2>2. ((n - 1) + 1) * m = (n - 1) * m + m
    BY <2>1, MulSucc
  <2> QED
    BY <2>2
<1>4. (n - 1) * m \in Int /\ (n - c) * m \in Int
  OBVIOUS
<1>5. CASE Claimants(k, i) = {}
  <2>1. b + (n - c) * m >= m
    BY <1>1, <1>2, <1>5 DEF Covered
  <2>2. c = 0
    BY <1>1, <1>5, FS_EmptySet
  <2>3. b + n * m >= m
    BY <2>1, <2>2
  <2> QED
    BY <1>1, <1>3, <1>4, <2>3
<1>6. CASE Claimants(k, i) # {}
  <2>1. c # 0
    BY <1>1, <1>6, ClaimantCount, FS_EmptySet
  <2>2. n - c <= n - 1
    BY <2>1
  <2>3. (n - c) * m <= (n - 1) * m
    BY <2>2, MulMono
  <2>4. b + (n - c) * m >= 0
    <3>1. CASE b + (n - c) * m >= m
      BY <1>4, <3>1
    <3>2. CASE \E r \in Claimants(k, i) : b + (n - c) * m >= request[r].sum[k]
      <4>1. PICK r \in Requests :
                /\ request[r].sum[k] \in Nat
                /\ b + (n - c) * m >= request[r].sum[k]
        BY <3>2 DEF Claimants, TypeOK, Request
      <4> QED
        BY <4>1, <1>4
    <3> QED
      BY <1>1, <1>2, <3>1, <3>2 DEF Covered
  <2> QED
    BY <1>1, <1>4, <2>3, <2>4
<1> QED
  BY <1>5, <1>6

(***************************************************************************)
(* What one request can do to the claims on one row                        *)
(***************************************************************************)

(* It is a claimant before and after, or neither. *)
LEMMA SameClaims ==
    ASSUME IInv, TypeOK', NEW r \in Requests, NEW k \in Kinds, NEW i \in Requests,
           \A s \in Requests \ {r} : request'[s] = request[s],
           r \in Claimants(k, i)' <=> r \in Claimants(k, i),
           r \in Claimants(k, i) => request'[r].sum[k] = request[r].sum[k],
           balance'[k][i] >= balance[k][i]
    PROVE  Covered(k, i)'
<1>1. Claimants(k, i)' = Claimants(k, i)
  <2>1. \A s \in Requests \ {r} : s \in Claimants(k, i)' <=> s \in Claimants(k, i)
    BY DEF Claimants
  <2>2. Claimants(k, i)' \subseteq Requests /\ Claimants(k, i) \subseteq Requests
    BY DEF Claimants
  <2> QED
    BY <2>1, <2>2
<1>2. Slack(k, i)' = Slack(k, i) /\ Slack(k, i) \in Nat
  BY <1>1, SlackNat DEF Slack
<1>3. balance[k][i] \in Int /\ balance'[k][i] \in Int /\ MaxDue \in Nat
  BY DueAssumption DEF IInv, TypeOK
<1>4. Covered(k, i)
  BY DEF IInv
<1>5. CASE balance[k][i] + Slack(k, i) >= MaxDue
  BY <1>2, <1>3, <1>5 DEF Covered
<1>6. ASSUME NEW q \in Claimants(k, i), balance[k][i] + Slack(k, i) >= request[q].sum[k]
      PROVE  Covered(k, i)'
  <2>1. request'[q].sum[k] = request[q].sum[k] /\ request[q].sum[k] \in Nat
    BY DEF Claimants, IInv, TypeOK, Request
  <2>2. balance'[k][i] + Slack(k, i)' >= request'[q].sum[k]
    BY <1>2, <1>3, <1>6, <2>1
  <2> QED
    BY <1>1, <2>2 DEF Covered
<1> QED
  BY <1>4, <1>5, <1>6 DEF Covered

(* It stops claiming, having taken at most what it claimed. *)
LEMMA LeaveClaims ==
    ASSUME IInv, TypeOK', NEW r \in Requests, NEW k \in Kinds, NEW i \in Requests,
           \A s \in Requests \ {r} : request'[s] = request[s],
           r \in Claimants(k, i), r \notin Claimants(k, i)',
           balance'[k][i] >= balance[k][i] - request[r].sum[k]
    PROVE  Covered(k, i)'
<1>1. Claimants(k, i)' = Claimants(k, i) \ {r}
  <2>1. \A s \in Requests \ {r} : s \in Claimants(k, i)' <=> s \in Claimants(k, i)
    BY DEF Claimants
  <2>2. Claimants(k, i)' \subseteq Requests /\ Claimants(k, i) \subseteq Requests
    BY DEF Claimants
  <2> QED
    BY <2>1, <2>2
<1>2. PICK n \in Nat, c \in Nat, m \in Nat :
          /\ n = Cardinality(Requests) /\ c = Cardinality(Claimants(k, i)) /\ m = MaxDue
  BY ClaimantCount, DueAssumption
<1>3. Cardinality(Claimants(k, i)') = c - 1
  BY <1>1, <1>2, ClaimantCount, FS_RemoveElement
<1>4. Slack(k, i)' = Slack(k, i) + m
  <2>1. n - c \in Int /\ n - (c - 1) = (n - c) + 1
    OBVIOUS
  <2>2. ((n - c) + 1) * m = (n - c) * m + m
    BY <2>1, MulSucc
  <2> QED
    BY <1>2, <1>3, <2>1, <2>2 DEF Slack
<1>5. PICK b \in Int, b1 \in Int, u \in Nat, d \in Nat :
          /\ b = balance[k][i] /\ b1 = balance'[k][i]
          /\ u = Slack(k, i) /\ d = request[r].sum[k]
  BY SlackNat DEF IInv, TypeOK, Request
<1>6. d <= m /\ b1 >= b - d /\ Slack(k, i)' = u + m
  <2>1. d <= request[r].due /\ request[r].due <= m /\ request[r].due \in Nat
    BY <1>2, <1>5 DEF IInv, RowInv, Claimants, TypeOK, Request
  <2> QED
    BY <1>2, <1>4, <1>5, <2>1
<1>7. Covered(k, i)
  BY DEF IInv
<1>8. CASE b + u >= d
  <2>1. b1 + (u + m) >= m
    BY <1>6, <1>8
  <2> QED
    BY <1>2, <1>5, <1>6, <2>1 DEF Covered
<1>9. ASSUME NEW q \in Claimants(k, i), q # r, b + u >= request[q].sum[k]
      PROVE  Covered(k, i)'
  <2>1. request'[q].sum[k] = request[q].sum[k] /\ request[q].sum[k] \in Nat
    BY <1>9 DEF Claimants, IInv, TypeOK, Request
  <2>2. b1 + (u + m) >= request[q].sum[k]
    BY <1>6, <1>9, <2>1
  <2> QED
    BY <1>1, <1>5, <1>6, <1>9, <2>1, <2>2 DEF Covered
<1> QED
  <2>1. CASE b + u >= m
    <3>1. b + u >= d
      BY <1>6, <2>1
    <3> QED
      BY <1>8, <3>1
  <2>2. ASSUME NEW q \in Claimants(k, i), b + u >= request[q].sum[k]
        PROVE  Covered(k, i)'
    BY <1>5, <1>8, <1>9, <2>2
  <2> QED
    BY <1>2, <1>5, <1>7, <2>1, <2>2 DEF Covered

(* It begins to claim what it has just seen in the row. *)
LEMMA JoinClaims ==
    ASSUME TypeOK', NEW r \in Requests, NEW k \in Kinds, NEW i \in Requests,
           r \in Claimants(k, i)', balance'[k][i] >= request'[r].sum[k]
    PROVE  Covered(k, i)'
<1>1. Slack(k, i)' \in Nat
  <2>1. Claimants(k, i)' \subseteq Requests
    BY DEF Claimants
  <2>2. PICK n \in Nat, c \in Nat :
            /\ n = Cardinality(Requests) /\ c = Cardinality(Claimants(k, i)')
            /\ c <= n
    BY <2>1, RequestAssumption, FS_Subset, FS_CardinalityType
  <2>3. n - c \in Nat
    BY <2>2
  <2> QED
    BY <2>2, <2>3, DueAssumption, MulNat DEF Slack
<1>2. balance'[k][i] \in Int /\ request'[r].sum[k] \in Nat
  BY DEF TypeOK, Request
<1>3. balance'[k][i] + Slack(k, i)' >= request'[r].sum[k]
  BY <1>1, <1>2
<1> QED
  BY <1>3 DEF Covered

(***************************************************************************)
(* The handlers                                                            *)
(***************************************************************************)

LEMMA BothType ==
    ASSUME NEW S, NEW b \in S, NEW p \in S
    PROVE  Both(b, p) \in [Kinds -> S]
  BY DEF Both, Kinds

LEMMA BothAt ==
    ASSUME NEW b, NEW p
    PROVE  Both(b, p)["BONUS"] = b /\ Both(b, p)["PERPETUAL"] = p
  BY DEF Both, Kinds

LEMMA IdleType == Idle \in Request
<1>1. Null \in Requests \union {Null} /\ 0 \in Nat
  OBVIOUS
<1>2. Both(Null, Null) \in [Kinds -> Requests \union {Null}] /\ Both(0, 0) \in [Kinds -> Nat]
  BY <1>1, BothType
<1> QED
  BY <1>2 DEF Idle, Request

LEMMA DoneEffect ==
    ASSUME NEW r \in Requests, TypeOK, Done(r)
    PROVE  /\ request' \in [Requests -> Request]
           /\ request'[r].pc = "idle" /\ request'[r].due = 0
           /\ \A s \in Requests \ {r} : request'[s] = request[s]
<1>1. request' = [request EXCEPT ![r] = Idle] /\ Idle \in Request
  BY IdleType DEF Done
<1> QED
  BY <1>1 DEF TypeOK, Idle

LEMMA GotoEffect ==
    ASSUME NEW r \in Requests, TypeOK,
           NEW s \in {"open", "findBonus", "debitPerpetual",
                      "recordBonus", "recordPerpetual"}, Goto(r, s)
    PROVE  /\ request' \in [Requests -> Request]
           /\ request'[r].pc = s /\ request'[r].due = request[r].due
           /\ request'[r].row = request[r].row /\ request'[r].sum = request[r].sum
           /\ \A t \in Requests \ {r} : request'[t] = request[t]
  BY DEF TypeOK, Goto, Request

(* A handler that is neither payment nor opening satisfies RowInv. *)
LEMMA QuietRow ==
    ASSUME NEW r \in Requests,
           request'[r].pc \in {"idle", "findBonus", "recordPerpetual"},
           request'[r].due <= MaxDue
    PROVE  RowInv(r)'
  BY DEF RowInv, At, Holding, Both, Kinds

(* What one step of request r has to show for the invariant. *)
LEMMA StepInv ==
    ASSUME IInv, NEW r \in Requests, TypeOK', PairInv', RowInv(r)',
           pairs' = pairs \/ pairs' = pairs \union {r},
           \A s \in Requests \ {r} : request'[s] = request[s],
           \A k \in Kinds : \A i \in Requests : Covered(k, i)'
    PROVE  IInv'
<1>1. ASSUME NEW s \in Requests \ {r} PROVE RowInv(s)'
  <2>1. RowInv(s) /\ request'[s] = request[s]
    BY DEF IInv
  <2>2. pairs \subseteq pairs' /\ (s \notin pairs => s \notin pairs')
    OBVIOUS
  <2> QED
    BY <2>1, <2>2 DEF RowInv, At
<1> QED
  BY <1>1 DEF IInv

(* A request that claims neither before nor after a step which takes       *)
(* nothing from any row leaves every row covered.                          *)
LEMMA NoClaims ==
    ASSUME IInv, TypeOK', NEW r \in Requests,
           \A s \in Requests \ {r} : request'[s] = request[s],
           \A k \in Kinds : \A i \in Requests : balance'[k][i] >= balance[k][i],
           \A k \in Kinds : request[r].pc \notin Holding[k] /\ request'[r].pc \notin Holding[k]
    PROVE  \A k \in Kinds : \A i \in Requests : Covered(k, i)'
<1> SUFFICES ASSUME NEW k \in Kinds, NEW i \in Requests PROVE Covered(k, i)'
  OBVIOUS
<1>1. r \notin Claimants(k, i) /\ r \notin Claimants(k, i)'
  BY DEF Claimants
<1> QED
  BY <1>1, SameClaims

LEMMA QuietPcs ==
    \A k \in Kinds : \A s \in {"idle", "open", "fundPerpetual", "findBonus", "fundBonus",
                               "recordPerpetual"} : s \notin Holding[k]
  BY DEF Kinds, Holding, Both

LEMMA HoldingPcs ==
    /\ Holding["BONUS"] = {"findPerpetual", "debitBonus"}
    /\ Holding["PERPETUAL"] = {"debitBonus", "recordBonus", "debitPerpetual"}
    /\ Kinds = {"BONUS", "PERPETUAL"}
  BY DEF Kinds, Holding, Both

LEMMA SameBalance ==
    ASSUME TypeOK, balance' = balance
    PROVE  \A k \in Kinds : \A i \in Requests : balance'[k][i] >= balance[k][i]
  BY DEF TypeOK

LEMMA InitIInv == Init => IInv
<1> SUFFICES ASSUME Init PROVE IInv
  OBVIOUS
<1>1. TypeOK
  BY IdleType DEF Init, TypeOK
<1>2. PairInv
  BY DEF Init, PairInv
<1>3. \A r \in Requests : RowInv(r)
  BY HoldingPcs, DueAssumption DEF Init, RowInv, Idle, At
<1>4. ASSUME NEW k \in Kinds, NEW i \in Requests PROVE Covered(k, i)
  <2>1. Claimants(k, i) = {}
    BY QuietPcs DEF Claimants, Init, Idle
  <2>2. PICK n \in Nat, m \in Nat : n = Cardinality(Requests) /\ m = MaxDue /\ n # 0
    BY ClaimantCount, RequestAssumption, DueAssumption, FS_EmptySet
  <2>3. Slack(k, i) = n * m
    BY <2>1, <2>2, FS_EmptySet DEF Slack
  <2>4. 1 * m <= n * m
    <3>1. 1 <= n
      BY <2>2
    <3> QED
      BY <3>1, MulMono
  <2>5. 0 + Slack(k, i) >= MaxDue
    BY <2>2, <2>3, <2>4
  <2> QED
    BY <2>5 DEF Covered, Init
<1> QED
  BY <1>1, <1>2, <1>3, <1>4 DEF IInv

LEMMA InitializeReadInv ==
    ASSUME IInv, NEW r \in Requests, InitializeRead(r)
    PROVE  IInv'
<1>1. /\ request' \in [Requests -> Request]
      /\ request'[r].pc = "open" /\ request[r].pc = "idle"
      /\ request'[r].due <= MaxDue
      /\ \A t \in Requests \ {r} : request'[t] = request[t]
      /\ UNCHANGED <<pairs, balance, debits, funded, started, aborts>> /\ pairs = {}
  BY GotoEffect DEF InitializeRead, IInv, Free, RowInv
<1>2. TypeOK' /\ PairInv'
  BY <1>1 DEF IInv, TypeOK, PairInv
<1>3. RowInv(r)'
  BY <1>1, HoldingPcs DEF RowInv, At
<1>4. \A k \in Kinds : \A i \in Requests : Covered(k, i)'
  BY <1>1, <1>2, QuietPcs, SameBalance, NoClaims DEF IInv
<1> QED
  BY <1>1, <1>2, <1>3, <1>4, StepInv

LEMMA InitializeCreateInv ==
    ASSUME IInv, NEW r \in Requests, InitializeCreate(r)
    PROVE  IInv'
<1>1. /\ request' \in [Requests -> Request]
      /\ request'[r].pc = "idle" /\ request[r].pc = "open"
      /\ request'[r].due <= MaxDue
      /\ \A t \in Requests \ {r} : request'[t] = request[t]
      /\ pairs' = pairs \union {r}
      /\ balance' = [k \in Kinds |-> [balance[k] EXCEPT ![r] = 0]]
      /\ UNCHANGED <<debits, funded, started, aborts>>
  BY DoneEffect, DueAssumption DEF InitializeCreate, IInv, At
<1>2. \A k \in Kinds : balance[k][r] = 0
  BY <1>1 DEF IInv, RowInv, PairInv, At
<1>3. balance' = balance
  BY <1>1, <1>2 DEF IInv, TypeOK
<1>4. TypeOK' /\ PairInv'
  BY <1>1, <1>3 DEF IInv, TypeOK, PairInv
<1>5. RowInv(r)'
  BY <1>1, QuietRow
<1>6. \A k \in Kinds : \A i \in Requests : Covered(k, i)'
  BY <1>1, <1>3, <1>4, QuietPcs, SameBalance, NoClaims DEF IInv
<1> QED
  BY <1>1, <1>4, <1>5, <1>6, StepInv

(* A handler is set up or goes on with another record. *)
LEMMA SetEffect ==
    ASSUME TypeOK, NEW r \in Requests, NEW q \in Request,
           request' = [request EXCEPT ![r] = q]
    PROVE  /\ request' \in [Requests -> Request]
           /\ request'[r] = q
           /\ \A s \in Requests \ {r} : request'[s] = request[s]
  BY DEF TypeOK

LEMMA FundReadInv ==
    ASSUME IInv, NEW r \in Requests, NEW i \in pairs,
           NEW p \in PerpetualSums, NEW b \in BonusSums, FundRead(r, i, p, b)
    PROVE  IInv'
<1> DEFINE q == [pc |-> "fundPerpetual", due |-> 0,
                 row |-> Both(Null, i), sum |-> Both(b, p)]
<1>1. i \in Requests /\ p \in Nat /\ b \in Nat
  BY SumAssumption DEF IInv, TypeOK
<1>2. q \in Request
  <2>1. Both(Null, i) \in [Kinds -> Requests \union {Null}] /\ Both(b, p) \in [Kinds -> Nat]
    BY <1>1, BothType
  <2> QED
    BY <2>1 DEF Request
<1>3. /\ request' = [request EXCEPT ![r] = q] /\ request[r].pc = "idle"
      /\ started' = started + 1
      /\ UNCHANGED <<pairs, balance, debits, funded, aborts>>
  BY DEF FundRead, Start, Free
<1>4. /\ request' \in [Requests -> Request] /\ request'[r] = q
      /\ \A s \in Requests \ {r} : request'[s] = request[s]
  BY <1>2, <1>3, SetEffect DEF IInv
<1>5. TypeOK' /\ PairInv'
  BY <1>3, <1>4 DEF IInv, TypeOK, PairInv
<1>6. RowInv(r)'
  <2>1. Both(Null, i)["PERPETUAL"] = i
    BY BothAt
  <2> QED
    BY <1>3, <1>4, <2>1, HoldingPcs, DueAssumption DEF RowInv, At
<1>7. \A k \in Kinds : \A j \in Requests : Covered(k, j)'
  BY <1>3, <1>4, <1>5, QuietPcs, SameBalance, NoClaims DEF IInv
<1> QED
  BY <1>3, <1>4, <1>5, <1>6, <1>7, StepInv

LEMMA FundFindInv ==
    ASSUME IInv, NEW r \in Requests, NEW i \in pairs, FundFind(r, i)
    PROVE  IInv'
<1> DEFINE q == [request[r] EXCEPT !.pc = "fundBonus",
                                   !.row = Both(i, request[r].row["PERPETUAL"])]
<1>1. i \in Requests /\ request[r].row["PERPETUAL"] \in Requests \union {Null}
  BY HoldingPcs DEF IInv, TypeOK, Request
<1>2. Both(i, request[r].row["PERPETUAL"]) \in [Kinds -> Requests \union {Null}]
  BY <1>1, BothType
<1>3. q \in Request
  BY <1>2 DEF IInv, TypeOK, Request
<1>4. /\ request' = [request EXCEPT ![r] = q] /\ request[r].pc = "findBonus"
      /\ UNCHANGED <<pairs, balance, debits, funded, started, aborts>>
  BY DEF FundFind, At, IInv, TypeOK, Request
<1>5. /\ request' \in [Requests -> Request] /\ request'[r] = q
      /\ \A s \in Requests \ {r} : request'[s] = request[s]
  BY <1>3, <1>4, SetEffect DEF IInv
<1>6. TypeOK' /\ PairInv'
  BY <1>4, <1>5 DEF IInv, TypeOK, PairInv
<1>7. request'[r].pc = "fundBonus" /\ request'[r].row["BONUS"] = i
      /\ request'[r].due = request[r].due
  BY <1>1, <1>5, BothAt DEF IInv, TypeOK, Request
<1>8. RowInv(r)'
  BY <1>4, <1>7, HoldingPcs DEF RowInv, At, IInv
<1>9. \A k \in Kinds : \A j \in Requests : Covered(k, j)'
  BY <1>4, <1>5, <1>6, <1>7, QuietPcs, SameBalance, NoClaims DEF IInv
<1> QED
  BY <1>4, <1>5, <1>6, <1>8, <1>9, StepInv

(* Funding adds to a row that exists. *)
LEMMA FundEffect ==
    ASSUME IInv, NEW r \in Requests, NEW k \in Kinds, Fund(r, k),
           request[r].row[k] \in pairs
    PROVE  /\ balance' \in [Kinds -> [Requests -> Int]] /\ funded' \in [Kinds -> Nat]
           /\ UNCHANGED <<pairs, debits, started, aborts>>
           /\ PairInv'
           /\ \A l \in Kinds : \A j \in Requests : balance'[l][j] >= balance[l][j]
<1>1. PICK i \in Requests, d \in Nat :
          i = request[r].row[k] /\ d = request[r].sum[k] /\ i \in pairs
  BY DEF IInv, TypeOK, Request
<1>2. /\ balance' = [balance EXCEPT ![k][i] = balance[k][i] + d]
      /\ funded' = [funded EXCEPT ![k] = funded[k] + d]
      /\ UNCHANGED <<pairs, debits, started, aborts>>
  BY <1>1 DEF Fund, Incremented, IInv, TypeOK
<1>3. balance[k][i] \in Int /\ funded[k] \in Nat
  BY DEF IInv, TypeOK
<1>4. balance[k][i] + d \in Int /\ funded[k] + d \in Nat /\ balance[k][i] + d >= balance[k][i]
  BY <1>3
<1>5. balance' \in [Kinds -> [Requests -> Int]] /\ funded' \in [Kinds -> Nat]
  BY <1>2, <1>4 DEF IInv, TypeOK
<1>6. \A l \in Kinds : \A j \in Requests :
          balance'[l][j] = IF l = k /\ j = i THEN balance[k][i] + d ELSE balance[l][j]
  BY <1>2 DEF IInv, TypeOK
<1>7. PairInv'
  BY <1>1, <1>2, <1>6 DEF IInv, PairInv
<1>8. ASSUME NEW l \in Kinds, NEW j \in Requests PROVE balance'[l][j] >= balance[l][j]
  <2>1. balance[l][j] \in Int
    BY DEF IInv, TypeOK
  <2> QED
    BY <1>4, <1>6, <2>1
<1> QED
  BY <1>2, <1>5, <1>7, <1>8

LEMMA FundPerpetualInv ==
    ASSUME IInv, NEW r \in Requests, FundPerpetual(r)
    PROVE  IInv'
<1>1. request[r].pc = "fundPerpetual" /\ request[r].row["PERPETUAL"] \in pairs
  BY DEF FundPerpetual, At, IInv, RowInv
<1>2. "PERPETUAL" \in Kinds /\ Fund(r, "PERPETUAL")
  BY HoldingPcs DEF FundPerpetual
<1>3. /\ balance' \in [Kinds -> [Requests -> Int]] /\ funded' \in [Kinds -> Nat]
      /\ UNCHANGED <<pairs, debits, started, aborts>> /\ PairInv'
      /\ \A l \in Kinds : \A j \in Requests : balance'[l][j] >= balance[l][j]
  BY <1>1, <1>2, FundEffect
<1>4. /\ request' \in [Requests -> Request]
      /\ request'[r].pc = "findBonus" /\ request'[r].due <= MaxDue
      /\ \A t \in Requests \ {r} : request'[t] = request[t]
  BY GotoEffect DEF FundPerpetual, IInv, RowInv
<1>5. TypeOK'
  BY <1>3, <1>4 DEF IInv, TypeOK
<1>6. \A k \in Kinds : \A j \in Requests : Covered(k, j)'
  BY <1>1, <1>3, <1>4, <1>5, QuietPcs, NoClaims
<1> QED
  BY <1>3, <1>4, <1>5, <1>6, QuietRow, StepInv

LEMMA FundBonusInv ==
    ASSUME IInv, NEW r \in Requests, FundBonus(r)
    PROVE  IInv'
<1>1. request[r].pc = "fundBonus" /\ request[r].row["BONUS"] \in pairs
  BY DEF FundBonus, At, IInv, RowInv
<1>2. "BONUS" \in Kinds /\ Fund(r, "BONUS")
  BY HoldingPcs DEF FundBonus
<1>3. /\ balance' \in [Kinds -> [Requests -> Int]] /\ funded' \in [Kinds -> Nat]
      /\ UNCHANGED <<pairs, debits, started, aborts>> /\ PairInv'
      /\ \A l \in Kinds : \A j \in Requests : balance'[l][j] >= balance[l][j]
  BY <1>1, <1>2, FundEffect
<1>4. /\ request' \in [Requests -> Request]
      /\ request'[r].pc = "idle" /\ request'[r].due <= MaxDue
      /\ \A t \in Requests \ {r} : request'[t] = request[t]
  BY DoneEffect, DueAssumption DEF FundBonus, IInv
<1>5. TypeOK'
  BY <1>3, <1>4 DEF IInv, TypeOK
<1>6. \A k \in Kinds : \A j \in Requests : Covered(k, j)'
  BY <1>1, <1>3, <1>4, <1>5, QuietPcs, NoClaims
<1> QED
  BY <1>3, <1>4, <1>5, <1>6, QuietRow, StepInv

(* A request that claims no more than before, and takes nothing. *)
LEMMA KeepClaims ==
    ASSUME IInv, TypeOK', NEW r \in Requests, NEW k \in Kinds, NEW i \in Requests,
           \A s \in Requests \ {r} : request'[s] = request[s],
           r \in Claimants(k, i)' =>
               r \in Claimants(k, i) /\ request'[r].sum[k] = request[r].sum[k],
           balance'[k][i] >= balance[k][i]
    PROVE  Covered(k, i)'
<1>1. CASE r \in Claimants(k, i) /\ r \notin Claimants(k, i)'
  <2>1. /\ balance[k][i] \in Int /\ balance'[k][i] \in Int /\ request[r].sum[k] \in Nat
    BY DEF IInv, TypeOK, Request
  <2>2. balance'[k][i] >= balance[k][i] - request[r].sum[k]
    BY <2>1
  <2> QED
    BY <1>1, <2>2, LeaveClaims
<1>2. CASE r \in Claimants(k, i) /\ r \in Claimants(k, i)'
  BY <1>2, SameClaims
<1>3. CASE r \notin Claimants(k, i)
  BY <1>3, SameClaims
<1> QED
  BY <1>1, <1>2, <1>3

LEMMA PayableBounds ==
    ASSUME NEW d \in Nat, NEW b \in Int
    PROVE  /\ Payable(d, b) \in Nat /\ Payable(d, b) <= d
           /\ Payable(d, b) > 0 => b >= Payable(d, b)
  BY DEF Payable

LEMMA DistributeReadInv ==
    ASSUME IInv, NEW r \in Requests, NEW i \in pairs, NEW d \in Dues,
           DistributeRead(r, i, d)
    PROVE  IInv'
<1> DEFINE paid == Payable(d, balance["BONUS"][i])
           q == [pc |-> "findPerpetual", due |-> d,
                 row |-> Both(i, Null), sum |-> Both(paid, 0)]
<1>1. /\ i \in Requests /\ d \in Nat /\ d <= MaxDue /\ balance["BONUS"][i] \in Int
      /\ "BONUS" \in Kinds
  BY DueAssumption, HoldingPcs DEF IInv, TypeOK
<1>2. paid \in Nat /\ paid <= d /\ (paid > 0 => balance["BONUS"][i] >= paid)
  BY <1>1, PayableBounds
<1>3. q \in Request
  <2>1. Both(i, Null) \in [Kinds -> Requests \union {Null}] /\ Both(paid, 0) \in [Kinds -> Nat]
    BY <1>1, <1>2, BothType
  <2> QED
    BY <1>1, <2>1 DEF Request
<1>4. /\ request' = [request EXCEPT ![r] = q] /\ request[r].pc = "idle"
      /\ started' = started + 1
      /\ UNCHANGED <<pairs, balance, debits, funded, aborts>>
  BY DEF DistributeRead, Start, Free
<1>5. /\ request' \in [Requests -> Request] /\ request'[r] = q
      /\ \A s \in Requests \ {r} : request'[s] = request[s]
  BY <1>3, <1>4, SetEffect DEF IInv
<1>6. TypeOK' /\ PairInv'
  BY <1>4, <1>5 DEF IInv, TypeOK, PairInv
<1>7. /\ request'[r].pc = "findPerpetual" /\ request'[r].due = d
      /\ request'[r].row["BONUS"] = i /\ request'[r].sum["BONUS"] = paid
  BY <1>5, BothAt
<1> HIDE DEF paid, q
<1>8. RowInv(r)'
  BY <1>1, <1>2, <1>4, <1>7, HoldingPcs DEF RowInv, At
<1>9. ASSUME NEW k \in Kinds, NEW j \in Requests PROVE Covered(k, j)'
  <2>1. r \notin Claimants(k, j) /\ balance'[k][j] >= balance[k][j]
    BY <1>4, QuietPcs, SameBalance DEF Claimants, IInv
  <2>2. CASE r \in Claimants(k, j)'
    <3>1. k = "BONUS" /\ j = i /\ paid > 0
      BY <1>7, <2>2, HoldingPcs DEF Claimants
    <3>2. balance'[k][j] >= request'[r].sum[k]
      BY <1>2, <1>4, <1>7, <3>1
    <3> QED
      BY <1>6, <2>2, <3>2, JoinClaims
  <2>3. CASE r \notin Claimants(k, j)'
    BY <1>5, <1>6, <2>1, <2>3, SameClaims
  <2> QED
    BY <2>2, <2>3
<1> QED
  BY <1>4, <1>5, <1>6, <1>8, <1>9, StepInv

LEMMA DistributeFindInv ==
    ASSUME IInv, NEW r \in Requests, NEW i \in pairs, DistributeFind(r, i)
    PROVE  IInv'
<1>1. PICK due \in Nat, bonus \in Nat, row \in Requests :
          /\ due = request[r].due /\ bonus = request[r].sum["BONUS"]
          /\ row = request[r].row["BONUS"] /\ row \in pairs
          /\ bonus <= due /\ due <= MaxDue
  BY HoldingPcs DEF DistributeFind, At, IInv, RowInv, TypeOK, Request
<1> DEFINE rest == Payable(due - bonus, balance["PERPETUAL"][i])
           next == FirstDebit(bonus, rest)
           q == IF next = "idle" THEN Idle
                ELSE [pc |-> next, due |-> due,
                      row |-> Both(row, i), sum |-> Both(bonus, rest)]
<1>2. i \in Requests /\ balance["PERPETUAL"][i] \in Int /\ due - bonus \in Nat
  BY <1>1, HoldingPcs DEF IInv, TypeOK
<1>3. rest \in Nat /\ rest <= due /\ (rest > 0 => balance["PERPETUAL"][i] >= rest)
  <2>1. /\ rest \in Nat /\ rest <= due - bonus
        /\ rest > 0 => balance["PERPETUAL"][i] >= rest
    BY <1>2, PayableBounds
  <2> QED
    BY <1>1, <2>1
<1>4. /\ request' = [request EXCEPT ![r] = q] /\ request[r].pc = "findPerpetual"
      /\ UNCHANGED <<pairs, balance, debits, funded, started, aborts>>
  BY <1>1 DEF DistributeFind, At
<1>5. next \in {"idle", "debitBonus", "debitPerpetual"} /\ (next = "debitPerpetual" => bonus = 0)
      /\ (next = "idle" => bonus = 0)
  BY <1>1 DEF FirstDebit
<1> HIDE DEF next, rest
<1>6. q \in Request
  <2>1. Both(row, i) \in [Kinds -> Requests \union {Null}] /\ Both(bonus, rest) \in [Kinds -> Nat]
    BY <1>1, <1>2, <1>3, BothType
  <2> QED
    BY <1>1, <1>5, <2>1, IdleType DEF Request
<1>7. /\ request' \in [Requests -> Request] /\ request'[r] = q
      /\ \A s \in Requests \ {r} : request'[s] = request[s]
  BY <1>4, <1>6, SetEffect DEF IInv
<1>8. TypeOK' /\ PairInv'
  BY <1>4, <1>7 DEF IInv, TypeOK, PairInv
<1>9. CASE next = "idle"
  <2>1. request'[r].pc = "idle" /\ request'[r].due = 0
    BY <1>7, <1>9 DEF Idle
  <2>2. RowInv(r)'
    BY <2>1, DueAssumption, QuietRow
  <2>3. ASSUME NEW k \in Kinds, NEW j \in Requests PROVE Covered(k, j)'
    <3>1. r \notin Claimants(k, j)' /\ balance'[k][j] >= balance[k][j]
      BY <1>4, <2>1, QuietPcs, SameBalance DEF Claimants, IInv
    <3> QED
      BY <1>7, <1>8, <3>1, KeepClaims
  <2> QED
    BY <1>4, <1>7, <1>8, <2>2, <2>3, StepInv
<1>10. CASE next # "idle"
  <2>1. /\ request'[r].pc = next /\ request'[r].due = due
        /\ request'[r].row["BONUS"] = row /\ request'[r].row["PERPETUAL"] = i
        /\ request'[r].sum["BONUS"] = bonus /\ request'[r].sum["PERPETUAL"] = rest
    BY <1>7, <1>10, BothAt
  <2> HIDE DEF q
  <2>2. RowInv(r)'
    BY <1>1, <1>3, <1>4, <1>5, <1>10, <2>1, HoldingPcs DEF RowInv, At
  <2>3. ASSUME NEW j \in Requests PROVE Covered("BONUS", j)'
    <3>1. r \in Claimants("BONUS", j)' => r \in Claimants("BONUS", j)
      BY <1>1, <1>4, <1>5, <1>10, <2>1, HoldingPcs DEF Claimants
    <3>2. balance'["BONUS"][j] >= balance["BONUS"][j]
      BY <1>4, SameBalance, HoldingPcs DEF IInv
    <3> QED
      BY <1>1, <1>7, <1>8, <2>1, <3>1, <3>2, HoldingPcs, KeepClaims
  <2>4. ASSUME NEW j \in Requests PROVE Covered("PERPETUAL", j)'
    <3>1. /\ r \notin Claimants("PERPETUAL", j) /\ "PERPETUAL" \in Kinds
          /\ balance'["PERPETUAL"][j] >= balance["PERPETUAL"][j]
      BY <1>4, HoldingPcs, SameBalance DEF Claimants, IInv
    <3>2. CASE r \in Claimants("PERPETUAL", j)'
      <4>1. j = i /\ rest > 0
        BY <2>1, <3>2 DEF Claimants
      <4>2. balance'["PERPETUAL"][j] >= request'[r].sum["PERPETUAL"]
        BY <1>3, <1>4, <2>1, <4>1
      <4> QED
        BY <1>8, <3>1, <3>2, <4>2, JoinClaims
    <3>3. CASE r \notin Claimants("PERPETUAL", j)'
      BY <1>7, <1>8, <3>1, <3>3, SameClaims
    <3> QED
      BY <3>2, <3>3
  <2> QED
    BY <1>4, <1>7, <1>8, <2>2, <2>3, <2>4, HoldingPcs, StepInv
<1> QED
  BY <1>9, <1>10

LEMMA AtPcs ==
    /\ DebitAt["BONUS"] = "debitBonus" /\ DebitAt["PERPETUAL"] = "debitPerpetual"
    /\ RecordAt["BONUS"] = "recordBonus" /\ RecordAt["PERPETUAL"] = "recordPerpetual"
  BY DEF DebitAt, RecordAt, Both, Kinds

LEMMA DebitInv ==
    ASSUME IInv, NEW r \in Requests, NEW k \in Kinds, Debit(r, k)
    PROVE  IInv'
<1>1. /\ request[r].pc = DebitAt[k] /\ request[r].pc \in Holding[k]
      /\ RecordAt[k] \in {"recordBonus", "recordPerpetual"} /\ RecordAt[k] \notin Holding[k]
      /\ \A l \in Kinds \ {k} : RecordAt[k] \in Holding[l] <=> DebitAt[k] \in Holding[l]
  BY AtPcs, HoldingPcs DEF Debit, At
<1>2. PICK i \in Requests, d \in Nat :
          /\ i = request[r].row[k] /\ d = request[r].sum[k] /\ i \in pairs
  BY <1>1, HoldingPcs DEF IInv, RowInv, TypeOK, Request
<1>3. /\ balance' = [balance EXCEPT ![k][i] = balance[k][i] - d]
      /\ Goto(r, RecordAt[k])
      /\ UNCHANGED <<pairs, debits, funded, started, aborts>>
  BY <1>2 DEF Debit, IInv, TypeOK
<1>4. /\ request' \in [Requests -> Request]
      /\ request'[r].pc = RecordAt[k] /\ request'[r].due = request[r].due
      /\ request'[r].row = request[r].row /\ request'[r].sum = request[r].sum
      /\ \A t \in Requests \ {r} : request'[t] = request[t]
  BY <1>1, <1>3, GotoEffect DEF IInv
<1>5. /\ balance' \in [Kinds -> [Requests -> Int]]
      /\ \A l \in Kinds : \A j \in Requests :
             balance'[l][j] = IF l = k /\ j = i THEN balance[k][i] - d ELSE balance[l][j]
  <2>1. balance[k][i] - d \in Int
    BY DEF IInv, TypeOK
  <2> QED
    BY <1>3, <2>1 DEF IInv, TypeOK
<1>6. TypeOK' /\ PairInv'
  BY <1>2, <1>3, <1>4, <1>5 DEF IInv, TypeOK, PairInv
<1>7. RowInv(r)'
  <2>1. CASE k = "BONUS"
    <3>1. request[r].pc = "debitBonus" /\ request'[r].pc = "recordBonus"
      BY <1>1, <1>4, <2>1, AtPcs
    <3> QED
      BY <1>3, <1>4, <3>1, HoldingPcs DEF IInv, RowInv, At
  <2>2. CASE k = "PERPETUAL"
    <3>1. request'[r].pc = "recordPerpetual" /\ request'[r].due <= MaxDue
      BY <1>4, <2>2, AtPcs DEF IInv, RowInv
    <3> QED
      BY <3>1, QuietRow
  <2> QED
    BY <2>1, <2>2, HoldingPcs
<1>8. ASSUME NEW l \in Kinds, NEW j \in Requests PROVE Covered(l, j)'
  <2>1. balance[l][j] \in Int /\ balance'[l][j] \in Int
    BY <1>5 DEF IInv, TypeOK
  <2>2. CASE l = k
    <3>1. r \notin Claimants(l, j)'
      BY <1>1, <1>4, <2>2 DEF Claimants
    <3>2. CASE r \in Claimants(l, j)
      <4>1. j = i /\ balance'[l][j] >= balance[l][j] - request[r].sum[l]
        BY <1>2, <1>5, <2>1, <2>2, <3>2 DEF Claimants
      <4> QED
        BY <1>4, <1>6, <3>1, <3>2, <4>1, LeaveClaims
    <3>3. CASE r \notin Claimants(l, j)
      <4>1. balance'[l][j] >= balance[l][j]
        BY <1>1, <1>2, <1>5, <2>1, <2>2, <3>3 DEF Claimants
      <4> QED
        BY <1>4, <1>6, <3>1, <3>3, <4>1, SameClaims
    <3> QED
      BY <3>2, <3>3
  <2>3. CASE l # k
    <3>1. r \in Claimants(l, j)' <=> r \in Claimants(l, j)
      BY <1>1, <1>4, <2>3 DEF Claimants
    <3>2. balance'[l][j] >= balance[l][j]
      BY <1>5, <2>1, <2>3
    <3> QED
      BY <1>4, <1>6, <3>1, <3>2, SameClaims
  <2> QED
    BY <2>2, <2>3
<1> QED
  BY <1>3, <1>4, <1>6, <1>7, <1>8, StepInv

LEMMA RecordInv ==
    ASSUME IInv, NEW r \in Requests, NEW k \in Kinds, Record(r, k)
    PROVE  IInv'
<1>1. /\ UNCHANGED <<pairs, balance, funded, started, aborts>>
      /\ debits' = [debits EXCEPT ![k] = debits[k] + request[r].sum[k]]
      /\ request[r].pc = RecordAt[k]
  BY DEF Record, At, IInv, TypeOK
<1>2. debits' \in [Kinds -> Nat] /\ PairInv'
  <2>1. debits[k] + request[r].sum[k] \in Nat
    BY DEF IInv, TypeOK, Request
  <2> QED
    BY <1>1, <2>1 DEF IInv, TypeOK, PairInv
<1>3. CASE k = "BONUS" /\ Goto(r, "debitPerpetual")
  <2>1. /\ request' \in [Requests -> Request]
        /\ request'[r].pc = "debitPerpetual" /\ request'[r].due = request[r].due
        /\ request'[r].row = request[r].row /\ request'[r].sum = request[r].sum
        /\ \A t \in Requests \ {r} : request'[t] = request[t]
        /\ request[r].pc = "recordBonus"
    BY <1>1, <1>3, GotoEffect, AtPcs DEF IInv
  <2>2. TypeOK'
    BY <1>1, <1>2, <2>1 DEF IInv, TypeOK
  <2>3. RowInv(r)'
    BY <1>1, <2>1, HoldingPcs DEF IInv, RowInv, At
  <2>4. ASSUME NEW l \in Kinds, NEW j \in Requests PROVE Covered(l, j)'
    <3>1. r \in Claimants(l, j)' => r \in Claimants(l, j)
      BY <2>1, HoldingPcs DEF Claimants
    <3>2. balance'[l][j] >= balance[l][j]
      BY <1>1, SameBalance DEF IInv
    <3> QED
      BY <2>1, <2>2, <3>1, <3>2, KeepClaims
  <2> QED
    BY <1>1, <1>2, <2>1, <2>2, <2>3, <2>4, StepInv
<1>4. CASE Done(r)
  <2>1. /\ request' \in [Requests -> Request]
        /\ request'[r].pc = "idle" /\ request'[r].due <= MaxDue
        /\ \A t \in Requests \ {r} : request'[t] = request[t]
    BY <1>4, DoneEffect, DueAssumption DEF IInv
  <2>2. TypeOK'
    BY <1>1, <1>2, <2>1 DEF IInv, TypeOK
  <2>3. ASSUME NEW l \in Kinds, NEW j \in Requests PROVE Covered(l, j)'
    <3>1. r \notin Claimants(l, j)' /\ balance'[l][j] >= balance[l][j]
      BY <1>1, <2>1, QuietPcs, SameBalance DEF Claimants, IInv
    <3> QED
      BY <2>1, <2>2, <3>1, KeepClaims
  <2> QED
    BY <1>1, <1>2, <2>1, <2>2, <2>3, QuietRow, StepInv
<1> QED
  BY <1>3, <1>4 DEF Record

LEMMA AbortInv ==
    ASSUME IInv, NEW r \in Requests, Abort(r)
    PROVE  IInv'
<1>1. /\ request' \in [Requests -> Request]
      /\ request'[r].pc = "idle" /\ request'[r].due <= MaxDue
      /\ \A t \in Requests \ {r} : request'[t] = request[t]
      /\ aborts' = aborts + 1
      /\ UNCHANGED <<pairs, balance, debits, funded, started>>
  BY DoneEffect, DueAssumption DEF Abort, IInv
<1>2. TypeOK' /\ PairInv'
  BY <1>1 DEF IInv, TypeOK, PairInv
<1>3. ASSUME NEW l \in Kinds, NEW j \in Requests PROVE Covered(l, j)'
  <2>1. r \notin Claimants(l, j)' /\ balance'[l][j] >= balance[l][j]
    BY <1>1, QuietPcs, SameBalance DEF Claimants, IInv
  <2> QED
    BY <1>1, <1>2, <2>1, KeepClaims
<1> QED
  BY <1>1, <1>2, <1>3, QuietRow, StepInv

LEMMA UnchangedInv ==
    ASSUME IInv, UNCHANGED vars
    PROVE  IInv'
<1>1. TypeOK' /\ PairInv' /\ \A r \in Requests : RowInv(r)'
  BY DEF IInv, vars, TypeOK, PairInv, RowInv, At
<1>2. ASSUME NEW k \in Kinds, NEW i \in Requests PROVE Covered(k, i)'
  <2>1. Covered(k, i)
    BY DEF IInv
  <2>2. Claimants(k, i)' = Claimants(k, i)
    BY DEF Claimants, vars
  <2> QED
    BY <2>1, <2>2 DEF Covered, Slack, vars
<1> QED
  BY <1>1, <1>2 DEF IInv

LEMMA NextIInv == IInv /\ [Next]_vars => IInv'
<1> SUFFICES ASSUME IInv, [Next]_vars PROVE IInv'
  OBVIOUS
<1>1. ASSUME NEW r \in Requests, Step(r) PROVE IInv'
  <2>1. CASE InitializeRead(r)
    BY <2>1, InitializeReadInv
  <2>2. CASE InitializeCreate(r)
    BY <2>2, InitializeCreateInv
  <2>3. ASSUME NEW i \in pairs, NEW p \in PerpetualSums, NEW b \in BonusSums,
               FundRead(r, i, p, b)
        PROVE  IInv'
    BY <2>3, FundReadInv
  <2>4. CASE FundPerpetual(r)
    BY <2>4, FundPerpetualInv
  <2>5. ASSUME NEW i \in pairs, FundFind(r, i) PROVE IInv'
    BY <2>5, FundFindInv
  <2>6. CASE FundBonus(r)
    BY <2>6, FundBonusInv
  <2>7. ASSUME NEW i \in pairs, NEW d \in Dues, DistributeRead(r, i, d) PROVE IInv'
    BY <2>7, DistributeReadInv
  <2>8. ASSUME NEW i \in pairs, DistributeFind(r, i) PROVE IInv'
    BY <2>8, DistributeFindInv
  <2>9. ASSUME NEW k \in Kinds, Debit(r, k) PROVE IInv'
    BY <2>9, DebitInv
  <2>10. ASSUME NEW k \in Kinds, Record(r, k) PROVE IInv'
    BY <2>10, RecordInv
  <2>11. CASE Abort(r)
    BY <2>11, AbortInv
  <2> QED
    BY <1>1, <2>1, <2>2, <2>3, <2>4, <2>5, <2>6, <2>7, <2>8, <2>9, <2>10, <2>11 DEF Step
<1>2. CASE UNCHANGED vars
  BY <1>2, UnchangedInv
<1> QED
  BY <1>1, <1>2 DEF Next

(***************************************************************************)
(* Theorems                                                                *)
(***************************************************************************)

(* IInv holds throughout: the row a payment has read stays covered, up to  *)
(* what the other claimants of it may take (cashback.service.ts:142-187).  *)
THEOREM InductiveInvariant == Spec => []IInv
  BY InitIInv, NextIInv, PTL DEF Spec

(* Every statement of cashback.service.ts leaves the pools, the journal    *)
(* and the handlers well formed; balances are integers, and only they may  *)
(* be negative.                                                            *)
THEOREM TypeCorrect == Spec => []TypeOK
<1>1. IInv => TypeOK
  BY DEF IInv
<1> QED
  BY <1>1, InductiveInvariant, PTL

(* No pool of distributeCashback is overdrawn by more than a largest       *)
(* payment for each of the other requests, for any number of requests, of  *)
(* rows, of fundings and of payments (cashback.service.ts:142-187).        *)
THEOREM OverdraftIsBounded == Spec => []OverdraftBounded
<1>1. IInv => OverdraftBounded
  BY CoveredBounds DEF IInv, OverdraftBounded
<1> QED
  BY <1>1, InductiveInvariant, PTL

(***************************************************************************)
(* The books of the pools                                                  *)
(***************************************************************************)

(* The sum of what is not recorded yet moves with the one request that     *)
(* does.                                                                   *)
LEMMA UnrecordedMoves ==
    ASSUME TypeOK, TypeOK', NEW r \in Requests, NEW k \in Kinds,
           \A s \in Requests \ {r} : request'[s] = request[s]
    PROVE  /\ AllUnrecorded(k) \in Int /\ AllUnrecorded(k)' \in Int
           /\ Unrecorded(r, k) \in Nat /\ Unrecorded(r, k)' \in Nat
           /\ AllUnrecorded(k)' - AllUnrecorded(k)
                  = Unrecorded(r, k)' - Unrecorded(r, k)
<1>1. PICK f, g : /\ f = [s \in Requests |-> Unrecorded(s, k)]
                  /\ g = [s \in Requests |-> Unrecorded(s, k)']
  OBVIOUS
<1>2. \A s \in Requests : Unrecorded(s, k) \in Nat /\ Unrecorded(s, k)' \in Nat
  BY DEF Unrecorded, TypeOK, Request
<1>3. \A s \in Requests \ {r} : Unrecorded(s, k)' = Unrecorded(s, k)
  BY DEF Unrecorded, At
<1>4. /\ f \in [Requests -> Int] /\ g \in [Requests -> Int]
      /\ f[r] = Unrecorded(r, k) /\ g[r] = Unrecorded(r, k)'
      /\ \A s \in Requests \ {r} : g[s] = f[s]
  BY <1>1, <1>2, <1>3
<1>5. SumOver(g) - SumOver(f) = g[r] - f[r]
  BY <1>4, RequestAssumption, SumChanges
<1>6. SumOver(f) \in Int /\ SumOver(g) \in Int
  BY <1>4, RequestAssumption, SumType
<1>7. AllUnrecorded(k) = SumOver(f) /\ AllUnrecorded(k)' = SumOver(g)
  BY <1>1 DEF AllUnrecorded
<1> QED
  BY <1>2, <1>4, <1>5, <1>6, <1>7

(* What is left moves with the one row that is written. *)
LEMMA LeftMoves ==
    ASSUME TypeOK, TypeOK', NEW k \in Kinds, NEW i \in pairs, pairs' = pairs,
           \A j \in Requests \ {i} : balance'[k][j] = balance[k][j]
    PROVE  /\ Left(k) \in Int /\ Left(k)' \in Int
           /\ Left(k)' - Left(k) = balance'[k][i] - balance[k][i]
<1>1. PICK f, g : /\ f = [j \in pairs |-> balance[k][j]]
                  /\ g = [j \in pairs |-> balance'[k][j]]
  OBVIOUS
<1>2. IsFiniteSet(pairs)
  BY RequestAssumption, FS_Subset DEF TypeOK
<1>3. /\ f \in [pairs -> Int] /\ g \in [pairs -> Int]
      /\ f[i] = balance[k][i] /\ g[i] = balance'[k][i]
      /\ \A j \in pairs \ {i} : g[j] = f[j]
  BY <1>1 DEF TypeOK
<1>4. SumOver(g) - SumOver(f) = g[i] - f[i]
  BY <1>2, <1>3, SumChanges
<1>5. SumOver(f) \in Int /\ SumOver(g) \in Int
  BY <1>2, <1>3, SumType
<1>6. Left(k) = SumOver(f) /\ Left(k)' = SumOver(g)
  BY <1>1 DEF Left
<1> QED
  BY <1>3, <1>4, <1>5, <1>6

LEMMA LeftType ==
    ASSUME TypeOK, NEW k \in Kinds
    PROVE  Left(k) \in Int
<1>1. IsFiniteSet(pairs)
  BY RequestAssumption, FS_Subset DEF TypeOK
<1>2. PICK f : f = [j \in pairs |-> balance[k][j]]
  OBVIOUS
<1>3. f \in [pairs -> Int]
  BY <1>2 DEF TypeOK
<1> QED
  BY <1>1, <1>2, <1>3, SumType DEF Left

(* A pair of rows is opened with nothing in it. *)
LEMMA LeftOpens ==
    ASSUME TypeOK, TypeOK', NEW k \in Kinds, NEW r \in Requests, r \notin pairs,
           pairs' = pairs \union {r}, balance'[k][r] = 0,
           \A j \in pairs : balance'[k][j] = balance[k][j]
    PROVE  Left(k)' = Left(k)
<1>1. PICK P, f, g : /\ P = pairs
                     /\ f = [j \in P |-> balance[k][j]]
                     /\ g = [j \in P \union {r} |-> balance'[k][j]]
  OBVIOUS
<1>2. IsFiniteSet(P) /\ r \notin P
  BY <1>1, RequestAssumption, FS_Subset DEF TypeOK
<1>3. /\ f \in [P -> Int] /\ g \in [P \union {r} -> Int]
      /\ g[r] = 0 /\ \A j \in P : g[j] = f[j]
  BY <1>1 DEF TypeOK
<1>4. SumOver(g) = SumOver(f) + g[r]
  BY <1>2, <1>3, SumGrows
<1>5. SumOver(f) \in Int
  BY <1>2, <1>3, SumType
<1>6. Left(k) = SumOver(f) /\ Left(k)' = SumOver(g)
  BY <1>1 DEF Left
<1> QED
  BY <1>3, <1>4, <1>5, <1>6

(* A step keeps the books of a kind if what it moves adds up. *)
LEMMA BooksKept ==
    ASSUME TypeOK, TypeOK', BookInv, NEW r \in Requests, NEW k \in Kinds,
           \A s \in Requests \ {r} : request'[s] = request[s],
           Left(k)' \in Int, aborts' = aborts,
           (Left(k)' - Left(k)) + (debits'[k] - debits[k])
               + (Unrecorded(r, k)' - Unrecorded(r, k)) = funded'[k] - funded[k]
    PROVE  /\ Left(k)' + debits'[k] + AllUnrecorded(k)' <= funded'[k]
           /\ aborts' = 0 => Left(k)' + debits'[k] + AllUnrecorded(k)' = funded'[k]
<1>1. PICK a, b, u, v \in Int :
          /\ a = AllUnrecorded(k) /\ b = AllUnrecorded(k)'
          /\ u = Unrecorded(r, k) /\ v = Unrecorded(r, k)'
          /\ b - a = v - u
  BY UnrecordedMoves
<1>2. PICK l, m \in Int : l = Left(k) /\ m = Left(k)'
  BY LeftType
<1>3. PICK d, e, f, g \in Nat : /\ d = debits[k] /\ e = debits'[k]
                                /\ f = funded[k] /\ g = funded'[k]
  BY DEF TypeOK
<1>4. l + d + a <= f /\ (aborts = 0 => l + d + a = f)
  BY <1>1, <1>2, <1>3 DEF BookInv
<1>5. (m - l) + (e - d) + (v - u) = g - f
  BY <1>1, <1>2, <1>3
<1>6. m + e + b <= g /\ (aborts = 0 => m + e + b = g)
  BY <1>1, <1>4, <1>5
<1> QED
  BY <1>1, <1>2, <1>3, <1>6

(* A statement that moves no money. *)
LEMMA QuietBooks ==
    ASSUME IInv, IInv', BookInv, NEW r \in Requests, NEW q,
           request' = [request EXCEPT ![r] = q],
           UNCHANGED <<pairs, balance, debits, funded, aborts>>,
           \A k \in Kinds : request[r].pc # RecordAt[k] /\ q.pc # RecordAt[k]
    PROVE  BookInv'
<1> SUFFICES ASSUME NEW k \in Kinds
             PROVE  /\ Left(k)' + debits'[k] + AllUnrecorded(k)' <= funded'[k]
                    /\ aborts' = 0 =>
                           Left(k)' + debits'[k] + AllUnrecorded(k)' = funded'[k]
  BY DEF BookInv
<1>1. TypeOK /\ TypeOK'
  BY DEF IInv
<1>2. /\ request'[r] = q
      /\ \A s \in Requests \ {r} : request'[s] = request[s]
  BY <1>1 DEF TypeOK
<1>3. Unrecorded(r, k) = 0 /\ Unrecorded(r, k)' = 0
  BY <1>2 DEF Unrecorded, At
<1>4. Left(k)' = Left(k) /\ Left(k) \in Int
  BY <1>1, LeftType DEF Left
<1>5. debits[k] \in Nat /\ funded[k] \in Nat
  BY <1>1 DEF TypeOK
<1> QED
  BY <1>1, <1>2, <1>3, <1>4, <1>5, BooksKept

LEMMA RecordPcs ==
    \A k \in Kinds : RecordAt[k] \in {"recordBonus", "recordPerpetual"}
  BY AtPcs DEF Kinds

LEMMA FundFindEffect ==
    ASSUME TypeOK, NEW r \in Requests, NEW i \in pairs, FundFind(r, i)
    PROVE  /\ request[r].pc = "findBonus"
           /\ \E q : /\ q.pc = "fundBonus"
                     /\ request' = [request EXCEPT ![r] = q]
           /\ UNCHANGED <<pairs, balance, debits, funded, aborts>>
<1> DEFINE q == [request[r] EXCEPT !.pc = "fundBonus",
                                   !.row = Both(i, request[r].row["PERPETUAL"])]
<1>1. q.pc = "fundBonus"
  BY DEF TypeOK, Request
<1>2. /\ request' = [request EXCEPT ![r] = q] /\ request[r].pc = "findBonus"
      /\ UNCHANGED <<pairs, balance, debits, funded, started, aborts>>
  BY DEF FundFind, At, TypeOK, Request
<1> QED
  BY <1>1, <1>2

LEMMA ReadBooks ==
    ASSUME IInv, IInv', BookInv, NEW r \in Requests,
           \/ InitializeRead(r)
           \/ \E i \in pairs, p \in PerpetualSums, b \in BonusSums : FundRead(r, i, p, b)
           \/ \E i \in pairs : FundFind(r, i)
           \/ \E i \in pairs, d \in Dues : DistributeRead(r, i, d)
           \/ \E i \in pairs : DistributeFind(r, i)
    PROVE  BookInv'
<1>1. CASE InitializeRead(r)
  <2>1. PICK q : q = [request[r] EXCEPT !.pc = "open"]
    OBVIOUS
  <2>2. /\ request[r].pc = "idle" /\ q.pc = "open"
        /\ request' = [request EXCEPT ![r] = q]
        /\ UNCHANGED <<pairs, balance, debits, funded, aborts>>
    BY <1>1, <2>1 DEF InitializeRead, Free, Goto, IInv, TypeOK, Request
  <2> QED
    BY <2>2, RecordPcs, QuietBooks
<1>2. ASSUME NEW i \in pairs, NEW p \in PerpetualSums, NEW b \in BonusSums,
             FundRead(r, i, p, b)
      PROVE  BookInv'
  <2>1. PICK q : q = [pc |-> "fundPerpetual", due |-> 0,
                      row |-> Both(Null, i), sum |-> Both(b, p)]
    OBVIOUS
  <2>2. /\ request[r].pc = "idle" /\ q.pc = "fundPerpetual"
        /\ request' = [request EXCEPT ![r] = q]
        /\ UNCHANGED <<pairs, balance, debits, funded, aborts>>
    BY <1>2, <2>1 DEF FundRead, Free
  <2> QED
    BY <2>2, RecordPcs, QuietBooks
<1>3. ASSUME NEW i \in pairs, FundFind(r, i) PROVE BookInv'
  <2>1. TypeOK
    BY DEF IInv
  <2>2. PICK q : /\ request[r].pc = "findBonus" /\ q.pc = "fundBonus"
                 /\ request' = [request EXCEPT ![r] = q]
                 /\ UNCHANGED <<pairs, balance, debits, funded, aborts>>
    BY <1>3, <2>1, FundFindEffect
  <2> QED
    BY <2>2, RecordPcs, QuietBooks
<1>4. ASSUME NEW i \in pairs, NEW d \in Dues, DistributeRead(r, i, d) PROVE BookInv'
  <2>1. PICK q : q = [pc |-> "findPerpetual", due |-> d,
                      row |-> Both(i, Null),
                      sum |-> Both(Payable(d, balance["BONUS"][i]), 0)]
    OBVIOUS
  <2>2. /\ request[r].pc = "idle" /\ q.pc = "findPerpetual"
        /\ request' = [request EXCEPT ![r] = q]
        /\ UNCHANGED <<pairs, balance, debits, funded, aborts>>
    BY <1>4, <2>1 DEF DistributeRead, Free
  <2> QED
    BY <2>2, RecordPcs, QuietBooks
<1>5. ASSUME NEW i \in pairs, DistributeFind(r, i) PROVE BookInv'
  <2>1. PICK bonus, rest, next :
            /\ bonus = request[r].sum["BONUS"] /\ next = FirstDebit(bonus, rest)
            /\ rest = Payable(request[r].due - bonus, balance["PERPETUAL"][i])
    OBVIOUS
  <2>2. PICK q : q = IF next = "idle" THEN Idle
                     ELSE [pc |-> next, due |-> request[r].due,
                           row |-> Both(request[r].row["BONUS"], i),
                           sum |-> Both(bonus, rest)]
    OBVIOUS
  <2>3. /\ request[r].pc = "findPerpetual"
        /\ request' = [request EXCEPT ![r] = q]
        /\ UNCHANGED <<pairs, balance, debits, funded, aborts>>
    BY <1>5, <2>1, <2>2 DEF DistributeFind, At
  <2>4. q.pc \in {"idle", "debitBonus", "debitPerpetual"}
    BY <2>1, <2>2 DEF FirstDebit, Idle
  <2> QED
    BY <2>3, <2>4, RecordPcs, QuietBooks
<1> QED
  BY <1>1, <1>2, <1>3, <1>4, <1>5

LEMMA OpenBooks ==
    ASSUME IInv, IInv', BookInv, NEW r \in Requests, InitializeCreate(r)
    PROVE  BookInv'
<1> SUFFICES ASSUME NEW k \in Kinds
             PROVE  /\ Left(k)' + debits'[k] + AllUnrecorded(k)' <= funded'[k]
                    /\ aborts' = 0 =>
                           Left(k)' + debits'[k] + AllUnrecorded(k)' = funded'[k]
  BY DEF BookInv
<1>1. TypeOK /\ TypeOK' /\ r \notin pairs /\ request[r].pc = "open"
  BY DEF IInv, RowInv, InitializeCreate, At
<1>2. /\ pairs' = pairs \union {r} /\ UNCHANGED <<debits, funded, aborts>>
      /\ request'[r].pc = "idle"
      /\ \A s \in Requests \ {r} : request'[s] = request[s]
  BY <1>1, DoneEffect DEF InitializeCreate
<1>3. /\ balance'[k][r] = 0
      /\ \A j \in pairs : balance'[k][j] = balance[k][j]
  BY <1>1 DEF InitializeCreate, TypeOK
<1>4. Left(k)' = Left(k) /\ Left(k) \in Int
  BY <1>1, <1>2, <1>3, LeftOpens, LeftType
<1>5. Unrecorded(r, k) = 0 /\ Unrecorded(r, k)' = 0
  BY <1>1, <1>2, RecordPcs DEF Unrecorded, At
<1>6. debits[k] \in Nat /\ funded[k] \in Nat
  BY <1>1 DEF TypeOK
<1> QED
  BY <1>1, <1>2, <1>4, <1>5, <1>6, BooksKept

(* What is put into one row is what is funded. *)
LEMMA FundBooks ==
    ASSUME IInv, IInv', BookInv, NEW r \in Requests,
           FundPerpetual(r) \/ FundBonus(r)
    PROVE  BookInv'
<1>1. TypeOK /\ TypeOK'
  BY DEF IInv
<1>2. PICK k \in Kinds : /\ Fund(r, k) /\ request[r].row[k] \in pairs
                         /\ request[r].pc \in {"fundPerpetual", "fundBonus"}
  BY HoldingPcs DEF FundPerpetual, FundBonus, IInv, RowInv, At
<1>3. /\ request'[r].pc \in {"findBonus", "idle"}
      /\ \A s \in Requests \ {r} : request'[s] = request[s]
  BY <1>1, GotoEffect, DoneEffect DEF FundPerpetual, FundBonus
<1>4. PICK i \in pairs, d \in Nat : i = request[r].row[k] /\ d = request[r].sum[k]
  BY <1>1, <1>2 DEF TypeOK, Request
<1>5. /\ balance' = [balance EXCEPT ![k][i] = balance[k][i] + d]
      /\ funded' = [funded EXCEPT ![k] = funded[k] + d]
      /\ UNCHANGED <<pairs, debits, started, aborts>>
  BY <1>1, <1>2, <1>4 DEF Fund, Incremented, TypeOK
<1>6. ASSUME NEW l \in Kinds
      PROVE  /\ \A j \in Requests \ {i} : balance'[l][j] = balance[l][j]
             /\ balance'[l][i] - balance[l][i] = funded'[l] - funded[l]
             /\ balance'[l][i] \in Int /\ balance[l][i] \in Int
             /\ funded'[l] \in Nat /\ funded[l] \in Nat
  <2>1. i \in Requests /\ balance[l][i] \in Int /\ balance[k][i] \in Int
        /\ funded[l] \in Nat
    BY <1>1 DEF TypeOK
  <2>2. /\ \A j \in Requests : balance'[l][j] = IF l = k /\ j = i THEN balance[k][i] + d
                                                ELSE balance[l][j]
        /\ funded'[l] = IF l = k THEN funded[l] + d ELSE funded[l]
    BY <1>1, <1>5 DEF TypeOK
  <2> QED
    BY <2>1, <2>2
<1>7. ASSUME NEW l \in Kinds
      PROVE  /\ Left(l)' + debits'[l] + AllUnrecorded(l)' <= funded'[l]
             /\ aborts' = 0 =>
                    Left(l)' + debits'[l] + AllUnrecorded(l)' = funded'[l]
  <2>1. /\ Left(l) \in Int /\ Left(l)' \in Int
        /\ Left(l)' - Left(l) = balance'[l][i] - balance[l][i]
    BY <1>1, <1>5, <1>6, LeftMoves
  <2>2. Unrecorded(r, l) = 0 /\ Unrecorded(r, l)' = 0
    BY <1>2, <1>3, RecordPcs DEF Unrecorded, At
  <2>3. debits[l] \in Nat /\ debits'[l] = debits[l]
    BY <1>1, <1>5 DEF TypeOK
  <2>4. (Left(l)' - Left(l)) + (debits'[l] - debits[l])
            + (Unrecorded(r, l)' - Unrecorded(r, l)) = funded'[l] - funded[l]
    BY <1>6, <2>1, <2>2, <2>3
  <2> QED
    BY <1>1, <1>3, <1>5, <2>1, <2>4, BooksKept
<1> QED
  BY <1>7 DEF BookInv

(* What leaves a row is unrecorded until its transaction is written. *)
LEMMA DebitBooks ==
    ASSUME IInv, IInv', BookInv, NEW r \in Requests, NEW k \in Kinds, Debit(r, k)
    PROVE  BookInv'
<1>1. TypeOK /\ TypeOK' /\ request[r].pc = DebitAt[k] /\ request[r].row[k] \in pairs
  BY AtPcs, HoldingPcs DEF Debit, At, IInv, RowInv
<1>2. PICK i \in pairs, d \in Nat : i = request[r].row[k] /\ d = request[r].sum[k]
  BY <1>1 DEF TypeOK, Request
<1>3. /\ balance' = [balance EXCEPT ![k][i] = balance[k][i] - d]
      /\ Goto(r, RecordAt[k])
      /\ UNCHANGED <<pairs, debits, funded, started, aborts>>
  BY <1>1, <1>2 DEF Debit, TypeOK
<1>4. /\ request'[r].pc = RecordAt[k] /\ request'[r].sum = request[r].sum
      /\ \A s \in Requests \ {r} : request'[s] = request[s]
  BY <1>1, <1>3, GotoEffect, RecordPcs
<1>5. ASSUME NEW l \in Kinds
      PROVE  /\ Left(l)' + debits'[l] + AllUnrecorded(l)' <= funded'[l]
             /\ aborts' = 0 =>
                    Left(l)' + debits'[l] + AllUnrecorded(l)' = funded'[l]
  <2>1. i \in Requests /\ balance[l][i] \in Int /\ balance[k][i] \in Int
        /\ funded[l] \in Nat /\ debits[l] \in Nat
    BY <1>1 DEF TypeOK
  <2>2. \A j \in Requests : balance'[l][j] = IF l = k /\ j = i THEN balance[k][i] - d
                                             ELSE balance[l][j]
    BY <1>1, <1>3 DEF TypeOK
  <2>3. /\ Left(l) \in Int /\ Left(l)' \in Int
        /\ Left(l)' - Left(l) = balance'[l][i] - balance[l][i]
    BY <1>1, <1>3, <2>2, LeftMoves
  <2>4. Unrecorded(r, l) = 0 /\ Unrecorded(r, l)' = IF l = k THEN d ELSE 0
    BY <1>1, <1>2, <1>4, AtPcs DEF Unrecorded, At, Kinds
  <2>5. debits'[l] = debits[l] /\ funded'[l] = funded[l]
    BY <1>3
  <2>6. (Left(l)' - Left(l)) + (debits'[l] - debits[l])
            + (Unrecorded(r, l)' - Unrecorded(r, l)) = funded'[l] - funded[l]
    BY <2>1, <2>2, <2>3, <2>4, <2>5
  <2> QED
    BY <1>1, <1>3, <1>4, <2>3, <2>6, BooksKept
<1> QED
  BY <1>5 DEF BookInv

LEMMA RecordBooks ==
    ASSUME IInv, IInv', BookInv, NEW r \in Requests, NEW k \in Kinds, Record(r, k)
    PROVE  BookInv'
<1>1. TypeOK /\ TypeOK' /\ request[r].pc = RecordAt[k]
  BY DEF IInv, Record, At
<1>2. PICK d \in Nat : d = request[r].sum[k]
  BY <1>1 DEF TypeOK, Request
<1>3. /\ debits' = [debits EXCEPT ![k] = debits[k] + d]
      /\ UNCHANGED <<pairs, balance, funded, started, aborts>>
  BY <1>1, <1>2 DEF Record, TypeOK
<1>4. /\ request'[r].pc \in {"debitPerpetual", "idle"}
      /\ \A s \in Requests \ {r} : request'[s] = request[s]
  BY <1>1, GotoEffect, DoneEffect DEF Record
<1>5. ASSUME NEW l \in Kinds
      PROVE  /\ Left(l)' + debits'[l] + AllUnrecorded(l)' <= funded'[l]
             /\ aborts' = 0 =>
                    Left(l)' + debits'[l] + AllUnrecorded(l)' = funded'[l]
  <2>1. Left(l)' = Left(l) /\ Left(l) \in Int
    BY <1>1, <1>3, LeftType DEF Left
  <2>2. /\ debits'[l] = IF l = k THEN debits[l] + d ELSE debits[l]
        /\ debits[l] \in Nat /\ funded[l] \in Nat /\ funded'[l] = funded[l]
    BY <1>1, <1>3 DEF TypeOK
  <2>3. Unrecorded(r, l) = (IF l = k THEN d ELSE 0) /\ Unrecorded(r, l)' = 0
    BY <1>1, <1>2, <1>4, AtPcs DEF Unrecorded, At, Kinds
  <2>4. (Left(l)' - Left(l)) + (debits'[l] - debits[l])
            + (Unrecorded(r, l)' - Unrecorded(r, l)) = funded'[l] - funded[l]
    BY <2>1, <2>2, <2>3
  <2> QED
    BY <1>1, <1>3, <1>4, <2>1, <2>4, BooksKept
<1> QED
  BY <1>5 DEF BookInv

(* A request cut short may leave a debit that is never recorded. *)
LEMMA AbortBooks ==
    ASSUME IInv, IInv', BookInv, NEW r \in Requests, Abort(r)
    PROVE  BookInv'
<1>1. /\ TypeOK /\ TypeOK'
      /\ aborts' = aborts + 1 /\ aborts' # 0
      /\ UNCHANGED <<pairs, balance, debits, funded>>
      /\ request'[r].pc = "idle"
      /\ \A s \in Requests \ {r} : request'[s] = request[s]
  BY DoneEffect DEF Abort, IInv, TypeOK
<1> SUFFICES ASSUME NEW k \in Kinds
             PROVE  Left(k)' + debits'[k] + AllUnrecorded(k)' <= funded'[k]
  BY <1>1 DEF BookInv
<1>2. PICK a, b, u \in Int :
          /\ a = AllUnrecorded(k) /\ b = AllUnrecorded(k)'
          /\ u = Unrecorded(r, k) /\ u >= 0 /\ b - a = 0 - u
  <2>1. Unrecorded(r, k)' = 0
    BY <1>1, RecordPcs DEF Unrecorded, At
  <2> QED
    BY <1>1, <2>1, UnrecordedMoves
<1>3. PICK l \in Int : l = Left(k) /\ l = Left(k)'
  BY <1>1, LeftType DEF Left
<1>4. debits[k] \in Nat /\ funded[k] \in Nat /\ l + debits[k] + a <= funded[k]
  BY <1>1, <1>2, <1>3 DEF BookInv, TypeOK
<1> QED
  BY <1>1, <1>2, <1>3, <1>4

LEMMA NextBooks == IInv /\ IInv' /\ BookInv /\ [Next]_vars => BookInv'
<1> SUFFICES ASSUME IInv, IInv', BookInv, [Next]_vars PROVE BookInv'
  OBVIOUS
<1>1. CASE UNCHANGED vars
  BY <1>1 DEF vars, BookInv, Left, AllUnrecorded, Unrecorded, At
<1>2. ASSUME NEW r \in Requests, Step(r) PROVE BookInv'
  BY <1>2, ReadBooks, OpenBooks, FundBooks, DebitBooks, RecordBooks, AbortBooks DEF Step
<1> QED
  BY <1>1, <1>2 DEF Next

(* Over all rows of a kind, however many there are, what is left and what  *)
(* was recorded as paid is what was put in, but for payments between their *)
(* debit and their record and those cut short there                        *)
(* (cashback.service.ts:64-67, :90-93, :161-176, :184-199).                *)
THEOREM BooksAlwaysClose == Spec => []BooksClose
<1>1. Init => BookInv
  <2> SUFFICES ASSUME Init, NEW k \in Kinds
               PROVE  /\ Left(k) + debits[k] + AllUnrecorded(k) <= funded[k]
                      /\ aborts = 0 =>
                             Left(k) + debits[k] + AllUnrecorded(k) = funded[k]
    BY DEF BookInv
  <2>1. Left(k) = 0
    <3>1. PICK f : f = [i \in pairs |-> balance[k][i]]
      OBVIOUS
    <3>2. f \in [pairs -> Int] /\ \A i \in pairs : f[i] = 0
      BY <3>1 DEF Init
    <3> QED
      BY <3>1, <3>2, SumZero DEF Left
  <2>2. AllUnrecorded(k) = 0
    <3>1. PICK f : f = [r \in Requests |-> Unrecorded(r, k)]
      OBVIOUS
    <3>2. f \in [Requests -> Int] /\ \A r \in Requests : f[r] = 0
      BY <3>1, RecordPcs DEF Init, Unrecorded, At, Idle
    <3> QED
      BY <3>1, <3>2, SumZero DEF AllUnrecorded
  <2> QED
    BY <2>1, <2>2 DEF Init
<1>2. TypeOK /\ BookInv => BooksClose
  <2> SUFFICES ASSUME TypeOK, BookInv, NEW k \in Kinds
               PROVE  /\ Left(k) + debits[k] <= funded[k]
                      /\ (aborts = 0 /\ \A r \in Requests : ~At(r, RecordAt[k]))
                             => Left(k) + debits[k] = funded[k]
    BY DEF BooksClose
  <2>1. PICK f : f = [r \in Requests |-> Unrecorded(r, k)]
    OBVIOUS
  <2>2. f \in [Requests -> Nat] /\ AllUnrecorded(k) = SumOver(f)
    BY <2>1 DEF AllUnrecorded, Unrecorded, TypeOK, Request
  <2>3. PICK a \in Nat : a = AllUnrecorded(k)
    BY <2>2, RequestAssumption, SumOfNats
  <2>4. (\A r \in Requests : ~At(r, RecordAt[k])) => a = 0
    <3> SUFFICES ASSUME \A r \in Requests : ~At(r, RecordAt[k]) PROVE SumOver(f) = 0
      BY <2>2, <2>3
    <3>1. f \in [Requests -> Int] /\ \A r \in Requests : f[r] = 0
      BY <2>1 DEF Unrecorded
    <3> QED
      BY <3>1, SumZero
  <2>5. Left(k) \in Int /\ debits[k] \in Nat /\ funded[k] \in Nat
    BY LeftType DEF TypeOK
  <2> QED
    BY <2>3, <2>4, <2>5 DEF BookInv
<1> QED
  BY <1>1, <1>2, NextBooks, InductiveInvariant, TypeCorrect, PTL DEF Spec

-----------------------------------------------------------------------------
(***************************************************************************)
(* Snapshots                                                               *)
(***************************************************************************)

(* The wallet had that much staked when the job began, no more than a run  *)
(* before the row's date.                                                  *)
HeldAt(x) == \E d \in 0..clock : /\ d <= x.date /\ x.date <= d + MaxRun
                                 /\ x.amount \in held[x.wallet][d]

(* What a job carries was held when it began. *)
Carries(q) ==
    q.pc # "idle" =>
        /\ q.since <= clock /\ clock <= q.since + MaxRun
        /\ IsFiniteSet(q.sums) /\ IsFiniteSet(q.snapshots)
        /\ \A s \in q.sums : s.amount \in held[s.wallet][q.since]
        /\ \A x \in q.snapshots : HeldAt(x)

SnapshotsIInv ==
    /\ SnapshotsTypeOK
    /\ \A w \in Wallets : staked[w] \in held[w][clock]
    /\ \A j \in Jobs : Carries(job[j])
    /\ IsFiniteSet(rows) /\ \A x \in rows : HeldAt(x)

(* The rows that an average is made of are amounts that the wallet held in *)
(* the period, whatever jobs and calls wrote them                          *)
(* (discount.service.ts:23-64, :81-87).                                    *)
AveragesUseHeld == \A w \in Wallets : \A x \in Used(w) : x.amount \in Held(w)

LEMMA IdleJob == NoJob \in Job /\ NoJob.pc = "idle"
  BY DEF NoJob, Job

LEMMA SnapshotsInitIInv == SnapshotsInit => SnapshotsIInv
<1> SUFFICES ASSUME SnapshotsInit PROVE SnapshotsIInv
  OBVIOUS
<1>1. SnapshotsTypeOK
  BY IdleJob, AmountAssumption, DayBoundAssumption DEF SnapshotsInit, SnapshotsTypeOK
<1>2. \A w \in Wallets : staked[w] \in held[w][clock]
  BY DayBoundAssumption DEF SnapshotsInit
<1>3. \A j \in Jobs : Carries(job[j])
  BY IdleJob DEF SnapshotsInit, Carries
<1>4. IsFiniteSet(rows) /\ \A x \in rows : HeldAt(x)
  BY FS_EmptySet DEF SnapshotsInit
<1> QED
  BY <1>1, <1>2, <1>3, <1>4 DEF SnapshotsIInv

(* The record of a day only grows while the clock goes on. *)
Grows == /\ clock <= clock'
         /\ \A w \in Wallets, d \in 0..clock : held[w][d] \subseteq held'[w][d]

LEMMA HeldStays ==
    ASSUME SnapshotsTypeOK, SnapshotsTypeOK', Grows, NEW x \in Row, HeldAt(x)
    PROVE  HeldAt(x)'
<1>1. PICK d \in 0..clock : /\ d <= x.date /\ x.date <= d + MaxRun
                            /\ x.amount \in held[x.wallet][d]
  BY DEF HeldAt
<1>2. x.wallet \in Wallets
  BY DEF Row
<1>3. d \in 0..clock' /\ x.amount \in held'[x.wallet][d]
  BY <1>1, <1>2 DEF Grows, SnapshotsTypeOK
<1> QED
  BY <1>1, <1>3 DEF HeldAt

LEMMA CarriesStays ==
    ASSUME SnapshotsTypeOK, SnapshotsTypeOK', Grows, NEW q \in Job, Carries(q),
           q.pc # "idle" => clock' <= q.since + MaxRun
    PROVE  Carries(q)'
<1> SUFFICES ASSUME q.pc # "idle" PROVE Carries(q)'
  BY DEF Carries
<1>1. q.since <= clock' /\ q.since \in 0..clock
  BY DEF Carries, Grows, Job, SnapshotsTypeOK
<1>2. \A s \in q.sums : s.amount \in held'[s.wallet][q.since]
  BY <1>1 DEF Carries, Grows, Job
<1>3. ASSUME NEW x \in q.snapshots PROVE HeldAt(x)'
  BY HeldStays DEF Carries, Job
<1> QED
  BY <1>1, <1>2, <1>3 DEF Carries

(* One job goes on to q; the days stay as they are. *)
LEMMA JobMoves ==
    ASSUME SnapshotsIInv, NEW j \in Jobs, NEW q \in Job, Carries(q),
           job' = [job EXCEPT ![j] = q],
           begun' \in Nat, cuts' \in Nat, UNCHANGED <<clock, staked, held>>,
           rows' \in SUBSET Row, IsFiniteSet(rows'), \A x \in rows' : HeldAt(x)
    PROVE  SnapshotsIInv'
<1>1. SnapshotsTypeOK /\ SnapshotsTypeOK'
  BY DEF SnapshotsIInv, SnapshotsTypeOK
<1>2. Grows
  BY DEF Grows, SnapshotsIInv, SnapshotsTypeOK
<1>3. ASSUME NEW i \in Jobs PROVE Carries(job[i])'
  <2>1. PICK p \in Job : job'[i] = p /\ Carries(p)
    BY DEF SnapshotsIInv, SnapshotsTypeOK
  <2>2. p.pc # "idle" => clock' <= p.since + MaxRun
    BY <2>1 DEF Carries
  <2>3. Carries(p)'
    BY <1>1, <1>2, <2>1, <2>2, CarriesStays
  <2> QED
    BY <2>1, <2>3 DEF Carries
<1>4. ASSUME NEW x \in rows' PROVE HeldAt(x)'
  BY <1>1, <1>2, HeldStays
<1> QED
  BY <1>1, <1>3, <1>4 DEF SnapshotsIInv

LEMMA JobPreserves ==
    ASSUME SnapshotsIInv, NEW j \in Jobs, JobStep(j)
    PROVE  SnapshotsIInv'
<1>1. /\ SnapshotsTypeOK /\ job[j] \in Job /\ Carries(job[j])
      /\ rows \in SUBSET Row /\ IsFiniteSet(rows) /\ \A x \in rows : HeldAt(x)
      /\ clock \in 0..MaxTime /\ clock \in Nat
      /\ begun \in Nat /\ cuts \in Nat
  BY DayBoundAssumption DEF SnapshotsIInv, SnapshotsTypeOK
<1>2. NoJob \in Job /\ Carries(NoJob)
  BY IdleJob DEF Carries
<1>3. CASE SnapshotGroup(j)
  <2> DEFINE sums == {[wallet |-> w, amount |-> staked[w]] :
                         w \in {v \in Wallets : staked[v] > 0}}
             q == [pc |-> IF sums = {} THEN "clean" ELSE "user", id |-> begun,
                   since |-> clock, sums |-> sums, snapshots |-> {}]
  <2>1. sums \in SUBSET [wallet : Wallets, amount : Nat]
    <3>1. \A w \in Wallets : staked[w] \in Nat
      BY AmountAssumption DEF SnapshotsIInv, SnapshotsTypeOK
    <3> QED
      BY <3>1
  <2>2. \A s \in sums : s.amount \in held[s.wallet][clock]
    BY DEF SnapshotsIInv
  <2>3. job' = [job EXCEPT ![j] = q] /\ UNCHANGED <<clock, staked, held, rows, cuts>>
        /\ begun' = begun + 1
    BY <1>3 DEF SnapshotGroup
  <2>a. IsFiniteSet(sums)
    <3> DEFINE F == [w \in {v \in Wallets : staked[v] > 0} |->
                       [wallet |-> w, amount |-> staked[w]]]
    <3>1. IsFiniteSet({v \in Wallets : staked[v] > 0})
      BY WalletAssumption, FS_Subset
    <3>2. F \in Surjection({v \in Wallets : staked[v] > 0}, sums)
      BY DEF Surjection
    <3> QED
      BY <3>1, <3>2, FS_Surjection
  <2> HIDE DEF sums
  <2>4. q \in Job
    BY <1>1, <2>1 DEF Job
  <2>5. Carries(q)
    BY <1>1, <2>2, <2>a, DayAssumption, FS_EmptySet DEF Carries
  <2> HIDE DEF q
  <2>6. begun' \in Nat /\ cuts' \in Nat
    BY <1>1, <2>3
  <2>7. rows' \in SUBSET Row /\ IsFiniteSet(rows') /\ \A x \in rows' : HeldAt(x)
    BY <1>1, <2>3
  <2> QED
    BY <2>3, <2>4, <2>5, <2>6, <2>7, JobMoves
<1>4. ASSUME NEW s \in job[j].sums, SnapshotUser(j, s) PROVE SnapshotsIInv'
  <2> DEFINE row == [id |-> job[j].id, wallet |-> s.wallet, amount |-> s.amount,
                     date |-> clock]
             q == [job[j] EXCEPT
                      !.pc = IF job[j].sums \ {s} = {} THEN "create" ELSE "user",
                      !.sums = job[j].sums \ {s},
                      !.snapshots = job[j].snapshots \union {row}]
  <2>1. job[j].pc = "user"
    BY <1>4 DEF SnapshotUser, JobAt
  <2>2. job' = [job EXCEPT ![j] = q] /\ UNCHANGED <<clock, staked, held, rows, begun, cuts>>
    BY <1>4 DEF SnapshotUser
  <2>3. /\ s \in [wallet : Wallets, amount : Nat] /\ job[j].since \in Nat
        /\ job[j].since <= clock /\ clock <= job[j].since + MaxRun
        /\ s.amount \in held[s.wallet][job[j].since]
    BY <1>1, <2>1 DEF Job, Carries
  <2>4. row \in Row /\ HeldAt(row)
    <3>1. row \in Row
      BY <1>1, <2>3 DEF Row, Job
    <3>2. job[j].since \in 0..clock
      BY <1>1, <2>3
    <3>3. HeldAt(row)
      BY <2>3, <3>2 DEF HeldAt
    <3> QED
      BY <3>1, <3>3
  <2> HIDE DEF row
  <2>5. q \in Job
    BY <1>1, <2>4 DEF Job
  <2>6. /\ q.since = job[j].since /\ q.sums = job[j].sums \ {s}
        /\ q.snapshots = job[j].snapshots \union {row}
    BY <1>1 DEF Job
  <2>a. IsFiniteSet(q.sums) /\ IsFiniteSet(q.snapshots)
    <3>1. IsFiniteSet(job[j].sums) /\ IsFiniteSet(job[j].snapshots)
      BY <1>1, <2>1 DEF Carries
    <3>2. IsFiniteSet(job[j].sums \ {s})
      BY <3>1, FS_RemoveElement
    <3>3. IsFiniteSet(job[j].snapshots \union {row})
      BY <3>1, FS_AddElement
    <3> QED
      BY <2>6, <3>2, <3>3
  <2>7. Carries(q)
    BY <1>1, <2>1, <2>3, <2>4, <2>6, <2>a DEF Carries
  <2> HIDE DEF q
  <2> QED
    BY <1>1, <2>2, <2>5, <2>7, JobMoves
<1>5. CASE SnapshotCreate(j)
  <2> DEFINE q == [job[j] EXCEPT !.pc = "clean"]
  <2>1. job[j].pc = "create" /\ rows' = rows \union job[j].snapshots
        /\ job' = [job EXCEPT ![j] = q]
        /\ UNCHANGED <<clock, staked, held, begun, cuts>>
    BY <1>5 DEF SnapshotCreate, JobAt
  <2>2. q \in Job /\ Carries(q)
    BY <1>1, <2>1 DEF Job, Carries
  <2>3. rows' \in SUBSET Row /\ IsFiniteSet(rows') /\ \A x \in rows' : HeldAt(x)
    <3>1. /\ IsFiniteSet(job[j].snapshots) /\ job[j].snapshots \subseteq Row
          /\ \A x \in job[j].snapshots : HeldAt(x)
      BY <1>1, <2>1 DEF Job, Carries
    <3>2. IsFiniteSet(rows \union job[j].snapshots)
      BY <1>1, <3>1, FS_Union
    <3> QED
      BY <1>1, <2>1, <3>1, <3>2
  <2> HIDE DEF q
  <2> QED
    BY <1>1, <2>1, <2>2, <2>3, JobMoves
<1>6. CASE SnapshotClean(j)
  <2>1. rows' \in SUBSET Row /\ IsFiniteSet(rows') /\ \A x \in rows' : HeldAt(x)
    <3>1. rows' \subseteq rows
      BY <1>6 DEF SnapshotClean
    <3>2. IsFiniteSet(rows')
      BY <1>1, <3>1, FS_Subset
    <3> QED
      BY <1>1, <3>1, <3>2
  <2> QED
    BY <1>1, <1>2, <1>6, <2>1, JobMoves DEF SnapshotClean, JobDone
<1>7. CASE JobAbort(j)
  <2>1. /\ job' = [job EXCEPT ![j] = NoJob] /\ cuts' \in Nat
        /\ UNCHANGED <<clock, staked, held, rows, begun>>
    BY <1>1, <1>7 DEF JobAbort, JobDone
  <2>2. rows' \in SUBSET Row /\ IsFiniteSet(rows') /\ \A x \in rows' : HeldAt(x)
    BY <1>1, <2>1
  <2> QED
    BY <1>1, <1>2, <2>1, <2>2, JobMoves
<1> QED
  BY <1>3, <1>4, <1>5, <1>6, <1>7 DEF JobStep

(* Time goes on, or stakes change: no job moves. *)
LEMMA DaysMove ==
    ASSUME SnapshotsIInv, SnapshotsTypeOK', Grows, UNCHANGED <<rows, job>>,
           \A w \in Wallets : staked'[w] \in held'[w][clock'],
           \A j \in Jobs : job[j].pc # "idle" => clock' <= job[j].since + MaxRun
    PROVE  SnapshotsIInv'
<1>1. ASSUME NEW j \in Jobs PROVE Carries(job[j])'
  <2>1. PICK q \in Job : job[j] = q /\ job'[j] = q /\ Carries(q)
    BY DEF SnapshotsIInv, SnapshotsTypeOK
  <2>2. Carries(q)'
    BY <2>1, CarriesStays DEF SnapshotsIInv
  <2> QED
    BY <2>1, <2>2 DEF Carries
<1>2. ASSUME NEW x \in rows' PROVE HeldAt(x)'
  BY HeldStays DEF SnapshotsIInv, SnapshotsTypeOK
<1> QED
  BY <1>1, <1>2 DEF SnapshotsIInv

LEMMA SnapshotsNextIInv == SnapshotsIInv /\ [SnapshotsNext]_snapshotVars => SnapshotsIInv'
<1> SUFFICES ASSUME SnapshotsIInv, [SnapshotsNext]_snapshotVars PROVE SnapshotsIInv'
  OBVIOUS
<1>1. /\ SnapshotsTypeOK /\ clock \in Nat /\ clock <= MaxTime
      /\ \A w \in Wallets : held[w] \in [0..MaxTime -> SUBSET Amounts]
  BY DayBoundAssumption DEF SnapshotsIInv, SnapshotsTypeOK
<1>2. CASE Tick
  <2>1. /\ clock' = clock + 1 /\ clock + 1 \in 0..MaxTime
        /\ held' = [w \in Wallets |-> [held[w] EXCEPT ![clock + 1] = {staked[w]}]]
        /\ UNCHANGED <<staked, rows, job, begun, cuts>>
    BY <1>1, <1>2, DayBoundAssumption DEF Tick
  <2>2. ASSUME NEW w \in Wallets
        PROVE  /\ held'[w] \in [0..MaxTime -> SUBSET Amounts]
               /\ held'[w][clock + 1] = {staked[w]}
               /\ \A d \in 0..clock : held'[w][d] = held[w][d]
    <3>1. staked[w] \in Amounts /\ held[w] \in [0..MaxTime -> SUBSET Amounts]
      BY <1>1 DEF SnapshotsTypeOK
    <3>2. held'[w] = [held[w] EXCEPT ![clock + 1] = {staked[w]}]
      BY <2>1
    <3>3. held'[w] \in [0..MaxTime -> SUBSET Amounts]
      <4>1. {staked[w]} \in SUBSET Amounts
        BY <3>1
      <4> QED
        BY <3>1, <3>2, <4>1
    <3>4. held'[w][clock + 1] = {staked[w]}
      BY <2>1, <3>1, <3>2
    <3>5. \A d \in 0..clock : d \in 0..MaxTime /\ d # clock + 1
      BY <1>1, DayBoundAssumption
    <3> QED
      BY <3>1, <3>2, <3>3, <3>4, <3>5
  <2>3. SnapshotsTypeOK'
    BY <2>1, <2>2 DEF SnapshotsIInv, SnapshotsTypeOK
  <2>4. Grows
    BY <1>1, <2>1, <2>2 DEF Grows
  <2>5. \A w \in Wallets : staked'[w] \in held'[w][clock']
    BY <2>1, <2>2
  <2>6. ASSUME NEW j \in Jobs, job[j].pc # "idle" PROVE clock' <= job[j].since + MaxRun
    <3>1. clock < job[j].since + MaxRun /\ job[j].since \in Nat
      BY <1>1, <1>2, <2>6 DEF Tick, JobFree, SnapshotsTypeOK, Job
    <3> QED
      BY <1>1, <2>1, <3>1, DayAssumption
  <2> QED
    BY <2>1, <2>3, <2>4, <2>5, <2>6, DaysMove
<1>3. ASSUME NEW w \in Wallets, NEW a \in Amounts, Restake(w, a) PROVE SnapshotsIInv'
  <2>1. /\ staked' = [staked EXCEPT ![w] = a]
        /\ held' = [held EXCEPT ![w] = [held[w] EXCEPT ![clock] = held[w][clock] \union {a}]]
        /\ UNCHANGED <<clock, rows, job, begun, cuts>>
    BY <1>3 DEF Restake
  <2>2. held'[w] = [held[w] EXCEPT ![clock] = held[w][clock] \union {a}]
    BY <2>1 DEF SnapshotsIInv, SnapshotsTypeOK
  <2>3. /\ held'[w] \in [0..MaxTime -> SUBSET Amounts]
        /\ a \in held'[w][clock]
        /\ \A d \in 0..clock : held[w][d] \subseteq held'[w][d]
    <3>1. held[w] \in [0..MaxTime -> SUBSET Amounts] /\ clock \in 0..MaxTime
      BY <1>1, DayBoundAssumption
    <3>2. held'[w] \in [0..MaxTime -> SUBSET Amounts]
      <4>1. held[w][clock] \union {a} \in SUBSET Amounts
        BY <3>1
      <4> QED
        BY <2>2, <3>1, <4>1
    <3>3. held'[w][clock] = held[w][clock] \union {a}
      BY <2>2, <3>1
    <3>4. \A d \in 0..MaxTime : d # clock => held'[w][d] = held[w][d]
      BY <2>2, <3>1
    <3>5. \A d \in 0..clock : d \in 0..MaxTime
      BY <1>1, DayBoundAssumption
    <3> QED
      BY <3>2, <3>3, <3>4, <3>5
  <2>4. \A v \in Wallets \ {w} : held'[v] = held[v]
    BY <2>1 DEF SnapshotsIInv, SnapshotsTypeOK
  <2>5. SnapshotsTypeOK'
    BY <2>1, <2>3 DEF SnapshotsIInv, SnapshotsTypeOK
  <2>6. Grows
    BY <1>1, <2>1, <2>3, <2>4 DEF Grows
  <2>7. \A v \in Wallets : staked'[v] \in held'[v][clock']
    BY <2>1, <2>3, <2>4 DEF SnapshotsIInv, SnapshotsTypeOK
  <2>8. \A j \in Jobs : job[j].pc # "idle" => clock' <= job[j].since + MaxRun
    BY <2>1 DEF SnapshotsIInv, Carries
  <2> QED
    BY <2>1, <2>5, <2>6, <2>7, <2>8, DaysMove
<1>4. CASE UNCHANGED snapshotVars
  BY <1>4 DEF snapshotVars, SnapshotsIInv, SnapshotsTypeOK, Carries, HeldAt
<1> QED
  BY <1>2, <1>3, <1>4, JobPreserves DEF SnapshotsNext

(* The invariant holds in every state: rows, and what jobs are about to    *)
(* store, were held when their job began.                                  *)
THEOREM SnapshotsInvariant == SnapshotsSpec => []SnapshotsIInv
<1> QED
  BY SnapshotsInitIInv, SnapshotsNextIInv, PTL DEF SnapshotsSpec

(* Every variable of the snapshots has its type. *)
THEOREM SnapshotsTypeCorrect == SnapshotsSpec => []SnapshotsTypeOK
<1>1. SnapshotsIInv => SnapshotsTypeOK
  BY DEF SnapshotsIInv
<1> QED
  BY <1>1, SnapshotsInvariant, PTL

(* Whatever jobs, calls of the endpoint and clean-ups overlap, an average  *)
(* is made of amounts that the wallet held in the period, or in the run of *)
(* a job before it (discount.service.ts:23-64, :81-87).                    *)
THEOREM AveragesAreOfHeld == SnapshotsSpec => []AveragesUseHeld
<1>1. SnapshotsIInv => AveragesUseHeld
  <2> SUFFICES ASSUME SnapshotsIInv, NEW w \in Wallets, NEW x \in Used(w)
               PROVE  x.amount \in Held(w)
    BY DEF AveragesUseHeld
  <2>1. /\ x \in rows /\ x \in Row /\ x.wallet = w /\ x.date \in Nat
        /\ x.date >= clock - Window /\ clock \in Nat
    BY DayBoundAssumption DEF Used, SnapshotsIInv, SnapshotsTypeOK, Row
  <2>2. PICK d \in 0..clock : /\ d <= x.date /\ x.date <= d + MaxRun
                              /\ x.amount \in held[w][d]
    BY <2>1 DEF SnapshotsIInv, HeldAt
  <2>3. d >= clock - Window - MaxRun
    BY <2>1, <2>2, DayAssumption
  <2> QED
    BY <2>2, <2>3 DEF Held
<1> QED
  BY <1>1, SnapshotsInvariant, PTL

(* A table of discounts only rises. *)
LEMMA PercentageRises ==
    ASSUME NEW a \in Nat, NEW b \in Nat, a <= b
    PROVE  Percentage(a) <= Percentage(b)
  BY BillionAssumption DEF Percentage

(* Whatever jobs, calls of the endpoint and clean-ups overlap, a discount  *)
(* is one that an amount held in the period earns, and while there is a    *)
(* snapshot at least that of the least such amount                         *)
(* (discount.service.ts:23-64, :81-97, :185-189).                          *)
THEOREM DiscountsAreEarned == SnapshotsSpec => []DiscountIsEarned
<1>1. SnapshotsIInv /\ AveragesUseHeld => DiscountIsEarned
  <2> SUFFICES ASSUME SnapshotsIInv, AveragesUseHeld, NEW w \in Wallets
               PROVE  /\ \E a \in Held(w) :
                             /\ Average(w) <= a
                             /\ Percentage(Average(w)) <= Percentage(a)
                      /\ Used(w) # {} =>
                             \E a \in Held(w) :
                                 /\ Average(w) >= a
                                 /\ Percentage(Average(w)) >= Percentage(a)
    BY DEF DiscountIsEarned
  <2>1. Held(w) \subseteq Nat
    <3>1. held[w] \in [0..MaxTime -> SUBSET Amounts] /\ clock \in 0..MaxTime
      BY DEF SnapshotsIInv, SnapshotsTypeOK
    <3>2. \A d \in 0..clock : d \in 0..MaxTime
      BY <3>1, DayBoundAssumption
    <3>3. Held(w) \subseteq Amounts
      BY <3>1, <3>2 DEF Held
    <3> QED
      BY <3>3, AmountAssumption
  <2>2. CASE Used(w) = {}
    <3>1. Average(w) = 0
      BY <2>2 DEF Average
    <3>2. staked[w] \in Held(w)
      <4>1. clock \in Nat /\ clock \in 0..clock /\ clock >= clock - Window - MaxRun
        BY DayAssumption, DayBoundAssumption DEF SnapshotsIInv, SnapshotsTypeOK
      <4>2. staked[w] \in held[w][clock]
        BY DEF SnapshotsIInv
      <4> QED
        BY <4>1, <4>2 DEF Held
    <3>3. staked[w] \in Nat /\ 0 <= staked[w]
      BY <2>1, <3>2
    <3>4. Percentage(0) <= Percentage(staked[w])
      BY <3>3, PercentageRises
    <3> QED
      BY <2>2, <3>1, <3>2, <3>3, <3>4
  <2>3. CASE Used(w) # {}
    <3>1. PICK U, f : U = Used(w) /\ f = [x \in U |-> x.amount]
      OBVIOUS
    <3>2. IsFiniteSet(U) /\ U # {}
      <4>1. U \subseteq rows /\ IsFiniteSet(rows)
        BY <3>1 DEF Used, SnapshotsIInv
      <4> QED
        BY <2>3, <3>1, <4>1, FS_Subset
    <3>3. \A x \in U : x.amount \in Held(w)
      BY <3>1 DEF AveragesUseHeld
    <3>4. f \in [U -> Nat]
      BY <2>1, <3>1, <3>3
    <3>5. PICK m \in Nat : /\ m = SumOver(f) \div Cardinality(U)
                           /\ \E x \in U : m <= f[x]
                           /\ \E x \in U : m >= f[x]
      BY <3>2, <3>4, AverageBetween
    <3>6. Average(w) = m
      BY <2>3, <3>1, <3>5 DEF Average, Total
    <3>7. PICK a \in Held(w), b \in Held(w) : m <= a /\ m >= b
      BY <3>1, <3>3, <3>5
    <3>8. Percentage(m) <= Percentage(a) /\ Percentage(b) <= Percentage(m)
      BY <2>1, <3>7, PercentageRises
    <3>9. /\ Percentage(m) \in Nat /\ Percentage(b) \in Nat
          /\ a \in Nat /\ b \in Nat
      BY <2>1, BillionAssumption DEF Percentage
    <3> QED
      BY <3>6, <3>7, <3>8, <3>9
  <2> QED
    BY <2>2, <2>3
<1> QED
  BY <1>1, SnapshotsInvariant, AveragesAreOfHeld, PTL

=============================================================================
