----------------------------- MODULE SumsProofs -----------------------------
(***************************************************************************)
(* What the other proofs use of a sum over a finite set: its type, what    *)
(* one more row or one changed value does to it, and what bounds on the    *)
(* values say of it.                                                       *)
(***************************************************************************)
EXTENDS Sums, FiniteSetTheorems, TLAPS

LEMMA UnitsFinite ==
    ASSUME NEW S, IsFiniteSet(S), NEW f \in [S -> Int]
    PROVE  IsFiniteSet(Units(f)) /\ Cardinality(Units(f)) \in Nat
<1> DEFINE F == [s \in S |-> {s} \X (1..f[s])]
<1>1. PICK T : T = {{s} \X (1..f[s]) : s \in S}
  OBVIOUS
<1>2. IsFiniteSet(T)
  <2>1. F \in Surjection(S, T)
    BY <1>1 DEF Surjection
  <2> QED
    BY <2>1, FS_Surjection
<1>3. ASSUME NEW U \in T PROVE IsFiniteSet(U)
  <2>1. PICK s \in S : U = {s} \X (1..f[s])
    BY <1>1
  <2>2. IsFiniteSet({s})
    BY FS_Singleton
  <2>3. IsFiniteSet(1..f[s])
    BY FS_Interval
  <2> QED
    BY <2>1, <2>2, <2>3, FS_Product
<1>4. IsFiniteSet(UNION T)
  BY <1>2, <1>3, FS_UNION
<1>5. Units(f) = UNION T
  BY <1>1 DEF Units
<1> QED
  BY <1>4, <1>5, FS_CardinalityType

(* One more row adds as many units as its value has. *)
LEMMA UnitsGrow ==
    ASSUME NEW S, IsFiniteSet(S), NEW r, r \notin S,
           NEW f \in [S -> Int], NEW g \in [S \union {r} -> Int],
           \A s \in S : g[s] = f[s]
    PROVE  Cardinality(Units(g)) =
               Cardinality(Units(f)) + (IF g[r] > 0 THEN g[r] ELSE 0)
<1>1. PICK A, B, C : /\ A = Units(f) /\ B = {r} \X (1..g[r])
                     /\ C = Units(g)
  OBVIOUS
<1>2. C = A \union B
  BY <1>1 DEF Units
<1>3. A \cap B = {}
  BY <1>1 DEF Units
<1>4. IsFiniteSet(A)
  BY <1>1, UnitsFinite
<1>5. IsFiniteSet(B) /\ Cardinality(B) = IF g[r] > 0 THEN g[r] ELSE 0
  <2>1. IsFiniteSet({r}) /\ Cardinality({r}) = 1
    BY FS_Singleton
  <2>2. g[r] \in Int
    OBVIOUS
  <2>3. IsFiniteSet(1..g[r])
        /\ Cardinality(1..g[r]) = IF 1 > g[r] THEN 0 ELSE g[r] - 1 + 1
    BY <2>2, FS_Interval
  <2>4. IsFiniteSet(B) /\ Cardinality(B) = Cardinality({r}) * Cardinality(1..g[r])
    BY <1>1, <2>1, <2>3, FS_Product
  <2> QED
    BY <2>1, <2>2, <2>3, <2>4
<1>6. Cardinality(A \union B) = Cardinality(A) + Cardinality(B) - Cardinality(A \cap B)
  BY <1>4, <1>5, FS_Union
<1>7. Cardinality({}) = 0 /\ Cardinality(A) \in Nat
  BY <1>4, FS_EmptySet, FS_CardinalityType
<1>8. g[r] \in Int
  OBVIOUS
<1> QED
  BY <1>1, <1>2, <1>3, <1>5, <1>6, <1>7, <1>8

LEMMA SumType ==
    ASSUME NEW S, IsFiniteSet(S), NEW f \in [S -> Int]
    PROVE  SumOver(f) \in Int
<1>1. [s \in S |-> -f[s]] \in [S -> Int]
  OBVIOUS
<1>2. /\ Cardinality(Units(f)) \in Nat
      /\ Cardinality(Units([s \in S |-> -f[s]])) \in Nat
  BY <1>1, UnitsFinite
<1> QED
  BY <1>2 DEF SumOver

(* A row that is added adds its value. *)
LEMMA SumGrows ==
    ASSUME NEW S, IsFiniteSet(S), NEW r, r \notin S,
           NEW f \in [S -> Int], NEW g \in [S \union {r} -> Int],
           \A s \in S : g[s] = f[s]
    PROVE  SumOver(g) = SumOver(f) + g[r]
<1>1. PICK m, n : /\ m = [s \in S |-> -f[s]]
                  /\ n = [s \in S \union {r} |-> -g[s]]
  OBVIOUS
<1>2. /\ m \in [S -> Int] /\ n \in [S \union {r} -> Int]
      /\ \A s \in S : n[s] = m[s]
      /\ n[r] = -g[r] /\ g[r] \in Int
  BY <1>1
<1>3. Cardinality(Units(g)) =
          Cardinality(Units(f)) + (IF g[r] > 0 THEN g[r] ELSE 0)
  BY UnitsGrow
<1>4. Cardinality(Units(n)) =
          Cardinality(Units(m)) + (IF n[r] > 0 THEN n[r] ELSE 0)
  BY <1>2, UnitsGrow
<1>5. Cardinality(Units(f)) \in Nat /\ Cardinality(Units(m)) \in Nat
  BY <1>2, UnitsFinite
<1>6. /\ SumOver(f) = Cardinality(Units(f)) - Cardinality(Units(m))
      /\ SumOver(g) = Cardinality(Units(g)) - Cardinality(Units(n))
  BY <1>1 DEF SumOver
<1> QED
  BY <1>2, <1>3, <1>4, <1>5, <1>6

(* So does an element at the end of a sequence. *)
LEMMA SumAppends ==
    ASSUME NEW n \in Nat, NEW f \in [1..n -> Int], NEW g \in [1..(n + 1) -> Int],
           \A i \in 1..n : g[i] = f[i]
    PROVE  SumOver(g) = SumOver(f) + g[n + 1]
<1>1. PICK I, k : I = 1..n /\ k = n + 1
  OBVIOUS
<1>2. I \union {k} = 1..(n + 1) /\ k \notin I
  BY <1>1
<1>3. IsFiniteSet(I)
  BY <1>1, FS_Interval
<1>4. f \in [I -> Int] /\ g \in [I \union {k} -> Int] /\ \A i \in I : g[i] = f[i]
  BY <1>1, <1>2
<1>5. \A F \in [I -> Int], G \in [I \union {k} -> Int] :
          (\A i \in I : G[i] = F[i]) => SumOver(G) = SumOver(F) + G[k]
  BY <1>2, <1>3, SumGrows
<1>6. SumOver(g) = SumOver(f) + g[k]
  BY <1>4, <1>5
<1> QED
  BY <1>1, <1>6

(* When one value changes, the sum changes by as much. *)
LEMMA SumChanges ==
    ASSUME NEW S, IsFiniteSet(S), NEW r \in S,
           NEW f \in [S -> Int], NEW g \in [S -> Int],
           \A s \in S \ {r} : g[s] = f[s]
    PROVE  SumOver(g) - SumOver(f) = g[r] - f[r]
<1>1. PICK R, h : R = S \ {r} /\ h = [s \in R |-> f[s]]
  OBVIOUS
<1>2. /\ S = R \union {r} /\ r \notin R
      /\ h \in [R -> Int]
      /\ \A s \in R : f[s] = h[s] /\ g[s] = h[s]
  BY <1>1
<1>3. IsFiniteSet(R)
  BY <1>1, FS_RemoveElement
<1>4. SumOver(f) = SumOver(h) + f[r]
  BY <1>2, <1>3, SumGrows
<1>5. SumOver(g) = SumOver(h) + g[r]
  BY <1>2, <1>3, SumGrows
<1>6. SumOver(h) \in Int /\ f[r] \in Int /\ g[r] \in Int
  BY <1>2, <1>3, SumType
<1> QED
  BY <1>4, <1>5, <1>6

LEMMA SumZero ==
    ASSUME NEW S, NEW f \in [S -> Int], \A s \in S : f[s] = 0
    PROVE  SumOver(f) = 0
<1>1. Units(f) = {} /\ Units([s \in S |-> -f[s]]) = {}
  BY DEF Units
<1> QED
  BY <1>1, FS_EmptySet DEF SumOver

(* The sum of values that are not negative is the number of their units.   *)
LEMMA SumOfNats ==
    ASSUME NEW S, IsFiniteSet(S), NEW f \in [S -> Nat]
    PROVE  SumOver(f) = Cardinality(Units(f)) /\ SumOver(f) \in Nat
<1>1. Units([s \in S |-> -f[s]]) = {}
  BY DEF Units
<1>2. Cardinality(Units(f)) \in Nat
  <2>1. f \in [S -> Int]
    OBVIOUS
  <2> QED
    BY <2>1, UnitsFinite
<1> QED
  BY <1>1, <1>2, FS_EmptySet DEF SumOver

(* A bound of the values, times their number, is a bound of the sum.       *)
LEMMA SumAtMost ==
    ASSUME NEW S, IsFiniteSet(S), NEW f \in [S -> Nat], NEW b \in Nat,
           \A s \in S : f[s] <= b
    PROVE  SumOver(f) <= Cardinality(S) * b
<1>1. Units(f) \subseteq S \X (1..b)
  BY DEF Units
<1>2. IsFiniteSet(1..b) /\ Cardinality(1..b) = b
  BY FS_Interval
<1>3. IsFiniteSet(S \X (1..b)) /\ Cardinality(S \X (1..b)) = Cardinality(S) * b
  BY <1>2, FS_Product
<1>4. Cardinality(Units(f)) <= Cardinality(S \X (1..b))
  BY <1>1, <1>3, FS_Subset
<1> QED
  BY <1>3, <1>4, SumOfNats

LEMMA SumAtLeast ==
    ASSUME NEW S, IsFiniteSet(S), NEW f \in [S -> Nat], NEW b \in Nat,
           \A s \in S : f[s] >= b
    PROVE  SumOver(f) >= Cardinality(S) * b
<1>1. S \X (1..b) \subseteq Units(f)
  BY DEF Units
<1>2. IsFiniteSet(1..b) /\ Cardinality(1..b) = b
  BY FS_Interval
<1>3. IsFiniteSet(S \X (1..b)) /\ Cardinality(S \X (1..b)) = Cardinality(S) * b
  BY <1>2, FS_Product
<1>4. IsFiniteSet(Units(f))
  <2>1. f \in [S -> Int]
    OBVIOUS
  <2> QED
    BY <2>1, UnitsFinite
<1>5. Cardinality(S \X (1..b)) <= Cardinality(Units(f))
  BY <1>1, <1>4, FS_Subset
<1> QED
  BY <1>3, <1>5, SumOfNats

(* What is left of a division is less than the divisor.                    *)
LEMMA DivFloor ==
    ASSUME NEW a \in Nat, NEW b \in Nat \ {0}
    PROVE  /\ a \div b \in Nat
           /\ b * (a \div b) <= a /\ a < b * (a \div b) + b
  OBVIOUS

(* An average, rounded down, lies between two of its values.               *)
LEMMA AverageBetween ==
    ASSUME NEW S, IsFiniteSet(S), S # {}, NEW f \in [S -> Nat]
    PROVE  /\ Cardinality(S) \in Nat \ {0}
           /\ SumOver(f) \div Cardinality(S) \in Nat
           /\ \E s \in S : SumOver(f) \div Cardinality(S) <= f[s]
           /\ \E s \in S : SumOver(f) \div Cardinality(S) >= f[s]
<1>1. PICK n \in Nat, t \in Nat : n = Cardinality(S) /\ t = SumOver(f)
  BY FS_CardinalityType, SumOfNats
<1>2. n # 0
  BY <1>1, FS_EmptySet
<1>3. PICK m \in Nat : m = t \div n /\ n * m <= t /\ t < n * m + n
  BY <1>2, DivFloor
<1>4. ASSUME \A s \in S : ~(m <= f[s]) PROVE FALSE
  <2>1. PICK s \in S : TRUE
    OBVIOUS
  <2>2. m # 0
    BY <1>4, <2>1
  <2>3. m - 1 \in Nat /\ \A q \in S : f[q] <= m - 1
    BY <1>4, <2>2
  <2>4. t <= n * (m - 1)
    BY <1>1, <2>3, SumAtMost
  <2>5. n * (m - 1) = n * m - n /\ n * m \in Nat
    OBVIOUS
  <2> QED
    BY <1>2, <1>3, <2>4, <2>5
<1>5. ASSUME \A s \in S : ~(m >= f[s]) PROVE FALSE
  <2>1. m + 1 \in Nat /\ \A q \in S : f[q] >= m + 1
    BY <1>5
  <2>2. t >= n * (m + 1)
    BY <1>1, <2>1, SumAtLeast
  <2>3. n * (m + 1) = n * m + n /\ n * m \in Nat
    OBVIOUS
  <2> QED
    BY <1>3, <2>2, <2>3
<1> QED
  BY <1>1, <1>2, <1>3, <1>4, <1>5

=============================================================================
