--------------------------- MODULE ReportingProofs ---------------------------
(***************************************************************************)
(* The reporting worker handles the events of an order in turn, writes     *)
(* facts that tell the truth and keeps the promises of SalesLedger, and    *)
(* the reports add up: for any number of orders, lines, waiters and days,  *)
(* any batch size and any number of attempts, faults and redeliveries.     *)
(***************************************************************************)
EXTENDS Reporting, WellFoundedInduction, FiniteSetTheorems, TLAPS

-----------------------------------------------------------------------------
(* What is left of a batch *)

(* A set of natural numbers has a least element: the form in which these    *)
(* proofs do induction.                                                     *)
LEMMA Least ==
    ASSUME NEW T \in SUBSET Nat, T # {}
    PROVE  \E n \in T : \A m \in T : n <= m
<1> DEFINE Lt == OpToRel(<, Nat)
<1>1. \A x, y \in Nat : <<x, y>> \in Lt <=> x < y
  BY DEF OpToRel
<1>2. IsWellFoundedOn(Lt, Nat)
  BY NatLessThanWellFounded
<1> HIDE DEF Lt
<1>3. PICK n \in T : \A y \in T : ~(<<y, n>> \in Lt)
  BY <1>2, WFMin
<1>4. \A y \in T : ~(y < n) /\ y \in Nat /\ n \in Nat
  BY <1>1, <1>3
<1> QED
  BY <1>4

LEMMA Small ==
    ASSUME NEW n \in Nat, NEW S \in SUBSET (1 .. n)
    PROVE  IsFiniteSet(S) /\ Cardinality(S) \in Nat
<1>1. IsFiniteSet(1 .. n)
  BY FS_Interval
<1> QED
  BY <1>1, FS_Subset, FS_CardinalityType

(* What is left of a batch can be put in order.                             *)
Orderable(S) == \E f \in [1 .. Cardinality(S) -> S] : \A m, n \in 1 .. Cardinality(S) : m < n => f[m] < f[n]

LEMMA AllOrderable ==
    ASSUME NEW n \in Nat, NEW S \in SUBSET (1 .. n)
    PROVE  Orderable(S)
<1> DEFINE bad == {m \in Nat : \E U \in SUBSET (1 .. m) : ~Orderable(U)}
<1> SUFFICES ASSUME bad # {} PROVE FALSE
  OBVIOUS
<1>1. PICK m \in bad : \A k \in bad : m <= k
  BY Least
<1>2. PICK U \in SUBSET (1 .. m) : ~Orderable(U)
  OBVIOUS
<1>3. IsFiniteSet(U) /\ Cardinality(U) \in Nat
  BY Small
<1>4. m # 0
  <2>1. SUFFICES ASSUME m = 0 PROVE FALSE
    OBVIOUS
  <2>2. U = {}
    BY <2>1
  <2>3. Cardinality(U) = 0
    BY <2>2, FS_EmptySet
  <2>4. 1 .. Cardinality(U) = {}
    BY <2>3
  <2>5. \E f \in [{} -> U] : TRUE
    <3>1. [k \in {} |-> k] \in [{} -> U]
      OBVIOUS
    <3> QED
      BY <3>1
  <2> QED
    BY <1>2, <2>4, <2>5 DEF Orderable
<1>5. m - 1 \in Nat /\ m - 1 \notin bad
  <2>1. m \in Nat
    OBVIOUS
  <2> HIDE DEF bad
  <2> QED
    BY <1>1, <1>4, <2>1
<1> DEFINE W == U \ {m}
<1>6. W \in SUBSET (1 .. m - 1) /\ W \subseteq U
  OBVIOUS
<1>7. Orderable(W)
  BY <1>5, <1>6
<1>8. m \in U
  BY <1>2, <1>7
<1>9. Cardinality(W) = Cardinality(U) - 1 /\ Cardinality(W) \in Nat
  BY <1>3, <1>8, FS_RemoveElement, FS_CardinalityType
<1> DEFINE c == Cardinality(W)
<1>10. PICK f \in [1 .. c -> W] : \A i, j \in 1 .. c : i < j => f[i] < f[j]
  BY <1>7 DEF Orderable
<1> DEFINE g == [i \in 1 .. c + 1 |-> IF i = c + 1 THEN m ELSE f[i]]
<1>11. Cardinality(U) = c + 1 /\ c \in Nat
  BY <1>3, <1>9
<1>12. \A w \in W : w \in Nat /\ w < m
  BY <1>6
<1>13. \A i \in 1 .. c : f[i] \in W /\ f[i] < m
  <2> HIDE DEF c, W
  <2> QED
    BY <1>6, <1>10, <1>12, <1>11
<1> HIDE DEF c, W
<1>14. g \in [1 .. c + 1 -> U]
  <2>1. ASSUME NEW i \in 1 .. c + 1
        PROVE  (IF i = c + 1 THEN m ELSE f[i]) \in U
    <3>1. i = c + 1 \/ i \in 1 .. c
      BY <1>11
    <3> QED
      BY <3>1, <1>6, <1>8, <1>13
  <2> QED
    BY <2>1
<1>15. \A i, j \in 1 .. c + 1 : i < j => g[i] < g[j]
  BY <1>10, <1>11, <1>13
<1> HIDE DEF g
<1> QED
  BY <1>2, <1>11, <1>14, <1>15 DEF Orderable

LEMMA IncreasingIsIn ==
    ASSUME NEW n \in Nat, NEW S \in SUBSET (1 .. n)
    PROVE  Increasing(S) \in [1 .. Cardinality(S) -> S] /\ Cardinality(S) \in Nat
<1>1. Cardinality(S) \in Nat
  BY Small
<1> DEFINE In(f) == \A i, j \in 1 .. Cardinality(S) : i < j => f[i] < f[j]
<1>2. \E f \in [1 .. Cardinality(S) -> S] : In(f)
  BY AllOrderable DEF Orderable
<1>3. Increasing(S) = CHOOSE f \in [1 .. Cardinality(S) -> S] : In(f)
  BY DEF Increasing
<1> HIDE DEF In
<1> QED
  BY <1>1, <1>2, <1>3

-----------------------------------------------------------------------------
(* Sums *)

(* The recursion by which the library adds up f over the subsets of S.      *)
Some(s) == CHOOSE x \in s : TRUE
Adding(f, S, add) ==
    add = [s \in SUBSET S |-> IF s = {} THEN 0 ELSE f[Some(s)] + add[s \ {Some(s)}]]
SumOver(f, S) == (CHOOSE add : Adding(f, S, add))[S]

LEMMA SomeIn ==
    ASSUME NEW s, s # {}
    PROVE  Some(s) \in s
  BY DEF Some

LEMMA Smaller ==
    ASSUME NEW S, IsFiniteSet(S), NEW s \in SUBSET S
    PROVE  /\ IsFiniteSet(s) /\ Cardinality(s) \in Nat /\ Cardinality(s) <= Cardinality(S)
           /\ \A x \in s : s \ {x} \in SUBSET S /\ Cardinality(s \ {x}) = Cardinality(s) - 1
           /\ Cardinality(s) = 0 <=> s = {}
<1>1. IsFiniteSet(s) /\ Cardinality(s) \in Nat /\ Cardinality(s) <= Cardinality(S)
  BY FS_Subset, FS_CardinalityType
<1>2. \A x \in s : Cardinality(s \ {x}) = Cardinality(s) - 1
  BY <1>1, FS_RemoveElement
<1> QED
  BY <1>1, <1>2, FS_EmptySet

(* The recursion has a solution.                                            *)
LEMMA AddingExists ==
    ASSUME NEW f, NEW S, IsFiniteSet(S), \A x \in S : f[x] \in Nat
    PROVE  \E add \in [SUBSET S -> Nat] : Adding(f, S, add)
<1> DEFINE Step(s, add) == IF s = {} THEN 0 ELSE f[Some(s)] + add[s \ {Some(s)}]
           Upto(n) == \E add \in [SUBSET S -> Nat] : \A s \in SUBSET S : Cardinality(s) <= n => add[s] = Step(s, add)
           bad == {n \in Nat : ~Upto(n)}
<1>1. \A s \in SUBSET S : /\ Cardinality(s) \in Nat /\ (Cardinality(s) = 0 <=> s = {})
                          /\ Cardinality(s) <= Cardinality(S)
                          /\ s # {} => /\ f[Some(s)] \in Nat /\ s \ {Some(s)} \in SUBSET S
                                       /\ Cardinality(s \ {Some(s)}) = Cardinality(s) - 1
  BY Smaller, SomeIn
<1>2. Upto(0)
  <2> DEFINE add == [s \in SUBSET S |-> 0]
  <2>1. ASSUME NEW s \in SUBSET S, Cardinality(s) <= 0
        PROVE  add[s] = Step(s, add)
    <3>1. Cardinality(s) \in Nat /\ (Cardinality(s) = 0 <=> s = {})
      BY <1>1
    <3>2. s = {}
      BY <2>1, <3>1
    <3> QED
      BY <3>2
  <2>2. add \in [SUBSET S -> Nat]
    OBVIOUS
  <2> HIDE DEF add, Step
  <2> QED
    BY <2>1, <2>2
<1>3. ASSUME NEW n \in Nat, Upto(n)
      PROVE  Upto(n + 1)
  <2> PICK add \in [SUBSET S -> Nat] : \A s \in SUBSET S : Cardinality(s) <= n => add[s] = Step(s, add)
    BY <1>3
  <2> DEFINE next == [s \in SUBSET S |-> IF Cardinality(s) = n + 1 THEN Step(s, add) ELSE add[s]]
  <2>1. ASSUME NEW s \in SUBSET S
        PROVE  Step(s, add) \in Nat
    <3>1. CASE s = {}
      BY <3>1
    <3>2. CASE s # {}
      <4>1. f[Some(s)] \in Nat /\ s \ {Some(s)} \in SUBSET S
        BY <1>1, <3>2
      <4>2. add[s \ {Some(s)}] \in Nat
        BY <4>1
      <4> QED
        BY <3>2, <4>1, <4>2
    <3> QED
      BY <3>1, <3>2
  <2>2. next \in [SUBSET S -> Nat]
    BY <2>1
  <2>3. ASSUME NEW s \in SUBSET S, Cardinality(s) <= n + 1
        PROVE  next[s] = Step(s, next)
    <3>1. CASE s = {}
      <4>1. Cardinality(s) = 0
        BY <1>1, <3>1
      <4>2. Cardinality(s) <= n /\ Cardinality(s) # n + 1
        BY <4>1
      <4>3. next[s] = add[s] /\ add[s] = Step(s, add)
        BY <4>2
      <4> QED
        BY <3>1, <4>3
    <3>2. CASE s # {}
      <4> DEFINE t == s \ {Some(s)}
      <4>1. t \in SUBSET S /\ Cardinality(t) = Cardinality(s) - 1 /\ Cardinality(s) \in Nat
        BY <1>1, <3>2
      <4>2. Cardinality(t) # n + 1
        BY <2>3, <4>1
      <4>3. next[t] = add[t]
        BY <4>1, <4>2
      <4>4. next[s] = Step(s, add)
        BY <2>3, <4>1
      <4> QED
        BY <3>2, <4>3, <4>4
    <3> QED
      BY <3>1, <3>2
  <2> HIDE DEF next, Step
  <2> QED
    BY <2>2, <2>3
<1>4. bad = {}
  <2> SUFFICES ASSUME bad # {} PROVE FALSE
    OBVIOUS
  <2>1. PICK n \in bad : \A m \in bad : n <= m
    BY Least
  <2>2. n \in Nat /\ ~Upto(n)
    OBVIOUS
  <2>3. n # 0
    BY <1>2, <2>2
  <2>4. n - 1 \in Nat /\ n - 1 + 1 = n /\ ~(n <= n - 1)
    BY <2>2, <2>3
  <2>5. Upto(n - 1)
    BY <2>1, <2>4
  <2> HIDE DEF Upto, bad
  <2> QED
    BY <1>3, <2>2, <2>4, <2>5
<1>5. Cardinality(S) \in Nat
  BY FS_CardinalityType
<1>6. Upto(Cardinality(S))
  BY <1>4, <1>5
<1> PICK add \in [SUBSET S -> Nat] : \A s \in SUBSET S : Cardinality(s) <= Cardinality(S) => add[s] = Step(s, add)
  BY <1>6
<1>7. \A s \in SUBSET S : add[s] = Step(s, add)
  BY <1>1
<1>8. add = [s \in SUBSET S |-> Step(s, add)]
  <2> HIDE DEF Step
  <2> QED
    BY <1>7
<1> QED
  BY <1>8 DEF Adding

(* ... and only one.                                                        *)
LEMMA AddingUnique ==
    ASSUME NEW f, NEW S, IsFiniteSet(S), NEW T \in SUBSET S, NEW a, NEW b, Adding(f, S, a), Adding(f, T, b)
    PROVE  \A s \in SUBSET T : a[s] = b[s]
<1> DEFINE bad == {Cardinality(s) : s \in {s \in SUBSET T : a[s] # b[s]}}
<1>1. \A s \in SUBSET T : /\ Cardinality(s) \in Nat
                          /\ s # {} => s \ {Some(s)} \in SUBSET T /\ Cardinality(s \ {Some(s)}) = Cardinality(s) - 1
  BY Smaller, SomeIn
<1> SUFFICES ASSUME bad # {} PROVE FALSE
  OBVIOUS
<1>2. bad \in SUBSET Nat
  BY <1>1
<1>3. PICK n \in bad : \A m \in bad : n <= m
  <2> HIDE DEF bad
  <2> QED
    BY <1>2, Least
<1>4. PICK s \in SUBSET T : a[s] # b[s] /\ n = Cardinality(s)
  OBVIOUS
<1>5. /\ a[s] = IF s = {} THEN 0 ELSE f[Some(s)] + a[s \ {Some(s)}]
      /\ b[s] = IF s = {} THEN 0 ELSE f[Some(s)] + b[s \ {Some(s)}]
  BY <1>4 DEF Adding
<1>6. s # {}
  BY <1>4, <1>5
<1>7. a[s \ {Some(s)}] = b[s \ {Some(s)}]
  <2>1. s \ {Some(s)} \in SUBSET T /\ Cardinality(s \ {Some(s)}) = n - 1 /\ n \in Nat
    BY <1>1, <1>4, <1>6
  <2>2. Cardinality(s \ {Some(s)}) \notin bad
    <3> HIDE DEF bad
    <3> QED
      BY <1>3, <2>1
  <2> QED
    BY <2>1, <2>2
<1> QED
  BY <1>4, <1>5, <1>6, <1>7

LEMMA SumBasics ==
    ASSUME NEW f, NEW S, IsFiniteSet(S), \A x \in S : f[x] \in Nat
    PROVE  /\ SumOver(f, S) \in Nat
           /\ S = {} => SumOver(f, S) = 0
           /\ S # {} => SumOver(f, S) = f[Some(S)] + SumOver(f, S \ {Some(S)})
<1> DEFINE add == CHOOSE a : Adding(f, S, a)
<1>1. \E a \in [SUBSET S -> Nat] : Adding(f, S, a)
  BY AddingExists
<1>2. Adding(f, S, add)
  BY <1>1
<1>3. PICK a \in [SUBSET S -> Nat] : Adding(f, S, a)
  BY <1>1
<1>4. S \in SUBSET S
  OBVIOUS
<1>5. add[S] = a[S] /\ SumOver(f, S) = add[S]
  <2> HIDE DEF add
  <2>1. \A s \in SUBSET S : add[s] = a[s]
    BY <1>2, <1>3, <1>4, AddingUnique
  <2> QED
    BY <1>4, <2>1 DEF SumOver, add
<1>6. S = {} => add[S] = 0
  <2> HIDE DEF add
  <2> QED
    BY <1>2, <1>4 DEF Adding
<1>7. ASSUME S # {}
      PROVE  add[S] = f[Some(S)] + SumOver(f, S \ {Some(S)})
  <2> DEFINE T == S \ {Some(S)}
             rest == CHOOSE r : Adding(f, T, r)
  <2>1. IsFiniteSet(T) /\ T \in SUBSET S /\ (\A x \in T : f[x] \in Nat) /\ T \in SUBSET T
    BY FS_Subset
  <2>2. \E r \in [SUBSET T -> Nat] : Adding(f, T, r)
    <3> HIDE DEF T
    <3> QED
      BY <2>1, AddingExists
  <2>3. Adding(f, T, rest)
    BY <2>2
  <2>4. SumOver(f, T) = rest[T]
    BY DEF SumOver
  <2> HIDE DEF rest, add
  <2>5. add[T] = rest[T]
    <3> HIDE DEF T
    <3> QED
      BY <1>2, <2>1, <2>3, AddingUnique
  <2>6. add[S] = f[Some(S)] + add[T]
    BY <1>2, <1>4, <1>7 DEF Adding
  <2> QED
    BY <2>4, <2>5, <2>6
<1> HIDE DEF add
<1> QED
  BY <1>3, <1>4, <1>5, <1>6, <1>7

(* In whatever order one adds.                                              *)
LEMMA SumTake ==
    ASSUME NEW f, NEW S, IsFiniteSet(S), \A y \in S : f[y] \in Nat, NEW x \in S
    PROVE  SumOver(f, S) = f[x] + SumOver(f, S \ {x})
<1> DEFINE Takes(s) == \A y \in s : SumOver(f, s) = f[y] + SumOver(f, s \ {y})
           bad == {Cardinality(s) : s \in {s \in SUBSET S : ~Takes(s)}}
<1>1. \A s \in SUBSET S : Cardinality(s) \in Nat /\ IsFiniteSet(s)
  BY Smaller
<1> SUFFICES ASSUME bad # {} PROVE FALSE
  OBVIOUS
<1>2. bad \in SUBSET Nat
  BY <1>1
<1>3. PICK n \in bad : \A m \in bad : n <= m
  <2> HIDE DEF bad
  <2> QED
    BY <1>2, Least
<1>4. PICK s \in SUBSET S : ~Takes(s) /\ n = Cardinality(s)
  OBVIOUS
<1>5. PICK y \in s : SumOver(f, s) # f[y] + SumOver(f, s \ {y})
  BY <1>4
<1> DEFINE c == Some(s)
<1>6. c \in s /\ SumOver(f, s) = f[c] + SumOver(f, s \ {c}) /\ IsFiniteSet(s)
  BY <1>1, <1>4, <1>5, SomeIn, SumBasics
<1>7. c # y
  BY <1>5, <1>6
<1> HIDE DEF c
<1>8. ASSUME NEW z \in s
      PROVE  Takes(s \ {z})
  <2>1. s \ {z} \in SUBSET S /\ Cardinality(s \ {z}) = n - 1 /\ n \in Nat
    BY <1>1, <1>4, <1>8, Smaller
  <2>2. Cardinality(s \ {z}) \notin bad
    <3> HIDE DEF bad
    <3> QED
      BY <1>3, <2>1
  <2> QED
    BY <2>1, <2>2
<1>9. SumOver(f, s \ {c}) = f[y] + SumOver(f, (s \ {c}) \ {y})
  BY <1>5, <1>6, <1>7, <1>8
<1>10. SumOver(f, s \ {y}) = f[c] + SumOver(f, (s \ {y}) \ {c})
  BY <1>5, <1>6, <1>7, <1>8
<1>11. (s \ {c}) \ {y} = (s \ {y}) \ {c}
  OBVIOUS
<1>12. SumOver(f, (s \ {c}) \ {y}) \in Nat /\ f[c] \in Nat /\ f[y] \in Nat
  <2>1. IsFiniteSet((s \ {c}) \ {y}) /\ (\A z \in (s \ {c}) \ {y} : f[z] \in Nat)
    BY <1>6, FS_Subset
  <2> QED
    BY <1>5, <1>6, <2>1, SumBasics
<1>13. SumOver(f, s) = f[y] + SumOver(f, s \ {y})
  <2> DEFINE rest == SumOver(f, (s \ {c}) \ {y})
             others == SumOver(f, s \ {y})
             all == SumOver(f, s)
  <2>1. all = f[c] + (f[y] + rest) /\ others = f[c] + rest
    BY <1>6, <1>9, <1>10, <1>11
  <2>2. rest \in Nat /\ f[c] \in Nat /\ f[y] \in Nat
    BY <1>12
  <2> HIDE DEF rest, others, all
  <2>3. all = f[y] + others
    BY <2>1, <2>2
  <2> QED
    BY <2>3 DEF all, others
<1> QED
  BY <1>5, <1>13

(* What is taken away and what is left add up to the whole.                 *)
LEMMA SumSplit ==
    ASSUME NEW f, NEW S, IsFiniteSet(S), \A x \in S : f[x] \in Nat, NEW T \in SUBSET S
    PROVE  /\ SumOver(f, S) = SumOver(f, T) + SumOver(f, S \ T)
           /\ SumOver(f, T) \in Nat /\ SumOver(f, S \ T) \in Nat
<1> DEFINE Splits(t) == SumOver(f, S) = SumOver(f, t) + SumOver(f, S \ t)
           bad == {Cardinality(t) : t \in {t \in SUBSET S : ~Splits(t)}}
<1>1. \A t \in SUBSET S : Cardinality(t) \in Nat /\ IsFiniteSet(t) /\ SumOver(f, t) \in Nat /\ \A x \in t : f[x] \in Nat
  <2> TAKE t \in SUBSET S
  <2>1. Cardinality(t) \in Nat /\ IsFiniteSet(t) /\ \A x \in t : f[x] \in Nat
    BY Smaller
  <2> QED
    BY <2>1, SumBasics
<1>2. S \ T \in SUBSET S
  OBVIOUS
<1> SUFFICES ASSUME bad # {} PROVE FALSE
  BY <1>1, <1>2
<1>3. bad \in SUBSET Nat
  BY <1>1
<1>4. PICK n \in bad : \A m \in bad : n <= m
  <2> HIDE DEF bad
  <2> QED
    BY <1>3, Least
<1>5. PICK t \in SUBSET S : ~Splits(t) /\ n = Cardinality(t)
  OBVIOUS
<1>6. t # {}
  <2> SUFFICES ASSUME t = {} PROVE Splits({})
    BY <1>5
  <2>1. S \ {} = S /\ {} \in SUBSET S /\ IsFiniteSet({}) /\ SumOver(f, S) \in Nat
    BY <1>1
  <2>2. SumOver(f, {}) = 0
    BY <2>1, SumBasics
  <2> QED
    BY <2>1, <2>2
<1> PICK x \in t : TRUE
  BY <1>6
<1> DEFINE u == t \ {x}
<1>7. u \in SUBSET S /\ Cardinality(u) = n - 1 /\ n \in Nat
  BY <1>1, <1>5, Smaller
<1>8. Splits(u)
  <2>1. Cardinality(u) \notin bad
    <3> HIDE DEF bad, u
    <3> QED
      BY <1>4, <1>7
  <2> QED
    BY <1>7, <2>1
<1>9. SumOver(f, t) = f[x] + SumOver(f, u)
  BY <1>1, SumTake
<1>10. SumOver(f, S \ u) = f[x] + SumOver(f, S \ t)
  <2>1. x \in S \ u /\ (S \ u) \ {x} = S \ t /\ S \ u \in SUBSET S
    OBVIOUS
  <2> QED
    BY <1>1, <2>1, SumTake
<1>11. SumOver(f, S \ t) \in Nat /\ SumOver(f, u) \in Nat /\ f[x] \in Nat
  BY <1>1, <1>7
<1> HIDE DEF u
<1> QED
  BY <1>5, <1>8, <1>9, <1>10, <1>11

LEMMA LedgerSums ==
    ASSUME NEW s \in SUBSET Item
    PROVE  Ledger!Value[s] = SumOver(Amount, s) /\ Ledger!Count[s] = SumOver(Quantity, s)
<1>1. Ledger!Value[s] = SumOver(Amount, s)
  BY DEF Ledger!Value, Ledger!MapThenSumSet, Ledger!MapThenFoldSet, SumOver, Adding, Some
<1>2. Ledger!Count[s] = SumOver(Quantity, s)
  BY DEF Ledger!Count, Ledger!MapThenSumSet, Ledger!MapThenFoldSet, SumOver, Adding, Some
<1> QED
  BY <1>1, <1>2

LEMMA Valued ==
    /\ \A s \in SUBSET Item : IsFiniteSet(s) /\ Ledger!Value[s] \in Nat /\ Ledger!Count[s] \in Nat
    /\ Ledger!Value[{}] = 0 /\ Ledger!Count[{}] = 0
    /\ \A s \in SUBSET Item : \A t \in SUBSET s : /\ Ledger!Value[s] = Ledger!Value[t] + Ledger!Value[s \ t]
                                                  /\ Ledger!Count[s] = Ledger!Count[t] + Ledger!Count[s \ t]
<1>1. ASSUME NEW s \in SUBSET Item
      PROVE  IsFiniteSet(s) /\ (\A i \in s : Amount[i] \in Nat /\ Quantity[i] \in Nat)
  BY FS_Subset, ReportingAssumption
<1>2. ASSUME NEW s \in SUBSET Item
      PROVE  Ledger!Value[s] \in Nat /\ Ledger!Count[s] \in Nat
  BY <1>1, LedgerSums, SumBasics
<1>3. {} \in SUBSET Item /\ IsFiniteSet({}) /\ (\A i \in {} : Amount[i] \in Nat /\ Quantity[i] \in Nat)
  BY <1>1
<1>4. SumOver(Amount, {}) = 0 /\ SumOver(Quantity, {}) = 0
  BY <1>3, SumBasics
<1>5. ASSUME NEW s \in SUBSET Item, NEW t \in SUBSET s
      PROVE  /\ Ledger!Value[s] = Ledger!Value[t] + Ledger!Value[s \ t]
             /\ Ledger!Count[s] = Ledger!Count[t] + Ledger!Count[s \ t]
  <2>1. t \in SUBSET Item /\ s \ t \in SUBSET Item
    OBVIOUS
  <2>2. IsFiniteSet(s) /\ (\A i \in s : Amount[i] \in Nat) /\ (\A i \in s : Quantity[i] \in Nat)
    BY <1>1
  <2>3. SumOver(Amount, s) = SumOver(Amount, t) + SumOver(Amount, s \ t)
    BY <2>2, SumSplit
  <2>4. SumOver(Quantity, s) = SumOver(Quantity, t) + SumOver(Quantity, s \ t)
    BY <2>2, SumSplit
  <2> QED
    BY <2>1, <2>3, <2>4, LedgerSums
<1> QED
  BY <1>1, <1>2, <1>3, <1>4, <1>5, LedgerSums

(* Subtracting some of the lines leaves the others, and the floor at zero   *)
(* is never needed for it.                                                  *)
LEMMA Subtracted ==
    ASSUME NEW s \in SUBSET Item, NEW t \in SUBSET s
    PROVE  /\ Ledger!Minus(Ledger!Value[s], Ledger!Value[t]) = Ledger!Value[s \ t]
           /\ Ledger!Minus(Ledger!Count[s], Ledger!Count[t]) = Ledger!Count[s \ t]
           /\ Ledger!Value[Item \ s] + Ledger!Value[t] = Ledger!Value[Item \ (s \ t)]
<1>1. ASSUME NEW a \in Nat, NEW b \in Nat, NEW c \in Nat, a = b + c
      PROVE  Ledger!Minus(a, b) = c
  BY <1>1 DEF Ledger!Minus
<1> DEFINE r == Item \ (s \ t)
<1>2. t \in SUBSET Item /\ s \ t \in SUBSET Item /\ Item \ s \in SUBSET Item /\ r \in SUBSET Item
  OBVIOUS
<1>3. t \in SUBSET r /\ r \ t = Item \ s
  OBVIOUS
<1>4. Ledger!Value[s] = Ledger!Value[t] + Ledger!Value[s \ t] /\ Ledger!Count[s] = Ledger!Count[t] + Ledger!Count[s \ t]
  BY Valued
<1>5. Ledger!Value[r] = Ledger!Value[t] + Ledger!Value[r \ t]
  <2> HIDE DEF r
  <2> QED
    BY <1>2, <1>3, Valued
<1>6. \A u \in {s, t, s \ t, Item \ s, r} : Ledger!Value[u] \in Nat /\ Ledger!Count[u] \in Nat
  BY <1>2, Valued
<1>7. Ledger!Minus(Ledger!Value[s], Ledger!Value[t]) = Ledger!Value[s \ t]
  BY <1>1, <1>4, <1>6
<1>8. Ledger!Minus(Ledger!Count[s], Ledger!Count[t]) = Ledger!Count[s \ t]
  BY <1>1, <1>4, <1>6
<1>9. Ledger!Value[Item \ s] + Ledger!Value[t] = Ledger!Value[r]
  <2> DEFINE a == Ledger!Value[Item \ s]
             b == Ledger!Value[t]
             c == Ledger!Value[r]
  <2>1. c = b + a /\ a \in Nat /\ b \in Nat
    BY <1>3, <1>5, <1>6
  <2> HIDE DEF a, b, c
  <2>2. a + b = c
    BY <2>1
  <2> QED
    BY <2>2 DEF a, b, c
<1> QED
  BY <1>7, <1>8, <1>9

-----------------------------------------------------------------------------
(* The invariant: every event under way says what its kind must say *)

EventShape == [type: {"order_placed", "order_waiter_assigned", "order_paid", "order_items_cancelled"},
               day: Day, waiter: Waiter \union {None}, items: SUBSET Item, nth: Nat]

SoundEvent ==
    {e \in EventShape :
        /\ e.type = "order_waiter_assigned" => e.waiter \in Waiter
        /\ e.type = "order_items_cancelled" => e.items # {}}

Msg == [event: SoundEvent, id: Nat, after: Nat, tries: Nat,
        step: {"queued", "second", "ok", "failed"}]

LedgerInv ==
    /\ today \in Day
    /\ payments \in [Order -> Nat]
    /\ outbox \in [Order -> SUBSET SoundEvent]
    /\ queue \in [Order -> Seq(Msg)]
    /\ tail \in [Order -> Nat]
    /\ fact = [o \in Order |-> fact[o]]

LEMMA PlacedSound ==
    ASSUME NEW o, NEW d \in Day
    PROVE  [PlacedEvent(o) EXCEPT !.day = d] \in SoundEvent
  BY DEF PlacedEvent, NoEvent, SoundEvent, EventShape

LEMMA Events ==
    /\ \A w \in Waiter : AssignedEvent(w) \in SoundEvent
    /\ \A n \in Nat : PaidEvent(n) \in SoundEvent
    /\ \A s \in SUBSET Item : s # {} => CancelEvent(s) \in SoundEvent
<1>1. 0 \in Day
  BY ReportingAssumption DEF Day
<1> QED
  BY <1>1 DEF AssignedEvent, PaidEvent, CancelEvent, NoEvent, SoundEvent, EventShape

(* Appending, removing and marking messages.                                *)
LEMMA Marked ==
    ASSUME NEW m \in Msg, NEW step \in {"queued", "second", "ok", "failed"}
    PROVE  /\ [m EXCEPT !.step = step] \in Msg
           /\ [m EXCEPT !.step = step].step = step
           /\ [m EXCEPT !.step = step].id = m.id
           /\ [m EXCEPT !.step = step].after = m.after
           /\ [m EXCEPT !.step = step].event = m.event
  BY DEF Msg

LEMMA Retried ==
    ASSUME NEW m \in Msg
    PROVE  /\ [m EXCEPT !.tries = m.tries + 1] \in Msg
           /\ [m EXCEPT !.tries = m.tries + 1].step = m.step
           /\ [m EXCEPT !.tries = m.tries + 1].event = m.event
           /\ [m EXCEPT !.step = "queued", !.tries = m.tries + 1] \in Msg
           /\ [m EXCEPT !.step = "queued", !.tries = m.tries + 1].step = "queued"
           /\ [m EXCEPT !.step = "queued", !.tries = m.tries + 1].id = m.id
           /\ [m EXCEPT !.step = "queued", !.tries = m.tries + 1].after = m.after
           /\ [m EXCEPT !.step = "queued", !.tries = m.tries + 1].event = m.event
<1>1. \A n \in Nat : /\ [m EXCEPT !.tries = n] \in Msg
                     /\ [m EXCEPT !.tries = n].step = m.step
                     /\ [m EXCEPT !.tries = n].event = m.event
                     /\ [m EXCEPT !.step = "queued", !.tries = n] \in Msg
                     /\ [m EXCEPT !.step = "queued", !.tries = n].step = "queued"
                     /\ [m EXCEPT !.step = "queued", !.tries = n].id = m.id
                     /\ [m EXCEPT !.step = "queued", !.tries = n].after = m.after
                     /\ [m EXCEPT !.step = "queued", !.tries = n].event = m.event
  BY DEF Msg
<1>2. m.tries + 1 \in Nat
  BY DEF Msg
<1> HIDE DEF Msg
<1> QED
  BY <1>1, <1>2

LEMMA MessageStep ==
    ASSUME queue \in [Order -> Seq(Msg)], NEW o \in Order, NEW s \in Seq(Msg),
           queue' = [queue EXCEPT ![o] = s]
    PROVE  queue' \in [Order -> Seq(Msg)]
  OBVIOUS

LEMMA SetStepType ==
    ASSUME queue \in [Order -> Seq(Msg)], NEW o \in Order, NEW k \in DOMAIN queue[o],
           NEW step \in {"queued", "second", "ok", "failed"}, SetStep(o, k, step)
    PROVE  queue' \in [Order -> Seq(Msg)]
<1>1. queue[o] \in Seq(Msg) /\ queue[o][k] \in Msg
  OBVIOUS
<1> DEFINE m == [queue[o][k] EXCEPT !.step = step]
<1>2. m \in Msg
  BY <1>1, Marked
<1>3. queue' = [queue EXCEPT ![o] = [queue[o] EXCEPT ![k] = m]]
  BY DEF SetStep
<1> HIDE DEF m
<1>4. [queue[o] EXCEPT ![k] = m] \in Seq(Msg)
  BY <1>1, <1>2
<1> QED
  BY <1>3, <1>4

(* A name that no message and no entry of tailsByOrder bears can be found.  *)
LEMMA NextIdType ==
    ASSUME LedgerInv, NEW o \in Order
    PROVE  /\ NextId(o) \in Nat
           /\ NextId(o) \notin Ids(o) \union {queue[o][k].after : k \in DOMAIN queue[o]} \union {tail[o]}
<1> DEFINE q == queue[o]
           n == Len(q)
           named == Ids(o) \union {q[k].after : k \in DOMAIN q} \union {tail[o]}
           g == [k \in 1 .. 2 * n + 1 |-> IF k <= n THEN q[k].id
                                          ELSE IF k <= 2 * n THEN q[k - n].after ELSE tail[o]]
<1>1. n \in Nat /\ DOMAIN q = 1 .. n
  BY DEF LedgerInv
<1>2. g \in Surjection(1 .. 2 * n + 1, named)
  <2>1. \A k \in 1 .. 2 * n + 1 : g[k] \in named
    <3> SUFFICES ASSUME NEW k \in 1 .. 2 * n + 1
                 PROVE  g[k] \in named
      OBVIOUS
    <3>1. CASE k <= n
      BY <1>1, <3>1 DEF Ids
    <3>2. CASE k > n /\ k <= 2 * n
      <4>1. k - n \in DOMAIN q
        BY <1>1, <3>2
      <4>2. g[k] = q[k - n].after
        BY <1>1, <3>2
      <4> QED
        BY <4>1, <4>2
    <3>3. CASE k > 2 * n
      BY <1>1, <3>3
    <3> QED
      BY <1>1, <3>1, <3>2, <3>3
  <2>2. \A x \in named : \E k \in 1 .. 2 * n + 1 : g[k] = x
    <3> SUFFICES ASSUME NEW x \in named
                 PROVE  \E k \in 1 .. 2 * n + 1 : g[k] = x
      OBVIOUS
    <3>1. CASE x \in Ids(o)
      <4>1. PICK k \in 1 .. n : q[k].id = x
        BY <1>1, <3>1 DEF Ids
      <4>2. k \in 1 .. 2 * n + 1 /\ k <= n
        BY <1>1
      <4>3. g[k] = x
        BY <4>1, <4>2
      <4> QED
        BY <4>2, <4>3
    <3>2. CASE \E k \in 1 .. n : x = q[k].after
      <4>1. PICK k \in 1 .. n : q[k].after = x
        BY <3>2
      <4>2. k + n \in 1 .. 2 * n + 1 /\ ~(k + n <= n) /\ k + n <= 2 * n /\ k + n - n = k
        BY <1>1
      <4>3. g[k + n] = x
        BY <4>1, <4>2
      <4> QED
        BY <4>2, <4>3
    <3>3. CASE x = tail[o]
      <4>1. 2 * n + 1 \in 1 .. 2 * n + 1 /\ ~(2 * n + 1 <= n) /\ ~(2 * n + 1 <= 2 * n)
        BY <1>1
      <4>2. g[2 * n + 1] = x
        BY <3>3, <4>1
      <4> QED
        BY <4>1, <4>2
    <3> QED
      BY <1>1, <3>1, <3>2, <3>3
  <2>3. g \in [1 .. 2 * n + 1 -> named]
    BY <2>1
  <2> HIDE DEF g, named, n
  <2> QED
    BY <2>2, <2>3 DEF Surjection
<1> HIDE DEF g, named, n
<1>3. IsFiniteSet(named) /\ Cardinality(named) <= 2 * n + 1 /\ Cardinality(named) \in Nat
  <2>1. IsFiniteSet(1 .. 2 * n + 1) /\ Cardinality(1 .. 2 * n + 1) = 2 * n + 1
    BY <1>1, FS_Interval
  <2> QED
    BY <1>2, <2>1, FS_Surjection, FS_CardinalityType
<1>4. \E m \in 1 .. 2 * n + 2 : m \notin named
  <2>1. SUFFICES ASSUME 1 .. 2 * n + 2 \subseteq named PROVE FALSE
    OBVIOUS
  <2>2. Cardinality(1 .. 2 * n + 2) = 2 * n + 2
    BY <1>1, FS_Interval
  <2>3. Cardinality(1 .. 2 * n + 2) <= Cardinality(named)
    BY <1>3, <2>1, FS_Subset
  <2> QED
    BY <1>1, <1>3, <2>2, <2>3
<1>5. NextId(o) = CHOOSE m \in 1 .. 2 * n + 2 : m \notin named
  BY DEF NextId, named, n
<1>6. NextId(o) \in Nat /\ NextId(o) \notin named
  BY <1>1, <1>4, <1>5
<1> QED
  BY <1>6 DEF named

-----------------------------------------------------------------------------
(* The requests *)

LEMMA OrdersKnown ==
    ASSUME NEW o \in Order, Producers(o), LedgerInv
    PROVE  LedgerInv'
<1> USE DEF LedgerInv
<1>1. CASE Place(o)
  <2> DEFINE e == [PlacedEvent(o) EXCEPT !.day = today]
  <2>1. e \in SoundEvent
    BY PlacedSound
  <2>2. outbox' = [outbox EXCEPT ![o] = {e}]
    BY <1>1 DEF Place
  <2> HIDE DEF e
  <2> QED
    BY <1>1, <2>1, <2>2 DEF Place, factVars
<1>2. CASE Pay(o)
  <2>1. payments[o] + 1 \in Nat
    OBVIOUS
  <2>2. PaidEvent(payments[o] + 1) \in SoundEvent
    BY <2>1, Events
  <2> QED
    BY <1>2, <2>2 DEF Pay, factVars
<1>3. CASE \E items \in SUBSET Item : Cancel(o, items)
  <2> PICK items \in SUBSET Item : Cancel(o, items)
    BY <1>3
  <2>1. CancelEvent(items) \in SoundEvent
    BY Events DEF Cancel
  <2> QED
    BY <2>1 DEF Cancel, factVars
<1>4. ASSUME NEW e \in outbox[o], outbox' \in {[outbox EXCEPT ![o] = after] : after \in OutboxAfter(o, e)}
      PROVE  outbox' \in [Order -> SUBSET SoundEvent]
  <2> PICK after \in OutboxAfter(o, e) : outbox' = [outbox EXCEPT ![o] = after]
    BY <1>4
  <2>1. outbox[o] \subseteq SoundEvent /\ \A w \in Waiter : AssignedEvent(w) \in SoundEvent
    BY Events
  <2>2. after \in SUBSET SoundEvent
    <3>1. CASE e.type = "order_placed"
      BY <2>1, <3>1 DEF OutboxAfter
    <3>2. CASE e.type # "order_placed"
      BY <2>1, <3>2 DEF OutboxAfter
    <3> QED
      BY <3>1, <3>2
  <2> QED
    BY <2>2
<1>5. ASSUME NEW e \in outbox[o], EnqueueFails(o, e)
      PROVE  LedgerInv'
  <2>1. outbox' \in [Order -> SUBSET SoundEvent]
    BY <1>4, <1>5 DEF EnqueueFails
  <2> QED
    BY <1>5, <2>1 DEF EnqueueFails, orderVars, factVars
<1>6. ASSUME NEW e \in outbox[o], Enqueue(o, e)
      PROVE  LedgerInv'
  <2>1. outbox' \in [Order -> SUBSET SoundEvent]
    BY <1>4, <1>6 DEF Enqueue
  <2>2. ASSUME NEW id \in Nat, NEW after \in Nat
        PROVE  Append(queue[o], [event |-> e, id |-> id, after |-> after, tries |-> 0, step |-> "queued"]) \in Seq(Msg)
    <3> DEFINE m == [event |-> e, id |-> id, after |-> after, tries |-> 0, step |-> "queued"]
    <3>1. m \in Msg
      BY DEF Msg
    <3> HIDE DEF m
    <3>2. Append(queue[o], m) \in Seq(Msg)
      BY <3>1
    <3> QED
      BY <3>2 DEF m
  <2>3. queue' \in [Order -> Seq(Msg)] /\ tail' \in [Order -> Nat]
    <3>1. CASE EnqueueSqs(o, e)
      <4>1. \/ UNCHANGED queue
            \/ queue' = [queue EXCEPT ![o] = Append(queue[o], [event |-> e, id |-> 0, after |-> 0, tries |-> 0, step |-> "queued"])]
        BY <3>1 DEF EnqueueSqs
      <4>2. queue' \in [Order -> Seq(Msg)]
        BY <4>1, <2>2, MessageStep
      <4> QED
        BY <3>1, <4>2 DEF EnqueueSqs
    <3>2. CASE EnqueueLocal(o, e)
      <4>1. NextId(o) \in Nat /\ tail[o] \in Nat
        BY NextIdType
      <4>2. queue' = [queue EXCEPT ![o] = Append(queue[o], [event |-> e, id |-> NextId(o), after |-> tail[o], tries |-> 0, step |-> "queued"])]
        BY <3>2 DEF EnqueueLocal
      <4>3. queue' \in [Order -> Seq(Msg)]
        BY <4>1, <4>2, <2>2, MessageStep
      <4> QED
        BY <3>2, <4>1, <4>3 DEF EnqueueLocal
    <3> QED
      BY <1>6, <3>1, <3>2 DEF Enqueue
  <2> QED
    BY <1>6, <2>1, <2>3 DEF Enqueue, orderVars, factVars
<1>7. ASSUME NEW i \in Item, Revive(o, i)
      PROVE  LedgerInv'
  BY <1>7 DEF Revive, queueVars, factVars
<1> QED
  BY <1>1, <1>2, <1>3, <1>5, <1>6, <1>7 DEF Producers

-----------------------------------------------------------------------------
(* Deliveries *)

LEMMA HandledType ==
    ASSUME LedgerInv, NEW o \in Order, NEW k \in DOMAIN queue[o], Handled(o, k)
    PROVE  queue' \in [Order -> Seq(Msg)] /\ tail' \in [Order -> Nat]
<1> USE DEF LedgerInv
<1>1. CASE kind = "sqs"
  BY <1>1, SetStepType DEF Handled
<1>2. CASE kind # "sqs"
  <2>1. WithoutMessage(queue[o], k) \in Seq(Msg)
    BY DEF WithoutMessage
  <2>2. queue' = [queue EXCEPT ![o] = WithoutMessage(queue[o], k)]
    BY <1>2 DEF Handled
  <2>3. TailAfter(o, k) \in Nat
    BY DEF TailAfter
  <2>4. tail' = [tail EXCEPT ![o] = TailAfter(o, k)]
    BY <1>2 DEF Handled
  <2>5. queue' \in [Order -> Seq(Msg)]
    BY <2>1, <2>2, MessageStep
  <2> QED
    BY <2>3, <2>4, <2>5
<1> QED
  BY <1>1, <1>2

LEMMA KeptType ==
    ASSUME LedgerInv, NEW o \in Order
    PROVE  KeepFailed(o) \in Seq(Msg)
<1> DEFINE kept == {k \in DOMAIN queue[o] : queue[o][k].step # "ok"}
           nth == Increasing(kept)
           c == Cardinality(kept)
<1>1. queue[o] \in Seq(Msg) /\ Len(queue[o]) \in Nat /\ DOMAIN queue[o] = 1 .. Len(queue[o])
  BY DEF LedgerInv
<1>2. nth \in [1 .. c -> kept] /\ c \in Nat
  BY <1>1, IncreasingIsIn
<1>3. KeepFailed(o) = [n \in 1 .. c |-> [queue[o][nth[n]] EXCEPT !.step = "queued"]]
  BY DEF KeepFailed
<1>4. kept \subseteq DOMAIN queue[o]
  OBVIOUS
<1> HIDE DEF kept, nth, c
<1>5. \A n \in 1 .. c : [queue[o][nth[n]] EXCEPT !.step = "queued"] \in Msg
  <2> SUFFICES ASSUME NEW n \in 1 .. c
               PROVE  [queue[o][nth[n]] EXCEPT !.step = "queued"] \in Msg
    OBVIOUS
  <2>1. nth[n] \in DOMAIN queue[o]
    BY <1>2, <1>4
  <2>2. queue[o][nth[n]] \in Msg
    BY <1>1, <2>1
  <2> QED
    BY <2>2, Marked
<1> QED
  BY <1>2, <1>3, <1>5

LEMMA Deliveries ==
    ASSUME LedgerInv, NEW o \in Order, Deliver(o) \/ Misfortune(o)
    PROVE  LedgerInv'
<1> USE DEF LedgerInv
<1>1. queue[o] \in Seq(Msg) /\ DOMAIN queue[o] = 1 .. Len(queue[o]) /\ Len(queue[o]) \in Nat
  OBVIOUS
<1>2. ASSUME NEW n \in 1 .. BatchSize, Receive(o, n)
      PROVE  LedgerInv'
  <2> DEFINE s == [k \in DOMAIN queue[o] |->
                     IF k <= n THEN [queue[o][k] EXCEPT !.tries = queue[o][k].tries + 1] ELSE queue[o][k]]
  <2>1. \A k \in 1 .. Len(queue[o]) : [queue[o][k] EXCEPT !.tries = queue[o][k].tries + 1] \in Msg /\ queue[o][k] \in Msg
    <3> TAKE k \in 1 .. Len(queue[o])
    <3>1. queue[o][k] \in Msg
      BY <1>1
    <3> QED
      BY <3>1, Retried
  <2>2. s \in Seq(Msg)
    BY <1>1, <2>1
  <2>3. queue' = [queue EXCEPT ![o] = s]
    BY <1>2 DEF Receive
  <2> HIDE DEF s
  <2> QED
    BY <1>2, <2>2, <2>3 DEF Receive, orderVars, factVars
<1>3. CASE DeadLetter(o)
  <2>1. Tail(queue[o]) \in Seq(Msg)
    BY <1>1, <1>3 DEF DeadLetter
  <2> QED
    BY <1>3, <2>1 DEF DeadLetter, orderVars, factVars
<1>4. ASSUME NEW k \in DOMAIN queue[o], First(o, k)
      PROVE  LedgerInv'
  <2>1. queue' \in [Order -> Seq(Msg)] /\ tail' \in [Order -> Nat]
    BY <1>4, HandledType, SetStepType DEF First
  <2>2. fact' = [p \in Order |-> fact'[p]]
    BY <1>4 DEF First
  <2> QED
    BY <1>4, <2>1, <2>2 DEF First, orderVars
<1>5. ASSUME NEW k \in DOMAIN queue[o], Second(o, k)
      PROVE  LedgerInv'
  BY <1>5, HandledType DEF Second, orderVars
<1>6. CASE EndBatch(o)
  <2>1. queue' \in [Order -> Seq(Msg)]
    BY <1>6, KeptType DEF EndBatch
  <2> QED
    BY <1>6, <2>1 DEF EndBatch, orderVars, factVars
<1>7. CASE Crash(o)
  <2> DEFINE s == [k \in DOMAIN queue[o] |-> [queue[o][k] EXCEPT !.step = "queued"]]
  <2>1. \A k \in 1 .. Len(queue[o]) : [queue[o][k] EXCEPT !.step = "queued"] \in Msg
    <3> TAKE k \in 1 .. Len(queue[o])
    <3>1. queue[o][k] \in Msg
      BY <1>1
    <3> QED
      BY <3>1, Marked
  <2>2. s \in Seq(Msg)
    BY <1>1, <2>1
  <2>3. queue' = [queue EXCEPT ![o] = s]
    BY <1>7 DEF Crash
  <2> HIDE DEF s
  <2> QED
    BY <1>7, <2>2, <2>3 DEF Crash, orderVars, factVars
<1>8. ASSUME NEW k \in DOMAIN queue[o], Fail(o, k)
      PROVE  LedgerInv'
  <2>1. CASE SetStep(o, k, "failed") /\ UNCHANGED tail
    BY <1>8, <2>1, SetStepType DEF Fail, orderVars, factVars
  <2>2. CASE Handled(o, k)
    BY <1>8, <2>2, HandledType DEF Fail, orderVars, factVars
  <2>3. CASE queue' = [queue EXCEPT ![o][k].step = "queued", ![o][k].tries = @ + 1] /\ UNCHANGED tail
    <3> DEFINE m == [queue[o][k] EXCEPT !.step = "queued", !.tries = queue[o][k].tries + 1]
    <3>1. queue[o][k] \in Msg
      BY <1>1
    <3>2. m \in Msg
      BY <3>1, Retried
    <3>3. queue' = [queue EXCEPT ![o] = [queue[o] EXCEPT ![k] = m]]
      BY <1>1, <2>3, <3>1 DEF Msg
    <3> HIDE DEF m
    <3>4. [queue[o] EXCEPT ![k] = m] \in Seq(Msg)
      BY <1>1, <3>2
    <3>5. queue' \in [Order -> Seq(Msg)]
      BY <3>3, <3>4, MessageStep
    <3> QED
      BY <1>8, <2>3, <3>5 DEF Fail, orderVars, factVars
  <2> QED
    BY <1>8, <2>1, <2>2, <2>3 DEF Fail
<1> QED
  BY <1>2, <1>3, <1>4, <1>5, <1>6, <1>7, <1>8 DEF Deliver, Misfortune

LEMMA LedgerInvStep ==
    ASSUME LedgerInv, [Next]_vars
    PROVE  LedgerInv'
<1>1. CASE NextDay
  BY <1>1, ReportingAssumption DEF NextDay, LedgerInv, Day, orderVars, queueVars, factVars
<1>2. CASE UNCHANGED vars
  BY <1>2 DEF vars, LedgerInv
<1> QED
  BY <1>1, <1>2, OrdersKnown, Deliveries DEF Next

LEMMA LedgerInvInit ==
    ASSUME Init
    PROVE  LedgerInv
<1>1. 0 \in Day
  BY ReportingAssumption DEF Day
<1> QED
  BY <1>1 DEF Init, LedgerInv

-----------------------------------------------------------------------------
(* The events of one order are handled in turn *)

(* A message group: what is not queued any more belongs to the running      *)
(* invocation, and everything before it has been dealt with.                *)
GroupInTurn(q, held) ==
    /\ held <= Len(q)
    /\ \A k \in DOMAIN q : q[k].step # "queued" =>
          k <= held /\ \A j \in 1 .. k - 1 : q[j].step \in {"ok", "failed"}

(* A chain of promises: names are never given twice, every message waits    *)
(* for the one before it, and the first waits for none of those there.      *)
ChainInTurn(q, held, last) ==
    /\ held = 0
    /\ \A k \in DOMAIN q : q[k].step = "queued" \/ (q[k].step = "second" /\ k = 1)
    /\ \A j, k \in DOMAIN q : j # k => q[j].id # q[k].id
    /\ \A k \in DOMAIN q : k > 1 => q[k].after = q[k - 1].id
    /\ \A k \in DOMAIN q : q[1].after # q[k].id
    /\ q # <<>> => last = q[Len(q)].id

InTurn(o) ==
    IF kind = "sqs" THEN GroupInTurn(queue[o], batch[o]) ELSE ChainInTurn(queue[o], batch[o], tail[o])

TurnInv ==
    /\ kind \in {"sqs", "local"}
    /\ batch \in [Order -> Nat]
    /\ \A o \in Order : InTurn(o)

LEMMA GroupAppend ==
    ASSUME NEW q \in Seq(Msg), NEW held \in Nat, NEW m \in Msg, m.step = "queued", GroupInTurn(q, held)
    PROVE  GroupInTurn(Append(q, m), held)
  BY DEF GroupInTurn

LEMMA GroupQueued ==
    ASSUME NEW q \in Seq(Msg), NEW held \in Nat, held <= Len(q), \A k \in DOMAIN q : q[k].step = "queued"
    PROVE  GroupInTurn(q, held)
  BY DEF GroupInTurn

LEMMA GroupMark ==
    ASSUME NEW q \in Seq(Msg), NEW held \in Nat, GroupInTurn(q, held), NEW k \in DOMAIN q, k <= held,
           \A j \in 1 .. k - 1 : q[j].step \in {"ok", "failed"}, q[k].step \in {"queued", "second"},
           NEW m \in Msg, m.step # "queued"
    PROVE  GroupInTurn([q EXCEPT ![k] = m], held)
<1> DEFINE r == [q EXCEPT ![k] = m]
<1>1. DOMAIN r = DOMAIN q /\ Len(r) = Len(q) /\ DOMAIN q = 1 .. Len(q) /\ Len(q) \in Nat
  OBVIOUS
<1>2. r[k] = m /\ \A j \in DOMAIN q : j # k => r[j] = q[j]
  OBVIOUS
<1>3. \A j \in DOMAIN q : j > k => q[j].step = "queued"
  <2> SUFFICES ASSUME NEW j \in DOMAIN q, j > k, q[j].step # "queued"
               PROVE  FALSE
    OBVIOUS
  <2>1. k \in 1 .. j - 1
    BY <1>1
  <2> QED
    BY <2>1 DEF GroupInTurn
<1> HIDE DEF r
<1>4. ASSUME NEW j \in DOMAIN r, r[j].step # "queued"
      PROVE  j <= held /\ \A i \in 1 .. j - 1 : r[i].step \in {"ok", "failed"}
  <2>1. j <= k
    BY <1>1, <1>2, <1>3, <1>4
  <2>2. \A i \in 1 .. j - 1 : i \in 1 .. k - 1 /\ i # k /\ i \in DOMAIN q
    BY <1>1, <2>1
  <2> QED
    BY <1>1, <1>2, <2>1, <2>2
<1> QED
  BY <1>1, <1>4 DEF GroupInTurn, r

LEMMA ChainAppend ==
    ASSUME NEW q \in Seq(Msg), NEW held, NEW last \in Nat, NEW m \in Msg, ChainInTurn(q, held, last),
           m.step = "queued", m.after = last, m.id # last,
           \A k \in DOMAIN q : m.id # q[k].id /\ m.id # q[k].after
    PROVE  ChainInTurn(Append(q, m), held, m.id)
<1> DEFINE r == Append(q, m)
           n == Len(q)
<1>1. n \in Nat /\ DOMAIN q = 1 .. n /\ DOMAIN r = 1 .. n + 1 /\ Len(r) = n + 1
  OBVIOUS
<1>2. r[n + 1] = m /\ \A k \in 1 .. n : r[k] = q[k]
  OBVIOUS
<1>3. n > 0 => last = q[n].id
  BY <1>1 DEF ChainInTurn
<1> HIDE DEF r, n
<1>4. \A k \in DOMAIN r : r[k].step = "queued" \/ (r[k].step = "second" /\ k = 1)
  BY <1>1, <1>2 DEF ChainInTurn
<1>5. \A j, k \in DOMAIN r : j # k => r[j].id # r[k].id
  BY <1>1, <1>2 DEF ChainInTurn
<1>6. \A k \in DOMAIN r : k > 1 => r[k].after = r[k - 1].id
  <2> SUFFICES ASSUME NEW k \in DOMAIN r, k > 1
               PROVE  r[k].after = r[k - 1].id
    OBVIOUS
  <2>1. CASE k = n + 1
    BY <1>1, <1>2, <1>3, <2>1
  <2>2. CASE k # n + 1
    <3>1. k \in 1 .. n /\ k - 1 \in 1 .. n
      BY <1>1, <2>2
    <3> QED
      BY <1>1, <1>2, <3>1 DEF ChainInTurn
  <2> QED
    BY <2>1, <2>2
<1>7. \A k \in DOMAIN r : r[1].after # r[k].id
  <2>1. CASE n = 0
    BY <1>1, <1>2, <2>1
  <2>2. CASE n > 0
    BY <1>1, <1>2, <2>2 DEF ChainInTurn
  <2> QED
    BY <1>1, <2>1, <2>2
<1> QED
  BY <1>1, <1>2, <1>4, <1>5, <1>6, <1>7 DEF ChainInTurn, r

LEMMA WithoutFirst ==
    ASSUME NEW q \in Seq(Msg), 1 \in DOMAIN q
    PROVE  /\ Len(WithoutMessage(q, 1)) = Len(q) - 1 /\ Len(q) - 1 \in Nat
           /\ WithoutMessage(q, 1) \in Seq(Msg)
           /\ DOMAIN WithoutMessage(q, 1) = 1 .. Len(q) - 1
           /\ \A k \in 1 .. Len(q) - 1 : WithoutMessage(q, 1)[k] = q[k + 1] /\ k + 1 \in DOMAIN q
<1> DEFINE n == Len(q)
           a == SubSeq(q, 1, 1 - 1)
           b == SubSeq(q, 1 + 1, n)
<1>1. n \in Nat /\ n > 0 /\ DOMAIN q = 1 .. n
  OBVIOUS
<1>2. a = <<>> /\ a \in Seq(Msg)
  OBVIOUS
<1>3. b \in Seq(Msg) /\ Len(b) = n - 1 /\ \A k \in 1 .. n - 1 : b[k] = q[k + 1]
  BY <1>1
<1>4. WithoutMessage(q, 1) = a \o b
  BY DEF WithoutMessage
<1> HIDE DEF a, b
<1>5. a \o b = b
  BY <1>2, <1>3
<1>6. DOMAIN b = 1 .. n - 1
  BY <1>3
<1>7. \A k \in 1 .. n - 1 : k + 1 \in DOMAIN q
  BY <1>1
<1>8. WithoutMessage(q, 1) = b
  BY <1>4, <1>5
<1>9. n - 1 \in Nat
  BY <1>1
<1> QED
  BY <1>3, <1>6, <1>7, <1>8, <1>9

LEMMA ChainDrop ==
    ASSUME NEW q \in Seq(Msg), NEW held, NEW last \in Nat, ChainInTurn(q, held, last), 1 \in DOMAIN q
    PROVE  ChainInTurn(WithoutMessage(q, 1), held, IF last = q[1].id THEN 0 ELSE last)
<1> DEFINE r == WithoutMessage(q, 1)
           n == Len(q)
<1>1. n \in Nat /\ n > 0 /\ DOMAIN q = 1 .. n
  OBVIOUS
<1>2. /\ DOMAIN r = 1 .. n - 1 /\ Len(r) = n - 1 /\ r \in Seq(Msg)
      /\ \A k \in 1 .. n - 1 : r[k] = q[k + 1] /\ k + 1 \in DOMAIN q /\ k + 1 # 1
  <2>1. \A k \in 1 .. n - 1 : k + 1 # 1
    BY <1>1
  <2> QED
    BY <1>1, <2>1, WithoutFirst
<1>3. last = q[n].id
  BY <1>1 DEF ChainInTurn
<1> HIDE DEF r, n
<1>4. \A k \in DOMAIN r : r[k].step = "queued"
  BY <1>1, <1>2 DEF ChainInTurn
<1>5. \A j, k \in DOMAIN r : j # k => r[j].id # r[k].id
  <2> SUFFICES ASSUME NEW j \in DOMAIN r, NEW k \in DOMAIN r, j # k
               PROVE  r[j].id # r[k].id
    OBVIOUS
  <2>1. j + 1 # k + 1 /\ j + 1 \in DOMAIN q /\ k + 1 \in DOMAIN q /\ r[j] = q[j + 1] /\ r[k] = q[k + 1]
    BY <1>1, <1>2
  <2> QED
    BY <2>1 DEF ChainInTurn
<1>6. \A k \in DOMAIN r : k > 1 => r[k].after = r[k - 1].id
  <2> SUFFICES ASSUME NEW k \in DOMAIN r, k > 1
               PROVE  r[k].after = r[k - 1].id
    OBVIOUS
  <2>1. k - 1 \in 1 .. n - 1 /\ k - 1 + 1 = k /\ k + 1 \in DOMAIN q /\ k + 1 > 1 /\ k + 1 - 1 = k
    BY <1>1, <1>2
  <2>2. q[k + 1].after = q[k + 1 - 1].id
    BY <2>1 DEF ChainInTurn
  <2>3. r[k - 1] = q[k - 1 + 1] /\ r[k] = q[k + 1]
    BY <1>2, <2>1
  <2> QED
    BY <2>1, <2>2, <2>3
<1>7. \A k \in DOMAIN r : r[1].after # r[k].id
  <2> SUFFICES ASSUME NEW k \in DOMAIN r
               PROVE  r[1].after # r[k].id
    OBVIOUS
  <2>1. 2 \in DOMAIN q /\ 1 \in DOMAIN q /\ r[1] = q[2] /\ k + 1 \in DOMAIN q /\ k + 1 # 1 /\ r[k] = q[k + 1]
    BY <1>1, <1>2
  <2>2. q[2].after = q[1].id
    BY <2>1 DEF ChainInTurn
  <2>3. q[k + 1].id # q[1].id
    BY <2>1 DEF ChainInTurn
  <2> QED
    BY <2>1, <2>2, <2>3
<1>8. r # <<>> => r[Len(r)].id = q[n].id /\ q[n].id # q[1].id
  <2> SUFFICES ASSUME r # <<>>
               PROVE  r[Len(r)].id = q[n].id /\ q[n].id # q[1].id
    OBVIOUS
  <2>1. n > 1
    BY <1>1, <1>2
  <2>2. n - 1 \in 1 .. n - 1 /\ n - 1 + 1 = n /\ n \in DOMAIN q /\ n # 1
    BY <1>1, <2>1
  <2>3. q[n].id # q[1].id
    BY <2>2 DEF ChainInTurn
  <2> QED
    BY <1>2, <2>2, <2>3
<1> QED
  BY <1>3, <1>4, <1>5, <1>6, <1>7, <1>8 DEF ChainInTurn, r

LEMMA ChainMark ==
    ASSUME NEW q \in Seq(Msg), NEW held, NEW last \in Nat, ChainInTurn(q, held, last), 1 \in DOMAIN q,
           NEW m \in Msg, m.id = q[1].id, m.after = q[1].after, m.step \in {"queued", "second"}
    PROVE  ChainInTurn([q EXCEPT ![1] = m], held, last)
<1> DEFINE r == [q EXCEPT ![1] = m]
<1>1. DOMAIN r = DOMAIN q /\ Len(r) = Len(q) /\ Len(q) \in Nat /\ DOMAIN q = 1 .. Len(q)
  OBVIOUS
<1>2. \A k \in DOMAIN q : /\ r[k].id = q[k].id /\ r[k].after = q[k].after
                          /\ k # 1 => r[k] = q[k]
                          /\ k = 1 => r[k] = m
  OBVIOUS
<1>3. r # <<>> /\ q # <<>> /\ Len(q) \in DOMAIN q
  BY <1>1
<1> HIDE DEF r
<1>4. \A k \in DOMAIN r : r[k].step = "queued" \/ (r[k].step = "second" /\ k = 1)
  BY <1>1, <1>2 DEF ChainInTurn
<1>5. \A k \in DOMAIN q : k > 1 => k - 1 \in DOMAIN q
  BY <1>1
<1> QED
  BY <1>1, <1>2, <1>3, <1>4, <1>5 DEF ChainInTurn, r

LEMMA ChainStarts ==
    ASSUME LedgerInv, TurnInv, NEW o \in Order, NEW k \in DOMAIN queue[o], kind # "sqs",
           Startable(o, k) \/ queue[o][k].step = "second"
    PROVE  k = 1
<1>1. ChainInTurn(queue[o], batch[o], tail[o])
  BY DEF TurnInv, InTurn
<1>2. CASE queue[o][k].step = "second"
  BY <1>1, <1>2 DEF ChainInTurn
<1>3. CASE Startable(o, k)
  <2>1. queue[o][k].after \notin Ids(o)
    BY <1>3 DEF Startable
  <2>2. SUFFICES ASSUME k # 1 PROVE FALSE
    OBVIOUS
  <2>3. queue[o] \in Seq(Msg)
    BY DEF LedgerInv
  <2>4. k - 1 \in DOMAIN queue[o] /\ k > 1
    BY <2>2, <2>3
  <2>5. queue[o][k].after = queue[o][k - 1].id
    BY <1>1, <2>4 DEF ChainInTurn
  <2> QED
    BY <2>1, <2>4, <2>5 DEF Ids
<1> QED
  BY <1>2, <1>3

(* What the worker is about to touch is next in its group.                  *)
LEMMA GroupStarts ==
    ASSUME LedgerInv, TurnInv, NEW o \in Order, NEW k \in DOMAIN queue[o], kind = "sqs",
           Startable(o, k) \/ queue[o][k].step = "second"
    PROVE  /\ k <= batch[o] /\ queue[o][k].step \in {"queued", "second"}
           /\ \A j \in 1 .. k - 1 : queue[o][j].step \in {"ok", "failed"}
  BY DEF TurnInv, InTurn, GroupInTurn, Startable

(* An order whose messages do not change stays in turn.                     *)
LEMMA OthersInTurn ==
    ASSUME TurnInv, NEW o \in Order, UNCHANGED kind, batch' \in [Order -> Nat],
           \A p \in Order : p # o => queue'[p] = queue[p] /\ batch'[p] = batch[p] /\ tail'[p] = tail[p],
           InTurn(o)'
    PROVE  TurnInv'
  BY DEF TurnInv, InTurn

LEMMA SetStepIs ==
    ASSUME LedgerInv, NEW o \in Order, NEW k \in DOMAIN queue[o],
           NEW step \in {"queued", "second", "ok", "failed"}, SetStep(o, k, step)
    PROVE  /\ queue' = [queue EXCEPT ![o] = [queue[o] EXCEPT ![k] = [queue[o][k] EXCEPT !.step = step]]]
           /\ [queue[o][k] EXCEPT !.step = step] \in Msg
           /\ [queue[o][k] EXCEPT !.step = step].step = step
           /\ [queue[o][k] EXCEPT !.step = step].id = queue[o][k].id
           /\ [queue[o][k] EXCEPT !.step = step].after = queue[o][k].after
           /\ [queue[o][k] EXCEPT !.step = step].event = queue[o][k].event
<1>1. queue[o] \in Seq(Msg)
  BY DEF LedgerInv
<1>2. queue[o][k] \in Msg
  BY <1>1
<1> QED
  BY <1>2, Marked DEF SetStep

LEMMA EnqueueInTurn ==
    ASSUME LedgerInv, TurnInv, LedgerInv', NEW o \in Order, NEW e \in outbox[o], Enqueue(o, e)
    PROVE  TurnInv'
<1>1. e \in SoundEvent /\ queue[o] \in Seq(Msg) /\ batch[o] \in Nat /\ tail[o] \in Nat /\ InTurn(o)
  BY DEF LedgerInv, TurnInv
<1>2. CASE kind = "sqs"
  <2> DEFINE m == [event |-> e, id |-> 0, after |-> 0, tries |-> 0, step |-> "queued"]
  <2>1. m \in Msg /\ m.step = "queued"
    BY <1>1 DEF Msg
  <2>2. queue' = [queue EXCEPT ![o] = Append(queue[o], m)] \/ UNCHANGED queue
    BY <1>2 DEF Enqueue, EnqueueSqs, EnqueueLocal
  <2> HIDE DEF m
  <2>3. GroupInTurn(queue[o], batch[o])
    BY <1>1, <1>2 DEF InTurn
  <2>4. GroupInTurn(Append(queue[o], m), batch[o])
    BY <1>1, <2>1, <2>3, GroupAppend
  <2>5. UNCHANGED <<kind, batch>> /\ tail' = tail
    BY <1>2 DEF Enqueue, EnqueueSqs, EnqueueLocal
  <2>6. queue'[o] = Append(queue[o], m) \/ queue'[o] = queue[o]
    BY <2>2 DEF LedgerInv
  <2>7. InTurn(o)'
    BY <1>2, <2>3, <2>4, <2>5, <2>6 DEF InTurn
  <2> QED
    BY <2>2, <2>5, <2>7, OthersInTurn DEF TurnInv, LedgerInv
<1>3. CASE kind # "sqs"
  <2> DEFINE m == [event |-> e, id |-> NextId(o), after |-> tail[o], tries |-> 0, step |-> "queued"]
  <2>1. NextId(o) \in Nat
    BY NextIdType
  <2>2. m \in Msg /\ m.step = "queued" /\ m.id = NextId(o) /\ m.after = tail[o]
    BY <1>1, <2>1 DEF Msg
  <2>3. queue' = [queue EXCEPT ![o] = Append(queue[o], m)] /\ tail' = [tail EXCEPT ![o] = NextId(o)]
    BY <1>3 DEF Enqueue, EnqueueSqs, EnqueueLocal
  <2> HIDE DEF m
  <2>4. ChainInTurn(queue[o], batch[o], tail[o])
    BY <1>1, <1>3 DEF InTurn
  <2>5. m.id # tail[o] /\ \A k \in DOMAIN queue[o] : m.id # queue[o][k].id /\ m.id # queue[o][k].after
    BY <2>2, NextIdType DEF Ids
  <2>6. ChainInTurn(Append(queue[o], m), batch[o], m.id)
    BY <1>1, <2>2, <2>4, <2>5, ChainAppend
  <2>7. UNCHANGED <<kind, batch>>
    BY DEF Enqueue
  <2>8. queue'[o] = Append(queue[o], m) /\ tail'[o] = m.id
    BY <2>2, <2>3 DEF LedgerInv
  <2>9. InTurn(o)'
    BY <1>3, <2>6, <2>7, <2>8 DEF InTurn
  <2> QED
    BY <2>3, <2>7, <2>9, OthersInTurn DEF TurnInv, LedgerInv
<1> QED
  BY <1>2, <1>3

(* A message leaves the worker's hands: marked in the group, removed from   *)
(* the chain.                                                               *)
LEMMA HandledInTurn ==
    ASSUME LedgerInv, TurnInv, NEW o \in Order, NEW k \in DOMAIN queue[o], UNCHANGED <<kind, batch>>,
           Startable(o, k) \/ queue[o][k].step = "second",
           Handled(o, k) \/ (kind = "sqs" /\ SetStep(o, k, "failed") /\ UNCHANGED tail)
    PROVE  TurnInv'
<1>1. queue[o] \in Seq(Msg) /\ batch[o] \in Nat /\ tail[o] \in Nat /\ InTurn(o)
  BY DEF LedgerInv, TurnInv
<1>2. CASE kind = "sqs"
  <2>1. PICK step \in {"ok", "failed"} : SetStep(o, k, step) /\ UNCHANGED tail
    BY <1>2 DEF Handled
  <2> DEFINE m == [queue[o][k] EXCEPT !.step = step]
  <2>2. step \in {"queued", "second", "ok", "failed"} /\ step # "queued"
    BY <2>1
  <2>3. queue' = [queue EXCEPT ![o] = [queue[o] EXCEPT ![k] = m]]
    BY <2>1 DEF SetStep
  <2>4. queue[o][k] \in Msg
    BY <1>1
  <2>5. queue' = [queue EXCEPT ![o] = [queue[o] EXCEPT ![k] = m]] /\ m \in Msg /\ m.step # "queued"
    BY <2>2, <2>3, <2>4, Marked
  <2>6. GroupInTurn(queue[o], batch[o])
    BY <1>1, <1>2 DEF InTurn
  <2> HIDE DEF m
  <2>7. GroupInTurn([queue[o] EXCEPT ![k] = m], batch[o])
    BY <1>1, <1>2, <2>5, <2>6, GroupStarts, GroupMark
  <2>8. InTurn(o)'
    BY <1>2, <2>5, <2>7 DEF InTurn, LedgerInv
  <2> QED
    BY <2>1, <2>5, <2>8, OthersInTurn DEF TurnInv, LedgerInv
<1>3. CASE kind # "sqs"
  <2>1. k = 1
    BY <1>3, ChainStarts
  <2>2. /\ queue' = [queue EXCEPT ![o] = WithoutMessage(queue[o], 1)]
        /\ tail' = [tail EXCEPT ![o] = IF tail[o] = queue[o][1].id THEN 0 ELSE tail[o]]
    BY <1>3, <2>1 DEF Handled, TailAfter
  <2>3. ChainInTurn(queue[o], batch[o], tail[o])
    BY <1>1, <1>3 DEF InTurn
  <2>4. ChainInTurn(WithoutMessage(queue[o], 1), batch[o], IF tail[o] = queue[o][1].id THEN 0 ELSE tail[o])
    BY <1>1, <2>1, <2>3, ChainDrop
  <2>5. InTurn(o)'
    BY <1>3, <2>2, <2>4 DEF InTurn, LedgerInv
  <2> QED
    BY <2>2, <2>5, OthersInTurn DEF TurnInv, LedgerInv
<1> QED
  BY <1>2, <1>3

(* A message moves on to its second statement, or back to wait for its next *)
(* attempt in the chain.                                                    *)
LEMMA MarkedInTurn ==
    ASSUME LedgerInv, TurnInv, NEW o \in Order, NEW k \in DOMAIN queue[o], UNCHANGED <<kind, batch, tail>>,
           Startable(o, k) \/ queue[o][k].step = "second",
           NEW m \in Msg, m.id = queue[o][k].id, m.after = queue[o][k].after,
           m.step \in {"queued", "second"}, kind = "sqs" => m.step = "second",
           queue' = [queue EXCEPT ![o] = [queue[o] EXCEPT ![k] = m]]
    PROVE  TurnInv'
<1>1. queue[o] \in Seq(Msg) /\ batch[o] \in Nat /\ tail[o] \in Nat /\ InTurn(o)
  BY DEF LedgerInv, TurnInv
<1>2. CASE kind = "sqs"
  <2>1. GroupInTurn(queue[o], batch[o])
    BY <1>1, <1>2 DEF InTurn
  <2>2. GroupInTurn([queue[o] EXCEPT ![k] = m], batch[o])
    BY <1>1, <1>2, <2>1, GroupStarts, GroupMark
  <2>3. InTurn(o)'
    BY <1>2, <2>2 DEF InTurn, LedgerInv
  <2> QED
    BY <2>3, OthersInTurn DEF TurnInv, LedgerInv
<1>3. CASE kind # "sqs"
  <2>1. k = 1
    BY <1>3, ChainStarts
  <2>2. ChainInTurn(queue[o], batch[o], tail[o])
    BY <1>1, <1>3 DEF InTurn
  <2>3. ChainInTurn([queue[o] EXCEPT ![1] = m], batch[o], tail[o])
    BY <1>1, <2>1, <2>2, ChainMark
  <2>4. InTurn(o)'
    BY <1>3, <2>1, <2>3 DEF InTurn, LedgerInv
  <2> QED
    BY <2>4, OthersInTurn DEF TurnInv, LedgerInv
<1> QED
  BY <1>2, <1>3

(* Nothing is held and everything waits again.                              *)
LEMMA ReleasedInTurn ==
    ASSUME LedgerInv, TurnInv, NEW o \in Order, kind = "sqs", UNCHANGED <<kind, tail>>,
           NEW q \in Seq(Msg), \A k \in DOMAIN q : q[k].step = "queued",
           queue' = [queue EXCEPT ![o] = q], batch' = [batch EXCEPT ![o] = 0]
    PROVE  TurnInv'
<1>1. GroupInTurn(q, 0)
  BY GroupQueued
<1>2. queue'[o] = q /\ batch'[o] = 0 /\ batch' \in [Order -> Nat]
  BY DEF LedgerInv, TurnInv
<1>3. InTurn(o)'
  BY <1>1, <1>2 DEF InTurn
<1> QED
  BY <1>2, <1>3, OthersInTurn

LEMMA KeptQueued ==
    ASSUME LedgerInv, NEW o \in Order
    PROVE  \A k \in DOMAIN KeepFailed(o) : KeepFailed(o)[k].step = "queued"
<1> DEFINE kept == {k \in DOMAIN queue[o] : queue[o][k].step # "ok"}
           nth == Increasing(kept)
           c == Cardinality(kept)
<1>1. queue[o] \in Seq(Msg) /\ Len(queue[o]) \in Nat /\ DOMAIN queue[o] = 1 .. Len(queue[o])
  BY DEF LedgerInv
<1>2. nth \in [1 .. c -> kept] /\ c \in Nat
  BY <1>1, IncreasingIsIn
<1>3. KeepFailed(o) = [n \in 1 .. c |-> [queue[o][nth[n]] EXCEPT !.step = "queued"]]
  BY DEF KeepFailed
<1>4. kept \subseteq DOMAIN queue[o]
  OBVIOUS
<1> HIDE DEF kept, nth, c
<1> SUFFICES ASSUME NEW k \in 1 .. c
             PROVE  [queue[o][nth[k]] EXCEPT !.step = "queued"].step = "queued"
  BY <1>3
<1>5. queue[o][nth[k]] \in Msg
  BY <1>1, <1>2, <1>4
<1> QED
  BY <1>5 DEF Msg

LEMMA DeliveriesInTurn ==
    ASSUME LedgerInv, TurnInv, NEW o \in Order, Deliver(o) \/ Misfortune(o)
    PROVE  TurnInv'
<1>1. /\ queue[o] \in Seq(Msg) /\ DOMAIN queue[o] = 1 .. Len(queue[o]) /\ Len(queue[o]) \in Nat
      /\ batch[o] \in Nat /\ InTurn(o) /\ \A k \in DOMAIN queue[o] : queue[o][k] \in Msg
  BY DEF LedgerInv, TurnInv
<1>2. kind = "sqs" /\ batch[o] = 0 => \A k \in DOMAIN queue[o] : queue[o][k].step = "queued"
  BY <1>1 DEF InTurn, GroupInTurn
<1>3. batch[o] > 0 => kind = "sqs"
  BY <1>1 DEF InTurn, ChainInTurn
<1>4. ASSUME NEW n \in 1 .. BatchSize, Receive(o, n)
      PROVE  TurnInv'
  <2> DEFINE s == [k \in DOMAIN queue[o] |->
                     IF k <= n THEN [queue[o][k] EXCEPT !.tries = queue[o][k].tries + 1] ELSE queue[o][k]]
  <2>1. kind = "sqs" /\ batch[o] = 0 /\ n <= Len(queue[o]) /\ n \in Nat
    BY <1>4 DEF Receive
  <2>2. \A k \in DOMAIN queue[o] : s[k] \in Msg /\ s[k].step = "queued"
    <3> TAKE k \in DOMAIN queue[o]
    <3>1. queue[o][k] \in Msg /\ queue[o][k].step = "queued"
      BY <1>1, <1>2, <2>1
    <3> QED
      BY <3>1, Retried
  <2>3. s \in [1 .. Len(queue[o]) -> Msg]
    BY <1>1, <2>2
  <2>4. s \in Seq(Msg) /\ Len(s) = Len(queue[o]) /\ DOMAIN s = DOMAIN queue[o]
    <3> HIDE DEF s
    <3> QED
      BY <1>1, <2>3
  <2>5. queue' = [queue EXCEPT ![o] = s] /\ batch' = [batch EXCEPT ![o] = n] /\ UNCHANGED <<kind, tail>>
    BY <1>4 DEF Receive
  <2> HIDE DEF s
  <2>6. GroupInTurn(s, n)
    BY <2>1, <2>2, <2>4, GroupQueued
  <2>7. queue'[o] = s /\ batch'[o] = n /\ batch' \in [Order -> Nat]
    BY <2>1, <2>5 DEF LedgerInv, TurnInv
  <2>8. InTurn(o)'
    BY <2>1, <2>5, <2>6, <2>7 DEF InTurn
  <2> QED
    BY <2>5, <2>7, <2>8, OthersInTurn DEF LedgerInv, TurnInv
<1>5. CASE DeadLetter(o)
  <2>1. kind = "sqs" /\ batch[o] = 0 /\ queue[o] # <<>>
    BY <1>5 DEF DeadLetter
  <2>2. Tail(queue[o]) \in Seq(Msg) /\ \A k \in DOMAIN Tail(queue[o]) : Tail(queue[o])[k].step = "queued"
    BY <1>1, <1>2, <2>1
  <2>3. queue' = [queue EXCEPT ![o] = Tail(queue[o])] /\ batch' = [batch EXCEPT ![o] = 0] /\ UNCHANGED <<kind, tail>>
    BY <1>5, <2>1 DEF DeadLetter, TurnInv
  <2> QED
    BY <2>1, <2>2, <2>3, ReleasedInTurn
<1>6. ASSUME NEW k \in DOMAIN queue[o], First(o, k)
      PROVE  TurnInv'
  <2>1. UNCHANGED <<kind, batch>> /\ Startable(o, k)
    BY <1>6 DEF First
  <2>2. CASE Handled(o, k)
    BY <2>1, <2>2, HandledInTurn
  <2>3. CASE SetStep(o, k, "second") /\ UNCHANGED tail
    <3> DEFINE m == [queue[o][k] EXCEPT !.step = "second"]
    <3>1. /\ m \in Msg /\ m.id = queue[o][k].id /\ m.after = queue[o][k].after /\ m.step = "second"
          /\ queue' = [queue EXCEPT ![o] = [queue[o] EXCEPT ![k] = m]]
      BY <2>3, SetStepIs
    <3> HIDE DEF m
    <3> QED
      BY <2>1, <2>3, <3>1, MarkedInTurn
  <2> QED
    BY <1>6, <2>2, <2>3 DEF First
<1>7. ASSUME NEW k \in DOMAIN queue[o], Second(o, k)
      PROVE  TurnInv'
  BY <1>7, HandledInTurn DEF Second
<1>8. CASE EndBatch(o)
  <2>1. batch[o] > 0 /\ UNCHANGED <<kind, tail>>
    BY <1>8 DEF EndBatch
  <2>2. queue' = [queue EXCEPT ![o] = KeepFailed(o)] /\ batch' = [batch EXCEPT ![o] = 0]
    BY <1>8 DEF EndBatch
  <2> QED
    BY <1>3, <2>1, <2>2, KeptType, KeptQueued, ReleasedInTurn
<1>9. CASE Crash(o)
  <2> DEFINE s == [k \in DOMAIN queue[o] |-> [queue[o][k] EXCEPT !.step = "queued"]]
  <2>1. \A k \in DOMAIN queue[o] : s[k] \in Msg /\ s[k].step = "queued"
    <3> TAKE k \in DOMAIN queue[o]
    <3>1. queue[o][k] \in Msg
      BY <1>1
    <3> QED
      BY <3>1, Marked
  <2>2. s \in [1 .. Len(queue[o]) -> Msg]
    BY <1>1, <2>1
  <2>3. s \in Seq(Msg) /\ DOMAIN s = DOMAIN queue[o]
    <3> HIDE DEF s
    <3> QED
      BY <1>1, <2>2
  <2>4. batch[o] > 0 /\ UNCHANGED <<kind, tail>>
    BY <1>9 DEF Crash
  <2>5. queue' = [queue EXCEPT ![o] = s] /\ batch' = [batch EXCEPT ![o] = 0]
    BY <1>9 DEF Crash
  <2> HIDE DEF s
  <2> QED
    BY <1>3, <2>1, <2>3, <2>4, <2>5, ReleasedInTurn
<1>10. ASSUME NEW k \in DOMAIN queue[o], Fail(o, k)
      PROVE  TurnInv'
  <2>1. UNCHANGED <<kind, batch>> /\ (Startable(o, k) \/ queue[o][k].step = "second")
    BY <1>10 DEF Fail
  <2>2. CASE kind = "sqs" /\ SetStep(o, k, "failed") /\ UNCHANGED tail
    BY <2>1, <2>2, HandledInTurn
  <2>3. CASE Handled(o, k)
    BY <2>1, <2>3, HandledInTurn
  <2>4. CASE kind # "sqs" /\ queue' = [queue EXCEPT ![o][k].step = "queued", ![o][k].tries = @ + 1] /\ UNCHANGED tail
    <3> DEFINE m == [queue[o][k] EXCEPT !.step = "queued", !.tries = queue[o][k].tries + 1]
    <3>1. queue[o][k] \in Msg
      BY <1>1
    <3>2. queue' = [queue EXCEPT ![o] = [queue[o] EXCEPT ![k] = m]]
      BY <1>1, <2>4, <3>1 DEF Msg
    <3>3. m \in Msg /\ m.id = queue[o][k].id /\ m.after = queue[o][k].after /\ m.step = "queued"
      BY <3>1, Retried
    <3>4. m.step \in {"queued", "second"} /\ (kind = "sqs" => m.step = "second")
      BY <2>4, <3>3
    <3> HIDE DEF m
    <3>5. UNCHANGED <<kind, batch, tail>>
      BY <2>1, <2>4
    <3> QED
      BY <2>1, <3>2, <3>3, <3>4, <3>5, MarkedInTurn
  <2> QED
    BY <1>10, <2>2, <2>3, <2>4 DEF Fail
<1> QED
  BY <1>4, <1>5, <1>6, <1>7, <1>8, <1>9, <1>10 DEF Deliver, Misfortune

LEMMA TurnStep ==
    ASSUME LedgerInv, TurnInv, LedgerInv', [Next]_vars
    PROVE  TurnInv'
<1>1. ASSUME UNCHANGED <<kind, queue, batch, tail>>
      PROVE  TurnInv'
  BY <1>1 DEF TurnInv, InTurn
<1>2. ASSUME NEW o \in Order, Producers(o)
      PROVE  TurnInv'
  <2>1. ASSUME NEW e \in outbox[o], Enqueue(o, e)
        PROVE  TurnInv'
    BY <2>1, EnqueueInTurn
  <2>2. CASE UNCHANGED <<kind, queue, batch, tail>>
    BY <1>1, <2>2
  <2> QED
    BY <1>2, <2>1, <2>2 DEF Producers, Place, Pay, Cancel, Revive, EnqueueFails, queueVars
<1>3. CASE NextDay \/ UNCHANGED vars
  BY <1>1, <1>3 DEF NextDay, vars, queueVars
<1> QED
  BY <1>2, <1>3, DeliveriesInTurn DEF Next

LEMMA TurnInit ==
    ASSUME Init
    PROVE  TurnInv
  BY DEF Init, TurnInv, InTurn, GroupInTurn, ChainInTurn

LEMMA TurnIsOneAtATime ==
    ASSUME LedgerInv, TurnInv
    PROVE  OneAtATime
<1> SUFFICES ASSUME NEW o \in Order, NEW j \in DOMAIN queue[o], NEW k \in DOMAIN queue[o],
                    j < k, queue[o][k].step = "second"
             PROVE  queue[o][j].step \in {"ok", "failed"}
  BY DEF OneAtATime
<1>1. j \in 1 .. k - 1 /\ k # 1
  BY DEF LedgerInv
<1> QED
  BY <1>1 DEF TurnInv, InTurn, GroupInTurn, ChainInTurn

(* Two events of one order are never worked on at the same time, and none   *)
(* is begun before the ones enqueued earlier have been dealt with, in the   *)
(* message groups of production and in the chains of promises of the local  *)
(* queue.                                                                   *)
THEOREM HandledInOrder == Spec => []OneAtATime
<1>1. Init => LedgerInv /\ TurnInv
  BY LedgerInvInit, TurnInit
<1>2. LedgerInv /\ TurnInv /\ [Next]_vars => LedgerInv' /\ TurnInv'
  BY LedgerInvStep, TurnStep
<1>3. LedgerInv /\ TurnInv => OneAtATime
  BY TurnIsOneAtATime
<1> QED
  BY <1>1, <1>2, <1>3, PTL DEF Spec

-----------------------------------------------------------------------------
(* Types *)

FactsInv ==
    /\ placed \in [Order -> Day \union {None}]
    /\ live \in [Order -> SUBSET Item]
    /\ payments \in [Order -> 0 .. MaxRequests]
    /\ asked \in [Order -> 0 .. MaxRequests]
    /\ \A o \in Order : payments[o] <= asked[o]
    /\ sent \in [Order -> SUBSET SoundEvent]
    /\ fact \in [Order -> FactRow \union {NoFact}]
    /\ lines \in [Order -> SUBSET Item]
    /\ faults \in 0 .. MaxFaults
    /\ hurt \in SUBSET Order

LEMMA BodySound ==
    ASSUME NEW e \in SoundEvent
    PROVE  /\ Body(e) \in SoundEvent
           /\ Body(e).type = e.type /\ Body(e).items = e.items
  BY DEF Body, SoundEvent, EventShape

LEMMA NewFactIsRow ==
    ASSUME NEW d \in Day
    PROVE  Ledger!NewFact(d) \in FactRow /\ Ledger!NewFact(d) # NoFact
<1>1. Item \in SUBSET Item
  OBVIOUS
<1>2. Ledger!Value[Item] \in Nat /\ Ledger!Count[Item] \in Nat
  BY <1>1, Valued
<1>3. Ledger!NewFact(d) \in FactRow
  BY <1>2 DEF Ledger!NewFact, FactRow
<1> QED
  BY <1>3, ReportingAssumption

(* The headline row a first statement leaves behind.                        *)
LEMMA FirstIsRow ==
    ASSUME FactsInv, NEW o \in Order, NEW e \in SoundEvent
    PROVE  /\ FirstStatement(o, e) \in FactRow \union {NoFact}
           /\ fact[o] # NoFact => FirstStatement(o, e) \in FactRow
<1>1. fact[o] \in FactRow \union {NoFact}
  BY DEF FactsInv
<1>2. CASE e.type = "order_placed"
  <2>1. e.day \in Day
    BY DEF SoundEvent, EventShape
  <2> QED
    BY <1>1, <1>2, <2>1, NewFactIsRow DEF FirstStatement, InsertOrderFact, ReportDate
<1>3. CASE fact[o] = NoFact /\ e.type # "order_placed"
  BY <1>3 DEF FirstStatement, UpdateWaiter, UpdatePaid, ApplyCancellation, SoundEvent, EventShape
<1>4. CASE fact[o] \in FactRow /\ fact[o] # NoFact /\ e.type = "order_waiter_assigned"
  <2>1. [fact[o] EXCEPT !.waiter = e.waiter] \in FactRow
    BY <1>4 DEF FactRow, SoundEvent, EventShape
  <2> QED
    BY <1>4, <2>1 DEF FirstStatement, UpdateWaiter
<1>5. CASE fact[o] \in FactRow /\ fact[o] # NoFact /\ e.type = "order_paid"
  <2>1. [fact[o] EXCEPT !.paid = TRUE] \in FactRow
    BY <1>5 DEF FactRow
  <2> QED
    BY <1>5, <2>1 DEF FirstStatement, UpdatePaid
<1>6. CASE fact[o] \in FactRow /\ fact[o] # NoFact /\ e.type = "order_items_cancelled"
  <2> DEFINE value == Ledger!Value[e.items]
             count == Ledger!Count[e.items]
             f == fact[o]
  <2>1. value \in Nat /\ count \in Nat
    BY Valued DEF SoundEvent, EventShape
  <2>2. f.gross \in Nat /\ f.count \in Nat /\ f.cancelled \in Nat /\ f.cancelledCount \in Nat
    BY <1>6 DEF FactRow
  <2> DEFINE gross == Ledger!Minus(f.gross, value)
             left == Ledger!Minus(f.count, count)
             gone == f.cancelled + value
             many == f.cancelledCount + count
             row == [f EXCEPT !.gross = gross, !.count = left, !.cancelled = gone, !.cancelledCount = many]
  <2>3. FirstStatement(o, e) = row
    BY <1>6 DEF FirstStatement, ApplyCancellation
  <2>4. gross \in Nat /\ left \in Nat /\ gone \in Nat /\ many \in Nat
    <3> HIDE DEF value, count, f
    <3> QED
      BY <2>1, <2>2 DEF Ledger!Minus
  <2>5. row \in FactRow
    <3> HIDE DEF gross, left, gone, many
    <3> QED
      BY <1>6, <2>4 DEF FactRow
  <2> QED
    BY <2>3, <2>5
<1> QED
  BY <1>1, <1>2, <1>3, <1>4, <1>5, <1>6 DEF SoundEvent, EventShape

LEMMA Requests ==
    ASSUME FactsInv, NEW o \in Order, MayRequest(o)
    PROVE  /\ payments[o] + 1 \in 0 .. MaxRequests /\ asked[o] + 1 \in 0 .. MaxRequests
           /\ payments[o] + 1 <= asked[o] + 1 /\ payments[o] <= asked[o] + 1
<1>1. payments[o] \in Nat /\ asked[o] \in Nat /\ MaxRequests \in Nat
  BY ReportingAssumption DEF FactsInv
<1> QED
  BY <1>1 DEF MayRequest, FactsInv

LEMMA FactsStep ==
    ASSUME LedgerInv, FactsInv, [Next]_vars
    PROVE  FactsInv'
<1>1. faults \in Nat /\ MaxFaults \in Nat /\ (Fault => faults' \in 0 .. MaxFaults)
  BY ReportingAssumption DEF FactsInv, Fault
<1>2. \A o \in Order : Hurt(o) => hurt' \in SUBSET Order
  BY DEF FactsInv, Hurt
<1>3. CASE NextDay \/ UNCHANGED vars
  BY <1>3 DEF FactsInv, NextDay, vars, orderVars, queueVars, factVars
<1>4. ASSUME NEW o \in Order, Place(o)
      PROVE  FactsInv'
  BY <1>4 DEF FactsInv, LedgerInv, Place, factVars
<1>5. ASSUME NEW o \in Order, Pay(o)
      PROVE  FactsInv'
  <2>1. payments' = [payments EXCEPT ![o] = payments[o] + 1] /\ asked' = [asked EXCEPT ![o] = asked[o] + 1]
    BY <1>5 DEF Pay, Asked
  <2>2. /\ payments' \in [Order -> 0 .. MaxRequests] /\ asked' \in [Order -> 0 .. MaxRequests]
        /\ \A p \in Order : payments'[p] <= asked'[p]
    BY <1>5, <2>1, Requests DEF FactsInv, Pay
  <2> QED
    BY <1>5, <2>2 DEF FactsInv, Pay, factVars
<1>6. ASSUME NEW o \in Order, NEW items \in SUBSET Item, Cancel(o, items)
      PROVE  FactsInv'
  <2>1. asked' = [asked EXCEPT ![o] = asked[o] + 1] /\ UNCHANGED payments
    BY <1>6 DEF Cancel, Asked
  <2>2. asked' \in [Order -> 0 .. MaxRequests] /\ \A p \in Order : payments'[p] <= asked'[p]
    BY <1>6, <2>1, Requests DEF FactsInv, Cancel
  <2> QED
    BY <1>6, <2>1, <2>2 DEF FactsInv, Cancel, factVars
<1>7. ASSUME NEW o \in Order, NEW e \in outbox[o], Enqueue(o, e)
      PROVE  FactsInv'
  <2>1. e \in SoundEvent
    BY DEF LedgerInv
  <2>2. Body(e) \in SoundEvent
    BY <2>1, BodySound
  <2>3. sent' \in [Order -> SUBSET SoundEvent]
    BY <1>7, <2>2 DEF Enqueue, FactsInv
  <2>4. hurt' \in SUBSET Order
    BY <1>2, <1>7 DEF Enqueue, FactsInv
  <2> QED
    BY <1>7, <2>3, <2>4 DEF Enqueue, FactsInv, orderVars, factVars
<1>8. ASSUME NEW o \in Order, NEW e \in outbox[o], EnqueueFails(o, e)
      PROVE  FactsInv'
  BY <1>1, <1>2, <1>8 DEF EnqueueFails, FactsInv, orderVars, factVars
<1>9. ASSUME NEW o \in Order, (\E n \in 1 .. BatchSize : Receive(o, n)) \/ EndBatch(o)
      PROVE  FactsInv'
  BY <1>9 DEF FactsInv, Receive, EndBatch, orderVars, factVars
<1>10. ASSUME NEW o \in Order, DeadLetter(o)
      PROVE  FactsInv'
  BY <1>2, <1>10 DEF FactsInv, DeadLetter, orderVars, factVars
<1>11. ASSUME NEW o \in Order, Crash(o)
       PROVE  FactsInv'
  BY <1>1, <1>2, <1>11 DEF FactsInv, Crash, orderVars, factVars
<1>12. ASSUME NEW o \in Order, NEW k \in DOMAIN queue[o], Fail(o, k)
       PROVE  FactsInv'
  BY <1>1, <1>2, <1>12 DEF FactsInv, Fail, orderVars, factVars
<1>13. ASSUME NEW o \in Order, NEW k \in DOMAIN queue[o]
       PROVE  queue[o][k].event \in SoundEvent /\ queue[o][k].event.items \in SUBSET Item
  <2>1. queue[o] \in Seq(Msg)
    BY DEF LedgerInv
  <2>2. queue[o][k] \in Msg
    BY <2>1
  <2> QED
    BY <2>2 DEF Msg, SoundEvent, EventShape
<1>14. ASSUME NEW o \in Order, NEW k \in DOMAIN queue[o], First(o, k)
       PROVE  FactsInv'
  <2> DEFINE row == FirstStatement(o, queue[o][k].event)
  <2>1. row \in FactRow \union {NoFact}
    BY <1>13, FirstIsRow
  <2>2. fact' = [fact EXCEPT ![o] = row]
    BY <1>14 DEF First
  <2> HIDE DEF row
  <2>3. fact' \in [Order -> FactRow \union {NoFact}]
    BY <2>1, <2>2 DEF FactsInv
  <2>4. hurt' \in SUBSET Order
    BY <1>2, <1>14 DEF First, FactsInv
  <2> QED
    BY <1>14, <2>3, <2>4 DEF First, FactsInv, orderVars
<1>15. ASSUME NEW o \in Order, NEW k \in DOMAIN queue[o], Second(o, k)
       PROVE  FactsInv'
  <2>1. SecondStatement(o, queue[o][k].event) \in SUBSET Item
    BY <1>13 DEF SecondStatement, FactsInv
  <2>2. lines' = [lines EXCEPT ![o] = SecondStatement(o, queue[o][k].event)]
    BY <1>15 DEF Second
  <2>3. lines' \in [Order -> SUBSET Item]
    BY <2>1, <2>2 DEF FactsInv
  <2> QED
    BY <1>15, <2>3 DEF Second, FactsInv, orderVars
<1>16. ASSUME NEW o \in Order, NEW i \in Item, Revive(o, i)
       PROVE  FactsInv'
  <2>1. live' \in [Order -> SUBSET Item]
    BY <1>16 DEF Revive, FactsInv
  <2> QED
    BY <1>1, <1>2, <1>16, <2>1 DEF FactsInv, Revive, queueVars, factVars
<1> QED
  BY <1>3, <1>4, <1>5, <1>6, <1>7, <1>8, <1>9, <1>10, <1>11, <1>12, <1>14, <1>15, <1>16
     DEF Next, Producers, Deliver, Misfortune

LEMMA FactsInit ==
    ASSUME Init
    PROVE  FactsInv
<1>1. 0 \in Day
  BY ReportingAssumption DEF Day
<1>2. Ledger!NewFact(0) \in FactRow
  BY <1>1, NewFactIsRow
<1>3. MaxFaults \in Nat /\ MaxRequests \in Nat
  BY ReportingAssumption
<1>4. fact \in [Order -> FactRow \union {NoFact}]
  BY <1>2 DEF Init
<1>5. /\ faults \in 0 .. MaxFaults /\ payments \in [Order -> 0 .. MaxRequests]
      /\ asked \in [Order -> 0 .. MaxRequests] /\ \A o \in Order : payments[o] <= asked[o]
  BY <1>3 DEF Init
<1> QED
  BY <1>1, <1>4, <1>5 DEF Init, FactsInv

LEMMA SoundIsTyped ==
    ASSUME LedgerInv, TurnInv, FactsInv
    PROVE  TypeOK
<1>1. SoundEvent \subseteq Event
  BY DEF SoundEvent, EventShape, Event
<1>2. Msg \subseteq Message
  BY <1>1 DEF Msg, Message
<1>3. \A o \in Order : outbox[o] \subseteq Event /\ sent[o] \subseteq Event
  BY <1>1 DEF LedgerInv, FactsInv
<1>4. \A o \in Order : \A k \in DOMAIN queue[o] : queue[o][k] \in Message
  <2> TAKE o \in Order
  <2>1. queue[o] \in Seq(Msg)
    BY DEF LedgerInv
  <2> QED
    BY <1>2, <2>1
<1>5. \A o \in Order : batch[o] \in 0 .. Len(queue[o])
  <2> TAKE o \in Order
  <2>1. queue[o] \in Seq(Msg) /\ Len(queue[o]) \in Nat /\ batch[o] \in Nat /\ InTurn(o)
    BY DEF LedgerInv, TurnInv
  <2> QED
    BY <2>1 DEF InTurn, GroupInTurn, ChainInTurn
<1> QED
  BY <1>3, <1>4, <1>5 DEF TypeOK, LedgerInv, TurnInv, FactsInv

(* Requests, queues, batches and facts keep their types: no counter passes  *)
(* its bound, no figure of a headline row is negative.                      *)
THEOREM ReportingTypes == Spec => []TypeOK
<1>1. Init => LedgerInv /\ TurnInv /\ FactsInv
  BY LedgerInvInit, TurnInit, FactsInit
<1>2. LedgerInv /\ TurnInv /\ FactsInv /\ [Next]_vars => LedgerInv' /\ TurnInv' /\ FactsInv'
  BY LedgerInvStep, TurnStep, FactsStep
<1>3. LedgerInv /\ TurnInv /\ FactsInv => TypeOK
  BY SoundIsTyped
<1> QED
  BY <1>1, <1>2, <1>3, PTL DEF Spec

-----------------------------------------------------------------------------
(* The facts of an order to which no mishap happened *)

IsPlaced(e) == e.type = "order_placed"
IsPaid(e)   == e.type = "order_paid"
IsCancel(e) == e.type = "order_items_cancelled"

(* The cancelled items some event still stands for: in the outbox, or in a  *)
(* message whose step is one of those given.                                *)
Cancelled(out, q, steps) ==
    {i \in Item : \/ \E e \in out : IsCancel(e) /\ i \in e.items
                  \/ \E k \in DOMAIN q : q[k].step \in steps /\ IsCancel(q[k].event) /\ i \in q[k].event.items}
Steps == {"queued", "second", "ok", "failed"}
Owed(out, q)      == Cancelled(out, q, {"queued", "failed"})            \* not yet subtracted
Remaining(out, q) == Cancelled(out, q, {"queued", "second", "failed"})  \* their rows are still there
Mentioned(out, q) == Cancelled(out, q, Steps)

(* order_placed has been enqueued, but not both of its statements are done. *)
Unwritten(q) == \E k \in DOMAIN q : IsPlaced(q[k].event) /\ q[k].step # "ok"
Unsent(out) == \E e \in out : IsPlaced(e)

Disjoint(d, e) == IsCancel(d) /\ IsCancel(e) => d.items \intersect e.items = {}

(* No line is cancelled by two events, or is live and cancelled.            *)
EventsApart(out, q, accepted, lively) ==
    /\ \A d, e \in out : d # e => Disjoint(d, e)
    /\ \A d \in out, k \in DOMAIN q : Disjoint(d, q[k].event)
    /\ \A d \in out, e \in accepted : Disjoint(d, e)
    /\ \A j, k \in DOMAIN q : j # k => Disjoint(q[j].event, q[k].event)
    /\ \A e \in out \union accepted : IsCancel(e) => e.items \intersect lively = {}
    /\ \A k \in DOMAIN q : IsCancel(q[k].event) => q[k].event.items \intersect lively = {}

(* order_placed goes first, and says what was placed.                       *)
PlacedFirst(o, out, q, accepted) ==
    /\ \A e \in out : IsPlaced(e) => e = PlacedEvent(o) /\ q = <<>> /\ accepted = {}
    /\ \A k \in DOMAIN q : IsPlaced(q[k].event) => k = 1 /\ q[k].event = PlacedEvent(o)
    /\ Unwritten(q) => \A k \in DOMAIN q : k # 1 => q[k].step \in {"queued", "failed"}

(* The headline row owes what is still to be subtracted, ...                *)
HeadlineTrue(o, out, q, row) ==
    row # NoFact =>
        /\ row.gross = Ledger!Value[live[o] \union Owed(out, q)]
        /\ row.count = Ledger!Count[live[o] \union Owed(out, q)]
        /\ row.cancelled = Ledger!Value[Item \ (live[o] \union Owed(out, q))]
        /\ row.day = placed[o]
(* ... and once the order is there the item rows are those not yet deleted. *)
RowsTrue(o, out, q, row, rows) ==
    /\ Unsent(out) => row = NoFact /\ rows = {}
    /\ \A k \in DOMAIN q : IsPlaced(q[k].event) /\ q[k].step \in {"second", "ok"} => row # NoFact
    /\ \A k \in DOMAIN q : q[k].step = "second" => q[k].event.type \in TwoStatements
    /\ Unsent(out) \/ (\E k \in DOMAIN q : IsPlaced(q[k].event)) => live[o] \union Mentioned(out, q) = Item
    /\ ~Unsent(out) /\ ~Unwritten(q) => row # NoFact /\ rows = live[o] \union Remaining(out, q)

Credited(row) == row # NoFact /\ row.paid
PaymentTrue(o, out, q, accepted, row) ==
    LET coming == \E k \in DOMAIN q : IsPaid(q[k].event) /\ q[k].step # "ok" IN
    /\ (\E e \in out : IsPaid(e)) \/ (\E k \in DOMAIN q : IsPaid(q[k].event)) \/ Credited(row) => payments[o] > 0
    /\ payments[o] > 0 => (\E e \in out : IsPaid(e)) \/ coming \/ Credited(row)
    /\ \A e \in accepted : IsPaid(e) => coming \/ Credited(row)
    /\ \A k \in DOMAIN q : IsPaid(q[k].event) /\ q[k].step = "ok" => Credited(row)

Good(o, out, q, accepted, row, rows) ==
    /\ EventsApart(out, q, accepted, live[o])
    /\ PlacedFirst(o, out, q, accepted)
    /\ HeadlineTrue(o, out, q, row)
    /\ RowsTrue(o, out, q, row, rows)
    /\ PaymentTrue(o, out, q, accepted, row)

Untouched(o) ==
    /\ live[o] = Item /\ payments[o] = 0 /\ outbox[o] = {} /\ sent[o] = {} /\ queue[o] = <<>>
    /\ fact[o] = NoFact /\ lines[o] = {}

Truthful(o) ==
    IF placed[o] = None THEN Untouched(o)
    ELSE o \notin hurt => Good(o, outbox[o], queue[o], sent[o], fact[o], lines[o])

TruthInv == \A o \in Order : Truthful(o)

LEMMA MsgParts ==
    ASSUME NEW q \in Seq(Msg), NEW k \in DOMAIN q
    PROVE  /\ q[k] \in Msg /\ q[k].event \in SoundEvent /\ q[k].step \in Steps
           /\ q[k].event.items \in SUBSET Item
           /\ IsCancel(q[k].event) => q[k].event.items # {}
<1>1. q[k] \in Msg
  OBVIOUS
<1> QED
  BY <1>1 DEF Msg, SoundEvent, EventShape, Steps, IsCancel

(* Setting messages back to wait changes nothing, as long as no             *)
(* cancellation among them has been subtracted.                             *)
LEMMA SetBack ==
    ASSUME NEW o \in Order, NEW out, NEW q \in Seq(Msg), NEW r \in Seq(Msg), NEW accepted, NEW row, NEW rows,
           Good(o, out, q, accepted, row, rows), DOMAIN r = DOMAIN q,
           \A k \in DOMAIN q :
              /\ r[k].event = q[k].event
              /\ \/ r[k].step = q[k].step
                 \/ /\ r[k].step \in {"queued", "failed"}
                    /\ IsCancel(q[k].event) => q[k].step \notin {"second", "ok"},
           Unwritten(r) => Unwritten(q) \/ \A k \in DOMAIN q : k # 1 => r[k].step \in {"queued", "failed"}
    PROVE  Good(o, out, r, accepted, row, rows)
<1>1. \A k \in DOMAIN q : q[k].step \in Steps /\ r[k].step \in Steps
  BY MsgParts
<1>2. Owed(out, r) = Owed(out, q) /\ Remaining(out, r) = Remaining(out, q) /\ Mentioned(out, r) = Mentioned(out, q)
  BY <1>1 DEF Owed, Remaining, Mentioned, Cancelled, Steps
<1>3. Unwritten(q) => Unwritten(r)
  BY <1>1 DEF Unwritten, Steps
<1>4. r = <<>> <=> q = <<>>
  BY DOMAIN q = 1 .. Len(q), DOMAIN r = 1 .. Len(r)
<1>5. EventsApart(out, r, accepted, live[o])
  BY DEF Good, EventsApart
<1>6. PlacedFirst(o, out, r, accepted)
  <2>1. \A e \in out : IsPlaced(e) => e = PlacedEvent(o) /\ r = <<>> /\ accepted = {}
    BY <1>4 DEF Good, PlacedFirst
  <2>2. \A k \in DOMAIN r : IsPlaced(r[k].event) => k = 1 /\ r[k].event = PlacedEvent(o)
    BY DEF Good, PlacedFirst
  <2>3. ASSUME Unwritten(r), NEW k \in DOMAIN r, k # 1
        PROVE  r[k].step \in {"queued", "failed"}
    BY <2>3 DEF Good, PlacedFirst
  <2> QED
    BY <2>1, <2>2, <2>3 DEF PlacedFirst
<1>7. HeadlineTrue(o, out, r, row)
  BY <1>2 DEF Good, HeadlineTrue
<1>8. RowsTrue(o, out, r, row, rows)
  <2>1. \A k \in DOMAIN r : IsPlaced(r[k].event) /\ r[k].step \in {"second", "ok"} => row # NoFact
    BY DEF Good, RowsTrue
  <2>2. \A k \in DOMAIN r : r[k].step = "second" => r[k].event.type \in TwoStatements
    BY DEF Good, RowsTrue
  <2>3. Unsent(out) \/ (\E k \in DOMAIN r : IsPlaced(r[k].event)) => live[o] \union Mentioned(out, r) = Item
    BY <1>2 DEF Good, RowsTrue
  <2> QED
    BY <1>2, <1>3, <2>1, <2>2, <2>3 DEF Good, RowsTrue
<1>9. PaymentTrue(o, out, r, accepted, row)
  <2>1. (\E k \in DOMAIN q : IsPaid(q[k].event) /\ q[k].step # "ok") => (\E k \in DOMAIN r : IsPaid(r[k].event) /\ r[k].step # "ok")
    BY <1>1 DEF Steps
  <2>2. (\E k \in DOMAIN r : IsPaid(r[k].event)) => (\E k \in DOMAIN q : IsPaid(q[k].event))
    OBVIOUS
  <2>3. \A k \in DOMAIN r : IsPaid(r[k].event) /\ r[k].step = "ok" => Credited(row)
    BY DEF Good, PaymentTrue
  <2> QED
    BY <2>1, <2>2, <2>3 DEF Good, PaymentTrue
<1> QED
  BY <1>5, <1>6, <1>7, <1>8, <1>9 DEF Good

(* r is q without messages that have been handled: g says which is which.   *)
Picks(q, r, g) ==
    /\ g \in [DOMAIN r -> DOMAIN q]
    /\ \A m, n \in DOMAIN r : m # n => g[m] # g[n]
    /\ \A n \in DOMAIN r : g[n] = 1 => n = 1
    /\ \A n \in DOMAIN r : r[n].event = q[g[n]].event /\ r[n].step = q[g[n]].step /\ q[g[n]].step # "ok"
    /\ \A k \in DOMAIN q : q[k].step # "ok" => \E n \in DOMAIN r : g[n] = k

(* Messages that have been handled may go.                                  *)
LEMMA Compacted ==
    ASSUME NEW o \in Order, NEW out, NEW q \in Seq(Msg), NEW r \in Seq(Msg), NEW accepted, NEW row, NEW rows,
           Good(o, out, q, accepted, row, rows),
           NEW g, Picks(q, r, g)
    PROVE  Good(o, out, r, accepted, row, rows)
<1> USE DEF Picks
<1>1. \A k \in DOMAIN q : q[k].step \in Steps
  BY MsgParts
<1>2. Owed(out, r) = Owed(out, q) /\ Remaining(out, r) = Remaining(out, q)
  <2>1. ASSUME NEW steps, "ok" \notin steps
        PROVE  Cancelled(out, r, steps) = Cancelled(out, q, steps)
    <3>1. ASSUME NEW i \in Item, NEW n \in DOMAIN r, r[n].step \in steps, IsCancel(r[n].event), i \in r[n].event.items
          PROVE  \E k \in DOMAIN q : q[k].step \in steps /\ IsCancel(q[k].event) /\ i \in q[k].event.items
      BY <3>1
    <3>2. ASSUME NEW i \in Item, NEW k \in DOMAIN q, q[k].step \in steps, IsCancel(q[k].event), i \in q[k].event.items
          PROVE  \E n \in DOMAIN r : r[n].step \in steps /\ IsCancel(r[n].event) /\ i \in r[n].event.items
      <4>1. q[k].step # "ok"
        BY <2>1, <3>2
      <4>2. PICK n \in DOMAIN r : g[n] = k
        BY <4>1
      <4> QED
        BY <3>2, <4>2
    <3> QED
      BY <3>1, <3>2 DEF Cancelled
  <2> QED
    BY <2>1 DEF Owed, Remaining
<1>3. Unwritten(q) <=> Unwritten(r)
  BY DEF Unwritten
<1>4. q = <<>> => r = <<>>
  <2>1. q = <<>> => DOMAIN r = {}
    OBVIOUS
  <2>2. DOMAIN r = 1 .. Len(r) /\ Len(r) \in Nat
    OBVIOUS
  <2> QED
    BY <2>1, <2>2
<1>5. EventsApart(out, r, accepted, live[o])
  BY DEF Good, EventsApart
<1>6. PlacedFirst(o, out, r, accepted)
  BY <1>3, <1>4 DEF Good, PlacedFirst
<1>7. HeadlineTrue(o, out, r, row)
  BY <1>2 DEF Good, HeadlineTrue
<1>8. RowsTrue(o, out, r, row, rows)
  <2>1. \A n \in DOMAIN r : IsPlaced(r[n].event) /\ r[n].step \in {"second", "ok"} => row # NoFact
    BY DEF Good, RowsTrue
  <2>2. \A n \in DOMAIN r : r[n].step = "second" => r[n].event.type \in TwoStatements
    BY DEF Good, RowsTrue
  <2>3. ASSUME Unsent(out) \/ \E n \in DOMAIN r : IsPlaced(r[n].event)
        PROVE  live[o] \union Mentioned(out, r) = Item
    <3>1. live[o] \union Mentioned(out, q) = Item
      BY <2>3 DEF Good, RowsTrue
    <3>2. ASSUME NEW k \in DOMAIN q, IsCancel(q[k].event)
          PROVE  \E n \in DOMAIN r : g[n] = k
      <4>1. CASE Unsent(out)
        BY <4>1 DEF Good, PlacedFirst, Unsent
      <4>2. CASE \E n \in DOMAIN r : IsPlaced(r[n].event)
        <5>1. Unwritten(q)
          BY <4>2 DEF Unwritten
        <5>2. PICK n \in DOMAIN r : IsPlaced(r[n].event)
          BY <4>2
        <5>3. g[n] = 1 /\ IsPlaced(q[1].event)
          BY <5>2 DEF Good, PlacedFirst
        <5>4. k # 1
          BY <3>2, <5>3 DEF IsPlaced, IsCancel
        <5>5. q[k].step # "ok"
          BY <5>1, <5>4 DEF Good, PlacedFirst
        <5> QED
          BY <5>5
      <4> QED
        BY <2>3, <4>1, <4>2
    <3>3. Mentioned(out, q) \subseteq Mentioned(out, r)
      <4>1. ASSUME NEW k \in DOMAIN q, IsCancel(q[k].event), NEW i \in q[k].event.items
            PROVE  \E n \in DOMAIN r : r[n].step \in Steps /\ IsCancel(r[n].event) /\ i \in r[n].event.items
        <5>1. PICK n \in DOMAIN r : g[n] = k
          BY <3>2, <4>1
        <5> QED
          BY <1>1, <4>1, <5>1
      <4> QED
        BY <4>1 DEF Mentioned, Cancelled
    <3>4. Mentioned(out, r) \subseteq Mentioned(out, q)
      BY DEF Mentioned, Cancelled
    <3> QED
      BY <3>1, <3>3, <3>4
  <2> QED
    BY <1>2, <1>3, <2>1, <2>2, <2>3 DEF Good, RowsTrue
<1>9. PaymentTrue(o, out, r, accepted, row)
  <2>1. ASSUME NEW k \in DOMAIN q, IsPaid(q[k].event), q[k].step # "ok"
        PROVE  \E n \in DOMAIN r : IsPaid(r[n].event) /\ r[n].step # "ok"
    <3>1. PICK n \in DOMAIN r : g[n] = k
      BY <2>1
    <3> QED
      BY <2>1, <3>1
  <2>2. (\E n \in DOMAIN r : IsPaid(r[n].event)) => (\E k \in DOMAIN q : IsPaid(q[k].event))
    OBVIOUS
  <2>3. \A n \in DOMAIN r : IsPaid(r[n].event) /\ r[n].step = "ok" => Credited(row)
    OBVIOUS
  <2> QED
    BY <2>1, <2>2, <2>3 DEF Good, PaymentTrue
<1> QED
  BY <1>5, <1>6, <1>7, <1>8, <1>9 DEF Good

(* One message of a queue has moved on, the others are as they were.        *)
MovesOn(q, r, k) ==
    /\ DOMAIN r = DOMAIN q
    /\ \A j \in DOMAIN q : r[j].event = q[j].event /\ (j # k => r[j].step = q[j].step)

LEMMA MoveKeeps ==
    ASSUME NEW o \in Order, NEW out, NEW q \in Seq(Msg), NEW r \in Seq(Msg), NEW accepted, NEW row, NEW rows,
           Good(o, out, q, accepted, row, rows), NEW k \in DOMAIN q, MovesOn(q, r, k)
    PROVE  /\ EventsApart(out, r, accepted, live[o])
           /\ Unwritten(r) /\ k # 1 => Unwritten(q)
           /\ Unwritten(r) => Unwritten(q) \/ IsPlaced(q[k].event)
           /\ (Unwritten(r) => Unwritten(q)) => (k = 1 => PlacedFirst(o, out, r, accepted))
           /\ ~Unwritten(r) => PlacedFirst(o, out, r, accepted)
           /\ ~Unsent(out)
           /\ Mentioned(out, r) = Mentioned(out, q)
<1>1. /\ q # <<>> /\ r # <<>>
      /\ \A j \in DOMAIN q : q[j].step \in Steps /\ r[j].step \in Steps
  BY MsgParts DEF MovesOn
<1>2. EventsApart(out, r, accepted, live[o])
  BY DEF Good, EventsApart, MovesOn
<1>3. Unwritten(r) => Unwritten(q) \/ IsPlaced(q[k].event)
  BY DEF Unwritten, MovesOn
<1>4. IsPlaced(q[k].event) => k = 1
  BY DEF Good, PlacedFirst
<1>5. ~Unsent(out)
  BY <1>1 DEF Good, PlacedFirst, Unsent
<1>6. /\ \A e \in out : IsPlaced(e) => e = PlacedEvent(o) /\ r = <<>> /\ accepted = {}
      /\ \A j \in DOMAIN r : IsPlaced(r[j].event) => j = 1 /\ r[j].event = PlacedEvent(o)
  BY <1>5 DEF Good, PlacedFirst, MovesOn, Unsent
<1>7. ~Unwritten(r) => PlacedFirst(o, out, r, accepted)
  BY <1>6 DEF PlacedFirst
<1>8. ASSUME Unwritten(r) => Unwritten(q), k = 1
      PROVE  PlacedFirst(o, out, r, accepted)
  <2>1. Unwritten(r) => \A j \in DOMAIN r : j # 1 => r[j].step \in {"queued", "failed"}
    BY <1>8 DEF Good, PlacedFirst, MovesOn
  <2> QED
    BY <1>6, <2>1 DEF PlacedFirst
<1>9. Mentioned(out, r) = Mentioned(out, q)
  BY <1>1 DEF Mentioned, Cancelled, MovesOn
<1> QED
  BY <1>2, <1>3, <1>4, <1>5, <1>7, <1>8, <1>9

(* The first statement of order_placed.                                     *)
LEMMA FirstPlaced ==
    ASSUME FactsInv, NEW o \in Order, placed[o] # None,
           NEW out, NEW q \in Seq(Msg), NEW r \in Seq(Msg), NEW accepted, NEW rows,
           Good(o, out, q, accepted, fact[o], rows), NEW k \in DOMAIN q, MovesOn(q, r, k),
           IsPlaced(q[k].event), q[k].step = "queued", r[k].step = "second"
    PROVE  Good(o, out, r, accepted, FirstStatement(o, q[k].event), rows)
<1> DEFINE row == FirstStatement(o, q[k].event)
           full == live[o] \union Owed(out, q)
<1>1. k = 1 /\ Unwritten(q) /\ Unwritten(r) /\ q[k].event = PlacedEvent(o)
  BY DEF Good, PlacedFirst, Unwritten, MovesOn
<1>2. ~Unsent(out) /\ EventsApart(out, r, accepted, live[o]) /\ PlacedFirst(o, out, r, accepted)
  BY <1>1, MoveKeeps
<1>3. /\ row = IF fact[o] = NoFact THEN Ledger!NewFact(placed[o]) ELSE fact[o]
      /\ row # NoFact
  <2>1. PlacedEvent(o).day = placed[o] /\ PlacedEvent(o).type = "order_placed"
    BY DEF PlacedEvent, NoEvent
  <2>2. row = IF fact[o] = NoFact THEN Ledger!NewFact(placed[o]) ELSE fact[o]
    BY <1>1, <2>1 DEF FirstStatement, InsertOrderFact, ReportDate
  <2>3. placed[o] \in Day
    BY DEF FactsInv
  <2> QED
    BY <2>2, <2>3, NewFactIsRow
<1>4. /\ Owed(out, r) = Owed(out, q)
      /\ live[o] \union Owed(out, q) = Item
  <2>1. ~IsCancel(q[k].event)
    BY DEF IsPlaced, IsCancel
  <2>2. Owed(out, r) = Owed(out, q)
    BY <2>1 DEF Owed, Cancelled, MovesOn
  <2>3. live[o] \union Mentioned(out, q) = Item
    BY DEF Good, RowsTrue
  <2>4. \A j \in DOMAIN q : IsCancel(q[j].event) => q[j].step \in {"queued", "failed"}
    BY <1>1, <2>1 DEF Good, PlacedFirst
  <2>5. Mentioned(out, q) \subseteq Owed(out, q) /\ Owed(out, q) \subseteq Item
    BY <2>4 DEF Mentioned, Owed, Cancelled
  <2> QED
    BY <2>2, <2>3, <2>5 DEF FactsInv
<1> HIDE DEF row
<1>5. HeadlineTrue(o, out, r, row)
  <2>1. CASE fact[o] # NoFact
    BY <1>3, <1>4, <2>1 DEF Good, HeadlineTrue
  <2>2. CASE fact[o] = NoFact
    <3>1. row.gross = Ledger!Value[Item] /\ row.count = Ledger!Count[Item] /\ row.cancelled = 0 /\ row.day = placed[o]
      BY <1>3, <2>2 DEF Ledger!NewFact
    <3>2. Item \ Item = {}
      OBVIOUS
    <3> QED
      BY <1>4, <3>1, <3>2, Valued DEF HeadlineTrue
  <2> QED
    BY <2>1, <2>2
<1>6. RowsTrue(o, out, r, row, rows)
  <2>1. \A j \in DOMAIN r : r[j].step = "second" => r[j].event.type \in TwoStatements
    BY DEF Good, RowsTrue, MovesOn, IsPlaced, TwoStatements
  <2>2. Mentioned(out, r) = Mentioned(out, q)
    BY MoveKeeps
  <2>3. live[o] \union Mentioned(out, q) = Item
    BY DEF Good, RowsTrue
  <2> QED
    BY <1>1, <1>2, <1>3, <2>1, <2>2, <2>3 DEF RowsTrue
<1>7. PaymentTrue(o, out, r, accepted, row)
  <2>1. Credited(row) <=> Credited(fact[o])
    BY <1>3 DEF Credited, Ledger!NewFact
  <2>2. ~IsPaid(q[k].event)
    BY DEF IsPlaced, IsPaid
  <2> QED
    BY <2>1, <2>2 DEF Good, PaymentTrue, MovesOn
<1> QED
  BY <1>2, <1>5, <1>6, <1>7 DEF Good, row

(* The first statement of a cancellation: its value moves to the cancelled  *)
(* column.                                                                  *)
LEMMA FirstCancel ==
    ASSUME FactsInv, NEW o \in Order, placed[o] # None,
           NEW out, NEW q \in Seq(Msg), NEW r \in Seq(Msg), NEW accepted, NEW rows,
           Good(o, out, q, accepted, fact[o], rows), NEW k \in DOMAIN q, MovesOn(q, r, k),
           IsCancel(q[k].event), q[k].step = "queued", r[k].step = "second", ~Unwritten(q)
    PROVE  Good(o, out, r, accepted, FirstStatement(o, q[k].event), rows)
<1> DEFINE e == q[k].event
           row == FirstStatement(o, e)
           whole == live[o] \union Owed(out, q)
<1>1. ~IsPlaced(e) /\ ~IsPaid(e) /\ ~Unwritten(r)
  <2>1. ~IsPlaced(e) /\ ~IsPaid(e)
    BY DEF IsPlaced, IsPaid, IsCancel
  <2> QED
    BY <2>1, MoveKeeps
<1>2. ~Unsent(out) /\ EventsApart(out, r, accepted, live[o]) /\ PlacedFirst(o, out, r, accepted)
  BY <1>1, MoveKeeps
<1>3. fact[o] # NoFact /\ fact[o] \in FactRow /\ rows = live[o] \union Remaining(out, q)
  BY <1>2 DEF Good, RowsTrue, FactsInv
<1>4. e.items \in SUBSET Item /\ Owed(out, q) \subseteq Item /\ live[o] \subseteq Item
  BY MsgParts DEF Owed, Cancelled, FactsInv
<1>5. e.items \subseteq Owed(out, q) /\ e.items \intersect live[o] = {}
  <2>1. e.items \subseteq Owed(out, q)
    BY <1>4 DEF Owed, Cancelled
  <2>2. e.items \intersect live[o] = {}
    BY DEF Good, EventsApart
  <2> QED
    BY <2>1, <2>2
<1>6. Owed(out, r) = Owed(out, q) \ e.items
  <2>1. ASSUME NEW i \in e.items, NEW d \in out, IsCancel(d)
        PROVE  i \notin d.items
    BY <2>1 DEF Good, EventsApart, Disjoint
  <2>2. ASSUME NEW i \in e.items, NEW j \in DOMAIN q, j # k, IsCancel(q[j].event)
        PROVE  i \notin q[j].event.items
    BY <2>2 DEF Good, EventsApart, Disjoint
  <2>3. \A j \in DOMAIN q : r[j].event = q[j].event /\ (j # k => r[j].step = q[j].step)
    BY DEF MovesOn
  <2>4. DOMAIN r = DOMAIN q
    BY DEF MovesOn
  <2> QED
    BY <2>1, <2>2, <2>3, <2>4 DEF Owed, Cancelled
<1>7. live[o] \union Owed(out, r) = whole \ e.items
  BY <1>5, <1>6
<1>8. Remaining(out, r) = Remaining(out, q)
  BY DEF Remaining, Cancelled, MovesOn
<1>9. /\ row.gross = Ledger!Minus(fact[o].gross, Ledger!Value[e.items])
      /\ row.count = Ledger!Minus(fact[o].count, Ledger!Count[e.items])
      /\ row.cancelled = fact[o].cancelled + Ledger!Value[e.items]
      /\ row.day = fact[o].day /\ row.paid = fact[o].paid
  <2>1. row = ApplyCancellation(o, e)
    BY DEF FirstStatement, IsCancel
  <2> QED
    BY <1>3, <2>1 DEF ApplyCancellation, FactRow
<1>10. row # NoFact
  <2>1. e \in SoundEvent
    BY MsgParts
  <2> QED
    BY <1>3, <2>1, FirstIsRow, ReportingAssumption
<1> HIDE DEF row
<1>11. HeadlineTrue(o, out, r, row)
  <2>1. /\ fact[o].gross = Ledger!Value[whole] /\ fact[o].count = Ledger!Count[whole]
        /\ fact[o].cancelled = Ledger!Value[Item \ whole] /\ fact[o].day = placed[o]
    BY <1>3 DEF Good, HeadlineTrue
  <2>2. whole \in SUBSET Item /\ e.items \in SUBSET whole
    BY <1>4, <1>5
  <2> HIDE DEF whole, e
  <2>3. /\ Ledger!Minus(Ledger!Value[whole], Ledger!Value[e.items]) = Ledger!Value[whole \ e.items]
        /\ Ledger!Minus(Ledger!Count[whole], Ledger!Count[e.items]) = Ledger!Count[whole \ e.items]
        /\ Ledger!Value[Item \ whole] + Ledger!Value[e.items] = Ledger!Value[Item \ (whole \ e.items)]
    BY <2>2, Subtracted
  <2> QED
    BY <1>7, <1>9, <2>1, <2>3 DEF HeadlineTrue
<1>12. RowsTrue(o, out, r, row, rows)
  <2>1. \A j \in DOMAIN r : r[j].step = "second" => r[j].event.type \in TwoStatements
    BY DEF Good, RowsTrue, MovesOn, IsCancel, TwoStatements
  <2>2. Mentioned(out, r) = Mentioned(out, q)
    BY MoveKeeps
  <2>3. (\E j \in DOMAIN r : IsPlaced(r[j].event)) => live[o] \union Mentioned(out, q) = Item
    BY DEF Good, RowsTrue, MovesOn
  <2> QED
    BY <1>2, <1>3, <1>8, <1>10, <2>1, <2>2, <2>3 DEF RowsTrue
<1>13. PaymentTrue(o, out, r, accepted, row)
  <2>1. Credited(row) <=> Credited(fact[o])
    BY <1>3, <1>9, <1>10 DEF Credited
  <2> QED
    BY <1>1, <2>1 DEF Good, PaymentTrue, MovesOn
<1> QED
  BY <1>2, <1>11, <1>12, <1>13 DEF Good, row

(* The only statement of a payment or of the waiter's assignment.           *)
LEMMA FirstOther ==
    ASSUME FactsInv, NEW o \in Order, placed[o] # None,
           NEW out, NEW q \in Seq(Msg), NEW r \in Seq(Msg), NEW accepted, NEW rows,
           Good(o, out, q, accepted, fact[o], rows), NEW k \in DOMAIN q, MovesOn(q, r, k),
           ~IsPlaced(q[k].event), ~IsCancel(q[k].event), q[k].step = "queued", r[k].step = "ok", ~Unwritten(q)
    PROVE  Good(o, out, r, accepted, FirstStatement(o, q[k].event), rows)
<1> DEFINE e == q[k].event
           row == FirstStatement(o, e)
<1>1. ~Unwritten(r)
  BY MoveKeeps
<1>2. ~Unsent(out) /\ EventsApart(out, r, accepted, live[o]) /\ PlacedFirst(o, out, r, accepted)
  BY <1>1, MoveKeeps
<1>3. fact[o] # NoFact /\ fact[o] \in FactRow /\ rows = live[o] \union Remaining(out, q)
  BY <1>2 DEF Good, RowsTrue, FactsInv
<1>4. /\ row.gross = fact[o].gross /\ row.count = fact[o].count
      /\ row.cancelled = fact[o].cancelled /\ row.day = fact[o].day
      /\ row.paid = (fact[o].paid \/ IsPaid(e))
  <2>1. CASE IsPaid(e)
    <3>1. row = [fact[o] EXCEPT !.paid = TRUE]
      BY <1>3, <2>1 DEF FirstStatement, UpdatePaid, IsPaid
    <3> QED
      BY <1>3, <2>1, <3>1 DEF FactRow
  <2>2. CASE ~IsPaid(e)
    <3>1. e.type = "order_waiter_assigned"
      <4>1. e \in SoundEvent
        BY MsgParts
      <4> QED
        BY <2>2, <4>1 DEF SoundEvent, EventShape, IsPaid, IsPlaced, IsCancel
    <3>2. row = [fact[o] EXCEPT !.waiter = e.waiter]
      BY <1>3, <3>1 DEF FirstStatement, UpdateWaiter
    <3> QED
      BY <1>3, <2>2, <3>2 DEF FactRow
  <2> QED
    BY <2>1, <2>2
<1>5. row # NoFact
  <2>1. e \in SoundEvent
    BY MsgParts
  <2> QED
    BY <1>3, <2>1, FirstIsRow, ReportingAssumption
<1> HIDE DEF row
<1>6. Owed(out, r) = Owed(out, q) /\ Remaining(out, r) = Remaining(out, q) /\ Mentioned(out, r) = Mentioned(out, q)
  <2>1. Owed(out, r) = Owed(out, q)
    BY DEF Owed, Cancelled, MovesOn
  <2>2. Remaining(out, r) = Remaining(out, q)
    BY DEF Remaining, Cancelled, MovesOn
  <2>3. Mentioned(out, r) = Mentioned(out, q)
    BY MoveKeeps
  <2> QED
    BY <2>1, <2>2, <2>3
<1>7. HeadlineTrue(o, out, r, row)
  BY <1>3, <1>4, <1>6 DEF Good, HeadlineTrue
<1>8. RowsTrue(o, out, r, row, rows)
  <2>1. \A j \in DOMAIN r : r[j].step = "second" => r[j].event.type \in TwoStatements
    BY DEF Good, RowsTrue, MovesOn
  <2>2. (\E j \in DOMAIN r : IsPlaced(r[j].event)) => live[o] \union Mentioned(out, q) = Item
    BY DEF Good, RowsTrue, MovesOn
  <2> QED
    BY <1>2, <1>3, <1>5, <1>6, <2>1, <2>2 DEF RowsTrue
<1>9. PaymentTrue(o, out, r, accepted, row)
  <2>1. Credited(row) <=> Credited(fact[o]) \/ IsPaid(e)
    BY <1>3, <1>4, <1>5 DEF Credited
  <2>2. IsPaid(e) => payments[o] > 0
    BY DEF Good, PaymentTrue
  <2>3. CASE IsPaid(e)
    BY <2>1, <2>2, <2>3 DEF PaymentTrue
  <2>4. CASE ~IsPaid(e)
    BY <2>1, <2>4 DEF Good, PaymentTrue, MovesOn
  <2> QED
    BY <2>3, <2>4
<1> QED
  BY <1>2, <1>7, <1>8, <1>9 DEF Good, row

(* The second statement writes the rows of what was placed, or deletes      *)
(* those of what was cancelled.                                             *)
LEMMA SecondDone ==
    ASSUME FactsInv, NEW o \in Order, NEW out, NEW q \in Seq(Msg), NEW r \in Seq(Msg), NEW accepted, NEW row,
           Good(o, out, q, accepted, row, lines[o]), NEW k \in DOMAIN q, MovesOn(q, r, k),
           q[k].step = "second", r[k].step = "ok"
    PROVE  Good(o, out, r, accepted, row, SecondStatement(o, q[k].event))
<1> DEFINE e == q[k].event
           rows == SecondStatement(o, e)
<1>1. e.items \in SUBSET Item /\ live[o] \in SUBSET Item /\ lines[o] \in SUBSET Item
  BY MsgParts DEF FactsInv
<1>2. e.type \in TwoStatements
  BY DEF Good, RowsTrue
<1>3. ~IsPaid(e)
  BY <1>2 DEF TwoStatements, IsPaid
<1>4. ~Unwritten(r)
  <2>1. SUFFICES ASSUME NEW j \in DOMAIN r, IsPlaced(r[j].event), r[j].step # "ok" PROVE FALSE
    BY DEF Unwritten
  <2>2. j # k
    BY <2>1
  <2>3. j \in DOMAIN q /\ IsPlaced(q[j].event) /\ q[j].step # "ok"
    BY <2>1, <2>2 DEF MovesOn
  <2>4. Unwritten(q) /\ j = 1
    BY <2>3 DEF Unwritten, Good, PlacedFirst
  <2> QED
    BY <2>2, <2>4 DEF Good, PlacedFirst
<1>5. ~Unsent(out) /\ EventsApart(out, r, accepted, live[o]) /\ PlacedFirst(o, out, r, accepted)
  BY <1>4, MoveKeeps
<1>6. Owed(out, r) = Owed(out, q)
  BY DEF Owed, Cancelled, MovesOn
<1>7. Mentioned(out, r) = Mentioned(out, q)
  BY MoveKeeps
<1>8. HeadlineTrue(o, out, r, row)
  BY <1>6 DEF Good, HeadlineTrue
<1>9. row # NoFact /\ rows = live[o] \union Remaining(out, r)
  <2>1. CASE IsPlaced(e)
    <3>1. k = 1 /\ e = PlacedEvent(o) /\ row # NoFact /\ Unwritten(q)
      BY <2>1 DEF Good, PlacedFirst, RowsTrue, Unwritten
    <3>2. e.items = Item
      BY <3>1 DEF PlacedEvent, NoEvent
    <3>3. rows = Item
      BY <1>1, <2>1, <3>2 DEF SecondStatement, IsPlaced
    <3>4. live[o] \union Mentioned(out, q) = Item
      BY <2>1 DEF Good, RowsTrue
    <3>5. ~IsCancel(e)
      BY <2>1 DEF IsPlaced, IsCancel
    <3>6. \A j \in DOMAIN q : IsCancel(q[j].event) => j # k /\ q[j].step \in {"queued", "failed"}
      BY <3>1, <3>5 DEF Good, PlacedFirst
    <3>7. Mentioned(out, q) = Remaining(out, r)
      BY <3>6 DEF Mentioned, Remaining, Cancelled, MovesOn, Steps
    <3> QED
      BY <3>1, <3>3, <3>4, <3>7
  <2>2. CASE ~IsPlaced(e)
    <3>1. IsCancel(e)
      BY <1>2, <2>2 DEF TwoStatements, IsPlaced, IsCancel
    <3>2. ~Unwritten(q)
      <4>1. SUFFICES ASSUME Unwritten(q) PROVE FALSE
        OBVIOUS
      <4>2. k # 1
        BY <2>2, <4>1 DEF Good, PlacedFirst, Unwritten
      <4> QED
        BY <4>1, <4>2 DEF Good, PlacedFirst
    <3>3. row # NoFact /\ lines[o] = live[o] \union Remaining(out, q)
      BY <1>5, <3>2 DEF Good, RowsTrue
    <3>4. rows = lines[o] \ e.items
      BY <2>2 DEF SecondStatement, IsPlaced
    <3>5. e.items \intersect live[o] = {}
      BY <3>1 DEF Good, EventsApart
    <3>6. Remaining(out, r) = Remaining(out, q) \ e.items
      <4>1. ASSUME NEW i \in e.items, NEW d \in out, IsCancel(d)
            PROVE  i \notin d.items
        BY <3>1, <4>1 DEF Good, EventsApart, Disjoint
      <4>2. ASSUME NEW i \in e.items, NEW j \in DOMAIN q, j # k, IsCancel(q[j].event)
            PROVE  i \notin q[j].event.items
        BY <3>1, <4>2 DEF Good, EventsApart, Disjoint
      <4>3. \A j \in DOMAIN q : r[j].event = q[j].event /\ (j # k => r[j].step = q[j].step)
        BY DEF MovesOn
      <4>4. DOMAIN r = DOMAIN q
        BY DEF MovesOn
      <4> QED
        BY <4>1, <4>2, <4>3, <4>4 DEF Remaining, Cancelled
    <3> QED
      BY <3>3, <3>4, <3>5, <3>6
  <2> QED
    BY <2>1, <2>2
<1> HIDE DEF rows
<1>10. RowsTrue(o, out, r, row, rows)
  <2>1. \A j \in DOMAIN r : r[j].step = "second" => r[j].event.type \in TwoStatements
    BY DEF Good, RowsTrue, MovesOn
  <2>2. (\E j \in DOMAIN r : IsPlaced(r[j].event)) => live[o] \union Mentioned(out, q) = Item
    BY DEF Good, RowsTrue, MovesOn
  <2> QED
    BY <1>5, <1>7, <1>9, <2>1, <2>2 DEF RowsTrue
<1>11. PaymentTrue(o, out, r, accepted, row)
  BY <1>3 DEF Good, PaymentTrue, MovesOn
<1> QED
  BY <1>5, <1>8, <1>10, <1>11 DEF Good, rows

-----------------------------------------------------------------------------
(* Enqueueing *)

(* The outbox after an event has left it: the waiter's assignment may be    *)
(* next.                                                                    *)
Leaves(out, e, after) ==
    /\ out \ {e} \subseteq after
    /\ \A d \in after : d \notin out \ {e} => d.type = "order_waiter_assigned"

LEMMA OutboxLeaves ==
    ASSUME NEW o \in Order, NEW e \in outbox[o], NEW after \in OutboxAfter(o, e)
    PROVE  Leaves(outbox[o], e, after)
<1>1. \A w \in Waiter : AssignedEvent(w).type = "order_waiter_assigned"
  BY DEF AssignedEvent, NoEvent
<1>2. CASE e.type = "order_placed"
  BY <1>1, <1>2 DEF OutboxAfter, Leaves
<1>3. CASE e.type # "order_placed"
  BY <1>3 DEF OutboxAfter, Leaves
<1> QED
  BY <1>2, <1>3

LEMMA Appended ==
    ASSUME NEW o \in Order, NEW out \in SUBSET SoundEvent, NEW q \in Seq(Msg), NEW accepted, NEW row, NEW rows,
           Good(o, out, q, accepted, row, rows), NEW e \in out, NEW after, Leaves(out, e, after),
           NEW m \in Msg, m.event = e, m.step = "queued", \A p \in out : IsPlaced(p) => p = e
    PROVE  Good(o, after, Append(q, m), accepted \union {Body(e)}, row, rows)
<1> DEFINE r == Append(q, m)
           n == Len(q)
           also == accepted \union {Body(e)}
<1>1. /\ n \in Nat /\ DOMAIN q = 1 .. n /\ DOMAIN r = 1 .. n + 1 /\ n + 1 \in DOMAIN r
      /\ r[n + 1] = m /\ \A k \in DOMAIN q : r[k] = q[k] /\ k \in DOMAIN r /\ k # n + 1
      /\ \A k \in DOMAIN r : k = n + 1 \/ k \in DOMAIN q
  OBVIOUS
<1>2. /\ \A d \in after : d \in out \/ (~IsPlaced(d) /\ ~IsPaid(d) /\ ~IsCancel(d))
      /\ \A d \in out : d = e \/ d \in after
      /\ \A d \in after : IsPlaced(d) \/ IsPaid(d) \/ IsCancel(d) => d # e
  BY DEF Leaves, IsPlaced, IsPaid, IsCancel
<1>3. e \in SoundEvent /\ Body(e).type = e.type /\ Body(e).items = e.items
  BY BodySound
<1>4. ~Unsent(after)
  BY <1>2 DEF Unsent
<1> HIDE DEF r, n, also
<1>5. \A steps : "queued" \in steps => Cancelled(after, r, steps) = Cancelled(out, q, steps)
  <2> SUFFICES ASSUME NEW steps, "queued" \in steps
               PROVE  Cancelled(after, r, steps) = Cancelled(out, q, steps)
    OBVIOUS
  <2>1. ASSUME NEW i \in Cancelled(after, r, steps)
        PROVE  i \in Cancelled(out, q, steps)
    BY <1>1, <1>2 DEF Cancelled
  <2>2. ASSUME NEW i \in Cancelled(out, q, steps)
        PROVE  i \in Cancelled(after, r, steps)
    BY <1>1, <1>2 DEF Cancelled
  <2> QED
    BY <2>1, <2>2
<1>6. Owed(after, r) = Owed(out, q) /\ Remaining(after, r) = Remaining(out, q) /\ Mentioned(after, r) = Mentioned(out, q)
  BY <1>5 DEF Owed, Remaining, Mentioned, Steps
<1>7. EventsApart(after, r, also, live[o])
  <2>1. \A d, f \in after : d # f => Disjoint(d, f)
    BY <1>2 DEF Good, EventsApart, Disjoint
  <2>2. \A d \in after, k \in DOMAIN r : Disjoint(d, r[k].event)
    BY <1>1, <1>2 DEF Good, EventsApart, Disjoint
  <2>3. \A d \in after, f \in also : Disjoint(d, f)
    <3>1. ASSUME NEW d \in after, NEW f \in accepted
          PROVE  Disjoint(d, f)
      BY <1>2 DEF Good, EventsApart, Disjoint
    <3>2. ASSUME NEW d \in after
          PROVE  Disjoint(d, Body(e))
      BY <1>2, <1>3 DEF Good, EventsApart, Disjoint, IsCancel
    <3> QED
      BY <3>1, <3>2 DEF also
  <2>4. \A j, k \in DOMAIN r : j # k => Disjoint(r[j].event, r[k].event)
    <3>1. \A j, k \in DOMAIN q : j # k => Disjoint(q[j].event, q[k].event)
      BY DEF Good, EventsApart
    <3>2. \A k \in DOMAIN q : Disjoint(e, q[k].event) /\ Disjoint(q[k].event, e)
      BY DEF Good, EventsApart, Disjoint
    <3> QED
      BY <1>1, <3>1, <3>2
  <2>5. \A f \in after \union also : IsCancel(f) => f.items \intersect live[o] = {}
    BY <1>2, <1>3 DEF Good, EventsApart, also, IsCancel
  <2>6. \A k \in DOMAIN r : IsCancel(r[k].event) => r[k].event.items \intersect live[o] = {}
    BY <1>1 DEF Good, EventsApart
  <2> QED
    BY <2>1, <2>2, <2>3, <2>4, <2>5, <2>6 DEF EventsApart
<1>8. PlacedFirst(o, after, r, also)
  <2>1. IsPlaced(e) => e = PlacedEvent(o) /\ n = 0
    BY DEF Good, PlacedFirst, n
  <2>2. \A k \in DOMAIN r : IsPlaced(r[k].event) => k = 1 /\ r[k].event = PlacedEvent(o)
    BY <1>1, <2>1 DEF Good, PlacedFirst
  <2>3. ASSUME Unwritten(r), NEW k \in DOMAIN r, k # 1
        PROVE  r[k].step \in {"queued", "failed"}
    <3>1. CASE k = n + 1
      BY <1>1, <3>1
    <3>2. CASE k \in DOMAIN q
      <4>1. ~IsPlaced(e)
        BY <1>1, <2>1, <3>2
      <4>2. Unwritten(q)
        BY <1>1, <2>3, <4>1 DEF Unwritten
      <4> QED
        BY <1>1, <2>3, <3>2, <4>2 DEF Good, PlacedFirst
    <3> QED
      BY <1>1, <3>1, <3>2
  <2> QED
    BY <1>4, <2>2, <2>3 DEF PlacedFirst, Unsent
<1>9. HeadlineTrue(o, after, r, row)
  BY <1>6 DEF Good, HeadlineTrue
<1>10. RowsTrue(o, after, r, row, rows)
  <2>1. \A k \in DOMAIN r : IsPlaced(r[k].event) /\ r[k].step \in {"second", "ok"} => row # NoFact
    BY <1>1 DEF Good, RowsTrue
  <2>2. \A k \in DOMAIN r : r[k].step = "second" => r[k].event.type \in TwoStatements
    BY <1>1 DEF Good, RowsTrue
  <2>3. (\E k \in DOMAIN r : IsPlaced(r[k].event)) => live[o] \union Mentioned(after, r) = Item
    <3>1. (\E k \in DOMAIN r : IsPlaced(r[k].event)) => Unsent(out) \/ (\E k \in DOMAIN q : IsPlaced(q[k].event))
      BY <1>1 DEF Unsent
    <3> QED
      BY <1>6, <3>1 DEF Good, RowsTrue
  <2>4. ~Unwritten(r) => ~Unwritten(q) /\ ~Unsent(out)
    BY <1>1 DEF Unwritten, Unsent
  <2> QED
    BY <1>4, <1>6, <2>1, <2>2, <2>3, <2>4 DEF Good, RowsTrue
<1>11. PaymentTrue(o, after, r, also, row)
  <2>1. (\E k \in DOMAIN q : IsPaid(q[k].event) /\ q[k].step # "ok") \/ IsPaid(e)
           <=> \E k \in DOMAIN r : IsPaid(r[k].event) /\ r[k].step # "ok"
    BY <1>1
  <2>2. (\E k \in DOMAIN r : IsPaid(r[k].event)) => IsPaid(e) \/ \E k \in DOMAIN q : IsPaid(q[k].event)
    BY <1>1
  <2>3. \A k \in DOMAIN r : IsPaid(r[k].event) /\ r[k].step = "ok" => Credited(row)
    BY <1>1 DEF Good, PaymentTrue
  <2>4. (\E d \in out : IsPaid(d)) <=> IsPaid(e) \/ \E d \in after : IsPaid(d)
    BY <1>2
  <2>5. \A d \in also : IsPaid(d) => d \in accepted \/ IsPaid(e)
    BY <1>3 DEF also, IsPaid
  <2> QED
    BY <2>1, <2>2, <2>3, <2>4, <2>5 DEF Good, PaymentTrue
<1> QED
  BY <1>7, <1>8, <1>9, <1>10, <1>11 DEF Good, r, also

(* What the queue has accepted before is not queued again, and need not be. *)
LEMMA Deduplicated ==
    ASSUME NEW o \in Order, NEW out \in SUBSET SoundEvent, NEW q \in Seq(Msg), NEW accepted, NEW row, NEW rows,
           Good(o, out, q, accepted, row, rows), NEW e \in out, NEW after, Leaves(out, e, after),
           Body(e) \in accepted
    PROVE  Good(o, after, q, accepted, row, rows)
<1>1. e \in SoundEvent /\ Body(e).type = e.type /\ Body(e).items = e.items
  BY BodySound
<1>2. ~IsPlaced(e)
  BY DEF Good, PlacedFirst
<1>3. ~IsCancel(e)
  <2>1. SUFFICES ASSUME IsCancel(e) PROVE FALSE
    OBVIOUS
  <2>2. e.items # {}
    BY <1>1, <2>1 DEF SoundEvent, IsCancel
  <2>3. Disjoint(e, Body(e))
    BY DEF Good, EventsApart
  <2> QED
    BY <1>1, <2>1, <2>2, <2>3 DEF Disjoint, IsCancel
<1>4. /\ \A d \in after : d \in out \/ (~IsPlaced(d) /\ ~IsPaid(d) /\ ~IsCancel(d))
      /\ \A d \in out : d = e \/ d \in after
  BY DEF Leaves, IsPlaced, IsPaid, IsCancel
<1>5. Unsent(after) <=> Unsent(out)
  BY <1>2, <1>4 DEF Unsent
<1>6. Owed(after, q) = Owed(out, q) /\ Remaining(after, q) = Remaining(out, q) /\ Mentioned(after, q) = Mentioned(out, q)
  BY <1>3, <1>4 DEF Owed, Remaining, Mentioned, Cancelled
<1>7. EventsApart(after, q, accepted, live[o])
  BY <1>4 DEF Good, EventsApart, Disjoint
<1>8. PlacedFirst(o, after, q, accepted)
  BY <1>4 DEF Good, PlacedFirst
<1>9. HeadlineTrue(o, after, q, row) /\ RowsTrue(o, after, q, row, rows)
  BY <1>5, <1>6 DEF Good, HeadlineTrue, RowsTrue
<1>10. PaymentTrue(o, after, q, accepted, row)
  <2>1. IsPaid(e) => (\E k \in DOMAIN q : IsPaid(q[k].event) /\ q[k].step # "ok") \/ Credited(row)
    BY <1>1 DEF Good, PaymentTrue, IsPaid
  <2>2. (\E d \in out : IsPaid(d)) => IsPaid(e) \/ \E d \in after : IsPaid(d)
    BY <1>4
  <2>3. (\E d \in after : IsPaid(d)) => \E d \in out : IsPaid(d)
    BY <1>4
  <2> QED
    BY <2>1, <2>2, <2>3 DEF Good, PaymentTrue
<1> QED
  BY <1>7, <1>8, <1>9, <1>10 DEF Good

-----------------------------------------------------------------------------
(* Delivery and the facts *)

LEMMA IncreasingIsAll ==
    ASSUME NEW n \in Nat, NEW S \in SUBSET (1 .. n)
    PROVE  /\ \A i, j \in 1 .. Cardinality(S) : i < j => Increasing(S)[i] < Increasing(S)[j]
           /\ \A i, j \in 1 .. Cardinality(S) : i # j => Increasing(S)[i] # Increasing(S)[j]
           /\ \A k \in S : \E i \in 1 .. Cardinality(S) : Increasing(S)[i] = k
<1> DEFINE c == Cardinality(S)
           f == Increasing(S)
           In(h) == \A i, j \in 1 .. Cardinality(S) : i < j => h[i] < h[j]
<1>1. IsFiniteSet(S) /\ c \in Nat
  BY Small
<1>2. f \in [1 .. c -> S]
  BY IncreasingIsIn
<1>3. \A i, j \in 1 .. c : i < j => f[i] < f[j]
  <2>1. \E h \in [1 .. Cardinality(S) -> S] : In(h)
    BY AllOrderable DEF Orderable
  <2>2. f = CHOOSE h \in [1 .. Cardinality(S) -> S] : In(h)
    BY DEF Increasing
  <2>3. In(f)
    <3> HIDE DEF In, f
    <3> QED
      BY <2>1, <2>2
  <2> QED
    BY <2>3
<1> HIDE DEF f, c
<1>4. \A i \in 1 .. c : f[i] \in Nat
  <2>1. \A x \in S : x \in Nat
    OBVIOUS
  <2> QED
    BY <1>2, <2>1
<1>5. \A i, j \in 1 .. c : i # j => f[i] # f[j]
  <2> SUFFICES ASSUME NEW i \in 1 .. c, NEW j \in 1 .. c, i # j
               PROVE  f[i] # f[j]
    OBVIOUS
  <2>1. f[i] \in Nat /\ f[j] \in Nat
    BY <1>4
  <2>2. CASE i < j
    BY <1>3, <2>1, <2>2
  <2>3. CASE j < i
    BY <1>3, <2>1, <2>3
  <2> QED
    BY <1>1, <2>2, <2>3
<1>6. f \in Injection(1 .. c, S)
  BY <1>2, <1>5, Zenon DEF Injection, IsInjective
<1>7. Cardinality(1 .. c) = c
  BY <1>1, FS_Interval
<1>8. f \in Surjection(1 .. c, S)
  BY <1>1, <1>6, <1>7, FS_Injection DEF c
<1>9. \A k \in S : \E i \in 1 .. c : f[i] = k
  BY <1>8 DEF Surjection
<1> QED
  BY <1>3, <1>5, <1>9 DEF f, c

(* The end of a batch: what was handled goes, what failed waits again.      *)
LEMMA BatchKept ==
    ASSUME LedgerInv, TurnInv, NEW o \in Order, EndBatch(o), NEW out, NEW accepted, NEW row, NEW rows,
           Good(o, out, queue[o], accepted, row, rows)
    PROVE  Good(o, out, KeepFailed(o), accepted, row, rows)
<1> DEFINE q == queue[o]
           kept == {k \in DOMAIN q : q[k].step # "ok"}
           nth == Increasing(kept)
           c == Cardinality(kept)
           mid == [n \in 1 .. c |-> q[nth[n]]]
           r == KeepFailed(o)
<1>1. q \in Seq(Msg) /\ Len(q) \in Nat /\ DOMAIN q = 1 .. Len(q)
  BY DEF LedgerInv
<1>2. kept \in SUBSET (1 .. Len(q)) /\ \A k \in kept : k \in DOMAIN q /\ q[k].step # "ok"
  BY <1>1
<1>3. \A k \in DOMAIN q : q[k].step # "ok" => k \in kept
  OBVIOUS
<1>4. r = [n \in 1 .. c |-> [q[nth[n]] EXCEPT !.step = "queued"]] /\ r \in Seq(Msg)
  BY KeptType DEF KeepFailed
<1>5. /\ nth \in [1 .. c -> kept] /\ c \in Nat
      /\ \A i, j \in 1 .. c : i < j => nth[i] < nth[j]
      /\ \A i, j \in 1 .. c : i # j => nth[i] # nth[j]
      /\ \A k \in kept : \E i \in 1 .. c : nth[i] = k
  <2> HIDE DEF kept, q
  <2> QED
    BY <1>1, <1>2, IncreasingIsIn, IncreasingIsAll
<1>6. \A k \in kept : q[k].step \in {"queued", "failed"}
  <2>1. \A k \in 1 .. batch[o] : q[k].step \in {"ok", "failed"}
    BY DEF EndBatch
  <2>2. batch[o] > 0 /\ batch[o] \in Nat /\ InTurn(o)
    BY DEF EndBatch, TurnInv
  <2>3. GroupInTurn(q, batch[o])
    BY <2>2 DEF InTurn, ChainInTurn
  <2>4. ASSUME NEW k \in kept, q[k].step # "queued"
        PROVE  q[k].step = "failed"
    <3>1. k \in 1 .. batch[o]
      BY <1>1, <2>2, <2>3, <2>4 DEF GroupInTurn
    <3> QED
      BY <2>1, <3>1
  <2> QED
    BY <2>4
<1> HIDE DEF kept, nth, c, q, r
<1>7. /\ mid \in Seq(Msg) /\ DOMAIN mid = 1 .. c
      /\ nth \in [DOMAIN mid -> DOMAIN q]
      /\ \A n \in 1 .. c : mid[n] = q[nth[n]] /\ nth[n] \in kept /\ nth[n] \in DOMAIN q /\ nth[n] \in Nat /\ nth[n] >= 1
  <2>1. \A n \in 1 .. c : nth[n] \in kept /\ nth[n] \in DOMAIN q /\ q[nth[n]] \in Msg
    <3>1. \A k \in DOMAIN q : q[k] \in Msg
      BY <1>1
    <3>2. \A n \in 1 .. c : nth[n] \in kept
      BY <1>5
    <3> QED
      BY <1>2, <3>1, <3>2
  <2>2. mid \in [1 .. c -> Msg]
    BY <2>1
  <2>3. mid \in Seq(Msg) /\ DOMAIN mid = 1 .. c
    <3> HIDE DEF mid
    <3> QED
      BY <1>5, <2>2
  <2>4. nth \in [1 .. c -> DOMAIN q]
    BY <1>5, <2>1
  <2>5. \A n \in 1 .. c : nth[n] \in Nat /\ nth[n] >= 1
    BY <1>1, <2>1
  <2> QED
    BY <2>1, <2>3, <2>4, <2>5
<1> HIDE DEF mid
<1>8. \A n \in DOMAIN mid : nth[n] = 1 => n = 1
  <2> SUFFICES ASSUME NEW n \in 1 .. c, nth[n] = 1, n # 1 PROVE FALSE
    BY <1>7
  <2>1. 1 \in 1 .. c /\ 1 < n
    BY <1>5
  <2>2. nth[1] < nth[n]
    BY <1>5, <2>1
  <2> QED
    BY <1>7, <2>1, <2>2
<1>9. Good(o, out, mid, accepted, row, rows)
  <2>1. \A m, n \in DOMAIN mid : m # n => nth[m] # nth[n]
    BY <1>5, <1>7
  <2>2. \A n \in DOMAIN mid : mid[n].event = q[nth[n]].event /\ mid[n].step = q[nth[n]].step /\ q[nth[n]].step # "ok"
    BY <1>2, <1>7
  <2>3. \A k \in DOMAIN q : q[k].step # "ok" => \E n \in DOMAIN mid : nth[n] = k
    BY <1>3, <1>5, <1>7
  <2>4. Good(o, out, q, accepted, row, rows)
    BY DEF q
  <2>5. q \in Seq(Msg) /\ mid \in Seq(Msg) /\ nth \in [DOMAIN mid -> DOMAIN q]
    BY <1>1, <1>7
  <2>6. Picks(q, mid, nth)
    BY <1>8, <2>1, <2>2, <2>3, <2>5 DEF Picks
  <2> QED
    BY <2>4, <2>5, <2>6, Compacted
<1>10. Good(o, out, r, accepted, row, rows)
  <2>1. DOMAIN r = DOMAIN mid
    BY <1>4, <1>7
  <2>2. \A n \in DOMAIN mid : r[n].event = mid[n].event /\ r[n].step = "queued" /\ mid[n].step \in {"queued", "failed"}
    <3> TAKE n \in DOMAIN mid
    <3>1. n \in 1 .. c /\ nth[n] \in kept /\ nth[n] \in DOMAIN q /\ mid[n] = q[nth[n]]
      BY <1>7
    <3>2. q[nth[n]] \in Msg
      BY <1>1, <3>1
    <3>3. r[n] = [q[nth[n]] EXCEPT !.step = "queued"]
      BY <1>4, <3>1
    <3> QED
      BY <1>6, <3>1, <3>2, <3>3, Marked
  <2>3. mid \in Seq(Msg) /\ r \in Seq(Msg)
    BY <1>4, <1>7
  <2>4. \A n \in DOMAIN mid : IsCancel(mid[n].event) => mid[n].step \notin {"second", "ok"}
    BY <2>2
  <2>5. \A n \in DOMAIN mid : n # 1 => r[n].step \in {"queued", "failed"}
    BY <2>2
  <2>6. \A n \in DOMAIN mid : r[n].event = mid[n].event /\ r[n].step \in {"queued", "failed"}
    BY <2>2
  <2> QED
    BY <1>9, <2>1, <2>3, <2>4, <2>5, <2>6, SetBack
<1> QED
  BY <1>10 DEF r

(* A handled message is marked, or leaves the chain.                        *)
LEMMA HandledGood ==
    ASSUME LedgerInv, TurnInv, NEW o \in Order, NEW k \in DOMAIN queue[o], Handled(o, k),
           Startable(o, k) \/ queue[o][k].step = "second", NEW out, NEW accepted, NEW row, NEW rows,
           \A r \in Seq(Msg) : MovesOn(queue[o], r, k) /\ r[k].step = "ok" => Good(o, out, r, accepted, row, rows)
    PROVE  Good(o, out, queue'[o], accepted, row, rows)
<1> DEFINE q == queue[o]
           m == [q[k] EXCEPT !.step = "ok"]
           r == [q EXCEPT ![k] = m]
<1>1. q \in Seq(Msg) /\ Len(q) \in Nat /\ DOMAIN q = 1 .. Len(q) /\ q[k] \in Msg
  BY DEF LedgerInv
<1>2. m \in Msg /\ m.step = "ok" /\ m.event = q[k].event
  BY <1>1, Marked
<1> HIDE DEF m
<1>3. /\ r \in Seq(Msg) /\ DOMAIN r = DOMAIN q /\ Len(r) = Len(q)
      /\ r[k] = m /\ \A j \in DOMAIN q : j # k => r[j] = q[j]
  BY <1>1, <1>2
<1>4. MovesOn(q, r, k) /\ r[k].step = "ok"
  <2> HIDE DEF r
  <2> QED
    BY <1>2, <1>3 DEF MovesOn
<1>5. Good(o, out, r, accepted, row, rows)
  BY <1>3, <1>4
<1>6. CASE kind = "sqs"
  <2>1. queue'[o] = r
    BY <1>6 DEF Handled, SetStep, m, LedgerInv
  <2> QED
    BY <1>5, <2>1
<1>7. CASE kind # "sqs"
  <2> DEFINE s == WithoutMessage(q, 1)
             g == [n \in 1 .. Len(q) - 1 |-> n + 1]
  <2>1. k = 1
    BY <1>7, ChainStarts
  <2>2. queue'[o] = s
    BY <1>7, <2>1 DEF Handled, LedgerInv
  <2>3. ChainInTurn(q, batch[o], tail[o])
    BY <1>7 DEF TurnInv, InTurn
  <2>4. /\ s \in Seq(Msg) /\ DOMAIN s = 1 .. Len(q) - 1 /\ Len(q) - 1 \in Nat
        /\ \A n \in 1 .. Len(q) - 1 : s[n] = q[n + 1] /\ n + 1 \in DOMAIN q
    BY <1>1, <2>1, WithoutFirst
  <2> HIDE DEF s, r, q
  <2>5. /\ g \in [DOMAIN s -> DOMAIN r]
        /\ \A n \in DOMAIN s : g[n] = n + 1
    BY <1>3, <2>4
  <2> HIDE DEF g
  <2>6. \A i, n \in DOMAIN s : i # n => g[i] # g[n]
    BY <2>4, <2>5
  <2>7. \A n \in DOMAIN s : g[n] # 1 /\ g[n] \in DOMAIN q
    BY <2>4, <2>5
  <2>8. \A n \in DOMAIN s : s[n].event = r[g[n]].event /\ s[n].step = r[g[n]].step /\ r[g[n]].step # "ok"
    <3> TAKE n \in DOMAIN s
    <3>1. g[n] = n + 1 /\ g[n] # k /\ g[n] \in DOMAIN q /\ s[n] = q[g[n]]
      BY <2>1, <2>4, <2>5, <2>7
    <3>2. r[g[n]] = q[g[n]] /\ q[g[n]].step = "queued"
      BY <1>3, <2>1, <2>3, <3>1 DEF ChainInTurn
    <3> QED
      BY <3>1, <3>2
  <2>9. \A j \in DOMAIN r : r[j].step # "ok" => \E n \in DOMAIN s : g[n] = j
    <3> SUFFICES ASSUME NEW j \in DOMAIN r, r[j].step # "ok"
                 PROVE  \E n \in DOMAIN s : g[n] = j
      OBVIOUS
    <3>1. j # 1
      BY <1>4, <2>1
    <3>2. j - 1 \in DOMAIN s /\ j - 1 + 1 = j
      BY <1>1, <1>3, <2>4, <3>1
    <3>3. g[j - 1] = j
      BY <2>5, <3>2
    <3>4. j - 1 \in DOMAIN s
      BY <3>2
    <3> WITNESS j - 1 \in DOMAIN s
    <3> QED
      BY <3>3
  <2>10. Good(o, out, s, accepted, row, rows)
    <3>1. s \in Seq(Msg) /\ r \in Seq(Msg) /\ g \in [DOMAIN s -> DOMAIN r]
      BY <1>3, <2>4, <2>5
    <3>2. \A n \in DOMAIN s : g[n] = 1 => n = 1
      BY <2>7
    <3>3. Picks(r, s, g)
      BY <2>6, <2>8, <2>9, <3>1, <3>2 DEF Picks
    <3> QED
      BY <1>5, <3>1, <3>3, Compacted
  <2> QED
    BY <2>2, <2>10
<1> QED
  BY <1>6, <1>7

(* An event other than order_placed is only begun once order_placed is      *)
(* written, unless the loop went on after it failed.                        *)
LEMMA PlacedWritten ==
    ASSUME LedgerInv, TurnInv, NEW o \in Order, NEW k \in DOMAIN queue[o], Startable(o, k),
           ~IsPlaced(queue[o][k].event), ~SkippedPlaced(o, k),
           NEW out, NEW accepted, PlacedFirst(o, out, queue[o], accepted)
    PROVE  ~Unwritten(queue[o])
<1> SUFFICES ASSUME Unwritten(queue[o]) PROVE FALSE
  OBVIOUS
<1>1. PICK j \in DOMAIN queue[o] : IsPlaced(queue[o][j].event) /\ queue[o][j].step # "ok"
  BY DEF Unwritten
<1>2. j = 1 /\ k # 1
  BY <1>1 DEF PlacedFirst
<1>3. queue[o] \in Seq(Msg)
  BY DEF LedgerInv
<1>4. j \in 1 .. k - 1
  BY <1>2, <1>3
<1>5. kind = "sqs"
  BY <1>2, ChainStarts
<1>6. queue[o][j].step \in {"ok", "failed"}
  BY <1>4, <1>5 DEF Startable
<1> QED
  BY <1>1, <1>4, <1>6 DEF SkippedPlaced, IsPlaced

-----------------------------------------------------------------------------
(* The truth step by step *)

GoodNow(o) == Good(o, outbox[o], queue[o], sent[o], fact[o], lines[o])

(* Requests aside, an order is truthful when its events and facts agree.    *)
LEMMA StaysTruthful ==
    ASSUME NEW o \in Order, placed[o] # None,
           placed'[o] = placed[o], live'[o] = live[o], payments'[o] = payments[o],
           o \in hurt' \/ Good(o, outbox'[o], queue'[o], sent'[o], fact'[o], lines'[o])
    PROVE  Truthful(o)'
<1> SUFFICES ASSUME o \notin hurt' PROVE Good(o, outbox[o], queue[o], sent[o], fact[o], lines[o])'
  BY DEF Truthful
<1>1. Good(o, outbox'[o], queue'[o], sent'[o], fact'[o], lines'[o])
  OBVIOUS
<1>2. EventsApart(outbox[o], queue[o], sent[o], live[o])'
  BY <1>1 DEF Good
<1>3. PlacedFirst(o, outbox[o], queue[o], sent[o])'
  <2>1. PlacedEvent(o)' = PlacedEvent(o)
    BY DEF PlacedEvent
  <2> QED
    BY <1>1, <2>1 DEF Good, PlacedFirst
<1>4. HeadlineTrue(o, outbox[o], queue[o], fact[o])'
  BY <1>1 DEF Good, HeadlineTrue
<1>5. RowsTrue(o, outbox[o], queue[o], fact[o], lines[o])'
  BY <1>1 DEF Good, RowsTrue
<1>6. PaymentTrue(o, outbox[o], queue[o], sent[o], fact[o])'
  BY <1>1 DEF Good, PaymentTrue
<1> QED
  BY <1>2, <1>3, <1>4, <1>5, <1>6 DEF Good

LEMMA OthersTruthful ==
    ASSUME TruthInv, NEW p \in Order, hurt \subseteq hurt',
           placed'[p] = placed[p], live'[p] = live[p], payments'[p] = payments[p],
           outbox'[p] = outbox[p], queue'[p] = queue[p], sent'[p] = sent[p],
           fact'[p] = fact[p], lines'[p] = lines[p]
    PROVE  Truthful(p)'
<1>1. Truthful(p)
  BY DEF TruthInv
<1>2. CASE placed[p] = None
  BY <1>1, <1>2 DEF Truthful, Untouched
<1>3. CASE placed[p] # None
  <2>1. p \in hurt' \/ Good(p, outbox[p], queue[p], sent[p], fact[p], lines[p])
    BY <1>1, <1>3 DEF Truthful
  <2>2. p \in hurt' \/ Good(p, outbox'[p], queue'[p], sent'[p], fact'[p], lines'[p])
    BY <2>1
  <2> QED
    BY <1>3, <2>2, StaysTruthful
<1> QED
  BY <1>2, <1>3

(* A step of the queue or the worker is judged by the order it is about.    *)
LEMMA Judged ==
    ASSUME TruthInv, NEW o \in Order, placed[o] # None, UNCHANGED orderVars, hurt \subseteq hurt',
           \A p \in Order : p # o =>
              /\ outbox'[p] = outbox[p] /\ queue'[p] = queue[p] /\ sent'[p] = sent[p]
              /\ fact'[p] = fact[p] /\ lines'[p] = lines[p],
           o \in hurt' \/ Good(o, outbox'[o], queue'[o], sent'[o], fact'[o], lines'[o])
    PROVE  TruthInv'
<1>1. Truthful(o)'
  BY StaysTruthful DEF orderVars
<1>2. ASSUME NEW p \in Order, p # o
      PROVE  Truthful(p)'
  BY <1>2, OthersTruthful DEF orderVars
<1> QED
  BY <1>1, <1>2 DEF TruthInv

LEMMA Begun ==
    ASSUME TruthInv, NEW o \in Order, outbox[o] # {} \/ queue[o] # <<>>
    PROVE  placed[o] # None /\ (o \in hurt \/ GoodNow(o))
  BY DEF TruthInv, Truthful, Untouched, GoodNow

LEMMA SetStepMoves ==
    ASSUME LedgerInv, NEW o \in Order, NEW k \in DOMAIN queue[o],
           NEW step \in {"queued", "second", "ok", "failed"}, SetStep(o, k, step)
    PROVE  /\ queue'[o] \in Seq(Msg) /\ MovesOn(queue[o], queue'[o], k) /\ queue'[o][k].step = step
           /\ \A p \in Order : p # o => queue'[p] = queue[p]
<1> DEFINE m == [queue[o][k] EXCEPT !.step = step]
<1>1. /\ queue' = [queue EXCEPT ![o] = [queue[o] EXCEPT ![k] = m]]
      /\ m \in Msg /\ m.step = step /\ m.event = queue[o][k].event
  <2>1. queue[o][k] \in Msg
    BY DEF LedgerInv
  <2>2. m \in Msg /\ m.step = step /\ m.event = queue[o][k].event
    BY <2>1, Marked
  <2>3. queue' = [queue EXCEPT ![o] = [queue[o] EXCEPT ![k] = m]]
    BY DEF SetStep
  <2> QED
    BY <2>2, <2>3
<1> HIDE DEF m
<1>2. queue[o] \in Seq(Msg) /\ queue'[o] = [queue[o] EXCEPT ![k] = m]
  BY <1>1 DEF LedgerInv
<1>3. queue'[o] \in Seq(Msg) /\ DOMAIN queue'[o] = DOMAIN queue[o]
  BY <1>1, <1>2
<1>4. \A j \in DOMAIN queue[o] : queue'[o][j] = IF j = k THEN m ELSE queue[o][j]
  BY <1>2
<1>5. MovesOn(queue[o], queue'[o], k) /\ queue'[o][k].step = step
  BY <1>1, <1>3, <1>4 DEF MovesOn
<1> QED
  BY <1>1, <1>3, <1>5 DEF LedgerInv

LEMMA HandledElsewhere ==
    ASSUME LedgerInv, NEW o \in Order, NEW k, Handled(o, k)
    PROVE  \A p \in Order : p # o => queue'[p] = queue[p]
  BY DEF Handled, SetStep, LedgerInv

(* The requests                                                             *)
LEMMA PlaceTruthful ==
    ASSUME LedgerInv, FactsInv, TruthInv, NEW o \in Order, Place(o)
    PROVE  TruthInv'
<1> DEFINE e == [PlacedEvent(o) EXCEPT !.day = today]
<1>1. /\ placed[o] = None /\ placed' = [placed EXCEPT ![o] = today] /\ outbox' = [outbox EXCEPT ![o] = {e}]
      /\ UNCHANGED <<live, payments, sent, queue, fact, lines, hurt>>
  BY DEF Place, factVars
<1>2. Untouched(o)
  BY <1>1 DEF TruthInv, Truthful
<1>3. placed'[o] = today /\ today # None /\ outbox'[o] = {e}
  BY <1>1, ReportingAssumption DEF LedgerInv, FactsInv
<1>4. PlacedEvent(o)' = e
  BY <1>3 DEF PlacedEvent, NoEvent
<1>5. IsPlaced(e) /\ ~IsPaid(e) /\ ~IsCancel(e)
  BY DEF PlacedEvent, NoEvent, IsPlaced, IsPaid, IsCancel
<1> HIDE DEF e
<1>6. /\ queue'[o] = <<>> /\ sent'[o] = {} /\ fact'[o] = NoFact /\ lines'[o] = {}
      /\ live'[o] = Item /\ payments'[o] = 0
  BY <1>1, <1>2 DEF Untouched
<1>7. DOMAIN queue'[o] = {}
  BY <1>6
<1>8. Good(o, outbox[o], queue[o], sent[o], fact[o], lines[o])'
  <2>1. EventsApart(outbox[o], queue[o], sent[o], live[o])'
    BY <1>3, <1>5, <1>6, <1>7 DEF EventsApart
  <2>2. PlacedFirst(o, outbox[o], queue[o], sent[o])'
    BY <1>3, <1>4, <1>6, <1>7 DEF PlacedFirst, Unwritten
  <2>3. HeadlineTrue(o, outbox[o], queue[o], fact[o])'
    BY <1>6 DEF HeadlineTrue
  <2>4. RowsTrue(o, outbox[o], queue[o], fact[o], lines[o])'
    BY <1>3, <1>5, <1>6, <1>7 DEF RowsTrue, Unsent, Mentioned, Cancelled
  <2>5. PaymentTrue(o, outbox[o], queue[o], sent[o], fact[o])'
    BY <1>3, <1>5, <1>6, <1>7 DEF PaymentTrue, Credited
  <2> QED
    BY <2>1, <2>2, <2>3, <2>4, <2>5 DEF Good
<1>9. Truthful(o)'
  BY <1>3, <1>8 DEF Truthful
<1>10. ASSUME NEW p \in Order, p # o
      PROVE  Truthful(p)'
  BY <1>1, <1>10, OthersTruthful DEF LedgerInv, FactsInv
<1> QED
  BY <1>9, <1>10 DEF TruthInv

LEMMA PayTruthful ==
    ASSUME LedgerInv, FactsInv, TruthInv, NEW o \in Order, Pay(o)
    PROVE  TruthInv'
<1> DEFINE e == PaidEvent(payments[o] + 1)
<1>1. /\ placed[o] # None /\ payments' = [payments EXCEPT ![o] = payments[o] + 1]
      /\ outbox' = [outbox EXCEPT ![o] = outbox[o] \union {e}]
      /\ UNCHANGED <<placed, live, sent, queue, fact, lines, hurt>>
  BY DEF Pay, MayRequest, factVars
<1>2. payments'[o] > 0 /\ outbox'[o] = outbox[o] \union {e}
  BY <1>1 DEF LedgerInv
<1>3. IsPaid(e) /\ ~IsPlaced(e) /\ ~IsCancel(e)
  BY DEF PaidEvent, NoEvent, IsPlaced, IsPaid, IsCancel
<1> HIDE DEF e
<1>4. ASSUME o \notin hurt
      PROVE  Good(o, outbox[o], queue[o], sent[o], fact[o], lines[o])'
  <2>1. Good(o, outbox[o], queue[o], sent[o], fact[o], lines[o])
    BY <1>1, <1>4 DEF TruthInv, Truthful
  <2>2. EventsApart(outbox[o], queue[o], sent[o], live[o])'
    BY <1>1, <1>2, <1>3, <2>1 DEF Good, EventsApart, Disjoint
  <2>3. PlacedFirst(o, outbox[o], queue[o], sent[o])'
    <3>1. PlacedEvent(o)' = PlacedEvent(o)
      BY <1>1 DEF PlacedEvent
    <3> QED
      BY <1>1, <1>2, <1>3, <2>1, <3>1 DEF Good, PlacedFirst
  <2>4. \A steps : Cancelled(outbox'[o], queue[o], steps) = Cancelled(outbox[o], queue[o], steps)
    BY <1>2, <1>3 DEF Cancelled
  <2>5. /\ Owed(outbox'[o], queue[o]) = Owed(outbox[o], queue[o])
        /\ Remaining(outbox'[o], queue[o]) = Remaining(outbox[o], queue[o])
        /\ Mentioned(outbox'[o], queue[o]) = Mentioned(outbox[o], queue[o])
        /\ Unsent(outbox'[o]) <=> Unsent(outbox[o])
    BY <1>2, <1>3, <2>4 DEF Owed, Remaining, Mentioned, Unsent
  <2>6. HeadlineTrue(o, outbox[o], queue[o], fact[o])'
    BY <1>1, <2>1, <2>5 DEF Good, HeadlineTrue
  <2>7. RowsTrue(o, outbox[o], queue[o], fact[o], lines[o])'
    BY <1>1, <2>1, <2>5 DEF Good, RowsTrue
  <2>8. PaymentTrue(o, outbox[o], queue[o], sent[o], fact[o])'
    BY <1>1, <1>2, <1>3, <2>1 DEF Good, PaymentTrue
  <2> QED
    BY <2>2, <2>3, <2>6, <2>7, <2>8 DEF Good
<1>5. Truthful(o)'
  BY <1>1, <1>4 DEF Truthful
<1>6. ASSUME NEW p \in Order, p # o
      PROVE  Truthful(p)'
  BY <1>1, <1>6, OthersTruthful DEF LedgerInv, FactsInv
<1> QED
  BY <1>5, <1>6 DEF TruthInv

LEMMA CancelTruthful ==
    ASSUME LedgerInv, FactsInv, TruthInv, NEW o \in Order, NEW items \in SUBSET Item, Cancel(o, items)
    PROVE  TruthInv'
<1> DEFINE e == CancelEvent(items)
           out == outbox[o] \union {e}
           q == queue[o]
<1>1. /\ placed[o] # None /\ items \subseteq live[o] /\ live' = [live EXCEPT ![o] = live[o] \ items]
      /\ outbox' = [outbox EXCEPT ![o] = outbox[o] \union {e}]
      /\ UNCHANGED <<placed, payments, sent, queue, fact, lines, hurt>>
  BY DEF Cancel, MayRequest, factVars
<1>2. live'[o] = live[o] \ items /\ outbox'[o] = out
  BY <1>1 DEF LedgerInv, FactsInv
<1>3. IsCancel(e) /\ e.items = items /\ ~IsPlaced(e) /\ ~IsPaid(e)
  BY DEF CancelEvent, NoEvent, IsPlaced, IsPaid, IsCancel
<1>4. ASSUME o \notin hurt
      PROVE  Good(o, outbox[o], queue[o], sent[o], fact[o], lines[o])'
  <2>1. Good(o, outbox[o], q, sent[o], fact[o], lines[o])
    BY <1>1, <1>4 DEF TruthInv, Truthful
  <2> HIDE DEF e, q
  <2>2. EventsApart(outbox[o], queue[o], sent[o], live[o])'
    <3>1. \A d \in outbox[o] \union sent[o] : IsCancel(d) => d.items \intersect live[o] = {}
      BY <2>1 DEF Good, EventsApart
    <3>2. \A k \in DOMAIN q : IsCancel(q[k].event) => q[k].event.items \intersect live[o] = {}
      BY <2>1 DEF Good, EventsApart
    <3>3. \A d \in outbox[o] \union sent[o] : Disjoint(d, e) /\ Disjoint(e, d)
      BY <1>1, <1>3, <3>1 DEF Disjoint
    <3>4. \A k \in DOMAIN q : Disjoint(e, q[k].event)
      BY <1>1, <1>3, <3>2 DEF Disjoint
    <3>5. EventsApart(out, q, sent[o], live[o] \ items)
      <4>1. \A c, d \in out : c # d => Disjoint(c, d)
        BY <2>1, <3>3 DEF Good, EventsApart
      <4>2. \A d \in out, k \in DOMAIN q : Disjoint(d, q[k].event)
        BY <2>1, <3>4 DEF Good, EventsApart
      <4>3. \A d \in out, c \in sent[o] : Disjoint(d, c)
        BY <2>1, <3>3 DEF Good, EventsApart
      <4>4. \A j, k \in DOMAIN q : j # k => Disjoint(q[j].event, q[k].event)
        BY <2>1 DEF Good, EventsApart
      <4>5. \A d \in out \union sent[o] : IsCancel(d) => d.items \intersect (live[o] \ items) = {}
        BY <1>3, <3>1
      <4>6. \A k \in DOMAIN q : IsCancel(q[k].event) => q[k].event.items \intersect (live[o] \ items) = {}
        BY <3>2
      <4> QED
        BY <4>1, <4>2, <4>3, <4>4, <4>5, <4>6 DEF EventsApart
    <3> QED
      BY <1>1, <1>2, <3>5 DEF q
  <2>3. PlacedFirst(o, outbox[o], queue[o], sent[o])'
    <3>1. PlacedEvent(o)' = PlacedEvent(o)
      BY <1>1 DEF PlacedEvent
    <3>2. PlacedFirst(o, out, q, sent[o])
      BY <1>3, <2>1 DEF Good, PlacedFirst
    <3> QED
      BY <1>1, <1>2, <3>1, <3>2 DEF PlacedFirst, q
  <2>4. ASSUME NEW steps
        PROVE  live'[o] \union Cancelled(out, q, steps) = live[o] \union Cancelled(outbox[o], q, steps)
    <3>1. Cancelled(out, q, steps) = Cancelled(outbox[o], q, steps) \union items
      BY <1>3 DEF Cancelled
    <3> QED
      BY <1>1, <1>2, <3>1
  <2>5. /\ live'[o] \union Owed(out, q) = live[o] \union Owed(outbox[o], q)
        /\ live'[o] \union Remaining(out, q) = live[o] \union Remaining(outbox[o], q)
        /\ live'[o] \union Mentioned(out, q) = live[o] \union Mentioned(outbox[o], q)
    BY <2>4 DEF Owed, Remaining, Mentioned
  <2>6. Unsent(out) <=> Unsent(outbox[o])
    BY <1>3 DEF Unsent
  <2>7. HeadlineTrue(o, outbox[o], queue[o], fact[o])'
    BY <1>1, <1>2, <2>1, <2>5 DEF Good, HeadlineTrue, q
  <2>8. RowsTrue(o, outbox[o], queue[o], fact[o], lines[o])'
    BY <1>1, <1>2, <2>1, <2>5, <2>6 DEF Good, RowsTrue, q
  <2>9. PaymentTrue(o, outbox[o], queue[o], sent[o], fact[o])'
    <3>1. (\E d \in out : IsPaid(d)) <=> \E d \in outbox[o] : IsPaid(d)
      BY <1>3
    <3> QED
      BY <1>1, <1>2, <2>1, <3>1 DEF Good, PaymentTrue, q
  <2> QED
    BY <2>2, <2>3, <2>7, <2>8, <2>9 DEF Good
<1>5. Truthful(o)'
  BY <1>1, <1>4 DEF Truthful
<1>6. ASSUME NEW p \in Order, p # o
      PROVE  Truthful(p)'
  BY <1>1, <1>6, OthersTruthful DEF LedgerInv, FactsInv
<1> QED
  BY <1>5, <1>6 DEF TruthInv

(* Into the queue                                                           *)
LEMMA EnqueueTruthful ==
    ASSUME LedgerInv, FactsInv, TruthInv, NEW o \in Order, NEW e \in outbox[o], Enqueue(o, e)
    PROVE  TruthInv'
<1>1. /\ placed[o] # None /\ (o \in hurt \/ GoodNow(o))
      /\ outbox[o] \in SUBSET SoundEvent /\ queue[o] \in Seq(Msg) /\ e \in SoundEvent
  BY Begun DEF LedgerInv
<1>2. PICK after \in OutboxAfter(o, e) : outbox' = [outbox EXCEPT ![o] = after]
  BY DEF Enqueue
<1>3. outbox'[o] = after /\ Leaves(outbox[o], e, after)
  BY <1>2, OutboxLeaves DEF LedgerInv
<1>4. sent'[o] = sent[o] \union {Body(e)} /\ \A p \in Order : p # o => sent'[p] = sent[p] /\ outbox'[p] = outbox[p]
  BY <1>2 DEF Enqueue, LedgerInv, FactsInv
<1>5. UNCHANGED <<orderVars, fact, lines>> /\ (IF Overtakes(o, e) THEN o \in hurt' /\ hurt \subseteq hurt' ELSE UNCHANGED hurt)
  BY DEF Enqueue, factVars, Hurt
<1>6. PICK m \in Msg : /\ m.event = e /\ m.step = "queued"
                       /\ \/ queue' = [queue EXCEPT ![o] = Append(queue[o], m)]
                          \/ Body(e) \in sent[o] /\ UNCHANGED queue
  <2> DEFINE Fresh(id, prev) == [event |-> e, id |-> id, after |-> prev, tries |-> 0, step |-> "queued"]
  <2>1. \A id, prev \in Nat : Fresh(id, prev) \in Msg /\ Fresh(id, prev).event = e /\ Fresh(id, prev).step = "queued"
    BY <1>1 DEF Msg
  <2>2. CASE EnqueueSqs(o, e)
    <3>1. queue' = [queue EXCEPT ![o] = Append(queue[o], Fresh(0, 0))] \/ (Body(e) \in sent[o] /\ UNCHANGED queue)
      BY <2>2 DEF EnqueueSqs
    <3> HIDE DEF Fresh
    <3> QED
      BY <2>1, <3>1
  <2>3. CASE EnqueueLocal(o, e)
    <3>1. queue' = [queue EXCEPT ![o] = Append(queue[o], Fresh(NextId(o), tail[o]))]
      BY <2>3 DEF EnqueueLocal
    <3>2. NextId(o) \in Nat /\ tail[o] \in Nat
      BY NextIdType DEF LedgerInv
    <3> HIDE DEF Fresh
    <3> QED
      BY <2>1, <3>1, <3>2
  <2> QED
    BY <2>2, <2>3 DEF Enqueue
<1>7. ASSUME o \notin hurt'
      PROVE  Good(o, outbox'[o], queue'[o], sent'[o], fact'[o], lines'[o])
  <2>1. Good(o, outbox[o], queue[o], sent[o], fact[o], lines[o])
    BY <1>1, <1>5, <1>7 DEF GoodNow
  <2>2. \A p \in outbox[o] : IsPlaced(p) => p = e
    BY <1>5, <1>7 DEF Overtakes, IsPlaced
  <2>3. CASE queue' = [queue EXCEPT ![o] = Append(queue[o], m)]
    <3>1. queue'[o] = Append(queue[o], m)
      BY <2>3 DEF LedgerInv
    <3>2. Good(o, after, Append(queue[o], m), sent[o] \union {Body(e)}, fact[o], lines[o])
      BY <1>1, <1>3, <1>6, <2>1, <2>2, Appended
    <3> QED
      BY <1>3, <1>4, <1>5, <3>1, <3>2
  <2>4. CASE Body(e) \in sent[o] /\ UNCHANGED queue
    <3>1. Good(o, after, queue[o], sent[o], fact[o], lines[o])
      BY <1>1, <1>3, <2>1, <2>4, Deduplicated
    <3>2. sent'[o] = sent[o]
      BY <1>4, <2>4
    <3> QED
      BY <1>3, <1>5, <2>4, <3>1, <3>2
  <2> QED
    BY <1>6, <2>3, <2>4
<1>8. \A p \in Order : p # o => queue'[p] = queue[p]
  BY <1>6 DEF LedgerInv
<1> QED
  BY <1>1, <1>4, <1>5, <1>7, <1>8, Judged

(* Deliveries                                                               *)
LEMMA FirstTruthful ==
    ASSUME LedgerInv, TurnInv, FactsInv, TruthInv, NEW o \in Order, NEW k \in DOMAIN queue[o], First(o, k)
    PROVE  TruthInv'
<1> DEFINE e == queue[o][k].event
           row == FirstStatement(o, e)
<1>1. /\ Startable(o, k) /\ fact' = [fact EXCEPT ![o] = row]
      /\ UNCHANGED <<orderVars, outbox, sent, lines>>
      /\ IF SkippedPlaced(o, k) THEN o \in hurt' /\ hurt \subseteq hurt' ELSE UNCHANGED hurt
      /\ IF e.type \in TwoStatements THEN SetStep(o, k, "second") ELSE Handled(o, k)
  BY DEF First, Hurt
<1>2. queue[o] \in Seq(Msg) /\ queue[o] # <<>> /\ queue[o][k].step = "queued"
  BY <1>1 DEF LedgerInv, Startable
<1>3. placed[o] # None /\ (o \in hurt \/ GoodNow(o))
  BY <1>2, Begun
<1>4. fact'[o] = row /\ \A p \in Order : p # o => fact'[p] = fact[p] /\ queue'[p] = queue[p]
  <2>1. \A p \in Order : p # o => queue'[p] = queue[p]
    BY <1>1, SetStepMoves, HandledElsewhere
  <2> QED
    BY <1>1, <2>1 DEF FactsInv
<1>5. ASSUME o \notin hurt'
      PROVE  Good(o, outbox[o], queue'[o], sent[o], row, lines[o])
  <2>1. Good(o, outbox[o], queue[o], sent[o], fact[o], lines[o]) /\ ~SkippedPlaced(o, k)
    BY <1>1, <1>3, <1>5 DEF GoodNow
  <2>2. CASE IsPlaced(e)
    <3>1. SetStep(o, k, "second")
      BY <1>1, <2>2 DEF IsPlaced, TwoStatements
    <3> QED
      BY <1>2, <1>3, <2>1, <2>2, <3>1, SetStepMoves, FirstPlaced
  <2>3. ~IsPlaced(e) => ~Unwritten(queue[o])
    BY <1>1, <2>1, PlacedWritten DEF Good
  <2>4. CASE IsCancel(e)
    <3>1. SetStep(o, k, "second")
      BY <1>1, <2>4 DEF IsCancel, TwoStatements
    <3>2. ~Unwritten(queue[o])
      BY <2>3, <2>4 DEF IsPlaced, IsCancel
    <3> QED
      BY <1>2, <1>3, <2>1, <2>4, <3>1, <3>2, SetStepMoves, FirstCancel
  <2>5. CASE ~IsPlaced(e) /\ ~IsCancel(e)
    <3>1. Handled(o, k)
      BY <1>1, <2>5 DEF IsPlaced, IsCancel, TwoStatements
    <3>2. \A r \in Seq(Msg) : MovesOn(queue[o], r, k) /\ r[k].step = "ok" => Good(o, outbox[o], r, sent[o], row, lines[o])
      BY <1>2, <1>3, <2>1, <2>3, <2>5, FirstOther
    <3> HIDE DEF row
    <3> QED
      BY <1>1, <3>1, <3>2, HandledGood
  <2> QED
    BY <2>2, <2>4, <2>5
<1> HIDE DEF row
<1>6. o \in hurt' \/ Good(o, outbox'[o], queue'[o], sent'[o], fact'[o], lines'[o])
  BY <1>1, <1>4, <1>5
<1>7. hurt \subseteq hurt'
  BY <1>1
<1> QED
  BY <1>1, <1>3, <1>4, <1>6, <1>7, Judged

LEMMA SecondTruthful ==
    ASSUME LedgerInv, TurnInv, FactsInv, TruthInv, NEW o \in Order, NEW k \in DOMAIN queue[o], Second(o, k)
    PROVE  TruthInv'
<1> DEFINE rows == SecondStatement(o, queue[o][k].event)
<1>1. /\ queue[o][k].step = "second" /\ lines' = [lines EXCEPT ![o] = rows] /\ Handled(o, k)
      /\ UNCHANGED <<orderVars, outbox, sent, fact, hurt>>
  BY DEF Second
<1>2. queue[o] \in Seq(Msg) /\ queue[o] # <<>>
  BY DEF LedgerInv
<1>3. placed[o] # None /\ (o \in hurt \/ GoodNow(o))
  BY <1>2, Begun
<1>4. lines'[o] = rows /\ \A p \in Order : p # o => lines'[p] = lines[p] /\ queue'[p] = queue[p]
  BY <1>1, HandledElsewhere DEF FactsInv
<1>5. ASSUME o \notin hurt
      PROVE  Good(o, outbox[o], queue'[o], sent[o], fact[o], rows)
  <2>1. Good(o, outbox[o], queue[o], sent[o], fact[o], lines[o])
    BY <1>3, <1>5 DEF GoodNow
  <2>2. \A r \in Seq(Msg) : MovesOn(queue[o], r, k) /\ r[k].step = "ok" => Good(o, outbox[o], r, sent[o], fact[o], rows)
    BY <1>1, <1>2, <2>1, SecondDone
  <2> HIDE DEF rows
  <2> QED
    BY <1>1, <2>2, HandledGood
<1> HIDE DEF rows
<1>6. o \in hurt' \/ Good(o, outbox'[o], queue'[o], sent'[o], fact'[o], lines'[o])
  BY <1>1, <1>4, <1>5
<1> QED
  BY <1>1, <1>3, <1>4, <1>6, Judged

(* Messages that only change their steps, and no subtraction with them.     *)
LEMMA SetBackTruthful ==
    ASSUME LedgerInv, TruthInv, NEW o \in Order, queue[o] # <<>>, NEW r \in Seq(Msg),
           UNCHANGED <<orderVars, outbox, sent, fact, lines>>, hurt \subseteq hurt',
           queue' = [queue EXCEPT ![o] = r], DOMAIN r = DOMAIN queue[o],
           o \notin hurt' =>
              /\ \A k \in DOMAIN queue[o] :
                    /\ r[k].event = queue[o][k].event
                    /\ \/ r[k].step = queue[o][k].step
                       \/ /\ r[k].step \in {"queued", "failed"}
                          /\ IsCancel(queue[o][k].event) => queue[o][k].step \notin {"second", "ok"}
              /\ Unwritten(r) => \/ Unwritten(queue[o])
                                 \/ \A k \in DOMAIN queue[o] : k # 1 => r[k].step \in {"queued", "failed"}
    PROVE  TruthInv'
<1>1. placed[o] # None /\ (o \in hurt \/ GoodNow(o))
  BY Begun
<1>2. queue'[o] = r /\ queue[o] \in Seq(Msg) /\ \A p \in Order : p # o => queue'[p] = queue[p]
  BY DEF LedgerInv
<1>3. ASSUME o \notin hurt'
      PROVE  Good(o, outbox[o], r, sent[o], fact[o], lines[o])
  <2>1. Good(o, outbox[o], queue[o], sent[o], fact[o], lines[o])
    BY <1>1, <1>3 DEF GoodNow
  <2> QED
    BY <1>2, <1>3, <2>1, SetBack
<1>4. o \in hurt' \/ Good(o, outbox'[o], queue'[o], sent'[o], fact'[o], lines'[o])
  BY <1>2, <1>3
<1> QED
  BY <1>1, <1>2, <1>4, Judged

LEMMA ReceiveTruthful ==
    ASSUME LedgerInv, TurnInv, TruthInv, NEW o \in Order, NEW n \in 1 .. BatchSize, Receive(o, n)
    PROVE  TruthInv'
<1> DEFINE q == queue[o]
           r == [k \in DOMAIN q |-> IF k <= n THEN [q[k] EXCEPT !.tries = q[k].tries + 1] ELSE q[k]]
<1>1. /\ q \in Seq(Msg) /\ Len(q) \in Nat /\ DOMAIN q = 1 .. Len(q) /\ n \in Nat /\ n <= Len(q) /\ n > 0
      /\ UNCHANGED <<orderVars, outbox, sent, fact, lines, hurt>> /\ queue' = [queue EXCEPT ![o] = r]
  BY DEF Receive, LedgerInv, factVars
<1>2. \A k \in DOMAIN q : r[k] \in Msg /\ r[k].step = q[k].step /\ r[k].event = q[k].event
  <2> TAKE k \in DOMAIN q
  <2>1. q[k] \in Msg
    BY <1>1
  <2> QED
    BY <2>1, Retried
<1>3. r \in [1 .. Len(q) -> Msg]
  BY <1>1, <1>2
<1> HIDE DEF r
<1>4. r \in Seq(Msg) /\ DOMAIN r = DOMAIN q
  BY <1>1, <1>3
<1>5. Unwritten(r) => Unwritten(q)
  BY <1>2, <1>4 DEF Unwritten
<1>6. q # <<>>
  BY <1>1
<1> QED
  BY <1>1, <1>2, <1>4, <1>5, <1>6, SetBackTruthful

LEMMA CrashTruthful ==
    ASSUME LedgerInv, TurnInv, TruthInv, NEW o \in Order, Crash(o)
    PROVE  TruthInv'
<1> DEFINE q == queue[o]
           r == [k \in DOMAIN q |-> [q[k] EXCEPT !.step = "queued"]]
<1>1. /\ q \in Seq(Msg) /\ Len(q) \in Nat /\ DOMAIN q = 1 .. Len(q) /\ batch[o] > 0 /\ batch[o] \in Nat /\ InTurn(o)
      /\ UNCHANGED <<orderVars, outbox, sent, fact, lines>> /\ queue' = [queue EXCEPT ![o] = r]
      /\ IF \E k \in 1 .. batch[o] : IsCancel(q[k].event) /\ q[k].step \in {"second", "ok"}
           THEN o \in hurt' /\ hurt \subseteq hurt' ELSE UNCHANGED hurt
  BY DEF Crash, LedgerInv, TurnInv, factVars, Hurt, IsCancel
<1>2. \A k \in DOMAIN q : r[k] \in Msg /\ r[k].step = "queued" /\ r[k].event = q[k].event
  <2> TAKE k \in DOMAIN q
  <2>1. q[k] \in Msg
    BY <1>1
  <2> QED
    BY <2>1, Marked
<1>3. r \in [1 .. Len(q) -> Msg]
  BY <1>1, <1>2
<1> HIDE DEF r
<1>4. r \in Seq(Msg) /\ DOMAIN r = DOMAIN q
  BY <1>1, <1>3
<1>5. GroupInTurn(q, batch[o])
  BY <1>1 DEF InTurn, ChainInTurn
<1>6. q # <<>>
  BY <1>1, <1>5 DEF GroupInTurn
<1>7. ASSUME o \notin hurt', NEW k \in DOMAIN q, IsCancel(q[k].event)
      PROVE  q[k].step \notin {"second", "ok"}
  <2>1. SUFFICES ASSUME q[k].step \in {"second", "ok"} PROVE FALSE
    OBVIOUS
  <2>2. k \in 1 .. batch[o]
    BY <1>1, <1>5, <2>1 DEF GroupInTurn
  <2> QED
    BY <1>1, <1>7, <2>1, <2>2
<1>8. hurt \subseteq hurt'
  BY <1>1
<1> QED
  BY <1>1, <1>2, <1>4, <1>6, <1>7, <1>8, SetBackTruthful

LEMMA FailTruthful ==
    ASSUME LedgerInv, TurnInv, FactsInv, TruthInv, NEW o \in Order, NEW k \in DOMAIN queue[o], Fail(o, k)
    PROVE  TruthInv'
<1> DEFINE q == queue[o]
<1>1. /\ q \in Seq(Msg) /\ q # <<>> /\ q[k] \in Msg /\ placed[o] # None
      /\ UNCHANGED <<orderVars, outbox, sent, fact, lines>> /\ hurt \subseteq hurt'
      /\ Startable(o, k) \/ q[k].step = "second"
  BY Begun DEF Fail, LedgerInv, factVars, Hurt
<1>2. q[k].step \in {"queued", "second"}
  BY <1>1 DEF Startable
<1>3. CASE kind = "local" /\ q[k].tries + 1 >= MaxAttempts
  <2>1. Handled(o, k) /\ o \in hurt'
    BY <1>3 DEF Fail, Hurt
  <2>2. \A p \in Order : p # o => queue'[p] = queue[p]
    BY <2>1, HandledElsewhere
  <2> QED
    BY <1>1, <2>1, <2>2, Judged
<1>4. ASSUME NEW m \in Msg, m.event = q[k].event, m.step \in {"queued", "failed"},
             queue' = [queue EXCEPT ![o] = [q EXCEPT ![k] = m]],
             IsCancel(q[k].event) /\ q[k].step = "second" => o \in hurt'
      PROVE  TruthInv'
  <2> DEFINE r == [q EXCEPT ![k] = m]
  <2>1. r \in Seq(Msg) /\ DOMAIN r = DOMAIN q /\ \A j \in DOMAIN q : r[j] = IF j = k THEN m ELSE q[j]
    BY <1>1
  <2> HIDE DEF r, q
  <2>2. Unwritten(r) => Unwritten(q)
    BY <1>2, <1>4, <2>1 DEF Unwritten
  <2>3. queue' = [queue EXCEPT ![o] = r]
    BY <1>4 DEF r
  <2>4. ASSUME o \notin hurt', NEW j \in DOMAIN q
        PROVE  /\ r[j].event = q[j].event
               /\ \/ r[j].step = q[j].step
                  \/ /\ r[j].step \in {"queued", "failed"}
                     /\ IsCancel(q[j].event) => q[j].step \notin {"second", "ok"}
    BY <1>2, <1>4, <2>1, <2>4
  <2>5. q = queue[o]
    BY DEF q
  <2> QED
    BY <1>1, <2>1, <2>2, <2>3, <2>4, <2>5, SetBackTruthful
<1>5. CASE kind = "sqs"
  <2>1. SetStep(o, k, "failed") /\ (IsCancel(q[k].event) /\ q[k].step = "second" => o \in hurt')
    BY <1>5 DEF Fail, Hurt, IsCancel
  <2> DEFINE m == [q[k] EXCEPT !.step = "failed"]
  <2>2. m \in Msg /\ m.event = q[k].event /\ m.step = "failed"
    BY <1>1, Marked
  <2>3. queue' = [queue EXCEPT ![o] = [q EXCEPT ![k] = m]]
    BY <2>1 DEF SetStep
  <2> HIDE DEF m
  <2> QED
    BY <1>4, <2>1, <2>2, <2>3
<1>6. CASE kind # "sqs" /\ ~(kind = "local" /\ q[k].tries + 1 >= MaxAttempts)
  <2>1. /\ queue' = [queue EXCEPT ![o][k].step = "queued", ![o][k].tries = @ + 1]
        /\ IsCancel(q[k].event) /\ q[k].step = "second" => o \in hurt'
    BY <1>6 DEF Fail, Hurt, IsCancel
  <2> DEFINE m == [q[k] EXCEPT !.step = "queued", !.tries = q[k].tries + 1]
  <2>2. m \in Msg /\ m.event = q[k].event /\ m.step = "queued"
    BY <1>1, Retried
  <2>3. queue' = [queue EXCEPT ![o] = [q EXCEPT ![k] = m]]
    BY <1>1, <2>1 DEF LedgerInv, Msg
  <2> HIDE DEF m
  <2> QED
    BY <1>4, <2>1, <2>2, <2>3
<1> QED
  BY <1>3, <1>5, <1>6

LEMMA TruthStep ==
    ASSUME LedgerInv, TurnInv, FactsInv, TruthInv, [Next]_vars
    PROVE  TruthInv'
<1>1. CASE NextDay \/ UNCHANGED vars
  <2>1. UNCHANGED <<orderVars, outbox, queue, sent, fact, lines, hurt>>
    BY <1>1 DEF NextDay, vars, orderVars, queueVars, factVars
  <2> QED
    BY <2>1, OthersTruthful DEF TruthInv, orderVars
<1>2. ASSUME NEW o \in Order, NEW e \in outbox[o], EnqueueFails(o, e)
      PROVE  TruthInv'
  <2>1. placed[o] # None
    BY Begun
  <2>2. o \in hurt' /\ hurt \subseteq hurt' /\ UNCHANGED <<orderVars, sent, queue, fact, lines>>
    BY <1>2 DEF EnqueueFails, Hurt, factVars
  <2>3. \A p \in Order : p # o => outbox'[p] = outbox[p]
    BY <1>2 DEF EnqueueFails, LedgerInv
  <2> QED
    BY <2>1, <2>2, <2>3, Judged
<1>3. ASSUME NEW o \in Order, DeadLetter(o)
      PROVE  TruthInv'
  <2>1. placed[o] # None
    BY <1>3, Begun DEF DeadLetter
  <2>2. o \in hurt' /\ hurt \subseteq hurt' /\ UNCHANGED <<orderVars, outbox, sent, fact, lines>>
    BY <1>3 DEF DeadLetter, Hurt, factVars
  <2>3. \A p \in Order : p # o => queue'[p] = queue[p]
    BY <1>3 DEF DeadLetter, LedgerInv
  <2> QED
    BY <2>1, <2>2, <2>3, Judged
<1>4. ASSUME NEW o \in Order, EndBatch(o)
      PROVE  TruthInv'
  <2>1. UNCHANGED <<orderVars, outbox, sent, fact, lines, hurt>> /\ queue' = [queue EXCEPT ![o] = KeepFailed(o)]
    BY <1>4 DEF EndBatch, factVars
  <2>2. queue[o] # <<>>
    BY <1>4 DEF EndBatch, LedgerInv, TurnInv, InTurn, GroupInTurn, ChainInTurn
  <2>3. placed[o] # None /\ (o \in hurt \/ GoodNow(o))
    BY <2>2, Begun
  <2>4. queue'[o] = KeepFailed(o) /\ \A p \in Order : p # o => queue'[p] = queue[p]
    BY <2>1 DEF LedgerInv
  <2>5. o \in hurt \/ Good(o, outbox[o], KeepFailed(o), sent[o], fact[o], lines[o])
    BY <1>4, <2>3, BatchKept DEF GoodNow
  <2>6. o \in hurt' \/ Good(o, outbox'[o], queue'[o], sent'[o], fact'[o], lines'[o])
    BY <2>1, <2>4, <2>5
  <2> QED
    BY <2>1, <2>3, <2>4, <2>6, Judged
<1>5. ASSUME NEW o \in Order, NEW i \in Item, Revive(o, i)
      PROVE  TruthInv'
  <2>1. /\ placed[o] # None /\ hurt' = hurt \union {o} /\ live' = [live EXCEPT ![o] = @ \union {i}]
        /\ UNCHANGED <<placed, payments, outbox, queue, sent, fact, lines>>
    BY <1>5 DEF Revive, MayRequest, Hurt, queueVars, factVars
  <2>2. Truthful(o)'
    BY <2>1 DEF Truthful
  <2>3. ASSUME NEW p \in Order, p # o
        PROVE  Truthful(p)'
    <3>1. live'[p] = live[p] /\ hurt \subseteq hurt'
      BY <2>1, <2>3 DEF FactsInv
    <3> QED
      BY <2>1, <2>3, <3>1, OthersTruthful
  <2> QED
    BY <2>2, <2>3 DEF TruthInv
<1> QED
  BY <1>1, <1>2, <1>3, <1>4, <1>5, PlaceTruthful, PayTruthful, CancelTruthful, EnqueueTruthful, ReceiveTruthful,
     FirstTruthful, SecondTruthful, CrashTruthful, FailTruthful
     DEF Next, Producers, Deliver, Misfortune

LEMMA TruthInit ==
    ASSUME Init
    PROVE  TruthInv
<1> SUFFICES ASSUME NEW o \in Order PROVE Truthful(o)
  BY DEF TruthInv
<1>1. /\ live[o] = Item /\ payments[o] = 0 /\ outbox[o] = {} /\ sent[o] = {} /\ queue[o] = <<>> /\ DOMAIN queue[o] = {}
      /\ placed[o] = IF o \in Historic THEN 0 ELSE None
      /\ fact[o] = IF o \in Historic THEN Ledger!NewFact(0) ELSE NoFact
      /\ lines[o] = IF o \in Historic THEN Item ELSE {}
  BY DEF Init
<1>2. 0 \in Day /\ 0 # None
  BY ReportingAssumption DEF Day
<1>3. CASE o \notin Historic
  BY <1>1, <1>3 DEF Truthful, Untouched
<1>4. CASE o \in Historic
  <2>1. \A steps : Cancelled(outbox[o], queue[o], steps) = {}
    BY <1>1 DEF Cancelled
  <2>2. /\ Owed(outbox[o], queue[o]) = {} /\ Remaining(outbox[o], queue[o]) = {} /\ Mentioned(outbox[o], queue[o]) = {}
        /\ ~Unsent(outbox[o]) /\ ~Unwritten(queue[o])
    BY <1>1, <2>1 DEF Owed, Remaining, Mentioned, Unsent, Unwritten
  <2>3. fact[o] = Ledger!NewFact(0) /\ fact[o] # NoFact
    BY <1>1, <1>2, <1>4, NewFactIsRow
  <2>4. /\ fact[o].gross = Ledger!Value[Item] /\ fact[o].count = Ledger!Count[Item]
        /\ fact[o].cancelled = 0 /\ fact[o].day = 0 /\ fact[o].paid = FALSE
    BY <2>3 DEF Ledger!NewFact
  <2>5. EventsApart(outbox[o], queue[o], sent[o], live[o]) /\ PlacedFirst(o, outbox[o], queue[o], sent[o])
    BY <1>1, <2>2 DEF EventsApart, PlacedFirst
  <2>6. HeadlineTrue(o, outbox[o], queue[o], fact[o])
    <3>1. Item \union {} = Item /\ Item \ Item = {}
      OBVIOUS
    <3> QED
      BY <1>1, <1>4, <2>2, <2>4, <3>1, Valued DEF HeadlineTrue
  <2>7. RowsTrue(o, outbox[o], queue[o], fact[o], lines[o])
    BY <1>1, <1>4, <2>2, <2>3 DEF RowsTrue
  <2>8. PaymentTrue(o, outbox[o], queue[o], sent[o], fact[o])
    BY <1>1, <2>4 DEF PaymentTrue, Credited
  <2> QED
    BY <1>1, <1>2, <1>4, <2>5, <2>6, <2>7, <2>8 DEF Truthful, Good
<1> QED
  BY <1>3, <1>4

LEMMA TruthIsTold ==
    ASSUME LedgerInv, FactsInv, TruthInv
    PROVE  FactsTellTheTruth
<1> SUFFICES ASSUME NEW o \in Order, Settled(o), o \notin hurt, placed[o] # None
             PROVE  /\ fact[o] # NoFact
                    /\ fact[o].gross = Ledger!Value[live[o]]
                    /\ fact[o].count = Ledger!Count[live[o]]
                    /\ fact[o].cancelled = Ledger!Value[Item \ live[o]]
                    /\ fact[o].paid = (payments[o] > 0)
                    /\ fact[o].day = placed[o]
                    /\ lines[o] = live[o]
  BY DEF FactsTellTheTruth
<1>1. Good(o, outbox[o], queue[o], sent[o], fact[o], lines[o])
  BY DEF TruthInv, Truthful
<1>2. outbox[o] = {} /\ queue[o] = <<>> /\ DOMAIN queue[o] = {}
  BY DEF Settled
<1>3. /\ Owed(outbox[o], queue[o]) = {} /\ Remaining(outbox[o], queue[o]) = {}
      /\ ~Unsent(outbox[o]) /\ ~Unwritten(queue[o])
  BY <1>2 DEF Owed, Remaining, Cancelled, Unsent, Unwritten
<1>4. fact[o] # NoFact /\ lines[o] = live[o]
  BY <1>1, <1>3 DEF Good, RowsTrue
<1>5. live[o] \union Owed(outbox[o], queue[o]) = live[o]
  BY <1>3
<1>6. /\ fact[o].gross = Ledger!Value[live[o]] /\ fact[o].count = Ledger!Count[live[o]]
      /\ fact[o].cancelled = Ledger!Value[Item \ live[o]] /\ fact[o].day = placed[o]
  BY <1>1, <1>4, <1>5 DEF Good, HeadlineTrue
<1>7. fact[o].paid = (payments[o] > 0)
  <2>1. fact[o].paid \in BOOLEAN
    BY <1>4 DEF FactsInv, FactRow
  <2>2. fact[o].paid <=> payments[o] > 0
    BY <1>1, <1>2, <1>4 DEF Good, PaymentTrue, Credited
  <2> QED
    BY <2>1, <2>2
<1> QED
  BY <1>4, <1>6, <1>7

(* When everything an order's requests enqueued has been handled, its two   *)
(* facts say what happened to it: the value and the quantities of the lines *)
(* that were not cancelled, the cancelled value, the payment, the day it    *)
(* was placed on, and item rows that add up to the headline, through every  *)
(* retry, redelivery and crash but the mishaps `hurt` records.              *)
THEOREM FactsAreTrue == Spec => []FactsTellTheTruth
<1>1. Init => LedgerInv /\ TurnInv /\ FactsInv /\ TruthInv
  BY LedgerInvInit, TurnInit, FactsInit, TruthInit
<1>2. LedgerInv /\ TurnInv /\ FactsInv /\ TruthInv /\ [Next]_vars => LedgerInv' /\ TurnInv' /\ FactsInv' /\ TruthInv'
  BY LedgerInvStep, TurnStep, FactsStep, TruthStep
<1>3. LedgerInv /\ TurnInv /\ FactsInv /\ TruthInv => FactsTellTheTruth
  BY TruthIsTold
<1> QED
  BY <1>1, <1>2, <1>3, PTL DEF Spec

-----------------------------------------------------------------------------
(* The refinement *)

LEMMA LedgerInit ==
    ASSUME Init
    PROVE  Ledger!Init
<1>1. 0 \in Day
  BY ReportingAssumption DEF Day
<1>2. [Ledger!NewFact(0) EXCEPT !.paid = FALSE] = Ledger!NewFact(0)
  <2> DEFINE value == Ledger!Value[Item]
             count == Ledger!Count[Item]
  <2>1. Ledger!NewFact(0) = [day |-> 0, waiter |-> None, paid |-> FALSE, gross |-> value, count |-> count,
                             cancelled |-> 0, cancelledCount |-> 0]
    BY DEF Ledger!NewFact
  <2> HIDE DEF value, count
  <2> QED
    BY <2>1
<1>3. \A o \in Historic : o \in Order /\ fact[o] = Ledger!NewFact(0)
  BY ReportingAssumption DEF Init
<1> QED
  BY <1>1, <1>2, <1>3 DEF Init, Ledger!Init

(* Only the worker's first statement writes the headline row.               *)
LEMMA OneWriter ==
    ASSUME [Next]_vars
    PROVE  UNCHANGED fact \/ \E o \in Order : \E k \in DOMAIN queue[o] : First(o, k)
<1>1. ASSUME NEW o \in Order, Producers(o)
      PROVE  UNCHANGED fact
  BY <1>1 DEF Producers, Place, Pay, Cancel, Revive, Enqueue, EnqueueFails, factVars
<1>2. ASSUME NEW o \in Order, Misfortune(o)
      PROVE  UNCHANGED fact
  BY <1>2 DEF Misfortune, Crash, Fail, factVars
<1>3. ASSUME NEW o \in Order, Deliver(o)
      PROVE  UNCHANGED fact \/ \E k \in DOMAIN queue[o] : First(o, k)
  BY <1>3 DEF Deliver, Receive, DeadLetter, EndBatch, Second, factVars
<1> QED
  BY <1>1, <1>2, <1>3 DEF Next, NextDay, factVars, vars

LEMMA LedgerStep ==
    ASSUME LedgerInv, [Next]_vars
    PROVE  [Ledger!Next]_fact
<1> SUFFICES ASSUME NEW o \in Order, NEW k \in DOMAIN queue[o], First(o, k)
             PROVE  [Ledger!Next]_fact
  BY OneWriter
<1> DEFINE e == queue[o][k].event
<1>1. e \in SoundEvent
  <2>1. queue[o] \in Seq(Msg)
    BY DEF LedgerInv
  <2>2. queue[o][k] \in Msg
    BY <2>1
  <2> QED
    BY <2>2 DEF Msg
<1>2. fact' = [fact EXCEPT ![o] = FirstStatement(o, e)]
  BY DEF First
<1>3. FirstStatement(o, e) = fact[o] => UNCHANGED fact
  BY <1>2 DEF LedgerInv
<1> HIDE DEF e
<1>4. CASE e.type = "order_placed"
  <2>1. CASE fact[o] = NoFact
    <3>1. e.day \in Day
      BY <1>1 DEF SoundEvent, EventShape
    <3>2. Ledger!Book(o)
      BY <1>2, <1>4, <2>1, <3>1 DEF FirstStatement, InsertOrderFact, ReportDate, Ledger!Book
    <3> QED
      BY <3>2 DEF Ledger!Next
  <2>2. CASE fact[o] # NoFact
    BY <1>3, <1>4, <2>2 DEF FirstStatement, InsertOrderFact
  <2> QED
    BY <2>1, <2>2
<1>5. CASE e.type = "order_waiter_assigned"
  <2>1. e.waiter \in Waiter
    BY <1>1, <1>5 DEF SoundEvent
  <2>2. CASE fact[o] # NoFact
    <3>1. Ledger!Attribute(o)
      BY <1>2, <1>5, <2>1, <2>2 DEF FirstStatement, UpdateWaiter, Ledger!Attribute
    <3> QED
      BY <3>1 DEF Ledger!Next
  <2> QED
    BY <1>3, <1>5, <2>2 DEF FirstStatement, UpdateWaiter
<1>6. CASE e.type = "order_paid"
  <2>1. CASE fact[o] # NoFact
    <3>1. Ledger!Settle(o)
      BY <1>2, <1>6, <2>1 DEF FirstStatement, UpdatePaid, Ledger!Settle
    <3> QED
      BY <3>1 DEF Ledger!Next
  <2> QED
    BY <1>3, <1>6, <2>1 DEF FirstStatement, UpdatePaid
<1>7. CASE e.type = "order_items_cancelled"
  <2>1. e.items \in (SUBSET Item) \ {{}}
    BY <1>1, <1>7 DEF SoundEvent, EventShape
  <2>2. CASE fact[o] # NoFact
    <3> DEFINE value == Ledger!Value[e.items]
               count == Ledger!Count[e.items]
               gross == Ledger!Minus(fact[o].gross, value)
               left == Ledger!Minus(fact[o].count, count)
    <3>1. fact' = [fact EXCEPT ![o] = [fact[o] EXCEPT !.gross = gross, !.count = left,
                                                      !.cancelled = @ + value, !.cancelledCount = @ + count]]
      BY <1>2, <1>7, <2>2 DEF FirstStatement, ApplyCancellation
    <3>2. fact' = [fact EXCEPT ![o].gross = gross, ![o].count = left,
                               ![o].cancelled = @ + value, ![o].cancelledCount = @ + count]
      <4> HIDE DEF value, count, gross, left
      <4> QED
        BY <3>1
    <3>3. Ledger!Correct(o)
      BY <2>1, <2>2, <3>2 DEF Ledger!Correct
    <3> QED
      BY <3>3 DEF Ledger!Next
  <2> QED
    BY <1>3, <1>7, <2>2 DEF FirstStatement, ApplyCancellation
<1> QED
  BY <1>1, <1>4, <1>5, <1>6, <1>7 DEF SoundEvent, EventShape

(* Whatever is delivered late, twice or not at all, and however many        *)
(* statements fail, the headline row of an order does only what SalesLedger *)
(* allows: it is booked once, on the day it was placed, and corrected,      *)
(* attributed and settled afterwards.                                       *)
THEOREM ImplementsLedger == Spec => KeepsLedger
<1>1. Init => LedgerInv /\ Ledger!Init
  BY LedgerInvInit, LedgerInit
<1>2. LedgerInv /\ [Next]_vars => LedgerInv' /\ [Ledger!Next]_fact
  BY LedgerInvStep, LedgerStep
<1> QED
  BY <1>1, <1>2, PTL DEF Spec, KeepsLedger, Ledger!Spec

-----------------------------------------------------------------------------
(* More sums *)

LEMMA Summed ==
    ASSUME NEW f
    PROVE  SumFunction(f) = SumOver(f, DOMAIN f)
  BY DEF SumFunction, SumFunctionOnSet, FoldFunctionOnSet, MapThenFoldSet, SumOver, Adding, Some

(* A sum depends on the values it adds up only.                             *)
LEMMA SumSame ==
    ASSUME NEW f, NEW g, NEW S, IsFiniteSet(S), \A x \in S : f[x] \in Nat /\ g[x] = f[x]
    PROVE  SumOver(g, S) = SumOver(f, S)
<1> DEFINE a == CHOOSE add : Adding(f, S, add)
           b == CHOOSE add : Adding(g, S, add)
<1>1. (\E add : Adding(f, S, add)) /\ (\E add : Adding(g, S, add))
  BY AddingExists
<1>2. Adding(f, S, a) /\ Adding(g, S, b)
  BY <1>1
<1>3. SumOver(f, S) = a[S] /\ SumOver(g, S) = b[S]
  BY DEF SumOver
<1> HIDE DEF a, b
<1>4. \A s \in SUBSET S : s # {} => g[Some(s)] = f[Some(s)]
  BY SomeIn
<1>5. b = [s \in SUBSET S |-> IF s = {} THEN 0 ELSE g[Some(s)] + b[s \ {Some(s)}]]
  BY <1>2 DEF Adding
<1>6. [s \in SUBSET S |-> IF s = {} THEN 0 ELSE g[Some(s)] + b[s \ {Some(s)}]]
        = [s \in SUBSET S |-> IF s = {} THEN 0 ELSE f[Some(s)] + b[s \ {Some(s)}]]
  BY <1>4
<1>7. Adding(f, S, b)
  BY <1>5, <1>6 DEF Adding
<1>8. \A s \in SUBSET S : a[s] = b[s]
  BY <1>2, <1>7, S \in SUBSET S, AddingUnique
<1> QED
  BY <1>3, <1>8

(* What the parts add up to, the parts being those with the same key.       *)
LEMMA SumParts ==
    ASSUME NEW f, NEW S, IsFiniteSet(S), \A x \in S : f[x] \in Nat,
           NEW key, NEW K, IsFiniteSet(K), \A x \in S : key[x] \in K,
           NEW g, \A k \in K : g[k] = SumOver(f, {x \in S : key[x] = k})
    PROVE  SumOver(g, K) = SumOver(f, S)
<1> DEFINE Of(J) == {x \in S : key[x] \in J}
           Part(k) == {x \in S : key[x] = k}
           Sums(J) == SumOver(g, J) = SumOver(f, Of(J))
           bad == {Cardinality(J) : J \in {J \in SUBSET K : ~Sums(J)}}
<1>1. \A J \in SUBSET K : Cardinality(J) \in Nat /\ IsFiniteSet(J)
  BY Smaller
<1>2. \A T \in SUBSET S : IsFiniteSet(T) /\ SumOver(f, T) \in Nat /\ \A x \in T : f[x] \in Nat
  <2> TAKE T \in SUBSET S
  <2>1. IsFiniteSet(T) /\ \A x \in T : f[x] \in Nat
    BY Smaller
  <2> QED
    BY <2>1, SumBasics
<1>3. \A k \in K : g[k] \in Nat /\ g[k] = SumOver(f, Part(k)) /\ Part(k) \in SUBSET S
  BY <1>2
<1>4. Of(K) = S
  OBVIOUS
<1> SUFFICES ASSUME bad # {} PROVE FALSE
  <2>1. ~Sums(K) => Cardinality(K) \in bad
    OBVIOUS
  <2>2. Sums(K) => SumOver(g, K) = SumOver(f, S)
    BY <1>4
  <2> HIDE DEF bad, Sums
  <2> QED
    BY <2>1, <2>2
<1>5. bad \in SUBSET Nat
  BY <1>1
<1>6. PICK n \in bad : \A m \in bad : n <= m
  <2> HIDE DEF bad
  <2> QED
    BY <1>5, Least
<1>7. PICK J \in SUBSET K : ~Sums(J) /\ n = Cardinality(J)
  OBVIOUS
<1>8. J # {}
  <2> SUFFICES ASSUME J = {} PROVE Sums({})
    BY <1>7
  <2>1. Of({}) = {} /\ IsFiniteSet({})
    BY FS_EmptySet
  <2>2. SumOver(g, {}) = 0 /\ SumOver(f, {}) = 0
    BY <2>1, SumBasics
  <2> QED
    BY <2>1, <2>2
<1> PICK k \in J : TRUE
  BY <1>8
<1> DEFINE I == J \ {k}
<1>9. I \in SUBSET K /\ Cardinality(I) = n - 1 /\ n \in Nat
  BY <1>1, <1>7, Smaller
<1>10. Sums(I)
  <2>1. Cardinality(I) \notin bad
    <3> HIDE DEF bad, I
    <3> QED
      BY <1>6, <1>9
  <2> QED
    BY <1>9, <2>1
<1>11. SumOver(g, J) = g[k] + SumOver(g, I)
  <2>1. IsFiniteSet(J) /\ \A j \in J : g[j] \in Nat
    BY <1>1, <1>3
  <2> QED
    BY <2>1, SumTake
<1>12. SumOver(f, Of(J)) = SumOver(f, Part(k)) + SumOver(f, Of(I))
  <2>1. Of(J) \in SUBSET S /\ Part(k) \in SUBSET Of(J) /\ Of(J) \ Part(k) = Of(I)
    OBVIOUS
  <2>2. IsFiniteSet(Of(J)) /\ \A x \in Of(J) : f[x] \in Nat
    BY <1>2, <2>1
  <2> HIDE DEF Of, Part, I
  <2> QED
    BY <2>1, <2>2, SumSplit
<1>13. k \in K /\ g[k] = SumOver(f, Part(k))
  BY <1>3
<1> HIDE DEF I, Of, Part
<1> QED
  BY <1>7, <1>10, <1>11, <1>12, <1>13

LEMMA ImageFinite ==
    ASSUME NEW S, IsFiniteSet(S), NEW f
    PROVE  IsFiniteSet({f[x] : x \in S})
<1> DEFINE T == {f[x] : x \in S}
           h == [x \in S |-> f[x]]
<1>1. h \in [S -> T] /\ \A t \in T : \E x \in S : h[x] = t
  OBVIOUS
<1>2. h \in Surjection(S, T)
  BY <1>1, Zenon DEF Surjection
<1> QED
  BY <1>2, FS_Surjection

(* A column of a breakdown adds up to the column of the rows it breaks      *)
(* down.                                                                    *)
LEMMA ColumnAddsUp ==
    ASSUME NEW f, NEW S, IsFiniteSet(S), \A x \in S : f[x] \in Nat,
           NEW key, NEW K, IsFiniteSet(K), \A x \in S : key[x] \in K,
           NEW h, DOMAIN h = K,
           \A k \in K : h[k] = SumFunction([x \in {y \in S : key[y] = k} |-> f[x]])
    PROVE  SumFunction(h) = SumFunction([x \in S |-> f[x]])
<1> DEFINE Part(k) == {y \in S : key[y] = k}
<1>1. ASSUME NEW k \in K
      PROVE  h[k] = SumOver(f, Part(k))
  <2> DEFINE g == [x \in Part(k) |-> f[x]]
  <2>1. SumFunction(g) = SumOver(g, DOMAIN g) /\ DOMAIN g = Part(k)
    BY Summed
  <2>2. IsFiniteSet(Part(k)) /\ \A x \in Part(k) : f[x] \in Nat /\ g[x] = f[x]
    BY Smaller
  <2>3. h[k] = SumFunction(g)
    OBVIOUS
  <2> HIDE DEF g, Part
  <2>4. SumOver(g, Part(k)) = SumOver(f, Part(k))
    BY <2>2, SumSame
  <2> QED
    BY <2>1, <2>3, <2>4
<1>2. SumOver(h, K) = SumOver(f, S)
  BY <1>1, SumParts
<1>3. SumFunction(h) = SumOver(h, K)
  BY Summed
<1> DEFINE all == [x \in S |-> f[x]]
<1>4. SumFunction(all) = SumOver(all, S)
  <2>1. SumFunction(all) = SumOver(all, DOMAIN all) /\ DOMAIN all = S
    BY Summed
  <2> HIDE DEF all
  <2> QED
    BY <2>1
<1>5. \A x \in S : f[x] \in Nat /\ all[x] = f[x]
  OBVIOUS
<1> HIDE DEF all
<1>6. SumOver(all, S) = SumOver(f, S)
  BY <1>5, SumSame
<1> QED
  BY <1>2, <1>3, <1>4, <1>6 DEF all

-----------------------------------------------------------------------------
(* The reports *)

Booked == {o \in Order : fact[o] # NoFact}

BookedInv == IsFiniteSet(Booked)

LEMMA BookedInit ==
    ASSUME Init
    PROVE  BookedInv
<1>1. Booked \in SUBSET Historic
  BY DEF Init, Booked
<1> QED
  BY <1>1, ReportingAssumption, FS_Subset DEF BookedInv

LEMMA BookedStep ==
    ASSUME FactsInv, BookedInv, [Next]_vars
    PROVE  BookedInv'
<1>1. CASE UNCHANGED fact
  BY <1>1 DEF BookedInv, Booked
<1>2. ASSUME NEW o \in Order, NEW k \in DOMAIN queue[o], First(o, k)
      PROVE  BookedInv'
  <2>1. \A p \in Order : p # o => fact'[p] = fact[p]
    BY <1>2 DEF First, FactsInv
  <2>2. Booked' \in SUBSET (Booked \union {o})
    BY <2>1 DEF Booked
  <2>3. IsFiniteSet(Booked \union {o})
    BY FS_AddElement DEF BookedInv
  <2> QED
    BY <2>2, <2>3, FS_Subset DEF BookedInv
<1> QED
  BY <1>1, <1>2, OneWriter

LEMMA RowsOfRange ==
    ASSUME FactsInv, BookedInv, NEW from \in Day, NEW to \in Day
    PROVE  /\ IsFiniteSet(InRange(from, to)) /\ IsFiniteSet(ItemRows(from, to)) /\ IsFiniteSet(from .. to)
           /\ \A o \in InRange(from, to) : o \in Order /\ fact[o] \in FactRow /\ fact[o].day \in from .. to
           /\ \A r \in ItemRows(from, to) : r[1] \in Order /\ r[2] \in Item
<1>1. InRange(from, to) \in SUBSET Booked
  BY DEF InRange, Booked
<1>2. IsFiniteSet(InRange(from, to))
  BY <1>1, FS_Subset DEF BookedInv
<1>3. ItemRows(from, to) \in SUBSET (InRange(from, to) \X Item)
  BY DEF ItemRows
<1>4. IsFiniteSet(InRange(from, to) \X Item)
  BY <1>2, ReportingAssumption, FS_Product
<1>5. IsFiniteSet(ItemRows(from, to))
  BY <1>3, <1>4, FS_Subset
<1>6. IsFiniteSet(from .. to)
  BY FS_Interval DEF Day
<1> QED
  BY <1>2, <1>5, <1>6 DEF InRange, ItemRows, FactsInv

(* The waiters' buckets add up to the total.                                *)
LEMMA WaitersAddUp ==
    ASSUME FactsInv, BookedInv, NEW from \in Day, NEW to \in Day
    PROVE  LET by == ByWaiter(from, to) IN
           SumFunction([w \in DOMAIN by |-> by[w].gross]) = Gross(InRange(from, to))
<1> DEFINE by == ByWaiter(from, to)
           rows == InRange(from, to)
           key == [o \in rows |-> fact[o].waiter]
           f == [o \in rows |-> fact[o].gross]
           K == {key[o] : o \in rows}
           Part(k) == {o \in rows : key[o] = k}
           h == [w \in DOMAIN by |-> by[w].gross]
<1>1. IsFiniteSet(rows) /\ (\A o \in rows : fact[o] \in FactRow) /\ \A o \in rows : key[o] \in K
  BY RowsOfRange
<1>2. {fact[o].waiter : o \in rows} = K /\ \A k : {o \in rows : fact[o].waiter = k} = Part(k)
  OBVIOUS
<1>3. by = [k \in {fact[o].waiter : o \in rows} |-> Bucket({o \in rows : fact[o].waiter = k})]
  BY DEF ByWaiter, Breakdown
<1>4. DOMAIN by = K /\ \A k \in K : by[k] = Bucket(Part(k))
  <2> HIDE DEF by, rows, key, K
  <2> QED
    BY <1>2, <1>3
<1>5. IsFiniteSet(K)
  <2> HIDE DEF rows, key
  <2> QED
    BY <1>1, ImageFinite
<1>6. DOMAIN h = K /\ \A k \in K : h[k] = Gross(Part(k))
  <2> HIDE DEF by, Part, K
  <2> QED
    BY <1>4 DEF Bucket
<1>7. \A o \in rows : f[o] \in Nat
  BY <1>1 DEF FactRow
<1>8. \A k \in K : [o \in Part(k) |-> fact[o].gross] = [o \in Part(k) |-> f[o]]
  OBVIOUS
<1>9. \A k \in K : h[k] = SumFunction([o \in {o \in rows : key[o] = k} |-> f[o]])
  <2> HIDE DEF h, K, f
  <2> QED
    BY <1>6, <1>8 DEF Gross
<1>10. [o \in rows |-> f[o]] = f
  OBVIOUS
<1> HIDE DEF h, K, f, key, rows, by, Part
<1>11. SumFunction(h) = SumFunction([o \in rows |-> f[o]])
  BY <1>1, <1>5, <1>6, <1>7, <1>9, ColumnAddsUp
<1>12. Gross(rows) = SumFunction(f)
  BY DEF Gross, f
<1> QED
  BY <1>10, <1>11, <1>12 DEF h, by, rows

(* When all is told, what the reports add up is what the tables hold.       *)
Told(o) == /\ fact[o].gross = Ledger!Value[live[o]] /\ fact[o].count = Ledger!Count[live[o]]
           /\ fact[o].paid = (payments[o] > 0) /\ lines[o] = live[o]

Known == {o \in Order : placed[o] # None}

LEMMA AllIsTold ==
    ASSUME LedgerInv, FactsInv, TruthInv, AllTold
    PROVE  /\ \A o \in Known : Told(o)
           /\ \A from, to \in Day : InRange(from, to) = Sold(from, to) /\ Sold(from, to) \in SUBSET Known
           /\ \A from, to \in Day : ItemRows(from, to) = SoldLines(from, to)
<1>1. \A o \in Known : Told(o) /\ fact[o] # NoFact /\ fact[o].day = placed[o]
  <2>1. FactsTellTheTruth
    BY TruthIsTold
  <2> QED
    BY <2>1 DEF AllTold, FactsTellTheTruth, Told, Known
<1>2. \A o \in Order : o \notin Known => fact[o] = NoFact
  BY DEF TruthInv, Truthful, Untouched, Known
<1>3. ASSUME NEW from \in Day, NEW to \in Day
      PROVE  InRange(from, to) = Sold(from, to)
  <2>1. ASSUME NEW o \in Order
        PROVE  o \in InRange(from, to) <=> o \in Sold(from, to)
    BY <1>1, <1>2 DEF InRange, Sold, Known
  <2> QED
    BY <2>1 DEF InRange, Sold
<1>4. \A from, to \in Day : Sold(from, to) \in SUBSET Known
  BY DEF Sold, Known
<1>5. \A from, to \in Day : ItemRows(from, to) = SoldLines(from, to)
  <2> TAKE from, to \in Day
  <2>1. \A o \in Sold(from, to) : lines[o] = live[o]
    BY <1>1, <1>4 DEF Told
  <2> QED
    BY <1>3, <2>1 DEF ItemRows, SoldLines
<1> QED
  BY <1>1, <1>3, <1>4, <1>5

LEMMA BucketsTrue ==
    ASSUME \A o \in Known : Told(o), NEW S \in SUBSET Known
    PROVE  /\ Bucket(S) = Sales(S)
           /\ SumFunction([o \in S |-> fact[o].count]) = SumFunction([o \in S |-> Ledger!Count[live[o]]])
<1> DEFINE worth == [o \in S |-> Ledger!Value[live[o]]]
           paid == {o \in S : payments[o] > 0}
<1>1. \A o \in S : /\ fact[o].gross = Ledger!Value[live[o]] /\ fact[o].count = Ledger!Count[live[o]]
                    /\ fact[o].paid = (payments[o] > 0)
  BY DEF Told
<1>2. PaidOf(S) = paid
  BY <1>1 DEF PaidOf
<1>3. [o \in S |-> fact[o].gross] = worth
  BY <1>1
<1>4. [o \in paid |-> fact[o].gross] = [o \in paid |-> worth[o]]
  BY <1>1
<1>5. [o \in S |-> fact[o].count] = [o \in S |-> Ledger!Count[live[o]]]
  BY <1>1
<1>6. Sales(S) = [gross |-> SumFunction(worth), paid |-> SumFunction([o \in paid |-> worth[o]]),
                  orders |-> Cardinality(S)]
  BY DEF Sales
<1> HIDE DEF worth, paid
<1>7. Gross(S) = SumFunction(worth) /\ Gross(PaidOf(S)) = SumFunction([o \in paid |-> worth[o]])
  BY <1>2, <1>3, <1>4 DEF Gross
<1> QED
  BY <1>5, <1>6, <1>7 DEF Bucket

LEMMA ItemBucketsTrue ==
    ASSUME \A o \in Known : Told(o), NEW R, \A r \in R : r[1] \in Known
    PROVE  ItemBucket(R) = LineSales(R)
<1>1. {r \in R : fact[r[1]].paid} = {r \in R : payments[r[1]] > 0}
  BY DEF Told
<1> QED
  BY <1>1 DEF ItemBucket, LineSales

LEMMA ReportsTrue ==
    ASSUME LedgerInv, FactsInv, TruthInv, BookedInv
    PROVE  ReportsTellTheTruth
<1> SUFFICES ASSUME AllTold, NEW from \in Day, NEW to \in Day
             PROVE  LET sold  == Sold(from, to)
                        sales == Sales(sold)
                        total == Totals(from, to)
                        waiters == BreakdownBy("waiter", from, to) IN
                    /\ total.gross = sales.gross /\ total.paid = sales.paid /\ total.orders = sales.orders
                    /\ total.items = SumFunction([o \in sold |-> Ledger!Count[live[o]]])
                    /\ RevenueByDay(from, to) = [d \in from .. to |-> Sales(Sold(d, d))]
                    /\ BreakdownBy("table", from, to) =
                           [t \in {TableOf[o] : o \in sold} |-> Sales({o \in sold : TableOf[o] = t})]
                    /\ BreakdownBy("menu_item", from, to) =
                           [i \in UNION {live[o] : o \in sold} |->
                               LineSales({r \in SoldLines(from, to) : r[2] = i})]
                    /\ BreakdownBy("category", from, to) =
                           [c \in {CategoryOf[i] : i \in UNION {live[o] : o \in sold}} |->
                               LineSales({r \in SoldLines(from, to) : CategoryOf[r[2]] = c})]
                    /\ SumFunction([w \in DOMAIN waiters |-> waiters[w].gross]) = sales.gross
  BY DEF ReportsTellTheTruth
<1> DEFINE sold == Sold(from, to)
           rows == SoldLines(from, to)
<1>1. /\ \A o \in Known : Told(o)
      /\ InRange(from, to) = sold /\ sold \in SUBSET Known /\ ItemRows(from, to) = rows
  BY AllIsTold
<1>2. \A r \in rows : r[1] \in Known /\ r[1] \in sold /\ r[2] \in live[r[1]]
  BY <1>1 DEF SoldLines
<1>3. {r[2] : r \in rows} = UNION {live[o] : o \in sold}
  <2>1. ASSUME NEW o \in sold, NEW i \in live[o]
        PROVE  i \in {r[2] : r \in rows}
    <3>1. o \in Order /\ i \in Item
      BY <2>1 DEF Sold, FactsInv
    <3>2. <<o, i>> \in rows
      BY <2>1, <3>1 DEF SoldLines
    <3> QED
      BY <3>2
  <2> HIDE DEF sold, rows
  <2> QED
    BY <1>2, <2>1
<1>4. \A S \in SUBSET sold : Bucket(S) = Sales(S)
  BY <1>1, BucketsTrue
<1>5. \A R \in SUBSET rows : ItemBucket(R) = LineSales(R)
  BY <1>1, <1>2, ItemBucketsTrue
<1>6. /\ Totals(from, to).gross = Sales(sold).gross /\ Totals(from, to).paid = Sales(sold).paid
      /\ Totals(from, to).orders = Sales(sold).orders
      /\ Totals(from, to).items = SumFunction([o \in sold |-> Ledger!Count[live[o]]])
  <2>1. Bucket(sold) = Sales(sold)
    BY <1>4
  <2>2. SumFunction([o \in sold |-> fact[o].count]) = SumFunction([o \in sold |-> Ledger!Count[live[o]]])
    BY <1>1, BucketsTrue
  <2> HIDE DEF sold
  <2>3. /\ Totals(from, to).gross = Bucket(sold).gross /\ Totals(from, to).paid = Bucket(sold).paid
        /\ Totals(from, to).orders = Bucket(sold).orders
        /\ Totals(from, to).items = SumFunction([o \in sold |-> fact[o].count])
    BY <1>1 DEF Totals, Bucket
  <2> QED
    BY <2>1, <2>2, <2>3
<1>7. RevenueByDay(from, to) = [d \in from .. to |-> Sales(Sold(d, d))]
  <2>1. ASSUME NEW d \in from .. to
        PROVE  Bucket(InRange(d, d)) = Sales(Sold(d, d))
    <3>1. d \in Day
      BY ReportingAssumption DEF Day
    <3>2. InRange(d, d) = Sold(d, d) /\ Sold(d, d) \in SUBSET Known
      BY <3>1, AllIsTold
    <3> QED
      BY <1>1, <3>2, BucketsTrue
  <2> QED
    BY <2>1 DEF RevenueByDay
<1>8. BreakdownBy("table", from, to) = [t \in {TableOf[o] : o \in sold} |-> Sales({o \in sold : TableOf[o] = t})]
  <2>1. BreakdownBy("table", from, to)
          = [t \in {TableOf[o] : o \in sold} |-> Bucket({o \in sold : TableOf[o] = t})]
    BY <1>1 DEF BreakdownBy, ByTable, Breakdown
  <2>2. \A t : {o \in sold : TableOf[o] = t} \in SUBSET sold
    OBVIOUS
  <2> HIDE DEF sold
  <2> QED
    BY <1>4, <2>1, <2>2
<1>9. BreakdownBy("menu_item", from, to)
        = [i \in UNION {live[o] : o \in sold} |-> LineSales({r \in rows : r[2] = i})]
  <2>1. BreakdownBy("menu_item", from, to) = [i \in {r[2] : r \in rows} |-> ItemBucket({r \in rows : r[2] = i})]
    BY <1>1 DEF BreakdownBy, ByMenuItem, ItemBreakdown
  <2>2. \A i : {r \in rows : r[2] = i} \in SUBSET rows
    OBVIOUS
  <2> HIDE DEF sold, rows
  <2> QED
    BY <1>3, <1>5, <2>1, <2>2
<1>10. BreakdownBy("category", from, to)
         = [c \in {CategoryOf[i] : i \in UNION {live[o] : o \in sold}} |->
               LineSales({r \in rows : CategoryOf[r[2]] = c})]
  <2>1. BreakdownBy("category", from, to)
          = [c \in {CategoryOf[r[2]] : r \in rows} |-> ItemBucket({r \in rows : CategoryOf[r[2]] = c})]
    BY <1>1 DEF BreakdownBy, ByCategory, ItemBreakdown
  <2>2. \A c : {r \in rows : CategoryOf[r[2]] = c} \in SUBSET rows
    OBVIOUS
  <2>3. {CategoryOf[r[2]] : r \in rows} = {CategoryOf[i] : i \in {r[2] : r \in rows}}
    OBVIOUS
  <2> HIDE DEF sold, rows
  <2> QED
    BY <1>3, <1>5, <2>1, <2>2, <2>3
<1>11. LET waiters == BreakdownBy("waiter", from, to) IN
       SumFunction([w \in DOMAIN waiters |-> waiters[w].gross]) = Sales(sold).gross
  <2>1. BreakdownBy("waiter", from, to) = ByWaiter(from, to)
    BY DEF BreakdownBy
  <2>2. Gross(sold) = Sales(sold).gross
    <3>1. Bucket(sold) = Sales(sold)
      BY <1>4
    <3> QED
      BY <3>1 DEF Bucket
  <2> QED
    BY <1>1, <2>1, <2>2, WaitersAddUp
<1> HIDE DEF sold, rows
<1> QED
  BY <1>6, <1>7, <1>8, <1>9, <1>10, <1>11 DEF sold, rows

(* Once the events of every order are handled and none was hurt, whatever   *)
(* statement a report is drawn from, over whatever range of days, says what *)
(* the operational tables say of the orders placed in it, for any number of *)
(* orders, lines, tables, categories and waiters.                           *)
THEOREM ReportsAreTrue == Spec => []ReportsTellTheTruth
<1>1. Init => LedgerInv /\ TurnInv /\ FactsInv /\ TruthInv /\ BookedInv
  BY LedgerInvInit, TurnInit, FactsInit, TruthInit, BookedInit
<1>2. LedgerInv /\ TurnInv /\ FactsInv /\ TruthInv /\ BookedInv /\ [Next]_vars
        => LedgerInv' /\ TurnInv' /\ FactsInv' /\ TruthInv' /\ BookedInv'
  BY LedgerInvStep, TurnStep, FactsStep, TruthStep, BookedStep
<1>3. LedgerInv /\ FactsInv /\ TruthInv /\ BookedInv => ReportsTellTheTruth
  BY ReportsTrue
<1> QED
  BY <1>1, <1>2, <1>3, PTL DEF Spec

LEMMA LimitFinds ==
    ASSUME NEW from, NEW to, IsFiniteSet(ItemRows(from, to)),
           NEW rows \in Limited(from, to, RawLimit), Cardinality(rows) <= MaxRawRows
    PROVE  rows = ItemRows(from, to)
<1>1. MaxRawRows \in Nat /\ RawLimit = MaxRawRows + 1
  BY ReportingAssumption DEF RawLimit
<1>2. CASE Cardinality(ItemRows(from, to)) <= RawLimit
  BY <1>2 DEF Limited
<1>3. CASE ~(Cardinality(ItemRows(from, to)) <= RawLimit)
  <2>1. Cardinality(rows) = RawLimit
    BY <1>3 DEF Limited, kSubset
  <2> QED
    BY <1>1, <2>1
<1> QED
  BY <1>2, <1>3

(* An export of the raw rows is complete or refused: asking for one row     *)
(* more than it may have is enough to find out.                             *)
THEOREM ExportsAreWhole == Spec => []ExportCompleteOrRefused
<1>1. ASSUME FactsInv, BookedInv, NEW from \in Day, NEW to \in Day,
             NEW export \in RenderExport(from, to, None)
      PROVE  export.refused \/ export.rows = ItemRows(from, to)
  <2>1. None \notin Dimensions
    BY ReportingAssumption
  <2>2. PICK rows \in Limited(from, to, RawLimit) :
            export = [refused |-> Cardinality(rows) > MaxRawRows, rows |-> rows]
    BY <1>1, <2>1 DEF RenderExport, ExportOrderItems
  <2>3. IsFiniteSet(ItemRows(from, to))
    BY <1>1, RowsOfRange
  <2>4. IsFiniteSet(rows) /\ Cardinality(rows) \in Nat
    <3>1. rows \in SUBSET ItemRows(from, to)
      BY <2>2 DEF Limited, kSubset
    <3> QED
      BY <2>3, <3>1, FS_Subset, FS_CardinalityType
  <2>5. ~export.refused => Cardinality(rows) <= MaxRawRows
    <3>1. CASE Cardinality(rows) > MaxRawRows
      BY <2>2, <3>1
    <3>2. CASE ~(Cardinality(rows) > MaxRawRows)
      BY <2>4, <3>2, ReportingAssumption
    <3> QED
      BY <3>1, <3>2
  <2> QED
    BY <2>2, <2>3, <2>5, LimitFinds
<1>2. FactsInv /\ BookedInv => ExportCompleteOrRefused
  BY <1>1 DEF ExportCompleteOrRefused
<1>3. Init => LedgerInv /\ TurnInv /\ FactsInv /\ BookedInv
  BY LedgerInvInit, TurnInit, FactsInit, BookedInit
<1>4. LedgerInv /\ TurnInv /\ FactsInv /\ BookedInv /\ [Next]_vars => LedgerInv' /\ TurnInv' /\ FactsInv' /\ BookedInv'
  BY LedgerInvStep, TurnStep, FactsStep, BookedStep
<1> QED
  BY <1>2, <1>3, <1>4, PTL DEF Spec
=============================================================================
