-------------------------- MODULE MinimalPlanProofs --------------------------
(***************************************************************************)
(* compute_list_erases chooses block by block and never goes back, and yet *)
(* finds the shortest plan, and a plan whenever there is one: for every    *)
(* chip whose erase sizes divide each other.                               *)
(***************************************************************************)
EXTENDS MinimalPlan, ErasePlannerProofs, Induction

(* The smallest of some numbers.                                             *)
LEMMA LeastOfSet ==
    ASSUME NEW T \in SUBSET Nat, T # {}
    PROVE  /\ Min(T) \in T
           /\ \A y \in T : Min(T) <= y
<1>1. \E x \in T : \A y \in T : x <= y
  BY LeastNumber
<1>. QED
  BY <1>1, Zenon DEF Min
-----------------------------------------------------------------------------
(***************************************************************************)
(* The erasers in use, each of which has a block around every address.     *)
(***************************************************************************)
LEMMA UsedEraser ==
    ASSUME NEW i \in Used
    PROVE  /\ i \in Slots
           /\ Erasers[i].start = 0
           /\ Erasers[i].size \in Nat \ {0}
           /\ Erasers[i].count \in Nat
           /\ Erasers[i].size * Erasers[i].count = ChipSize
           /\ Erasers[i].size <= ChipSize
<1>1. i \in Slots /\ Erasers[i].block_erase # "none"
  BY DEF Used
<1>2. Erasers[i] \in EraserRecord /\ WellFormedEraser(Erasers[i])
  BY <1>1, ErasersAssumption DEF Slots
<1>3. /\ Erasers[i].start = 0
      /\ Erasers[i].size > 0
      /\ Erasers[i].size * Erasers[i].count = ChipSize
  BY <1>1, <1>2 DEF WellFormedEraser
<1>4. Erasers[i].size \in Nat \ {0} /\ Erasers[i].count \in Nat
  BY <1>2, <1>3, SMT DEF EraserRecord
<1>5. Erasers[i].size <= ChipSize
  BY <1>3, <1>4, ProductBound, SizesAssumption
<1>. QED
  BY <1>1, <1>3, <1>4, <1>5

LEMMA UsableEverywhere ==
    ASSUME NEW p \in 0..ChipSize
    PROVE  UsableAt(p) = Used
<1>1. p \in Nat /\ p <= ChipSize
  BY SizesAssumption, SMT
<1>2. ASSUME NEW i \in UsableAt(p)
      PROVE  i \in Used
  BY <1>1, <1>2, UsableEraser DEF Used
<1>3. ASSUME NEW i \in Used
      PROVE  i \in UsableAt(p)
  <2>1. /\ i \in Slots /\ Erasers[i].block_erase # "none"
        /\ Erasers[i].start = 0 /\ Erasers[i].size \in Nat \ {0}
        /\ Erasers[i].start + Erasers[i].size * Erasers[i].count = ChipSize
    BY <1>3, UsedEraser, SizesAssumption, SMT DEF Used
  <2>2. find_erase_block(i, p) = p \div Erasers[i].size
    <3>1. /\ ~(p < Erasers[i].start)
          /\ ~(p > Erasers[i].start + Erasers[i].size * Erasers[i].count)
          /\ p - Erasers[i].start = p
      BY <1>1, <2>1, SizesAssumption, SMT
    <3>. QED
      BY <2>1, <3>1 DEF find_erase_block
  <2>3. p \div Erasers[i].size \in Nat
    BY <1>1, <2>1, DivBounds
  <2>. QED
    BY <2>1, <2>2, <2>3, SMT DEF UsableAt
<1>. QED
  BY <1>2, <1>3
-----------------------------------------------------------------------------
(***************************************************************************)
(* The recursion equation of MinBlocks.  Its definition chooses a function *)
(* that solves the equation; there is one, because what is computed for a  *)
(* region only depends on smaller regions.                                 *)
(***************************************************************************)
Best(f, n) ==
    IF n = 0 THEN 0
    ELSE Min({Impossible} \cup {1 + f[n - Erasers[i].size] : i \in LastBlocks(n)})

LEMMA LastBlock ==
    ASSUME NEW n \in Nat, NEW i \in LastBlocks(n)
    PROVE  /\ i \in Used
           /\ Erasers[i].size \in Nat \ {0}
           /\ Erasers[i].size <= n
           /\ (n - Erasers[i].size) % Erasers[i].size = 0
           /\ n - Erasers[i].size \in 0..n - 1
<1>1. i \in Used /\ Erasers[i].size <= n /\ (n - Erasers[i].size) % Erasers[i].size = 0
  BY DEF LastBlocks
<1>2. Erasers[i].size \in Nat \ {0}
  BY <1>1, UsedEraser
<1>. QED
  BY <1>1, <1>2, SMT

LEMMA BestDependsBelow ==
    ASSUME NEW n \in Nat, NEW f, NEW g, \A k \in 0..n - 1 : f[k] = g[k]
    PROVE  Best(f, n) = Best(g, n)
<1>1. \A i \in LastBlocks(n) : f[n - Erasers[i].size] = g[n - Erasers[i].size]
  BY LastBlock
<1>2. {1 + f[n - Erasers[i].size] : i \in LastBlocks(n)}
        = {1 + g[n - Erasers[i].size] : i \in LastBlocks(n)}
  BY <1>1
<1>. QED
  BY <1>2 DEF Best

LEMMA SolutionsExist ==
    ASSUME NEW n \in Nat
    PROVE  \E f : f = [k \in 0..n |-> Best(f, k)]
<1> DEFINE Lacking == {m \in Nat : ~ \E f : f = [k \in 0..m |-> Best(f, k)]}
<1>1. SUFFICES ASSUME Lacking # {}
               PROVE  FALSE
  OBVIOUS
<1>2. PICK m \in Lacking : \A y \in Lacking : m <= y
  BY <1>1, LeastNumber
<1>3. m \in Nat /\ ~ \E f : f = [k \in 0..m |-> Best(f, k)]
  BY <1>2
<1>4. CASE m = 0
  <2> DEFINE f == [k \in 0..m |-> 0]
  <2>1. \A k \in 0..m : Best(f, k) = 0
    BY <1>4, SMT DEF Best
  <2>2. f = [k \in 0..m |-> Best(f, k)]
    BY <2>1
  <2>. QED
    BY <1>3, <2>2
<1>5. CASE m # 0
  <2>1. m - 1 \in Nat /\ ~(m <= m - 1)
    BY <1>3, <1>5, SMT
  <2>2. m - 1 \notin Lacking
    BY <1>2, <2>1
  <2>3. PICK g : g = [k \in 0..m - 1 |-> Best(g, k)]
    BY <2>1, <2>2
  <2> DEFINE f == [k \in 0..m |-> IF k = m THEN Best(g, m) ELSE g[k]]
  <2>4. \A k \in 0..m : k = m \/ k \in 0..m - 1
    BY <1>3, SMT
  <2>5. \A k \in 0..m - 1 : k \in 0..m /\ k # m /\ f[k] = g[k] /\ g[k] = Best(g, k)
    <3>1. TAKE k \in 0..m - 1
    <3>2. k \in 0..m /\ k # m
      BY <1>3, SMT
    <3>3. g[k] = Best(g, k)
      BY <2>3, Zenon
    <3>. QED
      BY <3>2, <3>3
  <2>6. ASSUME NEW k \in 0..m
        PROVE  f[k] = Best(f, k)
    <3>1. k \in Nat /\ \A j \in 0..k - 1 : j \in 0..m - 1
      BY <1>3, SMT
    <3> HIDE DEF f
    <3>2. Best(f, k) = Best(g, k)
      BY <2>5, <3>1, BestDependsBelow
    <3>3. f[k] = IF k = m THEN Best(g, m) ELSE g[k]
      BY DEF f
    <3>. QED
      BY <2>4, <2>5, <3>2, <3>3
  <2>7. f = [k \in 0..m |-> f[k]]
    OBVIOUS
  <2> HIDE DEF f
  <2>8. f = [k \in 0..m |-> Best(f, k)]
    BY <2>6, <2>7
  <2>. QED
    BY <1>3, <2>8
<1>. QED
  BY <1>4, <1>5

LEMMA MinBlocksEquation ==
    \A n \in 0..ChipSize : MinBlocks[n] = Best(MinBlocks, n)
<1>1. ChipSize \in Nat
  BY SizesAssumption
<1>2. \E f : f = [n \in 0..ChipSize |-> Best(f, n)]
  BY <1>1, SolutionsExist
<1>3. MinBlocks = CHOOSE f : f = [n \in 0..ChipSize |-> Best(f, n)]
  BY Zenon DEF MinBlocks, Best
<1>4. MinBlocks = [n \in 0..ChipSize |-> Best(MinBlocks, n)]
  BY <1>2, <1>3, Zenon
<1>. QED
  BY <1>4, Zenon

CoverCounts(n) == {1 + MinBlocks[n - Erasers[i].size] : i \in LastBlocks(n)}

LEMMA MinBlocksIsBest ==
    ASSUME NEW n \in 0..ChipSize, n # 0, \A k \in 0..n - 1 : MinBlocks[k] \in Nat
    PROVE  /\ MinBlocks[n] \in Nat
           /\ MinBlocks[n] <= Impossible
           /\ \A c \in CoverCounts(n) : c \in Nat /\ MinBlocks[n] <= c
           /\ MinBlocks[n] = Impossible \/ MinBlocks[n] \in CoverCounts(n)
<1>1. n \in Nat /\ ChipSize \in Nat /\ Impossible \in Nat
  BY SizesAssumption, SMT DEF Impossible
<1>2. MinBlocks[n] = Min({Impossible} \cup CoverCounts(n))
  BY MinBlocksEquation DEF Best, CoverCounts
<1>3. \A c \in CoverCounts(n) : c \in Nat
  <2>1. ASSUME NEW i \in LastBlocks(n)
        PROVE  1 + MinBlocks[n - Erasers[i].size] \in Nat
    <3>1. n - Erasers[i].size \in 0..n - 1
      BY <1>1, LastBlock
    <3>2. MinBlocks[n - Erasers[i].size] \in Nat
      BY <3>1
    <3>. QED
      BY <3>2, SMT
  <2>. QED
    BY <2>1 DEF CoverCounts
<1> DEFINE T == {Impossible} \cup CoverCounts(n)
<1>4. T \in SUBSET Nat /\ T # {}
  BY <1>1, <1>3
<1>5. Min(T) \in T /\ \A y \in T : Min(T) <= y
  BY <1>4, LeastOfSet
<1>6. Min(T) <= Impossible /\ \A c \in CoverCounts(n) : Min(T) <= c
  BY <1>5
<1>7. Min(T) \in Nat /\ (Min(T) = Impossible \/ Min(T) \in CoverCounts(n))
  BY <1>4, <1>5
<1>. QED
  BY <1>2, <1>3, <1>6, <1>7

LEMMA MinBlocksType ==
    /\ MinBlocks[0] = 0
    /\ \A n \in 0..ChipSize : MinBlocks[n] \in Nat
<1>1. ChipSize \in Nat /\ 0 \in 0..ChipSize
  BY SizesAssumption, SMT
<1>2. MinBlocks[0] = 0
  BY <1>1, MinBlocksEquation DEF Best
<1> DEFINE Lacking == {n \in 0..ChipSize : MinBlocks[n] \notin Nat}
<1>3. ASSUME Lacking # {}
      PROVE  FALSE
  <2>1. Lacking \in SUBSET Nat
    BY <1>1, SMT
  <2>2. PICK n \in Lacking : \A y \in Lacking : n <= y
    BY <1>3, <2>1, LeastNumber
  <2>3. n \in 0..ChipSize /\ MinBlocks[n] \notin Nat /\ n # 0
    BY <1>2, <2>2
  <2>4. ASSUME NEW k \in 0..n - 1
        PROVE  MinBlocks[k] \in Nat
    <3>1. k \in 0..ChipSize /\ ~(n <= k)
      BY <1>1, <2>3, SMT
    <3>. QED
      BY <2>2, <3>1
  <2>. QED
    BY <2>3, <2>4, MinBlocksIsBest
<1>. QED
  BY <1>2, <1>3

(***************************************************************************)
(* What is needed of MinBlocks: no last block does better than it, and,    *)
(* unless the region is impossible, some last block does as well.          *)
(***************************************************************************)
LEMMA MinBlocksChoices ==
    ASSUME NEW n \in 1..ChipSize
    PROVE  /\ MinBlocks[n] \in Nat
           /\ MinBlocks[n] <= Impossible
           /\ \A i \in LastBlocks(n) : MinBlocks[n] <= 1 + MinBlocks[n - Erasers[i].size]
           /\ \/ MinBlocks[n] = Impossible
              \/ \E i \in LastBlocks(n) : MinBlocks[n] = 1 + MinBlocks[n - Erasers[i].size]
<1>1. n \in 0..ChipSize /\ n # 0 /\ \A k \in 0..n - 1 : k \in 0..ChipSize
  BY SizesAssumption, SMT
<1>2. \A k \in 0..n - 1 : MinBlocks[k] \in Nat
  BY <1>1, MinBlocksType
<1>. QED
  BY <1>1, <1>2, MinBlocksIsBest DEF CoverCounts
-----------------------------------------------------------------------------
(***************************************************************************)
(* The greedy choice: the largest block that is no longer than the region  *)
(* is always part of a shortest plan.  A plan that ends with a smaller     *)
(* block can be rearranged, because the smaller size divides the larger.   *)
(***************************************************************************)
Biggest(i, n) ==
    /\ Erasers[i].size <= n
    /\ \A j \in Used : Erasers[j].size <= n => Erasers[j].size <= Erasers[i].size

AtMost(x) == IF x < Impossible THEN x ELSE Impossible

LEMMA NothingFits ==
    ASSUME NEW n \in 1..ChipSize, \A j \in Used : ~(Erasers[j].size <= n)
    PROVE  MinBlocks[n] = Impossible
  BY MinBlocksChoices DEF LastBlocks

(***************************************************************************)
(* One step of the induction, in which the claim is known for less than n. *)
(***************************************************************************)
GreedyAt(n) == \A i \in Used : Biggest(i, n) => MinBlocks[n] = AtMost(1 + MinBlocks[n - Erasers[i].size])

LEMMA LastIsSmaller ==
    ASSUME NEW n \in 1..ChipSize, NEW i \in Used, Biggest(i, n),
           NEW m \in 1..n, NEW j \in LastBlocks(m)
    PROVE  /\ Erasers[i].size \in Nat \ {0}
           /\ Erasers[j].size \in Nat \ {0}
           /\ Erasers[j].size <= Erasers[i].size
           /\ Erasers[i].size % Erasers[j].size = 0
           /\ Erasers[j].size <= m
           /\ (m - Erasers[j].size) % Erasers[j].size = 0
           /\ j \in Used
<1>1. m \in Nat /\ n \in Nat /\ m <= n
  BY SizesAssumption, SMT
<1>2. j \in Used /\ Erasers[j].size \in Nat \ {0} /\ Erasers[j].size <= m
      /\ (m - Erasers[j].size) % Erasers[j].size = 0
  BY <1>1, LastBlock
<1>3. Erasers[i].size \in Nat \ {0}
  BY UsedEraser
<1>4. Erasers[j].size <= Erasers[i].size
  BY <1>1, <1>2, <1>3, SMT DEF Biggest
<1>. QED
  BY <1>2, <1>3, <1>4, NestedSizesAssumption

LEMMA GreedyIsEnough ==
    ASSUME NEW n \in 1..ChipSize, \A m \in 1..n - 1 : GreedyAt(m),
           NEW i \in Used, Biggest(i, n)
    PROVE  MinBlocks[n] <= 1 + MinBlocks[n - Erasers[i].size]
<1> DEFINE s == Erasers[i].size
           r == n - s
<1>1. n \in Nat /\ s \in Nat \ {0} /\ s <= n /\ r \in 0..n - 1 /\ r \in 0..ChipSize
  BY UsedEraser, SizesAssumption, SMT DEF Biggest
<1>2. MinBlocks[n] \in Nat /\ MinBlocks[n] <= Impossible
  BY MinBlocksChoices
<1>3. CASE r = 0
  <2>1. r % s = 0
    BY <1>1, <1>3, SMT
  <2>2. i \in LastBlocks(n)
    BY <1>1, <2>1 DEF LastBlocks
  <2>. QED
    BY <2>2, MinBlocksChoices
<1>4. CASE r # 0 /\ MinBlocks[r] = Impossible
  BY <1>2, <1>4, SizesAssumption, SMT DEF Impossible
<1>5. CASE r # 0 /\ MinBlocks[r] # Impossible
  <2>1. r \in 1..ChipSize /\ r \in 1..n
    BY <1>1, <1>5, SMT
  <2>2. PICK j \in LastBlocks(r) : MinBlocks[r] = 1 + MinBlocks[r - Erasers[j].size]
    BY <1>5, <2>1, MinBlocksChoices
  <2> DEFINE t == Erasers[j].size
             m == n - t
  <2>3. /\ t \in Nat \ {0} /\ t <= s /\ t <= r /\ j \in Used
        /\ s % t = 0 /\ (r - t) % t = 0
    BY <2>1, LastIsSmaller
  <2>4. /\ r - t \in Nat /\ (r - t) + s = m /\ m - s = r - t
        /\ m \in 1..n - 1 /\ m \in 1..ChipSize /\ s <= m /\ t <= n
        /\ r - t \in 0..ChipSize /\ m \in 0..ChipSize
    <3>1. r = n - s /\ m = n - t
      OBVIOUS
    <3>2. n <= ChipSize /\ ChipSize \in Nat
      BY SizesAssumption
    <3> HIDE DEF r, s, t, m
    <3>. QED
      BY <1>1, <2>3, <3>1, <3>2, SMT
  <2>5. m % t = 0
    BY <1>1, <2>3, <2>4, SumOfMultiples
  <2>6. j \in LastBlocks(n)
    BY <2>3, <2>4, <2>5 DEF LastBlocks
  <2>7. MinBlocks[n] <= 1 + MinBlocks[m]
    BY <2>6, MinBlocksChoices
  <2>8. \A k \in Used : Erasers[k].size <= m => Erasers[k].size <= n
    BY <1>1, <2>4, UsedEraser, SMT
  <2>9. Biggest(i, m)
    BY <2>4, <2>8 DEF Biggest
  <2>10. MinBlocks[m] = AtMost(1 + MinBlocks[m - s])
    BY <2>4, <2>9 DEF GreedyAt
  <2>11. MinBlocks[r - t] \in Nat /\ MinBlocks[m] \in Nat
    BY <2>4, MinBlocksType
  <2> DEFINE x == MinBlocks[r - t]
             y == MinBlocks[m]
             z == MinBlocks[r]
             w == MinBlocks[n]
  <2>12. w \in Nat /\ y = AtMost(1 + x) /\ x \in Nat /\ w <= 1 + y /\ z = 1 + x
    BY <1>2, <2>2, <2>4, <2>7, <2>10, <2>11
  <2>13. Impossible \in Nat
    BY SizesAssumption, SMT DEF Impossible
  <2> HIDE DEF x, y, z, w
  <2>14. w <= 1 + z
    BY <2>12, <2>13, SMT DEF AtMost
  <2>. QED
    BY <2>14 DEF w, z
<1>. QED
  BY <1>3, <1>4, <1>5

LEMMA GreedyIsNeeded ==
    ASSUME NEW n \in 1..ChipSize, \A m \in 1..n - 1 : GreedyAt(m),
           NEW i \in Used, Biggest(i, n)
    PROVE  AtMost(1 + MinBlocks[n - Erasers[i].size]) <= MinBlocks[n]
<1> DEFINE s == Erasers[i].size
           r == n - s
<1>1. n \in Nat /\ s \in Nat \ {0} /\ s <= n /\ r \in 0..n - 1 /\ r \in 0..ChipSize
  BY UsedEraser, SizesAssumption, SMT DEF Biggest
<1>2. MinBlocks[n] \in Nat /\ MinBlocks[r] \in Nat /\ Impossible \in Nat
  BY <1>1, MinBlocksChoices, MinBlocksType, SizesAssumption, SMT DEF Impossible
<1>3. CASE MinBlocks[n] = Impossible
  BY <1>2, <1>3, SMT DEF AtMost
<1>4. CASE MinBlocks[n] # Impossible
  <2>1. PICK j \in LastBlocks(n) : MinBlocks[n] = 1 + MinBlocks[n - Erasers[j].size]
    BY <1>4, MinBlocksChoices
  <2> DEFINE t == Erasers[j].size
             m == n - t
  <2>2. n \in 1..n
    BY <1>1, SMT
  <2>3. /\ t \in Nat \ {0} /\ t <= s /\ t <= n /\ j \in Used
        /\ s % t = 0 /\ m % t = 0
    BY <2>2, LastIsSmaller
  <2>4. m \in 0..n - 1 /\ m \in 0..ChipSize /\ m = n - t /\ r = n - s
    <3>1. m = n - t /\ n <= ChipSize /\ ChipSize \in Nat
      BY SizesAssumption
    <3> HIDE DEF s, t, m
    <3>. QED
      BY <1>1, <2>3, <3>1, SMT
  <2>5. MinBlocks[m] \in Nat
    BY <2>4, MinBlocksType
  <2>6. SUFFICES MinBlocks[r] <= MinBlocks[m]
    <3> DEFINE x == MinBlocks[r]
               y == MinBlocks[m]
    <3>1. x <= y /\ x \in Nat /\ y \in Nat /\ MinBlocks[n] = 1 + y
      BY <1>2, <2>1, <2>5, <2>6
    <3> HIDE DEF x, y
    <3>2. AtMost(1 + x) <= MinBlocks[n]
      BY <1>2, <3>1, SMT DEF AtMost
    <3>. QED
      BY <3>2 DEF x
  <2>7. CASE s <= m
    <3>1. m \in 1..n - 1 /\ m \in 1..ChipSize /\ m - s \in Nat /\ m - s \in 0..ChipSize
      <4>1. ChipSize \in Nat
        BY SizesAssumption
      <4> HIDE DEF s, t, m, r
      <4>2. m \in Nat /\ s \in Nat /\ 1 <= m /\ m <= n - 1 /\ m <= ChipSize
        BY <1>1, <2>4, <2>7, <4>1, SMT
      <4>. QED
        BY <1>1, <2>7, <4>1, <4>2, SMT
    <3>2. Biggest(i, m)
      <4>1. \A k \in Used : Erasers[k].size <= m => Erasers[k].size <= n
        <5>1. TAKE k \in Used
        <5>2. Erasers[k].size \in Nat
          BY UsedEraser
        <5> HIDE DEF m
        <5>. QED
          BY <1>1, <2>4, <5>2, SMT
      <4>. QED
        BY <2>7, <4>1 DEF Biggest
    <3>3. MinBlocks[m] = AtMost(1 + MinBlocks[m - s])
      BY <3>1, <3>2 DEF GreedyAt
    <3>4. CASE r = 0
      BY <2>5, <3>4, MinBlocksType, SMT
    <3>5. CASE r # 0
      <4>1. r \in 1..ChipSize /\ t <= r /\ r - t = m - s
        <5> HIDE DEF s, t, m, r
        <5>. QED
          BY <1>1, <2>3, <2>4, <2>7, <3>5, SMT
      <4>2. (m - s) % t = 0
        BY <1>1, <2>3, <2>4, <2>7, SumOfMultiples
      <4>3. j \in LastBlocks(r)
        BY <2>3, <4>1, <4>2 DEF LastBlocks
      <4>4. MinBlocks[r] <= Impossible /\ MinBlocks[r] <= 1 + MinBlocks[m - s]
        BY <4>1, <4>3, MinBlocksChoices
      <4>. QED
        BY <3>3, <4>4 DEF AtMost
    <3>. QED
      BY <3>4, <3>5
  <2>8. CASE ~(s <= m)
    <3>1. (s - m) % t = 0
      BY <1>1, <2>3, <2>4, <2>8, SumOfMultiples, SMT
    <3>2. s - m \in 1..t
      <4> HIDE DEF s, t, m, r
      <4>. QED
        BY <1>1, <2>3, <2>4, <2>8, SMT
    <3>3. s - m = t
      <4> HIDE DEF s, t, m, r
      <4>. QED
        BY <1>1, <2>3, <2>4, <3>1, <3>2, SMT
    <3>4. r = 0
      <4> HIDE DEF s, t, m, r
      <4>. QED
        BY <1>1, <2>3, <2>4, <3>3, SMT
    <3>. QED
      BY <2>5, <3>4, MinBlocksType, SMT
  <2>. QED
    BY <2>7, <2>8
<1>. QED
  BY <1>3, <1>4

LEMMA GreedyStep == \A n \in 1..ChipSize : GreedyAt(n)
<1> DEFINE Lacking == {n \in 1..ChipSize : ~GreedyAt(n)}
<1>1. SUFFICES ASSUME Lacking # {}
               PROVE  FALSE
  OBVIOUS
<1>2. ChipSize \in Nat /\ Lacking \in SUBSET Nat
  BY SizesAssumption, SMT
<1>3. PICK n \in Lacking : \A y \in Lacking : n <= y
  BY <1>1, <1>2, LeastNumber
<1>4. n \in 1..ChipSize /\ ~GreedyAt(n)
  BY <1>3
<1>5. \A m \in 1..n - 1 : GreedyAt(m)
  <2>1. TAKE m \in 1..n - 1
  <2>2. m \in 1..ChipSize /\ ~(n <= m)
    BY <1>2, <1>4, SMT
  <2>. QED
    BY <1>3, <2>2
<1>6. ASSUME NEW i \in Used, Biggest(i, n)
      PROVE  MinBlocks[n] = AtMost(1 + MinBlocks[n - Erasers[i].size])
  <2> DEFINE r == n - Erasers[i].size
             x == MinBlocks[n]
             y == MinBlocks[r]
  <2>1. x <= 1 + y /\ AtMost(1 + y) <= x
    BY <1>4, <1>5, <1>6, GreedyIsEnough, GreedyIsNeeded
  <2>2. x \in Nat /\ x <= Impossible
    BY <1>4, MinBlocksChoices
  <2>3. r \in 0..ChipSize
    BY <1>2, <1>4, <1>6, UsedEraser, SMT DEF Biggest
  <2>4. y \in Nat /\ Impossible \in Nat
    BY <1>2, <2>3, MinBlocksType, SMT DEF Impossible
  <2> HIDE DEF x, y, r
  <2>5. x = AtMost(1 + y)
    BY <2>1, <2>2, <2>4, SMT DEF AtMost
  <2>. QED
    BY <2>5 DEF x, y, r
<1>. QED
  BY <1>4, <1>6 DEF GreedyAt
-----------------------------------------------------------------------------
(***************************************************************************)
(* What the two searches choose.  A block that fits the rest of the region *)
(* and is no longer than the block before it is aligned there, because its *)
(* size divides that block's.                                              *)
(***************************************************************************)
LEMMA FirstIsBiggest ==
    ASSUME NEW n \in Nat, NEW i \in find_smallest_eraser_before_point(0, n)
    PROVE  /\ i \in Used
           /\ BlockEnd(i, 0) = Erasers[i].size
           /\ Erasers[i].size <= n => Biggest(i, n)
<1>1. ChipSize \in Nat /\ 0 \in 0..ChipSize
  BY SizesAssumption, SMT
<1>2. UsableAt(0) = Used
  BY <1>1, UsableEverywhere
<1>3. /\ i \in Used
      /\ \A j \in Used : PreferBefore(i, j, 0, n)
  BY <1>2 DEF find_smallest_eraser_before_point
<1>4. BlockEnd(i, 0) = Erasers[i].size
  BY FirstChoice
<1>5. \A k \in Used : /\ Erasers[k].size \in Nat \ {0}
                      /\ BlockStart(k, 0) = 0
  <2>1. TAKE k \in Used
  <2>2. /\ Erasers[k].size \in Nat \ {0}
        /\ BlockStart(k, 0) = (0 \div Erasers[k].size) * Erasers[k].size
    BY <1>2, UsableEraser
  <2>3. BlockStart(k, 0) = 0
    BY <2>2, DivBounds, SMT
  <2>. QED
    BY <2>2, <2>3
<1>6. \A k \in Used : Erasers[k].size <= n => OverErase(k, 0, n) = 0
  BY <1>5, SMT DEF OverErase, BlockEnd
<1>7. ASSUME Erasers[i].size <= n, NEW j \in Used, Erasers[j].size <= n
      PROVE  Erasers[j].size <= Erasers[i].size
  <2>1. OverErase(i, 0, n) = 0 /\ OverErase(j, 0, n) = 0
    BY <1>3, <1>6, <1>7
  <2>2. PreferBefore(i, j, 0, n)
    BY <1>3, <1>7
  <2>3. Erasers[i].size \in Nat /\ Erasers[j].size \in Nat
    BY <1>3, <1>5, <1>7
  <2>. QED
    BY <2>1, <2>2, <2>3, SMT DEF PreferBefore
<1>. QED
  BY <1>3, <1>4, <1>7 DEF Biggest

LEMMA AlignedFits ==
    ASSUME NEW p \in 0..ChipSize, NEW n \in 0..ChipSize, NEW j \in Used,
           p % Erasers[j].size = 0, p + Erasers[j].size <= n
    PROVE  j \in FitsWithin(p, n)
<1>1. p \in Nat /\ n \in Nat
  BY SizesAssumption, SMT
<1>2. j \in UsableAt(p)
  BY UsableEverywhere
<1>3. /\ Erasers[j].start = 0 /\ Erasers[j].size \in Nat \ {0}
      /\ BlockStart(j, p) = (p \div Erasers[j].size) * Erasers[j].size
  BY <1>1, <1>2, UsableEraser
<1>4. BlockStart(j, p) = p
  BY <1>1, <1>3, SMT
<1>. QED
  BY <1>1, <1>2, <1>3, <1>4, SMT DEF FitsWithin, BlockEnd

(***************************************************************************)
(* The search returns a block if there is one: of the largest ones that    *)
(* fit, the first of the table.                                            *)
(***************************************************************************)
LEMMA SomeBlockIsFound ==
    ASSUME NEW p \in 0..ChipSize, NEW n \in 0..ChipSize,
           find_biggest_eraser_within(p, n) = {}
    PROVE  FitsWithin(p, n) = {}
<1>1. SUFFICES ASSUME FitsWithin(p, n) # {}
               PROVE  FALSE
  OBVIOUS
<1>2. \A i \in FitsWithin(p, n) : /\ i \in Nat
                                 /\ Erasers[i].size \in Nat
                                 /\ ChipSize - Erasers[i].size \in Nat
  <2>1. TAKE i \in FitsWithin(p, n)
  <2>2. i \in Used
    BY UsableEverywhere DEF FitsWithin
  <2>3. Slots = 1..Len(Erasers)
    BY ErasersAssumption DEF Slots
  <2>4. i \in Nat
    BY <2>2, <2>3, UsedEraser, ErasersAssumption, SMT
  <2>. QED
    BY <2>2, <2>4, UsedEraser, SizesAssumption, SMT
<1> DEFINE Rest == {ChipSize - Erasers[i].size : i \in FitsWithin(p, n)}
<1>3. Rest \in SUBSET Nat /\ Rest # {}
  BY <1>1, <1>2
<1>4. PICK d \in Rest : \A e \in Rest : d <= e
  BY <1>3, LeastNumber
<1> DEFINE Largest == {i \in FitsWithin(p, n) : ChipSize - Erasers[i].size = d}
<1>5. Largest \in SUBSET Nat /\ Largest # {}
  BY <1>2, <1>4
<1>6. PICK i \in Largest : \A j \in Largest : i <= j
  BY <1>5, LeastNumber
<1>7. i \in FitsWithin(p, n) /\ ChipSize - Erasers[i].size = d
  BY <1>6
<1>8. ASSUME NEW j \in FitsWithin(p, n)
      PROVE  \/ Erasers[i].size > Erasers[j].size
             \/ Erasers[i].size = Erasers[j].size /\ i <= j
  <2>1. d <= ChipSize - Erasers[j].size
    BY <1>4
  <2>2. ChipSize - Erasers[j].size = d => i <= j
    BY <1>6
  <2> HIDE DEF Rest, Largest
  <2>3. Erasers[i].size \in Nat /\ Erasers[j].size \in Nat /\ ChipSize \in Nat
    BY <1>2, <1>7, SizesAssumption
  <2>4. Erasers[j].size <= Erasers[i].size
    BY <1>7, <2>1, <2>3, SMT
  <2>5. Erasers[j].size = Erasers[i].size => i <= j
    BY <1>7, <2>2
  <2>. QED
    BY <2>3, <2>4, <2>5, SMT
<1>9. i \in find_biggest_eraser_within(p, n)
  BY <1>7, <1>8 DEF find_biggest_eraser_within
<1>. QED
  BY <1>9
-----------------------------------------------------------------------------
(***************************************************************************)
(* The inductive invariant.  Once a block has been chosen, no larger block *)
(* fits any more, and the plan so far with a shortest one for the rest of  *)
(* the region is a shortest plan for the region.                           *)
(***************************************************************************)
NoLargerFits ==
    \A j \in Used : Erasers[j].size > SizeOf(erases[1]) => where + Erasers[j].size > end

ShortestSoFar ==
    where <= end => MinBlocks[end] = AtMost(Len(erases) + MinBlocks[end - where])

GreedyInv ==
    /\ PlannerInv
    /\ ReversedPlanAscends
    /\ ppc # "idle" => end \in 1..ChipSize
    /\ ppc \in {"loop", "ok", "ENODEV"} =>
         /\ erases[1].eraser \in Used
         /\ Len(erases) <= where
         /\ NoLargerFits
         /\ ShortestSoFar
    /\ ppc = "ENODEV" => MinBlocks[end] = Impossible

LEMMA AddedEntries ==
    ASSUME PlannerInv, NEW i \in Slots, eraser_add(i)
    PROVE  /\ Len(erases) \in Nat
           /\ Len(erases') = Len(erases) + 1
           /\ erases'[1].eraser = i
           /\ SizeOf(erases'[1]) = Erasers[i].size
           /\ \A k \in 2..Len(erases') : k - 1 \in 1..Len(erases) /\ erases'[k] = erases[k - 1]
<1> DEFINE new == [eraser |-> i, at |-> where]
           Entry == [eraser : Slots, at : 0..ChipSize]
<1>1. erases \in Seq(Entry) /\ where \in 0..ChipSize
  BY DEF PlannerInv, PlannerTypeOK
<1>2. new \in Entry /\ new.eraser = i /\ SizeOf(new) = Erasers[i].size
  BY <1>1 DEF SizeOf
<1>3. erases' = <<new>> \o erases
  BY DEF eraser_add
<1> HIDE DEF new
<1>4. /\ Len(erases') = Len(erases) + 1
      /\ erases'[1] = new
      /\ \A k \in 1..Len(erases) : erases'[k + 1] = erases[k]
  BY <1>1, <1>2, <1>3, SMT
<1>5. Len(erases) \in Nat
  BY <1>1
<1>6. \A k \in 2..Len(erases') : k - 1 \in 1..Len(erases) /\ erases'[k] = erases[k - 1]
  BY <1>4, <1>5, SMT
<1>. QED
  BY <1>2, <1>4, <1>5, <1>6

LEMMA PlannedEntry ==
    ASSUME PlannerTypeOK, NEW k \in 1..Len(erases)
    PROVE  erases[k] \in [eraser : Slots, at : 0..ChipSize]
<1> DEFINE Entry == [eraser : Slots, at : 0..ChipSize]
<1>1. erases \in Seq(Entry)
  BY DEF PlannerTypeOK
<1> HIDE DEF Entry
<1>2. erases[k] \in Entry
  BY <1>1, SMT
<1>. QED
  BY <1>2 DEF Entry

(***************************************************************************)
(* A block no longer than the one before it keeps the list ascending.      *)
(***************************************************************************)
LEMMA AddedAscends ==
    ASSUME PlannerInv, ReversedPlanAscends, NEW i \in Used, eraser_add(i),
           erases # << >> => Erasers[i].size <= SizeOf(erases[1])
    PROVE  ReversedPlanAscends'
<1>1. /\ Len(erases) \in Nat
      /\ Len(erases') = Len(erases) + 1
      /\ SizeOf(erases'[1]) = Erasers[i].size
      /\ \A k \in 2..Len(erases') : k - 1 \in 1..Len(erases) /\ erases'[k] = erases[k - 1]
  BY AddedEntries, UsedEraser
<1>2. \A k \in 1..Len(erases) : SizeOf(erases[k]) \in Nat
  <2>1. TAKE k \in 1..Len(erases)
  <2>2. erases[k] \in [eraser : Slots, at : 0..ChipSize]
    BY PlannedEntry DEF PlannerInv
  <2>3. Erasers[erases[k].eraser] \in EraserRecord
    BY <2>2, ErasersAssumption DEF Slots
  <2>. QED
    BY <2>3 DEF SizeOf, EraserRecord
<1>3. ASSUME NEW j \in 1..Len(erases'), NEW k \in 1..Len(erases'), j < k
      PROVE  SizeOf(erases'[j]) <= SizeOf(erases'[k])
  <2>1. k \in 2..Len(erases')
    BY <1>1, <1>3, SMT
  <2>2. k - 1 \in 1..Len(erases) /\ erases'[k] = erases[k - 1]
    BY <1>1, <2>1
  <2>3. CASE j = 1
    <3>1. erases # << >> /\ 1 \in 1..Len(erases)
      BY <1>1, <2>2, SMT
    <3>2. SizeOf(erases[1]) <= SizeOf(erases[k - 1])
      <4>1. CASE k - 1 = 1
        BY <1>2, <3>1, <4>1, SMT
      <4>2. CASE k - 1 # 1
        <5>1. 1 < k - 1
          BY <2>2, <4>2, SMT
        <5>. QED
          BY <2>2, <3>1, <5>1 DEF ReversedPlanAscends
      <4>. QED
        BY <4>1, <4>2
    <3>3. /\ Erasers[i].size \in Nat /\ SizeOf(erases[1]) \in Nat
          /\ SizeOf(erases[k - 1]) \in Nat
      BY <1>2, <2>2, <3>1, UsedEraser
    <3>. QED
      BY <1>1, <2>2, <2>3, <3>1, <3>2, <3>3, SMT
  <2>4. CASE j # 1
    <3>1. j \in 2..Len(erases')
      BY <1>1, <2>4, SMT
    <3>2. j - 1 \in 1..Len(erases) /\ erases'[j] = erases[j - 1] /\ j - 1 < k - 1
      BY <1>1, <1>3, <3>1, <2>1, SMT
    <3>. QED
      BY <2>2, <3>2 DEF ReversedPlanAscends
  <2>. QED
    BY <2>3, <2>4
<1>4. \A e : SizeOf(e)' = SizeOf(e)
  BY DEF SizeOf
<1>. QED
  BY <1>3, <1>4 DEF ReversedPlanAscends

(***************************************************************************)
(* The first block is the largest that fits, or no block fits.             *)
(***************************************************************************)
LEMMA GreedyFirstBlock ==
    ASSUME GreedyInv, PlannerInv', FirstBlock
    PROVE  GreedyInv'
<1>1. PlannerTypeOK /\ PlanTiles /\ Stages /\ PlannerInv /\ ReversedPlanAscends
  BY DEF GreedyInv, PlannerInv
<1>2. ppc = "first" /\ where = 0 /\ erases = << >> /\ end' = end /\ end \in 1..ChipSize
  BY <1>1 DEF FirstBlock, Stages, GreedyInv
<1>3. ChipSize \in Nat /\ end \in Nat /\ end \in 0..ChipSize
  BY <1>2, SizesAssumption, SMT
<1>4. CASE find_smallest_eraser_before_point(where, end) = {}
  <2>1. ppc' = "EINVAL" /\ where' = where /\ erases' = erases
    BY <1>4 DEF FirstBlock
  <2>2. ReversedPlanAscends'
    BY <1>2, <2>1, SMT DEF ReversedPlanAscends
  <2>. QED
    BY <1>2, <2>1, <2>2 DEF GreedyInv
<1>5. CASE find_smallest_eraser_before_point(where, end) # {}
  <2>1. PICK i \in find_smallest_eraser_before_point(0, end) :
           eraser_add(i) /\ where' = BlockEnd(i, 0) /\ ppc' = "loop"
    BY <1>2, <1>5 DEF FirstBlock
  <2> DEFINE s == Erasers[i].size
  <2>2. /\ i \in Used /\ where' = s
        /\ s <= end => Biggest(i, end)
    BY <1>3, <2>1, FirstIsBiggest
  <2>3. i \in Slots /\ s \in Nat \ {0}
    BY <2>2, UsedEraser
  <2>4. Len(erases) = 0
    BY <1>2
  <2>5. Len(erases') = 1 /\ erases'[1].eraser = i /\ SizeOf(erases'[1]) = s
    BY <1>1, <2>1, <2>3, <2>4, AddedEntries
  <2>6. ReversedPlanAscends'
    BY <1>1, <1>2, <2>1, <2>2, AddedAscends
  <2>7. Len(erases') <= where'
    BY <2>2, <2>3, <2>5, SMT
  <2>8. ASSUME NEW j \in Used, Erasers[j].size > s
        PROVE  where' + Erasers[j].size > end
    <3>1. Erasers[j].size \in Nat
      BY <2>8, UsedEraser
    <3>2. CASE s <= end
      BY <1>3, <2>2, <2>3, <2>8, <3>1, <3>2, SMT DEF Biggest
    <3>3. CASE ~(s <= end)
      BY <1>3, <2>2, <2>3, <3>1, <3>3, SMT
    <3>. QED
      BY <3>2, <3>3
  <2>9. NoLargerFits'
    BY <1>2, <2>5, <2>8 DEF NoLargerFits, Used, Slots, SizeOf
  <2>10. ASSUME s <= end
         PROVE  MinBlocks[end] = AtMost(1 + MinBlocks[end - s])
    BY <1>2, <2>2, <2>10, GreedyStep DEF GreedyAt
  <2>11. ShortestSoFar'
    <3>1. SUFFICES ASSUME s <= end
                   PROVE  MinBlocks[end] = AtMost(Len(erases') + MinBlocks[end - s])
      BY <1>2, <2>2 DEF ShortestSoFar
    <3>. QED
      BY <2>5, <2>10, <3>1
  <2>. QED
    BY <1>2, <2>1, <2>2, <2>5, <2>6, <2>7, <2>9, <2>11 DEF GreedyInv
<1>. QED
  BY <1>4, <1>5

(***************************************************************************)
(* A block that fits the rest of the region is no longer than the block    *)
(* before, so it is aligned where that one ends.                           *)
(***************************************************************************)
LEMMA SmallerFits ==
    ASSUME GreedyInv, ppc = "loop", NEW j \in Used, where + Erasers[j].size <= end
    PROVE  /\ Erasers[j].size <= SizeOf(erases[1])
           /\ j \in FitsWithin(where, end)
<1>1. /\ PlannerTypeOK /\ PlanTiles /\ erases # << >>
      /\ erases[1].eraser \in Used /\ NoLargerFits
  BY DEF GreedyInv, PlannerInv, Stages
<1>2. where \in 0..ChipSize /\ end \in 0..ChipSize /\ where \in Nat /\ end \in Nat
  BY <1>1, SizesAssumption, SMT DEF PlannerTypeOK
<1>3. Erasers[j].size \in Nat \ {0} /\ SizeOf(erases[1]) \in Nat \ {0}
  BY <1>1, UsedEraser DEF SizeOf
<1>4. Erasers[j].size <= SizeOf(erases[1])
  BY <1>1, <1>2, <1>3, SMT DEF NoLargerFits
<1>5. SizeOf(erases[1]) % Erasers[j].size = 0
  BY <1>1, <1>4, NestedSizesAssumption DEF SizeOf
<1>6. where % Erasers[j].size = 0
  <2> DEFINE s == SizeOf(erases[1])
             p == erases[1].at
  <2>1. Len(erases) \in Nat /\ 1 \in 1..Len(erases)
    BY <1>1, SMT DEF PlannerTypeOK
  <2>2. p + s = where /\ p % s = 0
    BY <1>1, <2>1 DEF PlanTiles
  <2>3. erases[1] \in [eraser : Slots, at : 0..ChipSize]
    BY <1>1, <2>1, PlannedEntry
  <2>4. p \in Nat
    BY <2>3, SizesAssumption, SMT
  <2> HIDE DEF s, p
  <2>5. p % Erasers[j].size = 0 /\ s % Erasers[j].size = 0 /\ s \in Nat
    BY <1>3, <1>5, <2>2, <2>4, MultipleOfMultiple DEF s
  <2>6. (p + s) % Erasers[j].size = 0
    BY <1>3, <2>4, <2>5, SumOfMultiples
  <2>. QED
    BY <2>2, <2>6
<1>. QED
  BY <1>2, <1>4, <1>6, AlignedFits

LEMMA GreedyNextBlock ==
    ASSUME GreedyInv, PlannerInv', NextBlock
    PROVE  GreedyInv'
<1>1. /\ PlannerTypeOK /\ PlannerInv /\ ReversedPlanAscends /\ ppc = "loop"
      /\ where < end /\ end' = end /\ ppc' = ppc /\ end \in 1..ChipSize
      /\ Len(erases) <= where /\ NoLargerFits /\ ShortestSoFar
  BY DEF NextBlock, GreedyInv, PlannerInv
<1>2. PICK i \in find_biggest_eraser_within(where, end) :
         eraser_add(i) /\ where' = where + Erasers[i].size
  BY DEF NextBlock
<1> DEFINE s == Erasers[i].size
           n == end - where
<1>3. /\ ChipSize \in Nat /\ where \in 0..ChipSize /\ end \in 0..ChipSize
      /\ where \in Nat /\ end \in Nat /\ n \in 1..ChipSize
  BY <1>1, SizesAssumption, SMT DEF PlannerTypeOK
<1>4. i \in Used
  BY <1>2, <1>3, UsableEverywhere DEF find_biggest_eraser_within, FitsWithin
<1>5. s \in Nat \ {0} /\ i \in Slots /\ where + s <= end
  BY <1>2, <1>3, <1>4, LaterChoice, UsedEraser
<1>6. \A j \in Used : Erasers[j].size \in Nat
  BY UsedEraser
<1>7. \A j \in Used : where + Erasers[j].size <= end => Erasers[j].size <= s
  <2>1. TAKE j \in Used
  <2>2. HAVE where + Erasers[j].size <= end
  <2>3. j \in FitsWithin(where, end)
    BY <1>1, <2>2, SmallerFits
  <2>. QED
    BY <1>2, <1>5, <1>6, <2>3, SMT DEF find_biggest_eraser_within
<1>8. Biggest(i, n)
  <2>1. s <= n
    BY <1>3, <1>5, SMT
  <2>2. \A j \in Used : Erasers[j].size <= n => where + Erasers[j].size <= end
    BY <1>3, <1>6, SMT
  <2>. QED
    BY <1>7, <2>1, <2>2 DEF Biggest
<1>9. /\ Len(erases) \in Nat
      /\ Len(erases') = Len(erases) + 1
      /\ erases'[1].eraser = i /\ SizeOf(erases'[1]) = s
  BY <1>1, <1>2, <1>5, AddedEntries
<1>10. ReversedPlanAscends'
  <2>1. s <= SizeOf(erases[1])
    BY <1>1, <1>4, <1>5, SmallerFits
  <2>. QED
    BY <1>1, <1>2, <1>4, <2>1, AddedAscends
<1>11. Len(erases') <= where'
  BY <1>1, <1>2, <1>3, <1>5, <1>9, SMT
<1>12. NoLargerFits'
  <2>1. ASSUME NEW j \in Used, Erasers[j].size > s
        PROVE  where' + Erasers[j].size > end
    <3>1. ~(where + Erasers[j].size <= end)
      BY <1>5, <1>6, <1>7, <2>1, SMT
    <3>. QED
      BY <1>2, <1>3, <1>5, <1>6, <2>1, <3>1, SMT
  <2>. QED
    BY <1>1, <1>9, <2>1 DEF NoLargerFits, Used, Slots, SizeOf
<1>13. ShortestSoFar'
  <2> DEFINE x == MinBlocks[n - s]
             len == Len(erases)
  <2>1. MinBlocks[end] = AtMost(len + MinBlocks[n])
    BY <1>1, <1>3, SMT DEF ShortestSoFar
  <2>2. MinBlocks[n] = AtMost(1 + x)
    BY <1>3, <1>4, <1>8, GreedyStep DEF GreedyAt
  <2>3. n - s \in 0..ChipSize /\ n - s = end' - where'
    BY <1>1, <1>2, <1>3, <1>5, SMT
  <2>4. x \in Nat /\ Impossible \in Nat /\ len \in Nat
    BY <1>3, <1>9, <2>3, MinBlocksType, SMT DEF Impossible
  <2>5. AtMost(len + AtMost(1 + x)) = AtMost((len + 1) + x)
    <3> HIDE DEF x, len
    <3>. QED
      BY <2>4, SMT DEF AtMost
  <2>6. MinBlocks[end] = AtMost(Len(erases') + MinBlocks[end' - where'])
    BY <1>9, <2>1, <2>2, <2>3, <2>5
  <2>. QED
    BY <1>1, <2>6 DEF ShortestSoFar
<1>. QED
  BY <1>1, <1>4, <1>9, <1>10, <1>11, <1>12, <1>13 DEF GreedyInv

LEMMA GreedyNoNextBlock ==
    ASSUME GreedyInv, PlannerInv', NoNextBlock
    PROVE  GreedyInv'
<1>1. /\ PlannerTypeOK /\ ReversedPlanAscends /\ ppc = "loop" /\ ppc' = "ENODEV"
      /\ where < end /\ UNCHANGED <<where, end, erases>> /\ end \in 1..ChipSize
      /\ erases[1].eraser \in Used /\ Len(erases) <= where /\ NoLargerFits /\ ShortestSoFar
  BY DEF NoNextBlock, GreedyInv, PlannerInv
<1> DEFINE n == end - where
<1>2. /\ ChipSize \in Nat /\ where \in 0..ChipSize /\ end \in 0..ChipSize
      /\ where \in Nat /\ end \in Nat /\ n \in 1..ChipSize
  BY <1>1, SizesAssumption, SMT DEF PlannerTypeOK
<1>3. FitsWithin(where, end) = {}
  BY <1>2, SomeBlockIsFound DEF NoNextBlock
<1>4. \A j \in Used : ~(Erasers[j].size <= n)
  <2>1. TAKE j \in Used
  <2>2. ~(where + Erasers[j].size <= end)
    BY <1>1, <1>3, SmallerFits
  <2>3. Erasers[j].size \in Nat
    BY UsedEraser
  <2>. QED
    BY <1>2, <2>2, <2>3, SMT
<1>5. MinBlocks[n] = Impossible
  BY <1>2, <1>4, NothingFits
<1>6. MinBlocks[end] = Impossible
  <2>1. MinBlocks[end] = AtMost(Len(erases) + Impossible)
    BY <1>1, <1>2, <1>5, SMT DEF ShortestSoFar
  <2>2. Impossible \in Nat /\ Len(erases) \in Nat
    BY <1>1, <1>2, SMT DEF Impossible, PlannerTypeOK
  <2>. QED
    BY <2>1, <2>2, SMT DEF AtMost
<1>7. ReversedPlanAscends' /\ NoLargerFits' /\ ShortestSoFar'
  BY <1>1 DEF ReversedPlanAscends, NoLargerFits, ShortestSoFar, SizeOf, Used, Slots
<1>. QED
  BY <1>1, <1>6, <1>7 DEF GreedyInv

LEMMA GreedyCovered ==
    ASSUME GreedyInv, PlannerInv', Covered
    PROVE  GreedyInv'
<1>1. /\ ReversedPlanAscends /\ ppc = "loop" /\ ppc' = "ok"
      /\ UNCHANGED <<where, end, erases>> /\ end \in 1..ChipSize
      /\ erases[1].eraser \in Used /\ Len(erases) <= where /\ NoLargerFits /\ ShortestSoFar
  BY DEF Covered, GreedyInv
<1>2. ReversedPlanAscends' /\ NoLargerFits' /\ ShortestSoFar'
  BY <1>1 DEF ReversedPlanAscends, NoLargerFits, ShortestSoFar, SizeOf, Used, Slots
<1>. QED
  BY <1>1, <1>2 DEF GreedyInv

LEMMA GreedyInvariant == PlannerSpec => []GreedyInv
<1>1. PlannerInit => GreedyInv
  <2>1. SUFFICES ASSUME PlannerInit
                 PROVE  GreedyInv
    OBVIOUS
  <2>2. ppc = "idle" /\ erases = << >>
    BY <2>1 DEF PlannerInit
  <2>3. ReversedPlanAscends
    BY <2>2, SMT DEF ReversedPlanAscends
  <2>. QED
    BY <2>1, <2>2, <2>3, PlannerInitEstablishes DEF GreedyInv
<1>2. GreedyInv /\ PlannerInv' /\ [PlannerNext]_plannerVars => GreedyInv'
  <2>1. SUFFICES ASSUME GreedyInv, PlannerInv', [PlannerNext]_plannerVars
                 PROVE  GreedyInv'
    OBVIOUS
  <2>2. CASE PlannerStep
    BY <2>1, <2>2, GreedyFirstBlock, GreedyNextBlock, GreedyNoNextBlock, GreedyCovered
       DEF PlannerStep
  <2>3. CASE \E len \in 1..ChipSize : Call(len)
    <3>1. PICK len \in 1..ChipSize : Call(len)
      BY <2>3
    <3>2. ppc' = "first" /\ end' = len /\ erases' = << >>
      BY <3>1, SizesAssumption, SMT DEF Call, Start
    <3>3. ReversedPlanAscends'
      BY <3>2, SMT DEF ReversedPlanAscends
    <3>. QED
      BY <2>1, <3>2, <3>3 DEF GreedyInv
  <2>4. CASE UNCHANGED plannerVars
    BY <2>1, <2>4 DEF plannerVars, GreedyInv, ReversedPlanAscends, NoLargerFits, ShortestSoFar,
                      SizeOf, Used, Slots
  <2>. QED
    BY <2>1, <2>2, <2>3, <2>4 DEF PlannerNext
<1>. QED
  BY PlannerInvariant, <1>1, <1>2, PTL DEF PlannerSpec
-----------------------------------------------------------------------------
(***************************************************************************)
(* Blocks are chosen from the largest to the smallest, so the list that    *)
(* compute_list_erases returns, which is reversed, is ascending.           *)
(***************************************************************************)
THEOREM PlanAscends == PlannerSpec => []ReversedPlanAscends
  BY GreedyInvariant, PTL DEF GreedyInv

LEMMA GreedyInvIsShortest == GreedyInv => FewestErases
<1>1. SUFFICES ASSUME GreedyInv, ppc = "ok"
               PROVE  Len(erases) = IF where = end THEN MinBlocks[end] ELSE 1
  BY DEF FewestErases
<1>2. /\ NoOverErase /\ where >= end /\ PlannerTypeOK /\ end \in 1..ChipSize
      /\ Len(erases) <= where /\ ShortestSoFar
  BY <1>1 DEF GreedyInv, PlannerInv, Stages
<1>3. ChipSize \in Nat /\ where \in Nat /\ end \in Nat /\ Len(erases) \in Nat
      /\ where <= ChipSize
  BY <1>2, SizesAssumption, SMT DEF PlannerTypeOK
<1>4. CASE where = end
  <2>1. MinBlocks[end] = AtMost(Len(erases) + MinBlocks[0])
    BY <1>2, <1>3, <1>4, SMT DEF ShortestSoFar
  <2>2. MinBlocks[end] = AtMost(Len(erases))
    BY <1>3, <2>1, MinBlocksType, SMT
  <2>3. Len(erases) < Impossible
    BY <1>2, <1>3, SMT DEF Impossible
  <2>. QED
    BY <1>4, <2>2, <2>3 DEF AtMost
<1>5. CASE where # end
  BY <1>2, <1>3, <1>5, SMT DEF NoOverErase
<1>. QED
  BY <1>4, <1>5

(***************************************************************************)
(* The greedy choice is optimal: an accepted region that ends at a block   *)
(* boundary is covered with the least possible number of erase commands,   *)
(* and a smaller one with a single command.                                *)
(***************************************************************************)
THEOREM PlanIsShortest == PlannerSpec => []FewestErases
  BY GreedyInvariant, GreedyInvIsShortest, PTL

LEMMA GreedyInvIsPossible == GreedyInv => RefusedOnlyIfImpossible
  BY SizesAssumption, SMT DEF GreedyInv, RefusedOnlyIfImpossible, Impossible

(***************************************************************************)
(* -ENODEV is returned only for a region no aligned blocks cover exactly,  *)
(* although the greedy choice never goes back.                             *)
(***************************************************************************)
THEOREM RefusalIsJustified == PlannerSpec => []RefusedOnlyIfImpossible
  BY GreedyInvariant, GreedyInvIsPossible, PTL
-----------------------------------------------------------------------------
(***************************************************************************)
(* The two theorems without the recursion: compared with any way to cover  *)
(* the region, given as the addresses at which its m aligned blocks end.   *)
(***************************************************************************)
Tiling(f, m, n) ==
    /\ f \in [0..m -> 0..ChipSize]
    /\ f[0] = 0
    /\ f[m] = n
    /\ \A k \in 1..m : \E i \in Used : /\ f[k - 1] % Erasers[i].size = 0
                                      /\ f[k] = f[k - 1] + Erasers[i].size

LEMMA TilingStep ==
    ASSUME NEW m \in Nat, NEW f, NEW n, Tiling(f, m, n), NEW k \in 1..m,
           MinBlocks[f[k - 1]] <= k - 1, k - 1 <= f[k - 1]
    PROVE  MinBlocks[f[k]] <= k /\ k <= f[k]
<1>1. k \in 0..m /\ k - 1 \in 0..m /\ k \in Nat
  BY SMT
<1>2. PICK i \in Used : f[k - 1] % Erasers[i].size = 0 /\ f[k] = f[k - 1] + Erasers[i].size
  BY DEF Tiling
<1> DEFINE p == f[k - 1]
           q == f[k]
<1>3. p \in 0..ChipSize /\ q \in 0..ChipSize /\ ChipSize \in Nat
  BY <1>1, SizesAssumption DEF Tiling
<1>4. Erasers[i].size \in Nat \ {0}
  BY UsedEraser
<1>5. q = p + Erasers[i].size /\ p % Erasers[i].size = 0
  BY <1>2
<1>6. MinBlocks[p] <= k - 1 /\ k - 1 <= p /\ MinBlocks[p] \in Nat
  BY <1>3, MinBlocksType
<1> HIDE DEF p, q
<1>7. /\ q \in 1..ChipSize /\ Erasers[i].size <= q /\ q - Erasers[i].size = p /\ k <= q
  BY <1>1, <1>3, <1>4, <1>5, <1>6, SMT
<1>8. i \in LastBlocks(q)
  BY <1>2, <1>5, <1>7 DEF LastBlocks
<1>9. MinBlocks[q] <= 1 + MinBlocks[p] /\ MinBlocks[q] \in Nat
  BY <1>7, <1>8, MinBlocksChoices
<1>10. MinBlocks[q] <= k
  BY <1>1, <1>6, <1>9, SMT
<1>. QED
  BY <1>7, <1>10 DEF q

LEMMA NoTilingIsShorter ==
    ASSUME NEW m \in Nat, NEW f, NEW n, Tiling(f, m, n)
    PROVE  MinBlocks[n] <= m /\ m <= n
<1> DEFINE Fine(k) == MinBlocks[f[k]] <= k /\ k <= f[k]
           Lacking == {k \in 0..m : ~Fine(k)}
<1>1. Fine(0)
  BY MinBlocksType, SMT DEF Tiling
<1>2. ASSUME Lacking # {}
      PROVE  FALSE
  <2>1. Lacking \in SUBSET Nat
    BY SMT
  <2>2. PICK k \in Lacking : \A y \in Lacking : k <= y
    BY <1>2, <2>1, LeastNumber
  <2>3. k \in 0..m /\ ~Fine(k) /\ k # 0
    BY <1>1, <2>2
  <2>4. k \in 1..m /\ k - 1 \in 0..m /\ ~(k <= k - 1)
    BY <2>3, SMT
  <2>5. k - 1 \notin Lacking
    BY <2>2, <2>4
  <2>6. Fine(k - 1)
    BY <2>4, <2>5
  <2>. QED
    BY <2>3, <2>4, <2>6, TilingStep
<1>3. m \in 0..m
  BY SMT
<1>4. Fine(m)
  BY <1>2, <1>3
<1>. QED
  BY <1>4 DEF Tiling

(***************************************************************************)
(* No way to cover the region with aligned blocks takes fewer erase        *)
(* commands than the plan that compute_list_erases returns.                *)
(***************************************************************************)
THEOREM NoShorterPlan ==
    PlannerSpec => [](ppc = "ok" => \A m \in Nat : \A f : Tiling(f, m, end) => Len(erases) <= m)
<1>1. ASSUME GreedyInv, ppc = "ok", NEW m \in Nat, NEW f, Tiling(f, m, end)
      PROVE  Len(erases) <= m
  <2>1. Len(erases) = IF where = end THEN MinBlocks[end] ELSE 1
    BY <1>1, GreedyInvIsShortest DEF FewestErases
  <2>2. MinBlocks[end] <= m /\ m <= end
    BY <1>1, NoTilingIsShorter
  <2>3. m # 0
    <3>1. end \in 1..ChipSize
      BY <1>1 DEF GreedyInv
    <3>. QED
      BY <1>1, <3>1, SMT DEF Tiling
  <2>. QED
    BY <2>1, <2>2, <2>3, SMT
<1>2. GreedyInv => (ppc = "ok" => \A m \in Nat : \A f : Tiling(f, m, end) => Len(erases) <= m)
  BY <1>1
<1>. QED
  BY GreedyInvariant, <1>2, PTL

(***************************************************************************)
(* compute_list_erases returns -ENODEV only for a region that no aligned   *)
(* blocks of the chip cover exactly.                                       *)
(***************************************************************************)
THEOREM RefusedRegionHasNoPlan ==
    PlannerSpec => [](ppc = "ENODEV" => ~ \E m \in Nat : \E f : Tiling(f, m, end))
<1>1. ASSUME GreedyInv, ppc = "ENODEV", NEW m \in Nat, NEW f, Tiling(f, m, end)
      PROVE  FALSE
  <2>1. MinBlocks[end] = ChipSize + 1 /\ end \in 1..ChipSize
    BY <1>1 DEF GreedyInv, Impossible
  <2>2. MinBlocks[end] <= m /\ m <= end
    BY <1>1, NoTilingIsShorter
  <2>. QED
    BY <2>1, <2>2, SizesAssumption, SMT
<1>2. GreedyInv => (ppc = "ENODEV" => ~ \E m \in Nat : \E f : Tiling(f, m, end))
  BY <1>1
<1>. QED
  BY GreedyInvariant, <1>2, PTL
=============================================================================
