----------------------------- MODULE Induction ------------------------------
(***************************************************************************)
(* Induction over the numbers, in a form that needs no operator as an      *)
(* argument: what some number lacks, one lacks first.  Definitions by      *)
(* recursion rest on it.                                                   *)
(***************************************************************************)
EXTENDS Integers, WellFoundedInduction, TLAPS

LEMMA LeastNumber ==
    ASSUME NEW T \in SUBSET Nat, T # {}
    PROVE  \E x \in T : \A y \in T : x <= y
<1>1. IsWellFoundedOn(OpToRel(<, Nat), Nat)
  BY NatLessThanWellFounded, Zenon
<1>2. PICK x \in T : \A y \in T : <<y, x>> \notin OpToRel(<, Nat)
  BY <1>1, WFMin, Zenon
<1>3. \A y \in T : ~(y < x)
  BY <1>2, Zenon DEF OpToRel
<1>. QED
  BY <1>3, SMT

(***************************************************************************)
(* Taking one step after the other, from a start, defines a function.      *)
(***************************************************************************)
LEMMA StepByStep ==
    ASSUME NEW S, NEW start \in S, NEW n \in Nat, NEW step \in [1..n -> [S -> S]]
    PROVE  \E f \in [0..n -> S] : f[0] = start /\ \A k \in 1..n : f[k] = step[k][f[k - 1]]
<1> DEFINE Solves(f, m) == f[0] = start /\ \A k \in 1..m : f[k] = step[k][f[k - 1]]
           Lacking == {m \in 0..n : ~ \E f \in [0..m -> S] : Solves(f, m)}
<1>1. SUFFICES ASSUME Lacking # {}
               PROVE  FALSE
  <2>1. n \in 0..n
    OBVIOUS
  <2>. QED
    BY <2>1
<1>2. PICK m \in Lacking : \A y \in Lacking : m <= y
  <2>1. Lacking \in SUBSET Nat
    OBVIOUS
  <2>. QED
    BY <1>1, <2>1, LeastNumber
<1>3. m \in 0..n /\ ~ \E f \in [0..m -> S] : Solves(f, m)
  BY <1>2
<1>4. CASE m = 0
  <2> DEFINE f == [k \in 0..m |-> start]
  <2>1. f \in [0..m -> S] /\ f[0] = start /\ \A k \in 1..m : FALSE
    BY <1>4
  <2>2. Solves(f, m)
    BY <2>1
  <2>. QED
    BY <1>3, <2>1, <2>2
<1>5. CASE m # 0
  <2>1. m - 1 \in 0..n /\ ~(m <= m - 1) /\ m \in 1..n /\ m - 1 \in 0..m - 1
    BY <1>3, <1>5
  <2>2. m - 1 \notin Lacking
    BY <1>2, <2>1
  <2>3. PICK g \in [0..m - 1 -> S] : Solves(g, m - 1)
    BY <2>1, <2>2
  <2> DEFINE f == [k \in 0..m |-> IF k = m THEN step[m][g[m - 1]] ELSE g[k]]
  <2>4. step[m][g[m - 1]] \in S
    BY <2>1, <2>3
  <2>5. f \in [0..m -> S]
    BY <1>3, <2>3, <2>4
  <2>6. f[0] = start
    BY <1>3, <1>5, <2>3
  <2>7. ASSUME NEW k \in 1..m
        PROVE  f[k] = step[k][f[k - 1]]
    <3>1. f[k - 1] = g[k - 1]
      BY <1>3
    <3>2. CASE k = m
      BY <1>3, <3>1, <3>2
    <3>3. CASE k # m
      <4>1. k \in 1..m - 1 /\ f[k] = g[k]
        BY <1>3, <3>3
      <4>. QED
        BY <2>3, <3>1, <4>1
    <3>. QED
      BY <3>2, <3>3
  <2>8. Solves(f, m)
    BY <2>6, <2>7
  <2>. QED
    BY <1>3, <2>5, <2>8
<1>. QED
  BY <1>4, <1>5
=============================================================================
