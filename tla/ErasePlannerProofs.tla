-------------------------- MODULE ErasePlannerProofs --------------------------
(***************************************************************************)
(* What compute_list_erases returns, for every chip whose erasers have the *)
(* shape of the declared ones and for every length.                        *)
(***************************************************************************)
EXTENDS ErasePlanner, TLAPS

(***************************************************************************)
(* Arithmetic that the block computations rest on.                         *)
(***************************************************************************)
LEMMA DivBounds ==
    ASSUME NEW p \in Nat, NEW s \in Nat \ {0}
    PROVE  /\ p \div s \in Nat
           /\ (p \div s) * s <= p
           /\ p < (p \div s) * s + s
           /\ 0 \div s = 0
  BY SMT

LEMMA ProductBound ==
    ASSUME NEW s \in Nat \ {0}, NEW c \in Nat, s * c \in Nat \ {0}
    PROVE  s <= s * c
<1>1. c # 0
  BY SMT
<1>2. c >= 1
  BY <1>1, SMT
<1>. QED
  BY <1>2, SMT

(***************************************************************************)
(* Multiples of a block size.                                              *)
(***************************************************************************)
LEMMA MultipleOf ==
    ASSUME NEW t \in Nat \ {0}, NEW a \in Nat
    PROVE  a % t = 0 <=> \E q \in Nat : a = q * t
<1>1. a = (a \div t) * t + (a % t) /\ a \div t \in Nat /\ a % t \in 0..t - 1
  BY SMT
<1>2. ASSUME NEW q \in Nat, a = q * t
      PROVE  a % t = 0
  BY <1>2, SMT
<1>3. ASSUME a % t = 0
      PROVE  \E q \in Nat : a = q * t
  BY <1>1, <1>3, SMT
<1>. QED
  BY <1>2, <1>3

LEMMA SumOfMultiples ==
    ASSUME NEW t \in Nat \ {0}, NEW a \in Nat, NEW b \in Nat, a % t = 0, b % t = 0
    PROVE  /\ (a + b) % t = 0
           /\ a >= b => (a - b) % t = 0
<1>1. PICK p \in Nat : a = p * t
  BY MultipleOf
<1>2. PICK q \in Nat : b = q * t
  BY MultipleOf
<1>3. a + b = (p + q) * t /\ p + q \in Nat /\ a + b \in Nat
  BY <1>1, <1>2, SMT
<1>4. (a + b) % t = 0
  BY <1>3, MultipleOf
<1>5. ASSUME a >= b
      PROVE  (a - b) % t = 0
  <2>1. p >= q
    BY <1>1, <1>2, <1>5, SMT
  <2>2. a - b = (p - q) * t /\ p - q \in Nat /\ a - b \in Nat
    BY <1>1, <1>2, <1>5, <2>1, SMT
  <2>. QED
    BY <2>2, MultipleOf
<1>. QED
  BY <1>4, <1>5

LEMMA MultipleOfMultiple ==
    ASSUME NEW t \in Nat \ {0}, NEW s \in Nat \ {0}, NEW a \in Nat, a % s = 0, s % t = 0
    PROVE  a % t = 0
<1>1. PICK p \in Nat : a = p * s
  BY MultipleOf
<1>2. PICK q \in Nat : s = q * t
  BY MultipleOf
<1>3. a = (p * q) * t /\ p * q \in Nat
  BY <1>1, <1>2, SMT
<1>. QED
  BY <1>3, MultipleOf

(***************************************************************************)
(* An eraser that has a block around `point' is a real one, it starts at   *)
(* address 0 and its blocks are no larger than the chip.                   *)
(***************************************************************************)
LEMMA UsableEraser ==
    ASSUME NEW point \in Nat, NEW i \in UsableAt(point)
    PROVE  /\ i \in Slots
           /\ Erasers[i] \in EraserRecord
           /\ Erasers[i].block_erase # "none"
           /\ Erasers[i].start = 0
           /\ Erasers[i].size \in Nat \ {0}
           /\ Erasers[i].size <= ChipSize
           /\ BlockStart(i, point) = (point \div Erasers[i].size) * Erasers[i].size
<1>1. i \in Slots /\ find_erase_block(i, point) >= 0
  BY DEF UsableAt
<1>2. Erasers[i] \in EraserRecord
  BY <1>1, ErasersAssumption DEF Slots
<1>3. Erasers[i].block_erase # "none"
  BY <1>1 DEF find_erase_block
<1>4. /\ Erasers[i].start = 0
      /\ Erasers[i].size > 0
      /\ Erasers[i].size * Erasers[i].count = ChipSize
  BY <1>1, <1>3, ErasersAssumption DEF WellFormedEraser
<1>5. Erasers[i].size \in Nat \ {0} /\ Erasers[i].count \in Nat
  BY <1>2, <1>4, SMT DEF EraserRecord
<1>6. Erasers[i].size <= ChipSize
  BY <1>4, <1>5, ProductBound, SizesAssumption
<1>7. find_erase_block(i, point) = point \div Erasers[i].size
  BY <1>1, <1>3, <1>4, <1>5, SMT DEF find_erase_block
<1>8. BlockStart(i, point) = (point \div Erasers[i].size) * Erasers[i].size
  BY <1>4, <1>5, <1>7, DivBounds, SMT DEF BlockStart
<1>. QED
  BY <1>1, <1>2, <1>3, <1>4, <1>5, <1>6, <1>8

(***************************************************************************)
(* The block chosen first starts at 0; one chosen later starts at `where'  *)
(* and ends at or before `end'.                                            *)
(***************************************************************************)
LEMMA FirstChoice ==
    ASSUME NEW n \in Nat, NEW i \in find_smallest_eraser_before_point(0, n)
    PROVE  /\ i \in Slots
           /\ Erasers[i].size \in Nat \ {0}
           /\ Erasers[i].size <= ChipSize
           /\ BlockEnd(i, 0) = Erasers[i].size
<1>1. i \in UsableAt(0)
  BY DEF find_smallest_eraser_before_point
<1>2. BlockStart(i, 0) = (0 \div Erasers[i].size) * Erasers[i].size
  BY <1>1, UsableEraser
<1>3. Erasers[i].size \in Nat \ {0}
  BY <1>1, UsableEraser
<1>4. BlockStart(i, 0) = 0
  BY <1>2, <1>3, DivBounds, SMT
<1>. QED
  BY <1>1, <1>3, <1>4, UsableEraser DEF BlockEnd

LEMMA LaterChoice ==
    ASSUME NEW p \in Nat, NEW n \in Nat, NEW i \in find_biggest_eraser_within(p, n)
    PROVE  /\ i \in Slots
           /\ Erasers[i].size \in Nat \ {0}
           /\ p % Erasers[i].size = 0
           /\ p + Erasers[i].size <= n
<1>1. i \in FitsWithin(p, n)
  BY DEF find_biggest_eraser_within
<1>2. i \in UsableAt(p)
  BY <1>1 DEF FitsWithin
<1>3. /\ Erasers[i].start = 0
      /\ Erasers[i].size \in Nat \ {0}
      /\ i \in Slots
  BY <1>2, UsableEraser
<1>. QED
  BY <1>1, <1>3, SMT DEF FitsWithin, BlockEnd
-----------------------------------------------------------------------------
(***************************************************************************)
(* The inductive invariant.  PlanTiles and NoOverErase need to know where  *)
(* the function is: the list is empty only until the first block has been  *)
(* chosen, and only that one may end behind `end'.                         *)
(***************************************************************************)
Stages ==
    /\ ppc = "first" => where = 0 /\ erases = << >>
    /\ ppc = "idle" => where = 0 /\ end = 0 /\ erases = << >>
    /\ ppc \in {"loop", "ok", "ENODEV"} => erases # << >>
    /\ ppc = "ok" => where >= end

PlannerInv == PlannerTypeOK /\ PlanTiles /\ NoOverErase /\ Stages

(***************************************************************************)
(* eraser_add keeps the tiling if the new block starts where the others    *)
(* end: the only reason for which the list is a tiling at all.             *)
(***************************************************************************)
LEMMA AddedBlock ==
    ASSUME PlannerInv, NEW i \in Slots, eraser_add(i),
           Erasers[i].size \in Nat \ {0},
           where % Erasers[i].size = 0,
           where' = where + Erasers[i].size, where' \in 0..ChipSize
    PROVE  /\ erases' \in Seq([eraser : Slots, at : 0..ChipSize])
           /\ PlanTiles'
           /\ erases' # << >>
           /\ Len(erases') = Len(erases) + 1
<1> DEFINE new == [eraser |-> i, at |-> where]
<1> DEFINE Entry == [eraser : Slots, at : 0..ChipSize]
<1>1. erases \in Seq(Entry) /\ where \in 0..ChipSize
  BY DEF PlannerInv, PlannerTypeOK
<1>2. new \in Entry /\ new.at = where /\ SizeOf(new) = Erasers[i].size
  BY <1>1 DEF SizeOf
<1>3. erases' = <<new>> \o erases
  BY DEF eraser_add
<1> HIDE DEF new
<1>4. /\ erases' \in Seq(Entry)
      /\ Len(erases') = Len(erases) + 1
      /\ erases'[1] = new
      /\ \A k \in 1..Len(erases) : erases'[k + 1] = erases[k]
  BY <1>1, <1>2, <1>3, SMT
<1>5. Len(erases) \in Nat
  BY <1>1
<1>6. \A k \in 2..Len(erases') : k - 1 \in 1..Len(erases) /\ erases'[k] = erases[k - 1]
  BY <1>4, <1>5, SMT
<1>7. \A e : SizeOf(e)' = SizeOf(e)
  BY DEF SizeOf
<1>8. PlanTiles
  BY DEF PlannerInv
<1>9. erases' # << >>
  BY <1>4, <1>5, SMT
<1>10. erases'[1].at + SizeOf(erases'[1]) = where'
  BY <1>2, <1>4
<1>11. erases'[Len(erases')].at = 0
  <2>1. CASE erases = << >>
    <3>1. where = 0 /\ Len(erases) = 0
      BY <2>1, <1>8 DEF PlanTiles
    <3>. QED
      BY <3>1, <1>2, <1>4
  <2>2. CASE erases # << >>
    <3>1. Len(erases) \in 1..Len(erases)
      BY <2>2, <1>1, <1>5, SMT
    <3>2. erases[Len(erases)].at = 0
      BY <2>2, <1>8 DEF PlanTiles
    <3>. QED
      BY <3>1, <3>2, <1>4
  <2>. QED
    BY <2>1, <2>2
<1>12. \A k \in 1..Len(erases') :
          /\ SizeOf(erases'[k]) > 0
          /\ erases'[k].at % SizeOf(erases'[k]) = 0
  <2>1. TAKE k \in 1..Len(erases')
  <2>2. CASE k = 1
    BY <2>2, <1>2, <1>4
  <2>3. CASE k # 1
    <3>1. k \in 2..Len(erases')
      BY <2>3, <1>4, <1>5, SMT
    <3>. QED
      BY <3>1, <1>6, <1>8 DEF PlanTiles
  <2>. QED
    BY <2>2, <2>3
<1>13. \A k \in 1..Len(erases') - 1 :
          erases'[k].at = erases'[k + 1].at + SizeOf(erases'[k + 1])
  <2>1. TAKE k \in 1..Len(erases') - 1
  <2>2. k \in 1..Len(erases) /\ erases'[k + 1] = erases[k]
    BY <1>4, <1>5, SMT
  <2>3. CASE k = 1
    <3>1. erases # << >>
      BY <2>2, <1>5, SMT
    <3>2. erases[1].at + SizeOf(erases[1]) = where
      BY <3>1, <1>8 DEF PlanTiles
    <3>. QED
      BY <2>2, <2>3, <3>2, <1>2, <1>4
  <2>4. CASE k # 1
    <3>1. k - 1 \in 1..Len(erases) - 1 /\ (k - 1) + 1 = k /\ k \in 2..Len(erases')
      BY <2>2, <2>4, <1>4, <1>5, SMT
    <3>2. erases[k - 1].at = erases[k].at + SizeOf(erases[k])
      BY <3>1, <1>8 DEF PlanTiles
    <3>. QED
      BY <2>2, <3>1, <3>2, <1>6
  <2>. QED
    BY <2>3, <2>4
<1>14. PlanTiles'
  BY <1>7, <1>9, <1>10, <1>11, <1>12, <1>13 DEF PlanTiles
<1>. QED
  BY <1>4, <1>9, <1>14

(***************************************************************************)
(* A first block larger than the region is chosen only if every usable     *)
(* block is: one that is not erases nothing outside and is preferred.      *)
(***************************************************************************)
LEMMA FirstChoiceIsSmall ==
    ASSUME NEW n \in Nat, NEW i \in find_smallest_eraser_before_point(0, n),
           Erasers[i].size > n
    PROVE  \A j \in UsableAt(0) : Erasers[j].size > n
<1>1. SUFFICES ASSUME NEW j \in UsableAt(0), ~(Erasers[j].size > n)
               PROVE  FALSE
  OBVIOUS
<1>2. i \in UsableAt(0) /\ PreferBefore(i, j, 0, n)
  BY DEF find_smallest_eraser_before_point
<1>3. \A k \in UsableAt(0) : /\ Erasers[k].size \in Nat \ {0}
                             /\ BlockStart(k, 0) = 0
  <2>1. TAKE k \in UsableAt(0)
  <2>2. /\ Erasers[k].size \in Nat \ {0}
        /\ BlockStart(k, 0) = (0 \div Erasers[k].size) * Erasers[k].size
    BY UsableEraser
  <2>3. BlockStart(k, 0) = 0
    BY <2>2, DivBounds, SMT
  <2>. QED
    BY <2>2, <2>3
<1>4. \A k \in UsableAt(0) :
         OverErase(k, 0, n) = IF Erasers[k].size >= n THEN Erasers[k].size - n ELSE 0
  BY <1>3, SMT DEF OverErase, BlockEnd
<1>5. OverErase(j, 0, n) = 0
  BY <1>1, <1>3, <1>4, SMT
<1>6. OverErase(i, 0, n) > 0 /\ OverErase(i, 0, n) \in Nat
  BY <1>2, <1>3, <1>4, SMT
<1>. QED
  BY <1>2, <1>5, <1>6, SMT DEF PreferBefore
-----------------------------------------------------------------------------
(***************************************************************************)
(* A call establishes the invariant, every step of the function keeps it.  *)
(* The module that composes the planner cites these two.                   *)
(***************************************************************************)
LEMMA CallEstablishes ==
    ASSUME NEW n \in 0..ChipSize, Call(n)
    PROVE  PlannerInv'
<1>1. ChipSize \in Nat \ {0}
  BY SizesAssumption
<1>2. PlannerTypeOK'
  BY <1>1, SMT DEF Call, Start, PlannerTypeOK, PlannerResults
<1>3. erases' = << >> /\ where' = 0 /\ end' = n /\ ppc' = "first"
  BY SMT DEF Call, Start
<1>4. PlanTiles'
  BY <1>3, SMT DEF PlanTiles
<1>5. NoOverErase' /\ Stages'
  BY <1>3, SMT DEF NoOverErase, Stages
<1>. QED
  BY <1>2, <1>4, <1>5 DEF PlannerInv

LEMMA PlannerStepKeeps ==
    ASSUME PlannerInv, PlannerStep
    PROVE  PlannerInv'
<1> DEFINE Entry == [eraser : Slots, at : 0..ChipSize]
<1>1. ChipSize \in Nat \ {0} /\ where \in 0..ChipSize /\ end \in 0..ChipSize
  BY SizesAssumption DEF PlannerInv, PlannerTypeOK
<1>2. PlanTiles /\ NoOverErase /\ Stages /\ PlannerTypeOK
  BY DEF PlannerInv
<1>3. CASE FirstBlock
  <2>1. ppc = "first" /\ where = 0 /\ erases = << >> /\ end' = end
    BY <1>2, <1>3 DEF FirstBlock, Stages
  <2>2. CASE find_smallest_eraser_before_point(where, end) = {}
    <3>1. ppc' = "EINVAL" /\ where' = where /\ erases' = erases
      BY <1>3, <2>2 DEF FirstBlock
    <3>2. PlannerTypeOK'
      BY <1>2, <2>1, <3>1 DEF PlannerTypeOK, PlannerResults
    <3>3. PlanTiles'
      BY <2>1, <3>1, SMT DEF PlanTiles
    <3>4. NoOverErase' /\ Stages'
      BY <1>1, <2>1, <3>1, SMT DEF NoOverErase, Stages
    <3>. QED
      BY <3>2, <3>3, <3>4 DEF PlannerInv
  <2>3. CASE find_smallest_eraser_before_point(where, end) # {}
    <3>1. PICK i \in find_smallest_eraser_before_point(0, end) :
             eraser_add(i) /\ where' = BlockEnd(i, 0) /\ ppc' = "loop"
      BY <1>3, <2>1, <2>3 DEF FirstBlock
    <3>2. /\ i \in Slots
          /\ Erasers[i].size \in Nat \ {0}
          /\ Erasers[i].size <= ChipSize
          /\ where' = Erasers[i].size
      BY <1>1, <3>1, FirstChoice
    <3>3. /\ where % Erasers[i].size = 0
          /\ where' = where + Erasers[i].size
          /\ where' \in 0..ChipSize
      BY <1>1, <2>1, <3>2, SMT
    <3>4. /\ erases' \in Seq(Entry)
          /\ PlanTiles'
          /\ erases' # << >>
          /\ Len(erases') = Len(erases) + 1
      BY <3>1, <3>2, <3>3, AddedBlock
    <3>5. PlannerTypeOK'
      BY <1>1, <2>1, <3>1, <3>3, <3>4 DEF PlannerTypeOK, PlannerResults
    <3>6. NoOverErase'
      <4>1. SUFFICES ASSUME Erasers[i].size > end
                     PROVE  \A j \in UsableAt(0) : Erasers[j].size > end
        BY <2>1, <3>2, <3>4, SMT DEF NoOverErase, UsableAt, find_erase_block
      <4>. QED
        BY <1>1, <3>1, <4>1, FirstChoiceIsSmall, SMT
    <3>7. Stages'
      BY <3>1, <3>4 DEF Stages
    <3>. QED
      BY <3>4, <3>5, <3>6, <3>7 DEF PlannerInv
  <2>. QED
    BY <2>2, <2>3
<1>4. CASE NextBlock
  <2>1. PICK i \in find_biggest_eraser_within(where, end) :
           eraser_add(i) /\ where' = where + Erasers[i].size
    BY <1>4 DEF NextBlock
  <2>2. ppc = "loop" /\ ppc' = ppc /\ end' = end
    BY <1>4 DEF NextBlock
  <2>3. /\ i \in Slots
        /\ Erasers[i].size \in Nat \ {0}
        /\ where % Erasers[i].size = 0
        /\ where + Erasers[i].size <= end
    BY <1>1, LaterChoice
  <2>4. where' \in 0..ChipSize /\ where' <= end'
    BY <1>1, <2>1, <2>2, <2>3, SMT
  <2>5. /\ erases' \in Seq(Entry)
        /\ PlanTiles'
        /\ erases' # << >>
    BY <2>1, <2>3, <2>4, AddedBlock
  <2>6. PlannerTypeOK'
    BY <1>2, <2>2, <2>4, <2>5 DEF PlannerTypeOK
  <2>7. NoOverErase'
    BY <1>1, <2>2, <2>4, SMT DEF NoOverErase
  <2>8. Stages'
    BY <2>2, <2>5 DEF Stages
  <2>. QED
    BY <2>5, <2>6, <2>7, <2>8 DEF PlannerInv
<1>5. CASE NoNextBlock \/ Covered
  <2>1. /\ ppc = "loop"
        /\ ppc' \in {"ENODEV", "ok"}
        /\ ppc' = "ok" => where >= end
        /\ where' = where /\ end' = end /\ erases' = erases
    BY <1>5 DEF NoNextBlock, Covered
  <2>2. PlannerTypeOK'
    BY <1>2, <2>1 DEF PlannerTypeOK, PlannerResults
  <2>3. PlanTiles'
    BY <1>2, <2>1 DEF PlanTiles, SizeOf
  <2>4. NoOverErase'
    BY <1>2, <2>1 DEF NoOverErase, UsableAt, find_erase_block
  <2>5. Stages'
    BY <1>2, <2>1 DEF Stages
  <2>. QED
    BY <2>2, <2>3, <2>4, <2>5 DEF PlannerInv
<1>. QED
  BY <1>3, <1>4, <1>5 DEF PlannerStep

LEMMA PlannerInitEstablishes == PlannerInit => PlannerInv
  BY SizesAssumption, SMT
     DEF PlannerInit, PlannerInv, PlannerTypeOK, PlanTiles, NoOverErase, Stages, PlannerResults

LEMMA PlannerStutterKeeps ==
    ASSUME PlannerInv, UNCHANGED plannerVars
    PROVE  PlannerInv'
  BY DEF plannerVars, PlannerInv, PlannerTypeOK, PlanTiles, NoOverErase, Stages, SizeOf,
         UsableAt, find_erase_block
-----------------------------------------------------------------------------
LEMMA PlannerInvariant == PlannerSpec => []PlannerInv
<1>1. PlannerInv /\ [PlannerNext]_plannerVars => PlannerInv'
  <2>1. ASSUME PlannerInv, PlannerNext
        PROVE  PlannerInv'
    <3>1. CASE PlannerStep
      BY <2>1, <3>1, PlannerStepKeeps
    <3>2. CASE \E n \in 1..ChipSize : Call(n)
      <4>1. PICK n \in 1..ChipSize : Call(n)
        BY <3>2
      <4>2. n \in 0..ChipSize
        BY SizesAssumption, SMT
      <4>. QED
        BY <4>1, <4>2, CallEstablishes
    <3>. QED
      BY <2>1, <3>1, <3>2 DEF PlannerNext
  <2>. QED
    BY <2>1, PlannerStutterKeeps
<1>. QED
  BY PlannerInitEstablishes, <1>1, PTL DEF PlannerSpec

(***************************************************************************)
(* The planner's variables keep their types.                               *)
(***************************************************************************)
THEOREM PlannerTypeCorrect == PlannerSpec => []PlannerTypeOK
  BY PlannerInvariant, PTL DEF PlannerInv

(***************************************************************************)
(* Whatever the erase sizes of the chip and the length of the image, the   *)
(* blocks chosen tile the region with aligned blocks.                      *)
(***************************************************************************)
THEOREM PlanIsTiling == PlannerSpec => []PlanTiles
  BY PlannerInvariant, PTL DEF PlannerInv

(***************************************************************************)
(* Only a region smaller than every erase block is erased past its end.    *)
(***************************************************************************)
THEOREM OverErasesOnlySmallRegions == PlannerSpec => []NoOverErase
  BY PlannerInvariant, PTL DEF PlannerInv
=============================================================================
