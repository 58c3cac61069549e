----------------------------- MODULE Flashchip -----------------------------
(***************************************************************************)
(* What `struct flashchip' (include/chip.h) says of a chip, as far as      *)
(* planning an erase and writing an image depend on it.  Sizes are counted *)
(* in cells; a cell stands for the bytes that are always handled together. *)
(***************************************************************************)
EXTENDS Integers, Sequences

CONSTANTS
    ChipSize,   \* total_size_kb * 1024
    PageSize,   \* page_size
    Erasers     \* erasers[NUM_ERASEFUNCTIONS], a sequence of EraserRecord

(***************************************************************************)
(* The block_erase function pointer: absent in an unused slot, a function  *)
(* that sends the block's address (20, 52, d8, ...), or one that erases    *)
(* the whole chip whatever the address (60, 62, c7).                       *)
(***************************************************************************)
EraseFunction == {"none", "block", "chip"}

EraserRecord == [start : Nat, size : Nat, count : Nat, block_erase : EraseFunction]

Slots == DOMAIN Erasers

(***************************************************************************)
(* What every declared chip (chips/w25q64w.c, chips/mx25u12835f.c) has in  *)
(* common: an eraser covers the chip from address 0 to its end in equal    *)
(* blocks, a chip-wide one in a single block, an unused slot is zeroed,    *)
(* and blocks are made of whole pages.                                     *)
(***************************************************************************)
WellFormedEraser(e) ==
    \/ e = [start |-> 0, size |-> 0, count |-> 0, block_erase |-> "none"]
    \/ /\ e.start = 0
       /\ e.size > 0
       /\ e.size % PageSize = 0
       /\ e.size * e.count = ChipSize
       /\ e.block_erase = "chip" => e.count = 1

ASSUME SizesAssumption == ChipSize \in Nat \ {0} /\ PageSize \in Nat \ {0}
ASSUME ErasersAssumption ==
    /\ Erasers \in Seq(EraserRecord)
    /\ \A i \in Slots : WellFormedEraser(Erasers[i])

-----------------------------------------------------------------------------
(***************************************************************************)
(* find_erase_block(eraser, where): the number of the block that holds     *)
(* `where', or -1.  The upper test lets `where' be one past the last block *)
(* (> where >= is meant); the division then yields the number `count'.     *)
(***************************************************************************)
find_erase_block(i, where) ==
    LET e == Erasers[i]
    IN  IF \/ e.block_erase = "none"
           \/ where < e.start
           \/ where > e.start + e.size * e.count
        THEN -1
        ELSE (where - e.start) \div e.size

BlockStart(i, where) == Erasers[i].start + find_erase_block(i, where) * Erasers[i].size

(* Mutant: the last address of the block, for the one behind it.            *)
BlockEnd_Inclusive(i, where) == BlockStart(i, where) + Erasers[i].size - 1

BlockEnd(i, where) == BlockStart(i, where) + Erasers[i].size

UsableAt(where) == {i \in Slots : find_erase_block(i, where) >= 0}

(***************************************************************************)
(* find_smallest_eraser_before_point(erasers, start, end): the eraser      *)
(* whose block around `start' erases the least outside start..end, then    *)
(* the largest of those, then the first of the table.  The chosen slot is  *)
(* given as a set: empty for NULL, else a singleton.                       *)
(***************************************************************************)
OverErase(i, start, end) ==
    (start - BlockStart(i, start))
  + (IF BlockEnd(i, start) >= end THEN BlockEnd(i, start) - end ELSE 0)

(* Mutant: of two erasers that erase as much, the smaller is preferred.     *)
PreferBefore_Smaller(i, j, start, end) ==
    LET a == OverErase(i, start, end)
        b == OverErase(j, start, end)
    IN  \/ a < b
        \/ a = b /\ Erasers[i].size < Erasers[j].size
        \/ a = b /\ Erasers[i].size = Erasers[j].size /\ i <= j

PreferBefore(i, j, start, end) ==
    LET a == OverErase(i, start, end)
        b == OverErase(j, start, end)
    IN  \/ a < b
        \/ a = b /\ Erasers[i].size > Erasers[j].size
        \/ a = b /\ Erasers[i].size = Erasers[j].size /\ i <= j

find_smallest_eraser_before_point(start, end) ==
    {i \in UsableAt(start) : \A j \in UsableAt(start) : PreferBefore(i, j, start, end)}

(***************************************************************************)
(* find_biggest_eraser_within(erasers, start, end): the largest eraser     *)
(* that has a block starting at `start' and ending at or before `end', the *)
(* first of the table among equals.                                        *)
(***************************************************************************)
(* Mutant: a block may not end exactly at `end'.                            *)
FitsWithin_Strictly(start, end) ==
    {i \in UsableAt(start) : BlockStart(i, start) = start /\ BlockEnd(i, start) < end}

(* Mutant: the block's end is not tested.                                   *)
FitsWithin_AnyEnd(start, end) ==
    {i \in UsableAt(start) : BlockStart(i, start) = start}

FitsWithin(start, end) ==
    {i \in UsableAt(start) : /\ (start - Erasers[i].start) % Erasers[i].size = 0
                             /\ BlockStart(i, start) = start
                             /\ BlockEnd(i, start) <= end}

find_biggest_eraser_within(start, end) ==
    {i \in FitsWithin(start, end) :
        \A j \in FitsWithin(start, end) :
            \/ Erasers[i].size > Erasers[j].size
            \/ Erasers[i].size = Erasers[j].size /\ i <= j}
=============================================================================
