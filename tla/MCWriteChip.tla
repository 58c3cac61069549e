---------------------------- MODULE MCWriteChip -----------------------------
(***************************************************************************)
(* WriteChip on a chip of 12 cells: pages of two cells, so that images end *)
(* inside a page; erase blocks of 2 and of 4, so that plans are uniform or *)
(* mixed; two chip-wide erasers and an unused slot.                        *)
(***************************************************************************)
EXTENDS WriteChip

MCChipSize == 12
MCPageSize == 2
MCErasers == <<
    [start |-> 0, size |-> 2,  count |-> 6, block_erase |-> "block"],
    [start |-> 0, size |-> 4,  count |-> 3, block_erase |-> "block"],
    [start |-> 0, size |-> 12, count |-> 1, block_erase |-> "chip"],
    [start |-> 0, size |-> 12, count |-> 1, block_erase |-> "chip"],
    [start |-> 0, size |-> 0,  count |-> 0, block_erase |-> "none"] >>
MCBits == {"b"}

(***************************************************************************)
(* The file holds both values in every page, and in its first blocks the   *)
(* same as the chip or not; one chip is what a run leaves that was broken  *)
(* off behind the first block.                                             *)
(***************************************************************************)
Alternating == [a \in 0..MCChipSize - 1 |-> IF a % 2 = 0 THEN {} ELSE MCBits]
MCNewImages == {Alternating}
MCOldImages == {
    [a \in 0..MCChipSize - 1 |-> {}],
    [a \in 0..MCChipSize - 1 |-> IF a % 3 = 0 THEN MCBits ELSE {}],
    [a \in 0..MCChipSize - 1 |-> IF a < 4 THEN Alternating[a] ELSE {}],
    [a \in 0..MCChipSize - 1 |-> IF a < 4 THEN Alternating[a] ELSE IF a < 8 THEN MCBits ELSE {}],
    Alternating }
MCMayHappen == Mishaps
NoMishaps == {}
=============================================================================
