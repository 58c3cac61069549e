------------------------- MODULE MCDediprogTransfer -------------------------
(***************************************************************************)
(* DediprogTransfer on a chip of 8 cells, with pages of 2 for writing and  *)
(* of 4 for reading: transfers of none, one and several complete pages,    *)
(* with and without a residue, one after the other.                        *)
(***************************************************************************)
EXTENDS DediprogTransfer

MCChipSize == 8
MCPageSize == 2
MCMinAlign == 4
MCBits == {"b"}
MCImages == { [a \in 0..MCChipSize - 1 |-> MCBits],
              [a \in 0..MCChipSize - 1 |-> IF a % 3 = 1 THEN MCBits ELSE {}] }
MCMayFail == {"prep", "bulk"}
=============================================================================
