---------------------------- MODULE MCReadVerify ----------------------------
(***************************************************************************)
(* ReadVerify, and with it DediprogTransfer, on a chip of 8 cells with     *)
(* pages of 2 for writing and of 4 for reading, and files that are empty,  *)
(* of a page, of a page and a residue.                                     *)
(***************************************************************************)
EXTENDS ReadVerify

MCChipSize == 8
MCPageSize == 2
MCMinAlign == 4
MCBits == {"b"}
MCImages == { [a \in 0..MCChipSize - 1 |-> MCBits],
              [a \in 0..MCChipSize - 1 |-> IF a % 3 = 1 THEN MCBits ELSE {}] }
MCMayFail == {"prep", "bulk"}
MCFiles == { << >>, [a \in 0..3 |-> {}], [a \in 0..5 |-> IF a = 4 THEN {} ELSE MCBits] }
MCFileMayFail == {"open", "disk", "close"}
MCCuts == {0, 3}
=============================================================================
