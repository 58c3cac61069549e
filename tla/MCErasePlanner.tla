--------------------------- MODULE MCErasePlanner ---------------------------
(***************************************************************************)
(* The planner on a chip shaped like the two declared ones: three erase    *)
(* sizes that divide each other, two chip-wide erasers (60 and c7) and an  *)
(* unused slot.  A cell stands for half of the smallest erase block, so    *)
(* that regions ending inside a block occur.                               *)
(***************************************************************************)
EXTENDS MinimalPlan

MCChipSize == 64
MCPageSize == 1
MCErasers == <<
    [start |-> 0, size |-> 2,  count |-> 32, block_erase |-> "block"],
    [start |-> 0, size |-> 8,  count |-> 8,  block_erase |-> "block"],
    [start |-> 0, size |-> 16, count |-> 4,  block_erase |-> "block"],
    [start |-> 0, size |-> 64, count |-> 1,  block_erase |-> "chip"],
    [start |-> 0, size |-> 64, count |-> 1,  block_erase |-> "chip"],
    [start |-> 0, size |-> 0,  count |-> 0,  block_erase |-> "none"] >>

(***************************************************************************)
(* What the man page says (flashrom2.8:45-46): "For the portion of the     *)
(* chip to be written, the biggest erasing blocks encompassing this region *)
(* are chosen to be erased".  Blocks that encompass the region always      *)
(* exist, so no region of the chip is refused.                             *)
(***************************************************************************)
EncompassingBlocksChosen == ppc \in PlannerResults => ppc = "ok"
=============================================================================
