---------------------------- MODULE ErasePlanner ----------------------------
(***************************************************************************)
(* compute_list_erases (chips/erase.c): choosing the erase blocks that     *)
(* cover start..start+len.  Every caller passes start = 0: operation.c     *)
(* calls op_write_chip with where = 0.                                     *)
(*                                                                         *)
(* eraser_add inserts at the head of the list, so `erases' is in reverse   *)
(* order of the choices.  Each entry is a copy of a block_eraser, which    *)
(* says what eraser was chosen and nothing of where: the field `at' of our *)
(* entries is auxiliary, kept for the properties, and no guard or value    *)
(* the code computes depends on it.                                        *)
(***************************************************************************)
EXTENDS Flashchip

Start == 0

VARIABLES
    ppc,     \* where compute_list_erases is: idle, first, loop, then its result
    where,   \* local: the first address not covered yet
    end,     \* local: start + len
    erases   \* local list, head first: [eraser : Slots, at : Nat]

plannerVars == <<ppc, where, end, erases>>

PlannerResults == {"ok", "EINVAL", "ENODEV"}

PlannerTypeOK ==
    /\ ppc \in {"idle", "first", "loop"} \cup PlannerResults
    /\ where \in 0..ChipSize
    /\ end \in 0..ChipSize
    /\ erases \in Seq([eraser : Slots, at : 0..ChipSize])

PlannerInit ==
    /\ ppc = "idle"
    /\ where = 0
    /\ end = 0
    /\ erases = << >>

SizeOf(entry) == Erasers[entry.eraser].size

(* Mutant: the entry goes to the tail of the list (list_add_tail).          *)
eraser_add_AtTail(i) == erases' = Append(erases, [eraser |-> i, at |-> where])

eraser_add(i) == erases' = <<[eraser |-> i, at |-> where]>> \o erases

-----------------------------------------------------------------------------
Call(len) ==
    /\ ppc' = "first"
    /\ where' = Start
    /\ end' = Start + len
    /\ erases' = << >>

(***************************************************************************)
(* The block around `start'.  Without any usable eraser: -EINVAL.          *)
(***************************************************************************)
FirstBlock ==
    /\ ppc = "first"
    /\ IF find_smallest_eraser_before_point(where, end) = {}
       THEN ppc' = "EINVAL" /\ UNCHANGED <<where, erases>>
       ELSE \E i \in find_smallest_eraser_before_point(where, end) :
               /\ eraser_add(i)
               /\ where' = BlockEnd(i, where)
               /\ ppc' = "loop"
    /\ UNCHANGED end

(* Mutant: the next block is taken however far it reaches.                  *)
NextBlock_Unbounded ==
    /\ ppc = "loop"
    /\ where < end
    /\ \E i \in UsableAt(where) :
          /\ eraser_add(i)
          /\ where' = where + Erasers[i].size
    /\ UNCHANGED <<ppc, end>>

(***************************************************************************)
(* while (where < end && eraser): one more aligned block.                  *)
(***************************************************************************)
NextBlock ==
    /\ ppc = "loop"
    /\ where < end
    /\ \E i \in find_biggest_eraser_within(where, end) :
          /\ eraser_add(i)
          /\ where' = where + Erasers[i].size
    /\ UNCHANGED <<ppc, end>>

(* Mutant: the loop does not test `eraser' and goes round for ever.         *)
NoNextBlock_Spins ==
    /\ ppc = "loop"
    /\ where < end
    /\ find_biggest_eraser_within(where, end) = {}
    /\ UNCHANGED plannerVars

(***************************************************************************)
(* No block fits: the loop ends short of `end' and -ENODEV is returned     *)
(* before the attempt to find a last, larger block.                        *)
(***************************************************************************)
NoNextBlock ==
    /\ ppc = "loop"
    /\ where < end
    /\ find_biggest_eraser_within(where, end) = {}
    /\ ppc' = "ENODEV"
    /\ UNCHANGED <<where, end, erases>>

Covered ==
    /\ ppc = "loop"
    /\ where >= end
    /\ ppc' = "ok"
    /\ UNCHANGED <<where, end, erases>>

PlannerStep == FirstBlock \/ NextBlock \/ NoNextBlock \/ Covered

-----------------------------------------------------------------------------
(***************************************************************************)
(* The planner on its own: one call after another, on any length.          *)
(***************************************************************************)
PlannerNext ==
    \/ /\ ppc \in {"idle"} \cup PlannerResults
       /\ \E len \in 1..ChipSize : Call(len)
    \/ PlannerStep

PlannerSpec == PlannerInit /\ [][PlannerNext]_plannerVars

PlannerFairSpec == PlannerSpec /\ WF_plannerVars(PlannerStep)
-----------------------------------------------------------------------------
(***************************************************************************)
(* The list, read from its tail, tiles the addresses from 0 to `where'     *)
(* with aligned blocks of the chip: no gap, no overlap, nothing twice.     *)
(* (eraser_add and the two updates of `where', erase.c:226-235.)           *)
(***************************************************************************)
PlanTiles ==
    /\ erases = << >> => where = 0
    /\ erases # << >> =>
         /\ erases[1].at + SizeOf(erases[1]) = where
         /\ erases[Len(erases)].at = 0
    /\ \A k \in 1..Len(erases) :
         /\ SizeOf(erases[k]) > 0
         /\ erases[k].at % SizeOf(erases[k]) = 0
    /\ \A k \in 1..Len(erases) - 1 :
         erases[k].at = erases[k + 1].at + SizeOf(erases[k + 1])

(***************************************************************************)
(* A plan of several blocks ends exactly at `end': only a region smaller   *)
(* than every erase block is erased past its end (compute_list_erases,     *)
(* FirstBlock's over_erase metric and the `within' of the loop).           *)
(***************************************************************************)
NoOverErase ==
    where > end => /\ Len(erases) = 1
                   /\ \A i \in UsableAt(0) : Erasers[i].size > end

(***************************************************************************)
(* Blocks are chosen from the largest to the smallest, so the list, which  *)
(* is reversed, is ascending (chip_erase and chip_write_if_changes walk it *)
(* from its head).                                                         *)
(***************************************************************************)
ReversedPlanAscends ==
    \A j, k \in 1..Len(erases) : j < k => SizeOf(erases[j]) <= SizeOf(erases[k])

(***************************************************************************)
(* Every call returns (the loop of erase.c:230-236 makes progress).        *)
(***************************************************************************)
PlannerTerminates == (ppc = "first") ~> (ppc \in PlannerResults)
=============================================================================
