----------------------------- MODULE MinimalPlan -----------------------------
(***************************************************************************)
(* What the best plan for a region would be, for comparison with the one   *)
(* that compute_list_erases chooses block by block.                        *)
(***************************************************************************)
EXTENDS ErasePlanner, FiniteSetsExt

(***************************************************************************)
(* The sizes of the erasers of every declared chip divide each other: 4k,  *)
(* 32k, 64k, 8M (chips/w25q64w.c, chips/mx25u12835f.c).                    *)
(***************************************************************************)
Used == {i \in Slots : Erasers[i].block_erase # "none"}

ASSUME NestedSizesAssumption ==
    \A i, j \in Used : Erasers[i].size <= Erasers[j].size
                          => Erasers[j].size % Erasers[i].size = 0

(***************************************************************************)
(* The least number of aligned blocks that cover 0..n exactly, by dynamic  *)
(* programming over the last block; Impossible if none do.                 *)
(***************************************************************************)
Impossible == ChipSize + 1
LastBlocks(n) == {i \in Used : /\ Erasers[i].size <= n
                               /\ (n - Erasers[i].size) % Erasers[i].size = 0}
MinBlocks[n \in 0..ChipSize] ==
    IF n = 0 THEN 0
    ELSE Min({Impossible} \cup {1 + MinBlocks[n - Erasers[i].size] : i \in LastBlocks(n)})

(***************************************************************************)
(* The greedy choice is optimal: an accepted region that ends at a block   *)
(* boundary is covered with the least possible number of erase commands,   *)
(* and a smaller one with a single command.                                *)
(***************************************************************************)
FewestErases ==
    ppc = "ok" => Len(erases) = IF where = end THEN MinBlocks[end] ELSE 1

(***************************************************************************)
(* -ENODEV is returned only for a region no aligned blocks cover exactly,  *)
(* although the greedy choice never goes back (erase.c:230-238).           *)
(***************************************************************************)
RefusedOnlyIfImpossible ==
    ppc = "ENODEV" => MinBlocks[end] >= Impossible
=============================================================================
