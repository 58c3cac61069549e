----------------------------- MODULE ZoneWrite ------------------------------
(***************************************************************************)
(* What writing an image promises about the chip's contents, whatever      *)
(* fails on the way: a zone at the start of the chip is fixed once, before *)
(* the first change; from then on the contents only change by erasing      *)
(* cells of the zone or clearing bits of them; and once the operation has  *)
(* returned they do not change any more.                                   *)
(***************************************************************************)
EXTENDS Integers

CONSTANTS ChipSize, Bits

VARIABLES mem, zone, status

Addr == 0..ChipSize - 1

Init ==
    /\ mem \in [Addr -> SUBSET Bits]
    /\ zone = 0
    /\ status = "idle"

Begin ==
    /\ status = "idle"
    /\ status' = "working"
    /\ zone' \in 0..ChipSize
    /\ UNCHANGED mem

(***************************************************************************)
(* Erase and Program say which contents may follow, not which cells are    *)
(* chosen: any number of them may change at once.                          *)
(***************************************************************************)
Erase ==
    /\ status = "working"
    /\ mem' \in [Addr -> SUBSET Bits]
    /\ \A a \in Addr : mem'[a] # mem[a] => a < zone /\ mem'[a] = Bits
    /\ UNCHANGED <<zone, status>>

Program ==
    /\ status = "working"
    /\ mem' \in [Addr -> SUBSET Bits]
    /\ \A a \in Addr : mem'[a] # mem[a] => a < zone /\ mem'[a] \subseteq mem[a]
    /\ UNCHANGED <<zone, status>>

Finish ==
    /\ status \in {"idle", "working"}
    /\ status' = "done"
    /\ UNCHANGED <<mem, zone>>

Next == Begin \/ Erase \/ Program \/ Finish

Spec == Init /\ [][Next]_<<mem, zone, status>>
=============================================================================
