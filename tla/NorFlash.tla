------------------------------ MODULE NorFlash ------------------------------
(***************************************************************************)
(* The serial NOR flash on the other side of the programmer, as far as the *)
(* code relies on it: erasing sets every bit of a block, programming can   *)
(* only clear bits, both need the write-enable latch that WREN sets, and   *)
(* while one is in progress (WIP, read with RDSR) the chip ignores every   *)
(* other command.  The chip is hardware; its opcodes are those of          *)
(* include/spi_nor.h.                                                      *)
(***************************************************************************)
EXTENDS Flashchip

CONSTANT Bits       \* the bits of a cell

VARIABLES
    mem,    \* the cells: the set of bits that are 1
    wip,    \* status register: write in progress
    wel     \* status register: write enable latch

chipVars == <<mem, wip, wel>>

Addr   == 0..ChipSize - 1
Value  == SUBSET Bits
Erased == Bits      \* 0xff

ChipTypeOK ==
    /\ mem \in [Addr -> Value]
    /\ wip \in BOOLEAN
    /\ wel \in BOOLEAN

(***************************************************************************)
(* The cells lo..hi of the memory m, erased; or programmed with `data'.    *)
(***************************************************************************)
EraseCells(m, lo, hi) ==
    [a \in Addr |-> IF lo <= a /\ a < hi THEN Erased ELSE m[a]]

ProgramCells(m, data, lo, hi) ==
    [a \in Addr |-> IF lo <= a /\ a < hi THEN m[a] \cap data[a] ELSE m[a]]

ReceiveWREN ==
    /\ wel' = (wel \/ ~wip)
    /\ UNCHANGED <<mem, wip>>

(***************************************************************************)
(* An erase command with the address addr: the chip ignores the low bits   *)
(* of the address, so it is the aligned block holding addr that is erased, *)
(* or everything if the command is a chip erase.                           *)
(***************************************************************************)
AlignedDown(i, addr) == (addr \div Erasers[i].size) * Erasers[i].size

ReceiveErase(i, addr) ==
    /\ IF wip \/ ~wel THEN UNCHANGED <<mem, wip>>
       ELSE /\ wip' = TRUE
            /\ mem' = IF Erasers[i].block_erase = "chip"
                      THEN EraseCells(mem, 0, ChipSize)
                      ELSE EraseCells(mem, AlignedDown(i, addr),
                                      AlignedDown(i, addr) + Erasers[i].size)
    /\ UNCHANGED wel

ChipReady ==
    /\ wip
    /\ wip' = FALSE
    /\ wel' = FALSE
    /\ UNCHANGED mem
=============================================================================
