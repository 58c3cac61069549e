------------------------------ MODULE SpiChip -------------------------------
(***************************************************************************)
(* A serial flash as bus/spi_nor.c and bus/spi.c rely on it, command by    *)
(* command: writing needs the latch WEL that WREN sets, a program or an    *)
(* erase sets WIP until it has finished, a chip that is busy hears nothing *)
(* but RDSR, a page program wraps inside its page, and in AAI mode only    *)
(* the next word, WRDI and RDSR are heard.  The chip is hardware; the      *)
(* opcodes are those of include/spi_nor.h.                                 *)
(***************************************************************************)
EXTENDS Integers, Sequences

CONSTANTS
    ChipSize, PageSize,
    Bits,           \* the bits of a cell
    EraseSize       \* the size of the block each erase opcode erases

ASSUME SpiSizesAssumption ==
    /\ ChipSize \in Nat \ {0} /\ PageSize \in Nat \ {0}
    /\ ChipSize % PageSize = 0 /\ ChipSize % 2 = 0
    /\ \A opcode \in DOMAIN EraseSize :
          /\ EraseSize[opcode] \in 1..ChipSize
          /\ ChipSize % EraseSize[opcode] = 0

VARIABLES
    mem,    \* the cells: the set of bits that are 1
    wip,    \* status register: write in progress
    wel,    \* status register: write enable latch
    aai     \* in AAI mode, the address of the next word, as a set

chipVars == <<mem, wip, wel, aai>>

Addr   == 0..ChipSize - 1
Value  == SUBSET Bits
Erased == Bits      \* 0xff

ChipTypeOK ==
    /\ mem \in [Addr -> Value]
    /\ wip \in BOOLEAN /\ wel \in BOOLEAN
    /\ aai \in SUBSET Addr

(* The chip would carry out a command that starts something.                *)
Listening == ~wip /\ aai = {}

(***************************************************************************)
(* The commands: an opcode by its name, with what follows it on the bus.   *)
(***************************************************************************)
WREN             == [op |-> "WREN"]
WRDI             == [op |-> "WRDI"]
Program(a, s)    == [op |-> "PROGRAM", addr |-> a, bytes |-> s]
AAIWord(a, s)    == [op |-> "AAI", addr |-> a, bytes |-> s]
AAICont(s)       == [op |-> "AAI_CONT", bytes |-> s]
Erase(opcode, a) == [op |-> "ERASE", opcode |-> opcode, addr |-> a]
Read(a, n)       == [op |-> "READ", addr |-> a, count |-> n]
Unknown          == [op |-> "UNKNOWN"]

(* Opcodes of chips that have no WEL (AT45): the code sends no WREN.        *)
SelfEnabled == {"50", "81"}

-----------------------------------------------------------------------------
EraseCells(m, lo, size) == [a \in Addr |-> IF lo <= a /\ a < lo + size THEN Erased ELSE m[a]]

BlockOf(a, size) == (a \div size) * size

(* Where the n-th byte of a page program at addr goes.                      *)
InPage(addr, n) == BlockOf(addr, PageSize) + ((addr + n) % PageSize)

ProgramPage(m, addr, s) ==
    [a \in Addr |-> IF \E n \in 1..Len(s) : InPage(addr, n - 1) = a
                    THEN m[a] \cap s[CHOOSE n \in 1..Len(s) : InPage(addr, n - 1) = a]
                    ELSE m[a]]

ProgramWord(m, addr, s) ==
    [m EXCEPT ![addr % ChipSize] = @ \cap s[1], ![(addr + 1) % ChipSize] = @ \cap s[2]]

(***************************************************************************)
(* What a command does to an idle chip, and to one in AAI mode, which      *)
(* takes the next two bytes behind the opcode for data.                    *)
(***************************************************************************)
WhenIdle(c) ==
    \/ c.op = "WREN" /\ wel' = TRUE /\ UNCHANGED <<mem, wip, aai>>
    \/ c.op = "WRDI" /\ wel' = FALSE /\ UNCHANGED <<mem, wip, aai>>
    \/ /\ c.op = "PROGRAM" /\ wel
       /\ mem' = ProgramPage(mem, c.addr, c.bytes)
       /\ wip' = TRUE
       /\ UNCHANGED <<wel, aai>>
    \/ /\ c.op = "AAI" /\ wel
       /\ mem' = ProgramWord(mem, c.addr, c.bytes)
       /\ wip' = TRUE
       /\ aai' = {(c.addr + 2) % ChipSize}
       /\ UNCHANGED wel
    \/ /\ c.op = "ERASE" /\ (wel \/ c.opcode \in SelfEnabled)
       /\ mem' = EraseCells(mem, BlockOf(c.addr, EraseSize[c.opcode]), EraseSize[c.opcode])
       /\ wip' = TRUE
       /\ UNCHANGED <<wel, aai>>
    \/ /\ \/ c.op \in {"READ", "UNKNOWN", "AAI_CONT"}
          \/ c.op \in {"PROGRAM", "AAI"} /\ ~wel
          \/ c.op = "ERASE" /\ ~wel /\ c.opcode \notin SelfEnabled
       /\ UNCHANGED chipVars

NextWord(s) ==
    /\ \E a \in aai : /\ mem' = ProgramWord(mem, a, s)
                      /\ aai' = {(a + 2) % ChipSize}
    /\ wip' = TRUE
    /\ UNCHANGED wel

WhenAAI(c) ==
    \/ c.op = "AAI_CONT" /\ NextWord(c.bytes)
    \/ c.op = "AAI" /\ \E v, w \in Value : NextWord(<<v, w>>)
    \/ c.op = "WRDI" /\ wel' = FALSE /\ aai' = {} /\ UNCHANGED <<mem, wip>>
    \/ c.op \notin {"AAI_CONT", "AAI", "WRDI"} /\ UNCHANGED chipVars

Receive(c) ==
    \/ wip /\ UNCHANGED chipVars
    \/ ~wip /\ aai = {} /\ WhenIdle(c)
    \/ ~wip /\ aai # {} /\ WhenAAI(c)

(* The latch is cleared with the end of a write, except in AAI mode.        *)
Finish ==
    /\ wip
    /\ wip' = FALSE
    /\ wel' = (wel /\ aai # {})
    /\ UNCHANGED <<mem, aai>>
=============================================================================
