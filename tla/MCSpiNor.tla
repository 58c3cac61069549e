----------------------------- MODULE MCSpiNor ------------------------------
(***************************************************************************)
(* SpiNor on a chip of two pages of four cells, with chunks shorter than   *)
(* and as long as a page, one of them too long for spi_nbyte_program, and  *)
(* blocks of one page and of the chip.  Neighbouring cells of the data     *)
(* differ from each other and from an erased cell; each block of the old   *)
(* contents has erased cells and one that is not.                          *)
(***************************************************************************)
EXTENDS SpiNor

MCChipSize == 8
MCPageSize == 4
MCBits == {"b", "c"}
MCEraseSize == [o \in {"20", "50", "60"} |-> IF o = "60" THEN MCChipSize ELSE MCPageSize]
MCMaxData == {0, 3, 4}
MCProgramMax == 3
MCAll == [a \in 0..MCChipSize - 1 |-> MCBits]
MCOldImages == {[MCAll EXCEPT ![2] = {"b"}, ![5] = {}]}
MCImages == {[a \in 0..MCChipSize - 1 |-> CASE a % 3 = 0 -> {} [] a % 3 = 1 -> {"b"} [] a % 3 = 2 -> {"c"}]}
MCMayFail == {"command", "rdsr"}

(***************************************************************************)
(* The two chips of the repository, and one for each other way of telling  *)
(* a chip: by four bytes of RDID, by REMS, by one to three bytes of RES    *)
(* (of which the first is also that of w25q64w), by the RDID of Atmel.     *)
(***************************************************************************)
Tells(p, m, d) == [probe |-> p, manufacture_id |-> m, model_id |-> d]

MCEntries == [
    w25q64w     |-> Tells("rdid", 239, 24599),
    mx25u12835f |-> Tells("rdid", 194, 9527),
    continued3  |-> Tells("rdid", 32540, 32),
    continued4  |-> Tells("rdid4", 32567, 8208),
    byREMS      |-> Tells("rems", 191, 72),
    byRES1      |-> Tells("res1", 0, 22),
    byRES2      |-> Tells("res2", 191, 73),
    byRES3      |-> Tells("res3", 32540, 33),
    byAT25F     |-> Tells("at25f", 31, 101),
    anyVendor   |-> Tells("rdid", GENERIC_MANUF_ID, GENERIC_DEVICE_ID),
    anyWinbond  |-> Tells("rdid", 239, GENERIC_DEVICE_ID) ]

MCAnswers == [name \in DOMAIN MCEntries |->
    CASE name = "w25q64w"     -> [Floating EXCEPT !.RDID = <<239, 96, 23, 239>>,
                                                  !.REMS = <<239, 22>>, !.RES = <<22, 22, 22>>]
      [] name = "mx25u12835f" -> [Floating EXCEPT !.RDID = <<194, 37, 55, 194>>]
      [] name = "continued3"  -> [Floating EXCEPT !.RDID = <<127, 28, 32, 16>>]
      [] name = "continued4"  -> [Floating EXCEPT !.RDID = <<127, 55, 32, 16>>]
      [] name = "byREMS"      -> [Floating EXCEPT !.REMS = <<191, 72>>, !.RES = <<22, 22, 22>>]
      [] name = "byRES1"      -> [Floating EXCEPT !.RDID = <<0, 0, 0, 0>>, !.RES = <<22, 22, 22>>]
      [] name = "byRES2"      -> [Floating EXCEPT !.RES = <<191, 73, 191>>]
      [] name = "byRES3"      -> [Floating EXCEPT !.RES = <<127, 28, 33>>]
      [] name = "byAT25F"     -> [Floating EXCEPT !.AT25F_RDID = <<31, 101>>]
      [] OTHER                -> Floating]

(* They are told apart as chips should be.                                  *)
ASSUME MCEntriesAssumption == AnswersAreBytes /\ EntriesAreTrue
=============================================================================
