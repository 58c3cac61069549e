----------------------------- MODULE WriteChip ------------------------------
(***************************************************************************)
(* op_write_chip (operations/write_chip.c) with its two strategies, down   *)
(* to the commands the chip receives:                                      *)
(*                                                                         *)
(*   wipe_by_biggest_erases   plan, erase every block, write once          *)
(*   wipe_if_changes          read the chip, plan, then per block compare, *)
(*                            erase and write                              *)
(*                                                                         *)
(* The program is one thread; what runs beside it is the chip, which is    *)
(* busy after an erase until it decides otherwise, and the USB link to the *)
(* programmer (programmer/dediprog.c), on which any transfer may fail.     *)
(***************************************************************************)
EXTENDS ErasePlanner, NorFlash, FiniteSets

CONSTANTS
    OldImages,  \* the contents a chip may start with
    NewImages,  \* the contents a file may have
    MayHappen   \* the mishaps of the environment that may happen, see below

Strategies == {"wipe_by_biggest_erases", "wipe_if_changes"}

(***************************************************************************)
(* read, prep, bulk: the USB transfers of a chip read or write fail;       *)
(* wren, erase, rdsr: that SPI command fails; busy: the programmer returns *)
(* from a write while the chip still programs the last page.               *)
(***************************************************************************)
Mishaps == {"read", "prep", "bulk", "wren", "erase", "rdsr", "busy"}

ASSUME MishapsAssumption == MayHappen \subseteq Mishaps
ASSUME ImagesAssumption == /\ OldImages \subseteq [Addr -> Value]
                           /\ NewImages \subseteq [Addr -> Value]

VARIABLES
    pc,         \* where op_write_chip is
    strategy,   \* context->write_strategy
    image,      \* the contents of the file
    len,        \* local of op_write_chip: how much is to be written
    chip_ref,   \* local: the chip's contents as last read or written
    cursor,     \* position of list_for_each_entry in the list of erases
    bstart,     \* `where' of chip_erase, `bstart' of chip_write_if_changes
    result,     \* what the strategy returned
    ret,        \* what op_write_chip returned
    mishaps,    \* auxiliary: what has gone wrong so far
    skipped,    \* auxiliary: some block was skipped as unchanged
    mem0        \* auxiliary: the contents of the chip at the beginning

opVars == <<pc, strategy, image, len, chip_ref, cursor, bstart, result, ret>>
auxVars == <<mishaps, skipped, mem0>>
vars == <<opVars, auxVars, plannerVars, chipVars>>

PCs == {"open", "reference", "plan", "block", "wren", "erase", "poll", "write", "return", "done"}
Results == {"none", "full", "short", "negative", "zero", "EINVAL", "ENODEV"}
Returns == {"none", "zero", "errno", "ENXIO", "failure"}

TypeOK ==
    /\ PlannerTypeOK
    /\ ChipTypeOK
    /\ pc \in PCs
    /\ strategy \in Strategies
    /\ image \in [Addr -> Value]
    /\ len \in 0..ChipSize
    /\ chip_ref \in [Addr -> Value]
    /\ cursor \in Nat \ {0}
    /\ bstart \in 0..ChipSize
    /\ result \in Results
    /\ ret \in Returns
    /\ mishaps \subseteq MayHappen
    /\ skipped \in BOOLEAN
    /\ mem0 \in [Addr -> Value]

Init ==
    /\ PlannerInit
    /\ mem \in OldImages
    /\ wip = FALSE
    /\ wel = FALSE
    /\ pc = "open"
    /\ strategy \in Strategies
    /\ image \in NewImages
    /\ len = 0
    /\ chip_ref = [a \in Addr |-> Erased]
    /\ cursor = 1
    /\ bstart = 0
    /\ result = "none"
    /\ ret = "none"
    /\ mishaps = {}
    /\ skipped = FALSE
    /\ mem0 = mem

(* buf: the file, or as much of it as fits, followed by 0xff.               *)
buf == [a \in Addr |-> IF a < len THEN image[a] ELSE Erased]

Block == erases[cursor]
blen == SizeOf(Block)
Happens(what) == what \in MayHappen /\ mishaps' = mishaps \cup {what}
-----------------------------------------------------------------------------
(***************************************************************************)
(* op_write_chip up to the choice of the strategy.  The file may be        *)
(* missing, empty (fread of an element of size 0 returns 0) or unreadable, *)
(* and is truncated to the size of the chip.                               *)
(***************************************************************************)
OpenFails ==
    /\ pc = "open"
    /\ pc' = "done"
    /\ ret' = "errno"
    /\ UNCHANGED <<strategy, image, len, chip_ref, cursor, bstart, result>>
    /\ UNCHANGED <<auxVars, plannerVars, chipVars>>

ReadFileFails ==
    /\ pc = "open"
    /\ pc' = "done"
    /\ ret' = "ENXIO"
    /\ UNCHANGED <<strategy, image, len, chip_ref, cursor, bstart, result>>
    /\ UNCHANGED <<auxVars, plannerVars, chipVars>>

ReadFile(size) ==
    /\ pc = "open"
    /\ len' = IF size > ChipSize THEN ChipSize ELSE size
    /\ IF strategy = "wipe_if_changes"
       THEN pc' = "reference" /\ UNCHANGED plannerVars
       ELSE pc' = "plan" /\ Call(len')
    /\ UNCHANGED <<strategy, image, chip_ref, cursor, bstart, result, ret>>
    /\ UNCHANGED <<auxVars, chipVars>>

(***************************************************************************)
(* chip_read of the whole chip.  A failed transfer leaves the rest of      *)
(* chip_ref 0xff and returns a negative number, or the full length after a *)
(* short transfer; neither is smaller than the size once it is a size_t    *)
(* (write_chip.c:143), so the strategy goes on in every case.              *)
(***************************************************************************)
ReadReference ==
    /\ pc = "reference"
    /\ \/ /\ chip_ref' = mem
          /\ UNCHANGED mishaps
       \/ /\ Happens("read")
          /\ \E n \in 0..ChipSize - 1 : chip_ref' = EraseCells(mem, n, ChipSize)
    /\ pc' = "plan"
    /\ Call(len)
    /\ UNCHANGED <<strategy, image, len, cursor, bstart, result, ret>>
    /\ UNCHANGED <<skipped, mem0, chipVars>>

Plan ==
    /\ pc = "plan"
    /\ PlannerStep
    /\ UNCHANGED <<opVars, auxVars, chipVars>>

(* Mutant: the error of compute_list_erases is not looked at.               *)
PlanRefused_Ignored ==
    /\ pc = "plan"
    /\ ppc \in {"EINVAL", "ENODEV"}
    /\ pc' = "block"
    /\ UNCHANGED <<strategy, image, len, chip_ref, cursor, bstart, result, ret>>
    /\ UNCHANGED <<auxVars, plannerVars, chipVars>>

PlanRefused ==
    /\ pc = "plan"
    /\ ppc \in {"EINVAL", "ENODEV"}
    /\ pc' = "return"
    /\ result' = ppc
    /\ UNCHANGED <<strategy, image, len, chip_ref, cursor, bstart, ret>>
    /\ UNCHANGED <<auxVars, plannerVars, chipVars>>

(***************************************************************************)
(* Both strategies then walk the list from its head, that is from the      *)
(* block chosen last, and from the start of the chip: first->start, and    *)
(* the block of `first' around address 0.                                  *)
(***************************************************************************)
(* Mutant: the walk starts where the image ends.                            *)
PlanAccepted_FromEnd ==
    /\ pc = "plan"
    /\ ppc = "ok"
    /\ pc' = "block"
    /\ cursor' = 1
    /\ bstart' = len
    /\ UNCHANGED <<strategy, image, len, chip_ref, result, ret>>
    /\ UNCHANGED <<auxVars, plannerVars, chipVars>>

PlanAccepted ==
    /\ pc = "plan"
    /\ ppc = "ok"
    /\ pc' = "block"
    /\ cursor' = 1
    /\ bstart' = Erasers[erases[1].eraser].start
    /\ UNCHANGED <<strategy, image, len, chip_ref, result, ret>>
    /\ UNCHANGED <<auxVars, plannerVars, chipVars>>
-----------------------------------------------------------------------------
(***************************************************************************)
(* One turn of list_for_each_entry.                                        *)
(***************************************************************************)
skip_it ==
    /\ strategy = "wipe_if_changes"
    /\ bstart >= Start
    /\ bstart + blen < len
    /\ \A a \in bstart..bstart + blen - 1 : chip_ref[a] = buf[a]

(* Mutant: the same block is looked at again and again.                     *)
SkipBlock_Stuck ==
    /\ pc = "block"
    /\ cursor <= Len(erases)
    /\ skip_it
    /\ skipped' = TRUE
    /\ UNCHANGED <<opVars, mishaps, mem0, plannerVars, chipVars>>

(* `continue' leaves bstart where it is (write_chip.c:72-73).               *)
SkipBlock ==
    /\ pc = "block"
    /\ cursor <= Len(erases)
    /\ skip_it
    /\ cursor' = cursor + 1
    /\ skipped' = TRUE
    /\ UNCHANGED <<pc, strategy, image, len, chip_ref, bstart, result, ret>>
    /\ UNCHANGED <<mishaps, mem0, plannerVars, chipVars>>

(***************************************************************************)
(* eraser->block_erase(context, bstart, blen): a chip-wide function        *)
(* returns -1 unless it is asked for the whole chip (spi_nor.c:753-782).   *)
(* After a failure chip_erase returns the error; chip_write_if_changes     *)
(* leaves its loop and returns 0 (write_chip.c:94).                        *)
(***************************************************************************)
EraseRefused ==
    /\ Erasers[Block.eraser].block_erase = "chip"
    /\ bstart # 0 \/ blen # ChipSize

EraseError ==
    /\ pc' = "return"
    /\ result' = IF strategy = "wipe_if_changes" THEN "zero" ELSE "negative"

EraseBlock ==
    /\ pc = "block"
    /\ cursor <= Len(erases)
    /\ ~skip_it
    /\ IF EraseRefused THEN EraseError
       ELSE pc' = "wren" /\ UNCHANGED result
    /\ UNCHANGED <<strategy, image, len, chip_ref, cursor, bstart, ret>>
    /\ UNCHANGED <<auxVars, plannerVars, chipVars>>

EndOfList ==
    /\ pc = "block"
    /\ cursor > Len(erases)
    /\ IF strategy = "wipe_if_changes"
       THEN pc' = "return" /\ result' = "zero"
       ELSE pc' = "write" /\ UNCHANGED result
    /\ UNCHANGED <<strategy, image, len, chip_ref, cursor, bstart, ret>>
    /\ UNCHANGED <<auxVars, plannerVars, chipVars>>
-----------------------------------------------------------------------------
(***************************************************************************)
(* spi_block_erase_20, _52, _d8 and spi_block_erase_60, _c7: the commands  *)
(* WREN and erase, stopping at the first that fails, then RDSR until WIP   *)
(* is clear.  A command that fails may or may not have reached the chip.   *)
(***************************************************************************)
SendWREN ==
    /\ pc = "wren"
    /\ ReceiveWREN
    /\ pc' = "erase"
    /\ UNCHANGED <<strategy, image, len, chip_ref, cursor, bstart, result, ret>>
    /\ UNCHANGED <<auxVars, plannerVars>>

SendWRENFails ==
    /\ pc = "wren"
    /\ Happens("wren")
    /\ ReceiveWREN \/ UNCHANGED chipVars
    /\ EraseError
    /\ UNCHANGED <<strategy, image, len, chip_ref, cursor, bstart, ret>>
    /\ UNCHANGED <<skipped, mem0, plannerVars>>

SendErase ==
    /\ pc = "erase"
    /\ ReceiveErase(Block.eraser, bstart)
    /\ pc' = "poll"
    /\ UNCHANGED <<strategy, image, len, chip_ref, cursor, bstart, result, ret>>
    /\ UNCHANGED <<auxVars, plannerVars>>

SendEraseFails ==
    /\ pc = "erase"
    /\ Happens("erase")
    /\ ReceiveErase(Block.eraser, bstart) \/ UNCHANGED chipVars
    /\ EraseError
    /\ UNCHANGED <<strategy, image, len, chip_ref, cursor, bstart, ret>>
    /\ UNCHANGED <<skipped, mem0, plannerVars>>

(***************************************************************************)
(* The block is erased.  chip_erase turns to the next one;                 *)
(* chip_write_if_changes copies the new contents into chip_ref, leaving    *)
(* what lies behind the end of the image as it was, and writes the block.  *)
(***************************************************************************)
(* Mutant: the part of the block behind the image is not spared.            *)
copy_skip_last_Never == 0

(* Mutant: the number is not clipped at 0.                                  *)
copy_skip_last_Unclipped == bstart + blen - len

copy_skip_last == IF len < bstart + blen THEN bstart + blen - len ELSE 0

BlockErased ==
    /\ IF strategy = "wipe_if_changes"
       THEN /\ chip_ref' = [a \in Addr |->
                              IF bstart <= a /\ a < bstart + blen - copy_skip_last
                              THEN buf[a] ELSE chip_ref[a]]
            /\ pc' = "write"
            /\ UNCHANGED <<cursor, bstart>>
       ELSE /\ cursor' = cursor + 1
            /\ bstart' = bstart + blen
            /\ pc' = "block"
            /\ UNCHANGED chip_ref
    /\ UNCHANGED <<strategy, image, len, result, ret>>

(* Mutant: WIP is read once, and ignored.                                   *)
PollWIP_Once ==
    /\ pc = "poll"
    /\ BlockErased
    /\ UNCHANGED <<auxVars, plannerVars, chipVars>>

PollWIP ==
    /\ pc = "poll"
    /\ ~wip
    /\ BlockErased
    /\ UNCHANGED <<auxVars, plannerVars, chipVars>>

(* A failed RDSR reads as zeros (dediprog.c:192), which ends the wait.      *)
PollWIPFails ==
    /\ pc = "poll"
    /\ Happens("rdsr")
    /\ BlockErased
    /\ UNCHANGED <<skipped, mem0, plannerVars, chipVars>>
-----------------------------------------------------------------------------
(***************************************************************************)
(* chip_write: dediprog_spi_write of n cells from `first'.  The pages are  *)
(* programmed in order, a last incomplete one is not: its transfer reads   *)
(* from the endpoint (dediprog.c:405).  Pages that arrive while the chip   *)
(* is still busy are lost.  Nothing waits for WIP afterwards: the loop at  *)
(* dediprog.c:449 needs ret > len, which never holds.  The refusal of a    *)
(* start inside DEDIPROG_MIN_ALIGN (dediprog.c:372) is left out: blocks    *)
(* are 4 kB and more, and so is what separates the starts.                 *)
(***************************************************************************)
WholePages(n) == n \div PageSize

Program(data, first, n, written) ==
    /\ \E lost \in IF wip THEN 0..written ELSE {0} :
          mem' = ProgramCells(mem, data, first + lost * PageSize, first + written * PageSize)
    /\ wip' \in IF wip \/ "busy" \in mishaps' THEN BOOLEAN ELSE {FALSE}
    /\ wel' = wip'

ChipWrite(data, first, n, outcome) ==
    \/ /\ UNCHANGED mishaps \/ Happens("busy")
       /\ Program(data, first, n, WholePages(n))
       /\ outcome \in IF n % PageSize = 0 THEN {"full"} ELSE {"full", "short", "negative"}
    \/ /\ Happens("bulk")
       /\ \E written \in 0..WholePages(n) : Program(data, first, n, written)
       /\ outcome \in {"short", "negative"}
    \/ /\ Happens("prep")     \* overwritten by ret = DEDIPROG_MIN_ALIGN
       /\ UNCHANGED chipVars
       /\ outcome \in {"full", "short", "negative"}

WriteAll ==
    /\ pc = "write"
    /\ strategy = "wipe_by_biggest_erases"
    /\ \E outcome \in {"full", "short", "negative"} :
          /\ ChipWrite(buf, Start, len, outcome)
          /\ result' = outcome
    /\ pc' = "return"
    /\ UNCHANGED <<strategy, image, len, chip_ref, cursor, bstart, ret>>
    /\ UNCHANGED <<skipped, mem0, plannerVars>>

(* Mutant: a failed write does not advance bstart.                          *)
WriteBlock_InPlace ==
    /\ pc = "write"
    /\ strategy = "wipe_if_changes"
    /\ \E outcome \in {"full", "short", "negative"} :
          /\ ChipWrite(chip_ref, bstart, blen, outcome)
          /\ pc' = "block"
          /\ cursor' = cursor + 1
          /\ bstart' = IF outcome = "full" THEN bstart + blen ELSE bstart
    /\ UNCHANGED <<strategy, image, len, chip_ref, result, ret>>
    /\ UNCHANGED <<skipped, mem0, plannerVars>>

(***************************************************************************)
(* `ret < blen' compares as size_t: a negative ret is not smaller, and the *)
(* loop goes on as after a success (write_chip.c:87).                      *)
(***************************************************************************)
WriteBlock ==
    /\ pc = "write"
    /\ strategy = "wipe_if_changes"
    /\ \E outcome \in {"full", "short", "negative"} :
          /\ ChipWrite(chip_ref, bstart, blen, outcome)
          /\ IF outcome = "short"
             THEN pc' = "return" /\ result' = "zero" /\ UNCHANGED <<cursor, bstart>>
             ELSE /\ pc' = "block"
                  /\ cursor' = cursor + 1
                  /\ bstart' = bstart + blen
                  /\ UNCHANGED result
    /\ UNCHANGED <<strategy, image, len, chip_ref, ret>>
    /\ UNCHANGED <<skipped, mem0, plannerVars>>

(***************************************************************************)
(* if (ret < 0): ret is a size_t, so no result is ever negative and the    *)
(* operation always returns 0 (write_chip.c:103, 152-158).                 *)
(***************************************************************************)
Negative(r) == FALSE

Return ==
    /\ pc = "return"
    /\ pc' = "done"
    /\ ret' = IF Negative(result) THEN "failure" ELSE "zero"
    /\ UNCHANGED <<strategy, image, len, chip_ref, cursor, bstart, result>>
    /\ UNCHANGED <<auxVars, plannerVars, chipVars>>

ChipStep == ChipReady /\ UNCHANGED <<opVars, auxVars, plannerVars>>
-----------------------------------------------------------------------------
Open == OpenFails \/ ReadFileFails \/ \E size \in 1..ChipSize + 1 : ReadFile(size)

Erasing == SendWREN \/ SendWRENFails \/ SendErase \/ SendEraseFails \/ PollWIP \/ PollWIPFails

Step ==
    \/ Open \/ ReadReference \/ Plan \/ PlanRefused \/ PlanAccepted
    \/ SkipBlock \/ EraseBlock \/ EndOfList
    \/ Erasing
    \/ WriteAll \/ WriteBlock \/ Return

Next == Step \/ ChipStep

Spec == Init /\ [][Next]_vars

(***************************************************************************)
(* The program takes its next step when it can, and a busy chip gets done. *)
(***************************************************************************)
Fairness == WF_vars(Step) /\ WF_vars(ChipStep)

FairSpec == Spec /\ Fairness
-----------------------------------------------------------------------------
(***************************************************************************)
(* The zone: what the accepted plan covers, nothing before that.           *)
(***************************************************************************)
Accepted == ppc = "ok" /\ pc \notin {"open", "reference", "plan"}
Zone == IF Accepted THEN where ELSE 0

(***************************************************************************)
(* However the walk over the reversed list misplaces the blocks, and       *)
(* whatever fails, no cell outside the planned zone changes: in particular *)
(* nothing changes before a plan is accepted or after one is refused       *)
(* (chip_erase, chip_write_if_changes, write_chip.c:49-95).                *)
(***************************************************************************)
ConfinedToZone == \A a \in Addr : a >= Zone => mem[a] = mem0[a]

(***************************************************************************)
(* The comparison that decides whether a block is skipped is made on what  *)
(* the chip really holds, whatever was erased or written before, and even  *)
(* after failed erases and writes, provided the first read succeeded       *)
(* (chip_ref, write_chip.c:67-86).                                         *)
(***************************************************************************)
ReferenceIsCurrent ==
    pc = "block" /\ strategy = "wipe_if_changes" /\ "read" \notin mishaps
        => \A a \in Addr : a >= bstart => chip_ref[a] = mem[a]

(***************************************************************************)
(* The memcpy of a block into chip_ref copies no negative length, stays in *)
(* the block and reads no more of buf than was read from the file          *)
(* (write_chip.c:80-85).                                                   *)
(***************************************************************************)
CopyWithinBlock ==
    pc = "poll" /\ strategy = "wipe_if_changes"
        => /\ copy_skip_last \in 0..blen
           /\ bstart + blen - copy_skip_last <= len
           /\ bstart + blen <= ChipSize

(***************************************************************************)
(* Unless a status read failed or the programmer came back too early, the  *)
(* chip is idle at every command and write, and the erase command finds    *)
(* the write-enable latch set (the polling loops of spi_nor.c).            *)
(***************************************************************************)
CommandsFindChipIdle ==
    mishaps \cap {"rdsr", "busy"} = {}
        => /\ pc \in {"block", "wren", "erase", "write"} => ~wip
           /\ pc = "erase" => wel

(***************************************************************************)
(* When all planned blocks have the same size the order of the list does   *)
(* not matter.  Then, without mishaps, wipe_by_biggest_erases leaves the   *)
(* whole pages of the image in a chip otherwise erased in the zone, and    *)
(* wipe_if_changes leaves the image, and what was behind it, in the blocks *)
(* up to the first skipped one.                                            *)
(***************************************************************************)
Uniform == \A j, k \in 1..Len(erases) : SizeOf(erases[j]) = SizeOf(erases[k])

AfterBiggestErases(a) ==
    IF a >= Zone THEN mem0[a]
    ELSE IF a < WholePages(len) * PageSize THEN image[a]
    ELSE Erased

AfterIfChanges(a, done) == IF a < len /\ a < done THEN image[a] ELSE mem0[a]

UniformWriteIsExact ==
    pc = "done" /\ Accepted /\ mishaps = {} /\ Uniform =>
        IF strategy = "wipe_by_biggest_erases"
        THEN \A a \in Addr : mem[a] = AfterBiggestErases(a)
        ELSE /\ \A a \in Addr : mem[a] = AfterIfChanges(a, bstart)
             /\ ~skipped => bstart = Zone

(***************************************************************************)
(* The operation returns whatever fails: a poll that finds the chip busy   *)
(* is repeated until it is ready, everything else is bounded.              *)
(***************************************************************************)
Terminates == <>(pc = "done")

(***************************************************************************)
(* op_write_chip does what ZoneWrite promises.                             *)
(***************************************************************************)
Status == IF pc = "done" THEN "done" ELSE IF Accepted THEN "working" ELSE "idle"

Promise == INSTANCE ZoneWrite WITH zone <- Zone, status <- Status

KeepsPromise == Promise!Spec
-----------------------------------------------------------------------------
(***************************************************************************)
(* Expectations that the code does not meet.                               *)
(***************************************************************************)

(***************************************************************************)
(* flashrom2.8:45-46, wipe_by_biggest_erases: "For the portion of the chip *)
(* to be written, the biggest erasing blocks encompassing this region are  *)
(* chosen to be erased": when the write begins, with nothing gone wrong,   *)
(* the portion is erased.                                                  *)
(***************************************************************************)
PortionErasedBeforeWrite ==
    pc = "write" /\ strategy = "wipe_by_biggest_erases" /\ mishaps = {}
        => \A a \in Addr : a < len => mem[a] = Erased

(***************************************************************************)
(* write_chip.c:152-156, "Couldn't write the %z bytes into the chip": the  *)
(* operation does not return 0 when its strategy returned an error.        *)
(***************************************************************************)
FailureIsReturned ==
    pc = "done" /\ result \in {"negative", "EINVAL", "ENODEV"} => ret # "zero"

(***************************************************************************)
(* flashrom2.8:53-54, wipe_if_changes: "If common blocks are found, no     *)
(* erase or write operation happens on these blocks": only on these, so    *)
(* that with nothing gone wrong the chip holds the image afterwards.       *)
(***************************************************************************)
OnlyCommonBlocksUntouched ==
    pc = "done" /\ Accepted /\ strategy = "wipe_if_changes" /\ mishaps = {} /\ Uniform
        => \A a \in Addr : a < len => mem[a] = image[a]
=============================================================================
