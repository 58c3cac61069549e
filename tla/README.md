# A TLA+ verification of flashrom2

flashrom2 reads, writes and verifies SPI NOR flash chips through a programmer on
USB (the Dediprog SF100). It is one thread of C; what makes it hard is what it
drives: a chip that is busy on its own, a USB link on which any transfer may
fail, a programmer that keeps its state when the program has gone, and an order
of destructive commands computed from a table of erase sizes. This directory
holds TLA+ models of the program's core, the TLC runs that check them on small
instances, and theorems about them that TLAPS has checked.

Paths are relative to the root of the repository (`src/chips/erase.c`, with the
prefix `src/` of `PROJECT.json` left out); `erase.c:237` is a line of the file of
that name.

    tlasany M.tla                               parse
    tlc -workers 2 -config MCx.cfg MCx.tla      model-check (the runs below)
    tlapm XProofs.tla                           check the proofs of a module (section 4)

## 1. Inventory

| # | Component | State it keeps | Operations | Model |
|---|---|---|---|---|
| 1 | Erase planning, `chips/erase.c` | `where`, list of erases | `compute_list_erases` | `ErasePlanner` |
| 2 | Writing, `operations/write_chip.c`, `chips/erase.c` | `len`, `chip_ref`, `bstart`, position in the list | `op_write_chip`, `chip_erase`, `chip_write_if_changes` | `WriteChip` |
| 3 | SPI NOR commands, `bus/spi_nor.c`, `bus/spi.c` | none; the chip's status register and AAI mode | erase, program by byte, chunk and AAI word, chunked read, seven probes | `SpiChip`, `SpiProbe`, `SpiNor`; in outline `NorFlash` |
| 4 | Dediprog, `programmer/dediprog.c`, `usb_util.c` | `struct dediprog_data`, USB handle; the SF100's voltage, speed, announced transfers | probe, set-up, read, write, shutdown | `Dediprog`, `DediprogTransfer` |
| 5 | Command line and list of operations, `main.c`, `operations/operation.c` | list of operations, exit status | parse, launch | `Session` |
| 6 | Choice of programmer and chip, `set_programmer.c`, `set_chip.c`, both `automatic.c` | `struct context` | probe the named or each registered one | `Session`, `SpiProbe` |
| 7 | Reading and verifying, `read_chip.c`, `verify_chip.c` | buffers, files | `op_read_chip`, `op_verify_chip` | `ReadVerify`; their results in `Session` |
| 8 | Programmer parameters, `lib/params.c`, `spi_programmer.c` | none | `extract_param`, voltages, frequencies | `Params` |
| 9 | Programmer without hardware, `dummy_spi.c` | none | probe, answer to a command | in `Session` |
| 10 | Write strategy names, `write_strategy.c` | none | name to number | in `Session` |
| 11 | Debug output | level | print | no |
| 12 | Lists, identifiers, headers | none | `list.h` | as sequences |

**How they interact.** `main` builds a list of operations; `operations_launch`
carries it out on one `struct context` on its stack, calling through function
pointers. The settings (programmer, chip, strategy) are operations too, put in
front of the others; they fill the context in. `op_write_chip` reads a file,
calls the planner for a list of erases, and for each block a function of
`spi_nor.c`, which sends commands through `context->mst`, the programmer. The
programmer turns chip reads and writes into one announcement and one bulk
transfer per page. Nothing is called back and no memory is shared with another
thread; the chip and the SF100 are the other actors.

**What is hard, and what makes each part correct.**

1. *Planning.* A greedy choice with a tie-breaking metric on a table of sizes;
   two ways to refuse; a list built at its head. (`>` for `>=` at `erase.c:72`
   has no effect: the planner asks for addresses inside the chip only, and every
   eraser that is declared covers the chip.) Correct: the plan tiles the region with aligned blocks,
   erases no more than it must, uses no more commands than necessary, is refused
   only if there is none, and the loop ends.
2. *Writing.* Destructive steps, any of which may fail; results compared as
   `size_t`, so that failures disappear; a list walked in the reverse of the
   order it was planned in; a copy of the chip that must follow the chip.
   Correct: nothing outside the planned zone changes, the copy is current
   wherever it decides something, copies stay in their buffers, commands reach
   an idle chip, what is written is the image, failures are reported, it ends.
3. *SPI NOR.* Polling without limit, ended by a failed read as by an idle chip;
   odd lengths in AAI and a bailout that does not wait; splitting of ranges at
   pages and at the longest transfer; a chip left latched, busy or in AAI mode by
   the call before. Correct: every command reaches a chip that carries it out; a
   write has at any time programmed a first part of its range and nothing else,
   and all of it when it returns zero; so for reads and erases; a probe finds the
   chip that is wired and no other; every call returns.
4. *Dediprog.* A fixed sequence of set-up messages of which any may be lost;
   a target that may still be supplied by a previous run; announced against
   sent pages; residues. Correct: the target's supply is cycled, never
   switched directly; a read delivers the chip; a write programs the pages it
   says.
5. *Operations* and 6. *choice.* An uninitialised context; an order that comes
   from inserting at the head; the first failure ends the run with no clean-up;
   the link order decides which programmer `automatic` tries first. Correct: an
   operation only runs on a chip that answered, the exit status tells what ran,
   a successful run leaves no supply on.
7. *Reading, verifying.* The same `size_t` comparisons; files shorter than the
   chip; a file emptied before anything is read. Correct: the file holds the
   beginning of the chip and then 0xff, and all of it if nothing failed; what
   verify says is true; both end.
8. *Parameters.* Texts that are silently not understood. Correct: what the user
   wrote is used, or refused.

The hazards, each at its line, are in `PROJECT.json` under `hazards`, with the
properties that cover them or the reason why none does.

## 2. Modules

| Module | What it is |
|---|---|
| `Flashchip` | `struct flashchip`: sizes, erasers, which block holds an address |
| `ErasePlanner` | `compute_list_erases`, one action per step of its loop |
| `NorFlash` | the flash chip (hardware) as a write of whole blocks sees it |
| `ZoneWrite` | abstract: what writing an image promises about the chip |
| `WriteChip` | `op_write_chip` and both strategies, composed with planner and chip |
| `SpiChip` | the flash chip (hardware) command by command: WEL, WIP, pages, AAI mode |
| `SpiProbe` | the probe functions: what they make of the bytes a chip answers |
| `SpiNor` | the functions of `spi_nor.c` and `spi.c` that erase, program, read and probe, on `SpiChip` |
| `Params` | parameter texts and what the program makes of them |
| `Dediprog` | probe to shutdown of the SF100 |
| `Session` | a whole run of the program: `main`, operations, choices, with `Dediprog` and `SpiProbe` |
| `DediprogTransfer` | the page loops of `dediprog_spi_read` and `dediprog_spi_write` |
| `ReadVerify` | `op_read_chip` and `op_verify_chip` on those page loops, with files |
| `MC...` | instances for TLC |
| `MinimalPlan` | what the best plan for a region would be, for comparison |
| `ErasePlannerProofs`, `MinimalPlanProofs`, `WriteChipProofs`, `SpiNorProofs`, `SessionProofs`, `DediprogTransferProofs`, `ReadVerifyProofs` | theorems |
| `Induction` | the two forms of induction the proofs use |

`WriteChip` EXTENDS `ErasePlanner` and `NorFlash`, and instantiates `ZoneWrite`.
`MinimalPlan` EXTENDS `ErasePlanner`. `SpiNor` EXTENDS `SpiChip` and `SpiProbe`. `Session` EXTENDS `Dediprog`, which
EXTENDS `Params`, and `SpiProbe`. `ReadVerify` EXTENDS `DediprogTransfer`. What
one level takes for granted about the one below is a property of that level:
`DediprogTransfer` shows that the page loops do what `WriteChip!ChipWrite`
assumes of them (`WritesAsAllowed`), and `SpiNor` that the erase functions do
what `NorFlash` has in one step.

### Correspondence with the code

*ErasePlanner.* Variables are the locals of `compute_list_erases`: `where`, `end`
(`start + len`), the list `erases` (head first), and `ppc`, the point reached or
the error returned. `FirstBlock` is `erase.c:219-228`, `NextBlock`,
`NoNextBlock` and `Covered` the loop and what follows it. The functions
`find_erase_block`, `find_smallest_eraser_before_point` and
`find_biggest_eraser_within` are operators of the same name; the last two are
sets of equally good choices, since which of two chip-wide erasers wins does not
matter. A list entry carries `at`, the address it was planned for. The code does
not have it (that it does not is why finding 2 exists) and no action reads it;
properties and proofs do. `find_smallest_eraser_after_point` is not modelled:
`erase.c:237` returns before it is called.

*WriteChip.* One action per point at which something can fail or another actor
can intervene: opening and reading the file, reading the reference, each step of
planning, the decision on a block, WREN, erase, poll, write, return. The locals
keep their names; the length returned by a write is reduced to what is compared
(`full`, `short`, `negative`). The conversions to `size_t` are modelled by what
they do: `ret < blen` is true only of `short`, `ret < 0` of nothing.
`ChipWrite` leaves out that `dediprog_spi_write` refuses a start that is not a
multiple of 512 (`dediprog.c:372`): blocks have at least 4 kB, so that `bstart`
always is one. `mishaps`, `skipped` and `mem0` are auxiliary. A failed SPI command may or may
not have reached the chip.

*SpiChip, SpiNor.* `SpiNor` is one call, of any of the functions, on a chip in any
state a call that failed can leave it in: idle, latched, busy, and latched in AAI
mode at any word, busy or not, as the bailout of `default_spi_write_aai` leaves it. `spc` is where the caller is: in its
loop, sending a list of commands (`default_spi_send_multicommand`, one step per
command), or polling. `stage` tells which loop: pages (`spi_read_chunked`,
`spi_write_chunked`), bytes (`spi_chip_write_1`), or one of the parts of
`default_spi_write_aai`. Commands are records with the opcode's name, not bytes.
`Broken` is what each caller makes of a failed command, `PollFails` a status read
that fails and may end the wait. The caller's buffer is addressed by chip address;
`Unread` and `Noise` mark bytes that nothing, or something other than the chip,
put there. The array that has gone out of scope at `spi_nor.c:966-979` is a choice
among the commands it may hold (`DeadArray`); a byte behind the buffer may be any.

*SpiProbe.* The seven probe functions as one predicate, `Finds`, of an entry, the
answers of the wired chip, and the commands that failed. A chip in the middle of
something does not answer, and the bus reads 0xff.

*Dediprog, Session.* One action per control message whose loss matters. `power`,
`speed` and `firmware` belong to the devices, so that a run begins with whatever
a previous one left. `struct context` begins as `NULL` or `garbage`. The order in
which programmers and chips were registered is the linker's; every order is
checked. A command line is a sequence of options with one argument for each kind; an empty
one ends the program with the help text and status 1 (`NoArguments`).

*DediprogTransfer.* The SF100 has a direction, a number of pages left and the
address of the next. Reads use pages of `DEDIPROG_MIN_ALIGN`, writes those of the
chip. `announced` is the number of pages as the message carries it, cut to an
`unsigned short`. The branches for a first incomplete page are left out: `start` is refused
unless it is a multiple of `DEDIPROG_MIN_ALIGN`, so they never run.

*ReadVerify.* One action where an operation begins, with the opening of the file,
and one where its transfer has returned; the transfer in between is that of
`DediprogTransfer`, with all its failures. A file is a function on 0..n-1. The
buffer of a verification comes from `malloc`: bytes that were not read are
`Unread` and compare as equal or not. Between operations anything else may
transfer, as writing does.

### Hardware, as the code relies on it

No specification of the chip or of the SF100 is in the repository. The models
assume: the chip ignores commands while WIP is set, ignores the low bits of an
erase address and those above its size, clears bits only when programmed and sets
all when erased; a page program wraps inside its page; without WEL nothing is
programmed or erased, except by the opcodes 50 and 81, for which the code sends
no WREN; the end of a write clears WEL, except in AAI mode, where only the next
word, WRDI and the reading of the status register are heard, and where the bytes
behind an opcode are the next word; a chip that is not listening leaves the bus at
0xff; a target identifies itself only when supplied; the SF100 gives up what was
announced after a bulk transfer failed; a bulk transfer in a direction that was
not announced does not change the chip; a control message that fails may or may
not have arrived.

## 3. Runs

| Run | Instance | Shows |
|---|---|---|
| `planner` | 64 cells, blocks of 2, 8, 16, two chip erases, a free slot; every length | `PlanTiles`: the list tiles the region with aligned blocks. `NoOverErase`: only a region smaller than any block is erased past its end. `ReversedPlanAscends`. `FewestErases`, `RefusedOnlyIfImpossible`: greedy is optimal and complete, against a recursive reference. `PlannerTerminates` |
| `write_chip` | 12 cells, pages of 2, blocks of 2 and 4, chip erases; both strategies; files of 1 to 13 cells; five old contents, one of them what a broken-off run leaves; every combination of seven mishaps | `ConfinedToZone`, `ReferenceIsCurrent`, `CopyWithinBlock`, `CommandsFindChipIdle`, `UniformWriteIsExact`, `KeepsPromise` (implements `ZoneWrite`), `Terminates` |
| `spi_nor` | 8 cells in two pages; every call: three erase opcodes, every range, chunks of 3, of 4 (too long for a program) and unspecified, AAI, eleven chip entries against eleven wired chips; old contents with erased cells and others in each block; the chip ready, latched, busy, or in AAI mode at any word and busy or not; any command or status read fails | `PrefixWritten`, `WriteIsExact`, `ReadIsExact`, `EraseIsExact`, `CommandsAreHeard`, `SuccessLeavesChipReady`, `BailoutLeavesAAI`, `ProbeTellsChips`, `CallsReturn` |
| `session` | two SF100, old or new firmware, supply left at 2500 mV or off, a known or an unknown chip or none at each, both link orders, fifteen command lines, one of them empty; any message lost | `OnlyProbedIsUsed`, `ExitStatusTellsWhatRan`, `SuccessLeavesNoSupply`, `SupplyIsCycled` |
| `transfer` | 8 cells, write pages of 2, read pages of 4; one transfer after the other, every start and length; announcement or page lost; reading and verifying with files that cannot be opened, read, written or closed | `ReadDelivers`, `WritesAsAllowed` of transfers; `FileHoldsChip`, `VerdictIsTrue`, `OperationsReturn` of operations |
| the seven of section 5 | as above, or without mishaps, or on the command lines of the documentation | one disagreement each |

Every property of a passing run has a mutant in `PROJECT.json`: a definition of
the model changed as a plausible bug would change it, under which the run fails.

**Bounds.** Cells stand for the bytes that are always treated alike. *Planner:* a
cell is half of the smallest block, so regions that end inside a block occur; the
ratios 4 and 2 to the next sizes are small but leave room for several blocks of
each size in one plan; 64 cells let the largest block fit four times. *Writing:*
12 cells are three large blocks, so plans occur with one size (both), with a
mixture, refused, and with all blocks; pages of two cells let images end inside a
page; 13 is one more than the chip. One bit per cell is enough, since bits are
independent in erasing, programming and comparing. *SPI NOR:* eight cells in two pages give ranges inside a page, across the boundary
and of both pages, odd and even; a chunk of 3 does not divide a page; the data of
neighbouring cells differ, so that a shifted byte shows; the erase opcodes are one
with WREN, one without and one of the whole chip; the entries are the two chips
declared in `chips/` and one for each other way of telling a chip, so that several
share a byte of RES. *Session:* two devices make
`device=` matter; 2500 mV is a supply that no command line of the instance asks
for; the command lines have each option, orders that matter, and for each
parameter texts that are understood, refused and ignored. *Transfer:* eight cells are up to four write
pages and two read pages with or without a residue; the files are empty, of one
page, of a page and a residue, and whatever was read before; a file that cannot be
written is cut at 0 or at 3.

**Fairness.** `write_chip` and `spi_nor`: weak fairness of the program's step (one
runnable thread, nothing blocks it) and of the chip's (a busy chip finishes; the
polling loop has no limit, so without it the program would indeed wait for ever).
`planner`: weak fairness of the function's own step. `transfer`: weak fairness of
the steps of an operation that has begun, not of beginning one; a bulk transfer
has a timeout and returns. `session` states safety only and assumes none.
`CHECK_DEADLOCK FALSE` is set in the runs of `WriteChip`, `SpiNor` and `Session`
only, where the program or the call ends; the planner, the transfers and the
operations on them can always be called again, and deadlock is checked.

## 4. What is proved

| Module | For every | Theorems |
|---|---|---|
| `ErasePlannerProofs` | table of erasers that is well formed, length | `PlannerTypeCorrect`, `PlanIsTiling`, `OverErasesOnlySmallRegions` |
| `MinimalPlanProofs` | such a table whose sizes divide each other, length | `PlanAscends`; `PlanIsShortest` and `RefusalIsJustified`: the choice that never goes back is optimal and complete, against the recursion of `MinimalPlan`; `NoShorterPlan` and `RefusedRegionHasNoPlan`: the same against every sequence of aligned blocks, without the recursion |
| `WriteChipProofs` | chip, strategy, old contents, image, combination of mishaps | `TypeCorrect`; `Confined`: no cell outside the planned zone changes; `ComparesWithChip`: the copy that decides which blocks are skipped is what the chip holds, from `bstart` on; `CopiesWithinBlock`: the memcpy has no negative length and no stray end; `FindsChipIdle`; `WriteChipKeepsPromise`: `op_write_chip` implements `ZoneWrite`; `UniformWriteLeavesImage`: with blocks of one size and nothing failing, the whole pages of the image are on the chip in the end |
| `SpiNorProofs` | sizes of chip, page, block, chunk and longest program; contents; state in which the chip is found; failures | `SpiTypeCorrect`; `WritesArePrefixes`, `WritesAreExact`, `ReadsAreExact`, `ErasesAreExact`; `EveryCommandIsHeard`; `ChipIsLeftReady`; `BailoutLeavesChip`; `ProbesTellChips` |
| `SessionProofs` | command line, number of SF100, chips, link order, left-over supply, lost message | `SessionTypeCorrect`; `UsesOnlyWhatWasProbed`; `ExitStatusIsTrue`; `SuccessSwitchesOff`; `SupplyAlwaysCycled` |
| `DediprogTransferProofs` | sizes, contents, losses | `TransferTypeCorrect`; `ReadDeliversTheRange`; `WriteProgramsPrefix` |
| `ReadVerifyProofs` | the same, and files and their failures | `ReadVerifyTypeCorrect`; `TransfersOfOperations`; `FileAlwaysHoldsChip`; `VerdictIsAlwaysTrue` |

**Assumptions**, and why the code justifies them. The hardware is that of `NorFlash`
and `SpiChip`; the rest are the ASSUMEs of the modules, which TLC evaluates on the
instances:

- sizes are positive and pages and blocks divide the chip (`SizesAssumption`,
  `SpiSizesAssumption`, `TransferSizesAssumption`); each used eraser covers the
  chip from 0 in equal blocks of whole pages (`ErasersAssumption`): so in the two
  chips that are declared;
- an opcode that erases the chip has the chip's size (`ErasesChipAssumption`):
  `spi_block_erase_60`, `_62` and `_c7` refuse any other length;
- the markers of bytes that are not the chip's are no bytes (`UnreadAssumption`,
  `MarkersAssumption`), and no chip is called as the model calls what is no chip
  (`NamesAssumption`);
- no entry takes another chip, or an empty bus, for its own
  (`EntriesAssumption`): the two declared entries differ in the bytes of RDID;
- of two erasers in use the smaller size divides the larger
  (`NestedSizesAssumption`, for `MinimalPlanProofs` only): 4k, 32k, 64k and the
  chip in both declared chips. `compute_list_erases` does not ask for it, and
  without it the greedy choice is not optimal: with blocks of 1, 4 and 6 it takes
  6, 1 and 1 for a region of 8, where two blocks of 4 would do;
- an entry describes what its chip answers, and no other chip answers the same in
  the bytes its probe function looks at (`EntriesAreTrue`, `AnswersAreBytes`: the
  hypotheses of `ProbesTellChips`, evaluated on the entries of the run
  `spi_nor`);
- a chip has fewer pages than an `unsigned short` can count (`PagesAssumption`): the
  declared chips have 32768 of 256 bytes;
- the remaining ones give the types of constants.

**The arguments.**

*Planner:* `PlannerInv` adds `Stages` to the properties: the list is empty until
the first block and only the first can end behind `end`. A new block keeps the
tiling because it starts where the others end (`AddedBlock`).

*Shortest plans:* `MinBlocks` is a recursive function; that it satisfies its own
equation is itself a theorem (`MinBlocksEquation`, from `SolutionsExist`), and so is
each induction over the length, from `Induction!LeastNumber`: what some length
lacks, a least one lacks. `GreedyStep` says that a region is covered best by a
best cover of what is left without the largest block that fits, by two
inequalities: taking that block costs no more than a best cover of the rest and one
block (`GreedyIsEnough`), and no cover by smaller last blocks does better
(`GreedyIsNeeded`). Both exchange a last block with the largest one, which leaves
an aligned block only because the sizes divide each other (`LastIsSmaller`,
`SumOfMultiples`). `GreedyInv` carries this through the loop:
`ShortestSoFar` (what is listed, and the best for the rest, is the best for the
whole) and `NoLargerFits` (no block larger than the last one will fit again, so the
list ascends from its head).

*Writing:* `OpInv` is `TypeOK`, `PlannerInv`, `Walk`, `ConfinedToZone` and
`Reference`. The interesting part is `Walk`. The list is executed in reverse, so
blocks are erased in places they were not planned for, and that nothing outside
the zone is touched is not evident. What holds is `bstart + Block.at + blen <=
where`: the blocks still to come were planned before `Block.at`, those done were
planned behind it, and so the walk, however misplaced, ends where the plan ends;
an erase that the chip aligns down stays below. `Reference` needs two forms: from
`bstart` on between blocks, and from the end of the block on while one is erased
and written. Refinement follows from `OpInv`, action by action: each maps to one
of `ZoneWrite` or to a stutter. `FindsChipIdle` needs `IdleBetweenCommands`: as
long as no status read fails, the chip is busy only where the program polls.
`UniformWriteLeavesImage` turns `Walk` into an equation: with blocks of one size
`bstart` stays aligned, so the chip erases the block that is meant, and unless a
block was skipped `bstart + Block.at + blen = where` (`Placed`). `ExactInv` then says
what each cell holds at each point of the loop: erased up to `bstart` for one strategy
(`ErasedUpTo`), the image up to `bstart` and the old contents behind it for the other,
in the chip and in its copy (`Written`), with one block cleared in between
(`BlockCleared`). After a skipped block `bstart` falls behind, so the image is only
claimed up to it; that a chip-wide eraser is never refused on the way is `BlockShape`.

*SPI NOR:* `Base` (types, the arguments in the chip, each loop within its range) is
kept by every step whatever fails. On it stand three invariants, one per kind of
call. `At` is the address a call has come to, in whatever local its loop counts;
A write is exact only of even length if it goes by AAI words; the odd one is the
disagreement 7 below. `WriteInv` says that on a reliable chip what is programmed is exactly what lies
before `At`, or before the address of the command still to be sent
(`ProgramPending`, `WordPending`), and with which latch and in which mode the chip
expects it. That a page program does not wrap needs arithmetic of pages
(`PageOfAddress`, `ChunkBounds`, `ProgramsPiece`): every chunk lies between two
multiples of `PageSize`. Moving from one page to the next leaves `At` where it is
(`AtNextPage`), so the loop neither skips nor repeats a byte. `ReadInv` says the
same of the buffer, `EraseInv` is that of one list of commands. `EveryCommandIsHeard`
and `ChipIsLeftReady` follow from the three together. `BailoutLeavesChip` needs one more
fact of `WriteInv`: a chip that is busy when the bailout sends its WRDI has taken the
word that failed (`TookWord`). `ProbesTellChips` rests on `FoundLooksAlike`: if a probe function finds two answers, they agree in every byte it
looks at. For RDID that is not evident, since a first byte 0x7f is packed with the
second into one number, and the others are packed differently then; no two triples
of bytes give the same two numbers (`RDIDIdsOfBytes`).

*Transfers:* `TransferInv` has `InStep` (pages announced, pages left and the next
address agree with the loop's counter), `Unannounced` and `BrokenOff` (what the
SF100 does when the announcement, or a page, was lost), and `ReadsPrefix` (the
buffer holds the chip up to the next page). `ReadVerifyInv` adds what each
operation awaits from its transfer: the same buffer it was called with, and the
file untouched.

*Session:* `DediprogInv` gives what has been done to the device at each step of the
probe: arguments checked, device open, supply off while the speed is set, set up
again after it. `SessionInv` ties the position in the list of operations to the
context: the programmer is chosen once the first setting is through, the chip
found, on the target that answers, once the second is, the strategy set once the
third is. That the settings come first is `Ordered`, a property of how `main`
builds the list. `WhatRanInv` follows the list itself: while options are parsed it is
what the options looked at so far ask for (`Requests`, a recursive function whose
equation is proved as `RequestsEquation`, by `Induction!StepByStep`), and from then on
what has returned 0 is the list up to the operation in progress (`Ran`).

**Only model-checked.** Liveness (`PlannerTerminates`, `Terminates`, `CallsReturn`,
`OperationsReturn`) is beyond the prover. Every other property of a passing run is
also stated by a theorem, the refinement of `ZoneWrite` among them.

## 5. Disagreements between code and documentation

| # | Run | Where | What |
|---|---|---|---|
| 1 | `planner_refuses` | erase.c:237 | A region longer than the smallest block that ends inside one is refused; the manual says the blocks encompassing it are erased |
| 2 | `wrong_zone_erased` | erase.c:284 | The list is executed in reverse: with two block sizes, part of the region is not erased before it is written |
| 3 | `failure_reported_as_success` | write_chip.c:152 | `ret` is a `size_t`: `if (ret < 0)` is never true, and every failure is returned as 0 |
| 4 | `changed_blocks_not_written` | write_chip.c:73 | `continue` skips `bstart += blen`: after one unchanged block the changed ones behind it are not written |
| 5 | `device_ignored` | params.c:37 | A value of one character is not found: `device=1`, the manual's example, opens device 0 |
| 6 | `residue_not_written` | dediprog.c:405 | The last, incomplete page of a write is transferred with a bulk read |
| 7 | `odd_byte_not_written` | spi_nor.c:1025 | An AAI write of odd length never writes "remaining byte (if any)" and returns 0: its length is given as `pos % 2`, and `pos` is even |

Each property of these runs is stated at the end of its module, or in `MCErasePlanner`,
with the sentence it takes from the repository. Where
such a disagreement concerns a property of a passing run too, that property leaves the
case out and says so: `WriteIsExact` asks nothing of AAI writes of odd length,
`UniformWriteIsExact` nothing behind `bstart` after a skipped block.

Others, seen while modelling and part of the models, with no run of their own:

- not what the manual says: `-c` is missing in the short options (main.c:75); `k`, `M`,
  `kHz` and `MHz` are never understood, so that every frequency of the manual's list
  becomes 12 MHz (spi_programmer.c:50); a voltage without unit, with `Volt` or
  `milliVolt`, or `0V`, becomes 3.5 V (spi_programmer.c:32); the parameter `target` is
  never read; a common block that ends where the image ends is erased and written
  (write_chip.c:67);
- failures that are not told: a short read returns the full length (dediprog.c:340); a
  failed read of a verification goes on to the comparison (verify_chip.c:66), and a
  mismatch returns 0 (`VerdictIsTrue` says what success is worth then); the wait after a
  write needs `ret > len` and never runs (dediprog.c:449); a run that fails leaves the
  target supplied (operation.c:134);
- the bailout of an AAI write does not wait for the chip, which stays in AAI mode if it
  had taken the word that was reported as failed (spi_nor.c:1033; `BailoutLeavesAAI`);
  an AAI write from an odd address sends commands from an array that has gone out of
  scope (spi_nor.c:966-979), and says so itself ("Please report a bug");
- if `dummy_spi` is linked first, `automatic` always chooses it and no chip is found;
  `default_spi_write_256` returns 0 where the callers of a chip's write expect a number
  of bytes; the result of `getopt_long` is kept in a `char` (main.c:69), which ends the
  options only where `char` is signed.

## 6. Not modelled

- Debug output, help texts, wording: no state, no control flow.
- LEDs of the SF100: their messages may fail unnoticed and decide nothing.
- Failures of `malloc`: the program ends, or returns before it has sent anything
  to the chip (except in `op_write_chip`, where `memset` precedes the test).
- Rounding of voltages read as `float`: those of the table are exact.
- `find_smallest_eraser_after_point`, and the first incomplete page of a
  transfer: unreachable, as explained above.
- The strategy `UNKNOWN` inside `op_write_chip`: `main` refuses it earlier.
- Empty ranges of the chunked functions, whose `start + len - 1` wraps: no caller
  passes one. Files longer than the chip in reading and verifying (`WriteChip` has
  them when writing).
- Command lines with arguments that are no options: `main` does not look at them.
- `spi_chip_read`'s `addrbase` (0), `register_spi_programmer` (no caller) and the
  support headers: `list.h` comes from elsewhere and is a sequence here,
  `chip_ids.h` a table of numbers.

## 7. Plan

The order was: planner, chip, writing (the destructive part), their proofs; then
the program around it (session, programmer), the transfers, the operations that
read, the commands below all of them, and the proofs of each. What is left:

1. A refinement from `SpiNor` to the erase and write steps of `WriteChip`, for a
   programmer that sends commands instead of announcing pages; and from
   `DediprogTransfer` to `WriteChip!ChipWrite`.
2. A byte-level justification of `Session!EntriesAssumption`, as `ProbesTellChips`
   is for `SpiNor`.
