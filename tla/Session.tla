------------------------------ MODULE Session -------------------------------
(***************************************************************************)
(* One run of the program: main builds the list of operations from the     *)
(* command line, operations_launch carries it out on a struct context that *)
(* the settings fill in (main.c, operations/operation.c, set_programmer.c, *)
(* set_chip.c, and the `automatic' programmer and chip).                   *)
(*                                                                         *)
(* What reading, writing and verifying do to the chip is not modelled      *)
(* here, only what they may return (WriteChip models the writing).         *)
(***************************************************************************)
EXTENDS Dediprog, SpiProbe, Sequences, SequencesExt

CONSTANTS
    CommandLines,   \* the command lines of the runs
    Chips,          \* the chips the program knows, apart from `automatic'
    Entries,        \* what it knows of each
    Answers         \* what each answers when it is the target

(***************************************************************************)
(* A command line: its options in order, and the argument each kind of     *)
(* option has.                                                             *)
(***************************************************************************)
OperationOptions == {"--read", "--write", "--verify"}
Options == OperationOptions \cup {"--programmer", "--chip", "-c", "--write-strategy", "--verbose"}
Names == {"automatic", "dediprog", "dummy_spi", "unknown"}

StrategyNames == {"wipe_if_changes", "wipe_by_biggest_erases", "unknown", "other"}

CommandLine == [options : Seq(Options), programmer : Names, chip : Chips \cup {"unknown"},
                strategy : StrategyNames, voltage : Text, hz : Text, device : Text]

ASSUME CommandLinesAssumption == CommandLines \subseteq CommandLine
ASSUME ChipsAssumption ==
    /\ IsFiniteSet(Chips)
    /\ Entries \in [Chips -> Entry]
    /\ Chips \subseteq DOMAIN Answers

(* Names of chips and programmers are not those of what is not one.         *)
ASSUME NamesAssumption == {"NULL", "garbage"} \cap Chips = {}

(* No entry takes another chip, or no chip, for its own: those of chips/    *)
(* differ in what their probe functions look at.                            *)
ASSUME EntriesAssumption ==
    \A chip \in Chips :
        /\ ~Finds(Entries[chip], Floating, {})
        /\ ~Finds(Entries[chip], [Floating EXCEPT !.RDID = PresetRDID], {})
        /\ \A target \in DOMAIN Answers : Finds(Entries[chip], Answers[target], {}) => target = chip

VARIABLES
    pc,             \* where the program is
    cmd,            \* the command line
    optind,         \* the option getopt_long looks at next
    operations,     \* the list of operations
    programmer_arg, \* op_programmer.arg, the name in it
    chipname,       \* op_chip.arg
    write_strategy, \* local of main
    num_op,         \* the operation being carried out
    ctx,            \* struct context: [chip, mst, write_strategy]
    candidates,     \* programmers or chips still to be probed
    status,         \* the exit status
    registered,     \* the lists of programmers and chips, in link order
    targets,        \* the chip wired to each SF100
    done            \* auxiliary: the operations that returned 0

mainVars == <<cmd, optind, operations, programmer_arg, chipname, write_strategy>>
vars == <<pc, mainVars, num_op, ctx, candidates, status, registered, targets, done, dediprogVars>>

Kinds == {"READ", "WRITE", "VERIFY", "SET_PROGRAMMER", "SET_CHIP", "SET_WRITE_STRATEGY"}
Uses == {"READ", "WRITE", "VERIFY"}
NoChip == "none"
Strategies == {"UNKNOWN", "WIPE_IF_CHANGES", "WIPE_BY_BIGGEST_ERASES"}

SessionTypeOK ==
    /\ DediprogTypeOK
    /\ pc \in {"options", "launch", "probe", "dediprog", "rdid", "exit"}
    /\ cmd \in CommandLines
    /\ optind \in Nat \ {0}
    /\ operations \in Seq(Kinds)
    /\ programmer_arg \in Names
    /\ chipname \in Chips \cup {"automatic", "unknown"}
    /\ write_strategy \in Strategies
    /\ num_op \in Nat \ {0}
    /\ ctx \in [chip : Chips \cup {"NULL", "garbage"}, mst : Names \cup {"NULL", "garbage"},
                write_strategy : Strategies \cup {"garbage"}]
    /\ candidates \in Seq(Names \cup Chips)
    /\ status \in {"none", "zero", "error"}
    /\ targets \in [Device -> DOMAIN Answers \cup {NoChip}]
    /\ done \in Seq(Kinds)

(***************************************************************************)
(* struct context is on the stack and not initialised.  The order in which *)
(* programmers and chips were registered is the order of linking, which    *)
(* the Makefile leaves to `wildcard'.                                      *)
(***************************************************************************)
Init ==
    /\ DediprogInit
    /\ pc = "options"
    /\ cmd \in CommandLines
    /\ optind = 1
    /\ operations = << >>
    /\ programmer_arg = "automatic"
    /\ chipname = "automatic"
    /\ write_strategy = "WIPE_BY_BIGGEST_ERASES"
    /\ num_op = 1
    /\ ctx \in [chip : {"NULL", "garbage"}, mst : {"NULL", "garbage"}, write_strategy : {"garbage"}]
    /\ candidates = << >>
    /\ status = "none"
    /\ registered \in [programmers : SetToSeqs({"dediprog", "dummy_spi"}),
                       chips : SetToSeqs(Chips)]
    /\ targets \in [Device -> DOMAIN Answers \cup {NoChip}]
    /\ done = << >>
-----------------------------------------------------------------------------
(***************************************************************************)
(* main.  `-c' is not in the list of short options, so it gets what every  *)
(* unknown option gets: the help text, and its argument is ignored.        *)
(***************************************************************************)
Operation(option) == CASE option = "--read"   -> "READ"
                       [] option = "--write"  -> "WRITE"
                       [] option = "--verify" -> "VERIFY"

(* The table has an entry for the name "unknown", too.                      *)
parse_write_strategy(name) == CASE name = "wipe_if_changes" -> "WIPE_IF_CHANGES"
                                [] name = "wipe_by_biggest_erases" -> "WIPE_BY_BIGGEST_ERASES"
                                [] name \in {"unknown", "other"} -> "UNKNOWN"

operation_add_tail(op) == operations' = Append(operations, op)

ParseOption ==
    /\ pc = "options"
    /\ optind <= Len(cmd.options)
    /\ LET option == cmd.options[optind]
       IN  /\ IF option \in OperationOptions THEN operation_add_tail(Operation(option))
              ELSE UNCHANGED operations
           /\ programmer_arg' = IF option = "--programmer" THEN cmd.programmer ELSE programmer_arg
           /\ chipname' = IF option = "--chip" THEN cmd.chip ELSE chipname
           /\ write_strategy' = IF option = "--write-strategy"
                                THEN parse_write_strategy(cmd.strategy) ELSE write_strategy
    /\ optind' = optind + 1
    /\ UNCHANGED <<pc, cmd, num_op, ctx, candidates, status, registered, targets, done, dediprogVars>>

operation_add(list, op) == <<op>> \o list

(* Mutant: the chip is put in front of the programmer.                      *)
Settings_ChipFirst(list) ==
    operation_add(operation_add(operation_add(list, "SET_WRITE_STRATEGY"), "SET_PROGRAMMER"),
                  "SET_CHIP")

(* Three times operation_add: the last one inserted is carried out first.   *)
Settings(list) ==
    operation_add(operation_add(operation_add(list, "SET_WRITE_STRATEGY"), "SET_CHIP"),
                  "SET_PROGRAMMER")

(* argc == 1: the help text and exit(1).  A command line has options and    *)
(* their arguments only.                                                    *)
NoArguments == cmd.options = << >>

EndOfOptions ==
    /\ pc = "options"
    /\ optind > Len(cmd.options)
    /\ IF NoArguments \/ write_strategy = "UNKNOWN"
       THEN pc' = "exit" /\ status' = "error" /\ UNCHANGED operations
       ELSE pc' = "launch" /\ operations' = Settings(operations) /\ UNCHANGED status
    /\ UNCHANGED <<cmd, optind, programmer_arg, chipname, write_strategy, num_op, ctx>>
    /\ UNCHANGED <<candidates, registered, targets, done, dediprogVars>>
-----------------------------------------------------------------------------
(***************************************************************************)
(* operations_launch: one operation after the other, up to the first that  *)
(* does not return 0.                                                      *)
(***************************************************************************)
Launching(kinds) == pc = "launch" /\ num_op <= Len(operations) /\ operations[num_op] \in kinds

(* Mutant: an error does not end the loop.                                  *)
Return_Ignored(ret) ==
    /\ pc' = "launch"
    /\ num_op' = num_op + 1
    /\ done' = IF ret = "zero" THEN Append(done, operations[num_op]) ELSE done
    /\ UNCHANGED status

Return(ret) ==
    IF ret = "zero"
    THEN /\ pc' = "launch"
         /\ num_op' = num_op + 1
         /\ done' = Append(done, operations[num_op])
         /\ UNCHANGED status
    ELSE /\ pc' = "exit"
         /\ status' = "error"
         /\ UNCHANGED <<num_op, done>>

programmer_chip_available == ctx.chip # "NULL" /\ ctx.mst # "NULL"

(* op_read_chip, op_write_chip, op_verify_chip; ret stays 0 without a chip. *)
Use ==
    /\ Launching(Uses)
    /\ \E ret \in IF programmer_chip_available THEN {"zero", "error"} ELSE {"zero"} : Return(ret)
    /\ UNCHANGED <<mainVars, ctx, candidates, registered, targets, dediprogVars>>

SetWriteStrategy ==
    /\ Launching({"SET_WRITE_STRATEGY"})
    /\ ctx' = [ctx EXCEPT !.write_strategy = write_strategy]
    /\ Return("zero")
    /\ UNCHANGED <<mainVars, candidates, registered, targets, dediprogVars>>

(* Mutant: the programmer is not shut down.                                 *)
EndOfOperations_NoShutdown ==
    /\ pc = "launch"
    /\ num_op > Len(operations)
    /\ pc' = "exit"
    /\ status' = "zero"
    /\ UNCHANGED <<mainVars, num_op, ctx, candidates, registered, targets, done, dediprogVars>>

(* dummy_spi has no shutdown function.                                      *)
EndOfOperations ==
    /\ pc = "launch"
    /\ num_op > Len(operations)
    /\ pc' = "exit"
    /\ status' = "zero"
    /\ IF programmer_chip_available /\ ctx.mst = "dediprog"
       THEN Shutdown ELSE UNCHANGED dediprogVars
    /\ UNCHANGED <<mainVars, num_op, ctx, candidates, registered, targets, done>>
-----------------------------------------------------------------------------
(***************************************************************************)
(* op_set_programmer.  The named programmer is probed, or, by the          *)
(* `automatic' one, each in turn until one succeeds, and `automatic'       *)
(* becomes a copy of it; ctx.mst is the programmer that is used in the end.*)
(***************************************************************************)
OneOf(name, known, all) ==
    IF name = "automatic" THEN all ELSE IF name \in known THEN <<name>> ELSE << >>

SetProgrammer ==
    /\ Launching({"SET_PROGRAMMER"})
    /\ candidates' = OneOf(programmer_arg, {"dediprog", "dummy_spi"}, registered.programmers)
    /\ pc' = "probe"
    /\ UNCHANGED <<mainVars, num_op, ctx, status, registered, targets, done, dediprogVars>>

NoProgrammer ==
    /\ pc = "probe"
    /\ candidates = << >>
    /\ Return("error")
    /\ UNCHANGED <<mainVars, ctx, candidates, registered, targets, dediprogVars>>

ProbeDummy ==
    /\ pc = "probe"
    /\ candidates # << >>
    /\ Head(candidates) = "dummy_spi"
    /\ ctx' = [ctx EXCEPT !.mst = "dummy_spi"]
    /\ Return("zero")
    /\ UNCHANGED <<mainVars, candidates, registered, targets, dediprogVars>>

ProbeDediprog ==
    /\ pc = "probe"
    /\ candidates # << >>
    /\ Head(candidates) = "dediprog"
    /\ CallProbe
    /\ pc' = "dediprog"
    /\ UNCHANGED <<mainVars, num_op, ctx, candidates, status, registered, targets, done>>

DediprogStep ==
    /\ pc = "dediprog"
    /\ ProbeStep(cmd)
    /\ UNCHANGED <<pc, mainVars, num_op, ctx, candidates, status, registered, targets, done>>

DediprogProbed ==
    /\ pc = "dediprog"
    /\ dpc = "probed"
    /\ ctx' = [ctx EXCEPT !.mst = "dediprog"]
    /\ Return("zero")
    /\ UNCHANGED <<mainVars, candidates, registered, targets, dediprogVars>>

DediprogFailed ==
    /\ pc = "dediprog"
    /\ dpc = "failed"
    /\ candidates' = Tail(candidates)
    /\ pc' = "probe"
    /\ UNCHANGED <<mainVars, num_op, ctx, status, registered, targets, done, dediprogVars>>
-----------------------------------------------------------------------------
(***************************************************************************)
(* op_set_chip, with the named chip or `automatic'.  Each candidate is put *)
(* in the context and its probe function called, which finds it by what    *)
(* the target answers, or not if the command fails.  A target without      *)
(* supply leaves the bus floating, dummy_spi the array as it was.          *)
(***************************************************************************)
SetChip ==
    /\ Launching({"SET_CHIP"})
    /\ candidates' = OneOf(chipname, Chips, registered.chips)
    /\ pc' = "rdid"
    /\ UNCHANGED <<mainVars, num_op, ctx, status, registered, targets, done, dediprogVars>>

ChipNotFound ==
    /\ pc = "rdid"
    /\ candidates = << >>
    /\ Return("error")
    /\ UNCHANGED <<mainVars, ctx, candidates, registered, targets, dediprogVars>>

Answering == {targets[d] : d \in {e \in handle : targets[e] # NoChip /\ power[e] > 0}}

Answer == IF ctx.mst = "dummy_spi" THEN [Floating EXCEPT !.RDID = PresetRDID]
          ELSE IF Answering = {} THEN Floating
          ELSE Answers[CHOOSE chip \in Answering : TRUE]

Identified == Finds(Entries[Head(candidates)], Answer, {})

ProbeChip ==
    /\ pc = "rdid"
    /\ candidates # << >>
    /\ ctx' = [ctx EXCEPT !.chip = Head(candidates)]
    /\ \/ /\ Identified
          /\ Return("zero")
          /\ UNCHANGED <<candidates, lost>>
       \/ /\ candidates' = Tail(candidates)
          /\ lost' = (lost \/ Identified)
          /\ UNCHANGED <<pc, num_op, status, done>>
    /\ UNCHANGED <<mainVars, registered, targets>>
    /\ UNCHANGED <<dpc, ddata, usedevice, handle, settled, deviceVars>>
-----------------------------------------------------------------------------
Next ==
    \/ ParseOption \/ EndOfOptions
    \/ SetProgrammer \/ NoProgrammer \/ ProbeDummy
    \/ ProbeDediprog \/ DediprogStep \/ DediprogProbed \/ DediprogFailed
    \/ SetChip \/ ChipNotFound \/ ProbeChip
    \/ SetWriteStrategy \/ Use \/ EndOfOperations

Spec == Init /\ [][Next]_vars
-----------------------------------------------------------------------------
(***************************************************************************)
(* struct context starts as garbage and main builds the list of operations *)
(* from its end, yet a chip is probed only through a probed programmer,    *)
(* and an operation or the shutdown only ever finds a chip that answered,  *)
(* on a device that is set up, clocked and supplied as it was told, with   *)
(* the strategy that was named (operation.c:101-142, main.c:118-122).      *)
(***************************************************************************)
Supplied ==
    /\ ctx.mst = "dediprog" /\ dpc = "probed" /\ settled
    /\ \E d \in handle : /\ ctx.chip = targets[d]
                         /\ power[d] = ddata.millivolts /\ power[d] > 0
                         /\ TooOld \/ speed[d] = ddata.speed_hz

StrategyAsNamed ==
    ctx.write_strategy = IF \E k \in DOMAIN cmd.options : cmd.options[k] = "--write-strategy"
                         THEN parse_write_strategy(cmd.strategy) ELSE "WIPE_BY_BIGGEST_ERASES"

OnlyProbedIsUsed ==
    /\ pc = "rdid" => \/ ctx.mst = "dummy_spi"
                      \/ ctx.mst = "dediprog" /\ dpc = "probed"
    /\ Launching(Uses) \/ (pc = "launch" /\ num_op > Len(operations))
          => Supplied /\ StrategyAsNamed

(***************************************************************************)
(* Requests(options)[n] is what the first n options ask for, in order.     *)
(***************************************************************************)
Requests(options) ==
    LET UpTo[n \in 0..Len(options)] ==
            IF n = 0 THEN << >>
            ELSE IF options[n] \in OperationOptions THEN Append(UpTo[n - 1], Operation(options[n]))
                 ELSE UpTo[n - 1]
    IN  UpTo

Requested ==
    <<"SET_PROGRAMMER", "SET_CHIP", "SET_WRITE_STRATEGY">>
    \o Requests(cmd.options)[Len(cmd.options)]

(***************************************************************************)
(* The program returns 0 only after every operation of the command line,   *)
(* in its order, has returned 0, and otherwise stops at the first that     *)
(* failed (operation.c:107-137; main.c:34 "they are carried out in order").*)
(***************************************************************************)
ExitStatusTellsWhatRan ==
    /\ status = "zero"  => done = Requested
    /\ status = "error" => IsStrictPrefix(done, Requested)

(***************************************************************************)
(* A run that returns 0 leaves the target without supply, unless the       *)
(* message that switches it off, or an earlier one, was lost; whether the  *)
(* programmer was named or found by `automatic' (operation.c:139-140,      *)
(* programmer.c:56-60).                                                    *)
(***************************************************************************)
SuccessLeavesNoSupply == status = "zero" /\ ~lost => \A d \in handle : power[d] = 0
-----------------------------------------------------------------------------
(***************************************************************************)
(* Expectations that the code does not meet.                               *)
(***************************************************************************)

(***************************************************************************)
(* flashrom2.8:78-85, "parameter specifies which of multiple connected     *)
(* Dediprog devices should be used", with the example device=1: operations *)
(* run on the device that was named.                                       *)
(***************************************************************************)
NamedDeviceIsUsed ==
    Launching(Uses) /\ Written(cmd.device) => handle = {cmd.device.number \div 1000}
=============================================================================
