---------------------------- MODULE SessionProofs ----------------------------
(***************************************************************************)
(* What a run of the program keeps, for every command line, all SF100 and  *)
(* all chips: it uses only what it probed, and never switches a target     *)
(* from one supply to another.                                             *)
(***************************************************************************)
EXTENDS Session, FiniteSetTheorems, Induction, TLAPS

(***************************************************************************)
(* The parameters of the programmer.                                       *)
(***************************************************************************)
LEMMA Parsed ==
    ASSUME NEW t \in Text
    PROVE  /\ parse_voltage(t) \in Int /\ parse_freq(t) \in Int
           /\ t.number \div 1000 \in Int
<1>1. t.number \in Nat
  BY DEF Text
<1>2. t.number \div 1000 \in Int
  BY <1>1, SMT
<1>. QED
  BY <1>1, <1>2, SMT DEF parse_voltage, parse_freq

LEMMA ChosenPositive ==
    ASSUME NEW values \in SUBSET Int, NEW default \in Nat \ {0}
    PROVE  Chosen(values, default) \in Int /\ Chosen(values, default) > 0
<1>1. CASE \E v \in values : v > 0
  BY <1>1 DEF Chosen
<1>2. CASE ~\E v \in values : v > 0
  BY <1>2, SMT DEF Chosen
<1>. QED
  BY <1>1, <1>2

LEMMA ChosenParameters ==
    ASSUME NEW t \in Text
    PROVE  /\ ChosenMillivolts(t, 3500) \in Int /\ ChosenMillivolts(t, 3500) > 0
           /\ ChosenHz(t, 12000000) \in Int
           /\ ChosenDevice(t) \in Int
<1>1. extract_param(t) \subseteq Text
  BY DEF extract_param
<1>2. /\ {parse_voltage(v) : v \in extract_param(t)} \subseteq Int
      /\ {parse_freq(v) : v \in extract_param(t)} \subseteq Int
  BY <1>1, Parsed
<1>3. /\ ChosenMillivolts(t, 3500) \in Int /\ ChosenMillivolts(t, 3500) > 0
      /\ ChosenHz(t, 12000000) \in Int
  BY <1>2, ChosenPositive, SMT DEF ChosenMillivolts, ChosenHz
<1>4. ChosenDevice(t) \in Int
  <2>1. t.number \div 1000 \in Int /\ 0 \in Int /\ -1 \in Int
    BY Parsed, SMT
  <2>. QED
    BY <2>1 DEF ChosenDevice
<1>. QED
  BY <1>3, <1>4
-----------------------------------------------------------------------------
(***************************************************************************)
(* The programmer.  What dediprog_probe has done by each of its steps: the *)
(* arguments are in the tables, the device is open, its target has no      *)
(* supply while the speed is set, and the device is set up again after it. *)
(***************************************************************************)
Opened == {"setup", "off", "speed", "again", "on", "probed"}

ArgumentsChecked ==
    dpc \in {"find"} \cup Opened =>
        ddata.millivolts \in spi_voltages /\ ddata.millivolts > 0 /\ ddata.speed_hz \in spi_speeds

DeviceOpen ==
    /\ dpc \in Opened => usedevice \in Device /\ handle = {usedevice}
    /\ dpc \notin Opened => handle = {} \/ lost

SwitchedOff == dpc \in {"speed", "again", "on"} => \A d \in handle : power[d] = 0

Clocked == dpc \in {"again", "on", "probed"} => TooOld \/ \A d \in handle : speed[d] = ddata.speed_hz

SetUpAgain == dpc \in {"on", "probed"} => settled

DediprogInv ==
    /\ DediprogTypeOK
    /\ ArgumentsChecked
    /\ DeviceOpen
    /\ SwitchedOff
    /\ Clocked
    /\ SetUpAgain

LEMMA DediprogInitEstablishes == DediprogInit => DediprogInv
<1>1. SUFFICES ASSUME DediprogInit PROVE DediprogInv
  OBVIOUS
<1>2. Cardinality(handle) <= 1
  BY <1>1, FS_EmptySet, SMT DEF DediprogInit
<1>3. DediprogTypeOK
  <2>1. ddata \in [millivolts : Int, speed_hz : Int] /\ usedevice \in Int
    BY <1>1, SMT DEF DediprogInit
  <2>2. /\ power \in [Device -> spi_voltages \cup OldPower]
        /\ speed \in [Device -> spi_speeds \cup {0}]
    BY <1>1 DEF DediprogInit, spi_voltages
  <2>. QED
    BY <1>1, <1>2, <2>1, <2>2 DEF DediprogInit, DediprogTypeOK, ProbeSteps
<1>. QED
  BY <1>1, <1>3 DEF DediprogInit, DediprogInv, ArgumentsChecked, DeviceOpen, SwitchedOff, Clocked,
              SetUpAgain, Opened

LEMMA DediprogStutterKeeps ==
    ASSUME DediprogInv, UNCHANGED dediprogVars
    PROVE  DediprogInv'
  BY DEF dediprogVars, deviceVars, DediprogInv, DediprogTypeOK, ArgumentsChecked, DeviceOpen,
         SwitchedOff, Clocked, SetUpAgain, TooOld

LEMMA CallProbeKeeps ==
    ASSUME DediprogInv, CallProbe, dpc \in {"idle", "failed"}
    PROVE  DediprogInv'
  BY DEF CallProbe, deviceVars, DediprogInv, DediprogTypeOK, ProbeSteps, ArgumentsChecked,
         DeviceOpen, SwitchedOff, Clocked, SetUpAgain, Opened

LEMMA ParseArgumentsKeeps ==
    ASSUME DediprogInv, NEW args, args.voltage \in Text, args.hz \in Text, args.device \in Text,
           ParseArguments(args)
    PROVE  DediprogInv'
<1>1. /\ dpc = "args"
      /\ UNCHANGED <<handle, settled, lost, firmware, power, speed>>
      /\ ddata' = [millivolts |-> ChosenMillivolts(args.voltage, 3500),
                   speed_hz   |-> ChosenHz(args.hz, 12000000)]
      /\ usedevice' = ChosenDevice(args.device)
      /\ \/ dpc' = "failed"
         \/ dpc' = "find" /\ ddata'.speed_hz \in spi_speeds /\ ddata'.millivolts \in spi_voltages
  BY DEF ParseArguments, ProbeFails, deviceVars
<1>2. /\ ddata' \in [millivolts : Int, speed_hz : Int] /\ ddata'.millivolts > 0
      /\ usedevice' \in Int
  BY <1>1, ChosenParameters
<1>. QED
  BY <1>1, <1>2
     DEF DediprogInv, DediprogTypeOK, ProbeSteps, ArgumentsChecked, DeviceOpen, SwitchedOff,
         Clocked, SetUpAgain, Opened

LEMMA FindDeviceKeeps ==
    ASSUME DediprogInv, FindDevice
    PROVE  DediprogInv'
<1>1. Cardinality({usedevice}) <= 1
  BY FS_Singleton
<1>. QED
  BY <1>1
     DEF FindDevice, ProbeFails, deviceVars, DediprogInv, DediprogTypeOK, ProbeSteps,
         ArgumentsChecked, DeviceOpen, SwitchedOff, Clocked, SetUpAgain, Opened

LEMMA SetupKeeps ==
    ASSUME DediprogInv, FirstSetup \/ SecondSetup
    PROVE  DediprogInv'
<1>1. /\ UNCHANGED <<ddata, usedevice, handle, firmware, power, speed>>
      /\ \/ dpc = "setup" /\ dpc' = "off"
         \/ dpc = "again" /\ dpc' = "on" /\ settled' = TRUE
         \/ dpc \in {"setup", "again"} /\ dpc' = "failed" /\ lost' = TRUE
      /\ settled' \in {TRUE, settled} /\ lost' \in {TRUE, lost}
  BY DEF FirstSetup, SecondSetup, Setup, ProbeFails, deviceVars
<1>. QED
  BY <1>1
     DEF DediprogInv, DediprogTypeOK, ProbeSteps, ArgumentsChecked, DeviceOpen, SwitchedOff,
         Clocked, SetUpAgain, Opened, TooOld

(* What switching the supply of the open device does to all of them.        *)
LEMMA Supplies ==
    ASSUME DediprogTypeOK, NEW mV \in spi_voltages, Supply(mV)
    PROVE  /\ power' \in [Device -> spi_voltages \cup OldPower]
           /\ \A d \in handle : power'[d] = mV
           /\ \A d \in Device \ handle : power'[d] = power[d]
  BY DEF Supply, DediprogTypeOK

LEMMA VoltageOffKeeps ==
    ASSUME DediprogInv, VoltageOff
    PROVE  DediprogInv'
<1>1. /\ UNCHANGED <<ddata, usedevice, handle, settled, firmware, speed>>
      /\ dpc = "off"
      /\ \/ dpc' = "speed" /\ Supply(0) /\ lost' = lost
         \/ dpc' = "failed" /\ lost' = TRUE /\ (Supply(0) \/ power' = power)
  BY DEF VoltageOff, SetVoltage, ProbeFails
<1>2. /\ power' \in [Device -> spi_voltages \cup OldPower]
      /\ dpc' = "speed" => \A d \in handle : power'[d] = 0
  BY <1>1, Supplies DEF DediprogInv, DediprogTypeOK, spi_voltages
<1>. QED
  BY <1>1, <1>2
     DEF DediprogInv, DediprogTypeOK, ProbeSteps, ArgumentsChecked, DeviceOpen, SwitchedOff,
         Clocked, SetUpAgain, Opened, TooOld

LEMMA VoltageOnKeeps ==
    ASSUME DediprogInv, VoltageOn
    PROVE  /\ DediprogInv'
           /\ dpc' = "probed" => \A d \in handle' : power'[d] = ddata'.millivolts
<1>1. /\ UNCHANGED <<ddata, usedevice, handle, settled, firmware, speed>>
      /\ dpc = "on"
      /\ \/ dpc' = "probed" /\ Supply(ddata.millivolts) /\ lost' = lost
         \/ dpc' = "failed" /\ lost' = TRUE /\ (Supply(ddata.millivolts) \/ power' = power)
  BY DEF VoltageOn, SetVoltage, ProbeFails
<1>2. ddata.millivolts \in spi_voltages
  BY <1>1 DEF DediprogInv, ArgumentsChecked, Opened
<1>3. /\ power' \in [Device -> spi_voltages \cup OldPower]
      /\ dpc' = "probed" => \A d \in handle : power'[d] = ddata.millivolts
  BY <1>1, <1>2, Supplies DEF DediprogInv, DediprogTypeOK
<1>. QED
  BY <1>1, <1>3
     DEF DediprogInv, DediprogTypeOK, ProbeSteps, ArgumentsChecked, DeviceOpen, SwitchedOff,
         Clocked, SetUpAgain, Opened, TooOld

LEMMA SetSpeedKeeps ==
    ASSUME DediprogInv, SetSpeed
    PROVE  DediprogInv'
<1>1. /\ UNCHANGED <<ddata, usedevice, handle, firmware, power>>
      /\ dpc = "speed"
      /\ \/ TooOld /\ dpc' = "again" /\ UNCHANGED <<speed, settled, lost>>
         \/ dpc' = "again" /\ Clock /\ lost' = lost
         \/ dpc' = "failed" /\ lost' = TRUE /\ (Clock \/ UNCHANGED <<speed, settled>>)
  BY DEF SetSpeed, ProbeFails
<1>2. ddata.speed_hz \in spi_speeds /\ handle \subseteq Device
  BY <1>1 DEF DediprogInv, ArgumentsChecked, Opened, DediprogTypeOK
<1>3. /\ speed' \in [Device -> spi_speeds \cup {0}]
      /\ settled' \in BOOLEAN
      /\ Clock => \A d \in handle : speed'[d] = ddata.speed_hz
  BY <1>1, <1>2 DEF Clock, DediprogInv, DediprogTypeOK
<1>4. TooOld' = TooOld
  BY <1>1 DEF TooOld
<1>. QED
  BY <1>1, <1>3, <1>4
     DEF DediprogInv, DediprogTypeOK, ProbeSteps, ArgumentsChecked, DeviceOpen, SwitchedOff,
         Clocked, SetUpAgain, Opened

LEMMA ShutdownKeeps ==
    ASSUME DediprogInv, Shutdown
    PROVE  /\ DediprogInv'
           /\ ~lost' => \A d \in handle' : power'[d] = 0
<1>1. /\ UNCHANGED <<dpc, ddata, usedevice, handle, settled, firmware, speed>>
      /\ \/ Supply(0) /\ lost' = lost
         \/ power' = power /\ lost' = TRUE
  BY DEF Shutdown
<1>2. /\ power' \in [Device -> spi_voltages \cup OldPower]
      /\ \A d \in handle : power'[d] \in {0, power[d]}
      /\ ~lost' => \A d \in handle : power'[d] = 0
  BY <1>1, Supplies DEF DediprogInv, DediprogTypeOK, spi_voltages
<1>. QED
  BY <1>1, <1>2
     DEF DediprogInv, DediprogTypeOK, ArgumentsChecked, DeviceOpen, SwitchedOff,
         Clocked, SetUpAgain, Opened, TooOld

LEMMA ProbeStepKeeps ==
    ASSUME DediprogInv, dpc # "probed",
           NEW args, args.voltage \in Text, args.hz \in Text, args.device \in Text,
           ProbeStep(args)
    PROVE  /\ DediprogInv'
           /\ dpc' = "probed" => \A d \in handle' : power'[d] = ddata'.millivolts
<1>1. CASE VoltageOn
  BY <1>1, VoltageOnKeeps
<1>2. CASE ~VoltageOn
  <2>1. DediprogInv'
    BY <1>2, ParseArgumentsKeeps, FindDeviceKeeps, SetupKeeps, VoltageOffKeeps, SetSpeedKeeps
       DEF ProbeStep
  <2>2. dpc' # "probed"
    BY <1>2 DEF ProbeStep, ParseArguments, FindDevice, FirstSetup, SecondSetup, Setup, VoltageOff,
                SetVoltage, SetSpeed, ProbeFails
  <2>. QED
    BY <2>1, <2>2
<1>. QED
  BY <1>1, <1>2
-----------------------------------------------------------------------------
(***************************************************************************)
(* The program.  The list main builds starts with the settings, programmer *)
(* first; each of them has done its work once the loop is behind it.       *)
(***************************************************************************)
Programmers == {"dediprog", "dummy_spi"}

Ordered ==
    /\ Len(operations) >= 3
    /\ operations[1] = "SET_PROGRAMMER"
    /\ operations[2] = "SET_CHIP"
    /\ operations[3] = "SET_WRITE_STRATEGY"
    /\ \A k \in 4..Len(operations) : operations[k] \in Uses

Registered ==
    registered.programmers \in Seq(Programmers) /\ registered.chips \in Seq(Chips)

Phases ==
    /\ pc = "options" => operations \in Seq(Uses) /\ num_op = 1 /\ dpc = "idle"
    /\ pc \notin {"options", "exit"} => Ordered
    /\ pc \in {"probe", "dediprog"} => num_op = 1 /\ candidates \in Seq(Programmers)
    /\ pc = "dediprog" => candidates # << >>
    /\ pc = "rdid" => num_op = 2 /\ candidates \in Seq(Chips)
    /\ pc = "probe" \/ (pc = "launch" /\ num_op = 1) => dpc \in {"idle", "failed"}
    /\ pc # "exit" => status = "none"

ProgrammerChosen ==
    pc = "rdid" \/ (pc = "launch" /\ num_op > 1) =>
        \/ ctx.mst = "dummy_spi" /\ dpc \in {"idle", "failed"}
        \/ ctx.mst = "dediprog" /\ dpc = "probed"

Powered == pc # "exit" /\ dpc = "probed" => \A d \in handle : power[d] = ddata.millivolts

ChipFound ==
    pc = "launch" /\ num_op > 2 =>
        ctx.mst = "dediprog" /\ ctx.chip \in Chips /\ \E d \in handle : ctx.chip = targets[d]

StrategySet == pc = "launch" /\ num_op > 3 => ctx.write_strategy = write_strategy

StrategySoFar ==
    /\ write_strategy = IF \E k \in DOMAIN cmd.options :
                             k < optind /\ cmd.options[k] = "--write-strategy"
                        THEN parse_write_strategy(cmd.strategy) ELSE "WIPE_BY_BIGGEST_ERASES"
    /\ pc # "options" => optind > Len(cmd.options)

SessionInv ==
    /\ DediprogInv
    /\ SessionTypeOK
    /\ Registered
    /\ Phases
    /\ ProgrammerChosen
    /\ Powered
    /\ ChipFound
    /\ StrategySet
    /\ StrategySoFar
    /\ SuccessLeavesNoSupply

LEMMA CommandLineParts ==
    ASSUME SessionInv
    PROVE  /\ cmd.options \in Seq(Options) /\ cmd.programmer \in Names
           /\ cmd.chip \in Chips \cup {"unknown"} /\ cmd.strategy \in StrategyNames
           /\ cmd.voltage \in Text /\ cmd.hz \in Text /\ cmd.device \in Text
  BY CommandLinesAssumption DEF SessionInv, SessionTypeOK, CommandLine

LEMMA SessionInitEstablishes == Init => SessionInv
<1>1. SUFFICES ASSUME Init PROVE SessionInv
  OBVIOUS
<1>2. DediprogInv
  BY <1>1, DediprogInitEstablishes DEF Init
<1>3. Registered
  <2>1. ASSUME NEW S, IsFiniteSet(S), NEW s \in SetToSeqs(S) PROVE s \in Seq(S)
    BY <2>1, FS_CardinalityType, SMT DEF SetToSeqs
  <2>2. IsFiniteSet({"dediprog", "dummy_spi"})
    <3>1. {"dediprog", "dummy_spi"} = {"dediprog"} \cup {"dummy_spi"}
      OBVIOUS
    <3>2. IsFiniteSet({"dediprog"})
      BY FS_Singleton
    <3>3. IsFiniteSet({"dediprog"} \cup {"dummy_spi"})
      BY <3>2, FS_AddElement
    <3>. QED
      BY <3>1, <3>3
  <2>. QED
    BY <1>1, <2>1, <2>2, ChipsAssumption DEF Init, Registered, Programmers
<1>4. SessionTypeOK
  BY <1>1, <1>2, SMT
     DEF Init, SessionTypeOK, DediprogInv, Kinds, Names, Strategies
<1>5. StrategySoFar
  <2>1. ASSUME NEW k \in DOMAIN cmd.options PROVE ~(k < 1)
    <3>1. cmd.options \in Seq(Options)
      BY <1>4, CommandLinesAssumption DEF SessionTypeOK, CommandLine
    <3>. QED
      BY <3>1, SMT
  <2>. QED
    BY <1>1, <2>1 DEF Init, StrategySoFar
<1>6. Phases
  BY <1>1, SMT DEF Init, DediprogInit, Phases, Uses
<1>. QED
  BY <1>1, <1>2, <1>3, <1>4, <1>5, <1>6
     DEF Init, DediprogInit, SessionInv, ProgrammerChosen, Powered, ChipFound, StrategySet,
         SuccessLeavesNoSupply

LEMMA SessionStutterKeeps ==
    ASSUME SessionInv, UNCHANGED vars
    PROVE  SessionInv'
<1>1. /\ UNCHANGED <<pc, cmd, optind, operations, programmer_arg, chipname, write_strategy>>
      /\ UNCHANGED <<num_op, ctx, candidates, status, registered, targets, done>>
      /\ UNCHANGED dediprogVars
      /\ UNCHANGED <<dpc, ddata, handle, power, lost>>
  BY DEF vars, mainVars, dediprogVars, deviceVars
<1>2. DediprogInv'
  BY <1>1, DediprogStutterKeeps DEF SessionInv
<1>3. SessionTypeOK'
  BY <1>1, <1>2 DEF SessionInv, SessionTypeOK, DediprogInv
<1>4. Registered' /\ Phases' /\ ProgrammerChosen' /\ Powered' /\ ChipFound' /\ StrategySet'
  BY <1>1 DEF SessionInv, Registered, Phases, Ordered, ProgrammerChosen, Powered, ChipFound,
              StrategySet
<1>5. StrategySoFar' /\ SuccessLeavesNoSupply'
  BY <1>1 DEF SessionInv, StrategySoFar, SuccessLeavesNoSupply
<1>. QED
  BY <1>2, <1>3, <1>4, <1>5 DEF SessionInv
-----------------------------------------------------------------------------
(***************************************************************************)
(* The steps of main.                                                      *)
(***************************************************************************)
LEMMA ParseOptionKeeps ==
    ASSUME SessionInv, ParseOption
    PROVE  SessionInv'
<1>1. /\ pc = "options" /\ pc' = pc /\ optind <= Len(cmd.options)
      /\ UNCHANGED <<cmd, num_op, ctx, candidates, status, registered, targets, done>>
      /\ UNCHANGED dediprogVars /\ UNCHANGED <<dpc, ddata, handle, power, lost>>
      /\ optind' = optind + 1
  BY DEF ParseOption, dediprogVars, deviceVars
<1>2. /\ programmer_arg' \in {cmd.programmer, programmer_arg}
      /\ chipname' \in {cmd.chip, chipname}
      /\ write_strategy' = IF cmd.options[optind] = "--write-strategy"
                           THEN parse_write_strategy(cmd.strategy) ELSE write_strategy
      /\ operations' = IF cmd.options[optind] \in OperationOptions
                       THEN Append(operations, Operation(cmd.options[optind])) ELSE operations
  BY DEF ParseOption, operation_add_tail
<1>3. DediprogInv' /\ DediprogTypeOK'
  BY <1>1, DediprogStutterKeeps DEF SessionInv, DediprogInv
<1>4. /\ SessionTypeOK /\ cmd.options \in Seq(Options) /\ optind \in Nat \ {0}
      /\ operations \in Seq(Uses) /\ optind \in DOMAIN cmd.options
  BY <1>1, CommandLineParts, SMT DEF SessionInv, Phases, SessionTypeOK
<1>5. operations' \in Seq(Uses)
  <2>1. ASSUME NEW o \in OperationOptions PROVE Operation(o) \in Uses
    BY <2>1 DEF OperationOptions, Operation, Uses
  <2>. QED
    BY <1>2, <1>4, <2>1, SMT
<1>6. operations' \in Seq(Kinds)
  BY <1>5, SMT DEF Uses, Kinds
<1>7. parse_write_strategy(cmd.strategy) \in Strategies
  BY CommandLineParts DEF StrategyNames, parse_write_strategy, Strategies
<1>8. SessionTypeOK'
  <2>1. programmer_arg' \in Names /\ chipname' \in Chips \cup {"automatic", "unknown"}
    BY <1>2, <1>4, CommandLineParts DEF SessionTypeOK
  <2>2. write_strategy' \in Strategies /\ optind' \in Nat \ {0}
    BY <1>1, <1>2, <1>4, <1>7, SMT DEF SessionTypeOK
  <2>. QED
    BY <1>1, <1>3, <1>4, <1>6, <2>1, <2>2 DEF SessionTypeOK
<1>9. StrategySoFar'
  <2>1. ASSUME NEW k \in DOMAIN cmd.options
        PROVE  k < optind + 1 <=> k < optind \/ k = optind
    BY <1>4, <2>1, SMT
  <2>. QED
    BY <1>1, <1>2, <1>4, <2>1 DEF SessionInv, StrategySoFar
<1>10. Registered' /\ Phases' /\ ProgrammerChosen' /\ Powered' /\ ChipFound' /\ StrategySet'
  BY <1>1, <1>5
     DEF SessionInv, Registered, Phases, ProgrammerChosen, Powered, ChipFound, StrategySet
<1>11. SuccessLeavesNoSupply'
  BY <1>1 DEF SessionInv, SuccessLeavesNoSupply
<1>. QED
  BY <1>3, <1>8, <1>9, <1>10, <1>11 DEF SessionInv

LEMMA ListOfSettings ==
    ASSUME NEW uses \in Seq(Uses)
    PROVE  /\ Settings(uses) \in Seq(Kinds) /\ Len(Settings(uses)) >= 3
           /\ Settings(uses)[1] = "SET_PROGRAMMER"
           /\ Settings(uses)[2] = "SET_CHIP"
           /\ Settings(uses)[3] = "SET_WRITE_STRATEGY"
           /\ \A k \in 4..Len(Settings(uses)) : Settings(uses)[k] \in Uses
  BY SMT DEF Settings, operation_add, Kinds, Uses

LEMMA EndOfOptionsKeeps ==
    ASSUME SessionInv, EndOfOptions
    PROVE  SessionInv'
<1>1. /\ pc = "options" /\ ~(optind <= Len(cmd.options))
      /\ UNCHANGED <<cmd, optind, programmer_arg, chipname, write_strategy, num_op, ctx>>
      /\ UNCHANGED <<candidates, registered, targets, done>>
      /\ UNCHANGED dediprogVars /\ UNCHANGED <<dpc, ddata, handle, power, lost>>
      /\ \/ pc' = "exit" /\ status' = "error" /\ operations' = operations
         \/ pc' = "launch" /\ operations' = Settings(operations) /\ status' = status
  BY CommandLineParts, SMT DEF EndOfOptions, dediprogVars, deviceVars, SessionInv, SessionTypeOK
<1>2. DediprogInv' /\ DediprogTypeOK'
  BY <1>1, DediprogStutterKeeps DEF SessionInv, DediprogInv
<1>3. /\ SessionTypeOK /\ operations \in Seq(Uses) /\ num_op = 1 /\ dpc = "idle" /\ status = "none"
  BY <1>1 DEF SessionInv, Phases
<1>4. pc' = "launch" => /\ operations' \in Seq(Kinds) /\ Len(operations') >= 3
                        /\ operations'[1] = "SET_PROGRAMMER"
                        /\ operations'[2] = "SET_CHIP"
                        /\ operations'[3] = "SET_WRITE_STRATEGY"
                        /\ \A k \in 4..Len(operations') : operations'[k] \in Uses
  BY <1>1, <1>3, ListOfSettings
<1>5. SessionTypeOK'
  BY <1>1, <1>2, <1>3, <1>4 DEF SessionTypeOK
<1>6. Ordered' \/ pc' = "exit"
  BY <1>1, <1>4 DEF Ordered
<1>7. /\ ~(num_op' > 1) /\ ~(num_op' > 2) /\ ~(num_op' > 3)
      /\ optind' > Len(cmd'.options)
  BY <1>1, <1>3, CommandLineParts, SMT DEF SessionTypeOK
<1>8. Registered' /\ Phases' /\ ProgrammerChosen' /\ Powered' /\ ChipFound' /\ StrategySet'
  BY <1>1, <1>3, <1>6, <1>7
     DEF SessionInv, Registered, Phases, ProgrammerChosen, Powered, ChipFound, StrategySet
<1>9. StrategySoFar' /\ SuccessLeavesNoSupply'
  BY <1>1, <1>3, <1>7 DEF SessionInv, StrategySoFar, SuccessLeavesNoSupply
<1>. QED
  BY <1>2, <1>5, <1>8, <1>9 DEF SessionInv

(***************************************************************************)
(* The end of an operation of operations_launch.                           *)
(***************************************************************************)
LEMMA Returns ==
    ASSUME SessionInv, NEW ret \in {"zero", "error"}, Return(ret),
           pc \notin {"options", "exit"}, num_op <= Len(operations)
    PROVE  /\ num_op' \in Nat \ {0} /\ done' \in Seq(Kinds)
           /\ \/ /\ ret = "zero" /\ pc' = "launch" /\ num_op' = num_op + 1
                 /\ status' = status /\ status' = "none"
              \/ ret = "error" /\ pc' = "exit" /\ status' = "error"
           /\ num_op' > 1 \/ pc' = "exit"
           /\ num_op' # 1 \/ pc' = "exit"
<1>1. /\ SessionTypeOK /\ num_op \in Nat \ {0} /\ done \in Seq(Kinds)
      /\ operations \in Seq(Kinds) /\ status = "none"
  BY DEF SessionInv, SessionTypeOK, Phases
<1>2. operations[num_op] \in Kinds
  BY <1>1, SMT
<1>3. num_op + 1 \in Nat \ {0} /\ num_op + 1 > 1 /\ num_op + 1 # 1
  BY <1>1, SMT
<1>4. Append(done, operations[num_op]) \in Seq(Kinds)
  BY <1>1, <1>2, SMT
<1>. QED
  BY <1>1, <1>3, <1>4 DEF Return

(* What an operation that only ends, leaving programmer and chip alone,     *)
(* need not show again.                                                     *)
LEMMA ReturnTypeKeeps ==
    ASSUME SessionInv, UNCHANGED mainVars, UNCHANGED <<registered, targets>>,
           DediprogTypeOK',
           pc' \in {"launch", "exit"}, status' \in {"none", "error"},
           num_op' \in Nat \ {0}, done' \in Seq(Kinds),
           ctx' \in [chip : Chips \cup {"NULL", "garbage"}, mst : Names \cup {"NULL", "garbage"},
                     write_strategy : Strategies \cup {"garbage"}],
           candidates' \in Seq(Names \cup Chips),
           pc # "options"
    PROVE  SessionTypeOK' /\ Registered' /\ StrategySoFar' /\ SuccessLeavesNoSupply'
<1>1. UNCHANGED <<cmd, optind, operations, programmer_arg, chipname, write_strategy>>
  BY DEF mainVars
<1>. QED
  BY <1>1 DEF SessionInv, SessionTypeOK, Registered, StrategySoFar, SuccessLeavesNoSupply

LEMMA LaunchingAt ==
    ASSUME SessionInv, pc = "launch", num_op <= Len(operations)
    PROVE  /\ operations[num_op] = "SET_PROGRAMMER" <=> num_op = 1
           /\ operations[num_op] = "SET_CHIP" <=> num_op = 2
           /\ operations[num_op] = "SET_WRITE_STRATEGY" <=> num_op = 3
           /\ operations[num_op] \in Uses <=> num_op > 3
<1>1. num_op \in Nat \ {0} /\ operations \in Seq(Kinds) /\ Ordered
  BY DEF SessionInv, SessionTypeOK, Phases
<1>2. num_op = 1 \/ num_op = 2 \/ num_op = 3 \/ num_op \in 4..Len(operations)
  BY <1>1, SMT
<1>3. CASE num_op \in 4..Len(operations)
  <2>1. num_op # 1 /\ num_op # 2 /\ num_op # 3 /\ num_op > 3
    BY <1>3, SMT
  <2>2. operations[num_op] \in Uses
    BY <1>1, <1>3 DEF Ordered
  <2>. QED
    BY <2>1, <2>2 DEF Uses
<1>4. CASE num_op \in {1, 2, 3}
  <2>1. ~(num_op > 3) /\ 1 # 2 /\ 2 # 3 /\ 1 # 3
    BY <1>4, SMT
  <2>. QED
    BY <1>1, <1>4, <2>1 DEF Ordered, Uses
<1>. QED
  BY <1>2, <1>3, <1>4

LEMMA UseKeeps ==
    ASSUME SessionInv, Use
    PROVE  SessionInv'
<1>1. /\ pc = "launch" /\ num_op <= Len(operations) /\ num_op > 3
      /\ UNCHANGED mainVars /\ UNCHANGED <<ctx, candidates, registered, targets>>
      /\ UNCHANGED dediprogVars /\ UNCHANGED <<dpc, ddata, handle, power, lost>>
      /\ UNCHANGED <<operations, write_strategy>>
  BY LaunchingAt DEF Use, Launching, dediprogVars, deviceVars, mainVars
<1>2. PICK ret \in {"zero", "error"} : Return(ret)
  BY DEF Use
<1>3. /\ num_op' \in Nat \ {0} /\ done' \in Seq(Kinds)
      /\ \/ pc' = "launch" /\ num_op' = num_op + 1 /\ status' = "none"
         \/ pc' = "exit" /\ status' = "error"
      /\ num_op' # 1 \/ pc' = "exit"
  BY <1>1, <1>2, Returns
<1>4. DediprogInv' /\ DediprogTypeOK'
  BY <1>1, DediprogStutterKeeps DEF SessionInv, DediprogInv
<1>5. SessionTypeOK' /\ Registered' /\ StrategySoFar' /\ SuccessLeavesNoSupply'
  BY <1>1, <1>3, <1>4, ReturnTypeKeeps DEF SessionInv, SessionTypeOK
<1>6. num_op > 1 /\ num_op > 2
  BY <1>1, SMT DEF SessionInv, SessionTypeOK
<1>7. Phases' /\ ProgrammerChosen' /\ Powered' /\ ChipFound' /\ StrategySet'
  BY <1>1, <1>3, <1>6
     DEF SessionInv, Phases, Ordered, ProgrammerChosen, Powered, ChipFound, StrategySet
<1>. QED
  BY <1>4, <1>5, <1>7 DEF SessionInv

LEMMA SetWriteStrategyKeeps ==
    ASSUME SessionInv, SetWriteStrategy
    PROVE  SessionInv'
<1>1. /\ pc = "launch" /\ num_op <= Len(operations) /\ num_op = 3
      /\ UNCHANGED mainVars /\ UNCHANGED <<candidates, registered, targets>>
      /\ UNCHANGED dediprogVars /\ UNCHANGED <<dpc, ddata, handle, power, lost>>
      /\ UNCHANGED <<operations, write_strategy>>
      /\ ctx' = [ctx EXCEPT !.write_strategy = write_strategy]
      /\ Return("zero")
  BY LaunchingAt DEF SetWriteStrategy, Launching, dediprogVars, deviceVars, mainVars
<1>2. /\ num_op' \in Nat \ {0} /\ done' \in Seq(Kinds)
      /\ pc' = "launch" /\ num_op' = num_op + 1 /\ status' = "none" /\ num_op' # 1
  BY <1>1, Returns
<1>3. DediprogInv' /\ DediprogTypeOK'
  BY <1>1, DediprogStutterKeeps DEF SessionInv, DediprogInv
<1>4. /\ ctx' \in [chip : Chips \cup {"NULL", "garbage"}, mst : Names \cup {"NULL", "garbage"},
                  write_strategy : Strategies \cup {"garbage"}]
      /\ ctx'.chip = ctx.chip /\ ctx'.mst = ctx.mst /\ ctx'.write_strategy = write_strategy
  BY <1>1 DEF SessionInv, SessionTypeOK
<1>5. SessionTypeOK' /\ Registered' /\ StrategySoFar' /\ SuccessLeavesNoSupply'
  BY <1>1, <1>2, <1>3, <1>4, ReturnTypeKeeps DEF SessionInv, SessionTypeOK
<1>6. num_op > 1 /\ num_op > 2
  BY <1>1, SMT
<1>7. Phases' /\ ProgrammerChosen' /\ Powered' /\ ChipFound' /\ StrategySet'
  BY <1>1, <1>2, <1>4, <1>6
     DEF SessionInv, Phases, Ordered, ProgrammerChosen, Powered, ChipFound, StrategySet
<1>. QED
  BY <1>3, <1>5, <1>7 DEF SessionInv

LEMMA EndOfOperationsKeeps ==
    ASSUME SessionInv, EndOfOperations
    PROVE  SessionInv'
<1>1. /\ pc = "launch" /\ num_op > Len(operations)
      /\ pc' = "exit" /\ status' = "zero"
      /\ UNCHANGED mainVars /\ UNCHANGED <<num_op, ctx, candidates, registered, targets, done>>
      /\ UNCHANGED <<cmd, optind, operations, programmer_arg, chipname, write_strategy>>
      /\ IF programmer_chip_available /\ ctx.mst = "dediprog"
         THEN Shutdown ELSE UNCHANGED dediprogVars
  BY DEF EndOfOperations, mainVars
<1>2. num_op > 2
  BY <1>1, SMT DEF SessionInv, Phases, Ordered, SessionTypeOK
<1>3. ctx.mst = "dediprog" /\ ctx.chip # "NULL" /\ ctx.mst # "NULL"
  BY <1>1, <1>2, NamesAssumption DEF SessionInv, ChipFound
<1>4. Shutdown
  BY <1>1, <1>3 DEF programmer_chip_available
<1>5. DediprogInv' /\ DediprogTypeOK' /\ (~lost' => \A d \in handle' : power'[d] = 0)
  BY <1>4, ShutdownKeeps DEF SessionInv, DediprogInv
<1>6. SessionTypeOK' /\ StrategySoFar' /\ SuccessLeavesNoSupply'
  BY <1>1, <1>5 DEF SessionInv, SessionTypeOK, StrategySoFar, SuccessLeavesNoSupply
<1>7. /\ Registered' /\ Phases' /\ ProgrammerChosen' /\ Powered' /\ ChipFound' /\ StrategySet'
  BY <1>1
     DEF SessionInv, Registered, Phases, ProgrammerChosen, Powered, ChipFound, StrategySet
<1>. QED
  BY <1>5, <1>6, <1>7 DEF SessionInv
-----------------------------------------------------------------------------
(***************************************************************************)
(* The steps of op_set_programmer.                                         *)
(***************************************************************************)
LEMMA SetProgrammerKeeps ==
    ASSUME SessionInv, SetProgrammer
    PROVE  SessionInv'
<1>1. /\ pc = "launch" /\ num_op <= Len(operations) /\ num_op = 1 /\ pc' = "probe"
      /\ candidates' = OneOf(programmer_arg, {"dediprog", "dummy_spi"}, registered.programmers)
      /\ UNCHANGED <<cmd, optind, operations, programmer_arg, chipname, write_strategy>>
      /\ UNCHANGED <<num_op, ctx, status, registered, targets, done>>
      /\ UNCHANGED dediprogVars /\ UNCHANGED <<dpc, ddata, handle, power, lost>>
  BY LaunchingAt DEF SetProgrammer, Launching, dediprogVars, deviceVars, mainVars
<1>2. DediprogInv' /\ DediprogTypeOK'
  BY <1>1, DediprogStutterKeeps DEF SessionInv, DediprogInv
<1>3. candidates' \in Seq(Programmers)
  <2>1. ASSUME programmer_arg \in Programmers PROVE <<programmer_arg>> \in Seq(Programmers)
    BY <2>1, SMT
  <2>2. << >> \in Seq(Programmers)
    BY SMT
  <2>. QED
    BY <1>1, <2>1, <2>2 DEF OneOf, SessionInv, Registered, Programmers
<1>4. candidates' \in Seq(Names \cup Chips)
  BY <1>3, SMT DEF Programmers, Names
<1>5. SessionTypeOK'
  BY <1>1, <1>2, <1>4 DEF SessionInv, SessionTypeOK
<1>6. Registered' /\ ProgrammerChosen' /\ Powered' /\ ChipFound' /\ StrategySet'
  BY <1>1 DEF SessionInv, Registered, ProgrammerChosen, Powered, ChipFound, StrategySet
<1>7. Phases'
  BY <1>1, <1>3 DEF SessionInv, Phases, Ordered
<1>8. StrategySoFar' /\ SuccessLeavesNoSupply'
  BY <1>1 DEF SessionInv, Phases, StrategySoFar, SuccessLeavesNoSupply
<1>. QED
  BY <1>2, <1>5, <1>6, <1>7, <1>8 DEF SessionInv

LEMMA NoProgrammerKeeps ==
    ASSUME SessionInv, NoProgrammer
    PROVE  SessionInv'
<1>1. /\ pc = "probe" /\ num_op = 1 /\ Ordered
      /\ UNCHANGED mainVars /\ UNCHANGED <<ctx, candidates, registered, targets>>
      /\ UNCHANGED dediprogVars
      /\ Return("error")
  BY DEF NoProgrammer, SessionInv, Phases
<1>2. num_op <= Len(operations)
  BY <1>1, SMT DEF Ordered, SessionInv, SessionTypeOK
<1>3. num_op' \in Nat \ {0} /\ done' \in Seq(Kinds) /\ pc' = "exit" /\ status' = "error"
  BY <1>1, <1>2, Returns
<1>4. DediprogInv' /\ DediprogTypeOK'
  BY <1>1, DediprogStutterKeeps DEF SessionInv, DediprogInv
<1>5. SessionTypeOK' /\ Registered' /\ StrategySoFar' /\ SuccessLeavesNoSupply'
  BY <1>1, <1>3, <1>4, ReturnTypeKeeps DEF SessionInv, SessionTypeOK
<1>6. Phases' /\ ProgrammerChosen' /\ Powered' /\ ChipFound' /\ StrategySet'
  BY <1>3 DEF Phases, ProgrammerChosen, Powered, ChipFound, StrategySet
<1>. QED
  BY <1>4, <1>5, <1>6 DEF SessionInv

(* Either programmer is put in the context, and the loop goes on.           *)
LEMMA ProbedKeeps ==
    ASSUME SessionInv, ProbeDummy \/ DediprogProbed
    PROVE  SessionInv'
<1>1. /\ num_op = 1 /\ Ordered /\ pc \notin {"options", "exit"}
      /\ UNCHANGED mainVars /\ UNCHANGED <<candidates, registered, targets>>
      /\ UNCHANGED dediprogVars /\ UNCHANGED <<dpc, ddata, handle, power, lost>>
      /\ UNCHANGED <<operations, write_strategy>>
      /\ \/ dpc \in {"idle", "failed"} /\ ctx' = [ctx EXCEPT !.mst = "dummy_spi"]
         \/ dpc = "probed" /\ ctx' = [ctx EXCEPT !.mst = "dediprog"]
      /\ Return("zero")
  BY DEF ProbeDummy, DediprogProbed, SessionInv, Phases, dediprogVars, deviceVars, mainVars
<1>2. num_op <= Len(operations)
  BY <1>1, SMT DEF Ordered, SessionInv, SessionTypeOK
<1>3. /\ num_op' \in Nat \ {0} /\ done' \in Seq(Kinds)
      /\ pc' = "launch" /\ num_op' = num_op + 1 /\ status' = "none" /\ num_op' # 1
  BY <1>1, <1>2, Returns
<1>4. DediprogInv' /\ DediprogTypeOK'
  BY <1>1, DediprogStutterKeeps DEF SessionInv, DediprogInv
<1>5. /\ ctx' \in [chip : Chips \cup {"NULL", "garbage"}, mst : Names \cup {"NULL", "garbage"},
                  write_strategy : Strategies \cup {"garbage"}]
      /\ \/ dpc \in {"idle", "failed"} /\ ctx'.mst = "dummy_spi"
         \/ dpc = "probed" /\ ctx'.mst = "dediprog"
  BY <1>1 DEF SessionInv, SessionTypeOK, Names
<1>6. SessionTypeOK' /\ Registered' /\ StrategySoFar' /\ SuccessLeavesNoSupply'
  BY <1>1, <1>3, <1>4, <1>5, ReturnTypeKeeps DEF SessionInv, SessionTypeOK
<1>7. ~(num_op' > 2) /\ ~(num_op' > 3)
  BY <1>1, <1>3, SMT
<1>8. Phases' /\ ProgrammerChosen' /\ Powered' /\ ChipFound' /\ StrategySet'
  BY <1>1, <1>3, <1>5, <1>7
     DEF SessionInv, Phases, Ordered, ProgrammerChosen, Powered, ChipFound, StrategySet
<1>. QED
  BY <1>4, <1>6, <1>8 DEF SessionInv

LEMMA ProbeDediprogKeeps ==
    ASSUME SessionInv, ProbeDediprog
    PROVE  SessionInv'
<1>1. /\ pc = "probe" /\ pc' = "dediprog" /\ candidates # << >>
      /\ UNCHANGED <<cmd, optind, operations, programmer_arg, chipname, write_strategy>>
      /\ UNCHANGED <<num_op, ctx, candidates, status, registered, targets, done>>
      /\ CallProbe /\ dpc' = "args"
  BY DEF ProbeDediprog, CallProbe, mainVars
<1>2. DediprogInv' /\ DediprogTypeOK'
  BY <1>1, CallProbeKeeps DEF SessionInv, DediprogInv, Phases
<1>3. SessionTypeOK'
  BY <1>1, <1>2 DEF SessionInv, SessionTypeOK
<1>4. Registered' /\ Phases' /\ ProgrammerChosen' /\ Powered' /\ ChipFound' /\ StrategySet'
  BY <1>1
     DEF SessionInv, Registered, Phases, Ordered, ProgrammerChosen, Powered, ChipFound, StrategySet
<1>5. StrategySoFar' /\ SuccessLeavesNoSupply'
  BY <1>1 DEF SessionInv, Phases, StrategySoFar, SuccessLeavesNoSupply
<1>. QED
  BY <1>2, <1>3, <1>4, <1>5 DEF SessionInv

LEMMA DediprogStepKeeps ==
    ASSUME SessionInv, DediprogStep
    PROVE  SessionInv'
<1>1. /\ pc = "dediprog" /\ pc' = pc
      /\ UNCHANGED <<cmd, optind, operations, programmer_arg, chipname, write_strategy>>
      /\ UNCHANGED <<num_op, ctx, candidates, status, registered, targets, done>>
      /\ ProbeStep(cmd)
  BY DEF DediprogStep, mainVars
<1>2. dpc # "probed"
  BY <1>1 DEF ProbeStep, ParseArguments, FindDevice, FirstSetup, SecondSetup, Setup, VoltageOff,
              VoltageOn, SetVoltage, SetSpeed
<1>3. /\ DediprogInv' /\ DediprogTypeOK'
      /\ dpc' = "probed" => \A d \in handle' : power'[d] = ddata'.millivolts
  BY <1>1, <1>2, CommandLineParts, ProbeStepKeeps DEF SessionInv, DediprogInv
<1>4. SessionTypeOK'
  BY <1>1, <1>3 DEF SessionInv, SessionTypeOK
<1>5. Registered' /\ Phases' /\ ProgrammerChosen' /\ Powered' /\ ChipFound' /\ StrategySet'
  BY <1>1, <1>3
     DEF SessionInv, Registered, Phases, Ordered, ProgrammerChosen, Powered, ChipFound, StrategySet
<1>6. StrategySoFar' /\ SuccessLeavesNoSupply'
  BY <1>1 DEF SessionInv, Phases, StrategySoFar, SuccessLeavesNoSupply
<1>. QED
  BY <1>3, <1>4, <1>5, <1>6 DEF SessionInv

LEMMA DediprogFailedKeeps ==
    ASSUME SessionInv, DediprogFailed
    PROVE  SessionInv'
<1>1. /\ pc = "dediprog" /\ dpc = "failed" /\ pc' = "probe"
      /\ candidates' = Tail(candidates)
      /\ UNCHANGED <<cmd, optind, operations, programmer_arg, chipname, write_strategy>>
      /\ UNCHANGED <<num_op, ctx, status, registered, targets, done>>
      /\ UNCHANGED dediprogVars /\ UNCHANGED <<dpc, ddata, handle, power, lost>>
  BY DEF DediprogFailed, mainVars, dediprogVars, deviceVars
<1>2. DediprogInv' /\ DediprogTypeOK'
  BY <1>1, DediprogStutterKeeps DEF SessionInv, DediprogInv
<1>3. candidates' \in Seq(Programmers)
  <2>1. candidates \in Seq(Programmers) /\ candidates # << >>
    BY <1>1 DEF SessionInv, Phases
  <2>. QED
    BY <1>1, <2>1, SMT
<1>4. candidates' \in Seq(Names \cup Chips)
  BY <1>3, SMT DEF Programmers, Names
<1>5. SessionTypeOK'
  BY <1>1, <1>2, <1>4 DEF SessionInv, SessionTypeOK
<1>6. Registered' /\ Phases' /\ ProgrammerChosen' /\ Powered' /\ ChipFound' /\ StrategySet'
  BY <1>1, <1>3
     DEF SessionInv, Registered, Phases, Ordered, ProgrammerChosen, Powered, ChipFound, StrategySet
<1>7. StrategySoFar' /\ SuccessLeavesNoSupply'
  BY <1>1 DEF SessionInv, Phases, StrategySoFar, SuccessLeavesNoSupply
<1>. QED
  BY <1>2, <1>5, <1>6, <1>7 DEF SessionInv
-----------------------------------------------------------------------------
(***************************************************************************)
(* The steps of op_set_chip.                                               *)
(***************************************************************************)
LEMMA SetChipKeeps ==
    ASSUME SessionInv, SetChip
    PROVE  SessionInv'
<1>1. /\ pc = "launch" /\ num_op <= Len(operations) /\ num_op = 2 /\ pc' = "rdid"
      /\ candidates' = OneOf(chipname, Chips, registered.chips)
      /\ UNCHANGED <<cmd, optind, operations, programmer_arg, chipname, write_strategy>>
      /\ UNCHANGED <<num_op, ctx, status, registered, targets, done>>
      /\ UNCHANGED dediprogVars /\ UNCHANGED <<dpc, ddata, handle, power, lost>>
  BY LaunchingAt DEF SetChip, Launching, dediprogVars, deviceVars, mainVars
<1>2. DediprogInv' /\ DediprogTypeOK'
  BY <1>1, DediprogStutterKeeps DEF SessionInv, DediprogInv
<1>3. candidates' \in Seq(Chips)
  <2>1. ASSUME chipname \in Chips PROVE <<chipname>> \in Seq(Chips)
    BY <2>1, SMT
  <2>2. << >> \in Seq(Chips)
    BY SMT
  <2>. QED
    BY <1>1, <2>1, <2>2 DEF OneOf, SessionInv, Registered
<1>4. candidates' \in Seq(Names \cup Chips)
  BY <1>3, SMT
<1>5. SessionTypeOK'
  BY <1>1, <1>2, <1>4 DEF SessionInv, SessionTypeOK
<1>6. num_op > 1
  BY <1>1, SMT
<1>7. Registered' /\ Phases' /\ ProgrammerChosen' /\ Powered' /\ ChipFound' /\ StrategySet'
  BY <1>1, <1>3, <1>6
     DEF SessionInv, Registered, Phases, Ordered, ProgrammerChosen, Powered, ChipFound, StrategySet
<1>8. StrategySoFar' /\ SuccessLeavesNoSupply'
  BY <1>1 DEF SessionInv, Phases, StrategySoFar, SuccessLeavesNoSupply
<1>. QED
  BY <1>2, <1>5, <1>7, <1>8 DEF SessionInv

LEMMA ChipNotFoundKeeps ==
    ASSUME SessionInv, ChipNotFound
    PROVE  SessionInv'
<1>1. /\ pc = "rdid" /\ num_op = 2 /\ Ordered
      /\ UNCHANGED mainVars /\ UNCHANGED <<ctx, candidates, registered, targets>>
      /\ UNCHANGED dediprogVars
      /\ Return("error")
  BY DEF ChipNotFound, SessionInv, Phases
<1>2. num_op <= Len(operations)
  BY <1>1, SMT DEF Ordered, SessionInv, SessionTypeOK
<1>3. num_op' \in Nat \ {0} /\ done' \in Seq(Kinds) /\ pc' = "exit" /\ status' = "error"
  BY <1>1, <1>2, Returns
<1>4. DediprogInv' /\ DediprogTypeOK'
  BY <1>1, DediprogStutterKeeps DEF SessionInv, DediprogInv
<1>5. SessionTypeOK' /\ Registered' /\ StrategySoFar' /\ SuccessLeavesNoSupply'
  BY <1>1, <1>3, <1>4, ReturnTypeKeeps DEF SessionInv, SessionTypeOK
<1>6. Phases' /\ ProgrammerChosen' /\ Powered' /\ ChipFound' /\ StrategySet'
  BY <1>3 DEF Phases, ProgrammerChosen, Powered, ChipFound, StrategySet
<1>. QED
  BY <1>4, <1>5, <1>6 DEF SessionInv

(* An entry finds its chip only behind an SF100 that supplies it.           *)
LEMMA IdentifiedIsSupplied ==
    ASSUME SessionInv, pc = "rdid", candidates # << >>, Identified
    PROVE  /\ ctx.mst = "dediprog"
           /\ \E d \in handle : Head(candidates) = targets[d]
<1>1. Head(candidates) \in Chips
  <2>1. candidates \in Seq(Chips)
    BY DEF SessionInv, Phases
  <2>. QED
    BY <2>1, SMT
<1>2. ctx.mst = "dediprog" /\ dpc = "probed"
  <2>1. ctx.mst # "dummy_spi"
    BY <1>1, EntriesAssumption DEF Identified, Answer
  <2>. QED
    BY <2>1 DEF SessionInv, ProgrammerChosen
<1>3. handle = {usedevice} /\ usedevice \in Device
  BY <1>2 DEF SessionInv, DediprogInv, DeviceOpen, Opened
<1>4. Answering # {}
  BY <1>1, <1>2, EntriesAssumption DEF Identified, Answer
<1>5. Answering = {targets[usedevice]} /\ targets[usedevice] # NoChip
  BY <1>3, <1>4 DEF Answering
<1>6. targets[usedevice] \in DOMAIN Answers
  BY <1>3, <1>5 DEF SessionInv, SessionTypeOK
<1>7. Answer = Answers[targets[usedevice]]
  BY <1>2, <1>4, <1>5 DEF Answer
<1>. QED
  BY <1>1, <1>2, <1>3, <1>6, <1>7, EntriesAssumption DEF Identified

LEMMA ProbeChipKeeps ==
    ASSUME SessionInv, ProbeChip
    PROVE  SessionInv'
<1>1. /\ pc = "rdid" /\ num_op = 2 /\ Ordered /\ candidates # << >> /\ candidates \in Seq(Chips)
      /\ ctx' = [ctx EXCEPT !.chip = Head(candidates)]
      /\ UNCHANGED mainVars /\ UNCHANGED <<registered, targets>>
      /\ UNCHANGED <<cmd, optind, operations, programmer_arg, chipname, write_strategy>>
      /\ UNCHANGED <<dpc, ddata, usedevice, handle, settled, firmware, power, speed>>
      /\ \/ Identified /\ Return("zero") /\ UNCHANGED <<candidates, lost>>
         \/ /\ candidates' = Tail(candidates)
            /\ lost' = (lost \/ Identified)
            /\ UNCHANGED <<pc, num_op, status, done>>
  BY DEF ProbeChip, SessionInv, Phases, mainVars, deviceVars
<1>2. lost' \in BOOLEAN /\ (lost => lost')
  <2>1. lost \in BOOLEAN
    BY DEF SessionInv, SessionTypeOK, DediprogTypeOK
  <2>2. Identified \in BOOLEAN
    BY Zenon DEF Identified, Finds
  <2>3. lost' = lost \/ lost' = (lost \/ Identified)
    BY <1>1, Zenon
  <2>4. CASE Identified
    BY <2>1, <2>3, <2>4, Zenon
  <2>5. CASE ~Identified
    BY <2>1, <2>3, <2>5, Zenon
  <2>. QED
    BY <2>2, <2>4, <2>5, Zenon
<1>3. DediprogInv' /\ DediprogTypeOK'
  BY <1>1, <1>2
     DEF SessionInv, DediprogInv, DediprogTypeOK, ArgumentsChecked, DeviceOpen, SwitchedOff,
         Clocked, SetUpAgain, TooOld
<1>4. Head(candidates) \in Chips /\ Tail(candidates) \in Seq(Chips)
  BY <1>1, SMT
<1>5. /\ ctx' \in [chip : Chips \cup {"NULL", "garbage"}, mst : Names \cup {"NULL", "garbage"},
                  write_strategy : Strategies \cup {"garbage"}]
      /\ ctx'.chip = Head(candidates) /\ ctx'.mst = ctx.mst
  BY <1>1, <1>4 DEF SessionInv, SessionTypeOK
<1>6. candidates' \in Seq(Names \cup Chips) /\ candidates' \in Seq(Chips)
  BY <1>1, <1>4, SMT
<1>7. num_op <= Len(operations) /\ num_op > 1
  BY <1>1, SMT DEF Ordered, SessionInv, SessionTypeOK
<1>8. CASE Identified /\ Return("zero")
  <2>1. /\ num_op' \in Nat \ {0} /\ done' \in Seq(Kinds)
        /\ pc' = "launch" /\ num_op' = num_op + 1 /\ status' = "none" /\ num_op' # 1
    BY <1>1, <1>7, <1>8, Returns
  <2>2. SessionTypeOK' /\ Registered' /\ StrategySoFar' /\ SuccessLeavesNoSupply'
    BY <1>1, <1>3, <1>5, <1>6, <2>1, ReturnTypeKeeps
  <2>3. ctx.mst = "dediprog" /\ \E d \in handle : Head(candidates) = targets[d]
    BY <1>1, <1>8, IdentifiedIsSupplied
  <2>4. ~(num_op' > 3)
    BY <1>1, <2>1, SMT
  <2>5. Phases' /\ ProgrammerChosen' /\ Powered' /\ ChipFound' /\ StrategySet'
    BY <1>1, <1>4, <1>5, <2>1, <2>3, <2>4
       DEF SessionInv, Phases, Ordered, ProgrammerChosen, Powered, ChipFound, StrategySet
  <2>. QED
    BY <1>3, <2>2, <2>5 DEF SessionInv
<1>9. CASE UNCHANGED <<pc, num_op, status, done>>
  <2>1. SessionTypeOK'
    BY <1>1, <1>3, <1>5, <1>6, <1>9 DEF SessionInv, SessionTypeOK
  <2>2. Registered' /\ Phases' /\ ProgrammerChosen' /\ Powered' /\ ChipFound' /\ StrategySet'
    BY <1>1, <1>5, <1>6, <1>9
       DEF SessionInv, Registered, Phases, Ordered, ProgrammerChosen, Powered, ChipFound,
           StrategySet
  <2>3. StrategySoFar' /\ SuccessLeavesNoSupply'
    BY <1>1, <1>9 DEF SessionInv, Phases, StrategySoFar, SuccessLeavesNoSupply
  <2>. QED
    BY <1>3, <2>1, <2>2, <2>3 DEF SessionInv
<1>. QED
  BY <1>1, <1>8, <1>9
-----------------------------------------------------------------------------
LEMMA SessionNextKeeps ==
    ASSUME SessionInv, Next
    PROVE  SessionInv'
  BY ParseOptionKeeps, EndOfOptionsKeeps, SetProgrammerKeeps, NoProgrammerKeeps, ProbedKeeps,
     ProbeDediprogKeeps, DediprogStepKeeps, DediprogFailedKeeps, SetChipKeeps, ChipNotFoundKeeps,
     ProbeChipKeeps, SetWriteStrategyKeeps, UseKeeps, EndOfOperationsKeeps
     DEF Next

(* SessionInv is inductive.                                                 *)
LEMMA SessionInvariant == Spec => []SessionInv
<1>1. Init => SessionInv
  BY SessionInitEstablishes
<1>2. SessionInv /\ [Next]_vars => SessionInv'
  BY SessionNextKeeps, SessionStutterKeeps
<1>. QED
  BY <1>1, <1>2, PTL DEF Spec

(***************************************************************************)
(* Type correctness of the program and of the SF100.                       *)
(***************************************************************************)
THEOREM SessionTypeCorrect == Spec => []SessionTypeOK
<1>1. SessionInv => SessionTypeOK
  BY DEF SessionInv
<1>. QED
  BY <1>1, SessionInvariant, PTL

-----------------------------------------------------------------------------
(***************************************************************************)
(* What ran.  The list main has built so far is what the options it has    *)
(* looked at ask for; what has returned 0 is the list up to the operation  *)
(* that is being carried out.                                              *)
(***************************************************************************)
Ran ==
    /\ num_op - 1 <= Len(operations)
    /\ Len(done) = num_op - 1
    /\ \A k \in 1..num_op - 1 : done[k] = operations[k]

WhatRanInv ==
    /\ pc = "options" => /\ optind - 1 <= Len(cmd.options)
                         /\ operations = Requests(cmd.options)[optind - 1]
                         /\ done = << >>
    /\ pc \notin {"options", "exit"} => operations = Requested /\ Ran
    /\ ExitStatusTellsWhatRan

Requesting(options, k, list) ==
    IF options[k] \in OperationOptions THEN Append(list, Operation(options[k])) ELSE list

(* The recursion equation of Requests: there is a function that solves it.  *)
LEMMA RequestsEquation ==
    ASSUME NEW options \in Seq(Options)
    PROVE  /\ Requests(options) \in [0..Len(options) -> Seq(Uses)]
           /\ Requests(options)[0] = << >>
           /\ \A k \in 1..Len(options) :
                  Requests(options)[k] = Requesting(options, k, Requests(options)[k - 1])
<1> DEFINE n == Len(options)
           Solution(f) == f = [k \in 0..n |-> IF k = 0 THEN << >>
                                             ELSE Requesting(options, k, f[k - 1])]
           step == [k \in 1..n |-> [list \in Seq(Uses) |-> Requesting(options, k, list)]]
<1>1. n \in Nat /\ << >> \in Seq(Uses)
  BY SMT
<1>2. \A k \in 1..n : \A list \in Seq(Uses) : Requesting(options, k, list) \in Seq(Uses)
  <2>1. \A o \in OperationOptions : Operation(o) \in Uses
    BY DEF OperationOptions, Operation, Uses
  <2>. QED
    BY <2>1, SMT DEF Requesting
<1>3. step \in [1..n -> [Seq(Uses) -> Seq(Uses)]]
  BY <1>2
<1>4. ASSUME NEW k \in 1..n, NEW list \in Seq(Uses)
      PROVE  step[k][list] = Requesting(options, k, list)
  BY <1>4
<1> HIDE DEF n, step
<1>5. PICK f \in [0..n -> Seq(Uses)] :
          f[0] = << >> /\ \A k \in 1..n : f[k] = step[k][f[k - 1]]
  <2>1. PICK S, start, steps, m : S = Seq(Uses) /\ start = << >> /\ steps = step /\ m = n
    OBVIOUS
  <2>2. m \in Nat /\ start \in S /\ steps \in [1..m -> [S -> S]]
    BY <1>1, <1>3, <2>1
  <2>3. \E f \in [0..m -> S] : f[0] = start /\ \A k \in 1..m : f[k] = steps[k][f[k - 1]]
    BY <2>2, StepByStep, SMT
  <2>. QED
    BY <2>1, <2>3
<1>6. ASSUME NEW k \in 0..n
      PROVE  f[k] = IF k = 0 THEN << >> ELSE Requesting(options, k, f[k - 1])
  <2>1. CASE k = 0
    BY <1>5, <2>1
  <2>2. CASE k # 0
    <3>1. k \in 1..n /\ k - 1 \in 0..n
      BY <1>1, <2>2, SMT
    <3>2. f[k - 1] \in Seq(Uses)
      BY <3>1
    <3>. QED
      BY <1>4, <1>5, <2>2, <3>1, <3>2
  <2>. QED
    BY <2>1, <2>2
<1>7. Solution(f)
  BY <1>6
<1> DEFINE chosen == CHOOSE g : Solution(g)
<1>8. Requests(options) = chosen
  BY Zenon DEF Requests, Requesting, n
<1>9. Solution(chosen)
  BY <1>7, Zenon
<1>. HIDE DEF chosen
<1>10. \A k \in 0..n : chosen[k] = IF k = 0 THEN << >> ELSE Requesting(options, k, chosen[k - 1])
  BY <1>9, Zenon
<1>11. /\ 0 \in 0..n /\ \A k \in 1..n : k \in 0..n /\ k # 0
       /\ \A k \in 0..n : k # 0 => k \in 1..n /\ k - 1 \in 0..n
  BY <1>1, SMT
<1>12. /\ chosen[0] = << >>
       /\ \A k \in 1..n : chosen[k] = Requesting(options, k, chosen[k - 1])
  BY <1>10, <1>11
<1>13. chosen \in [0..n -> Seq(Uses)]
  <2> DEFINE Astray == {k \in 0..n : chosen[k] \notin Seq(Uses)}
  <2>1. ASSUME Astray # {}
        PROVE  FALSE
    <3>1. Astray \in SUBSET Nat
      BY <1>1, SMT
    <3>2. PICK k \in Astray : \A j \in Astray : k <= j
      BY <2>1, <3>1, LeastNumber
    <3>3. k # 0
      <4>1. chosen[k] \notin Seq(Uses)
        BY <3>2
      <4>. QED
        BY <1>1, <1>12, <4>1, Zenon
    <3>4. k \in 1..n /\ k - 1 \in 0..n /\ ~(k <= k - 1)
      BY <1>11, <3>2, <3>3, SMT
    <3>5. chosen[k - 1] \in Seq(Uses)
      BY <3>2, <3>4
    <3>6. chosen[k] = Requesting(options, k, chosen[k - 1])
      BY <1>12, <3>4
    <3>. QED
      BY <1>2, <3>2, <3>4, <3>5, <3>6
  <2>. QED
    BY <1>9, <2>1
<1>. QED
  BY <1>8, <1>12, <1>13 DEF n

(* What the list main builds is made of.                                    *)
LEMMA SettingsFirst ==
    ASSUME NEW list \in Seq(Uses)
    PROVE  Settings(list) = <<"SET_PROGRAMMER", "SET_CHIP", "SET_WRITE_STRATEGY">> \o list
  BY SMT DEF Settings, operation_add, Uses

LEMMA WhatRanInitEstablishes ==
    ASSUME SessionInv, Init
    PROVE  WhatRanInv
<1>1. pc = "options" /\ optind = 1 /\ operations = << >> /\ done = << >> /\ status = "none"
  BY DEF Init
<1>2. cmd.options \in Seq(Options)
  BY CommandLineParts
<1>3. optind - 1 = 0 /\ optind - 1 <= Len(cmd.options)
  BY <1>1, <1>2, SMT
<1>. QED
  BY <1>1, <1>2, <1>3, RequestsEquation DEF WhatRanInv, ExitStatusTellsWhatRan

LEMMA ParseOptionRan ==
    ASSUME SessionInv, WhatRanInv, ParseOption
    PROVE  WhatRanInv'
<1>1. /\ pc = "options" /\ pc' = "options" /\ optind <= Len(cmd.options) /\ optind' = optind + 1
      /\ UNCHANGED <<cmd, status, done>>
      /\ operations' = Requesting(cmd.options, optind, operations)
  BY DEF ParseOption, operation_add_tail, Requesting
<1>2. /\ cmd.options \in Seq(Options) /\ optind \in Nat \ {0} /\ status = "none"
      /\ operations = Requests(cmd.options)[optind - 1] /\ done = << >>
  BY <1>1, CommandLineParts DEF SessionInv, SessionTypeOK, Phases, WhatRanInv
<1>3. optind \in 1..Len(cmd.options) /\ optind' - 1 = optind /\ optind' - 1 <= Len(cmd.options)
  BY <1>1, <1>2, SMT
<1>4. Requests(cmd.options)[optind] = operations'
  BY <1>1, <1>2, <1>3, RequestsEquation
<1>. QED
  BY <1>1, <1>2, <1>3, <1>4 DEF WhatRanInv, ExitStatusTellsWhatRan

LEMMA EndOfOptionsRan ==
    ASSUME SessionInv, WhatRanInv, EndOfOptions
    PROVE  WhatRanInv'
<1>1. /\ pc = "options" /\ optind > Len(cmd.options)
      /\ UNCHANGED <<cmd, num_op, done>>
      /\ \/ pc' = "exit" /\ status' = "error"
         \/ pc' = "launch" /\ operations' = Settings(operations) /\ status' = status
  BY DEF EndOfOptions
<1>2. /\ cmd.options \in Seq(Options) /\ optind \in Nat \ {0} /\ status = "none" /\ num_op = 1
      /\ operations \in Seq(Uses) /\ done = << >>
      /\ operations = Requests(cmd.options)[optind - 1] /\ optind - 1 <= Len(cmd.options)
  BY <1>1, CommandLineParts DEF SessionInv, SessionTypeOK, Phases, WhatRanInv
<1>3. optind - 1 = Len(cmd.options)
  BY <1>1, <1>2, SMT
<1>4. Requested = Settings(operations)
  BY <1>2, <1>3, SettingsFirst DEF Requested
<1>5. Requested' = Requested
  BY <1>1 DEF Requested
<1>6. Settings(operations) \in Seq(Kinds) /\ Len(Settings(operations)) >= 3
  BY <1>2, ListOfSettings
<1>7. CASE pc' = "exit" /\ status' = "error"
  <2>1. IsStrictPrefix(<< >>, Requested)
    BY <1>4, <1>6, SMT DEF IsStrictPrefix, IsPrefix
  <2>. QED
    BY <1>1, <1>2, <1>5, <1>7, <2>1 DEF WhatRanInv, ExitStatusTellsWhatRan
<1>8. CASE pc' = "launch" /\ operations' = Settings(operations) /\ status' = status
  <2>1. /\ num_op' - 1 = 0 /\ num_op' - 1 <= Len(operations') /\ Len(done') = num_op' - 1
        /\ \A k \in 1..num_op' - 1 : FALSE
    BY <1>1, <1>2, <1>6, <1>8, SMT
  <2>. QED
    BY <1>2, <1>4, <1>5, <1>8, <2>1 DEF WhatRanInv, Ran, ExitStatusTellsWhatRan
<1>. QED
  BY <1>1, <1>7, <1>8

(* The end of an operation.                                                 *)
LEMMA ReturnRan ==
    ASSUME SessionInv, WhatRanInv, UNCHANGED <<cmd, operations>>,
           pc \notin {"options", "exit"}, num_op <= Len(operations),
           NEW ret \in {"zero", "error"}, Return(ret)
    PROVE  WhatRanInv'
<1>1. /\ operations = Requested /\ Requested' = Requested
      /\ num_op \in Nat \ {0} /\ operations \in Seq(Kinds) /\ done \in Seq(Kinds)
      /\ Ran /\ status = "none"
  BY DEF WhatRanInv, SessionInv, SessionTypeOK, Phases, Requested
<1>2. CASE ret = "zero"
  <2>1. /\ pc' = "launch" /\ num_op' = num_op + 1 /\ status' = status
        /\ done' = Append(done, operations[num_op])
    BY <1>2 DEF Return
  <2>2. Len(done') = num_op /\ done'[num_op] = operations[num_op] /\ num_op' - 1 = num_op
    BY <1>1, <2>1, SMT DEF Ran
  <2>3. ASSUME NEW k \in 1..num_op
        PROVE  done'[k] = operations[k]
    <3>1. CASE k = num_op
      BY <2>2, <3>1
    <3>2. CASE k # num_op
      <4>1. k \in 1..num_op - 1 /\ k \in 1..Len(done)
        BY <1>1, <3>2, SMT DEF Ran
      <4>2. done'[k] = done[k]
        BY <1>1, <2>1, <4>1, SMT
      <4>. QED
        BY <1>1, <4>1, <4>2 DEF Ran
    <3>. QED
      BY <3>1, <3>2
  <2>. QED
    BY <1>1, <2>1, <2>2, <2>3 DEF WhatRanInv, Ran, ExitStatusTellsWhatRan
<1>3. CASE ret = "error"
  <2>1. pc' = "exit" /\ status' = "error" /\ done' = done
    BY <1>3 DEF Return
  <2>2. Len(done) < Len(operations) /\ \A k \in 1..Len(done) : done[k] = operations[k]
    BY <1>1, SMT DEF Ran
  <2>3. done = SubSeq(operations, 1, Len(done)) /\ done # operations
    BY <1>1, <2>2, SMT
  <2>4. IsStrictPrefix(done, operations)
    BY <1>1, <2>2, <2>3, SMT DEF IsStrictPrefix, IsPrefix
  <2>. QED
    BY <1>1, <2>1, <2>4 DEF WhatRanInv, ExitStatusTellsWhatRan
<1>. QED
  BY <1>2, <1>3

LEMMA EndOfOperationsRan ==
    ASSUME SessionInv, WhatRanInv, EndOfOperations
    PROVE  WhatRanInv'
<1>1. /\ pc = "launch" /\ num_op > Len(operations) /\ pc' = "exit" /\ status' = "zero"
      /\ UNCHANGED <<cmd, operations, done>>
  BY DEF EndOfOperations, mainVars
<1>2. /\ operations = Requested /\ Requested' = Requested
      /\ num_op \in Nat \ {0} /\ operations \in Seq(Kinds) /\ done \in Seq(Kinds) /\ Ran
  BY <1>1 DEF WhatRanInv, SessionInv, SessionTypeOK, Requested
<1>3. Len(done) = Len(operations) /\ \A k \in 1..Len(operations) : done[k] = operations[k]
  BY <1>1, <1>2, SMT DEF Ran
<1>4. done = operations
  BY <1>2, <1>3, SMT
<1>. QED
  BY <1>1, <1>2, <1>4 DEF WhatRanInv, ExitStatusTellsWhatRan

(* A step within an operation, and one that does nothing.                   *)
LEMMA WithinOperationRan ==
    ASSUME SessionInv, WhatRanInv, UNCHANGED <<cmd, optind, operations, num_op, status, done>>,
           pc' = pc \/ {pc, pc'} \subseteq {"launch", "probe", "dediprog", "rdid"}
    PROVE  WhatRanInv'
<1>1. Requested' = Requested
  BY DEF Requested
<1>. QED
  BY <1>1 DEF WhatRanInv, Ran, ExitStatusTellsWhatRan

LEMMA WhatRanKeeps ==
    ASSUME SessionInv, WhatRanInv, [Next]_vars
    PROVE  WhatRanInv'
<1>1. CASE ParseOption \/ EndOfOptions \/ EndOfOperations
  BY <1>1, ParseOptionRan, EndOfOptionsRan, EndOfOperationsRan
<1>2. CASE UNCHANGED vars
  BY <1>2, WithinOperationRan DEF vars, mainVars
<1>3. CASE SetProgrammer \/ ProbeDediprog \/ DediprogStep \/ DediprogFailed \/ SetChip
  <2>1. /\ UNCHANGED <<cmd, optind, operations, num_op, status, done>>
        /\ {pc, pc'} \subseteq {"launch", "probe", "dediprog", "rdid"}
    BY <1>3 DEF SetProgrammer, ProbeDediprog, DediprogStep, DediprogFailed, SetChip, Launching,
                mainVars
  <2>. QED
    BY <2>1, WithinOperationRan
<1>4. num_op = 1 \/ num_op = 2 => (pc \notin {"options", "exit"} => num_op <= Len(operations))
  BY SMT DEF SessionInv, SessionTypeOK, Phases, Ordered
<1>5. CASE NoProgrammer \/ ProbeDummy \/ DediprogProbed \/ ChipNotFound
  <2>1. /\ UNCHANGED <<cmd, operations>> /\ pc \notin {"options", "exit"}
        /\ num_op = 1 \/ num_op = 2
        /\ Return("zero") \/ Return("error")
    BY <1>5 DEF NoProgrammer, ProbeDummy, DediprogProbed, ChipNotFound, SessionInv, Phases, mainVars
  <2>. QED
    BY <1>4, <2>1, ReturnRan
<1>6. CASE SetWriteStrategy \/ Use
  <2>1. /\ UNCHANGED <<cmd, operations>> /\ pc \notin {"options", "exit"}
        /\ num_op <= Len(operations)
        /\ Return("zero") \/ Return("error")
    BY <1>6 DEF SetWriteStrategy, Use, Launching, mainVars
  <2>. QED
    BY <2>1, ReturnRan
<1>7. CASE ProbeChip
  <2>1. /\ UNCHANGED <<cmd, optind, operations>> /\ pc = "rdid" /\ num_op = 2
        /\ Return("zero") \/ UNCHANGED <<pc, num_op, status, done>>
    BY <1>7 DEF ProbeChip, SessionInv, Phases, mainVars
  <2>. QED
    BY <1>4, <2>1, ReturnRan, WithinOperationRan
<1>. QED
  BY <1>1, <1>2, <1>3, <1>5, <1>6, <1>7 DEF Next

(***************************************************************************)
(* main and operations_launch: for every command line, a run that returns  *)
(* 0 has carried out the three settings and every operation asked for, in  *)
(* the order of the options; any other has stopped before the end, and     *)
(* what it did is the beginning of that list.                              *)
(***************************************************************************)
THEOREM ExitStatusIsTrue == Spec => []ExitStatusTellsWhatRan
<1>1. SessionInv /\ Init => WhatRanInv
  BY WhatRanInitEstablishes
<1>2. SessionInv /\ WhatRanInv /\ [Next]_vars => WhatRanInv'
  BY WhatRanKeeps
<1>3. WhatRanInv => ExitStatusTellsWhatRan
  BY DEF WhatRanInv
<1>. QED
  BY <1>1, <1>2, <1>3, SessionInvariant, PTL DEF Spec
-----------------------------------------------------------------------------
LEMMA UsedIsSupplied ==
    ASSUME SessionInv, pc = "launch", num_op > 3, num_op > 2, num_op > 1
    PROVE  Supplied /\ StrategyAsNamed
<1>1. ctx.mst = "dediprog" /\ dpc = "probed" /\ \E d \in handle : ctx.chip = targets[d]
  BY DEF SessionInv, ChipFound, ProgrammerChosen
<1>2. /\ settled /\ ddata.millivolts > 0
      /\ TooOld \/ \A d \in handle : speed[d] = ddata.speed_hz
  BY <1>1 DEF SessionInv, DediprogInv, ArgumentsChecked, Clocked, SetUpAgain, Opened
<1>3. \A d \in handle : power[d] = ddata.millivolts
  BY <1>1 DEF SessionInv, Powered
<1>4. Supplied
  BY <1>1, <1>2, <1>3 DEF Supplied
<1>5. StrategyAsNamed
  <2>1. /\ ctx.write_strategy = write_strategy /\ optind > Len(cmd.options)
        /\ optind \in Nat /\ cmd.options \in Seq(Options)
    BY CommandLineParts DEF SessionInv, StrategySet, StrategySoFar, SessionTypeOK
  <2>2. \A k \in DOMAIN cmd.options : k < optind
    BY <2>1, SMT
  <2>. QED
    BY <2>1, <2>2 DEF SessionInv, StrategySoFar, StrategyAsNamed
<1>. QED
  BY <1>4, <1>5

(***************************************************************************)
(* operations_launch: a chip is probed only through a probed programmer,   *)
(* and used only when it answered, supplied, clocked and with the strategy *)
(* that was named, whatever the command line and the messages lost.        *)
(***************************************************************************)
THEOREM UsesOnlyWhatWasProbed == Spec => []OnlyProbedIsUsed
<1>1. SessionInv => OnlyProbedIsUsed
  <2>1. SUFFICES ASSUME SessionInv PROVE OnlyProbedIsUsed
    OBVIOUS
  <2>2. pc = "rdid" => ctx.mst = "dummy_spi" \/ (ctx.mst = "dediprog" /\ dpc = "probed")
    BY <2>1 DEF SessionInv, ProgrammerChosen
  <2>3. ASSUME Launching(Uses) \/ (pc = "launch" /\ num_op > Len(operations))
        PROVE  pc = "launch" /\ num_op > 3 /\ num_op > 2 /\ num_op > 1
    <3>1. pc = "launch" /\ num_op \in Nat /\ operations \in Seq(Kinds) /\ Len(operations) >= 3
      BY <2>1, <2>3 DEF Launching, SessionInv, SessionTypeOK, Phases, Ordered
    <3>2. num_op > 3
      BY <2>1, <2>3, <3>1, LaunchingAt, SMT DEF Launching
    <3>. QED
      BY <3>1, <3>2, SMT
  <2>. QED
    BY <2>1, <2>2, <2>3, UsedIsSupplied DEF OnlyProbedIsUsed
<1>. QED
  BY <1>1, SessionInvariant, PTL

(***************************************************************************)
(* operations_launch and dediprog_shutdown: a run that returns 0 leaves no *)
(* target supplied, unless a message was lost.                             *)
(***************************************************************************)
THEOREM SuccessSwitchesOff == Spec => []SuccessLeavesNoSupply
<1>1. SessionInv => SuccessLeavesNoSupply
  BY DEF SessionInv
<1>. QED
  BY <1>1, SessionInvariant, PTL

(***************************************************************************)
(* dediprog_probe and dediprog_shutdown: no step switches a target from    *)
(* one voltage to another, or changes the speed of one that is supplied.   *)
(***************************************************************************)
LEMMA StepCyclesSupply ==
    ASSUME SessionInv, [Next]_vars
    PROVE  [\A d \in Device : /\ power'[d] # power[d] => power[d] = 0 \/ power'[d] = 0
                              /\ speed'[d] # speed[d] => power[d] = 0]_dediprogVars
<1>1. /\ handle \subseteq Device
      /\ power \in [Device -> spi_voltages \cup OldPower] /\ speed \in [Device -> spi_speeds \cup {0}]
  BY DEF SessionInv, DediprogInv, DediprogTypeOK
<1>2. ASSUME UNCHANGED <<power, speed>>
      PROVE  \A d \in Device : /\ power'[d] # power[d] => power[d] = 0 \/ power'[d] = 0
                               /\ speed'[d] # speed[d] => power[d] = 0
  BY <1>2
<1>3. CASE DediprogStep
  <2>1. ProbeStep(cmd)
    BY <1>3 DEF DediprogStep
  <2>2. CASE ParseArguments(cmd) \/ FindDevice \/ FirstSetup \/ SecondSetup
    BY <1>2, <2>2 DEF ParseArguments, FindDevice, FirstSetup, SecondSetup, Setup, deviceVars
  <2>3. CASE VoltageOff
    BY <1>1, <2>3, SMT DEF VoltageOff, SetVoltage, Supply
  <2>4. CASE SetSpeed
    <3>1. \A d \in handle : power[d] = 0
      BY <2>4 DEF SetSpeed, SessionInv, DediprogInv, SwitchedOff
    <3>. QED
      BY <1>1, <2>4, <3>1, SMT DEF SetSpeed, Clock
  <2>5. CASE VoltageOn
    <3>1. \A d \in handle : power[d] = 0
      BY <2>5 DEF VoltageOn, SetVoltage, SessionInv, DediprogInv, SwitchedOff
    <3>. QED
      BY <1>1, <2>5, <3>1, SMT DEF VoltageOn, SetVoltage, Supply
  <2>. QED
    BY <2>1, <2>2, <2>3, <2>4, <2>5 DEF ProbeStep
<1>4. CASE EndOfOperations
  <2>1. CASE Shutdown
    BY <1>1, <2>1, SMT DEF Shutdown, Supply
  <2>. QED
    BY <1>4, <2>1 DEF EndOfOperations
<1>5. CASE ~DediprogStep /\ ~EndOfOperations /\ Next
  <2>1. UNCHANGED <<power, speed>>
    BY <1>5
       DEF Next, ParseOption, EndOfOptions, SetProgrammer, NoProgrammer, ProbeDummy, ProbeDediprog,
           DediprogProbed, DediprogFailed, SetChip, ChipNotFound, ProbeChip, SetWriteStrategy, Use,
           CallProbe, dediprogVars, deviceVars
  <2>. QED
    BY <1>2, <2>1
<1>6. CASE UNCHANGED vars
  BY <1>6 DEF vars
<1>. QED
  BY <1>3, <1>4, <1>5, <1>6

(***************************************************************************)
(* The same of every behaviour: what a previous run left switched on is    *)
(* switched off before the speed is set and another voltage supplied.      *)
(***************************************************************************)
THEOREM SupplyAlwaysCycled == Spec => SupplyIsCycled
  BY SessionInvariant, StepCyclesSupply, PTL DEF Spec, SupplyIsCycled
=============================================================================
