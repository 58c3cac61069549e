------------------------------ MODULE Dediprog ------------------------------
(***************************************************************************)
(* programmer/dediprog.c between its probe and its shutdown: which SF100   *)
(* is opened, and the order in which the supply of its target is switched  *)
(* off, the speed set, the device set up again and the supply switched on. *)
(*                                                                         *)
(* Every control message may fail, and one that fails may or may not have  *)
(* reached the device.  The LEDs, whose messages may fail unnoticed, are   *)
(* left out.                                                               *)
(***************************************************************************)
EXTENDS Params, FiniteSets

CONSTANTS
    Devices,    \* how many SF100 are connected
    OldPower    \* supplies, in mV, a previous run may have left switched on

ASSUME DevicesAssumption == Devices \in Nat /\ OldPower \subseteq Nat

Device == 0..Devices - 1

spi_voltages == {0, 1800, 2500, 3500}
spi_speeds == {375000, 750000, 1500000, 2180000, 3000000, 8000000, 12000000, 24000000}

VARIABLES
    dpc,            \* where dediprog_probe is
    ddata,          \* struct dediprog_data: [millivolts, speed_hz]
    usedevice,      \* local: the number of the device to use
    handle,         \* the SF100 that is open, as a set
    firmware,       \* of each SF100: "old" before 5.0.0, else "new"
    power,          \* of each SF100: the supply of its target in mV
    speed,          \* of each SF100: the speed of its bus, 0 if never set
    settled,        \* the device was set up after the last change of speed
    lost            \* auxiliary: some control message has failed

deviceVars == <<firmware, power, speed>>
dediprogVars == <<dpc, ddata, usedevice, handle, settled, lost, deviceVars>>

ProbeSteps == {"args", "find", "setup", "off", "speed", "again", "on"}

DediprogTypeOK ==
    /\ dpc \in ProbeSteps \cup {"idle", "probed", "failed"}
    /\ ddata \in [millivolts : Int, speed_hz : Int]
    /\ usedevice \in Int
    /\ handle \subseteq Device /\ Cardinality(handle) <= 1
    /\ firmware \in [Device -> {"old", "new"}]
    /\ power \in [Device -> spi_voltages \cup OldPower]
    /\ speed \in [Device -> spi_speeds \cup {0}]
    /\ settled \in BOOLEAN
    /\ lost \in BOOLEAN

DediprogInit ==
    /\ dpc = "idle"
    /\ ddata = [millivolts |-> 0, speed_hz |-> 0]
    /\ usedevice = 0
    /\ handle = {}
    /\ firmware \in [Device -> {"old", "new"}]
    /\ power \in [Device -> {0} \cup OldPower]
    /\ speed = [d \in Device |-> 0]
    /\ settled = FALSE
    /\ lost = FALSE

ProbeFails == dpc' = "failed"
-----------------------------------------------------------------------------
(***************************************************************************)
(* dediprog_probe.  The arguments come first: a speed or voltage that is   *)
(* not in the tables, or a device that is not a number, is refused.        *)
(***************************************************************************)
CallProbe ==
    /\ dpc' = "args"
    /\ UNCHANGED <<ddata, usedevice, handle, settled, lost, deviceVars>>

(* Mutant: the tables of speeds and voltages are not consulted.             *)
ParseArguments_Unchecked(args) ==
    /\ dpc = "args"
    /\ ddata' = [millivolts |-> ChosenMillivolts(args.voltage, 3500),
                 speed_hz   |-> ChosenHz(args.hz, 12000000)]
    /\ usedevice' = ChosenDevice(args.device)
    /\ dpc' = "find"
    /\ UNCHANGED <<handle, settled, lost, deviceVars>>

ParseArguments(args) ==
    /\ dpc = "args"
    /\ ddata' = [millivolts |-> ChosenMillivolts(args.voltage, 3500),
                 speed_hz   |-> ChosenHz(args.hz, 12000000)]
    /\ usedevice' = ChosenDevice(args.device)
    /\ IF \/ ddata'.speed_hz \notin spi_speeds
          \/ ddata'.millivolts \notin spi_voltages
          \/ usedevice' < 0
       THEN ProbeFails
       ELSE dpc' = "find"
    /\ UNCHANGED <<handle, settled, lost, deviceVars>>

(* Found, opened, configured and claimed, or closed again.                  *)
FindDevice ==
    /\ dpc = "find"
    /\ \/ usedevice \in Device /\ handle' = {usedevice} /\ dpc' = "setup"
       \/ UNCHANGED handle /\ ProbeFails
    /\ UNCHANGED <<ddata, usedevice, settled, lost, deviceVars>>

(***************************************************************************)
(* dediprog_setup: command A twice, device string, chip select.            *)
(***************************************************************************)
Setup(here, next) ==
    /\ dpc = here
    /\ \/ dpc' = next /\ settled' = TRUE /\ UNCHANGED lost
       \/ ProbeFails /\ lost' = TRUE /\ UNCHANGED settled
    /\ UNCHANGED <<ddata, usedevice, handle, deviceVars>>

(***************************************************************************)
(* dediprog_set_spi_voltage.                                               *)
(***************************************************************************)
Supply(mV) == power' = [d \in Device |-> IF d \in handle THEN mV ELSE power[d]]

SetVoltage(here, mV, next) ==
    /\ dpc = here
    /\ \/ dpc' = next /\ Supply(mV) /\ UNCHANGED lost
       \/ /\ ProbeFails
          /\ lost' = TRUE
          /\ Supply(mV) \/ UNCHANGED power
    /\ UNCHANGED <<ddata, usedevice, handle, settled, firmware, speed>>

(***************************************************************************)
(* dediprog_set_spi_speed: with an old firmware nothing is sent.           *)
(***************************************************************************)
TooOld == \A d \in handle : firmware[d] = "old"

Clock == /\ speed' = [d \in Device |-> IF d \in handle THEN ddata.speed_hz ELSE speed[d]]
         /\ settled' = FALSE

SetSpeed ==
    /\ dpc = "speed"
    /\ \/ TooOld /\ dpc' = "again" /\ UNCHANGED <<speed, settled, lost>>
       \/ ~TooOld /\ dpc' = "again" /\ Clock /\ UNCHANGED lost
       \/ /\ ~TooOld
          /\ ProbeFails
          /\ lost' = TRUE
          /\ Clock \/ UNCHANGED <<speed, settled>>
    /\ UNCHANGED <<ddata, usedevice, handle, firmware, power>>

FirstSetup == Setup("setup", "off")

(* Mutant: the supply is not switched off before the speed is set.          *)
VoltageOff_Forgotten ==
    /\ dpc = "off"
    /\ dpc' = "speed"
    /\ UNCHANGED <<ddata, usedevice, handle, settled, lost, deviceVars>>

VoltageOff == SetVoltage("off", 0, "speed")

SecondSetup == Setup("again", "on")
VoltageOn == SetVoltage("on", ddata.millivolts, "probed")

ProbeStep(args) ==
    \/ ParseArguments(args) \/ FindDevice
    \/ FirstSetup \/ VoltageOff \/ SetSpeed \/ SecondSetup \/ VoltageOn

(***************************************************************************)
(* dediprog_shutdown switches the supply off and does not look whether     *)
(* that worked.                                                            *)
(***************************************************************************)
Shutdown ==
    /\ \/ Supply(0) /\ UNCHANGED lost
       \/ UNCHANGED power /\ lost' = TRUE
    /\ UNCHANGED <<dpc, ddata, usedevice, handle, settled, firmware, speed>>
-----------------------------------------------------------------------------
(***************************************************************************)
(* A target is never switched from one voltage to another directly, and    *)
(* the speed of its bus changes only while it has no supply                *)
(* (dediprog.c:800-811), whatever a previous run left switched on.         *)
(***************************************************************************)
SupplyIsCycled ==
    [][\A d \in Device : /\ power'[d] # power[d] => power[d] = 0 \/ power'[d] = 0
                         /\ speed'[d] # speed[d] => power[d] = 0]_dediprogVars
=============================================================================
