------------------------------- MODULE Params -------------------------------
(***************************************************************************)
(* The parameters of a programmer as the user writes them,                 *)
(* "dediprog:voltage=1.8V:device=1", and what the program makes of them:   *)
(* extract_param (lib/params.c) and the parsing of voltages, frequencies   *)
(* (programmer/spi_programmer.c) and device numbers (programmer/           *)
(* dediprog.c).                                                            *)
(*                                                                         *)
(* A text is a number, in thousandths so that 1.8 is 1800, the unit behind *)
(* it and its length in characters; a parameter that is not written has    *)
(* length 0.                                                               *)
(***************************************************************************)
EXTENDS Integers

Units == {"", "V", "Volt", "mV", "milliVolt", "M", "k", "MHz", "kHz", "Hz", "x"}

Text == [number : Nat, unit : Units, chars : Nat]

Absent == [number |-> 0, unit |-> "", chars |-> 0]
Written(t) == t.chars > 0

(***************************************************************************)
(* extract_param: the value, as a set that is empty for NULL.  A value of  *)
(* one character is not found: strlen(s) > parlen + 2 (params.c:37).       *)
(***************************************************************************)
extract_param(t) == IF t.chars >= 2 THEN {t} ELSE {}

(***************************************************************************)
(* The unit as sscanf's %2c takes it, and strcasecmp compares it: at most  *)
(* two characters.  Behind a number without a unit there is nothing to     *)
(* take, and the conversion fails.                                         *)
(***************************************************************************)
TwoChars(unit) ==
    CASE unit = "V"                    -> "v"
      [] unit = "mV"                   -> "mv"
      [] unit = "Volt"                 -> "vo"
      [] unit = "milliVolt"            -> "mi"
      [] unit = "M"                    -> "m"
      [] unit = "k"                    -> "k"
      [] unit = "MHz"                  -> "mh"
      [] unit = "kHz"                  -> "kh"
      [] unit = "Hz"                   -> "hz"
      [] OTHER                         -> ""

(* In millivolts, -1 for a text that is not understood.                     *)
parse_voltage(t) ==
    CASE TwoChars(t.unit) = "mv" -> t.number \div 1000
      [] TwoChars(t.unit) = "v"  -> t.number
      [] OTHER                   -> -1

(* In Hz.  "mhz" and "khz" have three characters and are never seen.        *)
parse_freq(t) ==
    CASE TwoChars(t.unit) = "hz" -> t.number \div 1000
      [] OTHER                   -> -1

(***************************************************************************)
(* spi_programmer_extract_params: a value that is absent, not understood   *)
(* or not positive leaves the default.                                     *)
(***************************************************************************)
Chosen(values, default) ==
    IF \E v \in values : v > 0 THEN CHOOSE v \in values : v > 0 ELSE default

ChosenMillivolts(t, default) == Chosen({parse_voltage(v) : v \in extract_param(t)}, default)
ChosenHz(t, default)         == Chosen({parse_freq(v) : v \in extract_param(t)}, default)

(***************************************************************************)
(* device=...: -1 for anything that is not a number of a device.           *)
(***************************************************************************)
ChosenDevice(t) ==
    IF extract_param(t) = {} THEN 0
    ELSE IF t.unit # "" THEN -1
    ELSE t.number \div 1000
=============================================================================
