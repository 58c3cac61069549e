----------------------------- MODULE MCSession ------------------------------
(***************************************************************************)
(* Session with two SF100, one of which may still supply its target from a *)
(* previous run, and the two chips of the repository.                      *)
(***************************************************************************)
EXTENDS Session

MCDevices == 2
MCOldPower == {2500}
MCChips == {"w25q64w", "mx25u12835f"}

(* manufacture_id, model_id and the bytes that RDID returns.                *)
MCEntries == [chip \in MCChips |->
    [probe |-> "rdid", manufacture_id |-> IF chip = "w25q64w" THEN 239 ELSE 194,
                       model_id       |-> IF chip = "w25q64w" THEN 24599 ELSE 9527]]
(* The target may also be one the program does not know, of the same vendor.*)
MCAnswers == [chip \in MCChips \cup {"w25q128w"} |->
    [Floating EXCEPT !.RDID = CASE chip = "w25q64w"     -> <<239, 96, 23, 239>>
                                [] chip = "w25q128w"    -> <<239, 96, 24, 239>>
                                [] chip = "mx25u12835f" -> <<194, 37, 55, 194>>]]

Plain == [options |-> <<"--read">>, programmer |-> "dediprog", chip |-> "w25q64w",
          strategy |-> "wipe_if_changes", voltage |-> Absent, hz |-> Absent, device |-> Absent]

Value(n, u, c) == [number |-> n, unit |-> u, chars |-> c]

(***************************************************************************)
(* Every option, in orders that matter, and texts of every kind for each   *)
(* parameter: understood, refused, ignored.                                *)
(***************************************************************************)
MCCommandLines == {
    Plain,
    [Plain EXCEPT !.options = << >>],
    [Plain EXCEPT !.options = <<"--write", "--verify", "--read">>],
    [Plain EXCEPT !.options = <<"--write", "--programmer", "--write-strategy", "--verify", "--chip">>,
                  !.voltage = Value(1800, "V", 4), !.device = Value(1000, "", 2)],
    [Plain EXCEPT !.options = <<"--write-strategy", "--write">>, !.strategy = "other"],
    [Plain EXCEPT !.options = <<"--read", "--write-strategy">>, !.strategy = "unknown"],
    [Plain EXCEPT !.options = <<"--chip", "--read">>, !.chip = "unknown"],
    [Plain EXCEPT !.options = <<"--programmer", "--read">>, !.programmer = "unknown"],
    [Plain EXCEPT !.options = <<"--programmer", "--verbose", "--read">>, !.programmer = "dummy_spi"],
    [Plain EXCEPT !.options = <<"--programmer", "--read">>,
                  !.voltage = Value(1800000, "mV", 6), !.hz = Value(750000000, "Hz", 8)],
    [Plain EXCEPT !.options = <<"--programmer", "--read">>,
                  !.voltage = Value(0, "V", 2), !.hz = Value(3000, "M", 2)],
    [Plain EXCEPT !.options = <<"--programmer", "--read">>, !.voltage = Value(2000, "V", 2)],
    [Plain EXCEPT !.options = <<"--programmer", "--read">>, !.hz = Value(5000000, "Hz", 6)],
    [Plain EXCEPT !.options = <<"--programmer", "--read">>, !.device = Value(1000, "x", 2)],
    [Plain EXCEPT !.options = <<"--programmer", "--read">>, !.device = Value(7000, "", 2)] }

(* The example of the manual page: flashrom2 -p dediprog:device=1           *)
DeviceLines == {
    [Plain EXCEPT !.options = <<"--programmer", "--read">>, !.device = Value(1000, "", 1)] }
=============================================================================
