----------------------------- MODULE ReadVerify -----------------------------
(***************************************************************************)
(* op_read_chip and op_verify_chip on top of the transfers of the SF100:   *)
(* a file, the buffer between file and chip, and what is said and returned *)
(* when the transfer, the disk or both fail.  Between them anything else   *)
(* may transfer, as op_write_chip does.                                    *)
(*                                                                         *)
(* chip_read hands the call on to the programmer (core.c, spi.c).  Both    *)
(* operations get where = 0 and len = 0 from operations_launch.  Files are *)
(* not longer than the chip.                                               *)
(***************************************************************************)
EXTENDS DediprogTransfer

CONSTANTS
    Files,          \* other files the chip may be verified against
    FileMayFail,    \* what may fail of a file: open, disk, close
    Cuts            \* bound: where a file may be cut off when writing it fails

ASSUME FilesAssumption ==
    /\ Files \subseteq UNION {[0..n - 1 -> SUBSET Bits] : n \in 0..ChipSize}
    /\ Cuts \subseteq 0..ChipSize
    /\ FileMayFail \subseteq {"open", "disk", "close"}

VARIABLES
    opc,        \* where the operation is: idle, reading, verifying
    file,       \* the bytes of the file of the operation, by their position
    verdict,    \* what op_verify_chip says: success, failure
    returned,   \* what the last operation returned: zero or not
    last,       \* auxiliary: which operation that was
    fileFailed  \* auxiliary: what failed of the file during it

operationVars == <<opc, file, verdict, returned, last, fileFailed>>
rvVars == <<transferVars, operationVars>>

ReadVerifyTypeOK ==
    /\ opc \in {"idle", "reading", "verifying"}
    /\ \E n \in 0..ChipSize : file \in [0..n - 1 -> SUBSET Bits]
    /\ verdict \in {"none", "success", "failure"}
    /\ returned \in {"none", "zero", "error"}
    /\ last \in {"none", "read", "verify"}
    /\ fileFailed \subseteq FileMayFail
    /\ opc # "idle" => op = "read" /\ start = 0

ReadVerifyInit ==
    /\ TransferInit
    /\ opc = "idle"
    /\ file = << >>
    /\ verdict = "none" /\ returned = "none" /\ last = "none"
    /\ fileFailed = {}

Size(f) == IF f = << >> THEN 0 ELSE CHOOSE n \in 1..ChipSize : DOMAIN f = 0..n - 1
Cut(f, n) == IF n = 0 THEN << >> ELSE [a \in 0..n - 1 |-> f[a]]

Begin(operation) ==
    /\ opc = "idle" /\ tpc \in {"idle", "done"}
    /\ last' = operation /\ verdict' = "none"

Return(r) == opc' = "idle" /\ returned' = r

FileFails(what) == what \in FileMayFail /\ fileFailed' = fileFailed \cup {what}

(***************************************************************************)
(* op_read_chip: the buffer is filled with 0xff and the file opened for    *)
(* writing, which empties it, before anything is read.                     *)
(***************************************************************************)
Blank == [a \in Addr |-> Erased]

CannotOpen(operation) ==
    /\ Begin(operation)
    /\ "open" \in FileMayFail /\ fileFailed' = {"open"}
    /\ Return("error")
    /\ UNCHANGED <<transferVars, file>>

(* Mutant: the buffer is not filled before it is read into.                 *)
StartReading_Unfilled ==
    /\ Begin("read")
    /\ file' = << >>
    /\ CallTransfer("read", 0, ChipSize, Empty)
    /\ opc' = "reading" /\ returned' = "none" /\ fileFailed' = {}

(* Mutant: the file is opened without being emptied.                        *)
StartReading_KeepsFile ==
    /\ Begin("read")
    /\ CallTransfer("read", 0, ChipSize, Blank)
    /\ opc' = "reading" /\ returned' = "none" /\ fileFailed' = {}
    /\ UNCHANGED file

StartReading ==
    /\ Begin("read")
    /\ file' = << >>
    /\ CallTransfer("read", 0, ChipSize, Blank)
    /\ opc' = "reading" /\ returned' = "none" /\ fileFailed' = {}

(* Mutant: a read that failed is made again.                                *)
Read_Again ==
    /\ opc = "reading" /\ tpc = "done"
    /\ \/ outcome = "negative" /\ CallTransfer("read", 0, ChipSize, Blank) /\ UNCHANGED <<opc, returned, file>>
       \/ outcome # "negative" /\ Return("zero") /\ file' = data /\ UNCHANGED transferVars
    /\ UNCHANGED <<verdict, last, fileFailed>>

(***************************************************************************)
(* A negative result leaves the file empty; any other is taken for the     *)
(* whole chip.  That fclose could not write is not noticed.                *)
(***************************************************************************)
Read ==
    /\ opc = "reading" /\ tpc = "done"
    /\ \/ outcome = "negative" /\ Return("error") /\ UNCHANGED <<file, fileFailed>>
       \/ outcome # "negative" /\ Return("zero") /\ file' = data /\ UNCHANGED fileFailed
       \/ /\ outcome # "negative"
          /\ \E n \in Cuts : file' = Cut(data, n)
          /\ \/ FileFails("disk") /\ Return("error")
             \/ FileFails("close") /\ Return("zero")
    /\ UNCHANGED <<transferVars, verdict, last>>

(***************************************************************************)
(* op_verify_chip: as many bytes are read from the chip as the file has,   *)
(* into a buffer whose bytes are those malloc found.  An empty file is an  *)
(* error.  The file is the one of the operation before, or another.        *)
(***************************************************************************)
StartVerifying ==
    /\ Begin("verify")
    /\ fileFailed' = {}
    /\ file' \in Files \cup {file}
    /\ IF file' = << >>
       THEN Return("error") /\ UNCHANGED transferVars
       ELSE /\ CallTransfer("read", 0, Size(file'), Empty)
            /\ opc' = "verifying" /\ returned' = "none"

CannotReadFile ==
    /\ Begin("verify")
    /\ "disk" \in FileMayFail /\ fileFailed' = {"disk"}
    /\ Return("error")
    /\ UNCHANGED <<transferVars, file>>

(* Mutant: as many bytes are compared as a page holds.                      *)
Compared_Pages == 0..(Size(file) \div DEDIPROG_MIN_ALIGN) * DEDIPROG_MIN_ALIGN - 1

Compared == DOMAIN file

(***************************************************************************)
(* `ret < len' compares as size_t, so that the comparison is made after a  *)
(* read that failed as after any other, with bytes that may be equal.      *)
(***************************************************************************)
Verify ==
    /\ opc = "verifying" /\ tpc = "done"
    /\ \/ /\ verdict' = "success"
          /\ \A a \in Compared : data[a] \in {file[a], Unread}
       \/ /\ verdict' = "failure"
          /\ \E a \in Compared : data[a] # file[a]
    /\ Return("zero")
    /\ UNCHANGED <<transferVars, file, last, fileFailed>>

(* Transfers of other operations.                                           *)
OtherTransfer ==
    /\ opc = "idle"
    /\ \E s \in Addr : \E l \in 1..ChipSize - s :
          \/ CallTransfer("read", s, l, Empty)
          \/ \E image \in Images : CallTransfer("write", s, l, image)
    /\ last' = "none" /\ verdict' = "none" /\ returned' = "none" /\ fileFailed' = {}
    /\ file' = << >>
    /\ UNCHANGED opc

Transferring == TransferStep /\ UNCHANGED operationVars

OperationStep == Transferring \/ Read \/ Verify

ReadVerifyNext ==
    \/ StartReading \/ StartVerifying \/ CannotReadFile
    \/ CannotOpen("read") \/ CannotOpen("verify")
    \/ OtherTransfer
    \/ OperationStep

ReadVerifySpec == ReadVerifyInit /\ [][ReadVerifyNext]_rvVars /\ WF_rvVars(OperationStep)
-----------------------------------------------------------------------------
(***************************************************************************)
(* Whatever fails, a file the chip was read into holds the beginning of    *)
(* the chip followed by 0xff, cut anywhere, and never bytes of something   *)
(* else; and the whole chip if nothing failed (read_chip.c:35-65).         *)
(***************************************************************************)
FileHoldsChip ==
    last = "read" /\ opc = "idle" /\ "open" \notin fileFailed =>
        /\ \E n \in 0..ChipSize :
              \A a \in DOMAIN file : file[a] = IF a < n THEN mem[a] ELSE Erased
        /\ lost \cup fileFailed = {} => returned = "zero" /\ file = mem

(***************************************************************************)
(* If no transfer was lost, "success" is said if and only if the chip      *)
(* begins with the file, whatever its length.  After a read that failed,   *)
(* which `ret < len' does not notice, it may be said of a chip that        *)
(* differs, but only where the buffer holds nothing that was read: what    *)
(* malloc found, or the 0xff of a residue (verify_chip.c:56-76).           *)
(***************************************************************************)
VerdictIsTrue ==
    last = "verify" /\ verdict # "none" =>
        /\ lost = {} => (verdict = "success") = (\A a \in DOMAIN file : file[a] = mem[a])
        /\ verdict = "success" =>
              \A a \in DOMAIN file : file[a] = mem[a] \/ data[a] \in {Unread, Erased}

(***************************************************************************)
(* Reading and verifying come to their end whatever is lost, and the end   *)
(* is not a transfer that waits for pages (dediprog.c:328-344).            *)
(***************************************************************************)
OperationsReturn == opc # "idle" ~> opc = "idle"
=============================================================================
