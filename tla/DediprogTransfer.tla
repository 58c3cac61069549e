-------------------------- MODULE DediprogTransfer --------------------------
(***************************************************************************)
(* dediprog_spi_read and dediprog_spi_write (programmer/dediprog.c): a     *)
(* control message announces a number of pages, then each page is one bulk *)
(* transfer.  Reading uses pages of DEDIPROG_MIN_ALIGN, writing those of   *)
(* the chip.                                                               *)
(*                                                                         *)
(* Both functions refuse a start that is not a multiple of                 *)
(* DEDIPROG_MIN_ALIGN, which the page size divides: skip_first and         *)
(* first_page_bytes are always 0, and the transfer of a first, incomplete  *)
(* page never runs (lines 320-326, 386-393).  The memory is what remains   *)
(* of the chip here; when it is busy is WriteChip's subject.               *)
(***************************************************************************)
EXTENDS Integers

CONSTANTS
    ChipSize,
    PageSize,               \* ctxt->chip->page_size
    DEDIPROG_MIN_ALIGN,
    Bits,
    Images,                 \* contents of the chip, and of the caller's data
    MayFail                 \* which transfers may fail: prep, bulk

ASSUME TransferSizesAssumption ==
    /\ ChipSize \in Nat /\ PageSize \in Nat \ {0} /\ DEDIPROG_MIN_ALIGN \in Nat \ {0}
    /\ DEDIPROG_MIN_ALIGN % PageSize = 0
    /\ ChipSize % DEDIPROG_MIN_ALIGN = 0

(* The number of pages is announced as an unsigned short: every chip of     *)
(* chips/*.c has fewer (8 MB in pages of 256 bytes).                        *)
USHORT == 65536

ASSUME PagesAssumption == ChipSize \div PageSize < USHORT - 1

ASSUME FailuresAssumption == MayFail \subseteq {"prep", "bulk"}

Addr == 0..ChipSize - 1
Erased == Bits
Unread == {"unread"}        \* what the caller's buffer held before

ASSUME UnreadAssumption == Unread \notin SUBSET Bits

ASSUME TransferImagesAssumption == Images \subseteq [Addr -> SUBSET Bits]

VARIABLES
    tpc,        \* where the transfer is: idle, prep, pages, residue, done
    op,         \* read or write
    start, len, \* its arguments
    data,       \* the caller's buffer, by address on the chip
    i,          \* local: pages transferred so far
    outcome,    \* what is returned: full, short, negative, EINVAL
    mode,       \* the SF100: none, read or write
    remaining,  \* the SF100: how many announced pages are left
    next,       \* the SF100: address of the next one
    mem,        \* the chip
    mem0, data0,\* auxiliary: chip and buffer when the transfer began
    lost        \* auxiliary: transfers that have failed

callVars == <<op, start, len>>
sf100Vars == <<mode, remaining, next>>
transferVars == <<tpc, callVars, data, i, outcome, sf100Vars, mem, mem0, data0, lost>>

pagesize == IF op = "read" THEN DEDIPROG_MIN_ALIGN ELSE PageSize
last_page_bytes == len % pagesize

(* Mutant: the residue is counted as a complete page.                       *)
nb_middle_pages_RoundedUp == (len + pagesize - 1) \div pagesize

nb_middle_pages == (len - last_page_bytes) \div pagesize
nb_pages == nb_middle_pages + (IF last_page_bytes > 0 THEN 1 ELSE 0)

(* nb_pages in struct firm5 and struct firm6.                               *)
announced == nb_pages % USHORT

TransferTypeOK ==
    /\ tpc \in {"idle", "prep", "pages", "residue", "done"}
    /\ op \in {"read", "write"}
    /\ start \in 0..ChipSize /\ len \in 0..ChipSize
    /\ data \in [Addr -> (SUBSET Bits) \cup {Unread}]
    /\ i \in 0..ChipSize
    /\ outcome \in {"none", "full", "short", "negative", "EINVAL"}
    /\ mode \in {"none", "read", "write"}
    /\ remaining \in Nat
    /\ next \in 0..ChipSize
    /\ mem \in [Addr -> SUBSET Bits]
    /\ mem0 \in [Addr -> SUBSET Bits]
    /\ lost \subseteq MayFail

TransferInit ==
    /\ tpc = "idle"
    /\ op = "read" /\ start = 0 /\ len = 0
    /\ data = [a \in Addr |-> Unread] /\ data0 = data
    /\ i = 0
    /\ outcome = "none"
    /\ mode = "none" /\ remaining = 0 /\ next = 0
    /\ mem \in Images /\ mem0 = mem
    /\ lost = {}
-----------------------------------------------------------------------------
(***************************************************************************)
(* The SF100, as the code uses it.  A page it writes can only clear bits;  *)
(* the bytes of a bulk transfer behind the page are ignored.               *)
(***************************************************************************)
Announce(n) == mode' = op /\ remaining' = n /\ next' = start

TakePage == remaining' = remaining - 1 /\ next' = next + pagesize /\ UNCHANGED mode

GiveUp == mode' = "none" /\ remaining' = 0 /\ UNCHANGED next

Fails(what) == what \in MayFail /\ lost' = lost \cup {what}

PageOf(a) == start + i * pagesize <= a /\ a < start + (i + 1) * pagesize

ProgramPage ==
    mem' = [a \in Addr |-> IF next <= a /\ a < next + pagesize
                           THEN mem[a] \cap data[start + i * pagesize + (a - next)]
                           ELSE mem[a]]

(* The n first bytes of a page that arrives go to the buffer.               *)
Receive(n) ==
    data' = [a \in Addr |-> IF PageOf(a) /\ a < start + i * pagesize + n
                            THEN mem[next + (a - start - i * pagesize)]
                            ELSE data[a]]

(***************************************************************************)
(* A bulk transfer works if the SF100 expects one in this direction.  If   *)
(* it fails fewer bytes than asked for are transferred, or none, and the   *)
(* SF100 gives up what was announced.  A transfer it does not expect has   *)
(* no effect on the chip, whatever is returned for it.                     *)
(***************************************************************************)
Expects(direction) == mode = direction /\ remaining > 0

BulkWrite ==
    \/ Expects("write") /\ ProgramPage /\ TakePage /\ outcome' = "full" /\ UNCHANGED lost
    \/ /\ Expects("write")
       /\ Fails("bulk")
       /\ ProgramPage \/ UNCHANGED mem
       /\ GiveUp
       /\ outcome' \in {"short", "negative"}
    \/ ~Expects("write") /\ GiveUp /\ outcome' \in {"full", "short", "negative"} /\ UNCHANGED <<mem, lost>>

BulkRead(size) ==
    \/ Expects("read") /\ Receive(size) /\ TakePage /\ outcome' = "full" /\ UNCHANGED lost
    \/ /\ Expects("read")
       /\ Fails("bulk")
       /\ \E got \in 0..size - 1 : Receive(got)
       /\ GiveUp
       /\ outcome' \in {"short", "negative"}
    \/ ~Expects("read") /\ GiveUp /\ outcome' \in {"full", "short", "negative"} /\ UNCHANGED <<data, lost>>
-----------------------------------------------------------------------------
(***************************************************************************)
(* dediprog_spi_read(buf, start, len), dediprog_spi_write(buf, start, len).*)
(***************************************************************************)
CallTransfer(o, s, l, buf) ==
    /\ tpc \in {"idle", "done"}
    /\ op' = o /\ start' = s /\ len' = l
    /\ data' = buf /\ data0' = buf
    /\ mem0' = mem
    /\ i' = 0
    /\ lost' = {}
    /\ IF s % DEDIPROG_MIN_ALIGN # 0
       THEN tpc' = "done" /\ outcome' = "EINVAL"
       ELSE tpc' = "prep" /\ outcome' = "none"
    /\ UNCHANGED <<sf100Vars, mem>>

(* Mutant: only the complete pages are announced.                           *)
PrepMultiCmd_Middle ==
    /\ tpc = "prep"
    /\ \/ Announce(nb_middle_pages) /\ UNCHANGED lost
       \/ Fails("prep") /\ (Announce(nb_middle_pages) \/ UNCHANGED sf100Vars)
    /\ outcome' = "full"
    /\ tpc' = "pages"
    /\ UNCHANGED <<callVars, data, i, mem, mem0, data0>>

(* dediprog_prep_multi_cmd, and ret = DEDIPROG_MIN_ALIGN whatever it was.   *)
PrepMultiCmd ==
    /\ tpc = "prep"
    /\ \/ Announce(announced) /\ UNCHANGED lost
       \/ Fails("prep") /\ (Announce(announced) \/ UNCHANGED sf100Vars)
    /\ outcome' = "full"
    /\ tpc' = "pages"
    /\ UNCHANGED <<callVars, data, i, mem, mem0, data0>>

Transferred == tpc = "pages" /\ i < nb_middle_pages /\ outcome = "full"

ReadPage ==
    /\ op = "read" /\ Transferred
    /\ BulkRead(pagesize)
    /\ i' = i + 1
    /\ UNCHANGED <<tpc, callVars, mem, mem0, data0>>

(* Mutant: the loop does not stop at a transfer that failed.                *)
WritePage_GoesOn ==
    /\ op = "write" /\ tpc = "pages" /\ i < nb_middle_pages
    /\ BulkWrite
    /\ i' = i + 1
    /\ UNCHANGED <<tpc, callVars, data, mem0, data0>>

WritePage ==
    /\ op = "write" /\ Transferred
    /\ BulkWrite
    /\ i' = i + 1
    /\ UNCHANGED <<tpc, callVars, data, mem0, data0>>

(* For a read that came to its end without a negative ret, the length.      *)
Returned == IF op = "read" /\ outcome = "short" THEN "full" ELSE outcome

EndOfPages ==
    /\ tpc = "pages"
    /\ ~Transferred
    /\ IF outcome = "full" /\ last_page_bytes > 0
       THEN tpc' = "residue" /\ UNCHANGED outcome
       ELSE tpc' = "done" /\ outcome' = Returned
    /\ UNCHANGED <<callVars, data, i, sf100Vars, mem, mem0, data0, lost>>

(***************************************************************************)
(* The last, incomplete page.  Reading, it goes through tmp_buf, which is  *)
(* 0xff, and is copied whatever the transfer returned; writing, tmp_buf is *)
(* filled, and then read into (dediprog.c:405).                            *)
(***************************************************************************)
ReceiveResidue(n) ==
    data' = [a \in Addr |-> IF ~PageOf(a) \/ a >= start + len THEN data[a]
                            ELSE IF a < start + i * pagesize + n
                                 THEN mem[next + (a - start - i * pagesize)]
                                 ELSE Erased]

ReadResidue ==
    /\ op = "read" /\ tpc = "residue"
    /\ \/ /\ Expects("read")
          /\ ReceiveResidue(last_page_bytes)
          /\ TakePage
          /\ outcome' = "full"
          /\ UNCHANGED lost
       \/ /\ Expects("read")
          /\ Fails("bulk")
          /\ \E got \in 0..last_page_bytes : ReceiveResidue(got)
          /\ GiveUp
          /\ outcome' \in {"full", "negative"}
       \/ /\ ~Expects("read")
          /\ ReceiveResidue(0)
          /\ GiveUp
          /\ outcome' \in {"full", "negative"}
          /\ UNCHANGED lost
    /\ tpc' = "done"
    /\ UNCHANGED <<callVars, i, mem, mem0, data0>>

WriteResidue ==
    /\ op = "write" /\ tpc = "residue"
    /\ GiveUp
    /\ outcome' \in {"full", "short", "negative"}
    /\ tpc' = "done"
    /\ UNCHANGED <<callVars, data, i, mem, mem0, data0, lost>>

TransferStep ==
    \/ PrepMultiCmd \/ ReadPage \/ WritePage \/ EndOfPages \/ ReadResidue \/ WriteResidue

Empty == [a \in Addr |-> Unread]

TransferNext ==
    \/ \E s \in Addr : \E l \in 1..ChipSize - s :
          \/ CallTransfer("read", s, l, Empty)
          \/ \E image \in Images : CallTransfer("write", s, l, image)
    \/ TransferStep

TransferSpec == TransferInit /\ [][TransferNext]_transferVars
-----------------------------------------------------------------------------
(***************************************************************************)
(* A read with nothing lost fills the buffer with what the chip holds, and *)
(* nothing else of it, taking as many pages as it announced                *)
(* (do_dediprog_spi_read_pages).                                           *)
(***************************************************************************)
Range == {a \in Addr : start <= a /\ a < start + len}

ReadDelivers ==
    tpc = "done" /\ op = "read" /\ lost = {} /\ outcome # "EINVAL" =>
        /\ outcome = "full"
        /\ \A a \in Addr : data[a] = IF a \in Range THEN mem[a] ELSE data0[a]
        /\ remaining = 0

(***************************************************************************)
(* A write does to the chip what WriteChip!ChipWrite allows: the complete  *)
(* pages are programmed in order, all of them unless a transfer is lost,   *)
(* and a lost bulk transfer is never returned as a success                 *)
(* (do_dediprog_spi_write_pages).                                          *)
(***************************************************************************)
Programmed(pages) ==
    [a \in Addr |-> IF start <= a /\ a < start + pages * PageSize
                    THEN mem0[a] \cap data[a] ELSE mem0[a]]

WritesAsAllowed ==
    tpc = "done" /\ op = "write" /\ outcome # "EINVAL" =>
        \/ /\ mem = Programmed(len \div PageSize)
           /\ len % PageSize = 0 => outcome = "full"
        \/ /\ "bulk" \in lost
           /\ \E written \in 0..len \div PageSize : mem = Programmed(written)
           /\ outcome \in {"short", "negative"}
        \/ "prep" \in lost /\ mem = mem0
-----------------------------------------------------------------------------
(***************************************************************************)
(* Expectations that the code does not meet.                               *)
(***************************************************************************)

(***************************************************************************)
(* dediprog.c:359-360: "If start or (start + len) is not on a page         *)
(* boundary, the residue is filled with 0xff and written as a whole page": *)
(* with nothing lost, a write programs everything it was given.            *)
(***************************************************************************)
ResidueIsWritten ==
    tpc = "done" /\ op = "write" /\ lost = {} /\ outcome = "full"
        => \A a \in Range : mem[a] = mem0[a] \cap data[a]
=============================================================================
