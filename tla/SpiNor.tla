------------------------------- MODULE SpiNor -------------------------------
(***************************************************************************)
(* The functions of bus/spi_nor.c and the generic ones of bus/spi.c that   *)
(* erase, program and read a chip by sending it lists of commands: byte by *)
(* byte, in chunks, by AAI words, and what they do when a command or the   *)
(* reading of the status register fails.                                   *)
(*                                                                         *)
(* One call is made.  It may find the chip as an earlier one that failed   *)
(* left it: latched, busy, in AAI mode at any word, or busy in AAI mode,   *)
(* as the bailout of an AAI write can leave it.  Empty ranges are left     *)
(* out: no caller passes one.                                              *)
(***************************************************************************)
EXTENDS SpiChip, SpiProbe

CONSTANTS
    MaxData,    \* max_data_read, max_data_write of a master: its longest transfers
    ProgramMax, \* the longest program spi_nbyte_program sends, 256
    OldImages,  \* contents of the chip
    Images,     \* contents of the caller's buffer
    Entries,    \* what the program knows of chips, by name
    Answers,    \* what these chips answer when they are wired, by name
    MayFail     \* what may fail: command, rdsr

MAX_DATA_UNSPECIFIED == 0

ASSUME SpiNorAssumption ==
    /\ MaxData \subseteq Nat /\ ProgramMax \in Nat
    /\ Images \subseteq [Addr -> Value] /\ OldImages \subseteq [Addr -> Value]
    /\ MayFail \subseteq {"command", "rdsr"}
    /\ \A name \in DOMAIN Entries : Entries[name] \in Entry /\ name \in DOMAIN Answers

(* A buffer of the caller holds bytes; these two are not.                   *)
Unread == {"unread"}        \* what it held before
Noise  == {"noise"}         \* bytes that are not those of the chip

ASSUME MarkersAssumption == Unread \notin Value /\ Noise \notin Value

VARIABLES
    spc,        \* idle, loop (between two lists of commands), send, poll, done
    stage,      \* which loop
    fn,         \* the function called
    opcode,     \* of the erase
    start, len, \* the arguments
    data,       \* the caller's buffer, by address on the chip
    max_data,   \* of the master, where it is asked for it
    i, j,       \* locals of the loops over bytes and pages
    until,      \* start + len in spi_chip_write_1
    pos,        \* local of default_spi_write_aai
    cmds,       \* the commands still to be sent
    ret,        \* what is returned: zero or not; of a probe, found or absent
    probed,     \* whose probe function is called, and the chip that is wired
    failed,     \* auxiliary: what has failed in this call
    ready0,     \* auxiliary: the chip was listening when it began
    mem0        \* auxiliary: the cells when it began

spiArgs == <<fn, opcode, start, len, max_data, probed, ready0, mem0>>
spiVars == <<spc, stage, spiArgs, data, i, j, until, pos, cmds, ret, failed>>
vars == <<chipVars, spiVars>>

Writers == {"write_1", "write_256", "aai"}

(***************************************************************************)
(* spi_get_erasefn_from_opcode.  Those that erase the chip send no address.*)
(***************************************************************************)
ErasesChip == {"60", "62", "c7"}
ErasesBlock == {"20", "50", "52", "81", "c4", "d7", "d8", "db"}
Opcodes == DOMAIN EraseSize \cap (ErasesChip \cup ErasesBlock)

ASSUME ErasesChipAssumption == \A o \in Opcodes \cap ErasesChip : EraseSize[o] = ChipSize

Command ==
    [op : {"WREN", "WRDI", "UNKNOWN"}]
    \cup [op : {"PROGRAM", "AAI"}, addr : 0..ChipSize, bytes : Seq(Value)]
    \cup [op : {"AAI_CONT"}, bytes : Seq(Value)]
    \cup [op : {"ERASE"}, opcode : Opcodes, addr : Addr]
    \cup [op : {"READ"}, addr : Addr, count : Nat]

SpiTypeOK ==
    /\ ChipTypeOK
    /\ spc \in {"idle", "loop", "send", "poll", "done"}
    /\ stage \in {"none", "erase", "pages", "bytes", "first", "word", "cont", "last", "bail"}
    /\ fn \in Writers \cup {"none", "erase", "read", "probe"}
    /\ opcode \in Opcodes \cup {"none"}
    /\ start \in 0..ChipSize /\ len \in 0..ChipSize
    /\ data \in [Addr -> Value \cup {Unread, Noise}]
    /\ max_data \in MaxData \cup {MAX_DATA_UNSPECIFIED}
    /\ i \in IF stage = "pages" THEN 0..ChipSize \div PageSize ELSE 0..ChipSize
    /\ j \in Nat
    /\ until \in 0..ChipSize
    /\ pos \in 0..ChipSize + 2
    /\ cmds \in Seq(Command) /\ (spc = "send") = (cmds # << >>)
    /\ ret \in {"none", "zero", "error", "found", "absent"}
    /\ failed \subseteq {"command", "rdsr"}

Init ==
    /\ mem \in OldImages
    /\ \/ wip = FALSE /\ wel \in BOOLEAN /\ aai = {}
       \/ wip = TRUE  /\ wel = TRUE /\ aai = {}
       \/ wip \in BOOLEAN /\ wel = TRUE /\ \E a \in Addr : aai = {a}
    /\ spc = "idle" /\ stage = "none"
    /\ fn = "none" /\ opcode = "none" /\ start = 0 /\ len = 0
    /\ data = [a \in Addr |-> Unread]
    /\ max_data = MAX_DATA_UNSPECIFIED
    /\ i = 0 /\ j = 0 /\ until = 0 /\ pos = 0
    /\ cmds = << >>
    /\ ret = "none"
    /\ probed = <<"none", "none">>
    /\ failed = {} /\ ready0 = Listening /\ mem0 = mem
-----------------------------------------------------------------------------
(***************************************************************************)
(* Calling and returning.                                                  *)
(***************************************************************************)
Called(f, o, s, l) ==
    /\ spc = "idle"
    /\ fn' = f /\ opcode' = o /\ start' = s /\ len' = l
    /\ ready0' = Listening /\ mem0' = mem
    /\ UNCHANGED chipVars

Return(r) == spc' = "done" /\ ret' = r /\ UNCHANGED stage

SendList(list) == cmds' = list /\ spc' = "send"

Loop(s) == spc' = "loop" /\ stage' = s /\ ret' = "none"

(* Mutant: the erasers of the whole chip do not look at their arguments.    *)
CallErase_Unchecked(o, addr, blocklen) ==
    /\ Called("erase", o, addr, blocklen)
    /\ SendList((IF o \in SelfEnabled THEN << >> ELSE <<WREN>>) \o <<Erase(o, addr)>>)
    /\ stage' = "erase" /\ ret' = "none"
    /\ UNCHANGED <<data, i, j, until, pos, max_data, probed, failed>>

(***************************************************************************)
(* spi_block_erase_20 to _db: 50 and 81 send no WREN, 60, 62 and c7 erase  *)
(* nothing but the whole chip.                                             *)
(***************************************************************************)
CallErase(o, addr, blocklen) ==
    /\ Called("erase", o, addr, blocklen)
    /\ IF o \in ErasesChip /\ (addr # 0 \/ blocklen # ChipSize)
       THEN Return("error") /\ UNCHANGED cmds
       ELSE /\ SendList((IF o \in SelfEnabled THEN << >> ELSE <<WREN>>) \o <<Erase(o, addr)>>)
            /\ stage' = "erase" /\ ret' = "none"
    /\ UNCHANGED <<data, i, j, until, pos, max_data, probed, failed>>

(* spi_chip_write_1                                                         *)
CallWrite1(s, l, buf) ==
    /\ Called("write_1", "none", s, l)
    /\ Loop("bytes")
    /\ data' = buf /\ i' = s /\ until' = s + l
    /\ UNCHANGED <<j, pos, cmds, max_data, probed, failed>>

(* Mutant: a master that does not say its longest transfer is not refused.  *)
CallChunked_Unspecified(f, s, l, buf, max) ==
    /\ Called(f, "none", s, l)
    /\ data' = buf /\ max_data' = max
    /\ Loop("pages") /\ i' = s \div PageSize /\ j' = 0
    /\ UNCHANGED <<until, pos, cmds, probed, failed>>

(* default_spi_read, default_spi_write_256                                  *)
CallChunked(f, s, l, buf, max) ==
    /\ Called(f, "none", s, l)
    /\ data' = buf /\ max_data' = max
    /\ IF max = MAX_DATA_UNSPECIFIED
       THEN Return("error") /\ UNCHANGED <<i, j>>
       ELSE Loop("pages") /\ i' = s \div PageSize /\ j' = 0
    /\ UNCHANGED <<until, pos, cmds, probed, failed>>

(* default_spi_write_aai, which writes an odd first byte with               *)
(* spi_chip_write_1(buf, start, start % 2).                                 *)
CallAAI(s, l, buf) ==
    /\ Called("aai", "none", s, l)
    /\ Loop(IF s % 2 = 1 THEN "first" ELSE "word")
    /\ data' = buf /\ pos' = s /\ i' = s /\ until' = s + (s % 2)
    /\ UNCHANGED <<j, cmds, max_data, probed, failed>>

(***************************************************************************)
(* The probe function of a chip the program knows, on the chip that is     *)
(* wired, which answers if it is listening.  Its commands may fail.        *)
(***************************************************************************)
CallProbe(name, wired) ==
    /\ Called("probe", "none", 0, 0)
    /\ probed' = <<name, wired>>
    /\ \E f \in SUBSET ProbeCommands :
          /\ f # {} => "command" \in MayFail
          /\ failed' = IF f = {} THEN {} ELSE {"command"}
          /\ Return(IF Finds(Entries[name], IF Listening THEN Answers[wired] ELSE Floating, f)
                    THEN "found" ELSE "absent")
    /\ UNCHANGED <<data, i, j, until, pos, cmds, max_data>>

NoData == [a \in Addr |-> Unread]
BlockLengths == {EraseSize[o] : o \in Opcodes}

Call ==
    \/ \E o \in Opcodes, addr \in Addr :
          \E blocklen \in IF o \in ErasesChip THEN BlockLengths ELSE {EraseSize[o]} :
             CallErase(o, addr, blocklen)
    \/ \E s \in Addr : \E l \in 1..ChipSize - s :
          \/ \E max \in MaxData : CallChunked("read", s, l, NoData, max)
          \/ \E buf \in Images :
                \/ CallWrite1(s, l, buf)
                \/ \E max \in MaxData : CallChunked("write_256", s, l, buf, max)
                \/ CallAAI(s, l, buf)
    \/ \E name \in DOMAIN Entries, wired \in DOMAIN Answers : CallProbe(name, wired)
-----------------------------------------------------------------------------
(***************************************************************************)
(* spi_read_chunked, spi_write_chunked: the pages from that of the first   *)
(* byte to that of the last, each in chunks of at most max_data.           *)
(***************************************************************************)
Lower(m, n) == IF m < n THEN m ELSE n
Higher(m, n) == IF m < n THEN n ELSE m

(* Mutant: the number of pages is counted, not that of the last one.        *)
LastPage_Undivided == start + len - 1

LastPage == (start + len - 1) \div PageSize

(* Mutant: each page is handled from its beginning.                         *)
starthere_OfPage == i * PageSize

starthere == Higher(start, i * PageSize)

(* Mutant: each page is handled to its end.                                 *)
lenhere_ToPageEnd == (i + 1) * PageSize - starthere

lenhere == Lower(start + len, (i + 1) * PageSize) - starthere

chunk == Lower(max_data, lenhere - j)

InPages == spc = "loop" /\ stage = "pages" /\ i <= LastPage

Piece(a, n) == [k \in 1..n |-> data[a + k - 1]]

(* spi_nbyte_read, spi_nbyte_program                                        *)
ReadChunk ==
    /\ fn = "read" /\ InPages /\ j < lenhere
    /\ SendList(<<Read(starthere + j, chunk)>>)
    /\ j' = j + max_data
    /\ UNCHANGED <<chipVars, stage, spiArgs, data, i, until, pos, ret, failed>>

WriteChunk ==
    /\ fn = "write_256" /\ InPages /\ j < lenhere
    /\ IF chunk = 0 \/ chunk > ProgramMax
       THEN Return("error") /\ UNCHANGED <<cmds, j>>
       ELSE /\ SendList(<<WREN, Program(starthere + j, Piece(starthere + j, chunk))>>)
            /\ j' = j + max_data
            /\ UNCHANGED <<stage, ret>>
    /\ UNCHANGED <<chipVars, spiArgs, data, i, until, pos, failed>>

NextPage ==
    /\ InPages /\ j >= lenhere
    /\ i' = i + 1 /\ j' = 0
    /\ UNCHANGED <<chipVars, spc, stage, spiArgs, data, until, pos, cmds, ret, failed>>

(* Mutant: the last page is taken for the end.                              *)
EndOfPages_BeforeLast ==
    /\ spc = "loop" /\ stage = "pages" /\ i >= LastPage
    /\ Return("zero")
    /\ UNCHANGED <<chipVars, spiArgs, data, i, j, until, pos, cmds, failed>>

EndOfPages ==
    /\ spc = "loop" /\ stage = "pages" /\ i > LastPage
    /\ Return("zero")
    /\ UNCHANGED <<chipVars, spiArgs, data, i, j, until, pos, cmds, failed>>
-----------------------------------------------------------------------------
(***************************************************************************)
(* spi_chip_write_1 with spi_byte_program, on its own or for the first or  *)
(* last byte of an AAI write.                                              *)
(***************************************************************************)
NextByte ==
    /\ spc = "loop" /\ stage \in {"bytes", "first"} /\ i < until
    /\ SendList(<<WREN, Program(i, Piece(i, 1))>>)
    /\ i' = i + 1
    /\ UNCHANGED <<chipVars, stage, spiArgs, data, j, until, pos, ret, failed>>

EndOfBytes ==
    /\ spc = "loop" /\ stage = "bytes" /\ i >= until
    /\ Return("zero")
    /\ UNCHANGED <<chipVars, spiArgs, data, i, j, until, pos, cmds, failed>>

EndOfFirstByte ==
    /\ spc = "loop" /\ stage = "first" /\ i >= until
    /\ stage' = "word" /\ pos' = pos + (start % 2)
    /\ UNCHANGED <<chipVars, spc, spiArgs, data, i, j, until, cmds, ret, failed>>

(***************************************************************************)
(* default_spi_write_aai.  A byte of the word that is behind the range is  *)
(* read from behind the buffer.  After an odd first byte the bytes of the  *)
(* first word are taken from an array that has gone out of scope           *)
(* (spi_nor.c:966-979): the command is the one meant, or any other.        *)
(***************************************************************************)
ByteAt(a) == IF a < start + len THEN {data[a]} ELSE Value

Words == {<<v, w>> : v \in ByteAt(pos), w \in ByteAt(pos + 1)}

DeadArray ==
    IF start % 2 = 0 THEN {}
    ELSE {Unknown} \cup {Erase(o, a) : o \in Opcodes, a \in Addr}
         \cup {AAIWord(a, <<{}, {}>>) : a \in Addr}
         \cup {Program(a, <<{}, {}>>) : a \in Addr}

StartAAI ==
    /\ spc = "loop" /\ stage = "word"
    /\ \E c \in {AAIWord(pos, w) : w \in Words} \cup DeadArray : SendList(<<WREN, c>>)
    /\ stage' = "cont" /\ pos' = pos + 2
    /\ UNCHANGED <<chipVars, spiArgs, data, i, j, until, ret, failed>>

MoreWords == pos < start + len - 1

ContinueAAI ==
    /\ spc = "loop" /\ stage = "cont" /\ MoreWords
    /\ SendList(<<AAICont(Piece(pos, 2))>>)
    /\ pos' = pos + 2
    /\ UNCHANGED <<chipVars, stage, spiArgs, data, i, j, until, ret, failed>>

(* Mutant: AAI mode is not left.                                            *)
DisableAAI_Forgotten ==
    /\ spc = "loop" /\ stage = "cont" /\ ~MoreWords
    /\ stage' = "last"
    /\ UNCHANGED <<chipVars, spc, spiArgs, data, i, j, until, pos, cmds, ret, failed>>

DisableAAI ==
    /\ spc = "loop" /\ stage = "cont" /\ ~MoreWords
    /\ SendList(<<WRDI>>)
    /\ stage' = "last"
    /\ UNCHANGED <<chipVars, spiArgs, data, i, j, until, pos, ret, failed>>

(* The last byte, if any: spi_chip_write_1(buf + pos - start, pos, pos % 2) *)
LastByteAAI ==
    /\ spc = "loop" /\ stage = "last"
    /\ IF pos < start + len
       THEN stage' = "bytes" /\ i' = pos /\ until' = pos + (pos % 2) /\ UNCHANGED <<spc, ret>>
       ELSE Return("zero") /\ UNCHANGED <<i, until>>
    /\ UNCHANGED <<chipVars, spiArgs, data, j, pos, cmds, failed>>

(* The rest of the bailout and of an erase.                                 *)
Bailed ==
    /\ spc = "loop" /\ stage = "bail"
    /\ Return("error")
    /\ UNCHANGED <<chipVars, spiArgs, data, i, j, until, pos, cmds, failed>>

EraseDone ==
    /\ spc = "loop" /\ stage = "erase"
    /\ Return("zero")
    /\ UNCHANGED <<chipVars, spiArgs, data, i, j, until, pos, cmds, failed>>
-----------------------------------------------------------------------------
(***************************************************************************)
(* default_spi_send_multicommand: one command after the other, up to the   *)
(* first that fails, which may or may not have reached the chip.  A list   *)
(* that starts something in the chip is followed by polling.               *)
(***************************************************************************)
Cells(c) == {a \in Addr : c.addr <= a /\ a < c.addr + c.count}

Fetch(c) ==
    data' = IF c.op # "READ" THEN data
            ELSE [a \in Addr |-> IF a \notin Cells(c) THEN data[a]
                                 ELSE IF Listening THEN mem[a] ELSE Noise]

FetchNoise(c) ==
    data' = IF c.op # "READ" THEN data
            ELSE [a \in Addr |-> IF a \in Cells(c) THEN Noise ELSE data[a]]

Polled(c) == c.op \notin {"READ", "WRDI"}

Send ==
    /\ spc = "send"
    /\ Receive(Head(cmds))
    /\ Fetch(Head(cmds))
    /\ cmds' = Tail(cmds)
    /\ spc' = IF Tail(cmds) # << >> THEN "send" ELSE IF Polled(Head(cmds)) THEN "poll" ELSE "loop"
    /\ UNCHANGED <<stage, spiArgs, i, j, until, pos, ret, failed>>

(* Mutant: the bailout does not leave AAI mode.                             *)
Broken_NoWRDI ==
    IF stage = "cont"
    THEN cmds' = << >> /\ spc' = "loop" /\ stage' = "bail" /\ UNCHANGED ret
    ELSE Return("error") /\ cmds' = << >>

(* What the caller makes of the failure: default_spi_write_aai tries to     *)
(* leave AAI mode, without waiting for the chip; all others return.         *)
Broken ==
    IF stage = "cont"
    THEN SendList(<<WRDI>>) /\ stage' = "bail" /\ UNCHANGED ret
    ELSE Return("error") /\ cmds' = << >>

(* Mutant: a command that fails does not end the list.                      *)
SendFails_GoesOn ==
    /\ spc = "send"
    /\ "command" \in MayFail
    /\ failed' = failed \cup {"command"}
    /\ Receive(Head(cmds)) \/ UNCHANGED chipVars
    /\ FetchNoise(Head(cmds))
    /\ IF Tail(cmds) # << >> THEN cmds' = Tail(cmds) /\ UNCHANGED <<spc, stage, ret>> ELSE Broken
    /\ UNCHANGED <<spiArgs, i, j, until, pos>>

SendFails ==
    /\ spc = "send"
    /\ "command" \in MayFail
    /\ failed' = failed \cup {"command"}
    /\ Receive(Head(cmds)) \/ UNCHANGED chipVars
    /\ FetchNoise(Head(cmds))
    /\ Broken
    /\ UNCHANGED <<spiArgs, i, j, until, pos>>

(***************************************************************************)
(* while (spi_read_status_register(flash) & SPI_SR_WIP): a read that fails *)
(* returns whatever is in the array, and may end the loop.                 *)
(***************************************************************************)
Poll ==
    /\ spc = "poll"
    /\ ~wip
    /\ spc' = "loop"
    /\ UNCHANGED <<chipVars, stage, spiArgs, data, i, j, until, pos, cmds, ret, failed>>

PollFails ==
    /\ spc = "poll"
    /\ "rdsr" \in MayFail
    /\ failed' = failed \cup {"rdsr"}
    /\ spc' = "loop"
    /\ UNCHANGED <<chipVars, stage, spiArgs, data, i, j, until, pos, cmds, ret>>

Step ==
    \/ ReadChunk \/ WriteChunk \/ NextPage \/ EndOfPages
    \/ NextByte \/ EndOfBytes \/ EndOfFirstByte
    \/ StartAAI \/ ContinueAAI \/ DisableAAI \/ LastByteAAI \/ Bailed
    \/ EraseDone \/ Send \/ SendFails \/ Poll \/ PollFails

ChipFinishes == Finish /\ UNCHANGED spiVars

Next == Call \/ Step \/ ChipFinishes

Spec == Init /\ [][Next]_vars /\ WF_vars(Step) /\ WF_vars(ChipFinishes)
-----------------------------------------------------------------------------
(***************************************************************************)
(* What can be relied on: a chip that was listening when the function was  *)
(* called, and a status register that could be read.  AAI writes as the    *)
(* code asks for them ("Please report a bug"): from an even address, and   *)
(* of one word at least.                                                   *)
(***************************************************************************)
Reliable == ready0 /\ "rdsr" \notin failed /\ (fn = "aai" => start % 2 = 0 /\ len >= 2)

Range == {a \in Addr : start <= a /\ a < start + len}

Written(n) == [a \in Addr |-> IF start <= a /\ a < start + n THEN mem0[a] \cap data[a] ELSE mem0[a]]

(***************************************************************************)
(* Whatever fails, and at whatever time: a write has programmed the first  *)
(* bytes of its range, each with its own value, and nothing else           *)
(* (spi.c:167-183, spi_nor.c:911-926, 992-1014).  A call that is broken    *)
(* off can be made good by one that starts where it ended.                 *)
(***************************************************************************)
PrefixWritten == fn \in Writers /\ Reliable => \E n \in 0..len : mem = Written(n)

(***************************************************************************)
(* A write that returns zero has programmed its whole range (spi.c:185,    *)
(* spi_nor.c:925, 1030).  What an AAI write of odd length does, see        *)
(* RemainingByteIsWritten below.                                           *)
(***************************************************************************)
WriteIsExact ==
    ret = "zero" /\ fn \in Writers /\ Reliable /\ (fn = "aai" => len % 2 = 0)
        => mem = Written(len)

(***************************************************************************)
(* A read fills the buffer from its beginning with what the chip holds,    *)
(* and nothing outside of the range; all of it if it returns zero          *)
(* (spi.c:121-135).                                                        *)
(***************************************************************************)
ReadIsExact ==
    fn = "read" /\ ready0 =>
        /\ \A a \in Addr \ Range : data[a] = Unread
        /\ ret = "zero" => \A a \in Range : data[a] = mem[a]
        /\ \A a, b \in Range : a < b /\ data[b] = mem[b] => data[a] = mem[a]

(***************************************************************************)
(* An erase that returns zero has erased the block it was called for, and  *)
(* nothing else; one that is refused, nothing (spi_nor.c:753-782).         *)
(***************************************************************************)
EraseIsExact ==
    fn = "erase" /\ Reliable =>
        /\ ret = "zero" => mem = EraseCells(mem0, BlockOf(start, len), len)
        /\ ret = "error" /\ failed = {} => mem = mem0

(***************************************************************************)
(* No command is sent to a chip that would not carry it out: it is idle,   *)
(* writing is enabled, and in AAI mode it gets the word that is next.  The *)
(* exception is the bailout of default_spi_write_aai, which does not wait  *)
(* for the chip (spi_nor.c:1032-1036).                                     *)
(***************************************************************************)
CommandsAreHeard ==
    spc = "send" /\ Reliable /\ stage # "bail" =>
        LET c == Head(cmds)
        IN  /\ ~wip
            /\ c.op \in {"PROGRAM", "AAI"} => wel
            /\ c.op = "ERASE" => wel \/ c.opcode \in SelfEnabled
            /\ IF c.op = "AAI_CONT" THEN aai = {pos - 2} ELSE aai = {} \/ c.op = "WRDI"

(***************************************************************************)
(* A function that returns zero leaves the chip as it wants to find it:    *)
(* idle, out of AAI mode, and write-protected again if it wrote            *)
(* (spi_nor.c:1016-1021, "This needs to be done before issuing any other   *)
(* non-AAI command").                                                      *)
(***************************************************************************)
SuccessLeavesChipReady ==
    ret = "zero" /\ Reliable => ~wip /\ aai = {} /\ (fn # "read" => ~wel)

(***************************************************************************)
(* The bailout of an AAI write (spi_nor.c:1032-1036) does not wait for the *)
(* chip.  Once its WRDI has been sent without an error, the only chip that *)
(* is still in AAI mode is one that had taken the word whose command was   *)
(* reported as failed: everything up to that word is programmed, and the   *)
(* chip awaits the next one.                                               *)
(***************************************************************************)
BailoutLeavesAAI ==
    spc = "loop" /\ stage = "bail" /\ Reliable =>
        aai = {} \/ (aai = {pos % ChipSize} /\ mem = Written(pos - start))

(***************************************************************************)
(* The probe of a chip finds it if, and only if, it is the one that is     *)
(* wired, as long as no command fails; the one byte of RES that many chips *)
(* share decides nothing if the wired chip has a better identification     *)
(* (spi_nor.c:200-239).                                                    *)
(***************************************************************************)
ProbeTellsChips ==
    fn = "probe" /\ ready0 /\ failed = {} /\ Specific(Entries[probed[1]])
        => (ret = "found") = (probed[1] = probed[2])

(***************************************************************************)
(* What a chip's entry must say for that: the chip answers in bytes, the   *)
(* entry describes what it answers, and no other chip answers the same as  *)
(* far as the probe function of the entry looks (true of chips/*.c).       *)
(***************************************************************************)
SameBytes(s, t, n) == \A k \in 1..n : s[k] = t[k]

LooksLike(probe, own, answer) ==
    \/ probe = "rdid"  /\ SameBytes(own.RDID, answer.RDID, 3)
    \/ probe = "rdid4" /\ SameBytes(own.RDID, answer.RDID, IF own.RDID[1] = 127 THEN 4 ELSE 3)
    \/ probe = "rems"  /\ SameBytes(own.REMS, answer.REMS, 2)
    \/ /\ probe = "res1" /\ SameBytes(own.RES, answer.RES, 1)
       /\ Blank(answer.RDID, 3) /\ Blank(answer.REMS, 2)
    \/ probe = "res2"  /\ SameBytes(own.RES, answer.RES, 2)
    \/ probe = "res3"  /\ SameBytes(own.RES, answer.RES, 3)
    \/ probe = "at25f" /\ SameBytes(own.AT25F_RDID, answer.AT25F_RDID, 2)

AnswersAreBytes ==
    Answers \in [DOMAIN Answers -> [RDID : [1..4 -> Byte], REMS : [1..2 -> Byte],
                                   RES : [1..3 -> Byte], AT25F_RDID : [1..2 -> Byte]]]

EntriesAreTrue ==
    \A name \in DOMAIN Entries : Specific(Entries[name]) =>
        /\ Finds(Entries[name], Answers[name], {})
        /\ \A wired \in DOMAIN Answers :
              LooksLike(Entries[name].probe, Answers[name], Answers[wired]) => wired = name

(***************************************************************************)
(* Every call returns, whatever fails, if the chip finishes what it does   *)
(* and is polled (the loops of spi.c:121, 167 and spi_nor.c:917, 1004).     *)
(***************************************************************************)
CallsReturn == spc \notin {"idle", "done"} ~> spc = "done"
-----------------------------------------------------------------------------
(***************************************************************************)
(* Expectations that the code does not meet.                               *)
(*                                                                         *)
(* "Write remaining byte (if any)." (spi_nor.c:1023): an AAI write that    *)
(* returns zero has programmed the last byte of an odd range as well.      *)
(* Line 1025 passes pos % 2, which is 0, for its length.                   *)
(***************************************************************************)
RemainingByteIsWritten == ret = "zero" /\ fn = "aai" /\ Reliable => mem = Written(len)
=============================================================================
