-------------------------- MODULE ReadVerifyProofs --------------------------
(***************************************************************************)
(* What op_read_chip leaves in a file and what op_verify_chip says, for    *)
(* every chip, file and transfer, whatever is lost.                        *)
(***************************************************************************)
EXTENDS ReadVerify, DediprogTransferProofs

(***************************************************************************)
(* Files are functions on an interval from 0; the empty one is << >>.      *)
(***************************************************************************)
LEMMA EmptyFile ==
    /\ DOMAIN << >> = {}
    /\ \A S : << >> \in [0..0 - 1 -> S]
    /\ \A S : \A f \in [0..0 - 1 -> S] : f = << >>
<1>1. DOMAIN << >> = {}
  BY SMT
<1>2. ASSUME NEW S PROVE << >> \in [0..0 - 1 -> S]
  BY SMT
<1>3. ASSUME NEW S, NEW f \in [0..0 - 1 -> S] PROVE f = << >>
  BY SMT
<1>. QED
  BY <1>1, <1>2, <1>3

IsFile(f) == f = << >> \/ \E n \in 1..ChipSize : f \in [0..n - 1 -> SUBSET Bits]

LEMMA FileType ==
    ASSUME NEW f, NEW n \in 0..ChipSize, f \in [0..n - 1 -> SUBSET Bits]
    PROVE  IsFile(f)
<1>1. CASE n = 0
  BY <1>1, EmptyFile DEF IsFile
<1>2. CASE n # 0
  BY <1>2, TransferSizesAssumption, SMT DEF IsFile
<1>. QED
  BY <1>1, <1>2

LEMMA FileLength ==
    ASSUME NEW f, IsFile(f)
    PROVE  \E n \in 0..ChipSize : f \in [0..n - 1 -> SUBSET Bits]
<1>1. 0 \in 0..ChipSize /\ 1..ChipSize \subseteq 0..ChipSize
  BY TransferSizesAssumption, SMT
<1>2. CASE f = << >>
  <2>1. f \in [0..0 - 1 -> SUBSET Bits]
    BY <1>2, EmptyFile
  <2>. QED
    BY <1>1, <2>1
<1>3. CASE f # << >>
  BY <1>1, <1>3 DEF IsFile
<1>. QED
  BY <1>2, <1>3

(* Size is the number of bytes, as ftell has it.                            *)
LEMMA FileSize ==
    ASSUME NEW f, IsFile(f), f # << >>
    PROVE  Size(f) \in 1..ChipSize /\ DOMAIN f = 0..Size(f) - 1
<1>1. PICK n \in 1..ChipSize : f \in [0..n - 1 -> SUBSET Bits]
  BY DEF IsFile
<1>2. DOMAIN f = 0..n - 1
  BY <1>1
<1>. QED
  BY <1>2 DEF Size

LEMMA ChipIsFile ==
    ASSUME NEW f \in [Addr -> SUBSET Bits]
    PROVE  IsFile(f)
  BY FileType, TransferSizesAssumption, SMT DEF Addr
-----------------------------------------------------------------------------
(***************************************************************************)
(* The inductive invariant: TransferInv, and which transfer an operation   *)
(* that is under way waits for.                                            *)
(***************************************************************************)
Awaits ==
    opc # "idle" =>
        /\ op = "read" /\ start = 0
        /\ tpc # "idle" /\ outcome # "EINVAL"
        /\ fileFailed = {}

AwaitsChip ==
    opc = "reading" =>
        last = "read" /\ file = << >> /\ data0 = Blank /\ len = ChipSize

AwaitsFile ==
    opc = "verifying" =>
        last = "verify" /\ verdict = "none" /\ DOMAIN file = 0..len - 1 /\ data0 = Empty

(* Once an operation has returned nothing is transferred for it any more.   *)
Settled == opc = "idle" /\ last # "none" => tpc \in {"idle", "done"}

ReadVerifyInv ==
    /\ TransferInv
    /\ ReadVerifyTypeOK
    /\ IsFile(file)
    /\ Awaits /\ AwaitsChip /\ AwaitsFile
    /\ Settled
    /\ FileHoldsChip
    /\ VerdictIsTrue

LEMMA ReadVerifyInitEstablishes == ReadVerifyInit => ReadVerifyInv
<1>1. SUFFICES ASSUME ReadVerifyInit PROVE ReadVerifyInv
  OBVIOUS
<1>2. 0 \in 0..ChipSize
  BY TransferSizesAssumption, SMT
<1>3. ReadVerifyTypeOK
  BY <1>1, <1>2, EmptyFile DEF ReadVerifyInit, ReadVerifyTypeOK
<1>. QED
  BY <1>1, <1>3, TransferInitEstablishes
     DEF ReadVerifyInit, ReadVerifyInv, IsFile, Awaits, AwaitsChip, AwaitsFile, Settled,
         FileHoldsChip, VerdictIsTrue

LEMMA ReadVerifyStutterKeeps ==
    ASSUME ReadVerifyInv, UNCHANGED rvVars
    PROVE  ReadVerifyInv'
<1>1. UNCHANGED transferVars /\ UNCHANGED <<opc, file, verdict, returned, last, fileFailed>>
  BY DEF rvVars, operationVars
<1>2. UNCHANGED <<tpc, op, start, len, data, outcome, mem, data0, lost>>
  BY <1>1 DEF transferVars, callVars
<1>3. TransferInv'
  BY <1>1, TransferStutterKeeps DEF ReadVerifyInv
<1>4. ReadVerifyTypeOK' /\ IsFile(file)'
  BY <1>1, <1>2 DEF ReadVerifyInv, ReadVerifyTypeOK, IsFile
<1>5. Awaits' /\ AwaitsChip' /\ AwaitsFile' /\ Settled'
  BY <1>1, <1>2 DEF ReadVerifyInv, Awaits, AwaitsChip, AwaitsFile, Settled
<1>6. FileHoldsChip' /\ VerdictIsTrue'
  BY <1>1, <1>2 DEF ReadVerifyInv, FileHoldsChip, VerdictIsTrue
<1>. QED
  BY <1>3, <1>4, <1>5, <1>6 DEF ReadVerifyInv

LEMMA BuffersToReadInto == Empty \in Buffers /\ Blank \in Buffers /\ Images \subseteq Buffers
  BY TransferImagesAssumption, SMT DEF Empty, Blank, Erased, Buffers

(* A call with an aligned start, as those of the two operations are.        *)
LEMMA CallFromZero ==
    ASSUME ReadVerifyInv, NEW l \in 0..ChipSize, NEW b \in Buffers,
           CallTransfer("read", 0, l, b)
    PROVE  /\ TransferInv'
           /\ op' = "read" /\ start' = 0 /\ len' = l /\ data0' = b
           /\ tpc' = "prep" /\ outcome' = "none" /\ mem' = mem
<1>1. 0 \in Nat /\ l \in Nat /\ 0 + l <= ChipSize /\ 0 % DEDIPROG_MIN_ALIGN = 0
  BY TransferSizesAssumption, SMT
<1>. QED
  BY <1>1, CallKeeps DEF ReadVerifyInv, CallTransfer
-----------------------------------------------------------------------------
(***************************************************************************)
(* The steps.                                                              *)
(***************************************************************************)
LEMMA StartReadingKeeps ==
    ASSUME ReadVerifyInv, StartReading
    PROVE  ReadVerifyInv'
<1>1. /\ last' = "read" /\ verdict' = "none" /\ file' = << >>
      /\ opc' = "reading" /\ returned' = "none" /\ fileFailed' = {}
      /\ CallTransfer("read", 0, ChipSize, Blank)
  BY DEF StartReading, Begin
<1>2. ChipSize \in 0..ChipSize /\ 0 \in 0..ChipSize
  BY TransferSizesAssumption, SMT
<1>3. /\ TransferInv'
      /\ op' = "read" /\ start' = 0 /\ len' = ChipSize /\ data0' = Blank
      /\ tpc' = "prep" /\ outcome' = "none"
  BY <1>1, <1>2, BuffersToReadInto, CallFromZero
<1>4. ReadVerifyTypeOK' /\ IsFile(file)'
  BY <1>1, <1>2, <1>3, EmptyFile DEF ReadVerifyTypeOK, IsFile
<1>5. Awaits' /\ AwaitsChip' /\ AwaitsFile' /\ Settled'
  BY <1>1, <1>3 DEF Awaits, AwaitsChip, AwaitsFile, Settled
<1>6. FileHoldsChip' /\ VerdictIsTrue'
  BY <1>1 DEF FileHoldsChip, VerdictIsTrue
<1>. QED
  BY <1>3, <1>4, <1>5, <1>6 DEF ReadVerifyInv

LEMMA StartVerifyingKeeps ==
    ASSUME ReadVerifyInv, StartVerifying
    PROVE  ReadVerifyInv'
<1>1. /\ last' = "verify" /\ verdict' = "none" /\ fileFailed' = {}
      /\ opc = "idle" /\ tpc \in {"idle", "done"}
      /\ file' \in Files \cup {file}
  BY DEF StartVerifying, Begin
<1>2. IsFile(file')
  <2>1. ASSUME NEW f \in Files PROVE IsFile(f)
    BY FilesAssumption, FileType
  <2>. QED
    BY <1>1, <2>1 DEF ReadVerifyInv
<1>3. \E n \in 0..ChipSize : file' \in [0..n - 1 -> SUBSET Bits]
  BY <1>2, FileLength
<1>4. FileHoldsChip' /\ VerdictIsTrue'
  BY <1>1 DEF FileHoldsChip, VerdictIsTrue
<1>5. CASE file' = << >>
  <2>1. opc' = "idle" /\ returned' = "error" /\ UNCHANGED transferVars
    BY <1>5 DEF StartVerifying, Return
  <2>2. TransferInv' /\ tpc' = tpc
    BY <2>1, TransferStutterKeeps DEF ReadVerifyInv, transferVars
  <2>3. ReadVerifyTypeOK'
    BY <1>1, <1>3, <2>1 DEF ReadVerifyTypeOK
  <2>. QED
    BY <1>1, <1>2, <1>4, <2>1, <2>2, <2>3
       DEF ReadVerifyInv, IsFile, Awaits, AwaitsChip, AwaitsFile, Settled
<1>6. CASE file' # << >>
  <2>1. /\ CallTransfer("read", 0, Size(file'), Empty)
        /\ opc' = "verifying" /\ returned' = "none"
    BY <1>6 DEF StartVerifying
  <2>2. Size(file') \in 0..ChipSize /\ DOMAIN file' = 0..Size(file') - 1
    <3>1. Size(file') \in 1..ChipSize /\ DOMAIN file' = 0..Size(file') - 1
      BY <1>2, <1>6, FileSize
    <3>2. 1..ChipSize \subseteq 0..ChipSize
      BY TransferSizesAssumption, SMT
    <3>. QED
      BY <3>1, <3>2
  <2>3. /\ TransferInv'
        /\ op' = "read" /\ start' = 0 /\ len' = Size(file') /\ data0' = Empty
        /\ tpc' = "prep" /\ outcome' = "none"
    BY <2>1, <2>2, BuffersToReadInto, CallFromZero
  <2>4. ReadVerifyTypeOK'
    BY <1>1, <1>3, <2>1, <2>3 DEF ReadVerifyTypeOK
  <2>5. Awaits' /\ AwaitsChip' /\ AwaitsFile' /\ Settled'
    BY <1>1, <2>1, <2>2, <2>3 DEF Awaits, AwaitsChip, AwaitsFile, Settled
  <2>. QED
    BY <1>2, <1>4, <2>3, <2>4, <2>5 DEF ReadVerifyInv, IsFile
<1>. QED
  BY <1>5, <1>6

LEMMA RefusedKeeps ==
    ASSUME ReadVerifyInv,
           CannotReadFile \/ CannotOpen("read") \/ CannotOpen("verify")
    PROVE  ReadVerifyInv'
<1>1. /\ UNCHANGED transferVars /\ UNCHANGED file
      /\ opc' = "idle" /\ returned' = "error" /\ verdict' = "none"
      /\ tpc \in {"idle", "done"}
      /\ last' \in {"read", "verify"}
      /\ fileFailed' \subseteq FileMayFail
      /\ last' = "read" => "open" \in fileFailed'
  BY DEF CannotReadFile, CannotOpen, Begin, Return
<1>2. TransferInv' /\ tpc' = tpc
  BY <1>1, TransferStutterKeeps DEF ReadVerifyInv, transferVars
<1>3. ReadVerifyTypeOK' /\ IsFile(file)'
  BY <1>1 DEF ReadVerifyInv, ReadVerifyTypeOK, IsFile
<1>4. Awaits' /\ AwaitsChip' /\ AwaitsFile' /\ Settled'
  BY <1>1, <1>2 DEF Awaits, AwaitsChip, AwaitsFile, Settled
<1>5. FileHoldsChip' /\ VerdictIsTrue'
  BY <1>1 DEF FileHoldsChip, VerdictIsTrue
<1>. QED
  BY <1>2, <1>3, <1>4, <1>5 DEF ReadVerifyInv

LEMMA OtherTransferKeeps ==
    ASSUME ReadVerifyInv, OtherTransfer
    PROVE  ReadVerifyInv'
<1>1. /\ opc' = "idle" /\ last' = "none" /\ verdict' = "none" /\ returned' = "none"
      /\ fileFailed' = {} /\ file' = << >>
  BY DEF OtherTransfer
<1>2. TransferInv'
  BY TransferNextKeeps DEF OtherTransfer, TransferNext, ReadVerifyInv
<1>3. 0 \in 0..ChipSize
  BY TransferSizesAssumption, SMT
<1>4. ReadVerifyTypeOK' /\ IsFile(file)'
  BY <1>1, <1>3, EmptyFile DEF ReadVerifyTypeOK, IsFile
<1>. QED
  BY <1>1, <1>2, <1>4
     DEF ReadVerifyInv, Awaits, AwaitsChip, AwaitsFile, Settled, FileHoldsChip, VerdictIsTrue

LEMMA StepOfCall ==
    ASSUME TransferInv, TransferStep
    PROVE  /\ UNCHANGED <<op, start, len, data0>>
           /\ op = "read" => mem' = mem
           /\ tpc \notin {"idle", "done"} /\ tpc' # "idle"
           /\ outcome' # "EINVAL"
<1>1. CASE PrepMultiCmd
  BY <1>1 DEF PrepMultiCmd, callVars
<1>2. CASE ReadPage
  BY <1>2 DEF ReadPage, Transferred, BulkRead, callVars
<1>3. CASE WritePage
  BY <1>3 DEF WritePage, Transferred, BulkWrite, callVars
<1>4. CASE EndOfPages
  <2>1. outcome \in {"full", "short", "negative"}
    BY <1>4 DEF EndOfPages, TransferInv, UnderWay
  <2>. QED
    BY <1>4, <2>1 DEF EndOfPages, Returned, callVars
<1>5. CASE ReadResidue
  BY <1>5 DEF ReadResidue, callVars
<1>6. CASE WriteResidue
  BY <1>6 DEF WriteResidue, callVars
<1>. QED
  BY <1>1, <1>2, <1>3, <1>4, <1>5, <1>6 DEF TransferStep

LEMMA TransferringKeeps ==
    ASSUME ReadVerifyInv, Transferring
    PROVE  ReadVerifyInv'
<1>1. /\ TransferStep
      /\ UNCHANGED <<opc, file, verdict, returned, last, fileFailed>>
  BY DEF Transferring, operationVars
<1>2. TransferInv /\ TransferInv'
  BY <1>1, TransferStepKeeps DEF ReadVerifyInv
<1>3. /\ UNCHANGED <<op, start, len, data0>>
      /\ tpc \notin {"idle", "done"} /\ tpc' # "idle"
      /\ outcome' # "EINVAL"
  BY <1>1, <1>2, StepOfCall
<1>4. ReadVerifyTypeOK' /\ IsFile(file)'
  BY <1>1, <1>3 DEF ReadVerifyInv, ReadVerifyTypeOK, IsFile
<1>5. Awaits' /\ AwaitsChip' /\ AwaitsFile'
  BY <1>1, <1>3 DEF ReadVerifyInv, Awaits, AwaitsChip, AwaitsFile
<1>6. opc = "idle" => last = "none"
  BY <1>3 DEF ReadVerifyInv, Settled
<1>7. Settled'
  BY <1>1, <1>6 DEF Settled
<1>8. FileHoldsChip'
  BY <1>1, <1>6 DEF FileHoldsChip
<1>9. VerdictIsTrue'
  <2>1. opc # "idle" => last = "read" \/ verdict = "none"
    BY DEF ReadVerifyInv, ReadVerifyTypeOK, AwaitsChip, AwaitsFile
  <2>. QED
    BY <1>1, <1>6, <2>1 DEF VerdictIsTrue
<1>. QED
  BY <1>2, <1>4, <1>5, <1>7, <1>8, <1>9 DEF ReadVerifyInv

LEMMA VerifyKeeps ==
    ASSUME ReadVerifyInv, Verify
    PROVE  ReadVerifyInv'
<1>1. /\ opc = "verifying" /\ tpc = "done" /\ last = "verify"
      /\ op = "read" /\ start = 0 /\ outcome # "EINVAL" /\ DOMAIN file = 0..len - 1
      /\ data0 = Empty
      /\ TransferInv /\ ReadVerifyTypeOK /\ IsFile(file)
  BY DEF Verify, ReadVerifyInv, Awaits, AwaitsFile
<1>2. /\ UNCHANGED transferVars /\ UNCHANGED <<file, last, fileFailed>>
      /\ opc' = "idle" /\ returned' = "zero"
      /\ verdict' \in {"success", "failure"}
      /\ verdict' = "success" => \A a \in DOMAIN file : data[a] \in {file[a], Unread}
      /\ verdict' = "failure" => \E a \in DOMAIN file : data[a] # file[a]
  BY DEF Verify, Return, Compared
<1>3. TransferInv' /\ tpc' = tpc /\ lost' = lost /\ mem' = mem
  BY <1>1, <1>2, TransferStutterKeeps DEF transferVars
<1>4. ReadVerifyTypeOK' /\ IsFile(file)'
  BY <1>1, <1>2 DEF ReadVerifyTypeOK, IsFile
<1>5. Awaits' /\ AwaitsChip' /\ AwaitsFile' /\ Settled' /\ FileHoldsChip'
  BY <1>1, <1>2, <1>3 DEF Awaits, AwaitsChip, AwaitsFile, Settled, FileHoldsChip
<1>6. \A a \in DOMAIN file : a \in Addr /\ a \in Range
  BY <1>1, TransferSizesAssumption, SMT DEF Range, Addr, TransferInv, TransferTypeOK
<1>7. ASSUME lost = {} PROVE (verdict' = "success") = (\A a \in DOMAIN file : file[a] = mem[a])
  <2>1. \A a \in DOMAIN file : data[a] = mem[a] /\ mem[a] # Unread
    BY <1>1, <1>6, <1>7, UnreadAssumption DEF TransferInv, ReadDelivers, TransferTypeOK
  <2>2. CASE verdict' = "success"
    BY <1>2, <2>1, <2>2
  <2>3. CASE verdict' = "failure"
    BY <1>2, <2>1, <2>3
  <2>. QED
    BY <1>2, <2>2, <2>3
<1>8. ASSUME verdict' = "success", NEW a \in DOMAIN file
      PROVE  file[a] = mem[a] \/ data[a] \in {Unread, Erased}
  <2>1. data[a] = file[a] \/ data[a] = Unread
    BY <1>2, <1>8
  <2>2. data[a] = mem[a] \/ data[a] = data0[a] \/ data[a] = Erased
    BY <1>1, <1>6, <1>8 DEF TransferInv, ReadsPrefix
  <2>3. data0[a] = Unread
    BY <1>1, <1>6, <1>8 DEF Empty
  <2>. QED
    BY <2>1, <2>2, <2>3
<1>9. VerdictIsTrue'
  BY <1>2, <1>3, <1>7, <1>8 DEF VerdictIsTrue, transferVars
<1>. QED
  BY <1>3, <1>4, <1>5, <1>9 DEF ReadVerifyInv

(* What is in the buffer when op_read_chip writes it to the file.           *)
LEMMA BufferOfRead ==
    ASSUME ReadVerifyInv, opc = "reading", tpc = "done"
    PROVE  /\ data \in [Addr -> SUBSET Bits]
           /\ \E n \in 0..ChipSize : \A a \in Addr :
                 data[a] = IF a < n THEN mem[a] ELSE Erased
           /\ lost = {} => outcome = "full" /\ data = mem
<1>1. /\ op = "read" /\ start = 0 /\ len = ChipSize /\ data0 = Blank /\ outcome # "EINVAL"
      /\ TransferTypeOK /\ ReadDelivers /\ ReadsPrefix
  BY DEF ReadVerifyInv, TransferInv, Awaits, AwaitsChip
<1>2. \A a \in Addr : a \in Int /\ 0 <= a /\ a \in Range
  BY <1>1, TransferSizesAssumption, SMT DEF Addr, Range
<1>3. \A n \in 0..ChipSize : 0 + n = n
  BY TransferSizesAssumption, SMT
<1>4. PICK n \in 0..ChipSize : \A a \in Addr : data[a] = IF a < n THEN mem[a] ELSE Erased
  BY <1>1, <1>2, <1>3 DEF ReadsPrefix, Blank
<1>5. data \in [Addr -> SUBSET Bits]
  <2>1. Erased \in SUBSET Bits
    BY DEF Erased
  <2>2. ASSUME NEW a \in Addr PROVE data[a] \in SUBSET Bits
    BY <1>1, <1>4, <2>1 DEF TransferTypeOK
  <2>. QED
    BY <1>1, <2>2 DEF TransferTypeOK
<1>6. lost = {} => outcome = "full" /\ data = mem
  <2>1. SUFFICES ASSUME lost = {} PROVE outcome = "full" /\ data = mem
    OBVIOUS
  <2>2. outcome = "full" /\ \A a \in Addr : data[a] = mem[a]
    BY <1>1, <1>2, <2>1 DEF ReadDelivers
  <2>. QED
    BY <1>1, <2>2 DEF TransferTypeOK
<1>. QED
  BY <1>4, <1>5, <1>6

(* A file that is cut off is a beginning of what was to be written.         *)
LEMMA CutFile ==
    ASSUME NEW f \in [Addr -> SUBSET Bits], NEW n \in 0..ChipSize
    PROVE  /\ IsFile(Cut(f, n))
           /\ \A a \in DOMAIN Cut(f, n) : a \in Addr /\ Cut(f, n)[a] = f[a]
<1>1. CASE n = 0
  BY <1>1, EmptyFile DEF Cut, IsFile
<1>2. CASE n # 0
  <2>1. 0..n - 1 \subseteq Addr
    BY TransferSizesAssumption, SMT DEF Addr
  <2>2. Cut(f, n) = [a \in 0..n - 1 |-> f[a]]
    BY <1>2 DEF Cut
  <2>3. Cut(f, n) \in [0..n - 1 -> SUBSET Bits]
    BY <2>1, <2>2
  <2>. QED
    BY <2>1, <2>2, <2>3, FileType
<1>. QED
  BY <1>1, <1>2

LEMMA ReadKeeps ==
    ASSUME ReadVerifyInv, Read
    PROVE  ReadVerifyInv'
<1>1. /\ opc = "reading" /\ tpc = "done" /\ last = "read" /\ file = << >>
      /\ fileFailed = {} /\ TransferInv /\ ReadVerifyTypeOK
  BY DEF Read, ReadVerifyInv, Awaits, AwaitsChip
<1>2. /\ UNCHANGED transferVars /\ UNCHANGED <<verdict, last>>
      /\ opc' = "idle" /\ returned' \in {"zero", "error"}
      /\ fileFailed' \subseteq FileMayFail
      /\ \/ file' = << >> \/ file' = data
         \/ \E n \in Cuts : file' = Cut(data, n)
      /\ \/ outcome = "negative"
         \/ returned' = "zero" /\ file' = data
         \/ fileFailed' # {}
  BY <1>1 DEF Read, Return, FileFails, ReadVerifyTypeOK
<1>3. TransferInv' /\ tpc' = tpc /\ lost' = lost /\ mem' = mem
  BY <1>1, <1>2, TransferStutterKeeps DEF transferVars
<1>4. /\ data \in [Addr -> SUBSET Bits]
      /\ lost = {} => outcome = "full" /\ data = mem
  BY <1>1, BufferOfRead
<1>5. PICK n \in 0..ChipSize : \A a \in Addr : data[a] = IF a < n THEN mem[a] ELSE Erased
  BY <1>1, BufferOfRead
<1>6. IsFile(file') /\ \A a \in DOMAIN file' : a \in Addr /\ file'[a] = data[a]
  <2>1. CASE file' = << >>
    BY <2>1, EmptyFile DEF IsFile
  <2>2. CASE file' = data
    BY <1>4, <2>2, ChipIsFile
  <2>3. CASE \E k \in Cuts : file' = Cut(data, k)
    BY <1>4, <2>3, FilesAssumption, CutFile
  <2>. QED
    BY <1>2, <2>1, <2>2, <2>3
<1>7. ReadVerifyTypeOK'
  BY <1>1, <1>2, <1>6, FileLength DEF ReadVerifyTypeOK
<1>8. Awaits' /\ AwaitsChip' /\ AwaitsFile' /\ Settled' /\ VerdictIsTrue'
  BY <1>1, <1>2, <1>3 DEF Awaits, AwaitsChip, AwaitsFile, Settled, VerdictIsTrue
<1>9. FileHoldsChip'
  <2>1. \A a \in DOMAIN file' : file'[a] = IF a < n THEN mem[a] ELSE Erased
    BY <1>5, <1>6
  <2>2. lost \cup fileFailed' = {} => returned' = "zero" /\ file' = mem
    BY <1>2, <1>4
  <2>. QED
    BY <1>3, <2>1, <2>2 DEF FileHoldsChip
<1>. QED
  BY <1>3, <1>6, <1>7, <1>8, <1>9 DEF ReadVerifyInv, IsFile
-----------------------------------------------------------------------------
LEMMA ReadVerifyNextKeeps ==
    ASSUME ReadVerifyInv, ReadVerifyNext
    PROVE  ReadVerifyInv'
  BY StartReadingKeeps, StartVerifyingKeeps, RefusedKeeps, OtherTransferKeeps,
     TransferringKeeps, ReadKeeps, VerifyKeeps
     DEF ReadVerifyNext, OperationStep

(* ReadVerifyInv is inductive; fairness plays no part in it.                *)
LEMMA ReadVerifyInvariant == ReadVerifySpec => []ReadVerifyInv
<1>1. ReadVerifyInit => ReadVerifyInv
  BY ReadVerifyInitEstablishes
<1>2. ReadVerifyInv /\ [ReadVerifyNext]_rvVars => ReadVerifyInv'
  BY ReadVerifyNextKeeps, ReadVerifyStutterKeeps
<1>. QED
  BY <1>1, <1>2, PTL DEF ReadVerifySpec

(***************************************************************************)
(* Type correctness of the operations and of the transfers they make.      *)
(***************************************************************************)
THEOREM ReadVerifyTypeCorrect == ReadVerifySpec => [](TransferTypeOK /\ ReadVerifyTypeOK)
<1>1. ReadVerifyInv => TransferTypeOK /\ ReadVerifyTypeOK
  BY DEF ReadVerifyInv, TransferInv
<1>. QED
  BY <1>1, ReadVerifyInvariant, PTL

(***************************************************************************)
(* The transfers keep what DediprogTransferProofs shows of them when it is *)
(* op_read_chip, op_verify_chip and others that make them.                 *)
(***************************************************************************)
THEOREM TransfersOfOperations == ReadVerifySpec => [](ReadDelivers /\ WritesAsAllowed)
<1>1. ReadVerifyInv => ReadDelivers /\ WritesAsAllowed
  BY DEF ReadVerifyInv, TransferInv
<1>. QED
  BY <1>1, ReadVerifyInvariant, PTL

(***************************************************************************)
(* op_read_chip: whatever fails, the file holds a beginning of the chip    *)
(* followed by 0xff, and all of the chip if nothing failed.                *)
(***************************************************************************)
THEOREM FileAlwaysHoldsChip == ReadVerifySpec => []FileHoldsChip
<1>1. ReadVerifyInv => FileHoldsChip
  BY DEF ReadVerifyInv
<1>. QED
  BY <1>1, ReadVerifyInvariant, PTL

(***************************************************************************)
(* op_verify_chip: with no transfer lost its verdict is the truth, for     *)
(* files of every length and contents, and whatever is lost "success" is   *)
(* wrong at most on bytes that were not read.                              *)
(***************************************************************************)
THEOREM VerdictIsAlwaysTrue == ReadVerifySpec => []VerdictIsTrue
<1>1. ReadVerifyInv => VerdictIsTrue
  BY DEF ReadVerifyInv
<1>. QED
  BY <1>1, ReadVerifyInvariant, PTL
=============================================================================
