---------------------------- MODULE SpiNorProofs ----------------------------
(***************************************************************************)
(* What the functions of bus/spi_nor.c and bus/spi.c do, for every chip,   *)
(* every size of page and of chunk, and all commands that may fail.        *)
(***************************************************************************)
EXTENDS SpiNor, TLAPS

(***************************************************************************)
(* Arithmetic of pages.                                                    *)
(***************************************************************************)
LEMMA Division ==
    ASSUME NEW n \in Nat, NEW p \in Nat \ {0}
    PROVE  /\ n % p \in 0..p - 1
           /\ n \div p \in Nat
           /\ (n \div p) * p + (n % p) = n
  BY SMT

LEMMA Products ==
    ASSUME NEW k \in Nat, NEW m \in Nat, NEW p \in Nat \ {0}
    PROVE  /\ k * p \in Nat
           /\ k <= k * p
           /\ (k + 1) * p = k * p + p
           /\ k <= m => k * p <= m * p
           /\ k < m => k * p + p <= m * p
<1>1. k * p \in Nat /\ k <= k * p
  BY SMT
<1>2. (k + 1) * p = k * p + p
  BY SMT
<1>3. ASSUME k <= m PROVE k * p <= m * p
  BY <1>3, SMT
<1>4. ASSUME k < m PROVE k * p + p <= m * p
  BY <1>4, SMT
<1>. QED
  BY <1>1, <1>2, <1>3, <1>4

(* The page of an address is the one between whose bounds it lies.          *)
LEMMA PageOfAddress ==
    ASSUME NEW n \in Nat, NEW p \in Nat \ {0}, NEW q \in Nat
    PROVE  /\ (n \div p) * p <= n /\ n < (n \div p) * p + p
           /\ q * p <= n <=> q <= n \div p
           /\ q * p <= n /\ n < (q + 1) * p => n \div p = q /\ n % p = n - q * p
<1> DEFINE d == n \div p
<1>1. d \in Nat /\ n % p \in 0..p - 1 /\ d * p + (n % p) = n
  BY Division
<1>2. d * p \in Nat /\ q * p \in Nat /\ (q + 1) * p = q * p + p
  BY <1>1, Products
<1> HIDE DEF d
<1>3. d * p <= n /\ n < d * p + p
  BY <1>1, <1>2, SMT
<1>4. ASSUME q <= d PROVE q * p <= n
  <2>1. q * p <= d * p
    BY <1>1, <1>4, Products
  <2>. QED
    BY <1>2, <1>3, <2>1, SMT
<1>5. ASSUME q * p <= n PROVE q <= d
  <2>1. ASSUME d < q PROVE FALSE
    <3>1. d * p + p <= q * p
      BY <1>1, <2>1, Products
    <3>. QED
      BY <1>2, <1>3, <1>5, <3>1, SMT
  <2>. QED
    BY <1>1, <2>1, SMT
<1>6. ASSUME q * p <= n, n < (q + 1) * p PROVE d = q /\ n % p = n - q * p
  <2>1. q <= d
    BY <1>5, <1>6
  <2>2. ASSUME q < d PROVE FALSE
    <3>1. q * p + p <= d * p
      BY <1>1, <2>2, Products
    <3>. QED
      BY <1>2, <1>3, <1>6, <3>1, SMT
  <2>3. d = q
    BY <1>1, <2>1, <2>2, SMT
  <2>. QED
    BY <1>1, <1>2, <2>3, SMT
<1>. QED
  BY <1>3, <1>4, <1>5, <1>6 DEF d

LEMMA Sizes ==
    /\ ChipSize \in Nat \ {0} /\ PageSize \in Nat \ {0}
    /\ ChipSize >= 2
    /\ ChipSize \div PageSize \in Nat
    /\ (ChipSize \div PageSize) * PageSize = ChipSize
    /\ ChipSize \div PageSize <= ChipSize
<1>1. /\ ChipSize \in Nat \ {0} /\ PageSize \in Nat \ {0}
      /\ ChipSize % PageSize = 0 /\ ChipSize % 2 = 0
  BY SpiSizesAssumption
<1>2. ChipSize >= 2
  BY <1>1, SMT
<1>3. /\ ChipSize \div PageSize \in Nat
      /\ (ChipSize \div PageSize) * PageSize = ChipSize
  <2>1. /\ ChipSize \div PageSize \in Nat
        /\ (ChipSize \div PageSize) * PageSize + (ChipSize % PageSize) = ChipSize
    BY <1>1, Division
  <2>2. (ChipSize \div PageSize) * PageSize \in Nat
    BY <1>1, <2>1, Products
  <2>. QED
    BY <1>1, <2>1, <2>2, SMT
<1>4. ChipSize \div PageSize <= (ChipSize \div PageSize) * PageSize
  BY <1>1, <1>3, Products
<1>. QED
  BY <1>1, <1>2, <1>3, <1>4
-----------------------------------------------------------------------------
(***************************************************************************)
(* What holds whatever fails and however the chip was found: the arguments *)
(* stay in the chip, and the loops where their functions put them.         *)
(***************************************************************************)
Changing == {c \in Command : c.op # "READ"}

Arguments ==
    /\ spc = "idle" => fn = "none"
    /\ fn \in Writers \cup {"read"} => start + len <= ChipSize /\ len > 0
    /\ fn \in Writers => data \in [Addr -> Value]
    /\ fn # "read" => cmds \in Seq(Changing)
    /\ mem0 \in [Addr -> Value]

Stages ==
    /\ stage = "none" => spc \in {"idle", "done"}
    /\ spc = "idle" => stage = "none"
    /\ spc # "done" => ret = "none"
    /\ stage = "erase" => fn = "erase"
    /\ stage = "pages" => /\ fn \in {"read", "write_256"}
                          /\ max_data \in Nat \ {0}
                          /\ start \div PageSize <= i /\ i <= LastPage + 1
    /\ stage = "bytes" => fn \in {"write_1", "aai"} /\ start <= i /\ i <= until
    /\ stage = "bytes" /\ fn = "write_1" => until = start + len
    /\ stage = "bytes" /\ fn = "aai" => i = until /\ i = pos
    /\ stage = "first" => pos = start /\ start <= i /\ i <= until /\ until = start + (start % 2)
    /\ stage \in {"first", "word", "cont", "last", "bail"} => fn = "aai"
    /\ stage = "word" => pos = start + (start % 2) /\ pos <= ChipSize
    /\ stage \in {"word", "cont", "last"} => start <= pos /\ pos % 2 = 0
    /\ stage = "bytes" /\ fn = "aai" => pos % 2 = 0

(* Up to where a call has come, by the locals of its loop.                  *)
At == IF stage = "pages" THEN IF i > LastPage THEN start + len ELSE starthere + Lower(j, lenhere)
      ELSE IF stage = "bytes" THEN i
      ELSE pos

Within(e) == start <= e /\ e <= start + len

WrittenUpTo(e) ==
    mem = [a \in Addr |-> IF start <= a /\ a < e THEN mem0[a] \cap data[a] ELSE mem0[a]]

FitsPage(b, n) == \E q \in 0..ChipSize : q * PageSize <= b /\ b + n <= (q + 1) * PageSize

(* The chip has taken the word before pos and awaits the next one.          *)
TookWord == aai = {pos % ChipSize} /\ WrittenUpTo(pos)

(***************************************************************************)
(* A write on a reliable chip: what the chip holds and expects             *)
(***************************************************************************)
BetweenCommands ==
    spc = "loop" =>
        /\ stage # "first"
        /\ stage # "bail" => Within(At) /\ WrittenUpTo(At)
        /\ stage \in {"pages", "bytes", "word"} => Listening /\ (At > start => ~wel)
        /\ stage = "cont" => ~wip /\ wel /\ aai = {pos % ChipSize} /\ pos > start
        /\ stage = "last" => Listening /\ ~wel /\ pos >= start + len - 1 /\ pos > start
        /\ stage = "bytes" /\ fn = "aai" => pos >= start + len - 1 /\ pos > start
        /\ stage = "bail" => PrefixWritten /\ (aai = {} \/ TookWord)

Polling ==
    spc = "poll" =>
        /\ stage \in {"pages", "bytes", "cont"}
        /\ Within(At) /\ WrittenUpTo(At) /\ At > start
        /\ stage \in {"pages", "bytes"} => aai = {} /\ (wip \/ ~wel)
        /\ stage = "bytes" => fn = "write_1"
        /\ stage = "cont" => wel /\ aai = {pos % ChipSize}

ProgramPending(b) ==
    \E n \in 1..ChipSize :
        /\ b + n = At /\ FitsPage(b, n)
        /\ Listening
        /\ \/ cmds = <<WREN, Program(b, Piece(b, n))>>
           \/ cmds = <<Program(b, Piece(b, n))>> /\ wel

WordPending(b) ==
    /\ b + 2 = pos
    /\ ~wip
    /\ \/ aai = {} /\ cmds = <<WREN, AAIWord(b, <<data[b], data[b + 1]>>)>>
       \/ aai = {} /\ cmds = <<AAIWord(b, <<data[b], data[b + 1]>>)>> /\ wel
       \/ aai = {b} /\ cmds = <<AAICont(Piece(b, 2))>> /\ wel

CommandPending ==
    spc = "send" =>
        \/ /\ stage \in {"pages", "bytes"}
           /\ stage = "bytes" => fn = "write_1"
           /\ \E b \in Addr : ProgramPending(b) /\ Within(b) /\ Within(At) /\ WrittenUpTo(b)
        \/ /\ stage = "cont"
           /\ \E b \in Addr : WordPending(b) /\ Within(b) /\ Within(pos) /\ WrittenUpTo(b)
        \/ /\ stage = "last" /\ cmds = <<WRDI>>
           /\ Within(pos) /\ WrittenUpTo(pos) /\ pos >= start + len - 1 /\ pos > start
           /\ ~wip /\ aai # {}
        \/ stage = "bail" /\ cmds = <<WRDI>> /\ PrefixWritten /\ (wip => TookWord)

WriteInv ==
    fn \in Writers /\ Reliable =>
        /\ BetweenCommands
        /\ Polling
        /\ CommandPending
        /\ spc = "done" => PrefixWritten /\ WriteIsExact /\ SuccessLeavesChipReady

EraseInv ==
    fn = "erase" /\ Reliable =>
        /\ stage = "erase" => len = EraseSize[opcode] /\ opcode \in Opcodes
        /\ spc = "send" =>
              /\ stage = "erase" /\ Listening /\ mem = mem0
              /\ \/ cmds = <<WREN, Erase(opcode, start)>>
                 \/ cmds = <<Erase(opcode, start)>> /\ (wel \/ opcode \in SelfEnabled)
        /\ spc \in {"poll", "loop"} =>
              /\ stage = "erase"
              /\ mem = EraseCells(mem0, BlockOf(start, len), len)
              /\ aai = {} /\ (wip \/ ~wel) /\ (spc = "loop" => ~wip)
        /\ spc = "done" => EraseIsExact /\ SuccessLeavesChipReady

ReadUpTo(e) == data = [a \in Addr |-> IF start <= a /\ a < e THEN mem[a] ELSE Unread]

ReadInv ==
    fn = "read" /\ ready0 =>
        /\ Listening
        /\ spc # "poll"
        /\ spc = "loop" => stage = "pages" /\ Within(At) /\ ReadUpTo(At)
        /\ spc = "send" =>
              /\ stage = "pages"
              /\ \E b \in Addr, n \in 1..ChipSize :
                    /\ cmds = <<Read(b, n)>> /\ b + n = At /\ Within(b) /\ Within(At)
                    /\ ReadUpTo(b)
        /\ spc = "done" => ReadIsExact
-----------------------------------------------------------------------------
(***************************************************************************)
(* What a chip does with the commands of this module.                      *)
(***************************************************************************)
LEMMA ReceiveKeepsType ==
    ASSUME ChipTypeOK, NEW c, c.op = "AAI" => c.addr \in Nat, Receive(c)
    PROVE  ChipTypeOK'
<1>1. \A a \in Nat : (a + 2) % ChipSize \in Addr
  BY Sizes, SMT DEF Addr
<1>2. \A s, a : ProgramWord(mem, a, s) \in [Addr -> Value]
  BY DEF ProgramWord, ChipTypeOK, Value
<1>3. \A s, a : ProgramPage(mem, a, s) \in [Addr -> Value]
  BY DEF ProgramPage, ChipTypeOK, Value
<1>4. \A lo, size : EraseCells(mem, lo, size) \in [Addr -> Value]
  BY DEF EraseCells, ChipTypeOK, Value, Erased
<1>5. \A a \in Addr : a \in Nat
  BY Sizes, SMT DEF Addr
<1>6. ASSUME NEW s, NextWord(s) PROVE ChipTypeOK'
  BY <1>1, <1>2, <1>5, <1>6 DEF NextWord, ChipTypeOK
<1>7. CASE UNCHANGED chipVars
  BY <1>7 DEF ChipTypeOK, chipVars
<1>8. CASE WhenIdle(c)
  BY <1>1, <1>2, <1>3, <1>4, <1>8 DEF WhenIdle, ChipTypeOK, chipVars
<1>9. CASE WhenAAI(c)
  BY <1>6, <1>9 DEF WhenAAI, ChipTypeOK, chipVars
<1>. QED
  BY <1>7, <1>8, <1>9 DEF Receive

LEMMA HearsWREN ==
    ASSUME Listening, Receive(WREN)
    PROVE  wel' = TRUE /\ UNCHANGED <<mem, wip, aai>>
  BY DEF Listening, Receive, WhenIdle, WREN

LEMMA HearsProgram ==
    ASSUME NEW a, NEW s, Listening, wel, Receive(Program(a, s))
    PROVE  /\ mem' = ProgramPage(mem, a, s)
           /\ wip' = TRUE
           /\ UNCHANGED <<wel, aai>>
  BY DEF Listening, Receive, WhenIdle, Program

LEMMA HearsErase ==
    ASSUME NEW o, NEW a, Listening, wel \/ o \in SelfEnabled, Receive(Erase(o, a))
    PROVE  /\ mem' = EraseCells(mem, BlockOf(a, EraseSize[o]), EraseSize[o])
           /\ wip' = TRUE
           /\ UNCHANGED <<wel, aai>>
  BY DEF Listening, Receive, WhenIdle, Erase

LEMMA HearsAAI ==
    ASSUME NEW a, NEW s, Listening, wel, Receive(AAIWord(a, s))
    PROVE  /\ mem' = ProgramWord(mem, a, s)
           /\ wip' = TRUE
           /\ aai' = {(a + 2) % ChipSize}
           /\ UNCHANGED wel
  BY DEF Listening, Receive, WhenIdle, AAIWord

LEMMA HearsAAICont ==
    ASSUME NEW a, NEW s, ~wip, aai = {a}, Receive(AAICont(s))
    PROVE  /\ mem' = ProgramWord(mem, a, s)
           /\ wip' = TRUE
           /\ aai' = {(a + 2) % ChipSize}
           /\ UNCHANGED wel
  BY DEF Receive, WhenAAI, NextWord, AAICont

LEMMA HearsWRDI ==
    ASSUME Receive(WRDI)
    PROVE  /\ UNCHANGED <<mem, wip>>
           /\ IF wip THEN aai' = aai ELSE wel' = FALSE /\ aai' = {}
  BY DEF Receive, WhenIdle, WhenAAI, WRDI, chipVars

LEMMA HearsRead ==
    ASSUME NEW a, NEW n, Listening, Receive(Read(a, n))
    PROVE  UNCHANGED chipVars
  BY DEF Listening, Receive, WhenIdle, Read, chipVars

(***************************************************************************)
(* A page program that stays in its page puts every byte where it belongs. *)
(***************************************************************************)
LEMMA ProgramsPiece ==
    ASSUME NEW b \in Addr, NEW n \in 1..ChipSize, FitsPage(b, n), mem \in [Addr -> Value]
    PROVE  ProgramPage(mem, b, Piece(b, n)) =
              [a \in Addr |-> IF b <= a /\ a < b + n THEN mem[a] \cap data[a] ELSE mem[a]]
<1>1. PICK q \in 0..ChipSize : q * PageSize <= b /\ b + n <= (q + 1) * PageSize
  BY DEF FitsPage
<1>2. /\ q \in Nat /\ b \in Nat /\ n \in Nat /\ n >= 1
      /\ PageSize \in Nat \ {0} /\ ChipSize \in Nat
      /\ q * PageSize \in Nat /\ (q + 1) * PageSize = q * PageSize + PageSize
  <2>1. /\ q \in Nat /\ b \in Nat /\ n \in Nat /\ n >= 1
        /\ PageSize \in Nat \ {0} /\ ChipSize \in Nat
    BY Sizes, SMT DEF Addr
  <2>. QED
    BY <2>1, Products
<1>3. ASSUME NEW k \in 1..n PROVE InPage(b, k - 1) = b + k - 1
  <2> DEFINE x == b + (k - 1)
  <2>1. x \in Nat /\ q * PageSize <= x /\ x < (q + 1) * PageSize
    BY <1>1, <1>2, SMT
  <2> HIDE DEF x
  <2>2. x % PageSize = x - q * PageSize
    BY <1>2, <2>1, PageOfAddress
  <2>3. b \div PageSize = q
    <3>1. b < (q + 1) * PageSize
      BY <1>1, <1>2, SMT
    <3>. QED
      BY <1>1, <1>2, <3>1, PageOfAddress
  <2>4. InPage(b, k - 1) = q * PageSize + (x % PageSize)
    BY <2>3 DEF InPage, BlockOf, x
  <2>. QED
    BY <1>2, <2>2, <2>4, SMT DEF x
<1>4. Len(Piece(b, n)) = n /\ \A k \in 1..n : Piece(b, n)[k] = data[b + k - 1]
  BY <1>2, SMT DEF Piece
<1>5. ASSUME NEW a \in Addr
      PROVE  (IF \E k \in 1..Len(Piece(b, n)) : InPage(b, k - 1) = a
              THEN mem[a] \cap Piece(b, n)[CHOOSE k \in 1..Len(Piece(b, n)) : InPage(b, k - 1) = a]
              ELSE mem[a])
             = IF b <= a /\ a < b + n THEN mem[a] \cap data[a] ELSE mem[a]
  <2> DEFINE k0 == CHOOSE k \in 1..n : InPage(b, k - 1) = a
  <2>1. a \in Nat
    BY Sizes, SMT DEF Addr
  <2>2. CASE b <= a /\ a < b + n
    <3>1. a - b + 1 \in 1..n /\ InPage(b, (a - b + 1) - 1) = a
      <4>1. a - b + 1 \in 1..n
        BY <1>2, <2>1, <2>2, SMT
      <4>2. InPage(b, (a - b + 1) - 1) = b + (a - b + 1) - 1
        BY <1>3, <4>1
      <4>. QED
        BY <1>2, <2>1, <4>1, <4>2, SMT
    <3>2. k0 \in 1..n /\ InPage(b, k0 - 1) = a
      BY <3>1
    <3> HIDE DEF k0
    <3>3. b + k0 - 1 = a
      BY <1>3, <3>2
    <3>4. Piece(b, n)[k0] = data[a]
      BY <1>4, <3>2, <3>3
    <3>. QED
      BY <1>4, <2>2, <3>1, <3>4 DEF k0
  <2>3. CASE ~(b <= a /\ a < b + n)
    <3>1. \A k \in 1..n : InPage(b, k - 1) # a
      <4>1. SUFFICES ASSUME NEW k \in 1..n PROVE InPage(b, k - 1) # a
        OBVIOUS
      <4>2. InPage(b, k - 1) = b + k - 1
        BY <1>3
      <4>. QED
        BY <1>2, <2>1, <2>3, <4>2, SMT
    <3>. QED
      BY <1>4, <2>3, <3>1
  <2>. QED
    BY <2>2, <2>3
<1>. QED
  BY <1>5 DEF ProgramPage

LEMMA ProgramsWord ==
    ASSUME NEW b \in Addr, b + 1 \in Addr, NEW s,
           s[1] = data[b], s[2] = data[b + 1], mem \in [Addr -> Value]
    PROVE  ProgramWord(mem, b, s) =
              [a \in Addr |-> IF b <= a /\ a < b + 2 THEN mem[a] \cap data[a] ELSE mem[a]]
<1>1. b % ChipSize = b /\ (b + 1) % ChipSize = b + 1
  BY Sizes, SMT DEF Addr
<1>2. \A a \in Addr : (b <= a /\ a < b + 2) <=> (a = b \/ a = b + 1)
  BY Sizes, SMT DEF Addr
<1>3. b # b + 1
  BY Sizes, SMT DEF Addr
<1>4. ProgramWord(mem, b, s) =
        [mem EXCEPT ![b] = @ \cap data[b], ![b + 1] = @ \cap data[b + 1]]
  BY <1>1 DEF ProgramWord
<1>. QED
  BY <1>2, <1>3, <1>4
-----------------------------------------------------------------------------
(***************************************************************************)
(* The pages of a range: the loop of spi_read_chunked and                  *)
(* spi_write_chunked visits each of them from its first byte in the range  *)
(* to its last, and At does not move between one and the next.             *)
(***************************************************************************)
Base == SpiTypeOK /\ Arguments /\ Stages

LEMMA Numbers ==
    ASSUME SpiTypeOK
    PROVE  /\ start \in Nat /\ len \in Nat /\ i \in Nat /\ j \in Nat /\ until \in Nat /\ pos \in Nat
           /\ start <= ChipSize /\ len <= ChipSize /\ until <= ChipSize
<1>1. i \in 0..ChipSize \div PageSize \/ i \in 0..ChipSize
  BY DEF SpiTypeOK
<1>2. i \in Nat
  BY <1>1, Sizes, SMT
<1>. QED
  BY <1>2, Sizes, SMT DEF SpiTypeOK

LEMMA LastPageInChip ==
    ASSUME NEW s \in Nat, NEW l \in Nat \ {0}, s + l <= ChipSize
    PROVE  /\ (s + l - 1) \div PageSize \in Nat
           /\ (s + l - 1) \div PageSize + 1 <= ChipSize \div PageSize
           /\ s \div PageSize <= (s + l - 1) \div PageSize
           /\ s \div PageSize \in Nat
<1> DEFINE e == s + l - 1
           last == e \div PageSize
           size == ChipSize \div PageSize
           first == s \div PageSize
<1>1. e \in Nat /\ s <= e /\ e < ChipSize /\ PageSize \in Nat \ {0} /\ ChipSize \in Nat
  BY Sizes, SMT
<1> HIDE DEF e
<1>2. last \in Nat /\ first \in Nat /\ last * PageSize <= e /\ first * PageSize <= s
  BY <1>1, Division, PageOfAddress
<1>3. size \in Nat /\ size * PageSize = ChipSize
  BY Sizes
<1> HIDE DEF last, size, first
<1>4. /\ last * PageSize \in Nat /\ first * PageSize \in Nat
  BY <1>1, <1>2, Products
<1>5. last < size
  <2>1. ASSUME size <= last PROVE FALSE
    <3>1. size * PageSize <= last * PageSize
      BY <1>1, <1>2, <1>3, <2>1, Products
    <3>. QED
      BY <1>1, <1>2, <1>3, <1>4, <3>1, SMT
  <2>. QED
    BY <1>2, <1>3, <2>1, SMT
<1>6. first <= last
  <2>1. first * PageSize <= e
    BY <1>1, <1>2, <1>4, SMT
  <2>. QED
    BY <1>1, <1>2, <2>1, PageOfAddress DEF last
<1>. QED
  BY <1>2, <1>3, <1>5, <1>6, SMT DEF e, last, size, first

LEMMA PageBounds ==
    ASSUME Base, stage = "pages"
    PROVE  /\ i \in Nat /\ LastPage \in Nat /\ LastPage + 1 <= ChipSize \div PageSize
           /\ start \in Nat /\ len \in Nat \ {0} /\ start + len <= ChipSize
           /\ i * PageSize \in Nat /\ (i + 1) * PageSize = i * PageSize + PageSize
           /\ start < (i + 1) * PageSize
           /\ i <= LastPage => i * PageSize <= start + len - 1
           /\ i >= LastPage => start + len <= (i + 1) * PageSize
<1>1. /\ i \in Nat /\ start \in Nat /\ len \in Nat \ {0} /\ start + len <= ChipSize
      /\ start \div PageSize <= i
  <2>1. start \in Nat /\ len \in Nat /\ i \in Nat
    BY Numbers DEF Base
  <2>2. fn \in {"read", "write_256"} /\ start \div PageSize <= i
    BY DEF Base, Stages
  <2>3. start + len <= ChipSize /\ len > 0
    BY <2>2 DEF Base, Arguments, Writers
  <2>. QED
    BY <2>1, <2>2, <2>3, SMT
<1>2. PageSize \in Nat \ {0}
  BY Sizes
<1>3. /\ LastPage \in Nat /\ LastPage + 1 <= ChipSize \div PageSize
      /\ start \div PageSize \in Nat
  BY <1>1, LastPageInChip DEF LastPage
<1>4. i * PageSize \in Nat /\ (i + 1) * PageSize = i * PageSize + PageSize
  BY <1>1, <1>2, Products
<1>5. start < (i + 1) * PageSize
  <2>1. start < (start \div PageSize) * PageSize + PageSize
    BY <1>1, <1>2, PageOfAddress
  <2>2. /\ (start \div PageSize) * PageSize <= i * PageSize
        /\ (start \div PageSize) * PageSize \in Nat
    BY <1>1, <1>2, <1>3, Products
  <2>. QED
    BY <1>1, <1>2, <1>4, <2>1, <2>2, SMT
<1>6. ASSUME i <= LastPage PROVE i * PageSize <= start + len - 1
  <2>1. start + len - 1 \in Nat
    BY <1>1, SMT
  <2>. QED
    BY <1>1, <1>2, <1>6, <2>1, PageOfAddress DEF LastPage
<1>7. ASSUME i >= LastPage PROVE start + len <= (i + 1) * PageSize
  <2>1. start + len - 1 \in Nat
    BY <1>1, SMT
  <2>2. start + len - 1 < LastPage * PageSize + PageSize
    BY <1>2, <2>1, PageOfAddress DEF LastPage
  <2>3. LastPage * PageSize <= i * PageSize /\ LastPage * PageSize \in Nat
    BY <1>1, <1>2, <1>3, <1>7, Products
  <2>. QED
    BY <1>1, <1>2, <1>4, <2>2, <2>3, SMT
<1>. QED
  BY <1>1, <1>3, <1>4, <1>5, <1>6, <1>7

LEMMA PiecesOfPage ==
    ASSUME Base, stage = "pages", i <= LastPage
    PROVE  /\ starthere \in Nat /\ lenhere \in Nat \ {0}
           /\ start <= starthere /\ starthere + lenhere <= start + len
           /\ i * PageSize <= starthere /\ starthere + lenhere <= (i + 1) * PageSize
           /\ starthere + lenhere = IF i = LastPage THEN start + len ELSE (i + 1) * PageSize
<1>1. /\ i \in Nat /\ LastPage \in Nat
      /\ start \in Nat /\ len \in Nat \ {0}
      /\ i * PageSize \in Nat /\ (i + 1) * PageSize = i * PageSize + PageSize
      /\ start < (i + 1) * PageSize
      /\ i * PageSize <= start + len - 1
      /\ i >= LastPage => start + len <= (i + 1) * PageSize
      /\ PageSize \in Nat \ {0}
  BY PageBounds, Sizes
<1>2. ASSUME i < LastPage PROVE (i + 1) * PageSize <= start + len - 1
  <2>1. start + len - 1 \in Nat /\ i + 1 \in Nat /\ i + 1 <= LastPage
    BY <1>1, <1>2, SMT
  <2>. QED
    BY <1>1, <2>1, PageOfAddress DEF LastPage
<1> DEFINE lo == i * PageSize
           hi == (i + 1) * PageSize
<1>3. lo \in Nat /\ hi \in Nat /\ hi = lo + PageSize /\ hi > lo
  BY <1>1, SMT
<1>4. /\ starthere = Higher(start, lo) /\ lenhere = Lower(start + len, hi) - starthere
  BY DEF starthere, lenhere
<1>5. /\ start < hi /\ lo <= start + len - 1
      /\ i < LastPage => hi <= start + len - 1
      /\ i >= LastPage => start + len <= hi
  BY <1>1, <1>2
<1> HIDE DEF lo, hi
<1>6. starthere \in Nat /\ start <= starthere /\ lo <= starthere /\ starthere < start + len /\ starthere < hi
  BY <1>1, <1>3, <1>4, <1>5, SMT DEF Higher
<1>7. /\ lenhere \in Nat \ {0}
      /\ starthere + lenhere <= start + len /\ starthere + lenhere <= hi
      /\ starthere + lenhere = Lower(start + len, hi)
  BY <1>1, <1>3, <1>4, <1>5, <1>6, SMT DEF Lower
<1>8. Lower(start + len, hi) = IF i = LastPage THEN start + len ELSE hi
  BY <1>1, <1>3, <1>5, SMT DEF Lower
<1>. QED
  BY <1>6, <1>7, <1>8 DEF lo, hi
-----------------------------------------------------------------------------
(***************************************************************************)
(* What is sent has the form of a command.                                 *)
(***************************************************************************)
LEMMA CommandTypes ==
    /\ WREN \in Command /\ WRDI \in Command /\ Unknown \in Command
    /\ \A a \in 0..ChipSize, s \in Seq(Value) : Program(a, s) \in Command /\ AAIWord(a, s) \in Command
    /\ \A s \in Seq(Value) : AAICont(s) \in Command
    /\ \A o \in Opcodes, a \in Addr : Erase(o, a) \in Command
    /\ \A a \in Addr, n \in Nat : Read(a, n) \in Command
    /\ WREN.op # "READ" /\ WRDI.op # "READ" /\ Unknown.op # "READ"
    /\ \A a, s : Program(a, s).op # "READ" /\ AAIWord(a, s).op # "READ"
    /\ \A s : AAICont(s).op # "READ"
    /\ \A o, a : Erase(o, a).op # "READ"
  BY DEF Command, WREN, WRDI, Unknown, Program, AAIWord, AAICont, Erase, Read

LEMMA AddressOfCommand ==
    ASSUME NEW c \in Command, c.op = "AAI"
    PROVE  c.addr \in Nat
<1>1. c \in [op : {"PROGRAM", "AAI"}, addr : 0..ChipSize, bytes : Seq(Value)]
  BY DEF Command
<1>2. c.addr \in 0..ChipSize
  BY <1>1
<1>. QED
  BY <1>2, Sizes, SMT

LEMMA Pairs ==
    ASSUME NEW c \in Command, NEW d \in Command,
           NEW s \in Seq(Command), Len(s) = 2, s[1] = c, s[2] = d
    PROVE  s = <<c, d>>
<1>1. s \in [1..2 -> Command]
  BY SMT
<1>2. \A k \in 1..2 : k = 1 \/ k = 2
  BY SMT
<1>3. \A k \in 1..2 : s[k] = <<c, d>>[k]
  BY <1>2, SMT
<1>4. <<c, d>> \in [1..2 -> Command]
  BY <1>2, SMT
<1>. QED
  BY <1>1, <1>3, <1>4

LEMMA HeadsAndTails ==
    ASSUME NEW c \in Command, NEW d \in Command
    PROVE  /\ Head(<<c>>) = c /\ Tail(<<c>>) = << >>
           /\ Head(<<c, d>>) = c /\ Tail(<<c, d>>) = <<d>>
<1>1. Head(<<c>>) = c /\ Head(<<c, d>>) = c
  BY SMT
<1>2. Tail(<<c>>) = << >>
  BY SMT
<1>3. Tail(<<c, d>>) = <<d>>
  BY SMT
<1>. QED
  BY <1>1, <1>2, <1>3

LEMMA CommandLists ==
    ASSUME NEW c \in Command, NEW d \in Command
    PROVE  /\ <<c>> \in Seq(Command) /\ <<c>> # << >>
           /\ <<c, d>> \in Seq(Command) /\ <<c, d>> # << >>
           /\ <<d>> \o <<c>> = <<d, c>> /\ << >> \o <<c>> = <<c>>
           /\ c.op # "READ" => <<c>> \in Seq(Changing)
           /\ c.op # "READ" /\ d.op # "READ" => <<c, d>> \in Seq(Changing)
<1>4. c.op # "READ" => <<c>> \in Seq(Changing)
  <2>1. c.op # "READ" => c \in Changing
    BY DEF Changing
  <2>. QED
    BY <2>1, SMT
<1>5. c.op # "READ" /\ d.op # "READ" => <<c, d>> \in Seq(Changing)
  <2>1. c.op # "READ" /\ d.op # "READ" => c \in Changing /\ d \in Changing
    BY DEF Changing
  <2>. QED
    BY <2>1, SMT
<1>1. /\ <<c>> \in Seq(Command) /\ <<c>> # << >>
      /\ <<c, d>> \in Seq(Command) /\ <<c, d>> # << >>
  BY SMT
<1>2. <<d>> \o <<c>> = <<d, c>>
  <2>1. <<d>> \in Seq(Command) /\ <<c>> \in Seq(Command) /\ Len(<<d>>) = 1 /\ Len(<<c>>) = 1
    BY SMT
  <2>2. <<d>> \o <<c>> \in Seq(Command) /\ Len(<<d>> \o <<c>>) = 2
    BY <2>1, SMT
  <2>3. (<<d>> \o <<c>>)[1] = d /\ (<<d>> \o <<c>>)[2] = c
    BY <2>1, SMT
  <2>. QED
    BY <2>2, <2>3, Pairs
<1>3. << >> \o <<c>> = <<c>>
  BY SMT
<1>. QED
  BY <1>1, <1>2, <1>3, <1>4, <1>5

LEMMA PieceType ==
    ASSUME data \in [Addr -> Value], NEW a \in Nat, NEW n \in Nat, a + n <= ChipSize
    PROVE  Piece(a, n) \in Seq(Value)
<1>1. \A k \in 1..n : a + k - 1 \in Addr
  BY Sizes, SMT DEF Addr
<1>2. Piece(a, n) \in [1..n -> Value]
  BY <1>1 DEF Piece
<1>. QED
  BY <1>2, SMT

LEMMA StutterKeepsChip ==
    ASSUME ChipTypeOK, UNCHANGED chipVars
    PROVE  ChipTypeOK'
  BY DEF ChipTypeOK, chipVars
-----------------------------------------------------------------------------
(***************************************************************************)
(* Types, arguments and loops, action by action.                           *)
(***************************************************************************)
LEMMA BaseInitEstablishes == Init => Base
<1>1. SUFFICES ASSUME Init PROVE Base
  OBVIOUS
<1>2. mem \in [Addr -> Value] /\ 0 \in Addr
  BY <1>1, SpiNorAssumption, Sizes, SMT DEF Init, Addr
<1>3. ChipTypeOK
  BY <1>1, <1>2 DEF Init, ChipTypeOK
<1>4. /\ 0 \in 0..ChipSize /\ 0 \in Nat /\ 0 \in 0..ChipSize + 2
      /\ << >> \in Seq(Command)
  BY Sizes, SMT
<1>5. SpiTypeOK
  BY <1>1, <1>3, <1>4 DEF Init, SpiTypeOK
<1>. QED
  BY <1>1, <1>2, <1>5 DEF Init, Base, Arguments, Stages, Writers

LEMMA CallEraseBase ==
    ASSUME Base, NEW o \in Opcodes, NEW addr \in Addr, NEW blocklen \in BlockLengths,
           CallErase(o, addr, blocklen)
    PROVE  Base'
<1>1. /\ spc = "idle" /\ stage = "none" /\ fn = "none" /\ cmds = << >>
      /\ fn' = "erase" /\ opcode' = o /\ start' = addr /\ len' = blocklen
      /\ mem0' = mem
      /\ UNCHANGED chipVars /\ UNCHANGED <<data, i, j, until, pos, max_data, failed>>
  BY DEF CallErase, Called, Base, Arguments, Stages, SpiTypeOK
<1>2. ChipTypeOK' /\ addr \in 0..ChipSize /\ blocklen \in 0..ChipSize
  <2>1. blocklen \in 1..ChipSize
    BY SpiSizesAssumption DEF BlockLengths, Opcodes
  <2>. QED
    BY <1>1, <2>1, Sizes, StutterKeepsChip, SMT DEF Base, SpiTypeOK, Addr
<1>3. \/ spc' = "done" /\ stage' = "none" /\ ret' = "error" /\ cmds' = << >>
      \/ /\ spc' = "send" /\ stage' = "erase" /\ ret' = "none"
         /\ cmds' \in Seq(Command) /\ cmds' # << >> /\ cmds' \in Seq(Changing)
  <2>1. WREN \in Command /\ Erase(o, addr) \in Command
    BY CommandTypes
  <2>2. (IF o \in SelfEnabled THEN << >> ELSE <<WREN>>) \o <<Erase(o, addr)>>
           \in {<<Erase(o, addr)>>, <<WREN, Erase(o, addr)>>}
    BY <2>1, CommandLists
  <2>3. \/ spc' = "done" /\ stage' = "none" /\ ret' = "error" /\ cmds' = << >>
        \/ /\ spc' = "send" /\ stage' = "erase" /\ ret' = "none"
           /\ cmds' = (IF o \in SelfEnabled THEN << >> ELSE <<WREN>>) \o <<Erase(o, addr)>>
    BY <1>1 DEF CallErase, Return, SendList
  <2>. QED
    BY <2>1, <2>2, <2>3, CommandLists, CommandTypes
<1>4. SpiTypeOK'
  BY <1>1, <1>2, <1>3 DEF Base, SpiTypeOK
<1>. QED
  BY <1>1, <1>3, <1>4 DEF Base, Arguments, Stages, Writers, SpiTypeOK, ChipTypeOK

LEMMA CallWrite1Base ==
    ASSUME Base, NEW s \in Addr, NEW l \in 1..ChipSize - s, NEW buf \in Images, CallWrite1(s, l, buf)
    PROVE  Base'
<1>1. /\ spc = "idle" /\ stage = "none" /\ fn = "none" /\ cmds = << >>
      /\ fn' = "write_1" /\ opcode' = "none" /\ start' = s /\ len' = l
      /\ mem0' = mem
      /\ UNCHANGED chipVars /\ UNCHANGED <<j, pos, cmds, max_data, failed>>
      /\ spc' = "loop" /\ stage' = "bytes" /\ ret' = "none"
      /\ data' = buf /\ i' = s /\ until' = s + l
  BY DEF CallWrite1, Called, Loop, Base, Arguments, Stages, SpiTypeOK
<1>2. /\ s \in 0..ChipSize /\ l \in 0..ChipSize /\ s + l \in 0..ChipSize /\ l > 0 /\ s <= s + l
      /\ s + l <= ChipSize
  BY Sizes, SMT DEF Addr
<1>3. buf \in [Addr -> Value] /\ buf \in [Addr -> Value \cup {Unread, Noise}]
  BY SpiNorAssumption
<1>4. ChipTypeOK'
  BY <1>1, StutterKeepsChip DEF Base, SpiTypeOK
<1>5. SpiTypeOK'
  BY <1>1, <1>2, <1>3, <1>4 DEF Base, SpiTypeOK, Writers
<1>6. Arguments'
  BY <1>1, <1>2, <1>3 DEF Base, Arguments, SpiTypeOK, ChipTypeOK
<1>7. Stages'
  BY <1>1, <1>2 DEF Stages
<1>. QED
  BY <1>5, <1>6, <1>7 DEF Base

LEMMA CallChunkedBase ==
    ASSUME Base, NEW s \in Addr, NEW l \in 1..ChipSize - s, NEW max \in MaxData, NEW f, NEW buf,
           \/ f = "read" /\ buf = NoData
           \/ f = "write_256" /\ buf \in Images,
           CallChunked(f, s, l, buf, max)
    PROVE  Base'
<1>1. /\ spc = "idle" /\ stage = "none" /\ fn = "none" /\ cmds = << >>
      /\ fn' = f /\ opcode' = "none" /\ start' = s /\ len' = l
      /\ mem0' = mem
      /\ UNCHANGED chipVars /\ UNCHANGED <<until, pos, cmds, failed>>
      /\ data' = buf /\ max_data' = max
      /\ \/ spc' = "done" /\ stage' = "none" /\ ret' = "error" /\ UNCHANGED <<i, j>>
         \/ /\ spc' = "loop" /\ stage' = "pages" /\ ret' = "none"
            /\ i' = s \div PageSize /\ j' = 0 /\ max # 0
  BY DEF CallChunked, Called, Loop, Return, Base, Arguments, Stages, SpiTypeOK, MAX_DATA_UNSPECIFIED
<1>2. /\ s \in 0..ChipSize /\ l \in 0..ChipSize /\ l > 0 /\ s + l <= ChipSize
      /\ s \in Nat /\ l \in Nat \ {0}
  BY Sizes, SMT DEF Addr
<1>3. /\ f = "write_256" => buf \in [Addr -> Value]
      /\ buf \in [Addr -> Value \cup {Unread, Noise}]
  BY SpiNorAssumption DEF NoData
<1>4. ChipTypeOK' /\ max \in Nat
  BY <1>1, StutterKeepsChip, SpiNorAssumption DEF Base, SpiTypeOK
<1>5. s \div PageSize \in 0..ChipSize \div PageSize /\ s \div PageSize <= (s + l - 1) \div PageSize + 1
  <2>1. /\ (s + l - 1) \div PageSize \in Nat /\ s \div PageSize \in Nat
        /\ (s + l - 1) \div PageSize + 1 <= ChipSize \div PageSize
        /\ s \div PageSize <= (s + l - 1) \div PageSize
    BY <1>2, LastPageInChip
  <2>2. ChipSize \div PageSize \in Nat
    BY Sizes
  <2>. QED
    BY <2>1, <2>2, SMT
<1>6. SpiTypeOK'
  <2>1. /\ i' \in IF stage' = "pages" THEN 0..ChipSize \div PageSize ELSE 0..ChipSize
        /\ j' \in Nat
    BY <1>1, <1>5, SMT DEF Base, SpiTypeOK
  <2>. QED
    BY <1>1, <1>2, <1>3, <1>4, <2>1 DEF Base, SpiTypeOK, Writers
<1>7. Arguments'
  BY <1>1, <1>2, <1>3 DEF Base, Arguments, SpiTypeOK, ChipTypeOK, Writers
<1>8. Stages'
  <2>1. s \div PageSize <= s \div PageSize
    BY <1>5, SMT
  <2>2. stage' = "pages" => /\ fn' \in {"read", "write_256"} /\ max_data' \in Nat \ {0}
                            /\ start' \div PageSize <= i' /\ i' <= LastPage' + 1
    BY <1>1, <1>4, <1>5, <2>1 DEF LastPage
  <2>. QED
    BY <1>1, <2>2 DEF Stages
<1>. QED
  BY <1>6, <1>7, <1>8 DEF Base

LEMMA CallAAIBase ==
    ASSUME Base, NEW s \in Addr, NEW l \in 1..ChipSize - s, NEW buf \in Images, CallAAI(s, l, buf)
    PROVE  Base'
<1>1. /\ spc = "idle" /\ stage = "none" /\ fn = "none" /\ cmds = << >>
      /\ fn' = "aai" /\ opcode' = "none" /\ start' = s /\ len' = l
      /\ mem0' = mem
      /\ UNCHANGED chipVars /\ UNCHANGED <<j, cmds, max_data, failed>>
      /\ spc' = "loop" /\ ret' = "none"
      /\ \/ s % 2 = 1 /\ stage' = "first"
         \/ s % 2 # 1 /\ stage' = "word"
      /\ data' = buf /\ pos' = s /\ i' = s /\ until' = s + (s % 2)
  BY DEF CallAAI, Called, Loop, Base, Arguments, Stages, SpiTypeOK
<1>2. /\ s \in 0..ChipSize /\ l \in 0..ChipSize /\ l > 0 /\ s + l <= ChipSize
      /\ s \in 0..ChipSize + 2
      /\ s + (s % 2) \in 0..ChipSize /\ s <= s + (s % 2) /\ s <= ChipSize
      /\ s % 2 # 1 => s % 2 = 0 /\ s = s + (s % 2)
  BY Sizes, SpiSizesAssumption, SMT DEF Addr
<1>3. buf \in [Addr -> Value] /\ buf \in [Addr -> Value \cup {Unread, Noise}]
  BY SpiNorAssumption
<1>4. ChipTypeOK'
  BY <1>1, StutterKeepsChip DEF Base, SpiTypeOK
<1>5. SpiTypeOK'
  BY <1>1, <1>2, <1>3, <1>4 DEF Base, SpiTypeOK, Writers
<1>6. Arguments'
  BY <1>1, <1>2, <1>3 DEF Base, Arguments, SpiTypeOK, ChipTypeOK
<1>7. Stages'
  <2>1. s <= s
    BY <1>2, SMT
  <2>. QED
    BY <1>1, <1>2, <2>1 DEF Stages
<1>. QED
  BY <1>5, <1>6, <1>7 DEF Base

LEMMA CallProbeBase ==
    ASSUME Base, NEW name, NEW wired, CallProbe(name, wired)
    PROVE  Base'
<1>1. /\ spc = "idle" /\ stage = "none" /\ fn = "none" /\ cmds = << >>
      /\ fn' = "probe" /\ opcode' = "none" /\ start' = 0 /\ len' = 0
      /\ mem0' = mem
      /\ UNCHANGED chipVars /\ UNCHANGED <<data, i, j, until, pos, cmds, max_data>>
      /\ failed' \in {{}, {"command"}}
      /\ spc' = "done" /\ ret' \in {"found", "absent"} /\ stage' = "none"
  BY DEF CallProbe, Called, Return, Base, Arguments, Stages, SpiTypeOK
<1>2. 0 \in 0..ChipSize
  BY Sizes, SMT
<1>3. ChipTypeOK'
  BY <1>1, StutterKeepsChip DEF Base, SpiTypeOK
<1>4. SpiTypeOK'
  BY <1>1, <1>2, <1>3 DEF Base, SpiTypeOK, Writers
<1>. QED
  BY <1>1, <1>4 DEF Base, Arguments, Stages, SpiTypeOK, ChipTypeOK, Writers
-----------------------------------------------------------------------------
(* The next chunk of a page.                                                *)
LEMMA ChunkBounds ==
    ASSUME Base, InPages, j < lenhere
    PROVE  /\ starthere + j \in Addr /\ chunk \in 1..ChipSize
           /\ start <= starthere + j /\ starthere + j + chunk <= start + len
           /\ starthere + j + chunk <= ChipSize
           /\ FitsPage(starthere + j, chunk)
           /\ At = starthere + j
           /\ starthere + Lower(j + max_data, lenhere) = starthere + j + chunk
<1>1. /\ stage = "pages" /\ i <= LastPage /\ fn \in {"read", "write_256"}
      /\ max_data \in Nat \ {0} /\ j \in Nat
  BY Numbers DEF InPages, Base, Stages
<1>2. /\ starthere \in Nat /\ lenhere \in Nat \ {0}
      /\ start <= starthere /\ starthere + lenhere <= start + len
      /\ i * PageSize <= starthere /\ starthere + lenhere <= (i + 1) * PageSize
  BY <1>1, PiecesOfPage
<1>3. /\ i \in Nat /\ start \in Nat /\ len \in Nat \ {0} /\ start + len <= ChipSize
      /\ i * PageSize \in Nat /\ (i + 1) * PageSize \in Nat /\ LastPage \in Nat
      /\ LastPage + 1 <= ChipSize \div PageSize
  <2>1. /\ i \in Nat /\ start \in Nat /\ len \in Nat \ {0} /\ start + len <= ChipSize
        /\ i * PageSize \in Nat /\ (i + 1) * PageSize = i * PageSize + PageSize
        /\ LastPage \in Nat /\ LastPage + 1 <= ChipSize \div PageSize
    BY <1>1, PageBounds
  <2>2. (i + 1) * PageSize \in Nat
    BY <2>1, Sizes, SMT
  <2>. QED
    BY <2>1, <2>2
<1>4. /\ chunk \in Nat \ {0} /\ j + chunk <= lenhere
      /\ Lower(j + max_data, lenhere) = j + chunk
  BY <1>1, <1>2, SMT DEF chunk, Lower
<1>5. /\ starthere + j \in Addr /\ chunk \in 1..ChipSize
      /\ start <= starthere + j /\ starthere + j + chunk <= start + len
      /\ starthere + j + chunk <= ChipSize
  BY <1>1, <1>2, <1>3, <1>4, Sizes, SMT DEF Addr
<1>6. FitsPage(starthere + j, chunk)
  <2>1. i \in 0..ChipSize
    BY <1>1, <1>3, Sizes, SMT
  <2>2. i * PageSize <= starthere + j /\ starthere + j + chunk <= (i + 1) * PageSize
    BY <1>1, <1>2, <1>3, <1>4, SMT
  <2>. QED
    BY <2>1, <2>2 DEF FitsPage
<1>7. At = starthere + j
  <2>1. ~(i > LastPage) /\ Lower(j, lenhere) = j
    BY <1>1, <1>2, <1>3, SMT DEF Lower
  <2>. QED
    BY <1>1, <2>1 DEF At
<1>8. starthere + Lower(j + max_data, lenhere) = starthere + j + chunk
  BY <1>1, <1>2, <1>4, SMT
<1>. QED
  BY <1>5, <1>6, <1>7, <1>8

LEMMA ReadChunkBase ==
    ASSUME Base, ReadChunk
    PROVE  Base'
<1>1. /\ fn = "read" /\ spc = "loop" /\ stage = "pages" /\ InPages /\ j < lenhere
      /\ spc' = "send" /\ cmds' = <<Read(starthere + j, chunk)>> /\ j' = j + max_data
      /\ UNCHANGED <<chipVars, stage, spiArgs, data, i, until, pos, ret, failed>>
  BY DEF ReadChunk, InPages, SendList
<1>2. cmds' \in Seq(Command) /\ cmds' # << >>
  <2>1. Read(starthere + j, chunk) \in Command
    <3>1. chunk \in Nat
      BY <1>1, ChunkBounds, SMT
    <3>. QED
      BY <1>1, <3>1, ChunkBounds, CommandTypes
  <2>. QED
    BY <1>1, <2>1, CommandLists
<1>3. j' \in Nat
  BY <1>1, Numbers, SMT DEF Base, Stages
<1>4. ChipTypeOK'
  BY <1>1, StutterKeepsChip DEF Base, SpiTypeOK
<1>5. SpiTypeOK'
  BY <1>1, <1>2, <1>3, <1>4 DEF Base, SpiTypeOK, spiArgs
<1>6. Arguments' /\ Stages'
  BY <1>1 DEF Base, Arguments, Stages, spiArgs, LastPage
<1>. QED
  BY <1>5, <1>6 DEF Base

LEMMA WriteChunkBase ==
    ASSUME Base, WriteChunk
    PROVE  Base'
<1>1. /\ fn = "write_256" /\ spc = "loop" /\ stage = "pages" /\ InPages /\ j < lenhere /\ cmds = << >>
      /\ UNCHANGED <<chipVars, stage, spiArgs, data, i, until, pos, failed>>
      /\ \/ spc' = "done" /\ ret' = "error" /\ UNCHANGED <<cmds, j>>
         \/ /\ spc' = "send"
            /\ cmds' = <<WREN, Program(starthere + j, Piece(starthere + j, chunk))>>
            /\ j' = j + max_data /\ UNCHANGED ret
  BY DEF WriteChunk, InPages, SendList, Return, Base, SpiTypeOK
<1>2. /\ <<WREN, Program(starthere + j, Piece(starthere + j, chunk))>> \in Seq(Command)
      /\ <<WREN, Program(starthere + j, Piece(starthere + j, chunk))>> # << >>
      /\ <<WREN, Program(starthere + j, Piece(starthere + j, chunk))>> \in Seq(Changing)
  <2>1. /\ chunk \in Nat /\ starthere + j \in 0..ChipSize /\ starthere + j \in Nat
        /\ starthere + j + chunk <= ChipSize
    <3>1. chunk \in 1..ChipSize /\ starthere + j \in Addr /\ starthere + j + chunk <= ChipSize
      BY <1>1, ChunkBounds
    <3>. QED
      BY <3>1, Sizes, SMT DEF Addr
  <2>2. Piece(starthere + j, chunk) \in Seq(Value)
    BY <1>1, <2>1, PieceType DEF Base, Arguments, Writers
  <2>3. /\ WREN \in Command /\ Program(starthere + j, Piece(starthere + j, chunk)) \in Command
        /\ WREN.op # "READ" /\ Program(starthere + j, Piece(starthere + j, chunk)).op # "READ"
    BY <2>1, <2>2, CommandTypes
  <2>. QED
    BY <2>3, CommandLists, CommandTypes
<1>3. j + max_data \in Nat
  BY <1>1, Numbers, SMT DEF Base, Stages
<1>4. ChipTypeOK'
  BY <1>1, StutterKeepsChip DEF Base, SpiTypeOK
<1>5. SpiTypeOK'
  BY <1>1, <1>2, <1>3, <1>4 DEF Base, SpiTypeOK, spiArgs
<1>6. Arguments' /\ Stages'
  BY <1>1, <1>2 DEF Base, Arguments, Stages, spiArgs, LastPage
<1>. QED
  BY <1>5, <1>6 DEF Base

LEMMA NextPageBase ==
    ASSUME Base, NextPage
    PROVE  Base'
<1>1. /\ spc = "loop" /\ stage = "pages" /\ i <= LastPage
      /\ i' = i + 1 /\ j' = 0
      /\ UNCHANGED <<chipVars, spc, stage, spiArgs, data, until, pos, cmds, ret, failed>>
  BY DEF NextPage, InPages
<1>2. /\ i + 1 \in 0..ChipSize \div PageSize /\ i + 1 <= LastPage + 1
      /\ start \div PageSize <= i + 1
  <2>1. i \in Nat /\ LastPage \in Nat /\ LastPage + 1 <= ChipSize \div PageSize
    BY <1>1, PageBounds
  <2>2. start \div PageSize <= i /\ start \div PageSize \in Nat
    BY <1>1, Numbers, Sizes, Division DEF Base, Stages
  <2>. QED
    BY <1>1, <2>1, <2>2, Sizes, SMT
<1>3. ChipTypeOK'
  BY <1>1, StutterKeepsChip DEF Base, SpiTypeOK
<1>4. SpiTypeOK'
  BY <1>1, <1>2, <1>3 DEF Base, SpiTypeOK, spiArgs
<1>5. Arguments' /\ Stages'
  BY <1>1, <1>2 DEF Base, Arguments, Stages, spiArgs, LastPage
<1>. QED
  BY <1>4, <1>5 DEF Base

(* A loop that is left without another command.                             *)
LEMMA ReturnBase ==
    ASSUME Base, spc = "loop", spc' = "done", ret' \in {"zero", "error"},
           UNCHANGED <<chipVars, stage, spiArgs, data, i, j, until, pos, cmds, failed>>
    PROVE  Base'
<1>1. ChipTypeOK'
  BY StutterKeepsChip DEF Base, SpiTypeOK
<1>2. SpiTypeOK'
  BY <1>1 DEF Base, SpiTypeOK, spiArgs
<1>3. Arguments' /\ Stages'
  BY DEF Base, Arguments, Stages, spiArgs, LastPage
<1>. QED
  BY <1>2, <1>3 DEF Base

LEMMA NextByteBase ==
    ASSUME Base, NextByte
    PROVE  Base'
<1>1. /\ spc = "loop" /\ stage \in {"bytes", "first"} /\ i < until
      /\ spc' = "send" /\ cmds' = <<WREN, Program(i, Piece(i, 1))>> /\ i' = i + 1
      /\ UNCHANGED <<chipVars, stage, spiArgs, data, j, until, pos, ret, failed>>
  BY DEF NextByte, SendList
<1>2. i \in Nat /\ until \in Nat /\ until <= ChipSize /\ start \in Nat /\ start <= i
  BY <1>1, Numbers DEF Base, Stages
<1>3. i \in 0..ChipSize /\ i + 1 \in 0..ChipSize /\ i + 1 <= until /\ start <= i + 1
  BY <1>1, <1>2, Sizes, SMT
<1>4. fn \in Writers /\ (stage = "bytes" => fn = "write_1")
  <2>1. i # until
    BY <1>1, <1>2, SMT
  <2>. QED
    BY <1>1, <2>1 DEF Base, Stages, Writers
<1>5. cmds' \in Seq(Command) /\ cmds' # << >> /\ cmds' \in Seq(Changing)
  <2>1. Piece(i, 1) \in Seq(Value)
    <3>1. 1 \in Nat /\ i + 1 <= ChipSize
      BY <1>3, SMT
    <3>. QED
      BY <1>2, <1>4, <3>1, PieceType DEF Base, Arguments
  <2>2. /\ WREN \in Command /\ Program(i, Piece(i, 1)) \in Command
        /\ WREN.op # "READ" /\ Program(i, Piece(i, 1)).op # "READ"
    BY <1>3, <2>1, CommandTypes
  <2>. QED
    BY <1>1, <2>2, CommandLists
<1>6. ChipTypeOK'
  BY <1>1, StutterKeepsChip DEF Base, SpiTypeOK
<1>7. SpiTypeOK'
  BY <1>1, <1>3, <1>5, <1>6 DEF Base, SpiTypeOK, spiArgs
<1>8. Arguments' /\ Stages'
  BY <1>1, <1>3, <1>4, <1>5 DEF Base, Arguments, Stages, spiArgs, LastPage
<1>. QED
  BY <1>7, <1>8 DEF Base

LEMMA EndOfFirstByteBase ==
    ASSUME Base, EndOfFirstByte
    PROVE  Base'
<1>1. /\ spc = "loop" /\ stage = "first" /\ i >= until
      /\ stage' = "word" /\ pos' = pos + (start % 2)
      /\ UNCHANGED <<chipVars, spc, spiArgs, data, i, j, until, cmds, ret, failed>>
  BY DEF EndOfFirstByte
<1>2. pos = start /\ until = start + (start % 2) /\ i <= until
  BY <1>1 DEF Base, Stages
<1>3. /\ pos' = start + (start % 2) /\ pos' <= ChipSize /\ pos' % 2 = 0 /\ pos' \in 0..ChipSize + 2
      /\ start <= pos'
  <2>1. start \in Nat /\ until \in Nat /\ until <= ChipSize
    BY Numbers DEF Base
  <2>2. (start + (start % 2)) % 2 = 0
    BY <2>1, SMT
  <2>. QED
    BY <1>1, <1>2, <2>1, <2>2, Sizes, SMT
<1>4. ChipTypeOK'
  BY <1>1, StutterKeepsChip DEF Base, SpiTypeOK
<1>5. SpiTypeOK'
  BY <1>1, <1>3, <1>4 DEF Base, SpiTypeOK, spiArgs
<1>6. Arguments' /\ Stages'
  BY <1>1, <1>3 DEF Base, Arguments, Stages, spiArgs
<1>. QED
  BY <1>5, <1>6 DEF Base
-----------------------------------------------------------------------------
LEMMA StartAAIBase ==
    ASSUME Base, StartAAI
    PROVE  Base'
<1>1. /\ spc = "loop" /\ stage = "word" /\ fn = "aai"
      /\ spc' = "send" /\ stage' = "cont" /\ pos' = pos + 2
      /\ UNCHANGED <<chipVars, spiArgs, data, i, j, until, ret, failed>>
  BY DEF StartAAI, SendList, Base, Stages
<1>2. PICK c \in {AAIWord(pos, w) : w \in Words} \cup DeadArray : cmds' = <<WREN, c>>
  BY DEF StartAAI, SendList
<1>3. /\ pos \in Nat /\ pos \in 0..ChipSize /\ pos + 2 \in 0..ChipSize + 2 /\ (pos + 2) % 2 = 0
      /\ start <= pos + 2
      /\ start \in Nat /\ start + len <= ChipSize /\ len \in Nat
      /\ start % 2 = 0 => pos = start
  <2>1. /\ pos \in Nat /\ pos % 2 = 0 /\ pos <= ChipSize /\ pos = start + (start % 2)
        /\ start \in Nat /\ len \in Nat
    BY <1>1, Numbers DEF Base, Stages
  <2>2. start + len <= ChipSize
    BY <1>1 DEF Base, Arguments, Writers
  <2>. QED
    BY <2>1, <2>2, Sizes, SMT
<1>4. c \in Command /\ c.op # "READ"
  <2>1. \A v, w \in Value : <<v, w>> \in Seq(Value)
    BY SMT
  <2>2. ASSUME NEW w \in Words PROVE AAIWord(pos, w) \in Command /\ AAIWord(pos, w).op # "READ"
    <3>1. ASSUME NEW a \in Nat PROVE ByteAt(a) \subseteq Value
      <4>1. a < start + len => a \in Addr
        BY <1>3, Sizes, SMT DEF Addr
      <4>2. data \in [Addr -> Value]
        BY <1>1 DEF Base, Arguments, Writers
      <4>. QED
        BY <4>1, <4>2 DEF ByteAt
    <3>2. ByteAt(pos) \subseteq Value /\ ByteAt(pos + 1) \subseteq Value
      <4>1. pos + 1 \in Nat
        BY <1>3, SMT
      <4>. QED
        BY <1>3, <3>1, <4>1
    <3>3. PICK v1 \in ByteAt(pos), v2 \in ByteAt(pos + 1) : w = <<v1, v2>>
      BY DEF Words
    <3>4. w \in Seq(Value)
      BY <2>1, <3>2, <3>3
    <3>. QED
      BY <1>3, <3>4, CommandTypes
  <2>3. ASSUME NEW d \in DeadArray PROVE d \in Command /\ d.op # "READ"
    <3>1. {} \in Value /\ <<{}, {}>> \in Seq(Value)
      BY <2>1 DEF Value
    <3>2. Addr \subseteq 0..ChipSize
      BY Sizes, SMT DEF Addr
    <3>3. \/ d = Unknown
          \/ \E o \in Opcodes, a \in Addr : d = Erase(o, a)
          \/ \E a \in Addr : d = AAIWord(a, <<{}, {}>>)
          \/ \E a \in Addr : d = Program(a, <<{}, {}>>)
      BY DEF DeadArray
    <3>. QED
      BY <3>1, <3>2, <3>3, CommandTypes
  <2>. QED
    BY <1>2, <2>2, <2>3
<1>5. cmds' \in Seq(Command) /\ cmds' # << >> /\ cmds' \in Seq(Changing)
  BY <1>2, <1>4, CommandTypes, CommandLists
<1>6. ChipTypeOK'
  BY <1>1, StutterKeepsChip DEF Base, SpiTypeOK
<1>7. SpiTypeOK'
  BY <1>1, <1>3, <1>5, <1>6 DEF Base, SpiTypeOK, spiArgs
<1>8. Arguments' /\ Stages'
  BY <1>1, <1>3, <1>5 DEF Base, Arguments, Stages, spiArgs
<1>. QED
  BY <1>7, <1>8 DEF Base

LEMMA ContinueAAIBase ==
    ASSUME Base, ContinueAAI
    PROVE  Base'
<1>1. /\ spc = "loop" /\ stage = "cont" /\ fn = "aai" /\ pos < start + len - 1
      /\ spc' = "send" /\ cmds' = <<AAICont(Piece(pos, 2))>> /\ pos' = pos + 2
      /\ UNCHANGED <<chipVars, stage, spiArgs, data, i, j, until, ret, failed>>
  BY DEF ContinueAAI, MoreWords, SendList, Base, Stages
<1>2. /\ pos \in Nat /\ pos + 2 <= ChipSize /\ pos + 2 \in 0..ChipSize + 2 /\ (pos + 2) % 2 = 0
      /\ start <= pos + 2
  <2>1. /\ pos \in Nat /\ pos % 2 = 0 /\ start <= pos /\ start \in Nat /\ len \in Nat
    BY <1>1, Numbers DEF Base, Stages
  <2>2. start + len <= ChipSize
    BY <1>1 DEF Base, Arguments, Writers
  <2>. QED
    BY <1>1, <2>1, <2>2, Sizes, SMT
<1>3. cmds' \in Seq(Command) /\ cmds' # << >> /\ cmds' \in Seq(Changing)
  <2>1. Piece(pos, 2) \in Seq(Value)
    <3>1. 2 \in Nat
      OBVIOUS
    <3>2. data \in [Addr -> Value]
      BY <1>1 DEF Base, Arguments, Writers
    <3>. QED
      BY <1>2, <3>1, <3>2, PieceType
  <2>2. AAICont(Piece(pos, 2)) \in Command /\ AAICont(Piece(pos, 2)).op # "READ"
    BY <2>1, CommandTypes
  <2>. QED
    BY <1>1, <2>2, CommandLists, CommandTypes
<1>4. ChipTypeOK'
  BY <1>1, StutterKeepsChip DEF Base, SpiTypeOK
<1>5. SpiTypeOK'
  BY <1>1, <1>2, <1>3, <1>4 DEF Base, SpiTypeOK, spiArgs
<1>6. Arguments' /\ Stages'
  BY <1>1, <1>2, <1>3 DEF Base, Arguments, Stages, spiArgs
<1>. QED
  BY <1>5, <1>6 DEF Base

LEMMA DisableAAIBase ==
    ASSUME Base, DisableAAI
    PROVE  Base'
<1>1. /\ spc = "loop" /\ stage = "cont"
      /\ spc' = "send" /\ cmds' = <<WRDI>> /\ stage' = "last"
      /\ UNCHANGED <<chipVars, spiArgs, data, i, j, until, pos, ret, failed>>
  BY DEF DisableAAI, SendList
<1>2. cmds' \in Seq(Command) /\ cmds' # << >> /\ cmds' \in Seq(Changing)
  BY <1>1, CommandTypes, CommandLists
<1>3. ChipTypeOK'
  BY <1>1, StutterKeepsChip DEF Base, SpiTypeOK
<1>4. SpiTypeOK'
  BY <1>1, <1>2, <1>3 DEF Base, SpiTypeOK, spiArgs
<1>5. Arguments' /\ Stages'
  BY <1>1, <1>2 DEF Base, Arguments, Stages, spiArgs
<1>. QED
  BY <1>4, <1>5 DEF Base

LEMMA LastByteAAIBase ==
    ASSUME Base, LastByteAAI
    PROVE  Base'
<1>1. /\ spc = "loop" /\ stage = "last" /\ fn = "aai" /\ pos % 2 = 0
      /\ UNCHANGED <<chipVars, spiArgs, data, j, pos, cmds, failed>>
      /\ \/ /\ pos < start + len
            /\ stage' = "bytes" /\ i' = pos /\ until' = pos + (pos % 2) /\ UNCHANGED <<spc, ret>>
         \/ spc' = "done" /\ ret' = "zero" /\ UNCHANGED <<stage, i, until>>
  BY DEF LastByteAAI, Return, Base, Stages
<1>2. CASE UNCHANGED <<stage, i, until>> /\ spc' = "done" /\ ret' = "zero"
  BY <1>1, <1>2, ReturnBase
<1>3. CASE /\ pos < start + len
           /\ stage' = "bytes" /\ i' = pos /\ until' = pos + (pos % 2) /\ UNCHANGED <<spc, ret>>
  <2>1. pos \in Nat /\ start \in Nat /\ len \in Nat /\ start + len <= ChipSize
    BY <1>1, Numbers DEF Base, Arguments, Writers
  <2>2. /\ pos \in 0..ChipSize /\ pos + (pos % 2) = pos
    BY <1>1, <1>3, <2>1, Sizes, SMT
  <2>3. ChipTypeOK'
    BY <1>1, StutterKeepsChip DEF Base, SpiTypeOK
  <2>4. SpiTypeOK'
    BY <1>1, <1>3, <2>2, <2>3 DEF Base, SpiTypeOK, spiArgs
  <2>5. start <= pos /\ pos <= pos
    BY <1>1, <2>1, SMT DEF Base, Stages
  <2>6. Arguments' /\ Stages'
    BY <1>1, <1>3, <2>2, <2>5 DEF Base, Arguments, Stages, spiArgs
  <2>. QED
    BY <2>4, <2>6 DEF Base
<1>. QED
  BY <1>1, <1>2, <1>3

(* The commands of a list are sent.                                         *)
LEMMA FirstCommand ==
    ASSUME Base, spc = "send"
    PROVE  /\ cmds # << >> /\ Head(cmds) \in Command /\ Tail(cmds) \in Seq(Command)
           /\ Receive(Head(cmds)) => ChipTypeOK'
           /\ fn \in Writers \cup {"none", "erase", "read", "probe"}
<1>1. cmds \in Seq(Command) /\ cmds # << >> /\ ChipTypeOK
  BY DEF Base, SpiTypeOK
<1>2. Head(cmds) \in Command /\ Tail(cmds) \in Seq(Command)
  BY <1>1, SMT
<1>3. Receive(Head(cmds)) => ChipTypeOK'
  BY <1>1, <1>2, AddressOfCommand, ReceiveKeepsType
<1>. QED
  BY <1>1, <1>2, <1>3 DEF Base, SpiTypeOK

(* Only reads fetch anything, and writers read nothing.                     *)
LEMMA FetchType ==
    ASSUME Base, NEW c, Fetch(c) \/ FetchNoise(c)
    PROVE  data' \in [Addr -> Value \cup {Unread, Noise}]
<1>1. data \in [Addr -> Value \cup {Unread, Noise}] /\ mem \in [Addr -> Value]
  BY DEF Base, SpiTypeOK, ChipTypeOK
<1>. QED
  BY <1>1 DEF Fetch, FetchNoise

LEMMA WritersFetchNothing ==
    ASSUME Base, spc = "send", fn # "read", Fetch(Head(cmds)) \/ FetchNoise(Head(cmds))
    PROVE  data' = data /\ Tail(cmds) \in Seq(Changing)
<1>1. cmds \in Seq(Changing) /\ cmds # << >>
  BY DEF Base, Arguments, SpiTypeOK
<1>2. Head(cmds) \in Changing /\ Tail(cmds) \in Seq(Changing)
  BY <1>1, SMT
<1>3. Head(cmds).op # "READ"
  BY <1>2 DEF Changing
<1>. QED
  BY <1>2, <1>3 DEF Fetch, FetchNoise

LEMMA SendBase ==
    ASSUME Base, Send
    PROVE  Base'
<1>1. /\ spc = "send" /\ Receive(Head(cmds)) /\ Fetch(Head(cmds))
      /\ cmds' = Tail(cmds)
      /\ \/ Tail(cmds) # << >> /\ spc' = "send"
         \/ Tail(cmds) = << >> /\ spc' \in {"poll", "loop"}
      /\ UNCHANGED <<stage, spiArgs, i, j, until, pos, ret, failed>>
  BY DEF Send
<1>2. cmds' \in Seq(Command) /\ ChipTypeOK' /\ (spc' = "send") = (cmds' # << >>)
  BY <1>1, FirstCommand
<1>3. data' \in [Addr -> Value \cup {Unread, Noise}]
  BY <1>1, FetchType
<1>4. SpiTypeOK'
  BY <1>1, <1>2, <1>3 DEF Base, SpiTypeOK, spiArgs
<1>5. fn # "read" => data' = data /\ cmds' \in Seq(Changing)
  BY <1>1, WritersFetchNothing
<1>6. Arguments' /\ Stages'
  BY <1>1, <1>5 DEF Base, Arguments, Stages, spiArgs, Writers, LastPage
<1>. QED
  BY <1>4, <1>6 DEF Base

LEMMA SendFailsBase ==
    ASSUME Base, SendFails
    PROVE  Base'
<1>1. /\ spc = "send" /\ (Receive(Head(cmds)) \/ UNCHANGED chipVars) /\ FetchNoise(Head(cmds))
      /\ failed' = failed \cup {"command"}
      /\ \/ /\ stage = "cont" /\ cmds' = <<WRDI>> /\ spc' = "send" /\ stage' = "bail"
            /\ UNCHANGED ret
         \/ /\ stage # "cont" /\ spc' = "done" /\ ret' = "error" /\ UNCHANGED stage
            /\ cmds' = << >>
      /\ UNCHANGED <<spiArgs, i, j, until, pos>>
  BY DEF SendFails, Broken, SendList, Return
<1>2. cmds' \in Seq(Command) /\ cmds' \in Seq(Changing) /\ (spc' = "send") = (cmds' # << >>)
  <2>1. <<WRDI>> \in Seq(Command) /\ <<WRDI>> \in Seq(Changing) /\ <<WRDI>> # << >>
    BY CommandTypes, CommandLists
  <2>2. << >> \in Seq(Command) /\ << >> \in Seq(Changing)
    BY SMT
  <2>3. CASE cmds' = <<WRDI>> /\ spc' = "send"
    BY <2>1, <2>3, Zenon
  <2>4. CASE cmds' = << >> /\ spc' = "done"
    <3>1. ~(spc' = "send") /\ ~(cmds' # << >>)
      BY <2>4
    <3>. QED
      BY <2>2, <2>4, <3>1, Zenon
  <2>. QED
    BY <1>1, <2>3, <2>4
<1>3. ChipTypeOK'
  BY <1>1, FirstCommand, StutterKeepsChip DEF Base, SpiTypeOK
<1>4. data' \in [Addr -> Value \cup {Unread, Noise}]
  BY <1>1, FetchType
<1>5. SpiTypeOK'
  BY <1>1, <1>2, <1>3, <1>4 DEF Base, SpiTypeOK, spiArgs
<1>6. fn # "read" => data' = data
  BY <1>1, WritersFetchNothing
<1>7. Arguments' /\ Stages'
  BY <1>1, <1>2, <1>6 DEF Base, Arguments, Stages, spiArgs, Writers, LastPage
<1>. QED
  BY <1>5, <1>7 DEF Base

(* The end of a list that was polled for, and a step of the chip.           *)
LEMMA PollBase ==
    ASSUME Base, Poll \/ PollFails
    PROVE  Base'
<1>1. /\ spc = "poll" /\ spc' = "loop" /\ failed' \subseteq failed \cup {"rdsr"}
      /\ UNCHANGED <<chipVars, stage, spiArgs, data, i, j, until, pos, cmds, ret>>
  BY DEF Poll, PollFails
<1>2. ChipTypeOK'
  BY <1>1, StutterKeepsChip DEF Base, SpiTypeOK
<1>3. SpiTypeOK'
  BY <1>1, <1>2 DEF Base, SpiTypeOK, spiArgs
<1>4. Arguments' /\ Stages'
  BY <1>1 DEF Base, Arguments, Stages, spiArgs, LastPage
<1>. QED
  BY <1>3, <1>4 DEF Base

LEMMA ChipStepBase ==
    ASSUME Base, ChipFinishes \/ UNCHANGED vars
    PROVE  Base'
<1>1. UNCHANGED spiVars /\ ChipTypeOK'
  BY DEF ChipFinishes, Finish, Base, SpiTypeOK, ChipTypeOK, vars, chipVars
<1>2. SpiTypeOK'
  BY <1>1 DEF Base, SpiTypeOK, spiVars, spiArgs
<1>3. Arguments' /\ Stages'
  BY <1>1 DEF Base, Arguments, Stages, spiVars, spiArgs, LastPage
<1>. QED
  BY <1>2, <1>3 DEF Base

LEMMA ReturningBase ==
    ASSUME Base, EndOfPages \/ EndOfBytes \/ Bailed \/ EraseDone
    PROVE  Base'
  BY ReturnBase DEF EndOfPages, EndOfBytes, Bailed, EraseDone, Return

LEMMA CallBase ==
    ASSUME Base, Call
    PROVE  Base'
<1>1. ASSUME NEW o \in Opcodes, NEW addr \in Addr,
             NEW blocklen \in IF o \in ErasesChip THEN BlockLengths ELSE {EraseSize[o]},
             CallErase(o, addr, blocklen)
      PROVE  Base'
  <2>1. blocklen \in BlockLengths
    BY DEF BlockLengths
  <2>. QED
    BY <1>1, <2>1, CallEraseBase
<1>. QED
  BY <1>1, CallWrite1Base, CallChunkedBase, CallAAIBase, CallProbeBase DEF Call

LEMMA BaseNextKeeps ==
    ASSUME Base, [Next]_vars
    PROVE  Base'
<1>1. CASE Step
  BY <1>1, ReadChunkBase, WriteChunkBase, NextPageBase, NextByteBase, EndOfFirstByteBase,
     StartAAIBase, ContinueAAIBase, DisableAAIBase, LastByteAAIBase, ReturningBase, SendBase,
     SendFailsBase, PollBase
     DEF Step
<1>. QED
  BY <1>1, CallBase, ChipStepBase DEF Next

LEMMA BaseInvariant == Spec => []Base
<1>1. Init => Base
  BY BaseInitEstablishes
<1>2. Base /\ [Next]_vars => Base'
  BY BaseNextKeeps
<1>. QED
  BY <1>1, <1>2, PTL DEF Spec

(***************************************************************************)
(* Type correctness of spi_nor.c and spi.c: whatever fails, and however a  *)
(* call found the chip, the loops stay in the chip and in their pages.     *)
(***************************************************************************)
THEOREM SpiTypeCorrect == Spec => []SpiTypeOK
<1>1. Base => SpiTypeOK
  BY DEF Base
<1>. QED
  BY <1>1, BaseInvariant, PTL
-----------------------------------------------------------------------------
(***************************************************************************)
(* How far a call has come, step by step.                                  *)
(***************************************************************************)
LEMMA AtBeginning ==
    ASSUME NEW s \in Addr, NEW l \in 1..ChipSize - s,
           stage' = "pages", start' = s, len' = l, i' = s \div PageSize, j' = 0
    PROVE  At' = s
<1>1. s \in Nat /\ l \in Nat \ {0} /\ s + l <= ChipSize /\ PageSize \in Nat \ {0}
  BY Sizes, SMT DEF Addr
<1> DEFINE q == s \div PageSize
           lo == q * PageSize
           hi == (q + 1) * PageSize
<1>2. /\ q \in Nat /\ (s + l - 1) \div PageSize \in Nat
      /\ q <= (s + l - 1) \div PageSize
  BY <1>1, LastPageInChip
<1>3. lo \in Nat /\ hi = lo + PageSize /\ lo <= s /\ s < lo + PageSize
  BY <1>1, <1>2, Products, PageOfAddress
<1>4. /\ LastPage' = (s + l - 1) \div PageSize
      /\ starthere' = Higher(s, lo)
      /\ lenhere' = Lower(s + l, hi) - Higher(s, lo)
  BY DEF LastPage, starthere, lenhere
<1>5. ~(q > (s + l - 1) \div PageSize)
  BY <1>2, SMT
<1>6. At' = Higher(s, lo) + Lower(0, Lower(s + l, hi) - Higher(s, lo))
  BY <1>4, <1>5 DEF At
<1> HIDE DEF lo, hi, q
<1>7. Higher(s, lo) = s
  BY <1>1, <1>3, SMT DEF Higher
<1>8. Lower(0, Lower(s + l, hi) - s) = 0
  BY <1>1, <1>3, SMT DEF Lower
<1>. QED
  BY <1>1, <1>6, <1>7, <1>8, SMT

LEMMA AtNextPage ==
    ASSUME Base, NextPage
    PROVE  At' = At
<1>1. /\ stage = "pages" /\ i <= LastPage /\ j >= lenhere
      /\ stage' = "pages" /\ i' = i + 1 /\ j' = 0 /\ start' = start /\ len' = len
  BY DEF NextPage, InPages, spiArgs
<1>2. /\ starthere \in Nat /\ lenhere \in Nat \ {0} /\ starthere + lenhere <= start + len
      /\ starthere + lenhere = IF i = LastPage THEN start + len ELSE (i + 1) * PageSize
  BY <1>1, PiecesOfPage
<1>3. /\ i \in Nat /\ LastPage \in Nat /\ start \in Nat /\ len \in Nat /\ j \in Nat
      /\ start < (i + 1) * PageSize /\ PageSize \in Nat \ {0}
  BY <1>1, PageBounds, Numbers, Sizes DEF Base
<1>4. At = starthere + lenhere
  <2>1. ~(i > LastPage) /\ Lower(j, lenhere) = lenhere
    BY <1>1, <1>2, <1>3, SMT DEF Lower
  <2>. QED
    BY <1>1, <2>1 DEF At
<1>5. LastPage' = LastPage
  BY <1>1 DEF LastPage
<1>6. CASE i = LastPage
  <2>1. i + 1 > LastPage
    BY <1>3, <1>6, SMT
  <2>2. At' = start + len
    BY <1>1, <1>5, <2>1 DEF At
  <2>. QED
    BY <1>2, <1>4, <1>6, <2>2
<1>7. CASE i # LastPage
  <2> DEFINE lo == (i + 1) * PageSize
             hi == (i + 1 + 1) * PageSize
  <2>1. ~(i + 1 > LastPage)
    BY <1>1, <1>3, <1>7, SMT
  <2>2. lo \in Nat /\ hi = lo + PageSize
    <3>1. i + 1 \in Nat
      BY <1>3, SMT
    <3>. QED
      BY <1>3, <3>1, Products
  <2>3. /\ starthere' = Higher(start, lo)
        /\ lenhere' = Lower(start + len, hi) - Higher(start, lo)
    BY <1>1 DEF starthere, lenhere
  <2>4. At' = Higher(start, lo) + Lower(0, Lower(start + len, hi) - Higher(start, lo))
    BY <1>1, <1>5, <2>1, <2>3 DEF At
  <2>5. start < lo /\ lo <= start + len /\ At = lo
    BY <1>2, <1>3, <1>4, <1>7
  <2> HIDE DEF lo, hi
  <2>6. Higher(start, lo) = lo
    BY <1>3, <2>2, <2>5, SMT DEF Higher
  <2>7. Lower(0, Lower(start + len, hi) - lo) = 0
    BY <1>3, <2>2, <2>5, SMT DEF Lower
  <2>. QED
    BY <2>2, <2>4, <2>5, <2>6, <2>7, SMT
<1>. QED
  BY <1>6, <1>7

LEMMA AtNextChunk ==
    ASSUME Base, InPages, j < lenhere, j' = j + max_data, UNCHANGED <<stage, i, start, len>>
    PROVE  At' = starthere + j + chunk
<1>1. starthere + Lower(j + max_data, lenhere) = starthere + j + chunk
  BY ChunkBounds
<1>2. stage = "pages" /\ ~(i > LastPage)
  <2>1. stage = "pages" /\ i <= LastPage
    BY DEF InPages
  <2>2. i \in Nat /\ LastPage \in Nat
    BY <2>1, PageBounds
  <2>. QED
    BY <2>1, <2>2, SMT
<1>3. starthere' = starthere /\ lenhere' = lenhere /\ LastPage' = LastPage
  BY DEF starthere, lenhere, LastPage
<1>. QED
  BY <1>1, <1>2, <1>3 DEF At

LEMMA AtEndOfPages ==
    ASSUME Base, EndOfPages
    PROVE  At = start + len
  BY DEF EndOfPages, At

LEMMA AtUnchanged ==
    ASSUME UNCHANGED <<stage, i, j, start, len, pos>>
    PROVE  At' = At
  BY DEF At, LastPage, starthere, lenhere

LEMMA AtIsNumber ==
    ASSUME Base
    PROVE  At \in Nat
<1>1. CASE stage = "pages"
  <2>1. i \in Nat /\ LastPage \in Nat /\ j \in Nat /\ start \in Nat /\ len \in Nat
    BY <1>1, PageBounds, Numbers DEF Base
  <2>2. i > LastPage \/ i <= LastPage
    BY <2>1, SMT
  <2>3. ASSUME i <= LastPage PROVE starthere + Lower(j, lenhere) \in Nat
    <3>1. starthere \in Nat /\ lenhere \in Nat
      BY <1>1, <2>3, PiecesOfPage
    <3>. QED
      BY <2>1, <3>1, SMT DEF Lower
  <2>4. start + len \in Nat
    BY <2>1, SMT
  <2>. QED
    BY <1>1, <2>2, <2>3, <2>4 DEF At
<1>2. CASE stage # "pages"
  BY <1>2, Numbers DEF At, Base
<1>. QED
  BY <1>1, <1>2
-----------------------------------------------------------------------------
(***************************************************************************)
(* Reading.                                                                *)
(***************************************************************************)
LEMMA ReadBegins ==
    ASSUME Base, NEW s \in Addr, NEW l \in 1..ChipSize - s, NEW max \in MaxData, NEW f,
           f = "read", CallChunked(f, s, l, NoData, max)
    PROVE  ReadInv'
<1>1. /\ start' = s /\ len' = l /\ data' = NoData /\ ready0' = Listening
      /\ UNCHANGED chipVars
      /\ \/ spc' = "done" /\ ret' = "error"
         \/ spc' = "loop" /\ stage' = "pages" /\ i' = s \div PageSize /\ j' = 0
  BY DEF CallChunked, Called, Loop, Return
<1>2. s \in Nat /\ l \in Nat \ {0} /\ s <= s /\ s <= s + l
  BY Sizes, SMT DEF Addr
<1>3. Listening' = Listening
  BY <1>1 DEF Listening, chipVars
<1>4. SUFFICES ASSUME ready0' PROVE ReadInv'
  BY DEF ReadInv
<1>5. Listening'
  BY <1>1, <1>3, <1>4
<1>6. CASE spc' = "done" /\ ret' = "error"
  <2>1. \A a \in Addr : data'[a] = Unread /\ mem'[a] # Unread
    BY <1>1, MarkersAssumption DEF NoData, Base, SpiTypeOK, ChipTypeOK, chipVars
  <2>2. ReadIsExact'
    BY <1>6, <2>1 DEF ReadIsExact, Range
  <2>. QED
    BY <1>5, <1>6, <2>2 DEF ReadInv
<1>7. CASE spc' = "loop" /\ stage' = "pages" /\ i' = s \div PageSize /\ j' = 0
  <2>1. At' = s
    BY <1>1, <1>7, AtBeginning
  <2>2. ReadUpTo(At)'
    <3>1. \A a \in Addr : ~(s <= a /\ a < s)
      BY <1>2, SMT DEF Addr
    <3>. QED
      BY <1>1, <2>1, <3>1 DEF ReadUpTo, NoData
  <2>. QED
    BY <1>1, <1>2, <1>5, <1>7, <2>1, <2>2 DEF ReadInv, Within
<1>. QED
  BY <1>1, <1>6, <1>7

LEMMA ReadChunkReads ==
    ASSUME Base, ReadInv, ReadChunk
    PROVE  ReadInv'
<1>1. /\ fn = "read" /\ spc = "loop" /\ InPages /\ j < lenhere /\ stage = "pages"
      /\ cmds' = <<Read(starthere + j, chunk)>> /\ spc' = "send" /\ j' = j + max_data
      /\ UNCHANGED <<chipVars, stage, spiArgs, data, i, until, pos, ret, failed>>
  BY DEF ReadChunk, InPages, SendList
<1>2. SUFFICES ASSUME ready0 PROVE ReadInv'
  BY <1>1 DEF ReadInv, spiArgs
<1>3. Listening /\ Within(At) /\ ReadUpTo(At)
  BY <1>1, <1>2 DEF ReadInv
<1>4. /\ starthere + j \in Addr /\ chunk \in 1..ChipSize
      /\ start <= starthere + j /\ starthere + j + chunk <= start + len
      /\ At = starthere + j
  BY <1>1, ChunkBounds
<1>5. At' = starthere + j + chunk
  BY <1>1, AtNextChunk DEF spiArgs
<1>6. start <= starthere + j + chunk
  BY <1>4, Numbers, Sizes, SMT DEF Addr, Base
<1>7. Within(At') /\ Within(At)
  BY <1>3, <1>4, <1>5, <1>6 DEF Within
<1>8. /\ Listening' /\ ReadUpTo(At)' = (data' = [a \in Addr |-> IF start' <= a /\ a < At' THEN mem'[a] ELSE Unread])
  BY <1>1, <1>3 DEF Listening, chipVars, ReadUpTo
<1>. QED
  BY <1>1, <1>3, <1>4, <1>5, <1>7, <1>8 DEF ReadInv, Within, ReadUpTo, spiArgs, chipVars

LEMMA NextPageReads ==
    ASSUME Base, ReadInv, NextPage
    PROVE  ReadInv'
<1>1. /\ spc = "loop" /\ stage = "pages"
      /\ UNCHANGED <<chipVars, spc, stage, spiArgs, data, until, pos, cmds, ret, failed>>
  BY DEF NextPage, InPages
<1>2. At' = At
  BY AtNextPage
<1>. QED
  BY <1>1, <1>2 DEF ReadInv, Listening, Within, ReadUpTo, spiArgs, chipVars

LEMMA EndOfPagesReads ==
    ASSUME Base, ReadInv, EndOfPages
    PROVE  ReadInv'
<1>1. /\ spc = "loop" /\ stage = "pages" /\ spc' = "done" /\ ret' = "zero"
      /\ UNCHANGED <<chipVars, stage, spiArgs, data, i, j, until, pos, cmds, failed>>
  BY DEF EndOfPages, Return
<1>2. SUFFICES ASSUME fn = "read", ready0 PROVE ReadInv'
  BY <1>1 DEF ReadInv, spiArgs
<1>3. Listening /\ ReadUpTo(At) /\ At = start + len
  BY <1>1, <1>2, AtEndOfPages DEF ReadInv
<1>4. /\ \A a \in Addr : a \notin Range => data[a] = Unread
      /\ \A a \in Range : data[a] = mem[a]
  BY <1>3 DEF ReadUpTo, Range
<1>5. ReadIsExact'
  BY <1>1, <1>4 DEF ReadIsExact, Range, spiArgs, chipVars
<1>. QED
  BY <1>1, <1>3, <1>5 DEF ReadInv, Listening, chipVars

(* What the buffer holds when a chunk comes in, or does not.                *)
LEMMA ReadPending ==
    ASSUME Base, ReadInv, spc = "send", fn = "read", ready0
    PROVE  /\ Listening /\ stage = "pages"
           /\ \E b \in Addr, n \in 1..ChipSize :
                 /\ cmds = <<Read(b, n)>> /\ b + n = At /\ Within(b) /\ Within(At) /\ ReadUpTo(b)
                 /\ Head(cmds) = Read(b, n) /\ Tail(cmds) = << >>
                 /\ Cells(Head(cmds)) = {a \in Addr : b <= a /\ a < b + n}
<1>1. Listening /\ stage = "pages"
  BY DEF ReadInv
<1>2. PICK b \in Addr, n \in 1..ChipSize :
         cmds = <<Read(b, n)>> /\ b + n = At /\ Within(b) /\ Within(At) /\ ReadUpTo(b)
  BY DEF ReadInv
<1>3. Read(b, n) \in Command
  <2>1. n \in Nat
    BY SMT
  <2>. QED
    BY <2>1, CommandTypes
<1>4. Head(cmds) = Read(b, n) /\ Tail(cmds) = << >>
  BY <1>2, <1>3, HeadsAndTails
<1>5. Cells(Head(cmds)) = {a \in Addr : b <= a /\ a < b + n}
  BY <1>4 DEF Cells, Read
<1>. QED
  BY <1>1, <1>2, <1>4, <1>5

LEMMA SendReads ==
    ASSUME Base, ReadInv, Send
    PROVE  ReadInv'
<1>1. /\ spc = "send" /\ Receive(Head(cmds)) /\ Fetch(Head(cmds))
      /\ cmds' = Tail(cmds)
      /\ spc' = IF Tail(cmds) # << >> THEN "send" ELSE IF Polled(Head(cmds)) THEN "poll" ELSE "loop"
      /\ UNCHANGED <<stage, spiArgs, i, j, until, pos, ret, failed>>
  BY DEF Send
<1>2. SUFFICES ASSUME fn = "read", ready0 PROVE ReadInv'
  BY <1>1 DEF ReadInv, spiArgs
<1>3. Listening /\ stage = "pages"
  BY <1>1, <1>2, ReadPending
<1>4. PICK b \in Addr, n \in 1..ChipSize :
         /\ cmds = <<Read(b, n)>> /\ b + n = At /\ Within(b) /\ Within(At) /\ ReadUpTo(b)
         /\ Head(cmds) = Read(b, n) /\ Tail(cmds) = << >>
         /\ Cells(Head(cmds)) = {a \in Addr : b <= a /\ a < b + n}
  BY <1>1, <1>2, ReadPending
<1>5. UNCHANGED chipVars /\ Listening'
  <2>1. UNCHANGED chipVars
    BY <1>1, <1>3, <1>4, HearsRead
  <2>. QED
    BY <1>3, <2>1 DEF Listening, chipVars
<1>6. spc' = "loop"
  BY <1>1, <1>4 DEF Polled, Read
<1>7. At' = At /\ Within(At)'
  <2>1. At' = At
    BY <1>1, AtUnchanged DEF spiArgs
  <2>. QED
    BY <1>1, <1>4, <2>1 DEF Within, spiArgs
<1>8. data' = [a \in Addr |-> IF b <= a /\ a < b + n THEN mem[a] ELSE data[a]]
  BY <1>1, <1>3, <1>4 DEF Fetch, Read
<1>9. ReadUpTo(At)'
  <2>1. ASSUME NEW a \in Addr
        PROVE  (IF b <= a /\ a < b + n THEN mem[a] ELSE IF start <= a /\ a < b THEN mem[a] ELSE Unread)
               = IF start <= a /\ a < b + n THEN mem[a] ELSE Unread
    BY <1>4, Numbers, Sizes, SMT DEF Addr, Within, Base
  <2>2. data' = [a \in Addr |-> IF start <= a /\ a < b + n THEN mem[a] ELSE Unread]
    BY <1>4, <1>8, <2>1 DEF ReadUpTo
  <2>. QED
    BY <1>1, <1>4, <1>5, <1>7, <2>2 DEF ReadUpTo, spiArgs, chipVars
<1>. QED
  BY <1>1, <1>3, <1>5, <1>6, <1>7, <1>9 DEF ReadInv

LEMMA SendFailsReads ==
    ASSUME Base, ReadInv, SendFails
    PROVE  ReadInv'
<1>1. /\ spc = "send" /\ (Receive(Head(cmds)) \/ UNCHANGED chipVars) /\ FetchNoise(Head(cmds))
      /\ UNCHANGED <<spiArgs, i, j, until, pos>>
      /\ stage # "cont" => spc' = "done" /\ ret' = "error"
  BY DEF SendFails, Broken, Return
<1>2. SUFFICES ASSUME fn = "read", ready0 PROVE ReadInv'
  BY <1>1 DEF ReadInv, spiArgs
<1>3. Listening /\ stage = "pages"
  BY <1>1, <1>2, ReadPending
<1>4. PICK b \in Addr, n \in 1..ChipSize :
         /\ cmds = <<Read(b, n)>> /\ b + n = At /\ Within(b) /\ Within(At) /\ ReadUpTo(b)
         /\ Head(cmds) = Read(b, n) /\ Tail(cmds) = << >>
         /\ Cells(Head(cmds)) = {a \in Addr : b <= a /\ a < b + n}
  BY <1>1, <1>2, ReadPending
<1>5. UNCHANGED chipVars /\ Listening'
  <2>1. UNCHANGED chipVars
    BY <1>1, <1>3, <1>4, HearsRead
  <2>. QED
    BY <1>3, <2>1 DEF Listening, chipVars
<1>6. data' = [a \in Addr |-> IF b <= a /\ a < b + n THEN Noise ELSE data[a]]
  BY <1>1, <1>4 DEF FetchNoise, Read
<1>7. ASSUME NEW a \in Addr
      PROVE  /\ a \notin Range => data'[a] = Unread
             /\ data'[a] = mem[a] => start <= a /\ a < b
             /\ start <= a /\ a < b => data'[a] = mem[a]
  <2>1. data'[a] = IF b <= a /\ a < b + n THEN Noise
                   ELSE IF start <= a /\ a < b THEN mem[a] ELSE Unread
    BY <1>4, <1>6 DEF ReadUpTo
  <2>2. mem[a] # Noise /\ mem[a] # Unread
    BY MarkersAssumption DEF Base, SpiTypeOK, ChipTypeOK
  <2>3. /\ start \in Nat /\ len \in Nat /\ a \in Nat /\ b \in Nat /\ n \in Nat
        /\ start <= b /\ b + n <= start + len
    BY <1>4, Numbers, Sizes, SMT DEF Within, Addr, Base
  <2>4. a \notin Range => ~(b <= a /\ a < b + n) /\ ~(start <= a /\ a < b)
    BY <2>3, SMT DEF Range
  <2>5. ~(b <= a /\ a < b + n /\ start <= a /\ a < b)
    BY <2>3, SMT
  <2>. QED
    BY <2>1, <2>2, <2>3, <2>4, <2>5, SMT
<1>8. ReadIsExact'
  <2>1. ASSUME NEW p \in Range, NEW q \in Range, p < q, data'[q] = mem[q] PROVE data'[p] = mem[p]
    <3>1. p \in Addr /\ q \in Addr /\ start <= p
      BY DEF Range
    <3>2. q < b
      BY <1>7, <2>1, <3>1
    <3>3. p < b
      BY <2>1, <3>1, <3>2, Sizes, SMT DEF Addr
    <3>. QED
      BY <1>7, <3>1, <3>3
  <2>. QED
    BY <1>1, <1>3, <1>5, <1>7, <2>1 DEF ReadIsExact, Range, spiArgs, chipVars
<1>. QED
  BY <1>1, <1>3, <1>5, <1>8 DEF ReadInv

LEMMA ReadNextKeeps ==
    ASSUME Base, ReadInv, [Next]_vars
    PROVE  ReadInv'
<1>1. CASE Call
  <2>1. ASSUME NEW s \in Addr, NEW l \in 1..ChipSize - s, NEW max \in MaxData,
               CallChunked("read", s, l, NoData, max)
        PROVE  ReadInv'
    BY <2>1, ReadBegins
  <2>2. fn' # "read" => ReadInv'
    BY DEF ReadInv
  <2>. QED
    BY <1>1, <2>1, <2>2 DEF Call, CallErase, CallWrite1, CallChunked, CallAAI, CallProbe, Called
<1>2. CASE WriteChunk \/ NextByte \/ EndOfBytes \/ EndOfFirstByte \/ StartAAI \/ ContinueAAI
           \/ DisableAAI \/ LastByteAAI \/ Bailed \/ EraseDone \/ Poll \/ PollFails
  <2>1. /\ UNCHANGED spiArgs
        /\ \/ fn = "write_256"
           \/ spc = "poll"
           \/ spc = "loop" /\ stage # "pages"
    BY <1>2 DEF WriteChunk, NextByte, EndOfBytes, EndOfFirstByte, StartAAI, ContinueAAI,
                DisableAAI, LastByteAAI, Bailed, EraseDone, Poll, PollFails
  <2>. QED
    BY <2>1 DEF ReadInv, spiArgs
<1>3. CASE ChipFinishes
  <2>1. UNCHANGED spiVars /\ wip
    BY <1>3 DEF ChipFinishes, Finish
  <2>2. ~(fn = "read" /\ ready0)
    BY <2>1 DEF ReadInv, Listening
  <2>. QED
    BY <2>1, <2>2 DEF ReadInv, spiVars, spiArgs
<1>4. CASE UNCHANGED vars
  <2>1. UNCHANGED chipVars /\ UNCHANGED spiVars
    BY <1>4 DEF vars
  <2>2. At' = At
    BY <2>1, AtUnchanged DEF spiVars, spiArgs
  <2>. QED
    BY <2>1, <2>2 DEF ReadInv, Listening, Within, ReadUpTo, ReadIsExact, Range, chipVars, spiVars, spiArgs
<1>. QED
  BY <1>1, <1>2, <1>3, <1>4, ReadChunkReads, NextPageReads, EndOfPagesReads, SendReads,
     SendFailsReads
     DEF Next, Step

LEMMA ReadInvariant == Spec => [](Base /\ ReadInv)
<1>1. Init => Base /\ ReadInv
  BY BaseInitEstablishes DEF Init, ReadInv
<1>2. Base /\ ReadInv /\ [Next]_vars => (Base /\ ReadInv)'
  BY BaseNextKeeps, ReadNextKeeps
<1>. QED
  BY <1>1, <1>2, PTL DEF Spec

(***************************************************************************)
(* spi_read_chunked: whatever fails, a read fills the buffer from its      *)
(* beginning with what the chip holds, and all of it if it returns zero.   *)
(***************************************************************************)
THEOREM ReadsAreExact == Spec => []ReadIsExact
<1>1. Base /\ ReadInv => ReadIsExact
  <2>1. SUFFICES ASSUME Base, ReadInv, fn = "read", ready0 PROVE ReadIsExact
    BY DEF ReadIsExact
  <2>2. ASSUME NEW e \in Nat, Within(e), ReadUpTo(e), spc # "done" PROVE ReadIsExact
    <3>1. \A a \in Addr : mem[a] # Unread
      BY <2>1, MarkersAssumption DEF Base, SpiTypeOK, ChipTypeOK
    <3>2. ret = "none"
      BY <2>1, <2>2 DEF Base, Stages
    <3>3. ASSUME NEW a \in Addr
          PROVE  /\ a \notin Range => data[a] = Unread
                 /\ data[a] = mem[a] => start <= a /\ a < e
                 /\ start <= a /\ a < e => data[a] = mem[a]
      <4>1. data[a] = IF start <= a /\ a < e THEN mem[a] ELSE Unread
        BY <2>2 DEF ReadUpTo
      <4>2. a \notin Range => ~(start <= a /\ a < e)
        BY <2>1, <2>2, Numbers, Sizes, SMT DEF Range, Within, Addr, Base
      <4>. QED
        BY <3>1, <4>1, <4>2
    <3>4. ASSUME NEW p \in Range, NEW q \in Range, p < q, data[q] = mem[q] PROVE data[p] = mem[p]
      <4>1. p \in Addr /\ q \in Addr /\ start <= p /\ q < e
        BY <3>3, <3>4 DEF Range
      <4>2. p < e
        BY <2>2, <3>4, <4>1, Numbers, Sizes, SMT DEF Addr, Within, Base
      <4>. QED
        BY <3>3, <4>1, <4>2
    <3>. QED
      BY <3>2, <3>3, <3>4 DEF ReadIsExact
  <2>3. spc \in {"loop", "send", "done"}
    BY <2>1 DEF ReadInv, Base, SpiTypeOK, Arguments
  <2>4. spc = "loop" => ReadIsExact
    BY <2>1, <2>2, AtIsNumber DEF ReadInv
  <2>5. spc = "send" => ReadIsExact
    <3>1. Addr \subseteq Nat
      BY Sizes, SMT DEF Addr
    <3>. QED
      BY <2>1, <2>2, <3>1 DEF ReadInv
  <2>. QED
    BY <2>1, <2>3, <2>4, <2>5 DEF ReadInv
<1>. QED
  BY <1>1, ReadInvariant, PTL
-----------------------------------------------------------------------------
(***************************************************************************)
(* Erasing.                                                                *)
(***************************************************************************)
LEMMA ReliableBefore ==
    ASSUME UNCHANGED spiArgs, failed \subseteq failed', Reliable'
    PROVE  Reliable
  BY DEF Reliable, spiArgs

LEMMA CallErases ==
    ASSUME Base, NEW o \in Opcodes, NEW addr \in Addr,
           NEW blocklen \in IF o \in ErasesChip THEN BlockLengths ELSE {EraseSize[o]},
           CallErase(o, addr, blocklen)
    PROVE  EraseInv'
<1>1. SUFFICES ASSUME Reliable' PROVE EraseInv'
  BY DEF EraseInv
<1>2. /\ fn' = "erase" /\ opcode' = o /\ start' = addr /\ len' = blocklen
      /\ ready0' = Listening /\ mem0' = mem /\ stage = "none"
      /\ UNCHANGED chipVars
  BY DEF CallErase, Called, Base, Stages
<1>3. Listening /\ Listening'
  BY <1>1, <1>2 DEF Reliable, Listening, chipVars
<1>4. CASE o \in ErasesChip /\ (addr # 0 \/ blocklen # ChipSize)
  <2>1. spc' = "done" /\ ret' = "error" /\ stage' = "none"
    BY <1>2, <1>4 DEF CallErase, Return
  <2>. QED
    BY <1>2, <2>1 DEF EraseInv, EraseIsExact, SuccessLeavesChipReady, chipVars
<1>5. CASE ~(o \in ErasesChip /\ (addr # 0 \/ blocklen # ChipSize))
  <2>1. /\ cmds' = (IF o \in SelfEnabled THEN << >> ELSE <<WREN>>) \o <<Erase(o, addr)>>
        /\ spc' = "send" /\ stage' = "erase"
    BY <1>5 DEF CallErase, SendList
  <2>2. blocklen = EraseSize[o]
    BY <1>5, ErasesChipAssumption
  <2>3. WREN \in Command /\ Erase(o, addr) \in Command
    BY CommandTypes
  <2>4. \/ cmds' = <<WREN, Erase(o, addr)>>
        \/ cmds' = <<Erase(o, addr)>> /\ o \in SelfEnabled
    BY <2>1, <2>3, CommandLists
  <2>. QED
    BY <1>2, <1>3, <2>1, <2>2, <2>4 DEF EraseInv, chipVars
<1>. QED
  BY <1>4, <1>5

LEMMA SendErases ==
    ASSUME Base, EraseInv, Send
    PROVE  EraseInv'
<1>1. /\ spc = "send" /\ Receive(Head(cmds))
      /\ cmds' = Tail(cmds)
      /\ spc' = IF Tail(cmds) # << >> THEN "send" ELSE IF Polled(Head(cmds)) THEN "poll" ELSE "loop"
      /\ UNCHANGED <<stage, spiArgs, failed>>
  BY DEF Send
<1>2. SUFFICES ASSUME fn = "erase", Reliable' PROVE EraseInv'
  BY <1>1 DEF EraseInv, spiArgs
<1>3. Reliable
  BY <1>1, <1>2, ReliableBefore
<1>4. /\ stage = "erase" /\ Listening /\ mem = mem0
      /\ len = EraseSize[opcode] /\ opcode \in Opcodes
      /\ \/ cmds = <<WREN, Erase(opcode, start)>>
         \/ cmds = <<Erase(opcode, start)>> /\ (wel \/ opcode \in SelfEnabled)
  BY <1>1, <1>2, <1>3 DEF EraseInv
<1>5. WREN \in Command /\ Erase(opcode, start) \in Command
  <2>1. cmds \in Seq(Command)
    BY DEF Base, SpiTypeOK
  <2>2. WREN \in Command
    BY CommandTypes
  <2>3. Erase(opcode, start) \in Command
    <3>1. CASE cmds = <<WREN, Erase(opcode, start)>>
      <4>1. 2 \in 1..Len(cmds) /\ cmds[2] = Erase(opcode, start)
        BY <3>1, SMT
      <4>. QED
        BY <2>1, <4>1, SMT
    <3>2. CASE cmds = <<Erase(opcode, start)>>
      <4>1. 1 \in 1..Len(cmds) /\ cmds[1] = Erase(opcode, start)
        BY <3>2, SMT
      <4>. QED
        BY <2>1, <4>1, SMT
    <3>. QED
      BY <1>4, <3>1, <3>2
  <2>. QED
    BY <2>2, <2>3
<1>6. CASE cmds = <<WREN, Erase(opcode, start)>>
  <2>1. Head(cmds) = WREN /\ Tail(cmds) = <<Erase(opcode, start)>> /\ Tail(cmds) # << >>
    BY <1>5, <1>6, HeadsAndTails, CommandLists
  <2>2. wel' = TRUE /\ UNCHANGED <<mem, wip, aai>>
    BY <1>1, <1>4, <2>1, HearsWREN
  <2>3. spc' = "send" /\ cmds' = <<Erase(opcode, start)>> /\ Listening' /\ mem' = mem0'
    BY <1>1, <1>4, <2>1, <2>2 DEF Listening, spiArgs
  <2>. QED
    BY <1>1, <1>4, <2>2, <2>3 DEF EraseInv, spiArgs
<1>7. CASE cmds = <<Erase(opcode, start)>> /\ (wel \/ opcode \in SelfEnabled)
  <2>1. Head(cmds) = Erase(opcode, start) /\ Tail(cmds) = << >>
    BY <1>5, <1>7, HeadsAndTails
  <2>2. /\ mem' = EraseCells(mem, BlockOf(start, EraseSize[opcode]), EraseSize[opcode])
        /\ wip' = TRUE
        /\ UNCHANGED <<wel, aai>>
    BY <1>1, <1>4, <1>7, <2>1, HearsErase
  <2>3. spc' = "poll"
    BY <1>1, <2>1 DEF Polled, Erase
  <2>4. aai' = {}
    BY <1>4, <2>2 DEF Listening
  <2>. QED
    BY <1>1, <1>4, <2>2, <2>3, <2>4 DEF EraseInv, EraseCells, BlockOf, spiArgs
<1>. QED
  BY <1>4, <1>6, <1>7

LEMMA EraseNextKeeps ==
    ASSUME Base, EraseInv, [Next]_vars
    PROVE  EraseInv'
<1>1. CASE Call
  <2>1. fn' # "erase" => EraseInv'
    BY DEF EraseInv
  <2>. QED
    BY <1>1, <2>1, CallErases
       DEF Call, CallWrite1, CallChunked, CallAAI, CallProbe, Called
<1>2. CASE ReadChunk \/ WriteChunk \/ NextPage \/ EndOfPages \/ NextByte \/ EndOfBytes
           \/ EndOfFirstByte \/ StartAAI \/ ContinueAAI \/ DisableAAI \/ LastByteAAI \/ Bailed
  <2>1. /\ UNCHANGED <<spiArgs, failed>>
        /\ spc = "loop" /\ stage # "erase"
    BY <1>2 DEF ReadChunk, WriteChunk, NextPage, EndOfPages, NextByte, EndOfBytes, InPages,
                EndOfFirstByte, StartAAI, ContinueAAI, DisableAAI, LastByteAAI, Bailed
  <2>. QED
    BY <2>1 DEF EraseInv, Reliable, spiArgs
<1>3. CASE EraseDone
  <2>1. /\ spc = "loop" /\ spc' = "done" /\ ret' = "zero"
        /\ UNCHANGED <<chipVars, stage, spiArgs, failed>>
    BY <1>3 DEF EraseDone, Return
  <2>. QED
    BY <2>1 DEF EraseInv, Reliable, EraseIsExact, SuccessLeavesChipReady, EraseCells, BlockOf,
                chipVars, spiArgs
<1>4. CASE SendFails
  <2>1. /\ spc = "send" /\ UNCHANGED spiArgs
        /\ failed' = failed \cup {"command"} /\ failed' # {}
        /\ stage # "cont" => spc' = "done" /\ ret' = "error" /\ stage' = stage
    BY <1>4 DEF SendFails, Broken, Return
  <2>2. SUFFICES ASSUME fn = "erase", Reliable' PROVE EraseInv'
    BY <2>1 DEF EraseInv, spiArgs
  <2>3. stage = "erase" /\ len = EraseSize[opcode] /\ opcode \in Opcodes
    BY <2>1, <2>2, ReliableBefore DEF EraseInv
  <2>. QED
    BY <2>1, <2>2, <2>3 DEF EraseInv, EraseIsExact, SuccessLeavesChipReady, spiArgs
<1>5. CASE Poll
  BY <1>5 DEF Poll, EraseInv, Reliable, EraseCells, BlockOf, chipVars, spiArgs
<1>6. CASE PollFails
  <2>1. "rdsr" \in failed'
    BY <1>6 DEF PollFails
  <2>. QED
    BY <2>1 DEF EraseInv, Reliable
<1>7. CASE ChipFinishes
  <2>1. wip /\ wip' = FALSE /\ wel' = (wel /\ aai # {}) /\ UNCHANGED <<mem, aai>> /\ UNCHANGED spiVars
    BY <1>7 DEF ChipFinishes, Finish
  <2>2. aai = {} => ~wel'
    BY <2>1
  <2>3. SUFFICES ASSUME fn = "erase", Reliable PROVE EraseInv'
    BY <2>1 DEF EraseInv, Reliable, spiVars, spiArgs
  <2>4. spc \in {"poll", "done"}
    BY <2>1, <2>3 DEF EraseInv, Listening, Base, SpiTypeOK, Arguments
  <2>5. CASE spc = "poll"
    BY <2>1, <2>2, <2>3, <2>5 DEF EraseInv, EraseCells, BlockOf, spiVars, spiArgs
  <2>6. CASE spc = "done"
    BY <2>1, <2>3, <2>6 DEF EraseInv, EraseIsExact, SuccessLeavesChipReady, EraseCells, BlockOf, spiVars, spiArgs
  <2>. QED
    BY <2>4, <2>5, <2>6
<1>8. CASE UNCHANGED vars
  BY <1>8 DEF EraseInv, Reliable, Listening, EraseIsExact, SuccessLeavesChipReady, EraseCells, BlockOf,
              vars, spiVars, spiArgs, chipVars
<1>. QED
  BY <1>1, <1>2, <1>3, <1>4, <1>5, <1>6, <1>7, <1>8, SendErases DEF Next, Step

LEMMA EraseInvariant == Spec => [](Base /\ EraseInv)
<1>1. Init => Base /\ EraseInv
  BY BaseInitEstablishes DEF Init, EraseInv
<1>2. Base /\ EraseInv /\ [Next]_vars => (Base /\ EraseInv)'
  BY BaseNextKeeps, EraseNextKeeps
<1>. QED
  BY <1>1, <1>2, PTL DEF Spec

(***************************************************************************)
(* spi_block_erase_20 to _db: an erase that returns zero has erased the    *)
(* block it was called for and nothing else; one that is refused, nothing. *)
(***************************************************************************)
THEOREM ErasesAreExact == Spec => []EraseIsExact
<1>1. Base /\ EraseInv => EraseIsExact
  <2>1. ASSUME Base, spc # "done" PROVE ret = "none"
    BY <2>1 DEF Base, Stages
  <2>. QED
    BY <2>1 DEF EraseInv, EraseIsExact
<1>. QED
  BY <1>1, EraseInvariant, PTL
-----------------------------------------------------------------------------
(***************************************************************************)
(* Writing: what the loops do between two lists of commands.               *)
(***************************************************************************)
LEMMA WrittenIsPrefix ==
    ASSUME Base, NEW e \in Nat, Within(e), WrittenUpTo(e)
    PROVE  PrefixWritten /\ mem = Written(e - start)
<1>1. start \in Nat /\ len \in Nat /\ start <= e /\ e <= start + len
  BY Numbers DEF Base, Within
<1>2. e - start \in 0..len /\ start + (e - start) = e
  BY <1>1, SMT
<1>3. mem = Written(e - start)
  BY <1>2 DEF WrittenUpTo, Written
<1>. QED
  BY <1>2, <1>3 DEF PrefixWritten

LEMMA CallsWrite ==
    ASSUME Base, NEW s \in Addr, NEW l \in 1..ChipSize - s, NEW buf \in Images,
           NEW max,
           \/ CallWrite1(s, l, buf)
           \/ CallChunked("write_256", s, l, buf, max)
           \/ CallAAI(s, l, buf)
    PROVE  WriteInv'
<1>1. SUFFICES ASSUME Reliable' PROVE WriteInv'
  BY DEF WriteInv
<1>2. /\ start' = s /\ len' = l /\ ready0' = Listening /\ mem0' = mem
      /\ UNCHANGED chipVars
  BY DEF CallWrite1, CallChunked, CallAAI, Called
<1>3. Listening'
  BY <1>1, <1>2 DEF Reliable, Listening, chipVars
<1>4. s \in Nat /\ l \in Nat \ {0} /\ s <= s /\ s <= s + l /\ ~(s > s)
  BY Sizes, SMT DEF Addr
<1>5. mem' = [a \in Addr |-> IF s <= a /\ a < s THEN mem0'[a] \cap data'[a] ELSE mem0'[a]]
  <2>1. \A a \in Addr : ~(s <= a /\ a < s)
    BY <1>4, SMT DEF Addr
  <2>2. mem \in [Addr -> Value] /\ mem' = mem
    BY <1>2 DEF Base, SpiTypeOK, ChipTypeOK, chipVars
  <2>. QED
    BY <1>2, <2>1, <2>2
<1>6. CASE spc' = "done" /\ ret' = "error"
  <2>1. 0 \in 0..l /\ \A a \in Addr : s + 0 = s
    BY <1>4, SMT
  <2>2. mem' = Written(0)'
    BY <1>2, <1>5, <2>1 DEF Written
  <2>. QED
    BY <1>2, <1>6, <2>1, <2>2
       DEF WriteInv, BetweenCommands, Polling, CommandPending, PrefixWritten, WriteIsExact,
           SuccessLeavesChipReady
<1>7. CASE /\ spc' = "loop" /\ stage' \in {"pages", "bytes", "word"} /\ At' = s
           /\ stage' = "bytes" => fn' = "write_1"
  BY <1>2, <1>3, <1>4, <1>5, <1>7
     DEF WriteInv, BetweenCommands, Polling, CommandPending, Within, WrittenUpTo
<1>8. CASE CallWrite1(s, l, buf)
  <2>1. spc' = "loop" /\ stage' = "bytes" /\ i' = s /\ fn' = "write_1"
    BY <1>8 DEF CallWrite1, Called, Loop
  <2>2. At' = s
    BY <2>1 DEF At
  <2>. QED
    BY <1>7, <2>1, <2>2
<1>9. CASE CallChunked("write_256", s, l, buf, max)
  <2>1. \/ spc' = "done" /\ ret' = "error"
        \/ spc' = "loop" /\ stage' = "pages" /\ i' = s \div PageSize /\ j' = 0
    BY <1>9 DEF CallChunked, Loop, Return
  <2>2. ASSUME stage' = "pages", i' = s \div PageSize, j' = 0 PROVE At' = s
    BY <1>2, <2>2, AtBeginning
  <2>. QED
    BY <1>6, <1>7, <2>1, <2>2
<1>10. CASE CallAAI(s, l, buf)
  <2>1. s % 2 # 1
    <3>1. fn' = "aai"
      BY <1>10 DEF CallAAI, Called
    <3>2. s % 2 = 0
      BY <1>1, <1>2, <3>1 DEF Reliable
    <3>. QED
      BY <3>2
  <2>2. spc' = "loop" /\ stage' = "word" /\ pos' = s
    BY <1>10, <2>1 DEF CallAAI, Loop
  <2>3. At' = s
    BY <2>2 DEF At
  <2>. QED
    BY <1>7, <2>2, <2>3
<1>. QED
  BY <1>8, <1>9, <1>10

(* What is common to the steps of a loop on a reliable chip.                *)
LEMMA LoopWrites ==
    ASSUME Base, WriteInv, fn \in Writers, Reliable, spc = "loop", stage # "bail"
    PROVE  /\ At \in Nat /\ start \in Nat /\ len \in Nat
           /\ Within(At) /\ WrittenUpTo(At)
           /\ PrefixWritten /\ mem = Written(At - start)
           /\ stage \in {"pages", "bytes", "word"} => Listening /\ (At > start => ~wel)
           /\ stage \notin {"first", "erase", "none"}
<1>1. Within(At) /\ WrittenUpTo(At) /\ stage # "first"
  BY DEF WriteInv, BetweenCommands
<1>2. At \in Nat /\ start \in Nat /\ len \in Nat
  BY AtIsNumber, Numbers DEF Base
<1>3. stage \notin {"erase", "none"}
  BY DEF Base, Stages, Writers
<1>. QED
  BY <1>1, <1>2, <1>3, WrittenIsPrefix DEF WriteInv, BetweenCommands

(* A loop that ends before its range does.                                  *)
LEMMA FailureWrites ==
    ASSUME PrefixWritten, spc' = "done", ret' = "error", mem' = mem, data' = data,
           UNCHANGED <<spiArgs, failed>>
    PROVE  WriteInv'
<1>1. PrefixWritten'
  BY DEF PrefixWritten, Written, Reliable, spiArgs
<1>. QED
  BY <1>1 DEF WriteInv, BetweenCommands, Polling, CommandPending, WriteIsExact, SuccessLeavesChipReady

(* A loop that ends with its range.                                         *)
LEMMA SuccessWrites ==
    ASSUME Base, WriteInv, fn \in Writers, Reliable, spc = "loop", stage # "bail",
           At = start + (IF fn = "aai" THEN len - (len % 2) ELSE len),
           Listening, ~wel,
           spc' = "done", ret' = "zero", UNCHANGED <<chipVars, spiArgs, data, failed>>
    PROVE  WriteInv'
<1>1. PrefixWritten /\ mem = Written(At - start) /\ start \in Nat /\ len \in Nat
  BY LoopWrites
<1>2. At - start = IF fn = "aai" THEN len - (len % 2) ELSE len
  BY <1>1, SMT
<1>3. PrefixWritten'
  BY <1>1 DEF PrefixWritten, Written, Reliable, spiArgs, chipVars
<1>4. WriteIsExact'
  <2>1. SUFFICES ASSUME fn = "aai" => len % 2 = 0
                 PROVE  WriteIsExact'
    BY DEF WriteIsExact, spiArgs
  <2>2. len - 0 = len
    BY <1>1, SMT
  <2>3. At - start = len
    BY <1>2, <2>1, <2>2
  <2>. QED
    BY <1>1, <2>3 DEF WriteIsExact, Written, spiArgs, chipVars
<1>5. SuccessLeavesChipReady'
  BY DEF SuccessLeavesChipReady, Listening, chipVars
<1>. QED
  BY <1>3, <1>4, <1>5 DEF WriteInv, BetweenCommands, Polling, CommandPending

(* A page program to come.                                                  *)
LEMMA ProgramIsPending ==
    ASSUME NEW b \in Addr, NEW n \in 1..ChipSize, FitsPage(b, n), At' = b + n,
           Within(b), Within(b + n), WrittenUpTo(b), Listening,
           spc' = "send", stage' \in {"pages", "bytes"}, stage' = "bytes" => fn' = "write_1",
           cmds' = <<WREN, Program(b, Piece(b, n))>>,
           UNCHANGED <<chipVars, spiArgs, data>>
    PROVE  WriteInv'
<1>1. Within(b)' /\ Within(At)'
  BY DEF Within, spiArgs
<1>2. WrittenUpTo(b)'
  BY DEF WrittenUpTo, spiArgs, chipVars
<1>3. Piece(b, n)' = Piece(b, n)
  BY DEF Piece
<1>4. ProgramPending(b)'
  <2>1. Listening'
    BY DEF Listening, chipVars
  <2>2. FitsPage(b, n)'
    BY DEF FitsPage
  <2>. QED
    BY <1>3, <2>1, <2>2 DEF ProgramPending
<1>5. CommandPending'
  BY <1>1, <1>2, <1>4 DEF CommandPending
<1>. QED
  BY <1>5 DEF WriteInv, BetweenCommands, Polling

LEMMA WriteChunkWrites ==
    ASSUME Base, WriteInv, WriteChunk
    PROVE  WriteInv'
<1>1. /\ fn = "write_256" /\ spc = "loop" /\ stage = "pages" /\ InPages /\ j < lenhere
      /\ UNCHANGED <<chipVars, spiArgs, data, i, until, pos, failed>>
      /\ \/ spc' = "done" /\ ret' = "error"
         \/ /\ spc' = "send" /\ stage' = "pages"
            /\ cmds' = <<WREN, Program(starthere + j, Piece(starthere + j, chunk))>>
            /\ j' = j + max_data
  BY DEF WriteChunk, InPages, SendList, Return
<1>2. SUFFICES ASSUME Reliable' PROVE WriteInv'
  BY DEF WriteInv
<1>3. Reliable /\ fn \in Writers
  BY <1>1, <1>2 DEF Reliable, spiArgs, Writers
<1>4. /\ Within(At) /\ WrittenUpTo(At) /\ PrefixWritten /\ Listening /\ At \in Nat
  BY <1>1, <1>3, LoopWrites
<1>5. CASE spc' = "done" /\ ret' = "error"
  BY <1>1, <1>4, <1>5, FailureWrites DEF chipVars
<1>6. CASE spc' = "send" /\ stage' = "pages"
  <2>1. /\ At \in Addr /\ chunk \in 1..ChipSize
        /\ At + chunk <= start + len
        /\ FitsPage(At, chunk) /\ At = starthere + j
    BY <1>1, ChunkBounds
  <2>2. PICK b \in Addr, n \in 1..ChipSize : b = At /\ n = chunk
    BY <2>1
  <2>3. At' = b + n
    BY <1>1, <1>6, <2>1, <2>2, AtNextChunk DEF spiArgs
  <2>4. cmds' = <<WREN, Program(b, Piece(b, n))>>
    BY <1>1, <1>6, <2>1, <2>2
  <2>5. Within(b) /\ Within(b + n)
    BY <1>4, <2>1, <2>2, Numbers, Sizes, SMT DEF Within, Addr, Base
  <2>. QED
    BY <1>1, <1>4, <1>6, <2>1, <2>2, <2>3, <2>4, <2>5, ProgramIsPending
<1>. QED
  BY <1>1, <1>5, <1>6

LEMMA NextPageWrites ==
    ASSUME Base, WriteInv, NextPage
    PROVE  WriteInv'
<1>1. /\ spc = "loop" /\ stage = "pages"
      /\ UNCHANGED <<chipVars, spc, stage, spiArgs, data, until, pos, cmds, ret, failed>>
  BY DEF NextPage, InPages
<1>2. At' = At
  BY AtNextPage
<1>3. SUFFICES ASSUME fn \in Writers, Reliable PROVE WriteInv'
  BY <1>1 DEF WriteInv, Reliable, spiArgs
<1>4. /\ Within(At) /\ WrittenUpTo(At) /\ Listening /\ (At > start => ~wel)
  BY <1>1, <1>3, LoopWrites
<1>. QED
  BY <1>1, <1>2, <1>4
     DEF WriteInv, BetweenCommands, Polling, CommandPending, Within, WrittenUpTo, Listening, spiArgs, chipVars

LEMMA EndOfPagesWrites ==
    ASSUME Base, WriteInv, EndOfPages
    PROVE  WriteInv'
<1>1. /\ spc = "loop" /\ stage = "pages" /\ spc' = "done" /\ ret' = "zero" /\ fn # "aai"
      /\ UNCHANGED <<chipVars, spiArgs, data, failed>>
  BY DEF EndOfPages, Return, Base, Stages
<1>2. SUFFICES ASSUME fn \in Writers, Reliable PROVE WriteInv'
  BY <1>1 DEF WriteInv, Reliable, spiArgs
<1>3. /\ Listening /\ (At > start => ~wel) /\ start \in Nat /\ len \in Nat
  BY <1>1, <1>2, LoopWrites
<1>4. At = start + len
  BY AtEndOfPages
<1>5. At > start
  BY <1>2, <1>3, <1>4, SMT DEF Base, Arguments
<1>. QED
  BY <1>1, <1>2, <1>3, <1>4, <1>5, SuccessWrites

LEMMA SingleByteFits ==
    ASSUME NEW b \in Addr
    PROVE  FitsPage(b, 1) /\ 1 \in 1..ChipSize
<1>1. b \in Nat /\ PageSize \in Nat \ {0} /\ ChipSize \in Nat /\ b < ChipSize
  BY Sizes, SMT DEF Addr
<1> DEFINE q == b \div PageSize
<1>2. q \in Nat /\ q * PageSize <= b /\ b < q * PageSize + PageSize
  BY <1>1, Division, PageOfAddress
<1>3. (q + 1) * PageSize = q * PageSize + PageSize /\ q * PageSize \in Nat /\ q <= q * PageSize
  BY <1>1, <1>2, Products
<1> HIDE DEF q
<1>4. q \in 0..ChipSize /\ b + 1 <= (q + 1) * PageSize /\ 1 \in 1..ChipSize
  BY <1>1, <1>2, <1>3, SMT
<1>. QED
  BY <1>2, <1>4 DEF FitsPage

LEMMA NextByteWrites ==
    ASSUME Base, WriteInv, NextByte
    PROVE  WriteInv'
<1>1. /\ spc = "loop" /\ stage \in {"bytes", "first"} /\ i < until
      /\ spc' = "send" /\ cmds' = <<WREN, Program(i, Piece(i, 1))>> /\ i' = i + 1
      /\ UNCHANGED <<chipVars, stage, spiArgs, data, j, until, pos, ret, failed>>
  BY DEF NextByte, SendList
<1>2. SUFFICES ASSUME fn \in Writers, Reliable PROVE WriteInv'
  BY <1>1 DEF WriteInv, Reliable, spiArgs
<1>3. /\ Within(At) /\ WrittenUpTo(At) /\ Listening /\ stage # "first"
  BY <1>1, <1>2, LoopWrites
<1>4. At = i /\ At' = i + 1 /\ stage = "bytes"
  BY <1>1, <1>3 DEF At
<1>5. i \in Nat /\ until \in Nat /\ until <= ChipSize /\ start \in Nat /\ len \in Nat
  BY Numbers DEF Base
<1>6. fn = "write_1" /\ until = start + len
  <2>1. i # until
    BY <1>1, <1>5, SMT
  <2>. QED
    BY <1>4, <2>1 DEF Base, Stages
<1>7. i \in Addr /\ start <= i /\ i <= start + len /\ start <= i + 1 /\ i + 1 <= start + len
  BY <1>1, <1>3, <1>4, <1>5, <1>6, Sizes, SMT DEF Within, Addr
<1>8. FitsPage(i, 1) /\ 1 \in 1..ChipSize
  BY <1>7, SingleByteFits
<1>9. PICK b \in Addr : b = i
  BY <1>7
<1>10. /\ FitsPage(b, 1) /\ At' = b + 1
       /\ Within(b) /\ Within(b + 1) /\ WrittenUpTo(b)
       /\ cmds' = <<WREN, Program(b, Piece(b, 1))>>
  BY <1>1, <1>3, <1>4, <1>7, <1>8, <1>9 DEF Within
<1>. QED
  BY <1>1, <1>3, <1>4, <1>6, <1>8, <1>10, ProgramIsPending DEF spiArgs

(* Where the words of an AAI write end that begins at an even address.      *)
LEMMA EndOfWords ==
    ASSUME NEW s \in Nat, NEW l \in Nat, NEW p \in Nat, s % 2 = 0, p % 2 = 0,
           p <= s + l, p >= s + l - 1, l > 0, p > s
    PROVE  p = s + (l - (l % 2)) /\ p > s
  BY SMT

LEMMA EndOfBytesWrites ==
    ASSUME Base, WriteInv, EndOfBytes
    PROVE  WriteInv'
<1>1. /\ spc = "loop" /\ stage = "bytes" /\ i >= until /\ spc' = "done" /\ ret' = "zero"
      /\ UNCHANGED <<chipVars, spiArgs, data, failed>>
  BY DEF EndOfBytes, Return
<1>2. SUFFICES ASSUME fn \in Writers, Reliable PROVE WriteInv'
  BY <1>1 DEF WriteInv, Reliable, spiArgs
<1>3. /\ Within(At) /\ Listening /\ (At > start => ~wel) /\ start \in Nat /\ len \in Nat
      /\ At = i /\ i \in Nat /\ until \in Nat
  BY <1>1, <1>2, LoopWrites, Numbers DEF At, Base
<1>4. len > 0
  BY <1>2 DEF Base, Arguments
<1>5. CASE fn = "write_1"
  <2>1. i = start + len /\ i > start
    BY <1>1, <1>3, <1>4, <1>5, SMT DEF Base, Stages, Within
  <2>. QED
    BY <1>1, <1>2, <1>3, <1>5, <2>1, SuccessWrites
<1>6. CASE fn = "aai"
  <2>1. pos >= start + len - 1 /\ pos > start /\ i = pos /\ pos % 2 = 0
    BY <1>1, <1>2, <1>6 DEF WriteInv, BetweenCommands, Base, Stages
  <2>2. start % 2 = 0
    BY <1>2, <1>6 DEF Reliable
  <2>3. i = start + (len - (len % 2)) /\ i > start
    BY <1>3, <1>4, <2>1, <2>2, EndOfWords DEF Within
  <2>. QED
    BY <1>1, <1>2, <1>3, <1>6, <2>3, SuccessWrites
<1>. QED
  BY <1>1, <1>5, <1>6 DEF Base, Stages

LEMMA StartAAIWrites ==
    ASSUME Base, WriteInv, StartAAI
    PROVE  WriteInv'
<1>1. /\ spc = "loop" /\ stage = "word"
      /\ spc' = "send" /\ stage' = "cont" /\ pos' = pos + 2
      /\ UNCHANGED <<chipVars, spiArgs, data, failed>>
  BY DEF StartAAI, SendList
<1>2. SUFFICES ASSUME Reliable PROVE WriteInv'
  BY <1>1 DEF WriteInv, Reliable, spiArgs
<1>3. fn = "aai" /\ fn \in Writers /\ start % 2 = 0 /\ len >= 2 /\ pos = start + (start % 2)
  BY <1>1, <1>2 DEF Base, Stages, Reliable, Writers
<1>4. /\ Within(pos) /\ WrittenUpTo(pos) /\ Listening /\ start \in Nat /\ len \in Nat /\ pos \in Nat
      /\ start + len <= ChipSize
  BY <1>1, <1>2, <1>3, LoopWrites, Numbers DEF At, Base, Arguments
<1>5. pos \in Addr /\ pos < start + len /\ pos + 1 < start + len /\ Within(pos + 2)
  BY <1>3, <1>4, Sizes, SMT DEF Within, Addr
<1>6. cmds' = <<WREN, AAIWord(pos, <<data[pos], data[pos + 1]>>)>>
  <2>1. DeadArray = {}
    BY <1>3 DEF DeadArray
  <2>2. Words = {<<data[pos], data[pos + 1]>>}
    <3>1. ByteAt(pos) = {data[pos]} /\ ByteAt(pos + 1) = {data[pos + 1]}
      BY <1>5 DEF ByteAt
    <3>. QED
      BY <3>1 DEF Words
  <2>3. \E c \in {AAIWord(pos, w) : w \in Words} \cup DeadArray : cmds' = <<WREN, c>>
    BY DEF StartAAI, SendList
  <2>. QED
    BY <2>1, <2>2, <2>3
<1>7. PICK b \in Addr : b = pos
  BY <1>5
<1>8. /\ Within(b)' /\ Within(pos)' /\ WrittenUpTo(b)'
  BY <1>1, <1>4, <1>5, <1>7 DEF Within, WrittenUpTo, spiArgs, chipVars
<1>9. WordPending(b)'
  BY <1>1, <1>4, <1>6, <1>7 DEF WordPending, Listening, chipVars
<1>10. CommandPending'
  BY <1>1, <1>8, <1>9 DEF CommandPending
<1>. QED
  BY <1>1, <1>10 DEF WriteInv, BetweenCommands, Polling

LEMMA ContinueAAIWrites ==
    ASSUME Base, WriteInv, ContinueAAI
    PROVE  WriteInv'
<1>1. /\ spc = "loop" /\ stage = "cont" /\ MoreWords
      /\ spc' = "send" /\ stage' = "cont" /\ pos' = pos + 2
      /\ cmds' = <<AAICont(Piece(pos, 2))>>
      /\ UNCHANGED <<chipVars, spiArgs, data, failed>>
  BY DEF ContinueAAI, SendList
<1>2. SUFFICES ASSUME Reliable PROVE WriteInv'
  BY <1>1 DEF WriteInv, Reliable, spiArgs
<1>3. fn = "aai" /\ fn \in Writers
  BY <1>1 DEF Base, Stages, Writers
<1>4. /\ Within(pos) /\ WrittenUpTo(pos) /\ start \in Nat /\ len \in Nat /\ pos \in Nat
      /\ start + len <= ChipSize
      /\ ~wip /\ wel /\ aai = {pos % ChipSize}
  BY <1>1, <1>2, <1>3, LoopWrites, Numbers DEF At, Base, Arguments, WriteInv, BetweenCommands
<1>5. pos \in Addr /\ Within(pos + 2) /\ pos % ChipSize = pos
  BY <1>1, <1>4, Sizes, SMT DEF Within, Addr, MoreWords
<1>7. PICK b \in Addr : b = pos
  BY <1>5
<1>8. /\ Within(b)' /\ Within(pos)' /\ WrittenUpTo(b)'
  BY <1>1, <1>4, <1>5, <1>7 DEF Within, WrittenUpTo, spiArgs, chipVars
<1>9. WordPending(b)'
  <2>1. Piece(b, 2)' = Piece(b, 2)
    BY <1>1 DEF Piece
  <2>. QED
    BY <1>1, <1>4, <1>5, <1>7, <2>1 DEF WordPending, chipVars
<1>10. CommandPending'
  BY <1>1, <1>8, <1>9 DEF CommandPending
<1>. QED
  BY <1>1, <1>10 DEF WriteInv, BetweenCommands, Polling

LEMMA DisableAAIWrites ==
    ASSUME Base, WriteInv, DisableAAI
    PROVE  WriteInv'
<1>1. /\ spc = "loop" /\ stage = "cont" /\ ~MoreWords
      /\ spc' = "send" /\ stage' = "last" /\ cmds' = <<WRDI>>
      /\ UNCHANGED <<chipVars, spiArgs, data, pos, failed>>
  BY DEF DisableAAI, SendList
<1>2. SUFFICES ASSUME Reliable PROVE WriteInv'
  BY <1>1 DEF WriteInv, Reliable, spiArgs
<1>3. fn = "aai" /\ fn \in Writers
  BY <1>1 DEF Base, Stages, Writers
<1>4. /\ Within(pos) /\ WrittenUpTo(pos) /\ start \in Nat /\ len \in Nat /\ pos \in Nat
      /\ ~wip /\ wel /\ aai = {pos % ChipSize} /\ pos > start
  BY <1>1, <1>2, <1>3, LoopWrites, Numbers DEF At, Base, WriteInv, BetweenCommands
<1>5. pos >= start + len - 1
  BY <1>1, <1>4, SMT DEF MoreWords
<1>6. Within(pos)' /\ WrittenUpTo(pos)'
  BY <1>1, <1>4 DEF Within, WrittenUpTo, spiArgs, chipVars
<1>7. CommandPending'
  BY <1>1, <1>4, <1>5, <1>6 DEF CommandPending, spiArgs, chipVars
<1>. QED
  BY <1>1, <1>7 DEF WriteInv, BetweenCommands, Polling

LEMMA LastByteAAIWrites ==
    ASSUME Base, WriteInv, LastByteAAI
    PROVE  WriteInv'
<1>1. /\ spc = "loop" /\ stage = "last"
      /\ UNCHANGED <<chipVars, spiArgs, data, pos, failed>>
      /\ \/ pos < start + len /\ stage' = "bytes" /\ i' = pos /\ spc' = "loop"
         \/ ~(pos < start + len) /\ spc' = "done" /\ ret' = "zero"
  BY DEF LastByteAAI, Return
<1>2. SUFFICES ASSUME Reliable PROVE WriteInv'
  BY <1>1 DEF WriteInv, Reliable, spiArgs
<1>3. fn = "aai" /\ fn \in Writers /\ start % 2 = 0 /\ pos % 2 = 0
  BY <1>1, <1>2 DEF Base, Stages, Writers, Reliable
<1>4. /\ Within(pos) /\ WrittenUpTo(pos) /\ start \in Nat /\ len \in Nat /\ pos \in Nat
      /\ Listening /\ ~wel /\ pos >= start + len - 1 /\ pos > start /\ At = pos
  BY <1>1, <1>2, <1>3, LoopWrites, Numbers DEF At, Base, WriteInv, BetweenCommands
<1>5. CASE pos < start + len /\ stage' = "bytes" /\ i' = pos /\ spc' = "loop"
  <2>1. At' = pos'
    BY <1>1, <1>5 DEF At
  <2>2. /\ Within(pos)' /\ WrittenUpTo(pos)' /\ Listening'
    BY <1>1, <1>4 DEF Within, WrittenUpTo, Listening, spiArgs, chipVars
  <2>3. BetweenCommands'
    BY <1>1, <1>4, <1>5, <2>1, <2>2 DEF BetweenCommands, spiArgs, chipVars
  <2>. QED
    BY <1>5, <2>3 DEF WriteInv, Polling, CommandPending
<1>6. CASE ~(pos < start + len) /\ spc' = "done" /\ ret' = "zero"
  <2>1. pos = start + (len - (len % 2))
    BY <1>3, <1>4, EndOfWords DEF Within
  <2>. QED
    BY <1>1, <1>2, <1>3, <1>4, <1>6, <2>1, SuccessWrites
<1>. QED
  BY <1>1, <1>5, <1>6

LEMMA BailedWrites ==
    ASSUME Base, WriteInv, Bailed
    PROVE  WriteInv'
<1>1. /\ spc = "loop" /\ stage = "bail" /\ spc' = "done" /\ ret' = "error"
      /\ UNCHANGED <<chipVars, spiArgs, data, failed>>
  BY DEF Bailed, Return
<1>2. SUFFICES ASSUME fn \in Writers, Reliable PROVE WriteInv'
  BY <1>1 DEF WriteInv, Reliable, spiArgs
<1>3. PrefixWritten
  BY <1>1, <1>2 DEF WriteInv, BetweenCommands
<1>. QED
  BY <1>1, <1>3, FailureWrites DEF chipVars
-----------------------------------------------------------------------------
(***************************************************************************)
(* Writing: what the commands do that are sent.                            *)
(***************************************************************************)
LEMMA MoreIsWritten ==
    ASSUME Base, fn \in Writers, NEW b \in Addr, NEW n \in 1..ChipSize, Within(b), WrittenUpTo(b),
           mem' = [a \in Addr |-> IF b <= a /\ a < b + n THEN mem[a] \cap data[a] ELSE mem[a]],
           UNCHANGED spiArgs, data' = data
    PROVE  WrittenUpTo(b + n)'
<1>1. start \in Nat /\ b \in Nat /\ n \in Nat /\ start <= b /\ \A a \in Addr : a \in Nat
  BY Numbers, Sizes, SMT DEF Base, Within, Addr
<1>2. \A a \in Addr : mem[a] = IF start <= a /\ a < b THEN mem0[a] \cap data[a] ELSE mem0[a]
  BY DEF WrittenUpTo
<1>3. ASSUME NEW a \in Addr
      PROVE  (IF b <= a /\ a < b + n THEN mem[a] \cap data[a] ELSE mem[a])
             = IF start <= a /\ a < b + n THEN mem0[a] \cap data[a] ELSE mem0[a]
  <2>1. CASE b <= a /\ a < b + n
    <3>1. start <= a /\ ~(a < b)
      BY <1>1, <2>1, SMT
    <3>2. mem[a] = mem0[a]
      BY <1>2, <3>1
    <3>. QED
      BY <2>1, <3>1, <3>2
  <2>2. CASE a < b
    <3>1. ~(b <= a) /\ a < b + n
      BY <1>1, <2>2, SMT
    <3>. QED
      BY <1>2, <2>2, <3>1
  <2>3. CASE ~(a < b + n)
    <3>1. ~(a < b)
      BY <1>1, <2>3, SMT
    <3>. QED
      BY <1>2, <2>3, <3>1
  <2>. QED
    BY <1>1, <2>1, <2>2, <2>3, SMT
<1>4. mem' = [a \in Addr |-> IF start <= a /\ a < b + n THEN mem0[a] \cap data[a] ELSE mem0[a]]
  BY <1>3
<1>. QED
  BY <1>4 DEF WrittenUpTo, spiArgs

(* A page program is carried out.                                           *)
LEMMA PageArrives ==
    ASSUME Base, fn \in Writers, NEW b \in Addr, NEW n \in 1..ChipSize, FitsPage(b, n),
           Within(b), WrittenUpTo(b), Listening, wel,
           Receive(Program(b, Piece(b, n))), UNCHANGED spiArgs, data' = data
    PROVE  wip' = TRUE /\ UNCHANGED <<wel, aai>> /\ WrittenUpTo(b + n)'
<1>1. mem' = ProgramPage(mem, b, Piece(b, n)) /\ wip' = TRUE /\ UNCHANGED <<wel, aai>>
  BY HearsProgram
<1>2. mem \in [Addr -> Value]
  BY DEF Base, SpiTypeOK, ChipTypeOK
<1>3. mem' = [a \in Addr |-> IF b <= a /\ a < b + n THEN mem[a] \cap data[a] ELSE mem[a]]
  BY <1>1, <1>2, ProgramsPiece
<1>. QED
  BY <1>1, <1>3, MoreIsWritten

(* A word of an AAI write is carried out.                                   *)
LEMMA WordArrives ==
    ASSUME Base, fn \in Writers, NEW b \in Addr, b + 1 \in Addr,
           Within(b), WrittenUpTo(b), ~wip, UNCHANGED spiArgs, data' = data,
           \/ aai = {} /\ wel /\ Receive(AAIWord(b, <<data[b], data[b + 1]>>))
           \/ aai = {b} /\ Receive(AAICont(Piece(b, 2)))
    PROVE  /\ wip' = TRUE /\ aai' = {(b + 2) % ChipSize}
           /\ UNCHANGED wel
           /\ WrittenUpTo(b + 2)'
<1>1. PICK s : /\ s[1] = data[b] /\ s[2] = data[b + 1]
               /\ mem' = ProgramWord(mem, b, s) /\ wip' = TRUE /\ aai' = {(b + 2) % ChipSize}
               /\ UNCHANGED wel
  <2>1. CASE aai = {} /\ wel /\ Receive(AAIWord(b, <<data[b], data[b + 1]>>))
    <3>1. <<data[b], data[b + 1]>>[1] = data[b] /\ <<data[b], data[b + 1]>>[2] = data[b + 1]
      BY SMT
    <3>2. Listening
      BY <2>1 DEF Listening
    <3>. QED
      BY <2>1, <3>1, <3>2, HearsAAI
  <2>2. CASE aai = {b} /\ Receive(AAICont(Piece(b, 2)))
    <3>1. Piece(b, 2)[1] = data[b] /\ Piece(b, 2)[2] = data[b + 1]
      <4>1. 1 \in 1..2 /\ 2 \in 1..2 /\ b + 1 - 1 = b /\ b + 2 - 1 = b + 1
        BY Sizes, SMT DEF Addr
      <4>. QED
        BY <4>1 DEF Piece
    <3>. QED
      BY <2>2, <3>1, HearsAAICont
  <2>. QED
    BY <2>1, <2>2
<1>2. mem \in [Addr -> Value]
  BY DEF Base, SpiTypeOK, ChipTypeOK
<1>3. mem' = [a \in Addr |-> IF b <= a /\ a < b + 2 THEN mem[a] \cap data[a] ELSE mem[a]]
  BY <1>1, <1>2, ProgramsWord
<1>4. 2 \in 1..ChipSize
  BY Sizes, SMT
<1>. QED
  BY <1>1, <1>3, <1>4, MoreIsWritten

LEMMA ListOfOne ==
    ASSUME Base, NEW c, cmds = <<c>>
    PROVE  c \in Command /\ Head(cmds) = c /\ Tail(cmds) = << >>
<1>1. cmds \in Seq(Command)
  BY DEF Base, SpiTypeOK
<1>2. 1 \in 1..Len(cmds) /\ cmds[1] = c
  BY SMT
<1>3. c \in Command
  BY <1>1, <1>2, SMT
<1>. QED
  BY <1>3, HeadsAndTails

LEMMA ListOfTwo ==
    ASSUME Base, NEW c, NEW d, cmds = <<c, d>>
    PROVE  Head(cmds) = c /\ Tail(cmds) = <<d>> /\ Tail(cmds) # << >>
<1>1. cmds \in Seq(Command)
  BY DEF Base, SpiTypeOK
<1>2. 1 \in 1..Len(cmds) /\ cmds[1] = c /\ 2 \in 1..Len(cmds) /\ cmds[2] = d
  BY SMT
<1>3. c \in Command /\ d \in Command
  BY <1>1, <1>2, SMT
<1>. QED
  BY <1>3, HeadsAndTails, CommandLists

(* The step of a list, as far as all of them have it in common.             *)
LEMMA SendStep ==
    ASSUME Base, Send, fn \in Writers
    PROVE  /\ spc = "send" /\ Receive(Head(cmds)) /\ cmds' = Tail(cmds)
           /\ Tail(cmds) # << >> => spc' = "send"
           /\ Tail(cmds) = << >> => spc' = IF Polled(Head(cmds)) THEN "poll" ELSE "loop"
           /\ UNCHANGED <<stage, spiArgs, data, i, j, until, pos, ret, failed>>
           /\ At' = At
<1>1. /\ spc = "send" /\ Receive(Head(cmds)) /\ cmds' = Tail(cmds) /\ Fetch(Head(cmds))
      /\ Tail(cmds) # << >> => spc' = "send"
      /\ Tail(cmds) = << >> => spc' = IF Polled(Head(cmds)) THEN "poll" ELSE "loop"
      /\ UNCHANGED <<stage, spiArgs, i, j, until, pos, ret, failed>>
  BY DEF Send
<1>2. data' = data
  BY <1>1, WritersFetchNothing DEF Writers
<1>3. At' = At
  BY <1>1, AtUnchanged DEF spiArgs
<1>. QED
  BY <1>1, <1>2, <1>3

LEMMA SendProgramWrites ==
    ASSUME Base, Send, fn \in Writers, stage \in {"pages", "bytes"}, stage = "bytes" => fn = "write_1",
           NEW b \in Addr, ProgramPending(b), Within(b), Within(At), WrittenUpTo(b)
    PROVE  WriteInv'
<1>1. /\ spc = "send" /\ Receive(Head(cmds)) /\ cmds' = Tail(cmds)
      /\ Tail(cmds) # << >> => spc' = "send"
      /\ Tail(cmds) = << >> => spc' = IF Polled(Head(cmds)) THEN "poll" ELSE "loop"
      /\ UNCHANGED <<stage, spiArgs, data, i, j, until, pos, ret, failed>>
      /\ At' = At
  BY SendStep
<1>2. PICK n \in 1..ChipSize :
        /\ b + n = At /\ FitsPage(b, n)
        /\ Listening
        /\ \/ cmds = <<WREN, Program(b, Piece(b, n))>>
           \/ cmds = <<Program(b, Piece(b, n))>> /\ wel
  BY DEF ProgramPending
<1>3. CASE cmds = <<WREN, Program(b, Piece(b, n))>>
  <2>1. Head(cmds) = WREN /\ Tail(cmds) = <<Program(b, Piece(b, n))>> /\ Tail(cmds) # << >>
    BY <1>3, ListOfTwo
  <2>2. wel' = TRUE /\ UNCHANGED <<mem, wip, aai>>
    BY <1>1, <1>2, <2>1, HearsWREN
  <2>3. Listening' /\ Within(b)' /\ Within(At)' /\ WrittenUpTo(b)' /\ FitsPage(b, n)'
    BY <1>1, <1>2, <2>2 DEF Listening, Within, WrittenUpTo, FitsPage, spiArgs
  <2>4. Piece(b, n)' = Piece(b, n)
    BY <1>1 DEF Piece
  <2>5. ProgramPending(b)'
    BY <1>1, <1>2, <2>1, <2>2, <2>3, <2>4 DEF ProgramPending
  <2>6. CommandPending' /\ spc' = "send"
    BY <1>1, <2>1, <2>3, <2>5 DEF CommandPending, spiArgs
  <2>. QED
    BY <2>6 DEF WriteInv, BetweenCommands, Polling
<1>4. CASE cmds = <<Program(b, Piece(b, n))>> /\ wel
  <2>1. Head(cmds) = Program(b, Piece(b, n)) /\ Tail(cmds) = << >>
    BY <1>4, ListOfOne
  <2>2. wip' = TRUE /\ UNCHANGED <<wel, aai>> /\ WrittenUpTo(b + n)'
    BY <1>1, <1>2, <1>4, <2>1, PageArrives
  <2>3. spc' = "poll"
    BY <1>1, <2>1 DEF Polled, Program
  <2>4. Within(At)' /\ WrittenUpTo(At)'
    BY <1>1, <1>2, <2>2 DEF Within, WrittenUpTo, spiArgs
  <2>5. (At > start)'
    <3>1. start \in Nat /\ start <= b /\ n >= 1 /\ b \in Nat /\ n \in Nat
      BY Numbers, Sizes, SMT DEF Base, Within, Addr
    <3>2. At > start
      BY <1>2, <3>1, SMT
    <3>. QED
      BY <1>1, <3>2 DEF spiArgs
  <2>6. Polling'
    BY <1>1, <1>2, <2>2, <2>4, <2>5 DEF Polling, Listening, spiArgs
  <2>. QED
    BY <2>3, <2>6 DEF WriteInv, BetweenCommands, CommandPending
<1>. QED
  BY <1>2, <1>3, <1>4

LEMMA SendWordWrites ==
    ASSUME Base, Send, fn \in Writers, stage = "cont",
           NEW b \in Addr, WordPending(b), Within(b), Within(pos), WrittenUpTo(b)
    PROVE  WriteInv'
<1>1. /\ spc = "send" /\ Receive(Head(cmds)) /\ cmds' = Tail(cmds)
      /\ Tail(cmds) # << >> => spc' = "send"
      /\ Tail(cmds) = << >> => spc' = IF Polled(Head(cmds)) THEN "poll" ELSE "loop"
      /\ UNCHANGED <<stage, spiArgs, data, i, j, until, pos, ret, failed>>
      /\ At' = At
  BY SendStep
<1> DEFINE word == AAIWord(b, <<data[b], data[b + 1]>>)
           more == AAICont(Piece(b, 2))
<1>2. /\ b + 2 = pos /\ ~wip
      /\ \/ aai = {} /\ cmds = <<WREN, word>>
         \/ aai = {} /\ cmds = <<word>> /\ wel
         \/ aai = {b} /\ cmds = <<more>> /\ wel
  BY DEF WordPending
<1>3. At = pos /\ b + 1 \in Addr /\ pos > start
  <2>1. start \in Nat /\ len \in Nat /\ start + len <= ChipSize /\ start <= b /\ b \in Nat
        /\ b + 2 <= start + len
    BY <1>2, Numbers, Sizes, SMT DEF Base, Within, Addr, Arguments
  <2>. QED
    BY <1>2, <2>1, Sizes, SMT DEF At, Addr
<1>4. CASE aai = {} /\ cmds = <<WREN, word>>
  <2>1. Head(cmds) = WREN /\ Tail(cmds) = <<word>> /\ Tail(cmds) # << >>
    BY <1>4, ListOfTwo
  <2>2. wel' = TRUE /\ UNCHANGED <<mem, wip, aai>>
    BY <1>1, <1>2, <1>4, <2>1, HearsWREN DEF Listening
  <2>3. Within(b)' /\ Within(pos)' /\ WrittenUpTo(b)'
    BY <1>1, <2>2 DEF Within, WrittenUpTo, spiArgs
  <2>4. WordPending(b)'
    BY <1>1, <1>2, <1>4, <2>1, <2>2 DEF WordPending
  <2>5. CommandPending' /\ spc' = "send"
    BY <1>1, <2>1, <2>3, <2>4 DEF CommandPending
  <2>. QED
    BY <2>5 DEF WriteInv, BetweenCommands, Polling
<1>5. CASE (aai = {} /\ cmds = <<word>> /\ wel) \/ (aai = {b} /\ cmds = <<more>> /\ wel)
  <2>1. /\ Tail(cmds) = << >> /\ wel
        /\ \/ aai = {} /\ Head(cmds) = word
           \/ aai = {b} /\ Head(cmds) = more
    BY <1>5, ListOfOne
  <2>2. wip' = TRUE /\ aai' = {(b + 2) % ChipSize} /\ UNCHANGED wel /\ WrittenUpTo(b + 2)'
    BY <1>1, <1>2, <1>3, <2>1, WordArrives
  <2>3. spc' = "poll"
    BY <1>1, <2>1 DEF Polled, AAIWord, AAICont
  <2>4. Within(At)' /\ WrittenUpTo(At)' /\ (At > start)' /\ At' = pos'
    BY <1>1, <1>2, <1>3, <2>2 DEF Within, WrittenUpTo, spiArgs
  <2>5. Polling'
    BY <1>1, <1>2, <2>1, <2>2, <2>4 DEF Polling, spiArgs
  <2>. QED
    BY <2>3, <2>5 DEF WriteInv, BetweenCommands, CommandPending
<1>. QED
  BY <1>2, <1>4, <1>5

LEMMA SendWRDIWrites ==
    ASSUME Base, Send, fn \in Writers, cmds = <<WRDI>>,
           \/ /\ stage = "last" /\ Within(pos) /\ WrittenUpTo(pos)
              /\ pos >= start + len - 1 /\ pos > start /\ ~wip
           \/ stage = "bail" /\ PrefixWritten /\ (wip => TookWord)
    PROVE  WriteInv'
<1>1. /\ spc = "send" /\ Receive(Head(cmds)) /\ cmds' = Tail(cmds)
      /\ Tail(cmds) = << >> => spc' = IF Polled(Head(cmds)) THEN "poll" ELSE "loop"
      /\ UNCHANGED <<stage, spiArgs, data, i, j, until, pos, ret, failed>>
      /\ At' = At
  BY SendStep
<1>2. Head(cmds) = WRDI /\ Tail(cmds) = << >>
  BY ListOfOne
<1>3. spc' = "loop"
  BY <1>1, <1>2 DEF Polled, WRDI
<1>4. UNCHANGED <<mem, wip>> /\ IF wip THEN aai' = aai ELSE wel' = FALSE /\ aai' = {}
  BY <1>1, <1>2, HearsWRDI
<1>5. CASE stage = "bail" /\ PrefixWritten /\ (wip => TookWord)
  <2>1. PrefixWritten'
    BY <1>1, <1>4, <1>5 DEF PrefixWritten, Written, Reliable, spiArgs
  <2>2. aai' = {} \/ TookWord'
    BY <1>1, <1>4, <1>5 DEF TookWord, WrittenUpTo, spiArgs
  <2>. QED
    BY <1>1, <1>3, <1>5, <2>1, <2>2 DEF WriteInv, BetweenCommands, Polling, CommandPending
<1>6. CASE /\ stage = "last" /\ Within(pos) /\ WrittenUpTo(pos)
           /\ pos >= start + len - 1 /\ pos > start /\ ~wip
  <2>1. At' = pos'
    BY <1>1, <1>6 DEF At
  <2>2. Within(pos)' /\ WrittenUpTo(pos)' /\ Listening' /\ ~wel'
    BY <1>1, <1>4, <1>6 DEF Within, WrittenUpTo, Listening, spiArgs
  <2>3. BetweenCommands'
    BY <1>1, <1>6, <2>1, <2>2 DEF BetweenCommands, spiArgs
  <2>. QED
    BY <1>3, <2>3 DEF WriteInv, Polling, CommandPending
<1>. QED
  BY <1>5, <1>6

LEMMA SendWrites ==
    ASSUME Base, WriteInv, Send
    PROVE  WriteInv'
<1>1. spc = "send" /\ UNCHANGED <<spiArgs, failed>>
  BY DEF Send
<1>2. SUFFICES ASSUME fn \in Writers, Reliable PROVE WriteInv'
  BY <1>1 DEF WriteInv, Reliable, spiArgs
<1>3. CommandPending
  BY <1>2 DEF WriteInv
<1>. QED
  BY <1>1, <1>2, <1>3, SendProgramWrites, SendWordWrites, SendWRDIWrites DEF CommandPending

LEMMA PrefixAfter ==
    ASSUME Base, NEW e \in Nat, Within(e), WrittenUpTo(e)', UNCHANGED spiArgs
    PROVE  PrefixWritten'
<1>1. start \in Nat /\ len \in Nat /\ start <= e /\ e <= start + len
  BY Numbers DEF Base, Within
<1>2. e - start \in 0..len /\ start + (e - start) = e
  BY <1>1, SMT
<1>3. mem' = Written(e - start)'
  BY <1>2 DEF WrittenUpTo, Written, spiArgs
<1>. QED
  BY <1>2, <1>3 DEF PrefixWritten, spiArgs

(* A command that fails, whether or not it has reached the chip.            *)
LEMMA FailureKeepsPrefix ==
    ASSUME Base, fn \in Writers, Reliable, CommandPending, spc = "send",
           Receive(Head(cmds)) \/ UNCHANGED chipVars, UNCHANGED spiArgs, data' = data
    PROVE  PrefixWritten'
<1>1. ASSUME NEW e \in Nat, Within(e), WrittenUpTo(e), mem' = mem PROVE PrefixWritten'
  <2>1. WrittenUpTo(e)'
    BY <1>1 DEF WrittenUpTo, spiArgs
  <2>. QED
    BY <1>1, <2>1, PrefixAfter
<1>2. ASSUME NEW b \in Addr, ProgramPending(b), Within(b), Within(At), WrittenUpTo(b)
      PROVE  PrefixWritten'
  <2>1. PICK n \in 1..ChipSize :
          /\ b + n = At /\ FitsPage(b, n)
          /\ Listening
          /\ \/ cmds = <<WREN, Program(b, Piece(b, n))>>
             \/ cmds = <<Program(b, Piece(b, n))>> /\ wel
    BY <1>2 DEF ProgramPending
  <2>2. b \in Nat /\ b + n \in Nat
    BY Sizes, SMT DEF Addr
  <2>3. CASE UNCHANGED chipVars
    BY <1>1, <1>2, <2>2, <2>3 DEF chipVars
  <2>4. CASE Receive(Head(cmds)) /\ cmds = <<WREN, Program(b, Piece(b, n))>>
    <3>1. Head(cmds) = WREN
      BY <2>4, ListOfTwo
    <3>. QED
      BY <1>1, <1>2, <2>1, <2>2, <2>4, <3>1, HearsWREN
  <2>5. CASE Receive(Head(cmds)) /\ cmds = <<Program(b, Piece(b, n))>> /\ wel
    <3>1. Head(cmds) = Program(b, Piece(b, n))
      BY <2>5, ListOfOne
    <3>2. WrittenUpTo(b + n)'
      BY <1>2, <2>1, <2>5, <3>1, PageArrives
    <3>3. Within(b + n)
      BY <1>2, <2>1
    <3>. QED
      BY <2>2, <3>2, <3>3, PrefixAfter
  <2>. QED
    BY <2>1, <2>3, <2>4, <2>5
<1>3. ASSUME NEW b \in Addr, WordPending(b), Within(b), Within(pos), WrittenUpTo(b)
      PROVE  PrefixWritten'
  <2> DEFINE word == AAIWord(b, <<data[b], data[b + 1]>>)
             more == AAICont(Piece(b, 2))
  <2>1. /\ b + 2 = pos /\ ~wip
        /\ \/ aai = {} /\ cmds = <<WREN, word>>
           \/ aai = {} /\ cmds = <<word>> /\ wel
           \/ aai = {b} /\ cmds = <<more>> /\ wel
    BY <1>3 DEF WordPending
  <2>2. b \in Nat /\ b + 2 \in Nat
    BY Sizes, SMT DEF Addr
  <2>3. CASE UNCHANGED chipVars
    BY <1>1, <1>3, <2>2, <2>3 DEF chipVars
  <2>4. CASE Receive(Head(cmds)) /\ aai = {} /\ cmds = <<WREN, word>>
    <3>1. Head(cmds) = WREN
      BY <2>4, ListOfTwo
    <3>. QED
      BY <1>1, <1>3, <2>1, <2>2, <2>4, <3>1, HearsWREN DEF Listening
  <2>5. CASE /\ Receive(Head(cmds))
             /\ (aai = {} /\ cmds = <<word>> /\ wel) \/ (aai = {b} /\ cmds = <<more>> /\ wel)
    <3>1. \/ aai = {} /\ wel /\ Head(cmds) = word
          \/ aai = {b} /\ Head(cmds) = more
      BY <2>5, ListOfOne
    <3>2. b + 1 \in Addr
      <4>1. len \in Nat /\ start \in Nat /\ start + len <= ChipSize /\ b + 2 <= start + len
        BY <1>3, <2>1, Numbers DEF Base, Within, Arguments
      <4>. QED
        BY <2>2, <4>1, Sizes, SMT DEF Addr
    <3>3. WrittenUpTo(b + 2)'
      BY <1>3, <2>1, <2>5, <3>1, <3>2, WordArrives
    <3>4. Within(b + 2)
      BY <1>3, <2>1
    <3>. QED
      BY <2>2, <3>3, <3>4, PrefixAfter
  <2>. QED
    BY <2>1, <2>3, <2>4, <2>5
<1>4. ASSUME cmds = <<WRDI>> PROVE mem' = mem
  <2>1. Head(cmds) = WRDI
    BY <1>4, ListOfOne
  <2>. QED
    BY <2>1, HearsWRDI DEF chipVars
<1>5. pos \in Nat
  BY Numbers DEF Base
<1>6. ASSUME PrefixWritten, mem' = mem PROVE PrefixWritten'
  BY <1>6 DEF PrefixWritten, Written, spiArgs
<1>. QED
  BY <1>1, <1>2, <1>3, <1>4, <1>5, <1>6 DEF CommandPending

(* If it starts something in a chip that is in AAI mode, it is the word.    *)
LEMMA FailedWordArrives ==
    ASSUME Base, fn \in Writers, CommandPending, spc = "send", stage = "cont",
           Receive(Head(cmds)) \/ UNCHANGED chipVars, UNCHANGED <<spiArgs, pos>>, data' = data,
           wip'
    PROVE  TookWord'
<1>1. PICK b \in Addr : WordPending(b) /\ Within(b) /\ Within(pos) /\ WrittenUpTo(b)
  BY DEF CommandPending
<1> DEFINE word == AAIWord(b, <<data[b], data[b + 1]>>)
           more == AAICont(Piece(b, 2))
<1>2. /\ b + 2 = pos /\ ~wip
      /\ \/ aai = {} /\ cmds = <<WREN, word>>
         \/ aai = {} /\ cmds = <<word>> /\ wel
         \/ aai = {b} /\ cmds = <<more>> /\ wel
  BY <1>1 DEF WordPending
<1>3. Receive(Head(cmds))
  BY <1>2 DEF chipVars
<1>4. CASE aai = {} /\ cmds = <<WREN, word>>
  <2>1. Head(cmds) = WREN
    BY <1>4, ListOfTwo
  <2>2. wip' = wip
    BY <1>2, <1>3, <1>4, <2>1, HearsWREN DEF Listening
  <2>. QED
    BY <1>2, <2>2
<1>5. CASE (aai = {} /\ cmds = <<word>> /\ wel) \/ (aai = {b} /\ cmds = <<more>> /\ wel)
  <2>1. \/ aai = {} /\ wel /\ Head(cmds) = word
        \/ aai = {b} /\ Head(cmds) = more
    BY <1>5, ListOfOne
  <2>2. b + 1 \in Addr
    <3>1. b \in Nat /\ len \in Nat /\ start \in Nat /\ start + len <= ChipSize /\ b + 2 <= start + len
      BY <1>1, <1>2, Numbers, Sizes, SMT DEF Base, Within, Arguments, Addr
    <3>. QED
      BY <3>1, Sizes, SMT DEF Addr
  <2>3. aai' = {(b + 2) % ChipSize} /\ WrittenUpTo(b + 2)'
    BY <1>1, <1>2, <1>3, <2>1, <2>2, WordArrives
  <2>. QED
    BY <1>2, <2>3 DEF TookWord, WrittenUpTo
<1>. QED
  BY <1>2, <1>4, <1>5

LEMMA SendFailsWrites ==
    ASSUME Base, WriteInv, SendFails
    PROVE  WriteInv'
<1>1. /\ spc = "send" /\ (Receive(Head(cmds)) \/ UNCHANGED chipVars) /\ FetchNoise(Head(cmds))
      /\ failed' = failed \cup {"command"} /\ UNCHANGED <<spiArgs, pos>>
      /\ \/ stage = "cont" /\ cmds' = <<WRDI>> /\ spc' = "send" /\ stage' = "bail"
         \/ spc' = "done" /\ ret' = "error"
  BY DEF SendFails, Broken, SendList, Return
<1>2. SUFFICES ASSUME fn \in Writers, Reliable' PROVE WriteInv'
  BY <1>1 DEF WriteInv, spiArgs
<1>3. Reliable
  BY <1>1, <1>2, ReliableBefore
<1>4. data' = data
  BY <1>1, <1>2, WritersFetchNothing DEF Writers
<1>5. PrefixWritten'
  BY <1>1, <1>2, <1>3, <1>4, FailureKeepsPrefix DEF WriteInv
<1>6. stage = "cont" => (wip' => TookWord')
  BY <1>1, <1>2, <1>3, <1>4, FailedWordArrives DEF WriteInv
<1>. QED
  BY <1>1, <1>5, <1>6 DEF WriteInv, BetweenCommands, Polling, CommandPending, WriteIsExact, SuccessLeavesChipReady

LEMMA PollWrites ==
    ASSUME Base, WriteInv, Poll
    PROVE  WriteInv'
<1>1. /\ spc = "poll" /\ ~wip /\ spc' = "loop"
      /\ UNCHANGED <<chipVars, stage, spiArgs, data, i, j, until, pos, failed>>
  BY DEF Poll
<1>2. SUFFICES ASSUME fn \in Writers, Reliable PROVE WriteInv'
  BY <1>1 DEF WriteInv, Reliable, spiArgs
<1>3. /\ stage \in {"pages", "bytes", "cont"}
      /\ Within(At) /\ WrittenUpTo(At) /\ At > start
      /\ stage \in {"pages", "bytes"} => aai = {} /\ ~wel
      /\ stage = "bytes" => fn = "write_1"
      /\ stage = "cont" => wel /\ aai = {pos % ChipSize}
  BY <1>1, <1>2 DEF WriteInv, Polling
<1>4. At' = At /\ (stage = "cont" => At = pos)
  BY <1>1, AtUnchanged DEF spiArgs, At
<1>5. Within(At)' /\ WrittenUpTo(At)' /\ (stage \in {"pages", "bytes"} => Listening' /\ ~wel')
  BY <1>1, <1>3, <1>4 DEF Within, WrittenUpTo, Listening, spiArgs, chipVars
<1>6. BetweenCommands'
  BY <1>1, <1>3, <1>4, <1>5 DEF BetweenCommands, spiArgs, chipVars
<1>. QED
  BY <1>1, <1>6 DEF WriteInv, Polling, CommandPending

LEMMA ChipFinishesWrites ==
    ASSUME Base, WriteInv, ChipFinishes
    PROVE  WriteInv'
<1>1. wip /\ wip' = FALSE /\ wel' = (wel /\ aai # {}) /\ UNCHANGED <<mem, aai>> /\ UNCHANGED spiVars
  BY DEF ChipFinishes, Finish
<1>2. SUFFICES ASSUME fn \in Writers, Reliable PROVE WriteInv'
  BY <1>1 DEF WriteInv, Reliable, spiVars, spiArgs
<1>3. At' = At
  BY <1>1, AtUnchanged DEF spiVars, spiArgs
<1>4. ASSUME NEW e PROVE (Within(e) => Within(e)') /\ (WrittenUpTo(e) => WrittenUpTo(e)')
  BY <1>1 DEF Within, WrittenUpTo, spiVars, spiArgs
<1>5. PrefixWritten => PrefixWritten'
  BY <1>1 DEF PrefixWritten, Written, Reliable, spiVars, spiArgs
<1>6. /\ ~Listening
      /\ spc = spc' /\ stage = stage' /\ cmds = cmds' /\ fn = fn' /\ start = start' /\ pos = pos'
  BY <1>1 DEF Listening, spiVars, spiArgs
<1>7. CASE spc = "loop"
  <2>1. stage = "bail" /\ PrefixWritten /\ (aai = {} \/ TookWord)
    <3>1. stage \notin {"pages", "bytes", "word", "cont", "last", "first"}
      BY <1>1, <1>2, <1>6, <1>7 DEF WriteInv, BetweenCommands
    <3>2. stage \notin {"erase", "none"}
      BY <1>2, <1>7 DEF Base, Stages, Writers
    <3>3. stage = "bail"
      BY <3>1, <3>2 DEF Base, SpiTypeOK
    <3>. QED
      BY <1>2, <1>7, <3>3 DEF WriteInv, BetweenCommands
  <2>2. aai' = {} \/ TookWord'
    BY <1>1, <1>4, <1>6, <2>1 DEF TookWord
  <2>. QED
    BY <1>5, <1>6, <1>7, <2>1, <2>2 DEF WriteInv, BetweenCommands, Polling, CommandPending
<1>8. CASE spc = "poll"
  <2>1. /\ stage \in {"pages", "bytes", "cont"}
        /\ Within(At) /\ WrittenUpTo(At) /\ At > start
        /\ stage \in {"pages", "bytes"} => aai = {}
        /\ stage = "bytes" => fn = "write_1"
        /\ stage = "cont" => wel /\ aai = {pos % ChipSize}
    BY <1>2, <1>8 DEF WriteInv, Polling
  <2>2. Within(At)' /\ WrittenUpTo(At)'
    <3>1. PICK e : e = At
      OBVIOUS
    <3>2. Within(e)' /\ WrittenUpTo(e)'
      BY <1>4, <2>1, <3>1
    <3>. QED
      BY <1>3, <3>1, <3>2
  <2>3. (stage \in {"pages", "bytes"} => aai' = {} /\ ~wel') /\ (stage = "cont" => wel' /\ aai' = aai)
    BY <1>1, <2>1
  <2>4. Polling'
    BY <1>3, <1>6, <2>1, <2>2, <2>3 DEF Polling
  <2>. QED
    BY <1>6, <1>8, <2>4 DEF WriteInv, BetweenCommands, CommandPending
<1>9. CASE spc = "send"
  <2>1. stage = "bail" /\ cmds = <<WRDI>> /\ PrefixWritten
    BY <1>1, <1>2, <1>6, <1>9 DEF WriteInv, CommandPending, ProgramPending, WordPending
  <2>. QED
    BY <1>1, <1>5, <1>6, <1>9, <2>1 DEF WriteInv, BetweenCommands, Polling, CommandPending
<1>10. CASE spc \in {"idle", "done"}
  <2>1. spc = "done" => PrefixWritten /\ WriteIsExact /\ SuccessLeavesChipReady
    BY <1>2 DEF WriteInv
  <2>2. WriteIsExact => WriteIsExact'
    BY <1>1 DEF WriteIsExact, Written, Reliable, spiVars, spiArgs
  <2>3. SuccessLeavesChipReady => SuccessLeavesChipReady'
    BY <1>1 DEF SuccessLeavesChipReady, Reliable, spiVars, spiArgs
  <2>. QED
    BY <1>5, <1>6, <1>10, <2>1, <2>2, <2>3 DEF WriteInv, BetweenCommands, Polling, CommandPending
<1>. QED
  BY <1>7, <1>8, <1>9, <1>10 DEF Base, SpiTypeOK

LEMMA WriteNextKeeps ==
    ASSUME Base, WriteInv, [Next]_vars
    PROVE  WriteInv'
<1>1. CASE Call
  <2>1. fn' \notin Writers => WriteInv'
    BY DEF WriteInv
  <2>2. ASSUME NEW s \in Addr, NEW l \in 1..ChipSize - s, NEW buf \in Images, NEW max,
               \/ CallWrite1(s, l, buf)
               \/ CallChunked("write_256", s, l, buf, max)
               \/ CallAAI(s, l, buf)
        PROVE  WriteInv'
    BY <2>2, CallsWrite
  <2>3. ASSUME NEW s \in Addr, NEW l \in 1..ChipSize - s, NEW max,
               CallChunked("read", s, l, NoData, max)
        PROVE  fn' \notin Writers
    BY <2>3 DEF CallChunked, Called, Writers
  <2>4. ASSUME NEW o, NEW a, NEW l, CallErase(o, a, l)
        PROVE  fn' \notin Writers
    BY <2>4 DEF CallErase, Called, Writers
  <2>5. ASSUME NEW m, NEW w, CallProbe(m, w)
        PROVE  fn' \notin Writers
    BY <2>5 DEF CallProbe, Called, Writers
  <2>. QED
    BY <1>1, <2>1, <2>2, <2>3, <2>4, <2>5 DEF Call
<1>2. CASE ReadChunk \/ EraseDone
  <2>1. fn' \notin Writers
    BY <1>2 DEF ReadChunk, EraseDone, Base, Stages, Writers, spiArgs
  <2>. QED
    BY <2>1 DEF WriteInv
<1>3. CASE EndOfFirstByte
  <2>1. spc = "loop" /\ stage = "first" /\ UNCHANGED <<spiArgs, failed>>
    BY <1>3 DEF EndOfFirstByte
  <2>. QED
    BY <2>1 DEF WriteInv, BetweenCommands, Reliable, spiArgs
<1>4. CASE PollFails
  <2>1. "rdsr" \in failed'
    BY <1>4 DEF PollFails
  <2>. QED
    BY <2>1 DEF WriteInv, Reliable
<1>5. CASE UNCHANGED vars
  <2>1. At' = At
    BY <1>5, AtUnchanged DEF vars, spiVars, spiArgs
  <2>2. BetweenCommands => BetweenCommands'
    BY <1>5, <2>1
       DEF BetweenCommands, TookWord, Within, WrittenUpTo, Listening, PrefixWritten, Written,
           Reliable, vars, spiVars, spiArgs, chipVars
  <2>3. Polling => Polling'
    BY <1>5, <2>1 DEF Polling, Within, WrittenUpTo, vars, spiVars, spiArgs, chipVars
  <2>4. \A b : /\ Within(b) => Within(b)'
               /\ WrittenUpTo(b) => WrittenUpTo(b)'
               /\ ProgramPending(b) => ProgramPending(b)'
               /\ WordPending(b) => WordPending(b)'
    BY <1>5, <2>1
       DEF Within, WrittenUpTo, ProgramPending, WordPending, FitsPage, Piece, Listening,
           vars, spiVars, spiArgs, chipVars
  <2>5. PrefixWritten => PrefixWritten'
    BY <1>5 DEF PrefixWritten, Written, Reliable, vars, spiVars, spiArgs, chipVars
  <2>6. Within(At) => Within(At)'
    BY <1>5, <2>1 DEF Within, vars, spiVars, spiArgs
  <2>7. Within(pos)' = Within(pos) /\ WrittenUpTo(pos)' = WrittenUpTo(pos)
    BY <1>5 DEF Within, WrittenUpTo, vars, spiVars, spiArgs, chipVars
  <2>8. CommandPending => CommandPending'
    BY <1>5, <2>4, <2>5, <2>6, <2>7 DEF CommandPending, TookWord, vars, spiVars, spiArgs, chipVars
  <2>9. (WriteIsExact => WriteIsExact') /\ (SuccessLeavesChipReady => SuccessLeavesChipReady')
    BY <1>5
       DEF WriteIsExact, SuccessLeavesChipReady, Written, Reliable, vars, spiVars, spiArgs, chipVars
  <2>10. fn' = fn /\ spc' = spc /\ Reliable' = Reliable
    BY <1>5 DEF Reliable, vars, spiVars, spiArgs
  <2>. QED
    BY <2>2, <2>3, <2>5, <2>8, <2>9, <2>10 DEF WriteInv
<1>. QED
  BY <1>1, <1>2, <1>3, <1>4, <1>5, WriteChunkWrites, NextPageWrites, EndOfPagesWrites,
     NextByteWrites, EndOfBytesWrites, StartAAIWrites, ContinueAAIWrites, DisableAAIWrites,
     LastByteAAIWrites, BailedWrites, SendWrites, SendFailsWrites, PollWrites, ChipFinishesWrites
     DEF Next, Step

LEMMA WriteInvariant == Spec => [](Base /\ WriteInv)
<1>1. Init => Base /\ WriteInv
  BY BaseInitEstablishes DEF Init, WriteInv, Writers
<1>2. Base /\ WriteInv /\ [Next]_vars => (Base /\ WriteInv)'
  BY BaseNextKeeps, WriteNextKeeps
<1>. QED
  BY <1>1, <1>2, PTL DEF Spec

(* A pending command leaves the cells before it as they were written.       *)
LEMMA PendingPrefix ==
    ASSUME Base, fn \in Writers, CommandPending, spc = "send"
    PROVE  PrefixWritten
<1>1. pos \in Nat /\ \A b \in Addr : b \in Nat
  BY Numbers, Sizes, SMT DEF Base, Addr
<1>. QED
  BY <1>1, WrittenIsPrefix DEF CommandPending

(***************************************************************************)
(* spi_chip_write_1, default_spi_write_256, default_spi_write_aai: at any  *)
(* time, and whatever fails, a first part of the range is programmed with  *)
(* its own values and nothing else is.                                     *)
(***************************************************************************)
THEOREM WritesArePrefixes == Spec => []PrefixWritten
<1>1. Base /\ WriteInv => PrefixWritten
  <2>1. SUFFICES ASSUME Base, WriteInv, fn \in Writers, Reliable PROVE PrefixWritten
    BY DEF PrefixWritten
  <2>2. BetweenCommands /\ Polling /\ CommandPending /\ (spc = "done" => PrefixWritten)
    BY <2>1 DEF WriteInv
  <2>3. CASE spc = "loop"
    <3>1. CASE stage = "bail"
      BY <2>2, <2>3, <3>1 DEF BetweenCommands
    <3>2. CASE stage # "bail"
      BY <2>1, <2>3, <3>2, LoopWrites
    <3>. QED
      BY <3>1, <3>2
  <2>4. CASE spc = "poll"
    BY <2>1, <2>2, <2>4, AtIsNumber, WrittenIsPrefix DEF Polling
  <2>5. CASE spc = "send"
    BY <2>1, <2>2, <2>5, PendingPrefix
  <2>6. spc # "idle"
    BY <2>1 DEF Base, Arguments, Writers
  <2>. QED
    BY <2>1, <2>2, <2>3, <2>4, <2>5, <2>6 DEF Base, SpiTypeOK
<1>. QED
  BY <1>1, WriteInvariant, PTL

(***************************************************************************)
(* A write that returns zero has written its whole range, by AAI words if  *)
(* its length is even.                                                     *)
(***************************************************************************)
THEOREM WritesAreExact == Spec => []WriteIsExact
<1>1. Base /\ WriteInv => WriteIsExact
  <2>1. ASSUME Base, spc # "done" PROVE ret = "none"
    BY <2>1 DEF Base, Stages
  <2>. QED
    BY <2>1 DEF WriteInv, WriteIsExact
<1>. QED
  BY <1>1, WriteInvariant, PTL
-----------------------------------------------------------------------------
(***************************************************************************)
(* All calls together: what is sent is heard, and how the chip is left.    *)
(***************************************************************************)
NoLists == fn \in {"none", "probe"} => spc \in {"idle", "done"} /\ ret # "zero"

LEMMA NoListsInvariant == Spec => [](Base /\ NoLists)
<1>1. Init => Base /\ NoLists
  BY BaseInitEstablishes DEF Init, NoLists
<1>2. Base /\ NoLists /\ [Next]_vars => (Base /\ NoLists)'
  <2>1. SUFFICES ASSUME Base, NoLists, [Next]_vars PROVE NoLists'
    BY BaseNextKeeps
  <2>2. CASE Step
    <3>1. spc \in {"loop", "send", "poll"} /\ UNCHANGED spiArgs
      BY <2>2 DEF Step, ReadChunk, WriteChunk, NextPage, EndOfPages, InPages, NextByte, EndOfBytes,
                  EndOfFirstByte, StartAAI, ContinueAAI, DisableAAI, LastByteAAI, Bailed, EraseDone,
                  Send, SendFails, Poll, PollFails
    <3>. QED
      BY <2>1, <3>1 DEF NoLists, spiArgs
  <2>3. CASE ChipFinishes \/ UNCHANGED vars
    BY <2>1, <2>3 DEF NoLists, ChipFinishes, vars, spiVars, spiArgs
  <2>4. ASSUME NEW o, NEW a, NEW l, CallErase(o, a, l)
        PROVE  fn' \notin {"none", "probe"}
    BY <2>4 DEF CallErase, Called
  <2>5. ASSUME NEW s, NEW l, NEW buf, NEW f \in {"read", "write_256"}, NEW max,
               \/ CallWrite1(s, l, buf)
               \/ CallChunked(f, s, l, buf, max)
               \/ CallAAI(s, l, buf)
        PROVE  fn' \notin {"none", "probe"}
    BY <2>5 DEF CallWrite1, CallChunked, CallAAI, Called
  <2>6. ASSUME NEW m, NEW w, CallProbe(m, w)
        PROVE  spc' = "done" /\ ret' # "zero"
    <3>1. spc' = "done" /\ ret' \in {"found", "absent"}
      BY <2>6 DEF CallProbe, Return
    <3>. QED
      BY <3>1
  <2>7. CASE Call
    BY <2>4, <2>5, <2>6, <2>7 DEF Call, NoLists
  <2>. QED
    BY <2>1, <2>2, <2>3, <2>7 DEF Next
<1>. QED
  BY <1>1, <1>2, PTL DEF Spec

(***************************************************************************)
(* No command is sent to a chip that would not carry it out, but for the   *)
(* bailout of default_spi_write_aai.                                       *)
(***************************************************************************)
THEOREM EveryCommandIsHeard == Spec => []CommandsAreHeard
<1>1. Base /\ WriteInv /\ EraseInv /\ ReadInv /\ NoLists => CommandsAreHeard
  <2>1. SUFFICES ASSUME Base, WriteInv, EraseInv, ReadInv, NoLists,
                        spc = "send", Reliable, stage # "bail"
                 PROVE  LET c == Head(cmds)
                        IN  /\ ~wip
                            /\ c.op \in {"PROGRAM", "AAI"} => wel
                            /\ c.op = "ERASE" => wel \/ c.opcode \in SelfEnabled
                            /\ IF c.op = "AAI_CONT" THEN aai = {pos - 2} ELSE aai = {} \/ c.op = "WRDI"
    BY DEF CommandsAreHeard
  <2>2. CASE fn = "erase"
    <3>1. /\ Listening
          /\ \/ cmds = <<WREN, Erase(opcode, start)>>
             \/ cmds = <<Erase(opcode, start)>> /\ (wel \/ opcode \in SelfEnabled)
      BY <2>1, <2>2 DEF EraseInv
    <3>2. \/ Head(cmds) = WREN
          \/ Head(cmds) = Erase(opcode, start) /\ (wel \/ opcode \in SelfEnabled)
      BY <2>1, <3>1, ListOfOne, ListOfTwo
    <3>. QED
      BY <3>1, <3>2 DEF Listening, WREN, Erase
  <2>3. CASE fn = "read"
    <3>1. Listening /\ \E b, n : cmds = <<Read(b, n)>>
      BY <2>1, <2>3 DEF ReadInv, Reliable
    <3>2. \E b, n : Head(cmds) = Read(b, n)
      BY <2>1, <3>1, ListOfOne
    <3>. QED
      BY <3>1, <3>2 DEF Listening, Read
  <2>4. CASE fn \in Writers
    <3>1. CommandPending
      BY <2>1, <2>4 DEF WriteInv
    <3>2. ASSUME NEW b \in Addr, ProgramPending(b)
          PROVE  /\ Listening
                 /\ \/ Head(cmds) = WREN
                    \/ wel /\ \E n : Head(cmds) = Program(b, Piece(b, n))
      BY <2>1, <3>2, ListOfOne, ListOfTwo DEF ProgramPending, Listening
    <3>3. ASSUME NEW b \in Addr, ProgramPending(b)
          PROVE  LET c == Head(cmds)
                 IN  /\ ~wip /\ aai = {}
                     /\ c.op \in {"WREN", "PROGRAM"} /\ (c.op = "PROGRAM" => wel)
      BY <3>2, <3>3 DEF Listening, WREN, Program
    <3>4. ASSUME NEW b \in Addr, WordPending(b)
          PROVE  LET c == Head(cmds)
                 IN  /\ ~wip
                     /\ \/ aai = {} /\ c.op = "WREN"
                        \/ aai = {} /\ c.op = "AAI" /\ wel
                        \/ aai = {pos - 2} /\ c.op = "AAI_CONT"
      <4> DEFINE word == AAIWord(b, <<data[b], data[b + 1]>>)
                 more == AAICont(Piece(b, 2))
      <4>1. /\ b + 2 = pos /\ ~wip
            /\ \/ aai = {} /\ cmds = <<WREN, word>>
               \/ aai = {} /\ cmds = <<word>> /\ wel
               \/ aai = {b} /\ cmds = <<more>> /\ wel
        BY <3>4 DEF WordPending
      <4>2. b = pos - 2
        BY <4>1, Sizes, SMT DEF Addr
      <4>3. \/ aai = {} /\ Head(cmds) = WREN
            \/ aai = {} /\ Head(cmds) = word /\ wel
            \/ aai = {b} /\ Head(cmds) = more
        <5> HIDE DEF word, more
        <5>. QED
          BY <2>1, <4>1, ListOfOne, ListOfTwo
      <4>. QED
        BY <4>1, <4>2, <4>3 DEF WREN, AAIWord, AAICont
    <3>5. ASSUME cmds = <<WRDI>> PROVE Head(cmds).op = "WRDI"
      BY <2>1, <3>5, ListOfOne DEF WRDI
    <3>. QED
      BY <2>1, <3>1, <3>3, <3>4, <3>5 DEF CommandPending
  <2>. QED
    BY <2>1, <2>2, <2>3, <2>4 DEF Base, SpiTypeOK, NoLists
<1>. QED
  BY <1>1, WriteInvariant, EraseInvariant, ReadInvariant, NoListsInvariant, PTL

(***************************************************************************)
(* A function that returns zero leaves the chip idle and out of AAI mode,  *)
(* and write-protected if it wrote or erased.                              *)
(***************************************************************************)
THEOREM ChipIsLeftReady == Spec => []SuccessLeavesChipReady
<1>1. Base /\ WriteInv /\ EraseInv /\ ReadInv /\ NoLists => SuccessLeavesChipReady
  <2>1. SUFFICES ASSUME Base, WriteInv, EraseInv, ReadInv, NoLists, ret = "zero", Reliable
                 PROVE  SuccessLeavesChipReady
    BY DEF SuccessLeavesChipReady
  <2>2. spc = "done"
    BY <2>1 DEF Base, Stages
  <2>3. CASE fn = "read"
    <3>1. Listening
      BY <2>1, <2>3 DEF ReadInv, Reliable
    <3>. QED
      BY <2>3, <3>1 DEF SuccessLeavesChipReady, Listening
  <2>. QED
    BY <2>1, <2>2, <2>3 DEF WriteInv, EraseInv, NoLists, Base, SpiTypeOK
<1>. QED
  BY <1>1, WriteInvariant, EraseInvariant, ReadInvariant, NoListsInvariant, PTL

(***************************************************************************)
(* The bailout of an AAI write leaves a chip in AAI mode only if the word  *)
(* whose command failed had arrived, and then at the word behind it.       *)
(***************************************************************************)
THEOREM BailoutLeavesChip == Spec => []BailoutLeavesAAI
<1>1. Base /\ WriteInv => BailoutLeavesAAI
  <2>1. SUFFICES ASSUME Base, WriteInv, spc = "loop", stage = "bail", Reliable, aai # {}
                 PROVE  aai = {pos % ChipSize} /\ mem = Written(pos - start)
    BY DEF BailoutLeavesAAI
  <2>2. fn \in Writers
    BY <2>1 DEF Base, Stages, Writers
  <2>3. TookWord
    BY <2>1, <2>2 DEF WriteInv, BetweenCommands
  <2>4. start + (pos - start) = pos
    BY <2>1, Numbers, SMT DEF Base
  <2>. QED
    BY <2>3, <2>4 DEF TookWord, WrittenUpTo, Written
<1>. QED
  BY <1>1, WriteInvariant, PTL
-----------------------------------------------------------------------------
(***************************************************************************)
(* Probing.  The numbers probe_spi_rdid_generic makes of the bytes of RDID *)
(* keep all of them that it looks at: a continued first byte gives a       *)
(* larger id1 than any other, and two bytes fill one number.               *)
(***************************************************************************)
LEMMA TwoBytes ==
    ASSUME NEW a \in Byte, NEW b \in Byte, NEW c \in Byte, NEW d \in Byte,
           a * 256 + b = c * 256 + d
    PROVE  a = c /\ b = d
  BY SMT DEF Byte

LEMMA FirstByteIsKept ==
    ASSUME NEW a \in Byte, NEW b \in Byte, NEW c \in Byte, NEW d \in Byte,
           (IF a = 127 THEN a * 256 + b ELSE a) = (IF c = 127 THEN c * 256 + d ELSE c)
    PROVE  a = c
  BY SMT DEF Byte

LEMMA RDIDIdsOfBytes ==
    ASSUME NEW s \in [1..4 -> Byte], NEW t \in [1..4 -> Byte], NEW bytes \in {3, 4},
           RDIDIds(s, bytes) = RDIDIds(t, bytes)
    PROVE  SameBytes(s, t, IF s[1] = 127 /\ bytes = 4 THEN 4 ELSE 3)
<1>1. /\ s[1] \in Byte /\ s[2] \in Byte /\ s[3] \in Byte /\ s[4] \in Byte
      /\ t[1] \in Byte /\ t[2] \in Byte /\ t[3] \in Byte /\ t[4] \in Byte
  OBVIOUS
<1>2. RDIDIds(s, bytes).id1 = RDIDIds(t, bytes).id1 /\ RDIDIds(s, bytes).id2 = RDIDIds(t, bytes).id2
  OBVIOUS
<1>3. s[1] = t[1]
  <2>1. /\ RDIDIds(s, bytes).id1 = IF s[1] = 127 THEN s[1] * 256 + s[2] ELSE s[1]
        /\ RDIDIds(t, bytes).id1 = IF t[1] = 127 THEN t[1] * 256 + t[2] ELSE t[1]
    BY DEF RDIDIds, Ids
  <2>. QED
    BY <1>1, <1>2, <2>1, FirstByteIsKept
<1>4. CASE s[1] # 127
  <2>1. s[2] * 256 + s[3] = t[2] * 256 + t[3]
    BY <1>2, <1>3, <1>4 DEF RDIDIds, Ids
  <2>2. s[2] = t[2] /\ s[3] = t[3]
    BY <1>1, <2>1, TwoBytes
  <2>. QED
    BY <1>3, <1>4, <2>2, SMT DEF SameBytes
<1>5. CASE s[1] = 127
  <2>1. s[1] * 256 + s[2] = t[1] * 256 + t[2]
    BY <1>2, <1>3, <1>5 DEF RDIDIds, Ids
  <2>2. s[2] = t[2]
    BY <1>1, <2>1, TwoBytes
  <2>3. CASE bytes = 3
    <3>1. ~(bytes > 3)
      BY <2>3, SMT
    <3>2. s[3] = t[3]
      BY <1>2, <1>3, <1>5, <3>1 DEF RDIDIds, Ids
    <3>. QED
      BY <1>3, <2>2, <2>3, <3>2, SMT DEF SameBytes
  <2>4. CASE bytes = 4
    <3>1. bytes > 3
      BY <2>4, SMT
    <3>2. s[3] * 256 + s[4] = t[3] * 256 + t[4]
      BY <1>2, <1>3, <1>5, <3>1 DEF RDIDIds, Ids
    <3>3. s[3] = t[3] /\ s[4] = t[4]
      BY <1>1, <3>2, TwoBytes
    <3>4. SameBytes(s, t, 4)
      BY <1>3, <2>2, <3>3, SMT DEF SameBytes
    <3>. QED
      BY <1>5, <2>4, <3>4
  <2>. QED
    BY <2>3, <2>4
<1>. QED
  BY <1>4, <1>5

(* What is found looks like what the entry describes.                       *)
LEMMA FoundLooksAlike ==
    ASSUME AnswersAreBytes, NEW e \in Entry, Specific(e),
           NEW own \in DOMAIN Answers, NEW wired \in DOMAIN Answers,
           Finds(e, Answers[own], {}), Finds(e, Answers[wired], {})
    PROVE  LooksLike(e.probe, Answers[own], Answers[wired])
<1> DEFINE a == Answers[own]
           b == Answers[wired]
<1>1. /\ a.RDID \in [1..4 -> Byte] /\ b.RDID \in [1..4 -> Byte]
      /\ a.REMS \in [1..2 -> Byte] /\ b.REMS \in [1..2 -> Byte]
      /\ a.RES \in [1..3 -> Byte] /\ b.RES \in [1..3 -> Byte]
      /\ a.AT25F_RDID \in [1..2 -> Byte] /\ b.AT25F_RDID \in [1..2 -> Byte]
  BY DEF AnswersAreBytes
<1>2. ASSUME NEW ids PROVE Matches(e, ids) = Exactly(e, ids)
  BY DEF Matches, Exactly, Specific
<1> HIDE DEF a, b
<1>3. Finds(e, a, {}) /\ Finds(e, b, {})
  BY DEF a, b
<1>4. ASSUME NEW p, NEW q, NEW r, NEW t, Exactly(e, Ids(p, q)), Exactly(e, Ids(r, t))
      PROVE  p = r /\ q = t
  BY <1>4 DEF Exactly, Ids
<1>5. CASE e.probe = "rdid"
  <2>1. Exactly(e, RDIDIds(a.RDID, 3)) /\ Exactly(e, RDIDIds(b.RDID, 3))
    BY <1>2, <1>3, <1>5 DEF Finds
  <2>2. RDIDIds(a.RDID, 3) = RDIDIds(b.RDID, 3)
    BY <2>1 DEF Exactly, RDIDIds, Ids
  <2>3. SameBytes(a.RDID, b.RDID, IF a.RDID[1] = 127 /\ 3 = 4 THEN 4 ELSE 3)
    BY <1>1, <2>2, RDIDIdsOfBytes
  <2>4. 3 # 4
    BY SMT
  <2>. QED
    BY <1>5, <2>3, <2>4 DEF LooksLike, a, b
<1>6. CASE e.probe = "rdid4"
  <2>1. Exactly(e, RDIDIds(a.RDID, 4)) /\ Exactly(e, RDIDIds(b.RDID, 4))
    BY <1>2, <1>3, <1>6 DEF Finds
  <2>2. RDIDIds(a.RDID, 4) = RDIDIds(b.RDID, 4)
    BY <2>1 DEF Exactly, RDIDIds, Ids
  <2>3. SameBytes(a.RDID, b.RDID, IF a.RDID[1] = 127 /\ 4 = 4 THEN 4 ELSE 3)
    BY <1>1, <2>2, RDIDIdsOfBytes
  <2>. QED
    BY <1>6, <2>3 DEF LooksLike, a, b
<1>7. CASE e.probe = "rems"
  <2>1. Exactly(e, Ids(a.REMS[1], a.REMS[2])) /\ Exactly(e, Ids(b.REMS[1], b.REMS[2]))
    BY <1>2, <1>3, <1>7 DEF Finds
  <2>2. a.REMS[1] = b.REMS[1] /\ a.REMS[2] = b.REMS[2]
    BY <1>4, <2>1
  <2>3. SameBytes(a.REMS, b.REMS, 2)
    BY <2>2, SMT DEF SameBytes
  <2>. QED
    BY <1>7, <2>3 DEF LooksLike, a, b
<1>8. CASE e.probe = "res1"
  <2>1. a.RES[1] = b.RES[1] /\ Blank(b.RDID, 3) /\ Blank(b.REMS, 2)
    BY <1>3, <1>8 DEF Finds, Unusable
  <2>2. SameBytes(a.RES, b.RES, 1)
    BY <2>1, SMT DEF SameBytes
  <2>. QED
    BY <1>8, <2>1, <2>2 DEF LooksLike, a, b
<1>9. CASE e.probe = "res2"
  <2>1. Exactly(e, Ids(a.RES[1], a.RES[2])) /\ Exactly(e, Ids(b.RES[1], b.RES[2]))
    BY <1>3, <1>9 DEF Finds
  <2>2. a.RES[1] = b.RES[1] /\ a.RES[2] = b.RES[2]
    BY <1>4, <2>1
  <2>3. SameBytes(a.RES, b.RES, 2)
    BY <2>2, SMT DEF SameBytes
  <2>. QED
    BY <1>9, <2>3 DEF LooksLike, a, b
<1>10. CASE e.probe = "res3"
  <2>1. /\ Exactly(e, Ids(a.RES[1] * 256 + a.RES[2], a.RES[3]))
        /\ Exactly(e, Ids(b.RES[1] * 256 + b.RES[2], b.RES[3]))
    BY <1>3, <1>10 DEF Finds
  <2>2. a.RES[1] * 256 + a.RES[2] = b.RES[1] * 256 + b.RES[2] /\ a.RES[3] = b.RES[3]
    BY <1>4, <2>1
  <2>3. /\ a.RES[1] \in Byte /\ a.RES[2] \in Byte /\ b.RES[1] \in Byte /\ b.RES[2] \in Byte
    BY <1>1
  <2>4. a.RES[1] = b.RES[1] /\ a.RES[2] = b.RES[2]
    BY <2>2, <2>3, TwoBytes
  <2>5. SameBytes(a.RES, b.RES, 3)
    BY <2>2, <2>4, SMT DEF SameBytes
  <2>. QED
    BY <1>10, <2>5 DEF LooksLike, a, b
<1>11. CASE e.probe = "at25f"
  <2>1. /\ Exactly(e, Ids(a.AT25F_RDID[1], a.AT25F_RDID[2]))
        /\ Exactly(e, Ids(b.AT25F_RDID[1], b.AT25F_RDID[2]))
    BY <1>3, <1>11 DEF Finds
  <2>2. a.AT25F_RDID[1] = b.AT25F_RDID[1] /\ a.AT25F_RDID[2] = b.AT25F_RDID[2]
    BY <1>4, <2>1
  <2>3. SameBytes(a.AT25F_RDID, b.AT25F_RDID, 2)
    BY <2>2, SMT DEF SameBytes
  <2>. QED
    BY <1>11, <2>3 DEF LooksLike, a, b
<1>12. e.probe \in ProbeFunctions
  BY DEF Entry
<1>. QED
  BY <1>5, <1>6, <1>7, <1>8, <1>9, <1>10, <1>11, <1>12 DEF ProbeFunctions

(* What the result of a probe comes from.                                   *)
ProbeInv ==
    fn = "probe" =>
        /\ probed[1] \in DOMAIN Entries /\ probed[2] \in DOMAIN Answers
        /\ spc = "done"
        /\ ready0 /\ failed = {} =>
              (ret = "found") = Finds(Entries[probed[1]], Answers[probed[2]], {})

LEMMA CallProbeFinds ==
    ASSUME NEW name \in DOMAIN Entries, NEW wired \in DOMAIN Answers, CallProbe(name, wired)
    PROVE  ProbeInv'
<1>1. /\ probed' = <<name, wired>> /\ spc' = "done" /\ ready0' = Listening
      /\ \E f \in SUBSET ProbeCommands :
            /\ failed' = IF f = {} THEN {} ELSE {"command"}
            /\ ret' = IF Finds(Entries[name], IF Listening THEN Answers[wired] ELSE Floating, f)
                      THEN "found" ELSE "absent"
  BY DEF CallProbe, Called, Return
<1>2. PICK f \in SUBSET ProbeCommands :
          /\ failed' = IF f = {} THEN {} ELSE {"command"}
          /\ ret' = IF Finds(Entries[name], IF Listening THEN Answers[wired] ELSE Floating, f)
                    THEN "found" ELSE "absent"
  BY <1>1
<1>3. ASSUME ready0', failed' = {}
      PROVE  (ret' = "found") = Finds(Entries[name], Answers[wired], {})
  <2>1. f = {} /\ Listening
    BY <1>1, <1>2, <1>3
  <2>2. ret' = IF Finds(Entries[name], Answers[wired], {}) THEN "found" ELSE "absent"
    BY <1>2, <2>1
  <2>3. Finds(Entries[name], Answers[wired], {}) \in BOOLEAN
    BY Zenon DEF Finds
  <2>. QED
    BY <2>2, <2>3
<1>4. probed'[1] = name /\ probed'[2] = wired
  BY <1>1
<1>. QED
  BY <1>1, <1>3, <1>4 DEF ProbeInv

LEMMA ProbeInvariant == Spec => []ProbeInv
<1>1. Init => ProbeInv
  BY DEF Init, ProbeInv
<1>2. ProbeInv /\ [Next]_vars => ProbeInv'
  <2>1. SUFFICES ASSUME ProbeInv, [Next]_vars PROVE ProbeInv'
    OBVIOUS
  <2>2. CASE Step
    <3>1. spc \in {"loop", "send", "poll"} /\ UNCHANGED spiArgs
      BY <2>2 DEF Step, ReadChunk, WriteChunk, NextPage, EndOfPages, InPages, NextByte, EndOfBytes,
                  EndOfFirstByte, StartAAI, ContinueAAI, DisableAAI, LastByteAAI, Bailed, EraseDone,
                  Send, SendFails, Poll, PollFails
    <3>. QED
      BY <2>1, <3>1 DEF ProbeInv, spiArgs
  <2>3. CASE ChipFinishes \/ UNCHANGED vars
    BY <2>1, <2>3 DEF ProbeInv, ChipFinishes, vars, spiVars, spiArgs
  <2>4. ASSUME NEW o, NEW a, NEW l, CallErase(o, a, l)
        PROVE  fn' # "probe"
    BY <2>4 DEF CallErase, Called
  <2>5. ASSUME NEW s, NEW l, NEW buf, NEW f \in {"read", "write_256"}, NEW max,
               \/ CallWrite1(s, l, buf)
               \/ CallChunked(f, s, l, buf, max)
               \/ CallAAI(s, l, buf)
        PROVE  fn' # "probe"
    BY <2>5 DEF CallWrite1, CallChunked, CallAAI, Called
  <2>6. CASE Call
    BY <2>4, <2>5, <2>6, CallProbeFinds DEF Call, ProbeInv
  <2>. QED
    BY <2>1, <2>2, <2>3, <2>6 DEF Next
<1>. QED
  BY <1>1, <1>2, PTL DEF Spec

(***************************************************************************)
(* The seven probe functions: if every entry is true of its chip, and no   *)
(* two chips look the same to the function that is to tell them apart, a   *)
(* probe on which nothing fails finds a chip if and only if it is wired.   *)
(***************************************************************************)
THEOREM ProbesTellChips ==
    ASSUME AnswersAreBytes, EntriesAreTrue
    PROVE  Spec => []ProbeTellsChips
<1>1. ASSUME NEW name \in DOMAIN Entries, Specific(Entries[name]), NEW wired \in DOMAIN Answers
      PROVE  Finds(Entries[name], Answers[wired], {}) <=> name = wired
  <2>1. /\ name \in DOMAIN Answers /\ Entries[name] \in Entry
        /\ Finds(Entries[name], Answers[name], {})
        /\ LooksLike(Entries[name].probe, Answers[name], Answers[wired]) => wired = name
    BY <1>1, SpiNorAssumption DEF EntriesAreTrue
  <2>. QED
    BY <1>1, <2>1, FoundLooksAlike
<1>2. ProbeInv => ProbeTellsChips
  BY <1>1 DEF ProbeInv, ProbeTellsChips
<1>. QED
  BY <1>2, ProbeInvariant, PTL
=============================================================================
