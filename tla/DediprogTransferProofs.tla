----------------------- MODULE DediprogTransferProofs -----------------------
(***************************************************************************)
(* What dediprog_spi_read and dediprog_spi_write do, for every chip, every *)
(* size of page and of transfer, and all transfers that may be lost.       *)
(***************************************************************************)
EXTENDS DediprogTransfer, TLAPS

(***************************************************************************)
(* Arithmetic of pages.                                                    *)
(***************************************************************************)
LEMMA Division ==
    ASSUME NEW n \in Nat, NEW p \in Nat \ {0}
    PROVE  /\ n % p \in 0..p - 1
           /\ n \div p \in Nat
           /\ (n \div p) * p + (n % p) = n
           /\ (n - (n % p)) \div p = n \div p
<1>1. /\ n % p \in 0..p - 1
      /\ n \div p \in Nat
      /\ (n \div p) * p + (n % p) = n
  BY SMT
<1>2. (n - (n % p)) \div p = n \div p
  BY <1>1, SMT
<1>. QED
  BY <1>1, <1>2

LEMMA Products ==
    ASSUME NEW j \in Nat, NEW k \in Nat, NEW p \in Nat \ {0}
    PROVE  /\ j * p \in Nat
           /\ j <= j * p
           /\ (j + 1) * p = j * p + p
           /\ j <= k => j * p <= k * p
           /\ j < k => j * p + p <= k * p
<1>1. j * p \in Nat /\ j <= j * p
  BY SMT
<1>2. (j + 1) * p = j * p + p
  BY SMT
<1>3. ASSUME j <= k PROVE j * p <= k * p
  BY <1>3, SMT
<1>4. ASSUME j < k PROVE j * p + p <= k * p
  BY <1>4, SMT
<1>. QED
  BY <1>1, <1>2, <1>3, <1>4

(* Between two multiples of p there is room for another p.                  *)
LEMMA AlignedRoom ==
    ASSUME NEW s \in Nat, NEW c \in Nat, NEW k \in Nat, NEW p \in Nat \ {0},
           s % p = 0, c % p = 0, s + k * p < c
    PROVE  s + k * p + p <= c
<1> DEFINE a == s \div p
           b == c \div p
<1>1. a \in Nat /\ b \in Nat /\ a * p = s /\ b * p = c
  BY Division, SMT
<1> HIDE DEF a, b
<1>2. (a + k) * p < b * p
  BY <1>1, SMT
<1>3. a + k < b
  <2>1. ASSUME b <= a + k PROVE FALSE
    <3>1. a + k \in Nat
      BY <1>1, SMT
    <3>2. b * p <= (a + k) * p
      BY <1>1, <2>1, <3>1, Products
    <3>. QED
      BY <1>1, <1>2, <3>1, <3>2, Products, SMT
  <2>. QED
    BY <1>1, <2>1, SMT
<1>4. (a + k) * p + p <= b * p
  BY <1>1, <1>3, Products, SMT
<1>. QED
  BY <1>1, <1>4, SMT

LEMMA Pages ==
    ASSUME TransferTypeOK
    PROVE  /\ ChipSize \in Nat /\ pagesize \in Nat \ {0}
           /\ nb_middle_pages \in 0..ChipSize
           /\ last_page_bytes \in 0..pagesize - 1
           /\ nb_middle_pages * pagesize + last_page_bytes = len
           /\ nb_pages = nb_middle_pages + (IF last_page_bytes > 0 THEN 1 ELSE 0)
           /\ op = "write" => /\ pagesize = PageSize
                              /\ nb_middle_pages = len \div PageSize
                              /\ last_page_bytes = len % PageSize
<1>1. ChipSize \in Nat /\ pagesize \in Nat \ {0} /\ len \in Nat /\ len <= ChipSize
  BY TransferSizesAssumption, SMT DEF TransferTypeOK, pagesize
<1>2. nb_middle_pages = len \div pagesize
  BY <1>1, Division DEF nb_middle_pages, last_page_bytes
<1>3. /\ last_page_bytes \in 0..pagesize - 1
      /\ nb_middle_pages \in Nat
      /\ nb_middle_pages * pagesize + last_page_bytes = len
  BY <1>1, <1>2, Division DEF last_page_bytes
<1>4. nb_middle_pages <= nb_middle_pages * pagesize
  BY <1>1, <1>3, Products
<1>5. nb_middle_pages * pagesize \in Nat
  BY <1>1, <1>3, Products
<1>6. nb_middle_pages \in 0..ChipSize
  BY <1>1, <1>3, <1>4, <1>5, SMT
<1>7. op = "write" => pagesize = PageSize
  BY DEF pagesize
<1>. QED
  BY <1>1, <1>2, <1>3, <1>6, <1>7 DEF nb_pages, last_page_bytes

(* Pages that fit on the chip can be counted in an unsigned short.          *)
LEMMA AllAreAnnounced ==
    ASSUME TransferTypeOK
    PROVE  announced = nb_pages
<1> DEFINE most == ChipSize \div PageSize
           m == nb_middle_pages
<1>1. /\ PageSize \in Nat \ {0} /\ pagesize \in Nat \ {0} /\ PageSize <= pagesize
      /\ ChipSize \in Nat /\ m \in Nat /\ last_page_bytes \in Nat
      /\ m * pagesize + last_page_bytes = len /\ len <= ChipSize /\ len \in Nat
  <2>1. PageSize <= DEDIPROG_MIN_ALIGN
    BY TransferSizesAssumption, SMT
  <2>. QED
    BY <2>1, Pages, TransferSizesAssumption, SMT DEF TransferTypeOK, pagesize
<1>2. most \in Nat /\ ChipSize < (most + 1) * PageSize /\ most < USHORT - 1
  BY <1>1, Division, PagesAssumption, SMT
<1> HIDE DEF most, m
<1>3. m * PageSize <= m * pagesize /\ m * PageSize \in Nat /\ m * pagesize \in Nat
  BY <1>1, SMT
<1>4. m * PageSize < (most + 1) * PageSize
  BY <1>1, <1>2, <1>3, SMT
<1>5. m < most + 1
  <2>1. ASSUME most + 1 <= m PROVE FALSE
    <3>1. (most + 1) * PageSize <= m * PageSize /\ (most + 1) * PageSize \in Nat
      BY <1>1, <1>2, <2>1, Products
    <3>. QED
      BY <1>3, <1>4, <3>1, SMT
  <2>. QED
    BY <1>1, <1>2, <2>1, SMT
<1>6. nb_pages \in 0..m + 1
  BY <1>1, SMT DEF nb_pages, m
<1>7. USHORT \in Nat
  BY SMT DEF USHORT
<1>8. nb_pages \in Nat /\ nb_pages < USHORT
  BY <1>1, <1>2, <1>5, <1>6, <1>7, SMT
<1>9. nb_pages % USHORT = nb_pages
  BY <1>7, <1>8, SMT
<1>. QED
  BY <1>9 DEF announced
-----------------------------------------------------------------------------
(***************************************************************************)
(* The inductive invariant.  While pages are transferred either the SF100  *)
(* is where the loop is (InStep), or it expects nothing any more: because  *)
(* it was never told of the pages (Unannounced), or because a transfer     *)
(* failed (BrokenOff).                                                     *)
(***************************************************************************)
Cells == [Addr -> SUBSET Bits]
Buffers == [Addr -> (SUBSET Bits) \cup {Unread}]

Received(n) == [a \in Addr |-> IF start <= a /\ a < start + n THEN mem[a] ELSE data0[a]]

InStep ==
    /\ outcome = "full"
    /\ remaining = nb_pages - i
    /\ remaining > 0 => mode = op /\ next = start + i * pagesize
    /\ op = "write" => mem = Programmed(i)
    /\ op = "read" => data = Received(i * pagesize)

Unannounced ==
    /\ remaining = 0
    /\ "prep" \in lost
    /\ op = "write" => mem = mem0
    /\ op = "read" => data = data0

BrokenOff ==
    /\ remaining = 0
    /\ "bulk" \in lost
    /\ outcome \in {"short", "negative"}
    /\ op = "write" => \E written \in 0..len \div PageSize : mem = Programmed(written)
    /\ op = "read" => \E n \in 0..len : data = Received(n)

(* Whatever is lost, a read leaves in the buffer a beginning of what it was *)
(* asked for, and behind it what was there before, or 0xff.                 *)
ReadsPrefix ==
    tpc = "done" /\ op = "read" /\ outcome # "EINVAL" =>
        \E n \in 0..len : \A a \in Addr :
           IF start <= a /\ a < start + n
           THEN data[a] = mem[a]
           ELSE data[a] = data0[a] \/ (a \in Range /\ data[a] = Erased)

UnderWay == tpc \in {"pages", "residue"}

TransferInv ==
    /\ TransferTypeOK
    /\ data0 \in Buffers
    /\ tpc = "prep" \/ UnderWay =>
          start % DEDIPROG_MIN_ALIGN = 0 /\ start + len <= ChipSize
    /\ ~UnderWay => remaining = 0
    /\ tpc = "prep" => i = 0 /\ mem = mem0 /\ data = data0 /\ lost = {}
    /\ UnderWay => /\ i <= nb_middle_pages
                   /\ outcome \in {"full", "short", "negative"}
                   /\ InStep \/ Unannounced \/ BrokenOff
    /\ tpc = "residue" => i = nb_middle_pages /\ last_page_bytes > 0 /\ outcome = "full"
    /\ ReadDelivers
    /\ WritesAsAllowed
    /\ ReadsPrefix

LEMMA TransferInitEstablishes == TransferInit => TransferInv
  BY TransferSizesAssumption, TransferImagesAssumption, SMT
     DEF TransferInit, TransferInv, TransferTypeOK, Buffers, UnderWay, ReadDelivers,
         WritesAsAllowed, ReadsPrefix

LEMMA TransferStutterKeeps ==
    ASSUME TransferInv, UNCHANGED transferVars
    PROVE  TransferInv'
<1>1. /\ UNCHANGED <<tpc, op, start, len, data, i, outcome, mode, remaining, next, mem, mem0, data0>>
      /\ UNCHANGED lost
  BY DEF transferVars, callVars, sf100Vars
<1>2. /\ TransferTypeOK' = TransferTypeOK /\ UnderWay' = UnderWay
      /\ nb_middle_pages' = nb_middle_pages /\ last_page_bytes' = last_page_bytes
  BY <1>1 DEF TransferTypeOK, UnderWay, nb_middle_pages, last_page_bytes, pagesize
<1>3. /\ InStep' = InStep /\ Unannounced' = Unannounced /\ BrokenOff' = BrokenOff
  BY <1>1 DEF InStep, Unannounced, BrokenOff, Received, Programmed, nb_pages, nb_middle_pages,
              last_page_bytes, pagesize
<1>4. ReadDelivers' = ReadDelivers /\ ReadsPrefix' = ReadsPrefix
  BY <1>1 DEF ReadDelivers, ReadsPrefix, Range
<1>5. WritesAsAllowed' = WritesAsAllowed
  BY <1>1 DEF WritesAsAllowed, Programmed
<1>. QED
  BY <1>1, <1>2, <1>3, <1>4, <1>5 DEF TransferInv

LEMMA CallKeeps ==
    ASSUME TransferInv,
           NEW o \in {"read", "write"}, NEW s \in Nat, NEW l \in Nat, NEW b \in Buffers,
           s + l <= ChipSize,
           CallTransfer(o, s, l, b)
    PROVE  TransferInv'
<1>1. s \in 0..ChipSize /\ l \in 0..ChipSize /\ ChipSize \in Nat
  BY TransferSizesAssumption, SMT
<1>2. TransferTypeOK'
  BY <1>1, SMT DEF TransferInv, TransferTypeOK, CallTransfer, sf100Vars, Buffers
<1>3. remaining' = 0 /\ ~UnderWay'
  BY DEF TransferInv, CallTransfer, sf100Vars, UnderWay
<1>4. ReadDelivers' /\ WritesAsAllowed' /\ ReadsPrefix'
  BY DEF CallTransfer, ReadDelivers, WritesAsAllowed, ReadsPrefix
<1>5. tpc' = "prep" => s % DEDIPROG_MIN_ALIGN = 0
  BY DEF CallTransfer
<1>. QED
  BY <1>1, <1>2, <1>3, <1>4, <1>5 DEF TransferInv, CallTransfer, UnderWay
-----------------------------------------------------------------------------
(***************************************************************************)
(* The steps of a transfer.                                                *)
(***************************************************************************)
LEMMA Unchanged ==
    ASSUME UNCHANGED callVars
    PROVE  /\ pagesize' = pagesize /\ last_page_bytes' = last_page_bytes
           /\ nb_middle_pages' = nb_middle_pages /\ nb_pages' = nb_pages
  BY DEF callVars, pagesize, last_page_bytes, nb_middle_pages, nb_pages

LEMMA PrepKeeps ==
    ASSUME TransferInv, PrepMultiCmd
    PROVE  TransferInv'
<1>1. /\ TransferTypeOK /\ data0 \in Buffers
      /\ start % DEDIPROG_MIN_ALIGN = 0 /\ start + len <= ChipSize
      /\ remaining = 0 /\ i = 0 /\ mem = mem0 /\ data = data0 /\ lost = {}
  BY DEF TransferInv, PrepMultiCmd, UnderWay
<1>2. /\ UNCHANGED <<op, start, len, data, i, mem, mem0, data0>>
      /\ tpc' = "pages" /\ outcome' = "full"
      /\ \/ Announce(nb_pages) /\ lost' = lost
         \/ Announce(nb_pages) /\ "prep" \in lost'
         \/ UNCHANGED <<mode, remaining, next>> /\ "prep" \in lost'
      /\ lost' \subseteq MayFail
  BY <1>1, AllAreAnnounced DEF PrepMultiCmd, callVars, sf100Vars, Fails, TransferTypeOK
<1>3. UNCHANGED callVars
  BY <1>2 DEF callVars
<1>4. /\ nb_pages \in Nat /\ nb_middle_pages \in Nat /\ pagesize \in Nat
      /\ start \in Nat /\ 0 * pagesize = 0 /\ 0 * PageSize = 0
  BY <1>1, Pages, TransferSizesAssumption, SMT DEF TransferTypeOK
<1>5. TransferTypeOK'
  BY <1>1, <1>2, <1>4, SMT DEF TransferTypeOK, Announce
<1>6. ASSUME Announce(nb_pages) PROVE InStep'
  <2>1. remaining' = nb_pages' - i' /\ mode' = op' /\ next' = start' + i' * pagesize'
    BY <1>1, <1>2, <1>3, <1>4, <1>6, Unchanged, SMT DEF Announce
  <2>2. mem' = Programmed(0)' /\ data' = Received(0)'
    BY <1>1, <1>2, <1>4, SMT DEF Programmed, Received, TransferTypeOK, Buffers, Addr
  <2>3. i' = 0 /\ i' * pagesize' = 0
    BY <1>1, <1>2, <1>3, <1>4, Unchanged
  <2>. QED
    BY <1>2, <2>1, <2>2, <2>3 DEF InStep
<1>7. InStep' \/ Unannounced'
  BY <1>1, <1>2, <1>6 DEF Unannounced
<1>8. i' <= nb_middle_pages'
  BY <1>1, <1>2, <1>3, <1>4, Unchanged, SMT
<1>9. ReadDelivers' /\ WritesAsAllowed' /\ ReadsPrefix'
  BY <1>2 DEF ReadDelivers, WritesAsAllowed, ReadsPrefix
<1>. QED
  BY <1>1, <1>2, <1>5, <1>7, <1>8, <1>9 DEF TransferInv, UnderWay

(***************************************************************************)
(* The page that is transferred next, if the SF100 is in step: it expects  *)
(* it, at the address where the loop is, and there is room for it.         *)
(***************************************************************************)
LEMMA NextPage ==
    ASSUME TransferInv, Transferred
    PROVE  /\ i \in Nat /\ i < nb_middle_pages /\ i + 1 <= nb_middle_pages
           /\ (i + 1) * pagesize = i * pagesize + pagesize
           /\ i * pagesize \in Nat
           /\ i * pagesize + pagesize <= len
           /\ start + len <= ChipSize /\ start \in Nat /\ len \in Nat /\ ChipSize \in Nat
           /\ pagesize \in Nat \ {0} /\ nb_pages \in Nat /\ nb_pages >= nb_middle_pages
           /\ nb_middle_pages \in Nat
           /\ InStep \/ Unannounced
           /\ InStep => /\ remaining > 0 /\ mode = op /\ next = start + i * pagesize
                        /\ remaining - 1 = nb_pages - (i + 1)
<1>1. /\ TransferTypeOK /\ i < nb_middle_pages /\ outcome = "full"
      /\ start + len <= ChipSize
      /\ InStep \/ Unannounced
  BY DEF TransferInv, Transferred, UnderWay, BrokenOff
<1>2. i \in Nat /\ start \in Nat /\ len \in Nat /\ ChipSize \in Nat
  BY <1>1, TransferSizesAssumption, SMT DEF TransferTypeOK
<1>3. /\ pagesize \in Nat \ {0} /\ nb_middle_pages \in Nat /\ last_page_bytes \in Nat
      /\ nb_middle_pages * pagesize + last_page_bytes = len
      /\ nb_pages \in Nat /\ nb_pages >= nb_middle_pages
  BY <1>1, Pages, SMT
<1>4. /\ (i + 1) * pagesize = i * pagesize + pagesize
      /\ i * pagesize \in Nat
      /\ i * pagesize + pagesize <= nb_middle_pages * pagesize
  BY <1>1, <1>2, <1>3, Products
<1>5. i * pagesize + pagesize <= len
  <2> DEFINE here == i * pagesize
             all == nb_middle_pages * pagesize
  <2>1. all \in Nat /\ here \in Nat
    BY <1>2, <1>3, Products
  <2>2. here + pagesize <= all /\ all + last_page_bytes = len
    BY <1>3, <1>4
  <2> HIDE DEF here, all
  <2>3. here + pagesize <= len
    BY <1>2, <1>3, <2>1, <2>2, SMT
  <2>. QED
    BY <2>3 DEF here
<1>6. i + 1 <= nb_middle_pages
  BY <1>1, <1>2, <1>3, SMT
<1>7. InStep => /\ remaining > 0 /\ mode = op /\ next = start + i * pagesize
                /\ remaining - 1 = nb_pages - (i + 1)
  <2>1. SUFFICES ASSUME InStep
                 PROVE  remaining > 0 /\ remaining - 1 = nb_pages - (i + 1)
    BY DEF InStep
  <2>2. remaining = nb_pages - i
    BY <2>1 DEF InStep
  <2>. QED
    BY <1>1, <1>2, <1>3, <2>2, SMT
<1>. QED
  BY <1>1, <1>2, <1>3, <1>4, <1>5, <1>6, <1>7

LEMMA WritePageKeeps ==
    ASSUME TransferInv, WritePage
    PROVE  TransferInv'
<1>1. /\ TransferTypeOK /\ data0 \in Buffers
      /\ start % DEDIPROG_MIN_ALIGN = 0 /\ start + len <= ChipSize
      /\ op = "write" /\ tpc = "pages" /\ Transferred
  BY DEF TransferInv, WritePage, Transferred, UnderWay
<1>2. /\ UNCHANGED <<tpc, op, start, len, data, mem0, data0>> /\ UNCHANGED callVars
      /\ i' = i + 1 /\ BulkWrite
  BY DEF WritePage, callVars
<1>3. PageSize = pagesize /\ nb_middle_pages = len \div PageSize
  BY <1>1, Pages
<1>4. \A n : Programmed(n)' = Programmed(n)
  BY <1>2 DEF Programmed
<1>5. ASSUME InStep, ProgramPage
      PROVE  mem' = Programmed(i + 1)
  <2>1. mem = Programmed(i) /\ next = start + i * pagesize
    BY <1>1, <1>5, NextPage DEF InStep
  <2> DEFINE here == i * pagesize
  <2>2. /\ here \in Nat /\ start \in Nat /\ pagesize \in Nat /\ Addr \subseteq Int
        /\ i * PageSize = here /\ (i + 1) * PageSize = here + pagesize
    BY <1>1, <1>3, NextPage, SMT DEF Addr
  <2>3. /\ mem = [a \in Addr |-> IF start <= a /\ a < start + here
                                 THEN mem0[a] \cap data[a] ELSE mem0[a]]
        /\ next = start + here
        /\ mem' = [a \in Addr |-> IF next <= a /\ a < next + pagesize
                                  THEN mem[a] \cap data[start + here + (a - next)] ELSE mem[a]]
        /\ Programmed(i + 1) = [a \in Addr |-> IF start <= a /\ a < start + (here + pagesize)
                                               THEN mem0[a] \cap data[a] ELSE mem0[a]]
    BY <1>5, <2>1, <2>2 DEF ProgramPage, Programmed
  <2> HIDE DEF here
  <2>4. \A a \in Addr : start + here + (a - (start + here)) = a
    BY <2>2, SMT
  <2>5. ASSUME NEW a \in Addr
        PROVE  mem'[a] = Programmed(i + 1)[a]
    <3>1. mem'[a] = IF next <= a /\ a < next + pagesize
                    THEN mem[a] \cap data[start + here + (a - next)] ELSE mem[a]
      BY <2>3
    <3>2. start + here + (a - next) = a
      BY <2>3, <2>4
    <3>3. mem'[a] = IF next <= a /\ a < next + pagesize THEN mem[a] \cap data[a] ELSE mem[a]
      BY <3>1, <3>2
    <3>4. mem[a] = IF start <= a /\ a < start + here THEN mem0[a] \cap data[a] ELSE mem0[a]
      BY <2>3
    <3>5. Programmed(i + 1)[a] = IF start <= a /\ a < start + (here + pagesize)
                                 THEN mem0[a] \cap data[a] ELSE mem0[a]
      BY <2>3
    <3>6. a \in Int /\ next \in Nat /\ next + pagesize = start + (here + pagesize)
          /\ next = start + here
      BY <2>2, <2>3, SMT
    <3>7. CASE next <= a /\ a < next + pagesize
      <4>1. mem'[a] = mem[a] \cap data[a] /\ mem[a] = mem0[a]
        BY <2>2, <3>3, <3>4, <3>6, <3>7, SMT
      <4>2. Programmed(i + 1)[a] = mem0[a] \cap data[a]
        BY <2>2, <3>5, <3>6, <3>7, SMT
      <4>. QED
        BY <4>1, <4>2
    <3>8. CASE ~(next <= a /\ a < next + pagesize)
      <4>1. mem'[a] = mem[a]
        BY <3>3, <3>8
      <4>2. (start <= a /\ a < start + here) <=> (start <= a /\ a < start + (here + pagesize))
        BY <2>2, <3>6, <3>8, SMT
      <4>. QED
        BY <3>4, <3>5, <4>1, <4>2
    <3>. QED
      BY <3>7, <3>8
  <2>. QED
    BY <2>3, <2>5
<1>6. TransferTypeOK' /\ i' <= nb_middle_pages' /\ outcome' \in {"full", "short", "negative"}
  <2>1. i' \in 0..ChipSize /\ i' <= nb_middle_pages'
    <3>1. nb_middle_pages' = nb_middle_pages /\ nb_middle_pages \in 0..ChipSize
      BY <1>1, <1>2, Unchanged, Pages
    <3>2. i \in Nat /\ i + 1 <= nb_middle_pages /\ ChipSize \in Nat
      BY <1>1, NextPage
    <3>. QED
      BY <1>2, <3>1, <3>2, SMT
  <2>2. mem' \in Cells
    BY <1>1, <1>2, SMT DEF BulkWrite, ProgramPage, Cells, TransferTypeOK
  <2>3. next' \in 0..ChipSize /\ remaining' \in Nat /\ mode' \in {"none", "read", "write"}
    <3>1. CASE InStep
      BY <1>1, <1>2, <3>1, NextPage, SMT DEF BulkWrite, TakePage, GiveUp, TransferTypeOK
    <3>2. CASE Unannounced
      BY <1>1, <1>2, <3>2, SMT DEF BulkWrite, Expects, Unannounced, GiveUp, TransferTypeOK
    <3>. QED
      BY <1>1, <3>1, <3>2, NextPage
  <2>4. lost' \subseteq MayFail /\ outcome' \in {"full", "short", "negative"}
    BY <1>1, <1>2 DEF BulkWrite, Fails, TransferTypeOK
  <2>. QED
    BY <1>1, <1>2, <2>1, <2>2, <2>3, <2>4 DEF TransferTypeOK, Cells
<1>7. InStep' \/ Unannounced' \/ BrokenOff'
  <2>1. CASE InStep
    <3>1. Expects("write")
      BY <1>1, <2>1, NextPage DEF Expects
    <3>2. CASE ProgramPage /\ TakePage /\ outcome' = "full"
      <4>1. /\ remaining' = nb_pages' - i' /\ mode' = op'
            /\ next' = start' + i' * pagesize'
        <5> DEFINE here == i * pagesize
        <5>1. /\ here \in Nat /\ start \in Nat /\ pagesize \in Nat
              /\ next = start + here /\ (i + 1) * pagesize = here + pagesize
              /\ remaining - 1 = nb_pages - (i + 1) /\ mode = op
          BY <1>1, <2>1, NextPage
        <5> HIDE DEF here
        <5>2. next' = start + (here + pagesize)
          BY <5>1, <3>2, SMT DEF TakePage
        <5>. QED
          BY <1>2, <3>2, <5>1, <5>2, Unchanged DEF TakePage
      <4>2. (mem = Programmed(i))'
        BY <1>2, <1>5, <2>1, <3>2 DEF Programmed
      <4>. QED
        BY <1>1, <1>2, <3>2, <4>1, <4>2 DEF InStep
    <3>3. CASE Fails("bulk") /\ (ProgramPage \/ UNCHANGED mem) /\ GiveUp
                            /\ outcome' \in {"short", "negative"}
      <4>1. mem' = Programmed(i + 1) \/ mem' = Programmed(i)
        BY <1>1, <1>5, <2>1, <3>3 DEF InStep
      <4>2. i \in 0..len \div PageSize /\ i + 1 \in 0..len \div PageSize
        BY <1>1, <1>3, NextPage, SMT
      <4>3. \E written \in 0..len' \div PageSize : mem' = Programmed(written)'
        BY <1>2, <1>4, <4>1, <4>2
      <4>. QED
        BY <1>1, <1>2, <3>3, <4>3 DEF BrokenOff, Fails, GiveUp
    <3>. QED
      BY <1>2, <3>1, <3>2, <3>3 DEF BulkWrite
  <2>2. CASE Unannounced
    <3>1. GiveUp /\ UNCHANGED <<mem, lost>>
      BY <1>1, <1>2, <2>2, SMT DEF BulkWrite, Expects, Unannounced
    <3>. QED
      BY <1>1, <1>2, <2>2, <3>1 DEF Unannounced, GiveUp
  <2>. QED
    BY <1>1, <2>1, <2>2, NextPage
<1>8. ReadDelivers' /\ WritesAsAllowed' /\ ReadsPrefix'
  BY <1>1, <1>2 DEF ReadDelivers, WritesAsAllowed, ReadsPrefix
<1>. QED
  BY <1>1, <1>2, <1>6, <1>7, <1>8 DEF TransferInv, UnderWay

LEMMA ReadPageKeeps ==
    ASSUME TransferInv, ReadPage
    PROVE  TransferInv'
<1>1. /\ TransferTypeOK /\ data0 \in Buffers
      /\ start % DEDIPROG_MIN_ALIGN = 0 /\ start + len <= ChipSize
      /\ op = "read" /\ tpc = "pages" /\ Transferred
  BY DEF TransferInv, ReadPage, Transferred, UnderWay
<1>2. /\ UNCHANGED <<tpc, op, start, len, mem, mem0, data0>> /\ UNCHANGED callVars
      /\ i' = i + 1 /\ BulkRead(pagesize)
  BY DEF ReadPage, callVars
<1>3. ASSUME InStep, NEW n \in 0..pagesize, Receive(n)
      PROVE  data' = Received(i * pagesize + n)
  <2>1. data = Received(i * pagesize) /\ next = start + i * pagesize
    BY <1>1, <1>3, NextPage DEF InStep
  <2> DEFINE here == i * pagesize
  <2>2. /\ here \in Nat /\ start \in Nat /\ pagesize \in Nat /\ Addr \subseteq Int
        /\ (i + 1) * pagesize = here + pagesize
    BY <1>1, NextPage, SMT DEF Addr
  <2>3. /\ data = [a \in Addr |-> IF start <= a /\ a < start + here THEN mem[a] ELSE data0[a]]
        /\ next = start + here
        /\ data' = [a \in Addr |-> IF (start + here <= a /\ a < start + (here + pagesize))
                                      /\ a < start + here + n
                                   THEN mem[next + (a - start - here)] ELSE data[a]]
        /\ Received(i * pagesize + n)
             = [a \in Addr |-> IF start <= a /\ a < start + (here + n) THEN mem[a] ELSE data0[a]]
    BY <1>3, <2>1, <2>2 DEF Receive, PageOf, Received
  <2> HIDE DEF here
  <2>4. n \in Nat /\ n <= pagesize
    BY <2>2, SMT
  <2>5. ASSUME NEW a \in Addr
        PROVE  data'[a] = IF start <= a /\ a < start + (here + n) THEN mem[a] ELSE data0[a]
    <3>1. a \in Int /\ next + (a - start - here) = a
      BY <2>2, <2>3, SMT
    <3>2. data'[a] = IF (start + here <= a /\ a < start + (here + pagesize))
                          /\ a < start + here + n
                     THEN mem[a] ELSE data[a]
      BY <2>3, <3>1
    <3>3. data[a] = IF start <= a /\ a < start + here THEN mem[a] ELSE data0[a]
      BY <2>3
    <3>4. CASE start + here <= a /\ a < start + here + n
      <4>1. /\ start + here <= a /\ a < start + (here + pagesize) /\ start <= a
            /\ a < start + here + n /\ a < start + (here + n)
        BY <2>2, <2>4, <3>1, <3>4, SMT
      <4>. QED
        BY <3>2, <4>1
    <3>5. CASE ~(start + here <= a /\ a < start + here + n)
      <4>1. (start <= a /\ a < start + here) <=> (start <= a /\ a < start + (here + n))
        BY <2>2, <2>4, <3>1, <3>5, SMT
      <4>2. data'[a] = data[a]
        BY <3>2, <3>5
      <4>. QED
        BY <3>3, <4>1, <4>2
    <3>. QED
      BY <3>4, <3>5
  <2>. QED
    BY <2>3, <2>5
<1>4. TransferTypeOK' /\ i' <= nb_middle_pages' /\ outcome' \in {"full", "short", "negative"}
  <2>1. i' \in 0..ChipSize /\ i' <= nb_middle_pages'
    <3>1. nb_middle_pages' = nb_middle_pages /\ nb_middle_pages \in 0..ChipSize
      BY <1>1, <1>2, Unchanged, Pages
    <3>2. i \in Nat /\ i + 1 <= nb_middle_pages /\ ChipSize \in Nat
      BY <1>1, NextPage
    <3>. QED
      BY <1>2, <3>1, <3>2, SMT
  <2>2. data' \in Buffers
    <3>1. ASSUME NEW n \in 0..pagesize, InStep, Receive(n)
          PROVE  data' \in Buffers
      BY <1>1, <1>3, <3>1 DEF Received, TransferTypeOK, Buffers
    <3>2. CASE InStep
      <4>1. pagesize \in 0..pagesize /\ 0..pagesize - 1 \subseteq 0..pagesize
        BY <1>1, NextPage, SMT
      <4>. QED
        BY <1>1, <1>2, <3>1, <3>2, <4>1 DEF BulkRead, TransferTypeOK, Buffers
    <3>3. CASE Unannounced
      BY <1>1, <1>2, <3>3, SMT DEF BulkRead, Expects, Unannounced, TransferTypeOK, Buffers
    <3>. QED
      BY <1>1, <3>2, <3>3, NextPage
  <2>3. next' \in 0..ChipSize /\ remaining' \in Nat /\ mode' \in {"none", "read", "write"}
    <3>1. CASE InStep
      BY <1>1, <1>2, <3>1, NextPage, SMT DEF BulkRead, TakePage, GiveUp, TransferTypeOK
    <3>2. CASE Unannounced
      BY <1>1, <1>2, <3>2, SMT DEF BulkRead, Expects, Unannounced, GiveUp, TransferTypeOK
    <3>. QED
      BY <1>1, <3>1, <3>2, NextPage
  <2>4. lost' \subseteq MayFail /\ outcome' \in {"full", "short", "negative"}
    BY <1>1, <1>2 DEF BulkRead, Fails, TransferTypeOK
  <2>. QED
    BY <1>1, <1>2, <2>1, <2>2, <2>3, <2>4 DEF TransferTypeOK, Buffers
<1>5. InStep' \/ Unannounced' \/ BrokenOff'
  <2>1. CASE InStep
    <3>1. Expects("read")
      BY <1>1, <2>1, NextPage DEF Expects
    <3>2. CASE Receive(pagesize) /\ TakePage /\ outcome' = "full" /\ lost' = lost
      <4>1. /\ remaining' = nb_pages' - i' /\ mode' = op'
            /\ next' = start' + i' * pagesize'
        <5> DEFINE here == i * pagesize
        <5>1. /\ here \in Nat /\ start \in Nat /\ pagesize \in Nat
              /\ next = start + here /\ (i + 1) * pagesize = here + pagesize
              /\ remaining - 1 = nb_pages - (i + 1) /\ mode = op
          BY <1>1, <2>1, NextPage
        <5> HIDE DEF here
        <5>2. next' = start + (here + pagesize)
          BY <5>1, <3>2, SMT DEF TakePage
        <5>. QED
          BY <1>2, <3>2, <5>1, <5>2, Unchanged DEF TakePage
      <4>2. (data = Received(i * pagesize))'
        <5>1. pagesize \in 0..pagesize
          BY <1>1, NextPage, SMT
        <5>2. data' = Received((i + 1) * pagesize)
          BY <1>1, <1>3, <2>1, <3>2, <5>1, NextPage
        <5>. QED
          BY <1>2, <5>2, Unchanged DEF Received
      <4>. QED
        BY <1>1, <1>2, <3>2, <4>1, <4>2 DEF InStep
    <3>3. CASE /\ Fails("bulk") /\ GiveUp /\ outcome' \in {"short", "negative"}
               /\ \E got \in 0..pagesize - 1 : Receive(got)
      <4>1. PICK got \in 0..pagesize - 1 : Receive(got)
        BY <3>3
      <4>2. i * pagesize + got \in 0..len /\ got \in 0..pagesize
        <5> DEFINE here == i * pagesize
        <5>1. /\ here \in Nat /\ here + pagesize <= len /\ pagesize \in Nat /\ len \in Nat
          BY <1>1, NextPage
        <5> HIDE DEF here
        <5>2. here + got \in 0..len /\ got \in 0..pagesize
          BY <5>1, SMT
        <5>. QED
          BY <5>2 DEF here
      <4>3. data' = Received(i * pagesize + got)
        BY <1>3, <2>1, <4>1, <4>2
      <4>4. ASSUME NEW n \in 0..len, data' = Received(n)
            PROVE  n \in 0..len' /\ (data = Received(n))'
        BY <1>2, <4>4 DEF Received
      <4>5. (\E n \in 0..len : data = Received(n))'
        BY <4>2, <4>3, <4>4
      <4>. QED
        BY <1>1, <1>2, <3>3, <4>5 DEF BrokenOff, Fails, GiveUp
    <3>. QED
      BY <1>2, <3>1, <3>2, <3>3 DEF BulkRead
  <2>2. CASE Unannounced
    <3>1. GiveUp /\ lost' = lost /\ data' = data
      BY <1>1, <1>2, <2>2, SMT DEF BulkRead, Expects, Unannounced
    <3>. QED
      BY <1>1, <1>2, <2>2, <3>1 DEF Unannounced, GiveUp
  <2>. QED
    BY <1>1, <2>1, <2>2, NextPage
<1>6. ReadDelivers' /\ WritesAsAllowed' /\ ReadsPrefix'
  BY <1>1, <1>2 DEF ReadDelivers, WritesAsAllowed, ReadsPrefix
<1>. QED
  BY <1>1, <1>2, <1>4, <1>5, <1>6 DEF TransferInv, UnderWay

LEMMA EndOfPagesKeeps ==
    ASSUME TransferInv, EndOfPages
    PROVE  TransferInv'
<1>1. /\ TransferTypeOK /\ data0 \in Buffers
      /\ start % DEDIPROG_MIN_ALIGN = 0 /\ start + len <= ChipSize
      /\ tpc = "pages" /\ i <= nb_middle_pages /\ outcome \in {"full", "short", "negative"}
      /\ outcome = "full" => ~(i < nb_middle_pages)
      /\ InStep \/ Unannounced \/ BrokenOff
  BY DEF TransferInv, EndOfPages, Transferred, UnderWay
<1>2. /\ UNCHANGED <<op, start, len, data, i, mode, remaining, next, mem, mem0, data0, lost>>
      /\ UNCHANGED callVars
      /\ IF outcome = "full" /\ last_page_bytes > 0
         THEN tpc' = "residue" /\ outcome' = outcome
         ELSE tpc' = "done" /\ outcome' = Returned
  BY DEF EndOfPages, callVars, sf100Vars
<1>3. /\ i \in Nat /\ nb_middle_pages \in Nat /\ last_page_bytes \in Nat
      /\ nb_pages = nb_middle_pages + (IF last_page_bytes > 0 THEN 1 ELSE 0)
      /\ nb_middle_pages * pagesize + last_page_bytes = len
      /\ nb_middle_pages * pagesize \in Nat
  BY <1>1, Pages, Products, SMT DEF TransferTypeOK
<1>4. outcome' \in {"full", "short", "negative"}
  BY <1>1, <1>2 DEF Returned
<1>5. TransferTypeOK'
  BY <1>1, <1>2, <1>4 DEF TransferTypeOK
<1>6. outcome = "full" => i = nb_middle_pages
  BY <1>1, <1>3, SMT
<1>7. CASE outcome = "full" /\ last_page_bytes > 0
  <2>1. /\ tpc' = "residue" /\ outcome' = "full"
        /\ i' = nb_middle_pages' /\ last_page_bytes' > 0 /\ i' <= nb_middle_pages'
    BY <1>1, <1>2, <1>6, <1>7, Unchanged
  <2>2. InStep' \/ Unannounced' \/ BrokenOff'
    BY <1>1, <1>2, <2>1, <1>7, Unchanged
       DEF InStep, Unannounced, BrokenOff, Programmed, Received
  <2>3. ReadDelivers' /\ WritesAsAllowed' /\ ReadsPrefix'
    BY <2>1 DEF ReadDelivers, WritesAsAllowed, ReadsPrefix
  <2>. QED
    BY <1>1, <1>2, <1>5, <2>1, <2>2, <2>3 DEF TransferInv, UnderWay
<1>8. CASE ~(outcome = "full" /\ last_page_bytes > 0)
  <2>1. tpc' = "done" /\ outcome' = Returned
    BY <1>2, <1>8
  <2>2. InStep => nb_middle_pages * pagesize = len /\ last_page_bytes = 0 /\ remaining = 0
    <3>1. SUFFICES ASSUME InStep
                   PROVE  nb_middle_pages * pagesize = len /\ last_page_bytes = 0 /\ remaining = 0
      OBVIOUS
    <3>2. outcome = "full" /\ remaining = nb_pages - i
      BY <3>1 DEF InStep
    <3>3. last_page_bytes = 0
      BY <1>3, <1>8, <3>2, SMT
    <3>. QED
      BY <1>3, <1>6, <3>2, <3>3, SMT
  <2>3. remaining' = 0
    BY <1>1, <1>2, <2>2 DEF Unannounced, BrokenOff
  <2>4. ReadDelivers'
    <3>1. SUFFICES ASSUME op = "read", lost = {}
                   PROVE  /\ outcome' = "full"
                          /\ data = [a \in Addr |-> IF a \in Range THEN mem[a] ELSE data0[a]]
      BY <1>2, <2>3 DEF ReadDelivers, Range
    <3>2. InStep
      BY <1>1, <3>1 DEF Unannounced, BrokenOff
    <3>3. outcome = "full" /\ data = Received(len)
      BY <1>6, <2>2, <3>1, <3>2 DEF InStep
    <3>. QED
      BY <2>1, <3>3 DEF Received, Range, Returned
  <2>5. WritesAsAllowed'
    <3>1. SUFFICES ASSUME op = "write"
                   PROVE  WritesAsAllowed'
      BY <1>2 DEF WritesAsAllowed
    <3>2. nb_middle_pages = len \div PageSize /\ outcome' = outcome
      BY <1>1, <2>1, <3>1, Pages DEF Returned
    <3>3. CASE InStep
      BY <1>2, <1>6, <3>1, <3>2, <3>3 DEF InStep, WritesAsAllowed, Programmed
    <3>4. CASE Unannounced
      BY <1>2, <3>1, <3>4 DEF Unannounced, WritesAsAllowed
    <3>5. CASE BrokenOff
      BY <1>2, <3>1, <3>2, <3>5 DEF BrokenOff, WritesAsAllowed, Programmed
    <3>. QED
      BY <1>1, <3>3, <3>4, <3>5
  <2>6. ReadsPrefix'
    <3>1. SUFFICES ASSUME op = "read"
                   PROVE  \E n \in 0..len : \A a \in Addr :
                             IF start <= a /\ a < start + n
                             THEN data[a] = mem[a] ELSE data[a] = data0[a]
      BY <1>2 DEF ReadsPrefix
    <3>2. ASSUME NEW n \in 0..len, data = Received(n)
          PROVE  \A a \in Addr : IF start <= a /\ a < start + n
                                 THEN data[a] = mem[a] ELSE data[a] = data0[a]
      BY <3>2 DEF Received
    <3>3. len \in 0..len /\ 0 \in 0..len /\ \A a \in Addr : ~(start <= a /\ a < start + 0)
      BY <1>1, SMT DEF TransferTypeOK, Addr
    <3>4. CASE InStep
      BY <1>6, <2>2, <3>1, <3>2, <3>3, <3>4 DEF InStep
    <3>5. CASE Unannounced
      <4>1. \A a \in Addr : IF start <= a /\ a < start + 0
                            THEN data[a] = mem[a] ELSE data[a] = data0[a]
        BY <3>1, <3>3, <3>5 DEF Unannounced
      <4>. QED
        BY <3>3, <4>1
    <3>6. CASE BrokenOff
      BY <3>1, <3>2, <3>6 DEF BrokenOff
    <3>. QED
      BY <1>1, <3>4, <3>5, <3>6
  <2>. QED
    BY <1>1, <1>2, <1>5, <2>1, <2>3, <2>4, <2>5, <2>6 DEF TransferInv, UnderWay
<1>. QED
  BY <1>7, <1>8

(* The incomplete page: it too lies within the chip, as the address it is   *)
(* at and the size of the chip are multiples of what a read transfers.      *)
LEMMA Residue ==
    ASSUME TransferInv, tpc = "residue"
    PROVE  /\ i = nb_middle_pages /\ last_page_bytes > 0 /\ outcome = "full"
           /\ TransferTypeOK /\ data0 \in Buffers /\ start + len <= ChipSize
           /\ i * pagesize \in Nat /\ i * pagesize + last_page_bytes = len
           /\ (i + 1) * pagesize = i * pagesize + pagesize
           /\ start \in Nat /\ len \in Nat /\ pagesize \in Nat /\ ChipSize \in Nat
           /\ last_page_bytes \in 0..pagesize - 1
           /\ op = "read" => start + i * pagesize + pagesize <= ChipSize
           /\ InStep \/ Unannounced
           /\ InStep => /\ remaining = 1 /\ mode = op /\ next = start + i * pagesize
<1>1. /\ i = nb_middle_pages /\ last_page_bytes > 0 /\ outcome = "full"
      /\ TransferTypeOK /\ data0 \in Buffers /\ start + len <= ChipSize
      /\ start % DEDIPROG_MIN_ALIGN = 0
  BY DEF TransferInv, UnderWay
<1>2. InStep \/ Unannounced
  BY <1>1 DEF TransferInv, UnderWay, BrokenOff
<1>3. /\ start \in Nat /\ len \in Nat /\ pagesize \in Nat \ {0} /\ ChipSize \in Nat
      /\ i \in Nat /\ last_page_bytes \in 0..pagesize - 1
      /\ i * pagesize + last_page_bytes = len
      /\ nb_pages = i + 1
  BY <1>1, Pages, SMT DEF TransferTypeOK
<1>4. i * pagesize \in Nat /\ (i + 1) * pagesize = i * pagesize + pagesize
  BY <1>3, Products
<1>5. op = "read" => start + i * pagesize + pagesize <= ChipSize
  <2>1. SUFFICES ASSUME op = "read" PROVE start + i * pagesize + pagesize <= ChipSize
    OBVIOUS
  <2>2. pagesize = DEDIPROG_MIN_ALIGN
    BY <2>1 DEF pagesize
  <2>3. start + i * pagesize < ChipSize
    <3> DEFINE here == i * pagesize
    <3>1. here \in Nat /\ here + last_page_bytes = len
      BY <1>3, <1>4
    <3> HIDE DEF here
    <3>2. start + here < ChipSize
      BY <1>1, <1>3, <3>1, SMT
    <3>. QED
      BY <3>2 DEF here
  <2>. QED
    BY <1>1, <1>3, <2>2, <2>3, AlignedRoom, TransferSizesAssumption
<1>6. InStep => remaining = 1 /\ mode = op /\ next = start + i * pagesize
  <2>1. SUFFICES ASSUME InStep
                 PROVE  remaining = 1 /\ mode = op /\ next = start + i * pagesize
    OBVIOUS
  <2>2. remaining = nb_pages - i
    BY <2>1 DEF InStep
  <2>3. remaining = 1
    BY <1>3, <2>2, SMT
  <2>4. remaining > 0
    BY <2>3, SMT
  <2>. QED
    BY <2>1, <2>3, <2>4 DEF InStep
<1>. QED
  BY <1>1, <1>2, <1>3, <1>4, <1>5, <1>6

LEMMA ReadResidueKeeps ==
    ASSUME TransferInv, ReadResidue
    PROVE  TransferInv'
<1>1. /\ op = "read" /\ tpc = "residue" /\ tpc' = "done"
      /\ UNCHANGED <<op, start, len, i, mem, mem0, data0>> /\ UNCHANGED callVars
      /\ lost' \subseteq MayFail \/ lost' = lost
      /\ outcome' \in {"full", "negative"}
  BY DEF ReadResidue, callVars, Fails, TransferInv, TransferTypeOK
<1> DEFINE here == i * pagesize
<1>2. /\ TransferTypeOK /\ data0 \in Buffers /\ start + len <= ChipSize
      /\ here \in Nat /\ here + last_page_bytes = len
      /\ (i + 1) * pagesize = here + pagesize
      /\ start \in Nat /\ len \in Nat /\ pagesize \in Nat /\ ChipSize \in Nat
      /\ last_page_bytes \in 0..pagesize - 1
      /\ start + here + pagesize <= ChipSize
      /\ InStep \/ Unannounced
      /\ InStep => remaining = 1 /\ mode = op /\ next = start + here
  BY <1>1, Residue
<1>3. ASSUME NEW n
      PROVE  ReceiveResidue(n)
               <=> data' = [a \in Addr |->
                              IF ~(start + here <= a /\ a < start + (here + pagesize))
                                  \/ a >= start + len
                              THEN data[a]
                              ELSE IF a < start + here + n
                                   THEN mem[next + (a - start - here)] ELSE Erased]
  BY <1>2 DEF ReceiveResidue, PageOf
<1>4. InStep => data = Received(here)
  BY <1>1 DEF InStep
<1> HIDE DEF here
<1>5. InStep => \A a \in Addr : next + (a - start - here) = a
  BY <1>2, SMT DEF Addr
<1>6. InStep => Expects("read")
  BY <1>1, <1>2, SMT DEF Expects
<1>7. Unannounced => ~Expects("read")
  BY SMT DEF Expects, Unannounced
<1>8. /\ remaining' = 0 /\ mode' \in {"none", "read", "write"} /\ next' \in 0..ChipSize
  <2>1. CASE InStep
    BY <1>1, <1>2, <1>6, <2>1, SMT DEF ReadResidue, TakePage, GiveUp, TransferTypeOK
  <2>2. CASE Unannounced
    BY <1>2, <1>7, <2>2 DEF ReadResidue, GiveUp, TransferTypeOK
  <2>. QED
    BY <1>2, <2>1, <2>2
<1>9. data' \in Buffers
  <2>1. Addr \subseteq Int /\ Erased \in SUBSET Bits
    BY SMT DEF Addr, Erased
  <2>2. ASSUME NEW n \in Nat, ReceiveResidue(n), InStep
        PROVE  data' \in Buffers
    <3>1. data' = [a \in Addr |-> IF ~(start + here <= a /\ a < start + (here + pagesize))
                                     \/ a >= start + len
                                 THEN data[a]
                                 ELSE IF a < start + here + n THEN mem[a] ELSE Erased]
      BY <1>3, <1>5, <2>2
    <3>. QED
      BY <1>2, <2>1, <3>1 DEF TransferTypeOK, Buffers
  <2>3. ASSUME ReceiveResidue(0)
        PROVE  data' \in Buffers
    <3>1. data' = [a \in Addr |-> IF ~(start + here <= a /\ a < start + (here + pagesize))
                                     \/ a >= start + len
                                 THEN data[a]
                                 ELSE IF a < start + here + 0
                                      THEN mem[next + (a - start - here)] ELSE Erased]
      BY <1>3, <2>3
    <3>2. ASSUME NEW a \in Addr PROVE data'[a] \in (SUBSET Bits) \cup {Unread}
      <4>1. data[a] \in (SUBSET Bits) \cup {Unread}
        BY <1>2 DEF TransferTypeOK
      <4>2. ~(start + here <= a /\ a < start + here + 0)
        BY <1>2, <2>1, SMT
      <4>. QED
        BY <2>1, <3>1, <4>1, <4>2
    <3>. QED
      BY <3>1, <3>2 DEF Buffers
  <2>4. last_page_bytes \in Nat /\ 0..last_page_bytes \subseteq Nat
    BY <1>2, SMT
  <2>5. CASE InStep
    BY <1>6, <2>2, <2>4, <2>5 DEF ReadResidue
  <2>6. CASE Unannounced
    BY <1>7, <2>3, <2>6 DEF ReadResidue
  <2>. QED
    BY <1>2, <2>5, <2>6
<1>10. TransferTypeOK'
  BY <1>1, <1>2, <1>8, <1>9, SMT DEF TransferTypeOK, Buffers
<1>11. ReadDelivers'
  <2>1. SUFFICES ASSUME lost' = {}
                 PROVE  /\ outcome' = "full"
                        /\ data' = [a \in Addr |-> IF a \in Range THEN mem[a] ELSE data0[a]]
    BY <1>1, <1>8 DEF ReadDelivers, Range
  <2>2. lost = {} /\ ~Fails("bulk")
    BY <2>1 DEF ReadResidue, Fails
  <2>3. InStep
    BY <1>2, <2>2 DEF Unannounced
  <2>4. outcome' = "full" /\ ReceiveResidue(last_page_bytes)
    BY <1>6, <2>2, <2>3 DEF ReadResidue
  <2>5. data' = [a \in Addr |-> IF ~(start + here <= a /\ a < start + (here + pagesize))
                                     \/ a >= start + len
                               THEN data[a]
                               ELSE IF a < start + here + last_page_bytes THEN mem[a] ELSE Erased]
    BY <1>3, <1>5, <2>3, <2>4
  <2>6. data = [a \in Addr |-> IF start <= a /\ a < start + here THEN mem[a] ELSE data0[a]]
    BY <1>4, <2>2, <2>3 DEF Received
  <2>7. ASSUME NEW a \in Addr
        PROVE  data'[a] = IF a \in Range THEN mem[a] ELSE data0[a]
    <3>1. a \in Int
      BY SMT DEF Addr
    <3>2. a \in Range <=> start <= a /\ a < start + len
      BY DEF Range
    <3>3. CASE start + here <= a /\ a < start + len
      <4>1. /\ start + here <= a /\ a < start + (here + pagesize) /\ ~(a >= start + len)
            /\ a < start + here + last_page_bytes /\ start <= a /\ a < start + len
        BY <1>2, <3>1, <3>3, SMT
      <4>. QED
        BY <2>5, <3>2, <4>1
    <3>4. CASE ~(start + here <= a /\ a < start + len)
      <4>1. /\ ~(start + here <= a /\ a < start + (here + pagesize)) \/ a >= start + len
            /\ start <= a /\ a < start + len <=> start <= a /\ a < start + here
        BY <1>2, <3>1, <3>4, SMT
      <4>2. data'[a] = data[a]
        BY <2>5, <4>1
      <4>. QED
        BY <2>6, <3>2, <4>1, <4>2
    <3>. QED
      BY <3>3, <3>4
  <2>. QED
    BY <2>4, <2>5, <2>7
<1>12. WritesAsAllowed'
  BY <1>1 DEF WritesAsAllowed
<1>13. ReadsPrefix'
  <2>1. SUFFICES \E n \in 0..len : \A a \in Addr :
                    IF start <= a /\ a < start + n
                    THEN data'[a] = mem[a]
                    ELSE data'[a] = data0[a] \/ (a \in Range /\ data'[a] = Erased)
    BY <1>1 DEF ReadsPrefix, Range
  <2>2. Addr \subseteq Int /\ \A a : a \in Range <=> a \in Addr /\ start <= a /\ a < start + len
    BY SMT DEF Addr, Range
  <2>3. ASSUME InStep, NEW got \in 0..last_page_bytes, ReceiveResidue(got)
        PROVE  /\ here + got \in 0..len
               /\ \A a \in Addr :
                    IF start <= a /\ a < start + (here + got)
                    THEN data'[a] = mem[a]
                    ELSE data'[a] = data0[a] \/ (a \in Range /\ data'[a] = Erased)
    <3>1. got \in Nat /\ here + got \in 0..len /\ got <= last_page_bytes
      BY <1>2, SMT
    <3>2. data' = [a \in Addr |-> IF ~(start + here <= a /\ a < start + (here + pagesize))
                                     \/ a >= start + len
                                 THEN data[a]
                                 ELSE IF a < start + here + got THEN mem[a] ELSE Erased]
      BY <1>3, <1>5, <2>3
    <3>3. data = [a \in Addr |-> IF start <= a /\ a < start + here THEN mem[a] ELSE data0[a]]
      BY <1>4, <2>3 DEF Received
    <3>4. ASSUME NEW a \in Addr
          PROVE  IF start <= a /\ a < start + (here + got)
                 THEN data'[a] = mem[a]
                 ELSE data'[a] = data0[a] \/ (a \in Range /\ data'[a] = Erased)
      <4>1. CASE start + here <= a /\ a < start + len
        <5>1. /\ start + here <= a /\ a < start + (here + pagesize) /\ ~(a >= start + len)
              /\ a \in Range
              /\ a < start + here + got <=> start <= a /\ a < start + (here + got)
          BY <1>2, <2>2, <3>1, <4>1, SMT
        <5>. QED
          BY <3>2, <5>1
      <4>2. CASE ~(start + here <= a /\ a < start + len)
        <5>1. /\ ~(start + here <= a /\ a < start + (here + pagesize)) \/ a >= start + len
              /\ start <= a /\ a < start + (here + got) <=> start <= a /\ a < start + here
          BY <1>2, <2>2, <3>1, <4>2, SMT
        <5>2. data'[a] = data[a]
          BY <3>2, <5>1
        <5>. QED
          BY <3>3, <5>1, <5>2
      <4>. QED
        BY <4>1, <4>2
    <3>. QED
      BY <3>1, <3>4
  <2>4. ASSUME Unannounced, ReceiveResidue(0), NEW a \in Addr
        PROVE  /\ ~(start <= a /\ a < start + 0)
               /\ data'[a] = data0[a] \/ (a \in Range /\ data'[a] = Erased)
    <3>1. data' = [x \in Addr |-> IF ~(start + here <= x /\ x < start + (here + pagesize))
                                     \/ x >= start + len
                                 THEN data[x]
                                 ELSE IF x < start + here + 0
                                      THEN mem[next + (x - start - here)] ELSE Erased]
      BY <1>3, <2>4
    <3>2. data = data0 /\ ~(start <= a /\ a < start + 0)
      BY <1>1, <1>2, <2>2, <2>4, SMT DEF Unannounced
    <3>3. CASE start + here <= a /\ a < start + (here + pagesize) /\ ~(a >= start + len)
      <4>1. ~(a < start + here + 0) /\ a \in Range
        BY <1>2, <2>2, <3>3, SMT
      <4>. QED
        BY <3>1, <3>2, <3>3, <4>1
    <3>4. CASE ~(start + here <= a /\ a < start + (here + pagesize) /\ ~(a >= start + len))
      BY <3>1, <3>2, <3>4
    <3>. QED
      BY <3>2, <3>3, <3>4
  <2>5. last_page_bytes \in 0..last_page_bytes /\ 0 \in 0..len
    BY <1>2, SMT
  <2>6. CASE InStep
    <3>1. PICK got \in 0..last_page_bytes : ReceiveResidue(got)
      BY <1>6, <2>5, <2>6 DEF ReadResidue
    <3>. QED
      BY <2>3, <2>6, <3>1
  <2>7. CASE Unannounced
    <3>1. ReceiveResidue(0)
      BY <1>7, <2>7 DEF ReadResidue
    <3>. QED
      BY <2>4, <2>5, <2>7, <3>1
  <2>. QED
    BY <1>2, <2>6, <2>7
<1>. QED
  BY <1>1, <1>2, <1>8, <1>10, <1>11, <1>12, <1>13 DEF TransferInv, UnderWay

LEMMA WriteResidueKeeps ==
    ASSUME TransferInv, WriteResidue
    PROVE  TransferInv'
<1>1. /\ op = "write" /\ tpc = "residue" /\ tpc' = "done"
      /\ UNCHANGED <<op, start, len, data, i, next, mem, mem0, data0, lost>>
      /\ mode' = "none" /\ remaining' = 0
      /\ outcome' \in {"full", "short", "negative"}
  BY DEF WriteResidue, callVars, GiveUp
<1>2. /\ TransferTypeOK /\ data0 \in Buffers /\ last_page_bytes > 0
      /\ i = nb_middle_pages
      /\ InStep \/ Unannounced
  BY <1>1, Residue
<1>3. TransferTypeOK'
  BY <1>1, <1>2, SMT DEF TransferTypeOK
<1>4. WritesAsAllowed'
  <2>1. /\ nb_middle_pages = len \div PageSize
        /\ last_page_bytes = len % PageSize
    BY <1>1, <1>2, Pages
  <2>2. CASE InStep
    <3>1. mem = Programmed(len \div PageSize)
      BY <1>1, <1>2, <2>1, <2>2 DEF InStep
    <3>2. len % PageSize # 0
      BY <1>2, <2>1, SMT
    <3>. QED
      BY <1>1, <3>1, <3>2 DEF WritesAsAllowed, Programmed
  <2>3. CASE Unannounced
    BY <1>1, <2>3 DEF WritesAsAllowed, Unannounced
  <2>. QED
    BY <1>2, <2>2, <2>3
<1>5. ReadDelivers' /\ ReadsPrefix'
  BY <1>1 DEF ReadDelivers, ReadsPrefix
<1>. QED
  BY <1>1, <1>2, <1>3, <1>4, <1>5 DEF TransferInv, UnderWay
-----------------------------------------------------------------------------
LEMMA TransferStepKeeps ==
    ASSUME TransferInv, TransferStep
    PROVE  TransferInv'
  BY PrepKeeps, ReadPageKeeps, WritePageKeeps, EndOfPagesKeeps, ReadResidueKeeps,
     WriteResidueKeeps
     DEF TransferStep

LEMMA TransferNextKeeps ==
    ASSUME TransferInv, TransferNext
    PROVE  TransferInv'
<1>1. CASE TransferStep
  BY <1>1, TransferStepKeeps
<1>2. ASSUME NEW s \in Addr, NEW l \in 1..ChipSize - s
      PROVE  s \in Nat /\ l \in Nat \ {0} /\ s + l <= ChipSize
  BY TransferSizesAssumption, SMT DEF Addr
<1>3. Empty \in Buffers /\ Images \subseteq Buffers
  BY TransferImagesAssumption, SMT DEF Empty, Buffers
<1>4. ASSUME NEW s \in Addr, NEW l \in 1..ChipSize - s,
             \/ CallTransfer("read", s, l, Empty)
             \/ \E image \in Images : CallTransfer("write", s, l, image)
      PROVE  TransferInv'
  BY <1>2, <1>3, <1>4, CallKeeps
<1>. QED
  BY <1>1, <1>4 DEF TransferNext

(* TransferInv is inductive: the transfers, whatever was lost before.       *)
LEMMA TransferInvariant == TransferSpec => []TransferInv
<1>1. TransferInit => TransferInv
  BY TransferInitEstablishes
<1>2. TransferInv /\ [TransferNext]_transferVars => TransferInv'
  BY TransferNextKeeps, TransferStutterKeeps
<1>. QED
  BY <1>1, <1>2, PTL DEF TransferSpec

(***************************************************************************)
(* Type correctness of the two functions and of the SF100's state: the     *)
(* page counter, and the address the SF100 is at, never leave the chip.    *)
(***************************************************************************)
THEOREM TransferTypeCorrect == TransferSpec => []TransferTypeOK
<1>1. TransferInv => TransferTypeOK
  BY DEF TransferInv
<1>. QED
  BY <1>1, TransferInvariant, PTL

(***************************************************************************)
(* dediprog_spi_read: with no transfer lost the caller's buffer holds what *)
(* the chip holds, whatever the start, the length and what came before.    *)
(***************************************************************************)
THEOREM ReadDeliversTheRange == TransferSpec => []ReadDelivers
<1>1. TransferInv => ReadDelivers
  BY DEF TransferInv
<1>. QED
  BY <1>1, TransferInvariant, PTL

(***************************************************************************)
(* dediprog_spi_write: the chip holds a prefix of whole pages of what it   *)
(* was given, all of them unless a transfer was lost, and a lost page is   *)
(* never returned as a success unless the announcement was lost too.       *)
(***************************************************************************)
THEOREM WriteProgramsPrefix == TransferSpec => []WritesAsAllowed
<1>1. TransferInv => WritesAsAllowed
  BY DEF TransferInv
<1>. QED
  BY <1>1, TransferInvariant, PTL
=============================================================================
