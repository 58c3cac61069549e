--------------------------- MODULE WriteChipProofs ---------------------------
(***************************************************************************)
(* op_write_chip changes nothing outside the planned zone, compares blocks *)
(* with what the chip holds, copies within its buffers, and implements     *)
(* ZoneWrite: for every chip, image and combination of mishaps.            *)
(***************************************************************************)
EXTENDS WriteChip, ErasePlannerProofs

Contents == [Addr -> Value]

(***************************************************************************)
(* The inductive invariant.  What confines the walk over the reversed list *)
(* is the last line of Walk: the block under the cursor was planned at     *)
(* Block.at, the blocks before it in the list were planned behind it, and  *)
(* the walk has advanced by no more than their sizes.  So although it      *)
(* erases each block in the wrong place, it ends where the plan ends.      *)
(***************************************************************************)
InBlock == \/ pc \in {"wren", "erase", "poll"}
           \/ pc = "write" /\ strategy = "wipe_if_changes"

Walk ==
    /\ pc \in {"open", "reference"} => ppc = "idle"
    /\ pc \in {"block", "wren", "erase", "poll", "write"} => ppc = "ok"
    /\ ppc # "idle" => end = len
    /\ InBlock => cursor <= Len(erases)
    /\ pc \in {"wren", "erase"} => ~EraseRefused
    /\ (pc = "block" \/ InBlock) /\ cursor <= Len(erases)
           => bstart + Block.at + blen <= where

(***************************************************************************)
(* chip_ref against the chip: from bstart on, or, once the block at bstart *)
(* has been erased, from its end on.                                       *)
(***************************************************************************)
Reference ==
    strategy = "wipe_if_changes" /\ "read" \notin mishaps =>
        /\ pc = "plan" => chip_ref = mem
        /\ pc \in {"block", "wren", "erase"} =>
              \A a \in Addr : a >= bstart => chip_ref[a] = mem[a]
        /\ pc \in {"poll", "write"} =>
              \A a \in Addr : a >= bstart + blen => chip_ref[a] = mem[a]

OpInv ==
    /\ TypeOK
    /\ PlannerInv
    /\ Walk
    /\ ConfinedToZone
    /\ Reference
-----------------------------------------------------------------------------
(***************************************************************************)
(* The chip: what erasing and programming can change.                      *)
(***************************************************************************)
LEMMA AddrBounds == Addr \subseteq Nat /\ \A a \in Addr : a < ChipSize
  BY SizesAssumption, SMT DEF Addr

LEMMA EraseCellsEffect ==
    ASSUME NEW m \in Contents, NEW lo, NEW hi
    PROVE  /\ EraseCells(m, lo, hi) \in Contents
           /\ \A a \in Addr : EraseCells(m, lo, hi)[a] # m[a]
                => lo <= a /\ a < hi /\ EraseCells(m, lo, hi)[a] = Erased
  BY DEF EraseCells, Contents, Erased, Value

LEMMA ProgramCellsEffect ==
    ASSUME NEW m \in Contents, NEW data \in Contents, NEW lo, NEW hi
    PROVE  /\ ProgramCells(m, data, lo, hi) \in Contents
           /\ \A a \in Addr : ProgramCells(m, data, lo, hi)[a] # m[a]
                => lo <= a /\ a < hi /\ ProgramCells(m, data, lo, hi)[a] \subseteq m[a]
  BY DEF ProgramCells, Contents, Value

LEMMA EraseEffect ==
    ASSUME ChipTypeOK, NEW i \in Slots, NEW addr \in Nat,
           Erasers[i].size \in Nat \ {0},
           Erasers[i].block_erase = "chip" => addr = 0 /\ Erasers[i].size = ChipSize,
           ReceiveErase(i, addr)
    PROVE  /\ ChipTypeOK'
           /\ \A a \in Addr : mem'[a] # mem[a]
                => a < addr + Erasers[i].size /\ mem'[a] = Erased
<1>1. mem \in Contents /\ wip \in BOOLEAN /\ wel \in BOOLEAN
  BY DEF ChipTypeOK, Contents
<1>2. CASE wip \/ ~wel
  BY <1>1, <1>2 DEF ReceiveErase, ChipTypeOK, Contents
<1>3. CASE ~(wip \/ ~wel)
  <2>1. wip' = TRUE /\ wel' = wel
    BY <1>3 DEF ReceiveErase
  <2>2. CASE Erasers[i].block_erase = "chip"
    <3>1. mem' = EraseCells(mem, 0, ChipSize)
      BY <1>3, <2>2 DEF ReceiveErase
    <3>2. addr + Erasers[i].size = ChipSize
      BY <2>2, SizesAssumption, SMT
    <3>. QED
      BY <1>1, <2>1, <3>1, <3>2, EraseCellsEffect DEF ChipTypeOK, Contents
  <2>3. CASE Erasers[i].block_erase # "chip"
    <3> DEFINE lo == AlignedDown(i, addr)
    <3>1. mem' = EraseCells(mem, lo, lo + Erasers[i].size)
      BY <1>3, <2>3 DEF ReceiveErase
    <3>2. lo \in Nat /\ lo <= addr
      BY DivBounds, SMT DEF AlignedDown
    <3> HIDE DEF lo
    <3>3. \A a \in Addr : a < lo + Erasers[i].size => a < addr + Erasers[i].size
      BY <3>2, AddrBounds, SMT
    <3>. QED
      BY <1>1, <2>1, <3>1, <3>3, EraseCellsEffect DEF ChipTypeOK, Contents
  <2>. QED
    BY <2>2, <2>3
<1>. QED
  BY <1>2, <1>3

LEMMA WriteEffect ==
    ASSUME ChipTypeOK, mishaps \subseteq MayHappen,
           NEW data \in Contents, NEW first \in Nat, NEW n \in Nat, NEW outcome,
           ChipWrite(data, first, n, outcome)
    PROVE  /\ ChipTypeOK'
           /\ mishaps \subseteq mishaps' /\ mishaps' \subseteq MayHappen
           /\ "read" \in mishaps' => "read" \in mishaps
           /\ \A a \in Addr : mem'[a] # mem[a]
                => first <= a /\ a < first + n /\ mem'[a] \subseteq mem[a]
<1>1. mem \in Contents /\ wip \in BOOLEAN /\ wel \in BOOLEAN
  BY DEF ChipTypeOK, Contents
<1>2. /\ mishaps \subseteq mishaps' /\ mishaps' \subseteq MayHappen
      /\ "read" \in mishaps' => "read" \in mishaps
  BY DEF ChipWrite, Happens
<1>3. PageSize \in Nat \ {0}
  BY SizesAssumption
<1>4. WholePages(n) \in Nat /\ WholePages(n) * PageSize <= n
  BY <1>3, DivBounds DEF WholePages
<1>5. ASSUME NEW written \in 0..WholePages(n), Program(data, first, n, written)
      PROVE  /\ ChipTypeOK'
             /\ \A a \in Addr : mem'[a] # mem[a]
                  => first <= a /\ a < first + n /\ mem'[a] \subseteq mem[a]
  <2>1. PICK lost \in IF wip THEN 0..written ELSE {0} :
           mem' = ProgramCells(mem, data, first + lost * PageSize, first + written * PageSize)
    BY <1>5 DEF Program
  <2>2. wip' \in BOOLEAN /\ wel' \in BOOLEAN
    BY <1>5 DEF Program
  <2>3. written \in Nat /\ lost \in Nat
    BY <1>4, SMT
  <2>4. written * PageSize <= WholePages(n) * PageSize
    BY <1>3, <1>4, <2>3, SMT
  <2>5. lost * PageSize \in Nat /\ written * PageSize \in Nat /\ written * PageSize <= n
    BY <1>3, <1>4, <2>3, <2>4, SMT
  <2> DEFINE lo == first + lost * PageSize
             hi == first + written * PageSize
  <2>6. lo \in Nat /\ hi \in Nat /\ first <= lo /\ hi <= first + n
    BY <2>5, SMT
  <2>7. mem' = ProgramCells(mem, data, lo, hi)
    BY <2>1
  <2> HIDE DEF lo, hi
  <2>8. \A a \in Addr : lo <= a /\ a < hi => first <= a /\ a < first + n
    BY <2>6, AddrBounds, SMT
  <2>. QED
    BY <1>1, <2>2, <2>7, <2>8, ProgramCellsEffect DEF ChipTypeOK, Contents
<1>6. CASE UNCHANGED chipVars
  BY <1>1, <1>2, <1>6 DEF chipVars, ChipTypeOK, Contents
<1>7. CASE \E written \in 0..WholePages(n) : Program(data, first, n, written)
  BY <1>2, <1>5, <1>7
<1>8. (\E written \in 0..WholePages(n) : Program(data, first, n, written)) \/ UNCHANGED chipVars
  <2>1. WholePages(n) \in 0..WholePages(n)
    BY <1>4, SMT
  <2>. QED
    BY <2>1 DEF ChipWrite
<1>. QED
  BY <1>6, <1>7, <1>8
-----------------------------------------------------------------------------
(***************************************************************************)
(* The entries of the list.                                                *)
(***************************************************************************)
LEMMA EntryFacts ==
    ASSUME PlannerInv, NEW k \in 1..Len(erases)
    PROVE  /\ erases[k].eraser \in Slots
           /\ erases[k].at \in Nat
           /\ SizeOf(erases[k]) \in Nat \ {0}
           /\ Erasers[erases[k].eraser].start = 0
<1>1. erases[k] \in [eraser : Slots, at : 0..ChipSize]
  <2> DEFINE Entry == [eraser : Slots, at : 0..ChipSize]
  <2>1. erases \in Seq(Entry)
    BY DEF PlannerInv, PlannerTypeOK
  <2> HIDE DEF Entry
  <2>2. erases[k] \in Entry
    BY <2>1, SMT
  <2>. QED
    BY <2>2 DEF Entry
<1>2. SizeOf(erases[k]) > 0
  BY DEF PlannerInv, PlanTiles
<1>3. Erasers[erases[k].eraser] \in EraserRecord /\ WellFormedEraser(Erasers[erases[k].eraser])
  BY <1>1, ErasersAssumption DEF Slots
<1>4. SizeOf(erases[k]) \in Nat \ {0}
  BY <1>2, <1>3, SMT DEF EraserRecord, SizeOf
<1>5. Erasers[erases[k].eraser].start = 0
  BY <1>2, <1>3, SMT DEF WellFormedEraser, SizeOf
<1>6. erases[k].at \in Nat
  BY <1>1, SizesAssumption, SMT
<1>. QED
  BY <1>1, <1>4, <1>5, <1>6

(***************************************************************************)
(* While a block is under the cursor: it has a size, it ends on the chip   *)
(* and inside the plan, and if it is followed by another block, that one   *)
(* was planned in front of it.                                             *)
(***************************************************************************)
LEMMA BlockFacts ==
    ASSUME OpInv, pc = "block" \/ InBlock, cursor <= Len(erases)
    PROVE  /\ cursor \in 1..Len(erases)
           /\ Block.eraser \in Slots
           /\ blen \in Nat \ {0} /\ blen = Erasers[Block.eraser].size
           /\ bstart \in Nat /\ bstart + blen \in 0..ChipSize
           /\ bstart + blen <= where
           /\ ppc = "ok" /\ Accepted /\ Zone = where
<1>1. /\ PlannerInv /\ Walk
      /\ cursor \in Nat \ {0} /\ bstart \in 0..ChipSize /\ where \in 0..ChipSize
      /\ erases \in Seq([eraser : Slots, at : 0..ChipSize])
  BY DEF OpInv, TypeOK, PlannerTypeOK
<1>2. cursor \in 1..Len(erases)
  BY <1>1, SMT
<1>3. /\ Block.eraser \in Slots /\ Block.at \in Nat
      /\ blen \in Nat \ {0} /\ blen = Erasers[Block.eraser].size
  BY <1>1, <1>2, EntryFacts DEF Block, blen, SizeOf
<1>4. bstart + Block.at + blen <= where
  BY <1>1 DEF Walk
<1>5. /\ bstart \in Nat /\ bstart + blen \in 0..ChipSize
      /\ bstart + blen <= where
  <2>1. bstart \in Nat /\ where \in Nat /\ where <= ChipSize /\ ChipSize \in Nat
    BY <1>1, SizesAssumption, SMT
  <2> DEFINE at == Block.at
             size == blen
  <2>2. at \in Nat /\ size \in Nat /\ bstart + at + size <= where
    BY <1>3, <1>4
  <2> HIDE DEF at, size
  <2>3. bstart + size <= where /\ bstart + size \in 0..ChipSize
    BY <2>1, <2>2, SMT
  <2>. QED
    BY <2>1, <2>3 DEF size
<1>6. ppc = "ok" /\ Accepted
  BY <1>1 DEF Walk, InBlock, Accepted
<1>. QED
  BY <1>2, <1>3, <1>5, <1>6 DEF Zone

(***************************************************************************)
(* Advancing the cursor, with or without bstart, keeps the walk inside.    *)
(***************************************************************************)
LEMMA Advance ==
    ASSUME OpInv, pc = "block" \/ InBlock, cursor <= Len(erases),
           UNCHANGED plannerVars,
           cursor' = cursor + 1,
           bstart' = bstart + blen \/ bstart' = bstart,
           cursor' <= Len(erases)
    PROVE  bstart' + Block'.at + blen' <= where'
<1>1. /\ cursor \in 1..Len(erases) /\ bstart \in Nat /\ blen \in Nat \ {0}
  BY BlockFacts
<1>2. PlannerInv /\ Walk /\ where \in 0..ChipSize /\ Len(erases) \in Nat
  BY DEF OpInv, TypeOK, PlannerTypeOK
<1>3. erases' = erases /\ where' = where
  BY DEF plannerVars
<1>4. cursor + 1 \in 1..Len(erases) /\ cursor \in 1..Len(erases) - 1
  BY <1>1, <1>2, <1>3, SMT
<1>5. erases[cursor].at = erases[cursor + 1].at + SizeOf(erases[cursor + 1])
  BY <1>2, <1>4 DEF PlannerInv, PlanTiles
<1>6. /\ erases[cursor].at \in Nat
      /\ erases[cursor + 1].at \in Nat
      /\ SizeOf(erases[cursor + 1]) \in Nat \ {0}
  BY <1>1, <1>2, <1>4, EntryFacts
<1>7. bstart + erases[cursor].at + blen <= where
  BY <1>2 DEF Walk, Block
<1>8. Block'.at = erases[cursor + 1].at /\ blen' = SizeOf(erases[cursor + 1])
  BY <1>3 DEF Block, blen, SizeOf
<1>9. where \in Nat
  BY <1>2, SizesAssumption, SMT
<1> DEFINE at == erases[cursor].at
           next == erases[cursor + 1].at
           size == SizeOf(erases[cursor + 1])
<1>10. /\ at \in Nat /\ next \in Nat /\ size \in Nat /\ at = next + size
       /\ bstart + at + blen <= where
       /\ Block'.at = next /\ blen' = size
  BY <1>5, <1>6, <1>7, <1>8
<1> HIDE DEF at, next, size
<1>11. bstart + blen + next + size <= where /\ bstart + next + size <= where
  BY <1>1, <1>9, <1>10, SMT
<1>. QED
  BY <1>3, <1>10, <1>11
-----------------------------------------------------------------------------
LEMMA InitEstablishes == Init => OpInv
<1>1. SUFFICES ASSUME Init PROVE OpInv
  OBVIOUS
<1>2. PlannerInv
  BY <1>1, PlannerInitEstablishes DEF Init
<1>3. mem \in Contents /\ image \in Contents /\ mem0 = mem /\ chip_ref \in Contents
  BY <1>1, ImagesAssumption DEF Init, Contents, Value, Erased
<1>4. TypeOK
  <2>1. PlannerTypeOK
    BY <1>2 DEF PlannerInv
  <2>2. ChipTypeOK
    BY <1>1, <1>3 DEF Init, ChipTypeOK, Contents
  <2>3. 0 \in 0..ChipSize /\ 1 \in Nat \ {0}
    BY SizesAssumption, SMT
  <2>. QED
    BY <1>1, <1>3, <2>1, <2>2, <2>3 DEF Init, TypeOK, Contents, PCs, Results, Returns
<1>5. Walk /\ Reference
  BY <1>1 DEF Init, Walk, Reference, InBlock, PlannerInit
<1>6. ConfinedToZone
  BY <1>3 DEF ConfinedToZone
<1>. QED
  BY <1>2, <1>4, <1>5, <1>6 DEF OpInv

LEMMA StutterKeeps ==
    ASSUME OpInv, UNCHANGED vars
    PROVE  OpInv'
<1>1. PlannerInv'
  BY PlannerStutterKeeps DEF OpInv, vars
<1>2. TypeOK'
  BY DEF OpInv, TypeOK, PlannerTypeOK, ChipTypeOK, vars, opVars, auxVars, plannerVars, chipVars
<1>3. Walk'
  BY DEF OpInv, Walk, InBlock, EraseRefused, Block, blen, SizeOf,
         vars, opVars, auxVars, plannerVars, chipVars
<1>4. ConfinedToZone' /\ Reference'
  BY DEF OpInv, ConfinedToZone, Zone, Accepted, Reference, Block, blen, SizeOf,
         vars, opVars, auxVars, plannerVars, chipVars
<1>. QED
  BY <1>1, <1>2, <1>3, <1>4 DEF OpInv

(***************************************************************************)
(* Opening the file, reading it and reading the chip: nothing is planned   *)
(* yet, and the zone is empty.                                             *)
(***************************************************************************)
LEMMA OpeningKeeps ==
    ASSUME OpInv, Open \/ ReadReference
    PROVE  OpInv'
<1>1. /\ TypeOK /\ PlannerInv /\ Walk /\ ConfinedToZone
      /\ ChipSize \in Nat \ {0}
      /\ mem \in Contents /\ chip_ref \in Contents
  BY SizesAssumption DEF OpInv, TypeOK, ChipTypeOK, Contents
<1>2. pc \in {"open", "reference"} /\ ppc = "idle" /\ ~Accepted
  BY <1>1 DEF Open, OpenFails, ReadFileFails, ReadFile, ReadReference, Walk, Accepted
<1>3. /\ mem' = mem /\ wip' = wip /\ wel' = wel /\ mem0' = mem0
      /\ strategy' = strategy /\ image' = image /\ cursor' = cursor /\ bstart' = bstart
  BY DEF Open, OpenFails, ReadFileFails, ReadFile, ReadReference, auxVars, chipVars
<1>4. CASE OpenFails \/ ReadFileFails
  <2>1. /\ pc' = "done" /\ ret' \in Returns
        /\ len' = len /\ chip_ref' = chip_ref /\ result' = result
        /\ UNCHANGED auxVars /\ UNCHANGED plannerVars
    BY <1>4 DEF OpenFails, ReadFileFails, Returns
  <2>2. PlannerInv'
    BY <1>1, <2>1, PlannerStutterKeeps
  <2>3. TypeOK'
    BY <1>1, <1>3, <2>1, <2>2 DEF TypeOK, ChipTypeOK, PlannerInv, PCs, auxVars
  <2>4. Walk' /\ Reference' /\ ~Accepted'
    BY <1>2, <2>1 DEF Walk, Reference, InBlock, Accepted, plannerVars
  <2>5. ConfinedToZone'
    BY <1>1, <1>2, <1>3, <2>4 DEF ConfinedToZone, Zone
  <2>. QED
    BY <2>2, <2>3, <2>4, <2>5 DEF OpInv
<1>5. CASE \E size \in 1..ChipSize + 1 : ReadFile(size)
  <2>1. PICK size \in 1..ChipSize + 1 : ReadFile(size)
    BY <1>5
  <2>2. /\ len' \in 0..ChipSize
        /\ chip_ref' = chip_ref /\ result' = result /\ ret' = ret
        /\ UNCHANGED auxVars
    BY <1>1, <2>1, SMT DEF ReadFile
  <2>3. \/ strategy = "wipe_if_changes" /\ pc' = "reference" /\ UNCHANGED plannerVars
        \/ strategy # "wipe_if_changes" /\ pc' = "plan" /\ Call(len')
    BY <2>1 DEF ReadFile
  <2>4. PlannerInv'
    BY <1>1, <2>2, <2>3, PlannerStutterKeeps, CallEstablishes
  <2>5. TypeOK'
    BY <1>1, <1>3, <2>2, <2>3, <2>4 DEF TypeOK, ChipTypeOK, PlannerInv, PCs, auxVars
  <2>6. ppc' # "idle" => end' = len'
    BY <1>1, <1>2, <2>2, <2>3, SMT DEF Call, Start, plannerVars
  <2>7. Walk' /\ Reference' /\ ~Accepted'
    BY <1>2, <1>3, <2>3, <2>6 DEF Walk, Reference, InBlock, Accepted, plannerVars
  <2>8. ConfinedToZone'
    BY <1>1, <1>2, <1>3, <2>7 DEF ConfinedToZone, Zone
  <2>. QED
    BY <2>4, <2>5, <2>7, <2>8 DEF OpInv
<1>6. CASE ReadReference
  <2>1. /\ pc' = "plan" /\ Call(len) /\ len' = len /\ result' = result /\ ret' = ret
        /\ skipped' = skipped
    BY <1>6 DEF ReadReference
  <2>2. \/ chip_ref' = mem /\ mishaps' = mishaps
        \/ /\ \E n \in 0..ChipSize - 1 : chip_ref' = EraseCells(mem, n, ChipSize)
           /\ mishaps' = mishaps \cup {"read"} /\ "read" \in MayHappen
    BY <1>6 DEF ReadReference, Happens
  <2>3. chip_ref' \in Contents
    BY <1>1, <2>2, EraseCellsEffect
  <2>4. PlannerInv'
    BY <1>1, <2>1, CallEstablishes DEF TypeOK
  <2>5. TypeOK'
    BY <1>1, <1>3, <2>1, <2>2, <2>3, <2>4 DEF TypeOK, ChipTypeOK, PlannerInv, PCs, Contents
  <2>6. end' = len'
    BY <1>1, <2>1, SMT DEF Call, Start, TypeOK
  <2>7. Walk' /\ ~Accepted'
    BY <1>2, <1>3, <2>1, <2>6 DEF Walk, InBlock, Accepted, Call
  <2>8. Reference'
    BY <1>3, <2>1, <2>2 DEF Reference
  <2>9. ConfinedToZone'
    BY <1>1, <1>2, <1>3, <2>7 DEF ConfinedToZone, Zone
  <2>. QED
    BY <2>4, <2>5, <2>7, <2>8, <2>9 DEF OpInv
<1>. QED
  BY <1>4, <1>5, <1>6 DEF Open

(***************************************************************************)
(* Planning: the zone stays empty until the plan is accepted.              *)
(***************************************************************************)
LEMMA PlanningKeeps ==
    ASSUME OpInv, Plan \/ PlanRefused \/ PlanAccepted
    PROVE  OpInv'
<1>1. /\ TypeOK /\ PlannerInv /\ Walk /\ ConfinedToZone /\ Reference
      /\ ChipSize \in Nat \ {0} /\ pc = "plan" /\ ~Accepted
      /\ \A a \in Addr : a >= 0
  BY SizesAssumption, AddrBounds, SMT
     DEF OpInv, Plan, PlanRefused, PlanAccepted, Accepted
<1>2. /\ mem' = mem /\ wip' = wip /\ wel' = wel
      /\ mem0' = mem0 /\ mishaps' = mishaps /\ skipped' = skipped
      /\ strategy' = strategy /\ image' = image /\ len' = len
      /\ chip_ref' = chip_ref /\ ret' = ret
  BY DEF Plan, PlanRefused, PlanAccepted, opVars, auxVars, chipVars
<1>3. \A a \in Addr : mem[a] = mem0[a]
  BY <1>1 DEF ConfinedToZone, Zone
<1>4. ConfinedToZone'
  BY <1>2, <1>3 DEF ConfinedToZone
<1>5. CASE Plan
  <2>1. PlannerStep /\ UNCHANGED opVars
    BY <1>5 DEF Plan
  <2>2. PlannerInv'
    BY <1>1, <2>1, PlannerStepKeeps
  <2>3. TypeOK'
    BY <1>1, <1>2, <2>1, <2>2 DEF TypeOK, ChipTypeOK, PlannerInv, opVars
  <2>4. end' = end /\ ppc # "idle"
    BY <2>1 DEF PlannerStep, FirstBlock, NextBlock, NoNextBlock, Covered
  <2>5. Walk' /\ Reference'
    BY <1>1, <1>2, <2>1, <2>4 DEF Walk, Reference, InBlock, opVars
  <2>. QED
    BY <1>4, <2>2, <2>3, <2>5 DEF OpInv
<1>6. CASE PlanRefused
  <2>1. /\ pc' = "return" /\ result' \in Results /\ cursor' = cursor /\ bstart' = bstart
        /\ UNCHANGED plannerVars
    BY <1>6 DEF PlanRefused, Results
  <2>2. PlannerInv'
    BY <1>1, <2>1, PlannerStutterKeeps
  <2>3. TypeOK'
    BY <1>1, <1>2, <2>1, <2>2 DEF TypeOK, ChipTypeOK, PlannerInv, PCs
  <2>4. Walk' /\ Reference'
    BY <1>1, <1>2, <2>1 DEF Walk, Reference, InBlock, plannerVars
  <2>. QED
    BY <1>4, <2>2, <2>3, <2>4 DEF OpInv
<1>7. CASE PlanAccepted
  <2>1. /\ pc' = "block" /\ cursor' = 1 /\ result' = result /\ ppc = "ok"
        /\ bstart' = Erasers[erases[1].eraser].start
        /\ UNCHANGED plannerVars
    BY <1>7 DEF PlanAccepted
  <2>2. PlannerInv'
    BY <1>1, <2>1, PlannerStutterKeeps
  <2>3. erases # << >> /\ Len(erases) \in Nat /\ where \in 0..ChipSize
    BY <1>1, <2>1 DEF PlannerInv, PlannerTypeOK, Stages
  <2>4. 1 \in 1..Len(erases)
    BY <1>1, <2>3, SMT DEF PlannerInv, PlannerTypeOK
  <2>5. /\ bstart' = 0
        /\ erases[1].at \in Nat /\ SizeOf(erases[1]) \in Nat \ {0}
        /\ erases[1].at + SizeOf(erases[1]) = where
    BY <1>1, <2>1, <2>3, <2>4, EntryFacts DEF PlannerInv, PlanTiles
  <2>6. TypeOK'
    BY <1>1, <1>2, <2>1, <2>2, <2>5, SMT DEF TypeOK, ChipTypeOK, PlannerInv, PCs
  <2>7. bstart' + Block'.at + blen' <= where'
    <3>1. Block'.at = erases[1].at /\ blen' = SizeOf(erases[1]) /\ where' = where
      BY <2>1 DEF Block, blen, SizeOf, plannerVars
    <3>. QED
      BY <2>3, <2>5, <3>1, SizesAssumption, SMT
  <2>8. Walk'
    BY <1>1, <1>2, <2>1, <2>7 DEF Walk, InBlock, plannerVars
  <2>9. Reference'
    BY <1>1, <1>2, <2>1 DEF Reference
  <2>. QED
    BY <1>4, <2>2, <2>6, <2>8, <2>9 DEF OpInv
<1>. QED
  BY <1>5, <1>6, <1>7

(***************************************************************************)
(* One turn of the loop over the list: nothing changes but the place.      *)
(***************************************************************************)
LEMMA LoopKeeps ==
    ASSUME OpInv, SkipBlock \/ EraseBlock \/ EndOfList
    PROVE  OpInv'
<1>1. /\ TypeOK /\ PlannerInv /\ Walk /\ ConfinedToZone /\ Reference
      /\ pc = "block" /\ ppc = "ok"
  BY DEF OpInv, SkipBlock, EraseBlock, EndOfList, Walk
<1>2. /\ mem' = mem /\ wip' = wip /\ wel' = wel
      /\ mem0' = mem0 /\ mishaps' = mishaps
      /\ strategy' = strategy /\ image' = image /\ len' = len
      /\ chip_ref' = chip_ref /\ ret' = ret /\ bstart' = bstart
      /\ UNCHANGED plannerVars
  BY DEF SkipBlock, EraseBlock, EndOfList, auxVars, chipVars
<1>3. PlannerInv'
  BY <1>1, <1>2, PlannerStutterKeeps
<1>4. pc' \notin {"open", "reference", "plan"} => ConfinedToZone'
  BY <1>1, <1>2 DEF ConfinedToZone, Zone, Accepted, plannerVars
<1>5. CASE SkipBlock
  <2>1. /\ pc' = pc /\ cursor' = cursor + 1 /\ result' = result /\ skipped' = TRUE
        /\ cursor <= Len(erases)
    BY <1>5 DEF SkipBlock
  <2>2. TypeOK'
    BY <1>1, <1>2, <1>3, <2>1, SMT DEF TypeOK, ChipTypeOK, PlannerInv
  <2>3. cursor' <= Len(erases) => bstart' + Block'.at + blen' <= where'
    BY <1>1, <1>2, <2>1, Advance
  <2>4. Walk'
    BY <1>1, <1>2, <2>1, <2>3 DEF Walk, InBlock, plannerVars
  <2>5. Reference'
    BY <1>1, <1>2, <2>1 DEF Reference
  <2>. QED
    BY <1>1, <1>3, <1>4, <2>1, <2>2, <2>4, <2>5 DEF OpInv
<1>6. CASE EraseBlock
  <2>1. /\ cursor' = cursor /\ cursor <= Len(erases) /\ skipped' = skipped
        /\ \/ pc' = "return" /\ result' \in Results
           \/ pc' = "wren" /\ result' = result /\ ~EraseRefused
    BY <1>6 DEF EraseBlock, EraseError, Results, auxVars
  <2>2. TypeOK'
    BY <1>1, <1>2, <1>3, <2>1 DEF TypeOK, ChipTypeOK, PlannerInv, PCs
  <2>3. /\ Block' = Block /\ blen' = blen
        /\ EraseRefused' = EraseRefused
    BY <1>2, <2>1 DEF EraseRefused, Block, blen, SizeOf, plannerVars
  <2>4. Walk'
    BY <1>1, <1>2, <2>1, <2>3 DEF Walk, InBlock, plannerVars
  <2>5. Reference'
    BY <1>1, <1>2, <2>1 DEF Reference
  <2>. QED
    BY <1>3, <1>4, <2>1, <2>2, <2>4, <2>5 DEF OpInv
<1>7. CASE EndOfList
  <2>1. /\ cursor' = cursor /\ skipped' = skipped /\ ~(cursor <= Len(erases))
        /\ \/ strategy = "wipe_if_changes" /\ pc' = "return" /\ result' = "zero"
           \/ strategy # "wipe_if_changes" /\ pc' = "write" /\ result' = result
    <3>1. cursor \in Nat /\ Len(erases) \in Nat
      BY <1>1 DEF TypeOK, PlannerTypeOK
    <3>. QED
      BY <1>7, <3>1, SMT DEF EndOfList, auxVars
  <2>2. TypeOK'
    BY <1>1, <1>2, <1>3, <2>1 DEF TypeOK, ChipTypeOK, PlannerInv, PCs, Results
  <2>3. Walk'
    BY <1>1, <1>2, <2>1 DEF Walk, InBlock, plannerVars
  <2>4. Reference'
    BY <1>1, <1>2, <2>1 DEF Reference
  <2>. QED
    BY <1>3, <1>4, <2>1, <2>2, <2>3, <2>4 DEF OpInv
<1>. QED
  BY <1>5, <1>6, <1>7

(***************************************************************************)
(* The erase commands.  The chip erases the aligned block that holds       *)
(* bstart, which ends at or before bstart + blen, hence inside the plan.   *)
(***************************************************************************)
LEMMA CommandsKeep ==
    ASSUME OpInv, SendWREN \/ SendWRENFails \/ SendErase \/ SendEraseFails
    PROVE  /\ OpInv'
           /\ \A a \in Addr : mem'[a] # mem[a] => a < Zone /\ mem'[a] = Erased
<1>1. /\ TypeOK /\ PlannerInv /\ Walk /\ ConfinedToZone /\ Reference
      /\ pc \in {"wren", "erase"} /\ ppc = "ok" /\ InBlock /\ cursor <= Len(erases)
      /\ ~EraseRefused
  BY DEF OpInv, SendWREN, SendWRENFails, SendErase, SendEraseFails, Walk, InBlock
<1>2. /\ mem0' = mem0 /\ strategy' = strategy /\ image' = image /\ len' = len
      /\ chip_ref' = chip_ref /\ ret' = ret /\ bstart' = bstart /\ cursor' = cursor
      /\ skipped' = skipped /\ UNCHANGED plannerVars
  BY DEF SendWREN, SendWRENFails, SendErase, SendEraseFails, auxVars
<1>3. /\ mishaps \subseteq mishaps' /\ mishaps' \subseteq MayHappen
      /\ "read" \in mishaps' => "read" \in mishaps
  BY <1>1 DEF SendWREN, SendWRENFails, SendErase, SendEraseFails, Happens, auxVars, TypeOK
<1>4. /\ Block.eraser \in Slots /\ blen \in Nat \ {0}
      /\ blen = Erasers[Block.eraser].size
      /\ bstart \in Nat /\ bstart + blen <= where /\ Zone = where /\ Accepted
  BY <1>1, BlockFacts
<1>5. where \in Nat
  BY <1>1, SizesAssumption, SMT DEF TypeOK, PlannerTypeOK
<1>6. /\ ChipTypeOK'
      /\ \A a \in Addr : mem'[a] # mem[a] => a < bstart + blen /\ mem'[a] = Erased
  <2>1. ChipTypeOK
    BY <1>1 DEF TypeOK
  <2>2. CASE UNCHANGED chipVars
    BY <2>1, <2>2 DEF chipVars, ChipTypeOK
  <2>3. CASE ReceiveWREN
    BY <2>1, <2>3 DEF ReceiveWREN, ChipTypeOK
  <2>4. CASE ReceiveErase(Block.eraser, bstart)
    <3>1. Erasers[Block.eraser].block_erase = "chip"
             => bstart = 0 /\ Erasers[Block.eraser].size = ChipSize
      BY <1>1, <1>4 DEF EraseRefused
    <3>. QED
      BY <2>1, <2>4, <3>1, <1>4, EraseEffect
  <2>. QED
    BY <2>2, <2>3, <2>4 DEF SendWREN, SendWRENFails, SendErase, SendEraseFails
<1>7. /\ pc' \in {"erase", "poll", "return"} /\ result' \in Results
      /\ pc' = "erase" => UNCHANGED chipVars \/ ReceiveWREN
  BY <1>1 DEF SendWREN, SendWRENFails, SendErase, SendEraseFails, EraseError, Results, TypeOK
<1>8. PlannerInv'
  BY <1>1, <1>2, PlannerStutterKeeps
<1>9. TypeOK'
  BY <1>1, <1>2, <1>3, <1>6, <1>7, <1>8 DEF TypeOK, PlannerInv, PCs
<1>10. Block' = Block /\ blen' = blen /\ EraseRefused' = EraseRefused /\ where' = where
  BY <1>2 DEF EraseRefused, Block, blen, SizeOf, plannerVars
<1>11. Walk'
  BY <1>1, <1>2, <1>7, <1>10 DEF Walk, InBlock, plannerVars
<1>12. \A a \in Addr : mem'[a] # mem[a] => a < Zone /\ mem'[a] = Erased
  BY <1>4, <1>5, <1>6, AddrBounds, SMT
<1>13. ConfinedToZone'
  <2>1. Zone' = Zone
    BY <1>1, <1>4, <1>7, <1>10, <1>2 DEF Zone, Accepted, plannerVars
  <2>2. Zone \in Nat
    BY <1>4, <1>5
  <2>. QED
    BY <1>1, <1>2, <1>12, <2>1, <2>2, AddrBounds, SMT DEF ConfinedToZone
<1>14. Reference'
  <2>1. pc' = "erase" => mem' = mem
    BY <1>7 DEF ReceiveWREN, chipVars
  <2>2. \A a \in Addr : a >= bstart + blen => mem'[a] = mem[a] /\ a >= bstart
    BY <1>4, <1>6, AddrBounds, SMT
  <2>. QED
    BY <1>1, <1>2, <1>3, <1>7, <1>10, <2>1, <2>2 DEF Reference
<1>. QED
  BY <1>8, <1>9, <1>11, <1>12, <1>13, <1>14 DEF OpInv

(***************************************************************************)
(* The end of the wait for WIP.                                            *)
(***************************************************************************)
LEMMA PollingKeeps ==
    ASSUME OpInv, PollWIP \/ PollWIPFails
    PROVE  OpInv'
<1>1. /\ TypeOK /\ PlannerInv /\ Walk /\ ConfinedToZone /\ Reference
      /\ pc = "poll" /\ ppc = "ok" /\ InBlock /\ cursor <= Len(erases)
  BY DEF OpInv, PollWIP, PollWIPFails, Walk, InBlock
<1>2. /\ mem' = mem /\ wip' = wip /\ wel' = wel /\ mem0' = mem0 /\ skipped' = skipped
      /\ strategy' = strategy /\ image' = image /\ len' = len
      /\ result' = result /\ ret' = ret /\ UNCHANGED plannerVars
      /\ BlockErased
  BY DEF PollWIP, PollWIPFails, BlockErased, auxVars, chipVars
<1>3. /\ mishaps \subseteq mishaps' /\ mishaps' \subseteq MayHappen
      /\ "read" \in mishaps' => "read" \in mishaps
  BY <1>1 DEF PollWIP, PollWIPFails, Happens, auxVars, TypeOK
<1>4. /\ blen \in Nat \ {0} /\ bstart \in Nat /\ bstart + blen \in 0..ChipSize
      /\ cursor \in 1..Len(erases)
  BY <1>1, BlockFacts
<1>5. PlannerInv'
  BY <1>1, <1>2, PlannerStutterKeeps
<1>6. pc' \in {"write", "block"}
  BY <1>2 DEF BlockErased
<1>7. ConfinedToZone'
  BY <1>1, <1>2, <1>6 DEF ConfinedToZone, Zone, Accepted, plannerVars
<1>8. CASE strategy = "wipe_if_changes"
  <2>1. /\ chip_ref' = [a \in Addr |->
                          IF bstart <= a /\ a < bstart + blen - copy_skip_last
                          THEN buf[a] ELSE chip_ref[a]]
        /\ pc' = "write" /\ cursor' = cursor /\ bstart' = bstart
    BY <1>2, <1>8 DEF BlockErased
  <2>2. \A a \in Addr : buf[a] \in Value
    BY <1>1 DEF buf, TypeOK, Value, Erased
  <2>3. chip_ref' \in [Addr -> Value]
    BY <1>1, <2>1, <2>2 DEF TypeOK
  <2>4. TypeOK'
    BY <1>1, <1>2, <1>3, <1>5, <2>1, <2>3 DEF TypeOK, ChipTypeOK, PlannerInv, PCs
  <2>5. Block' = Block /\ blen' = blen /\ where' = where
    BY <1>2, <2>1 DEF Block, blen, SizeOf, plannerVars
  <2>6. Walk'
    BY <1>1, <1>2, <2>1, <2>5 DEF Walk, InBlock, plannerVars
  <2>7. copy_skip_last \in Nat
    BY <1>1, <1>4, SizesAssumption, SMT DEF copy_skip_last, TypeOK
  <2>8. \A a \in Addr : a >= bstart + blen => chip_ref'[a] = chip_ref[a]
    <3>1. \A a \in Addr : a >= bstart + blen => ~(a < bstart + blen - copy_skip_last)
      BY <1>4, <2>7, AddrBounds, SMT
    <3>. QED
      BY <2>1, <3>1
  <2>9. Reference'
    BY <1>1, <1>2, <1>3, <2>1, <2>5, <2>8 DEF Reference
  <2>. QED
    BY <1>5, <1>7, <2>4, <2>6, <2>9 DEF OpInv
<1>9. CASE strategy # "wipe_if_changes"
  <2>1. /\ pc' = "block" /\ cursor' = cursor + 1 /\ bstart' = bstart + blen
        /\ chip_ref' = chip_ref
    BY <1>2, <1>9 DEF BlockErased
  <2>2. cursor' \in Nat \ {0}
    BY <1>1, <2>1, SMT DEF TypeOK
  <2>3. TypeOK'
    BY <1>1, <1>2, <1>3, <1>4, <1>5, <2>1, <2>2 DEF TypeOK, ChipTypeOK, PlannerInv, PCs
  <2>4. cursor' <= Len(erases) => bstart' + Block'.at + blen' <= where'
    BY <1>1, <1>2, <2>1, Advance
  <2>5. Walk'
    BY <1>1, <1>2, <2>1, <2>4 DEF Walk, InBlock, plannerVars
  <2>6. Reference'
    BY <1>2, <1>9 DEF Reference
  <2>. QED
    BY <1>5, <1>7, <2>3, <2>5, <2>6 DEF OpInv
<1>. QED
  BY <1>8, <1>9

(***************************************************************************)
(* The writes: of the whole image, which the plan covers, or of a block.   *)
(***************************************************************************)
LEMMA WritesKeep ==
    ASSUME OpInv, WriteAll \/ WriteBlock
    PROVE  /\ OpInv'
           /\ Accepted
           /\ \A a \in Addr : mem'[a] # mem[a] => a < Zone /\ mem'[a] \subseteq mem[a]
<1>1. /\ TypeOK /\ PlannerInv /\ Walk /\ ConfinedToZone /\ Reference
      /\ pc = "write" /\ ppc = "ok" /\ Accepted /\ Zone = where
  BY DEF OpInv, WriteAll, WriteBlock, Walk, Accepted, Zone
<1>2. /\ mem0' = mem0 /\ strategy' = strategy /\ image' = image /\ len' = len
      /\ chip_ref' = chip_ref /\ ret' = ret /\ skipped' = skipped
      /\ UNCHANGED plannerVars
  BY DEF WriteAll, WriteBlock
<1>3. where \in Nat /\ ChipTypeOK /\ mishaps \subseteq MayHappen
  BY <1>1, SizesAssumption, SMT DEF TypeOK, PlannerTypeOK
<1>4. PlannerInv' /\ where' = where /\ ppc' = ppc /\ erases' = erases
  BY <1>1, <1>2, PlannerStutterKeeps DEF plannerVars
<1>5. ASSUME pc' \in {"block", "return"},
             \A a \in Addr : mem'[a] # mem[a] => a < Zone
      PROVE  ConfinedToZone'
  <2>1. Zone' = Zone /\ Zone \in Nat
    BY <1>1, <1>3, <1>4, <1>5 DEF Zone, Accepted
  <2>2. \A a \in Addr : a >= Zone => ~(a < Zone)
    BY <2>1, AddrBounds, SMT
  <2>. QED
    BY <1>1, <1>2, <1>5, <2>1, <2>2 DEF ConfinedToZone
<1>6. CASE WriteAll
  <2>1. PICK outcome \in {"full", "short", "negative"} :
           ChipWrite(buf, Start, len, outcome) /\ result' = outcome
    BY <1>6 DEF WriteAll
  <2>2. /\ pc' = "return" /\ cursor' = cursor /\ bstart' = bstart
        /\ strategy = "wipe_by_biggest_erases"
    BY <1>6 DEF WriteAll
  <2>3. buf \in Contents /\ len \in Nat /\ len <= where /\ Start \in Nat
    <3>1. buf \in Contents
      BY <1>1 DEF buf, TypeOK, Value, Erased, Contents
    <3>2. len \in Nat
      BY <1>1, SizesAssumption, SMT DEF TypeOK
    <3>3. end = len /\ where >= end
      BY <1>1 DEF Walk, PlannerInv, Stages
    <3>. QED
      BY <1>3, <3>1, <3>2, <3>3, SMT DEF Start
  <2>4. /\ ChipTypeOK'
        /\ mishaps' \subseteq MayHappen
        /\ \A a \in Addr : mem'[a] # mem[a] => a < Start + len /\ mem'[a] \subseteq mem[a]
    BY <1>3, <2>1, <2>3, WriteEffect
  <2>5. \A a \in Addr : mem'[a] # mem[a] => a < Zone /\ mem'[a] \subseteq mem[a]
    <3>1. \A a \in Addr : a < Start + len => a < where
      BY <1>3, <2>3, AddrBounds, SMT DEF Start
    <3>. QED
      BY <1>1, <2>4, <3>1
  <2>6. TypeOK'
    BY <1>1, <1>2, <1>4, <2>1, <2>2, <2>4 DEF TypeOK, PlannerInv, PCs, Results
  <2>7. Walk' /\ Reference'
    BY <1>1, <1>2, <2>2 DEF Walk, Reference, InBlock, plannerVars
  <2>. QED
    BY <1>1, <1>4, <1>5, <2>2, <2>5, <2>6, <2>7 DEF OpInv
<1>7. CASE WriteBlock
  <2>1. PICK outcome \in {"full", "short", "negative"} :
           /\ ChipWrite(chip_ref, bstart, blen, outcome)
           /\ \/ /\ pc' = "return" /\ result' = "zero"
                 /\ cursor' = cursor /\ bstart' = bstart
              \/ /\ pc' = "block" /\ result' = result
                 /\ cursor' = cursor + 1 /\ bstart' = bstart + blen
    BY <1>7 DEF WriteBlock
  <2>2. strategy = "wipe_if_changes" /\ InBlock /\ cursor <= Len(erases)
    BY <1>1, <1>7 DEF WriteBlock, InBlock, Walk
  <2>3. /\ blen \in Nat \ {0} /\ bstart \in Nat
        /\ bstart + blen \in 0..ChipSize /\ bstart + blen <= where
    BY <2>2, BlockFacts
  <2>4. /\ ChipTypeOK'
        /\ mishaps \subseteq mishaps' /\ mishaps' \subseteq MayHappen
        /\ "read" \in mishaps' => "read" \in mishaps
        /\ \A a \in Addr : mem'[a] # mem[a]
             => a < bstart + blen /\ mem'[a] \subseteq mem[a]
    BY <1>1, <1>3, <2>1, <2>3, WriteEffect DEF TypeOK, Contents
  <2>5. \A a \in Addr : mem'[a] # mem[a] => a < Zone /\ mem'[a] \subseteq mem[a]
    <3>1. \A a \in Addr : a < bstart + blen => a < where
      BY <1>3, <2>3, AddrBounds, SMT
    <3>. QED
      BY <1>1, <2>4, <3>1
  <2>6. cursor' \in Nat \ {0} /\ bstart' \in 0..ChipSize
    BY <1>1, <2>1, <2>3, SMT DEF TypeOK
  <2>7. TypeOK'
    BY <1>1, <1>2, <1>4, <2>1, <2>4, <2>6 DEF TypeOK, PlannerInv, PCs, Results
  <2>8. pc' = "block" /\ cursor' <= Len(erases) => bstart' + Block'.at + blen' <= where'
    BY <1>1, <1>2, <2>1, <2>2, Advance
  <2>9. Walk'
    BY <1>1, <1>2, <2>1, <2>8 DEF Walk, InBlock, plannerVars
  <2>10. \A a \in Addr : a >= bstart + blen => mem'[a] = mem[a]
    BY <2>3, <2>4, AddrBounds, SMT
  <2>11. Reference'
    BY <1>1, <1>2, <2>1, <2>4, <2>10 DEF Reference
  <2>. QED
    BY <1>1, <1>4, <1>5, <2>1, <2>5, <2>7, <2>9, <2>11 DEF OpInv
<1>. QED
  BY <1>6, <1>7

LEMMA ReturnKeeps ==
    ASSUME OpInv, Return \/ ChipStep
    PROVE  OpInv'
<1>1. /\ TypeOK /\ PlannerInv /\ Walk /\ ConfinedToZone /\ Reference
  BY DEF OpInv
<1>2. /\ mem' = mem /\ UNCHANGED auxVars /\ UNCHANGED plannerVars
      /\ strategy' = strategy /\ image' = image /\ len' = len
      /\ chip_ref' = chip_ref /\ cursor' = cursor /\ bstart' = bstart /\ result' = result
      /\ ChipTypeOK'
  BY <1>1 DEF Return, ChipStep, ChipReady, opVars, chipVars, TypeOK, ChipTypeOK
<1>3. PlannerInv'
  BY <1>1, <1>2, PlannerStutterKeeps
<1>4. CASE Return
  <2>1. pc = "return" /\ pc' = "done" /\ ret' \in Returns
    BY <1>4 DEF Return, Returns
  <2>2. TypeOK'
    BY <1>1, <1>2, <1>3, <2>1 DEF TypeOK, PlannerInv, PCs, auxVars
  <2>3. Walk' /\ Reference'
    BY <1>1, <1>2, <2>1 DEF Walk, Reference, InBlock, plannerVars
  <2>4. ConfinedToZone'
    BY <1>1, <1>2, <2>1 DEF ConfinedToZone, Zone, Accepted, plannerVars, auxVars
  <2>. QED
    BY <1>3, <2>2, <2>3, <2>4 DEF OpInv
<1>5. CASE ChipStep
  <2>1. pc' = pc /\ ret' = ret
    BY <1>5 DEF ChipStep, opVars
  <2>2. TypeOK'
    BY <1>1, <1>2, <1>3, <2>1 DEF TypeOK, PlannerInv, auxVars
  <2>3. Block' = Block /\ blen' = blen
    BY <1>2 DEF Block, blen, SizeOf, plannerVars
  <2>4. Walk' /\ Reference'
    BY <1>1, <1>2, <2>1, <2>3
       DEF Walk, Reference, InBlock, EraseRefused, plannerVars, auxVars
  <2>5. ConfinedToZone'
    BY <1>1, <1>2, <2>1 DEF ConfinedToZone, Zone, Accepted, plannerVars, auxVars
  <2>. QED
    BY <1>3, <2>2, <2>4, <2>5 DEF OpInv
<1>. QED
  BY <1>4, <1>5
-----------------------------------------------------------------------------
LEMMA OpInvariant == Spec => []OpInv
<1>1. OpInv /\ [Next]_vars => OpInv'
  BY OpeningKeeps, PlanningKeeps, LoopKeeps, CommandsKeep, PollingKeeps, WritesKeep,
     ReturnKeeps, StutterKeeps
     DEF Next, Step, Erasing
<1>. QED
  BY InitEstablishes, <1>1, PTL DEF Spec

(***************************************************************************)
(* Every variable keeps its type; bstart never leaves the chip.            *)
(***************************************************************************)
THEOREM TypeCorrect == Spec => []TypeOK
  BY OpInvariant, PTL DEF OpInv

(***************************************************************************)
(* No cell outside the planned zone changes, for every chip, every image,  *)
(* both strategies and all mishaps.                                        *)
(***************************************************************************)
THEOREM Confined == Spec => []ConfinedToZone
  BY OpInvariant, PTL DEF OpInv

(***************************************************************************)
(* Blocks are compared with what the chip holds.                           *)
(***************************************************************************)
THEOREM ComparesWithChip == Spec => []ReferenceIsCurrent
<1>1. OpInv => ReferenceIsCurrent
  BY DEF OpInv, Reference, ReferenceIsCurrent
<1>. QED
  BY OpInvariant, <1>1, PTL

(***************************************************************************)
(* The copy into chip_ref.  A plan that ends behind the image consists of  *)
(* one block (NoOverErase), at which the walk cannot have advanced yet.    *)
(***************************************************************************)
THEOREM CopiesWithinBlock == Spec => []CopyWithinBlock
<1>1. ASSUME OpInv, pc = "poll"
      PROVE  /\ copy_skip_last \in 0..blen
             /\ bstart + blen - copy_skip_last <= len
             /\ bstart + blen <= ChipSize
  <2>1. /\ InBlock /\ cursor <= Len(erases) /\ end = len /\ ppc = "ok"
        /\ len \in Nat /\ where \in Nat /\ ChipSize \in Nat
        /\ PlanTiles /\ NoOverErase
    BY <1>1, SizesAssumption, SMT
       DEF OpInv, Walk, InBlock, TypeOK, PlannerTypeOK, PlannerInv
  <2>2. /\ cursor \in 1..Len(erases)
        /\ blen \in Nat \ {0} /\ bstart \in Nat
        /\ bstart + blen \in 0..ChipSize /\ bstart + blen <= where
    BY <1>1, <2>1, BlockFacts
  <2>3. bstart <= len
    <3>1. CASE where <= end
      BY <2>1, <2>2, <3>1, SMT
    <3>2. CASE ~(where <= end)
      <4>1. Len(erases) = 1
        BY <2>1, <3>2, SMT DEF NoOverErase
      <4>2. cursor = 1 /\ erases # << >>
        BY <2>2, <4>1, SMT
      <4>3. erases[1].at + SizeOf(erases[1]) = where /\ erases[1].at = 0
        BY <2>1, <4>1, <4>2 DEF PlanTiles
      <4>4. blen = where
        BY <2>1, <2>2, <4>2, <4>3, SMT DEF blen, Block
      <4>. QED
        BY <2>1, <2>2, <4>4, SMT
    <3>. QED
      BY <3>1, <3>2
  <2>. QED
    BY <2>1, <2>2, <2>3, SMT DEF copy_skip_last
<1>2. OpInv => CopyWithinBlock
  BY <1>1 DEF CopyWithinBlock
<1>. QED
  BY OpInvariant, <1>2, PTL
(***************************************************************************)
(* Between two commands the chip is idle, and latched before an erase.     *)
(* Only the wait for WIP, and a program that ends at an error, can leave   *)
(* it busy.                                                                *)
(***************************************************************************)
IdleBetweenCommands ==
    mishaps \cap {"rdsr", "busy"} = {} =>
        /\ pc \notin {"poll", "return", "done"} => ~wip
        /\ pc = "erase" => wel

LEMMA IdleStepKeeps ==
    ASSUME IdleBetweenCommands, [Next]_vars
    PROVE  IdleBetweenCommands'
<1>1. ASSUME NEW data, NEW first, NEW n, NEW outcome, ChipWrite(data, first, n, outcome),
             pc = "write"
      PROVE  mishaps' \cap {"rdsr", "busy"} = {} => ~wip'
  <2>1. mishaps \subseteq mishaps'
    BY <1>1 DEF ChipWrite, Happens
  <2>2. CASE ~wip /\ "busy" \notin mishaps'
    BY <1>1, <2>2 DEF ChipWrite, Program, chipVars
  <2>. QED
    BY <1>1, <2>1, <2>2 DEF IdleBetweenCommands
<1>2. CASE Open \/ ReadReference \/ Plan \/ PlanRefused \/ PlanAccepted
  BY <1>2 DEF IdleBetweenCommands, Open, OpenFails, ReadFileFails, ReadFile, ReadReference, Plan,
              PlanRefused, PlanAccepted, opVars, auxVars, chipVars, Happens
<1>3. CASE SkipBlock \/ EraseBlock \/ EndOfList
  BY <1>3 DEF IdleBetweenCommands, SkipBlock, EraseBlock, EndOfList, EraseError,
              opVars, auxVars, chipVars
<1>4. CASE SendWREN \/ SendWRENFails
  BY <1>4 DEF IdleBetweenCommands, SendWREN, SendWRENFails, ReceiveWREN, EraseError, Happens,
              opVars, auxVars, chipVars
<1>5. CASE SendErase \/ SendEraseFails
  BY <1>5 DEF IdleBetweenCommands, SendErase, SendEraseFails, EraseError
<1>6. CASE PollWIP \/ PollWIPFails
  BY <1>6 DEF IdleBetweenCommands, PollWIP, PollWIPFails, BlockErased, Happens, auxVars, chipVars
<1>7. CASE WriteAll
  BY <1>7 DEF IdleBetweenCommands, WriteAll
<1>8. CASE WriteBlock
  BY <1>1, <1>8 DEF IdleBetweenCommands, WriteBlock
<1>9. CASE Return
  BY <1>9 DEF IdleBetweenCommands, Return
<1>10. CASE ChipStep
  BY <1>10 DEF IdleBetweenCommands, ChipStep, ChipReady, opVars, auxVars
<1>11. CASE UNCHANGED vars
  BY <1>11 DEF IdleBetweenCommands, vars, opVars, auxVars, chipVars
<1>. QED
  BY <1>2, <1>3, <1>4, <1>5, <1>6, <1>7, <1>8, <1>9, <1>10, <1>11 DEF Next, Step, Erasing

(***************************************************************************)
(* Unless a status read failed or the programmer came back too early,      *)
(* every command finds the chip idle, and an erase the latch set.          *)
(***************************************************************************)
THEOREM FindsChipIdle == Spec => []CommandsFindChipIdle
<1>1. Init => IdleBetweenCommands
  BY DEF Init, IdleBetweenCommands
<1>2. IdleBetweenCommands => CommandsFindChipIdle
  BY DEF IdleBetweenCommands, CommandsFindChipIdle
<1>. QED
  BY <1>1, <1>2, IdleStepKeeps, PTL DEF Spec
-----------------------------------------------------------------------------
(***************************************************************************)
(* What a write leaves in the chip when nothing goes wrong and all planned *)
(* blocks have one size.  Then bstart stays aligned, so that the chip      *)
(* erases the block that is meant, although the list is reversed; unless a *)
(* block was skipped, the walk is where the plan says, counted from the    *)
(* other end; and it never breaks off.                                     *)
(***************************************************************************)
LoopEnded == pc \in {"return", "done"} \/ (pc = "write" /\ strategy = "wipe_by_biggest_erases")

Placed ==
    /\ cursor <= Len(erases) => bstart % blen = 0
    /\ cursor <= Len(erases) /\ ~skipped => bstart + Block.at + blen = where
    /\ ~(cursor <= Len(erases)) /\ ~skipped => bstart = where
    /\ LoopEnded => ~(cursor <= Len(erases))

ErasedUpTo(n) == \A a \in Addr : mem[a] = IF a < n THEN Erased ELSE mem0[a]

BiggestErases ==
    /\ ~skipped
    /\ pc \in {"block", "wren", "erase", "write"} => ErasedUpTo(bstart)
    /\ pc = "poll" => ErasedUpTo(bstart + blen)
    /\ pc \in {"return", "done"} => \A a \in Addr : mem[a] = AfterBiggestErases(a)

Written(m, n) == \A a \in Addr : m[a] = AfterIfChanges(a, n)
BlockCleared ==
    \A a \in Addr : mem[a] = IF bstart <= a /\ a < bstart + blen THEN Erased
                             ELSE AfterIfChanges(a, bstart)

IfChanges ==
    /\ pc \in {"block", "wren", "erase", "return", "done"} => Written(mem, bstart)
    /\ pc \in {"block", "wren", "erase", "poll"} => Written(chip_ref, bstart)
    /\ pc \in {"poll", "write"} => BlockCleared
    /\ pc = "write" => Written(chip_ref, bstart + blen)

Exact ==
    /\ Placed
    /\ strategy = "wipe_by_biggest_erases" => BiggestErases
    /\ strategy = "wipe_if_changes" => IfChanges

ExactInv ==
    /\ ~Accepted => ~skipped
    /\ mishaps = {} /\ Accepted /\ Uniform => Exact

(***************************************************************************)
(* A block consists of whole pages; a chip-wide eraser is only under the   *)
(* cursor at address 0, so none is ever refused.                           *)
(***************************************************************************)
LEMMA BlockShape ==
    ASSUME OpInv, pc = "block" \/ InBlock, cursor <= Len(erases)
    PROVE  /\ blen % PageSize = 0
           /\ Erasers[Block.eraser].block_erase = "chip" => bstart = 0 /\ blen = ChipSize
           /\ ~EraseRefused
<1>1. /\ Block.eraser \in Slots /\ blen \in Nat \ {0} /\ blen = Erasers[Block.eraser].size
      /\ bstart \in Nat /\ bstart + blen \in 0..ChipSize
  BY BlockFacts
<1> DEFINE e == Erasers[Block.eraser]
<1>2. e \in EraserRecord /\ WellFormedEraser(e)
  BY <1>1, ErasersAssumption DEF Slots
<1>3. /\ e.size % PageSize = 0
      /\ e.size * e.count = ChipSize
      /\ e.block_erase = "chip" => e.count = 1
  BY <1>1, <1>2 DEF WellFormedEraser
<1>4. ASSUME e.block_erase = "chip"
      PROVE  bstart = 0 /\ blen = ChipSize
  <2>1. blen * 1 = ChipSize
    BY <1>1, <1>3, <1>4
  <2>. QED
    BY <1>1, <2>1, SizesAssumption, SMT
<1>. QED
  BY <1>1, <1>3, <1>4 DEF EraseRefused

LEMMA PlacedAdvances ==
    ASSUME OpInv, Placed, Uniform, pc = "block" \/ InBlock, cursor <= Len(erases),
           UNCHANGED plannerVars, cursor' = cursor + 1,
           \/ bstart' = bstart + blen /\ skipped' = skipped
           \/ bstart' = bstart /\ skipped',
           ~LoopEnded'
    PROVE  Placed'
<1>1. /\ cursor \in 1..Len(erases) /\ bstart \in Nat /\ blen \in Nat \ {0}
  BY BlockFacts
<1>2. /\ PlannerInv /\ Len(erases) \in Nat /\ erases # << >>
      /\ erases' = erases /\ where' = where
  BY <1>1, SMT DEF OpInv, TypeOK, PlannerTypeOK, plannerVars
<1>3. CASE cursor + 1 <= Len(erases)
  <2>1. cursor + 1 \in 1..Len(erases) /\ cursor \in 1..Len(erases) - 1
    BY <1>1, <1>2, <1>3, SMT
  <2>2. erases[cursor].at = erases[cursor + 1].at + SizeOf(erases[cursor + 1])
    BY <1>2, <2>1 DEF PlannerInv, PlanTiles
  <2>3. /\ Block' = erases[cursor + 1] /\ blen' = SizeOf(erases[cursor + 1])
    BY <1>2 DEF Block, blen, SizeOf
  <2>4. blen' = blen
    BY <1>1, <2>1, <2>3 DEF Uniform, blen, Block
  <2>5. bstart' % blen = 0
    <3>1. bstart % blen = 0 /\ blen % blen = 0
      BY <1>1, SMT DEF Placed
    <3>2. (bstart + blen) % blen = 0
      BY <1>1, <3>1, SumOfMultiples
    <3>3. bstart' = bstart + blen \/ bstart' = bstart
      OBVIOUS
    <3>. QED
      BY <3>1, <3>2, <3>3
  <2>6. /\ erases[cursor + 1].at \in Nat
        /\ Block.at = Block'.at + blen'
    BY <1>2, <2>1, <2>2, <2>3, EntryFacts DEF Block
  <2>7. ~skipped' => bstart' + Block'.at + blen' = where'
    <3>1. SUFFICES ASSUME ~skipped'
                   PROVE  bstart' + Block'.at + blen' = where'
      OBVIOUS
    <3> DEFINE at == Block'.at
    <3>2. bstart' = bstart + blen /\ bstart + (at + blen) + blen = where /\ at \in Nat
      BY <2>3, <2>4, <2>6, <3>1 DEF Placed
    <3> HIDE DEF at
    <3>3. bstart + blen + at + blen = where
      BY <1>1, <3>2, SMT
    <3>. QED
      BY <1>2, <2>4, <3>2, <3>3 DEF at
  <2>. QED
    BY <1>2, <1>3, <2>4, <2>5, <2>7 DEF Placed
<1>4. CASE ~(cursor + 1 <= Len(erases))
  <2>1. cursor = Len(erases)
    BY <1>1, <1>2, <1>4, SMT
  <2>2. Block.at = 0
    BY <1>2, <2>1 DEF PlannerInv, PlanTiles, Block
  <2>3. ~skipped' => bstart' = where'
    BY <1>1, <1>2, <2>2, SMT DEF Placed
  <2>. QED
    BY <1>2, <1>4, <2>3 DEF Placed
<1>. QED
  BY <1>3, <1>4

(***************************************************************************)
(* The start: the chip is as it was, and the walk at its first block.      *)
(***************************************************************************)
LEMMA ExactBegins ==
    ASSUME OpInv, OpInv', ExactInv, PlanAccepted
    PROVE  ExactInv'
<1>1. /\ pc = "plan" /\ pc' = "block" /\ ppc = "ok" /\ cursor' = 1
      /\ bstart' = Erasers[erases[1].eraser].start
      /\ mem' = mem /\ mem0' = mem0 /\ chip_ref' = chip_ref /\ mishaps' = mishaps
      /\ skipped' = skipped /\ strategy' = strategy /\ erases' = erases /\ where' = where
      /\ len' = len /\ image' = image
  BY DEF PlanAccepted, auxVars, chipVars, plannerVars
<1>2. ~Accepted /\ ~skipped /\ Accepted'
  BY <1>1 DEF Accepted, ExactInv, plannerVars, PlanAccepted
<1>3. PlannerInv /\ erases # << >> /\ Len(erases) \in Nat /\ 1 \in 1..Len(erases)
  <2>1. PlannerInv /\ erases # << >> /\ Len(erases) \in Nat
    BY <1>1 DEF OpInv, PlannerInv, Stages, PlannerTypeOK
  <2>2. Len(erases) # 0
    BY <2>1 DEF PlannerInv, PlannerTypeOK
  <2>. QED
    BY <2>1, <2>2, SMT
<1>4. /\ bstart' = 0
      /\ erases[1].at \in Nat /\ SizeOf(erases[1]) \in Nat \ {0}
      /\ erases[1].at + SizeOf(erases[1]) = where
  BY <1>1, <1>3, EntryFacts DEF PlannerInv, PlanTiles
<1>5. \A a \in Addr : mem'[a] = mem0'[a] /\ ~(a < bstart')
  <2>1. \A a \in Addr : a >= 0 /\ ~(a < 0)
    BY AddrBounds, SMT
  <2>. QED
    BY <1>1, <1>2, <1>4, <2>1 DEF OpInv, ConfinedToZone, Zone
<1>6. Placed'
  <2>1. Block' = erases[1] /\ blen' = SizeOf(erases[1])
    BY <1>1 DEF Block, blen, SizeOf
  <2>2. 1 <= Len(erases)
    BY <1>3, SMT
  <2>3. 0 % SizeOf(erases[1]) = 0
    BY <1>4, SMT
  <2>4. ~LoopEnded'
    BY <1>1 DEF LoopEnded
  <2>5. bstart' + Block'.at + blen' = where'
    <3>1. \A x, y \in Nat : 0 + x + y = x + y
      BY SMT
    <3>. QED
      BY <1>1, <1>4, <2>1, <3>1
  <2>. QED
    BY <1>1, <1>4, <2>1, <2>2, <2>3, <2>4, <2>5 DEF Placed
<1>7. strategy' = "wipe_by_biggest_erases" => BiggestErases'
  BY <1>1, <1>2, <1>5 DEF BiggestErases, ErasedUpTo
<1>8. ASSUME strategy' = "wipe_if_changes", mishaps' = {}
      PROVE  IfChanges'
  <2>1. Written(mem, bstart)'
    BY <1>5 DEF Written, AfterIfChanges
  <2>2. chip_ref' = mem'
    BY <1>1, <1>8 DEF OpInv, Reference
  <2>3. Written(chip_ref, bstart)'
    BY <2>1, <2>2 DEF Written, AfterIfChanges
  <2>. QED
    BY <1>1, <2>1, <2>3 DEF IfChanges
<1>. QED
  BY <1>2, <1>6, <1>7, <1>8 DEF ExactInv, Exact

(***************************************************************************)
(* A turn of the loop: nothing changes but the place.                      *)
(***************************************************************************)
LEMMA ExactTurns ==
    ASSUME OpInv, Exact, Uniform, Accepted, SkipBlock \/ EraseBlock \/ EndOfList
    PROVE  Exact'
<1>1. /\ pc = "block" /\ bstart' = bstart
      /\ mem' = mem /\ mem0' = mem0 /\ chip_ref' = chip_ref
      /\ strategy' = strategy /\ len' = len /\ image' = image
      /\ UNCHANGED plannerVars /\ erases' = erases /\ where' = where
      /\ strategy \in Strategies
  BY DEF SkipBlock, EraseBlock, EndOfList, auxVars, chipVars, plannerVars, OpInv, TypeOK
<1>2. Placed
  BY DEF Exact
<1>3. CASE SkipBlock
  <2>1. /\ pc' = "block" /\ cursor' = cursor + 1 /\ skipped' /\ cursor <= Len(erases)
        /\ strategy = "wipe_if_changes"
    BY <1>3 DEF SkipBlock, skip_it
  <2>2. Placed'
    BY <1>1, <1>2, <2>1, PlacedAdvances DEF LoopEnded
  <2>3. IfChanges'
    BY <1>1, <2>1 DEF Exact, IfChanges, Written, AfterIfChanges
  <2>. QED
    BY <1>1, <2>1, <2>2, <2>3 DEF Exact
<1>4. CASE EraseBlock
  <2>1. /\ pc' = "wren" /\ cursor' = cursor /\ skipped' = skipped
    BY <1>1, <1>4, BlockShape DEF EraseBlock, auxVars
  <2>2. Placed'
    BY <1>1, <1>2, <2>1 DEF Placed, LoopEnded, Block, blen, SizeOf
  <2>. QED
    BY <1>1, <2>1, <2>2
       DEF Exact, BiggestErases, IfChanges, ErasedUpTo, Written, AfterIfChanges
<1>5. CASE EndOfList
  <2>1. /\ cursor' = cursor /\ skipped' = skipped /\ ~(cursor <= Len(erases))
        /\ pc' = IF strategy = "wipe_if_changes" THEN "return" ELSE "write"
    <3>1. cursor \in Nat /\ Len(erases) \in Nat
      BY DEF OpInv, TypeOK, PlannerTypeOK
    <3>. QED
      BY <1>5, <3>1, SMT DEF EndOfList, auxVars
  <2>2. Placed'
    BY <1>1, <1>2, <2>1 DEF Placed, LoopEnded, Block, blen, SizeOf
  <2>3. CASE strategy = "wipe_if_changes"
    BY <1>1, <2>1, <2>2, <2>3 DEF Exact, IfChanges, Written, AfterIfChanges
  <2>4. CASE strategy = "wipe_by_biggest_erases"
    BY <1>1, <2>1, <2>2, <2>4 DEF Exact, BiggestErases, ErasedUpTo
  <2>. QED
    BY <1>1, <2>3, <2>4 DEF Strategies
<1>. QED
  BY <1>3, <1>4, <1>5

(***************************************************************************)
(* The erase: the chip is idle and latched, and the block that holds       *)
(* bstart begins there.                                                    *)
(***************************************************************************)
LEMMA ExactErases ==
    ASSUME OpInv, IdleBetweenCommands, Exact, Uniform, mishaps = {}, Accepted,
           SendWREN \/ SendErase
    PROVE  Exact'
<1>1. /\ pc \in {"wren", "erase"} /\ InBlock /\ bstart' = bstart /\ cursor' = cursor
      /\ mem0' = mem0 /\ chip_ref' = chip_ref /\ skipped' = skipped
      /\ strategy' = strategy /\ len' = len /\ image' = image
      /\ UNCHANGED plannerVars /\ erases' = erases /\ where' = where
      /\ strategy \in Strategies /\ ppc' = ppc
  BY DEF SendWREN, SendErase, auxVars, plannerVars, OpInv, TypeOK, InBlock
<1>2. Placed /\ cursor <= Len(erases)
  BY <1>1 DEF Exact, OpInv, Walk
<1>3. pc' \in {"erase", "poll"}
  BY DEF SendWREN, SendErase
<1>4. Block' = Block /\ blen' = blen
  BY <1>1 DEF Block, blen, SizeOf
<1>5. Placed'
  BY <1>1, <1>2, <1>3, <1>4 DEF Placed, LoopEnded
<1>6. CASE SendWREN
  <2>1. pc = "wren" /\ pc' = "erase" /\ mem' = mem
    BY <1>6 DEF SendWREN, ReceiveWREN
  <2>. QED
    BY <1>1, <1>5, <2>1
       DEF Exact, BiggestErases, IfChanges, ErasedUpTo, Written, AfterIfChanges
<1>7. CASE SendErase
  <2>1. pc = "erase" /\ pc' = "poll" /\ ReceiveErase(Block.eraser, bstart)
    BY <1>7 DEF SendErase
  <2>2. ~wip /\ wel
    BY <2>1 DEF IdleBetweenCommands
  <2>3. /\ blen \in Nat \ {0} /\ blen = Erasers[Block.eraser].size
        /\ bstart \in Nat /\ bstart % blen = 0
    BY <1>1, <1>2, BlockFacts DEF Placed
  <2>4. AlignedDown(Block.eraser, bstart) = bstart
    <3>1. (bstart \div blen) * blen = bstart
      BY <2>3, SMT
    <3>. QED
      BY <2>3, <3>1 DEF AlignedDown
  <2>5. Erasers[Block.eraser].block_erase = "chip" => bstart = 0 /\ blen = ChipSize
    BY <1>1, <1>2, BlockShape
  <2>6. mem' = EraseCells(mem, bstart, bstart + blen)
    <3>1. CASE Erasers[Block.eraser].block_erase = "chip"
      <4>1. mem' = EraseCells(mem, 0, ChipSize)
        BY <2>1, <2>2, <3>1 DEF ReceiveErase
      <4>2. 0 + ChipSize = ChipSize
        BY SizesAssumption, SMT
      <4>. QED
        BY <2>5, <3>1, <4>1, <4>2
    <3>2. CASE Erasers[Block.eraser].block_erase # "chip"
      BY <2>1, <2>2, <2>3, <2>4, <3>2 DEF ReceiveErase
    <3>. QED
      BY <3>1, <3>2
  <2>7. \A a \in Addr : mem'[a] = IF bstart <= a /\ a < bstart + blen THEN Erased ELSE mem[a]
    BY <2>6 DEF EraseCells
  <2>8. ASSUME strategy = "wipe_by_biggest_erases"
        PROVE  BiggestErases'
    <3>1. \A a \in Addr : mem[a] = IF a < bstart THEN Erased ELSE mem0[a]
      BY <2>1, <2>8 DEF Exact, BiggestErases, ErasedUpTo
    <3>2. ASSUME NEW a \in Addr
          PROVE  mem'[a] = IF a < bstart + blen THEN Erased ELSE mem0[a]
      <4>1. a \in Nat
        BY AddrBounds
      <4>2. ~(bstart <= a) => a < bstart /\ a < bstart + blen
        BY <2>3, <4>1, SMT
      <4>3. ~(a < bstart + blen) => ~(a < bstart)
        BY <2>3, <4>1, SMT
      <4>. QED
        BY <2>7, <3>1, <4>2, <4>3
    <3>. QED
      BY <1>1, <1>4, <2>1, <2>8, <3>2 DEF Exact, BiggestErases, ErasedUpTo
  <2>9. ASSUME strategy = "wipe_if_changes"
        PROVE  IfChanges'
    <3>1. Written(mem, bstart) /\ Written(chip_ref, bstart)
      BY <2>1, <2>9 DEF Exact, IfChanges
    <3>2. BlockCleared'
      BY <1>1, <1>4, <2>7, <3>1 DEF BlockCleared, Written, AfterIfChanges
    <3>3. Written(chip_ref, bstart)'
      BY <1>1, <3>1 DEF Written, AfterIfChanges
    <3>. QED
      BY <2>1, <3>2, <3>3 DEF IfChanges
  <2>. QED
    BY <1>1, <1>5, <2>8, <2>9 DEF Exact
<1>. QED
  BY <1>6, <1>7

(***************************************************************************)
(* The end of the wait: the walk advances, or the block is copied into     *)
(* chip_ref as far as the image reaches.                                   *)
(***************************************************************************)
LEMMA ExactPolls ==
    ASSUME OpInv, Exact, Uniform, Accepted, PollWIP
    PROVE  Exact'
<1>1. /\ pc = "poll" /\ InBlock /\ BlockErased
      /\ mem' = mem /\ mem0' = mem0 /\ skipped' = skipped
      /\ strategy' = strategy /\ len' = len /\ image' = image
      /\ UNCHANGED plannerVars /\ erases' = erases /\ where' = where
      /\ strategy \in Strategies
  BY DEF PollWIP, BlockErased, auxVars, chipVars, plannerVars, OpInv, TypeOK, InBlock
<1>2. Placed /\ cursor <= Len(erases)
  BY <1>1 DEF Exact, OpInv, Walk
<1>3. /\ blen \in Nat \ {0} /\ bstart \in Nat /\ len \in Nat
  BY <1>1, <1>2, BlockFacts, SizesAssumption, SMT DEF OpInv, TypeOK
<1>4. CASE strategy = "wipe_by_biggest_erases"
  <2>1. pc' = "block" /\ cursor' = cursor + 1 /\ bstart' = bstart + blen
    BY <1>1, <1>4 DEF BlockErased
  <2>2. Placed'
    BY <1>1, <1>2, <2>1, PlacedAdvances DEF LoopEnded
  <2>3. BiggestErases'
    BY <1>1, <1>4, <2>1 DEF Exact, BiggestErases, ErasedUpTo
  <2>. QED
    BY <1>1, <1>4, <2>2, <2>3 DEF Exact
<1>5. CASE strategy = "wipe_if_changes"
  <2>1. /\ pc' = "write" /\ cursor' = cursor /\ bstart' = bstart
        /\ chip_ref' = [a \in Addr |->
                          IF bstart <= a /\ a < bstart + blen - copy_skip_last
                          THEN buf[a] ELSE chip_ref[a]]
    BY <1>1, <1>5 DEF BlockErased
  <2>2. Block' = Block /\ blen' = blen
    BY <1>1, <2>1 DEF Block, blen, SizeOf
  <2>3. Placed'
    BY <1>1, <1>2, <1>5, <2>1, <2>2 DEF Placed, LoopEnded
  <2>4. BlockCleared /\ Written(chip_ref, bstart)
    BY <1>1, <1>5 DEF Exact, IfChanges
  <2>5. BlockCleared'
    BY <1>1, <2>1, <2>2, <2>4 DEF BlockCleared, AfterIfChanges
  <2>6. ASSUME NEW a \in Addr
        PROVE  chip_ref'[a] = AfterIfChanges(a, bstart + blen)
    <3>1. a \in Nat /\ chip_ref[a] = AfterIfChanges(a, bstart)
      BY <2>4, AddrBounds DEF Written
    <3>2. a < bstart + blen - copy_skip_last <=> a < len /\ a < bstart + blen
      BY <1>3, <3>1, SMT DEF copy_skip_last
    <3>3. CASE bstart <= a
      <4>1. ~(a < bstart)
        BY <1>3, <3>1, <3>3, SMT
      <4>. QED
        BY <2>1, <3>1, <3>2, <3>3, <4>1 DEF AfterIfChanges, buf
    <3>4. CASE ~(bstart <= a)
      <4>1. a < bstart /\ a < bstart + blen
        BY <1>3, <3>1, <3>4, SMT
      <4>. QED
        BY <2>1, <3>1, <3>4, <4>1 DEF AfterIfChanges
    <3>. QED
      BY <3>3, <3>4
  <2>7. Written(chip_ref, bstart + blen)'
    BY <1>1, <2>1, <2>2, <2>6 DEF Written, AfterIfChanges
  <2>. QED
    BY <1>1, <1>5, <2>1, <2>3, <2>5, <2>7 DEF Exact, IfChanges
<1>. QED
  BY <1>1, <1>4, <1>5 DEF Strategies

(***************************************************************************)
(* A write without a mishap programs all whole pages, and of a whole       *)
(* number of pages it reports all.                                         *)
(***************************************************************************)
LEMMA PlainWrite ==
    ASSUME IdleBetweenCommands, pc = "write", mishaps = {}, mishaps' = {},
           NEW data, NEW first \in Nat, NEW n \in Nat, NEW outcome,
           ChipWrite(data, first, n, outcome)
    PROVE  /\ mem' = ProgramCells(mem, data, first, first + WholePages(n) * PageSize)
           /\ n % PageSize = 0 => outcome = "full"
<1>1. ~wip
  BY DEF IdleBetweenCommands
<1>2. /\ Program(data, first, n, WholePages(n))
      /\ n % PageSize = 0 => outcome = "full"
  BY DEF ChipWrite, Happens
<1>3. mem' = ProgramCells(mem, data, first + 0 * PageSize, first + WholePages(n) * PageSize)
  BY <1>1, <1>2 DEF Program
<1>4. first + 0 * PageSize = first
  BY SizesAssumption, SMT
<1>. QED
  BY <1>2, <1>3, <1>4

LEMMA ExactWritesAll ==
    ASSUME OpInv, IdleBetweenCommands, Exact, Accepted, mishaps = {}, mishaps' = {}, WriteAll
    PROVE  Exact'
<1>1. /\ pc = "write" /\ pc' = "return" /\ strategy = "wipe_by_biggest_erases"
      /\ bstart' = bstart /\ cursor' = cursor
      /\ mem0' = mem0 /\ chip_ref' = chip_ref /\ skipped' = skipped
      /\ strategy' = strategy /\ len' = len /\ image' = image /\ ppc' = ppc
      /\ UNCHANGED plannerVars /\ erases' = erases /\ where' = where
  BY DEF WriteAll, plannerVars
<1>2. /\ Placed /\ ~(cursor <= Len(erases)) /\ ~skipped /\ bstart = where
      /\ ErasedUpTo(bstart)
  BY <1>1 DEF Exact, BiggestErases, Placed, LoopEnded
<1>3. /\ ppc = "ok" /\ Accepted' /\ Zone' = where /\ end = len
      /\ len \in Nat /\ where \in Nat /\ len <= where
      /\ mem \in Contents /\ image \in Contents
  BY <1>1, SizesAssumption, SMT
     DEF Accepted, Zone, OpInv, Walk, PlannerInv, Stages, TypeOK, PlannerTypeOK, ChipTypeOK,
         Contents
<1> DEFINE size == WholePages(len) * PageSize
<1>4. size \in Nat /\ size <= len
  BY <1>3, SizesAssumption, DivBounds, SMT DEF WholePages
<1>5. mem' = ProgramCells(mem, buf, 0, size)
  <2>1. PICK outcome : ChipWrite(buf, Start, len, outcome)
    BY DEF WriteAll
  <2>2. Start = 0 /\ 0 \in Nat /\ 0 + size = size
    BY <1>4, SMT DEF Start
  <2>. QED
    BY <1>1, <1>3, <2>1, <2>2, PlainWrite
<1> HIDE DEF size
<1>6. ASSUME NEW a \in Addr
      PROVE  mem'[a] = IF a >= where THEN mem0[a] ELSE IF a < size THEN image[a] ELSE Erased
  <2>1. a \in Nat /\ 0 <= a
    BY AddrBounds, SMT
  <2>2. mem[a] = IF a < where THEN Erased ELSE mem0[a]
    BY <1>2 DEF ErasedUpTo
  <2>3. mem'[a] = IF a < size THEN mem[a] \cap buf[a] ELSE mem[a]
    BY <1>5, <2>1 DEF ProgramCells
  <2>4. (a >= where <=> ~(a < where)) /\ (a < size => a < len /\ a < where)
    BY <1>3, <1>4, <2>1, SMT
  <2>5. Erased \cap image[a] = image[a]
    BY <1>3 DEF Erased, Contents, Value
  <2>6. a < size => buf[a] = image[a]
    BY <2>4 DEF buf
  <2>. QED
    BY <2>2, <2>3, <2>4, <2>5, <2>6
<1>7. BiggestErases'
  <2>1. \A a \in Addr : mem'[a] = AfterBiggestErases(a)'
    BY <1>1, <1>3, <1>6 DEF AfterBiggestErases, WholePages, size
  <2>. QED
    BY <1>1, <1>2, <2>1 DEF BiggestErases
<1>8. Placed'
  BY <1>1, <1>2 DEF Placed
<1>. QED
  BY <1>1, <1>7, <1>8 DEF Exact

LEMMA ExactWritesBlock ==
    ASSUME OpInv, IdleBetweenCommands, Exact, Uniform, Accepted, mishaps = {}, mishaps' = {},
           WriteBlock
    PROVE  Exact'
<1>1. /\ pc = "write" /\ strategy = "wipe_if_changes" /\ InBlock
      /\ mem0' = mem0 /\ chip_ref' = chip_ref /\ skipped' = skipped
      /\ strategy' = strategy /\ len' = len /\ image' = image
      /\ UNCHANGED plannerVars /\ erases' = erases /\ where' = where
  BY DEF WriteBlock, plannerVars, InBlock
<1>2. Placed /\ cursor <= Len(erases) /\ BlockCleared /\ Written(chip_ref, bstart + blen)
  BY <1>1 DEF Exact, IfChanges, OpInv, Walk
<1>3. /\ blen \in Nat \ {0} /\ bstart \in Nat /\ blen % PageSize = 0
      /\ mem \in Contents /\ chip_ref \in Contents
  BY <1>1, <1>2, BlockFacts, BlockShape DEF OpInv, TypeOK, ChipTypeOK, Contents
<1>4. WholePages(blen) * PageSize = blen
  BY <1>3, SizesAssumption, SMT DEF WholePages
<1>5. PICK outcome :
         /\ ChipWrite(chip_ref, bstart, blen, outcome)
         /\ outcome # "short" => /\ pc' = "block" /\ cursor' = cursor + 1
                                 /\ bstart' = bstart + blen
  BY DEF WriteBlock
<1>6. outcome = "full" /\ mem' = ProgramCells(mem, chip_ref, bstart, bstart + blen)
  BY <1>1, <1>3, <1>4, <1>5, PlainWrite
<1>7. pc' = "block" /\ cursor' = cursor + 1 /\ bstart' = bstart + blen
  BY <1>5, <1>6
<1>8. Placed'
  BY <1>1, <1>2, <1>7, PlacedAdvances DEF LoopEnded
<1>9. ASSUME NEW a \in Addr
      PROVE  mem'[a] = AfterIfChanges(a, bstart + blen)
  <2>1. a \in Nat /\ chip_ref[a] = AfterIfChanges(a, bstart + blen)
    BY <1>2, AddrBounds DEF Written
  <2>2. mem'[a] = IF bstart <= a /\ a < bstart + blen THEN mem[a] \cap chip_ref[a] ELSE mem[a]
    BY <1>6 DEF ProgramCells
  <2>3. CASE bstart <= a /\ a < bstart + blen
    <3>1. mem[a] = Erased
      BY <1>2, <2>3 DEF BlockCleared
    <3>2. Erased \cap chip_ref[a] = chip_ref[a]
      BY <1>3 DEF Erased, Contents, Value
    <3>. QED
      BY <2>1, <2>2, <2>3, <3>1, <3>2
  <2>4. CASE ~(bstart <= a /\ a < bstart + blen)
    <3>1. mem'[a] = AfterIfChanges(a, bstart)
      BY <1>2, <2>2, <2>4 DEF BlockCleared
    <3>2. a < bstart <=> a < bstart + blen
      BY <1>3, <2>1, <2>4, SMT
    <3>. QED
      BY <3>1, <3>2 DEF AfterIfChanges
  <2>. QED
    BY <2>3, <2>4
<1>10. IfChanges'
  <2>1. Written(mem, bstart)'
    BY <1>1, <1>7, <1>9 DEF Written, AfterIfChanges
  <2>2. Written(chip_ref, bstart)'
    BY <1>1, <1>2, <1>7 DEF Written, AfterIfChanges
  <2>. QED
    BY <1>7, <2>1, <2>2 DEF IfChanges
<1>. QED
  BY <1>1, <1>8, <1>10 DEF Exact

LEMMA ExactRests ==
    ASSUME OpInv, Exact, Return \/ ChipStep \/ UNCHANGED vars, Accepted
    PROVE  Exact'
<1>1. /\ mem' = mem /\ mem0' = mem0 /\ chip_ref' = chip_ref /\ skipped' = skipped
      /\ bstart' = bstart /\ cursor' = cursor
      /\ strategy' = strategy /\ len' = len /\ image' = image
      /\ UNCHANGED plannerVars /\ erases' = erases /\ where' = where /\ ppc' = ppc
      /\ pc' = pc \/ (pc = "return" /\ pc' = "done")
  BY DEF Return, ChipStep, ChipReady, opVars, auxVars, chipVars, plannerVars, vars
<1>2. Block' = Block /\ blen' = blen
  BY <1>1 DEF Block, blen, SizeOf
<1>3. Zone' = Zone /\ \A a : AfterBiggestErases(a)' = AfterBiggestErases(a)
  BY <1>1 DEF Zone, Accepted, AfterBiggestErases, WholePages
<1>4. Placed'
  BY <1>1, <1>2 DEF Exact, Placed, LoopEnded
<1>5. BiggestErases => BiggestErases'
  BY <1>1, <1>2, <1>3 DEF BiggestErases, ErasedUpTo
<1>6. IfChanges => IfChanges'
  BY <1>1, <1>2 DEF IfChanges, Written, BlockCleared, AfterIfChanges
<1>. QED
  BY <1>1, <1>4, <1>5, <1>6 DEF Exact
-----------------------------------------------------------------------------
(***************************************************************************)
(* Together.  Every step that is left out here is a mishap, or ends before *)
(* a plan is accepted.                                                     *)
(***************************************************************************)
LEMMA ExactStepKeeps ==
    ASSUME OpInv, OpInv', IdleBetweenCommands, ExactInv, [Next]_vars
    PROVE  ExactInv'
<1>1. CASE PlanAccepted
  BY <1>1, ExactBegins
<1>2. CASE Open \/ ReadReference \/ Plan \/ PlanRefused
  <2>1. ~Accepted /\ ~Accepted' /\ skipped' = skipped
    BY <1>2 DEF Open, OpenFails, ReadFileFails, ReadFile, ReadReference, Plan, PlanRefused,
                Accepted, opVars, auxVars, plannerVars, OpInv, Walk
  <2>. QED
    BY <2>1 DEF ExactInv
<1>3. CASE \/ SkipBlock \/ EraseBlock \/ EndOfList \/ Erasing
           \/ WriteAll \/ WriteBlock \/ Return \/ ChipStep \/ UNCHANGED vars
  <2>1. /\ mishaps \subseteq mishaps' /\ UNCHANGED plannerVars
        /\ Accepted' = Accepted /\ Uniform' = Uniform
        /\ ~Accepted => skipped' = skipped
    <3>1. mishaps \subseteq mishaps' /\ UNCHANGED plannerVars
      BY <1>3 DEF SkipBlock, EraseBlock, EndOfList, Erasing, SendWREN, SendWRENFails, SendErase,
                  SendEraseFails, PollWIP, PollWIPFails, WriteAll, WriteBlock, ChipWrite, Return,
                  ChipStep, Happens, vars, auxVars, plannerVars
    <3>2. (pc \in {"open", "reference", "plan"}) = (pc' \in {"open", "reference", "plan"})
      BY <1>3 DEF SkipBlock, EraseBlock, EndOfList, EraseError, Erasing, SendWREN, SendWRENFails,
                  SendErase, SendEraseFails, PollWIP, PollWIPFails, BlockErased, WriteAll,
                  WriteBlock, Return, ChipStep, vars, opVars
    <3>3. ~Accepted => skipped' = skipped
      BY <1>3 DEF SkipBlock, EraseBlock, EndOfList, Erasing, SendWREN, SendWRENFails, SendErase,
                  SendEraseFails, PollWIP, PollWIPFails, WriteAll, WriteBlock, Return,
                  ChipStep, vars, auxVars, Accepted, OpInv, Walk
    <3>. QED
      BY <3>1, <3>2, <3>3 DEF Accepted, Uniform, SizeOf, plannerVars
  <2>2. ASSUME mishaps' = {}, Accepted, Uniform
        PROVE  Exact'
    <3>1. mishaps = {} /\ Exact
      BY <2>1, <2>2 DEF ExactInv
    <3>2. ~(SendWRENFails \/ SendEraseFails \/ PollWIPFails)
      BY <2>2 DEF SendWRENFails, SendEraseFails, PollWIPFails, Happens
    <3>. QED
      BY <1>3, <2>2, <3>1, <3>2, ExactTurns, ExactErases, ExactPolls, ExactWritesAll,
         ExactWritesBlock, ExactRests DEF Erasing
  <2>. QED
    BY <2>1, <2>2 DEF ExactInv
<1>. QED
  BY <1>1, <1>2, <1>3 DEF Next, Step

(***************************************************************************)
(* With blocks of one size and without mishaps, the chip holds in the end  *)
(* what each strategy is written to leave, up to the first skipped block.  *)
(***************************************************************************)
THEOREM UniformWriteLeavesImage == Spec => []UniformWriteIsExact
<1>1. Init => IdleBetweenCommands /\ ExactInv
  BY DEF Init, IdleBetweenCommands, ExactInv, Accepted
<1>2. OpInv /\ OpInv' /\ IdleBetweenCommands /\ ExactInv /\ [Next]_vars
        => IdleBetweenCommands' /\ ExactInv'
  BY IdleStepKeeps, ExactStepKeeps
<1>3. OpInv /\ ExactInv => UniformWriteIsExact
  <2>1. ASSUME OpInv, ExactInv, pc = "done", Accepted, mishaps = {}, Uniform
        PROVE  IF strategy = "wipe_by_biggest_erases"
               THEN \A a \in Addr : mem[a] = AfterBiggestErases(a)
               ELSE /\ \A a \in Addr : mem[a] = AfterIfChanges(a, bstart)
                    /\ ~skipped => bstart = Zone
    <3>1. Exact /\ strategy \in Strategies /\ Zone = where
      BY <2>1 DEF ExactInv, OpInv, TypeOK, Zone
    <3>2. ~skipped => bstart = where
      BY <2>1, <3>1 DEF Exact, Placed, LoopEnded
    <3>. QED
      BY <2>1, <3>1, <3>2 DEF Exact, BiggestErases, IfChanges, Written, Strategies
  <2>. QED
    BY <2>1 DEF UniformWriteIsExact
<1>. QED
  BY OpInvariant, <1>1, <1>2, <1>3, PTL DEF Spec
-----------------------------------------------------------------------------
(***************************************************************************)
(* Refinement: an operation that writes an image implements ZoneWrite.     *)
(***************************************************************************)
LEMMA PromiseInit == Init => Promise!Init
<1>1. SUFFICES ASSUME Init PROVE Promise!Init
  OBVIOUS
<1>2. mem \in [Addr -> SUBSET Bits]
  BY <1>1, ImagesAssumption DEF Init, Value
<1>3. Zone = 0 /\ Status = "idle"
  BY <1>1 DEF Init, Zone, Status, Accepted
<1>. QED
  BY <1>2, <1>3 DEF Promise!Init, Promise!Addr, Addr

LEMMA PromiseStep ==
    ASSUME OpInv, OpInv', [Next]_vars
    PROVE  [Promise!Next]_<<mem, Zone, Status>>
<1>1. mem' \in [Addr -> SUBSET Bits] /\ where \in 0..ChipSize
  BY DEF OpInv, TypeOK, ChipTypeOK, PlannerTypeOK, Value
<1>2. CASE UNCHANGED vars
  BY <1>2 DEF vars, opVars, plannerVars, chipVars, Zone, Status, Accepted
<1>3. CASE Open \/ ReadReference
  <2>1. pc \in {"open", "reference"} /\ mem' = mem
    BY <1>3 DEF Open, OpenFails, ReadFileFails, ReadFile, ReadReference, chipVars
  <2>2. Zone = 0 /\ Status = "idle"
    BY <2>1 DEF Zone, Status, Accepted
  <2>3. \/ pc' = "done" /\ ppc' = "idle"
        \/ pc' \in {"reference", "plan"}
    BY <1>3, <2>1 DEF Open, OpenFails, ReadFileFails, ReadFile, ReadReference, plannerVars,
                      OpInv, Walk
  <2>4. Zone' = 0 /\ Status' \in {"idle", "done"}
    BY <2>3 DEF Zone, Status, Accepted
  <2>. QED
    BY <2>1, <2>2, <2>4 DEF Promise!Next, Promise!Finish
<1>4. CASE Plan \/ PlanRefused
  <2>1. pc = "plan" /\ mem' = mem /\ (pc' = "plan" \/ (pc' = "return" /\ ppc' # "ok"))
    BY <1>4 DEF Plan, PlanRefused, opVars, chipVars, plannerVars
  <2>. QED
    BY <2>1 DEF Zone, Status, Accepted
<1>5. CASE PlanAccepted
  <2>1. /\ pc = "plan" /\ pc' = "block" /\ mem' = mem
        /\ ppc' = "ok" /\ where' = where
    BY <1>5 DEF PlanAccepted, chipVars, plannerVars
  <2>2. Status = "idle" /\ Status' = "working" /\ Zone' = where
    BY <2>1 DEF Zone, Status, Accepted
  <2>. QED
    BY <1>1, <2>1, <2>2 DEF Promise!Next, Promise!Begin
<1>6. CASE SkipBlock \/ EraseBlock \/ EndOfList \/ PollWIP \/ PollWIPFails
  <2>1. /\ pc \in {"block", "poll"} /\ mem' = mem /\ ppc' = ppc /\ where' = where
        /\ pc' \in {"block", "wren", "write", "return"}
    BY <1>6 DEF SkipBlock, EraseBlock, EndOfList, PollWIP, PollWIPFails, BlockErased,
                EraseError, chipVars, plannerVars
  <2>. QED
    BY <2>1 DEF Zone, Status, Accepted
<1>7. CASE SendWREN \/ SendWRENFails \/ SendErase \/ SendEraseFails
  <2>1. /\ pc \in {"wren", "erase"} /\ pc' \in {"erase", "poll", "return"}
        /\ ppc' = ppc /\ where' = where /\ ppc = "ok"
    BY <1>7 DEF SendWREN, SendWRENFails, SendErase, SendEraseFails, EraseError, plannerVars,
                OpInv, Walk
  <2>2. Zone' = Zone /\ Status' = Status /\ Status = "working"
    BY <2>1 DEF Zone, Status, Accepted
  <2>3. \A a \in Addr : mem'[a] # mem[a] => a < Zone /\ mem'[a] = Bits
    BY <1>7, CommandsKeep DEF Erased
  <2>. QED
    BY <1>1, <2>2, <2>3 DEF Promise!Next, Promise!Erase, Promise!Addr, Addr
<1>8. CASE WriteAll \/ WriteBlock
  <2>1. /\ pc = "write" /\ pc' \in {"block", "return"}
        /\ ppc' = ppc /\ where' = where /\ ppc = "ok"
    BY <1>8 DEF WriteAll, WriteBlock, plannerVars, OpInv, Walk
  <2>2. Zone' = Zone /\ Status' = Status /\ Status = "working"
    BY <2>1 DEF Zone, Status, Accepted
  <2>3. \A a \in Addr : mem'[a] # mem[a] => a < Zone /\ mem'[a] \subseteq mem[a]
    BY <1>8, WritesKeep
  <2>. QED
    BY <1>1, <2>2, <2>3 DEF Promise!Next, Promise!Program, Promise!Addr, Addr
<1>9. CASE Return
  <2>1. /\ pc = "return" /\ pc' = "done" /\ mem' = mem /\ ppc' = ppc /\ where' = where
    BY <1>9 DEF Return, chipVars, plannerVars
  <2>2. Zone' = Zone /\ Status' = "done" /\ Status \in {"idle", "working"}
    BY <2>1 DEF Zone, Status, Accepted
  <2>. QED
    BY <2>1, <2>2 DEF Promise!Next, Promise!Finish
<1>10. CASE ChipStep
  BY <1>10 DEF ChipStep, ChipReady, opVars, plannerVars, Zone, Status, Accepted
<1>. QED
  BY <1>2, <1>3, <1>4, <1>5, <1>6, <1>7, <1>8, <1>9, <1>10 DEF Next, Step, Erasing

(***************************************************************************)
(* The contents of the chip change only by erasing and by clearing bits,   *)
(* only in the zone fixed beforehand, and not after the return.            *)
(***************************************************************************)
THEOREM WriteChipKeepsPromise == Spec => KeepsPromise
<1>1. OpInv /\ OpInv' /\ [Next]_vars => [Promise!Next]_<<mem, Zone, Status>>
  BY PromiseStep
<1>. QED
  BY OpInvariant, PromiseInit, <1>1, PTL DEF Spec, KeepsPromise, Promise!Spec
=============================================================================
