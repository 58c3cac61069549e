------------------------------ MODULE SpiProbe ------------------------------
(***************************************************************************)
(* The probe functions of bus/spi_nor.c: what each makes of the bytes the  *)
(* identification commands return.  An entry is what struct flashchip says *)
(* of a chip, an answer what the wired one returns to each command; both   *)
(* are given, and the set of commands that failed.                         *)
(***************************************************************************)
EXTENDS Integers, Sequences

Byte == 0..255
ProbeFunctions == {"rdid", "rdid4", "rems", "res1", "res2", "res3", "at25f"}
ProbeCommands == {"RDID", "REMS", "RES", "AT25F_RDID"}

Entry == [probe : ProbeFunctions, manufacture_id : Nat, model_id : Nat]

(* What a bus nobody drives reads, and what probe_spi_rdid puts into its    *)
(* array before: dummy_spi returns success and leaves it there.             *)
Floating == [RDID |-> <<255, 255, 255, 255>>, REMS |-> <<255, 255>>,
             RES |-> <<255, 255, 255>>, AT25F_RDID |-> <<255, 255>>]
PresetRDID == <<175, 175, 175, 175>>

GENERIC_MANUF_ID == 65535
GENERIC_DEVICE_ID == 65535

Specific(e) == e.manufacture_id # GENERIC_MANUF_ID /\ e.model_id # GENERIC_DEVICE_ID

-----------------------------------------------------------------------------
Ids(one, two) == [id1 |-> one, id2 |-> two]

(***************************************************************************)
(* probe_spi_rdid_generic: a first byte 0x7f continues in the second.      *)
(***************************************************************************)
RDIDIds(b, bytes) ==
    IF b[1] = 127
    THEN Ids(b[1] * 256 + b[2], IF bytes > 3 THEN b[3] * 256 + b[4] ELSE b[3])
    ELSE Ids(b[1], b[2] * 256 + b[3])

Exactly(e, ids) == ids.id1 = e.manufacture_id /\ ids.id2 = e.model_id

Matches(e, ids) ==
    \/ Exactly(e, ids)
    \/ ids.id1 = e.manufacture_id /\ e.model_id = GENERIC_DEVICE_ID
    \/ e.manufacture_id = GENERIC_MANUF_ID /\ ids.id1 # 255

(***************************************************************************)
(* probe_spi_res1: one byte says little, so it only counts if neither RDID *)
(* nor REMS works, or they return nothing but 0xff or 0x00.                *)
(***************************************************************************)
Blank(b, n) == (\A k \in 1..n : b[k] = 255) \/ (\A k \in 1..n : b[k] = 0)

(* Mutant: RES is asked whatever the other commands return.                 *)
Unusable_Unasked(answer, failed) == TRUE

Unusable(answer, failed) ==
    /\ "RDID" \in failed \/ Blank(answer.RDID, 3)
    /\ "REMS" \in failed \/ Blank(answer.REMS, 2)

(***************************************************************************)
(* The seven functions: does e's find its chip behind these answers?  A    *)
(* command that fails ends the probe with nothing found, but for the two   *)
(* that probe_spi_res1 would rather see fail.                              *)
(***************************************************************************)
Finds(e, answer, failed) ==
    \/ e.probe = "rdid" /\ "RDID" \notin failed /\ Matches(e, RDIDIds(answer.RDID, 3))
    \/ e.probe = "rdid4" /\ "RDID" \notin failed /\ Matches(e, RDIDIds(answer.RDID, 4))
    \/ e.probe = "rems" /\ "REMS" \notin failed /\ Matches(e, Ids(answer.REMS[1], answer.REMS[2]))
    \/ /\ e.probe = "res1" /\ Unusable(answer, failed)
       /\ "RES" \notin failed /\ answer.RES[1] = e.model_id
    \/ e.probe = "res2" /\ "RES" \notin failed /\ Exactly(e, Ids(answer.RES[1], answer.RES[2]))
    \/ /\ e.probe = "res3" /\ "RES" \notin failed
       /\ Exactly(e, Ids(answer.RES[1] * 256 + answer.RES[2], answer.RES[3]))
    \/ /\ e.probe = "at25f" /\ "AT25F_RDID" \notin failed
       /\ Exactly(e, Ids(answer.AT25F_RDID[1], answer.AT25F_RDID[2]))
=============================================================================
