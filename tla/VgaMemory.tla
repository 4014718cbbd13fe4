------------------------------ MODULE VgaMemory ------------------------------
(***************************************************************************)
(* The planes of the VGA (read and write of src/modules/vga/vga.odin): an  *)
(* access to one address reaches a byte of every plane, through the latches*)
(* that the last read loaded and the registers the guest has set.          *)
(*                                                                         *)
(* A byte is the set of its one bits.  An address is a segment of one      *)
(* plane's size and a place in it.  What a read answers, from the latches  *)
(* or by comparing colours, is left out.                                   *)
(***************************************************************************)
EXTENDS Integers

CONSTANTS
  Places,      \* in a plane; 0x10000 in the code
  NumPlanes,   \* 4
  Width,       \* bits in a byte; 8
  Registers,   \* what the guest sets the registers to
  Data         \* bytes it writes

VARIABLES mem, mem_latch, regs

vars == <<mem, mem_latch, regs>>

Planes == 0..NumPlanes - 1
Bits == 0..Width - 1
Full == Bits
Segments == {0, 1}

\* linear: text mode, or chained (seq_reg[4] & 8); mode: gfx_reg[5] & 3; mask: gfx_reg[8];
\* planes: seq_reg[2]; turns and op: gfx_reg[3]; set, enable: gfx_reg[0] and gfx_reg[1].
RegisterFiles ==
  [linear : BOOLEAN, mode : 0..3, mask : SUBSET Bits, planes : SUBSET Planes,
   turns : Nat, op : 0..3, set : SUBSET Planes, enable : SUBSET Planes]

PlanesAssumption ==
  /\ NumPlanes \in Nat \ {0} /\ Width \in Nat \ {0}
  /\ Registers \subseteq RegisterFiles /\ Data \subseteq SUBSET Bits

\* Where plane i of an address is, wrapped at the end of the memory (sanitaze_address).
Of(seg, i) == (seg + i) % NumPlanes

Rotated(data, turns) == {(b - turns) % Width : b \in data}

\* rotate_op is applied to the data, and again to the result.
RotateOp(data) == Rotated(Rotated(data, regs.turns), regs.turns)

LogicOp(value, latch) ==
  CASE regs.op = 1 -> value \cap latch
    [] regs.op = 2 -> value \cup latch
    [] regs.op = 3 -> (value \ latch) \cup (latch \ value)
    [] OTHER -> value

Masked_Raw(mask, value, latch) == value \cap mask   \* Mutant: the latch is not merged.
Masked(mask, value, latch) == (value \cap mask) \cup (latch \ mask)

Expand(i, planes) == IF i \in planes THEN Full ELSE {}

\* The byte that a write of data leaves in plane i.
Written(i, latch, data) ==
  CASE regs.mode = 0 ->
         LET value == IF i \in regs.enable THEN Expand(i, regs.set) ELSE RotateOp(data)
         IN  Masked(regs.mask, LogicOp(value, latch), latch)
    [] regs.mode = 1 -> latch
    [] regs.mode = 2 -> Masked(regs.mask, LogicOp(Expand(i, data), latch), latch)
    [] regs.mode = 3 ->
         Masked(Rotated(data, regs.turns) \cap regs.mask, Expand(i, regs.set), latch)
-----------------------------------------------------------------------------
\* The memory holds random bytes at first; two kinds of them stand for all.
Init ==
  /\ mem \in [Places -> {[i \in Planes |-> {}], [i \in Planes |-> Full]}]
  /\ mem_latch = [i \in Planes |-> {}]
  /\ regs \in Registers

SetRegisters == regs' \in Registers /\ UNCHANGED <<mem, mem_latch>>

Read(seg, place) ==
  /\ mem_latch' = IF regs.linear THEN mem_latch
                  ELSE [i \in Planes |-> mem[place][Of(seg, i)]]
  /\ UNCHANGED <<mem, regs>>

\* What a write leaves in the planes of a place.
Target(seg, place, data) ==
  [p \in Planes |->
    LET i == (p - seg) % NumPlanes
    IN  IF regs.linear THEN IF p = seg THEN data ELSE mem[place][p]
        ELSE IF i \in regs.planes THEN Written(i, mem_latch[i], data)
        ELSE mem[place][p]]

Write(seg, place, data) ==
  /\ mem' = [mem EXCEPT ![place] = Target(seg, place, data)]
  /\ UNCHANGED <<mem_latch, regs>>

Next ==
  \/ SetRegisters
  \/ \E seg \in Segments, place \in Places :
       Read(seg, place) \/ \E data \in Data : Write(seg, place, data)
-----------------------------------------------------------------------------
TypeOK ==
  /\ mem \in [Places -> [Planes -> SUBSET Bits]]
  /\ mem_latch \in [Planes -> SUBSET Bits] /\ regs \in RegisterFiles

Loaded(seg, place) == mem_latch = [i \in Planes |-> mem[place][Of(seg, i)]]

\* A guest that writes to the address it has read last, or one with the same bytes,
\* changes no bit that it masked out and no plane that it left out, in any mode and
\* whatever it accessed before; and no other place (vga.odin:212-288).
MaskedKept ==
  [][\A seg \in Segments, place \in Places, data \in Data :
       ~regs.linear /\ Write(seg, place, data) =>
         /\ \A other \in Places \ {place} : mem'[other] = mem[other]
         /\ Loaded(seg, place) =>
              \A i \in Planes :
                LET p == Of(seg, i)
                    mask == IF i \in regs.planes THEN regs.mask ELSE {}
                IN  mem'[place][p] \ mask = mem[place][p] \ mask]_vars

\* What is drawn with exclusive or, as a pointer of the mouse is, goes away when it is
\* drawn again.
DrawnTwice ==
  \A i \in Planes, data \in Data, byte \in SUBSET Bits :
    regs.mode \in {0, 2} /\ regs.op = 3 =>
      Written(i, Written(i, byte, data), data) = byte
=============================================================================
