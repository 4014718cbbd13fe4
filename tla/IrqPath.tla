------------------------------- MODULE IrqPath -------------------------------
(***************************************************************************)
(* The way of an interrupt: devices raise lines of the controller between  *)
(* two instructions, check_interrupts looks at the controller after every  *)
(* instruction, trigger_interrupt pushes the interrupted context, and the  *)
(* guest's handlers end with an EOI and an IRET.                           *)
(*                                                                         *)
(* The guest is the environment: a main program and one handler per line,  *)
(* written like those of the BIOS images in bios/ (a handler sends one EOI *)
(* and may set the interrupt flag before it does, pcxtbios.asm:2042, 5035, *)
(* GLABIOS.ASM INT_08).  Every action below but RaiseIrq is one call of    *)
(* processor.step: what the instruction does, then check_interrupts.       *)
(***************************************************************************)
EXTENDS PicOps, Sequences, SequencesExt

CONSTANTS
  Irqs,      \* the lines in use
  Masks,     \* the mask bytes the guest writes
  MaxNest    \* bound on the handlers active at once

ASSUME IrqPathAssumption ==
  /\ Irqs \in Byte /\ Masks \subseteq Byte
  /\ MaxNest \in Nat

VARIABLES
  guest,   \* what is left open about the guest; it never changes
  pic,     \* the controller
  flags,   \* the two flags of registers.flags that matter here
  trap,    \* state.trap of the processor
  frames   \* interrupted contexts on the guest's stack, innermost last

irqVars == <<guest, pic, flags, trap, frames>>

\* careful: it masks the less urgent lines before it enables interrupts; traced: its
\* main program may set the trap flag.
Guest == [careful : BOOLEAN, traced : BOOLEAN]

Flag  == {"TRAP", "INTERRUPT"}
DEBUG == 1                         \* DEBUG_STEP_INT
\* vec: the vector taken; flags: as pushed; eoi: has the handler sent its EOI?
\* (a debug handler owes none)
Frame == [vec : 0..255, flags : SUBSET Flag, eoi : BOOLEAN]

\* The controller after the BIOS has written 13h, 08h, 09h (pcxtbios.asm:602-607):
\* single, vectors from 8, normal EOI.
Booted ==
  PicData(PicData(PicCommand(PicReset, {0, 1, 4}), {3}), {0, 3})

LineOf(f) == f.vec - 8
Open(fr)  == {k \in DOMAIN fr : ~fr[k].eoi}       \* handlers that owe an EOI
OpenLines(fr) == {LineOf(fr[k]) : k \in Open(fr)}
Innermost == frames[Len(frames)]
-----------------------------------------------------------------------------
\* trigger_interrupt: push flags, CS and IP, clear both flags, take the vector.
Enter(fr, f, vec) == Append(fr, [vec |-> vec, flags |-> f, eoi |-> vec = DEBUG])

\* Whether the trap flag or the controller gets its turn.
TakesTrap(f) == "TRAP" \in f /\ ~trap
TakesIrq(p, f) == ~TakesTrap(f) /\ "INTERRUPT" \in f /\ Deliverable(p) # {}

\* Mutants: the trap just taken is not remembered; an acknowledged interrupt is
\* dropped.
CheckInterrupts_ForgetsTrap(p, f, fr) ==
  /\ trap' = FALSE
  /\ pic' = IF TakesIrq(p, f) THEN PicAck(p) ELSE p
  /\ flags' = IF TakesTrap(f) \/ TakesIrq(p, f) THEN {} ELSE f
  /\ frames' = CASE TakesTrap(f) -> Enter(fr, f, DEBUG)
                 [] TakesIrq(p, f) -> Enter(fr, f, Vector(p))
                 [] OTHER -> fr
CheckInterrupts_DropsVector(p, f, fr) ==
  /\ trap' = IF TakesTrap(f) THEN "INTERRUPT" \in f
             ELSE trap /\ "INTERRUPT" \notin f
  /\ pic' = IF TakesIrq(p, f) THEN PicAck(p) ELSE p
  /\ flags' = IF TakesTrap(f) \/ TakesIrq(p, f) THEN {} ELSE f
  /\ frames' = IF TakesTrap(f) THEN Enter(fr, f, DEBUG) ELSE fr

\* check_interrupts at the end of a step that left the controller in state p, the
\* flags f and the contexts fr; state.trap is remembered only while interrupts
\* are enabled.
CheckInterrupts(p, f, fr) ==
  /\ trap' = IF TakesTrap(f) THEN "INTERRUPT" \in f
             ELSE trap /\ "INTERRUPT" \notin f
  /\ pic' = IF TakesIrq(p, f) THEN PicAck(p) ELSE p
  /\ flags' = IF TakesTrap(f) \/ TakesIrq(p, f) THEN {} ELSE f
  /\ frames' = CASE TakesTrap(f) -> Enter(fr, f, DEBUG)
                 [] TakesIrq(p, f) -> Enter(fr, f, Vector(p))
                 [] OTHER -> fr

\* What the guest takes care of before an instruction that leaves it with
\* interrupts enabled: stack space for one more context and, if it is careful, that no
\* line less urgent than an unfinished handler's is unmasked.
MayEnable(p, f, fr) ==
  "INTERRUPT" \in f =>
    /\ Len(fr) < MaxNest
    /\ guest.careful => \A n \in OpenLines(fr) : \A m \in Irqs : m > n => m \in p.mask

Step(p, f, fr) ==
  MayEnable(p, f, fr) /\ CheckInterrupts(p, f, fr) /\ UNCHANGED guest
-----------------------------------------------------------------------------
IrqInit ==
  /\ guest \in Guest /\ pic = Booted
  /\ flags = {} /\ trap = FALSE /\ frames = <<>>

\* interrupt(num) of machine.odin, called by a device's timer, by the host's
\* callbacks or by an instruction's port access, always before the next check.
RaiseIrq(n) ==
  /\ pic' = PicIrq(pic, n)
  /\ UNCHANGED <<guest, flags, trap, frames>>

\* An instruction that touches none of this state.
Other == Step(pic, flags, frames)

\* STI, CLI, POPF.  Only the main program is traced, and the debug handler leaves
\* interrupts disabled (any check made with them enabled clears state.trap).
SetFlags(f) ==
  /\ "TRAP" \in f => guest.traced /\ frames = <<>>
  /\ frames # <<>> /\ Innermost.vec = DEBUG => "INTERRUPT" \notin f
  /\ Step(pic, f, frames)

\* OUT 21h
WriteMask(m) == Step(PicData(pic, m), flags, frames)

\* OUT 20h, 20h by the running handler
SendEoi ==
  /\ frames # <<>> /\ ~Innermost.eoi
  /\ Step(PicCommand(pic, {5}), flags, [frames EXCEPT ![Len(frames)].eoi = TRUE])

\* IRET
Iret ==
  /\ frames # <<>> /\ Innermost.eoi
  /\ Step(pic, Innermost.flags, Front(frames))

IrqNext ==
  \/ \E n \in Irqs : RaiseIrq(n)
  \/ Other
  \/ \E f \in SUBSET Flag : SetFlags(f)
  \/ \E m \in Masks : WriteMask(m)
  \/ SendEoi
  \/ Iret

IrqSpec == IrqInit /\ [][IrqNext]_irqVars

\* The main program enables interrupts.
EnableInMain == frames = <<>> /\ SetFlags({"INTERRUPT"})
-----------------------------------------------------------------------------
IrqTypeOK ==
  /\ guest \in Guest /\ pic \in PicState
  /\ flags \in SUBSET Flag
  /\ trap \in BOOLEAN
  /\ frames \in Seq(Frame)

\* However the handlers nest, and whichever handler's bit an EOI hits, there are
\* as many lines in service as handlers that still owe an EOI (pic.odin:63-69
\* against 95-96): a handler's EOI is never swallowed, and once all handlers have
\* returned no line stays blocked.
EoiBalance == Cardinality(pic.service) = Cardinality(Open(frames))

\* With a careful guest the unfinished handlers are nested from the least to the
\* most urgent line, and they are exactly the lines in service: a non-specific
\* EOI (the lowest service bit) then ends the handler that sends it.
NestedByPriority(fr) ==
  \A j, k \in Open(fr) : j < k => LineOf(fr[k]) < LineOf(fr[j])
ServiceIsNest ==
  guest.careful => pic.service = OpenLines(frames) /\ NestedByPriority(frames)

\* A requested line is forgotten only by entering the handler of its own vector
\* with interrupts disabled (pic.odin:95, cpu.odin:104-105, 346).
NoLostIrq ==
  [][\A n \in pic.request \ pic'.request :
       /\ frames' # <<>>
       /\ frames'[Len(frames')] = [vec |-> 8 + n, eoi |-> FALSE,
                                   flags |-> frames'[Len(frames')].flags]
       /\ "INTERRUPT" \in frames'[Len(frames')].flags
       /\ flags' = {}]_irqVars

\* While the debug handler runs for a program that had interrupts enabled, the
\* processor remembers that the trap was taken (state.trap, cpu.odin:96-101): the
\* handler's IRET then lets the program execute an instruction before the next trap.
TrapRemembered ==
  frames # <<>> /\ Innermost.vec = DEBUG /\ "INTERRUPT" \in Innermost.flags => trap

\* The most urgent line is not starved: its request is taken, or the guest masks
\* it.  (Not of every guest: a program traced with interrupts disabled gets no further,
\* as its trap is not remembered, cpu.odin:97; and a careful guest would also have to
\* unmask a handler's lines before it returns to it.)
TopLineServed ==
  0 \in pic.request /\ ~guest.careful /\ ~guest.traced
    ~> (0 \notin pic.request \/ 0 \in pic.mask)

\* The interrupt nest of a careful guest is that of IrqNest, seen from the guest's
\* side: the handlers that have not sent their EOI, each at its place on the stack.
\* (Of the other guests nothing is said: their nest is empty.)
NestOf(fr) == [k \in Open(fr) |-> LineOf(fr[k])]
Nest == INSTANCE IrqNest WITH
  Lines <- Irqs, pending <- IF guest.careful THEN pic.request ELSE {},
  nest <- IF guest.careful THEN NestOf(frames) ELSE <<>>
NestSpec == Nest!Spec
=============================================================================
