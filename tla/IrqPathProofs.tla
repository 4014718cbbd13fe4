---------------------------- MODULE IrqPathProofs ----------------------------
(***************************************************************************)
(* Theorems about the interrupt path, for every set of lines and masks and *)
(* any depth of nesting.                                                   *)
(***************************************************************************)
EXTENDS IrqPath, PicOpsProofs, SequenceTheorems, FiniteSetTheorems

Typed(p, f, fr) == p \in PicState /\ f \in SUBSET Flag /\ fr \in Seq(Frame)

-----------------------------------------------------------------------------
(* The contexts on the stack.                                              *)

LEMMA EnterProperties ==
  ASSUME NEW fr \in Seq(Frame), NEW f \in SUBSET Flag, NEW vec \in 0..255
  PROVE  /\ Enter(fr, f, vec) \in Seq(Frame)
         /\ Len(Enter(fr, f, vec)) = Len(fr) + 1
         /\ \A k \in 1..Len(fr) : Enter(fr, f, vec)[k] = fr[k]
         /\ Enter(fr, f, vec)[Len(fr) + 1]
              = [vec |-> vec, flags |-> f, eoi |-> vec = DEBUG]
         /\ Enter(fr, f, vec)[Len(fr) + 1].vec = vec
<1> DEFINE c == [vec |-> vec, flags |-> f, eoi |-> vec = DEBUG]
<1>1. c \in Frame /\ c.vec = vec
  BY DEF Frame
<1> HIDE DEF c
<1>2. Enter(fr, f, vec) = Append(fr, c)
  BY DEF Enter, c
<1>3. QED  BY <1>1, <1>2, AppendProperties DEF c

LEMMA EnterFlags ==
  ASSUME NEW fr \in Seq(Frame), NEW f \in SUBSET Flag, NEW vec \in 0..255
  PROVE  Enter(fr, f, vec)[Len(fr) + 1].flags = f
<1> DEFINE c == [vec |-> vec, flags |-> f, eoi |-> vec = DEBUG]
<1>1. c \in Frame /\ c.flags = f
  BY DEF Frame
<1> HIDE DEF c
<1>2. Enter(fr, f, vec) = Append(fr, c)
  BY DEF Enter, c
<1>3. QED  BY <1>1, <1>2, AppendProperties

LEMMA FrontProperties ==
  ASSUME NEW fr \in Seq(Frame), fr # <<>>
  PROVE  /\ Len(fr) \in Nat \ {0}
         /\ Front(fr) \in Seq(Frame)
         /\ Len(Front(fr)) = Len(fr) - 1
         /\ \A k \in 1..Len(fr) - 1 : Front(fr)[k] = fr[k]
<1>1. Len(fr) \in Nat \ {0}
  BY EmptySeq
<1>2. \A k \in 1..Len(fr) - 1 : fr[k] \in Frame
  BY <1>1, ElementOfSeq
<1>3. Len(fr) - 1 \in Int /\ 1 \in Int /\ (1 <= Len(fr) - 1 \/ Len(fr) - 1 = 0)
  BY <1>1
<1>4. /\ SubSeq(fr, 1, Len(fr) - 1) \in Seq(Frame)
      /\ Len(SubSeq(fr, 1, Len(fr) - 1))
           = IF 1 <= Len(fr) - 1 THEN (Len(fr) - 1) - 1 + 1 ELSE 0
      /\ \A i \in 1..((Len(fr) - 1) - 1 + 1) :
            SubSeq(fr, 1, Len(fr) - 1)[i] = fr[1 + i - 1]
  BY <1>2, <1>3, SubSeqProperties
<1>5. QED  BY <1>1, <1>3, <1>4 DEF Front

\* Taking a vector adds one unfinished handler, unless it is the debug handler.
LEMMA OpenEnter ==
  ASSUME NEW fr \in Seq(Frame), NEW f \in SUBSET Flag, NEW vec \in 0..255
  PROVE  /\ Open(Enter(fr, f, vec))
              = IF vec = DEBUG THEN Open(fr) ELSE Open(fr) \cup {Len(fr) + 1}
         /\ \A k \in Open(fr) : Enter(fr, f, vec)[k] = fr[k] /\ k \in 1..Len(fr)
<1> DEFINE g == Enter(fr, f, vec)
<1>1. Len(fr) \in Nat /\ DOMAIN fr = 1..Len(fr)
  BY LenProperties
<1>2. DOMAIN g = 1..(Len(fr) + 1)
  <2>1. g \in Seq(Frame) /\ Len(g) = Len(fr) + 1
    BY EnterProperties
  <2>2. QED  BY <2>1, LenProperties
<1>3. g[Len(fr) + 1].eoi <=> vec = DEBUG
  <2> DEFINE c == [vec |-> vec, flags |-> f, eoi |-> vec = DEBUG]
  <2>1. c.eoi <=> vec = DEBUG
    BY Zenon
  <2>2. g[Len(fr) + 1] = c
    BY EnterProperties
  <2> HIDE DEF c, g
  <2>3. QED  BY <2>1, <2>2
<1>4. \A k \in 1..Len(fr) : g[k] = fr[k]
  BY EnterProperties
<1> HIDE DEF g
<1>5. 1..(Len(fr) + 1) = (1..Len(fr)) \cup {Len(fr) + 1} /\ Len(fr) + 1 \notin 1..Len(fr)
  BY <1>1
<1>6. Open(g) = IF vec = DEBUG THEN Open(fr) ELSE Open(fr) \cup {Len(fr) + 1}
  BY <1>1, <1>2, <1>3, <1>4, <1>5 DEF Open
<1>7. \A k \in Open(fr) : g[k] = fr[k] /\ k \in 1..Len(fr)
  BY <1>1, <1>4 DEF Open
<1>8. QED  BY <1>6, <1>7 DEF g

\* The handler that sends its EOI leaves the others as they are.
LEMMA OpenEoi ==
  ASSUME NEW fr \in Seq(Frame), fr # <<>>
  PROVE  LET g == [fr EXCEPT ![Len(fr)].eoi = TRUE]
         IN  /\ g \in Seq(Frame) /\ Len(g) = Len(fr)
             /\ Open(g) = Open(fr) \ {Len(fr)}
             /\ \A k \in Open(g) : g[k] = fr[k]
<1> DEFINE c == [fr[Len(fr)] EXCEPT !.eoi = TRUE]
           g == [fr EXCEPT ![Len(fr)] = c]
<1>1. Len(fr) \in Nat \ {0} /\ Len(fr) \in 1..Len(fr)
  BY FrontProperties
<1>2. fr[Len(fr)] \in Frame
  BY <1>1, ElementOfSeq
<1>3. c \in Frame /\ c.eoi
  BY <1>2 DEF Frame
<1> HIDE DEF c
<1>4. /\ g \in Seq(Frame) /\ Len(g) = Len(fr)
      /\ \A j \in 1..Len(fr) : g[j] = IF j = Len(fr) THEN c ELSE fr[j]
  BY <1>1, <1>3, ExceptSeq
<1>5. DOMAIN g = 1..Len(fr) /\ DOMAIN fr = 1..Len(fr)
  BY <1>4, LenProperties
<1> HIDE DEF g
<1>6. Open(g) = Open(fr) \ {Len(fr)} /\ \A k \in Open(g) : g[k] = fr[k]
  BY <1>3, <1>4, <1>5 DEF Open
<1>7. QED  BY <1>4, <1>6 DEF g, c

\* Returning from a handler that has sent its EOI changes no unfinished one.
LEMMA OpenFront ==
  ASSUME NEW fr \in Seq(Frame), fr # <<>>, fr[Len(fr)].eoi
  PROVE  /\ Open(Front(fr)) = Open(fr)
         /\ \A k \in Open(fr) : Front(fr)[k] = fr[k]
<1>1. Len(fr) \in Nat \ {0} /\ DOMAIN fr = 1..Len(fr)
      /\ DOMAIN Front(fr) = 1..(Len(fr) - 1)
  BY FrontProperties, LenProperties
<1>2. 1..Len(fr) = (1..(Len(fr) - 1)) \cup {Len(fr)}
  BY <1>1
<1>3. \A k \in 1..(Len(fr) - 1) : Front(fr)[k] = fr[k]
  BY FrontProperties
<1>4. QED  BY <1>1, <1>2, <1>3 DEF Open
-----------------------------------------------------------------------------
(* Part of the inductive invariant that does not depend on the guest's     *)
(* discipline: the controller stays initialised with vectors from 8, and   *)
(* requests and unfinished handlers are of the lines in use.               *)

PathInv(p, fr) ==
  /\ p.step = 5 /\ p.icw[2] = {3}
  /\ p.request \subseteq Irqs
  /\ \A k \in Open(fr) : LineOf(fr[k]) \in Irqs

LEMMA VectorFromEight ==
  ASSUME NEW p \in PicState, p.icw[2] = {3}, Deliverable(p) # {}
  PROVE  Vector(p) = 8 + NextLine(p) /\ NextLine(p) \in Bit
<1>1. NextLine(p) \in Bit
  BY AckType DEF PicState, Byte
<1>2. ByteValue(p.icw[2]) = 8
  BY DEF ByteValue
<1>3. 8 + NextLine(p) \in 8..15
  BY <1>1 DEF Bit
<1>4. \A n \in 8..15 : n % 256 = n
  OBVIOUS
<1> HIDE DEF ByteValue
<1>5. QED  BY <1>1, <1>2, <1>3, <1>4 DEF Vector

LEMMA CheckPreserves ==
  ASSUME NEW p, NEW f, NEW fr, Typed(p, f, fr), trap \in BOOLEAN,
         PathInv(p, fr), CheckInterrupts(p, f, fr), guest' \in Guest
  PROVE  IrqTypeOK' /\ PathInv(pic', frames')
<1>0. p \in PicState /\ f \in SUBSET Flag /\ fr \in Seq(Frame)
  BY DEF Typed
<1>1. trap' \in BOOLEAN /\ flags' \in SUBSET Flag
  <2>1. trap' = TRUE \/ trap' = FALSE
    BY DEF CheckInterrupts
  <2>2. flags' = {} \/ flags' = f
    BY DEF CheckInterrupts
  <2>3. QED  BY <1>0, <2>1, <2>2
<1>2. CASE TakesTrap(f)
  <2>1. pic' = p /\ frames' = Enter(fr, f, DEBUG)
    BY <1>2 DEF CheckInterrupts, TakesIrq
  <2>2. DEBUG \in 0..255
    BY DEF DEBUG
  <2>3. Open(frames') = Open(fr) /\ frames' \in Seq(Frame)
    BY <1>0, <2>1, <2>2, OpenEnter, EnterProperties, ZenonT(30)
  <2>4. \A k \in Open(fr) : frames'[k] = fr[k]
    BY <1>0, <2>1, <2>2, OpenEnter
  <2>5. QED  BY <1>0, <1>1, <2>1, <2>3, <2>4 DEF IrqTypeOK, PathInv
<1>3. CASE TakesIrq(p, f)
  <2> DEFINE n == NextLine(p)
  <2>1. pic' = PicAck(p) /\ frames' = Enter(fr, f, Vector(p)) /\ Deliverable(p) # {}
    BY <1>3 DEF CheckInterrupts, TakesIrq
  <2>2. Vector(p) = 8 + n /\ n \in Bit /\ Vector(p) \in 0..255 /\ Vector(p) # DEBUG
    <3>1. Vector(p) = 8 + n /\ n \in Bit
      BY <1>0, <2>1, VectorFromEight DEF PathInv
    <3> HIDE DEF n
    <3>2. QED  BY <3>1 DEF Bit, DEBUG
  <2>3. Open(frames') = Open(fr) \cup {Len(fr) + 1}
    BY <1>0, <2>1, <2>2, OpenEnter
  <2>4. \A k \in Open(fr) : frames'[k] = fr[k]
    BY <1>0, <2>1, <2>2, OpenEnter
  <2>5. frames'[Len(fr) + 1].vec = 8 + n /\ frames' \in Seq(Frame)
    <3>1. \A v \in 0..255 : /\ Enter(fr, f, v)[Len(fr) + 1].vec = v
                            /\ Enter(fr, f, v) \in Seq(Frame)
      BY <1>0, EnterProperties
    <3> HIDE DEF n
    <3>2. QED  BY <2>1, <2>2, <3>1
  <2>6. n \in Irqs
    BY <1>0, <2>1, AckFields DEF PathInv
  <2>7. LineOf(frames'[Len(fr) + 1]) \in Irqs
    BY <2>2, <2>5, <2>6 DEF LineOf, Bit
  <2>8. /\ pic' \in PicState /\ pic'.step = 5 /\ pic'.icw[2] = {3}
        /\ pic'.request \subseteq Irqs
    BY <1>0, <2>1, AckFields, AckType DEF PathInv
  <2>9. QED  BY <1>1, <2>3, <2>4, <2>5, <2>7, <2>8 DEF IrqTypeOK, PathInv
<1>4. CASE ~TakesTrap(f) /\ ~TakesIrq(p, f)
  BY <1>0, <1>1, <1>4 DEF CheckInterrupts, IrqTypeOK, PathInv
<1>5. QED  BY <1>2, <1>3, <1>4
-----------------------------------------------------------------------------
(* What each instruction hands to check_interrupts.                        *)

GuestStep ==
  \/ Other
  \/ \E f \in SUBSET Flag : SetFlags(f)
  \/ \E m \in Masks : WriteMask(m)
  \/ SendEoi
  \/ Iret

\* An instruction leaves the lines in service and the unfinished handlers alone,
\* or it is the EOI of the innermost handler.
Unfinished(fr) == /\ Open(fr) \subseteq Open(frames)
                  /\ \A k \in Open(fr) : fr[k] = frames[k]
ExecEffect(p, fr) ==
  /\ Unfinished(fr) /\ p.request = pic.request
  /\ \/ p.service = pic.service /\ Open(fr) = Open(frames)
     \/ /\ p = EndOfInterrupt(pic)
        /\ Len(frames) \in Open(frames)
        /\ Open(fr) = Open(frames) \ {Len(frames)}

\* Whatever the instruction, check_interrupts starts from a typed state that
\* satisfies the path invariant.
LEMMA ExecPreserves ==
  ASSUME IrqTypeOK, PathInv(pic, frames), GuestStep
  PROVE  \E p, f, fr : /\ Typed(p, f, fr) /\ PathInv(p, fr)
                       /\ ExecEffect(p, fr) /\ MayEnable(p, f, fr)
                       /\ CheckInterrupts(p, f, fr)
<1> USE DEF Unfinished, ExecEffect
<1>0. /\ pic \in PicState /\ flags \in SUBSET Flag /\ frames \in Seq(Frame)
      /\ pic.step = 5 /\ pic.icw[2] = {3} /\ pic.request \subseteq Irqs
      /\ \A k \in Open(frames) : LineOf(frames[k]) \in Irqs
  BY DEF IrqTypeOK, PathInv
<1>1. CASE Other
  <2>1. /\ Typed(pic, flags, frames) /\ CheckInterrupts(pic, flags, frames)
        /\ ExecEffect(pic, frames) /\ MayEnable(pic, flags, frames)
    BY <1>0, <1>1 DEF Other, Step, Typed
  <2>2. QED  BY <2>1
<1>2. ASSUME NEW f \in SUBSET Flag, SetFlags(f)
      PROVE  /\ Typed(pic, f, frames) /\ CheckInterrupts(pic, f, frames)
             /\ ExecEffect(pic, frames) /\ MayEnable(pic, f, frames)
  BY <1>0, <1>2 DEF SetFlags, Step, Typed
<1>3. ASSUME NEW m \in Masks, WriteMask(m)
      PROVE  LET p == PicData(pic, m)
             IN  /\ Typed(p, flags, frames) /\ PathInv(p, frames)
                 /\ ExecEffect(p, frames) /\ MayEnable(p, flags, frames)
                 /\ CheckInterrupts(p, flags, frames)
  <2>1. m \in Byte
    BY IrqPathAssumption
  <2>2. PicData(pic, m) = [pic EXCEPT !.mask = m]
    BY <1>0, <2>1, MaskWrite
  <2> DEFINE p == [pic EXCEPT !.mask = m]
  <2>3. p \in PicState /\ p.step = 5 /\ p.icw[2] = {3} /\ p.request \subseteq Irqs
        /\ p.service = pic.service /\ p.request = pic.request
    BY <1>0, <2>1 DEF PicState
  <2> HIDE DEF p
  <2>4. Typed(p, flags, frames) /\ PathInv(p, frames) /\ ExecEffect(p, frames)
    BY <1>0, <2>3 DEF Typed, PathInv
  <2>5. /\ CheckInterrupts(PicData(pic, m), flags, frames)
        /\ MayEnable(PicData(pic, m), flags, frames)
    BY <1>3 DEF WriteMask, Step
  <2>6. QED  BY <2>2, <2>4, <2>5 DEF p
<1>4. CASE SendEoi
  <2> DEFINE p == EndOfInterrupt(pic)
             fr == [frames EXCEPT ![Len(frames)].eoi = TRUE]
  <2>1. /\ frames # <<>> /\ CheckInterrupts(p, flags, fr) /\ MayEnable(p, flags, fr)
        /\ ~frames[Len(frames)].eoi
    BY <1>0, <1>4, EoiWrite DEF SendEoi, Step, Innermost
  <2>2. /\ p \in PicState /\ p.step = 5 /\ p.icw[2] = {3}
        /\ p.request \subseteq Irqs /\ p.request = pic.request
    BY <1>0, EoiFields
  <2>3. /\ fr \in Seq(Frame) /\ Open(fr) = Open(frames) \ {Len(frames)}
        /\ \A k \in Open(fr) : fr[k] = frames[k]
    BY <1>0, <2>1, OpenEoi
  <2>4. Len(frames) \in Open(frames)
    BY <1>0, <2>1, FrontProperties, LenProperties DEF Open
  <2>5. ExecEffect(p, fr)
    BY <2>2, <2>3, <2>4
  <2> HIDE DEF p, fr
  <2>6. Typed(p, flags, fr) /\ PathInv(p, fr)
    BY <1>0, <2>2, <2>3 DEF Typed, PathInv
  <2>7. QED  BY <2>1, <2>5, <2>6
<1>5. CASE Iret
  <2> DEFINE f == Innermost.flags
             fr == Front(frames)
  <2>1. frames # <<>> /\ frames[Len(frames)].eoi /\ CheckInterrupts(pic, f, fr)
        /\ MayEnable(pic, f, fr)
    BY <1>5 DEF Iret, Step, Innermost
  <2>2. frames[Len(frames)] \in Frame
    BY <1>0, <2>1, FrontProperties, ElementOfSeq
  <2>3. f \in SUBSET Flag
    BY <2>2 DEF Innermost, Frame
  <2>4. /\ fr \in Seq(Frame) /\ Open(fr) = Open(frames)
        /\ \A k \in Open(frames) : fr[k] = frames[k]
    BY <1>0, <2>1, OpenFront, FrontProperties
  <2> HIDE DEF f, fr
  <2>5. Typed(pic, f, fr) /\ PathInv(pic, fr) /\ ExecEffect(pic, fr)
    BY <1>0, <2>3, <2>4 DEF Typed, PathInv
  <2>6. QED  BY <2>1, <2>5
<1>6. PathInv(pic, frames)
  OBVIOUS
<1>7. QED  BY <1>1, <1>2, <1>3, <1>4, <1>5, <1>6 DEF GuestStep
\* The registers and the stack keep their types, the controller stays initialised
\* and only lines in use are ever requested or handled.
IrqInv == IrqTypeOK /\ PathInv(pic, frames)

LEMMA BootedState ==
  /\ Booted \in PicState /\ Booted.step = 5 /\ Booted.icw[2] = {3}
  /\ Booted.request = {} /\ Booted.service = {}
BY InitialisedState DEF Booted

\* Nobody changes what was left open about the guest.
LEMMA SameGuest == [IrqNext]_irqVars => guest' = guest
BY DEF IrqNext, irqVars, RaiseIrq, Other, SetFlags, WriteMask, SendEoi, Iret, Step

LEMMA IrqInvStep == IrqInv /\ [IrqNext]_irqVars => IrqInv'
<1> SUFFICES ASSUME IrqInv, [IrqNext]_irqVars PROVE IrqInv'
  OBVIOUS
<1> USE DEF IrqInv
<1>0. guest' \in Guest
  BY SameGuest DEF IrqTypeOK
<1>1. CASE GuestStep
  <2>1. PICK p, f, fr : Typed(p, f, fr) /\ PathInv(p, fr) /\ CheckInterrupts(p, f, fr)
    BY <1>1, ExecPreserves
  <2>2. QED  BY <1>0, <2>1, CheckPreserves DEF IrqTypeOK
<1>2. ASSUME NEW n \in Irqs, RaiseIrq(n) PROVE IrqInv'
  <2>1. n \in Bit /\ pic \in PicState
    BY IrqPathAssumption DEF Byte, IrqTypeOK
  <2>2. pic' \in PicState
    BY <1>2, <2>1, IrqType DEF RaiseIrq
  <2>3. /\ pic'.step = pic.step /\ pic'.icw = pic.icw
        /\ pic'.request = pic.request \cup {n}
    BY <1>2, <2>1 DEF RaiseIrq, PicIrq, PicState
  <2>4. QED  BY <1>0, <1>2, <2>2, <2>3 DEF RaiseIrq, IrqTypeOK, PathInv
<1>3. CASE UNCHANGED irqVars
  BY <1>3 DEF irqVars, IrqTypeOK, PathInv
<1>4. QED  BY <1>1, <1>2, <1>3 DEF IrqNext, GuestStep

LEMMA IrqInvInit == IrqInit => IrqInv
<1> SUFFICES ASSUME IrqInit PROVE IrqInv
  OBVIOUS
<1>1. frames \in Seq(Frame) /\ Open(frames) = {}
  BY EmptySeq, LenProperties DEF IrqInit, Open
<1>2. QED  BY <1>1, BootedState DEF IrqInit, IrqInv, IrqTypeOK, PathInv

\* The type invariant of the interrupt path.
THEOREM IrqPathTyped == IrqSpec => []IrqTypeOK
<1>1. IrqInv => IrqTypeOK
  BY DEF IrqInv
<1>2. QED  BY <1>1, IrqInvInit, IrqInvStep, PTL DEF IrqSpec
-----------------------------------------------------------------------------
(* What check_interrupts does to the lines in service and to the           *)
(* unfinished handlers: nothing, or it starts the handler of one more line. *)

CheckEffect(p, f, fr) ==
  \/ pic' = p /\ Open(frames') = Open(fr) /\ \A k \in Open(fr) : frames'[k] = fr[k]
  \/ /\ "INTERRUPT" \in f /\ Deliverable(p) # {} /\ pic' = PicAck(p)
     /\ Open(frames') = Open(fr) \cup {Len(fr) + 1}
     /\ \A k \in Open(fr) : frames'[k] = fr[k] /\ k \in 1..Len(fr)
     /\ LineOf(frames'[Len(fr) + 1]) = NextLine(p)

LEMMA CheckStarts ==
  ASSUME NEW p, NEW f, NEW fr, Typed(p, f, fr), PathInv(p, fr),
         CheckInterrupts(p, f, fr)
  PROVE  CheckEffect(p, f, fr)
<1>0. p \in PicState /\ f \in SUBSET Flag /\ fr \in Seq(Frame)
  BY DEF Typed
<1>1. CASE TakesTrap(f)
  <2>1. pic' = p /\ frames' = Enter(fr, f, DEBUG)
    BY <1>1 DEF CheckInterrupts, TakesIrq
  <2>2. DEBUG \in 0..255
    BY DEF DEBUG
  <2>3. Open(frames') = Open(fr) /\ \A k \in Open(fr) : frames'[k] = fr[k]
    BY <1>0, <2>1, <2>2, OpenEnter
  <2>4. QED  BY <2>1, <2>3 DEF CheckEffect
<1>2. CASE TakesIrq(p, f)
  <2> DEFINE n == NextLine(p)
  <2>1. /\ pic' = PicAck(p) /\ frames' = Enter(fr, f, Vector(p))
        /\ Deliverable(p) # {} /\ "INTERRUPT" \in f
    BY <1>2 DEF CheckInterrupts, TakesIrq
  <2>2. Vector(p) = 8 + n /\ n \in Bit
    BY <1>0, <2>1, VectorFromEight DEF PathInv
  <2> HIDE DEF n
  <2>3. Vector(p) \in 0..255 /\ Vector(p) # DEBUG
    BY <2>2 DEF Bit, DEBUG
  <2>4. /\ Open(frames') = Open(fr) \cup {Len(fr) + 1}
        /\ \A k \in Open(fr) : frames'[k] = fr[k] /\ k \in 1..Len(fr)
    <3> DEFINE v == Vector(p)
    <3> HIDE DEF v
    <3>1. frames' = Enter(fr, f, v) /\ v \in 0..255 /\ v # DEBUG
      BY <2>1, <2>3 DEF v
    <3>2. /\ Open(Enter(fr, f, v)) = Open(fr) \cup {Len(fr) + 1}
          /\ \A k \in Open(fr) : Enter(fr, f, v)[k] = fr[k] /\ k \in 1..Len(fr)
      BY <1>0, <3>1, OpenEnter, ZenonT(30)
    <3>3. QED  BY <3>1, <3>2
  <2>5. frames'[Len(fr) + 1].vec = Vector(p)
    BY <1>0, <2>1, <2>3, EnterProperties
  <2>6. LineOf(frames'[Len(fr) + 1]) = n
    BY <2>2, <2>5 DEF LineOf, Bit
  <2>7. QED  BY <2>1, <2>4, <2>6 DEF CheckEffect, n
<1>3. CASE ~TakesTrap(f) /\ ~TakesIrq(p, f)
  BY <1>3 DEF CheckInterrupts, CheckEffect
<1>4. QED  BY <1>1, <1>2, <1>3

\* The two halves of a guest's instruction, seen together.
LEMMA GuestStepEffect ==
  ASSUME IrqInv, GuestStep
  PROVE  \E p, f, fr : /\ Typed(p, f, fr) /\ PathInv(p, fr)
                       /\ ExecEffect(p, fr) /\ MayEnable(p, f, fr)
                       /\ CheckEffect(p, f, fr)
BY ExecPreserves, CheckStarts DEF IrqInv

\* A device's request changes neither the lines in service nor the handlers.
LEMMA RaiseEffect ==
  ASSUME IrqInv, NEW n \in Irqs, RaiseIrq(n)
  PROVE  /\ pic'.service = pic.service /\ frames' = frames
         /\ pic'.request = pic.request \cup {n}
BY DEF IrqInv, IrqTypeOK, RaiseIrq, PicIrq, PicState
-----------------------------------------------------------------------------
(* As many lines in service as unfinished handlers.                        *)

Balanced(p, fr) == Cardinality(p.service) = Cardinality(Open(fr))

LEMMA FiniteSides ==
  ASSUME NEW p \in PicState, NEW fr \in Seq(Frame)
  PROVE  IsFiniteSet(p.service) /\ IsFiniteSet(Open(fr)) /\ Len(fr) + 1 \notin Open(fr)
<1>1. Len(fr) \in Nat /\ DOMAIN fr = 1..Len(fr)
  BY LenProperties
<1>2. Open(fr) \subseteq 1..Len(fr) /\ Len(fr) + 1 \notin 1..Len(fr)
  BY <1>1 DEF Open
<1>3. p.service \subseteq 0..7
  BY DEF PicState, Byte, Bit
<1>4. IsFiniteSet(1..Len(fr)) /\ IsFiniteSet(0..7)
  <2>1. Len(fr) \in Int /\ 0 \in Int /\ 1 \in Int /\ 7 \in Int
    BY <1>1
  <2>2. QED  BY <2>1, FS_Interval, Zenon
<1>5. QED  BY <1>2, <1>3, <1>4, FS_Subset

LEMMA BalanceExec ==
  ASSUME IrqTypeOK, Balanced(pic, frames), NEW p, NEW fr, ExecEffect(p, fr)
  PROVE  Balanced(p, fr)
<1>1. pic \in PicState /\ frames \in Seq(Frame)
  BY DEF IrqTypeOK
<1>2. IsFiniteSet(pic.service) /\ IsFiniteSet(Open(frames))
  BY <1>1, FiniteSides
<1>3. CASE p.service = pic.service /\ Open(fr) = Open(frames)
  BY <1>3 DEF Balanced
<1>4. CASE /\ p = EndOfInterrupt(pic) /\ Len(frames) \in Open(frames)
           /\ Open(fr) = Open(frames) \ {Len(frames)}
  <2>1. Cardinality(Open(fr)) = Cardinality(Open(frames)) - 1
    BY <1>2, <1>4, FS_RemoveElement
  <2>2. pic.service # {}
    <3>1. Open(frames) # {} /\ Cardinality(Open(frames)) # 0
      BY <1>2, <1>4, FS_EmptySet
    <3>2. QED  BY <3>1, FS_EmptySet DEF Balanced
  <2>3. p.service = pic.service \ {Min(pic.service)} /\ Min(pic.service) \in pic.service
    BY <1>1, <1>4, <2>2, EoiFields
  <2>4. Cardinality(p.service) = Cardinality(pic.service) - 1
    BY <1>2, <2>3, FS_RemoveElement
  <2>5. QED  BY <2>1, <2>4 DEF Balanced
<1>5. QED  BY <1>3, <1>4 DEF ExecEffect

LEMMA BalanceCheck ==
  ASSUME NEW p, NEW f, NEW fr, Typed(p, f, fr), Balanced(p, fr), CheckEffect(p, f, fr)
  PROVE  Balanced(pic, frames)'
<1>1. p \in PicState /\ fr \in Seq(Frame)
  BY DEF Typed
<1>2. CASE pic' = p /\ Open(frames') = Open(fr)
  BY <1>2 DEF Balanced
<1>3. CASE /\ Deliverable(p) # {} /\ pic' = PicAck(p)
           /\ Open(frames') = Open(fr) \cup {Len(fr) + 1}
  <2>1. IsFiniteSet(p.service) /\ IsFiniteSet(Open(fr)) /\ Len(fr) + 1 \notin Open(fr)
    BY <1>1, FiniteSides
  <2>2. Cardinality(Open(frames')) = Cardinality(Open(fr)) + 1
    BY <1>3, <2>1, FS_AddElement
  <2>3. pic'.service = p.service \cup {NextLine(p)} /\ NextLine(p) \notin p.service
    BY <1>1, <1>3, AckFields
  <2>4. Cardinality(pic'.service) = Cardinality(p.service) + 1
    BY <2>1, <2>3, FS_AddElement
  <2>5. QED  BY <2>2, <2>4 DEF Balanced
<1>4. QED  BY <1>2, <1>3 DEF CheckEffect

\* However handlers nest and whichever line an EOI hits, the controller has as many
\* lines in service as there are handlers that still owe their EOI.
THEOREM IrqPathBalanced == IrqSpec => []EoiBalance
<1>1. IrqInit => IrqInv /\ Balanced(pic, frames)
  <2> SUFFICES ASSUME IrqInit PROVE IrqInv /\ Balanced(pic, frames)
    OBVIOUS
  <2>1. Open(frames) = {} /\ pic.service = {}
    BY BootedState DEF IrqInit, Open
  <2>2. QED  BY <2>1, IrqInvInit DEF Balanced
<1>2. IrqInv /\ Balanced(pic, frames) /\ [IrqNext]_irqVars => IrqInv' /\ Balanced(pic, frames)'
  <2> SUFFICES ASSUME IrqInv, Balanced(pic, frames), [IrqNext]_irqVars
               PROVE  Balanced(pic, frames)'
    BY IrqInvStep
  <2>1. CASE GuestStep
    <3>1. PICK p, f, fr : Typed(p, f, fr) /\ ExecEffect(p, fr) /\ CheckEffect(p, f, fr)
      BY <2>1, GuestStepEffect
    <3>2. Balanced(p, fr)
      BY <3>1, BalanceExec DEF IrqInv
    <3>3. QED  BY <3>1, <3>2, BalanceCheck
  <2>2. ASSUME NEW n \in Irqs, RaiseIrq(n) PROVE Balanced(pic, frames)'
    BY <2>2, RaiseEffect DEF Balanced
  <2>3. CASE UNCHANGED irqVars
    BY <2>3 DEF irqVars, Balanced
  <2>4. QED  BY <2>1, <2>2, <2>3 DEF IrqNext, GuestStep
<1>3. Balanced(pic, frames) <=> EoiBalance
  BY DEF Balanced, EoiBalance
<1>4. QED  BY <1>1, <1>2, <1>3, PTL DEF IrqSpec
-----------------------------------------------------------------------------
(* A request that disappears has become the context of its own handler.    *)

Entered(n) ==
  /\ frames' # <<>>
  /\ frames'[Len(frames')] = [vec |-> 8 + n, eoi |-> FALSE,
                              flags |-> frames'[Len(frames')].flags]
  /\ "INTERRUPT" \in frames'[Len(frames')].flags
  /\ flags' = {}

LEMMA RequestEnters ==
  ASSUME NEW p, NEW f, NEW fr, Typed(p, f, fr), PathInv(p, fr),
         CheckInterrupts(p, f, fr), NEW n \in p.request, n \notin pic'.request
  PROVE  Entered(n)
<1>0. p \in PicState /\ f \in SUBSET Flag /\ fr \in Seq(Frame)
  BY DEF Typed
<1>1. CASE TakesIrq(p, f)
  <2> DEFINE v == Vector(p)
             g == Enter(fr, f, v)
             c == [vec |-> v, flags |-> f, eoi |-> v = DEBUG]
             d == [vec |-> v, eoi |-> FALSE, flags |-> f]
  <2>1. /\ pic' = PicAck(p) /\ frames' = g /\ Deliverable(p) # {}
        /\ "INTERRUPT" \in f /\ flags' = {}
    BY <1>1 DEF CheckInterrupts, TakesIrq
  <2>2. n = NextLine(p)
    BY <1>0, <2>1, AckFields
  <2>3. v = 8 + n /\ n \in Bit
    BY <1>0, <2>1, <2>2, VectorFromEight DEF PathInv
  <2> HIDE DEF v
  <2>4. v \in 0..255 /\ v # DEBUG
    BY <2>3 DEF Bit, DEBUG
  <2>5. Len(g) = Len(fr) + 1 /\ Len(fr) \in Nat /\ g[Len(fr) + 1] = c /\ g \in Seq(Frame)
    <3>1. Len(g) = Len(fr) + 1 /\ g[Len(fr) + 1] = c /\ g \in Seq(Frame)
      <4>1. Len(g) = Len(fr) + 1
        BY <1>0, <2>4, EnterProperties, ZenonT(30)
      <4>2. g[Len(fr) + 1] = c
        BY <1>0, <2>4, EnterProperties, ZenonT(30)
      <4>3. g \in Seq(Frame)
        BY <1>0, <2>4, EnterProperties, ZenonT(30)
      <4>4. QED  BY <4>1, <4>2, <4>3
    <3>2. QED  BY <1>0, <3>1, LenProperties
  <2>6. g # <<>>
    <3>1. Len(g) # 0
      BY <2>5
    <3>2. QED  BY <3>1, <2>5, EmptySeq
  <2>7. (v = DEBUG) = FALSE
    BY <2>4
  <2>8. c = d
    BY <2>7
  <2>9. d.flags = f
    OBVIOUS
  <2> HIDE DEF g, c, d
  <2>10. frames'[Len(frames')] = d /\ frames' # <<>>
    BY <2>1, <2>5, <2>6, <2>8
  <2>11. d = [vec |-> 8 + n, eoi |-> FALSE, flags |-> d.flags]
    BY <2>3, <2>9 DEF d
  <2>12. QED  BY <2>1, <2>9, <2>10, <2>11 DEF Entered
<1>2. CASE ~TakesIrq(p, f)
  BY <1>2 DEF CheckInterrupts
<1>3. QED  BY <1>1, <1>2

LEMMA NoLostIrqStep ==
  ASSUME IrqInv, [IrqNext]_irqVars, NEW n \in pic.request \ pic'.request
  PROVE  Entered(n)
<1>1. CASE GuestStep
  <2>1. PICK p, f, fr : Typed(p, f, fr) /\ PathInv(p, fr) /\ ExecEffect(p, fr)
                        /\ CheckInterrupts(p, f, fr)
    BY <1>1, ExecPreserves DEF IrqInv
  <2>2. n \in p.request /\ n \notin pic'.request
    BY <2>1 DEF ExecEffect
  <2>3. QED  BY <2>1, <2>2, RequestEnters
<1>2. ASSUME NEW m \in Irqs, RaiseIrq(m) PROVE Entered(n)
  <2>1. pic'.request = pic.request \cup {m}
    BY <1>2, RaiseEffect
  <2>2. QED  BY <2>1
<1>3. CASE UNCHANGED irqVars
  BY <1>3 DEF irqVars
<1>4. QED  BY <1>1, <1>2, <1>3 DEF IrqNext, GuestStep

\* No request is lost between pic_next and trigger_interrupt.
THEOREM IrqPathKeepsRequests == IrqSpec => NoLostIrq
<1>1. IrqInv /\ [IrqNext]_irqVars
        => [\A n \in pic.request \ pic'.request :
              /\ frames' # <<>>
              /\ frames'[Len(frames')] = [vec |-> 8 + n, eoi |-> FALSE,
                                          flags |-> frames'[Len(frames')].flags]
              /\ "INTERRUPT" \in frames'[Len(frames')].flags
              /\ flags' = {}]_irqVars
  BY NoLostIrqStep DEF Entered
<1>2. QED  BY <1>1, IrqInvInit, IrqInvStep, PTL DEF IrqSpec, NoLostIrq
-----------------------------------------------------------------------------
(* The trap of a single step is remembered until the program has gone on.  *)

\* Only the main program is traced, so the debug handler is the innermost one, and it
\* leaves interrupts disabled.
TrapInv(f, fr) ==
  /\ "TRAP" \in f => fr = <<>>
  /\ \A k \in DOMAIN fr : k > 1 => "TRAP" \notin fr[k].flags
  /\ \A k \in DOMAIN fr : fr[k].vec = DEBUG =>
        /\ k = Len(fr) /\ "INTERRUPT" \notin f
        /\ "INTERRUPT" \in fr[k].flags => trap

\* Contexts that differ in nothing but which handlers have sent their EOI.
LEMMA TrapEoi ==
  ASSUME NEW f, NEW fr \in Seq(Frame), fr # <<>>, TrapInv(f, fr)
  PROVE  TrapInv(f, [fr EXCEPT ![Len(fr)].eoi = TRUE])
<1> DEFINE c == [fr[Len(fr)] EXCEPT !.eoi = TRUE]
           g == [fr EXCEPT ![Len(fr)] = c]
<1>1. Len(fr) \in Nat \ {0} /\ Len(fr) \in 1..Len(fr) /\ DOMAIN fr = 1..Len(fr)
  BY FrontProperties, LenProperties
<1>2. fr[Len(fr)] \in Frame
  BY <1>1, ElementOfSeq
<1>3. c \in Frame /\ c.vec = fr[Len(fr)].vec /\ c.flags = fr[Len(fr)].flags
  BY <1>2 DEF Frame
<1> HIDE DEF c
<1>4. /\ g \in Seq(Frame) /\ Len(g) = Len(fr)
      /\ \A j \in 1..Len(fr) : g[j] = IF j = Len(fr) THEN c ELSE fr[j]
  BY <1>1, <1>3, ExceptSeq
<1>5. DOMAIN g = 1..Len(fr)
  BY <1>4, LenProperties
<1> HIDE DEF g
<1>6. \A k \in DOMAIN fr : g[k].vec = fr[k].vec /\ g[k].flags = fr[k].flags
  BY <1>1, <1>3, <1>4
<1>7. "TRAP" \notin f
  BY DEF TrapInv
<1>8. TrapInv(f, g)
  BY <1>1, <1>4, <1>5, <1>6, <1>7 DEF TrapInv
<1>9. QED  BY <1>8 DEF g, c

\* The interrupted context is taken up again.
LEMMA TrapFront ==
  ASSUME NEW f, NEW fr \in Seq(Frame), fr # <<>>, TrapInv(f, fr)
  PROVE  TrapInv(fr[Len(fr)].flags, Front(fr))
<1>1. /\ Len(fr) \in Nat \ {0} /\ DOMAIN fr = 1..Len(fr)
      /\ Front(fr) \in Seq(Frame) /\ Len(Front(fr)) = Len(fr) - 1
      /\ DOMAIN Front(fr) = 1..(Len(fr) - 1)
      /\ \A k \in 1..(Len(fr) - 1) : Front(fr)[k] = fr[k]
  BY FrontProperties, LenProperties
<1>2. \A k \in DOMAIN Front(fr) : /\ k \in DOMAIN fr /\ k # Len(fr)
                                  /\ Front(fr)[k] = fr[k]
  BY <1>1
<1>3. "TRAP" \in fr[Len(fr)].flags => Front(fr) = <<>>
  <2>1. "TRAP" \in fr[Len(fr)].flags => Len(fr) = 1
    BY <1>1 DEF TrapInv
  <2>2. QED  BY <1>1, <2>1, EmptySeq
<1>4. QED  BY <1>2, <1>3 DEF TrapInv

\* What each instruction hands to check_interrupts.
LEMMA TrapExec ==
  ASSUME IrqInv, TrapInv(flags, frames), GuestStep
  PROVE  \E p, f, fr : /\ Typed(p, f, fr) /\ p.icw[2] = {3}
                       /\ TrapInv(f, fr) /\ CheckInterrupts(p, f, fr)
<1>0. /\ pic \in PicState /\ flags \in SUBSET Flag /\ frames \in Seq(Frame)
      /\ pic.step = 5 /\ pic.icw[2] = {3}
  BY DEF IrqInv, IrqTypeOK, PathInv
<1>1. CASE Other
  BY <1>0, <1>1 DEF Other, Step, Typed
<1>2. ASSUME NEW f \in SUBSET Flag, SetFlags(f) PROVE TrapInv(f, frames)
  <2>1. frames # <<>> /\ frames[Len(frames)].vec = DEBUG => "INTERRUPT" \notin f
    BY <1>2 DEF SetFlags, Innermost
  <2>2. \A k \in DOMAIN frames : frames # <<>>
    BY <1>0, EmptySeq, LenProperties
  <2>3. QED  BY <1>2, <2>1, <2>2 DEF TrapInv, SetFlags
<1>3. ASSUME NEW m \in Masks, WriteMask(m)
      PROVE  LET p == PicData(pic, m)
             IN  Typed(p, flags, frames) /\ p.icw[2] = {3}
  <2>1. PicData(pic, m) = [pic EXCEPT !.mask = m] /\ m \in Byte
    BY <1>0, MaskWrite, IrqPathAssumption
  <2>2. QED  BY <1>0, <2>1 DEF Typed, PicState
<1>4. ASSUME SendEoi
      PROVE  LET p == EndOfInterrupt(pic)
                 fr == [frames EXCEPT ![Len(frames)].eoi = TRUE]
             IN  /\ Typed(p, flags, fr) /\ p.icw[2] = {3}
                 /\ TrapInv(flags, fr) /\ CheckInterrupts(p, flags, fr)
  <2>1. frames # <<>>
    BY <1>4 DEF SendEoi
  <2>2. QED  BY <1>0, <1>4, <2>1, EoiWrite, EoiFields, OpenEoi, TrapEoi
             DEF SendEoi, Step, Typed
<1>5. ASSUME Iret
      PROVE  LET f == frames[Len(frames)].flags
             IN  /\ Typed(pic, f, Front(frames)) /\ pic.icw[2] = {3}
                 /\ TrapInv(f, Front(frames)) /\ CheckInterrupts(pic, f, Front(frames))
  <2>1. frames # <<>> /\ frames[Len(frames)] \in Frame
    BY <1>0, <1>5, FrontProperties, ElementOfSeq DEF Iret
  <2>2. frames[Len(frames)].flags \in SUBSET Flag
    BY <2>1 DEF Frame
  <2>3. QED  BY <1>0, <1>5, <2>1, <2>2, FrontProperties, TrapFront
             DEF Iret, Step, Typed, Innermost
<1>6. QED  BY <1>0, <1>1, <1>2, <1>3, <1>4, <1>5
           DEF GuestStep, SetFlags, WriteMask, Step, Typed

\* What check_interrupts pushes on a stack of contexts keeps the debug handler on top.
LEMMA TrapEnter ==
  ASSUME NEW f \in SUBSET Flag, NEW fr \in Seq(Frame), TrapInv(f, fr),
         NEW vec \in 0..255, frames' = Enter(fr, f, vec), flags' = {},
         \A k \in DOMAIN fr : fr[k].vec # DEBUG,
         vec = DEBUG /\ "INTERRUPT" \in f => trap'
  PROVE  TrapInv(flags, frames)'
<1>1. /\ frames' \in Seq(Frame) /\ Len(frames') = Len(fr) + 1
      /\ \A k \in 1..Len(fr) : frames'[k] = fr[k]
      /\ frames'[Len(fr) + 1].vec = vec /\ frames'[Len(fr) + 1].flags = f
  <2> DEFINE g == Enter(fr, f, vec)
  <2>1. /\ g \in Seq(Frame) /\ Len(g) = Len(fr) + 1
        /\ \A k \in 1..Len(fr) : g[k] = fr[k]
        /\ g[Len(fr) + 1].vec = vec /\ g[Len(fr) + 1].flags = f
    <3>1. g[Len(fr) + 1].flags = f
      BY EnterFlags, ZenonT(30)
    <3>2. /\ g \in Seq(Frame) /\ Len(g) = Len(fr) + 1
          /\ \A k \in 1..Len(fr) : g[k] = fr[k]
          /\ g[Len(fr) + 1].vec = vec
      BY EnterProperties, ZenonT(30)
    <3>3. QED  BY <3>1, <3>2
  <2>2. frames' = g
    OBVIOUS
  <2> HIDE DEF g
  <2>3. QED  BY <2>1, <2>2
<1>2. Len(fr) \in Nat /\ DOMAIN fr = 1..Len(fr) /\ DOMAIN frames' = 1..(Len(fr) + 1)
  BY <1>1, LenProperties
<1>3. \A k \in DOMAIN frames' : k \in DOMAIN fr \/ k = Len(fr) + 1
  BY <1>2
<1>4. Len(fr) + 1 > 1 => "TRAP" \notin f
  BY <1>2, EmptySeq DEF TrapInv
<1>5. QED  BY <1>1, <1>2, <1>3, <1>4 DEF TrapInv

LEMMA TrapCheck ==
  ASSUME NEW p, NEW f, NEW fr, Typed(p, f, fr), p.icw[2] = {3}, TrapInv(f, fr),
         CheckInterrupts(p, f, fr)
  PROVE  TrapInv(flags, frames)'
<1>0. p \in PicState /\ f \in SUBSET Flag /\ fr \in Seq(Frame)
  BY DEF Typed
<1>1. CASE TakesTrap(f)
  <2>0. fr = <<>> /\ ~TakesIrq(p, f)
    BY <1>1 DEF TakesTrap, TakesIrq, TrapInv
  <2>1. frames' = Enter(fr, f, DEBUG) /\ flags' = {} /\ fr = <<>>
    BY <1>1, <2>0 DEF CheckInterrupts
  <2>2. "INTERRUPT" \in f => trap'
    BY <1>1, Zenon DEF CheckInterrupts
  <2>3. DEBUG \in 0..255 /\ \A k \in DOMAIN fr : FALSE
    BY <2>1, LenProperties DEF DEBUG
  <2>4. QED  BY <1>0, <2>1, <2>2, <2>3, TrapEnter
<1>2. CASE TakesIrq(p, f)
  <2>1. /\ frames' = Enter(fr, f, Vector(p)) /\ flags' = {}
        /\ "INTERRUPT" \in f /\ Deliverable(p) # {}
    BY <1>2 DEF CheckInterrupts, TakesIrq
  <2>2. Vector(p) \in 0..255 /\ Vector(p) # DEBUG
    <3>1. Vector(p) = 8 + NextLine(p) /\ NextLine(p) \in Bit
      BY <1>0, <2>1, VectorFromEight
    <3>2. QED  BY <3>1 DEF Bit, DEBUG
  <2>3. \A k \in DOMAIN fr : fr[k].vec # DEBUG
    BY <2>1 DEF TrapInv
  <2>4. QED  BY <1>0, <2>1, <2>2, <2>3, TrapEnter
<1>3. CASE ~TakesTrap(f) /\ ~TakesIrq(p, f)
  BY <1>3 DEF CheckInterrupts, TrapInv
<1>4. QED  BY <1>1, <1>2, <1>3

\* A guest that is traced goes on: the debug handler's IRET lets it execute an
\* instruction before the next trap (cpu.odin:96-101).
THEOREM TrapIsRemembered == IrqSpec => []TrapRemembered
<1>1. IrqInit => IrqInv /\ TrapInv(flags, frames)
  <2> SUFFICES ASSUME IrqInit PROVE TrapInv(flags, frames)
    BY IrqInvInit
  <2>1. frames = <<>> /\ \A k \in DOMAIN frames : FALSE
    BY LenProperties DEF IrqInit
  <2>2. QED  BY <2>1 DEF TrapInv
<1>2. IrqInv /\ TrapInv(flags, frames) /\ [IrqNext]_irqVars
        => IrqInv' /\ TrapInv(flags, frames)'
  <2> SUFFICES ASSUME IrqInv, TrapInv(flags, frames), [IrqNext]_irqVars
               PROVE  TrapInv(flags, frames)'
    BY IrqInvStep
  <2>1. CASE GuestStep
    BY <2>1, TrapExec, TrapCheck
  <2>2. ASSUME NEW n \in Irqs, RaiseIrq(n) PROVE TrapInv(flags, frames)'
    BY <2>2 DEF RaiseIrq, TrapInv
  <2>3. CASE UNCHANGED irqVars
    BY <2>3 DEF irqVars, TrapInv
  <2>4. QED  BY <2>1, <2>2, <2>3 DEF IrqNext, GuestStep
<1>3. IrqInv /\ TrapInv(flags, frames) => TrapRemembered
  <2> SUFFICES ASSUME IrqInv, TrapInv(flags, frames), frames # <<>>
               PROVE  Len(frames) \in DOMAIN frames
    BY DEF TrapInv, TrapRemembered, Innermost
  <2>1. QED  BY FrontProperties, LenProperties DEF IrqInv, IrqTypeOK
<1>4. QED  BY <1>1, <1>2, <1>3, PTL DEF IrqSpec
-----------------------------------------------------------------------------
(* Guests that mask the less urgent lines before they enable interrupts in  *)
(* a handler: their handlers nest by priority, each EOI ends the line of    *)
(* the handler that sends it, and the whole path implements the prioritised *)
(* nest of IrqNest.                                                         *)

Nested(p, fr) == p.service = OpenLines(fr) /\ NestedByPriority(fr)

LEMMA NestTypes ==
  ASSUME NEW p, NEW fr, p \in PicState, fr \in Seq(Frame), PathInv(p, fr)
  PROVE  /\ \A k \in Open(fr) : k \in 1..Len(fr) /\ LineOf(fr[k]) \in Bit
         /\ Len(fr) \in Nat
<1>1. Len(fr) \in Nat /\ DOMAIN fr = 1..Len(fr)
  BY LenProperties
<1>2. QED  BY <1>1, IrqPathAssumption DEF Open, PathInv, Byte

\* The EOI of the innermost handler clears that handler's line.
LEMMA EoiHitsInnermost ==
  ASSUME IrqInv, Nested(pic, frames), Len(frames) \in Open(frames)
  PROVE  LET own == LineOf(frames[Len(frames)])
         IN  /\ EndOfInterrupt(pic).service = pic.service \ {own}
             /\ \A k \in Open(frames) \ {Len(frames)} :
                   k < Len(frames) /\ own < LineOf(frames[k])
<1> DEFINE top == Len(frames)
           own == LineOf(frames[top])
<1>1. pic \in PicState /\ frames \in Seq(Frame) /\ PathInv(pic, frames)
  BY DEF IrqInv, IrqTypeOK
<1>2. /\ \A k \in Open(frames) : k \in 1..top /\ LineOf(frames[k]) \in Bit
      /\ top \in Nat
  BY <1>1, NestTypes
<1>3. \A k \in Open(frames) \ {top} : k < top /\ own < LineOf(frames[k])
  BY <1>2 DEF Nested, NestedByPriority
<1>4. own \in pic.service /\ \A m \in pic.service : own = m \/ own < m
  BY <1>3 DEF Nested, OpenLines
<1>5. Min(pic.service) \in pic.service /\ \A m \in pic.service : Min(pic.service) =< m
  BY <1>1, <1>4, EoiFields
<1>6. \A m \in pic.service : m \in Bit
  BY <1>1 DEF PicState, Byte
<1>7. Min(pic.service) = own
  BY <1>4, <1>5, <1>6 DEF Bit
<1>8. EndOfInterrupt(pic).service = pic.service \ {Min(pic.service)}
  BY <1>1, <1>4, EoiFields
<1>9. QED  BY <1>3, <1>7, <1>8

LEMMA NestExec ==
  ASSUME IrqInv, Nested(pic, frames), NEW p, NEW fr, ExecEffect(p, fr)
  PROVE  Nested(p, fr)
<1>1. CASE p.service = pic.service /\ Open(fr) = Open(frames)
  BY <1>1 DEF Nested, OpenLines, NestedByPriority, ExecEffect, Unfinished
<1>2. CASE /\ p = EndOfInterrupt(pic) /\ Len(frames) \in Open(frames)
           /\ Open(fr) = Open(frames) \ {Len(frames)}
  <2> DEFINE own == LineOf(frames[Len(frames)])
  <2>1. /\ p.service = pic.service \ {own}
        /\ \A k \in Open(fr) : own < LineOf(frames[k])
    BY <1>2, EoiHitsInnermost
  <2>2. \A k \in Open(fr) : fr[k] = frames[k] /\ LineOf(frames[k]) \in Bit
    BY NestTypes DEF ExecEffect, Unfinished, IrqInv, IrqTypeOK
  <2>3. own \in Bit
    BY <1>2, NestTypes DEF IrqInv, IrqTypeOK
  <2>4. \A k \in Open(fr) : own # LineOf(frames[k])
    BY <2>1, <2>2, <2>3 DEF Bit
  <2> HIDE DEF own
  <2>5. OpenLines(frames) = OpenLines(fr) \cup {own}
    BY <1>2, <2>2 DEF OpenLines, own
  <2>6. own \notin OpenLines(fr)
    BY <2>2, <2>4 DEF OpenLines
  <2>7. p.service = OpenLines(fr)
    BY <2>1, <2>5, <2>6 DEF Nested
  <2>8. NestedByPriority(fr)
    BY <1>2, <2>2 DEF Nested, NestedByPriority
  <2>9. QED  BY <2>7, <2>8 DEF Nested
<1>3. QED  BY <1>1, <1>2 DEF ExecEffect

\* The line that a careful guest lets through is more urgent than every line whose
\* handler is unfinished.
LEMMA NextIsMoreUrgent ==
  ASSUME guest.careful, NEW p, NEW f, NEW fr, Typed(p, f, fr), PathInv(p, fr), Nested(p, fr),
         MayEnable(p, f, fr), "INTERRUPT" \in f, Deliverable(p) # {}
  PROVE  \A k \in Open(fr) : NextLine(p) < LineOf(fr[k])
<1> DEFINE n == NextLine(p)
<1>1. p \in PicState /\ fr \in Seq(Frame)
  BY DEF Typed
<1>2. n \in p.request /\ n \notin p.mask /\ n \notin p.service
  BY <1>1, AckFields
<1>3. n \in Irqs /\ n \in Bit
  BY <1>1, <1>2 DEF PathInv, PicState, Byte
<1>4. \A m \in OpenLines(fr) : ~(n > m)
  BY <1>2, <1>3 DEF MayEnable
<1>5. \A m \in OpenLines(fr) : n # m
  BY <1>2 DEF Nested
<1> HIDE DEF n
<1> SUFFICES ASSUME NEW k \in Open(fr) PROVE n < LineOf(fr[k])
  BY DEF n
<1>6. LineOf(fr[k]) \in OpenLines(fr) /\ LineOf(fr[k]) \in Bit
  BY <1>1, NestTypes DEF OpenLines
<1>7. QED  BY <1>3, <1>4, <1>5, <1>6 DEF Bit

LEMMA NestCheck ==
  ASSUME guest.careful, NEW p, NEW f, NEW fr, Typed(p, f, fr), PathInv(p, fr), Nested(p, fr),
         MayEnable(p, f, fr), CheckEffect(p, f, fr)
  PROVE  Nested(pic, frames)'
<1>1. p \in PicState /\ fr \in Seq(Frame)
  BY DEF Typed
<1>2. CASE /\ pic' = p /\ Open(frames') = Open(fr)
           /\ \A k \in Open(fr) : frames'[k] = fr[k]
  BY <1>2 DEF Nested, OpenLines, NestedByPriority
<1>3. CASE /\ "INTERRUPT" \in f /\ Deliverable(p) # {} /\ pic' = PicAck(p)
           /\ Open(frames') = Open(fr) \cup {Len(fr) + 1}
           /\ \A k \in Open(fr) : frames'[k] = fr[k] /\ k \in 1..Len(fr)
           /\ LineOf(frames'[Len(fr) + 1]) = NextLine(p)
  <2> DEFINE n == NextLine(p)
             top == Len(fr) + 1
  <2>1. pic'.service = p.service \cup {n}
    BY <1>1, <1>3, AckFields
  <2>2. \A k \in Open(fr) : n < LineOf(fr[k])
    BY <1>3, NextIsMoreUrgent
  <2>3. Len(fr) \in Nat /\ \A k \in Open(fr) : k \in 1..Len(fr)
    BY <1>1, NestTypes
  <2>4. \A j \in Open(fr) : LineOf(frames'[j]) = LineOf(fr[j])
    BY <1>3
  <2>5. pic'.service = OpenLines(frames')
    BY <1>3, <2>1, <2>4 DEF OpenLines, Nested
  <2> HIDE DEF n
  <2>6. ASSUME NEW j \in Open(frames'), NEW k \in Open(frames'), j < k
        PROVE  LineOf(frames'[k]) < LineOf(frames'[j])
    <3>1. j \in Open(fr)
      BY <1>3, <2>3, <2>6
    <3>2. CASE k = top
      BY <1>3, <2>2, <2>4, <3>1, <3>2 DEF n
    <3>3. CASE k \in Open(fr)
      BY <2>4, <2>6, <3>1, <3>3 DEF Nested, NestedByPriority
    <3>4. QED  BY <1>3, <3>2, <3>3
  <2>7. QED  BY <2>5, <2>6 DEF Nested, NestedByPriority
<1>4. QED  BY <1>2, <1>3 DEF CheckEffect

CarefulInv == IrqInv /\ (guest.careful => Nested(pic, frames))

LEMMA CarefulInvInit == IrqInit => CarefulInv
<1> SUFFICES ASSUME IrqInit PROVE CarefulInv
  OBVIOUS
<1>1. Open(frames) = {} /\ pic.service = {}
  BY BootedState DEF IrqInit, Open
<1>2. QED  BY <1>1, IrqInvInit DEF CarefulInv, Nested, OpenLines, NestedByPriority

LEMMA CarefulInvStep == CarefulInv /\ [IrqNext]_irqVars => CarefulInv'
<1> SUFFICES ASSUME guest.careful, IrqInv, Nested(pic, frames), [IrqNext]_irqVars
             PROVE  Nested(pic, frames)'
  BY IrqInvStep, SameGuest DEF CarefulInv
<1>1. CASE GuestStep
  <2>1. PICK p, f, fr : /\ Typed(p, f, fr) /\ PathInv(p, fr) /\ ExecEffect(p, fr)
                        /\ MayEnable(p, f, fr) /\ CheckEffect(p, f, fr)
    BY <1>1, GuestStepEffect
  <2>2. Nested(p, fr)
    BY <2>1, NestExec
  <2>3. QED  BY <2>1, <2>2, NestCheck
<1>2. ASSUME NEW n \in Irqs, RaiseIrq(n) PROVE Nested(pic, frames)'
  BY <1>2, RaiseEffect DEF Nested
<1>3. CASE UNCHANGED irqVars
  BY <1>3 DEF irqVars, Nested
<1>4. QED  BY <1>1, <1>2, <1>3 DEF IrqNext, GuestStep

\* A careful guest's handlers nest by priority and are the lines in service.
THEOREM CarefulGuestNests == IrqSpec => []ServiceIsNest
<1>1. CarefulInv => ServiceIsNest
  BY DEF CarefulInv, Nested, ServiceIsNest
<1>2. QED  BY <1>1, CarefulInvInit, CarefulInvStep, PTL DEF IrqSpec
-----------------------------------------------------------------------------
(* Each instruction is at most one step of the abstract nest.              *)

\* The handlers left after the instruction itself.
LEMMA ExecNest ==
  ASSUME guest.careful, CarefulInv, NEW p, NEW fr, ExecEffect(p, fr)
  PROVE  /\ p.request = pic.request
         /\ \/ NestOf(fr) = NestOf(frames)
            \/ DOMAIN NestOf(frames) # {} /\ NestOf(fr) = Nest!Finished
<1>1. /\ p.request = pic.request /\ Open(fr) \subseteq Open(frames)
      /\ \A k \in Open(fr) : fr[k] = frames[k]
  BY DEF ExecEffect, Unfinished
<1>2. CASE Open(fr) = Open(frames)
  BY <1>1, <1>2 DEF NestOf
<1>3. CASE Len(frames) \in Open(frames) /\ Open(fr) = Open(frames) \ {Len(frames)}
  <2>1. DOMAIN NestOf(frames) = Open(frames)
    BY DEF NestOf
  <2>2. \A k \in Open(frames) : k \in 1..Len(frames) /\ Len(frames) \in Nat
    BY NestTypes DEF CarefulInv, IrqInv, IrqTypeOK
  <2>3. \A k \in Open(frames) :
          (\A j \in Open(frames) : j <= k) <=> k = Len(frames)
    BY <1>3, <2>2
  <2>4. Nest!Last = Len(frames)
    BY <1>3, <2>1, <2>3 DEF Nest!Last
  <2>5. NestOf(fr) = Nest!Finished
    BY <1>1, <1>3, <2>1, <2>4 DEF Nest!Finished, NestOf
  <2>6. QED  BY <1>1, <1>3, <2>1, <2>5
<1>4. QED  BY <1>1, <1>2, <1>3 DEF ExecEffect

\* check_interrupts starts the handler of the next line on top of those that are
\* left, or does nothing.
LEMMA CheckNest ==
  ASSUME guest.careful, NEW p, NEW f, NEW fr, Typed(p, f, fr), PathInv(p, fr), Nested(p, fr),
         MayEnable(p, f, fr), CheckEffect(p, f, fr)
  PROVE  \/ pic'.request = p.request /\ NestOf(frames') = NestOf(fr)
         \/ \E n \in Irqs :
              /\ n \in p.request /\ pic'.request = p.request \ {n}
              /\ \A k \in DOMAIN NestOf(fr) : n < NestOf(fr)[k]
              /\ \E at \in DOMAIN NestOf(frames') :
                   /\ \A k \in DOMAIN NestOf(fr) : k < at
                   /\ NestOf(frames') = Nest!OnTop(NestOf(fr), at, n)
<1>1. p \in PicState /\ fr \in Seq(Frame)
  BY DEF Typed
<1>2. CASE /\ pic' = p /\ Open(frames') = Open(fr)
           /\ \A k \in Open(fr) : frames'[k] = fr[k]
  BY <1>2 DEF NestOf
<1>3. CASE /\ "INTERRUPT" \in f /\ Deliverable(p) # {} /\ pic' = PicAck(p)
           /\ Open(frames') = Open(fr) \cup {Len(fr) + 1}
           /\ \A k \in Open(fr) : frames'[k] = fr[k] /\ k \in 1..Len(fr)
           /\ LineOf(frames'[Len(fr) + 1]) = NextLine(p)
  <2> DEFINE n == NextLine(p)
             at == Len(fr) + 1
  <2>1. n \in p.request /\ pic'.request = p.request \ {n} /\ n \in Irqs
    BY <1>1, <1>3, AckFields DEF PathInv
  <2>2. \A k \in Open(fr) : n < LineOf(fr[k])
    BY <1>3, NextIsMoreUrgent
  <2>3. /\ DOMAIN NestOf(fr) = Open(fr) /\ DOMAIN NestOf(frames') = Open(frames')
        /\ \A k \in Open(fr) : NestOf(fr)[k] = LineOf(fr[k])
    BY DEF NestOf
  <2>4. \A k \in Open(fr) : k < at /\ k # at
    <3>1. Len(fr) \in Nat /\ \A k \in Open(fr) : k \in 1..Len(fr)
      BY <1>1, NestTypes
    <3>2. QED  BY <3>1
  <2>5. LineOf(frames'[at]) = n /\ \A k \in Open(fr) : LineOf(frames'[k]) = LineOf(fr[k])
    BY <1>3
  <2> HIDE DEF n, at
  <2>6. Open(frames') = Open(fr) \cup {at}
    BY <1>3 DEF at
  <2>7. NestOf(frames') = Nest!OnTop(NestOf(fr), at, n)
    BY <2>3, <2>4, <2>5, <2>6 DEF Nest!OnTop, NestOf
  <2>8. QED  BY <2>1, <2>2, <2>3, <2>4, <2>6, <2>7
<1>4. QED  BY <1>2, <1>3 DEF CheckEffect

LEMMA NestStep ==
  ASSUME guest.careful, guest'.careful, CarefulInv, [IrqNext]_irqVars
  PROVE  [Nest!Next]_(Nest!vars)
<1>1. CASE GuestStep
  <2>1. PICK p, f, fr : /\ Typed(p, f, fr) /\ PathInv(p, fr) /\ ExecEffect(p, fr)
                        /\ MayEnable(p, f, fr) /\ CheckEffect(p, f, fr)
    BY <1>1, GuestStepEffect DEF CarefulInv
  <2>2. /\ p.request = pic.request
        /\ \/ NestOf(fr) = NestOf(frames)
           \/ DOMAIN NestOf(frames) # {} /\ NestOf(fr) = Nest!Finished
    BY <2>1, ExecNest
  <2>3. Nested(p, fr)
    BY <2>1, NestExec DEF CarefulInv
  <2>4. CASE pic'.request = p.request /\ NestOf(frames') = NestOf(fr)
    <3>1. CASE NestOf(fr) = NestOf(frames)
      BY <2>2, <2>4, <3>1 DEF Nest!vars, NestOf
    <3>2. CASE DOMAIN NestOf(frames) # {} /\ NestOf(fr) = Nest!Finished
      <4>1. Nest!Finish
        BY <2>2, <2>4, <3>2 DEF Nest!Finish, NestOf
      <4>2. QED  BY <4>1 DEF Nest!Next
    <3>3. QED  BY <2>2, <3>1, <3>2
  <2>5. ASSUME NEW n \in Irqs, n \in p.request, pic'.request = p.request \ {n},
               \A k \in DOMAIN NestOf(fr) : n < NestOf(fr)[k],
               \E at \in DOMAIN NestOf(frames') :
                   /\ \A k \in DOMAIN NestOf(fr) : k < at
                   /\ NestOf(frames') = Nest!OnTop(NestOf(fr), at, n)
        PROVE  Nest!Next
    <3>1. CASE NestOf(fr) = NestOf(frames)
      <4>1. Nest!Start(n, NestOf(frames))
        BY <2>2, <2>5, <3>1 DEF Nest!Start, NestOf
      <4>2. QED  BY <4>1 DEF Nest!Next
    <3>2. CASE DOMAIN NestOf(frames) # {} /\ NestOf(fr) = Nest!Finished
      <4>1. Nest!FinishThenStart(n)
        BY <2>2, <2>5, <3>2 DEF Nest!Start, Nest!FinishThenStart, NestOf
      <4>2. QED  BY <4>1 DEF Nest!Next
    <3>3. QED  BY <2>2, <3>1, <3>2
  <2>6. QED  BY <2>1, <2>3, <2>4, <2>5, CheckNest
<1>2. ASSUME NEW n \in Irqs, RaiseIrq(n) PROVE Nest!Next
  <2>1. Nest!Raise(n)
    BY <1>2, RaiseEffect DEF Nest!Raise, NestOf, CarefulInv
  <2>2. QED  BY <2>1 DEF Nest!Next
<1>3. CASE UNCHANGED irqVars
  BY <1>3 DEF irqVars, Nest!vars, NestOf
<1>4. QED  BY <1>1, <1>2, <1>3 DEF IrqNext, GuestStep

\* The interrupt path of a careful guest implements the prioritised nest.
THEOREM CarefulGuestImplementsNest == IrqSpec => NestSpec
<1>1. IrqInit => Nest!Init
  <2> SUFFICES ASSUME IrqInit PROVE Nest!Init
    OBVIOUS
  <2>1. pic.request = {} /\ Open(frames) = {}
    BY BootedState DEF IrqInit, Open
  <2>2. NestOf(frames) = <<>>
    BY <2>1 DEF NestOf
  <2>3. QED  BY <2>1, <2>2 DEF Nest!Init
<1>2. CarefulInv /\ [IrqNext]_irqVars => [Nest!Next]_(Nest!vars)
  <2> SUFFICES ASSUME CarefulInv, [IrqNext]_irqVars PROVE [Nest!Next]_(Nest!vars)
    OBVIOUS
  <2>1. CASE guest.careful
    <3>1. guest'.careful
      BY <2>1, SameGuest
    <3>2. QED  BY <2>1, <3>1, NestStep
  <2>2. CASE ~guest.careful
    <3>1. ~guest'.careful
      BY <2>2, SameGuest
    <3>2. QED  BY <2>2, <3>1 DEF Nest!vars
  <2>3. QED  BY <2>1, <2>2
<1>3. QED  BY <1>1, <1>2, CarefulInvInit, CarefulInvStep, PTL DEF IrqSpec, NestSpec, Nest!Spec
=============================================================================
