---------------------------- MODULE PicOpsProofs ----------------------------
(***************************************************************************)
(* What the operators of the interrupt controller return, for every state  *)
(* of the controller and every byte.                                       *)
(***************************************************************************)
EXTENDS PicOps, TLAPS

\* The scan of pic_io_out and pic_next finds the lowest bit of any byte that has
\* one.
LEMMA LowestBit ==
  ASSUME NEW S \in Byte, S # {}
  PROVE  Min(S) \in S /\ \A y \in S : Min(S) =< y
<1>1. \E x \in S : \A y \in S : x =< y
  <2>1. \A x, y \in S : x \in 0..7 /\ y \in 0..7
    BY DEF Byte, Bit
  <2>2. \/ 0 \in S \/ 1 \in S \/ 2 \in S \/ 3 \in S
        \/ 4 \in S \/ 5 \in S \/ 6 \in S \/ 7 \in S
    BY <2>1
  <2>3. QED  BY <2>1, <2>2, SMT
<1>2. QED  BY <1>1 DEF Min

LEMMA EndOfInterruptType ==
  ASSUME NEW p \in PicState
  PROVE  EndOfInterrupt(p) \in PicState
BY DEF EndOfInterrupt, PicState, Byte

LEMMA CommandType ==
  ASSUME NEW p \in PicState, NEW data \in Byte
  PROVE  PicCommand(p, data) \in PicState
<1>1. CASE IsIcw1(data)
  <2> DEFINE m == [p EXCEPT !.mask = {}]
             r == [m EXCEPT !.step = 2]
             words == [p.icw EXCEPT ![1] = data]
  <2>1. m \in PicState /\ m.icw = p.icw
    BY DEF PicState, Byte
  <2>2. words \in [0..4 -> Byte]
    BY DEF PicState
  <2>3. r \in PicState /\ r.icw = p.icw
    <3> HIDE DEF m
    <3>1. QED  BY <2>1 DEF PicState
  <2>4. PicCommand(p, data) = [r EXCEPT !.icw = words]
    BY <1>1, <2>3 DEF PicCommand
  <2> HIDE DEF r, words
  <2>5. QED  BY <2>2, <2>3, <2>4 DEF PicState
<1>2. CASE ~IsIcw1(data)
  <2> DEFINE q == IF SelectsRead(data) THEN [p EXCEPT !.readService = TRUE] ELSE p
  <2>1. q \in PicState
    BY DEF PicState
  <2>2. EndOfInterrupt(q) \in PicState
    BY <2>1, EndOfInterruptType
  <2>3. QED  BY <1>2, <2>1, <2>2 DEF PicCommand
<1>3. QED  BY <1>1, <1>2

LEMMA DataType ==
  ASSUME NEW p \in PicState, NEW data \in Byte
  PROVE  PicData(p, data) \in PicState
<1>1. IcwIndex(p) \in 0..5
  BY DEF IcwIndex, PicState
<1>2. CASE IcwIndex(p) < 5
  <2> DEFINE s == IcwIndex(p)
  <2>1. s \in 0..4 /\ s + 1 \in 0..5
    BY <1>1, <1>2
  <2>2. [p.icw EXCEPT ![s] = data] \in [0..4 -> Byte]
    BY <2>1 DEF PicState
  <2>3. PicData(p, data) = [p EXCEPT !.icw[s] = data, !.step = s + 1]
    BY <1>2 DEF PicData
  <2> HIDE DEF s
  <2>4. QED  BY <2>1, <2>2, <2>3 DEF PicState
<1>3. CASE ~(IcwIndex(p) < 5)
  BY <1>3 DEF PicData, PicState
<1>4. QED  BY <1>2, <1>3

LEMMA AckType ==
  ASSUME NEW p \in PicState, Deliverable(p) # {}
  PROVE  /\ PicAck(p) \in PicState
         /\ NextLine(p) \in p.request \ (p.mask \cup p.service)
<1>1. Deliverable(p) \in Byte
  BY DEF Deliverable, PicState, Byte
<1>2. NextLine(p) \in Deliverable(p)
  BY <1>1, LowestBit DEF NextLine
<1>3. PicAck(p) \in PicState
  BY <1>1, <1>2 DEF PicAck, PicState, Byte
<1>4. QED  BY <1>2, <1>3 DEF Deliverable

LEMMA IrqType ==
  ASSUME NEW p \in PicState, NEW n \in Bit
  PROVE  PicIrq(p, n) \in PicState
BY DEF PicIrq, PicState, Byte

LEMMA IrqFields ==
  ASSUME NEW p \in PicState, NEW n \in Bit
  PROVE  PicIrq(p, n) \in PicState /\ PicIrq(p, n).request = p.request \cup {n}
BY IrqType DEF PicIrq, PicState

LEMMA VectorType ==
  ASSUME NEW p \in PicState, Deliverable(p) # {}
  PROVE  Vector(p) \in 0..255
<1>1. NextLine(p) \in Bit
  BY AckType DEF PicState, Byte
<1>2. ByteValue(p.icw[2]) \in Nat
  BY DEF ByteValue
<1>3. \A n \in Nat : n % 256 \in 0..255
  OBVIOUS
<1>4. ByteValue(p.icw[2]) + NextLine(p) \in Nat
  BY <1>1, <1>2 DEF Bit
<1> HIDE DEF ByteValue
<1>5. QED  BY <1>3, <1>4 DEF Vector

\* The next initialisation word and nothing else is written while the sequence is
\* not complete.
LEMMA IcwFields ==
  ASSUME NEW p \in PicState, NEW data \in Byte, NEW s \in 0..4, IcwIndex(p) = s
  PROVE  /\ PicData(p, data) \in PicState /\ PicData(p, data).step = s + 1
         /\ PicData(p, data).icw = [p.icw EXCEPT ![s] = data]
         /\ PicData(p, data).request = p.request
         /\ PicData(p, data).service = p.service
<1> DEFINE words == [p.icw EXCEPT ![s] = data]
           q == [[p EXCEPT !.icw = words] EXCEPT !.step = s + 1]
<1>1. PicData(p, data) = q
  BY DEF PicData
<1>2. PicData(p, data) \in PicState
  BY DataType
<1>3. /\ q.step = s + 1 /\ q.icw = words
      /\ q.request = p.request /\ q.service = p.service
  <2> HIDE DEF words
  <2>1. QED  BY DEF PicState
<1> HIDE DEF q
<1>4. QED  BY <1>1, <1>2, <1>3

LEMMA Icw1Fields ==
  ASSUME NEW p \in PicState, NEW data \in Byte, IsIcw1(data)
  PROVE  LET q == PicCommand(p, data)
         IN  /\ q \in PicState /\ q.step = 2 /\ q.mask = {}
             /\ q.icw = [p.icw EXCEPT ![1] = data]
             /\ q.request = p.request /\ q.service = p.service
<1> DEFINE words == [p.icw EXCEPT ![1] = data]
           q == [[[p EXCEPT !.mask = {}] EXCEPT !.step = 2] EXCEPT !.icw = words]
<1>1. PicCommand(p, data) = q
  BY DEF PicCommand, PicState
<1>2. PicCommand(p, data) \in PicState
  BY CommandType
<1>3. /\ q.step = 2 /\ q.mask = {} /\ q.icw = words
      /\ q.request = p.request /\ q.service = p.service
  <2> HIDE DEF words
  <2>1. QED  BY DEF PicState
<1>4. QED  BY <1>1, <1>2, <1>3
\* What acknowledging does to the registers.
LEMMA AckFields ==
  ASSUME NEW p \in PicState, Deliverable(p) # {}
  PROVE  /\ PicAck(p).request = p.request \ {NextLine(p)}
         /\ PicAck(p).service = p.service \cup {NextLine(p)}
         /\ PicAck(p).step = p.step /\ PicAck(p).icw = p.icw
         /\ PicAck(p).mask = p.mask
         /\ NextLine(p) \in p.request /\ NextLine(p) \notin p.mask
         /\ NextLine(p) \notin p.service
BY AckType DEF PicAck, PicState

\* Once initialised the controller takes a byte at port 0x21 as the mask.
LEMMA MaskWrite ==
  ASSUME NEW p \in PicState, p.step = 5, NEW m \in Byte
  PROVE  PicData(p, m) = [p EXCEPT !.mask = m]
BY DEF PicData, IcwIndex

\* The byte 0x20 at port 0x20 is an end of interrupt and nothing else.
LEMMA EoiWrite ==
  ASSUME NEW p \in PicState
  PROVE  PicCommand(p, {5}) = EndOfInterrupt(p)
BY DEF PicCommand, IsIcw1, SelectsRead, IsEoi

\* An end of interrupt clears one bit, the lowest one, if there is one.
LEMMA EoiFields ==
  ASSUME NEW p \in PicState
  PROVE  LET q == EndOfInterrupt(p)
         IN  /\ q \in PicState /\ q.step = p.step /\ q.icw = p.icw
             /\ q.request = p.request /\ q.mask = p.mask
             /\ p.service = {} => q.service = {}
             /\ p.service # {} => /\ q.service = p.service \ {Min(p.service)}
                                  /\ Min(p.service) \in p.service
                                  /\ \A y \in p.service : Min(p.service) =< y
<1>1. p.service \in Byte
  BY DEF PicState
<1>2. EndOfInterrupt(p) \in PicState
  BY EndOfInterruptType
<1>3. CASE p.service = {}
  BY <1>2, <1>3 DEF EndOfInterrupt
<1>4. CASE p.service # {}
  <2> DEFINE q == [p EXCEPT !.service = @ \ {Min(p.service)}]
  <2>1. EndOfInterrupt(p) = q
    BY <1>4 DEF EndOfInterrupt
  <2>2. /\ q.step = p.step /\ q.icw = p.icw
        /\ q.request = p.request /\ q.mask = p.mask
        /\ q.service = p.service \ {Min(p.service)}
    BY DEF PicState
  <2>3. Min(p.service) \in p.service /\ \A y \in p.service : Min(p.service) =< y
    BY <1>1, <1>4, LowestBit
  <2>4. QED  BY <1>2, <1>4, <2>1, <2>2, <2>3
<1>5. QED  BY <1>3, <1>4

\* The controller after the words the BIOS writes to it.
LEMMA InitialisedState ==
  LET p == PicData(PicData(PicCommand(PicReset, {0, 1, 4}), {3}), {0, 3})
  IN  /\ p \in PicState /\ p.step = 5 /\ p.icw[2] = {3}
      /\ p.request = {} /\ p.service = {}
<1> DEFINE a == PicCommand(PicReset, {0, 1, 4})
           b == PicData(a, {3})
<1>1. PicReset \in PicState /\ PicReset.request = {} /\ PicReset.service = {}
  BY DEF PicReset, PicState, Byte
<1>2. {0, 1, 4} \in Byte /\ {3} \in Byte /\ {0, 3} \in Byte /\ IsIcw1({0, 1, 4})
  BY DEF Byte, Bit, IsIcw1
<1>3. /\ a \in PicState /\ a.step = 2 /\ a.icw[1] = {0, 1, 4}
      /\ a.request = {} /\ a.service = {}
  <2>1. a.icw = [PicReset.icw EXCEPT ![1] = {0, 1, 4}]
    BY <1>1, <1>2, Icw1Fields
  <2>2. QED  BY <1>1, <1>2, <2>1, Icw1Fields DEF PicState
<1> HIDE DEF a
<1>4. \A w \in Byte :
        /\ PicData(a, w) \in PicState /\ PicData(a, w).step = 3
        /\ PicData(a, w).icw = [a.icw EXCEPT ![2] = w]
        /\ PicData(a, w).request = {} /\ PicData(a, w).service = {}
  <2>1. IcwIndex(a) = 2 /\ 2 \in 0..4 /\ 2 + 1 = 3
    BY <1>3 DEF IcwIndex
  <2> TAKE w \in Byte
  <2>2. /\ PicData(a, w) \in PicState /\ PicData(a, w).step = 2 + 1
        /\ PicData(a, w).icw = [a.icw EXCEPT ![2] = w]
        /\ PicData(a, w).request = a.request
        /\ PicData(a, w).service = a.service
    BY <1>3, <2>1, IcwFields
  <2>3. QED  BY <1>3, <2>1, <2>2
<1>5. /\ b \in PicState /\ b.step = 3 /\ b.icw = [a.icw EXCEPT ![2] = {3}]
      /\ b.request = {} /\ b.service = {}
  BY <1>2, <1>4
<1>6. b.icw[1] = {0, 1, 4} /\ b.icw[2] = {3}
  BY <1>3, <1>5 DEF PicState
<1> HIDE DEF b
<1>7. \A w \in Byte :
        /\ PicData(b, w) \in PicState /\ PicData(b, w).step = 5
        /\ PicData(b, w).icw = [b.icw EXCEPT ![4] = w]
        /\ PicData(b, w).request = {} /\ PicData(b, w).service = {}
  <2>1. IcwIndex(b) = 4 /\ 4 \in 0..4 /\ 4 + 1 = 5
    BY <1>5, <1>6 DEF IcwIndex
  <2> TAKE w \in Byte
  <2>2. /\ PicData(b, w) \in PicState /\ PicData(b, w).step = 4 + 1
        /\ PicData(b, w).icw = [b.icw EXCEPT ![4] = w]
        /\ PicData(b, w).request = b.request
        /\ PicData(b, w).service = b.service
    BY <1>5, <2>1, IcwFields
  <2>3. QED  BY <1>5, <2>1, <2>2
<1>8. /\ PicData(b, {0, 3}) \in PicState /\ PicData(b, {0, 3}).step = 5
      /\ PicData(b, {0, 3}).icw = [b.icw EXCEPT ![4] = {0, 3}]
      /\ PicData(b, {0, 3}).request = {} /\ PicData(b, {0, 3}).service = {}
  BY <1>2, <1>7
<1>9. QED  BY <1>5, <1>6, <1>8 DEF PicState, a, b

\* No word of the guest's withdraws a request, or puts a line in service.
LEMMA CommandKeeps ==
  ASSUME NEW p \in PicState, NEW data \in Byte
  PROVE  /\ PicCommand(p, data) \in PicState
         /\ PicCommand(p, data).request = p.request
         /\ PicCommand(p, data).service \subseteq p.service
<1>1. PicCommand(p, data) \in PicState
  BY CommandType
<1>2. CASE IsIcw1(data)
  BY <1>1, <1>2, Icw1Fields
<1>3. CASE ~IsIcw1(data)
  <2> DEFINE q == IF SelectsRead(data) THEN [p EXCEPT !.readService = TRUE] ELSE p
  <2>1. q \in PicState /\ q.request = p.request /\ q.service = p.service
    BY DEF PicState
  <2>2. PicCommand(p, data) = IF IsEoi(data) THEN EndOfInterrupt(q) ELSE q
    BY <1>3 DEF PicCommand
  <2> HIDE DEF q
  <2>3. QED  BY <1>1, <2>1, <2>2, EoiFields
<1>4. QED  BY <1>2, <1>3

LEMMA DataKeeps ==
  ASSUME NEW p \in PicState, NEW data \in Byte
  PROVE  /\ PicData(p, data) \in PicState
         /\ PicData(p, data).request = p.request
         /\ PicData(p, data).service = p.service
<1>1. IcwIndex(p) \in 0..5
  BY DEF IcwIndex, PicState
<1>2. CASE IcwIndex(p) < 5
  <2>1. IcwIndex(p) \in 0..4
    BY <1>1, <1>2
  <2>2. QED  BY <2>1, IcwFields
<1>3. CASE ~(IcwIndex(p) < 5)
  BY <1>3, DataType DEF PicData, PicState
<1>4. QED  BY <1>2, <1>3

\* A byte at port 0x21 is a mask only once the sequence is complete.
LEMMA MaskLast ==
  ASSUME NEW p \in PicState, NEW data \in Byte
  PROVE  /\ p.step = 5 => PicData(p, data).step = 5
         /\ p.step # 5 => PicData(p, data).mask = p.mask
<1>1. IcwIndex(p) \in 0..5 /\ (p.step = 5 => IcwIndex(p) = 5)
      /\ (IcwIndex(p) = 5 => p.step = 5)
  BY DEF IcwIndex, PicState
<1>2. CASE IcwIndex(p) < 5
  BY <1>1, <1>2 DEF PicData, PicState
<1>3. CASE ~(IcwIndex(p) < 5)
  BY <1>1, <1>3 DEF PicData, PicState
<1>4. QED  BY <1>2, <1>3
=============================================================================
