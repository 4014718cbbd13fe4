----------------------------- MODULE PartsProofs -----------------------------
(***************************************************************************)
(* Theorems about the parts of the machine, for every size, line, key,     *)
(* image and register they may have.  A step is one of one part: for the   *)
(* others it is a stutter, so that each part is reasoned about on its own. *)
(***************************************************************************)
EXTENDS DataProofs, PicOpsProofs
-----------------------------------------------------------------------------
(* The interrupt controller, alone and behind the keyboard and the mouse. *)

\* The three have the same operators.
LEMMA PicOperators ==
  /\ Controller!Byte = Byte /\ Controller!PicState = PicState
  /\ Controller!PicReset = PicReset
  /\ \A p, data : /\ Controller!PicCommand(p, data) = PicCommand(p, data)
                   /\ Controller!PicData(p, data) = PicData(p, data)
  /\ \A p, n : Controller!PicIrq(p, n) = PicIrq(p, n)
  /\ \A p : /\ Controller!Deliverable(p) = Deliverable(p)
            /\ Controller!PicAck(p) = PicAck(p)
BY SMTT(60)
   DEF PicState, PicReset, PicCommand, PicData, PicIrq, Deliverable, PicAck, NextLine, Min,
       Byte, Bit, IsIcw1, SelectsRead, IsEoi, EndOfInterrupt, IcwIndex,
       Controller!PicState, Controller!PicReset, Controller!PicCommand, Controller!PicData,
       Controller!PicIrq, Controller!Deliverable, Controller!PicAck, Controller!NextLine,
       Controller!Min, Controller!Byte, Controller!Bit, Controller!IsIcw1,
       Controller!SelectsRead, Controller!IsEoi, Controller!EndOfInterrupt,
       Controller!IcwIndex

LEMMA KbdOperators ==
  /\ Kbd!Byte = Byte /\ Kbd!PicState = PicState /\ Kbd!PicReset = PicReset
  /\ \A p, data : /\ Kbd!PicCommand(p, data) = PicCommand(p, data)
                   /\ Kbd!PicData(p, data) = PicData(p, data)
  /\ \A p, n : Kbd!PicIrq(p, n) = PicIrq(p, n)
  /\ \A p : /\ Kbd!Deliverable(p) = Deliverable(p)
            /\ Kbd!PicAck(p) = PicAck(p)
BY SMTT(60)
   DEF PicState, PicReset, PicCommand, PicData, PicIrq, Deliverable, PicAck, NextLine, Min,
       Byte, Bit, IsIcw1, SelectsRead, IsEoi, EndOfInterrupt, IcwIndex, Kbd!PicState,
       Kbd!PicReset, Kbd!PicCommand, Kbd!PicData, Kbd!PicIrq, Kbd!Deliverable, Kbd!PicAck,
       Kbd!NextLine, Kbd!Min, Kbd!Byte, Kbd!Bit, Kbd!IsIcw1, Kbd!SelectsRead, Kbd!IsEoi,
       Kbd!EndOfInterrupt, Kbd!IcwIndex

LEMMA MiceOperators ==
  /\ Mice!Byte = Byte /\ Mice!PicState = PicState /\ Mice!PicReset = PicReset
  /\ \A p, data : /\ Mice!PicCommand(p, data) = PicCommand(p, data)
                   /\ Mice!PicData(p, data) = PicData(p, data)
  /\ \A p, n : Mice!PicIrq(p, n) = PicIrq(p, n)
  /\ \A p : /\ Mice!Deliverable(p) = Deliverable(p)
            /\ Mice!PicAck(p) = PicAck(p)
BY ZenonT(60)
   DEF PicState, PicReset, PicCommand, PicData, PicIrq, Deliverable, PicAck, NextLine, Min,
       Byte, Bit, IsIcw1, SelectsRead, IsEoi, EndOfInterrupt, IcwIndex, Mice!PicState,
       Mice!PicReset, Mice!PicCommand, Mice!PicData, Mice!PicIrq, Mice!Deliverable,
       Mice!PicAck, Mice!NextLine, Mice!Min, Mice!Byte, Mice!Bit, Mice!IsIcw1,
       Mice!SelectsRead, Mice!IsEoi, Mice!EndOfInterrupt, Mice!IcwIndex

\* Type correctness of the controller: every handler keeps the registers in their
\* ranges; in particular icw_step never leaves the icw array (pic.odin:76-78).
LEMMA PicStep == Controller!TypeOK /\ [Controller!Next]_pic => Controller!TypeOK'
<1> SUFFICES ASSUME pic \in PicState, [Controller!Next]_pic PROVE pic' \in PicState
  BY PicOperators DEF Controller!TypeOK
<1> USE PicOperators
<1>0. Controller!PicAssumption
  BY PartsAssumption
<1>1. CASE Controller!Reset
  BY <1>1 DEF Controller!Reset, PicReset, PicState, Byte
<1>2. ASSUME NEW data \in Commands, Controller!WriteCommand(data) PROVE pic' \in PicState
  BY <1>0, <1>2, CommandType DEF Controller!PicAssumption, Controller!WriteCommand
<1>3. ASSUME NEW data \in MaskBytes, Controller!WriteData(data) PROVE pic' \in PicState
  BY <1>0, <1>3, DataType DEF Controller!PicAssumption, Controller!WriteData
<1>4. ASSUME NEW n \in Irqs, Controller!Irq(n) PROVE pic' \in PicState
  BY <1>0, <1>4, IrqType DEF Controller!PicAssumption, Controller!Irq, Byte
<1>5. CASE Controller!Acknowledge
  BY <1>5, AckType DEF Controller!Acknowledge
<1>6. QED
  BY <1>1, <1>2, <1>3, <1>4, <1>5 DEF Controller!Next

THEOREM PicTyped == Spec => []Controller!TypeOK
<1>1. Init => Controller!TypeOK
  BY PicOperators DEF Init, Controller!Init, Controller!TypeOK, PicReset, PicState, Byte
<1>2. QED  BY <1>1, StepOfOne, PicStep, PTL DEF Spec

\* A mask is only in force once the initialisation sequence is complete
\* (pic.odin:52-53, 76-81).
THEOREM MaskAfterInit == Spec => []Controller!MaskNeedsInit
<1> USE PicOperators DEF Controller!MaskNeedsInit
<1>1. Init => Controller!MaskNeedsInit
  BY DEF Init, Controller!Init, PicReset
<1>2. Controller!TypeOK /\ Controller!MaskNeedsInit /\ [Controller!Next]_pic
        => Controller!MaskNeedsInit'
  <2> SUFFICES ASSUME pic \in PicState, Controller!MaskNeedsInit, Controller!Next
               PROVE  Controller!MaskNeedsInit'
    BY DEF Controller!TypeOK
  <2>0. Controller!PicAssumption
    BY PartsAssumption
  <2>1. CASE Controller!Reset
    BY <2>1 DEF Controller!Reset, PicReset
  <2>2. ASSUME NEW data \in Commands, Controller!WriteCommand(data)
        PROVE  Controller!MaskNeedsInit'
    <3>1. pic' = PicCommand(pic, data)
      BY <2>2 DEF Controller!WriteCommand
    <3>2. CASE IsIcw1(data)
      BY <3>1, <3>2 DEF PicCommand, PicState
    <3>3. CASE ~IsIcw1(data)
      <4>1. pic'.mask = pic.mask /\ pic'.step = pic.step
        BY <3>1, <3>3 DEF PicCommand, EndOfInterrupt, PicState
      <4>2. QED  BY <4>1
    <3>4. QED  BY <3>2, <3>3
  <2>3. ASSUME NEW data \in MaskBytes, Controller!WriteData(data)
        PROVE  Controller!MaskNeedsInit'
    <3>1. pic' = PicData(pic, data) /\ data \in Byte
      BY <2>0, <2>3 DEF Controller!WriteData, Controller!PicAssumption
    <3>2. QED  BY <3>1, MaskLast
  <2>4. ASSUME NEW n \in Irqs, Controller!Irq(n) PROVE Controller!MaskNeedsInit'
    BY <2>4 DEF Controller!Irq, PicIrq, PicState
  <2>5. CASE Controller!Acknowledge
    BY <2>5, AckFields DEF Controller!Acknowledge
  <2>6. QED  BY <2>1, <2>2, <2>3, <2>4, <2>5 DEF Controller!Next
<1>3. QED  BY <1>1, <1>2, StepOfOne, PicTyped, PTL DEF Spec

\* What a step of the controller does to requests and lines in service.
LEMMA RequestsStep ==
  ASSUME Controller!TypeOK, Controller!Next
  PROVE  /\ Controller!Reset \/ pic.request \ pic'.request \subseteq pic'.service
         /\ \A i \in pic'.service \ pic.service :
              \A j \in Bit : j \in pic.request \ (pic.mask \cup pic.service) => i <= j
<1> DEFINE Kept == pic.request \ pic'.request \subseteq pic'.service
           First == \A i \in pic'.service \ pic.service :
                      \A j \in Bit :
                        j \in pic.request \ (pic.mask \cup pic.service) => i <= j
<1> USE PicOperators
<1>0. pic \in PicState /\ Controller!PicAssumption
  BY PartsAssumption DEF Controller!TypeOK
<1>1. CASE Controller!Reset
  BY <1>1 DEF Controller!Reset, PicReset
<1>2. ASSUME NEW data \in Commands, Controller!WriteCommand(data) PROVE Kept /\ First
  BY <1>0, <1>2, CommandKeeps DEF Controller!PicAssumption, Controller!WriteCommand
<1>3. ASSUME NEW data \in MaskBytes, Controller!WriteData(data) PROVE Kept /\ First
  BY <1>0, <1>3, DataKeeps DEF Controller!PicAssumption, Controller!WriteData
<1>4. ASSUME NEW n \in Irqs, Controller!Irq(n) PROVE Kept /\ First
  BY <1>0, <1>4 DEF Controller!Irq, PicIrq, PicState
<1>5. CASE Controller!Acknowledge
  <2>1. /\ Deliverable(pic) \in Byte /\ Deliverable(pic) # {}
        /\ pic' = PicAck(pic)
    BY <1>0, <1>5 DEF Controller!Acknowledge, Deliverable, PicState, Byte
  <2>2. \A j \in Deliverable(pic) : NextLine(pic) <= j
    BY <2>1, LowestBit DEF NextLine
  <2>3. QED  BY <1>0, <2>1, <2>2, AckFields DEF Deliverable
<1>6. QED
  BY <1>1, <1>2, <1>3, <1>4, <1>5 DEF Controller!Next
-----------------------------------------------------------------------------
(* The keyboard. *)

\* What a key event, or a write to port 0x61, does to the registers, and that it raises
\* line 1 if it changes the byte the guest reads.
LEMMA KeyPushed ==
  ASSUME NEW p \in Kbd!PpiState, NEW scan \in Kbd!Codes
  PROVE  LET r == Kbd!PushEvent(p, scan)
         IN  /\ r.ppi \in Kbd!PpiState /\ r.irq \in BOOLEAN
             /\ r.ppi.data # p.data => r.irq
             /\ r.ppi.kbReset = p.kbReset /\ r.ppi.port61 = p.port61
             /\ p.kbReset => r.ppi.data = p.data
<1> DEFINE q == [p EXCEPT !.data = scan]
<1>1. q \in Kbd!PpiState /\ q.kbReset = p.kbReset /\ q.port61 = p.port61
  BY DEF Kbd!PpiState
<1> DEFINE irq == ~p.kbReset
           new == IF p.kbReset THEN p ELSE q
<1>2. irq \in BOOLEAN /\ (irq <=> ~p.kbReset)
  OBVIOUS
<1>3. /\ new \in Kbd!PpiState /\ new.kbReset = p.kbReset /\ new.port61 = p.port61
      /\ p.kbReset => new = p
  BY <1>1
<1>4. Kbd!PushEvent(p, scan) = [ppi |-> new, irq |-> irq]
  BY DEF Kbd!PushEvent
<1> HIDE DEF irq, new
<1>5. QED  BY <1>2, <1>3, <1>4

LEMMA PortWritten ==
  ASSUME NEW p \in Kbd!PpiState, NEW b \in Byte
  PROVE  LET r == Kbd!Write61(p, b)
         IN  /\ r.ppi \in Kbd!PpiState /\ r.irq \in BOOLEAN
             /\ r.ppi.data # p.data => r.irq
             /\ r.ppi.port61 = b
             /\ p.kbReset => r.ppi.kbReset
             /\ r.ppi.kbReset => r.ppi.data = Kbd!RESETCODE
             /\ Kbd!Clock \in p.port61 /\ ~p.kbReset => ~r.ppi.kbReset
<1> DEFINE reset == p.kbReset \/ Kbd!StartsReset(p, b)
           announce == reset /\ p.data # Kbd!RESETCODE
           data == IF announce THEN Kbd!RESETCODE ELSE p.data
           spk == Kbd!Gate \subseteq b
           q == [data |-> data, port61 |-> b, kbReset |-> reset, spk |-> spk]
<1>1. p.kbReset \in BOOLEAN /\ p.data \in Kbd!Codes
  BY DEF Kbd!PpiState
<1>2. reset \in BOOLEAN /\ announce \in BOOLEAN /\ spk \in BOOLEAN
  BY <1>1
<1>3. data \in Kbd!Codes /\ (data # p.data => announce)
      /\ (reset => data = Kbd!RESETCODE)
  BY <1>1 DEF Kbd!Codes
<1>4. Kbd!Clock \in p.port61 /\ ~p.kbReset => ~reset
  BY DEF Kbd!StartsReset, Kbd!Lines61
<1>5. Kbd!Write61(p, b) = [ppi |-> q, irq |-> announce]
  BY DEF Kbd!Write61
<1>6. p.kbReset => reset
  OBVIOUS
<1> HIDE DEF reset, announce, data, spk
<1>7. q \in Kbd!PpiState
  BY <1>2, <1>3, KbdOperators DEF Kbd!PpiState
<1>8. QED
  BY <1>2, <1>3, <1>4, <1>5, <1>6, <1>7

\* The result of either reaches the registers and the controller.
LEMMA ResultApplied ==
  ASSUME kbdPic \in PicState, fresh \in BOOLEAN, NEW r, r.irq \in BOOLEAN,
         r.ppi.data # ppi.data => r.irq, Kbd!Apply(r)
  PROVE  /\ ppi' = r.ppi /\ kbdPic' \in PicState /\ fresh' \in BOOLEAN
         /\ kbdPic.request \subseteq kbdPic'.request
         /\ fresh' => fresh \/ Kbd!KEYBOARD \in kbdPic'.request
<1>1. PicIrq(kbdPic, 1) \in PicState
      /\ PicIrq(kbdPic, 1).request = kbdPic.request \cup {1}
  <2>1. 1 \in Bit
    BY DEF Bit
  <2>2. QED  BY <2>1, IrqFields
<1>2. kbdPic' = IF r.irq THEN PicIrq(kbdPic, 1) ELSE kbdPic
  BY KbdOperators DEF Kbd!Apply, Kbd!KEYBOARD
<1>3. fresh' = (fresh \/ r.irq \/ r.ppi.data # ppi.data) /\ ppi' = r.ppi
  BY DEF Kbd!Apply
<1>4. QED
  BY <1>1, <1>2, <1>3 DEF Kbd!KEYBOARD

\* The guest enters its handler with the keyboard's clock line high, and keeps it high.
ClockHeld ==
  isr.at # "idle" =>
    /\ Kbd!Clock \in ppi.port61
    /\ isr.at \in {"latch", "restore"} => Kbd!Clock \in isr.copy

KeyboardInv ==
  Kbd!TypeOK /\ Kbd!ResetCodeHeld /\ Kbd!UnreadAnnounced /\ ClockHeld

LEMMA KeyboardInvInit == Init => KeyboardInv
<1> SUFFICES ASSUME Kbd!Init PROVE KeyboardInv
  BY DEF Init
<1>1. kbdPic \in PicState
  BY KbdOperators, InitialisedState DEF Kbd!Init, Kbd!Booted
<1>2. ppi \in Kbd!PpiState
  BY KbdOperators DEF Kbd!Init, Kbd!PpiReset, Kbd!PpiState, Kbd!Codes, Byte
<1>3. QED
  BY <1>1, <1>2, KbdOperators
     DEF Kbd!Init, Kbd!PpiReset, KeyboardInv, Kbd!TypeOK, Kbd!ResetCodeHeld,
         Kbd!UnreadAnnounced, ClockHeld, Byte

\* What a read of port 0x60 or 0x61 does.
LEMMA PortRead ==
  ASSUME NEW p \in Kbd!PpiState
  PROVE  /\ Kbd!Read60(p) \in Kbd!PpiState /\ Kbd!Read60(p).port61 = p.port61
         /\ ~Kbd!Read60(p).kbReset
         /\ Kbd!Read61(p) \in Kbd!PpiState
         /\ Kbd!Read61(p).kbReset = p.kbReset /\ Kbd!Read61(p).data = p.data
         /\ Kbd!Clock \in Kbd!Read61(p).port61 <=> Kbd!Clock \in p.port61
<1>1. Kbd!Read60(p) \in Kbd!PpiState /\ Kbd!Read60(p).port61 = p.port61
      /\ ~Kbd!Read60(p).kbReset
  <2>1. 0 \in Kbd!Codes
    BY DEF Kbd!Codes
  <2>2. CASE p.kbReset
    BY <2>1, <2>2 DEF Kbd!Read60, Kbd!PpiState
  <2>3. CASE ~p.kbReset
    BY <2>3 DEF Kbd!Read60
  <2>4. QED  BY <2>2, <2>3
<1> DEFINE b == Kbd!Toggle(p.port61, Kbd!Refresh)
<1>2. b \in Byte /\ (Kbd!Clock \in b <=> Kbd!Clock \in p.port61)
  BY KbdOperators DEF Kbd!Toggle, Kbd!Refresh, Kbd!Clock, Kbd!PpiState, Byte, Bit
<1>3. Kbd!Read61(p) = [p EXCEPT !.port61 = b]
  BY DEF Kbd!Read61
<1> HIDE DEF b
<1>4. QED
  BY <1>1, <1>2, <1>3, KbdOperators DEF Kbd!PpiState

\* The parts of KeyboardInv that a step can disturb.
LEMMA KeyboardInvStep == KeyboardInv /\ [Kbd!Next]_Kbd!vars => KeyboardInv'
<1> SUFFICES ASSUME KeyboardInv, [Kbd!Next]_Kbd!vars PROVE KeyboardInv'
  OBVIOUS
<1> DEFINE Spots == {"idle", "entered", "read", "latch", "restore", "eoi"}
           Registers == /\ ppi \in Kbd!PpiState /\ kbdPic \in PicState
                        /\ isr \in [at : Spots, copy : Byte]
                        /\ copy \in SUBSET Byte /\ fresh \in BOOLEAN
           Announced == fresh => Kbd!KEYBOARD \in kbdPic.request \/ isr.at = "entered"
           Held == ppi.kbReset => ppi.data = Kbd!RESETCODE
           Inv == Registers /\ Held /\ Announced /\ ClockHeld
<1>0. (KeyboardInv <=> Inv) /\ (KeyboardInv' <=> Inv')
  BY KbdOperators
     DEF KeyboardInv, Kbd!TypeOK, Kbd!ResetCodeHeld, Kbd!UnreadAnnounced
<1>i. Inv
  BY <1>0
<1> SUFFICES Inv'
  BY <1>0
<1>1. ASSUME NEW k \in Keys, NEW down \in BOOLEAN, Kbd!KeyEvent(k, down) PROVE Inv'
  <2> DEFINE r == Kbd!PushEvent(ppi, Kbd!ScanCode(k, down))
  <2>1. Kbd!ScanCode(k, down) \in Kbd!Codes
    BY DEF Kbd!Codes
  <2>2. Kbd!Apply(r) /\ UNCHANGED <<isr, copy>>
    BY <1>1 DEF Kbd!KeyEvent
  <2>3. /\ r.ppi \in Kbd!PpiState /\ r.irq \in BOOLEAN
        /\ r.ppi.data # ppi.data => r.irq
        /\ r.ppi.kbReset = ppi.kbReset /\ r.ppi.port61 = ppi.port61
        /\ ppi.kbReset => r.ppi.data = ppi.data
    BY <1>i, <2>1, KeyPushed
  <2> HIDE DEF r
  <2>4. QED
    BY <1>i, <2>2, <2>3, ResultApplied DEF ClockHeld
<1>2. CASE Kbd!MainReads60
  BY <1>i, <1>2, PortRead DEF Kbd!MainReads60, ClockHeld
<1>3. CASE Kbd!MainReads61
  <2>1. ppi' \in Kbd!PpiState /\ copy' \in SUBSET Byte
    BY <1>i, <1>3, PortRead, KbdOperators DEF Kbd!MainReads61, Kbd!PpiState
  <2>2. QED
    BY <1>i, <1>3, <2>1, PortRead DEF Kbd!MainReads61, ClockHeld
<1>4. ASSUME NEW b \in copy, NEW c \in Kbd!Edits(b), Kbd!MainWrites61(b, c) PROVE Inv'
  <2> DEFINE r == Kbd!Write61(ppi, c)
  <2>1. c \in Byte
    BY <1>i DEF Kbd!Edits, Kbd!Gate, Kbd!Lines61, Kbd!Clear, Kbd!Clock, Byte, Bit
  <2>2. Kbd!Apply(r) /\ isr.at = "idle" /\ isr' = isr /\ copy' = {}
    BY <1>4 DEF Kbd!MainWrites61, Kbd!Main
  <2>3. /\ r.ppi \in Kbd!PpiState /\ r.irq \in BOOLEAN
        /\ r.ppi.data # ppi.data => r.irq
        /\ r.ppi.kbReset => r.ppi.data = Kbd!RESETCODE
    BY <1>i, <2>1, PortWritten
  <2> HIDE DEF r
  <2>4. QED
    BY <1>i, <2>2, <2>3, ResultApplied DEF ClockHeld
<1>5. CASE Kbd!EnterInt9
  <2>1. /\ Kbd!Clock \in ppi.port61 /\ isr' = [isr EXCEPT !.at = "entered"]
        /\ kbdPic' = PicAck(kbdPic) /\ Deliverable(kbdPic) # {}
        /\ UNCHANGED <<ppi, copy, fresh>>
    BY <1>5, KbdOperators DEF Kbd!EnterInt9
  <2>2. kbdPic' \in PicState
    BY <1>i, <2>1, AckType
  <2>3. isr' \in [at : Spots, copy : Byte] /\ isr'.at = "entered"
    BY <1>i, <2>1
  <2>4. QED
    BY <1>i, <2>1, <2>2, <2>3 DEF ClockHeld
<1>6. CASE Kbd!Int9Reads60
  <2>1. /\ isr' = [isr EXCEPT !.at = "read"] /\ ppi' = Kbd!Read60(ppi)
        /\ isr.at = "entered" /\ ~fresh' /\ fresh' \in BOOLEAN
        /\ UNCHANGED <<kbdPic, copy>>
    BY <1>6 DEF Kbd!Int9Reads60
  <2>2. isr' \in [at : Spots, copy : Byte] /\ isr'.at = "read"
    BY <1>i, <2>1
  <2>3. QED
    BY <1>i, <2>1, <2>2, PortRead DEF ClockHeld
<1>7. CASE Kbd!Int9Reads61
  <2>1. /\ isr' = [at |-> "latch", copy |-> ppi'.port61] /\ ppi' = Kbd!Read61(ppi)
        /\ isr.at = "read" /\ UNCHANGED <<kbdPic, copy, fresh>>
    BY <1>7 DEF Kbd!Int9Reads61
  <2>2. ppi' \in Kbd!PpiState /\ ppi'.port61 \in Byte
    BY <1>i, <2>1, PortRead, KbdOperators DEF Kbd!PpiState
  <2>3. isr' \in [at : Spots, copy : Byte]
    BY <2>1, <2>2
  <2>4. QED
    BY <1>i, <2>1, <2>2, <2>3, PortRead DEF ClockHeld
<1>8. ASSUME NEW from \in {"latch", "restore"}, NEW to \in {"restore", "eoi"},
             NEW b \in Byte, Kbd!Clock \in b, Kbd!Int9Writes61(from, to, b)
      PROVE  Inv'
  <2> DEFINE r == Kbd!Write61(ppi, b)
  <2>1. /\ Kbd!Apply(r) /\ isr.at = from /\ isr' = [isr EXCEPT !.at = to]
        /\ copy' = copy
    BY <1>8 DEF Kbd!Int9Writes61
  <2>2. /\ r.ppi \in Kbd!PpiState /\ r.irq \in BOOLEAN /\ r.ppi.port61 = b
        /\ r.ppi.data # ppi.data => r.irq
        /\ r.ppi.kbReset => r.ppi.data = Kbd!RESETCODE
    BY <1>i, PortWritten
  <2> HIDE DEF r
  <2>3. isr' \in [at : Spots, copy : Byte] /\ isr'.at = to /\ isr'.copy = isr.copy
    BY <1>i, <2>1
  <2>4. QED
    BY <1>i, <1>8, <2>1, <2>2, <2>3, ResultApplied DEF ClockHeld
<1>9. CASE Kbd!Int9Latches
  <2>1. isr.copy \cup {Kbd!Clear} \in Byte
    BY <1>i DEF Kbd!Clear, Byte, Bit
  <2>2. Kbd!Clock \in isr.copy \cup {Kbd!Clear}
    BY <1>i, <1>9 DEF Kbd!Int9Latches, Kbd!Int9Writes61, ClockHeld
  <2>3. QED
    BY <1>8, <1>9, <2>1, <2>2 DEF Kbd!Int9Latches
<1>10. CASE Kbd!Int9Restores
  <2>1. isr.copy \in Byte /\ Kbd!Clock \in isr.copy
    BY <1>i, <1>10 DEF Kbd!Int9Restores, Kbd!Int9Writes61, ClockHeld
  <2>2. QED
    BY <1>8, <1>10, <2>1 DEF Kbd!Int9Restores
<1>11. CASE Kbd!Int9Ends
  <2>1. /\ isr' = [at |-> "idle", copy |-> {}] /\ isr.at = "eoi"
        /\ kbdPic' = PicCommand(kbdPic, {5}) /\ UNCHANGED <<ppi, copy, fresh>>
    BY <1>11, KbdOperators DEF Kbd!Int9Ends
  <2>2. {5} \in Byte /\ {} \in Byte
    BY DEF Byte, Bit
  <2>3. kbdPic' \in PicState /\ kbdPic'.request = kbdPic.request
    BY <1>i, <2>1, <2>2, CommandKeeps
  <2>4. QED
    BY <1>i, <2>1, <2>2, <2>3 DEF ClockHeld
<1>12. CASE Kbd!Reset
  <2>1. /\ ppi' = Kbd!PpiReset /\ isr' = [at |-> "idle", copy |-> {}]
        /\ copy' = {} /\ fresh' = FALSE /\ kbdPic' = Kbd!Booted
    BY <1>12 DEF Kbd!Reset
  <2>2. kbdPic' \in PicState
    BY <2>1, KbdOperators, InitialisedState DEF Kbd!Booted
  <2>3. ppi' \in Kbd!PpiState /\ ~ppi'.kbReset
    BY <2>1, KbdOperators DEF Kbd!PpiReset, Kbd!PpiState, Kbd!Codes, Byte
  <2>4. {} \in Byte
    BY DEF Byte
  <2>5. QED  BY <2>1, <2>2, <2>3, <2>4 DEF ClockHeld
<1>13. CASE UNCHANGED Kbd!vars
  BY <1>i, <1>13 DEF Kbd!vars, ClockHeld
<1>14. QED
  BY <1>1, <1>2, <1>3, <1>4, <1>5, <1>6, <1>7, <1>9, <1>10, <1>11, <1>12, <1>13
     DEF Kbd!Next

LEMMA KeyboardInvHolds == Spec => []KeyboardInv
  BY KeyboardInvInit, KeyboardInvStep, StepOfOne, PTL DEF Spec

\* What the keyboard holds for the guest is announced to it, however key events come
\* between the accesses of its handler, its main program and its resets of the
\* keyboard (ppi.odin:82-117, 138-145).
THEOREM KeysAreAnnounced == Spec => []KeysAnnounced
<1>1. KeyboardInv => KeysAnnounced
  BY DEF KeyboardInv, KeysAnnounced
<1>2. QED  BY <1>1, KeyboardInvHolds, PTL

\* The handler's acknowledgement of a key resets nothing, as the guest enters the
\* handler with the keyboard's clock high.
LEMMA AckStep ==
  ASSUME KeyboardInv, Kbd!Next, isr.at \in {"latch", "restore"}, isr'.at # isr.at
  PROVE  ~ppi'.kbReset \/ ppi.kbReset
<1>0. ppi \in Kbd!PpiState /\ isr.copy \in Byte
  BY KbdOperators DEF KeyboardInv, Kbd!TypeOK
<1>1. ASSUME NEW from, NEW to, NEW b \in Byte, Kbd!Int9Writes61(from, to, b)
      PROVE  ~ppi'.kbReset \/ ppi.kbReset
  <2>1. ppi' = Kbd!Write61(ppi, b).ppi
    BY <1>1 DEF Kbd!Int9Writes61, Kbd!Apply
  <2>2. Kbd!Clock \in ppi.port61
    BY DEF KeyboardInv, ClockHeld
  <2>3. QED  BY <1>0, <2>1, <2>2, PortWritten
<1>2. CASE Kbd!Int9Latches
  <2>1. isr.copy \cup {Kbd!Clear} \in Byte
    BY <1>0 DEF Kbd!Clear, Byte, Bit
  <2>2. QED  BY <1>1, <1>2, <2>1 DEF Kbd!Int9Latches
<1>3. CASE Kbd!Int9Restores
  BY <1>0, <1>1, <1>3 DEF Kbd!Int9Restores
<1>4. CASE Kbd!Reset
  BY <1>4 DEF Kbd!Reset, Kbd!PpiReset
<1>5. CASE \E k \in Keys, down \in BOOLEAN : Kbd!KeyEvent(k, down)
  BY <1>5 DEF Kbd!KeyEvent
<1>6. ~Kbd!MainReads60 /\ ~Kbd!MainReads61 /\ ~Kbd!EnterInt9
      /\ ~\E b \in copy : \E c \in Kbd!Edits(b) : Kbd!MainWrites61(b, c)
  BY DEF Kbd!MainReads60, Kbd!MainReads61, Kbd!EnterInt9, Kbd!MainWrites61, Kbd!Main
<1>7. ~Kbd!Int9Reads60 /\ ~Kbd!Int9Reads61 /\ ~Kbd!Int9Ends
  BY DEF Kbd!Int9Reads60, Kbd!Int9Reads61, Kbd!Int9Ends
<1>8. QED
  BY <1>2, <1>3, <1>4, <1>5, <1>6, <1>7 DEF Kbd!Next

\* No write of the guest's loses a request, the most urgent one is taken first, and
\* acknowledging a key does not reset the keyboard (pic.odin:51-105; ppi.odin:106-117).
THEOREM RequestsAreTaken == Spec => RequestsTaken
<1> DEFINE Kept == Controller!Reset \/ pic.request \ pic'.request \subseteq pic'.service
           First == \A i \in pic'.service \ pic.service :
                      \A j \in Controller!Bit :
                        j \in pic.request \ (pic.mask \cup pic.service) => i <= j
           NoReset == isr.at \in {"latch", "restore"} /\ isr'.at # isr.at
                        => ~ppi'.kbReset \/ ppi.kbReset
<1>1. Controller!TypeOK /\ [Controller!Next]_pic => [Kept]_pic /\ [First]_pic
  BY RequestsStep, PicOperators DEF Controller!Bit, Bit
<1>2. KeyboardInv /\ [Kbd!Next]_Kbd!vars => [NoReset]_Kbd!vars
  BY AckStep
<1>3. Spec => [][Kept]_pic /\ [][First]_pic /\ [][NoReset]_Kbd!vars
  BY <1>1, <1>2, PicTyped, KeyboardInvHolds, StepOfOne, PTL DEF Spec
<1>4. QED
  BY <1>3 DEF RequestsTaken, Controller!RequestsKept, Controller!FixedPriority,
              Kbd!AckIsNoReset
-----------------------------------------------------------------------------
(* The clock and the interval timer, which keep numbers in two parts. *)

\* A number of two parts, each below b, and its parts.
LEMMA TwoParts ==
  ASSUME NEW b \in Nat \ {0}
  PROVE  /\ b * b \in Nat \ {0} /\ b <= b * b
         /\ \A w \in 0..(b * b - 1) :
              /\ w % b \in 0..(b - 1) /\ w \div b \in 0..(b - 1)
              /\ w = (w \div b) * b + (w % b)
         /\ \A high, low \in 0..(b - 1) :
              /\ high * b + low \in 0..(b * b - 1)
              /\ (high * b + low) % b = low /\ (high * b + low) \div b = high
<1>1. b * b \in Nat \ {0} /\ b <= b * b
  OBVIOUS
<1>2. ASSUME NEW w \in 0..(b * b - 1)
      PROVE  /\ w % b \in 0..(b - 1) /\ w \div b \in 0..(b - 1)
             /\ w = (w \div b) * b + (w % b)
  <2>1. /\ w \in Nat /\ w \div b \in Nat /\ w % b \in 0..(b - 1)
        /\ w = b * (w \div b) + (w % b)
    BY <1>1, <1>2, DivMod
  <2>2. w \div b < b
    BY <1>1, <1>2, DivBelow
  <2>3. QED  BY <2>1, <2>2
<1>3. ASSUME NEW high \in 0..(b - 1), NEW low \in 0..(b - 1)
      PROVE  /\ high * b + low \in 0..(b * b - 1)
             /\ (high * b + low) % b = low /\ (high * b + low) \div b = high
  <2> DEFINE q == high * b
  <2>1. q \in Nat /\ q + b <= b * b
    <3>1. q \in Nat
      OBVIOUS
    <3>2. (high + 1) * b <= b * b
      OBVIOUS
    <3>3. (high + 1) * b = q + b
      OBVIOUS
    <3>4. QED  BY <3>1, <3>2, <3>3
  <2>2. (q + low) % b = low /\ (q + low) \div b = high
    OBVIOUS
  <2> HIDE DEF q
  <2>3. q + low \in 0..(b * b - 1)
    BY <1>1, <2>1
  <2>4. QED  BY <2>2, <2>3 DEF q
<1>4. QED  BY <1>1, <1>2, <1>3

\* What the guest has read when it has read that part, unless the clock has told it since
\* that the time has changed.
ClockInv ==
  /\ Clock!TypeOK
  /\ selected => addr = Clock!Register[stage]
  /\ (stage \in {"minutes", "check"} /\ ~busy) \/ taken =>
       seconds = Clock!Seconds(current_time)
  /\ (stage = "check" /\ ~busy) \/ taken => minutes = Clock!Minutes(current_time)

LEMMA ClockInvInit == Init => ClockInv
<1> SUFFICES ASSUME Clock!Init PROVE ClockInv
  BY DEF Init
<1>1. ClockBase \in Nat \ {0}
  BY PartsAssumption DEF Clock!RtcAssumption
<1>2. 0 \in Clock!Times /\ ClockBase - 1 \in Clock!Times
  BY <1>1, TwoParts DEF Clock!Times
<1>3. QED
  BY <1>2 DEF Clock!Init, ClockInv, Clock!TypeOK, Clock!Stages

LEMMA ClockInvStep == ClockInv /\ [Clock!Next]_Clock!vars => ClockInv'
<1> SUFFICES ASSUME ClockInv, [Clock!Next]_Clock!vars PROVE ClockInv'
  OBVIOUS
<1> USE DEF ClockInv
<1>1. CASE Clock!HostClock
  <2>1. ClockBase \in Nat \ {0} /\ ClockBase * ClockBase \in Nat \ {0}
    BY PartsAssumption, TwoParts DEF Clock!RtcAssumption
  <2>2. now' \in Clock!Times
    <3> DEFINE size == ClockBase * ClockBase
    <3>1. now + 1 \in Int /\ size \in Nat \ {0}
      BY <2>1 DEF Clock!TypeOK, Clock!Times
    <3>2. now' = (now + 1) % size /\ Clock!Times = 0..(size - 1)
      BY <1>1 DEF Clock!HostClock, Clock!Times
    <3> HIDE DEF size
    <3>3. QED  BY <3>1, <3>2
  <2>3. QED
    BY <1>1, <2>2 DEF Clock!HostClock, Clock!TypeOK
<1>2. CASE Clock!Timer
  BY <1>2 DEF Clock!Timer, Clock!TypeOK
<1>3. CASE Clock!Select
  <2>1. /\ addr' = Clock!Register[stage] /\ selected' = TRUE /\ taken' = FALSE
        /\ UNCHANGED <<now, current_time, busy, stage, seconds, minutes>>
    BY <1>3 DEF Clock!Select
  <2>2. Clock!Register[stage] \in {0, 2, 10, 13}
    BY DEF Clock!TypeOK, Clock!Stages, Clock!Register
  <2>3. Clock!TypeOK'
    BY <2>1, <2>2 DEF Clock!TypeOK
  <2>4. QED
    BY <2>1, <2>3
<1>4. CASE Clock!Read
  <2>1. /\ addr = Clock!Register[stage] /\ ~selected' /\ addr' = 13
        /\ (busy' <=> busy /\ addr # 10) /\ current_time' = current_time /\ now' = now
        /\ seconds' = IF addr = 0 THEN Clock!Seconds(current_time) ELSE seconds
        /\ minutes' = IF addr = 2 THEN Clock!Minutes(current_time) ELSE minutes
        /\ taken' = (stage = "check" /\ ~busy) /\ selected' = FALSE
    BY <1>4 DEF Clock!Read, Clock!Busy
  <2>2. /\ stage = "status" => stage' = IF busy THEN "status" ELSE "seconds"
        /\ stage = "seconds" => stage' = "minutes"
        /\ stage = "minutes" => stage' = "check"
        /\ stage = "check" => stage' = IF busy THEN "seconds" ELSE "status"
    BY <1>4 DEF Clock!Read
  <2>3. stage \in {"status", "seconds", "minutes", "check"}
    BY DEF Clock!TypeOK, Clock!Stages
  <2>4. Clock!TypeOK'
    <3>1. busy' \in BOOLEAN /\ taken' \in BOOLEAN
      BY <1>4 DEF Clock!Read, Clock!Busy
    <3>2. QED  BY <2>1, <2>2, <2>3, <3>1 DEF Clock!TypeOK, Clock!Stages
  <2>5. /\ Clock!Register["seconds"] = 0 /\ Clock!Register["minutes"] = 2
        /\ Clock!Register["status"] = 10 /\ Clock!Register["check"] = 10
    BY DEF Clock!Register
  <2>6. CASE stage = "status"
    BY <2>1, <2>2, <2>4, <2>5, <2>6
  <2>7. CASE stage = "seconds"
    BY <2>1, <2>2, <2>4, <2>5, <2>7
  <2>8. CASE stage = "minutes"
    <3>1. addr = 2 /\ stage' = "check"
      BY <2>1, <2>2, <2>5, <2>8
    <3>2. ~busy' => ~busy
      BY <2>1, <3>1
    <3>3. ~taken' /\ ~selected'
      BY <2>1, <2>8
    <3>4. seconds' = seconds /\ minutes' = Clock!Minutes(current_time)
      BY <2>1, <3>1
    <3>5. QED  BY <2>1, <2>4, <2>8, <3>1, <3>2, <3>3, <3>4
  <2>9. CASE stage = "check"
    BY <2>1, <2>2, <2>4, <2>5, <2>9
  <2>10. QED
    BY <2>3, <2>6, <2>7, <2>8, <2>9
<1>5. CASE UNCHANGED Clock!vars
  BY <1>5 DEF Clock!vars, Clock!TypeOK
<1>6. QED
  BY <1>1, <1>2, <1>3, <1>4, <1>5 DEF Clock!Next

LEMMA ClockInvHolds == Spec => []ClockInv
  BY ClockInvInit, ClockInvStep, StepOfOne, PTL DEF Spec
-----------------------------------------------------------------------------
\* The channel's registers and what the guest expects of them, byte by byte: which byte
\* is next at the port, and what the channel holds of the count the guest is half-way
\* through writing or reading.
GuestRecord ==
  [at : {"idle", "low", "high", "readlow", "readhigh"}, wrote : Timer!Byt,
   goal : Timer!Word \cup {Timer!None}, ended : {"low", "high"}, snap : Timer!Word,
   read : Int]

InStep(c, g) ==
  /\ c.enabled => c.chdata = g.goal
  /\ g.at = "low" => Timer!LowNext(c)
  /\ g.at = "high" => ~Timer!LowNext(c) /\ g.wrote = Timer!Low(c.chdata)
  /\ g.at \in {"low", "high"} => g.read = Timer!None
  /\ g.at \in {"readlow", "readhigh"} => c.mode = "LATCH_COUNT" /\ c.latch = g.snap
  /\ g.at = "readlow" => ~c.toggle
  /\ g.at = "readhigh" => c.toggle /\ g.read = Timer!Low(g.snap)
  /\ g.at = "idle" /\ g.read # Timer!None => g.read = g.snap

TimerInv ==
  /\ Timer!TypeOK /\ guest \in [Chans -> GuestRecord]
  /\ \A i \in Chans : InStep(channels[i], guest[i])

LEMMA TimerWords ==
  /\ TimerBase \in Nat \ {0} /\ Interval \in Nat \ {0}
  /\ 0 \in Timer!Byt /\ 0 \in Timer!Word /\ TimerBase * TimerBase - 1 \in Timer!Word
  /\ \A w \in Timer!Word :
       /\ Timer!Low(w) \in Timer!Byt /\ Timer!High(w) \in Timer!Byt
       /\ w = Timer!High(w) * TimerBase + Timer!Low(w)
  /\ \A high, low \in Timer!Byt :
       /\ high * TimerBase + low \in Timer!Word
       /\ Timer!Low(high * TimerBase + low) = low
       /\ Timer!High(high * TimerBase + low) = high
<1>1. TimerBase \in Nat \ {0} /\ Interval \in Nat \ {0}
  BY PartsAssumption DEF Timer!PitAssumption
<1>2. TimerBase * TimerBase \in Nat \ {0}
  BY <1>1, TwoParts
<1>3. 0 \in Timer!Byt /\ 0 \in Timer!Word /\ TimerBase * TimerBase - 1 \in Timer!Word
  <2> DEFINE size == TimerBase * TimerBase
  <2>1. size \in Nat \ {0} /\ Timer!Word = 0..(size - 1) /\ Timer!Byt = 0..(TimerBase - 1)
    BY <1>2 DEF Timer!Word, Timer!Byt
  <2> HIDE DEF size
  <2>2. 0 \in Timer!Byt /\ 0 \in Timer!Word /\ size - 1 \in Timer!Word
    BY <1>1, <2>1
  <2>3. QED  BY <2>2 DEF size
<1>4. \A w \in 0..(TimerBase * TimerBase - 1) :
        /\ w % TimerBase \in 0..(TimerBase - 1) /\ w \div TimerBase \in 0..(TimerBase - 1)
        /\ w = (w \div TimerBase) * TimerBase + (w % TimerBase)
  BY <1>1, TwoParts, Zenon
<1>5. \A high, low \in 0..(TimerBase - 1) :
        /\ high * TimerBase + low \in 0..(TimerBase * TimerBase - 1)
        /\ (high * TimerBase + low) % TimerBase = low
        /\ (high * TimerBase + low) \div TimerBase = high
  BY <1>1, TwoParts, Zenon
<1>6. QED
  BY <1>1, <1>3, <1>4, <1>5, Zenon DEF Timer!Byt, Timer!Word, Timer!Low, Timer!High

LEMMA TimerInvInit == Timer!Init => TimerInv
<1> SUFFICES ASSUME Timer!Init PROVE TimerInv
  OBVIOUS
<1>1. Timer!Zeroed \in Timer!Channel /\ ~Timer!Zeroed.enabled
  BY TimerWords DEF Timer!Zeroed, Timer!Channel, Timer!Mode
<1>2. Timer!GuestIdle \in GuestRecord
      /\ Timer!GuestIdle.at = "idle" /\ Timer!GuestIdle.read = Timer!None
      /\ Timer!GuestIdle.goal = Timer!None
  BY TimerWords DEF Timer!GuestIdle, GuestRecord, Timer!None
<1>3. ticker \in 0..Interval - 1 /\ irq0 \in BOOLEAN
  <2>1. Interval \in Nat \ {0} /\ ticker = 0 /\ irq0 = FALSE
    BY TimerWords DEF Timer!Init
  <2>2. irq0 \in BOOLEAN
    BY <2>1, Zenon
  <2>3. QED  BY <2>1, <2>2
<1>4. \A i \in Chans : channels[i] = Timer!Zeroed /\ guest[i] = Timer!GuestIdle
  BY DEF Timer!Init
<1>5. channels \in [Chans -> Timer!Channel] /\ guest \in [Chans -> GuestRecord]
  BY <1>1, <1>2 DEF Timer!Init
<1>6. \A i \in Chans : InStep(channels[i], guest[i])
  BY <1>1, <1>2, <1>4 DEF InStep
<1>7. QED
  BY <1>2, <1>3, <1>4, <1>5, <1>6 DEF TimerInv, Timer!TypeOK

\* What the operations on a channel do to its fields.
LEMMA Commanded ==
  ASSUME NEW c \in Timer!Channel, NEW m \in Timer!Mode
  PROVE  LET d == Timer!Command(c, m)
         IN  /\ d \in Timer!Channel /\ d.enabled = c.enabled /\ d.chdata = c.chdata
             /\ ~d.toggle /\ d.mode = m /\ (m = "LATCH_COUNT" => d.latch = c.counter)
BY DEF Timer!Command, Timer!Channel

LEMMA FlipTyped ==
  ASSUME NEW c \in Timer!Channel
  PROVE  LET d == Timer!Flipped(c)
         IN  /\ d \in Timer!Channel /\ d.enabled = c.enabled /\ d.chdata = c.chdata
             /\ d.mode = c.mode /\ d.latch = c.latch /\ d.counter = c.counter
             /\ Timer!Flips(c) => (d.toggle <=> ~c.toggle)
BY DEF Timer!Flipped, Timer!Channel

LEMMA Read ==
  ASSUME NEW c \in Timer!Channel, c.mode = "LATCH_COUNT"
  PROVE  LET d == Timer!AfterRead(c)
         IN  /\ d \in Timer!Channel /\ d.enabled = c.enabled /\ d.chdata = c.chdata
             /\ d.mode = c.mode /\ d.latch = c.latch /\ (d.toggle <=> ~c.toggle)
             /\ Timer!ReadByte(c) = IF c.toggle THEN Timer!High(c.latch)
                                                ELSE Timer!Low(c.latch)
BY FlipTyped DEF Timer!AfterRead, Timer!Refreshed, Timer!Flips, Timer!ReadByte,
                 Timer!LowNext

LEMMA LowWritten ==
  ASSUME NEW c \in Timer!Channel, NEW b \in Timer!Byt, Timer!LowNext(c)
  PROVE  LET d == Timer!WriteByte(c, b)
         IN  /\ d \in Timer!Channel /\ ~d.enabled /\ Timer!Low(d.chdata) = b
             /\ d.mode = c.mode
             /\ c.mode # "LOW_BYTE" => ~Timer!LowNext(d)
<1> DEFINE w == Timer!High(c.chdata) * TimerBase + b
           e == [[c EXCEPT !.chdata = w] EXCEPT !.enabled = FALSE]
<1>1. w \in Timer!Word /\ Timer!Low(w) = b
  BY TimerWords DEF Timer!Channel
<1>2. Timer!WriteByte(c, b) = Timer!Flipped(e)
  BY DEF Timer!WriteByte, Timer!Channel
<1> HIDE DEF w
<1>3. e \in Timer!Channel /\ e.chdata = w /\ ~e.enabled /\ e.mode = c.mode
      /\ e.toggle = c.toggle
  BY <1>1 DEF Timer!Channel
<1> HIDE DEF e
<1>4. QED
  BY <1>1, <1>2, <1>3, FlipTyped DEF Timer!LowNext, Timer!Flips

LEMMA HighWritten ==
  ASSUME NEW c \in Timer!Channel, NEW b \in Timer!Byt, ~Timer!LowNext(c)
  PROVE  LET d == Timer!WriteByte(c, b)
             w == b * TimerBase + Timer!Low(c.chdata)
         IN  /\ d \in Timer!Channel /\ w \in Timer!Word
             /\ d.chdata = IF w = 0 THEN TimerBase * TimerBase - 1 ELSE w
<1> DEFINE w == b * TimerBase + Timer!Low(c.chdata)
           v == IF w = 0 THEN TimerBase * TimerBase - 1 ELSE w
           e == [[c EXCEPT !.enabled = TRUE] EXCEPT !.chdata = v]
<1>1. w \in Timer!Word /\ v \in Timer!Word
  BY TimerWords DEF Timer!Channel
<1>2. Timer!WriteByte(c, b) = Timer!Flipped(e)
  BY DEF Timer!WriteByte, Timer!Channel
<1>3. Timer!Flipped(e) \in Timer!Channel /\ Timer!Flipped(e).chdata = v
  <2> HIDE DEF v
  <2>1. e \in Timer!Channel /\ e.chdata = v
    BY <1>1 DEF Timer!Channel
  <2> HIDE DEF e
  <2>2. QED  BY <2>1, FlipTyped
<1>4. QED
  BY <1>1, <1>2, <1>3

\* Counting changes the counter only.
LEMMA Counted ==
  ASSUME NEW c \in Timer!Channel, NEW n \in Nat
  PROVE  LET d == Timer!After(c, n)
         IN  /\ d \in Timer!Channel /\ d.enabled = c.enabled /\ d.chdata = c.chdata
             /\ d.mode = c.mode /\ d.latch = c.latch /\ d.toggle = c.toggle
<1> DEFINE v == IF n <= c.counter THEN c.counter - n
                ELSE c.chdata - ((n - c.counter - 1) % (c.chdata + 1))
           e == [c EXCEPT !.counter = v]
           size == TimerBase * TimerBase
<1>1. c.counter \in 0..(size - 1) /\ c.chdata \in 0..(size - 1) /\ size \in Nat
  BY TimerWords, TwoParts DEF Timer!Channel, Timer!Word
<1>2. Timer!Word = 0..(size - 1)
  BY DEF Timer!Word
<1> HIDE DEF size
<1>3. v \in Timer!Word
  <2>1. CASE n <= c.counter
    BY <1>1, <1>2, <2>1
  <2>2. CASE n > c.counter
    <3> DEFINE past == n - c.counter - 1
               k == c.chdata + 1
    <3>1. past \in Nat /\ k \in Nat \ {0} /\ ~(n <= c.counter)
      BY <1>1, <2>2
    <3>2. v = (k - 1) - (past % k)
      BY <1>1, <3>1
    <3>3. k - 1 \in 0..(size - 1)
      BY <1>1
    <3> HIDE DEF past, k
    <3>4. past % k \in 0..(k - 1)
      BY <3>1
    <3> HIDE DEF v
    <3>5. QED  BY <1>1, <1>2, <3>1, <3>2, <3>3, <3>4
  <2>3. QED  BY <1>1, <2>1, <2>2
<1> HIDE DEF v
<1>4. e \in Timer!Channel /\ e.enabled = c.enabled /\ e.chdata = c.chdata
      /\ e.mode = c.mode /\ e.latch = c.latch /\ e.toggle = c.toggle
  BY <1>3 DEF Timer!Channel
<1>5. Timer!After(c, n) = IF c.enabled THEN e ELSE c
  BY DEF Timer!After, v
<1> HIDE DEF e
<1>6. QED  BY <1>4, <1>5

\* A step at the ports of one channel.
LEMMA AtPort ==
  ASSUME TimerInv, NEW i \in Chans, NEW c \in Timer!Channel, NEW g \in GuestRecord,
         InStep(c, g), Timer!Port(i, c), Timer!Guest(i, g)
  PROVE  TimerInv'
<1>1. /\ channels' = [channels EXCEPT ![i] = c] /\ guest' = [guest EXCEPT ![i] = g]
      /\ ticker' = ticker /\ irq0' = irq0
  BY DEF Timer!Port, Timer!Guest
<1>2. /\ channels \in [Chans -> Timer!Channel] /\ guest \in [Chans -> GuestRecord]
      /\ ticker \in 0..Interval - 1 /\ irq0 \in BOOLEAN
      /\ \A j \in Chans : InStep(channels[j], guest[j])
  BY DEF TimerInv, Timer!TypeOK
<1>3. channels' \in [Chans -> Timer!Channel] /\ guest' \in [Chans -> GuestRecord]
  BY <1>1, <1>2
<1>4. \A j \in Chans : /\ channels'[j] = IF j = i THEN c ELSE channels[j]
                       /\ guest'[j] = IF j = i THEN g ELSE guest[j]
  BY <1>1, <1>2
<1>5. \A j \in Chans : InStep(channels'[j], guest'[j])
  BY <1>2, <1>4
<1>6. \A j \in Chans : guest'[j].goal \in Timer!Word \cup {Timer!None}
  BY <1>3 DEF GuestRecord
<1>7. (\A j \in Chans : InStep(channels[j], guest[j]))'
  BY <1>5 DEF InStep, Timer!LowNext, Timer!Flips, Timer!Low, Timer!None
<1>8. Timer!TypeOK' /\ (guest \in [Chans -> GuestRecord])'
  BY <1>1, <1>2, <1>3, <1>6 DEF Timer!TypeOK, Timer!Channel, Timer!Word, Timer!Mode,
     Timer!None, GuestRecord, Timer!Byt
<1>9. QED  BY <1>7, <1>8 DEF TimerInv

\* The counters run on under the guest's hands.
LEMMA Stepped ==
  ASSUME TimerInv, NEW cycles \in Elapsed, Timer!ProcessorStep(cycles)
  PROVE  TimerInv'
<1> DEFINE n == (ticker + cycles) \div Interval
<1>1. /\ Interval \in Nat \ {0} /\ cycles \in Nat /\ ticker \in 0..Interval - 1
      /\ irq0 \in BOOLEAN /\ guest \in [Chans -> GuestRecord]
      /\ channels \in [Chans -> Timer!Channel]
      /\ \A i \in Chans : InStep(channels[i], guest[i])
  BY PartsAssumption DEF Timer!PitAssumption, TimerInv, Timer!TypeOK
<1>2. n \in Nat /\ (ticker + cycles) % Interval \in 0..Interval - 1
  BY <1>1
<1>3. /\ ticker' = (ticker + cycles) % Interval /\ guest' = guest
      /\ channels' = [i \in Chans |-> Timer!After(channels[i], n)]
      /\ irq0' = (irq0 \/ (0 \in Chans /\ Timer!FiresWithin(channels[0], n)))
  BY DEF Timer!ProcessorStep
<1> HIDE DEF n
<1>4. irq0' \in BOOLEAN
  BY <1>3, Zenon
<1>5. ASSUME NEW i \in Chans
      PROVE  /\ channels'[i] \in Timer!Channel /\ guest'[i] = guest[i]
             /\ InStep(channels'[i], guest'[i])
  <2>1. channels'[i] = Timer!After(channels[i], n) /\ channels[i] \in Timer!Channel
    BY <1>1, <1>3
  <2>2. LET d == channels'[i]
            c == channels[i]
        IN  /\ d \in Timer!Channel /\ d.enabled = c.enabled /\ d.chdata = c.chdata
            /\ d.mode = c.mode /\ d.latch = c.latch /\ d.toggle = c.toggle
    <3>1. n \in Nat
      BY <1>2
    <3>2. QED  BY <2>1, <3>1, Counted
  <2>3. InStep(channels[i], guest[i])
    BY <1>1
  <2>4. QED
    BY <1>3, <2>2, <2>3 DEF InStep, Timer!LowNext, Timer!Flips
<1>6. channels' \in [Chans -> Timer!Channel]
  BY <1>3, <1>5
<1>7. Timer!TypeOK'
  BY <1>1, <1>2, <1>3, <1>4, <1>6 DEF Timer!TypeOK, GuestRecord
<1>8. QED
  BY <1>1, <1>3, <1>5, <1>7 DEF TimerInv

\* What the guest notes with each step keeps the type of its record.
GuestSpot == {"idle", "low", "high", "readlow", "readhigh"}

Started(r, at, x, w) == [r EXCEPT !.at = at, !.read = x, !.wrote = w]
Snapped(r, v, x) == [r EXCEPT !.at = "readlow", !.snap = v, !.read = x]
Noted(r, at, x) == [r EXCEPT !.at = at, !.read = x]

LEMMA GuestNotes ==
  ASSUME NEW r \in GuestRecord, NEW at \in GuestSpot, NEW x \in Int
  PROVE  /\ \A w \in Timer!Byt :
              /\ Started(r, at, x, w) \in GuestRecord /\ Started(r, at, x, w).at = at
              /\ Started(r, at, x, w).read = x /\ Started(r, at, x, w).wrote = w
              /\ Started(r, at, x, w).goal = r.goal
         /\ \A v \in Timer!Word :
              /\ Snapped(r, v, x) \in GuestRecord /\ Snapped(r, v, x).at = "readlow"
              /\ Snapped(r, v, x).snap = v /\ Snapped(r, v, x).goal = r.goal
         /\ Noted(r, at, x) \in GuestRecord /\ Noted(r, at, x).at = at
         /\ Noted(r, at, x).read = x /\ Noted(r, at, x).snap = r.snap
         /\ Noted(r, at, x).goal = r.goal
<1>1. ASSUME NEW w \in Timer!Byt
      PROVE  /\ Started(r, at, x, w) \in GuestRecord /\ Started(r, at, x, w).at = at
             /\ Started(r, at, x, w).read = x /\ Started(r, at, x, w).wrote = w
             /\ Started(r, at, x, w).goal = r.goal
  BY DEF Started, GuestRecord, GuestSpot
<1>2. ASSUME NEW v \in Timer!Word
      PROVE  /\ Snapped(r, v, x) \in GuestRecord /\ Snapped(r, v, x).at = "readlow"
             /\ Snapped(r, v, x).snap = v /\ Snapped(r, v, x).goal = r.goal
  BY DEF Snapped, GuestRecord, GuestSpot
<1>3. /\ Noted(r, at, x) \in GuestRecord /\ Noted(r, at, x).at = at
      /\ Noted(r, at, x).read = x /\ Noted(r, at, x).snap = r.snap
      /\ Noted(r, at, x).goal = r.goal
  BY DEF Noted, GuestRecord, GuestSpot
<1>4. QED  BY <1>1, <1>2, <1>3

LEMMA TimerInvStep == TimerInv /\ [Timer!Next]_Timer!vars => TimerInv'
<1> SUFFICES ASSUME TimerInv, [Timer!Next]_Timer!vars PROVE TimerInv'
  OBVIOUS
<1>0. ASSUME NEW i \in Chans
      PROVE  /\ channels[i] \in Timer!Channel /\ guest[i] \in GuestRecord
             /\ InStep(channels[i], guest[i])
  BY DEF TimerInv, Timer!TypeOK
<1>1. ASSUME NEW i \in Chans, NEW m \in AccessModes, Timer!Program(i, m) PROVE TimerInv'
  <2> DEFINE c == Timer!Command(channels[i], m)
             at == IF m = "HIGH_BYTE" THEN "high" ELSE "low"
             g == Started(guest[i], at, Timer!None, Timer!Low(channels[i].chdata))
  <2>1. m \in Timer!Mode /\ Timer!Port(i, c) /\ Timer!Guest(i, g) /\ guest[i].at = "idle"
    BY <1>1, PartsAssumption DEF Timer!PitAssumption, Timer!Program, Started
  <2>2. /\ c \in Timer!Channel /\ c.enabled = channels[i].enabled
        /\ c.chdata = channels[i].chdata /\ ~c.toggle /\ c.mode = m
    BY <1>0, <2>1, Commanded
  <2>3. Timer!Low(channels[i].chdata) \in Timer!Byt
    BY <1>0, TimerWords DEF Timer!Channel
  <2>4. /\ g \in GuestRecord /\ g.at = at
        /\ g.read = Timer!None /\ g.wrote = Timer!Low(channels[i].chdata)
        /\ g.goal = guest[i].goal
    <3>1. at \in GuestSpot /\ Timer!None \in Int
      BY DEF GuestSpot, Timer!None
    <3>2. guest[i] \in GuestRecord
      BY <1>0
    <3> HIDE DEF at
    <3>3. QED  BY <2>3, <3>1, <3>2, GuestNotes
  <2> HIDE DEF c, g
  <2>5. InStep(c, g)
    BY <1>0, <2>1, <2>2, <2>4 DEF InStep, Timer!LowNext, Timer!Flips, Timer!Mode
  <2>6. QED  BY <2>1, <2>2, <2>4, <2>5, AtPort
<1>2. ASSUME NEW i \in Chans, NEW b \in Timer!Byt, Timer!WriteLow(i, b) PROVE TimerInv'
  <2> DEFINE c == Timer!WriteByte(channels[i], b)
             whole == [guest[i] EXCEPT !.at = "idle", !.ended = "low",
                         !.goal = Timer!High(channels[i].chdata) * TimerBase + b]
             half == [guest[i] EXCEPT !.at = "high", !.wrote = b]
             g == IF channels[i].mode = "LOW_BYTE" THEN whole ELSE half
  <2>1. guest[i].at = "low" /\ Timer!Port(i, c) /\ Timer!Guest(i, g)
    BY <1>2 DEF Timer!WriteLow
  <2>2. Timer!LowNext(channels[i]) /\ guest[i].read = Timer!None
    BY <1>0, <2>1 DEF InStep
  <2>3. /\ c \in Timer!Channel /\ ~c.enabled /\ Timer!Low(c.chdata) = b
        /\ c.mode = channels[i].mode /\ (channels[i].mode # "LOW_BYTE" => ~Timer!LowNext(c))
    BY <1>0, <2>2, LowWritten
  <2>4. Timer!High(channels[i].chdata) * TimerBase + b \in Timer!Word
    BY <1>0, TimerWords DEF Timer!Channel
  <2>5. /\ whole \in GuestRecord /\ whole.at = "idle" /\ whole.read = guest[i].read
        /\ half \in GuestRecord /\ half.at = "high" /\ half.read = guest[i].read
        /\ half.wrote = b
    BY <1>0, <2>4 DEF GuestRecord
  <2> HIDE DEF c, whole, half
  <2>6. InStep(c, g) /\ g \in GuestRecord
    BY <2>2, <2>3, <2>5 DEF InStep
  <2>7. QED  BY <2>1, <2>3, <2>6, AtPort
<1>3. ASSUME NEW i \in Chans, NEW b \in Timer!Byt, Timer!WriteHigh(i, b) PROVE TimerInv'
  <2> DEFINE c == Timer!WriteByte(channels[i], b)
             w == b * TimerBase + guest[i].wrote
             v == IF w = 0 THEN TimerBase * TimerBase - 1 ELSE w
             g == [guest[i] EXCEPT !.at = "idle", !.ended = "high", !.goal = v]
  <2>1. guest[i].at = "high" /\ Timer!Port(i, c) /\ Timer!Guest(i, g)
    BY <1>3 DEF Timer!WriteHigh
  <2>2. /\ ~Timer!LowNext(channels[i]) /\ guest[i].read = Timer!None
        /\ guest[i].wrote = Timer!Low(channels[i].chdata)
    BY <1>0, <2>1 DEF InStep
  <2>3. c \in Timer!Channel /\ c.chdata = v /\ w \in Timer!Word
    BY <1>0, <2>2, HighWritten
  <2>4. v \in Timer!Word
    BY <2>3, TimerWords
  <2> HIDE DEF c, v
  <2>5. g \in GuestRecord /\ g.at = "idle" /\ g.goal = v /\ g.read = guest[i].read
    BY <1>0, <2>4 DEF GuestRecord
  <2> HIDE DEF g
  <2>6. InStep(c, g)
    BY <2>2, <2>3, <2>5 DEF InStep
  <2>7. QED  BY <2>1, <2>3, <2>5, <2>6, AtPort
<1>4. ASSUME NEW i \in Chans, Timer!Latch(i) PROVE TimerInv'
  <2> DEFINE c == Timer!Command(channels[i], "LATCH_COUNT")
             g == Snapped(guest[i], channels[i].counter, Timer!None)
  <2>1. Timer!Port(i, c) /\ Timer!Guest(i, g)
    BY <1>4 DEF Timer!Latch, Snapped
  <2>2. /\ c \in Timer!Channel /\ c.enabled = channels[i].enabled
        /\ c.chdata = channels[i].chdata /\ ~c.toggle /\ c.mode = "LATCH_COUNT"
        /\ c.latch = channels[i].counter
    BY <1>0, Commanded DEF Timer!Mode
  <2>3. /\ g \in GuestRecord /\ g.at = "readlow" /\ g.snap = channels[i].counter
        /\ g.goal = guest[i].goal
    <3>1. channels[i].counter \in Timer!Word /\ guest[i] \in GuestRecord
      BY <1>0 DEF Timer!Channel
    <3>2. "idle" \in GuestSpot /\ Timer!None \in Int
      BY DEF GuestSpot, Timer!None
    <3>3. QED  BY <3>1, <3>2, GuestNotes
  <2> HIDE DEF c, g
  <2>4. InStep(c, g)
    BY <1>0, <2>2, <2>3 DEF InStep
  <2>5. QED  BY <2>1, <2>2, <2>3, <2>4, AtPort
<1>5. ASSUME NEW i \in Chans, Timer!ReadLow(i) PROVE TimerInv'
  <2> DEFINE c == Timer!AfterRead(channels[i])
             byte == Timer!ReadByte(channels[i])
             g == Noted(guest[i], "readhigh", byte)
  <2>1. guest[i].at = "readlow" /\ Timer!Port(i, c) /\ Timer!Guest(i, g)
    BY <1>5 DEF Timer!ReadLow, Noted
  <2>2. /\ channels[i].mode = "LATCH_COUNT" /\ channels[i].latch = guest[i].snap
        /\ ~channels[i].toggle
    BY <1>0, <2>1 DEF InStep
  <2>3. /\ c \in Timer!Channel /\ c.enabled = channels[i].enabled
        /\ c.chdata = channels[i].chdata /\ c.mode = "LATCH_COUNT"
        /\ c.latch = guest[i].snap /\ c.toggle /\ byte = Timer!Low(guest[i].snap)
    BY <1>0, <2>2, Read
  <2>4. byte \in Int
    <3>1. guest[i].snap \in Timer!Word
      BY <1>0 DEF GuestRecord
    <3>2. Timer!Low(guest[i].snap) \in Timer!Byt /\ TimerBase \in Int
      BY <3>1, TimerWords
    <3> HIDE DEF byte
    <3>3. QED  BY <2>3, <3>2 DEF Timer!Byt
  <2> HIDE DEF c, byte
  <2>5. /\ g \in GuestRecord /\ g.at = "readhigh" /\ g.snap = guest[i].snap
        /\ g.goal = guest[i].goal /\ g.read = byte
    <3>1. "readhigh" \in GuestSpot /\ guest[i] \in GuestRecord
      BY <1>0 DEF GuestSpot
    <3>2. QED  BY <2>4, <3>1, GuestNotes
  <2> HIDE DEF g
  <2>6. InStep(c, g)
    BY <1>0, <2>3, <2>5 DEF InStep
  <2>7. QED  BY <2>1, <2>3, <2>5, <2>6, AtPort
<1>6. ASSUME NEW i \in Chans, Timer!ReadHigh(i) PROVE TimerInv'
  <2> DEFINE c == Timer!AfterRead(channels[i])
             byte == Timer!ReadByte(channels[i])
             both == guest[i].read + TimerBase * byte
             g == Noted(guest[i], "idle", both)
  <2>1. guest[i].at = "readhigh" /\ Timer!Port(i, c) /\ Timer!Guest(i, g)
    BY <1>6 DEF Timer!ReadHigh, Noted
  <2>2. /\ channels[i].mode = "LATCH_COUNT" /\ channels[i].latch = guest[i].snap
        /\ channels[i].toggle /\ guest[i].read = Timer!Low(guest[i].snap)
    BY <1>0, <2>1 DEF InStep
  <2>3. /\ c \in Timer!Channel /\ c.enabled = channels[i].enabled
        /\ c.chdata = channels[i].chdata /\ byte = Timer!High(guest[i].snap)
    BY <1>0, <2>2, Read
  <2>4. both = guest[i].snap /\ guest[i].snap \in Timer!Word
    <3>1. guest[i].snap \in Timer!Word
      BY <1>0 DEF GuestRecord
    <3>2. /\ Timer!Low(guest[i].snap) \in Int /\ Timer!High(guest[i].snap) \in Int
          /\ TimerBase \in Int
          /\ guest[i].snap =
               Timer!High(guest[i].snap) * TimerBase + Timer!Low(guest[i].snap)
      <4>1. /\ Timer!Low(guest[i].snap) \in Timer!Byt
            /\ Timer!High(guest[i].snap) \in Timer!Byt /\ TimerBase \in Int
            /\ guest[i].snap =
                 Timer!High(guest[i].snap) * TimerBase + Timer!Low(guest[i].snap)
        BY <3>1, TimerWords
      <4>2. QED  BY <4>1 DEF Timer!Byt
    <3> HIDE DEF byte
    <3>3. QED
      BY <2>2, <2>3, <3>1, <3>2
  <2> HIDE DEF c, byte, both
  <2>5. /\ g \in GuestRecord /\ g.at = "idle" /\ g.snap = guest[i].snap
        /\ g.goal = guest[i].goal /\ g.read = both
    <3>1. "idle" \in GuestSpot /\ guest[i] \in GuestRecord
      BY <1>0 DEF GuestSpot
    <3>2. TimerBase * TimerBase \in Int
      BY TimerWords, TwoParts
    <3> HIDE DEF g
    <3>3. both \in Int
      BY <2>4, <3>2 DEF Timer!Word
    <3>4. QED  BY <2>4, <3>1, <3>3, GuestNotes DEF g
  <2> HIDE DEF g
  <2>6. InStep(c, g)
    BY <1>0, <2>3, <2>4, <2>5 DEF InStep
  <2>7. QED  BY <2>1, <2>3, <2>5, <2>6, AtPort
<1>7. CASE Timer!Acknowledge
  BY <1>7 DEF Timer!Acknowledge, TimerInv, Timer!TypeOK
<1>8. CASE Timer!Reset
  <2>1. (Timer!Init)'
    BY <1>8 DEF Timer!Reset, Timer!Init, Timer!Zeroed, Timer!GuestIdle, Timer!None
  <2>2. (Timer!Init)' => TimerInv'
    BY TimerInvInit, PTL
  <2>3. QED  BY <2>1, <2>2
<1>9. CASE UNCHANGED Timer!vars
  BY <1>9 DEF Timer!vars, TimerInv, Timer!TypeOK
<1>10. QED
  BY <1>1, <1>2, <1>3, <1>4, <1>5, <1>6, <1>7, <1>8, <1>9, Stepped DEF Timer!Next

LEMMA TimerInvHolds == Spec => []TimerInv
<1>1. Init => TimerInv
  BY TimerInvInit DEF Init
<1>2. QED  BY <1>1, TimerInvStep, StepOfOne, PTL DEF Spec

\* A running channel counts from a count that was written whole, the bytes of a latched
\* count are those of one moment (pit.odin:60-108), and so are the minutes and seconds a
\* guest takes from the clock when it checks the busy flag around its reads (rtc.odin).
THEOREM CountsAreWhole == Spec => []WholeCounts
<1>1. TimerInv => Timer!WholeCounts /\ Timer!LatchedPair
  BY DEF TimerInv, InStep, Timer!WholeCounts, Timer!LatchedPair
<1>2. ClockInv => Clock!TimeWhole
  BY DEF ClockInv, Clock!TimeWhole
<1>3. TimerInv /\ ClockInv => WholeCounts
  BY <1>1, <1>2 DEF WholeCounts
<1>4. QED  BY <1>3, TimerInvHolds, ClockInvHolds, PTL
-----------------------------------------------------------------------------
(* The screens: text is drawn when it is marked as changed, graphics line by line. *)

CgaInv == Screen!TypeOK /\ Screen!ScreenCurrent

LEMMA CgaInvInit == Screen!Init => CgaInv
<1> SUFFICES ASSUME Screen!Init PROVE CgaInv
  OBVIOUS
<1>1. 0 \in 0..Lines - 1 /\ 0 \in 0..Quarters - 1
  BY PartsAssumption DEF Screen!CgaAssumption
<1>2. Screen!TypeOK
  BY <1>1 DEF Screen!Init, Screen!TypeOK, Screen!Modes
<1>3. Screen!ScreenCurrent
  BY DEF Screen!Init, Screen!ScreenCurrent
<1>4. QED  BY <1>2, <1>3 DEF CgaInv

LEMMA CgaInvStep == CgaInv /\ [Screen!Next]_Screen!vars => CgaInv'
<1> SUFFICES ASSUME CgaInv, [Screen!Next]_Screen!vars PROVE CgaInv'
  OBVIOUS
<1> USE DEF CgaInv
<1>1. ASSUME NEW v \in Values, Screen!Write(v) PROVE CgaInv'
  BY ZenonT(60), <1>1 DEF Screen!Write, Screen!TypeOK, Screen!ScreenCurrent, Screen!Width
<1>2. ASSUME NEW m \in Screen!Modes, Screen!SetMode(m) PROVE CgaInv'
  BY ZenonT(60), <1>2 DEF Screen!SetMode, Screen!TypeOK, Screen!ScreenCurrent, Screen!Width
<1>3. CASE Screen!Reset
  BY <1>3 DEF Screen!Reset, Screen!TypeOK, Screen!ScreenCurrent, Screen!Modes
<1>4. CASE Screen!CursorTimer
  BY ZenonT(60), <1>4
     DEF Screen!CursorTimer, Screen!Blinks, Screen!TypeOK, Screen!ScreenCurrent,
         Screen!Width
<1>5. CASE Screen!ScanlineTimer
  <2> DEFINE last == retrace = Quarters - 1
             line == last /\ Screen!DrawsLine(scanline)
             text == last /\ scanline = Lines - 1 /\ Screen!DrawsText(is_dirty)
  <2>1. /\ retrace' = IF last THEN 0 ELSE retrace + 1
        /\ scanline' = IF last THEN Screen!NextLine(scanline) ELSE scanline
        /\ is_dirty' = IF line THEN TRUE ELSE IF text THEN FALSE ELSE is_dirty
        /\ drawn' = [y \in 0..Visible - 1 |->
                      IF text \/ (line /\ y = scanline) THEN Screen!Picture ELSE drawn[y]]
        /\ UNCHANGED <<mem, mode, cursor_blink, width, chosen>>
    BY <1>5 DEF Screen!ScanlineTimer
  <2>2. status' \subseteq 0..3
    BY <1>5 DEF Screen!ScanlineTimer
  <2>3. retrace' \in 0..Quarters - 1 /\ scanline' \in 0..Lines - 1
    BY <2>1, PartsAssumption DEF Screen!CgaAssumption, Screen!TypeOK, Screen!NextLine
  <2> HIDE DEF line, text
  <2>4. is_dirty' \in BOOLEAN
    BY <2>1 DEF Screen!TypeOK
  <2>5. Screen!TypeOK'
    BY <2>1, <2>2, <2>3, <2>4 DEF Screen!TypeOK
  <2>6. Screen!Picture' = Screen!Picture
    BY <2>1 DEF Screen!Picture, Screen!IsText
  <2>7. Screen!ScreenCurrent'
    BY ZenonT(60), <2>1, <2>6 DEF Screen!ScreenCurrent, Screen!IsText, Screen!Width
  <2>8. QED  BY <2>5, <2>7
<1>6. CASE UNCHANGED Screen!vars
  <2>1. UNCHANGED <<mem, mode, cursor_blink, is_dirty, scanline, retrace, status, drawn,
                    width, chosen>>
    BY <1>6 DEF Screen!vars
  <2>2. Screen!TypeOK'
    BY <2>1 DEF Screen!TypeOK
  <2>3. Screen!Picture' = Screen!Picture
    BY <2>1 DEF Screen!Picture, Screen!IsText
  <2>4. Screen!ScreenCurrent'
    BY ZenonT(60), <2>1, <2>3 DEF Screen!ScreenCurrent, Screen!IsText, Screen!Width
  <2>5. QED  BY <2>2, <2>4
<1>7. QED
  BY <1>1, <1>2, <1>3, <1>4, <1>5, <1>6 DEF Screen!Next

\* How far the BIOS has come with the registers of a mode, and what it has left there.
VgaInv ==
  /\ Vga!TypeOK /\ Vga!ModeFollows /\ Vga!TextCurrent
  /\ vstage = "index" => ~flip_3C0
  /\ vstage = "attribute" => flip_3C0
  /\ vstage = "size" => attr = wanted.attr

LEMMA VgaConstants ==
  /\ Vga!MaxHeight \in Sizes /\ \A s \in Sizes : s <= Vga!MaxHeight
  /\ Sizes \subseteq Nat \ {0} /\ TextLines \in Sizes /\ 0 \in Vga!Rows
  /\ \A n \in Nat, s \in Sizes : n < s => n \in Vga!Rows
<1>1. Sizes \subseteq Nat \ {0} /\ TextLines \in Sizes
  BY PartsAssumption DEF Vga!ScreenAssumption
<1>2. Vga!MaxHeight \in Sizes /\ \A s \in Sizes : s <= Vga!MaxHeight
  BY PartsAssumption DEF Vga!ScreenAssumption, Vga!MaxHeight
<1>3. ASSUME NEW n \in Nat, NEW s \in Sizes, n < s PROVE n \in Vga!Rows
  <2>1. s <= Vga!MaxHeight /\ s \in Nat /\ Vga!MaxHeight \in Nat /\ TextLines \in Nat
    BY <1>1, <1>2
  <2>2. QED  BY <1>3, <2>1 DEF Vga!Rows
<1>4. 0 \in Vga!Rows
  BY <1>1, <1>3
<1>5. QED  BY <1>1, <1>2, <1>3, <1>4

LEMMA VgaInvInit == Vga!Init => VgaInv
<1> SUFFICES ASSUME Vga!Init PROVE VgaInv
  OBVIOUS
<1>1. {flip_3C0, textmode, vblink, vdirty} \subseteq BOOLEAN
  BY Zenon DEF Vga!Init
<1>2. wanted \in Vga!Wishes
  BY VgaConstants DEF Vga!Init, Vga!Wishes
<1>3. Vga!TypeOK
  BY <1>1, <1>2, VgaConstants DEF Vga!Init, Vga!TypeOK
<1>4. vstage = "off" /\ ~textmode
  BY DEF Vga!Init
<1>5. QED  BY <1>3, <1>4 DEF VgaInv, Vga!ModeFollows, Vga!TextCurrent

LEMMA VgaInvStep == VgaInv /\ [Vga!Next]_Vga!vars => VgaInv'
<1> SUFFICES ASSUME VgaInv, [Vga!Next]_Vga!vars PROVE VgaInv'
  OBVIOUS
<1> USE DEF VgaInv, Vga!registers, Vga!computed, Vga!screen, Vga!bios
<1>1. CASE Vga!ReadStatus
  BY <1>1 DEF Vga!ReadStatus, Vga!StatusFlip, Vga!TypeOK, Vga!ModeFollows,
              Vga!TextCurrent, Vga!Picture
<1>2. ASSUME Vga!WriteIndex \/ Vga!WriteAttribute PROVE VgaInv'
  <2>1. wanted.attr \in {"text", "graphics"}
    BY DEF Vga!TypeOK, Vga!Wishes
  <2>2. /\ vstage = "index" /\ vstage' = "attribute" /\ attr' \in {attr, "index"}
        \/ /\ vstage = "attribute" /\ vstage' = "size"
           /\ attr' = IF flip_3C0 THEN wanted.attr ELSE attr
    BY <1>2 DEF Vga!WriteIndex, Vga!WriteAttribute, Vga!Out3C0
  <2>3. /\ flip_3C0' = ~flip_3C0 /\ vdirty' = TRUE
        /\ UNCHANGED <<vmem, size_reg, textmode, height, vtold, vblink, vline, vdrawn,
                       wanted>>
    BY <1>2 DEF Vga!WriteIndex, Vga!WriteAttribute, Vga!Out3C0
  <2>4. {flip_3C0', textmode', vblink', vdirty'} \subseteq BOOLEAN
    BY <2>3, Zenon DEF Vga!TypeOK
  <2>5. Vga!TypeOK'
    BY <2>1, <2>2, <2>3, <2>4 DEF Vga!TypeOK
  <2>6. Vga!ModeFollows' /\ Vga!TextCurrent'
    BY <2>2, <2>3 DEF Vga!ModeFollows, Vga!TextCurrent
  <2>7. /\ vstage' = "index" => ~flip_3C0'
        /\ vstage' = "attribute" => flip_3C0'
        /\ vstage' = "size" => attr' = wanted'.attr
    BY <2>2, <2>3
  <2>8. QED  BY <2>5, <2>6, <2>7
<1>3. CASE Vga!WriteSize
  BY <1>3 DEF Vga!WriteSize, Vga!UpdateVideoMode, Vga!IsText, Vga!TypeOK, Vga!Wishes,
              Vga!ModeFollows, Vga!TextCurrent
<1>4. ASSUME NEW v \in Values, Vga!Write(v) PROVE VgaInv'
  BY <1>4 DEF Vga!Write, Vga!TypeOK, Vga!ModeFollows, Vga!TextCurrent
<1>5. CASE Vga!Reset
  <2>1. vstage' = "off" /\ vdirty' = TRUE
        /\ UNCHANGED <<vmem, attr, size_reg, flip_3C0, textmode, height, vtold, vblink,
                       vline, vdrawn, wanted>>
    BY <1>5 DEF Vga!Reset
  <2>2. {flip_3C0', textmode', vblink', vdirty'} \subseteq BOOLEAN
    BY <2>1, Zenon DEF Vga!TypeOK
  <2>3. Vga!TypeOK'
    BY <2>1, <2>2 DEF Vga!TypeOK
  <2>4. QED  BY <2>1, <2>3 DEF Vga!ModeFollows, Vga!TextCurrent
<1>6. CASE Vga!ScanlineTimer
  <2>1. vline' \in Vga!Rows
    <3>1. vline' = IF vline + 1 >= height THEN 0 ELSE vline + 1
      BY <1>6 DEF Vga!ScanlineTimer, Vga!NextLine
    <3>2. vline \in Nat /\ height \in Sizes \cup {0}
      BY DEF Vga!TypeOK, Vga!Rows
    <3>3. CASE vline + 1 >= height
      BY <3>1, <3>3, VgaConstants
    <3>4. CASE vline + 1 < height
      <4>1. vline + 1 \in Nat /\ height \in Sizes
        BY <3>2, <3>4
      <4>2. vline + 1 \in Vga!Rows
        BY <3>4, <4>1, VgaConstants
      <4>3. ~(vline + 1 >= height)
        BY <3>4, <4>1, VgaConstants
      <4>4. QED  BY <3>1, <4>2, <4>3
    <3>5. height \in Int
      BY <3>2, VgaConstants
    <3>6. QED  BY <3>2, <3>3, <3>4, <3>5
  <2>2. vdirty' \in BOOLEAN /\ (textmode => vdrawn' = vdrawn /\ (vdirty' <=> vdirty))
    BY <1>6 DEF Vga!ScanlineTimer, Vga!DrawsLine, Vga!TypeOK
  <2>3. UNCHANGED <<vmem, attr, size_reg, flip_3C0, textmode, height, vtold, vblink,
                    vstage, wanted>>
    BY <1>6 DEF Vga!ScanlineTimer
  <2>4. Vga!TypeOK'
    BY <2>1, <2>2, <2>3 DEF Vga!TypeOK
  <2>5. Vga!ModeFollows'
    BY <2>3 DEF Vga!ModeFollows
  <2>6. Vga!Picture' = Vga!Picture
    BY <2>3 DEF Vga!Picture
  <2>7. Vga!TextCurrent'
    BY <2>2, <2>3, <2>6 DEF Vga!TextCurrent
  <2>8. QED  BY <2>3, <2>4, <2>5, <2>7
<1>7. CASE Vga!RefreshTimer
  <2>1. UNCHANGED <<vmem, attr, size_reg, flip_3C0, textmode, height, vtold, vblink, vline,
                    vstage, wanted>>
    BY <1>7 DEF Vga!RefreshTimer
  <2>2. \/ UNCHANGED <<vdirty, vdrawn>>
        \/ /\ vdirty' = FALSE
           /\ vdrawn' = [y \in Vga!Rows |->
                           IF y < TextLines THEN Vga!Picture ELSE vdrawn[y]]
    BY <1>7 DEF Vga!RefreshTimer
  <2>3. vdirty' \in BOOLEAN
    BY <2>2 DEF Vga!TypeOK
  <2>4. Vga!TypeOK'
    BY <2>1, <2>3 DEF Vga!TypeOK
  <2>5. Vga!Picture' = Vga!Picture
    BY <2>1 DEF Vga!Picture
  <2>6. Vga!TextCurrent'
    BY <2>1, <2>2, <2>5 DEF Vga!TextCurrent
  <2>7. QED  BY <2>1, <2>4, <2>6 DEF Vga!ModeFollows
<1>8. CASE Vga!CursorTimer
  BY <1>8 DEF Vga!CursorTimer, Vga!TypeOK, Vga!ModeFollows, Vga!TextCurrent
<1>9. CASE UNCHANGED Vga!vars
  BY <1>9 DEF Vga!vars, Vga!TypeOK, Vga!ModeFollows, Vga!TextCurrent, Vga!Picture
<1>10. QED
  BY <1>1, <1>2, <1>3, <1>4, <1>5, <1>6, <1>7, <1>8, <1>9 DEF Vga!Next
-----------------------------------------------------------------------------
(* The planes of the VGA. *)

\* The plane that a segment's byte i is in, and back.
LEMMA PlaneOf ==
  ASSUME NEW seg \in Planar!Segments, NEW i \in Planar!Planes
  PROVE  Planar!Of(seg, i) \in Planar!Planes /\ (Planar!Of(seg, i) - seg) % NumPlanes = i
<1>1. NumPlanes \in Nat \ {0} /\ i \in 0..NumPlanes - 1 /\ seg \in {0, 1}
  BY PartsAssumption DEF Planar!PlanesAssumption, Planar!Planes, Planar!Segments
<1>2. i % NumPlanes = i
  BY <1>1
<1>3. CASE seg = 0
  BY <1>1, <1>2, <1>3 DEF Planar!Of, Planar!Planes
<1>4. CASE seg = 1 /\ i + 1 < NumPlanes
  <2>1. (1 + i) % NumPlanes = 1 + i
    BY <1>1, <1>4
  <2>2. QED  BY <1>1, <1>2, <1>4, <2>1 DEF Planar!Of, Planar!Planes
<1>5. CASE seg = 1 /\ i + 1 = NumPlanes
  <2>1. (1 + i) % NumPlanes = 0 /\ (0 - 1) % NumPlanes = NumPlanes - 1
    BY <1>1, <1>5
  <2>2. QED  BY <1>1, <1>5, <2>1 DEF Planar!Of, Planar!Planes
<1>6. QED  BY <1>1, <1>3, <1>4, <1>5

\* A write leaves the bits of the latch that are masked out; drawn twice, it leaves all.
LEMMA WrittenBits ==
  ASSUME Planar!TypeOK, NEW i \in Planar!Planes, NEW data \in SUBSET Planar!Bits,
         NEW byte \in SUBSET Planar!Bits
  PROVE  /\ Planar!Written(i, byte, data) \in SUBSET Planar!Bits
         /\ Planar!Written(i, byte, data) \ vregs.mask = byte \ vregs.mask
         /\ vregs.mode \in {0, 2} /\ vregs.op = 3 =>
              Planar!Written(i, Planar!Written(i, byte, data), data) = byte
<1> DEFINE value == IF i \in vregs.enable THEN Planar!Expand(i, vregs.set)
                                           ELSE Planar!RotateOp(data)
           turned == Planar!Rotated(data, vregs.turns)
<1>1. /\ vregs.mode \in 0..3 /\ vregs.turns \in Nat /\ PlaneWidth \in Nat \ {0}
      /\ Planar!Bits = 0..PlaneWidth - 1
  <2>1. vregs \in Planar!RegisterFiles /\ PlaneWidth \in Nat \ {0}
    BY PartsAssumption DEF Planar!TypeOK, Planar!PlanesAssumption
  <2>2. QED  BY <2>1 DEF Planar!RegisterFiles, Planar!Bits
<1>2. \A d \in SUBSET Planar!Bits : Planar!Rotated(d, vregs.turns) \in SUBSET Planar!Bits
  <2>1. ASSUME NEW b \in Planar!Bits PROVE (b - vregs.turns) % PlaneWidth \in Planar!Bits
    BY <1>1
  <2>2. QED  BY <2>1 DEF Planar!Rotated
<1>3. \A p : Planar!Expand(i, p) \in SUBSET Planar!Bits
  BY DEF Planar!Expand, Planar!Full
<1>4. value \in SUBSET Planar!Bits /\ turned \in SUBSET Planar!Bits
  BY <1>2, <1>3 DEF Planar!RotateOp
<1>5. \A v, l \in SUBSET Planar!Bits : Planar!LogicOp(v, l) \in SUBSET Planar!Bits
  BY DEF Planar!LogicOp
<1>6. \A m : \A v, l \in SUBSET Planar!Bits :
        Planar!Masked(m, v, l) \in SUBSET Planar!Bits
  BY DEF Planar!Masked
<1>7. \A m, v, l : Planar!Masked(m, v, l) \ m = l \ m
  BY DEF Planar!Masked
<1>8. \A m, r, v, l : Planar!Masked(r \cap m, v, l) \ m = l \ m
  BY DEF Planar!Masked
<1>9. ASSUME vregs.op = 3, NEW m, NEW v
      PROVE  \A l : LET w == Planar!Masked(m, Planar!LogicOp(v, l), l)
                    IN  Planar!Masked(m, Planar!LogicOp(v, w), w) = l
  BY <1>9 DEF Planar!Masked, Planar!LogicOp
<1> HIDE DEF value, turned
<1>10. \A l : Planar!Written(i, l, data) =
         CASE vregs.mode = 0 -> Planar!Masked(vregs.mask, Planar!LogicOp(value, l), l)
           [] vregs.mode = 1 -> l
           [] vregs.mode = 2 ->
                Planar!Masked(vregs.mask, Planar!LogicOp(Planar!Expand(i, data), l), l)
           [] vregs.mode = 3 ->
                Planar!Masked(turned \cap vregs.mask, Planar!Expand(i, vregs.set), l)
  BY DEF Planar!Written, value, turned
<1>11. CASE vregs.mode = 0
  <2>1. \A l : Planar!Written(i, l, data)
                = Planar!Masked(vregs.mask, Planar!LogicOp(value, l), l)
    BY <1>10, <1>11
  <2>2. QED  BY <1>4, <1>5, <1>6, <1>7, <1>9, <2>1
<1>12. CASE vregs.mode = 1
  <2>1. \A l : Planar!Written(i, l, data) = l
    BY <1>10, <1>12
  <2>2. QED  BY <1>12, <2>1
<1>13. CASE vregs.mode = 2
  <2>1. \A l : Planar!Written(i, l, data)
                = Planar!Masked(vregs.mask, Planar!LogicOp(Planar!Expand(i, data), l), l)
    BY <1>10, <1>13
  <2>2. QED  BY <1>3, <1>5, <1>6, <1>7, <1>9, <2>1
<1>14. CASE vregs.mode = 3
  <2>1. \A l : Planar!Written(i, l, data)
                = Planar!Masked(turned \cap vregs.mask, Planar!Expand(i, vregs.set), l)
    BY <1>10, <1>14
  <2>2. Planar!Written(i, byte, data) \in SUBSET Planar!Bits
    <3>1. Planar!Expand(i, vregs.set) \in SUBSET Planar!Bits
      BY <1>3
    <3>2. Planar!Masked(turned \cap vregs.mask, Planar!Expand(i, vregs.set), byte)
            \in SUBSET Planar!Bits
      BY <1>6, <3>1
    <3>3. QED  BY <2>1, <3>2
  <2>3. Planar!Written(i, byte, data) \ vregs.mask = byte \ vregs.mask
    <3> DEFINE wiped == Planar!Masked(turned \cap vregs.mask,
                                      Planar!Expand(i, vregs.set), byte)
    <3>1. wiped \ vregs.mask = byte \ vregs.mask
      BY DEF Planar!Masked
    <3>2. Planar!Written(i, byte, data) = wiped
      BY <2>1
    <3> HIDE DEF wiped
    <3>3. QED  BY <3>1, <3>2
  <2>4. QED  BY <1>14, <2>2, <2>3
<1>15. QED  BY <1>1, <1>11, <1>12, <1>13, <1>14

LEMMA PlanesInit == Planar!Init => Planar!TypeOK
BY PartsAssumption DEF Planar!Init, Planar!TypeOK, Planar!PlanesAssumption, Planar!Full

LEMMA PlanesStep == Planar!TypeOK /\ [Planar!Next]_Planar!vars => Planar!TypeOK'
<1> SUFFICES ASSUME Planar!TypeOK, [Planar!Next]_Planar!vars PROVE Planar!TypeOK'
  OBVIOUS
<1>1. CASE Planar!SetRegisters
  BY <1>1, PartsAssumption DEF Planar!SetRegisters, Planar!TypeOK, Planar!PlanesAssumption
<1>2. ASSUME NEW seg \in Planar!Segments, NEW place \in Cells, Planar!Read(seg, place)
      PROVE  Planar!TypeOK'
  BY <1>2, PlaneOf DEF Planar!Read, Planar!TypeOK
<1>3. ASSUME NEW seg \in Planar!Segments, NEW place \in Cells, NEW data \in PlaneData,
             Planar!Write(seg, place, data)
      PROVE  Planar!TypeOK'
  <2>1. data \in SUBSET Planar!Bits /\ NumPlanes \in Nat \ {0}
    BY PartsAssumption DEF Planar!PlanesAssumption
  <2>2. \A p \in Planar!Planes : (p - seg) % NumPlanes \in Planar!Planes
    BY <2>1 DEF Planar!Planes, Planar!Segments
  <2>3. \A i \in Planar!Planes :
          Planar!Written(i, mem_latch[i], data) \in SUBSET Planar!Bits
    BY <2>1, WrittenBits DEF Planar!TypeOK
  <2>4. Planar!Target(seg, place, data) \in [Planar!Planes -> SUBSET Planar!Bits]
    BY <2>1, <2>2, <2>3 DEF Planar!Target, Planar!TypeOK
  <2>5. QED
    BY <1>3, <2>4 DEF Planar!Write, Planar!TypeOK
<1>4. CASE UNCHANGED Planar!vars
  BY <1>4 DEF Planar!vars, Planar!TypeOK
<1>5. QED
  BY <1>1, <1>2, <1>3, <1>4 DEF Planar!Next

LEMMA PlanesTyped == Spec => []Planar!TypeOK
<1>1. Init => Planar!TypeOK
  BY PlanesInit DEF Init
<1>2. QED  BY <1>1, PlanesStep, StepOfOne, PTL DEF Spec

LEMMA WriteKeeps ==
  ASSUME Planar!TypeOK, ~vregs.linear, NEW seg \in Planar!Segments, NEW place \in Cells,
         NEW data \in PlaneData, Planar!Write(seg, place, data)
  PROVE  /\ \A other \in Cells \ {place} : planes'[other] = planes[other]
         /\ Planar!Loaded(seg, place) =>
              \A i \in Planar!Planes :
                LET p == Planar!Of(seg, i)
                    mask == IF i \in vregs.planes THEN vregs.mask ELSE {}
                IN  planes'[place][p] \ mask = planes[place][p] \ mask
<1>1. /\ planes \in [Cells -> [Planar!Planes -> SUBSET Planar!Bits]]
      /\ planes' = [planes EXCEPT ![place] = Planar!Target(seg, place, data)]
      /\ data \in SUBSET Planar!Bits
  BY PartsAssumption DEF Planar!TypeOK, Planar!Write, Planar!PlanesAssumption
<1>2. /\ planes'[place] = Planar!Target(seg, place, data)
      /\ \A other \in Cells \ {place} : planes'[other] = planes[other]
  BY <1>1
<1>3. ASSUME Planar!Loaded(seg, place), NEW i \in Planar!Planes
      PROVE  LET p == Planar!Of(seg, i)
                 mask == IF i \in vregs.planes THEN vregs.mask ELSE {}
             IN  planes'[place][p] \ mask = planes[place][p] \ mask
  <2> DEFINE p == Planar!Of(seg, i)
  <2>1. p \in Planar!Planes /\ (p - seg) % NumPlanes = i
    BY PlaneOf
  <2>2. mem_latch[i] = planes[place][p] /\ planes[place][p] \in SUBSET Planar!Bits
    BY <1>1, <1>3, <2>1 DEF Planar!Loaded
  <2>3. planes'[place][p] = IF i \in vregs.planes
                            THEN Planar!Written(i, mem_latch[i], data)
                            ELSE planes[place][p]
    BY <1>2, <2>1 DEF Planar!Target
  <2>4. Planar!Written(i, mem_latch[i], data) \ vregs.mask = planes[place][p] \ vregs.mask
    BY <1>1, <2>2, WrittenBits
  <2> HIDE DEF p
  <2>5. QED  BY <2>3, <2>4 DEF p
<1>4. QED  BY <1>2, <1>3

\* A write changes no bit that the guest masked out, no plane that it left out, and no
\* other place, in any of the four modes of writing (vga.odin:212-288).
THEOREM MaskedBitsStay == Spec => MaskedKept
<1> DEFINE Kept == \A seg \in Planar!Segments, place \in Cells, data \in PlaneData :
       ~vregs.linear /\ Planar!Write(seg, place, data) =>
         /\ \A other \in Cells \ {place} : planes'[other] = planes[other]
         /\ Planar!Loaded(seg, place) =>
              \A i \in Planar!Planes :
                LET p == Planar!Of(seg, i)
                    mask == IF i \in vregs.planes THEN vregs.mask ELSE {}
                IN  planes'[place][p] \ mask = planes[place][p] \ mask
<1>1. Planar!TypeOK => Kept
  BY WriteKeeps
<1>2. Spec => [][Kept]_Planar!vars
  BY <1>1, PlanesTyped, PTL
<1>3. QED  BY <1>2 DEF MaskedKept, Planar!MaskedKept

\* Text that is not marked as changed is on the screen, the frontend shows frames of the
\* mode that was set, and a pointer drawn twice with exclusive or leaves the bytes as
\* they were (cga.odin, vga.odin, render.odin).
THEOREM ScreensAreCurrent == Spec => []ScreenCurrent
<1>1. Planar!TypeOK => Planar!DrawnTwice
  BY WrittenBits, PartsAssumption DEF Planar!DrawnTwice, Planar!PlanesAssumption
<1>2. Init => CgaInv /\ VgaInv
  BY CgaInvInit, VgaInvInit DEF Init
<1>3. Spec => [](CgaInv /\ VgaInv)
  BY <1>2, CgaInvStep, VgaInvStep, StepOfOne, PTL DEF Spec
<1>4. CgaInv /\ VgaInv /\ Planar!TypeOK => ScreenCurrent
  BY <1>1 DEF CgaInv, VgaInv, ScreenCurrent
<1>5. QED  BY <1>3, <1>4, PlanesTyped, PTL
-----------------------------------------------------------------------------
(* The mouse: the bytes on their way to the driver. *)

\* What is in the buffer continues what the driver has read: it begins with the kind of
\* byte that is expected and ends with a packet, or the letter of a reset; and the last
\* packet tells of the button as it was polled last, unless it has been read.
Stream(buf, kind, button, known) ==
  /\ Len(buf) = 0 => kind = "sync"
  /\ Len(buf) > 0 => buf[1].kind = kind /\ buf[Len(buf)].kind \in {"id", "y"}
  /\ \A n \in 2..Len(buf) : buf[n].kind = Mice!Follows[buf[n - 1].kind]
  /\ Len(buf) < 3 => known \subseteq {button}
  /\ Len(buf) > 2 => buf[Len(buf) - 2].kind = "sync" /\ buf[Len(buf) - 2].button = button

LEMMA FollowsOf ==
  /\ Mice!Follows["id"] = "sync" /\ Mice!Follows["sync"] = "x"
  /\ Mice!Follows["x"] = "y" /\ Mice!Follows["y"] = "sync"
BY DEF Mice!Follows

LEMMA StreamOfReset ==
  ASSUME NEW button \in BOOLEAN
  PROVE  Mice!MouseReset \in Seq(Mice!SerialByte) /\ Len(Mice!MouseReset) = 1
         /\ Stream(Mice!MouseReset, "id", button, {})
BY DEF Stream, Mice!MouseReset, Mice!Other, Mice!SerialByte, Mice!Kind

LEMMA PacketBytes ==
  ASSUME NEW b \in BOOLEAN
  PROVE  /\ Mice!Packet(b) \in Seq(Mice!SerialByte) /\ Len(Mice!Packet(b)) = 3
         /\ Mice!Packet(b)[1].kind = "sync" /\ Mice!Packet(b)[1].button = b
         /\ Mice!Packet(b)[2].kind = "x" /\ Mice!Packet(b)[3].kind = "y"
BY DEF Mice!Packet, Mice!Other, Mice!SerialByte, Mice!Kind

LEMMA StreamOfPoll ==
  ASSUME NEW buf \in Seq(Mice!SerialByte), NEW kind, NEW button, NEW known,
         NEW b \in BOOLEAN, Stream(buf, kind, button, known)
  PROVE  Stream(buf \o Mice!Packet(b), kind, b, known)
<1> DEFINE pack == Mice!Packet(b)
           all == buf \o pack
           n == Len(buf)
<1>1. /\ pack \in Seq(Mice!SerialByte) /\ Len(pack) = 3
      /\ pack[1].kind = "sync" /\ pack[1].button = b
      /\ pack[2].kind = "x" /\ pack[3].kind = "y"
  BY PacketBytes
<1> HIDE DEF pack
<1>2. /\ Len(all) = n + 3 /\ n \in Nat
      /\ \A i \in 1..n : all[i] = buf[i]
      /\ all[n + 1] = pack[1] /\ all[n + 2] = pack[2] /\ all[n + 3] = pack[3]
  <2>1. /\ Len(all) = Len(buf) + Len(pack) /\ Len(buf) \in Nat
        /\ \A i \in 1..(Len(buf) + Len(pack)) :
             all[i] = IF i <= Len(buf) THEN buf[i] ELSE pack[i - Len(buf)]
    BY <1>1, ConcatProperties, LenProperties
  <2> HIDE DEF all
  <2>2. /\ Len(all) = n + 3 /\ n \in Nat
        /\ \A i \in 1..(n + 3) : all[i] = IF i <= n THEN buf[i] ELSE pack[i - n]
    BY <1>1, <2>1
  <2> HIDE DEF n
  <2>3. /\ n + 1 \in 1..(n + 3) /\ ~(n + 1 <= n) /\ (n + 1) - n = 1
        /\ n + 2 \in 1..(n + 3) /\ ~(n + 2 <= n) /\ (n + 2) - n = 2
        /\ n + 3 \in 1..(n + 3) /\ ~(n + 3 <= n) /\ (n + 3) - n = 3
    BY <2>2
  <2>4. all[n + 1] = pack[1] /\ all[n + 2] = pack[2] /\ all[n + 3] = pack[3]
    BY <2>2, <2>3
  <2>5. \A i \in 1..n : i \in 1..(n + 3) /\ i <= n
    BY <2>2
  <2>6. QED  BY <2>2, <2>4, <2>5
<1> HIDE DEF all
<1>3. /\ n = 0 => kind = "sync"
      /\ n > 0 => buf[1].kind = kind /\ buf[n].kind \in {"id", "y"}
      /\ \A i \in 2..n : buf[i].kind = Mice!Follows[buf[i - 1].kind]
  BY DEF Stream
<1> HIDE DEF n
<1>4. all[1].kind = kind
  BY <1>1, <1>2, <1>3
<1>5. ASSUME NEW i \in 2..(n + 3) PROVE all[i].kind = Mice!Follows[all[i - 1].kind]
  <2>1. CASE i \in 2..n
    <3>1. i \in 1..n /\ i - 1 \in 1..n
      BY <1>2, <2>1
    <3>2. QED  BY <1>2, <1>3, <2>1, <3>1
  <2>2. CASE i = n + 1
    <3>1. n \in 1..n /\ i - 1 = n
      BY <1>2, <2>2
    <3>2. QED  BY SMTT(60), <1>1, <1>2, <1>3, <2>2, <3>1, FollowsOf
  <2>3. CASE i = n + 2
    BY <1>1, <1>2, <2>3, FollowsOf
  <2>4. CASE i = n + 3
    BY <1>1, <1>2, <2>4, FollowsOf
  <2>5. QED  BY <1>2, <2>1, <2>2, <2>3, <2>4
<1>6. Len(all) - 2 = n + 1 /\ ~(Len(all) < 3) /\ Len(all) # 0
  BY <1>2
<1>7. Stream(all, kind, b, known)
  BY <1>1, <1>2, <1>4, <1>5, <1>6 DEF Stream
<1>8. QED  BY <1>7 DEF all, pack

LEMMA StreamOfRead ==
  ASSUME NEW buf \in Seq(Mice!SerialByte), buf # <<>>, NEW kind, NEW button, NEW known,
         Stream(buf, kind, button, known)
  PROVE  Stream(Tail(buf), Mice!Follows[kind], button,
                IF kind = "sync" THEN {Head(buf).button} ELSE known)
<1> DEFINE n == Len(buf)
           rest == Tail(buf)
           knows == IF kind = "sync" THEN {Head(buf).button} ELSE known
<1>1. /\ n \in Nat \ {0} /\ Len(rest) = n - 1 /\ Head(buf) = buf[1]
      /\ \A i \in 1..(n - 1) : rest[i] = buf[i + 1]
  BY HeadTailProperties, LenProperties, EmptySeq
<1>2. /\ buf[1].kind = kind /\ buf[n].kind \in {"id", "y"}
      /\ \A i \in 2..n : buf[i].kind = Mice!Follows[buf[i - 1].kind]
      /\ n < 3 => known \subseteq {button}
      /\ n > 2 => buf[n - 2].kind = "sync" /\ buf[n - 2].button = button
  BY <1>1 DEF Stream
<1> HIDE DEF n, rest
<1>3. ASSUME n = 1 PROVE Stream(rest, Mice!Follows[kind], button, knows)
  <2>1. Mice!Follows[kind] = "sync" /\ knows = known /\ Len(rest) = 0
    BY <1>1, <1>2, <1>3, FollowsOf
  <2>2. QED  BY <1>2, <1>3, <2>1 DEF Stream
<1>4. ASSUME n > 1
      PROVE  /\ rest[1].kind = Mice!Follows[kind] /\ rest[n - 1] = buf[n]
             /\ \A i \in 2..(n - 1) : rest[i].kind = Mice!Follows[rest[i - 1].kind]
  <2>1. 2 \in 2..n /\ 1 \in 1..(n - 1) /\ n - 1 \in 1..(n - 1)
    BY <1>1, <1>4
  <2>2. rest[1] = buf[2] /\ rest[n - 1] = buf[n]
    BY <1>1, <2>1
  <2>3. buf[2].kind = Mice!Follows[kind]
    BY <1>2, <2>1
  <2>4. ASSUME NEW i \in 2..(n - 1) PROVE rest[i].kind = Mice!Follows[rest[i - 1].kind]
    <3>1. /\ i \in 1..(n - 1) /\ i - 1 \in 1..(n - 1) /\ i + 1 \in 2..n
          /\ (i - 1) + 1 = i /\ (i + 1) - 1 = i
      BY <1>1
    <3>2. rest[i] = buf[i + 1] /\ rest[i - 1] = buf[i]
      BY <1>1, <3>1
    <3>3. QED  BY <1>2, <3>1, <3>2
  <2>5. QED  BY <2>2, <2>3, <2>4
<1>5. ASSUME n = 2 PROVE Stream(rest, Mice!Follows[kind], button, knows)
  <2>1. buf[2].kind = Mice!Follows[kind] /\ buf[2].kind \in {"id", "y"}
    BY <1>2, <1>5
  <2>2. kind # "sync"
    BY <2>1, FollowsOf
  <2>3. QED  BY <1>1, <1>2, <1>4, <1>5, <2>1, <2>2 DEF Stream
<1>6. ASSUME n = 3 PROVE Stream(rest, Mice!Follows[kind], button, knows)
  <2>1. kind = "sync" /\ knows = {button}
    BY <1>1, <1>2, <1>6
  <2>2. QED  BY <1>1, <1>2, <1>4, <1>6, <2>1 DEF Stream
<1>7. ASSUME n > 3 PROVE Stream(rest, Mice!Follows[kind], button, knows)
  <2>1. n - 3 \in 1..(n - 1) /\ (n - 3) + 1 = n - 2 /\ Len(rest) - 2 = n - 3
    BY <1>1, <1>7
  <2>2. rest[n - 3] = buf[n - 2]
    BY <1>1, <2>1
  <2>3. /\ Len(rest) # 0 /\ ~(Len(rest) < 3) /\ rest[Len(rest)].kind \in {"id", "y"}
        /\ rest[Len(rest) - 2].kind = "sync" /\ rest[Len(rest) - 2].button = button
    BY SMTT(60), <1>1, <1>2, <1>4, <1>7, <2>1, <2>2
  <2>4. \A i \in 2..Len(rest) : rest[i].kind = Mice!Follows[rest[i - 1].kind]
    BY <1>1, <1>4, <1>7
  <2>5. Len(rest) > 0 => rest[1].kind = Mice!Follows[kind]
    BY <1>1, <1>4, <1>7
  <2>6. QED  BY <2>3, <2>4, <2>5 DEF Stream
<1>8. QED
  BY <1>1, <1>3, <1>5, <1>6, <1>7 DEF rest

MouseInv ==
  /\ dtr \in BOOLEAN /\ buttons \in BOOLEAN
  /\ buffer \in Seq(Mice!SerialByte) /\ Len(buffer) <= MaxBuffer + 3
  /\ mousePic \in PicState
  /\ driver \in {"unloaded", "main", "entered", "read"}
  /\ expects \in Mice!Kind /\ seen \in SUBSET BOOLEAN
  /\ driver = "unloaded" => ~dtr
  /\ driver # "unloaded" =>
       /\ Stream(buffer, expects, buttons, seen)
       /\ buffer = <<>> \/ Mice!MOUSE \in mousePic.request \/ driver = "entered"

\* The controller after the mouse's reset, its request on line 4 and the driver's mask.
LEMMA MouseBooted == Mice!Booted \in PicState
BY MiceOperators, InitialisedState DEF Mice!Booted

LEMMA MousePic ==
  ASSUME NEW p \in PicState
  PROVE  /\ Mice!PicIrq(p, 4) \in PicState
         /\ Mice!PicIrq(p, 4).request = p.request \cup {4}
         /\ Mice!PicCommand(p, {5}) \in PicState
         /\ Mice!PicCommand(p, {5}).request = p.request
         /\ Mice!Deliverable(p) # {} => Mice!PicAck(p) \in PicState
<1>1. 4 \in Bit /\ {5} \in Byte
  BY DEF Bit, Byte
<1>2. QED  BY <1>1, MiceOperators, IrqFields, CommandKeeps, AckType

LEMMA MouseInvInit == Mice!Init => MouseInv
<1> SUFFICES ASSUME Mice!Init PROVE MouseInv
  OBVIOUS
<1>1. buffer \in Seq(Mice!SerialByte) /\ Len(buffer) = 0 /\ MaxBuffer \in Nat
  BY EmptySeq, PartsAssumption DEF Mice!Init, Mice!MouseAssumption
<1>2. dtr \in BOOLEAN /\ buttons \in BOOLEAN /\ ~dtr
  BY Zenon DEF Mice!Init
<1>3. expects \in Mice!Kind /\ seen \in SUBSET BOOLEAN /\ mousePic \in PicState
      /\ driver = "unloaded"
  BY MouseBooted DEF Mice!Init, Mice!Kind
<1>4. QED  BY <1>1, <1>2, <1>3 DEF MouseInv

LEMMA MouseInvStep == MouseInv /\ [Mice!Next]_Mice!vars => MouseInv'
<1> SUFFICES ASSUME MouseInv, [Mice!Next]_Mice!vars PROVE MouseInv'
  OBVIOUS
<1> DEFINE Host == dtr \in BOOLEAN /\ buttons \in BOOLEAN
           Buffered == buffer \in Seq(Mice!SerialByte) /\ Len(buffer) <= MaxBuffer + 3
           Reader == /\ driver \in {"unloaded", "main", "entered", "read"}
                     /\ expects \in Mice!Kind /\ seen \in SUBSET BOOLEAN
           Off == driver = "unloaded" => ~dtr
           Flows == driver # "unloaded" => Stream(buffer, expects, buttons, seen)
           Called == driver # "unloaded" =>
                       buffer = <<>> \/ 4 \in mousePic.request \/ driver = "entered"
           Inv == /\ Host /\ Buffered /\ mousePic \in PicState /\ Reader
                  /\ Off /\ Flows /\ Called
<1>i. (MouseInv <=> Inv) /\ (MouseInv' <=> Inv')
  BY DEF MouseInv, Mice!MOUSE
<1>0. MaxBuffer \in Nat /\ Len(buffer) \in Nat
  BY PartsAssumption, LenProperties DEF Mice!MouseAssumption, MouseInv
<1>m. mousePic \in PicState
  BY DEF MouseInv
<1>p. /\ Mice!PicIrq(mousePic, 4) \in PicState /\ 4 \in Mice!PicIrq(mousePic, 4).request
      /\ Mice!PicCommand(mousePic, {5}) \in PicState
      /\ 4 \in Mice!PicCommand(mousePic, {5}).request <=> 4 \in mousePic.request
      /\ Mice!Deliverable(mousePic) # {} => Mice!PicAck(mousePic) \in PicState
  <2> DEFINE asked == Mice!PicIrq(mousePic, 4)
             ended == Mice!PicCommand(mousePic, {5})
  <2>1. /\ asked \in PicState /\ asked.request = mousePic.request \cup {4}
        /\ ended \in PicState /\ ended.request = mousePic.request
        /\ Mice!Deliverable(mousePic) # {} => Mice!PicAck(mousePic) \in PicState
    BY <1>m, MousePic, Zenon
  <2> HIDE DEF asked, ended
  <2>2. 4 \in asked.request /\ (4 \in ended.request <=> 4 \in mousePic.request)
    BY <2>1
  <2>3. QED  BY <2>1, <2>2 DEF asked, ended
<1> SUFFICES Inv'
  BY <1>i
<1>j. Inv
  BY <1>i
<1>1. ASSUME NEW moved \in BOOLEAN, NEW b \in BOOLEAN, Mice!Poll(moved, b) PROVE Inv'
  <2>1. /\ buffer' = buffer \o Mice!Packet(b) /\ ~(Len(buffer) > MaxBuffer)
        /\ buttons' = b /\ mousePic' = Mice!PicIrq(mousePic, 4)
        /\ UNCHANGED <<dtr, driver, expects, seen>>
    BY <1>1 DEF Mice!Poll, Mice!Polled, Mice!Interrupt, Mice!MOUSE
  <2>2. /\ buffer' \in Seq(Mice!SerialByte) /\ Len(buffer') = Len(buffer) + 3
    <3>1. Mice!Packet(b) \in Seq(Mice!SerialByte) /\ Len(Mice!Packet(b)) = 3
      BY PacketBytes
    <3>2. buffer \in Seq(Mice!SerialByte)
      BY <1>j
    <3>3. /\ buffer \o Mice!Packet(b) \in Seq(Mice!SerialByte)
          /\ Len(buffer \o Mice!Packet(b)) = Len(buffer) + Len(Mice!Packet(b))
      BY <3>1, <3>2, ConcatProperties
    <3>4. QED  BY <2>1, <3>1, <3>3
  <2>3. driver # "unloaded" => Stream(buffer', expects, b, seen)
    BY <1>j, <2>1, StreamOfPoll
  <2>4. Host' /\ Off'
    BY <1>j, <2>1, Zenon
  <2>5. Buffered'
    BY <1>0, <2>1, <2>2
  <2>6. QED
    BY <1>j, <1>p, <2>1, <2>3, <2>4, <2>5
<1>2. ASSUME NEW bit \in BOOLEAN, Mice!StartsOver(bit) PROVE Inv'
  <2>1. /\ dtr' = bit /\ driver' = "main" /\ buttons' = buttons
        /\ driver \in {"unloaded", "main"} /\ (driver = "unloaded" => bit)
    BY <1>2 DEF Mice!StartsOver, Mice!WriteDtr
  <2>2. Host' /\ Off'
    BY <1>j, <2>1, Zenon
  <2>3. CASE bit # dtr
    <3>1. /\ buffer' = Mice!MouseReset /\ expects' = "id" /\ seen' = {}
          /\ mousePic' = Mice!PicIrq(mousePic, 4)
      BY <1>2, <2>3 DEF Mice!StartsOver, Mice!WriteDtr, Mice!Interrupt, Mice!MOUSE
    <3>2. Stream(buffer', expects', buttons', seen')
      BY <1>j, <2>1, <3>1, StreamOfReset
    <3>3. Buffered'
      <4>1. /\ Mice!MouseReset \in Seq(Mice!SerialByte) /\ Len(Mice!MouseReset) = 1
        BY StreamOfReset
      <4>2. 1 <= MaxBuffer + 3
        BY <1>0
      <4>3. QED  BY <3>1, <4>1, <4>2
    <3>4. QED
      BY <1>p, <2>1, <2>2, <3>1, <3>2, <3>3 DEF Mice!Kind
  <2>4. CASE bit = dtr
    <3>1. UNCHANGED <<buffer, expects, seen, mousePic>>
      BY <1>2, <2>4 DEF Mice!StartsOver, Mice!WriteDtr
    <3>2. driver = "main"
      BY <1>j, <2>1, <2>4
    <3>3. QED
      BY <1>j, <2>1, <2>2, <3>1, <3>2
  <2>5. QED  BY <2>3, <2>4
<1>3. CASE Mice!EnterHandler
  <2>1. /\ Mice!Deliverable(mousePic) # {} /\ driver = "main" /\ driver' = "entered"
        /\ mousePic' = Mice!PicAck(mousePic)
        /\ UNCHANGED <<dtr, buffer, buttons, expects, seen>>
    BY <1>3 DEF Mice!EnterHandler
  <2>2. Host' /\ Off'
    BY <1>j, <2>1, Zenon
  <2>3. QED
    BY <1>j, <1>p, <2>1, <2>2
<1>4. CASE Mice!HandlerReads
  <2>1. /\ buffer # <<>> /\ buffer' = Tail(buffer) /\ driver' = "read"
        /\ driver \in {"entered", "read"}
        /\ mousePic' = Mice!PicIrq(mousePic, 4) /\ expects' = Mice!Follows[expects]
        /\ seen' = IF expects = "sync" THEN {Head(buffer).button} ELSE seen
        /\ UNCHANGED <<dtr, buttons>>
    BY <1>4 DEF Mice!HandlerReads, Mice!AfterRead, Mice!MOUSE
  <2>2. /\ buffer' \in Seq(Mice!SerialByte) /\ Len(buffer') = Len(buffer) - 1
        /\ Head(buffer) \in Mice!SerialByte
    BY <1>j, <2>1, HeadTailProperties
  <2>3. expects' \in Mice!Kind /\ seen' \in SUBSET BOOLEAN
    BY <1>j, <2>1, <2>2, FollowsOf DEF Mice!Kind, Mice!SerialByte
  <2>4. Stream(buffer', expects', buttons, seen')
    BY <1>j, <2>1, StreamOfRead
  <2>5. Host' /\ Off'
    BY <1>j, <2>1, Zenon
  <2>6. Buffered'
    BY <1>0, <1>j, <2>2
  <2>7. QED
    BY <1>p, <2>1, <2>3, <2>4, <2>5, <2>6
<1>5. CASE Mice!HandlerEnds
  <2>1. /\ driver = "read" \/ (driver = "entered" /\ buffer = <<>>)
        /\ mousePic' = Mice!PicCommand(mousePic, {5}) /\ driver' = "main"
        /\ UNCHANGED <<dtr, buffer, buttons, expects, seen>>
    BY <1>5 DEF Mice!HandlerEnds
  <2>2. Host' /\ Off'
    BY <1>j, <2>1, Zenon
  <2>3. QED
    BY <1>j, <1>p, <2>1, <2>2
<1>6. CASE Mice!Reset
  <2>1. /\ dtr' = FALSE /\ buttons' = FALSE /\ mousePic' = Mice!Booted
        /\ driver' = "unloaded" /\ UNCHANGED <<buffer, expects, seen>>
    BY <1>6 DEF Mice!Reset
  <2>2. Host' /\ Off'
    BY <2>1, Zenon
  <2>3. QED
    BY <1>j, <2>1, <2>2, MouseBooted
<1>7. CASE UNCHANGED Mice!vars
  <2>1. UNCHANGED <<dtr, buffer, buttons, mousePic, driver, expects, seen>>
    BY <1>7 DEF Mice!vars
  <2>2. QED  BY <1>j, <2>1
<1>8. QED
  BY <1>1, <1>2, <1>3, <1>4, <1>5, <1>6, <1>7 DEF Mice!Next

LEMMA MouseInvHolds == Spec => []MouseInv
<1>1. Init => MouseInv
  BY MouseInvInit DEF Init
<1>2. QED  BY <1>1, MouseInvStep, StepOfOne, PTL DEF Spec

\* A driver that is loaded finds the kind of byte it expects, knows the button when it has
\* read everything, and is always called for what is in the buffer, across packets that
\* a full buffer held up, starting over and resets (mouse.odin).
THEOREM DriverIsFollowed == Spec => []DriverFollows
<1>1. ASSUME MouseInv, driver # "unloaded"
      PROVE  /\ buffer # <<>> =>
                  /\ buffer[1].kind = expects
                  /\ \A n \in 2..Len(buffer) :
                       buffer[n].kind = Mice!Follows[buffer[n - 1].kind]
             /\ expects = "sync" /\ buffer = <<>> => seen \subseteq {buttons}
             /\ buffer # <<>> =>
                  Mice!MOUSE \in mousePic.request \/ driver = "entered"
  <2>1. Len(buffer) \in Nat /\ (buffer = <<>> <=> Len(buffer) = 0)
    BY <1>1, LenProperties, EmptySeq DEF MouseInv
  <2>2. QED  BY <1>1, <2>1 DEF MouseInv, Stream
<1>2. MouseInv => DriverFollows
  BY <1>1 DEF DriverFollows, Mice!Aligned, Mice!ButtonKnown, Mice!NoByteStuck
<1>3. QED  BY <1>2, MouseInvHolds, PTL
-----------------------------------------------------------------------------
(* The disk controller and the tray. *)

\* Images of floppies, and what the guest is told of the geometry of an image.
Soft == {image \in Images : ~Disks!IsHd(image)}
LastOf(image) == Disks!LastSector(Disks!Geometry(image))

\* A disk is in the first floppy drive or the first hard drive, and nowhere else.
InOrder(images, number, opened, failed, parameters) ==
  /\ images \in [Disks!Drive -> Images \cup {NoImage}]
  /\ images[1] = NoImage /\ images[129] = NoImage
  /\ images[0] # NoImage => images[0] \in Soft
  /\ images[128] # NoImage => images[128] \notin Soft
  /\ number \in [fd : Nat, hd : Nat]
  /\ number.fd = IF images[0] = NoImage THEN 0 ELSE 1
  /\ number.hd = IF images[128] = NoImage THEN 0 ELSE 1
  /\ opened = number.fd + number.hd
  /\ ~failed
  /\ DOMAIN parameters = Disks!Drive
  /\ \A d \in Disks!Drive :
       parameters[d] \subseteq IF images[d] = NoImage THEN {} ELSE {LastOf(images[d])}

DrivesInv == InOrder(drives, counts, open, asserted, told)

ListInv ==
  /\ list \in Seq(Soft \cup {NoImage}) /\ index \in Nat
  /\ index < Len(list) \/ index = 0

\* The last callback of the frontend, and what it returned.
DiskAnswer == [of : Disks!Calls, ok : BOOLEAN]

DiskInv ==
  /\ DrivesInv /\ ListInv
  /\ loaded \in BOOLEAN /\ seek \in {"position", "zero"} /\ answer \in DiskAnswer
  /\ ~loaded => drives[0] = NoImage /\ drives[128] = NoImage

LEMMA DiskAnswered ==
  \A call \in Disks!Calls, ok \in BOOLEAN :
    Disks!Answers(call, ok) => answer' \in DiskAnswer
BY DEF Disks!Answers, DiskAnswer

LEMMA DrivesNext == DrivesInv' <=> InOrder(drives', counts', open', asserted', told')
BY DEF DrivesInv, InOrder, Soft, LastOf, Disks!LastSector, Disks!Geometry, Disks!IsHd,
       Disks!Formats, Disks!Drive, Disks!Format, Disks!Sector

LEMMA ListNext ==
  ListInv' <=> /\ list' \in Seq(Soft \cup {NoImage}) /\ index' \in Nat
               /\ index' < Len(list') \/ index' = 0
BY DEF ListInv, Soft, Disks!IsHd, Disks!Formats

LEMMA DiskConstants ==
  /\ DefaultImage \in Images /\ NoImage \notin Images /\ Floppies \subseteq Soft
  /\ \A image \in Images : ImageSize[image] \in Nat /\ ImageSize[image] % 512 = 0
  /\ Soft \subseteq Images /\ \A image \in Images : image \in Soft <=> ~Disks!IsHd(image)
BY PartsAssumption DEF Disks!DiskAssumption, Soft, Disks!Sector

\* No assertion fails when an image is put into an empty drive of its kind.
LEMMA MountKeeps ==
  ASSUME DrivesInv, NEW image \in Images, NEW num, Disks!Mount(num, image),
         \/ num = 255 /\ drives[0] = NoImage /\ drives[128] = NoImage
         \/ num = 0 /\ drives[0] = NoImage /\ image \in Soft
  PROVE  /\ DrivesInv'
         /\ drives' = [drives EXCEPT ![IF image \in Soft THEN 0 ELSE 128] = image]
<1> DEFINE n == IF image \in Soft THEN 0 ELSE 128
           c == Disks!Counted(image)
<1>1. InOrder(drives, counts, open, asserted, told)
  BY DEF DrivesInv
<1>2. Disks!IsHd(image) <=> image \notin Soft
  BY DiskConstants
<1>3. counts.fd \in Nat /\ counts.hd \in Nat
  BY <1>1 DEF InOrder
<1>4. /\ c \in [fd : Nat, hd : Nat]
      /\ c.fd = IF image \in Soft THEN counts.fd + 1 ELSE counts.fd
      /\ c.hd = IF image \in Soft THEN counts.hd ELSE counts.hd + 1
  BY <1>1, <1>2, <1>3 DEF InOrder, Disks!Counted
<1>5. Disks!MountedAt(num, image) = n /\ drives[n] = NoImage
  BY <1>1, <1>2 DEF InOrder, Disks!MountedAt
<1> HIDE DEF n, c
<1>6. n \in {0, 128} /\ (n = 0 <=> image \in Soft) /\ n \in Disks!Drive
  BY DEF n, Disks!Drive
<1>7. Disks!MountAsserts(n, image)
  <2>1. c.fd <= 2
    BY <1>1, <1>4, <1>5, <1>6 DEF InOrder
  <2>2. ImageSize[image] % Disks!Sector = 0
    BY DiskConstants DEF Disks!Sector
  <2>3. Disks!IsHd(image) <=> n >= 128
    BY <1>2, <1>6
  <2>4. QED  BY <1>5, <2>1, <2>2, <2>3 DEF Disks!MountAsserts, c
<1>8. /\ counts' = c /\ open' = open + 1 /\ drives' = [drives EXCEPT ![n] = image]
      /\ asserted' = asserted /\ told' = [told EXCEPT ![n] = {}]
  BY <1>5, <1>7 DEF Disks!Mount, c
<1>9. InOrder(drives', counts', open', asserted', told')
  <2>1. /\ drives' \in [Disks!Drive -> Images \cup {NoImage}]
        /\ drives'[n] = image /\ \A d \in Disks!Drive \ {n} : drives'[d] = drives[d]
        /\ image # NoImage
    BY <1>1, <1>6, <1>8, DiskConstants DEF InOrder
  <2>2. /\ DOMAIN told' = Disks!Drive /\ told'[n] = {}
        /\ \A d \in Disks!Drive \ {n} : told'[d] = told[d]
    BY <1>1, <1>6, <1>8 DEF InOrder
  <2>3. {0, 1, 128, 129} = Disks!Drive
    BY DEF Disks!Drive
  <2>4. QED
    BY <1>1, <1>4, <1>5, <1>6, <1>8, <2>1, <2>2, <2>3 DEF InOrder
<1>10. QED  BY <1>8, <1>9, DrivesNext DEF n

LEMMA UnmountKeeps ==
  ASSUME DrivesInv, drives[0] # NoImage, Disks!Unmount
  PROVE  DrivesInv' /\ drives' = [drives EXCEPT ![0] = NoImage]
<1>1. InOrder(drives, counts, open, asserted, told)
  BY DEF DrivesInv
<1>2. /\ drives' = [drives EXCEPT ![0] = NoImage] /\ open' = open - 1
      /\ counts' = [counts EXCEPT !.fd = @ - 1]
      /\ told' = [told EXCEPT ![0] = {}] /\ asserted' = asserted
  BY DEF Disks!Unmount, Disks!CountsAfterEject
<1>3. counts' \in [fd : Nat, hd : Nat] /\ counts'.fd = 0 /\ counts'.hd = counts.hd
  BY <1>1, <1>2 DEF InOrder
<1>4. InOrder(drives', counts', open', asserted', told')
  BY <1>1, <1>2, <1>3 DEF InOrder, Disks!Drive
<1>5. QED  BY <1>2, <1>4, DrivesNext

\* Where images may be, and how many there are.
LEMMA MountedCount ==
  ASSUME DrivesInv
  PROVE  /\ counts.fd = Disks!Cardinality(Disks!Mounted \cap {0, 1})
         /\ counts.hd = Disks!Cardinality(Disks!Mounted \cap {128, 129})
         /\ open = Disks!Cardinality(Disks!Mounted)
<1>1. InOrder(drives, counts, open, asserted, told)
  BY DEF DrivesInv
<1>2. \A S : Disks!Cardinality(S) = Cardinality(S)
  BY DEF Disks!Cardinality, Cardinality, Disks!IsFiniteSet, IsFiniteSet
<1>3. \A d \in {0, 1, 128, 129} : d \in Disks!Mounted <=> drives[d] # NoImage
  BY DEF Disks!Mounted, Disks!Drive
<1>4. Disks!Mounted \subseteq {0, 1, 128, 129}
  BY DEF Disks!Mounted, Disks!Drive
<1>5. /\ Cardinality({}) = 0 /\ Cardinality({0}) = 1 /\ Cardinality({128}) = 1
      /\ Cardinality({0, 128}) = 2
  <2>1. /\ IsFiniteSet({}) /\ Cardinality({}) = 0
        /\ IsFiniteSet({0}) /\ Cardinality({0}) = 1 /\ Cardinality({128}) = 1
    BY FS_EmptySet, FS_Singleton
  <2>2. Cardinality({0} \cup {128}) = 2
    BY <2>1, FS_AddElement
  <2>3. {0} \cup {128} = {0, 128}
    OBVIOUS
  <2>4. QED  BY <2>1, <2>2, <2>3
<1>6. Disks!Mounted \cap {0, 1} = IF drives[0] = NoImage THEN {} ELSE {0}
  BY <1>1, <1>3 DEF InOrder
<1>7. Disks!Mounted \cap {128, 129} = IF drives[128] = NoImage THEN {} ELSE {128}
  BY <1>1, <1>3 DEF InOrder
<1>8. Disks!Mounted = (Disks!Mounted \cap {0, 1}) \cup (Disks!Mounted \cap {128, 129})
  BY <1>4
<1>9. Disks!Mounted = IF drives[0] = NoImage
                      THEN IF drives[128] = NoImage THEN {} ELSE {128}
                      ELSE IF drives[128] = NoImage THEN {0} ELSE {0, 128}
  BY <1>6, <1>7, <1>8
<1>10. Cardinality(Disks!Mounted \cap {0, 1}) = IF drives[0] = NoImage THEN 0 ELSE 1
  BY <1>5, <1>6
<1>11. Cardinality(Disks!Mounted \cap {128, 129}) = IF drives[128] = NoImage THEN 0 ELSE 1
  BY <1>5, <1>7
<1>12. Cardinality(Disks!Mounted) = (IF drives[0] = NoImage THEN 0 ELSE 1)
                                    + (IF drives[128] = NoImage THEN 0 ELSE 1)
  <2>1. CASE drives[0] = NoImage
    BY <1>5, <1>9, <2>1
  <2>2. CASE drives[0] # NoImage
    BY <1>5, <1>9, <2>2
  <2>3. QED  BY <2>1, <2>2
<1>13. /\ counts.fd = IF drives[0] = NoImage THEN 0 ELSE 1
       /\ counts.hd = IF drives[128] = NoImage THEN 0 ELSE 1
       /\ open = counts.fd + counts.hd
  BY <1>1 DEF InOrder
<1>14. QED
  BY <1>2, <1>10, <1>11, <1>12, <1>13

LEMMA DiskInvInit == Disks!Init => DiskInv
<1> SUFFICES ASSUME Disks!Init PROVE DiskInv
  OBVIOUS
<1>1. InOrder(drives, counts, open, asserted, told)
  BY DEF Disks!Init, Disks!Unmounted, Disks!NothingTold, InOrder, Disks!Drive
<1>2. ListInv
  BY EmptySeq DEF Disks!Init, ListInv
<1>3. QED
  BY <1>1, <1>2 DEF DiskInv, DrivesInv, Disks!Init, Disks!Unmounted, Disks!Drive

LEMMA DrivesSame ==
  ASSUME DrivesInv, UNCHANGED <<drives, counts, open, asserted, told>>
  PROVE  DrivesInv'
<1>1. InOrder(drives', counts', open', asserted', told')
  BY DEF DrivesInv
<1>2. QED  BY <1>1, DrivesNext

LEMMA ListSame ==
  ASSUME ListInv, UNCHANGED <<list, index>>
  PROVE  ListInv'
BY ListNext DEF ListInv

LEMMA DiskInvStep == DiskInv /\ [Disks!Next]_Disks!vars => DiskInv'
<1> SUFFICES ASSUME DiskInv, [Disks!Next]_Disks!vars PROVE DiskInv'
  OBVIOUS
<1>0. /\ DrivesInv /\ ListInv
      /\ loaded \in BOOLEAN /\ seek \in {"position", "zero"} /\ answer \in DiskAnswer
      /\ ~loaded => drives[0] = NoImage /\ drives[128] = NoImage
  BY DEF DiskInv
<1>f. drives \in [Disks!Drive -> Images \cup {NoImage}] /\ DOMAIN told = Disks!Drive
      /\ ~asserted
  BY <1>0 DEF DrivesInv, InOrder
<1>l. list \in Seq(Soft \cup {NoImage}) /\ index \in Nat /\ Len(list) \in Nat
      /\ (index < Len(list) \/ index = 0)
  BY <1>0, LenProperties DEF ListInv
<1>1. ASSUME NEW info \in Images \cup {NoImage}, Disks!Load(info) PROVE DiskInv'
  <2> DEFINE image == IF info = NoImage THEN DefaultImage ELSE info
  <2>1. image \in Images
    BY DiskConstants
  <2>2. /\ ~loaded /\ loaded' = TRUE /\ Disks!Mount(255, image)
        /\ list' = IF Disks!IsHd(image) THEN list ELSE Append(list, image)
        /\ UNCHANGED <<seek, index, answer>>
    BY <1>1 DEF Disks!Load, Disks!ListAfterLoad
  <2> HIDE DEF image
  <2>3. DrivesInv'
    BY <1>0, <2>1, <2>2, MountKeeps
  <2>4. list' \in Seq(Soft \cup {NoImage}) /\ Len(list') >= Len(list)
    <3>1. CASE Disks!IsHd(image)
      BY <1>l, <2>2, <3>1
    <3>2. CASE ~Disks!IsHd(image)
      <4>1. image \in Soft \cup {NoImage}
        BY <2>1, <3>2, DiskConstants
      <4>2. QED  BY <1>l, <2>2, <3>2, <4>1, AppendProperties
    <3>3. QED  BY <3>1, <3>2
  <2>5. ListInv'
    BY <1>l, <2>2, <2>4, LenProperties, ListNext
  <2>6. QED  BY <1>0, <2>2, <2>3, <2>5 DEF DiskInv
<1>2. CASE Disks!Unload
  <2>1. /\ loaded' = FALSE /\ seek' = seek /\ drives' = Disks!Unmounted
        /\ open' = open - Disks!Cardinality(Disks!Mounted)
        /\ counts' = [fd |-> 0, hd |-> 0] /\ told' = Disks!NothingTold
        /\ UNCHANGED <<list, index, answer, asserted>>
    BY <1>2 DEF Disks!Unload
  <2>2. open' = 0
    <3>1. open = Disks!Cardinality(Disks!Mounted)
      BY <1>0, MountedCount
    <3>2. open \in Nat
      BY <1>0 DEF DrivesInv, InOrder
    <3>3. QED  BY <2>1, <3>1, <3>2
  <2>3. InOrder(drives', counts', open', asserted', told')
    BY <1>f, <2>1, <2>2 DEF Disks!Unmounted, Disks!NothingTold, InOrder, Disks!Drive
  <2>4. DrivesInv' /\ ListInv'
    BY <1>0, <2>1, <2>3, DrivesNext, ListSame
  <2>5. drives'[0] = NoImage /\ drives'[128] = NoImage
    BY <2>1 DEF Disks!Unmounted, Disks!Drive
  <2>6. QED  BY <1>0, <2>1, <2>4, <2>5 DEF DiskInv
<1>3. ASSUME NEW ejected \in BOOLEAN, Disks!SetEjectState(ejected) PROVE DiskInv'
  <2>1. /\ loaded /\ UNCHANGED <<loaded, seek, list, index>>
        /\ (~ejected /\ index < Len(list) => Disks!Selected # NoImage)
    BY <1>3 DEF Disks!SetEjectState, Disks!Running
  <2>a. answer' \in DiskAnswer
    <3>1. PICK ok \in BOOLEAN : Disks!Answers("set_eject_state", ok)
      BY <1>3 DEF Disks!SetEjectState
    <3>2. QED  BY <3>1, DiskAnswered DEF Disks!Calls
  <2>2. DrivesInv'
    <3>1. CASE Disks!TrayOpen = ejected \/ (~ejected /\ ~(index < Len(list)))
      BY <1>0, <1>3, <3>1, DrivesSame DEF Disks!SetEjectState
    <3>2. CASE Disks!TrayOpen # ejected /\ ejected
      <4>1. drives[0] # NoImage
        BY <3>2 DEF Disks!TrayOpen
      <4>2. QED
        BY <1>0, <1>3, <3>2, <4>1, UnmountKeeps DEF Disks!SetEjectState
    <3>3. CASE Disks!TrayOpen # ejected /\ ~ejected /\ index < Len(list)
      <4>1. drives[0] = NoImage
        BY <3>3 DEF Disks!TrayOpen
      <4>2. Disks!Mount(0, Disks!Selected)
        BY <1>3, <3>3 DEF Disks!SetEjectState
      <4>3. Disks!Selected \in Soft /\ Disks!Selected \in Images
        <5>1. index + 1 \in 1..Len(list)
          BY <1>l, <3>3
        <5>2. list[index + 1] \in Soft \cup {NoImage}
          BY <1>l, <5>1, ElementOfSeq
        <5>3. QED  BY <2>1, <3>3, <5>2, DiskConstants DEF Disks!Selected
      <4>4. QED  BY <1>0, <4>1, <4>2, <4>3, MountKeeps
    <3>4. QED  BY <3>1, <3>2, <3>3
  <2>3. QED  BY <1>0, <2>1, <2>a, <2>2, ListSame DEF DiskInv
<1>4. ASSUME NEW i \in 0..MaxList, Disks!SetIndex(i) PROVE DiskInv'
  <2>1. /\ index' = IF i < Len(list) THEN i ELSE index
        /\ \E ok \in BOOLEAN : Disks!Answers("set_image_index", ok)
        /\ UNCHANGED <<loaded, seek, drives, counts, open, list, asserted, told>>
    BY <1>4 DEF Disks!SetIndex
  <2>2. ListInv'
    BY <1>l, <2>1, ListNext
  <2>a. answer' \in DiskAnswer
    <3>1. PICK ok \in BOOLEAN : Disks!Answers("set_image_index", ok)
      BY <2>1
    <3>2. QED  BY <3>1, DiskAnswered DEF Disks!Calls
  <2>3. QED  BY <1>0, <2>1, <2>2, <2>a, DrivesSame DEF DiskInv
<1>5. CASE Disks!AddImage
  <2>1. /\ loaded /\ list' = Append(list, NoImage)
        /\ Disks!Answers("add_image_index", TRUE)
        /\ UNCHANGED <<loaded, seek, drives, counts, open, index, asserted, told>>
    BY <1>5 DEF Disks!AddImage, Disks!Running
  <2>a. answer' \in DiskAnswer
    BY <2>1, DiskAnswered DEF Disks!Calls
  <2>2. list' \in Seq(Soft \cup {NoImage}) /\ Len(list') = Len(list) + 1
    BY <1>l, <2>1, AppendProperties
  <2>3. ListInv'
    BY <1>l, <2>1, <2>2, ListNext
  <2>4. QED  BY <1>0, <2>1, <2>3, <2>a, DrivesSame DEF DiskInv
<1>6. ASSUME NEW i \in 0..MaxList - 1, NEW image \in Floppies \cup {NoImage},
             Disks!ReplaceImage(i, image)
      PROVE  DiskInv'
  <2>1. /\ loaded /\ i < Len(list)
        /\ list' = IF image = NoImage THEN list ELSE [list EXCEPT ![i + 1] = image]
        /\ Disks!Answers("replace_image_index", image # NoImage)
        /\ UNCHANGED <<loaded, seek, drives, counts, open, index, asserted, told>>
    BY <1>6 DEF Disks!ReplaceImage, Disks!Running
  <2>a. answer' \in DiskAnswer
    BY <2>1, DiskAnswered DEF Disks!Calls
  <2>2. list' \in Seq(Soft \cup {NoImage}) /\ Len(list') = Len(list)
    <3>1. i + 1 \in 1..Len(list) /\ image \in Soft \cup {NoImage}
      BY <1>l, <2>1, DiskConstants
    <3>2. QED  BY <1>l, <2>1, <3>1, ExceptSeq
  <2>3. ListInv'
    BY <1>l, <2>1, <2>2, ListNext
  <2>4. QED  BY <1>0, <2>1, <2>3, <2>a, DrivesSame DEF DiskInv
<1>7. ASSUME NEW d \in Disks!Drive, Disks!Parameters(d) PROVE DiskInv'
  <2>1. /\ drives[d] # NoImage /\ told' = [told EXCEPT ![d] = {LastOf(drives[d])}]
        /\ UNCHANGED <<loaded, seek, drives, counts, open, list, index, answer, asserted>>
    BY <1>7 DEF Disks!Parameters, Disks!Mounted, LastOf
  <2>2. InOrder(drives', counts', open', asserted', told')
    BY <1>0, <1>f, <2>1 DEF DrivesInv, InOrder
  <2>3. QED  BY <1>0, <2>1, <2>2, DrivesNext, ListSame DEF DiskInv
<1>8. CASE Disks!Transfers
  <2>1. UNCHANGED <<loaded, seek, drives, counts, open, list, index, answer, asserted,
                    told>>
    BY <1>8 DEF Disks!Transfers, Disks!Transfer
  <2>2. QED  BY <1>0, <2>1, DrivesSame, ListSame DEF DiskInv
<1>9. CASE UNCHANGED Disks!vars
  <2>1. UNCHANGED <<loaded, seek, drives, counts, open, list, index, answer, asserted,
                    told>>
    BY <1>9 DEF Disks!vars
  <2>2. QED  BY <1>0, <2>1, DrivesSame, ListSame DEF DiskInv
<1>10. QED
  BY <1>1, <1>2, <1>3, <1>4, <1>5, <1>6, <1>7, <1>8, <1>9 DEF Disks!Next

LEMMA DiskInvHolds == Spec => []DiskInv
<1>1. Init => DiskInv
  BY DiskInvInit DEF Init
<1>2. QED  BY <1>1, DiskInvStep, StepOfOne, PTL DEF Spec

\* The table of floppy formats, and its rows.
LEMMA FormatRows ==
  /\ DOMAIN Disks!Formats = {512, 163840, 368640, 737280, 1228800, 1474560}
  /\ Disks!Formats[163840] = Disks!Format(40, 8, 1)
  /\ Disks!Formats[368640] = Disks!Format(40, 9, 2)
  /\ Disks!Formats[737280] = Disks!Format(80, 9, 2)
  /\ Disks!Formats[1228800] = Disks!Format(80, 15, 2)
  /\ Disks!Formats[1474560] = Disks!Format(80, 18, 2)
<1>1. DOMAIN Disks!Formats = {512, 163840, 368640, 737280, 1228800, 1474560}
  BY DEF Disks!Formats
<1>2. Disks!Formats[163840] = Disks!Format(40, 8, 1)
  BY SMT DEF Disks!Formats
<1>3. Disks!Formats[368640] = Disks!Format(40, 9, 2)
  BY SMT DEF Disks!Formats
<1>4. Disks!Formats[737280] = Disks!Format(80, 9, 2)
  BY SMT DEF Disks!Formats
<1>5. Disks!Formats[1228800] = Disks!Format(80, 15, 2)
  BY SMT DEF Disks!Formats
<1>6. Disks!Formats[1474560] = Disks!Format(80, 18, 2)
  BY SMT DEF Disks!Formats
<1>7. QED  BY <1>1, <1>2, <1>3, <1>4, <1>5, <1>6

LEMMA FormatFields ==
  ASSUME NEW c, NEW s, NEW h
  PROVE  /\ Disks!Format(c, s, h).cylinders = c /\ Disks!Format(c, s, h).sectors = s
         /\ Disks!Format(c, s, h).heads = h
BY DEF Disks!Format

\* A format of the table that holds all its sectors.
SoftRow(g, size) ==
  /\ \/ g.cylinders = 40 /\ g.heads = 1 /\ g.sectors = 8
     \/ g.cylinders = 40 /\ g.heads = 2 /\ g.sectors = 9
     \/ g.cylinders = 80 /\ g.heads = 2 /\ g.sectors = 9
     \/ g.cylinders = 80 /\ g.heads = 2 /\ g.sectors = 15
     \/ g.cylinders = 80 /\ g.heads = 2 /\ g.sectors = 18
  /\ size = 512 * (g.cylinders * (g.heads * g.sectors))

LEMMA SoftGeometry ==
  ASSUME NEW image \in Images, Disks!Holds(image), ~Disks!IsHd(image)
  PROVE  SoftRow(Disks!Geometry(image), ImageSize[image])
<1> DEFINE size == ImageSize[image]
           g == Disks!Geometry(image)
<1>1. g = Disks!Formats[size] /\ size \in DOMAIN Disks!Formats /\ size # 512
  <2>1. g = Disks!Formats[size]
    BY DEF Disks!Geometry
  <2>2. size \in DOMAIN Disks!Formats
    BY DEF Disks!IsHd
  <2>3. size # 512
    BY DEF Disks!Holds, Disks!Sector
  <2>4. QED  BY <2>1, <2>2, <2>3
<1> HIDE DEF size, g
<1>2. size \in {163840, 368640, 737280, 1228800, 1474560}
  BY <1>1, FormatRows
<1>3. CASE size = 163840
  <2>1. g = Disks!Format(40, 8, 1)
    BY <1>1, <1>3, FormatRows
  <2>2. g.cylinders = 40 /\ g.sectors = 8 /\ g.heads = 1
    BY <2>1, FormatFields
  <2>3. SoftRow(g, size)
    BY SMT, <1>3, <2>2 DEF SoftRow
  <2>4. QED  BY <2>3 DEF g, size
<1>4. CASE size = 368640
  <2>1. g = Disks!Format(40, 9, 2)
    BY <1>1, <1>4, FormatRows
  <2>2. g.cylinders = 40 /\ g.sectors = 9 /\ g.heads = 2
    BY <2>1, FormatFields
  <2>3. SoftRow(g, size)
    BY SMT, <1>4, <2>2 DEF SoftRow
  <2>4. QED  BY <2>3 DEF g, size
<1>5. CASE size = 737280
  <2>1. g = Disks!Format(80, 9, 2)
    BY <1>1, <1>5, FormatRows
  <2>2. g.cylinders = 80 /\ g.sectors = 9 /\ g.heads = 2
    BY <2>1, FormatFields
  <2>3. SoftRow(g, size)
    BY SMT, <1>5, <2>2 DEF SoftRow
  <2>4. QED  BY <2>3 DEF g, size
<1>6. CASE size = 1228800
  <2>1. g = Disks!Format(80, 15, 2)
    BY <1>1, <1>6, FormatRows
  <2>2. g.cylinders = 80 /\ g.sectors = 15 /\ g.heads = 2
    BY <2>1, FormatFields
  <2>3. SoftRow(g, size)
    BY SMT, <1>6, <2>2 DEF SoftRow
  <2>4. QED  BY <2>3 DEF g, size
<1>7. CASE size = 1474560
  <2>1. g = Disks!Format(80, 18, 2)
    BY <1>1, <1>7, FormatRows
  <2>2. g.cylinders = 80 /\ g.sectors = 18 /\ g.heads = 2
    BY <2>1, FormatFields
  <2>3. SoftRow(g, size)
    BY SMT, <1>7, <2>2 DEF SoftRow
  <2>4. QED  BY <2>3 DEF g, size
<1>8. size = 163840 \/ size = 368640 \/ size = 737280 \/ size = 1228800 \/ size = 1474560
  BY <1>2
<1>9. QED  BY <1>3, <1>4, <1>5, <1>6, <1>7, <1>8

\* The numbers of a geometry: the last cylinder, as far as ten bits go, ends within the
\* image.
LastOfCylinders(g) == (g.cylinders - 1) % 65536
Shape(g) ==
  \/ g.heads = 1 /\ g.sectors = 8
  \/ g.heads = 2 /\ g.sectors = 9
  \/ g.heads = 2 /\ g.sectors = 15
  \/ g.heads = 2 /\ g.sectors = 18
  \/ g.heads = 16 /\ g.sectors = 63
Within(c, g, total) ==
  c \in Nat /\ c <= 65535 /\ total \in Nat /\ (c + 1) * (g.heads * g.sectors) <= total

LEMMA LastCylinder ==
  ASSUME NEW image \in Images, Disks!Holds(image)
  PROVE  /\ Shape(Disks!Geometry(image))
         /\ Within(LastOfCylinders(Disks!Geometry(image)), Disks!Geometry(image),
                   ImageSize[image] \div 512)
<1> DEFINE g == Disks!Geometry(image)
           size == ImageSize[image]
           c == LastOfCylinders(g)
           Goal == Shape(g) /\ Within(c, g, size \div 512)
<1> SUFFICES Goal
  OBVIOUS
<1>1. size \in Nat
  BY DiskConstants
<1>2. ASSUME Disks!IsHd(image) PROVE Goal
  <2> DEFINE q == size \div 516096
  <2>1. size >= 516096
    BY <1>2 DEF Disks!Holds, Disks!Sector
  <2>2. /\ g.sectors = 63 /\ g.heads = 16 /\ g.cylinders = q % 65536
    BY <1>2 DEF Disks!Geometry, Disks!Sector
  <2>3. c = ((q % 65536) - 1) % 65536
    BY <2>2 DEF LastOfCylinders
  <2> HIDE DEF g, size, c
  <2>4. q \in Nat /\ q >= 1 /\ q * 1008 <= size \div 512 /\ size \div 512 \in Nat
    BY SMT, <1>1, <2>1
  <2> HIDE DEF q
  <2>5. c \in Nat /\ c <= 65535 /\ c + 1 <= q
    BY SMT, <2>3, <2>4
  <2>6. (c + 1) * (16 * 63) <= size \div 512
    BY SMT, <2>4, <2>5
  <2>7. Within(c, g, size \div 512)
    BY <2>2, <2>4, <2>5, <2>6 DEF Within
  <2>8. Shape(g)
    BY <2>2 DEF Shape
  <2>9. QED  BY <2>7, <2>8
<1>3. ASSUME ~Disks!IsHd(image) PROVE Goal
  <2>1. SoftRow(g, size)
    BY <1>3, SoftGeometry
  <2> HIDE DEF g, size, c
  <2>2. Shape(g) /\ g.cylinders \in {40, 80}
    BY <2>1 DEF SoftRow, Shape
  <2>3. c = g.cylinders - 1 /\ c \in Nat /\ c <= 65535
    BY SMT, <2>2 DEF c, LastOfCylinders
  <2>4. g.heads * g.sectors \in Nat
    BY <2>2 DEF Shape
  <2> DEFINE per == g.heads * g.sectors
  <2>5. size = 512 * (g.cylinders * per)
    BY <2>1 DEF SoftRow
  <2>6. CASE g.cylinders = 40
    <3>1. size \div 512 = 40 * per /\ (c + 1) * per = 40 * per /\ 40 * per \in Nat
      BY SMT, <2>3, <2>4, <2>5, <2>6
    <3>2. QED  BY <2>2, <2>3, <3>1 DEF Within
  <2>7. CASE g.cylinders = 80
    <3>1. size \div 512 = 80 * per /\ (c + 1) * per = 80 * per /\ 80 * per \in Nat
      BY SMT, <2>3, <2>4, <2>5, <2>7
    <3>2. QED  BY <2>2, <2>3, <3>1 DEF Within
  <2>8. QED  BY <2>2, <2>6, <2>7
<1>4. QED  BY <1>2, <1>3

\* Cylinder and sector survive their packing into CH and CL.
Packs(r, k, s) ==
  /\ k \in Nat /\ k <= 1023 /\ s \in Nat /\ s <= 63
  /\ r.ch = k % 256 /\ r.cl = (k \div 256) * 64 + s

LEMMA TenBits ==
  ASSUME NEW r, NEW k, NEW s, Packs(r, k, s)
  PROVE  Disks!Cylinder(r) = k /\ Disks!FirstSector(r) = s
<1>0. /\ k \in Nat /\ k <= 1023 /\ s \in Nat /\ s <= 63
      /\ r.ch = k % 256 /\ r.cl = (k \div 256) * 64 + s
  BY DEF Packs
<1>1. ((k \div 256) * 64 + s) \div 64 = k \div 256 /\ ((k \div 256) * 64 + s) % 64 = s
  BY SMT, <1>0
<1>2. (k % 256) + (k \div 256) * 256 = k
  BY SMT, <1>0
<1>3. QED  BY <1>0, <1>1, <1>2 DEF Disks!Cylinder, Disks!FirstSector

LEMMA LastPacked ==
  ASSUME NEW image \in Images, Disks!Holds(image)
  PROVE  LET g == Disks!Geometry(image)
         IN  /\ Disks!Cylinder(LastOf(image)) = LastOfCylinders(g) % 1024
             /\ Disks!FirstSector(LastOf(image)) = g.sectors
             /\ LastOf(image).dh = g.heads - 1
<1> DEFINE g == Disks!Geometry(image)
           last == LastOf(image)
           c == LastOfCylinders(g)
           k == c % 1024
<1>1. Shape(g) /\ c \in Nat /\ c <= 65535
  BY LastCylinder DEF Within
<1>2. /\ last.ch = c % 256 /\ last.cl = ((c \div 256) % 4) * 64 + (g.sectors % 64)
      /\ last.dh = g.heads - 1
  BY DEF LastOf, Disks!LastSector, LastOfCylinders
<1> HIDE DEF g, c, last
<1>3. g.sectors \in Nat /\ g.sectors <= 63
  BY <1>1 DEF Shape
<1>4. g.sectors % 64 = g.sectors
  BY SMT, <1>3
<1>5. k \in Nat /\ k <= 1023 /\ k % 256 = c % 256 /\ k \div 256 = (c \div 256) % 4
  BY SMT, <1>1
<1> HIDE DEF k
<1>6. last.ch = k % 256 /\ last.cl = (k \div 256) * 64 + g.sectors
  BY <1>2, <1>4, <1>5
<1>7. Disks!Cylinder(last) = k /\ Disks!FirstSector(last) = g.sectors
  <2>1. Packs(last, k, g.sectors)
    BY <1>3, <1>5, <1>6 DEF Packs
  <2>2. QED  BY <2>1, TenBits
<1>8. QED  BY <1>2, <1>7 DEF g, c, last, k

\* A count of sectors that the image still has is transferred.
LEMMA AllThere ==
  ASSUME NEW many \in Nat, NEW remain \in Int, many <= remain
  PROVE  Disks!Max({0, Disks!Min({many, remain})}) = many
<1>1. Disks!Min({many, remain}) = many
  BY DEF Disks!Min
<1>2. Disks!Max({0, many}) = many
  BY DEF Disks!Max
<1>3. QED  BY <1>1, <1>2

\* The sectors of a track lie before the end of the last cylinder.
LEMMA TrackFits ==
  ASSUME NEW g, Shape(g), NEW c, NEW total, Within(c, g, total),
         NEW k \in Nat, k <= c, NEW h \in {0, g.heads - 1},
         NEW s, NEW many,
         (s = 1 /\ many = g.sectors) \/ (s = g.sectors /\ many = 1)
  PROVE  LET lba == (k * g.heads + h) * g.sectors + s - 1
         IN  lba \in Nat /\ many \in Nat /\ many <= total - lba
<1> DEFINE heads == g.heads
           sectors == g.sectors
           per == heads * sectors
           lba == (k * heads + h) * sectors + s - 1
<1>1. c \in Nat /\ total \in Nat /\ (c + 1) * per <= total
  BY DEF Within
<1>2. /\ heads \in Nat /\ sectors \in Nat /\ heads >= 1 /\ sectors >= 1
      /\ per \in Nat /\ per = heads * sectors
  BY DEF Shape
<1> HIDE DEF heads, sectors
<1>3. k + 1 <= c + 1 /\ (k + 1) * per <= (c + 1) * per
  BY SMT, <1>1, <1>2
<1>4. h \in Nat /\ h <= heads - 1
  BY <1>2 DEF heads
<1>5. s \in Nat /\ s >= 1 /\ many \in Nat /\ s + many - 1 <= sectors
  BY <1>2 DEF sectors
<1>6. /\ h * sectors \in Nat /\ h * sectors <= (heads - 1) * sectors
      /\ (heads - 1) * sectors = per - sectors
  BY SMT, <1>2, <1>4
<1>7. /\ lba = k * per + h * sectors + s - 1 /\ k * per \in Nat
      /\ (k + 1) * per = k * per + per
  BY SMT, <1>2, <1>4, <1>5
<1>8. lba \in Nat /\ many <= total - lba
  <2> DEFINE a == k * per
             b == h * sectors
             e == (c + 1) * per
             f == (k + 1) * per
  <2>1. /\ a \in Nat /\ b \in Nat /\ e \in Int /\ f = a + per /\ f <= e /\ e <= total
        /\ b <= per - sectors /\ lba = a + b + s - 1
    BY <1>1, <1>2, <1>3, <1>6, <1>7
  <2> HIDE DEF a, b, e, f, lba, per
  <2>2. QED  BY <1>1, <1>2, <1>5, <2>1 DEF per
<1>9. QED  BY <1>5, <1>8 DEF heads, sectors

\* A transfer within the parameters is complete, if its seek is not taken for a failure.
Unheard(image, track) ==
  Disks!FirstSector(track) # 0 /\ Disks!SeekFails(Disks!Lba(track, Disks!Geometry(image)))

LEMMA TransferFits ==
  ASSUME NEW image \in Images, Disks!Holds(image),
         NEW cylinder \in {0, Disks!Cylinder(LastOf(image))},
         NEW head \in {0, LastOf(image).dh}, NEW whole \in BOOLEAN,
         NEW track, NEW many,
         track = [ch |-> cylinder % 256, dh |-> head,
                  cl |-> (cylinder \div 256) * 64
                         + (IF whole THEN 1 ELSE Disks!FirstSector(LastOf(image)))],
         many = IF whole THEN Disks!FirstSector(LastOf(image)) ELSE 1,
         ~Unheard(image, track)
  PROVE  ~(Disks!Transferred(image, track, many) < many)
<1> DEFINE g == Disks!Geometry(image)
           c == LastOfCylinders(g)
           total == ImageSize[image] \div 512
           s == IF whole THEN 1 ELSE Disks!FirstSector(LastOf(image))
           lba == Disks!Lba(track, g)
<1>1. Shape(g) /\ Within(c, g, total)
  BY LastCylinder
<1>2. /\ Disks!Cylinder(LastOf(image)) = c % 1024 /\ LastOf(image).dh = g.heads - 1
      /\ Disks!FirstSector(LastOf(image)) = g.sectors
  BY LastPacked
<1>3. /\ track.ch = cylinder % 256 /\ track.dh = head
      /\ track.cl = (cylinder \div 256) * 64 + s
  OBVIOUS
<1>4. (s = 1 /\ many = g.sectors) \/ (s = g.sectors /\ many = 1)
  BY <1>2
<1> HIDE DEF g, c, total, s
<1>5. cylinder \in Nat /\ cylinder <= 1023 /\ cylinder <= c
  <2>1. c \in Nat
    BY <1>1 DEF Within
  <2>2. c % 1024 \in Nat /\ c % 1024 <= 1023 /\ c % 1024 <= c
    BY SMT, <2>1
  <2>3. QED  BY <1>2, <2>1, <2>2
<1>6. s \in Nat /\ s <= 63 /\ s # 0
  BY <1>1, <1>4 DEF Shape
<1>7. Disks!Cylinder(track) = cylinder /\ Disks!FirstSector(track) = s
  <2>1. Packs(track, cylinder, s)
    BY <1>3, <1>5, <1>6 DEF Packs
  <2>2. QED  BY <2>1, TenBits
<1>8. lba = (cylinder * g.heads + head) * g.sectors + s - 1
  BY <1>3, <1>7 DEF Disks!Lba
<1>9. lba \in Nat /\ many \in Nat /\ many <= total - lba
  <2>1. head \in {0, g.heads - 1}
    BY <1>2
  <2> DEFINE at(k, h) == (k * g.heads + h) * g.sectors + s - 1
             Inside(k, h) == at(k, h) \in Nat /\ many \in Nat /\ many <= total - at(k, h)
  <2>2. \A k \in Nat : k <= c => \A h \in {0, g.heads - 1} : Inside(k, h)
    BY <1>1, <1>4, TrackFits
  <2>3. Inside(cylinder, head)
    <3> HIDE DEF Inside
    <3>1. QED  BY <1>5, <2>1, <2>2
  <2>4. QED  BY <1>8, <2>3
<1>10. Disks!Transferred(image, track, many)
         = Disks!Max({0, Disks!Min({many, total - lba})})
  BY <1>6, <1>7 DEF Disks!Transferred, Unheard, Disks!Sector, lba, total, g
<1> HIDE DEF lba
<1>11. total \in Nat
  BY <1>1 DEF Within
<1>12. Disks!Transferred(image, track, many) = many
  <2> DEFINE remain == total - lba
  <2>1. remain \in Int /\ many \in Nat /\ many <= remain
    BY <1>9, <1>11
  <2> HIDE DEF remain
  <2>2. Disks!Max({0, Disks!Min({many, remain})}) = many
    BY <2>1, AllThere
  <2>3. QED  BY <1>10, <2>2 DEF remain
<1>13. QED  BY <1>9, <1>12

LEMMA NotShort ==
  ASSUME \A image \in Images : Disks!Holds(image),
         DiskInv, short = FALSE, [Disks!Next]_Disks!vars
  PROVE  short' = FALSE
<1>1. CASE Disks!Transfers
  <2>1. PICK d \in Disks!Mounted : \E last \in told[d] : \E whole \in BOOLEAN :
          \E cylinder \in {0, Disks!Cylinder(last)} : \E head \in {0, last.dh} :
            Disks!Transfer(d, last, cylinder, head, whole)
    BY <1>1 DEF Disks!Transfers
  <2>2. PICK last \in told[d] : \E whole \in BOOLEAN :
          \E cylinder \in {0, Disks!Cylinder(last)} : \E head \in {0, last.dh} :
            Disks!Transfer(d, last, cylinder, head, whole)
    BY <2>1
  <2>3. PICK whole \in BOOLEAN, cylinder \in {0, Disks!Cylinder(last)},
             head \in {0, last.dh} : Disks!Transfer(d, last, cylinder, head, whole)
    BY <2>2
  <2>4. drives[d] \in Images /\ last = LastOf(drives[d])
    BY <2>2 DEF DiskInv, DrivesInv, InOrder, Disks!Mounted
  <2> DEFINE track == [ch |-> cylinder % 256, dh |-> head,
                       cl |-> (cylinder \div 256) * 64
                              + (IF whole THEN 1 ELSE Disks!FirstSector(last))]
             number == IF whole THEN Disks!FirstSector(last) ELSE 1
  <2>5. short' = (short \/ (/\ Disks!Transferred(drives[d], track, number) < number
                            /\ ~Unheard(drives[d], track)))
    BY <2>3 DEF Disks!Transfer, Unheard
  <2>6. Unheard(drives[d], track)
        \/ ~(Disks!Transferred(drives[d], track, number) < number)
    BY <2>4, TransferFits
  <2> HIDE DEF track, number
  <2>7. QED  BY <2>5, <2>6
<1>2. CASE UNCHANGED Disks!vars
  BY <1>2 DEF Disks!vars
<1>3. ASSUME Disks!Next, ~Disks!Transfers PROVE short' = FALSE
  BY <1>3 DEF Disks!Next, Disks!Load, Disks!Unload, Disks!SetEjectState, Disks!SetIndex,
              Disks!AddImage, Disks!ReplaceImage, Disks!Parameters
<1>4. QED  BY <1>1, <1>2, <1>3

\* No order of the frontend's calls makes an assertion fail, the counters that choose the
\* next drive count the drives, and a guest that stays within the parameters it was given
\* transfers all it asked for, but for the transfers whose seek answers the new position
\* and is taken for a failure (disk.odin:66-215, core.odin:99-164; SeekUnderstood):
\* provided that every image holds the geometry it is given.
THEOREM DisksAreInOrder ==
  ASSUME \A image \in Images : Disks!Holds(image)
  PROVE  Spec => []DiskInOrder
<1>1. Init => short = FALSE
  BY DEF Init, Disks!Init
<1>2. DiskInv /\ short = FALSE /\ [Disks!Next]_Disks!vars => (short = FALSE)'
  BY NotShort
<1>3. Spec => [](short = FALSE)
  BY <1>1, <1>2, DiskInvHolds, StepOfOne, PTL DEF Spec
<1>4. DiskInv => Disks!DrivesCounted
  BY MountedCount DEF DiskInv, DrivesInv, InOrder, Disks!DrivesCounted
<1>5. DiskInv /\ short = FALSE => DiskInOrder
  BY <1>4 DEF DiskInOrder, Disks!TransfersComplete
<1>6. QED  BY <1>3, <1>5, DiskInvHolds, PTL
-----------------------------------------------------------------------------
(* The tray of libretro.h. *)

\* What the frontend sees of the controller and the core.
TrayVars == <<loaded, loaded /\ Disks!TrayOpen, list, index, drives[0], answer>>

LEMMA TrayInit == Disks!Init => Disks!Tray!Init
BY DEF Disks!Init, Disks!Tray!Init, Disks!Unmounted, Disks!TrayOpen, Disks!Drive

LEMMA TrayLoads ==
  ASSUME DiskInv, NEW info \in Images \cup {NoImage}, Disks!Load(info)
  PROVE  Disks!Tray!Next
<1> DEFINE image == IF info = NoImage THEN DefaultImage ELSE info
           tray == (loaded /\ Disks!TrayOpen)
<1>1. image \in Images /\ image # NoImage
  BY DiskConstants
<1>2. /\ ~loaded /\ loaded' = TRUE /\ Disks!Mount(255, image)
      /\ list' = IF Disks!IsHd(image) THEN list ELSE Append(list, image)
      /\ UNCHANGED <<index, answer>>
  BY DEF Disks!Load, Disks!ListAfterLoad
<1> HIDE DEF image
<1>3. /\ DrivesInv /\ drives \in [Disks!Drive -> Images \cup {NoImage}]
      /\ drives[0] = NoImage /\ drives[128] = NoImage /\ 0 \in Disks!Drive
  BY <1>2 DEF DiskInv, DrivesInv, InOrder, Disks!Drive
<1>4. drives' = [drives EXCEPT ![IF image \in Soft THEN 0 ELSE 128] = image]
  BY <1>1, <1>2, <1>3, MountKeeps
<1>5. CASE image \in Soft
  <2>1. drives'[0] = image /\ list' = Append(list, image)
    BY <1>1, <1>2, <1>3, <1>4, <1>5, DiskConstants
  <2>2. tray' = FALSE
    BY <1>1, <2>1 DEF Disks!TrayOpen
  <2>3. tray' = ("starts open" \in Disks!TrayLapses /\ (drives[0])' = NoImage)
    BY <1>1, <2>1, <2>2
  <2> HIDE DEF tray
  <2>4. Disks!Tray!LoadGame(image)
    BY <1>2, <2>1, <2>3 DEF Disks!Tray!LoadGame, tray
  <2>5. QED  BY <1>1, <2>4 DEF Disks!Tray!Next
<1>6. CASE image \notin Soft
  <2>1. drives'[0] = NoImage /\ list' = list
    BY <1>1, <1>2, <1>3, <1>4, <1>6, DiskConstants
  <2>2. tray' = TRUE
    BY <1>2, <2>1 DEF Disks!TrayOpen
  <2>3. tray' = ("starts open" \in Disks!TrayLapses /\ (drives[0])' = NoImage)
    BY <2>1, <2>2 DEF Disks!TrayLapses
  <2> HIDE DEF tray
  <2>4. Disks!Tray!LoadGame(image)
    BY <1>2, <2>1, <2>3 DEF Disks!Tray!LoadGame, tray
  <2>5. QED  BY <1>1, <2>4 DEF Disks!Tray!Next
<1>7. QED  BY <1>5, <1>6

LEMMA TrayMoves ==
  ASSUME DiskInv, NEW ejected \in BOOLEAN, Disks!SetEjectState(ejected)
  PROVE  Disks!Tray!Next
<1> DEFINE tray == (loaded /\ Disks!TrayOpen)
<1>1. /\ loaded /\ UNCHANGED <<loaded, list, index>>
      /\ (~ejected /\ index < Len(list) => Disks!Selected # NoImage)
      /\ Disks!Answers("set_eject_state",
                       Disks!TrayOpen = ejected \/ ejected \/ index < Len(list))
  BY DEF Disks!SetEjectState, Disks!Running
<1>2. /\ DrivesInv /\ ListInv /\ 0 \in Disks!Drive
      /\ drives \in [Disks!Drive -> Images \cup {NoImage}]
  BY DEF DiskInv, DrivesInv, InOrder, Disks!Drive
<1>3. CASE Disks!TrayOpen = ejected
  <2>1. /\ drives' = drives /\ tray = ejected
        /\ answer' = [of |-> "set_eject_state", ok |-> TRUE]
    BY <1>1, <1>3 DEF Disks!SetEjectState, Disks!Answers
  <2>2. tray' = ejected /\ (ejected => drives[0] = NoImage)
    BY <1>1, <1>3, <2>1 DEF Disks!TrayOpen
  <2> HIDE DEF tray
  <2>3. Disks!Tray!SetEjectState(ejected)
    BY <1>1, <2>1, <2>2 DEF Disks!Tray!SetEjectState, Disks!Tray!Answers, tray
  <2>4. QED  BY <2>3 DEF Disks!Tray!Next
<1>4. CASE Disks!TrayOpen # ejected /\ ejected
  <2>1. /\ drives[0] # NoImage /\ Disks!Unmount
        /\ answer' = [of |-> "set_eject_state", ok |-> TRUE]
    BY <1>1, <1>4 DEF Disks!SetEjectState, Disks!Answers, Disks!TrayOpen
  <2>2. drives'[0] = NoImage
    BY <1>2, <2>1, UnmountKeeps
  <2>3. tray' = ejected
    BY <1>1, <1>4, <2>2 DEF Disks!TrayOpen
  <2> HIDE DEF tray
  <2>4. Disks!Tray!SetEjectState(ejected)
    BY <1>1, <1>4, <2>1, <2>2, <2>3 DEF Disks!Tray!SetEjectState, Disks!Tray!Answers, tray
  <2>5. QED  BY <2>4 DEF Disks!Tray!Next
<1>5. CASE Disks!TrayOpen # ejected /\ ~ejected /\ index < Len(list)
  <2>1. /\ drives[0] = NoImage /\ Disks!Mount(0, Disks!Selected)
        /\ answer' = [of |-> "set_eject_state", ok |-> TRUE]
    BY <1>1, <1>5 DEF Disks!SetEjectState, Disks!Answers, Disks!TrayOpen
  <2>2. Disks!Selected \in Soft /\ Disks!Selected \in Images
        /\ Disks!Selected = list[index + 1]
    <3>1. list \in Seq(Soft \cup {NoImage}) /\ index + 1 \in 1..Len(list)
      BY <1>2, <1>5, LenProperties DEF ListInv
    <3>2. list[index + 1] \in Soft \cup {NoImage}
      BY <3>1, ElementOfSeq
    <3>3. QED  BY <1>1, <1>5, <3>2, DiskConstants DEF Disks!Selected
  <2>3. drives'[0] = list[index + 1] /\ drives'[0] # NoImage
    BY <1>1, <1>2, <1>5, <2>1, <2>2, MountKeeps
  <2>4. Disks!Tray!Current = list[index + 1]
    BY <1>5 DEF Disks!Tray!Current
  <2>5. tray = TRUE /\ tray' = FALSE
    BY <1>1, <2>1, <2>3 DEF Disks!TrayOpen
  <2> HIDE DEF tray
  <2>6. Disks!Tray!SetEjectState(ejected)
    BY <1>1, <1>5, <2>1, <2>3, <2>4, <2>5
       DEF Disks!Tray!SetEjectState, Disks!Tray!Answers, tray
  <2>7. QED  BY <2>6 DEF Disks!Tray!Next
<1>6. CASE Disks!TrayOpen # ejected /\ ~ejected /\ ~(index < Len(list))
  <2>1. drives' = drives /\ answer' = [of |-> "set_eject_state", ok |-> FALSE]
    BY <1>1, <1>6 DEF Disks!SetEjectState, Disks!Answers
  <2>2. tray = TRUE /\ tray' = tray
    BY <1>1, <1>6, <2>1 DEF Disks!TrayOpen
  <2> HIDE DEF tray
  <2>3. Disks!Tray!SetEjectState(ejected)
    BY <1>1, <1>6, <2>1, <2>2 DEF Disks!Tray!SetEjectState, Disks!Tray!Answers, tray
  <2>4. QED  BY <2>3 DEF Disks!Tray!Next
<1>7. QED  BY <1>3, <1>4, <1>5, <1>6

LEMMA TrayStep ==
  ASSUME DiskInv, [Disks!Next]_Disks!vars
  PROVE  [Disks!Tray!Next]_TrayVars
<1>1. ASSUME NEW info \in Images \cup {NoImage}, Disks!Load(info) PROVE Disks!Tray!Next
  BY <1>1, TrayLoads
<1>2. CASE Disks!Unload
  <2>1. /\ loaded /\ ~loaded' /\ drives'[0] = NoImage
        /\ UNCHANGED <<list, index, answer>>
    BY <1>2 DEF Disks!Unload, Disks!Running, Disks!Unmounted, Disks!Drive
  <2>2. loaded' = FALSE
    BY <1>2 DEF Disks!Unload
  <2>3. Disks!Tray!UnloadGame
    BY <2>1, <2>2 DEF Disks!Tray!UnloadGame, Disks!TrayLapses
  <2>4. QED  BY <2>3 DEF Disks!Tray!Next
<1>3. ASSUME NEW ejected \in BOOLEAN, Disks!SetEjectState(ejected) PROVE Disks!Tray!Next
  BY <1>3, TrayMoves
<1>4. ASSUME NEW i \in 0..MaxList, Disks!SetIndex(i) PROVE Disks!Tray!Next
  <2>1. /\ loaded /\ Disks!TrayOpen /\ UNCHANGED <<loaded, drives, list>>
        /\ IF i < Len(list) THEN Disks!Answers("set_image_index", TRUE) /\ index' = i
           ELSE Disks!Answers("set_image_index", FALSE) /\ UNCHANGED index
    BY <1>4 DEF Disks!SetIndex, Disks!Running
  <2>2. UNCHANGED <<loaded, loaded /\ Disks!TrayOpen, list, drives[0]>>
    BY <2>1 DEF Disks!TrayOpen
  <2>3. CASE i < Len(list)
    <3>1. Disks!Tray!SetImageIndex(i)
      BY <2>1, <2>2, <2>3 DEF Disks!Answers, Disks!Tray!SetImageIndex, Disks!Tray!Answers
    <3>2. QED  BY <3>1 DEF Disks!Tray!Next
  <2>4. CASE ~(i < Len(list))
    <3>1. list \in Seq(Soft \cup {NoImage}) /\ Len(list) \in Nat
      BY LenProperties DEF DiskInv, ListInv
    <3>2. answer' = [of |-> "set_image_index", ok |-> FALSE] /\ i >= Len(list)
      BY <2>1, <2>4, <3>1 DEF Disks!Answers
    <3>3. Disks!Tray!SetImageIndex(i)
      BY <2>1, <2>2, <2>4, <3>2
         DEF Disks!Tray!SetImageIndex, Disks!Tray!Answers, Disks!TrayLapses
    <3>4. QED  BY <3>3 DEF Disks!Tray!Next
  <2>5. QED  BY <2>3, <2>4
<1>5. CASE Disks!AddImage
  <2>1. UNCHANGED <<loaded, loaded /\ Disks!TrayOpen, index, drives[0]>>
    BY <1>5 DEF Disks!AddImage, Disks!TrayOpen
  <2>2. Disks!Tray!AddImageIndex
    BY <1>5, <2>1 DEF Disks!AddImage, Disks!Running, Disks!Answers,
                      Disks!Tray!AddImageIndex, Disks!Tray!Answers
  <2>3. QED  BY <2>2 DEF Disks!Tray!Next
<1>6. ASSUME NEW i \in 0..MaxList - 1, NEW image \in Floppies \cup {NoImage},
             Disks!ReplaceImage(i, image)
      PROVE  Disks!Tray!Next
  <2>1. /\ loaded /\ Disks!TrayOpen /\ i < Len(list)
        /\ UNCHANGED <<loaded, drives, index>>
        /\ Disks!Answers("replace_image_index", image # NoImage)
        /\ list' = IF image = NoImage THEN list ELSE [list EXCEPT ![i + 1] = image]
    BY <1>6 DEF Disks!ReplaceImage, Disks!Running
  <2>2. UNCHANGED <<loaded, loaded /\ Disks!TrayOpen, index, drives[0]>>
    BY <2>1 DEF Disks!TrayOpen
  <2>3. CASE image = NoImage
    <3>1. answer' = [of |-> "replace_image_index", ok |-> FALSE] /\ list' = list
      BY <2>1, <2>3 DEF Disks!Answers
    <3>2. Disks!Tray!RemoveImageIndex(i)
      BY <2>1, <2>2, <3>1
         DEF Disks!Tray!RemoveImageIndex, Disks!Tray!Answers, Disks!TrayLapses
    <3>3. QED  BY <3>2 DEF Disks!Tray!Next
  <2>4. CASE image # NoImage
    <3>1. /\ answer' = [of |-> "replace_image_index", ok |-> TRUE]
          /\ list' = [list EXCEPT ![i + 1] = image] /\ image \in Floppies
      BY <2>1, <2>4 DEF Disks!Answers
    <3>2. Disks!Tray!ReplaceImageIndex(i, image)
      BY <2>1, <2>2, <3>1 DEF Disks!Tray!ReplaceImageIndex, Disks!Tray!Answers
    <3>3. QED  BY <3>1, <3>2 DEF Disks!Tray!Next
  <2>5. QED  BY <2>3, <2>4
<1>7. ASSUME \/ \E d \in Disks!Drive : Disks!Parameters(d)
             \/ Disks!Transfers \/ UNCHANGED Disks!vars
      PROVE  UNCHANGED TrayVars
  <2>1. CASE \E d \in Disks!Drive : Disks!Parameters(d)
    <3>1. UNCHANGED <<loaded, drives, list, index, answer>>
      BY <2>1 DEF Disks!Parameters
    <3>2. QED  BY <3>1 DEF TrayVars, Disks!TrayOpen
  <2>2. CASE Disks!Transfers
    <3>1. ASSUME NEW d, NEW last, NEW whole, NEW cylinder, NEW head,
                 Disks!Transfer(d, last, cylinder, head, whole)
          PROVE  UNCHANGED <<loaded, drives, list, index, answer>>
      BY <3>1 DEF Disks!Transfer
    <3>2. UNCHANGED <<loaded, drives, list, index, answer>>
      BY <2>2, <3>1 DEF Disks!Transfers
    <3>3. QED  BY <3>2 DEF TrayVars, Disks!TrayOpen
  <2>3. CASE UNCHANGED Disks!vars
    <3>1. UNCHANGED <<loaded, drives, list, index, answer>>
      BY <2>3 DEF Disks!vars
    <3>2. QED  BY <3>1 DEF TrayVars, Disks!TrayOpen
  <2>4. QED  BY <1>7, <2>1, <2>2, <2>3
<1>8. QED
  BY <1>1, <1>2, <1>3, <1>4, <1>5, <1>6, <1>7 DEF Disks!Next

\* The controller and the callbacks of the core implement the tray of libretro.h, but for
\* the four promises that TrayLapses names: over any contents, in any order of the calls,
\* the guest finds the image that was selected when the tray was closed, and nothing but
\* that (core.odin:99-164; libretro.h:5225-5300).
THEOREM TrayIsImplemented == Spec => TraySpec
<1>1. Init => Disks!Tray!Init
  BY TrayInit DEF Init
<1>2. Spec => Disks!Tray!Init /\ [][Disks!Tray!Next]_TrayVars
  BY <1>1, TrayStep, DiskInvHolds, StepOfOne, PTL DEF Spec
<1>3. QED  BY <1>2 DEF TraySpec, Disks!TraySpec, Disks!Tray!Spec, TrayVars
-----------------------------------------------------------------------------
(* The machine core: a fold is a run, and what its construction leaves. *)

LEMMA MaxIs ==
  ASSUME NEW S \in SUBSET Int, NEW x \in S, \A y \in S : y <= x
  PROVE  Core!Max(S) = x
<1>1. \A z \in S : (\A y \in S : z >= y) => z = x
  OBVIOUS
<1>2. QED  BY <1>1 DEF Core!Max

\* The recursion of a fold over the subsets of 1..m.
Recursion(g, m, start, p) ==
  g = [s \in SUBSET (1..m) |->
         IF s = {} THEN start
         ELSE Core!Install(g[s \ {Core!Max(s)}], p[Core!Max(s)])]

LEMMA FoldIs ==
  ASSUME NEW start, NEW p, NEW n, DOMAIN p = 1..n
  PROVE  Core!FoldLeft(Core!Install, start, p)
           = (CHOOSE g : Recursion(g, n, start, p))[1..n]
BY DEF Core!FoldLeft, Core!MapThenFoldSet, Recursion

LEMMA RecursionExists ==
  ASSUME NEW start, NEW p, NEW n \in Nat
  PROVE  \E g : Recursion(g, n, start, p)
<1> DEFINE S == {m \in 0..n : \E g : Recursion(g, m, start, p)}
<1>1. 0 \in S
  <2>1. \A s \in SUBSET (1..0) : s = {}
    OBVIOUS
  <2>2. [s \in SUBSET (1..0) |-> start]
          = [s \in SUBSET (1..0) |->
               IF s = {} THEN start
               ELSE Core!Install([r \in SUBSET (1..0) |-> start][s \ {Core!Max(s)}],
                                 p[Core!Max(s)])]
    BY <2>1
  <2>3. Recursion([s \in SUBSET (1..0) |-> start], 0, start, p)
    BY <2>2 DEF Recursion
  <2>4. QED  BY <2>3
<1>2. ASSUME NEW m \in 0..(n - 1), m \in S PROVE m + 1 \in S
  <2>1. PICK g : Recursion(g, m, start, p)
    BY <1>2
  <2> DEFINE h == [s \in SUBSET (1..m + 1) |->
                     IF m + 1 \in s THEN Core!Install(g[s \ {m + 1}], p[m + 1]) ELSE g[s]]
             To(s) == IF s = {} THEN start
                      ELSE Core!Install(h[s \ {Core!Max(s)}], p[Core!Max(s)])
  <2>2. ASSUME NEW s \in SUBSET (1..m + 1) PROVE h[s] = To(s)
    <3>1. CASE m + 1 \in s
      <4>1. s \in SUBSET Int /\ \A y \in s : y <= m + 1
        OBVIOUS
      <4>2. Core!Max(s) = m + 1
        BY <3>1, <4>1, MaxIs
      <4>3. s \ {m + 1} \in SUBSET (1..m + 1) /\ m + 1 \notin s \ {m + 1}
        OBVIOUS
      <4>4. h[s \ {m + 1}] = g[s \ {m + 1}]
        BY <4>3
      <4>5. QED  BY <3>1, <4>2, <4>4
    <3>2. CASE m + 1 \notin s
      <4>1. s \in SUBSET (1..m)
        BY <3>2
      <4>2. h[s] = g[s]
        BY <3>2
      <4>3. g[s] = IF s = {} THEN start
                   ELSE Core!Install(g[s \ {Core!Max(s)}], p[Core!Max(s)])
        BY <2>1, <4>1 DEF Recursion
      <4>4. s \ {Core!Max(s)} \in SUBSET (1..m + 1) /\ m + 1 \notin s \ {Core!Max(s)}
        BY <3>2
      <4>5. h[s \ {Core!Max(s)}] = g[s \ {Core!Max(s)}]
        BY <4>4
      <4>6. QED  BY <4>2, <4>3, <4>5
    <3>3. QED  BY <3>1, <3>2
  <2>3. h = [s \in SUBSET (1..m + 1) |-> To(s)]
    <3>1. h = [s \in SUBSET (1..m + 1) |-> h[s]]
      OBVIOUS
    <3> HIDE DEF h, To
    <3>2. QED  BY <2>2, <3>1
  <2>4. Recursion(h, m + 1, start, p)
    <3> HIDE DEF h
    <3>1. QED  BY <2>3 DEF Recursion
  <2>5. QED  BY <2>4
<1> HIDE DEF S
<1>3. 0..n \subseteq S
  BY <1>1, <1>2, Climb
<1>4. n \in S
  BY <1>3
<1>5. QED  BY <1>4 DEF S

\* A fold from the left is a run, one element at a time.
LEMMA FoldRuns ==
  ASSUME NEW start, NEW p, NEW n \in Nat, DOMAIN p = 1..n
  PROVE  \E run : /\ run[0] = start
                  /\ \A i \in 1..n : run[i] = Core!Install(run[i - 1], p[i])
                  /\ run[n] = Core!FoldLeft(Core!Install, start, p)
<1> DEFINE g == CHOOSE g : Recursion(g, n, start, p)
           run == [i \in 0..n |-> g[1..i]]
<1>1. Recursion(g, n, start, p)
  BY RecursionExists
<1>2. g[1..n] = Core!FoldLeft(Core!Install, start, p)
  BY FoldIs
<1> HIDE DEF g
<1>3. run[n] = Core!FoldLeft(Core!Install, start, p)
  BY <1>2
<1>4. run[0] = start
  <2>1. 1..0 = {}
    OBVIOUS
  <2>2. g[{}] = start
    BY <1>1 DEF Recursion
  <2>3. QED  BY <2>1, <2>2
<1>5. ASSUME NEW i \in 1..n PROVE run[i] = Core!Install(run[i - 1], p[i])
  <2>1. 1..i \in SUBSET (1..n) /\ 1..i \in SUBSET Int /\ i \in 1..i /\ 1..i # {}
    <3>1. i \in 1..i /\ \A j \in 1..i : j \in 1..n /\ j \in Int
      OBVIOUS
    <3>2. QED  BY <3>1
  <2>2. \A y \in 1..i : y <= i
    OBVIOUS
  <2>3. Core!Max(1..i) = i
    BY <2>1, <2>2, MaxIs
  <2>4. (1..i) \ {i} = 1..(i - 1)
    OBVIOUS
  <2>5. g[1..i] = Core!Install(g[(1..i) \ {Core!Max(1..i)}], p[Core!Max(1..i)])
    BY <1>1, <2>1 DEF Recursion
  <2>6. g[1..i] = Core!Install(g[1..(i - 1)], p[i])
    BY <2>3, <2>4, <2>5
  <2>7. QED  BY <2>6
<1>6. QED
  <2> HIDE DEF run
  <2>1. QED  BY <1>3, <1>4, <1>5
-----------------------------------------------------------------------------
(* What a machine is built of. *)

Peripheral == [mod : Modules \cup {"memory"},
               base : {0} \cup UNION {Bases[m] : m \in Modules}]
MachineTimer == [interval : Nat \cup Settable, ticks : Nat, pidx : Nat]
PlaceNumbers == 0..Cardinality(Modules)

\* Main memory is first, and no module is listed twice.
Listing(p) ==
  /\ p \in Seq(Peripheral) /\ p # <<>> /\ p[1] = Core!MainMemory
  /\ \A i, j \in DOMAIN p : p[i].mod = p[j].mod => i = j

Lists(p, name) == \E i \in DOMAIN p : p[i].mod = name

CoreInv ==
  /\ machine \in {"none", "created", "failed", "running"}
  /\ cpu_frequency \in Frequencies /\ switches \in {"cga", "vga"}
  /\ memory_map \in [Core!Addresses -> PlaceNumbers]
  /\ io_map \in [Ports -> PlaceNumbers] /\ interrupt_controler \in Nat
  /\ machine \in {"created", "running"} => Listing(peripherals)
  /\ machine = "created" /\ Lists(peripherals, "chipset") => switches = "cga"
  /\ timers \in Seq(MachineTimer) /\ DOMAIN owed = DOMAIN timers
  /\ machine # "running" => timers = <<>> /\ owed = <<>>
  /\ Core!CyclesCounted /\ Core!Routed /\ Core!SwitchesTrue

LEMMA SameCardinality ==
  /\ \A S : Core!IsFiniteSet(S) <=> IsFiniteSet(S)
  /\ \A S : Core!Cardinality(S) = Cardinality(S)
BY DEF Core!IsFiniteSet, IsFiniteSet, Core!Cardinality, Cardinality

\* No more are listed than there are modules, and main memory.
LEMMA ListedPlaces ==
  ASSUME Core!MachineAssumption, NEW p, Listing(p)
  PROVE  /\ DOMAIN p = 1..Len(p) /\ Len(p) \in Nat \ {0}
         /\ \A i \in DOMAIN p : p[i] \in Peripheral
         /\ \A i \in DOMAIN p : i - 1 \in PlaceNumbers
<1>1. /\ DOMAIN p = 1..Len(p) /\ Len(p) \in Nat \ {0}
      /\ \A i \in DOMAIN p : p[i] \in Peripheral
  <2>1. p \in Seq(Peripheral) /\ p # <<>>
    BY DEF Listing
  <2>2. DOMAIN p = 1..Len(p) /\ Len(p) \in Nat
    BY <2>1, LenProperties
  <2>3. Len(p) # 0
    BY <2>1, EmptySeq
  <2>4. QED  BY <2>1, <2>2, <2>3, ElementOfSeq
<1>2. IsFiniteSet(Modules) /\ Cardinality(Modules) \in Nat
  BY SameCardinality, FS_CardinalityType DEF Core!MachineAssumption
<1> DEFINE f == [i \in 2..Len(p) |-> p[i].mod]
<1>3. \A i \in 2..Len(p) : p[i].mod \in Modules
  <2> TAKE i \in 2..Len(p)
  <2>1. p[i].mod # "memory"
    <3>1. p[1].mod = "memory" /\ 1 \in DOMAIN p /\ i \in DOMAIN p /\ i # 1
      BY <1>1 DEF Listing, Core!MainMemory
    <3>2. QED  BY <3>1 DEF Listing
  <2>2. p[i] \in Peripheral
    BY <1>1
  <2>3. QED  BY <2>1, <2>2 DEF Peripheral
<1>4. f \in Injection(2..Len(p), Modules)
  <2>1. f \in [2..Len(p) -> Modules]
    BY <1>3
  <2>2. \A i, j \in 2..Len(p) : f[i] = f[j] => i = j
    BY <1>1 DEF Listing
  <2>3. QED  BY <2>1, <2>2 DEF Injection, IsInjective
<1>5. Cardinality(2..Len(p)) <= Cardinality(Modules)
  <2> HIDE DEF f
  <2>1. QED  BY <1>2, <1>4, FS_Injection
<1>6. Cardinality(2..Len(p)) = Len(p) - 1
  BY <1>1, FS_Interval
<1>7. \A i \in DOMAIN p : i - 1 \in PlaceNumbers
  BY <1>1, <1>2, <1>5, <1>6 DEF PlaceNumbers
<1>8. QED  BY <1>1, <1>7
-----------------------------------------------------------------------------
(* Its installation. *)

InstallState ==
  [place : Nat, ok : BOOLEAN, failing : SUBSET Unreliable, timers : Seq(MachineTimer),
   memory_map : [Core!Addresses -> PlaceNumbers], io_map : [Ports -> PlaceNumbers],
   switches : {"cga", "vga"}, interrupt_controler : Nat]

\* The place v is that of the last of the first i modules that claims the address, or
\* the port.
LastOfMemory(p, i, a, v) ==
  /\ v + 1 \in 1..i /\ a \in Core!Claimed(p[v + 1])
  /\ \A j \in 1..i : a \in Core!Claimed(p[j]) => j <= v + 1
LastOfPorts(p, i, a, v) ==
  /\ v + 1 \in 1..i /\ a \in Core!PortsOf(p[v + 1])
  /\ \A j \in 1..i : a \in Core!PortsOf(p[j]) => j <= v + 1

\* The first i modules are installed.
Installed(p, i, s) ==
  /\ s.place = i
  /\ i > 0 => /\ \A a \in Core!Addresses : LastOfMemory(p, i, a, s.memory_map[a])
              /\ \A a \in Ports : LastOfPorts(p, i, a, s.io_map[a])
  /\ (\E j \in 1..i : p[j].mod = "chipset") =>
       /\ s.interrupt_controler + 1 \in 1..i
       /\ p[s.interrupt_controler + 1].mod = "chipset"
  /\ s.switches = IF \E j \in 1..i : p[j].mod = "vga" THEN "vga" ELSE "cga"
  /\ \A id \in DOMAIN s.timers : s.timers[id].ticks = 0

LEMMA TimersOf ==
  ASSUME Core!MachineAssumption, NEW q \in Peripheral, NEW place \in Nat
  PROVE  LET ts == [k \in 1..Len(Intervals[q.mod]) |->
                      [interval |-> Intervals[q.mod][k], ticks |-> 0, pidx |-> place]]
         IN  ts \in Seq(MachineTimer) /\ \A k \in DOMAIN ts : ts[k].ticks = 0
<1> DEFINE ts == [k \in 1..Len(Intervals[q.mod]) |->
                    [interval |-> Intervals[q.mod][k], ticks |-> 0, pidx |-> place]]
<1>1. Intervals[q.mod] \in Seq(Nat)
  BY DEF Core!MachineAssumption, Peripheral
<1>2. Len(Intervals[q.mod]) \in Nat
      /\ \A k \in 1..Len(Intervals[q.mod]) : Intervals[q.mod][k] \in Nat
  BY <1>1, LenProperties, ElementOfSeq
<1>3. \A k \in 1..Len(Intervals[q.mod]) : ts[k] \in MachineTimer /\ ts[k].ticks = 0
  BY <1>2 DEF MachineTimer
<1>4. ts \in Seq(MachineTimer)
  <2> HIDE DEF ts
  <2>1. ts = [k \in 1..Len(Intervals[q.mod]) |-> ts[k]]
    BY DEF ts
  <2>2. ts \in [1..Len(Intervals[q.mod]) -> MachineTimer]
    BY <1>3, <2>1
  <2>3. QED  BY <1>2, <2>2, SeqDef
<1>5. QED  BY <1>3, <1>4

\* One module more.
LEMMA InstallFields ==
  ASSUME Core!MachineAssumption, NEW p, Listing(p), NEW i \in DOMAIN p,
         NEW s \in InstallState, s.ok, s.place = i - 1
  PROVE  LET t == Core!Install(s, p[i])
         IN  /\ t \in InstallState /\ t.failing = s.failing
             /\ t.place = i
             /\ \A a \in Core!Addresses :
                  t.memory_map[a] = IF a \in Core!Claimed(p[i]) THEN i - 1
                                    ELSE s.memory_map[a]
             /\ \A a \in Ports :
                  t.io_map[a] = IF a \in Core!PortsOf(p[i]) THEN i - 1 ELSE s.io_map[a]
             /\ t.interrupt_controler = IF p[i].mod = "chipset" THEN i - 1
                                        ELSE s.interrupt_controler
             /\ t.switches = IF p[i].mod = "vga" THEN "vga" ELSE s.switches
             /\ (\A id \in DOMAIN s.timers : s.timers[id].ticks = 0)
                  => \A id \in DOMAIN t.timers : t.timers[id].ticks = 0
<1> DEFINE q == p[i]
           ts == [k \in 1..Len(Intervals[q.mod]) |->
                    [interval |-> Intervals[q.mod][k], ticks |-> 0, pidx |-> s.place]]
           mm == [a \in Core!Addresses |-> IF a \in Core!Claimed(q) THEN s.place
                                           ELSE s.memory_map[a]]
           io == [a \in Ports |-> IF a \in Core!PortsOf(q) THEN s.place ELSE s.io_map[a]]
           tm == s.timers \o ts
           ic == IF q.mod = "chipset" THEN s.place ELSE s.interrupt_controler
           sw == IF q.mod = "vga" THEN "vga" ELSE s.switches
           ok == q.mod \notin s.failing
           t == Core!Install(s, q)
<1>1. q \in Peripheral /\ i - 1 \in PlaceNumbers /\ i - 1 \in Nat /\ i \in Nat
  BY ListedPlaces
<1>2. ts \in Seq(MachineTimer) /\ \A k \in DOMAIN ts : ts[k].ticks = 0
  BY <1>1, TimersOf
<1>3. /\ s.timers \in Seq(MachineTimer)
      /\ s.memory_map \in [Core!Addresses -> PlaceNumbers]
      /\ s.io_map \in [Ports -> PlaceNumbers] /\ s.failing \in SUBSET Unreliable
      /\ s.switches \in {"cga", "vga"} /\ s.interrupt_controler \in Nat
  BY DEF InstallState
<1>4. mm \in [Core!Addresses -> PlaceNumbers] /\ io \in [Ports -> PlaceNumbers]
  BY <1>1, <1>3
<1>5. tm \in Seq(MachineTimer)
      /\ ((\A id \in DOMAIN s.timers : s.timers[id].ticks = 0)
            => \A id \in DOMAIN tm : tm[id].ticks = 0)
  <2>1. tm \in Seq(MachineTimer)
    BY <1>2, <1>3, ConcatProperties
  <2>2. ASSUME \A id \in DOMAIN s.timers : s.timers[id].ticks = 0, NEW id \in DOMAIN tm
        PROVE  tm[id].ticks = 0
    <3> DEFINE l == Len(s.timers)
    <3> HIDE DEF ts
    <3>1. /\ l \in Nat /\ DOMAIN s.timers = 1..l
          /\ Len(ts) \in Nat /\ DOMAIN ts = 1..Len(ts)
          /\ Len(tm) = l + Len(ts) /\ DOMAIN tm = 1..Len(tm)
      BY <1>2, <1>3, <2>1, LenProperties, ConcatProperties
    <3>2. tm[id] = IF id <= l THEN s.timers[id] ELSE ts[id - l]
      BY <1>2, <1>3, <3>1, ConcatProperties
    <3>3. id <= l => id \in DOMAIN s.timers
      BY <3>1
    <3>4. ~(id <= l) => id - l \in DOMAIN ts
      BY <3>1
    <3>5. QED  BY <1>2, <2>2, <3>2, <3>3, <3>4
  <2>3. QED  BY <2>1, <2>2
<1>6. t = [s EXCEPT !.place = s.place + 1, !.memory_map = mm, !.io_map = io,
                    !.timers = tm, !.interrupt_controler = ic, !.switches = sw, !.ok = ok]
  BY DEF Core!Install, InstallState
<1>7. ic \in Nat /\ sw \in {"cga", "vga"} /\ ok \in BOOLEAN
  BY <1>1, <1>3
<1> HIDE DEF t, mm, io, tm, q, ic, sw, ok
<1>8. /\ t.place = i /\ t.memory_map = mm /\ t.io_map = io /\ t.timers = tm
      /\ t.failing = s.failing /\ t.interrupt_controler = ic /\ t.switches = sw
      /\ t \in InstallState
  <2>1. t = [place |-> s.place + 1, ok |-> ok, failing |-> s.failing, timers |-> tm,
             memory_map |-> mm, io_map |-> io, switches |-> sw,
             interrupt_controler |-> ic]
    BY <1>6 DEF InstallState
  <2>2. s.place + 1 = i
    BY <1>1
  <2>3. tm \in Seq(MachineTimer)
    BY <1>5
  <2>4. QED  BY <1>1, <1>3, <1>4, <1>7, <2>1, <2>2, <2>3 DEF InstallState
<1>9. QED  BY <1>1, <1>4, <1>5, <1>8 DEF q, t, mm, io, ic, sw

\* Main memory is everywhere.
LEMMA MemoryEverywhere ==
  ASSUME Core!MachineAssumption
  PROVE  Core!Claimed(Core!MainMemory) = Core!Addresses
         /\ Core!PortsOf(Core!MainMemory) = Ports
<1>1. Blocks \in Nat /\ Blocks > 0
  BY DEF Core!MachineAssumption
<1>2. (0 + Blocks - 1) % Blocks = Blocks - 1
  BY <1>1
<1>3. QED
  BY <1>1, <1>2
     DEF Core!Claimed, Core!SizeOf, Core!MainMemory, Core!Addresses, Core!PortsOf

LEMMA InstallStep ==
  ASSUME Core!MachineAssumption, NEW p, Listing(p), NEW i \in DOMAIN p,
         NEW s \in InstallState, s.ok, Installed(p, i - 1, s)
  PROVE  LET t == Core!Install(s, p[i]) IN t \in InstallState /\ Installed(p, i, t)
<1> DEFINE t == Core!Install(s, p[i])
<1>1. /\ t \in InstallState
      /\ t.place = i
      /\ \A a \in Core!Addresses :
           t.memory_map[a] = IF a \in Core!Claimed(p[i]) THEN i - 1
                             ELSE s.memory_map[a]
      /\ \A a \in Ports :
           t.io_map[a] = IF a \in Core!PortsOf(p[i]) THEN i - 1 ELSE s.io_map[a]
      /\ t.interrupt_controler = IF p[i].mod = "chipset" THEN i - 1
                                 ELSE s.interrupt_controler
      /\ t.switches = IF p[i].mod = "vga" THEN "vga" ELSE s.switches
      /\ (\A id \in DOMAIN s.timers : s.timers[id].ticks = 0)
           => \A id \in DOMAIN t.timers : t.timers[id].ticks = 0
  BY InstallFields DEF Installed
<1> HIDE DEF t
<1>2. /\ i \in Nat /\ i >= 1 /\ \A j \in 1..i : j = i \/ j \in 1..(i - 1)
      /\ \A j \in 1..(i - 1) : j \in 1..i /\ j # i
      /\ i \in 1..i /\ i - 1 + 1 = i
  BY ListedPlaces
<1>3. i = 1 => p[i] = Core!MainMemory
  BY DEF Listing
<1>4. ASSUME NEW a \in Core!Addresses PROVE LastOfMemory(p, i, a, t.memory_map[a])
  <2>1. CASE a \in Core!Claimed(p[i])
    BY <1>1, <1>2, <2>1 DEF LastOfMemory
  <2>2. CASE a \notin Core!Claimed(p[i])
    <3>1. i # 1
      BY <1>3, <2>2, MemoryEverywhere
    <3>2. LastOfMemory(p, i - 1, a, s.memory_map[a])
      BY <1>2, <3>1 DEF Installed
    <3>3. t.memory_map[a] = s.memory_map[a]
      BY <1>1, <2>2
    <3>4. QED  BY <1>2, <2>2, <3>2, <3>3 DEF LastOfMemory
  <2>3. QED  BY <2>1, <2>2
<1>5. ASSUME NEW a \in Ports PROVE LastOfPorts(p, i, a, t.io_map[a])
  <2>1. CASE a \in Core!PortsOf(p[i])
    BY <1>1, <1>2, <2>1 DEF LastOfPorts
  <2>2. CASE a \notin Core!PortsOf(p[i])
    <3>1. i # 1
      BY <1>3, <2>2, MemoryEverywhere
    <3>2. LastOfPorts(p, i - 1, a, s.io_map[a])
      BY <1>2, <3>1 DEF Installed
    <3>3. t.io_map[a] = s.io_map[a]
      BY <1>1, <2>2
    <3>4. QED  BY <1>2, <2>2, <3>2, <3>3 DEF LastOfPorts
  <2>3. QED  BY <2>1, <2>2
<1>6. (\E j \in 1..i : p[j].mod = "chipset")
        => t.interrupt_controler + 1 \in 1..i
           /\ p[t.interrupt_controler + 1].mod = "chipset"
  <2>1. CASE p[i].mod = "chipset"
    BY <1>1, <1>2, <2>1
  <2>2. CASE p[i].mod # "chipset"
    <3>1. t.interrupt_controler = s.interrupt_controler
      BY <1>1, <2>2
    <3>2. QED  BY <1>2, <2>2, <3>1 DEF Installed
  <2>3. QED  BY <2>1, <2>2
<1>7. t.switches = IF \E j \in 1..i : p[j].mod = "vga" THEN "vga" ELSE "cga"
  <2>1. CASE p[i].mod = "vga"
    BY <1>1, <1>2, <2>1
  <2>2. CASE p[i].mod # "vga"
    BY <1>1, <1>2, <2>2 DEF Installed
  <2>3. QED  BY <2>1, <2>2
<1>8. Installed(p, i, t)
  BY <1>1, <1>4, <1>5, <1>6, <1>7 DEF Installed
<1>9. QED  BY <1>1, <1>8 DEF t

\* What is left when the modules have been installed, or one of them was not.
LEMMA InstallAll ==
  ASSUME Core!MachineAssumption, NEW p, Listing(p), NEW start \in InstallState,
         Installed(p, 0, start)
  PROVE  LET s == Core!FoldLeft(Core!Install, start, p)
         IN  s \in InstallState /\ (s.ok => Installed(p, Len(p), s))
<1> DEFINE n == Len(p)
<1>1. n \in Nat /\ DOMAIN p = 1..n
  BY ListedPlaces
<1>2. PICK run : /\ run[0] = start
                 /\ \A i \in 1..n : run[i] = Core!Install(run[i - 1], p[i])
                 /\ run[n] = Core!FoldLeft(Core!Install, start, p)
  BY <1>1, FoldRuns
<1> DEFINE S == {m \in 0..n : /\ run[m] \in InstallState
                              /\ run[m].ok => Installed(p, m, run[m])}
<1>3. 0 \in S
  BY <1>1, <1>2
<1>4. ASSUME NEW m \in 0..(n - 1), m \in S PROVE m + 1 \in S
  <2>1. m + 1 \in 1..n /\ m + 1 \in 0..n /\ (m + 1) - 1 = m
    BY <1>1
  <2>2. run[m + 1] = Core!Install(run[m], p[m + 1])
    BY <1>2, <2>1
  <2>3. run[m] \in InstallState /\ (run[m].ok => Installed(p, m, run[m]))
    BY <1>4
  <2>4. CASE run[m].ok
    <3>1. Installed(p, (m + 1) - 1, run[m])
      BY <2>1, <2>3, <2>4
    <3>2. run[m + 1] \in InstallState /\ Installed(p, m + 1, run[m + 1])
      BY <1>1, <2>1, <2>2, <2>3, <2>4, <3>1, InstallStep
    <3>3. QED  BY <2>1, <3>2
  <2>5. CASE ~run[m].ok
    <3>1. run[m + 1] = run[m]
      BY <2>2, <2>5 DEF Core!Install
    <3>2. QED  BY <2>1, <2>3, <2>5, <3>1
  <2>6. QED  BY <2>4, <2>5
<1> HIDE DEF S
<1>5. n \in S
  <2>1. 0..n \subseteq S
    BY <1>1, <1>3, <1>4, Climb
  <2>2. QED  BY <1>1, <2>1
<1>6. run[n] \in InstallState /\ (run[n].ok => Installed(p, n, run[n]))
  BY <1>5 DEF S
<1>7. QED  BY <1>2, <1>6

LEMMA CoreInvInit == ASSUME Core!MachineAssumption, Core!Init PROVE CoreInv
<1>1. Cardinality(Modules) \in Nat
  BY SameCardinality, FS_CardinalityType DEF Core!MachineAssumption
<1>2. 0 \in PlaceNumbers
  BY <1>1 DEF PlaceNumbers
<1>3. <<>> \in Seq(MachineTimer)
  BY EmptySeq
<1>4. QED
  BY <1>2, <1>3 DEF Core!Init, CoreInv, Core!CyclesCounted, Core!Routed, Core!SwitchesTrue

LEMMA InitializeKeeps ==
  ASSUME Core!MachineAssumption, CoreInv, NEW failing \in SUBSET Unreliable,
         Core!Initialize(failing)
  PROVE  CoreInv'
<1> DEFINE start == [place |-> 0, ok |-> TRUE, failing |-> failing, timers |-> timers,
                     memory_map |-> memory_map, io_map |-> io_map,
                     switches |-> switches, interrupt_controler |-> interrupt_controler]
           s == Core!FoldLeft(Core!Install, start, peripherals)
<1>1. machine = "created" /\ Listing(peripherals) /\ Lists(peripherals, "chipset")
  BY DEF Core!Initialize, CoreInv, Lists
<1>2. timers = <<>> /\ switches = "cga" /\ timers \in Seq(MachineTimer)
  BY <1>1 DEF CoreInv
<1>3. start \in InstallState /\ Installed(peripherals, 0, start)
  BY <1>2 DEF CoreInv, InstallState, Installed
<1>4. /\ machine' = IF s.ok THEN "running" ELSE "failed"
      /\ memory_map' = s.memory_map /\ io_map' = s.io_map
      /\ interrupt_controler' = s.interrupt_controler
      /\ switches' = s.switches
      /\ s.ok => /\ timers' = s.timers /\ owed' = [id \in DOMAIN s.timers |-> 0]
                 /\ peripherals' = peripherals
      /\ ~s.ok => Core!Forgotten
      /\ cpu_frequency' = cpu_frequency
  BY DEF Core!Initialize, Core!SwitchesAfterReset
<1> HIDE DEF start
<1>5. s \in InstallState /\ (s.ok => Installed(peripherals, Len(peripherals), s))
  BY <1>1, <1>3, InstallAll
<1> HIDE DEF s
<1>6. /\ memory_map' \in [Core!Addresses -> PlaceNumbers]
      /\ io_map' \in [Ports -> PlaceNumbers]
      /\ interrupt_controler' \in Nat /\ switches' \in {"cga", "vga"}
      /\ s.timers \in Seq(MachineTimer) /\ s.ok \in BOOLEAN
  BY <1>4, <1>5 DEF InstallState
<1>7. CASE ~s.ok
  <2>1. timers' = <<>> /\ owed' = <<>> /\ machine' = "failed"
    BY <1>4, <1>7 DEF Core!Forgotten
  <2>2. timers' \in Seq(MachineTimer)
    BY <2>1, EmptySeq
  <2>3. QED
    BY <1>4, <1>6, <2>1, <2>2
       DEF CoreInv, Core!CyclesCounted, Core!Routed, Core!SwitchesTrue
<1>8. CASE s.ok
  <2> DEFINE p == peripherals
             n == Len(p)
  <2>1. /\ machine' = "running" /\ peripherals' = p /\ timers' = s.timers
        /\ owed' = [id \in DOMAIN s.timers |-> 0]
    BY <1>4, <1>8
  <2>2. Installed(p, n, s)
    BY <1>5, <1>8
  <2>3. DOMAIN p = 1..n /\ n \in Nat /\ n > 0
    BY <1>1, ListedPlaces
  <2>4. Core!CyclesCounted'
    BY <2>1, <2>2 DEF Installed, Core!CyclesCounted
  <2>5. Core!SwitchesTrue'
    BY <1>4, <2>1, <2>2, <2>3 DEF Installed, Core!SwitchesTrue
  <2>6. Core!Routed'
    <3>1. ASSUME NEW a \in Core!Addresses
          PROVE  LET claims == {i \in DOMAIN p : a \in Core!Claimed(p[i])}
                 IN  claims # {} /\ memory_map'[a] = Core!Max(claims) - 1
      <4> DEFINE claims == {i \in DOMAIN p : a \in Core!Claimed(p[i])}
                 v == memory_map'[a]
      <4>1. LastOfMemory(p, n, a, v)
        BY <1>4, <2>2, <2>3 DEF Installed
      <4>2. v \in Int
        BY <1>6 DEF PlaceNumbers
      <4> HIDE DEF v
      <4>3. claims \in SUBSET Int /\ v + 1 \in claims /\ \A j \in claims : j <= v + 1
        BY <2>3, <4>1 DEF LastOfMemory
      <4> HIDE DEF claims
      <4>4. Core!Max(claims) = v + 1
        BY <4>3, MaxIs
      <4>5. claims # {} /\ v = Core!Max(claims) - 1
        BY <4>2, <4>3, <4>4
      <4>6. QED  BY <4>5 DEF claims, v
    <3>2. ASSUME NEW a \in Ports
          PROVE  LET claims == {i \in DOMAIN p : a \in Core!PortsOf(p[i])}
                 IN  claims # {} /\ io_map'[a] = Core!Max(claims) - 1
      <4> DEFINE claims == {i \in DOMAIN p : a \in Core!PortsOf(p[i])}
                 v == io_map'[a]
      <4>1. LastOfPorts(p, n, a, v)
        BY <1>4, <2>2, <2>3 DEF Installed
      <4>2. v \in Int
        BY <1>6 DEF PlaceNumbers
      <4> HIDE DEF v
      <4>3. claims \in SUBSET Int /\ v + 1 \in claims /\ \A j \in claims : j <= v + 1
        BY <2>3, <4>1 DEF LastOfPorts
      <4> HIDE DEF claims
      <4>4. Core!Max(claims) = v + 1
        BY <4>3, MaxIs
      <4>5. claims # {} /\ v = Core!Max(claims) - 1
        BY <4>2, <4>3, <4>4
      <4>6. QED  BY <4>5 DEF claims, v
    <3>3. p[interrupt_controler' + 1].mod = "chipset"
      BY <1>1, <1>4, <2>2, <2>3 DEF Installed, Lists
    <3>4. QED  BY <2>1, <3>1, <3>2, <3>3 DEF Core!Routed
  <2>7. DOMAIN owed' = DOMAIN timers'
    BY <2>1
  <2>8. cpu_frequency' \in Frequencies
    BY <1>4 DEF CoreInv
  <2>9. QED  BY <1>1, <1>6, <2>1, <2>4, <2>5, <2>6, <2>7, <2>8 DEF CoreInv
<1>9. QED  BY <1>7, <1>8

LEMMA ListOneMore ==
  ASSUME Core!MachineAssumption, NEW p, Listing(p), NEW m \in Modules,
         NEW base \in Bases[m], \A i \in DOMAIN p : p[i].mod # m
  PROVE  LET r == Append(p, [mod |-> m, base |-> base])
         IN  Listing(r) /\ \A name : Lists(r, name) <=> (Lists(p, name) \/ name = m)
<1> DEFINE e == [mod |-> m, base |-> base]
           r == Append(p, e)
<1>1. e \in Peripheral /\ e.mod = m
  BY DEF Peripheral
<1>2. DOMAIN p = 1..Len(p) /\ Len(p) \in Nat \ {0} /\ p \in Seq(Peripheral)
  BY ListedPlaces DEF Listing
<1> HIDE DEF e
<1>3. /\ r \in Seq(Peripheral) /\ Len(r) = Len(p) + 1 /\ r[Len(p) + 1] = e
      /\ \A i \in 1..Len(p) : r[i] = p[i]
      /\ DOMAIN r = 1..(Len(p) + 1)
  BY <1>1, <1>2, AppendProperties, LenProperties
<1> HIDE DEF r
<1>4. \A i \in DOMAIN r : i \in DOMAIN p \/ i = Len(p) + 1
  BY <1>2, <1>3
<1>5. /\ r # <<>> /\ r[1] = Core!MainMemory
  BY <1>2, <1>3, EmptySeq DEF Listing
<1>6. \A i, j \in DOMAIN r : r[i].mod = r[j].mod => i = j
  BY <1>1, <1>2, <1>3, <1>4 DEF Listing
<1>7. \A name : Lists(r, name) <=> (Lists(p, name) \/ name = m)
  BY <1>1, <1>2, <1>3, <1>4 DEF Lists
<1>8. QED  BY <1>3, <1>5, <1>6, <1>7 DEF Listing, r, e

LEMMA CoreInvStep ==
  ASSUME Core!MachineAssumption, CoreInv, [Core!Next]_(Core!vars) PROVE CoreInv'
<1>0. <<>> \in Seq(MachineTimer)
  BY EmptySeq
<1>1. CASE UNCHANGED Core!vars
  BY <1>1 DEF Core!vars, CoreInv, Core!CyclesCounted, Core!Routed, Core!SwitchesTrue
<1>2. CASE Core!Create
  <2>1. Core!MainMemory \in Peripheral
    BY DEF Core!MainMemory, Peripheral
  <2>2. Listing(<<Core!MainMemory>>) /\ ~Lists(<<Core!MainMemory>>, "chipset")
    BY <2>1 DEF Listing, Lists, Core!MainMemory
  <2>3. QED
    BY <1>0, <1>2, <2>2
       DEF Core!Create, CoreInv, Core!CyclesCounted, Core!Routed, Core!SwitchesTrue
<1>3. CASE Core!Refuse
  BY <1>0, <1>3
     DEF Core!Refuse, Core!Forgotten, CoreInv, Core!CyclesCounted, Core!Routed,
         Core!SwitchesTrue
<1>4. CASE Core!Destroy
  BY <1>0, <1>4
     DEF Core!Destroy, Core!Forgotten, CoreInv, Core!CyclesCounted, Core!Routed,
         Core!SwitchesTrue
<1>5. ASSUME NEW m \in Modules, NEW base \in Bases[m], Core!Instantiate(m, base)
      PROVE  CoreInv'
  <2>1. machine = "created" /\ Listing(peripherals) /\ machine' = "created"
    BY <1>5 DEF Core!Instantiate, CoreInv
  <2>2. /\ Listing(peripherals')
        /\ Lists(peripherals', "chipset")
             <=> (Lists(peripherals, "chipset") \/ "chipset" = m)
    BY <1>5, <2>1, ListOneMore DEF Core!Instantiate
  <2>3. /\ switches' = IF m = "chipset" THEN "cga" ELSE switches
        /\ UNCHANGED <<timers, memory_map, io_map, interrupt_controler, cpu_frequency,
                       owed>>
    BY <1>5 DEF Core!Instantiate
  <2>4. QED
    BY <2>1, <2>2, <2>3
       DEF CoreInv, Core!CyclesCounted, Core!Routed, Core!SwitchesTrue
<1>6. ASSUME NEW failing \in SUBSET Unreliable, Core!Initialize(failing) PROVE CoreInv'
  BY <1>6, InitializeKeeps
<1>7. ASSUME NEW frequency \in Frequencies, Core!Configure(frequency) PROVE CoreInv'
  BY <1>7 DEF Core!Configure, CoreInv, Core!CyclesCounted, Core!Routed, Core!SwitchesTrue
<1>8. ASSUME NEW frequency \in Frequencies, Core!Reset(frequency) PROVE CoreInv'
  BY <1>8
     DEF Core!Reset, Core!SwitchesAfterReset, CoreInv, Core!CyclesCounted, Core!Routed,
         Core!SwitchesTrue
<1>9. timers \in Seq(MachineTimer) /\ DOMAIN owed = DOMAIN timers /\ Len(timers) \in Nat
      /\ DOMAIN timers = 1..Len(timers)
      /\ \A id \in DOMAIN timers : timers[id] \in MachineTimer
  BY LenProperties, ElementOfSeq DEF CoreInv
<1>10. ASSUME NEW id \in DOMAIN timers, NEW interval \in Settable,
              Core!SetTimerInterval(id, interval)
       PROVE  CoreInv'
  <2> DEFINE t == [timers[id] EXCEPT !.interval = interval]
  <2>1. timers' = [timers EXCEPT ![id] = t]
    BY <1>10 DEF Core!SetTimerInterval
  <2>2. t \in MachineTimer /\ t.ticks = timers[id].ticks
    BY <1>9 DEF MachineTimer
  <2> HIDE DEF t
  <2>3. timers' \in Seq(MachineTimer) /\ DOMAIN timers' = DOMAIN timers
    BY <1>9, <2>1, <2>2, ExceptSeq
  <2>4. \A k \in DOMAIN timers : timers'[k].ticks = timers[k].ticks
    BY <2>1, <2>2
  <2>5. machine = "running" /\ UNCHANGED <<machine, peripherals, memory_map, io_map,
                                 interrupt_controler, cpu_frequency, switches, owed>>
    BY <1>10 DEF Core!SetTimerInterval
  <2>6. Core!CyclesCounted'
    BY <2>3, <2>4, <2>5 DEF CoreInv, Core!CyclesCounted
  <2>7. QED  BY <1>9, <2>3, <2>5, <2>6 DEF CoreInv, Core!Routed, Core!SwitchesTrue
<1>11. ASSUME NEW n \in Cycles, Core!Step(n) PROVE CoreInv'
  <2>1. n \in Nat
    BY DEF Core!MachineAssumption
  <2> DEFINE T(id) == [timers[id] EXCEPT !.ticks = Core!Ticks(timers[id], n)]
  <2>2. /\ timers' = [id \in DOMAIN timers |-> T(id)]
        /\ owed' = [id \in DOMAIN timers |-> owed[id] + n - Core!Told(timers[id], n)]
        /\ machine = "running" /\ UNCHANGED <<machine, peripherals, memory_map, io_map,
                                    interrupt_controler, cpu_frequency, switches>>
    BY <1>11 DEF Core!Step
  <2>3. ASSUME NEW id \in DOMAIN timers
        PROVE  /\ T(id) \in MachineTimer
               /\ T(id).ticks = Core!Ticks(timers[id], n)
               /\ timers[id].ticks + n - Core!Told(timers[id], n) = T(id).ticks
    <3>1. timers[id] \in MachineTimer /\ timers[id].ticks \in Nat
      BY <1>9 DEF MachineTimer
    <3> DEFINE k == Core!Ticks(timers[id], n)
    <3>2. k \in Nat /\ timers[id].ticks + n - Core!Told(timers[id], n) = k
      BY <2>1, <3>1 DEF Core!Ticks, Core!Told
    <3>3. T(id) = [timers[id] EXCEPT !.ticks = k]
      OBVIOUS
    <3> HIDE DEF k, T
    <3>4. T(id) \in MachineTimer /\ T(id).ticks = k
      BY <3>1, <3>2, <3>3 DEF MachineTimer
    <3>5. QED  BY <3>2, <3>4 DEF k
  <2>4. timers' \in Seq(MachineTimer) /\ DOMAIN timers' = DOMAIN timers
    <3>1. timers' \in [1..Len(timers) -> MachineTimer]
      BY <1>9, <2>2, <2>3
    <3>2. QED  BY <1>9, <3>1, SeqDef
  <2>5. Core!CyclesCounted'
    <3>1. \A id \in DOMAIN timers : owed[id] = timers[id].ticks
      BY <2>2 DEF CoreInv, Core!CyclesCounted
    <3>2. \A id \in DOMAIN timers : owed'[id] = timers'[id].ticks
      BY <2>2, <2>3, <3>1
    <3>3. DOMAIN timers' = DOMAIN timers
      BY <2>2
    <3>4. QED  BY <3>2, <3>3 DEF Core!CyclesCounted
  <2>6. DOMAIN owed' = DOMAIN timers'
    BY <2>2
  <2>7. QED  BY <2>2, <2>4, <2>5, <2>6 DEF CoreInv, Core!Routed, Core!SwitchesTrue
<1>12. QED
  BY <1>1, <1>2, <1>3, <1>4, <1>5, <1>6, <1>7, <1>8, <1>10, <1>11 DEF Core!Next

LEMMA CoreInvHolds == Spec => []CoreInv
<1>1. Core!MachineAssumption
  BY PartsAssumption
<1>2. Init => CoreInv
  BY <1>1, CoreInvInit DEF Init
<1>3. CoreInv /\ [Core!Next]_(Core!vars) => CoreInv'
  BY <1>1, CoreInvStep
<1>4. QED  BY <1>2, <1>3, StepOfOne, PTL DEF Spec

\* A read, a write or a port reaches the module listed last of those that claim its
\* address, the processor reaches the interrupt controller, the switches tell of the video
\* adapter that is there, and no timer loses a cycle (machine.odin: the memory and the io
\* map, initialize and step).
THEOREM BusIsInOrder == Spec => []BusInOrder
<1>1. CoreInv => BusInOrder
  BY DEF CoreInv, BusInOrder
<1>2. QED  BY <1>1, CoreInvHolds, PTL
-----------------------------------------------------------------------------
(* The types of all parts. *)

CutsTyped == short \in BOOLEAN /\ refused \in BOOLEAN

LEMMA CutsStep ==
  ASSUME CutsTyped, [Disks!Next]_Disks!vars PROVE CutsTyped'
<1>1. CASE Disks!Transfers
  <2>1. PICK d \in Disks!Mounted : \E last \in told[d] : \E whole \in BOOLEAN :
          \E cylinder \in {0, Disks!Cylinder(last)} : \E head \in {0, last.dh} :
            Disks!Transfer(d, last, cylinder, head, whole)
    BY <1>1 DEF Disks!Transfers
  <2>2. PICK last \in told[d], whole \in BOOLEAN : \E cylinder, head :
            Disks!Transfer(d, last, cylinder, head, whole)
    BY <2>1
  <2>3. PICK cylinder, head : Disks!Transfer(d, last, cylinder, head, whole)
    BY <2>2
  <2> DEFINE track == [ch |-> cylinder % 256, dh |-> head,
                       cl |-> (cylinder \div 256) * 64
                              + (IF whole THEN 1 ELSE Disks!FirstSector(last))]
             number == IF whole THEN Disks!FirstSector(last) ELSE 1
             cut == Disks!Transferred(drives[d], track, number) < number
  <2>4. /\ short' = (short \/ (cut /\ ~Unheard(drives[d], track)))
        /\ refused' = (refused \/ (cut /\ Unheard(drives[d], track)))
    BY <2>3 DEF Disks!Transfer, Unheard
  <2> HIDE DEF cut
  <2>5. QED  BY <2>4 DEF CutsTyped
<1>2. CASE UNCHANGED Disks!vars
  BY <1>2 DEF Disks!vars, CutsTyped
<1>3. ASSUME Disks!Next, ~Disks!Transfers PROVE CutsTyped'
  <2>1. UNCHANGED <<short, refused>>
    BY <1>3 DEF Disks!Next, Disks!Load, Disks!Unload, Disks!SetEjectState,
                Disks!SetIndex, Disks!AddImage, Disks!ReplaceImage, Disks!Parameters
  <2>2. QED  BY <2>1 DEF CutsTyped
<1>4. QED  BY <1>1, <1>2, <1>3

LEMMA DiskTyped == ASSUME DiskInv, CutsTyped PROVE Disks!TypeOK
<1>1. /\ drives \in [Disks!Drive -> Images \cup {NoImage}]
      /\ counts.fd \in 0..2 /\ counts.hd \in 0..2 /\ open \in 0..4 /\ asserted = FALSE
  <2>1. /\ drives \in [Disks!Drive -> Images \cup {NoImage}]
        /\ counts.fd = IF drives[0] = NoImage THEN 0 ELSE 1
        /\ counts.hd = IF drives[128] = NoImage THEN 0 ELSE 1
        /\ open = counts.fd + counts.hd /\ ~asserted
    BY DEF DiskInv, DrivesInv, InOrder
  <2>2. counts.fd \in {0, 1} /\ counts.hd \in {0, 1}
    BY <2>1
  <2>3. asserted = FALSE
    BY <2>1
  <2>4. QED  BY <2>1, <2>2, <2>3
<1>2. list \in Seq(Images \cup {NoImage}) /\ Len(list) \in Nat
  <2>1. list \in Seq(Soft \cup {NoImage}) /\ Soft \subseteq Images
    BY DEF DiskInv, ListInv, Soft
  <2>2. QED  BY <2>1
<1>3. index \in 0..Disks!Max({0, Len(list) - 1})
  <2> DEFINE n == Len(list)
  <2>1. n \in Nat /\ index \in Nat /\ (index < n \/ index = 0)
    BY <1>2 DEF DiskInv, ListInv
  <2> HIDE DEF n
  <2>2. CASE n = 0
    <3>1. \A x \in {0, n - 1} : (\A y \in {0, n - 1} : x >= y) <=> x = 0
      BY <2>2
    <3>2. Disks!Max({0, n - 1}) = 0
      BY <3>1 DEF Disks!Max
    <3>3. QED  BY <2>1, <2>2, <3>2 DEF n
  <2>3. CASE n # 0
    <3>1. \A x \in {0, n - 1} : (\A y \in {0, n - 1} : x >= y) <=> x = n - 1
      BY <2>1, <2>3
    <3>2. Disks!Max({0, n - 1}) = n - 1
      BY <3>1 DEF Disks!Max
    <3>3. QED  BY <2>1, <2>3, <3>2 DEF n
  <2>4. QED  BY <2>2, <2>3
<1>4. /\ loaded \in BOOLEAN /\ seek \in {"position", "zero"}
      /\ answer \in [of : Disks!Calls, ok : BOOLEAN]
  BY DEF DiskInv, DiskAnswer
<1>5. {asserted, short, refused} \subseteq BOOLEAN
  BY <1>1 DEF CutsTyped
<1>6. QED  BY <1>1, <1>2, <1>3, <1>4, <1>5 DEF Disks!TypeOK

\* The type invariants of all parts hold: every variable keeps to what the code declares
\* it to be, and the counters and indices to the tables they count and index.
THEOREM PartsTyped == Spec => []TypeOK
<1>1. Spec => [](Screen!TypeOK /\ Vga!TypeOK)
  <2>1. Init => CgaInv /\ VgaInv
    BY CgaInvInit, VgaInvInit DEF Init
  <2>2. Spec => [](CgaInv /\ VgaInv)
    BY <2>1, CgaInvStep, VgaInvStep, StepOfOne, PTL DEF Spec
  <2>3. CgaInv /\ VgaInv => Screen!TypeOK /\ Vga!TypeOK
    BY DEF CgaInv, VgaInv
  <2>4. QED  BY <2>2, <2>3, PTL
<1>2. Spec => [](Kbd!TypeOK /\ Timer!TypeOK /\ Clock!TypeOK /\ Mice!TypeOK)
  <2>1. KeyboardInv /\ TimerInv /\ ClockInv
          => Kbd!TypeOK /\ Timer!TypeOK /\ Clock!TypeOK
    BY DEF KeyboardInv, TimerInv, ClockInv
  <2>2. MouseInv => Mice!TypeOK
    <3>1. Mice!PicState = PicState
      BY MiceOperators
    <3>2. QED  BY <3>1, Zenon DEF MouseInv, Mice!TypeOK
  <2>3. QED
    BY <2>1, <2>2, KeyboardInvHolds, TimerInvHolds, ClockInvHolds, MouseInvHolds, PTL
<1>3. Spec => []Disks!TypeOK
  <2>1. Init => CutsTyped
    BY DEF Init, Disks!Init, CutsTyped
  <2>2. CutsTyped /\ [Next]_vars => CutsTyped'
    BY CutsStep, StepOfOne
  <2>3. Spec => []CutsTyped
    BY <2>1, <2>2, PTL DEF Spec
  <2>4. DiskInv /\ CutsTyped => Disks!TypeOK
    BY DiskTyped
  <2>5. QED  BY <2>3, <2>4, DiskInvHolds, PTL
<1>4. Spec => []Core!TypeOK
  <2>1. CoreInv => Core!TypeOK
    <3> SUFFICES ASSUME CoreInv PROVE Core!TypeOK
      OBVIOUS
    <3>1. Core!Cardinality(Modules) = Cardinality(Modules)
      BY SameCardinality
    <3>2. /\ \A a \in Core!Addresses : memory_map[a] \in PlaceNumbers
          /\ \A a \in Ports : io_map[a] \in PlaceNumbers
      BY DEF CoreInv
    <3>3. PlaceNumbers = 0..Core!Cardinality(Modules)
      BY <3>1 DEF PlaceNumbers
    <3>4. QED  BY <3>2, <3>3, Zenon DEF CoreInv, Core!TypeOK
  <2>2. QED  BY <2>1, CoreInvHolds, PTL
<1>5. Spec => []Debugger!TypeOK
  <2>1. Debugger!DataAssumption
    BY PartsAssumption
  <2>2. Init => Debugger!TypeOK
    BY <2>1, DebuggerTypedInit DEF Init
  <2>3. Debugger!TypeOK /\ [Next]_vars => Debugger!TypeOK'
    BY <2>1, DebuggerTypedStep, StepOfOne
  <2>4. QED  BY <2>2, <2>3, PTL DEF Spec
<1>6. Spec => []WideTypeOK
  <2>1. Spec => WideSpec
    BY StepOfOne, PTL DEF Spec, Init, WideSpec
  <2>2. WideAssumption
    BY PartsAssumption
  <2>3. WideSpec => []WideTypeOK
    BY <2>2, WideTyped
  <2>4. QED  BY <2>1, <2>3, PTL
<1> DEFINE All == /\ Controller!TypeOK /\ Kbd!TypeOK /\ Timer!TypeOK /\ Clock!TypeOK
                  /\ Mice!TypeOK /\ Disks!TypeOK /\ Core!TypeOK /\ Screen!TypeOK
                  /\ Vga!TypeOK /\ Planar!TypeOK /\ Debugger!TypeOK /\ WideTypeOK
<1>7. All => TypeOK
  BY Zenon DEF TypeOK
<1>8. Spec => []All
  BY PicTyped, PlanesTyped, <1>1, <1>2, <1>3, <1>4, <1>5, <1>6, PTL
<1>9. QED  BY <1>7, <1>8, PTL
=============================================================================
