------------------------------- MODULE PicOps -------------------------------
(***************************************************************************)
(* The interrupt controller of src/modules/chipset/pic.odin as operators   *)
(* on a record with the fields of its struct.  A byte is the set of the    *)
(* numbers of its bits that are one, so a test of a bit is membership and  *)
(* a register with one bit per interrupt line is the set of those lines.   *)
(***************************************************************************)
EXTENDS Integers, FiniteSetsExt

Bit  == 0..7
Byte == SUBSET Bit

PicState ==
  [mask : Byte, request : Byte, service : Byte,   \* mask_reg, request_reg, service_reg
   step : 0..5,                                   \* icw_step
   readService : BOOLEAN,                         \* read_mode # 0
   icw : [0..4 -> Byte]]

\* The zeroed struct that the reset callback assigns.
PicReset == [mask |-> {}, request |-> {}, service |-> {}, step |-> 0,
             readService |-> FALSE, icw |-> [k \in 0..4 |-> {}]]

\* An interrupt command word of port 0x20 is told apart by bit 4.
IsIcw1(data) == 4 \in data
\* (data & 0x98) == 8 and data & 2
SelectsRead(data) == data \cap {3, 4, 7} = {3} /\ 1 \in data
IsEoi(data) == 5 \in data

\* Mutant: the scan starts at bit 7.
EndOfInterrupt_HighestBit(p) ==
  IF p.service = {} THEN p
  ELSE [p EXCEPT !.service = @ \ {Max(p.service)}]

\* The scan from bit 0 stops at the first one: a non-specific end of interrupt.
EndOfInterrupt(p) ==
  IF p.service = {} THEN p
  ELSE [p EXCEPT !.service = @ \ {Min(p.service)}]

\* Mutant: an ICW1 that drops pending requests.
PicCommand_DropsRequests(p, data) ==
  IF IsIcw1(data)
  THEN [p EXCEPT !.mask = {}, !.request = {}, !.step = 2, !.icw[1] = data]
  ELSE IF IsEoi(data) THEN EndOfInterrupt(p) ELSE p

\* Port 0x20.  An ICW1 leaves request and service registers as they are.
PicCommand(p, data) ==
  IF IsIcw1(data)
  THEN [p EXCEPT !.mask = {}, !.step = 2, !.icw[1] = data]
  ELSE LET q == IF SelectsRead(data) THEN [p EXCEPT !.readService = TRUE] ELSE p
       IN  IF IsEoi(data) THEN EndOfInterrupt(q) ELSE q

\* In single mode (ICW1 bit 1) there is no ICW3: step 3 is skipped.
IcwIndex(p) == IF p.step = 3 /\ 1 \in p.icw[1] THEN 4 ELSE p.step

\* Mutant: one initialisation word too many.
PicData_OffByOne(p, data) ==
  LET s == IcwIndex(p)
  IN  IF s <= 5 THEN [p EXCEPT !.icw[Min({s, 4})] = data, !.step = s + 1]
                ELSE [p EXCEPT !.mask = data]

\* Port 0x21: the next initialisation word until all are written, then the mask.
PicData(p, data) ==
  LET s == IcwIndex(p)
  IN  IF s < 5 THEN [p EXCEPT !.icw[s] = data, !.step = s + 1]
               ELSE [p EXCEPT !.mask = data]

PicIn(p, port) ==
  CASE port = 32 -> IF p.readService THEN p.service ELSE p.request
    [] port = 33 -> p.mask

PicIrq(p, n) == [p EXCEPT !.request = @ \cup {n}]

\* Mutant: a line in service can be delivered again.
Deliverable_Reentrant(p) == p.request \ p.mask

\* The lines pic_next may pick: a line in service is passed over, whether or
\* not a line of higher priority is in service too.
Deliverable(p) == (p.request \ p.mask) \ p.service

NextLine(p) == Min(Deliverable(p))
PicAck_LowestPriority(p) ==   \* Mutant: the scan starts at bit 7.
  LET i == Max(Deliverable(p))
  IN  [p EXCEPT !.request = @ \ {i}, !.service = @ \cup {i}]
PicAck_ForgetsService(p) ==   \* Mutant: the service bit is never set.
  [p EXCEPT !.request = @ \ {NextLine(p)}]
\* The controller after pic_next took a line.  Both branches of the source set
\* the service bit, so ICW4's automatic mode changes nothing.
PicAck(p) ==
  LET i == NextLine(p)
  IN  [p EXCEPT !.request = @ \ {i}, !.service = @ \cup {i}]

\* icw[2] + i is a byte addition.
ByteValue(b) ==
  LET one(k) == IF k \in b THEN 1 ELSE 0
  IN  one(0) + 2 * one(1) + 4 * one(2) + 8 * one(3)
      + 16 * one(4) + 32 * one(5) + 64 * one(6) + 128 * one(7)
Vector(p) == (ByteValue(p.icw[2]) + NextLine(p)) % 256
=============================================================================
