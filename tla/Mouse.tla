-------------------------------- MODULE Mouse --------------------------------
(***************************************************************************)
(* The serial mouse (src/modules/mouse/mouse.odin).  A timer polls the     *)
(* host's mouse and puts packets of three bytes into a buffer; the guest   *)
(* takes them out one byte per read of the data register, driven by line 4 *)
(* of the interrupt controller.                                            *)
(*                                                                         *)
(* The guest is the environment: a driver that flips the DTR bit of the    *)
(* modem control register when it is loaded, and whenever it starts over,  *)
(* expects the letter M and then packets, and whose interrupt handler      *)
(* reads one byte or more as long as the line status register shows one.   *)
(* How far the mouse moved is left out of the packets.                     *)
(***************************************************************************)
EXTENDS PicOps, Sequences

CONSTANT MaxBuffer       \* MAX_BUFFER_SIZE

MouseAssumption == MaxBuffer \in Nat

VARIABLES
  dtr,         \* bit 0 of registers[4]
  buffer,
  buttons,     \* button_state, of one button
  pic,         \* the interrupt controller
  driver,      \* where the guest's driver is
  expects,     \* the kind of byte it expects next
  seen         \* the button in the last packet it read since it started over, {} if none

vars == <<dtr, buffer, buttons, pic, driver, expects, seen>>

MOUSE == 4
Kind == {"id", "sync", "x", "y"}
SerialByte == [kind : Kind, button : BOOLEAN]
Other(kind) == [kind |-> kind, button |-> FALSE]

\* The packet of a poll.
Packet(b) == <<[kind |-> "sync", button |-> b], Other("x"), Other("y")>>

\* The kind of byte that follows one of the given kind.
Follows == [id |-> "sync", sync |-> "x", x |-> "y", y |-> "sync"]
-----------------------------------------------------------------------------
Interrupt == pic' = PicIrq(pic, MOUSE)

Booted == PicData(PicData(PicCommand(PicReset, {0, 1, 4}), {3}), {0, 3})

Init ==
  /\ dtr = FALSE /\ buffer = <<>> /\ buttons = FALSE /\ pic = Booted
  /\ driver = "unloaded" /\ expects = "id" /\ seen = {}

\* The bytes a poll adds to the buffer.
Polled_PerByte(buf, b) ==    \* Mutant: the limit is tested for every byte.
  SubSeq(Packet(b), 1, Min({3, MaxBuffer + 1 - Len(buf)}))
Polled(buf, b) ==
  IF Len(buf) > MaxBuffer THEN <<>> ELSE Packet(b)

\* timer, when the host's mouse moved or its button is b.
Poll(moved, b) ==
  LET new == IF moved \/ b # buttons THEN Polled(buffer, b) ELSE <<>>
  IN  /\ new # <<>>
      /\ buffer' = buffer \o new /\ buttons' = b /\ Interrupt
      /\ UNCHANGED <<dtr, driver, expects, seen>>

\* IN of the data register: the byte, and line 4 for the next.
AfterRead(p) == PicIrq(p, MOUSE)

\* OUT to the modem control register.  A change of DTR resets the mouse.
MouseReset == <<Other("id")>>

WriteDtr(bit) ==
  /\ dtr' = bit
  /\ IF bit # dtr THEN buffer' = MouseReset /\ Interrupt
                  ELSE UNCHANGED <<buffer, pic>>

\* The driver starts over: it is loaded and raises DTR, or lowers and raises it again.
StartsOver(bit) ==
  /\ driver \in {"unloaded", "main"} /\ (driver = "unloaded" => bit)
  /\ WriteDtr(bit)
  /\ driver' = "main"
  /\ IF bit # dtr THEN expects' = "id" /\ seen' = {} ELSE UNCHANGED <<expects, seen>>
  /\ UNCHANGED buttons

EnterHandler ==
  /\ driver = "main" /\ MOUSE \in Deliverable(pic)
  /\ pic' = PicAck(pic) /\ driver' = "entered"
  /\ UNCHANGED <<dtr, buffer, buttons, expects, seen>>

HandlerReads ==
  /\ driver \in {"entered", "read"} /\ buffer # <<>>
  /\ buffer' = Tail(buffer) /\ pic' = AfterRead(pic)
  /\ driver' = "read" /\ expects' = Follows[expects]
  /\ seen' = IF expects = "sync" THEN {Head(buffer).button} ELSE seen
  /\ UNCHANGED <<dtr, buttons>>

\* After a read, or at once when the line status register shows no byte.
HandlerEnds ==
  /\ driver = "read" \/ (driver = "entered" /\ buffer = <<>>)
  /\ pic' = PicCommand(pic, {5}) /\ driver' = "main"
  /\ UNCHANGED <<dtr, buffer, buttons, expects, seen>>

\* The reset callback, which leaves the buffer alone.
Reset ==
  /\ dtr' = FALSE /\ buttons' = FALSE /\ pic' = Booted
  /\ driver' = "unloaded"
  /\ UNCHANGED <<buffer, expects, seen>>

Next ==
  \/ \E moved, b \in BOOLEAN : Poll(moved, b)
  \/ \E bit \in BOOLEAN : StartsOver(bit)
  \/ EnterHandler
  \/ HandlerReads
  \/ HandlerEnds
  \/ Reset

Spec == Init /\ [][Next]_vars
-----------------------------------------------------------------------------
\* The buffer never grows by more than one packet beyond MAX_BUFFER_SIZE.
TypeOK ==
  /\ dtr \in BOOLEAN /\ buttons \in BOOLEAN
  /\ buffer \in Seq(SerialByte) /\ Len(buffer) <= MaxBuffer + 3
  /\ pic \in PicState
  /\ driver \in {"unloaded", "main", "entered", "read"}
  /\ expects \in Kind /\ seen \in SUBSET BOOLEAN

\* A loaded driver always finds the kind of byte it expects: packets are never cut,
\* neither by a full buffer, nor by starting over in the middle of one, nor by what a
\* reset of the machine left in the buffer.
Aligned ==
  driver # "unloaded" /\ buffer # <<>> =>
    /\ buffer[1].kind = expects
    /\ \A n \in 2..Len(buffer) : buffer[n].kind = Follows[buffer[n - 1].kind]

\* A byte in the buffer always has an interrupt on its way: the buffer holds many
\* bytes and the controller one request, and no byte is left behind.
NoByteStuck ==
  driver # "unloaded" /\ buffer # <<>> =>
    MOUSE \in pic.request \/ driver = "entered"

\* When the driver has read everything, it knows the button's state as of the last
\* poll that was not held up by a full buffer, if a packet came since it started over.
ButtonKnown ==
  driver # "unloaded" /\ expects = "sync" /\ buffer = <<>> => seen \subseteq {buttons}
=============================================================================
