------------------------------ MODULE Keyboard ------------------------------
(***************************************************************************)
(* The keyboard half of the PPI (src/modules/chipset/ppi.odin) between the *)
(* host, whose callback delivers key events at any time, and the guest,    *)
(* which is told by line 1 of the controller and reads port 0x60.          *)
(*                                                                         *)
(* The guest is the environment: a main program that reads port 0x60, and  *)
(* reads and later writes port 0x61 (beeper, keyboard reset), and the      *)
(* handler of INT 9 as in the BIOS images (pcxtbios.asm:2055-2062): read   *)
(* the scancode, raise and restore bit 7 of port 0x61, end of interrupt.   *)
(* The sample counter of the speaker belongs to the sound generator.       *)
(***************************************************************************)
EXTENDS PicOps

CONSTANT Keys        \* make codes of the keys the host has

VARIABLES
  ppi,     \* the fields of PPI that concern the keyboard and the speaker's gate
  pic,     \* the interrupt controller
  isr,     \* where the INT 9 handler is, and its copy of port 0x61
  copy,    \* the main program's copy of port 0x61, {} or one byte
  fresh    \* history: data_port was loaded and not read since

vars == <<ppi, pic, isr, copy, fresh>>

KEYBOARD  == 1
RESETCODE == 170                  \* 0xAA, also the release of the left shift key
Refresh   == 4
Gate      == {0, 1}               \* of port 0x61: timer 2 and speaker
Clock     == 6                    \* low: the keyboard is held
Clear     == 7
Lines61   == {Clock, Clear}

\* The byte the callback pushes: a key's make code, with bit 7 when it is released.
ScanCode(k, down) == IF down THEN k ELSE k + 128
Codes == {0, RESETCODE} \cup {ScanCode(k, d) : k \in Keys, d \in BOOLEAN}

PpiState ==
  [data : Codes, port61 : Byte, kbReset : BOOLEAN, spk : BOOLEAN]
PpiReset == [data |-> 0, port61 |-> {}, kbReset |-> FALSE, spk |-> FALSE]
-----------------------------------------------------------------------------
\* ppi_push_event; nothing is accepted while a reset code waits to be read.
PushEvent_PressOnly(p, scan) ==  \* Mutant: a release is stored but not announced.
  [ppi |-> IF p.kbReset THEN p ELSE [p EXCEPT !.data = scan],
   irq |-> ~p.kbReset /\ scan < 128]
PushEvent(p, scan) ==
  [ppi |-> IF p.kbReset THEN p ELSE [p EXCEPT !.data = scan],
   irq |-> ~p.kbReset]

\* IN 60h: the reset code is read once.
Read60(p) == IF p.kbReset THEN [p EXCEPT !.kbReset = FALSE, !.data = 0] ELSE p

\* IN 61h toggles the refresh bit and returns the result.
Toggle(b, k) == IF k \in b THEN b \ {k} ELSE b \cup {k}
Read61(p) == [p EXCEPT !.port61 = Toggle(@, Refresh)]

StartsReset_Level(p, b) ==       \* Mutant: the level, not the edge, resets.
  b \cap Lines61 # {}
\* A rising edge of the clock or clear lines.
StartsReset(p, b) == p.port61 \cap Lines61 = {} /\ b \cap Lines61 # {}

\* OUT 61h
Write61(p, b) ==
  LET reset == p.kbReset \/ StartsReset(p, b)
      announce == reset /\ p.data # RESETCODE
  IN  [ppi |-> [data |-> IF announce THEN RESETCODE ELSE p.data,
                port61 |-> b, kbReset |-> reset, spk |-> Gate \subseteq b],
       irq |-> announce]

\* The callback's or the instruction's result r, and its call of interrupt(1).
Apply(r) ==
  /\ ppi' = r.ppi
  /\ pic' = IF r.irq THEN PicIrq(pic, KEYBOARD) ELSE pic
  /\ fresh' = (fresh \/ r.irq \/ r.ppi.data # ppi.data)
-----------------------------------------------------------------------------
\* The controller is initialised before the guest enables interrupts.
Booted == PicData(PicData(PicCommand(PicReset, {0, 1, 4}), {3}), {0, 3})

Init ==
  /\ ppi = PpiReset /\ pic = Booted
  /\ isr = [at |-> "idle", copy |-> {}] /\ copy = {} /\ fresh = FALSE

\* The host's callback, between any two instructions.
KeyEvent(k, down) ==
  Apply(PushEvent(ppi, ScanCode(k, down))) /\ UNCHANGED <<isr, copy>>

Main == isr.at = "idle"

MainReads60 ==
  /\ Main
  /\ ppi' = Read60(ppi) /\ fresh' = FALSE
  /\ UNCHANGED <<pic, isr, copy>>

MainReads61 ==
  /\ Main
  /\ ppi' = Read61(ppi) /\ copy' = {ppi'.port61}
  /\ UNCHANGED <<pic, isr, fresh>>

\* What programs make of the byte they read: speaker on or off, and the steps of a
\* keyboard reset (GLABIOS.ASM:4533-4557).
Edits(b) ==
  {b \cup Gate, b \ Gate, b \ Lines61, b \cup Lines61, b \ {Clear}}

MainWrites61(b, c) ==
  /\ Main /\ copy = {b} /\ c \in Edits(b)
  /\ Apply(Write61(ppi, c)) /\ copy' = {}
  /\ UNCHANGED isr

\* The interrupt is taken by the main program, which keeps interrupts disabled as
\* long as it holds the keyboard's clock low (GLABIOS.ASM:4533-4579).
EnterInt9 ==
  /\ Main /\ Clock \in ppi.port61 /\ KEYBOARD \in Deliverable(pic)
  /\ pic' = PicAck(pic) /\ isr' = [isr EXCEPT !.at = "entered"]
  /\ UNCHANGED <<ppi, copy, fresh>>

Int9Reads60 ==
  /\ isr.at = "entered" /\ isr' = [isr EXCEPT !.at = "read"]
  /\ ppi' = Read60(ppi) /\ fresh' = FALSE
  /\ UNCHANGED <<pic, copy>>

Int9Reads61 ==
  /\ isr.at = "read"
  /\ ppi' = Read61(ppi) /\ isr' = [at |-> "latch", copy |-> ppi'.port61]
  /\ UNCHANGED <<pic, copy, fresh>>

Int9Writes61(from, to, b) ==
  /\ isr.at = from /\ isr' = [isr EXCEPT !.at = to]
  /\ Apply(Write61(ppi, b))
  /\ UNCHANGED copy
Int9Latches  == Int9Writes61("latch", "restore", isr.copy \cup {Clear})
Int9Restores == Int9Writes61("restore", "eoi", isr.copy)

Int9Ends ==
  /\ isr.at = "eoi" /\ isr' = [at |-> "idle", copy |-> {}]
  /\ pic' = PicCommand(pic, {5})
  /\ UNCHANGED <<ppi, copy, fresh>>

\* retro_reset; the guest boots again.
Reset ==
  /\ ppi' = PpiReset /\ pic' = Booted
  /\ isr' = [at |-> "idle", copy |-> {}] /\ copy' = {} /\ fresh' = FALSE

Next ==
  \/ \E k \in Keys, down \in BOOLEAN : KeyEvent(k, down)
  \/ MainReads60
  \/ MainReads61
  \/ \E b \in copy : \E c \in Edits(b) : MainWrites61(b, c)
  \/ EnterInt9
  \/ Int9Reads60
  \/ Int9Reads61
  \/ Int9Latches
  \/ Int9Restores
  \/ Int9Ends
  \/ Reset

Spec == Init /\ [][Next]_vars
-----------------------------------------------------------------------------
TypeOK ==
  /\ ppi \in PpiState /\ pic \in PicState
  /\ isr \in [at : {"idle", "entered", "read", "latch", "restore", "eoi"}, copy : Byte]
  /\ copy \in SUBSET Byte /\ fresh \in BOOLEAN

\* No key event overwrites the reset code before the guest has read it
\* (ppi.odin:141), and none is taken for it.
ResetCodeHeld == ppi.kbReset => ppi.data = RESETCODE

\* A byte the guest has not read is announced: its request is pending, or the
\* handler has been entered and has not read yet.  Events that arrive at any point
\* of the handler's run are never left behind unannounced.
UnreadAnnounced == fresh => KEYBOARD \in pic.request \/ isr.at = "entered"

\* The handler's acknowledgement of a key (bit 7 up and down) is not taken for the
\* guest's request to reset the keyboard (ppi.odin:107).
AckIsNoReset ==
  [][isr.at \in {"latch", "restore"} /\ isr'.at # isr.at => ~ppi'.kbReset \/ ppi.kbReset]_vars

\* What the keyboard test of the BIOS waits for (GLABIOS.ASM:4576, "when IRQ1 is
\* received with successful reset code of 0AAh"): a reset that starts is announced.
ResetAnnounced ==
  [][~ppi.kbReset /\ ppi'.kbReset => KEYBOARD \in pic'.request]_vars
=============================================================================
