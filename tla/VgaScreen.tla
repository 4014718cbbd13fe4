------------------------------ MODULE VgaScreen ------------------------------
(***************************************************************************)
(* The VGA's modes and frames (src/modules/vga/vga.odin, render.odin): the *)
(* guest sets registers one by one, some of which make the adapter compute *)
(* its mode again, while timers draw graphics line by line and text, if it *)
(* is marked as changed, all at once.                                      *)
(*                                                                         *)
(* What memory, fonts and palettes hold is one value.  The registers that  *)
(* decide a mode are two: the attribute controller's mode register, and the*)
(* size (of the CRTC, the sequencer and the graphics controller).  The     *)
(* guest is a BIOS that sets a mode, the attributes first, and a program   *)
(* that writes.  Status bits and timing are left out (Cga has them), and   *)
(* the cursor ends where it can be drawn: from line 16 on the loop of      *)
(* blit_char has no end (render.odin:73).                                  *)
(***************************************************************************)
EXTENDS Integers

CONSTANTS
  Values,
  Sizes,       \* heights of frames in lines, at most 480 in the code
  TextLines    \* lines of text; 400

ScreenAssumption ==
  /\ Sizes \subseteq Nat \ {0} /\ TextLines \in Sizes
  /\ \E s \in Sizes : \A t \in Sizes : t <= s

VARIABLES
  mem, attr, size_reg,                   \* memory and registers
  flip_3C0, textmode, height,            \* what the adapter computes from them
  told,                                  \* the size the frontend was told
  cursor_blink, is_dirty, scanline,
  drawn,                                 \* what each line was drawn from
  stage, wanted                          \* where the BIOS is, and what it sets

vars == <<mem, attr, size_reg, flip_3C0, textmode, height, told, cursor_blink, is_dirty,
          scanline, drawn, stage, wanted>>

registers == <<mem, attr, size_reg, flip_3C0>>
computed  == <<textmode, height, told>>
screen    == <<cursor_blink, scanline, drawn>>
bios      == <<stage, wanted>>

MaxHeight == CHOOSE s \in Sizes : \A t \in Sizes : t <= s
Rows == 0..(IF TextLines > MaxHeight THEN TextLines ELSE MaxHeight) - 1
IsText(a) == a # "graphics"
\* The modes the BIOS sets; a frame of text has the height of its characters.
Wishes == {w \in [attr : {"text", "graphics"}, size : Sizes] :
             w.attr = "text" => w.size = TextLines}

\* What a frame is drawn from now.
Picture == [text |-> textmode, height |-> height, mem |-> mem,
            blink |-> textmode /\ cursor_blink]
-----------------------------------------------------------------------------
\* The registers are zero; the frontend was told 640 x 200 when the adapter was set up.
Init ==
  /\ mem \in Values /\ attr = "text" /\ size_reg = 0
  /\ flip_3C0 = FALSE /\ textmode = FALSE /\ height = 0 /\ told = 200
  /\ cursor_blink = FALSE /\ is_dirty = TRUE /\ scanline = 0
  /\ drawn = [y \in Rows |-> [Picture EXCEPT !.height = -1]]
  /\ stage = "off" /\ wanted = [attr |-> "text", size |-> TextLines]

\* update_video_mode, after a register it knows was written
UpdateVideoMode ==
  /\ textmode' = IsText(attr) /\ height' = size_reg' /\ told' = size_reg'

StatusFlip_Kept(flip) == flip   \* Mutant: reading the status leaves the flip-flop.
StatusFlip(flip) == FALSE

\* The BIOS, port by port: it reads the status, so that the next byte is an index.
ReadStatus ==
  /\ stage \in {"off", "idle"} /\ wanted' \in Wishes /\ stage' = "index"
  /\ flip_3C0' = StatusFlip(flip_3C0)
  /\ UNCHANGED <<mem, attr, size_reg, computed, screen, is_dirty>>

\* Port 0x3C0 takes an index and a value in turn.
Out3C0(from, to, value) ==
  /\ stage = from /\ stage' = to /\ flip_3C0' = ~flip_3C0 /\ is_dirty' = TRUE
  /\ attr' = IF flip_3C0 THEN value ELSE attr
  /\ UNCHANGED <<mem, size_reg, computed, screen, wanted>>

WriteIndex == Out3C0("index", "attribute", "index")
WriteAttribute == Out3C0("attribute", "size", wanted.attr)

WriteSize ==
  /\ stage = "size" /\ stage' = "idle" /\ size_reg' = wanted.size
  /\ UpdateVideoMode /\ is_dirty' = TRUE
  /\ UNCHANGED <<mem, attr, flip_3C0, screen, wanted>>

\* write, and io_out to a palette
Write(v) ==
  /\ stage = "idle" /\ mem' = v /\ is_dirty' = TRUE
  /\ UNCHANGED <<attr, size_reg, flip_3C0, computed, screen, bios>>

\* A reset of the machine keeps the registers; the BIOS starts again.
Reset ==
  /\ is_dirty' = TRUE /\ stage' = "off"
  /\ UNCHANGED <<registers, computed, cursor_blink, scanline, drawn, wanted>>
-----------------------------------------------------------------------------
DrawsLine(y) == y < height /\ ~textmode

NextLine(y) == IF y + 1 >= height THEN 0 ELSE y + 1

ScanlineTimer ==
  /\ scanline' = NextLine(scanline)
  /\ drawn' = IF DrawsLine(scanline) THEN [drawn EXCEPT ![scanline] = Picture] ELSE drawn
  /\ is_dirty' = (is_dirty \/ DrawsLine(scanline))
  /\ UNCHANGED <<registers, computed, cursor_blink, bios>>

RefreshTimer ==
  /\ IF is_dirty /\ textmode
       THEN /\ is_dirty' = FALSE
            /\ drawn' = [y \in Rows |-> IF y < TextLines THEN Picture ELSE drawn[y]]
       ELSE UNCHANGED <<is_dirty, drawn>>
  /\ UNCHANGED <<registers, computed, cursor_blink, scanline, bios>>

CursorTimer ==
  /\ cursor_blink' = ~cursor_blink /\ is_dirty' = TRUE
  /\ UNCHANGED <<registers, computed, scanline, drawn, bios>>

Next ==
  \/ ReadStatus \/ WriteIndex \/ WriteAttribute \/ WriteSize
  \/ Reset \/ \E v \in Values : Write(v)
  \/ ScanlineTimer \/ RefreshTimer \/ CursorTimer
-----------------------------------------------------------------------------
TypeOK ==
  /\ mem \in Values /\ attr \in {"text", "graphics", "index"}
  /\ size_reg \in Sizes \cup {0} /\ told \in Sizes \cup {200}
  /\ {flip_3C0, textmode, cursor_blink, is_dirty} \subseteq BOOLEAN
  /\ height \in Sizes \cup {0} /\ scanline \in Rows /\ wanted \in Wishes
  /\ stage \in {"off", "index", "attribute", "size", "idle"}

\* When the BIOS has set a mode, the adapter is in that mode and the frontend shows frames
\* of its size, though a reset may have come between any two port writes before
\* (vga.odin:65-122, 353-368, 394-413).
ModeFollows ==
  stage = "idle" =>
    /\ textmode = (wanted.attr = "text")
    /\ height = wanted.size /\ told = wanted.size

\* Text that is not marked as changed is on the screen (render.odin:91-121).
TextCurrent ==
  textmode /\ ~is_dirty => \A y \in Rows : y < TextLines => drawn[y] = Picture

\* No line of a graphics frame stays as it was drawn before, whatever modes there were
\* (vga.odin:421-432; render.odin:124-129).
LinesShown ==
  \A y \in Rows : []<>(textmode \/ y >= height \/ drawn[y] = Picture)
=============================================================================
