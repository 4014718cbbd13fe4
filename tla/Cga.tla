--------------------------------- MODULE Cga ---------------------------------
(***************************************************************************)
(* The CGA adapter (src/modules/cga/cga.odin, src/modules/cga/render.odin):*)
(* the guest changes memory, registers and modes between two calls of the  *)
(* scanline timer, which draws graphics line by line and text once a       *)
(* frame, and text only when the dirty flag says that something changed.   *)
(*                                                                         *)
(* What memory and the registers but the mode's hold is one value.  What a *)
(* line of the frame buffer shows is what it was drawn from.  Fonts and    *)
(* palettes are left out, and the cursor ends where it can be drawn: from  *)
(* 8 on in register 0xB, the loop of blit_char (render.odin:64) has no end.*)
(***************************************************************************)
EXTENDS Integers

CONSTANTS
  Values,
  Lines,      \* of a frame; 256 in the code
  Visible,    \* of them are drawn; 200
  Sync,       \* the first of the vertical retrace; 224
  Quarters    \* calls of the timer for a line; 4

CgaAssumption ==
  /\ Lines \in Nat \ {0} /\ Quarters \in Nat \ {0} /\ Visible \in Nat /\ Sync \in Nat

VARIABLES
  mem, mode,
  cursor_blink, is_dirty, scanline, retrace, status,
  drawn,      \* what each line of the frame buffer was drawn from
  width,      \* of the frame the frontend shows
  chosen      \* has the guest chosen a mode since the reset?

vars == <<mem, mode, cursor_blink, is_dirty, scanline, retrace, status, drawn,
          width, chosen>>

Modes == {"text 40", "text 80", "graphics 320", "graphics 640"}
IsText(m) == m \in {"text 40", "text 80"}
Width(m) == IF m \in {"text 80", "graphics 640"} THEN 640 ELSE 320

\* In text, cells and the cursor blink.
Picture == [mode |-> mode, mem |-> mem,
            blink |-> IsText(mode) /\ cursor_blink]
-----------------------------------------------------------------------------
Init ==
  /\ mem \in Values /\ mode = "text 80"
  /\ cursor_blink = FALSE /\ is_dirty = TRUE /\ scanline = 0 /\ retrace = 0
  /\ status = {} /\ drawn = [y \in 0..Visible - 1 |-> [Picture EXCEPT !.mode = "none"]]
  /\ width = 640 /\ chosen = FALSE

\* write, and io_out to the CRTC and the colour register
Write(v) ==
  /\ mem' = v /\ is_dirty' = TRUE
  /\ UNCHANGED <<mode, cursor_blink, scanline, retrace, status, drawn, width, chosen>>

\* io_out to the mode register; the frontend is told of the size.
SetMode(m) ==
  /\ mode' = m /\ width' = Width(m) /\ is_dirty' = TRUE /\ chosen' = TRUE
  /\ UNCHANGED <<mem, cursor_blink, scanline, retrace, status, drawn>>

\* reset sets the registers of the cursor and the mode, and does not tell the frontend.
Reset ==
  /\ mode' = "text 80" /\ mem' \in Values /\ is_dirty' = TRUE /\ status' = {}
  /\ chosen' = FALSE
  /\ UNCHANGED <<cursor_blink, scanline, retrace, drawn, width>>
-----------------------------------------------------------------------------
Blinks_Clean == is_dirty   \* Mutant: blinking is no change.
Blinks == TRUE

CursorTimer ==
  /\ cursor_blink' = ~cursor_blink /\ is_dirty' = Blinks
  /\ UNCHANGED <<mem, mode, scanline, retrace, status, drawn, width, chosen>>

\* render_scanline draws the line y, and render_textmode the whole frame.
DrawsLine(y) == y < Visible /\ ~IsText(mode)
DrawsText(dirty) == dirty /\ IsText(mode)

NextLine_Early(y) ==   \* Mutant: the last line is left out, and the text with it.
  IF y >= Lines - 2 THEN 0 ELSE y + 1
NextLine(y) == IF y = Lines - 1 THEN 0 ELSE y + 1

ScanlineTimer ==
  LET last == retrace = Quarters - 1
      line == last /\ DrawsLine(scanline)
      text == last /\ scanline = Lines - 1 /\ DrawsText(is_dirty)
  IN  /\ status' = {1, 2} \cup (IF last THEN {0} ELSE {})
                     \cup (IF scanline >= Sync THEN {3} ELSE {})
      /\ retrace' = IF last THEN 0 ELSE retrace + 1
      /\ scanline' = IF last THEN NextLine(scanline) ELSE scanline
      /\ is_dirty' = IF line THEN TRUE ELSE IF text THEN FALSE ELSE is_dirty
      /\ drawn' = [y \in 0..Visible - 1 |->
                    IF text \/ (line /\ y = scanline) THEN Picture ELSE drawn[y]]
      /\ UNCHANGED <<mem, mode, cursor_blink, width, chosen>>

Next ==
  \/ \E v \in Values : Write(v)
  \/ \E m \in Modes : SetMode(m)
  \/ Reset \/ CursorTimer \/ ScanlineTimer
-----------------------------------------------------------------------------
TypeOK ==
  /\ mem \in Values /\ mode \in Modes
  /\ {cursor_blink, is_dirty, chosen} \subseteq BOOLEAN
  /\ scanline \in 0..Lines - 1 /\ retrace \in 0..Quarters - 1 /\ status \subseteq 0..3

\* While nothing is marked as changed, the text on the screen is what the guest wrote and
\* set last, also after a mode or a reset that came in the middle of a frame; and once
\* the guest has chosen a mode, the frontend shows frames of the width that is drawn.
ScreenCurrent ==
  /\ IsText(mode) /\ ~is_dirty => \A y \in 0..Visible - 1 : drawn[y] = Picture
  /\ chosen => width = Width(mode)

\* A change of the text is shown in the end, and a guest that waits for the vertical
\* retrace, or for its end, sees it, as step calls the timers on and on
\* (machine/interface.odin:206).
Shown == is_dirty /\ IsText(mode) ~> ~is_dirty \/ ~IsText(mode)
RetraceSeen == []<>(3 \in status) /\ []<>(3 \notin status)
=============================================================================
