------------------------------- MODULE MCParts -------------------------------
(***************************************************************************)
(* Values for the parts.                                                   *)
(*                                                                         *)
(* Controller: two request lines and the bytes that drive every branch.    *)
(* Keyboard: two keys, A (make code 0x1E) and the left shift (0x2A), whose *)
(* release code is that of a keyboard reset.                               *)
(* Timer: bytes of three values and counts up to 8; an instruction takes   *)
(* less than a period of the PIT's clock, or several.                      *)
(* Mouse: room for two packets before the limit.                           *)
(* Disk: two floppy images of different geometry for the tray, and a hard  *)
(* disk of more than 1024 cylinders that ends with an incomplete one.      *)
(* Arithmetic: numbers of two bytes, each byte at an end of its range, at  *)
(* the change of sign or at a digit's carry.                               *)
(* Core: a video adapter, an EMS board that may lie over it or reach past  *)
(* the end of memory, and a clock whose installation may fail.             *)
(* Screen: three lines of a frame, one of them drawn and one in the        *)
(* retrace.  VGA: frames of one and of two lines, the first also of text.  *)
(* Planes: two places in two planes of two bits, and the registers set for *)
(* each mode of writing.                                                   *)
(* Clock: minutes of two seconds, hours of two minutes.                    *)
(* Debugger: digits to the base 2, registers of 16 and memory of 32 cells, *)
(* numbers in and out of a segment, a write across the end of memory.      *)
(***************************************************************************)
EXTENDS Parts

CONSTANTS small, large, fixed        \* disk images

\* 0x13 (ICW1 single), 0x11 (ICW1 cascaded), 0x20 (EOI), 0x0B (read ISR), 0x2A
\* (read ISR and EOI bits at once); 0x08 (vector base of the BIOS, or mask of line
\* 3), 0x03 (ICW4 with automatic EOI, or mask of lines 0 and 1).
MCCommands == {{0, 1, 4}, {0, 4}, {5}, {0, 1, 3}, {1, 3, 5}}
MCMaskBytes == {{3}, {0, 1}}

MCImageSize == (small :> 368640) @@ (large :> 1474560)
                 @@ (fixed :> (1030 * 63 * 16 + 20) * 512)

\* Of the chipset, only the PPI's port.
MCClaims == [chipset |-> 0, vga |-> 2, ems |-> 2, rtc |-> 0]
MCBases == [chipset |-> {0}, vga |-> {1}, ems |-> {2, 3}, rtc |-> {0}]
MCIo == [chipset |-> {0}, vga |-> {1}, ems |-> {2}, rtc |-> {1}]
MCIntervals == [memory |-> <<>>, chipset |-> <<0>>, vga |-> <<0>>, ems |-> <<>>,
                rtc |-> <<3>>]

\* A register file for each mode of writing, with each logical operation.
File(linear, writes, mask, mapped, turns, op, set, enable) ==
  [linear |-> linear, mode |-> writes, mask |-> mask, planes |-> mapped,
   turns |-> turns, op |-> op, set |-> set, enable |-> enable]
MCFiles ==
  {File(TRUE, 0, {0, 1}, {0, 1}, 0, 0, {}, {}), File(FALSE, 0, {0}, {0, 1}, 1, 0, {}, {}),
   File(FALSE, 0, {0, 1}, {0}, 0, 3, {}, {}), File(FALSE, 0, {1}, {0, 1}, 0, 1, {0}, {0}),
   File(FALSE, 1, {0}, {0, 1}, 0, 0, {}, {}), File(FALSE, 2, {1}, {1}, 0, 2, {}, {}),
   File(FALSE, 3, {0, 1}, {0, 1}, 1, 0, {0}, {})}
MCWritten == {<<>>, <<1>>, <<3, 2>>, <<2, 3, 1>>}
-----------------------------------------------------------------------------
\* The loop of pit_timer, period by period, for one channel.
Count(c) == IF ~c.enabled THEN c
            ELSE [c EXCEPT !.counter = IF @ = 0 THEN c.chdata ELSE @ - 1]
RECURSIVE Loop(_, _), LoopFires(_, _)
Loop(c, n) == IF n = 0 THEN c ELSE Loop(Count(c), n - 1)
LoopFires(c, n) ==
  n > 0 /\ ((c.enabled /\ c.counter = 0) \/ LoopFires(Count(c), n - 1))

\* After and FiresWithin are what the loop computes, for every channel with counts
\* up to 4 and up to 11 periods.
ASSUME ClosedForm ==
  \A counter, chdata \in 0..4, enabled \in BOOLEAN, n \in 0..11 :
    LET c == [Timer!Zeroed EXCEPT !.counter = counter, !.chdata = chdata,
                                  !.enabled = enabled]
    IN  Timer!After(c, n) = Loop(c, n) /\ Timer!FiresWithin(c, n) = LoopFires(c, n)
-----------------------------------------------------------------------------
\* What c turns of a shift compute, as multiples and quotients of powers of two; a
\* rotation of n bits by k of them.
Rotation(x, n, k) == ((x * 2^k) % 2^n) + x \div 2^(n - k)
ASSUME ShiftForms ==
  \A v \in 0..255, c \in 1..20, cy \in {0, 1} :
    LET f == IF cy = 1 THEN {"CARRY"} ELSE {}
        x == 256 * cy + v                       \* the word below the carry
        Is(r, value, carry) == r.value = value /\ Carry(r.flags) = carry
    IN  /\ Is(SHL(f, v, c), (v * 2^c) % 256, ((v * 2^c) \div 256) % 2)
        /\ Is(SHR(f, v, c), v \div 2^c, (v \div 2^(c - 1)) % 2)
        /\ Is(SAR(f, v, c), (Signed(v) \div 2^c) % 256,
              (Signed(v) \div 2^(c - 1)) % 2)
        /\ Is(ROL(f, v, c), Rotation(v, 8, c % 8), Rotation(v, 8, c % 8) % 2)
        /\ Is(ROR(f, v, c), Rotation(v, 8, (-c) % 8),
              Rotation(v, 8, (-c) % 8) \div 128)
        /\ Is(RCL(f, v, c), Rotation(x, 9, c % 9) % 256,
              Rotation(x, 9, c % 9) \div 256)
        /\ Is(RCR(f, v, c), Rotation(x, 9, (-c) % 9) % 256,
              Rotation(x, 9, (-c) % 9) \div 256)

\* AAM splits a number in its digits and AAD joins them again, for every base.
ASSUME DigitForms ==
  \A v \in 0..255, base \in 1..255 :
    LET r == AAM({}, 0, v, base)
    IN  r.value < base /\ AAD({}, r.high, r.value, base).value = v
=============================================================================
