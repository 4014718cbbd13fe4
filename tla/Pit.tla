--------------------------------- MODULE Pit ---------------------------------
(***************************************************************************)
(* The interval timer of src/modules/chipset/pit.odin.  The guest programs *)
(* its channels and reads them back one byte at a time, while the counters *)
(* run on between any two of its instructions.                             *)
(*                                                                         *)
(* The environment is a guest that neither latches nor reads a channel it  *)
(* is half-way through programming.  Time is counted in a unit in which    *)
(* the cycles of an instruction and the period of the PIT's clock are both *)
(* integers; pit.ticker is a double in microseconds, whose rounding is     *)
(* left out.                                                               *)
(***************************************************************************)
EXTENDS Integers

CONSTANTS
  Base,       \* number of values of a byte (256)
  Chans,      \* channels in use
  Modes,      \* access modes the guest programs
  Elapsed,    \* lengths of a processor step
  Interval    \* period of the PIT's clock (INTERVAL)

VARIABLES
  channels,
  ticker,     \* time not yet counted
  irq0,       \* request of line 0 at the controller
  guest       \* per channel, what the guest is doing and expects

vars == <<channels, ticker, irq0, guest>>

Byt  == 0..Base - 1
Word == 0..Base * Base - 1
Mode == {"LATCH_COUNT", "LOW_BYTE", "HIGH_BYTE", "TOGGLE"}
PitAssumption ==
  /\ Base \in Nat \ {0} /\ Modes \subseteq Mode
  /\ Elapsed \subseteq Nat /\ Interval \in Nat \ {0}

Low(w)  == w % Base
High(w) == w \div Base
Channel == [enabled : BOOLEAN, toggle : BOOLEAN, counter : Word, latch : Word,
            chdata : Word, mode : Mode]
Zeroed == [enabled |-> FALSE, toggle |-> FALSE, counter |-> 0, latch |-> 0,
           chdata |-> 0, mode |-> "LATCH_COUNT"]

\* The byte that is next at a channel's port: flip-flop modes alternate.
Flips(c)   == c.mode \in {"LATCH_COUNT", "TOGGLE"}
LowNext(c) == c.mode = "LOW_BYTE" \/ (Flips(c) /\ ~c.toggle)
Flipped(c) == IF Flips(c) THEN [c EXCEPT !.toggle = ~@] ELSE c

\* Port 43h
Command(c, m) == [c EXCEPT !.toggle = FALSE, !.mode = m,
                           !.latch = IF m = "LATCH_COUNT" THEN c.counter ELSE @]

\* IN 40h..42h: the channel after the read, and the byte.
Refreshed(c) == IF c.mode = "LATCH_COUNT" THEN c ELSE [c EXCEPT !.latch = c.counter]
ReadByte(c) == IF LowNext(c) THEN Low(Refreshed(c).latch) ELSE High(Refreshed(c).latch)
AfterRead(c) == Flipped(Refreshed(c))

\* OUT 40h..42h
\* Mutant: counting goes on with half of the new count.
WriteByte_StaysEnabled(c, b) ==
  Flipped(IF LowNext(c)
          THEN [c EXCEPT !.chdata = High(@) * Base + b]
          ELSE LET w == b * Base + Low(c.chdata)
               IN  [c EXCEPT !.enabled = TRUE,
                             !.chdata = IF w = 0 THEN Base * Base - 1 ELSE w])
\* Mutant: the flip-flop is left alone.
WriteByte_NoFlip(c, b) ==
  IF LowNext(c)
  THEN [c EXCEPT !.chdata = High(@) * Base + b, !.enabled = FALSE]
  ELSE LET w == b * Base + Low(c.chdata)
       IN  [c EXCEPT !.enabled = TRUE,
                     !.chdata = IF w = 0 THEN Base * Base - 1 ELSE w]
\* Mutant: a count of zero is one too large for the register.
WriteByte_FullCount(c, b) ==
  Flipped(IF LowNext(c)
          THEN [c EXCEPT !.chdata = High(@) * Base + b, !.enabled = FALSE]
          ELSE LET w == b * Base + Low(c.chdata)
               IN  [c EXCEPT !.enabled = TRUE,
                             !.chdata = IF w = 0 THEN Base * Base ELSE w])
WriteByte(c, b) ==
  Flipped(IF LowNext(c)
          THEN [c EXCEPT !.chdata = High(@) * Base + b, !.enabled = FALSE]
          ELSE LET w == b * Base + Low(c.chdata)
               IN  [c EXCEPT !.enabled = TRUE,
                             !.chdata = IF w = 0 THEN Base * Base - 1 ELSE w])

\* pit_timer's loop over n periods of the PIT's clock, put together: a channel
\* counts down to zero, then reloads and counts down again, a period of chdata + 1.
\* It fires when it reloads.
After(c, n) ==
  IF ~c.enabled THEN c
  ELSE [c EXCEPT !.counter = IF n <= @ THEN @ - n
                             ELSE c.chdata - ((n - @ - 1) % (c.chdata + 1))]
FiresWithin(c, n) == c.enabled /\ n > c.counter
-----------------------------------------------------------------------------
None == -1
\* at: the byte of a count the guest writes or reads next; wrote: the low byte
\* written; goal: the last count the guest wrote, and ended, the byte it ended with;
\* snap, read: the counter when it was latched, and the bytes read since then put
\* together.
GuestIdle == [at |-> "idle", wrote |-> 0, goal |-> None, ended |-> "high",
              snap |-> 0, read |-> None]

Init ==
  /\ channels = [i \in Chans |-> Zeroed] /\ ticker = 0 /\ irq0 = FALSE
  /\ guest = [i \in Chans |-> GuestIdle]

Port(i, c) == channels' = [channels EXCEPT ![i] = c] /\ UNCHANGED <<ticker, irq0>>
Guest(i, g) == guest' = [guest EXCEPT ![i] = g]

Program(i, m) ==
  /\ guest[i].at = "idle"
  /\ Port(i, Command(channels[i], m))
  /\ Guest(i, [guest[i] EXCEPT !.at = IF m = "HIGH_BYTE" THEN "high" ELSE "low",
                               !.read = None, !.wrote = Low(channels[i].chdata)])

WriteLow(i, b) ==
  /\ guest[i].at = "low"
  /\ Port(i, WriteByte(channels[i], b))
  /\ Guest(i, IF channels[i].mode = "LOW_BYTE"
              THEN [guest[i] EXCEPT !.at = "idle", !.ended = "low",
                                    !.goal = High(channels[i].chdata) * Base + b]
              ELSE [guest[i] EXCEPT !.at = "high", !.wrote = b])

\* A count of zero stands for the largest one.
WriteHigh(i, b) ==
  /\ guest[i].at = "high"
  /\ Port(i, WriteByte(channels[i], b))
  /\ LET w == b * Base + guest[i].wrote
     IN  Guest(i, [guest[i] EXCEPT !.at = "idle", !.ended = "high",
                                   !.goal = IF w = 0 THEN Base * Base - 1 ELSE w])

Latch(i) ==
  /\ guest[i].at = "idle"
  /\ Port(i, Command(channels[i], "LATCH_COUNT"))
  /\ Guest(i, [guest[i] EXCEPT !.at = "readlow", !.snap = channels[i].counter,
                               !.read = None])

ReadLow(i) ==
  /\ guest[i].at = "readlow"
  /\ Port(i, AfterRead(channels[i]))
  /\ Guest(i, [guest[i] EXCEPT !.at = "readhigh", !.read = ReadByte(channels[i])])

ReadHigh(i) ==
  /\ guest[i].at = "readhigh"
  /\ Port(i, AfterRead(channels[i]))
  /\ Guest(i, [guest[i] EXCEPT !.at = "idle",
                 !.read = @ + Base * ReadByte(channels[i])])

\* A processor step of the given length, and pit_timer after it.
ProcessorStep(cycles) ==
  LET n == (ticker + cycles) \div Interval
  IN  /\ ticker' = (ticker + cycles) % Interval
      /\ channels' = [i \in Chans |-> After(channels[i], n)]
      /\ irq0' = (irq0 \/ (0 \in Chans /\ FiresWithin(channels[0], n)))
      /\ UNCHANGED guest

Acknowledge == irq0 /\ irq0' = FALSE /\ UNCHANGED <<channels, ticker, guest>>

Reset ==
  /\ channels' = [i \in Chans |-> Zeroed] /\ ticker' = 0 /\ irq0' = FALSE
  /\ guest' = [i \in Chans |-> GuestIdle]

Next ==
  \/ \E i \in Chans :
       \/ \E m \in Modes : Program(i, m)
       \/ \E b \in Byt : WriteLow(i, b)
       \/ \E b \in Byt : WriteHigh(i, b)
       \/ Latch(i)
       \/ ReadLow(i)
       \/ ReadHigh(i)
  \/ \E cycles \in Elapsed : ProcessorStep(cycles)
  \/ Acknowledge
  \/ Reset

Spec == Init /\ [][Next]_vars

\* machine.step calls update_timers after every instruction.
FairSpec == Spec /\ WF_vars(\E cycles \in Elapsed : ProcessorStep(cycles))
-----------------------------------------------------------------------------
TypeOK ==
  /\ channels \in [Chans -> Channel]
  /\ ticker \in 0..Interval - 1 /\ irq0 \in BOOLEAN
  /\ \A i \in Chans : guest[i].goal \in Word \cup {None}

\* A running channel reloads from a count that was written as a whole, never from
\* one half of a new and one half of an old count (pit.odin:98-107).
WholeCounts ==
  \A i \in Chans : channels[i].enabled => channels[i].chdata = guest[i].goal

\* The two bytes the guest reads after a latch command are those of the counter at
\* that command, however far it has counted in between (pit.odin:63-65, 88-90).
LatchedPair ==
  \A i \in Chans : LET g == guest[i]
                   IN  g.at = "idle" /\ g.read # None => g.read = g.snap

\* A count whose last byte is the high one keeps channel 0 raising line 0, unless the
\* guest begins to program it anew or the machine is reset (pit.odin:98-105, 119-136).
\* A count written by its low byte alone is not covered: it stops the channel for good
\* (CountsRun).
TimerTicks ==
  0 \in Chans =>
    (guest[0].at = "idle" /\ guest[0].goal # None /\ guest[0].ended = "high" /\ ~irq0)
      ~> (irq0 \/ guest[0].at \in {"low", "high"} \/ guest[0].goal = None)

\* A channel whose count the guest has written, by whichever bytes it chose, counts.
\* Both BIOSes of the repository write channel 1 by its low byte alone
\* (pcxtbios.asm:493-496); pit.odin:96-98 stops a channel at a low byte, and in that
\* mode no high byte starts it again.
CountsRun ==
  \A i \in Chans : guest[i].goal # None /\ guest[i].at \notin {"low", "high"}
                     => channels[i].enabled
=============================================================================
