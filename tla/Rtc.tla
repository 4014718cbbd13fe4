--------------------------------- MODULE Rtc ---------------------------------
(***************************************************************************)
(* The real-time clock (src/modules/rtc/rtc.odin) and a guest that reads   *)
(* the time from it.  The time is copied from the host once a second of    *)
(* the guest's cycles, which is at no fixed time of the host's.            *)
(*                                                                         *)
(* A time is its minutes and seconds, each below Base; formats are left    *)
(* out.  The guest (external) takes the time when the busy flag is clear   *)
(* before and after it has read the registers.                             *)
(***************************************************************************)
EXTENDS Integers

CONSTANT Base

RtcAssumption == Base \in Nat \ {0}

VARIABLES
  now,            \* of the host
  current_time, addr, busy,
  stage,          \* of the guest: the register it reads next
  selected,       \* has it selected the register?
  seconds, minutes, taken

vars == <<now, current_time, addr, busy, stage, selected, seconds, minutes, taken>>

Times == 0..Base * Base - 1
Seconds(t) == t % Base
Minutes(t) == t \div Base
-----------------------------------------------------------------------------
Stages == {"status", "seconds", "minutes", "check"}
Register == [status |-> 10, seconds |-> 0, minutes |-> 2, check |-> 10]

Init ==
  /\ now \in {0, Base - 1} /\ current_time = 0 /\ addr = 0 /\ busy = FALSE
  /\ stage = "status" /\ selected = FALSE /\ seconds = 0 /\ minutes = 0 /\ taken = FALSE

HostClock ==
  /\ now' = (now + 1) % (Base * Base)
  /\ UNCHANGED <<current_time, addr, busy, stage, selected, seconds, minutes, taken>>

Timer ==
  /\ current_time' = now /\ busy' = TRUE /\ taken' = FALSE
  /\ UNCHANGED <<now, addr, stage, selected, seconds, minutes>>

\* io_out to the even port
Select ==
  /\ ~selected /\ selected' = TRUE /\ addr' = Register[stage] /\ taken' = FALSE
  /\ UNCHANGED <<now, current_time, busy, stage, seconds, minutes>>

Busy_AnyRead == FALSE               \* Mutant: any read clears the flag.
Busy == busy /\ addr # 10

\* io_in from the odd port, and what the guest makes of it
Read ==
  /\ selected /\ selected' = FALSE /\ addr' = 13 /\ busy' = Busy
  /\ seconds' = IF addr = 0 THEN Seconds(current_time) ELSE seconds
  /\ minutes' = IF addr = 2 THEN Minutes(current_time) ELSE minutes
  /\ stage' = CASE stage = "status"  -> IF busy THEN "status" ELSE "seconds"
                [] stage = "seconds" -> "minutes"
                [] stage = "minutes" -> "check"
                [] stage = "check"   -> IF busy THEN "seconds" ELSE "status"
  /\ taken' = (stage = "check" /\ ~busy)
  /\ UNCHANGED <<now, current_time>>

Next == HostClock \/ Timer \/ Select \/ Read
-----------------------------------------------------------------------------
TypeOK == /\ now \in Times /\ current_time \in Times /\ addr \in {0, 2, 10, 13}
          /\ {busy, selected, taken} \subseteq BOOLEAN /\ stage \in Stages

\* The time that is taken is one the clock showed, not the seconds of one and the
\* minutes of another, however the update comes between the guest's reads.
TimeWhole ==
  taken => seconds = Seconds(current_time) /\ minutes = Minutes(current_time)
=============================================================================
