------------------------------- MODULE IrqNest -------------------------------
(***************************************************************************)
(* What a prioritised interrupt system promises: a line raised stays       *)
(* pending until its handler starts, a handler is interrupted by more      *)
(* urgent lines only, and the handler that ends is the one that started    *)
(* last.                                                                   *)
(***************************************************************************)
EXTENDS Integers, FiniteSetsExt

CONSTANT Lines

VARIABLES
  pending,   \* the lines waiting for their handler
  nest       \* the running handlers: from the order of their starts to lines
vars == <<pending, nest>>

Init == pending = {} /\ nest = <<>>

Raise(n) == pending' = pending \cup {n} /\ UNCHANGED nest

\* The handlers in running, and on top of them, started at time at, that of n.
OnTop(running, at, n) ==
  [k \in DOMAIN running \cup {at} |-> IF k = at THEN n ELSE running[k]]

Start(n, running) ==
  /\ n \in pending
  /\ \A k \in DOMAIN running : n < running[k]
  /\ pending' = pending \ {n}
  /\ \E at \in DOMAIN nest' : /\ \A k \in DOMAIN running : k < at
                              /\ nest' = OnTop(running, at, n)

\* nest without the handler that started last
Last == CHOOSE k \in DOMAIN nest : \A j \in DOMAIN nest : j <= k
Finished == [k \in DOMAIN nest \ {Last} |-> nest[k]]
Finish == DOMAIN nest # {} /\ nest' = Finished /\ UNCHANGED pending

\* An end of interrupt and the next start can fall into the same instruction.
FinishThenStart(n) == DOMAIN nest # {} /\ Start(n, Finished)

Next == Finish \/ \E n \in Lines : Raise(n) \/ Start(n, nest) \/ FinishThenStart(n)

Spec == Init /\ [][Next]_vars
=============================================================================
