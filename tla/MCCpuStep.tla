------------------------------ MODULE MCCpuStep ------------------------------
(***************************************************************************)
(* A main program with a plain and a comparing string instruction and a    *)
(* software interrupt, and a handler that saves CX and uses a string       *)
(* instruction itself.  Its code runs over the end of the segment.         *)
(***************************************************************************)
EXTENDS CpuPrefetch, CpuDebug

At(op, size, target) == [op |-> op, size |-> size, target |-> target]
MCSeg == 25
MCEntry == 2
MCHandler == 19
\* addresses within an instruction decode to something else
MCProgram ==
  [a \in 0..MCSeg - 1 |->
    CASE a = 2  -> At("sti", 1, 0)       \* main:
      [] a = 3  -> At("count", 3, 0)     \* again:
      [] a = 6  -> At("rep", 2, 0)
      [] a = 8  -> At("count", 3, 0)
      [] a = 11 -> At("repc", 3, 0)
      [] a = 14 -> At("int", 2, 0)
      [] a = 16 -> At("jump", 3, 3)      \* jmp again
      [] a = 19 -> At("push", 1, 0)      \* handler:
      [] a = 20 -> At("count", 3, 0)
      [] a = 23 -> At("rep", 2, 0)
      [] a = 0  -> At("pop", 1, 0)
      [] a = 1  -> At("iret", 1, 0)
      [] OTHER  -> At("plain", 1, 0)]
MCCounts == {0, 1, 3}
MCMoves == {3, 8}
=============================================================================
