------------------------------- MODULE CpuDebug -------------------------------
(***************************************************************************)
(* The processor of CpuStep with the GDB stub attached: between two steps  *)
(* the stub's timer lets the debugger change the instruction pointer.      *)
(***************************************************************************)
EXTENDS CpuStep

CONSTANT Moves    \* where the debugger moves the main program to

\* The GDB stub's timer: the debugger moves the instruction pointer between two
\* steps of the main program, and the stub asks for the queue to be flushed
\* (gdb.odin:170, 224).
DebuggerMoves(a) ==
  /\ cpu.stack = <<>>
  /\ cpu' = [cpu EXCEPT !.ip = a, !.flush = TRUE]
  /\ UNCHANGED jobs

DebugSpec == CpuInit /\ [][CpuNext \/ \E a \in Moves : DebuggerMoves(a)]_cpuVars
-----------------------------------------------------------------------------
\* What flush_prefetch is called for by the debugger (gdb.odin:170): the next
\* instruction is the one at the instruction pointer.
ExecutesAtIp == ~cpu.rep => FetchAt(cpu) = cpu.ip
=============================================================================
