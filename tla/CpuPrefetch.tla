----------------------------- MODULE CpuPrefetch -----------------------------
(***************************************************************************)
(* The prefetch queue cannot be seen: the processor with a queue does what *)
(* a processor does that fetches every byte when it decodes it.  The       *)
(* latter is CpuStep with a queue of no bytes.                             *)
(***************************************************************************)
EXTENDS CpuStep

Direct == INSTANCE CpuStep WITH QueueSize <- 0,
                                cpu <- [cpu EXCEPT !.queue = <<>>]

\* The guest cannot tell whether bytes were fetched ahead (decode.odin:200-203,
\* interface.odin:121-135), as long as it does not modify its own code: every step
\* that can be seen without the queue is one of the processor without a queue.  (The
\* specification Direct!CpuSpec, with its stuttering steps singled out.)
QueueInvisible ==
  /\ Direct!CpuInit
  /\ [][Direct!cpuVars' # Direct!cpuVars => Direct!CpuNext]_(Direct!cpuVars)
=============================================================================
