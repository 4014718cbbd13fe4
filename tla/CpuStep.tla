------------------------------- MODULE CpuStep -------------------------------
(***************************************************************************)
(* One call of processor.step (src/machine/processor/interface.odin): fill *)
(* from the prefetch queue, decode, execute, look for interrupts, refill   *)
(* the queue.  A repeated string instruction takes one call for every      *)
(* element, so it can be interrupted between two of them; it is then       *)
(* restarted from its first prefix.                                        *)
(*                                                                         *)
(* A byte in the queue is represented by the address it was fetched from.  *)
(* The guest's program is a constant; of its instructions only those that  *)
(* concern the flow of control and CX are told apart.  Whether the         *)
(* controller has a line to deliver is open (Pic, IrqPath).                *)
(***************************************************************************)
EXTENDS Integers, Sequences, SequencesExt

CONSTANTS
  Seg,        \* size of the code segment (65536)
  Program,    \* the instruction at each address
  Entry,      \* where the main program starts
  Handler,    \* where every interrupt leads
  QueueSize,  \* PREFETCH_QUEUE_SIZE
  Counts      \* repeat counts the guest uses

Addr == 0..Seg - 1
Ops  == {"plain", "sti", "count", "rep", "repc", "jump", "int", "push", "pop", "iret"}

CpuInstruction == [op : Ops, size : 1..6, target : Addr]

ASSUME CpuStepAssumption ==
  /\ Seg \in Nat \ 0..6 /\ QueueSize \in Nat /\ QueueSize < Seg
  /\ Program \in [Addr -> CpuInstruction]
  /\ Entry \in Addr /\ Handler \in Addr /\ Counts \subseteq Addr

VARIABLES
  cpu,    \* the processor and the guest's stack
  jobs    \* history: per interrupted context, what its last string instruction did
cpuVars == <<cpu, jobs>>

Plus(a, n) == IF a + n < Seg THEN a + n ELSE a + n - Seg     \* u16 addition

\* want: the repeat count; done: elements dealt with; end: the element at which a
\* comparison ended the repetition; begun: has the instruction started?
NoJob   == [want |-> 0, done |-> 0, end |-> 0, begun |-> FALSE]
TopJob  == Last(jobs)

\* enabled: the interrupt flag; rep: rep_prefix is set; insn: what was
\* decoded; start: stream.ip.
Cpu == [ip : Addr, cx : Addr, enabled : BOOLEAN, rep : BOOLEAN, insn : CpuInstruction, start : Addr,
        queue : Seq(Addr), flush : BOOLEAN, stack : Seq(Addr)]
CpuReset ==
  [ip |-> Entry, cx |-> 0, enabled |-> FALSE, rep |-> FALSE, insn |-> Program[Entry],
   start |-> Entry, queue |-> <<>>, flush |-> FALSE, stack |-> <<>>]
-----------------------------------------------------------------------------
\* decode: the bytes come from the queue first and then from ip onward; a prefix
\* REP stays only on string instructions ("rep", and "repc" that compare).
FetchAt(c) == IF c.queue = <<>> THEN c.ip ELSE Head(c.queue)
Repeated == {"rep", "repc"}
AfterFetch(q, n) == IF n < Len(q) THEN SubSeq(q, n + 1, Len(q)) ELSE <<>>
Decode(c) ==
  IF c.rep THEN c
  ELSE LET i == Program[FetchAt(c)]
       IN  [c EXCEPT !.insn = i, !.rep = i.op \in Repeated, !.start = c.ip,
                     !.ip = Plus(c.ip, i.size), !.queue = AfterFetch(c.queue, i.size)]

\* trigger_interrupt: an unfinished string instruction is entered again at its first
\* byte, any other instruction is over.
Word(b) == IF b THEN 1 ELSE 0
Trigger_PushesStart(c) ==       \* Mutant: the start of any string instruction.
  [c EXCEPT !.stack = @ \o <<Word(c.enabled), IF c.insn.op \in Repeated THEN c.start ELSE c.ip>>,
            !.rep = FALSE, !.enabled = FALSE, !.ip = Handler, !.flush = TRUE]
Trigger_KeepsQueue(c) ==        \* Mutant: the prefetched bytes are kept.
  [c EXCEPT !.stack = @ \o <<Word(c.enabled), IF c.rep THEN c.start ELSE c.ip>>,
            !.rep = FALSE, !.enabled = FALSE, !.ip = Handler]
Trigger(c) ==
  [c EXCEPT !.stack = @ \o <<Word(c.enabled), IF c.rep THEN c.start ELSE c.ip>>,
            !.rep = FALSE, !.enabled = FALSE, !.ip = Handler, !.flush = TRUE]

\* One element of a string instruction; with CX = 0 the repetition is over without
\* one.  hit: the comparison ends the repetition.
Element(c, hit) ==
  IF c.cx = 0 THEN [c EXCEPT !.rep = FALSE]
  ELSE [c EXCEPT !.cx = @ - 1, !.rep = ~(c.insn.op = "repc" /\ hit)]

Top(c, n) == c.stack[Len(c.stack) - n]
Drop(c, n) == SubSeq(c.stack, 1, Len(c.stack) - n)
Execute(c, count, hit) ==
  CASE c.insn.op = "sti"   -> [c EXCEPT !.enabled = TRUE]
    [] c.insn.op = "count" -> [c EXCEPT !.cx = count]
    [] c.insn.op \in Repeated -> Element(c, hit)
    [] c.insn.op = "jump"  -> [c EXCEPT !.ip = c.insn.target, !.flush = TRUE]
    [] c.insn.op = "int"   -> Trigger(c)
    [] c.insn.op = "push"  -> [c EXCEPT !.stack = Append(@, c.cx)]
    [] c.insn.op = "pop"   -> [c EXCEPT !.cx = Top(c, 0), !.stack = Drop(c, 1)]
    [] c.insn.op = "iret"  -> [c EXCEPT !.ip = Top(c, 0), !.enabled = Top(c, 1) = 1,
                                   !.stack = Drop(c, 2), !.flush = TRUE]
    [] OTHER -> c

\* check_interrupts, if the controller has a line to deliver
CpuTakesIrq(c, irq) == irq /\ c.enabled
CpuCheckInterrupts(c, irq) == IF CpuTakesIrq(c, irq) THEN Trigger(c) ELSE c

\* The bus fetches n bytes ahead, as far as there is room.
Prefetch_NoLimit(c, n) ==       \* Mutant: the queue has no limit.
  IF c.flush THEN [c EXCEPT !.flush = FALSE, !.queue = <<>>]
  ELSE [c EXCEPT !.queue = @ \o [k \in 1..n |-> Plus(c.ip, Len(c.queue) + k - 1)]]
Room(c, n) == IF n <= QueueSize - Len(c.queue) THEN n ELSE QueueSize - Len(c.queue)
Prefetch(c, n) ==
  IF c.flush THEN [c EXCEPT !.flush = FALSE, !.queue = <<>>]
  ELSE [c EXCEPT !.queue = @ \o [k \in 1..Room(c, n) |-> Plus(c.ip, Len(c.queue) + k - 1)]]

Executed(count, hit) == Execute(Decode(cpu), count, hit)
StepTo(count, hit, irq, n) ==
  Prefetch(CpuCheckInterrupts(Executed(count, hit), irq), n)
-----------------------------------------------------------------------------
\* The history of the context that executes c.insn.op: CX gets a value of its own, or an
\* element is dealt with.
JobAfter(job, c, count, hit) ==
  CASE c.insn.op = "count" -> [NoJob EXCEPT !.want = count]
    [] c.insn.op = "pop" -> NoJob
    [] c.insn.op \in Repeated /\ c.cx = 0 -> [job EXCEPT !.begun = TRUE]
    [] c.insn.op \in Repeated /\ c.cx # 0 ->
         [job EXCEPT !.begun = TRUE, !.done = @ + 1,
                     !.end = IF c.insn.op = "repc" /\ hit THEN job.done + 1 ELSE @]
    [] OTHER -> job
JobsAfter(c, count, hit) ==
  CASE c.insn.op = "int" -> Append(jobs, NoJob)
    [] c.insn.op = "iret" -> Front(jobs)
    [] OTHER -> Append(Front(jobs), JobAfter(TopJob, c, count, hit))

CpuInit == cpu = CpuReset /\ jobs = <<NoJob>>

\* The guest pops what it pushed; the stack pointer's wrap-around is left out.
Needs(op) == CASE op = "pop" -> 1 [] op = "iret" -> 2 [] OTHER -> 0

\* processor.step; n bytes are fetched ahead.
ProcessorStep(count, hit, irq, n) ==
  /\ Needs(Decode(cpu).insn.op) <= Len(cpu.stack)
  /\ cpu' = StepTo(count, hit, irq, n)
  /\ jobs' = IF CpuTakesIrq(Executed(count, hit), irq)
             THEN Append(JobsAfter(Decode(cpu), count, hit), NoJob)
             ELSE JobsAfter(Decode(cpu), count, hit)

ResetCpu == cpu' = CpuReset /\ jobs' = <<NoJob>>

CpuNext ==
  \/ \E count \in Counts, hit \in BOOLEAN, irq \in BOOLEAN, n \in 0..QueueSize :
       ProcessorStep(count, hit, irq, n)
  \/ ResetCpu

CpuSpec == CpuInit /\ [][CpuNext]_cpuVars
-----------------------------------------------------------------------------
CpuTypeOK == cpu \in Cpu /\ Len(cpu.queue) <= QueueSize

\* The queue holds the bytes that follow the instruction pointer, in order, and no
\* flush is left over: no step changes IP and keeps the queue (interface.odin:121).
QueueFollowsIp ==
  /\ ~cpu.flush
  /\ \A k \in DOMAIN cpu.queue : cpu.queue[k] = Plus(cpu.ip, k - 1)

\* A string instruction deals with every element once, however often it is
\* interrupted and restarted: CX always says what is left, nothing is done after the
\* comparison that ends it, and the program goes on behind it only when it is done
\* (cpu.odin:334-339, interface.odin:103-117).
ElementsOnce ==
  /\ TopJob.begun => TopJob.done + cpu.cx = TopJob.want
  /\ TopJob.end # 0 => TopJob.done = TopJob.end
  /\ TopJob.begun /\ ~cpu.rep /\ Program[FetchAt(cpu)].op \notin Repeated =>
       cpu.cx = 0 \/ TopJob.end # 0
=============================================================================
