---------------------------- MODULE CpuStepProofs ----------------------------
(***************************************************************************)
(* For every program: the prefetch queue holds the bytes behind the        *)
(* instruction pointer, and the processor does what one without a queue    *)
(* does.                                                                   *)
(***************************************************************************)
EXTENDS CpuPrefetch, SequenceTheorems, TLAPS

Follows(c) == \A k \in DOMAIN c.queue : c.queue[k] = Plus(c.ip, k - 1)
Typed(c) == c \in Cpu /\ Len(c.queue) <= QueueSize

LEMMA PlusTyped == ASSUME NEW a \in Addr, NEW n \in 0..Seg PROVE Plus(a, n) \in Addr
  BY CpuStepAssumption DEF Plus, Addr

LEMMA PlusPlus ==
  ASSUME NEW a \in Addr, NEW m \in Nat, NEW n \in Nat, m + n < Seg
  PROVE  Plus(Plus(a, m), n) = Plus(a, m + n)
  BY CpuStepAssumption DEF Plus, Addr

\* What is left of the queue once n bytes were taken from it.
LEMMA AfterFetchTyped ==
  ASSUME NEW q \in Seq(Addr), NEW n \in Nat
  PROVE  /\ AfterFetch(q, n) \in Seq(Addr)
         /\ Len(AfterFetch(q, n)) <= Len(q)
         /\ \A k \in DOMAIN AfterFetch(q, n) :
              k \in 1..Len(q) - n /\ AfterFetch(q, n)[k] = q[n + k]
  <1>1. CASE n < Len(q)
    <2>1. n + 1 \in 1..Len(q) + 1 /\ Len(q) \in 0..Len(q)
      BY <1>1, LenProperties
    <2>2. SubSeq(q, n + 1, Len(q)) \in Seq(Addr)
          /\ Len(SubSeq(q, n + 1, Len(q))) = Len(q) - n
          /\ \A k \in 1..Len(q) - n : SubSeq(q, n + 1, Len(q))[k] = q[n + k]
      BY <1>1
    <2> QED BY <1>1, <2>2 DEF AfterFetch
  <1>2. CASE ~(n < Len(q))
    BY <1>2, EmptySeq DEF AfterFetch
  <1> QED BY <1>1, <1>2

LEMMA DecodeTyped == ASSUME NEW c, Typed(c) PROVE Typed(Decode(c))
  <1>1. CASE c.rep
    BY <1>1 DEF Decode
  <1>2. CASE ~c.rep
    <2>1. FetchAt(c) \in Addr
      BY DEF FetchAt, Typed, Cpu
    <2>2. Program[FetchAt(c)] \in CpuInstruction
      BY <2>1, CpuStepAssumption
    <2> DEFINE i == Program[FetchAt(c)]
    <2>3. i.size \in Nat /\ i.size \in 0..Seg
      BY <2>2, CpuStepAssumption DEF CpuInstruction
    <2>4. AfterFetch(c.queue, i.size) \in Seq(Addr)
          /\ Len(AfterFetch(c.queue, i.size)) <= QueueSize
      BY <2>3, AfterFetchTyped, CpuStepAssumption DEF Typed, Cpu
    <2>5. Plus(c.ip, i.size) \in Addr
      BY <2>3, PlusTyped DEF Typed, Cpu
    <2> DEFINE r == i.op \in Repeated
               q == AfterFetch(c.queue, i.size)
               a == Plus(c.ip, i.size)
    <2>6. r \in BOOLEAN
      OBVIOUS
    <2>7. Decode(c) = [c EXCEPT !.insn = i, !.rep = r, !.start = c.ip, !.ip = a, !.queue = q]
      BY <1>2 DEF Decode
    <2>8. q \in Seq(Addr) /\ Len(q) <= QueueSize /\ a \in Addr /\ i \in CpuInstruction
      BY <2>2, <2>4, <2>5
    <2> HIDE DEF i, r, q, a
    <2> QED BY <2>6, <2>7, <2>8 DEF Typed, Cpu
  <1> QED BY <1>1, <1>2

LEMMA DecodeFollows ==
  ASSUME NEW c, Typed(c), Follows(c) PROVE Follows(Decode(c))
  <1>1. CASE c.rep
    BY <1>1 DEF Decode
  <1>2. CASE ~c.rep
    <2>1. FetchAt(c) \in Addr
      BY DEF FetchAt, Typed, Cpu
    <2>2. Program[FetchAt(c)] \in CpuInstruction
      BY <2>1, CpuStepAssumption
    <2> DEFINE n == Program[FetchAt(c)].size
               q == AfterFetch(c.queue, n)
    <2>3. n \in Nat
      BY <2>2 DEF CpuInstruction
    <2>4. Decode(c).queue = q /\ Decode(c).ip = Plus(c.ip, n)
      BY <1>2 DEF Decode, Typed, Cpu
    <2>5. SUFFICES ASSUME NEW k \in DOMAIN q PROVE q[k] = Plus(Plus(c.ip, n), k - 1)
      BY <2>4 DEF Follows
    <2>6. c.queue \in Seq(Addr) /\ c.ip \in Addr /\ Len(c.queue) \in Nat /\ Len(c.queue) <= QueueSize
      BY LenProperties DEF Typed, Cpu
    <2>7. k \in 1..Len(c.queue) - n /\ q[k] = c.queue[n + k]
      BY <2>3, <2>6, AfterFetchTyped
    <2> HIDE DEF n, q
    <2>8. n + k \in DOMAIN c.queue /\ k - 1 \in Nat /\ n + (k - 1) < Seg
          /\ (n + k) - 1 = n + (k - 1)
      <3>1. k \in Int /\ 1 <= k /\ k <= Len(c.queue) - n
        BY <2>3, <2>6, <2>7
      <3>2. n + k \in 1..Len(c.queue)
        BY <2>3, <2>6, <3>1
      <3>3. DOMAIN c.queue = 1..Len(c.queue)
        BY <2>6, LenProperties
      <3>4. n + k \in DOMAIN c.queue
        BY <3>2, <3>3
      <3>5. n + k <= QueueSize
        BY <2>3, <2>6, <3>1, CpuStepAssumption
      <3>6. k - 1 \in Nat /\ n + (k - 1) < Seg /\ (n + k) - 1 = n + (k - 1)
        BY <2>3, <3>1, <3>5, CpuStepAssumption
      <3> QED BY <3>4, <3>6
    <2>9. c.queue[n + k] = Plus(c.ip, n + (k - 1))
      BY <2>8 DEF Follows
    <2>10. Plus(Plus(c.ip, n), k - 1) = Plus(c.ip, n + (k - 1))
      BY <2>3, <2>6, <2>8, PlusPlus
    <2> QED BY <2>7, <2>9, <2>10
  <1> QED BY <1>1, <1>2

LEMMA TriggerTyped ==
  ASSUME NEW c, Typed(c)
  PROVE  Typed(Trigger(c)) /\ Trigger(c).flush
  <1>1. Word(c.enabled) \in Addr
    BY CpuStepAssumption DEF Word, Addr
  <1> DEFINE back == IF c.rep THEN c.start ELSE c.ip
  <1>2. back \in Addr
    BY DEF Typed, Cpu
  <1>3. c.stack \o <<Word(c.enabled), back>> \in Seq(Addr)
    BY <1>1, <1>2, ConcatProperties DEF Typed, Cpu
  <1> HIDE DEF back
  <1>4. Trigger(c) = [c EXCEPT !.stack = c.stack \o <<Word(c.enabled), back>>,
            !.rep = FALSE, !.enabled = FALSE, !.ip = Handler, !.flush = TRUE]
    BY DEF Trigger, back, Typed, Cpu
  <1> QED BY <1>3, <1>4, CpuStepAssumption DEF Typed, Cpu

LEMMA ElementTyped ==
  ASSUME NEW c, Typed(c), NEW hit \in BOOLEAN
  PROVE  /\ Typed(Element(c, hit))
         /\ Element(c, hit).queue = c.queue /\ Element(c, hit).ip = c.ip
         /\ Element(c, hit).flush = c.flush
  <1>1. CASE c.cx = 0
    <2>1. Element(c, hit) = [c EXCEPT !.rep = FALSE]
      BY <1>1 DEF Element
    <2> QED BY <2>1 DEF Typed, Cpu
  <1>2. CASE c.cx # 0
    <2> DEFINE more == ~(c.insn.op = "repc" /\ hit)
    <2>1. more \in BOOLEAN
      OBVIOUS
    <2>2. Element(c, hit) = [c EXCEPT !.cx = c.cx - 1, !.rep = more]
      BY <1>2 DEF Element, Typed, Cpu
    <2>3. c.cx - 1 \in Addr
      BY <1>2, CpuStepAssumption DEF Typed, Cpu, Addr
    <2> HIDE DEF more
    <2> QED BY <2>1, <2>2, <2>3 DEF Typed, Cpu
  <1> QED BY <1>1, <1>2

LEMMA TopTyped ==
  ASSUME NEW c, Typed(c), NEW n \in {1, 2}, n <= Len(c.stack)
  PROVE  Drop(c, n) \in Seq(Addr) /\ \A k \in 0..n - 1 : Top(c, k) \in Addr
  <1>1. c.stack \in Seq(Addr) /\ Len(c.stack) \in Nat
    BY LenProperties DEF Typed, Cpu
  <1>2. Len(c.stack) - n \in 0..Len(c.stack)
    BY <1>1
  <1>3. Drop(c, n) \in Seq(Addr)
    BY <1>1, <1>2 DEF Drop
  <1>4. ASSUME NEW k \in 0..n - 1 PROVE Top(c, k) \in Addr
    <2>1. Len(c.stack) - k \in 1..Len(c.stack)
      BY <1>1
    <2> QED BY <1>1, <2>1, ElementOfSeq DEF Top
  <1> QED BY <1>3, <1>4

\* Every instruction keeps the types; one that changes IP asks for a flush.
LEMMA ExecuteTyped ==
  ASSUME NEW c, Typed(c), NEW count \in Counts, NEW hit \in BOOLEAN,
         Needs(c.insn.op) <= Len(c.stack)
  PROVE  /\ Typed(Execute(c, count, hit))
         /\ Execute(c, count, hit).queue = c.queue
         /\ \/ Execute(c, count, hit).flush
            \/ /\ Execute(c, count, hit).ip = c.ip
               /\ Execute(c, count, hit).flush = c.flush
  <1> DEFINE e == Execute(c, count, hit)
  <1>1. CASE c.insn.op = "sti"
    <2>1. e = [c EXCEPT !.enabled = TRUE]
      BY <1>1 DEF Execute, Repeated
    <2> QED BY <2>1 DEF Typed, Cpu
  <1>2. CASE c.insn.op = "count"
    <2>1. e = [c EXCEPT !.cx = count]
      BY <1>2 DEF Execute, Repeated
    <2> QED BY <2>1, CpuStepAssumption DEF Typed, Cpu
  <1>3. CASE c.insn.op \in Repeated
    <2>1. e = Element(c, hit)
      BY <1>3 DEF Execute, Repeated
    <2> QED BY <2>1, ElementTyped
  <1>4. CASE c.insn.op = "jump"
    <2>1. e = [c EXCEPT !.ip = c.insn.target, !.flush = TRUE]
      BY <1>4 DEF Execute, Repeated
    <2>2. c.insn.target \in Addr
      BY DEF Typed, Cpu, CpuInstruction
    <2> QED BY <2>1, <2>2 DEF Typed, Cpu
  <1>5. CASE c.insn.op = "int"
    <2>1. e = Trigger(c)
      BY <1>5 DEF Execute, Repeated
    <2>2. Trigger(c).queue = c.queue
      BY DEF Trigger, Typed, Cpu
    <2> QED BY <2>1, <2>2, TriggerTyped
  <1>6. CASE c.insn.op = "push"
    <2>1. e = [c EXCEPT !.stack = Append(c.stack, c.cx)]
      BY <1>6 DEF Execute, Repeated
    <2>2. Append(c.stack, c.cx) \in Seq(Addr)
      BY AppendProperties DEF Typed, Cpu
    <2> QED BY <2>1, <2>2 DEF Typed, Cpu
  <1>7. CASE c.insn.op = "pop"
    <2>1. e = [c EXCEPT !.cx = Top(c, 0), !.stack = Drop(c, 1)]
      BY <1>7 DEF Execute, Repeated
    <2>2. 1 <= Len(c.stack)
      BY <1>7 DEF Needs
    <2>3. Top(c, 0) \in Addr /\ Drop(c, 1) \in Seq(Addr)
      BY <2>2, TopTyped
    <2> QED BY <2>1, <2>3 DEF Typed, Cpu
  <1>8. CASE c.insn.op = "iret"
    <2> DEFINE on == Top(c, 1) = 1
    <2>1. e = [c EXCEPT !.ip = Top(c, 0), !.enabled = on, !.stack = Drop(c, 2), !.flush = TRUE]
      BY <1>8 DEF Execute, Repeated
    <2>2. 2 <= Len(c.stack)
      BY <1>8 DEF Needs
    <2>3. Top(c, 0) \in Addr /\ Drop(c, 2) \in Seq(Addr)
      BY <2>2, TopTyped
    <2>4. on \in BOOLEAN
      OBVIOUS
    <2> HIDE DEF on
    <2> QED BY <2>1, <2>3, <2>4 DEF Typed, Cpu
  <1>9. CASE c.insn.op = "plain"
    BY <1>9 DEF Execute, Repeated
  <1>10. c.insn.op \in Ops
    BY DEF Typed, Cpu, CpuInstruction
  <1> QED BY <1>1, <1>2, <1>3, <1>4, <1>5, <1>6, <1>7, <1>8, <1>9, <1>10 DEF Ops, Repeated

\* At the end of a step the queue is short enough and follows IP.
LEMMA PrefetchFollows ==
  ASSUME NEW c, Typed(c), c.flush \/ Follows(c), NEW n \in 0..QueueSize
  PROVE  LET p == Prefetch(c, n) IN Typed(p) /\ ~p.flush /\ Follows(p)
  <1>1. CASE c.flush
    <2>1. Prefetch(c, n) = [c EXCEPT !.flush = FALSE, !.queue = <<>>]
      BY <1>1 DEF Prefetch
    <2>2. <<>> \in Seq(Addr) /\ Len(<<>>) = 0 /\ DOMAIN <<>> = {}
      BY EmptySeq
    <2> DEFINE p == Prefetch(c, n)
    <2>3. p \in Cpu /\ ~p.flush /\ p.queue = <<>>
      BY <2>1, <2>2 DEF Typed, Cpu
    <2> HIDE DEF p
    <2>4. Len(p.queue) <= QueueSize
      BY <2>2, <2>3, CpuStepAssumption
    <2>5. DOMAIN p.queue = {}
      BY <2>2, <2>3
    <2> QED BY <2>3, <2>4, <2>5 DEF Typed, Follows, p
  <1>2. CASE ~c.flush
    <2>0. Room(c, n) \in Nat /\ Len(c.queue) + Room(c, n) <= QueueSize
      <3>1. Len(c.queue) \in Nat /\ Len(c.queue) <= QueueSize /\ QueueSize \in Nat
        BY CpuStepAssumption, LenProperties DEF Typed, Cpu
      <3> DEFINE len == Len(c.queue)
      <3>2. Room(c, n) = IF n <= QueueSize - len THEN n ELSE QueueSize - len
        BY DEF Room
      <3>3. len \in Nat /\ len <= QueueSize /\ n \in Nat
        BY <3>1
      <3> HIDE DEF len
      <3>4. Room(c, n) \in Nat /\ len + Room(c, n) <= QueueSize
        BY <3>1, <3>2, <3>3
      <3> QED BY <3>4 DEF len
    <2> DEFINE r == Room(c, n)
               more == [k \in 1..r |-> Plus(c.ip, Len(c.queue) + k - 1)]
               q == c.queue \o more
    <2>1. c.queue \in Seq(Addr) /\ Len(c.queue) \in Nat /\ Len(c.queue) <= QueueSize
          /\ c.ip \in Addr
      BY LenProperties DEF Typed, Cpu
    <2>2. r \in Nat /\ Len(c.queue) + r <= QueueSize
      BY <2>0
    <2> HIDE DEF r
    <2>3. \A k \in 1..r : Len(c.queue) + k - 1 \in 0..Seg
      BY <2>1, <2>2, CpuStepAssumption
    <2>4. more \in Seq(Addr) /\ Len(more) = r /\ DOMAIN more = 1..r
      <3>1. \A k \in 1..r : Plus(c.ip, Len(c.queue) + k - 1) \in Addr
        BY <2>1, <2>3, PlusTyped
      <3> QED BY <2>2, <3>1
    <2>5. \A k \in 1..r : more[k] = Plus(c.ip, Len(c.queue) + k - 1)
      OBVIOUS
    <2> HIDE DEF more
    <2>6. q \in Seq(Addr) /\ Len(q) = Len(c.queue) + r
      BY <2>1, <2>4, ConcatProperties
    <2>7. \A k \in 1..Len(q) : q[k] = IF k <= Len(c.queue) THEN c.queue[k]
                                                        ELSE more[k - Len(c.queue)]
      BY <2>1, <2>4, ConcatProperties
    <2>8. \A k \in DOMAIN q : q[k] = Plus(c.ip, k - 1)
      <3>1. SUFFICES ASSUME NEW k \in 1..Len(q) PROVE q[k] = Plus(c.ip, k - 1)
        BY <2>6, LenProperties
      <3>2. CASE k <= Len(c.queue)
        <4>1. k \in DOMAIN c.queue
          BY <2>1, <2>6, <3>2, LenProperties
        <4> QED BY <1>2, <2>7, <3>2, <4>1 DEF Follows
      <3>3. CASE ~(k <= Len(c.queue))
        <4>1. k - Len(c.queue) \in 1..r
              /\ Len(c.queue) + (k - Len(c.queue)) - 1 = k - 1
          BY <2>1, <2>2, <2>6, <3>3
        <4> QED BY <2>5, <2>7, <3>3, <4>1
      <3> QED BY <3>2, <3>3
    <2>9. Prefetch(c, n) = [c EXCEPT !.queue = q]
      BY <1>2 DEF Prefetch, more, r, Typed, Cpu
    <2> HIDE DEF q
    <2> QED BY <1>2, <2>1, <2>2, <2>6, <2>8, <2>9, CpuStepAssumption DEF Typed, Cpu, Follows
  <1> QED BY <1>1, <1>2

\* From any typed state, a step ends with a queue that follows IP, if it began so or
\* with a flush that is due.
LEMMA StepFollows ==
  ASSUME Typed(cpu), cpu.flush \/ Follows(cpu),
         NEW count \in Counts, NEW hit \in BOOLEAN, NEW irq \in BOOLEAN,
         NEW n \in 0..QueueSize, Needs(Decode(cpu).insn.op) <= Len(cpu.stack)
  PROVE  LET p == StepTo(count, hit, irq, n) IN Typed(p) /\ ~p.flush /\ Follows(p)
  <1> DEFINE d == Decode(cpu)
             e == Execute(d, count, hit)
             f == CpuCheckInterrupts(e, irq)
  <1>1. d.flush = cpu.flush /\ d.stack = cpu.stack
    BY DEF Decode, Typed, Cpu
  <1>2. Typed(d) /\ (d.flush \/ Follows(d))
    BY <1>1, DecodeTyped, DecodeFollows
  <1>3. Needs(d.insn.op) <= Len(d.stack)
    BY <1>1
  <1> HIDE DEF d
  <1>4. Typed(e) /\ e.queue = d.queue /\ (e.flush \/ (e.ip = d.ip /\ e.flush = d.flush))
    BY <1>2, <1>3, ExecuteTyped
  <1>5. e.flush \/ Follows(e)
    BY <1>2, <1>4 DEF Follows
  <1> HIDE DEF e
  <1>6. Typed(f) /\ (f.flush \/ Follows(f))
    BY <1>4, <1>5, TriggerTyped DEF CpuCheckInterrupts
  <1> HIDE DEF f
  <1>7. StepTo(count, hit, irq, n) = Prefetch(f, n)
    BY DEF StepTo, Executed, d, e, f
  <1> QED BY <1>6, <1>7, PrefetchFollows

LEMMA ResetTyped == Typed(CpuReset) /\ ~CpuReset.flush /\ Follows(CpuReset)
  <1>1. 0 \in Addr /\ Entry \in Addr /\ Program[Entry] \in CpuInstruction
    BY CpuStepAssumption DEF Addr
  <1>2. <<>> \in Seq(Addr) /\ Len(<<>>) = 0 /\ DOMAIN <<>> = {}
    BY EmptySeq
  <1>3. CpuReset \in Cpu /\ CpuReset.queue = <<>> /\ ~CpuReset.flush
    BY <1>1, <1>2 DEF CpuReset, Cpu
  <1> HIDE DEF CpuReset
  <1>4. Len(CpuReset.queue) <= QueueSize /\ DOMAIN CpuReset.queue = {}
    BY <1>2, <1>3, CpuStepAssumption
  <1> QED BY <1>3, <1>4 DEF Typed, Follows

\* The invariant: types, and QueueFollowsIp, which is inductive with them.
IInv == Typed(cpu) /\ ~cpu.flush /\ Follows(cpu)

THEOREM IInvHolds == CpuSpec => []IInv
  <1>1. CpuInit => IInv
    BY ResetTyped DEF CpuInit, IInv
  <1>2. IInv /\ [CpuNext]_cpuVars => IInv'
    <2> SUFFICES ASSUME IInv, [CpuNext]_cpuVars PROVE IInv'
      OBVIOUS
    <2>1. ASSUME NEW count \in Counts, NEW hit \in BOOLEAN, NEW irq \in BOOLEAN,
                 NEW n \in 0..QueueSize, ProcessorStep(count, hit, irq, n)
          PROVE  IInv'
      <3>1. cpu' = StepTo(count, hit, irq, n)
            /\ Needs(Decode(cpu).insn.op) <= Len(cpu.stack)
        BY <2>1 DEF ProcessorStep
      <3>2. Typed(cpu') /\ ~cpu'.flush /\ Follows(cpu')
        BY <3>1, StepFollows DEF IInv
      <3> QED BY <3>2 DEF IInv, Typed, Follows
    <2>2. CASE ResetCpu
      <3>1. cpu' = CpuReset
        BY <2>2 DEF ResetCpu
      <3>2. Typed(cpu') /\ ~cpu'.flush /\ Follows(cpu')
        BY <3>1, ResetTyped
      <3> QED BY <3>2 DEF IInv, Typed, Follows
    <2>3. CASE UNCHANGED cpuVars
      BY <2>3 DEF cpuVars, IInv, Typed, Follows
    <2> QED BY <2>1, <2>2, <2>3 DEF CpuNext
  <1> QED BY <1>1, <1>2, PTL DEF CpuSpec

\* The processor's registers, queue and stack keep their types, and the queue its
\* limit, for any program (processor.step).
THEOREM CpuTyped == CpuSpec => []CpuTypeOK
  <1>1. IInv => CpuTypeOK
    BY DEF IInv, Typed, CpuTypeOK
  <1> QED BY <1>1, IInvHolds, PTL

\* For any program the queue follows IP (interface.odin:121).
THEOREM QueueFollows == CpuSpec => []QueueFollowsIp
  <1>1. IInv => QueueFollowsIp
    BY DEF IInv, Follows, QueueFollowsIp
  <1> QED BY <1>1, IInvHolds, PTL
-----------------------------------------------------------------------------
\* The processor without a queue, step by step.
NoQueue(c) == [c EXCEPT !.queue = <<>>]

LEMMA NoQueueFields ==
  ASSUME NEW c, Typed(c)
  PROVE  /\ NoQueue(c) \in Cpu /\ NoQueue(c).queue = <<>>
         /\ NoQueue(c).ip = c.ip /\ NoQueue(c).cx = c.cx /\ NoQueue(c).rep = c.rep
         /\ NoQueue(c).enabled = c.enabled /\ NoQueue(c).insn = c.insn
         /\ NoQueue(c).start = c.start /\ NoQueue(c).flush = c.flush
         /\ NoQueue(c).stack = c.stack
  <1>1. <<>> \in Seq(Addr)
    BY EmptySeq
  <1> QED BY <1>1 DEF NoQueue, Typed, Cpu

LEMMA DirectDecode ==
  ASSUME NEW c, Typed(c), Follows(c)
  PROVE  Direct!Decode(NoQueue(c)) = NoQueue(Decode(c))
  <1> DEFINE z == NoQueue(c)
  <1>1. CASE c.rep
    BY <1>1, NoQueueFields DEF Decode, Direct!Decode
  <1>2. CASE ~c.rep
    <2>1. FetchAt(c) = c.ip
      <3>1. CASE c.queue = <<>>
        BY <3>1 DEF FetchAt
      <3>2. CASE c.queue # <<>>
        <4>1. 1 \in DOMAIN c.queue /\ Head(c.queue) = c.queue[1]
          BY <3>2, EmptySeq, LenProperties DEF Typed, Cpu
        <4>2. c.queue[1] = Plus(c.ip, 1 - 1)
          BY <4>1 DEF Follows
        <4>3. Plus(c.ip, 1 - 1) = c.ip
          BY CpuStepAssumption DEF Plus, Typed, Cpu, Addr
        <4> QED BY <3>2, <4>1, <4>2, <4>3 DEF FetchAt
      <3> QED BY <3>1, <3>2
    <2>2. Direct!FetchAt(z) = c.ip
      BY NoQueueFields DEF Direct!FetchAt
    <2> DEFINE i == Program[c.ip]
               r == i.op \in Repeated
               a == Plus(c.ip, i.size)
    <2>3. i.size \in Nat
      BY CpuStepAssumption DEF Typed, Cpu, CpuInstruction
    <2>4. Direct!AfterFetch(<<>>, i.size) = <<>>
      BY <2>3, EmptySeq DEF Direct!AfterFetch
    <2>5. Direct!Decode(z) = [z EXCEPT !.insn = i, !.rep = r, !.start = c.ip, !.ip = a, !.queue = <<>>]
      BY <1>2, <2>2, <2>4, NoQueueFields DEF Direct!Decode, Direct!Plus, Plus, Direct!Repeated, Repeated
    <2>6. Decode(c) = [c EXCEPT !.insn = i, !.rep = r, !.start = c.ip, !.ip = a,
                                !.queue = AfterFetch(c.queue, i.size)]
      BY <1>2, <2>1 DEF Decode
    <2> HIDE DEF i, r, a
    <2> QED BY <2>5, <2>6 DEF NoQueue, Typed, Cpu
  <1> QED BY <1>1, <1>2

LEMMA DirectTrigger ==
  ASSUME NEW c, Typed(c)
  PROVE  Direct!Trigger(NoQueue(c)) = NoQueue(Trigger(c))
  <1> DEFINE st == c.stack \o <<Word(c.enabled), IF c.rep THEN c.start ELSE c.ip>>
             z == NoQueue(c)
  <1>1. Trigger(c) = [c EXCEPT !.stack = st, !.rep = FALSE, !.enabled = FALSE,
                               !.ip = Handler, !.flush = TRUE]
    BY DEF Trigger, Typed, Cpu
  <1>2. Direct!Word(z.enabled) = Word(c.enabled)
    BY NoQueueFields DEF Direct!Word, Word
  <1>3. Direct!Trigger(z) = [z EXCEPT !.stack = st, !.rep = FALSE, !.enabled = FALSE,
                                      !.ip = Handler, !.flush = TRUE]
    <2>1. Direct!Trigger(z) =
            [z EXCEPT !.stack = z.stack \o <<Direct!Word(z.enabled), IF z.rep THEN z.start ELSE z.ip>>,
                      !.rep = FALSE, !.enabled = FALSE, !.ip = Handler, !.flush = TRUE]
      BY NoQueueFields DEF Direct!Trigger, Cpu
    <2> QED BY <1>2, <2>1, NoQueueFields, ZenonT(30)
  <1> HIDE DEF st
  <1> QED BY <1>1, <1>3 DEF NoQueue, Typed, Cpu

LEMMA DirectExecute ==
  ASSUME NEW c, Typed(c), NEW count \in Counts, NEW hit \in BOOLEAN
  PROVE  Direct!Execute(NoQueue(c), count, hit) = NoQueue(Execute(c, count, hit))
  <1> DEFINE z == NoQueue(c)
             e == Execute(c, count, hit)
             f == Direct!Execute(z, count, hit)
  <1>1. z.insn.op = c.insn.op /\ Direct!Repeated = Repeated
    BY NoQueueFields DEF Direct!Repeated, Repeated
  <1>2. CASE c.insn.op = "sti"
    <2>1. e = [c EXCEPT !.enabled = TRUE] /\ f = [z EXCEPT !.enabled = TRUE]
      BY <1>1, <1>2 DEF Execute, Direct!Execute, Repeated
    <2> QED BY <2>1 DEF NoQueue, Typed, Cpu
  <1>3. CASE c.insn.op = "count"
    <2>1. e = [c EXCEPT !.cx = count] /\ f = [z EXCEPT !.cx = count]
      BY <1>1, <1>3 DEF Execute, Direct!Execute, Repeated
    <2> QED BY <2>1 DEF NoQueue, Typed, Cpu
  <1>4. CASE c.insn.op \in Repeated
    <2>1. e = Element(c, hit) /\ f = Direct!Element(z, hit)
      BY <1>1, <1>4 DEF Execute, Direct!Execute, Repeated
    <2>2. CASE c.cx = 0
      <3>1. e = [c EXCEPT !.rep = FALSE] /\ f = [z EXCEPT !.rep = FALSE]
        BY <2>1, <2>2, NoQueueFields DEF Element, Direct!Element
      <3> QED BY <3>1 DEF NoQueue, Typed, Cpu
    <2>3. CASE c.cx # 0
      <3> DEFINE more == ~(c.insn.op = "repc" /\ hit)
                 left == c.cx - 1
      <3>1. e = [c EXCEPT !.cx = left, !.rep = more]
        BY <2>1, <2>3 DEF Element, Typed, Cpu
      <3>2. f = [z EXCEPT !.cx = left, !.rep = more]
        BY <1>1, <2>1, <2>3, NoQueueFields DEF Direct!Element, Cpu
      <3> HIDE DEF more, left
      <3> QED BY <3>1, <3>2 DEF NoQueue, Typed, Cpu
    <2> QED BY <2>2, <2>3
  <1>5. CASE c.insn.op = "jump"
    <2>1. e = [c EXCEPT !.ip = c.insn.target, !.flush = TRUE]
          /\ f = [z EXCEPT !.ip = c.insn.target, !.flush = TRUE]
      BY <1>1, <1>5, NoQueueFields DEF Execute, Direct!Execute, Repeated
    <2> QED BY <2>1 DEF NoQueue, Typed, Cpu
  <1>6. CASE c.insn.op = "int"
    <2>1. e = Trigger(c) /\ f = Direct!Trigger(z)
      BY <1>1, <1>6 DEF Execute, Direct!Execute, Repeated
    <2> QED BY <2>1, DirectTrigger
  <1>7. CASE c.insn.op = "push"
    <2> DEFINE st == Append(c.stack, c.cx)
    <2>1. e = [c EXCEPT !.stack = st] /\ f = [z EXCEPT !.stack = st]
      BY <1>1, <1>7, NoQueueFields DEF Execute, Direct!Execute, Repeated, Typed, Cpu
    <2> HIDE DEF st
    <2> QED BY <2>1 DEF NoQueue, Typed, Cpu
  <1>8. CASE c.insn.op = "pop"
    <2> DEFINE x == Top(c, 0)
               st == Drop(c, 1)
    <2>1. Direct!Top(z, 0) = x /\ Direct!Drop(z, 1) = st
      BY NoQueueFields DEF Direct!Top, Direct!Drop, Top, Drop
    <2>2. e = [c EXCEPT !.cx = x, !.stack = st] /\ f = [z EXCEPT !.cx = x, !.stack = st]
      BY <1>1, <1>8, <2>1 DEF Execute, Direct!Execute, Repeated
    <2> HIDE DEF x, st
    <2> QED BY <2>2 DEF NoQueue, Typed, Cpu
  <1>9. CASE c.insn.op = "iret"
    <2> DEFINE x == Top(c, 0)
               on == Top(c, 1) = 1
               st == Drop(c, 2)
    <2>1. Direct!Top(z, 0) = x /\ Direct!Top(z, 1) = Top(c, 1) /\ Direct!Drop(z, 2) = st
      BY NoQueueFields DEF Direct!Top, Direct!Drop, Top, Drop
    <2>2. e = [c EXCEPT !.ip = x, !.enabled = on, !.stack = st, !.flush = TRUE]
      BY <1>9 DEF Execute, Repeated
    <2>3. f = [z EXCEPT !.ip = x, !.enabled = on, !.stack = st, !.flush = TRUE]
      BY <1>1, <1>9, <2>1 DEF Direct!Execute, Repeated
    <2> HIDE DEF x, on, st
    <2> QED BY <2>2, <2>3 DEF NoQueue, Typed, Cpu
  <1>10. CASE c.insn.op = "plain"
    BY <1>1, <1>10 DEF Execute, Direct!Execute, Repeated
  <1>11. c.insn.op \in Ops
    BY DEF Typed, Cpu, CpuInstruction
  <1> QED BY <1>2, <1>3, <1>4, <1>5, <1>6, <1>7, <1>8, <1>9, <1>10, <1>11 DEF Ops, Repeated

LEMMA DirectPrefetch ==
  ASSUME NEW c, Typed(c), NEW n \in 0..QueueSize
  PROVE  Direct!Prefetch(NoQueue(c), 0) = NoQueue(Prefetch(c, n))
  <1> DEFINE z == NoQueue(c)
  <1>1. CASE c.flush
    <2>1. Prefetch(c, n) = [c EXCEPT !.flush = FALSE, !.queue = <<>>]
          /\ Direct!Prefetch(z, 0) = [z EXCEPT !.flush = FALSE, !.queue = <<>>]
      BY <1>1, NoQueueFields DEF Prefetch, Direct!Prefetch
    <2> QED BY <2>1 DEF NoQueue, Typed, Cpu
  <1>2. CASE ~c.flush
    <2> DEFINE q == c.queue \o [k \in 1..Room(c, n) |-> Plus(c.ip, Len(c.queue) + k - 1)]
               r == Direct!Room(z, 0)
    <2>1. r = 0
      BY NoQueueFields, EmptySeq DEF Direct!Room
    <2>2. Prefetch(c, n) = [c EXCEPT !.queue = q]
      BY <1>2 DEF Prefetch, Typed, Cpu
    <2>3. <<>> \o [k \in 1..r |-> Direct!Plus(z.ip, Len(<<>>) + k - 1)] = <<>>
      BY <2>1
    <2>4. Direct!Prefetch(z, 0) = [z EXCEPT !.queue = <<>>]
      BY <1>2, <2>3, NoQueueFields DEF Direct!Prefetch, Cpu
    <2> HIDE DEF q
    <2> QED BY <2>2, <2>4 DEF NoQueue, Typed, Cpu
  <1> QED BY <1>1, <1>2

LEMMA DirectJobs ==
  ASSUME NEW c, Typed(c), NEW count \in Counts, NEW hit \in BOOLEAN
  PROVE  Direct!JobsAfter(NoQueue(c), count, hit) = JobsAfter(c, count, hit)
  <1>1. NoQueue(c).insn.op = c.insn.op /\ NoQueue(c).cx = c.cx
    BY NoQueueFields
  <1>2. Direct!NoJob = NoJob /\ Direct!TopJob = TopJob /\ Direct!Repeated = Repeated
    BY DEF Direct!NoJob, NoJob, Direct!TopJob, TopJob, Direct!Repeated, Repeated, Direct!Last, Last
  <1>3. Direct!JobAfter(TopJob, NoQueue(c), count, hit) = JobAfter(TopJob, c, count, hit)
    BY <1>1, <1>2 DEF Direct!JobAfter, JobAfter
  <1> QED BY <1>1, <1>2, <1>3 DEF Direct!JobsAfter, JobsAfter, Direct!Front, Front

LEMMA DirectReset == [CpuReset EXCEPT !.queue = <<>>] = Direct!CpuReset
  <1>1. Direct!CpuReset = CpuReset
    BY DEF Direct!CpuReset, CpuReset
  <1>2. CpuReset \in Cpu /\ CpuReset.queue = <<>>
    BY ResetTyped DEF CpuReset, Typed
  <1> HIDE DEF CpuReset
  <1> QED BY <1>1, <1>2 DEF Cpu

LEMMA DirectStep ==
  ASSUME Typed(cpu), ~cpu.flush, Follows(cpu),
         NEW count \in Counts, NEW hit \in BOOLEAN, NEW irq \in BOOLEAN,
         NEW n \in 0..QueueSize, ProcessorStep(count, hit, irq, n)
  PROVE  Direct!ProcessorStep(count, hit, irq, 0)
  <1> DEFINE d == Decode(cpu)
             e == Execute(d, count, hit)
             f == CpuCheckInterrupts(e, irq)
  <1>1. Typed(d) /\ d.stack = cpu.stack
    <2>1. d.stack = cpu.stack
      BY DEF Decode, Typed, Cpu
    <2> QED BY <2>1, DecodeTyped
  <1>2. Direct!Decode(NoQueue(cpu)) = NoQueue(d)
    BY DirectDecode
  <1>3. Needs(d.insn.op) <= Len(d.stack)
    BY <1>1 DEF ProcessorStep
  <1> HIDE DEF d
  <1>4. Typed(e)
    BY <1>1, <1>3, ExecuteTyped
  <1>5. Direct!Execute(NoQueue(d), count, hit) = NoQueue(e)
    BY <1>1, DirectExecute
  <1>6. Direct!JobsAfter(NoQueue(d), count, hit) = JobsAfter(d, count, hit)
    BY <1>1, DirectJobs
  <1> HIDE DEF e
  <1>7. Direct!CpuTakesIrq(NoQueue(e), irq) = CpuTakesIrq(e, irq)
    BY <1>4, NoQueueFields DEF Direct!CpuTakesIrq, CpuTakesIrq
  <1>8. Direct!CpuCheckInterrupts(NoQueue(e), irq) = NoQueue(f)
    BY <1>4, <1>7, DirectTrigger DEF Direct!CpuCheckInterrupts, CpuCheckInterrupts
  <1>9. Typed(f)
    BY <1>4, TriggerTyped DEF CpuCheckInterrupts
  <1> HIDE DEF f
  <1>10. Direct!Prefetch(NoQueue(f), 0) = NoQueue(Prefetch(f, n))
    BY <1>9, DirectPrefetch
  <1>11. NoQueue(cpu) = [cpu EXCEPT !.queue = <<>>] /\ NoQueue(cpu)' = [cpu EXCEPT !.queue = <<>>]'
    BY DEF NoQueue
  <1>12. cpu' = Prefetch(f, n)
    BY DEF ProcessorStep, StepTo, Executed, d, e, f
  <1>13. [cpu EXCEPT !.queue = <<>>]' = NoQueue(Prefetch(f, n))
    BY <1>12 DEF NoQueue
  <1>14. Direct!Executed(count, hit) = NoQueue(e)
    BY <1>2, <1>5, <1>11 DEF Direct!Executed, d, e
  <1>15. [cpu EXCEPT !.queue = <<>>]' = Direct!StepTo(count, hit, irq, 0)
    BY <1>8, <1>10, <1>13, <1>14 DEF Direct!StepTo
  <1>16. Direct!Needs(Direct!Decode([cpu EXCEPT !.queue = <<>>]).insn.op)
           <= Len([cpu EXCEPT !.queue = <<>>].stack)
    <2>1. Direct!Decode([cpu EXCEPT !.queue = <<>>]).insn.op = d.insn.op
      BY <1>1, <1>2, <1>11, NoQueueFields
    <2>2. [cpu EXCEPT !.queue = <<>>].stack = d.stack
      BY <1>1, <1>11, NoQueueFields
    <2>3. Direct!Needs(d.insn.op) = Needs(d.insn.op)
      BY DEF Direct!Needs, Needs
    <2> QED BY <1>3, <2>1, <2>2, <2>3
  <1>17. jobs' = IF Direct!CpuTakesIrq(Direct!Executed(count, hit), irq)
                 THEN Append(Direct!JobsAfter(Direct!Decode([cpu EXCEPT !.queue = <<>>]), count, hit), Direct!NoJob)
                 ELSE Direct!JobsAfter(Direct!Decode([cpu EXCEPT !.queue = <<>>]), count, hit)
    <2>1. Direct!NoJob = NoJob
      BY DEF Direct!NoJob, NoJob
    <2>2. Direct!JobsAfter(Direct!Decode([cpu EXCEPT !.queue = <<>>]), count, hit)
            = JobsAfter(d, count, hit)
      BY <1>2, <1>6, <1>11
    <2>3. Direct!CpuTakesIrq(Direct!Executed(count, hit), irq) = CpuTakesIrq(e, irq)
      BY <1>7, <1>14
    <2>4. jobs' = IF CpuTakesIrq(e, irq) THEN Append(JobsAfter(d, count, hit), NoJob)
                                      ELSE JobsAfter(d, count, hit)
      BY DEF ProcessorStep, Executed, d, e
    <2> QED BY <2>1, <2>2, <2>3, <2>4
  <1> QED BY <1>15, <1>16, <1>17 DEF Direct!ProcessorStep

\* The prefetch queue cannot be seen by any program
\* (decode.odin:200-203, interface.odin:121-135).
THEOREM QueueIsInvisible == CpuSpec => QueueInvisible
  <1>1. CpuInit => Direct!CpuInit
    <2> SUFFICES ASSUME CpuInit PROVE Direct!CpuInit
      OBVIOUS
    <2>1. [cpu EXCEPT !.queue = <<>>] = Direct!CpuReset
      BY DirectReset DEF CpuInit
    <2> QED BY <2>1 DEF CpuInit, Direct!CpuInit, NoJob, Direct!NoJob
  <1>2. IInv /\ [CpuNext]_cpuVars =>
          [Direct!cpuVars' # Direct!cpuVars => Direct!CpuNext]_(Direct!cpuVars)
    <2> SUFFICES ASSUME IInv, [CpuNext]_cpuVars
                 PROVE  Direct!CpuNext \/ UNCHANGED Direct!cpuVars
      OBVIOUS
    <2>1. ASSUME NEW count \in Counts, NEW hit \in BOOLEAN, NEW irq \in BOOLEAN,
                 NEW n \in 0..QueueSize, ProcessorStep(count, hit, irq, n)
          PROVE  Direct!CpuNext
      <3>1. Direct!ProcessorStep(count, hit, irq, 0)
        BY <2>1, DirectStep DEF IInv
      <3>2. 0 \in 0..0
        OBVIOUS
      <3> QED BY <3>1, <3>2 DEF Direct!CpuNext
    <2>2. CASE ResetCpu
      <3>1. [cpu EXCEPT !.queue = <<>>]' = Direct!CpuReset
        BY <2>2, DirectReset DEF ResetCpu
      <3> QED BY <2>2, <3>1 DEF ResetCpu, Direct!ResetCpu, Direct!CpuNext, NoJob, Direct!NoJob
    <2>3. CASE UNCHANGED cpuVars
      BY <2>3 DEF cpuVars, Direct!cpuVars
    <2> QED BY <2>1, <2>2, <2>3 DEF CpuNext
  <1> QED BY <1>1, <1>2, IInvHolds, PTL DEF CpuSpec, QueueInvisible
=============================================================================
