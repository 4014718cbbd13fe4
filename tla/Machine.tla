------------------------------- MODULE Machine -------------------------------
(***************************************************************************)
(* The machine core (src/machine/machine.odin, src/machine/interface.odin, *)
(* src/machine/peripheral/interface.odin): building a machine from its     *)
(* modules, the routing of memory and ports, the timers, and the end.      *)
(*                                                                         *)
(* Memory is counted in paragraphs; a module is its name and the address   *)
(* it is configured for.  An instruction is the cycles it takes.  The      *)
(* configuration switches of the PPI are the adapter they tell.            *)
(***************************************************************************)
EXTENDS Integers, Sequences, FiniteSetsExt, SequencesExt

CONSTANTS
  Modules,       \* names of modules, "chipset" and "vga" among them
  Blocks,        \* paragraphs of memory
  Ports,
  Size, Bases,   \* of a module: the paragraphs it claims, where they may be,
  Io, Intervals, \* the ports it claims, and the intervals of its timers
  Unreliable,    \* modules whose installation may fail
  Settable,      \* intervals the guest gives the timers of the video adapter
  Frequencies,
  Second,        \* units of an interval in a second
  Cycles         \* of an instruction

\* What a machine may be built of.
MachineAssumption ==
  /\ IsFiniteSet(Modules) /\ Blocks \in Nat \ {0} /\ Cycles \subseteq Nat
  /\ \A m \in Modules \cup {"memory"} : Intervals[m] \in Seq(Nat)

VARIABLES
  machine,      \* "none", "created", "failed", "running"
  peripherals, timers, memory_map, io_map, interrupt_controler, cpu_frequency,
  switches,     \* of the PPI
  owed          \* for each timer, the cycles its module was not told of yet

vars == <<machine, peripherals, timers, memory_map, io_map, interrupt_controler,
          cpu_frequency, switches, owed>>

Addresses == 0..Blocks - 1
-----------------------------------------------------------------------------
(* A machine is built. *)

\* setup_default_peripheral: main memory is everywhere a module is not.
MainMemory == [mod |-> "memory", base |-> 0]
SizeOf(p) == IF p = MainMemory THEN Blocks ELSE Size[p.mod]
PortsOf_None(p) ==   \* Mutant: main memory has no ports.
  IF p = MainMemory THEN {} ELSE Io[p.mod]
PortsOf(p) == IF p = MainMemory THEN Ports ELSE Io[p.mod]

\* register_memory_address_range: the end is cut to 20 bits, so that a range over the
\* end of memory is none.
Claimed(p) == {a \in Addresses : SizeOf(p) > 0 /\ p.base <= a
                                   /\ a <= (p.base + SizeOf(p) - 1) % Blocks}

\* The module has the place i in the list.  VGA tells the PPI while it is installed,
\* which may come later in the list.
Install(s, p) ==
  IF ~s.ok THEN s
  ELSE [s EXCEPT
    !.place = @ + 1,
    !.memory_map = [a \in Addresses |-> IF a \in Claimed(p) THEN s.place ELSE @[a]],
    !.io_map = [a \in Ports |-> IF a \in PortsOf(p) THEN s.place ELSE @[a]],
    !.timers = @ \o [k \in 1..Len(Intervals[p.mod]) |->
                      [interval |-> Intervals[p.mod][k], ticks |-> 0, pidx |-> s.place]],
    !.interrupt_controler = IF p.mod = "chipset" THEN s.place ELSE @,
    !.switches = IF p.mod = "vga" THEN "vga" ELSE @,
    !.ok = p.mod \notin s.failing]

\* The reset of the PPI, and of no other module, has a part in this.
SwitchesAfterReset_Default(s) == "cga"   \* Mutant: the switches are reset too.
SwitchesAfterReset(s) == s

Init ==
  /\ machine = "none" /\ peripherals = <<>> /\ timers = <<>>
  /\ memory_map = [a \in Addresses |-> 0] /\ io_map = [a \in Ports |-> 0]
  /\ interrupt_controler = 0 /\ cpu_frequency \in Frequencies
  /\ switches = "cga" /\ owed = <<>>

\* The maps are of the machine before.
Create ==
  /\ machine \in {"none", "failed"} /\ machine' = "created"
  /\ peripherals' = <<MainMemory>> /\ timers' = <<>> /\ owed' = <<>>
  /\ UNCHANGED <<memory_map, io_map, interrupt_controler, cpu_frequency, switches>>

\* instantiate, and the configuration of the address.
Instantiate(m, base) ==
  /\ machine = "created" /\ \A i \in DOMAIN peripherals : peripherals[i].mod # m
  /\ peripherals' = Append(peripherals, [mod |-> m, base |-> base])
  /\ switches' = IF m = "chipset" THEN "cga" ELSE switches
  /\ UNCHANGED <<machine, timers, memory_map, io_map, interrupt_controler, cpu_frequency,
                 owed>>

\* What is left of a machine is not read before the next one is created.
Forgotten == peripherals' = <<>> /\ timers' = <<>> /\ owed' = <<>>

\* A configuration file is refused.
Refuse ==
  /\ machine = "created" /\ machine' = "failed" /\ Forgotten
  /\ UNCHANGED <<memory_map, io_map, interrupt_controler, cpu_frequency, switches>>

\* initialize, and the reset it ends with; every machine has the chipset.
Initialize(failing) ==
  LET start == [place |-> 0, ok |-> TRUE, failing |-> failing, timers |-> timers,
                memory_map |-> memory_map, io_map |-> io_map, switches |-> switches,
                interrupt_controler |-> interrupt_controler]
  IN  /\ machine = "created" /\ \E i \in DOMAIN peripherals : peripherals[i].mod = "chipset"
      /\ \E s \in {FoldLeft(Install, start, peripherals)} :
           /\ machine' = IF s.ok THEN "running" ELSE "failed"
           /\ memory_map' = s.memory_map /\ io_map' = s.io_map
           /\ interrupt_controler' = s.interrupt_controler
           /\ switches' = IF s.ok THEN SwitchesAfterReset(s.switches) ELSE s.switches
           /\ IF s.ok
              THEN /\ timers' = s.timers /\ owed' = [id \in DOMAIN s.timers |-> 0]
                   /\ UNCHANGED peripherals
              ELSE Forgotten
      /\ UNCHANGED cpu_frequency
-----------------------------------------------------------------------------
(* It runs. *)

\* configure "machine", "cpu_frequency"
Configure(frequency) ==
  /\ machine \in {"created", "running"} /\ cpu_frequency' = frequency
  /\ UNCHANGED <<machine, peripherals, timers, memory_map, io_map, interrupt_controler,
                 switches, owed>>

\* reset; timers run on.
Reset(frequency) ==
  /\ machine = "running" /\ cpu_frequency' = frequency
  /\ switches' = SwitchesAfterReset(switches)
  /\ UNCHANGED <<machine, peripherals, timers, memory_map, io_map, interrupt_controler,
                 owed>>

\* The guest sets the video mode.
SetTimerInterval(id, interval) ==
  /\ machine = "running" /\ peripherals[timers[id].pidx + 1].mod = "vga"
  /\ timers' = [timers EXCEPT ![id].interval = interval]
  /\ UNCHANGED <<machine, peripherals, memory_map, io_map, interrupt_controler,
                 cpu_frequency, switches, owed>>

Threshold(t) == (t.interval * cpu_frequency) \div Second

\* What the module is told.
Told_Last(t, n) ==   \* Mutant: only the last instruction's cycles.
  IF t.ticks + n >= Threshold(t) THEN n ELSE 0
Told(t, n) == IF t.ticks + n >= Threshold(t) THEN t.ticks + n ELSE 0

Ticks(t, n) == IF t.ticks + n >= Threshold(t) THEN 0 ELSE t.ticks + n

\* One turn of step: an instruction, and update_timers.
Step(n) ==
  /\ machine = "running"
  /\ timers' = [id \in DOMAIN timers |-> [timers[id] EXCEPT !.ticks = Ticks(timers[id], n)]]
  /\ owed' = [id \in DOMAIN timers |-> owed[id] + n - Told(timers[id], n)]
  /\ UNCHANGED <<machine, peripherals, memory_map, io_map, interrupt_controler,
                 cpu_frequency, switches>>

\* destroy; the lists dangle.
Destroy ==
  /\ machine = "running" /\ machine' = "none" /\ Forgotten
  /\ UNCHANGED <<memory_map, io_map, interrupt_controler, cpu_frequency, switches>>

Next ==
  \/ Create \/ Refuse \/ Destroy
  \/ \E m \in Modules : \E base \in Bases[m] : Instantiate(m, base)
  \/ \E failing \in SUBSET Unreliable : Initialize(failing)
  \/ \E frequency \in Frequencies : Configure(frequency) \/ Reset(frequency)
  \/ \E id \in DOMAIN timers, interval \in Settable : SetTimerInterval(id, interval)
  \/ \E n \in Cycles : Step(n)
-----------------------------------------------------------------------------
TypeOK ==
  /\ machine \in {"none", "created", "failed", "running"}
  /\ \A a \in Addresses : memory_map[a] \in 0..Cardinality(Modules)
  /\ \A a \in Ports : io_map[a] \in 0..Cardinality(Modules)
  /\ cpu_frequency \in Frequencies /\ switches \in {"cga", "vga"}
  /\ DOMAIN owed = DOMAIN timers

\* The guest reaches the module of this machine that was listed last among those that
\* claim the address or port, whatever machine was there before and wherever its
\* installation stopped; requests go to this machine's controller.
Routed ==
  machine = "running" =>
    /\ \A a \in Addresses :
         LET claims == {i \in DOMAIN peripherals : a \in Claimed(peripherals[i])}
         IN  claims # {} /\ memory_map[a] = Max(claims) - 1
    /\ \A a \in Ports :
         LET claims == {i \in DOMAIN peripherals : a \in PortsOf(peripherals[i])}
         IN  claims # {} /\ io_map[a] = Max(claims) - 1
    /\ peripherals[interrupt_controler + 1].mod = "chipset"

\* The BIOS reads from the switches the adapter there is, in whatever order the modules
\* were listed and after every reset.
SwitchesTrue ==
  machine = "running" =>
    (switches = "vga" <=> \E i \in DOMAIN peripherals : peripherals[i].mod = "vga")

\* A module is told of every cycle once, however its interval and the frequency change
\* while they are counted.
CyclesCounted ==
  machine = "running" => \A id \in DOMAIN timers : owed[id] = timers[id].ticks
=============================================================================
