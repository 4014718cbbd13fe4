-------------------------------- MODULE Engine --------------------------------
(***************************************************************************)
(* The components that are not devices, side by side: the interrupt path,  *)
(* the processor with its prefetch queue, the GDB stub and the file server *)
(* of RIFS2.  A behaviour is one of one component, and the others stay as  *)
(* they are at first.                                                      *)
(***************************************************************************)
EXTENDS IrqPath, CpuPrefetch, GdbStub, RifsLink

VARIABLE component
engineVars == <<component, irqVars, cpuVars, gdbVars, serverVars>>

\* Components that are not looked at start in one state.
EngineInit ==
  /\ component \in {"interrupts", "processor", "stub", "server"}
  /\ IrqInit /\ (component # "interrupts" => guest = [careful |-> FALSE, traced |-> FALSE])
  /\ CpuInit
  /\ GdbInit /\ (component # "stub" => /\ place = CHOOSE p \in Places : TRUE
                                       /\ value = CHOOSE v \in Values : TRUE
                                       /\ ~debug)
  /\ LinkInit /\ (component # "server" => sent = CHOOSE s \in Pids \X {0} : TRUE)

InterruptsNext ==
  /\ component = "interrupts" /\ IrqNext
  /\ UNCHANGED <<component, cpuVars, gdbVars, serverVars>>
ProcessorNext ==
  /\ component = "processor" /\ CpuNext
  /\ UNCHANGED <<component, irqVars, gdbVars, serverVars>>
StubNext ==
  /\ component = "stub" /\ GdbNext
  /\ UNCHANGED <<component, irqVars, cpuVars, serverVars>>
ServerNext ==
  /\ component = "server" /\ LinkNext
  /\ UNCHANGED <<component, irqVars, cpuVars, gdbVars>>

EngineNext == InterruptsNext \/ ProcessorNext \/ StubNext \/ ServerNext

EngineSpec == EngineInit /\ [][EngineNext]_engineVars
-----------------------------------------------------------------------------
(* Fairness, each component's as far as it is the one that runs.           *)

\* The guest's own promises: a handler gets on with its EOI and its IRET, and the
\* main program enables interrupts now and then.  The processor's step is part of
\* each of these actions.
GuestFairness ==
  /\ WF_irqVars(component = "interrupts" /\ SendEoi)
  /\ WF_irqVars(component = "interrupts" /\ Iret)
  /\ WF_irqVars(component = "interrupts" /\ EnableInMain)

\* The machine is run frame after frame, the stub is called after each instruction and
\* reads what is there; the client reads what it is sent.  The guest leaves any place
\* again and again: no HLT that nothing ends, no jump to itself.
StubFairness ==
  /\ WF_gdbVars(component = "stub" /\ Instruction)
  /\ SF_gdbVars(component = "stub" /\ MovesOn)
  /\ WF_gdbVars(component = "stub" /\ Timer)
  /\ WF_gdbVars(component = "stub" /\ Main)
  /\ WF_gdbVars(component = "stub" /\ Receive)

EngineFairSpec == EngineSpec /\ GuestFairness /\ StubFairness
=============================================================================
