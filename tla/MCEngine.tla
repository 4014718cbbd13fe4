------------------------------- MODULE MCEngine -------------------------------
(***************************************************************************)
(* The components of the engine on small instances: three lines, the timer *)
(* (0), the keyboard (1) and the serial mouse (4); the guest program of    *)
(* MCCpuStep; a GDB client with two values and two places; two DOS         *)
(* processes with the tables of MCRifs.                                    *)
(***************************************************************************)
EXTENDS Engine, MCCpuStep, MCRifs
ASSUME StubAssumption

MCIrqs == {0, 1, 4}
\* nothing masked; the lines below the timer's; the line below the keyboard's
MCMasks == {{}, {1, 4}, {4}}
=============================================================================
