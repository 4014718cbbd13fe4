--------------------------------- MODULE Hosts ---------------------------------
(***************************************************************************)
(* The hosts of the machine, side by side: a behaviour is one of one part, *)
(* and the others stay as they are at first.  The Circle kernel is two     *)
(* parts: "kernel" without plugging, and "usb" without sound, which share  *)
(* nothing but the lock.  "files" are those the Circle kernel gives the    *)
(* core; "session" is that of the core with any frontend.                  *)
(***************************************************************************)
EXTENDS Integers, Sequences

CONSTANTS
  Parts,                                                \* the parts of the run
  Sizes, NoSize, Desktop, Nothing, Deleted, Refused,
  BufferSize, QueueSize, Chunk, Devices, Plugs,         \* CircleKernel
  Paths, Slots, Modes, Cells, Starts, MaxLength,
  Images, Zero, Spoilt,                                 \* CircleVfs
  Frontends, Contents, Speeds, Defaults, Listed,
  NoMachine, Second, Elapsed, MaxFrames                 \* LibretroCore

VARIABLES
  part,
  boot, callbacks, at, lock, screen, fb, shown, sound, samples, needed, queue,
  plugged, tree, pointer, updated,
  data, handles, answer,
  frontend, phase, given, used, user, changed, machine,
  enable_vga, enable_rifs, cpu_frequency, frames, late

Kernel  == INSTANCE CircleKernel
Files   == INSTANCE CircleVfs
Session == INSTANCE LibretroCore

kernelVars ==
  <<boot, callbacks, at, lock, screen, fb, shown, sound, samples, needed, queue,
    plugged, tree, pointer, updated>>
fileVars == <<data, handles, answer>>
sessionVars ==
  <<frontend, phase, given, used, user, changed, machine, enable_vga, enable_rifs,
    cpu_frequency, frames, late>>
vars == <<part, kernelVars, fileVars, sessionVars>>
-----------------------------------------------------------------------------
\* What holds of the constants of each part.
ASSUME HostsAssumption ==
  Kernel!KernelAssumption /\ Files!VfsAssumption /\ Session!SessionAssumption

\* Parts that are not looked at start in one state.
Init ==
  /\ part \in Parts
  /\ Kernel!Init /\ (part # "usb" => \A d \in Devices : plugged[d] = 0)
  /\ Files!Init /\ (part # "files" => data = CHOOSE f \in [Paths -> Starts] : TRUE)
  /\ Session!Init /\ (part # "session" => ~frontend.variables)

KernelNext ==
  /\ part \in {"kernel", "usb"} /\ Kernel!Next
  /\ IF part = "usb" THEN sound' = "none" ELSE UNCHANGED plugged
  /\ UNCHANGED <<part, fileVars, sessionVars>>

FilesNext ==
  part = "files" /\ Files!Next /\ UNCHANGED <<part, kernelVars, sessionVars>>

SessionNext ==
  part = "session" /\ Session!Next /\ UNCHANGED <<part, kernelVars, fileVars>>

Next == KernelNext \/ FilesNext \/ SessionNext

\* In the other parts no step of the kernel is enabled.
Spec == Init /\ [][Next]_vars
FairSpec == Spec /\ Kernel!Fairness
-----------------------------------------------------------------------------
\* The type invariants of the modules.
TypeOK == Kernel!TypeOK /\ Files!TypeOK /\ Session!TypeOK

\* Frames go into buffers of their size, unless the firmware refuses two buffers for one
\* size, and sound into a queue with room (CircleKernel).
NothingOverrun == Kernel!NothingOverrun
\* The kernel knows no device that is gone (CircleKernel).
PointersLive == Kernel!PointersLive
\* Frames, input and sound go on, and devices are found (CircleKernel).
KernelGoesOn == Kernel!KernelGoesOn

\* The kernel's files are those of libretro.h, but for what a seek and the closing of nil
\* answer (CircleVfs).
VfsSpec == Files!VfsSpec
\* The core gives the user the machine that was asked for, but for the version RIFS2 needs
\* where the frontend has variables (LibretroCore).
CoreSpec == Session!CoreSpec
\* RIFS2 is only there with version 3 of the VFS API (LibretroCore; core.odin:432).
RifsNeedsVersion == Session!RifsNeedsVersion
\* The guest's clock does not fall behind (LibretroCore; core.odin:493).
ClockKept == Session!ClockKept
=============================================================================
