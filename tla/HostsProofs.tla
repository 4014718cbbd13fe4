----------------------------- MODULE HostsProofs -----------------------------
(***************************************************************************)
(* The hosts, for any sizes of frames, samples and queue, any devices, any *)
(* files and any frontend.                                                 *)
(*                                                                         *)
(* The kernel's cores: frames and samples never overrun what they are      *)
(* written into, and no pointer to a device outlives it.  KernelInv joins  *)
(* what each core knows between two of its steps: core 1 runs only when    *)
(* the boot is complete, and the frame buffer is that of the screen's      *)
(* size; core 3 goes on with room that only it can fill.                   *)
(*                                                                         *)
(* The kernel's files and the core's session implement what libretro.h     *)
(* promises of them: FilesInv says what an object of FatFs stands for,     *)
(* SessionInv what the core knows of options it cannot ask for.            *)
(***************************************************************************)
EXTENDS Hosts, SequenceTheorems, TLAPS

\* A step of the hosts is a step or a stutter of each part.
LEMMA StepOfOne ==
  ASSUME [Next]_vars
  PROVE  /\ [Kernel!Next]_(Kernel!vars) /\ [Files!Next]_(Files!vars)
         /\ [Session!Next]_(Session!vars)
<1>1. CASE KernelNext
  BY <1>1 DEF KernelNext, fileVars, sessionVars, Files!vars, Session!vars,
              Session!apiVars, Session!optionVars, Session!timeVars
<1>2. CASE FilesNext
  BY <1>2 DEF FilesNext, kernelVars, sessionVars, Session!vars, Session!apiVars,
              Session!optionVars, Session!timeVars, Kernel!vars, Kernel!bootVars,
              Kernel!videoVars, Kernel!soundVars, Kernel!deviceVars
<1>3. CASE SessionNext
  BY <1>3 DEF SessionNext, kernelVars, fileVars, Files!vars, Kernel!vars,
              Kernel!bootVars, Kernel!videoVars, Kernel!soundVars, Kernel!deviceVars
<1>4. CASE UNCHANGED vars
  BY <1>4 DEF vars, kernelVars, fileVars, sessionVars, Files!vars, Session!vars,
              Session!apiVars, Session!optionVars, Session!timeVars, Kernel!vars,
              Kernel!bootVars, Kernel!videoVars, Kernel!soundVars, Kernel!deviceVars
<1>5. QED  BY <1>1, <1>2, <1>3, <1>4 DEF Next
-----------------------------------------------------------------------------
(* The kernel's cores. *)

Places == {"off", "idle", "input", "frame", "render", "sample", "write", "send"}
Before == {"mount", "halt", "environment", "load", "poll", "audio", "cores"}

\* The callbacks at each step of the boot.
Given ==
  /\ boot = "load" => callbacks = {"environment"}
  /\ boot = "poll" => callbacks = {"environment", "frame time"}
  /\ boot \in {"audio", "cores"} =>
       callbacks = {"environment", "frame time", "input poll"}
  /\ boot = "loop" =>
       callbacks = {"environment", "frame time", "input poll", "video refresh"}
  /\ boot \in {"mount", "environment"} => callbacks = {}

\* No core runs before the boot is complete, and no frame was copied then.
BootInv ==
  /\ boot \in Before \cup {"loop"}
  /\ at \in [Kernel!Cores -> Places]
  /\ boot # "loop" => at = [c \in Kernel!Cores |-> "off"] /\ screen = NoSize
  /\ Given

\* The frame buffer is the screen's size as soon as it has one, or one that was deleted.
MadeFor(size, buffer) == buffer = size \/ (buffer = Deleted /\ Kernel!MayDangle)
VideoInv ==
  /\ screen # NoSize => MadeFor(screen, fb)
  /\ shown[1] # NoSize => MadeFor(shown[1], shown[2])

\* What core 3 has measured is still there when it writes.
SoundInv ==
  /\ queue \in 0..QueueSize /\ samples \in 0..BufferSize /\ needed \in Nat
  /\ at[3] = "sample" => samples < BufferSize
  /\ at[3] = "send" => needed + queue <= QueueSize

KernelInv == BootInv /\ VideoInv /\ SoundInv
-----------------------------------------------------------------------------
LEMMA KernelInvInit == ASSUME Kernel!KernelAssumption, Kernel!Init PROVE KernelInv
<1>1. BootInv
  BY DEF Kernel!Init, BootInv, Before, Places, Given
<1>2. VideoInv
  BY DEF Kernel!Init, VideoInv
<1>3. SoundInv
  BY DEF Kernel!Init, SoundInv, Kernel!KernelAssumption, Kernel!Cores
<1>4. QED  BY <1>1, <1>2, <1>3 DEF KernelInv

\* A core that goes on leaves the others where they are.
LEMMA GoesTyped ==
  ASSUME at \in [Kernel!Cores -> Places],
         NEW c \in Kernel!Cores, NEW from, NEW to \in Places,
         Kernel!Goes(c, from, to)
  PROVE  /\ at' \in [Kernel!Cores -> Places] /\ at'[c] = to
         /\ \A e \in Kernel!Cores \ {c} : at'[e] = at[e]
BY DEF Kernel!Goes

\* A core that goes on has been started.
LEMMA Started ==
  ASSUME BootInv, NEW c \in Kernel!Cores, NEW from, NEW to,
         Kernel!Goes(c, from, to), from # "off"
  PROVE  boot = "loop"
BY DEF BootInv, Kernel!Goes

\* Steps of the cores that leave the boot's variables, the screen and the sound alone.
Elsewhere ==
  /\ UNCHANGED <<boot, callbacks, Kernel!videoVars, Kernel!soundVars>>
  /\ \/ UNCHANGED at
     \/ \E c \in Kernel!Cores \ {3}, from \in Places \ {"off"}, to \in Places :
          Kernel!Goes(c, from, to)

LEMMA ElsewhereKeeps == ASSUME KernelInv, Elsewhere PROVE KernelInv'
<1>1. CASE UNCHANGED at
  <2>1. UNCHANGED <<boot, callbacks, at, screen, fb, shown, samples, needed, queue>>
    BY <1>1 DEF Elsewhere, Kernel!videoVars, Kernel!soundVars
  <2>2. QED
    BY <2>1 DEF KernelInv, BootInv, Given, VideoInv, SoundInv
<1>2. CASE \E c \in Kernel!Cores \ {3}, from \in Places \ {"off"}, to \in Places :
             Kernel!Goes(c, from, to)
  <2>1. PICK c \in Kernel!Cores \ {3}, from \in Places \ {"off"}, to \in Places :
          Kernel!Goes(c, from, to)
    BY <1>2
  <2>2. UNCHANGED <<boot, callbacks, screen, fb, shown, samples, needed, queue>>
    BY DEF Elsewhere, Kernel!videoVars, Kernel!soundVars
  <2>3. boot = "loop" /\ at \in [Kernel!Cores -> Places]
    BY <2>1, Started DEF KernelInv, BootInv
  <2>4. at' \in [Kernel!Cores -> Places] /\ at'[3] = at[3]
    BY <2>1, <2>3, GoesTyped DEF Kernel!Cores
  <2>5. BootInv'
    BY <2>2, <2>3, <2>4 DEF KernelInv, BootInv, Given
  <2>6. VideoInv' /\ SoundInv'
    BY <2>2, <2>4 DEF KernelInv, VideoInv, SoundInv
  <2>7. QED  BY <2>5, <2>6 DEF KernelInv
<1>3. QED  BY <1>1, <1>2 DEF Elsewhere

\* The steps of the boot.
LEMMA BootKeeps == ASSUME Kernel!KernelAssumption, KernelInv, Kernel!Boot PROVE KernelInv'
<1>1. CASE Kernel!Mount \/ Kernel!SetEnvironment \/ Kernel!LoadGame \/ Kernel!SetInputPoll
  <2>1. UNCHANGED <<at, screen, fb, shown, samples, needed, queue>>
    BY <1>1 DEF Kernel!Mount, Kernel!SetEnvironment, Kernel!LoadGame,
                Kernel!SetInputPoll, Kernel!videoVars, Kernel!soundVars
  <2>2. boot # "loop" /\ boot' \in Before
    BY <1>1 DEF Kernel!Mount, Kernel!SetEnvironment, Kernel!LoadGame,
                Kernel!SetInputPoll, Before
  <2>3. Given'
    <3>1. CASE Kernel!Mount
      BY <3>1 DEF Kernel!Mount, KernelInv, BootInv, Given
    <3>2. CASE Kernel!SetEnvironment
      BY <3>2 DEF Kernel!SetEnvironment, KernelInv, BootInv, Given
    <3>3. CASE Kernel!LoadGame
      BY <3>3 DEF Kernel!LoadGame, KernelInv, BootInv, Given, Kernel!Environment
    <3>4. CASE Kernel!SetInputPoll
      BY <3>4 DEF Kernel!SetInputPoll, KernelInv, BootInv, Given
    <3>5. QED  BY <1>1, <3>1, <3>2, <3>3, <3>4
  <2>4. QED
    BY <2>1, <2>2, <2>3 DEF KernelInv, BootInv, VideoInv, SoundInv
<1>2. CASE Kernel!InitializeAudio
  <2>1. UNCHANGED <<callbacks, at, screen, fb, shown, samples, needed, queue>>
        /\ boot = "audio" /\ boot' = "cores"
    BY <1>2 DEF Kernel!InitializeAudio, Kernel!videoVars
  <2>2. QED
    BY <2>1 DEF KernelInv, BootInv, Before, Given, VideoInv, SoundInv
<1>3. CASE Kernel!StartCores
  <2>1. UNCHANGED <<screen, shown, samples, needed, queue>> /\ boot = "cores"
    BY <1>3 DEF Kernel!StartCores, Kernel!soundVars
  <2>2. screen = NoSize /\ at = [c \in Kernel!Cores |-> "off"]
    BY <2>1 DEF KernelInv, BootInv
  <2>3. VideoInv'
    BY <2>1, <2>2 DEF KernelInv, VideoInv
  <2>4. CASE boot' = "halt"
    <3>1. at' = at
      BY <1>3, <2>4 DEF Kernel!StartCores
    <3>2. BootInv'
      BY <2>1, <2>2, <2>4, <3>1 DEF BootInv, Before, Places, Given
    <3>3. QED  BY <2>1, <2>3, <3>1, <3>2 DEF KernelInv, SoundInv
  <2>5. CASE boot' = "loop"
    <3>1. at' = [c \in Kernel!Cores |-> IF c = 3 /\ sound = "none" THEN "off" ELSE "idle"]
      BY <1>3, <2>5 DEF Kernel!StartCores
    <3>2. callbacks' = {"environment", "frame time", "input poll", "video refresh"}
      BY <1>3, <2>1 DEF Kernel!StartCores, Kernel!SetVideoRefresh, KernelInv, BootInv,
                        Given
    <3>3. BootInv'
      BY <2>5, <3>1, <3>2 DEF BootInv, Places, Given
    <3>4. at'[3] \in {"off", "idle"}
      BY <3>1 DEF Kernel!Cores
    <3>5. QED  BY <2>1, <2>3, <3>3, <3>4 DEF KernelInv, SoundInv
  <2>6. QED  BY <1>3, <2>4, <2>5 DEF Kernel!StartCores
<1>4. QED  BY <1>1, <1>2, <1>3 DEF Kernel!Boot

\* A frame is copied into the buffer there is, or one is made for it.
LEMMA FrameKeeps ==
  ASSUME Kernel!KernelAssumption, KernelInv, Kernel!Frame PROVE KernelInv'
<1>1. PICK size \in Sizes \cup {screen} : Kernel!RetroRun(size)
  BY DEF Kernel!Frame
<1>2. boot = "loop" /\ at \in [Kernel!Cores -> Places]
  BY <1>1, Started DEF Kernel!RetroRun, KernelInv, BootInv, Kernel!Cores
<1>3. at' \in [Kernel!Cores -> Places] /\ at'[3] = at[3]
  BY <1>1, <1>2, GoesTyped DEF Kernel!RetroRun, Kernel!Cores, Places
<1>4. UNCHANGED <<boot, callbacks, samples, needed, queue>>
  BY <1>1 DEF Kernel!RetroRun, Kernel!bootVars, Kernel!soundVars
<1>5. BootInv' /\ SoundInv'
  BY <1>2, <1>3, <1>4 DEF KernelInv, BootInv, Given, SoundInv
<1>6. \A buffer \in Kernel!Granted(size) : MadeFor(size, buffer)
  BY DEF Kernel!Granted, Kernel!MayDangle, MadeFor
<1>7. VideoInv'
  <2>1. CASE Kernel!Changed(size)
    <3>1. /\ screen' = size /\ fb' \in Kernel!Granted(size)
          /\ shown' = shown \/ shown' = <<size, fb'>>
      BY <1>1, <2>1 DEF Kernel!RetroRun
    <3>2. MadeFor(size, fb')
      BY <1>6, <3>1
    <3>3. QED  BY <3>1, <3>2 DEF KernelInv, VideoInv, MadeFor, Kernel!MayDangle
  <2>2. CASE ~Kernel!Changed(size)
    <3>1. size = screen /\ UNCHANGED <<screen, fb>> /\ shown' = <<screen, fb>>
      BY <1>1, <2>2 DEF Kernel!RetroRun, Kernel!Changed
    <3>2. QED  BY <3>1 DEF KernelInv, VideoInv, MadeFor, Kernel!MayDangle
  <2>3. QED  BY <2>1, <2>2
<1>8. QED  BY <1>5, <1>7 DEF KernelInv

\* The audio core.  Only Send fills the queue, with what was measured.
LEMMA AudioKeeps ==
  ASSUME Kernel!KernelAssumption, KernelInv,
         Kernel!AudioTick \/ Kernel!AddSample \/ Kernel!Measure \/ Kernel!Send
  PROVE  KernelInv'
<1>1. UNCHANGED <<boot, callbacks, screen, fb, shown>>
  BY DEF Kernel!AudioTick, Kernel!AddSample, Kernel!Measure, Kernel!Send,
         Kernel!bootVars, Kernel!videoVars
<1>2. PICK from \in Places \ {"off"}, to \in Places : Kernel!Goes(3, from, to)
  BY DEF Kernel!AudioTick, Kernel!AddSample, Kernel!Measure, Kernel!Send, Places
<1>3. boot = "loop" /\ at \in [Kernel!Cores -> Places]
  BY <1>2, Started DEF KernelInv, BootInv, Kernel!Cores
<1>4. at' \in [Kernel!Cores -> Places] /\ at[3] = from /\ at'[3] = to
  BY <1>2, <1>3, GoesTyped DEF Kernel!Cores, Kernel!Goes
<1>5. BootInv' /\ VideoInv'
  BY <1>1, <1>3, <1>4 DEF KernelInv, BootInv, Given, VideoInv
<1>6. SoundInv'
  <2> USE DEF KernelInv, SoundInv, Kernel!KernelAssumption, Kernel!Goes, Kernel!Cores
  <2>1. CASE Kernel!AudioTick
    BY <1>3, <2>1 DEF Kernel!AudioTick, Kernel!soundVars
  <2>2. CASE Kernel!AddSample
    BY <1>3, <2>2 DEF Kernel!AddSample
  <2>3. CASE Kernel!Measure
    BY <1>3, <2>3 DEF Kernel!Measure, Kernel!Room
  <2>4. CASE Kernel!Send
    BY <1>3, <2>4 DEF Kernel!Send, Kernel!NumSamples
  <2>5. QED  BY <2>1, <2>2, <2>3, <2>4
<1>7. QED  BY <1>5, <1>6 DEF KernelInv

\* Room that grows is still enough.
LEMMA Less ==
  ASSUME NEW a \in Nat, NEW b \in Nat, NEW c \in Nat, NEW d \in Nat, c <= b, a + b <= d
  PROVE  a + c <= d
OBVIOUS

\* The device makes room at any time.
LEMMA PlayKeeps == ASSUME Kernel!KernelAssumption, KernelInv, Kernel!Play PROVE KernelInv'
<1>1. UNCHANGED <<boot, callbacks, at, screen, fb, shown, samples, needed>>
  BY DEF Kernel!Play, Kernel!bootVars, Kernel!videoVars
<1>2. queue' \in 0..queue
  BY DEF Kernel!Play, KernelInv, SoundInv, Kernel!KernelAssumption
<1>3. BootInv' /\ VideoInv'
  BY <1>1 DEF KernelInv, BootInv, Given, VideoInv
<1>4. SoundInv'
  <2>1. queue \in 0..QueueSize /\ samples \in 0..BufferSize /\ needed \in Nat
    BY DEF KernelInv, SoundInv
  <2>2. queue \in Nat /\ QueueSize \in Nat /\ queue <= QueueSize
    BY <2>1 DEF Kernel!KernelAssumption
  <2>3. queue' \in Nat /\ queue' <= queue
    BY <1>2, <2>2
  <2>4. queue' \in 0..QueueSize
    BY <2>2, <2>3
  <2>5. ASSUME at[3] = "send" PROVE needed + queue' <= QueueSize
    <3>1. needed + queue <= QueueSize
      BY <2>5 DEF KernelInv, SoundInv
    <3>2. needed \in Nat
      BY <2>1
    <3>3. QED  BY <2>2, <2>3, <3>1, <3>2, Less
  <2>6. at[3] = "sample" => samples < BufferSize
    BY DEF KernelInv, SoundInv
  <2>7. QED  BY <1>1, <2>1, <2>4, <2>5, <2>6 DEF SoundInv
<1>5. QED  BY <1>3, <1>4 DEF KernelInv

LEMMA KernelInvStep ==
  ASSUME Kernel!KernelAssumption, KernelInv, [Kernel!Next]_(Kernel!vars) PROVE KernelInv'
<1>1. CASE Kernel!Boot
  BY <1>1, BootKeeps
<1>2. CASE Kernel!Frame
  BY <1>2, FrameKeeps
<1>3. CASE Kernel!EnterFrame \/ Kernel!EnterRender \/ Kernel!LeaveRender
             \/ Kernel!EnterInput \/ Kernel!LeaveInput
  <2>1. \E c \in Kernel!Cores \ {3}, from \in Places \ {"off"}, to \in Places :
          Kernel!Goes(c, from, to)
    <3>1. CASE Kernel!EnterFrame
      BY <3>1 DEF Kernel!EnterFrame, Kernel!Cores, Places
    <3>2. CASE Kernel!EnterRender \/ Kernel!LeaveRender
      BY <3>2 DEF Kernel!EnterRender, Kernel!LeaveRender, Kernel!Cores, Places
    <3>3. CASE Kernel!EnterInput \/ Kernel!LeaveInput
      BY <3>3 DEF Kernel!EnterInput, Kernel!LeaveInput, Kernel!Cores, Places
    <3>4. QED  BY <1>3, <3>1, <3>2, <3>3
  <2>2. UNCHANGED <<boot, callbacks, Kernel!videoVars, Kernel!soundVars>>
    BY <1>3 DEF Kernel!EnterFrame, Kernel!EnterRender, Kernel!LeaveRender,
                Kernel!EnterInput, Kernel!LeaveInput, Kernel!bootVars
  <2>3. QED  BY <2>1, <2>2, ElsewhereKeeps DEF Elsewhere
<1>4. CASE Kernel!AudioTick \/ Kernel!AddSample \/ Kernel!Measure \/ Kernel!Send
  BY <1>4, AudioKeeps
<1>5. CASE Kernel!Play
  BY <1>5, PlayKeeps
<1>6. CASE (\E d \in Devices : Kernel!Plug(d)) \/ Kernel!UpdatePlugAndPlay
             \/ Kernel!MouseStatusHandlerRaw
  <2>1. UNCHANGED <<boot, callbacks, at, Kernel!videoVars, Kernel!soundVars>>
    BY <1>6 DEF Kernel!Plug, Kernel!UpdatePlugAndPlay, Kernel!MouseStatusHandlerRaw,
                Kernel!bootVars
  <2>2. QED  BY <2>1, ElsewhereKeeps DEF Elsewhere
<1>7. CASE UNCHANGED Kernel!vars
  <2>1. UNCHANGED <<boot, callbacks, at, Kernel!videoVars, Kernel!soundVars>>
    BY <1>7 DEF Kernel!vars, Kernel!bootVars
  <2>2. QED  BY <2>1, ElsewhereKeeps DEF Elsewhere
<1>8. QED  BY <1>1, <1>2, <1>3, <1>4, <1>5, <1>6, <1>7 DEF Kernel!Next

LEMMA KernelInvAlways == ASSUME Kernel!KernelAssumption PROVE Spec => []KernelInv
<1>1. Init => KernelInv
  BY KernelInvInit DEF Init
<1>2. KernelInv /\ [Next]_vars => KernelInv'
  BY StepOfOne, KernelInvStep
<1>3. QED  BY <1>1, <1>2, PTL DEF Spec

\* For every size of frames, samples and queue, whatever the firmware refuses, and however
\* the four cores, the guest's modes and the device follow each other: a frame goes into
\* a buffer of its size, or into one that was deleted if the firmware may refuse both the
\* size and the fallback; a frame starts with its callbacks set; and neither the samples
\* nor the queue overflow (emuloop.cpp:42-86, 193-213; kernel.cpp:281-292).
THEOREM KernelNeverOverruns == Spec => []NothingOverrun
<1>1. KernelInv => NothingOverrun
  <2>1. ASSUME KernelInv PROVE Kernel!FramesFit
    <3>1. at[1] = "frame" => boot = "loop"
      BY <2>1 DEF KernelInv, BootInv, Kernel!Cores
    <3>2. QED
      BY <2>1, <3>1 DEF KernelInv, BootInv, VideoInv, MadeFor, Kernel!FramesFit,
                            Given
  <2>2. ASSUME KernelInv PROVE Kernel!SoundFits
    BY <2>2, HostsAssumption DEF KernelInv, SoundInv, Kernel!SoundFits,
                                 Kernel!KernelAssumption
  <2>3. QED  BY <2>1, <2>2 DEF NothingOverrun, Kernel!NothingOverrun
<1>2. QED  BY <1>1, KernelInvAlways, HostsAssumption, PTL
-----------------------------------------------------------------------------
\* An update leaves only pointers to what is plugged in.
LEMMA UpdateKeeps ==
  ASSUME Kernel!PointersLive, Kernel!UpdatePlugAndPlay PROVE Kernel!PointersLive'
<1>1. SUFFICES ASSUME NEW d \in Devices PROVE pointer'[d] \in {0, tree'[d]}
  BY DEF Kernel!PointersLive
<1>2. tree' = plugged /\ pointer[d] \in {0, tree[d]}
  BY DEF Kernel!UpdatePlugAndPlay, Kernel!PointersLive
<1>3. CASE plugged = tree
  BY <1>2, <1>3 DEF Kernel!UpdatePlugAndPlay
<1>4. CASE plugged # tree
  <2>1. pointer'[d] = Kernel!Found(d)
    BY <1>4 DEF Kernel!UpdatePlugAndPlay
  <2>2. Kernel!Removed(d) \in {0, plugged[d]}
    BY <1>2 DEF Kernel!Removed
  <2>3. QED  BY <1>2, <2>1, <2>2 DEF Kernel!Found
<1>5. QED  BY <1>3, <1>4

\* For all devices, plugged in and out at any time: a pointer the kernel keeps is to the
\* device object that UpdatePlugAndPlay knows, or to none (kernel.cpp:305-327).
THEOREM PointersStayLive == Spec => []PointersLive
<1> USE DEF PointersLive
<1>1. Init => PointersLive
  BY DEF Init, Kernel!Init, Kernel!PointersLive
<1>2. PointersLive /\ [Next]_vars => PointersLive'
  <2> SUFFICES ASSUME PointersLive, [Kernel!Next]_(Kernel!vars) PROVE PointersLive'
    BY StepOfOne
  <2>1. CASE Kernel!UpdatePlugAndPlay
    BY <2>1, UpdateKeeps
  <2>2. CASE UNCHANGED <<tree, pointer>>
    BY <2>2 DEF Kernel!PointersLive
  <2>3. Kernel!UpdatePlugAndPlay \/ UNCHANGED <<tree, pointer>>
    <3>1. CASE Kernel!Boot
      BY <3>1 DEF Kernel!Boot, Kernel!Mount, Kernel!SetEnvironment, Kernel!LoadGame,
                  Kernel!SetInputPoll, Kernel!InitializeAudio,
                  Kernel!StartCores, Kernel!deviceVars
    <3>2. CASE Kernel!EnterFrame \/ Kernel!Frame \/ Kernel!EnterRender
                 \/ Kernel!LeaveRender
      BY <3>2 DEF Kernel!EnterFrame, Kernel!Frame, Kernel!RetroRun, Kernel!EnterRender,
                  Kernel!LeaveRender, Kernel!deviceVars
    <3>3. CASE Kernel!AudioTick \/ Kernel!AddSample \/ Kernel!Measure \/ Kernel!Send
                 \/ Kernel!Play
      BY <3>3 DEF Kernel!AudioTick, Kernel!AddSample, Kernel!Measure, Kernel!Send,
                  Kernel!Play, Kernel!deviceVars
    <3>4. CASE \E d \in Devices : Kernel!Plug(d)
      BY <3>4 DEF Kernel!Plug
    <3>5. CASE Kernel!MouseStatusHandlerRaw \/ Kernel!EnterInput \/ Kernel!LeaveInput
      BY <3>5 DEF Kernel!MouseStatusHandlerRaw, Kernel!EnterInput, Kernel!LeaveInput,
                  Kernel!deviceVars
    <3>6. CASE UNCHANGED Kernel!vars
      BY <3>6 DEF Kernel!vars, Kernel!deviceVars
    <3>7. QED  BY <3>1, <3>2, <3>3, <3>4, <3>5, <3>6 DEF Kernel!Next
  <2>4. QED  BY <2>1, <2>2, <2>3
<1>3. QED  BY <1>1, <1>2, PTL DEF Spec
-----------------------------------------------------------------------------
\* What KernelInv leaves open of the types.
KernelTypes ==
  /\ callbacks \subseteq {"environment", "frame time", "input poll", "video refresh"}
  /\ lock \in Kernel!Cores \cup {Kernel!Free}
  /\ screen \in Sizes \cup {NoSize} /\ fb \in Kernel!Buffers
  /\ shown \in (Sizes \cup {NoSize}) \X Kernel!Buffers
  /\ sound \in {"none", "silent", "active"} /\ updated \in BOOLEAN
  /\ plugged \in [Devices -> Plugs \cup {0}] /\ tree \in [Devices -> Plugs \cup {0}]
  /\ pointer \in [Devices -> Plugs \cup {0}]

LEMMA KernelTypesInit ==
  ASSUME Kernel!KernelAssumption, Kernel!Init PROVE KernelTypes
<1>1. plugged \in [Devices -> Plugs \cup {0}]
  BY DEF Kernel!Init, Kernel!KernelAssumption
<1>2. QED
  BY <1>1 DEF Kernel!Init, KernelTypes, Kernel!Buffers

\* The devices: a plug that is no longer there is replaced by another, or by none.
LEMMA DevicesTyped ==
  ASSUME Kernel!KernelAssumption, KernelTypes, NEW d \in Devices, Kernel!Plug(d)
  PROVE  KernelTypes'
<1>1. tree[d] \in Plugs \cup {0}
  BY DEF KernelTypes
<1>2. \E n \in Plugs : n # tree[d]
  <2>1. CASE tree[d] \in Plugs
    BY <2>1 DEF Kernel!KernelAssumption
  <2>2. CASE tree[d] \notin Plugs
    BY <2>2 DEF Kernel!KernelAssumption
  <2>3. QED  BY <2>1, <2>2
<1>3. (CHOOSE n \in Plugs : n # tree[d]) \in Plugs
  BY <1>2
<1>4. plugged' \in [Devices -> Plugs \cup {0}]
  BY <1>3 DEF Kernel!Plug, KernelTypes
<1>5. QED
  BY <1>4 DEF Kernel!Plug, KernelTypes, Kernel!bootVars, Kernel!videoVars,
              Kernel!soundVars, Kernel!Buffers

LEMMA UpdateTyped ==
  ASSUME KernelTypes, Kernel!UpdatePlugAndPlay PROVE KernelTypes'
<1>1. \A d \in Devices : Kernel!Found(d) \in Plugs \cup {0}
  BY DEF Kernel!Found, Kernel!Removed, KernelTypes
<1>2. pointer' \in [Devices -> Plugs \cup {0}] /\ tree' \in [Devices -> Plugs \cup {0}]
  BY <1>1 DEF Kernel!UpdatePlugAndPlay, KernelTypes
<1>3. QED
  BY <1>2 DEF Kernel!UpdatePlugAndPlay, KernelTypes, Kernel!bootVars,
              Kernel!videoVars, Kernel!soundVars, Kernel!Buffers

LEMMA KernelTypesStep ==
  ASSUME Kernel!KernelAssumption, KernelTypes, [Kernel!Next]_(Kernel!vars)
  PROVE  KernelTypes'
<1> USE DEF Kernel!bootVars, Kernel!videoVars, Kernel!soundVars, Kernel!deviceVars,
            Kernel!Lock, Kernel!Unlock, Kernel!Cores
<1>1. CASE Kernel!Boot
  BY <1>1 DEF Kernel!Boot, Kernel!Mount, Kernel!SetEnvironment, Kernel!LoadGame,
              Kernel!SetInputPoll, Kernel!InitializeAudio, Kernel!StartCores,
              Kernel!SetVideoRefresh, KernelTypes, Kernel!Buffers
<1>2. CASE Kernel!Frame
  <2>1. PICK size \in Sizes \cup {screen} : Kernel!RetroRun(size)
    BY <1>2 DEF Kernel!Frame
  <2>2. size \in Sizes \cup {NoSize}
    BY DEF KernelTypes
  <2>3. screen' \in Sizes \cup {NoSize} /\ fb' \in Kernel!Buffers
    BY <2>1, <2>2 DEF Kernel!RetroRun, Kernel!Granted, Kernel!Buffers, KernelTypes
  <2>4. shown' \in (Sizes \cup {NoSize}) \X Kernel!Buffers
    BY <2>1, <2>2, <2>3 DEF Kernel!RetroRun, KernelTypes
  <2>5. /\ lock' = Kernel!Free
        /\ UNCHANGED <<callbacks, sound, updated, plugged, tree, pointer>>
    BY <2>1 DEF Kernel!RetroRun
  <2>6. QED  BY <2>3, <2>4, <2>5 DEF KernelTypes, Kernel!Buffers
<1>3. CASE Kernel!EnterFrame \/ Kernel!EnterRender \/ Kernel!LeaveRender
             \/ Kernel!EnterInput
  <2>1. /\ UNCHANGED <<callbacks, screen, fb, shown, sound, updated, plugged, tree,
                       pointer>>
        /\ lock' \in Kernel!Cores \cup {Kernel!Free}
    BY <1>3 DEF Kernel!EnterFrame, Kernel!EnterRender, Kernel!LeaveRender,
                Kernel!EnterInput
  <2>2. QED  BY <2>1 DEF KernelTypes, Kernel!Buffers
<1>4. CASE Kernel!AudioTick \/ Kernel!AddSample \/ Kernel!Measure \/ Kernel!Send
             \/ Kernel!Play
  <2>1. /\ UNCHANGED <<callbacks, screen, fb, shown, sound, updated, plugged, tree,
                       pointer>>
        /\ lock' \in Kernel!Cores \cup {Kernel!Free, lock}
    BY <1>4 DEF Kernel!AudioTick, Kernel!AddSample, Kernel!Measure, Kernel!Send,
                Kernel!Play
  <2>2. QED  BY <2>1 DEF KernelTypes, Kernel!Buffers
<1>5. CASE Kernel!MouseStatusHandlerRaw \/ Kernel!LeaveInput
  BY <1>5 DEF Kernel!MouseStatusHandlerRaw, Kernel!LeaveInput, KernelTypes,
              Kernel!Buffers
<1>6. CASE UNCHANGED Kernel!vars
  BY <1>6 DEF Kernel!vars, KernelTypes, Kernel!Buffers
<1>7. QED
  BY <1>1, <1>2, <1>3, <1>4, <1>5, <1>6, DevicesTyped, UpdateTyped DEF Kernel!Next

-----------------------------------------------------------------------------
(* The core's session. *)

\* What the core knows of a session.  A frontend without variables leaves the options as
\* they were at first, but for RIFS2, which only an old version of the VFS API disables.
SessionInv ==
  /\ Session!TypeOK
  /\ phase # "off" => "environment" \in given
  /\ frontend \in Frontends
  /\ ~frontend.variables =>
       /\ ~changed /\ ~enable_vga /\ cpu_frequency = Defaults.speed
       /\ frontend.version >= 3 => enable_rifs

LEMMA SessionInvInit ==
  ASSUME Session!SessionAssumption, Session!Init PROVE SessionInv
<1>1. Defaults.video = "CGA" /\ Defaults.rifs = TRUE
  BY DEF Session!SessionAssumption
<1>2. Session!TypeOK
  <2>1. frames \in 0..MaxFrames
    BY DEF Session!SessionAssumption, Session!Init
  <2>2. {changed, enable_vga, enable_rifs} \subseteq BOOLEAN
    BY DEF Session!Init
  <2>3. given \subseteq Session!Callbacks /\ used \subseteq Session!Callbacks
    BY DEF Session!Init
  <2>4. QED  BY <2>1, <2>2, <2>3 DEF Session!Init, Session!TypeOK
<1>3. QED
  BY <1>2 DEF Session!Init, SessionInv

\* The options are those of a user.
LEMMA UserTyped ==
  ASSUME Session!SessionAssumption, SessionInv
  PROVE  /\ user.video \in {"CGA", "VGA"} /\ user.rifs \in BOOLEAN
         /\ user.speed \in Speeds \cup {Defaults.speed}
         /\ Defaults.video = "CGA" /\ Defaults.rifs = TRUE
<1>1. Defaults.video = "CGA" /\ Defaults.rifs = TRUE
  BY DEF Session!SessionAssumption
<1>2. CASE user = Defaults
  BY <1>1, <1>2
<1>3. CASE user \in Session!Options
  BY <1>1, <1>3 DEF Session!Options
<1>4. QED  BY <1>2, <1>3 DEF SessionInv, Session!TypeOK

\* Reading the options keeps what is known of them, and gives the user's.
LEMMA CheckVariables ==
  ASSUME Session!SessionAssumption, SessionInv, NEW rifs \in BOOLEAN,
         Session!check_variables(rifs)
  PROVE  /\ enable_vga' \in BOOLEAN /\ enable_rifs' \in BOOLEAN /\ changed' = FALSE
         /\ cpu_frequency' = Session!Api!Chosen.speed
         /\ enable_vga' = (Session!Api!Chosen.video = "VGA")
         /\ enable_rifs' = IF frontend.variables THEN user.rifs ELSE rifs
<1> USE UserTyped DEF Session!check_variables, Session!Read
<1>1. enable_rifs' = IF frontend.variables THEN user.rifs ELSE rifs
  OBVIOUS
<1>2. CASE frontend.variables
  <2>1. Session!Api!Chosen = user
    BY <1>2 DEF Session!Api!Chosen
  <2>2. enable_vga' = (user.video = "VGA")
    BY <1>2 DEF Session!VgaRead
  <2>3. changed' = FALSE /\ cpu_frequency' = user.speed /\ enable_rifs' = user.rifs
    BY <1>2
  <2>4. QED  BY <1>1, <2>1, <2>2, <2>3
<1>3. CASE ~frontend.variables
  <2>1. Session!Api!Chosen = Defaults
    BY <1>3 DEF Session!Api!Chosen
  <2>2. enable_vga = FALSE /\ changed = FALSE /\ cpu_frequency = Defaults.speed
    BY <1>3 DEF SessionInv, Session!TypeOK
  <2>3. enable_vga' = FALSE
    BY <1>3, <2>2 DEF Session!VgaRead
  <2>4. changed' = FALSE /\ cpu_frequency' = Defaults.speed /\ enable_rifs' = rifs
    BY <1>3, <2>2
  <2>5. QED  BY <1>1, <2>1, <2>3, <2>4
<1>4. QED  BY <1>2, <1>3

\* The entry points that read no option leave what is known as it is.
LEMMA QuietKeeps ==
  ASSUME SessionInv, UNCHANGED <<frontend, cpu_frequency, enable_vga, enable_rifs>>,
         UNCHANGED Session!timeVars,
         phase' \in {"off", "set", "ready", "running", "over"},
         given' \subseteq Session!Callbacks, used' \subseteq Session!Callbacks,
         phase' # "off" => "environment" \in given', machine' \in {NoMachine, machine},
         \/ UNCHANGED <<user, changed>>
         \/ user' \in Session!Options /\ changed' = TRUE /\ frontend.variables
  PROVE  SessionInv'
<1>1. Session!TypeOK'
  <2>1. {changed', enable_vga', enable_rifs'} \subseteq BOOLEAN
    BY DEF SessionInv, Session!TypeOK
  <2>2. frames' = frames
    BY DEF Session!timeVars
  <2>3. QED  BY <2>1, <2>2 DEF SessionInv, Session!TypeOK
<1>2. QED  BY <1>1 DEF SessionInv

LEMMA RestOfSession ==
  ASSUME SessionInv, [Session!Next]_(Session!vars)
  PROVE  \/ SessionInv'
         \/ \E content \in Contents : Session!retro_load_game(content)
         \/ \E usec \in Elapsed : Session!retro_run(usec)
         \/ Session!retro_reset
<1> USE DEF Session!optionVars, Session!Callbacks
<1>0. /\ phase \in {"off", "set", "ready", "running", "over"}
      /\ given \subseteq Session!Callbacks /\ used \subseteq Session!Callbacks
      /\ phase # "off" => "environment" \in given
  BY DEF SessionInv, Session!TypeOK
<1>1. CASE Session!retro_set_environment
  BY <1>0, <1>1, QuietKeeps DEF Session!retro_set_environment
<1>2. CASE Session!retro_init
  BY <1>0, <1>2, QuietKeeps DEF Session!retro_init
<1>3. ASSUME NEW c \in Session!Callbacks, Session!Set(c) PROVE SessionInv'
  BY <1>0, <1>3, QuietKeeps DEF Session!Set
<1>4. ASSUME NEW o \in Session!Options, Session!Change(o) PROVE SessionInv'
  BY <1>0, <1>4, QuietKeeps DEF Session!Change
<1>5. CASE Session!retro_unload_game
  BY <1>0, <1>5, QuietKeeps DEF Session!retro_unload_game
<1>6. CASE UNCHANGED Session!vars
  BY <1>0, <1>6, QuietKeeps DEF Session!vars, Session!apiVars
<1>7. QED
  BY <1>1, <1>2, <1>3, <1>4, <1>5, <1>6 DEF Session!Next

\* So do those that read them, with what CheckVariables says.
LEMMA CheckKeeps ==
  ASSUME Session!SessionAssumption, SessionInv, NEW rifs \in BOOLEAN,
         Session!check_variables(rifs), UNCHANGED <<frontend, user, given>>,
         frontend.version >= 3 /\ ~frontend.variables => rifs,
         phase' \in {"off", "set", "ready", "running", "over"}, phase # "off",
         used' \subseteq Session!Callbacks, frames' \in 0..MaxFrames,
         machine' \in {NoMachine} \cup
           SUBSET (Listed \cup {"disk", "chipset", "mouse", "CGA", "VGA", "rifs2"})
  PROVE  SessionInv'
<1>1. /\ enable_vga' \in BOOLEAN /\ enable_rifs' \in BOOLEAN /\ changed' = FALSE
      /\ cpu_frequency' = Session!Api!Chosen.speed
      /\ enable_vga' = (Session!Api!Chosen.video = "VGA")
      /\ enable_rifs' = IF frontend.variables THEN user.rifs ELSE rifs
  BY CheckVariables
<1>2. /\ user \in Session!Options \cup {Defaults} /\ given \subseteq Session!Callbacks
      /\ "environment" \in given /\ frontend \in Frontends
  BY DEF SessionInv, Session!TypeOK
<1>3. cpu_frequency' \in Speeds \cup {Defaults.speed}
  BY <1>1, UserTyped DEF Session!Api!Chosen
<1>4. {changed', enable_vga', enable_rifs'} \subseteq BOOLEAN
  BY <1>1
<1>5. Session!TypeOK'
  BY <1>2, <1>3, <1>4 DEF Session!TypeOK
<1>6. ~frontend.variables =>
        /\ ~changed' /\ ~enable_vga' /\ cpu_frequency' = Defaults.speed
        /\ frontend.version >= 3 => enable_rifs'
  BY <1>1, UserTyped DEF Session!Api!Chosen
<1>7. QED  BY <1>2, <1>5, <1>6 DEF SessionInv

\* What is built is what the options ask for.
LEMMA BuildsWanted ==
  ASSUME Session!SessionAssumption, SessionInv, NEW content,
         Session!check_variables(Session!RifsAllowed)
  PROVE  /\ Session!Build(content) = Session!Api!Wanted(content)
         /\ Session!RifsAllowed \in BOOLEAN
<1>1. Session!RifsAllowed \in BOOLEAN
  BY DEF Session!RifsAllowed, SessionInv, Session!TypeOK, Session!SessionAssumption
<1>2. /\ enable_vga' = (Session!Api!Chosen.video = "VGA")
      /\ enable_rifs' = IF frontend.variables THEN user.rifs ELSE Session!RifsAllowed
  BY <1>1, CheckVariables
<1>3. Session!Api!Chosen.video = IF enable_vga' THEN "VGA" ELSE "CGA"
  BY <1>2, UserTyped DEF Session!Api!Chosen
<1>4. enable_rifs' = Session!Api!HasRifs
  <2>1. frontend \in Frontends /\ frontend.variables \in BOOLEAN
        /\ frontend.version \in Nat
    BY DEF SessionInv, Session!SessionAssumption
  <2>2. CASE frontend.variables
    BY <1>2, <2>1, <2>2, UserTyped
       DEF Session!Api!HasRifs, Session!Api!VersionServes, Session!Api!Chosen
  <2>3. CASE ~frontend.variables
    <3>1. frontend.version >= 3 => enable_rifs
      BY <2>3 DEF SessionInv
    <3>2. enable_rifs \in BOOLEAN
      BY DEF SessionInv, Session!TypeOK
    <3>3. Session!Api!Chosen.rifs = TRUE
      BY <2>3, UserTyped DEF Session!Api!Chosen
    <3>4. CASE frontend.version >= 3
      BY <1>2, <2>3, <3>1, <3>2, <3>3, <3>4
         DEF Session!RifsAllowed, Session!Api!HasRifs, Session!Api!VersionServes
    <3>5. CASE ~(frontend.version >= 3)
      BY <1>2, <2>3, <3>5
         DEF Session!RifsAllowed, Session!Api!HasRifs, Session!Api!VersionServes
    <3>6. QED  BY <3>4, <3>5
  <2>4. QED  BY <2>2, <2>3
<1>5. QED
  BY <1>1, <1>3, <1>4 DEF Session!Build, Session!Api!Wanted,
     Session!setup_machine_config, Session!setup_default_machine

\* Every call is one that libretro.h describes.
LEMMA LoadMapped ==
  ASSUME Session!SessionAssumption, SessionInv, NEW content \in Contents,
         Session!retro_load_game(content)
  PROVE  SessionInv' /\ Session!Api!LoadGame(content)
<1>1. /\ phase = "ready" /\ used' = {"environment"} /\ "environment" \in given
      /\ UNCHANGED <<frontend, given, user, Session!timeVars>>
  BY DEF Session!retro_load_game, SessionInv
<1>2. CASE Session!Refuses
  <2>1. UNCHANGED <<phase, machine, changed, enable_vga, enable_rifs, cpu_frequency>>
    BY <1>2 DEF Session!retro_load_game, Session!optionVars
  <2>2. SessionInv'
    BY <1>1, <2>1, QuietKeeps DEF SessionInv, Session!TypeOK, Session!Callbacks
  <2>3. QED  BY <1>1, <2>1, <2>2 DEF Session!Api!LoadGame
<1>3. CASE ~Session!Refuses
  <2>1. Session!check_variables(Session!RifsAllowed)
    BY <1>3 DEF Session!retro_load_game
  <2>2. \/ phase' = "running" /\ machine' = Session!Build(content)
        \/ UNCHANGED <<phase, machine>>
    BY <1>3 DEF Session!retro_load_game
  <2>3. /\ Session!Build(content) = Session!Api!Wanted(content)
        /\ Session!RifsAllowed \in BOOLEAN
    BY <2>1, BuildsWanted
  <2>4. frontend.version >= 3 /\ ~frontend.variables => Session!RifsAllowed
    BY DEF Session!RifsAllowed, SessionInv
  <2>5. SessionInv'
    <3>1. Session!Build(content) \in SUBSET
            (Listed \cup {"disk", "chipset", "mouse", "CGA", "VGA", "rifs2"})
      BY DEF Session!Build, Session!setup_machine_config, Session!setup_default_machine
    <3>2. machine' \in {NoMachine} \cup SUBSET
            (Listed \cup {"disk", "chipset", "mouse", "CGA", "VGA", "rifs2"})
      BY <2>2, <3>1 DEF SessionInv, Session!TypeOK
    <3>3. /\ frames' \in 0..MaxFrames /\ used' \subseteq Session!Callbacks
          /\ phase' \in {"off", "set", "ready", "running", "over"}
      BY <1>1, <2>2 DEF Session!timeVars, SessionInv, Session!TypeOK, Session!Callbacks
    <3>4. QED  BY <1>1, <2>1, <2>3, <2>4, <3>2, <3>3, CheckKeeps
  <2>6. changed' = FALSE /\ cpu_frequency' = Session!Api!Chosen.speed
    BY <2>1, <2>3, CheckVariables
  <2>7. QED  BY <1>1, <2>2, <2>3, <2>5, <2>6 DEF Session!Api!LoadGame
<1>4. QED  BY <1>2, <1>3

\* Options that have changed are those of a frontend that has variables.
LEMMA RunMapped ==
  ASSUME Session!SessionAssumption, SessionInv, NEW usec \in Elapsed,
         Session!retro_run(usec)
  PROVE  SessionInv' /\ Session!Api!RetroRun
<1>1. /\ phase = "running" /\ Session!Callbacks \subseteq given /\ used' = Session!Calls
      /\ UNCHANGED <<frontend, phase, given, user, machine>>
  BY DEF Session!retro_run
<1>2. /\ Session!Calls \subseteq Session!Callbacks
      /\ {"input poll", "video"} \subseteq Session!Calls
  BY DEF Session!Calls, Session!Callbacks
<1>3. frames' \in 0..MaxFrames
  BY DEF Session!retro_run, Session!Timed, Session!timeVars, SessionInv, Session!TypeOK,
         Session!SessionAssumption
<1>4. CASE changed
  <2>1. Session!check_variables(enable_rifs)
    BY <1>4 DEF Session!retro_run
  <2>2. enable_rifs \in BOOLEAN
    BY DEF SessionInv, Session!TypeOK
  <2>3. frontend.variables /\ Session!Api!Chosen = user
    BY <1>4 DEF SessionInv, Session!Api!Chosen
  <2>4. changed' = FALSE /\ cpu_frequency' = user.speed
    BY <2>1, <2>2, <2>3, CheckVariables
  <2>5. SessionInv'
    <3>1. phase' \in {"off", "set", "ready", "running", "over"} /\ phase # "off"
          /\ machine' \in {NoMachine} \cup SUBSET
               (Listed \cup {"disk", "chipset", "mouse", "CGA", "VGA", "rifs2"})
      BY <1>1 DEF SessionInv, Session!TypeOK
    <3>2. frontend.version >= 3 /\ ~frontend.variables => enable_rifs
      BY <2>3
    <3>3. QED  BY <1>1, <1>2, <1>3, <2>1, <2>2, <3>1, <3>2, CheckKeeps
  <2>6. QED  BY <1>1, <1>2, <1>4, <2>4, <2>5
                 DEF Session!Api!RetroRun, Session!Api!Callbacks, Session!Callbacks
<1>5. CASE ~changed
  <2>1. UNCHANGED <<changed, enable_vga, enable_rifs, cpu_frequency>>
    BY <1>5 DEF Session!retro_run, Session!optionVars
  <2>2. changed' = FALSE
    BY <1>5, <2>1 DEF SessionInv, Session!TypeOK
  <2>3. SessionInv'
    <3>1. Session!TypeOK'
      <4>1. {changed', enable_vga', enable_rifs'} \subseteq BOOLEAN
        BY <2>1 DEF SessionInv, Session!TypeOK
      <4>2. QED
        BY <1>1, <1>2, <1>3, <2>1, <4>1 DEF SessionInv, Session!TypeOK
    <3>2. QED  BY <1>1, <2>1, <3>1 DEF SessionInv
  <2>4. QED  BY <1>1, <1>2, <1>5, <2>1, <2>2, <2>3
                 DEF Session!Api!RetroRun, Session!Api!Callbacks, Session!Callbacks
<1>6. QED  BY <1>4, <1>5

LEMMA ResetMapped ==
  ASSUME Session!SessionAssumption, SessionInv, Session!retro_reset
  PROVE  SessionInv' /\ Session!Api!RetroReset
<1>1. /\ phase = "running" /\ used' = {"environment"}
      /\ Session!check_variables(enable_rifs)
      /\ UNCHANGED <<frontend, phase, given, user, machine, frames>>
  BY DEF Session!retro_reset, Session!timeVars
<1>2. /\ enable_rifs \in BOOLEAN /\ frames \in 0..MaxFrames /\ "environment" \in given
      /\ frontend.version >= 3 /\ ~frontend.variables => enable_rifs
  BY <1>1 DEF SessionInv, Session!TypeOK
<1>3. changed' = FALSE /\ cpu_frequency' = Session!Api!Chosen.speed
  BY <1>1, <1>2, CheckVariables
<1>4. SessionInv'
  <2>1. /\ phase' \in {"off", "set", "ready", "running", "over"} /\ phase # "off"
        /\ machine' \in {NoMachine} \cup SUBSET
             (Listed \cup {"disk", "chipset", "mouse", "CGA", "VGA", "rifs2"})
        /\ used' \subseteq Session!Callbacks
    BY <1>1 DEF SessionInv, Session!TypeOK, Session!Callbacks
  <2>2. frames' \in 0..MaxFrames
    BY <1>1, <1>2
  <2>3. QED  BY <1>1, <1>2, <2>1, <2>2, CheckKeeps
<1>5. QED  BY <1>1, <1>2, <1>3, <1>4 DEF Session!Api!RetroReset


LEMMA SessionInvStep ==
  ASSUME Session!SessionAssumption, SessionInv, [Session!Next]_(Session!vars)
  PROVE  SessionInv'
BY RestOfSession, LoadMapped, RunMapped, ResetMapped

LEMMA SessionMapped ==
  ASSUME Session!SessionAssumption, SessionInv, [Session!Next]_(Session!vars)
  PROVE  \/ Session!Api!Next
         \/ UNCHANGED <<frontend, phase, given, used, user, changed, machine,
                        cpu_frequency>>
<1> USE DEF Session!Api!Next
<1>1. CASE Session!retro_set_environment
  BY <1>1 DEF Session!retro_set_environment, Session!Api!SetEnvironment
<1>2. CASE Session!retro_init
  BY <1>2 DEF Session!retro_init, Session!Api!RetroInit
<1>3. ASSUME NEW c \in Session!Callbacks, Session!Set(c) PROVE Session!Api!Next
  BY <1>3 DEF Session!Set, Session!Api!SetCallback, Session!Api!Callbacks,
              Session!Callbacks
<1>4. ASSUME NEW o \in Session!Options, Session!Change(o) PROVE Session!Api!Next
  BY <1>4 DEF Session!Change, Session!Api!Change, Session!Api!Options, Session!Options
<1>5. CASE Session!retro_unload_game
  BY <1>5 DEF Session!retro_unload_game, Session!Api!UnloadGame
<1>6. ASSUME NEW content \in Contents, Session!retro_load_game(content)
      PROVE  Session!Api!Next
  BY <1>6, LoadMapped
<1>7. CASE \E usec \in Elapsed : Session!retro_run(usec)
  BY <1>7, RunMapped
<1>8. CASE Session!retro_reset
  BY <1>8, ResetMapped
<1>9. CASE UNCHANGED Session!vars
  BY <1>9 DEF Session!vars, Session!apiVars
<1>10. QED
  BY <1>1, <1>2, <1>3, <1>4, <1>5, <1>6, <1>7, <1>8, <1>9 DEF Session!Next

LEMMA SessionInvAlways == Spec => []SessionInv
<1>1. Init => SessionInv
  BY SessionInvInit, HostsAssumption DEF Init
<1>2. SessionInv /\ [Next]_vars => SessionInv'
  BY StepOfOne, SessionInvStep, HostsAssumption
<1>3. QED  BY <1>1, <1>2, PTL DEF Spec

\* For all frontends and contents, and however the user changes options between calls and
\* loads fail: a machine has the modules its options ask for, the speed is the one chosen
\* last, and no callback is called that was not given (core.odin:398-509,
\* options.odin:62-149).  RIFS2 is among the modules of a frontend without variables only
\* if it has version 3 of the VFS API; with variables the option alone decides, which is
\* not what core.odin:432 says (RifsNeedsVersion).
THEOREM CoreKeepsItsSide == Spec => CoreSpec
<1>1. Init => Session!Api!Init
  BY DEF Init, Session!Init, Session!Api!Init
<1>2. SessionInv /\ [Next]_vars =>
        [Session!Api!Next]_<<frontend, phase, given, used, user, changed, machine,
                             cpu_frequency>>
  BY StepOfOne, SessionMapped, HostsAssumption
<1>3. QED
  BY <1>1, <1>2, SessionInvAlways, PTL
     DEF Spec, CoreSpec, Session!CoreSpec, Session!Api!Spec
-----------------------------------------------------------------------------
(* The kernel's files. *)

\* An object that stands for a file, its access that of a mode the core uses.
Objects ==
  [path : Paths, access : {Files!Access(mode) : mode \in Modes}, pos : 0..MaxLength]

FilesInv ==
  /\ data \in [Paths -> Seq(Cells)] /\ \A path \in Paths : Len(data[path]) <= MaxLength
  /\ handles \in [0..Slots -> {Zero} \cup Objects]
  /\ \A i \in 0..Slots :
       Files!Opened(i) => handles[i].pos <= Len(data[handles[i].path])

\* What an object is to the core, and a step of the interface.
Image(object) ==
  IF object \notin {Zero, Spoilt}
    THEN [path |-> object.path, pos |-> object.pos, mode |-> Files!Mode(object.access)]
    ELSE object
Stream == [i \in 1..Slots |-> Image(handles[i])]

\* The modes the core uses can be read back from the access.
LEMMA ModeBack ==
  ASSUME Files!VfsAssumption, NEW mode \in Modes
  PROVE  Files!Mode(Files!Access(mode)) = mode
         /\ Files!Access(mode) \subseteq {"FA_READ", "FA_WRITE"}
<1>1. /\ mode \subseteq {"READ", "WRITE", "UPDATE_EXISTING"}
      /\ "WRITE" \in mode <=> "UPDATE_EXISTING" \in mode
  BY DEF Files!VfsAssumption
<1>2. /\ "FA_READ" \in Files!Access(mode) <=> "READ" \in mode
      /\ "FA_WRITE" \in Files!Access(mode) <=> "WRITE" \in mode
      /\ Files!Access(mode) \subseteq {"FA_READ", "FA_WRITE"}
  BY DEF Files!Access
<1>3. \A flag : flag \in Files!Mode(Files!Access(mode)) <=> flag \in mode
  BY <1>1, <1>2 DEF Files!Mode
<1>4. QED  BY <1>2, <1>3

\* An object that stands for a file is neither zero nor spoilt, nor is its image.
LEMMA ObjectOpen ==
  ASSUME Files!VfsAssumption, NEW object \in Objects
  PROVE  /\ object \notin {Zero, Spoilt} /\ Image(object) # Zero
         /\ Image(object) = [path |-> object.path, pos |-> object.pos,
                             mode |-> Files!Mode(object.access)]
         /\ object.path \in Paths /\ object.pos \in 0..MaxLength
         /\ Files!Mode(object.access) \in Modes
         /\ object.access \subseteq {"FA_READ", "FA_WRITE"}
<1>1. PICK mode \in Modes : object.access = Files!Access(mode)
  BY DEF Objects
<1>2. Files!Mode(object.access) = mode /\ object.access \subseteq {"FA_READ", "FA_WRITE"}
  BY <1>1, ModeBack
<1>3. object.path \in Paths /\ object.pos \in 0..MaxLength
  BY DEF Objects
<1>4. object \in [path : Paths, access : SUBSET {"FA_READ", "FA_WRITE"},
                  pos : 0..MaxLength]
  BY <1>2 DEF Objects
<1>5. object \notin {Zero, Spoilt}
  BY <1>4 DEF Files!VfsAssumption
<1>6. Image(object) = [path |-> object.path, pos |-> object.pos, mode |-> mode]
  BY <1>2, <1>5 DEF Image
<1>7. Image(object) \in [path : Paths, mode : Modes, pos : 0..MaxLength]
  BY <1>3, <1>6
<1>8. Image(object) # Zero
  BY <1>7 DEF Files!VfsAssumption
<1>9. QED  BY <1>2, <1>3, <1>5, <1>6, <1>8

LEMMA FilesInvInit == ASSUME Files!VfsAssumption, Files!Init PROVE FilesInv
<1>1. data \in [Paths -> Starts] /\ handles = [i \in 0..Slots |-> Zero]
  BY DEF Files!Init
<1>2. \A path \in Paths : data[path] \in Seq(Cells) /\ Len(data[path]) <= MaxLength
  BY <1>1 DEF Files!VfsAssumption
<1>3. QED  BY <1>1, <1>2 DEF FilesInv, Files!Opened

\* Writing at or before the end overwrites what is there, or makes the file longer.
LEMMA WriteIsPatch ==
  ASSUME NEW cells \in Seq(Cells), NEW bytes \in Seq(Cells), NEW pos \in 0..Len(cells)
  PROVE  /\ Files!f_write(cells, pos, bytes) = Files!Api!Patched(cells, pos, bytes)
         /\ Files!f_write(cells, pos, bytes) \in Seq(Cells)
         /\ Len(Files!f_write(cells, pos, bytes)) =
              IF pos + Len(bytes) > Len(cells) THEN pos + Len(bytes) ELSE Len(cells)
<1> DEFINE k == Len(bytes)
           left == SubSeq(cells, 1, pos)
           middle == left \o bytes
           right == SubSeq(cells, pos + k + 1, Len(cells))
           n == IF pos + k > Len(cells) THEN pos + k ELSE Len(cells)
           written == [i \in 1..n |-> IF i \in pos + 1..pos + k THEN bytes[i - pos]
                                                                ELSE cells[i]]
<1>0. /\ Len(cells) \in Nat /\ pos \in Nat /\ pos <= Len(cells) /\ k \in Nat
      /\ \A i \in 1..Len(cells) : cells[i] \in Cells
      /\ \A i \in 1..k : bytes[i] \in Cells
  OBVIOUS
<1>3. Files!f_write(cells, pos, bytes) = middle \o right
  BY Zenon DEF Files!f_write
<1>10. Files!Api!Patched(cells, pos, bytes) = written
  BY Zenon DEF Files!Api!Patched
<1>1. /\ left \in Seq(Cells) /\ Len(left) = pos
      /\ \A i \in 1..pos : left[i] = cells[i]
  BY <1>0, SubSeqProperties
<1>4. /\ middle \in Seq(Cells) /\ Len(middle) = pos + k
      /\ \A i \in 1..pos + k : middle[i] = IF i <= pos THEN cells[i] ELSE bytes[i - pos]
  BY <1>0, <1>1, ConcatProperties
<1> HIDE DEF k
<1>2. /\ right \in Seq(Cells)
      /\ Len(right) = IF pos + k + 1 <= Len(cells) THEN Len(cells) - pos - k ELSE 0
      /\ \A i \in 1..Len(right) : right[i] = cells[pos + k + i]
  BY <1>0, SubSeqProperties
<1> HIDE DEF left, middle, right, written
<1>5. n \in Nat /\ Len(right) \in Nat /\ pos + k + Len(right) = n /\ pos + k <= n
  <2>1. Len(right) \in Nat
    BY <1>2
  <2>2. Len(right) = IF pos + k + 1 <= Len(cells) THEN Len(cells) - pos - k ELSE 0
    BY <1>2
  <2>3. Len(cells) \in Nat /\ pos \in Nat /\ pos <= Len(cells) /\ k \in Nat
    BY <1>0
  <2>4. CASE pos + k > Len(cells)
    <3>1. n = pos + k /\ Len(right) = 0
      BY <2>2, <2>3, <2>4
    <3>2. QED  BY <2>3, <3>1
  <2>5. CASE ~(pos + k > Len(cells))
    <3>1. n = Len(cells)
      BY <2>5
    <3>2. Len(right) = Len(cells) - pos - k
      BY <2>2, <2>3, <2>5
    <3>3. QED  BY <2>1, <2>3, <2>5, <3>1, <3>2
  <2>6. QED  BY <2>4, <2>5
<1> HIDE DEF n
<1>6. /\ middle \o right \in Seq(Cells) /\ Len(middle \o right) = n
      /\ \A i \in 1..n : (middle \o right)[i] =
           IF i <= pos + k THEN middle[i] ELSE right[i - (pos + k)]
  <2>1. /\ middle \o right \in Seq(Cells)
        /\ Len(middle \o right) = Len(middle) + Len(right)
        /\ \A i \in 1..Len(middle) + Len(right) : (middle \o right)[i] =
             IF i <= Len(middle) THEN middle[i] ELSE right[i - Len(middle)]
    BY <1>2, <1>4, ConcatProperties
  <2>2. Len(middle) = pos + k /\ Len(middle) + Len(right) = n
    BY <1>4, <1>5
  <2>3. QED  BY <2>1, <2>2
<1>7. ASSUME NEW i \in 1..n PROVE (middle \o right)[i] = written[i]
  <2>0. i \in Nat /\ 1 <= i /\ i <= n
    BY <1>5
  <2>1. CASE i <= pos
    <3>1. i <= pos + k /\ i \in 1..pos + k /\ i \notin pos + 1..pos + k
      BY <1>0, <2>0, <2>1
    <3>2. (middle \o right)[i] = cells[i]
      BY <1>4, <1>6, <2>1, <3>1
    <3>3. QED  BY <2>0, <3>1, <3>2 DEF written
  <2>2. CASE pos < i /\ i <= pos + k
    <3>1. i \in 1..pos + k /\ i \in pos + 1..pos + k /\ ~(i <= pos)
      BY <1>0, <2>0, <2>2
    <3>2. (middle \o right)[i] = bytes[i - pos]
      BY <1>4, <1>6, <2>2, <3>1
    <3>3. QED  BY <2>0, <3>1, <3>2 DEF written
  <2>3. CASE i > pos + k
    <3>1. /\ i - (pos + k) \in 1..Len(right) /\ pos + k + (i - (pos + k)) = i
          /\ ~(i <= pos + k) /\ i \notin pos + 1..pos + k
      BY <1>0, <1>5, <2>0, <2>3
    <3>2. right[i - (pos + k)] = cells[i]
      BY <1>2, <3>1
    <3>3. QED  BY <1>6, <2>0, <3>1, <3>2 DEF written
  <2>4. (i <= pos \/ (pos < i /\ i <= pos + k)) \/ i > pos + k
    BY <1>0, <2>0
  <2>5. QED  BY <2>1, <2>2, <2>3, <2>4, Zenon
<1>8. written \in Seq(Cells) /\ Len(written) = n
  <2>1. ASSUME NEW i \in 1..n PROVE written[i] \in Cells
    <3>1. CASE i \in pos + 1..pos + k
      <4>1. i - pos \in 1..k
        BY <1>0, <3>1
      <4>2. QED  BY <1>0, <3>1, <4>1 DEF written
    <3>2. CASE i \notin pos + 1..pos + k
      <4>1. i \in 1..pos \/ i > pos + k
        BY <1>0, <1>5, <3>2
      <4>2. i \in 1..Len(cells)
        BY <1>0, <4>1 DEF n
      <4>3. QED  BY <1>0, <3>2, <4>2 DEF written
    <3>3. QED  BY <3>1, <3>2
  <2>2. QED  BY <1>5, <2>1 DEF written
<1>9. middle \o right = written
  <2> HIDE DEF written
  <2>1. QED  BY <1>6, <1>7, <1>8, SeqEqual
<1>11. QED  BY <1>3, <1>6, <1>9, <1>10 DEF n, k

\* An object is zero, or stands for a file and a place in it.
LEMMA OpenAt ==
  ASSUME Files!VfsAssumption, FilesInv, NEW i \in 0..Slots
  PROVE  /\ Files!Opened(i) <=> handles[i] \in Objects
         /\ ~Files!Opened(i) => handles[i] = Zero
         /\ Files!Opened(i) =>
              /\ handles[i].path \in Paths /\ handles[i].pos \in 0..Len(Files!Cell(i))
              /\ Files!Cell(i) \in Seq(Cells) /\ Len(Files!Cell(i)) <= MaxLength
              /\ Files!Cell(i) = data[handles[i].path]
<1>1. handles[i] \in {Zero} \cup Objects
  BY DEF FilesInv
<1>2. handles[i] \in Objects => Files!Opened(i)
  BY ObjectOpen DEF Files!Opened
<1>3. Files!Opened(i) => handles[i] \in Objects
  BY <1>1 DEF Files!Opened
<1>4. ASSUME Files!Opened(i)
      PROVE  /\ handles[i].path \in Paths /\ handles[i].pos \in 0..Len(Files!Cell(i))
             /\ Files!Cell(i) \in Seq(Cells) /\ Len(Files!Cell(i)) <= MaxLength
             /\ Files!Cell(i) = data[handles[i].path]
  <2>1. handles[i].path \in Paths /\ handles[i].pos \in 0..MaxLength
    BY <1>3, <1>4, ObjectOpen
  <2>2. handles[i].pos <= Len(data[handles[i].path])
    BY <1>4 DEF FilesInv
  <2>3. data[handles[i].path] \in Seq(Cells) /\ Len(data[handles[i].path]) <= MaxLength
    BY <2>1 DEF FilesInv
  <2>4. QED  BY <2>1, <2>2, <2>3 DEF Files!Cell
<1>5. QED  BY <1>1, <1>2, <1>3, <1>4

\* What an open handle stands for, as the core sees it.
LEMMA StreamAt ==
  ASSUME Files!VfsAssumption, FilesInv, NEW i \in 1..Slots
  PROVE  /\ Stream[i] = Image(handles[i])
         /\ i \in Files!Api!OpenHandles <=> Files!Opened(i)
         /\ Files!Opened(i) =>
              /\ Image(handles[i]) = [path |-> handles[i].path, pos |-> handles[i].pos,
                                      mode |-> Files!Mode(handles[i].access)]
              /\ Files!Api!File(i) = Files!Cell(i)
<1>0. i \in 0..Slots
  BY DEF Files!VfsAssumption
<1>1. Stream[i] = Image(handles[i])
  BY DEF Stream
<1>2. i \in Files!Api!OpenHandles <=> Stream[i] # Zero
  BY DEF Files!Api!OpenHandles, Stream, Image, Files!Opened
<1>3. Files!Opened(i) => Image(handles[i]) # Zero
  BY <1>0, OpenAt, ObjectOpen
<1>4. ~Files!Opened(i) => Image(handles[i]) = Zero
  BY <1>0, OpenAt DEF Image
<1>5. Files!Opened(i) =>
        Image(handles[i]) = [path |-> handles[i].path, pos |-> handles[i].pos,
                             mode |-> Files!Mode(handles[i].access)]
  BY <1>0, OpenAt, ObjectOpen
<1>6. Files!Opened(i) => Files!Api!File(i) = Files!Cell(i)
  <2>1. Files!Api!File(i) = data[Stream[i].path]
    BY DEF Files!Api!File, Stream, Image, Files!Opened
  <2>2. QED  BY <1>1, <1>5, <2>1 DEF Files!Cell
<1>7. QED  BY <1>1, <1>2, <1>3, <1>4, <1>5, <1>6

\* One object changes, and the files do not.
LEMMA StoreKeeps ==
  ASSUME Files!VfsAssumption, FilesInv, NEW i \in 0..Slots, NEW object,
         object \in {Zero} \cup Objects,
         object \in Objects => object.pos <= Len(data[object.path]),
         handles' = [handles EXCEPT ![i] = object], UNCHANGED data
  PROVE  /\ FilesInv'
         /\ i \in 1..Slots => Stream' = [Stream EXCEPT ![i] = Image(object)]
         /\ i = 0 => Stream' = Stream
<1>1. handles' \in [0..Slots -> {Zero} \cup Objects]
  BY DEF FilesInv
<1>2. ASSUME NEW j \in 0..Slots, Files!Opened(j)'
      PROVE  handles'[j].pos <= Len(data'[handles'[j].path])
  <2>1. CASE j = i
    <3>1. handles'[j] = object
      BY <2>1 DEF FilesInv
    <3>2. object \in Objects
      BY <1>2, <3>1 DEF Files!Opened
    <3>3. QED  BY <3>1, <3>2
  <2>2. CASE j # i
    <3>1. handles'[j] = handles[j]
      BY <2>2 DEF FilesInv
    <3>2. Files!Opened(j)
      BY <1>2, <3>1 DEF Files!Opened
    <3>3. QED  BY <3>1, <3>2 DEF FilesInv
  <2>3. QED  BY <2>1, <2>2
<1>3. FilesInv'
  BY <1>1, <1>2 DEF FilesInv
<1>4. \A j \in 0..Slots : handles'[j] = IF j = i THEN object ELSE handles[j]
  BY DEF FilesInv
<1>5. 1..Slots \subseteq 0..Slots
  BY DEF Files!VfsAssumption
<1>6. ASSUME i \in 1..Slots PROVE Stream' = [Stream EXCEPT ![i] = Image(object)]
  <2>1. Stream' = [j \in 1..Slots |-> Image(handles'[j])]
    BY DEF Stream, Image
  <2>2. \A j \in 1..Slots : Image(handles'[j]) =
          IF j = i THEN Image(object) ELSE Image(handles[j])
    <3>1. ASSUME NEW j \in 1..Slots
          PROVE  Image(handles'[j]) = IF j = i THEN Image(object) ELSE Image(handles[j])
      <4>1. handles'[j] = IF j = i THEN object ELSE handles[j]
        BY <1>4, <1>5
      <4>2. CASE j = i
        BY <4>1, <4>2
      <4>3. CASE j # i
        BY <4>1, <4>3
      <4>4. QED  BY <4>2, <4>3
    <3>2. QED  BY <3>1
  <2>3. QED  BY <2>1, <2>2 DEF Stream
<1>7. ASSUME i = 0 PROVE Stream' = Stream
  <2>1. \A j \in 1..Slots : j # i
    BY <1>7
  <2>2. QED  BY <1>4, <1>5, <2>1 DEF Stream
<1>8. QED  BY <1>3, <1>6, <1>7

\* Nothing changes but the answer.
LEMMA SameKeeps ==
  ASSUME FilesInv, UNCHANGED <<data, handles>> PROVE FilesInv' /\ Stream' = Stream
BY DEF FilesInv, Files!Opened, Stream, Image
-----------------------------------------------------------------------------
\* A file is opened in the first free place, or not at all.
LEMMA OpenMapped ==
  ASSUME Files!VfsAssumption, FilesInv, NEW path \in Paths, NEW mode \in Modes,
         Files!vfs_open(path, mode)
  PROVE  FilesInv' /\ Files!Api!Open(path, mode)
<1>1. UNCHANGED data
  BY DEF Files!vfs_open
<1>2. CASE answer' = Files!Answer("open", 0) /\ UNCHANGED handles
  <2>1. FilesInv' /\ Stream' = Stream
    BY <1>1, <1>2, SameKeeps
  <2>2. QED
    BY <1>1, <1>2, <2>1 DEF Files!Api!Open, Files!Api!Answer, Files!Answer, Stream,
                            Image, Files!Opened
<1>3. CASE \E i \in 1..Slots, object \in Files!f_open(path, Files!Access(mode)) :
             /\ Files!FirstFree(i)
             /\ handles' = [handles EXCEPT ![i] = Files!Cleared(object)]
             /\ answer' = Files!Answer("open", IF object = Spoilt THEN 0 ELSE i)
  <2>1. PICK i \in 1..Slots, object \in Files!f_open(path, Files!Access(mode)) :
             /\ Files!FirstFree(i)
             /\ handles' = [handles EXCEPT ![i] = Files!Cleared(object)]
             /\ answer' = Files!Answer("open", IF object = Spoilt THEN 0 ELSE i)
    BY <1>3
  <2>2. handles[i] = Zero /\ i \in 0..Slots /\ ~Files!Opened(i)
    BY <2>1 DEF Files!FirstFree, Files!IsFree, Files!Opened, Files!VfsAssumption
  <2>3. CASE object = Spoilt
    <3>1. UNCHANGED handles
      BY <2>1, <2>2, <2>3 DEF Files!Cleared, FilesInv
    <3>2. QED  BY <1>2, <2>1, <2>3, <3>1
  <2>4. CASE object # Spoilt
    <3>1. object = [path |-> path, access |-> Files!Access(mode), pos |-> 0]
      BY <2>1, <2>4 DEF Files!f_open
    <3>2. object \in Objects
      BY <3>1 DEF Objects, Files!VfsAssumption
    <3>3. object.pos <= Len(data[object.path])
      BY <3>1 DEF FilesInv
    <3>4. handles' = [handles EXCEPT ![i] = object] /\ answer' = Files!Answer("open", i)
      BY <2>1, <2>4 DEF Files!Cleared
    <3>5. FilesInv' /\ Stream' = [Stream EXCEPT ![i] = Image(object)]
      BY <1>1, <2>2, <3>2, <3>3, <3>4, StoreKeeps
    <3>6. Image(object) = [path |-> path, mode |-> mode, pos |-> 0]
      BY <3>1, <3>2, ObjectOpen, ModeBack
    <3>7. ~Files!Api!Discards(mode)
      BY DEF Files!Api!Discards, Files!VfsAssumption
    <3>8. data' = [data EXCEPT ![path] = IF Files!Api!Discards(mode) THEN <<>> ELSE @]
      BY <1>1, <3>7 DEF FilesInv
    <3>9. i \in (1..Slots) \ Files!Api!OpenHandles
      BY <2>2, StreamAt
    <3>10. QED
      BY <3>4, <3>5, <3>6, <3>8, <3>9 DEF Files!Api!Open, Files!Api!Answer,
         Files!Answer, Stream, Image, Files!Opened
  <2>5. QED  BY <2>3, <2>4
<1>4. QED  BY <1>2, <1>3 DEF Files!vfs_open, Files!NULL

\* Closing nil closes nothing.
LEMMA CloseMapped ==
  ASSUME Files!VfsAssumption, FilesInv, NEW i \in 0..Slots, i = 0 \/ Files!Opened(i),
         Files!vfs_close(i)
  PROVE  FilesInv' /\ Files!Api!Next
<1>1. /\ handles' = [handles EXCEPT ![i] = Zero] /\ UNCHANGED data
      /\ answer' = Files!Answer("close", 0)
  BY DEF Files!vfs_close
<1>2. Zero \notin Objects /\ Image(Zero) = Zero
  BY ObjectOpen DEF Image
<1>3. /\ FilesInv' /\ (i = 0 => Stream' = Stream)
      /\ i \in 1..Slots => Stream' = [Stream EXCEPT ![i] = Zero]
  BY <1>1, <1>2, StoreKeeps
<1>4. CASE i = 0
  <2>1. Files!Api!CloseNull
    BY <1>1, <1>3, <1>4 DEF Files!Api!CloseNull, Files!Api!Answer, Files!Answer, Stream,
       Image, Files!Opened
  <2>2. QED  BY <1>3, <2>1 DEF Files!Api!Next
<1>5. CASE i # 0
  <2>1. i \in 1..Slots
    BY <1>5 DEF Files!VfsAssumption
  <2>2. i \in Files!Api!OpenHandles
    BY <1>5, <2>1, StreamAt
  <2>3. Files!Api!Close(i)
    BY <1>1, <1>3, <2>1 DEF Files!Api!Close, Files!Api!Answer, Files!Answer, Stream,
       Image, Files!Opened
  <2>4. QED  BY <1>3, <2>2, <2>3 DEF Files!Api!Next
<1>6. QED  BY <1>4, <1>5

\* Asking for a size and flushing.
LEMMA QuietMapped ==
  ASSUME Files!VfsAssumption, FilesInv, NEW i \in 1..Slots,
         Files!vfs_flush(i) \/ Files!vfs_size(i)
  PROVE  FilesInv' /\ Files!Api!Next
<1>1. Files!Opened(i) /\ UNCHANGED <<data, handles>>
  BY DEF Files!vfs_flush, Files!vfs_size
<1>2. FilesInv' /\ Stream' = Stream
  BY <1>1, SameKeeps
<1>3. i \in Files!Api!OpenHandles /\ Files!Api!File(i) = Files!Cell(i)
  BY <1>1, StreamAt
<1>4. Files!Api!Flush(i) \/ Files!Api!Size(i)
  BY <1>1, <1>2, <1>3
     DEF Files!vfs_flush, Files!vfs_size, Files!Api!Flush, Files!Api!Size,
         Files!Api!Answer, Files!Answer, Stream, Image, Files!Opened
<1>5. QED  BY <1>2, <1>3, <1>4 DEF Files!Api!Next

\* A position that moves within the file.
LEMMA MoveKeeps ==
  ASSUME Files!VfsAssumption, FilesInv, NEW i \in 1..Slots, Files!Opened(i),
         NEW pos \in 0..Len(Files!Cell(i)), UNCHANGED data,
         handles' = [handles EXCEPT ![i].pos = pos]
  PROVE  FilesInv' /\ Stream' = [Stream EXCEPT ![i].pos = pos]
<1> DEFINE moved == [handles[i] EXCEPT !.pos = pos]
<1>0. i \in 0..Slots
  BY DEF Files!VfsAssumption
<1>1. handles[i] \in Objects /\ pos \in 0..MaxLength
  BY <1>0, OpenAt DEF Files!VfsAssumption
<1>2. /\ moved \in Objects /\ moved.path = handles[i].path /\ moved.pos = pos
      /\ moved.access = handles[i].access
  BY <1>1 DEF Objects
<1>3. handles' = [handles EXCEPT ![i] = moved]
  BY <1>0 DEF FilesInv
<1>4. moved.pos <= Len(data[moved.path])
  BY <1>0, <1>2, OpenAt
<1>5. FilesInv' /\ Stream' = [Stream EXCEPT ![i] = Image(moved)]
  <2> HIDE DEF moved
  <2>1. QED  BY <1>0, <1>2, <1>3, <1>4, StoreKeeps
<1>6. Image(moved) = [Image(handles[i]) EXCEPT !.pos = pos]
  <2>1. Image(moved) = [path |-> handles[i].path, pos |-> pos,
                        mode |-> Files!Mode(handles[i].access)]
    <3> HIDE DEF moved
    <3>1. QED  BY <1>2, ObjectOpen
  <2>2. Image(handles[i]) = [path |-> handles[i].path, pos |-> handles[i].pos,
                             mode |-> Files!Mode(handles[i].access)]
    BY <1>1, ObjectOpen
  <2>3. QED  BY <2>1, <2>2
<1>7. Stream[i] = Image(handles[i])
  BY DEF Stream
<1>8. QED  BY <1>5, <1>6, <1>7

LEMMA SeekMapped ==
  ASSUME Files!VfsAssumption, FilesInv, NEW i \in 1..Slots, Files!Opened(i),
         NEW offset \in 0..MaxLength, offset <= Len(Files!Cell(i)),
         Files!vfs_seek(i, offset)
  PROVE  FilesInv' /\ Files!Api!Next
<1>0. /\ i \in 0..Slots /\ i \in Files!Api!OpenHandles
      /\ Files!Api!File(i) = Files!Cell(i) /\ Files!Cell(i) \in Seq(Cells)
  <2>1. i \in 0..Slots
    BY DEF Files!VfsAssumption
  <2>2. QED  BY <2>1, StreamAt, OpenAt
<1>1. offset \in 0..Len(Files!Cell(i)) /\ UNCHANGED data
  BY <1>0 DEF Files!vfs_seek, Files!VfsAssumption
<1>2. FilesInv' /\ Files!Api!Seek(i, offset)
  <2>1. CASE /\ handles' = [handles EXCEPT ![i].pos = offset]
             /\ answer' = Files!Answer("seek", 0)
    BY <1>1, <2>1, MoveKeeps DEF Files!Api!Seek, Files!Api!Answer, Files!Answer, Stream,
       Image, Files!Opened
  <2>2. CASE answer' = Files!ERROR("seek") /\ UNCHANGED handles
    BY <1>1, <2>2, SameKeeps DEF Files!Api!Seek, Files!Api!Answer, Files!Answer,
       Files!Api!ERROR, Files!ERROR, Stream, Image, Files!Opened
  <2>3. QED  BY <2>1, <2>2 DEF Files!vfs_seek
<1>3. QED  BY <1>0, <1>1, <1>2 DEF Files!Api!Next

\* A mode that reads or writes is one that asked for it.
LEMMA ModeAsked ==
  ASSUME Files!VfsAssumption, FilesInv, NEW i \in 1..Slots, Files!Opened(i)
  PROVE  /\ "FA_READ" \in handles[i].access <=> "READ" \in Stream[i].mode
         /\ "FA_WRITE" \in handles[i].access <=> "WRITE" \in Stream[i].mode
         /\ Stream[i].path = handles[i].path /\ Stream[i].pos = handles[i].pos
<1>1. Stream[i] = [path |-> handles[i].path, pos |-> handles[i].pos,
                   mode |-> Files!Mode(handles[i].access)]
  BY StreamAt
<1>2. QED  BY <1>1 DEF Files!Mode

LEMMA ReadMapped ==
  ASSUME Files!VfsAssumption, FilesInv, NEW i \in 1..Slots, NEW n \in 1..MaxLength,
         Files!vfs_read(i, n)
  PROVE  FilesInv' /\ Files!Api!Next
<1>0. /\ Files!Opened(i) /\ UNCHANGED data /\ i \in 0..Slots
      /\ i \in Files!Api!OpenHandles
  <2>1. i \in 0..Slots
    BY DEF Files!VfsAssumption
  <2>2. Files!Opened(i) /\ UNCHANGED data
    BY DEF Files!vfs_read
  <2>3. QED  BY <2>1, <2>2, StreamAt
<1>1. FilesInv' /\ Files!Api!Read(i, n)
  <2>1. CASE /\ "FA_READ" \in handles[i].access
             /\ answer' = [of |-> "read", number |-> Len(Files!f_read(i, n)),
                            bytes |-> Files!f_read(i, n)]
             /\ handles' = [handles EXCEPT ![i].pos = @ + Len(Files!f_read(i, n))]
    <3> DEFINE cells == Files!Cell(i)
               pos == handles[i].pos
               end == IF pos + n < Len(cells) THEN pos + n ELSE Len(cells)
    <3>1. cells \in Seq(Cells) /\ pos \in 0..Len(cells) /\ n \in Nat
      BY <1>0, OpenAt DEF Files!VfsAssumption
    <3>2. Files!f_read(i, n) = SubSeq(cells, pos + 1, end)
      BY DEF Files!f_read, Files!Fewer
    <3>3. Len(SubSeq(cells, pos + 1, end)) = end - pos /\ end \in pos..Len(cells)
      <4> HIDE DEF cells, pos
      <4>1. end \in pos..Len(cells)
        BY <3>1
      <4>2. \A j \in pos + 1..end : cells[j] \in Cells
        BY <3>1, <4>1
      <4>3. Len(SubSeq(cells, pos + 1, end)) =
              IF pos + 1 <= end THEN end - (pos + 1) + 1 ELSE 0
        <5> HIDE DEF end
        <5>1. pos + 1 \in Int /\ end \in Int
          BY <3>1, <4>1
        <5>2. QED  BY <4>2, <5>1, SubSeqProperties
      <4>4. QED  BY <3>1, <4>1, <4>3
    <3>4. handles' = [handles EXCEPT ![i].pos = pos + (end - pos)]
      BY <1>0, <2>1, <3>2, <3>3 DEF FilesInv
    <3>5. pos + (end - pos) \in 0..Len(cells)
      <4> HIDE DEF cells, pos, end
      <4>1. QED  BY <3>1, <3>3
    <3>6. FilesInv' /\ Stream' = [Stream EXCEPT ![i].pos = pos + (end - pos)]
      BY <1>0, <3>4, <3>5, MoveKeeps
    <3>7. Files!Api!Slice(i, n) = Files!f_read(i, n)
      <4>1. Files!Api!File(i) = cells /\ Stream[i].pos = pos
        BY <1>0, StreamAt, ModeAsked
      <4>2. Files!Api!Slice(i, n) =
              SubSeq(Files!Api!File(i), Stream[i].pos + 1,
                     Files!Api!Lesser(Stream[i].pos + n, Len(Files!Api!File(i))))
        BY DEF Files!Api!Slice, Stream, Image, Files!Opened
      <4>3. QED  BY <3>2, <4>1, <4>2 DEF Files!Api!Lesser
    <3>8. Stream' = [Stream EXCEPT ![i].pos = @ + Len(Files!Api!Slice(i, n))]
      BY <1>0, <3>2, <3>3, <3>6, <3>7, ModeAsked
    <3>9. "READ" \in Stream[i].mode
      BY <1>0, <2>1, ModeAsked
    <3>10. Files!Api!Read(i, n)
      BY <1>0, <2>1, <3>7, <3>8, <3>9 DEF Files!Api!Read, Stream, Image, Files!Opened
    <3>11. QED  BY <3>6, <3>10
  <2>2. CASE answer' = Files!ERROR("read") /\ UNCHANGED handles
    BY <1>0, <2>2, SameKeeps DEF Files!Api!Read, Files!Api!Answer, Files!Answer,
       Files!Api!ERROR, Files!ERROR, Stream, Image, Files!Opened
  <2>3. QED  BY <2>1, <2>2 DEF Files!vfs_read
<1>2. n \in 1..MaxLength
  OBVIOUS
<1>3. QED  BY <1>0, <1>1, <1>2 DEF Files!Api!Next

\* A write makes no file shorter, so that all other positions stay in it.
LEMMA WriteMapped ==
  ASSUME Files!VfsAssumption, FilesInv, NEW i \in 1..Slots,
         NEW n \in 1..MaxLength, NEW all \in [1..n -> Cells],
         Files!Opened(i), handles[i].pos + n <= MaxLength, Files!vfs_write(i, all)
  PROVE  FilesInv' /\ Files!Api!Next
<1> DEFINE path == handles[i].path
           pos == handles[i].pos
<1>0. /\ i \in 0..Slots /\ MaxLength \in Nat /\ n \in Nat
      /\ all \in Seq(Cells) /\ Len(all) = n
  BY DEF Files!VfsAssumption
<1>1. /\ path \in Paths /\ pos \in 0..Len(data[path]) /\ data[path] \in Seq(Cells)
      /\ Len(data[path]) <= MaxLength /\ handles[i] \in Objects
  BY <1>0, OpenAt
<1>2. i \in Files!Api!OpenHandles /\ Stream[i].path = path /\ Stream[i].pos = pos
  BY StreamAt, ModeAsked
<1>3. ASSUME NEW m \in 0..n, "FA_WRITE" \in handles[i].access,
             data' = [data EXCEPT ![handles[i].path] =
                         Files!f_write(@, handles[i].pos, SubSeq(all, 1, m))],
             handles' = [handles EXCEPT ![i].pos = @ + m],
             answer' = Files!Answer("write", m)
      PROVE  FilesInv' /\ Files!Api!Next
  <2> DEFINE bytes == SubSeq(all, 1, m)
             cells == Files!f_write(data[path], pos, bytes)
  <2>0. bytes \in Seq(Cells) /\ Len(bytes) = m /\ m \in Nat /\ m <= n
    <3>1. m \in Nat /\ m <= n /\ \A j \in 1..m : all[j] \in Cells
      BY <1>0
    <3>2. QED  BY <3>1, SubSeqProperties
  <2> HIDE DEF bytes
  <2>1. /\ cells = Files!Api!Patched(data[path], pos, bytes) /\ cells \in Seq(Cells)
        /\ Len(cells) = IF pos + m > Len(data[path]) THEN pos + m ELSE Len(data[path])
    BY <1>1, <2>0, WriteIsPatch
  <2>2. Len(cells) <= MaxLength /\ Len(data[path]) <= Len(cells) /\ pos + m <= Len(cells)
    <3> HIDE DEF cells, path
    <3>1. QED  BY <1>0, <1>1, <2>0, <2>1
  <2>3. data' = [data EXCEPT ![path] = cells]
    BY <1>3 DEF bytes
  <2>4. handles' = [handles EXCEPT ![i] = [handles[i] EXCEPT !.pos = pos + m]]
    BY <1>0, <1>3 DEF FilesInv
  <2> DEFINE moved == [handles[i] EXCEPT !.pos = pos + m]
  <2>5. /\ moved \in Objects /\ moved.path = path /\ moved.pos = pos + m
        /\ moved.access = handles[i].access
    <3>1. pos + m \in 0..MaxLength
      BY <1>0, <1>1, <2>0
    <3>2. QED  BY <1>1, <3>1 DEF Objects
  <2> HIDE DEF cells, moved
  <2>6. /\ data' \in [Paths -> Seq(Cells)]
        /\ \A p \in Paths : Len(data'[p]) <= MaxLength /\ Len(data[p]) <= Len(data'[p])
        /\ data'[path] = cells
    <3>1. \A p \in Paths : data'[p] = IF p = path THEN cells ELSE data[p]
      BY <1>1, <2>3 DEF FilesInv
    <3>2. \A p \in Paths : data[p] \in Seq(Cells) /\ Len(data[p]) <= MaxLength
      BY DEF FilesInv
    <3>3. data' \in [Paths -> Seq(Cells)]
      BY <2>1, <2>3 DEF FilesInv
    <3>4. path \in Paths /\ Len(cells) <= MaxLength /\ Len(data[path]) <= Len(cells)
      BY <1>1, <2>2
    <3> HIDE DEF path
    <3>5. ASSUME NEW p \in Paths
          PROVE  Len(data'[p]) <= MaxLength /\ Len(data[p]) <= Len(data'[p])
      <4>1. CASE p = path
        BY <3>1, <3>4, <4>1
      <4>2. CASE p # path
        <5>1. data'[p] = data[p] /\ Len(data[p]) \in Nat /\ Len(data[p]) <= MaxLength
          BY <3>1, <3>2, <4>2
        <5>2. QED  BY <5>1
      <4>3. QED  BY <4>1, <4>2
    <3>6. data'[path] = cells
      BY <3>1, <3>4
    <3>7. QED  BY <3>3, <3>5, <3>6
  <2>7. \A j \in 0..Slots : handles'[j] = IF j = i THEN moved ELSE handles[j]
    BY <1>0, <2>4 DEF FilesInv, moved
  <2>8. ASSUME NEW j \in 0..Slots, Files!Opened(j)'
        PROVE  handles'[j].pos <= Len(data'[handles'[j].path])
    <3>1. CASE j = i
      BY <2>2, <2>5, <2>6, <2>7, <3>1
    <3>2. CASE j # i
      <4>1. handles'[j] = handles[j] /\ Files!Opened(j)
        BY <2>7, <2>8, <3>2 DEF Files!Opened
      <4>2. /\ handles[j].path \in Paths /\ data[handles[j].path] \in Seq(Cells)
            /\ handles[j].pos \in 0..Len(data[handles[j].path])
        BY <4>1, OpenAt
      <4>3. data'[handles[j].path] \in Seq(Cells)
            /\ Len(data[handles[j].path]) <= Len(data'[handles[j].path])
        BY <2>6, <4>2
      <4>4. QED  BY <4>1, <4>2, <4>3
    <3>3. QED  BY <3>1, <3>2
  <2>9. FilesInv'
    <3>1. handles' \in [0..Slots -> {Zero} \cup Objects]
      BY <2>4, <2>5 DEF FilesInv, moved
    <3>2. QED  BY <2>6, <2>8, <3>1 DEF FilesInv
  <2>10. Stream' = [Stream EXCEPT ![i].pos = @ + m]
    <3>1. /\ Image(moved) = [path |-> path, pos |-> pos + m,
                             mode |-> Files!Mode(handles[i].access)]
          /\ Image(handles[i]) = [path |-> path, pos |-> pos,
                                  mode |-> Files!Mode(handles[i].access)]
      BY <1>1, <2>5, ObjectOpen
    <3>2. Image(moved) = [Image(handles[i]) EXCEPT !.pos = @ + m]
      BY <3>1
    <3>3. Stream' = [j \in 1..Slots |-> Image(handles'[j])]
      BY DEF Stream, Image
    <3>4. \A j \in 1..Slots :
            Image(handles'[j]) = IF j = i THEN Image(moved) ELSE Image(handles[j])
      <4>1. ASSUME NEW j \in 1..Slots
            PROVE  Image(handles'[j]) = IF j = i THEN Image(moved) ELSE Image(handles[j])
        <5>1. handles'[j] = IF j = i THEN moved ELSE handles[j]
          BY <1>0, <2>7 DEF Files!VfsAssumption
        <5>2. CASE j = i
          BY <5>1, <5>2
        <5>3. CASE j # i
          BY <5>1, <5>3
        <5>4. QED  BY <5>2, <5>3
      <4>2. QED  BY <4>1
    <3>5. Stream' = [Stream EXCEPT ![i] = Image(moved)]
      BY <3>3, <3>4 DEF Stream
    <3>6. Stream[i] = Image(handles[i])
      BY DEF Stream
    <3>7. QED  BY <3>2, <3>5, <3>6
  <2>11. Files!Api!Write(i, all)
    <3>1. "WRITE" \in Stream[i].mode
      BY <1>3, ModeAsked
    <3>2. data' = [data EXCEPT ![Stream[i].path] =
                     Files!Api!Patched(@, Stream[i].pos, SubSeq(all, 1, m))]
      BY <1>2, <2>1, <2>3 DEF bytes
    <3>3. m \in 0..Len(all)
      BY <1>0
    <3>4. QED
      BY <1>3, <2>10, <3>1, <3>2, <3>3 DEF Files!Api!Write, Files!Api!Answer,
         Files!Answer, Stream, Image, Files!Opened
  <2>12. QED  BY <1>2, <2>9, <2>11 DEF Files!Api!Next
<1>4. CASE answer' = Files!ERROR("write") /\ UNCHANGED <<data, handles>>
  <2>1. FilesInv' /\ Files!Api!Write(i, all)
    BY <1>4, SameKeeps DEF Files!Api!Write, Files!Api!Answer, Files!Answer,
       Files!Api!ERROR, Files!ERROR, Stream, Image, Files!Opened
  <2>2. QED  BY <1>2, <2>1 DEF Files!Api!Next
<1>5. QED  BY <1>0, <1>3, <1>4 DEF Files!vfs_write

LEMMA FilesStep ==
  ASSUME Files!VfsAssumption, FilesInv, [Files!Next]_(Files!vars)
  PROVE  /\ FilesInv'
         /\ Files!Api!Next \/ (UNCHANGED <<data, answer>> /\ Stream' = Stream)
<1>1. CASE UNCHANGED Files!vars
  BY <1>1, SameKeeps DEF Files!vars
<1>2. ASSUME NEW path \in Paths, NEW mode \in Modes, Files!vfs_open(path, mode)
      PROVE  FilesInv' /\ Files!Api!Next
  BY <1>2, OpenMapped DEF Files!Api!Next
<1>3. ASSUME NEW i \in 0..Slots, i = Files!NULL \/ Files!Opened(i), Files!vfs_close(i)
      PROVE  FilesInv' /\ Files!Api!Next
  BY <1>3, CloseMapped DEF Files!NULL
<1>4. ASSUME NEW i \in 1..Slots, Files!vfs_flush(i) \/ Files!vfs_size(i)
      PROVE  FilesInv' /\ Files!Api!Next
  BY <1>4, QuietMapped
<1>5. ASSUME NEW i \in 1..Slots, NEW n \in 1..MaxLength, Files!vfs_read(i, n)
      PROVE  FilesInv' /\ Files!Api!Next
  BY <1>5, ReadMapped
<1>6. ASSUME NEW i \in 1..Slots, NEW n \in 1..MaxLength, NEW bytes \in [1..n -> Cells],
             Files!Opened(i) /\ handles[i].pos + n <= MaxLength, Files!vfs_write(i, bytes)
      PROVE  FilesInv' /\ Files!Api!Next
  BY <1>6, WriteMapped
<1>7. ASSUME NEW i \in 1..Slots, NEW offset \in 0..MaxLength,
             Files!Opened(i) /\ offset <= Len(Files!Cell(i)), Files!vfs_seek(i, offset)
      PROVE  FilesInv' /\ Files!Api!Next
  BY <1>7, SeekMapped
<1>8. QED  BY <1>1, <1>2, <1>3, <1>4, <1>5, <1>6, <1>7 DEF Files!Next

LEMMA FilesInvAlways == Spec => []FilesInv
<1>1. Init => FilesInv
  BY FilesInvInit, HostsAssumption DEF Init
<1>2. FilesInv /\ [Next]_vars => FilesInv'
  BY StepOfOne, FilesStep, HostsAssumption
<1>3. QED  BY <1>1, <1>2, PTL DEF Spec

\* For any number of handles, files and writes of any length, whatever FatFs fails at and
\* however full the card is: a handle stands for one file until it is closed, through
\* failed opens, a full array and the closing of nil, and what is read and written is the
\* file's own (kernel.cpp:92-159).  Of what libretro.h promises two answers are excepted:
\* a seek does not give the new position, and closing nil does not fail (CircleVfs).
THEOREM FilesKeepPromises == Spec => VfsSpec
<1>1. Init => Files!Api!Init
  <2>1. ASSUME Files!Init PROVE Files!Api!Init
    <3>1. \A i \in 1..Slots : i \in 0..Slots
      BY HostsAssumption DEF Files!VfsAssumption
    <3>2. Stream = [h \in 1..Slots |-> Zero]
      BY <2>1, <3>1 DEF Files!Init, Stream, Image
    <3>3. QED
      BY <2>1, <3>2 DEF Files!Init, Files!Api!Init, Files!Api!Answer,
         Files!Answer, Stream, Image, Files!Opened
  <2>2. QED  BY <2>1 DEF Init
<1>2. FilesInv /\ [Next]_vars =>
        [Files!Api!Next]_<<data, [i \in 1..Slots |->
           IF Files!Opened(i)
             THEN [path |-> handles[i].path, pos |-> handles[i].pos,
                   mode |-> Files!Mode(handles[i].access)]
             ELSE handles[i]], answer>>
  BY StepOfOne, FilesStep, HostsAssumption DEF Stream, Image, Files!Opened
<1>3. QED
  BY <1>1, <1>2, FilesInvAlways, PTL DEF Spec, VfsSpec, Files!VfsSpec, Files!Api!Spec
-----------------------------------------------------------------------------
\* Every variable of the hosts keeps its type.
THEOREM HostsTyped == Spec => []TypeOK
<1>1. Init => KernelTypes
  BY KernelTypesInit, HostsAssumption DEF Init
<1>2. KernelTypes /\ [Next]_vars => KernelTypes'
  BY StepOfOne, KernelTypesStep, HostsAssumption
<1>3. KernelInv /\ KernelTypes => Kernel!TypeOK
  <2>1. ASSUME KernelInv PROVE /\ boot \in Before \cup {"loop"}
                                /\ at \in [Kernel!Cores -> Places]
                                /\ samples \in Nat /\ needed \in Nat /\ queue \in Nat
    BY <2>1, HostsAssumption DEF KernelInv, BootInv, SoundInv, Kernel!KernelAssumption
  <2>2. KernelTypes =>
          \A d \in Devices : {plugged[d], tree[d], pointer[d]} \subseteq Plugs \cup {0}
    BY DEF KernelTypes
  <2>3. QED  BY <2>1, <2>2 DEF KernelTypes, Kernel!TypeOK, Before, Places
<1>4. FilesInv => Files!TypeOK
  <2> SUFFICES ASSUME FilesInv PROVE Files!TypeOK
    OBVIOUS
  <2>1. MaxLength \in Nat /\ Files!VfsAssumption
    BY HostsAssumption DEF Files!VfsAssumption
  <2>2. ASSUME NEW path \in Paths
        PROVE  data[path] \in UNION {[1..n -> Cells] : n \in 0..MaxLength}
    <3>1. data[path] \in Seq(Cells) /\ Len(data[path]) \in 0..MaxLength
      BY <2>1 DEF FilesInv
    <3>2. data[path] \in [1..Len(data[path]) -> Cells]
      BY <3>1
    <3>3. QED  BY <3>1, <3>2
  <2>3. ASSUME NEW i \in 0..Slots, Files!Opened(i)
        PROVE  /\ handles[i].path \in Paths /\ handles[i].pos \in 0..MaxLength
               /\ handles[i].access \subseteq {"FA_READ", "FA_WRITE"}
    BY <2>1, <2>3, OpenAt, ObjectOpen
  <2>4. data \in [Paths -> UNION {[1..n -> Cells] : n \in 0..MaxLength}]
    BY <2>2 DEF FilesInv
  <2>5. QED  BY <2>3, <2>4 DEF Files!TypeOK
<1>5. SessionInv => Session!TypeOK
  BY DEF SessionInv
<1>6. QED
  BY <1>1, <1>2, <1>3, <1>4, <1>5, KernelInvAlways, FilesInvAlways, SessionInvAlways,
     HostsAssumption, PTL DEF Spec, TypeOK
=============================================================================
