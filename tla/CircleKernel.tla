----------------------------- MODULE CircleKernel -----------------------------
(***************************************************************************)
(* The kernel that runs the core on a bare Raspberry Pi                    *)
(* (tools/circle/kernel).  Core 0 boots and then looks after the USB       *)
(* devices; core 1 runs the frames, core 2 is kept for rendering, core 3   *)
(* feeds the sound device.  They share one spin lock.                      *)
(*                                                                         *)
(* The clock is left out: what the loops do every so many ticks they may   *)
(* do at any time, and the fairness says that they do.  A frame buffer is  *)
(* the size it was made for.  The Circle library is the environment: the   *)
(* devices, the firmware that grants frame buffers, the sound queue, the   *)
(* lock.                                                                   *)
(***************************************************************************)
EXTENDS Integers

CONSTANTS
  Sizes,       \* sizes of the frames the guest's modes give
  NoSize,      \* 0 x 0: no mode is set yet
  Desktop,     \* the size of the buffer that is made to clear the screen
  Nothing,     \* no frame buffer
  Deleted,     \* one that was deleted
  Refused,     \* what the firmware may refuse: "size", "fallback"
  BufferSize,  \* samples audio_buffer holds
  QueueSize,   \* samples the device's queue holds
  Chunk,       \* samples the device takes at a time
  Devices,     \* "keyboard", "mouse"
  Plugs        \* numbers of the plugged devices, from 1

VARIABLES
  boot,       \* the next step of CKernel::Run
  callbacks,  \* what was set by the kernel and by the core it loaded
  at,         \* where each core is
  lock,       \* the core that holds s_SpinLock; 4 if none does
  screen,     \* screen_width and screen_height
  fb,         \* s_pFrameBuffer
  shown,      \* history: the last frame that was copied, and the buffer it went to
  sound,      \* m_pSound: "none", "active" or, if it did not start, "silent"
  samples,    \* audio_buffer_len
  needed,     \* samples_needed
  queue,      \* samples in the device's queue
  plugged,    \* the device that is plugged in, of each kind; 0 for none
  tree,       \* the device object, of each kind, since UpdatePlugAndPlay was last called
  pointer,    \* m_pKeyboard and m_pMouse
  updated     \* mouse_updated

\* Samples are counted, and there are devices to replace one another.
KernelAssumption ==
  /\ BufferSize \in Nat /\ QueueSize \in Nat /\ Chunk \in Nat
  /\ 1 \in Plugs /\ \A n \in Plugs : \E other \in Plugs : other # n

bootVars   == <<boot, callbacks>>
videoVars  == <<screen, fb, shown>>
soundVars  == <<sound, samples, needed, queue>>
deviceVars == <<plugged, tree, pointer, updated>>
vars == <<bootVars, at, lock, videoVars, soundVars, deviceVars>>

Cores == 0..3
Free == 4

\* The constructor makes a buffer to clear the screen, which is assumed to be granted.
Init ==
  /\ boot = "mount" /\ callbacks = {}
  /\ at = [c \in Cores |-> "off"] /\ lock = Free
  /\ screen = NoSize /\ fb = Nothing /\ shown = <<NoSize, NoSize>>
  /\ sound = "none" /\ samples = 0 /\ needed = 0 /\ queue = 0
  /\ plugged \in [Devices -> {0, 1}] /\ updated = FALSE
  /\ tree = [d \in Devices |-> 0] /\ pointer = [d \in Devices |-> 0]
-----------------------------------------------------------------------------
(* Core 0 up to its loop. *)

\* The commands retro_environment knows.
Environment ==
  {"log interface", "pixel format", "frame time callback", "save directory",
   "VFS interface"}

\* Whether the card can be mounted, whether the core's content could be loaded.
Mount ==
  /\ boot = "mount" /\ boot' \in {"halt", "environment"}
  /\ UNCHANGED <<callbacks, at, lock, videoVars, soundVars, deviceVars>>

SetEnvironment ==
  /\ boot = "environment" /\ boot' = "load"
  /\ callbacks' = callbacks \cup {"environment"}
  /\ UNCHANGED <<at, lock, videoVars, soundVars, deviceVars>>

\* retro_load_game gives up where the kernel refuses it something (core.odin:403-423);
\* nobody looks at the result.
LoadGame ==
  /\ boot = "load" /\ boot' = "poll"
  /\ callbacks' = callbacks \cup
       (IF {"pixel format", "frame time callback"} \subseteq Environment
          THEN {"frame time"} ELSE {})
  /\ UNCHANGED <<at, lock, videoVars, soundVars, deviceVars>>

SetInputPoll ==
  /\ boot = "poll" /\ boot' = "audio" /\ callbacks' = callbacks \cup {"input poll"}
  /\ UNCHANGED <<at, lock, videoVars, soundVars, deviceVars>>

\* MUTE leaves m_pSound at 0; a device that cannot be started stays.
InitializeAudio ==
  /\ boot = "audio" /\ boot' = "cores" /\ sound' \in {"none", "silent", "active"}
  /\ UNCHANGED <<callbacks, at, lock, videoVars, samples, needed, queue, deviceVars>>

\* The constructor of CEmuLoop, and Initialize, which starts the cores.
SetVideoRefresh == callbacks \cup {"video refresh"}
StartCores ==
  /\ boot = "cores" /\ boot' \in {"halt", "loop"}
  /\ callbacks' = SetVideoRefresh /\ fb' = Desktop
  /\ at' = IF boot' = "halt" THEN at
           ELSE [c \in Cores |-> IF c = 3 /\ sound = "none" THEN "off" ELSE "idle"]
  /\ UNCHANGED <<lock, screen, shown, soundVars, deviceVars>>

Boot == Mount \/ SetEnvironment \/ LoadGame \/ SetInputPoll \/ InitializeAudio
          \/ StartCores
-----------------------------------------------------------------------------
(* The lock. *)

Lock(c)   == lock = Free /\ lock' = c
Unlock(c) == lock = c /\ lock' = Free
Goes(c, from, to) == at[c] = from /\ at' = [at EXCEPT ![c] = to]
-----------------------------------------------------------------------------
(* Core 1: EmuThread. *)

EnterFrame ==
  /\ Goes(1, "idle", "frame") /\ Lock(1)
  /\ UNCHANGED <<bootVars, videoVars, soundVars, deviceVars>>

\* video_refresh makes a new buffer when the size changes, of that size or, if the
\* firmware refuses it, of 640 x 480 with that virtual size.  If that is refused too,
\* nothing is copied, and the pointer stays to a buffer that was deleted: the next frame
\* of the same size goes there.
Changed_Once(size) == fb = Desktop   \* Mutant: only the first frame makes a buffer.
Changed(size) == size # screen \/ fb = Nothing
Granted(size) ==
  IF {"size", "fallback"} \subseteq Refused THEN {size, Deleted} ELSE {size}

RetroRun(size) ==
  /\ Goes(1, "frame", "idle") /\ Unlock(1)
  /\ IF Changed(size) THEN screen' = size /\ fb' \in Granted(size)
     ELSE UNCHANGED <<screen, fb>>
  /\ shown' = IF Changed(size) /\ fb' = Deleted THEN shown ELSE <<size, fb'>>
  /\ UNCHANGED <<bootVars, soundVars, deviceVars>>

\* The guest has set no mode yet, the one it had, or another.
Frame == \E size \in Sizes \cup {screen} : RetroRun(size)
-----------------------------------------------------------------------------
(* Core 2: RenderThread, whose body is empty in this version. *)

EnterRender ==
  /\ Goes(2, "idle", "render") /\ Lock(2)
  /\ UNCHANGED <<bootVars, videoVars, soundVars, deviceVars>>
LeaveRender ==
  /\ Goes(2, "render", "idle") /\ Unlock(2)
  /\ UNCHANGED <<bootVars, videoVars, soundVars, deviceVars>>
-----------------------------------------------------------------------------
(* Core 3: AudioThread. *)

AudioTick ==
  /\ IF samples < BufferSize THEN Goes(3, "idle", "sample") /\ Lock(3)
     ELSE Goes(3, "idle", "write") /\ UNCHANGED lock
  /\ UNCHANGED <<bootVars, videoVars, soundVars, deviceVars>>

AddSample ==
  /\ Goes(3, "sample", "write") /\ Unlock(3) /\ samples' = samples + 1
  /\ UNCHANGED <<bootVars, videoVars, sound, needed, queue, deviceVars>>

\* The room in the queue decides whether the samples are written, and how many.
Room == QueueSize - queue
Writes == sound = "active" /\ (samples = BufferSize \/ Room > samples)

Measure ==
  /\ Goes(3, "write", IF Writes THEN "send" ELSE "idle")
  /\ needed' = IF Writes THEN Room ELSE 0
  /\ UNCHANGED <<bootVars, lock, videoVars, sound, samples, queue, deviceVars>>

NumSamples_All(room, len) == len   \* Mutant: the room in the queue is not looked at.
NumSamples(room, len) == IF room < len THEN room ELSE len

Send ==
  /\ Goes(3, "send", "idle") /\ queue' = queue + NumSamples(needed, samples)
  /\ samples' = 0 /\ needed' = 0
  /\ UNCHANGED <<bootVars, lock, videoVars, sound, deviceVars>>

\* The device plays on meanwhile.
Play ==
  /\ sound = "active" /\ queue > 0
  /\ queue' = IF queue < Chunk THEN 0 ELSE queue - Chunk
  /\ UNCHANGED <<bootVars, at, lock, videoVars, sound, samples, needed, deviceVars>>
-----------------------------------------------------------------------------
(* Core 0: the loop of CKernel::Run. *)

\* Devices come and go; a device that is plugged in again is another one.
Plug(d) ==
  /\ plugged' = [plugged EXCEPT ![d] =
                   IF @ = 0 THEN CHOOSE n \in Plugs : n # tree[d] ELSE 0]
  /\ UNCHANGED <<bootVars, at, lock, videoVars, soundVars, tree, pointer, updated>>

\* The devices the first call finds are new to it too.  One that is gone calls its
\* removed handler, if the kernel has registered one; then new ones are looked for.
Removed_Kept(d) == pointer[d]   \* Mutant: the handler forgets to clear the pointer.
Removed(d) == IF plugged[d] = tree[d] THEN pointer[d] ELSE 0
Found(d) == IF Removed(d) = 0 THEN plugged[d] ELSE Removed(d)

UpdatePlugAndPlay ==
  /\ at[0] = "idle" /\ tree' = plugged
  /\ pointer' = IF plugged = tree THEN pointer ELSE [d \in Devices |-> Found(d)]
  /\ UNCHANGED <<bootVars, at, lock, videoVars, soundVars, plugged, updated>>

\* An interrupt on core 0, which does not ask for the lock.
MouseStatusHandlerRaw ==
  /\ pointer["mouse"] # 0 /\ updated' = TRUE
  /\ UNCHANGED <<bootVars, at, lock, videoVars, soundVars, plugged, tree, pointer>>

\* Key states never come (KeyStatusHandlerRaw's body is commented out).
EnterInput ==
  /\ Goes(0, "idle", "input") /\ Lock(0)
  /\ UNCHANGED <<bootVars, videoVars, soundVars, deviceVars>>
LeaveInput_Early ==   \* Mutant: without a mouse the lock is not released.
  /\ Goes(0, "input", "idle")
  /\ IF pointer["mouse"] = 0 THEN UNCHANGED lock ELSE Unlock(0)
  /\ updated' = (updated /\ pointer["mouse"] = 0)
  /\ UNCHANGED <<bootVars, videoVars, soundVars, plugged, tree, pointer>>
LeaveInput ==
  /\ Goes(0, "input", "idle") /\ Unlock(0)
  /\ updated' = (updated /\ pointer["mouse"] = 0)
  /\ UNCHANGED <<bootVars, videoVars, soundVars, plugged, tree, pointer>>
-----------------------------------------------------------------------------
Next ==
  \/ Boot
  \/ EnterFrame \/ Frame
  \/ EnterRender \/ LeaveRender
  \/ AudioTick \/ AddSample \/ Measure \/ Send \/ Play
  \/ \E d \in Devices : Plug(d)
  \/ UpdatePlugAndPlay \/ MouseStatusHandlerRaw \/ EnterInput \/ LeaveInput

Spec == Init /\ [][Next]_vars

\* The loops go round, each look at the clock finds in the end that it is time, and the
\* sound device plays.  A core that spins on the lock gets it: core 1 holds it over a whole
\* frame (emuloop.cpp:141-144), but waits for its next turn of 1/60 s without it, and the
\* other cores hold it for a few instructions.  The spin lock has no queue, so that it is
\* an assumption that nobody who finds it free again and again always loses it to another.
Fairness ==
  /\ SF_vars(EnterFrame) /\ WF_vars(Frame)
  /\ SF_vars(EnterRender) /\ WF_vars(LeaveRender)
  /\ SF_vars(AudioTick) /\ WF_vars(AddSample) /\ WF_vars(Measure) /\ WF_vars(Send)
  /\ WF_vars(Play)
  /\ SF_vars(UpdatePlugAndPlay) /\ SF_vars(EnterInput) /\ WF_vars(LeaveInput)
-----------------------------------------------------------------------------
Buffers == Sizes \cup {NoSize, Desktop, Nothing, Deleted}
TypeOK ==
  /\ boot \in {"mount", "halt", "environment", "load", "poll", "audio", "cores", "loop"}
  /\ callbacks \subseteq {"environment", "frame time", "input poll", "video refresh"}
  /\ \A c \in Cores :
       at[c] \in {"off", "idle", "input", "frame", "render", "sample", "write", "send"}
  /\ lock \in Cores \cup {Free}
  /\ screen \in Sizes \cup {NoSize} /\ fb \in Buffers
  /\ shown \in (Sizes \cup {NoSize}) \X Buffers
  /\ sound \in {"none", "silent", "active"} /\ samples \in Nat
  /\ needed \in Nat /\ queue \in Nat
  /\ \A d \in Devices : {plugged[d], tree[d], pointer[d]} \subseteq Plugs \cup {0}
  /\ updated \in BOOLEAN

\* Every frame with pixels goes into a buffer made for its size, whatever modes the guest
\* sets one after the other, or into one that was deleted, which only happens where the
\* firmware refuses both buffers (emuloop.cpp:42-86); and frames start with all callbacks
\* set that retro_run calls, which core 0 does in steps (kernel.cpp:281-292).
MayDangle == {"size", "fallback"} \subseteq Refused
FramesFit ==
  /\ shown[1] # NoSize => shown[2] = shown[1] \/ (shown[2] = Deleted /\ MayDangle)
  /\ at[1] = "frame" =>
       callbacks = {"environment", "frame time", "input poll", "video refresh"}

\* The queue is never given more than it has room for, though the device plays between
\* the look at the room and the write, and audio_buffer does not overflow
\* (emuloop.cpp:193-213).
SoundFits == queue <= QueueSize /\ samples <= BufferSize

\* What the four cores share is never overrun by one of them.
NothingOverrun == FramesFit /\ SoundFits

\* m_pKeyboard and m_pMouse never outlive a device object that UpdatePlugAndPlay has
\* removed, even if another was plugged in before it looked again (kernel.cpp:305-327).
PointersLive == \A d \in Devices : pointer[d] \in {0, tree[d]}

\* Frames keep coming, and input its turn; a sound device that plays is given samples
\* again; a device that stays plugged in is known in the end.
KernelGoesOn ==
  /\ boot = "loop" ~> at[1] = "frame"
  /\ at[1] = "frame" ~> at[1] = "idle"
  /\ boot = "loop" ~> at[0] = "input"
  /\ boot = "loop" /\ sound = "active" /\ queue = 0 ~> queue > 0
  /\ \A d \in Devices, n \in Plugs :
       <>[](boot = "loop" /\ plugged[d] = n) => <>[](pointer[d] = n)
=============================================================================
