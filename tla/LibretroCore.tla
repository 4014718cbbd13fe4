------------------------------ MODULE LibretroCore ------------------------------
(***************************************************************************)
(* The core's side of a session (src/frontend/core.odin, options.odin):    *)
(* each of its entry points, with the variables in which it keeps the      *)
(* options between them.  The frontend calls as LibretroApi says.          *)
(*                                                                         *)
(* Time is in parts of a second, Second of them, and a frequency in cycles *)
(* a second, of which the code counts in millions: both are scaled by a    *)
(* thousand.  One content is loaded: after retro_unload_game the next one  *)
(* would be given the frame buffer that was deleted (core.odin:445, 515).  *)
(***************************************************************************)
EXTENDS Integers

CONSTANTS
  Frontends, Contents, Speeds, Defaults, Listed, NoMachine,   \* as in LibretroApi
  Second,     \* a million
  Elapsed,    \* times between two frames
  MaxFrames   \* bound of the model on the frames that are timed

VARIABLES
  frontend, phase, given, used, user, changed, machine,
  enable_vga, enable_rifs,   \* options.odin
  cpu_frequency,             \* machine.odin
  frames, late               \* history: frames of up to 1/30 s so far, and the time, in
                             \* cycles * Second, the guest's clock is behind by

\* The options in force without variables are those the core begins with.
SessionAssumption ==
  /\ Defaults = [video |-> "CGA", rifs |-> TRUE, speed |-> Defaults.speed]
  /\ MaxFrames \in Nat
  /\ \A f \in Frontends : f.variables \in BOOLEAN /\ f.version \in Nat

apiVars == <<frontend, phase, given, used, user, changed, machine>>
optionVars == <<enable_vga, enable_rifs>>
timeVars == <<frames, late>>
vars == <<apiVars, optionVars, cpu_frequency, timeVars>>

Callbacks == {"environment", "video", "audio", "input poll", "input state"}
Options == [video : {"CGA", "VGA"}, rifs : BOOLEAN, speed : Speeds]

Init ==
  /\ frontend \in Frontends /\ phase = "off" /\ given = {} /\ used = {}
  /\ user = Defaults /\ changed = FALSE /\ machine = NoMachine
  /\ enable_vga = FALSE /\ enable_rifs = TRUE /\ cpu_frequency = Defaults.speed
  /\ frames = 0 /\ late = 0
-----------------------------------------------------------------------------
\* check_variables reads all options, if the frontend has them; GET_VARIABLE also
\* answers the question of GET_VARIABLE_UPDATE.
Read(option, value) == IF frontend.variables THEN user[option] ELSE value
VgaRead == Read("video", IF enable_vga THEN "VGA" ELSE "CGA") = "VGA"

check_variables(rifs) ==
  /\ enable_vga' = VgaRead /\ enable_rifs' = Read("rifs", rifs)
  /\ cpu_frequency' = Read("speed", cpu_frequency)
  /\ changed' = (changed /\ ~frontend.variables)

retro_set_environment ==
  /\ phase = "off" /\ phase' = "set"
  /\ given' = {"environment"} /\ used' = {"environment"}
  /\ UNCHANGED <<frontend, user, changed, machine, optionVars, cpu_frequency, timeVars>>

retro_init ==
  /\ phase = "set" /\ phase' = "ready" /\ used' = {}
  /\ UNCHANGED <<frontend, given, user, changed, machine, optionVars, cpu_frequency,
                 timeVars>>

\* retro_set_video_refresh, retro_set_audio_sample, retro_set_input_poll and
\* retro_set_input_state.
Set(c) ==
  /\ phase \in {"ready", "running"} /\ c \notin given
  /\ given' = given \cup {c} /\ used' = {}
  /\ UNCHANGED <<frontend, phase, user, changed, machine, optionVars, cpu_frequency,
                 timeVars>>
-----------------------------------------------------------------------------
(* retro_load_game. *)

\* What it cannot do without.
Refuses == ~frontend.pixel \/ ~frontend.time \/ ~frontend.vfs

\* The version of the VFS decides first; a frontend's option overrides it after that,
\* because check_variables reads it once more (core.odin:443).
RifsAllowed == enable_rifs /\ frontend.version >= 3

setup_machine_config(rifs) == {m \in Listed : m = "rifs2" => rifs}
setup_default_machine(vga, rifs) ==
  {"disk", "chipset", "mouse", IF vga THEN "VGA" ELSE "CGA"}
    \cup (IF rifs THEN {"rifs2"} ELSE {})

Build_Early(content) ==   \* Mutant: the options are read once the machine is built.
  IF content = "ini" THEN setup_machine_config(enable_rifs)
  ELSE setup_default_machine(enable_vga, enable_rifs)
Build(content) ==
  IF content = "ini" THEN setup_machine_config(enable_rifs')
  ELSE setup_default_machine(enable_vga', enable_rifs')

\* An .ini file may be no configuration, and with any content a peripheral may refuse to
\* be installed or reset: then the load fails once the machine is built, and the next one
\* begins with an empty machine (machine.create).
retro_load_game(content) ==
  /\ phase = "ready" /\ used' = {"environment"}
  /\ IF Refuses
       THEN UNCHANGED <<phase, machine, changed, optionVars, cpu_frequency>>
       ELSE /\ check_variables(RifsAllowed)
            /\ \/ phase' = "running" /\ machine' = Build(content)
               \/ UNCHANGED <<phase, machine>>
  /\ UNCHANGED <<frontend, given, user, timeVars>>
-----------------------------------------------------------------------------
(* retro_run. *)

Fewer(a, b) == IF a < b THEN a ELSE b

\* The frequency is divided by a million before it is multiplied.
Cycles(usec, frequency) ==
  Fewer(usec * (frequency \div Second), frequency \div 30)

\* Frames of more than 1/30 s may slow the guest down.
Timed(usec) ==
  IF usec * 30 <= Second /\ frames < MaxFrames
    THEN /\ frames' = frames + 1
         /\ late' = late + usec * cpu_frequency' - Cycles(usec, cpu_frequency') * Second
    ELSE UNCHANGED timeVars

\* The mouse asks for its state every frame.
Calls == {"environment", "input poll", "video"}
           \cup (IF "mouse" \in machine THEN {"input state"} ELSE {})

retro_run(usec) ==
  /\ phase = "running" /\ Callbacks \subseteq given /\ used' = Calls
  /\ IF changed THEN check_variables(enable_rifs)
     ELSE UNCHANGED <<changed, optionVars, cpu_frequency>>
  /\ Timed(usec)
  /\ UNCHANGED <<frontend, phase, given, user, machine>>

retro_reset ==
  /\ phase = "running" /\ used' = {"environment"} /\ check_variables(enable_rifs)
  /\ UNCHANGED <<frontend, phase, given, user, machine, timeVars>>

retro_unload_game ==
  /\ phase = "running" /\ phase' = "over" /\ machine' = NoMachine /\ used' = {}
  /\ UNCHANGED <<frontend, given, user, changed, optionVars, cpu_frequency, timeVars>>
-----------------------------------------------------------------------------
\* The user at the frontend.
Change(o) ==
  /\ frontend.variables /\ phase # "over" /\ o # user
  /\ user' = o /\ changed' = TRUE /\ used' = {}
  /\ UNCHANGED <<frontend, phase, given, machine, optionVars, cpu_frequency, timeVars>>

Next ==
  \/ retro_set_environment \/ retro_init \/ retro_reset \/ retro_unload_game
  \/ \E c \in Callbacks : Set(c)
  \/ \E content \in Contents : retro_load_game(content)
  \/ \E usec \in Elapsed : retro_run(usec)
  \/ \E o \in Options : Change(o)

Spec == Init /\ [][Next]_vars
-----------------------------------------------------------------------------
TypeOK ==
  /\ given \subseteq Callbacks /\ used \subseteq Callbacks
  /\ user \in Options \cup {Defaults}
  /\ phase \in {"off", "set", "ready", "running", "over"}
  /\ machine \in {NoMachine} \cup
       SUBSET (Listed \cup {"disk", "chipset", "mouse", "CGA", "VGA", "rifs2"})
  /\ {changed, enable_vga, enable_rifs} \subseteq BOOLEAN
  /\ cpu_frequency \in Speeds \cup {Defaults.speed} /\ frames \in 0..MaxFrames

\* The core keeps its side: whatever the user changes between two calls, and whatever a
\* failed load left in the core's variables, a machine has the modules its options ask
\* for, the speed is the one chosen last, and no callback is called that was not given
\* (core.odin:262, 396-470).  RIFS2 comes only with version 3 of the VFS API, as long as
\* the frontend has no variables: with variables that lapses (RifsNeedsVersion).
Api == INSTANCE LibretroApi WITH speed <- cpu_frequency, Lapses <- {"rifs version"}
CoreSpec == Api!Spec

\* "Frontend does not support VFS v3 API. RIFS2 module will not be loaded!"
\* (core.odin:432): a machine with RIFS2 has a frontend with version 3.
RifsNeedsVersion ==
  machine # NoMachine /\ "rifs2" \in machine => frontend.version >= 3

\* "So if we drop below 30fps the emulated clock would slow down" (core.odin:493): above
\* that it does not, but for a part of a cycle each frame.
ClockKept == late <= frames * Second
=============================================================================
