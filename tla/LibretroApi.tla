------------------------------ MODULE LibretroApi ------------------------------
(***************************************************************************)
(* A session between a frontend and this core, as libretro.h describes it: *)
(* in which order the frontend calls, which callbacks it has given, what   *)
(* it answers about its options; and what the user gets for it: a machine  *)
(* built as the options say when content is loaded, a processor that runs  *)
(* at the speed that was last chosen.  Lapses names the promises a core    *)
(* does not keep.                                                          *)
(***************************************************************************)
EXTENDS Integers

CONSTANTS
  Frontends,  \* records [variables, version, vfs, pixel, time]: what the frontend offers
  Contents,   \* "disk" (or none) and "ini"
  Speeds,     \* values of the option for the processor's frequency
  Defaults,   \* the options in force without a frontend that has variables
  Listed,     \* the modules machine.ini lists
  NoMachine,
  Lapses      \* "rifs version"

VARIABLES
  frontend,
  phase,      \* "off", "set", "ready", "running", "over"
  given,      \* the callbacks the core was given
  used,       \* those it called during the last call
  user,       \* the options as the user has set them
  changed,    \* have some changed since the core last read them?
  machine,    \* the modules of the machine
  speed       \* the processor's frequency

Callbacks == {"environment", "video", "audio", "input poll", "input state"}
Options == [video : {"CGA", "VGA"}, rifs : BOOLEAN, speed : Speeds]

Init ==
  /\ frontend \in Frontends /\ phase = "off" /\ given = {} /\ used = {}
  /\ user = Defaults /\ changed = FALSE /\ machine = NoMachine /\ speed = Defaults.speed

\* retro_set_environment comes before retro_init.
SetEnvironment ==
  /\ phase = "off" /\ phase' = "set"
  /\ given' = {"environment"} /\ used' = {"environment"}
  /\ UNCHANGED <<frontend, user, changed, machine, speed>>

RetroInit ==
  /\ phase = "set" /\ phase' = "ready" /\ used' = {}
  /\ UNCHANGED <<frontend, given, user, changed, machine, speed>>

\* The callbacks come in any order, before the first retro_run.
SetCallback(c) ==
  /\ phase \in {"ready", "running"} /\ c \notin given
  /\ given' = given \cup {c} /\ used' = {}
  /\ UNCHANGED <<frontend, phase, user, changed, machine, speed>>

\* The user changes an option, at any time.
Change(o) ==
  /\ frontend.variables /\ phase # "over" /\ o # user
  /\ user' = o /\ changed' = TRUE /\ used' = {}
  /\ UNCHANGED <<frontend, phase, given, machine, speed>>

Chosen == IF frontend.variables THEN user ELSE Defaults

\* RIFS2 needs version 3 of the VFS API, whatever the option says; or the lapse is that
\* an option that is set does without.
VersionServes ==
  frontend.version >= 3 \/ ("rifs version" \in Lapses /\ frontend.variables)
HasRifs == Chosen.rifs /\ VersionServes
Wanted(content) ==
  IF content = "ini" THEN {m \in Listed : m = "rifs2" => HasRifs}
  ELSE {"disk", "chipset", "mouse", Chosen.video} \cup (IF HasRifs THEN {"rifs2"} ELSE {})

\* Loading fails, or gives the machine the options ask for.
LoadGame(content) ==
  /\ phase = "ready" /\ used' \subseteq given
  /\ \/ /\ phase' = "running" /\ machine' = Wanted(content)
        /\ speed' = Chosen.speed /\ changed' = FALSE
     \/ UNCHANGED <<phase, machine>> /\ speed' \in {speed, Chosen.speed}
        /\ changed' \in {changed, FALSE}
  /\ UNCHANGED <<frontend, given, user>>

\* A frame polls the input and is shown.  Changed options are looked at first.
RetroRun ==
  /\ phase = "running" /\ Callbacks \subseteq given
  /\ {"input poll", "video"} \subseteq used' /\ used' \subseteq given
  /\ speed' = (IF changed THEN user.speed ELSE speed) /\ changed' = FALSE
  /\ UNCHANGED <<frontend, phase, given, user, machine>>

\* A reset keeps the machine.
RetroReset ==
  /\ phase = "running" /\ used' \subseteq given
  /\ speed' = Chosen.speed /\ changed' = FALSE
  /\ UNCHANGED <<frontend, phase, given, user, machine>>

UnloadGame ==
  /\ phase = "running" /\ phase' = "over" /\ machine' = NoMachine /\ used' = {}
  /\ UNCHANGED <<frontend, given, user, changed, speed>>

Next ==
  \/ SetEnvironment \/ RetroInit \/ RetroRun \/ RetroReset \/ UnloadGame
  \/ \E c \in Callbacks : SetCallback(c)
  \/ \E o \in Options : Change(o)
  \/ \E content \in Contents : LoadGame(content)

Spec == Init /\ [][Next]_<<frontend, phase, given, used, user, changed, machine, speed>>
=============================================================================
