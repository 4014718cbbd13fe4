----------------------------- MODULE GdbSession -----------------------------
(***************************************************************************)
(* What a debugger may rely on when it is attached to the machine          *)
(* (src/modules/gdb): one request at a time is performed once and then     *)
(* answered; between the answer to one request and a request to resume,    *)
(* the guest stands still; a read shows the guest's state and a write      *)
(* changes it.  The wire, its acknowledgements and the processor's steps   *)
(* are hidden; GdbStub implements this module.                             *)
(***************************************************************************)
CONSTANTS
  Values,    \* contents of the guest's state that the debugger reads and writes
  Requests,  \* the requests of the debugger
  Idle       \* no request

VARIABLES
  held,      \* may the debugger rely on the guest to stand still?
  job,       \* the outstanding request
  arg,       \* the value it writes
  done,      \* has it been performed?
  value,     \* the guest's state
  seen       \* what the debugger read last

vars == <<held, job, arg, done, value, seen>>

\* The requests after which the guest goes on.
Resuming == {"cont", "step", "signal", "detach"}

Init ==
  /\ held = FALSE /\ job = Idle /\ done = FALSE
  /\ arg \in Values /\ value \in Values /\ seen = value

\* The first request of a session is asked while the guest still runs.
Ask ==
  /\ job = Idle /\ done' = FALSE
  /\ job' \in (IF held THEN Requests ELSE {"read"}) /\ arg' \in Values
  /\ UNCHANGED <<held, value, seen>>

Perform ==
  /\ job # Idle /\ ~done /\ done' = TRUE
  /\ value' = IF job = "write" THEN arg ELSE value
  /\ held' = (held /\ job \notin Resuming)
  /\ UNCHANGED <<job, arg, seen>>

\* The answer to a read shows the state as it is.
Answer ==
  /\ job # Idle /\ done /\ job' = Idle
  /\ seen' = IF job = "read" THEN value ELSE seen
  /\ held' = (job # "detach")
  /\ UNCHANGED <<arg, done, value>>

Run ==
  /\ ~held /\ value' \in Values
  /\ UNCHANGED <<held, job, arg, done, seen>>

\* The debugger is gone, its request performed or not.
HangUp ==
  /\ job' = Idle /\ held' = FALSE /\ done' = FALSE
  /\ UNCHANGED <<arg, value, seen>>

Next == Ask \/ Perform \/ Answer \/ Run \/ HangUp

Spec == Init /\ [][Next]_vars
=============================================================================
