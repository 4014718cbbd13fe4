------------------------------- MODULE GdbStub -------------------------------
(***************************************************************************)
(* The debugger stub: the packet loop (src/modules/gdb/gdbstub/gdbstub.h), *)
(* its socket (gdb.c) and the module's timer, which runs after every       *)
(* instruction and calls the loop when the guest is to stand still         *)
(* (gdb.odin), with a GDB client at the other end of the connection.       *)
(*                                                                         *)
(* The streams hold tokens: "+", "-", "^C", "$" and a packet's body up to  *)
(* and with its checksum.  The bytes that are left of a body are "rest"    *)
(* and the end of the stream is "eof".  The guest's registers and memory   *)
(* are one value; CS:IP is a place.                                        *)
(*                                                                         *)
(* The client is the environment.  It follows the protocol: it waits for   *)
(* an acknowledgement of its packet, takes a packet that comes instead for *)
(* an old one, and acknowledges each, unless acknowledgements were         *)
(* switched off.  It may hang up at any time, and then connect again.      *)
(***************************************************************************)
EXTENDS Integers, Sequences

CONSTANTS
  Values,      \* contents of the guest's state
  Places,      \* values of CS:IP
  Requests,    \* what the client asks for: "read", "write", "break", "noack", "step",
               \* "cont", "signal" (C), "dump" (C with SIGPIPE), "detach" (and vKill), "bad"
  Forms,       \* "clean"; "high" has a byte 0xFF; "damaged" fails its checksum
  MaxRequests, \* bound of the model on the requests
  Nowhere, Idle

Known ==
  {"read", "write", "break", "noack", "bad", "step", "cont", "signal", "dump", "detach"}
StubAssumption ==
  /\ "read" \in Requests /\ Requests \subseteq Known /\ Idle \notin Known
  /\ Nowhere \notin Places /\ MaxRequests \in Nat /\ "clean" \in Forms

VARIABLES
  turn,      \* the part of machine.step that is next: the processor or the timer
  place,     \* CS:IP
  value,     \* the guest's state
  debug,     \* the registers' debug flag
  client,    \* is there a client socket?
  noack,     \* GDB_State.noack
  last,      \* current_cs and current_ip
  copy,      \* GDB_State.registers
  at,        \* where gdb_main waits: for a packet's start or its body, or for an
             \* acknowledgement after which it goes on as said; "out" if it is not running
  mode,      \* the client: off, connecting, idle, unacked, sent
  job, arg,  \* the client's outstanding request
  silent,    \* does the client do without acknowledgements?
  seen,      \* what the client read last
  broke,     \* has the client sent Ctrl+C since it resumed the guest?
  asked,     \* number of requests so far
  done,      \* history: the outstanding request has been performed
  attached,  \* history: the client has had an answer in this session
  toStub, toClient

guestVars  == <<turn, place, value, debug>>
stubVars   == <<client, noack, last, copy, at, done>>
clientVars == <<mode, job, arg, silent, seen, broke, asked, attached>>
gdbVars == <<guestVars, stubVars, clientVars, toStub, toClient>>

Token(kind) == [kind |-> kind]

\* A client sends an acknowledgement first.  Installed to halt, the module waits until
\* a client has connected.
GdbInit ==
  /\ \E halt_on_startup \in BOOLEAN :
       /\ debug = halt_on_startup /\ client = halt_on_startup
       /\ mode = IF halt_on_startup THEN "idle" ELSE "off"
       /\ toStub = IF halt_on_startup THEN <<Token("+")>> ELSE <<>>
  /\ turn = "cpu" /\ place \in Places /\ value \in Values
  /\ noack = FALSE /\ last = Nowhere /\ copy = value /\ at = "out"
  /\ job = Idle /\ arg = value /\ silent = FALSE /\ seen = value
  /\ broke = FALSE /\ asked = 0 /\ done = FALSE /\ attached = FALSE
  /\ toClient = <<>>
-----------------------------------------------------------------------------
(* The socket (gdb.c). *)

First(stream) == Head(stream).kind
Waiting == toStub # <<>> /\ First(toStub) # "eof"

\* gdb_sys_getc takes one byte off the stream; a body loses its first.
OneByteLess ==
  IF First(toStub) \in {"+", "-", "^C", "$"}
    THEN {Tail(toStub)}
    ELSE {Tail(toStub), <<Token("rest")>> \o Tail(toStub)}

\* What is sent after the client hung up reaches nobody.
Reply(kind) == [kind |-> kind, value |-> copy']
Sent(tokens) == IF mode \in {"off", "connecting"} THEN toClient ELSE toClient \o tokens

\* gdb_main has returned: the copy goes back to the guest (gdb.odin:215-236).
Leave == at' = "out" /\ turn' = "cpu" /\ value' = copy /\ last' = place
Forget == client' = FALSE /\ toStub' = <<>>
-----------------------------------------------------------------------------
(* The machine, and the module's timer up to gdb_main. *)

Instruction ==
  /\ turn = "cpu" /\ turn' = "timer"
  /\ place' \in Places /\ value' \in Values
  /\ UNCHANGED <<debug, stubVars, clientVars, toStub, toClient>>

\* A byte that is not Ctrl+C while the guest runs is dropped.
Accepts    == ~client /\ mode = "connecting"
HasData    == client /\ ~debug /\ toStub # <<>>
Interrupts_Never == FALSE   \* Mutant: Ctrl+C is dropped like any other byte.
Interrupts == HasData /\ First(toStub) = "^C"
Drops      == HasData /\ ~Interrupts

Polled ==
  IF Accepts THEN {<<Token("+")>>}
  ELSE IF ~HasData THEN {toStub}
  ELSE IF First(toStub) = "eof" THEN {<<>>} ELSE OneByteLess

\* Execution that has not moved on is not trapped again (a repeat prefix).
Stays_Always == TRUE   \* Mutant: the comparison always succeeds.
Stays == place = last

Timer ==
  /\ turn = "timer" /\ at = "out"
  /\ client' = (Accepts \/ (client /\ ~(Drops /\ First(toStub) = "eof")))
  /\ debug' = (debug \/ Accepts \/ Interrupts)
  /\ toStub' \in Polled
  /\ mode' = IF Accepts THEN "idle" ELSE mode
  /\ IF client' /\ debug' /\ ~Stays
       THEN /\ at' = "loop" /\ copy' = value
            /\ toClient' = IF Accepts THEN <<Reply("S")>> ELSE Sent(<<Reply("S")>>)
            /\ UNCHANGED turn
       ELSE turn' = "cpu" /\ UNCHANGED <<at, copy, toClient>>
  /\ UNCHANGED <<place, value, noack, last, done, job, arg, silent, seen, broke, asked,
                 attached>>
-----------------------------------------------------------------------------
(* gdb_main, in the order of its reads. *)

\* gdb_send_packet has sent a reply.  gdb_recv_ack reads a byte, whatever it is.
Acks == {"loop", "bye", "signal", "dump"}

RecvAck ==
  /\ at \in Acks /\ UNCHANGED <<place, noack, copy, done, clientVars>>
  /\ IF noack THEN UNCHANGED toStub ELSE Waiting /\ toStub' \in OneByteLess
  /\ \/ at = "loop" /\ at' = "start"
        /\ UNCHANGED <<turn, value, debug, client, last, toClient>>
     \/ at = "dump" /\ at' = "loop" /\ toClient' = Sent(<<Reply("S")>>)
        /\ UNCHANGED <<turn, value, debug, client, last>>
     \/ at = "signal" /\ Leave /\ UNCHANGED <<debug, client, toClient>>

\* D and vKill return -1: the socket is forgotten and the guest runs.
Bye ==
  /\ at = "bye" /\ (noack \/ toStub # <<>>)
  /\ Leave /\ Forget /\ debug' = FALSE
  /\ UNCHANGED <<place, noack, copy, done, clientVars, toClient>>

\* gdb_recv_packet waits for packet start and skips everything else.
RecvStart ==
  /\ at = "start" /\ Waiting
  /\ at' = IF First(toStub) = "$" THEN "body" ELSE "start"
  /\ toStub' = Tail(toStub)
  /\ UNCHANGED <<guestVars, client, noack, last, copy, done, clientVars, toClient>>

\* The connection was closed: gdb_main returns 0 and the debug flag stays.
RecvEof ==
  /\ at # "out" /\ at # "bye" /\ ~(noack /\ at \in Acks) /\ toStub # <<>>
  /\ First(toStub) = "eof"
  /\ Leave /\ Forget
  /\ UNCHANGED <<place, debug, noack, copy, done, clientVars, toClient>>

Body == Head(toStub)

\* A byte 0xFF is GDB_EOF as a signed char, and gdb_main returns 0 in the middle; it
\* returns 0 too when the checksum is wrong.
RecvSpoilt ==
  /\ Leave
  /\ IF Body.form = "high"
       THEN toStub' = <<Token("rest")>> \o Tail(toStub) /\ UNCHANGED toClient
       ELSE toStub' = Tail(toStub) /\ toClient' = Sent(<<Token("-")>>)
  /\ UNCHANGED <<place, debug, client, noack, copy, done, clientVars>>

\* The commands with a reply, and where the loop is after it.
Replies == [read |-> "data", write |-> "OK", break |-> "OK", noack |-> "OK",
            bad |-> "E00", detach |-> "OK", signal |-> "OK", dump |-> "OK"]
Then_Raw(j) == j   \* Mutant: the loop would wait for an unknown acknowledgement.
Then(j) == IF j = "detach" THEN "bye" ELSE IF j \in Acks THEN j ELSE "loop"

Written_Kept(b) == copy   \* Mutant: the value is decoded but not stored.
Written(b) == IF b.job = "write" THEN b.arg ELSE copy

Command ==
  /\ copy' = Written(Body) /\ noack' = (noack \/ Body.job = "noack")
  /\ done' = (job # Idle) /\ at' = Then(Body.job)
  /\ toClient' = Sent(<<Token("+"), Reply(Replies[Body.job])>>)
  /\ toStub' = Tail(toStub)
  /\ UNCHANGED <<guestVars, client, last, clientVars>>

\* c clears the debug flag and s leaves it; both return at once.
DebugAfter(b) == debug /\ b.job # "cont"

Resume ==
  /\ Leave /\ done' = (job # Idle) /\ debug' = DebugAfter(Body)
  /\ toClient' = Sent(<<Token("+")>>) /\ toStub' = Tail(toStub)
  /\ UNCHANGED <<place, client, noack, copy, clientVars>>

\* The packet buffer is long enough: packets are tokens here, and the error of one that
\* does not fit (gdbstub.h:533-537) is left out.
RecvBody ==
  /\ at = "body" /\ Waiting
  /\ IF Body.form # "clean" THEN RecvSpoilt
     ELSE IF Body.job \in DOMAIN Replies THEN Command
     ELSE Resume

Main == RecvAck \/ Bye \/ RecvStart \/ RecvEof \/ RecvBody
-----------------------------------------------------------------------------
(* The client. *)

ToStub(tokens) == IF client THEN toStub \o tokens ELSE toStub
Ack == IF silent THEN <<>> ELSE <<Token("+")>>
TheBody(form) == [kind |-> "body", job |-> job', arg |-> arg', form |-> form]

Connect ==
  /\ mode = "off" /\ asked < MaxRequests /\ mode' = "connecting"
  /\ UNCHANGED <<guestVars, stubVars, job, arg, silent, seen, broke, asked, attached,
                 toStub, toClient>>

\* The first request of a session reads what the stub supports.
Ask ==
  /\ mode = "idle" /\ asked < MaxRequests /\ asked' = asked + 1
  /\ job' \in (IF attached THEN Requests ELSE {"read"})
  /\ arg' \in (IF job' = "write" THEN Values ELSE {arg})
  /\ \E form \in Forms :
       /\ form = "high" => job' = "write"
       /\ toStub' = ToStub(<<Token("$"), TheBody(form)>>)
  /\ mode' = (IF silent THEN "sent" ELSE "unacked") /\ done' = FALSE
  /\ UNCHANGED <<guestVars, client, noack, last, copy, at, silent, seen, broke,
                 attached, toClient>>

\* Ctrl+C, while the guest is expected to run.
Break ==
  /\ mode = "sent" /\ job \in {"cont", "step", "signal"} /\ ~broke /\ broke' = TRUE
  /\ toStub' = ToStub(<<Token("^C")>>)
  /\ UNCHANGED <<guestVars, stubVars, mode, job, arg, silent, seen, asked, attached,
                 toClient>>

\* "-" makes the client send its packet again.
GetAck ==
  /\ toClient # <<>> /\ First(toClient) \in {"+", "-"} /\ toClient' = Tail(toClient)
  /\ IF mode = "unacked" /\ First(toClient) = "+"
       THEN mode' = "sent" /\ UNCHANGED <<job, arg, toStub>>
       ELSE UNCHANGED <<mode, job, arg>> /\
            toStub' = IF mode = "unacked" THEN ToStub(<<Token("$"), TheBody("clean")>>)
                      ELSE toStub
  /\ UNCHANGED <<guestVars, stubVars, silent, seen, broke, asked, attached>>

\* A packet instead of an acknowledgement is taken for an old one, and an OK for the
\* guest's output while it is expected to run.
Stop == {"cont", "step", "signal", "dump"}
IsAnswer(packet) == mode = "sent" /\ (job \in Stop => packet.kind = "S")

GetOther ==
  /\ toClient # <<>> /\ First(toClient) \notin {"+", "-"} /\ ~IsAnswer(Head(toClient))
  /\ toClient' = Tail(toClient) /\ toStub' = ToStub(Ack)
  /\ UNCHANGED <<guestVars, stubVars, clientVars>>

GetAnswer ==
  /\ toClient # <<>> /\ First(toClient) \notin {"+", "-"} /\ IsAnswer(Head(toClient))
  /\ toClient' = Tail(toClient)
  /\ toStub' = ToStub(Ack \o (IF job = "detach" THEN <<Token("eof")>> ELSE <<>>))
  /\ seen' = IF job = "read" THEN Head(toClient).value ELSE seen
  /\ mode' = IF job = "detach" THEN "off" ELSE "idle"
  /\ attached' = (job # "detach")
  /\ silent' = (job # "detach" /\ (silent \/ job = "noack"))
  /\ job' = Idle /\ broke' = FALSE
  /\ UNCHANGED <<guestVars, stubVars, arg, asked>>

\* Whatever was not read yet may be lost with the connection.
HangUp ==
  /\ mode \notin {"off", "connecting"} /\ mode' = "off" /\ job' = Idle /\ done' = FALSE
  /\ silent' = FALSE /\ broke' = FALSE /\ attached' = FALSE
  /\ toClient' = <<>>
  /\ \/ ~client /\ UNCHANGED toStub
     \/ client /\ \E n \in 0..Len(toStub) : toStub' = Append(SubSeq(toStub, 1, n), Token("eof"))
  /\ UNCHANGED <<guestVars, client, noack, last, copy, at, arg, seen, asked>>

Receive == GetAck \/ GetOther \/ GetAnswer
-----------------------------------------------------------------------------
GdbNext == Instruction \/ Timer \/ Main \/ Connect \/ Ask \/ Break \/ Receive \/ HangUp

GdbSpec == GdbInit /\ [][GdbNext]_gdbVars

\* What the guest does again and again: it leaves any place.
MovesOn == Instruction /\ place' # last
-----------------------------------------------------------------------------
GdbTypeOK ==
  /\ turn \in {"cpu", "timer"} /\ place \in Places /\ value \in Values
  /\ debug \in BOOLEAN /\ client \in BOOLEAN /\ noack \in BOOLEAN
  /\ last \in Places \cup {Nowhere} /\ copy \in Values
  /\ at \in Acks \cup {"out", "start", "body"}
  /\ mode \in {"off", "connecting", "idle", "unacked", "sent"}
  /\ job \in Requests \cup {Idle} /\ arg \in Values /\ silent \in BOOLEAN
  /\ seen \in Values /\ broke \in BOOLEAN /\ asked \in 0..MaxRequests
  /\ done \in BOOLEAN /\ attached \in BOOLEAN

\* A debugger that has had its answer and has not asked to resume finds the stub in its
\* loop, with no copy of the registers but the one it reads and writes: gdb_main is
\* left only by the commands that resume the guest, and by the end of the connection.
Holding == attached /\ ~(done /\ job \in {"cont", "step", "signal", "detach"})
HeldInMain == Holding => at # "out" /\ client

\* The stub implements what a debugger may rely on (GdbSession): a request is performed
\* once, then answered by an answer of its own, what is read is the guest's state, what
\* is written reaches it, and it stands still in between, over reconnections, lost ends
\* of a connection, acknowledgements that come late and Ctrl+C at any time.
Session == INSTANCE GdbSession WITH
  held <- Holding, value <- IF at = "out" THEN value ELSE copy
SessionSpec == Session!Spec

\* Every request is answered, or the session ends; a "continue" is answered once the
\* debugger has sent Ctrl+C.  And a debugger that connects is served, whatever the one
\* before it left behind.
Answered ==
  /\ job # Idle /\ (job = "cont" => broke) ~> job = Idle
  /\ mode = "connecting" ~> mode # "connecting"
=============================================================================
