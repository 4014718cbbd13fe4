------------------------------ MODULE RifsLink ------------------------------
(***************************************************************************)
(* The serial line between the guest's redirector and the file server:     *)
(* bytes collect in output_queue until they make up a packet, the packet   *)
(* is served in the same port write, and the answer waits in input_queue.  *)
(* A packet is modelled as two pieces, its header and the rest; a header   *)
(* tells how many bytes to wait for, so any two pieces make up a packet,   *)
(* and its checksum is right if they were sent as one.                     *)
(*                                                                         *)
(* The redirector is external: it sends a request, reads the whole answer, *)
(* and flips the divisor latch bit when it is loaded ("DLAB change! Assume *)
(* RIFS state reset.", fs.odin:538).  The machine may be reset between any *)
(* two port accesses; the server has no reset callback.                    *)
(***************************************************************************)
EXTENDS Rifs

VARIABLES
  dlab,
  output,      \* output_queue: pieces of packets from the guest
  input,       \* input_queue: pieces of answers to the guest
  driver,      \* what the redirector does
  sent         \* the process and the number of its last request, 0 or 1

linkVars == <<dlab, output, input, driver, sent>>
serverVars == <<rifsVars, linkVars>>

Piece == [part : {"header", "rest"}, of : Pids \X {0, 1}]
Packet(r) == <<[part |-> "header", of |-> r], [part |-> "rest", of |-> r]>>
Verifies(q) == \E r \in Pids \X {0, 1} : q = Packet(r)
-----------------------------------------------------------------------------
\* OUT to the line control register: a change of the bit clears both queues.
Cleared_AnswersOnly(q, change) ==  \* Mutant: the request that was begun stays.
  [output |-> q.output, input |-> IF change THEN <<>> ELSE q.input]
Cleared(q, change) ==
  [output |-> IF change THEN <<>> ELSE q.output,
   input  |-> IF change THEN <<>> ELSE q.input]

SetLineControl(bit) ==
  LET q == Cleared([output |-> output, input |-> input], dlab # bit)
  IN  dlab' = bit /\ output' = q.output /\ input' = q.input

\* The redirector is loaded: it sets the bit, writes the divisor and clears the bit.
LatchOn ==
  /\ driver = "unloaded" /\ driver' = "loading"
  /\ SetLineControl(TRUE) /\ UNCHANGED <<rifsVars, sent>>

LatchOff ==
  /\ driver = "loading" /\ driver' = "idle"
  /\ SetLineControl(FALSE) /\ UNCHANGED <<rifsVars, sent>>

\* OUT to the data register.  The second piece completes a packet: it is served in
\* the same access and answered, or dropped without a word if it fails its check.
Send(piece) ==
  /\ ~dlab /\ UNCHANGED dlab
  /\ IF output = <<>>
       THEN output' = <<piece>> /\ UNCHANGED <<rifsVars, input>>
       ELSE /\ output' = <<>>
            /\ IF Verifies(Append(output, piece))
                 THEN Serve(piece.of[1]) /\ input' = input \o Packet(piece.of)
                 ELSE UNCHANGED <<rifsVars, input>>

SendHeader(id) ==
  /\ driver = "idle" /\ driver' = "sending"
  /\ sent' = <<id, 1 - sent[2]>>
  /\ Send([part |-> "header", of |-> sent'])

SendRest ==
  /\ driver = "sending" /\ driver' = "waiting"
  /\ Send([part |-> "rest", of |-> sent])
  /\ UNCHANGED sent

\* IN from the data register, when the line status register says there is a byte.
ReadAnswer ==
  /\ ~dlab /\ driver \in {"waiting", "reading"} /\ input # <<>>
  /\ input' = Tail(input)
  /\ driver' = IF driver = "waiting" THEN "reading" ELSE "idle"
  /\ UNCHANGED <<rifsVars, dlab, output, sent>>

\* The machine is reset: the server keeps its processes and both queues.
ResetMachine ==
  /\ driver # "unloaded" /\ driver' = "unloaded"
  /\ UNCHANGED <<rifsVars, dlab, output, input, sent>>

\* The machine is destroyed and created again.
Recreate ==
  /\ Destroy
  /\ dlab' = FALSE /\ output' = <<>> /\ input' = <<>>
  /\ driver' = "unloaded" /\ UNCHANGED sent
-----------------------------------------------------------------------------
LinkInit ==
  /\ RifsInit
  /\ dlab = FALSE /\ output = <<>> /\ input = <<>>
  /\ driver = "unloaded" /\ sent \in Pids \X {0}

LinkNext ==
  \/ LatchOn \/ LatchOff \/ SendRest \/ ReadAnswer \/ ResetMachine \/ Recreate
  \/ \E id \in Pids : SendHeader(id)

LinkSpec == LinkInit /\ [][LinkNext]_serverVars
-----------------------------------------------------------------------------
LinkTypeOK ==
  /\ RifsTypeOK
  /\ dlab \in BOOLEAN
  /\ output \in Seq(Piece) /\ input \in Seq(Piece)
  /\ driver \in {"unloaded", "loading", "idle", "sending", "waiting", "reading"}
  /\ sent \in Pids \X {0, 1}

\* The redirector gets the answer to the request it sent, whole, and is never left
\* waiting: what a reset of the machine left in the queues in the middle of a request
\* or an answer is gone when the redirector is loaded again.
AnswersMatch ==
  /\ driver = "idle" => output = <<>> /\ input = <<>>
  /\ driver = "waiting" => input = Packet(sent)
  /\ driver = "reading" => input = Tail(Packet(sent))

\* The slots implement one table per process, which only the requests of that process
\* change: slots that are reused, and requests of processes in turn, do not show.
TableOf(id) ==
  LET held == IF Mine(id) # {} THEN procs[Min(Mine(id))].files ELSE <<>>
  IN  [n \in 1..MaxFiles |-> IF n \in DOMAIN held THEN held[n] ELSE Nil]

Tables == INSTANCE RifsTables WITH
  table <- [id \in Pids |-> TableOf(id)], open <- files, client <- sent[1]

TablesSpec == Tables!Spec
=============================================================================
