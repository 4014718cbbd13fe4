----------------------------- MODULE RifsTables -----------------------------
(***************************************************************************)
(* What the file server promises a DOS process: a table of its own.  A     *)
(* number that was handed out stands for one host file until the process   *)
(* closes it, and a request changes the table of the process that made it  *)
(* and no other; the host has no other file open.  Slots, their reuse and  *)
(* directory searches do not appear.                                       *)
(***************************************************************************)
EXTENDS Naturals

CONSTANTS Pids, Handles, Nil, MaxFiles

VARIABLES
  table,       \* of each process, from numbers to host files
  open,        \* the host files that are open
  client       \* the process whose request is served

vars == <<table, open, client>>

Number == 1..MaxFiles

Init ==
  /\ table = [id \in Pids |-> [n \in Number |-> Nil]] /\ open = {}
  /\ client \in Pids

Asks(id) == client' = id /\ UNCHANGED <<table, open>>

Opens(n) ==
  /\ table[client][n] = Nil
  /\ \E h \in Handles \ open :
       table' = [table EXCEPT ![client][n] = h] /\ open' = open \cup {h}
  /\ UNCHANGED client

Closes(n) ==
  /\ table[client][n] # Nil
  /\ table' = [table EXCEPT ![client][n] = Nil]
  /\ open' = open \ {table[client][n]}
  /\ UNCHANGED client

ClosesAll ==
  /\ table' = [table EXCEPT ![client] = [n \in Number |-> Nil]]
  /\ open' = open \ {table[client][n] : n \in Number}
  /\ UNCHANGED client

TakenDown ==
  /\ table' = [id \in Pids |-> [n \in Number |-> Nil]]
  /\ open' = {} /\ UNCHANGED client

Next ==
  \/ TakenDown \/ ClosesAll
  \/ \E id \in Pids : Asks(id)
  \/ \E n \in Number : Opens(n) \/ Closes(n)

Spec == Init /\ [][Next]_vars
=============================================================================
