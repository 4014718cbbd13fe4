-------------------------------- MODULE Rifs --------------------------------
(***************************************************************************)
(* The host file server (src/modules/rifs2): DOS processes of the guest    *)
(* open, close and search host files through it.  For every process it     *)
(* keeps a slot with a table of host files, indexed by the numbers the     *)
(* guest holds, and one directory search.                                  *)
(*                                                                         *)
(* The host's file system is external.  It hands out pointers, which may   *)
(* be those of a file or directory that was closed before, and leaves the  *)
(* use of a closed one undefined (tools/libretro/libretro.h:2767, 2980).   *)
(* What files contain and how DOS names map to host names is left out, so  *)
(* every host call may succeed or fail; so is the text of the answers.     *)
(***************************************************************************)
EXTENDS Integers, Sequences, FiniteSetsExt

CONSTANTS
  Pids,        \* identifiers of DOS processes
  Handles,     \* what vfs.open and vfs.opendir return
  Nil,
  MaxFiles,    \* bound of the model on a process's table
  Launch       \* is a program configured to be started from the file server?

ASSUME RifsAssumption ==
  /\ Nil \notin Handles
  /\ MaxFiles \in Nat \ {0}
  /\ Launch \in BOOLEAN

VARIABLES
  procs,       \* dos_processes
  files,       \* the host files that are open
  dirs,        \* the host directories that are open
  misused      \* history: a closed file or directory was used

rifsVars == <<procs, files, dirs, misused>>

\* Of attrib only the bit that asks for the volume label matters here.
Process ==
  [id : Pids, active : BOOLEAN, label : BOOLEAN, dir : Handles \cup {Nil},
   files : Seq(Handles \cup {Nil})]

NewProcess_NoId(id) ==            \* Mutant: a new slot gets no identifier.
  [id |-> 0, active |-> TRUE, label |-> FALSE, dir |-> Nil, files |-> <<>>]
NewProcess(id) ==
  [id |-> id, active |-> TRUE, label |-> FALSE, dir |-> Nil, files |-> <<>>]

\* The host files of a table.
Held(fs) == {fs[n] : n \in DOMAIN fs} \ {Nil}
-----------------------------------------------------------------------------
\* get_process: the slot of id, else an inactive one, else a new one.
Mine(id)   == {i \in DOMAIN procs : procs[i].active /\ procs[i].id = id}
Inactive   == {i \in DOMAIN procs : ~procs[i].active}

Slot(id) ==
  IF Mine(id) # {} THEN Min(Mine(id))
  ELSE IF Inactive # {} THEN Max(Inactive)
  ELSE Len(procs) + 1

\* Mutant: a slot is recycled with the identifier it had.
GetProcess_KeepsId(id) ==
  IF Slot(id) \in DOMAIN procs
    THEN [procs[Slot(id)] EXCEPT !.active = TRUE] ELSE NewProcess(id)
GetProcess(id) ==
  IF Slot(id) \in DOMAIN procs
    THEN [procs[Slot(id)] EXCEPT !.active = TRUE, !.id = id] ELSE NewProcess(id)

Put(id, p) ==
  procs' = IF Slot(id) \in DOMAIN procs
             THEN [procs EXCEPT ![Slot(id)] = p] ELSE Append(procs, p)

\* A non-nil pointer is passed to the host.
Uses(pointers, open) == misused' = (misused \/ ~(pointers \subseteq open))
-----------------------------------------------------------------------------
\* host_openfile: the first free number, else one more.
FreeNumbers(fs) == {n \in DOMAIN fs : fs[n] = Nil}
NewNumber(fs)   == IF FreeNumbers(fs) # {} THEN Min(FreeNumbers(fs)) ELSE Len(fs) + 1
Grown(fs)       == IF FreeNumbers(fs) # {} THEN fs ELSE Append(fs, Nil)

OpenFails(id) ==
  LET p == GetProcess(id)
  IN  /\ NewNumber(p.files) <= MaxFiles
      /\ Put(id, [p EXCEPT !.files = Grown(p.files)])
      /\ UNCHANGED <<files, dirs, misused>>

OpenFile(id) ==
  LET p == GetProcess(id)
      n == NewNumber(p.files)
  IN  /\ n <= MaxFiles
      /\ \E h \in Handles \ files :
           /\ Put(id, [p EXCEPT !.files = [Grown(p.files) EXCEPT ![n] = h]])
           /\ files' = files \cup {h}
      /\ UNCHANGED <<dirs, misused>>

\* The guest's number minus one is unsigned, so zero is out of range as well.
Valid(p, n) == n \in DOMAIN p.files /\ p.files[n] # Nil

\* CLOSEFILE, READFILE or WRITEFILE with a number that is not open.
InvalidHandle(id, n) ==
  LET p == GetProcess(id)
  IN  /\ ~Valid(p, n)
      /\ Put(id, p)
      /\ UNCHANGED <<files, dirs, misused>>

\* The table after number n was closed.
Closed_Stays(fs, n) == fs         \* Mutant: the pointer stays in the table.
Closed(fs, n) == [fs EXCEPT ![n] = Nil]

CloseFile(id, n) ==
  LET p == GetProcess(id)
  IN  /\ Valid(p, n)
      /\ Uses({p.files[n]}, files)
      /\ files' = files \ {p.files[n]}
      /\ Put(id, [p EXCEPT !.files = Closed(p.files, n)])
      /\ UNCHANGED dirs

Transfer(id, n) ==
  LET p == GetProcess(id)
  IN  /\ Valid(p, n)
      /\ Uses({p.files[n]}, files)
      /\ Put(id, p)
      /\ UNCHANGED <<files, dirs>>
-----------------------------------------------------------------------------
\* host_findnext of a process with this label and dir, when the host has ds open.
SearchEnds_Dangling(dir, ds) ==   \* Mutant: the finished search is kept.
  [dir |-> dir, dirs |-> ds \ {dir}]
SearchEnds(dir, ds) == [dir |-> Nil, dirs |-> ds \ {dir}]
SearchStays(dir, ds) == [dir |-> dir, dirs |-> ds]

Searches(label, dir, ds) ==
  {SearchStays(dir, ds)} \cup
    IF label \/ dir = Nil THEN {} ELSE {SearchEnds(dir, ds)}

FindNext(id) ==
  LET p == GetProcess(id)
  IN  \E s \in Searches(p.label, p.dir, dirs) :
        /\ Put(id, [p EXCEPT !.dir = s.dir])
        /\ dirs' = s.dirs
        /\ Uses(IF p.label THEN {} ELSE {p.dir} \ {Nil}, dirs)
        /\ UNCHANGED files

\* FINDFIRST closes the search the process had ...
Left(p) == dirs \ {p.dir}

\* ... and looks for the program to launch: the slot keeps the closed directory,
FindLaunched(id, label) ==
  LET p == GetProcess(id)
  IN  /\ Launch
      /\ Put(id, [p EXCEPT !.label = label])
      /\ dirs' = Left(p)
      /\ Uses({p.dir} \ {Nil}, dirs)
      /\ UNCHANGED files

\* or cannot open the directory,
FindFirstFails(id, label) ==
  LET p == GetProcess(id)
  IN  /\ Put(id, [p EXCEPT !.label = label, !.dir = Nil])
      /\ dirs' = Left(p)
      /\ Uses({p.dir} \ {Nil}, dirs)
      /\ UNCHANGED files

\* or opens it and searches it.
FindFirst(id, label) ==
  LET p == GetProcess(id)
  IN  \E d \in Handles \ Left(p) :
        \E s \in Searches(label, d, Left(p) \cup {d}) :
          /\ Put(id, [p EXCEPT !.label = label, !.dir = s.dir])
          /\ dirs' = s.dirs
          /\ Uses({p.dir} \ {Nil}, dirs)
          /\ UNCHANGED files
-----------------------------------------------------------------------------
\* The slot after CLOSEALL; its label and identifier stay.
Released(p) == [p EXCEPT !.active = FALSE, !.dir = Nil, !.files = <<>>]

CloseAll(id) ==
  LET p == GetProcess(id)
  IN  /\ files' = files \ Held(p.files)
      /\ dirs' = dirs \ {p.dir}
      /\ misused' = (\/ misused
                     \/ ~(Held(p.files) \subseteq files)
                     \/ ~({p.dir} \ {Nil} \subseteq dirs))
      /\ Put(id, Released(p))

\* Requests that name paths only, and those the server does not know.
Stateless == UNCHANGED rifsVars

\* The pointers the slots hold when the machine is taken down.
HeldFiles == UNION {Held(procs[i].files) : i \in DOMAIN procs}
HeldDirs  == {procs[i].dir : i \in DOMAIN procs} \ {Nil}

\* destroy, and a new machine.
Destroy ==
  /\ files' = files \ HeldFiles /\ dirs' = dirs \ HeldDirs
  /\ misused' = (misused \/ ~(HeldFiles \subseteq files) \/ ~(HeldDirs \subseteq dirs))
  /\ procs' = <<>>
-----------------------------------------------------------------------------
RifsInit ==
  /\ procs = <<>> /\ files = {} /\ dirs = {} /\ misused = FALSE

FileRequest(id) ==
  \/ OpenFails(id) \/ OpenFile(id)
  \/ \E n \in 0 .. MaxFiles + 1 :
       InvalidHandle(id, n) \/ CloseFile(id, n) \/ Transfer(id, n)

SearchRequest(id) ==
  \/ FindNext(id)
  \/ \E label \in BOOLEAN :
       FindLaunched(id, label) \/ FindFirstFails(id, label) \/ FindFirst(id, label)

Serve(id) == FileRequest(id) \/ SearchRequest(id) \/ CloseAll(id) \/ Stateless

RifsNext == Destroy \/ \E id \in Pids : Serve(id)

RifsSpec == RifsInit /\ [][RifsNext]_rifsVars
-----------------------------------------------------------------------------
RifsTypeOK ==
  /\ procs \in Seq(Process)
  /\ files \subseteq Handles /\ dirs \subseteq Handles

\* The server never passes a closed file or directory to the host
\* (tools/libretro/libretro.h:2980).
NeverMisused == ~misused

\* Every slot's files and search are open in the host, nothing open is in two places,
\* and every open file or search can still be closed by the guest: the requests neither
\* leak a host file or directory, nor keep or use a closed one.  An inactive slot has none.
HandlesOwned ==
  /\ HeldFiles = files /\ HeldDirs = dirs
  /\ \A i, j \in DOMAIN procs : \A m \in DOMAIN procs[i].files :
       \A n \in DOMAIN procs[j].files :
         procs[i].files[m] = procs[j].files[n] /\ procs[i].files[m] # Nil
           => i = j /\ m = n
  /\ \A i, j \in DOMAIN procs :
       procs[i].dir = procs[j].dir /\ procs[i].dir # Nil => i = j
  /\ \A i \in Inactive : procs[i].files = <<>> /\ procs[i].dir = Nil
  /\ NeverMisused
=============================================================================
