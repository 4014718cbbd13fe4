------------------------------- MODULE CircleVfs -------------------------------
(***************************************************************************)
(* The files of the Circle kernel (tools/circle/kernel/kernel.cpp:92-159): *)
(* an array of FatFs objects, of which one that is all zero is free, and   *)
(* whose number is the handle.  Number 0 is never given away; it is what   *)
(* the core gives back when it closes nil.                                 *)
(*                                                                         *)
(* FatFs is the environment: an object that was opened knows its file, its *)
(* access and its position, and an operation on it may fail at any time,   *)
(* or write less than it was given when the card is full.                  *)
(***************************************************************************)
EXTENDS Integers, Sequences

CONSTANTS
  Paths, Slots, Modes, Cells, Starts, MaxLength,
  Images,   \* the files the core may write
  Zero,     \* an object that is all zero
  Spoilt    \* one that f_open left behind when it failed

VARIABLES data, handles, answer

\* Files are short sequences of cells at first; the core the kernel is built with opens none
\* to discard what is in it (it has no default image to write, core.odin:77, Makefile:53,
\* and no RIFS2); an object that is zero or spoilt is not one that stands for a file.
VfsAssumption ==
  /\ Slots \in Nat /\ MaxLength \in Nat
  /\ \A s \in Starts : s \in Seq(Cells) /\ Len(s) <= MaxLength
  /\ \A mode \in Modes :
       mode \subseteq {"READ", "WRITE", "UPDATE_EXISTING"}
         /\ ("WRITE" \in mode <=> "UPDATE_EXISTING" \in mode)
  /\ Zero # Spoilt /\ Zero \notin [path : Paths, mode : Modes, pos : 0..MaxLength]
  /\ {Zero, Spoilt} \cap [path : Paths, access : SUBSET {"FA_READ", "FA_WRITE"},
                          pos : 0..MaxLength] = {}

vars == <<data, handles, answer>>

Answer(call, n) == [of |-> call, number |-> n, bytes |-> <<>>]
NULL == 0
ERROR(call) == Answer(call, -1)

Init ==
  /\ data \in [Paths -> Starts] /\ answer = Answer("none", 0)
  /\ handles = [i \in 0..Slots |-> Zero]
-----------------------------------------------------------------------------
(* FatFs. *)

Opened(i) == handles[i] \notin {Zero, Spoilt}
Cell(i) == data[handles[i].path]
Fewer(a, b) == IF a < b THEN a ELSE b

\* FA_OPEN_EXISTING is 0: no flag creates the file, or empties it.
f_open(path, access) == {Spoilt, [path |-> path, access |-> access, pos |-> 0]}
f_read(i, n) ==
  SubSeq(Cell(i), handles[i].pos + 1, Fewer(handles[i].pos + n, Len(Cell(i))))
f_write(cells, pos, bytes) ==
  SubSeq(cells, 1, pos) \o bytes \o SubSeq(cells, pos + Len(bytes) + 1, Len(cells))
-----------------------------------------------------------------------------
(* The interface. *)

Access_Raw(mode) == mode   \* Mutant: the modes are taken for FatFs's flags.
Access(mode) ==
  (IF "READ" \in mode THEN {"FA_READ"} ELSE {})
    \cup (IF "WRITE" \in mode THEN {"FA_WRITE"} ELSE {})

\* The search starts at 1 and stops at the first free object.
IsFree(i) == i >= 1 /\ handles[i] = Zero
FirstFree(i) == IsFree(i) /\ \A j \in 1..i - 1 : ~IsFree(j)

\* An object that could not be opened is cleared again.
Cleared_Not(object) == object   \* Mutant: it keeps what f_open left in it.
Cleared(object) == IF object = Spoilt THEN Zero ELSE object

vfs_open(path, mode) ==
  /\ IF \E i \in 1..Slots : IsFree(i)
       THEN \E i \in 1..Slots, object \in f_open(path, Access(mode)) :
              /\ FirstFree(i)
              /\ handles' = [handles EXCEPT ![i] = Cleared(object)]
              /\ answer' = Answer("open", IF object = Spoilt THEN NULL ELSE i)
       ELSE answer' = Answer("open", NULL) /\ UNCHANGED handles
  /\ UNCHANGED data

\* Whether f_close succeeds is not looked at; nil is object 0.
vfs_close(i) ==
  /\ handles' = [handles EXCEPT ![i] = Zero] /\ answer' = Answer("close", 0)
  /\ UNCHANGED data

\* Neither is whether f_sync does.
vfs_flush(i) ==
  Opened(i) /\ answer' = Answer("flush", 0) /\ UNCHANGED <<data, handles>>

vfs_size(i) ==
  Opened(i) /\ answer' = Answer("size", Len(Cell(i))) /\ UNCHANGED <<data, handles>>

\* f_lseek is only asked for positions from the start; success is answered by 0.
vfs_seek(i, offset) ==
  /\ Opened(i) /\ UNCHANGED data
  /\ \E good \in BOOLEAN :
       IF good THEN /\ handles' = [handles EXCEPT ![i].pos = offset]
                    /\ answer' = Answer("seek", 0)
       ELSE answer' = ERROR("seek") /\ UNCHANGED handles

vfs_read(i, n) ==
  /\ Opened(i) /\ UNCHANGED data
  /\ \E good \in BOOLEAN :
       IF good /\ "FA_READ" \in handles[i].access
         THEN /\ answer' = [of |-> "read", number |-> Len(f_read(i, n)),
                            bytes |-> f_read(i, n)]
              /\ handles' = [handles EXCEPT ![i].pos = @ + Len(f_read(i, n))]
         ELSE answer' = ERROR("read") /\ UNCHANGED handles

\* f_write fails, or says how much it has written: all of it, unless the card is full.
vfs_write(i, bytes) ==
  /\ Opened(i)
  /\ \/ /\ "FA_WRITE" \in handles[i].access
        /\ \E n \in 0..Len(bytes) :
             /\ data' = [data EXCEPT ![handles[i].path] =
                           f_write(@, handles[i].pos, SubSeq(bytes, 1, n))]
             /\ handles' = [handles EXCEPT ![i].pos = @ + n]
             /\ answer' = Answer("write", n)
     \/ answer' = ERROR("write") /\ UNCHANGED <<data, handles>>

\* The core's calls: files of configurations and option ROMs, which it reads, and disk
\* images, none twice of those it writes, places in a file, and nil after one that could
\* not be opened (core.odin:82-83).
Next ==
  \/ \E path \in Paths, mode \in Modes :
       /\ "WRITE" \in mode => path \in Images
       /\ \A i \in 1..Slots :
            Opened(i) /\ handles[i].path = path
              => "WRITE" \notin mode /\ "FA_WRITE" \notin handles[i].access
       /\ vfs_open(path, mode)
  \/ \E i \in 0..Slots : (i = NULL \/ Opened(i)) /\ vfs_close(i)
  \/ \E i \in 1..Slots : vfs_flush(i) \/ vfs_size(i)
  \/ \E i \in 1..Slots, n \in 1..MaxLength : vfs_read(i, n)
  \/ \E i \in 1..Slots, n \in 1..MaxLength : \E bytes \in [1..n -> Cells] :
       /\ Opened(i) /\ handles[i].pos + n <= MaxLength
       /\ vfs_write(i, bytes)
  \/ \E i \in 1..Slots, offset \in 0..MaxLength :
       /\ Opened(i) /\ offset <= Len(Cell(i))
       /\ vfs_seek(i, offset)

Spec == Init /\ [][Next]_vars
-----------------------------------------------------------------------------
TypeOK ==
  /\ data \in [Paths -> UNION {[1..n -> Cells] : n \in 0..MaxLength}]
  /\ \A i \in 0..Slots :
       Opened(i) => /\ handles[i].path \in Paths
                    /\ handles[i].access \subseteq {"FA_READ", "FA_WRITE"}
                    /\ handles[i].pos \in 0..MaxLength

\* The modes come back from the access, as the core never writes without updating.
Mode(access) ==
  (IF "FA_READ" \in access THEN {"READ"} ELSE {})
    \cup (IF "FA_WRITE" \in access THEN {"WRITE", "UPDATE_EXISTING"} ELSE {})

\* The kernel gives the core what libretro.h says, for the modes and seeks the core
\* uses: a handle stands for one file until it is closed, through failed opens, a full
\* array and the closing of nil; its position and the contents are the files' own, and
\* a write says how much was written, even if the card is full.  Two promises are not
\* kept, and are named: a seek answers 0 in place of the new position (kernel.cpp:158,
\* libretro.h:2819), the closing of nil 0 in place of -1 (kernel.cpp:124,
\* libretro.h:2770).
Api == INSTANCE VfsApi WITH
  Handles <- 1..Slots, Closed <- Zero, Lapses <- {"seek answer", "close answer"},
  stream <- [i \in 1..Slots |->
               IF Opened(i) THEN [path |-> handles[i].path, pos |-> handles[i].pos,
                                  mode |-> Mode(handles[i].access)]
               ELSE handles[i]]
VfsSpec == Api!Spec
=============================================================================
