-------------------------------- MODULE VfsApi --------------------------------
(***************************************************************************)
(* What a core may rely on when it uses the frontend's files               *)
(* (tools/libretro/libretro.h, VFS API v1): the calls the core makes, with *)
(* the handles it was given.  A file is a sequence of cells.  Lapses names  *)
(* the promises a frontend does not keep; with none, this is libretro.h.   *)
(***************************************************************************)
EXTENDS Integers, Sequences

CONSTANTS
  Paths, Handles,
  Modes,        \* the modes the core opens files with: sets of access flags
  Cells,        \* contents of a byte
  Starts,       \* what may be in a file at first
  MaxLength,    \* bound of the model on the length of a file
  Closed,       \* a handle that is not open
  Lapses        \* "seek answer", "close answer"

VARIABLES
  data,    \* what is in each file
  stream,  \* what each handle stands for: a path, a mode and a position
  answer   \* the last call, and what it returned

Answer(call, n) == [of |-> call, number |-> n, bytes |-> <<>>]
ERROR(call) == Answer(call, -1)
OpenHandles == {h \in Handles : stream[h] # Closed}
File(h) == data[stream[h].path]
Lesser(a, b) == IF a < b THEN a ELSE b

Init ==
  /\ data \in [Paths -> Starts] /\ stream = [h \in Handles |-> Closed]
  /\ answer = Answer("none", 0)

\* An open handle is given to nobody else.  Without UPDATE_EXISTING, a file that is
\* opened for writing loses what was in it.
Discards(mode) == "WRITE" \in mode /\ "UPDATE_EXISTING" \notin mode

Open(path, mode) ==
  \/ \E h \in Handles \ OpenHandles :
       /\ answer' = Answer("open", h)
       /\ stream' = [stream EXCEPT ![h] = [path |-> path, mode |-> mode, pos |-> 0]]
       /\ data' = [data EXCEPT ![path] = IF Discards(mode) THEN <<>> ELSE @]
  \/ answer' = Answer("open", 0) /\ UNCHANGED <<data, stream>>

\* The handle is no longer valid, even if this returns failure.
Close(h) ==
  /\ answer' \in {Answer("close", 0), ERROR("close")}
  /\ stream' = [stream EXCEPT ![h] = Closed] /\ UNCHANGED data

\* Closing NULL fails.
CloseNull ==
  /\ answer' = IF "close answer" \in Lapses THEN Answer("close", 0) ELSE ERROR("close")
  /\ UNCHANGED <<data, stream>>

Size(h) ==
  /\ answer' \in {Answer("size", Len(File(h))), ERROR("size")}
  /\ UNCHANGED <<data, stream>>

\* The answer is the new position.
Seek(h, offset) ==
  \/ /\ answer' = Answer("seek", IF "seek answer" \in Lapses THEN 0 ELSE offset)
     /\ stream' = [stream EXCEPT ![h].pos = offset] /\ UNCHANGED data
  \/ answer' = ERROR("seek") /\ UNCHANGED <<data, stream>>

\* As many bytes as there are, from the position on, which moves behind them.
Slice(h, n) ==
  SubSeq(File(h), stream[h].pos + 1, Lesser(stream[h].pos + n, Len(File(h))))

Read(h, n) ==
  \/ /\ answer' = [of |-> "read", number |-> Len(Slice(h, n)), bytes |-> Slice(h, n)]
     /\ "READ" \in stream[h].mode
     /\ stream' = [stream EXCEPT ![h].pos = @ + Len(Slice(h, n))] /\ UNCHANGED data
  \/ answer' = ERROR("read") /\ UNCHANGED <<data, stream>>

\* What the bytes are written over, what comes behind them stays.
Patched(cells, pos, bytes) ==
  [i \in 1..(IF pos + Len(bytes) > Len(cells) THEN pos + Len(bytes) ELSE Len(cells)) |->
     IF i \in pos + 1..pos + Len(bytes) THEN bytes[i - pos] ELSE cells[i]]

\* The answer says how many of the bytes were written: it may be fewer.
Write(h, bytes) ==
  \/ \E n \in 0..Len(bytes) :
       /\ answer' = Answer("write", n) /\ "WRITE" \in stream[h].mode
       /\ data' = [data EXCEPT ![stream[h].path] =
                     Patched(@, stream[h].pos, SubSeq(bytes, 1, n))]
       /\ stream' = [stream EXCEPT ![h].pos = @ + n]
  \/ answer' = ERROR("write") /\ UNCHANGED <<data, stream>>

Flush(h) ==
  answer' \in {Answer("flush", 0), ERROR("flush")} /\ UNCHANGED <<data, stream>>

\* The core uses the handles it has, seeks to places in a file and writes from them.
Next ==
  \/ \E path \in Paths, mode \in Modes : Open(path, mode)
  \/ CloseNull
  \/ \E h \in OpenHandles :
       \/ Close(h) \/ Size(h) \/ Flush(h)
       \/ \E offset \in 0..Len(File(h)) : Seek(h, offset)
       \/ \E n \in 1..MaxLength : Read(h, n)
       \/ \E n \in 1..MaxLength : \E bytes \in [1..n -> Cells] : Write(h, bytes)

Spec == Init /\ [][Next]_<<data, stream, answer>>
=============================================================================
