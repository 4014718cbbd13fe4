----------------------------- MODULE RifsProofs -----------------------------
(***************************************************************************)
(* What holds of the file server and its serial line for any number of     *)
(* DOS processes, host pointers and open files: the queues belong to the   *)
(* request the redirector is at, the slots' host files are exactly those   *)
(* that are open, and the slots implement a table per process.  Unless a   *)
(* program is launched the same is true of the directory searches.         *)
(***************************************************************************)
EXTENDS RifsLink, SequenceTheorems, WellFoundedInduction, TLAPS

\* No host file is in a table twice.
NoDup(fs) == \A m, n \in DOMAIN fs : fs[m] = fs[n] /\ fs[m] # Nil => m = n

\* A process has one slot at most, and its numbers are within the bound.
SlotsOK ==
  /\ \A i \in DOMAIN procs : Len(procs[i].files) <= MaxFiles
  /\ \A i, j \in DOMAIN procs :
       procs[i].active /\ procs[j].active /\ procs[i].id = procs[j].id => i = j

\* The half of HandlesOwned that is about files, table by table.
FilesOwned ==
  /\ HeldFiles = files
  /\ \A i \in DOMAIN procs : NoDup(procs[i].files)
  /\ \A i, j \in DOMAIN procs :
       i # j => Held(procs[i].files) \cap Held(procs[j].files) = {}
  /\ \A i \in DOMAIN procs : ~procs[i].active => procs[i].files = <<>>

\* The half that is about searches.
SearchOf(p) == {p.dir} \ {Nil}
DirsOwned ==
  /\ HeldDirs = dirs
  /\ \A i, j \in DOMAIN procs : i # j => SearchOf(procs[i]) \cap SearchOf(procs[j]) = {}
  /\ \A i \in DOMAIN procs : ~procs[i].active => procs[i].dir = Nil
  /\ NeverMisused

FilesInv == RifsTypeOK /\ SlotsOK /\ FilesOwned

\* What is in the two queues, by what the redirector does.
QueuesMatch ==
  /\ dlab => output = <<>> /\ input = <<>>
  /\ driver = "loading" => dlab
  /\ driver \in {"idle", "sending", "waiting", "reading"} => ~dlab
  /\ driver \in {"idle", "waiting", "reading"} => output = <<>>
  /\ driver \in {"idle", "sending"} => input = <<>>
  /\ driver = "sending" => output = <<[part |-> "header", of |-> sent]>>
  /\ driver = "waiting" => input = Packet(sent)
  /\ driver = "reading" => input = Tail(Packet(sent))
-----------------------------------------------------------------------------
(* Slots.                                                                  *)

LEMMA MinExists ==
  ASSUME NEW S \in SUBSET Nat, S # {}
  PROVE  Min(S) \in S /\ \A y \in S : Min(S) <= y
<1> DEFINE R == OpToRel(<, Nat)
<1>1. \A x, y \in Nat : <<y, x>> \in R <=> y < x
  BY DEF OpToRel
<1> HIDE DEF R
<1>2. IsWellFoundedOn(R, Nat)
  BY NatLessThanWellFounded DEF R
<1>3. PICK x \in S : \A y \in S : ~ (<<y, x>> \in R)
  BY <1>2, WFMin
<1>4. \A y \in S : x <= y
  <2> TAKE y \in S
  <2>1. x \in Nat /\ y \in Nat /\ ~(y < x)
    BY <1>1, <1>3, Zenon
  <2>2. QED  BY <2>1
<1>5. QED  BY <1>4 DEF Min

LEMMA MaxExists ==
  ASSUME NEW n \in Nat, NEW S \in SUBSET (1..n), S # {}
  PROVE  Max(S) \in S
<1> DEFINE T == {n - x : x \in S}
<1>1. T \in SUBSET Nat /\ T # {}
  <2>1. \A x \in S : n - x \in Nat
    OBVIOUS
  <2>2. QED  BY <2>1
<1>2. Min(T) \in T /\ \A y \in T : Min(T) <= y
  BY <1>1, MinExists
<1>3. PICK x \in S : Min(T) = n - x
  BY <1>2
<1>4. \A y \in S : x >= y
  <2> TAKE y \in S
  <2>1. n - x <= n - y
    BY <1>2, <1>3
  <2>2. QED  BY <2>1
<1>5. QED  BY <1>4 DEF Max

LEMMA ProcessFields ==
  ASSUME NEW p \in Process
  PROVE  /\ p.id \in Pids /\ p.active \in BOOLEAN /\ p.label \in BOOLEAN
         /\ p.dir \in Handles \cup {Nil} /\ p.files \in Seq(Handles \cup {Nil})
  BY DEF Process

LEMMA SlotProperties ==
  ASSUME RifsTypeOK, NEW id \in Pids
  PROVE  /\ Len(procs) \in Nat /\ DOMAIN procs = 1..Len(procs)
         /\ \A i \in DOMAIN procs : procs[i] \in Process
         /\ Slot(id) \in 1..(Len(procs) + 1)
         /\ Mine(id) # {} => Slot(id) \in Mine(id)
         /\ Mine(id) = {} /\ Slot(id) \in DOMAIN procs => ~procs[Slot(id)].active
<1>1. /\ Len(procs) \in Nat /\ DOMAIN procs = 1..Len(procs)
      /\ \A i \in DOMAIN procs : procs[i] \in Process
  BY LenProperties, ElementOfSeq DEF RifsTypeOK
<1>2. Mine(id) \in SUBSET Nat /\ Mine(id) \subseteq DOMAIN procs
  BY <1>1 DEF Mine
<1>3. Mine(id) # {} => Slot(id) \in Mine(id)
  BY <1>2, MinExists DEF Slot
<1>4. Inactive \in SUBSET (1..Len(procs))
  BY <1>1 DEF Inactive
<1>5. Inactive # {} => Max(Inactive) \in Inactive
  BY <1>1, <1>4, MaxExists
<1>6. Mine(id) = {} => Slot(id) = IF Inactive # {} THEN Max(Inactive) ELSE Len(procs) + 1
  BY DEF Slot
<1>7. Slot(id) \in 1..(Len(procs) + 1)
  <2>1. Slot(id) \in DOMAIN procs \/ Slot(id) = Len(procs) + 1
    BY <1>2, <1>3, <1>4, <1>5, <1>6, <1>1
  <2>2. QED  BY <1>1, <2>1
<1>8. ASSUME Mine(id) = {}, Slot(id) \in DOMAIN procs PROVE ~procs[Slot(id)].active
  <2>1. Slot(id) \in Inactive
    BY <1>1, <1>5, <1>6, <1>8
  <2>2. QED  BY <2>1 DEF Inactive
<1>9. QED  BY <1>1, <1>3, <1>7, <1>8

LEMMA GetProcessProperties ==
  ASSUME RifsTypeOK, NEW id \in Pids
  PROVE  LET q == GetProcess(id)
             s == Slot(id)
         IN  /\ q \in Process /\ q.id = id /\ q.active
             /\ s \in DOMAIN procs => q.files = procs[s].files /\ q.dir = procs[s].dir
             /\ s \notin DOMAIN procs => q.files = <<>> /\ q.dir = Nil
<1> DEFINE s == Slot(id)
<1>1. s \in DOMAIN procs => procs[s] \in Process
  BY SlotProperties
<1> HIDE DEF s
<1>2. CASE s \in DOMAIN procs
  <2>1. GetProcess(id) = [procs[s] EXCEPT !.active = TRUE, !.id = id]
    BY <1>2 DEF GetProcess, s
  <2>2. QED  BY <1>1, <1>2, <2>1 DEF Process, s
<1>3. CASE s \notin DOMAIN procs
  <2>1. GetProcess(id) = NewProcess(id)
    BY <1>3 DEF GetProcess, s
  <2>2. <<>> \in Seq(Handles \cup {Nil})
    BY EmptySeq
  <2>3. QED  BY <1>3, <2>1, <2>2 DEF NewProcess, Process, s
<1>4. QED  BY <1>2, <1>3

LEMMA PutProperties ==
  ASSUME RifsTypeOK, NEW id \in Pids, NEW p \in Process, Put(id, p)
  PROVE  /\ procs' \in Seq(Process)
         /\ DOMAIN procs' = DOMAIN procs \cup {Slot(id)}
         /\ procs'[Slot(id)] = p
         /\ \A i \in DOMAIN procs : i # Slot(id) => procs'[i] = procs[i]
<1> DEFINE s == Slot(id)
<1>1. /\ procs \in Seq(Process) /\ Len(procs) \in Nat /\ DOMAIN procs = 1..Len(procs)
      /\ s \in 1..(Len(procs) + 1)
      /\ procs' = IF s \in DOMAIN procs
                    THEN [procs EXCEPT ![s] = p] ELSE Append(procs, p)
  BY SlotProperties DEF RifsTypeOK, Put
<1> HIDE DEF s
<1>2. CASE s \in DOMAIN procs
  <2>1. /\ procs' \in Seq(Process) /\ Len(procs') = Len(procs)
        /\ \A j \in 1..Len(procs) : procs'[j] = IF j = s THEN p ELSE procs[j]
    BY <1>1, <1>2, ExceptSeq
  <2>2. DOMAIN procs' = 1..Len(procs)
    BY <2>1, LenProperties
  <2>3. QED  BY <1>1, <1>2, <2>1, <2>2 DEF s
<1>3. CASE s \notin DOMAIN procs
  <2>1. s = Len(procs) + 1
    BY <1>1, <1>3
  <2>2. /\ procs' \in Seq(Process) /\ Len(procs') = Len(procs) + 1
        /\ \A j \in 1..Len(procs) : procs'[j] = procs[j]
        /\ procs'[Len(procs) + 1] = p
    BY <1>1, <1>3, AppendProperties
  <2>3. DOMAIN procs' = 1..(Len(procs) + 1)
    BY <2>2, LenProperties
  <2>4. 1..(Len(procs) + 1) = 1..Len(procs) \cup {s}
    BY <1>1, <2>1
  <2>5. QED  BY <1>1, <2>1, <2>2, <2>3, <2>4 DEF s
<1>4. QED  BY <1>2, <1>3
-----------------------------------------------------------------------------
(* What a request does: the slot of its process is replaced by p, whose    *)
(* files take the place of those the process had.                          *)

FileEffect(id, p) ==
  LET q == GetProcess(id)
  IN  /\ p \in Process /\ p.id = id
      /\ Len(p.files) <= MaxFiles /\ NoDup(p.files)
      /\ ~p.active => p.files = <<>>
      /\ Put(id, p)
      /\ files' = (files \ Held(q.files)) \cup Held(p.files)
      /\ Held(p.files) \cap (files \ Held(q.files)) = {}
      /\ dirs' \subseteq Handles

\* The same for its search.
SearchEffect(id, p) ==
  LET q == GetProcess(id)
  IN  /\ ~p.active => p.dir = Nil
      /\ dirs' = (dirs \ SearchOf(q)) \cup SearchOf(p)
      /\ SearchOf(p) \cap (dirs \ SearchOf(q)) = {}
      /\ ~misused'

LEMMA HeldProperties ==
  /\ Held(<<>>) = {} /\ NoDup(<<>>) /\ Len(<<>>) = 0
  /\ \A fs \in Seq(Handles \cup {Nil}) : Held(fs) \subseteq Handles
<1>1. DOMAIN <<>> = {} /\ Len(<<>>) = 0
  BY EmptySeq, LenProperties
<1>2. \A fs \in Seq(Handles \cup {Nil}) : \A n \in DOMAIN fs : fs[n] \in Handles \cup {Nil}
  BY ElementOfSeq, LenProperties
<1>3. QED  BY <1>1, <1>2 DEF Held, NoDup

\* What the process of a request has is the server's.
LEMMA OwnProcess ==
  ASSUME FilesInv, NEW id \in Pids
  PROVE  LET q == GetProcess(id)
         IN  /\ Len(q.files) <= MaxFiles /\ NoDup(q.files)
             /\ Held(q.files) \subseteq files
<1> DEFINE q == GetProcess(id)
<1>1. RifsTypeOK
  BY DEF FilesInv
<1>2. CASE Slot(id) \in DOMAIN procs
  <2>1. q.files = procs[Slot(id)].files
    BY <1>1, <1>2, GetProcessProperties
  <2> HIDE DEF q
  <2>2. Held(q.files) \subseteq HeldFiles
    BY <1>2, <2>1 DEF HeldFiles
  <2>3. QED  BY <1>2, <2>1, <2>2 DEF FilesInv, SlotsOK, FilesOwned, q
<1>3. CASE Slot(id) \notin DOMAIN procs
  <2>1. q.files = <<>>
    BY <1>1, <1>3, GetProcessProperties
  <2>2. 0 <= MaxFiles
    BY RifsAssumption
  <2>3. QED  BY <2>1, <2>2, HeldProperties
<1>4. QED  BY <1>2, <1>3

\* The files of the other slots.
Others(id) == UNION {Held(procs[i].files) : i \in DOMAIN procs \ {Slot(id)}}

LEMMA OthersProperties ==
  ASSUME FilesInv, NEW id \in Pids
  PROVE  LET q == GetProcess(id)
         IN  Others(id) = files \ Held(q.files)
<1> DEFINE q == GetProcess(id)
           s == Slot(id)
<1>1. /\ s \in DOMAIN procs => q.files = procs[s].files
      /\ s \notin DOMAIN procs => Held(q.files) = {}
  BY GetProcessProperties, HeldProperties DEF FilesInv
<1>2. HeldFiles = files
  BY DEF FilesInv, FilesOwned
<1> HIDE DEF q, s
<1>3. \A i, j \in DOMAIN procs :
        i # j => Held(procs[i].files) \cap Held(procs[j].files) = {}
  BY DEF FilesInv, FilesOwned
<1>4. CASE s \in DOMAIN procs
  <2>1. HeldFiles = Others(id) \cup Held(procs[s].files)
    BY <1>4 DEF HeldFiles, Others, s
  <2>2. Others(id) \cap Held(procs[s].files) = {}
    BY <1>3, <1>4 DEF Others, s
  <2>3. QED  BY <1>1, <1>2, <1>4, <2>1, <2>2 DEF q
<1>5. CASE s \notin DOMAIN procs
  <2>1. HeldFiles = Others(id)
    BY <1>5 DEF HeldFiles, Others, s
  <2>2. QED  BY <1>1, <1>2, <1>5, <2>1 DEF q
<1>6. QED  BY <1>4, <1>5

LEMMA FileEffectPreserves ==
  ASSUME FilesInv, NEW id \in Pids, NEW p, FileEffect(id, p)
  PROVE  FilesInv'
<1> DEFINE q == GetProcess(id)
           s == Slot(id)
<1>1. /\ p \in Process /\ p.id = id /\ Len(p.files) <= MaxFiles /\ NoDup(p.files)
      /\ ~p.active => p.files = <<>>
      /\ Put(id, p)
      /\ files' = (files \ Held(q.files)) \cup Held(p.files)
      /\ Held(p.files) \cap (files \ Held(q.files)) = {}
      /\ dirs' \subseteq Handles
  BY DEF FileEffect
<1>2. RifsTypeOK /\ SlotsOK /\ FilesOwned
  BY DEF FilesInv
<1>3. /\ procs' \in Seq(Process) /\ DOMAIN procs' = DOMAIN procs \cup {s}
      /\ procs'[s] = p
      /\ \A i \in DOMAIN procs : i # s => procs'[i] = procs[i]
  BY <1>1, <1>2, PutProperties
<1>4. Others(id) = files \ Held(q.files)
  BY OthersProperties
<1>5. \A i \in DOMAIN procs : i # s => Held(procs[i].files) \subseteq Others(id)
  BY DEF Others
<1>6. \A i \in DOMAIN procs : i # s /\ procs[i].active => procs[i].id # id
  <2>1. Mine(id) # {} => s \in Mine(id)
    BY <1>2, SlotProperties
  <2>2. QED  BY <1>2, <2>1 DEF SlotsOK, Mine
<1> HIDE DEF q, s
<1>7. RifsTypeOK'
  <2>1. files \subseteq Handles
    BY <1>2 DEF RifsTypeOK
  <2>2. Held(p.files) \subseteq Handles
    BY <1>1, ProcessFields, HeldProperties
  <2>3. QED  BY <1>1, <1>3, <2>1, <2>2 DEF RifsTypeOK
<1>8. SlotsOK'
  BY <1>1, <1>2, <1>3, <1>6 DEF SlotsOK
<1>9. FilesOwned'
  <2>1. HeldFiles' = Others(id) \cup Held(p.files)
    <3>1. HeldFiles' = UNION {Held(procs'[i].files) : i \in DOMAIN procs \cup {s}}
      BY <1>3 DEF HeldFiles
    <3>2. \A i \in DOMAIN procs \ {s} : Held(procs'[i].files) = Held(procs[i].files)
      BY <1>3
    <3>3. Others(id) = UNION {Held(procs[i].files) : i \in DOMAIN procs \ {s}}
      BY DEF Others, s
    <3>4. QED  BY <1>3, <3>1, <3>2, <3>3
  <2>2. HeldFiles' = files'
    BY <1>1, <1>4, <2>1
  <2>3. \A i \in DOMAIN procs' : NoDup(procs'[i].files)
    BY <1>1, <1>2, <1>3 DEF FilesOwned
  <2>4. ASSUME NEW i \in DOMAIN procs', NEW j \in DOMAIN procs', i # j
        PROVE  Held(procs'[i].files) \cap Held(procs'[j].files) = {}
    <3>1. CASE i = s
      <4>1. j \in DOMAIN procs /\ procs'[j] = procs[j] /\ procs'[i] = p
        BY <1>3, <2>4, <3>1
      <4>2. QED  BY <1>1, <1>4, <1>5, <2>4, <3>1, <4>1
    <3>2. CASE j = s
      <4>1. i \in DOMAIN procs /\ procs'[i] = procs[i] /\ procs'[j] = p
        BY <1>3, <2>4, <3>2
      <4>2. QED  BY <1>1, <1>4, <1>5, <2>4, <3>2, <4>1
    <3>3. CASE i # s /\ j # s
      BY <1>2, <1>3, <2>4, <3>3 DEF FilesOwned
    <3>4. QED  BY <3>1, <3>2, <3>3
  <2>5. \A i \in DOMAIN procs' : ~procs'[i].active => procs'[i].files = <<>>
    BY <1>1, <1>2, <1>3 DEF FilesOwned
  <2>6. QED  BY <2>2, <2>3, <2>4, <2>5 DEF FilesOwned
<1>10. QED  BY <1>7, <1>8, <1>9 DEF FilesInv
-----------------------------------------------------------------------------
(* What a request does to the table of its process.                        *)

View(fs) == [n \in 1..MaxFiles |-> IF n \in DOMAIN fs THEN fs[n] ELSE Nil]

\* The numbers of fs become those of gs: nothing new, one file more, one file less or
\* none left.
TableChange(fs, gs) ==
  \/ View(gs) = View(fs) /\ files' = files
  \/ \E n \in 1..MaxFiles : \E h \in Handles \ files :
       /\ View(fs)[n] = Nil
       /\ View(gs) = [View(fs) EXCEPT ![n] = h] /\ files' = files \cup {h}
  \/ \E n \in 1..MaxFiles :
       /\ View(fs)[n] # Nil
       /\ View(gs) = [View(fs) EXCEPT ![n] = Nil] /\ files' = files \ {View(fs)[n]}
  \/ /\ View(gs) = [n \in 1..MaxFiles |-> Nil]
     /\ files' = files \ {View(fs)[n] : n \in 1..MaxFiles}

Request(id, p) ==
  /\ FileEffect(id, p)
  /\ TableChange(GetProcess(id).files, p.files)
  /\ DirsOwned /\ ~Launch => SearchEffect(id, p)

Table == Seq(Handles \cup {Nil})

LEMMA TableTypes ==
  ASSUME NEW fs \in Table
  PROVE  /\ Len(fs) \in Nat /\ DOMAIN fs = 1..Len(fs)
         /\ \A n \in 1..Len(fs) : fs[n] \in Handles \cup {Nil}
  BY LenProperties, ElementOfSeq DEF Table

LEMMA GrownProperties ==
  ASSUME NEW fs \in Table, Len(fs) <= MaxFiles, NoDup(fs), NewNumber(fs) <= MaxFiles
  PROVE  /\ Grown(fs) \in Table /\ Len(Grown(fs)) <= MaxFiles /\ NoDup(Grown(fs))
         /\ Held(Grown(fs)) = Held(fs) /\ View(Grown(fs)) = View(fs)
         /\ NewNumber(fs) \in 1..Len(Grown(fs)) /\ Grown(fs)[NewNumber(fs)] = Nil
<1>1. Len(fs) \in Nat /\ DOMAIN fs = 1..Len(fs)
  BY TableTypes
<1>2. CASE FreeNumbers(fs) # {}
  <2>1. FreeNumbers(fs) \in SUBSET Nat /\ FreeNumbers(fs) \subseteq 1..Len(fs)
    BY <1>1 DEF FreeNumbers
  <2>2. Min(FreeNumbers(fs)) \in FreeNumbers(fs)
    BY <1>2, <2>1, MinExists
  <2>3. Grown(fs) = fs /\ NewNumber(fs) \in FreeNumbers(fs)
    BY <1>2, <2>2 DEF Grown, NewNumber
  <2>4. QED  BY <1>1, <2>1, <2>3 DEF FreeNumbers
<1>3. CASE FreeNumbers(fs) = {}
  <2> DEFINE g == Append(fs, Nil)
  <2>1. Grown(fs) = g /\ NewNumber(fs) = Len(fs) + 1
    BY <1>3 DEF Grown, NewNumber
  <2>2. /\ g \in Table /\ Len(g) = Len(fs) + 1 /\ g[Len(fs) + 1] = Nil
        /\ \A n \in 1..Len(fs) : g[n] = fs[n]
    BY AppendProperties DEF Table
  <2>3. DOMAIN g = 1..(Len(fs) + 1)
    BY <2>2, TableTypes
  <2> HIDE DEF g
  <2>4. \A n \in DOMAIN g : g[n] # Nil => n \in DOMAIN fs /\ g[n] = fs[n]
    BY <1>1, <2>2, <2>3
  <2>5. DOMAIN fs \subseteq DOMAIN g /\ \A n \in DOMAIN fs : g[n] = fs[n]
    BY <1>1, <2>2, <2>3
  <2>6. NoDup(g)
    BY <2>4 DEF NoDup
  <2>7. Held(g) = Held(fs)
    BY <2>4, <2>5 DEF Held
  <2>8. View(g) = View(fs)
    BY <2>4, <2>5 DEF View
  <2>9. QED  BY <1>1, <2>1, <2>2, <2>6, <2>7, <2>8
<1>4. QED  BY <1>2, <1>3

Opened(fs, n, h) == [fs EXCEPT ![n] = h]

LEMMA OpenedProperties ==
  ASSUME NEW fs \in Table, Len(fs) <= MaxFiles, NoDup(fs),
         NEW n \in 1..Len(fs), fs[n] = Nil, NEW h \in Handles, h \notin Held(fs)
  PROVE  LET g == Opened(fs, n, h)
         IN  /\ g \in Table /\ Len(g) <= MaxFiles /\ NoDup(g)
             /\ Held(g) = Held(fs) \cup {h}
             /\ n \in 1..MaxFiles /\ View(fs)[n] = Nil
             /\ View(g) = [View(fs) EXCEPT ![n] = h]
<1> DEFINE g == Opened(fs, n, h)
<1>0. h # Nil /\ MaxFiles \in Nat
  BY RifsAssumption
<1>1. Len(fs) \in Nat /\ DOMAIN fs = 1..Len(fs)
  BY TableTypes
<1>2. /\ g \in Table /\ Len(g) = Len(fs)
      /\ \A j \in 1..Len(fs) : g[j] = IF j = n THEN h ELSE fs[j]
  BY ExceptSeq DEF Table, Opened
<1> HIDE DEF g
<1>3. DOMAIN g = 1..Len(fs)
  BY <1>2, TableTypes
<1>4. \A j \in 1..Len(fs) : fs[j] # h
  BY <1>0, <1>1 DEF Held
<1>5. NoDup(g)
  BY <1>1, <1>2, <1>3, <1>4 DEF NoDup
<1>6. Held(g) = Held(fs) \cup {h}
  BY <1>0, <1>1, <1>2, <1>3 DEF Held
<1>7. n \in 1..MaxFiles /\ View(fs)[n] = Nil
  BY <1>0, <1>1 DEF View
<1>8. View(g) = [View(fs) EXCEPT ![n] = h]
  BY <1>1, <1>2, <1>3, <1>7 DEF View
<1>9. QED  BY <1>2, <1>5, <1>6, <1>7, <1>8 DEF g

LEMMA ClosedProperties ==
  ASSUME NEW fs \in Table, Len(fs) <= MaxFiles, NoDup(fs),
         NEW n \in DOMAIN fs, fs[n] # Nil
  PROVE  LET g == Closed(fs, n)
         IN  /\ g \in Table /\ Len(g) <= MaxFiles /\ NoDup(g)
             /\ Held(g) = Held(fs) \ {fs[n]} /\ fs[n] \in Held(fs)
             /\ n \in 1..MaxFiles /\ View(fs)[n] = fs[n]
             /\ View(g) = [View(fs) EXCEPT ![n] = Nil]
<1> DEFINE g == Closed(fs, n)
<1>0. MaxFiles \in Nat
  BY RifsAssumption
<1>1. Len(fs) \in Nat /\ DOMAIN fs = 1..Len(fs)
  BY TableTypes
<1>2. /\ g \in Table /\ Len(g) = Len(fs)
      /\ \A j \in 1..Len(fs) : g[j] = IF j = n THEN Nil ELSE fs[j]
  BY <1>1, ExceptSeq DEF Table, Closed
<1>3. DOMAIN g = 1..Len(fs)
  BY <1>2, TableTypes
<1> HIDE DEF g
<1>5. NoDup(g)
  BY <1>1, <1>2, <1>3 DEF NoDup
<1>6. Held(g) = Held(fs) \ {fs[n]} /\ fs[n] \in Held(fs)
  BY <1>1, <1>2, <1>3 DEF Held, NoDup
<1>7. n \in 1..MaxFiles /\ View(fs)[n] = fs[n]
  BY <1>0, <1>1 DEF View
<1>8. View(g) = [View(fs) EXCEPT ![n] = Nil]
  BY <1>1, <1>2, <1>3, <1>7 DEF View
<1>9. QED  BY <1>2, <1>5, <1>6, <1>7, <1>8 DEF g
-----------------------------------------------------------------------------
(* The requests one by one.                                                *)

\* What the process of a request has, to the requests' proofs.
LEMMA Before ==
  ASSUME FilesInv, NEW id \in Pids
  PROVE  LET q == GetProcess(id)
         IN  /\ q \in Process /\ q.id = id /\ q.active /\ q.files \in Table
             /\ Len(q.files) <= MaxFiles /\ NoDup(q.files)
             /\ Held(q.files) \subseteq files
             /\ files \subseteq Handles /\ dirs \subseteq Handles
             /\ DirsOwned => SearchOf(q) \subseteq dirs /\ ~misused
<1> DEFINE q == GetProcess(id)
<1>1. RifsTypeOK
  BY DEF FilesInv
<1>2. /\ q \in Process /\ q.id = id /\ q.active
      /\ Slot(id) \in DOMAIN procs => q.dir = procs[Slot(id)].dir
      /\ Slot(id) \notin DOMAIN procs => q.dir = Nil
  BY <1>1, GetProcessProperties
<1>3. Len(q.files) <= MaxFiles /\ NoDup(q.files) /\ Held(q.files) \subseteq files
  BY OwnProcess
<1> HIDE DEF q
<1>4. q.files \in Table
  BY <1>2, ProcessFields DEF Table
<1>5. ASSUME DirsOwned PROVE SearchOf(q) \subseteq dirs /\ ~misused
  BY <1>2, <1>5 DEF DirsOwned, HeldDirs, SearchOf, NeverMisused
<1>6. QED  BY <1>1, <1>2, <1>3, <1>4, <1>5 DEF q, RifsTypeOK

\* A slot with other files, and one with another label and search.
LEMMA OtherFiles ==
  ASSUME NEW q \in Process, NEW fs \in Table
  PROVE  LET p == [q EXCEPT !.files = fs]
         IN  /\ p \in Process /\ p.id = q.id /\ p.active = q.active
             /\ p.files = fs /\ p.dir = q.dir
  BY DEF Process, Table

LEMMA OtherDir ==
  ASSUME NEW q \in Process, NEW d \in Handles \cup {Nil}
  PROVE  LET p == [q EXCEPT !.dir = d]
         IN  /\ p \in Process /\ p.id = q.id /\ p.active = q.active
             /\ p.files = q.files /\ p.dir = d
  BY DEF Process

LEMMA OtherLabel ==
  ASSUME NEW q \in Process, NEW label \in BOOLEAN
  PROVE  LET p == [q EXCEPT !.label = label]
         IN  /\ p \in Process /\ p.id = q.id /\ p.active = q.active
             /\ p.files = q.files /\ p.dir = q.dir
  BY DEF Process

WithSearch(q, label, d) == [q EXCEPT !.label = label, !.dir = d]

LEMMA OtherSearch ==
  ASSUME NEW q \in Process, NEW d \in Handles \cup {Nil}, NEW label \in BOOLEAN
  PROVE  LET p == WithSearch(q, label, d)
         IN  /\ p \in Process /\ p.id = q.id /\ p.active = q.active
             /\ p.files = q.files /\ p.dir = d
  BY DEF Process, WithSearch

\* A request that leaves the process its files.
LEMMA KeepsFiles ==
  ASSUME FilesInv, NEW id \in Pids, NEW p \in Process, p.id = id, p.active,
         Held(p.files) = Held(GetProcess(id).files), NoDup(p.files),
         Len(p.files) <= MaxFiles, View(p.files) = View(GetProcess(id).files),
         Put(id, p), files' = files, dirs' \subseteq Handles
  PROVE  FileEffect(id, p) /\ TableChange(GetProcess(id).files, p.files)
<1>1. Held(GetProcess(id).files) \subseteq files
  BY Before
<1>2. QED  BY <1>1 DEF FileEffect, TableChange

\* A request that leaves the process its search.
LEMMA KeepsSearch ==
  ASSUME FilesInv, NEW id \in Pids, NEW p, p.active, p.dir = GetProcess(id).dir,
         dirs' = dirs, DirsOwned => ~misused'
  PROVE  DirsOwned => SearchEffect(id, p)
<1>1. DirsOwned => SearchOf(GetProcess(id)) \subseteq dirs
  BY Before
<1>2. SearchOf(p) = SearchOf(GetProcess(id))
  BY DEF SearchOf
<1>3. QED  BY <1>1, <1>2 DEF SearchEffect

LEMMA OpenFailsEffect ==
  ASSUME FilesInv, NEW id \in Pids, OpenFails(id)
  PROVE  \E p : Request(id, p)
<1> DEFINE q == GetProcess(id)
           p == [q EXCEPT !.files = Grown(q.files)]
<1>1. /\ NewNumber(q.files) <= MaxFiles /\ Put(id, p)
      /\ files' = files /\ dirs' = dirs /\ misused' = misused
  BY DEF OpenFails
<1>2. /\ q \in Process /\ q.id = id /\ q.active /\ q.files \in Table
      /\ Len(q.files) <= MaxFiles /\ NoDup(q.files) /\ dirs \subseteq Handles
      /\ DirsOwned => ~misused
  BY Before
<1> HIDE DEF q
<1>3. /\ Grown(q.files) \in Table /\ Len(Grown(q.files)) <= MaxFiles
      /\ NoDup(Grown(q.files)) /\ Held(Grown(q.files)) = Held(q.files)
      /\ View(Grown(q.files)) = View(q.files)
  BY <1>1, <1>2, GrownProperties
<1>4. /\ p \in Process /\ p.id = id /\ p.active /\ p.files = Grown(q.files)
      /\ p.dir = q.dir
  BY <1>2, <1>3, OtherFiles
<1> HIDE DEF p
<1>5. FileEffect(id, p) /\ TableChange(q.files, p.files)
  BY <1>1, <1>2, <1>3, <1>4, KeepsFiles DEF q
<1>6. DirsOwned => SearchEffect(id, p)
  BY <1>1, <1>2, <1>4, KeepsSearch DEF q
<1>7. QED  BY <1>5, <1>6 DEF Request, q

LEMMA OpenFileEffect ==
  ASSUME FilesInv, NEW id \in Pids, OpenFile(id)
  PROVE  \E p : Request(id, p)
<1> DEFINE q == GetProcess(id)
           n == NewNumber(q.files)
           g == Grown(q.files)
<1>1. /\ n <= MaxFiles
      /\ \E h \in Handles \ files : /\ Put(id, [q EXCEPT !.files = [g EXCEPT ![n] = h]])
                                    /\ files' = files \cup {h}
      /\ dirs' = dirs /\ misused' = misused
  BY DEF OpenFile
<1>2. PICK h \in Handles \ files : /\ Put(id, [q EXCEPT !.files = [g EXCEPT ![n] = h]])
                                   /\ files' = files \cup {h}
  BY <1>1
<1> DEFINE f == Opened(g, n, h)
           p == [q EXCEPT !.files = f]
<1>3. /\ q \in Process /\ q.id = id /\ q.active /\ q.files \in Table
      /\ Len(q.files) <= MaxFiles /\ NoDup(q.files) /\ dirs \subseteq Handles
      /\ Held(q.files) \subseteq files /\ (DirsOwned => ~misused)
  BY Before
<1> HIDE DEF q
<1>4. /\ g \in Table /\ Len(g) <= MaxFiles /\ NoDup(g)
      /\ Held(g) = Held(q.files) /\ View(g) = View(q.files)
      /\ n \in 1..Len(g) /\ g[n] = Nil
  BY <1>1, <1>3, GrownProperties
<1> HIDE DEF n, g, p
<1>5. /\ f \in Table /\ Len(f) <= MaxFiles /\ NoDup(f)
      /\ Held(f) = Held(g) \cup {h}
      /\ n \in 1..MaxFiles /\ View(g)[n] = Nil
      /\ View(f) = [View(g) EXCEPT ![n] = h]
  <2>1. h \in Handles /\ h \notin Held(g)
    BY <1>2, <1>3, <1>4
  <2>2. QED  BY <1>4, <2>1, OpenedProperties
<1> HIDE DEF f
<1>6. p \in Process /\ p.id = id /\ p.active /\ p.files = f /\ p.dir = q.dir
  BY <1>3, <1>5, OtherFiles DEF p
<1>7. Put(id, p) /\ files' = files \cup {h}
  BY <1>2 DEF f, p, Opened
<1>8. FileEffect(id, p)
  BY <1>1, <1>3, <1>4, <1>5, <1>6, <1>7 DEF FileEffect, q
<1>9. TableChange(q.files, p.files)
  BY <1>4, <1>5, <1>6, <1>7 DEF TableChange
<1>10. DirsOwned => SearchEffect(id, p)
  BY <1>1, <1>3, <1>6, KeepsSearch DEF q
<1>11. QED  BY <1>8, <1>9, <1>10 DEF Request, q

\* CLOSEFILE, READFILE or WRITEFILE that leave the process as it is.
LEMMA LeavesProcess ==
  ASSUME FilesInv, NEW id \in Pids, Put(id, GetProcess(id)), files' = files, dirs' = dirs,
         ~misused => ~misused'
  PROVE  \E p : Request(id, p)
<1> DEFINE q == GetProcess(id)
<1>1. /\ q \in Process /\ q.id = id /\ q.active /\ Len(q.files) <= MaxFiles
      /\ NoDup(q.files) /\ dirs \subseteq Handles /\ (DirsOwned => ~misused)
  BY Before
<1> HIDE DEF q
<1>2. FileEffect(id, q) /\ TableChange(q.files, q.files)
  BY <1>1, KeepsFiles DEF q
<1>3. DirsOwned => SearchEffect(id, q)
  BY <1>1, KeepsSearch DEF q
<1>4. QED  BY <1>2, <1>3 DEF Request, q

LEMMA ValidProperties ==
  ASSUME FilesInv, NEW id \in Pids, NEW n, Valid(GetProcess(id), n)
  PROVE  LET q == GetProcess(id)
         IN  n \in DOMAIN q.files /\ q.files[n] # Nil /\ q.files[n] \in files
<1> DEFINE q == GetProcess(id)
<1>1. Held(q.files) \subseteq files
  BY Before
<1>2. n \in DOMAIN q.files /\ q.files[n] # Nil
  BY DEF Valid
<1> HIDE DEF q
<1>3. QED  BY <1>1, <1>2 DEF Held, q

LEMMA TransferEffect ==
  ASSUME FilesInv, NEW id \in Pids, NEW n, Transfer(id, n)
  PROVE  \E p : Request(id, p)
<1> DEFINE q == GetProcess(id)
<1>1. /\ Valid(q, n) /\ Uses({q.files[n]}, files) /\ Put(id, q)
      /\ files' = files /\ dirs' = dirs
  BY DEF Transfer
<1>2. {q.files[n]} \subseteq files
  BY <1>1, ValidProperties
<1>3. ~misused => ~misused'
  BY <1>1, <1>2 DEF Uses
<1>4. QED  BY <1>1, <1>3, LeavesProcess

LEMMA CloseFileEffect ==
  ASSUME FilesInv, NEW id \in Pids, NEW n, CloseFile(id, n)
  PROVE  \E p : Request(id, p)
<1> DEFINE q == GetProcess(id)
           f == Closed(q.files, n)
           p == [q EXCEPT !.files = f]
<1>1. /\ Valid(q, n) /\ Uses({q.files[n]}, files) /\ Put(id, p)
      /\ files' = files \ {q.files[n]} /\ dirs' = dirs
  BY DEF CloseFile
<1>2. n \in DOMAIN q.files /\ q.files[n] # Nil /\ q.files[n] \in files
  BY <1>1, ValidProperties
<1>3. ~misused => ~misused'
  BY <1>1, <1>2 DEF Uses
<1>4. /\ q \in Process /\ q.id = id /\ q.active /\ q.files \in Table
      /\ Len(q.files) <= MaxFiles /\ NoDup(q.files) /\ dirs \subseteq Handles
      /\ Held(q.files) \subseteq files /\ (DirsOwned => ~misused)
  BY Before
<1> HIDE DEF q
<1>5. /\ f \in Table /\ Len(f) <= MaxFiles /\ NoDup(f)
      /\ Held(f) = Held(q.files) \ {q.files[n]} /\ q.files[n] \in Held(q.files)
      /\ n \in 1..MaxFiles /\ View(q.files)[n] = q.files[n]
      /\ View(f) = [View(q.files) EXCEPT ![n] = Nil]
  BY <1>2, <1>4, ClosedProperties
<1> HIDE DEF f
<1>6. p \in Process /\ p.id = id /\ p.active /\ p.files = f /\ p.dir = q.dir
  BY <1>4, <1>5, OtherFiles
<1> HIDE DEF p
<1>7. FileEffect(id, p)
  BY <1>1, <1>4, <1>5, <1>6 DEF FileEffect, q
<1>8. TableChange(q.files, p.files)
  BY <1>1, <1>2, <1>5, <1>6 DEF TableChange
<1>9. DirsOwned => SearchEffect(id, p)
  BY <1>1, <1>3, <1>4, <1>6, KeepsSearch DEF q
<1>10. QED  BY <1>7, <1>8, <1>9 DEF Request, q

LEMMA SearchesProperties ==
  ASSUME NEW label, NEW dir, NEW ds, NEW s \in Searches(label, dir, ds)
  PROVE  \/ s.dir = dir /\ s.dirs = ds
         \/ ~label /\ dir # Nil /\ s.dir = Nil /\ s.dirs = ds \ {dir}
  BY DEF Searches, SearchStays, SearchEnds

\* A request that leaves the process its files and gives it another search.
LEMMA Searched ==
  ASSUME FilesInv, NEW id \in Pids, NEW p \in Process, p.id = id, p.active,
         p.files = GetProcess(id).files, Put(id, p), files' = files,
         dirs' \subseteq Handles,
         DirsOwned /\ ~Launch =>
           /\ dirs' = (dirs \ SearchOf(GetProcess(id))) \cup SearchOf(p)
           /\ SearchOf(p) \cap (dirs \ SearchOf(GetProcess(id))) = {}
           /\ ~misused'
  PROVE  Request(id, p)
<1> DEFINE q == GetProcess(id)
<1>1. Len(q.files) <= MaxFiles /\ NoDup(q.files)
  BY Before
<1>2. FileEffect(id, p) /\ TableChange(q.files, p.files)
  BY <1>1, KeepsFiles
<1>3. DirsOwned /\ ~Launch => SearchEffect(id, p)
  BY DEF SearchEffect
<1>4. QED  BY <1>2, <1>3 DEF Request

LEMMA FindNextEffect ==
  ASSUME FilesInv, NEW id \in Pids, FindNext(id)
  PROVE  \E p : Request(id, p)
<1> DEFINE q == GetProcess(id)
<1>1. PICK s \in Searches(q.label, q.dir, dirs) :
        /\ Put(id, [q EXCEPT !.dir = s.dir])
        /\ dirs' = s.dirs
        /\ Uses(IF q.label THEN {} ELSE {q.dir} \ {Nil}, dirs)
        /\ files' = files
  BY DEF FindNext
<1> DEFINE p == [q EXCEPT !.dir = s.dir]
<1>2. /\ q \in Process /\ q.id = id /\ q.active /\ dirs \subseteq Handles
      /\ DirsOwned => SearchOf(q) \subseteq dirs /\ ~misused
  BY Before
<1> HIDE DEF q
<1>3. \/ s.dir = q.dir /\ s.dirs = dirs
      \/ q.dir # Nil /\ s.dir = Nil /\ s.dirs = dirs \ {q.dir}
  BY SearchesProperties
<1>4. s.dir \in Handles \cup {Nil} /\ s.dirs \subseteq Handles
  BY <1>2, <1>3, ProcessFields
<1>5. p \in Process /\ p.id = id /\ p.active /\ p.files = q.files /\ p.dir = s.dir
  BY <1>2, <1>4, OtherDir
<1>6. DirsOwned => ~misused'
  BY <1>1, <1>2 DEF Uses, SearchOf
<1>7. Put(id, p) /\ dirs' = s.dirs /\ files' = files
  BY <1>1
<1> HIDE DEF p
<1>8. DirsOwned => /\ dirs' = (dirs \ SearchOf(q)) \cup SearchOf(p)
                   /\ SearchOf(p) \cap (dirs \ SearchOf(q)) = {}
  BY <1>2, <1>3, <1>5, <1>7 DEF SearchOf
<1>9. QED  BY <1>4, <1>5, <1>6, <1>7, <1>8, Searched DEF q

LEMMA FindLaunchedEffect ==
  ASSUME FilesInv, NEW id \in Pids, NEW label \in BOOLEAN, FindLaunched(id, label)
  PROVE  \E p : Request(id, p)
<1> DEFINE q == GetProcess(id)
           p == [q EXCEPT !.label = label]
<1>1. Launch /\ Put(id, p) /\ dirs' = dirs \ {q.dir} /\ files' = files
  BY DEF FindLaunched, Left
<1>2. q \in Process /\ q.id = id /\ q.active /\ dirs \subseteq Handles
  BY Before
<1> HIDE DEF q
<1>3. p \in Process /\ p.id = id /\ p.active /\ p.files = q.files
  BY <1>2, OtherLabel
<1> HIDE DEF p
<1>4. QED  BY <1>1, <1>2, <1>3, Searched DEF q

LEMMA FindFirstFailsEffect ==
  ASSUME FilesInv, NEW id \in Pids, NEW label \in BOOLEAN, FindFirstFails(id, label)
  PROVE  \E p : Request(id, p)
<1> DEFINE q == GetProcess(id)
           p == WithSearch(q, label, Nil)
<1>1. /\ Put(id, p) /\ dirs' = dirs \ {q.dir} /\ files' = files
      /\ Uses({q.dir} \ {Nil}, dirs)
  BY DEF FindFirstFails, Left, WithSearch
<1>2. /\ q \in Process /\ q.id = id /\ q.active /\ dirs \subseteq Handles
      /\ DirsOwned => SearchOf(q) \subseteq dirs /\ ~misused
  BY Before
<1> HIDE DEF q
<1>3. p \in Process /\ p.id = id /\ p.active /\ p.files = q.files /\ p.dir = Nil
  BY <1>2, OtherSearch
<1> HIDE DEF p
<1>4. DirsOwned => ~misused'
  BY <1>1, <1>2 DEF Uses, SearchOf
<1>5. /\ dirs' = (dirs \ SearchOf(q)) \cup SearchOf(p)
      /\ SearchOf(p) \cap (dirs \ SearchOf(q)) = {}
  <2>1. Nil \notin dirs
    BY <1>2, RifsAssumption
  <2>2. QED  BY <1>1, <1>3, <2>1 DEF SearchOf
<1>6. QED  BY <1>1, <1>2, <1>3, <1>4, <1>5, Searched DEF q

LEMMA FindFirstEffect ==
  ASSUME FilesInv, NEW id \in Pids, NEW label \in BOOLEAN, FindFirst(id, label)
  PROVE  \E p : Request(id, p)
<1> DEFINE q == GetProcess(id)
           left == dirs \ {q.dir}
<1>1. PICK d \in Handles \ left : \E s \in Searches(label, d, left \cup {d}) :
        /\ Put(id, [q EXCEPT !.label = label, !.dir = s.dir])
        /\ dirs' = s.dirs
        /\ Uses({q.dir} \ {Nil}, dirs)
        /\ files' = files
  BY DEF FindFirst, Left
<1>2. PICK s \in Searches(label, d, left \cup {d}) :
        /\ Put(id, [q EXCEPT !.label = label, !.dir = s.dir])
        /\ dirs' = s.dirs
        /\ Uses({q.dir} \ {Nil}, dirs)
        /\ files' = files
  BY <1>1
<1> DEFINE p == WithSearch(q, label, s.dir)
<1>3. /\ q \in Process /\ q.id = id /\ q.active /\ dirs \subseteq Handles
      /\ DirsOwned => SearchOf(q) \subseteq dirs /\ ~misused
  BY Before
<1>4. Nil \notin dirs
  BY <1>3, RifsAssumption
<1> HIDE DEF q
<1>5. \/ s.dir = d /\ s.dirs = left \cup {d}
      \/ s.dir = Nil /\ s.dirs = (left \cup {d}) \ {d}
  BY SearchesProperties
<1>6. s.dir \in Handles \cup {Nil} /\ s.dirs \subseteq Handles
  BY <1>1, <1>3, <1>5
<1>7. p \in Process /\ p.id = id /\ p.active /\ p.files = q.files /\ p.dir = s.dir
  BY <1>3, <1>6, OtherSearch
<1>8. DirsOwned => ~misused'
  BY <1>2, <1>3 DEF Uses, SearchOf
<1>9. Put(id, p) /\ dirs' = s.dirs /\ files' = files
  BY <1>2 DEF WithSearch
<1> HIDE DEF p
<1>10. /\ dirs' = (dirs \ SearchOf(q)) \cup SearchOf(p)
       /\ SearchOf(p) \cap (dirs \ SearchOf(q)) = {}
  <2>1. dirs \ SearchOf(q) = left /\ d # Nil /\ d \notin left
    BY <1>1, <1>4, RifsAssumption DEF SearchOf
  <2>2. CASE s.dir = d /\ s.dirs = left \cup {d}
    <3>1. SearchOf(p) = {d} /\ dirs' = left \cup {d}
      BY <1>7, <1>9, <2>1, <2>2 DEF SearchOf
    <3>2. QED  BY <2>1, <3>1
  <2>3. CASE s.dir = Nil /\ s.dirs = (left \cup {d}) \ {d}
    <3>1. SearchOf(p) = {} /\ dirs' = left
      BY <1>7, <1>9, <2>1, <2>3 DEF SearchOf
    <3>2. QED  BY <2>1, <3>1
  <2>4. QED  BY <1>5, <2>2, <2>3
<1>11. QED  BY <1>6, <1>7, <1>8, <1>9, <1>10, Searched DEF q

LEMMA CloseAllEffect ==
  ASSUME FilesInv, NEW id \in Pids, CloseAll(id)
  PROVE  \E p : Request(id, p)
<1> DEFINE q == GetProcess(id)
           p == Released(q)
<1>1. /\ files' = files \ Held(q.files) /\ dirs' = dirs \ {q.dir}
      /\ misused' = (\/ misused
                     \/ ~(Held(q.files) \subseteq files)
                     \/ ~({q.dir} \ {Nil} \subseteq dirs))
      /\ Put(id, p)
  BY DEF CloseAll
<1>2. /\ q \in Process /\ q.id = id /\ q.files \in Table
      /\ Held(q.files) \subseteq files
      /\ files \subseteq Handles /\ dirs \subseteq Handles
      /\ DirsOwned => SearchOf(q) \subseteq dirs /\ ~misused
  BY Before
<1>3. Nil \notin dirs /\ Nil \notin files /\ MaxFiles \in Nat
  BY <1>2, RifsAssumption
<1> HIDE DEF q
<1>4. /\ p \in Process /\ p.id = id /\ ~p.active /\ p.files = <<>> /\ p.dir = Nil
  <2>1. <<>> \in Seq(Handles \cup {Nil})
    BY EmptySeq
  <2>2. QED  BY <1>2, <2>1 DEF Released, Process
<1> HIDE DEF p
<1>5. FileEffect(id, p)
  BY <1>1, <1>2, <1>3, <1>4, HeldProperties DEF FileEffect, q
<1>6. SearchOf(p) = {} /\ dirs' = dirs \ SearchOf(q)
  BY <1>1, <1>3, <1>4 DEF SearchOf
<1>7. DirsOwned => ~misused'
  BY <1>1, <1>2 DEF SearchOf
<1>8. DirsOwned => SearchEffect(id, p)
  BY <1>4, <1>6, <1>7 DEF SearchEffect, q
<1>9. \A h \in files : h \in Held(q.files) <=> \E n \in 1..MaxFiles : h = View(q.files)[n]
  <2>1. Len(q.files) \in Nat /\ DOMAIN q.files = 1..Len(q.files) /\ Len(q.files) <= MaxFiles
    BY <1>2, TableTypes, Before DEF q
  <2>2. \A n \in 1..MaxFiles :
          View(q.files)[n] = IF n \in DOMAIN q.files THEN q.files[n] ELSE Nil
    BY DEF View
  <2>3. QED  BY <1>3, <2>1, <2>2 DEF Held
<1>10. files' = files \ {View(q.files)[n] : n \in 1..MaxFiles}
  BY <1>1, <1>9
<1>11. View(p.files) = [n \in 1..MaxFiles |-> Nil]
  <2>1. DOMAIN p.files = {}
    BY <1>4
  <2>2. QED  BY <2>1 DEF View
<1>12. TableChange(q.files, p.files)
  BY <1>10, <1>11 DEF TableChange
<1>13. QED  BY <1>5, <1>8, <1>12 DEF Request, q

LEMMA ServeEffect ==
  ASSUME FilesInv, NEW id \in Pids, Serve(id)
  PROVE  (\E p : Request(id, p)) \/ UNCHANGED rifsVars
<1>1. ASSUME NEW n \in 0 .. MaxFiles + 1, InvalidHandle(id, n) PROVE \E p : Request(id, p)
  BY <1>1, LeavesProcess DEF InvalidHandle
<1>2. QED
  BY <1>1, OpenFailsEffect, OpenFileEffect, CloseFileEffect, TransferEffect,
     FindNextEffect, FindLaunchedEffect, FindFirstFailsEffect, FindFirstEffect,
     CloseAllEffect DEF Serve, FileRequest, SearchRequest, Stateless
-----------------------------------------------------------------------------
(* The directory searches, when no program is launched.                    *)

LEMMA SearchEffectPreserves ==
  ASSUME FilesInv, DirsOwned, NEW id \in Pids, NEW p, FileEffect(id, p), SearchEffect(id, p)
  PROVE  DirsOwned'
<1> DEFINE q == GetProcess(id)
           s == Slot(id)
           others == UNION {SearchOf(procs[i]) : i \in DOMAIN procs \ {s}}
<1>1. /\ p \in Process /\ Put(id, p)
      /\ ~p.active => p.dir = Nil
      /\ dirs' = (dirs \ SearchOf(q)) \cup SearchOf(p)
      /\ SearchOf(p) \cap (dirs \ SearchOf(q)) = {}
      /\ ~misused'
  BY DEF FileEffect, SearchEffect
<1>2. RifsTypeOK
  BY DEF FilesInv
<1>3. /\ DOMAIN procs' = DOMAIN procs \cup {s}
      /\ procs'[s] = p
      /\ \A i \in DOMAIN procs : i # s => procs'[i] = procs[i]
  BY <1>1, <1>2, PutProperties
<1>4. /\ s \in DOMAIN procs => q.dir = procs[s].dir
      /\ s \notin DOMAIN procs => q.dir = Nil
  BY <1>2, GetProcessProperties
<1> HIDE DEF q, s
<1>5. /\ \A i, j \in DOMAIN procs : i # j => SearchOf(procs[i]) \cap SearchOf(procs[j]) = {}
      /\ \A i \in DOMAIN procs : ~procs[i].active => procs[i].dir = Nil
      /\ dirs = UNION {SearchOf(procs[i]) : i \in DOMAIN procs}
  BY DEF DirsOwned, HeldDirs, SearchOf
<1>6. others = dirs \ SearchOf(q)
  <2>1. CASE s \in DOMAIN procs
    <3>1. SearchOf(q) = SearchOf(procs[s])
      BY <1>4, <2>1 DEF SearchOf
    <3>2. dirs = others \cup SearchOf(procs[s])
      BY <1>5, <2>1
    <3>3. others \cap SearchOf(procs[s]) = {}
      BY <1>5, <2>1
    <3>4. QED  BY <3>1, <3>2, <3>3
  <2>2. CASE s \notin DOMAIN procs
    <3>1. SearchOf(q) = {}
      BY <1>4, <2>2 DEF SearchOf
    <3>2. dirs = others
      BY <1>5, <2>2
    <3>3. QED  BY <3>1, <3>2
  <2>3. QED  BY <2>1, <2>2
<1>7. HeldDirs' = dirs'
  <2>1. HeldDirs' = UNION {SearchOf(procs'[i]) : i \in DOMAIN procs \cup {s}}
    BY <1>3 DEF HeldDirs, SearchOf
  <2>2. \A i \in DOMAIN procs \ {s} : SearchOf(procs'[i]) = SearchOf(procs[i])
    BY <1>3
  <2>3. HeldDirs' = others \cup SearchOf(p)
    BY <1>3, <2>1, <2>2
  <2>4. QED  BY <1>1, <1>6, <2>3
<1>8. \A i \in DOMAIN procs : i # s => SearchOf(procs[i]) \subseteq others
  OBVIOUS
<1> HIDE DEF others
<1>9. ASSUME NEW i \in DOMAIN procs', NEW j \in DOMAIN procs', i # j
      PROVE  SearchOf(procs'[i]) \cap SearchOf(procs'[j]) = {}
  <2>1. CASE i = s
    <3>1. j \in DOMAIN procs /\ procs'[j] = procs[j] /\ procs'[i] = p
      BY <1>3, <1>9, <2>1
    <3>2. QED  BY <1>1, <1>6, <1>8, <1>9, <2>1, <3>1
  <2>2. CASE j = s
    <3>1. i \in DOMAIN procs /\ procs'[i] = procs[i] /\ procs'[j] = p
      BY <1>3, <1>9, <2>2
    <3>2. QED  BY <1>1, <1>6, <1>8, <1>9, <2>2, <3>1
  <2>3. CASE i # s /\ j # s
    BY <1>3, <1>5, <1>9, <2>3
  <2>4. QED  BY <2>1, <2>2, <2>3
<1>10. \A i \in DOMAIN procs' : ~procs'[i].active => procs'[i].dir = Nil
  BY <1>1, <1>3, <1>5
<1>11. QED  BY <1>1, <1>7, <1>9, <1>10 DEF DirsOwned, NeverMisused

LEMMA DestroyPreserves ==
  ASSUME FilesInv, Destroy
  PROVE  FilesInv' /\ (DirsOwned => DirsOwned') /\ procs' = <<>> /\ files' = {}
<1>1. procs' = <<>> /\ DOMAIN procs' = {}
  BY DEF Destroy
<1>2. files' = {} /\ dirs' \subseteq Handles
  BY DEF Destroy, FilesInv, FilesOwned, RifsTypeOK
<1>3. <<>> \in Seq(Process)
  BY EmptySeq
<1>4. FilesInv'
  BY <1>1, <1>2, <1>3 DEF FilesInv, RifsTypeOK, SlotsOK, FilesOwned, HeldFiles
<1>5. ASSUME DirsOwned PROVE DirsOwned'
  <2>1. dirs' = {} /\ ~misused'
    BY <1>5 DEF Destroy, DirsOwned, NeverMisused, FilesInv, FilesOwned
  <2>2. QED  BY <1>1, <2>1 DEF DirsOwned, HeldDirs, NeverMisused
<1>6. QED  BY <1>1, <1>2, <1>4, <1>5
-----------------------------------------------------------------------------
(* The serial line.                                                        *)

QueuesOK ==
  /\ dlab \in BOOLEAN
  /\ output \in Seq(Piece) /\ input \in Seq(Piece)
  /\ driver \in {"unloaded", "loading", "idle", "sending", "waiting", "reading"}
  /\ sent \in Pids \X {0, 1}
  /\ QueuesMatch

LEMMA PacketProperties ==
  ASSUME NEW r \in Pids \X {0, 1}
  PROVE  LET h == [part |-> "header", of |-> r]
             t == [part |-> "rest", of |-> r]
         IN  /\ <<>> \in Seq(Piece) /\ <<h>> \in Seq(Piece) /\ Packet(r) \in Seq(Piece)
             /\ Append(<<h>>, t) = Packet(r) /\ <<>> \o Packet(r) = Packet(r)
             /\ Packet(r) # <<>> /\ Tail(Packet(r)) = <<t>> /\ <<t>> # <<>>
             /\ <<t>> \in Seq(Piece) /\ Tail(<<t>>) = <<>>
             /\ Verifies(Packet(r))
<1> DEFINE h == [part |-> "header", of |-> r]
           t == [part |-> "rest", of |-> r]
<1>1. h \in Piece /\ t \in Piece
  BY DEF Piece
<1>2. Packet(r) = <<h, t>>
  BY DEF Packet
<1> HIDE DEF h, t
<1>3. <<>> \in Seq(Piece) /\ <<h>> \in Seq(Piece) /\ <<t>> \in Seq(Piece)
      /\ <<h, t>> \in Seq(Piece)
  BY <1>1
<1>4. Append(<<h>>, t) = <<h, t>> /\ Tail(<<h, t>>) = <<t>> /\ Tail(<<t>>) = <<>>
  <2>1. Append(<<h>>, t) = <<h, t>>
    <3>1. <<h>> \in Seq(Piece) /\ Len(<<h>>) = 1 /\ <<h>>[1] = h
      BY <1>3
    <3>2. /\ Append(<<h>>, t) \in Seq(Piece) /\ Len(Append(<<h>>, t)) = 2
          /\ Append(<<h>>, t)[1] = h /\ Append(<<h>>, t)[2] = t
      BY <1>1, <3>1, AppendProperties
    <3>3. Len(<<h, t>>) = 2 /\ <<h, t>>[1] = h /\ <<h, t>>[2] = t
      OBVIOUS
    <3>4. \A i \in 1..2 : Append(<<h>>, t)[i] = <<h, t>>[i]
      <4>1. \A i \in 1..2 : i = 1 \/ i = 2
        OBVIOUS
      <4>2. QED  BY <3>2, <3>3, <4>1
    <3>5. QED  BY <1>3, <3>2, <3>3, <3>4, SeqEqual
  <2>2. Len(<<h, t>>) = 2 /\ Len(<<t>>) = 1 /\ <<h, t>>[2] = t /\ <<t>>[1] = t
    OBVIOUS
  <2>3. <<h, t>> # <<>> /\ <<t>> # <<>>
    OBVIOUS
  <2>4. /\ Tail(<<h, t>>) \in Seq(Piece) /\ Len(Tail(<<h, t>>)) = 1
        /\ Tail(<<h, t>>)[1] = t
    BY <1>3, <2>2, <2>3, HeadTailProperties
  <2>5. Tail(<<h, t>>) = <<t>>
    BY <1>3, <2>2, <2>4, SeqEqual
  <2>6. Tail(<<t>>) \in Seq(Piece) /\ Len(Tail(<<t>>)) = 0
    BY <1>3, <2>2, <2>3, HeadTailProperties
  <2>7. Tail(<<t>>) = <<>>
    BY <2>6, EmptySeq
  <2>8. QED  BY <2>1, <2>5, <2>7
<1>5. <<>> \o <<h, t>> = <<h, t>>
  BY <1>3, ConcatEmptySeq
<1>6. <<h, t>> # <<>> /\ <<t>> # <<>>
  OBVIOUS
<1>7. Verifies(Packet(r))
  BY DEF Verifies
<1>8. QED  BY <1>2, <1>3, <1>4, <1>5, <1>6, <1>7 DEF h, t

\* What a step of the line is to the server and to the client it serves.
ServerStep ==
  \/ UNCHANGED rifsVars /\ sent' \in Pids \X {0, 1}
  \/ Serve(sent[1]) /\ UNCHANGED sent
  \/ Destroy /\ UNCHANGED sent

LEMMA LatchStep ==
  ASSUME QueuesOK, LatchOn \/ LatchOff
  PROVE  QueuesOK' /\ ServerStep
<1>1. /\ UNCHANGED <<rifsVars, sent>> /\ output' = <<>> /\ input' = <<>>
  BY DEF LatchOn, LatchOff, SetLineControl, Cleared, QueuesOK, QueuesMatch
<1>2. \/ dlab' = TRUE /\ driver' = "loading"
      \/ dlab' = FALSE /\ driver' = "idle"
  BY DEF LatchOn, LatchOff, SetLineControl
<1>3. <<>> \in Seq(Piece)
  BY EmptySeq
<1>4. QED  BY <1>1, <1>2, <1>3 DEF QueuesOK, QueuesMatch, ServerStep

LEMMA SendHeaderStep ==
  ASSUME QueuesOK, NEW id \in Pids, SendHeader(id)
  PROVE  QueuesOK' /\ ServerStep
<1>1. driver = "idle" /\ driver' = "sending" /\ sent' = <<id, 1 - sent[2]>>
  BY DEF SendHeader
<1>2. output = <<>> /\ input = <<>> /\ ~dlab /\ sent \in Pids \X {0, 1}
  BY <1>1 DEF QueuesOK, QueuesMatch
<1>3. sent' \in Pids \X {0, 1}
  BY <1>1, <1>2
<1>4. /\ output' = <<[part |-> "header", of |-> sent']>>
      /\ UNCHANGED <<rifsVars, input, dlab>>
  BY <1>2 DEF SendHeader, Send
<1>5. output' \in Seq(Piece)
  BY <1>3, <1>4, PacketProperties
<1>6. QED  BY <1>1, <1>2, <1>3, <1>4, <1>5 DEF QueuesOK, QueuesMatch, ServerStep

LEMMA SendRestStep ==
  ASSUME QueuesOK, SendRest
  PROVE  QueuesOK' /\ ServerStep
<1> DEFINE h == [part |-> "header", of |-> sent]
           t == [part |-> "rest", of |-> sent]
<1>1. driver = "sending" /\ driver' = "waiting" /\ sent' = sent
  BY DEF SendRest
<1>2. output = <<h>> /\ input = <<>> /\ ~dlab /\ sent \in Pids \X {0, 1}
  BY <1>1 DEF QueuesOK, QueuesMatch
<1>3. <<h>> # <<>> /\ t.of = sent
  OBVIOUS
<1>4. /\ ~dlab /\ dlab' = dlab /\ output' = <<>>
      /\ IF Verifies(Append(output, t))
           THEN Serve(t.of[1]) /\ input' = input \o Packet(t.of)
           ELSE UNCHANGED <<rifsVars, input>>
  BY <1>2, <1>3 DEF SendRest, Send
<1>5. /\ Append(<<h>>, t) = Packet(sent) /\ <<>> \o Packet(sent) = Packet(sent)
      /\ Verifies(Packet(sent)) /\ Packet(sent) \in Seq(Piece) /\ <<>> \in Seq(Piece)
  BY <1>2, PacketProperties
<1> HIDE DEF h, t
<1>6. Serve(sent[1]) /\ input' = Packet(sent)
  BY <1>2, <1>3, <1>4, <1>5
<1>7. QED  BY <1>1, <1>2, <1>4, <1>5, <1>6 DEF QueuesOK, QueuesMatch, ServerStep

LEMMA ReceiveStep ==
  ASSUME QueuesOK, ReadAnswer
  PROVE  QueuesOK' /\ ServerStep
<1>1. /\ driver \in {"waiting", "reading"} /\ input' = Tail(input) /\ ~dlab
      /\ driver' = IF driver = "waiting" THEN "reading" ELSE "idle"
      /\ UNCHANGED <<rifsVars, dlab, output, sent>>
  BY DEF ReadAnswer
<1>2. sent \in Pids \X {0, 1} /\ output = <<>> /\ output \in Seq(Piece)
  BY <1>1 DEF QueuesOK, QueuesMatch
<1>3. /\ Tail(Packet(sent)) \in Seq(Piece) /\ <<>> \in Seq(Piece)
      /\ Tail(Tail(Packet(sent))) = <<>>
  BY <1>2, PacketProperties
<1>4. CASE driver = "waiting"
  <2>1. input' = Tail(Packet(sent)) /\ driver' = "reading"
    BY <1>1, <1>4 DEF QueuesOK, QueuesMatch
  <2>2. QED  BY <1>1, <1>2, <1>3, <2>1 DEF QueuesOK, QueuesMatch, ServerStep
<1>5. CASE driver = "reading"
  <2>1. input' = <<>> /\ driver' = "idle"
    BY <1>1, <1>3, <1>5 DEF QueuesOK, QueuesMatch
  <2>2. QED  BY <1>1, <1>2, <1>3, <2>1 DEF QueuesOK, QueuesMatch, ServerStep
<1>6. QED  BY <1>1, <1>4, <1>5

LEMMA LinkStep ==
  ASSUME QueuesOK, [LinkNext]_serverVars
  PROVE  QueuesOK' /\ ServerStep
<1>1. CASE ResetMachine
  BY <1>1 DEF ResetMachine, QueuesOK, QueuesMatch, ServerStep
<1>2. CASE Recreate
  <2>1. <<>> \in Seq(Piece)
    BY EmptySeq
  <2>2. QED  BY <1>2, <2>1 DEF Recreate, QueuesOK, QueuesMatch, ServerStep
<1>3. CASE UNCHANGED serverVars
  BY <1>3 DEF serverVars, linkVars, rifsVars, QueuesOK, QueuesMatch, ServerStep
<1>4. QED
  BY <1>1, <1>2, <1>3, LatchStep, SendHeaderStep, SendRestStep, ReceiveStep DEF LinkNext

LinkInv == QueuesOK /\ FilesInv

LEMMA LinkInvInit == LinkInit => LinkInv /\ DirsOwned
<1> SUFFICES ASSUME LinkInit PROVE LinkInv /\ DirsOwned
  OBVIOUS
<1>1. procs = <<>> /\ files = {} /\ dirs = {} /\ ~misused /\ DOMAIN procs = {}
  BY DEF LinkInit, RifsInit
<1>2. <<>> \in Seq(Process) /\ <<>> \in Seq(Piece)
  BY EmptySeq
<1>3. QueuesOK
  BY <1>2 DEF LinkInit, QueuesOK, QueuesMatch
<1>4. FilesInv
  BY <1>1, <1>2 DEF FilesInv, RifsTypeOK, SlotsOK, FilesOwned, HeldFiles
<1>5. DirsOwned
  BY <1>1 DEF DirsOwned, HeldDirs, NeverMisused
<1>6. QED  BY <1>3, <1>4, <1>5 DEF LinkInv

LEMMA LinkInvStep ==
  ASSUME LinkInv, [LinkNext]_serverVars
  PROVE  LinkInv' /\ (DirsOwned /\ ~Launch => DirsOwned')
<1>1. QueuesOK' /\ ServerStep /\ sent[1] \in Pids
  BY LinkStep DEF LinkInv, QueuesOK
<1>2. ASSUME UNCHANGED rifsVars PROVE FilesInv' /\ (DirsOwned => DirsOwned')
  BY <1>2 DEF rifsVars, LinkInv, FilesInv, RifsTypeOK, SlotsOK, FilesOwned, HeldFiles,
              DirsOwned, HeldDirs, NeverMisused
<1>3. ASSUME NEW p, Request(sent[1], p)
      PROVE  FilesInv' /\ (DirsOwned /\ ~Launch => DirsOwned')
  <2>1. FilesInv /\ FileEffect(sent[1], p)
    BY <1>3 DEF Request, LinkInv
  <2>2. DirsOwned /\ ~Launch => SearchEffect(sent[1], p)
    BY <1>3 DEF Request
  <2>3. QED  BY <1>1, <2>1, <2>2, FileEffectPreserves, SearchEffectPreserves
<1>4. FilesInv' /\ (DirsOwned /\ ~Launch => DirsOwned')
  BY <1>1, <1>2, <1>3, ServeEffect, DestroyPreserves DEF ServerStep, LinkInv
<1>5. QED  BY <1>1, <1>4 DEF LinkInv

\* Slots, queues and what the redirector does stay within their types.
THEOREM LinkTypes == LinkSpec => []LinkTypeOK
<1>1. LinkInv => LinkTypeOK
  BY DEF LinkInv, QueuesOK, FilesInv, LinkTypeOK
<1>2. QED  BY <1>1, LinkInvInit, LinkInvStep, PTL DEF LinkSpec

\* The redirector gets the whole answer to the request it made, whatever the requests
\* and wherever the machine is reset; launching programs makes no difference.
THEOREM AnswersAreMatched == LinkSpec => []AnswersMatch
<1>1. LinkInv => AnswersMatch
  BY DEF LinkInv, QueuesOK, QueuesMatch, AnswersMatch
<1>2. QED  BY <1>1, LinkInvInit, LinkInvStep, PTL DEF LinkSpec

LEMMA OwnedEquivalent == FilesInv /\ DirsOwned => HandlesOwned
<1> SUFFICES ASSUME FilesInv, DirsOwned PROVE HandlesOwned
  OBVIOUS
<1>1. ASSUME NEW i \in DOMAIN procs, NEW j \in DOMAIN procs,
             NEW m \in DOMAIN procs[i].files, NEW n \in DOMAIN procs[j].files,
             procs[i].files[m] = procs[j].files[n], procs[i].files[m] # Nil
      PROVE  i = j /\ m = n
  <2>1. procs[i].files[m] \in Held(procs[i].files) \cap Held(procs[j].files)
    BY <1>1 DEF Held
  <2>2. i = j
    BY <2>1 DEF FilesInv, FilesOwned
  <2>3. QED  BY <1>1, <2>2 DEF FilesInv, FilesOwned, NoDup
<1>2. ASSUME NEW i \in DOMAIN procs, NEW j \in DOMAIN procs,
             procs[i].dir = procs[j].dir, procs[i].dir # Nil
      PROVE  i = j
  <2>1. procs[i].dir \in SearchOf(procs[i]) \cap SearchOf(procs[j])
    BY <1>2 DEF SearchOf
  <2>2. QED  BY <2>1 DEF DirsOwned
<1>3. \A i \in Inactive : procs[i].files = <<>> /\ procs[i].dir = Nil
  BY DEF Inactive, FilesInv, FilesOwned, DirsOwned
<1>4. HeldFiles = files /\ HeldDirs = dirs /\ NeverMisused
  BY DEF FilesInv, FilesOwned, DirsOwned
<1>5. QED  BY <1>1, <1>2, <1>3, <1>4 DEF HandlesOwned

\* If no program is launched, the slots hold exactly the host files and directories that
\* are open, each once, and the server never uses a closed one.
THEOREM HandlesAreOwned ==
  ASSUME ~Launch
  PROVE  LinkSpec => []HandlesOwned
<1>1. LinkInv /\ DirsOwned /\ [LinkNext]_serverVars => LinkInv' /\ DirsOwned'
  BY LinkInvStep
<1>2. LinkInv /\ DirsOwned => HandlesOwned
  BY OwnedEquivalent DEF LinkInv
<1>3. QED  BY <1>1, <1>2, LinkInvInit, PTL DEF LinkSpec

\* A launched program leaves the search of its process dangling, but not one of its
\* files: the slots' files are the open ones in any case.
THEOREM FilesAreOwned == LinkSpec => []FilesOwned
<1>1. LinkInv => FilesOwned
  BY DEF LinkInv, FilesInv
<1>2. QED  BY <1>1, LinkInvInit, LinkInvStep, PTL DEF LinkSpec
-----------------------------------------------------------------------------
(* The slots implement a table per process.                                *)

LEMMA TableOfView ==
  ASSUME FilesInv, NEW id \in Pids
  PROVE  /\ TableOf(id) = View(IF Mine(id) # {} THEN procs[Min(Mine(id))].files ELSE <<>>)
         /\ TableOf(id) = View(GetProcess(id).files)
<1> DEFINE fs == IF Mine(id) # {} THEN procs[Min(Mine(id))].files ELSE <<>>
<1>1. TableOf(id) = View(fs)
  BY DEF TableOf, View
<1>2. RifsTypeOK
  BY DEF FilesInv
<1>3. /\ Mine(id) # {} => Slot(id) \in Mine(id)
      /\ Mine(id) = {} /\ Slot(id) \in DOMAIN procs => ~procs[Slot(id)].active
      /\ Mine(id) # {} => Slot(id) = Min(Mine(id))
  BY <1>2, SlotProperties DEF Slot
<1>4. /\ Slot(id) \in DOMAIN procs => GetProcess(id).files = procs[Slot(id)].files
      /\ Slot(id) \notin DOMAIN procs => GetProcess(id).files = <<>>
  BY <1>2, GetProcessProperties
<1>5. GetProcess(id).files = fs
  <2>1. CASE Mine(id) # {}
    BY <1>3, <1>4, <2>1 DEF Mine
  <2>2. CASE Mine(id) = {} /\ Slot(id) \in DOMAIN procs
    BY <1>3, <1>4, <2>2 DEF FilesInv, FilesOwned
  <2>3. CASE Mine(id) = {} /\ Slot(id) \notin DOMAIN procs
    BY <1>4, <2>3
  <2>4. QED  BY <2>1, <2>2, <2>3
<1>6. QED  BY <1>1, <1>5

\* A request changes the table of its process only.
LEMMA TablesAfter ==
  ASSUME FilesInv, NEW id \in Pids, NEW p, FileEffect(id, p)
  PROVE  /\ TableOf(id)' = View(p.files)
         /\ \A c \in Pids \ {id} : TableOf(c)' = TableOf(c)
<1> DEFINE s == Slot(id)
<1>1. p \in Process /\ Put(id, p) /\ p.id = id /\ (~p.active => p.files = <<>>) /\ RifsTypeOK
  BY DEF FileEffect, FilesInv
<1>2. /\ DOMAIN procs' = DOMAIN procs \cup {s}
      /\ procs'[s] = p
      /\ \A i \in DOMAIN procs : i # s => procs'[i] = procs[i]
  BY <1>1, PutProperties
<1>3. /\ Mine(id) # {} => s \in Mine(id)
      /\ Mine(id) = {} /\ s \in DOMAIN procs => ~procs[s].active
  BY <1>1, SlotProperties
<1>4. s \in Nat /\ Mine(id) \subseteq {s}
  <2>1. s \in Nat
    BY <1>1, SlotProperties
  <2>2. QED  BY <1>3, <2>1 DEF Mine, FilesInv, SlotsOK
<1> HIDE DEF s
<1>5. ASSUME NEW c \in Pids \ {id} PROVE TableOf(c)' = TableOf(c)
  <2>1. s \notin Mine(c)
    BY <1>3, <1>5 DEF Mine
  <2>2. Mine(c)' = {i \in DOMAIN procs' : procs'[i].active /\ procs'[i].id = c}
    BY DEF Mine
  <2>3. Mine(c)' = Mine(c)
    BY <1>1, <1>2, <1>5, <2>1, <2>2 DEF Mine
  <2>4. Mine(c) \in SUBSET Nat
    <3>1. DOMAIN procs \subseteq Nat
      BY <1>1, SlotProperties
    <3>2. QED  BY <3>1 DEF Mine
  <2>5. \A i \in Mine(c) : procs'[i] = procs[i]
    BY <1>2, <2>1 DEF Mine
  <2>6. CASE Mine(c) # {}
    <3>1. Min(Mine(c)) \in Mine(c)
      BY <2>4, <2>6, MinExists
    <3>2. QED  BY <2>3, <2>5, <2>6, <3>1 DEF TableOf
  <2>7. CASE Mine(c) = {}
    BY <2>3, <2>7 DEF TableOf
  <2>8. QED  BY <2>6, <2>7
<1>6. TableOf(id)' = View(p.files)
  <2>1. FilesInv'
    BY FileEffectPreserves
  <2>2. Mine(id)' = {i \in DOMAIN procs' : procs'[i].active /\ procs'[i].id = id}
    BY DEF Mine
  <2>3. Mine(id)' = IF p.active THEN {s} ELSE {}
    <3>1. \A i \in DOMAIN procs : i # s => ~(procs[i].active /\ procs[i].id = id)
      BY <1>4 DEF Mine
    <3>2. QED  BY <1>1, <1>2, <2>2, <3>1
  <2>4. TableOf(id)'
          = View(IF Mine(id)' # {} THEN procs'[Min(Mine(id)')].files ELSE <<>>)
    BY DEF TableOf, View
  <2>5. CASE p.active
    <3>1. Mine(id)' = {s} /\ Mine(id)' \in SUBSET Nat
      BY <1>4, <2>3, <2>5
    <3>2. Min({s}) \in {s}
      BY <1>4, MinExists
    <3>3. QED  BY <1>2, <2>4, <3>1, <3>2
  <2>6. CASE ~p.active
    BY <1>1, <2>3, <2>4, <2>6
  <2>7. QED  BY <2>5, <2>6
<1>7. QED  BY <1>5, <1>6

TablesNow == [id \in Pids |-> TableOf(id)]

LEMMA RequestRefines ==
  ASSUME FilesInv, NEW id \in Pids, NEW p, Request(id, p), sent[1] = id, sent' = sent
  PROVE  [Tables!Next]_(Tables!vars)
<1> DEFINE t == TablesNow
           fs == View(GetProcess(id).files)
           gs == View(p.files)
<1>1. FileEffect(id, p) /\ TableChange(GetProcess(id).files, p.files)
  BY DEF Request
<1>2. t[id] = fs
  BY TableOfView DEF TablesNow
<1>3. t' = [t EXCEPT ![id] = gs]
  BY <1>1, TablesAfter DEF TablesNow
<1>4. Tables!Number = 1..MaxFiles
  BY DEF Tables!Number
<1>5. sent[1]' = sent[1]
  OBVIOUS
<1>6. t = [c \in Pids |-> TableOf(c)] /\ t' = [c \in Pids |-> TableOf(c)']
  BY DEF TablesNow
<1> HIDE DEF t, fs, gs
<1>7. CASE gs = fs /\ files' = files
  <2>1. t' = t
    BY <1>2, <1>3, <1>6, <1>7
  <2>2. QED  BY <1>5, <1>6, <1>7, <2>1 DEF Tables!vars
<1>8. ASSUME NEW n \in 1..MaxFiles, NEW h \in Handles \ files, fs[n] = Nil,
             gs = [fs EXCEPT ![n] = h], files' = files \cup {h}
      PROVE  Tables!Opens(n)
  <2>1. t' = [t EXCEPT ![id][n] = h]
    BY <1>2, <1>3, <1>6, <1>8
  <2>2. QED  BY <1>2, <1>5, <1>6, <1>8, <2>1 DEF Tables!Opens
<1>9. ASSUME NEW n \in 1..MaxFiles, fs[n] # Nil,
             gs = [fs EXCEPT ![n] = Nil], files' = files \ {fs[n]}
      PROVE  Tables!Closes(n)
  <2>1. t' = [t EXCEPT ![id][n] = Nil]
    BY <1>2, <1>3, <1>6, <1>9
  <2>2. QED  BY <1>2, <1>5, <1>6, <1>9, <2>1 DEF Tables!Closes
<1>10. ASSUME gs = [n \in 1..MaxFiles |-> Nil], files' = files \ {fs[n] : n \in 1..MaxFiles}
       PROVE  Tables!ClosesAll
  <2>1. t' = [t EXCEPT ![id] = [n \in Tables!Number |-> Nil]]
    BY <1>3, <1>4, <1>10
  <2>2. files' = files \ {t[id][n] : n \in Tables!Number}
    BY <1>2, <1>4, <1>10
  <2>3. QED  BY <1>5, <1>6, <2>1, <2>2 DEF Tables!ClosesAll
<1>11. QED
  BY <1>1, <1>4, <1>7, <1>8, <1>9, <1>10 DEF TableChange, fs, gs, Tables!Next

LEMMA TablesStep ==
  ASSUME LinkInv, [LinkNext]_serverVars
  PROVE  [Tables!Next]_(Tables!vars)
<1>1. ServerStep /\ FilesInv /\ sent[1] \in Pids
  BY LinkStep DEF LinkInv, QueuesOK
<1>2. CASE UNCHANGED rifsVars /\ sent' \in Pids \X {0, 1}
  <2>1. procs' = procs /\ files' = files /\ sent'[1] \in Pids
    BY <1>2 DEF rifsVars
  <2>2. \A id \in Pids : TableOf(id)' = TableOf(id)
    BY <2>1 DEF TableOf, Mine
  <2>3. Tables!Asks(sent'[1])
    BY <2>1, <2>2 DEF Tables!Asks
  <2>4. QED  BY <2>1, <2>3 DEF Tables!Next
<1>3. CASE Destroy /\ UNCHANGED sent
  <2>1. procs' = <<>> /\ files' = {}
    BY <1>1, <1>3, DestroyPreserves
  <2>2. \A id \in Pids : TableOf(id)' = [n \in 1..MaxFiles |-> Nil]
    <3>1. TAKE id \in Pids
    <3>2. Mine(id)' = {} /\ DOMAIN <<>> = {}
      BY <2>1 DEF Mine
    <3>3. QED  BY <3>2 DEF TableOf
  <2>3. Tables!TakenDown
    BY <1>3, <2>1, <2>2 DEF Tables!TakenDown, Tables!Number
  <2>4. QED  BY <2>3 DEF Tables!Next
<1>4. ASSUME Serve(sent[1]), UNCHANGED sent PROVE [Tables!Next]_(Tables!vars)
  <2>1. CASE UNCHANGED rifsVars
    <3>1. \A id \in Pids : TableOf(id)' = TableOf(id)
      BY <2>1 DEF rifsVars, TableOf, Mine
    <3>2. QED  BY <1>4, <2>1, <3>1 DEF rifsVars, Tables!vars
  <2>2. QED  BY <1>1, <1>4, <2>1, ServeEffect, RequestRefines
<1>5. QED  BY <1>1, <1>2, <1>3, <1>4 DEF ServerStep

\* Whatever slots are reused and in whichever order the processes make their requests,
\* each process has a table of its own that only its own requests change.
THEOREM SlotsImplementTables == LinkSpec => TablesSpec
<1>1. LinkInit => Tables!Init
  <2> SUFFICES ASSUME LinkInit PROVE Tables!Init
    OBVIOUS
  <2>1. procs = <<>> /\ files = {} /\ sent[1] \in Pids
    BY DEF LinkInit, RifsInit
  <2>2. \A id \in Pids : TableOf(id) = [n \in 1..MaxFiles |-> Nil]
    <3>1. TAKE id \in Pids
    <3>2. Mine(id) = {} /\ DOMAIN <<>> = {}
      BY <2>1 DEF Mine
    <3>3. QED  BY <3>2 DEF TableOf
  <2>3. QED  BY <2>1, <2>2 DEF Tables!Init, Tables!Number
<1>2. LinkInv /\ [LinkNext]_serverVars => [Tables!Next]_(Tables!vars)
  BY TablesStep
<1>3. QED
  BY <1>1, <1>2, LinkInvInit, LinkInvStep, PTL DEF LinkSpec, TablesSpec, Tables!Spec
=============================================================================
