------------------------------ MODULE GdbProofs ------------------------------
(***************************************************************************)
(* Theorems about the debugger stub and its client, for any requests,      *)
(* values and places.                                                      *)
(*                                                                         *)
(* Both streams are described by what they hold, from which the places of  *)
(* stub and client follow: a packet's body is behind its "$", at most one  *)
(* request is on its way, in front of it is something the stub may take    *)
(* for the acknowledgement it waits for, and what the client has not read  *)
(* yet is the end of what its request is answered with.                    *)
(***************************************************************************)
EXTENDS GdbStub, SequenceTheorems, TLAPS
-----------------------------------------------------------------------------
(* Sequences. *)

LEMMA TailFacts ==
  ASSUME NEW S, NEW s \in Seq(S), s # <<>>
  PROVE  /\ Tail(s) \in Seq(S) /\ Len(Tail(s)) = Len(s) - 1
         /\ Len(s) \in Nat \ {0} /\ Head(s) = s[1] /\ Head(s) \in S
         /\ \A i \in 1..(Len(s) - 1) : Tail(s)[i] = s[i + 1]
<1>1. Len(s) \in Nat /\ Len(s) # 0
  OBVIOUS
<1>2. QED  BY <1>1, HeadTailProperties

LEMMA PutFacts ==
  ASSUME NEW S, NEW s \in Seq(S), NEW t \in S
  PROVE  /\ s \o <<t>> \in Seq(S) /\ Len(s \o <<t>>) = Len(s) + 1 /\ Len(s) \in Nat
         /\ \A i \in 1..Len(s) : (s \o <<t>>)[i] = s[i]
         /\ (s \o <<t>>)[Len(s) + 1] = t
<1>1. s \o <<t>> = Append(s, t)
  BY AppendIsConcat
<1>2. QED  BY <1>1, AppendProperties

LEMMA PutTwoFacts ==
  ASSUME NEW S, NEW s \in Seq(S), NEW t \in S, NEW u \in S
  PROVE  s \o <<t, u>> = (s \o <<t>>) \o <<u>>
<1>1. <<t, u>> \in Seq(S) /\ Len(<<t, u>>) = 2 /\ <<t, u>>[1] = t /\ <<t, u>>[2] = u
  OBVIOUS
<1>2. /\ s \o <<t, u>> \in Seq(S) /\ Len(s \o <<t, u>>) = Len(s) + 2
      /\ \A i \in 1..Len(s) + 2 :
           (s \o <<t, u>>)[i] = IF i <= Len(s) THEN s[i] ELSE <<t, u>>[i - Len(s)]
  BY <1>1, ConcatProperties
<1>3. /\ (s \o <<t>>) \o <<u>> \in Seq(S) /\ Len((s \o <<t>>) \o <<u>>) = Len(s) + 2
      /\ \A i \in 1..Len(s) : ((s \o <<t>>) \o <<u>>)[i] = s[i]
      /\ ((s \o <<t>>) \o <<u>>)[Len(s) + 1] = t
      /\ ((s \o <<t>>) \o <<u>>)[Len(s) + 2] = u
  <2>1. /\ s \o <<t>> \in Seq(S) /\ Len(s \o <<t>>) = Len(s) + 1 /\ Len(s) \in Nat
        /\ \A i \in 1..Len(s) : (s \o <<t>>)[i] = s[i]
        /\ (s \o <<t>>)[Len(s) + 1] = t
    BY PutFacts
  <2> DEFINE r == s \o <<t>>
  <2> HIDE DEF r
  <2>2. /\ r \in Seq(S) /\ Len(r) = Len(s) + 1 /\ Len(s) \in Nat
        /\ \A i \in 1..Len(s) : r[i] = s[i]
        /\ r[Len(s) + 1] = t
    BY <2>1 DEF r
  <2>3. /\ r \o <<u>> \in Seq(S) /\ Len(r \o <<u>>) = Len(r) + 1
        /\ \A i \in 1..Len(r) : (r \o <<u>>)[i] = r[i]
        /\ (r \o <<u>>)[Len(r) + 1] = u
    BY <2>2, PutFacts
  <2>4. QED  BY <2>2, <2>3 DEF r
<1>4. Len(s) \in Nat
  OBVIOUS
<1>5. ASSUME NEW i \in 1..Len(s) + 2
      PROVE  (s \o <<t, u>>)[i] = ((s \o <<t>>) \o <<u>>)[i]
  <2>1. CASE i <= Len(s)
    BY <1>2, <1>3, <1>4, <2>1
  <2>2. CASE i = Len(s) + 1
    BY <1>1, <1>2, <1>3, <1>4, <2>2
  <2>3. CASE i = Len(s) + 2
    BY <1>1, <1>2, <1>3, <1>4, <2>3
  <2>4. QED  BY <1>4, <2>1, <2>2, <2>3
<1>6. QED  BY <1>2, <1>3, <1>5, SeqEqual

LEMMA TwoBytes == ASSUME NEW a, NEW b PROVE <<a>> \o <<b>> = <<a, b>>
<1> DEFINE S == {a, b}
<1>1. <<a>> \in Seq(S) /\ <<b>> \in Seq(S) /\ <<a, b>> \in Seq(S) /\ b \in S
      /\ Len(<<a>>) = 1 /\ <<a>>[1] = a
      /\ Len(<<a, b>>) = 2 /\ <<a, b>>[1] = a /\ <<a, b>>[2] = b
  OBVIOUS
<1> HIDE DEF S
<1> DEFINE r == <<a>> \o <<b>>
<1>2. r \in Seq(S) /\ Len(r) = 2 /\ r[1] = a /\ r[2] = b
  BY <1>1, PutFacts
<1> HIDE DEF r
<1>3. \A i \in 1..Len(r) : r[i] = <<a, b>>[i]
  BY <1>1, <1>2
<1>4. r = <<a, b>>
  BY <1>1, <1>2, <1>3, SeqEqual
<1>5. QED  BY <1>4 DEF r

\* A byte in front of a stream.
LEMMA FrontFacts ==
  ASSUME NEW S, NEW s \in Seq(S), NEW t \in S
  PROVE  /\ <<t>> \o s \in Seq(S) /\ Len(<<t>> \o s) = Len(s) + 1 /\ Len(s) \in Nat
         /\ (<<t>> \o s)[1] = t
         /\ \A i \in 1..Len(s) : (<<t>> \o s)[i + 1] = s[i]
<1>1. <<t>> \in Seq(S) /\ Len(<<t>>) = 1 /\ <<t>>[1] = t /\ Len(s) \in Nat
  OBVIOUS
<1>2. /\ <<t>> \o s \in Seq(S) /\ Len(<<t>> \o s) = 1 + Len(s)
      /\ \A i \in 1..1 + Len(s) :
           (<<t>> \o s)[i] = IF i <= 1 THEN <<t>>[1] ELSE s[i - 1]
  BY <1>1, ConcatProperties
<1>3. ASSUME NEW i \in 1..Len(s) PROVE (<<t>> \o s)[i + 1] = s[i]
  <2>1. i + 1 \in 1..1 + Len(s) /\ ~(i + 1 <= 1) /\ (i + 1) - 1 = i
    BY <1>1
  <2>2. QED  BY <1>2, <2>1
<1>4. QED  BY <1>1, <1>2, <1>3

\* What is left of a stream when its end is lost, and the end of the connection.
LEMMA CutFacts ==
  ASSUME NEW S, NEW s \in Seq(S), NEW n \in 0..Len(s), NEW t \in S
  PROVE  /\ Append(SubSeq(s, 1, n), t) \in Seq(S)
         /\ Len(Append(SubSeq(s, 1, n), t)) = n + 1
         /\ \A i \in 1..n : Append(SubSeq(s, 1, n), t)[i] = s[i]
         /\ Append(SubSeq(s, 1, n), t)[n + 1] = t
         /\ n \in Nat /\ n <= Len(s) /\ Len(s) \in Nat
<1> DEFINE r == SubSeq(s, 1, n)
<1>1. n \in Nat /\ n <= Len(s) /\ Len(s) \in Nat
  OBVIOUS
<1>2. \A i \in 1..n : s[i] \in S
  BY <1>1
<1>3. r \in Seq(S) /\ Len(r) = n /\ \A i \in 1..n : r[i] = s[i]
  <2>1. /\ SubSeq(s, 1, n) \in Seq(S)
        /\ Len(SubSeq(s, 1, n)) = IF 1 <= n THEN n - 1 + 1 ELSE 0
        /\ \A i \in 1..n - 1 + 1 : SubSeq(s, 1, n)[i] = s[1 + i - 1]
    BY <1>1, <1>2, SubSeqProperties
  <2>2. \A i \in 1..n : i \in 1..n - 1 + 1 /\ 1 + i - 1 = i
    BY <1>1
  <2>3. (IF 1 <= n THEN n - 1 + 1 ELSE 0) = n
    BY <1>1
  <2>4. QED  BY <2>1, <2>2, <2>3
<1> HIDE DEF r
<1>4. /\ Append(r, t) \in Seq(S) /\ Len(Append(r, t)) = n + 1
      /\ \A i \in 1..n : Append(r, t)[i] = r[i]
      /\ Append(r, t)[n + 1] = t
  BY <1>3, AppendProperties
<1>5. QED  BY <1>1, <1>3, <1>4 DEF r
-----------------------------------------------------------------------------
(* What the stub's stream may hold. *)

Noise == {"+", "^C"}

\* A packet's body is behind its "$", or was lost with the end of the connection.
Paired(s) ==
  \A i \in 1..Len(s) : s[i].kind = "$" => i < Len(s) /\ s[i + 1].kind \in {"body", "eof"}

\* No request; one behind others' noise; one of which the body is to be read; the end.
Quiet(s) == \A i \in 1..Len(s) : s[i].kind \in Noise
AskedAt(s, b, n) ==
  /\ n + 1 <= Len(s) /\ s[n].kind = "$" /\ s[n + 1] = b
  /\ \A i \in 1..Len(s) : i # n /\ i # n + 1 => s[i].kind \in Noise
Asked(s, b) == \E n \in Nat \ {0} : AskedAt(s, b, n)
AtBody(s, b) == s # <<>> /\ s[1] = b /\ \A i \in 2..Len(s) : s[i].kind \in Noise
Endless(s) == \A i \in 1..Len(s) : s[i].kind # "eof"
Ended(s) ==
  /\ s # <<>> /\ s[Len(s)].kind = "eof"
  /\ \A i \in 1..(Len(s) - 1) : s[i].kind # "eof"

LEMMA PairedTail ==
  ASSUME NEW S, NEW s \in Seq(S), s # <<>>, Paired(s)
  PROVE  /\ Paired(Tail(s))
         /\ s[1].kind = "$" => Tail(s) # <<>> /\ Tail(s)[1].kind \in {"body", "eof"}
<1> DEFINE r == Tail(s)
<1>1. /\ r \in Seq(S) /\ Len(r) = Len(s) - 1 /\ Len(s) \in Nat \ {0}
      /\ \A i \in 1..(Len(s) - 1) : r[i] = s[i + 1]
  BY TailFacts
<1> HIDE DEF r
<1>2. Paired(r)
  <2> SUFFICES ASSUME NEW i \in 1..Len(r), r[i].kind = "$"
               PROVE  i < Len(r) /\ r[i + 1].kind \in {"body", "eof"}
    BY DEF Paired
  <2>1. i + 1 \in 1..Len(s) /\ s[i + 1].kind = "$"
    BY <1>1
  <2>2. i + 1 < Len(s) /\ s[(i + 1) + 1].kind \in {"body", "eof"}
    BY <2>1 DEF Paired
  <2>3. i + 1 \in 1..(Len(s) - 1) /\ i < Len(r)
    BY <1>1, <2>1, <2>2
  <2>4. QED  BY <1>1, <2>2, <2>3
<1>3. ASSUME s[1].kind = "$" PROVE r # <<>> /\ r[1].kind \in {"body", "eof"}
  <2>1. 1 < Len(s) /\ s[1 + 1].kind \in {"body", "eof"}
    BY <1>1, <1>3 DEF Paired
  <2>2. 1 \in 1..(Len(s) - 1) /\ Len(r) # 0
    BY <1>1, <2>1
  <2>3. QED  BY <1>1, <2>1, <2>2
<1>4. QED  BY <1>2, <1>3 DEF r

LEMMA PairedPut ==
  ASSUME NEW S, NEW s \in Seq(S), Paired(s), NEW t \in S, t.kind # "$"
  PROVE  Paired(s \o <<t>>)
<1> DEFINE r == s \o <<t>>
<1>1. /\ r \in Seq(S) /\ Len(r) = Len(s) + 1 /\ Len(s) \in Nat
      /\ \A i \in 1..Len(s) : r[i] = s[i]
      /\ r[Len(s) + 1] = t
  BY PutFacts
<1> HIDE DEF r
<1>2. ASSUME NEW i \in 1..Len(r), r[i].kind = "$"
      PROVE  i < Len(r) /\ r[i + 1].kind \in {"body", "eof"}
  <2>1. i \in 1..Len(s) /\ s[i].kind = "$"
    BY <1>1, <1>2
  <2>2. i < Len(s) /\ s[i + 1].kind \in {"body", "eof"}
    BY <2>1 DEF Paired
  <2>3. i + 1 \in 1..Len(s)
    BY <1>1, <2>1, <2>2
  <2>4. QED  BY <1>1, <2>2, <2>3
<1>3. QED  BY <1>2 DEF Paired, r

LEMMA PairedRequest ==
  ASSUME NEW S, NEW s \in Seq(S), Paired(s), NEW d \in S, NEW b \in S, b.kind = "body"
  PROVE  Paired(s \o <<d, b>>)
<1> DEFINE q == s \o <<d>>
<1>1. /\ q \in Seq(S) /\ Len(q) = Len(s) + 1 /\ Len(s) \in Nat
      /\ \A i \in 1..Len(s) : q[i] = s[i]
      /\ q[Len(s) + 1] = d
  BY PutFacts
<1> HIDE DEF q
<1> DEFINE r == q \o <<b>>
<1>2. /\ r \in Seq(S) /\ Len(r) = Len(q) + 1
      /\ \A i \in 1..Len(q) : r[i] = q[i]
      /\ r[Len(q) + 1] = b
  BY <1>1, PutFacts
<1> HIDE DEF r
<1>3. ASSUME NEW i \in 1..Len(r), r[i].kind = "$"
      PROVE  i < Len(r) /\ r[i + 1].kind \in {"body", "eof"}
  <2>1. CASE i \in 1..Len(s)
    <3>1. s[i].kind = "$"
      BY <1>1, <1>2, <1>3, <2>1
    <3>2. i < Len(s) /\ s[i + 1].kind \in {"body", "eof"}
      BY <2>1, <3>1 DEF Paired
    <3>3. i + 1 \in 1..Len(s) /\ i + 1 \in 1..Len(q)
      BY <1>1, <2>1, <3>2
    <3>4. r[i + 1] = s[i + 1]
      BY <1>1, <1>2, <3>3
    <3>5. QED  BY <1>1, <1>2, <3>2, <3>4
  <2>2. CASE i = Len(s) + 1
    BY <1>1, <1>2, <2>2
  <2>3. CASE i = Len(s) + 2
    <3>1. r[i] = b
      BY <1>1, <1>2, <2>3
    <3>2. QED  BY <1>3, <3>1
  <2>4. QED  BY <1>1, <1>2, <2>1, <2>2, <2>3
<1>4. s \o <<d, b>> = r
  BY PutTwoFacts DEF q, r
<1>5. QED  BY <1>3, <1>4 DEF Paired

LEMMA PairedFront ==
  ASSUME NEW S, NEW s \in Seq(S), Paired(s), NEW t \in S, t.kind # "$"
  PROVE  Paired(<<t>> \o s)
<1> DEFINE r == <<t>> \o s
<1>1. /\ r \in Seq(S) /\ Len(r) = Len(s) + 1 /\ Len(s) \in Nat /\ r[1] = t
      /\ \A i \in 1..Len(s) : r[i + 1] = s[i]
  BY FrontFacts
<1> HIDE DEF r
<1>2. ASSUME NEW i \in 1..Len(r), r[i].kind = "$"
      PROVE  i < Len(r) /\ r[i + 1].kind \in {"body", "eof"}
  <2>1. i # 1 /\ i - 1 \in 1..Len(s) /\ (i - 1) + 1 = i
    BY <1>1, <1>2
  <2>2. s[i - 1].kind = "$"
    BY <1>1, <1>2, <2>1
  <2>3. i - 1 < Len(s) /\ s[(i - 1) + 1].kind \in {"body", "eof"}
    BY <2>1, <2>2 DEF Paired
  <2>4. i \in 1..Len(s)
    BY <1>1, <2>1, <2>3
  <2>5. QED  BY <1>1, <2>1, <2>3, <2>4
<1>3. QED  BY <1>2 DEF Paired, r

LEMMA PairedCut ==
  ASSUME NEW S, NEW s \in Seq(S), Paired(s), NEW n \in 0..Len(s), NEW t \in S,
         t.kind = "eof"
  PROVE  Paired(Append(SubSeq(s, 1, n), t))
<1> DEFINE r == Append(SubSeq(s, 1, n), t)
<1>1. /\ r \in Seq(S) /\ Len(r) = n + 1 /\ \A i \in 1..n : r[i] = s[i]
      /\ r[n + 1] = t /\ n \in Nat /\ n <= Len(s) /\ Len(s) \in Nat
  BY CutFacts
<1> HIDE DEF r
<1>2. ASSUME NEW i \in 1..Len(r), r[i].kind = "$"
      PROVE  i < Len(r) /\ r[i + 1].kind \in {"body", "eof"}
  <2>1. i \in 1..n /\ i \in 1..Len(s) /\ s[i].kind = "$"
    BY <1>1, <1>2
  <2>2. i < Len(s) /\ s[i + 1].kind \in {"body", "eof"}
    BY <2>1 DEF Paired
  <2>3. CASE i = n
    BY <1>1, <2>3
  <2>4. CASE i # n
    <3>1. i + 1 \in 1..n
      BY <1>1, <2>1, <2>4
    <3>2. QED  BY <1>1, <2>1, <2>2, <3>1
  <2>5. QED  BY <2>3, <2>4
<1>3. QED  BY <1>2 DEF Paired, r

\* Noise is taken from a stream and put to its end; a request is put to the end.
LEMMA QuietTail ==
  ASSUME NEW S, NEW s \in Seq(S), s # <<>>, Quiet(s)
  PROVE  Quiet(Tail(s)) /\ s[1].kind \in Noise
<1> DEFINE r == Tail(s)
<1>1. /\ Len(r) = Len(s) - 1 /\ Len(s) \in Nat \ {0}
      /\ \A i \in 1..(Len(s) - 1) : r[i] = s[i + 1]
  BY TailFacts
<1> HIDE DEF r
<1>2. ASSUME NEW i \in 1..Len(r) PROVE r[i].kind \in Noise
  <2>1. i + 1 \in 1..Len(s) /\ r[i] = s[i + 1]
    BY <1>1
  <2>2. QED  BY <2>1 DEF Quiet
<1>3. 1 \in 1..Len(s)
  BY <1>1
<1>4. QED  BY <1>2, <1>3 DEF Quiet, r

LEMMA QuietPut ==
  ASSUME NEW S, NEW s \in Seq(S), Quiet(s), NEW t \in S, t.kind \in Noise
  PROVE  Quiet(s \o <<t>>)
<1> DEFINE r == s \o <<t>>
<1>1. /\ Len(r) = Len(s) + 1 /\ Len(s) \in Nat /\ r[Len(s) + 1] = t
      /\ \A i \in 1..Len(s) : r[i] = s[i]
  BY PutFacts
<1> HIDE DEF r
<1>2. ASSUME NEW i \in 1..Len(r) PROVE r[i].kind \in Noise
  <2>1. CASE i \in 1..Len(s)
    BY <1>1, <2>1 DEF Quiet
  <2>2. CASE i = Len(s) + 1
    BY <1>1, <2>2
  <2>3. QED  BY <1>1, <2>1, <2>2
<1>3. QED  BY <1>2 DEF Quiet, r

LEMMA AskedPutRequest ==
  ASSUME NEW S, NEW s \in Seq(S), Quiet(s), NEW d \in S, NEW b \in S, d.kind = "$"
  PROVE  Asked(s \o <<d, b>>, b)
<1> DEFINE q == s \o <<d>>
<1>1. /\ q \in Seq(S) /\ Len(q) = Len(s) + 1 /\ Len(s) \in Nat
      /\ \A i \in 1..Len(s) : q[i] = s[i]
      /\ q[Len(s) + 1] = d
  BY PutFacts
<1> HIDE DEF q
<1> DEFINE r == q \o <<b>>
<1>2. /\ r \in Seq(S) /\ Len(r) = Len(q) + 1
      /\ \A i \in 1..Len(q) : r[i] = q[i]
      /\ r[Len(q) + 1] = b
  BY <1>1, PutFacts
<1> HIDE DEF r
<1> DEFINE n == Len(s) + 1
<1>3. /\ n \in Nat \ {0} /\ n + 1 <= Len(r) /\ r[n].kind = "$" /\ r[n + 1] = b
  BY <1>1, <1>2
<1>4. ASSUME NEW i \in 1..Len(r), i # n, i # n + 1 PROVE r[i].kind \in Noise
  <2>1. i \in 1..Len(s)
    BY <1>1, <1>2, <1>4
  <2>2. r[i] = s[i]
    BY <1>1, <1>2, <2>1
  <2>3. QED  BY <2>1, <2>2 DEF Quiet
<1> HIDE DEF n
<1>5. AskedAt(r, b, n)
  BY <1>3, <1>4 DEF AskedAt
<1>6. s \o <<d, b>> = r
  BY PutTwoFacts DEF q, r
<1>7. QED  BY <1>3, <1>5, <1>6 DEF Asked

LEMMA AskedPut ==
  ASSUME NEW S, NEW s \in Seq(S), NEW b, Asked(s, b), NEW t \in S, t.kind \in Noise
  PROVE  Asked(s \o <<t>>, b)
<1> DEFINE r == s \o <<t>>
<1>1. /\ Len(r) = Len(s) + 1 /\ Len(s) \in Nat /\ r[Len(s) + 1] = t
      /\ \A i \in 1..Len(s) : r[i] = s[i]
  BY PutFacts
<1> HIDE DEF r
<1>2. PICK n \in Nat \ {0} : AskedAt(s, b, n)
  BY DEF Asked
<1>3. n \in 1..Len(s) /\ n + 1 \in 1..Len(s) /\ s[n].kind = "$" /\ s[n + 1] = b
  BY <1>1, <1>2 DEF AskedAt
<1>4. ASSUME NEW i \in 1..Len(r), i # n, i # n + 1 PROVE r[i].kind \in Noise
  <2>1. CASE i \in 1..Len(s)
    BY <1>1, <1>2, <1>4, <2>1 DEF AskedAt
  <2>2. CASE i = Len(s) + 1
    BY <1>1, <2>2
  <2>3. QED  BY <1>1, <2>1, <2>2
<1>5. n + 1 <= Len(r) /\ r[n].kind = "$" /\ r[n + 1] = b
  BY <1>1, <1>3
<1>6. QED  BY <1>4, <1>5 DEF Asked, AskedAt, r

LEMMA AskedTail ==
  ASSUME NEW S, NEW s \in Seq(S), NEW b, Asked(s, b)
  PROVE  /\ s # <<>> /\ s[1].kind \in Noise \cup {"$"}
         /\ s[1].kind \in Noise => Asked(Tail(s), b)
         /\ s[1].kind = "$" => AtBody(Tail(s), b)
<1>0. PICK n \in Nat \ {0} : AskedAt(s, b, n)
  BY DEF Asked
<1>1. Len(s) \in Nat /\ n + 1 <= Len(s)
  BY <1>0 DEF AskedAt
<1>2. s # <<>> /\ Len(s) > 1 /\ 1 \in 1..Len(s) /\ n # 0 /\ n + 1 # 1
  BY <1>1
<1> DEFINE r == Tail(s)
<1>3. /\ Len(r) = Len(s) - 1 /\ r \in Seq(S)
      /\ \A i \in 1..(Len(s) - 1) : r[i] = s[i + 1]
  BY <1>2, TailFacts
<1> HIDE DEF r
<1>4. s[1].kind \in Noise \cup {"$"}
  BY <1>0, <1>2 DEF AskedAt
<1>5. ASSUME s[1].kind \in Noise PROVE Asked(r, b)
  <2>1. n # 1
    BY <1>0, <1>5 DEF AskedAt, Noise
  <2> DEFINE m == n - 1
  <2>2. m \in Nat \ {0} /\ m + 1 = n /\ m + 1 <= Len(r)
    BY <1>1, <1>3, <2>1
  <2>3. r[m].kind = "$" /\ r[m + 1] = b
    <3>1. m \in 1..(Len(s) - 1) /\ m + 1 \in 1..(Len(s) - 1)
      BY <1>1, <2>2
    <3>2. r[m] = s[n] /\ r[m + 1] = s[n + 1]
      BY <1>3, <2>2, <3>1
    <3>3. QED  BY <1>0, <3>2 DEF AskedAt
  <2>4. ASSUME NEW i \in 1..Len(r), i # m, i # m + 1 PROVE r[i].kind \in Noise
    <3>1. i + 1 \in 1..Len(s) /\ i + 1 # n /\ i + 1 # n + 1 /\ r[i] = s[i + 1]
      BY <1>1, <1>3, <2>2, <2>4
    <3>2. QED  BY <1>0, <3>1 DEF AskedAt
  <2> HIDE DEF m
  <2>5. QED  BY <2>2, <2>3, <2>4 DEF Asked, AskedAt
<1>6. ASSUME s[1].kind = "$" PROVE AtBody(r, b)
  <2>1. n = 1
    BY <1>0, <1>2, <1>6 DEF AskedAt, Noise
  <2>2. r # <<>> /\ r[1] = b
    <3>1. Len(r) # 0 /\ 1 \in 1..(Len(s) - 1)
      BY <1>1, <1>2, <1>3
    <3>2. QED  BY <1>0, <1>3, <2>1, <3>1 DEF AskedAt
  <2>3. ASSUME NEW i \in 2..Len(r) PROVE r[i].kind \in Noise
    <3>1. i + 1 \in 1..Len(s) /\ i + 1 # n /\ i + 1 # n + 1 /\ r[i] = s[i + 1]
      BY <1>1, <1>3, <2>1
    <3>2. QED  BY <1>0, <3>1 DEF AskedAt
  <2>4. QED  BY <2>2, <2>3 DEF AtBody
<1>7. QED  BY <1>2, <1>4, <1>5, <1>6 DEF r

LEMMA BodyPut ==
  ASSUME NEW S, NEW s \in Seq(S), NEW b, AtBody(s, b), NEW t \in S, t.kind \in Noise
  PROVE  AtBody(s \o <<t>>, b)
<1> DEFINE r == s \o <<t>>
<1>1. /\ Len(r) = Len(s) + 1 /\ Len(s) \in Nat /\ r[Len(s) + 1] = t
      /\ \A i \in 1..Len(s) : r[i] = s[i]
  BY PutFacts
<1>2. Len(s) # 0 /\ s[1] = b
  BY DEF AtBody
<1> HIDE DEF r
<1>3. ASSUME NEW i \in 2..Len(r) PROVE r[i].kind \in Noise
  <2>1. CASE i \in 2..Len(s)
    BY <1>1, <2>1 DEF AtBody
  <2>2. CASE i = Len(s) + 1
    BY <1>1, <2>2
  <2>3. QED  BY <1>1, <2>1, <2>2
<1>4. Len(r) # 0 /\ r[1] = b
  BY <1>1, <1>2
<1>5. QED  BY <1>3, <1>4 DEF AtBody, r

LEMMA BodyTail ==
  ASSUME NEW S, NEW s \in Seq(S), NEW b, AtBody(s, b)
  PROVE  s # <<>> /\ s[1] = b /\ Quiet(Tail(s))
<1> DEFINE r == Tail(s)
<1>1. s # <<>> /\ s[1] = b
  BY DEF AtBody
<1>2. /\ Len(r) = Len(s) - 1 /\ Len(s) \in Nat \ {0}
      /\ \A i \in 1..(Len(s) - 1) : r[i] = s[i + 1]
  BY <1>1, TailFacts
<1> HIDE DEF r
<1>3. ASSUME NEW i \in 1..Len(r) PROVE r[i].kind \in Noise
  <2>1. i + 1 \in 2..Len(s) /\ r[i] = s[i + 1]
    BY <1>2
  <2>2. QED  BY <2>1 DEF AtBody
<1>4. QED  BY <1>1, <1>3 DEF Quiet, r

\* The end of the connection is behind all else.
LEMMA NoEnd ==
  ASSUME NEW S, NEW s \in Seq(S), NEW b, b.kind = "body",
         Quiet(s) \/ Asked(s, b) \/ AtBody(s, b)
  PROVE  Endless(s)
<1>1. CASE Quiet(s)
  BY <1>1 DEF Quiet, Endless, Noise
<1>2. CASE Asked(s, b)
  <2>1. PICK n \in Nat \ {0} : AskedAt(s, b, n)
    BY <1>2 DEF Asked
  <2>2. QED  BY <2>1 DEF AskedAt, Endless, Noise
<1>3. CASE AtBody(s, b)
  <2>1. ASSUME NEW i \in 1..Len(s) PROVE s[i].kind # "eof"
    <3>1. i = 1 \/ i \in 2..Len(s)
      OBVIOUS
    <3>2. QED  BY <1>3, <3>1 DEF AtBody, Noise
  <2>2. QED  BY <2>1 DEF Endless
<1>4. QED  BY <1>1, <1>2, <1>3

LEMMA EndedTail ==
  ASSUME NEW S, NEW s \in Seq(S), Ended(s), s[1].kind # "eof"
  PROVE  Ended(Tail(s)) /\ \A t \in S : Ended(<<t>> \o Tail(s)) \/ t.kind = "eof"
<1> DEFINE r == Tail(s)
<1>1. /\ r \in Seq(S) /\ Len(r) = Len(s) - 1 /\ Len(s) \in Nat \ {0}
      /\ \A i \in 1..(Len(s) - 1) : r[i] = s[i + 1]
  BY TailFacts DEF Ended
<1> HIDE DEF r
<1>2. Len(s) # 1
  BY DEF Ended
<1>3. Len(r) \in Nat \ {0} /\ r # <<>>
  <2>1. Len(r) \in Nat \ {0}
    BY <1>1, <1>2
  <2>2. QED  BY <1>1, <2>1
<1>4. r[Len(r)].kind = "eof"
  BY <1>1, <1>2 DEF Ended
<1>5. ASSUME NEW i \in 1..(Len(r) - 1) PROVE r[i].kind # "eof"
  <2>1. i + 1 \in 1..(Len(s) - 1) /\ r[i] = s[i + 1]
    BY <1>1
  <2>2. QED  BY <2>1 DEF Ended
<1>6. ASSUME NEW t \in S, t.kind # "eof" PROVE Ended(<<t>> \o r)
  <2> DEFINE q == <<t>> \o r
  <2>1. /\ q \in Seq(S) /\ Len(q) = Len(r) + 1 /\ q[1] = t
        /\ \A i \in 1..Len(r) : q[i + 1] = r[i]
    BY <1>1, FrontFacts
  <2> HIDE DEF q
  <2>2. q # <<>> /\ q[Len(q)] = r[Len(r)]
    <3>1. Len(q) # 0 /\ Len(r) \in 1..Len(r)
      BY <1>3, <2>1
    <3>2. QED  BY <2>1, <3>1
  <2>3. ASSUME NEW i \in 1..(Len(q) - 1) PROVE q[i].kind # "eof"
    <3>1. CASE i = 1
      BY <1>6, <2>1, <3>1
    <3>2. CASE i # 1
      <4>1. i - 1 \in 1..(Len(r) - 1) /\ i - 1 \in 1..Len(r) /\ (i - 1) + 1 = i
        BY <1>3, <2>1, <3>2
      <4>2. q[i] = r[i - 1]
        BY <2>1, <4>1
      <4>3. QED  BY <1>5, <4>1, <4>2
    <3>3. QED  BY <3>1, <3>2
  <2>4. QED  BY <1>4, <2>2, <2>3 DEF Ended, q
<1>7. Ended(r)
  BY <1>3, <1>4, <1>5 DEF Ended
<1>8. QED  BY <1>6, <1>7 DEF r

LEMMA EndedCut ==
  ASSUME NEW S, NEW s \in Seq(S), Endless(s), NEW n \in 0..Len(s), NEW t \in S,
         t.kind = "eof"
  PROVE  Ended(Append(SubSeq(s, 1, n), t))
<1> DEFINE r == Append(SubSeq(s, 1, n), t)
<1>1. /\ r \in Seq(S) /\ Len(r) = n + 1 /\ \A i \in 1..n : r[i] = s[i]
      /\ r[n + 1] = t /\ n \in Nat /\ n <= Len(s) /\ Len(s) \in Nat
  BY CutFacts
<1> HIDE DEF r
<1>2. ASSUME NEW i \in 1..(Len(r) - 1) PROVE r[i].kind # "eof"
  <2>1. i \in 1..n /\ i \in 1..Len(s)
    BY <1>1
  <2>2. QED  BY <1>1, <2>1 DEF Endless
<1>3. Len(r) # 0 /\ r[Len(r)] = t
  BY <1>1
<1>4. QED  BY <1>2, <1>3 DEF Ended, r

LEMMA EndedPut ==
  ASSUME NEW S, NEW s \in Seq(S), Endless(s), NEW t \in S, t.kind = "eof"
  PROVE  Ended(s \o <<t>>)
<1> DEFINE r == s \o <<t>>
<1>1. /\ r \in Seq(S) /\ Len(r) = Len(s) + 1 /\ \A i \in 1..Len(s) : r[i] = s[i]
      /\ r[Len(s) + 1] = t /\ Len(s) \in Nat
  BY PutFacts
<1> HIDE DEF r
<1>2. ASSUME NEW i \in 1..(Len(r) - 1) PROVE r[i].kind # "eof"
  <2>1. i \in 1..Len(s)
    BY <1>1
  <2>2. QED  BY <1>1, <2>1 DEF Endless
<1>3. Len(r) # 0 /\ r[Len(r)] = t
  BY <1>1
<1>4. QED  BY <1>2, <1>3 DEF Ended, r
-----------------------------------------------------------------------------
(* Types: of the variables, and of what the streams hold. *)

Bytes    == {Token(k) : k \in {"+", "-", "^C", "$", "rest", "eof"}}
Bodies   == [kind : {"body"}, job : Requests, arg : Values, form : Forms]
Tokens   == Bytes \cup Bodies
Packets  == [kind : {"S", "data", "OK", "E00"}, value : Values]
FromStub == {Token("+"), Token("-")} \cup Packets

WireInv ==
  /\ toStub \in Seq(Tokens) /\ Paired(toStub) /\ toClient \in Seq(FromStub)
  /\ at = "body" => toStub # <<>> /\ toStub[1].kind \in {"body", "eof"}
Typed == GdbTypeOK /\ WireInv

LEMMA ByteFacts ==
  /\ \A k \in {"+", "-", "^C", "$", "rest", "eof"} : Token(k) \in Tokens /\ Token(k).kind = k
  /\ \A t \in Tokens : t.kind = "body" => t \in Bodies
  /\ \A t \in Bodies : t \in Tokens /\ t.kind = "body"
  /\ Token("+") \in FromStub /\ Token("-") \in FromStub
  /\ \A t \in FromStub : t.kind \notin {"+", "-"} => t \in Packets
  /\ \A t \in Packets : t \in FromStub /\ t.kind \notin {"+", "-"} /\ t.value \in Values
BY DEF Token, Bytes, Bodies, Tokens, Packets, FromStub

\* The first thing in a stream.
LEMMA FirstToken ==
  ASSUME WireInv, toStub # <<>>
  PROVE  /\ Head(toStub) = toStub[1] /\ toStub[1] \in Tokens
         /\ Tail(toStub) \in Seq(Tokens) /\ Paired(Tail(toStub))
         /\ First(toStub) = toStub[1].kind
<1>1. toStub \in Seq(Tokens) /\ Paired(toStub)
  BY DEF WireInv
<1>2. QED  BY <1>1, TailFacts, PairedTail DEF First

LEMMA FirstPacket ==
  ASSUME WireInv, toClient # <<>>
  PROVE  /\ Head(toClient) = toClient[1] /\ toClient[1] \in FromStub
         /\ Tail(toClient) \in Seq(FromStub) /\ First(toClient) = toClient[1].kind
<1>1. toClient \in Seq(FromStub)
  BY DEF WireInv
<1>2. QED  BY <1>1, TailFacts DEF First

\* One byte less keeps what is behind it.
LEMMA OneLess ==
  ASSUME WireInv, toStub # <<>>, NEW s \in OneByteLess
  PROVE  s \in Seq(Tokens) /\ Paired(s)
<1>1. Tail(toStub) \in Seq(Tokens) /\ Paired(Tail(toStub))
  BY FirstToken
<1>2. CASE s = Tail(toStub)
  BY <1>1, <1>2
<1>3. CASE s = <<Token("rest")>> \o Tail(toStub)
  <2>1. Token("rest") \in Tokens /\ Token("rest").kind # "$"
    BY ByteFacts
  <2>2. QED  BY <1>1, <1>3, <2>1, FrontFacts, PairedFront
<1>4. QED  BY <1>2, <1>3 DEF OneByteLess

\* The client adds to the end of the stream.
Longer(s) ==
  /\ s \in Seq(Tokens) /\ Paired(s)
  /\ toStub # <<>> => s # <<>> /\ s[1] = toStub[1]

LEMMA LongerSame == WireInv => Longer(toStub)
BY DEF WireInv, Longer

LEMMA LongerByOne ==
  ASSUME NEW s, Longer(s), NEW t \in Tokens, t.kind # "$"
  PROVE  Longer(s \o <<t>>)
<1>1. s \in Seq(Tokens) /\ Paired(s)
  BY DEF Longer
<1>2. /\ s \o <<t>> \in Seq(Tokens) /\ Len(s \o <<t>>) = Len(s) + 1 /\ Len(s) \in Nat
      /\ \A i \in 1..Len(s) : (s \o <<t>>)[i] = s[i]
  BY <1>1, PutFacts
<1>3. Paired(s \o <<t>>)
  BY <1>1, PairedPut
<1>4. s # <<>> => s \o <<t>> # <<>> /\ (s \o <<t>>)[1] = s[1]
  <2> SUFFICES ASSUME s # <<>> PROVE s \o <<t>> # <<>> /\ (s \o <<t>>)[1] = s[1]
    OBVIOUS
  <2>1. 1 \in 1..Len(s)
    BY <1>1, TailFacts
  <2>2. QED  BY <1>2, <2>1
<1>5. QED  BY <1>2, <1>3, <1>4 DEF Longer

LEMMA LongerByRequest ==
  ASSUME WireInv, NEW b \in Bodies
  PROVE  Longer(toStub \o <<Token("$"), b>>)
<1> DEFINE s == toStub  d == Token("$")
<1>1. s \in Seq(Tokens) /\ Paired(s) /\ d \in Tokens /\ b \in Tokens /\ b.kind = "body"
  BY ByteFacts DEF WireInv
<1> HIDE DEF s, d
<1>2. s \o <<d, b>> = (s \o <<d>>) \o <<b>>
  BY <1>1, PutTwoFacts
<1>3. /\ s \o <<d>> \in Seq(Tokens) /\ Len(s \o <<d>>) = Len(s) + 1 /\ Len(s) \in Nat
      /\ \A i \in 1..Len(s) : (s \o <<d>>)[i] = s[i]
  BY <1>1, PutFacts
<1> DEFINE q == s \o <<d>>
<1> HIDE DEF q
<1>4. /\ q \o <<b>> \in Seq(Tokens) /\ Len(q \o <<b>>) = Len(q) + 1
      /\ \A i \in 1..Len(q) : (q \o <<b>>)[i] = q[i]
  BY <1>1, <1>3, PutFacts DEF q
<1>5. s # <<>> => q \o <<b>> # <<>> /\ (q \o <<b>>)[1] = s[1]
  <2> SUFFICES ASSUME s # <<>> PROVE q \o <<b>> # <<>> /\ (q \o <<b>>)[1] = s[1]
    OBVIOUS
  <2>1. 1 \in 1..Len(s) /\ Len(s) \in Nat
    BY <1>1, TailFacts
  <2>2. Len(q) = Len(s) + 1 /\ q[1] = s[1]
    BY <1>3, <2>1 DEF q
  <2>3. 1 \in 1..Len(q)
    BY <2>1, <2>2
  <2>4. QED  BY <1>4, <2>1, <2>2, <2>3
<1>6. Paired(s \o <<d, b>>)
  BY <1>1, PairedRequest
<1>7. Longer(s \o <<d, b>>)
  BY <1>2, <1>4, <1>5, <1>6 DEF Longer, q, s
<1>8. QED  BY <1>7 DEF s, d

\* A longer stream is well formed for wherever the stub is.
LEMMA LongerFits ==
  ASSUME WireInv, Longer(toStub'), at' = at, toClient' \in Seq(FromStub)
  PROVE  WireInv'
BY DEF WireInv, Longer

\* What is sent.
LEMMA SentFacts ==
  ASSUME WireInv, NEW t \in FromStub
  PROVE  /\ Sent(<<t>>) \in Seq(FromStub)
         /\ \A u \in FromStub : Sent(<<t, u>>) \in Seq(FromStub)
<1>1. toClient \in Seq(FromStub)
  BY DEF WireInv
<1>2. toClient \o <<t>> \in Seq(FromStub)
  BY <1>1, PutFacts
<1>3. ASSUME NEW u \in FromStub PROVE toClient \o <<t, u>> \in Seq(FromStub)
  <2>1. toClient \o <<t, u>> = (toClient \o <<t>>) \o <<u>>
    BY <1>1, PutTwoFacts
  <2>2. QED  BY <1>2, <2>1, PutFacts
<1>4. QED  BY <1>1, <1>2, <1>3 DEF Sent

LEMMA ReplyFacts ==
  ASSUME copy' \in Values, NEW k \in {"S", "data", "OK", "E00"}
  PROVE  Reply(k) \in FromStub /\ Reply(k).kind = k /\ Reply(k).value = copy'
BY DEF Reply, FromStub, Packets

LEMMA InitTyped == ASSUME StubAssumption, GdbInit PROVE Typed
<1>1. GdbTypeOK
  <2>1. debug \in BOOLEAN /\ client \in BOOLEAN /\ mode \in {"off", "idle"}
    BY DEF GdbInit
  <2>2. 0 \in 0..MaxRequests
    BY DEF StubAssumption
  <2>3. QED  BY <2>1, <2>2 DEF GdbInit, GdbTypeOK
<1>2. toStub = <<>> \/ toStub = <<Token("+")>>
  BY DEF GdbInit
<1>3. toStub \in Seq(Tokens) /\ Paired(toStub)
  <2>1. <<>> \in Seq(Tokens) /\ Paired(<<>>)
    BY DEF Paired
  <2>2. <<Token("+")>> \in Seq(Tokens) /\ Paired(<<Token("+")>>)
    BY ByteFacts DEF Paired
  <2>3. QED  BY <1>2, <2>1, <2>2
<1>4. QED  BY <1>1, <1>3 DEF GdbInit, Typed, WireInv

\* Every step keeps the types.
LEMMA TimerTyped == ASSUME StubAssumption, Typed, Timer PROVE Typed'
<1>1. WireInv /\ GdbTypeOK
  BY DEF Typed
<1>2. toStub' \in Seq(Tokens) /\ Paired(toStub')
  <2>1. toStub' \in Polled
    BY DEF Timer
  <2>2. CASE toStub' = <<Token("+")>>
    <3>1. <<Token("+")>> \in Seq(Tokens) /\ Paired(<<Token("+")>>)
      BY ByteFacts DEF Paired
    <3>2. QED  BY <2>2, <3>1
  <2>3. CASE toStub' = toStub
    BY <1>1, <2>3 DEF WireInv
  <2>4. CASE toStub' = <<>>
    <3>1. <<>> \in Seq(Tokens) /\ Paired(<<>>)
      BY DEF Paired
    <3>2. QED  BY <2>4, <3>1
  <2>5. CASE toStub # <<>> /\ toStub' \in OneByteLess
    BY <1>1, <2>5, OneLess
  <2>6. QED  BY <2>1, <2>2, <2>3, <2>4, <2>5 DEF Polled, HasData
<1>3. at' \in {"out", "loop"}
  BY DEF Timer
<1>4. copy' \in Values
  BY <1>1 DEF Timer, GdbTypeOK
<1>5. toClient' \in Seq(FromStub)
  <2>1. Reply("S") \in FromStub
    BY <1>4, ReplyFacts
  <2>2. <<Reply("S")>> \in Seq(FromStub)
    BY <2>1
  <2>3. Sent(<<Reply("S")>>) \in Seq(FromStub) /\ toClient \in Seq(FromStub)
    BY <1>1, <2>1, SentFacts DEF WireInv
  <2>4. \/ toClient' = toClient \/ toClient' = <<Reply("S")>>
        \/ toClient' = Sent(<<Reply("S")>>)
    BY DEF Timer
  <2>5. QED  BY <2>2, <2>3, <2>4
<1>6. GdbTypeOK'
  <2>1. client' \in BOOLEAN /\ debug' \in BOOLEAN
    BY <1>1 DEF Timer, GdbTypeOK, Accepts, Interrupts, HasData, Drops
  <2>2. turn' \in {"cpu", "timer"}
        /\ mode' \in {"off", "connecting", "idle", "unacked", "sent"}
    BY <1>1 DEF Timer, GdbTypeOK
  <2>3. QED  BY <1>1, <1>3, <1>4, <2>1, <2>2 DEF Timer, GdbTypeOK, Acks
<1>7. QED  BY <1>2, <1>3, <1>5, <1>6 DEF Typed, WireInv

LEMMA AckTyped == ASSUME StubAssumption, Typed, RecvAck PROVE Typed'
<1>1. WireInv /\ GdbTypeOK /\ toStub \in Seq(Tokens) /\ Paired(toStub)
  BY DEF Typed, WireInv
<1>2. toStub' \in Seq(Tokens) /\ Paired(toStub')
  <2>1. toStub' = toStub \/ (toStub # <<>> /\ toStub' \in OneByteLess)
    BY DEF RecvAck, Waiting
  <2>2. QED  BY <1>1, <2>1, OneLess
<1>3. at' \in {"out", "loop", "start"} /\ copy' = copy
  BY DEF RecvAck, Leave
<1>4. toClient' \in Seq(FromStub)
  <2>1. Reply("S") \in FromStub
    BY <1>1, <1>3, ReplyFacts DEF GdbTypeOK
  <2>2. Sent(<<Reply("S")>>) \in Seq(FromStub) /\ toClient \in Seq(FromStub)
    BY <1>1, <2>1, SentFacts DEF WireInv
  <2>3. QED  BY <2>2 DEF RecvAck
<1>5. turn' \in {"cpu", "timer"} /\ value' \in Values /\ last' \in Places \cup {Nowhere}
      /\ debug' \in BOOLEAN /\ client' \in BOOLEAN
  BY <1>1 DEF RecvAck, Leave, GdbTypeOK
<1>6. GdbTypeOK'
  BY <1>1, <1>3, <1>5 DEF RecvAck, GdbTypeOK, Acks, clientVars
<1>7. QED  BY <1>2, <1>3, <1>4, <1>6 DEF Typed, WireInv

LEMMA LoopTyped ==
  ASSUME StubAssumption, Typed, Bye \/ RecvStart \/ RecvEof PROVE Typed'
<1>1. WireInv /\ GdbTypeOK
  BY DEF Typed
<1>2. <<>> \in Seq(Tokens) /\ Paired(<<>>)
  BY DEF Paired
<1>3. CASE Bye
  <2>1. toStub' = <<>> /\ toClient' = toClient /\ at' = "out"
    BY <1>3 DEF Bye, Leave, Forget
  <2>2. GdbTypeOK'
    <3>1. /\ at' = "out" /\ turn' = "cpu" /\ value' = copy /\ last' = place /\ client' = FALSE
          /\ debug' = FALSE
          /\ UNCHANGED <<place, noack, copy, done, mode, job, arg, silent, seen, broke, asked,
                         attached>>
      BY <1>3 DEF Bye, Leave, Forget, clientVars
    <3>2. QED  BY <1>1, <3>1 DEF GdbTypeOK
  <2>3. QED  BY <1>1, <1>2, <2>1, <2>2 DEF Typed, WireInv
<1>4. CASE RecvEof
  <2>1. toStub' = <<>> /\ toClient' = toClient /\ at' = "out"
    BY <1>4 DEF RecvEof, Leave, Forget
  <2>2. GdbTypeOK'
    <3>1. /\ at' = "out" /\ turn' = "cpu" /\ value' = copy /\ last' = place /\ client' = FALSE
          /\ UNCHANGED <<place, debug, noack, copy, done, mode, job, arg, silent, seen, broke,
                         asked, attached>>
      BY <1>4 DEF RecvEof, Leave, Forget, clientVars
    <3>2. QED  BY <1>1, <3>1 DEF GdbTypeOK
  <2>3. QED  BY <1>1, <1>2, <2>1, <2>2 DEF Typed, WireInv
<1>5. CASE RecvStart
  <2>1. toStub # <<>> /\ toStub' = Tail(toStub) /\ toClient' = toClient
        /\ at' = IF toStub[1].kind = "$" THEN "body" ELSE "start"
    BY <1>1, <1>5, FirstToken DEF RecvStart, Waiting
  <2>2. toStub' \in Seq(Tokens) /\ Paired(toStub')
    BY <1>1, <2>1, FirstToken
  <2>3. at' = "body" => toStub' # <<>> /\ toStub'[1].kind \in {"body", "eof"}
    <3>1. toStub \in Seq(Tokens) /\ Paired(toStub)
      BY <1>1 DEF WireInv
    <3>2. QED  BY <2>1, <3>1, PairedTail
  <2>4. GdbTypeOK'
    BY <1>1, <1>5 DEF RecvStart, GdbTypeOK, clientVars, guestVars
  <2>5. QED  BY <1>1, <2>1, <2>2, <2>3, <2>4 DEF Typed, WireInv
<1>6. QED  BY <1>3, <1>4, <1>5

LEMMA BodyIsRead ==
  ASSUME WireInv, at = "body", Waiting
  PROVE  toStub # <<>> /\ Body = toStub[1] /\ Body \in Bodies
<1>1. toStub # <<>> /\ First(toStub) # "eof"
  BY DEF Waiting
<1>2. toStub[1].kind = "body" /\ Body = toStub[1] /\ toStub[1] \in Tokens
  BY <1>1, FirstToken DEF WireInv, Body
<1>3. QED  BY <1>1, <1>2, ByteFacts

LEMMA BodyTyped == ASSUME StubAssumption, Typed, RecvBody PROVE Typed'
<1>1. WireInv /\ GdbTypeOK /\ toStub \in Seq(Tokens) /\ toClient \in Seq(FromStub)
  BY DEF Typed, WireInv
<1>2. toStub # <<>> /\ Body \in Bodies
  BY <1>1, BodyIsRead DEF RecvBody
<1>3. Tail(toStub) \in Seq(Tokens) /\ Paired(Tail(toStub))
  BY <1>1, <1>2, FirstToken
<1>4. Body.job \in Requests /\ Body.arg \in Values
  BY <1>2 DEF Bodies
<1>5. CASE RecvSpoilt
  <2>1. toStub' \in Seq(Tokens) /\ Paired(toStub')
    <3>1. toStub' = Tail(toStub) \/ toStub' = <<Token("rest")>> \o Tail(toStub)
      BY <1>5 DEF RecvSpoilt
    <3>2. Token("rest") \in Tokens /\ Token("rest").kind # "$"
      BY ByteFacts
    <3>3. /\ <<Token("rest")>> \o Tail(toStub) \in Seq(Tokens)
          /\ Paired(<<Token("rest")>> \o Tail(toStub))
      <4> DEFINE r == Tail(toStub)  t == Token("rest")
      <4>1. r \in Seq(Tokens) /\ Paired(r) /\ t \in Tokens /\ t.kind # "$"
        BY <1>3, <3>2
      <4> HIDE DEF r, t
      <4>2. <<t>> \o r \in Seq(Tokens) /\ Paired(<<t>> \o r)
        BY <4>1, FrontFacts, PairedFront
      <4>3. QED  BY <4>2 DEF r, t
    <3>4. QED  BY <1>3, <3>1, <3>3
  <2>2. toClient' \in Seq(FromStub)
    <3>1. Sent(<<Token("-")>>) \in Seq(FromStub)
      BY <1>1, ByteFacts, SentFacts
    <3>2. QED  BY <1>1, <1>5, <3>1 DEF RecvSpoilt
  <2>3. at' = "out"
    BY <1>5 DEF RecvSpoilt, Leave
  <2>4. GdbTypeOK'
    BY <1>1, <1>5 DEF RecvSpoilt, Leave, GdbTypeOK, clientVars
  <2>5. QED  BY <2>1, <2>2, <2>3, <2>4 DEF Typed, WireInv
<1>6. CASE Command /\ Body.job \in DOMAIN Replies
  <2>1. copy' \in Values
    BY <1>1, <1>4, <1>6 DEF Command, Written, GdbTypeOK
  <2>2. Replies[Body.job] \in {"S", "data", "OK", "E00"}
    BY <1>6 DEF Replies
  <2>3. toClient' \in Seq(FromStub)
    <3>1. Reply(Replies[Body.job]) \in FromStub
      BY <2>1, <2>2, ReplyFacts
    <3>2. Sent(<<Token("+"), Reply(Replies[Body.job])>>) \in Seq(FromStub)
      BY <1>1, <3>1, ByteFacts, SentFacts
    <3>3. QED  BY <1>6, <3>2 DEF Command
  <2>4. at' \in Acks /\ toStub' = Tail(toStub)
    BY <1>6 DEF Command, Then, Acks
  <2>5. noack' \in BOOLEAN /\ done' \in BOOLEAN
    BY <1>1, <1>6 DEF Command, GdbTypeOK
  <2>6. GdbTypeOK'
    BY <1>1, <1>6, <2>1, <2>4, <2>5 DEF Command, GdbTypeOK, clientVars, guestVars
  <2>7. QED  BY <1>3, <2>3, <2>4, <2>6 DEF Typed, WireInv, Acks
<1>7. CASE Resume
  <2>1. toClient' \in Seq(FromStub)
    <3>1. Sent(<<Token("+")>>) \in Seq(FromStub)
      BY <1>1, ByteFacts, SentFacts
    <3>2. QED  BY <1>7, <3>1 DEF Resume
  <2>2. at' = "out" /\ toStub' = Tail(toStub)
    BY <1>7 DEF Resume, Leave
  <2>3. debug' \in BOOLEAN /\ done' \in BOOLEAN
    BY <1>1, <1>7 DEF Resume, DebugAfter, GdbTypeOK
  <2>4. GdbTypeOK'
    BY <1>1, <1>7, <2>3 DEF Resume, Leave, GdbTypeOK, clientVars
  <2>5. QED  BY <1>3, <2>1, <2>2, <2>4 DEF Typed, WireInv
<1>8. QED  BY <1>5, <1>6, <1>7 DEF RecvBody

\* What the client adds to the stream.
LEMMA AckIsLonger == ASSUME WireInv PROVE Longer(ToStub(Ack))
<1>1. Token("+") \in Tokens /\ Token("+").kind # "$"
  BY ByteFacts
<1>2. Longer(toStub) /\ Longer(toStub \o <<Token("+")>>)
  BY <1>1, LongerSame, LongerByOne
<1>3. toStub \o <<>> = toStub
  BY DEF WireInv
<1>4. QED  BY <1>2, <1>3 DEF ToStub, Ack

LEMMA RequestIsLonger ==
  ASSUME StubAssumption, WireInv, job' \in Requests, arg' \in Values, NEW form \in Forms
  PROVE  Longer(ToStub(<<Token("$"), TheBody(form)>>)) /\ TheBody(form) \in Bodies
<1>1. TheBody(form) \in Bodies
  BY DEF TheBody, Bodies
<1>2. QED  BY <1>1, LongerSame, LongerByRequest DEF ToStub

LEMMA ClientSends ==
  ASSUME StubAssumption, Typed, Connect \/ Ask \/ Break PROVE Typed'
<1>1. WireInv /\ GdbTypeOK /\ toClient \in Seq(FromStub)
  BY DEF Typed, WireInv
<1>2. CASE Connect
  <2>1. Longer(toStub') /\ at' = at /\ toClient' = toClient
    BY <1>1, <1>2, LongerSame DEF Connect, stubVars
  <2>2. WireInv'
    BY <1>1, <2>1, LongerFits
  <2>3. GdbTypeOK'
    BY <1>1, <1>2 DEF Connect, GdbTypeOK, stubVars, guestVars
  <2>4. QED  BY <2>2, <2>3 DEF Typed
<1>3. CASE Ask
  <2>1. job' \in Requests /\ arg' \in Values /\ asked' \in 0..MaxRequests
    <3>1. asked \in 0..MaxRequests /\ asked < MaxRequests /\ MaxRequests \in Nat
          /\ asked' = asked + 1
      BY <1>1, <1>3 DEF Ask, GdbTypeOK, StubAssumption
    <3>2. asked' \in 0..MaxRequests
      BY <3>1
    <3>3. QED  BY <1>1, <1>3, <3>2 DEF Ask, GdbTypeOK, StubAssumption
  <2>2. PICK form \in Forms : toStub' = ToStub(<<Token("$"), TheBody(form)>>)
    BY <1>3 DEF Ask
  <2>3. Longer(toStub') /\ at' = at /\ toClient' = toClient
    BY <1>1, <1>3, <2>1, <2>2, RequestIsLonger DEF Ask
  <2>4. WireInv'
    BY <1>1, <2>3, LongerFits
  <2>5. mode' \in {"unacked", "sent"} /\ done' = FALSE
    BY <1>3 DEF Ask
  <2>6. GdbTypeOK'
    <3>1. UNCHANGED <<turn, place, value, debug, client, noack, last, copy, at, silent,
                      seen, broke, attached>>
      BY <1>3 DEF Ask, guestVars
    <3>2. /\ turn' \in {"cpu", "timer"} /\ place' \in Places /\ value' \in Values
          /\ debug' \in BOOLEAN /\ client' \in BOOLEAN /\ noack' \in BOOLEAN
          /\ last' \in Places \cup {Nowhere} /\ copy' \in Values
          /\ at' \in Acks \cup {"out", "start", "body"}
      BY <1>1, <3>1 DEF GdbTypeOK
    <3>3. /\ silent' \in BOOLEAN /\ seen' \in Values /\ broke' \in BOOLEAN
          /\ attached' \in BOOLEAN /\ done' \in BOOLEAN
          /\ mode' \in {"off", "connecting", "idle", "unacked", "sent"}
          /\ job' \in Requests \cup {Idle}
      BY <1>1, <2>1, <2>5, <3>1 DEF GdbTypeOK
    <3>4. QED  BY <2>1, <3>2, <3>3, Zenon DEF GdbTypeOK
  <2>7. QED  BY <2>4, <2>6 DEF Typed
<1>4. CASE Break
  <2>1. Token("^C") \in Tokens /\ Token("^C").kind # "$"
    BY ByteFacts
  <2>2. Longer(toStub) /\ Longer(toStub \o <<Token("^C")>>)
    BY <1>1, <2>1, LongerSame, LongerByOne
  <2>3. Longer(toStub') /\ at' = at /\ toClient' = toClient
    BY <1>4, <2>2 DEF Break, ToStub, stubVars
  <2>4. WireInv'
    BY <1>1, <2>3, LongerFits
  <2>5. GdbTypeOK'
    BY <1>1, <1>4 DEF Break, GdbTypeOK, stubVars, guestVars
  <2>6. QED  BY <2>4, <2>5 DEF Typed
<1>5. QED  BY <1>2, <1>3, <1>4

\* The client waits for something as long as it has a request.
JobInv == mode \in {"unacked", "sent"} <=> job # Idle

LEMMA JobStep == ASSUME StubAssumption, GdbTypeOK, JobInv, [GdbNext]_gdbVars PROVE JobInv'
<1>1. ASSUME UNCHANGED <<mode, job>> PROVE JobInv'
  BY <1>1 DEF JobInv
<1>2. CASE Instruction
  BY <1>1, <1>2 DEF Instruction, clientVars
<1>3. CASE Timer
  BY <1>3 DEF Timer, Accepts, JobInv
<1>4. CASE Main
  <2>1. UNCHANGED clientVars
    <3>1. CASE RecvBody
      BY <3>1 DEF RecvBody, RecvSpoilt, Command, Resume
    <3>2. QED  BY <1>4, <3>1 DEF Main, RecvAck, Bye, RecvStart, RecvEof
  <2>2. QED  BY <1>1, <2>1 DEF clientVars
<1>5. CASE Connect
  BY <1>5 DEF Connect, JobInv
<1>6. CASE Ask
  <2>1. job' \in Requests /\ mode' \in {"unacked", "sent"}
    BY <1>6 DEF Ask, StubAssumption
  <2>2. QED  BY <2>1 DEF JobInv, StubAssumption
<1>7. CASE Break
  BY <1>1, <1>7 DEF Break
<1>8. CASE GetAck
  BY <1>8 DEF GetAck, JobInv
<1>9. CASE GetOther
  BY <1>1, <1>9 DEF GetOther, clientVars
<1>10. CASE GetAnswer
  BY <1>10 DEF GetAnswer, JobInv
<1>11. CASE HangUp
  BY <1>11 DEF HangUp, JobInv
<1>12. CASE UNCHANGED gdbVars
  BY <1>1, <1>12 DEF gdbVars, clientVars
<1>13. QED
  BY <1>2, <1>3, <1>4, <1>5, <1>6, <1>7, <1>8, <1>9, <1>10, <1>11, <1>12
     DEF GdbNext, Receive

LEMMA ClientReceives == ASSUME StubAssumption, Typed, JobInv, Receive PROVE Typed'
<1>1. WireInv /\ GdbTypeOK
  BY DEF Typed
<1>2. toClient # <<>> /\ toClient' = Tail(toClient) /\ at' = at
  BY DEF Receive, GetAck, GetOther, GetAnswer, stubVars
<1>3. toClient' \in Seq(FromStub) /\ Head(toClient) \in FromStub
      /\ First(toClient) = Head(toClient).kind
  BY <1>1, <1>2, FirstPacket
<1>4. CASE GetAck
  <2>1. Longer(toStub') /\ job' = job /\ arg' = arg
    <3>1. CASE mode # "unacked"
      BY <1>1, <1>4, <3>1, LongerSame DEF GetAck
    <3>2. CASE mode = "unacked" /\ First(toClient) = "+"
      BY <1>1, <1>4, <3>2, LongerSame DEF GetAck
    <3>3. CASE mode = "unacked" /\ First(toClient) # "+"
      <4>1. /\ job' = job /\ arg' = arg
            /\ toStub' = ToStub(<<Token("$"), TheBody("clean")>>)
        BY <1>4, <3>3 DEF GetAck
      <4>2. job' \in Requests /\ arg' \in Values /\ "clean" \in Forms
        BY <1>1, <3>3, <4>1 DEF JobInv, GdbTypeOK, StubAssumption
      <4>3. QED  BY <1>1, <4>1, <4>2, RequestIsLonger
    <3>4. QED  BY <3>1, <3>2, <3>3
  <2>2. WireInv'
    BY <1>1, <1>2, <1>3, <2>1, LongerFits
  <2>3. mode' \in {"off", "connecting", "idle", "unacked", "sent"}
    BY <1>1, <1>4 DEF GetAck, GdbTypeOK
  <2>4. GdbTypeOK'
    BY <1>1, <1>4, <2>1, <2>3 DEF GetAck, GdbTypeOK, stubVars, guestVars
  <2>5. QED  BY <2>2, <2>4 DEF Typed
<1>5. CASE GetOther
  <2>1. Longer(toStub')
    BY <1>1, <1>5, AckIsLonger DEF GetOther
  <2>2. WireInv'
    BY <1>1, <1>2, <1>3, <2>1, LongerFits
  <2>3. GdbTypeOK'
    BY <1>1, <1>5 DEF GetOther, GdbTypeOK, stubVars, guestVars, clientVars
  <2>4. QED  BY <2>2, <2>3 DEF Typed
<1>6. CASE GetAnswer
  <2>1. Longer(toStub')
    <3>1. Token("+") \in Tokens /\ Token("+").kind # "$" /\ Token("eof") \in Tokens
          /\ Token("eof").kind # "$"
      BY ByteFacts
    <3>2. toStub' = ToStub(Ack \o (IF job = "detach" THEN <<Token("eof")>> ELSE <<>>))
      BY <1>6 DEF GetAnswer
    <3>3. toStub' = toStub \/ toStub' = toStub \o <<Token("+")>>
          \/ toStub' = toStub \o <<Token("eof")>>
          \/ toStub' = (toStub \o <<Token("+")>>) \o <<Token("eof")>>
      <4>1. toStub \in Seq(Tokens)
        BY <1>1 DEF WireInv
      <4>2. <<>> \o <<>> = <<>> /\ <<Token("+")>> \o <<>> = <<Token("+")>>
            /\ <<>> \o <<Token("eof")>> = <<Token("eof")>>
            /\ <<Token("+")>> \o <<Token("eof")>> = <<Token("+"), Token("eof")>>
            /\ toStub \o <<>> = toStub
        <5>1. <<>> \in Seq(Tokens) /\ <<Token("+")>> \in Seq(Tokens)
              /\ <<Token("eof")>> \in Seq(Tokens)
          BY <3>1
        <5>2. QED  BY <3>1, <4>1, <5>1, ConcatEmptySeq, TwoBytes
      <4>3. toStub \o <<Token("+"), Token("eof")>>
              = (toStub \o <<Token("+")>>) \o <<Token("eof")>>
        BY <3>1, <4>1, PutTwoFacts
      <4>4. QED  BY <3>2, <4>2, <4>3 DEF ToStub, Ack
    <3>4. /\ Longer(toStub) /\ Longer(toStub \o <<Token("+")>>)
          /\ Longer(toStub \o <<Token("eof")>>)
      BY <1>1, <3>1, LongerSame, LongerByOne
    <3>5. Longer((toStub \o <<Token("+")>>) \o <<Token("eof")>>)
      BY <3>1, <3>4, LongerByOne
    <3>6. QED  BY <3>3, <3>4, <3>5
  <2>2. WireInv'
    BY <1>1, <1>2, <1>3, <2>1, LongerFits
  <2>3. mode' \in {"off", "idle"} /\ attached' \in BOOLEAN /\ silent' \in BOOLEAN
    BY <1>1, <1>6 DEF GetAnswer, GdbTypeOK
  <2>4. seen' \in Values
    <3>1. Head(toClient) \in Packets
      BY <1>3, <1>6, ByteFacts DEF GetAnswer
    <3>2. QED  BY <1>1, <1>6, <3>1, ByteFacts DEF GetAnswer, GdbTypeOK
  <2>5. GdbTypeOK'
    BY <1>1, <1>6, <2>3, <2>4 DEF GetAnswer, GdbTypeOK, stubVars, guestVars
  <2>6. QED  BY <2>2, <2>5 DEF Typed
<1>7. QED  BY <1>4, <1>5, <1>6 DEF Receive

LEMMA HangUpTyped == ASSUME StubAssumption, Typed, HangUp PROVE Typed'
<1>1. WireInv /\ GdbTypeOK /\ toStub \in Seq(Tokens) /\ Paired(toStub)
  BY DEF Typed, WireInv
<1>2. toClient' \in Seq(FromStub) /\ at' = at
  <2>1. <<>> \in Seq(FromStub)
    OBVIOUS
  <2>2. QED  BY <2>1 DEF HangUp
<1>3. GdbTypeOK'
  BY <1>1 DEF HangUp, GdbTypeOK, guestVars
<1>4. CASE toStub' = toStub
  BY <1>1, <1>2, <1>3, <1>4 DEF Typed, WireInv
<1>5. CASE \E n \in 0..Len(toStub) : toStub' = Append(SubSeq(toStub, 1, n), Token("eof"))
  <2>1. PICK n \in 0..Len(toStub) : toStub' = Append(SubSeq(toStub, 1, n), Token("eof"))
    BY <1>5
  <2>2. Token("eof") \in Tokens /\ Token("eof").kind = "eof"
    BY ByteFacts
  <2>3. /\ toStub' \in Seq(Tokens) /\ Len(toStub') = n + 1
        /\ \A i \in 1..n : toStub'[i] = toStub[i]
        /\ toStub'[n + 1] = Token("eof")
        /\ n \in Nat /\ n <= Len(toStub) /\ Len(toStub) \in Nat
    BY <1>1, <2>1, <2>2, CutFacts
  <2>4. Paired(toStub')
    BY <1>1, <2>1, <2>2, PairedCut
  <2>5. toStub' # <<>> /\ (toStub'[1] = Token("eof") \/ toStub'[1] = toStub[1])
    <3>1. n = 0 \/ 1 \in 1..n
      BY <2>3
    <3>2. QED  BY <2>3, <3>1
  <2>6. QED  BY <1>1, <1>2, <1>3, <2>2, <2>3, <2>4, <2>5 DEF Typed, WireInv
<1>6. QED  BY <1>4, <1>5 DEF HangUp

LEMMA StepTyped ==
  ASSUME StubAssumption, Typed, JobInv, [GdbNext]_gdbVars PROVE Typed' /\ JobInv'
<1>1. JobInv'
  BY JobStep DEF Typed
<1>2. CASE Instruction
  <2>1. GdbTypeOK'
    BY <1>2 DEF Instruction, Typed, GdbTypeOK, stubVars, clientVars
  <2>2. UNCHANGED <<toStub, toClient, at>>
    BY <1>2 DEF Instruction, stubVars
  <2>3. WireInv'
    BY <2>2 DEF Typed, WireInv, Paired
  <2>4. QED  BY <1>1, <2>1, <2>3 DEF Typed
<1>3. CASE UNCHANGED gdbVars
  <2>1. GdbTypeOK'
    BY <1>3 DEF gdbVars, Typed, GdbTypeOK, stubVars, clientVars, guestVars
  <2>2. UNCHANGED <<toStub, toClient, at>>
    BY <1>3 DEF gdbVars, stubVars
  <2>3. WireInv'
    BY <2>2 DEF Typed, WireInv, Paired
  <2>4. QED  BY <1>1, <2>1, <2>3 DEF Typed
<1>4. QED
  BY <1>1, <1>2, <1>3, TimerTyped, AckTyped, LoopTyped, BodyTyped, ClientSends,
     ClientReceives, HangUpTyped DEF GdbNext, Main

\* Every variable of the stub and its client keeps its type, whatever arrives: packets
\* that are damaged or cut off too.
THEOREM StubTyped == ASSUME StubAssumption PROVE GdbSpec => []GdbTypeOK
<1>1. GdbInit => Typed /\ JobInv
  <2>1. GdbInit => JobInv
    BY DEF GdbInit, JobInv
  <2>2. QED  BY <2>1, InitTyped
<1>2. Typed /\ JobInv /\ [GdbNext]_gdbVars => (Typed /\ JobInv)'
  BY StepTyped
<1>3. Typed => GdbTypeOK
  BY DEF Typed
<1>4. QED  BY <1>1, <1>2, <1>3, PTL DEF GdbSpec
-----------------------------------------------------------------------------
(* The protocol, between a stub and a client whose packets are not damaged. *)

Live     == mode \in {"idle", "unacked", "sent"}
Question == [kind |-> "body", job |-> job, arg |-> arg, form |-> "clean"]

\* gdb_main runs as long as it holds the guest, and it holds a client's socket.  Without
\* a debugger there are the rests of a session, up to its end.
MainInv ==
  /\ at # "out" => debug /\ client /\ turn = "timer"
  /\ ~client => toStub = <<>>
  /\ attached => Live
  /\ silent => attached /\ noack
  /\ ~Live => /\ job = Idle /\ toClient = <<>>
              /\ client => Ended(toStub) /\ (done => at = "bye")
  /\ Live => (mode = "idle" <=> job = Idle)

\* A request that was not performed is on its way, behind something that the stub takes
\* for an acknowledgement if it waits for one.  The first stop of a session may not have
\* been read.
Open == Live /\ (job = Idle \/ ~done)
OpenInv ==
  Open =>
    /\ client /\ debug
    /\ at \in {"out", "loop", "start", "body"}
    /\ at = "out" => ~attached /\ toClient = <<>>
    /\ toClient # <<>> => ~attached /\ Len(toClient) = 1 /\ toClient[1].kind = "S"
    /\ ~attached => job \in {Idle, "read"}
    /\ ~noack /\ at \in {"out", "loop"} => toStub # <<>> /\ toStub[1].kind \in Noise
    /\ job = Idle => at # "body" /\ Quiet(toStub)
    /\ job # Idle =>
         /\ mode = (IF silent THEN "sent" ELSE "unacked")
         /\ at = "body" => AtBody(toStub, Question)
         /\ at # "body" => Asked(toStub, Question)

\* What a request is answered with: an acknowledgement, what the command replies, and
\* the stop of a guest that went on.
Plain   == {"read", "write", "break", "noack", "bad"}
Stopped == at \in {"loop", "start"}
WireOf(j, stopped) ==
  IF j \in Plain \cup {"detach"} THEN <<"+", Replies[j]>>
  ELSE IF j \in {"cont", "step"} THEN IF stopped THEN <<"+", "S">> ELSE <<"+">>
  ELSE IF stopped THEN <<"+", "OK", "S">> ELSE <<"+", "OK">>
Wire == WireOf(job, Stopped)
Expected == IF attached THEN Wire ELSE <<"S">> \o Wire

Suffix(s, e) ==
  /\ Len(s) <= Len(e)
  /\ \A i \in 1..Len(s) : s[i].kind = e[Len(e) - Len(s) + i]

\* Where the stub is when it has performed a request.
WhereDone(j) ==
  IF j \in Plain THEN {"loop", "start"}
  ELSE IF j = "detach" THEN {"bye", "out"}
  ELSE IF j \in {"cont", "step"} THEN {"out", "loop", "start"}
  ELSE IF j = "signal" THEN {"out", "signal", "loop", "start"}
  ELSE {"dump", "loop", "start"}

\* What was performed is answered: the client reads the end of it.
Performed == Live /\ job # Idle /\ done
DoneInv ==
  Performed =>
    /\ Quiet(toStub) /\ at \in WhereDone(job)
    /\ client <=> ~(job = "detach" /\ at = "out")
    /\ job \in {"step", "signal"} => debug
    /\ job = "noack" => noack
    /\ ~attached => job = "read"
    /\ Suffix(toClient, Expected)
    /\ mode = "unacked" => Len(toClient) >= Len(Wire)
    /\ mode = "sent" => Len(toClient) <= Len(Wire)
    /\ job = "read" /\ toClient # <<>> => toClient[Len(toClient)].value = copy

Protocol == MainInv /\ OpenInv /\ DoneInv
Sound == Typed /\ JobInv /\ Protocol

\* A byte 0xFF ends gdb_main in the middle of a packet (gdb.c:121), and so does a wrong
\* checksum (gdbstub.h:966-991): then the guest runs on although nobody asked for it.
Clean == StubAssumption /\ Forms = {"clean"}

LEMMA SuffixTail ==
  ASSUME NEW S, NEW s \in Seq(S), s # <<>>, NEW E, NEW e \in Seq(E), Suffix(s, e)
  PROVE  /\ Suffix(Tail(s), e) /\ s[1].kind = e[Len(e) - Len(s) + 1]
         /\ s[Len(s)].kind = e[Len(e)]
         /\ Len(Tail(s)) = Len(s) - 1 /\ Len(s) \in Nat \ {0} /\ Len(e) \in Nat
         /\ Len(s) <= Len(e)
         /\ Tail(s) # <<>> => Tail(s)[Len(Tail(s))] = s[Len(s)]
<1> DEFINE r == Tail(s)
<1>1. /\ r \in Seq(S) /\ Len(r) = Len(s) - 1 /\ Len(s) \in Nat \ {0}
      /\ \A i \in 1..(Len(s) - 1) : r[i] = s[i + 1]
  BY TailFacts
<1> HIDE DEF r
<1>2. Len(s) <= Len(e) /\ Len(e) \in Nat
  BY DEF Suffix
<1>3. ASSUME NEW i \in 1..Len(r) PROVE r[i].kind = e[Len(e) - Len(r) + i]
  <2>1. i + 1 \in 1..Len(s) /\ r[i] = s[i + 1]
    BY <1>1
  <2>2. s[i + 1].kind = e[Len(e) - Len(s) + (i + 1)]
    BY <2>1 DEF Suffix
  <2>3. Len(e) - Len(s) + (i + 1) = Len(e) - Len(r) + i
    BY <1>1, <1>2
  <2>4. QED  BY <2>1, <2>2, <2>3
<1>4. Len(r) <= Len(e)
  BY <1>1, <1>2
<1>5. 1 \in 1..Len(s) /\ Len(s) \in 1..Len(s) /\ Len(e) - Len(s) + Len(s) = Len(e)
  BY <1>1, <1>2
<1>6. s[1].kind = e[Len(e) - Len(s) + 1] /\ s[Len(s)].kind = e[Len(e)]
  <2>1. s[Len(s)].kind = e[Len(e) - Len(s) + Len(s)]
    BY <1>5 DEF Suffix
  <2>2. s[1].kind = e[Len(e) - Len(s) + 1]
    BY <1>5 DEF Suffix
  <2>3. QED  BY <1>5, <2>1, <2>2
<1>7. r # <<>> => r[Len(r)] = s[Len(s)]
  <2> SUFFICES ASSUME r # <<>> PROVE r[Len(r)] = s[Len(s)]
    OBVIOUS
  <2>1. Len(r) \in 1..(Len(s) - 1) /\ Len(r) + 1 = Len(s)
    BY <1>1, TailFacts
  <2>2. QED  BY <1>1, <2>1
<1>8. Suffix(r, e)
  BY <1>3, <1>4 DEF Suffix
<1>9. QED  BY <1>1, <1>2, <1>6, <1>7, <1>8 DEF r

LEMMA SuffixPut ==
  ASSUME NEW S, NEW s \in Seq(S), NEW t \in S, NEW E, NEW e \in Seq(E), NEW k \in E,
         Suffix(s, e), t.kind = k
  PROVE  /\ Suffix(s \o <<t>>, e \o <<k>>)
         /\ Len(s \o <<t>>) = Len(s) + 1 /\ Len(e \o <<k>>) = Len(e) + 1
         /\ Len(s) \in Nat /\ Len(e) \in Nat
<1> DEFINE r == s \o <<t>>  f == e \o <<k>>
<1>1. /\ Len(r) = Len(s) + 1 /\ Len(s) \in Nat /\ r[Len(s) + 1] = t
      /\ \A i \in 1..Len(s) : r[i] = s[i]
  BY PutFacts
<1>2. /\ Len(f) = Len(e) + 1 /\ Len(e) \in Nat /\ f[Len(e) + 1] = k
      /\ \A i \in 1..Len(e) : f[i] = e[i]
  BY PutFacts
<1> HIDE DEF r, f
<1>3. Len(s) <= Len(e) /\ \A i \in 1..Len(s) : s[i].kind = e[Len(e) - Len(s) + i]
  BY DEF Suffix
<1>4. ASSUME NEW i \in 1..Len(r) PROVE r[i].kind = f[Len(f) - Len(r) + i]
  <2>1. CASE i \in 1..Len(s)
    <3>1. Len(e) - Len(s) + i \in 1..Len(e) /\ Len(f) - Len(r) + i = Len(e) - Len(s) + i
      BY <1>1, <1>2, <1>3, <2>1
    <3>2. r[i].kind = e[Len(e) - Len(s) + i]
      BY <1>1, <1>3, <2>1
    <3>3. QED  BY <1>2, <3>1, <3>2
  <2>2. CASE i = Len(s) + 1
    <3>1. Len(f) - Len(r) + i = Len(e) + 1
      BY <1>1, <1>2, <2>2
    <3>2. QED  BY <1>1, <1>2, <2>2, <3>1
  <2>3. QED  BY <1>1, <2>1, <2>2
<1>5. Len(r) <= Len(f)
  BY <1>1, <1>2, <1>3
<1>6. QED  BY <1>1, <1>2, <1>4, <1>5 DEF Suffix, r, f

\* What an answer looks like.
LEMMA Tuples ==
  ASSUME NEW S, NEW a \in S, NEW b \in S, NEW c \in S
  PROVE  /\ <<a>> \in Seq(S) /\ Len(<<a>>) = 1 /\ <<a>>[1] = a
         /\ <<a, b>> \in Seq(S) /\ Len(<<a, b>>) = 2
         /\ <<a, b>>[1] = a /\ <<a, b>>[2] = b
         /\ <<a, b, c>> \in Seq(S) /\ Len(<<a, b, c>>) = 3
         /\ <<a, b, c>>[1] = a /\ <<a, b, c>>[2] = b /\ <<a, b, c>>[3] = c
OBVIOUS

Letters == {"+", "data", "OK", "E00", "S"}

LEMMA WireShape ==
  ASSUME NEW j \in Known, NEW stopped \in BOOLEAN, NEW w, w = WireOf(j, stopped)
  PROVE  /\ w \in Seq(Letters) /\ Len(w) \in 1..3 /\ w[1] = "+"
         /\ \A i \in 2..Len(w) : w[i] \notin {"+", "-"}
         /\ j \in Plain \cup {"detach"} => Len(w) = 2
         /\ j \in Stop => \A i \in 1..Len(w) : w[i] = "S" <=> stopped /\ i = Len(w)
<1>0. "+" \in Letters /\ "S" \in Letters /\ "OK" \in Letters
  BY DEF Letters
<1>1. CASE j \in Plain \cup {"detach"}
  <2>1. PICK k \in {"data", "OK", "E00"} : w = <<"+", k>>
    BY <1>1 DEF Replies, WireOf, Plain
  <2>2. k \in Letters /\ k \notin {"+", "-"}
    BY DEF Letters
  <2>3. w \in Seq(Letters) /\ Len(w) = 2 /\ w[1] = "+" /\ w[2] = k
    BY <1>0, <2>1, <2>2, Tuples
  <2>4. j \notin Stop
    BY <1>1 DEF Plain, Stop
  <2>5. QED  BY <2>2, <2>3, <2>4
<1>2. CASE j \in {"cont", "step"}
  <2>1. /\ j \notin Plain \cup {"detach"}
        /\ w = IF stopped THEN <<"+", "S">> ELSE <<"+">>
    BY <1>2 DEF WireOf, Plain
  <2>2. CASE stopped
    <3>1. w \in Seq(Letters) /\ Len(w) = 2 /\ w[1] = "+" /\ w[2] = "S"
      BY <1>0, <2>1, <2>2, Tuples
    <3>2. QED  BY <2>1, <2>2, <3>1
  <2>3. CASE ~stopped
    <3>1. w \in Seq(Letters) /\ Len(w) = 1 /\ w[1] = "+"
      BY <1>0, <2>1, <2>3, Tuples
    <3>2. QED  BY <2>1, <2>3, <3>1
  <2>4. QED  BY <2>2, <2>3
<1>3. CASE j \in {"signal", "dump"}
  <2>1. /\ j \notin Plain \cup {"detach"}
        /\ w = IF stopped THEN <<"+", "OK", "S">> ELSE <<"+", "OK">>
    BY <1>3 DEF WireOf, Plain
  <2>2. CASE stopped
    <3>1. /\ w \in Seq(Letters) /\ Len(w) = 3
          /\ w[1] = "+" /\ w[2] = "OK" /\ w[3] = "S"
      BY <1>0, <2>1, <2>2, Tuples
    <3>2. QED  BY <2>1, <2>2, <3>1
  <2>3. CASE ~stopped
    <3>1. w \in Seq(Letters) /\ Len(w) = 2 /\ w[1] = "+" /\ w[2] = "OK"
      BY <1>0, <2>1, <2>3, Tuples
    <3>2. QED  BY <2>1, <2>3, <3>1
  <2>4. QED  BY <2>2, <2>3
<1>4. QED  BY <1>1, <1>2, <1>3 DEF Known, Plain

LEMMA ExpectedShape ==
  ASSUME job \in Known
  PROVE  /\ Wire \in Seq(Letters) /\ Len(Wire) \in 1..3
         /\ Expected \in Seq(Letters)
         /\ Len(Expected) = IF attached THEN Len(Wire) ELSE Len(Wire) + 1
         /\ \A i \in 1..Len(Wire) : Expected[Len(Expected) - Len(Wire) + i] = Wire[i]
         /\ Len(Expected) # Len(Wire) => Expected[1] = "S"
<1> DEFINE w == Wire  e == <<"S">> \o w
<1>0. Stopped \in BOOLEAN /\ Wire = WireOf(job, Stopped)
  BY DEF Stopped, Wire
<1>1. w \in Seq(Letters) /\ Len(w) \in 1..3
  BY <1>0, WireShape
<1>2. "S" \in Letters
  BY DEF Letters
<1>3. Expected = IF attached THEN w ELSE e
  BY DEF Expected
<1> HIDE DEF w
<1>4. /\ e \in Seq(Letters) /\ Len(e) = Len(w) + 1 /\ Len(w) \in Nat /\ e[1] = "S"
      /\ \A i \in 1..Len(w) : e[i + 1] = w[i]
  BY <1>1, <1>2, FrontFacts
<1> HIDE DEF e
<1>5. CASE attached
  <2>1. Expected = w
    BY <1>3, <1>5
  <2>2. \A i \in 1..Len(w) : Len(w) - Len(w) + i = i
    BY <1>4
  <2>3. QED  BY <1>1, <1>5, <2>1, <2>2 DEF w
<1>6. CASE ~attached
  <2>1. Expected = e
    BY <1>3, <1>6
  <2>2. \A i \in 1..Len(w) : Len(e) - Len(w) + i = i + 1
    BY <1>4
  <2>3. QED  BY <1>1, <1>4, <1>6, <2>1, <2>2 DEF w
<1>7. QED  BY <1>5, <1>6

\* What the client reads next of an answer.
LEMMA HeadOfAnswer ==
  ASSUME Clean, Typed, DoneInv, Performed, toClient # <<>>
  PROVE  /\ Len(toClient) \in Nat \ {0} /\ Len(Wire) \in 1..3
         /\ Len(toClient) <= Len(Wire) + 1
         /\ attached => Len(toClient) <= Len(Wire)
         /\ toClient[1].kind # "-"
         /\ toClient[1].kind = "+" <=> Len(toClient) = Len(Wire)
         /\ Len(toClient) <= Len(Wire) =>
              toClient[1].kind = Wire[Len(Wire) - Len(toClient) + 1]
         /\ Suffix(Tail(toClient), Expected) /\ Len(Tail(toClient)) = Len(toClient) - 1
         /\ Tail(toClient) # <<>> =>
              Tail(toClient)[Len(Tail(toClient))] = toClient[Len(toClient)]
<1>0. job \in Known /\ Stopped \in BOOLEAN /\ Wire = WireOf(job, Stopped)
  BY DEF Clean, StubAssumption, Performed, Typed, GdbTypeOK, Stopped, Wire
<1> DEFINE s == toClient  w == Wire  e == Expected
<1>1. /\ w \in Seq(Letters) /\ Len(w) \in 1..3
      /\ e \in Seq(Letters)
      /\ Len(e) = IF attached THEN Len(w) ELSE Len(w) + 1
      /\ \A i \in 1..Len(w) : e[Len(e) - Len(w) + i] = w[i]
      /\ Len(e) # Len(w) => e[1] = "S"
  BY <1>0, ExpectedShape
<1>2. w[1] = "+" /\ \A i \in 2..Len(w) : w[i] \notin {"+", "-"}
  BY <1>0, WireShape
<1>3. s \in Seq(FromStub) /\ s # <<>> /\ Suffix(s, e)
  BY DEF Typed, WireInv, DoneInv
<1> HIDE DEF s, w, e
<1>4. /\ Suffix(Tail(s), e) /\ s[1].kind = e[Len(e) - Len(s) + 1]
      /\ Len(Tail(s)) = Len(s) - 1 /\ Len(s) \in Nat \ {0} /\ Len(e) \in Nat
      /\ Len(s) <= Len(e)
      /\ Tail(s) # <<>> => Tail(s)[Len(Tail(s))] = s[Len(s)]
  BY <1>1, <1>3, SuffixTail
<1>9. /\ Len(e) \in Nat /\ Len(w) \in Nat /\ Len(s) \in Nat
      /\ Len(e) = Len(w) \/ Len(e) = Len(w) + 1
      /\ Len(s) <= Len(e)
  BY <1>1, <1>4
<1>5. Len(s) <= Len(w) => s[1].kind = w[Len(w) - Len(s) + 1]
  <2> SUFFICES ASSUME Len(s) <= Len(w) PROVE s[1].kind = w[Len(w) - Len(s) + 1]
    OBVIOUS
  <2>1. Len(w) - Len(s) + 1 \in 1..Len(w)
    BY <1>1, <1>4
  <2>2. Len(e) - Len(w) + (Len(w) - Len(s) + 1) = Len(e) - Len(s) + 1
    BY <1>9
  <2>3. QED  BY <1>1, <1>4, <2>1, <2>2
<1>6. Len(s) = Len(w) + 1 => s[1].kind = "S"
  BY <1>1, <1>4
<1>7. s[1].kind # "-" /\ (s[1].kind = "+" <=> Len(s) = Len(w))
  <2>1. CASE Len(s) = Len(w)
    BY <1>1, <1>2, <1>5, <2>1
  <2>2. CASE Len(s) < Len(w)
    <3>1. Len(w) - Len(s) + 1 \in 2..Len(w)
      BY <1>1, <1>4, <2>2
    <3>2. QED  BY <1>1, <1>2, <1>4, <1>5, <2>2, <3>1
  <2>3. CASE Len(s) = Len(w) + 1
    BY <1>1, <1>6, <2>3
  <2>4. Len(s) = Len(w) \/ Len(s) < Len(w) \/ Len(s) = Len(w) + 1
    BY <1>9
  <2>5. QED  BY <2>1, <2>2, <2>3, <2>4
<1>8. QED  BY <1>1, <1>4, <1>5, <1>7 DEF s, w, e

\* While a client is there the connection has not ended.
LEMMA QuestionIsBody ==
  ASSUME Clean, Typed, job # Idle
  PROVE  Question \in Bodies /\ Question.kind = "body" /\ Question.form = "clean"
BY DEF Clean, Typed, GdbTypeOK, Question, Bodies

LEMMA LiveIsEndless == ASSUME Clean, Sound, Live PROVE Endless(toStub)
<1>1. toStub \in Seq(Tokens)
  BY DEF Sound, Typed, WireInv
<1>2. Question.kind = "body"
  BY DEF Question
<1>3. CASE Performed
  BY <1>1, <1>2, <1>3, NoEnd DEF Sound, Protocol, DoneInv
<1>4. CASE Open
  BY <1>1, <1>2, <1>4, NoEnd DEF Sound, Protocol, OpenInv
<1>5. QED  BY <1>3, <1>4 DEF Open, Performed

\* The processor moves on while gdb_main is out, and a client may connect.
LEMMA RunsSound == ASSUME Clean, Sound, Instruction \/ Connect PROVE Protocol'
<1>1. MainInv /\ OpenInv /\ DoneInv
  BY DEF Sound, Protocol
<1>2. UNCHANGED <<debug, client, noack, copy, at, job, arg, silent, attached, done,
                  toStub, toClient>>
  BY DEF Instruction, Connect, guestVars, stubVars, clientVars
<1>3. CASE Instruction
  <2>1. at = "out" /\ mode' = mode
    BY <1>1, <1>3 DEF MainInv, Instruction, clientVars
  <2>2. MainInv'
    BY <1>1, <1>2, <2>1 DEF MainInv, Live
  <2>3. Question' = Question /\ Open' = Open /\ Performed' = Performed /\ Wire' = Wire
    BY <1>2, <2>1 DEF Question, Open, Performed, Live, Wire, Stopped
  <2>4. Expected' = Expected
    BY <1>2, <2>3 DEF Expected
  <2>5. OpenInv'
    BY <1>1, <1>2, <2>1, <2>3 DEF OpenInv
  <2>6. DoneInv'
    BY <1>1, <1>2, <2>1, <2>3, <2>4 DEF DoneInv
  <2>7. QED  BY <2>2, <2>5, <2>6 DEF Protocol
<1>4. CASE Connect
  <2>1. ~Live /\ ~Live' /\ turn' = turn
    BY <1>4 DEF Connect, Live, guestVars
  <2>2. MainInv'
    BY <1>1, <1>2, <2>1 DEF MainInv
  <2>3. OpenInv' /\ DoneInv'
    BY <2>1 DEF OpenInv, DoneInv, Open, Performed
  <2>4. QED  BY <2>2, <2>3 DEF Protocol
<1>5. QED  BY <1>3, <1>4

LEMMA HangUpSound == ASSUME Clean, Sound, HangUp PROVE Protocol'
<1>1. MainInv /\ toStub \in Seq(Tokens)
  BY DEF Sound, Protocol, Typed, WireInv
<1>2. ~Live' /\ Live
  BY DEF HangUp, Live, Sound, Typed, GdbTypeOK
<1>3. client => Ended(toStub')
  <2> SUFFICES ASSUME client PROVE Ended(toStub')
    OBVIOUS
  <2>1. Endless(toStub)
    BY <1>2, LiveIsEndless
  <2>2. PICK n \in 0..Len(toStub) : toStub' = Append(SubSeq(toStub, 1, n), Token("eof"))
    BY DEF HangUp
  <2>3. Token("eof") \in Tokens /\ Token("eof").kind = "eof"
    BY ByteFacts
  <2>4. QED  BY <1>1, <2>1, <2>2, <2>3, EndedCut
<1>4. MainInv'
  BY <1>1, <1>2, <1>3 DEF MainInv, HangUp, guestVars
<1>5. OpenInv' /\ DoneInv'
  BY <1>2 DEF OpenInv, DoneInv, Open, Performed
<1>6. QED  BY <1>4, <1>5 DEF Protocol

LEMMA BreakSound == ASSUME Clean, Sound, Break PROVE Protocol'
<1>1. MainInv /\ OpenInv /\ DoneInv /\ toStub \in Seq(Tokens)
  BY DEF Sound, Protocol, Typed, WireInv
<1>2. UNCHANGED <<debug, client, noack, copy, at, turn, mode, job, arg, silent, attached,
                  done, toClient>>
  BY DEF Break, guestVars, stubVars
<1>3. Live /\ job # Idle /\ job # "detach" /\ Live'
  BY <1>1, <1>2 DEF Break, Live, MainInv
<1>4. Question' = Question /\ Open' = Open /\ Performed' = Performed /\ Wire' = Wire
  BY <1>2 DEF Question, Open, Performed, Live, Wire, Stopped
<1>5. Expected' = Expected
  BY <1>2, <1>4 DEF Expected
<1>6. client /\ toStub' = toStub \o <<Token("^C")>>
  <2>1. client
    BY <1>1, <1>3 DEF OpenInv, DoneInv, Open, Performed
  <2>2. QED  BY <2>1 DEF Break, ToStub
<1>7. Token("^C") \in Tokens /\ Token("^C").kind \in Noise
  BY ByteFacts DEF Noise
<1>8. MainInv'
  BY <1>1, <1>2, <1>3, <1>6 DEF MainInv
<1>9. OpenInv'
  <2> SUFFICES ASSUME Open PROVE OpenInv'
    BY <1>4 DEF OpenInv
  <2>1. at # "body" => Asked(toStub', Question)
    BY <1>1, <1>3, <1>6, <1>7, AskedPut DEF OpenInv
  <2>2. at = "body" => AtBody(toStub', Question)
    BY <1>1, <1>3, <1>6, <1>7, BodyPut DEF OpenInv
  <2>3. toStub # <<>> => toStub' # <<>> /\ toStub'[1] = toStub[1]
    <3> SUFFICES ASSUME toStub # <<>> PROVE toStub' # <<>> /\ toStub'[1] = toStub[1]
      OBVIOUS
    <3>1. /\ toStub' \in Seq(Tokens) /\ Len(toStub') = Len(toStub) + 1
          /\ Len(toStub) \in Nat /\ \A i \in 1..Len(toStub) : toStub'[i] = toStub[i]
      BY <1>1, <1>6, <1>7, PutFacts
    <3>2. Len(toStub) \in Nat \ {0}
      BY <1>1, TailFacts
    <3>3. QED  BY <3>1, <3>2
  <2>4. QED  BY <1>1, <1>2, <1>3, <1>4, <2>1, <2>2, <2>3 DEF OpenInv
<1>10. DoneInv'
  <2> SUFFICES ASSUME Performed PROVE DoneInv'
    BY <1>4 DEF DoneInv
  <2>1. Quiet(toStub')
    BY <1>1, <1>6, <1>7, QuietPut DEF DoneInv
  <2>2. QED  BY <1>1, <1>2, <1>4, <1>5, <2>1 DEF DoneInv
<1>11. QED  BY <1>8, <1>9, <1>10 DEF Protocol

\* What the client sends is put behind the rest.
LEMMA FrontStays ==
  ASSUME NEW S, NEW s \in Seq(S), NEW t \in S
  PROVE  /\ s \o <<t>> \in Seq(S) /\ s \o <<t>> # <<>>
         /\ s # <<>> => (s \o <<t>>)[1] = s[1]
         /\ s = <<>> => (s \o <<t>>)[1] = t
<1> DEFINE r == s \o <<t>>
<1>1. /\ r \in Seq(S) /\ Len(r) = Len(s) + 1 /\ Len(s) \in Nat
      /\ \A i \in 1..Len(s) : r[i] = s[i]
      /\ r[Len(s) + 1] = t
  BY PutFacts
<1> HIDE DEF r
<1>2. r # <<>>
  BY <1>1
<1>3. s # <<>> => r[1] = s[1]
  <2> SUFFICES ASSUME s # <<>> PROVE r[1] = s[1]
    OBVIOUS
  <2>1. Len(s) \in Nat \ {0}
    BY TailFacts
  <2>2. QED  BY <1>1, <2>1
<1>4. s = <<>> => r[1] = t
  BY <1>1
<1>5. QED  BY <1>1, <1>2, <1>3, <1>4 DEF r

LEMMA AskSound == ASSUME Clean, Sound, Ask PROVE Protocol'
<1>1. MainInv /\ OpenInv /\ toStub \in Seq(Tokens) /\ job = Idle
  BY DEF Sound, Protocol, Typed, WireInv, Ask, MainInv, Live
<1>2. UNCHANGED <<debug, client, noack, copy, at, turn, silent, attached, toClient>>
  BY DEF Ask, guestVars
<1>3. Live /\ Open /\ Live' /\ Open' /\ ~Performed' /\ ~done'
  BY <1>1 DEF Ask, Live, Open, Performed
<1>4. /\ client /\ debug /\ at \in {"out", "loop", "start"} /\ Quiet(toStub)
      /\ at = "out" => ~attached /\ toClient = <<>>
      /\ toClient # <<>> => ~attached /\ Len(toClient) = 1 /\ toClient[1].kind = "S"
      /\ ~noack /\ at \in {"out", "loop"} => toStub # <<>> /\ toStub[1].kind \in Noise
  BY <1>1, <1>3 DEF OpenInv
<1>5. /\ job' \in Requests /\ arg' \in Values /\ job' # Idle
      /\ ~attached => job' \in {Idle, "read"}
      /\ mode' = (IF silent THEN "sent" ELSE "unacked")
  BY DEF Clean, StubAssumption, Ask, Sound, Typed, GdbTypeOK
<1>6. toStub' = toStub \o <<Token("$"), Question'>> /\ Question' \in Bodies
  <2>1. PICK form \in Forms : toStub' = ToStub(<<Token("$"), TheBody(form)>>)
    BY DEF Ask
  <2>2. form = "clean"
    BY DEF Clean
  <2>3. TheBody(form) = Question'
    BY <2>2 DEF TheBody, Question
  <2>4. Question' \in Bodies
    BY <1>5, <2>2 DEF Question, Bodies
  <2>5. QED  BY <1>4, <2>1, <2>3, <2>4 DEF ToStub
<1>7. Token("$") \in Tokens /\ Token("$").kind = "$" /\ Question' \in Tokens
  BY <1>6, ByteFacts
<1>8. Asked(toStub', Question')
  BY <1>1, <1>4, <1>6, <1>7, AskedPutRequest
<1>9. toStub # <<>> => toStub' # <<>> /\ toStub'[1] = toStub[1]
  <2> DEFINE r == toStub \o <<Token("$")>>
  <2>1. /\ r \in Seq(Tokens) /\ r # <<>>
        /\ toStub # <<>> => r[1] = toStub[1]
    BY <1>1, <1>7, FrontStays
  <2>2. toStub' = r \o <<Question'>>
    BY <1>1, <1>6, <1>7, PutTwoFacts
  <2> HIDE DEF r
  <2>3. toStub' # <<>> /\ toStub'[1] = r[1]
    BY <1>7, <2>1, <2>2, FrontStays
  <2>4. QED  BY <2>1, <2>3
<1>10. MainInv'
  BY <1>1, <1>2, <1>3, <1>4, <1>5 DEF MainInv, Live
<1>11. OpenInv'
  BY <1>2, <1>3, <1>4, <1>5, <1>8, <1>9 DEF OpenInv
<1>12. DoneInv'
  BY <1>3 DEF DoneInv
<1>13. QED  BY <1>10, <1>11, <1>12 DEF Protocol

\* A byte of an ended stream that is read and dropped.
LEMMA EndedLess ==
  ASSUME WireInv, Ended(toStub), toStub[1].kind # "eof", NEW s \in OneByteLess
  PROVE  Ended(s)
<1>1. toStub # <<>> /\ toStub \in Seq(Tokens)
  BY DEF WireInv, Ended
<1>2. s = Tail(toStub) \/ s = <<Token("rest")>> \o Tail(toStub)
  BY DEF OneByteLess
<1>3. Token("rest") \in Tokens /\ Token("rest").kind # "eof"
  BY ByteFacts
<1>4. QED  BY <1>1, <1>2, <1>3, EndedTail

\* The stream of a waiting client is read token by token.
LEMMA QuietLess ==
  ASSUME WireInv, toStub # <<>>, toStub[1].kind \in Noise, NEW s \in OneByteLess
  PROVE  s = Tail(toStub)
BY FirstToken DEF OneByteLess, Noise

LEMMA SentStop ==
  ASSUME Typed, copy' \in Values
  PROVE  /\ Reply("S") \in FromStub /\ Reply("S").kind = "S"
         /\ Live => Sent(<<Reply("S")>>) = toClient \o <<Reply("S")>>
         /\ ~Live => Sent(<<Reply("S")>>) = toClient
BY ReplyFacts DEF Sent, Live, Typed, GdbTypeOK

LEMMA TimerAway == ASSUME Clean, Sound, Timer, ~Live, ~Accepts PROVE Protocol'
<1>1. MainInv /\ Typed /\ WireInv /\ copy' \in Values
  BY DEF Sound, Protocol, Typed, GdbTypeOK, Timer
<1>2. UNCHANGED <<noack, mode, job, silent, attached, done>> /\ at = "out" /\ ~Live'
  BY DEF Timer, Live
<1>3. toClient' = <<>>
  <2>1. toClient = <<>> /\ Sent(<<Reply("S")>>) = toClient
    BY <1>1, SentStop DEF MainInv
  <2>2. QED  BY <2>1 DEF Timer
<1>4. /\ client' = (client /\ ~(Drops /\ First(toStub) = "eof"))
      /\ debug' = (debug \/ Interrupts) /\ toStub' \in Polled
      /\ at' # "out" => client' /\ debug' /\ turn' = "timer"
  BY <1>2 DEF Timer
<1>5. ~client' => toStub' = <<>>
  <2>1. CASE ~client
    BY <1>1, <1>4, <2>1 DEF MainInv, Polled, HasData
  <2>2. CASE Drops /\ First(toStub) = "eof"
    BY <1>4, <2>2 DEF Polled, Drops
  <2>3. QED  BY <1>4, <2>1, <2>2 DEF Drops, HasData
<1>6. client' => Ended(toStub') /\ ~done
  <2> SUFFICES ASSUME client' PROVE Ended(toStub') /\ ~done
    OBVIOUS
  <2>1. client /\ Ended(toStub) /\ ~done
    BY <1>1, <1>2, <1>4 DEF MainInv
  <2>2. CASE ~HasData
    BY <1>4, <2>1, <2>2 DEF Polled
  <2>3. CASE HasData
    <3>1. toStub # <<>> /\ First(toStub) = toStub[1].kind
      BY <1>1, <2>3, FirstToken DEF HasData
    <3>2. First(toStub) # "eof"
      BY <1>4, <2>3 DEF Drops, Interrupts
    <3>3. toStub' \in OneByteLess
      BY <1>4, <2>3, <3>2 DEF Polled
    <3>4. QED  BY <1>1, <2>1, <3>1, <3>2, <3>3, EndedLess
  <2>4. QED  BY <2>2, <2>3
<1>7. MainInv'
  BY <1>1, <1>2, <1>3, <1>4, <1>5, <1>6 DEF MainInv
<1>8. OpenInv' /\ DoneInv'
  BY <1>2 DEF OpenInv, DoneInv, Open, Performed
<1>9. QED  BY <1>7, <1>8 DEF Protocol

LEMMA TimerAccepts == ASSUME Clean, Sound, Timer, Accepts PROVE Protocol'
<1>1. MainInv /\ Typed /\ copy' \in Values
  BY DEF Sound, Protocol, Typed, GdbTypeOK, Timer
<1>2. /\ ~client /\ ~Live /\ job = Idle /\ ~attached /\ ~silent /\ toClient = <<>>
  BY <1>1 DEF Accepts, Live, MainInv
<1>3. /\ client' /\ debug' /\ mode' = "idle" /\ toStub' = <<Token("+")>>
      /\ UNCHANGED <<noack, job, attached, silent, done>>
  BY DEF Timer, Polled
<1>4. \/ at' = "out" /\ toClient' = toClient
      \/ at' = "loop" /\ turn' = "timer" /\ toClient' = <<Reply("S")>>
  BY DEF Timer
<1>5. Live' /\ Open' /\ ~Performed'
  BY <1>2, <1>3 DEF Live, Open, Performed
<1>6. Quiet(toStub') /\ toStub' # <<>> /\ toStub'[1].kind \in Noise
  <2>1. Token("+").kind \in Noise
    BY DEF Token, Noise
  <2>2. Len(<<Token("+")>>) = 1 /\ <<Token("+")>>[1] = Token("+") /\ <<Token("+")>> # <<>>
    OBVIOUS
  <2>3. QED  BY <1>3, <2>1, <2>2 DEF Quiet
<1>7. /\ at' \in {"out", "loop"} /\ (at' = "out" => toClient' = <<>>)
      /\ toClient' # <<>> => Len(toClient') = 1 /\ toClient'[1].kind = "S"
  <2>1. Reply("S").kind = "S" /\ Len(<<Reply("S")>>) = 1
    BY <1>1, ReplyFacts
  <2>2. QED  BY <1>2, <1>4, <2>1
<1>8. MainInv'
  BY <1>2, <1>3, <1>4, <1>5 DEF MainInv
<1>9. OpenInv'
  BY <1>2, <1>3, <1>5, <1>6, <1>7 DEF OpenInv
<1>10. DoneInv'
  BY <1>5 DEF DoneInv
<1>11. QED  BY <1>8, <1>9, <1>10 DEF Protocol

LEMMA TimerOpen == ASSUME Clean, Sound, Timer, Open PROVE Protocol'
<1>1. MainInv /\ OpenInv /\ Typed /\ copy' \in Values
  BY DEF Sound, Protocol, Typed, GdbTypeOK, Timer
<1>2. client /\ debug /\ at = "out" /\ ~attached /\ toClient = <<>> /\ Live
  BY <1>1 DEF Open, OpenInv, Timer
<1>3. ~Accepts /\ ~HasData
  BY <1>2 DEF Accepts, HasData
<1>4. /\ client' /\ debug' /\ toStub' = toStub
      /\ UNCHANGED <<noack, mode, job, arg, attached, silent, done>>
  BY <1>2, <1>3 DEF Timer, Polled, Drops
<1>5. \/ at' = "out" /\ toClient' = toClient
      \/ at' = "loop" /\ turn' = "timer" /\ toClient' = toClient \o <<Reply("S")>>
  <2>1. Sent(<<Reply("S")>>) = toClient \o <<Reply("S")>>
    BY <1>1, <1>2, SentStop
  <2>2. QED  BY <1>2, <1>3, <2>1 DEF Timer
<1>6. Live' /\ Open' /\ ~Performed' /\ Question' = Question
  BY <1>2, <1>4 DEF Live, Open, Performed, Question
<1>7. /\ at' \in {"out", "loop"} /\ (at' = "out" => toClient' = <<>>)
      /\ toClient' # <<>> => Len(toClient') = 1 /\ toClient'[1].kind = "S"
  <2>1. CASE toClient' = toClient
    BY <1>2, <1>5, <2>1
  <2>2. CASE at' = "loop" /\ toClient' = toClient \o <<Reply("S")>>
    <3>1. Reply("S") \in FromStub /\ Reply("S").kind = "S" /\ <<>> \in Seq(FromStub)
          /\ Len(<<>>) = 0
      BY <1>1, SentStop
    <3>2. Len(toClient') = 1 /\ toClient'[1] = Reply("S")
      BY <1>2, <2>2, <3>1, PutFacts
    <3>3. QED  BY <2>2, <3>1, <3>2
  <2>3. QED  BY <1>5, <2>1, <2>2
<1>8. MainInv'
  BY <1>1, <1>2, <1>4, <1>5, <1>6 DEF MainInv, Live
<1>9. OpenInv'
  BY <1>1, <1>2, <1>4, <1>6, <1>7, Open DEF OpenInv
<1>10. DoneInv'
  BY <1>6 DEF DoneInv
<1>11. QED  BY <1>8, <1>9, <1>10 DEF Protocol

LEMMA ThreeLetters ==
  ASSUME NEW S, NEW a \in S, NEW b \in S, NEW c \in S
  PROVE  <<a, b>> \o <<c>> = <<a, b, c>>
<1>1. <<a, b, c>> = Append(<<a, b>>, c)
  OBVIOUS
<1>2. <<a, b>> \in Seq(S)
  OBVIOUS
<1>3. QED  BY <1>1, <1>2, AppendIsConcat

\* The stop of a guest that went on is the last part of an answer.
LEMMA StopIsPut ==
  ASSUME Clean, Typed, Performed, DoneInv, job \in Stop, ~Stopped, Stopped',
         UNCHANGED <<job, attached>>, copy' \in Values,
         toClient' = toClient \o <<Reply("S")>>
  PROVE  /\ Suffix(toClient', Expected')
         /\ Len(toClient') = Len(toClient) + 1 /\ Len(Wire') = Len(Wire) + 1
         /\ Len(toClient) \in Nat /\ Len(Wire) \in Nat
<1> DEFINE w == Wire  v == Wire'
<1>1. w = WireOf(job, FALSE) /\ v = WireOf(job, TRUE)
  <2>1. Stopped = FALSE /\ Stopped' = TRUE
    BY DEF Stopped
  <2>2. QED  BY <2>1 DEF Wire
<1>2. attached /\ Expected = w /\ Expected' = v
  BY DEF DoneInv, Stop, Expected
<1>3. job \in Known /\ FALSE \in BOOLEAN
  BY DEF Clean, StubAssumption, Typed, GdbTypeOK, Performed
<1>4. v = w \o <<"S">>
  <2>1. job \notin Plain \cup {"detach"}
    BY DEF Stop, Plain
  <2>2. CASE job \in {"cont", "step"}
    <3>1. v = <<"+", "S">> /\ w = <<"+">>
      BY <1>1, <2>1, <2>2 DEF WireOf
    <3>2. QED  BY <3>1, TwoBytes
  <2>3. CASE job \in {"signal", "dump"}
    <3>1. v = <<"+", "OK", "S">> /\ w = <<"+", "OK">>
      BY <1>1, <2>1, <2>3 DEF WireOf
    <3>2. "+" \in Letters /\ "OK" \in Letters /\ "S" \in Letters
      BY DEF Letters
    <3>3. QED  BY <3>1, <3>2, ThreeLetters
  <2>4. QED  BY <2>2, <2>3 DEF Stop
<1>5. w \in Seq(Letters) /\ "S" \in Letters
  BY <1>1, <1>3, WireShape DEF Letters
<1>6. toClient \in Seq(FromStub) /\ Suffix(toClient, w)
  BY <1>2 DEF Typed, WireInv, DoneInv
<1>7. Reply("S") \in FromStub /\ Reply("S").kind = "S"
  BY ReplyFacts
<1> HIDE DEF w, v
<1>8. /\ Suffix(toClient \o <<Reply("S")>>, w \o <<"S">>)
      /\ Len(toClient \o <<Reply("S")>>) = Len(toClient) + 1
      /\ Len(w \o <<"S">>) = Len(w) + 1 /\ Len(toClient) \in Nat /\ Len(w) \in Nat
  BY <1>5, <1>6, <1>7, SuffixPut
<1>9. QED  BY <1>2, <1>4, <1>8 DEF w, v

LEMMA TimerPerformed == ASSUME Clean, Sound, Timer, Performed PROVE Protocol'
<1>1. MainInv /\ DoneInv /\ Typed /\ WireInv /\ copy' \in Values /\ Live
  BY DEF Sound, Protocol, Typed, GdbTypeOK, Timer, Performed
<1>2. /\ at = "out" /\ Quiet(toStub) /\ ~Accepts
      /\ job \in Stop \cup {"detach"} /\ (client <=> job # "detach")
  BY <1>1 DEF Timer, DoneInv, WhereDone, Accepts, Live, Plain, Stop, Clean, StubAssumption,
              Known, Typed, GdbTypeOK
<1>3. UNCHANGED <<noack, mode, job, arg, attached, silent, done>>
  BY <1>2 DEF Timer
<1>4. Live' /\ Performed' /\ ~Open'
  BY <1>1, <1>3 DEF Live, Performed, Open
<1>5. Quiet(toStub') /\ (client' <=> client) /\ (~client' => toStub' = <<>>)
  <2>1. CASE HasData
    <3>1. toStub # <<>> /\ First(toStub) = toStub[1].kind /\ toStub[1].kind \in Noise
          /\ Quiet(Tail(toStub))
      BY <1>1, <1>2, <2>1, FirstToken, QuietTail DEF HasData, WireInv
    <3>2. First(toStub) # "eof"
      BY <3>1 DEF Noise
    <3>3. toStub' \in OneByteLess
      BY <1>2, <2>1, <3>2 DEF Timer, Polled
    <3>4. toStub' = Tail(toStub)
      BY <1>1, <3>1, <3>3, QuietLess
    <3>5. QED  BY <1>2, <2>1, <3>1, <3>2, <3>4 DEF Timer, HasData
  <2>2. CASE ~HasData
    BY <1>1, <1>2, <2>2 DEF Timer, Polled, Drops, MainInv
  <2>3. QED  BY <2>1, <2>2
<1>6. debug => debug'
  BY DEF Timer
<1>7. \/ at' = "out" /\ toClient' = toClient
      \/ /\ at' = "loop" /\ turn' = "timer" /\ client' /\ debug'
         /\ toClient' = toClient \o <<Reply("S")>>
  BY <1>1, <1>2, SentStop DEF Timer
<1>8. MainInv'
  BY <1>1, <1>3, <1>4, <1>5, <1>7 DEF MainInv
<1>9. OpenInv'
  BY <1>4 DEF OpenInv
<1>10. DoneInv'
  <2>1. CASE at' = "out" /\ toClient' = toClient
    <3>1. Wire' = Wire /\ Expected' = Expected
      BY <1>2, <1>3, <2>1 DEF Wire, Stopped, Expected
    <3>2. job # "read"
      BY <1>2 DEF Stop
    <3>3. QED  BY <1>1, <1>2, <1>3, <1>5, <1>6, <2>1, <3>1, <3>2 DEF DoneInv
  <2>2. CASE /\ at' = "loop" /\ client' /\ toClient' = toClient \o <<Reply("S")>>
    <3>1. job \in Stop /\ ~Stopped /\ Stopped'
      BY <1>2, <1>5, <2>2 DEF Stopped
    <3>2. /\ Suffix(toClient', Expected')
          /\ Len(toClient') = Len(toClient) + 1 /\ Len(Wire') = Len(Wire) + 1
          /\ Len(toClient) \in Nat /\ Len(Wire) \in Nat
      BY <1>1, <1>3, <2>2, <3>1, StopIsPut
    <3>3. at' \in WhereDone(job) /\ job # "detach" /\ job # "read"
      BY <1>1, <2>2, <3>1 DEF WhereDone, Stop, Plain
    <3>4. mode' = "unacked" => Len(toClient') >= Len(Wire')
      BY <1>1, <1>3, <3>2 DEF DoneInv
    <3>5. mode' = "sent" => Len(toClient') <= Len(Wire')
      BY <1>1, <1>3, <3>2 DEF DoneInv
    <3>6. QED  BY <1>1, <1>3, <1>5, <1>6, <2>2, <3>2, <3>3, <3>4, <3>5 DEF DoneInv
  <2>3. QED  BY <1>7, <2>1, <2>2
<1>11. QED  BY <1>8, <1>9, <1>10 DEF Protocol

LEMMA TimerSound == ASSUME Clean, Sound, Timer PROVE Protocol'
<1>1. Live => Open \/ Performed
  BY DEF Open, Performed
<1>2. QED  BY <1>1, TimerAway, TimerAccepts, TimerOpen, TimerPerformed

\* Away from a client, gdb_main reads the rests of a session.
LEMMA AwaySound ==
  ASSUME Clean, Sound, ~Live, ~Live', UNCHANGED <<job, attached, silent>>,
         client' => client /\ Ended(toStub') /\ (done' => done),
         ~client' => toStub' = <<>>, toClient' = toClient,
         at' # "out" => client' /\ at # "out" /\ UNCHANGED <<debug, turn>>,
         at' = "bye" \/ ~(client' /\ done')
  PROVE  Protocol'
<1>1. MainInv
  BY DEF Sound, Protocol
<1>2. MainInv'
  <2>1. client' /\ done' => at' = "bye"
    OBVIOUS
  <2>2. QED  BY <1>1, <2>1 DEF MainInv
<1>3. QED  BY <1>2 DEF Protocol, OpenInv, DoneInv, Open, Performed

LEMMA AckAway == ASSUME Clean, Sound, RecvAck, ~Live PROVE Protocol'
<1>1. MainInv /\ Typed /\ WireInv /\ toClient = <<>>
  BY DEF Sound, Protocol, Typed, MainInv
<1>2. /\ UNCHANGED <<noack, mode, job, silent, attached, done, client>> /\ ~Live'
      /\ at # "out" /\ at # "bye" /\ client
  BY <1>1 DEF RecvAck, Live, clientVars, MainInv
<1>3. ~done /\ Ended(toStub)
  BY <1>1, <1>2 DEF MainInv
<1>4. Ended(toStub')
  <2>1. CASE noack
    BY <1>3, <2>1 DEF RecvAck
  <2>2. CASE ~noack
    <3>1. toStub # <<>> /\ toStub' \in OneByteLess /\ First(toStub) # "eof"
      BY <2>2 DEF RecvAck, Waiting
    <3>2. First(toStub) = toStub[1].kind
      BY <1>1, <3>1, FirstToken
    <3>3. QED  BY <1>1, <1>3, <3>1, <3>2, EndedLess
  <2>3. QED  BY <2>1, <2>2
<1>5. toClient' = toClient
  <2>1. copy' \in Values
    BY <1>1 DEF RecvAck, Typed, GdbTypeOK
  <2>2. QED  BY <1>1, <2>1, SentStop DEF RecvAck
<1>6. at' # "out" => UNCHANGED <<debug, turn>>
  BY DEF RecvAck, Leave
<1>7. QED  BY <1>2, <1>3, <1>4, <1>5, <1>6, AwaySound

LEMMA AckOpen == ASSUME Clean, Sound, RecvAck, Open PROVE Protocol'
<1>1. MainInv /\ OpenInv /\ Typed /\ WireInv /\ toStub \in Seq(Tokens) /\ Live
  BY DEF Sound, Protocol, Typed, WireInv, Open
<1>2. at = "loop" /\ at' = "start"
  BY <1>1 DEF RecvAck, Open, OpenInv, Acks
<1>3. UNCHANGED <<turn, debug, client, noack, mode, job, arg, silent, attached, done,
                  toClient>>
  BY <1>2 DEF RecvAck, clientVars
<1>4. Live' /\ Open' /\ ~Performed' /\ Question' = Question
  BY <1>1, <1>3 DEF Live, Open, Performed, Question
<1>5. \/ noack /\ toStub' = toStub
      \/ toStub # <<>> /\ toStub[1].kind \in Noise /\ toStub' = Tail(toStub)
  <2>1. CASE noack
    BY <2>1 DEF RecvAck
  <2>2. CASE ~noack
    <3>1. toStub # <<>> /\ toStub[1].kind \in Noise /\ toStub' \in OneByteLess
      BY <1>1, <1>2, <2>2 DEF RecvAck, OpenInv
    <3>2. QED  BY <1>1, <3>1, QuietLess
  <2>3. QED  BY <2>1, <2>2
<1>6. job = Idle => Quiet(toStub')
  BY <1>1, <1>5, QuietTail DEF OpenInv
<1>7. job # Idle => Asked(toStub', Question)
  BY <1>1, <1>2, <1>5, AskedTail DEF OpenInv
<1>8. MainInv'
  BY <1>1, <1>2, <1>3, <1>4 DEF MainInv, OpenInv
<1>9. OpenInv'
  BY <1>1, <1>2, <1>3, <1>4, <1>6, <1>7 DEF OpenInv
<1>10. QED  BY <1>4, <1>8, <1>9 DEF Protocol, DoneInv

LEMMA AckPerformed == ASSUME Clean, Sound, RecvAck, Performed PROVE Protocol'
<1>1. /\ MainInv /\ DoneInv /\ Typed /\ WireInv /\ toStub \in Seq(Tokens) /\ Live
      /\ copy' \in Values
  BY DEF Sound, Protocol, Typed, GdbTypeOK, WireInv, Performed, RecvAck
<1>2. /\ UNCHANGED <<noack, mode, job, arg, silent, attached, done, client, debug>>
      /\ at # "out" /\ client
  BY <1>1 DEF RecvAck, clientVars, MainInv, Acks
<1>3. Live' /\ Performed' /\ ~Open'
  BY <1>1, <1>2 DEF Live, Performed, Open
<1>4. Quiet(toStub')
  <2>1. CASE noack
    BY <1>1, <2>1 DEF RecvAck, DoneInv
  <2>2. CASE ~noack
    <3>1. toStub # <<>> /\ toStub' \in OneByteLess
      BY <2>2 DEF RecvAck, Waiting
    <3>2. toStub[1].kind \in Noise /\ Quiet(Tail(toStub))
      BY <1>1, <3>1, QuietTail DEF DoneInv
    <3>3. QED  BY <1>1, <3>1, <3>2, QuietLess
  <2>3. QED  BY <2>1, <2>2
<1>5. \/ at = "loop" /\ at' = "start" /\ toClient' = toClient /\ turn' = turn
      \/ at = "signal" /\ at' = "out" /\ toClient' = toClient
      \/ /\ at = "dump" /\ at' = "loop" /\ turn' = turn
         /\ toClient' = toClient \o <<Reply("S")>>
  BY <1>1, SentStop DEF RecvAck, Leave
<1>6. MainInv'
  BY <1>1, <1>2, <1>3, <1>5 DEF MainInv
<1>7. DoneInv'
  <2>1. CASE at = "loop" /\ at' = "start" /\ toClient' = toClient
    <3>1. Wire' = Wire /\ Expected' = Expected
      BY <1>2, <2>1 DEF Wire, Stopped, Expected
    <3>2. at' \in WhereDone(job) /\ ~(job = "detach" /\ at = "out")
      BY <1>1, <2>1 DEF WhereDone, DoneInv
    <3>3. copy' = copy
      BY DEF RecvAck
    <3>4. QED  BY <1>1, <1>2, <1>4, <2>1, <3>1, <3>2, <3>3 DEF DoneInv
  <2>2. CASE at = "signal" /\ at' = "out" /\ toClient' = toClient
    <3>1. Wire' = Wire /\ Expected' = Expected
      BY <1>2, <2>2 DEF Wire, Stopped, Expected
    <3>2. at' \in WhereDone(job) /\ job # "detach"
      BY <1>1, <2>2 DEF WhereDone, DoneInv
    <3>3. copy' = copy
      BY DEF RecvAck
    <3>4. QED  BY <1>1, <1>2, <1>4, <2>2, <3>1, <3>2, <3>3 DEF DoneInv
  <2>3. CASE at = "dump" /\ at' = "loop" /\ toClient' = toClient \o <<Reply("S")>>
    <3>1. job \in Stop /\ ~Stopped /\ Stopped' /\ at' \in WhereDone(job)
          /\ job # "detach" /\ job # "read"
      BY <1>1, <2>3 DEF Stopped, DoneInv, WhereDone, Stop, Plain, Clean, StubAssumption,
         Known, Typed, GdbTypeOK, Performed
    <3>2. /\ Suffix(toClient', Expected')
          /\ Len(toClient') = Len(toClient) + 1 /\ Len(Wire') = Len(Wire) + 1
          /\ Len(toClient) \in Nat /\ Len(Wire) \in Nat
      BY <1>1, <1>2, <2>3, <3>1, StopIsPut
    <3>3. mode' = "unacked" => Len(toClient') >= Len(Wire')
      BY <1>1, <1>2, <3>2 DEF DoneInv
    <3>4. mode' = "sent" => Len(toClient') <= Len(Wire')
      BY <1>1, <1>2, <3>2 DEF DoneInv
    <3>5. QED  BY <1>1, <1>2, <1>4, <2>3, <3>1, <3>2, <3>3, <3>4 DEF DoneInv
  <2>4. QED  BY <1>5, <2>1, <2>2, <2>3
<1>8. QED  BY <1>3, <1>6, <1>7 DEF Protocol, OpenInv

LEMMA AckSound == ASSUME Clean, Sound, RecvAck PROVE Protocol'
<1>1. Live => Open \/ Performed
  BY DEF Open, Performed
<1>2. QED  BY <1>1, AckAway, AckOpen, AckPerformed

LEMMA ByeSound == ASSUME Clean, Sound, Bye PROVE Protocol'
<1>1. MainInv /\ OpenInv /\ DoneInv /\ Typed
  BY DEF Sound, Protocol
<1>2. /\ at = "bye" /\ at' = "out" /\ ~client' /\ toStub' = <<>>
      /\ UNCHANGED <<noack, copy, done, mode, job, arg, silent, attached, toClient>>
  BY DEF Bye, Leave, Forget, clientVars
<1>3. CASE ~Live
  <2>1. ~Live'
    BY <1>2, <1>3 DEF Live
  <2>2. QED  BY <1>2, <1>3, <2>1, AwaySound
<1>4. CASE Live
  <2>1. Performed /\ job = "detach"
    <3>1. Performed
      BY <1>1, <1>2, <1>4 DEF OpenInv, Open, Performed
    <3>2. at \in WhereDone(job) /\ job \in Known
      BY <1>1, <3>1 DEF DoneInv, Performed, Clean, StubAssumption, Typed, GdbTypeOK
    <3>3. QED  BY <1>2, <3>1, <3>2 DEF WhereDone, Known
  <2>2. Live' /\ Performed' /\ ~Open' /\ Wire' = Wire /\ Expected' = Expected
    <3>1. Wire' = Wire
      BY <1>2, <2>1 DEF Wire, WireOf
    <3>2. QED  BY <1>2, <1>4, <2>1, <3>1 DEF Live, Performed, Open, Expected
  <2>3. Quiet(toStub')
    BY <1>2 DEF Quiet
  <2>4. MainInv'
    BY <1>1, <1>2, <2>2 DEF MainInv, Live
  <2>5. DoneInv'
    BY <1>1, <1>2, <2>1, <2>2, <2>3 DEF DoneInv, WhereDone, Plain
  <2>6. QED  BY <2>2, <2>4, <2>5 DEF Protocol, OpenInv
<1>5. QED  BY <1>3, <1>4

LEMMA EofSound == ASSUME Clean, Sound, RecvEof PROVE Protocol'
<1>1. MainInv /\ Typed /\ WireInv /\ toStub \in Seq(Tokens)
  BY DEF Sound, Protocol, Typed, WireInv
<1>2. /\ at # "bye" /\ at' = "out" /\ ~client' /\ toStub' = <<>>
      /\ toStub # <<>> /\ First(toStub) = "eof"
      /\ UNCHANGED <<noack, copy, done, mode, job, arg, silent, attached, toClient>>
  BY DEF RecvEof, Leave, Forget, clientVars
<1>3. First(toStub) = toStub[1].kind /\ 1 \in 1..Len(toStub)
  BY <1>1, <1>2, FirstToken, TailFacts
<1>4. ~Live /\ ~Live'
  <2>1. ~Endless(toStub)
    BY <1>2, <1>3 DEF Endless
  <2>2. QED  BY <1>2, <2>1, LiveIsEndless DEF Live
<1>5. QED  BY <1>2, <1>4, AwaySound

LEMMA StartSound == ASSUME Clean, Sound, RecvStart PROVE Protocol'
<1>1. /\ MainInv /\ OpenInv /\ DoneInv /\ Typed /\ WireInv /\ toStub \in Seq(Tokens)
  BY DEF Sound, Protocol, Typed, WireInv
<1>2. /\ at = "start" /\ toStub # <<>> /\ First(toStub) # "eof"
      /\ at' = (IF First(toStub) = "$" THEN "body" ELSE "start") /\ toStub' = Tail(toStub)
      /\ UNCHANGED <<turn, debug, client, noack, copy, done, mode, job, arg, silent,
                     attached, toClient>>
  BY DEF RecvStart, Waiting, guestVars, clientVars
<1>3. First(toStub) = toStub[1].kind /\ client
  BY <1>1, <1>2, FirstToken DEF MainInv
<1>4. CASE ~Live
  <2>1. ~Live' /\ Ended(toStub) /\ ~done
    BY <1>1, <1>2, <1>3, <1>4 DEF MainInv, Live
  <2>2. Ended(toStub')
    BY <1>1, <1>2, <1>3, <2>1, EndedTail
  <2>3. at' # "out" /\ at # "out"
    BY <1>2
  <2>4. QED  BY <1>2, <1>3, <1>4, <2>1, <2>2, <2>3, AwaySound
<1>5. CASE Open
  <2>1. Live /\ Live' /\ Open' /\ ~Performed' /\ Question' = Question
    BY <1>2, <1>5 DEF Live, Open, Performed, Question
  <2>2. CASE job = Idle
    <3>1. Quiet(toStub') /\ at' = "start"
      BY <1>1, <1>2, <1>3, <1>5, <2>2, QuietTail DEF OpenInv, Noise
    <3>2. OpenInv'
      BY <1>1, <1>2, <1>5, <2>1, <2>2, <3>1 DEF OpenInv
    <3>3. MainInv'
      BY <1>1, <1>2, <2>1, <3>1 DEF MainInv
    <3>4. QED  BY <2>1, <3>2, <3>3 DEF Protocol, DoneInv
  <2>3. CASE job # Idle
    <3>1. Asked(toStub, Question)
      BY <1>1, <1>2, <1>5, <2>3 DEF OpenInv
    <3>2. /\ at' = "body" => AtBody(toStub', Question)
          /\ at' # "body" => Asked(toStub', Question)
      <4>1. toStub[1].kind \in Noise \cup {"$"}
        BY <1>1, <3>1, AskedTail
      <4>2. CASE toStub[1].kind \in Noise
        BY <1>1, <1>2, <1>3, <3>1, <4>2, AskedTail DEF Noise
      <4>3. CASE toStub[1].kind = "$"
        BY <1>1, <1>2, <1>3, <3>1, <4>3, AskedTail
      <4>4. QED  BY <4>1, <4>2, <4>3
    <3>3. at' \in {"start", "body"}
      BY <1>2
    <3>4. OpenInv'
      BY <1>1, <1>2, <1>5, <2>1, <2>3, <3>2, <3>3 DEF OpenInv
    <3>5. MainInv'
      BY <1>1, <1>2, <2>1, <3>3 DEF MainInv
    <3>6. QED  BY <2>1, <3>4, <3>5 DEF Protocol, DoneInv
  <2>4. QED  BY <2>2, <2>3
<1>6. CASE Performed
  <2>1. Quiet(toStub') /\ at' = "start"
    BY <1>1, <1>2, <1>3, <1>6, QuietTail DEF DoneInv, Noise
  <2>2. Live /\ Live' /\ ~Open' /\ Performed'
    BY <1>2, <1>6 DEF Live, Open, Performed
  <2>3. Wire' = Wire /\ Expected' = Expected
    BY <1>2, <2>1 DEF Wire, Stopped, Expected
  <2>4. MainInv'
    BY <1>1, <1>2, <2>1, <2>2 DEF MainInv
  <2>5. DoneInv'
    BY <1>1, <1>2, <1>6, <2>1, <2>2, <2>3 DEF DoneInv
  <2>6. QED  BY <2>2, <2>4, <2>5 DEF Protocol, OpenInv
<1>7. QED  BY <1>4, <1>5, <1>6 DEF Open, Performed

\* A packet that is not damaged is carried out.
LEMMA BodyIsDone ==
  ASSUME Clean, Typed, RecvBody
  PROVE  /\ toStub # <<>> /\ Body = toStub[1] /\ Body \in Bodies /\ at = "body"
         /\ Body.job \in Known /\ toStub' = Tail(toStub) /\ done' = (job # Idle)
         /\ \/ Body.job \in Plain \cup {"detach", "signal", "dump"} /\ Command
            \/ Body.job \in {"cont", "step"} /\ Resume
<1>1. at = "body" /\ Waiting /\ WireInv
  BY DEF RecvBody, Typed
<1>2. toStub # <<>> /\ Body = toStub[1] /\ Body \in Bodies
  BY <1>1, BodyIsRead
<1>3. Body.form = "clean" /\ Body.job \in Known
  BY <1>2 DEF Bodies, Clean, StubAssumption
<1>4. DOMAIN Replies = Plain \cup {"detach", "signal", "dump"}
  BY DEF Replies, Plain
<1>5. Command \/ Resume
  BY <1>3 DEF RecvBody
<1>6. toStub' = Tail(toStub) /\ done' = (job # Idle)
  BY <1>5 DEF Command, Resume
<1>7. \/ Body.job \in Plain \cup {"detach", "signal", "dump"} /\ Command
      \/ Body.job \in {"cont", "step"} /\ Resume
  BY <1>3, <1>4 DEF RecvBody, Known, Plain
<1>8. QED  BY <1>1, <1>2, <1>3, <1>6, <1>7

LEMMA BodyAway == ASSUME Clean, Sound, RecvBody, ~Live PROVE Protocol'
<1>1. MainInv /\ Typed /\ toStub \in Seq(Tokens)
  BY DEF Sound, Protocol, Typed, WireInv
<1>2. /\ toStub # <<>> /\ Body = toStub[1] /\ Body \in Bodies /\ at = "body"
      /\ toStub' = Tail(toStub) /\ done' = (job # Idle) /\ (Command \/ Resume)
  BY <1>1, BodyIsDone
<1>3. client /\ Ended(toStub) /\ ~done' /\ toClient = <<>>
  BY <1>1, <1>2 DEF MainInv
<1>4. Ended(toStub')
  BY <1>1, <1>2, <1>3, EndedTail DEF Bodies
<1>5. /\ UNCHANGED <<client, mode, job, attached, silent>>
      /\ at' # "out" => UNCHANGED <<debug, turn>>
  BY <1>2 DEF Command, Resume, Leave, guestVars, clientVars
<1>6. mode \in {"off", "connecting"} /\ ~Live'
  BY <1>1, <1>5 DEF Live, Typed, GdbTypeOK
<1>7. toClient' = toClient
  BY <1>2, <1>6 DEF Command, Resume, Sent
<1>8. QED  BY <1>2, <1>3, <1>4, <1>5, <1>6, <1>7, AwaySound

\* What has been read when a request is performed.
LEMMA BodyOpen ==
  ASSUME Clean, Sound, RecvBody, Live
  PROVE  /\ Open /\ job # Idle /\ at = "body" /\ client /\ debug /\ turn = "timer"
         /\ job \in Known /\ Body = Question /\ Quiet(toStub') /\ done'
         /\ \/ job \in Plain \cup {"detach", "signal", "dump"} /\ Command
            \/ job \in {"cont", "step"} /\ Resume
<1>1. /\ MainInv /\ OpenInv /\ DoneInv /\ Typed /\ WireInv /\ toStub \in Seq(Tokens)
  BY DEF Sound, Protocol, Typed, WireInv
<1>2. /\ toStub # <<>> /\ Body = toStub[1] /\ at = "body" /\ Body.job \in Known
      /\ toStub' = Tail(toStub) /\ done' = (job # Idle)
      /\ \/ Body.job \in Plain \cup {"detach", "signal", "dump"} /\ Command
         \/ Body.job \in {"cont", "step"} /\ Resume
  BY <1>1, BodyIsDone
<1>3. Open
  <2>1. ~Performed
    BY <1>1, <1>2 DEF DoneInv, WhereDone
  <2>2. QED  BY <2>1 DEF Open, Performed
<1>4. job # Idle /\ AtBody(toStub, Question)
  BY <1>1, <1>2, <1>3 DEF OpenInv
<1>5. Body = Question /\ Quiet(toStub')
  BY <1>1, <1>2, <1>4, BodyTail
<1>6. Body.job = job
  BY <1>5 DEF Question
<1>7. client /\ debug /\ turn = "timer"
  BY <1>1, <1>2 DEF MainInv
<1>8. QED  BY <1>2, <1>3, <1>4, <1>5, <1>6, <1>7

\* An answer that is put behind what the client has not read: nothing, or the first
\* stop of its session.
Unread == IF attached THEN <<>> ELSE <<"S">>

LEMMA UnreadFits ==
  ASSUME Clean, Typed, MainInv, OpenInv, Open
  PROVE  /\ Unread \in Seq(Letters) /\ toClient \in Seq(FromStub)
         /\ Suffix(toClient, Unread)
         /\ mode = "sent" /\ job # Idle => Len(toClient) = 0
<1>1. "S" \in Letters
  BY DEF Letters
<1>2. Unread \in Seq(Letters)
  BY <1>1 DEF Unread
<1>3. toClient \in Seq(FromStub)
  BY DEF Typed, WireInv
<1>4. Suffix(toClient, Unread)
  <2>1. CASE toClient = <<>>
    BY <1>2, <2>1 DEF Suffix
  <2>2. CASE toClient # <<>>
    <3>1. ~attached /\ Len(toClient) = 1 /\ toClient[1].kind = "S"
      BY <2>2 DEF OpenInv
    <3>2. Unread = <<"S">>
      BY <3>1 DEF Unread
    <3>3. Len(Unread) = 1 /\ Unread[1] = "S"
      BY <3>2
    <3>4. QED  BY <3>1, <3>3 DEF Suffix
  <2>3. QED  BY <2>1, <2>2
<1>5. mode = "sent" /\ job # Idle => Len(toClient) = 0
  <2>1. mode = "sent" /\ job # Idle => silent
    BY DEF OpenInv
  <2>2. silent => toClient = <<>>
    BY DEF OpenInv, MainInv
  <2>3. QED  BY <2>1, <2>2
<1>6. QED  BY <1>2, <1>3, <1>4, <1>5

LEMMA AckFits ==
  ASSUME Clean, Typed, MainInv, OpenInv, Open, NEW w, w = <<"+">>,
         toClient' = toClient \o <<Token("+")>>
  PROVE  /\ attached => Suffix(toClient', w)
         /\ Len(toClient') = Len(toClient) + 1 /\ Len(toClient) \in Nat /\ Len(w) = 1
<1>1. /\ Unread \in Seq(Letters) /\ toClient \in Seq(FromStub)
      /\ Suffix(toClient, Unread)
  BY UnreadFits
<1>2. Token("+") \in FromStub /\ Token("+").kind = "+" /\ "+" \in Letters
  BY ByteFacts DEF Letters
<1>3. /\ Suffix(toClient', Unread \o <<"+">>)
      /\ Len(toClient') = Len(toClient) + 1 /\ Len(toClient) \in Nat
  BY <1>1, <1>2, SuffixPut
<1>4. attached => Unread \o <<"+">> = w
  BY DEF Unread
<1>5. QED  BY <1>3, <1>4

LEMMA PutTwoAny ==
  ASSUME NEW S, NEW s, NEW p, NEW q, s \in Seq(S), p \in S, q \in S,
         NEW r, r = <<p, q>>
  PROVE  s \o r = (s \o <<p>>) \o <<q>>
BY PutTwoFacts

LEMMA AnswerFits ==
  ASSUME Clean, Typed, MainInv, OpenInv, Open, NEW p \in FromStub, NEW k \in Letters,
         p.kind = k, NEW w, w = <<"+", k>>, toClient' = toClient \o <<Token("+"), p>>
  PROVE  /\ Suffix(toClient', IF attached THEN w ELSE <<"S">> \o w)
         /\ Len(toClient') = Len(toClient) + 2 /\ Len(toClient) \in Nat /\ Len(w) = 2
         /\ toClient' # <<>> /\ toClient'[Len(toClient')] = p
<1> DEFINE u == Unread  v == u \o <<"+">>  s == toClient \o <<Token("+")>>
<1>1. u \in Seq(Letters) /\ toClient \in Seq(FromStub) /\ Suffix(toClient, u)
  BY UnreadFits
<1>2. Token("+") \in FromStub /\ Token("+").kind = "+" /\ "+" \in Letters /\ "S" \in Letters
  BY ByteFacts DEF Letters
<1>3. toClient' = s \o <<p>>
  <2> DEFINE plus == Token("+")
  <2>1. plus \in FromStub /\ toClient' = toClient \o <<plus, p>>
    BY <1>2
  <2>2. toClient \in Seq(FromStub)
    BY <1>1
  <2> HIDE DEF plus
  <2>3. toClient \o <<plus, p>> = (toClient \o <<plus>>) \o <<p>>
    BY <2>1, <2>2, PutTwoAny
  <2>4. QED  BY <2>1, <2>3 DEF plus
<1> DEFINE f == IF attached THEN w ELSE <<"S">> \o w
<1>4. f = v \o <<k>>
  <2>1. CASE attached
    <3>1. v = <<"+">>
      BY <2>1 DEF Unread
    <3>2. QED  BY <2>1, <3>1, TwoBytes
  <2>2. CASE ~attached
    <3>1. u = <<"S">>
      BY <2>2 DEF Unread
    <3>2. u \o <<"+", k>> = (u \o <<"+">>) \o <<k>>
      <4> DEFINE sign == "+"
      <4>1. sign \in Letters /\ u \in Seq(Letters)
        BY <1>1, <1>2
      <4> HIDE DEF sign, u
      <4>2. u \o <<sign, k>> = (u \o <<sign>>) \o <<k>>
        BY <4>1, PutTwoAny
      <4>3. QED  BY <4>2 DEF sign
    <3>3. QED  BY <2>2, <3>1, <3>2
  <2>3. QED  BY <2>1, <2>2
<1> HIDE DEF u
<1>5. /\ Suffix(s, v) /\ Len(s) = Len(toClient) + 1 /\ Len(toClient) \in Nat
      /\ s \in Seq(FromStub) /\ v \in Seq(Letters)
  BY <1>1, <1>2, SuffixPut, PutFacts
<1> HIDE DEF s, v
<1>6. /\ Suffix(s \o <<p>>, v \o <<k>>) /\ Len(s \o <<p>>) = Len(s) + 1
      /\ Len(s) \in Nat
  BY <1>5, SuffixPut
<1>7. s \o <<p>> # <<>> /\ (s \o <<p>>)[Len(s) + 1] = p
  BY <1>5, PutFacts, FrontStays
<1>8. Suffix(toClient', f)
  <2> HIDE DEF f
  <2>1. QED  BY <1>3, <1>4, <1>6
<1>9. Len(toClient') = Len(toClient) + 2 /\ Len(w) = 2
  BY <1>3, <1>5, <1>6
<1>10. toClient' # <<>> /\ toClient'[Len(toClient')] = p
  BY <1>3, <1>6, <1>7
<1>11. QED  BY <1>5, <1>8, <1>9, <1>10

LEMMA CommandSound ==
  ASSUME Clean, Sound, RecvBody, Live, Command,
         job \in Plain \cup {"detach", "signal", "dump"}
  PROVE  Protocol'
<1>1. MainInv /\ OpenInv /\ Typed /\ copy' \in Values
  BY BodyTyped DEF Sound, Protocol, Typed, GdbTypeOK, Clean
<1>2. /\ Open /\ job # Idle /\ at = "body" /\ client /\ debug /\ turn = "timer"
      /\ job \in Known /\ Body = Question /\ Quiet(toStub') /\ done'
  BY BodyOpen
<1>3. Body.job = job
  BY <1>2 DEF Question
<1>4. /\ at' = Then(job) /\ toClient' = Sent(<<Token("+"), Reply(Replies[job])>>)
      /\ noack' = (noack \/ job = "noack")
      /\ UNCHANGED <<turn, debug, client, mode, job, arg, silent, attached>>
  BY <1>3 DEF Command, guestVars, clientVars
<1>5. Live' /\ Performed' /\ ~Open'
  BY <1>2, <1>4 DEF Live, Performed, Open
<1>6. at' \in WhereDone(job) /\ at' # "out" /\ ~(job \in {"signal", "dump"} /\ Stopped')
  BY <1>2, <1>4 DEF Then, Acks, WhereDone, Plain, Stopped
<1>7. PICK k \in {"data", "OK", "E00"} :
        Replies[job] = k /\ (job = "read" => k = "data") /\ Wire' = <<"+", k>>
  <2>1. PICK k \in {"data", "OK", "E00"} : Replies[job] = k /\ (job = "read" => k = "data")
    BY DEF Replies, Plain
  <2>2. CASE job \in Plain \cup {"detach"}
    BY <1>4, <2>1, <2>2 DEF Wire, WireOf
  <2>3. CASE job \in {"signal", "dump"}
    <3>1. k = "OK"
      BY <2>1, <2>3 DEF Replies
    <3>2. WireOf(job, FALSE) = <<"+", "OK">>
      BY <2>3 DEF WireOf, Plain
    <3>3. Stopped' = FALSE
      BY <1>6, <2>3 DEF Stopped
    <3>4. QED  BY <1>4, <2>1, <3>1, <3>2, <3>3 DEF Wire
  <2>4. QED  BY <2>2, <2>3
<1>8. toClient' = toClient \o <<Token("+"), Reply(k)>> /\ Reply(k) \in FromStub
      /\ Reply(k).kind = k /\ Reply(k).value = copy' /\ k \in Letters
  BY <1>1, <1>4, <1>7, ReplyFacts DEF Sent, Live, Letters
<1> DEFINE p == Reply(k)  w == Wire'
<1>9. w = <<"+", k>> /\ p \in FromStub /\ p.kind = k /\ p.value = copy'
      /\ toClient' = toClient \o <<Token("+"), p>>
  BY <1>7, <1>8
<1>10. Expected' = IF attached THEN w ELSE <<"S">> \o w
  BY <1>4 DEF Expected
<1> HIDE DEF p, w
<1>11. /\ Suffix(toClient', Expected')
       /\ Len(toClient') = Len(toClient) + 2 /\ Len(toClient) \in Nat /\ Len(w) = 2
       /\ toClient' # <<>> /\ toClient'[Len(toClient')] = p
  BY <1>1, <1>2, <1>8, <1>9, <1>10, AnswerFits
<1>12. mode = "sent" => Len(toClient) = 0
  BY <1>1, <1>2, UnreadFits
<1>13. MainInv'
  BY <1>1, <1>2, <1>4, <1>5 DEF MainInv
<1>14. ~attached => job = "read"
  BY <1>1, <1>2 DEF OpenInv
<1>15. /\ mode = "unacked" => Len(toClient') >= Len(Wire')
       /\ mode = "sent" => Len(toClient') <= Len(Wire')
  BY <1>11, <1>12 DEF w
<1>16. toClient'[Len(toClient')].value = copy'
  BY <1>9, <1>11
<1>17. DoneInv'
  BY <1>2, <1>4, <1>5, <1>6, <1>11, <1>14, <1>15, <1>16 DEF DoneInv
<1>18. QED  BY <1>5, <1>13, <1>17 DEF Protocol, OpenInv

LEMMA ResumeSound ==
  ASSUME Clean, Sound, RecvBody, Live, Resume, job \in {"cont", "step"}
  PROVE  Protocol'
<1>1. MainInv /\ OpenInv /\ Typed
  BY DEF Sound, Protocol
<1>2. /\ Open /\ job # Idle /\ at = "body" /\ client /\ debug
      /\ job \in Known /\ Body = Question /\ Quiet(toStub') /\ done'
  BY BodyOpen
<1>3. Body.job = job
  BY <1>2 DEF Question
<1>4. /\ at' = "out" /\ toClient' = Sent(<<Token("+")>>) /\ (job = "step" => debug')
      /\ UNCHANGED <<noack, client, mode, job, arg, silent, attached>>
  BY <1>2, <1>3 DEF Resume, Leave, DebugAfter, clientVars
<1>5. Live' /\ Performed' /\ ~Open'
  BY <1>2, <1>4 DEF Live, Performed, Open
<1> DEFINE w == Wire'
<1>6. w = <<"+">>
  <2>1. Stopped' = FALSE
    BY <1>4 DEF Stopped
  <2>2. WireOf(job, FALSE) = <<"+">>
    BY DEF WireOf, Plain
  <2>3. QED  BY <1>4, <2>1, <2>2 DEF Wire
<1>7. attached
  BY <1>1, <1>2 DEF OpenInv
<1>8. Expected' = w /\ toClient' = toClient \o <<Token("+")>>
  BY <1>4, <1>7 DEF Expected, Sent, Live
<1> HIDE DEF w
<1>9. /\ Suffix(toClient', w)
      /\ Len(toClient') = Len(toClient) + 1 /\ Len(toClient) \in Nat /\ Len(w) = 1
  BY <1>1, <1>2, <1>6, <1>7, <1>8, AckFits
<1>10. mode = "sent" => Len(toClient) = 0
  BY <1>1, <1>2, UnreadFits
<1>11. /\ mode = "unacked" => Len(toClient') >= Len(Wire')
       /\ mode = "sent" => Len(toClient') <= Len(Wire')
  BY <1>9, <1>10 DEF w
<1>12. MainInv'
  BY <1>1, <1>2, <1>4, <1>5 DEF MainInv
<1>13. at' \in WhereDone(job) /\ job # "detach" /\ job # "signal" /\ job # "noack"
       /\ job # "read"
  BY <1>4 DEF WhereDone, Plain
<1>14. DoneInv'
  BY <1>2, <1>4, <1>5, <1>7, <1>8, <1>9, <1>11, <1>13 DEF DoneInv
<1>15. QED  BY <1>5, <1>12, <1>14 DEF Protocol, OpenInv

LEMMA BodySound == ASSUME Clean, Sound, RecvBody PROVE Protocol'
<1>1. CASE Live
  BY <1>1, BodyOpen, CommandSound, ResumeSound
<1>2. CASE ~Live
  BY <1>2, BodyAway
<1>3. QED  BY <1>1, <1>2

LEMMA GetAckSound == ASSUME Clean, Sound, GetAck PROVE Protocol'
<1>1. MainInv /\ OpenInv /\ DoneInv /\ Typed /\ WireInv /\ toClient \in Seq(FromStub)
  BY DEF Sound, Protocol, Typed, WireInv
<1>2. /\ toClient # <<>> /\ First(toClient) \in {"+", "-"} /\ toClient' = Tail(toClient)
      /\ UNCHANGED <<turn, debug, client, noack, copy, at, done, job, arg, silent, attached>>
  BY DEF GetAck, guestVars, stubVars
<1>3. First(toClient) = toClient[1].kind /\ Live
  BY <1>1, <1>2, FirstPacket DEF MainInv
<1>4. Performed
  <2>1. ~Open
    BY <1>1, <1>2, <1>3 DEF OpenInv
  <2>2. QED  BY <1>3, <2>1 DEF Open, Performed
<1>5. /\ toClient[1].kind = "+" /\ Len(toClient) = Len(Wire)
      /\ Len(toClient) \in Nat \ {0} /\ Suffix(Tail(toClient), Expected)
      /\ Len(Tail(toClient)) = Len(toClient) - 1
      /\ Tail(toClient) # <<>> =>
           Tail(toClient)[Len(Tail(toClient))] = toClient[Len(toClient)]
  BY <1>1, <1>2, <1>3, <1>4, HeadOfAnswer
<1>6. toStub' = toStub /\ mode' = "sent"
  <2>1. mode \in {"unacked", "sent"}
    BY <1>1, <1>3, <1>4 DEF Live, Performed, MainInv
  <2>2. QED  BY <1>3, <1>5, <2>1 DEF GetAck
<1>7. Live' /\ Performed' /\ ~Open'
  BY <1>2, <1>4, <1>6 DEF Live, Performed, Open
<1>8. Wire' = Wire /\ Expected' = Expected
  BY <1>2 DEF Wire, Stopped, Expected
<1>9. MainInv'
  BY <1>1, <1>2, <1>4, <1>6, <1>7 DEF MainInv, Performed
<1>10. Len(toClient') <= Len(Wire')
  BY <1>2, <1>5, <1>8
<1>11. DoneInv'
  <2>1. job' = "read" /\ toClient' # <<>> => toClient'[Len(toClient')].value = copy'
    BY <1>1, <1>2, <1>4, <1>5 DEF DoneInv
  <2>2. QED  BY <1>1, <1>2, <1>4, <1>5, <1>6, <1>8, <1>10, <2>1 DEF DoneInv
<1>12. QED  BY <1>7, <1>9, <1>11 DEF Protocol, OpenInv

\* The only packet that a client drops is the first stop of its session.
LEMMA GetOtherSound == ASSUME Clean, Sound, GetOther PROVE Protocol'
<1>1. /\ MainInv /\ OpenInv /\ DoneInv /\ Typed /\ WireInv /\ toClient \in Seq(FromStub)
      /\ toStub \in Seq(Tokens)
  BY DEF Sound, Protocol, Typed, WireInv
<1>2. /\ toClient # <<>> /\ First(toClient) \notin {"+", "-"} /\ toClient' = Tail(toClient)
      /\ ~IsAnswer(Head(toClient)) /\ toStub' = ToStub(Ack)
      /\ UNCHANGED <<turn, debug, client, noack, copy, at, done, mode, job, arg, silent,
                     attached>>
  BY DEF GetOther, guestVars, stubVars, clientVars
<1>3. First(toClient) = toClient[1].kind /\ Live /\ Head(toClient) = toClient[1]
  BY <1>1, <1>2, FirstPacket DEF MainInv
<1>4. Live' /\ Open' = Open /\ Performed' = Performed /\ Question' = Question
  BY <1>2, <1>3 DEF Live, Open, Performed, Question
<1>5. Wire' = Wire /\ Expected' = Expected
  BY <1>2 DEF Wire, Stopped, Expected
<1>6. Token("+") \in Tokens /\ Token("+").kind \in Noise
  BY ByteFacts DEF Noise
<1>7. CASE Open
  <2>1. ~attached /\ Len(toClient) = 1 /\ client /\ ~silent
    BY <1>1, <1>2, <1>7 DEF OpenInv, MainInv
  <2>2. toClient' = <<>>
    <3>1. toClient' \in Seq(FromStub) /\ Len(toClient') = 0
      BY <1>1, <1>2, <2>1, TailFacts
    <3>2. QED  BY <3>1
  <2>3. toStub' = toStub \o <<Token("+")>>
    BY <1>2, <2>1 DEF ToStub, Ack
  <2>4. job = Idle => Quiet(toStub')
    BY <1>1, <1>6, <1>7, <2>3, QuietPut DEF OpenInv
  <2>5. job # Idle => /\ at = "body" => AtBody(toStub', Question)
                      /\ at # "body" => Asked(toStub', Question)
    BY <1>1, <1>6, <1>7, <2>3, BodyPut, AskedPut DEF OpenInv
  <2>6. toStub # <<>> => toStub' # <<>> /\ toStub'[1] = toStub[1]
    BY <1>1, <1>6, <2>3, FrontStays
  <2>7. MainInv'
    BY <1>1, <1>2, <1>4, <2>1 DEF MainInv
  <2>8. OpenInv'
    BY <1>1, <1>2, <1>4, <1>7, <2>1, <2>2, <2>4, <2>5, <2>6 DEF OpenInv
  <2>9. DoneInv'
    BY <1>4, <1>7 DEF DoneInv, Open, Performed
  <2>10. QED  BY <2>7, <2>8, <2>9 DEF Protocol
<1>8. CASE Performed
  <2>1. /\ Len(toClient) \in Nat \ {0} /\ Len(Wire) \in 1..3
        /\ Len(toClient) <= Len(Wire) + 1
        /\ attached => Len(toClient) <= Len(Wire)
        /\ toClient[1].kind # "-"
        /\ toClient[1].kind = "+" <=> Len(toClient) = Len(Wire)
        /\ Suffix(Tail(toClient), Expected) /\ Len(Tail(toClient)) = Len(toClient) - 1
        /\ Tail(toClient) # <<>> =>
             Tail(toClient)[Len(Tail(toClient))] = toClient[Len(toClient)]
    BY <1>1, <1>2, <1>8, HeadOfAnswer
  <2>2. Len(toClient) # Len(Wire)
    BY <1>2, <1>3, <2>1
  <2>3. mode = "unacked" => Len(Tail(toClient)) >= Len(Wire)
    BY <1>1, <1>8, <2>1, <2>2 DEF DoneInv
  <2>4. mode = "sent" => Len(Tail(toClient)) <= Len(Wire)
    BY <1>1, <1>8, <2>1 DEF DoneInv
  <2>5. Quiet(toStub')
    <3>1. CASE client /\ ~silent
      <4>1. toStub' = toStub \o <<Token("+")>>
        BY <1>2, <3>1 DEF ToStub, Ack
      <4>2. QED  BY <1>1, <1>6, <1>8, <4>1, QuietPut DEF DoneInv
    <3>2. CASE ~client \/ silent
      <4>1. toStub' = toStub
        <5>1. toStub \o <<>> = toStub
          BY <1>1, ConcatEmptySeq
        <5>2. QED  BY <1>2, <3>2, <5>1 DEF ToStub, Ack
      <4>2. QED  BY <1>1, <1>8, <4>1 DEF DoneInv
    <3>3. QED  BY <3>1, <3>2
  <2>6. ~client => toStub' = <<>>
    BY <1>1, <1>2 DEF ToStub, MainInv
  <2>7. MainInv'
    BY <1>1, <1>2, <1>4, <2>6 DEF MainInv
  <2>8. job = "read" /\ toClient' # <<>> => toClient'[Len(toClient')].value = copy
    BY <1>1, <1>2, <1>8, <2>1 DEF DoneInv
  <2>9. DoneInv'
    BY <1>1, <1>2, <1>4, <1>5, <1>8, <2>1, <2>3, <2>4, <2>5, <2>8 DEF DoneInv
  <2>10. OpenInv'
    BY <1>4, <1>8 DEF OpenInv, Open, Performed
  <2>11. QED  BY <2>7, <2>9, <2>10 DEF Protocol
<1>9. QED  BY <1>3, <1>7, <1>8 DEF Open, Performed

\* What the client takes for its answer is one, and the last of it.
LEMMA AnswerIsLast ==
  ASSUME Clean, Sound, GetAnswer
  PROVE  /\ Performed /\ toClient' = <<>> /\ Head(toClient) = toClient[1]
         /\ Len(toClient) = 1
         /\ at \in {"loop", "start"} \/ job = "detach"
<1>1. /\ MainInv /\ OpenInv /\ DoneInv /\ Typed /\ WireInv /\ toClient \in Seq(FromStub)
  BY DEF Sound, Protocol, Typed, WireInv
<1>2. /\ toClient # <<>> /\ First(toClient) \notin {"+", "-"} /\ toClient' = Tail(toClient)
      /\ mode = "sent" /\ (job \in Stop => Head(toClient).kind = "S")
  BY DEF GetAnswer, IsAnswer
<1>3. First(toClient) = toClient[1].kind /\ Head(toClient) = toClient[1]
  BY <1>1, <1>2, FirstPacket
<1>4. Live /\ job # Idle
  BY <1>1, <1>2 DEF Live, MainInv
<1>5. Performed
  <2>1. ~Open
    <3> SUFFICES ASSUME Open PROVE FALSE
      OBVIOUS
    <3>1. silent /\ ~attached
      BY <1>1, <1>2, <1>4 DEF OpenInv
    <3>2. QED  BY <1>1, <3>1 DEF MainInv
  <2>2. QED  BY <1>4, <2>1 DEF Open, Performed
<1>6. /\ Len(toClient) \in Nat \ {0} /\ Len(Wire) \in 1..3
      /\ toClient[1].kind = "+" <=> Len(toClient) = Len(Wire)
      /\ Len(toClient) <= Len(Wire) =>
           toClient[1].kind = Wire[Len(Wire) - Len(toClient) + 1]
  BY <1>1, <1>2, <1>5, HeadOfAnswer
<1>7. Len(toClient) < Len(Wire)
  <2>1. Len(toClient) <= Len(Wire) /\ Len(toClient) # Len(Wire)
    BY <1>1, <1>2, <1>3, <1>5, <1>6 DEF DoneInv
  <2>2. QED  BY <1>6, <2>1
<1> DEFINE w == Wire  h == Len(w) - Len(toClient) + 1
<1>8. /\ w \in Seq(Letters) /\ Len(w) \in 1..3 /\ job \in Known
      /\ job \in Plain \cup {"detach"} => Len(w) = 2
      /\ job \in Stop => \A i \in 1..Len(w) : w[i] = "S" <=> Stopped /\ i = Len(w)
  <2>1. Stopped \in BOOLEAN /\ job \in Known /\ w = WireOf(job, Stopped)
    BY <1>1, <1>4 DEF Stopped, Wire, Clean, StubAssumption, Typed, GdbTypeOK
  <2> HIDE DEF w
  <2>2. QED  BY <2>1, WireShape
<1>9. toClient[1].kind = w[h] /\ h \in 2..Len(w) /\ Len(toClient) = Len(w) - h + 1
  BY <1>6, <1>7
<1> HIDE DEF w, h
<1>10. CASE job \in Plain \cup {"detach"}
  <2>1. Len(toClient) = 1
    <3>1. Len(w) = 2
      BY <1>8, <1>10
    <3>2. h \in 2..Len(w) /\ Len(toClient) = Len(w) - h + 1
      BY <1>9
    <3>3. QED  BY <3>1, <3>2
  <2>2. at \in {"loop", "start"} \/ job = "detach"
    BY <1>1, <1>5, <1>10 DEF DoneInv, WhereDone
  <2>3. QED  BY <1>1, <1>2, <1>3, <1>5, <2>1, <2>2, TailFacts, EmptySeq
<1>11. CASE job \in Stop
  <2>1. w[h] = "S" /\ h \in 1..Len(w)
    BY <1>2, <1>3, <1>8, <1>9, <1>11
  <2>2. Stopped /\ h = Len(w)
    BY <1>8, <1>11, <2>1
  <2>3. Len(toClient) = 1 /\ at \in {"loop", "start"}
    BY <1>8, <1>9, <2>2 DEF Stopped
  <2>4. QED  BY <1>1, <1>2, <1>3, <1>5, <2>3, TailFacts, EmptySeq
<1>12. QED  BY <1>8, <1>10, <1>11 DEF Known, Plain, Stop

LEMMA GetAnswerSound == ASSUME Clean, Sound, GetAnswer PROVE Protocol'
<1>1. /\ MainInv /\ DoneInv /\ Typed /\ WireInv /\ toStub \in Seq(Tokens)
      /\ Performed /\ toClient' = <<>> /\ (at \in {"loop", "start"} \/ job = "detach")
  BY AnswerIsLast DEF Sound, Protocol, Typed, WireInv
<1>2. /\ toStub' = ToStub(Ack \o (IF job = "detach" THEN <<Token("eof")>> ELSE <<>>))
      /\ mode' = (IF job = "detach" THEN "off" ELSE "idle")
      /\ attached' = (job # "detach") /\ job' = Idle
      /\ silent' = (job # "detach" /\ (silent \/ job = "noack"))
      /\ UNCHANGED <<turn, debug, client, noack, copy, at, done>>
  BY DEF GetAnswer, guestVars, stubVars
<1>3. /\ Quiet(toStub) /\ at \in WhereDone(job) /\ (job = "noack" => noack)
      /\ client <=> ~(job = "detach" /\ at = "out")
  BY <1>1 DEF DoneInv
<1>4. /\ Token("+") \in Tokens /\ Token("+").kind \in Noise
      /\ Token("eof") \in Tokens /\ Token("eof").kind = "eof"
  BY ByteFacts DEF Noise
<1>5. CASE job = "detach"
  <2>1. ~Live' /\ ~attached' /\ ~silent'
    BY <1>2, <1>5 DEF Live
  <2>2. client => Ended(toStub')
    <3> SUFFICES ASSUME client PROVE Ended(toStub')
      OBVIOUS
    <3> DEFINE q == toStub \o Ack
    <3>1. q \in Seq(Tokens) /\ Quiet(q)
      <4>1. CASE silent
        BY <1>1, <1>3, <4>1, ConcatEmptySeq DEF Ack
      <4>2. CASE ~silent
        BY <1>1, <1>3, <1>4, <4>2, QuietPut, PutFacts DEF Ack
      <4>3. QED  BY <4>1, <4>2
    <3>2. toStub' = q \o <<Token("eof")>>
      <4>1. toStub' = toStub \o (Ack \o <<Token("eof")>>)
        BY <1>2, <1>5 DEF ToStub
      <4>2. CASE silent
        <5>1. Ack = <<>> /\ <<>> \o <<Token("eof")>> = <<Token("eof")>> /\ q = toStub
          BY <1>1, <4>2, ConcatEmptySeq DEF Ack
        <5>2. QED  BY <4>1, <5>1
      <4>3. CASE ~silent
        <5> DEFINE a == Token("+")  e == Token("eof")
        <5>1. Ack = <<a>> /\ a \in Tokens /\ e \in Tokens
          BY <1>4, <4>3 DEF Ack
        <5> HIDE DEF a, e
        <5>2. <<a>> \o <<e>> = <<a, e>>
          BY TwoBytes
        <5>3. toStub \o <<a, e>> = (toStub \o <<a>>) \o <<e>>
          BY <1>1, <5>1, PutTwoFacts
        <5>4. toStub' = toStub \o (Ack \o <<e>>) /\ q = toStub \o Ack
          BY <4>1 DEF e
        <5>5. toStub' = q \o <<e>>
          BY <5>1, <5>2, <5>3, <5>4
        <5>6. QED  BY <5>5 DEF e
      <4>4. QED  BY <4>2, <4>3
    <3> HIDE DEF q
    <3>3. Endless(q)
      <4> DEFINE b == [kind |-> "body"]
      <4>1. b.kind = "body"
        OBVIOUS
      <4> HIDE DEF b
      <4>2. QED  BY <3>1, <4>1, NoEnd
    <3>4. QED  BY <1>4, <3>1, <3>2, <3>3, EndedPut
  <2>3. ~client => toStub' = <<>>
    BY <1>1, <1>2 DEF ToStub, MainInv
  <2>4. client => at = "bye"
    BY <1>3, <1>5 DEF WhereDone, Plain
  <2>5. MainInv'
    BY <1>1, <1>2, <2>1, <2>2, <2>3, <2>4 DEF MainInv
  <2>6. QED  BY <2>1, <2>5 DEF Protocol, OpenInv, DoneInv, Open, Performed
<1>6. CASE job # "detach"
  <2>1. /\ Live' /\ Open' /\ ~Performed' /\ attached' /\ mode' = "idle" /\ job' = Idle
        /\ client /\ at \in {"loop", "start"}
    BY <1>1, <1>2, <1>3, <1>6 DEF Live, Open, Performed
  <2>2. debug /\ turn = "timer"
    BY <1>1, <2>1 DEF MainInv
  <2>3. silent' => noack
    BY <1>1, <1>2, <1>3 DEF MainInv
  <2>4. /\ Quiet(toStub')
        /\ ~silent => toStub' # <<>> /\ toStub'[1].kind \in Noise
    <3>1. toStub' = toStub \o Ack
      <4>1. Ack \o <<>> = Ack
        <5>1. Ack \in Seq(Tokens)
          BY <1>4 DEF Ack
        <5>2. QED  BY <5>1, ConcatEmptySeq
      <4>2. QED  BY <1>2, <1>6, <2>1, <4>1 DEF ToStub
    <3>2. CASE silent
      <4>1. toStub' = toStub
        BY <1>1, <3>1, <3>2, ConcatEmptySeq DEF Ack
      <4>2. QED  BY <1>3, <3>2, <4>1
    <3>3. CASE ~silent
      <4>1. toStub' = toStub \o <<Token("+")>>
        BY <3>1, <3>3 DEF Ack
      <4>2. Quiet(toStub') /\ toStub' # <<>> /\ toStub' \in Seq(Tokens)
        BY <1>1, <1>3, <1>4, <4>1, QuietPut, FrontStays
      <4>3. toStub'[1].kind \in Noise
        BY <4>2, QuietTail
      <4>4. QED  BY <4>2, <4>3
    <3>4. QED  BY <3>2, <3>3
  <2>5. MainInv'
    BY <1>1, <1>2, <2>1, <2>2, <2>3 DEF MainInv
  <2>6. ~noack => ~silent
    BY <1>1 DEF MainInv
  <2>7. OpenInv'
    BY <1>1, <1>2, <2>1, <2>2, <2>4, <2>6 DEF OpenInv
  <2>8. QED  BY <2>1, <2>5, <2>7 DEF Protocol, DoneInv
<1>7. QED  BY <1>5, <1>6

LEMMA InitSound == ASSUME Clean, GdbInit PROVE Sound
<1>1. Typed /\ JobInv
  BY InitTyped DEF Clean, GdbInit, JobInv
<1>2. /\ at = "out" /\ job = Idle /\ toClient = <<>> /\ ~attached /\ ~silent /\ ~done
      /\ ~noack
      /\ \/ debug /\ client /\ mode = "idle" /\ toStub = <<Token("+")>>
         \/ ~client /\ mode = "off" /\ toStub = <<>>
  BY DEF GdbInit
<1>3. MainInv
  BY <1>2 DEF MainInv, Live
<1>4. <<Token("+")>> # <<>> /\ <<Token("+")>>[1].kind \in Noise /\ Quiet(<<Token("+")>>)
  <2>1. Token("+").kind \in Noise
    BY DEF Token, Noise
  <2>2. Len(<<Token("+")>>) = 1 /\ <<Token("+")>>[1] = Token("+") /\ <<Token("+")>> # <<>>
    OBVIOUS
  <2>3. QED  BY <2>1, <2>2 DEF Quiet
<1>5. OpenInv
  BY <1>2, <1>4 DEF OpenInv, Open, Live
<1>6. DoneInv
  BY <1>2 DEF DoneInv, Performed
<1>7. QED  BY <1>1, <1>3, <1>5, <1>6 DEF Sound, Protocol

LEMMA StutterSound == ASSUME Clean, Sound, UNCHANGED gdbVars PROVE Protocol'
<1>1. UNCHANGED <<turn, debug, client, noack, copy, at, mode, job, arg, silent, attached,
                  done, toStub, toClient>>
  BY DEF gdbVars, guestVars, stubVars, clientVars
<1>2. MainInv /\ OpenInv /\ DoneInv
  BY DEF Sound, Protocol
<1>3. Live' = Live /\ Open' = Open /\ Performed' = Performed /\ Question' = Question
  BY <1>1 DEF Live, Open, Performed, Question
<1>4. Wire' = Wire /\ Expected' = Expected
  BY <1>1 DEF Wire, Stopped, Expected
<1>5. MainInv'
  BY <1>1, <1>2, <1>3 DEF MainInv
<1>6. OpenInv'
  BY <1>1, <1>2, <1>3 DEF OpenInv
<1>7. DoneInv'
  BY <1>1, <1>2, <1>3, <1>4 DEF DoneInv
<1>8. QED  BY <1>5, <1>6, <1>7 DEF Protocol

LEMMA StepSound == ASSUME Clean, Sound, [GdbNext]_gdbVars PROVE Sound'
<1>1. Typed' /\ JobInv'
  BY StepTyped DEF Clean, Sound
<1>2. CASE GdbNext
  <2>1. Protocol'
    BY <1>2, RunsSound, TimerSound, AckSound, ByeSound, StartSound, EofSound, BodySound,
       AskSound, BreakSound, GetAckSound, GetOtherSound, GetAnswerSound, HangUpSound
       DEF GdbNext, Main, Receive
  <2>2. QED  BY <1>1, <2>1 DEF Sound
<1>3. CASE UNCHANGED gdbVars
  BY <1>1, <1>3, StutterSound DEF Sound
<1>4. QED  BY <1>2, <1>3
-----------------------------------------------------------------------------
(* What a debugger may rely on. *)

LEMMA SoundHolds == ASSUME Clean, Sound PROVE HeldInMain
<1> SUFFICES ASSUME Holding PROVE at # "out" /\ client
  BY DEF HeldInMain
<1>1. MainInv /\ OpenInv /\ DoneInv /\ attached
      /\ ~(done /\ job \in {"cont", "step", "signal", "detach"})
  BY DEF Sound, Protocol, Holding
<1>2. Live
  BY <1>1 DEF MainInv
<1>3. CASE Open
  BY <1>1, <1>3 DEF OpenInv
<1>4. CASE Performed
  <2>1. job \in Plain \cup {"dump"}
    BY <1>1, <1>4 DEF Performed, Clean, StubAssumption, Sound, Typed, GdbTypeOK, Known, Plain
  <2>2. QED  BY <1>1, <1>4, <2>1 DEF DoneInv, WhereDone, Plain
<1>5. QED  BY <1>2, <1>3, <1>4 DEF Open, Performed

\* Between an answer and a request to resume, gdb_main (gdbstub.h:957-1274) runs and has
\* its client, and the guest stands still: whatever the requests and their contents, and
\* however the bytes of both sides, Ctrl+C and the ends of connections interleave.
THEOREM StubHolds == ASSUME Clean PROVE GdbSpec => []HeldInMain
<1>1. GdbInit => Sound
  BY InitSound
<1>2. Sound /\ [GdbNext]_gdbVars => Sound'
  BY StepSound
<1>3. Sound => HeldInMain
  BY SoundHolds
<1>4. QED  BY <1>1, <1>2, <1>3, PTL DEF GdbSpec
-----------------------------------------------------------------------------
(* The stub implements a session. *)

\* The guest's state, where it is while gdb_main runs.
Shown == IF at = "out" THEN value ELSE copy

LEMMA InitMaps == ASSUME Clean, GdbInit PROVE Session!Init
BY DEF GdbInit, Session!Init, Holding

\* Steps that a debugger does not see.
Unseen == UNCHANGED <<job, arg, done, seen, attached, Shown>>

LEMMA UnseenMaps == ASSUME Unseen PROVE UNCHANGED Session!vars
BY DEF Unseen, Shown, Holding, Session!vars

\* The guest runs, or a packet of a debugger that is gone is carried out.
LEMMA RunMaps ==
  ASSUME ~Holding, ~Holding', UNCHANGED <<job, arg, done, seen>>, Shown' \in Values
  PROVE  Session!Run
<1>1. Holding' = Holding
  BY DEF Holding
<1>2. QED  BY <1>1 DEF Session!Run, Shown

LEMMA LeaveShows ==
  ASSUME at # "out", Leave, copy' = copy PROVE Shown' = Shown
BY DEF Leave, Shown

LEMMA QuietSteps ==
  ASSUME Clean, Sound,
         Timer \/ RecvAck \/ Bye \/ RecvStart \/ RecvEof \/ Connect \/ Break \/ GetAck
           \/ GetOther
  PROVE  Unseen
<1>1. CASE Timer
  <2>1. UNCHANGED <<job, arg, done, seen, attached, value>> /\ at = "out"
    BY <1>1 DEF Timer
  <2>2. (at' = "loop" /\ copy' = value) \/ at' = at
    BY <1>1 DEF Timer
  <2>3. QED  BY <2>1, <2>2 DEF Unseen, Shown
<1>2. CASE RecvAck
  <2>1. at # "out" /\ UNCHANGED <<job, arg, done, seen, attached, copy>>
    BY <1>2 DEF RecvAck, Acks, clientVars
  <2>2. Leave \/ at' # "out"
    BY <1>2 DEF RecvAck
  <2>3. QED  BY <2>1, <2>2, LeaveShows DEF Unseen, Shown
<1>3. CASE Bye \/ RecvEof
  <2>1. at # "out" /\ UNCHANGED <<job, arg, done, seen, attached, copy>> /\ Leave
    BY <1>3 DEF Bye, RecvEof, clientVars
  <2>2. QED  BY <2>1, LeaveShows DEF Unseen
<1>4. CASE RecvStart
  <2>1. /\ at # "out" /\ at' # "out" /\ UNCHANGED <<job, arg, done, seen, attached, copy>>
    BY <1>4 DEF RecvStart, clientVars
  <2>2. QED  BY <2>1 DEF Unseen, Shown
<1>5. CASE Connect
  BY <1>5 DEF Connect, Unseen, Shown, guestVars, stubVars
<1>6. CASE Break
  BY <1>6 DEF Break, Unseen, Shown, guestVars, stubVars
<1>7. CASE GetAck
  <2>1. UNCHANGED <<job, arg>>
    BY <1>7 DEF GetAck
  <2>2. UNCHANGED <<at, value, copy, done, seen, attached>>
    BY <1>7 DEF GetAck, guestVars, stubVars
  <2>3. QED  BY <2>1, <2>2 DEF Unseen, Shown
<1>8. CASE GetOther
  BY <1>8 DEF GetOther, Unseen, Shown, guestVars, stubVars, clientVars
<1>9. QED  BY <1>1, <1>2, <1>3, <1>4, <1>5, <1>6, <1>7, <1>8

LEMMA InstructionMaps == ASSUME Clean, Sound, Instruction PROVE Session!Run
<1>1. MainInv /\ HeldInMain
  BY SoundHolds DEF Sound, Protocol
<1>2. at = "out" /\ UNCHANGED <<at, job, arg, done, seen, attached>> /\ value' \in Values
  BY <1>1 DEF Instruction, MainInv, stubVars, clientVars
<1>3. ~Holding /\ ~Holding' /\ Shown' \in Values
  BY <1>1, <1>2 DEF HeldInMain, Holding, Shown
<1>4. QED  BY <1>2, <1>3, RunMaps

LEMMA BodyMaps ==
  ASSUME Clean, Sound, RecvBody
  PROVE  Session!Perform \/ Session!Run
<1>1. MainInv /\ Typed /\ Typed'
  BY BodyTyped DEF Sound, Protocol, Clean
<1>2. UNCHANGED <<job, arg, seen, attached, mode>>
  BY <1>1, BodyIsDone DEF Command, Resume, clientVars
<1>3. CASE Live
  <2>1. /\ Open /\ job # Idle /\ at = "body" /\ job \in Known /\ Body = Question /\ done'
        /\ \/ job \in Plain \cup {"detach", "signal", "dump"} /\ Command
           \/ job \in {"cont", "step"} /\ Resume
    BY <1>3, BodyOpen
  <2>2. Body.job = job /\ Body.arg = arg
    BY <2>1 DEF Question
  <2>3. Shown = copy /\ ~done
    BY <2>1 DEF Shown, Open
  <2>4. Shown' = IF job = "write" THEN arg ELSE Shown
    <3>1. CASE job \in Plain \cup {"detach", "signal", "dump"} /\ Command
      <4>1. at' # "out"
        BY <2>2, <3>1 DEF Command, Then, Acks, Plain
      <4>2. QED  BY <2>2, <2>3, <3>1, <4>1 DEF Command, Written, Shown
    <3>2. CASE job \in {"cont", "step"} /\ Resume
      BY <2>3, <3>2 DEF Resume, Leave, Shown
    <3>3. QED  BY <2>1, <3>1, <3>2
  <2>5. Holding' = (Holding /\ job \notin {"cont", "step", "signal", "detach"})
    BY <1>2, <2>1, <2>3 DEF Holding
  <2>6. QED
    BY <1>2, <2>1, <2>3, <2>4, <2>5 DEF Session!Perform, Session!Resuming, Shown
<1>4. CASE ~Live
  <2>1. job = Idle /\ ~attached /\ at = "body" /\ done' = (job # Idle) /\ client
    BY <1>1, <1>4, BodyIsDone DEF MainInv
  <2>2. ~done /\ ~done'
    BY <1>1, <1>4, <2>1 DEF MainInv
  <2>3. ~Holding /\ ~Holding'
    BY <1>2, <2>1 DEF Holding
  <2>4. Shown' \in Values
    BY <1>1 DEF Typed, GdbTypeOK, Shown
  <2>5. done' = done
    BY <1>1, <2>2 DEF Typed, GdbTypeOK
  <2>6. QED  BY <1>2, <2>3, <2>4, <2>5, RunMaps
<1>5. QED  BY <1>3, <1>4

LEMMA AskMaps == ASSUME Clean, Sound, Ask PROVE Session!Ask
<1>1. MainInv /\ Typed /\ Typed' /\ job = Idle
  BY ClientSends DEF Sound, Protocol, Clean, Ask, MainInv, Live
<1>2. UNCHANGED <<at, value, copy, seen, attached>> /\ ~done'
  BY DEF Ask, guestVars
<1>3. Idle \notin {"cont", "step", "signal", "detach"}
  BY DEF Clean, StubAssumption, Known
<1>4. Holding = attached /\ Holding' = attached /\ Shown' = Shown
  BY <1>1, <1>2, <1>3 DEF Holding, Shown, Typed, GdbTypeOK
<1>5. job' \in (IF Holding THEN Requests ELSE {"read"}) /\ arg' \in Values
      /\ done' = FALSE
  BY <1>1, <1>4 DEF Ask, Typed, GdbTypeOK
<1>6. QED  BY <1>1, <1>2, <1>4, <1>5 DEF Session!Ask, Shown

LEMMA AnswerMaps == ASSUME Clean, Sound, GetAnswer PROVE Session!Answer
<1>1. /\ MainInv /\ DoneInv /\ Performed /\ Head(toClient) = toClient[1]
      /\ Len(toClient) = 1 /\ (at \in {"loop", "start"} \/ job = "detach")
  BY AnswerIsLast DEF Sound, Protocol
<1>2. /\ UNCHANGED <<at, value, copy, arg, done>> /\ toClient # <<>> /\ job' = Idle
      /\ seen' = (IF job = "read" THEN Head(toClient).value ELSE seen)
      /\ attached' = (job # "detach")
  BY DEF GetAnswer, guestVars, stubVars
<1>3. job = "read" => Head(toClient).value = Shown
  BY <1>1, <1>2 DEF DoneInv, Shown
<1>4. Idle \notin {"cont", "step", "signal", "detach"}
  BY DEF Clean, StubAssumption, Known
<1>5. Holding' = (job # "detach") /\ Shown' = Shown
  BY <1>2, <1>4 DEF Holding, Shown
<1>6. QED  BY <1>1, <1>2, <1>3, <1>5 DEF Session!Answer, Performed, Shown

LEMMA HangUpMaps == ASSUME HangUp PROVE Session!HangUp
BY DEF HangUp, Session!HangUp, Holding, guestVars

LEMMA StepMaps ==
  ASSUME Clean, Sound, [GdbNext]_gdbVars
  PROVE  [Session!Next]_(Session!vars)
<1>1. Unseen => UNCHANGED Session!vars
  BY UnseenMaps
<1>2. CASE UNCHANGED gdbVars
  BY <1>1, <1>2 DEF gdbVars, guestVars, stubVars, clientVars, Unseen, Shown
<1>3. CASE GdbNext
  <2>1. \/ Unseen \/ Session!Run \/ Session!Perform \/ Session!Ask \/ Session!Answer
        \/ Session!HangUp
    BY <1>3, QuietSteps, InstructionMaps, BodyMaps, AskMaps, AnswerMaps, HangUpMaps
       DEF GdbNext, Main, Receive
  <2>2. QED  BY <1>1, <2>1 DEF Session!Next
<1>4. QED  BY <1>2, <1>3

\* Whatever the stub and its client do, a request is performed once and then answered, a
\* read shows the guest's state as it is, a write reaches it, and the guest stands still
\* between an answer and a request to resume (gdb_main and gdb.odin:139-236).
THEOREM StubImplementsSession == ASSUME Clean PROVE GdbSpec => SessionSpec
<1>1. GdbInit => Sound /\ Session!Init
  BY InitSound, InitMaps
<1>2. Sound /\ [GdbNext]_gdbVars => Sound'
  BY StepSound
<1>3. Sound /\ [GdbNext]_gdbVars => [Session!Next]_(Session!vars)
  BY StepMaps
<1>4. QED  BY <1>1, <1>2, <1>3, PTL DEF GdbSpec, SessionSpec, Session!Spec
=============================================================================
