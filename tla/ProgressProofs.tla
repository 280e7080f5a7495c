---------------------------- MODULE ProgressProofs ----------------------------
(***************************************************************************)
(* Proofs about MCProgress for any bounds, queues and messages: the TCP    *)
(* fallback of a connection is a channel, and what is handed over is       *)
(* accounted for.                                                          *)
(***************************************************************************)
EXTENDS MCProgress, SequenceTheorems, WellFoundedInduction, TLAPS

----------------------------------------------------------------------------
(* Induction over sets of numbers.                                         *)

\* A set of numbers has a least one.
LEMMA Least ==
  ASSUME NEW K \in SUBSET Nat, K # {}
  PROVE  \E m \in K : \A j \in K : m <= j
<1>1. PICK R : R = OpToRel(<, Nat)
  OBVIOUS
<1>2. IsWellFoundedOn(R, Nat)
  BY <1>1, NatLessThanWellFounded
<1>3. PICK m \in K : \A j \in K : <<j, m>> \notin R
  BY <1>2, WFMin
<1>4. \A i, j \in Nat : i < j => <<i, j>> \in R
  BY <1>1 DEF OpToRel
<1>5. ASSUME NEW j \in K
      PROVE  m <= j
  <2>1. j \in Nat /\ m \in Nat
    OBVIOUS
  <2>2. ~ (j < m)
    BY <1>3, <1>4, <2>1
  <2> QED BY <2>1, <2>2
<1> QED BY <1>5

\* What holds of 0 and of i + 1 if it holds of i holds up to n.
LEMMA Induct ==
  ASSUME NEW n \in Nat, NEW K, 0 \in K, \A i \in 0 .. n - 1 : i \in K => i + 1 \in K
  PROVE  \A i \in 0 .. n : i \in K
<1> DEFINE Out == {i \in 0 .. n : i \notin K}
<1> SUFFICES ASSUME Out # {} PROVE FALSE
  OBVIOUS
<1>0. Out \in SUBSET Nat
  OBVIOUS
<1>1. PICK m \in Out : \A j \in Out : m <= j
  BY <1>0, Least
<1>2. m # 0 /\ m - 1 \in 0 .. n - 1 /\ m - 1 \notin Out
  BY <1>1
<1>3. m - 1 \in K
  BY <1>2
<1> QED BY <1>1, <1>2, <1>3

----------------------------------------------------------------------------
(* The control messages of a sequence of frames.                           *)

Frames == [kind: L!FrameKinds, n: Nat]

\* The control messages q and those of frame f.
Next1(q, f) == IF f.kind = "control" THEN Append(q, f.n) ELSE q

\* g[i] holds the control messages of the first i frames of s.
Sorts(g, s) ==
  g = [i \in 0 .. Len(s) |-> IF i = 0 THEN <<>> ELSE Next1(g[i - 1], s[i])]

\* Such a function starts empty and goes on frame by frame.
LEMMA SortsIs ==
  ASSUME NEW s \in Seq(Frames), NEW g, Sorts(g, s)
  PROVE  /\ g[0] = <<>>
         /\ \A i \in 1 .. Len(s) : g[i] = Next1(g[i - 1], s[i])
         /\ \A i \in 0 .. Len(s) : g[i] \in Seq(Nat)
<1>0. Len(s) \in Nat /\ \A i \in 1 .. Len(s) : s[i] \in Frames
  BY LenProperties, ElementOfSeq
<1>1. g[0] = <<>>
  BY <1>0 DEF Sorts
<1>2. \A i \in 1 .. Len(s) : g[i] = Next1(g[i - 1], s[i])
  BY <1>0 DEF Sorts
<1> DEFINE K == {i \in 0 .. Len(s) : g[i] \in Seq(Nat)}
<1>3. 0 \in K
  <2>1. 0 \in 0 .. Len(s) /\ g[0] \in Seq(Nat)
    BY <1>0, <1>1, EmptySeq
  <2> QED BY <2>1
<1>4. ASSUME NEW i \in 0 .. Len(s) - 1, i \in K
      PROVE  i + 1 \in K
  <2>1. i + 1 \in 1 .. Len(s) /\ (i + 1) - 1 = i
    BY <1>0
  <2>2. g[i + 1] = Next1(g[i], s[i + 1]) /\ s[i + 1] \in Frames
    BY <1>0, <1>2, <2>1
  <2>3. g[i] \in Seq(Nat)
    BY <1>4
  <2>4. Next1(g[i], s[i + 1]) \in Seq(Nat)
    BY <2>2, <2>3, AppendProperties DEF Next1, Frames
  <2> QED BY <1>0, <2>1, <2>2, <2>4
<1> HIDE DEF K
<1>5. \A i \in 0 .. Len(s) : i \in K
  BY <1>0, <1>3, <1>4, Induct
<1> QED BY <1>1, <1>2, <1>5 DEF K

\* There is one for every sequence.
LEMMA SortsExist ==
  ASSUME NEW s \in Seq(Frames)
  PROVE  \E g : Sorts(g, s)
<1>0. Len(s) \in Nat
  BY LenProperties
<1> DEFINE Upto(g, n) ==
             g = [i \in 0 .. n |-> IF i = 0 THEN <<>> ELSE Next1(g[i - 1], s[i])]
           K == {n \in 0 .. Len(s) : \E g : Upto(g, n)}
<1>1. 0 \in K
  <2>1. PICK g : g = [i \in 0 .. 0 |-> <<>>]
    OBVIOUS
  <2>2. Upto(g, 0)
    BY <2>1
  <2>3. 0 \in 0 .. Len(s)
    BY <1>0
  <2> QED BY <2>2, <2>3
<1>2. ASSUME NEW n \in 0 .. Len(s) - 1, n \in K
      PROVE  n + 1 \in K
  <2>0. n \in Nat /\ n + 1 \in 0 .. Len(s)
    BY <1>0
  <2>1. PICK g : Upto(g, n)
    BY <1>2
  <2> DEFINE h == [i \in 0 .. n + 1 |-> IF i = n + 1 THEN Next1(g[n], s[n + 1]) ELSE g[i]]
  <2>2. ASSUME NEW i \in 0 .. n + 1
        PROVE  h[i] = IF i = 0 THEN <<>> ELSE Next1(h[i - 1], s[i])
    <3>1. CASE i = n + 1
      <4>1. i # 0 /\ i - 1 = n /\ n \in 0 .. n + 1 /\ n # n + 1
        BY <2>0, <3>1
      <4> QED BY <3>1, <4>1
    <3>2. CASE i # n + 1
      <4>1. i \in 0 .. n /\ (i # 0 => i - 1 \in 0 .. n /\ i - 1 # n + 1)
        BY <2>0, <3>2
      <4>2. g[i] = IF i = 0 THEN <<>> ELSE Next1(g[i - 1], s[i])
        BY <2>1, <4>1
      <4> QED BY <3>2, <4>1, <4>2
    <3> QED BY <3>1, <3>2
  <2>3. Upto(h, n + 1)
    BY <2>2
  <2> QED BY <2>0, <2>3
<1> HIDE DEF K
<1>3. \A i \in 0 .. Len(s) : i \in K
  BY <1>0, <1>1, <1>2, Induct
<1>4. Len(s) \in K
  BY <1>0, <1>3
<1> QED BY <1>4 DEF K, Sorts

\* ControlOf is the last of them.
LEMMA ControlIs ==
  ASSUME NEW s \in Seq(Frames)
  PROVE  \E g : Sorts(g, s) /\ L!ControlOf(s) = g[Len(s)]
<1> DEFINE Is(h) == h = [i \in 0 .. Len(s) |->
         IF i = 0 THEN <<>>
         ELSE IF s[i].kind = "control" THEN Append(h[i - 1], s[i].n)
         ELSE h[i - 1]]
<1>1. \A h : Is(h) <=> Sorts(h, s)
  BY DEF Sorts, Next1
<1>2. L!ControlOf(s) = (CHOOSE h : Is(h))[Len(s)]
  BY DEF L!ControlOf
<1> HIDE DEF Is
<1>3. \E h : Is(h)
  BY <1>1, SortsExist
<1>4. PICK h : h = CHOOSE k : Is(k)
  OBVIOUS
<1>5. Is(h)
  BY <1>3, <1>4
<1> QED BY <1>1, <1>2, <1>4, <1>5

\* It depends on the first frames only.
LEMMA SortsUnique ==
  ASSUME NEW s \in Seq(Frames), NEW t \in Seq(Frames), NEW g, NEW h,
         Sorts(g, s), Sorts(h, t), NEW n \in 0 .. Len(s), n <= Len(t),
         \A i \in 1 .. n : s[i] = t[i]
  PROVE  g[n] = h[n]
<1>0. Len(s) \in Nat /\ Len(t) \in Nat /\ n \in Nat
  BY LenProperties
<1>1. /\ g[0] = h[0]
      /\ \A i \in 1 .. Len(s) : g[i] = Next1(g[i - 1], s[i])
      /\ \A i \in 1 .. Len(t) : h[i] = Next1(h[i - 1], t[i])
  BY SortsIs
<1> DEFINE K == {i \in 0 .. n : g[i] = h[i]}
<1>2. 0 \in K
  BY <1>0, <1>1
<1>3. ASSUME NEW i \in 0 .. n - 1, i \in K
      PROVE  i + 1 \in K
  <2>1. /\ i + 1 \in 1 .. n /\ i + 1 \in 1 .. Len(s) /\ i + 1 \in 1 .. Len(t)
        /\ (i + 1) - 1 = i /\ i + 1 \in 0 .. n
    BY <1>0
  <2>2. g[i + 1] = Next1(g[i], s[i + 1]) /\ h[i + 1] = Next1(h[i], t[i + 1])
    BY <1>1, <2>1
  <2> QED BY <1>3, <2>1, <2>2
<1> HIDE DEF K
<1>4. \A i \in 0 .. n : i \in K
  BY <1>0, <1>2, <1>3, Induct
<1>5. n \in K
  BY <1>0, <1>4
<1> QED BY <1>5 DEF K

\* Control messages are numbers.
LEMMA ControlSeq ==
  ASSUME NEW s \in Seq(Frames)
  PROVE  L!ControlOf(s) \in Seq(Nat)
<1>1. PICK g : Sorts(g, s) /\ L!ControlOf(s) = g[Len(s)]
  BY ControlIs
<1>2. Len(s) \in 0 .. Len(s)
  BY LenProperties
<1> QED BY <1>1, <1>2, SortsIs

\* Of no frames.
LEMMA ControlEmpty == L!ControlOf(<<>>) = <<>>
<1>0. <<>> \in Seq(Frames) /\ Len(<<>>) = 0
  BY EmptySeq
<1>1. PICK g : Sorts(g, <<>>) /\ L!ControlOf(<<>>) = g[0]
  BY <1>0, ControlIs
<1> QED BY <1>0, <1>1, SortsIs

\* A frame more.
LEMMA ControlAppend ==
  ASSUME NEW s \in Seq(Frames), NEW f \in Frames
  PROVE  L!ControlOf(Append(s, f)) = Next1(L!ControlOf(s), f)
<1>0. Len(s) \in Nat
  BY LenProperties
<1>1. PICK t : t = Append(s, f)
  OBVIOUS
<1>2. /\ t \in Seq(Frames) /\ Len(t) = Len(s) + 1
      /\ \A i \in 1 .. Len(s) : t[i] = s[i]
      /\ t[Len(s) + 1] = f
  BY <1>1, AppendProperties
<1>3. PICK g : Sorts(g, s) /\ L!ControlOf(s) = g[Len(s)]
  BY ControlIs
<1>4. PICK h : Sorts(h, t) /\ L!ControlOf(t) = h[Len(t)]
  BY <1>2, ControlIs
<1>5. g[Len(s)] = h[Len(s)]
  BY <1>0, <1>2, <1>3, <1>4, SortsUnique
<1>6. Len(t) \in 1 .. Len(t) /\ Len(t) - 1 = Len(s)
  BY <1>0, <1>2
<1>7. h[Len(t)] = Next1(h[Len(s)], f)
  BY <1>2, <1>4, <1>6, SortsIs
<1> QED BY <1>1, <1>3, <1>4, <1>5, <1>7

\* Concatenation is associative.
Assoc3(a, b, c) == (a \o b) \o c = a \o (b \o c)
Assoc4(a, b, c, d) == (a \o (b \o c)) \o d = (a \o b) \o (c \o d)

\* Of three sequences of numbers.
LEMMA Assoc ==
  ASSUME NEW a \in Seq(Nat), NEW b \in Seq(Nat), NEW c \in Seq(Nat)
  PROVE  Assoc3(a, b, c)
BY ConcatAssociative DEF Assoc3

\* Of four.
LEMMA AssocFour ==
  ASSUME NEW a \in Seq(Nat), NEW b \in Seq(Nat), NEW c \in Seq(Nat), NEW d \in Seq(Nat)
  PROVE  Assoc4(a, b, c, d)
<1>1. PICK z \in Seq(Nat) : z = a \o b
  BY ConcatProperties
<1>2. Assoc3(a, b, c) /\ Assoc3(z, c, d)
  BY Assoc
<1> QED BY <1>1, <1>2 DEF Assoc3, Assoc4

\* A frame less.
LEMMA ControlTail ==
  ASSUME NEW s \in Seq(Frames), s # <<>>
  PROVE  L!ControlOf(s) =
           IF Head(s).kind = "control"
           THEN <<Head(s).n>> \o L!ControlOf(Tail(s)) ELSE L!ControlOf(Tail(s))
<1>0. Len(s) \in Nat \ {0} /\ Head(s) = s[1]
  BY EmptySeq, LenProperties, HeadTailOfSubSeq, SubSeqFull
<1>1. PICK t : t = Tail(s)
  OBVIOUS
<1>2. /\ t \in Seq(Frames) /\ Len(t) = Len(s) - 1
      /\ \A i \in 1 .. Len(t) : t[i] = s[i + 1]
  BY <1>1, HeadTailProperties
<1>3. PICK g : Sorts(g, s) /\ L!ControlOf(s) = g[Len(s)]
  BY ControlIs
<1>4. PICK h : Sorts(h, t) /\ L!ControlOf(t) = h[Len(t)]
  BY <1>2, ControlIs
<1>5. PICK q : q = Next1(<<>>, s[1])
  OBVIOUS
<1>6. s[1] \in Frames
  BY <1>0, ElementOfSeq
<1>7. q \in Seq(Nat) /\ q = IF s[1].kind = "control" THEN <<s[1].n>> ELSE <<>>
  <2>1. s[1].n \in Nat
    BY <1>6 DEF Frames
  <2>2. <<>> \in Seq(Nat) /\ <<s[1].n>> \in Seq(Nat)
        /\ Append(<<>>, s[1].n) = <<s[1].n>>
    BY <2>1
  <2> QED BY <1>5, <2>2 DEF Next1
<1> DEFINE K == {i \in 0 .. Len(t) : g[i + 1] = q \o h[i]}
<1>8. /\ g[0] = <<>> /\ h[0] = <<>>
      /\ \A i \in 1 .. Len(s) : g[i] = Next1(g[i - 1], s[i])
      /\ \A i \in 1 .. Len(t) : h[i] = Next1(h[i - 1], t[i])
      /\ \A i \in 0 .. Len(t) : h[i] \in Seq(Nat)
  BY <1>2, <1>3, <1>4, SortsIs
<1>9. 0 \in K
  <2>1. g[1] = Next1(g[0], s[1])
    BY <1>0, <1>8
  <2>2. q \o <<>> = q
    BY <1>7, ConcatEmptySeq
  <2>3. 0 \in 0 .. Len(t) /\ 0 + 1 = 1
    BY <1>0, <1>2
  <2>4. g[0 + 1] = q \o h[0]
    BY <1>5, <1>8, <2>1, <2>2, <2>3
  <2> QED BY <2>3, <2>4
<1>10. ASSUME NEW i \in 0 .. Len(t) - 1, i \in K
       PROVE  i + 1 \in K
  <2>1. /\ i + 1 \in 1 .. Len(t) /\ (i + 1) + 1 \in 1 .. Len(s)
        /\ (i + 1) - 1 = i /\ ((i + 1) + 1) - 1 = i + 1 /\ i \in 0 .. Len(t)
        /\ i + 1 \in 0 .. Len(t)
    BY <1>0, <1>2
  <2>2. /\ g[(i + 1) + 1] = Next1(g[i + 1], s[(i + 1) + 1])
        /\ h[i + 1] = Next1(h[i], t[i + 1]) /\ t[i + 1] = s[(i + 1) + 1]
        /\ h[i] \in Seq(Nat) /\ t[i + 1] \in Frames
    BY <1>2, <1>8, <2>1, ElementOfSeq
  <2>3. PICK f \in Frames : f = t[i + 1]
    BY <2>2
  <2>4. g[i + 1] = q \o h[i]
    BY <1>10
  <2>5. Next1(q \o h[i], f) = q \o Next1(h[i], f)
    <3>1. CASE f.kind = "control"
      <4>1. PICK m \in Nat : m = f.n
        BY DEF Frames
      <4>2. q \o h[i] \in Seq(Nat) /\ <<m>> \in Seq(Nat)
        BY <1>7, <2>2, ConcatProperties
      <4>3. Append(q \o h[i], m) = (q \o h[i]) \o <<m>> /\ Append(h[i], m) = h[i] \o <<m>>
        BY <2>2, <4>2, AppendIsConcat
      <4>4. (q \o h[i]) \o <<m>> = q \o (h[i] \o <<m>>)
        <5>1. Assoc3(q, h[i], <<m>>)
          BY <1>7, <2>2, <4>2, Assoc
        <5> QED BY <5>1 DEF Assoc3
      <4> QED BY <3>1, <4>1, <4>3, <4>4 DEF Next1
    <3>2. CASE f.kind # "control"
      BY <3>2 DEF Next1
    <3> QED BY <3>1, <3>2
  <2> QED BY <2>1, <2>2, <2>3, <2>4, <2>5
<1> HIDE DEF K
<1>11. Len(t) \in K
  <2>1. PICK n \in Nat : n = Len(t)
    BY <1>2, LenProperties
  <2>2. \A i \in 0 .. n - 1 : i \in K => i + 1 \in K
    BY <1>10, <2>1
  <2>3. \A i \in 0 .. n : i \in K
    BY <1>9, <2>2, Induct
  <2> QED BY <2>1, <2>3
<1>12. g[Len(s)] = q \o h[Len(t)]
  BY <1>0, <1>2, <1>11 DEF K
<1>13. <<>> \o h[Len(t)] = h[Len(t)]
  BY <1>0, <1>2, <1>8, ConcatEmptySeq
<1> QED BY <1>0, <1>1, <1>3, <1>4, <1>7, <1>12, <1>13

\* The control messages of the first frames are the first ones.
LEMMA ControlFirst ==
  ASSUME NEW s \in Seq(Frames), NEW n \in 0 .. Len(s)
  PROVE  \E r \in Seq(Nat) : L!ControlOf(s) = L!ControlOf(SubSeq(s, 1, n)) \o r
<1>0. Len(s) \in Nat /\ n \in Nat /\ n <= Len(s)
  BY LenProperties
<1>1. PICK t : t = SubSeq(s, 1, n)
  OBVIOUS
<1>2. t \in Seq(Frames) /\ Len(t) = n /\ \A i \in 1 .. n : t[i] = s[i]
  <2>1. n \in 0 .. Len(s) /\ 1 \in 1 .. Len(s) + 1 /\ n \in (1 - 1) .. Len(s)
    BY <1>0
  <2>2. t \in Seq(Frames) /\ Len(t) = n - 1 + 1 /\ \A i \in 1 .. n - 1 + 1 : t[i] = s[1 + i - 1]
    <3>1. CASE n = 0
      BY <1>0, <1>1, <3>1, SubSeqProperties, EmptySeq
    <3>2. CASE n # 0
      BY <1>0, <1>1, <3>2, SubSeqProperties
    <3> QED BY <3>1, <3>2
  <2> QED BY <1>0, <2>2
<1>3. PICK g : Sorts(g, s) /\ L!ControlOf(s) = g[Len(s)]
  BY ControlIs
<1>4. PICK h : Sorts(h, t) /\ L!ControlOf(t) = h[n]
  BY <1>2, ControlIs
<1>5. g[n] = h[n]
  BY <1>0, <1>2, <1>3, <1>4, SortsUnique
<1>6. /\ \A i \in 1 .. Len(s) : g[i] = Next1(g[i - 1], s[i])
      /\ \A i \in 0 .. Len(s) : g[i] \in Seq(Nat)
  BY <1>3, SortsIs
<1>7. PICK m \in Nat : m = Len(s) - n
  BY <1>0
<1> DEFINE K == {i \in 0 .. m : \E r \in Seq(Nat) : g[n + i] = g[n] \o r}
<1>8. 0 \in K
  <2>1. g[n] \in Seq(Nat) /\ <<>> \in Seq(Nat)
    BY <1>0, <1>6, EmptySeq
  <2>2. g[n + 0] = g[n] \o <<>>
    BY <1>0, <2>1, ConcatEmptySeq
  <2>3. 0 \in 0 .. m
    BY <1>7
  <2> QED BY <2>1, <2>2, <2>3
<1>9. ASSUME NEW i \in 0 .. m - 1, i \in K
      PROVE  i + 1 \in K
  <2>1. /\ n + (i + 1) \in 1 .. Len(s) /\ (n + (i + 1)) - 1 = n + i
        /\ i + 1 \in 0 .. m
    BY <1>0, <1>7
  <2>2. PICK r \in Seq(Nat) : g[n + i] = g[n] \o r
    BY <1>9
  <2>3. PICK f \in Frames : f = s[n + (i + 1)]
    BY <2>1, ElementOfSeq
  <2>4. g[n + (i + 1)] = Next1(g[n] \o r, f)
    BY <1>6, <2>1, <2>2, <2>3
  <2>5. g[n] \in Seq(Nat)
    BY <1>0, <1>6
  <2>6. CASE f.kind = "control"
    <3>1. PICK k \in Nat : k = f.n
      BY DEF Frames
    <3>2. <<k>> \in Seq(Nat) /\ g[n] \o r \in Seq(Nat) /\ r \o <<k>> \in Seq(Nat)
      BY <2>5, ConcatProperties
    <3>3. g[n + (i + 1)] = (g[n] \o r) \o <<k>>
      BY <2>4, <2>6, <3>1, <3>2, AppendIsConcat DEF Next1
    <3>4. Assoc3(g[n], r, <<k>>)
      BY <2>5, <3>2, Assoc
    <3>5. g[n + (i + 1)] = g[n] \o (r \o <<k>>)
      BY <3>3, <3>4 DEF Assoc3
    <3> QED BY <2>1, <3>2, <3>5
  <2>7. CASE f.kind # "control"
    BY <2>1, <2>4, <2>7 DEF Next1
  <2> QED BY <2>6, <2>7
<1> HIDE DEF K
<1>10. m \in K
  <2>1. \A i \in 0 .. m : i \in K
    BY <1>8, <1>9, Induct
  <2> QED BY <2>1
<1>11. n + m = Len(s)
  BY <1>0, <1>7
<1> QED BY <1>1, <1>3, <1>4, <1>5, <1>10, <1>11 DEF K

----------------------------------------------------------------------------
(* Control messages under way.                                             *)

\* Those of an end: i waits at the other end, the sockets hold w, the queue q,
\* and u says whether there is a network.
Way(i, w, q, u) ==
  (i \o L!ControlOf(w)) \o (IF u THEN L!ControlOf(q) ELSE <<>>)

\* They are numbers.
LEMMA WaySeq ==
  ASSUME NEW i \in Seq(Nat), NEW w \in Seq(Frames), NEW q \in Seq(Frames), NEW u
  PROVE  Way(i, w, q, u) \in Seq(Nat)
<1>1. L!ControlOf(w) \in Seq(Nat) /\ L!ControlOf(q) \in Seq(Nat) /\ <<>> \in Seq(Nat)
  BY ControlSeq, EmptySeq
<1> QED BY <1>1, ConcatProperties DEF Way

\* A frame joins the queue.
LEMMA WayQueue ==
  ASSUME NEW i \in Seq(Nat), NEW w \in Seq(Frames), NEW q \in Seq(Frames), NEW u,
         NEW f \in Frames
  PROVE  Way(i, w, Append(q, f), u) =
           IF u /\ f.kind = "control" THEN Append(Way(i, w, q, u), f.n)
           ELSE Way(i, w, q, u)
<1>1. PICK a \in Seq(Nat), b \in Seq(Nat) : a = i \o L!ControlOf(w) /\ b = L!ControlOf(q)
  BY ControlSeq, ConcatProperties
<1>2. L!ControlOf(Append(q, f)) = Next1(b, f)
  BY <1>1, ControlAppend
<1>3. CASE u /\ f.kind = "control"
  <2>1. PICK m \in Nat : m = f.n
    BY DEF Frames
  <2>2. <<m>> \in Seq(Nat) /\ a \o b \in Seq(Nat) /\ Append(b, m) = b \o <<m>>
    BY AppendIsConcat, ConcatProperties
  <2>3. Assoc3(a, b, <<m>>)
    BY <2>2, Assoc
  <2>4. (a \o b) \o <<m>> = Append(a \o b, m)
    BY <2>2, AppendIsConcat
  <2> QED BY <1>1, <1>2, <1>3, <2>1, <2>2, <2>3, <2>4 DEF Way, Next1, Assoc3
<1>4. CASE ~(u /\ f.kind = "control")
  BY <1>1, <1>2, <1>4 DEF Way, Next1
<1> QED BY <1>3, <1>4

\* The writer moves a frame of the queue to the sockets.
LEMMA WayWrite ==
  ASSUME NEW i \in Seq(Nat), NEW w \in Seq(Frames), NEW q \in Seq(Frames), q # <<>>
  PROVE  /\ Way(i, Append(w, Head(q)), Tail(q), TRUE) = Way(i, w, q, TRUE)
         /\ Way(i, w, Tail(q), FALSE) = Way(i, w, q, FALSE)
<1>1. PICK f \in Frames, t \in Seq(Frames) : f = Head(q) /\ t = Tail(q)
  BY HeadTailProperties
<1>2. PICK a \in Seq(Nat), b \in Seq(Nat) : a = L!ControlOf(w) /\ b = L!ControlOf(t)
  BY ControlSeq
<1>3. L!ControlOf(q) = IF f.kind = "control" THEN <<f.n>> \o b ELSE b
  BY <1>1, <1>2, ControlTail
<1>4. L!ControlOf(Append(w, f)) = Next1(a, f)
  BY <1>2, ControlAppend
<1>5. CASE f.kind = "control"
  <2>0. f.n \in Nat
    BY DEF Frames
  <2>1. PICK c \in Seq(Nat) : c = <<f.n>>
    <3>1. <<f.n>> \in Seq(Nat)
      BY <2>0
    <3> QED BY <3>1, Zenon
  <2>2. Append(a, f.n) = a \o c
    BY <2>1, AppendIsConcat DEF Frames
  <2>3. Assoc4(i, a, c, b)
    BY AssocFour
  <2>7. Way(i, Append(w, f), t, TRUE) = (i \o (a \o c)) \o b
    BY <1>2, <1>4, <1>5, <2>2 DEF Way, Next1
  <2>8. Way(i, w, q, TRUE) = (i \o a) \o (c \o b)
    BY <1>2, <1>3, <1>5, <2>1 DEF Way
  <2>9. Way(i, Append(w, f), t, TRUE) = Way(i, w, q, TRUE)
    BY <2>3, <2>7, <2>8 DEF Assoc4
  <2>10. Way(i, w, t, FALSE) = Way(i, w, q, FALSE)
    BY DEF Way
  <2> QED BY <1>1, <2>9, <2>10
<1>6. CASE f.kind # "control"
  BY <1>1, <1>2, <1>3, <1>4, <1>6 DEF Way, Next1
<1> QED BY <1>5, <1>6

\* Other frames join the sockets' bytes.
LEMMA WayPut ==
  ASSUME NEW i \in Seq(Nat), NEW w \in Seq(Frames), NEW q, NEW u,
         NEW f \in Frames, f.kind # "control"
  PROVE  Way(i, Append(w, f), q, u) = Way(i, w, q, u)
BY ControlAppend DEF Way, Next1

\* The reader takes a frame from the sockets; a control message waits then.
LEMMA WayRead ==
  ASSUME NEW i \in Seq(Nat), NEW w \in Seq(Frames), NEW q, NEW u, w # <<>>
  PROVE  IF Head(w).kind = "control"
         THEN Way(Append(i, Head(w).n), Tail(w), q, u) = Way(i, w, q, u)
         ELSE Way(i, Tail(w), q, u) = Way(i, w, q, u)
<1>1. PICK f \in Frames, t \in Seq(Frames) : f = Head(w) /\ t = Tail(w)
  BY HeadTailProperties
<1>2. PICK b \in Seq(Nat) : b = L!ControlOf(t)
  BY ControlSeq
<1>3. L!ControlOf(w) = IF f.kind = "control" THEN <<f.n>> \o b ELSE b
  BY <1>1, <1>2, ControlTail
<1>4. CASE f.kind = "control"
  <2>0. f.n \in Nat
    BY DEF Frames
  <2>1. PICK c \in Seq(Nat) : c = <<f.n>>
    <3>1. <<f.n>> \in Seq(Nat)
      BY <2>0
    <3> QED BY <3>1, Zenon
  <2>2. Append(i, f.n) = i \o c
    BY <2>1, AppendIsConcat DEF Frames
  <2>3. Assoc3(i, c, b)
    BY Assoc
  <2>4. Append(i, f.n) \o L!ControlOf(t) = i \o L!ControlOf(w)
    BY <1>2, <1>3, <1>4, <2>1, <2>2, <2>3 DEF Assoc3
  <2> QED BY <1>1, <1>4, <2>4 DEF Way
<1>5. CASE f.kind # "control"
  BY <1>1, <1>2, <1>3, <1>5 DEF Way
<1> QED BY <1>1, <1>4, <1>5

\* The session takes the first message.
LEMMA WayReceive ==
  ASSUME NEW i \in Seq(Nat), NEW w \in Seq(Frames), NEW q \in Seq(Frames), NEW u,
         i # <<>>
  PROVE  /\ Way(i, w, q, u) # <<>> /\ Head(Way(i, w, q, u)) = Head(i)
         /\ Tail(Way(i, w, q, u)) = Way(Tail(i), w, q, u)
<1>1. PICK a \in Seq(Nat), b \in Seq(Nat) :
        a = L!ControlOf(w) /\ b = IF u THEN L!ControlOf(q) ELSE <<>>
  <2>1. L!ControlOf(w) \in Seq(Nat) /\ L!ControlOf(q) \in Seq(Nat) /\ <<>> \in Seq(Nat)
    BY ControlSeq, EmptySeq
  <2> QED BY <2>1
<1>2. PICK h \in Nat, t \in Seq(Nat) : h = Head(i) /\ t = Tail(i)
  BY HeadTailProperties
<1>3. PICK r \in Seq(Nat) : r = (t \o a) \o b
  BY ConcatProperties
<1>4. i = <<h>> \o t
  <2>1. Len(i) \in Nat \ {0}
    BY EmptySeq
  <2>2. PICK n \in Nat : n = Len(i) /\ 1 \in 1 .. n /\ n \in 1 .. n
    BY <2>1
  <2>4. SubSeq(i, 1, n) = <<i[1]>> \o SubSeq(i, 1 + 1, n)
    BY <2>2, SubSeqRecursiveFirst
  <2>3. Head(i) = i[1]
    BY <2>1, HeadTailOfSubSeq, SubSeqFull
  <2> QED BY <1>2, <2>2, <2>3, <2>4, SubSeqFull, TailIsSubSeq
<1>5. Way(i, w, q, u) = <<h>> \o r
  <2>0. PICK c \in Seq(Nat) : c = <<h>>
    <3>1. <<h>> \in Seq(Nat)
      OBVIOUS
    <3> QED BY <3>1, Zenon
  <2>3. PICK x \in Seq(Nat) : x = t \o a
    BY ConcatProperties
  <2>1. Assoc3(c, t, a) /\ Assoc3(c, x, b)
    BY Assoc
  <2> QED BY <1>1, <1>3, <1>4, <2>0, <2>1, <2>3 DEF Way, Assoc3
<1>6. <<h>> \o r # <<>> /\ Head(<<h>> \o r) = h /\ Tail(<<h>> \o r) = r
  <2>1. PICK z : z = <<h>> \o r
    OBVIOUS
  <2>2. <<h>> \in Seq(Nat) /\ Len(<<h>>) = 1 /\ <<h>>[1] = h
    OBVIOUS
  <2>3. /\ z \in Seq(Nat) /\ Len(z) = 1 + Len(r)
        /\ \A k \in 1 .. 1 + Len(r) : z[k] = IF k <= 1 THEN <<h>>[k] ELSE r[k - 1]
    BY <2>1, <2>2, ConcatProperties
  <2>4. Len(r) \in Nat
    BY LenProperties
  <2>5. z # <<>> /\ Len(z) \in Nat \ {0} /\ z[1] = h
    BY <2>2, <2>3, <2>4, EmptySeq
  <2>6. Head(z) = h
    BY <2>3, <2>5, HeadTailOfSubSeq, SubSeqFull
  <2>7. PICK l : l = Tail(z)
    OBVIOUS
  <2>8. l \in Seq(Nat) /\ Len(l) = Len(r) /\ \A k \in 1 .. Len(l) : l[k] = z[k + 1]
    BY <2>3, <2>4, <2>5, <2>7, HeadTailProperties
  <2>9. ASSUME NEW k \in 1 .. Len(r)
        PROVE  l[k] = r[k]
    <3>1. k + 1 \in 1 .. 1 + Len(r) /\ ~ (k + 1 <= 1) /\ (k + 1) - 1 = k
      BY <2>4
    <3> QED BY <2>3, <2>8, <3>1
  <2>10. l = r
    BY <2>8, <2>9, SeqEqual
  <2> QED BY <2>1, <2>5, <2>6, <2>7, <2>10
<1>7. Way(t, w, q, u) = r
  BY <1>1, <1>3 DEF Way
<1> QED BY <1>2, <1>5, <1>6, <1>7

\* The network fails: a part from the first message on stays.
LEMMA WayCut ==
  ASSUME NEW i \in Seq(Nat), NEW w \in Seq(Frames), NEW q \in Seq(Frames),
         NEW n \in 0 .. Len(w)
  PROVE  L!Abstract!IsPrefix(Way(i, SubSeq(w, 1, n), q, FALSE), Way(i, w, q, TRUE))
<1>0. Len(w) \in Nat /\ n \in Nat /\ n <= Len(w)
  BY LenProperties
<1>1. PICK v \in Seq(Frames) : v = SubSeq(w, 1, n)
  <2>1. CASE n = 0
    <3>1. SubSeq(w, 1, n) = <<>>
      BY <1>0, <2>1, SubSeqProperties, EmptySeq
    <3> QED BY <3>1, EmptySeq
  <2>2. CASE n # 0
    <3>1. n \in Int /\ 1 \in Int /\ \A k \in 1 .. n : w[k] \in Frames
      BY <1>0, ElementOfSeq
    <3>2. SubSeq(w, 1, n) \in Seq(Frames)
      BY <3>1, SubSeqProperties
    <3> QED BY <3>2
  <2> QED BY <2>1, <2>2
<1>2. PICK a \in Seq(Nat), b \in Seq(Nat) : a = L!ControlOf(v) /\ b = L!ControlOf(q)
  BY ControlSeq
<1>3. PICK r \in Seq(Nat) : L!ControlOf(w) = a \o r
  BY <1>1, <1>2, ControlFirst
<1>4. PICK x \in Seq(Nat), y \in Seq(Nat) : x = i \o a /\ y = r \o b
  BY ConcatProperties
<1>5. Way(i, v, q, FALSE) = x
  BY <1>2, <1>4, ConcatEmptySeq DEF Way
<1>6. Way(i, w, q, TRUE) = x \o y
  <2>1. Assoc4(i, a, r, b)
    BY AssocFour
  <2> QED BY <1>2, <1>3, <1>4, <2>1 DEF Way, Assoc4
<1>7. Len(x) <= Len(x \o y) /\ SubSeq(x, 1, Len(x)) = SubSeq(x \o y, 1, Len(x))
  <2>1. /\ x \o y \in Seq(Nat) /\ Len(x \o y) = Len(x) + Len(y)
        /\ Len(x) \in Nat /\ Len(y) \in Nat
        /\ \A k \in 1 .. Len(x) : (x \o y)[k] = x[k]
    BY ConcatProperties, LenProperties
  <2>2. SubSeq(x, 1, Len(x)) = x
    BY SubSeqFull
  <2>3. SubSeq(x \o y, 1, Len(x)) = x
    <3>1. PICK z : z = SubSeq(x \o y, 1, Len(x))
      OBVIOUS
    <3>2. z \in Seq(Nat) /\ Len(z) = Len(x) /\ \A k \in 1 .. Len(x) : z[k] = x[k]
      <4>1. CASE Len(x) = 0
        BY <2>1, <3>1, <4>1, SubSeqProperties, EmptySeq
      <4>2. CASE Len(x) # 0
        BY <2>1, <3>1, <4>2, SubSeqProperties
      <4> QED BY <4>1, <4>2
    <3> QED BY <3>1, <3>2, SeqEqual
  <2> QED BY <2>1, <2>2, <2>3
<1> QED BY <1>1, <1>5, <1>6, <1>7 DEF L!Abstract!IsPrefix

----------------------------------------------------------------------------
(* The invariant of a TCP connection: types, the limits of the queues, and *)
(* what is counted.                                                        *)

LinkTypes ==
  /\ up \in BOOLEAN /\ writer \subseteq L!Ends /\ reader \subseteq L!Ends
  /\ out \in [L!Ends -> Seq(Frames)] /\ wire \in [L!Ends -> Seq(Frames)]
  /\ ins \in [L!Ends -> Seq(Nat)] /\ got \in [L!Ends -> Seq(Nat)]
  /\ media \in [L!Ends -> Nat] /\ pings \in [L!Ends -> Nat]
  /\ sent \in [L!Ends -> Nat]
  /\ closed \in [L!Ends -> BOOLEAN] /\ bye \in [L!Ends -> BOOLEAN]
  /\ session \in [L!Ends -> {"run", "sending", "closing", "ended"}]
  /\ offered \in Nat /\ accounted \in Nat

LinkLimits ==
  \A e \in L!Ends :
    /\ Len(out[e]) <= ControlQueue /\ Len(ins[e]) <= ControlQueue
    /\ Len(wire[e]) <= Socket
    /\ media[e] <= MediaQueue /\ sent[e] <= Messages[e] /\ pings[e] <= MaxPings[e]

\* A message the session waits to send has a number.
Numbered == \A e \in L!Ends : session[e] = "sending" /\ ~bye[e] => sent[e] >= 1

\* End A alone sends media.
MediaFrom ==
  /\ media[B] = 0 /\ accounted <= offered /\ offered <= MaxMedia
  /\ L!MediaCounted

LinkInv == LinkTypes /\ LinkLimits /\ Numbered /\ MediaFrom

\* The invariant holds at first.
LEMMA LinkInit == L!Init => LinkInv
<1> SUFFICES ASSUME L!Init PROVE LinkInv
  OBVIOUS
<1>1. LinkTypes
  <2>1. <<>> \in Seq(Frames) /\ <<>> \in Seq(Nat)
    OBVIOUS
  <2> QED BY <2>1 DEF L!Init, LinkTypes
<1>2. LinkLimits
  <2>1. Len(<<>>) = 0
    OBVIOUS
  <2> QED BY <2>1, ProgressBounds DEF L!Init, LinkLimits, L!Ends
<1>3. Numbered /\ MediaFrom
  BY ProgressBounds DEF L!Init, Numbered, MediaFrom, L!MediaCounted, L!Ends
<1> QED BY <1>1, <1>2, <1>3 DEF LinkInv

\* A frame is appended to a queue, or not.
Grows(f, g, m) ==
  /\ g \in [L!Ends -> Seq(Frames)]
  /\ (\A e \in L!Ends : Len(f[e]) <= m) => \A e \in L!Ends : Len(g[e]) <= m

\* A frame joins a queue that has room.
LEMMA Appended ==
  ASSUME NEW f \in [L!Ends -> Seq(Frames)], NEW e \in L!Ends, NEW x \in Frames,
         NEW m \in Nat, Len(f[e]) < m
  PROVE  Grows(f, [f EXCEPT ![e] = Append(@, x)], m)
<1>1. /\ Append(f[e], x) \in Seq(Frames) /\ Len(Append(f[e], x)) = Len(f[e]) + 1
      /\ Len(f[e]) \in Nat
  BY AppendProperties, LenProperties
<1>2. Len(Append(f[e], x)) <= m
  BY <1>1
<1>3. PICK g : g = [f EXCEPT ![e] = Append(@, x)]
  OBVIOUS
<1>4. g \in [L!Ends -> Seq(Frames)]
  BY <1>1, <1>3
<1>5. \A k \in L!Ends : g[k] = IF k = e THEN Append(f[e], x) ELSE f[k]
  BY <1>3
<1>6. Grows(f, g, m)
  BY <1>2, <1>4, <1>5 DEF Grows
<1> QED BY <1>3, <1>6

\* The first frame leaves a queue.
LEMMA Taken1 ==
  ASSUME NEW f \in [L!Ends -> Seq(Frames)], NEW e \in L!Ends, f[e] # <<>>, NEW m \in Nat
  PROVE  Grows(f, [f EXCEPT ![e] = Tail(@)], m)
<1>1. Tail(f[e]) \in Seq(Frames) /\ Len(Tail(f[e])) = Len(f[e]) - 1 /\ Len(f[e]) \in Nat
  BY HeadTailProperties, LenProperties
<1>2. Len(f[e]) <= m => Len(Tail(f[e])) <= m
  BY <1>1
<1>3. PICK g : g = [f EXCEPT ![e] = Tail(@)]
  OBVIOUS
<1>4. g \in [L!Ends -> Seq(Frames)]
  BY <1>1, <1>3
<1>5. \A k \in L!Ends : g[k] = IF k = e THEN Tail(f[e]) ELSE f[k]
  BY <1>3
<1>6. Grows(f, g, m)
  BY <1>2, <1>4, <1>5 DEF Grows
<1> QED BY <1>3, <1>6

\* control_out keeps its limit (ControlSender::send, TcpShared::close, read_loop).
LEMMA OutGrows ==
  ASSUME LinkInv, L!Next
  PROVE  Grows(out, out', ControlQueue)
<1>0. /\ out \in [L!Ends -> Seq(Frames)] /\ wire \in [L!Ends -> Seq(Frames)]
      /\ ControlQueue \in Nat /\ sent \in [L!Ends -> Nat]
  BY ProgressBounds DEF LinkInv, LinkTypes
<1>1. Grows(out, out, ControlQueue)
  BY <1>0 DEF Grows
<1>2. /\ L!Frame("close") \in Frames /\ L!Frame("pong") \in Frames
      /\ \A n \in Nat : L!Control(n) \in Frames
  BY DEF L!Frame, L!Control, Frames, L!FrameKinds
<1>10. ASSUME NEW e \in L!Ends, NEW f \in Frames, Len(out[e]) < ControlQueue,
              out' = [out EXCEPT ![e] = Append(@, f)]
       PROVE  Grows(out, out', ControlQueue)
  BY <1>0, <1>10, Appended
<1>3. ASSUME NEW e \in L!Ends, L!Close(e)
      PROVE  Grows(out, out', ControlQueue)
  <2>1. PICK f \in Frames : f = L!Frame("close")
    BY <1>2
  <2> QED BY <1>1, <1>3, <1>10, <2>1 DEF L!Close
<1>4. ASSUME NEW e \in L!Ends, L!Sent(e)
      PROVE  Grows(out, out', ControlQueue)
  <2>1. (IF bye[e] THEN L!Goodbye ELSE sent[e]) \in Nat
    BY <1>0 DEF L!Goodbye
  <2>2. PICK f \in Frames : f = L!Control(IF bye[e] THEN L!Goodbye ELSE sent[e])
    BY <1>2, <2>1
  <2> QED BY <1>3, <1>4, <1>10, <2>2 DEF L!Sent
<1>5. ASSUME NEW e \in L!Ends, L!WriteControl(e)
      PROVE  Grows(out, out', ControlQueue)
  BY <1>0, <1>5, Taken1 DEF L!WriteControl
<1>6. ASSUME NEW e \in L!Ends, L!ReadPing(e)
      PROVE  Grows(out, out', ControlQueue)
  <2>1. PICK f \in Frames : f = L!Frame("pong")
    BY <1>2
  <2> QED BY <1>1, <1>6, <1>10, <2>1 DEF L!ReadPing
<1>7. ASSUME NEW e \in L!Ends, L!End(e)
      PROVE  Grows(out, out', ControlQueue)
  BY <1>3, <1>7 DEF L!End
<1>8. ASSUME NEW e \in L!Ends,
             \/ L!Send(e) \/ L!Bye(e) \/ L!WritePing(e) \/ L!Receive(e) \/ L!WriteMedia(e)
             \/ L!WriterStops(e) \/ L!ReadControl(e) \/ L!ReadMedia(e) \/ L!ReaderEnds(e)
             \/ L!SendMedia \/ L!Cut
      PROVE  out' = out
  BY <1>8 DEF L!Send, L!Bye, L!WritePing, L!Receive, L!WriteMedia, L!WriterStops,
              L!ReadControl, L!ReadMedia, L!ReaderEnds, L!SendMedia, L!Cut, L!flow
<1>9. A \in L!Ends
  BY DEF L!Ends
<1> QED BY <1>1, <1>4, <1>5, <1>6, <1>7, <1>8, <1>9 DEF L!Next, L!Step

\* The sockets keep theirs (write_loop).
LEMMA WireGrows ==
  ASSUME LinkInv, L!Next
  PROVE  Grows(wire, wire', Socket)
<1>0. /\ out \in [L!Ends -> Seq(Frames)] /\ wire \in [L!Ends -> Seq(Frames)]
      /\ Socket \in Nat
      /\ \A e \in L!Ends : L!Other(e) \in L!Ends
  BY ProgressBounds DEF LinkInv, LinkTypes, L!Ends, L!Other
<1>1. Grows(wire, wire, Socket)
  BY <1>0 DEF Grows
<1>2. ASSUME NEW e \in L!Ends, NEW f \in Frames, L!Room(e), L!Put(e, f)
      PROVE  Grows(wire, wire', Socket)
  BY <1>0, <1>1, <1>2, Appended DEF L!Put, L!Room
<1>3. L!Frame("ping") \in Frames /\ L!Frame("media") \in Frames
  BY DEF L!Frame, Frames, L!FrameKinds
<1>4. ASSUME NEW e \in L!Ends, L!WritePing(e) \/ L!WriteMedia(e)
      PROVE  Grows(wire, wire', Socket)
  BY <1>1, <1>2, <1>3, <1>4 DEF L!WritePing, L!WriteMedia
<1>5. ASSUME NEW e \in L!Ends, L!WriteControl(e)
      PROVE  Grows(wire, wire', Socket)
  <2>1. out[e] \in Seq(Frames) /\ out[e] # <<>>
    BY <1>0, <1>5 DEF L!WriteControl
  <2>2. Head(out[e]) \in Frames
    BY <2>1, HeadTailProperties
  <2> QED BY <1>2, <1>5, <2>2 DEF L!WriteControl
<1>6. ASSUME NEW e \in L!Ends, L!ReadControl(e) \/ L!ReadMedia(e) \/ L!ReadPing(e)
      PROVE  Grows(wire, wire', Socket)
  <2>1. L!Taken(e) /\ wire[L!Other(e)] # <<>>
    BY <1>6 DEF L!ReadControl, L!ReadMedia, L!ReadPing, L!From
  <2> QED BY <1>0, <2>1, Taken1 DEF L!Taken
<1>7. CASE L!Cut
  <2>1. PICK n \in [L!Ends -> 0 .. Socket] :
          /\ \A e \in L!Ends : n[e] <= Len(wire[e])
          /\ wire' = [e \in L!Ends |-> SubSeq(wire[e], 1, n[e])]
    BY <1>7 DEF L!Cut
  <2>2. ASSUME NEW e \in L!Ends
        PROVE  wire'[e] \in Seq(Frames) /\ Len(wire'[e]) <= Socket
    <3>1. /\ wire'[e] = SubSeq(wire[e], 1, n[e]) /\ wire[e] \in Seq(Frames)
          /\ n[e] \in 0 .. Len(wire[e]) /\ n[e] \in 0 .. Socket
      BY <1>0, <2>1, LenProperties
    <3>2. \A i \in 1 .. n[e] : wire[e][i] \in Frames
      BY <3>1, ElementOfSeq, LenProperties
    <3>3. /\ SubSeq(wire[e], 1, n[e]) \in Seq(Frames)
          /\ Len(SubSeq(wire[e], 1, n[e])) = IF 1 <= n[e] THEN n[e] - 1 + 1 ELSE 0
      BY <1>0, <3>1, <3>2, SubSeqProperties
    <3> QED BY <1>0, <3>1, <3>3
  <2>3. wire' \in [L!Ends -> Seq(Frames)]
    BY <2>1, <2>2
  <2> QED BY <2>2, <2>3 DEF Grows
<1>8. ASSUME NEW e \in L!Ends,
             \/ L!Send(e) \/ L!Bye(e) \/ L!Receive(e) \/ L!Sent(e) \/ L!End(e)
             \/ L!WriterStops(e) \/ L!ReaderEnds(e) \/ L!SendMedia
      PROVE  wire' = wire
  BY <1>8 DEF L!Send, L!Bye, L!Receive, L!Sent, L!End, L!WriterStops, L!ReaderEnds,
              L!SendMedia, L!flow
<1>9. A \in L!Ends
  BY DEF L!Ends
<1> QED BY <1>1, <1>4, <1>5, <1>6, <1>7, <1>8, <1>9 DEF L!Next, L!Step

\* What waits for a session is bounded, and numbers are received.
LEMMA InsGrows ==
  ASSUME LinkInv, L!Next
  PROVE  /\ ins' \in [L!Ends -> Seq(Nat)] /\ got' \in [L!Ends -> Seq(Nat)]
         /\ \A e \in L!Ends : Len(ins'[e]) <= ControlQueue
<1>0. /\ ins \in [L!Ends -> Seq(Nat)] /\ got \in [L!Ends -> Seq(Nat)]
      /\ wire \in [L!Ends -> Seq(Frames)] /\ ControlQueue \in Nat
      /\ \A e \in L!Ends : L!Other(e) \in L!Ends /\ Len(ins[e]) <= ControlQueue
  BY ProgressBounds DEF LinkInv, LinkTypes, LinkLimits, L!Ends, L!Other
<1>1. ASSUME NEW e \in L!Ends, L!Receive(e)
      PROVE  /\ ins' \in [L!Ends -> Seq(Nat)] /\ got' \in [L!Ends -> Seq(Nat)]
             /\ \A k \in L!Ends : Len(ins'[k]) <= ControlQueue
  <2>1. PICK t, h : t = Tail(ins[e]) /\ h = Head(ins[e])
    OBVIOUS
  <2>2. t \in Seq(Nat) /\ h \in Nat /\ Len(t) = Len(ins[e]) - 1 /\ Len(ins[e]) \in Nat
    BY <1>0, <1>1, <2>1, HeadTailProperties, LenProperties DEF L!Receive
  <2>3. ins' = [ins EXCEPT ![e] = t] /\ got' = [got EXCEPT ![e] = Append(got[e], h)]
    BY <1>1, <2>1 DEF L!Receive
  <2>4. Append(got[e], h) \in Seq(Nat)
    BY <1>0, <2>2, AppendProperties
  <2>5. Len(t) <= ControlQueue
    BY <1>0, <2>2
  <2>6. ins' \in [L!Ends -> Seq(Nat)] /\ \A k \in L!Ends : Len(ins'[k]) <= ControlQueue
    BY <1>0, <2>2, <2>3, <2>5
  <2>7. got' \in [L!Ends -> Seq(Nat)]
    BY <1>0, <2>3, <2>4
  <2> QED BY <2>6, <2>7
<1>2. ASSUME NEW e \in L!Ends, L!ReadControl(e)
      PROVE  /\ ins' \in [L!Ends -> Seq(Nat)] /\ got' \in [L!Ends -> Seq(Nat)]
             /\ \A k \in L!Ends : Len(ins'[k]) <= ControlQueue
  <2>1. PICK n : n = Head(wire[L!Other(e)]).n
    OBVIOUS
  <2>2. n \in Nat
    <3>1. PICK w \in Seq(Frames) : w = wire[L!Other(e)] /\ w # <<>>
      BY <1>0, <1>2 DEF L!ReadControl, L!From
    <3>2. Head(w) \in Frames
      BY <3>1, HeadTailProperties
    <3> QED BY <2>1, <3>1, <3>2 DEF Frames
  <2>3. /\ ins' = [ins EXCEPT ![e] = Append(ins[e], n)] /\ got' = got
        /\ Len(ins[e]) < ControlQueue
    BY <1>2, <2>1 DEF L!ReadControl, L!TakeControl, L!From, L!counts
  <2>4. /\ Append(ins[e], n) \in Seq(Nat) /\ Len(Append(ins[e], n)) = Len(ins[e]) + 1
        /\ Len(ins[e]) \in Nat
    BY <1>0, <2>2, AppendProperties, LenProperties
  <2> QED BY <1>0, <2>3, <2>4
<1>3. ASSUME NEW e \in L!Ends,
             \/ L!Send(e) \/ L!Bye(e) \/ L!WritePing(e) \/ L!Sent(e) \/ L!End(e)
             \/ L!WriteControl(e) \/ L!WriteMedia(e) \/ L!WriterStops(e)
             \/ L!ReadMedia(e) \/ L!ReadPing(e) \/ L!ReaderEnds(e)
             \/ L!SendMedia \/ L!Cut
      PROVE  ins' = ins /\ got' = got
  BY <1>3 DEF L!Send, L!Bye, L!WritePing, L!Sent, L!End, L!WriteControl, L!WriteMedia,
              L!WriterStops, L!ReadMedia, L!ReadPing, L!ReaderEnds, L!SendMedia, L!Cut,
              L!flow, L!counts
<1>9. A \in L!Ends
  BY DEF L!Ends
<1> QED BY <1>0, <1>1, <1>2, <1>3, <1>9 DEF L!Next, L!Step

\* The other variables have their types, and a message to send has a number.
LEMMA TasksTyped ==
  ASSUME LinkInv, L!Next
  PROVE  /\ up' \in BOOLEAN /\ writer' \subseteq L!Ends /\ reader' \subseteq L!Ends
         /\ closed' \in [L!Ends -> BOOLEAN] /\ bye' \in [L!Ends -> BOOLEAN]
         /\ session' \in [L!Ends -> {"run", "sending", "closing", "ended"}]
         /\ sent' \in [L!Ends -> Nat] /\ pings' \in [L!Ends -> Nat]
         /\ \A e \in L!Ends : sent'[e] <= Messages[e] /\ pings'[e] <= MaxPings[e]
         /\ Numbered'
<1>0. /\ up \in BOOLEAN /\ writer \subseteq L!Ends /\ reader \subseteq L!Ends
      /\ closed \in [L!Ends -> BOOLEAN] /\ bye \in [L!Ends -> BOOLEAN]
      /\ session \in [L!Ends -> {"run", "sending", "closing", "ended"}]
      /\ sent \in [L!Ends -> Nat] /\ pings \in [L!Ends -> Nat]
      /\ \A e \in L!Ends : sent[e] <= Messages[e] /\ pings[e] <= MaxPings[e]
      /\ Numbered
  BY DEF LinkInv, LinkTypes, LinkLimits
<1>1. Messages \in [L!Ends -> Nat] /\ MaxPings \in [L!Ends -> Nat] /\ A \in L!Ends
  BY ProgressBounds DEF L!Ends
<1>2. up' \in BOOLEAN /\ writer' \subseteq L!Ends /\ reader' \subseteq L!Ends
  BY <1>0 DEF L!Next, L!Step, L!Send, L!Bye, L!WritePing, L!Sent, L!End, L!Receive, L!WriteControl, L!WriteMedia,
       L!WriterStops, L!ReadControl, L!ReadMedia, L!ReadPing, L!ReaderEnds, L!SendMedia, L!Cut,
       L!Close, L!WriterEnds, L!flow, L!tasks, L!counts
<1>3. closed' \in [L!Ends -> BOOLEAN]
  BY <1>0 DEF L!Next, L!Step, L!Send, L!Bye, L!WritePing, L!Sent, L!End, L!Receive, L!WriteControl, L!WriteMedia,
       L!WriterStops, L!ReadControl, L!ReadMedia, L!ReadPing, L!ReaderEnds, L!SendMedia, L!Cut,
       L!Close, L!WriterEnds, L!flow, L!tasks, L!counts
<1>4. bye' \in [L!Ends -> BOOLEAN]
  BY <1>0 DEF L!Next, L!Step, L!Send, L!Bye, L!WritePing, L!Sent, L!End, L!Receive, L!WriteControl, L!WriteMedia,
       L!WriterStops, L!ReadControl, L!ReadMedia, L!ReadPing, L!ReaderEnds, L!SendMedia, L!Cut,
       L!Close, L!WriterEnds, L!flow, L!tasks, L!counts
<1>5. session' \in [L!Ends -> {"run", "sending", "closing", "ended"}]
  BY <1>0 DEF L!Next, L!Step, L!Send, L!Bye, L!WritePing, L!Sent, L!End, L!Receive, L!WriteControl, L!WriteMedia,
       L!WriterStops, L!ReadControl, L!ReadMedia, L!ReadPing, L!ReaderEnds, L!SendMedia, L!Cut,
       L!Close, L!WriterEnds, L!flow, L!tasks, L!counts
<1>6. /\ pings' \in [L!Ends -> Nat] /\ \A e \in L!Ends : pings'[e] <= MaxPings[e]
  <2>1. ASSUME NEW e \in L!Ends, L!WritePing(e)
        PROVE  /\ pings' \in [L!Ends -> Nat]
               /\ \A k \in L!Ends : pings'[k] <= MaxPings[k]
    <3>1. pings' = [pings EXCEPT ![e] = pings[e] + 1] /\ pings[e] < MaxPings[e]
      BY <2>1 DEF L!WritePing
    <3>2. pings[e] + 1 \in Nat /\ pings[e] + 1 <= MaxPings[e]
      BY <1>0, <1>1, <3>1
    <3> QED BY <1>0, <3>1, <3>2
  <2>2. ASSUME NEW e \in L!Ends,
               \/ L!Send(e) \/ L!Bye(e) \/ L!Sent(e) \/ L!End(e) \/ L!Receive(e)
               \/ L!WriteControl(e) \/ L!WriteMedia(e) \/ L!WriterStops(e)
               \/ L!ReadControl(e) \/ L!ReadMedia(e) \/ L!ReadPing(e) \/ L!ReaderEnds(e)
               \/ L!SendMedia \/ L!Cut
        PROVE  pings' = pings
    BY <2>2 DEF L!Send, L!Bye, L!Sent, L!End, L!Receive, L!WriteControl, L!WriteMedia,
                L!WriterStops, L!ReadControl, L!ReadMedia, L!ReadPing, L!ReaderEnds,
                L!SendMedia, L!Cut, L!counts
  <2> QED BY <1>0, <1>1, <2>1, <2>2 DEF L!Next, L!Step
<1>7. /\ sent' \in [L!Ends -> Nat] /\ \A e \in L!Ends : sent'[e] <= Messages[e]
      /\ Numbered'
  <2>1. ASSUME NEW e \in L!Ends, L!Send(e)
        PROVE  /\ sent' \in [L!Ends -> Nat] /\ \A k \in L!Ends : sent'[k] <= Messages[k]
               /\ Numbered'
    <3>1. /\ sent' = [sent EXCEPT ![e] = sent[e] + 1] /\ sent[e] < Messages[e]
          /\ session' = [session EXCEPT ![e] = "sending"] /\ bye' = bye
      BY <2>1 DEF L!Send
    <3>2. sent[e] + 1 \in Nat /\ sent[e] + 1 <= Messages[e] /\ sent[e] + 1 >= 1
      BY <1>0, <1>1, <3>1
    <3>3. sent' \in [L!Ends -> Nat]
      BY <1>0, <3>1, <3>2
    <3>4. \A k \in L!Ends : sent'[k] = IF k = e THEN sent[e] + 1 ELSE sent[k]
      BY <1>0, <3>1
    <3>5. \A k \in L!Ends : session'[k] = IF k = e THEN "sending" ELSE session[k]
      BY <1>0, <3>1
    <3>6. \A k \in L!Ends : sent'[k] <= Messages[k]
      BY <1>0, <3>2, <3>4
    <3>7. Numbered'
      BY <1>0, <3>1, <3>2, <3>4, <3>5 DEF Numbered
    <3> QED BY <3>3, <3>6, <3>7
  <2>2. ASSUME sent' = sent,
               \A k \in L!Ends : session'[k] = "sending" => bye'[k] \/ session[k] = "sending",
               \A k \in L!Ends : ~bye'[k] => ~bye[k]
        PROVE  /\ sent' \in [L!Ends -> Nat] /\ \A k \in L!Ends : sent'[k] <= Messages[k]
               /\ Numbered'
    BY <1>0, <2>2 DEF Numbered
  <2>3. ASSUME NEW e \in L!Ends, L!Bye(e)
        PROVE  /\ sent' = sent
               /\ \A k \in L!Ends : session'[k] = "sending" => bye'[k] \/ session[k] = "sending"
               /\ \A k \in L!Ends : ~bye'[k] => ~bye[k]
    BY <1>0, <2>3 DEF L!Bye, L!counts
  <2>4. ASSUME NEW e \in L!Ends, L!Sent(e) \/ L!End(e)
        PROVE  /\ sent' = sent
               /\ \A k \in L!Ends : session'[k] = "sending" => bye'[k] \/ session[k] = "sending"
               /\ \A k \in L!Ends : ~bye'[k] => ~bye[k]
    BY <1>0, <2>4 DEF L!Sent, L!End, L!counts
  <2>5. ASSUME NEW e \in L!Ends,
               \/ L!WritePing(e) \/ L!Receive(e) \/ L!WriteControl(e) \/ L!WriteMedia(e)
               \/ L!WriterStops(e) \/ L!ReadControl(e) \/ L!ReadMedia(e) \/ L!ReadPing(e)
               \/ L!ReaderEnds(e) \/ L!SendMedia \/ L!Cut
        PROVE  sent' = sent /\ session' = session /\ bye' = bye
    BY <2>5 DEF L!WritePing, L!Receive, L!WriteControl, L!WriteMedia, L!WriterStops,
                L!ReadControl, L!ReadMedia, L!ReadPing, L!ReaderEnds, L!SendMedia, L!Cut,
                L!counts
  <2> QED BY <1>1, <2>1, <2>2, <2>3, <2>4, <2>5 DEF L!Next, L!Step
<1> QED BY <1>2, <1>3, <1>4, <1>5, <1>6, <1>7

\* Media is counted once.
LEMMA MediaStep ==
  ASSUME LinkInv, L!Next
  PROVE  /\ media' \in [L!Ends -> Nat] /\ offered' \in Nat /\ accounted' \in Nat
         /\ \A e \in L!Ends : media'[e] <= MediaQueue
         /\ MediaFrom'
<1>0. /\ media \in [L!Ends -> Nat] /\ offered \in Nat /\ accounted \in Nat
      /\ \A e \in L!Ends : media[e] <= MediaQueue
      /\ MediaFrom /\ MediaQueue \in Nat /\ MaxMedia \in Nat
      /\ A \in L!Ends /\ B \in L!Ends /\ A # B
      /\ \A e \in L!Ends : e = A \/ e = B
  BY ProgressBounds DEF LinkInv, LinkTypes, LinkLimits, L!Ends
<1>1. CASE L!SendMedia
  BY <1>0, <1>1 DEF MediaFrom, L!MediaCounted, L!SendMedia, L!tasks
<1>2. ASSUME NEW e \in L!Ends, L!WriteMedia(e)
      PROVE  /\ media' \in [L!Ends -> Nat] /\ offered' \in Nat /\ accounted' \in Nat
             /\ \A k \in L!Ends : media'[k] <= MediaQueue
             /\ MediaFrom'
  BY <1>0, <1>2 DEF MediaFrom, L!MediaCounted, L!WriteMedia, L!tasks
<1>3. ASSUME NEW e \in L!Ends,
             \/ L!Send(e) \/ L!Bye(e) \/ L!WritePing(e) \/ L!Sent(e) \/ L!End(e)
             \/ L!WriteControl(e) \/ L!Receive(e) \/ L!WriterStops(e) \/ L!ReadControl(e)
             \/ L!ReadMedia(e) \/ L!ReadPing(e) \/ L!ReaderEnds(e) \/ L!Cut
      PROVE  /\ media' = media /\ offered' = offered /\ accounted' = accounted
             /\ writer' \subseteq writer
  BY <1>3 DEF L!Send, L!Bye, L!WritePing, L!Sent, L!End, L!WriteControl, L!Receive,
              L!WriterStops, L!ReadControl, L!ReadMedia, L!ReadPing, L!ReaderEnds, L!Cut,
              L!WriterEnds, L!flow, L!tasks, L!counts
<1>4. ASSUME media' = media, offered' = offered, accounted' = accounted,
             writer' \subseteq writer
      PROVE  /\ media' \in [L!Ends -> Nat] /\ offered' \in Nat /\ accounted' \in Nat
             /\ \A k \in L!Ends : media'[k] <= MediaQueue
             /\ MediaFrom'
  BY <1>0, <1>4 DEF MediaFrom, L!MediaCounted
<1> QED BY <1>0, <1>1, <1>2, <1>3, <1>4 DEF L!Next, L!Step

\* The invariant is inductive.
LEMMA LinkStep ==
  ASSUME LinkInv, L!Next
  PROVE  LinkInv'
<1>1. LinkTypes'
  BY OutGrows, WireGrows, InsGrows, TasksTyped, MediaStep DEF LinkTypes, Grows
<1>2. LinkLimits'
  <2>1. /\ \A e \in L!Ends : Len(out'[e]) <= ControlQueue
        /\ \A e \in L!Ends : Len(wire'[e]) <= Socket
    BY OutGrows, WireGrows DEF Grows, LinkInv, LinkLimits
  <2> QED BY <2>1, InsGrows, TasksTyped, MediaStep DEF LinkLimits
<1>3. Numbered' /\ MediaFrom'
  BY TasksTyped, MediaStep
<1> QED BY <1>1, <1>2, <1>3 DEF LinkInv

----------------------------------------------------------------------------
(* The connection implements Channel, step by step.                        *)

\* The channel's variables.
PendingF == [e \in L!Ends |-> L!Pending(e)]
ReceivedF == [e \in L!Ends |-> got[L!Other(e)]]

\* The other end's other end.
LEMMA OtherOther ==
  \A e \in L!Ends : L!Other(e) \in L!Ends /\ L!Other(L!Other(e)) = e
BY DEF L!Ends, L!Other

\* What is under way, in terms of Way.
LEMMA PendingIs ==
  \A e \in L!Ends : L!Pending(e) = Way(ins[L!Other(e)], wire[e], out[e], up)
BY DEF L!Pending, Way

\* The same of the next state.
LEMMA PendingIsNext ==
  \A e \in L!Ends : L!Pending(e)' = Way(ins'[L!Other(e)], wire'[e], out'[e], up')
BY DEF L!Pending, Way, L!Other

\* Steps that leave what is under way and what was received alone.
LEMMA Stutters ==
  ASSUME up' = up, got' = got, \A e \in L!Ends : L!Pending(e)' = L!Pending(e)
  PROVE  UNCHANGED L!Abstract!vars
BY DEF L!Abstract!vars, L!Other

\* Nothing is under way at first.
LEMMA InitRefines == L!Init => L!Abstract!Init
<1>1. ASSUME L!Init, NEW e \in L!Ends
      PROVE  L!Pending(e) = <<>> /\ got[L!Other(e)] = <<>>
  <2>1. /\ ins[L!Other(e)] = <<>> /\ wire[e] = <<>> /\ out[e] = <<>>
        /\ got[L!Other(e)] = <<>>
    BY <1>1, OtherOther DEF L!Init
  <2>2. Way(<<>>, <<>>, <<>>, up) = <<>>
    <3>1. <<>> \o <<>> = <<>>
      BY ConcatEmptySeq, EmptySeq
    <3> QED BY <3>1, ControlEmpty DEF Way
  <2> QED BY <2>1, <2>2, PendingIs
<1> QED BY <1>1 DEF L!Abstract!Init, L!Init

\* A frame joins the queue of e.
LEMMA QueueRefines ==
  ASSUME LinkInv, NEW e \in L!Ends, NEW f \in Frames,
         out' = [out EXCEPT ![e] = Append(@, f)],
         up' = up, ins' = ins, wire' = wire, got' = got,
         up /\ f.kind = "control" => f.n \in {L!Goodbye} \cup UNION {1 .. Messages[k] : k \in L!Ends}
  PROVE  L!Abstract!Next \/ UNCHANGED L!Abstract!vars
<1>0. /\ out \in [L!Ends -> Seq(Frames)] /\ wire \in [L!Ends -> Seq(Frames)]
      /\ ins \in [L!Ends -> Seq(Nat)]
  BY DEF LinkInv, LinkTypes
<1>1. \A k \in L!Ends : k # e => L!Pending(k)' = L!Pending(k)
  BY <1>0, PendingIs, PendingIsNext
<1>2. L!Pending(e)' = IF up /\ f.kind = "control" THEN Append(L!Pending(e), f.n)
                      ELSE L!Pending(e)
  <2>1. PICK i \in Seq(Nat), w \in Seq(Frames), q \in Seq(Frames) :
          i = ins[L!Other(e)] /\ w = wire[e] /\ q = out[e]
    BY <1>0, OtherOther
  <2>2. L!Pending(e) = Way(i, w, q, up) /\ L!Pending(e)' = Way(i, w, Append(q, f), up)
    BY <1>0, <2>1, PendingIs, PendingIsNext
  <2> QED BY <2>2, WayQueue
<1>3. CASE up /\ f.kind = "control"
  <2>1. PICK p : p = PendingF
    OBVIOUS
  <2>2. PendingF' = [p EXCEPT ![e] = Append(@, f.n)]
    BY <1>1, <1>2, <1>3, <2>1 DEF PendingF
  <2>3. ReceivedF' = ReceivedF
    BY DEF ReceivedF, L!Other
  <2>4. L!Abstract!Send(e)
    BY <1>3, <2>1, <2>2, <2>3 DEF L!Abstract!Send, PendingF, ReceivedF
  <2> QED BY <2>4 DEF L!Abstract!Next
<1>4. CASE ~(up /\ f.kind = "control")
  BY <1>1, <1>2, <1>4, Stutters
<1> QED BY <1>3, <1>4

\* The session's end may queue a Close.
LEMMA CloseRefines ==
  ASSUME LinkInv, NEW e \in L!Ends, L!Close(e),
         up' = up, ins' = ins, wire' = wire, got' = got
  PROVE  L!Abstract!Next \/ UNCHANGED L!Abstract!vars
<1>1. PICK f \in Frames : f = L!Frame("close")
  BY DEF L!Frame, Frames, L!FrameKinds
<1>2. f.kind # "control"
  BY <1>1 DEF L!Frame
<1>3. CASE out' = [out EXCEPT ![e] = Append(@, f)]
  BY <1>2, <1>3, QueueRefines
<1>4. CASE out' = out
  <2>1. \A k \in L!Ends : L!Pending(k)' = L!Pending(k)
    BY <1>4, PendingIs, PendingIsNext
  <2> QED BY <2>1, Stutters
<1> QED BY <1>1, <1>3, <1>4 DEF L!Close

\* The queue takes a message: it is sent.
LEMMA SentRefines ==
  ASSUME LinkInv, NEW e \in L!Ends, L!Sent(e)
  PROVE  L!Abstract!Next \/ UNCHANGED L!Abstract!vars
<1>0. /\ sent \in [L!Ends -> Nat] /\ \A k \in L!Ends : sent[k] <= Messages[k]
      /\ Messages \in [L!Ends -> Nat] /\ Numbered
  BY ProgressBounds DEF LinkInv, LinkTypes, LinkLimits, L!Ends
<1>1. up' = up /\ ins' = ins /\ wire' = wire /\ got' = got
  BY DEF L!Sent, L!counts
<1>2. CASE L!Close(e)
  BY <1>1, <1>2, CloseRefines
<1>3. CASE ~L!Close(e)
  <2>1. PICK m : m = IF bye[e] THEN L!Goodbye ELSE sent[e]
    OBVIOUS
  <2>2. m \in Nat /\ m \in {L!Goodbye} \cup UNION {1 .. Messages[k] : k \in L!Ends}
    <3>1. CASE bye[e]
      BY <2>1, <3>1 DEF L!Goodbye
    <3>2. CASE ~bye[e]
      <4>1. session[e] = "sending"
        BY DEF L!Sent
      <4>2. sent[e] \in 1 .. Messages[e]
        BY <1>0, <3>2, <4>1 DEF Numbered
      <4> QED BY <2>1, <3>2, <4>2
    <3> QED BY <3>1, <3>2
  <2>3. PICK f \in Frames : f = L!Control(m)
    BY <2>2 DEF L!Control, Frames, L!FrameKinds
  <2>4. f.n = m
    BY <2>3 DEF L!Control
  <2>5. out' = [out EXCEPT ![e] = Append(@, f)]
    BY <1>3, <2>1, <2>3 DEF L!Sent
  <2> QED BY <1>1, <2>2, <2>4, <2>5, QueueRefines
<1> QED BY <1>2, <1>3

\* The session takes a message.
LEMMA ReceiveRefines ==
  ASSUME LinkInv, NEW e \in L!Ends, L!Receive(e)
  PROVE  L!Abstract!Next
<1>0. /\ out \in [L!Ends -> Seq(Frames)] /\ wire \in [L!Ends -> Seq(Frames)]
      /\ ins \in [L!Ends -> Seq(Nat)] /\ got \in [L!Ends -> Seq(Nat)]
  BY DEF LinkInv, LinkTypes
<1>1. /\ up' = up /\ wire' = wire /\ out' = out /\ ins[e] # <<>>
      /\ ins' = [ins EXCEPT ![e] = Tail(ins[e])]
      /\ got' = [got EXCEPT ![e] = Append(got[e], Head(ins[e]))]
  BY DEF L!Receive
<1>2. PICK o \in L!Ends : o = L!Other(e) /\ L!Other(o) = e
  BY OtherOther
<1>3. /\ L!Pending(o) # <<>> /\ Head(L!Pending(o)) = Head(ins[e])
      /\ L!Pending(o)' = Tail(L!Pending(o))
  <2>1. PICK i \in Seq(Nat), w \in Seq(Frames), q \in Seq(Frames) :
          i = ins[e] /\ w = wire[o] /\ q = out[o]
    BY <1>0
  <2>2. ins'[e] = Tail(i)
    BY <1>0, <1>1, <2>1
  <2>3. L!Pending(o) = Way(i, w, q, up) /\ L!Pending(o)' = Way(Tail(i), w, q, up)
    BY <1>1, <1>2, <2>1, <2>2, PendingIs, PendingIsNext
  <2> QED BY <1>1, <2>1, <2>3, WayReceive
<1>4. \A k \in L!Ends : k # o => L!Other(k) # e
  BY <1>2, OtherOther
<1>5. \A k \in L!Ends : k # o => L!Pending(k)' = L!Pending(k)
  <2>1. ASSUME NEW k \in L!Ends, k # o
        PROVE  ins'[L!Other(k)] = ins[L!Other(k)]
    BY <1>0, <1>1, <1>4, <2>1, OtherOther
  <2> QED BY <1>1, <2>1, PendingIs, PendingIsNext
<1>6. PICK p, r : p = PendingF /\ r = ReceivedF
  OBVIOUS
<1>7. PendingF' = [p EXCEPT ![o] = Tail(@)]
  BY <1>3, <1>5, <1>6 DEF PendingF
<1>8. ReceivedF' = [r EXCEPT ![o] = Append(@, Head(p[o]))]
  <2>1. ASSUME NEW k \in L!Ends
        PROVE  ReceivedF'[k] = IF k = o THEN Append(got[e], Head(ins[e])) ELSE r[k]
    BY <1>0, <1>1, <1>2, <1>4, <1>6, OtherOther DEF ReceivedF
  <2>2. r[o] = got[e] /\ Head(p[o]) = Head(ins[e])
    BY <1>2, <1>3, <1>6 DEF ReceivedF, PendingF
  <2>3. DOMAIN r = L!Ends /\ DOMAIN ReceivedF' = L!Ends
    BY <1>6 DEF ReceivedF, L!Ends
  <2>4. ReceivedF' = [k \in L!Ends |-> ReceivedF'[k]]
    BY DEF ReceivedF, L!Ends
  <2>5. [r EXCEPT ![o] = Append(@, Head(p[o]))]
          = [k \in L!Ends |-> IF k = o THEN Append(r[o], Head(p[o])) ELSE r[k]]
    BY <2>3
  <2> QED BY <2>1, <2>2, <2>4, <2>5
<1>9. p[o] # <<>>
  BY <1>3, <1>6 DEF PendingF
<1>10. L!Abstract!Receive(o)
  BY <1>1, <1>6, <1>7, <1>8, <1>9 DEF L!Abstract!Receive, PendingF, ReceivedF
<1> QED BY <1>10 DEF L!Abstract!Next

\* The writer, the reader and the sockets hand on what is under way.
LEMMA PutStutters ==
  ASSUME LinkInv, NEW e \in L!Ends, NEW f \in Frames, f.kind # "control", L!Put(e, f),
         up' = up, out' = out, ins' = ins, got' = got
  PROVE  UNCHANGED L!Abstract!vars
<1>0. /\ up \in BOOLEAN /\ out \in [L!Ends -> Seq(Frames)]
      /\ wire \in [L!Ends -> Seq(Frames)] /\ ins \in [L!Ends -> Seq(Nat)]
  BY DEF LinkInv, LinkTypes
<1>1. ASSUME NEW k \in L!Ends
      PROVE  L!Pending(k)' = L!Pending(k)
  <2>1. CASE wire'[k] = wire[k]
    BY <2>1, PendingIs, PendingIsNext
  <2>2. CASE wire'[k] # wire[k]
    <3>1. wire'[k] = Append(wire[k], f)
      BY <1>0, <2>2 DEF L!Put
    <3>2. PICK i \in Seq(Nat), w \in Seq(Frames), q \in Seq(Frames), u \in BOOLEAN :
            i = ins[L!Other(k)] /\ w = wire[k] /\ q = out[k] /\ u = up
      BY <1>0, OtherOther
    <3>3. L!Pending(k) = Way(i, w, q, u) /\ L!Pending(k)' = Way(i, Append(w, f), q, u)
      BY <3>1, <3>2, PendingIs, PendingIsNext
    <3> QED BY <3>3, WayPut
  <2> QED BY <2>1, <2>2
<1> QED BY <1>1, Stutters

\* The writer moves the first frame of the queue to the sockets (write_loop).
LEMMA WriteStutters ==
  ASSUME LinkInv, NEW e \in L!Ends, L!WriteControl(e)
  PROVE  UNCHANGED L!Abstract!vars
<1>0. /\ out \in [L!Ends -> Seq(Frames)] /\ wire \in [L!Ends -> Seq(Frames)]
      /\ ins \in [L!Ends -> Seq(Nat)] /\ up \in BOOLEAN
  BY DEF LinkInv, LinkTypes
<1>1. /\ up' = up /\ ins' = ins /\ got' = got /\ out[e] # <<>>
      /\ out' = [out EXCEPT ![e] = Tail(out[e])] /\ L!Put(e, Head(out[e]))
  BY DEF L!WriteControl, L!counts
<1>2. ASSUME NEW k \in L!Ends
      PROVE  L!Pending(k)' = L!Pending(k)
  <2>1. CASE k # e
    <3>1. wire'[k] = wire[k] /\ out'[k] = out[k]
      BY <1>0, <1>1, <2>1 DEF L!Put
    <3> QED BY <1>1, <3>1, PendingIs, PendingIsNext
  <2>2. CASE k = e
    <3>1. PICK i \in Seq(Nat), w \in Seq(Frames), q \in Seq(Frames) :
            i = ins[L!Other(k)] /\ w = wire[k] /\ q = out[k]
      BY <1>0, OtherOther
    <3>2. out'[k] = Tail(q) /\ wire'[k] = IF up THEN Append(w, Head(q)) ELSE w
      BY <1>0, <1>1, <2>2, <3>1 DEF L!Put
    <3>3. L!Pending(k) = Way(i, w, q, up) /\ L!Pending(k)' = Way(i, wire'[k], Tail(q), up)
      BY <1>1, <3>1, <3>2, PendingIs, PendingIsNext
    <3>4. q # <<>>
      BY <1>1, <2>2, <3>1
    <3> QED BY <1>0, <3>2, <3>3, <3>4, WayWrite
  <2> QED BY <2>1, <2>2
<1> QED BY <1>1, <1>2, Stutters

\* The reader takes a frame, a control message to control_in (read_loop).
LEMMA ReadStutters ==
  ASSUME LinkInv, NEW e \in L!Ends, L!From(e) # <<>>, L!Taken(e),
         up' = up, got' = got, out' = out,
         IF Head(L!From(e)).kind = "control" THEN L!TakeControl(e) ELSE ins' = ins
  PROVE  UNCHANGED L!Abstract!vars
<1>0. /\ up \in BOOLEAN /\ out \in [L!Ends -> Seq(Frames)]
      /\ wire \in [L!Ends -> Seq(Frames)] /\ ins \in [L!Ends -> Seq(Nat)]
  BY DEF LinkInv, LinkTypes
<1>1. PICK o \in L!Ends : o = L!Other(e) /\ L!Other(o) = e
  BY OtherOther
<1>2. PICK w \in Seq(Frames) : w = wire[o] /\ w # <<>>
  BY <1>0, <1>1 DEF L!From
<1>3. wire' = [wire EXCEPT ![o] = Tail(w)]
  BY <1>1, <1>2 DEF L!Taken
<1>4. ASSUME NEW k \in L!Ends
      PROVE  L!Pending(k)' = L!Pending(k)
  <2>1. CASE k # o
    <3>1. L!Other(k) # e
      BY <1>1, <2>1, OtherOther
    <3>2. ins'[L!Other(k)] = ins[L!Other(k)]
      BY <1>0, <3>1, OtherOther DEF L!TakeControl
    <3>3. wire'[k] = wire[k]
      BY <1>0, <1>3, <2>1
    <3> QED BY <3>2, <3>3, PendingIs, PendingIsNext
  <2>2. CASE k = o
    <3>1. PICK i \in Seq(Nat), q \in Seq(Frames), u \in BOOLEAN :
            i = ins[e] /\ q = out[o] /\ u = up
      BY <1>0
    <3>2. wire'[o] = Tail(w)
      BY <1>0, <1>3
    <3>3. ins'[e] = IF Head(w).kind = "control" THEN Append(i, Head(w).n) ELSE i
      BY <1>0, <1>1, <1>2, <3>1 DEF L!TakeControl, L!From
    <3>4. L!Pending(o) = Way(i, w, q, u) /\ L!Pending(o)' = Way(ins'[e], Tail(w), q, u)
      BY <1>1, <1>2, <3>1, <3>2, PendingIs, PendingIsNext
    <3>5. IF Head(w).kind = "control"
          THEN Way(Append(i, Head(w).n), Tail(w), q, u) = Way(i, w, q, u)
          ELSE Way(i, Tail(w), q, u) = Way(i, w, q, u)
      BY <1>2, WayRead
    <3> QED BY <2>2, <3>3, <3>4, <3>5
  <2> QED BY <2>1, <2>2
<1> QED BY <1>4, Stutters

\* The network fails.
LEMMA CutRefines ==
  ASSUME LinkInv, L!Cut
  PROVE  L!Abstract!Next
<1>0. /\ out \in [L!Ends -> Seq(Frames)] /\ wire \in [L!Ends -> Seq(Frames)]
      /\ ins \in [L!Ends -> Seq(Nat)]
  BY DEF LinkInv, LinkTypes
<1>1. PICK n \in [L!Ends -> 0 .. Socket] :
        /\ \A e \in L!Ends : n[e] <= Len(wire[e])
        /\ wire' = [e \in L!Ends |-> SubSeq(wire[e], 1, n[e])]
  BY DEF L!Cut
<1>2. /\ up = TRUE /\ up' = FALSE /\ out' = out /\ ins' = ins /\ got' = got
  BY DEF L!Cut, L!counts, LinkInv, LinkTypes
<1>3. ASSUME NEW e \in L!Ends
      PROVE  L!Abstract!IsPrefix(L!Pending(e)', L!Pending(e))
  <2>1. PICK i \in Seq(Nat), w \in Seq(Frames), q \in Seq(Frames), m \in 0 .. Socket :
          i = ins[L!Other(e)] /\ w = wire[e] /\ q = out[e] /\ m = n[e]
    BY <1>0, OtherOther
  <2>2. m \in 0 .. Len(w)
    <3>1. m \in 0 .. Socket /\ m <= Len(w) /\ Len(w) \in Nat /\ Socket \in Nat
      BY <1>1, <2>1, LenProperties, ProgressBounds
    <3> QED BY <3>1
  <2>3. wire'[e] = SubSeq(w, 1, m)
    BY <1>1, <2>1
  <2>4. /\ L!Pending(e) = Way(i, w, q, TRUE)
        /\ L!Pending(e)' = Way(i, SubSeq(w, 1, m), q, FALSE)
    BY <1>2, <2>1, <2>3, PendingIs, PendingIsNext
  <2> QED BY <2>2, <2>4, WayCut
<1>4. L!Abstract!Lose
  <2>1. \A e \in L!Ends : L!Abstract!IsPrefix(PendingF'[e], PendingF[e])
    BY <1>3 DEF PendingF, L!Ends
  <2>2. ReceivedF' = ReceivedF
    BY <1>2 DEF ReceivedF, L!Ends, L!Other
  <2> QED BY <1>2, <2>1, <2>2 DEF L!Abstract!Lose, PendingF, ReceivedF
<1> QED BY <1>4 DEF L!Abstract!Next

\* A Ping is read and its Pong queued.
LEMMA PingStutters ==
  ASSUME LinkInv, NEW e \in L!Ends, NEW f \in Frames, f.kind # "control",
         L!From(e) # <<>>, L!Taken(e), Head(L!From(e)).kind # "control",
         up' = up, got' = got, ins' = ins, out' = [out EXCEPT ![e] = Append(@, f)]
  PROVE  UNCHANGED L!Abstract!vars
<1>0. /\ wire \in [L!Ends -> Seq(Frames)] /\ ins \in [L!Ends -> Seq(Nat)]
      /\ out \in [L!Ends -> Seq(Frames)]
      /\ up \in BOOLEAN
  BY DEF LinkInv, LinkTypes
<1>1. PICK o \in L!Ends, v \in Seq(Frames) :
        o = L!Other(e) /\ v = wire[o] /\ v # <<>> /\ Head(v).kind # "control"
  BY <1>0, OtherOther DEF L!From
<1>2. wire' = [wire EXCEPT ![o] = Tail(v)]
  BY <1>1 DEF L!Taken
<1>3. ASSUME NEW k \in L!Ends
      PROVE  L!Pending(k)' = L!Pending(k)
  <2>1. PICK i \in Seq(Nat), w \in Seq(Frames), q \in Seq(Frames), u \in BOOLEAN :
          i = ins[L!Other(k)] /\ w = wire[k] /\ q = out[k] /\ u = up
    BY <1>0, OtherOther
  <2>2. PICK x \in Seq(Frames), y \in Seq(Frames) :
          /\ x = wire'[k] /\ y = out'[k]
          /\ \/ x = w
             \/ x = Tail(w) /\ w # <<>> /\ Head(w).kind # "control"
          /\ y = q \/ y = Append(q, f)
    <3>1. \/ wire'[k] = w
          \/ wire'[k] = Tail(w) /\ w # <<>> /\ Head(w).kind # "control"
      BY <1>0, <1>1, <1>2, <2>1
    <3>2. out'[k] = q \/ out'[k] = Append(q, f)
      BY <1>0, <2>1
    <3>3. wire'[k] \in Seq(Frames)
      BY <3>1, HeadTailProperties
    <3>5. Append(q, f) \in Seq(Frames)
      BY AppendProperties
    <3>4. out'[k] \in Seq(Frames)
      BY <3>2, <3>5
    <3> QED BY <3>1, <3>2, <3>3, <3>4
  <2>3. L!Pending(k) = Way(i, w, q, u) /\ L!Pending(k)' = Way(i, x, y, u)
    BY <2>1, <2>2, PendingIs, PendingIsNext
  <2>4. Way(i, x, y, u) = Way(i, x, q, u)
    <3>1. Way(i, x, Append(q, f), u) = Way(i, x, q, u)
      BY WayQueue
    <3> QED BY <2>2, <3>1
  <2>5. Way(i, x, q, u) = Way(i, w, q, u)
    <3>1. CASE x = w
      BY <3>1
    <3>2. CASE x = Tail(w) /\ w # <<>> /\ Head(w).kind # "control"
      BY <3>2, WayRead
    <3> QED BY <2>2, <3>1, <3>2
  <2> QED BY <2>3, <2>4, <2>5
<1> QED BY <1>3, Stutters

\* Every step of the connection is one of the channel, or leaves it alone.
LEMMA StepRefines ==
  ASSUME LinkInv, L!Next
  PROVE  L!Abstract!Next \/ UNCHANGED L!Abstract!vars
<1>1. ASSUME NEW e \in L!Ends,
             \/ L!Send(e) \/ L!Bye(e) \/ L!WriterStops(e) \/ L!ReaderEnds(e) \/ L!SendMedia
      PROVE  UNCHANGED L!Abstract!vars
  <2>1. up' = up /\ out' = out /\ wire' = wire /\ ins' = ins /\ got' = got
    BY <1>1 DEF L!Send, L!Bye, L!WriterStops, L!ReaderEnds, L!SendMedia, L!flow, L!counts
  <2>2. \A k \in L!Ends : L!Pending(k)' = L!Pending(k)
    BY <2>1, PendingIs, PendingIsNext
  <2> QED BY <2>1, <2>2, Stutters
<1>2. ASSUME NEW e \in L!Ends, L!WritePing(e) \/ L!WriteMedia(e)
      PROVE  UNCHANGED L!Abstract!vars
  <2>1. up' = up /\ out' = out /\ ins' = ins /\ got' = got
    BY <1>2 DEF L!WritePing, L!WriteMedia, L!tasks
  <2>2. PICK p, m : p = L!Frame("ping") /\ m = L!Frame("media")
    OBVIOUS
  <2>5. p \in Frames /\ m \in Frames /\ p.kind # "control" /\ m.kind # "control"
    BY <2>2 DEF L!Frame, Frames, L!FrameKinds
  <2>3. L!Put(e, p) \/ L!Put(e, m) \/ wire' = wire
    BY <1>2, <2>2 DEF L!WritePing, L!WriteMedia
  <2>4. CASE wire' = wire
    <3>1. \A k \in L!Ends : L!Pending(k)' = L!Pending(k)
      BY <2>1, <2>4, PendingIs, PendingIsNext
    <3> QED BY <2>1, <3>1, Stutters
  <2> QED BY <2>1, <2>3, <2>4, <2>5, PutStutters
<1>3. ASSUME NEW e \in L!Ends, L!ReadControl(e) \/ L!ReadMedia(e) \/ L!ReadPing(e)
      PROVE  L!Abstract!Next \/ UNCHANGED L!Abstract!vars
  <2>1. /\ up' = up /\ got' = got /\ L!From(e) # <<>> /\ L!Taken(e)
    BY <1>3 DEF L!ReadControl, L!ReadMedia, L!ReadPing, L!tasks, L!counts
  <2>2. CASE L!ReadControl(e) \/ L!ReadMedia(e)
    <3>1. /\ out' = out
          /\ IF Head(L!From(e)).kind = "control" THEN L!TakeControl(e) ELSE ins' = ins
      BY <2>2 DEF L!ReadControl, L!ReadMedia
    <3> QED BY <2>1, <3>1, ReadStutters
  <2>3. CASE L!ReadPing(e)
    <3>1. ins' = ins /\ Head(L!From(e)).kind # "control"
      BY <2>3 DEF L!ReadPing
    <3>2. PICK f : f = L!Frame("pong")
      OBVIOUS
    <3>6. f \in Frames /\ f.kind # "control"
      BY <3>2 DEF L!Frame, Frames, L!FrameKinds
    <3>3. out' = out \/ out' = [out EXCEPT ![e] = Append(@, f)]
      BY <2>3, <3>2 DEF L!ReadPing
    <3>4. CASE out' = out
      BY <2>1, <3>1, <3>4, ReadStutters
    <3>5. CASE out' = [out EXCEPT ![e] = Append(@, f)]
      BY <2>1, <3>1, <3>5, <3>6, PingStutters
    <3> QED BY <3>3, <3>4, <3>5
  <2> QED BY <1>3, <2>2, <2>3
<1>4. ASSUME NEW e \in L!Ends, L!End(e)
      PROVE  L!Abstract!Next \/ UNCHANGED L!Abstract!vars
  <2>1. L!Close(e) /\ up' = up /\ ins' = ins /\ wire' = wire /\ got' = got
    BY <1>4 DEF L!End, L!counts
  <2> QED BY <2>1, CloseRefines
<1>5. A \in L!Ends
  BY DEF L!Ends
<1> QED
  BY <1>1, <1>2, <1>3, <1>4, <1>5, SentRefines, ReceiveRefines, WriteStutters, CutRefines
  DEF L!Next, L!Step

\* The steps of the connection and of the other parts.
LEMMA LinkSteps ==
  [ProgressNext]_all => L!Next \/ UNCHANGED linkVars
BY DEF ProgressNext, all, testSame, engineSame

\* The connection's invariant holds.
LEMMA LinkAlways == ProgressSpec => []LinkInv
<1>1. ProgressInit => LinkInv
  BY LinkInit DEF ProgressInit
<1>2. ASSUME LinkInv, [ProgressNext]_all
      PROVE  LinkInv'
  <2>1. CASE L!Next
    BY <1>2, <2>1, LinkStep
  <2>2. CASE UNCHANGED linkVars
    BY <1>2, <2>2 DEF LinkInv, LinkTypes, LinkLimits, Numbered, MediaFrom, L!MediaCounted,
                      linkVars
  <2> QED BY <1>2, <2>1, <2>2, LinkSteps
<1> QED BY <1>1, <1>2, PTL DEF ProgressSpec

\* The TCP fallback is a channel (write_loop, read_loop, ControlSender::send): for
\* any queues, sockets and messages, and however the tasks and the network
\* interleave, every step of a behaviour is a step of Channel or leaves it alone.
THEOREM ConnectionIsChannel == ProgressSpec => InOrder
<1>1. ProgressInit => L!Abstract!Init
  BY InitRefines DEF ProgressInit
<1>2. ASSUME LinkInv, [ProgressNext]_all
      PROVE  [L!Abstract!Next]_(L!Abstract!vars)
  <2>1. CASE L!Next
    BY <1>2, <2>1, StepRefines
  <2>2. CASE UNCHANGED linkVars
    <3>1. \A k \in L!Ends : L!Pending(k)' = L!Pending(k)
      BY <2>2, PendingIs, PendingIsNext DEF linkVars
    <3>2. up' = up /\ got' = got
      BY <2>2 DEF linkVars
    <3> QED BY <3>1, <3>2, Stutters
  <2> QED BY <1>2, <2>1, <2>2, LinkSteps
<1> QED BY <1>1, <1>2, LinkAlways, PTL
  DEF ProgressSpec, InOrder, L!InOrder, L!Abstract!Spec

----------------------------------------------------------------------------
(* The invariant of a network test.                                        *)

Asks == [kind : {"start", "stop"}, id : 0 .. MaxTests]

Tests == [id : 0 .. MaxTests, phase : {"ready", "running", "finished"}, age : 0 .. Ready]
Tasks == [id : 0 .. MaxTests, sent : 0 .. Probes, got : SUBSET (Nat \X Nat)]
Arms == [id : 0 .. MaxTests, left : 0 .. TestWindow]

TestTypes ==
  /\ connected \in BOOLEAN /\ next \in 0 .. MaxTests /\ waiting \in 0 .. 2
  /\ sink \in 0 .. MaxTests
  /\ test \in Tests /\ task \in Tasks /\ armed \in Arms
  /\ asks \in Seq(Asks) /\ back \in Seq(0 .. MaxTests)
  /\ waiting > 0 => T!Running

\* Echoes of test id, each of a probe of its own.
Own(r) == r.got \subseteq {r.id} \X (1 .. Probes)

Reports ==
  /\ asked = report.id /\ Own(report) /\ Own(task)
  /\ \A f \in finished : Own(f)
  /\ \A p \in air : p.seq \in 1 .. Probes

\* Ids are not given again.
Given ==
  /\ test.id <= next
  /\ \A k \in 1 .. Len(asks) : asks[k].id <= next
  /\ \A k \in 1 .. Len(back) : back[k] <= next

\* The request for test id is under way, and nothing else about the test.
Asking(q, b, id) ==
  /\ Len(q) > 0 /\ q[Len(q)].kind = "start" /\ q[Len(q)].id = id
  /\ \A k \in 1 .. Len(q) - 1 : q[k].id # id
  /\ \A k \in 1 .. Len(b) : b[k] # id

\* The peer echoes for as long as its answer took and the test's probes take.
Handshake ==
  /\ test.phase = "ready" =>
       /\ test.id # 0
       /\ \/ Asking(asks, back, test.id)
          \/ /\ asks = <<>> /\ armed.id = test.id
             /\ armed.left + test.age >= TestWindow
  /\ test.phase = "running" => test.id # 0 /\ asks = <<>>
  /\ task.id # 0 =>
       /\ test.phase = "running" /\ task.id = test.id /\ armed.id = test.id
       /\ armed.left + Ready + task.sent >= TestWindow

TestInv == TestTypes /\ Reports /\ Given /\ Handshake

\* The invariant holds at first.
LEMMA TestInit == T!Init => TestInv
<1> SUFFICES ASSUME T!Init PROVE TestInv
  OBVIOUS
<1>0. /\ MaxTests \in Nat /\ Ready \in Nat /\ Probes \in Nat /\ TestWindow \in Nat
  BY ProgressBounds
<1>1. TestTypes
  BY <1>0 DEF T!Init, TestTypes, T!NoTest, T!NoTask, T!NoEcho, T!None, T!Running, Tests,
              Tasks, Arms
<1>2. Reports
  BY <1>0 DEF T!Init, Reports, Own, T!NoTask, T!None
<1>3. Given /\ Handshake
  BY <1>0 DEF T!Init, Given, Handshake, T!NoTest, T!NoTask, T!None
<1> QED BY <1>1, <1>2, <1>3 DEF TestInv

\* A request or a stop joins the queue.
LEMMA Joins ==
  ASSUME NEW q \in Seq(Asks), NEW a \in Asks
  PROVE  /\ Append(q, a) \in Seq(Asks) /\ Len(Append(q, a)) = Len(q) + 1
         /\ Len(q) \in Nat
         /\ \A k \in 1 .. Len(q) : Append(q, a)[k] = q[k]
         /\ Append(q, a)[Len(q) + 1] = a
BY AppendProperties, LenProperties

\* Every step keeps the types.
LEMMA TypesKept ==
  ASSUME TestInv, T!Next
  PROVE  TestTypes'
<1>0. /\ MaxTests \in Nat /\ Ready \in Nat /\ Probes \in Nat /\ TestWindow \in Nat
  BY ProgressBounds
<1>a. armed \in Arms
  BY DEF TestInv, TestTypes
<1>b. task \in Tasks
  BY DEF TestInv, TestTypes
<1>c. test \in Tests
  BY DEF TestInv, TestTypes
<1>d. asks \in Seq(Asks) /\ back \in Seq(0 .. MaxTests)
  BY DEF TestInv, TestTypes
<1>e. /\ connected \in BOOLEAN /\ next \in 0 .. MaxTests /\ waiting \in 0 .. 2
      /\ sink \in 0 .. MaxTests
      /\ waiting > 0 => T!Running
  BY DEF TestInv, TestTypes
<1>f. T!NoTask \in Tasks /\ T!NoEcho \in Arms /\ T!NoTest \in Tests
      /\ T!NoTest.phase = "finished"
  BY <1>0 DEF Tasks, Arms, Tests, T!NoTask, T!NoEcho, T!NoTest, T!None
<1>g. ASSUME NEW t, t = [test EXCEPT !.phase = "finished"]
      PROVE  t \in Tests /\ t.phase = "finished"
  BY <1>c, <1>g DEF Tests
<1>h. ASSUME T!PeerHandles
      PROVE  Head(asks).id \in 0 .. MaxTests
  <2>1. Head(asks) \in Asks
    BY <1>d, <1>h, HeadTailProperties DEF T!PeerHandles
  <2> QED BY <2>1 DEF Asks
<1>1. armed' \in Arms
  <2>1. CASE armed' = armed
    BY <1>a, <2>1
  <2>2. CASE armed' = T!NoEcho
    BY <1>f, <2>2
  <2>3. CASE T!PeerHandles
    <3>1. PICK h : h = Head(asks)
      OBVIOUS
    <3>2. h.id \in 0 .. MaxTests
      BY <1>h, <2>3, <3>1
    <3>3. armed' = [id |-> h.id, left |-> TestWindow] \/ armed' = [id |-> h.id, left |-> 0]
      BY <2>3, <3>1 DEF T!PeerHandles
    <3> QED BY <1>0, <3>2, <3>3 DEF Arms
  <2>4. CASE T!Tick
    <3>1. (IF armed.left > 0 THEN armed.left - 1 ELSE 0) \in 0 .. TestWindow
      BY <1>0, <1>a DEF Arms
    <3> QED BY <1>a, <2>4, <3>1 DEF T!Tick, Arms
  <2> QED
    BY <2>1, <2>2, <2>3, <2>4
    DEF T!Next, T!Start, T!OnReady, T!OnFinished, T!Cancel, T!Connect, T!Disconnect,
        T!EchoArrives, T!ProbeArrives, T!Lost
<1>2. task' \in Tasks
  <2>1. CASE task' = task
    BY <1>b, <2>1
  <2>2. CASE task' = T!NoTask
    BY <1>f, <2>2
  <2>3. CASE T!OnReady
    <3>1. task' = task \/ task' = [id |-> test.id, sent |-> 0, got |-> {}]
      BY <2>3 DEF T!OnReady
    <3> QED BY <1>0, <1>b, <1>c, <3>1 DEF Tasks, Tests
  <2>4. CASE T!EchoArrives /\ task' # task
    <3>1. PICK p \in air : /\ task' = [task EXCEPT !.got = @ \cup {<<p.id, p.seq>>}]
                           /\ p.id = task.id
      BY <2>4 DEF T!EchoArrives, T!Counts
    <3>2. task.id \in Nat /\ p.seq \in Nat /\ p.id \in Nat
      BY <1>0, <1>b, <3>1 DEF TestInv, Reports, Tasks
    <3>3. task.got \cup {<<p.id, p.seq>>} \in SUBSET (Nat \X Nat)
      BY <1>b, <3>2 DEF Tasks
    <3> QED BY <1>b, <3>1, <3>3 DEF Tasks
  <2>5. CASE T!Tick /\ task' # task /\ task' # T!NoTask
    <3>1. task' = [task EXCEPT !.sent = @ + 1] /\ task.sent < Probes
      BY <2>5 DEF T!Tick, T!TaskStep, T!Finish
    <3>2. task.sent + 1 \in 0 .. Probes
      BY <1>0, <1>b, <3>1 DEF Tasks
    <3> QED BY <1>b, <3>1, <3>2 DEF Tasks
  <2> QED
    BY <2>1, <2>2, <2>3, <2>4, <2>5
    DEF T!Next, T!Start, T!OnFinished, T!Cancel, T!Connect, T!Disconnect, T!Finish,
        T!ProbeArrives, T!Lost, T!PeerHandles
<1>3. test' \in Tests /\ (waiting' > 0 => test'.phase # "finished")
  <2>0. waiting > 0 => test.phase # "finished"
    BY <1>e DEF T!Running
  <2>1. CASE test' = test /\ waiting' = waiting
    BY <1>c, <2>0, <2>1
  <2>2. CASE T!Start
    <3>1. CASE T!Running
      BY <1>c, <2>2, <3>1 DEF T!Start, T!Running
    <3>2. CASE ~T!Running
      <4>1. /\ test' = [id |-> next + 1, phase |-> "ready", age |-> 0] /\ next < MaxTests
        BY <2>2, <3>2 DEF T!Start
      <4> QED BY <1>0, <1>e, <4>1 DEF Tests
    <3> QED BY <3>1, <3>2
  <2>3. CASE T!OnReady
    <3>1. /\ waiting' = waiting
          /\ \/ test' = test
             \/ test' = [test EXCEPT !.phase = "running"]
      BY <2>3 DEF T!OnReady
    <3>2. CASE test' = [test EXCEPT !.phase = "running"]
      BY <1>c, <3>1, <3>2 DEF Tests
    <3> QED BY <1>c, <2>0, <3>1, <3>2
  <2>4. CASE waiting' = 0 /\ test' = [test EXCEPT !.phase = "finished"]
    BY <1>g, <2>4
  <2>5. CASE T!Tick /\ ~T!Expired
    <3>1. /\ waiting' = waiting
          /\ test' = [test EXCEPT !.age =
                        IF test.phase = "ready" /\ @ < Ready THEN @ + 1 ELSE @]
      BY <2>5 DEF T!Tick
    <3>2. (IF test.phase = "ready" /\ test.age < Ready THEN test.age + 1 ELSE test.age)
            \in 0 .. Ready
      BY <1>0, <1>c DEF Tests
    <3>3. test' \in Tests /\ test'.phase = test.phase
      BY <1>c, <3>1, <3>2 DEF Tests
    <3> QED BY <2>0, <3>1, <3>3
  <2>6. CASE waiting' = 0 /\ test' = T!NoTest
    BY <1>f, <2>6
  <2> QED
    BY <2>1, <2>2, <2>3, <2>4, <2>5, <2>6
    DEF T!Next, T!OnFinished, T!Cancel, T!Connect, T!Disconnect, T!Finish, T!EchoArrives,
        T!ProbeArrives, T!Lost, T!PeerHandles, T!Tick
<1>4. asks' \in Seq(Asks)
  <2>1. CASE asks' = asks \/ asks' = <<>>
    BY <1>d, <2>1, EmptySeq
  <2>2. CASE T!Start /\ ~T!Running
    <3>1. PICK a : a = [kind |-> "start", id |-> next + 1]
      OBVIOUS
    <3>2. asks' = Append(asks, a) /\ next < MaxTests
      BY <2>2, <3>1 DEF T!Start
    <3>3. a \in Asks
      BY <1>0, <1>e, <3>1, <3>2 DEF Asks
    <3> QED BY <1>d, <3>2, <3>3, Joins
  <2>3. ASSUME asks' = Append(asks, [kind |-> "stop", id |-> test.id])
        PROVE  asks' \in Seq(Asks)
    <3>1. PICK a : a = [kind |-> "stop", id |-> test.id]
      OBVIOUS
    <3>2. a \in Asks
      BY <1>c, <3>1 DEF Tests, Asks
    <3> QED BY <1>d, <2>3, <3>1, <3>2, Joins
  <2>4. CASE T!PeerHandles
    BY <1>d, <2>4, HeadTailProperties DEF T!PeerHandles
  <2> QED
    BY <2>1, <2>2, <2>3, <2>4
    DEF T!Next, T!Start, T!OnReady, T!OnFinished, T!Cancel, T!Connect, T!Disconnect,
        T!Finish, T!EchoArrives, T!ProbeArrives, T!Lost, T!Tick
<1>5. back' \in Seq(0 .. MaxTests)
  <2>1. CASE back' = back \/ back' = <<>>
    BY <1>d, <2>1, EmptySeq
  <2>2. CASE T!OnReady
    BY <1>d, <2>2, HeadTailProperties DEF T!OnReady
  <2>3. CASE T!PeerHandles
    <3>1. PICK i : i = Head(asks).id
      OBVIOUS
    <3>2. i \in 0 .. MaxTests
      BY <1>h, <2>3, <3>1
    <3>3. Append(back, i) \in Seq(0 .. MaxTests)
      BY <1>d, <3>2, AppendProperties
    <3> QED BY <1>d, <2>3, <3>1, <3>3 DEF T!PeerHandles
  <2> QED
    BY <2>1, <2>2, <2>3
    DEF T!Next, T!Start, T!OnFinished, T!Cancel, T!Connect, T!Disconnect,
        T!EchoArrives, T!ProbeArrives, T!Lost, T!Tick
<1>6. connected' \in BOOLEAN
  BY <1>e DEF T!Next, T!Start, T!OnReady, T!OnFinished, T!Cancel, T!Connect, T!Disconnect,
              T!EchoArrives, T!ProbeArrives, T!Lost, T!PeerHandles, T!Tick
<1>7. next' \in 0 .. MaxTests /\ waiting' \in 0 .. 2 /\ sink' \in 0 .. MaxTests
  <2>1. CASE T!Start
    BY <1>0, <1>e, <2>1 DEF T!Start
  <2>2. /\ next' = next \/ T!Start
        /\ waiting' = waiting \/ waiting' = 0 \/ T!Start
        /\ sink' = sink \/ sink' = test.id \/ sink' = 0
    BY DEF T!Next, T!Start, T!OnReady, T!OnFinished, T!Cancel, T!Connect, T!Disconnect,
           T!Finish, T!EchoArrives, T!ProbeArrives, T!Lost, T!PeerHandles, T!Tick, T!None
  <2> QED BY <1>0, <1>c, <1>e, <2>1, <2>2 DEF Tests
<1> QED
  BY <1>1, <1>2, <1>3, <1>4, <1>5, <1>6, <1>7 DEF TestTypes, T!Running

\* Every step keeps the reports.
LEMMA ReportsKept ==
  ASSUME TestInv, T!Next
  PROVE  Reports'
<1>0. Reports /\ Probes \in Nat /\ task \in Tasks /\ task.sent \in 0 .. Probes
  BY ProgressBounds DEF TestInv, TestTypes, Tasks
<1>1. CASE T!OnFinished
  <2>1. PICK f \in finished :
          /\ finished' = finished \ {f} /\ air' = air
          /\ \/ report' = f /\ asked' = test.id /\ test.id = f.id /\ task' = T!NoTask
             \/ report' = report /\ asked' = asked /\ task' = task
    BY <1>1 DEF T!OnFinished, T!Takes, T!Finish
  <2>2. Own(T!NoTask)
    BY DEF Own, T!NoTask
  <2> QED BY <1>0, <2>1, <2>2 DEF Reports
<1>2. CASE T!EchoArrives
  <2>1. Own(task)'
    <3>1. CASE task' = task
      BY <1>0, <3>1 DEF Reports
    <3>2. CASE task' # task
      <4>1. PICK p \in air : /\ task' = [task EXCEPT !.got = @ \cup {<<p.id, p.seq>>}]
                             /\ p.id = task.id
        BY <1>2, <3>2 DEF T!EchoArrives, T!Counts
      <4>2. p.seq \in 1 .. Probes
        BY <1>0, <4>1 DEF Reports
      <4>3. task'.id = task.id /\ task'.got = task.got \cup {<<task.id, p.seq>>}
        BY <1>0, <4>1 DEF Tasks
      <4> QED BY <1>0, <4>2, <4>3 DEF Reports, Own
    <3> QED BY <3>1, <3>2
  <2>2. air' \subseteq air /\ finished' = finished /\ report' = report /\ asked' = asked
    BY <1>2 DEF T!EchoArrives
  <2> QED BY <1>0, <2>1, <2>2 DEF Reports
<1>3. CASE T!ProbeArrives
  <2>1. PICK p \in air : air' \subseteq air \cup {T!Echo(p)}
    BY <1>3 DEF T!ProbeArrives
  <2>2. T!Echo(p).seq = p.seq
    BY DEF T!Echo
  <2> QED BY <1>0, <1>3, <2>1, <2>2 DEF Reports, T!ProbeArrives
<1>4. CASE T!Tick
  <2>1. CASE T!Expired
    BY <1>0, <1>4, <2>1 DEF T!Tick, T!Finish, T!NoTask, Reports, Own
  <2>2. CASE ~T!Expired /\ task.id = T!None
    BY <1>0, <1>4, <2>2 DEF T!Tick, T!TaskStep, Reports
  <2>3. CASE ~T!Expired /\ task.id # T!None /\ task.sent < Probes
    <3>1. /\ task' = [task EXCEPT !.sent = @ + 1] /\ finished' = finished
          /\ air' \subseteq air \cup {T!Probe(task.id, task.sent + 1)}
          /\ report' = report /\ asked' = asked
      BY <1>4, <2>3 DEF T!Tick, T!TaskStep
    <3>2. Own(task)'
      BY <1>0, <3>1 DEF Reports, Own, Tasks
    <3>3. T!Probe(task.id, task.sent + 1).seq \in 1 .. Probes
      BY <1>0, <2>3 DEF T!Probe
    <3> QED BY <1>0, <3>1, <3>2, <3>3 DEF Reports
  <2>4. CASE ~T!Expired /\ task.id # T!None /\ ~(task.sent < Probes)
    <3>1. /\ finished' = finished \cup {[id |-> task.id, got |-> task.got]}
          /\ task' = T!NoTask /\ air' = air /\ report' = report /\ asked' = asked
      BY <1>4, <2>4 DEF T!Tick, T!TaskStep
    <3> QED BY <1>0, <3>1 DEF Reports, Own, T!NoTask
  <2> QED BY <2>1, <2>2, <2>3, <2>4
<1>5. CASE \/ T!Start \/ T!OnReady \/ T!Cancel \/ T!Connect \/ T!Disconnect \/ T!Lost
           \/ T!PeerHandles
  <2>1. /\ air' \subseteq air /\ finished' = finished /\ report' = report /\ asked' = asked
        /\ task' = task \/ task'.got = {}
    BY <1>5 DEF T!Start, T!OnReady, T!Cancel, T!Connect, T!Disconnect, T!Lost,
                T!PeerHandles, T!Finish, T!NoTask
  <2> QED BY <1>0, <2>1 DEF Reports, Own
<1> QED BY <1>1, <1>2, <1>3, <1>4, <1>5 DEF T!Next

\* Ids already given stay so.
LEMMA GivenKept ==
  ASSUME TestInv, T!Next
  PROVE  Given'
<1>0. /\ MaxTests \in Nat /\ next \in Nat /\ test \in Tests
      /\ asks \in Seq(Asks) /\ back \in Seq(0 .. MaxTests) /\ Given
  BY ProgressBounds DEF TestInv, TestTypes
<1>1. ASSUME test' = test \/ test'.id = test.id \/ test' = T!NoTest,
             next' = next,
             asks' = asks \/ asks' = <<>> \/ asks' = Append(asks, [kind |-> "stop", id |-> test.id]),
             back' = back \/ back' = <<>>
      PROVE  Given'
  <2>1. test'.id <= next'
    BY <1>0, <1>1 DEF Given, T!NoTest, T!None
  <2>2. \A k \in 1 .. Len(asks') : asks'[k].id <= next'
    <3>1. CASE asks' = asks \/ asks' = <<>>
      BY <1>0, <1>1, <3>1 DEF Given
    <3>2. CASE asks' = Append(asks, [kind |-> "stop", id |-> test.id])
      <4>1. PICK a : a = [kind |-> "stop", id |-> test.id]
        OBVIOUS
      <4>2. a \in Asks /\ a.id <= next
        BY <1>0, <4>1 DEF Tests, Asks, Given
      <4> QED BY <1>0, <1>1, <3>2, <4>1, <4>2, Joins DEF Given
    <3> QED BY <1>1, <3>1, <3>2
  <2>3. \A k \in 1 .. Len(back') : back'[k] <= next'
    BY <1>0, <1>1 DEF Given
  <2> QED BY <2>1, <2>2, <2>3 DEF Given
<1>2. CASE T!Start
  <2>1. CASE T!Running
    BY <1>1, <1>2, <2>1 DEF T!Start
  <2>2. CASE ~T!Running
    <3>1. PICK a : a = [kind |-> "start", id |-> next + 1]
      OBVIOUS
    <3>2. /\ next' = next + 1 /\ test'.id = next + 1 /\ asks' = Append(asks, a)
          /\ back' = back /\ next < MaxTests
      BY <1>2, <2>2, <3>1 DEF T!Start
    <3>3. a \in Asks /\ a.id = next + 1
      BY <1>0, <3>1, <3>2 DEF Asks
    <3>4. \A k \in 1 .. Len(asks') : asks'[k].id <= next'
      <4>1. ASSUME NEW k \in 1 .. Len(asks')
            PROVE  asks'[k].id <= next'
        <5>1. CASE k \in 1 .. Len(asks)
          <6>1. asks'[k] = asks[k] /\ asks[k].id <= next
            BY <1>0, <3>2, <3>3, <5>1, Joins DEF Given
          <6>2. asks[k] \in Asks
            BY <1>0, <5>1, ElementOfSeq
          <6>3. asks[k].id \in Nat
            BY <1>0, <6>2 DEF Asks
          <6> QED BY <1>0, <3>2, <6>1, <6>3
        <5>2. CASE k \notin 1 .. Len(asks)
          <6>1. k = Len(asks) + 1 /\ asks'[k] = a
            BY <1>0, <3>2, <3>3, <5>2, Joins
          <6> QED BY <1>0, <3>2, <3>3, <6>1
        <5> QED BY <5>1, <5>2
      <4> QED BY <4>1
    <3>5. \A k \in 1 .. Len(back') : back'[k] <= next'
      <4>1. ASSUME NEW k \in 1 .. Len(back)
            PROVE  back[k] <= next + 1
        <5>1. back[k] \in Nat /\ back[k] <= next
          BY <1>0, ElementOfSeq DEF Given
        <5> QED BY <1>0, <5>1
      <4> QED BY <3>2, <4>1
    <3> QED BY <1>0, <3>2, <3>4, <3>5 DEF Given
  <2> QED BY <2>1, <2>2
<1>3. CASE T!OnReady
  <2>1. /\ next' = next /\ asks' = asks /\ back' = Tail(back) /\ back # <<>>
        /\ test' = test \/ test' = [test EXCEPT !.phase = "running"]
    BY <1>3 DEF T!OnReady
  <2>2. test'.id = test.id
    BY <1>0, <2>1 DEF Tests
  <2>3. \A k \in 1 .. Len(back') : back'[k] <= next
    <3>1. PICK b : b = back'
      OBVIOUS
    <3>2. /\ Len(b) = Len(back) - 1 /\ Len(back) \in Nat
          /\ \A k \in 1 .. Len(b) : b[k] = back[k + 1]
      BY <1>0, <2>1, <3>1, HeadTailProperties, LenProperties
    <3>3. ASSUME NEW k \in 1 .. Len(b)
          PROVE  b[k] <= next
      <4>1. k + 1 \in 1 .. Len(back)
        BY <3>2
      <4> QED BY <1>0, <3>2, <4>1 DEF Given
    <3> QED BY <3>1, <3>3
  <2> QED BY <1>0, <2>1, <2>2, <2>3 DEF Given
<1>4. CASE T!PeerHandles
  <2>1. /\ next' = next /\ test' = test /\ asks' = Tail(asks) /\ asks # <<>>
        /\ back' = back \/ back' = Append(back, Head(asks).id)
    BY <1>4 DEF T!PeerHandles
  <2>2. PICK q, i : q = asks' /\ i = Head(asks).id
    OBVIOUS
  <2>3. /\ Len(q) = Len(asks) - 1 /\ Len(asks) \in Nat
        /\ \A k \in 1 .. Len(q) : q[k] = asks[k + 1]
    BY <1>0, <2>1, <2>2, HeadTailProperties, LenProperties
  <2>4. ASSUME NEW k \in 1 .. Len(q)
        PROVE  q[k].id <= next
    <3>1. k + 1 \in 1 .. Len(asks)
      BY <2>3
    <3> QED BY <1>0, <2>3, <3>1 DEF Given
  <2>5. i \in 0 .. MaxTests /\ i <= next
    <3>1. Len(asks) >= 1
      BY <1>0, <2>1, EmptySeq
    <3>2. Head(asks) = asks[1] /\ Head(asks) \in Asks
      BY <1>0, <2>1, <2>3, <3>1, HeadTailOfSubSeq, SubSeqFull, HeadTailProperties
    <3> QED BY <1>0, <2>2, <2>3, <3>1, <3>2 DEF Given, Asks
  <2>6. \A k \in 1 .. Len(back') : back'[k] <= next
    <3>1. /\ Len(Append(back, i)) = Len(back) + 1 /\ Len(back) \in Nat
          /\ \A k \in 1 .. Len(back) : Append(back, i)[k] = back[k]
          /\ Append(back, i)[Len(back) + 1] = i
      BY <1>0, <2>5, AppendProperties, LenProperties
    <3>2. \A k \in 1 .. Len(back) : back[k] <= next
      BY <1>0 DEF Given
    <3>3. CASE back' = Append(back, i)
      <4>1. ASSUME NEW k \in 1 .. Len(back')
            PROVE  back'[k] <= next
        <5>1. k \in 1 .. Len(back) \/ k = Len(back) + 1
          BY <3>1, <3>3
        <5> QED BY <2>5, <3>1, <3>2, <3>3, <5>1
      <4> QED BY <4>1
    <3> QED BY <2>1, <2>2, <3>2, <3>3
  <2> QED BY <1>0, <2>1, <2>2, <2>4, <2>6 DEF Given
<1>5. CASE \/ T!OnFinished \/ T!Cancel \/ T!Connect \/ T!Disconnect \/ T!EchoArrives
           \/ T!ProbeArrives \/ T!Lost \/ T!Tick
  <2>1. \/ test' = test \/ test' = T!NoTest \/ test' = [test EXCEPT !.phase = "finished"]
        \/ \E n : test' = [test EXCEPT !.age = n]
    BY <1>5 DEF T!OnFinished, T!Cancel, T!Connect, T!Disconnect, T!EchoArrives,
                T!ProbeArrives, T!Lost, T!Tick, T!Finish
  <2>2. test' = test \/ test'.id = test.id \/ test' = T!NoTest
    BY <1>0, <2>1 DEF Tests
  <2>3. /\ next' = next
        /\ back' = back \/ back' = <<>>
        /\ \/ asks' = asks \/ asks' = <<>>
           \/ asks' = Append(asks, [kind |-> "stop", id |-> test.id])
    BY <1>5 DEF T!OnFinished, T!Cancel, T!Connect, T!Disconnect, T!EchoArrives,
                T!ProbeArrives, T!Lost, T!Tick, T!Finish
  <2> QED BY <1>1, <2>2, <2>3
<1> QED BY <1>2, <1>3, <1>4, <1>5 DEF T!Next

\* The peer handles the request, or an older one.
LEMMA HandshakePeer ==
  ASSUME TestInv, T!PeerHandles
  PROVE  Handshake'
<1>0. /\ MaxTests \in Nat /\ TestWindow \in Nat /\ test \in Tests
      /\ asks \in Seq(Asks) /\ back \in Seq(0 .. MaxTests) /\ Handshake
  BY ProgressBounds DEF TestInv, TestTypes
<1>1. /\ test' = test /\ task' = task /\ asks # <<>> /\ asks' = Tail(asks)
      /\ IF Head(asks).kind = "start"
         THEN /\ armed' = [id |-> Head(asks).id, left |-> TestWindow]
              /\ back' = Append(back, Head(asks).id)
         ELSE back' = back
  BY DEF T!PeerHandles
<1>2. test.phase # "running" /\ task.id = 0
  BY <1>0, <1>1 DEF Handshake
<1>3. CASE test.phase # "ready"
  BY <1>1, <1>2, <1>3 DEF Handshake
<1>4. CASE test.phase = "ready"
  <2>1. Asking(asks, back, test.id) /\ test.id # 0
    BY <1>0, <1>1, <1>4 DEF Handshake
  <2>2. PICK q : q = asks'
    OBVIOUS
  <2>3. /\ Len(q) = Len(asks) - 1 /\ Len(asks) \in Nat /\ q \in Seq(Asks)
        /\ \A k \in 1 .. Len(q) : q[k] = asks[k + 1]
    BY <1>0, <1>1, <2>2, HeadTailProperties, LenProperties
  <2>4. Len(asks) >= 1 /\ Head(asks) = asks[1]
    BY <1>0, <1>1, <2>3, EmptySeq, HeadTailOfSubSeq, SubSeqFull
  <2>5. CASE Len(asks) = 1
    <3>1. q = <<>>
      BY <2>3, <2>5, EmptySeq
    <3>2. Head(asks).kind = "start" /\ Head(asks).id = test.id
      BY <2>1, <2>4, <2>5 DEF Asking
    <3>3. armed'.id = test.id /\ armed'.left = TestWindow
      BY <1>1, <3>2
    <3>4. armed'.left + test.age >= TestWindow
      BY <1>0, <3>3, ProgressBounds DEF Tests
    <3> QED BY <1>1, <1>2, <1>4, <2>1, <2>2, <3>1, <3>3, <3>4 DEF Handshake
  <2>6. CASE Len(asks) # 1
    <3>1. Len(q) > 0 /\ q[Len(q)] = asks[Len(asks)]
      BY <2>3, <2>4, <2>6
    <3>2. \A k \in 1 .. Len(q) - 1 : q[k].id # test.id
      <4>1. ASSUME NEW k \in 1 .. Len(q) - 1
            PROVE  q[k].id # test.id
        <5>1. k \in 1 .. Len(q) /\ k + 1 \in 1 .. Len(asks) - 1
          BY <2>3, <2>4
        <5> QED BY <2>1, <2>3, <5>1 DEF Asking
      <4> QED BY <4>1
    <3>3. Head(asks).id # test.id
      <4>1. 1 \in 1 .. Len(asks) - 1
        BY <2>3, <2>4, <2>6
      <4> QED BY <2>1, <2>4, <4>1 DEF Asking
    <3>4. \A k \in 1 .. Len(back') : back'[k] # test.id
      <4>1. PICK i : i = Head(asks).id
        OBVIOUS
      <4>2. i \in 0 .. MaxTests
        <5>1. Head(asks) \in Asks
          BY <1>0, <1>1, HeadTailProperties
        <5> QED BY <4>1, <5>1 DEF Asks
      <4>3. /\ Len(Append(back, i)) = Len(back) + 1 /\ Len(back) \in Nat
            /\ \A k \in 1 .. Len(back) : Append(back, i)[k] = back[k]
            /\ Append(back, i)[Len(back) + 1] = i
        BY <1>0, <4>2, AppendProperties, LenProperties
      <4>4. \A k \in 1 .. Len(back) : back[k] # test.id
        BY <2>1 DEF Asking
      <4>5. CASE back' = Append(back, i)
        <5>1. ASSUME NEW k \in 1 .. Len(back')
              PROVE  back'[k] # test.id
          <6>1. k \in 1 .. Len(back) \/ k = Len(back) + 1
            BY <4>3, <4>5
          <6> QED BY <3>3, <4>1, <4>3, <4>4, <4>5, <6>1
        <5> QED BY <5>1
      <4> QED BY <1>1, <4>1, <4>4, <4>5
    <3>5. Asking(q, back', test.id)
      BY <2>1, <3>1, <3>2, <3>4 DEF Asking
    <3> QED BY <1>1, <1>2, <1>4, <2>1, <2>2, <3>5 DEF Handshake
  <2> QED BY <2>5, <2>6
<1> QED BY <1>3, <1>4

\* The answer starts the probes only when the peer is armed.
LEMMA HandshakeReady ==
  ASSUME TestInv, T!OnReady
  PROVE  Handshake'
<1>0. /\ Ready \in Nat /\ TestWindow \in Nat /\ test \in Tests /\ armed \in Arms
      /\ back \in Seq(0 .. MaxTests) /\ Handshake
  BY ProgressBounds DEF TestInv, TestTypes
<1>1. /\ back # <<>> /\ back' = Tail(back) /\ asks' = asks /\ armed' = armed
  BY DEF T!OnReady
<1>2. PICK b : b = back'
  OBVIOUS
<1>3. /\ Len(b) = Len(back) - 1 /\ Len(back) \in Nat
      /\ \A k \in 1 .. Len(b) : b[k] = back[k + 1]
  BY <1>0, <1>1, <1>2, HeadTailProperties, LenProperties
<1>4. Len(back) >= 1 /\ Head(back) = back[1]
  BY <1>0, <1>1, <1>3, EmptySeq, HeadTailOfSubSeq, SubSeqFull
<1>5. CASE test.id = Head(back) /\ test.phase = "ready"
  <2>1. ~Asking(asks, back, test.id)
    <3>1. 1 \in 1 .. Len(back)
      BY <1>3, <1>4
    <3> QED BY <1>4, <1>5, <3>1 DEF Asking
  <2>2. /\ test.id # 0 /\ asks = <<>> /\ armed.id = test.id
        /\ armed.left + test.age >= TestWindow
    BY <1>0, <1>5, <2>1 DEF Handshake
  <2>3. /\ test' = [test EXCEPT !.phase = "running"]
        /\ task' = [id |-> test.id, sent |-> 0, got |-> {}]
    BY <1>5 DEF T!OnReady
  <2>4. /\ test'.phase = "running" /\ test'.id = test.id
        /\ task'.id = test.id /\ task'.sent = 0
    BY <1>0, <2>3 DEF Tests
  <2>5. armed.left + Ready + 0 >= TestWindow
    <3>1. test.age \in 0 .. Ready /\ armed.left \in 0 .. TestWindow
      BY <1>0 DEF Tests, Arms
    <3> QED BY <1>0, <2>2, <3>1
  <2> QED BY <1>1, <2>2, <2>4, <2>5 DEF Handshake
<1>6. CASE ~(test.id = Head(back) /\ test.phase = "ready")
  <2>1. test' = test /\ task' = task
    BY <1>6 DEF T!OnReady
  <2>2. Asking(asks, back, test.id) => Asking(asks, b, test.id)
    <3>1. \A k \in 1 .. Len(b) : k + 1 \in 1 .. Len(back)
      BY <1>3
    <3> QED BY <1>3, <3>1 DEF Asking
  <2> QED BY <1>0, <1>1, <1>2, <2>1, <2>2 DEF Handshake
<1> QED BY <1>5, <1>6

\* Every step keeps the order of request, answer and probes.
LEMMA HandshakeKept ==
  ASSUME TestInv, T!Next
  PROVE  Handshake'
<1>0. /\ MaxTests \in Nat /\ Ready \in Nat /\ Probes \in Nat /\ TestWindow \in Nat
      /\ Handshake
  BY ProgressBounds DEF TestInv
<1>a. armed \in Arms /\ task \in Tasks /\ test \in Tests
  BY DEF TestInv, TestTypes
<1>1. ASSUME test'.phase = "finished", task'.id = 0
      PROVE  Handshake'
  BY <1>1 DEF Handshake
<1>2. ASSUME test' = test, task'.id = task.id, task'.sent = task.sent, armed' = armed,
             asks' = asks, back' = back
      PROVE  Handshake'
  BY <1>0, <1>2 DEF Handshake
<1>3. ASSUME test' = [test EXCEPT !.phase = "finished"] \/ test' = T!NoTest,
             task' = T!NoTask
      PROVE  Handshake'
  <2>1. test'.phase = "finished" /\ task'.id = 0
    BY <1>a, <1>3 DEF Tests, T!NoTest, T!NoTask, T!None
  <2> QED BY <1>1, <2>1
<1>4. CASE T!Start
  <2>1. CASE T!Running
    BY <1>2, <1>4, <2>1 DEF T!Start
  <2>2. CASE ~T!Running
    <3>1. PICK a : a = [kind |-> "start", id |-> next + 1]
      OBVIOUS
    <3>2. /\ test' = [id |-> next + 1, phase |-> "ready", age |-> 0]
          /\ asks' = Append(asks, a) /\ back' = back /\ task' = task /\ next < MaxTests
      BY <1>4, <2>2, <3>1 DEF T!Start
    <3>3. task.id = 0
      BY <1>0, <2>2 DEF Handshake, T!Running
    <3>4. /\ asks \in Seq(Asks) /\ next \in 0 .. MaxTests /\ Given
      BY DEF TestInv, TestTypes
    <3>5. a \in Asks /\ a.kind = "start" /\ a.id = next + 1
      BY <1>0, <3>1, <3>2, <3>4 DEF Asks
    <3>6. PICK q : q = asks'
      OBVIOUS
    <3>7. /\ Len(q) = Len(asks) + 1 /\ Len(asks) \in Nat /\ q[Len(asks) + 1] = a
          /\ \A k \in 1 .. Len(asks) : q[k] = asks[k]
      BY <3>2, <3>4, <3>5, <3>6, Joins
    <3>8. Asking(q, back, next + 1)
      <4>1. Len(q) > 0 /\ q[Len(q)] = a
        BY <3>7
      <4>2. ASSUME NEW k \in 1 .. Len(q) - 1
            PROVE  q[k].id # next + 1
        <5>1. k \in 1 .. Len(asks) /\ q[k] = asks[k]
          BY <3>7
        <5>2. asks[k].id <= next
          BY <3>4, <5>1 DEF Given
        <5> QED BY <1>0, <3>4, <5>1, <5>2
      <4>3. ASSUME NEW k \in 1 .. Len(back)
            PROVE  back[k] # next + 1
        <5>1. back[k] <= next
          BY <3>4 DEF Given
        <5> QED BY <1>0, <3>4, <5>1
      <4> QED BY <3>5, <4>1, <4>2, <4>3 DEF Asking
    <3>9. next + 1 # 0
      BY <3>4
    <3> QED BY <3>2, <3>3, <3>6, <3>8, <3>9 DEF Handshake
  <2> QED BY <2>1, <2>2
<1>5. CASE T!OnFinished
  BY <1>2, <1>3, <1>5 DEF T!OnFinished, T!Finish
<1>6. CASE T!Cancel \/ T!Disconnect
  BY <1>3, <1>6 DEF T!Cancel, T!Disconnect, T!Finish
<1>7. CASE T!EchoArrives \/ T!ProbeArrives \/ T!Lost
  <2>1. task' = task \/ \E g : task' = [task EXCEPT !.got = g]
    BY <1>7 DEF T!EchoArrives, T!ProbeArrives, T!Lost
  <2>2. task'.id = task.id /\ task'.sent = task.sent
    BY <1>a, <2>1 DEF Tasks
  <2>3. test' = test /\ armed' = armed /\ asks' = asks /\ back' = back
    BY <1>7 DEF T!EchoArrives, T!ProbeArrives, T!Lost
  <2> QED BY <1>2, <2>2, <2>3
<1>8. CASE T!Connect
  BY <1>2, <1>8 DEF T!Connect
<1>9. CASE T!Tick
  <2>1. CASE T!Expired
    BY <1>3, <1>9, <2>1 DEF T!Tick, T!Finish
  <2>2. CASE ~T!Expired
    <3>1. armed'.id = armed.id /\ armed'.left >= armed.left - 1 /\ armed'.left \in Nat
          /\ armed.left \in Nat
      BY <1>0, <1>a, <1>9 DEF T!Tick, Arms
    <3>2. asks' = asks /\ back' = back
      BY <1>9, <2>2 DEF T!Tick
    <3>3. PICK n : /\ n = IF test.phase = "ready" /\ test.age < Ready THEN test.age + 1
                          ELSE test.age
                   /\ test' = [test EXCEPT !.age = n]
      BY <1>9, <2>2 DEF T!Tick
    <3>4. /\ test'.id = test.id /\ test'.phase = test.phase /\ test'.age = n
      BY <1>a, <3>3 DEF Tests
    <3>5. test.age \in Nat
      BY <1>a, <1>0 DEF Tests
    <3>6. test.phase = "ready" => test'.age = test.age + 1
      BY <2>2, <3>3, <3>4, <3>5, <1>0 DEF T!Expired
    <3>7. \/ task'.id = 0
          \/ task' = task /\ task.id = 0
          \/ task'.id = task.id /\ task'.sent = task.sent + 1
      <4>1. \/ task' = T!NoTask
            \/ task' = task /\ task.id = 0
            \/ task' = [task EXCEPT !.sent = @ + 1]
        BY <1>9, <2>2 DEF T!Tick, T!TaskStep, T!None
      <4> QED BY <1>a, <4>1 DEF Tasks, T!NoTask, T!None
    <3>8. test.phase = "ready" => /\ test.id # 0
                                  /\ \/ Asking(asks, back, test.id)
                                     \/ /\ asks = <<>> /\ armed'.id = test.id
                                        /\ armed'.left + test'.age >= TestWindow
      BY <1>0, <3>1, <3>5, <3>6 DEF Handshake
    <3>9. task'.id # 0 =>
            /\ test.phase = "running" /\ task'.id = test.id /\ armed'.id = test.id
            /\ armed'.left + Ready + task'.sent >= TestWindow
      <4>1. ASSUME task'.id # 0
            PROVE  task'.id = task.id /\ task'.sent = task.sent + 1 /\ task.sent \in Nat
        BY <1>0, <1>a, <3>7, <4>1 DEF Tasks
      <4> QED BY <1>0, <3>1, <4>1 DEF Handshake
    <3> QED BY <1>0, <3>2, <3>4, <3>8, <3>9 DEF Handshake
  <2> QED BY <2>1, <2>2
<1> QED
  BY <1>4, <1>5, <1>6, <1>7, <1>8, <1>9, HandshakePeer, HandshakeReady DEF T!Next

\* The invariant is inductive.
LEMMA TestStep ==
  ASSUME TestInv, T!Next
  PROVE  TestInv'
BY TypesKept, ReportsKept, GivenKept, HandshakeKept DEF TestInv

----------------------------------------------------------------------------
(* The invariant of the engine and its snapshots.                          *)

Commands == [kind : {"request", "tell", "shutdown"}, client : Clients]
Asked(c) == [kind |-> "request", client |-> c]

EngineTypes ==
  /\ phase \in {"starting", "run", "stopped", "failed"}
  /\ call \in [Clients -> {"idle", "waiting", "done", "error"}]
  /\ queue \in Seq(Commands)
  /\ timer \in BOOLEAN /\ tick \in 0 .. Period
  /\ state \in 0 .. MaxChanges /\ published \in 0 .. state /\ heard \in 0 .. published

\* A change that is not published has the timer running.
Timed ==
  /\ since \in 0 .. Interval /\ late \in Nat
  /\ state # published => timer /\ late <= since
  /\ state = published => late = 0

\* A waiting caller's request is in the queue once, nobody else's is.
Queued ==
  \A c \in Clients :
    /\ call[c] = "waiting" =>
         /\ phase = "run"
         /\ \E i \in 1 .. Len(queue) :
              queue[i] = Asked(c) /\ \A j \in 1 .. Len(queue) : queue[j] = Asked(c) => j = i
    /\ call[c] # "waiting" => \A i \in 1 .. Len(queue) : queue[i] # Asked(c)

EngineInv == EngineTypes /\ Timed /\ Queued

\* The invariant holds at first.
LEMMA EngineInit == S!Init => EngineInv
<1> SUFFICES ASSUME S!Init PROVE EngineInv
  OBVIOUS
<1>1. <<>> \in Seq(Commands) /\ Len(<<>>) = 0
  BY EmptySeq
<1>2. EngineTypes
  <2>1. call \in [Clients -> {"idle", "waiting", "done", "error"}]
    BY DEF S!Init
  <2>2. Period \in Nat /\ tick = Period /\ timer = FALSE
    BY ProgressBounds DEF S!Init
  <2>3. state \in 0 .. MaxChanges /\ published \in 0 .. state /\ heard \in 0 .. published
    BY ProgressBounds DEF S!Init
  <2>4. phase = "starting" /\ queue = <<>>
    BY DEF S!Init
  <2>5. tick \in 0 .. Period
    BY <2>2
  <2>7. timer \in BOOLEAN
    BY <2>2
  <2>6. queue \in Seq(Commands)
    BY <1>1, <2>4
  <2> QED BY <2>1, <2>3, <2>4, <2>5, <2>6, <2>7 DEF EngineTypes
<1>3. Timed
  BY ProgressBounds DEF S!Init, Timed
<1>4. Queued
  BY <1>1 DEF S!Init, Queued
<1> QED BY <1>2, <1>3, <1>4 DEF EngineInv

\* A change waits with the timer running (publish_throttled).
LEMMA TimedKept ==
  ASSUME EngineInv, S!Next
  PROVE  /\ Timed'
         /\ state' \in 0 .. MaxChanges /\ published' \in 0 .. state'
         /\ heard' \in 0 .. published'
<1>0. /\ Interval \in Nat /\ MaxChanges \in Nat
      /\ state \in 0 .. MaxChanges /\ published \in 0 .. state /\ heard \in 0 .. published
      /\ timer \in BOOLEAN /\ Timed
  BY ProgressBounds DEF EngineInv, EngineTypes
<1>1. ASSUME S!Throttle(state'), state' \in S!Changes, heard' = heard
      PROVE  /\ Timed'
             /\ state' \in 0 .. MaxChanges /\ published' \in 0 .. state'
             /\ heard' \in 0 .. published'
  <2>1. state' \in 0 .. MaxChanges /\ state' >= state
    BY <1>0, <1>1 DEF S!Changes
  <2>2. CASE since >= Interval
    BY <1>0, <1>1, <2>1, <2>2 DEF S!Throttle, S!Publish, Timed
  <2>3. CASE ~(since >= Interval)
    <3>1. timer' = TRUE /\ published' = published /\ since' = since /\ late' = late
      BY <1>1, <2>3 DEF S!Throttle
    <3>2. late <= since /\ (state' = published => state = published)
      BY <1>0, <2>1 DEF Timed
    <3> QED BY <1>0, <1>1, <2>1, <3>1, <3>2 DEF Timed
  <2> QED BY <2>2, <2>3
<1>2. CASE S!Handle \/ S!Tick \/ S!Event \/ S!Timer
  <2>1. S!Throttle(state') /\ heard' = heard
    BY <1>2 DEF S!Handle, S!Tick, S!Event, S!Timer
  <2>2. state' \in S!Changes
    BY <1>2 DEF S!Handle, S!Tick, S!Event, S!Timer, S!Changes
  <2> QED BY <1>1, <2>1, <2>2
<1>3. CASE S!Time
  BY <1>0, <1>3 DEF S!Time, Timed
<1>4. CASE S!Listen
  BY <1>0, <1>4 DEF S!Listen, Timed
<1>5. ASSUME NEW c \in Clients,
             S!StartEngine \/ S!Stop \/ S!Request(c) \/ S!Tell(c) \/ S!Shutdown(c)
      PROVE  /\ state' = state /\ published' = published /\ since' = since
             /\ timer' = timer /\ late' = late /\ heard' = heard
  BY <1>5 DEF S!StartEngine, S!Stop, S!Request, S!Tell, S!Shutdown
<1>6. CASE S!StartEngine \/ S!Stop
  BY <1>0, <1>6 DEF S!StartEngine, S!Stop, Timed
<1> QED BY <1>0, <1>2, <1>3, <1>4, <1>5, <1>6 DEF S!Next, Timed

\* The actor's own variables.
LEMMA ActorTyped ==
  ASSUME EngineInv, S!Next
  PROVE  /\ phase' \in {"starting", "run", "stopped", "failed"}
         /\ timer' \in BOOLEAN /\ tick' \in 0 .. Period
<1>0. /\ Period \in Nat /\ phase \in {"starting", "run", "stopped", "failed"}
      /\ timer \in BOOLEAN /\ tick \in 0 .. Period
  BY ProgressBounds DEF EngineInv, EngineTypes
<1>1. phase' \in {"starting", "run", "stopped", "failed"}
  BY <1>0 DEF S!Next, S!StartEngine, S!Handle, S!Event, S!Tick, S!Timer, S!Stop, S!Listen,
              S!Time, S!Request, S!Tell, S!Shutdown
<1>2. timer' \in BOOLEAN
  BY <1>0 DEF S!Next, S!StartEngine, S!Handle, S!Event, S!Tick, S!Timer, S!Stop, S!Listen,
              S!Time, S!Request, S!Tell, S!Shutdown, S!Throttle, S!Publish
<1>3. tick' \in 0 .. Period
  <2>1. tick' = tick \/ tick' = Period \/ (tick > 0 /\ tick' = tick - 1)
    BY DEF S!Next, S!StartEngine, S!Handle, S!Event, S!Tick, S!Timer, S!Stop, S!Listen,
           S!Time, S!Request, S!Tell, S!Shutdown
  <2> QED BY <1>0, <2>1
<1> QED BY <1>1, <1>2, <1>3

\* Each request stays in the queue until it is answered.
LEMMA QueuedKept ==
  ASSUME EngineInv, S!Next
  PROVE  /\ Queued' /\ queue' \in Seq(Commands)
         /\ call' \in [Clients -> {"idle", "waiting", "done", "error"}]
<1>0. /\ call \in [Clients -> {"idle", "waiting", "done", "error"}]
      /\ queue \in Seq(Commands) /\ Queued
  BY DEF EngineInv, EngineTypes
<1>1. ASSUME NEW x \in Commands, queue' = Append(queue, x), x.kind # "request",
             call' = call, phase' = phase
      PROVE  Queued' /\ queue' \in Seq(Commands)
  <2>1. PICK q : q = queue'
    OBVIOUS
  <2>2. /\ q \in Seq(Commands) /\ Len(q) = Len(queue) + 1 /\ Len(queue) \in Nat
        /\ \A i \in 1 .. Len(queue) : q[i] = queue[i]
        /\ q[Len(queue) + 1] = x
    BY <1>0, <1>1, <2>1, AppendProperties, LenProperties
  <2>3. \A c \in Clients : x # Asked(c)
    BY <1>1 DEF Asked
  <2>4. ASSUME NEW c \in Clients, NEW j \in 1 .. Len(q), q[j] = Asked(c)
        PROVE  j \in 1 .. Len(queue) /\ queue[j] = Asked(c)
    <3>1. j \in 1 .. Len(queue) \/ j = Len(queue) + 1
      BY <2>2
    <3> QED BY <2>2, <2>3, <2>4, <3>1
  <2>5. \A i \in 1 .. Len(queue) : i \in 1 .. Len(q)
    BY <2>2
  <2>6. ASSUME NEW c \in Clients, call[c] = "waiting"
        PROVE  /\ phase = "run"
               /\ \E i \in 1 .. Len(q) :
                    q[i] = Asked(c) /\ \A j \in 1 .. Len(q) : q[j] = Asked(c) => j = i
    <3>1. PICK i \in 1 .. Len(queue) :
            queue[i] = Asked(c) /\ \A j \in 1 .. Len(queue) : queue[j] = Asked(c) => j = i
      BY <1>0, <2>6 DEF Queued
    <3>2. q[i] = Asked(c) /\ i \in 1 .. Len(q)
      BY <2>2, <2>5, <3>1
    <3> QED BY <1>0, <2>4, <2>6, <3>1, <3>2 DEF Queued
  <2>7. ASSUME NEW c \in Clients, call[c] # "waiting"
        PROVE  \A i \in 1 .. Len(q) : q[i] # Asked(c)
    BY <1>0, <2>4, <2>7 DEF Queued
  <2> QED BY <1>1, <2>1, <2>2, <2>6, <2>7 DEF Queued
<1>2. ASSUME NEW c \in Clients, S!Request(c)
      PROVE  Queued' /\ queue' \in Seq(Commands)
             /\ call' \in [Clients -> {"idle", "waiting", "done", "error"}]
  <2>0. call[c] # "waiting" /\ phase' = phase
    BY <1>2 DEF S!Request, S!Free
  <2>1. CASE phase # "run"
    <3>1. queue' = queue /\ call' = [call EXCEPT ![c] = "error"]
      BY <1>2, <2>1 DEF S!Request
    <3>2. \A d \in Clients : call'[d] = IF d = c THEN "error" ELSE call[d]
      BY <1>0, <3>1
    <3> QED BY <1>0, <2>0, <3>1, <3>2 DEF Queued
  <2>2. CASE phase = "run"
    <3>1. queue' = Append(queue, Asked(c)) /\ call' = [call EXCEPT ![c] = "waiting"]
      BY <1>2, <2>2 DEF S!Request, Asked
    <3>2. PICK q, x : q = queue' /\ x = Asked(c)
      OBVIOUS
    <3>3. x \in Commands
      BY <3>2 DEF Commands, Asked
    <3>4. /\ q \in Seq(Commands) /\ Len(q) = Len(queue) + 1 /\ Len(queue) \in Nat
          /\ \A i \in 1 .. Len(queue) : q[i] = queue[i]
          /\ q[Len(queue) + 1] = x
      BY <1>0, <3>1, <3>2, <3>3, AppendProperties, LenProperties
    <3>5. \A d \in Clients : d # c => x # Asked(d)
      BY <3>2 DEF Asked
    <3>6. \A d \in Clients : call'[d] = IF d = c THEN "waiting" ELSE call[d]
      BY <1>0, <3>1
    <3>7. \A j \in 1 .. Len(q) : j \in 1 .. Len(queue) \/ j = Len(queue) + 1
      BY <3>4
    <3>8. Len(queue) + 1 \in 1 .. Len(q) /\ \A i \in 1 .. Len(queue) : i \in 1 .. Len(q)
      BY <3>4
    <3>9. \A j \in 1 .. Len(q) : q[j] = x => j = Len(queue) + 1
      BY <1>0, <2>0, <3>2, <3>4, <3>7 DEF Queued
    <3>10. ASSUME NEW d \in Clients, d # c, call[d] = "waiting"
           PROVE  \E i \in 1 .. Len(q) :
                    q[i] = Asked(d) /\ \A j \in 1 .. Len(q) : q[j] = Asked(d) => j = i
      <4>1. PICK i \in 1 .. Len(queue) :
              queue[i] = Asked(d) /\ \A j \in 1 .. Len(queue) : queue[j] = Asked(d) => j = i
        BY <1>0, <3>10 DEF Queued
      <4>2. q[i] = Asked(d) /\ i \in 1 .. Len(q)
        BY <3>4, <3>8, <4>1
      <4>3. \A j \in 1 .. Len(q) : q[j] = Asked(d) => j = i
        BY <3>4, <3>5, <3>7, <3>10, <4>1
      <4> QED BY <4>2, <4>3
    <3>11. ASSUME NEW d \in Clients, d # c, call[d] # "waiting"
           PROVE  \A i \in 1 .. Len(q) : q[i] # Asked(d)
      BY <1>0, <3>4, <3>5, <3>7, <3>11 DEF Queued
    <3>12. Queued'
      BY <2>0, <2>2, <3>2, <3>4, <3>6, <3>8, <3>9, <3>10, <3>11 DEF Queued
    <3> QED BY <1>0, <3>1, <3>2, <3>4, <3>12
  <2> QED BY <2>1, <2>2
<1>3. ASSUME NEW c \in Clients, S!Tell(c) \/ S!Shutdown(c)
      PROVE  /\ Queued' /\ queue' \in Seq(Commands)
             /\ call' \in [Clients -> {"idle", "waiting", "done", "error"}]
  <2>1. PICK x : /\ x = [kind |-> "tell", client |-> c] \/ x = [kind |-> "shutdown", client |-> c]
                 /\ queue' = Append(queue, x)
    BY <1>3 DEF S!Tell, S!Shutdown
  <2>2. x \in Commands /\ x.kind # "request"
    BY <2>1 DEF Commands
  <2>3. call' = call /\ phase' = phase
    BY <1>3 DEF S!Tell, S!Shutdown
  <2> QED BY <1>0, <1>1, <2>1, <2>2, <2>3
<1>4. CASE S!Handle
  <2>1. PICK h, q : h = Head(queue) /\ q = queue'
    OBVIOUS
  <2>2. /\ queue # <<>> /\ q = Tail(queue) /\ phase' = phase /\ h.kind # "shutdown"
        /\ call' = IF h.kind = "request" THEN [call EXCEPT ![h.client] = "done"] ELSE call
    BY <1>4, <2>1 DEF S!Handle
  <2>3. /\ q \in Seq(Commands) /\ Len(q) = Len(queue) - 1 /\ Len(queue) \in Nat
        /\ \A i \in 1 .. Len(q) : q[i] = queue[i + 1]
        /\ h \in Commands
    BY <1>0, <2>1, <2>2, HeadTailProperties, LenProperties
  <2>4. Len(queue) >= 1 /\ h = queue[1]
    BY <1>0, <2>1, <2>2, <2>3, EmptySeq, HeadTailOfSubSeq, SubSeqFull
  <2>5. \A i \in 1 .. Len(q) : i + 1 \in 1 .. Len(queue) /\ i + 1 # 1
    BY <2>3
  <2>6. \A i \in 1 .. Len(queue) : i = 1 \/ (i - 1 \in 1 .. Len(q) /\ (i - 1) + 1 = i)
    BY <2>3
  <2>7. call' \in [Clients -> {"idle", "waiting", "done", "error"}]
    BY <1>0, <2>2, <2>3 DEF Commands
  <2>8. ASSUME NEW d \in Clients
        PROVE  /\ call'[d] = "waiting" => call[d] = "waiting" /\ h # Asked(d)
               /\ call'[d] # "waiting" => call[d] # "waiting" \/ h = Asked(d)
    <3>1. CASE h.kind = "request"
      <4>1. h = Asked(h.client) /\ h.client \in Clients
        BY <2>3, <3>1 DEF Commands, Asked
      <4>2. call'[d] = IF d = h.client THEN "done" ELSE call[d]
        BY <1>0, <2>2, <3>1, <4>1
      <4>3. h = Asked(d) <=> d = h.client
        BY <4>1 DEF Asked
      <4> QED BY <4>2, <4>3
    <3>2. CASE h.kind # "request"
      BY <2>2, <3>2 DEF Asked
    <3> QED BY <3>1, <3>2
  <2>9. ASSUME NEW d \in Clients, call'[d] = "waiting"
        PROVE  /\ phase' = "run"
               /\ \E i \in 1 .. Len(q) :
                    q[i] = Asked(d) /\ \A j \in 1 .. Len(q) : q[j] = Asked(d) => j = i
    <3>1. PICK i \in 1 .. Len(queue) :
            queue[i] = Asked(d) /\ \A j \in 1 .. Len(queue) : queue[j] = Asked(d) => j = i
      BY <1>0, <2>8, <2>9 DEF Queued
    <3>2. i # 1
      BY <2>4, <2>8, <2>9, <3>1
    <3>3. i - 1 \in 1 .. Len(q) /\ q[i - 1] = Asked(d)
      BY <2>3, <2>6, <3>1, <3>2
    <3>4. \A j \in 1 .. Len(q) : q[j] = Asked(d) => j = i - 1
      <4>1. ASSUME NEW j \in 1 .. Len(q), q[j] = Asked(d)
            PROVE  j = i - 1
        <5>1. j + 1 = i
          BY <2>3, <2>5, <3>1, <4>1
        <5> QED BY <2>3, <5>1
      <4> QED BY <4>1
    <3>5. phase = "run"
      BY <1>4 DEF S!Handle
    <3> QED BY <2>2, <3>3, <3>4, <3>5
  <2>10. ASSUME NEW d \in Clients, call'[d] # "waiting"
         PROVE  \A i \in 1 .. Len(q) : q[i] # Asked(d)
    <3>1. CASE call[d] # "waiting"
      BY <1>0, <2>3, <2>5, <3>1 DEF Queued
    <3>2. CASE call[d] = "waiting" /\ h = Asked(d)
      <4>1. PICK i \in 1 .. Len(queue) :
              \A j \in 1 .. Len(queue) : queue[j] = Asked(d) => j = i
        BY <1>0, <3>2 DEF Queued
      <4>2. i = 1
        <5>1. 1 \in 1 .. Len(queue) /\ queue[1] = Asked(d)
          BY <2>3, <2>4, <3>2
        <5> QED BY <4>1, <5>1
      <4> QED BY <2>3, <2>5, <4>1, <4>2
    <3> QED BY <2>8, <2>10, <3>1, <3>2
  <2> QED BY <2>1, <2>3, <2>7, <2>9, <2>10 DEF Queued
<1>5. CASE S!Stop
  <2>1. /\ phase' = "stopped" /\ queue' = <<>>
        /\ call' = [c \in Clients |-> IF call[c] = "waiting" THEN "error" ELSE call[c]]
    BY <1>5 DEF S!Stop, S!RepliesDropped
  <2>2. call' \in [Clients -> {"idle", "waiting", "done", "error"}]
        /\ \A c \in Clients : call'[c] # "waiting"
    BY <1>0, <2>1
  <2>3. Len(queue') = 0 /\ queue' \in Seq(Commands)
    BY <2>1, EmptySeq
  <2> QED BY <2>2, <2>3 DEF Queued
<1>6. CASE S!StartEngine \/ S!Event \/ S!Tick \/ S!Timer \/ S!Listen \/ S!Time
  <2>1. /\ call' = call /\ queue' = queue
        /\ phase' = phase \/ phase # "run"
    BY <1>6 DEF S!StartEngine, S!Event, S!Tick, S!Timer, S!Listen, S!Time
  <2> QED BY <1>0, <2>1 DEF Queued
<1> QED BY <1>2, <1>3, <1>4, <1>5, <1>6 DEF S!Next

\* The invariant is inductive.
LEMMA EngineStep ==
  ASSUME EngineInv, S!Next
  PROVE  EngineInv'
BY TimedKept, ActorTyped, QueuedKept DEF EngineInv, EngineTypes

----------------------------------------------------------------------------
(* The theorems.                                                           *)

\* The steps of the test and of the engine.
LEMMA OtherSteps ==
  [ProgressNext]_all =>
    (T!Next \/ UNCHANGED testVars) /\ (S!Next \/ UNCHANGED engineVars)
BY DEF ProgressNext, all, linkSame, testSame, engineSame

ProgressInv == LinkInv /\ TestInv /\ EngineInv

\* The invariants of all parts hold.
LEMMA ProgressAlways == ProgressSpec => []ProgressInv
<1>1. ProgressInit => ProgressInv
  BY LinkInit, TestInit, EngineInit DEF ProgressInit, ProgressInv
<1>2. ASSUME ProgressInv, [ProgressNext]_all
      PROVE  ProgressInv'
  <2>1. LinkInv'
    <3>1. CASE L!Next
      BY <1>2, <3>1, LinkStep DEF ProgressInv
    <3>2. CASE UNCHANGED linkVars
      BY <1>2, <3>2 DEF ProgressInv, LinkInv, LinkTypes, LinkLimits, Numbered, MediaFrom,
                        L!MediaCounted, linkVars
    <3> QED BY <1>2, <3>1, <3>2, LinkSteps
  <2>2. TestInv'
    <3>1. CASE T!Next
      BY <1>2, <3>1, TestStep DEF ProgressInv
    <3>2. CASE UNCHANGED testVars
      BY <1>2, <3>2 DEF ProgressInv, TestInv, TestTypes, Reports, Own, Given, Handshake,
                        Asking, T!Running, testVars
    <3> QED BY <1>2, <3>1, <3>2, OtherSteps
  <2>3. EngineInv'
    <3>1. CASE S!Next
      BY <1>2, <3>1, EngineStep DEF ProgressInv
    <3>2. CASE UNCHANGED engineVars
      BY <1>2, <3>2 DEF ProgressInv, EngineInv, EngineTypes, Timed, Queued, engineVars
    <3> QED BY <1>2, <3>1, <3>2, OtherSteps
  <2> QED BY <2>1, <2>2, <2>3 DEF ProgressInv
<1> QED BY <1>1, <1>2, PTL DEF ProgressSpec

\* What is handed over is accounted for (write_loop, rtt_of, tick_network_tests,
\* publish_throttled, request): media, the echoes of a network test and the window
\* in which the peer sends them, the engine's snapshots and its callers.
THEOREM HandedOver == ProgressSpec => []Delivered
<1>1. ProgressInv => Delivered
  <2> SUFFICES ASSUME ProgressInv PROVE Delivered
    OBVIOUS
  <2>1. L!MediaCounted
    BY DEF ProgressInv, LinkInv, MediaFrom
  <2>2. T!OwnReport
    BY DEF ProgressInv, TestInv, Reports, Own, T!OwnReport
  <2>3. T!WindowCovers
    <3>1. /\ task \in Tasks /\ armed \in Arms /\ Handshake
      BY DEF ProgressInv, TestInv, TestTypes
    <3>2. /\ {Ready, Probes, TestWindow} \subseteq Nat
          /\ task.sent \in Nat /\ armed.left \in Nat
      BY <3>1, ProgressBounds DEF Tasks, Arms
    <3>3. ASSUME task.id # 0, task.sent < Probes
          PROVE  armed.id = task.id /\ armed.left > 0
      <4>1. armed.id = task.id /\ armed.left + Ready + task.sent >= TestWindow
        BY <3>1, <3>3 DEF Handshake
      <4> QED BY <3>2, <3>3, <4>1, WindowLongEnough
    <3> QED BY <3>3 DEF T!WindowCovers, T!None
  <2>4. S!Lag
    BY ProgressBounds DEF ProgressInv, EngineInv, Timed, S!Lag
  <2>5. S!Replied
    <3>1. queue \in Seq(Commands) /\ Queued /\ DOMAIN queue = 1 .. Len(queue)
      BY LenProperties DEF ProgressInv, EngineInv, EngineTypes
    <3>2. ASSUME NEW c \in Clients, call[c] = "waiting"
          PROVE  /\ phase = "run"
                 /\ \E i \in DOMAIN queue :
                      /\ queue[i] = [kind |-> "request", client |-> c]
                      /\ \A j \in DOMAIN queue : queue[j] = queue[i] => j = i
      <4>1. PICK i \in 1 .. Len(queue) :
              queue[i] = Asked(c) /\ \A j \in 1 .. Len(queue) : queue[j] = Asked(c) => j = i
        BY <3>1, <3>2 DEF Queued
      <4> QED BY <3>1, <3>2, <4>1 DEF Queued, Asked
    <3> QED BY <3>2 DEF S!Replied
  <2> QED BY <2>1, <2>2, <2>3, <2>4, <2>5 DEF Delivered
<1> QED BY <1>1, ProgressAlways, PTL

\* The types of all variables, and the limits of the queues.
THEOREM ProgressTyped == ProgressSpec => []TypesOK
<1>1. ProgressInv => TypesOK
  <2> SUFFICES ASSUME ProgressInv PROVE TypesOK
    OBVIOUS
  <2>1. L!TypeOK
    <3>1. LinkTypes /\ LinkLimits /\ MediaFrom
      BY DEF ProgressInv, LinkInv
    <3>2. ASSUME NEW e \in L!Ends
          PROVE  \A i \in DOMAIN wire[e] : wire[e][i].kind \in L!FrameKinds
      <4>1. wire[e] \in Seq(Frames)
        BY <3>1 DEF LinkTypes
      <4>2. DOMAIN wire[e] = 1 .. Len(wire[e])
        BY <4>1, LenProperties
      <4>3. \A i \in 1 .. Len(wire[e]) : wire[e][i] \in Frames
        BY <4>1, ElementOfSeq
      <4> QED BY <4>2, <4>3 DEF Frames
    <3>3. Messages \in [L!Ends -> Nat] /\ MaxPings \in [L!Ends -> Nat]
          /\ MaxMedia \in Nat /\ MediaQueue \in Nat
      BY ProgressBounds DEF L!Ends
    <3>4. ASSUME NEW e \in L!Ends
          PROVE  /\ Len(out[e]) <= ControlQueue /\ Len(ins[e]) <= ControlQueue
                 /\ Len(wire[e]) <= Socket
                 /\ media[e] \in 0 .. MediaQueue
                 /\ closed[e] \in BOOLEAN /\ bye[e] \in BOOLEAN
                 /\ session[e] \in {"run", "sending", "closing", "ended"}
                 /\ sent[e] \in 0 .. Messages[e]
                 /\ pings[e] \in 0 .. MaxPings[e]
      <4>1. /\ media[e] \in Nat /\ sent[e] \in Nat /\ pings[e] \in Nat
            /\ Messages[e] \in Nat /\ MaxPings[e] \in Nat
        BY <3>1, <3>3 DEF LinkTypes
      <4>2. /\ closed[e] \in BOOLEAN /\ bye[e] \in BOOLEAN
            /\ session[e] \in {"run", "sending", "closing", "ended"}
        BY <3>1 DEF LinkTypes
      <4> QED BY <3>1, <3>3, <4>1, <4>2 DEF LinkLimits
    <3>5. offered \in 0 .. MaxMedia /\ accounted \in 0 .. MaxMedia
      BY <3>1, <3>3 DEF LinkTypes, MediaFrom
    <3> QED BY <3>1, <3>2, <3>4, <3>5 DEF L!TypeOK, LinkTypes
  <2>2. T!TypeOK
    <3>1. TestTypes /\ Handshake
      BY DEF ProgressInv, TestInv
    <3>2. task.id \in {T!None, test.id}
      BY <3>1 DEF Handshake, T!None
    <3>3. task.sent \in 0 .. Probes /\ armed.id \in 0 .. MaxTests /\ armed.left \in 0 .. TestWindow
      BY <3>1 DEF TestTypes, Tasks, Arms
    <3> QED BY <3>1, <3>2, <3>3 DEF T!TypeOK, TestTypes, Tests
  <2>3. S!TypeOK
    BY DEF ProgressInv, EngineInv, EngineTypes, Timed, S!TypeOK
  <2> QED BY <2>1, <2>2, <2>3 DEF TypesOK
<1> QED BY <1>1, ProgressAlways, PTL
=============================================================================
