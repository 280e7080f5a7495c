---------------------------- MODULE RoutesProofs ----------------------------
(***************************************************************************)
(* Proofs about Routes, for any number of streams and any bounds.          *)
(*                                                                         *)
(* For any number of sessions: the types, and that a device which denies   *)
(* the permission runs nothing for its peer.  Within one session: a route  *)
(* is known by its id, a route runs at the device that asked for it, and   *)
(* the two devices agree in the end.                                       *)
(*                                                                         *)
(* A list is mostly reasoned about by what is in it (Elems).  Side says    *)
(* what is true of the routes R, the messages C and the prompts P of one   *)
(* end, given the ids I it gave and J its peer gave, and Link how the      *)
(* routes that end asked for are found at the other one.                   *)
(***************************************************************************)
EXTENDS MCRoutesSession, FiniteSetTheorems, SequenceTheorems, WellFoundedInduction, TLAPS

----------------------------------------------------------------------------
(* Recursive functions. *)

\* A set of numbers has a least one.
LEMMA Least ==
  ASSUME NEW K \in SUBSET Nat, K # {}
  PROVE  \E m \in K : \A j \in K : m <= j
<1>1. PICK R : R = OpToRel(<, Nat)
  OBVIOUS
<1>2. IsWellFoundedOn(R, Nat)
  BY <1>1, NatLessThanWellFounded
<1>3. PICK m \in K : \A j \in K : <<j, m>> \notin R
  BY <1>2, WFMin
<1>4. \A i, j \in Nat : i < j => <<i, j>> \in R
  BY <1>1 DEF OpToRel
<1>5. ASSUME NEW j \in K
      PROVE  m <= j
  <2>1. j \in Nat /\ m \in Nat
    OBVIOUS
  <2>2. ~ (j < m)
    BY <1>3, <1>4, <2>1
  <2> QED BY <2>1, <2>2
<1> QED BY <1>5

\* What holds of 0, and of i + 1 if it holds of i, holds up to n.
LEMMA Upwards ==
  ASSUME NEW n \in Nat, NEW K, 0 \in K, \A i \in 0 .. n - 1 : i \in K => i + 1 \in K
  PROVE  \A i \in 0 .. n : i \in K
<1> DEFINE Out == {i \in 0 .. n : i \notin K}
<1> SUFFICES ASSUME Out # {} PROVE FALSE
  OBVIOUS
<1>0. Out \in SUBSET Nat
  OBVIOUS
<1>1. PICK m \in Out : \A j \in Out : m <= j
  BY <1>0, Least
<1>2. m # 0 /\ m - 1 \in 0 .. n - 1 /\ m - 1 \notin Out
  BY <1>1
<1>3. m - 1 \in K
  BY <1>2
<1> QED BY <1>1, <1>2, <1>3

\* The steps of F from x, of which there are n.
Steps(h, n, x, F) == h = [i \in 0 .. n |-> IF i = 0 THEN x ELSE F[<<h[i - 1], i>>]]

\* There are such steps, and they stay within T.
LEMMA StepsExist ==
  ASSUME NEW T, NEW len \in Nat, NEW x \in T, NEW F \in [T \X (1 .. len) -> T]
  PROVE  \E h \in [0 .. len -> T] : Steps(h, len, x, F)
<1> DEFINE K == {n \in 0 .. len : \E h \in [0 .. n -> T] : Steps(h, n, x, F)}
<1>1. 0 \in K
  <2>1. PICK h : h = [i \in 0 .. 0 |-> x]
    OBVIOUS
  <2>2. h \in [0 .. 0 -> T] /\ Steps(h, 0, x, F)
    BY <2>1 DEF Steps
  <2> QED BY <2>2
<1>2. ASSUME NEW n \in 0 .. len - 1, n \in K
      PROVE  n + 1 \in K
  <2>0. n \in Nat /\ n + 1 \in 0 .. len /\ n + 1 \in 1 .. len /\ n \in 0 .. n
    OBVIOUS
  <2>1. PICK g \in [0 .. n -> T] : Steps(g, n, x, F)
    BY <1>2
  <2>2. \A i \in 0 .. n : g[i] = IF i = 0 THEN x ELSE F[<<g[i - 1], i>>]
    BY <2>1 DEF Steps
  <2>3. PICK y \in T : y = F[<<g[n], n + 1>>]
    BY <2>0, <2>1
  <2>4. PICK h : h = [i \in 0 .. n + 1 |-> IF i = n + 1 THEN y ELSE g[i]]
    OBVIOUS
  <2>5. h \in [0 .. n + 1 -> T]
    BY <2>0, <2>1, <2>3, <2>4
  <2>6. ASSUME NEW i \in 0 .. n + 1
        PROVE  h[i] = IF i = 0 THEN x ELSE F[<<h[i - 1], i>>]
    <3>1. CASE i = n + 1
      <4>1. i # 0 /\ i - 1 = n /\ n \in 0 .. n + 1 /\ n # n + 1
        BY <2>0, <3>1
      <4> QED BY <2>3, <2>4, <3>1, <4>1
    <3>2. CASE i # n + 1
      <4>1. i \in 0 .. n /\ (i # 0 => i - 1 \in 0 .. n + 1 /\ i - 1 # n + 1)
        BY <2>0, <3>2
      <4> QED BY <2>2, <2>4, <3>2, <4>1
    <3> QED BY <3>1, <3>2
  <2>7. Steps(h, n + 1, x, F)
    BY <2>4, <2>6 DEF Steps
  <2> QED BY <2>0, <2>5, <2>7
<1> HIDE DEF K
<1>3. len \in K
  BY <1>1, <1>2, Upwards
<1> QED BY <1>3 DEF K

----------------------------------------------------------------------------
(* Parts of a sequence. *)

\* t is the part of s at the positions K; h[k] is where its k-th element was.
PartBy(t, s, K, h) ==
  /\ h \in [1 .. Len(t) -> 1 .. Len(s)]
  /\ \A k \in 1 .. Len(t) : t[k] = s[h[k]] /\ h[k] \in K
  /\ \A k, l \in 1 .. Len(t) : k < l => h[k] < h[l]
  /\ \A i \in 1 .. Len(s) : i \in K => \E k \in 1 .. Len(t) : h[k] = i

\* The same of the first n elements of s.
Upto(t, s, n, K) ==
  /\ \E h \in [1 .. Len(t) -> 1 .. n] :
       /\ \A k \in 1 .. Len(t) : t[k] = s[h[k]] /\ h[k] \in K
       /\ \A k, l \in 1 .. Len(t) : k < l => h[k] < h[l]
       /\ \A i \in 1 .. n : i \in K => \E k \in 1 .. Len(t) : h[k] = i
  /\ 1 .. n \subseteq K => Len(t) = n /\ \A k \in 1 .. n : t[k] = s[k]
  /\ Len(t) <= n

LEMMA UptoNext ==
  ASSUME NEW S, NEW s \in Seq(S), NEW n \in 1 .. Len(s), NEW K, NEW t \in Seq(S),
         Upto(t, s, n - 1, K)
  PROVE  Upto(IF n \in K THEN Append(t, s[n]) ELSE t, s, n, K)
<1>1. n \in Nat /\ Len(t) \in Nat /\ n - 1 \in Nat /\ s[n] \in S
  BY LenProperties, ElementOfSeq
<1>2. PICK g \in [1 .. Len(t) -> 1 .. n - 1] :
        /\ \A k \in 1 .. Len(t) : t[k] = s[g[k]] /\ g[k] \in K
        /\ \A k, l \in 1 .. Len(t) : k < l => g[k] < g[l]
        /\ \A i \in 1 .. n - 1 : i \in K => \E k \in 1 .. Len(t) : g[k] = i
  BY DEF Upto
<1>3. CASE n \notin K
  <2>1. g \in [1 .. Len(t) -> 1 .. n]
    BY <1>1
  <2>2. \A i \in 1 .. n : i \in K => i \in 1 .. n - 1
    BY <1>1, <1>3
  <2>3. n \in 1 .. n /\ Len(t) <= n
    BY <1>1 DEF Upto
  <2>4. \A i \in 1 .. n : i \in K => \E k \in 1 .. Len(t) : g[k] = i
    BY <1>2, <2>2
  <2>5. Upto(t, s, n, K)
    BY <1>2, <1>3, <2>1, <2>3, <2>4 DEF Upto
  <2> QED BY <1>3, <2>5
<1>4. CASE n \in K
  <2>1. PICK u : u = Append(t, s[n])
    OBVIOUS
  <2>2. /\ Len(u) = Len(t) + 1 /\ u[Len(t) + 1] = s[n]
        /\ \A k \in 1 .. Len(t) : u[k] = t[k]
    BY <1>1, <2>1, AppendProperties
  <2>3. PICK h : h = [k \in 1 .. Len(u) |-> IF k = Len(u) THEN n ELSE g[k]]
    OBVIOUS
  <2>4. \A k \in 1 .. Len(u) : k = Len(u) \/ k \in 1 .. Len(t)
    BY <1>1, <2>2
  <2>5. \A k \in 1 .. Len(t) : k \in 1 .. Len(u) /\ k # Len(u)
    BY <1>1, <2>2
  <2>6. h \in [1 .. Len(u) -> 1 .. n]
    BY <1>1, <2>2, <2>3, <2>4
  <2>7. \A k \in 1 .. Len(u) : u[k] = s[h[k]] /\ h[k] \in K
    BY <1>2, <1>4, <2>2, <2>3, <2>4, <2>5
  <2>8. ASSUME NEW k \in 1 .. Len(u), NEW l \in 1 .. Len(u), k < l
        PROVE  h[k] < h[l]
    <3>1. k \in 1 .. Len(t) /\ h[k] = g[k] /\ g[k] \in 1 .. n - 1
      BY <1>1, <2>2, <2>3, <2>8
    <3>2. CASE l = Len(u)
      BY <1>1, <2>3, <3>1, <3>2
    <3>3. CASE l \in 1 .. Len(t)
      BY <1>2, <2>3, <2>5, <2>8, <3>1, <3>3
    <3> QED BY <2>4, <3>2, <3>3
  <2>9. ASSUME NEW i \in 1 .. n, i \in K
        PROVE  \E k \in 1 .. Len(u) : h[k] = i
    <3>1. CASE i = n
      <4>1. Len(u) \in 1 .. Len(u) /\ h[Len(u)] = n
        BY <1>1, <2>2, <2>3
      <4> QED BY <3>1, <4>1
    <3>2. CASE i # n
      <4>1. PICK k \in 1 .. Len(t) : g[k] = i
        BY <1>1, <1>2, <2>9, <3>2
      <4> QED BY <2>3, <2>5, <4>1
    <3> QED BY <3>1, <3>2
  <2>10. ASSUME 1 .. n \subseteq K
         PROVE  Len(u) = n /\ \A k \in 1 .. n : u[k] = s[k]
    <3>1. 1 .. n - 1 \subseteq K
      BY <1>1, <2>10
    <3>2. Len(t) = n - 1 /\ \A k \in 1 .. n - 1 : t[k] = s[k]
      BY <3>1 DEF Upto
    <3>3. \A k \in 1 .. n : k = n \/ k \in 1 .. n - 1
      BY <1>1
    <3> QED BY <1>1, <2>2, <3>2, <3>3
  <2>11. Len(u) <= n
    BY <1>1, <2>2 DEF Upto
  <2>12. Upto(u, s, n, K)
    BY <2>6, <2>7, <2>8, <2>9, <2>10, <2>11 DEF Upto
  <2> QED BY <1>4, <2>1, <2>12
<1> QED BY <1>3, <1>4

\* What Part does.
LEMMA PartIs ==
  ASSUME NEW S, NEW s \in Seq(S), NEW K
  PROVE  /\ Part(s, K) \in Seq(S)
         /\ Len(Part(s, K)) \in Nat /\ Len(Part(s, K)) <= Len(s)
         /\ \E h : PartBy(Part(s, K), s, K, h)
         /\ 1 .. Len(s) \subseteq K => Part(s, K) = s
<1> DEFINE Is(h) == h = [i \in 0 .. Len(s) |->
                           IF i = 0 THEN <<>>
                           ELSE IF i \in K THEN Append(h[i - 1], s[i]) ELSE h[i - 1]]
           F == [p \in Seq(S) \X (1 .. Len(s)) |->
                   IF p[2] \in K THEN Append(p[1], s[p[2]]) ELSE p[1]]
<1>1. Part(s, K) = (CHOOSE h : Is(h))[Len(s)]
  BY DEF Part
<1>2. Len(s) \in Nat /\ \A i \in 1 .. Len(s) : s[i] \in S
  BY LenProperties, ElementOfSeq
<1>3. F \in [Seq(S) \X (1 .. Len(s)) -> Seq(S)]
  <2>1. ASSUME NEW p \in Seq(S) \X (1 .. Len(s))
        PROVE  (IF p[2] \in K THEN Append(p[1], s[p[2]]) ELSE p[1]) \in Seq(S)
    <3>1. p[1] \in Seq(S) /\ p[2] \in 1 .. Len(s) /\ s[p[2]] \in S
      BY <1>2
    <3>2. Append(p[1], s[p[2]]) \in Seq(S)
      BY <3>1, AppendProperties
    <3> QED BY <3>1, <3>2
  <2> QED BY <2>1
<1>4. \E h : Is(h)
  <2>1. <<>> \in Seq(S)
    BY EmptySeq
  <2> HIDE DEF F
  <2>2. PICK h \in [0 .. Len(s) -> Seq(S)] : Steps(h, Len(s), <<>>, F)
    BY <1>2, <1>3, <2>1, StepsExist
  <2>3. ASSUME NEW i \in 0 .. Len(s)
        PROVE  h[i] = IF i = 0 THEN <<>>
                      ELSE IF i \in K THEN Append(h[i - 1], s[i]) ELSE h[i - 1]
    <3>1. h[i] = IF i = 0 THEN <<>> ELSE F[<<h[i - 1], i>>]
      BY <2>2 DEF Steps
    <3>2. ASSUME i # 0
          PROVE  F[<<h[i - 1], i>>] = IF i \in K THEN Append(h[i - 1], s[i]) ELSE h[i - 1]
      <4>1. i - 1 \in 0 .. Len(s) /\ i \in 1 .. Len(s)
        BY <1>2, <3>2
      <4>2. PICK p : p = <<h[i - 1], i>>
        OBVIOUS
      <4>3. p \in Seq(S) \X (1 .. Len(s)) /\ p[1] = h[i - 1] /\ p[2] = i
        BY <2>2, <4>1, <4>2
      <4> QED BY <4>2, <4>3 DEF F
    <3> QED BY <3>1, <3>2
  <2>4. Is(h)
    BY <2>2, <2>3, <1>2
  <2> QED BY <2>4
<1>5. PICK h : h = CHOOSE g : Is(g)
  OBVIOUS
<1>6. Is(h)
  <2> HIDE DEF Is
  <2> QED BY <1>4, <1>5
<1>7. /\ h[0] = <<>>
      /\ \A i \in 1 .. Len(s) : h[i] = IF i \in K THEN Append(h[i - 1], s[i]) ELSE h[i - 1]
  <2>1. \A i \in 0 .. Len(s) : h[i] = IF i = 0 THEN <<>>
                                      ELSE IF i \in K THEN Append(h[i - 1], s[i]) ELSE h[i - 1]
    BY <1>6
  <2>2. \A i \in 1 .. Len(s) : i \in 0 .. Len(s) /\ i # 0
    BY <1>2
  <2>3. 0 \in 0 .. Len(s)
    BY <1>2
  <2> QED BY <2>1, <2>2, <2>3
<1> DEFINE Done == {i \in 0 .. Len(s) : h[i] \in Seq(S) /\ Upto(h[i], s, i, K)}
<1>8. 0 \in Done
  <2>1. h[0] \in Seq(S) /\ Len(h[0]) = 0
    BY <1>7, EmptySeq
  <2>2. [k \in 1 .. 0 |-> 0] \in [1 .. Len(h[0]) -> 1 .. 0]
    BY <2>1
  <2>3. \A k \in 1 .. Len(h[0]) : FALSE
    BY <2>1
  <2>4. \A k \in 1 .. 0 : FALSE
    OBVIOUS
  <2>5. Upto(h[0], s, 0, K)
    BY <2>1, <2>2, <2>3, <2>4 DEF Upto
  <2> QED BY <1>2, <2>1, <2>5
<1>9. ASSUME NEW i \in 0 .. Len(s) - 1, i \in Done
      PROVE  i + 1 \in Done
  <2>1. i + 1 \in 1 .. Len(s) /\ (i + 1) - 1 = i /\ i + 1 \in 0 .. Len(s)
    BY <1>2
  <2>2. PICK t \in Seq(S) : t = h[i] /\ Upto(t, s, i, K)
    BY <1>9
  <2>3. h[i + 1] = IF i + 1 \in K THEN Append(t, s[i + 1]) ELSE t
    BY <1>7, <2>1, <2>2
  <2>4. h[i + 1] \in Seq(S)
    BY <1>2, <2>1, <2>2, <2>3, AppendProperties
  <2>5. Upto(h[i + 1], s, i + 1, K)
    BY <2>1, <2>2, <2>3, UptoNext
  <2> QED BY <2>1, <2>4, <2>5
<1> HIDE DEF Done
<1>10. Len(s) \in Done
  <2>1. \A i \in 0 .. Len(s) : i \in Done
    BY <1>2, <1>8, <1>9, Upwards
  <2> QED BY <1>2, <2>1
<1>11. PICK t \in Seq(S) : t = Part(s, K) /\ Upto(t, s, Len(s), K)
  BY <1>1, <1>5, <1>10 DEF Done
<1>12. \E g : PartBy(t, s, K, g)
  BY <1>11 DEF Upto, PartBy
<1>13. 1 .. Len(s) \subseteq K => t = s
  <2> SUFFICES ASSUME 1 .. Len(s) \subseteq K PROVE t = s
    OBVIOUS
  <2>1. Len(t) = Len(s) /\ \A k \in 1 .. Len(s) : t[k] = s[k]
    BY <1>11 DEF Upto
  <2> QED BY <2>1, SeqEqual
<1>14. Len(t) \in Nat /\ Len(t) <= Len(s)
  BY <1>11, LenProperties DEF Upto
<1> QED BY <1>11, <1>12, <1>13, <1>14
\* A part of a list is a list of the same elements.
LEMMA PartSeq ==
  ASSUME NEW S, NEW s \in Seq(S), NEW K
  PROVE  Part(s, K) \in Seq(S)
BY PartIs

\* A function from 1 .. n is a sequence.
LEMMA FunSeq ==
  ASSUME NEW S, NEW n \in Nat, NEW f \in [1 .. n -> S]
  PROVE  f \in Seq(S) /\ Len(f) = n /\ DOMAIN f = 1 .. n
<1>1. f \in Seq(S)
  BY SeqDef
<1>2. DOMAIN f = 1 .. n /\ DOMAIN f = 1 .. Len(f) /\ Len(f) \in Nat
  BY <1>1, LenProperties
<1> QED BY <1>1, <1>2

\* What First gives.
LEMMA FirstIs ==
  ASSUME NEW K \in SUBSET (Nat \ {0})
  PROVE  /\ First(K) = 0 <=> K = {}
         /\ K # {} => First(K) \in K /\ \A j \in K : First(K) <= j
<1>1. CASE K = {}
  BY <1>1 DEF First
<1>2. CASE K # {}
  <2>1. \E m \in K : \A j \in K : m <= j
    BY <1>2, Least
  <2>2. First(K) = CHOOSE j \in K : \A k \in K : j <= k
    BY <1>2 DEF First
  <2>3. First(K) \in K /\ \A j \in K : First(K) <= j
    BY <2>1, <2>2
  <2> QED BY <1>2, <2>3
<1> QED BY <1>1, <1>2

\* The position FirstByKey finds.
LEMMA FirstByKeyIs ==
  ASSUME NEW S, NEW s \in Seq(S), NEW i
  PROVE  /\ FirstByKey(s, i) \in 0 .. Len(s)
         /\ FirstByKey(s, i) = 0 => \A k \in 1 .. Len(s) : s[k].id # i
         /\ FirstByKey(s, i) # 0 => /\ FirstByKey(s, i) \in 1 .. Len(s)
                                    /\ s[FirstByKey(s, i)].id = i
                                    /\ \A k \in 1 .. Len(s) : s[k].id = i => FirstByKey(s, i) <= k
<1> DEFINE K == {j \in DOMAIN s : s[j].id = i}
<1>1. DOMAIN s = 1 .. Len(s) /\ Len(s) \in Nat
  BY LenProperties
<1>2. K \in SUBSET (Nat \ {0}) /\ K \subseteq 1 .. Len(s)
  BY <1>1
<1>3. FirstByKey(s, i) = First(K)
  BY DEF FirstByKey
<1>4. /\ First(K) = 0 <=> K = {}
      /\ K # {} => First(K) \in K /\ \A j \in K : First(K) <= j
  <2> HIDE DEF K
  <2> QED BY <1>2, FirstIs
<1> QED BY <1>1, <1>2, <1>3, <1>4

----------------------------------------------------------------------------
(* Types. *)

Lists == [routes: Seq(Route), saved: Seq(Flows)]

\* stop_route_by_key leaves lists of routes and streams.
LEMMA StoppedTyped ==
  ASSUME NEW x \in Lists, NEW i
  PROVE  Stopped(x, i) \in Lists
<1>1. \A K : Part(x.routes, K) \in Seq(Route) /\ Part(x.saved, K) \in Seq(Flows)
  BY PartSeq DEF Lists
<1>2. CASE FirstByKey(x.routes, i) = 0
  BY <1>2 DEF Stopped
<1>3. CASE FirstByKey(x.routes, i) # 0
  BY <1>1, <1>3 DEF Stopped, Without, Lists
<1> QED BY <1>2, <1>3

\* StoppedEach stops one after the other.
LEMMA StoppedEachSteps ==
  ASSUME NEW x \in Lists, NEW rs, Len(rs) \in Nat
  PROVE  \E h \in [0 .. Len(rs) -> Lists] :
           /\ h[0] = x
           /\ \A k \in 1 .. Len(rs) : h[k] = Stopped(h[k - 1], rs[k].id)
           /\ StoppedEach(x, rs) = h[Len(rs)]
<1> DEFINE Is(h) == h = [k \in 0 .. Len(rs) |->
                           IF k = 0 THEN x ELSE Stopped(h[k - 1], rs[k].id)]
           F == [p \in Lists \X (1 .. Len(rs)) |-> Stopped(p[1], rs[p[2]].id)]
<1>1. StoppedEach(x, rs) = (CHOOSE h : Is(h))[Len(rs)]
  BY DEF StoppedEach
<1>2. F \in [Lists \X (1 .. Len(rs)) -> Lists]
  <2>1. \A p \in Lists \X (1 .. Len(rs)) : p[1] \in Lists
    OBVIOUS
  <2> QED BY <2>1, StoppedTyped
<1>3. PICK g \in [0 .. Len(rs) -> Lists] : Steps(g, Len(rs), x, F)
  <2> HIDE DEF F
  <2> QED BY <1>2, StepsExist
<1>4. ASSUME NEW i \in 0 .. Len(rs), i # 0
      PROVE  F[<<g[i - 1], i>>] = Stopped(g[i - 1], rs[i].id)
  <2>1. i - 1 \in 0 .. Len(rs) /\ i \in 1 .. Len(rs)
    BY <1>4
  <2>2. PICK p : p = <<g[i - 1], i>>
    OBVIOUS
  <2>3. p \in Lists \X (1 .. Len(rs)) /\ p[1] = g[i - 1] /\ p[2] = i
    BY <2>1, <2>2
  <2> QED BY <2>2, <2>3
<1>5. g = [i \in 0 .. Len(rs) |-> IF i = 0 THEN x ELSE F[<<g[i - 1], i>>]]
  BY <1>3 DEF Steps
<1>6. \A i \in 0 .. Len(rs) : g[i] = IF i = 0 THEN x ELSE F[<<g[i - 1], i>>]
  <2> HIDE DEF F
  <2> QED BY <1>5
<1>7. \A i \in 0 .. Len(rs) : g[i] = IF i = 0 THEN x ELSE Stopped(g[i - 1], rs[i].id)
  <2> HIDE DEF F
  <2> QED BY <1>4, <1>6
<1>8. Is(g)
  <2>1. g = [i \in 0 .. Len(rs) |-> g[i]]
    OBVIOUS
  <2> QED BY <1>7, <2>1
<1>9. PICK h : h = CHOOSE f : Is(f)
  OBVIOUS
<1>10. Is(h)
  <2> HIDE DEF Is
  <2> QED BY <1>8, <1>9
<1>11. \A k \in 0 .. Len(rs) : h[k] = IF k = 0 THEN x ELSE Stopped(h[k - 1], rs[k].id)
  BY <1>10
<1>12. \A k \in 1 .. Len(rs) : k \in 0 .. Len(rs) /\ k # 0 /\ k - 1 \in 0 .. Len(rs) - 1
  OBVIOUS
<1>13. h[0] = x /\ \A k \in 1 .. Len(rs) : h[k] = Stopped(h[k - 1], rs[k].id)
  BY <1>11, <1>12
<1> DEFINE Done == {k \in 0 .. Len(rs) : h[k] \in Lists}
<1>14. \A k \in 0 .. Len(rs) : k \in Done
  <2>1. 0 \in Done
    BY <1>13
  <2>2. ASSUME NEW k \in 0 .. Len(rs) - 1, k \in Done
        PROVE  k + 1 \in Done
    <3>1. k + 1 \in 1 .. Len(rs) /\ (k + 1) - 1 = k /\ k + 1 \in 0 .. Len(rs)
      OBVIOUS
    <3>2. h[k + 1] = Stopped(h[k], rs[k + 1].id)
      BY <1>13, <3>1
    <3> QED BY <2>2, <3>1, <3>2, StoppedTyped
  <2> HIDE DEF Done
  <2> QED BY <2>1, <2>2, Upwards
<1>15. h \in [0 .. Len(rs) -> Lists]
  <2>1. h = [k \in 0 .. Len(rs) |-> IF k = 0 THEN x ELSE Stopped(h[k - 1], rs[k].id)]
    BY <1>10
  <2>2. \A k \in 0 .. Len(rs) : h[k] \in Lists
    BY <1>14
  <2> QED BY <2>1, <2>2
<1>16. StoppedEach(x, rs) = h[Len(rs)]
  <2> HIDE DEF Is
  <2> QED BY <1>1, <1>9
<1> QED BY <1>13, <1>15, <1>16

\* So does stopping them one after the other.
LEMMA StoppedEachTyped ==
  ASSUME NEW x \in Lists, NEW rs, Len(rs) \in Nat
  PROVE  StoppedEach(x, rs) \in Lists
BY StoppedEachSteps
\* There are two devices.
LEMMA OtherDevice ==
  ASSUME NEW d \in Devices
  PROVE  /\ Other(d) \in Devices /\ Other(d) # d /\ Other(Other(d)) = d
         /\ Devices = {d, Other(d)}
BY DevicesAssumption DEF Devices, Other

\* Ids are numbers; 1 and 2 are the first two, and 0 is none.
LEMMA IdsFacts == Ids \subseteq Nat /\ 1 \in Ids /\ 2 \in Ids /\ 0 \notin Ids
BY IdSpaceAssumption DEF Ids

\* The ids that follow an id.
LEMMA AfterTyped ==
  ASSUME NEW n \in Ids
  PROVE  After(n) \in Ids
<1>1. n + 2 \in Nat /\ IdSpace \in Nat /\ IdSpace > 3
  BY IdSpaceAssumption DEF Ids
<1>2. (n + 2) % IdSpace \in 0 .. IdSpace - 1
  BY <1>1
<1> QED BY <1>1, <1>2 DEF After, Ids

LEMMA LaterTyped ==
  ASSUME NEW n \in Ids, NEW len \in Nat
  PROVE  Later(n, len) \in Ids /\ Later(n, 0) = n
<1> DEFINE Is(h, k) == h = [i \in 0 .. k |-> IF i = 0 THEN n ELSE After(h[i - 1])]
           F == [p \in Ids \X (1 .. len) |-> After(p[1])]
<1>1. \A k : Later(n, k) = (CHOOSE h : Is(h, k))[k]
  BY DEF Later
<1>2. F \in [Ids \X (1 .. len) -> Ids]
  <2>1. \A p \in Ids \X (1 .. len) : p[1] \in Ids
    OBVIOUS
  <2> QED BY <2>1, AfterTyped
<1>3. PICK g \in [0 .. len -> Ids] : Steps(g, len, n, F)
  <2> HIDE DEF F
  <2> QED BY <1>2, StepsExist
<1>4. ASSUME NEW i \in 0 .. len, i # 0
      PROVE  F[<<g[i - 1], i>>] = After(g[i - 1])
  <2>1. i - 1 \in 0 .. len /\ i \in 1 .. len
    BY <1>4
  <2>2. PICK p : p = <<g[i - 1], i>>
    OBVIOUS
  <2>3. p \in Ids \X (1 .. len) /\ p[1] = g[i - 1]
    BY <2>1, <2>2
  <2> QED BY <2>2, <2>3
<1>5. g = [i \in 0 .. len |-> IF i = 0 THEN n ELSE F[<<g[i - 1], i>>]]
  BY <1>3 DEF Steps
<1>6. \A i \in 0 .. len : g[i] = IF i = 0 THEN n ELSE After(g[i - 1])
  <2> HIDE DEF F
  <2> QED BY <1>4, <1>5
<1>7. Is(g, len)
  <2>1. g = [i \in 0 .. len |-> g[i]]
    OBVIOUS
  <2> QED BY <1>6, <2>1
<1>8. PICK h : h = CHOOSE f : Is(f, len)
  OBVIOUS
<1>9. Is(h, len) /\ Later(n, len) = h[len]
  <2> HIDE DEF Is
  <2> QED BY <1>1, <1>7, <1>8
<1>10. \A i \in 0 .. len : h[i] = IF i = 0 THEN n ELSE After(h[i - 1])
  BY <1>9
<1> DEFINE Done == {i \in 0 .. len : h[i] \in Ids}
<1>11. 0 \in Done
  BY <1>10
<1>12. ASSUME NEW i \in 0 .. len - 1, i \in Done
       PROVE  i + 1 \in Done
  <2>1. i + 1 \in 0 .. len /\ i + 1 # 0 /\ (i + 1) - 1 = i
    OBVIOUS
  <2>2. h[i + 1] = After(h[i])
    BY <1>10, <2>1
  <2> QED BY <1>12, <2>1, <2>2, AfterTyped
<1>13. \A i \in 0 .. len : i \in Done
  <2> HIDE DEF Done
  <2> QED BY <1>11, <1>12, Upwards
<1>14. Later(n, len) \in Ids
  BY <1>9, <1>13
<1>15. Later(n, 0) = n
  <2>1. PICK f : f = [i \in 0 .. 0 |-> n]
    OBVIOUS
  <2>2. Is(f, 0)
    BY <2>1
  <2>3. PICK k : k = CHOOSE f2 : Is(f2, 0)
    OBVIOUS
  <2>4. Is(k, 0) /\ Later(n, 0) = k[0]
    <3> HIDE DEF Is
    <3> QED BY <1>1, <2>2, <2>3
  <2> QED BY <2>4
<1> QED BY <1>14, <1>15

Kinds == {"Request", "Accept", "Reject", "Stop"}

\* What is sent is a message.
LEMMA MsgTyped ==
  ASSUME NEW e \in Nat, NEW t \in Kinds, NEW i \in Ids, NEW f \in Flows
  PROVE  Msg(e, t, i, f) \in Message
BY DEF Msg, Message, Kinds

LEMMA SendTyped ==
  ASSUME NEW ch \in [Devices -> Seq(Message)], NEW d \in Devices, NEW e,
         NEW ms \in Seq(Message)
  PROVE  Send(ch, d, e, ms) \in [Devices -> Seq(Message)]
<1>1. ch[Other(d)] \o ms \in Seq(Message)
  BY OtherDevice, ConcatProperties
<1> QED BY <1>1, OtherDevice DEF Send

LEMMA TellTyped ==
  ASSUME NEW ch \in [Devices -> Seq(Message)], NEW d \in Devices, at[d] \in Nat,
         NEW t \in Kinds, NEW i \in Ids, NEW f \in Flows
  PROVE  Tell(ch, d, t, i, f) \in [Devices -> Seq(Message)]
<1>1. PICK m : m = Msg(at[d], t, i, f)
  OBVIOUS
<1>2. m \in Message
  BY <1>1, MsgTyped
<1>3. <<m>> \in Seq(Message)
  BY <1>2
<1> QED BY <1>1, <1>3, SendTyped DEF Tell

\* Operators on routes keep their types.
LEMMA NewRouteTyped ==
  ASSUME NEW i \in Ids, NEW f \in Flows, NEW s \in Statuses, NEW mine \in BOOLEAN
  PROVE  NewRoute(i, f, s, mine) \in Route
BY DEF NewRoute, Route

LEMMA PauseTyped ==
  ASSUME NEW rs \in Seq(Route)
  PROVE  Pause(rs) \in Seq(Route)
<1> DEFINE kept == Part(rs, {i \in DOMAIN rs :
                          rs[i].st \in {"Active", "Paused"} \/ rs[i].mine})
<1>1. kept \in Seq(Route)
  BY PartSeq
<1> HIDE DEF kept
<1>2. DOMAIN kept = 1 .. Len(kept) /\ Len(kept) \in Nat
      /\ \A i \in 1 .. Len(kept) : kept[i] \in Route
  BY <1>1, LenProperties, ElementOfSeq
<1>3. \A r \in Route : [r EXCEPT !.st = "Paused", !.up = FALSE] \in Route
  BY DEF Route, Statuses
<1>4. [i \in DOMAIN kept |-> [kept[i] EXCEPT !.st = "Paused", !.up = FALSE]]
        \in [1 .. Len(kept) -> Route]
  BY <1>2, <1>3
<1>5. Pause(rs) = [i \in DOMAIN kept |-> [kept[i] EXCEPT !.st = "Paused", !.up = FALSE]]
  BY DEF Pause, kept
<1> QED BY <1>2, <1>4, <1>5, FunSeq

LEMMA AcceptRouteTyped ==
  ASSUME routes \in [Devices -> Seq(Route)], NEW d \in Devices,
         NEW i \in Ids, NEW f \in Flows, AcceptRoute(d, i, f)
  PROVE  routes' \in [Devices -> Seq(Route)]
<1> DEFINE kept == Part(routes[d], {k \in DOMAIN routes[d] :
                LET r == routes[d][k] IN
                ~(r.st = "Paused" /\ (r.flow = f \/ r.id = i))})
<1>1. kept \in Seq(Route)
  BY PartSeq
<1>2. NewRoute(i, f, "Starting", FALSE) \in Route
  BY NewRouteTyped DEF Statuses
<1>3. Append(kept, NewRoute(i, f, "Starting", FALSE)) \in Seq(Route)
  BY <1>1, <1>2, AppendProperties
<1>4. routes' = [routes EXCEPT ![d] =
               IF FirstByKey(kept, i) # 0 \/ at[d] = 0 THEN kept
               ELSE Append(kept, NewRoute(i, f, "Starting", FALSE))]
  BY DEF AcceptRoute
<1> QED BY <1>1, <1>3, <1>4

LEMMA StopEachTyped ==
  ASSUME routes \in [Devices -> Seq(Route)], saved \in [Devices -> Seq(Flows)],
         NEW d \in Devices, NEW rs, Len(rs) \in Nat, StopEach(d, rs)
  PROVE  routes' \in [Devices -> Seq(Route)] /\ saved' \in [Devices -> Seq(Flows)]
<1>1. PICK x : x = StoppedEach([routes |-> routes[d], saved |-> saved[d]], rs)
  OBVIOUS
<1>2. [routes |-> routes[d], saved |-> saved[d]] \in Lists
  BY DEF Lists
<1>3. x \in Lists
  BY <1>1, <1>2, StoppedEachTyped
<1>4. x.routes \in Seq(Route) /\ x.saved \in Seq(Flows)
  BY <1>3 DEF Lists
<1>5. routes' = [routes EXCEPT ![d] = x.routes] /\ saved' = [saved EXCEPT ![d] = x.saved]
  BY <1>1 DEF StopEach
<1> QED BY <1>4, <1>5

LEMMA StopAndTellTyped ==
  ASSUME routes \in [Devices -> Seq(Route)], saved \in [Devices -> Seq(Flows)],
         chan \in [Devices -> Seq(Message)], at \in [Devices -> Nat],
         NEW d \in Devices, NEW rs \in Seq(Route), StopAndTell(d, rs)
  PROVE  /\ routes' \in [Devices -> Seq(Route)] /\ saved' \in [Devices -> Seq(Flows)]
         /\ chan' \in [Devices -> Seq(Message)]
<1>1. Len(rs) \in Nat /\ DOMAIN rs = 1 .. Len(rs) /\ \A i \in 1 .. Len(rs) : rs[i] \in Route
  BY LenProperties, ElementOfSeq
<1>2. routes' \in [Devices -> Seq(Route)] /\ saved' \in [Devices -> Seq(Flows)]
  BY <1>1, StopEachTyped DEF StopAndTell
<1>3. PICK ms : ms = [i \in DOMAIN rs |-> Msg(at[d], "Stop", rs[i].id, rs[i].flow)]
  OBVIOUS
<1>4. \A i \in 1 .. Len(rs) : Msg(at[d], "Stop", rs[i].id, rs[i].flow) \in Message
  BY <1>1, MsgTyped DEF Route, Kinds
<1>5. ms \in [1 .. Len(rs) -> Message]
  BY <1>1, <1>3, <1>4
<1>6. ms \in Seq(Message)
  BY <1>1, <1>5, FunSeq
<1>7. chan' = Send(chan, d, at[d], ms)
  BY <1>3 DEF StopAndTell
<1> QED BY <1>2, <1>6, <1>7, SendTyped
LEMMA WantedTyped ==
  ASSUME saved \in [Devices -> Seq(Flows)], NEW d \in Devices,
         NEW rs \in Seq(Route), NEW rest
  PROVE  /\ Wanted(d, rs, rest) \in Seq(Route)
         /\ \A k \in DOMAIN Wanted(d, rs, rest) : Wanted(d, rs, rest)[k].mine
         /\ rs = <<>> /\ saved[d] = <<>> => Wanted(d, rs, rest) = <<>>
<1> DEFINE K == {i \in DOMAIN rs : /\ rs[i].st = "Paused" /\ rs[i].mine
                                   /\ ~HasFlow(rest, rs[i].flow)}
           J == {i \in DOMAIN saved[d] :
                   /\ ~HasFlow(rs, saved[d][i]) /\ saved[d][i] \in able[d]}
<1>1. PICK p \in Seq(Route) : p = Part(rs, K)
  BY PartSeq
<1>2. PICK more \in Seq(Flows) : more = Part(saved[d], J)
  BY PartSeq
<1>3. PICK q : q = [i \in DOMAIN more |-> NewRoute(1, more[i], "Paused", TRUE)]
  OBVIOUS
<1>4. Wanted(d, rs, rest) = p \o q
  BY <1>1, <1>2, <1>3 DEF Wanted
<1>5. DOMAIN more = 1 .. Len(more) /\ Len(more) \in Nat
      /\ \A i \in 1 .. Len(more) : more[i] \in Flows
  BY LenProperties, ElementOfSeq
<1>6. \A i \in 1 .. Len(more) : NewRoute(1, more[i], "Paused", TRUE) \in Route
  BY <1>5, NewRouteTyped, IdsFacts DEF Statuses
<1>7. q \in [1 .. Len(more) -> Route]
  BY <1>3, <1>5, <1>6
<1>8. q \in Seq(Route) /\ Len(q) = Len(more)
  BY <1>5, <1>7, FunSeq
<1>9. \A k \in 1 .. Len(q) : q[k].mine
  BY <1>3, <1>5, <1>8 DEF NewRoute
<1>10. \A k \in 1 .. Len(p) : p[k].mine
  <2>1. PICK h : PartBy(p, rs, K, h)
    BY <1>1, PartIs
  <2> QED BY <2>1 DEF PartBy
<1>11. PICK w : w = p \o q
  OBVIOUS
<1>12. /\ w \in Seq(Route) /\ Len(w) = Len(p) + Len(q)
       /\ \A k \in 1 .. Len(p) + Len(q) :
            w[k] = IF k <= Len(p) THEN p[k] ELSE q[k - Len(p)]
  BY <1>8, <1>11, ConcatProperties
<1>13. Len(p) \in Nat /\ Len(q) \in Nat /\ DOMAIN w = 1 .. Len(w)
  BY <1>8, <1>12, LenProperties
<1>14. ASSUME NEW k \in DOMAIN w
       PROVE  w[k].mine
  <2>1. k \in 1 .. Len(p) + Len(q)
    BY <1>12, <1>13
  <2>2. CASE k <= Len(p)
    BY <1>10, <1>12, <1>13, <2>1, <2>2
  <2>3. CASE ~ (k <= Len(p))
    <3>1. k - Len(p) \in 1 .. Len(q)
      BY <1>13, <2>1, <2>3
    <3> QED BY <1>9, <1>12, <2>1, <2>3, <3>1
  <2> QED BY <2>2, <2>3
<1>15. ASSUME rs = <<>>, saved[d] = <<>>
       PROVE  w = <<>>
  <2>1. Len(rs) = 0 /\ Len(saved[d]) = 0
    BY <1>15, EmptySeq
  <2>2. Len(p) <= Len(rs) /\ Len(more) <= Len(saved[d])
    BY <1>1, <1>2, PartIs
  <2>3. Len(w) = 0
    BY <1>8, <1>12, <1>13, <2>1, <2>2
  <2> QED BY <1>12, <2>3, EmptySeq
<1> QED BY <1>4, <1>11, <1>12, <1>14, <1>15

LEMMA FirstIdTyped == \A d : FirstId(d) \in Ids
BY IdsFacts DEF FirstId

LEMMA BegunTyped ==
  ASSUME NEW d \in Devices, NEW ws \in Seq(Route), \A k \in DOMAIN ws : ws[k].mine
  PROVE  /\ Begun(d, ws) \in Seq(Route) /\ Len(Begun(d, ws)) = Len(ws)
         /\ \A k \in DOMAIN Begun(d, ws) : Begun(d, ws)[k].mine
<1> DEFINE Starts(k) == Cardinality({j \in 1 .. k : ws[j].flow \in able[d]})
           b(k) == IF ws[k].flow \in able[d]
                   THEN NewRoute(Later(FirstId(d), Starts(k) - 1), ws[k].flow,
                                 "Requesting", TRUE)
                   ELSE ws[k]
<1>1. DOMAIN ws = 1 .. Len(ws) /\ Len(ws) \in Nat /\ \A k \in 1 .. Len(ws) : ws[k] \in Route
  BY LenProperties, ElementOfSeq
<1>2. ASSUME NEW k \in 1 .. Len(ws)
      PROVE  b(k) \in Route /\ b(k).mine
  <2>1. CASE ws[k].flow \in able[d]
    <3>1. PICK J : J = {j \in 1 .. k : ws[j].flow \in able[d]}
      OBVIOUS
    <3>2. IsFiniteSet(1 .. k) /\ J \subseteq 1 .. k
      BY <1>1, <3>1, FS_Interval
    <3>3. IsFiniteSet(J)
      BY <3>2, FS_Subset
    <3>4. k \in J
      BY <1>1, <2>1, <3>1
    <3>5. Cardinality(J) \in Nat /\ Cardinality(J) # 0
      BY <3>3, <3>4, FS_CardinalityType, FS_EmptySet
    <3>6. Starts(k) - 1 \in Nat
      BY <3>1, <3>5
    <3> HIDE DEF Starts
    <3>7. Later(FirstId(d), Starts(k) - 1) \in Ids
      BY <3>6, LaterTyped, FirstIdTyped
    <3>8. ws[k].flow \in Flows
      BY <1>1 DEF Route
    <3>9. b(k) = NewRoute(Later(FirstId(d), Starts(k) - 1), ws[k].flow, "Requesting", TRUE)
      BY <2>1
    <3>10. b(k) \in Route
      BY <3>7, <3>8, <3>9, NewRouteTyped DEF Statuses
    <3> QED BY <3>9, <3>10 DEF NewRoute
  <2>2. CASE ws[k].flow \notin able[d]
    BY <1>1, <2>2
  <2> QED BY <2>1, <2>2
<1>3. Begun(d, ws) = [k \in DOMAIN ws |-> b(k)]
  BY DEF Begun
<1> HIDE DEF b
<1>4. [k \in DOMAIN ws |-> b(k)] \in [1 .. Len(ws) -> Route]
  BY <1>1, <1>2
<1>5. PICK g : g = Begun(d, ws)
  OBVIOUS
<1>6. g \in Seq(Route) /\ Len(g) = Len(ws) /\ DOMAIN g = 1 .. Len(ws)
  BY <1>1, <1>3, <1>4, <1>5, FunSeq
<1>7. \A k \in DOMAIN g : g[k].mine
  BY <1>1, <1>2, <1>3, <1>5, <1>6
<1> QED BY <1>5, <1>6, <1>7

\* The steps keep the types.
LEMMA PromoteTyped ==
  ASSUME TypeOK, NEW d \in Devices, NEW proved \in BOOLEAN, Promote(d, proved)
  PROVE  TypeOK'
<1> USE DEF TypeOK
<1>1. PICK rs \in {IF at[d] = 0 THEN routes[d] ELSE Pause(routes[d])} :
     \E rest \in {Others(rs)} :
     \E wanted \in {Wanted(d, rs, rest)} :
     \E begun \in {Begun(d, wanted)} :
     \E asked \in {Asked(begun)} :
       /\ routes' = [routes EXCEPT ![d] = rest \o begun]
       /\ next' = [next EXCEPT ![d] = Later(FirstId(d), Len(asked))]
       /\ chan' = Send(Unread(d), d, gen, [k \in DOMAIN asked |->
                     Msg(gen, "Request", asked[k].id, asked[k].flow)])
  BY DEF Promote
<1>2. rs \in Seq(Route)
  BY <1>1, PauseTyped
<1>3. PICK rest : rest = Others(rs)
  OBVIOUS
<1>4. PICK wanted : wanted = Wanted(d, rs, rest)
  OBVIOUS
<1>5. PICK begun : begun = Begun(d, wanted)
  OBVIOUS
<1>6. PICK asked : asked = Asked(begun)
  OBVIOUS
<1>7. PICK ms : ms = [k \in DOMAIN asked |-> Msg(gen, "Request", asked[k].id, asked[k].flow)]
  OBVIOUS
<1>8. /\ routes' = [routes EXCEPT ![d] = rest \o begun]
      /\ next' = [next EXCEPT ![d] = Later(FirstId(d), Len(asked))]
      /\ chan' = Send(Unread(d), d, gen, ms)
  BY <1>1, <1>3, <1>4, <1>5, <1>6, <1>7
<1>9. rest \in Seq(Route)
  BY <1>2, <1>3, PartSeq DEF Others
<1>10. wanted \in Seq(Route) /\ \A k \in DOMAIN wanted : wanted[k].mine
  BY <1>2, <1>4, WantedTyped
<1>11. begun \in Seq(Route)
  BY <1>5, <1>10, BegunTyped
<1>12. asked \in Seq(Route)
  BY <1>6, <1>11, PartSeq DEF Asked
<1>13. /\ DOMAIN asked = 1 .. Len(asked) /\ Len(asked) \in Nat
       /\ \A k \in 1 .. Len(asked) : asked[k] \in Route
  BY <1>12, LenProperties, ElementOfSeq
<1>14. \A k \in 1 .. Len(asked) : Msg(gen, "Request", asked[k].id, asked[k].flow) \in Message
  BY <1>13, MsgTyped DEF Route, Kinds
<1>15. ms \in Seq(Message)
  <2>1. ms \in [1 .. Len(asked) -> Message]
    BY <1>7, <1>13, <1>14
  <2> QED BY <1>13, <2>1, FunSeq
<1>16. Unread(d) \in [Devices -> Seq(Message)]
  <2>1. \A K : Part(chan[d], K) \in Seq(Message)
    BY PartSeq
  <2> QED BY <2>1 DEF Unread
<1>17. chan' \in [Devices -> Seq(Message)]
  BY <1>8, <1>15, <1>16, SendTyped
<1>18. routes' \in [Devices -> Seq(Route)]
  <2>1. rest \o begun \in Seq(Route)
    BY <1>9, <1>11, ConcatProperties
  <2> QED BY <1>8, <2>1
<1>19. next' \in [Devices -> Ids]
  <2>1. Later(FirstId(d), Len(asked)) \in Ids
    BY <1>13, LaterTyped, FirstIdTyped
  <2> QED BY <1>8, <2>1
<1>20. /\ seen' = [seen EXCEPT ![d] = gen] /\ at' = [at EXCEPT ![d] = gen]
       /\ resumed' = [resumed EXCEPT ![d] = proved]
       /\ UNCHANGED <<saved, promptVars, userVars, gen, dialer, left, starts, losses,
                 timeouts, commands>>
  BY DEF Promote
<1> QED BY <1>17, <1>18, <1>19, <1>20 DEF promptVars, userVars
LEMMA ReceiveTyped ==
  ASSUME TypeOK, NEW d \in Devices, Receive(d)
  PROVE  TypeOK'
<1> USE DEF TypeOK
<1>1. PICK m : m = Head(chan[d])
  OBVIOUS
<1>2. PICK ch : ch = [chan EXCEPT ![d] = Tail(@)]
  OBVIOUS
<1>3. /\ m.of = at[d]
      /\ \/ m.type = "Request" /\ OnRequest(d, m, ch) /\ UNCHANGED saved
         \/ m.type = "Accept" /\ OnAccept(d, m, ch) /\ UNCHANGED <<saved, promptVars>>
         \/ m.type = "Reject" /\ OnReject(d, m, ch) /\ UNCHANGED <<saved, promptVars>>
         \/ m.type = "Stop" /\ OnStop(d, m, ch) /\ UNCHANGED promptVars
  BY <1>1, <1>2 DEF Receive
<1>4. m \in Message /\ Tail(chan[d]) \in Seq(Message)
  <2>1. chan[d] \in Seq(Message) /\ chan[d] # <<>>
    BY DEF Receive
  <2> QED BY <1>1, <2>1, HeadTailProperties
<1>5. ch \in [Devices -> Seq(Message)] /\ m.id \in Ids /\ m.flow \in Flows
  BY <1>2, <1>4 DEF Message
<1>6. /\ saved' \in [Devices -> Seq(Flows)] /\ routes' \in [Devices -> Seq(Route)]
      /\ chan' \in [Devices -> Seq(Message)] /\ prompted' \in BOOLEAN
      /\ prompts' \in [Devices -> Seq([id: Ids, flow: Flows])]
  <2>1. CASE m.type = "Request"
    <3>1. OnRequest(d, m, ch) /\ saved' = saved
      BY <1>3, <2>1
    <3>2. CASE /\ chan' = Tell(ch, d, "Reject", m.id, m.flow)
               /\ UNCHANGED <<routes, promptVars>>
      BY <1>5, <3>1, <3>2, TellTyped DEF Kinds, promptVars
    <3>3. CASE /\ AcceptRoute(d, m.id, m.flow) /\ chan' = ch /\ UNCHANGED promptVars
      BY <1>5, <3>1, <3>3, AcceptRouteTyped DEF promptVars
    <3>4. CASE /\ prompted' = TRUE
               /\ prompts' = [prompts EXCEPT ![d] =
                      Append(@, [id |-> m.id, flow |-> m.flow])]
               /\ chan' = ch /\ UNCHANGED routes
      <4>1. [id |-> m.id, flow |-> m.flow] \in [id: Ids, flow: Flows]
        BY <1>5
      <4>2. Append(prompts[d], [id |-> m.id, flow |-> m.flow]) \in Seq([id: Ids, flow: Flows])
        BY <4>1, AppendProperties
      <4> QED BY <1>5, <3>1, <3>4, <4>2
    <3> QED BY <3>1, <3>2, <3>3, <3>4 DEF OnRequest
  <2>2. CASE m.type = "Accept"
    <3>1. OnAccept(d, m, ch) /\ UNCHANGED <<saved, promptVars>>
      BY <1>3, <2>2
    <3>2. PICK i : i = First({k \in DOMAIN routes[d] : /\ routes[d][k].id = m.id
                                          /\ routes[d][k].st = "Requesting"})
      OBVIOUS
    <3>3. /\ chan' = ch
          /\ routes' = IF i = 0 THEN routes
               ELSE [routes EXCEPT ![d] =
                       Append(Without(@, i), [@[i] EXCEPT !.st = "Starting"])]
      BY <3>1, <3>2 DEF OnAccept
    <3>4. CASE i # 0
      <4>1. DOMAIN routes[d] = 1 .. Len(routes[d]) /\ Len(routes[d]) \in Nat
        BY LenProperties
      <4>2. i \in 1 .. Len(routes[d])
        <5> DEFINE K == {k \in DOMAIN routes[d] : /\ routes[d][k].id = m.id
                                          /\ routes[d][k].st = "Requesting"}
        <5>1. K \in SUBSET (Nat \ {0}) /\ K \subseteq 1 .. Len(routes[d])
          BY <4>1
        <5>2. i = First(K)
          BY <3>2
        <5> HIDE DEF K
        <5> QED BY <3>4, <5>1, <5>2, FirstIs
      <4>3. [routes[d][i] EXCEPT !.st = "Starting"] \in Route
        <5>1. PICK r \in Route : r = routes[d][i]
          BY <4>2, ElementOfSeq
        <5>2. [r EXCEPT !.st = "Starting"] \in Route
          BY DEF Route, Statuses
        <5> QED BY <5>1, <5>2
      <4>4. Without(routes[d], i) \in Seq(Route)
        BY PartSeq DEF Without
      <4>5. Append(Without(routes[d], i), [routes[d][i] EXCEPT !.st = "Starting"]) \in Seq(Route)
        BY <4>3, <4>4, AppendProperties
      <4> QED BY <1>5, <3>1, <3>3, <3>4, <4>5 DEF promptVars
    <3> QED BY <1>5, <3>1, <3>3, <3>4 DEF promptVars
  <2>3. CASE m.type = "Reject"
    <3>1. WithoutKey(routes[d], m.id) \in Seq(Route)
      BY PartSeq DEF WithoutKey, Without
    <3> QED BY <1>3, <1>5, <2>3, <3>1 DEF OnReject, promptVars
  <2>4. CASE m.type = "Stop"
    <3>1. Len(<<m>>) \in Nat
      OBVIOUS
    <3>2. StopEach(d, <<m>>) /\ chan' = ch /\ UNCHANGED promptVars
      BY <1>3, <2>4 DEF OnStop
    <3> QED BY <1>5, <3>1, <3>2, StopEachTyped DEF promptVars
  <2> QED BY <1>3, <2>1, <2>2, <2>3, <2>4
<1>7. UNCHANGED <<userVars, sessionVars, next, losses, timeouts, commands>>
  BY DEF Receive
<1> QED BY <1>6, <1>7 DEF userVars, sessionVars

LEMMA PromptsTyped ==
  ASSUME TypeOK, NEW d \in Devices, NEW i \in DOMAIN prompts[d],
         \/ \E accept, remember \in BOOLEAN : RespondRequest(d, i, accept, remember)
         \/ PromptExpires(d, i)
  PROVE  TypeOK'
<1> USE DEF TypeOK
<1>1. DOMAIN prompts[d] = 1 .. Len(prompts[d])
  BY LenProperties
<1>2. prompts[d][i].id \in Ids /\ prompts[d][i].flow \in Flows
  <2>1. prompts[d][i] \in [id: Ids, flow: Flows]
    BY <1>1, ElementOfSeq
  <2> QED BY <2>1
<1>3. Without(prompts[d], i) \in Seq([id: Ids, flow: Flows])
  BY PartSeq DEF Without
<1>4. CASE PromptExpires(d, i)
  <2>1. chan' \in [Devices -> Seq(Message)]
    BY <1>2, <1>4, TellTyped DEF PromptExpires, Kinds
  <2>2. timeouts' \in Nat
    BY <1>4 DEF PromptExpires
  <2> QED BY <1>3, <1>4, <2>1, <2>2 DEF PromptExpires, userVars, sessionVars
<1>5. ASSUME NEW accept \in BOOLEAN, NEW remember \in BOOLEAN,
             RespondRequest(d, i, accept, remember)
      PROVE  TypeOK'
  <2>1. CASE accept
    <3>1. AcceptRoute(d, prompts[d][i].id, prompts[d][i].flow) /\ chan' = chan
      BY <1>5, <2>1 DEF RespondRequest
    <3>2. routes' \in [Devices -> Seq(Route)]
      BY <1>2, <3>1, AcceptRouteTyped
    <3> QED BY <1>3, <1>5, <3>1, <3>2 DEF RespondRequest, sessionVars
  <2>2. CASE ~accept
    <3>1. chan' = Tell(chan, d, "Reject", prompts[d][i].id, prompts[d][i].flow)
          /\ routes' = routes
      BY <1>5, <2>2 DEF RespondRequest
    <3>2. chan' \in [Devices -> Seq(Message)]
      BY <1>2, <3>1, TellTyped DEF Kinds
    <3> QED BY <1>3, <1>5, <3>1, <3>2 DEF RespondRequest, sessionVars
  <2> QED BY <2>1, <2>2
<1> QED BY <1>4, <1>5

LEMMA PipelinesTyped ==
  ASSUME TypeOK, NEW d \in Devices, NEW i \in DOMAIN routes[d],
         PipelineReady(d, i) \/ PipelineFails(d, i)
  PROVE  TypeOK'
<1> USE DEF TypeOK
<1>1. DOMAIN routes[d] = 1 .. Len(routes[d]) /\ Len(routes[d]) \in Nat
  BY LenProperties
<1>2. PICK r : r = routes[d][i]
  OBVIOUS
<1>3. r \in Route
  BY <1>1, <1>2, ElementOfSeq
<1>4. PICK j : j = FirstByKey(routes[d], r.id)
  OBVIOUS
<1>5. j \in 1 .. Len(routes[d])
  BY <1>1, <1>2, <1>4, FirstByKeyIs
<1>6. routes[d][j] \in Route /\ routes[d][j].flow \in Flows /\ r.id \in Ids
  <2>1. routes[d][j] \in Route
    BY <1>5, ElementOfSeq
  <2> QED BY <1>3, <2>1 DEF Route
<1>7. CASE PipelineFails(d, i)
  <2>1. Without(routes[d], j) \in Seq(Route)
    BY PartSeq DEF Without
  <2>2. PICK told \in Kinds : chan' = Tell(chan, d, told, r.id, routes[d][j].flow)
    BY <1>2, <1>4, <1>7 DEF PipelineFails, Kinds
  <2>3. chan' \in [Devices -> Seq(Message)]
    BY <1>6, <2>2, TellTyped
  <2>4. /\ timeouts' = timeouts + 1
        /\ routes' = [routes EXCEPT ![d] = Without(@, j)]
        /\ UNCHANGED <<saved, promptVars, userVars, sessionVars, next, losses, commands>>
    BY <1>2, <1>4, <1>7 DEF PipelineFails
  <2>5. timeouts' \in Nat
    BY <2>4
  <2> QED BY <2>1, <2>3, <2>4, <2>5 DEF promptVars, userVars, sessionVars
<1>8. CASE PipelineReady(d, i)
  <2>1. PICK up : up = [routes EXCEPT ![d][i].up = TRUE]
    OBVIOUS
  <2>2. up \in [Devices -> Seq(Route)] /\ Len(up[d]) = Len(routes[d])
    <3>1. [r EXCEPT !.up = TRUE] \in Route
      BY <1>3 DEF Route
    <3>2. up[d] = [routes[d] EXCEPT ![i] = [r EXCEPT !.up = TRUE]]
      BY <1>2, <2>1
    <3>3. up[d] \in Seq(Route) /\ Len(up[d]) = Len(routes[d])
      BY <1>1, <3>1, <3>2, ExceptSeq
    <3>4. up = [routes EXCEPT ![d] = up[d]]
      BY <2>1
    <3> QED BY <3>3, <3>4
  <2>3. [up EXCEPT ![d][j].st = "Active"] \in [Devices -> Seq(Route)]
    <3>1. up[d][j] \in Route
      BY <1>5, <2>2, ElementOfSeq
    <3>2. [up[d][j] EXCEPT !.st = "Active"] \in Route
      BY <3>1 DEF Route, Statuses
    <3>3. j \in 1 .. Len(up[d])
      BY <1>5, <2>2
    <3>4. [up[d] EXCEPT ![j] = [up[d][j] EXCEPT !.st = "Active"]] \in Seq(Route)
      BY <2>2, <3>2, <3>3, ExceptSeq
    <3>5. [up EXCEPT ![d][j].st = "Active"] = [up EXCEPT ![d] = [up[d] EXCEPT ![j] = [up[d][j] EXCEPT !.st = "Active"]]]
      OBVIOUS
    <3> QED BY <2>2, <3>4, <3>5
  <2>4. /\ routes' = [up EXCEPT ![d][j].st = "Active"] \/ routes' = up
        /\ chan' = Tell(chan, d, "Accept", r.id, routes[d][j].flow) \/ chan' = chan
        /\ saved' = [saved EXCEPT ![d] = Append(@, routes[d][j].flow)] \/ saved' = saved
        /\ UNCHANGED <<promptVars, userVars, sessionVars, next, losses, timeouts, commands>>
    BY <1>2, <1>4, <1>8, <2>1 DEF PipelineReady
  <2>5. routes' \in [Devices -> Seq(Route)]
    BY <2>2, <2>3, <2>4
  <2>6. chan' \in [Devices -> Seq(Message)]
    <3>1. "Accept" \in Kinds /\ at[d] \in Nat
      BY DEF Kinds
    <3>2. Tell(chan, d, "Accept", r.id, routes[d][j].flow) \in [Devices -> Seq(Message)]
      BY <1>6, <3>1, TellTyped
    <3> QED BY <2>4, <3>2
  <2>7. saved' \in [Devices -> Seq(Flows)]
    <3>1. Append(saved[d], routes[d][j].flow) \in Seq(Flows)
      BY <1>6, AppendProperties
    <3> QED BY <2>4, <3>1
  <2> QED BY <2>4, <2>5, <2>6, <2>7 DEF promptVars, userVars, sessionVars
<1> QED BY <1>7, <1>8

LEMMA StopsTyped ==
  ASSUME TypeOK, NEW d \in Devices,
         \/ \E i \in DOMAIN routes[d] : Expire(d, i) \/ StopRoute(d, i)
         \/ \E p \in InUse : SetPermission(d, p)
  PROVE  TypeOK'
<1> USE DEF TypeOK
<1>1. DOMAIN routes[d] = 1 .. Len(routes[d])
  BY LenProperties
<1>2. ASSUME NEW i \in DOMAIN routes[d]
      PROVE  <<routes[d][i]>> \in Seq(Route)
  BY <1>1, ElementOfSeq
<1>3. ASSUME NEW i \in DOMAIN routes[d], Expire(d, i)
      PROVE  TypeOK'
  <2>1. /\ routes' \in [Devices -> Seq(Route)] /\ saved' \in [Devices -> Seq(Flows)]
        /\ chan' \in [Devices -> Seq(Message)]
    BY <1>2, <1>3, StopAndTellTyped DEF Expire
  <2>2. timeouts' \in Nat
    <3>1. timeouts' = timeouts + 1
      BY <1>3 DEF Expire
    <3> QED BY <3>1
  <2> QED BY <1>3, <2>1, <2>2 DEF Expire, promptVars, userVars, sessionVars
<1>4. ASSUME NEW i \in DOMAIN routes[d], StopRoute(d, i)
      PROVE  TypeOK'
  <2>1. /\ routes' \in [Devices -> Seq(Route)] /\ saved' \in [Devices -> Seq(Flows)]
        /\ chan' \in [Devices -> Seq(Message)]
    BY <1>2, <1>4, StopAndTellTyped DEF StopRoute
  <2>2. commands' \in Nat
    BY <1>4 DEF StopRoute, Commanded
  <2> QED BY <1>4, <2>1, <2>2 DEF StopRoute, promptVars, userVars, sessionVars
<1>5. ASSUME NEW p \in InUse, SetPermission(d, p)
      PROVE  TypeOK'
  <2>1. PICK rs \in Seq(Route) : StopAndTell(d, rs)
    <3>1. UnderDenial(d) \in Seq(Route) /\ <<>> \in Seq(Route)
      BY PartSeq, EmptySeq DEF UnderDenial
    <3> QED BY <1>5, <3>1 DEF SetPermission
  <2>2. /\ routes' \in [Devices -> Seq(Route)] /\ saved' \in [Devices -> Seq(Flows)]
        /\ chan' \in [Devices -> Seq(Message)]
    BY <2>1, StopAndTellTyped
  <2>3. policy' \in [Devices -> {"Allow", "Ask", "Deny"}]
    BY <1>5, InUseAssumption DEF SetPermission
  <2>4. commands' \in Nat
    BY <1>5 DEF SetPermission, Commanded
  <2> QED BY <1>5, <2>2, <2>3, <2>4 DEF SetPermission, promptVars, sessionVars
<1> QED BY <1>3, <1>4, <1>5

LEMMA SessionsTyped ==
  ASSUME TypeOK, NEW d \in Devices,
         OnClosed(d) \/ Disconnect(d) \/ Reconnect(d) \/ Crash(d) \/ ResumptionAges(d)
  PROVE  TypeOK'
<1> USE DEF TypeOK
<1>1. \A K : Part(chan[d], K) \in Seq(Message)
  BY PartSeq
<1>2. <<>> \in Seq(Route) /\ <<>> \in Seq(Message) /\ <<>> \in Seq([id: Ids, flow: Flows])
  BY EmptySeq
<1>3. ASSUME Leave(d)
      PROVE  /\ at' \in [Devices -> Nat] /\ resumed' \in [Devices -> BOOLEAN]
             /\ chan' \in [Devices -> Seq(Message)]
  BY <1>1, <1>3 DEF Leave
<1>4. CASE OnClosed(d)
  <2>1. Leave(d) /\ losses' \in Nat
    BY <1>4 DEF OnClosed
  <2>2. Pause(routes[d]) \in Seq(Route)
    BY PauseTyped
  <2>3. routes' \in [Devices -> Seq(Route)]
    BY <1>2, <1>4, <2>2 DEF OnClosed
  <2> QED BY <1>3, <1>4, <2>1, <2>3 DEF OnClosed, promptVars, userVars
<1>5. CASE Disconnect(d)
  <2>1. Leave(d) /\ left' \subseteq Nat /\ routes' \in [Devices -> Seq(Route)]
    BY <1>2, <1>5 DEF Disconnect
  <2>2. commands' \in Nat
    BY <1>5 DEF Disconnect, Commanded
  <2> QED BY <1>3, <1>5, <2>1, <2>2 DEF Disconnect, promptVars, userVars
<1>6. CASE Reconnect(d)
  <2>1. gen' \in Nat \ {0} /\ losses' \in Nat
    BY <1>6 DEF Reconnect
  <2> QED BY <1>6, <2>1 DEF Reconnect, promptVars, userVars
<1>7. CASE Crash(d)
  <2>1. losses' \in Nat /\ starts' \in [Devices -> Nat]
    BY <1>7 DEF Crash
  <2> QED BY <1>2, <1>7, <2>1 DEF Crash, userVars
<1>8. CASE ResumptionAges(d)
  BY <1>8 DEF ResumptionAges, promptVars, userVars
<1> QED BY <1>4, <1>5, <1>6, <1>7, <1>8

LEMMA StartTyped ==
  ASSUME TypeOK, NEW d \in Devices, NEW f \in Flows,
         StartRoute(d, f) \/ CapabilityChanges(d, f)
  PROVE  TypeOK'
<1> USE DEF TypeOK
<1>1. CASE StartRoute(d, f)
  <2>1. NewRoute(next[d], f, "Requesting", TRUE) \in Route /\ After(next[d]) \in Ids
    BY NewRouteTyped, AfterTyped DEF Statuses
  <2>2. Append(routes[d], NewRoute(next[d], f, "Requesting", TRUE)) \in Seq(Route)
    BY <2>1, AppendProperties
  <2>3. chan' \in [Devices -> Seq(Message)]
    BY <1>1, TellTyped DEF StartRoute, Kinds
  <2>4. commands' \in Nat
    BY <1>1 DEF StartRoute, Commanded
  <2> QED BY <1>1, <2>1, <2>2, <2>3, <2>4 DEF StartRoute, promptVars, userVars, sessionVars
<1>2. CASE CapabilityChanges(d, f)
  <2>1. commands' \in Nat
    BY <1>2 DEF CapabilityChanges, Commanded
  <2> QED BY <1>2, <2>1 DEF CapabilityChanges, promptVars, sessionVars
<1> QED BY <1>1, <1>2

LEMMA InitTyped == Init => TypeOK
<1>1. \A S : <<>> \in Seq(S)
  BY EmptySeq
<1>2. A \in Devices /\ 1 \in Ids
  BY IdsFacts DEF Devices
<1> SUFFICES ASSUME Init PROVE TypeOK
  OBVIOUS
<1>3. gen \in Nat \ {0} /\ losses \in Nat /\ timeouts \in Nat /\ commands \in Nat
  BY DEF Init
<1>4. policy \in [Devices -> {"Allow", "Ask", "Deny"}]
  BY InUseAssumption DEF Init
<1> QED BY <1>1, <1>2, <1>3, <1>4 DEF Init, TypeOK

LEMMA NextTyped == TypeOK /\ [Next]_vars => TypeOK'
<1> SUFFICES ASSUME TypeOK, [Next]_vars PROVE TypeOK'
  OBVIOUS
<1>1. CASE UNCHANGED vars
  BY <1>1 DEF vars, TypeOK
<1>2. ASSUME NEW d \in Devices,
             \/ Receive(d) \/ Answer(d) \/ Pipelines(d) \/ Timeout(d)
             \/ UserStep(d) \/ SessionStep(d)
      PROVE  TypeOK'
  <2>1. CASE Receive(d)
    BY <2>1, ReceiveTyped
  <2>2. CASE Answer(d)
    BY <2>2, PromptsTyped DEF Answer
  <2>3. CASE Pipelines(d)
    BY <2>3, PipelinesTyped DEF Pipelines
  <2>4. CASE Timeout(d)
    BY <2>4, PipelinesTyped, StopsTyped, PromptsTyped DEF Timeout
  <2>5. CASE UserStep(d)
    BY <2>5, StartTyped, StopsTyped, SessionsTyped DEF UserStep
  <2>6. CASE SessionStep(d)
    BY <2>6, PromoteTyped, SessionsTyped DEF SessionStep
  <2> QED BY <1>2, <2>1, <2>2, <2>3, <2>4, <2>5, <2>6
<1> QED BY <1>1, <1>2 DEF Next

\* The routes, prompts and messages of the two devices have their types.
THEOREM RoutesTyped == Spec => []TypeOK
<1>1. Init => TypeOK
  BY InitTyped
<1>2. TypeOK /\ [Next]_vars => TypeOK'
  BY NextTyped
<1> QED BY <1>1, <1>2, PTL DEF Spec

----------------------------------------------------------------------------
(* Under denial. *)

\* Only what this device asked for is being asked for, and what its peer asked
\* for is the first of its key.
Ordered(rs) ==
  /\ \A j \in 1 .. Len(rs) : rs[j].st = "Requesting" => rs[j].mine
  /\ \A i, j \in 1 .. Len(rs) : i < j /\ ~rs[j].mine => rs[i].id # rs[j].id

OwnOnly(rs) == \A j \in 1 .. Len(rs) : rs[j].mine

\* Operators on lists of routes keep them in that order.
LEMMA PartOrdered ==
  ASSUME NEW s \in Seq(Route), Ordered(s), NEW K
  PROVE  /\ Ordered(Part(s, K))
         /\ OwnOnly(s) => OwnOnly(Part(s, K))
<1>1. PICK t : t = Part(s, K)
  OBVIOUS
<1>2. PICK h : PartBy(t, s, K, h)
  BY <1>1, PartIs
<1>3. \A k \in 1 .. Len(t) : h[k] \in 1 .. Len(s) /\ t[k] = s[h[k]]
  BY <1>2 DEF PartBy
<1>4. \A k, l \in 1 .. Len(t) : k < l => h[k] < h[l]
  BY <1>2 DEF PartBy
<1>5. Ordered(t)
  <2>1. \A j \in 1 .. Len(t) : t[j].st = "Requesting" => t[j].mine
    BY <1>3 DEF Ordered
  <2>2. ASSUME NEW i \in 1 .. Len(t), NEW j \in 1 .. Len(t), i < j, ~t[j].mine
        PROVE  t[i].id # t[j].id
    <3>1. h[i] \in 1 .. Len(s) /\ h[j] \in 1 .. Len(s) /\ h[i] < h[j]
      BY <1>3, <1>4, <2>2
    <3>2. t[i] = s[h[i]] /\ t[j] = s[h[j]]
      BY <1>3
    <3> QED BY <2>2, <3>1, <3>2 DEF Ordered
  <2> QED BY <2>1, <2>2 DEF Ordered
<1>6. OwnOnly(s) => OwnOnly(t)
  BY <1>3 DEF OwnOnly
<1> QED BY <1>1, <1>5, <1>6

LEMMA EmptyOrdered == Ordered(<<>>) /\ OwnOnly(<<>>)
<1>1. Len(<<>>) = 0
  OBVIOUS
<1> QED BY <1>1 DEF Ordered, OwnOnly

\* A route this device asked for may be put at the end, and one that its peer
\* asked for if its id is not in use.
LEMMA AppendOrdered ==
  ASSUME NEW s \in Seq(Route), Ordered(s), NEW r \in Route,
         r.mine \/ (r.st # "Requesting" /\ \A k \in 1 .. Len(s) : s[k].id # r.id)
  PROVE  /\ Ordered(Append(s, r))
         /\ OwnOnly(s) /\ r.mine => OwnOnly(Append(s, r))
<1>1. PICK t : t = Append(s, r)
  OBVIOUS
<1>2. /\ Len(s) \in Nat /\ Len(t) = Len(s) + 1
      /\ \A k \in 1 .. Len(s) : t[k] = s[k] /\ t[Len(s) + 1] = r
  BY <1>1, AppendProperties, LenProperties
<1>3. t[Len(s) + 1] = r
  BY <1>1, AppendProperties, LenProperties
<1>4. \A k \in 1 .. Len(t) : k = Len(s) + 1 \/ k \in 1 .. Len(s)
  BY <1>2
<1>5. \A j \in 1 .. Len(t) : t[j].st = "Requesting" => t[j].mine
  BY <1>2, <1>3, <1>4 DEF Ordered
<1>6. ASSUME NEW i \in 1 .. Len(t), NEW j \in 1 .. Len(t), i < j, ~t[j].mine
      PROVE  t[i].id # t[j].id
  <2>1. i \in 1 .. Len(s)
    BY <1>2, <1>6
  <2>2. CASE j = Len(s) + 1
    BY <1>2, <1>3, <1>6, <2>1, <2>2
  <2>3. CASE j \in 1 .. Len(s)
    BY <1>2, <1>6, <2>1, <2>3 DEF Ordered
  <2> QED BY <1>4, <2>2, <2>3
<1>7. OwnOnly(s) /\ r.mine => OwnOnly(t)
  BY <1>2, <1>3, <1>4 DEF OwnOnly
<1> QED BY <1>1, <1>5, <1>6, <1>7 DEF Ordered

\* Order is about ids and who asked.
LEMMA AlikeOrdered ==
  ASSUME NEW s \in Seq(Route), Ordered(s), NEW t, Len(t) = Len(s),
         \A k \in 1 .. Len(s) : /\ t[k].id = s[k].id /\ t[k].mine = s[k].mine
                                /\ t[k].st = "Requesting" => s[k].st = "Requesting"
  PROVE  /\ Ordered(t)
         /\ OwnOnly(s) => OwnOnly(t)
BY DEF Ordered, OwnOnly

LEMMA AcceptOrdered ==
  ASSUME routes \in [Devices -> Seq(Route)], NEW d \in Devices, Ordered(routes[d]),
         NEW i \in Ids, NEW f \in Flows, AcceptRoute(d, i, f)
  PROVE  Ordered(routes'[d])
<1>1. PICK K : routes' = [routes EXCEPT ![d] =
               IF FirstByKey(Part(routes[d], K), i) # 0 \/ at[d] = 0 THEN Part(routes[d], K)
               ELSE Append(Part(routes[d], K), NewRoute(i, f, "Starting", FALSE))]
  BY DEF AcceptRoute
<1>2. PICK kept : kept = Part(routes[d], K)
  OBVIOUS
<1>3. kept \in Seq(Route) /\ Ordered(kept)
  BY <1>2, PartSeq, PartOrdered
<1>4. PICK r : r = NewRoute(i, f, "Starting", FALSE)
  OBVIOUS
<1>5. r \in Route /\ r.id = i /\ r.st = "Starting"
  <2>1. r \in Route
    BY <1>4, NewRouteTyped DEF Statuses
  <2> QED BY <1>4, <2>1 DEF NewRoute
<1>6. CASE FirstByKey(kept, i) = 0
  <2>1. \A k \in 1 .. Len(kept) : kept[k].id # r.id
    BY <1>3, <1>5, <1>6, FirstByKeyIs
  <2>2. Ordered(Append(kept, r))
    BY <1>3, <1>5, <2>1, AppendOrdered
  <2> QED BY <1>1, <1>2, <1>3, <1>4, <2>2
<1>7. CASE FirstByKey(kept, i) # 0
  BY <1>1, <1>2, <1>3, <1>7
<1> QED BY <1>6, <1>7

\* Stopping routes one after the other keeps the order; if what the peer asked
\* for is among them, nothing of it is left.
LEMMA StoppedEachOrdered ==
  ASSUME NEW x \in Lists, Ordered(x.routes), NEW rs, Len(rs) \in Nat
  PROVE  /\ Ordered(StoppedEach(x, rs).routes)
         /\ OwnOnly(x.routes) => OwnOnly(StoppedEach(x, rs).routes)
         /\ (\A j \in 1 .. Len(x.routes) : x.routes[j].mine \/
               \E l \in 1 .. Len(rs) : rs[l].id = x.routes[j].id)
            => OwnOnly(StoppedEach(x, rs).routes)
<1>1. PICK h \in [0 .. Len(rs) -> Lists] :
           /\ h[0] = x
           /\ \A k \in 1 .. Len(rs) : h[k] = Stopped(h[k - 1], rs[k].id)
           /\ StoppedEach(x, rs) = h[Len(rs)]
  BY StoppedEachSteps
<1> DEFINE Left(k) == \A j \in 1 .. Len(h[k].routes) :
                        h[k].routes[j].mine \/
                        \E l \in k + 1 .. Len(rs) : rs[l].id = h[k].routes[j].id
           Done == {k \in 0 .. Len(rs) : /\ Ordered(h[k].routes)
                                         /\ OwnOnly(x.routes) => OwnOnly(h[k].routes)
                                         /\ Left(0) => Left(k)}
<1>2. 0 \in Done
  BY <1>1
<1>3. ASSUME NEW k \in 0 .. Len(rs) - 1, k \in Done
      PROVE  k + 1 \in Done
  <2>1. k + 1 \in 1 .. Len(rs) /\ (k + 1) - 1 = k /\ k \in 0 .. Len(rs) /\ k + 1 \in 0 .. Len(rs)
    OBVIOUS
  <2>2. PICK s \in Seq(Route) : s = h[k].routes
    BY <1>1, <2>1 DEF Lists
  <2>3. h[k + 1] = Stopped(h[k], rs[k + 1].id)
    BY <1>1, <2>1
  <2>4. Ordered(s) /\ (OwnOnly(x.routes) => OwnOnly(s)) /\ (Left(0) => Left(k))
    BY <1>3, <2>2
  <2>5. PICK i : i = rs[k + 1].id
    OBVIOUS
  <2>6. PICK f : f = FirstByKey(s, i)
    OBVIOUS
  <2>7. /\ f \in 0 .. Len(s)
        /\ f = 0 => \A j \in 1 .. Len(s) : s[j].id # i
        /\ f # 0 => /\ f \in 1 .. Len(s) /\ s[f].id = i
                    /\ \A j \in 1 .. Len(s) : s[j].id = i => f <= j
    BY <2>6, FirstByKeyIs
  <2>8. Len(s) \in Nat
    BY LenProperties
  <2>9. ASSUME NEW l \in k + 1 .. Len(rs), l # k + 1
        PROVE  l \in (k + 1) + 1 .. Len(rs)
    BY <2>9
  <2>10. CASE f = 0
    <3>1. h[k + 1].routes = s
      BY <2>2, <2>3, <2>5, <2>6, <2>10 DEF Stopped
    <3>2. Left(k) => Left(k + 1)
      <4> SUFFICES ASSUME Left(k), NEW j \in 1 .. Len(s), ~s[j].mine
                   PROVE  \E l \in (k + 1) + 1 .. Len(rs) : rs[l].id = s[j].id
        BY <3>1
      <4>1. PICK l \in k + 1 .. Len(rs) : rs[l].id = s[j].id
        BY <2>2
      <4>2. l # k + 1
        BY <2>5, <2>7, <2>10, <4>1
      <4> QED BY <2>9, <4>1, <4>2
    <3> HIDE DEF Left
    <3> QED BY <2>1, <2>4, <3>1, <3>2
  <2>11. CASE f # 0
    <3>1. PICK K : K = DOMAIN s \ {f}
      OBVIOUS
    <3>2. PICK t : t = Part(s, K)
      OBVIOUS
    <3>3. h[k + 1].routes = t
      BY <2>2, <2>3, <2>5, <2>6, <2>11, <3>1, <3>2 DEF Stopped, Without
    <3>4. Ordered(t) /\ (OwnOnly(s) => OwnOnly(t))
      BY <2>4, <3>2, PartOrdered
    <3>5. PICK g : PartBy(t, s, K, g)
      BY <3>2, PartIs
    <3>6. \A j \in 1 .. Len(t) : g[j] \in 1 .. Len(s) /\ t[j] = s[g[j]] /\ g[j] # f
      BY <3>1, <3>5 DEF PartBy
    <3>7. Left(k) => Left(k + 1)
      <4> SUFFICES ASSUME Left(k), NEW j \in 1 .. Len(t), ~t[j].mine
                   PROVE  \E l \in (k + 1) + 1 .. Len(rs) : rs[l].id = t[j].id
        BY <3>3
      <4>1. g[j] \in 1 .. Len(s) /\ t[j] = s[g[j]] /\ g[j] # f
        BY <3>6
      <4>2. PICK l \in k + 1 .. Len(rs) : rs[l].id = s[g[j]].id
        BY <2>2, <4>1
      <4>3. l # k + 1
        <5> SUFFICES ASSUME l = k + 1 PROVE FALSE
          OBVIOUS
        <5>1. s[g[j]].id = i /\ f < g[j]
          BY <2>5, <2>7, <2>8, <2>11, <4>1, <4>2
        <5> QED BY <2>4, <2>7, <2>11, <4>1, <5>1 DEF Ordered
      <4> QED BY <2>9, <4>1, <4>2, <4>3
    <3> HIDE DEF Left
    <3> QED BY <2>1, <2>4, <3>3, <3>4, <3>7
  <2> QED BY <2>10, <2>11
<1> HIDE DEF Done
<1>4. \A k \in 0 .. Len(rs) : k \in Done
  BY <1>2, <1>3, Upwards
<1>5. Len(rs) \in Done
  BY <1>4
<1>6. /\ Ordered(h[Len(rs)].routes)
      /\ OwnOnly(x.routes) => OwnOnly(h[Len(rs)].routes)
      /\ Left(0) => Left(Len(rs))
  BY <1>5 DEF Done
<1>7. Left(Len(rs)) => OwnOnly(h[Len(rs)].routes)
  <2>1. \A l \in Len(rs) + 1 .. Len(rs) : FALSE
    OBVIOUS
  <2> QED BY <2>1 DEF OwnOnly
<1>8. (\A j \in 1 .. Len(x.routes) : x.routes[j].mine \/
               \E l \in 1 .. Len(rs) : rs[l].id = x.routes[j].id) => Left(0)
  BY <1>1
<1> HIDE DEF Left
<1> QED BY <1>1, <1>6, <1>7, <1>8

DenialAt(d) ==
  /\ Ordered(routes[d])
  /\ ~prompted => /\ prompts[d] = <<>>
                  /\ policy[d] = "Deny" => OwnOnly(routes[d])

Denial == \A d \in Devices : DenialAt(d)

\* Only the lists of d change.
OnlyAt(d) ==
  /\ prompted => prompted'
  /\ \A e \in Devices \ {d} : /\ routes'[e] = routes[e] /\ prompts'[e] = prompts[e]
                              /\ policy'[e] = policy[e]

\* The steps of a device leave nothing under denial.
LEMMA DenialReceive ==
  ASSUME TypeOK, NEW d \in Devices, DenialAt(d), Receive(d)
  PROVE  DenialAt(d)' /\ OnlyAt(d)
<1>1. PICK m : m = Head(chan[d])
  OBVIOUS
<1>2. PICK ch : ch = [chan EXCEPT ![d] = Tail(@)]
  OBVIOUS
<1>3. /\ policy' = policy
      /\ \/ m.type = "Request" /\ OnRequest(d, m, ch)
         \/ OnAccept(d, m, ch) /\ UNCHANGED promptVars
         \/ OnReject(d, m, ch) /\ UNCHANGED promptVars
         \/ OnStop(d, m, ch) /\ UNCHANGED promptVars
  BY <1>1, <1>2 DEF Receive, userVars
<1>4. m \in Message /\ m.id \in Ids /\ m.flow \in Flows
  <2>1. chan[d] \in Seq(Message) /\ chan[d] # <<>>
    BY DEF Receive, TypeOK
  <2>2. m \in Message
    BY <1>1, <2>1, HeadTailProperties
  <2> QED BY <2>2 DEF Message
<1>5. routes \in [Devices -> Seq(Route)] /\ prompts \in [Devices -> Seq([id: Ids, flow: Flows])]
  BY DEF TypeOK
<1>6. CASE OnRequest(d, m, ch)
  <2>1. CASE UNCHANGED <<routes, promptVars>>
    BY <1>3, <2>1 DEF DenialAt, OnlyAt, promptVars
  <2>2. CASE policy[d] # "Deny" /\ AcceptRoute(d, m.id, m.flow) /\ UNCHANGED promptVars
    <3>1. Ordered(routes'[d])
      BY <1>4, <1>5, <2>2, AcceptOrdered DEF DenialAt
    <3>2. \A e \in Devices \ {d} : routes'[e] = routes[e]
      BY <1>5, <2>2 DEF AcceptRoute
    <3> QED BY <1>3, <2>2, <3>1, <3>2 DEF DenialAt, OnlyAt, promptVars
  <2>3. CASE /\ prompted' = TRUE /\ UNCHANGED routes
             /\ prompts' = [prompts EXCEPT ![d] = Append(@, [id |-> m.id, flow |-> m.flow])]
    BY <1>3, <1>5, <2>3 DEF DenialAt, OnlyAt
  <2> QED BY <1>6, <2>1, <2>2, <2>3 DEF OnRequest
<1>7. CASE OnAccept(d, m, ch) /\ UNCHANGED promptVars
  <2> DEFINE K == {k \in DOMAIN routes[d] : /\ routes[d][k].id = m.id
                                            /\ routes[d][k].st = "Requesting"}
  <2>1. PICK i : i = First(K)
    OBVIOUS
  <2>2. routes' = IF i = 0 THEN routes
                  ELSE [routes EXCEPT ![d] =
                       Append(Without(@, i), [@[i] EXCEPT !.st = "Starting"])]
    BY <1>7, <2>1 DEF OnAccept
  <2>3. CASE i # 0
    <3>1. DOMAIN routes[d] = 1 .. Len(routes[d]) /\ Len(routes[d]) \in Nat
      BY <1>5, LenProperties
    <3>2. i \in K
      <4>1. K \in SUBSET (Nat \ {0})
        BY <3>1
      <4> HIDE DEF K
      <4> QED BY <2>1, <2>3, <4>1, FirstIs
    <3>3. PICK q \in Route : q = routes[d][i] /\ q.mine
      BY <1>5, <3>1, <3>2, ElementOfSeq DEF DenialAt, Ordered
    <3>4. PICK r : r = [q EXCEPT !.st = "Starting"]
      OBVIOUS
    <3>5. r \in Route /\ r.mine
      BY <3>3, <3>4 DEF Route, Statuses
    <3>6. PICK s : s = Without(routes[d], i)
      OBVIOUS
    <3>7. s \in Seq(Route) /\ Ordered(s) /\ (OwnOnly(routes[d]) => OwnOnly(s))
      BY <1>5, <3>6, PartSeq, PartOrdered DEF Without, DenialAt
    <3>8. Ordered(Append(s, r)) /\ (OwnOnly(s) => OwnOnly(Append(s, r)))
      BY <3>5, <3>7, AppendOrdered
    <3>9. routes' = [routes EXCEPT ![d] = Append(s, r)]
      BY <2>2, <2>3, <3>3, <3>4, <3>6
    <3> QED BY <1>3, <1>5, <1>7, <3>7, <3>8, <3>9 DEF DenialAt, OnlyAt, promptVars
  <2>4. CASE i = 0
    BY <1>3, <1>7, <2>2, <2>4 DEF DenialAt, OnlyAt, promptVars
  <2> QED BY <2>3, <2>4
<1>8. CASE OnReject(d, m, ch) /\ UNCHANGED promptVars
  <2>1. PICK s : s = WithoutKey(routes[d], m.id)
    OBVIOUS
  <2>2. Ordered(s) /\ (OwnOnly(routes[d]) => OwnOnly(s))
    BY <1>5, <2>1, PartOrdered DEF WithoutKey, Without, DenialAt
  <2>3. routes' = [routes EXCEPT ![d] = s]
    BY <1>8, <2>1 DEF OnReject
  <2> QED BY <1>3, <1>5, <1>8, <2>2, <2>3 DEF DenialAt, OnlyAt, promptVars
<1>9. CASE OnStop(d, m, ch) /\ UNCHANGED promptVars
  <2>1. PICK x : x = [routes |-> routes[d], saved |-> saved[d]]
    OBVIOUS
  <2>2. x \in Lists /\ x.routes = routes[d]
    BY <2>1 DEF Lists, TypeOK
  <2>3. PICK s : s = StoppedEach(x, <<m>>).routes
    OBVIOUS
  <2>4. Len(<<m>>) \in Nat
    OBVIOUS
  <2>5. Ordered(s) /\ (OwnOnly(routes[d]) => OwnOnly(s))
    BY <2>2, <2>3, <2>4, StoppedEachOrdered DEF DenialAt
  <2>6. routes' = [routes EXCEPT ![d] = s]
    BY <1>9, <2>1, <2>3 DEF OnStop, StopEach
  <2> QED BY <1>3, <1>5, <1>9, <2>5, <2>6 DEF DenialAt, OnlyAt, promptVars
<1> QED BY <1>3, <1>6, <1>7, <1>8, <1>9

LEMMA DenialAnswer ==
  ASSUME TypeOK, NEW d \in Devices, DenialAt(d), NEW i \in DOMAIN prompts[d],
         \/ \E accept, remember \in BOOLEAN : RespondRequest(d, i, accept, remember)
         \/ PromptExpires(d, i)
  PROVE  DenialAt(d)' /\ OnlyAt(d)
<1>1. prompted
  <2>1. prompts[d] # <<>>
    OBVIOUS
  <2> QED BY <2>1 DEF DenialAt
<1>2. routes \in [Devices -> Seq(Route)] /\ prompts \in [Devices -> Seq([id: Ids, flow: Flows])]
      /\ policy \in [Devices -> {"Allow", "Ask", "Deny"}]
  BY DEF TypeOK
<1>3. prompts[d][i].id \in Ids /\ prompts[d][i].flow \in Flows
  <2>1. DOMAIN prompts[d] = 1 .. Len(prompts[d])
    BY <1>2, LenProperties
  <2>2. prompts[d][i] \in [id: Ids, flow: Flows]
    BY <1>2, <2>1, ElementOfSeq
  <2> QED BY <2>2
<1>4. /\ prompted' = prompted
      /\ prompts' = [prompts EXCEPT ![d] = Without(@, i)]
      /\ \A e \in Devices \ {d} : policy'[e] = policy[e]
      /\ AcceptRoute(d, prompts[d][i].id, prompts[d][i].flow) \/ routes' = routes
  BY <1>2 DEF RespondRequest, PromptExpires, userVars
<1>5. Ordered(routes'[d]) /\ \A e \in Devices \ {d} : routes'[e] = routes[e]
  <2>1. CASE AcceptRoute(d, prompts[d][i].id, prompts[d][i].flow)
    <3>1. Ordered(routes'[d])
      BY <1>2, <1>3, <2>1, AcceptOrdered DEF DenialAt
    <3>2. \A e \in Devices \ {d} : routes'[e] = routes[e]
      BY <1>2, <2>1 DEF AcceptRoute
    <3> QED BY <3>1, <3>2
  <2>2. CASE routes' = routes
    BY <2>2 DEF DenialAt
  <2> QED BY <1>4, <2>1, <2>2
<1> QED BY <1>1, <1>2, <1>4, <1>5 DEF DenialAt, OnlyAt

LEMMA DenialPipelines ==
  ASSUME TypeOK, NEW d \in Devices, DenialAt(d), NEW i \in DOMAIN routes[d],
         PipelineReady(d, i) \/ PipelineFails(d, i)
  PROVE  DenialAt(d)' /\ OnlyAt(d)
<1>1. routes \in [Devices -> Seq(Route)] /\ prompts \in [Devices -> Seq([id: Ids, flow: Flows])]
  BY DEF TypeOK
<1>2. routes[d] \in Seq(Route) /\ DOMAIN routes[d] = 1 .. Len(routes[d]) /\ Len(routes[d]) \in Nat
  BY <1>1, LenProperties
<1>3. UNCHANGED <<promptVars, userVars>>
  BY DEF PipelineReady, PipelineFails
<1>4. CASE PipelineFails(d, i)
  <2>1. PICK j : routes' = [routes EXCEPT ![d] = Without(@, j)]
    BY <1>4 DEF PipelineFails
  <2>2. PICK s : s = Without(routes[d], j)
    OBVIOUS
  <2>3. Ordered(s) /\ (OwnOnly(routes[d]) => OwnOnly(s))
    BY <1>2, <2>2, PartOrdered DEF Without, DenialAt
  <2> QED BY <1>1, <1>3, <2>1, <2>2, <2>3 DEF DenialAt, OnlyAt, promptVars, userVars
<1>5. CASE PipelineReady(d, i)
  <2>1. PICK j : j = FirstByKey(routes[d], routes[d][i].id)
    OBVIOUS
  <2>2. j \in 1 .. Len(routes[d])
    BY <1>2, <2>1, FirstByKeyIs
  <2>3. PICK up : up = [routes EXCEPT ![d][i].up = TRUE]
    OBVIOUS
  <2>4. routes' = [up EXCEPT ![d][j].st = "Active"] \/ routes' = up
    BY <1>5, <2>1, <2>3 DEF PipelineReady
  <2>5. \A k \in 1 .. Len(routes[d]) : routes[d][k] \in Route
    BY <1>2, ElementOfSeq
  <2>6. PICK u : u = up[d]
    OBVIOUS
  <2>7. /\ u = [routes[d] EXCEPT ![i] = [routes[d][i] EXCEPT !.up = TRUE]]
        /\ up = [routes EXCEPT ![d] = u]
    BY <1>1, <2>3, <2>6
  <2>8. \A k \in 1 .. Len(routes[d]) :
          u[k].id = routes[d][k].id /\ u[k].mine = routes[d][k].mine /\ u[k].st = routes[d][k].st
    BY <1>2, <2>5, <2>7 DEF Route
  <2>9. u \in Seq(Route) /\ Len(u) = Len(routes[d])
    <3>1. [routes[d][i] EXCEPT !.up = TRUE] \in Route
      BY <1>2, <2>5 DEF Route
    <3> QED BY <1>2, <2>7, <3>1, ExceptSeq
  <2>10. PICK w : w = [u EXCEPT ![j] = [u[j] EXCEPT !.st = "Active"]]
    OBVIOUS
  <2>11. \A k \in 1 .. Len(u) : u[k] \in Route
    BY <2>9, ElementOfSeq
  <2>12. /\ \A k \in 1 .. Len(u) : w[k].id = u[k].id /\ w[k].mine = u[k].mine
                                   /\ (w[k].st = u[k].st \/ w[k].st = "Active")
         /\ Len(w) = Len(u)
    <3>1. [u[j] EXCEPT !.st = "Active"] \in Route
      BY <2>2, <2>9, <2>11 DEF Route, Statuses
    <3>2. Len(w) = Len(u)
      BY <2>2, <2>9, <2>10, <3>1, ExceptSeq
    <3>3. DOMAIN u = 1 .. Len(u)
      BY <2>9, LenProperties
    <3> QED BY <2>2, <2>9, <2>10, <2>11, <3>2, <3>3 DEF Route
  <2>13. PICK t : /\ routes' = [routes EXCEPT ![d] = t] /\ Len(t) = Len(routes[d])
                  /\ \A k \in 1 .. Len(t) : t[k].id = routes[d][k].id
                       /\ t[k].mine = routes[d][k].mine
                       /\ (t[k].st = "Requesting" => routes[d][k].st = "Requesting")
    <3>1. CASE routes' = up
      <4>1. routes' = [routes EXCEPT ![d] = u]
        BY <2>7, <3>1
      <4>2. \A k \in 1 .. Len(u) : u[k].id = routes[d][k].id
                       /\ u[k].mine = routes[d][k].mine
                       /\ (u[k].st = "Requesting" => routes[d][k].st = "Requesting")
        BY <2>8, <2>9
      <4> QED BY <2>9, <4>1, <4>2
    <3>2. CASE routes' = [up EXCEPT ![d][j].st = "Active"]
      <4>1. routes' = [routes EXCEPT ![d] = w]
        BY <1>1, <2>7, <2>10, <3>2
      <4>2. \A k \in 1 .. Len(w) : w[k].id = routes[d][k].id
                       /\ w[k].mine = routes[d][k].mine
                       /\ (w[k].st = "Requesting" => routes[d][k].st = "Requesting")
        BY <2>8, <2>9, <2>12
      <4>3. Len(w) = Len(routes[d])
        BY <2>9, <2>12
      <4> QED BY <4>1, <4>2, <4>3
    <3> QED BY <2>4, <3>1, <3>2
  <2>14. Ordered(t) /\ (OwnOnly(routes[d]) => OwnOnly(t))
    BY <1>2, <2>13, AlikeOrdered DEF DenialAt
  <2> QED BY <1>1, <1>3, <2>13, <2>14 DEF DenialAt, OnlyAt, promptVars, userVars
<1> QED BY <1>4, <1>5

LEMMA DenialStops ==
  ASSUME TypeOK, NEW d \in Devices, DenialAt(d),
         \/ \E i \in DOMAIN routes[d] : Expire(d, i) \/ StopRoute(d, i)
         \/ \E p \in InUse : SetPermission(d, p)
  PROVE  DenialAt(d)' /\ OnlyAt(d)
<1>1. routes \in [Devices -> Seq(Route)] /\ policy \in [Devices -> {"Allow", "Ask", "Deny"}]
      /\ saved \in [Devices -> Seq(Flows)]
  BY DEF TypeOK
<1>2. PICK x : x = [routes |-> routes[d], saved |-> saved[d]]
  OBVIOUS
<1>3. x \in Lists /\ x.routes = routes[d]
  BY <1>1, <1>2 DEF Lists
<1>4. UNCHANGED promptVars /\ \A e \in Devices \ {d} : policy'[e] = policy[e]
  BY <1>1 DEF Expire, StopRoute, SetPermission, userVars
<1>5. PICK rs \in Seq(Route) :
        /\ StopAndTell(d, rs)
        /\ policy'[d] = "Deny" => policy[d] = "Deny" \/ rs = UnderDenial(d)
  <2>1. CASE \E i \in DOMAIN routes[d] : Expire(d, i) \/ StopRoute(d, i)
    <3>1. PICK i \in DOMAIN routes[d] : Expire(d, i) \/ StopRoute(d, i)
      BY <2>1
    <3>2. DOMAIN routes[d] = 1 .. Len(routes[d])
      BY <1>1, LenProperties
    <3>3. routes[d][i] \in Route
      BY <1>1, <3>2, ElementOfSeq
    <3>4. PICK r \in Route : r = routes[d][i]
      BY <3>3
    <3>5. StopAndTell(d, <<r>>) /\ policy' = policy
      BY <3>1, <3>4 DEF Expire, StopRoute, userVars
    <3>6. <<r>> \in Seq(Route)
      BY <3>4
    <3> QED BY <3>5, <3>6
  <2>2. CASE \E p \in InUse : SetPermission(d, p)
    <3>1. PICK p \in InUse : SetPermission(d, p)
      BY <2>2
    <3>2. UnderDenial(d) \in Seq(Route) /\ <<>> \in Seq(Route)
      BY <1>1, PartSeq, EmptySeq DEF UnderDenial
    <3>3. policy'[d] = p
      BY <1>1, <3>1 DEF SetPermission
    <3>4. StopAndTell(d, IF p = "Deny" THEN UnderDenial(d) ELSE <<>>)
      BY <3>1 DEF SetPermission
    <3> QED BY <3>2, <3>3, <3>4
  <2> QED BY <2>1, <2>2
<1>6. PICK s : s = StoppedEach(x, rs).routes
  OBVIOUS
<1>7. routes' = [routes EXCEPT ![d] = s]
  BY <1>2, <1>5, <1>6 DEF StopAndTell, StopEach
<1>8. Len(rs) \in Nat
  BY LenProperties
<1>9. /\ Ordered(s) /\ (OwnOnly(routes[d]) => OwnOnly(s))
      /\ (\A j \in 1 .. Len(routes[d]) : routes[d][j].mine \/
            \E l \in 1 .. Len(rs) : rs[l].id = routes[d][j].id) => OwnOnly(s)
  BY <1>3, <1>6, <1>8, StoppedEachOrdered DEF DenialAt
<1>10. rs = UnderDenial(d) => OwnOnly(s)
  <2> DEFINE K == {i \in DOMAIN routes[d] : ~routes[d][i].mine}
  <2> SUFFICES ASSUME rs = UnderDenial(d) PROVE OwnOnly(s)
    OBVIOUS
  <2>1. PICK h : PartBy(rs, routes[d], K, h)
    BY <1>1, PartIs DEF UnderDenial
  <2>2. DOMAIN routes[d] = 1 .. Len(routes[d])
    BY <1>1, LenProperties
  <2>3. ASSUME NEW j \in 1 .. Len(routes[d]), ~routes[d][j].mine
        PROVE  \E l \in 1 .. Len(rs) : rs[l].id = routes[d][j].id
    <3>1. j \in K
      BY <2>2, <2>3
    <3>2. PICK l \in 1 .. Len(rs) : h[l] = j
      BY <2>1, <3>1 DEF PartBy
    <3>3. rs[l] = routes[d][j]
      BY <2>1, <3>2 DEF PartBy
    <3> QED BY <3>3
  <2> QED BY <1>9, <2>3
<1> QED BY <1>1, <1>4, <1>5, <1>7, <1>9, <1>10 DEF DenialAt, OnlyAt, promptVars

LEMMA PauseOrdered ==
  ASSUME NEW rs \in Seq(Route), Ordered(rs)
  PROVE  Ordered(Pause(rs)) /\ (OwnOnly(rs) => OwnOnly(Pause(rs)))
<1> DEFINE K == {i \in DOMAIN rs : rs[i].st \in {"Active", "Paused"} \/ rs[i].mine}
<1>1. PICK kept : kept = Part(rs, K)
  OBVIOUS
<1>2. kept \in Seq(Route) /\ Ordered(kept) /\ (OwnOnly(rs) => OwnOnly(kept))
  BY <1>1, PartSeq, PartOrdered
<1>3. /\ DOMAIN kept = 1 .. Len(kept) /\ Len(kept) \in Nat
      /\ \A i \in 1 .. Len(kept) : kept[i] \in Route
  BY <1>2, LenProperties, ElementOfSeq
<1>4. PICK t : t = [i \in DOMAIN kept |-> [kept[i] EXCEPT !.st = "Paused", !.up = FALSE]]
  OBVIOUS
<1>5. Pause(rs) = t
  BY <1>1, <1>4 DEF Pause
<1>6. \A k \in 1 .. Len(kept) : /\ t[k].id = kept[k].id /\ t[k].mine = kept[k].mine
                                /\ t[k].st = "Paused"
  BY <1>3, <1>4 DEF Route
<1>7. Len(t) = Len(kept)
  <2>1. \A r \in Route : [r EXCEPT !.st = "Paused", !.up = FALSE] \in Route
    BY DEF Route, Statuses
  <2>2. t \in [1 .. Len(kept) -> Route]
    BY <1>3, <1>4, <2>1
  <2> QED BY <1>3, <2>2, FunSeq
<1>8. Ordered(t) /\ (OwnOnly(kept) => OwnOnly(t))
  BY <1>2, <1>6, <1>7, AlikeOrdered
<1> QED BY <1>2, <1>5, <1>8

LEMMA ConcatOrdered ==
  ASSUME NEW s \in Seq(Route), Ordered(s), NEW t \in Seq(Route), OwnOnly(t)
  PROVE  Ordered(s \o t) /\ (OwnOnly(s) => OwnOnly(s \o t))
<1>1. PICK w : w = s \o t
  OBVIOUS
<1>2. /\ Len(s) \in Nat /\ Len(t) \in Nat /\ Len(w) = Len(s) + Len(t)
      /\ \A k \in 1 .. Len(s) + Len(t) : w[k] = IF k <= Len(s) THEN s[k] ELSE t[k - Len(s)]
  BY <1>1, ConcatProperties, LenProperties
<1>3. ASSUME NEW k \in 1 .. Len(w)
      PROVE  (k \in 1 .. Len(s) /\ w[k] = s[k]) \/ w[k].mine
  <2>1. CASE k <= Len(s)
    BY <1>2, <2>1
  <2>2. CASE ~ (k <= Len(s))
    <3>1. k - Len(s) \in 1 .. Len(t) /\ w[k] = t[k - Len(s)]
      BY <1>2, <2>2
    <3> QED BY <3>1 DEF OwnOnly
  <2> QED BY <2>1, <2>2
<1>4. \A j \in 1 .. Len(w) : w[j].st = "Requesting" => w[j].mine
  BY <1>3 DEF Ordered
<1>5. ASSUME NEW i \in 1 .. Len(w), NEW j \in 1 .. Len(w), i < j, ~w[j].mine
      PROVE  w[i].id # w[j].id
  <2>1. j \in 1 .. Len(s) /\ w[j] = s[j]
    BY <1>3, <1>5
  <2>2. i \in 1 .. Len(s) /\ w[i] = s[i]
    BY <1>2, <1>5, <2>1
  <2> QED BY <1>5, <2>1, <2>2 DEF Ordered
<1>6. OwnOnly(s) => OwnOnly(w)
  BY <1>3 DEF OwnOnly
<1> QED BY <1>1, <1>4, <1>5, <1>6 DEF Ordered

LEMMA DenialPromote ==
  ASSUME TypeOK, NEW d \in Devices, DenialAt(d), NEW proved, Promote(d, proved)
  PROVE  DenialAt(d)' /\ OnlyAt(d)
<1>0. routes \in [Devices -> Seq(Route)] /\ saved \in [Devices -> Seq(Flows)]
  BY DEF TypeOK
<1>1. PICK rs : /\ rs = IF at[d] = 0 THEN routes[d] ELSE Pause(routes[d])
                /\ \E begun \in {Begun(d, Wanted(d, rs, Others(rs)))} :
                     routes' = [routes EXCEPT ![d] = Others(rs) \o begun]
  <2>1. PICK rs \in {IF at[d] = 0 THEN routes[d] ELSE Pause(routes[d])} :
          \E rest \in {Others(rs)} : \E wanted \in {Wanted(d, rs, rest)} :
          \E begun \in {Begun(d, wanted)} : routes' = [routes EXCEPT ![d] = rest \o begun]
    BY DEF Promote
  <2>2. \E begun \in {Begun(d, Wanted(d, rs, Others(rs)))} :
          routes' = [routes EXCEPT ![d] = Others(rs) \o begun]
    BY <2>1
  <2> QED BY <2>1, <2>2
<1>2. rs \in Seq(Route) /\ Ordered(rs) /\ (OwnOnly(routes[d]) => OwnOnly(rs))
  BY <1>0, <1>1, PauseTyped, PauseOrdered DEF DenialAt
<1>3. PICK rest : rest = Others(rs)
  OBVIOUS
<1>4. rest \in Seq(Route) /\ Ordered(rest) /\ (OwnOnly(rs) => OwnOnly(rest))
  BY <1>2, <1>3, PartSeq, PartOrdered DEF Others
<1>5. PICK wanted : wanted = Wanted(d, rs, rest)
  OBVIOUS
<1>6. wanted \in Seq(Route) /\ \A k \in DOMAIN wanted : wanted[k].mine
  BY <1>0, <1>2, <1>5, WantedTyped
<1>7. PICK begun : begun = Begun(d, wanted)
  OBVIOUS
<1>8. begun \in Seq(Route) /\ \A k \in DOMAIN begun : begun[k].mine
  BY <1>6, <1>7, BegunTyped
<1>9. OwnOnly(begun)
  BY <1>8, LenProperties DEF OwnOnly
<1>10. routes' = [routes EXCEPT ![d] = rest \o begun]
  BY <1>1, <1>3, <1>5, <1>7
<1>11. Ordered(rest \o begun) /\ (OwnOnly(rest) => OwnOnly(rest \o begun))
  BY <1>4, <1>8, <1>9, ConcatOrdered
<1>12. UNCHANGED <<promptVars, userVars>>
  BY DEF Promote
<1> QED BY <1>0, <1>2, <1>4, <1>10, <1>11, <1>12 DEF DenialAt, OnlyAt, promptVars, userVars

LEMMA DenialSessions ==
  ASSUME TypeOK, NEW d \in Devices, DenialAt(d),
         OnClosed(d) \/ Disconnect(d) \/ Reconnect(d) \/ Crash(d) \/ ResumptionAges(d)
  PROVE  DenialAt(d)' /\ OnlyAt(d)
<1>1. routes \in [Devices -> Seq(Route)] /\ prompts \in [Devices -> Seq([id: Ids, flow: Flows])]
  BY DEF TypeOK
<1>2. PICK s : /\ routes' = [routes EXCEPT ![d] = s]
               /\ s \in {<<>>, routes[d], Pause(routes[d])}
  BY <1>1 DEF OnClosed, Disconnect, Reconnect, Crash, ResumptionAges
<1>3. Ordered(s) /\ (OwnOnly(routes[d]) => OwnOnly(s))
  BY <1>1, <1>2, PauseOrdered, EmptyOrdered DEF DenialAt
<1>4. UNCHANGED userVars
  BY DEF OnClosed, Disconnect, Reconnect, Crash, ResumptionAges
<1>5. prompted' = prompted /\ (prompts' = prompts \/ prompts' = [prompts EXCEPT ![d] = <<>>])
  BY DEF OnClosed, Disconnect, Reconnect, Crash, ResumptionAges, promptVars
<1> QED BY <1>1, <1>2, <1>3, <1>4, <1>5 DEF DenialAt, OnlyAt, userVars

LEMMA DenialStart ==
  ASSUME TypeOK, NEW d \in Devices, DenialAt(d), NEW f \in Flows,
         StartRoute(d, f) \/ CapabilityChanges(d, f)
  PROVE  DenialAt(d)' /\ OnlyAt(d)
<1>1. routes \in [Devices -> Seq(Route)]
  BY DEF TypeOK
<1>2. CASE StartRoute(d, f)
  <2>1. PICK r : r = NewRoute(next[d], f, "Requesting", TRUE)
    OBVIOUS
  <2>2. r \in Route /\ r.mine
    <3>1. r \in Route
      BY <2>1, NewRouteTyped DEF Statuses, TypeOK
    <3> QED BY <2>1, <3>1 DEF NewRoute
  <2>3. PICK s : s = Append(routes[d], r)
    OBVIOUS
  <2>4. Ordered(s) /\ (OwnOnly(routes[d]) => OwnOnly(s))
    BY <1>1, <2>2, <2>3, AppendOrdered DEF DenialAt
  <2>5. routes' = [routes EXCEPT ![d] = s] /\ UNCHANGED <<promptVars, userVars>>
    BY <1>2, <2>1, <2>3 DEF StartRoute
  <2> QED BY <1>1, <2>4, <2>5 DEF DenialAt, OnlyAt, promptVars, userVars
<1>3. CASE CapabilityChanges(d, f)
  BY <1>3 DEF CapabilityChanges, DenialAt, OnlyAt, promptVars
<1> QED BY <1>2, <1>3

LEMMA DenialInit == Init => Denial
<1> SUFFICES ASSUME Init, NEW d \in Devices PROVE DenialAt(d)
  BY DEF Denial
<1>1. routes[d] = <<>> /\ prompts[d] = <<>>
  BY DEF Init
<1> QED BY <1>1, EmptyOrdered DEF DenialAt

LEMMA DenialNext == TypeOK /\ Denial /\ [Next]_vars => Denial'
<1> SUFFICES ASSUME TypeOK, Denial, [Next]_vars PROVE Denial'
  OBVIOUS
<1>1. CASE UNCHANGED vars
  BY <1>1 DEF vars, Denial, DenialAt
<1>2. ASSUME NEW d \in Devices,
             \/ Receive(d) \/ Answer(d) \/ Pipelines(d) \/ Timeout(d)
             \/ UserStep(d) \/ SessionStep(d)
      PROVE  Denial'
  <2>0. DenialAt(d)
    BY DEF Denial
  <2>1. DenialAt(d)' /\ OnlyAt(d)
    <3>1. CASE Receive(d)
      BY <2>0, <3>1, DenialReceive
    <3>2. CASE Answer(d)
      BY <2>0, <3>2, DenialAnswer DEF Answer
    <3>3. CASE Pipelines(d)
      BY <2>0, <3>3, DenialPipelines DEF Pipelines
    <3>4. CASE Timeout(d)
      BY <2>0, <3>4, DenialPipelines, DenialStops, DenialAnswer DEF Timeout
    <3>5. CASE UserStep(d)
      BY <2>0, <3>5, DenialStart, DenialStops, DenialSessions DEF UserStep
    <3>6. CASE SessionStep(d)
      BY <2>0, <3>6, DenialPromote, DenialSessions DEF SessionStep
    <3> QED BY <1>2, <3>1, <3>2, <3>3, <3>4, <3>5, <3>6
  <2>2. \A e \in Devices \ {d} : DenialAt(e)'
    BY <2>1 DEF Denial, DenialAt, OnlyAt
  <2> QED BY <2>1, <2>2 DEF Denial
<1> QED BY <1>1, <1>2 DEF Next

\* Without prompts a device that denies the permission runs nothing for its
\* peer: enforce_permissions finds each of the peer's routes by its key.
THEOREM NothingUnderDenial == Spec => []DeniedUnasked
<1>1. Init => TypeOK /\ Denial
  BY InitTyped, DenialInit
<1>2. TypeOK /\ Denial /\ [Next]_vars => (TypeOK /\ Denial)'
  BY NextTyped, DenialNext
<1>3. TypeOK /\ Denial => DeniedUnasked
  <2> SUFFICES ASSUME TypeOK, Denial, ~prompted, NEW d \in Devices, policy[d] = "Deny",
                      NEW i \in DOMAIN routes[d]
               PROVE  routes[d][i].mine
    BY DEF DeniedUnasked, DeniedStopped
  <2>1. DOMAIN routes[d] = 1 .. Len(routes[d])
    BY LenProperties DEF TypeOK
  <2> QED BY <2>1 DEF Denial, DenialAt, OwnOnly
<1> QED BY <1>1, <1>2, <1>3, PTL DEF Spec

----------------------------------------------------------------------------
(* The two ends of a session. *)

Ends == {"Stop", "Reject"}

\* One end: its routes R, the messages C and prompts P it has before it.  I are
\* the ids it has given to routes, J those its peer has.
Side(R, C, P, I, J) ==
  /\ \A r \in R : /\ r.st # "Paused"
                  /\ r.mine => r.id \in I
                  /\ ~r.mine => r.id \in J /\ r.st # "Requesting"
  /\ \A m \in C : /\ m.of = 1 /\ m.id \in I \cup J
                  /\ m.type = "Request" => m.id \in J
                  /\ m.type \in {"Accept", "Reject"} => m.id \in I
  /\ \A q \in P : q.id \in J
  /\ \A m \in C : m.type = "Request" => /\ \A q \in P : q.id # m.id
                                        /\ \A r \in R : r.id # m.id
  /\ \A q \in P : \A r \in R : r.id # q.id

\* The routes one end asked for, R, as the other end has them: S are its
\* routes, Q its prompts and N the messages it has before it; M are the ones
\* on their way to the end that asked.

\* They have the flow that was asked for.
SameFlow(R, S, Q, N) ==
  \A r \in R : r.mine =>
    /\ \A s \in S : s.id = r.id => s.flow = r.flow
    /\ \A q \in Q : q.id = r.id => q.flow = r.flow
    /\ \A m \in N : m.type = "Request" /\ m.id = r.id => m.flow = r.flow

\* What this end has stopped it has no more.
NotStopped(R, N) ==
  \A r \in R : r.mine => \A m \in N : m.type = "Stop" => m.id # r.id

\* What runs here runs there, or the end of it is on its way.
RunsThere(R, M, S) ==
  \A r \in R : r.mine /\ r.st \in {"Starting", "Active"} =>
    \/ \E s \in S : s.id = r.id /\ s.st = "Active"
    \/ \E m \in M : m.id = r.id /\ m.type \in Ends

\* What was accepted runs there, or its end is on its way, or it is not waited
\* for.
Promised(R, M, S) ==
  \A m \in M : m.type = "Accept" =>
    \/ \E s \in S : s.id = m.id /\ s.st = "Active"
    \/ \E n \in M : n.id = m.id /\ n.type \in Ends
    \/ \A r \in R : r.id # m.id

\* Nothing is left of what the other end has ended.
Over(M, S, Q, N, I) ==
  \A m \in M : m.type \in Ends /\ m.id \in I =>
    /\ \A s \in S : s.id # m.id
    /\ \A q \in Q : q.id # m.id
    /\ \A n \in N : n.type = "Request" => n.id # m.id

\* What the other end runs, or will be asked for, is asked for still, or its
\* end is on its way.
AskedStill(R, S, N) ==
  /\ \A s \in S : ~s.mine => \/ \E r \in R : r.id = s.id
                             \/ \E n \in N : n.id = s.id /\ n.type = "Stop"
  /\ \A m \in N : m.type = "Request" => \/ \E r \in R : r.id = m.id
                                        \/ \E n \in N : n.id = m.id /\ n.type = "Stop"

Link(R, M, S, Q, N, I, quiet) ==
  /\ SameFlow(R, S, Q, N)
  /\ NotStopped(R, N)
  /\ RunsThere(R, M, S)
  /\ Promised(R, M, S)
  /\ Over(M, S, Q, N, I)
  /\ quiet => AskedStill(R, S, N)

\* Less of what an end has, and more ids.
LEMMA SideLess ==
  ASSUME NEW R, NEW C, NEW P, NEW I, NEW J, Side(R, C, P, I, J),
         NEW R2 \in SUBSET R, NEW C2 \in SUBSET C, NEW P2 \in SUBSET P,
         NEW I2, I \subseteq I2, NEW J2, J \subseteq J2
  PROVE  Side(R2, C2, P2, I2, J2)
BY DEF Side

\* A message, a route or a prompt more at one end.
LEMMA SideMessage ==
  ASSUME NEW R, NEW C, NEW P, NEW I, NEW J, Side(R, C, P, I, J),
         NEW m, m.of = 1, m.id \in I \cup J,
         m.type \in {"Accept", "Reject"} => m.id \in I,
         m.type = "Request" => /\ m.id \in J /\ \A q \in P : q.id # m.id
                               /\ \A r \in R : r.id # m.id
  PROVE  Side(R, C \cup {m}, P, I, J)
BY DEF Side

LEMMA SideRoute ==
  ASSUME NEW R, NEW C, NEW P, NEW I, NEW J, Side(R, C, P, I, J),
         NEW r, r.st # "Paused", r.mine => r.id \in I,
         ~r.mine => r.id \in J /\ r.st # "Requesting",
         \A q \in P : q.id # r.id,
         \A m \in C : m.type = "Request" => m.id # r.id
  PROVE  Side(R \cup {r}, C, P, I, J)
BY DEF Side

LEMMA SidePrompt ==
  ASSUME NEW R, NEW C, NEW P, NEW I, NEW J, Side(R, C, P, I, J),
         NEW q, q.id \in J, \A r \in R : r.id # q.id,
         \A m \in C : m.type = "Request" => m.id # q.id
  PROVE  Side(R, C, P \cup {q}, I, J)
BY DEF Side

----------------------------------------------------------------------------
(* What the end that asked does. *)

\* It asks for a route.
LEMMA LinkStart ==
  ASSUME NEW R, NEW M, NEW P, NEW S, NEW Q, NEW N, NEW I, NEW J, NEW quiet \in BOOLEAN,
         I \cap J = {}, Side(R, M, P, I, J), Side(S, N, Q, J, I), Link(R, M, S, Q, N, I, quiet),
         NEW r, r.mine, r.st = "Requesting", r.id \notin I, r.id \notin J,
         NEW n, n.type = "Request", n.id = r.id, n.flow = r.flow
  PROVE  Link(R \cup {r}, M, S, Q, N \cup {n}, I \cup {r.id}, quiet)
<1>1. \A s \in S : s.id # r.id
  BY DEF Side
<1>2. (\A q \in Q : q.id # r.id) /\ (\A m \in N : m.id # r.id) /\ (\A m \in M : m.id # r.id)
  BY DEF Side
<1>3. SameFlow(R \cup {r}, S, Q, N \cup {n})
  <2>1. \A x \in R : x.id # r.id
    BY DEF Side
  <2> QED BY <1>1, <1>2, <2>1 DEF SameFlow, Link
<1>4. NotStopped(R \cup {r}, N \cup {n})
  BY <1>2 DEF NotStopped, Link
<1>5. RunsThere(R \cup {r}, M, S)
  BY DEF RunsThere, Link
<1>6. Promised(R \cup {r}, M, S)
  BY <1>2 DEF Promised, Link
<1>7. Over(M, S, Q, N \cup {n}, I \cup {r.id})
  BY <1>2 DEF Over, Link
<1>8. quiet => AskedStill(R \cup {r}, S, N \cup {n})
  BY DEF AskedStill, Link
<1> QED BY <1>3, <1>4, <1>5, <1>6, <1>7, <1>8 DEF Link

\* An end with routes R drops all but R2, and says so behind the messages N.
Drops(R, R2, N, N2) ==
  /\ R2 \subseteq R /\ N \subseteq N2
  /\ \A n \in N2 : n \in N \/ (n.type \in Ends /\ \A r \in R2 : r.id # n.id)
  /\ \A r \in R : r \in R2 \/ ~r.mine \/ \E n \in N2 : n.type = "Stop" /\ n.id = r.id

\* It drops routes and says so.
LEMMA LinkDrop ==
  ASSUME NEW R, NEW M, NEW P, NEW S, NEW Q, NEW N, NEW I, NEW J, NEW quiet \in BOOLEAN,
         I \cap J = {}, Side(R, M, P, I, J), Side(S, N, Q, J, I), Link(R, M, S, Q, N, I, quiet),
         NEW R2, NEW N2, Drops(R, R2, N, N2)
  PROVE  Link(R2, M, S, Q, N2, I, quiet)
<1> USE DEF Drops
<1>1. SameFlow(R2, S, Q, N2)
  BY DEF SameFlow, Link, Ends
<1>2. NotStopped(R2, N2)
  BY DEF NotStopped, Link, Ends
<1>3. RunsThere(R2, M, S)
  BY DEF RunsThere, Link
<1>4. Promised(R2, M, S)
  BY DEF Promised, Link
<1>5. Over(M, S, Q, N2, I)
  BY DEF Over, Link, Ends
<1>6. quiet => AskedStill(R2, S, N2)
  <2> SUFFICES ASSUME quiet PROVE AskedStill(R2, S, N2)
    OBVIOUS
  <2>1. AskedStill(R, S, N)
    BY DEF Link
  <2>2. \A r \in R : r.id \in I => r \in R2 \/ \E n \in N2 : n.type = "Stop" /\ n.id = r.id
    BY DEF Side
  <2>3. ASSUME NEW i \in I, (\E r \in R : r.id = i) \/ (\E n \in N : n.id = i /\ n.type = "Stop")
        PROVE  (\E r \in R2 : r.id = i) \/ (\E n \in N2 : n.id = i /\ n.type = "Stop")
    BY <2>2, <2>3
  <2>4. \A s \in S : ~s.mine => s.id \in I
    BY DEF Side
  <2>5. \A n \in N2 : n.type = "Request" => n \in N /\ n.id \in I
    BY DEF Side, Ends
  <2>6. \A s \in S : ~s.mine => \/ \E r \in R2 : r.id = s.id
                                \/ \E n \in N2 : n.id = s.id /\ n.type = "Stop"
    BY <2>1, <2>3, <2>4 DEF AskedStill
  <2>7. \A m \in N2 : m.type = "Request" =>
          \/ \E r \in R2 : r.id = m.id
          \/ \E n \in N2 : n.id = m.id /\ n.type = "Stop"
    BY <2>1, <2>3, <2>5 DEF AskedStill
  <2> QED BY <2>6, <2>7 DEF AskedStill
<1> QED BY <1>1, <1>2, <1>3, <1>4, <1>5, <1>6 DEF Link

\* It handles what is not an end, takes routes of its peer, and refuses.
LEMMA LinkHandle ==
  ASSUME NEW R, NEW M, NEW P, NEW S, NEW Q, NEW N, NEW I, NEW J, NEW quiet \in BOOLEAN,
         I \cap J = {}, Side(R, M, P, I, J), Side(S, N, Q, J, I), Link(R, M, S, Q, N, I, quiet),
         NEW M2 \in SUBSET M, \A m \in M : m \in M2 \/ m.type \notin Ends,
         NEW R2, R \subseteq R2, \A r \in R2 : r \in R \/ (~r.mine /\ r.id \in J),
         NEW N2, N \subseteq N2, \A n \in N2 : n \in N \/ n.type \in {"Reject", "Accept"}
  PROVE  Link(R2, M2, S, Q, N2, I, quiet)
<1>1. SameFlow(R2, S, Q, N2)
  BY DEF SameFlow, Link
<1>2. NotStopped(R2, N2)
  BY DEF NotStopped, Link
<1>3. RunsThere(R2, M2, S)
  BY DEF RunsThere, Link
<1>4. Promised(R2, M2, S)
  <2>1. \A m \in M2 : m.type = "Accept" => m.id \in I /\ m \in M
    BY DEF Side
  <2> QED BY <2>1 DEF Promised, Link
<1>5. Over(M2, S, Q, N2, I)
  BY DEF Over, Link
<1>6. quiet => AskedStill(R2, S, N2)
  BY DEF AskedStill, Link
<1> QED BY <1>1, <1>2, <1>3, <1>4, <1>5, <1>6 DEF Link

\* It handles an end.
LEMMA LinkEnded ==
  ASSUME NEW R, NEW M, NEW P, NEW S, NEW Q, NEW N, NEW I, NEW J, NEW quiet \in BOOLEAN,
         I \cap J = {}, Side(R, M, P, I, J), Side(S, N, Q, J, I), Link(R, M, S, Q, N, I, quiet),
         NEW m \in M, m.type \in Ends, NEW M2 \in SUBSET M, M \subseteq M2 \cup {m},
         NEW R2, R2 = {r \in R : r.id # m.id}
  PROVE  Link(R2, M2, S, Q, N, I, quiet)
<1>1. SameFlow(R2, S, Q, N)
  BY DEF SameFlow, Link
<1>2. NotStopped(R2, N)
  BY DEF NotStopped, Link
<1>3. RunsThere(R2, M2, S)
  <2> SUFFICES ASSUME NEW r \in R2, r.mine, r.st \in {"Starting", "Active"}
               PROVE  \/ \E s \in S : s.id = r.id /\ s.st = "Active"
                      \/ \E n \in M2 : n.id = r.id /\ n.type \in Ends
    BY DEF RunsThere
  <2>1. r \in R /\ r.id # m.id
    OBVIOUS
  <2> QED BY <2>1 DEF RunsThere, Link
<1>4. Promised(R2, M2, S)
  <2> SUFFICES ASSUME NEW a \in M2, a.type = "Accept"
               PROVE  \/ \E s \in S : s.id = a.id /\ s.st = "Active"
                      \/ \E n \in M2 : n.id = a.id /\ n.type \in Ends
                      \/ \A r \in R2 : r.id # a.id
    BY DEF Promised
  <2>1. \/ \E s \in S : s.id = a.id /\ s.st = "Active"
        \/ \E n \in M : n.id = a.id /\ n.type \in Ends
        \/ \A r \in R : r.id # a.id
    BY DEF Promised, Link
  <2>2. CASE a.id = m.id
    BY <2>2
  <2>3. CASE a.id # m.id
    BY <2>1, <2>3
  <2> QED BY <2>2, <2>3
<1>5. Over(M2, S, Q, N, I)
  BY DEF Over, Link
<1>6. quiet => AskedStill(R2, S, N)
  <2> SUFFICES ASSUME quiet PROVE AskedStill(R2, S, N)
    OBVIOUS
  <2>1. AskedStill(R, S, N)
    BY DEF Link
  <2>2. \A s \in S : ~s.mine => s.id \in I /\ s.id # m.id
    BY DEF Side, Over, Link
  <2>3. \A n \in N : n.type = "Request" => n.id \in I /\ n.id # m.id
    BY DEF Side, Over, Link
  <2>4. ASSUME NEW i, i # m.id, (\E r \in R : r.id = i) \/ (\E n \in N : n.id = i /\ n.type = "Stop")
        PROVE  (\E r \in R2 : r.id = i) \/ (\E n \in N : n.id = i /\ n.type = "Stop")
    BY <2>4
  <2> QED BY <2>1, <2>2, <2>3, <2>4 DEF AskedStill
<1> QED BY <1>1, <1>2, <1>3, <1>4, <1>5, <1>6 DEF Link

\* One of its routes goes on: to starting when it was accepted, to active when
\* its pipeline runs.
LEMMA LinkGoesOn ==
  ASSUME NEW R, NEW M, NEW P, NEW S, NEW Q, NEW N, NEW I, NEW J, NEW quiet \in BOOLEAN,
         I \cap J = {}, Side(R, M, P, I, J), Side(S, N, Q, J, I), Link(R, M, S, Q, N, I, quiet),
         NEW r \in R, NEW r2, r2.id = r.id, r2.flow = r.flow, r2.mine = r.mine,
         \/ r.st \in {"Starting", "Active"}
         \/ \E m \in M : m.type = "Accept" /\ m.id = r.id,
         NEW R2, R2 = (R \ {r}) \cup {r2},
         NEW M2 \in SUBSET M, \A m \in M : m \in M2 \/ m.type \notin Ends,
         NEW N2, N \subseteq N2, \A n \in N2 : n \in N \/ n.type \in {"Reject", "Accept"}
  PROVE  Link(R2, M2, S, Q, N2, I, quiet)
<1>1. \A x \in R2 : \E y \in R : y.id = x.id /\ y.flow = x.flow /\ y.mine = x.mine
  OBVIOUS
<1>2. \A y \in R : \E x \in R2 : y.id = x.id
  OBVIOUS
<1>3. SameFlow(R2, S, Q, N2)
  BY <1>1 DEF SameFlow, Link
<1>4. NotStopped(R2, N2)
  BY <1>1 DEF NotStopped, Link
<1>5. RunsThere(R2, M2, S)
  <2> SUFFICES ASSUME NEW x \in R2, x.mine, x.st \in {"Starting", "Active"}
               PROVE  \/ \E s \in S : s.id = x.id /\ s.st = "Active"
                      \/ \E n \in M2 : n.id = x.id /\ n.type \in Ends
    BY DEF RunsThere
  <2>1. CASE x \in R
    BY <2>1 DEF RunsThere, Link
  <2>2. CASE x = r2
    <3>1. CASE r.st \in {"Starting", "Active"}
      BY <2>2, <3>1 DEF RunsThere, Link
    <3>2. CASE \E m \in M : m.type = "Accept" /\ m.id = r.id
      BY <2>2, <3>2 DEF Promised, Link
    <3> QED BY <3>1, <3>2
  <2> QED BY <2>1, <2>2
<1>6. Promised(R2, M2, S)
  BY <1>1 DEF Promised, Link
<1>7. Over(M2, S, Q, N2, I)
  BY DEF Over, Link
<1>8. quiet => AskedStill(R2, S, N2)
  BY <1>2 DEF AskedStill, Link
<1> QED BY <1>3, <1>4, <1>5, <1>6, <1>7, <1>8 DEF Link

----------------------------------------------------------------------------
(* What the other end does. *)

\* It asks for a route itself.
LEMMA LinkPeerStart ==
  ASSUME NEW R, NEW M, NEW P, NEW S, NEW Q, NEW N, NEW I, NEW J, NEW quiet \in BOOLEAN,
         I \cap J = {}, Side(R, M, P, I, J), Side(S, N, Q, J, I), Link(R, M, S, Q, N, I, quiet),
         NEW s, s.mine, s.id \notin I, NEW m, m.type = "Request"
  PROVE  Link(R, M \cup {m}, S \cup {s}, Q, N, I, quiet)
<1>1. \A r \in R : r.mine => r.id # s.id
  BY DEF Side
<1>2. SameFlow(R, S \cup {s}, Q, N)
  BY <1>1 DEF SameFlow, Link
<1>3. NotStopped(R, N)
  BY DEF Link
<1>4. RunsThere(R, M \cup {m}, S \cup {s})
  BY DEF RunsThere, Link
<1>5. Promised(R, M \cup {m}, S \cup {s})
  BY DEF Promised, Link
<1>6. Over(M \cup {m}, S \cup {s}, Q, N, I)
  BY DEF Over, Link, Ends
<1>7. quiet => AskedStill(R, S \cup {s}, N)
  BY DEF AskedStill, Link
<1> QED BY <1>2, <1>3, <1>4, <1>5, <1>6, <1>7 DEF Link

\* The same, as it is for what the end did not ask for.
PeerDrops(S, S2, M, M2) ==
  /\ S2 \subseteq S /\ M \subseteq M2
  /\ \A m \in M2 : m \in M \/ /\ m.type \in Ends
                              /\ \E s \in S : s.id = m.id
                              /\ \A s \in S2 : s.id # m.id
  /\ \A s \in S : s \in S2 \/ \E m \in M2 : m.type \in Ends /\ m.id = s.id

\* It drops routes and says so.
LEMMA LinkPeerDrop ==
  ASSUME NEW R, NEW M, NEW P, NEW S, NEW Q, NEW N, NEW I, NEW J, NEW quiet \in BOOLEAN,
         I \cap J = {}, Side(R, M, P, I, J), Side(S, N, Q, J, I), Link(R, M, S, Q, N, I, quiet),
         NEW S2, NEW M2, PeerDrops(S, S2, M, M2)
  PROVE  Link(R, M2, S2, Q, N, I, quiet)
<1> USE DEF PeerDrops
<1>1. SameFlow(R, S2, Q, N)
  BY DEF SameFlow, Link
<1>2. NotStopped(R, N)
  BY DEF Link
<1>3. ASSUME NEW i, \/ \E s \in S : s.id = i /\ s.st = "Active"
                    \/ \E m \in M : m.id = i /\ m.type \in Ends
      PROVE  \/ \E s \in S2 : s.id = i /\ s.st = "Active"
             \/ \E m \in M2 : m.id = i /\ m.type \in Ends
  BY <1>3
<1>4. RunsThere(R, M2, S2)
  BY <1>3 DEF RunsThere, Link
<1>5. Promised(R, M2, S2)
  <2>1. \A m \in M2 : m.type = "Accept" => m \in M
    BY DEF Ends
  <2> QED BY <1>3, <2>1 DEF Promised, Link
<1>6. Over(M2, S2, Q, N, I)
  <2> SUFFICES ASSUME NEW m \in M2, m.type \in Ends, m.id \in I
               PROVE  /\ \A s \in S2 : s.id # m.id
                      /\ \A q \in Q : q.id # m.id
                      /\ \A n \in N : n.type = "Request" => n.id # m.id
    BY DEF Over
  <2>1. CASE m \in M
    BY <2>1 DEF Over, Link
  <2>2. CASE m \notin M
    BY <2>2 DEF Side
  <2> QED BY <2>1, <2>2
<1>7. quiet => AskedStill(R, S2, N)
  BY DEF AskedStill, Link
<1> QED BY <1>1, <1>2, <1>4, <1>5, <1>6, <1>7 DEF Link

\* The refusal m leaves nothing of what it refuses among routes S, prompts Q and
\* messages N.
Refuses(m, S, Q, N, Q2, N2) ==
  /\ m.type = "Reject" /\ \A s \in S : s.id # m.id
  /\ Q2 \subseteq Q /\ \A q \in Q2 : q.id # m.id
  /\ N2 \subseteq N /\ \A n \in N : n \in N2 \/ n.type = "Request"
  /\ \A n \in N2 : n.type = "Request" => n.id # m.id

\* It refuses a request or a prompt.
LEMMA LinkPeerRefuse ==
  ASSUME NEW R, NEW M, NEW P, NEW S, NEW Q, NEW N, NEW I, NEW J, NEW quiet \in BOOLEAN,
         I \cap J = {}, Side(R, M, P, I, J), Side(S, N, Q, J, I), Link(R, M, S, Q, N, I, quiet),
         NEW m, NEW Q2, NEW N2, Refuses(m, S, Q, N, Q2, N2)
  PROVE  Link(R, M \cup {m}, S, Q2, N2, I, quiet)
<1> USE DEF Refuses
<1>1. SameFlow(R, S, Q2, N2)
  BY DEF SameFlow, Link
<1>2. NotStopped(R, N2)
  BY DEF NotStopped, Link
<1>3. RunsThere(R, M \cup {m}, S)
  BY DEF RunsThere, Link
<1>4. Promised(R, M \cup {m}, S)
  BY DEF Promised, Link
<1>5. Over(M \cup {m}, S, Q2, N2, I)
  BY DEF Over, Link
<1>6. quiet => AskedStill(R, S, N2)
  BY DEF AskedStill, Link
<1> QED BY <1>1, <1>2, <1>3, <1>4, <1>5, <1>6 DEF Link

\* It takes what a request asks for, or a prompt.
LEMMA LinkPeerAccept ==
  ASSUME NEW R, NEW M, NEW P, NEW S, NEW Q, NEW N, NEW I, NEW J, NEW quiet \in BOOLEAN,
         I \cap J = {}, Side(R, M, P, I, J), Side(S, N, Q, J, I), Link(R, M, S, Q, N, I, quiet),
         NEW Q2 \in SUBSET Q,
         NEW N2 \in SUBSET N, \A n \in N : n \in N2 \/ n.type = "Request",
         NEW s, s.st # "Active",
         \/ \E n \in N : n.type = "Request" /\ n.id = s.id /\ n.flow = s.flow
         \/ ~quiet /\ \E q \in Q : q.id = s.id /\ q.flow = s.flow
  PROVE  Link(R, M, S \cup {s}, Q2, N2, I, quiet)
<1>1. SameFlow(R, S \cup {s}, Q2, N2)
  BY DEF SameFlow, Link
<1>2. NotStopped(R, N2)
  BY DEF NotStopped, Link
<1>3. RunsThere(R, M, S \cup {s})
  BY DEF RunsThere, Link
<1>4. Promised(R, M, S \cup {s})
  BY DEF Promised, Link
<1>5. Over(M, S \cup {s}, Q2, N2, I)
  BY DEF Over, Link
<1>6. quiet => AskedStill(R, S \cup {s}, N2)
  BY DEF AskedStill, Link
<1> QED BY <1>1, <1>2, <1>3, <1>4, <1>5, <1>6 DEF Link

\* It asks its user.
LEMMA LinkPeerPrompts ==
  ASSUME NEW R, NEW M, NEW P, NEW S, NEW Q, NEW N, NEW I, NEW J, NEW quiet \in BOOLEAN,
         I \cap J = {}, Side(R, M, P, I, J), Side(S, N, Q, J, I), Link(R, M, S, Q, N, I, quiet),
         NEW N2 \in SUBSET N,
         NEW n \in N, n.type = "Request", NEW q, q.id = n.id, q.flow = n.flow
  PROVE  Link(R, M, S, Q \cup {q}, N2, I, FALSE)
<1>1. SameFlow(R, S, Q \cup {q}, N2)
  BY DEF SameFlow, Link
<1>2. NotStopped(R, N2)
  BY DEF NotStopped, Link
<1>3. RunsThere(R, M, S) /\ Promised(R, M, S)
  BY DEF Link
<1>4. Over(M, S, Q \cup {q}, N2, I)
  BY DEF Over, Link
<1> QED BY <1>1, <1>2, <1>3, <1>4 DEF Link

\* It handles an end or an answer.
LEMMA LinkPeerHandle ==
  ASSUME NEW R, NEW M, NEW P, NEW S, NEW Q, NEW N, NEW I, NEW J, NEW quiet \in BOOLEAN,
         I \cap J = {}, Side(R, M, P, I, J), Side(S, N, Q, J, I), Link(R, M, S, Q, N, I, quiet),
         NEW n \in N, NEW N2 \in SUBSET N, N \subseteq N2 \cup {n},
         n.type \in {"Accept", "Reject", "Stop"},
         n.type = "Stop" => \A x \in N : x.type = "Request" => x.id # n.id,
         NEW S2, S2 \subseteq S, \A s \in S : s \in S2 \/ s.id = n.id,
         n.type = "Stop" => \A s \in S2 : s.id # n.id
  PROVE  Link(R, M, S2, Q, N2, I, quiet)
<1>0. ASSUME NEW r \in R, r.mine
      PROVE  r.id \in I /\ (n.type = "Stop" => r.id # n.id)
  BY <1>0 DEF Side, NotStopped, Link
<1>1. SameFlow(R, S2, Q, N2)
  BY DEF SameFlow, Link
<1>2. NotStopped(R, N2)
  BY DEF NotStopped, Link
<1>3. n.type # "Stop" => \A s \in S : s.id \in I => s \in S2
  <2>1. n.type # "Stop" => n.id \in J
    BY DEF Side
  <2> QED BY <2>1
<1>4. RunsThere(R, M, S2)
  BY <1>0, <1>3 DEF RunsThere, Link
<1>5. Promised(R, M, S2)
  BY <1>0, <1>3 DEF Promised, Link, Side
<1>6. Over(M, S2, Q, N2, I)
  BY DEF Over, Link
<1>7. quiet => AskedStill(R, S2, N2)
  BY DEF AskedStill, Link
<1> QED BY <1>1, <1>2, <1>4, <1>5, <1>6, <1>7 DEF Link

\* One of its routes goes on.
LEMMA LinkPeerGoesOn ==
  ASSUME NEW R, NEW M, NEW P, NEW S, NEW Q, NEW N, NEW I, NEW J, NEW quiet \in BOOLEAN,
         I \cap J = {}, Side(R, M, P, I, J), Side(S, N, Q, J, I), Link(R, M, S, Q, N, I, quiet),
         NEW s \in S, NEW s2, s2.id = s.id, s2.flow = s.flow, s2.mine = s.mine,
         s.st = "Active" => s2.st = "Active",
         NEW S2, S2 = (S \ {s}) \cup {s2},
         NEW M2, M \subseteq M2,
         \A m \in M2 : m \in M \/ (m.type = "Accept" /\ m.id = s.id /\ s2.st = "Active"),
         NEW N2 \in SUBSET N, \A n \in N : n \in N2 \/ n.type \notin {"Request", "Stop"}
  PROVE  Link(R, M2, S2, Q, N2, I, quiet)
<1>1. \A x \in S2 : \E y \in S : y.id = x.id /\ y.flow = x.flow /\ y.mine = x.mine
  OBVIOUS
<1>2. ASSUME NEW i, \/ \E x \in S : x.id = i /\ x.st = "Active"
                    \/ \E m \in M : m.id = i /\ m.type \in Ends
      PROVE  \/ \E x \in S2 : x.id = i /\ x.st = "Active"
             \/ \E m \in M2 : m.id = i /\ m.type \in Ends
  BY <1>2
<1>3. SameFlow(R, S2, Q, N2)
  BY <1>1 DEF SameFlow, Link
<1>4. NotStopped(R, N2)
  BY DEF NotStopped, Link
<1>5. RunsThere(R, M2, S2)
  BY <1>2 DEF RunsThere, Link
<1>6. Promised(R, M2, S2)
  <2> SUFFICES ASSUME NEW m \in M2, m.type = "Accept"
               PROVE  \/ \E x \in S2 : x.id = m.id /\ x.st = "Active"
                      \/ \E x \in M2 : x.id = m.id /\ x.type \in Ends
                      \/ \A r \in R : r.id # m.id
    BY DEF Promised
  <2>1. CASE m \in M
    BY <1>2, <2>1 DEF Promised, Link
  <2>2. CASE m \notin M
    BY <2>2
  <2> QED BY <2>1, <2>2
<1>7. Over(M2, S2, Q, N2, I)
  <2>1. \A m \in M2 : m.type \in Ends => m \in M
    BY DEF Ends
  <2> QED BY <1>1, <2>1 DEF Over, Link
<1>8. quiet => AskedStill(R, S2, N2)
  BY <1>1 DEF AskedStill, Link
<1> QED BY <1>3, <1>4, <1>5, <1>6, <1>7, <1>8 DEF Link

----------------------------------------------------------------------------
(* Lists by what is in them. *)

Elems(s) == {s[k] : k \in 1 .. Len(s)}

\* No two elements have an id.
Distinct(s) == \A j, k \in 1 .. Len(s) : s[j].id = s[k].id => j = k

\* A request is sent once, and before the stop of what it asks for.
Queued(s) ==
  /\ \A j, k \in 1 .. Len(s) : /\ s[j].type = "Request" /\ s[k].type = "Request"
                               /\ s[j].id = s[k].id
                               => j = k
  /\ \A j, k \in 1 .. Len(s) : /\ s[j].type = "Stop" /\ s[k].type = "Request"
                               /\ s[j].id = s[k].id
                               => k < j

\* What is in a list after each operation on it.
LEMMA ElemsEmpty ==
  Elems(<<>>) = {} /\ Distinct(<<>>) /\ Queued(<<>>)
<1>1. Len(<<>>) = 0
  OBVIOUS
<1> QED BY <1>1 DEF Elems, Distinct, Queued

LEMMA ElemsAppend ==
  ASSUME NEW T, NEW s \in Seq(T), NEW x \in T
  PROVE  /\ Elems(Append(s, x)) = Elems(s) \cup {x}
         /\ Distinct(s) /\ (\A e \in Elems(s) : e.id # x.id) => Distinct(Append(s, x))
<1>1. PICK t : t = Append(s, x)
  OBVIOUS
<1>2. /\ Len(s) \in Nat /\ Len(t) = Len(s) + 1 /\ t[Len(s) + 1] = x
      /\ \A k \in 1 .. Len(s) : t[k] = s[k]
  BY <1>1, AppendProperties, LenProperties
<1>3. \A k \in 1 .. Len(t) : k = Len(s) + 1 \/ k \in 1 .. Len(s)
  BY <1>2
<1>4. Len(s) + 1 \in 1 .. Len(t) /\ \A k \in 1 .. Len(s) : k \in 1 .. Len(t)
  BY <1>2
<1>5. \A e : e \in Elems(t) <=> e \in Elems(s) \cup {x}
  BY <1>2, <1>3, <1>4 DEF Elems
<1>6. ASSUME Distinct(s), \A e \in Elems(s) : e.id # x.id,
             NEW j \in 1 .. Len(t), NEW k \in 1 .. Len(t), t[j].id = t[k].id
      PROVE  j = k
  <2>1. \A l \in 1 .. Len(s) : t[l].id # x.id
    BY <1>2, <1>6 DEF Elems
  <2>2. CASE j \in 1 .. Len(s) /\ k \in 1 .. Len(s)
    BY <1>2, <1>6, <2>2 DEF Distinct
  <2>3. CASE j = Len(s) + 1 \/ k = Len(s) + 1
    BY <1>2, <1>3, <1>6, <2>1, <2>3
  <2> QED BY <1>3, <2>2, <2>3
<1> QED BY <1>1, <1>5, <1>6 DEF Distinct

LEMMA ElemsPart ==
  ASSUME NEW T, NEW s \in Seq(T), NEW K
  PROVE  /\ \A e : e \in Elems(Part(s, K)) <=> \E k \in 1 .. Len(s) : k \in K /\ e = s[k]
         /\ Distinct(s) => Distinct(Part(s, K))
<1>1. PICK t : t = Part(s, K)
  OBVIOUS
<1>2. PICK h : PartBy(t, s, K, h)
  BY <1>1, PartIs
<1>3. \A k \in 1 .. Len(t) : h[k] \in 1 .. Len(s) /\ t[k] = s[h[k]] /\ h[k] \in K
  BY <1>2 DEF PartBy
<1>4. \A i \in 1 .. Len(s) : i \in K => \E k \in 1 .. Len(t) : h[k] = i
  BY <1>2 DEF PartBy
<1>5. \A k, l \in 1 .. Len(t) : k < l => h[k] < h[l]
  BY <1>2 DEF PartBy
<1>6. \A e : e \in Elems(t) <=> \E k \in 1 .. Len(s) : k \in K /\ e = s[k]
  BY <1>3, <1>4 DEF Elems
<1>7. Len(t) \in Nat /\ Len(s) \in Nat
  BY <1>1, PartIs, LenProperties
<1>8. ASSUME Distinct(s), NEW j \in 1 .. Len(t), NEW k \in 1 .. Len(t), t[j].id = t[k].id
      PROVE  j = k
  <2>0. /\ h[j] \in 1 .. Len(s) /\ h[k] \in 1 .. Len(s)
        /\ t[j] = s[h[j]] /\ t[k] = s[h[k]]
    BY <1>3
  <2>a. s[h[j]].id = s[h[k]].id
    BY <1>8, <2>0
  <2>b. \A a, b \in 1 .. Len(s) : s[a].id = s[b].id => a = b
    BY <1>8 DEF Distinct
  <2>1. h[j] = h[k]
    BY <2>0, <2>a, <2>b
  <2>2. j \in Nat /\ k \in Nat /\ h[j] \in Nat
    BY <1>3, <1>7
  <2>3. ~(j < k)
    <3> SUFFICES ASSUME j < k PROVE FALSE
      OBVIOUS
    <3>1. h[j] < h[k]
      BY <1>5
    <3> QED BY <2>1, <2>2, <3>1
  <2>4. ~(k < j)
    <3> SUFFICES ASSUME k < j PROVE FALSE
      OBVIOUS
    <3>1. h[k] < h[j]
      BY <1>5
    <3> QED BY <2>1, <2>2, <3>1
  <2> QED BY <2>2, <2>3, <2>4
<1>9. Distinct(s) => Distinct(t)
  BY <1>8 DEF Distinct
<1> QED BY <1>1, <1>6, <1>9

LEMMA ElemsWithout ==
  ASSUME NEW T, NEW s \in Seq(T), Distinct(s), NEW j \in 1 .. Len(s)
  PROVE  /\ Elems(Without(s, j)) = {e \in Elems(s) : e.id # s[j].id}
         /\ Elems(Without(s, j)) = Elems(s) \ {s[j]}
         /\ Distinct(Without(s, j)) /\ Without(s, j) \in Seq(T)
<1>1. PICK K : K = DOMAIN s \ {j}
  OBVIOUS
<1>2. PICK t : t = Part(s, K)
  OBVIOUS
<1>3. DOMAIN s = 1 .. Len(s)
  BY LenProperties
<1>4. /\ \A e : e \in Elems(t) <=> \E k \in 1 .. Len(s) : k \in K /\ e = s[k]
      /\ Distinct(t) /\ t \in Seq(T)
  BY <1>2, ElemsPart, PartSeq
<1>5. \A k \in 1 .. Len(s) : k \in K <=> k # j
  BY <1>1, <1>3
<1>6. \A k \in 1 .. Len(s) : /\ s[k].id = s[j].id <=> k = j
                             /\ s[k] = s[j] <=> k = j
  BY DEF Distinct
<1>7. ASSUME NEW e \in Elems(t)
      PROVE  e \in Elems(s) /\ e.id # s[j].id /\ e # s[j]
  <2>1. PICK k \in 1 .. Len(s) : k \in K /\ e = s[k]
    BY <1>4, <1>7
  <2>2. k # j
    BY <1>5, <2>1
  <2> QED BY <1>6, <2>1, <2>2 DEF Elems
<1>8. ASSUME NEW e \in Elems(s), e.id # s[j].id \/ e # s[j]
      PROVE  e \in Elems(t)
  <2>1. PICK k \in 1 .. Len(s) : e = s[k]
    BY DEF Elems
  <2>2. k # j
    BY <1>8, <2>1
  <2> QED BY <1>4, <1>5, <2>1, <2>2
<1> QED BY <1>1, <1>2, <1>4, <1>7, <1>8 DEF Without

LEMMA ElemsExcept ==
  ASSUME NEW T, NEW s \in Seq(T), Distinct(s), NEW j \in 1 .. Len(s),
         NEW x \in T, x.id = s[j].id
  PROVE  /\ Elems([s EXCEPT ![j] = x]) = (Elems(s) \ {s[j]}) \cup {x}
         /\ Distinct([s EXCEPT ![j] = x]) /\ [s EXCEPT ![j] = x] \in Seq(T)
         /\ Len([s EXCEPT ![j] = x]) = Len(s)
<1>1. PICK t : t = [s EXCEPT ![j] = x]
  OBVIOUS
<1>2. Len(t) = Len(s) /\ t \in Seq(T) /\ DOMAIN s = 1 .. Len(s)
  BY <1>1, ExceptSeq, LenProperties
<1>3. t[j] = x /\ \A k \in 1 .. Len(s) : k # j => t[k] = s[k]
  BY <1>1, <1>2
<1>4. \A k \in 1 .. Len(s) : s[k] = s[j] <=> k = j
  BY DEF Distinct
<1>5. \A e : e \in Elems(t) <=> e \in (Elems(s) \ {s[j]}) \cup {x}
  BY <1>2, <1>3, <1>4 DEF Elems
<1>6. \A k \in 1 .. Len(s) : t[k].id = s[k].id
  BY <1>3
<1>7. Distinct(t)
  BY <1>2, <1>6 DEF Distinct
<1> QED BY <1>1, <1>2, <1>5, <1>7

LEMMA ElemsConcat ==
  ASSUME NEW T, NEW s \in Seq(T), NEW t \in Seq(T)
  PROVE  Elems(s \o t) = Elems(s) \cup Elems(t)
<1>1. PICK w : w = s \o t
  OBVIOUS
<1>2. /\ Len(s) \in Nat /\ Len(t) \in Nat /\ Len(w) = Len(s) + Len(t)
      /\ \A k \in 1 .. Len(s) + Len(t) : w[k] = IF k <= Len(s) THEN s[k] ELSE t[k - Len(s)]
  BY <1>1, ConcatProperties, LenProperties
<1>3. ASSUME NEW k \in 1 .. Len(w)
      PROVE  w[k] \in Elems(s) \cup Elems(t)
  <2>1. CASE k <= Len(s)
    BY <1>2, <2>1 DEF Elems
  <2>2. CASE ~ (k <= Len(s))
    <3>1. k - Len(s) \in 1 .. Len(t) /\ w[k] = t[k - Len(s)]
      BY <1>2, <2>2
    <3> QED BY <3>1 DEF Elems
  <2> QED BY <2>1, <2>2
<1>4. ASSUME NEW k \in 1 .. Len(s)
      PROVE  s[k] \in Elems(w)
  <2>1. k \in 1 .. Len(w) /\ w[k] = s[k]
    BY <1>2
  <2> QED BY <2>1 DEF Elems
<1>5. ASSUME NEW k \in 1 .. Len(t)
      PROVE  t[k] \in Elems(w)
  <2>1. Len(s) + k \in 1 .. Len(w) /\ ~(Len(s) + k <= Len(s)) /\ (Len(s) + k) - Len(s) = k
    BY <1>2
  <2>2. w[Len(s) + k] = t[k]
    BY <1>2, <2>1
  <2> QED BY <2>1, <2>2 DEF Elems
<1>6. Elems(w) = Elems(s) \cup Elems(t)
  BY <1>3, <1>4, <1>5 DEF Elems
<1> QED BY <1>1, <1>6

LEMMA ElemsTail ==
  ASSUME NEW T, NEW s \in Seq(T), s # <<>>
  PROVE  /\ Tail(s) \in Seq(T) /\ Head(s) \in Elems(s)
         /\ Elems(Tail(s)) \subseteq Elems(s) /\ Elems(s) \subseteq Elems(Tail(s)) \cup {Head(s)}
         /\ Queued(s) =>
              /\ Queued(Tail(s))
              /\ Head(s).type \in {"Request", "Stop"} =>
                   \A e \in Elems(Tail(s)) : e.type = "Request" => e.id # Head(s).id
<1>1. PICK t : t = Tail(s)
  OBVIOUS
<1>2. /\ t \in Seq(T) /\ Len(s) \in Nat /\ Len(s) # 0 /\ Len(t) = Len(s) - 1
      /\ \A k \in 1 .. Len(t) : t[k] = s[k + 1]
      /\ Head(s) = s[1]
  BY <1>1, HeadTailProperties, LenProperties, EmptySeq
<1>3. 1 \in 1 .. Len(s) /\ \A k \in 1 .. Len(t) : k + 1 \in 1 .. Len(s) /\ k + 1 # 1
  BY <1>2
<1>4. ASSUME NEW k \in 1 .. Len(s), k # 1
      PROVE  k - 1 \in 1 .. Len(t) /\ t[k - 1] = s[k]
  <2>1. k - 1 \in 1 .. Len(t) /\ (k - 1) + 1 = k
    BY <1>2, <1>4
  <2> QED BY <1>2, <2>1
<1>5. Head(s) \in Elems(s) /\ Elems(t) \subseteq Elems(s)
  BY <1>2, <1>3 DEF Elems
<1>6. Elems(s) \subseteq Elems(t) \cup {Head(s)}
  BY <1>2, <1>4 DEF Elems
<1>7. ASSUME Queued(s)
      PROVE  Queued(t)
  <2>1. ASSUME NEW j \in 1 .. Len(t), NEW k \in 1 .. Len(t), t[k].type = "Request",
               t[j].id = t[k].id
        PROVE  /\ t[j].type = "Request" => j = k
               /\ t[j].type = "Stop" => k < j
    <3>1. /\ t[j] = s[j + 1] /\ t[k] = s[k + 1] /\ j + 1 \in 1 .. Len(s) /\ k + 1 \in 1 .. Len(s)
          /\ j \in Nat /\ k \in Nat
      BY <1>2, <1>3
    <3>2. t[j].type = "Request" => j + 1 = k + 1
      BY <1>7, <2>1, <3>1 DEF Queued
    <3>3. t[j].type = "Stop" => k + 1 < j + 1
      BY <1>7, <2>1, <3>1 DEF Queued
    <3> QED BY <3>1, <3>2, <3>3
  <2> QED BY <2>1 DEF Queued
<1>8. ASSUME Queued(s), Head(s).type \in {"Request", "Stop"},
             NEW k \in 1 .. Len(t), t[k].type = "Request", t[k].id = Head(s).id
      PROVE  FALSE
  <2>1. t[k] = s[k + 1] /\ k + 1 \in 1 .. Len(s) /\ k \in Nat /\ k # 0
    BY <1>2, <1>3
  <2>2. Head(s).type = "Request" => 1 = k + 1
    BY <1>2, <1>3, <1>8, <2>1 DEF Queued
  <2>3. Head(s).type = "Stop" => k + 1 < 1
    BY <1>2, <1>3, <1>8, <2>1 DEF Queued
  <2> QED BY <1>8, <2>1, <2>2, <2>3
<1> QED BY <1>1, <1>2, <1>5, <1>6, <1>7, <1>8 DEF Elems

\* More messages behind those that wait.
LEMMA QueuedConcat ==
  ASSUME NEW T, NEW s \in Seq(T), Queued(s), NEW t \in Seq(T), Queued(t),
         \A x \in Elems(s) : \A y \in Elems(t) : y.type = "Request" => y.id # x.id
  PROVE  Queued(s \o t)
<1>1. PICK w : w = s \o t
  OBVIOUS
<1>2. /\ Len(s) \in Nat /\ Len(t) \in Nat /\ Len(w) = Len(s) + Len(t)
      /\ \A k \in 1 .. Len(s) + Len(t) : w[k] = IF k <= Len(s) THEN s[k] ELSE t[k - Len(s)]
  BY <1>1, ConcatProperties, LenProperties
<1>3. \A k \in 1 .. Len(w) :
        \/ k \in 1 .. Len(s) /\ w[k] = s[k]
        \/ /\ k > Len(s) /\ k - Len(s) \in 1 .. Len(t) /\ w[k] = t[k - Len(s)]
  BY <1>2
<1>4. ASSUME NEW j \in 1 .. Len(w), NEW k \in 1 .. Len(w), w[k].type = "Request",
             w[j].type \in {"Request", "Stop"}, w[j].id = w[k].id
      PROVE  /\ w[j].type = "Request" => j = k
             /\ w[j].type = "Stop" => k < j
  <2>1. CASE j \in 1 .. Len(s) /\ w[j] = s[j] /\ k \in 1 .. Len(s) /\ w[k] = s[k]
    BY <1>4, <2>1 DEF Queued
  <2>2. CASE /\ j > Len(s) /\ j - Len(s) \in 1 .. Len(t) /\ w[j] = t[j - Len(s)]
             /\ k > Len(s) /\ k - Len(s) \in 1 .. Len(t) /\ w[k] = t[k - Len(s)]
    <3>1. w[j].type = "Request" => j - Len(s) = k - Len(s)
      BY <1>4, <2>2 DEF Queued
    <3>2. w[j].type = "Stop" => k - Len(s) < j - Len(s)
      BY <1>4, <2>2 DEF Queued
    <3> QED BY <1>2, <1>4, <3>1, <3>2
  <2>3. CASE /\ j \in 1 .. Len(s) /\ w[j] = s[j]
             /\ k - Len(s) \in 1 .. Len(t) /\ w[k] = t[k - Len(s)]
    BY <1>4, <2>3 DEF Elems
  <2>4. CASE /\ k \in 1 .. Len(s) /\ w[k] = s[k]
             /\ j > Len(s) /\ j - Len(s) \in 1 .. Len(t) /\ w[j] = t[j - Len(s)]
    <3>1. w[j].type # "Request"
      BY <1>4, <2>4 DEF Elems
    <3>2. k < j
      BY <1>2, <2>4
    <3> QED BY <3>1, <3>2
  <2> QED BY <1>3, <2>1, <2>2, <2>3, <2>4
<1>5. Queued(w)
  BY <1>4 DEF Queued
<1> QED BY <1>1, <1>5

----------------------------------------------------------------------------
(* One session. *)

\* One session, and fewer commands than would make its ids come round: each id is
\* two above the one before, the first are 1 and 2, and there are IdSpace of them.
WithinSession == MaxSessions = 1 /\ IdSpace > 2 * MaxCommands + 2

\* The ids d gives to its routes: the dialer's are even.
Own(d) == {i \in Ids : i % 2 = IF d = dialer THEN 0 ELSE 1}

\* Those it has given.
Given(d) == {i \in Own(d) : i < next[d]}

\* d reads what its peer sends, or will.
Reads(d) == at[d] = 1 \/ seen[d] = 0

\* The end at d of the session, before it, in it and after it.
Stage(d) ==
  /\ at[d] \in {0, 1} /\ seen[d] \in {0, 1} /\ (at[d] = 1 => seen[d] = 1)
  /\ seen[d] = 0 => /\ routes[d] = <<>> /\ saved[d] = <<>> /\ prompts[d] = <<>>
                    /\ next[d] = 1
  /\ at[d] = 1 => next[d] \in Own(d)
  /\ next[d] <= 2 + 2 * commands
  /\ ~Reads(d) => /\ chan[d] = <<>>
                  /\ \A k \in 1 .. Len(routes[d]) : routes[d][k].st = "Paused"

Stages == gen = 1 /\ commands <= MaxCommands /\ \A d \in Devices : Stage(d)

AtEnd(d) ==
  Reads(d) =>
    /\ Distinct(routes[d]) /\ Distinct(prompts[d]) /\ Queued(chan[d])
    /\ Side(Elems(routes[d]), Elems(chan[d]), Elems(prompts[d]), Given(d), Given(Other(d)))

Linked(d) ==
  Reads(d) /\ Reads(Other(d)) =>
    Link(Elems(routes[d]), Elems(chan[d]), Elems(routes[Other(d)]),
         Elems(prompts[Other(d)]), Elems(chan[Other(d)]), Given(d), ~prompted)

InSession == /\ TypeOK /\ Denial /\ Stages
             /\ \A d \in Devices : AtEnd(d) /\ Linked(d)

\* The ids of the two devices are apart, and the next one is new.
LEMMA OwnApart ==
  ASSUME TypeOK, NEW d \in Devices
  PROVE  /\ Own(d) \cap Own(Other(d)) = {}
         /\ Given(d) \cap Given(Other(d)) = {}
         /\ Given(d) \subseteq Own(d) /\ next[d] \notin Given(d)
<1>1. d = dialer <=> Other(d) # dialer
  BY OtherDevice DEF TypeOK
<1>2. Own(d) \cap Own(Other(d)) = {}
  BY <1>1 DEF Own
<1>3. next[d] \in Nat
  BY IdsFacts DEF TypeOK
<1>4. next[d] \notin Given(d)
  BY <1>3 DEF Given
<1> QED BY <1>2, <1>4 DEF Given

\* Within one session the next id is never one that was given before.
LEMMA NextOwn ==
  ASSUME TypeOK, Stages, WithinSession, NEW d \in Devices, at[d] = 1, commands < MaxCommands
  PROVE  /\ After(next[d]) = next[d] + 2 /\ next[d] + 2 \in Own(d)
         /\ next[d] + 2 <= 2 + 2 * (commands + 1)
         /\ next[d] \in Own(d) /\ next[d] \in Ids
<1>1. PICK n \in Nat : n = next[d] /\ n \in Own(d) /\ n <= 2 + 2 * commands
  BY IdsFacts DEF TypeOK, Stages, Stage
<1>2. commands \in Nat /\ MaxCommands \in Nat /\ IdSpace \in Nat
  BY BoundsAssumption, IdSpaceAssumption DEF TypeOK
<1>3. n + 2 <= 2 + 2 * (commands + 1) /\ 2 * (commands + 1) <= 2 * MaxCommands
  BY <1>1, <1>2
<1>4. n + 2 < IdSpace /\ n + 2 >= 2
  BY <1>1, <1>2, <1>3 DEF WithinSession
<1>5. (n + 2) % IdSpace = n + 2
  BY <1>1, <1>2, <1>4
<1>6. After(n) = n + 2
  BY <1>1, <1>4, <1>5 DEF After
<1>7. (n + 2) % 2 = n % 2
  BY <1>1
<1>8. n + 2 \in Own(d)
  <2>1. n + 2 \in Ids
    BY <1>1, <1>2, <1>4 DEF Ids
  <2> QED BY <1>1, <1>7, <2>1 DEF Own
<1> QED BY <1>1, <1>3, <1>6, <1>8 DEF Own

\* What d sends.
LEMMA Sent ==
  ASSUME TypeOK, Stages, NEW d \in Devices, NEW ch \in [Devices -> Seq(Message)],
         ch[Other(d)] = chan[Other(d)], NEW ms \in Seq(Message), NEW e, e = at[d]
  PROVE  /\ Send(ch, d, e, ms) \in [Devices -> Seq(Message)]
         /\ Send(ch, d, e, ms)[d] = ch[d]
         /\ at[d] = 0 \/ ~Reads(Other(d)) => Send(ch, d, e, ms)[Other(d)] = chan[Other(d)]
         /\ at[d] = 1 /\ Reads(Other(d)) => Send(ch, d, e, ms)[Other(d)] = chan[Other(d)] \o ms
<1>1. Other(d) \in Devices /\ Other(d) # d
  BY OtherDevice
<1>2. chan[Other(d)] \o ms \in Seq(Message)
  BY <1>1, ConcatProperties DEF TypeOK
<1>3. at[d] \in {0, 1} /\ at[Other(d)] \in {0, 1} /\ seen[Other(d)] \in {0, 1}
  BY <1>1 DEF Stages, Stage
<1>4. (e = 0 \/ (seen[Other(d)] >= e /\ at[Other(d)] # e)) <=> (at[d] = 0 \/ ~Reads(Other(d)))
  BY <1>3 DEF Reads
<1> QED BY <1>1, <1>2, <1>3, <1>4, SendTyped DEF Send

\* A list of one.
LEMMA One ==
  ASSUME NEW T, NEW x \in T
  PROVE  <<x>> \in Seq(T) /\ Elems(<<x>>) = {x} /\ Queued(<<x>>) /\ Distinct(<<x>>)
<1>1. PICK s : s = <<x>>
  OBVIOUS
<1>2. s \in Seq(T) /\ Len(s) = 1 /\ s[1] = x
  BY <1>1
<1>3. \A k \in 1 .. Len(s) : k = 1
  BY <1>2
<1>4. 1 \in 1 .. Len(s)
  BY <1>2
<1> QED BY <1>1, <1>2, <1>3, <1>4 DEF Elems, Queued, Distinct

\* One message of d to its peer.
LEMMA Told ==
  ASSUME TypeOK, Stages, NEW d \in Devices, NEW ch \in [Devices -> Seq(Message)],
         ch[Other(d)] = chan[Other(d)],
         NEW t \in Kinds, NEW i \in Ids, NEW f \in Flows
  PROVE  /\ Tell(ch, d, t, i, f) \in [Devices -> Seq(Message)]
         /\ Tell(ch, d, t, i, f)[d] = ch[d]
         /\ at[d] = 0 \/ ~Reads(Other(d)) => Tell(ch, d, t, i, f)[Other(d)] = chan[Other(d)]
         /\ at[d] = 1 /\ Reads(Other(d)) =>
              /\ Elems(Tell(ch, d, t, i, f)[Other(d)]) = Elems(chan[Other(d)]) \cup {Msg(1, t, i, f)}
              /\ /\ Queued(chan[Other(d)])
                 /\ t = "Request" => \A m \in Elems(chan[Other(d)]) : m.id # i
                 => Queued(Tell(ch, d, t, i, f)[Other(d)])
<1>1. PICK m \in Message : m = Msg(at[d], t, i, f)
  BY MsgTyped DEF TypeOK
<1>2. PICK b \in Seq(Message) : b = <<m>> /\ Elems(b) = {m} /\ Queued(b)
  BY One
<1>0. PICK e : e = at[d]
  OBVIOUS
<1>3. PICK c : c = Send(ch, d, e, b)
  OBVIOUS
<1>4. Tell(ch, d, t, i, f) = c
  BY <1>0, <1>1, <1>2, <1>3 DEF Tell
<1>5. /\ c \in [Devices -> Seq(Message)] /\ c[d] = ch[d]
      /\ at[d] = 0 \/ ~Reads(Other(d)) => c[Other(d)] = chan[Other(d)]
      /\ at[d] = 1 /\ Reads(Other(d)) => c[Other(d)] = chan[Other(d)] \o b
  <2>1. /\ Send(ch, d, e, b) \in [Devices -> Seq(Message)]
        /\ Send(ch, d, e, b)[d] = ch[d]
        /\ at[d] = 0 \/ ~Reads(Other(d)) => Send(ch, d, e, b)[Other(d)] = chan[Other(d)]
        /\ at[d] = 1 /\ Reads(Other(d)) => Send(ch, d, e, b)[Other(d)] = chan[Other(d)] \o b
    BY <1>0, Sent
  <2> QED BY <1>3, <2>1
<1>6. PICK s \in Seq(Message) : s = chan[Other(d)]
  BY OtherDevice DEF TypeOK
<1>7. ASSUME at[d] = 1, Reads(Other(d))
      PROVE  /\ Elems(c[Other(d)]) = Elems(chan[Other(d)]) \cup {Msg(1, t, i, f)}
             /\ /\ Queued(chan[Other(d)])
                /\ t = "Request" => \A x \in Elems(chan[Other(d)]) : x.id # i
                => Queued(c[Other(d)])
  <2>1. c[Other(d)] = s \o b /\ m = Msg(1, t, i, f)
    BY <1>1, <1>5, <1>6, <1>7
  <2>2. Elems(s \o b) = Elems(s) \cup Elems(b)
    BY ElemsConcat
  <2>5. Elems(c[Other(d)]) = Elems(chan[Other(d)]) \cup {m}
    BY <1>2, <1>6, <2>1, <2>2
  <2>3. m.type = t /\ m.id = i
    BY <2>1 DEF Msg
  <2>4. ASSUME Queued(s), t = "Request" => \A x \in Elems(s) : x.id # i
        PROVE  Queued(s \o b)
    <3>1. \A x \in Elems(s) : \A y \in Elems(b) : y.type = "Request" => y.id # x.id
      BY <1>2, <2>3, <2>4
    <3> QED BY <1>2, <2>4, <3>1, QueuedConcat
  <2> QED BY <1>6, <2>1, <2>4, <2>5
<1> QED BY <1>4, <1>5, <1>7

----------------------------------------------------------------------------
(* The steps of a session. *)

\* The prefix of a session step: d acts, and of its peer only the messages it
\* has before it may change.
ActsAlone(d) ==
  LET p == Other(d) IN
  /\ gen' = gen /\ at' = at /\ seen' = seen /\ dialer' = dialer
  /\ routes'[p] = routes[p] /\ saved'[p] = saved[p] /\ prompts'[p] = prompts[p]
  /\ next'[p] = next[p]
  /\ commands' \in {commands, commands + 1} /\ commands' <= MaxCommands
  /\ ~Reads(p) => chan'[p] = chan[p]

\* A step in the middle of a session leaves both ends where they are in it.
LEMMA StagesKept ==
  ASSUME TypeOK, Stages, NEW d \in Devices, ActsAlone(d),
         at[d] = 1 => next'[d] \in Own(d),
         next'[d] <= 2 + 2 * commands',
         seen[d] = 0 => /\ routes'[d] = <<>> /\ saved'[d] = <<>> /\ prompts'[d] = <<>>
                        /\ next'[d] = 1,
         ~Reads(d) => /\ chan'[d] = <<>>
                      /\ \A k \in 1 .. Len(routes'[d]) : routes'[d][k].st = "Paused"
  PROVE  Stages'
<1>1. PICK p : p = Other(d) /\ p \in Devices /\ p # d /\ Devices = {d, p}
  BY OtherDevice
<1>2. \A e : Own(e)' = Own(e) /\ Reads(e)' = Reads(e)
  BY DEF ActsAlone, Own, Reads
<1>3. Stage(d)'
  BY <1>2 DEF Stages, Stage, ActsAlone
<1>4. commands \in Nat /\ next[p] \in Nat /\ next[p] <= 2 + 2 * commands
  BY <1>1, IdsFacts DEF TypeOK, Stages, Stage
<1>5. next'[p] <= 2 + 2 * commands'
  BY <1>1, <1>4 DEF ActsAlone
<1>6. Stage(p)'
  BY <1>1, <1>2, <1>5 DEF Stages, Stage, ActsAlone
<1>7. gen' = 1 /\ commands' <= MaxCommands
  BY DEF Stages, ActsAlone
<1> QED BY <1>1, <1>3, <1>6, <1>7 DEF Stages

\* What is to be shown of such a step.
LEMMA EndsKept ==
  ASSUME InSession, NEW d \in Devices, ActsAlone(d),
         NEW p, p = Other(d), NEW S, S = Elems(routes[p]), NEW Q, Q = Elems(prompts[p]),
         NEW R2, R2 = Elems(routes'[d]), NEW M2, M2 = Elems(chan'[d]),
         NEW P2, P2 = Elems(prompts'[d]), NEW N2, N2 = Elems(chan'[p]),
         NEW I2, I2 = Given(d)', NEW J, J = Given(p),
         Reads(d) => /\ Distinct(routes'[d]) /\ Distinct(prompts'[d]) /\ Queued(chan'[d])
                     /\ Side(R2, M2, P2, I2, J),
         Reads(p) => Queued(chan'[p]) /\ Side(S, N2, Q, J, I2),
         Reads(d) /\ Reads(p) => /\ Link(R2, M2, S, Q, N2, I2, ~prompted')
                                 /\ Link(S, N2, R2, P2, M2, J, ~prompted')
  PROVE  \A e \in Devices : AtEnd(e)' /\ Linked(e)'
<1>1. p \in Devices /\ p # d /\ Devices = {d, p} /\ Other(p) = d
  BY OtherDevice
<1>2. \A e : Own(e)' = Own(e) /\ Reads(e)' = Reads(e)
  BY DEF ActsAlone, Own, Reads
<1>3. Given(p)' = J /\ routes'[p] = routes[p] /\ prompts'[p] = prompts[p]
  BY <1>2 DEF Given, ActsAlone
<1>4. Reads(p) => Distinct(routes[p]) /\ Distinct(prompts[p])
  BY <1>1 DEF InSession, AtEnd
<1>5. AtEnd(d)'
  BY <1>2, <1>3 DEF AtEnd
<1>6. AtEnd(p)'
  BY <1>1, <1>2, <1>3, <1>4 DEF AtEnd
<1>7. Linked(d)'
  BY <1>2, <1>3 DEF Linked
<1>8. Linked(p)'
  BY <1>1, <1>2, <1>3 DEF Linked
<1> QED BY <1>1, <1>5, <1>6, <1>7, <1>8

\* What is known before it.
LEMMA EndsBefore ==
  ASSUME InSession, NEW d \in Devices
  PROVE  /\ Other(d) \in Devices /\ Other(d) # d /\ Other(Other(d)) = d
         /\ Given(d) \cap Given(Other(d)) = {}
         /\ routes[d] \in Seq(Route) /\ chan[d] \in Seq(Message)
         /\ prompts[d] \in Seq([id: Ids, flow: Flows]) /\ saved[d] \in Seq(Flows)
         /\ Reads(d) =>
              /\ Distinct(routes[d]) /\ Distinct(prompts[d]) /\ Queued(chan[d])
              /\ Side(Elems(routes[d]), Elems(chan[d]), Elems(prompts[d]), Given(d),
                      Given(Other(d)))
         /\ Reads(Other(d)) =>
              /\ Queued(chan[Other(d)])
              /\ Side(Elems(routes[Other(d)]), Elems(chan[Other(d)]), Elems(prompts[Other(d)]),
                      Given(Other(d)), Given(d))
         /\ Reads(d) /\ Reads(Other(d)) =>
              /\ Link(Elems(routes[d]), Elems(chan[d]), Elems(routes[Other(d)]),
                      Elems(prompts[Other(d)]), Elems(chan[Other(d)]), Given(d), ~prompted)
              /\ Link(Elems(routes[Other(d)]), Elems(chan[Other(d)]), Elems(routes[d]),
                      Elems(prompts[d]), Elems(chan[d]), Given(Other(d)), ~prompted)
<1>1. Other(d) \in Devices /\ Other(d) # d /\ Other(Other(d)) = d
  BY OtherDevice
<1>2. Given(d) \cap Given(Other(d)) = {}
  BY OwnApart DEF InSession
<1>3. /\ routes[d] \in Seq(Route) /\ chan[d] \in Seq(Message)
      /\ prompts[d] \in Seq([id: Ids, flow: Flows]) /\ saved[d] \in Seq(Flows)
  BY DEF InSession, TypeOK
<1>4. AtEnd(d) /\ AtEnd(Other(d)) /\ Linked(d) /\ Linked(Other(d))
  BY <1>1 DEF InSession
<1> QED BY <1>1, <1>2, <1>3, <1>4 DEF AtEnd, Linked

\* A route begins.
LEMMA SessionStart ==
  ASSUME InSession, WithinSession, NEW d \in Devices, NEW f \in Flows, StartRoute(d, f)
  PROVE  Stages' /\ \A e \in Devices : AtEnd(e)' /\ Linked(e)'
<1> USE DEF InSession
<1>1. PICK p : p = Other(d) /\ p \in Devices /\ p # d /\ Other(p) = d
  BY OtherDevice
<1>2. at[d] = 1 /\ commands < MaxCommands /\ commands' = commands + 1
  BY DEF StartRoute, Commanded, Stages, Stage
<1>3. PICK n \in Ids : n = next[d] /\ n \in Own(d) /\ After(n) = n + 2 /\ n + 2 \in Own(d)
                       /\ n + 2 <= 2 + 2 * (commands + 1)
  BY <1>2, NextOwn
<1>4. /\ routes' = [routes EXCEPT ![d] = Append(@, NewRoute(n, f, "Requesting", TRUE))]
      /\ next' = [next EXCEPT ![d] = n + 2]
      /\ chan' = Tell(chan, d, "Request", n, f)
      /\ UNCHANGED <<saved, promptVars, userVars, sessionVars>>
  BY <1>3 DEF StartRoute
<1>5. PICK r \in Route : r = NewRoute(n, f, "Requesting", TRUE)
  BY NewRouteTyped DEF Statuses
<1>6. r.id = n /\ r.flow = f /\ r.mine /\ r.st = "Requesting"
  BY <1>5 DEF NewRoute
<1>7. PICK m : m = Msg(1, "Request", n, f)
  OBVIOUS
<1>8. m.type = "Request" /\ m.id = n /\ m.flow = f /\ m.of = 1
  BY <1>7 DEF Msg
<1>9. /\ chan'[d] = chan[d]
      /\ ~Reads(p) => chan'[p] = chan[p]
      /\ Reads(p) => /\ Elems(chan'[p]) = Elems(chan[p]) \cup {m}
                     /\ /\ Queued(chan[p])
                        /\ \A x \in Elems(chan[p]) : x.id # n
                        => Queued(chan'[p])
  <2>1. PICK t \in Kinds : t = "Request"
    BY DEF Kinds
  <2>2. chan \in [Devices -> Seq(Message)]
    BY DEF TypeOK
  <2>3. /\ Tell(chan, d, t, n, f)[d] = chan[d]
        /\ at[d] = 0 \/ ~Reads(Other(d)) => Tell(chan, d, t, n, f)[Other(d)] = chan[Other(d)]
        /\ at[d] = 1 /\ Reads(Other(d)) =>
             /\ Elems(Tell(chan, d, t, n, f)[Other(d)])
                   = Elems(chan[Other(d)]) \cup {Msg(1, t, n, f)}
             /\ /\ Queued(chan[Other(d)])
                /\ t = "Request" => \A x \in Elems(chan[Other(d)]) : x.id # n
                => Queued(Tell(chan, d, t, n, f)[Other(d)])
    BY <2>2, Told, ZenonT(20)
  <2> QED BY <1>1, <1>2, <1>4, <1>7, <2>1, <2>3
<1>10. ActsAlone(d)
  <2>1. commands' <= MaxCommands
    <3>1. commands \in Nat /\ MaxCommands \in Nat
      BY BoundsAssumption DEF TypeOK
    <3> QED BY <1>2, <3>1
  <2> QED BY <1>1, <1>2, <1>4, <1>9, <2>1 DEF ActsAlone, sessionVars, promptVars, TypeOK
<1>11. Stages'
  <2>1. next'[d] = n + 2 /\ seen[d] = 1 /\ Reads(d)
    BY <1>2, <1>4 DEF TypeOK, Stages, Stage, Reads
  <2> QED BY <1>2, <1>3, <1>10, <2>1, StagesKept
<1> DEFINE R == Elems(routes[d])
           M == Elems(chan[d])
           P == Elems(prompts[d])
           S == Elems(routes[p])
           N == Elems(chan[p])
           Q == Elems(prompts[p])
           I == Given(d)
           J == Given(p)
<1>12. Reads(d) /\ Distinct(routes[d]) /\ Distinct(prompts[d]) /\ Queued(chan[d])
       /\ Side(R, M, P, I, J) /\ I \cap J = {}
  BY <1>1, <1>2, EndsBefore DEF Reads
<1>13. Reads(p) => Queued(chan[p]) /\ Side(S, N, Q, J, I)
                   /\ Link(R, M, S, Q, N, I, ~prompted) /\ Link(S, N, R, P, M, J, ~prompted)
  BY <1>1, <1>12, EndsBefore
<1>14. n \notin I /\ n \notin J
  BY <1>1, <1>3, OwnApart
<1>15. Given(d)' = I \cup {n}
  <2>1. \A i \in Own(d) : i < n + 2 <=> i < n \/ i = n
    <3>1. \A i \in Own(d) : i \in Nat /\ i % 2 = n % 2 /\ n \in Nat
      BY <1>3, IdsFacts DEF Own
    <3> QED BY <3>1
  <2>2. Own(d)' = Own(d) /\ next'[d] = n + 2
    BY <1>4 DEF Own, sessionVars, TypeOK
  <2> QED BY <1>3, <2>1, <2>2 DEF Given
<1>16. /\ Elems(routes'[d]) = R \cup {r}
       /\ (\A x \in R : x.id # n) => Distinct(routes'[d])
  <2>1. routes'[d] = Append(routes[d], r) /\ routes[d] \in Seq(Route)
    BY <1>4, <1>5 DEF TypeOK
  <2> QED BY <1>6, <1>12, <2>1, ElemsAppend
<1> HIDE DEF R, M, P, S, N, Q, I, J
<1>17. /\ \A x \in R : x.id # n
       /\ \A x \in M : x.type = "Request" => x.id # n
       /\ \A x \in P : x.id # n
  BY <1>12, <1>14 DEF Side
<1>18. Side(R \cup {r}, M, P, I \cup {n}, J)
  <2>1. Side(R, M, P, I \cup {n}, J)
    BY <1>12, SideLess
  <2> QED BY <1>6, <1>17, <2>1, SideRoute
<1>19. ASSUME Reads(p)
       PROVE  /\ Queued(chan'[p])
              /\ Side(S, N \cup {m}, Q, J, I \cup {n})
              /\ Link(R \cup {r}, M, S, Q, N \cup {m}, I \cup {n}, ~prompted)
              /\ Link(S, N \cup {m}, R \cup {r}, P, M, J, ~prompted)
  <2>1. /\ \A x \in N : x.id # n
        /\ \A x \in Q : x.id # n
        /\ \A x \in S : x.id # n
    BY <1>13, <1>14, <1>19 DEF Side
  <2>2. Queued(chan'[p])
    BY <1>9, <1>13, <1>19, <2>1 DEF N
  <2>3. Side(S, N \cup {m}, Q, J, I \cup {n})
    <3>1. Side(S, N, Q, J, I \cup {n})
      BY <1>13, <1>19, SideLess
    <3> QED BY <1>8, <2>1, <3>1, SideMessage
  <2>4. (~prompted) \in BOOLEAN
    OBVIOUS
  <2>5. Link(R \cup {r}, M, S, Q, N \cup {m}, I \cup {n}, ~prompted)
    BY <1>6, <1>8, <1>12, <1>13, <1>14, <1>19, <2>4, LinkStart
  <2>6. Link(S, N \cup {m}, R \cup {r}, P, M, J, ~prompted)
    <3>1. J \cap I = {}
      BY <1>12
    <3> QED BY <1>6, <1>8, <1>12, <1>13, <1>14, <1>19, <2>4, <3>1, LinkPeerStart
  <2> QED BY <2>2, <2>3, <2>5, <2>6
<1>20. prompts'[d] = prompts[d] /\ prompted' = prompted
  BY <1>4 DEF promptVars
<1>21. \A e \in Devices : AtEnd(e)' /\ Linked(e)'
  BY <1>1, <1>9, <1>10, <1>12, <1>15, <1>16, <1>17, <1>18, <1>19, <1>20, EndsKept
     DEF R, M, P, S, N, Q, I, J
<1> QED BY <1>11, <1>21

\* What is left of routes that are stopped one after the other.
LEMMA StoppedEachIn ==
  ASSUME NEW x \in Lists, NEW rs, Len(rs) \in Nat
  PROVE  /\ Elems(StoppedEach(x, rs).routes) \subseteq Elems(x.routes)
         /\ Distinct(x.routes) =>
              /\ Distinct(StoppedEach(x, rs).routes)
              /\ Elems(StoppedEach(x, rs).routes)
                   = {r \in Elems(x.routes) : \A l \in 1 .. Len(rs) : rs[l].id # r.id}
         /\ rs = <<>> => StoppedEach(x, rs) = x
<1>1. PICK h \in [0 .. Len(rs) -> Lists] :
           /\ h[0] = x
           /\ \A k \in 1 .. Len(rs) : h[k] = Stopped(h[k - 1], rs[k].id)
           /\ StoppedEach(x, rs) = h[Len(rs)]
  BY StoppedEachSteps
<1> DEFINE Left(k) == /\ Distinct(h[k].routes)
                      /\ Elems(h[k].routes)
                           = {r \in Elems(x.routes) : \A l \in 1 .. k : rs[l].id # r.id}
           Done == {k \in 0 .. Len(rs) : /\ Elems(h[k].routes) \subseteq Elems(x.routes)
                                         /\ Distinct(x.routes) => Left(k)}
<1>2. 0 \in Done
  <2>1. \A l \in 1 .. 0 : FALSE
    OBVIOUS
  <2> QED BY <1>1, <2>1
<1>3. ASSUME NEW k \in 0 .. Len(rs) - 1, k \in Done
      PROVE  k + 1 \in Done
  <2>1. k + 1 \in 1 .. Len(rs) /\ (k + 1) - 1 = k /\ k \in 0 .. Len(rs) /\ k + 1 \in 0 .. Len(rs)
    OBVIOUS
  <2>2. PICK s \in Seq(Route) : s = h[k].routes
    BY <1>1, <2>1 DEF Lists
  <2>3. h[k + 1] = Stopped(h[k], rs[k + 1].id)
    BY <1>1, <2>1
  <2>4. Elems(s) \subseteq Elems(x.routes) /\ (Distinct(x.routes) => Left(k))
    BY <1>3, <2>2
  <2>5. PICK i : i = rs[k + 1].id
    OBVIOUS
  <2>6. PICK f : f = FirstByKey(s, i)
    OBVIOUS
  <2>7. /\ f \in 0 .. Len(s)
        /\ f = 0 => \A j \in 1 .. Len(s) : s[j].id # i
        /\ f # 0 => f \in 1 .. Len(s) /\ s[f].id = i
    BY <2>6, FirstByKeyIs
  <2>8. \A l : l \in 1 .. k + 1 <=> l \in 1 .. k \/ l = k + 1
    BY <2>1
  <2>9. ASSUME NEW t, t = h[k + 1].routes, Elems(t) \subseteq Elems(s),
               Distinct(s) => Distinct(t) /\ Elems(t) = {r \in Elems(s) : r.id # i}
        PROVE  k + 1 \in Done
    <3>1. Distinct(x.routes) => Left(k + 1)
      <4> SUFFICES ASSUME Distinct(x.routes) PROVE Left(k + 1)
        OBVIOUS
      <4>1. Distinct(s) /\ Elems(s) = {r \in Elems(x.routes) : \A l \in 1 .. k : rs[l].id # r.id}
        BY <2>2, <2>4
      <4>2. Elems(t) = {r \in Elems(x.routes) : \A l \in 1 .. k + 1 : rs[l].id # r.id}
        BY <2>5, <2>8, <2>9, <4>1
      <4> QED BY <2>9, <4>1, <4>2
    <3> HIDE DEF Left
    <3> QED BY <2>1, <2>4, <2>9, <3>1
  <2>10. CASE f = 0
    <3>1. h[k + 1].routes = s
      BY <2>2, <2>3, <2>5, <2>6, <2>10 DEF Stopped
    <3>2. Elems(s) = {r \in Elems(s) : r.id # i}
      BY <2>7, <2>10 DEF Elems
    <3> QED BY <2>9, <3>1, <3>2
  <2>11. CASE f # 0
    <3>1. PICK K : K = DOMAIN s \ {f}
      OBVIOUS
    <3>2. PICK t : t = Part(s, K)
      OBVIOUS
    <3>3. h[k + 1].routes = t /\ t = Without(s, f)
      BY <2>2, <2>3, <2>5, <2>6, <2>11, <3>1, <3>2 DEF Stopped, Without
    <3>4. Elems(t) \subseteq Elems(s)
      BY <3>2, ElemsPart DEF Elems
    <3>5. Distinct(s) => Distinct(t) /\ Elems(t) = {r \in Elems(s) : r.id # i}
      BY <2>7, <2>11, <3>3, ElemsWithout
    <3> QED BY <2>9, <3>3, <3>4, <3>5
  <2> QED BY <2>7, <2>10, <2>11
<1> HIDE DEF Done
<1>4. \A k \in 0 .. Len(rs) : k \in Done
  BY <1>2, <1>3, Upwards
<1>5. Len(rs) \in Done
  BY <1>4
<1>6. /\ Elems(h[Len(rs)].routes) \subseteq Elems(x.routes)
      /\ Distinct(x.routes) => Left(Len(rs))
  BY <1>5 DEF Done
<1>7. rs = <<>> => StoppedEach(x, rs) = x
  BY <1>1
<1> QED BY <1>1, <1>6, <1>7

\* Several messages that ask for nothing.
LEMMA SideMessages ==
  ASSUME NEW R, NEW C, NEW P, NEW I, NEW J, Side(R, C, P, I, J), NEW C2,
         \A m \in C2 : \/ m \in C
                       \/ /\ m.of = 1 /\ m.id \in I \cup J /\ m.type # "Request"
                          /\ m.type \in {"Accept", "Reject"} => m.id \in I
  PROVE  Side(R, C2, P, I, J)
BY DEF Side

\* Messages that ask for nothing are in order.
LEMMA NoRequests ==
  ASSUME NEW T, NEW s \in Seq(T), Queued(s), NEW ms \in Seq(T),
         \A m \in Elems(ms) : m.type # "Request"
  PROVE  Queued(s \o ms)
<1>1. Queued(ms)
  BY DEF Queued, Elems
<1> QED BY <1>1, QueuedConcat

\* The messages E say that of the routes R only R2 are left.
EndsTold(R, R2, E) ==
  /\ \A m \in E : /\ m.of = 1 /\ m.type \in Ends
                  /\ \A r \in R2 : r.id # m.id
                  /\ \E r \in R : r.id = m.id /\ (m.type = "Reject" => ~r.mine)
  /\ \A r \in R : r \in R2 \/ \E m \in E : m.id = r.id /\ (r.mine => m.type = "Stop")

\* One end drops routes and tells the other one of each.
LEMMA DropEnds ==
  ASSUME NEW R, NEW M, NEW P, NEW S, NEW Q, NEW N, NEW I, NEW J, NEW quiet \in BOOLEAN,
         I \cap J = {}, Side(R, M, P, I, J), Side(S, N, Q, J, I),
         Link(R, M, S, Q, N, I, quiet), Link(S, N, R, P, M, J, quiet),
         NEW R2 \in SUBSET R, NEW E, NEW N2, N2 = N \cup E, EndsTold(R, R2, E)
  PROVE  /\ Side(S, N2, Q, J, I)
         /\ Link(R2, M, S, Q, N2, I, quiet)
         /\ Link(S, N2, R2, P, M, J, quiet)
<1> USE DEF EndsTold
<1>1. Side(S, N2, Q, J, I)
  <2>1. \A m \in E : /\ m.of = 1 /\ m.id \in J \cup I /\ m.type # "Request"
                     /\ m.type \in {"Accept", "Reject"} => m.id \in J
    BY DEF Side, Ends
  <2>2. \A m \in N2 : \/ m \in N
                      \/ /\ m.of = 1 /\ m.id \in J \cup I /\ m.type # "Request"
                         /\ m.type \in {"Accept", "Reject"} => m.id \in J
    BY <2>1
  <2> QED BY <2>2, SideMessages
<1>2. Drops(R, R2, N, N2)
  BY DEF Drops
<1>3. Link(R2, M, S, Q, N2, I, quiet)
  BY <1>2, LinkDrop
<1>4. PeerDrops(R, R2, N, N2)
  BY DEF PeerDrops
<1>5. J \cap I = {}
  OBVIOUS
<1>6. Link(S, N2, R2, P, M, J, quiet)
  BY <1>4, <1>5, LinkPeerDrop
<1> QED BY <1>1, <1>3, <1>6

\* What an end sends.
LEMMA Sends ==
  ASSUME TypeOK, Stages, NEW d \in Devices, NEW ms \in Seq(Message)
  PROVE  /\ Send(chan, d, at[d], ms)[d] = chan[d]
         /\ at[d] = 0 \/ ~Reads(Other(d)) => Send(chan, d, at[d], ms)[Other(d)] = chan[Other(d)]
         /\ at[d] = 1 /\ Reads(Other(d)) =>
              Send(chan, d, at[d], ms)[Other(d)] = chan[Other(d)] \o ms
<1>1. PICK e : e = at[d]
  OBVIOUS
<1>2. PICK ch \in [Devices -> Seq(Message)] : ch = chan
  BY DEF TypeOK
<1>3. ch[Other(d)] = chan[Other(d)]
  BY <1>2
<1>4. /\ Send(ch, d, e, ms)[d] = ch[d]
      /\ at[d] = 0 \/ ~Reads(Other(d)) => Send(ch, d, e, ms)[Other(d)] = chan[Other(d)]
      /\ at[d] = 1 /\ Reads(Other(d)) => Send(ch, d, e, ms)[Other(d)] = chan[Other(d)] \o ms
  BY <1>1, <1>3, Sent
<1> QED BY <1>1, <1>2, <1>4

\* Routes are dropped, and the peer is told.
LEMMA DropKept ==
  ASSUME InSession, NEW d \in Devices, NEW x \in Seq(Route), NEW ms \in Seq(Message),
         routes' = [routes EXCEPT ![d] = x], chan' = Send(chan, d, at[d], ms),
         UNCHANGED <<promptVars, sessionVars, next>>,
         saved'[Other(d)] = saved[Other(d)], seen[d] = 0 => saved'[d] = <<>>,
         commands' \in {commands, commands + 1}, commands' <= MaxCommands,
         Elems(x) \subseteq Elems(routes[d]), Distinct(routes[d]) => Distinct(x),
         at[d] = 1 => EndsTold(Elems(routes[d]), Elems(x), Elems(ms))
  PROVE  Stages' /\ \A e \in Devices : AtEnd(e)' /\ Linked(e)'
<1> USE DEF InSession
<1>1. PICK p : p = Other(d) /\ p \in Devices /\ p # d /\ Other(p) = d
  BY OtherDevice
<1>2. at[d] \in {0, 1} /\ Devices = {d, p}
  BY <1>1, OtherDevice DEF Stages, Stage
<1>3. routes'[d] = x /\ routes'[p] = routes[p]
  BY <1>1 DEF TypeOK
<1>4. /\ chan'[d] = chan[d]
      /\ at[d] = 0 \/ ~Reads(p) => chan'[p] = chan[p]
      /\ at[d] = 1 /\ Reads(p) => chan'[p] = chan[p] \o ms
  BY <1>1, Sends
<1>5. ActsAlone(d)
  BY <1>1, <1>3, <1>4 DEF ActsAlone, sessionVars, promptVars
<1>6. commands \in Nat /\ next[d] \in Nat /\ next[d] <= 2 + 2 * commands
  BY IdsFacts DEF TypeOK, Stages, Stage
<1>7. x = <<>> \/ \E r : r \in Elems(x)
  <2>1. x # <<>> => 1 \in 1 .. Len(x)
    BY EmptySeq, LenProperties
  <2> QED BY <2>1 DEF Elems
<1>8. Stages'
  <2>1. next'[d] = next[d] /\ next[d] <= 2 + 2 * commands'
    BY <1>6
  <2>2. seen[d] = 0 => x = <<>>
    <3>1. seen[d] = 0 => Elems(routes[d]) = {}
      BY ElemsEmpty DEF Stages, Stage
    <3> QED BY <1>7, <3>1
  <2>3. ~Reads(d) => \A k \in 1 .. Len(x) : x[k].st = "Paused"
    <3> SUFFICES ASSUME ~Reads(d), NEW k \in 1 .. Len(x)
                 PROVE  x[k].st = "Paused"
      OBVIOUS
    <3>1. x[k] \in Elems(routes[d])
      BY DEF Elems
    <3>2. PICK j \in 1 .. Len(routes[d]) : x[k] = routes[d][j]
      BY <3>1 DEF Elems
    <3> QED BY <3>2 DEF Stages, Stage
  <2> QED BY <1>3, <1>4, <1>5, <2>1, <2>2, <2>3, StagesKept DEF Stages, Stage, promptVars
<1> DEFINE R == Elems(routes[d])
           R2 == Elems(x)
           M == Elems(chan[d])
           P == Elems(prompts[d])
           S == Elems(routes[p])
           N == Elems(chan[p])
           N2 == Elems(chan'[p])
           Q == Elems(prompts[p])
           I == Given(d)
           J == Given(p)
<1>9. /\ I \cap J = {}
      /\ Reads(d) => /\ Distinct(routes[d]) /\ Distinct(prompts[d]) /\ Queued(chan[d])
                     /\ Side(R, M, P, I, J)
      /\ Reads(p) => Queued(chan[p]) /\ Side(S, N, Q, J, I)
      /\ Reads(d) /\ Reads(p) => /\ Link(R, M, S, Q, N, I, ~prompted)
                                 /\ Link(S, N, R, P, M, J, ~prompted)
  BY <1>1, EndsBefore
<1>10. Given(d)' = I /\ R2 \in SUBSET R
  BY DEF Given, Own, sessionVars
<1>11. CASE at[d] = 0
  <2>1. Reads(d) => R2 = R
    <3>1. Reads(d) => seen[d] = 0
      BY <1>11 DEF Reads
    <3>2. seen[d] = 0 => R = {}
      BY ElemsEmpty DEF Stages, Stage
    <3> QED BY <1>10, <3>1, <3>2
  <2> HIDE DEF R, M, P, S, N, Q, I, J, R2
  <2>2. Reads(d) => Distinct(x)
    BY <1>9
  <2> QED BY <1>1, <1>3, <1>4, <1>5, <1>8, <1>9, <1>10, <1>11, <2>1, <2>2, EndsKept
          DEF R, M, P, S, N, Q, I, J, R2, promptVars
<1>12. CASE at[d] = 1
  <2> HIDE DEF R, M, P, S, N, Q, I, J, R2, N2
  <2>1. Reads(d)
    BY <1>12 DEF Reads
  <2>2. Side(R2, M, P, I, J)
    BY <1>9, <1>10, <2>1, SideLess
  <2>3. ASSUME Reads(p)
        PROVE  /\ Queued(chan'[p]) /\ Side(S, N2, Q, J, I)
               /\ Link(R2, M, S, Q, N2, I, ~prompted)
               /\ Link(S, N2, R2, P, M, J, ~prompted)
    <3>1. chan'[p] = chan[p] \o ms /\ chan[p] \in Seq(Message)
      BY <1>1, <1>4, <1>12, <2>3 DEF TypeOK
    <3>2. N2 = N \cup Elems(ms)
      BY <3>1, ElemsConcat DEF N, N2
    <3>3. EndsTold(R, R2, Elems(ms))
      BY <1>12 DEF R, R2
    <3>5. Queued(chan'[p])
      <4>1. \A m \in Elems(ms) : m.type # "Request"
        BY <3>3 DEF EndsTold, Ends
      <4> QED BY <1>9, <2>3, <3>1, <4>1, NoRequests
    <3>6. /\ Side(R, M, P, I, J) /\ Side(S, N, Q, J, I) /\ I \cap J = {}
          /\ Link(R, M, S, Q, N, I, ~prompted) /\ Link(S, N, R, P, M, J, ~prompted)
      BY <1>9, <2>1, <2>3
    <3> QED BY <1>10, <3>2, <3>3, <3>5, <3>6, DropEnds
  <2>4. Distinct(x) /\ prompted' = prompted /\ prompts'[d] = prompts[d]
    BY <1>9, <2>1 DEF promptVars
  <2> QED BY <1>1, <1>3, <1>4, <1>5, <1>8, <1>9, <1>10, <2>1, <2>2, <2>3, <2>4, EndsKept
          DEF R, M, P, S, N, Q, I, J, R2, N2
<1> QED BY <1>2, <1>11, <1>12

\* An empty list has nothing in it.
LEMMA NoElems ==
  ASSUME NEW T, NEW s \in Seq(T)
  PROVE  Elems(s) = {} <=> s = <<>>
<1>1. s # <<>> => 1 \in 1 .. Len(s)
  BY EmptySeq, LenProperties
<1> QED BY <1>1, ElemsEmpty DEF Elems

\* Routes are stopped.
LEMMA StopKept ==
  ASSUME InSession, NEW d \in Devices, NEW rs \in Seq(Route),
         Elems(rs) \subseteq Elems(routes[d]), StopAndTell(d, rs),
         UNCHANGED <<promptVars, sessionVars, next>>,
         commands' \in {commands, commands + 1}, commands' <= MaxCommands
  PROVE  Stages' /\ \A e \in Devices : AtEnd(e)' /\ Linked(e)'
<1>1. PICK x : x = [routes |-> routes[d], saved |-> saved[d]]
  OBVIOUS
<1>2. x \in Lists /\ x.routes = routes[d] /\ x.saved = saved[d] /\ routes[d] \in Seq(Route)
  BY <1>1 DEF Lists, InSession, TypeOK
<1>3. DOMAIN rs = 1 .. Len(rs) /\ Len(rs) \in Nat /\ \A k \in 1 .. Len(rs) : rs[k] \in Route
  BY LenProperties, ElementOfSeq
<1>4. PICK y \in Lists : y = StoppedEach(x, rs)
  BY <1>2, <1>3, StoppedEachTyped
<1>5. /\ Elems(y.routes) \subseteq Elems(routes[d])
      /\ Distinct(routes[d]) =>
           /\ Distinct(y.routes)
           /\ Elems(y.routes)
                   = {r \in Elems(routes[d]) : \A l \in 1 .. Len(rs) : rs[l].id # r.id}
      /\ rs = <<>> => y = x
  <2>1. /\ Elems(y.routes) \subseteq Elems(x.routes)
        /\ Distinct(x.routes) =>
             /\ Distinct(y.routes)
             /\ Elems(y.routes)
                   = {r \in Elems(x.routes) : \A l \in 1 .. Len(rs) : rs[l].id # r.id}
        /\ rs = <<>> => y = x
    BY <1>2, <1>3, <1>4, StoppedEachIn
  <2> QED BY <1>2, <2>1
<1>6. PICK ms : ms = [i \in DOMAIN rs |-> Msg(at[d], "Stop", rs[i].id, rs[i].flow)]
  OBVIOUS
<1>7. ms \in Seq(Message) /\ Len(ms) = Len(rs)
  <2>1. \A i \in 1 .. Len(rs) : Msg(at[d], "Stop", rs[i].id, rs[i].flow) \in Message
    BY <1>3, MsgTyped DEF Route, Kinds, InSession, TypeOK
  <2>2. ms \in [1 .. Len(rs) -> Message]
    BY <1>3, <1>6, <2>1
  <2> QED BY <1>3, <2>2, FunSeq
<1>8. /\ routes' = [routes EXCEPT ![d] = y.routes]
      /\ saved' = [saved EXCEPT ![d] = y.saved]
      /\ chan' = Send(chan, d, at[d], ms)
  BY <1>1, <1>4, <1>6 DEF StopAndTell, StopEach
<1>9. saved'[Other(d)] = saved[Other(d)]
  BY <1>8, OtherDevice DEF InSession, TypeOK
<1>10. seen[d] = 0 => saved'[d] = <<>>
  <2>1. seen[d] = 0 => routes[d] = <<>> /\ saved[d] = <<>>
    BY DEF InSession, Stages, Stage
  <2>2. seen[d] = 0 => rs = <<>>
    BY <1>2, <2>1, NoElems
  <2> QED BY <1>2, <1>5, <1>8, <2>1, <2>2 DEF InSession, TypeOK
<1>11. at[d] = 1 => EndsTold(Elems(routes[d]), Elems(y.routes), Elems(ms))
  <2> SUFFICES ASSUME at[d] = 1
               PROVE  EndsTold(Elems(routes[d]), Elems(y.routes), Elems(ms))
    OBVIOUS
  <2>1. Distinct(routes[d])
    BY EndsBefore DEF Reads
  <2>2. Elems(y.routes) = {r \in Elems(routes[d]) : \A l \in 1 .. Len(rs) : rs[l].id # r.id}
    BY <1>5, <2>1
  <2>3. \A l \in 1 .. Len(rs) : /\ ms[l].of = 1 /\ ms[l].type = "Stop" /\ ms[l].id = rs[l].id
                                /\ ms[l] \in Elems(ms) /\ rs[l] \in Elems(routes[d])
    BY <1>3, <1>6, <1>7 DEF Msg, Elems
  <2>4. ASSUME NEW m \in Elems(ms)
        PROVE  /\ m.of = 1 /\ m.type = "Stop"
               /\ \A r \in Elems(y.routes) : r.id # m.id
               /\ \E r \in Elems(routes[d]) : r.id = m.id
    <3>1. PICK l \in 1 .. Len(rs) : m = ms[l]
      BY <1>7 DEF Elems
    <3> QED BY <2>2, <2>3, <3>1
  <2>5. ASSUME NEW r \in Elems(routes[d]), r \notin Elems(y.routes)
        PROVE  \E m \in Elems(ms) : m.id = r.id /\ m.type = "Stop"
    <3>1. PICK l \in 1 .. Len(rs) : rs[l].id = r.id
      BY <2>2, <2>5
    <3> QED BY <2>3, <3>1
  <2> QED BY <2>4, <2>5 DEF EndsTold, Ends
<1>12. y.routes \in Seq(Route)
  BY <1>4 DEF Lists
<1> QED BY <1>5, <1>7, <1>8, <1>9, <1>10, <1>11, <1>12, DropKept

\* Commands are counted up to the bound.
LEMMA CommandsBounded ==
  ASSUME TypeOK, Stages, NEW name, Commanded(name)
  PROVE  commands' \in {commands, commands + 1} /\ commands' <= MaxCommands
<1>1. commands \in Nat /\ MaxCommands \in Nat
  BY BoundsAssumption DEF TypeOK
<1> QED BY <1>1 DEF Commanded

\* Timeouts, users and failures.
LEMMA SessionStops ==
  ASSUME InSession, NEW d \in Devices,
         \/ \E i \in DOMAIN routes[d] : Expire(d, i) \/ StopRoute(d, i)
         \/ \E p \in InUse : SetPermission(d, p)
  PROVE  Stages' /\ \A e \in Devices : AtEnd(e)' /\ Linked(e)'
<1>1. routes[d] \in Seq(Route) /\ DOMAIN routes[d] = 1 .. Len(routes[d])
      /\ \A k \in 1 .. Len(routes[d]) : routes[d][k] \in Route
  BY LenProperties, ElementOfSeq DEF InSession, TypeOK
<1>2. TypeOK /\ Stages
  BY DEF InSession
<1>3. CASE \E i \in DOMAIN routes[d] : Expire(d, i) \/ StopRoute(d, i)
  <2>1. PICK i \in DOMAIN routes[d] : Expire(d, i) \/ StopRoute(d, i)
    BY <1>3
  <2>2. PICK r \in Route : r = routes[d][i] /\ r \in Elems(routes[d])
    BY <1>1 DEF Elems
  <2>3. PICK rs \in Seq(Route) : rs = <<r>> /\ Elems(rs) = {r}
    BY One
  <2>4. StopAndTell(d, rs) /\ UNCHANGED <<promptVars, sessionVars, next>>
    BY <2>1, <2>2, <2>3 DEF Expire, StopRoute
  <2>5. commands' \in {commands, commands + 1} /\ commands' <= MaxCommands
    <3>1. Expire(d, i) => commands' = commands /\ commands <= MaxCommands
      BY <1>2 DEF Expire, Stages
    <3>2. StopRoute(d, i) => commands' \in {commands, commands + 1} /\ commands' <= MaxCommands
      BY <1>2, CommandsBounded DEF StopRoute
    <3> QED BY <2>1, <3>1, <3>2
  <2> QED BY <2>2, <2>3, <2>4, <2>5, StopKept
<1>4. CASE \E p \in InUse : SetPermission(d, p)
  <2>1. PICK p \in InUse : SetPermission(d, p)
    BY <1>4
  <2>2. PICK rs : rs = IF p = "Deny" THEN UnderDenial(d) ELSE <<>>
    OBVIOUS
  <2>3. rs \in Seq(Route) /\ Elems(rs) \subseteq Elems(routes[d])
    <3>1. UnderDenial(d) \in Seq(Route)
      BY <1>1, PartSeq DEF UnderDenial
    <3>2. Elems(UnderDenial(d)) \subseteq Elems(routes[d])
      <4>1. PICK K : UnderDenial(d) = Part(routes[d], K)
        BY DEF UnderDenial
      <4>2. \A e : e \in Elems(UnderDenial(d)) =>
                     \E k \in 1 .. Len(routes[d]) : k \in K /\ e = routes[d][k]
        BY <1>1, <4>1, ElemsPart
      <4> QED BY <4>2 DEF Elems
    <3> QED BY <2>2, <3>1, <3>2, ElemsEmpty
  <2>4. StopAndTell(d, rs) /\ UNCHANGED <<promptVars, sessionVars, next>>
    BY <2>1, <2>2 DEF SetPermission
  <2>5. commands' \in {commands, commands + 1} /\ commands' <= MaxCommands
    BY <1>2, <2>1, CommandsBounded DEF SetPermission
  <2> QED BY <2>3, <2>4, <2>5, StopKept
<1> QED BY <1>3, <1>4

\* A pipeline fails.
LEMMA SessionFails ==
  ASSUME InSession, NEW d \in Devices, NEW i \in DOMAIN routes[d], PipelineFails(d, i)
  PROVE  Stages' /\ \A e \in Devices : AtEnd(e)' /\ Linked(e)'
<1>1. PICK rs \in Seq(Route) : rs = routes[d] /\ DOMAIN rs = 1 .. Len(rs) /\ Len(rs) \in Nat
                               /\ \A k \in 1 .. Len(rs) : rs[k] \in Route
  BY LenProperties, ElementOfSeq DEF InSession, TypeOK
<1>2. PICK j : j = FirstByKey(rs, rs[i].id)
  OBVIOUS
<1>3. j \in 1 .. Len(rs) /\ rs[j].id = rs[i].id /\ i \in 1 .. Len(rs)
  BY <1>1, <1>2, FirstByKeyIs
<1>4. PICK t : t = IF rs[j].mine \/ rs[j].st = "Active" THEN "Stop" ELSE "Reject"
  OBVIOUS
<1>5. PICK m \in Message : m = Msg(at[d], t, rs[i].id, rs[j].flow)
  BY <1>1, <1>3, <1>4, MsgTyped DEF Kinds, Route, InSession, TypeOK
<1>6. PICK ms \in Seq(Message) : ms = <<m>> /\ Elems(ms) = {m}
  BY One
<1>7. PICK x \in Seq(Route) : x = Without(rs, j)
  BY PartSeq DEF Without
<1>8. /\ routes' = [routes EXCEPT ![d] = x] /\ chan' = Send(chan, d, at[d], ms)
      /\ UNCHANGED <<promptVars, sessionVars, next, saved, commands>>
  BY <1>1, <1>2, <1>4, <1>5, <1>6, <1>7 DEF PipelineFails, Tell
<1>9. Elems(x) \subseteq Elems(rs) /\ (Distinct(rs) => Distinct(x))
  BY <1>7, ElemsPart DEF Elems, Without
<1>10. seen[d] = 0 => saved'[d] = <<>>
  BY <1>8 DEF InSession, Stages, Stage
<1>11. at[d] = 1 => EndsTold(Elems(rs), Elems(x), Elems(ms))
  <2> SUFFICES ASSUME at[d] = 1 PROVE EndsTold(Elems(rs), Elems(x), Elems(ms))
    OBVIOUS
  <2>1. Distinct(rs)
    BY <1>1, EndsBefore DEF Reads
  <2>2. /\ Elems(x) = {e \in Elems(rs) : e.id # rs[j].id}
        /\ Elems(x) = Elems(rs) \ {rs[j]}
    BY <1>3, <1>7, <2>1, ElemsWithout
  <2>3. m.of = 1 /\ m.type = t /\ m.id = rs[j].id /\ rs[j] \in Elems(rs)
    BY <1>3, <1>5 DEF Msg, Elems
  <2>4. t \in Ends /\ (t = "Reject" => ~rs[j].mine) /\ (rs[j].mine => t = "Stop")
    BY <1>4 DEF Ends
  <2> QED BY <1>6, <2>2, <2>3, <2>4 DEF EndsTold
<1>12. commands' \in {commands, commands + 1} /\ commands' <= MaxCommands
  BY <1>8 DEF InSession, Stages
<1> QED BY <1>1, <1>8, <1>9, <1>10, <1>11, <1>12, DropKept

----------------------------------------------------------------------------
(* What the messages do at both ends. *)

\* Both ends of a session that is read.
Pair(R, M, P, S, Q, N, I, J, quiet) ==
  /\ Side(R, M, P, I, J) /\ Side(S, N, Q, J, I)
  /\ Link(R, M, S, Q, N, I, quiet) /\ Link(S, N, R, P, M, J, quiet)

\* The routes R with r2 for r, and those without the id of m.
Swapped(R, r, r2) == (R \ {r}) \cup {r2}
Rest(R, m) == {r \in R : r.id # m.id}

\* m is taken from the messages M.
Takes(M, m, M2) ==
  /\ m \in M /\ M2 \subseteq M /\ M \subseteq M2 \cup {m}
  /\ m.type \in {"Request", "Stop"} => \A e \in M2 : e.type = "Request" => e.id # m.id

\* Taking a message leaves the others.
LEMMA TakesLess ==
  ASSUME NEW M, NEW m, NEW M2, Takes(M, m, M2)
  PROVE  M2 \in SUBSET M /\ \A x \in M : x \in M2 \/ x = m
BY DEF Takes

\* A request is refused.
LEMMA Refused ==
  ASSUME NEW R, NEW M, NEW P, NEW S, NEW Q, NEW N, NEW I, NEW J, NEW quiet \in BOOLEAN,
         I \cap J = {}, Side(R, M, P, I, J),
         NEW m, NEW M2, Takes(M, m, M2), m.type = "Request",
         NEW n, n.of = 1, n.type = "Reject", n.id = m.id
  PROVE  /\ Side(R, M2, P, I, J)
         /\ Pair(R, M, P, S, Q, N, I, J, quiet)
              => Pair(R, M2, P, S, Q, N \cup {n}, I, J, quiet)
<1> USE DEF Pair
<1>1. M2 \in SUBSET M /\ \A x \in M : x \in M2 \/ x = m
  BY TakesLess
<1>2. Side(R, M2, P, I, J)
  BY <1>1, SideLess
<1> SUFFICES ASSUME Pair(R, M, P, S, Q, N, I, J, quiet)
             PROVE  Pair(R, M2, P, S, Q, N \cup {n}, I, J, quiet)
  BY <1>2
<1>3. /\ m \in M /\ m.id \in J /\ (\A q \in P : q.id # m.id) /\ (\A r \in R : r.id # m.id)
      /\ \A x \in M2 : x.type = "Request" => x.id # m.id
  BY DEF Side, Takes
<1>4. Side(S, N \cup {n}, Q, J, I)
  BY <1>3, SideMessage
<1>5. Link(R, M2, S, Q, N \cup {n}, I, quiet)
  <2>1. \A x \in M : x \in M2 \/ x.type \notin Ends
    BY <1>1 DEF Ends
  <2>2. R \subseteq R /\ N \subseteq N \cup {n}
    OBVIOUS
  <2>3. \A x \in N \cup {n} : x \in N \/ x.type \in {"Reject", "Accept"}
    OBVIOUS
  <2> QED BY <1>1, <2>1, <2>2, <2>3, LinkHandle
<1>6. Link(S, N \cup {n}, R, P, M2, J, quiet)
  <2>1. \A x \in M : x \in M2 \/ x.type = "Request"
    BY <1>1
  <2>2. J \cap I = {} /\ P \in SUBSET P
    OBVIOUS
  <2>3. Refuses(n, R, P, M, P, M2)
    BY <1>1, <1>3, <2>1 DEF Refuses
  <2> QED BY <2>2, <2>3, LinkPeerRefuse
<1> QED BY <1>2, <1>4, <1>5, <1>6

\* A request is accepted.
LEMMA Accepted ==
  ASSUME NEW R, NEW M, NEW P, NEW S, NEW Q, NEW N, NEW I, NEW J, NEW quiet \in BOOLEAN,
         I \cap J = {}, Side(R, M, P, I, J),
         NEW m, NEW M2, Takes(M, m, M2), m.type = "Request",
         NEW r, r.id = m.id, r.flow = m.flow, r.st = "Starting", ~r.mine
  PROVE  /\ Side(R \cup {r}, M2, P, I, J)
         /\ Pair(R, M, P, S, Q, N, I, J, quiet)
              => Pair(R \cup {r}, M2, P, S, Q, N, I, J, quiet)
<1> USE DEF Pair
<1>1. M2 \in SUBSET M /\ \A x \in M : x \in M2 \/ x = m
  BY TakesLess
<1>2. /\ m \in M /\ m.id \in J /\ (\A q \in P : q.id # m.id) /\ (\A x \in R : x.id # m.id)
      /\ \A x \in M2 : x.type = "Request" => x.id # m.id
  BY DEF Side, Takes
<1>3. Side(R \cup {r}, M2, P, I, J)
  <2>1. Side(R, M2, P, I, J)
    BY <1>1, SideLess
  <2> QED BY <1>2, <2>1, SideRoute
<1> SUFFICES ASSUME Pair(R, M, P, S, Q, N, I, J, quiet)
             PROVE  Pair(R \cup {r}, M2, P, S, Q, N, I, J, quiet)
  BY <1>3
<1>4. Link(R \cup {r}, M2, S, Q, N, I, quiet)
  <2>1. \A x \in M : x \in M2 \/ x.type \notin Ends
    BY <1>1 DEF Ends
  <2>2. R \subseteq R \cup {r} /\ N \subseteq N
    OBVIOUS
  <2>3. \A x \in R \cup {r} : x \in R \/ (~x.mine /\ x.id \in J)
    BY <1>2
  <2>4. \A x \in N : x \in N \/ x.type \in {"Reject", "Accept"}
    OBVIOUS
  <2> QED BY <1>1, <2>1, <2>2, <2>3, <2>4, LinkHandle
<1>5. Link(S, N, R \cup {r}, P, M2, J, quiet)
  <2>1. \A x \in M : x \in M2 \/ x.type = "Request"
    BY <1>1
  <2>2. J \cap I = {} /\ P \in SUBSET P
    OBVIOUS
  <2>3. \E x \in M : x.type = "Request" /\ x.id = r.id /\ x.flow = r.flow
    BY <1>2
  <2> QED BY <1>1, <2>1, <2>2, <2>3, LinkPeerAccept
<1> QED BY <1>3, <1>4, <1>5

\* The user is asked about a request.
LEMMA Prompted ==
  ASSUME NEW R, NEW M, NEW P, NEW S, NEW Q, NEW N, NEW I, NEW J, NEW quiet \in BOOLEAN,
         I \cap J = {}, Side(R, M, P, I, J),
         NEW m, NEW M2, Takes(M, m, M2), m.type = "Request",
         NEW q, q.id = m.id, q.flow = m.flow
  PROVE  /\ Side(R, M2, P \cup {q}, I, J)
         /\ Pair(R, M, P, S, Q, N, I, J, quiet)
              => Pair(R, M2, P \cup {q}, S, Q, N, I, J, FALSE)
<1> USE DEF Pair
<1>1. M2 \in SUBSET M /\ \A x \in M : x \in M2 \/ x = m
  BY TakesLess
<1>2. /\ m \in M /\ m.id \in J /\ (\A x \in P : x.id # m.id) /\ (\A x \in R : x.id # m.id)
      /\ \A x \in M2 : x.type = "Request" => x.id # m.id
  BY DEF Side, Takes
<1>3. Side(R, M2, P \cup {q}, I, J)
  <2>1. Side(R, M2, P, I, J)
    BY <1>1, SideLess
  <2> QED BY <1>2, <2>1, SidePrompt
<1> SUFFICES ASSUME Pair(R, M, P, S, Q, N, I, J, quiet)
             PROVE  Pair(R, M2, P \cup {q}, S, Q, N, I, J, FALSE)
  BY <1>3
<1>4. Link(R, M2, S, Q, N, I, FALSE)
  <2>1. \A x \in M : x \in M2 \/ x.type \notin Ends
    BY <1>1 DEF Ends
  <2>2. R \subseteq R /\ N \subseteq N /\ FALSE \in BOOLEAN
    OBVIOUS
  <2>3. \A x \in N : x \in N \/ x.type \in {"Reject", "Accept"}
    OBVIOUS
  <2>4. Link(R, M2, S, Q, N, I, quiet)
    BY <1>1, <2>1, <2>2, <2>3, LinkHandle
  <2> QED BY <2>4 DEF Link
<1>5. Link(S, N, R, P \cup {q}, M2, J, FALSE)
  <2>1. J \cap I = {}
    OBVIOUS
  <2> QED BY <1>1, <1>2, <2>1, LinkPeerPrompts
<1> QED BY <1>3, <1>4, <1>5

\* An acceptance starts the route that waits for it.
LEMMA Begins ==
  ASSUME NEW R, NEW M, NEW P, NEW S, NEW Q, NEW N, NEW I, NEW J, NEW quiet \in BOOLEAN,
         I \cap J = {}, Side(R, M, P, I, J),
         NEW m, NEW M2, Takes(M, m, M2), m.type = "Accept",
         NEW r \in R, r.id = m.id, r.st = "Requesting",
         NEW r2, r2.id = r.id, r2.flow = r.flow, r2.mine = r.mine, r2.st = "Starting",
         NEW R2, R2 = Swapped(R, r, r2)
  PROVE  /\ Side(R2, M2, P, I, J)
         /\ Pair(R, M, P, S, Q, N, I, J, quiet)
              => Pair(R2, M2, P, S, Q, N, I, J, quiet)
<1> USE DEF Pair, Swapped
<1>1. M2 \in SUBSET M /\ \A x \in M : x \in M2 \/ x = m
  BY TakesLess
<1>3. Side(R2, M2, P, I, J)
  <2>1. Side(R, M2, P, I, J)
    BY <1>1, SideLess
  <2> QED BY <2>1 DEF Side
<1> SUFFICES ASSUME Pair(R, M, P, S, Q, N, I, J, quiet)
             PROVE  Pair(R2, M2, P, S, Q, N, I, J, quiet)
  BY <1>3
<1>4. Link(R2, M2, S, Q, N, I, quiet)
  <2>1. \A x \in M : x \in M2 \/ x.type \notin Ends
    BY <1>1 DEF Ends
  <2>2. N \subseteq N /\ \A x \in N : x \in N \/ x.type \in {"Reject", "Accept"}
    OBVIOUS
  <2>3. \E x \in M : x.type = "Accept" /\ x.id = r.id
    BY DEF Takes
  <2> QED BY <1>1, <2>1, <2>2, <2>3, LinkGoesOn
<1>5. Link(S, N, R2, P, M2, J, quiet)
  <2>1. \A x \in M : x \in M2 \/ x.type \notin {"Request", "Stop"}
    BY <1>1
  <2>2. N \subseteq N /\ J \cap I = {}
    OBVIOUS
  <2>3. \A x \in N : x \in N \/ (x.type = "Accept" /\ x.id = r.id /\ r2.st = "Active")
    OBVIOUS
  <2>4. r.st = "Active" => r2.st = "Active"
    OBVIOUS
  <2> QED BY <1>1, <2>1, <2>2, <2>3, <2>4, LinkPeerGoesOn
<1> QED BY <1>3, <1>4, <1>5

\* An acceptance nothing waits for.
LEMMA NotWaited ==
  ASSUME NEW R, NEW M, NEW P, NEW S, NEW Q, NEW N, NEW I, NEW J, NEW quiet \in BOOLEAN,
         I \cap J = {}, Side(R, M, P, I, J),
         NEW m, NEW M2, Takes(M, m, M2), m.type = "Accept"
  PROVE  /\ Side(R, M2, P, I, J)
         /\ Pair(R, M, P, S, Q, N, I, J, quiet)
              => Pair(R, M2, P, S, Q, N, I, J, quiet)
<1> USE DEF Pair
<1>1. M2 \in SUBSET M /\ \A x \in M : x \in M2 \/ x = m
  BY TakesLess
<1>3. Side(R, M2, P, I, J)
  BY <1>1, SideLess
<1> SUFFICES ASSUME Pair(R, M, P, S, Q, N, I, J, quiet)
             PROVE  Pair(R, M2, P, S, Q, N, I, J, quiet)
  BY <1>3
<1>4. Link(R, M2, S, Q, N, I, quiet)
  <2>1. \A x \in M : x \in M2 \/ x.type \notin Ends
    BY <1>1 DEF Ends
  <2>2. /\ N \subseteq N /\ \A x \in N : x \in N \/ x.type \in {"Reject", "Accept"}
        /\ R \subseteq R /\ \A x \in R : x \in R \/ (~x.mine /\ x.id \in J)
    OBVIOUS
  <2> QED BY <1>1, <2>1, <2>2, LinkHandle
<1>5. Link(S, N, R, P, M2, J, quiet)
  <2>1. m \in M /\ M \subseteq M2 \cup {m} /\ m.type \in {"Accept", "Reject", "Stop"}
    BY DEF Takes
  <2>2. /\ m.type = "Stop" => \A x \in M : x.type = "Request" => x.id # m.id
        /\ R \subseteq R /\ \A x \in R : x \in R \/ x.id = m.id
        /\ m.type = "Stop" => \A s \in R : s.id # m.id
        /\ J \cap I = {}
    OBVIOUS
  <2> QED BY <1>1, <2>1, <2>2, LinkPeerHandle
<1> QED BY <1>3, <1>4, <1>5

\* The end of a route arrives.
LEMMA Ended ==
  ASSUME NEW R, NEW M, NEW P, NEW S, NEW Q, NEW N, NEW I, NEW J, NEW quiet \in BOOLEAN,
         I \cap J = {}, Side(R, M, P, I, J),
         NEW m, NEW M2, Takes(M, m, M2), m.type \in Ends,
         NEW R2, R2 = Rest(R, m)
  PROVE  /\ Side(R2, M2, P, I, J)
         /\ Pair(R, M, P, S, Q, N, I, J, quiet)
              => Pair(R2, M2, P, S, Q, N, I, J, quiet)
<1> USE DEF Pair, Rest
<1>1. M2 \in SUBSET M /\ \A x \in M : x \in M2 \/ x = m
  BY TakesLess
<1>2. m \in M /\ M \subseteq M2 \cup {m}
  BY DEF Takes
<1>3. Side(R2, M2, P, I, J)
  BY <1>1, SideLess
<1> SUFFICES ASSUME Pair(R, M, P, S, Q, N, I, J, quiet)
             PROVE  Pair(R2, M2, P, S, Q, N, I, J, quiet)
  BY <1>3
<1>4. Link(R2, M2, S, Q, N, I, quiet)
  BY <1>1, <1>2, LinkEnded
<1>5. Link(S, N, R2, P, M2, J, quiet)
  <2>1. m.type \in {"Accept", "Reject", "Stop"} /\ m.type # "Request"
    BY DEF Ends
  <2>2. m.type = "Stop" => \A x \in M : x.type = "Request" => x.id # m.id
    BY <1>1, <2>1 DEF Takes
  <2>3. /\ R2 \subseteq R /\ \A x \in R : x \in R2 \/ x.id = m.id
        /\ m.type = "Stop" => \A s \in R2 : s.id # m.id
        /\ J \cap I = {}
    OBVIOUS
  <2> QED BY <1>1, <1>2, <2>1, <2>2, <2>3, LinkPeerHandle
<1> QED BY <1>3, <1>4, <1>5

----------------------------------------------------------------------------
(* What a device does with a message. *)

\* Both ends before a step of d, and both after one that keeps its lists apart.
LEMMA PairBefore ==
  ASSUME InSession, NEW d \in Devices, at[d] = 1, NEW p, p = Other(d),
         NEW R, R = Elems(routes[d]), NEW M, M = Elems(chan[d]), NEW P, P = Elems(prompts[d]),
         NEW S, S = Elems(routes[p]), NEW N, N = Elems(chan[p]), NEW Q, Q = Elems(prompts[p]),
         NEW I, I = Given(d), NEW J, J = Given(p)
  PROVE  /\ p \in Devices /\ p # d /\ Other(p) = d /\ I \cap J = {} /\ Reads(d)
         /\ Distinct(routes[d]) /\ Distinct(prompts[d]) /\ Queued(chan[d])
         /\ Side(R, M, P, I, J)
         /\ Reads(p) => Queued(chan[p]) /\ Pair(R, M, P, S, Q, N, I, J, ~prompted)
BY EndsBefore DEF Reads, Pair

LEMMA PairKept ==
  ASSUME InSession, NEW d \in Devices, at[d] = 1, ActsAlone(d), next'[d] = next[d],
         NEW p, p = Other(d), NEW S, S = Elems(routes[p]), NEW Q, Q = Elems(prompts[p]),
         NEW R2, R2 = Elems(routes'[d]), NEW M2, M2 = Elems(chan'[d]),
         NEW P2, P2 = Elems(prompts'[d]), NEW N2, N2 = Elems(chan'[p]),
         NEW I, I = Given(d), NEW J, J = Given(p),
         Distinct(routes'[d]), Distinct(prompts'[d]), Queued(chan'[d]),
         Side(R2, M2, P2, I, J),
         Reads(p) => Queued(chan'[p]) /\ Pair(R2, M2, P2, S, Q, N2, I, J, ~prompted')
  PROVE  Stages' /\ \A e \in Devices : AtEnd(e)' /\ Linked(e)'
<1>1. TypeOK /\ Stages
  BY DEF InSession
<1>2. commands \in Nat /\ next[d] \in Nat /\ next[d] <= 2 + 2 * commands
  BY <1>1, IdsFacts DEF TypeOK, Stages, Stage
<1>3. next'[d] <= 2 + 2 * commands'
  BY <1>2 DEF ActsAlone
<1>4. seen[d] # 0 /\ Reads(d)
  BY <1>1 DEF Stages, Stage, Reads
<1>5. next'[d] \in Own(d)
  BY <1>1 DEF Stages, Stage
<1>6. Stages'
  BY <1>1, <1>3, <1>4, <1>5, StagesKept
<1>7. Given(d)' = I
  BY DEF Given, Own, ActsAlone
<1>8. Reads(p) => /\ Side(S, N2, Q, J, I)
                  /\ Link(R2, M2, S, Q, N2, I, ~prompted')
                  /\ Link(S, N2, R2, P2, M2, J, ~prompted')
  BY DEF Pair
<1>9. PICK I2 : I2 = Given(d)' /\ I2 = I
  BY <1>7
<1>10. \A e \in Devices : AtEnd(e)' /\ Linked(e)'
  BY <1>4, <1>8, <1>9, EndsKept
<1> QED BY <1>6, <1>10

\* The message d reads next.
LEMMA TakesHead ==
  ASSUME InSession, NEW d \in Devices, chan[d] # <<>>, Head(chan[d]).of = at[d]
  PROVE  /\ at[d] = 1 /\ Head(chan[d]) \in Message
         /\ Tail(chan[d]) \in Seq(Message) /\ Queued(Tail(chan[d]))
         /\ Takes(Elems(chan[d]), Head(chan[d]), Elems(Tail(chan[d])))
<1>1. PICK s \in Seq(Message) : s = chan[d]
  BY DEF InSession, TypeOK
<1>2. s # <<>> /\ Head(s).of = at[d]
  BY <1>1
<1>3. Reads(d)
  BY DEF InSession, Stages, Stage
<1>4. PICK p : p = Other(d)
  OBVIOUS
<1>5. Queued(s) /\ Side(Elems(routes[d]), Elems(s), Elems(prompts[d]), Given(d), Given(p))
  BY <1>1, <1>3, <1>4, EndsBefore
<1>6. /\ Tail(s) \in Seq(Message) /\ Head(s) \in Elems(s)
      /\ Elems(Tail(s)) \subseteq Elems(s) /\ Elems(s) \subseteq Elems(Tail(s)) \cup {Head(s)}
      /\ Queued(Tail(s))
      /\ Head(s).type \in {"Request", "Stop"} =>
                   \A e \in Elems(Tail(s)) : e.type = "Request" => e.id # Head(s).id
  BY <1>2, <1>5, ElemsTail
<1>7. at[d] = 1
  BY <1>2, <1>5, <1>6 DEF Side
<1>8. Head(s) \in Message
  BY <1>2, HeadTailProperties
<1>9. Takes(Elems(s), Head(s), Elems(Tail(s)))
  BY <1>6 DEF Takes
<1> QED BY <1>1, <1>6, <1>7, <1>8, <1>9

\* A step of d that tells nobody.
LEMMA Quietly ==
  ASSUME InSession, NEW d \in Devices, chan'[Other(d)] = chan[Other(d)],
         UNCHANGED <<sessionVars, next, commands>>,
         routes'[Other(d)] = routes[Other(d)], saved'[Other(d)] = saved[Other(d)],
         prompts'[Other(d)] = prompts[Other(d)]
  PROVE  ActsAlone(d) /\ next'[d] = next[d]
BY DEF ActsAlone, sessionVars, InSession, Stages

\* None of a session's routes is paused, so that accept_route adds one.
LEMMA AcceptIs ==
  ASSUME InSession, NEW d \in Devices, at[d] = 1, NEW i \in Ids, NEW f \in Flows,
         \A r \in Elems(routes[d]) : r.st # "Paused" /\ r.id # i, Distinct(routes[d]),
         AcceptRoute(d, i, f)
  PROVE  /\ routes'[Other(d)] = routes[Other(d)]
         /\ NewRoute(i, f, "Starting", FALSE) \in Route
         /\ Elems(routes'[d]) = Elems(routes[d]) \cup {NewRoute(i, f, "Starting", FALSE)}
         /\ Distinct(routes'[d])
<1>1. PICK s \in Seq(Route) : s = routes[d] /\ DOMAIN s = 1 .. Len(s)
  BY LenProperties DEF InSession, TypeOK
<1>2. PICK K : K = {k \in DOMAIN s : LET r == s[k] IN
                                     ~(r.st = "Paused" /\ (r.flow = f \/ r.id = i))}
  OBVIOUS
<1>3. PICK kept : kept = Part(s, K)
  OBVIOUS
<1>4. PICK r \in Route : r = NewRoute(i, f, "Starting", FALSE) /\ r.id = i
  BY NewRouteTyped DEF Statuses, NewRoute
<1>5. \A k \in 1 .. Len(s) : s[k].st # "Paused" /\ s[k].id # i
  BY <1>1 DEF Elems
<1>6. kept = s
  <2>1. 1 .. Len(s) \subseteq K
    BY <1>1, <1>2, <1>5
  <2> QED BY <1>3, <2>1, PartIs
<1>7. FirstByKey(s, i) = 0
  BY <1>5, FirstByKeyIs
<1>8. routes' = [routes EXCEPT ![d] =
               IF FirstByKey(kept, i) # 0 \/ at[d] = 0 THEN kept ELSE Append(kept, r)]
  BY <1>1, <1>2, <1>3, <1>4 DEF AcceptRoute
<1>9. routes'[d] = Append(s, r) /\ routes'[Other(d)] = routes[Other(d)]
  BY <1>6, <1>7, <1>8, OtherDevice DEF InSession, TypeOK
<1>10. \A e \in Elems(s) : e.id # r.id
  BY <1>1, <1>4
<1>11. Elems(Append(s, r)) = Elems(s) \cup {r} /\ Distinct(Append(s, r))
  BY <1>1, <1>10, ElemsAppend
<1> QED BY <1>1, <1>4, <1>9, <1>11

\* The messages M and n.
More(M2, M, n) == M2 = M \cup {n}

\* One message to the peer, behind what is under way to it.
LEMMA Behind ==
  ASSUME TypeOK, Stages, NEW d \in Devices, NEW p, p = Other(d),
         NEW ch \in [Devices -> Seq(Message)], ch[p] = chan[p],
         NEW t \in Kinds, t # "Request", NEW i \in Ids, NEW f \in Flows,
         NEW c, c = Tell(ch, d, t, i, f), NEW n, n = Msg(1, t, i, f)
  PROVE  /\ c[d] = ch[d] /\ n.of = 1 /\ n.type = t /\ n.id = i
         /\ at[d] = 0 \/ ~Reads(p) => c[p] = chan[p]
         /\ at[d] = 1 /\ Reads(p) => /\ More(Elems(c[p]), Elems(chan[p]), n)
                                     /\ Queued(chan[p]) => Queued(c[p])
<1>1. n.of = 1 /\ n.type = t /\ n.id = i
  BY DEF Msg
<1>2. ch[Other(d)] = chan[Other(d)]
  OBVIOUS
<1>3. /\ Tell(ch, d, t, i, f)[d] = ch[d]
      /\ at[d] = 0 \/ ~Reads(Other(d)) => Tell(ch, d, t, i, f)[Other(d)] = chan[Other(d)]
      /\ at[d] = 1 /\ Reads(Other(d)) =>
              /\ Elems(Tell(ch, d, t, i, f)[Other(d)]) = Elems(chan[Other(d)]) \cup {Msg(1, t, i, f)}
              /\ /\ Queued(chan[Other(d)])
                 /\ t = "Request" => \A m \in Elems(chan[Other(d)]) : m.id # i
                 => Queued(Tell(ch, d, t, i, f)[Other(d)])
  BY <1>2, Told
<1>4. at[d] = 1 /\ Reads(Other(d)) =>
        More(Elems(Tell(ch, d, t, i, f)[Other(d)]), Elems(chan[Other(d)]), Msg(1, t, i, f))
  BY <1>3 DEF More
<1> QED BY <1>1, <1>3, <1>4

\* d has refused, or has said that it runs, the route with id i.
Answers(d, p, t, i, n, s) ==
  /\ n.of = 1 /\ n.type = t /\ n.id = i /\ chan'[d] = s
  /\ at[d] = 0 \/ ~Reads(p) => chan'[p] = chan[p]
  /\ at[d] = 1 /\ Reads(p) => /\ More(Elems(chan'[p]), Elems(chan[p]), n)
                              /\ Queued(chan[p]) => Queued(chan'[p])

\* An answer goes to the other end.
LEMMA Answered ==
  ASSUME InSession, NEW d \in Devices, NEW p, p = Other(d), NEW i \in Ids, NEW f \in Flows,
         NEW ch \in [Devices -> Seq(Message)], ch[p] = chan[p],
         NEW t \in {"Accept", "Reject"}, chan' = Tell(ch, d, t, i, f)
  PROVE  \E n : Answers(d, p, t, i, n, ch[d])
<1>1. TypeOK /\ Stages
  BY DEF InSession
<1>2. t \in Kinds /\ t # "Request"
  BY DEF Kinds
<1>3. PICK n : n = Msg(1, t, i, f)
  OBVIOUS
<1>4. PICK c : c = Tell(ch, d, t, i, f)
  OBVIOUS
<1>5. n.of = 1 /\ n.type = t /\ n.id = i
  BY <1>3 DEF Msg
<1>11. c[d] = ch[d]
  BY <1>1, <1>2, <1>3, <1>4, Behind
<1>7. at[d] = 0 \/ ~Reads(p) => c[p] = chan[p]
  BY <1>1, <1>2, <1>3, <1>4, Behind
<1>8. ASSUME at[d] = 1, Reads(p)
      PROVE  More(Elems(c[p]), Elems(chan[p]), n)
  BY <1>1, <1>2, <1>3, <1>4, <1>8, Behind
<1>10. ASSUME at[d] = 1, Reads(p), Queued(chan[p])
       PROVE  Queued(c[p])
  BY <1>1, <1>2, <1>3, <1>4, <1>10, Behind
<1>9. chan' = c
  BY <1>4
<1>6. Answers(d, p, t, i, n, ch[d])
  BY <1>5, <1>7, <1>8, <1>9, <1>10, <1>11 DEF Answers
<1> QED BY <1>6

\* Each message, by the handler it has.
LEMMA ReceiveRequest ==
  ASSUME InSession, NEW d \in Devices, at[d] = 1, NEW m \in Message, m.type = "Request",
         NEW t \in Seq(Message), Queued(t), Takes(Elems(chan[d]), m, Elems(t)),
         NEW p, p = Other(d),
         NEW ch \in [Devices -> Seq(Message)], ch[d] = t, ch[p] = chan[p],
         OnRequest(d, m, ch), UNCHANGED <<saved, sessionVars, next, commands>>
  PROVE  Stages' /\ \A e \in Devices : AtEnd(e)' /\ Linked(e)'
<1> DEFINE R == Elems(routes[d])
           M == Elems(chan[d])
           P == Elems(prompts[d])
           S == Elems(routes[p])
           N == Elems(chan[p])
           Q == Elems(prompts[p])
           I == Given(d)
           J == Given(p)
           M2 == Elems(t)
<1>3. /\ p \in Devices /\ p # d /\ Other(p) = d /\ I \cap J = {} /\ Reads(d)
      /\ Distinct(routes[d]) /\ Distinct(prompts[d]) /\ Queued(chan[d])
      /\ Side(R, M, P, I, J)
      /\ Reads(p) => Queued(chan[p]) /\ Pair(R, M, P, S, Q, N, I, J, ~prompted)
  BY PairBefore
<1>4. Takes(M, m, M2)
  OBVIOUS
<1>6. m.id \in Ids /\ m.flow \in Flows /\ m \in M
  BY <1>4 DEF Message, Takes
<1> HIDE DEF R, M, P, S, N, Q, I, J, M2
<1>7. /\ \A q \in P : q.id # m.id
      /\ \A r \in R : r.id # m.id /\ r.st # "Paused"
  BY <1>3, <1>6 DEF Side
<1>8. CASE /\ chan' = Tell(ch, d, "Reject", m.id, m.flow)
           /\ UNCHANGED <<routes, promptVars>>
  <2>0. PICK k \in {"Accept", "Reject"} : k = "Reject"
    OBVIOUS
  <2>1. PICK n : Answers(d, p, k, m.id, n, ch[d])
    BY <1>6, <1>8, <2>0, Answered
  <2>2. n.of = 1 /\ n.type = "Reject" /\ n.id = m.id
    BY <2>0, <2>1 DEF Answers
  <2>3. /\ chan'[d] = t
        /\ ~Reads(p) => chan'[p] = chan[p]
        /\ Reads(p) => Elems(chan'[p]) = N \cup {n} /\ (Queued(chan[p]) => Queued(chan'[p]))
    BY <2>1 DEF Answers, More, N
  <2>4. ActsAlone(d) /\ next'[d] = next[d]
    BY <1>8, <2>3 DEF ActsAlone, sessionVars, promptVars, InSession, Stages
  <2>5. (~prompted) \in BOOLEAN
    OBVIOUS
  <2>6. /\ Side(R, M2, P, I, J)
        /\ Pair(R, M, P, S, Q, N, I, J, ~prompted)
              => Pair(R, M2, P, S, Q, N \cup {n}, I, J, ~prompted)
    BY <1>3, <1>4, <2>2, <2>5, Refused
  <2>7. R = Elems(routes'[d]) /\ M2 = Elems(chan'[d]) /\ P = Elems(prompts'[d])
        /\ prompted' = prompted
    BY <1>8, <2>3 DEF R, M2, P, promptVars
  <2>8. Distinct(routes'[d]) /\ Distinct(prompts'[d]) /\ Queued(chan'[d])
    BY <1>3, <1>8, <2>3 DEF promptVars
  <2>9. PICK N2 : N2 = Elems(chan'[p])
    OBVIOUS
  <2>10. Reads(p) => Queued(chan'[p]) /\ Pair(R, M2, P, S, Q, N2, I, J, ~prompted')
    BY <1>3, <2>3, <2>6, <2>7, <2>9
  <2> QED BY <2>4, <2>6, <2>7, <2>8, <2>9, <2>10, PairKept DEF S, Q, I, J
<1>9. CASE AcceptRoute(d, m.id, m.flow) /\ chan' = ch /\ UNCHANGED promptVars
  <2>1. PICK r \in Route : r = NewRoute(m.id, m.flow, "Starting", FALSE)
    BY <1>6, NewRouteTyped DEF Statuses
  <2>2. r.id = m.id /\ r.flow = m.flow /\ r.st = "Starting" /\ ~r.mine
    BY <2>1 DEF NewRoute
  <2>3. /\ routes'[p] = routes[p] /\ Elems(routes'[d]) = R \cup {r} /\ Distinct(routes'[d])
    BY <1>3, <1>6, <1>7, <1>9, <2>1, AcceptIs DEF R
  <2>14. chan'[d] = t /\ chan'[p] = chan[p] /\ prompts'[p] = prompts[p]
    BY <1>9 DEF promptVars
  <2>4. /\ ActsAlone(d) /\ chan'[d] = t /\ chan'[p] = chan[p] /\ next'[d] = next[d]
    BY <1>9, <2>14, <2>3, Quietly DEF promptVars
  <2>5. (~prompted) \in BOOLEAN
    OBVIOUS
  <2>6. /\ Side(R \cup {r}, M2, P, I, J)
        /\ Pair(R, M, P, S, Q, N, I, J, ~prompted)
              => Pair(R \cup {r}, M2, P, S, Q, N, I, J, ~prompted)
    BY <1>3, <1>4, <2>2, <2>5, Accepted
  <2>7. M2 = Elems(chan'[d]) /\ P = Elems(prompts'[d]) /\ N = Elems(chan'[p])
        /\ prompted' = prompted
    BY <1>9, <2>4 DEF M2, P, N, promptVars
  <2>8. Distinct(prompts'[d]) /\ Queued(chan'[d])
    BY <1>3, <1>9, <2>4 DEF promptVars
  <2>9. PICK R2 : R2 = Elems(routes'[d])
    OBVIOUS
  <2>10. /\ Side(R2, M2, P, I, J)
         /\ Reads(p) => Queued(chan'[p]) /\ Pair(R2, M2, P, S, Q, N, I, J, ~prompted')
    BY <1>3, <2>3, <2>4, <2>6, <2>7, <2>9
  <2> QED BY <2>3, <2>4, <2>7, <2>8, <2>9, <2>10, PairKept DEF S, Q, I, J
<1>10. CASE /\ prompted' = TRUE
            /\ prompts' = [prompts EXCEPT ![d] = Append(@, [id |-> m.id, flow |-> m.flow])]
            /\ chan' = ch /\ UNCHANGED routes
  <2>1. PICK q \in [id: Ids, flow: Flows] : /\ q = [id |-> m.id, flow |-> m.flow]
                                            /\ q.id = m.id /\ q.flow = m.flow
    <3>1. PICK q : q = [id |-> m.id, flow |-> m.flow]
      OBVIOUS
    <3>2. q \in [id: Ids, flow: Flows] /\ q.id = m.id /\ q.flow = m.flow
      BY <1>6, <3>1
    <3> QED BY <3>1, <3>2
  <2>2. PICK T : T = [id: Ids, flow: Flows]
    OBVIOUS
  <2>12. PICK s \in Seq(T) : s = prompts[d]
    BY <2>2 DEF InSession, TypeOK
  <2>3. Elems(Append(s, q)) = P \cup {q} /\ Distinct(Append(s, q))
    <3>1. \A e \in Elems(s) : e.id # q.id
      BY <1>7, <2>1, <2>12 DEF P
    <3>2. Distinct(s) /\ Elems(s) = P /\ q \in T
      BY <1>3, <2>1, <2>2, <2>12 DEF P
    <3>3. Elems(Append(s, q)) = Elems(s) \cup {q} /\ Distinct(Append(s, q))
      BY <3>1, <3>2, ElemsAppend
    <3> QED BY <3>2, <3>3
  <2>4. prompts'[d] = Append(s, q) /\ prompts'[p] = prompts[p]
    BY <1>3, <1>10, <2>1, <2>12 DEF InSession, TypeOK
  <2>5. /\ ActsAlone(d) /\ chan'[d] = t /\ chan'[p] = chan[p] /\ next'[d] = next[d]
    BY <1>10, <2>4, Quietly
  <2>6. (~prompted) \in BOOLEAN
    OBVIOUS
  <2>7. /\ Side(R, M2, P \cup {q}, I, J)
        /\ Pair(R, M, P, S, Q, N, I, J, ~prompted)
              => Pair(R, M2, P \cup {q}, S, Q, N, I, J, FALSE)
    BY <1>3, <1>4, <2>1, <2>6, Prompted
  <2>8. M2 = Elems(chan'[d]) /\ R = Elems(routes'[d]) /\ N = Elems(chan'[p])
        /\ (~prompted') = FALSE
    BY <1>10, <2>5 DEF M2, R, N
  <2>9. Distinct(prompts'[d]) /\ Queued(chan'[d]) /\ Distinct(routes'[d])
    BY <1>3, <1>10, <2>3, <2>4, <2>5
  <2>10. PICK P2 : P2 = Elems(prompts'[d])
    OBVIOUS
  <2>11. /\ Side(R, M2, P2, I, J)
         /\ Reads(p) => Queued(chan'[p]) /\ Pair(R, M2, P2, S, Q, N, I, J, ~prompted')
    BY <1>3, <2>3, <2>4, <2>5, <2>7, <2>8, <2>10
  <2> QED BY <2>5, <2>8, <2>9, <2>10, <2>11, PairKept DEF S, Q, I, J
<1> QED BY <1>8, <1>9, <1>10 DEF OnRequest

LEMMA ReceiveAccept ==
  ASSUME InSession, NEW d \in Devices, at[d] = 1, NEW m \in Message, m.type = "Accept",
         NEW t \in Seq(Message), Queued(t), Takes(Elems(chan[d]), m, Elems(t)),
         NEW p, p = Other(d),
         NEW ch \in [Devices -> Seq(Message)], ch[d] = t, ch[p] = chan[p],
         OnAccept(d, m, ch), UNCHANGED <<saved, promptVars, sessionVars, next, commands>>
  PROVE  Stages' /\ \A e \in Devices : AtEnd(e)' /\ Linked(e)'
<1> DEFINE R == Elems(routes[d])
           M == Elems(chan[d])
           P == Elems(prompts[d])
           S == Elems(routes[p])
           N == Elems(chan[p])
           Q == Elems(prompts[p])
           I == Given(d)
           J == Given(p)
           M2 == Elems(t)
<1>1. /\ p \in Devices /\ p # d /\ Other(p) = d /\ I \cap J = {} /\ Reads(d)
      /\ Distinct(routes[d]) /\ Distinct(prompts[d]) /\ Queued(chan[d])
      /\ Side(R, M, P, I, J)
      /\ Reads(p) => Queued(chan[p]) /\ Pair(R, M, P, S, Q, N, I, J, ~prompted)
  BY PairBefore
<1>2. Takes(M, m, M2)
  OBVIOUS
<1> HIDE DEF R, M, P, S, N, Q, I, J, M2
<1>3. PICK s \in Seq(Route) : s = routes[d] /\ DOMAIN s = 1 .. Len(s) /\ Len(s) \in Nat
                              /\ \A k \in 1 .. Len(s) : s[k] \in Route
  BY LenProperties, ElementOfSeq DEF InSession, TypeOK
<1>4. PICK K : K = {k \in DOMAIN s : s[k].id = m.id /\ s[k].st = "Requesting"}
  OBVIOUS
<1>5. PICK i : i = First(K)
  OBVIOUS
<1>6. K \in SUBSET (Nat \ {0}) /\ (i # 0 => i \in K)
  <2>1. K \in SUBSET (Nat \ {0})
    BY <1>3, <1>4
  <2> QED BY <1>5, <2>1, FirstIs
<1>7. /\ chan' = ch
      /\ routes' = IF i = 0 THEN routes
                   ELSE [routes EXCEPT ![d] =
                           Append(Without(@, i), [@[i] EXCEPT !.st = "Starting"])]
  BY <1>3, <1>4, <1>5 DEF OnAccept
<1>8. routes'[p] = routes[p] /\ prompts'[p] = prompts[p] /\ saved'[p] = saved[p]
  BY <1>1, <1>7 DEF InSession, TypeOK, promptVars
<1>9. ActsAlone(d) /\ chan'[d] = t /\ chan'[p] = chan[p] /\ next'[d] = next[d]
  BY <1>7, <1>8, Quietly
<1>10. /\ M2 = Elems(chan'[d]) /\ P = Elems(prompts'[d]) /\ N = Elems(chan'[p])
       /\ prompted' = prompted /\ Distinct(prompts'[d]) /\ Queued(chan'[d])
  BY <1>1, <1>9 DEF M2, P, N, promptVars
<1>11. (~prompted) \in BOOLEAN
  OBVIOUS
<1>12. ASSUME NEW R2, R2 = Elems(routes'[d]), Distinct(routes'[d]), Side(R2, M2, P, I, J),
              Pair(R, M, P, S, Q, N, I, J, ~prompted)
                => Pair(R2, M2, P, S, Q, N, I, J, ~prompted)
       PROVE  Stages' /\ \A e \in Devices : AtEnd(e)' /\ Linked(e)'
  <2>1. Reads(p) => Queued(chan'[p]) /\ Pair(R2, M2, P, S, Q, N, I, J, ~prompted')
    BY <1>1, <1>9, <1>10, <1>12
  <2> QED BY <1>9, <1>10, <1>12, <2>1, PairKept DEF S, Q, I, J
<1>13. CASE i = 0
  <2>1. R = Elems(routes'[d]) /\ Distinct(routes'[d])
    BY <1>1, <1>7, <1>13 DEF R
  <2>2. /\ Side(R, M2, P, I, J)
        /\ Pair(R, M, P, S, Q, N, I, J, ~prompted)
             => Pair(R, M2, P, S, Q, N, I, J, ~prompted)
    BY <1>1, <1>2, <1>11, NotWaited
  <2> QED BY <1>12, <2>1, <2>2
<1>14. CASE i # 0
  <2>1. i \in 1 .. Len(s) /\ s[i].id = m.id /\ s[i].st = "Requesting"
    BY <1>3, <1>4, <1>6, <1>14
  <2>2. PICK r \in Route : r = s[i] /\ r \in R
    BY <1>3, <2>1 DEF R, Elems
  <2>3. PICK r2 : r2 = [r EXCEPT !.st = "Starting"]
    OBVIOUS
  <2>4. /\ r2 \in Route /\ r2.id = r.id /\ r2.flow = r.flow /\ r2.mine = r.mine
        /\ r2.st = "Starting"
    BY <2>2, <2>3 DEF Route, Statuses
  <2>5. PICK w \in Seq(Route) : /\ w = Without(s, i) /\ Elems(w) = R \ {r} /\ Distinct(w)
                                /\ Elems(w) = {e \in R : e.id # r.id}
    BY <1>1, <1>3, <2>1, <2>2, ElemsWithout DEF R
  <2>6. Elems(Append(w, r2)) = Elems(w) \cup {r2} /\ Distinct(Append(w, r2))
    <3>1. \A e \in Elems(w) : e.id # r2.id
      BY <2>4, <2>5
    <3> QED BY <2>4, <2>5, <3>1, ElemsAppend
  <2>7. routes'[d] = Append(w, r2)
    BY <1>3, <1>7, <1>14, <2>2, <2>3, <2>5 DEF InSession, TypeOK
  <2>8. PICK R2 : R2 = (R \ {r}) \cup {r2} /\ R2 = Swapped(R, r, r2)
    BY DEF Swapped
  <2>9. R2 = Elems(routes'[d]) /\ Distinct(routes'[d])
    BY <2>5, <2>6, <2>7, <2>8
  <2>10. /\ Side(R2, M2, P, I, J)
         /\ Pair(R, M, P, S, Q, N, I, J, ~prompted)
              => Pair(R2, M2, P, S, Q, N, I, J, ~prompted)
    <3>1. r \in R /\ r.id = m.id /\ r.st = "Requesting" /\ R2 = Swapped(R, r, r2)
      BY <2>1, <2>2, <2>8
    <3>2. r2.id = r.id /\ r2.flow = r.flow /\ r2.mine = r.mine /\ r2.st = "Starting"
      BY <2>4
    <3>3. I \cap J = {} /\ Side(R, M, P, I, J)
      BY <1>1
    <3> QED BY <1>2, <1>11, <3>1, <3>2, <3>3, Begins
  <2> QED BY <1>12, <2>9, <2>10
<1> QED BY <1>13, <1>14

\* The end of a route takes it out of the list.
LEMMA EndTakesOut ==
  ASSUME InSession, NEW d \in Devices, at[d] = 1, NEW m \in Message, NEW ch,
         Distinct(routes[d]),
         \/ OnReject(d, m, ch) /\ UNCHANGED saved
         \/ OnStop(d, m, ch)
  PROVE  /\ Elems(routes'[d]) = {r \in Elems(routes[d]) : r.id # m.id}
         /\ Distinct(routes'[d]) /\ chan' = ch
         /\ \A e \in Devices \ {d} : routes'[e] = routes[e] /\ saved'[e] = saved[e]
<1>1. PICK s \in Seq(Route) : s = routes[d] /\ DOMAIN s = 1 .. Len(s) /\ Len(s) \in Nat
  BY LenProperties DEF InSession, TypeOK
<1>2. CASE OnReject(d, m, ch) /\ UNCHANGED saved
  <2>1. PICK j : j = FirstByKey(s, m.id)
    OBVIOUS
  <2>2. routes' = [routes EXCEPT ![d] = Without(s, j)] /\ chan' = ch
    BY <1>1, <1>2, <2>1 DEF OnReject, WithoutKey
  <2>3. CASE j = 0
    <3>1. \A k \in 1 .. Len(s) : s[k].id # m.id
      BY <2>1, <2>3, FirstByKeyIs
    <3>2. Without(s, j) = s
      <4>1. PICK K : K = DOMAIN s \ {j}
        OBVIOUS
      <4>2. 1 .. Len(s) \subseteq K
        BY <1>1, <2>3, <4>1
      <4>3. Part(s, K) = s
        BY <4>2, PartIs
      <4> QED BY <4>1, <4>3 DEF Without
    <3>3. Elems(s) = {r \in Elems(s) : r.id # m.id}
      BY <3>1 DEF Elems
    <3> QED BY <1>1, <1>2, <2>2, <3>2, <3>3 DEF InSession, TypeOK
  <2>4. CASE j # 0
    <3>1. j \in 1 .. Len(s) /\ s[j].id = m.id
      BY <2>1, <2>4, FirstByKeyIs
    <3>2. Elems(Without(s, j)) = {r \in Elems(s) : r.id # s[j].id} /\ Distinct(Without(s, j))
      BY <1>1, <3>1, ElemsWithout
    <3>3. routes'[d] = Without(s, j)
      BY <2>2 DEF InSession, TypeOK
    <3> QED BY <1>1, <1>2, <2>2, <3>1, <3>2, <3>3 DEF InSession, TypeOK
  <2> QED BY <2>3, <2>4
<1>3. CASE OnStop(d, m, ch)
  <2>1. PICK x \in Lists : x = [routes |-> routes[d], saved |-> saved[d]] /\ x.routes = s
    <3>1. PICK x : x = [routes |-> routes[d], saved |-> saved[d]]
      OBVIOUS
    <3> QED BY <1>1, <3>1 DEF Lists, InSession, TypeOK
  <2>2. PICK rs : rs = <<m>>
    OBVIOUS
  <2>3. Len(rs) = 1 /\ rs[1] = m /\ 1 \in 1 .. Len(rs) /\ \A l \in 1 .. Len(rs) : l = 1
    BY <2>2
  <2>4. PICK y \in Lists : y = StoppedEach(x, rs)
    BY <2>3, StoppedEachTyped
  <2>5. Distinct(x.routes)
    BY <1>1, <2>1
  <2>6. /\ Distinct(y.routes)
        /\ Elems(y.routes) = {r \in Elems(x.routes) : \A l \in 1 .. Len(rs) : rs[l].id # r.id}
    <3>1. /\ Elems(y.routes) \subseteq Elems(x.routes)
          /\ Distinct(x.routes) =>
               /\ Distinct(y.routes)
               /\ Elems(y.routes)
                     = {r \in Elems(x.routes) : \A l \in 1 .. Len(rs) : rs[l].id # r.id}
      <4>1. Len(rs) \in Nat
        BY <2>3
      <4>2. /\ Elems(StoppedEach(x, rs).routes) \subseteq Elems(x.routes)
            /\ Distinct(x.routes) =>
                 /\ Distinct(StoppedEach(x, rs).routes)
                 /\ Elems(StoppedEach(x, rs).routes)
                       = {r \in Elems(x.routes) : \A l \in 1 .. Len(rs) : rs[l].id # r.id}
            /\ rs = <<>> => StoppedEach(x, rs) = x
        BY <4>1, StoppedEachIn
      <4> QED BY <2>4, <4>2
    <3> QED BY <2>5, <3>1
  <2>7. Elems(y.routes) = {r \in Elems(s) : r.id # m.id}
    BY <2>1, <2>3, <2>6
  <2>8. /\ routes' = [routes EXCEPT ![d] = y.routes]
        /\ saved' = [saved EXCEPT ![d] = y.saved] /\ chan' = ch
    BY <1>3, <2>1, <2>2, <2>4 DEF OnStop, StopEach
  <2>9. routes'[d] = y.routes
    BY <2>8 DEF InSession, TypeOK
  <2> QED BY <1>1, <2>6, <2>7, <2>8, <2>9 DEF InSession, TypeOK
<1> QED BY <1>2, <1>3

LEMMA ReceiveEnd ==
  ASSUME InSession, NEW d \in Devices, at[d] = 1, NEW m \in Message, m.type \in Ends,
         NEW t \in Seq(Message), Queued(t), Takes(Elems(chan[d]), m, Elems(t)),
         NEW p, p = Other(d),
         NEW ch \in [Devices -> Seq(Message)], ch[d] = t, ch[p] = chan[p],
         \/ OnReject(d, m, ch) /\ UNCHANGED saved
         \/ OnStop(d, m, ch),
         UNCHANGED <<promptVars, sessionVars, next, commands>>
  PROVE  Stages' /\ \A e \in Devices : AtEnd(e)' /\ Linked(e)'
<1> DEFINE R == Elems(routes[d])
           M == Elems(chan[d])
           P == Elems(prompts[d])
           S == Elems(routes[p])
           N == Elems(chan[p])
           Q == Elems(prompts[p])
           I == Given(d)
           J == Given(p)
           M2 == Elems(t)
<1>1. /\ p \in Devices /\ p # d /\ Other(p) = d /\ I \cap J = {} /\ Reads(d)
      /\ Distinct(routes[d]) /\ Distinct(prompts[d]) /\ Queued(chan[d])
      /\ Side(R, M, P, I, J)
      /\ Reads(p) => Queued(chan[p]) /\ Pair(R, M, P, S, Q, N, I, J, ~prompted)
  BY PairBefore
<1>2. Takes(M, m, M2)
  OBVIOUS
<1>3. /\ Elems(routes'[d]) = {r \in Elems(routes[d]) : r.id # m.id}
      /\ Distinct(routes'[d]) /\ chan' = ch
      /\ \A e \in Devices \ {d} : routes'[e] = routes[e] /\ saved'[e] = saved[e]
  BY <1>1, EndTakesOut
<1> HIDE DEF R, M, P, S, N, Q, I, J, M2
<1>4. routes'[p] = routes[p] /\ prompts'[p] = prompts[p] /\ saved'[p] = saved[p]
  BY <1>1, <1>3 DEF promptVars
<1>5. ActsAlone(d) /\ chan'[d] = t /\ chan'[p] = chan[p] /\ next'[d] = next[d]
  BY <1>3, <1>4, Quietly
<1>6. PICK R2 : R2 = Elems(routes'[d]) /\ R2 = Rest(R, m)
  BY <1>3 DEF R, Rest
<1>7. /\ M2 = Elems(chan'[d]) /\ P = Elems(prompts'[d]) /\ N = Elems(chan'[p])
      /\ prompted' = prompted /\ Distinct(prompts'[d]) /\ Queued(chan'[d])
  BY <1>1, <1>5 DEF M2, P, N, promptVars
<1>8. (~prompted) \in BOOLEAN
  OBVIOUS
<1>9. /\ Side(R2, M2, P, I, J)
      /\ Pair(R, M, P, S, Q, N, I, J, ~prompted)
           => Pair(R2, M2, P, S, Q, N, I, J, ~prompted)
  BY <1>1, <1>2, <1>6, <1>8, Ended
<1>10. Reads(p) => Queued(chan'[p]) /\ Pair(R2, M2, P, S, Q, N, I, J, ~prompted')
  BY <1>1, <1>5, <1>7, <1>9
<1> QED BY <1>3, <1>5, <1>6, <1>7, <1>9, <1>10, PairKept DEF S, Q, I, J

\* A device handles a message.
LEMMA SessionReceive ==
  ASSUME InSession, NEW d \in Devices, Receive(d)
  PROVE  Stages' /\ \A e \in Devices : AtEnd(e)' /\ Linked(e)'
<1>1. chan[d] # <<>> /\ Head(chan[d]).of = at[d]
  BY DEF Receive
<1>2. PICK m \in Message : m = Head(chan[d])
  BY <1>1, TakesHead
<1>3. PICK t \in Seq(Message) : /\ t = Tail(chan[d]) /\ at[d] = 1 /\ Queued(t)
                                /\ Takes(Elems(chan[d]), m, Elems(t))
  BY <1>1, <1>2, TakesHead
<1>4. PICK p \in Devices : p = Other(d) /\ p # d
  BY OtherDevice
<1>5. PICK ch \in [Devices -> Seq(Message)] :
         ch = [chan EXCEPT ![d] = Tail(@)] /\ ch[d] = t /\ ch[p] = chan[p]
  <2>1. chan \in [Devices -> Seq(Message)]
    BY DEF InSession, TypeOK
  <2>2. PICK ch : ch = [chan EXCEPT ![d] = t]
    OBVIOUS
  <2>3. ch \in [Devices -> Seq(Message)] /\ ch[d] = t /\ ch[p] = chan[p]
    BY <1>4, <2>1, <2>2
  <2> QED BY <1>3, <2>2, <2>3
<1>6. /\ \/ m.type = "Request" /\ OnRequest(d, m, ch) /\ UNCHANGED saved
         \/ m.type = "Accept" /\ OnAccept(d, m, ch) /\ UNCHANGED <<saved, promptVars>>
         \/ m.type = "Reject" /\ OnReject(d, m, ch) /\ UNCHANGED <<saved, promptVars>>
         \/ m.type = "Stop" /\ OnStop(d, m, ch) /\ UNCHANGED promptVars
      /\ UNCHANGED <<userVars, sessionVars, next, losses, timeouts, commands>>
  BY <1>2, <1>5 DEF Receive
<1>7. CASE m.type = "Request" /\ OnRequest(d, m, ch) /\ UNCHANGED saved
  BY <1>3, <1>4, <1>5, <1>6, <1>7, ReceiveRequest
<1>8. CASE m.type = "Accept" /\ OnAccept(d, m, ch) /\ UNCHANGED <<saved, promptVars>>
  BY <1>3, <1>4, <1>5, <1>6, <1>8, ReceiveAccept
<1>9. CASE m.type = "Reject" /\ OnReject(d, m, ch) /\ UNCHANGED <<saved, promptVars>>
  BY <1>3, <1>4, <1>5, <1>6, <1>9, ReceiveEnd DEF Ends
<1>10. CASE m.type = "Stop" /\ OnStop(d, m, ch) /\ UNCHANGED promptVars
  BY <1>3, <1>4, <1>5, <1>6, <1>10, ReceiveEnd DEF Ends
<1> QED BY <1>6, <1>7, <1>8, <1>9, <1>10

----------------------------------------------------------------------------
(* What a device does about prompts and pipelines. *)

\* A prompt is refused.
LEMMA PromptRefused ==
  ASSUME NEW R, NEW M, NEW P, NEW S, NEW Q, NEW N, NEW I, NEW J, NEW quiet \in BOOLEAN,
         I \cap J = {}, Side(R, M, P, I, J),
         NEW q \in P, NEW P2, P2 = Rest(P, q),
         NEW n, n.of = 1, n.type = "Reject", n.id = q.id
  PROVE  /\ Side(R, M, P2, I, J)
         /\ Pair(R, M, P, S, Q, N, I, J, quiet)
              => Pair(R, M, P2, S, Q, N \cup {n}, I, J, quiet)
<1> USE DEF Pair
<1>1. P2 \in SUBSET P /\ (\A x \in P2 : x.id # n.id) /\ M \in SUBSET M /\ R \in SUBSET R
  BY DEF Rest
<1>2. Side(R, M, P2, I, J)
  BY <1>1, SideLess
<1> SUFFICES ASSUME Pair(R, M, P, S, Q, N, I, J, quiet)
             PROVE  Pair(R, M, P2, S, Q, N \cup {n}, I, J, quiet)
  BY <1>2
<1>3. Side(S, N \cup {n}, Q, J, I)
  <2>1. n.id \in J
    BY DEF Side
  <2> QED BY <2>1, SideMessage
<1>4. Link(R, M, S, Q, N \cup {n}, I, quiet)
  <2>1. /\ \A x \in M : x \in M \/ x.type \notin Ends
        /\ R \subseteq R /\ N \subseteq N \cup {n}
        /\ \A x \in R : x \in R \/ (~x.mine /\ x.id \in J)
        /\ \A x \in N \cup {n} : x \in N \/ x.type \in {"Reject", "Accept"}
    OBVIOUS
  <2> QED BY <1>1, <2>1, LinkHandle
<1>5. Link(S, N \cup {n}, R, P2, M, J, quiet)
  <2>1. (\A r \in R : r.id # n.id) /\ (\A x \in M : x.type = "Request" => x.id # n.id)
    BY DEF Side
  <2>2. Refuses(n, R, P, M, P2, M)
    BY <1>1, <2>1 DEF Refuses
  <2>3. J \cap I = {}
    OBVIOUS
  <2> QED BY <2>2, <2>3, LinkPeerRefuse
<1> QED BY <1>2, <1>3, <1>4, <1>5

\* A prompt is accepted.
LEMMA PromptAccepted ==
  ASSUME NEW R, NEW M, NEW P, NEW S, NEW Q, NEW N, NEW I, NEW J,
         I \cap J = {}, Side(R, M, P, I, J),
         NEW q \in P, NEW P2, P2 = Rest(P, q),
         NEW r, r.id = q.id, r.flow = q.flow, r.st = "Starting", ~r.mine
  PROVE  /\ Side(R \cup {r}, M, P2, I, J)
         /\ Pair(R, M, P, S, Q, N, I, J, FALSE)
              => Pair(R \cup {r}, M, P2, S, Q, N, I, J, FALSE)
<1> USE DEF Pair
<1>1. /\ P2 \in SUBSET P /\ (\A x \in P2 : x.id # r.id) /\ M \in SUBSET M /\ R \in SUBSET R
      /\ r.id \in J
  BY DEF Rest, Side
<1>2. Side(R \cup {r}, M, P2, I, J)
  <2>1. Side(R, M, P2, I, J)
    BY <1>1, SideLess
  <2>2. \A x \in M : x.type = "Request" => x.id # r.id
    BY DEF Side
  <2> QED BY <1>1, <2>1, <2>2, SideRoute
<1> SUFFICES ASSUME Pair(R, M, P, S, Q, N, I, J, FALSE)
             PROVE  Pair(R \cup {r}, M, P2, S, Q, N, I, J, FALSE)
  BY <1>2
<1>3. FALSE \in BOOLEAN /\ J \cap I = {}
  OBVIOUS
<1>4. Link(R \cup {r}, M, S, Q, N, I, FALSE)
  <2>1. /\ \A x \in M : x \in M \/ x.type \notin Ends
        /\ R \subseteq R \cup {r} /\ N \subseteq N
        /\ \A x \in R \cup {r} : x \in R \/ (~x.mine /\ x.id \in J)
        /\ \A x \in N : x \in N \/ x.type \in {"Reject", "Accept"}
    BY <1>1
  <2> QED BY <1>1, <1>3, <2>1, LinkHandle
<1>5. Link(S, N, R \cup {r}, P2, M, J, FALSE)
  <2>1. \A x \in M : x \in M \/ x.type = "Request"
    OBVIOUS
  <2>2. ~FALSE /\ \E x \in P : x.id = r.id /\ x.flow = r.flow
    OBVIOUS
  <2>3. r.st # "Active"
    OBVIOUS
  <2> QED BY <1>1, <1>3, <2>1, <2>2, <2>3, LinkPeerAccept
<1> QED BY <1>2, <1>4, <1>5

\* A pipeline runs, and a route the peer asked for is accepted.
LEMMA Runs ==
  ASSUME NEW R, NEW M, NEW P, NEW S, NEW Q, NEW N, NEW I, NEW J, NEW quiet \in BOOLEAN,
         I \cap J = {}, Side(R, M, P, I, J),
         NEW r \in R, r.st = "Starting",
         NEW r2, r2.id = r.id, r2.flow = r.flow, r2.mine = r.mine, r2.st = "Active",
         NEW R2, R2 = Swapped(R, r, r2), NEW N2,
         \/ N2 = N
         \/ ~r.mine /\ \E n : /\ More(N2, N, n) /\ n.of = 1 /\ n.type = "Accept"
                              /\ n.id = r.id
  PROVE  /\ Side(R2, M, P, I, J)
         /\ Pair(R, M, P, S, Q, N, I, J, quiet)
              => Pair(R2, M, P, S, Q, N2, I, J, quiet)
<1> USE DEF Pair, Swapped, More
<1>1. Side(R2, M, P, I, J)
  BY DEF Side
<1> SUFFICES ASSUME Pair(R, M, P, S, Q, N, I, J, quiet)
             PROVE  Pair(R2, M, P, S, Q, N2, I, J, quiet)
  BY <1>1
<1>2. Side(S, N2, Q, J, I)
  <2>1. \A x \in N2 : \/ x \in N
                      \/ /\ x.of = 1 /\ x.id \in J \cup I /\ x.type # "Request"
                         /\ x.type \in {"Accept", "Reject"} => x.id \in J
    BY DEF Side
  <2> QED BY <2>1, SideMessages
<1>3. Link(R2, M, S, Q, N2, I, quiet)
  <2>1. /\ M \in SUBSET M /\ \A x \in M : x \in M \/ x.type \notin Ends
        /\ N \subseteq N2 /\ \A x \in N2 : x \in N \/ x.type \in {"Reject", "Accept"}
        /\ r.st \in {"Starting", "Active"}
    OBVIOUS
  <2> QED BY <2>1, LinkGoesOn
<1>4. Link(S, N2, R2, P, M, J, quiet)
  <2>1. /\ M \in SUBSET M /\ \A x \in M : x \in M \/ x.type \notin {"Request", "Stop"}
        /\ N \subseteq N2
        /\ \A x \in N2 : x \in N \/ (x.type = "Accept" /\ x.id = r.id /\ r2.st = "Active")
        /\ r.st = "Active" => r2.st = "Active"
        /\ J \cap I = {}
    OBVIOUS
  <2> QED BY <2>1, LinkPeerGoesOn
<1> QED BY <1>1, <1>2, <1>3, <1>4

\* A device whose session is over may drop routes, and tells nobody.
LEMMA GoneKept ==
  ASSUME InSession, NEW d \in Devices, ~Reads(d), ActsAlone(d), next'[d] = next[d],
         chan' = chan, \A k \in 1 .. Len(routes'[d]) : routes'[d][k].st = "Paused"
  PROVE  Stages' /\ \A e \in Devices : AtEnd(e)' /\ Linked(e)'
<1>1. PICK p : p = Other(d)
  OBVIOUS
<1>2. TypeOK /\ Stages
  BY DEF InSession
<1>3. commands \in Nat /\ next[d] \in Nat /\ next[d] <= 2 + 2 * commands
  BY <1>2, IdsFacts DEF TypeOK, Stages, Stage
<1>4. next'[d] <= 2 + 2 * commands'
  BY <1>3 DEF ActsAlone
<1>5. chan'[d] = <<>> /\ seen[d] # 0 /\ at[d] # 1
  BY <1>2 DEF Stages, Stage, Reads
<1>6. Stages'
  BY <1>2, <1>4, <1>5, StagesKept
<1>7. PICK I2 : I2 = Given(d)' /\ I2 = Given(d)
  BY DEF Given, Own, ActsAlone
<1>8. Reads(p) => Queued(chan'[p]) /\ Side(Elems(routes[p]), Elems(chan'[p]),
                                           Elems(prompts[p]), Given(p), I2)
  BY <1>1, <1>7, EndsBefore
<1>9. \A e \in Devices : AtEnd(e)' /\ Linked(e)'
  BY <1>1, <1>8, <1>7, EndsKept
<1> QED BY <1>6, <1>9

\* The prompt that is answered.
LEMMA PromptIs ==
  ASSUME InSession, NEW d \in Devices, NEW i \in DOMAIN prompts[d],
         prompts' = [prompts EXCEPT ![d] = Without(@, i)]
  PROVE  /\ prompted = TRUE /\ prompts[d][i] \in Elems(prompts[d])
         /\ prompts[d][i].id \in Ids /\ prompts[d][i].flow \in Flows
         /\ prompts'[Other(d)] = prompts[Other(d)]
         /\ Reads(d) => at[d] = 1
         /\ Distinct(prompts[d]) => /\ Elems(prompts'[d]) = Rest(Elems(prompts[d]), prompts[d][i])
                                    /\ Distinct(prompts'[d])
<1>1. PICK T : T = [id: Ids, flow: Flows]
  OBVIOUS
<1>2. PICK s \in Seq(T) : s = prompts[d] /\ DOMAIN s = 1 .. Len(s) /\ Len(s) \in Nat
  BY <1>1, LenProperties DEF InSession, TypeOK
<1>3. i \in 1 .. Len(s) /\ s[i] \in T /\ s[i] \in Elems(s) /\ s # <<>>
  <2>1. i \in 1 .. Len(s)
    BY <1>2
  <2>2. s # <<>>
    BY <1>2, <2>1
  <2> QED BY <1>2, <2>1, <2>2, ElementOfSeq DEF Elems
<1>4. prompted = TRUE
  BY <1>2, <1>3 DEF InSession, Denial, DenialAt, TypeOK
<1>5. Reads(d) => at[d] = 1
  BY <1>2, <1>3 DEF InSession, Stages, Stage, Reads
<1>6. prompts'[d] = Without(s, i) /\ prompts'[Other(d)] = prompts[Other(d)]
  BY <1>2, OtherDevice DEF InSession, TypeOK
<1>7. Distinct(s) => /\ Elems(Without(s, i)) = Rest(Elems(s), s[i])
                     /\ Distinct(Without(s, i))
  BY <1>2, <1>3, ElemsWithout DEF Rest
<1>8. s[i].id \in Ids /\ s[i].flow \in Flows
  BY <1>1, <1>3
<1> QED BY <1>2, <1>3, <1>4, <1>5, <1>6, <1>7, <1>8

\* A prompt is refused, by the user or because nobody answered it.
LEMMA RefusalKept ==
  ASSUME InSession, NEW d \in Devices, NEW i \in DOMAIN prompts[d],
         prompts' = [prompts EXCEPT ![d] = Without(@, i)],
         chan' = Tell(chan, d, "Reject", prompts[d][i].id, prompts[d][i].flow),
         UNCHANGED <<prompted, routes, saved, sessionVars, next, commands>>
  PROVE  Stages' /\ \A e \in Devices : AtEnd(e)' /\ Linked(e)'
<1>1. PICK p : p = Other(d)
  OBVIOUS
<1>2. PICK q : q = prompts[d][i]
  OBVIOUS
<1>3. /\ prompted = TRUE /\ q \in Elems(prompts[d]) /\ q.id \in Ids /\ q.flow \in Flows
      /\ prompts'[p] = prompts[p] /\ (Reads(d) => at[d] = 1)
      /\ Distinct(prompts[d]) => /\ Elems(prompts'[d]) = Rest(Elems(prompts[d]), q)
                                 /\ Distinct(prompts'[d])
  BY <1>1, <1>2, PromptIs
<1>4. PICK k \in {"Accept", "Reject"} : k = "Reject"
  OBVIOUS
<1>5. PICK ch \in [Devices -> Seq(Message)] : ch = chan
  BY DEF InSession, TypeOK
<1>6. ch[p] = chan[p] /\ chan' = Tell(ch, d, k, q.id, q.flow)
  BY <1>2, <1>4, <1>5
<1>7. PICK n : Answers(d, p, k, q.id, n, ch[d])
  BY <1>1, <1>3, <1>6, Answered
<1>8. /\ n.of = 1 /\ n.type = "Reject" /\ n.id = q.id /\ chan'[d] = chan[d]
      /\ at[d] = 0 \/ ~Reads(p) => chan'[p] = chan[p]
      /\ at[d] = 1 /\ Reads(p) => /\ More(Elems(chan'[p]), Elems(chan[p]), n)
                                  /\ Queued(chan[p]) => Queued(chan'[p])
  BY <1>4, <1>5, <1>7 DEF Answers
<1>9. ActsAlone(d) /\ next'[d] = next[d]
  BY <1>1, <1>3, <1>8 DEF ActsAlone, sessionVars, InSession, Stages
<1>10. CASE ~Reads(d)
  <2>1. at[d] = 0
    BY <1>10 DEF InSession, Stages, Stage, Reads
  <2>2. chan' = chan
    BY <1>5, <1>6, <2>1 DEF Tell, Send
  <2>3. \A k2 \in 1 .. Len(routes'[d]) : routes'[d][k2].st = "Paused"
    BY <1>10 DEF InSession, Stages, Stage
  <2> QED BY <1>9, <1>10, <2>2, <2>3, GoneKept
<1>11. CASE Reads(d)
  <2> DEFINE R == Elems(routes[d])
             M == Elems(chan[d])
             P == Elems(prompts[d])
             S == Elems(routes[p])
             N == Elems(chan[p])
             Q == Elems(prompts[p])
             I == Given(d)
             J == Given(p)
  <2>1. at[d] = 1
    BY <1>3, <1>11
  <2>2. /\ p \in Devices /\ p # d /\ Other(p) = d /\ I \cap J = {} /\ Reads(d)
        /\ Distinct(routes[d]) /\ Distinct(prompts[d]) /\ Queued(chan[d])
        /\ Side(R, M, P, I, J)
        /\ Reads(p) => Queued(chan[p]) /\ Pair(R, M, P, S, Q, N, I, J, ~prompted)
    BY <1>1, <2>1, PairBefore
  <2> HIDE DEF R, M, P, S, N, Q, I, J
  <2>3. PICK P2 : P2 = Elems(prompts'[d])
    OBVIOUS
  <2>4. P2 = Rest(P, q) /\ q \in P /\ Distinct(prompts'[d])
    BY <1>3, <2>2, <2>3 DEF P
  <2>5. (~prompted) \in BOOLEAN
    OBVIOUS
  <2>6. /\ Side(R, M, P2, I, J)
        /\ Pair(R, M, P, S, Q, N, I, J, ~prompted)
              => Pair(R, M, P2, S, Q, N \cup {n}, I, J, ~prompted)
    BY <1>8, <2>2, <2>4, <2>5, PromptRefused
  <2>7. PICK N2 : N2 = Elems(chan'[p])
    OBVIOUS
  <2>8. Reads(p) => Queued(chan'[p]) /\ N2 = N \cup {n}
    BY <1>8, <2>1, <2>2, <2>7 DEF More, N
  <2>9. Reads(p) => Queued(chan'[p]) /\ Pair(R, M, P2, S, Q, N2, I, J, ~prompted')
    BY <2>2, <2>6, <2>8
  <2>10. R = Elems(routes'[d]) /\ M = Elems(chan'[d]) /\ Distinct(routes'[d]) /\ Queued(chan'[d])
    BY <1>8, <2>2 DEF R, M
  <2> QED BY <1>1, <1>9, <2>1, <2>3, <2>4, <2>6, <2>7, <2>9, <2>10, PairKept DEF S, Q, I, J
<1> QED BY <1>10, <1>11

\* A prompt is accepted.
LEMMA ConsentKept ==
  ASSUME InSession, NEW d \in Devices, NEW i \in DOMAIN prompts[d],
         prompts' = [prompts EXCEPT ![d] = Without(@, i)],
         AcceptRoute(d, prompts[d][i].id, prompts[d][i].flow),
         UNCHANGED <<prompted, chan, saved, sessionVars, next, commands>>
  PROVE  Stages' /\ \A e \in Devices : AtEnd(e)' /\ Linked(e)'
<1>1. PICK p : p = Other(d)
  OBVIOUS
<1>2. PICK q : q = prompts[d][i]
  OBVIOUS
<1>3. /\ prompted = TRUE /\ q \in Elems(prompts[d]) /\ q.id \in Ids /\ q.flow \in Flows
      /\ prompts'[p] = prompts[p] /\ (Reads(d) => at[d] = 1)
      /\ Distinct(prompts[d]) => /\ Elems(prompts'[d]) = Rest(Elems(prompts[d]), q)
                                 /\ Distinct(prompts'[d])
  BY <1>1, <1>2, PromptIs
<1>4. p \in Devices /\ p # d
  BY <1>1, OtherDevice
<1>5. routes'[p] = routes[p]
  BY <1>1, <1>4 DEF AcceptRoute, InSession, TypeOK
<1>6. ActsAlone(d) /\ next'[d] = next[d]
  BY <1>1, <1>3, <1>5, Quietly
<1>7. CASE ~Reads(d)
  <2>1. at[d] = 0
    BY <1>7 DEF InSession, Stages, Stage, Reads
  <2>2. PICK s \in Seq(Route) : s = routes[d]
    BY DEF InSession, TypeOK
  <2>3. PICK K : routes'[d] = Part(s, K)
    <3>1. PICK K : K = {k \in DOMAIN s : LET r == s[k] IN
                          ~(r.st = "Paused" /\ (r.flow = q.flow \/ r.id = q.id))}
      OBVIOUS
    <3>2. routes'[d] = Part(s, K)
      BY <1>2, <2>1, <2>2, <3>1 DEF AcceptRoute, InSession, TypeOK
    <3> QED BY <3>2
  <2>4. \A k \in 1 .. Len(s) : s[k].st = "Paused"
    BY <1>7, <2>2 DEF InSession, Stages, Stage
  <2>5. PICK t : t = Part(s, K)
    OBVIOUS
  <2>6. \A e : e \in Elems(t) => \E k \in 1 .. Len(s) : k \in K /\ e = s[k]
    BY <2>5, ElemsPart
  <2>7. \A k \in 1 .. Len(t) : t[k].st = "Paused"
    <3> SUFFICES ASSUME NEW k \in 1 .. Len(t) PROVE t[k].st = "Paused"
      OBVIOUS
    <3>1. t[k] \in Elems(t)
      BY DEF Elems
    <3> QED BY <2>4, <2>6, <3>1
  <2>8. \A k \in 1 .. Len(routes'[d]) : routes'[d][k].st = "Paused"
    BY <2>3, <2>5, <2>7
  <2> QED BY <1>6, <1>7, <2>8, GoneKept
<1>8. CASE Reads(d)
  <2> DEFINE R == Elems(routes[d])
             M == Elems(chan[d])
             P == Elems(prompts[d])
             S == Elems(routes[p])
             N == Elems(chan[p])
             Q == Elems(prompts[p])
             I == Given(d)
             J == Given(p)
  <2>1. at[d] = 1
    BY <1>3, <1>8
  <2>2. /\ p \in Devices /\ p # d /\ Other(p) = d /\ I \cap J = {} /\ Reads(d)
        /\ Distinct(routes[d]) /\ Distinct(prompts[d]) /\ Queued(chan[d])
        /\ Side(R, M, P, I, J)
        /\ Reads(p) => Queued(chan[p]) /\ Pair(R, M, P, S, Q, N, I, J, ~prompted)
    BY <1>1, <2>1, PairBefore
  <2>3. PICK r \in Route : r = NewRoute(q.id, q.flow, "Starting", FALSE)
    BY <1>3, NewRouteTyped DEF Statuses
  <2>4. r.id = q.id /\ r.flow = q.flow /\ r.st = "Starting" /\ ~r.mine
    BY <2>3 DEF NewRoute
  <2> HIDE DEF R, M, P, S, N, Q, I, J
  <2>5. Elems(routes'[d]) = R \cup {r} /\ Distinct(routes'[d])
    <3>1. \A x \in Elems(routes[d]) : x.st # "Paused" /\ x.id # q.id
      BY <1>3, <2>2 DEF Side, R, P
    <3>2. AcceptRoute(d, q.id, q.flow)
      BY <1>2
    <3> QED BY <1>3, <2>1, <2>2, <2>3, <3>1, <3>2, AcceptIs DEF R
  <2>6. PICK P2 : P2 = Elems(prompts'[d])
    OBVIOUS
  <2>7. P2 = Rest(P, q) /\ q \in P /\ Distinct(prompts'[d])
    BY <1>3, <2>2, <2>6 DEF P
  <2>8. (~prompted) = FALSE /\ (~prompted') = FALSE
    BY <1>3
  <2>9. /\ Side(R \cup {r}, M, P2, I, J)
        /\ Pair(R, M, P, S, Q, N, I, J, FALSE)
              => Pair(R \cup {r}, M, P2, S, Q, N, I, J, FALSE)
    BY <2>2, <2>4, <2>7, PromptAccepted
  <2>10. PICK R2 : R2 = Elems(routes'[d])
    OBVIOUS
  <2>11. /\ Side(R2, M, P2, I, J)
         /\ Reads(p) => Queued(chan'[p]) /\ Pair(R2, M, P2, S, Q, N, I, J, ~prompted')
    BY <2>2, <2>5, <2>8, <2>9, <2>10
  <2>12. M = Elems(chan'[d]) /\ N = Elems(chan'[p]) /\ Queued(chan'[d])
    BY <2>2 DEF M, N
  <2> QED BY <1>1, <1>6, <2>1, <2>5, <2>6, <2>7, <2>10, <2>11, <2>12, PairKept DEF S, Q, I, J
<1> QED BY <1>7, <1>8

\* Prompts are answered, or nobody does.
LEMMA SessionAnswers ==
  ASSUME InSession, NEW d \in Devices, NEW i \in DOMAIN prompts[d],
         \/ \E accept, remember \in BOOLEAN : RespondRequest(d, i, accept, remember)
         \/ PromptExpires(d, i)
  PROVE  Stages' /\ \A e \in Devices : AtEnd(e)' /\ Linked(e)'
<1>1. CASE PromptExpires(d, i)
  <2>1. /\ prompts' = [prompts EXCEPT ![d] = Without(@, i)]
        /\ chan' = Tell(chan, d, "Reject", prompts[d][i].id, prompts[d][i].flow)
        /\ UNCHANGED <<prompted, routes, saved, sessionVars, next, commands>>
    BY <1>1 DEF PromptExpires
  <2> QED BY <2>1, RefusalKept
<1>2. CASE \E accept, remember \in BOOLEAN : RespondRequest(d, i, accept, remember)
  <2>1. PICK accept, remember \in BOOLEAN : RespondRequest(d, i, accept, remember)
    BY <1>2
  <2>2. /\ prompts' = [prompts EXCEPT ![d] = Without(@, i)]
        /\ \/ AcceptRoute(d, prompts[d][i].id, prompts[d][i].flow) /\ UNCHANGED chan
           \/ /\ chan' = Tell(chan, d, "Reject", prompts[d][i].id, prompts[d][i].flow)
              /\ UNCHANGED routes
        /\ UNCHANGED <<prompted, saved, sessionVars, next, commands>>
    BY <2>1 DEF RespondRequest
  <2>3. CASE AcceptRoute(d, prompts[d][i].id, prompts[d][i].flow) /\ UNCHANGED chan
    BY <2>2, <2>3, ConsentKept
  <2>4. CASE /\ chan' = Tell(chan, d, "Reject", prompts[d][i].id, prompts[d][i].flow)
             /\ UNCHANGED routes
    BY <2>2, <2>4, RefusalKept
  <2> QED BY <2>2, <2>3, <2>4
<1> QED BY <1>1, <1>2

\* The route that is ready.
LEMMA ReadyIs ==
  ASSUME InSession, NEW d \in Devices, NEW i \in DOMAIN routes[d], PipelineReady(d, i)
  PROVE  /\ Reads(d) /\ at[d] = 1 /\ routes[d][i] \in Route
         /\ routes[d][i] \in Elems(routes[d]) /\ routes[d][i].st = "Starting"
         /\ \E r2 \in Route :
              /\ r2.id = routes[d][i].id /\ r2.flow = routes[d][i].flow
              /\ r2.mine = routes[d][i].mine /\ r2.st = "Active"
              /\ routes' = [routes EXCEPT ![d] = [@ EXCEPT ![i] = r2]]
              /\ Elems(routes'[d]) = Swapped(Elems(routes[d]), routes[d][i], r2)
              /\ Distinct(routes'[d])
         /\ chan' = IF routes[d][i].mine THEN chan
                    ELSE Tell(chan, d, "Accept", routes[d][i].id, routes[d][i].flow)
<1>1. PICK s \in Seq(Route) : s = routes[d] /\ DOMAIN s = 1 .. Len(s) /\ Len(s) \in Nat
  BY LenProperties DEF InSession, TypeOK
<1>2. PICK r \in Route : r = s[i] /\ i \in 1 .. Len(s) /\ r \in Elems(s)
  <2>1. i \in 1 .. Len(s)
    BY <1>1
  <2> QED BY <1>1, <2>1, ElementOfSeq DEF Elems
<1>3. r.st = "Starting"
  BY <1>1, <1>2 DEF PipelineReady
<1>4. s # <<>>
  BY <1>1, <1>2
<1>5. Reads(d) /\ at[d] = 1
  BY <1>1, <1>2, <1>3, <1>4 DEF InSession, Stages, Stage, Reads
<1>6. Distinct(s)
  BY <1>1, <1>5 DEF InSession, AtEnd
<1>7. PICK j : j = FirstByKey(s, r.id)
  OBVIOUS
<1>8. j = i
  <2>1. j \in 0 .. Len(s) /\ (j = 0 => \A k \in 1 .. Len(s) : s[k].id # r.id)
        /\ (j # 0 => j \in 1 .. Len(s) /\ s[j].id = r.id)
    BY <1>7, FirstByKeyIs
  <2> QED BY <1>2, <1>6, <2>1 DEF Distinct
<1>9. PICK r2 : r2 = [[r EXCEPT !.up = TRUE] EXCEPT !.st = "Active"]
  OBVIOUS
<1>10. /\ r2 \in Route /\ r2.id = r.id /\ r2.flow = r.flow /\ r2.mine = r.mine
       /\ r2.st = "Active"
  BY <1>2, <1>9 DEF Route, Statuses
<1>11. PICK u : u = [routes EXCEPT ![d] = [s EXCEPT ![i] = [r EXCEPT !.up = TRUE]]]
  OBVIOUS
<1>22. u = [routes EXCEPT ![d][i].up = TRUE]
  BY <1>1, <1>2, <1>11
<1>23. PICK w : w = [u[d] EXCEPT ![i] = [u[d][i] EXCEPT !.st = "Active"]]
  OBVIOUS
<1>24. routes' = [u EXCEPT ![d][i].st = "Active"]
  BY <1>1, <1>2, <1>3, <1>7, <1>8, <1>22 DEF PipelineReady
<1>25. chan' = IF ~r.mine THEN Tell(chan, d, "Accept", r.id, r.flow) ELSE chan
  BY <1>1, <1>2, <1>3, <1>7, <1>8 DEF PipelineReady
<1>12. routes' = [u EXCEPT ![d] = w]
  BY <1>23, <1>24
<1>13. u[d] = [s EXCEPT ![i] = [r EXCEPT !.up = TRUE]] /\ DOMAIN u = DOMAIN routes
       /\ DOMAIN routes = Devices
  BY <1>11 DEF InSession, TypeOK
<1>14. u[d][i] = [r EXCEPT !.up = TRUE]
  BY <1>1, <1>2, <1>13
<1>15. w = [s EXCEPT ![i] = r2]
  BY <1>1, <1>9, <1>13, <1>14, <1>23
<1>16. PICK t : t = [s EXCEPT ![i] = r2]
  OBVIOUS
<1>17. routes' = [u EXCEPT ![d] = t]
  BY <1>12, <1>15, <1>16
<1>18. routes' = [routes EXCEPT ![d] = t]
  BY <1>11, <1>13, <1>17
<1>19. routes'[d] = t
  BY <1>18, <1>13
<1>20. Elems(t) = Swapped(Elems(s), r, r2) /\ Distinct(t)
  <2>1. /\ Elems([s EXCEPT ![i] = r2]) = (Elems(s) \ {s[i]}) \cup {r2}
        /\ Distinct([s EXCEPT ![i] = r2])
    BY <1>2, <1>6, <1>10, ElemsExcept
  <2> QED BY <1>2, <1>16, <2>1 DEF Swapped
<1>21. routes' = [routes EXCEPT ![d] = [@ EXCEPT ![i] = r2]]
  BY <1>1, <1>16, <1>18
<1> QED BY <1>1, <1>2, <1>3, <1>5, <1>10, <1>25, <1>19, <1>20, <1>21

\* A pipeline is ready.
LEMMA SessionReady ==
  ASSUME InSession, NEW d \in Devices, NEW i \in DOMAIN routes[d], PipelineReady(d, i)
  PROVE  Stages' /\ \A e \in Devices : AtEnd(e)' /\ Linked(e)'
<1>1. PICK p : p = Other(d)
  OBVIOUS
<1>2. PICK r \in Route : r = routes[d][i] /\ r \in Elems(routes[d]) /\ r.st = "Starting"
                         /\ Reads(d) /\ at[d] = 1
  BY ReadyIs
<1>3. PICK r2 \in Route :
         /\ r2.id = r.id /\ r2.flow = r.flow
         /\ r2.mine = r.mine /\ r2.st = "Active"
         /\ routes' = [routes EXCEPT ![d] = [@ EXCEPT ![i] = r2]]
         /\ Elems(routes'[d]) = Swapped(Elems(routes[d]), r, r2)
         /\ Distinct(routes'[d])
  BY <1>2, ReadyIs
<1>4. chan' = IF r.mine THEN chan ELSE Tell(chan, d, "Accept", r.id, r.flow)
  BY <1>2, ReadyIs
<1>5. p \in Devices /\ p # d
  BY <1>1, OtherDevice
<1>6. /\ routes'[p] = routes[p] /\ saved'[p] = saved[p]
      /\ UNCHANGED <<promptVars, sessionVars, next, commands>>
  BY <1>3, <1>5 DEF PipelineReady, InSession, TypeOK
<1>7. PICK ch \in [Devices -> Seq(Message)] : ch = chan
  BY DEF InSession, TypeOK
<1>8. r.id \in Ids /\ r.flow \in Flows
  BY DEF Route
<1>9. \/ r.mine /\ chan' = chan
      \/ ~r.mine /\ \E n : Answers(d, p, "Accept", r.id, n, chan[d])
  <2>1. CASE r.mine
    BY <1>4, <2>1
  <2>2. CASE ~r.mine
    <3>1. PICK k \in {"Accept", "Reject"} : k = "Accept"
      OBVIOUS
    <3>2. chan' = Tell(ch, d, k, r.id, r.flow) /\ ch[p] = chan[p]
      BY <1>4, <1>7, <2>2, <3>1
    <3>3. \E n : Answers(d, p, k, r.id, n, ch[d])
      BY <1>1, <1>8, <3>2, Answered
    <3> QED BY <1>7, <2>2, <3>1, <3>3
  <2> QED BY <2>1, <2>2
<1>10. /\ chan'[d] = chan[d] /\ (~Reads(p) => chan'[p] = chan[p])
       /\ (Queued(chan[p]) /\ Reads(p) => Queued(chan'[p]))
       /\ Reads(p) => \/ Elems(chan'[p]) = Elems(chan[p])
                      \/ ~r.mine /\ \E n : /\ More(Elems(chan'[p]), Elems(chan[p]), n)
                                           /\ n.of = 1 /\ n.type = "Accept" /\ n.id = r.id
  BY <1>2, <1>9 DEF Answers
<1>11. ActsAlone(d) /\ next'[d] = next[d]
  BY <1>1, <1>6, <1>10 DEF ActsAlone, sessionVars, promptVars, InSession, Stages
<1> DEFINE R == Elems(routes[d])
           M == Elems(chan[d])
           P == Elems(prompts[d])
           S == Elems(routes[p])
           N == Elems(chan[p])
           Q == Elems(prompts[p])
           I == Given(d)
           J == Given(p)
<1>12. /\ p \in Devices /\ p # d /\ Other(p) = d /\ I \cap J = {} /\ Reads(d)
       /\ Distinct(routes[d]) /\ Distinct(prompts[d]) /\ Queued(chan[d])
       /\ Side(R, M, P, I, J)
       /\ Reads(p) => Queued(chan[p]) /\ Pair(R, M, P, S, Q, N, I, J, ~prompted)
  BY <1>1, <1>2, PairBefore
<1>13. PICK R2 : R2 = Elems(routes'[d]) /\ R2 = Swapped(R, r, r2) /\ r \in R
  BY <1>2, <1>3
<1>14. PICK N2 : N2 = Elems(chan'[p])
  OBVIOUS
<1>15. Reads(p) => \/ N2 = N
                   \/ ~r.mine /\ \E n : /\ More(N2, N, n)
                                        /\ n.of = 1 /\ n.type = "Accept" /\ n.id = r.id
  BY <1>10, <1>14
<1>16. /\ M = Elems(chan'[d]) /\ P = Elems(prompts'[d]) /\ prompted' = prompted
       /\ Distinct(prompts'[d]) /\ Queued(chan'[d])
  BY <1>6, <1>10, <1>12 DEF promptVars
<1> HIDE DEF R, M, P, S, N, Q, I, J
<1>17. (~prompted) \in BOOLEAN
  OBVIOUS
<1>18. ASSUME NEW X, \/ X = N
                     \/ ~r.mine /\ \E n : /\ More(X, N, n)
                                          /\ n.of = 1 /\ n.type = "Accept" /\ n.id = r.id
       PROVE  /\ Side(R2, M, P, I, J)
              /\ Pair(R, M, P, S, Q, N, I, J, ~prompted)
                   => Pair(R2, M, P, S, Q, X, I, J, ~prompted)
  <2>1. /\ r.st = "Starting" /\ r2.id = r.id /\ r2.flow = r.flow /\ r2.mine = r.mine
        /\ r2.st = "Active" /\ I \cap J = {} /\ Side(R, M, P, I, J) /\ r \in R
        /\ R2 = Swapped(R, r, r2)
    BY <1>2, <1>3, <1>12, <1>13
  <2> QED BY <2>1, <1>17, <1>18, Runs
<1>19. Side(R2, M, P, I, J)
  BY <1>18
<1>20. Reads(p) => Queued(chan'[p]) /\ Pair(R2, M, P, S, Q, N2, I, J, ~prompted')
  <2>1. ASSUME Reads(p) PROVE Queued(chan'[p]) /\ Pair(R2, M, P, S, Q, N2, I, J, ~prompted)
    BY <1>10, <1>12, <1>15, <1>18, <2>1
  <2> QED BY <1>16, <2>1
<1> QED BY <1>1, <1>2, <1>3, <1>11, <1>13, <1>14, <1>16, <1>19, <1>20, PairKept
        DEF S, Q, I, J

\* What concerns neither routes nor messages.
LEMMA SessionSame ==
  ASSUME InSession, commands' \in {commands, commands + 1}, commands' <= MaxCommands,
         UNCHANGED <<routes, saved, promptVars, gen, dialer, at, seen, next, chan>>
  PROVE  Stages' /\ \A e \in Devices : AtEnd(e)' /\ Linked(e)'
<1>1. \A e : Reads(e)' = Reads(e) /\ Own(e)' = Own(e) /\ Given(e)' = Given(e)
  BY DEF Reads, Own, Given
<1>2. ASSUME NEW e \in Devices PROVE Stage(e)'
  <2>1. commands \in Nat /\ next[e] \in Nat /\ next[e] <= 2 + 2 * commands
    BY <1>2, IdsFacts DEF InSession, TypeOK, Stages, Stage
  <2>2. next'[e] <= 2 + 2 * commands'
    BY <2>1
  <2> QED BY <1>1, <1>2, <2>2 DEF InSession, Stages, Stage, promptVars
<1>3. Stages'
  BY <1>2 DEF Stages, InSession
<1>4. \A e \in Devices : AtEnd(e)' /\ Linked(e)'
  BY <1>1 DEF InSession, AtEnd, Linked, promptVars
<1> QED BY <1>3, <1>4

\* The end of a session pauses what it leaves.
LEMMA PauseIs ==
  ASSUME NEW rs \in Seq(Route)
  PROVE  \A k \in 1 .. Len(Pause(rs)) : Pause(rs)[k].st = "Paused"
<1> DEFINE kept == Part(rs, {i \in DOMAIN rs :
                          rs[i].st \in {"Active", "Paused"} \/ rs[i].mine})
<1>1. kept \in Seq(Route)
  BY PartSeq
<1>5. Pause(rs) = [i \in DOMAIN kept |-> [kept[i] EXCEPT !.st = "Paused", !.up = FALSE]]
  BY DEF Pause, kept
<1> HIDE DEF kept
<1>2. DOMAIN kept = 1 .. Len(kept) /\ Len(kept) \in Nat
      /\ \A i \in 1 .. Len(kept) : kept[i] \in Route
  BY <1>1, LenProperties, ElementOfSeq
<1>3. \A r \in Route : [r EXCEPT !.st = "Paused", !.up = FALSE].st = "Paused"
  BY DEF Route
<1>6. PICK t : t = Pause(rs)
  OBVIOUS
<1>7. t \in Seq(Route) /\ DOMAIN t = 1 .. Len(t)
  BY <1>6, PauseTyped, LenProperties
<1>8. DOMAIN t = DOMAIN kept /\ \A k \in DOMAIN kept :
        t[k] = [kept[k] EXCEPT !.st = "Paused", !.up = FALSE]
  BY <1>5, <1>6
<1>9. \A k \in 1 .. Len(t) : t[k].st = "Paused"
  <2> SUFFICES ASSUME NEW k \in 1 .. Len(t) PROVE t[k].st = "Paused"
    OBVIOUS
  <2>1. kept[k] \in Route /\ t[k] = [kept[k] EXCEPT !.st = "Paused", !.up = FALSE]
    BY <1>2, <1>7, <1>8
  <2> QED BY <1>3, <2>1
<1> QED BY <1>6, <1>9

\* An end of the session is over.
LEMMA GoneFor ==
  ASSUME InSession, NEW d \in Devices,
         gen' = gen, dialer' = dialer, next' = next,
         at' = [at EXCEPT ![d] = 0], seen'[d] = 1, seen'[Other(d)] = seen[Other(d)],
         chan' = [chan EXCEPT ![d] = <<>>],
         NEW x, routes' = [routes EXCEPT ![d] = x],
         \A k \in 1 .. Len(x) : x[k].st = "Paused",
         saved' = saved, prompts'[Other(d)] = prompts[Other(d)],
         commands' \in {commands, commands + 1}, commands' <= MaxCommands
  PROVE  Stages' /\ \A e \in Devices : AtEnd(e)' /\ Linked(e)'
<1>1. PICK p : p = Other(d) /\ p \in Devices /\ p # d /\ Devices = {d, p} /\ Other(p) = d
  BY OtherDevice
<1>2. \A e : Own(e)' = Own(e) /\ Given(e)' = Given(e)
  BY DEF Own, Given
<1>3. /\ at'[d] = 0 /\ at'[p] = at[p] /\ chan'[d] = <<>> /\ chan'[p] = chan[p]
      /\ routes'[d] = x /\ routes'[p] = routes[p]
  BY <1>1 DEF InSession, TypeOK
<1>4. ~Reads(d)' /\ Reads(p)' = Reads(p)
  BY <1>1, <1>3 DEF Reads
<1>5. ASSUME NEW e \in Devices PROVE next'[e] <= 2 + 2 * commands'
  <2>1. commands \in Nat /\ next[e] \in Nat /\ next[e] <= 2 + 2 * commands
    BY <1>5, IdsFacts DEF InSession, TypeOK, Stages, Stage
  <2> QED BY <2>1
<1>6. Stage(d)'
  BY <1>3, <1>4, <1>5 DEF Stage
<1>7. Stage(p)'
  BY <1>1, <1>2, <1>3, <1>4, <1>5 DEF InSession, Stages, Stage
<1>8. Stages'
  BY <1>1, <1>6, <1>7 DEF InSession, Stages
<1>9. AtEnd(p)'
  BY <1>1, <1>2, <1>3, <1>4 DEF InSession, AtEnd
<1> QED BY <1>1, <1>4, <1>8, <1>9 DEF AtEnd, Linked

\* What d has not read is of the session it leaves.
LEMMA LeavesNothing ==
  ASSUME InSession, NEW d \in Devices, at[d] # 0, Leave(d)
  PROVE  /\ at[d] = 1 /\ seen[d] = 1
         /\ at' = [at EXCEPT ![d] = 0] /\ chan' = [chan EXCEPT ![d] = <<>>]
<1>1. at[d] = 1 /\ seen[d] = 1 /\ Reads(d)
  BY DEF InSession, Stages, Stage, Reads
<1>2. PICK s \in Seq(Message) : s = chan[d] /\ DOMAIN s = 1 .. Len(s)
  BY LenProperties DEF InSession, TypeOK
<1>3. \A k \in 1 .. Len(s) : s[k].of = 1
  <2>1. \A m \in Elems(s) : m.of = 1
    BY <1>1, <1>2 DEF InSession, AtEnd, Side
  <2> QED BY <2>1 DEF Elems
<1>4. PICK K : K = {i \in DOMAIN s : s[i].of > at[d]}
  OBVIOUS
<1>5. \A k \in 1 .. Len(s) : k \notin K
  BY <1>1, <1>2, <1>3, <1>4
<1>6. PICK t \in Seq(Message) : t = Part(s, K)
  BY PartSeq
<1>7. Elems(t) = {}
  BY <1>5, <1>6, ElemsPart
<1>8. t = <<>>
  BY <1>7, NoElems
<1>9. chan' = [chan EXCEPT ![d] = Part(s, K)]
  BY <1>2, <1>4 DEF Leave
<1> QED BY <1>1, <1>6, <1>8, <1>9 DEF Leave

\* The session ends at d.
LEMMA SessionEnds ==
  ASSUME InSession, WithinSession, NEW d \in Devices,
         OnClosed(d) \/ Disconnect(d) \/ Reconnect(d) \/ Crash(d) \/ ResumptionAges(d)
  PROVE  Stages' /\ \A e \in Devices : AtEnd(e)' /\ Linked(e)'
<1>1. Other(d) \in Devices /\ Other(d) # d
  BY OtherDevice
<1>2. commands \in {commands, commands + 1} /\ commands <= MaxCommands
  BY DEF InSession, Stages
<1>3. CASE ResumptionAges(d)
  BY <1>2, <1>3, SessionSame DEF ResumptionAges, promptVars
<1>4. CASE Reconnect(d)
  BY <1>4 DEF Reconnect, InSession, Stages, WithinSession
<1>5. PICK s \in Seq(Route) : s = routes[d]
  BY DEF InSession, TypeOK
<1>6. CASE OnClosed(d)
  <2>1. at[d] = 1 /\ seen[d] = 1 /\ at' = [at EXCEPT ![d] = 0]
        /\ chan' = [chan EXCEPT ![d] = <<>>]
    BY <1>6, LeavesNothing DEF OnClosed
  <2>2. PICK x : /\ routes' = [routes EXCEPT ![d] = x]
                 /\ \A k \in 1 .. Len(x) : x[k].st = "Paused"
    <3>1. CASE routes' = [routes EXCEPT ![d] = <<>>]
      <4>1. PICK x : x = <<>>
        OBVIOUS
      <4>2. \A k \in 1 .. Len(x) : x[k].st = "Paused"
        BY <4>1
      <4> QED BY <3>1, <4>1, <4>2
    <3>2. CASE routes' = [routes EXCEPT ![d] = Pause(@)]
      <4>1. PICK x : x = Pause(s)
        OBVIOUS
      <4>2. \A k \in 1 .. Len(x) : x[k].st = "Paused"
        BY <4>1, PauseIs
      <4> QED BY <1>5, <3>2, <4>1, <4>2
    <3> QED BY <1>6, <3>1, <3>2 DEF OnClosed
  <2>3. UNCHANGED <<saved, prompts, gen, dialer, seen, next, commands>>
    BY <1>6 DEF OnClosed, promptVars
  <2> QED BY <1>2, <2>1, <2>2, <2>3, GoneFor
<1>7. CASE Disconnect(d)
  <2>1. at[d] = 1 /\ seen[d] = 1 /\ at' = [at EXCEPT ![d] = 0]
        /\ chan' = [chan EXCEPT ![d] = <<>>]
    BY <1>7, LeavesNothing DEF Disconnect
  <2>2. PICK x : /\ routes' = [routes EXCEPT ![d] = x]
                 /\ \A k \in 1 .. Len(x) : x[k].st = "Paused"
    <3>1. PICK x : x = <<>>
      OBVIOUS
    <3>2. \A k \in 1 .. Len(x) : x[k].st = "Paused"
      BY <3>1
    <3> QED BY <1>7, <3>1, <3>2 DEF Disconnect
  <2>3. UNCHANGED <<saved, prompts, gen, dialer, seen, next>>
    BY <1>7 DEF Disconnect, promptVars
  <2>4. commands' \in {commands, commands + 1} /\ commands' <= MaxCommands
    BY <1>7, CommandsBounded DEF Disconnect, InSession
  <2> QED BY <2>1, <2>2, <2>3, <2>4, GoneFor
<1>8. CASE Crash(d)
  <2>1. PICK x : x = <<>>
    OBVIOUS
  <2>2. /\ routes' = [routes EXCEPT ![d] = x] /\ at' = [at EXCEPT ![d] = 0]
        /\ chan' = [chan EXCEPT ![d] = <<>>]
        /\ UNCHANGED <<saved, gen, dialer, next, commands>>
    BY <1>8, <2>1 DEF Crash
  <2>3. /\ seen'[d] = 1 /\ seen'[Other(d)] = seen[Other(d)]
        /\ prompts'[Other(d)] = prompts[Other(d)]
    BY <1>1, <1>8 DEF Crash, InSession, TypeOK, Stages
  <2>4. \A k \in 1 .. Len(x) : x[k].st = "Paused"
    BY <2>1
  <2> QED BY <1>2, <2>2, <2>3, <2>4, GoneFor
<1> QED BY <1>3, <1>4, <1>6, <1>7, <1>8

\* Nothing comes of nothing.
LEMMA NoneOf ==
  ASSUME NEW T, NEW s \in Seq(T), Len(s) = 0
  PROVE  s = <<>> /\ \A K : Part(s, K) = <<>>
<1>1. Elems(s) = {}
  BY DEF Elems
<1>2. s = <<>>
  BY <1>1, NoElems
<1>3. ASSUME NEW K PROVE Part(s, K) = <<>>
  <2>1. PICK t \in Seq(T) : t = Part(s, K)
    BY PartSeq
  <2>2. Elems(t) = {}
    <3>1. \A k \in 1 .. Len(s) : FALSE
      OBVIOUS
    <3> QED BY <2>1, <3>1, ElemsPart
  <2> QED BY <2>1, <2>2, NoElems
<1> QED BY <1>2, <1>3

\* The first session of a device finds nothing to resume.
LEMMA PromotesEmpty ==
  ASSUME InSession, NEW d \in Devices, NEW proved \in BOOLEAN, Promote(d, proved)
  PROVE  /\ seen[d] = 0 /\ at[d] = 0 /\ next[d] = 1
         /\ next' = [next EXCEPT ![d] = FirstId(d)]
         /\ UNCHANGED <<routes, chan>>
<1>1. seen[d] = 0 /\ at[d] = 0 /\ routes[d] = <<>> /\ saved[d] = <<>> /\ next[d] = 1
      /\ gen = 1
  BY DEF Promote, InSession, Stages, Stage
<1>2. PICK rs \in {IF at[d] = 0 THEN routes[d] ELSE Pause(routes[d])} :
     \E rest \in {Others(rs)} :
     \E wanted \in {Wanted(d, rs, rest)} :
     \E begun \in {Begun(d, wanted)} :
     \E asked \in {Asked(begun)} :
       /\ routes' = [routes EXCEPT ![d] = rest \o begun]
       /\ next' = [next EXCEPT ![d] = Later(FirstId(d), Len(asked))]
       /\ chan' = Send(Unread(d), d, gen, [k \in DOMAIN asked |->
                     Msg(gen, "Request", asked[k].id, asked[k].flow)])
  BY DEF Promote
<1>3. rs = <<>> /\ rs \in Seq(Route) /\ Len(rs) = 0
  BY <1>1, <1>2, EmptySeq
<1>4. PICK rest : rest = Others(rs)
  OBVIOUS
<1>5. PICK wanted : wanted = Wanted(d, rs, rest)
  OBVIOUS
<1>6. PICK begun : begun = Begun(d, wanted)
  OBVIOUS
<1>7. PICK asked : asked = Asked(begun)
  OBVIOUS
<1>8. PICK ms : ms = [k \in DOMAIN asked |-> Msg(gen, "Request", asked[k].id, asked[k].flow)]
  OBVIOUS
<1>9. /\ routes' = [routes EXCEPT ![d] = rest \o begun]
      /\ next' = [next EXCEPT ![d] = Later(FirstId(d), Len(asked))]
      /\ chan' = Send(Unread(d), d, gen, ms)
  BY <1>2, <1>4, <1>5, <1>6, <1>7, <1>8
<1>10. rest = <<>>
  BY <1>3, <1>4, NoneOf DEF Others
<1>11. wanted = <<>> /\ wanted \in Seq(Route) /\ \A k \in DOMAIN wanted : wanted[k].mine
  BY <1>1, <1>3, <1>5, WantedTyped DEF InSession, TypeOK
<1>12. begun \in Seq(Route) /\ Len(begun) = 0
  <2>1. begun \in Seq(Route) /\ Len(begun) = Len(wanted)
    BY <1>6, <1>11, BegunTyped
  <2> QED BY <1>11, <2>1
<1>13. begun = <<>> /\ asked = <<>>
  BY <1>7, <1>12, NoneOf DEF Asked
<1>14. routes' = routes
  BY <1>1, <1>9, <1>10, <1>13 DEF InSession, TypeOK
<1>15. next' = [next EXCEPT ![d] = FirstId(d)]
  <2>1. FirstId(d) \in Ids
    BY FirstIdTyped
  <2>2. Later(FirstId(d), 0) = FirstId(d) /\ Len(asked) = 0
    BY <1>13, <2>1, LaterTyped
  <2> QED BY <1>9, <2>2
<1>16. ms = <<>>
  BY <1>8, <1>13
<1>17. Unread(d) = chan
  <2>1. PICK s \in Seq(Message) : s = chan[d] /\ DOMAIN s = 1 .. Len(s)
    BY LenProperties DEF InSession, TypeOK
  <2>2. \A k \in 1 .. Len(s) : s[k].of = 1
    <3>1. \A m \in Elems(s) : m.of = 1
      BY <1>1, <2>1 DEF InSession, AtEnd, Side, Reads
    <3> QED BY <3>1 DEF Elems
  <2>3. PICK K : K = {i \in DOMAIN s : s[i].of = gen}
    OBVIOUS
  <2>4. 1 .. Len(s) \subseteq K
    BY <1>1, <2>1, <2>2, <2>3
  <2>5. Part(s, K) = s
    BY <2>4, PartIs
  <2>6. Unread(d) = [chan EXCEPT ![d] = Part(s, K)]
    BY <2>1, <2>3 DEF Unread
  <2> QED BY <2>1, <2>5, <2>6 DEF InSession, TypeOK
<1>18. chan' = chan
  <2>1. chan' = Send(chan, d, gen, <<>>)
    BY <1>9, <1>16, <1>17
  <2>2. PICK p \in Devices : p = Other(d)
    BY OtherDevice
  <2>3. PICK s \in Seq(Message) : s = chan[p]
    BY DEF InSession, TypeOK
  <2>4. s \o <<>> = s
    BY ConcatEmptySeq
  <2>5. [chan EXCEPT ![p] = @ \o <<>>] = chan
    BY <2>3, <2>4 DEF InSession, TypeOK
  <2> QED BY <2>1, <2>2, <2>5 DEF Send
<1> QED BY <1>1, <1>14, <1>15, <1>18

\* The session begins at d, with nothing from before it.
LEMMA SessionBegins ==
  ASSUME InSession, NEW d \in Devices, NEW proved \in BOOLEAN, Promote(d, proved)
  PROVE  Stages' /\ \A e \in Devices : AtEnd(e)' /\ Linked(e)'
<1>1. PICK p : p = Other(d) /\ p \in Devices /\ p # d /\ Devices = {d, p} /\ Other(p) = d
  BY OtherDevice
<1>2. /\ seen[d] = 0 /\ at[d] = 0 /\ next[d] = 1
      /\ next' = [next EXCEPT ![d] = FirstId(d)] /\ UNCHANGED <<routes, chan>>
  BY PromotesEmpty
<1>3. gen = 1
  BY DEF InSession, Stages
<1>4. /\ seen'[d] = 1 /\ at'[d] = 1 /\ seen'[p] = seen[p] /\ at'[p] = at[p]
      /\ next'[p] = next[p] /\ next'[d] = FirstId(d)
      /\ UNCHANGED <<saved, prompts, prompted, gen, dialer, commands>>
  BY <1>1, <1>2, <1>3 DEF Promote, promptVars, InSession, TypeOK
<1>5. \A e \in Devices : Reads(e)' = Reads(e)
  BY <1>1, <1>2, <1>4 DEF Reads
<1>6. \A e : Own(e)' = Own(e)
  BY <1>4 DEF Own
<1>7. FirstId(d) \in Own(d) /\ FirstId(d) <= 2
  BY IdsFacts, FirstIdTyped DEF FirstId, Own
<1>8. Given(d) = {} /\ Given(d)' = {}
  <2>1. \A i \in Own(d) : i \in Nat /\ i # 0 /\ i % 2 = IF d = dialer THEN 0 ELSE 1
    BY IdsFacts DEF Own
  <2>2. \A i \in Own(d) : ~(i < 1) /\ ~(i < FirstId(d))
    BY <2>1 DEF FirstId
  <2> QED BY <1>2, <1>4, <1>6, <2>2 DEF Given
<1>9. \A e \in Devices : Given(e)' = Given(e)
  BY <1>1, <1>4, <1>6, <1>8 DEF Given
<1>10. ASSUME NEW e \in Devices PROVE Stage(e)'
  <2>1. commands \in Nat /\ FirstId(d) \in Nat
    BY IdsFacts, FirstIdTyped DEF InSession, TypeOK
  <2>2. FirstId(d) <= 2 + 2 * commands
    BY <1>7, <2>1
  <2>3. CASE e = d
    BY <1>4, <1>5, <1>6, <1>7, <2>2, <2>3, <1>2 DEF Stage, Reads
  <2>4. CASE e = p
    BY <1>2, <1>4, <1>5, <1>6, <2>4 DEF InSession, Stages, Stage
  <2> QED BY <1>1, <2>3, <2>4
<1>11. Stages'
  BY <1>4, <1>10 DEF InSession, Stages
<1>12. \A e \in Devices : AtEnd(e)' /\ Linked(e)'
  BY <1>1, <1>2, <1>4, <1>5, <1>9 DEF InSession, AtEnd, Linked
<1> QED BY <1>11, <1>12

\* In the beginning, and after every step.
LEMMA SessionInit == Init /\ WithinSession => InSession
<1> SUFFICES ASSUME Init, WithinSession PROVE InSession
  OBVIOUS
<1>1. TypeOK /\ Denial
  BY InitTyped, DenialInit
<1>2. \A d \in Devices : /\ routes[d] = <<>> /\ saved[d] = <<>> /\ prompts[d] = <<>>
                         /\ chan[d] = <<>> /\ at[d] = 0 /\ seen[d] = 0 /\ next[d] = 1
  BY DEF Init
<1>3. commands = 0 /\ gen = 1 /\ 0 <= MaxCommands
  BY BoundsAssumption DEF Init
<1>4. Stages
  BY <1>2, <1>3 DEF Stages, Stage, Reads
<1>5. Elems(<<>>) = {} /\ Distinct(<<>>) /\ Queued(<<>>)
  BY ElemsEmpty
<1>6. \A d \in Devices : AtEnd(d)
  BY <1>2, <1>5 DEF AtEnd, Side
<1>7. ASSUME NEW d \in Devices PROVE Linked(d)
  <2>1. Other(d) \in Devices
    BY OtherDevice
  <2>2. \A I, q : Link({}, {}, {}, {}, {}, I, q)
    BY DEF Link, SameFlow, NotStopped, RunsThere, Promised, Over, AskedStill
  <2> QED BY <1>2, <1>5, <2>1, <2>2 DEF Linked
<1> QED BY <1>1, <1>4, <1>6, <1>7 DEF InSession

LEMMA SessionNext == WithinSession /\ InSession /\ [Next]_vars => InSession'
<1> SUFFICES ASSUME WithinSession, InSession, [Next]_vars PROVE InSession'
  OBVIOUS
<1>1. TypeOK' /\ Denial'
  BY NextTyped, DenialNext DEF InSession
<1>2. Stages' /\ \A e \in Devices : AtEnd(e)' /\ Linked(e)'
  <2>1. commands \in {commands, commands + 1} /\ commands <= MaxCommands
    BY DEF InSession, Stages
  <2>2. CASE UNCHANGED vars
    BY <2>1, <2>2, SessionSame DEF vars, promptVars
  <2>3. ASSUME NEW d \in Devices, Receive(d)
        PROVE  Stages' /\ \A e \in Devices : AtEnd(e)' /\ Linked(e)'
    BY <2>3, SessionReceive
  <2>4. ASSUME NEW d \in Devices, Answer(d)
        PROVE  Stages' /\ \A e \in Devices : AtEnd(e)' /\ Linked(e)'
    BY <2>4, SessionAnswers DEF Answer
  <2>5. ASSUME NEW d \in Devices, Pipelines(d)
        PROVE  Stages' /\ \A e \in Devices : AtEnd(e)' /\ Linked(e)'
    BY <2>5, SessionReady DEF Pipelines
  <2>6. ASSUME NEW d \in Devices, Timeout(d)
        PROVE  Stages' /\ \A e \in Devices : AtEnd(e)' /\ Linked(e)'
    <3>1. CASE \E i \in DOMAIN routes[d] : PipelineFails(d, i)
      BY <3>1, SessionFails
    <3>2. CASE \E i \in DOMAIN routes[d] : Expire(d, i)
      BY <3>2, SessionStops
    <3>3. CASE \E i \in DOMAIN prompts[d] : PromptExpires(d, i)
      BY <3>3, SessionAnswers
    <3> QED BY <2>6, <3>1, <3>2, <3>3 DEF Timeout
  <2>7. ASSUME NEW d \in Devices, UserStep(d)
        PROVE  Stages' /\ \A e \in Devices : AtEnd(e)' /\ Linked(e)'
    <3>1. CASE \E f \in Flows : StartRoute(d, f)
      BY <3>1, SessionStart
    <3>2. CASE \E f \in Flows : CapabilityChanges(d, f)
      <4>1. PICK f \in Flows : CapabilityChanges(d, f)
        BY <3>2
      <4>2. commands' \in {commands, commands + 1} /\ commands' <= MaxCommands
        BY <4>1, CommandsBounded DEF CapabilityChanges, InSession
      <4>3. UNCHANGED <<routes, saved, promptVars, gen, dialer, at, seen, next, chan>>
        BY <4>1 DEF CapabilityChanges, sessionVars
      <4> QED BY <4>2, <4>3, SessionSame
    <3>3. CASE \/ \E i \in DOMAIN routes[d] : StopRoute(d, i)
               \/ \E p \in InUse : SetPermission(d, p)
      BY <3>3, SessionStops
    <3>4. CASE Disconnect(d)
      BY <3>4, SessionEnds
    <3> QED BY <2>7, <3>1, <3>2, <3>3, <3>4 DEF UserStep
  <2>8. ASSUME NEW d \in Devices, SessionStep(d)
        PROVE  Stages' /\ \A e \in Devices : AtEnd(e)' /\ Linked(e)'
    <3>1. CASE \E proved \in BOOLEAN : Promote(d, proved)
      BY <3>1, SessionBegins
    <3>2. CASE OnClosed(d) \/ Reconnect(d) \/ Crash(d) \/ ResumptionAges(d)
      BY <3>2, SessionEnds
    <3> QED BY <2>8, <3>1, <3>2 DEF SessionStep
  <2> QED BY <2>2, <2>3, <2>4, <2>5, <2>6, <2>7, <2>8 DEF Next
<1> QED BY <1>1, <1>2 DEF InSession

----------------------------------------------------------------------------
(* What holds within a session. *)

\* Both ends of a session that both are in.
LEMMA BothIn ==
  ASSUME InSession, Together, NEW d \in Devices, NEW p, p = Other(d)
  PROVE  /\ p \in Devices /\ Given(d) \cap Given(p) = {}
         /\ DOMAIN routes[d] = 1 .. Len(routes[d]) /\ DOMAIN routes[p] = 1 .. Len(routes[p])
         /\ DOMAIN chan[d] = 1 .. Len(chan[d])
         /\ \A r \in Elems(routes[d]) : r \in Route
         /\ \A r \in Elems(routes[p]) : r \in Route
         /\ Side(Elems(routes[d]), Elems(chan[d]), Elems(prompts[d]), Given(d), Given(p))
         /\ Side(Elems(routes[p]), Elems(chan[p]), Elems(prompts[p]), Given(p), Given(d))
         /\ Link(Elems(routes[d]), Elems(chan[d]), Elems(routes[p]), Elems(prompts[p]),
                 Elems(chan[p]), Given(d), ~prompted)
         /\ Link(Elems(routes[p]), Elems(chan[p]), Elems(routes[d]), Elems(prompts[d]),
                 Elems(chan[d]), Given(p), ~prompted)
<1>1. p \in Devices /\ Devices = {d, p}
  BY OtherDevice
<1>2. A \in Devices /\ B \in Devices
  BY DEF Devices
<1>3. at[A] \in {0, 1} /\ at[A] = at[B] /\ at[A] # 0
  BY <1>2 DEF InSession, Stages, Stage, Together
<1>4. at[A] = 1 /\ at[B] = 1
  BY <1>3
<1>5. at[d] = 1 /\ at[p] = 1
  BY <1>1, <1>2, <1>4 DEF Devices
<1>6. Reads(d) /\ Reads(p)
  BY <1>5 DEF Reads
<1>7. ASSUME NEW e \in Devices
      PROVE  /\ DOMAIN routes[e] = 1 .. Len(routes[e]) /\ DOMAIN chan[e] = 1 .. Len(chan[e])
             /\ \A r \in Elems(routes[e]) : r \in Route
  <2>1. PICK s \in Seq(Route) : s = routes[e]
    BY DEF InSession, TypeOK
  <2>2. PICK t \in Seq(Message) : t = chan[e]
    BY DEF InSession, TypeOK
  <2>3. DOMAIN s = 1 .. Len(s) /\ DOMAIN t = 1 .. Len(t)
    BY LenProperties
  <2>4. \A k \in 1 .. Len(s) : s[k] \in Route
    BY ElementOfSeq
  <2> QED BY <2>1, <2>2, <2>3, <2>4 DEF Elems
<1> QED BY <1>1, <1>6, <1>7, EndsBefore

\* What the invariant says of the properties.
LEMMA SessionKeys == InSession => KeysDistinct
<1> SUFFICES ASSUME InSession, NEW d \in Devices, NEW i \in DOMAIN routes[d],
                    NEW j \in DOMAIN routes[d],
                    routes[d][i].st # "Paused", routes[d][i].id = routes[d][j].id
             PROVE  i = j
  BY DEF KeysDistinct
<1>1. DOMAIN routes[d] = 1 .. Len(routes[d])
  BY LenProperties DEF InSession, TypeOK
<1>2. Reads(d)
  BY <1>1 DEF InSession, Stages, Stage
<1> QED BY <1>1, <1>2 DEF InSession, AtEnd, Distinct

LEMMA SessionMatched == InSession => RequesterMatched
<1> SUFFICES ASSUME InSession, Together, NEW d \in Devices, NEW i \in DOMAIN routes[d],
                    routes[d][i].mine, routes[d][i].st \in {"Starting", "Active"}
             PROVE  \/ Matched(d, routes[d][i])
                    \/ \E k \in DOMAIN chan[d] : /\ chan[d][k].id = routes[d][i].id
                                                 /\ chan[d][k].type \in {"Stop", "Reject"}
  BY DEF RequesterMatched
<1>1. PICK p : p = Other(d)
  OBVIOUS
<1> DEFINE R == Elems(routes[d])
           M == Elems(chan[d])
           S == Elems(routes[p])
           N == Elems(chan[p])
           Q == Elems(prompts[p])
           I == Given(d)
           J == Given(p)
<1>2. /\ I \cap J = {} /\ DOMAIN routes[d] = 1 .. Len(routes[d])
      /\ DOMAIN routes[p] = 1 .. Len(routes[p]) /\ DOMAIN chan[d] = 1 .. Len(chan[d])
      /\ \A r \in R : r \in Route
      /\ \A r \in S : r \in Route
      /\ Side(R, M, Elems(prompts[d]), I, J) /\ Side(S, N, Q, J, I)
      /\ Link(R, M, S, Q, N, I, ~prompted)
  BY <1>1, BothIn
<1>3. PICK r : r = routes[d][i]
  OBVIOUS
<1>4. r \in R /\ r.mine /\ r.st \in {"Starting", "Active"} /\ r \in Route
  BY <1>2, <1>3 DEF Elems
<1>5. \A s \in S : \E k \in DOMAIN routes[p] : s = routes[p][k]
  BY <1>2 DEF Elems
<1>6. \A m \in M : \E k \in DOMAIN chan[d] : m = chan[d][k]
  BY <1>2 DEF Elems
<1> HIDE DEF R, M, S, N, Q, I, J
<1>7. CASE \E m \in M : m.id = r.id /\ m.type \in Ends
  BY <1>3, <1>6, <1>7 DEF Ends
<1>8. ASSUME NEW s \in S, s.id = r.id, s.st = "Active" PROVE Matched(d, r)
  <2>1. s.flow = r.flow
    BY <1>2, <1>4, <1>8 DEF Link, SameFlow
  <2>2. ~s.mine
    BY <1>2, <1>4, <1>8 DEF Side
  <2>3. s.mine = ~r.mine
    BY <1>2, <1>4, <2>2 DEF Route
  <2> QED BY <1>1, <1>5, <1>8, <2>1, <2>3 DEF Matched
<1>9. \/ \E s \in S : s.id = r.id /\ s.st = "Active"
      \/ \E m \in M : m.id = r.id /\ m.type \in Ends
  BY <1>2, <1>4 DEF Link, RunsThere
<1> QED BY <1>3, <1>7, <1>8, <1>9

LEMMA SessionAgrees == InSession => AgreeUnasked
<1> SUFFICES ASSUME InSession, ~prompted, Settled, NEW d \in Devices,
                    NEW i \in DOMAIN routes[d], routes[d][i].st = "Active"
             PROVE  Matched(d, routes[d][i])
  BY DEF AgreeUnasked, RoutesAgree
<1>1. PICK p : p = Other(d)
  OBVIOUS
<1>0. Together
  BY DEF Settled
<1> DEFINE R == Elems(routes[d])
           M == Elems(chan[d])
           P == Elems(prompts[d])
           S == Elems(routes[p])
           N == Elems(chan[p])
           Q == Elems(prompts[p])
           I == Given(d)
           J == Given(p)
<1>2. /\ p \in Devices /\ I \cap J = {} /\ DOMAIN routes[d] = 1 .. Len(routes[d])
      /\ DOMAIN routes[p] = 1 .. Len(routes[p])
      /\ \A r \in R : r \in Route
      /\ \A r \in S : r \in Route
      /\ Side(R, M, P, I, J) /\ Side(S, N, Q, J, I)
      /\ Link(R, M, S, Q, N, I, ~prompted) /\ Link(S, N, R, P, M, J, ~prompted)
  BY <1>0, <1>1, BothIn
<1>3. M = {} /\ N = {}
  BY <1>2, ElemsEmpty DEF Settled
<1>4. PICK r : r = routes[d][i]
  OBVIOUS
<1>5. r \in R /\ r.st = "Active" /\ r \in Route
  BY <1>2, <1>4 DEF Elems
<1>6. \A s \in S : /\ s.st \in {"Active", "Paused"}
                   /\ \E k \in DOMAIN routes[p] : s = routes[p][k]
  BY <1>2 DEF Elems, Settled
<1>7. ~prompted
  OBVIOUS
<1> HIDE DEF R, M, P, S, N, Q, I, J
<1>8. ASSUME NEW s \in S, s.id = r.id, s.flow = r.flow, s.st = "Active", s.mine = ~r.mine
      PROVE  Matched(d, r)
  BY <1>1, <1>6, <1>8 DEF Matched
<1>9. CASE r.mine
  <2>1. PICK s \in S : s.id = r.id /\ s.st = "Active"
    BY <1>2, <1>3, <1>5, <1>9 DEF Link, RunsThere
  <2>2. s.flow = r.flow
    BY <1>2, <1>5, <1>9, <2>1 DEF Link, SameFlow
  <2>3. ~s.mine
    BY <1>2, <1>5, <1>9, <2>1 DEF Side
  <2>4. s.mine = ~r.mine
    BY <1>2, <1>9, <2>3 DEF Route
  <2> QED BY <1>4, <1>8, <2>1, <2>2, <2>4
<1>10. CASE ~r.mine
  <2>1. PICK s \in S : s.id = r.id
    BY <1>2, <1>3, <1>5, <1>7, <1>10 DEF Link, AskedStill
  <2>2. s.mine
    BY <1>2, <1>5, <1>10, <2>1 DEF Side
  <2>3. s.flow = r.flow
    BY <1>2, <1>5, <2>1, <2>2 DEF Link, SameFlow
  <2>4. s.st = "Active"
    BY <1>2, <1>6, <2>1 DEF Side
  <2>5. s.mine = ~r.mine
    BY <1>2, <1>5, <1>10, <2>2 DEF Route
  <2> QED BY <1>4, <1>8, <2>1, <2>3, <2>4, <2>5
<1> QED BY <1>9, <1>10

\* It holds of every state.
LEMMA SessionAlways ==
  ASSUME WithinSession
  PROVE  Spec => []InSession
<1>1. Init => InSession
  BY SessionInit
<1>2. InSession /\ [Next]_vars => InSession'
  BY SessionNext
<1> QED BY <1>1, <1>2, PTL DEF Spec

\* alloc_route: no two routes of a device that are not paused have one id, which
\* is the key by which every handler finds a route, within a session whose ids do
\* not come round.
THEOREM KeysAlwaysDistinct ==
  ASSUME WithinSession
  PROVE  Spec => []KeysDistinct
<1>1. Spec => []InSession
  BY SessionAlways
<1>2. InSession => KeysDistinct
  BY SessionKeys
<1> QED BY <1>1, <1>2, PTL

\* A route runs for the device that asked for it only while the other device runs
\* its half or has said that it stopped it, within a session (on_route_accept,
\* activate_route, fail_route, stop_route_by_key).
THEOREM RequesterAlwaysMatched ==
  ASSUME WithinSession
  PROVE  Spec => []RequesterMatched
<1>1. Spec => []InSession
  BY SessionAlways
<1>2. InSession => RequesterMatched
  BY SessionMatched
<1> QED BY <1>1, <1>2, PTL

\* Without prompts a route runs at both devices or at none once nothing is under
\* way, in whatever order requests, answers, stops, time-outs, refusals and the
\* end of the session cross (start_route_keeping, accept_route, on_route_accept,
\* stop_route_by_key).
THEOREM DevicesAgree ==
  ASSUME WithinSession
  PROVE  Spec => []AgreeUnasked
<1>1. Spec => []InSession
  BY SessionAlways
<1>2. InSession => AgreeUnasked
  BY SessionAgrees
<1> QED BY <1>1, <1>2, PTL
=============================================================================
