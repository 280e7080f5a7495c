--------------------------- MODULE PipelinesProofs ---------------------------
(***************************************************************************)
(* Proofs about module Pipelines as a part of MCAudio, for any routes,     *)
(* encodings and bounds: no audio device is open for nobody, and no route  *)
(* that sends is without audio.                                            *)
(*                                                                         *)
(* The handlers compute a state x that Becomes takes over.  Settled says   *)
(* what x must be between two events: Sane, who may refer to which start;  *)
(* Wanted, that every open device serves somebody; and FedAt, that a       *)
(* sender has its group.  The handlers that reopen several routes break    *)
(* the last two on the way; Left and Room say what holds while some of the *)
(* routes are still to be reopened.                                        *)
(***************************************************************************)
EXTENDS MCAudio, FiniteSetTheorems, SequenceTheorems, WellFoundedInduction, TLAPS

----------------------------------------------------------------------------
(* The pipelines.                                                          *)

PState == [route: [Routes -> Route], slot: [Keys -> Slot], stream: [Starts -> Streams],
           opener: [Starts -> Keys \cup {NoKey} \cup Receivers], next: 0 .. MaxStarts]

\* The result of a start has not been handled.
Unhandled == {"opening", "opened", "refused"}

\* A group has the stream of its start, or will have it.
GroupInv(x, k) ==
  LET g == x.slot[k] IN
  /\ g.st = "none" => g = NoSlot
  /\ g.st # "none" => g.id \in 1 .. x.next /\ x.opener[g.id] = k
  /\ g.st = "Running" => x.stream[g.id] = "used"
  /\ g.st = "Starting" => x.stream[g.id] \in Unhandled

\* A route that plays has its receiver, or waits for one.
PlayInv(x, r) ==
  LET a == x.route[r] IN
  /\ a.enc = NoKey /\ a.sub = 0
  /\ a.start # 0 => /\ a.start \in 1 .. x.next /\ x.opener[a.start] = r
                    /\ a.st # "none" /\ x.stream[a.start] \in Unhandled
  /\ a.recv # 0 => /\ a.recv \in 1 .. x.next /\ x.opener[a.recv] = r
                   /\ a.st = "Active" /\ x.stream[a.recv] = "used"

\* A route that sends subscribed to a group of its encoder.
SendInv(x, r) ==
  LET a == x.route[r] IN
  /\ a.start = 0 /\ a.recv = 0
  /\ a.enc # NoKey => a.st # "none"
  /\ a.sub # 0 => /\ a.sub \in 1 .. x.next /\ x.opener[a.sub] = a.enc
                  /\ a.enc # NoKey /\ a.st = "Active"

Sane(x) ==
  /\ x \in PState
  /\ \A n \in Starts : n > x.next => x.stream[n] = "none"
  /\ \A k \in Keys : GroupInv(x, k)
  /\ \A r \in Receivers : PlayInv(x, r)
  /\ \A r \in Senders : SendInv(x, r)

Plays(x, n) == \E r \in Receivers : x.route[r].recv = n

\* Every open device is that of a group or of a receiver.
Held(x) ==
  \A n \in Starts : x.stream[n] = "used" =>
    (\E k \in Keys : x.slot[k].st = "Running" /\ x.slot[k].id = n) \/ Plays(x, n)

\* And somebody listens to each running group.
Wanted(x) ==
  /\ Held(x)
  /\ \A k \in Keys : x.slot[k].st = "Running" => Listeners(x, k) # {}

FedAt(x, r) ==
  x.route[r].st # "none" =>
    LET k == KeyOf(x, r) IN
    /\ x.route[r].enc = k
    /\ \/ x.slot[k].st = "Running" /\ x.route[r].sub = x.slot[k].id
       \/ x.slot[k].st = "Starting" /\ r \in x.slot[k].waiting /\ x.route[r].sub = 0

\* Between two events.
Settled(x) == Sane(x) /\ Wanted(x) /\ \A q \in Senders : FedAt(x, q)

PInv ==
  /\ Settled(Now)
  /\ failing \subseteq failed /\ failed \subseteq Starts
  /\ reopened \subseteq Routes /\ failures \in Nat

\* The parts of a state.
LEMMA PParts ==
  ASSUME NEW x \in PState
  PROVE  /\ x.route \in [Routes -> Route] /\ x.slot \in [Keys -> Slot]
         /\ x.stream \in [Starts -> Streams] /\ x.next \in 0 .. MaxStarts
         /\ x.opener \in [Starts -> Keys \cup {NoKey} \cup Receivers]
         /\ \A r \in Routes : /\ x.route[r].st \in {"none", "Starting", "Active"}
                              /\ x.route[r].codec \in Codecs
                              /\ x.route[r].enc \in Keys \cup {NoKey}
                              /\ x.route[r].sub \in 0 .. MaxStarts
                              /\ x.route[r].start \in 0 .. MaxStarts
                              /\ x.route[r].recv \in 0 .. MaxStarts
         /\ \A k \in Keys : /\ x.slot[k].st \in {"none", "Starting", "Running"}
                            /\ x.slot[k].id \in 0 .. MaxStarts
                            /\ x.slot[k].waiting \in SUBSET Routes
         /\ \A n \in Starts : x.stream[n] \in Streams
         /\ Starts = 1 .. MaxStarts /\ MaxStarts \in Nat
  BY PipelineBounds DEF PState, Route, Slot, Starts

\* NoKey is no key, and no sender a receiver.
LEMMA NamesApart ==
  /\ NoKey \notin Keys /\ \A r \in Receivers : r \notin Keys /\ r # NoKey
  /\ \A r \in Senders : r \notin Receivers
  BY CodecsNamed, KeysApart, RoutesApart DEF Keys, NoKey

\* z is x without some of the running groups.
Without(x, z, ks) ==
  /\ z \in PState /\ z.route = x.route /\ z.next = x.next /\ z.opener = x.opener
  /\ \A k \in ks : x.slot[k].st = "Running" /\ z.slot[k] = NoSlot
                   /\ z.stream[x.slot[k].id] = "dropped"
  /\ \A k \in Keys \ ks : z.slot[k] = x.slot[k]
  /\ \A n \in Starts : (\A k \in ks : n # x.slot[k].id) => z.stream[n] = x.stream[n]

\* Closing groups leaves no device open for them.
LEMMA WithoutSane ==
  ASSUME NEW x, Sane(x), NEW ks \in SUBSET Keys, NEW z, Without(x, z, ks)
  PROVE  Sane(z) /\ (Held(x) => Held(z))
  <1>1. x \in PState /\ z \in PState
    BY DEF Sane, Without
  <1>2. \A k \in ks : x.slot[k].id \in Starts /\ x.slot[k].id <= x.next
                      /\ x.opener[x.slot[k].id] = k /\ x.stream[x.slot[k].id] = "used"
    <2> TAKE k \in ks
    <2>1. x.slot[k].st = "Running" /\ GroupInv(x, k)
      BY DEF Without, Sane
    <2> QED BY <1>1, <2>1, PParts DEF GroupInv
  <1>3. \A n \in Starts : z.stream[n] # x.stream[n] =>
          \E k \in ks : n = x.slot[k].id /\ x.stream[n] = "used" /\ z.stream[n] = "dropped"
                        /\ x.opener[n] = k
    BY <1>2 DEF Without
  <1>4. \A n \in Starts : x.opener[n] \notin ks => z.stream[n] = x.stream[n]
    BY <1>3
  <1>5. \A n \in Starts : n > z.next => z.stream[n] = "none"
    BY <1>1, <1>3, PParts DEF Sane, Without
  <1>6. ASSUME NEW k \in Keys
        PROVE  GroupInv(z, k)
    <2>1. GroupInv(x, k)
      BY DEF Sane
    <2>2. CASE k \in ks
      BY <2>2 DEF Without, GroupInv, NoSlot
    <2>3. CASE k \notin ks
      <3>1. z.slot[k] = x.slot[k] /\ z.opener = x.opener /\ z.next = x.next
        BY <2>3 DEF Without
      <3>2. x.slot[k].st # "none" => x.slot[k].id \in Starts
        BY <1>1, <2>1, PParts DEF GroupInv
      <3>3. x.slot[k].st # "none" => z.stream[x.slot[k].id] = x.stream[x.slot[k].id]
        BY <1>4, <2>1, <2>3, <3>2 DEF GroupInv
      <3> QED BY <2>1, <3>1, <3>3 DEF GroupInv
    <2> QED BY <2>2, <2>3
  <1>7. ASSUME NEW r \in Receivers
        PROVE  PlayInv(z, r)
    <2>1. PlayInv(x, r) /\ z.route = x.route /\ z.next = x.next /\ z.opener = x.opener
      BY DEF Sane, Without
    <2>2. r \notin ks
      BY NamesApart
    <2>3. \A n \in 1 .. x.next : n \in Starts
      BY <1>1, PParts
    <2> QED BY <1>4, <2>1, <2>2, <2>3 DEF PlayInv
  <1>8. \A r \in Senders : SendInv(z, r)
    BY DEF Sane, Without, SendInv
  <1>9. ASSUME Held(x)
        PROVE  Held(z)
    <2> SUFFICES ASSUME NEW n \in Starts, z.stream[n] = "used"
                 PROVE  (\E k \in Keys : z.slot[k].st = "Running" /\ z.slot[k].id = n)
                        \/ Plays(z, n)
      BY DEF Held
    <2>1. x.stream[n] = "used" /\ \A k \in ks : n # x.slot[k].id
      <3>1. x.stream[n] = z.stream[n]
        BY <1>3
      <3> QED BY <3>1 DEF Without
    <2>2. CASE Plays(x, n)
      BY <2>2 DEF Plays, Without
    <2>3. CASE \E k \in Keys : x.slot[k].st = "Running" /\ x.slot[k].id = n
      BY <2>1, <2>3 DEF Without
    <2> QED BY <1>9, <2>1, <2>2, <2>3 DEF Held
  <1> QED BY <1>1, <1>5, <1>6, <1>7, <1>8, <1>9 DEF Sane

\* prune_encoders
LEMMA PruneIs ==
  ASSUME NEW x, Sane(x), Held(x)
  PROVE  LET z == Prune(x)
             ks == {k \in Keys : x.slot[k].st = "Running" /\ Listeners(x, k) = {}}
         IN Sane(z) /\ Wanted(z) /\ Without(x, z, ks)
  <1>1. PICK ks : ks = {k \in Keys : x.slot[k].st = "Running" /\ Listeners(x, k) = {}}
    OBVIOUS
  <1>2. PICK ns : ns = {x.slot[k].id : k \in ks}
    OBVIOUS
  <1>3. PICK gs : gs = [k \in Keys |-> IF k \in ks THEN NoSlot ELSE x.slot[k]]
    OBVIOUS
  <1>4. PICK ss : ss = [n \in Starts |-> IF n \in ns THEN "dropped" ELSE x.stream[n]]
    OBVIOUS
  <1>5. PICK z : z = [x EXCEPT !.slot = gs, !.stream = ss]
    OBVIOUS
  <1>6. Prune(x) = z
    BY <1>1, <1>2, <1>3, <1>4, <1>5 DEF Prune
  <1>7. x \in PState
    BY DEF Sane
  <1>8. NoSlot \in Slot /\ "dropped" \in Streams
    BY PipelineBounds DEF NoSlot, Slot, Streams
  <1>9. gs \in [Keys -> Slot] /\ ss \in [Starts -> Streams]
    BY <1>3, <1>4, <1>7, <1>8, PParts
  <1>10. /\ z \in PState /\ z.route = x.route /\ z.next = x.next /\ z.opener = x.opener
         /\ z.slot = gs /\ z.stream = ss
    BY <1>5, <1>7, <1>9 DEF PState
  <1>11. \A k \in ks : x.slot[k].id \in Starts
    <2> TAKE k \in ks
    <2>1. GroupInv(x, k) /\ x.slot[k].st = "Running"
      BY <1>1 DEF Sane
    <2> QED BY <1>7, <2>1, PParts DEF GroupInv
  <1>12. Without(x, z, ks)
    BY <1>1, <1>2, <1>3, <1>4, <1>10, <1>11 DEF Without
  <1>13. ks \in SUBSET Keys
    BY <1>1
  <1>14. Sane(z) /\ Held(z)
    BY <1>12, <1>13, WithoutSane
  <1>15. ASSUME NEW k \in Keys, z.slot[k].st = "Running"
         PROVE  Listeners(z, k) # {}
    <2>1. k \notin ks /\ z.slot[k] = x.slot[k]
      BY <1>3, <1>10, <1>15 DEF NoSlot
    <2>2. Listeners(x, k) # {}
      BY <1>1, <1>15, <2>1
    <2> QED BY <1>10, <2>1, <2>2 DEF Listeners
  <1> QED BY <1>1, <1>6, <1>12, <1>14, <1>15 DEF Wanted

\* close_encoder
LEMMA CloseIs ==
  ASSUME NEW x, Sane(x), Held(x), NEW k \in Keys \cup {NoKey}
  PROVE  LET z == CloseEncoder(x, k) IN
         /\ Sane(z) /\ Held(z)
         /\ Without(x, z, IF k = NoKey \/ x.slot[k].st # "Running" THEN {} ELSE {k})
         /\ k # NoKey => z.slot[k].st # "Running"
  <1>1. x \in PState
    BY DEF Sane
  <1>2. CASE k = NoKey \/ x.slot[k].st # "Running"
    <2>1. CloseEncoder(x, k) = x
      BY <1>2 DEF CloseEncoder
    <2>2. Without(x, x, {})
      BY <1>1 DEF Without
    <2> QED BY <1>2, <2>1, <2>2
  <1>3. CASE k # NoKey /\ x.slot[k].st = "Running"
    <2>1. GroupInv(x, k) /\ k \in Keys
      BY <1>3 DEF Sane
    <2>2. PICK n : n = x.slot[k].id
      OBVIOUS
    <2>3. n \in Starts /\ n # 0 /\ x.stream[n] = "used"
      BY <1>1, <1>3, <2>1, <2>2, PParts DEF GroupInv
    <2>4. PICK gs : gs = [x.slot EXCEPT ![k] = NoSlot]
      OBVIOUS
    <2>5. PICK ss : ss = [x.stream EXCEPT ![n] = "dropped"]
      OBVIOUS
    <2>6. NoSlot \in Slot /\ "dropped" \in Streams
      BY PipelineBounds DEF NoSlot, Slot, Streams
    <2>7. gs \in [Keys -> Slot] /\ ss \in [Starts -> Streams]
      BY <1>1, <2>4, <2>5, <2>6, PParts
    <2>8. PICK y : y = [x EXCEPT !.slot = gs]
      OBVIOUS
    <2>9. /\ y \in PState /\ y.route = x.route /\ y.next = x.next /\ y.opener = x.opener
          /\ y.slot = gs /\ y.stream = x.stream
      BY <1>1, <2>7, <2>8 DEF PState
    <2>10. PICK z : z = [y EXCEPT !.stream = ss]
      OBVIOUS
    <2>11. /\ z \in PState /\ z.route = x.route /\ z.next = x.next /\ z.opener = x.opener
           /\ z.slot = gs /\ z.stream = ss
      BY <2>7, <2>9, <2>10 DEF PState
    <2>12. CloseEncoder(x, k) = z
      <3>1. CloseEncoder(x, k) = Drop(y, n)
        BY <1>3, <2>2, <2>4, <2>8 DEF CloseEncoder
      <3>2. Drop(y, n) = [y EXCEPT !.stream[n] = "dropped"]
        BY <2>3, <2>9 DEF Drop
      <3> QED BY <2>5, <2>9, <2>10, <3>1, <3>2
    <2>13. Without(x, z, {k})
      BY <1>1, <1>3, <2>1, <2>2, <2>3, <2>4, <2>5, <2>11, PParts DEF Without
    <2>14. Sane(z) /\ Held(z)
      BY <2>1, <2>13, WithoutSane
    <2>15. z.slot[k].st # "Running"
      BY <2>1, <2>13 DEF Without, NoSlot
    <2> QED BY <1>3, <2>12, <2>13, <2>14, <2>15
  <1> QED BY <1>2, <1>3

\* A route without pipelines.
Bare(s, c) ==
  [st |-> s, codec |-> c, enc |-> NoKey, sub |-> 0, start |-> 0, recv |-> 0]

\* z is x after route r, now with status s and codec c, gave up its pipelines: a
\* group that has other listeners stays.
Released(x, z, r, s, c) ==
  /\ Sane(z) /\ Wanted(z) /\ z.next = x.next
  /\ z.route = [x.route EXCEPT ![r] = Bare(s, c)]
  /\ \A k \in Keys : z.slot[k] = x.slot[k]
                     \/ (x.slot[k].st = "Running" /\ z.slot[k] = NoSlot)
  /\ \A q \in Senders \ {r} : FedAt(x, q) => FedAt(z, q)

\* The key of a route is one.
LEMMA KeyIs ==
  ASSUME NEW x, NEW q, x.route[q].codec \in Codecs
  PROVE  KeyOf(x, q) \in Keys /\ KeyOf(x, q) # NoKey
  <1>1. KeyOf(x, q) \in Keys
    BY DEF KeyOf, Keys
  <1> QED BY <1>1, NamesApart

\* A route is fed as long as its group has it.
LEMMA FedFrame ==
  ASSUME NEW x, NEW z, NEW q \in Senders, z.route[q] = x.route[q],
         \A k \in Keys : x.route[q].enc = k =>
           \/ z.slot[k] = x.slot[k]
           \/ x.slot[k].st = "Running" /\ z.slot[k].st = "Running"
              /\ z.slot[k].id = x.slot[k].id
           \/ x.slot[k].st = "Starting" /\ z.slot[k].st = "Starting"
              /\ x.slot[k].waiting \subseteq z.slot[k].waiting,
         x.route[q].codec \in Codecs, FedAt(x, q)
  PROVE  FedAt(z, q)
  <1>1. KeyOf(z, q) = KeyOf(x, q) /\ KeyOf(x, q) \in Keys
    BY KeyIs DEF KeyOf
  <1>2. SUFFICES ASSUME z.route[q].st # "none" PROVE FedAt(z, q)
    BY DEF FedAt
  <1>3. PICK k \in Keys : k = KeyOf(x, q)
    BY <1>1
  <1>4. /\ x.route[q].enc = k
        /\ \/ x.slot[k].st = "Running" /\ x.route[q].sub = x.slot[k].id
           \/ x.slot[k].st = "Starting" /\ q \in x.slot[k].waiting /\ x.route[q].sub = 0
    BY <1>2, <1>3 DEF FedAt
  <1>5. \/ z.slot[k].st = "Running" /\ z.route[q].sub = z.slot[k].id
        \/ z.slot[k].st = "Starting" /\ q \in z.slot[k].waiting /\ z.route[q].sub = 0
    BY <1>4
  <1> QED BY <1>1, <1>3, <1>4, <1>5 DEF FedAt

\* release_pipelines
LEMMA ReleasedIs ==
  ASSUME NEW x, Sane(x), Held(x), NEW r \in Routes, NEW s \in {"none", "Starting", "Active"},
         NEW c \in Codecs, NEW y, y = [x EXCEPT !.route[r] = Bare(s, c)]
  PROVE  Released(x, Prune(Drop(y, x.route[r].recv)), r, s, c)
  <1>1. x \in PState
    BY DEF Sane
  <1>2. Bare(s, c) \in Route
    BY PipelineBounds DEF Bare, Route
  <1>3. PICK rs : rs = [x.route EXCEPT ![r] = Bare(s, c)]
    OBVIOUS
  <1>4. rs \in [Routes -> Route]
    BY <1>1, <1>2, <1>3, PParts
  <1>5. y = [x EXCEPT !.route = rs]
    BY <1>3
  <1>6. /\ y \in PState /\ y.route = rs /\ y.next = x.next /\ y.opener = x.opener
        /\ y.slot = x.slot /\ y.stream = x.stream
    BY <1>1, <1>4, <1>5 DEF PState
  <1>7. rs[r] = Bare(s, c) /\ \A q \in Routes \ {r} : rs[q] = x.route[q]
    BY <1>1, <1>3, PParts
  <1>8. PICK n : n = x.route[r].recv
    OBVIOUS
  <1>9. n # 0 => /\ r \in Receivers /\ n \in Starts /\ x.opener[n] = r
                 /\ x.stream[n] = "used"
    <2>1. r \in Senders => n = 0
      BY <1>8 DEF Sane, SendInv
    <2>2. r \in Receivers => PlayInv(x, r)
      BY DEF Sane
    <2> QED BY <1>1, <1>8, <2>1, <2>2, PParts DEF PlayInv, Routes
  <1>10. PICK w : w = Drop(y, n)
    OBVIOUS
  <1>11. PICK ss : ss = IF n = 0 THEN x.stream ELSE [x.stream EXCEPT ![n] = "dropped"]
    OBVIOUS
  <1>12. /\ w \in PState /\ w.route = rs /\ w.next = x.next /\ w.opener = x.opener
         /\ w.slot = x.slot /\ w.stream = ss
    <2>1. CASE n = 0
      BY <1>6, <1>10, <1>11, <2>1 DEF Drop
    <2>2. CASE n # 0
      <3>1. ss \in [Starts -> Streams]
        BY <1>1, <1>11, <2>2, PParts DEF Streams
      <3>2. w = [y EXCEPT !.stream = ss]
        BY <1>6, <1>9, <1>10, <1>11, <2>2 DEF Drop
      <3> QED BY <1>6, <3>1, <3>2 DEF PState
    <2> QED BY <2>1, <2>2
  <1>13. \A m \in Starts : ss[m] = IF n # 0 /\ m = n THEN "dropped" ELSE x.stream[m]
    BY <1>1, <1>11, PParts
  <1>14. Sane(w)
    <2>1. \A m \in Starts : m > w.next => w.stream[m] = "none"
      BY <1>9, <1>12, <1>13 DEF Sane, Streams
    <2>2. ASSUME NEW k \in Keys
          PROVE  GroupInv(w, k)
      <3>1. GroupInv(x, k)
        BY DEF Sane
      <3>2. n # 0 => x.opener[n] # k
        BY <1>9, NamesApart
      <3>3. x.slot[k].st # "none" => x.slot[k].id \in Starts
        BY <1>1, <3>1, PParts DEF GroupInv
      <3> QED BY <1>12, <1>13, <3>1, <3>2, <3>3 DEF GroupInv
    <2>3. ASSUME NEW q \in Receivers
          PROVE  PlayInv(w, q)
      <3>1. PlayInv(x, q)
        BY DEF Sane
      <3>2. CASE q = r
        BY <1>7, <1>12, <3>2 DEF PlayInv, Bare
      <3>3. CASE q # r
        <4>1. w.route[q] = x.route[q]
          BY <1>7, <1>12, <3>3 DEF Routes
        <4>2. n # 0 => x.opener[n] # q
          BY <1>9, <3>3
        <4>3. \A m \in 1 .. x.next : m \in Starts
          BY <1>1, PParts
        <4> QED BY <1>12, <1>13, <3>1, <4>1, <4>2, <4>3 DEF PlayInv
      <3> QED BY <3>2, <3>3
    <2>4. ASSUME NEW q \in Senders
          PROVE  SendInv(w, q)
      <3>1. SendInv(x, q)
        BY DEF Sane
      <3>2. CASE q = r
        BY <1>7, <1>12, <3>2 DEF SendInv, Bare
      <3>3. CASE q # r
        <4>1. w.route[q] = x.route[q]
          BY <1>7, <1>12, <3>3 DEF Routes
        <4> QED BY <1>12, <3>1, <4>1 DEF SendInv
      <3> QED BY <3>2, <3>3
    <2> QED BY <1>12, <2>1, <2>2, <2>3, <2>4 DEF Sane
  <1>15. Held(w)
    <2> SUFFICES ASSUME NEW m \in Starts, w.stream[m] = "used"
                 PROVE  (\E k \in Keys : w.slot[k].st = "Running" /\ w.slot[k].id = m)
                        \/ Plays(w, m)
      BY DEF Held
    <2>1. x.stream[m] = "used" /\ (n # 0 => m # n)
      BY <1>12, <1>13
    <2>2. CASE \E k \in Keys : x.slot[k].st = "Running" /\ x.slot[k].id = m
      BY <1>12, <2>2
    <2>3. CASE Plays(x, m)
      <3>1. PICK q \in Receivers : x.route[q].recv = m
        BY <2>3 DEF Plays
      <3>2. m # 0
        BY <1>1, PParts
      <3>3. q # r
        BY <1>8, <2>1, <3>1, <3>2
      <3>4. w.route[q] = x.route[q]
        BY <1>7, <1>12, <3>3 DEF Routes
      <3> QED BY <3>1, <3>4 DEF Plays
    <2> QED BY <2>1, <2>2, <2>3 DEF Held
  <1>16. PICK z : z = Prune(w)
    OBVIOUS
  <1>17. PICK ks : ks = {k \in Keys : w.slot[k].st = "Running" /\ Listeners(w, k) = {}}
    OBVIOUS
  <1>18. Sane(z) /\ Wanted(z) /\ Without(w, z, ks)
    BY <1>14, <1>15, <1>16, <1>17, PruneIs
  <1>19. z.route = rs /\ z.next = x.next
    BY <1>12, <1>18 DEF Without
  <1>20. \A k \in Keys : z.slot[k] = x.slot[k] \/ (x.slot[k].st = "Running" /\ z.slot[k] = NoSlot)
    BY <1>12, <1>18 DEF Without
  <1>21. ASSUME NEW q \in Senders \ {r}, FedAt(x, q)
         PROVE  FedAt(z, q)
    <2>1. z.route[q] = x.route[q] /\ w.route[q] = x.route[q] /\ q \in Routes
      BY <1>7, <1>12, <1>19 DEF Routes
    <2>2. CASE x.route[q].st = "none"
      BY <2>1, <2>2 DEF FedAt
    <2>3. CASE x.route[q].st # "none"
      <3>1. PICK k \in Keys : k = KeyOf(x, q)
        BY <1>1, <2>1, PParts, KeyIs
      <3>2. x.route[q].enc = k
        BY <1>21, <2>3, <3>1 DEF FedAt
      <3>3. k \notin ks
        <4> SUFFICES ASSUME k \in ks PROVE FALSE
          OBVIOUS
        <4>1. x.slot[k].st = "Running" /\ Listeners(w, k) = {}
          BY <1>12, <1>17
        <4>2. x.route[q].sub = x.slot[k].id
          BY <1>21, <2>3, <3>1, <4>1 DEF FedAt
        <4>3. q \in Listeners(w, k)
          BY <1>12, <2>1, <4>2 DEF Listeners
        <4> QED BY <4>1, <4>3
      <3>4. z.slot[k] = x.slot[k]
        BY <1>12, <1>18, <3>3 DEF Without
      <3>5. x.route[q].codec \in Codecs
        BY <1>1, <2>1, PParts
      <3> QED BY <1>21, <2>1, <3>2, <3>4, <3>5, FedFrame
    <2> QED BY <2>2, <2>3
  <1> QED BY <1>3, <1>8, <1>10, <1>16, <1>18, <1>19, <1>20, <1>21 DEF Released

\* release_pipelines, of a route whose status or codec changed before.
LEMMA ReleaseIs ==
  ASSUME NEW x, Sane(x), Held(x), NEW r \in Routes, NEW a \in Route,
         a.recv = x.route[r].recv, NEW u, u = [x EXCEPT !.route[r] = a]
  PROVE  Released(x, Release(u, r), r, a.st, a.codec)
  <1>1. x \in PState /\ a.st \in {"none", "Starting", "Active"} /\ a.codec \in Codecs
    BY DEF Sane, Route
  <1>2. PICK y : y = [x EXCEPT !.route[r] = Bare(a.st, a.codec)]
    OBVIOUS
  <1>3. Bare(a.st, a.codec) = [a EXCEPT !.enc = NoKey, !.sub = 0, !.start = 0, !.recv = 0]
    <2>1. PICK b : b = [a EXCEPT !.enc = NoKey, !.sub = 0, !.start = 0, !.recv = 0]
      OBVIOUS
    <2>2. a = [st |-> a.st, codec |-> a.codec, enc |-> a.enc, sub |-> a.sub,
               start |-> a.start, recv |-> a.recv]
      BY DEF Route
    <2>3. b = [st |-> a.st, codec |-> a.codec, enc |-> NoKey, sub |-> 0, start |-> 0, recv |-> 0]
      BY <2>1, <2>2
    <2> QED BY <2>1, <2>3 DEF Bare
  <1>4. PICK rs : rs = [x.route EXCEPT ![r] = a]
    OBVIOUS
  <1>5. u = [x EXCEPT !.route = rs]
    BY <1>4
  <1>6. u \in PState /\ u.route = rs /\ rs[r] = a
    BY <1>1, <1>4, <1>5 DEF PState
  <1>7. PICK qs : qs = [rs EXCEPT ![r] = Bare(a.st, a.codec)]
    OBVIOUS
  <1>8. [u EXCEPT !.route[r] = [@ EXCEPT !.enc = NoKey, !.sub = 0, !.start = 0, !.recv = 0]]
        = [u EXCEPT !.route = qs]
    <2>1. u.route[r] = a
      BY <1>6
    <2> QED BY <1>3, <1>6, <1>7, <2>1
  <1>9. [u EXCEPT !.route = qs] = y
    <2>1. qs = [x.route EXCEPT ![r] = Bare(a.st, a.codec)]
      BY <1>1, <1>4, <1>7 DEF PState
    <2>2. y = [x EXCEPT !.route = qs]
      BY <1>2, <2>1
    <2> QED BY <1>1, <1>5, <2>2 DEF PState
  <1>10. Release(u, r) = Prune(Drop(y, x.route[r].recv))
    BY <1>6, <1>8, <1>9 DEF Release
  <1> QED BY <1>1, <1>2, <1>10, ReleasedIs

\* stop_route_by_key and fail_route
LEMMA StopIs ==
  ASSUME NEW x, Sane(x), Held(x), NEW r \in Routes
  PROVE  Released(x, StopRoute(x, r), r, "none", x.route[r].codec)
  <1>1. x \in PState /\ x.route[r] \in Route
    BY PParts DEF Sane
  <1>2. PICK a : a = [x.route[r] EXCEPT !.st = "none"]
    OBVIOUS
  <1>3. a \in Route /\ a.recv = x.route[r].recv /\ a.st = "none" /\ a.codec = x.route[r].codec
    BY <1>1, <1>2 DEF Route
  <1>4. PICK u : u = [x EXCEPT !.route[r] = a]
    OBVIOUS
  <1>5. StopRoute(x, r) = Release(u, r)
    BY <1>2, <1>4 DEF StopRoute
  <1> QED BY <1>3, <1>4, <1>5, ReleaseIs

\* A route that stays in the list.
LEMMA ReleaseSame ==
  ASSUME NEW x, Sane(x), Held(x), NEW r \in Routes
  PROVE  Released(x, Release(x, r), r, x.route[r].st, x.route[r].codec)
  <1>1. x \in PState /\ x.route[r] \in Route
    BY PParts DEF Sane
  <1>2. PICK u : u = [x EXCEPT !.route[r] = x.route[r]]
    OBVIOUS
  <1>3. u = x
    BY <1>1, <1>2 DEF PState
  <1> QED BY <1>1, <1>2, <1>3, ReleaseIs

\* apply_profile gives it another codec.
LEMMA ReleaseCodec ==
  ASSUME NEW x, Sane(x), Held(x), NEW r \in Routes, NEW c \in Codecs
  PROVE  Released(x, Release([x EXCEPT !.route[r].codec = c], r), r, x.route[r].st, c)
  <1>1. x \in PState /\ x.route[r] \in Route
    BY PParts DEF Sane
  <1>2. PICK a : a = [x.route[r] EXCEPT !.codec = c]
    OBVIOUS
  <1>3. a \in Route /\ a.recv = x.route[r].recv /\ a.st = x.route[r].st /\ a.codec = c
    BY <1>1, <1>2 DEF Route
  <1>4. PICK u : u = [x EXCEPT !.route[r] = a]
    OBVIOUS
  <1>5. u = [x EXCEPT !.route[r].codec = c]
    BY <1>2, <1>4
  <1> QED BY <1>3, <1>4, <1>5, ReleaseIs

\* z is x after the pipelines of route r were begun, or wait for a group.
Begun(x, z, r) ==
  /\ Sane(z) /\ Wanted(z)
  /\ z.next = IF r \in Receivers \/ x.slot[KeyOf(x, r)].st = "none" THEN x.next + 1
              ELSE x.next
  /\ \A q \in Routes \ {r} : z.route[q] = x.route[q]
  /\ z.route[r].codec = x.route[r].codec /\ z.route[r].st # "none"
  /\ \A k \in Keys : z.slot[k] # x.slot[k] =>
       r \in Senders /\ k = KeyOf(x, r) /\ z.slot[k].st = "Starting"
  /\ r \in Senders /\ x.slot[KeyOf(x, r)].st # "Running" =>
       z.slot[KeyOf(x, r)].st = "Starting"
  /\ \A q \in Senders : q = r \/ FedAt(x, q) => FedAt(z, q)

\* A new start has a number no one knows.
LEMMA OpenIs ==
  ASSUME NEW x, x \in PState, x.next < MaxStarts, NEW f \in Keys \cup {NoKey} \cup Receivers
  PROVE  LET z == Open(x, f) IN
         /\ z \in PState /\ z.next = x.next + 1 /\ z.next \in Starts
         /\ z.route = x.route /\ z.slot = x.slot
         /\ z.stream[z.next] = "opening" /\ z.opener[z.next] = f
         /\ \A n \in Starts : n # z.next =>
              z.stream[n] = x.stream[n] /\ z.opener[n] = x.opener[n]
  <1>1. PICK n : n = x.next + 1
    OBVIOUS
  <1>2. n \in Starts /\ n \in 0 .. MaxStarts
    BY <1>1, PParts
  <1>3. PICK ss : ss = [x.stream EXCEPT ![n] = "opening"]
    OBVIOUS
  <1>4. PICK os2 : os2 = [x.opener EXCEPT ![n] = f]
    OBVIOUS
  <1>5. ss \in [Starts -> Streams] /\ os2 \in [Starts -> Keys \cup {NoKey} \cup Receivers]
    BY <1>3, <1>4, PParts DEF Streams
  <1>6. PICK z : z = [x EXCEPT !.next = n, !.stream = ss, !.opener = os2]
    OBVIOUS
  <1>7. Open(x, f) = z
    BY <1>1, <1>3, <1>4, <1>6 DEF Open
  <1>8. /\ z \in PState /\ z.next = n /\ z.route = x.route /\ z.slot = x.slot
        /\ z.stream = ss /\ z.opener = os2
    BY <1>2, <1>5, <1>6 DEF PState
  <1>9. /\ ss[n] = "opening" /\ os2[n] = f
        /\ \A m \in Starts : m # n => ss[m] = x.stream[m] /\ os2[m] = x.opener[m]
    BY <1>2, <1>3, <1>4, PParts
  <1> QED BY <1>1, <1>2, <1>7, <1>8, <1>9

\* begin_receiver
LEMMA BeginReceiverIs ==
  ASSUME NEW x, Sane(x), Wanted(x), NEW r \in Receivers, x.next < MaxStarts,
         NEW s \in {"Starting", "Active"}, NEW c \in Codecs, x.route[r] = Bare(s, c)
  PROVE  Begun(x, BeginReceiver(x, r), r)
  <1>1. x \in PState /\ r \in Routes /\ r \notin Senders
    BY NamesApart DEF Sane, Routes
  <1>2. PICK n : n = x.next + 1
    OBVIOUS
  <1>3. n \in Starts /\ n \in 0 .. MaxStarts /\ n # 0 /\ n > x.next
        /\ x.next \in Nat /\ \A m \in 1 .. x.next : m \in Starts /\ m # n
    BY <1>1, <1>2, PParts
  <1>4. PICK a : a = [Bare(s, c) EXCEPT !.start = n]
    OBVIOUS
  <1>5. a = [st |-> s, codec |-> c, enc |-> NoKey, sub |-> 0, start |-> n, recv |-> 0]
    BY <1>4 DEF Bare
  <1>6. a \in Route
    BY <1>3, <1>5, PipelineBounds DEF Route
  <1>7. PICK rs : rs = [x.route EXCEPT ![r] = a]
    OBVIOUS
  <1>8. rs \in [Routes -> Route] /\ rs[r] = a /\ \A q \in Routes \ {r} : rs[q] = x.route[q]
    BY <1>1, <1>6, <1>7, PParts
  <1>9. PICK y : y = [x EXCEPT !.route = rs]
    OBVIOUS
  <1>10. /\ y \in PState /\ y.route = rs /\ y.next = x.next /\ y.opener = x.opener
         /\ y.slot = x.slot /\ y.stream = x.stream
    BY <1>1, <1>8, <1>9 DEF PState
  <1>11. y = [x EXCEPT !.route[r].start = x.next + 1]
    BY <1>2, <1>4, <1>7, <1>9
  <1>12. PICK z : z = Open(y, r)
    OBVIOUS
  <1>13. BeginReceiver(x, r) = z
    BY <1>11, <1>12 DEF BeginReceiver
  <1>14. /\ z \in PState /\ z.next = n /\ z.route = rs /\ z.slot = x.slot
         /\ z.stream[n] = "opening" /\ z.opener[n] = r
         /\ \A m \in Starts : m # n => z.stream[m] = x.stream[m] /\ z.opener[m] = x.opener[m]
    BY <1>2, <1>10, <1>12, OpenIs
  <1>15. Sane(z)
    <2>1. \A m \in Starts : m > z.next => z.stream[m] = "none"
      BY <1>2, <1>3, <1>14, PParts DEF Sane
    <2>2. ASSUME NEW k \in Keys
          PROVE  GroupInv(z, k)
      BY <1>2, <1>3, <1>14 DEF Sane, GroupInv
    <2>3. ASSUME NEW q \in Receivers
          PROVE  PlayInv(z, q)
      <3>1. CASE q = r
        BY <1>3, <1>5, <1>8, <1>14, <3>1 DEF PlayInv, Unhandled
      <3>2. CASE q # r
        <4>1. z.route[q] = x.route[q] /\ PlayInv(x, q)
          BY <1>8, <1>14, <3>2 DEF Sane, Routes
        <4> QED BY <1>2, <1>3, <1>14, <4>1 DEF PlayInv
      <3> QED BY <3>1, <3>2
    <2>4. ASSUME NEW q \in Senders
          PROVE  SendInv(z, q)
      <3>1. z.route[q] = x.route[q] /\ SendInv(x, q)
        BY <1>1, <1>8, <1>14 DEF Sane, Routes
      <3> QED BY <1>2, <1>3, <1>14, <3>1 DEF SendInv
    <2> QED BY <1>14, <2>1, <2>2, <2>3, <2>4 DEF Sane
  <1>16. Held(z)
    <2> SUFFICES ASSUME NEW m \in Starts, z.stream[m] = "used"
                 PROVE  (\E k \in Keys : z.slot[k].st = "Running" /\ z.slot[k].id = m)
                        \/ Plays(z, m)
      BY DEF Held
    <2>1. x.stream[m] = "used" /\ m # 0
      <3>1. m # 0
        BY <1>1, PParts
      <3>2. m # n
        BY <1>14
      <3> QED BY <1>14, <3>1, <3>2
    <2>2. Plays(x, m) => Plays(z, m)
      <3> SUFFICES ASSUME NEW q \in Receivers, x.route[q].recv = m
                   PROVE  z.route[q].recv = m
        BY DEF Plays
      <3>1. q # r
        BY <2>1 DEF Bare
      <3> QED BY <1>8, <1>14, <3>1 DEF Routes
    <2> QED BY <1>14, <2>1, <2>2 DEF Wanted, Held
  <1>17. \A q \in Senders : z.route[q] = x.route[q]
    BY <1>1, <1>8, <1>14 DEF Routes
  <1>18. Wanted(z)
    BY <1>14, <1>16, <1>17 DEF Wanted, Listeners
  <1>19. \A q \in Senders : FedAt(x, q) => FedAt(z, q)
    BY <1>14, <1>17 DEF FedAt, KeyOf
  <1>20. z.route[r].codec = x.route[r].codec /\ z.route[r].st # "none"
    BY <1>5, <1>8, <1>14 DEF Bare
  <1> QED BY <1>1, <1>2, <1>8, <1>13, <1>14, <1>15, <1>18, <1>19, <1>20 DEF Begun

\* A sender that gets the encoder k and the subscription n.
Joined(s, c, k, n) ==
  [st |-> s, codec |-> c, enc |-> k, sub |-> n, start |-> 0, recv |-> 0]

\* z is x with that sender.
Joins(x, z, r, s, c, k, n) ==
  /\ z \in PState /\ z.route[r] = Joined(s, c, k, n)
  /\ \A q \in Routes \ {r} : z.route[q] = x.route[q]

\* A route gets an encoder, and no subscription.
Encoded(x, r, k) == [x EXCEPT !.route[r].enc = k, !.route[r].sub = 0]

\* begin_sender's new route, before the group is looked at.
LEMMA JoinsIs ==
  ASSUME NEW x \in PState, NEW r \in Routes, NEW s \in {"none", "Starting", "Active"}, NEW c \in Codecs,
         x.route[r] = Bare(s, c), NEW k \in Keys,
         NEW y, y = Encoded(x, r, k)
  PROVE  /\ Joins(x, y, r, s, c, k, 0) /\ y.slot = x.slot /\ y.stream = x.stream
         /\ y.opener = x.opener /\ y.next = x.next
  <1>1. PICK a : a = Joined(s, c, k, 0)
    OBVIOUS
  <1>2. a \in Route
    BY <1>1, PipelineBounds DEF Joined, Route
  <1>3. PICK rs : rs = [x.route EXCEPT ![r] = a]
    OBVIOUS
  <1>4. rs \in [Routes -> Route] /\ rs[r] = a /\ \A q \in Routes \ {r} : rs[q] = x.route[q]
    BY <1>2, <1>3, PParts
  <1>5. y = [x EXCEPT !.route = rs]
    <2>1. PICK b : b = [Bare(s, c) EXCEPT !.enc = k]
      OBVIOUS
    <2>2. b = [st |-> s, codec |-> c, enc |-> k, sub |-> 0, start |-> 0, recv |-> 0]
      BY <2>1 DEF Bare
    <2>3. [b EXCEPT !.sub = 0] = a
      BY <1>1, <2>2 DEF Joined
    <2>4. PICK ps : ps = [x.route EXCEPT ![r] = b]
      OBVIOUS
    <2>5. PICK w : w = [x EXCEPT !.route = ps]
      OBVIOUS
    <2>6. w = [x EXCEPT !.route[r].enc = k] /\ w.route = ps /\ ps[r] = b
      BY <2>1, <2>4, <2>5 DEF PState
    <2>7. y = [w EXCEPT !.route[r].sub = 0]
      BY <2>6 DEF Encoded
    <2>8. [ps EXCEPT ![r] = a] = rs
      BY <1>3, <2>4, PParts
    <2>9. y = [w EXCEPT !.route = rs]
      BY <2>3, <2>6, <2>7, <2>8
    <2> QED BY <2>5, <2>9 DEF PState
  <1>6. /\ y \in PState /\ y.route = rs /\ y.next = x.next /\ y.opener = x.opener
        /\ y.slot = x.slot /\ y.stream = x.stream
    BY <1>4, <1>5 DEF PState
  <1> QED BY <1>1, <1>4, <1>6 DEF Joins

\* z is x with a sender more at group k, which runs, or opens and may be new.
Grown(x, z, r, k) ==
  /\ z.next \in Nat /\ x.next <= z.next
  /\ \A m \in Starts : /\ m <= x.next => z.opener[m] = x.opener[m]
                       /\ m <= x.next \/ m > z.next => z.stream[m] = x.stream[m]
                       /\ m > x.next => z.stream[m] # "used"
  /\ \A j \in Keys \ {k} : z.slot[j] = x.slot[j]
  /\ GroupInv(z, k)
  /\ IF x.slot[k].st = "Running" THEN z.slot[k] = x.slot[k]
     ELSE /\ z.slot[k].st = "Starting" /\ r \in z.slot[k].waiting
          /\ x.slot[k].st = "Starting" => x.slot[k].waiting \subseteq z.slot[k].waiting

\* It is fed by that group.
LEMMA GrownIs ==
  ASSUME NEW x, Sane(x), Wanted(x), NEW r \in Senders, NEW s, NEW c \in Codecs,
         x.route[r] = Bare(s, c), NEW k \in Keys, k = KeyOf(x, r),
         NEW t \in {"Starting", "Active"}, NEW n, NEW z, Joins(x, z, r, t, c, k, n),
         Grown(x, z, r, k),
         x.slot[k].st = "Running" => n = x.slot[k].id /\ t = "Active",
         x.slot[k].st # "Running" => n = 0
  PROVE  /\ Sane(z) /\ Wanted(z)
         /\ \A q \in Senders : q = r \/ FedAt(x, q) => FedAt(z, q)
  <1>1. x \in PState /\ z \in PState /\ r \in Routes /\ r \notin Receivers
    BY NamesApart DEF Sane, Joins, Routes
  <1>2. /\ z.route[r] = Joined(t, c, k, n) /\ \A q \in Routes \ {r} : z.route[q] = x.route[q]
        /\ x.next \in Nat /\ z.next \in Nat
    BY <1>1, PParts DEF Joins
  <1>3. \A m \in 1 .. x.next : m \in Starts /\ z.stream[m] = x.stream[m]
                               /\ z.opener[m] = x.opener[m] /\ m \in 1 .. z.next
    <2>1. \A m \in 1 .. x.next : m \in Starts /\ m <= x.next /\ m \in 1 .. z.next
      BY <1>1, <1>2, PParts DEF Grown
    <2> QED BY <2>1 DEF Grown
  <1>4. \A m \in Starts : m > z.next => z.stream[m] = "none"
    <2> TAKE m \in Starts
    <2> HAVE m > z.next
    <2>1. z.stream[m] = x.stream[m]
      BY DEF Grown
    <2>2. m > x.next
      BY <1>2, PParts, <1>1 DEF Grown
    <2> QED BY <2>1, <2>2 DEF Sane
  <1>5. ASSUME NEW j \in Keys
        PROVE  GroupInv(z, j)
    <2>1. CASE j = k
      BY <2>1 DEF Grown
    <2>2. CASE j # k
      <3>1. z.slot[j] = x.slot[j] /\ GroupInv(x, j)
        BY <2>2 DEF Grown, Sane
      <3> QED BY <1>3, <3>1 DEF GroupInv
    <2> QED BY <2>1, <2>2
  <1>6. ASSUME NEW q \in Receivers
        PROVE  PlayInv(z, q)
    <2>1. z.route[q] = x.route[q] /\ PlayInv(x, q)
      BY <1>1, <1>2 DEF Sane, Routes
    <2> QED BY <1>3, <2>1 DEF PlayInv
  <1>7. ASSUME NEW q \in Senders
        PROVE  SendInv(z, q)
    <2>1. CASE q = r
      <3>1. x.slot[k].st = "Running" => n \in 1 .. x.next /\ x.opener[n] = k
        BY DEF Sane, GroupInv
      <3>2. n # 0 => n \in 1 .. z.next /\ z.opener[n] = k /\ t = "Active"
        BY <1>3, <3>1
      <3> QED BY <1>2, <2>1, <3>2, NamesApart DEF SendInv, Joined
    <2>2. CASE q # r
      <3>1. z.route[q] = x.route[q] /\ SendInv(x, q)
        BY <1>2, <2>2 DEF Sane, Routes
      <3> QED BY <1>3, <3>1 DEF SendInv
    <2> QED BY <2>1, <2>2
  <1>8. Sane(z)
    BY <1>1, <1>4, <1>5, <1>6, <1>7 DEF Sane
  <1>9. \A j \in Keys : x.slot[j].st = "Running" => z.slot[j] = x.slot[j]
    BY DEF Grown
  <1>10. \A j \in Keys : z.slot[j].st = "Running" => z.slot[j] = x.slot[j]
    BY DEF Grown
  <1>11. Held(z)
    <2> SUFFICES ASSUME NEW m \in Starts, z.stream[m] = "used"
                 PROVE  (\E j \in Keys : z.slot[j].st = "Running" /\ z.slot[j].id = m)
                        \/ Plays(z, m)
      BY DEF Held
    <2>1. m <= x.next
      BY <1>1, <1>2, PParts DEF Grown
    <2>2. x.stream[m] = "used"
      BY <2>1 DEF Grown
    <2>3. \A q \in Receivers : z.route[q] = x.route[q]
      BY <1>1, <1>2 DEF Routes
    <2> QED BY <1>9, <2>2, <2>3 DEF Wanted, Held, Plays
  <1>12. ASSUME NEW j \in Keys, z.slot[j].st = "Running"
         PROVE  Listeners(z, j) # {}
    <2>1. z.slot[j] = x.slot[j] /\ GroupInv(x, j)
      BY <1>10, <1>12 DEF Sane
    <2>2. PICK q \in Senders : x.route[q].sub = x.slot[j].id
      BY <1>12, <2>1 DEF Wanted, Listeners
    <2>3. x.slot[j].id # 0
      BY <1>12, <2>1 DEF GroupInv
    <2>4. q # r
      BY <2>2, <2>3 DEF Bare
    <2>5. z.route[q] = x.route[q]
      BY <1>2, <2>4 DEF Routes
    <2> QED BY <2>1, <2>2, <2>5 DEF Listeners
  <1>13. FedAt(z, r)
    <2>1. KeyOf(z, r) = k
      BY <1>2 DEF KeyOf, Joined, Bare
    <2>2. /\ z.route[r].enc = k /\ z.route[r].sub = n
      BY <1>2 DEF Joined
    <2> QED BY <2>1, <2>2 DEF FedAt, Grown
  <1>14. ASSUME NEW q \in Senders, q # r, FedAt(x, q)
         PROVE  FedAt(z, q)
    <2>1. z.route[q] = x.route[q] /\ x.route[q].codec \in Codecs
      BY <1>1, <1>2, <1>14, PParts DEF Routes
    <2>2. ASSUME NEW j \in Keys
          PROVE  \/ z.slot[j] = x.slot[j]
                 \/ x.slot[j].st = "Starting" /\ z.slot[j].st = "Starting"
                    /\ x.slot[j].waiting \subseteq z.slot[j].waiting
                 \/ x.slot[j].st = "none"
      BY <1>1, PParts DEF Grown
    <2>3. CASE x.route[q].st = "none"
      BY <2>1, <2>3 DEF FedAt
    <2>4. CASE x.route[q].st # "none"
      <3>1. ASSUME NEW j \in Keys, x.route[q].enc = j
            PROVE  x.slot[j].st # "none"
        BY <1>14, <2>4, <3>1 DEF FedAt
      <3> QED BY <1>14, <2>1, <2>2, <3>1, FedFrame
    <2> QED BY <2>3, <2>4
  <1> QED BY <1>8, <1>11, <1>12, <1>13, <1>14 DEF Wanted

\* activate_route, of a route that is not stopped.
LEMMA ActivateIs ==
  ASSUME NEW x \in PState, NEW r \in Routes, NEW s \in {"Starting", "Active"}, NEW c \in Codecs,
         NEW k \in Keys, NEW n \in 0 .. MaxStarts, x.route[r] = Joined(s, c, k, 0),
         NEW u, u = [x EXCEPT !.route[r].sub = n]
  PROVE  LET z == Activate(u, r) IN
         /\ Joins(x, z, r, "Active", c, k, n) /\ z.slot = x.slot /\ z.stream = x.stream
         /\ z.opener = x.opener /\ z.next = x.next
  <1>1. PICK a : a = Joined(s, c, k, n)
    OBVIOUS
  <1>2. PICK b : b = Joined("Active", c, k, n)
    OBVIOUS
  <1>3. a \in Route /\ b \in Route
    BY <1>1, <1>2, PipelineBounds DEF Joined, Route
  <1>4. PICK rs : rs = [x.route EXCEPT ![r] = a]
    OBVIOUS
  <1>5. u = [x EXCEPT !.route = rs]
    <2>1. [x.route[r] EXCEPT !.sub = n] = a
      BY <1>1 DEF Joined
    <2> QED BY <1>4, <2>1
  <1>6. rs \in [Routes -> Route] /\ rs[r] = a /\ \A q \in Routes \ {r} : rs[q] = x.route[q]
    BY <1>3, <1>4, PParts
  <1>7. /\ u \in PState /\ u.route = rs /\ u.next = x.next /\ u.opener = x.opener
        /\ u.slot = x.slot /\ u.stream = x.stream
    BY <1>5, <1>6 DEF PState
  <1>8. PICK z : z = Activate(u, r)
    OBVIOUS
  <1>9. CASE s = "Active"
    <2>1. z = u
      BY <1>1, <1>6, <1>7, <1>8, <1>9 DEF Activate, Joined
    <2> QED BY <1>1, <1>6, <1>7, <1>8, <1>9, <2>1 DEF Joins
  <1>10. CASE s = "Starting"
    <2>1. z = [u EXCEPT !.route[r].st = "Active"]
      <3>1. u.route[r] = a /\ a.st = "Starting"
        BY <1>1, <1>6, <1>7, <1>10 DEF Joined
      <3> QED BY <1>8, <3>1 DEF Activate
    <2>2. [u.route[r] EXCEPT !.st = "Active"] = b
      BY <1>1, <1>2, <1>6, <1>7 DEF Joined
    <2>3. PICK qs : qs = [rs EXCEPT ![r] = b]
      OBVIOUS
    <2>4. qs \in [Routes -> Route] /\ qs[r] = b /\ \A q \in Routes \ {r} : qs[q] = x.route[q]
      BY <1>3, <1>6, <2>3
    <2>5. z = [u EXCEPT !.route = qs]
      BY <1>7, <2>1, <2>2, <2>3
    <2>6. /\ z \in PState /\ z.route = qs /\ z.next = x.next /\ z.opener = x.opener
          /\ z.slot = x.slot /\ z.stream = x.stream
      BY <1>7, <2>4, <2>5 DEF PState
    <2> QED BY <1>2, <1>8, <2>4, <2>6 DEF Joins
  <1> QED BY <1>9, <1>10

\* begin_sender
LEMMA BeginSenderIs ==
  ASSUME NEW x, Sane(x), Wanted(x), NEW r \in Senders,
         NEW s \in {"Starting", "Active"}, NEW c \in Codecs, x.route[r] = Bare(s, c),
         x.slot[KeyOf(x, r)].st = "none" => x.next < MaxStarts
  PROVE  Begun(x, BeginSender(x, r), r)
  <1>1. x \in PState /\ r \in Routes /\ r \notin Receivers
    BY NamesApart DEF Sane, Routes
  <1>2. PICK k : k = KeyOf(x, r)
    OBVIOUS
  <1>3. k \in Keys /\ GroupInv(x, k)
    BY <1>1, <1>2, PParts, KeyIs DEF Sane
  <1>4. PICK y : y = Encoded(x, r, k)
    OBVIOUS
  <1>5. /\ Joins(x, y, r, s, c, k, 0) /\ y.slot = x.slot /\ y.stream = x.stream
        /\ y.opener = x.opener /\ y.next = x.next
    BY <1>1, <1>3, <1>4, JoinsIs
  <1>6. /\ x.next \in 0 .. MaxStarts /\ x.slot[k].st \in {"none", "Starting", "Running"}
        /\ x.slot[k].id \in 0 .. MaxStarts /\ x.slot[k].waiting \in SUBSET Routes
    BY <1>1, <1>3, PParts
  <1>7. \A m \in Starts : m > x.next => x.stream[m] # "used"
    BY DEF Sane
  <1>8. PICK z : z = BeginSender(x, r)
    OBVIOUS
  <1>9. CASE x.slot[k].st = "Running"
    <2>1. PICK n : n = x.slot[k].id
      OBVIOUS
    <2>2. PICK u : u = [y EXCEPT !.route[r].sub = n]
      OBVIOUS
    <2>3. z = Activate(u, r)
      BY <1>2, <1>4, <1>8, <1>9, <2>1, <2>2 DEF BeginSender, Encoded
    <2>4. /\ Joins(y, z, r, "Active", c, k, n) /\ z.slot = y.slot /\ z.stream = y.stream
          /\ z.opener = y.opener /\ z.next = y.next
      BY <1>1, <1>3, <1>5, <1>6, <2>1, <2>2, <2>3, ActivateIs DEF Joins
    <2>5. Joins(x, z, r, "Active", c, k, n)
      BY <1>5, <2>4 DEF Joins
    <2>6. Grown(x, z, r, k)
      BY <1>3, <1>5, <1>6, <1>7, <1>9, <2>4 DEF Grown, GroupInv
    <2>7. /\ Sane(z) /\ Wanted(z)
          /\ \A q \in Senders : q = r \/ FedAt(x, q) => FedAt(z, q)
      BY <1>2, <1>3, <1>9, <2>1, <2>5, <2>6, GrownIs
    <2>8. z.route[r].codec = x.route[r].codec /\ z.route[r].st # "none"
      BY <2>5 DEF Joins, Joined, Bare
    <2> QED BY <1>1, <1>2, <1>5, <1>8, <1>9, <2>4, <2>5, <2>7, <2>8 DEF Begun, Joins
  <1>10. CASE x.slot[k].st = "Starting"
    <2>1. PICK g : g = [x.slot[k] EXCEPT !.waiting = @ \cup {r}]
      OBVIOUS
    <2>2. g \in Slot /\ g.st = "Starting" /\ g.id = x.slot[k].id
          /\ g.waiting = x.slot[k].waiting \cup {r}
      BY <1>1, <1>3, <1>10, <2>1 DEF PState, Slot
    <2>3. PICK gs : gs = [x.slot EXCEPT ![k] = g]
      OBVIOUS
    <2>4. gs \in [Keys -> Slot] /\ gs[k] = g /\ \A j \in Keys \ {k} : gs[j] = x.slot[j]
      BY <1>1, <1>3, <2>2, <2>3, PParts
    <2>5. z = [y EXCEPT !.slot = gs]
      <3>1. z = [y EXCEPT !.slot[k].waiting = @ \cup {r}]
        BY <1>2, <1>4, <1>8, <1>10 DEF BeginSender, Encoded
      <3> QED BY <1>5, <2>1, <2>3, <3>1
    <2>6. /\ z \in PState /\ z.route = y.route /\ z.slot = gs /\ z.stream = x.stream
          /\ z.opener = x.opener /\ z.next = x.next
      BY <1>5, <2>4, <2>5 DEF Joins, PState
    <2>7. Joins(x, z, r, s, c, k, 0)
      BY <1>5, <2>6 DEF Joins
    <2>8. Grown(x, z, r, k)
      BY <1>3, <1>6, <1>7, <1>10, <2>2, <2>4, <2>6 DEF Grown, GroupInv
    <2>9. /\ Sane(z) /\ Wanted(z)
          /\ \A q \in Senders : q = r \/ FedAt(x, q) => FedAt(z, q)
      BY <1>2, <1>3, <1>10, <2>7, <2>8, GrownIs
    <2>10. z.route[r].codec = x.route[r].codec /\ z.route[r].st # "none"
      BY <2>7 DEF Joins, Joined, Bare
    <2>11. /\ \A q \in Routes \ {r} : z.route[q] = x.route[q]
           /\ \A j \in Keys : z.slot[j] # x.slot[j] => j = k /\ z.slot[j].st = "Starting"
           /\ z.slot[k].st = "Starting"
      BY <2>2, <2>4, <2>6, <2>7 DEF Joins
    <2> QED BY <1>1, <1>2, <1>8, <1>10, <2>6, <2>9, <2>10, <2>11 DEF Begun
  <1>11. CASE x.slot[k].st = "none"
    <2>1. PICK n : n = x.next + 1
      OBVIOUS
    <2>2. n \in Starts /\ n \in 0 .. MaxStarts /\ n > x.next
      BY <1>1, <1>2, <1>6, <1>11, <2>1, PParts
    <2>3. PICK g : g = [st |-> "Starting", id |-> n, waiting |-> {r}]
      OBVIOUS
    <2>4. g \in Slot
      BY <1>1, <2>2, <2>3 DEF Slot
    <2>5. PICK gs : gs = [x.slot EXCEPT ![k] = g]
      OBVIOUS
    <2>6. gs \in [Keys -> Slot] /\ gs[k] = g /\ \A j \in Keys \ {k} : gs[j] = x.slot[j]
      BY <1>1, <1>3, <2>4, <2>5, PParts
    <2>7. PICK u : u = [y EXCEPT !.slot = gs]
      OBVIOUS
    <2>8. /\ u \in PState /\ u.route = y.route /\ u.slot = gs /\ u.stream = x.stream
          /\ u.opener = x.opener /\ u.next = x.next
      BY <1>5, <2>6, <2>7 DEF Joins, PState
    <2>9. z = Open(u, k)
      BY <1>2, <1>4, <1>5, <1>8, <1>11, <2>1, <2>3, <2>5, <2>7 DEF BeginSender, Encoded
    <2>10. /\ z \in PState /\ z.next = n /\ z.route = y.route /\ z.slot = gs
           /\ z.stream[n] = "opening" /\ z.opener[n] = k
           /\ \A m \in Starts : m # n =>
                z.stream[m] = x.stream[m] /\ z.opener[m] = x.opener[m]
      BY <1>2, <1>3, <1>11, <2>1, <2>8, <2>9, OpenIs
    <2>11. Joins(x, z, r, s, c, k, 0)
      BY <1>5, <2>10 DEF Joins
    <2>12. GroupInv(z, k)
      BY <2>2, <2>3, <2>6, <2>10, PParts, <1>1 DEF GroupInv, Unhandled
    <2>13. Grown(x, z, r, k)
      <3>1. \A m \in Starts : /\ m <= x.next => m # n
                              /\ m > n => m # n
                              /\ m > x.next => m = n \/ m > n
        BY <1>1, <1>6, <2>1, <2>2, PParts
      <3> QED BY <1>6, <1>7, <1>11, <2>1, <2>2, <2>3, <2>6, <2>10, <2>12, <3>1, PParts, <1>1 DEF Grown
    <2>14. /\ Sane(z) /\ Wanted(z)
           /\ \A q \in Senders : q = r \/ FedAt(x, q) => FedAt(z, q)
      BY <1>2, <1>3, <1>11, <2>11, <2>13, GrownIs
    <2>15. z.route[r].codec = x.route[r].codec /\ z.route[r].st # "none"
      BY <2>11 DEF Joins, Joined, Bare
    <2>16. /\ \A q \in Routes \ {r} : z.route[q] = x.route[q]
           /\ \A j \in Keys : z.slot[j] # x.slot[j] => j = k /\ z.slot[j].st = "Starting"
           /\ z.slot[k].st = "Starting"
      BY <2>3, <2>6, <2>10, <2>11 DEF Joins
    <2> QED BY <1>1, <1>2, <1>8, <1>11, <2>1, <2>10, <2>14, <2>15, <2>16 DEF Begun
  <1> QED BY <1>6, <1>9, <1>10, <1>11

\* begin_pipelines
LEMMA BeginIs ==
  ASSUME NEW x, Sane(x), Wanted(x), NEW r \in Routes,
         NEW s \in {"Starting", "Active"}, NEW c \in Codecs, x.route[r] = Bare(s, c),
         r \in Receivers \/ x.slot[KeyOf(x, r)].st = "none" => x.next < MaxStarts
  PROVE  Begun(x, Begin(x, r), r)
  <1>1. CASE r \in Senders
    BY <1>1, BeginSenderIs DEF Begin
  <1>2. CASE r \in Receivers
    BY <1>2, BeginReceiverIs, NamesApart DEF Begin
  <1> QED BY <1>1, <1>2 DEF Routes

\* The groups that open stay, and no group starts to run.
Steady(x, z) ==
  \A k \in Keys : z.slot[k] = x.slot[k] \/ (x.slot[k].st = "Running" /\ z.slot[k] = NoSlot)

\* Sender q does not listen to the running group of route r.
Aside(x, q, r) ==
  r \in Senders /\ x.route[q].st # "none" /\ x.route[q].enc = x.route[r].enc =>
    x.slot[x.route[r].enc].st # "Running"

\* close_encoder, of the group of a route.
LEMMA CloseFed ==
  ASSUME NEW x, Sane(x), Held(x), NEW r \in Routes,
         r \in Senders => x.route[r].enc \in Keys
  PROVE  LET z == CloseEncoder(x, x.route[r].enc) IN
         /\ Sane(z) /\ Held(z) /\ Steady(x, z)
         /\ z.route = x.route /\ z.next = x.next
         /\ r \in Senders => z.slot[x.route[r].enc].st # "Running"
         /\ \A q \in Senders : FedAt(x, q) /\ Aside(x, q, r) => FedAt(z, q)
  <1>1. PICK k : k = x.route[r].enc
    OBVIOUS
  <1>2. PICK z : z = CloseEncoder(x, k)
    OBVIOUS
  <1>3. PICK ks : ks = IF k = NoKey \/ x.slot[k].st # "Running" THEN {} ELSE {k}
    OBVIOUS
  <1>4. x \in PState /\ k \in Keys \cup {NoKey} /\ NoKey \notin Keys
    BY <1>1, PParts, NamesApart DEF Sane
  <1>5. Sane(z) /\ Held(z) /\ Without(x, z, ks) /\ (k # NoKey => z.slot[k].st # "Running")
    BY <1>2, <1>3, <1>4, CloseIs
  <1>6. /\ z.route = x.route /\ z.next = x.next
        /\ \A j \in Keys : j \notin ks => z.slot[j] = x.slot[j]
        /\ \A j \in ks : j = k /\ x.slot[j].st = "Running" /\ z.slot[j] = NoSlot
    BY <1>3, <1>5 DEF Without
  <1>7. Steady(x, z)
    BY <1>6 DEF Steady
  <1>8. r \in Senders => k # NoKey
    BY <1>1, <1>4
  <1>9. r \in Receivers => k = NoKey
    BY <1>1 DEF Sane, PlayInv
  <1>10. ASSUME NEW q \in Senders, FedAt(x, q), Aside(x, q, r)
         PROVE  FedAt(z, q)
    <2>1. x.route[q].codec \in Codecs /\ z.route[q] = x.route[q]
      BY <1>4, <1>6, PParts DEF Routes
    <2>2. CASE x.route[q].st = "none"
      BY <2>1, <2>2 DEF FedAt
    <2>3. CASE x.route[q].st # "none"
      <3>1. ASSUME NEW j \in Keys, x.route[q].enc = j
            PROVE  z.slot[j] = x.slot[j]
        <4> SUFFICES ASSUME j \in ks PROVE FALSE
          BY <1>6
        <4>1. j = k /\ x.slot[k].st = "Running" /\ k \in Keys
          BY <1>6
        <4>2. r \in Senders
          BY <1>4, <1>9, <4>1 DEF Routes
        <4> QED BY <1>1, <1>10, <2>3, <3>1, <4>1, <4>2 DEF Aside
      <3> QED BY <1>10, <2>1, <3>1, FedFrame
    <2> QED BY <2>2, <2>3
  <1> QED BY <1>1, <1>2, <1>5, <1>6, <1>7, <1>8, <1>10

\* z is x after route r was reopened or stopped.
Stepped(x, z, r) ==
  /\ Sane(z) /\ Wanted(z)
  /\ z.next \in {x.next, x.next + 1}
  /\ \A q \in Routes \ {r} : z.route[q] = x.route[q]
  /\ \A k \in Keys : /\ x.slot[k].st = "Starting" => z.slot[k].st = "Starting"
                     /\ z.slot[k].st = "Running" => x.slot[k].st = "Running"
  /\ r \in Senders => /\ FedAt(z, r) /\ KeyOf(z, r) = KeyOf(x, r)
                      /\ z.route[r].st # "none" => z.slot[x.route[r].enc].st = "Starting"
                      /\ z.next # x.next => x.slot[x.route[r].enc].st # "Starting"
                                            /\ z.slot[x.route[r].enc].st = "Starting"
  /\ \A q \in Senders \ {r} : FedAt(x, q) /\ Aside(x, q, r) => FedAt(z, q)

\* A route stops.
LEMMA StopSteps ==
  ASSUME NEW x, Sane(x), NEW y, Sane(y), Held(y), Steady(x, y), y.route = x.route,
         y.next = x.next, NEW r \in Routes,
         \A q \in Senders : FedAt(x, q) /\ Aside(x, q, r) => FedAt(y, q)
  PROVE  Stepped(x, StopRoute(y, r), r)
  <1>1. x \in PState /\ y \in PState
    BY DEF Sane
  <1>2. PICK z : z = StopRoute(y, r)
    OBVIOUS
  <1>3. Released(y, z, r, "none", y.route[r].codec)
    BY <1>2, StopIs
  <1>4. /\ z.route[r] = Bare("none", x.route[r].codec)
        /\ \A q \in Routes \ {r} : z.route[q] = x.route[q]
    BY <1>1, <1>3, PParts DEF Released
  <1>5. Steady(x, z)
    BY <1>3 DEF Steady, Released
  <1>6. FedAt(z, r) /\ KeyOf(z, r) = KeyOf(x, r) /\ z.route[r].st = "none"
    BY <1>4 DEF FedAt, Bare, KeyOf
  <1>7. \A k \in Keys : /\ x.slot[k].st = "Starting" => z.slot[k].st = "Starting"
                        /\ z.slot[k].st = "Running" => x.slot[k].st = "Running"
    BY <1>5 DEF Steady, NoSlot
  <1>8. Sane(z) /\ Wanted(z) /\ z.next = x.next
        /\ \A q \in Senders \ {r} : FedAt(y, q) => FedAt(z, q)
    BY <1>3 DEF Released
  <1> QED BY <1>2, <1>4, <1>6, <1>7, <1>8 DEF Stepped

\* reopen_route_audio
LEMMA ReopenSteps ==
  ASSUME NEW x, Sane(x), Held(x), NEW r \in Routes, x.route[r].st # "none",
         r \in Senders => x.route[r].enc = KeyOf(x, r),
         x.next < MaxStarts \/ (r \in Senders /\ x.slot[x.route[r].enc].st = "Starting")
  PROVE  Stepped(x, Reopen(x, r), r)
  <1>1. PICK s : s = x.route[r].st
    OBVIOUS
  <1>2. PICK c : c = x.route[r].codec
    OBVIOUS
  <1>3. PICK k : k = x.route[r].enc
    OBVIOUS
  <1>4. /\ x \in PState /\ s \in {"Starting", "Active"} /\ c \in Codecs
        /\ r \in Senders => k \in Keys
        /\ x.next \in Nat
    BY <1>1, <1>2, <1>3, PParts, KeyIs DEF Sane
  <1>5. PICK y : y = CloseEncoder(x, k)
    OBVIOUS
  <1>6. /\ Sane(y) /\ Held(y) /\ Steady(x, y) /\ y.route = x.route /\ y.next = x.next
        /\ r \in Senders => y.slot[k].st # "Running"
        /\ \A q \in Senders : FedAt(x, q) /\ Aside(x, q, r) => FedAt(y, q)
    BY <1>3, <1>4, <1>5, CloseFed
  <1>7. PICK w : w = Release(y, r)
    OBVIOUS
  <1>8. Released(y, w, r, s, c)
    BY <1>1, <1>2, <1>6, <1>7, ReleaseSame
  <1>9. /\ Sane(w) /\ Wanted(w) /\ w.next = x.next /\ w.route[r] = Bare(s, c)
        /\ \A q \in Routes \ {r} : w.route[q] = x.route[q]
        /\ Steady(x, w)
        /\ r \in Senders => w.slot[k].st # "Running"
        /\ \A q \in Senders \ {r} : FedAt(y, q) => FedAt(w, q)
    <2>1. /\ Sane(w) /\ Wanted(w) /\ w.next = y.next
          /\ w.route = [y.route EXCEPT ![r] = Bare(s, c)]
          /\ \A j \in Keys : w.slot[j] = y.slot[j]
                             \/ (y.slot[j].st = "Running" /\ w.slot[j] = NoSlot)
          /\ \A q \in Senders \ {r} : FedAt(y, q) => FedAt(w, q)
      BY <1>8 DEF Released
    <2>2. w.route[r] = Bare(s, c) /\ \A q \in Routes \ {r} : w.route[q] = x.route[q]
      BY <1>4, <1>6, <2>1, PParts
    <2>3. Steady(x, w)
      BY <1>6, <2>1 DEF Steady, NoSlot
    <2>4. r \in Senders => w.slot[k].st # "Running"
      BY <1>4, <1>6, <2>1 DEF NoSlot
    <2> QED BY <1>6, <2>1, <2>2, <2>3, <2>4
  <1>10. r \in Senders => KeyOf(w, r) = k /\ KeyOf(x, r) = k
    BY <1>2, <1>3, <1>9 DEF KeyOf, Bare
  <1>11. r \in Receivers \/ w.slot[KeyOf(w, r)].st = "none" => w.next < MaxStarts
    <2>1. r \in Receivers => x.next < MaxStarts
      BY NamesApart
    <2>2. r \in Senders /\ x.slot[k].st = "Starting" => w.slot[k].st = "Starting"
      BY <1>4, <1>9 DEF Steady
    <2> QED BY <1>3, <1>9, <1>10, <2>1, <2>2 DEF Routes
  <1>12. PICK z : z = Begin(w, r)
    OBVIOUS
  <1>13. Begun(w, z, r)
    BY <1>4, <1>9, <1>11, <1>12, BeginIs
  <1>14. Reopen(x, r) = z
    BY <1>3, <1>5, <1>7, <1>12 DEF Reopen
  <1>15. /\ Sane(z) /\ Wanted(z) /\ z.next \in {x.next, x.next + 1}
         /\ \A q \in Routes \ {r} : z.route[q] = x.route[q]
         /\ \A q \in Senders : q = r \/ FedAt(w, q) => FedAt(z, q)
    BY <1>9, <1>13 DEF Begun
  <1>16. ASSUME NEW j \in Keys
         PROVE  /\ x.slot[j].st = "Starting" => z.slot[j].st = "Starting"
                /\ z.slot[j].st = "Running" => x.slot[j].st = "Running"
    <2>1. z.slot[j] = w.slot[j] \/ z.slot[j].st = "Starting"
      BY <1>13 DEF Begun
    <2>2. w.slot[j] = x.slot[j] \/ (x.slot[j].st = "Running" /\ w.slot[j] = NoSlot)
      BY <1>9 DEF Steady
    <2> QED BY <2>1, <2>2 DEF NoSlot
  <1>17. ASSUME r \in Senders
         PROVE  /\ FedAt(z, r) /\ KeyOf(z, r) = KeyOf(x, r)
                /\ z.slot[k].st = "Starting"
                /\ z.next # x.next => x.slot[k].st # "Starting"
    <2>1. KeyOf(z, r) = KeyOf(w, r)
      BY <1>13 DEF Begun, KeyOf
    <2>2. z.slot[k].st = "Starting"
      BY <1>9, <1>10, <1>13, <1>17 DEF Begun
    <2>3. z.next # w.next => w.slot[k].st = "none"
      BY <1>10, <1>13, <1>17, NamesApart DEF Begun
    <2>4. x.slot[k].st = "Starting" => w.slot[k].st = "Starting"
      BY <1>4, <1>9, <1>17 DEF Steady
    <2> QED BY <1>9, <1>10, <1>15, <1>17, <2>1, <2>2, <2>3, <2>4
  <1> QED BY <1>3, <1>6, <1>9, <1>14, <1>15, <1>16, <1>17 DEF Stepped

\* Either, of any route of a list.
LEMMA StepsOn ==
  ASSUME NEW x, Sane(x), Held(x), NEW r \in Routes, x.route[r].st # "none",
         r \in Senders => x.route[r].enc = KeyOf(x, r),
         x.next < MaxStarts \/ (r \in Senders /\ x.slot[x.route[r].enc].st = "Starting"),
         NEW good, NEW bad, good \cap bad = {}
  PROVE  Stepped(x, ReopenOrStop(x, r, good, bad), r)
  <1>1. x \in PState /\ Steady(x, x) /\ (r \in Senders => x.route[r].enc \in Keys)
    BY PParts, KeyIs DEF Sane, Steady
  <1>2. CASE r \in good
    <2>1. ReopenOrStop(x, r, good, bad) = Reopen(x, r)
      BY <1>2 DEF ReopenOrStop
    <2> QED BY <2>1, ReopenSteps
  <1>3. CASE r \notin good /\ r \in bad
    <2>1. PICK y : y = CloseEncoder(x, x.route[r].enc)
      OBVIOUS
    <2>2. /\ Sane(y) /\ Held(y) /\ Steady(x, y) /\ y.route = x.route /\ y.next = x.next
          /\ \A q \in Senders : FedAt(x, q) /\ Aside(x, q, r) => FedAt(y, q)
      BY <1>1, <2>1, CloseFed
    <2>3. ReopenOrStop(x, r, good, bad) = StopRoute(y, r)
      BY <1>3, <2>1 DEF ReopenOrStop
    <2> QED BY <2>2, <2>3, StopSteps
  <1>4. CASE r \notin good /\ r \notin bad
    <2>1. ReopenOrStop(x, r, good, bad) = StopRoute(x, r)
      BY <1>4 DEF ReopenOrStop
    <2> QED BY <1>1, <2>1, StopSteps
  <1> QED BY <1>2, <1>3, <1>4

----------------------------------------------------------------------------
(* One route after the other.                                              *)

\* A set of numbers has a least one.
LEMMA Least ==
  ASSUME NEW K \in SUBSET Nat, K # {}
  PROVE  \E m \in K : \A j \in K : m <= j
  <1>1. PICK R : R = OpToRel(<, Nat)
    OBVIOUS
  <1>2. IsWellFoundedOn(R, Nat)
    BY <1>1, NatLessThanWellFounded
  <1>3. PICK m \in K : \A j \in K : <<j, m>> \notin R
    BY <1>2, WFMin
  <1>4. \A i, j \in Nat : i < j => <<i, j>> \in R
    BY <1>1 DEF OpToRel
  <1>5. ASSUME NEW j \in K
        PROVE  m <= j
    <2>1. j \in Nat /\ m \in Nat
      OBVIOUS
    <2>2. ~ (j < m)
      BY <1>3, <1>4, <2>1
    <2> QED BY <2>1, <2>2
  <1> QED BY <1>5

\* What holds of 0 and of i + 1 if it holds of i holds up to n.
LEMMA Induct ==
  ASSUME NEW n \in Nat, NEW K, 0 \in K, \A i \in 0 .. n - 1 : i \in K => i + 1 \in K
  PROVE  \A i \in 0 .. n : i \in K
  <1> DEFINE Out == {i \in 0 .. n : i \notin K}
  <1> SUFFICES ASSUME Out # {} PROVE FALSE
    OBVIOUS
  <1>0. Out \in SUBSET Nat
    OBVIOUS
  <1>1. PICK m \in Out : \A j \in Out : m <= j
    BY <1>0, Least
  <1>2. m # 0 /\ m - 1 \in 0 .. n - 1 /\ m - 1 \notin Out
    BY <1>1
  <1>3. m - 1 \in K
    BY <1>2
  <1> QED BY <1>1, <1>2, <1>3

\* The routes rest are still to be reopened or stopped.
Left(x, rest) ==
  /\ Sane(x) /\ Wanted(x)
  /\ \A r \in rest : x.route[r].st # "none"
                     /\ (r \in Senders => x.route[r].enc = KeyOf(x, r))
  /\ \A q \in Senders \ rest : FedAt(x, q)
  /\ \A r \in rest, q \in Senders \ rest : Aside(x, q, r)

\* There is room to reopen m routes, or they share a group.
Room(x, rest, m) ==
  \/ x.next + m <= MaxStarts
  \/ \E k \in Keys : /\ \A r \in rest : r \in Senders /\ x.route[r].enc = k
                     /\ x.slot[k].st = "Starting" \/ x.next < MaxStarts

\* The next route of the list.
LEMMA NextLeft ==
  ASSUME NEW rest \in SUBSET Routes, NEW m \in Nat, m # 0, NEW x, Left(x, rest), Room(x, rest, m),
         NEW r \in rest, NEW good, NEW bad, good \cap bad = {}
  PROVE  LET z == ReopenOrStop(x, r, good, bad) IN
         Left(z, rest \ {r}) /\ Room(z, rest \ {r}, m - 1)
  <1>1. PICK z : z = ReopenOrStop(x, r, good, bad)
    OBVIOUS
  <1>2. x \in PState /\ x.next \in Nat /\ MaxStarts \in Nat
    BY PParts DEF Left, Sane
  <1>3. x.next < MaxStarts \/ (r \in Senders /\ x.slot[x.route[r].enc].st = "Starting")
    BY <1>2 DEF Room
  <1>4. Stepped(x, z, r)
    <2>1. Sane(x) /\ Held(x) /\ x.route[r].st # "none"
          /\ (r \in Senders => x.route[r].enc = KeyOf(x, r))
      BY DEF Left, Wanted
    <2> QED BY <1>1, <1>3, <2>1, StepsOn
  <1>5. ASSUME NEW q \in rest \ {r}
        PROVE  z.route[q] = x.route[q]
    BY <1>4 DEF Stepped
  <1>6. \A q \in rest \ {r} : z.route[q].st # "none"
                              /\ (q \in Senders => z.route[q].enc = KeyOf(z, q))
    BY <1>5 DEF Left, KeyOf
  <1>7. \A q \in Senders \ (rest \ {r}) : FedAt(z, q)
    BY <1>4 DEF Left, Stepped
  <1>8. ASSUME NEW s \in rest \ {r}, NEW q \in Senders \ (rest \ {r})
        PROVE  Aside(z, q, s)
    <2> SUFFICES ASSUME s \in Senders, z.route[q].st # "none", z.route[q].enc = z.route[s].enc
                 PROVE  z.slot[z.route[s].enc].st # "Running"
      BY DEF Aside
    <2>1. PICK k : k = z.route[s].enc
      OBVIOUS
    <2>2. k = x.route[s].enc
      BY <1>5, <2>1
    <2>3. k \in Keys
      BY <1>2, <2>2, PParts, KeyIs DEF Left
    <2>4. CASE q # r
      <3>1. z.route[q] = x.route[q]
        BY <1>4, <2>4 DEF Stepped, Routes
      <3>2. Aside(x, q, s)
        BY <2>4 DEF Left
      <3>3. x.slot[k].st # "Running"
        BY <2>1, <2>2, <3>1, <3>2 DEF Aside
      <3> QED BY <1>4, <2>1, <2>3, <3>3 DEF Stepped
    <2>5. CASE q = r
      <3>1. x.route[r].enc = k
        <4>1. x.route[r].enc = KeyOf(x, r) /\ FedAt(z, r) /\ KeyOf(z, r) = KeyOf(x, r)
          BY <1>4, <2>5 DEF Left, Stepped
        <4> QED BY <2>1, <2>5, <4>1 DEF FedAt
      <3>2. z.slot[k].st = "Starting"
        BY <1>4, <2>5, <3>1 DEF Stepped
      <3> QED BY <2>1, <3>2
    <2> QED BY <2>4, <2>5
  <1>9. Left(z, rest \ {r})
    BY <1>4, <1>6, <1>7, <1>8 DEF Left, Stepped
  <1>10. z.next = x.next \/ z.next = x.next + 1
    BY <1>4 DEF Stepped
  <1>11. CASE x.next + m <= MaxStarts
    <2>1. z.next + (m - 1) <= MaxStarts
      BY <1>2, <1>10, <1>11
    <2> QED BY <1>1, <1>9, <2>1 DEF Room
  <1>12. CASE \E k \in Keys : /\ \A q \in rest : q \in Senders /\ x.route[q].enc = k
                              /\ x.slot[k].st = "Starting" \/ x.next < MaxStarts
    <2>1. PICK k \in Keys : /\ \A q \in rest : q \in Senders /\ x.route[q].enc = k
                            /\ x.slot[k].st = "Starting" \/ x.next < MaxStarts
      BY <1>12
    <2>2. \A q \in rest \ {r} : q \in Senders /\ z.route[q].enc = k
      BY <1>5, <2>1
    <2>3. z.slot[k].st = "Starting" \/ z.next < MaxStarts
      <3>1. r \in Senders /\ x.route[r].enc = k
        BY <2>1
      <3>2. z.next # x.next => z.slot[k].st = "Starting"
        BY <1>4, <3>1 DEF Stepped
      <3>3. x.slot[k].st = "Starting" => z.slot[k].st = "Starting"
        BY <1>4 DEF Stepped
      <3> QED BY <2>1, <3>2, <3>3
    <2> QED BY <1>1, <1>9, <2>2, <2>3 DEF Room
  <1> QED BY <1>11, <1>12 DEF Room

\* g[i] is the state after the first i routes of the list.
Upto(g, n, x, list, good, bad) ==
  g = [i \in 0 .. n |-> IF i = 0 THEN x ELSE ReopenOrStop(g[i - 1], list[i], good, bad)]

\* There is one such function.
LEMMA UptoExists ==
  ASSUME NEW len \in Nat, NEW x, NEW list, NEW good, NEW bad
  PROVE  \E g : Upto(g, len, x, list, good, bad)
  <1> DEFINE K == {n \in 0 .. len : \E g : Upto(g, n, x, list, good, bad)}
  <1>1. 0 \in K
    <2>1. PICK g : g = [i \in 0 .. 0 |-> x]
      OBVIOUS
    <2>2. Upto(g, 0, x, list, good, bad)
      BY <2>1 DEF Upto
    <2>3. 0 \in 0 .. len
      OBVIOUS
    <2> QED BY <2>2, <2>3
  <1>2. ASSUME NEW n \in 0 .. len - 1, n \in K
        PROVE  n + 1 \in K
    <2>0. n \in Nat /\ n + 1 \in 0 .. len
      OBVIOUS
    <2>1. PICK g : Upto(g, n, x, list, good, bad)
      BY <1>2
    <2> DEFINE Step(y, i) == ReopenOrStop(y, list[i], good, bad)
               h == [i \in 0 .. n + 1 |-> IF i = n + 1 THEN Step(g[n], n + 1) ELSE g[i]]
    <2>2. g = [i \in 0 .. n |-> IF i = 0 THEN x ELSE Step(g[i - 1], i)]
      BY <2>1 DEF Upto
    <2> HIDE DEF Step
    <2>3. ASSUME NEW i \in 0 .. n + 1
          PROVE  h[i] = IF i = 0 THEN x ELSE Step(h[i - 1], i)
      <3>1. CASE i = n + 1
        <4>1. i # 0 /\ i - 1 = n /\ n \in 0 .. n + 1 /\ n # n + 1
          BY <2>0, <3>1
        <4> QED BY <3>1, <4>1
      <3>2. CASE i # n + 1
        <4>1. i \in 0 .. n /\ (i # 0 => i - 1 \in 0 .. n + 1 /\ i - 1 # n + 1)
          BY <2>0, <3>2
        <4>2. g[i] = IF i = 0 THEN x ELSE Step(g[i - 1], i)
          BY <2>2, <4>1
        <4> QED BY <3>2, <4>1, <4>2
      <3> QED BY <3>1, <3>2
    <2>4. Upto(h, n + 1, x, list, good, bad)
      BY <2>3 DEF Step, Upto
    <2> QED BY <2>0, <2>4
  <1> HIDE DEF K
  <1>3. \A i \in 0 .. len : i \in K
    BY <1>1, <1>2, Induct
  <1> QED BY <1>3 DEF K

\* A list of routes names each of them once.
LEMMA ListIs ==
  ASSUME NEW rs \in SUBSET Routes, NEW list \in Lists(rs)
  PROVE  /\ Len(list) \in Nat /\ Len(list) = Cardinality(rs)
         /\ \A i \in 1 .. Len(list) : list[i] \in rs
         /\ \A i, j \in 1 .. Len(list) : list[i] = list[j] => i = j
         /\ \A r \in rs : \E i \in 1 .. Len(list) : list[i] = r
  <1>1. PICK n : n = Cardinality(rs)
    OBVIOUS
  <1>2. n \in Nat
    BY <1>1, RoutesApart, FS_Subset, FS_CardinalityType
  <1>3. /\ list \in [1 .. n -> rs] /\ \A r \in rs : \E i \in 1 .. n : list[i] = r
        /\ \A i, j \in 1 .. n : list[i] = list[j] => i = j
    BY <1>1 DEF Lists, Bijection, Injection, Surjection, IsInjective
  <1>4. list \in Seq(rs)
    BY <1>2, <1>3, SeqDef
  <1>5. Len(list) \in Nat /\ DOMAIN list = 1 .. Len(list)
    BY <1>4, LenProperties
  <1>6. Len(list) = n
    <2>1. PICK m \in Nat : m = Len(list)
      BY <1>5
    <2>2. 1 .. m = 1 .. n
      BY <1>3, <1>5, <2>1
    <2>3. (m >= 1 => m \in 1 .. m) /\ (n >= 1 => n \in 1 .. n)
      BY <1>2
    <2>4. (m >= 1 => m \in 1 .. n) /\ (n >= 1 => n \in 1 .. m)
      BY <2>2, <2>3
    <2>5. m = n
      BY <1>2, <2>4
    <2> QED BY <2>1, <2>5
  <1> QED BY <1>1, <1>3, <1>5, <1>6

\* ReopenAll ends with a function Upto.
LEMMA ReopenAllIs ==
  ASSUME NEW x, NEW list, Len(list) \in Nat, NEW good, NEW bad
  PROVE  \E g : /\ Upto(g, Len(list), x, list, good, bad)
                /\ ReopenAll(x, list, good, bad) = g[Len(list)]
  <1> DEFINE Is(h) == h = [i \in 0 .. Len(list) |->
                             IF i = 0 THEN x ELSE ReopenOrStop(h[i - 1], list[i], good, bad)]
  <1>1. \A h : Is(h) <=> Upto(h, Len(list), x, list, good, bad)
    BY DEF Upto
  <1>2. ReopenAll(x, list, good, bad) = (CHOOSE h : Is(h))[Len(list)]
    BY DEF ReopenAll
  <1> HIDE DEF Is
  <1>3. \E h : Is(h)
    BY <1>1, UptoExists
  <1>4. PICK h : h = CHOOSE g : Is(g)
    OBVIOUS
  <1>5. Is(h)
    BY <1>3, <1>4
  <1> QED BY <1>1, <1>2, <1>4, <1>5

\* All routes of the list are reopened or stopped.
LEMMA NoneLeft ==
  ASSUME NEW rs \in SUBSET Routes, NEW list \in Lists(rs), NEW x, Left(x, rs),
         Room(x, rs, Cardinality(rs)), NEW good, NEW bad, good \cap bad = {}
  PROVE  Left(ReopenAll(x, list, good, bad), {})
  <1>1. PICK n : n = Len(list)
    OBVIOUS
  <1>2. /\ n \in Nat /\ n = Cardinality(rs) /\ \A i \in 1 .. n : list[i] \in rs
        /\ \A i, j \in 1 .. n : list[i] = list[j] => i = j
        /\ \A r \in rs : \E i \in 1 .. n : list[i] = r
    BY <1>1, ListIs
  <1>3. PICK g : Upto(g, n, x, list, good, bad) /\ ReopenAll(x, list, good, bad) = g[n]
    <2>1. Len(list) \in Nat
      BY <1>1, <1>2
    <2>2. \E g : /\ Upto(g, Len(list), x, list, good, bad)
                 /\ ReopenAll(x, list, good, bad) = g[Len(list)]
      BY <2>1, ReopenAllIs
    <2> QED BY <1>1, <2>2
  <1>4. /\ g[0] = x
        /\ \A i \in 0 .. n - 1 : g[i + 1] = ReopenOrStop(g[i], list[i + 1], good, bad)
    <2>1. g[0] = x
      BY <1>2, <1>3 DEF Upto
    <2>2. ASSUME NEW i \in 0 .. n - 1
          PROVE  g[i + 1] = ReopenOrStop(g[i], list[i + 1], good, bad)
      <3>1. i + 1 \in 0 .. n /\ i + 1 # 0 /\ (i + 1) - 1 = i
        BY <1>2
      <3>2. g[i + 1] = IF i + 1 = 0 THEN x ELSE ReopenOrStop(g[(i + 1) - 1], list[i + 1], good, bad)
        BY <1>3, <3>1 DEF Upto
      <3> QED BY <3>1, <3>2
    <2> QED BY <2>1, <2>2
  <1> DEFINE Rest(i) == {list[j] : j \in i + 1 .. n}
             K == {i \in 0 .. n : Left(g[i], Rest(i)) /\ Room(g[i], Rest(i), n - i)}
  <1>5. 0 \in K
    <2>1. Rest(0) = rs
      BY <1>2
    <2> HIDE DEF Rest
    <2> QED BY <1>2, <1>4, <2>1
  <1>6. ASSUME NEW i \in 0 .. n - 1, i \in K
        PROVE  i + 1 \in K
    <2>1. i \in Nat /\ i + 1 \in 1 .. n /\ n - i \in Nat /\ n - i # 0 /\ (n - i) - 1 = n - (i + 1)
          /\ i + 1 \in i + 1 .. n /\ i + 1 \in 0 .. n
      BY <1>2
    <2>2. PICK r : r = list[i + 1]
      OBVIOUS
    <2>3. r \in Rest(i) /\ Rest(i) \in SUBSET Routes
      BY <1>2, <2>1, <2>2
    <2>4. Rest(i) \ {r} = Rest(i + 1)
      <3>1. \A j \in (i + 1) + 1 .. n : j \in i + 1 .. n /\ j \in 1 .. n /\ j # i + 1
        BY <1>2, <2>1
      <3>2. \A j \in i + 1 .. n : j # i + 1 => j \in (i + 1) + 1 .. n
        BY <1>2, <2>1
      <3>3. \A j \in (i + 1) + 1 .. n : list[j] # r
        BY <1>2, <2>1, <2>2, <3>1
      <3> QED BY <2>2, <3>1, <3>2, <3>3
    <2>5. Left(g[i], Rest(i)) /\ Room(g[i], Rest(i), n - i)
      BY <1>6
    <2> HIDE DEF Rest
    <2>6. PICK z : z = ReopenOrStop(g[i], r, good, bad)
      OBVIOUS
    <2>7. Left(z, Rest(i) \ {r}) /\ Room(z, Rest(i) \ {r}, (n - i) - 1)
      BY <2>1, <2>3, <2>5, <2>6, NextLeft
    <2>8. g[i + 1] = z
      BY <1>4, <2>2, <2>6
    <2> QED BY <2>1, <2>4, <2>7, <2>8
  <1>7. Rest(n) = {}
    BY <1>2
  <1> HIDE DEF K, Rest
  <1>8. \A i \in 0 .. n : i \in K
    BY <1>2, <1>5, <1>6, Induct
  <1>9. n \in K
    BY <1>2, <1>8
  <1> QED BY <1>3, <1>7, <1>9 DEF K

----------------------------------------------------------------------------
(* The handlers.                                                           *)

\* A route that is stopped, or restarted, begins.
LEMMA BegunSettles ==
  ASSUME NEW x, NEW z, NEW r \in Routes, \A q \in Senders \ {r} : FedAt(x, q), Begun(x, z, r)
  PROVE  Settled(z)
  BY DEF Begun, Settled

LEMMA ReleasedSettles ==
  ASSUME NEW x, Settled(x), NEW z, NEW r \in Routes, NEW s, NEW c, Released(x, z, r, s, c)
  PROVE  /\ Sane(z) /\ Wanted(z) /\ z.route[r] = Bare(s, c) /\ z.next = x.next
         /\ \A q \in Senders \ {r} : FedAt(z, q)
         /\ s = "none" => Settled(z)
  <1>1. /\ Sane(z) /\ Wanted(z) /\ z.next = x.next /\ z.route = [x.route EXCEPT ![r] = Bare(s, c)]
        /\ \A q \in Senders \ {r} : FedAt(z, q)
    BY DEF Released, Settled
  <1>2. z.route[r] = Bare(s, c)
    <2>1. x \in PState
      BY DEF Settled, Sane
    <2> QED BY <1>1, <2>1, PParts
  <1>3. s = "none" => FedAt(z, r)
    BY <1>2 DEF FedAt, Bare
  <1> QED BY <1>1, <1>2, <1>3 DEF Settled

\* A stopped route gets a codec, and begins.
LEMMA StartSettles ==
  ASSUME NEW x, Settled(x), NEW r \in Routes, NEW c \in Codecs, x.route[r].st = "none",
         x.next < MaxStarts,
         NEW y, y = [x EXCEPT !.route[r].st = "Starting", !.route[r].codec = c]
  PROVE  Settled(Begin(y, r))
  <1>1. x \in PState /\ Sane(x)
    BY DEF Settled, Sane
  <1>2. x.route[r] = Bare("none", x.route[r].codec)
    <2>1. x.route[r] \in Route
      BY <1>1, PParts
    <2>2. x.route[r] = [st |-> x.route[r].st, codec |-> x.route[r].codec, enc |-> x.route[r].enc,
                        sub |-> x.route[r].sub, start |-> x.route[r].start,
                        recv |-> x.route[r].recv]
      BY <2>1 DEF Route
    <2>3. CASE r \in Receivers
      <3>1. PlayInv(x, r)
        BY <1>1, <2>3 DEF Sane
      <3> QED BY <2>2, <3>1 DEF PlayInv, Bare
    <2>4. CASE r \in Senders
      <3>1. SendInv(x, r)
        BY <1>1, <2>4 DEF Sane
      <3> QED BY <2>2, <3>1 DEF SendInv, Bare
    <2> QED BY <2>3, <2>4 DEF Routes
  <1>3. PICK b : b = Bare("Starting", c)
    OBVIOUS
  <1>4. b \in Route
    BY <1>3, PipelineBounds DEF Bare, Route
  <1>5. PICK rs : rs = [x.route EXCEPT ![r] = b]
    OBVIOUS
  <1>6. rs \in [Routes -> Route] /\ rs[r] = b /\ \A q \in Routes \ {r} : rs[q] = x.route[q]
    BY <1>1, <1>4, <1>5, PParts
  <1>7. y = [x EXCEPT !.route = rs]
    <2>1. PICK d : d = [x.route[r] EXCEPT !.st = "Starting"]
      OBVIOUS
    <2>2. d = [st |-> "Starting", codec |-> x.route[r].codec, enc |-> NoKey, sub |-> 0,
               start |-> 0, recv |-> 0]
      BY <1>2, <2>1 DEF Bare
    <2>3. [d EXCEPT !.codec = c] = b
      BY <1>3, <2>2 DEF Bare
    <2>4. PICK ps : ps = [x.route EXCEPT ![r] = d]
      OBVIOUS
    <2>5. PICK w : w = [x EXCEPT !.route = ps]
      OBVIOUS
    <2>6. w = [x EXCEPT !.route[r].st = "Starting"] /\ w.route = ps /\ ps[r] = d
      BY <1>1, <2>1, <2>4, <2>5 DEF PState
    <2>7. y = [w EXCEPT !.route[r].codec = c]
      BY <2>6
    <2>8. [ps EXCEPT ![r] = b] = rs
      BY <1>1, <1>5, <2>4, PParts
    <2>9. y = [w EXCEPT !.route = rs]
      BY <2>3, <2>6, <2>7, <2>8
    <2> QED BY <1>1, <2>5, <2>9 DEF PState
  <1>8. /\ y \in PState /\ y.route = rs /\ y.next = x.next /\ y.opener = x.opener
        /\ y.slot = x.slot /\ y.stream = x.stream
    BY <1>1, <1>6, <1>7 DEF PState
  <1>9. Sane(y)
    <2>1. \A k \in Keys : GroupInv(y, k)
      BY <1>1, <1>8 DEF Sane, GroupInv
    <2>2. ASSUME NEW q \in Receivers
          PROVE  PlayInv(y, q)
      <3>1. q = r => PlayInv(y, q)
        BY <1>3, <1>6, <1>8 DEF PlayInv, Bare
      <3>2. q # r => PlayInv(y, q)
        BY <1>1, <1>6, <1>8 DEF Sane, PlayInv, Routes
      <3> QED BY <3>1, <3>2
    <2>3. ASSUME NEW q \in Senders
          PROVE  SendInv(y, q)
      <3>1. q = r => SendInv(y, q)
        BY <1>3, <1>6, <1>8 DEF SendInv, Bare
      <3>2. q # r => SendInv(y, q)
        BY <1>1, <1>6, <1>8 DEF Sane, SendInv, Routes
      <3> QED BY <3>1, <3>2
    <2> QED BY <1>1, <1>8, <2>1, <2>2, <2>3 DEF Sane
  <1>10. \A q \in Routes : y.route[q].sub = x.route[q].sub /\ y.route[q].recv = x.route[q].recv
    BY <1>2, <1>3, <1>6, <1>8 DEF Bare
  <1>11. Wanted(y)
    <2>1. \A q \in Senders \cup Receivers : q \in Routes
      BY DEF Routes
    <2> QED BY <1>8, <1>10, <2>1 DEF Settled, Wanted, Held, Plays, Listeners
  <1>12. \A q \in Senders \ {r} : FedAt(y, q)
    BY <1>6, <1>8 DEF Settled, FedAt, KeyOf, Routes
  <1>13. Begun(y, Begin(y, r), r)
    BY <1>3, <1>6, <1>8, <1>9, <1>11, BeginIs
  <1> QED BY <1>12, <1>13, BegunSettles

\* apply_profile
LEMMA ProfileSettles ==
  ASSUME NEW x, Settled(x), NEW r \in Routes, NEW c \in Codecs, x.route[r].st = "Active",
         NEW y, y = Release([x EXCEPT !.route[r].codec = c], r)
  PROVE  /\ x.next < MaxStarts => Settled(Begin(y, r))
         /\ Settled(StopRoute(y, r))
  <1>1. Sane(x) /\ Held(x)
    BY DEF Settled, Wanted
  <1>2. Released(x, y, r, "Active", c)
    BY <1>1, ReleaseCodec
  <1>3. /\ Sane(y) /\ Wanted(y) /\ Held(y) /\ y.route[r] = Bare("Active", c) /\ y.next = x.next
        /\ \A q \in Senders \ {r} : FedAt(y, q)
    BY <1>2, ReleasedSettles DEF Wanted
  <1>4. ASSUME x.next < MaxStarts
        PROVE  Settled(Begin(y, r))
    <2>1. Begun(y, Begin(y, r), r)
      BY <1>3, <1>4, BeginIs
    <2> QED BY <1>3, <2>1, BegunSettles
  <1>5. Settled(StopRoute(y, r))
    <2>1. PICK z : z = StopRoute(y, r)
      OBVIOUS
    <2>2. Released(y, z, r, "none", y.route[r].codec)
      BY <1>3, <2>1, StopIs
    <2>3. Sane(z) /\ Wanted(z) /\ \A q \in Senders \ {r} : FedAt(z, q)
      BY <1>3, <2>2 DEF Released
    <2>4. z.route[r].st = "none"
      BY <1>3, <2>2, PParts DEF Released, Bare, Sane
    <2> QED BY <2>1, <2>3, <2>4 DEF Settled, FedAt
  <1> QED BY <1>4, <1>5

\* stop_route_by_key
LEMMA StopSettles ==
  ASSUME NEW x, Settled(x), NEW r \in Routes
  PROVE  Settled(StopRoute(x, r))
  <1>1. Sane(x) /\ Held(x)
    BY DEF Settled, Wanted
  <1> QED BY <1>1, StopIs, ReleasedSettles

\* The stream of start n becomes v.
Reported(x, n, v) == [x EXCEPT !.stream[n] = v]

\* Nothing waits for start n.
Unawaited(x, n) ==
  /\ \A k \in Keys : x.slot[k].st = "Starting" => x.slot[k].id # n
  /\ \A r \in Receivers : x.route[r].start # n

\* A start reports its result, or one that no one waits for any more is dropped.
LEMMA StreamSettles ==
  ASSUME NEW x, Settled(x), NEW n \in Starts, x.stream[n] \in Unhandled,
         NEW v, v \in Unhandled \/ (v = "dropped" /\ Unawaited(x, n)),
         NEW z, z = Reported(x, n, v)
  PROVE  /\ Settled(z) /\ z.route = x.route /\ z.slot = x.slot /\ z.opener = x.opener
         /\ z.next = x.next /\ z.stream = [x.stream EXCEPT ![n] = v]
  <1>1. x \in PState /\ v \in Streams
    BY DEF Settled, Sane, Unhandled, Streams
  <1>2. PICK ss : ss = [x.stream EXCEPT ![n] = v]
    OBVIOUS
  <1>3. /\ ss \in [Starts -> Streams] /\ ss[n] = v
        /\ \A m \in Starts : m # n => ss[m] = x.stream[m]
    BY <1>1, <1>2, PParts
  <1>4. /\ z \in PState /\ z.route = x.route /\ z.slot = x.slot /\ z.opener = x.opener
        /\ z.next = x.next /\ z.stream = ss
    BY <1>1, <1>2, <1>3 DEF PState, Reported
  <1>5. \A m \in 1 .. x.next : m \in Starts
    BY <1>1, PParts
  <1>6. \A m \in Starts : m > z.next => z.stream[m] = "none"
    BY <1>3, <1>4 DEF Settled, Sane, Unhandled
  <1>7. \A k \in Keys : GroupInv(z, k)
    <2> TAKE k \in Keys
    <2>1. GroupInv(x, k)
      BY DEF Settled, Sane
    <2> QED BY <1>3, <1>4, <1>5, <2>1 DEF GroupInv, Unhandled, Unawaited
  <1>8. \A r \in Receivers : PlayInv(z, r)
    <2> TAKE r \in Receivers
    <2>1. PlayInv(x, r)
      BY DEF Settled, Sane
    <2> QED BY <1>3, <1>4, <1>5, <2>1 DEF PlayInv, Unhandled, Unawaited
  <1>9. \A r \in Senders : SendInv(z, r)
    BY <1>4 DEF Settled, Sane, SendInv
  <1>10. Sane(z)
    BY <1>4, <1>6, <1>7, <1>8, <1>9 DEF Sane
  <1>11. \A m \in Starts : z.stream[m] = "used" => x.stream[m] = "used"
    BY <1>3, <1>4 DEF Unhandled
  <1>12. Wanted(z)
    BY <1>4, <1>11 DEF Settled, Wanted, Held, Plays, Listeners
  <1>13. \A q \in Senders : FedAt(z, q)
    BY <1>4 DEF Settled, FedAt, KeyOf
  <1> QED BY <1>2, <1>4, <1>10, <1>12, <1>13 DEF Settled

\* prune_encoders takes the group of no route that is fed.
LEMMA PruneFed ==
  ASSUME NEW x, Sane(x), Held(x), \A q \in Senders : FedAt(x, q)
  PROVE  Settled(Prune(x))
  <1>1. PICK ks : ks = {k \in Keys : x.slot[k].st = "Running" /\ Listeners(x, k) = {}}
    OBVIOUS
  <1>2. PICK z : z = Prune(x)
    OBVIOUS
  <1>3. Sane(z) /\ Wanted(z) /\ Without(x, z, ks)
    BY <1>1, <1>2, PruneIs
  <1>4. x \in PState
    BY DEF Sane
  <1>5. ASSUME NEW q \in Senders
        PROVE  FedAt(z, q)
    <2>1. z.route[q] = x.route[q] /\ x.route[q].codec \in Codecs
      BY <1>3, <1>4, PParts DEF Without, Routes
    <2>2. CASE x.route[q].st = "none"
      BY <2>1, <2>2 DEF FedAt
    <2>3. CASE x.route[q].st # "none"
      <3>1. ASSUME NEW k \in Keys, x.route[q].enc = k
            PROVE  z.slot[k] = x.slot[k]
        <4>1. k = KeyOf(x, q)
          BY <2>3, <3>1 DEF FedAt
        <4>2. k \notin ks
          <5> SUFFICES ASSUME k \in ks PROVE FALSE
            OBVIOUS
          <5>1. x.slot[k].st = "Running" /\ Listeners(x, k) = {}
            BY <1>1
          <5>2. x.route[q].sub = x.slot[k].id
            BY <2>3, <4>1, <5>1 DEF FedAt
          <5> QED BY <5>1, <5>2 DEF Listeners
        <4> QED BY <1>3, <4>2 DEF Without
      <3> QED BY <2>1, <3>1, FedFrame
    <2> QED BY <2>2, <2>3
  <1> QED BY <1>2, <1>3, <1>5 DEF Settled

\* Subscribe, of routes that wait for the group k.
LEMMA SubscribeIs ==
  ASSUME NEW x \in PState, NEW n \in Starts, NEW rs \in SUBSET Routes
  PROVE  LET z == Subscribe(x, n, rs) IN
         /\ z \in PState /\ z.slot = x.slot /\ z.stream = x.stream /\ z.opener = x.opener
         /\ z.next = x.next
         /\ \A r \in Routes \ rs : z.route[r] = x.route[r]
         /\ \A r \in rs : /\ z.route[r].sub = n /\ z.route[r].st = "Active"
                          /\ z.route[r].codec = x.route[r].codec /\ z.route[r].enc = x.route[r].enc
                          /\ z.route[r].start = x.route[r].start
                          /\ z.route[r].recv = x.route[r].recv
  <1>1. PICK fs : fs = [r \in Routes |-> IF r \in rs
                                         THEN [x.route[r] EXCEPT !.sub = n, !.st = "Active"]
                                         ELSE x.route[r]]
    OBVIOUS
  <1>2. ASSUME NEW r \in rs
        PROVE  /\ fs[r] \in Route /\ fs[r].sub = n /\ fs[r].st = "Active"
               /\ fs[r].codec = x.route[r].codec /\ fs[r].enc = x.route[r].enc
               /\ fs[r].start = x.route[r].start /\ fs[r].recv = x.route[r].recv
    <2>1. fs[r] = [x.route[r] EXCEPT !.sub = n, !.st = "Active"]
      BY <1>1
    <2>2. x.route[r] \in Route /\ n \in 0 .. MaxStarts
      BY PParts
    <2> QED BY <2>1, <2>2 DEF Route
  <1>3. fs \in [Routes -> Route] /\ \A r \in Routes \ rs : fs[r] = x.route[r]
    <2>1. \A r \in Routes \ rs : fs[r] = x.route[r] /\ x.route[r] \in Route
      BY <1>1, PParts
    <2>2. \A r \in Routes : fs[r] \in Route
      BY <1>2, <2>1
    <2> QED BY <1>1, <2>1, <2>2
  <1>4. PICK z : z = [x EXCEPT !.route = fs]
    OBVIOUS
  <1>5. Subscribe(x, n, rs) = z
    BY <1>1, <1>4 DEF Subscribe
  <1>6. /\ z \in PState /\ z.route = fs /\ z.slot = x.slot /\ z.stream = x.stream
        /\ z.opener = x.opener /\ z.next = x.next
    BY <1>3, <1>4 DEF PState
  <1> QED BY <1>2, <1>3, <1>5, <1>6

\* The routes rs of x, without pipelines.
Failed(x, rs) ==
  [x EXCEPT !.route = [r \in Routes |->
     IF r \in rs THEN [x.route[r] EXCEPT !.st = "none", !.enc = NoKey, !.sub = 0]
     ELSE x.route[r]]]

LEMMA FailedIs ==
  ASSUME NEW x \in PState, NEW rs \in SUBSET Routes
  PROVE  LET z == Failed(x, rs) IN
         /\ z \in PState /\ z.slot = x.slot /\ z.stream = x.stream /\ z.opener = x.opener
         /\ z.next = x.next
         /\ \A r \in Routes \ rs : z.route[r] = x.route[r]
         /\ \A r \in rs : /\ z.route[r].sub = 0 /\ z.route[r].st = "none"
                          /\ z.route[r].enc = NoKey
                          /\ z.route[r].start = x.route[r].start
                          /\ z.route[r].recv = x.route[r].recv
  <1>1. PICK fs : fs = [r \in Routes |-> IF r \in rs
                          THEN [x.route[r] EXCEPT !.st = "none", !.enc = NoKey, !.sub = 0]
                          ELSE x.route[r]]
    OBVIOUS
  <1>2. ASSUME NEW r \in rs
        PROVE  /\ fs[r] \in Route /\ fs[r].sub = 0 /\ fs[r].st = "none"
               /\ fs[r].enc = NoKey
               /\ fs[r].start = x.route[r].start /\ fs[r].recv = x.route[r].recv
    <2>1. fs[r] = [x.route[r] EXCEPT !.st = "none", !.enc = NoKey, !.sub = 0]
      BY <1>1
    <2>2. x.route[r] \in Route /\ 0 \in 0 .. MaxStarts
      BY PParts
    <2> QED BY <2>1, <2>2 DEF Route
  <1>3. fs \in [Routes -> Route] /\ \A r \in Routes \ rs : fs[r] = x.route[r]
    <2>1. \A r \in Routes \ rs : fs[r] = x.route[r] /\ x.route[r] \in Route
      BY <1>1, PParts
    <2>2. \A r \in Routes : fs[r] \in Route
      BY <1>2, <2>1
    <2> QED BY <1>1, <2>1, <2>2
  <1>4. PICK z : z = [x EXCEPT !.route = fs]
    OBVIOUS
  <1>5. Failed(x, rs) = z
    BY <1>1, <1>4 DEF Failed
  <1>6. /\ z \in PState /\ z.route = fs /\ z.slot = x.slot /\ z.stream = x.stream
        /\ z.opener = x.opener /\ z.next = x.next
    BY <1>3, <1>4 DEF PState
  <1> QED BY <1>2, <1>3, <1>5, <1>6

\* The group k of start n runs, and the routes ws that wait for it listen.
Ran(x, k, n, ws) ==
  Subscribe([x EXCEPT !.stream[n] = "used",
                      !.slot[k] = [st |-> "Running", id |-> n, waiting |-> {}]], n, ws)

\* on_sender_ready, when the device opened.
LEMMA RanSettles ==
  ASSUME NEW x, Settled(x), NEW k \in Keys, NEW n \in Starts, x.stream[n] \in Unhandled,
         x.slot[k].st = "Starting", x.slot[k].id = n,
         NEW ws, ws = {r \in x.slot[k].waiting : x.route[r].enc = k /\ x.route[r].sub = 0}
  PROVE  Settled(Prune(Ran(x, k, n, ws)))
  <1>1. x \in PState /\ Sane(x) /\ n \in 1 .. x.next /\ x.opener[n] = k /\ n # 0
    <2>1. x \in PState /\ GroupInv(x, k)
      BY DEF Settled, Sane
    <2> QED BY <2>1, PParts DEF Settled, GroupInv
  <1>2. PICK g : g = [st |-> "Running", id |-> n, waiting |-> {}]
    OBVIOUS
  <1>3. PICK gs : gs = [x.slot EXCEPT ![k] = g]
    OBVIOUS
  <1>4. PICK ss : ss = [x.stream EXCEPT ![n] = "used"]
    OBVIOUS
  <1>5. g \in Slot /\ g.st = "Running" /\ g.id = n
    BY <1>1, <1>2, PParts DEF Slot
  <1>6. /\ gs \in [Keys -> Slot] /\ gs[k] = g /\ \A j \in Keys : j # k => gs[j] = x.slot[j]
        /\ ss \in [Starts -> Streams] /\ ss[n] = "used"
        /\ \A m \in Starts : m # n => ss[m] = x.stream[m]
    BY <1>1, <1>3, <1>4, <1>5, PParts DEF Streams
  <1>7. PICK y : y = [x EXCEPT !.stream = ss, !.slot = gs]
    OBVIOUS
  <1>8. /\ y \in PState /\ y.route = x.route /\ y.slot = gs /\ y.stream = ss
        /\ y.opener = x.opener /\ y.next = x.next
    BY <1>1, <1>6, <1>7 DEF PState
  <1>9. PICK z : z = Subscribe(y, n, ws)
    OBVIOUS
  <1>10. Ran(x, k, n, ws) = z
    BY <1>2, <1>3, <1>4, <1>7, <1>9 DEF Ran
  <1>11. ws \in SUBSET Routes
    BY <1>1, PParts
  <1>12. /\ z \in PState /\ z.slot = gs /\ z.stream = ss /\ z.opener = x.opener
         /\ z.next = x.next
         /\ \A r \in Routes \ ws : z.route[r] = x.route[r]
         /\ \A r \in ws : /\ z.route[r].sub = n /\ z.route[r].st = "Active"
                          /\ z.route[r].codec = x.route[r].codec /\ z.route[r].enc = k
                          /\ z.route[r].start = x.route[r].start
                          /\ z.route[r].recv = x.route[r].recv
    <2>1. \A r \in ws : x.route[r].enc = k
      OBVIOUS
    <2> QED BY <1>8, <1>9, <1>11, <2>1, SubscribeIs
  <1>13. \A r \in ws : r \in Senders
    <2> TAKE r \in ws
    <2>1. x.route[r].enc # NoKey
      BY NamesApart
    <2>2. r \notin Receivers
      BY <1>1, <2>1 DEF Sane, PlayInv
    <2> QED BY <1>11, <2>2 DEF Routes
  <1>14. \A m \in 1 .. x.next : m \in Starts
    BY <1>1, PParts
  <1>15. \A m \in Starts : m > z.next => z.stream[m] = "none"
    BY <1>1, <1>6, <1>12, PParts DEF Sane
  <1>16. ASSUME NEW j \in Keys
         PROVE  GroupInv(z, j)
    <2>1. CASE j = k
      BY <1>1, <1>5, <1>6, <1>12, <2>1 DEF GroupInv
    <2>2. CASE j # k
      <3>1. GroupInv(x, j) /\ z.slot[j] = x.slot[j]
        BY <1>1, <1>6, <1>12, <2>2 DEF Sane
      <3>2. x.slot[j].st # "none" => x.slot[j].id # n
        BY <1>1, <2>2, <3>1 DEF GroupInv
      <3> QED BY <1>6, <1>12, <1>14, <3>1, <3>2 DEF GroupInv
    <2> QED BY <2>1, <2>2
  <1>17. ASSUME NEW r \in Receivers
         PROVE  PlayInv(z, r)
    <2>1. PlayInv(x, r) /\ z.route[r] = x.route[r]
      BY <1>1, <1>12, <1>13, NamesApart DEF Sane, Routes
    <2>2. \A m \in 1 .. x.next : x.opener[m] = r => m # n
      BY <1>1, NamesApart
    <2> QED BY <1>6, <1>12, <1>14, <2>1, <2>2 DEF PlayInv
  <1>18. ASSUME NEW r \in Senders
         PROVE  SendInv(z, r)
    <2>1. SendInv(x, r)
      BY <1>1 DEF Sane
    <2>2. CASE r \in ws
      BY <1>1, <1>12, <2>1, <2>2, NamesApart DEF SendInv
    <2>3. CASE r \notin ws
      <3>1. z.route[r] = x.route[r]
        BY <1>12, <2>3 DEF Routes
      <3> QED BY <1>12, <2>1, <3>1 DEF SendInv
    <2> QED BY <2>2, <2>3
  <1>19. Sane(z)
    BY <1>12, <1>15, <1>16, <1>17, <1>18 DEF Sane
  <1>20. Held(z)
    <2> SUFFICES ASSUME NEW m \in Starts, z.stream[m] = "used"
                 PROVE  (\E j \in Keys : z.slot[j].st = "Running" /\ z.slot[j].id = m) \/ Plays(z, m)
      BY DEF Held
    <2>1. CASE m = n
      BY <1>5, <1>6, <1>12, <2>1
    <2>2. CASE m # n
      <3>1. x.stream[m] = "used"
        BY <1>6, <1>12, <2>2
      <3>2. \A r \in Receivers : z.route[r] = x.route[r]
        BY <1>12, <1>13, NamesApart DEF Routes
      <3>3. \A j \in Keys : x.slot[j].st = "Running" => z.slot[j] = x.slot[j]
        BY <1>6, <1>12
      <3> QED BY <3>1, <3>2, <3>3 DEF Settled, Wanted, Held, Plays
    <2> QED BY <2>1, <2>2
  <1>21. ASSUME NEW q \in Senders
         PROVE  FedAt(z, q)
    <2>1. FedAt(x, q) /\ q \in Routes
      BY DEF Settled, Routes
    <2>2. CASE q \in ws
      <3>1. x.route[q].enc = k /\ x.route[q].st # "none"
        <4>1. SendInv(x, q) /\ x.route[q].enc = k
          BY <1>1, <2>2 DEF Sane
        <4> QED BY <4>1, NamesApart DEF SendInv
      <3>2. KeyOf(z, q) = KeyOf(x, q)
        BY <1>12, <2>2 DEF KeyOf
      <3> QED BY <1>5, <1>6, <1>12, <2>1, <2>2, <3>1, <3>2 DEF FedAt
    <2>3. CASE q \notin ws
      <3>1. z.route[q] = x.route[q] /\ x.route[q].codec \in Codecs
        BY <1>1, <1>12, <2>1, <2>3, PParts
      <3>2. CASE x.route[q].st = "none"
        BY <3>1, <3>2 DEF FedAt
      <3>3. CASE x.route[q].st # "none"
        <4>1. x.route[q].enc # k
          <5>1. x.route[q].enc = k => q \in x.slot[k].waiting /\ x.route[q].sub = 0
            BY <2>1, <3>3 DEF FedAt
          <5> QED BY <2>3, <5>1
        <4>2. \A j \in Keys : x.route[q].enc = j => z.slot[j] = x.slot[j]
          BY <1>6, <1>12, <4>1
        <4> QED BY <2>1, <3>1, <4>2, FedFrame
      <3> QED BY <3>2, <3>3
    <2> QED BY <2>2, <2>3
  <1> QED BY <1>10, <1>19, <1>20, <1>21, PruneFed

\* The group k of start n is given up, and the routes hurt fail.
GivenUp(x, k, n, hurt) ==
  FailAll([[x EXCEPT !.stream[n] = "dropped"] EXCEPT !.slot[k] = NoSlot], hurt)

\* on_sender_ready, when the device did not open.
LEMMA GivenUpSettles ==
  ASSUME NEW x, Settled(x), NEW k \in Keys, NEW n \in Starts, x.stream[n] \in Unhandled,
         x.slot[k].st = "Starting", x.slot[k].id = n,
         NEW ws, ws = {r \in x.slot[k].waiting : x.route[r].enc = k}
  PROVE  Settled(GivenUp(x, k, n, ws))
  <1>1. x \in PState /\ Sane(x) /\ n \in 1 .. x.next /\ x.opener[n] = k /\ n # 0
    <2>1. x \in PState /\ GroupInv(x, k)
      BY DEF Settled, Sane
    <2> QED BY <2>1, PParts DEF Settled, GroupInv
  <1>2. PICK gs : gs = [x.slot EXCEPT ![k] = NoSlot]
    OBVIOUS
  <1>3. PICK ss : ss = [x.stream EXCEPT ![n] = "dropped"]
    OBVIOUS
  <1>4. NoSlot \in Slot /\ "dropped" \in Streams
    BY PipelineBounds DEF NoSlot, Slot, Streams
  <1>5. /\ gs \in [Keys -> Slot] /\ gs[k] = NoSlot /\ \A j \in Keys : j # k => gs[j] = x.slot[j]
        /\ ss \in [Starts -> Streams] /\ ss[n] = "dropped"
        /\ \A m \in Starts : m # n => ss[m] = x.stream[m]
    BY <1>1, <1>2, <1>3, <1>4, PParts
  <1>6. PICK w : w = [x EXCEPT !.stream = ss]
    OBVIOUS
  <1>7. PICK y : y = [w EXCEPT !.slot = gs]
    OBVIOUS
  <1>8. /\ y \in PState /\ y.route = x.route /\ y.slot = gs /\ y.stream = ss
        /\ y.opener = x.opener /\ y.next = x.next /\ w.slot = x.slot
    BY <1>1, <1>5, <1>6, <1>7 DEF PState
  <1>9. PICK z : z = Failed(y, ws)
    OBVIOUS
  <1>10. GivenUp(x, k, n, ws) = Prune(z)
    <2>1. y = [[x EXCEPT !.stream[n] = "dropped"] EXCEPT !.slot[k] = NoSlot]
      BY <1>2, <1>3, <1>6, <1>7, <1>8
    <2>2. GivenUp(x, k, n, ws) = FailAll(y, ws)
      BY <2>1 DEF GivenUp
    <2> QED BY <1>9, <2>2 DEF FailAll, Failed
  <1>11. ws \in SUBSET Routes
    BY <1>1, PParts
  <1>12. /\ z \in PState /\ z.slot = gs /\ z.stream = ss /\ z.opener = x.opener
         /\ z.next = x.next
         /\ \A r \in Routes \ ws : z.route[r] = x.route[r]
         /\ \A r \in ws : /\ z.route[r].sub = 0 /\ z.route[r].st = "none"
                          /\ z.route[r].enc = NoKey
                          /\ z.route[r].start = x.route[r].start
                          /\ z.route[r].recv = x.route[r].recv
    BY <1>8, <1>9, <1>11, FailedIs
  <1>13. \A r \in ws : r \in Senders
    <2> TAKE r \in ws
    <2>1. x.route[r].enc # NoKey
      BY NamesApart
    <2>2. r \notin Receivers
      BY <1>1, <2>1 DEF Sane, PlayInv
    <2> QED BY <1>11, <2>2 DEF Routes
  <1>14. \A m \in 1 .. x.next : m \in Starts
    BY <1>1, PParts
  <1>15. \A m \in Starts : m > z.next => z.stream[m] = "none"
    BY <1>1, <1>5, <1>12, PParts DEF Sane
  <1>16. ASSUME NEW j \in Keys
         PROVE  GroupInv(z, j)
    <2>1. CASE j = k
      BY <1>5, <1>12, <2>1 DEF GroupInv, NoSlot
    <2>2. CASE j # k
      <3>1. GroupInv(x, j) /\ z.slot[j] = x.slot[j]
        BY <1>1, <1>5, <1>12, <2>2 DEF Sane
      <3>2. x.slot[j].st # "none" => x.slot[j].id # n
        BY <1>1, <2>2, <3>1 DEF GroupInv
      <3> QED BY <1>5, <1>12, <1>14, <3>1, <3>2 DEF GroupInv
    <2> QED BY <2>1, <2>2
  <1>17. ASSUME NEW r \in Receivers
         PROVE  PlayInv(z, r)
    <2>1. PlayInv(x, r) /\ z.route[r] = x.route[r]
      BY <1>1, <1>12, <1>13, NamesApart DEF Sane, Routes
    <2>2. \A m \in 1 .. x.next : x.opener[m] = r => m # n
      BY <1>1, NamesApart
    <2> QED BY <1>5, <1>12, <1>14, <2>1, <2>2 DEF PlayInv
  <1>18. ASSUME NEW r \in Senders
         PROVE  SendInv(z, r)
    <2>1. SendInv(x, r)
      BY <1>1 DEF Sane
    <2>2. CASE r \in ws
      BY <1>12, <2>1, <2>2 DEF SendInv
    <2>3. CASE r \notin ws
      <3>1. z.route[r] = x.route[r]
        BY <1>12, <2>3 DEF Routes
      <3> QED BY <1>12, <2>1, <3>1 DEF SendInv
    <2> QED BY <2>2, <2>3
  <1>19. Sane(z)
    BY <1>12, <1>15, <1>16, <1>17, <1>18 DEF Sane
  <1>20. Held(z)
    <2> SUFFICES ASSUME NEW m \in Starts, z.stream[m] = "used"
                 PROVE  (\E j \in Keys : z.slot[j].st = "Running" /\ z.slot[j].id = m) \/ Plays(z, m)
      BY DEF Held
    <2>1. x.stream[m] = "used"
      BY <1>5, <1>12
    <2>2. \A r \in Receivers : z.route[r] = x.route[r]
      BY <1>12, <1>13, NamesApart DEF Routes
    <2>3. \A j \in Keys : x.slot[j].st = "Running" => z.slot[j] = x.slot[j]
      BY <1>5, <1>12
    <2> QED BY <2>1, <2>2, <2>3 DEF Settled, Wanted, Held, Plays
  <1>21. ASSUME NEW q \in Senders
         PROVE  FedAt(z, q)
    <2>1. FedAt(x, q) /\ q \in Routes
      BY DEF Settled, Routes
    <2>2. CASE q \in ws
      BY <1>12, <2>2 DEF FedAt
    <2>3. CASE q \notin ws
      <3>1. z.route[q] = x.route[q] /\ x.route[q].codec \in Codecs
        BY <1>1, <1>12, <2>1, <2>3, PParts
      <3>2. CASE x.route[q].st = "none"
        BY <3>1, <3>2 DEF FedAt
      <3>3. CASE x.route[q].st # "none"
        <4>1. x.route[q].enc # k
          <5>1. x.route[q].enc = k => q \in x.slot[k].waiting
            BY <2>1, <3>3 DEF FedAt
          <5> QED BY <2>3, <5>1
        <4>2. \A j \in Keys : x.route[q].enc = j => z.slot[j] = x.slot[j]
          BY <1>5, <1>12, <4>1
        <4> QED BY <2>1, <3>1, <4>2, FedFrame
      <3> QED BY <3>2, <3>3
    <2> QED BY <2>2, <2>3
  <1> QED BY <1>10, <1>19, <1>20, <1>21, PruneFed

\* stop_route_by_key, of a state in which other things may be wrong.
LEMMA StopForm ==
  ASSUME NEW x \in PState, NEW r \in Routes
  PROVE  StopRoute(x, r) = Prune(Drop([x EXCEPT !.route[r] = Bare("none", x.route[r].codec)],
                                      x.route[r].recv))
  <1>1. x.route[r] \in Route
    BY PParts
  <1>2. PICK a : a = [x.route[r] EXCEPT !.st = "none"]
    OBVIOUS
  <1>3. PICK c : c = x.route[r].codec
    OBVIOUS
  <1>4. a \in Route /\ a.recv = x.route[r].recv /\ a.st = "none" /\ a.codec = c
    BY <1>1, <1>2, <1>3 DEF Route
  <1>5. PICK rs : rs = [x.route EXCEPT ![r] = a]
    OBVIOUS
  <1>6. PICK u : u = [x EXCEPT !.route = rs]
    OBVIOUS
  <1>7. StopRoute(x, r) = Release(u, r)
    BY <1>2, <1>5, <1>6 DEF StopRoute
  <1>8. u \in PState /\ u.route = rs /\ rs[r] = a
    BY <1>4, <1>5, <1>6 DEF PState
  <1>9. [a EXCEPT !.enc = NoKey, !.sub = 0, !.start = 0, !.recv = 0] = Bare("none", c)
    <2>1. PICK b : b = [a EXCEPT !.enc = NoKey, !.sub = 0, !.start = 0, !.recv = 0]
      OBVIOUS
    <2>2. a = [st |-> a.st, codec |-> a.codec, enc |-> a.enc, sub |-> a.sub,
               start |-> a.start, recv |-> a.recv]
      BY <1>4 DEF Route
    <2>3. b = [st |-> a.st, codec |-> a.codec, enc |-> NoKey, sub |-> 0, start |-> 0, recv |-> 0]
      BY <2>1, <2>2
    <2> QED BY <1>4, <2>1, <2>3 DEF Bare
  <1>10. PICK qs : qs = [rs EXCEPT ![r] = Bare("none", c)]
    OBVIOUS
  <1>11. [u EXCEPT !.route[r] = [@ EXCEPT !.enc = NoKey, !.sub = 0, !.start = 0, !.recv = 0]]
         = [u EXCEPT !.route = qs]
    <2>1. u.route[r] = a
      BY <1>8
    <2> QED BY <1>8, <1>9, <1>10, <2>1
  <1>12. [u EXCEPT !.route = qs] = [x EXCEPT !.route[r] = Bare("none", c)]
    <2>1. qs = [x.route EXCEPT ![r] = Bare("none", c)]
      BY <1>5, <1>10 DEF PState
    <2> QED BY <1>6, <2>1 DEF PState
  <1>13. u.route[r].recv = x.route[r].recv
    BY <1>4, <1>8
  <1> QED BY <1>3, <1>7, <1>11, <1>12, <1>13 DEF Release

\* A route gets the receiver of start n, for the one it had.
Played(x, r, n) ==
  Drop([x EXCEPT !.stream[n] = "used", !.route[r].start = 0, !.route[r].recv = n],
       x.route[r].recv)

Plain(s, c, n) ==
  [st |-> s, codec |-> c, enc |-> NoKey, sub |-> 0, start |-> 0, recv |-> n]

LEMMA PlayedIs ==
  ASSUME NEW x \in PState, NEW r \in Routes, NEW n \in Starts, PlayInv(x, r),
         x.stream[n] # "used", NEW m, m = x.route[r].recv, NEW c, c = x.route[r].codec
  PROVE  LET z == Activate(Played(x, r, n), r) IN
         /\ z \in PState /\ z.slot = x.slot /\ z.opener = x.opener /\ z.next = x.next
         /\ \A q \in Routes : q # r => z.route[q] = x.route[q]
         /\ x.route[r].st # "none" => z.route[r] = Plain("Active", c, n)
         /\ \A i \in Starts : z.stream[i] = IF m # 0 /\ i = m THEN "dropped"
                                            ELSE IF i = n THEN "used" ELSE x.stream[i]
  <1>1. PICK s : s = x.route[r].st
    OBVIOUS
  <1>2. /\ c \in Codecs /\ s \in {"none", "Starting", "Active"} /\ n \in 0 .. MaxStarts
        /\ m # 0 => m \in Starts /\ x.stream[m] = "used" /\ m # n
    BY <1>1, PParts DEF PlayInv
  <1>3. x.route[r] = [st |-> s, codec |-> c, enc |-> NoKey, sub |-> 0,
                      start |-> x.route[r].start, recv |-> m]
    <2>1. x.route[r] = [st |-> x.route[r].st, codec |-> x.route[r].codec, enc |-> x.route[r].enc,
                        sub |-> x.route[r].sub, start |-> x.route[r].start,
                        recv |-> x.route[r].recv]
      BY DEF PState, Route
    <2> QED BY <1>1, <2>1 DEF PlayInv
  <1>4. PICK b : b = Plain(s, c, n)
    OBVIOUS
  <1>5. PICK d : d = Plain("Active", c, n)
    OBVIOUS
  <1>6. b \in Route /\ d \in Route /\ b.st = s
    BY <1>2, <1>4, <1>5, PipelineBounds DEF Plain, Route
  <1>7. PICK rs : rs = [x.route EXCEPT ![r] = b]
    OBVIOUS
  <1>8. PICK ss : ss = [x.stream EXCEPT ![n] = "used"]
    OBVIOUS
  <1>9. /\ rs \in [Routes -> Route] /\ rs[r] = b /\ \A q \in Routes : q # r => rs[q] = x.route[q]
        /\ ss \in [Starts -> Streams] /\ ss[n] = "used"
        /\ \A i \in Starts : i # n => ss[i] = x.stream[i]
    BY <1>6, <1>7, <1>8, PParts DEF Streams
  <1>10. PICK w : w = [x EXCEPT !.stream = ss, !.route = rs]
    OBVIOUS
  <1>11. /\ w \in PState /\ w.route = rs /\ w.stream = ss /\ w.slot = x.slot /\ w.next = x.next
         /\ w.opener = x.opener
    BY <1>9, <1>10 DEF PState
  <1>12. w = [x EXCEPT !.stream[n] = "used", !.route[r].start = 0, !.route[r].recv = n]
    <2>1. PICK v : v = [x EXCEPT !.stream = ss]
      OBVIOUS
    <2>2. v = [x EXCEPT !.stream[n] = "used"] /\ v.route = x.route
      BY <1>8, <2>1 DEF PState
    <2>3. PICK e : e = [x.route[r] EXCEPT !.start = 0]
      OBVIOUS
    <2>4. e = [st |-> s, codec |-> c, enc |-> NoKey, sub |-> 0, start |-> 0, recv |-> m]
      BY <1>3, <2>3
    <2>5. [e EXCEPT !.recv = n] = b
      BY <1>4, <2>4 DEF Plain
    <2>6. PICK ps : ps = [x.route EXCEPT ![r] = e]
      OBVIOUS
    <2>7. PICK u : u = [v EXCEPT !.route = ps]
      OBVIOUS
    <2>8. u = [v EXCEPT !.route[r].start = 0] /\ u.route = ps /\ ps[r] = e
      BY <2>1, <2>2, <2>3, <2>6, <2>7 DEF PState
    <2>9. [ps EXCEPT ![r] = b] = rs
      BY <1>7, <2>6, PParts
    <2>10. [u EXCEPT !.route[r].recv = n] = [u EXCEPT !.route = rs]
      BY <2>5, <2>8, <2>9
    <2>11. [u EXCEPT !.route = rs] = w
      BY <1>10, <2>1, <2>7 DEF PState
    <2> QED BY <2>2, <2>8, <2>10, <2>11
  <1>13. PICK y : y = Played(x, r, n)
    OBVIOUS
  <1>14. y = Drop(w, m)
    BY <1>12, <1>13 DEF Played
  <1>15. PICK ts : ts = IF m = 0 THEN ss ELSE [ss EXCEPT ![m] = "dropped"]
    OBVIOUS
  <1>16. /\ ts \in [Starts -> Streams]
         /\ \A i \in Starts : ts[i] = IF m # 0 /\ i = m THEN "dropped"
                                      ELSE IF i = n THEN "used" ELSE x.stream[i]
    BY <1>2, <1>9, <1>15 DEF Streams
  <1>17. /\ y \in PState /\ y.route = rs /\ y.stream = ts /\ y.slot = x.slot
         /\ y.next = x.next /\ y.opener = x.opener
    <2>1. CASE m = 0
      BY <1>11, <1>14, <1>15, <2>1 DEF Drop
    <2>2. CASE m # 0
      <3>1. w.stream[m] = "used"
        BY <1>2, <1>9, <1>11, <2>2
      <3>2. y = [w EXCEPT !.stream = ts]
        BY <1>11, <1>14, <1>15, <2>2, <3>1 DEF Drop
      <3> QED BY <1>11, <1>16, <3>2 DEF PState
    <2> QED BY <2>1, <2>2
  <1>18. PICK z : z = Activate(y, r)
    OBVIOUS
  <1>19. CASE s # "Starting"
    <2>1. z = y
      BY <1>6, <1>9, <1>17, <1>18, <1>19 DEF Activate
    <2>2. s # "none" => rs[r] = d
      BY <1>2, <1>4, <1>5, <1>9, <1>19
    <2> QED BY <1>1, <1>5, <1>9, <1>13, <1>16, <1>17, <1>18, <2>1, <2>2
  <1>20. CASE s = "Starting"
    <2>1. PICK qs : qs = [rs EXCEPT ![r] = d]
      OBVIOUS
    <2>2. [b EXCEPT !.st = "Active"] = d
      BY <1>4, <1>5 DEF Plain
    <2>3. z = [y EXCEPT !.route = qs]
      BY <1>6, <1>9, <1>17, <1>18, <1>20, <2>1, <2>2 DEF Activate
    <2>4. qs \in [Routes -> Route] /\ qs[r] = d /\ \A q \in Routes : q # r => qs[q] = x.route[q]
      BY <1>6, <1>9, <2>1
    <2>5. /\ z \in PState /\ z.route = qs /\ z.stream = ts /\ z.slot = x.slot
          /\ z.next = x.next /\ z.opener = x.opener
      BY <1>17, <2>3, <2>4 DEF PState
    <2> QED BY <1>5, <1>13, <1>16, <1>18, <2>4, <2>5
  <1> QED BY <1>19, <1>20

\* on_receiver_ready, when the device opened.
LEMMA PlayedSettles ==
  ASSUME NEW x, Settled(x), NEW r \in Receivers, NEW n \in Starts, x.stream[n] \in Unhandled,
         x.route[r].start = n
  PROVE  Settled(Activate(Played(x, r, n), r))
  <1>1. PICK m : m = x.route[r].recv
    OBVIOUS
  <1>2. PICK c : c = x.route[r].codec
    OBVIOUS
  <1>3. PICK z : z = Activate(Played(x, r, n), r)
    OBVIOUS
  <1>4. /\ x \in PState /\ Sane(x) /\ PlayInv(x, r) /\ r \in Routes /\ r \notin Senders
        /\ x.stream[n] # "used" /\ n # 0
    BY PParts, NamesApart DEF Settled, Sane, Routes, Unhandled
  <1>5. /\ z \in PState /\ z.slot = x.slot /\ z.opener = x.opener /\ z.next = x.next
        /\ \A q \in Routes : q # r => z.route[q] = x.route[q]
        /\ x.route[r].st # "none" => z.route[r] = Plain("Active", c, n)
        /\ \A i \in Starts : z.stream[i] = IF m # 0 /\ i = m THEN "dropped"
                                           ELSE IF i = n THEN "used" ELSE x.stream[i]
    BY <1>1, <1>2, <1>3, <1>4, PlayedIs
  <1>6. /\ n \in 1 .. x.next /\ x.opener[n] = r /\ x.route[r].st # "none"
        /\ m # 0 => m \in Starts /\ x.opener[m] = r /\ m <= x.next /\ x.stream[m] = "used"
    BY <1>1, <1>4, PParts DEF PlayInv
  <1>7. \A q \in Senders : z.route[q] = x.route[q]
    BY <1>4, <1>5 DEF Routes
  <1>8. \A i \in Starts : x.opener[i] # r => z.stream[i] = x.stream[i]
    BY <1>5, <1>6
  <1>9. \A i \in 1 .. x.next : i \in Starts
    BY <1>4, PParts
  <1>10. \A i \in Starts : i > z.next => z.stream[i] = "none"
    BY <1>4, <1>5, <1>6, PParts DEF Sane
  <1>11. ASSUME NEW k \in Keys
         PROVE  GroupInv(z, k)
    <2>1. GroupInv(x, k) /\ k # r
      BY <1>4, NamesApart DEF Sane
    <2> QED BY <1>5, <1>8, <1>9, <2>1 DEF GroupInv
  <1>12. ASSUME NEW q \in Receivers
         PROVE  PlayInv(z, q)
    <2>1. CASE q = r
      <3>1. m # 0 => m # n
        BY <1>4, <1>6
      <3>2. z.stream[n] = "used"
        BY <1>5, <3>1
      <3> QED BY <1>5, <1>6, <2>1, <3>2 DEF PlayInv, Plain
    <2>2. CASE q # r
      <3>1. PlayInv(x, q) /\ z.route[q] = x.route[q]
        BY <1>4, <1>5, <2>2 DEF Sane, Routes
      <3> QED BY <1>5, <1>8, <1>9, <2>2, <3>1 DEF PlayInv
    <2> QED BY <2>1, <2>2
  <1>13. \A q \in Senders : SendInv(z, q)
    BY <1>4, <1>5, <1>7 DEF Sane, SendInv
  <1>14. Sane(z)
    BY <1>5, <1>10, <1>11, <1>12, <1>13 DEF Sane
  <1>15. Held(z)
    <2> SUFFICES ASSUME NEW i \in Starts, z.stream[i] = "used"
                 PROVE  (\E k \in Keys : z.slot[k].st = "Running" /\ z.slot[k].id = i) \/ Plays(z, i)
      BY DEF Held
    <2>1. CASE i = n
      BY <1>5, <1>6, <2>1 DEF Plays, Plain
    <2>2. CASE i # n
      <3>1. x.stream[i] = "used" /\ ~ (m # 0 /\ i = m) /\ i # 0
        BY <1>4, <1>5, <2>2, PParts
      <3>2. Plays(x, i) => Plays(z, i)
        <4> SUFFICES ASSUME NEW q \in Receivers, x.route[q].recv = i PROVE z.route[q].recv = i
          BY DEF Plays
        <4>1. q # r
          BY <1>1, <3>1
        <4> QED BY <1>5, <4>1 DEF Routes
      <3> QED BY <1>5, <3>1, <3>2 DEF Settled, Wanted, Held
    <2> QED BY <2>1, <2>2
  <1>16. Wanted(z)
    BY <1>5, <1>7, <1>15 DEF Settled, Wanted, Listeners
  <1>17. \A q \in Senders : FedAt(z, q)
    BY <1>5, <1>7 DEF Settled, FedAt, KeyOf
  <1> QED BY <1>3, <1>14, <1>16, <1>17 DEF Settled

\* A route no longer waits for its device.
Unwaited(x, r) == [x EXCEPT !.route = [@ EXCEPT ![r].start = 0]]

LEMMA UnwaitedSettles ==
  ASSUME NEW x, Settled(x), NEW r \in Receivers, NEW z, z = Unwaited(x, r)
  PROVE  /\ Settled(z) /\ z.route[r].start = 0 /\ z.route[r].codec = x.route[r].codec
         /\ z.route[r].recv = x.route[r].recv
         /\ \A q \in Routes : q # r => z.route[q] = x.route[q]
         /\ z.slot = x.slot /\ z.stream = x.stream /\ z.opener = x.opener
         /\ z.next = x.next
  <1>0. PICK rs : rs = [x.route EXCEPT ![r].start = 0]
    OBVIOUS
  <1>1. x \in PState /\ r \in Routes /\ r \notin Senders /\ PlayInv(x, r) /\ x.route[r] \in Route
    BY PParts, NamesApart DEF Settled, Sane, Routes
  <1>2. PICK a : a = [x.route[r] EXCEPT !.start = 0]
    OBVIOUS
  <1>3. /\ a \in Route /\ a.st = x.route[r].st /\ a.codec = x.route[r].codec
        /\ a.enc = x.route[r].enc /\ a.sub = x.route[r].sub /\ a.start = 0
        /\ a.recv = x.route[r].recv
    BY <1>1, <1>2, PipelineBounds DEF Route
  <1>4. rs \in [Routes -> Route] /\ rs[r] = a /\ \A q \in Routes : q # r => rs[q] = x.route[q]
    BY <1>0, <1>1, <1>2, <1>3, PParts
  <1>5. /\ z \in PState /\ z.route = rs /\ z.slot = x.slot /\ z.stream = x.stream
        /\ z.opener = x.opener /\ z.next = x.next
    <2>1. z = [x EXCEPT !.route = rs]
      BY <1>0 DEF Unwaited
    <2> QED BY <1>1, <1>4, <2>1 DEF PState
  <1>6. \A q \in Senders : z.route[q] = x.route[q]
    BY <1>1, <1>4, <1>5 DEF Routes
  <1>7. \A k \in Keys : GroupInv(z, k)
    BY <1>5 DEF Settled, Sane, GroupInv
  <1>8. ASSUME NEW q \in Receivers
        PROVE  PlayInv(z, q)
    <2>1. PlayInv(x, q)
      BY DEF Settled, Sane
    <2>2. q = r => PlayInv(z, q)
      BY <1>3, <1>4, <1>5, <2>1 DEF PlayInv
    <2>3. q # r => PlayInv(z, q)
      BY <1>4, <1>5, <2>1 DEF PlayInv, Routes
    <2> QED BY <2>2, <2>3
  <1>9. \A q \in Senders : SendInv(z, q)
    BY <1>5, <1>6 DEF Settled, Sane, SendInv
  <1>10. Sane(z)
    BY <1>5, <1>7, <1>8, <1>9 DEF Settled, Sane
  <1>11. \A q \in Receivers : z.route[q].recv = x.route[q].recv
    BY <1>3, <1>4, <1>5 DEF Routes
  <1>12. Wanted(z)
    BY <1>5, <1>6, <1>11 DEF Settled, Wanted, Held, Plays, Listeners
  <1>13. \A q \in Senders : FedAt(z, q)
    BY <1>5, <1>6 DEF Settled, FedAt, KeyOf
  <1> QED BY <1>3, <1>4, <1>5, <1>10, <1>12, <1>13 DEF Settled

\* A state with other routes.
LEMMA WithRoute ==
  ASSUME NEW x \in PState, NEW rs
  PROVE  [x EXCEPT !.route = rs] = [route |-> rs, slot |-> x.slot, stream |-> x.stream,
                                    opener |-> x.opener, next |-> x.next]
  BY DEF PState

\* on_receiver_ready, when the device did not open.
LEMMA UnplayedSettles ==
  ASSUME NEW x, Settled(x), NEW r \in Receivers, NEW n \in Starts, x.stream[n] \in Unhandled,
         x.route[r].start = n, NEW y, y = [x EXCEPT !.stream[n] = "dropped"]
  PROVE  Settled(StopRoute(y, r))
  <1>1. x \in PState /\ r \in Routes /\ PlayInv(x, r) /\ x.route[r] \in Route /\ n # 0
    BY PParts DEF Settled, Sane, Routes
  <1>3. PICK u : u = Unwaited(x, r)
    OBVIOUS
  <1>4. /\ Settled(u) /\ u.route[r].start = 0 /\ u.route[r].codec = x.route[r].codec
        /\ u.route[r].recv = x.route[r].recv
        /\ \A q \in Routes : q # r => u.route[q] = x.route[q]
        /\ u.slot = x.slot /\ u.stream = x.stream /\ u.opener = x.opener
        /\ u.next = x.next
    BY <1>3, UnwaitedSettles
  <1>5. PICK z : z = Reported(u, n, "dropped")
    OBVIOUS
  <1>6. x.opener[n] = r
    BY <1>1 DEF PlayInv
  <1>7. \A k \in Keys : u.slot[k].st = "Starting" => u.slot[k].id # n
    <2> TAKE k \in Keys
    <2>1. GroupInv(x, k) /\ r # k
      BY NamesApart DEF Settled, Sane
    <2> QED BY <1>4, <1>6, <2>1 DEF GroupInv
  <1>8. \A q \in Receivers : u.route[q].start # n
    <2> TAKE q \in Receivers
    <2>1. PlayInv(u, q)
      BY <1>4 DEF Settled, Sane
    <2>2. CASE q = r
      BY <1>1, <1>4, <2>2
    <2>3. CASE q # r
      BY <1>1, <1>4, <1>6, <2>1, <2>3 DEF PlayInv
    <2> QED BY <2>2, <2>3
  <1>9. /\ Settled(z) /\ z.route = u.route /\ z.slot = u.slot /\ z.opener = u.opener
        /\ z.next = u.next /\ z.stream = [u.stream EXCEPT ![n] = "dropped"]
    <2>1. u.stream[n] \in Unhandled /\ Unawaited(u, n)
      BY <1>4, <1>7, <1>8 DEF Unawaited
    <2>2. PICK v : v = "dropped"
      OBVIOUS
    <2>3. z = Reported(u, n, v) /\ (v \in Unhandled \/ (v = "dropped" /\ Unawaited(u, n)))
      BY <1>5, <2>1, <2>2
    <2>4. /\ Settled(z) /\ z.route = u.route /\ z.slot = u.slot /\ z.opener = u.opener
          /\ z.next = u.next /\ z.stream = [u.stream EXCEPT ![n] = v]
      BY <1>4, <2>1, <2>3, StreamSettles
    <2> QED BY <2>2, <2>4
  <1>10. PICK ss : ss = [x.stream EXCEPT ![n] = "dropped"]
    OBVIOUS
  <1>11. ss \in [Starts -> Streams] /\ y = [x EXCEPT !.stream = ss]
    BY <1>1, <1>10, PParts DEF Streams
  <1>12. /\ y \in PState /\ y.route = x.route /\ y.slot = x.slot /\ y.opener = x.opener
         /\ y.next = x.next /\ y.stream = ss
    BY <1>1, <1>11 DEF PState
  <1>13. z \in PState /\ z.stream = ss
    BY <1>4, <1>9, <1>10 DEF Settled, Sane
  <1>14. PICK b : b = Bare("none", x.route[r].codec)
    OBVIOUS
  <1>15. [y EXCEPT !.route[r] = b] = [z EXCEPT !.route[r] = b]
    <2>1. PICK qs : qs = [x.route EXCEPT ![r] = b]
      OBVIOUS
    <2>2. x.route \in [Routes -> Route] /\ z.route \in [Routes -> Route]
      BY <1>1, <1>13, PParts
    <2>3. qs = [z.route EXCEPT ![r] = b]
      <3>1. PICK ps : ps = [z.route EXCEPT ![r] = b]
        OBVIOUS
      <3>2. \A q \in Routes : ps[q] = qs[q]
        BY <1>1, <1>4, <1>9, <2>1, <2>2, <3>1
      <3> QED BY <2>1, <2>2, <3>1, <3>2
    <2>4. PICK d : d = [route |-> qs, slot |-> x.slot, stream |-> ss, opener |-> x.opener,
                        next |-> x.next]
      OBVIOUS
    <2>5. [y EXCEPT !.route = qs] = d
      <3>1. [y EXCEPT !.route = qs] = [route |-> qs, slot |-> y.slot, stream |-> y.stream,
                                       opener |-> y.opener, next |-> y.next]
        BY <1>12, WithRoute
      <3> QED BY <1>12, <2>4, <3>1
    <2>6. [z EXCEPT !.route = qs] = d
      BY <1>4, <1>9, <1>13, <2>4 DEF PState
    <2> QED BY <1>12, <2>1, <2>3, <2>5, <2>6
  <1>16. StopRoute(y, r) = StopRoute(z, r)
    <2>1. StopRoute(y, r) = Prune(Drop([y EXCEPT !.route[r] = b], x.route[r].recv))
      BY <1>1, <1>12, <1>14, StopForm
    <2>2. StopRoute(z, r) = Prune(Drop([z EXCEPT !.route[r] = b], x.route[r].recv))
      BY <1>1, <1>4, <1>9, <1>13, <1>14, StopForm
    <2> QED BY <1>15, <2>1, <2>2
  <1> QED BY <1>1, <1>9, <1>16, StopSettles

----------------------------------------------------------------------------
(* Devices that fail, and a new default device.                            *)

LEMMA LeftSettles ==
  ASSUME NEW x, Left(x, {})
  PROVE  Settled(x)
  BY DEF Left, Settled

\* on_encoder_failed
LEMMA EncoderLeft ==
  ASSUME NEW x, Settled(x), NEW k \in Keys, x.next < MaxStarts,
         NEW rs, rs = {r \in Senders : x.route[r].enc = k}
  PROVE  LET y == CloseEncoder(x, k) IN
         rs \in SUBSET Routes /\ Left(y, rs) /\ Room(y, rs, Cardinality(rs))
  <1>1. PICK y : y = CloseEncoder(x, k)
    OBVIOUS
  <1>2. PICK ks : ks = IF k = NoKey \/ x.slot[k].st # "Running" THEN {} ELSE {k}
    OBVIOUS
  <1>3. x \in PState /\ Sane(x) /\ Held(x)
    BY DEF Settled, Sane, Wanted
  <1>4. Sane(y) /\ Held(y) /\ Without(x, y, ks) /\ y.slot[k].st # "Running"
    BY <1>1, <1>2, <1>3, CloseIs, NamesApart
  <1>5. /\ y.route = x.route /\ y.next = x.next
        /\ \A j \in Keys : j # k => y.slot[j] = x.slot[j]
    BY <1>2, <1>4 DEF Without
  <1>6. Wanted(y)
    <2> SUFFICES ASSUME NEW j \in Keys, y.slot[j].st = "Running" PROVE Listeners(y, j) # {}
      BY <1>4 DEF Wanted
    <2>1. j # k /\ y.slot[j] = x.slot[j]
      BY <1>4, <1>5
    <2> QED BY <1>5, <2>1 DEF Settled, Wanted, Listeners
  <1>7. ASSUME NEW r \in rs
        PROVE  /\ r \in Senders /\ y.route[r].enc = k /\ y.route[r].st # "none"
               /\ y.route[r].enc = KeyOf(y, r)
    <2>1. r \in Senders /\ x.route[r].enc = k /\ SendInv(x, r) /\ FedAt(x, r)
      BY <1>3 DEF Settled, Sane
    <2>2. x.route[r].st # "none"
      BY <2>1, NamesApart DEF SendInv
    <2> QED BY <1>5, <2>1, <2>2 DEF FedAt, KeyOf
  <1>8. ASSUME NEW q \in Senders \ rs
        PROVE  FedAt(y, q)
    <2>1. x.route[q].enc # k /\ y.route[q] = x.route[q] /\ FedAt(x, q) /\ x.route[q].codec \in Codecs
      BY <1>3, <1>5, PParts DEF Settled, Routes
    <2>2. \A j \in Keys : x.route[q].enc = j => y.slot[j] = x.slot[j]
      BY <1>5, <2>1
    <2> QED BY <2>1, <2>2, FedFrame
  <1>9. \A r \in rs, q \in Senders \ rs : Aside(y, q, r)
    BY <1>4, <1>7 DEF Aside
  <1>10. Left(y, rs)
    BY <1>4, <1>6, <1>7, <1>8, <1>9 DEF Left
  <1>11. Room(y, rs, Cardinality(rs))
    BY <1>5, <1>7 DEF Room
  <1>12. rs \in SUBSET Routes
    BY DEF Routes
  <1> QED BY <1>1, <1>10, <1>11, <1>12

\* Internal::AudioFailed
LEMMA AudioLeft ==
  ASSUME NEW x, Settled(x), NEW r \in Receivers, x.next < MaxStarts,
         NEW rs, rs = IF x.route[r].st = "none" THEN {} ELSE {r}
  PROVE  rs \in SUBSET Routes /\ Left(x, rs) /\ Room(x, rs, Cardinality(rs))
  <1>1. rs \in SUBSET Routes /\ rs \cap Senders = {} /\ \A q \in rs : x.route[q].st # "none"
    BY NamesApart DEF Routes
  <1>2. Left(x, rs)
    BY <1>1 DEF Left, Settled, Aside
  <1>3. Cardinality(rs) = 0 \/ Cardinality(rs) = 1
    BY FS_EmptySet, FS_Singleton
  <1>4. x.next \in Nat /\ MaxStarts \in Nat
    BY PParts DEF Settled, Sane
  <1>5. Room(x, rs, Cardinality(rs))
    BY <1>3, <1>4 DEF Room
  <1> QED BY <1>1, <1>2, <1>5

\* on_audio_devices_changed
LEMMA DefaultLeft ==
  ASSUME NEW x, Settled(x), NEW rs, rs = {r \in Routes \ Pinned : x.route[r].st = "Active"},
         x.next + Cardinality(rs) <= MaxStarts
  PROVE  rs \in SUBSET Routes /\ Left(x, rs) /\ Room(x, rs, Cardinality(rs))
  <1>1. rs \in SUBSET Routes /\ \A r \in rs : x.route[r].st # "none"
    OBVIOUS
  <1>2. \A r \in rs : r \in Senders => x.route[r].enc = KeyOf(x, r)
    BY <1>1 DEF Settled, FedAt
  <1>3. ASSUME NEW r \in rs, NEW q \in Senders \ rs
        PROVE  Aside(x, q, r)
    <2> SUFFICES ASSUME r \in Senders, x.route[q].st # "none", x.route[q].enc = x.route[r].enc,
                        x.slot[x.route[r].enc].st = "Running"
                 PROVE  FALSE
      BY DEF Aside
    <2>1. PICK k : k = x.route[r].enc
      OBVIOUS
    <2>2. k = KeyOf(x, r) /\ FedAt(x, q)
      BY <1>2, <2>1 DEF Settled
    <2>3. x.route[r].codec \in Codecs
      BY <1>1, PParts DEF Settled, Sane
    <2>4. k \in Keys /\ GroupInv(x, k) /\ SendInv(x, q)
      BY <2>2, <2>3, KeyIs DEF Settled, Sane
    <2>5. KeyOf(x, q) = k
      BY <2>1, <2>2 DEF FedAt
    <2>6. x.route[q].sub = x.slot[k].id
      BY <2>1, <2>2, <2>5 DEF FedAt
    <2>7. x.route[q].sub # 0
      BY <2>1, <2>4, <2>6 DEF GroupInv
    <2>8. x.route[q].st = "Active"
      BY <2>4, <2>7 DEF SendInv
    <2>9. q \notin Pinned
      BY <2>2, <2>5 DEF KeyOf
    <2> QED BY <2>8, <2>9 DEF Routes
  <1>4. Left(x, rs)
    BY <1>1, <1>2, <1>3 DEF Left, Settled
  <1> QED BY <1>1, <1>4 DEF Room

----------------------------------------------------------------------------
(* The steps.                                                              *)

LEMMA NowHas ==
  /\ Now.route = route /\ Now.slot = slot /\ Now.stream = stream /\ Now.opener = opener
  /\ Now.next = next
  BY DEF Now

LEMMA SettledAfter ==
  ASSUME NEW x, Settled(x), Becomes(x)
  PROVE  Settled(Now)'
  <1>1. x = [route |-> x.route, slot |-> x.slot, stream |-> x.stream, opener |-> x.opener,
             next |-> x.next]
    BY DEF Settled, Sane, PState
  <1>2. Now' = x
    BY <1>1 DEF Now, Becomes
  <1>3. Settled(x)'
    OBVIOUS
  <1> QED BY <1>2, <1>3

\* What is left of the invariant.
PBounds ==
  /\ failing \subseteq failed /\ failed \subseteq Starts
  /\ reopened \subseteq Routes /\ failures \in Nat

LEMMA PInvAfter ==
  ASSUME NEW x, Settled(x), Becomes(x), PBounds'
  PROVE  PInv'
  BY SettledAfter DEF PInv, PBounds

\* accept_route and on_route_accept
LEMMA BeginInv ==
  ASSUME PInv, NEW r \in Routes, NEW c \in Codecs, Start(r, c)
  PROVE  PInv'
  <1>1. PICK y : y = [Now EXCEPT !.route[r].st = "Starting", !.route[r].codec = c]
    OBVIOUS
  <1>2. Becomes(Begin(y, r)) /\ Now.route[r].st = "none" /\ UNCHANGED <<failing, failed, reopened, failures>>
    BY <1>1, NowHas DEF Start
  <1>3. Now.next < MaxStarts
    <2>1. Now \in PState
      BY DEF PInv, Settled, Sane
    <2>2. Now.next \in Nat /\ MaxStarts \in Nat
      BY <2>1, PParts
    <2> QED BY <2>2, NowHas DEF Start, CanOpen
  <1>4. Settled(Begin(y, r))
    BY <1>1, <1>2, <1>3, StartSettles DEF PInv
  <1>5. PBounds'
    BY <1>2 DEF PInv, PBounds
  <1> QED BY <1>2, <1>4, <1>5, PInvAfter

\* stop_route_by_key
LEMMA StopInv ==
  ASSUME PInv, NEW r \in Routes, Stop(r)
  PROVE  PInv'
  <1>1. Becomes(StopRoute(Now, r)) /\ UNCHANGED <<failing, failed, reopened, failures>>
    BY DEF Stop
  <1>2. Settled(StopRoute(Now, r))
    BY StopSettles DEF PInv
  <1>3. PBounds'
    BY <1>1 DEF PInv, PBounds
  <1> QED BY <1>1, <1>2, <1>3, PInvAfter

\* apply_profile
LEMMA ProfileInv ==
  ASSUME PInv, NEW r \in Routes, NEW c \in Codecs, ApplyProfile(r, c)
  PROVE  PInv'
  <1>1. PICK y : y = Release([Now EXCEPT !.route[r].codec = c], r)
    OBVIOUS
  <1>2. /\ Now.route[r].st = "Active" /\ UNCHANGED <<failing, failed, reopened>>
        /\ \/ CanOpen(1) /\ Becomes(Begin(y, r)) /\ UNCHANGED failures
           \/ /\ failures' = failures + 1
              /\ Becomes(StopRoute(y, r))
    BY <1>1, NowHas DEF ApplyProfile
  <1>3. CanOpen(1) => Now.next < MaxStarts
    <2>1. Now \in PState
      BY DEF PInv, Settled, Sane
    <2>2. Now.next \in Nat /\ MaxStarts \in Nat
      BY <2>1, PParts
    <2> QED BY <2>2, NowHas DEF CanOpen
  <1>4. /\ Now.next < MaxStarts => Settled(Begin(y, r))
        /\ Settled(StopRoute(y, r))
    BY <1>1, <1>2, ProfileSettles DEF PInv
  <1>5. PBounds'
    BY <1>2 DEF PInv, PBounds
  <1> QED BY <1>2, <1>3, <1>4, <1>5, PInvAfter

\* The result of a start arrives.
LEMMA ResultInv ==
  ASSUME PInv, NEW n \in Starts, Opened(n) \/ Refused(n)
  PROVE  PInv'
  <1>1. PICK v \in {"opened", "refused"} :
          /\ stream[n] = "opening" /\ stream' = [stream EXCEPT ![n] = v]
          /\ UNCHANGED <<route, slot, opener, next, failing, failed, reopened>>
          /\ failures' = failures \/ failures' = failures + 1
    BY DEF Opened, Refused
  <1>2. PICK z : z = Reported(Now, n, v)
    OBVIOUS
  <1>3. Now.stream[n] \in Unhandled /\ (v \in Unhandled \/ (v = "dropped" /\ Unawaited(Now, n)))
    BY <1>1, NowHas DEF Unhandled
  <1>4. /\ Settled(z) /\ z.route = Now.route /\ z.slot = Now.slot /\ z.opener = Now.opener
        /\ z.next = Now.next /\ z.stream = [Now.stream EXCEPT ![n] = v]
    BY <1>2, <1>3, StreamSettles DEF PInv
  <1>5. Becomes(z)
    BY <1>1, <1>4, NowHas DEF Becomes
  <1>6. PBounds'
    BY <1>1 DEF PInv, PBounds
  <1> QED BY <1>4, <1>5, <1>6, PInvAfter

\* A device fails, or its routes may be reopened again.
LEMMA AsideInv ==
  ASSUME PInv, UNCHANGED <<route, slot, stream, opener, next>>, PBounds'
  PROVE  PInv'
  <1>1. Becomes(Now)
    BY NowHas DEF Becomes
  <1> QED BY <1>1, PInvAfter DEF PInv

LEMMA FailsInv ==
  ASSUME PInv, NEW n \in Starts, DeviceFails(n)
  PROVE  PInv'
  <1>1. PBounds'
    BY DEF PInv, PBounds, DeviceFails
  <1> QED BY <1>1, AsideInv DEF DeviceFails

LEMMA BackoffInv ==
  ASSUME PInv, NEW r \in Routes, BackoffPasses(r)
  PROVE  PInv'
  <1>1. PBounds'
    BY DEF PInv, PBounds, BackoffPasses
  <1> QED BY <1>1, AsideInv DEF BackoffPasses

\* on_sender_ready
LEMMA SenderReadyInv ==
  ASSUME PInv, NEW n \in Starts, OnSenderReady(n)
  PROVE  PInv'
  <1>1. PICK k : k = opener[n]
    OBVIOUS
  <1>2. k \in Keys /\ Now.stream[n] \in Unhandled /\ UNCHANGED <<failing, failed, reopened, failures>>
    BY <1>1, NowHas DEF OnSenderReady, Unhandled
  <1>3. PBounds'
    BY <1>2 DEF PInv, PBounds
  <1>4. Settled(Now) /\ Sane(Now)
    BY DEF PInv, Settled
  <1>5. CASE ~ Current(k, n)
    <2>1. PICK v : v = "dropped"
      OBVIOUS
    <2>2. PICK z : z = Reported(Now, n, v)
      OBVIOUS
    <2>3. Becomes(z)
      BY <1>1, <1>5, <2>1, <2>2 DEF OnSenderReady, Reported
    <2>4. Unawaited(Now, n)
      <3>1. \A j \in Keys : Now.slot[j].st = "Starting" => Now.slot[j].id # n
        <4> TAKE j \in Keys
        <4>1. GroupInv(Now, j)
          BY <1>4 DEF Sane
        <4> QED BY <1>1, <1>5, <4>1, NowHas DEF GroupInv, Current
      <3>2. \A r \in Receivers : Now.route[r].start # n
        <4> TAKE r \in Receivers
        <4>1. PlayInv(Now, r) /\ r # k
          BY <1>2, <1>4, NamesApart DEF Sane
        <4>2. n # 0
          BY <1>4, PParts DEF Sane
        <4> QED BY <1>1, <4>1, <4>2, NowHas DEF PlayInv
      <3> QED BY <3>1, <3>2 DEF Unawaited
    <2>5. Settled(z)
      BY <1>2, <1>4, <2>1, <2>2, <2>4, StreamSettles
    <2> QED BY <1>3, <2>3, <2>5, PInvAfter
  <1>6. CASE Current(k, n)
    <2>1. Now.slot[k].st = "Starting" /\ Now.slot[k].id = n
      BY <1>6, NowHas DEF Current
    <2>2. CASE stream[n] = "opened"
      <3>1. PICK ws : ws = {r \in Now.slot[k].waiting : Now.route[r].enc = k /\ Now.route[r].sub = 0}
        OBVIOUS
      <3>2. ws = {r \in slot[k].waiting : route[r].enc = k /\ route[r].sub = 0}
        BY <3>1, NowHas
      <3>3. Becomes(Prune(Ran(Now, k, n, ws)))
        BY <1>1, <1>6, <2>2, <3>2 DEF OnSenderReady, Ran
      <3>4. Settled(Prune(Ran(Now, k, n, ws)))
        BY <1>2, <1>4, <2>1, <3>1, RanSettles
      <3> QED BY <1>3, <3>3, <3>4, PInvAfter
    <2>3. CASE stream[n] # "opened"
      <3>1. PICK ws : ws = {r \in Now.slot[k].waiting : Now.route[r].enc = k}
        OBVIOUS
      <3>2. ws = {r \in slot[k].waiting : route[r].enc = k}
        BY <3>1, NowHas
      <3>3. Becomes(GivenUp(Now, k, n, ws))
        BY <1>1, <1>6, <2>3, <3>2 DEF OnSenderReady, GivenUp
      <3>4. Settled(GivenUp(Now, k, n, ws))
        BY <1>2, <1>4, <2>1, <3>1, GivenUpSettles
      <3> QED BY <1>3, <3>3, <3>4, PInvAfter
    <2> QED BY <2>2, <2>3
  <1> QED BY <1>5, <1>6

\* on_receiver_ready
LEMMA ReceiverReadyInv ==
  ASSUME PInv, NEW n \in Starts, OnReceiverReady(n)
  PROVE  PInv'
  <1>1. PICK r : r = opener[n]
    OBVIOUS
  <1>2. r \in Receivers /\ Now.stream[n] \in Unhandled
        /\ UNCHANGED <<failing, failed, reopened, failures>>
    BY <1>1, NowHas DEF OnReceiverReady, Unhandled
  <1>3. PBounds'
    BY <1>2 DEF PInv, PBounds
  <1>4. Settled(Now) /\ Sane(Now)
    BY DEF PInv, Settled
  <1>5. PICK y : y = [Now EXCEPT !.stream[n] = "dropped"]
    OBVIOUS
  <1>6. CASE ~ Awaits(r, n)
    <2>1. PICK v : v = "dropped"
      OBVIOUS
    <2>2. PICK z : z = Reported(Now, n, v)
      OBVIOUS
    <2>3. Becomes(z)
      BY <1>1, <1>6, <2>1, <2>2 DEF OnReceiverReady, Reported
    <2>4. Unawaited(Now, n)
      <3>1. \A j \in Keys : Now.slot[j].st = "Starting" => Now.slot[j].id # n
        <4> TAKE j \in Keys
        <4>1. GroupInv(Now, j) /\ r # j
          BY <1>2, <1>4, NamesApart DEF Sane
        <4> QED BY <1>1, <4>1, NowHas DEF GroupInv
      <3>2. \A q \in Receivers : Now.route[q].start # n
        <4> TAKE q \in Receivers
        <4>1. PlayInv(Now, q)
          BY <1>4 DEF Sane
        <4>2. n # 0
          BY <1>4, PParts DEF Sane
        <4> QED BY <1>1, <1>6, <4>1, <4>2, NowHas DEF PlayInv, Awaits
      <3> QED BY <3>1, <3>2 DEF Unawaited
    <2>5. Settled(z)
      BY <1>2, <1>4, <2>1, <2>2, <2>4, StreamSettles
    <2> QED BY <1>3, <2>3, <2>5, PInvAfter
  <1>7. CASE Awaits(r, n)
    <2>1. Now.route[r].start = n
      BY <1>7, NowHas DEF Awaits
    <2>2. CASE stream[n] = "opened"
      <3>1. Becomes(Activate(Played(Now, r, n), r))
        BY <1>1, <1>7, <2>2, NowHas DEF OnReceiverReady, Played
      <3>2. Settled(Activate(Played(Now, r, n), r))
        BY <1>2, <1>4, <2>1, PlayedSettles
      <3> QED BY <1>3, <3>1, <3>2, PInvAfter
    <2>3. CASE stream[n] # "opened"
      <3>1. Becomes(StopRoute(y, r))
        BY <1>1, <1>5, <1>7, <2>3 DEF OnReceiverReady
      <3>2. Settled(StopRoute(y, r))
        BY <1>2, <1>4, <1>5, <2>1, UnplayedSettles
      <3> QED BY <1>3, <3>1, <3>2, PInvAfter
    <2> QED BY <2>2, <2>3
  <1> QED BY <1>6, <1>7

\* There are finitely many routes to reopen.
LEMMA FewRoutes ==
  ASSUME NEW rs \in SUBSET Routes
  PROVE  Cardinality(rs) \in Nat
  BY RoutesApart, FS_Subset, FS_CardinalityType

LEMMA RecoverInv ==
  ASSUME PInv, NEW x, NEW rs \in SUBSET Routes, Left(x, rs), Room(x, rs, Cardinality(rs)),
         Recover(x, rs), failing' \subseteq failed', UNCHANGED failed
  PROVE  PInv'
  <1>1. PICK try : try = {r \in rs : Reopens(r)}
    OBVIOUS
  <1>2. PICK bad \in SUBSET try : /\ failures' = failures + Cardinality(bad)
                                  /\ \E list \in Lists(rs) : Becomes(ReopenAll(x, list, try \ bad, bad))
    BY <1>1 DEF Recover
  <1>3. PICK list \in Lists(rs) : Becomes(ReopenAll(x, list, try \ bad, bad))
    BY <1>2
  <1>4. PICK good : good = try \ bad
    OBVIOUS
  <1>5. PICK z : z = ReopenAll(x, list, good, bad)
    OBVIOUS
  <1>6. Settled(z)
    <2>1. good \cap bad = {}
      BY <1>4
    <2> QED BY <1>5, <2>1, NoneLeft, LeftSettles
  <1>7. PBounds'
    <2>1. Cardinality(bad) \in Nat
      BY <1>1, FewRoutes
    <2>2. reopened' = reopened \cup try
      BY <1>1 DEF Recover
    <2> QED BY <1>1, <1>2, <2>1, <2>2 DEF PInv, PBounds
  <1> QED BY <1>3, <1>4, <1>5, <1>6, <1>7, PInvAfter

LEMMA NextIs ==
  ASSUME PInv
  PROVE  Settled(Now) /\ next \in Nat /\ MaxStarts \in Nat /\ Now.next = next
  <1>1. Now \in PState /\ Settled(Now)
    BY DEF PInv, Settled, Sane
  <1> QED BY <1>1, PParts, NowHas

\* on_encoder_failed
LEMMA EncoderFailedInv ==
  ASSUME PInv, NEW n \in Starts, OnEncoderFailed(n)
  PROVE  PInv'
  <1>1. PICK k : k = opener[n]
    OBVIOUS
  <1>2. PICK rs : rs = {r \in Senders : Now.route[r].enc = k}
    OBVIOUS
  <1>3. /\ k \in Keys /\ CanOpen(1) /\ failing' = failing \ {n} /\ UNCHANGED failed
        /\ Recover(CloseEncoder(Now, k), rs)
    BY <1>1, <1>2, NowHas DEF OnEncoderFailed
  <1>4. Now.next < MaxStarts
    BY <1>3, NextIs DEF CanOpen
  <1>5. PICK y : y = CloseEncoder(Now, k)
    OBVIOUS
  <1>6. rs \in SUBSET Routes /\ Left(y, rs) /\ Room(y, rs, Cardinality(rs))
    BY <1>2, <1>3, <1>4, <1>5, NextIs, EncoderLeft
  <1>7. failing' \subseteq failed'
    BY <1>3 DEF PInv
  <1> QED BY <1>3, <1>5, <1>6, <1>7, RecoverInv

\* Internal::AudioFailed
LEMMA AudioFailedInv ==
  ASSUME PInv, NEW n \in Starts, OnAudioFailed(n)
  PROVE  PInv'
  <1>1. PICK r : r = opener[n]
    OBVIOUS
  <1>2. PICK rs : rs = IF Now.route[r].st = "none" THEN {} ELSE {r}
    OBVIOUS
  <1>3. /\ r \in Receivers /\ CanOpen(1) /\ failing' = failing \ {n} /\ UNCHANGED failed
        /\ Recover(Now, rs)
    BY <1>1, <1>2, NowHas DEF OnAudioFailed
  <1>4. Now.next < MaxStarts
    BY <1>3, NextIs DEF CanOpen
  <1>5. rs \in SUBSET Routes /\ Left(Now, rs) /\ Room(Now, rs, Cardinality(rs))
    BY <1>2, <1>3, <1>4, NextIs, AudioLeft
  <1>6. failing' \subseteq failed'
    BY <1>3 DEF PInv
  <1> QED BY <1>3, <1>5, <1>6, RecoverInv

\* on_audio_devices_changed
LEMMA DefaultInv ==
  ASSUME PInv, DefaultChanged
  PROVE  PInv'
  <1>1. PICK rs : rs = {r \in Routes \ Pinned : Now.route[r].st = "Active"}
    OBVIOUS
  <1>2. /\ CanOpen(Cardinality(rs)) /\ UNCHANGED <<failing, failed, reopened>>
        /\ \E bad \in SUBSET rs :
             /\ failures' = failures + 1 + Cardinality(bad)
             /\ \E list \in Lists(rs) : Becomes(ReopenAll(Now, list, rs \ bad, bad))
    BY <1>1, NowHas DEF DefaultChanged
  <1>3. PICK bad \in SUBSET rs :
             /\ failures' = failures + 1 + Cardinality(bad)
             /\ \E list \in Lists(rs) : Becomes(ReopenAll(Now, list, rs \ bad, bad))
    BY <1>2
  <1>4. PICK list \in Lists(rs) : Becomes(ReopenAll(Now, list, rs \ bad, bad))
    BY <1>3
  <1>5. PICK good : good = rs \ bad
    OBVIOUS
  <1>6. PICK z : z = ReopenAll(Now, list, good, bad)
    OBVIOUS
  <1>7. rs \in SUBSET Routes /\ Left(Now, rs) /\ Room(Now, rs, Cardinality(rs))
    <2>1. Now.next + Cardinality(rs) <= MaxStarts
      BY <1>2, NextIs DEF CanOpen
    <2> QED BY <1>1, <2>1, NextIs, DefaultLeft
  <1>8. Settled(z)
    <2>1. good \cap bad = {}
      BY <1>5
    <2> QED BY <1>6, <1>7, <2>1, NoneLeft, LeftSettles
  <1>9. PBounds'
    <2>1. Cardinality(bad) \in Nat
      BY <1>1, FewRoutes
    <2> QED BY <1>2, <1>3, <2>1 DEF PInv, PBounds
  <1> QED BY <1>4, <1>5, <1>6, <1>8, <1>9, PInvAfter

LEMMA PipelinesInit ==
  ASSUME Init
  PROVE  PInv
  <1>1. PICK c : c = CHOOSE d \in Codecs : TRUE
    OBVIOUS
  <1>2. c \in Codecs
    BY <1>1, CodecsNamed
  <1>3. PICK b : b = [st |-> "none", codec |-> c, enc |-> NoKey, sub |-> 0, start |-> 0, recv |-> 0]
    OBVIOUS
  <1>4. b \in Route /\ NoSlot \in Slot /\ "none" \in Streams
    BY <1>2, <1>3, PipelineBounds DEF Route, NoSlot, Slot, Streams
  <1>5. route \in [Routes -> {b}]
    BY <1>1, <1>3 DEF Init
  <1>6. \A r \in Routes : route[r] = b
    BY <1>5
  <1>7. route \in [Routes -> Route] /\ slot \in [Keys -> Slot] /\ stream \in [Starts -> Streams]
        /\ opener \in [Starts -> Keys \cup {NoKey} \cup Receivers] /\ next \in 0 .. MaxStarts
    BY <1>4, <1>5, PipelineBounds DEF Init
  <1>8. Now \in PState
    BY <1>7 DEF Now, PState
  <1>9. \A k \in Keys : Now.slot[k] = NoSlot
    BY NowHas DEF Init
  <1>10. \A n \in Starts : Now.stream[n] = "none"
    BY NowHas DEF Init
  <1>11. \A r \in Routes : Now.route[r] = b
    BY <1>6, NowHas
  <1>12. \A k \in Keys : GroupInv(Now, k)
    BY <1>9 DEF GroupInv, NoSlot
  <1>13. (\A r \in Receivers : PlayInv(Now, r)) /\ (\A r \in Senders : SendInv(Now, r))
    BY <1>3, <1>11 DEF PlayInv, SendInv, Routes
  <1>14. Sane(Now)
    BY <1>8, <1>10, <1>12, <1>13 DEF Sane
  <1>15. Wanted(Now)
    BY <1>9, <1>10 DEF Wanted, Held, NoSlot
  <1>16. \A r \in Senders : FedAt(Now, r)
    BY <1>3, <1>11 DEF FedAt, Routes
  <1> QED BY <1>14, <1>15, <1>16 DEF PInv, Settled, Init

\* A step of the pipelines.
LEMMA PipelinesNext ==
  ASSUME PInv, Next
  PROVE  PInv'
  <1>1. CASE \E r \in Routes : \/ \E c \in Codecs : Start(r, c) \/ ApplyProfile(r, c)
                               \/ Stop(r) \/ BackoffPasses(r)
    BY <1>1, BeginInv, ProfileInv, StopInv, BackoffInv
  <1>2. CASE \E n \in Starts : \/ Opened(n) \/ Refused(n) \/ DeviceFails(n)
                               \/ OnSenderReady(n) \/ OnReceiverReady(n)
                               \/ OnEncoderFailed(n) \/ OnAudioFailed(n)
    BY <1>2, ResultInv, FailsInv, SenderReadyInv, ReceiverReadyInv, EncoderFailedInv, AudioFailedInv
  <1>3. CASE DefaultChanged
    BY <1>3, DefaultInv
  <1> QED BY <1>1, <1>2, <1>3 DEF Next

\* What the invariant says of the devices and the routes.
LEMMA PipelinesSafe ==
  ASSUME PInv
  PROVE  TypeOK /\ CaptureWanted /\ Fed
  <1>1. Settled(Now) /\ Now \in PState /\ Sane(Now) /\ Wanted(Now)
    BY DEF PInv, Settled, Sane
  <1>2. TypeOK
    BY <1>1, PParts, NowHas DEF TypeOK, PInv
  <1>3. CaptureWanted
    <2> SUFFICES ASSUME NEW n \in Starts, stream[n] = "used"
                 PROVE  \/ \E k \in Keys : /\ slot[k].st = "Running" /\ slot[k].id = n
                                           /\ Listeners(Now, k) # {}
                        \/ \E r \in Receivers : route[r].st = "Active" /\ route[r].recv = n
      BY DEF CaptureWanted
    <2>1. (\E k \in Keys : slot[k].st = "Running" /\ slot[k].id = n) \/ Plays(Now, n)
      BY <1>1, NowHas DEF Wanted, Held
    <2>2. CASE \E k \in Keys : slot[k].st = "Running" /\ slot[k].id = n
      BY <1>1, <2>2, NowHas DEF Wanted
    <2>3. CASE Plays(Now, n)
      <3>1. PICK r \in Receivers : Now.route[r].recv = n
        BY <2>3 DEF Plays
      <3>2. PlayInv(Now, r) /\ n # 0
        BY <1>1, PParts DEF Sane
      <3> QED BY <3>1, <3>2, NowHas DEF PlayInv
    <2> QED BY <2>1, <2>2, <2>3
  <1>4. Fed
    BY <1>1, NowHas DEF Settled, FedAt, Fed
  <1> QED BY <1>2, <1>3, <1>4

----------------------------------------------------------------------------
(* The results.                                                            *)

\* The invariant holds in the composition.
LEMMA PipelinesInv == AudioSpec => []PInv
  <1>1. AudioInit => PInv
    BY PipelinesInit DEF AudioInit
  <1>2. PInv /\ [AudioNext]_<<part, vars, profileVars, speakerVars, defaultVars>>
          => PInv'
    <2> SUFFICES ASSUME PInv,
                   [AudioNext]_<<part, vars, profileVars, speakerVars, defaultVars>>
                 PROVE  PInv'
      OBVIOUS
    <2>1. CASE Next
      BY <2>1, PipelinesNext
    <2>2. CASE UNCHANGED vars
      <3>1. UNCHANGED <<route, slot, stream, opener, next>> /\ PBounds'
        BY <2>2 DEF vars, PInv, PBounds
      <3> QED BY <3>1, AsideInv
    <2> QED
      BY <2>1, <2>2 DEF AudioNext
  <1> QED
    BY <1>1, <1>2, PTL DEF AudioSpec

\* Every open device serves a group somebody listens to or a route that plays,
\* however starts, results, failures and restarts cross (prune_encoders,
\* on_sender_ready, on_receiver_ready, release_pipelines).
THEOREM DevicesWanted == AudioSpec => []CaptureWanted
  <1>1. PInv => CaptureWanted
    BY PipelinesSafe
  <1> QED
    BY <1>1, PipelinesInv, PTL

\* A route that sends is fed by the group of its encoding or waits for it, in
\* whatever order the routes of a lost device are reopened (begin_sender,
\* on_sender_ready, apply_profile, reopen_route_audio).
THEOREM RoutesFed == AudioSpec => []Fed
  <1>1. PInv => Fed
    BY PipelinesSafe
  <1> QED
    BY <1>1, PipelinesInv, PTL
=============================================================================
