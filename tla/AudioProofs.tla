----------------------------- MODULE AudioProofs -----------------------------
(***************************************************************************)
(* What holds of the profile of a route for any number of changed          *)
(* settings, fallbacks and restarts, of the speakers and of the default    *)
(* devices for any number of peers, devices, jobs and crashes, and the     *)
(* types of all four components of MCAudio.  Each component has an         *)
(* inductive invariant of its own; the others leave its variables alone.   *)
(*                                                                         *)
(* The handlers of Updates compute a state x that Becomes takes over.      *)
(* UGood says what x must be, in four parts: Phases, how far the two ends  *)
(* are; Messages, what may be on its way to each; Follows, that the last   *)
(* profile on its way to the end that plays, or else the one it has,       *)
(* agrees with the source in what the source decides; and AsSet, that an   *)
(* end has what it decides as its settings say.                            *)
(***************************************************************************)
EXTENDS PipelinesProofs

----------------------------------------------------------------------------
(* The profile of a route.                                                 *)

\* The end that did not ask for the route.
Partner == U!Other(requester)

\* Messages; a number of any size may name a route.
UMessages == [type: {"request", "accept", "update", "stop"}, id: Nat,
              profile: U!Profile]

UState == [settings: [U!Ends -> U!Profile],
           status: [U!Ends -> {"none", "requesting", "starting", "active"}],
           id: [U!Ends -> Nat], profile: [U!Ends -> U!Profile],
           fallback: [active: BOOLEAN, bad: Nat, good: Nat],
           chan: [U!Ends -> Seq(UMessages)], missed: SUBSET U!Ends]

\* A message that makes the end that plays take the profile in it, if it is of
\* route n.
Carries(n, m) == m.id = n /\ m.type # "stop"

Silent(q, n) == \A i \in 1 .. Len(q) : ~Carries(n, q[i])

\* What the source decides for both ends: where a microphone is denoised, and the
\* quality if it is the one that asked.
SameForBoth(p, o) ==
  p.denoise = o.denoise /\ (requester = "source" => p.quality = o.quality)

\* What the end that asked decides: the answer to a request must not change it.
SameForAsker(p, o) ==
  IF requester = "source" THEN p.denoise = o.denoise /\ p.quality = o.quality
  ELSE p.jitter = o.jitter

\* The last of the messages that carry a profile carries p.
Latest(q, n, p) ==
  \A i \in 1 .. Len(q) :
    Carries(n, q[i]) /\ (\A j \in i + 1 .. Len(q) : ~Carries(n, q[j]))
    => SameForBoth(q[i].profile, p)

\* How far the two ends are.  The one that asked is ahead.
Phases(x) ==
  /\ x.status[requester] # "none" /\ x.status[Partner] # "requesting"
  /\ x.id[requester] >= 1 /\ x.id[Partner] <= x.id[requester]
  /\ x.status[requester] # "requesting" =>
       x.status[Partner] = "active" /\ x.id[Partner] = x.id[requester]
  /\ x.status[Partner] = "starting" =>
       /\ x.status[requester] = "requesting" /\ x.id[Partner] = x.id[requester]
       /\ SameForAsker(x.profile[Partner], x.profile[requester])
  /\ x.status[Partner] = "none" <=> x.id[Partner] = 0

\* A message to the partner: at most one request, which is new to it, updates of
\* a route it may still ask for, and stops of earlier routes.
ToPartner(x, m) ==
  /\ m.type # "accept" /\ m.id >= 1 /\ m.id <= x.id[requester]
  /\ m.type = "request" =>
       /\ m.id = x.id[requester] /\ x.status[requester] = "requesting"
       /\ x.id[Partner] # m.id
       /\ SameForAsker(m.profile, x.profile[requester])
  /\ m.type = "stop" => m.id # x.id[requester]
  /\ m.type = "update" /\ x.status[requester] = "requesting" => m.id # x.id[requester]

\* A message to the end that asked: at most one answer, which it waits for.
ToAsker(x, m) ==
  /\ m.type \in {"accept", "update"} /\ m.id >= 1 /\ m.id <= x.id[requester]
  /\ requester = "source" => m.type = "accept"
  /\ m.type = "accept" =>
       /\ m.id = x.id[requester] /\ x.status[requester] = "requesting"
       /\ SameForAsker(m.profile, x.profile[requester])
  /\ m.id = x.id[requester] =>
       x.id[Partner] = m.id /\ x.status[Partner] = "active"

\* There is at most one message of this type.
Once(q, type) ==
  \A i, j \in 1 .. Len(q) : q[i].type = type /\ q[j].type = type => i = j

Messages(x) ==
  /\ \A i \in 1 .. Len(x.chan[Partner]) : ToPartner(x, x.chan[Partner][i])
  /\ \A i \in 1 .. Len(x.chan[requester]) : ToAsker(x, x.chan[requester][i])
  /\ Once(x.chan[Partner], "request") /\ Once(x.chan[requester], "accept")

\* The end that plays has, or will have, what the source decided.
Follows(x) ==
  /\ Latest(x.chan["sink"], x.id[requester], x.profile["source"])
  /\ Silent(x.chan["sink"], x.id[requester]) /\ x.id[Partner] = x.id[requester]
       /\ x.status["sink"] # "requesting"
     => SameForBoth(x.profile["sink"], x.profile["source"])

UWeak(x) == x \in UState /\ Phases(x) /\ Messages(x) /\ Follows(x)

\* An end has what it decides as its settings say.
AsSet(x, e) ==
  x.status[e] # "none" /\ e \notin x.missed =>
    /\ e = "source" => x.profile[e].denoise = x.settings[e].denoise
    /\ e = "sink" => x.profile[e].jitter = x.settings[e].jitter
    /\ e = requester /\ x.fallback.active => x.settings[e].quality = "lossless"
    /\ e = requester /\ e = "source" => x.profile[e].quality = U!Proposed(x).quality

UGood(x) == UWeak(x) /\ \A e \in U!Ends : AsSet(x, e)

----------------------------------------------------------------------------
(* Ends and queues.                                                        *)

\* There are two ends.
LEMMA TwoEnds ==
  /\ U!Ends = {"source", "sink"}
  /\ U!Other("source") = "sink" /\ U!Other("sink") = "source"
  /\ requester \in U!Ends =>
       /\ Partner \in U!Ends /\ Partner # requester
       /\ \A e \in U!Ends : e = requester \/ e = Partner
       /\ U!Other(Partner) = requester
  <1>1. U!Other("source") = "sink" /\ U!Other("sink") = "source"
    BY DEF U!Other, U!Ends
  <1> QED
    BY <1>1 DEF U!Ends, Partner

\* The elements of a queue to which one was appended.
LEMMA AppendIs ==
  ASSUME NEW q \in Seq(UMessages), NEW m \in UMessages
  PROVE  /\ Append(q, m) \in Seq(UMessages)
         /\ Len(q) \in Nat /\ Len(Append(q, m)) = Len(q) + 1
         /\ \A i \in 1 .. Len(q) : Append(q, m)[i] = q[i] /\ q[i] \in UMessages
         /\ Append(q, m)[Len(q) + 1] = m
  BY AppendProperties, LenProperties, ElementOfSeq

\* The elements of a queue from which the oldest was taken.
LEMMA TailIs ==
  ASSUME NEW q \in Seq(UMessages), q # <<>>
  PROVE  /\ Tail(q) \in Seq(UMessages) /\ Head(q) \in UMessages /\ Head(q) = q[1]
         /\ Len(q) \in Nat /\ Len(q) >= 1 /\ Len(Tail(q)) = Len(q) - 1
         /\ \A i \in 1 .. Len(q) - 1 : Tail(q)[i] = q[i + 1]
  <1>1. /\ Tail(q) \in Seq(UMessages) /\ Len(Tail(q)) = Len(q) - 1
        /\ \A i \in 1 .. Len(Tail(q)) : Tail(q)[i] = q[i + 1]
    BY HeadTailProperties
  <1>2. Len(q) \in Nat /\ Len(q) # 0
    BY LenProperties, EmptySeq
  <1>3. Head(q) = q[1]
    BY <1>2, HeadTailOfSubSeq, SubSeqFull
  <1>4. q[1] \in UMessages
    BY <1>2, ElementOfSeq
  <1> QED
    BY <1>1, <1>2, <1>3, <1>4

\* A message that carries a profile is the last that does.
LEMMA LatestAppend ==
  ASSUME NEW q \in Seq(UMessages), NEW m \in UMessages, NEW n \in Nat, NEW p
  PROVE  /\ Carries(n, m) /\ SameForBoth(m.profile, p) =>
              Latest(Append(q, m), n, p) /\ ~Silent(Append(q, m), n)
         /\ ~Carries(n, m) =>
              /\ Latest(q, n, p) => Latest(Append(q, m), n, p)
              /\ Silent(Append(q, m), n) => Silent(q, n)
  <1>1. PICK s : s = Append(q, m)
    OBVIOUS
  <1>2. PICK l \in Nat : l = Len(q)
    BY AppendIs
  <1>3. Len(s) = l + 1 /\ s[l + 1] = m /\ \A i \in 1 .. l : s[i] = q[i]
    BY <1>1, <1>2, AppendIs
  <1>4. ASSUME Carries(n, m), SameForBoth(m.profile, p)
        PROVE  Latest(s, n, p) /\ ~Silent(s, n)
    <2>1. ~Silent(s, n)
      BY <1>3, <1>4 DEF Silent
    <2>2. ASSUME NEW i \in 1 .. l + 1, \A j \in i + 1 .. l + 1 : ~Carries(n, s[j])
          PROVE  SameForBoth(s[i].profile, p)
      <3>1. i = l + 1
        BY <1>3, <1>4, <2>2
      <3> QED BY <1>3, <1>4, <3>1
    <2> QED BY <1>3, <2>1, <2>2 DEF Latest
  <1>5. ASSUME ~Carries(n, m), Latest(q, n, p)
        PROVE  Latest(s, n, p)
    <2> SUFFICES ASSUME NEW i \in 1 .. l + 1, Carries(n, s[i]),
                        \A j \in i + 1 .. l + 1 : ~Carries(n, s[j])
                 PROVE  SameForBoth(s[i].profile, p)
      BY <1>3 DEF Latest
    <2>1. i \in 1 .. l /\ s[i] = q[i]
      BY <1>3, <1>5
    <2>2. \A j \in i + 1 .. l : ~Carries(n, q[j])
      BY <1>3, <2>1
    <2> QED BY <1>2, <1>5, <2>1, <2>2 DEF Latest
  <1>6. Silent(s, n) => Silent(q, n)
    BY <1>2, <1>3 DEF Silent
  <1> QED BY <1>1, <1>4, <1>5, <1>6

\* The oldest message matters if it is the last that carries a profile.
LEMMA LatestTail ==
  ASSUME NEW q \in Seq(UMessages), q # <<>>, NEW n \in Nat, NEW p, Latest(q, n, p)
  PROVE  /\ Latest(Tail(q), n, p)
         /\ Silent(Tail(q), n) /\ Carries(n, Head(q)) => SameForBoth(Head(q).profile, p)
         /\ Silent(Tail(q), n) /\ ~Carries(n, Head(q)) => Silent(q, n)
  <1>1. PICK s : s = Tail(q)
    OBVIOUS
  <1>2. PICK l \in Nat : l = Len(q)
    BY TailIs
  <1>3. /\ l >= 1 /\ Len(s) = l - 1 /\ Head(q) = q[1]
        /\ \A i \in 1 .. l - 1 : s[i] = q[i + 1]
    BY <1>1, <1>2, TailIs
  <1>4. \A i \in 2 .. l : i - 1 \in 1 .. l - 1 /\ q[i] = s[i - 1]
    <2> TAKE i \in 2 .. l
    <2>1. i - 1 \in 1 .. l - 1 /\ (i - 1) + 1 = i
      OBVIOUS
    <2> QED BY <1>3, <2>1
  <1>5. Latest(s, n, p)
    <2> SUFFICES ASSUME NEW i \in 1 .. l - 1, Carries(n, s[i]),
                        \A j \in i + 1 .. l - 1 : ~Carries(n, s[j])
                 PROVE  SameForBoth(s[i].profile, p)
      BY <1>3 DEF Latest
    <2>1. i + 1 \in 1 .. l /\ s[i] = q[i + 1]
      BY <1>3
    <2>2. \A j \in (i + 1) + 1 .. l : ~Carries(n, q[j])
      <3> TAKE j \in (i + 1) + 1 .. l
      <3>1. j - 1 \in i + 1 .. l - 1 /\ j \in 2 .. l
        OBVIOUS
      <3> QED BY <1>4, <3>1
    <2> QED BY <1>2, <2>1, <2>2 DEF Latest
  <1>6. ASSUME Silent(s, n)
        PROVE  \A i \in 2 .. l : ~Carries(n, q[i])
    BY <1>3, <1>4, <1>6 DEF Silent
  <1>7. ASSUME Silent(s, n), Carries(n, Head(q))
        PROVE  SameForBoth(Head(q).profile, p)
    <2>1. 1 \in 1 .. l /\ \A j \in 1 + 1 .. l : ~Carries(n, q[j])
      BY <1>3, <1>6, <1>7
    <2> QED BY <1>2, <1>3, <1>7, <2>1 DEF Latest
  <1>8. ASSUME Silent(s, n), ~Carries(n, Head(q))
        PROVE  Silent(q, n)
    <2> SUFFICES ASSUME NEW i \in 1 .. l PROVE ~Carries(n, q[i])
      BY <1>2 DEF Silent
    <2>1. i = 1 \/ i \in 2 .. l
      OBVIOUS
    <2> QED BY <1>3, <1>6, <1>8, <2>1
  <1> QED BY <1>1, <1>5, <1>7, <1>8

\* Without a message of route n nothing is carried.
LEMMA LatestNone ==
  ASSUME NEW q, NEW n, NEW p, \A i \in 1 .. Len(q) : q[i].id # n
  PROVE  Latest(q, n, p) /\ Silent(q, n)
  BY DEF Latest, Silent, Carries

\* One more message of another type, or the first of its type.
LEMMA OnceAppend ==
  ASSUME NEW q \in Seq(UMessages), NEW m \in UMessages, NEW t, Once(q, t),
         m.type = t => \A i \in 1 .. Len(q) : q[i].type # t
  PROVE  Once(Append(q, m), t)
  <1>1. PICK s : s = Append(q, m)
    OBVIOUS
  <1>2. PICK l \in Nat : l = Len(q)
    BY AppendIs
  <1>3. Len(s) = l + 1 /\ s[l + 1] = m /\ \A i \in 1 .. l : s[i] = q[i]
    BY <1>1, <1>2, AppendIs
  <1>4. ASSUME NEW i \in 1 .. l + 1, NEW j \in 1 .. l + 1, s[i].type = t, s[j].type = t
        PROVE  i = j
    <2>1. (i = l + 1 \/ i \in 1 .. l) /\ (j = l + 1 \/ j \in 1 .. l)
      OBVIOUS
    <2> QED BY <1>2, <1>3, <1>4, <2>1 DEF Once
  <1> QED BY <1>1, <1>3, <1>4 DEF Once

\* Once the only message of a type was taken, there is none.
LEMMA OnceTail ==
  ASSUME NEW q \in Seq(UMessages), q # <<>>, NEW t, Once(q, t)
  PROVE  /\ Once(Tail(q), t)
         /\ Head(q).type = t => \A i \in 1 .. Len(Tail(q)) : Tail(q)[i].type # t
  <1>1. PICK s : s = Tail(q)
    OBVIOUS
  <1>2. PICK l \in Nat : l = Len(q)
    BY TailIs
  <1>3. /\ l >= 1 /\ Len(s) = l - 1 /\ Head(q) = q[1]
        /\ \A i \in 1 .. l - 1 : s[i] = q[i + 1] /\ i + 1 \in 1 .. l /\ i + 1 # 1
    BY <1>1, <1>2, TailIs
  <1>4. ASSUME NEW i \in 1 .. l - 1, NEW j \in 1 .. l - 1, s[i].type = t, s[j].type = t
        PROVE  i = j
    <2>1. i + 1 = j + 1
      BY <1>2, <1>3, <1>4 DEF Once
    <2> QED BY <2>1
  <1>5. ASSUME Head(q).type = t, NEW i \in 1 .. l - 1, s[i].type = t
        PROVE  FALSE
    BY <1>2, <1>3, <1>5 DEF Once
  <1> QED BY <1>1, <1>3, <1>4, <1>5 DEF Once

\* What a queue carries depends on what both ends must have in common only.
LEMMA LatestSame ==
  ASSUME NEW q, NEW n, NEW p, NEW o, Latest(q, n, p), SameForBoth(o, p)
  PROVE  Latest(q, n, o)
  BY DEF Latest, SameForBoth

\* The parts of a state.
LEMMA StateParts ==
  ASSUME NEW x \in UState, NEW e \in U!Ends
  PROVE  /\ x.settings[e] \in U!Profile /\ x.profile[e] \in U!Profile
         /\ x.id[e] \in Nat /\ x.chan[e] \in Seq(UMessages)
         /\ x.status[e] \in {"none", "requesting", "starting", "active"}
         /\ x.missed \in SUBSET U!Ends
  BY DEF UState

----------------------------------------------------------------------------
(* The steps handlers consist of.                                          *)

\* z is x after end e, whose route is active, took the profile p, and told the
\* other end of it or not.
Changed(x, z, e, p, tell) ==
  /\ z \in UState
  /\ z.status = x.status /\ z.id = x.id
  /\ z.profile = [x.profile EXCEPT ![e] = p]
  /\ IF tell
     THEN z.chan = [x.chan EXCEPT ![U!Other(e)] =
                      Append(@, [type |-> "update", id |-> x.id[e], profile |-> p])]
     ELSE z.chan = x.chan

\* Only the source changes what both ends must have, and tells of it.
MayTell(x, e, p, tell) ==
  /\ e = "sink" \/ ~tell => SameForBoth(p, x.profile[e])
  /\ tell => e = requester \/ e = "source"

\* An end changes what is its own to decide, and tells of what matters to both.
LEMMA ChangedWeak ==
  ASSUME requester \in U!Ends, NEW x, NEW z, NEW e \in U!Ends, NEW p \in U!Profile,
         NEW tell \in BOOLEAN, UWeak(x), Changed(x, z, e, p, tell),
         x.status[e] = "active",
         MayTell(x, e, p, tell)
  PROVE  UWeak(z)
  <1>0. /\ e = "sink" \/ ~tell => SameForBoth(p, x.profile[e])
        /\ tell => e = requester \/ e = "source"
    BY DEF MayTell
  <1> DEFINE m == [type |-> "update", id |-> x.id[e], profile |-> p]
             o == U!Other(e)
  <1>1. /\ Partner \in U!Ends /\ Partner # requester /\ o \in U!Ends /\ o # e
        /\ {requester, Partner} = {e, o} /\ U!Ends = {"source", "sink"}
    BY TwoEnds
  <1>2. /\ x \in UState /\ z \in UState /\ z.status = x.status /\ z.id = x.id
        /\ z.profile[e] = p /\ z.profile[o] = x.profile[o]
    BY <1>1 DEF UWeak, Changed, UState
  <1>3. /\ z.chan[e] = x.chan[e]
        /\ z.chan[o] = IF tell THEN Append(x.chan[o], m) ELSE x.chan[o]
    <2>1. PICK q : q = x.chan
      OBVIOUS
    <2>2. q \in [U!Ends -> Seq(UMessages)]
      BY <1>2, <2>1 DEF UState
    <2>3. z.chan = IF tell THEN [q EXCEPT ![o] = Append(q[o], m)] ELSE q
      BY <2>1 DEF Changed
    <2> QED BY <1>1, <2>1, <2>2, <2>3
  <1>4. x.id[e] \in Nat /\ x.id[requester] \in Nat /\ x.id[Partner] \in Nat
        /\ x.chan[o] \in Seq(UMessages) /\ x.chan[e] \in Seq(UMessages)
    BY <1>1, <1>2, StateParts
  <1>5. m \in UMessages
    BY <1>4 DEF UMessages
  <1>6. Phases(x) /\ Messages(x) /\ Follows(x)
    BY DEF UWeak
  <1>7. x.id[e] >= 1
    BY <1>1, <1>4, <1>6 DEF Phases
  <1>8. Phases(z)
    BY <1>1, <1>2, <1>6 DEF Phases
  <1>9. e = requester => x.status[requester] # "requesting"
    OBVIOUS
  <1>10. \A k \in UMessages : ToPartner(x, k) => ToPartner(z, k)
    BY <1>1, <1>2, <1>9 DEF ToPartner
  <1>11. \A k \in UMessages : ToAsker(x, k) => ToAsker(z, k)
    BY <1>1, <1>2, <1>9 DEF ToAsker
  <1>12. e = requester /\ tell => ToPartner(z, m)
    BY <1>1, <1>2, <1>4, <1>7, <1>9 DEF ToPartner
  <1>13. e = Partner /\ tell => ToAsker(z, m)
    BY <1>0, <1>1, <1>2, <1>4, <1>6, <1>7 DEF ToAsker, Phases
  <1>14. \A i \in 1 .. Len(z.chan[o]) :
           \/ i \in 1 .. Len(x.chan[o]) /\ z.chan[o][i] = x.chan[o][i]
           \/ tell /\ z.chan[o][i] = m
    <2>1. CASE ~tell
      BY <1>3, <2>1
    <2>2. CASE tell
      <3>1. /\ Len(x.chan[o]) \in Nat /\ Len(z.chan[o]) = Len(x.chan[o]) + 1
            /\ \A i \in 1 .. Len(x.chan[o]) : z.chan[o][i] = x.chan[o][i]
            /\ z.chan[o][Len(x.chan[o]) + 1] = m
        BY <1>3, <1>4, <1>5, <2>2, AppendIs
      <3> QED BY <2>2, <3>1
    <2> QED BY <2>1, <2>2
  <1>15. /\ \A i \in 1 .. Len(x.chan[o]) : x.chan[o][i] \in UMessages
         /\ \A i \in 1 .. Len(x.chan[e]) : x.chan[e][i] \in UMessages
    BY <1>4, ElementOfSeq
  <1>16. /\ \A i \in 1 .. Len(z.chan[Partner]) : ToPartner(z, z.chan[Partner][i])
         /\ \A i \in 1 .. Len(z.chan[requester]) : ToAsker(z, z.chan[requester][i])
    <2>1. CASE e = requester
      <3>1. o = Partner
        BY <1>1, <2>1
      <3>2. \A i \in 1 .. Len(z.chan[o]) : ToPartner(z, z.chan[o][i])
        BY <1>6, <1>10, <1>12, <1>14, <1>15, <2>1, <3>1 DEF Messages
      <3>3. \A i \in 1 .. Len(z.chan[e]) : ToAsker(z, z.chan[e][i])
        BY <1>3, <1>6, <1>11, <1>15, <2>1 DEF Messages
      <3> QED BY <2>1, <3>1, <3>2, <3>3
    <2>2. CASE e = Partner
      <3>1. o = requester
        BY <1>1, <2>2
      <3>2. \A i \in 1 .. Len(z.chan[o]) : ToAsker(z, z.chan[o][i])
        BY <1>6, <1>11, <1>13, <1>14, <1>15, <2>2, <3>1 DEF Messages
      <3>3. \A i \in 1 .. Len(z.chan[e]) : ToPartner(z, z.chan[e][i])
        BY <1>3, <1>6, <1>10, <1>15, <2>2 DEF Messages
      <3> QED BY <2>2, <3>1, <3>2, <3>3
    <2> QED BY <1>1, <2>1, <2>2
  <1>17. Once(z.chan[Partner], "request") /\ Once(z.chan[requester], "accept")
    <2>1. \A t \in {"request", "accept"} : Once(x.chan[o], t) => Once(z.chan[o], t)
      BY <1>3, <1>4, <1>5, OnceAppend
    <2> QED BY <1>1, <1>3, <1>6, <2>1 DEF Messages
  <1>18. Follows(z)
    <2>1. CASE e = "source"
      <3>1. o = "sink"
        BY <2>1, <1>1
      <3>2. CASE ~tell
        <4>1. Latest(z.chan["sink"], z.id[requester], z.profile["source"])
          BY <1>0, <1>2, <1>3, <1>6, <2>1, <3>1, <3>2, LatestSame DEF Follows
        <4> QED BY <1>0, <1>2, <1>3, <1>6, <2>1, <3>1, <3>2, <4>1 DEF Follows, SameForBoth
      <3>3. CASE tell /\ x.id[e] = x.id[requester]
        <4>1. Carries(x.id[requester], m) /\ SameForBoth(m.profile, p)
          BY <3>3 DEF Carries, SameForBoth
        <4>2. /\ Latest(z.chan["sink"], z.id[requester], z.profile["source"])
              /\ ~Silent(z.chan["sink"], z.id[requester])
          BY <1>2, <1>3, <1>4, <1>5, <2>1, <3>1, <3>3, <4>1, LatestAppend
        <4> QED BY <4>2 DEF Follows
      <3>4. CASE tell /\ x.id[e] # x.id[requester]
        <4>1. e = Partner /\ o = requester
          BY <1>1, <3>4
        <4>2. \A i \in 1 .. Len(z.chan["sink"]) : z.chan["sink"][i].id # z.id[requester]
          BY <1>2, <1>16, <3>1, <3>4, <4>1 DEF ToAsker
        <4>3. Latest(z.chan["sink"], z.id[requester], z.profile["source"])
          BY <4>2, LatestNone
        <4> QED BY <1>2, <3>4, <4>1, <4>3 DEF Follows
      <3> QED BY <3>2, <3>3, <3>4
    <2>2. CASE e = "sink"
      <3>1. o = "source"
        BY <1>1, <2>2
      <3> QED BY <1>0, <1>2, <1>3, <1>6, <2>2, <3>1 DEF Follows, SameForBoth
    <2> QED BY <1>1, <2>1, <2>2
  <1> QED
    BY <1>2, <1>8, <1>16, <1>17, <1>18 DEF UWeak, Messages

\* The message end e sends.
Sent(x, e, type) == [type |-> type, id |-> x.id[e], profile |-> x.profile[e]]

\* Send changes one queue.
LEMMA SendIs ==
  ASSUME NEW x \in UState, NEW e \in U!Ends,
         NEW type \in {"request", "accept", "update", "stop"}
  PROVE  /\ U!Send(x, e, type) \in UState /\ Sent(x, e, type) \in UMessages
         /\ U!Send(x, e, type).chan = [x.chan EXCEPT ![U!Other(e)] = Append(@, Sent(x, e, type))]
         /\ U!Send(x, e, type).settings = x.settings /\ U!Send(x, e, type).status = x.status
         /\ U!Send(x, e, type).id = x.id /\ U!Send(x, e, type).profile = x.profile
         /\ U!Send(x, e, type).fallback = x.fallback /\ U!Send(x, e, type).missed = x.missed
  <1>1. PICK m : m = Sent(x, e, type)
    OBVIOUS
  <1>2. m \in UMessages
    BY <1>1, StateParts DEF Sent, UMessages
  <1>3. PICK o \in U!Ends : o = U!Other(e)
    BY TwoEnds
  <1>4. Append(x.chan[o], m) \in Seq(UMessages)
    BY <1>2, StateParts, AppendIs
  <1>5. PICK c : c = [x.chan EXCEPT ![o] = Append(x.chan[o], m)]
    OBVIOUS
  <1>6. c \in [U!Ends -> Seq(UMessages)]
    BY <1>4, <1>5 DEF UState
  <1>7. U!Send(x, e, type) = [x EXCEPT !.chan = c]
    BY <1>1, <1>3, <1>5 DEF U!Send, Sent, UState
  <1>8. PICK z : z = [x EXCEPT !.chan = c]
    OBVIOUS
  <1>9. /\ z \in UState /\ z.chan = c
        /\ z.settings = x.settings /\ z.status = x.status
        /\ z.id = x.id /\ z.profile = x.profile
        /\ z.fallback = x.fallback /\ z.missed = x.missed
    BY <1>6, <1>8 DEF UState
  <1> QED
    BY <1>1, <1>2, <1>3, <1>5, <1>7, <1>8, <1>9

\* What settings ask for is a profile.
LEMMA ProposedIs ==
  ASSUME requester \in U!Ends, NEW x \in UState
  PROVE  /\ U!Proposed(x) \in U!Profile
         /\ U!Proposed(x).jitter = x.settings[requester].jitter
         /\ U!Proposed(x).denoise = x.settings[requester].denoise
         /\ x.settings[requester].quality # "lossless" \/ ~x.fallback.active =>
              U!Proposed(x) = x.settings[requester]
  <1>1. PICK p \in U!Profile : p = x.settings[requester]
    BY StateParts
  <1> QED
    BY <1>1 DEF U!Proposed, U!ApplyFallback, U!Profile, U!Qualities

\* restart_route and start_route_keeping: the stop of the old route and the
\* request of the new one are the only messages of these kinds.
LEMMA RestartIs ==
  ASSUME requester \in U!Ends, NEW x \in UState
  PROVE  LET z == U!RestartRoute(x)
             n == x.id[requester] + 1
             s == [type |-> "stop", id |-> x.id[requester], profile |-> x.profile[requester]]
             m == [type |-> "request", id |-> n, profile |-> U!Proposed(x)]
         IN /\ z \in UState /\ s \in UMessages /\ m \in UMessages
            /\ z.settings = x.settings /\ z.fallback = x.fallback
            /\ z.status = [x.status EXCEPT ![requester] = "requesting"]
            /\ z.id = [x.id EXCEPT ![requester] = n]
            /\ z.profile = [x.profile EXCEPT ![requester] = U!Proposed(x)]
            /\ z.missed = x.missed \ {requester}
            /\ z.chan = [x.chan EXCEPT ![Partner] = Append(Append(@, s), m)]
  <1>1. PICK e \in U!Ends : e = requester
    OBVIOUS
  <1>2. PICK y : y = U!Send(x, e, "stop")
    OBVIOUS
  <1>3. PICK s : s = Sent(x, e, "stop")
    OBVIOUS
  <1>4. /\ y \in UState /\ s \in UMessages
        /\ y.chan = [x.chan EXCEPT ![Partner] = Append(@, s)]
        /\ y.settings = x.settings /\ y.status = x.status /\ y.id = x.id
        /\ y.profile = x.profile /\ y.fallback = x.fallback /\ y.missed = x.missed
    BY <1>1, <1>2, <1>3, SendIs DEF Partner
  <1>5. U!Proposed(y) = U!Proposed(x)
    BY <1>4 DEF U!Proposed
  <1>6. PICK p \in U!Profile : p = U!Proposed(x)
    BY ProposedIs
  <1>7. PICK w : w = [y EXCEPT !.status[e] = "requesting", !.id[e] = @ + 1,
                               !.profile[e] = p, !.missed = @ \ {e}]
    OBVIOUS
  <1> DEFINE ws == [y.status EXCEPT ![e] = "requesting"]
             wi == [y.id EXCEPT ![e] = @ + 1]
             wp == [y.profile EXCEPT ![e] = p]
             wm == y.missed \ {e}
  <1>7a. /\ ws \in [U!Ends -> {"none", "requesting", "starting", "active"}]
         /\ wi \in [U!Ends -> Nat] /\ wp \in [U!Ends -> U!Profile]
         /\ wm \in SUBSET U!Ends
    BY <1>4, <1>6 DEF UState
  <1>7b. w = [y EXCEPT !.status = ws, !.id = wi, !.profile = wp, !.missed = wm]
    BY <1>4, <1>7 DEF UState
  <1> HIDE DEF ws, wi, wp, wm
  <1>8. /\ w \in UState
        /\ w.chan = y.chan /\ w.settings = y.settings /\ w.fallback = y.fallback
        /\ w.status = [y.status EXCEPT ![e] = "requesting"]
        /\ w.id = [y.id EXCEPT ![e] = @ + 1] /\ w.profile = [y.profile EXCEPT ![e] = p]
        /\ w.missed = y.missed \ {e}
    <2>1. /\ w \in UState
          /\ w.chan = y.chan /\ w.settings = y.settings /\ w.fallback = y.fallback
          /\ w.status = ws /\ w.id = wi /\ w.profile = wp /\ w.missed = wm
      BY <1>4, <1>7a, <1>7b DEF UState
    <2> QED BY <2>1 DEF ws, wi, wp, wm
  <1>9. U!RestartRoute(x) = U!Send(w, e, "request")
    BY <1>1, <1>2, <1>5, <1>6, <1>7 DEF U!RestartRoute, U!StartRoute
  <1>10. PICK m : m = Sent(w, e, "request")
    OBVIOUS
  <1>11. PICK z : z = U!RestartRoute(x)
    OBVIOUS
  <1>12. /\ z \in UState /\ m \in UMessages
         /\ z.chan = [w.chan EXCEPT ![Partner] = Append(@, m)]
         /\ z.settings = w.settings /\ z.status = w.status /\ z.id = w.id
         /\ z.profile = w.profile /\ z.fallback = w.fallback /\ z.missed = w.missed
    <2>1. w \in UState /\ z = U!Send(w, e, "request") /\ Partner = U!Other(e)
      BY <1>1, <1>8, <1>9, <1>11 DEF Partner
    <2>2. /\ z \in UState /\ m \in UMessages
          /\ z.chan = [w.chan EXCEPT ![U!Other(e)] = Append(@, m)]
          /\ z.settings = w.settings /\ z.status = w.status /\ z.id = w.id
          /\ z.profile = w.profile /\ z.fallback = w.fallback /\ z.missed = w.missed
      BY <1>10, <2>1, SendIs
    <2> QED BY <2>1, <2>2
  <1>13. s = [type |-> "stop", id |-> x.id[e], profile |-> x.profile[e]]
    BY <1>3 DEF Sent
  <1>14. w.id[e] = x.id[e] + 1 /\ w.profile[e] = p
    BY <1>4, <1>8, StateParts DEF UState
  <1>15. m = [type |-> "request", id |-> x.id[e] + 1, profile |-> p]
    BY <1>10, <1>14 DEF Sent
  <1>16. w.chan[Partner] = Append(x.chan[Partner], s)
    BY <1>1, <1>4, <1>8, TwoEnds DEF UState
  <1>17. z.chan = [x.chan EXCEPT ![Partner] = Append(Append(@, s), m)]
    BY <1>4, <1>8, <1>12, <1>16
  <1> QED
    BY <1>1, <1>4, <1>6, <1>8, <1>11, <1>12, <1>13, <1>15, <1>17

\* A restart, of a route that is active, keeps the order of the messages.
LEMMA RestartWeak ==
  ASSUME requester \in U!Ends, NEW x, UWeak(x), x.status[requester] = "active",
         x.fallback.active => x.settings[requester].quality = "lossless",
         AsSet(x, Partner)
  PROVE  UGood(U!RestartRoute(x))
  <1>1. PICK n \in Nat : n = x.id[requester]
    BY StateParts DEF UWeak
  <1>2. PICK s : s = [type |-> "stop", id |-> n, profile |-> x.profile[requester]]
    OBVIOUS
  <1>3. PICK m : m = [type |-> "request", id |-> n + 1, profile |-> U!Proposed(x)]
    OBVIOUS
  <1>4. PICK z : z = U!RestartRoute(x)
    OBVIOUS
  <1>5. x \in UState /\ Phases(x) /\ Messages(x) /\ Follows(x)
    BY DEF UWeak
  <1>6. /\ z \in UState /\ s \in UMessages /\ m \in UMessages
        /\ z.settings = x.settings /\ z.fallback = x.fallback
        /\ z.status = [x.status EXCEPT ![requester] = "requesting"]
        /\ z.id = [x.id EXCEPT ![requester] = n + 1]
        /\ z.profile = [x.profile EXCEPT ![requester] = U!Proposed(x)]
        /\ z.missed = x.missed \ {requester}
        /\ z.chan = [x.chan EXCEPT ![Partner] = Append(Append(@, s), m)]
    BY <1>1, <1>2, <1>3, <1>4, <1>5, RestartIs
  <1>7. /\ Partner \in U!Ends /\ Partner # requester /\ U!Ends = {"source", "sink"}
        /\ {requester, Partner} = {"source", "sink"}
    BY TwoEnds
  <1>8. /\ z.status[requester] = "requesting" /\ z.status[Partner] = x.status[Partner]
        /\ z.id[requester] = n + 1 /\ z.id[Partner] = x.id[Partner]
        /\ z.profile[requester] = U!Proposed(x) /\ z.profile[Partner] = x.profile[Partner]
        /\ z.chan[requester] = x.chan[requester]
        /\ z.chan[Partner] = Append(Append(x.chan[Partner], s), m)
    BY <1>5, <1>6, <1>7 DEF UState
  <1>9. /\ x.status[Partner] = "active" /\ x.id[Partner] = n /\ n >= 1
    BY <1>1, <1>5 DEF Phases
  <1>10. Phases(z)
    BY <1>8, <1>9 DEF Phases
  <1>11. PICK q \in Seq(UMessages) : q = x.chan[Partner]
    BY <1>5, <1>7, StateParts
  <1>12. PICK u \in Seq(UMessages) : u = Append(q, s)
    BY <1>6, AppendIs
  <1>13. PICK v \in Seq(UMessages) : v = Append(u, m)
    BY <1>6, AppendIs
  <1>14. PICK l \in Nat : l = Len(q)
    BY AppendIs
  <1>15. /\ \A i \in 1 .. l : q[i] \in UMessages /\ v[i] = q[i]
         /\ v[l + 1] = s /\ v[l + 2] = m /\ Len(v) = l + 2 /\ Len(u) = l + 1
         /\ \A i \in 1 .. l : u[i] = q[i]
         /\ u[l + 1] = s
    <2>1. /\ Len(u) = l + 1 /\ u[l + 1] = s
          /\ \A i \in 1 .. l : u[i] = q[i] /\ q[i] \in UMessages
      BY <1>6, <1>12, <1>14, AppendIs
    <2>2. /\ Len(v) = Len(u) + 1 /\ v[Len(u) + 1] = m
          /\ \A i \in 1 .. Len(u) : v[i] = u[i]
      BY <1>6, <1>13, AppendIs
    <2>3. l + 1 \in 1 .. l + 1 /\ \A i \in 1 .. l : i \in 1 .. l + 1
      OBVIOUS
    <2> QED BY <2>1, <2>2, <2>3
  <1>16. \A i \in 1 .. l : ToPartner(x, q[i])
    BY <1>5, <1>11, <1>14 DEF Messages
  <1>17. \A i \in 1 .. l : q[i].type \notin {"request", "accept"} /\ q[i].id # n + 1
    <2> TAKE i \in 1 .. l
    <2>1. q[i] \in UMessages
      BY <1>15
    <2> QED BY <1>1, <1>16, <2>1 DEF ToPartner, UMessages
  <1>18. \A i \in 1 .. l : ToPartner(z, q[i])
    <2> TAKE i \in 1 .. l
    <2>1. q[i] \in UMessages /\ ToPartner(x, q[i])
      BY <1>15, <1>16
    <2> QED BY <1>1, <1>8, <1>17, <2>1 DEF ToPartner, UMessages
  <1>19. ToPartner(z, s)
    BY <1>2, <1>8, <1>9 DEF ToPartner
  <1>20. ToPartner(z, m)
    <2>1. SameForAsker(m.profile, z.profile[requester])
      BY <1>3, <1>8 DEF SameForAsker
    <2> QED BY <1>3, <1>8, <1>9, <2>1 DEF ToPartner
  <1>21. \A i \in 1 .. Len(v) : ToPartner(z, v[i])
    <2> TAKE i \in 1 .. Len(v)
    <2>1. i \in 1 .. l \/ i = l + 1 \/ i = l + 2
      BY <1>15
    <2> QED BY <1>15, <1>18, <1>19, <1>20, <2>1
  <1>22. Once(v, "request")
    <2>1. \A i \in 1 .. Len(v) : v[i].type = "request" => i = l + 2
      <3> TAKE i \in 1 .. Len(v)
      <3>1. i \in 1 .. l \/ i = l + 1 \/ i = l + 2
        BY <1>15
      <3> QED BY <1>2, <1>15, <1>17, <3>1
    <2> QED BY <2>1 DEF Once
  <1>23. \A i \in 1 .. Len(x.chan[requester]) :
           ToAsker(z, x.chan[requester][i]) /\ x.chan[requester][i].id # n + 1
    <2> TAKE i \in 1 .. Len(x.chan[requester])
    <2>1. x.chan[requester][i] \in UMessages
      BY <1>5, StateParts, ElementOfSeq
    <2>2. ToAsker(x, x.chan[requester][i])
      BY <1>5 DEF Messages
    <2>3. PICK k \in UMessages : k = x.chan[requester][i]
      BY <2>1
    <2>4. ToAsker(x, k) /\ k.type # "accept" /\ k.id \in Nat /\ k.id <= n
      BY <1>1, <2>2, <2>3 DEF ToAsker, UMessages
    <2>5. k.id # n + 1 /\ k.id <= n + 1
      BY <2>4
    <2>6. ToAsker(z, k)
      BY <1>8, <2>4, <2>5 DEF ToAsker
    <2> QED BY <2>3, <2>5, <2>6
  <1>24. Messages(z)
    BY <1>5, <1>8, <1>11, <1>12, <1>13, <1>21, <1>22, <1>23 DEF Messages
  <1>25. Follows(z)
    <2>1. CASE requester = "source"
      <3>1. Partner = "sink"
        BY <1>7, <2>1
      <3>2. Carries(n + 1, m) /\ SameForBoth(m.profile, z.profile["source"])
        BY <1>3, <1>8, <2>1 DEF Carries, SameForBoth
      <3>3. Latest(v, n + 1, z.profile["source"]) /\ ~Silent(v, n + 1)
        <4>1. PICK k \in Nat : k = n + 1
          OBVIOUS
        <4> QED BY <1>6, <1>12, <1>13, <3>2, <4>1, LatestAppend
      <3> QED BY <1>8, <1>11, <1>12, <1>13, <2>1, <3>1, <3>3 DEF Follows
    <2>2. CASE requester = "sink"
      <3>1. Latest(z.chan["sink"], n + 1, z.profile["source"])
        BY <1>8, <1>23, <2>2, LatestNone
      <3> QED BY <1>8, <2>2, <3>1 DEF Follows
    <2> QED BY <1>7, <2>1, <2>2
  <1>26. AsSet(z, Partner)
    <2>1. z.status[Partner] = x.status[Partner] /\ (Partner \notin z.missed => Partner \notin x.missed)
      BY <1>6, <1>7, <1>8
    <2> QED BY <1>6, <1>7, <1>8, <2>1 DEF AsSet
  <1>27. AsSet(z, requester)
    <2>1. U!Proposed(z) = U!Proposed(x)
      BY <1>6 DEF U!Proposed
    <2>2. /\ U!Proposed(x).jitter = x.settings[requester].jitter
          /\ U!Proposed(x).denoise = x.settings[requester].denoise
      BY <1>5, ProposedIs
    <2> QED BY <1>6, <1>8, <2>1, <2>2 DEF AsSet
  <1> QED
    BY <1>4, <1>6, <1>7, <1>10, <1>24, <1>25, <1>26, <1>27 DEF UGood, UWeak

\* UWeak is about four of the fields.
LEMMA WeakFrame ==
  ASSUME requester \in U!Ends, NEW x, NEW z \in UState, UWeak(x), z.status = x.status, z.id = x.id,
         z.profile = x.profile, z.chan = x.chan
  PROVE  UWeak(z)
  <1>1. \A m : ToPartner(x, m) => ToPartner(z, m)
    BY DEF ToPartner
  <1>2. \A m : ToAsker(x, m) => ToAsker(z, m)
    BY DEF ToAsker
  <1>3. Messages(z)
    BY <1>1, <1>2 DEF UWeak, Messages
  <1>4. Phases(z)
    BY DEF UWeak, Phases
  <1>5. Follows(z)
    BY DEF UWeak, Follows
  <1> QED
    BY <1>3, <1>4, <1>5 DEF UWeak

\* What Reconfigure makes of the profile.
LEMMA ReconfiguredIs ==
  ASSUME requester \in U!Ends, NEW x \in UState, NEW e \in U!Ends
  PROVE  LET p == U!Reconfigured(x, e) IN
         /\ p \in U!Profile
         /\ p.quality = IF e = requester THEN U!Proposed(x).quality ELSE x.profile[e].quality
         /\ p.jitter = IF e = "sink" THEN x.settings[e].jitter ELSE x.profile[e].jitter
         /\ p.denoise = IF e = "source" THEN x.settings[e].denoise ELSE x.profile[e].denoise
  <1>1. /\ U!Proposed(x) \in U!Profile /\ x.profile[e] \in U!Profile
        /\ x.settings[e] \in U!Profile
    BY StateParts, ProposedIs
  <1> QED
    BY <1>1 DEF U!Reconfigured, U!Profile

\* reconfigure_route: whatever changed at end e, it has what it decides as its
\* settings say, and the other end will.
LEMMA ReconfigureGood ==
  ASSUME requester \in U!Ends, NEW x, UWeak(x), NEW e \in U!Ends, x.status[e] = "active",
         AsSet(x, U!Other(e))
  PROVE  LET z == U!Reconfigure(x, e) IN
         /\ UGood(z) /\ z.settings = x.settings
         /\ z.fallback \in {x.fallback, U!NoFallback}
         /\ z.id[requester] \in {x.id[requester], x.id[requester] + 1}
  <1>1. PICK p \in U!Profile : p = U!Reconfigured(x, e)
    BY ReconfiguredIs DEF UWeak
  <1>2. PICK c \in U!Profile : c = x.profile[e]
    BY StateParts DEF UWeak
  <1>3. x \in UState /\ Phases(x)
    BY DEF UWeak
  <1>4. /\ p.quality = IF e = requester THEN U!Proposed(x).quality ELSE c.quality
        /\ p.jitter = IF e = "sink" THEN x.settings[e].jitter ELSE c.jitter
        /\ p.denoise = IF e = "source" THEN x.settings[e].denoise ELSE c.denoise
    BY <1>1, <1>2, <1>3, ReconfiguredIs
  <1>5. PICK o \in U!Ends : o = U!Other(e)
    BY TwoEnds
  <1>6. /\ U!Ends = {"source", "sink"} /\ {e, o} = {requester, Partner} /\ o # e
        /\ {e, o} = {"source", "sink"} /\ Partner # requester
    BY <1>5, TwoEnds
  <1> DEFINE f == IF U!Forgets(x, e) THEN U!NoFallback ELSE x.fallback
             ms == x.missed \ {e}
             ps == [x.profile EXCEPT ![e] = p]
  <1>7. f \in [active: BOOLEAN, bad: Nat, good: Nat] /\ ms \in SUBSET U!Ends
        /\ ps \in [U!Ends -> U!Profile]
    BY <1>3 DEF UState, U!NoFallback
  <1>8. PICK y : y = [x EXCEPT !.fallback = f, !.missed = ms]
    OBVIOUS
  <1>9. PICK a : a = [y EXCEPT !.profile = ps]
    OBVIOUS
  <1>10. /\ y \in UState /\ y.settings = x.settings /\ y.status = x.status /\ y.id = x.id
         /\ y.profile = x.profile /\ y.chan = x.chan /\ y.fallback = f /\ y.missed = ms
    <2> HIDE DEF f, ms
    <2> QED BY <1>3, <1>7, <1>8 DEF UState
  <1>11. /\ a \in UState /\ a.settings = x.settings /\ a.status = x.status /\ a.id = x.id
         /\ a.profile = ps /\ a.chan = x.chan /\ a.fallback = f /\ a.missed = ms
    <2> HIDE DEF f, ms, ps
    <2> QED BY <1>7, <1>9, <1>10 DEF UState
  <1>12. U!Reconfigure(x, e) =
           CASE p = c -> y
             [] p # c /\ old /\ U!EncodingChanged(c, p) -> U!RestartRoute(y)
             [] OTHER -> IF U!Tells(e, c, p) THEN U!Send(a, e, "update") ELSE a
    <2>1. y = [x EXCEPT !.fallback = IF U!Forgets(x, e) THEN U!NoFallback ELSE @,
                        !.missed = @ \ {e}]
      BY <1>3, <1>8 DEF UState
    <2>2. a = [y EXCEPT !.profile[e] = p]
      BY <1>9, <1>10 DEF UState
    <2> HIDE DEF f, ms, ps
    <2> QED BY <1>1, <1>2, <2>1, <2>2 DEF U!Reconfigure
  <1>13. e = requester /\ f.active => x.settings[e].quality = "lossless"
    BY DEF U!Forgets, U!NoFallback
  <1>14. e # requester => f = x.fallback
    BY DEF U!Forgets
  <1>15. e = requester => U!Proposed(y) = U!Proposed(x) /\ U!Proposed(a) = U!Proposed(x)
    <2>1. CASE U!Forgets(x, e)
      <3>1. e = requester /\ x.settings[requester].quality # "lossless"
        BY <2>1 DEF U!Forgets
      <3>2. ~f.active
        BY <2>1 DEF U!NoFallback
      <3> HIDE DEF f, ms, ps
      <3> QED BY <1>3, <1>10, <1>11, <3>1, <3>2, ProposedIs
    <2>2. CASE ~U!Forgets(x, e)
      <3>1. f = x.fallback
        BY <2>2
      <3> HIDE DEF f, ms, ps
      <3> QED BY <1>10, <1>11, <3>1 DEF U!Proposed
    <2> QED BY <2>1, <2>2
  <1>16. \A z \in UState :
           /\ z.settings = x.settings /\ z.status = x.status /\ z.fallback = f
           /\ z.missed = ms /\ z.profile = ps
           => AsSet(z, e) /\ AsSet(z, o)
    <2> TAKE z \in UState
    <2> HAVE /\ z.settings = x.settings /\ z.status = x.status /\ z.fallback = f
             /\ z.missed = ms /\ z.profile = ps
    <2>1. z.profile[e] = p /\ z.profile[o] = x.profile[o]
      BY <1>3, <1>6 DEF UState
    <2>2. e = requester => U!Proposed(z) = U!Proposed(x)
      BY <1>11, <1>15 DEF U!Proposed
    <2>3. o \notin z.missed => o \notin x.missed
      BY <1>6
    <2>4. AsSet(z, e)
      <3> HIDE DEF f, ms, ps
      <3> QED BY <1>4, <1>13, <1>14, <2>1, <2>2 DEF AsSet
    <2>5. e = requester => o # requester
      BY <1>6
    <2>6. o = requester => U!Proposed(z) = U!Proposed(x) /\ z.fallback = x.fallback
      <3>1. o = requester => z.fallback = x.fallback
        BY <1>6, <1>14
      <3> HIDE DEF f, ms, ps
      <3> QED BY <3>1 DEF U!Proposed
    <2>7. AsSet(z, o)
      <3> HIDE DEF f, ms, ps
      <3> QED BY <1>5, <2>1, <2>3, <2>5, <2>6 DEF AsSet
    <2> QED BY <2>4, <2>7
  <1>17. CASE p = c
    <2>1. x.profile = ps
      BY <1>2, <1>3, <1>17 DEF UState
    <2>2. AsSet(y, e) /\ AsSet(y, o)
      <3> HIDE DEF f, ms, ps
      <3> QED BY <1>10, <1>16, <2>1
    <2>3. UWeak(y)
      BY <1>10, WeakFrame
    <2> HIDE DEF f, ms, ps
    <2>4. U!Reconfigure(x, e) = y
      BY <1>12, <1>17
    <2>5. f \in {x.fallback, U!NoFallback}
      BY DEF f
    <2> QED BY <1>6, <1>10, <2>2, <2>3, <2>4, <2>5 DEF UGood
  <1>18. CASE p # c /\ old /\ U!EncodingChanged(c, p)
    <2>1. e = requester /\ o = Partner
      BY <1>4, <1>6, <1>18 DEF U!EncodingChanged
    <2>2. UWeak(y)
      BY <1>10, WeakFrame
    <2>3. f \in {x.fallback, U!NoFallback}
      BY DEF f
    <2>4. AsSet(y, Partner)
      <3>1. Partner \notin ms => Partner \notin x.missed
        BY <1>6, <2>1
      <3> HIDE DEF f, ms, ps
      <3> QED BY <1>5, <1>6, <1>10, <2>1, <3>1 DEF AsSet
    <2> HIDE DEF f, ms, ps
    <2>5. U!Reconfigure(x, e) = U!RestartRoute(y)
      BY <1>12, <1>18
    <2>6. UGood(U!RestartRoute(y))
      BY <1>10, <1>13, <2>1, <2>2, <2>4, RestartWeak
    <2>7. PICK w : w = U!RestartRoute(y)
      OBVIOUS
    <2>8. /\ w.settings = y.settings /\ w.fallback = y.fallback
          /\ w.id = [y.id EXCEPT ![requester] = y.id[requester] + 1]
      BY <1>10, <2>7, RestartIs
    <2>9. w.id[requester] = x.id[requester] + 1
      BY <1>3, <1>10, <2>8 DEF UState
    <2> QED BY <1>10, <2>3, <2>5, <2>6, <2>7, <2>8, <2>9
  <1>19. CASE p # c /\ ~(old /\ U!EncodingChanged(c, p))
    <2>1. PICK tell \in BOOLEAN : tell <=> U!Tells(e, c, p)
      OBVIOUS
    <2>2. PICK z : z = IF tell THEN U!Send(a, e, "update") ELSE a
      OBVIOUS
    <2>3. U!Reconfigure(x, e) = z
      <3> HIDE DEF f, ms, ps
      <3> QED BY <1>12, <1>19, <2>1, <2>2
    <2>4. ps[e] = p
      BY <1>3 DEF UState
    <2>5. Sent(a, e, "update") = [type |-> "update", id |-> x.id[e], profile |-> p]
      <3> HIDE DEF f, ms, ps
      <3> QED BY <1>11, <2>4 DEF Sent
    <2>6. /\ z \in UState /\ z.settings = x.settings /\ z.status = x.status /\ z.id = x.id
          /\ z.profile = ps /\ z.fallback = f /\ z.missed = ms
          /\ z.chan = IF tell THEN [x.chan EXCEPT ![U!Other(e)] = Append(@, Sent(a, e, "update"))]
                      ELSE x.chan
      <3> HIDE DEF f, ms, ps
      <3>1. CASE tell
        <4>1. PICK w : w = U!Send(a, e, "update")
          OBVIOUS
        <4>2. /\ w \in UState
              /\ w.chan = [a.chan EXCEPT ![U!Other(e)] = Append(@, Sent(a, e, "update"))]
              /\ w.settings = a.settings /\ w.status = a.status /\ w.id = a.id
              /\ w.profile = a.profile /\ w.fallback = a.fallback /\ w.missed = a.missed
          BY <1>11, <4>1, SendIs
        <4>3. z = w
          BY <2>2, <3>1, <4>1
        <4> QED BY <1>11, <3>1, <4>2, <4>3
      <3>2. CASE ~tell
        BY <1>11, <2>2, <3>2
      <3> QED BY <3>1, <3>2
    <2>7. Changed(x, z, e, p, tell)
      BY <2>5, <2>6 DEF Changed
    <2>8. e = "sink" => SameForBoth(p, x.profile[e])
      BY <1>2, <1>4, <1>6 DEF SameForBoth
    <2>9. e = "source" /\ ~tell => SameForBoth(p, x.profile[e])
      BY <1>2, <1>4, <2>1 DEF SameForBoth, U!Tells
    <2>10. tell => e = requester \/ e = "source"
      BY <2>1 DEF U!Tells
    <2>10a. MayTell(x, e, p, tell)
      BY <1>6, <2>8, <2>9, <2>10 DEF MayTell
    <2>11. UWeak(z)
      <3> HIDE DEF f, ms, ps
      <3>1. /\ p \in U!Profile /\ tell \in BOOLEAN /\ UWeak(x) /\ x.status[e] = "active"
            /\ e \in U!Ends /\ requester \in U!Ends
        OBVIOUS
      <3> QED BY <2>7, <2>10a, <3>1, ChangedWeak
    <2>12. f \in {x.fallback, U!NoFallback}
      BY DEF f
    <2> HIDE DEF f, ms, ps
    <2>13. AsSet(z, e) /\ AsSet(z, o)
      BY <1>16, <2>6
    <2> QED BY <1>6, <2>3, <2>6, <2>11, <2>12, <2>13 DEF UGood
  <1> QED
    BY <1>17, <1>18, <1>19

----------------------------------------------------------------------------
(* The handlers.                                                           *)

\* What the numbers of changes and messages are, besides.
UBounds ==
  /\ requester \in U!Ends /\ old \in BOOLEAN
  /\ \A e \in U!Ends : settings[e] \in U!SettingsOf(e)
  /\ fallback \in [active: BOOLEAN, bad: 0 .. BadSecs, good: 0 .. GoodSecs]
  /\ id[requester] <= changes + 1 /\ changes \in 0 .. MaxChanges

UInv == UGood(U!Now) /\ UBounds

\* The invariants look at the end that asked, which stays the same.
LEMMA GoodAfter ==
  ASSUME UGood(U!Now), NEW x, UGood(x), U!Becomes(x)
  PROVE  UGood(U!Now)'
  <1>1. requester' = requester /\ x \in UState
    BY DEF U!Becomes, UGood, UWeak
  <1>2. U!Now' = x
    BY <1>1 DEF U!Now, U!Becomes, UState
  <1>3. Partner' = Partner
    BY <1>1 DEF Partner
  <1>4. \A p, o : (SameForBoth(p, o)' <=> SameForBoth(p, o)) /\ (SameForAsker(p, o)' <=> SameForAsker(p, o))
    BY <1>1 DEF SameForBoth, SameForAsker
  <1>5. \A m : (ToPartner(x, m)' <=> ToPartner(x, m)) /\ (ToAsker(x, m)' <=> ToAsker(x, m))
    BY <1>1, <1>3, <1>4 DEF ToPartner, ToAsker
  <1>6. Phases(x)' /\ Messages(x)'
    BY <1>1, <1>3, <1>4, <1>5 DEF Phases, Messages, Once, UGood, UWeak
  <1>7. Follows(x)'
    BY <1>1, <1>3, <1>4 DEF Follows, Latest, Silent, Carries, UGood, UWeak
  <1>8. \A e \in U!Ends : AsSet(x, e)'
    BY <1>1 DEF AsSet, U!Proposed, UGood
  <1>9. UGood(x)'
    BY <1>1, <1>6, <1>7, <1>8 DEF UGood, UWeak
  <1> QED BY <1>2, <1>9

\* z is x after end e took a message: its status, id and profile are new, and the
\* message is gone.
Took(x, z, e, s, n, p) ==
  /\ z \in UState /\ z.settings = x.settings /\ z.fallback = x.fallback
  /\ z.status[e] = s /\ z.id[e] = n /\ z.profile[e] = p /\ z.chan[e] = Tail(x.chan[e])
  /\ \A o \in U!Ends \ {e} :
       /\ z.status[o] = x.status[o] /\ z.id[o] = x.id[o]
       /\ z.profile[o] = x.profile[o] /\ z.chan[o] = x.chan[o]
       /\ o \in z.missed <=> o \in x.missed

\* The messages that are left, and the one that was taken.
LEMMA Taken ==
  ASSUME requester \in U!Ends, NEW x, UWeak(x), NEW e \in U!Ends, x.chan[e] # <<>>,
         NEW m, m = Head(x.chan[e])
  PROVE  /\ m \in UMessages /\ Tail(x.chan[e]) \in Seq(UMessages)
         /\ e = Partner => ToPartner(x, m)
         /\ e = requester => ToAsker(x, m)
         /\ \A i \in 1 .. Len(Tail(x.chan[e])) : \E j \in 1 .. Len(x.chan[e]) :
              Tail(x.chan[e])[i] = x.chan[e][j]
         /\ \A t \in {"request", "accept"} : Once(x.chan[e], t) =>
              /\ Once(Tail(x.chan[e]), t)
              /\ m.type = t => \A i \in 1 .. Len(Tail(x.chan[e])) : Tail(x.chan[e])[i].type # t
  <1>1. PICK q \in Seq(UMessages) : q = x.chan[e]
    BY StateParts DEF UWeak
  <1>2. /\ Tail(q) \in Seq(UMessages) /\ m \in UMessages /\ m = q[1]
        /\ Len(q) \in Nat /\ Len(q) >= 1 /\ Len(Tail(q)) = Len(q) - 1
        /\ \A i \in 1 .. Len(q) - 1 : Tail(q)[i] = q[i + 1]
    BY <1>1, TailIs
  <1>3. 1 \in 1 .. Len(q)
    BY <1>2
  <1>4. /\ e = Partner => ToPartner(x, m)
        /\ e = requester => ToAsker(x, m)
    BY <1>1, <1>2, <1>3 DEF UWeak, Messages
  <1>5. \A i \in 1 .. Len(Tail(q)) : \E j \in 1 .. Len(q) : Tail(q)[i] = q[j]
    <2> TAKE i \in 1 .. Len(Tail(q))
    <2>1. i + 1 \in 1 .. Len(q) /\ Tail(q)[i] = q[i + 1]
      BY <1>2
    <2> QED BY <2>1
  <1>6. \A t \in {"request", "accept"} : Once(q, t) =>
          /\ Once(Tail(q), t)
          /\ m.type = t => \A i \in 1 .. Len(Tail(q)) : Tail(q)[i].type # t
    BY <1>1, OnceTail
  <1> QED BY <1>1, <1>2, <1>4, <1>5, <1>6

\* A taken message leaves the invariant if what it changes does: Rests says what
\* has to be shown.
Rests(x, z, e) ==
  /\ Phases(z)
  /\ \A i \in 1 .. Len(x.chan[Partner]) :
       LET k == x.chan[Partner][i] IN
       ToPartner(x, k) /\ k \in UMessages
       /\ (e = Partner /\ Head(x.chan[e]).type = "request" => k.type # "request")
       => ToPartner(z, k)
  /\ \A i \in 1 .. Len(x.chan[requester]) :
       LET k == x.chan[requester][i] IN
       ToAsker(x, k) /\ k \in UMessages
       /\ (e = requester /\ Head(x.chan[e]).type = "accept" => k.type # "accept")
       => ToAsker(z, k)

\* The other messages still fit, and those of a type that comes once still do.
LEMMA TookMessages ==
  ASSUME requester \in U!Ends, NEW x, UWeak(x), NEW e \in U!Ends, x.chan[e] # <<>>,
         NEW z, NEW s, NEW n, NEW p, Took(x, z, e, s, n, p), Rests(x, z, e)
  PROVE  Messages(z)
  <1>1. /\ Partner \in U!Ends /\ Partner # requester
        /\ e = requester \/ e = Partner
    BY TwoEnds
  <1>2. PICK m : m = Head(x.chan[e])
    OBVIOUS
  <1>3. PICK t : t = Tail(x.chan[e])
    OBVIOUS
  <1>4. /\ \A i \in 1 .. Len(t) : \E j \in 1 .. Len(x.chan[e]) : t[i] = x.chan[e][j]
        /\ \A y \in {"request", "accept"} : Once(x.chan[e], y) =>
             /\ Once(t, y)
             /\ m.type = y => \A i \in 1 .. Len(t) : t[i].type # y
    BY <1>2, <1>3, Taken
  <1>5. \A o \in U!Ends : \A i \in 1 .. Len(x.chan[o]) : x.chan[o][i] \in UMessages
    <2> TAKE o \in U!Ends
    <2>1. x.chan[o] \in Seq(UMessages)
      BY StateParts DEF UWeak
    <2> QED BY <2>1, ElementOfSeq
  <1>6. Messages(x)
    BY DEF UWeak
  <1>7. z.chan[e] = t /\ \A o \in U!Ends \ {e} : z.chan[o] = x.chan[o]
    BY <1>3 DEF Took
  <1>8. CASE e = Partner
    <2>1. requester \in U!Ends \ {e}
      BY <1>1, <1>8
    <2>2. \A i \in 1 .. Len(t) : ToPartner(z, t[i])
      <3> TAKE i \in 1 .. Len(t)
      <3>1. PICK j \in 1 .. Len(x.chan[Partner]) : t[i] = x.chan[Partner][j]
        BY <1>4, <1>8
      <3>2. m.type = "request" => t[i].type # "request"
        BY <1>4, <1>6, <1>8 DEF Messages
      <3>3. ToPartner(x, t[i]) /\ t[i] \in UMessages
        BY <1>1, <1>5, <1>6, <3>1 DEF Messages
      <3> QED BY <1>2, <1>8, <3>1, <3>2, <3>3 DEF Rests
    <2>3. \A i \in 1 .. Len(x.chan[requester]) : ToAsker(z, x.chan[requester][i])
      BY <1>1, <1>5, <1>6, <1>8 DEF Messages, Rests
    <2> QED BY <1>4, <1>6, <1>7, <1>8, <2>1, <2>2, <2>3 DEF Messages
  <1>9. CASE e = requester
    <2>1. Partner \in U!Ends \ {e}
      BY <1>1, <1>9
    <2>2. \A i \in 1 .. Len(t) : ToAsker(z, t[i])
      <3> TAKE i \in 1 .. Len(t)
      <3>1. PICK j \in 1 .. Len(x.chan[requester]) : t[i] = x.chan[requester][j]
        BY <1>4, <1>9
      <3>2. m.type = "accept" => t[i].type # "accept"
        BY <1>4, <1>6, <1>9 DEF Messages
      <3>3. ToAsker(x, t[i]) /\ t[i] \in UMessages
        BY <1>5, <1>6, <3>1 DEF Messages
      <3> QED BY <1>2, <1>9, <3>1, <3>2, <3>3 DEF Rests
    <2>3. \A i \in 1 .. Len(x.chan[Partner]) : ToPartner(z, x.chan[Partner][i])
      BY <1>1, <1>5, <1>6, <1>9 DEF Messages, Rests
    <2> QED BY <1>4, <1>6, <1>7, <1>9, <2>1, <2>2, <2>3 DEF Messages
  <1> QED BY <1>1, <1>8, <1>9

\* The same for what the end that plays follows.  The source's profile stays as
\* far as both must have it.
LEMMA TookFollows ==
  ASSUME requester \in U!Ends, NEW x, UWeak(x), NEW e \in U!Ends, x.chan[e] # <<>>,
         NEW z, NEW s, NEW n, NEW p, Took(x, z, e, s, n, p),
         z.id[requester] = x.id[requester],
         SameForBoth(z.profile["source"], x.profile["source"]),
         e = "source" =>
           (z.id[Partner] = z.id[requester] /\ z.status["sink"] # "requesting"
            => x.id[Partner] = x.id[requester] /\ x.status["sink"] # "requesting"),
         e = "sink" =>
           (z.id[Partner] = z.id[requester] /\ z.status["sink"] # "requesting"
            => IF Carries(x.id[requester], Head(x.chan[e]))
               THEN SameForBoth(p, Head(x.chan[e]).profile)
               ELSE /\ x.id[Partner] = x.id[requester] /\ x.status["sink"] # "requesting"
                    /\ SameForBoth(p, x.profile["sink"]))
  PROVE  Follows(z)
  <1>1. PICK q \in Seq(UMessages) : q = x.chan["sink"]
    BY TwoEnds, StateParts DEF UWeak
  <1>2. PICK k \in Nat : k = x.id[requester]
    BY StateParts DEF UWeak
  <1>3. PICK o : o = x.profile["source"]
    OBVIOUS
  <1>4. /\ Latest(q, k, o)
        /\ Silent(q, k) /\ x.id[Partner] = k /\ x.status["sink"] # "requesting"
             => SameForBoth(x.profile["sink"], o)
    BY <1>1, <1>2, <1>3 DEF UWeak, Follows
  <1>5. SameForBoth(z.profile["source"], o)
    BY <1>3
  <1>6. U!Ends = {"source", "sink"}
    BY TwoEnds
  <1>7. CASE e = "source"
    <2>1. z.chan["sink"] = q /\ z.profile["sink"] = x.profile["sink"]
      BY <1>1, <1>6, <1>7 DEF Took
    <2>2. Latest(q, k, z.profile["source"])
      BY <1>4, <1>5, LatestSame
    <2> QED BY <1>2, <1>3, <1>4, <1>5, <1>7, <2>1, <2>2 DEF Follows, SameForBoth
  <1>8. CASE e = "sink"
    <2>1. z.chan["sink"] = Tail(q) /\ z.profile["sink"] = p /\ q # <<>>
      BY <1>1, <1>8 DEF Took
    <2>2. /\ Latest(Tail(q), k, o)
          /\ Silent(Tail(q), k) /\ Carries(k, Head(q)) => SameForBoth(Head(q).profile, o)
          /\ Silent(Tail(q), k) /\ ~Carries(k, Head(q)) => Silent(q, k)
      BY <1>4, <2>1, LatestTail
    <2>3. Latest(Tail(q), k, z.profile["source"])
      BY <1>5, <2>2, LatestSame
    <2>4. ASSUME Silent(Tail(q), k), z.id[Partner] = k, z.status["sink"] # "requesting"
          PROVE  SameForBoth(p, o)
      <3>1. CASE Carries(k, Head(q))
        BY <1>1, <1>2, <1>8, <2>2, <2>4, <3>1 DEF SameForBoth
      <3>2. CASE ~Carries(k, Head(q))
        BY <1>1, <1>2, <1>4, <1>8, <2>2, <2>4, <3>2 DEF SameForBoth
      <3> QED BY <3>1, <3>2
    <2> QED BY <1>2, <1>5, <2>1, <2>3, <2>4 DEF Follows, SameForBoth
  <1> QED BY <1>6, <1>7, <1>8

\* on_route_request and accept_route: the acceptor puts in what is its own.
LEMMA RequestGood ==
  ASSUME requester \in U!Ends, NEW x, UGood(x), NEW e \in U!Ends, x.chan[e] # <<>>,
         NEW m, m = Head(x.chan[e]), m.type = "request",
         NEW z, NEW p, Took(x, z, e, "starting", m.id, p),
         e = "source" => /\ p.denoise = x.settings[e].denoise
                         /\ p.quality = m.profile.quality /\ p.jitter = m.profile.jitter,
         e = "sink" => /\ p.jitter = x.settings[e].jitter
                       /\ p.quality = m.profile.quality /\ p.denoise = m.profile.denoise
  PROVE  UGood(z)
  <1>1. /\ U!Ends = {"source", "sink"} /\ Partner \in U!Ends /\ Partner # requester
        /\ e = requester \/ e = Partner
    BY TwoEnds
  <1>2. UWeak(x) /\ x \in UState /\ Phases(x) /\ \A o \in U!Ends : AsSet(x, o)
    BY DEF UGood, UWeak
  <1>3. /\ m \in UMessages
        /\ e = Partner => ToPartner(x, m)
        /\ e = requester => ToAsker(x, m)
    BY <1>2, Taken
  <1>4. e = Partner /\ ToPartner(x, m)
    BY <1>1, <1>3 DEF ToAsker
  <1>5. requester \in U!Ends \ {e}
    BY <1>1, <1>4
  <1>6. /\ z.status[requester] = x.status[requester] /\ z.id[requester] = x.id[requester]
        /\ z.profile[requester] = x.profile[requester]
        /\ z.status[Partner] = "starting" /\ z.id[Partner] = m.id /\ z.profile[Partner] = p
        /\ z.settings = x.settings /\ z.fallback = x.fallback /\ z \in UState
    BY <1>4, <1>5 DEF Took
  <1>7. /\ m.id = x.id[requester] /\ x.status[requester] = "requesting"
        /\ x.id[Partner] # m.id /\ m.id >= 1
        /\ SameForAsker(m.profile, x.profile[requester])
    BY <1>4 DEF ToPartner
  <1>8. SameForAsker(p, z.profile[requester])
    BY <1>1, <1>4, <1>6, <1>7 DEF SameForAsker
  <1>9. Phases(z)
    <2>1. x.id[requester] \in Nat
      BY <1>2, StateParts
    <2> QED BY <1>2, <1>6, <1>7, <1>8, <2>1 DEF Phases
  <1>10. ASSUME NEW k \in UMessages, ToPartner(x, k), k.type # "request"
         PROVE  ToPartner(z, k)
    BY <1>6, <1>10 DEF ToPartner
  <1>11. ASSUME NEW k \in UMessages, ToAsker(x, k)
         PROVE  k.id # x.id[requester] /\ ToAsker(z, k)
    <2>1. k.id # x.id[requester]
      BY <1>7, <1>11 DEF ToAsker
    <2> QED BY <1>6, <1>11, <2>1 DEF ToAsker
  <1>12. Rests(x, z, e)
    BY <1>4, <1>9, <1>10, <1>11 DEF Rests
  <1>13. Messages(z)
    BY <1>2, <1>12, TookMessages
  <1>14. Follows(z)
    <2>1. CASE e = "sink"
      <3>1. requester = "source"
        BY <1>1, <1>4, <2>1
      <3>2. SameForBoth(z.profile["source"], x.profile["source"])
        BY <1>6, <3>1 DEF SameForBoth
      <3>3. Carries(x.id[requester], m) /\ SameForBoth(p, m.profile)
        BY <1>7, <2>1 DEF Carries, SameForBoth
      <3> QED BY <1>2, <1>6, <2>1, <3>2, <3>3, TookFollows
    <2>2. CASE e = "source"
      <3>1. requester = "sink"
        BY <1>1, <1>4, <2>2
      <3>2. z.chan["sink"] = x.chan["sink"]
        BY <1>5, <3>1 DEF Took
      <3>3. \A i \in 1 .. Len(x.chan["sink"]) : x.chan["sink"][i].id # x.id[requester]
        <4> TAKE i \in 1 .. Len(x.chan["sink"])
        <4>1. x.chan["sink"][i] \in UMessages
          BY <1>1, <1>2, StateParts, ElementOfSeq
        <4>2. ToAsker(x, x.chan["sink"][i])
          BY <1>2, <3>1 DEF UWeak, Messages
        <4> QED BY <1>11, <4>1, <4>2
      <3>4. Latest(z.chan["sink"], z.id[requester], z.profile["source"])
        BY <1>6, <3>2, <3>3, LatestNone
      <3> QED BY <1>6, <1>7, <3>1, <3>4 DEF Follows
    <2> QED BY <1>1, <2>1, <2>2
  <1>15. AsSet(z, Partner)
    BY <1>1, <1>4, <1>6 DEF AsSet
  <1>16. AsSet(z, requester)
    <2>1. U!Proposed(z) = U!Proposed(x)
      BY <1>6 DEF U!Proposed
    <2>2. requester \notin z.missed => requester \notin x.missed
      BY <1>5 DEF Took
    <2> QED BY <1>2, <1>6, <2>1, <2>2 DEF AsSet
  <1> QED
    BY <1>1, <1>4, <1>6, <1>9, <1>13, <1>14, <1>15, <1>16 DEF UGood, UWeak

\* on_route_accept: the answer leaves what the end that asked decides as it was.
LEMMA AcceptGood ==
  ASSUME requester \in U!Ends, NEW x, UGood(x), NEW e \in U!Ends, x.chan[e] # <<>>,
         NEW m, m = Head(x.chan[e]), m.type = "accept",
         NEW z, Took(x, z, e, "starting", x.id[e], m.profile), e \in z.missed <=> e \in x.missed
  PROVE  UGood(z)
  <1>1. /\ U!Ends = {"source", "sink"} /\ Partner \in U!Ends /\ Partner # requester
        /\ e = requester \/ e = Partner
    BY TwoEnds
  <1>2. UWeak(x) /\ x \in UState /\ Phases(x) /\ \A o \in U!Ends : AsSet(x, o)
    BY DEF UGood, UWeak
  <1>3. /\ m \in UMessages
        /\ e = Partner => ToPartner(x, m)
        /\ e = requester => ToAsker(x, m)
    BY <1>2, Taken
  <1>4. e = requester /\ ToAsker(x, m)
    BY <1>1, <1>3 DEF ToPartner
  <1>5. Partner \in U!Ends \ {e}
    BY <1>1, <1>4
  <1>6. /\ z.status[Partner] = x.status[Partner] /\ z.id[Partner] = x.id[Partner]
        /\ z.profile[Partner] = x.profile[Partner]
        /\ z.status[requester] = "starting" /\ z.id[requester] = x.id[requester]
        /\ z.profile[requester] = m.profile
        /\ z.settings = x.settings /\ z.fallback = x.fallback /\ z \in UState
    BY <1>4, <1>5 DEF Took
  <1>7. /\ m.id = x.id[requester] /\ x.status[requester] = "requesting"
        /\ x.id[Partner] = m.id /\ x.status[Partner] = "active"
        /\ SameForAsker(m.profile, x.profile[requester])
    BY <1>4 DEF ToAsker
  <1>8. Phases(z)
    BY <1>2, <1>6, <1>7 DEF Phases
  <1>9. ASSUME NEW k \in UMessages, ToPartner(x, k)
        PROVE  ToPartner(z, k)
    BY <1>6, <1>7, <1>9 DEF ToPartner
  <1>10. ASSUME NEW k \in UMessages, ToAsker(x, k), k.type # "accept"
         PROVE  ToAsker(z, k)
    BY <1>6, <1>10 DEF ToAsker
  <1>11. Rests(x, z, e)
    BY <1>4, <1>8, <1>9, <1>10 DEF Rests
  <1>12. Messages(z)
    BY <1>2, <1>11, TookMessages
  <1>13. Follows(z)
    <2>1. CASE e = "sink"
      <3>1. Partner = "source"
        BY <1>1, <1>4, <2>1
      <3>2. SameForBoth(z.profile["source"], x.profile["source"])
        BY <1>6, <3>1 DEF SameForBoth
      <3>3. Carries(x.id[requester], m) /\ SameForBoth(m.profile, m.profile)
        BY <1>7 DEF Carries, SameForBoth
      <3> QED BY <1>2, <1>6, <2>1, <3>2, <3>3, TookFollows
    <2>2. CASE e = "source"
      <3>1. requester = "source" /\ Partner = "sink"
        BY <1>1, <1>4, <2>2
      <3>2. SameForBoth(z.profile["source"], x.profile["source"])
        BY <1>6, <1>7, <3>1 DEF SameForBoth, SameForAsker
      <3>3. x.status["sink"] # "requesting" /\ z.status["sink"] # "requesting"
            /\ z.id[Partner] = x.id[Partner]
        BY <1>6, <1>7, <3>1
      <3>4. e = "source" => (z.id[Partner] = z.id[requester] /\ z.status["sink"] # "requesting"
              => x.id[Partner] = x.id[requester] /\ x.status["sink"] # "requesting")
        BY <1>6, <3>3
      <3>5. e # "sink"
        BY <2>2
      <3> QED BY <1>2, <1>6, <2>2, <3>2, <3>4, <3>5, TookFollows
    <2> QED BY <1>1, <2>1, <2>2
  <1>14. AsSet(z, requester)
    <2>1. U!Proposed(z) = U!Proposed(x)
      BY <1>6 DEF U!Proposed
    <2>2. x.status[requester] # "none" /\ AsSet(x, requester)
      BY <1>1, <1>2, <1>7
    <2>3. requester = "source" =>
            m.profile.denoise = x.profile[requester].denoise
            /\ m.profile.quality = x.profile[requester].quality
      BY <1>7 DEF SameForAsker
    <2>4. requester = "sink" => m.profile.jitter = x.profile[requester].jitter
      BY <1>7 DEF SameForAsker
    <2> QED BY <1>4, <1>6, <2>1, <2>2, <2>3, <2>4 DEF AsSet
  <1>15. AsSet(z, Partner)
    <2>1. Partner \notin z.missed => Partner \notin x.missed
      BY <1>5 DEF Took
    <2> QED BY <1>1, <1>2, <1>6, <2>1 DEF AsSet
  <1> QED
    BY <1>1, <1>4, <1>6, <1>8, <1>12, <1>13, <1>14, <1>15 DEF UGood, UWeak

\* on_route_update: an end keeps what is its own, and an update of another route
\* is ignored.
LEMMA UpdateGood ==
  ASSUME requester \in U!Ends, NEW x, UGood(x), NEW e \in U!Ends, x.chan[e] # <<>>,
         NEW m, m = Head(x.chan[e]), m.type = "update",
         NEW z, NEW p, Took(x, z, e, x.status[e], x.id[e], p), e \in z.missed <=> e \in x.missed,
         x.id[e] # m.id => p = x.profile[e],
         x.id[e] = m.id /\ e = "source" =>
           p.denoise = x.profile[e].denoise /\ p.quality = m.profile.quality,
         x.id[e] = m.id /\ e = "sink" =>
           /\ p.jitter = x.profile[e].jitter
           /\ p.quality = m.profile.quality /\ p.denoise = m.profile.denoise
  PROVE  UGood(z)
  <1>1. /\ U!Ends = {"source", "sink"} /\ Partner \in U!Ends /\ Partner # requester
        /\ e = requester \/ e = Partner
    BY TwoEnds
  <1>2. UWeak(x) /\ x \in UState /\ Phases(x) /\ \A o \in U!Ends : AsSet(x, o)
    BY DEF UGood, UWeak
  <1>3. /\ m \in UMessages
        /\ e = Partner => ToPartner(x, m)
        /\ e = requester => ToAsker(x, m)
    BY <1>2, Taken
  <1>4. e = requester => requester = "sink"
    BY <1>1, <1>3 DEF ToAsker
  <1>5. z.status = x.status /\ z.id = x.id /\ z \in UState
        /\ z.settings = x.settings /\ z.fallback = x.fallback
    <2>1. z \in UState /\ z.settings = x.settings /\ z.fallback = x.fallback
      BY DEF Took
    <2>2. \A o \in U!Ends : z.status[o] = x.status[o] /\ z.id[o] = x.id[o]
      BY DEF Took
    <2>3. /\ z.status \in [U!Ends -> {"none", "requesting", "starting", "active"}]
          /\ x.status \in [U!Ends -> {"none", "requesting", "starting", "active"}]
          /\ z.id \in [U!Ends -> Nat] /\ x.id \in [U!Ends -> Nat]
      BY <1>2, <2>1 DEF UState
    <2>4. z.status = x.status /\ z.id = x.id
      BY <2>2, <2>3
    <2> QED BY <2>1, <2>4
  <1>6. z.profile[e] = p /\ \A o \in U!Ends \ {e} : z.profile[o] = x.profile[o]
    BY DEF Took
  <1>7. e = requester => SameForAsker(p, x.profile[requester])
    BY <1>4 DEF SameForAsker
  <1>8. e = requester => \A o : SameForAsker(o, x.profile[requester]) => SameForAsker(o, z.profile[requester])
    BY <1>4, <1>6, <1>7 DEF SameForAsker
  <1>9. e = Partner => z.profile[requester] = x.profile[requester]
    BY <1>1, <1>6
  <1>10. e = Partner /\ x.status[Partner] = "starting" => z.profile[Partner] = x.profile[Partner]
    <2> SUFFICES ASSUME e = Partner, x.status[Partner] = "starting", x.id[e] = m.id PROVE FALSE
      BY <1>6
    <2>1. x.status[requester] = "requesting" /\ x.id[Partner] = x.id[requester]
      BY <1>2 DEF Phases
    <2>2. ToPartner(x, m)
      BY <1>3
    <2> QED BY <2>1, <2>2 DEF ToPartner
  <1>11. Phases(z)
    <2>1. x.status[Partner] = "starting" => SameForAsker(z.profile[Partner], z.profile[requester])
      <3> SUFFICES ASSUME x.status[Partner] = "starting"
                   PROVE  SameForAsker(z.profile[Partner], z.profile[requester])
        OBVIOUS
      <3>1. SameForAsker(x.profile[Partner], x.profile[requester])
        BY <1>2 DEF Phases
      <3>2. CASE e = Partner
        BY <1>9, <1>10, <3>1, <3>2
      <3>3. CASE e = requester
        <4>1. z.profile[Partner] = x.profile[Partner]
          BY <1>1, <1>6, <3>3
        <4> QED BY <1>8, <3>1, <3>3, <4>1
      <3> QED BY <1>1, <3>2, <3>3
    <2> QED BY <1>2, <1>5, <2>1 DEF Phases
  <1>12. ASSUME NEW k \in UMessages, ToPartner(x, k)
         PROVE  ToPartner(z, k)
    <2>1. SameForAsker(k.profile, x.profile[requester]) => SameForAsker(k.profile, z.profile[requester])
      BY <1>1, <1>8, <1>9
    <2> QED BY <1>5, <1>12, <2>1 DEF ToPartner
  <1>13. ASSUME NEW k \in UMessages, ToAsker(x, k)
         PROVE  ToAsker(z, k)
    <2>1. SameForAsker(k.profile, x.profile[requester]) => SameForAsker(k.profile, z.profile[requester])
      BY <1>1, <1>8, <1>9
    <2> QED BY <1>5, <1>13, <2>1 DEF ToAsker
  <1>14. Rests(x, z, e)
    BY <1>11, <1>12, <1>13 DEF Rests
  <1>15. Messages(z)
    BY <1>2, <1>14, TookMessages
  <1>16. z.id[requester] = x.id[requester] /\ z.id[Partner] = x.id[Partner]
         /\ z.status["sink"] = x.status["sink"]
    BY <1>5
  <1>17. Follows(z)
    <2>1. CASE e = "sink"
      <3>1. SameForBoth(z.profile["source"], x.profile["source"])
        BY <1>1, <1>6, <2>1 DEF SameForBoth
      <3>2. ASSUME x.id[Partner] = x.id[requester], x.status["sink"] # "requesting"
            PROVE  IF Carries(x.id[requester], m) THEN SameForBoth(p, m.profile)
                   ELSE SameForBoth(p, x.profile["sink"])
        <4>1. x.id[e] = x.id[requester]
          BY <1>1, <3>2
        <4>2. Carries(x.id[requester], m) <=> m.id = x.id[requester]
          BY DEF Carries
        <4> QED BY <2>1, <4>1, <4>2 DEF SameForBoth
      <3> QED BY <1>2, <1>16, <2>1, <3>1, <3>2, TookFollows
    <2>2. CASE e = "source"
      <3>1. requester = "sink"
        BY <1>1, <1>4, <2>2
      <3>2. SameForBoth(z.profile["source"], x.profile["source"])
        BY <1>6, <2>2, <3>1 DEF SameForBoth
      <3>3. e # "sink"
        BY <2>2
      <3> QED BY <1>2, <1>16, <3>2, <3>3, TookFollows
    <2> QED BY <1>1, <2>1, <2>2
  <1>18. ASSUME NEW o \in U!Ends
         PROVE  AsSet(z, o)
    <2>1. U!Proposed(z) = U!Proposed(x)
      BY <1>5 DEF U!Proposed
    <2>2. o \in z.missed <=> o \in x.missed
      BY DEF Took
    <2>3. AsSet(x, o)
      BY <1>2
    <2>4. CASE o # e
      <3>1. z.profile[o] = x.profile[o]
        BY <1>6, <2>4
      <3> QED BY <1>5, <2>1, <2>2, <2>3, <3>1 DEF AsSet
    <2>5. CASE o = e
      <3>1. e = "source" => p.denoise = x.profile[e].denoise
        OBVIOUS
      <3>2. e = "sink" => p.jitter = x.profile[e].jitter
        OBVIOUS
      <3>3. ~(e = requester /\ e = "source")
        BY <1>4
      <3> QED BY <1>5, <1>6, <2>2, <2>3, <2>5, <3>1, <3>2, <3>3 DEF AsSet
    <2> QED BY <2>4, <2>5
  <1> QED
    BY <1>5, <1>11, <1>15, <1>17, <1>18 DEF UGood, UWeak

\* RouteStop: it ends a route that another one has replaced.
LEMMA StopGood ==
  ASSUME requester \in U!Ends, NEW x, UGood(x), NEW e \in U!Ends, x.chan[e] # <<>>,
         NEW m, m = Head(x.chan[e]), m.type = "stop",
         NEW z, NEW s, NEW n, Took(x, z, e, s, n, x.profile[e]), e \in z.missed <=> e \in x.missed,
         IF x.id[e] = m.id THEN s = "none" /\ n = 0 ELSE s = x.status[e] /\ n = x.id[e]
  PROVE  UGood(z)
  <1>1. /\ U!Ends = {"source", "sink"} /\ Partner \in U!Ends /\ Partner # requester
        /\ e = requester \/ e = Partner
    BY TwoEnds
  <1>2. UWeak(x) /\ x \in UState /\ Phases(x) /\ \A o \in U!Ends : AsSet(x, o)
    BY DEF UGood, UWeak
  <1>3. /\ m \in UMessages
        /\ e = Partner => ToPartner(x, m)
        /\ e = requester => ToAsker(x, m)
    BY <1>2, Taken
  <1>4. e = Partner /\ ToPartner(x, m)
    BY <1>1, <1>3 DEF ToAsker
  <1>5. requester \in U!Ends \ {e}
    BY <1>1, <1>4
  <1>6. /\ z.status[requester] = x.status[requester] /\ z.id[requester] = x.id[requester]
        /\ z.status[Partner] = s /\ z.id[Partner] = n
        /\ z.settings = x.settings /\ z.fallback = x.fallback /\ z \in UState
        /\ \A o \in U!Ends : z.profile[o] = x.profile[o]
    BY <1>4, <1>5 DEF Took
  <1>7. m.id # x.id[requester] /\ m.id >= 1
    BY <1>4 DEF ToPartner
  <1>8. x.id[requester] \in Nat /\ x.id[Partner] \in Nat
    BY <1>1, <1>2, StateParts
  <1>9. x.id[e] = m.id => x.status[requester] = "requesting"
    BY <1>1, <1>2, <1>4, <1>7 DEF Phases
  <1>10. Phases(z)
    BY <1>1, <1>2, <1>4, <1>6, <1>7, <1>8, <1>9 DEF Phases
  <1>11. ASSUME NEW k \in UMessages, ToPartner(x, k)
         PROVE  ToPartner(z, k)
    <2>1. k.id >= 1 /\ k.id \in Nat /\ (x.id[Partner] # k.id => z.id[Partner] # k.id)
      BY <1>4, <1>6, <1>11 DEF ToPartner, UMessages
    <2> QED BY <1>1, <1>6, <1>11, <2>1 DEF ToPartner
  <1>12. ASSUME NEW k \in UMessages, ToAsker(x, k)
         PROVE  ToAsker(z, k)
    BY <1>1, <1>4, <1>6, <1>7, <1>12 DEF ToAsker
  <1>13. Rests(x, z, e)
    BY <1>10, <1>11, <1>12 DEF Rests
  <1>14. Messages(z)
    BY <1>2, <1>13, TookMessages
  <1>15. z.id[Partner] = z.id[requester] => x.id[e] # m.id
    BY <1>1, <1>2, <1>6 DEF Phases
  <1>16. Follows(z)
    <2>1. SameForBoth(z.profile["source"], x.profile["source"])
      BY <1>1, <1>6 DEF SameForBoth
    <2>2. z.id[Partner] = z.id[requester] /\ z.status["sink"] # "requesting"
          => x.id[Partner] = x.id[requester] /\ x.status["sink"] # "requesting"
      BY <1>1, <1>4, <1>6, <1>15
    <2>3. ~Carries(x.id[requester], m) /\ SameForBoth(x.profile[e], x.profile[e])
      BY DEF Carries, SameForBoth
    <2> QED BY <1>2, <1>6, <2>1, <2>2, <2>3, TookFollows
  <1>17. ASSUME NEW o \in U!Ends
         PROVE  AsSet(z, o)
    <2>1. U!Proposed(z) = U!Proposed(x)
      BY <1>6 DEF U!Proposed
    <2>2. o \in z.missed <=> o \in x.missed
      BY DEF Took
    <2>3. z.status[o] # "none" => x.status[o] # "none"
      BY <1>1, <1>4, <1>6
    <2> QED BY <1>2, <1>6, <2>1, <2>2, <2>3 DEF AsSet
  <1> QED
    BY <1>6, <1>10, <1>14, <1>16, <1>17 DEF UGood, UWeak

\* activate_route: the end that was asked answers with the profile it has.
LEMMA ActivateGood ==
  ASSUME requester \in U!Ends, NEW x, UGood(x), NEW e \in U!Ends, x.status[e] = "starting",
         NEW z \in UState, z.settings = x.settings, z.fallback = x.fallback, z.id = x.id,
         z.profile = x.profile, z.missed = x.missed,
         z.status = [x.status EXCEPT ![e] = "active"],
         z.chan = IF e = requester THEN x.chan
                  ELSE [x.chan EXCEPT ![requester] = Append(@, Sent(x, e, "accept"))]
  PROVE  UGood(z)
  <1>1. /\ U!Ends = {"source", "sink"} /\ Partner \in U!Ends /\ Partner # requester
        /\ e = requester \/ e = Partner
    BY TwoEnds
  <1>2. UWeak(x) /\ x \in UState /\ Phases(x) /\ \A o \in U!Ends : AsSet(x, o)
    BY DEF UGood, UWeak
  <1>3. /\ z.status[e] = "active" /\ \A o \in U!Ends \ {e} : z.status[o] = x.status[o]
    BY <1>2 DEF UState
  <1>4. z.chan[Partner] = x.chan[Partner]
    BY <1>1, <1>2 DEF UState
  <1>5. PICK m : m = Sent(x, e, "accept")
    OBVIOUS
  <1>6. m \in UMessages
    BY <1>2, <1>5, SendIs
  <1>7. PICK q \in Seq(UMessages) : q = x.chan[requester]
    BY <1>2, StateParts
  <1>8. z.chan[requester] = IF e = requester THEN q ELSE Append(q, m)
    BY <1>2, <1>5, <1>7 DEF UState
  <1>9. z.status[requester] # "requesting" <=> x.status[requester] # "requesting"
    BY <1>1, <1>3
  <1>10. Phases(z)
    BY <1>1, <1>2, <1>3 DEF Phases
  <1>11. \A k : ToPartner(x, k) => ToPartner(z, k)
    BY <1>9 DEF ToPartner
  <1>12. \A k : ToAsker(x, k) => ToAsker(z, k)
    BY <1>1, <1>3, <1>9 DEF ToAsker
  <1>13. e = Partner =>
           /\ x.status[requester] = "requesting" /\ x.id[Partner] = x.id[requester]
           /\ SameForAsker(x.profile[Partner], x.profile[requester])
           /\ x.id[requester] >= 1 /\ x.id[requester] \in Nat
    BY <1>2, StateParts DEF Phases
  <1>14. e = Partner => ToAsker(z, m)
    BY <1>1, <1>3, <1>5, <1>13 DEF ToAsker, Sent
  <1>15. e = Partner => \A i \in 1 .. Len(q) : q[i].id # x.id[requester] /\ q[i].type # "accept"
    <2> SUFFICES ASSUME e = Partner, NEW i \in 1 .. Len(q)
                 PROVE  q[i].id # x.id[requester] /\ q[i].type # "accept"
      OBVIOUS
    <2>1. ToAsker(x, q[i])
      BY <1>2, <1>7 DEF UWeak, Messages
    <2> QED BY <2>1 DEF ToAsker
  <1>16. Messages(z)
    <2>1. Messages(x)
      BY <1>2 DEF UWeak
    <2>2. \A i \in 1 .. Len(z.chan[requester]) : ToAsker(z, z.chan[requester][i])
      <3>1. CASE e = requester
        BY <1>7, <1>8, <1>12, <2>1, <3>1 DEF Messages
      <3>2. CASE e = Partner
        <4>1. /\ Len(q) \in Nat /\ Len(Append(q, m)) = Len(q) + 1
              /\ \A i \in 1 .. Len(q) : Append(q, m)[i] = q[i]
              /\ Append(q, m)[Len(q) + 1] = m
          BY <1>6, AppendIs
        <4>2. z.chan[requester] = Append(q, m)
          BY <1>1, <1>8, <3>2
        <4>3. \A i \in 1 .. Len(q) : ToAsker(z, q[i])
          BY <1>7, <1>12, <2>1 DEF Messages
        <4>4. \A i \in 1 .. Len(q) + 1 : ToAsker(z, Append(q, m)[i])
          <5> TAKE i \in 1 .. Len(q) + 1
          <5>1. i \in 1 .. Len(q) \/ i = Len(q) + 1
            BY <4>1
          <5> QED BY <1>14, <3>2, <4>1, <4>3, <5>1
        <4> QED BY <4>1, <4>2, <4>4
      <3> QED BY <1>1, <3>1, <3>2
    <2>3. Once(z.chan[requester], "accept")
      <3>1. Once(q, "accept")
        BY <1>7, <2>1 DEF Messages
      <3>2. e = Partner => Once(Append(q, m), "accept")
        BY <1>6, <1>15, <3>1, OnceAppend
      <3> QED BY <1>1, <1>8, <3>1, <3>2
    <2> QED BY <1>4, <1>11, <2>1, <2>2, <2>3 DEF Messages
  <1>17. Follows(z)
    <2>1. Follows(x)
      BY <1>2 DEF UWeak
    <2>2. CASE z.chan["sink"] = x.chan["sink"]
      <3>1. z.status["sink"] # "requesting" => x.status["sink"] # "requesting"
        BY <1>1, <1>3
      <3> QED BY <2>1, <2>2, <3>1 DEF Follows
    <2>3. CASE z.chan["sink"] # x.chan["sink"]
      <3>1. requester = "sink" /\ e = Partner /\ e = "source"
        BY <1>1, <1>4, <1>7, <1>8, <2>3
      <3>2. Carries(x.id[requester], m) /\ SameForBoth(m.profile, x.profile["source"])
        BY <1>5, <1>13, <3>1 DEF Carries, SameForBoth, Sent
      <3>3. PICK k \in Nat : k = x.id[requester]
        BY <1>13, <3>1
      <3>4. /\ Latest(Append(q, m), k, x.profile["source"])
            /\ ~Silent(Append(q, m), k)
        BY <1>6, <3>2, <3>3, LatestAppend
      <3>5. z.chan["sink"] = Append(q, m)
        BY <1>1, <1>8, <3>1
      <3> QED BY <3>1, <3>3, <3>4, <3>5 DEF Follows
    <2> QED BY <2>2, <2>3
  <1>18. ASSUME NEW o \in U!Ends
         PROVE  AsSet(z, o)
    <2>1. U!Proposed(z) = U!Proposed(x)
      BY DEF U!Proposed
    <2>2. z.status[o] # "none" => x.status[o] # "none"
      BY <1>3
    <2> QED BY <1>2, <2>1, <2>2 DEF AsSet
  <1> QED
    BY <1>10, <1>16, <1>17, <1>18 DEF UGood, UWeak

\* Every field of the state.
LEMMA NowIs ==
  /\ U!Now.settings = settings /\ U!Now.status = status /\ U!Now.id = id
  /\ U!Now.profile = profile /\ U!Now.fallback = fallback /\ U!Now.chan = chan
  /\ U!Now.missed = missed
  BY DEF U!Now

\* What a handler leaves is as good as the state x it computes.
LEMMA UInvAfter ==
  ASSUME UInv, NEW x, UGood(x), U!Becomes(x),
         \A e \in U!Ends : x.settings[e] \in U!SettingsOf(e),
         x.fallback \in [active: BOOLEAN, bad: 0 .. BadSecs, good: 0 .. GoodSecs],
         x.id[requester] <= changes' + 1, changes' \in 0 .. MaxChanges
  PROVE  UInv'
  <1>1. UGood(U!Now)'
    BY GoodAfter DEF UInv
  <1>2. UBounds'
    BY DEF UInv, UBounds, U!Becomes, U!SettingsOf
  <1> QED BY <1>1, <1>2 DEF UInv

\* Without the oldest message to e.
LEMMA RestIs ==
  ASSUME U!Now \in UState, NEW e \in U!Ends, chan[e] # <<>>
  PROVE  LET r == U!Rest(e) IN
         /\ r \in UState /\ r.settings = settings /\ r.status = status /\ r.id = id
         /\ r.profile = profile /\ r.fallback = fallback /\ r.missed = missed
         /\ r.chan = [chan EXCEPT ![e] = Tail(chan[e])]
         /\ Took(U!Now, r, e, status[e], id[e], profile[e])
  <1>1. chan \in [U!Ends -> Seq(UMessages)]
    BY NowIs DEF UState
  <1>2. PICK c : c = [chan EXCEPT ![e] = Tail(chan[e])]
    OBVIOUS
  <1>3. Tail(chan[e]) \in Seq(UMessages)
    BY <1>1, TailIs
  <1>4. c \in [U!Ends -> Seq(UMessages)]
    BY <1>1, <1>2, <1>3
  <1>5. U!Rest(e) = [U!Now EXCEPT !.chan = c]
    BY <1>2, NowIs DEF U!Rest
  <1>6. PICK r : r = U!Rest(e)
    OBVIOUS
  <1>7. /\ r \in UState /\ r.settings = settings /\ r.status = status /\ r.id = id
        /\ r.profile = profile /\ r.fallback = fallback /\ r.missed = missed
        /\ r.chan = c
    BY <1>4, <1>5, <1>6, NowIs DEF UState
  <1>8. c[e] = Tail(chan[e]) /\ \A o \in U!Ends \ {e} : c[o] = chan[o]
    BY <1>1, <1>2
  <1>9. Took(U!Now, r, e, status[e], id[e], profile[e])
    BY <1>7, <1>8, NowIs DEF Took
  <1> QED BY <1>2, <1>6, <1>7, <1>9

\* Without it, and with a new status, id and profile at e.
Handled(e, s, n, p, ms) ==
  [U!Rest(e) EXCEPT !.status[e] = s, !.id[e] = n, !.profile[e] = p, !.missed = ms]

\* What a handler leaves of the oldest message.
LEMMA TookIs ==
  ASSUME U!Now \in UState, NEW e \in U!Ends, chan[e] # <<>>,
         NEW s \in {"none", "requesting", "starting", "active"}, NEW n \in Nat,
         NEW p \in U!Profile, NEW ms \in SUBSET U!Ends,
         \A o \in U!Ends \ {e} : o \in ms <=> o \in missed,
         NEW z, z = Handled(e, s, n, p, ms)
  PROVE  z.missed = ms /\ Took(U!Now, z, e, s, n, p)
  <1>1. PICK r : r = U!Rest(e)
    OBVIOUS
  <1>2. /\ r \in UState /\ r.settings = settings /\ r.status = status /\ r.id = id
        /\ r.profile = profile /\ r.fallback = fallback
        /\ r.chan = [chan EXCEPT ![e] = Tail(chan[e])]
    BY <1>1, RestIs
  <1>3. /\ status \in [U!Ends -> {"none", "requesting", "starting", "active"}]
        /\ id \in [U!Ends -> Nat] /\ profile \in [U!Ends -> U!Profile]
        /\ chan \in [U!Ends -> Seq(UMessages)]
    BY NowIs DEF UState
  <1>4. PICK ss : ss = [status EXCEPT ![e] = s]
    OBVIOUS
  <1>5. PICK ns : ns = [id EXCEPT ![e] = n]
    OBVIOUS
  <1>6. PICK ps : ps = [profile EXCEPT ![e] = p]
    OBVIOUS
  <1>7. /\ ss \in [U!Ends -> {"none", "requesting", "starting", "active"}]
        /\ ns \in [U!Ends -> Nat] /\ ps \in [U!Ends -> U!Profile]
    BY <1>3, <1>4, <1>5, <1>6
  <1>8. z = [r EXCEPT !.status = ss, !.id = ns, !.profile = ps, !.missed = ms]
    BY <1>1, <1>2, <1>4, <1>5, <1>6 DEF Handled
  <1>9. /\ z \in UState /\ z.settings = settings /\ z.status = ss /\ z.id = ns
        /\ z.profile = ps /\ z.fallback = fallback /\ z.missed = ms /\ z.chan = r.chan
    BY <1>2, <1>7, <1>8 DEF UState
  <1>10. /\ ss[e] = s /\ ns[e] = n /\ ps[e] = p /\ r.chan[e] = Tail(chan[e])
         /\ \A o \in U!Ends \ {e} :
              /\ ss[o] = status[o] /\ ns[o] = id[o] /\ ps[o] = profile[o]
              /\ r.chan[o] = chan[o]
    BY <1>2, <1>3, <1>4, <1>5, <1>6
  <1> QED BY <1>9, <1>10, NowIs DEF Took

\* A message names a route that the end that asked has asked for.
LEMMA NumberIs ==
  ASSUME UInv, NEW e \in U!Ends, chan[e] # <<>>
  PROVE  /\ Head(chan[e]) \in UMessages /\ Head(chan[e]).id <= id[requester]
         /\ Head(chan[e]).id \in Nat /\ id[requester] \in Nat /\ Head(chan[e]).profile \in U!Profile
  <1>1. UWeak(U!Now) /\ U!Now \in UState /\ requester \in U!Ends
    BY DEF UInv, UGood, UWeak, UBounds
  <1>2. id[requester] \in Nat
    BY <1>1, NowIs, StateParts
  <1>3. PICK m : m = Head(chan[e])
    OBVIOUS
  <1>4. /\ m \in UMessages
        /\ e = Partner => ToPartner(U!Now, m)
        /\ e = requester => ToAsker(U!Now, m)
    BY <1>1, <1>3, Taken, NowIs
  <1>5. e = requester \/ e = Partner
    BY <1>1, TwoEnds
  <1>6. m.id <= id[requester]
    BY <1>4, <1>5, NowIs DEF ToPartner, ToAsker
  <1> QED BY <1>2, <1>3, <1>4, <1>6 DEF UMessages

\* A handler of a message changes neither the settings nor the fallback, and the
\* number of a route only to one that was asked for or to none.
LEMMA TookInv ==
  ASSUME UInv, NEW e \in U!Ends, chan[e] # <<>>, UNCHANGED changes,
         NEW z, NEW s, NEW n, NEW p, Took(U!Now, z, e, s, n, p), UGood(z), U!Becomes(z),
         n \in {id[e], Head(chan[e]).id, 0}
  PROVE  UInv'
  <1>1. z.settings = settings /\ z.fallback = fallback
    BY NowIs DEF Took
  <1>2. UBounds /\ Head(chan[e]).id <= id[requester]
        /\ Head(chan[e]).id \in Nat /\ id[requester] \in Nat
    BY NumberIs DEF UInv
  <1>3. z.id[requester] \in {id[requester], Head(chan[e]).id, 0}
    BY <1>2, NowIs DEF Took, UBounds
  <1>4. z.id[requester] <= changes' + 1 /\ changes' \in 0 .. MaxChanges
    BY <1>2, <1>3 DEF UBounds
  <1> QED BY <1>1, <1>2, <1>4, UInvAfter DEF UBounds

\* on_route_request and accept_route
LEMMA OnRequestInv ==
  ASSUME UInv, NEW e \in U!Ends, U!OnRouteRequest(e)
  PROVE  UInv'
  <1>1. PICK m : m = Head(chan[e])
    OBVIOUS
  <1>2. chan[e] # <<>> /\ m.type = "request" /\ UNCHANGED changes
    BY <1>1 DEF U!OnRouteRequest, U!Receives
  <1>3. /\ m \in UMessages /\ m.id \in Nat /\ m.profile \in U!Profile
    BY <1>1, <1>2, NumberIs
  <1>4. U!Now \in UState /\ UGood(U!Now) /\ requester \in U!Ends
    BY DEF UInv, UGood, UWeak, UBounds
  <1>5. settings[e] \in U!Profile
    BY <1>4, NowIs, StateParts
  <1>6. PICK p : p = IF e = "source" THEN [m.profile EXCEPT !.denoise = settings[e].denoise]
                     ELSE [m.profile EXCEPT !.jitter = settings[e].jitter]
    OBVIOUS
  <1>7. /\ p \in U!Profile
        /\ e = "source" => /\ p.denoise = settings[e].denoise
                           /\ p.quality = m.profile.quality /\ p.jitter = m.profile.jitter
        /\ e = "sink" => /\ p.jitter = settings[e].jitter
                         /\ p.quality = m.profile.quality /\ p.denoise = m.profile.denoise
    BY <1>3, <1>5, <1>6 DEF U!Profile
  <1>8. PICK ms : ms = missed \ {e}
    OBVIOUS
  <1>9. ms \in SUBSET U!Ends /\ \A o \in U!Ends \ {e} : o \in ms <=> o \in missed
    BY <1>4, <1>8, NowIs DEF UState
  <1>10. PICK z : z = Handled(e, "starting", m.id, p, ms)
    OBVIOUS
  <1>11. U!Becomes(z)
    <2>1. U!Rest(e).missed = missed
      BY <1>2, <1>4, RestIs
    <2>2. z = [U!Rest(e) EXCEPT !.status[e] = "starting", !.id[e] = m.id,
                                !.profile[e] = p, !.missed = @ \ {e}]
      BY <1>8, <1>10, <2>1 DEF Handled
    <2> QED BY <1>1, <1>6, <2>2 DEF U!OnRouteRequest
  <1>12. Took(U!Now, z, e, "starting", m.id, p)
    BY <1>2, <1>3, <1>4, <1>7, <1>9, <1>10, TookIs
  <1>13. UGood(z)
    BY <1>1, <1>2, <1>4, <1>7, <1>12, NowIs, RequestGood
  <1> QED BY <1>1, <1>2, <1>11, <1>12, <1>13, TookInv

\* A message that is ignored is taken.
LEMMA IgnoredIs ==
  ASSUME UInv, NEW e \in U!Ends, chan[e] # <<>>
  PROVE  /\ Took(U!Now, U!Rest(e), e, status[e], id[e], profile[e])
         /\ U!Rest(e).missed = missed
  <1>1. U!Now \in UState
    BY DEF UInv, UGood, UWeak
  <1> QED BY <1>1, RestIs

\* on_route_accept, of the route it waits for: ToAsker says an answer is always
\* to that one.
LEMMA OnAcceptInv ==
  ASSUME UInv, NEW e \in U!Ends, U!OnRouteAccept(e)
  PROVE  UInv'
  <1>1. PICK m : m = Head(chan[e])
    OBVIOUS
  <1>2. chan[e] # <<>> /\ m.type = "accept" /\ UNCHANGED changes
    BY <1>1 DEF U!OnRouteAccept, U!Receives
  <1>3. m \in UMessages /\ m.profile \in U!Profile
    BY <1>1, <1>2, NumberIs
  <1>4. U!Now \in UState /\ UGood(U!Now) /\ UWeak(U!Now) /\ requester \in U!Ends
    BY DEF UInv, UGood, UWeak, UBounds
  <1>5. id[e] \in Nat /\ missed \in SUBSET U!Ends
    BY <1>4, NowIs, StateParts
  <1>6. id[e] = m.id /\ status[e] = "requesting"
    <2>1. /\ e = Partner => ToPartner(U!Now, m)
          /\ e = requester => ToAsker(U!Now, m)
      BY <1>1, <1>2, <1>4, NowIs, Taken
    <2>2. e = requester \/ e = Partner
      BY <1>4, TwoEnds
    <2> QED BY <1>2, <2>1, <2>2, NowIs DEF ToPartner, ToAsker
  <1>7. PICK z : z = Handled(e, "starting", id[e], m.profile, missed)
    OBVIOUS
  <1>8. z.missed = missed /\ Took(U!Now, z, e, "starting", id[e], m.profile)
    BY <1>2, <1>3, <1>4, <1>5, <1>7, TookIs
  <1>9. UGood(z)
    BY <1>1, <1>2, <1>4, <1>8, NowIs, AcceptGood
  <1>10. U!Becomes(z)
    <2>1. PICK r : r = U!Rest(e)
      OBVIOUS
    <2>2. r \in UState /\ r.missed = missed /\ r.id = id
      BY <1>2, <1>4, <2>1, RestIs
    <2>3. [id EXCEPT ![e] = id[e]] = id
      BY <1>4, NowIs DEF UState
    <2>4. z = [r EXCEPT !.status[e] = "starting", !.profile[e] = m.profile]
      BY <1>7, <2>1, <2>2, <2>3 DEF UState, Handled
    <2> QED BY <1>1, <1>6, <2>1, <2>4 DEF U!OnRouteAccept
  <1> QED BY <1>1, <1>2, <1>8, <1>9, <1>10, TookInv

\* on_route_update
LEMMA OnUpdateInv ==
  ASSUME UInv, NEW e \in U!Ends, U!OnRouteUpdate(e)
  PROVE  UInv'
  <1>1. PICK m : m = Head(chan[e])
    OBVIOUS
  <1>2. chan[e] # <<>> /\ m.type = "update" /\ UNCHANGED changes
    BY <1>1 DEF U!OnRouteUpdate, U!Receives
  <1>3. m \in UMessages /\ m.profile \in U!Profile
    BY <1>1, <1>2, NumberIs
  <1>4. U!Now \in UState /\ UGood(U!Now) /\ UWeak(U!Now) /\ requester \in U!Ends
    BY DEF UInv, UGood, UWeak, UBounds
  <1>5. /\ id[e] \in Nat /\ missed \in SUBSET U!Ends /\ profile[e] \in U!Profile
        /\ status[e] \in {"none", "requesting", "starting", "active"}
    BY <1>4, NowIs, StateParts
  <1>6. CASE id[e] # m.id
    <2>1. Took(U!Now, U!Rest(e), e, status[e], id[e], profile[e]) /\ U!Rest(e).missed = missed
      BY <1>2, IgnoredIs
    <2>2. U!Becomes(U!Rest(e))
      BY <1>1, <1>6 DEF U!OnRouteUpdate
    <2>3. UGood(U!Rest(e))
      BY <1>1, <1>2, <1>4, <1>6, <2>1, NowIs, UpdateGood
    <2> QED BY <1>2, <2>1, <2>2, <2>3, TookInv
  <1>7. CASE id[e] = m.id
    <2>1. PICK p : p = U!KeepOwn(e, m.profile)
      OBVIOUS
    <2>2. /\ p \in U!Profile
          /\ e = "source" => p.denoise = profile[e].denoise /\ p.quality = m.profile.quality
          /\ e = "sink" => /\ p.jitter = profile[e].jitter
                           /\ p.quality = m.profile.quality /\ p.denoise = m.profile.denoise
      BY <1>3, <1>5, <2>1 DEF U!KeepOwn, U!Profile
    <2>3. PICK z : z = Handled(e, status[e], id[e], p, missed)
      OBVIOUS
    <2>4. z.missed = missed /\ Took(U!Now, z, e, status[e], id[e], p)
      BY <1>2, <1>4, <1>5, <2>2, <2>3, TookIs
    <2>5. UGood(z)
      BY <1>1, <1>2, <1>4, <1>7, <2>2, <2>4, NowIs, UpdateGood
    <2>6. U!Becomes(z)
      <3>1. PICK r : r = U!Rest(e)
        OBVIOUS
      <3>2. r \in UState /\ r.missed = missed /\ r.id = id /\ r.status = status
        BY <1>2, <1>4, <3>1, RestIs
      <3>3. [id EXCEPT ![e] = id[e]] = id /\ [status EXCEPT ![e] = status[e]] = status
        BY <1>4, NowIs DEF UState
      <3>4. z = [r EXCEPT !.profile[e] = p]
        BY <2>3, <3>1, <3>2, <3>3 DEF UState, Handled
      <3> QED BY <1>1, <1>7, <2>1, <3>1, <3>4 DEF U!OnRouteUpdate
    <2> QED BY <1>2, <2>4, <2>5, <2>6, TookInv
  <1> QED BY <1>6, <1>7

\* RouteStop
LEMMA OnStopInv ==
  ASSUME UInv, NEW e \in U!Ends, U!OnRouteStop(e)
  PROVE  UInv'
  <1>1. PICK m : m = Head(chan[e])
    OBVIOUS
  <1>2. chan[e] # <<>> /\ m.type = "stop" /\ UNCHANGED changes
    BY <1>1 DEF U!OnRouteStop, U!Receives
  <1>3. m \in UMessages
    BY <1>1, <1>2, NumberIs
  <1>4. U!Now \in UState /\ UGood(U!Now) /\ UWeak(U!Now) /\ requester \in U!Ends
    BY DEF UInv, UGood, UWeak, UBounds
  <1>5. /\ id[e] \in Nat /\ missed \in SUBSET U!Ends /\ profile[e] \in U!Profile
    BY <1>4, NowIs, StateParts
  <1>6. CASE id[e] # m.id
    <2>1. Took(U!Now, U!Rest(e), e, status[e], id[e], profile[e]) /\ U!Rest(e).missed = missed
      BY <1>2, IgnoredIs
    <2>2. U!Becomes(U!Rest(e))
      BY <1>1, <1>6 DEF U!OnRouteStop
    <2>3. UGood(U!Rest(e))
      BY <1>1, <1>2, <1>4, <1>6, <2>1, NowIs, StopGood
    <2> QED BY <1>2, <2>1, <2>2, <2>3, TookInv
  <1>7. CASE id[e] = m.id
    <2>3. PICK z : z = Handled(e, "none", 0, profile[e], missed)
      OBVIOUS
    <2>4. z.missed = missed /\ Took(U!Now, z, e, "none", 0, profile[e])
      BY <1>2, <1>4, <1>5, <2>3, TookIs
    <2>5. UGood(z)
      BY <1>1, <1>2, <1>4, <1>7, <2>4, NowIs, StopGood
    <2>6. U!Becomes(z)
      <3>1. PICK r : r = U!Rest(e)
        OBVIOUS
      <3>2. r \in UState /\ r.missed = missed /\ r.profile = profile
        BY <1>2, <1>4, <3>1, RestIs
      <3>3. [profile EXCEPT ![e] = profile[e]] = profile
        BY <1>4, NowIs DEF UState
      <3>4. z = [r EXCEPT !.status[e] = "none", !.id[e] = 0]
        BY <2>3, <3>1, <3>2, <3>3 DEF UState, Handled
      <3> QED BY <1>1, <1>7, <3>1, <3>4 DEF U!OnRouteStop
    <2> QED BY <1>2, <2>4, <2>5, <2>6, TookInv
  <1> QED BY <1>6, <1>7

\* activate_route
LEMMA ActivateInv ==
  ASSUME UInv, NEW e \in U!Ends, U!Activate(e)
  PROVE  UInv'
  <1>1. U!Now \in UState /\ UGood(U!Now) /\ requester \in U!Ends /\ UBounds
    BY DEF UInv, UGood, UWeak, UBounds
  <1>2. PICK x : x = [U!Now EXCEPT !.status[e] = "active"]
    OBVIOUS
  <1>3. PICK ss : ss = [status EXCEPT ![e] = "active"]
    OBVIOUS
  <1>4. ss \in [U!Ends -> {"none", "requesting", "starting", "active"}]
    BY <1>1, <1>3, NowIs DEF UState
  <1>5. x = [U!Now EXCEPT !.status = ss]
    BY <1>2, <1>3, NowIs
  <1>6. /\ x \in UState /\ x.settings = settings /\ x.status = ss /\ x.id = id
        /\ x.profile = profile /\ x.fallback = fallback /\ x.missed = missed
        /\ x.chan = chan
    BY <1>1, <1>4, <1>5, NowIs DEF UState
  <1>7. PICK z : z = IF e = requester THEN x ELSE U!Send(x, e, "accept")
    OBVIOUS
  <1>8. Sent(x, e, "accept") = Sent(U!Now, e, "accept")
    BY <1>6, NowIs DEF Sent
  <1>9. e # requester => U!Other(e) = requester
    BY <1>1, TwoEnds
  <1>10. /\ z \in UState /\ z.settings = settings /\ z.status = ss /\ z.id = id
         /\ z.profile = profile /\ z.fallback = fallback /\ z.missed = missed
         /\ z.chan = IF e = requester THEN chan
                     ELSE [chan EXCEPT ![requester] = Append(@, Sent(U!Now, e, "accept"))]
    <2>1. CASE e = requester
      BY <1>6, <1>7, <2>1
    <2>2. CASE e # requester
      <3>1. z = U!Send(x, e, "accept")
        BY <1>7, <2>2
      <3>2. /\ z \in UState
            /\ z.chan = [x.chan EXCEPT ![U!Other(e)] = Append(@, Sent(x, e, "accept"))]
            /\ z.settings = x.settings /\ z.status = x.status /\ z.id = x.id
            /\ z.profile = x.profile /\ z.fallback = x.fallback /\ z.missed = x.missed
        BY <1>6, <3>1, SendIs
      <3> QED BY <1>6, <1>8, <1>9, <2>2, <3>2
    <2> QED BY <2>1, <2>2
  <1>11. UGood(z)
    <2>1. PICK y : y = U!Now
      OBVIOUS
    <2>2. /\ z.settings = y.settings /\ z.fallback = y.fallback /\ z.id = y.id
          /\ z.profile = y.profile /\ z.missed = y.missed
          /\ z.status = [y.status EXCEPT ![e] = "active"]
          /\ z.chan = IF e = requester THEN y.chan
                      ELSE [y.chan EXCEPT ![requester] = Append(@, Sent(y, e, "accept"))]
          /\ y.status[e] = "starting" /\ UGood(y)
      BY <1>1, <1>3, <1>10, <2>1, NowIs DEF U!Activate
    <2> QED BY <1>1, <1>10, <2>2, ActivateGood
  <1>12. U!Becomes(z) /\ UNCHANGED changes
    BY <1>2, <1>7 DEF U!Activate
  <1> QED BY <1>1, <1>10, <1>11, <1>12, UInvAfter DEF UBounds

\* No fallback is one.
LEMMA NoFallbackIs ==
  U!NoFallback \in [active: BOOLEAN, bad: 0 .. BadSecs, good: 0 .. GoodSecs]
  <1>1. 0 \in 0 .. BadSecs /\ 0 \in 0 .. GoodSecs
    BY AudioBounds
  <1> QED BY <1>1 DEF U!NoFallback

\* apply_settings and what else changes the settings of an end.
LEMMA SettingsInv ==
  ASSUME UInv, NEW e \in U!Ends, U!ChangeSettings(e)
  PROVE  UInv'
  <1>1. /\ U!Now \in UState /\ UGood(U!Now) /\ UWeak(U!Now) /\ requester \in U!Ends
        /\ UBounds
    BY DEF UInv, UGood, UWeak, UBounds
  <1>2. PICK g \in U!SettingsOf(e) \ {settings[e]} :
          LET x == [U!Now EXCEPT !.settings[e] = g]
          IN U!Becomes(IF status[e] = "active" THEN U!Reconfigure(x, e)
                       ELSE [x EXCEPT !.missed = @ \cup {e}])
    BY DEF U!ChangeSettings
  <1>3. g \in U!Profile
    BY DEF U!SettingsOf
  <1>4. PICK gs : gs = [settings EXCEPT ![e] = g]
    OBVIOUS
  <1>5. gs \in [U!Ends -> U!Profile] /\ \A o \in U!Ends : gs[o] \in U!SettingsOf(o)
    BY <1>1, <1>3, <1>4, NowIs DEF UState, UBounds
  <1>6. \A o \in U!Ends \ {e} : gs[o] = settings[o]
    BY <1>1, <1>4, NowIs DEF UState
  <1>7. PICK x : x = [U!Now EXCEPT !.settings = gs]
    OBVIOUS
  <1>8. x = [U!Now EXCEPT !.settings[e] = g]
    BY <1>4, <1>7, NowIs
  <1>9. /\ x \in UState /\ x.settings = gs /\ x.status = status /\ x.id = id
        /\ x.profile = profile /\ x.fallback = fallback /\ x.missed = missed
        /\ x.chan = chan
    BY <1>1, <1>5, <1>7, NowIs DEF UState
  <1>10. UWeak(x)
    BY <1>1, <1>9, NowIs, WeakFrame
  <1>11. ASSUME NEW o \in U!Ends \ {e}, NEW z, z.settings = gs, z.status = status,
                z.profile = profile, z.fallback = fallback, o \notin z.missed => o \notin missed
         PROVE  AsSet(z, o)
    <2>1. AsSet(U!Now, o) /\ gs[o] = settings[o]
      BY <1>1, <1>6 DEF UGood
    <2>2. o = requester => U!Proposed(z) = U!Proposed(U!Now)
      BY <1>11, <2>1, NowIs DEF U!Proposed
    <2> QED BY <1>11, <2>1, <2>2, NowIs DEF AsSet
  <1>12. /\ changes' = changes + 1 /\ changes' \in 0 .. MaxChanges
         /\ id[requester] \in Nat /\ changes \in Nat
         /\ id[requester] <= changes' + 1 /\ id[requester] + 1 <= changes' + 1
    <2>1. id[requester] \in Nat
      BY <1>1, NowIs, StateParts
    <2>2. changes < MaxChanges /\ changes' = changes + 1
      BY DEF U!ChangeSettings
    <2> QED BY <1>1, <2>1, <2>2, AudioBounds DEF UBounds
  <1>13. CASE status[e] = "active"
    <2>1. PICK z : z = U!Reconfigure(x, e)
      OBVIOUS
    <2>2. U!Other(e) \in U!Ends \ {e}
      BY TwoEnds
    <2>3. AsSet(x, U!Other(e))
      BY <1>9, <1>11, <2>2
    <2>4. /\ UGood(z) /\ z.settings = x.settings
          /\ z.fallback \in {x.fallback, U!NoFallback}
          /\ z.id[requester] \in {x.id[requester], x.id[requester] + 1}
      BY <1>1, <1>9, <1>10, <1>13, <2>1, <2>3, ReconfigureGood
    <2>5. U!Becomes(z)
      BY <1>2, <1>8, <1>13, <2>1
    <2>6. z.fallback \in [active: BOOLEAN, bad: 0 .. BadSecs, good: 0 .. GoodSecs]
      BY <1>1, <1>9, <2>4, NoFallbackIs DEF UBounds
    <2>7. z.id[requester] <= changes' + 1
      BY <1>9, <1>12, <2>4
    <2>8. \A o \in U!Ends : z.settings[o] \in U!SettingsOf(o)
      BY <1>5, <1>9, <2>4
    <2> QED BY <1>12, <2>4, <2>5, <2>6, <2>7, <2>8, UInvAfter
  <1>14. CASE status[e] # "active"
    <2>1. PICK ms : ms = missed \cup {e}
      OBVIOUS
    <2>2. ms \in SUBSET U!Ends
      BY <1>1, <2>1, NowIs DEF UState
    <2>3. PICK z : z = [x EXCEPT !.missed = ms]
      OBVIOUS
    <2>4. /\ z \in UState /\ z.settings = gs /\ z.status = status /\ z.id = id
          /\ z.profile = profile /\ z.fallback = fallback /\ z.missed = ms
          /\ z.chan = chan
      BY <1>9, <2>2, <2>3 DEF UState
    <2>5. UWeak(z)
      BY <1>1, <2>4, NowIs, WeakFrame
    <2>6. AsSet(z, e)
      BY <2>1, <2>4 DEF AsSet
    <2>7. \A o \in U!Ends : AsSet(z, o)
      BY <1>11, <2>1, <2>4, <2>6
    <2>8. U!Becomes(z)
      <3>1. z = [x EXCEPT !.missed = @ \cup {e}]
        BY <1>9, <2>1, <2>3
      <3> QED BY <1>2, <1>8, <1>14, <3>1
    <2> QED BY <1>1, <1>5, <1>12, <2>4, <2>5, <2>7, <2>8, UInvAfter DEF UGood, UBounds
  <1> QED BY <1>13, <1>14

\* A count stays within its threshold.
LEMMA CountIs ==
  ASSUME NEW t \in Nat, NEW n \in 0 .. t, NEW g \in BOOLEAN
  PROVE  U!Count(n, g, t) \in 0 .. t
  BY DEF U!Count

\* update_quality_fallback
LEMMA MeasureInv ==
  ASSUME UInv, U!MeasureLoss
  PROVE  UInv'
  <1> DEFINE F == [active: BOOLEAN, bad: 0 .. BadSecs, good: 0 .. GoodSecs]
  <1>1. /\ U!Now \in UState /\ UGood(U!Now) /\ UWeak(U!Now) /\ requester \in U!Ends
        /\ UBounds
    BY DEF UInv, UGood, UWeak, UBounds
  <1>2. PICK loss \in {"bad", "middling", "good"} :
          LET f == U!Measured(fallback, loss)
              x == [U!Now EXCEPT !.fallback = f]
              switched == f.active # fallback.active
          IN /\ switched => changes < MaxChanges
             /\ U!Becomes(IF switched THEN U!Reconfigure(x, requester) ELSE x)
             /\ changes' = IF switched THEN changes + 1 ELSE changes
    BY DEF U!MeasureLoss
  <1>3. PICK f : f = U!Measured(fallback, loss)
    OBVIOUS
  <1>4. f \in F
    <2>1. PICK b : b = U!Count(fallback.bad, loss = "bad", BadSecs)
      OBVIOUS
    <2>2. PICK g : g = U!Count(fallback.good, loss = "good", GoodSecs)
      OBVIOUS
    <2>3. BadSecs \in Nat /\ GoodSecs \in Nat
      BY AudioBounds
    <2>4. b \in 0 .. BadSecs /\ g \in 0 .. GoodSecs
      <3>1. fallback.bad \in 0 .. BadSecs /\ fallback.good \in 0 .. GoodSecs
        BY <1>1 DEF UBounds
      <3>2. (loss = "bad") \in BOOLEAN /\ (loss = "good") \in BOOLEAN
        OBVIOUS
      <3> QED BY <2>1, <2>2, <2>3, <3>1, <3>2 DEF U!Count
    <2>5. PICK a : a = IF fallback.active THEN g < GoodSecs ELSE b >= BadSecs
      OBVIOUS
    <2>5a. a \in BOOLEAN
      <3>1. CASE fallback.active
        BY <2>3, <2>4, <2>5, <3>1
      <3>2. CASE ~fallback.active
        BY <2>3, <2>4, <2>5, <3>2
      <3> QED BY <3>1, <3>2
    <2>6. f = IF a # fallback.active THEN [active |-> a, bad |-> 0, good |-> 0]
              ELSE [active |-> a, bad |-> b, good |-> g]
      BY <1>3, <2>1, <2>2, <2>5 DEF U!Measured
    <2>7. 0 \in 0 .. BadSecs /\ 0 \in 0 .. GoodSecs
      BY <2>3
    <2> QED BY <2>4, <2>5a, <2>6, <2>7
  <1>5. PICK x : x = [U!Now EXCEPT !.fallback = f]
    OBVIOUS
  <1>6. f \in [active: BOOLEAN, bad: Nat, good: Nat]
    BY <1>4
  <1>7. /\ x \in UState /\ x.settings = settings /\ x.status = status /\ x.id = id
        /\ x.profile = profile /\ x.fallback = f /\ x.missed = missed /\ x.chan = chan
    <2> HIDE DEF F
    <2> QED BY <1>1, <1>5, <1>6, NowIs DEF UState
  <1>8. UWeak(x)
    BY <1>1, <1>7, NowIs, WeakFrame
  <1>9. id[requester] \in Nat /\ changes \in Nat /\ changes <= MaxChanges /\ MaxChanges \in Nat
        /\ id[requester] <= changes + 1
    BY <1>1, NowIs, StateParts, AudioBounds DEF UBounds
  <1>10. PICK switched \in BOOLEAN : switched <=> f.active # fallback.active
    OBVIOUS
  <1>11. /\ switched => changes < MaxChanges
         /\ U!Becomes(IF switched THEN U!Reconfigure(x, requester) ELSE x)
         /\ changes' = IF switched THEN changes + 1 ELSE changes
    BY <1>2, <1>3, <1>5, <1>10
  <1>12. CASE switched
    <2>1. PICK z : z = U!Reconfigure(x, requester)
      OBVIOUS
    <2>2. U!Other(requester) \in U!Ends \ {requester}
      BY <1>1, TwoEnds
    <2>3. AsSet(x, U!Other(requester))
      BY <1>1, <1>7, <2>2, NowIs DEF AsSet, UGood
    <2>4. x.status[requester] = "active"
      BY <1>7 DEF U!MeasureLoss
    <2>5. /\ UGood(z) /\ z.settings = x.settings
          /\ z.fallback \in {x.fallback, U!NoFallback}
          /\ z.id[requester] \in {x.id[requester], x.id[requester] + 1}
      BY <1>1, <1>8, <2>1, <2>3, <2>4, ReconfigureGood
    <2>6. z.fallback \in F
      BY <1>4, <1>7, <2>5, NoFallbackIs
    <2>7. changes' = changes + 1 /\ changes' \in 0 .. MaxChanges
      BY <1>9, <1>11, <1>12
    <2>8. z.id[requester] <= changes' + 1
      BY <1>7, <1>9, <2>5, <2>7
    <2> QED BY <1>1, <1>7, <1>11, <1>12, <2>1, <2>5, <2>6, <2>7, <2>8, UInvAfter DEF UBounds
  <1>13. CASE ~switched
    <2>1. f.active = fallback.active
      BY <1>1, <1>4, <1>10, <1>13 DEF UBounds
    <2>2. U!Proposed(x) = U!Proposed(U!Now)
      BY <1>7, <2>1, NowIs DEF U!Proposed
    <2>3. \A e \in U!Ends : AsSet(x, e)
      BY <1>1, <1>7, <2>1, <2>2, NowIs DEF AsSet, UGood
    <2>4. U!Becomes(x) /\ changes' = changes
      BY <1>11, <1>13
    <2> QED BY <1>1, <1>4, <1>7, <1>8, <1>9, <2>3, <2>4, UInvAfter DEF UGood, UBounds
  <1> QED BY <1>12, <1>13

\* The route begins with a request on its way.
LEMMA UpdatesInit ==
  ASSUME U!Init
  PROVE  UInv
  <1> USE DEF U!Init
  <1>1. /\ U!Ends = {"source", "sink"} /\ Partner \in U!Ends /\ Partner # requester
        /\ requester \in U!Ends /\ \A e \in U!Ends : e = requester \/ e = Partner
    BY TwoEnds
  <1>2. PICK m : m = [type |-> "request", id |-> 1, profile |-> U!Default]
    OBVIOUS
  <1>3. U!Default \in U!Profile /\ m \in UMessages
    BY <1>2 DEF U!Default, U!Profile, U!Qualities, UMessages
  <1>4. <<m>> \in Seq(UMessages) /\ <<>> \in Seq(UMessages) /\ Len(<<m>>) = 1
        /\ <<m>>[1] = m
    BY <1>3
  <1>5. U!Now \in UState
    BY <1>2, <1>3, <1>4 DEF U!Now, UState, U!NoFallback
  <1>6. /\ status[requester] = "requesting" /\ status[Partner] = "none"
        /\ id[requester] = 1 /\ id[Partner] = 0
        /\ profile[requester] = U!Default /\ profile[Partner] = U!Default
        /\ chan[requester] = <<>> /\ chan[Partner] = <<m>>
    BY <1>1, <1>2
  <1>7. Phases(U!Now)
    BY <1>6, NowIs DEF Phases
  <1>8. Messages(U!Now)
    <2>1. ToPartner(U!Now, m)
      BY <1>2, <1>6, NowIs DEF ToPartner, SameForAsker
    <2>2. \A i \in 1 .. Len(<<m>>) : i = 1 /\ <<m>>[i] = m
      BY <1>4
    <2>3. \A i \in 1 .. Len(<<>>) : FALSE
      OBVIOUS
    <2>4. Once(<<m>>, "request") /\ Once(<<>>, "accept")
      BY <2>2, <2>3 DEF Once
    <2>5. PICK x : x = U!Now
      OBVIOUS
    <2>6. x.chan[Partner] = <<m>> /\ x.chan[requester] = <<>> /\ ToPartner(x, m)
      BY <1>6, <2>1, <2>5, NowIs
    <2>7. Messages(x)
      BY <2>2, <2>3, <2>4, <2>6 DEF Messages
    <2> QED BY <2>5, <2>7
  <1>9. Follows(U!Now)
    <2>1. SameForBoth(m.profile, U!Default)
      BY <1>2 DEF SameForBoth
    <2>2. Latest(<<m>>, 1, U!Default) /\ Latest(<<>>, 1, U!Default)
      BY <1>4, <2>1 DEF Latest
    <2> QED BY <1>1, <1>6, <2>2, NowIs DEF Follows
  <1>10. \A e \in U!Ends : AsSet(U!Now, e)
    BY <1>1, NowIs DEF AsSet, U!Default, U!NoFallback, U!Proposed
  <1>11. UBounds
    BY <1>3, <1>6, AudioBounds DEF UBounds, U!SettingsOf, U!Default, U!NoFallback
  <1> QED BY <1>5, <1>7, <1>8, <1>9, <1>10, <1>11 DEF UInv, UGood, UWeak

\* What the invariant says of the profiles once nothing is on its way.
LEMMA AsAsked ==
  ASSUME UInv
  PROVE  ProfileAsAsked
  <1>1. /\ U!Now \in UState /\ Phases(U!Now) /\ Follows(U!Now) /\ requester \in U!Ends
        /\ \A e \in U!Ends : AsSet(U!Now, e)
    BY DEF UInv, UGood, UWeak, UBounds
  <1>2. /\ U!Ends = {"source", "sink"} /\ Partner \in U!Ends /\ Partner # requester
        /\ requester = "source" <=> Partner = "sink"
    BY <1>1, TwoEnds
  <1>3. U!Settled => SameForBoth(profile["sink"], profile["source"])
    <2> SUFFICES ASSUME U!Settled
                 PROVE  SameForBoth(profile["sink"], profile["source"])
      OBVIOUS
    <2>1. chan["sink"] = <<>> /\ status["sink"] = "active" /\ id[Partner] = id[requester]
      BY <1>1, <1>2 DEF U!Settled
    <2>2. Silent(<<>>, id[requester])
      BY DEF Silent
    <2> QED BY <1>1, <2>1, <2>2, NowIs DEF Follows
  <1>4. U!DenoisedOnce
    BY <1>1, <1>2, <1>3, NowIs DEF U!DenoisedOnce, U!Settled, SameForBoth, AsSet
  <1>5. U!OwnBuffer
    BY <1>1, <1>2, NowIs DEF U!OwnBuffer, AsSet
  <1>6. U!QualityProposed
    BY <1>1, <1>2, <1>3, NowIs DEF U!QualityProposed, U!Settled, SameForBoth, AsSet
  <1>7. U!FallbackAsked
    BY <1>1, NowIs DEF U!FallbackAsked, AsSet, Phases
  <1> QED BY <1>4, <1>5, <1>6, <1>7 DEF ProfileAsAsked

\* The invariant holds in the composition.
LEMMA UpdatesInv == AudioSpec => []UInv
  <1>1. AudioInit => UInv
    BY UpdatesInit DEF AudioInit
  <1>2. UInv /\ [AudioNext]_<<part, vars, profileVars, speakerVars, defaultVars>>
          => UInv'
    <2> SUFFICES ASSUME UInv,
                   [AudioNext]_<<part, vars, profileVars, speakerVars, defaultVars>>
                 PROVE  UInv'
      OBVIOUS
    <2>1. CASE U!Next
      BY <2>1, MeasureInv, SettingsInv, OnRequestInv, ActivateInv, OnAcceptInv,
         OnUpdateInv, OnStopInv DEF U!Next
    <2>2. CASE UNCHANGED profileVars
      <3>1. U!Becomes(U!Now) /\ UNCHANGED changes
        BY <2>2, NowIs DEF profileVars, U!Becomes
      <3>2. UGood(U!Now) /\ UBounds
        BY DEF UInv
      <3> QED BY <3>1, <3>2, NowIs, UInvAfter DEF UBounds
    <2> QED
      BY <2>1, <2>2 DEF AudioNext
  <1> QED
    BY <1>1, <1>2, PTL DEF AudioSpec

\* A route has the profile its ends asked for, with any number of changes of the
\* settings, switches of the fallback and restarts, however the updates of the
\* two ends cross (apply_profile, update_mic_groups, on_route_update,
\* reconfigure_route).
THEOREM ProfilesAsAsked == AudioSpec => []ProfileAsAsked
  <1>1. UInv => ProfileAsAsked
    BY AsAsked
  <1> QED
    BY <1>1, UpdatesInv, PTL

----------------------------------------------------------------------------
(* The speakers.  A handler computes the state x that Becomes then takes   *)
(* over.  Good says what x must be for the invariant to survive, and each  *)
(* of the steps that handlers consist of keeps it.                         *)

\* The states of the actor.
SState == [session: SUBSET Peers, route: [Peers -> S!Route],
           mutedBy: SUBSET Peers, muted: BOOLEAN, hooked: BOOLEAN]

\* A route that is not there has no sender.
Typed(x) ==
  /\ x \in SState
  /\ \A p \in Peers : x.route[p].controls => x.route[p].st # "none"

\* Somebody wants the speakers muted.
Wished(x) == x.mutedBy # {} \/ (setting /\ S!HasRoute(x))

\* Nobody does, and no route is left that could look after the speakers.
Stranded(x) == x.mutedBy = {} /\ ~S!HasRoute(x)

\* x can follow: a peer's mute is kept or overruled, the speakers are muted for
\* somebody or in one of the two ways the history tells of, and they have
\* changed only if the switch was thrown.
Good(x, strays, overrules) ==
  /\ Typed(x)
  /\ x.mutedBy # {} /\ ~x.muted => overruled \/ overrules
  /\ x.muted => Wished(x) \/ stray \/ torn \/ (strays /\ Stranded(x))
  /\ ~x.hooked => x.muted = muted

\* The inductive invariant.  MutedForSomeone alone is not: the start after a
\* crash relies on the file, and a handler that unmutes on the setting.
SInv ==
  /\ S!TypeOK
  /\ \A p \in Peers : sending[p].controls => sending[p].st # "none"
  /\ ~running => mutedBy = {} /\ ~unwritten
  /\ S!KeptMuted
  /\ running /\ muted /\ ~stray /\ ~torn => Wished(S!Now)
  /\ muted /\ ~unwritten /\ ~stray /\ ~torn => marker

\* The switches are Boolean, one by one.
LEMMA SBools ==
  ASSUME S!TypeOK
  PROVE  /\ running \in BOOLEAN /\ setting \in BOOLEAN /\ muted \in BOOLEAN
         /\ marker \in BOOLEAN /\ unwritten \in BOOLEAN /\ stray \in BOOLEAN
         /\ overruled \in BOOLEAN /\ torn \in BOOLEAN
  BY DEF S!TypeOK

\* Between two handlers the actor's state is good.
LEMMA NowGood ==
  ASSUME SInv, S!Ready
  PROVE  Good(S!Now, FALSE, FALSE)
  <1>1. Typed(S!Now)
    BY SBools DEF SInv, S!TypeOK, Typed, S!Now, SState
  <1>2. mutedBy # {} /\ ~muted => overruled
    BY DEF SInv, S!KeptMuted
  <1> QED
    BY <1>1, <1>2 DEF Good, SInv, S!Now, S!Ready

\* A handler that leaves a good state, in which only peers with a session
\* mute, keeps the invariant.
LEMMA BecomesInv ==
  ASSUME SInv, S!Ready, NEW x, NEW s \in BOOLEAN, NEW o \in BOOLEAN,
         Good(x, s, o), x.mutedBy \subseteq x.session, S!Becomes(x, s, o)
  PROVE  SInv'
  <1> USE DEF S!Becomes, S!Ready
  <1>1. x \in SState /\ running = TRUE
    BY SBools DEF Good, Typed, SInv
  <1>2. S!TypeOK'
    BY <1>1, SBools DEF Good, Typed, SState, SInv, S!TypeOK
  <1>3. (\A p \in Peers : sending[p].controls => sending[p].st # "none")'
    BY DEF Good, Typed
  <1>4. S!KeptMuted'
    BY DEF Good, S!KeptMuted
  <1>5. Wished(S!Now)' <=> Wished(x)
    BY DEF Wished, S!Now, S!HasRoute
  <1>6. muted' /\ ~stray' /\ ~torn' => Wished(S!Now)'
    BY <1>5 DEF Good, Stranded
  <1>7. muted' /\ ~unwritten' /\ ~stray' /\ ~torn' => marker'
    BY DEF Good, SInv
  <1> QED
    BY <1>1, <1>2, <1>3, <1>4, <1>6, <1>7 DEF SInv

\* begin_sender mutes for the route it adds, or mutes nothing.
LEMMA BeginSenderGood ==
  ASSUME SInv, NEW x, NEW p \in Peers, NEW mine \in BOOLEAN, Good(x, FALSE, FALSE)
  PROVE  /\ Good(S!BeginSender(x, p, mine), FALSE, FALSE)
         /\ S!BeginSender(x, p, mine).mutedBy = x.mutedBy
         /\ S!BeginSender(x, p, mine).session = x.session
  <1> DEFINE r == [st |-> "starting", mine |-> mine, controls |-> TRUE]
             y == [x EXCEPT !.route[p] = r]
  <1>1. x \in SState /\ setting \in BOOLEAN
    BY SBools DEF Good, Typed, SInv
  <1>2. r \in S!Route
    BY DEF S!Route, S!Statuses
  <1>3. y \in SState /\ y.route[p] = r
    BY <1>1, <1>2 DEF SState
  <1>4. Typed(y)
    BY <1>1, <1>3 DEF Good, Typed, SState
  <1>5. S!HasRoute(y)
    BY <1>3 DEF S!HasRoute
  <1>6. CASE setting
    <2>1. S!BeginSender(x, p, mine) = S!Switch(y, TRUE)
      BY <1>6 DEF S!BeginSender
    <2>2. Typed(S!Switch(y, TRUE))
      BY <1>3, <1>4 DEF S!Switch, Typed, SState
    <2>3. S!HasRoute(S!Switch(y, TRUE))
      BY <1>3, <1>5 DEF S!Switch, S!HasRoute, SState
    <2>4. /\ S!Switch(y, TRUE).muted = TRUE /\ S!Switch(y, TRUE).hooked = TRUE
          /\ S!Switch(y, TRUE).mutedBy = x.mutedBy
          /\ S!Switch(y, TRUE).session = x.session
      BY <1>1, <1>3 DEF S!Switch, SState
    <2> QED
      BY <1>6, <2>1, <2>2, <2>3, <2>4 DEF Good, Wished
  <1>7. CASE ~setting
    <2>1. S!BeginSender(x, p, mine) = y
      BY <1>7 DEF S!BeginSender
    <2>2. /\ y.mutedBy = x.mutedBy /\ y.muted = x.muted /\ y.hooked = x.hooked
          /\ y.session = x.session
      BY <1>1 DEF SState
    <2> QED
      BY <1>7, <1>4, <2>1, <2>2 DEF Good, Wished
  <1> QED
    BY <1>1, <1>6, <1>7

\* stop_route_by_key and fail_route unmute only if no peer mutes, and take a
\* route away without unmuting only if it did not mute.
LEMMA StopRouteGood ==
  ASSUME SInv, NEW x, NEW p \in Peers, Good(x, FALSE, FALSE)
  PROVE  /\ Good(S!StopRoute(x, p), FALSE, FALSE)
         /\ S!StopRoute(x, p).mutedBy = x.mutedBy
         /\ S!StopRoute(x, p).session = x.session
  <1> DEFINE y == [x EXCEPT !.route[p] = S!NoRoute]
  <1>1. x \in SState /\ setting \in BOOLEAN
    BY SBools DEF Good, Typed, SInv
  <1>2. S!NoRoute \in S!Route /\ S!NoRoute.controls = FALSE
    BY DEF S!Route, S!Statuses, S!NoRoute
  <1>3. y \in SState /\ y.route[p] = S!NoRoute
    BY <1>1, <1>2 DEF SState
  <1>4. Typed(y)
    BY <1>1, <1>2, <1>3 DEF Good, Typed, SState
  <1>5. CASE x.route[p].st = "none"
    BY <1>5 DEF S!StopRoute
  <1>6. CASE x.route[p].st # "none" /\ S!Unmutes(x)
    <2>1. S!StopRoute(x, p) = S!Switch(y, FALSE)
      BY <1>6 DEF S!StopRoute
    <2>2. Typed(S!Switch(y, FALSE))
      BY <1>3, <1>4 DEF S!Switch, Typed, SState
    <2>3. /\ S!Switch(y, FALSE).muted = FALSE /\ S!Switch(y, FALSE).hooked = TRUE
          /\ S!Switch(y, FALSE).mutedBy = x.mutedBy
          /\ S!Switch(y, FALSE).session = x.session
      BY <1>1, <1>3 DEF S!Switch, SState
    <2> QED
      BY <1>6, <2>1, <2>2, <2>3 DEF Good, S!Unmutes
  <1>7. CASE x.route[p].st # "none" /\ ~S!Unmutes(x)
    <2>1. S!StopRoute(x, p) = y
      BY <1>7 DEF S!StopRoute
    <2>2. /\ y.mutedBy = x.mutedBy /\ y.muted = x.muted /\ y.hooked = x.hooked
          /\ y.session = x.session
      BY <1>1 DEF SState
    <2>3. ~setting \/ x.mutedBy # {}
      BY <1>7 DEF S!Unmutes
    <2> QED
      BY <1>4, <2>1, <2>2, <2>3 DEF Good, Wished
  <1> QED
    BY <1>5, <1>6, <1>7

\* forget_speaker_mutes unmutes only behind the last peer, and not while a route
\* mutes.
LEMMA ForgetMutesGood ==
  ASSUME SInv, NEW x, NEW p \in Peers, Good(x, FALSE, FALSE)
  PROVE  /\ Good(S!ForgetMutes(x, p), FALSE, FALSE)
         /\ S!ForgetMutes(x, p).mutedBy = x.mutedBy \ {p}
         /\ S!ForgetMutes(x, p).session = x.session
  <1> DEFINE y == [x EXCEPT !.mutedBy = @ \ {p}]
             last == p \in x.mutedBy /\ y.mutedBy = {} /\ ~(setting /\ S!HasRoute(x))
  <1>1. x \in SState /\ setting \in BOOLEAN
    BY SBools DEF Good, Typed, SInv
  <1>2. /\ y \in SState /\ y.mutedBy = x.mutedBy \ {p} /\ y.route = x.route
        /\ y.muted = x.muted /\ y.hooked = x.hooked /\ y.session = x.session
    BY <1>1 DEF SState
  <1>3. Typed(y)
    BY <1>2 DEF Good, Typed
  <1>4. S!HasRoute(y) <=> S!HasRoute(x)
    BY <1>2 DEF S!HasRoute
  <1>5. CASE last
    <2>1. S!ForgetMutes(x, p) = S!Switch(y, FALSE)
      BY <1>5 DEF S!ForgetMutes
    <2>2. Typed(S!Switch(y, FALSE))
      BY <1>2, <1>3 DEF S!Switch, Typed, SState
    <2>3. /\ S!Switch(y, FALSE).muted = FALSE /\ S!Switch(y, FALSE).hooked = TRUE
          /\ S!Switch(y, FALSE).mutedBy = y.mutedBy
          /\ S!Switch(y, FALSE).session = y.session
      BY <1>2 DEF S!Switch, SState
    <2> QED
      BY <1>2, <1>5, <2>1, <2>2, <2>3 DEF Good
  <1>6. CASE ~last
    <2>1. S!ForgetMutes(x, p) = y
      BY <1>6 DEF S!ForgetMutes
    <2>2. x.mutedBy # {} => y.mutedBy # {} \/ (setting /\ S!HasRoute(x))
      BY <1>2, <1>6
    <2>3. Wished(x) => Wished(y)
      BY <1>4, <2>2 DEF Wished
    <2> HIDE DEF y, last
    <2> QED
      BY <1>2, <1>3, <2>1, <2>3 DEF Good
  <1> QED
    BY <1>5, <1>6

\* The end of a session leaves the speakers alone.
LEMMA LeaveGood ==
  ASSUME NEW x, NEW p \in Peers, Good(x, FALSE, FALSE)
  PROVE  /\ Good(S!Leave(x, p), FALSE, FALSE)
         /\ S!Leave(x, p).mutedBy = x.mutedBy
         /\ S!Leave(x, p).session = x.session \ {p}
         /\ S!Leave(x, p).route = x.route
  <1> DEFINE y == S!Leave(x, p)
  <1>1. x \in SState
    BY DEF Good, Typed
  <1>2. /\ y \in SState /\ y.mutedBy = x.mutedBy /\ y.route = x.route
        /\ y.muted = x.muted /\ y.hooked = x.hooked
        /\ y.session = x.session \ {p}
    BY <1>1 DEF SState, S!Leave
  <1> HIDE DEF y
  <1>3. Typed(y)
    BY <1>2 DEF Good, Typed
  <1>4. S!HasRoute(y) <=> S!HasRoute(x)
    BY <1>2 DEF S!HasRoute
  <1>5. Good(y, FALSE, FALSE)
    BY <1>2, <1>3, <1>4 DEF Good, Wished
  <1> QED
    BY <1>2, <1>5 DEF y

\* The record of no route.
LEMMA NoRouteType ==
  S!NoRoute \in S!Route /\ S!NoRoute.st = "none" /\ S!NoRoute.controls = FALSE
  BY DEF S!NoRoute, S!Route, S!Statuses

SetRoute(x, p, r) == [x EXCEPT !.route[p] = r]

\* A change of a route's record keeps x good if a route that was there still is;
\* if it is not, the speakers may be stranded.
LEMMA SetRouteGood ==
  ASSUME NEW x, NEW y, NEW p \in Peers, NEW r \in S!Route,
         Good(x, FALSE, FALSE), y = SetRoute(x, p, r),
         r.st # "none" \/ r = S!NoRoute
  PROVE  /\ y.mutedBy = x.mutedBy /\ y.session = x.session /\ y.route[p] = r
         /\ (r.st = "none" => x.route[p].st = "none") => Good(y, FALSE, FALSE)
         /\ Good(y, TRUE, FALSE)
  <1>1. x \in SState
    BY DEF Good, Typed
  <1>2. /\ y \in SState /\ y.mutedBy = x.mutedBy
        /\ y.muted = x.muted /\ y.hooked = x.hooked
        /\ y.session = x.session
        /\ y.route = [x.route EXCEPT ![p] = r]
    BY <1>1 DEF SState, SetRoute
  <1>3. Typed(y) /\ y.route[p] = r
    BY <1>1, <1>2, NoRouteType DEF Good, Typed, SState
  <1>4. (r.st = "none" => x.route[p].st = "none")
          => (S!HasRoute(x) => S!HasRoute(y))
    BY <1>1, <1>2 DEF S!HasRoute, SState
  <1>5. (r.st = "none" => x.route[p].st = "none") => Good(y, FALSE, FALSE)
    BY <1>2, <1>3, <1>4 DEF Good, Wished
  <1>6. Good(y, TRUE, FALSE)
    <2>1. x.muted => Wished(y) \/ stray \/ torn \/ Stranded(y)
      BY <1>2, <1>3 DEF Good, Wished, Stranded
    <2> QED
      BY <1>2, <1>3, <2>1 DEF Good
  <1> QED
    BY <1>2, <1>3, <1>5, <1>6

\* The parts of the actor's state.
LEMMA NowParts ==
  /\ S!Now.session = session /\ S!Now.route = sending
  /\ S!Now.mutedBy = mutedBy /\ S!Now.muted = muted
  BY DEF S!Now

\* The handlers of routes keep the invariant.
LEMMA RouteStep ==
  ASSUME SInv, NEW p \in Peers,
         \/ S!StartRoute(p) \/ S!Accepted(p) \/ S!Rejected(p)
         \/ S!OnRouteRequest(p) \/ S!Activate(p) \/ S!Reopen(p) \/ S!Stop(p)
  PROVE  SInv'
  <1> DEFINE asked == [st |-> "requesting", mine |-> TRUE, controls |-> FALSE]
  <1>1. S!Ready
    BY DEF S!StartRoute, S!Accepted, S!Rejected, S!OnRouteRequest, S!Activate,
           S!Reopen, S!Stop
  <1>2. Good(S!Now, FALSE, FALSE)
    BY <1>1, NowGood
  <1>3. mutedBy \subseteq session /\ sending \in [Peers -> S!Route]
    BY DEF SInv, S!TypeOK
  <1>4. S!NoRoute \in S!Route /\ S!NoRoute.st = "none" /\ S!NoRoute.controls = FALSE
    BY DEF S!NoRoute, S!Route, S!Statuses
  <1>5. asked \in S!Route /\ asked.st = "requesting"
    BY DEF S!Route, S!Statuses
  <1>6. CASE S!StartRoute(p)
    <2> DEFINE y == [S!Now EXCEPT !.route[p] = asked]
    <2>1. S!Becomes(y, FALSE, FALSE)
      BY <1>6 DEF S!StartRoute
    <2>2. Good(y, FALSE, FALSE) /\ y.mutedBy \subseteq y.session
      <3>1. y = SetRoute(S!Now, p, asked)
        BY DEF SetRoute
      <3> HIDE DEF asked, y
      <3> QED  BY <1>2, <1>3, <1>5, <3>1, SetRouteGood, NowParts
    <2> HIDE DEF y
    <2> QED
      BY <1>1, <2>1, <2>2, BecomesInv
  <1>7. CASE S!Accepted(p)
    <2> DEFINE y == S!BeginSender(S!Now, p, TRUE)
    <2>1. S!Becomes(y, FALSE, FALSE)
      BY <1>7 DEF S!Accepted
    <2>2. Good(y, FALSE, FALSE) /\ y.mutedBy \subseteq y.session
      BY <1>2, <1>3, BeginSenderGood, NowParts
    <2> HIDE DEF y
    <2> QED
      BY <1>1, <2>1, <2>2, BecomesInv
  <1>8. CASE S!Rejected(p)
    <2> DEFINE y == [S!Now EXCEPT !.route[p] = S!NoRoute]
    <2>1. S!Becomes(y, TRUE, FALSE)
      BY <1>8 DEF S!Rejected
    <2>2. Good(y, TRUE, FALSE) /\ y.mutedBy \subseteq y.session
      <3>1. y = SetRoute(S!Now, p, S!NoRoute)
        BY DEF SetRoute
      <3> HIDE DEF y
      <3> QED  BY <1>2, <1>3, <1>4, <3>1, SetRouteGood, NowParts
    <2> HIDE DEF y
    <2> QED
      BY <1>1, <2>1, <2>2, BecomesInv
  <1>9. CASE S!OnRouteRequest(p)
    <2> DEFINE y == S!BeginSender(S!Now, p, FALSE)
    <2>1. S!Becomes(y, FALSE, FALSE)
      BY <1>9 DEF S!OnRouteRequest
    <2>2. Good(y, FALSE, FALSE) /\ y.mutedBy \subseteq y.session
      BY <1>2, <1>3, BeginSenderGood, NowParts
    <2> HIDE DEF y
    <2> QED
      BY <1>1, <2>1, <2>2, BecomesInv
  <1>10. CASE S!Activate(p)
    <2> DEFINE r == [sending[p] EXCEPT !.st = "active"]
               y == [S!Now EXCEPT !.route[p] = r]
    <2>1. S!Now.route[p] = sending[p] /\ r \in S!Route /\ r.st = "active"
      BY <1>3, NowParts DEF S!Route, S!Statuses
    <2>2. S!Becomes(y, FALSE, FALSE)
      <3>1. y = [S!Now EXCEPT !.route[p].st = "active"]
        BY <2>1 DEF S!Now
      <3> QED
        BY <1>10, <3>1 DEF S!Activate
    <2>3. Good(y, FALSE, FALSE) /\ y.mutedBy \subseteq y.session
      <3>1. y = SetRoute(S!Now, p, r)
        BY DEF SetRoute
      <3> HIDE DEF r, y
      <3> QED  BY <1>2, <1>3, <2>1, <3>1, SetRouteGood, NowParts
    <2> HIDE DEF y
    <2> QED
      BY <1>1, <2>2, <2>3, BecomesInv
  <1>11. CASE S!Reopen(p)
    <2> DEFINE x == S!BeginSender(S!Now, p, sending[p].mine)
               r == [x.route[p] EXCEPT !.st = "active"]
               y == [x EXCEPT !.route[p] = r]
    <2>1. sending[p].mine \in BOOLEAN
      BY <1>3 DEF S!Route
    <2>2. Good(x, FALSE, FALSE) /\ x.mutedBy \subseteq x.session
      BY <1>2, <1>3, <2>1, BeginSenderGood, NowParts
    <2>3. x \in SState
      BY <2>2 DEF Good, Typed
    <2>4. S!Becomes([x EXCEPT !.route[p].st = "active"], FALSE, FALSE)
      BY <1>11 DEF S!Reopen
    <2> HIDE DEF x
    <2>5. y = [x EXCEPT !.route[p].st = "active"]
      BY <2>3 DEF SState
    <2>6. r \in S!Route /\ r.st = "active"
      BY <2>3 DEF SState, S!Route, S!Statuses
    <2>7. Good(y, FALSE, FALSE) /\ y.mutedBy \subseteq y.session
      <3>1. y = SetRoute(x, p, r)
        BY DEF SetRoute
      <3> HIDE DEF r, y
      <3> QED  BY <2>2, <2>6, <3>1, SetRouteGood
    <2> HIDE DEF y
    <2> QED
      BY <1>1, <2>4, <2>5, <2>7, BecomesInv
  <1>12. CASE S!Stop(p)
    <2> DEFINE y == S!StopRoute(S!Now, p)
    <2>1. S!Becomes(y, FALSE, FALSE)
      BY <1>12 DEF S!Stop
    <2>2. Good(y, FALSE, FALSE) /\ y.mutedBy \subseteq y.session
      BY <1>2, <1>3, StopRouteGood, NowParts
    <2> HIDE DEF y
    <2> QED
      BY <1>1, <2>1, <2>2, BecomesInv
  <1> QED
    BY <1>6, <1>7, <1>8, <1>9, <1>10, <1>11, <1>12

\* The handlers of sessions and of a peer's "Mute PC" keep the invariant.
LEMMA PeerStep ==
  ASSUME SInv, NEW p \in Peers,
         \/ S!Connect(p) \/ S!Lose(p) \/ S!Disconnect(p) \/ S!Revoke(p)
         \/ \E on \in BOOLEAN : S!RemoteMute(p, on)
  PROVE  SInv'
  <1>1. S!Ready
    BY DEF S!Connect, S!Lose, S!Disconnect, S!Revoke, S!RemoteMute
  <1>2. Good(S!Now, FALSE, FALSE)
    BY <1>1, NowGood
  <1>3. mutedBy \subseteq session /\ sending \in [Peers -> S!Route]
    BY DEF SInv, S!TypeOK
  <1>4. CASE S!Connect(p)
    <2> DEFINE again == [st |-> "requesting", mine |-> TRUE, controls |-> FALSE]
               x == [S!Now EXCEPT !.session = @ \cup {p}]
               y == [x EXCEPT !.route[p] = again]
    <2>1. Good(x, FALSE, FALSE) /\ x.mutedBy \subseteq x.session
      <3>1. /\ x.session = session \cup {p} /\ x.route = sending
            /\ x.mutedBy = mutedBy /\ x.muted = muted /\ x.hooked = FALSE
            /\ x \in SState
        BY <1>2 DEF S!Now, SState, Good, Typed
      <3>2. S!HasRoute(x) <=> S!HasRoute(S!Now)
        BY <3>1, NowParts DEF S!HasRoute
      <3> HIDE DEF x
      <3>3. Good(x, FALSE, FALSE)
        BY <1>2, <3>1, <3>2, NowParts DEF Good, Typed, Wished
      <3> QED
        BY <1>3, <3>1, <3>3
    <2>2. again \in S!Route /\ again.st = "requesting"
      BY DEF S!Route, S!Statuses
    <2>3. S!Becomes(x, FALSE, FALSE) \/ S!Becomes(y, FALSE, FALSE)
      BY <1>4 DEF S!Connect
    <2> HIDE DEF x, again
    <2>4. Good(y, FALSE, FALSE) /\ y.mutedBy \subseteq y.session
      <3>1. y = SetRoute(x, p, again)
        BY DEF SetRoute
      <3> HIDE DEF y
      <3> QED  BY <2>1, <2>2, <3>1, SetRouteGood
    <2> HIDE DEF y
    <2> QED
      BY <1>1, <2>1, <2>3, <2>4, BecomesInv
  <1>5. CASE S!Lose(p)
    <2> DEFINE v == S!Leave(S!Now, p)
               w == S!ForgetMutes(v, p)
               r == w.route[p]
               q == IF r.st = "none" \/ (r.st = "starting" /\ ~r.mine)
                    THEN S!NoRoute ELSE [r EXCEPT !.st = "paused"]
               y == [w EXCEPT !.route[p] = q]
               s == sending[p].st # "none" /\ y.route[p] = S!NoRoute
    <2>1. /\ Good(v, FALSE, FALSE) /\ v.mutedBy = mutedBy
          /\ v.session = session \ {p} /\ v.route = sending
      BY <1>2, LeaveGood, NowParts
    <2>2. S!Becomes(y, s, FALSE)
      BY <1>5 DEF S!Lose, S!PauseRoute
    <2> HIDE DEF v
    <2>3. /\ Good(w, FALSE, FALSE) /\ w.mutedBy = v.mutedBy \ {p}
          /\ w.session = v.session
      BY <2>1, ForgetMutesGood
    <2>4. w.route = sending
      BY <2>1 DEF S!ForgetMutes, S!Switch, Good, Typed, SState
    <2> HIDE DEF w
    <2>5. r \in S!Route
      BY <2>3 DEF SState, Good, Typed
    <2>6. q \in S!Route /\ (q.st # "none" \/ q = S!NoRoute)
      BY <2>5, NoRouteType DEF S!Route, S!Statuses
    <2>7. y = SetRoute(w, p, q)
      BY DEF SetRoute
    <2> HIDE DEF q, y
    <2>8. y.mutedBy = w.mutedBy /\ y.session = w.session /\ y.route[p] = q
      <3>1. y.mutedBy = w.mutedBy
        BY <2>3, <2>6, <2>7, SetRouteGood
      <3>2. y.session = w.session
        BY <2>3, <2>6, <2>7, SetRouteGood
      <3>3. y.route[p] = q
        BY <2>3, <2>7 DEF SetRoute, Good, Typed, SState
      <3> QED
        BY <3>1, <3>2, <3>3
    <2>9. y.mutedBy \subseteq y.session
      BY <1>3, <2>1, <2>3, <2>8
    <2>10. CASE s
      <3>1. S!Becomes(y, TRUE, FALSE)
        BY <2>2, <2>10 DEF S!Becomes
      <3>2. Good(y, TRUE, FALSE)
        BY <2>3, <2>6, <2>7, SetRouteGood
      <3> QED
        BY <1>1, <2>9, <3>1, <3>2, BecomesInv
    <2>11. CASE ~s
      <3>1. S!Becomes(y, FALSE, FALSE)
        BY <2>2, <2>11 DEF S!Becomes
      <3>2. q.st = "none" => w.route[p].st = "none"
        BY <2>4, <2>6, <2>8, <2>11
      <3>3. Good(y, FALSE, FALSE)
        BY <2>3, <2>6, <2>7, <3>2, SetRouteGood
      <3> QED
        BY <1>1, <2>9, <3>1, <3>3, BecomesInv
    <2> QED
      BY <2>10, <2>11
  <1>6. CASE S!Disconnect(p)
    <2> DEFINE v == S!Leave(S!Now, p)
               w == S!ForgetMutes(v, p)
               y == S!StopRoute(w, p)
    <2>1. /\ Good(v, FALSE, FALSE) /\ v.mutedBy = mutedBy
          /\ v.session = session \ {p}
      BY <1>2, LeaveGood, NowParts
    <2>2. S!Becomes(y, FALSE, FALSE)
      BY <1>6 DEF S!Disconnect
    <2> HIDE DEF v
    <2>3. /\ Good(w, FALSE, FALSE) /\ w.mutedBy = v.mutedBy \ {p}
          /\ w.session = v.session
      BY <2>1, ForgetMutesGood
    <2> HIDE DEF w
    <2>4. /\ Good(y, FALSE, FALSE) /\ y.mutedBy = w.mutedBy
          /\ y.session = w.session
      BY <2>3, StopRouteGood
    <2> HIDE DEF y
    <2>5. y.mutedBy \subseteq y.session
      BY <1>3, <2>1, <2>3, <2>4
    <2> QED
      BY <1>1, <2>2, <2>4, <2>5, BecomesInv
  <1>7. CASE S!Revoke(p)
    <2> DEFINE w == S!StopRoute(S!Now, p)
               v == S!Leave(w, p)
               y == S!ForgetMutes(v, p)
    <2>1. Good(w, FALSE, FALSE) /\ w.mutedBy \subseteq w.session
      BY <1>2, <1>3, StopRouteGood, NowParts
    <2>2. S!Becomes(y, FALSE, FALSE)
      BY <1>7 DEF S!Revoke
    <2> HIDE DEF w
    <2>3. /\ Good(v, FALSE, FALSE) /\ v.mutedBy = w.mutedBy
          /\ v.session = w.session \ {p}
      BY <2>1, LeaveGood
    <2> HIDE DEF v
    <2>4. /\ Good(y, FALSE, FALSE) /\ y.mutedBy = v.mutedBy \ {p}
          /\ y.session = v.session
      BY <2>3, ForgetMutesGood
    <2> HIDE DEF y
    <2>5. y.mutedBy \subseteq y.session
      BY <2>1, <2>3, <2>4
    <2> QED
      BY <1>1, <2>2, <2>4, <2>5, BecomesInv
  <1>8. ASSUME NEW on \in BOOLEAN, S!RemoteMute(p, on)
        PROVE  SInv'
    <2> DEFINE by == IF on THEN mutedBy \cup {p} ELSE mutedBy \ {p}
               y == S!Switch([S!Now EXCEPT !.mutedBy = by], on)
               o == ~on /\ by # {}
    <2>1. p \in session /\ S!Becomes(y, FALSE, o)
      BY <1>8 DEF S!RemoteMute
    <2>2. /\ y \in SState /\ y.mutedBy = by /\ y.session = session
          /\ y.route = sending /\ y.muted = on /\ y.hooked = TRUE
      BY <1>2 DEF S!Now, S!Switch, Good, Typed, SState
    <2>3. y.mutedBy \subseteq y.session /\ (on => by # {}) /\ o \in BOOLEAN
      BY <1>3, <2>1, <2>2
    <2>4. Good(y, FALSE, o)
      <3> HIDE DEF y, by
      <3>1. Typed(y)
        BY <1>2, <2>2, NowParts DEF Good, Typed
      <3> QED
        BY <2>2, <2>3, <3>1 DEF Good, Wished
    <2> HIDE DEF y, o
    <2> QED
      BY <1>1, <2>1, <2>3, <2>4, BecomesInv
  <1> QED
    BY <1>4, <1>5, <1>6, <1>7, <1>8

\* The invariant holds at the first start.
LEMMA SpeakersInit ==
  ASSUME S!Init
  PROVE  SInv
  <1>1. S!TypeOK
    <2>1. MaxEnds \in Nat
      BY AudioBounds
    <2>2. sending \in [Peers -> S!Route]
      BY NoRouteType DEF S!Init
    <2>3. ends \in 0 .. MaxEnds
      BY <2>1 DEF S!Init
    <2> QED
      BY <2>2, <2>3 DEF S!Init, S!TypeOK
  <1> QED
    BY <1>1, NoRouteType DEF S!Init, SInv, S!KeptMuted

\* The file, the setting, and the ends and starts of the process keep the
\* invariant.
LEMMA HostStep ==
  ASSUME SInv,
         S!WriteMarker \/ S!ChangeSetting \/ S!Shutdown \/ S!Crash \/ S!Start
  PROVE  SInv'
  <1> USE SBools DEF SInv
  <1>1. sending' = sending /\ setting' = setting /\ mutedBy' = mutedBy
          => (Wished(S!Now)' <=> Wished(S!Now))
    BY DEF Wished, S!Now, S!HasRoute
  <1>2. (Wished(S!Now))' <=> mutedBy' # {}
          \/ (setting' /\ \E p \in Peers : sending'[p].st # "none")
    BY DEF Wished, S!Now, S!HasRoute
  <1>3. Wished(S!Now) <=> mutedBy # {}
          \/ (setting /\ \E p \in Peers : sending[p].st # "none")
    BY DEF Wished, S!Now, S!HasRoute
  <1>4. CASE S!WriteMarker
    <2>1. S!TypeOK'
      BY <1>4 DEF S!WriteMarker, S!TypeOK
    <2> QED
      BY <1>1, <1>4, <2>1 DEF S!WriteMarker, S!KeptMuted
  <1>5. CASE S!ChangeSetting
    <2>1. S!TypeOK'
      BY <1>5 DEF S!ChangeSetting, S!TypeOK
    <2>2. mutedBy' = mutedBy /\ sending' = sending /\ running = TRUE
      BY <1>5 DEF S!ChangeSetting, S!Ready
    <2>3. muted' /\ ~stray' /\ ~torn' => Wished(S!Now)'
      BY <1>2, <1>3, <1>5, <2>2 DEF S!ChangeSetting, S!Ready
    <2>4. S!KeptMuted'
      BY <1>5 DEF S!ChangeSetting, S!KeptMuted
    <2>5. muted' /\ ~unwritten' /\ ~stray' /\ ~torn' => marker'
      BY <1>5 DEF S!ChangeSetting, S!Ready
    <2> QED
      BY <1>5, <2>1, <2>2, <2>3, <2>4, <2>5 DEF S!ChangeSetting
  <1>6. CASE S!Shutdown
    <2>0. MaxEnds \in Nat
      BY AudioBounds
    <2>1. S!TypeOK'
      <3>1. ends \in 0 .. MaxEnds /\ ends < MaxEnds /\ ends' = ends + 1
        BY <1>6 DEF S!Shutdown, S!Ended, S!TypeOK
      <3>2. ends' \in 0 .. MaxEnds
        BY <2>0, <3>1
      <3> QED
        BY <1>6, <3>2, NoRouteType DEF S!Shutdown, S!Ended, S!TypeOK
    <2> QED
      BY <1>6, <2>1, NoRouteType DEF S!Shutdown, S!Ended, S!Ready, S!KeptMuted
  <1>7. CASE S!Crash
    <2>0. MaxEnds \in Nat
      BY AudioBounds
    <2>1. S!TypeOK'
      <3>1. ends \in 0 .. MaxEnds /\ ends < MaxEnds /\ ends' = ends + 1
        BY <1>7 DEF S!Crash, S!Ended, S!TypeOK
      <3>2. ends' \in 0 .. MaxEnds
        BY <2>0, <3>1
      <3> QED
        BY <1>7, <3>2, NoRouteType DEF S!Crash, S!Ended, S!TypeOK
    <2> QED
      BY <1>7, <2>1, NoRouteType DEF S!Crash, S!Ended, S!KeptMuted
  <1>8. CASE S!Start
    <2>1. S!TypeOK'
      BY <1>8 DEF S!Start, S!StartMuted, S!TypeOK
    <2> QED
      BY <1>8, <2>1 DEF S!Start, S!StartMuted, S!KeptMuted
  <1> QED
    BY <1>4, <1>5, <1>6, <1>7, <1>8

\* The invariant holds in the composition.
LEMMA SpeakersInv == AudioSpec => []SInv
  <1>1. AudioInit => SInv
    BY SpeakersInit DEF AudioInit
  <1>2. SInv /\ [AudioNext]_<<part, vars, profileVars, speakerVars, defaultVars>>
          => SInv'
    <2> SUFFICES ASSUME SInv,
                   [AudioNext]_<<part, vars, profileVars, speakerVars, defaultVars>>
                 PROVE  SInv'
      OBVIOUS
    <2>1. CASE S!Next
      BY <2>1, RouteStep, PeerStep, HostStep DEF S!Next
    <2>2. CASE UNCHANGED speakerVars
      BY <2>2 DEF speakerVars, SInv, S!TypeOK, S!KeptMuted, Wished, S!Now, S!HasRoute
    <2> QED
      BY <2>1, <2>2 DEF AudioNext
  <1> QED
    BY <1>1, <1>2, PTL DEF AudioSpec

\* A peer's "Mute PC" keeps the speakers muted, and the speakers are muted only
\* for a peer or a route, in every behaviour, with any number of peers and of
\* crashes (stop_route_by_key, fail_route, forget_speaker_mutes,
\* DesktopHooks::new).
THEOREM SpeakersMutedForPeers == AudioSpec => []MutedForPeers
  <1>1. SInv => MutedForPeers
    BY NowParts DEF SInv, MutedForPeers, S!MutedForSomeone, Wished
  <1> QED
    BY <1>1, SpeakersInv, PTL

----------------------------------------------------------------------------

(* The default devices.                                                    *)

\* The kinds of device whose default SoundPush can account for.
Sound == D!Kinds \ (unset \cup unnoted)

\* The job that holds the lock has dealt with k.
Done(k) == job.step = "write" \/ (job.step = "output" /\ k = "input")

\* The newest job asks for what is wanted now.
JobsInv ==
  /\ applied <= newest
  /\ \A j \in jobs : /\ j.n \in 1 .. newest /\ j.step = "input"
                     /\ j.n = newest => j.want = wanted

\* So does the one that holds the lock, if it is the newest; the one that the
\* start begins asks for nothing.
JobInv ==
  /\ job.step = "free" => job = D!Free
  /\ stage = "starting" =>
       job.step # "free" /\ job.n = 0 /\ job.want = D!NotWanted
  /\ stage = "down" => job = D!Free
  /\ stage = "running" /\ job.step # "free" => job.n # 0
  /\ job.step # "free" /\ job.n # 0 =>
       applied = job.n /\ (job.n = newest => job.want = wanted)

\* What holds of a default that is SoundPush's device.
OwnInv(k) ==
  /\ stage # "down" => previous[k] # D!None
  /\ stage = "down" => note[k] # D!None
  /\ Done(k) => job.want[k]
  /\ stage = "running" /\ job.step = "free" /\ applied = newest => wanted[k]

\* The inductive invariant.  PutBack looks at the end of a job only; Done says
\* how far the job has come.
DInv ==
  /\ D!TypeOK
  /\ JobsInv
  /\ JobInv
  /\ stage # "down" /\ job.step = "free" => previous = note
  /\ \A k \in Sound : os[k] = D!Own => OwnInv(k)

\* The assumptions, one by one.
LEMMA DNames ==
  /\ D!Own \notin UserDevices /\ D!None \notin UserDevices
  /\ MaxWants \in Nat /\ MaxPicks \in Nat /\ MaxErrors \in Nat /\ MaxEnds \in Nat
  BY DeviceNames, AudioBounds DEF D!Own, D!None

\* The records of jobs and of what they leave.
LEMMA FreeParts ==
  /\ D!Free.step = "free" /\ D!Free.n = 0 /\ D!Free \in D!Job
  /\ \A n, w : D!Begin(n, w).n = n /\ D!Begin(n, w).want = w
               /\ D!Begin(n, w).step = "input"
  /\ \A n \in 0 .. MaxWants, w \in [D!Kinds -> BOOLEAN] : D!Begin(n, w) \in D!Job
  /\ D!NotWanted \in [D!Kinds -> BOOLEAN]
  /\ D!Nothing \in [D!Kinds -> UserDevices \cup {D!None}]
  BY DNames DEF D!Free, D!Begin, D!Job, D!Steps, D!NotWanted, D!Nothing

\* The invariant holds at the first start.
LEMMA DefaultsInit ==
  ASSUME D!Init
  PROVE  DInv
  <1>1. D!TypeOK
    BY DNames, FreeParts DEF D!Init, D!TypeOK
  <1>2. JobsInv /\ JobInv
    BY FreeParts DEF D!Init, JobsInv, JobInv
  <1>3. \A k \in Sound : os[k] # D!Own
    BY DNames DEF D!Init, Sound
  <1> QED
    BY <1>1, <1>2, <1>3 DEF D!Init, DInv

\* forward_state: the new job is newer than any that took the lock.
LEMMA WantInv ==
  ASSUME DInv, NEW w \in [D!Kinds -> BOOLEAN], D!Want(w)
  PROVE  DInv'
  <1> USE DEF D!Want
  <1>1. newest \in Nat /\ applied \in Nat /\ newest + 1 \in 0 .. MaxWants
        /\ applied \in 0 .. MaxWants
    BY DNames DEF DInv, D!TypeOK
  <1>2. D!Begin(newest + 1, w) \in D!Job
    BY <1>1, FreeParts
  <1>3. D!TypeOK'
    BY <1>1, <1>2 DEF DInv, D!TypeOK
  <1>4. JobsInv'
    BY <1>1, FreeParts DEF DInv, JobsInv
  <1>5. JobInv'
    <2>1. job.step # "free" /\ job.n # 0 => job.n <= newest
      BY DEF DInv, JobInv, JobsInv
    <2> QED
      BY <1>1, <2>1 DEF DInv, JobInv, JobsInv, D!TypeOK, D!Job
  <1>6. applied' # newest'
    BY <1>1 DEF DInv, JobsInv
  <1> QED
    BY <1>3, <1>4, <1>5, <1>6 DEF DInv, Sound, OwnInv, Done

\* A default that the user picks is not SoundPush's.
LEMMA PickInv ==
  ASSUME DInv, NEW k \in D!Kinds, NEW d \in UserDevices, D!UserPicks(k, d)
  PROVE  DInv'
  <1> USE DEF D!UserPicks
  <1>1. D!TypeOK'
    BY DNames DEF DInv, D!TypeOK
  <1>2. JobsInv' /\ JobInv'
    BY DEF DInv, JobsInv, JobInv
  <1>3. \A q \in D!Kinds : os'[q] = D!Own => os[q] = D!Own
    BY DNames DEF DInv, D!TypeOK
  <1>4. \A q \in D!Kinds : OwnInv(q)' <=> OwnInv(q)
    BY DEF OwnInv, Done
  <1> QED
    BY <1>1, <1>2, <1>3, <1>4 DEF DInv, Sound

\* The job that takes the lock has dealt with nothing yet.
LEMMA TakeInv ==
  ASSUME DInv, NEW j \in jobs, D!Take(j)
  PROVE  DInv'
  <1> USE DEF D!Take
  <1>1. j \in D!Job /\ j.n \in 1 .. newest /\ j.step = "input" /\ newest \in 0 .. MaxWants
        /\ (j.n = newest => j.want = wanted)
    BY DEF DInv, D!TypeOK, JobsInv
  <1>2. D!TypeOK'
    BY <1>1, DNames DEF DInv, D!TypeOK, D!Job
  <1>3. JobsInv' /\ JobInv'
    BY <1>1 DEF DInv, JobsInv, JobInv
  <1>4. \A q \in D!Kinds : ~Done(q)' /\ (OwnInv(q) => OwnInv(q)')
    BY <1>1 DEF OwnInv, Done
  <1> QED
    BY <1>1, <1>2, <1>3, <1>4 DEF DInv, Sound

\* take_over and give_back deal with the default of k.
LEMMA SwitchInv ==
  ASSUME DInv, NEW k \in D!Kinds, D!Switch(k)
  PROVE  DInv'
  <1> USE DEF D!Switch
  <1>1. /\ job \in D!Job /\ job.step = k /\ job'.n = job.n /\ job'.want = job.want
        /\ job'.step = (IF k = "input" THEN "output" ELSE "write")
        /\ job' \in D!Job
    BY DEF DInv, D!TypeOK, D!Job, D!Steps
  <1>2. D!TypeOK'
    <2>1. /\ os' \in [D!Kinds -> UserDevices \cup {D!Own}]
          /\ previous' \in [D!Kinds -> UserDevices \cup {D!None}]
          /\ unset' \subseteq D!Kinds /\ errors' \in 0 .. MaxErrors
      BY DNames DEF DInv, D!TypeOK, D!TakeOver, D!GiveBack, D!Remembered
    <2> QED
      BY <1>1, <2>1 DEF DInv, D!TypeOK
  <1>3. JobsInv' /\ JobInv'
    BY <1>1, FreeParts DEF DInv, JobsInv, JobInv, D!Kinds
  <1>4. \A q \in Sound' : os'[q] = D!Own => OwnInv(q)'
    <2>0. stage # "down" /\ stage' = stage /\ job'.step # "free"
      BY <1>1, FreeParts DEF DInv, JobInv, D!Kinds
    <2> SUFFICES ASSUME NEW q \in Sound', os'[q] = D!Own
                 PROVE  OwnInv(q)'
      OBVIOUS
    <2>1. q \in Sound /\ q \in D!Kinds
      BY DEF Sound, D!TakeOver, D!GiveBack
    <2>2. CASE q # k
      <3>1. os[q] = os'[q] /\ previous'[q] = previous[q]
        BY <2>1, <2>2 DEF D!TakeOver, D!GiveBack, DInv, D!TypeOK
      <3>2. OwnInv(q)
        BY <2>1, <3>1 DEF DInv
      <3>3. Done(q)' => Done(q)
        BY <1>1, <2>1, <2>2 DEF Done, D!Kinds
      <3> QED
        BY <1>1, <3>1, <3>2, <3>3, FreeParts DEF OwnInv, D!Kinds
    <2>3. CASE q = k /\ job.want[k]
      <3>1. previous[k] \in UserDevices \cup {D!None} /\ os[k] \in UserDevices \cup {D!Own}
        BY DEF DInv, D!TypeOK
      <3>2. os[k] = D!Own => previous[k] # D!None
        BY <2>0, <2>1, <2>3 DEF DInv, OwnInv
      <3>3. previous'[k] # D!None
        BY <2>3, <3>1, <3>2, DNames DEF D!TakeOver, D!Remembered, DInv, D!TypeOK
      <3> QED
        BY <1>1, <2>0, <2>3, <3>3 DEF OwnInv
    <2>4. CASE q = k /\ ~job.want[k]
      <3>1. os[k] = D!Own => previous[k] # D!None
        BY <2>0, <2>1, <2>4 DEF DInv, OwnInv
      <3>2. previous[k] # D!None => os'[k] # D!Own \/ k \in unset'
        BY <2>4, DNames DEF D!GiveBack, DInv, D!TypeOK
      <3>3. previous[k] = D!None => os' = os
        BY <2>4 DEF D!GiveBack
      <3> QED
        BY <2>4, <3>1, <3>2, <3>3 DEF Sound
    <2> QED
      BY <2>2, <2>3, <2>4
  <1> QED
    BY <1>1, <1>2, <1>3, <1>4 DEF DInv

\* write_marker, with which the job is over.
LEMMA MarkerInv ==
  ASSUME DInv, D!WriteMarker
  PROVE  DInv'
  <1> USE DEF D!WriteMarker, D!Noted
  <1>1. D!TypeOK'
    BY FreeParts DEF DInv, D!TypeOK
  <1>2. JobsInv' /\ JobInv' /\ stage # "down"
    BY FreeParts DEF DInv, JobsInv, JobInv
  <1>3. ASSUME NEW k \in Sound, os[k] = D!Own
        PROVE  OwnInv(k)'
    <2>1. OwnInv(k) /\ job.want[k]
      BY <1>3 DEF DInv, OwnInv, Done
    <2>2. stage = "starting" => FALSE
      BY <1>3, <2>1 DEF DInv, JobInv, D!NotWanted, Sound
    <2>3. stage = "running" /\ applied = newest => wanted[k]
      BY <2>1 DEF DInv, JobInv
    <2> QED
      BY <1>2, <2>1, <2>2, <2>3, FreeParts DEF OwnInv, Done
  <1> QED
    BY <1>1, <1>2, <1>3 DEF DInv, Sound

\* RunEvent::Exit begins a job that wants nothing.
LEMMA ExitInv ==
  ASSUME DInv, D!Exit
  PROVE  DInv'
  <1> USE DEF D!Exit
  <1>1. D!TypeOK'
    BY FreeParts, DNames DEF DInv, D!TypeOK
  <1>2. JobsInv' /\ JobInv'
    BY FreeParts DEF DInv, JobsInv, JobInv
  <1>3. \A k \in D!Kinds : OwnInv(k) => OwnInv(k)'
    BY FreeParts DEF OwnInv, Done
  <1> QED
    BY <1>1, <1>2, <1>3, FreeParts DEF DInv, Sound

\* The end of the process counts what has no note as torn.
LEMMA EndInv ==
  ASSUME DInv, D!End
  PROVE  DInv'
  <1> USE DEF D!End
  <1>1. D!TypeOK'
    BY FreeParts, DNames DEF DInv, D!TypeOK
  <1>2. JobsInv' /\ JobInv'
    BY FreeParts DEF DInv, JobsInv, JobInv, D!TypeOK
  <1>3. ASSUME NEW k \in Sound', os'[k] = D!Own
        PROVE  OwnInv(k)'
    BY <1>3, FreeParts DEF OwnInv, Done, Sound
  <1> QED
    BY <1>1, <1>2, <1>3, FreeParts DEF DInv

\* DefaultDevices::new begins with what the file says.
LEMMA StartInv ==
  ASSUME DInv, D!Start
  PROVE  DInv'
  <1> USE DEF D!Start, D!Left
  <1>0. job = D!Free
    BY DEF DInv, JobInv
  <1>1. D!TypeOK'
    BY FreeParts, DNames DEF DInv, D!TypeOK
  <1>2. JobsInv' /\ JobInv'
    BY <1>0, FreeParts DEF DInv, JobsInv, JobInv
  <1>3. ASSUME NEW k \in Sound, os[k] = D!Own
        PROVE  OwnInv(k)'
    <2>1. note[k] # D!None
      BY <1>3 DEF DInv, OwnInv
    <2>2. note # D!Nothing
      BY <1>3, <2>1 DEF D!Nothing, Sound
    <2> QED
      BY <2>1, <2>2, FreeParts DEF OwnInv, Done
  <1> QED
    BY <1>0, <1>1, <1>2, <1>3, FreeParts DEF DInv, Sound

\* The invariant holds in the composition.
LEMMA DefaultsInv == AudioSpec => []DInv
  <1>1. AudioInit => DInv
    BY DefaultsInit DEF AudioInit
  <1>2. DInv /\ [AudioNext]_<<part, vars, profileVars, speakerVars, defaultVars>>
          => DInv'
    <2> SUFFICES ASSUME DInv,
                   [AudioNext]_<<part, vars, profileVars, speakerVars, defaultVars>>
                 PROVE  DInv'
      OBVIOUS
    <2>1. CASE D!Next
      BY <2>1, WantInv, PickInv, TakeInv, SwitchInv, MarkerInv, ExitInv, EndInv,
         StartInv DEF D!Next
    <2>2. CASE UNCHANGED defaultVars
      BY <2>2 DEF defaultVars, DInv, D!TypeOK, JobsInv, JobInv, OwnInv, Done, Sound
    <2> QED
      BY <2>1, <2>2 DEF AudioNext
  <1> QED
    BY <1>1, <1>2, PTL DEF AudioSpec

\* SoundPush's device is the default only while it is wanted, and the file names
\* what it replaced, whenever the process ends, with any number of jobs, in
\* whatever order they take the lock, and of failing calls (apply, restore,
\* write_marker, DefaultDevices::new).
THEOREM DefaultsArePutBack == AudioSpec => []DefaultsPutBack
  <1>1. DInv => DefaultsPutBack
    BY FreeParts DEF DInv, DefaultsPutBack, D!PutBack, D!Recoverable, Sound, OwnInv
  <1> QED
    BY <1>1, DefaultsInv, PTL

----------------------------------------------------------------------------
(* Types.                                                                  *)

\* Numbers and messages of the updates stay within their bounds.
LEMMA UpdatesTyped ==
  ASSUME UInv
  PROVE  U!TypeOK
  <1>1. UWeak(U!Now) /\ U!Now \in UState /\ UBounds
    BY DEF UInv, UGood, UWeak
  <1>2. requester \in U!Ends /\ \A e \in U!Ends : e = requester \/ e = Partner
    BY <1>1, TwoEnds DEF UBounds
  <1>3. /\ status \in [U!Ends -> {"none", "requesting", "starting", "active"}]
        /\ id \in [U!Ends -> Nat] /\ profile \in [U!Ends -> U!Profile]
        /\ \A e \in U!Ends : chan[e] \in Seq(UMessages)
        /\ missed \subseteq U!Ends
    BY <1>1, NowIs DEF UState
  <1>4. MaxChanges \in Nat
    BY AudioBounds
  <1>5. \A e \in U!Ends : id[e] <= id[requester]
    BY <1>1, <1>2, <1>3, NowIs DEF UWeak, Phases
  <1>6. \A n \in Nat : n <= id[requester] => n \in 0 .. MaxChanges + 1
    BY <1>1, <1>2, <1>3, <1>4 DEF UBounds
  <1>7. id \in [U!Ends -> 0 .. MaxChanges + 1]
    BY <1>3, <1>5, <1>6
  <1>8. ASSUME NEW e \in U!Ends, NEW i \in DOMAIN chan[e]
        PROVE  chan[e][i] \in U!Message
    <2>1. i \in 1 .. Len(chan[e]) /\ chan[e][i] \in UMessages
      BY <1>3, LenProperties, ElementOfSeq
    <2>2. ToPartner(U!Now, chan[e][i]) \/ ToAsker(U!Now, chan[e][i])
      BY <1>1, <1>2, <2>1, NowIs DEF UWeak, Messages
    <2>3. chan[e][i].id >= 1 /\ chan[e][i].id <= id[requester]
      BY <2>2, NowIs DEF ToPartner, ToAsker
    <2>4. chan[e][i].id \in 1 .. MaxChanges + 1
      BY <1>4, <1>6, <2>1, <2>3 DEF UMessages
    <2> QED
      BY <2>1, <2>4 DEF UMessages, U!Message
  <1> QED
    BY <1>1, <1>3, <1>7, <1>8 DEF UBounds, U!TypeOK

\* The state of the pipelines, profiles, speakers and default devices has its
\* types, however they interleave.
THEOREM AudioTyped == AudioSpec => []TypesOK
  <1>1. PInv /\ UInv /\ SInv /\ DInv => TypesOK
    BY PipelinesSafe, UpdatesTyped DEF SInv, DInv, TypesOK
  <1> QED
    BY <1>1, PipelinesInv, UpdatesInv, SpeakersInv, DefaultsInv, PTL
=============================================================================
