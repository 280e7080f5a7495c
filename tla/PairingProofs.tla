---------------------------- MODULE PairingProofs ----------------------------
(***************************************************************************)
(* Proofs about Pairing for any devices, any trust stores to start from    *)
(* and any bounds: a code is accepted once, nobody is trusted whom the     *)
(* user did not agree to, and no connection stays open with nobody to use  *)
(* it.                                                                     *)
(***************************************************************************)
EXTENDS Pairing, SequenceTheorems, TLAPS

Has(q, e) == \E i \in 1 .. Len(q) : q[i] = e

\* The queues and the session tasks.
Nets == [queue: [Conns -> [Devices -> Seq(Events)]],
         serving: [Conns -> SUBSET Devices]]

IsEnd(c, d) == c \in DOMAIN conn /\ d \in {conn[c].from, conn[c].to}

\* Only an end whose user agreed says yes to the other one, and an end that is
\* told of the close is not served any more.
NetOK(n, ag) ==
  /\ n \in Nets
  /\ \A c \in DOMAIN conn : \A d \in Devices :
       IsEnd(c, d) /\ Has(n.queue[c][d], "Yes") => Peer(c, d) \in ag[c]
  /\ \A c \in Conns : \A d \in n.serving[c] : ~Has(n.queue[c][d], "Closed")

\* Who agreed: the ends of a connection, and the scanner of a code from the
\* beginning.
ConnsInv ==
  /\ conn \in Seq(Dialed) /\ Len(conn) <= MaxDials
  /\ \A c \in DOMAIN conn :
       /\ conn[c].from # conn[c].to
       /\ agreed[c] \subseteq {conn[c].from, conn[c].to}
       /\ conn[c].how = "qr" \/ conn[c].proof # 0 => conn[c].from \in agreed[c]

\* A code belongs to one device and is on its screen until it is accepted.
CodesInv ==
  /\ owner \in Seq(Devices) /\ Len(owner) <= MaxCodes
  /\ code \in [Devices -> 0 .. MaxCodes] /\ lapsed \in [Devices -> BOOLEAN]
  /\ accepted \in [1 .. MaxCodes -> Nat]
  /\ \A n \in 1 .. MaxCodes : n > Len(owner) => accepted[n] = 0
  /\ \A d \in Devices : code[d] # 0 =>
       /\ code[d] \in DOMAIN owner /\ owner[code[d]] = d
       /\ accepted[code[d]] = 0
  /\ SingleUse

\* A pairing is of one connection with its peer, and what it says was answered
\* was agreed.
PairingOK(d, p, x) ==
  x # NoPairing =>
    /\ IsEnd(x.conn, d) /\ Peer(x.conn, d) = p
    /\ x.local \/ x.scanner => d \in agreed[x.conn]
    /\ x.peer => p \in agreed[x.conn]

HoldInv ==
  /\ \A d, p \in Devices : PairingOK(d, p, pairing[d][p])
  /\ \A d \in Devices : \A c \in unpaired[d] :
       c \in DOMAIN conn /\ conn[c].to = d

\* The types of the rest.
TabsOK ==
  /\ trusted \in [Devices -> SUBSET Devices]
  /\ unpaired \in [Devices -> SUBSET Conns]
  /\ pairing \in [Devices -> [Devices -> Pending \cup {NoPairing}]]
  /\ session \in [Devices -> [Devices -> Conns \cup {NoConn}]]
  /\ agreed \in [Conns -> SUBSET Devices]
  /\ disturbed \in BOOLEAN /\ faults \in Nat

PairInv == /\ TabsOK /\ ConnsInv /\ CodesInv /\ NetOK(Net, agreed) /\ HoldInv
           /\ NoOrphans

----------------------------------------------------------------------------
(* Queues.                                                                 *)

\* What is in a queue after something was appended to it.
LEMMA HasAppend ==
  ASSUME NEW q \in Seq(Events), NEW m \in Events, NEW e
  PROVE  /\ Append(q, m) \in Seq(Events)
         /\ Has(Append(q, m), e) => Has(q, e) \/ e = m
         /\ q # <<>> => Append(q, m) # <<>> /\ Head(Append(q, m)) = Head(q)
<1>1. /\ Append(q, m) \in Seq(Events) /\ Len(Append(q, m)) = Len(q) + 1
      /\ \A i \in 1 .. Len(q) : Append(q, m)[i] = q[i]
      /\ Append(q, m)[Len(q) + 1] = m /\ Append(q, m) # <<>>
  BY AppendProperties
<1>2. Len(q) \in Nat
  BY LenProperties
<1>3. Has(Append(q, m), e) => Has(q, e) \/ e = m
  <2> SUFFICES ASSUME NEW i \in 1 .. Len(q) + 1, Append(q, m)[i] = e
               PROVE  Has(q, e) \/ e = m
    BY <1>1 DEF Has
  <2>1. CASE i \in 1 .. Len(q)
    BY <1>1, <2>1 DEF Has
  <2>2. CASE i = Len(q) + 1
    BY <1>1, <2>2
  <2> QED BY <1>2, <2>1, <2>2
<1>4. q # <<>> => Head(Append(q, m)) = Head(q)
  BY HeadTailAppend
<1> QED BY <1>1, <1>3, <1>4

\* What is in the beginning of a queue was in the queue.
LEMMA HasPrefix ==
  ASSUME NEW q \in Seq(Events), NEW k \in 0 .. Len(q)
  PROVE  /\ SubSeq(q, 1, k) \in Seq(Events)
         /\ \A e : Has(SubSeq(q, 1, k), e) => Has(q, e)
<1>1. Len(q) \in Nat /\ \A i \in 1 .. Len(q) : q[i] \in Events
  BY LenProperties, ElementOfSeq
<1>2. PICK t : t = SubSeq(q, 1, k)
  OBVIOUS
<1>3. t \in Seq(Events) /\ Len(t) = k /\ \A i \in 1 .. k : t[i] = q[i]
  BY <1>1, <1>2, SubSeqProperties
<1>4. 1 .. k \subseteq 1 .. Len(q)
  BY <1>1
<1> QED BY <1>2, <1>3, <1>4 DEF Has

\* What is in a queue after its head was taken, and what the head is.
LEMMA HasTail ==
  ASSUME NEW q \in Seq(Events), q # <<>>, NEW e
  PROVE  /\ Tail(q) \in Seq(Events)
         /\ Has(Tail(q), e) => Has(q, e)
         /\ Head(q) = e => Has(q, e)
<1>1. /\ Tail(q) \in Seq(Events) /\ Len(Tail(q)) = Len(q) - 1
      /\ \A i \in 1 .. Len(Tail(q)) : Tail(q)[i] = q[i + 1]
  BY HeadTailProperties
<1>2. Len(q) \in Nat /\ Len(q) # 0
  BY LenProperties, EmptySeq
<1>3. Head(q) = q[1]
  BY <1>2, HeadTailOfSubSeq, SubSeqFull
<1>4. Has(Tail(q), e) => Has(q, e)
  <2> SUFFICES ASSUME NEW i \in 1 .. Len(q) - 1, q[i + 1] = e
               PROVE  Has(q, e)
    BY <1>1 DEF Has
  <2>1. i + 1 \in 1 .. Len(q)
    BY <1>2
  <2> QED BY <2>1 DEF Has
<1> QED BY <1>1, <1>2, <1>3, <1>4 DEF Has

----------------------------------------------------------------------------
(* What the actor does to session tasks.                                   *)

\* The head of an end's queue says that the connection is established.
Fresh(n, c, d) ==
  n.queue[c][d] # <<>> /\ Head(n.queue[c][d]) = "Established"

\* No end comes to be served, and what is still to be taken up stays so.
Later(n, m) ==
  \A c \in Conns : \A d \in m.serving[c] :
    d \in n.serving[c] /\ (Fresh(n, c, d) => Fresh(m, c, d))

\* Send appends to the queue of the other end, if both are served.
LEMMA SendNet ==
  ASSUME NEW n \in Nets, NEW c \in Conns, NEW d \in Devices, NEW m \in Events,
         NEW r, r = Send(n, c, d, m)
  PROVE  /\ r \in Nets /\ r.serving = n.serving
         /\ \A b \in Conns : \A f \in Devices :
              \/ r.queue[b][f] = n.queue[b][f]
              \/ /\ b = c /\ n.serving[c] = {d, Peer(c, d)} /\ f = Peer(c, d)
                 /\ r.queue[b][f] = Append(n.queue[b][f], m)
<1>1. CASE n.serving[c] = {d, Peer(c, d)}
  <2>1. PICK p : p = Peer(c, d)
    OBVIOUS
  <2>2. p \in Devices
    BY <1>1, <2>1 DEF Nets
  <2>3. PICK q : q = Append(n.queue[c][p], m)
    OBVIOUS
  <2>4. q \in Seq(Events)
    BY <2>2, <2>3, HasAppend DEF Nets
  <2>5. r = [n EXCEPT !.queue[c][p] = q]
    BY <1>1, <2>1, <2>3 DEF Send
  <2>6. n = [queue |-> n.queue, serving |-> n.serving]
    BY DEF Nets
  <2>7. r = [queue |-> [n.queue EXCEPT ![c][p] = q], serving |-> n.serving]
    BY <2>5, <2>6
  <2>8. n.queue \in [Conns -> [Devices -> Seq(Events)]]
        /\ n.serving \in [Conns -> SUBSET Devices]
    BY DEF Nets
  <2> QED BY <1>1, <2>1, <2>2, <2>3, <2>4, <2>7, <2>8 DEF Nets
<1>2. CASE n.serving[c] # {d, Peer(c, d)}
  BY <1>2 DEF Send
<1> QED BY <1>1, <1>2

\* Close ends both ends, behind what is queued.
LEMMA CloseNet ==
  ASSUME NEW n \in Nets, NEW c \in Conns, NEW r, r = Close(n, c)
  PROVE  /\ r \in Nets /\ r.serving[c] = {}
         /\ \A b \in Conns : b # c => r.serving[b] = n.serving[b]
         /\ \A b \in Conns : \A f \in Devices :
              \/ r.queue[b][f] = n.queue[b][f]
              \/ b = c /\ r.queue[b][f] = Append(n.queue[b][f], "Closed")
<1>0. c # NoConn
  BY NoConnAssumption
<1> DEFINE q == [d \in Devices |-> IF d \in n.serving[c]
                                   THEN Append(n.queue[c][d], "Closed")
                                   ELSE n.queue[c][d]]
<1>1. \A d \in Devices : n.queue[c][d] \in Seq(Events)
  BY DEF Nets
<1>2. q \in [Devices -> Seq(Events)]
  BY <1>1, HasAppend DEF Events
<1>3. r = [queue |-> [n.queue EXCEPT ![c] = q],
           serving |-> [n.serving EXCEPT ![c] = {}]]
  BY <1>0 DEF Close
<1>4. \A f \in Devices :
        q[f] = n.queue[c][f] \/ q[f] = Append(n.queue[c][f], "Closed")
  OBVIOUS
<1> HIDE DEF q
<1> QED BY <1>2, <1>3, <1>4 DEF Nets

\* One event is taken.
LEMMA TakenNet ==
  ASSUME Net \in Nets, NEW c \in Conns, NEW d \in Devices,
         queue[c][d] # <<>>, NEW r, r = Taken(c, d)
  PROVE  /\ r \in Nets /\ r.serving = serving
         /\ r.queue[c][d] = Tail(queue[c][d])
         /\ \A b \in Conns : \A f \in Devices :
              b # c \/ f # d => r.queue[b][f] = queue[b][f]
<1>1. queue \in [Conns -> [Devices -> Seq(Events)]] /\ serving \in [Conns -> SUBSET Devices]
  BY DEF Nets, Net
<1>2. Tail(queue[c][d]) \in Seq(Events)
  BY <1>1, HasTail
<1>3. r = [queue |-> [queue EXCEPT ![c][d] = Tail(queue[c][d])], serving |-> serving]
  BY DEF Taken, Net
<1> QED BY <1>1, <1>2, <1>3 DEF Nets

\* The connections dialed so far.
LEMMA ConnsAre ==
  ASSUME ConnsInv
  PROVE  /\ Len(conn) \in 0 .. MaxDials /\ DOMAIN conn = 1 .. Len(conn)
         /\ DOMAIN conn \subseteq Conns
         /\ \A c \in DOMAIN conn : conn[c] \in Dialed
<1>1. MaxDials \in Nat
  BY BoundsAssumption
<1>2. Len(conn) \in Nat /\ DOMAIN conn = 1 .. Len(conn)
      /\ conn \in [1 .. Len(conn) -> Dialed]
  BY LenProperties DEF ConnsInv
<1> QED BY <1>1, <1>2 DEF ConnsInv, Conns

\* Send: an end says yes only if its user agreed.
LEMMA SendOK ==
  ASSUME ConnsInv, NEW ag, NEW n, NetOK(n, ag), NEW c \in Conns,
         NEW d \in Devices, IsEnd(c, d), NEW m \in Events \ {"Closed"},
         m = "Yes" => d \in ag[c], NEW r, r = Send(n, c, d, m)
  PROVE  NetOK(r, ag) /\ Later(n, r) /\ r.serving = n.serving
<1>1. n \in Nets
  BY DEF NetOK
<1>2. /\ r \in Nets /\ r.serving = n.serving
      /\ \A b \in Conns : \A f \in Devices :
           \/ r.queue[b][f] = n.queue[b][f]
           \/ /\ b = c /\ n.serving[c] = {d, Peer(c, d)} /\ f = Peer(c, d)
              /\ r.queue[b][f] = Append(n.queue[b][f], m)
  BY <1>1, SendNet, SMTT(60)
<1>3. \A b \in Conns : \A f \in Devices : n.queue[b][f] \in Seq(Events)
  BY <1>1 DEF Nets
<1>5. ASSUME NEW b \in DOMAIN conn, b \in Conns, NEW f \in Devices, IsEnd(b, f),
             Has(r.queue[b][f], "Yes")
      PROVE  Peer(b, f) \in ag[b]
  <2>1. CASE r.queue[b][f] = n.queue[b][f]
    BY <1>5, <2>1 DEF NetOK
  <2>2. CASE /\ b = c /\ f = Peer(c, d)
             /\ r.queue[b][f] = Append(n.queue[b][f], m)
    <3>1. Has(n.queue[b][f], "Yes") \/ m = "Yes"
      <4>1. n.queue[b][f] \in Seq(Events)
        BY <1>3, <1>5, SMTT(60)
      <4> QED BY <1>5, <2>2, <4>1, HasAppend
    <3>2. Peer(b, f) = d
      BY <2>2 DEF Peer, IsEnd, ConnsInv
    <3> QED BY <1>5, <2>2, <3>1, <3>2 DEF NetOK
  <2> QED BY <1>2, <1>5, <2>1, <2>2
<1>6. ASSUME NEW b \in Conns, NEW f \in r.serving[b]
      PROVE  /\ ~Has(r.queue[b][f], "Closed")
             /\ Fresh(n, b, f) => Fresh(r, b, f)
  <2>1. f \in n.serving[b] /\ f \in Devices
    BY <1>1, <1>2 DEF Nets
  <2>2. ~Has(n.queue[b][f], "Closed") /\ n.queue[b][f] \in Seq(Events)
    BY <1>3, <2>1 DEF NetOK
  <2>3. CASE r.queue[b][f] = n.queue[b][f]
    BY <2>2, <2>3 DEF Fresh
  <2>4. CASE r.queue[b][f] = Append(n.queue[b][f], m)
    BY <2>2, <2>4, HasAppend DEF Fresh
  <2> QED BY <1>2, <2>1, <2>3, <2>4
<1>7. DOMAIN conn \subseteq Conns
  BY ConnsAre
<1> QED BY <1>2, <1>5, <1>6, <1>7 DEF NetOK, Later

\* Close: nothing but the end is heard of the connection from then on.
LEMMA CloseOK ==
  ASSUME ConnsInv, NEW ag, NEW n, NetOK(n, ag), NEW c \in Conns \cup {NoConn},
         NEW r, r = Close(n, c)
  PROVE  /\ NetOK(r, ag) /\ Later(n, r)
         /\ c \in Conns => r.serving[c] = {}
<1>1. n \in Nets
  BY DEF NetOK
<1>2. CASE c = NoConn
  BY <1>2, NoConnAssumption DEF Close, Later
<1>3. CASE c \in Conns
  <2>1. /\ r \in Nets /\ r.serving[c] = {}
        /\ \A b \in Conns : b # c => r.serving[b] = n.serving[b]
        /\ \A b \in Conns : \A f \in Devices :
             \/ r.queue[b][f] = n.queue[b][f]
             \/ b = c /\ r.queue[b][f] = Append(n.queue[b][f], "Closed")
    BY <1>1, <1>3, CloseNet, SMTT(60)
  <2>2. \A b \in Conns : \A f \in Devices : n.queue[b][f] \in Seq(Events)
    BY <1>1 DEF Nets
  <2>3. ASSUME NEW b \in DOMAIN conn, b \in Conns, NEW f \in Devices, IsEnd(b, f),
               Has(r.queue[b][f], "Yes")
        PROVE  Peer(b, f) \in ag[b]
    <3>1. Has(n.queue[b][f], "Yes")
      <4>1. n.queue[b][f] \in Seq(Events) /\ "Closed" \in Events
        BY <2>2, <2>3 DEF Events
      <4>2. CASE r.queue[b][f] = n.queue[b][f]
        BY <2>3, <4>2
      <4>3. CASE r.queue[b][f] = Append(n.queue[b][f], "Closed")
        BY <2>3, <4>1, <4>3, HasAppend
      <4> QED BY <2>1, <2>3, <4>2, <4>3
    <3> QED BY <2>3, <3>1 DEF NetOK
  <2>4. ASSUME NEW b \in Conns, NEW f \in r.serving[b]
        PROVE  /\ f \in n.serving[b] /\ ~Has(r.queue[b][f], "Closed")
               /\ Fresh(n, b, f) => Fresh(r, b, f)
    <3>1. b # c /\ f \in n.serving[b] /\ f \in Devices
      BY <1>1, <2>1 DEF Nets
    <3>2. r.queue[b][f] = n.queue[b][f]
      BY <2>1, <3>1
    <3> QED BY <3>1, <3>2 DEF NetOK, Fresh
  <2>5. DOMAIN conn \subseteq Conns
    BY ConnsAre
  <2> QED BY <1>3, <2>1, <2>3, <2>4, <2>5 DEF NetOK, Later
<1> QED BY <1>2, <1>3

\* An event is taken, and no other end sees a difference.
LEMMA TakenOK ==
  ASSUME ConnsInv, NetOK(Net, agreed), NEW c \in Conns, NEW d \in Devices, NEW e,
         Next1(c, d, e), NEW r, r = Taken(c, d)
  PROVE  /\ NetOK(r, agreed) /\ r.serving = serving
         /\ \A b \in Conns : \A f \in Devices :
              b # c \/ f # d => r.queue[b][f] = queue[b][f]
         /\ Has(queue[c][d], e)
<1>1. Net \in Nets /\ Net.queue = queue /\ Net.serving = serving
  BY DEF NetOK, Net
<1>2. queue[c][d] # <<>> /\ Head(queue[c][d]) = e
  BY DEF Next1
<1>3. /\ r \in Nets /\ r.serving = serving
      /\ r.queue[c][d] = Tail(queue[c][d])
      /\ \A b \in Conns : \A f \in Devices :
           b # c \/ f # d => r.queue[b][f] = queue[b][f]
  BY <1>1, <1>2, TakenNet
<1>4. queue[c][d] \in Seq(Events)
  BY <1>1 DEF Nets
<1>5. \A x : Has(Tail(queue[c][d]), x) => Has(queue[c][d], x)
  BY <1>2, <1>4, HasTail
<1>6. Has(queue[c][d], e)
  BY <1>2, <1>4, HasTail
<1>7. \A b \in Conns : \A f \in Devices : \A x :
        Has(r.queue[b][f], x) => Has(queue[b][f], x)
  BY <1>3, <1>5
<1>8. DOMAIN conn \subseteq Conns
  BY ConnsAre
<1>9. \A b \in Conns : \A f \in serving[b] : f \in Devices
  BY <1>1 DEF Nets
<1>10. NetOK(r, agreed)
  BY <1>1, <1>3, <1>7, <1>8, <1>9 DEF NetOK
<1> QED BY <1>3, <1>6, <1>10

\* One call after another.
LEMMA LaterTrans ==
  ASSUME NEW n, NEW m, NEW r, Later(n, m), Later(m, r)
  PROVE  Later(n, r)
  BY DEF Later

\* More agreement does no harm.
LEMMA NetGrows ==
  ASSUME ConnsInv, NEW ag, NEW bg, NEW n, NetOK(n, ag),
         \A c \in Conns : ag[c] \subseteq bg[c]
  PROVE  NetOK(n, bg)
<1>1. DOMAIN conn \subseteq Conns
  BY ConnsAre
<1> QED BY <1>1 DEF NetOK

\* The network a handler leaves is the one of the next state.
LEMMA NetOKNext ==
  ASSUME NEW m, NetIs(m), NetOK(m, agreed'), conn' = conn
  PROVE  NetOK(Net, agreed)'
<1>1. m \in Nets /\ m = [queue |-> m.queue, serving |-> m.serving]
  BY DEF NetOK, Nets
<1>2. Net' = m
  BY <1>1 DEF NetIs, Net
<1>3. \A c \in DOMAIN conn : \A d : Peer(c, d)' = Peer(c, d) /\ IsEnd(c, d)' = IsEnd(c, d)
  BY DEF Peer, IsEnd
<1> QED BY <1>1, <1>2, <1>3 DEF NetOK

----------------------------------------------------------------------------
(* Trust.                                                                  *)

\* d's session with p, if it changes, is the one that was there no more, and
\* nothing else comes to be served.
Switched(m, d, p, n, ag) ==
  /\ NetIs(m) /\ NetOK(m, ag) /\ Later(n, m)
  /\ session' \in [Devices -> [Devices -> Conns \cup {NoConn}]]
  /\ \A f, q \in Devices : session'[f][q] # session[f][q] =>
       /\ f = d /\ q = p
       /\ session[d][p] \in Conns => m.serving[session[d][p]] = {}

\* promote_session: one of the two connections is closed, the other one is
\* the session.
LEMMA PromoteOK ==
  ASSUME ConnsInv, TabsOK, NEW ag, NEW n, NetOK(n, ag), NEW d \in Devices,
         NEW p \in Devices, NEW c \in Conns, IsEnd(c, d),
         PromoteSession(d, p, c, n)
  PROVE  \E m : /\ Switched(m, d, p, n, ag)
                /\ session'[d][p] = c \/ m.serving[c] = {}
<1>1. PICK old \in Conns \cup {NoConn} : old = session[d][p]
  BY DEF TabsOK
<1>2. CASE /\ session' = [session EXCEPT ![d][p] = c]
           /\ NetIs(Send(Close(n, old), c, d, "Ticket"))
  <2>1. PICK k : k = Close(n, old)
    OBVIOUS
  <2>2. NetOK(k, ag) /\ Later(n, k) /\ (old \in Conns => k.serving[old] = {})
    BY <2>1, CloseOK
  <2>3. PICK m : m = Send(k, c, d, "Ticket")
    OBVIOUS
  <2>4. NetOK(m, ag) /\ Later(k, m) /\ m.serving = k.serving
    BY <2>2, <2>3, SendOK DEF Events
  <2>5. NetIs(m) /\ Later(n, m)
    BY <1>2, <2>1, <2>2, <2>3, <2>4, LaterTrans
  <2>6. /\ session' \in [Devices -> [Devices -> Conns \cup {NoConn}]]
        /\ \A f, q \in Devices : session'[f][q] # session[f][q] => f = d /\ q = p
        /\ session'[d][p] = c
    BY <1>2 DEF TabsOK
  <2> QED BY <1>1, <2>2, <2>4, <2>5, <2>6 DEF Switched
<1>3. CASE NetIs(Close(n, c)) /\ UNCHANGED session
  <2>1. PICK m : m = Close(n, c)
    OBVIOUS
  <2>2. NetOK(m, ag) /\ Later(n, m) /\ m.serving[c] = {}
    BY <2>1, CloseOK
  <2> QED BY <1>3, <2>1, <2>2 DEF TabsOK, Switched
<1> QED BY <1>1, <1>2, <1>3 DEF PromoteSession

\* A session task whose commands nobody can send any more ends its connection.
LEMMA AbortOK ==
  ASSUME ConnsInv, NEW ag, NEW n, NetOK(n, ag), NEW c \in Conns,
         NEW d \in Devices, IsEnd(c, d), NEW m \in Aborted(n, c, d)
  PROVE  NetOK(m, ag) /\ Later(n, m) /\ m.serving[c] = {}
<1>1. n \in Nets /\ \A b \in Conns : \A f \in Devices : n.queue[b][f] \in Seq(Events)
  BY DEF NetOK, Nets
<1>2. CASE n.serving[c] = {}
  BY <1>2 DEF Aborted, Later
<1>3. CASE n.serving[c] # {}
  <2>1. PICK p \in Devices : p = Peer(c, d)
    <3>1. conn[c] \in Dialed
      BY ConnsAre DEF IsEnd
    <3> QED BY <3>1 DEF Peer, IsEnd, Dialed
  <2>2. n.queue[c][p] \in Seq(Events) /\ Len(n.queue[c][p]) \in Nat
    BY <1>1, <2>1, LenProperties
  <2>3. PICK k \in 0 .. Len(n.queue[c][p]) :
          m = Close([n EXCEPT !.queue[c][p] = SubSeq(n.queue[c][p], 1, k)], c)
    <3>1. m \in {Close([n EXCEPT !.queue[c][p] = SubSeq(n.queue[c][p], 1, k)], c) :
                   k \in Begun(n.queue[c][p]) .. Len(n.queue[c][p])}
      BY <1>3, <2>1 DEF Aborted
    <3>2. PICK k \in Begun(n.queue[c][p]) .. Len(n.queue[c][p]) :
            m = Close([n EXCEPT !.queue[c][p] = SubSeq(n.queue[c][p], 1, k)], c)
      BY <3>1
    <3>3. k \in 0 .. Len(n.queue[c][p])
      BY <2>2 DEF Begun
    <3> QED BY <3>2, <3>3
  <2>3a. PICK x : x = [n EXCEPT !.queue[c][p] = SubSeq(n.queue[c][p], 1, k)]
    OBVIOUS
  <2>3b. m = Close(x, c)
    BY <2>3, <2>3a
  <2>4. PICK t : t = SubSeq(n.queue[c][p], 1, k)
    OBVIOUS
  <2>5. t \in Seq(Events) /\ \A e : Has(t, e) => Has(n.queue[c][p], e)
    BY <2>2, <2>4, HasPrefix
  <2>6. /\ x \in Nets /\ x.serving = n.serving
        /\ \A b \in Conns : \A f \in Devices :
             x.queue[b][f] = IF b = c /\ f = p THEN t ELSE n.queue[b][f]
    <3>1. x = [n EXCEPT !.queue[c][p] = t]
      BY <2>3a, <2>4
    <3>2. n = [queue |-> n.queue, serving |-> n.serving]
      BY <1>1 DEF Nets
    <3>3. x = [queue |-> [n.queue EXCEPT ![c][p] = t], serving |-> n.serving]
      BY <3>1, <3>2
    <3>4. n.queue \in [Conns -> [Devices -> Seq(Events)]]
          /\ n.serving \in [Conns -> SUBSET Devices]
      BY <1>1 DEF Nets
    <3> QED BY <2>1, <2>5, <3>3, <3>4 DEF Nets
  <2>7. \A b \in Conns : \A f \in Devices : \A e :
          Has(x.queue[b][f], e) => Has(n.queue[b][f], e)
    BY <2>5, <2>6
  <2>8. NetOK(x, ag)
    <3>1. DOMAIN conn \subseteq Conns
      BY ConnsAre
    <3>2. \A b \in Conns : \A f \in n.serving[b] : f \in Devices
      BY <1>1 DEF Nets
    <3> QED BY <2>6, <2>7, <3>1, <3>2 DEF NetOK
  <2>9. NetOK(m, ag) /\ m.serving[c] = {}
    BY <2>3b, <2>8, CloseOK
  <2>10. /\ \A b \in Conns : b # c => m.serving[b] = n.serving[b]
         /\ \A b \in Conns : \A f \in Devices : b # c => m.queue[b][f] = n.queue[b][f]
    <3>1. /\ \A b \in Conns : b # c => m.serving[b] = x.serving[b]
          /\ \A b \in Conns : \A f \in Devices :
               \/ m.queue[b][f] = x.queue[b][f]
               \/ b = c /\ m.queue[b][f] = Append(x.queue[b][f], "Closed")
      <4>1. x \in Nets /\ m = Close(x, c)
        BY <2>3b, <2>6
      <4>2. /\ m \in Nets /\ m.serving[c] = {}
            /\ \A b \in Conns : b # c => m.serving[b] = x.serving[b]
            /\ \A b \in Conns : \A f \in Devices :
                 \/ m.queue[b][f] = x.queue[b][f]
                 \/ b = c /\ m.queue[b][f] = Append(x.queue[b][f], "Closed")
        BY <4>1, CloseNet, SMTT(60)
      <4> QED BY <4>2
    <3>2. \A b \in Conns : \A f \in Devices : b # c => m.queue[b][f] = x.queue[b][f]
      BY <3>1
    <3>3. \A b \in Conns : b # c =>
            m.serving[b] = n.serving[b] /\ \A f \in Devices : x.queue[b][f] = n.queue[b][f]
      BY <2>6, <3>1
    <3> QED BY <3>2, <3>3
  <2>11. \A b \in Conns : \A f \in n.serving[b] : f \in Devices
    BY <1>1 DEF Nets
  <2> QED BY <2>9, <2>10, <2>11 DEF Later, Fresh
<1> QED BY <1>2, <1>3

\* complete_pairing: the connection is the session, or it is closed.
LEMMA CompleteOK ==
  ASSUME ConnsInv, TabsOK, NEW ag, NEW n, NetOK(n, ag), NEW d \in Devices,
         NEW p \in Devices, NEW c \in Conns, IsEnd(c, d),
         CompletePairing(d, p, c, n)
  PROVE  \E m :
           /\ Switched(m, d, p, n, ag)
           /\ session'[d][p] = c \/ m.serving[c] = {}
           /\ trusted' \in [Devices -> SUBSET Devices] /\ disturbed' \in BOOLEAN
           /\ faults' \in Nat /\ faults' >= faults
<1>1. /\ trusted' \in [Devices -> SUBSET Devices] /\ disturbed' \in BOOLEAN
      /\ faults' \in Nat /\ faults' >= faults
  <2>1. trusted' \in [Devices -> SUBSET Devices]
    BY DEF CompletePairing, TabsOK
  <2>2. disturbed' \in BOOLEAN
    BY DEF CompletePairing, TabsOK
  <2>3. faults' \in Nat /\ faults' >= faults
    BY DEF CompletePairing, TabsOK
  <2> QED BY <2>1, <2>2, <2>3
<1>2. CASE PromoteSession(d, p, c, n)
  <2>1. PICK m : /\ Switched(m, d, p, n, ag)
                 /\ session'[d][p] = c \/ m.serving[c] = {}
    BY <1>2, PromoteOK
  <2> QED BY <1>1, <2>1
<1>3. CASE (\E m \in Aborted(n, c, d) : NetIs(m)) /\ UNCHANGED session
  <2>1. PICK m \in Aborted(n, c, d) : NetIs(m)
    BY <1>3
  <2>2. NetOK(m, ag) /\ Later(n, m) /\ m.serving[c] = {}
    BY AbortOK
  <2> QED BY <1>1, <1>3, <2>1, <2>2 DEF TabsOK, Switched
<1> QED BY <1>2, <1>3 DEF CompletePairing

----------------------------------------------------------------------------
(* Steps.                                                                  *)

\* Somebody has the connection.
Held(c, d) ==
  \/ c \in unpaired[d]
  \/ pairing[d][Peer(c, d)].conn = c
  \/ session[d][Peer(c, d)] = c

\* Handling begins, with the next event of c for d taken, if any.
Began(n, c, d) ==
  /\ n.serving = serving
  /\ \A b \in Conns : \A f \in Devices :
       b # c \/ f # d => n.queue[b][f] = queue[b][f]

\* The network of a step: n is what the handler begins with, that is without
\* the event it takes from d's queue of c.
LEMMA NetStep ==
  ASSUME PairInv, conn' = conn, NEW c, NEW d, NEW n, NEW m,
         Began(n, c, d), Later(n, m), NetIs(m), NetOK(m, agreed')
  PROVE  /\ NetOK(Net, agreed)'
         /\ \A b \in Conns : \A f \in serving'[b] :
              /\ f \in serving[b] /\ f \in Devices
              /\ (b # c \/ f # d) /\ Next1(b, f, "Established") =>
                   Next1(b, f, "Established")'
<1>1. NetOK(Net, agreed)'
  BY NetOKNext
<1>2. queue' = m.queue /\ serving' = m.serving
  BY DEF NetIs
<1>3. \A b \in Conns : \A f \in serving[b] : f \in Devices
  BY DEF PairInv, NetOK, Nets, Net
<1> QED BY <1>1, <1>2, <1>3 DEF Began, Later, Fresh, Next1

\* Codes that nobody touches.
LEMMA CodesKept ==
  ASSUME PairInv, UNCHANGED <<code, lapsed, owner, accepted>>
  PROVE  CodesInv'
  BY DEF PairInv, CodesInv, SingleUse

\* Pairings go, or are right about the connection they are of.
LEMMA HoldKept ==
  ASSUME PairInv, conn' = conn,
         \A c \in Conns : agreed[c] \subseteq agreed'[c],
         \A d, p \in Devices :
           pairing'[d][p] = pairing[d][p] \/ PairingOK(d, p, pairing[d][p])',
         \A d \in Devices : \A c \in unpaired'[d] :
           c \in unpaired[d] \/ (c \in DOMAIN conn /\ conn[c].to = d)
  PROVE  HoldInv'
<1>1. DOMAIN conn \subseteq Conns
  BY ConnsAre DEF PairInv
<1>2. ASSUME NEW d \in Devices, NEW p \in Devices
      PROVE  PairingOK(d, p, pairing[d][p])'
  <2>1. PairingOK(d, p, pairing[d][p])
    BY DEF PairInv, HoldInv
  <2>2. CASE pairing'[d][p] = pairing[d][p]
    BY <1>1, <2>1, <2>2 DEF PairingOK, IsEnd, Peer
  <2> QED BY <2>2
<1>3. \A d \in Devices : \A c \in unpaired'[d] : c \in DOMAIN conn' /\ conn'[c].to = d
  BY DEF PairInv, HoldInv
<1> QED BY <1>2, <1>3 DEF HoldInv

\* Codes come on a screen and go.
LEMMA ScreenStep ==
  ASSUME PairInv, NEW d \in Devices,
         StartPairing(d) \/ StopPairing(d) \/ CodeLapses(d)
  PROVE  PairInv'
<1>1. /\ UNCHANGED <<trusted, conn, queue, serving, unpaired, pairing, session,
                     agreed, accepted, faults>>
      /\ disturbed' \in BOOLEAN
  BY DEF StartPairing, StopPairing, CodeLapses, netVars, PairInv, TabsOK
<1>2. TabsOK' /\ ConnsInv'
  BY <1>1 DEF PairInv, TabsOK, ConnsInv
<1>3. NetOK(Net, agreed)'
  BY <1>1 DEF PairInv, NetOK, Net, IsEnd, Peer
<1>4. HoldInv' /\ NoOrphans'
  BY <1>1 DEF PairInv, HoldInv, PairingOK, IsEnd, Peer, NoOrphans
<1>5. CodesInv'
  <2>0. MaxCodes \in Nat /\ Len(owner) \in Nat /\ DOMAIN owner = 1 .. Len(owner)
    BY BoundsAssumption, LenProperties DEF PairInv, CodesInv
  <2>1. CASE StartPairing(d)
    <3>1. /\ Len(owner) < MaxCodes /\ owner' = Append(owner, d)
          /\ code' = [code EXCEPT ![d] = Len(owner) + 1]
          /\ lapsed' = [lapsed EXCEPT ![d] = FALSE]
      BY <2>1 DEF StartPairing
    <3>2. /\ owner' \in Seq(Devices) /\ Len(owner') = Len(owner) + 1
          /\ \A n \in 1 .. Len(owner) : owner'[n] = owner[n]
          /\ owner'[Len(owner) + 1] = d
      BY <3>1, AppendProperties DEF PairInv, CodesInv
    <3>3. DOMAIN owner' = 1 .. Len(owner) + 1
      BY <3>2, LenProperties
    <3>4. /\ code' \in [Devices -> 0 .. MaxCodes] /\ lapsed' \in [Devices -> BOOLEAN]
          /\ Len(owner') <= MaxCodes
      BY <2>0, <3>1, <3>2 DEF PairInv, CodesInv
    <3>5. accepted'[Len(owner) + 1] = 0
      BY <1>1, <2>0, <3>1 DEF PairInv, CodesInv
    <3>6. ASSUME NEW e \in Devices, code'[e] # 0
          PROVE  /\ code'[e] \in DOMAIN owner' /\ owner'[code'[e]] = e
                 /\ accepted'[code'[e]] = 0
      <4>1. CASE e = d
        <5>1. code'[e] = Len(owner) + 1
          BY <3>1, <4>1 DEF PairInv, CodesInv
        <5> QED BY <2>0, <3>2, <3>3, <3>5, <4>1, <5>1
      <4>2. CASE e # d
        <5>1. code'[e] = code[e]
          BY <3>1, <4>2 DEF PairInv, CodesInv
        <5>2. /\ code[e] \in 1 .. Len(owner) /\ owner[code[e]] = e
              /\ accepted[code[e]] = 0
          BY <2>0, <3>6, <5>1 DEF PairInv, CodesInv
        <5> QED BY <1>1, <2>0, <3>2, <3>3, <5>1, <5>2
      <4> QED BY <4>1, <4>2
    <3>7. \A n \in 1 .. MaxCodes : n > Len(owner') => accepted'[n] = 0
      BY <1>1, <2>0, <3>2 DEF PairInv, CodesInv
    <3> QED BY <1>1, <3>2, <3>4, <3>6, <3>7 DEF PairInv, CodesInv, SingleUse
  <2>2. CASE StopPairing(d) \/ CodeLapses(d)
    <3>1. /\ code' = code \/ code' = [code EXCEPT ![d] = 0]
          /\ lapsed' \in [Devices -> BOOLEAN] /\ owner' = owner
      BY <2>2 DEF StopPairing, CodeLapses, Spent, PairInv, CodesInv
    <3>2. \A e \in Devices : code'[e] = 0 \/ code'[e] = code[e]
      BY <3>1 DEF PairInv, CodesInv
    <3>3. code' \in [Devices -> 0 .. MaxCodes]
      <4>1. 0 \in 0 .. MaxCodes /\ code \in [Devices -> 0 .. MaxCodes]
        BY <2>0 DEF PairInv, CodesInv
      <4> QED BY <3>1, <4>1
    <3> QED BY <1>1, <3>1, <3>2, <3>3 DEF PairInv, CodesInv, SingleUse
  <2> QED BY <2>1, <2>2
<1> QED BY <1>2, <1>3, <1>4, <1>5 DEF PairInv

\* A new connection: both ends are to take it up, and who scanned a code has
\* agreed.
LEMMA DialStep ==
  ASSUME PairInv, NEW d \in Devices, NEW p \in Others(d),
         NEW how \in {"qr", "code", "connect"}, NEW proof \in 0 .. MaxCodes,
         NEW who \in SUBSET {d}, how = "qr" \/ proof # 0 => d \in who,
         Dial(d, p, how, proof, who)
  PROVE  PairInv'
<1> DEFINE c == Len(conn) + 1
           x == [from |-> d, to |-> p, how |-> how, proof |-> proof]
<1>0. /\ Len(conn) \in Nat /\ DOMAIN conn = 1 .. Len(conn)
      /\ DOMAIN conn \subseteq Conns /\ MaxDials \in Nat
      /\ p \in Devices /\ p # d
  BY ConnsAre, BoundsAssumption DEF PairInv, Others
<1>1. /\ c \in Conns /\ conn' = Append(conn, x)
      /\ queue' = [queue EXCEPT ![c] = [e \in Devices |->
                 IF e = d THEN <<"Established">>
                 ELSE IF e # p THEN <<>>
                 ELSE IF how = "connect" THEN <<"Established">>
                 ELSE <<"Established", "PairRequest">>]]
      /\ serving' = [serving EXCEPT ![c] = {d, p}]
      /\ agreed' = [agreed EXCEPT ![c] = who]
      /\ UNCHANGED <<trusted, code, lapsed, owner, unpaired, pairing, session,
                     accepted, disturbed, faults>>
  BY DEF Dial
<1>2. x \in Dialed /\ x.from = d /\ x.to = p /\ x.how = how /\ x.proof = proof
  BY <1>0 DEF Dialed
<1> HIDE DEF x
<1>3. /\ conn' \in Seq(Dialed) /\ Len(conn') = c
      /\ \A b \in DOMAIN conn : conn'[b] = conn[b]
      /\ conn'[c] = x
  BY <1>0, <1>1, <1>2, AppendProperties DEF PairInv, ConnsInv
<1>4. DOMAIN conn' = DOMAIN conn \cup {c} /\ c \notin DOMAIN conn
  <2>1. DOMAIN conn' = 1 .. c
    BY <1>3, LenProperties
  <2> QED BY <1>0, <2>1
<1>5. /\ \A b \in Conns : b # c => /\ queue'[b] = queue[b]
                                   /\ serving'[b] = serving[b]
                                   /\ agreed'[b] = agreed[b]
      /\ serving'[c] = {d, p} /\ agreed'[c] = who
      /\ \A e \in Devices : queue'[c][e] \in {<<>>, <<"Established">>,
                                              <<"Established", "PairRequest">>}
      /\ queue'[c][d] # <<>> /\ queue'[c][p] # <<>>
      /\ Head(queue'[c][d]) = "Established" /\ Head(queue'[c][p]) = "Established"
  BY <1>0, <1>1 DEF PairInv, NetOK, Nets, Net, TabsOK
<1>6. TabsOK'
  BY <1>1 DEF PairInv, TabsOK
<1>7. ConnsInv'
  <2>1. c <= MaxDials
    BY <1>0, <1>1 DEF Conns
  <2>2. ASSUME NEW b \in DOMAIN conn'
        PROVE  /\ conn'[b].from # conn'[b].to
               /\ agreed'[b] \subseteq {conn'[b].from, conn'[b].to}
               /\ conn'[b].how = "qr" \/ conn'[b].proof # 0 =>
                    conn'[b].from \in agreed'[b]
    <3>1. CASE b = c
      BY <1>0, <1>2, <1>3, <1>5, <3>1
    <3>2. CASE b \in DOMAIN conn
      BY <1>0, <1>3, <1>4, <1>5, <3>2 DEF PairInv, ConnsInv
    <3> QED BY <1>4, <3>1, <3>2
  <2> QED BY <1>3, <2>1, <2>2 DEF ConnsInv
<1>8. NetOK(Net, agreed)'
  <2>1. Net' \in Nets
    <3>1. /\ queue \in [Conns -> [Devices -> Seq(Events)]]
          /\ serving \in [Conns -> SUBSET Devices]
      BY DEF PairInv, NetOK, Nets, Net
    <3>2. /\ <<>> \in Seq(Events) /\ <<"Established">> \in Seq(Events)
          /\ <<"Established", "PairRequest">> \in Seq(Events)
      BY DEF Events
    <3>3. queue' \in [Conns -> [Devices -> Seq(Events)]]
      BY <1>1, <3>1, <3>2
    <3>4. serving' \in [Conns -> SUBSET Devices]
      BY <1>0, <1>1, <3>1
    <3> QED BY <3>3, <3>4 DEF Nets, Net
  <2>2. \A e \in Devices : ~Has(queue'[c][e], "Yes") /\ ~Has(queue'[c][e], "Closed")
    <3>1. \A q \in {<<>>, <<"Established">>, <<"Established", "PairRequest">>} :
            ~Has(q, "Yes") /\ ~Has(q, "Closed")
      BY DEF Has
    <3> QED BY <1>5, <3>1
  <2>3. ASSUME NEW b \in DOMAIN conn', NEW f \in Devices, IsEnd(b, f)',
               Has(queue'[b][f], "Yes")
        PROVE  Peer(b, f)' \in agreed'[b]
    <3>1. b # c
      BY <2>2, <2>3
    <3>2. b \in DOMAIN conn /\ b \in Conns /\ conn'[b] = conn[b]
      BY <1>0, <1>3, <1>4, <3>1
    <3>3. IsEnd(b, f) /\ Peer(b, f)' = Peer(b, f) /\ Has(queue[b][f], "Yes")
      BY <1>5, <2>3, <3>1, <3>2 DEF IsEnd, Peer
    <3>4. Peer(b, f) \in agreed[b]
      BY <3>2, <3>3 DEF PairInv, NetOK, Net
    <3> QED BY <1>5, <3>1, <3>2, <3>3, <3>4
  <2>4. ASSUME NEW b \in Conns, NEW f \in serving'[b]
        PROVE  ~Has(queue'[b][f], "Closed")
    <3>1. CASE b = c
      BY <1>0, <1>5, <2>2, <3>1
    <3>2. CASE b # c
      BY <1>5, <3>2 DEF PairInv, NetOK, Net
    <3> QED BY <3>1, <3>2
  <2>5. Net'.queue = queue' /\ Net'.serving = serving'
    BY DEF Net
  <2> QED BY <2>1, <2>3, <2>4, <2>5 DEF NetOK
<1>9. HoldInv'
  <2>1. ASSUME NEW e \in Devices, NEW q \in Devices
        PROVE  PairingOK(e, q, pairing[e][q])'
    <3>1. PairingOK(e, q, pairing[e][q])
      BY DEF PairInv, HoldInv
    <3>2. CASE pairing[e][q] # NoPairing
      <4>1. PICK b \in DOMAIN conn : b = pairing[e][q].conn
        BY <3>1, <3>2 DEF PairingOK, IsEnd
      <4>2. b # c /\ b \in Conns /\ conn'[b] = conn[b] /\ b \in DOMAIN conn'
        BY <1>0, <1>3, <1>4
      <4> QED BY <1>1, <1>5, <3>1, <3>2, <4>1, <4>2 DEF PairingOK, IsEnd, Peer
    <3>3. CASE pairing[e][q] = NoPairing
      BY <1>1, <3>3 DEF PairingOK
    <3> QED BY <3>2, <3>3
  <2>2. \A e \in Devices : \A b \in unpaired'[e] : b \in DOMAIN conn' /\ conn'[b].to = e
    BY <1>1, <1>3, <1>4 DEF PairInv, HoldInv
  <2> QED BY <2>1, <2>2 DEF HoldInv
<1>10. NoOrphans'
  <2> SUFFICES ASSUME NEW b \in DOMAIN conn', NEW f \in serving'[b]
               PROVE  Next1(b, f, "Established")' \/ Held(b, f)'
    BY DEF NoOrphans, Next1, Held, Peer
  <2>1. CASE b = c
    BY <1>5, <2>1 DEF Next1
  <2>2. CASE b \in DOMAIN conn
    <3>1. b \in Conns /\ b # c /\ conn'[b] = conn[b]
      BY <1>0, <1>3, <1>4, <2>2
    <3>2. f \in serving[b] /\ queue'[b] = queue[b]
      BY <1>5, <3>1
    <3>3. Next1(b, f, "Established") \/ Held(b, f)
      BY <2>2, <3>2 DEF PairInv, NoOrphans, Next1, Held
    <3>4. Held(b, f)' = Held(b, f) /\ Next1(b, f, "Established")' = Next1(b, f, "Established")
      BY <1>1, <3>1, <3>2 DEF Held, Peer, Next1
    <3> QED BY <1>1, <3>3, <3>4
  <2> QED BY <1>4, <2>1, <2>2
<1>11. CodesInv'
  BY <1>1, CodesKept
<1> QED BY <1>6, <1>7, <1>8, <1>9, <1>10, <1>11 DEF PairInv

\* What an end sees of its queue when the network fails was queued for it.
LEMMA RemainsHas ==
  ASSUME NEW q \in Seq(Events), NEW r \in Remains(q)
  PROVE  /\ r \in Seq(Events)
         /\ Has(r, "Yes") => Has(q, "Yes")
<1>1. CASE r = <<>>
  <2>1. Len(r) = 0 /\ r \in Seq(Events)
    BY <1>1, EmptySeq
  <2> QED BY <2>1 DEF Has
<1>2. ASSUME NEW k \in 0 .. Len(q), r = SubSeq(q, 1, k) \o <<"Closed">>
      PROVE  r \in Seq(Events) /\ (Has(r, "Yes") => Has(q, "Yes"))
  <2>0. Len(q) \in Nat /\ \A i \in 1 .. Len(q) : q[i] \in Events
    BY LenProperties, ElementOfSeq
  <2>1. PICK t : t = SubSeq(q, 1, k)
    OBVIOUS
  <2>2. /\ t \in Seq(Events) /\ Len(t) = k
        /\ \A i \in 1 .. k : t[i] = q[i]
    BY <2>0, <2>1, SubSeqProperties
  <2>3. <<"Closed">> \in Seq(Events) /\ Len(<<"Closed">>) = 1
        /\ <<"Closed">>[1] = "Closed"
    BY DEF Events
  <2>4. /\ r \in Seq(Events) /\ Len(r) = k + 1
        /\ \A i \in 1 .. k + 1 :
             r[i] = IF i <= k THEN t[i] ELSE <<"Closed">>[i - k]
    BY <1>2, <2>1, <2>2, <2>3, ConcatProperties
  <2>5. ASSUME NEW i \in 1 .. k + 1, r[i] = "Yes"
        PROVE  Has(q, "Yes")
    <3>1. CASE i <= k
      <4>1. i \in 1 .. k /\ i \in 1 .. Len(q)
        BY <2>0, <3>1
      <4> QED BY <2>2, <2>4, <2>5, <3>1, <4>1 DEF Has
    <3>2. CASE ~(i <= k)
      <4>1. i - k = 1
        BY <3>2
      <4> QED BY <2>3, <2>4, <2>5, <3>2, <4>1
    <3> QED BY <3>1, <3>2
  <2> QED BY <2>4, <2>5 DEF Has
<1>3. Len(q) \in Nat
  BY LenProperties
<1> QED BY <1>1, <1>2, <1>3 DEF Remains, Begun

\* The network loses a connection: its ends hear of that, if of anything.
LEMMA LossStep ==
  ASSUME PairInv, NEW c \in DOMAIN conn, ConnectionLost(c)
  PROVE  PairInv'
<1>0. /\ DOMAIN conn \subseteq Conns /\ c \in Conns
      /\ conn[c].from \in Devices /\ conn[c].to \in Devices
      /\ conn[c].from # conn[c].to
      /\ queue \in [Conns -> [Devices -> Seq(Events)]]
      /\ serving \in [Conns -> SUBSET Devices]
  BY ConnsAre DEF PairInv, Dialed, NetOK, Nets, Net, ConnsInv
<1>00. PICK d \in Devices, p \in Devices :
         d = conn[c].from /\ p = conn[c].to /\ d # p
  BY <1>0
<1>1. /\ faults' = faults + 1 /\ serving' = [serving EXCEPT ![c] = {}]
      /\ disturbed' = TRUE
      /\ UNCHANGED <<trusted, code, lapsed, owner, conn, unpaired, pairing,
                     session, agreed, accepted>>
  BY DEF ConnectionLost
<1>2. PICK q \in Remains(queue[c][d]), r \in Remains(queue[c][p]) :
        queue' = [queue EXCEPT ![c][d] = q, ![c][p] = r]
  BY <1>00 DEF ConnectionLost
<1>3. /\ q \in Seq(Events) /\ (Has(q, "Yes") => Has(queue[c][d], "Yes"))
      /\ r \in Seq(Events) /\ (Has(r, "Yes") => Has(queue[c][p], "Yes"))
  BY <1>0, RemainsHas
<1>4. /\ queue' \in [Conns -> [Devices -> Seq(Events)]]
      /\ \A b \in Conns : \A f \in Devices :
           \/ queue'[b][f] = queue[b][f]
           \/ b = c /\ f = d /\ queue'[b][f] = q
           \/ b = c /\ f = p /\ queue'[b][f] = r
  BY <1>0, <1>00, <1>2, <1>3
<1>5. TabsOK' /\ ConnsInv'
  BY <1>1 DEF PairInv, TabsOK, ConnsInv
<1>6. NetOK(Net, agreed)'
  <2>1. Net' \in Nets /\ Net'.queue = queue' /\ Net'.serving = serving'
    BY <1>0, <1>1, <1>4 DEF Net, Nets
  <2>2. \A b \in Conns : \A f \in Devices :
          Has(queue'[b][f], "Yes") => Has(queue[b][f], "Yes")
    BY <1>3, <1>4
  <2>3. ASSUME NEW b \in DOMAIN conn', NEW f \in Devices, IsEnd(b, f)',
               Has(queue'[b][f], "Yes")
        PROVE  Peer(b, f)' \in agreed'[b]
    <3>1. b \in DOMAIN conn /\ b \in Conns /\ IsEnd(b, f) /\ Has(queue[b][f], "Yes")
      BY <1>0, <1>1, <2>2, <2>3 DEF IsEnd
    <3>2. Peer(b, f) \in agreed[b]
      BY <3>1 DEF PairInv, NetOK, Net
    <3> QED BY <1>1, <3>2 DEF Peer
  <2>4. ASSUME NEW b \in Conns, NEW f \in serving'[b]
        PROVE  ~Has(queue'[b][f], "Closed")
    <3>1. b # c /\ f \in serving[b] /\ f \in Devices
      BY <1>0, <1>1
    <3>2. queue'[b][f] = queue[b][f]
      BY <1>4, <3>1, SMTT(60)
    <3> QED BY <3>1, <3>2 DEF PairInv, NetOK, Net
  <2> QED BY <2>1, <2>3, <2>4 DEF NetOK
<1>7. HoldInv' /\ CodesInv'
  BY <1>1, CodesKept DEF PairInv, HoldInv, PairingOK, IsEnd, Peer
<1>8. NoOrphans'
  <2> SUFFICES ASSUME NEW b \in DOMAIN conn, NEW f \in serving'[b]
               PROVE  Next1(b, f, "Established")' \/ Held(b, f)'
    BY <1>1 DEF NoOrphans, Next1, Held, Peer
  <2>1. b # c /\ f \in serving[b] /\ f \in Devices
    BY <1>0, <1>1
  <2>2. queue'[b][f] = queue[b][f]
    BY <1>0, <1>4, <2>1
  <2>3. Next1(b, f, "Established") \/ Held(b, f)
    BY <2>1 DEF PairInv, NoOrphans, Next1, Held
  <2> QED BY <1>1, <2>2, <2>3 DEF Next1, Held, Peer
<1> QED BY <1>5, <1>6, <1>7, <1>8 DEF PairInv

\* Whoever is still served and had a connection, or takes it up, has it.
Holds(m, c, d) ==
  \A b \in DOMAIN conn : \A f \in Devices : f \in m.serving[b] =>
    /\ Held(b, f) => Held(b, f)'
    /\ b = c /\ f = d /\ Next1(b, f, "Established") =>
         Held(b, f)'

\* The parts of a step that handles an event of c for d, or none (NoConn).
LEMMA WorkStep ==
  ASSUME PairInv, conn' = conn, NEW c, NEW d, NEW n, NEW m,
         Began(n, c, d), Later(n, m), NetIs(m), NetOK(m, agreed'),
         TabsOK', ConnsInv', CodesInv', HoldInv', faults' >= faults, Holds(m, c, d)
  PROVE  PairInv'
<1>1. /\ NetOK(Net, agreed)'
      /\ \A b \in Conns : \A f \in serving'[b] :
           /\ f \in serving[b] /\ f \in Devices
           /\ (b # c \/ f # d) /\ Next1(b, f, "Established") =>
                Next1(b, f, "Established")'
  BY NetStep
<1>2. serving' = m.serving
  BY DEF NetIs
<1>3. DOMAIN conn \subseteq Conns
  BY ConnsAre DEF PairInv
<1>4. NoOrphans'
  <2> SUFFICES ASSUME NEW b \in DOMAIN conn, NEW f \in serving'[b], b \in Conns
               PROVE  Next1(b, f, "Established")' \/ Held(b, f)'
    BY <1>3 DEF NoOrphans, Next1, Held, Peer
  <2>1. f \in serving[b] /\ f \in Devices /\ f \in m.serving[b]
    BY <1>1, <1>2
  <2>2. Next1(b, f, "Established") \/ Held(b, f)
    BY <2>1 DEF PairInv, NoOrphans, Next1, Held
  <2> QED BY <1>1, <2>1, <2>2 DEF Holds
<1> QED BY <1>1, <1>4 DEF PairInv

\* The peers of the connections there are.
LEMMA PeerIs ==
  ASSUME PairInv, NEW c \in DOMAIN conn, NEW d \in Devices
  PROVE  /\ Peer(c, d) \in Devices /\ c \in Conns /\ c # NoConn
         /\ IsEnd(c, d) => Peer(c, d) # d
<1>1. c \in Conns /\ conn[c] \in Dialed /\ conn[c].from # conn[c].to
  BY ConnsAre DEF PairInv, ConnsInv
<1> QED BY <1>1, NoConnAssumption DEF Peer, IsEnd, Dialed

\* A session that is served stays where it is.
LEMMA SwitchHeld ==
  ASSUME PairInv, NEW m, NEW d, NEW p, NEW n, NEW ag, Switched(m, d, p, n, ag),
         NEW b \in DOMAIN conn, NEW f \in Devices, f \in m.serving[b],
         session[f][Peer(b, f)] = b
  PROVE  session'[f][Peer(b, f)] = b
<1>1. Peer(b, f) \in Devices /\ b \in Conns
  BY PeerIs
<1> QED BY <1>1 DEF Switched

\* pairings.remove takes the pairing with that peer away and no other.
LEMMA DropPairingIs ==
  ASSUME TabsOK, NEW d \in Devices, NEW p \in Devices, pairing' = DropPairing(d, p)
  PROVE  /\ pairing' \in [Devices -> [Devices -> Pending \cup {NoPairing}]]
         /\ \A f, q \in Devices :
              pairing'[f][q] = IF f = d /\ q = p THEN NoPairing ELSE pairing[f][q]
  BY DEF DropPairing, TabsOK

\* What is known of a pairing.
LEMMA PairingIs ==
  ASSUME PairInv, NEW d \in Devices, NEW p \in Devices
  PROVE  LET x == pairing[d][p] IN
         /\ x \in Pending \cup {NoPairing} /\ x.conn \in Conns \cup {NoConn}
         /\ x # NoPairing \/ x.conn # NoConn =>
              /\ x \in Pending /\ x.conn \in DOMAIN conn /\ x.conn \in Conns
              /\ IsEnd(x.conn, d) /\ Peer(x.conn, d) = p
              /\ x.local \/ x.scanner => d \in agreed[x.conn]
              /\ x.peer => p \in agreed[x.conn]
<1> DEFINE x == pairing[d][p]
<1>1. x \in Pending \cup {NoPairing} /\ PairingOK(d, p, x)
  BY DEF PairInv, TabsOK, HoldInv
<1> HIDE DEF x
<1>2. CASE x = NoPairing
  <2>1. x.conn = NoConn
    BY <1>2 DEF NoPairing
  <2> QED BY <1>1, <1>2, <2>1 DEF x
<1>3. CASE x # NoPairing
  <2>1. x \in Pending
    BY <1>1, <1>3
  <2>2. x.conn \in Conns
    BY <2>1 DEF Pending
  <2> QED BY <1>1, <1>3, <2>1, <2>2 DEF x, PairingOK, IsEnd
<1> QED BY <1>2, <1>3

\* The user of d agrees on c.
LEMMA AgreeOK ==
  ASSUME PairInv, NEW c \in Conns, NEW d \in Devices, IsEnd(c, d), conn' = conn,
         agreed' = [agreed EXCEPT ![c] = @ \cup {d}]
  PROVE  /\ agreed' \in [Conns -> SUBSET Devices] /\ ConnsInv'
         /\ \A b \in Conns : agreed[b] \subseteq agreed'[b]
         /\ agreed'[c] = agreed[c] \cup {d}
<1>1. agreed \in [Conns -> SUBSET Devices] /\ DOMAIN conn \subseteq Conns
  BY ConnsAre DEF PairInv, TabsOK
<1>2. \A b \in Conns : agreed'[b] = IF b = c THEN agreed[c] \cup {d} ELSE agreed[b]
  BY <1>1
<1>3. agreed' \in [Conns -> SUBSET Devices]
  BY <1>1
<1>4. ASSUME NEW b \in DOMAIN conn
      PROVE  /\ conn[b].from # conn[b].to
             /\ agreed'[b] \subseteq {conn[b].from, conn[b].to}
             /\ conn[b].how = "qr" \/ conn[b].proof # 0 => conn[b].from \in agreed'[b]
  <2>1. b \in Conns
    BY <1>1
  <2> QED BY <1>2, <2>1 DEF PairInv, ConnsInv, IsEnd
<1>5. ConnsInv'
  BY <1>4 DEF PairInv, ConnsInv
<1> QED BY <1>2, <1>3, <1>5

\* The user of d accepts.
LEMMA ConfirmStep ==
  ASSUME PairInv, NEW d \in Devices, NEW p \in Others(d), ConfirmPairing(d, p)
  PROVE  PairInv'
<1> DEFINE x == pairing[d][p]
<1>0. p \in Devices /\ TabsOK /\ ConnsInv
  BY DEF Others, PairInv
<1>1. PICK c \in Conns : c = x.conn
  BY <1>0, PairingIs DEF ConfirmPairing
<1>2. /\ x \in Pending /\ IsEnd(c, d) /\ Peer(c, d) = p
      /\ c \in DOMAIN conn /\ (x.peer => p \in agreed[c]) /\ ~x.scanner
  BY <1>0, <1>1, PairingIs DEF ConfirmPairing
<1>3. PICK n : n = Send(Net, c, d, "Yes")
  OBVIOUS
<1>4. /\ agreed' = [agreed EXCEPT ![c] = @ \cup {d}]
      /\ UNCHANGED <<code, lapsed, owner, conn, unpaired, accepted>>
      /\ \/ pairing' = DropPairing(d, p) /\ CompletePairing(d, p, c, n)
         \/ /\ pairing' = [pairing EXCEPT ![d][p].local = TRUE]
            /\ NetIs(n)
            /\ UNCHANGED <<trusted, session, disturbed, faults>>
  BY <1>1, <1>3 DEF ConfirmPairing
<1>5. /\ agreed' \in [Conns -> SUBSET Devices] /\ ConnsInv'
      /\ \A b \in Conns : agreed[b] \subseteq agreed'[b]
      /\ agreed'[c] = agreed[c] \cup {d}
  BY <1>2, <1>4, AgreeOK
<1>6. NetOK(n, agreed') /\ Later(Net, n)
  <2>1. NetOK(Net, agreed')
    BY <1>5, NetGrows DEF PairInv
  <2> QED BY <1>0, <1>2, <1>3, <1>5, <2>1, SendOK DEF Events
<1>7. Began(Net, NoConn, d)
  BY DEF Net, Began
<1>8. CodesInv'
  BY <1>4, CodesKept
<1>9. CASE pairing' = DropPairing(d, p) /\ CompletePairing(d, p, c, n)
  <2>1. PICK m : /\ Switched(m, d, p, n, agreed')
                 /\ session'[d][p] = c \/ m.serving[c] = {}
                 /\ trusted' \in [Devices -> SUBSET Devices] /\ disturbed' \in BOOLEAN
                 /\ faults' \in Nat /\ faults' >= faults
    BY <1>0, <1>2, <1>6, <1>9, CompleteOK
  <2>2. /\ NetIs(m) /\ NetOK(m, agreed') /\ Later(Net, m)
        /\ session' \in [Devices -> [Devices -> Conns \cup {NoConn}]]
    BY <1>6, <2>1, LaterTrans DEF Switched
  <2>3. /\ pairing' \in [Devices -> [Devices -> Pending \cup {NoPairing}]]
        /\ \A f, q \in Devices :
             pairing'[f][q] = IF f = d /\ q = p THEN NoPairing ELSE pairing[f][q]
    BY <1>0, <1>9, DropPairingIs
  <2>4. TabsOK'
    BY <1>0, <1>4, <1>5, <2>1, <2>2, <2>3 DEF TabsOK
  <2>5. HoldInv'
    BY <1>4, <1>5, <2>3, HoldKept DEF PairingOK
  <2>6. ASSUME NEW b \in DOMAIN conn, NEW f \in Devices, f \in m.serving[b], Held(b, f)
        PROVE  Held(b, f)'
    <3>1. Peer(b, f) \in Devices /\ Peer(b, f)' = Peer(b, f)
      BY <1>4, PeerIs DEF Peer
    <3>2. CASE b \in unpaired[f]
      BY <1>4, <3>2 DEF Held
    <3>3. CASE session[f][Peer(b, f)] = b
      BY <2>1, <2>6, <3>1, <3>3, SwitchHeld DEF Held
    <3>4. CASE pairing[f][Peer(b, f)].conn = b
      <4>1. CASE f = d /\ Peer(b, f) = p
        BY <1>1, <2>1, <2>6, <3>1, <3>4, <4>1 DEF Held
      <4>2. CASE ~(f = d /\ Peer(b, f) = p)
        BY <2>3, <3>1, <3>4, <4>2 DEF Held
      <4> QED BY <4>1, <4>2
    <3> QED BY <2>6, <3>2, <3>3, <3>4 DEF Held
  <2>7. Holds(m, NoConn, d)
    BY <1>0, <2>6, PeerIs DEF Holds
  <2> QED BY <1>4, <1>5, <1>7, <1>8, <2>1, <2>2, <2>4, <2>5, <2>7, WorkStep
<1>10. CASE /\ pairing' = [pairing EXCEPT ![d][p].local = TRUE]
            /\ NetIs(n)
            /\ UNCHANGED <<trusted, session, disturbed, faults>>
  <2>1. PICK y : y = [x EXCEPT !.local = TRUE]
    OBVIOUS
  <2>2. y \in Pending /\ y.conn = x.conn /\ y.peer = x.peer
    BY <1>2, <2>1 DEF Pending
  <2>3. /\ pairing' \in [Devices -> [Devices -> Pending \cup {NoPairing}]]
        /\ \A f, q \in Devices :
             pairing'[f][q] = IF f = d /\ q = p THEN y ELSE pairing[f][q]
    <3>1. pairing' = [pairing EXCEPT ![d][p] = y]
      BY <1>10, <2>1
    <3> QED BY <1>0, <2>2, <3>1 DEF TabsOK
  <2>4. TabsOK' /\ faults' >= faults
    BY <1>0, <1>4, <1>5, <1>10, <2>3 DEF TabsOK
  <2>5. PairingOK(d, p, y)'
    BY <1>1, <1>2, <1>4, <1>5, <2>2 DEF PairingOK, IsEnd, Peer
  <2>6. \A f, q \in Devices :
          pairing'[f][q] = pairing[f][q] \/ PairingOK(f, q, pairing[f][q])'
    BY <2>3, <2>5 DEF PairingOK
  <2>7. HoldInv'
    BY <1>4, <1>5, <2>6, HoldKept
  <2>8. ASSUME NEW b \in DOMAIN conn, NEW f \in Devices, Held(b, f)
        PROVE  Held(b, f)'
    <3>1. Peer(b, f) \in Devices /\ Peer(b, f)' = Peer(b, f)
      BY <1>4, PeerIs DEF Peer
    <3>2. pairing'[f][Peer(b, f)].conn = pairing[f][Peer(b, f)].conn
      BY <2>2, <2>3, <3>1
    <3> QED BY <1>4, <1>10, <2>8, <3>1, <3>2 DEF Held
  <2>9. Holds(n, NoConn, d)
    BY <1>0, <2>8, PeerIs DEF Holds
  <2> QED BY <1>4, <1>5, <1>6, <1>7, <1>8, <1>10, <2>4, <2>7, <2>9, WorkStep
<1> QED BY <1>4, <1>9, <1>10

\* Nobody agrees to anything.
LEMMA SameAgreed ==
  ASSUME PairInv, conn' = conn, agreed' = agreed
  PROVE  /\ ConnsInv' /\ agreed' \in [Conns -> SUBSET Devices]
         /\ \A b \in Conns : agreed[b] \subseteq agreed'[b]
  BY DEF PairInv, ConnsInv, TabsOK

\* The user of d rejects, or nobody answered for two minutes.
LEMMA DropStep ==
  ASSUME PairInv, NEW d \in Devices, NEW p \in Others(d),
         RejectPairing(d, p) \/ PairingExpires(d, p)
  PROVE  PairInv'
<1> DEFINE x == pairing[d][p]
<1>0. p \in Devices /\ TabsOK /\ ConnsInv /\ NetOK(Net, agreed)
  BY DEF Others, PairInv
<1>1. PICK c \in Conns : c = x.conn
  BY <1>0, PairingIs DEF RejectPairing, PairingExpires
<1>2. IsEnd(c, d) /\ c \in DOMAIN conn
  BY <1>0, <1>1, PairingIs DEF RejectPairing, PairingExpires
<1>3. /\ pairing' = DropPairing(d, p)
      /\ UNCHANGED <<trusted, code, lapsed, owner, conn, unpaired, session,
                     agreed, accepted, faults>>
      /\ NetIs(Close(Send(Net, c, d, "No"), c)) \/ NetIs(Close(Net, c))
  BY <1>1 DEF RejectPairing, PairingExpires
<1>4. disturbed' \in BOOLEAN
  BY <1>0 DEF RejectPairing, PairingExpires, TabsOK
<1>5. PICK m : /\ NetIs(m) /\ NetOK(m, agreed) /\ Later(Net, m)
               /\ m.serving[c] = {}
  <2>1. CASE NetIs(Close(Net, c))
    <3>1. PICK m : m = Close(Net, c)
      OBVIOUS
    <3>2. NetOK(m, agreed) /\ Later(Net, m) /\ m.serving[c] = {}
      BY <1>0, <3>1, CloseOK
    <3> QED BY <2>1, <3>1, <3>2
  <2>2. CASE NetIs(Close(Send(Net, c, d, "No"), c))
    <3>1. PICK k : k = Send(Net, c, d, "No")
      OBVIOUS
    <3>2. NetOK(k, agreed) /\ Later(Net, k)
      BY <1>0, <1>2, <3>1, SendOK DEF Events
    <3>3. PICK m : m = Close(k, c)
      OBVIOUS
    <3>4. NetOK(m, agreed) /\ Later(k, m) /\ m.serving[c] = {}
      BY <1>0, <3>2, <3>3, CloseOK
    <3> QED BY <2>2, <3>1, <3>2, <3>3, <3>4, LaterTrans
  <2> QED BY <1>3, <2>1, <2>2
<1>6. /\ pairing' \in [Devices -> [Devices -> Pending \cup {NoPairing}]]
      /\ \A f, q \in Devices :
           pairing'[f][q] = IF f = d /\ q = p THEN NoPairing ELSE pairing[f][q]
  BY <1>0, <1>3, DropPairingIs
<1>7. TabsOK' /\ CodesInv' /\ ConnsInv' /\ faults' >= faults
  BY <1>0, <1>3, <1>4, <1>6, CodesKept, SameAgreed DEF TabsOK
<1>8. HoldInv'
  BY <1>3, <1>6, SameAgreed, HoldKept DEF PairingOK
<1>9. Holds(m, NoConn, d)
  <2>1. ASSUME NEW b \in DOMAIN conn, NEW f \in Devices, f \in m.serving[b], Held(b, f)
        PROVE  Held(b, f)'
    <3>1. Peer(b, f) \in Devices /\ Peer(b, f)' = Peer(b, f)
      BY <1>3, PeerIs DEF Peer
    <3>2. CASE b \in unpaired[f] \/ session[f][Peer(b, f)] = b
      BY <1>3, <3>1, <3>2 DEF Held
    <3>3. CASE pairing[f][Peer(b, f)].conn = b
      <4>1. ~(f = d /\ Peer(b, f) = p)
        BY <1>1, <1>5, <2>1, <3>3
      <4>2. pairing'[f][Peer(b, f)].conn = b
        BY <1>6, <3>1, <3>3, <4>1
      <4> QED BY <3>1, <4>2 DEF Held
    <3> QED BY <2>1, <3>2, <3>3 DEF Held
  <2> QED BY <2>1, PeerIs, <1>0 DEF Holds
<1>10. Began(Net, NoConn, d)
  BY DEF Net, Began
<1> QED BY <1>3, <1>5, <1>7, <1>8, <1>9, <1>10, WorkStep

\* The user of d forgets p.
LEMMA ForgetStep ==
  ASSUME PairInv, NEW d \in Devices, NEW p \in Others(d), ForgetDevice(d, p)
  PROVE  PairInv'
<1>0. p \in Devices /\ TabsOK /\ ConnsInv /\ NetOK(Net, agreed)
  BY DEF Others, PairInv
<1>1. PICK old \in Conns \cup {NoConn} : old = session[d][p]
  BY <1>0 DEF TabsOK
<1>2. PICK m : m = Close(Net, old)
  OBVIOUS
<1>3. /\ trusted' = [trusted EXCEPT ![d] = @ \ {p}]
      /\ session' = [session EXCEPT ![d][p] = NoConn]
      /\ NetIs(m) /\ disturbed' = TRUE
      /\ UNCHANGED <<code, lapsed, owner, conn, unpaired, pairing, agreed,
                     accepted, faults>>
  BY <1>1, <1>2 DEF ForgetDevice
<1>4. /\ NetOK(m, agreed) /\ Later(Net, m)
      /\ old \in Conns => m.serving[old] = {}
  BY <1>0, <1>2, CloseOK
<1>5. session' \in [Devices -> [Devices -> Conns \cup {NoConn}]]
      /\ \A f, q \in Devices :
           session'[f][q] = IF f = d /\ q = p THEN NoConn ELSE session[f][q]
  BY <1>0, <1>3 DEF TabsOK
<1>6. TabsOK' /\ CodesInv' /\ ConnsInv' /\ faults' >= faults
  BY <1>0, <1>3, <1>5, CodesKept, SameAgreed DEF TabsOK
<1>7. HoldInv'
  BY <1>3, SameAgreed, HoldKept
<1>8. Holds(m, NoConn, d)
  <2>1. ASSUME NEW b \in DOMAIN conn, NEW f \in Devices, f \in m.serving[b], Held(b, f)
        PROVE  Held(b, f)'
    <3>1. /\ Peer(b, f) \in Devices /\ Peer(b, f)' = Peer(b, f)
          /\ b \in Conns
      BY <1>3, PeerIs DEF Peer
    <3>2. CASE b \in unpaired[f] \/ pairing[f][Peer(b, f)].conn = b
      BY <1>3, <3>1, <3>2 DEF Held
    <3>3. CASE session[f][Peer(b, f)] = b
      <4>1. ~(f = d /\ Peer(b, f) = p)
        BY <1>1, <1>4, <2>1, <3>1, <3>3
      <4>2. session'[f][Peer(b, f)] = b
        BY <1>5, <3>1, <3>3, <4>1
      <4> QED BY <3>1, <4>2 DEF Held
    <3> QED BY <2>1, <3>2, <3>3 DEF Held
  <2> QED BY <2>1, PeerIs, <1>0 DEF Holds
<1>9. Began(Net, NoConn, d)
  BY DEF Net, Began
<1> QED BY <1>3, <1>4, <1>6, <1>7, <1>8, <1>9, WorkStep

\* d sends a connection away that did not ask to pair.
LEMMA ExpireStep ==
  ASSUME PairInv, NEW d \in Devices, NEW c \in unpaired[d], UnpairedExpires(c, d)
  PROVE  PairInv'
<1>0. TabsOK /\ ConnsInv /\ NetOK(Net, agreed) /\ c \in Conns
  BY DEF PairInv, TabsOK
<1>1. PICK m : m = Close(Net, c)
  OBVIOUS
<1>2. /\ unpaired' = [unpaired EXCEPT ![d] = @ \ {c}]
      /\ NetIs(m) /\ disturbed' = TRUE
      /\ UNCHANGED <<trusted, code, lapsed, owner, conn, pairing, session,
                     agreed, accepted, faults>>
  BY <1>1 DEF UnpairedExpires
<1>3. NetOK(m, agreed) /\ Later(Net, m) /\ m.serving[c] = {}
  BY <1>0, <1>1, CloseOK
<1>4. unpaired' \in [Devices -> SUBSET Conns]
      /\ \A f \in Devices : unpaired'[f] = IF f = d THEN unpaired[f] \ {c} ELSE unpaired[f]
  BY <1>0, <1>2 DEF TabsOK
<1>5. TabsOK' /\ CodesInv' /\ ConnsInv' /\ faults' >= faults
  BY <1>0, <1>2, <1>4, CodesKept, SameAgreed DEF TabsOK
<1>6. HoldInv'
  BY <1>2, <1>4, SameAgreed, HoldKept
<1>7. Holds(m, NoConn, d)
  <2>1. ASSUME NEW b \in DOMAIN conn, NEW f \in Devices, f \in m.serving[b], Held(b, f)
        PROVE  Held(b, f)'
    <3>1. Peer(b, f)' = Peer(b, f) /\ b # c
      BY <1>2, <1>3, <2>1 DEF Peer
    <3> QED BY <1>2, <1>4, <2>1, <3>1 DEF Held
  <2> QED BY <2>1, PeerIs, <1>0 DEF Holds
<1>8. Began(Net, NoConn, d)
  BY DEF Net, Began
<1> QED BY <1>2, <1>3, <1>5, <1>6, <1>7, <1>8, WorkStep

----------------------------------------------------------------------------
(* Events of connections.                                                  *)

\* What every handler begins with.
LEMMA TakenIs ==
  ASSUME PairInv, NEW c \in DOMAIN conn, NEW d \in Devices, NEW e, Next1(c, d, e),
         NEW n, n = Taken(c, d)
  PROVE  /\ NetOK(n, agreed) /\ Began(n, c, d) /\ Has(queue[c][d], e)
         /\ c \in Conns /\ n.serving = serving
         /\ e # "Established" => ~Next1(c, d, "Established")
<1>1. c \in Conns
  BY PeerIs
<1>2. ConnsInv /\ NetOK(Net, agreed)
  BY DEF PairInv
<1>3. /\ NetOK(n, agreed) /\ n.serving = serving
      /\ \A b \in Conns : \A f \in Devices :
           b # c \/ f # d => n.queue[b][f] = queue[b][f]
      /\ Has(queue[c][d], e)
  BY <1>1, <1>2, TakenOK
<1> QED BY <1>1, <1>3 DEF Began, Next1

\* A message that is of no use.
LEMMA OtherStep ==
  ASSUME PairInv, NEW c \in DOMAIN conn, NEW d \in Devices, OnOther(c, d)
  PROVE  PairInv'
<1>0. TabsOK /\ ConnsInv
  BY DEF PairInv
<1>1. PICK e \in {"PairRequest", "Yes", "No", "Ticket"} : Next1(c, d, e)
  BY DEF OnOther
<1>2. PICK n : n = Taken(c, d)
  OBVIOUS
<1>3. /\ NetOK(n, agreed) /\ Began(n, c, d) /\ c \in Conns
      /\ ~Next1(c, d, "Established")
  BY <1>1, <1>2, TakenIs
<1>4. /\ unpaired' = [unpaired EXCEPT ![d] = @ \ {c}]
      /\ UNCHANGED <<trusted, code, lapsed, owner, conn, pairing, session,
                     agreed, accepted, disturbed, faults>>
  BY DEF OnOther
<1>5. PICK m : m = IF c \in unpaired[d] THEN Close(n, c) ELSE n
  OBVIOUS
<1>6. NetIs(m)
  BY <1>2, <1>5 DEF OnOther
<1>7. /\ NetOK(m, agreed) /\ Later(n, m)
      /\ c \in unpaired[d] => m.serving[c] = {}
  <2>1. CASE c \in unpaired[d]
    BY <1>0, <1>3, <1>5, <2>1, CloseOK
  <2>2. CASE c \notin unpaired[d]
    BY <1>3, <1>5, <2>2 DEF Later
  <2> QED BY <2>1, <2>2
<1>8. unpaired' \in [Devices -> SUBSET Conns]
      /\ \A f \in Devices : unpaired'[f] = IF f = d THEN unpaired[f] \ {c} ELSE unpaired[f]
  BY <1>0, <1>4 DEF TabsOK
<1>9. TabsOK' /\ CodesInv' /\ ConnsInv' /\ faults' >= faults
  BY <1>0, <1>4, <1>8, CodesKept, SameAgreed DEF TabsOK
<1>10. HoldInv'
  BY <1>4, <1>8, SameAgreed, HoldKept
<1>11. Holds(m, c, d)
  <2>1. ASSUME NEW b \in DOMAIN conn, NEW f \in Devices, f \in m.serving[b], Held(b, f)
        PROVE  Held(b, f)'
    <3>1. Peer(b, f)' = Peer(b, f)
      BY <1>4 DEF Peer
    <3>2. b \in unpaired[f] => b \in unpaired'[f]
      BY <1>7, <1>8, <2>1
    <3> QED BY <1>4, <2>1, <3>1, <3>2 DEF Held
  <2> QED BY <1>3, <2>1 DEF Holds
<1> QED BY <1>3, <1>4, <1>6, <1>7, <1>9, <1>10, <1>11, WorkStep

\* The end of a connection: what is of it goes.
LEMMA ClosedStep ==
  ASSUME PairInv, NEW c \in DOMAIN conn, NEW d \in Devices, OnClosed(c, d)
  PROVE  PairInv'
<1>0. TabsOK /\ ConnsInv /\ Peer(c, d) \in Devices
  BY PeerIs DEF PairInv
<1>00. PICK p \in Devices : p = Peer(c, d)
  BY <1>0
<1>1. PICK n : n = Taken(c, d)
  OBVIOUS
<1>2. /\ NetOK(n, agreed) /\ Began(n, c, d) /\ c \in Conns
      /\ ~Next1(c, d, "Established") /\ Has(queue[c][d], "Closed")
      /\ n.serving = serving
  BY <1>1, TakenIs DEF OnClosed
<1>3. /\ unpaired' = [unpaired EXCEPT ![d] = @ \ {c}] /\ NetIs(n)
      /\ pairing' = IF pairing[d][p].conn = c THEN DropPairing(d, p) ELSE pairing
      /\ session' = IF session[d][p] = c
                    THEN [session EXCEPT ![d][p] = NoConn] ELSE session
      /\ UNCHANGED <<trusted, code, lapsed, owner, conn, agreed, accepted,
                     disturbed, faults>>
  BY <1>00, <1>1 DEF OnClosed
<1>4. d \notin n.serving[c]
  BY <1>2 DEF PairInv, NetOK, Net
<1>5. unpaired' \in [Devices -> SUBSET Conns]
      /\ \A f \in Devices : unpaired'[f] = IF f = d THEN unpaired[f] \ {c} ELSE unpaired[f]
  BY <1>0, <1>3 DEF TabsOK
<1>6. /\ pairing' \in [Devices -> [Devices -> Pending \cup {NoPairing}]]
      /\ \A f, q \in Devices :
           \/ pairing'[f][q] = pairing[f][q]
           \/ f = d /\ pairing[f][q].conn = c /\ pairing'[f][q] = NoPairing
  <2>1. CASE pairing[d][p].conn = c
    BY <1>0, <1>3, <2>1, DropPairingIs
  <2>2. CASE pairing[d][p].conn # c
    BY <1>0, <1>3, <2>2 DEF TabsOK
  <2> QED BY <2>1, <2>2
<1>7. /\ session' \in [Devices -> [Devices -> Conns \cup {NoConn}]]
      /\ \A f, q \in Devices :
           \/ session'[f][q] = session[f][q]
           \/ f = d /\ session[f][q] = c
  <2>0. session \in [Devices -> [Devices -> Conns \cup {NoConn}]]
    BY <1>0 DEF TabsOK
  <2>1. CASE session[d][p] = c
    <3>1. session' = [session EXCEPT ![d][p] = NoConn]
      BY <1>3, <2>1
    <3>2. session' \in [Devices -> [Devices -> Conns \cup {NoConn}]]
      BY <2>0, <3>1
    <3>3. \A f, q \in Devices :
            session'[f][q] = IF f = d /\ q = p THEN NoConn ELSE session[f][q]
      BY <2>0, <3>1
    <3> QED BY <2>1, <3>2, <3>3
  <2>2. CASE session[d][p] # c
    <3>1. session' = session
      BY <1>3, <2>2
    <3> QED BY <2>0, <3>1
  <2> QED BY <2>1, <2>2
<1>8. TabsOK' /\ CodesInv' /\ ConnsInv' /\ faults' >= faults
  BY <1>0, <1>3, <1>5, <1>6, <1>7, CodesKept, SameAgreed DEF TabsOK
<1>9. HoldInv'
  BY <1>3, <1>5, <1>6, SameAgreed, HoldKept DEF PairingOK
<1>10. Holds(n, c, d)
  <2>1. ASSUME NEW b \in DOMAIN conn, NEW f \in Devices, f \in n.serving[b], Held(b, f)
        PROVE  Held(b, f)'
    <3>1. Peer(b, f)' = Peer(b, f) /\ Peer(b, f) \in Devices
      BY <1>3, PeerIs DEF Peer
    <3>2. b # c \/ f # d
      BY <1>4, <2>1
    <3>3. b \in unpaired[f] => b \in unpaired'[f]
      BY <1>5, <3>2
    <3>4. pairing[f][Peer(b, f)].conn = b => pairing'[f][Peer(b, f)].conn = b
      BY <1>6, <3>1, <3>2
    <3>5. session[f][Peer(b, f)] = b => session'[f][Peer(b, f)] = b
      BY <1>7, <3>1, <3>2
    <3> QED BY <2>1, <3>1, <3>3, <3>4, <3>5 DEF Held
  <2> QED BY <1>2, <2>1 DEF Holds
<1>11. Later(n, n)
  BY DEF Later
<1> QED BY <1>2, <1>3, <1>8, <1>9, <1>10, <1>11, WorkStep

\* The pairing of d with p begins on c and the connection of the one that was
\* there is closed.
PairingBegun(m, d, p, c, n) ==
  /\ NetIs(m) /\ NetOK(m, agreed) /\ Later(n, m)
  /\ pairing' \in [Devices -> [Devices -> Pending \cup {NoPairing}]]
  /\ \A f, q \in Devices :
       pairing'[f][q] = pairing[f][q] \/ PairingOK(f, q, pairing[f][q])'
  /\ \A b \in DOMAIN conn : \A f \in Devices :
       f \in m.serving[b] /\ pairing[f][Peer(b, f)].conn = b =>
         pairing'[f][Peer(b, f)].conn = b
  /\ pairing'[d][p].conn = c

\* begin_pairing.
LEMMA BeginOK ==
  ASSUME PairInv, UNCHANGED <<conn, agreed>>, NEW d \in Devices,
         NEW p \in Devices, NEW c \in Conns, IsEnd(c, d), Peer(c, d) = p,
         NEW s \in BOOLEAN, s => d \in agreed[c], NEW n, NetOK(n, agreed),
         BeginPairing(d, p, c, s, n)
  PROVE  \E m : PairingBegun(m, d, p, c, n)
<1>0. TabsOK /\ ConnsInv
  BY DEF PairInv
<1>1. PICK old \in Conns \cup {NoConn} : old = pairing[d][p].conn
  BY PairingIs
<1>2. PICK m : m = Close(n, old)
  OBVIOUS
<1>3. /\ NetOK(m, agreed) /\ Later(n, m)
      /\ old \in Conns => m.serving[old] = {}
  BY <1>0, <1>2, CloseOK
<1>4. PICK y : y = [conn |-> c, local |-> FALSE, peer |-> FALSE, scanner |-> s]
  OBVIOUS
<1>5. y \in Pending /\ y.conn = c /\ ~y.local /\ ~y.peer /\ y.scanner = s
  BY <1>4 DEF Pending
<1>6. NetIs(m) /\ pairing' = [pairing EXCEPT ![d][p] = y]
  BY <1>1, <1>2, <1>4 DEF BeginPairing
<1>7. /\ pairing' \in [Devices -> [Devices -> Pending \cup {NoPairing}]]
      /\ \A f, q \in Devices :
           pairing'[f][q] = IF f = d /\ q = p THEN y ELSE pairing[f][q]
  BY <1>0, <1>5, <1>6 DEF TabsOK
<1>8. PairingOK(d, p, y)'
  BY <1>5 DEF PairingOK, IsEnd, Peer
<1>9. \A f, q \in Devices :
        pairing'[f][q] = pairing[f][q] \/ PairingOK(f, q, pairing[f][q])'
  BY <1>7, <1>8 DEF PairingOK
<1>10. ASSUME NEW b \in DOMAIN conn, NEW f \in Devices, f \in m.serving[b],
              pairing[f][Peer(b, f)].conn = b
       PROVE  pairing'[f][Peer(b, f)].conn = b
  <2>1. Peer(b, f) \in Devices /\ b \in Conns
    BY PeerIs
  <2>2. ~(f = d /\ Peer(b, f) = p)
    BY <1>1, <1>3, <1>10, <2>1
  <2> QED BY <1>7, <1>10, <2>1, <2>2
<1> QED BY <1>3, <1>5, <1>6, <1>7, <1>9, <1>10 DEF PairingBegun

\* A connection is established: it becomes the session, is closed, is paired
\* on, or may ask to pair.
LEMMA EstablishedStep ==
  ASSUME PairInv, NEW c \in DOMAIN conn, NEW d \in Devices, IsEnd(c, d),
         OnEstablished(c, d)
  PROVE  PairInv'
<1>0. TabsOK /\ ConnsInv
  BY DEF PairInv
<1>1. PICK p \in Devices : p = Peer(c, d)
  BY PeerIs
<1>2. PICK n : n = Taken(c, d)
  OBVIOUS
<1>3. NetOK(n, agreed) /\ Began(n, c, d) /\ c \in Conns
  BY <1>2, TakenIs DEF OnEstablished
<1>4. UNCHANGED <<trusted, code, lapsed, owner, conn, agreed, accepted>>
  BY DEF OnEstablished
<1>5. CodesInv' /\ ConnsInv'
  BY <1>4, CodesKept, SameAgreed
<1>6. \A b, f : Peer(b, f)' = Peer(b, f)
  BY <1>4 DEF Peer
<1>7. CASE /\ PromoteSession(d, p, c, n)
           /\ UNCHANGED <<unpaired, pairing, disturbed, faults>>
  <2>1. PICK m : /\ Switched(m, d, p, n, agreed)
                 /\ session'[d][p] = c \/ m.serving[c] = {}
    BY <1>0, <1>3, <1>7, PromoteOK
  <2>2. /\ NetIs(m) /\ NetOK(m, agreed) /\ Later(n, m)
        /\ session' \in [Devices -> [Devices -> Conns \cup {NoConn}]]
    BY <2>1 DEF Switched
  <2>3. TabsOK' /\ faults' >= faults
    BY <1>0, <1>4, <1>7, <2>2 DEF TabsOK
  <2>4. HoldInv'
    BY <1>4, <1>7, SameAgreed, HoldKept
  <2>5. ASSUME NEW b \in DOMAIN conn, NEW f \in Devices, f \in m.serving[b]
        PROVE  /\ Held(b, f) => Held(b, f)'
               /\ b = c /\ f = d => Held(b, f)'
    <3>1. session[f][Peer(b, f)] = b => session'[f][Peer(b, f)] = b
      BY <2>1, <2>5, SwitchHeld
    <3>2. b = c /\ f = d => session'[f][Peer(b, f)] = b
      BY <1>1, <2>1, <2>5
    <3> QED BY <1>6, <1>7, <3>1, <3>2 DEF Held
  <2>6. Holds(m, c, d)
    BY <2>5 DEF Holds
  <2> QED BY <1>3, <1>4, <1>5, <2>2, <2>3, <2>4, <2>6, WorkStep
<1>8. CASE BeginPairing(d, p, c, conn[c].how = "qr", n) /\ conn[c].from = d
           /\ UNCHANGED <<unpaired, session, disturbed, faults>>
  <2>1. PICK s \in BOOLEAN : s = (conn[c].how = "qr")
    OBVIOUS
  <2>2. s => d \in agreed[c]
    BY <1>0, <1>8, <2>1 DEF ConnsInv
  <2>3. PICK m : PairingBegun(m, d, p, c, n)
    BY <1>1, <1>3, <1>4, <1>8, <2>1, <2>2, BeginOK
  <2>4. TabsOK' /\ faults' >= faults
    BY <1>0, <1>4, <1>8, <2>3 DEF TabsOK, PairingBegun
  <2>5. HoldInv'
    BY <1>4, <1>8, <2>3, SameAgreed, HoldKept DEF PairingBegun
  <2>6. ASSUME NEW b \in DOMAIN conn, NEW f \in Devices, f \in m.serving[b]
        PROVE  /\ Held(b, f) => Held(b, f)'
               /\ b = c /\ f = d => Held(b, f)'
    <3>1. pairing[f][Peer(b, f)].conn = b => pairing'[f][Peer(b, f)].conn = b
      BY <2>3, <2>6 DEF PairingBegun
    <3>2. b = c /\ f = d => pairing'[f][Peer(b, f)].conn = b
      BY <1>1, <2>3 DEF PairingBegun
    <3> QED BY <1>6, <1>8, <3>1, <3>2 DEF Held
  <2>7. Holds(m, c, d)
    BY <2>6 DEF Holds
  <2>8. NetIs(m) /\ NetOK(m, agreed) /\ Later(n, m)
    BY <2>3 DEF PairingBegun
  <2> QED BY <1>3, <1>4, <1>5, <2>4, <2>5, <2>7, <2>8, WorkStep
<1>9. CASE /\ unpaired' = [unpaired EXCEPT ![d] = @ \cup {c}]
           /\ conn[c].from # d /\ NetIs(n)
           /\ UNCHANGED <<pairing, session, disturbed, faults>>
  <2>1. unpaired' \in [Devices -> SUBSET Conns]
        /\ \A f \in Devices : unpaired'[f] = IF f = d THEN unpaired[f] \cup {c}
                                             ELSE unpaired[f]
    BY <1>0, <1>3, <1>9 DEF TabsOK
  <2>2. TabsOK' /\ faults' >= faults
    BY <1>0, <1>4, <1>9, <2>1 DEF TabsOK
  <2>3. conn[c].to = d
    BY <1>9 DEF IsEnd
  <2>4. HoldInv'
    BY <1>4, <1>9, <2>1, <2>3, SameAgreed, HoldKept
  <2>5. ASSUME NEW b \in DOMAIN conn, NEW f \in Devices
        PROVE  /\ Held(b, f) => Held(b, f)'
               /\ b = c /\ f = d => Held(b, f)'
    BY <1>6, <1>9, <2>1 DEF Held
  <2>6. Holds(n, c, d) /\ Later(n, n)
    BY <2>5 DEF Holds, Later
  <2> QED BY <1>3, <1>4, <1>5, <1>9, <2>2, <2>4, <2>6, WorkStep
<1>10. CASE /\ NetIs(Close(n, c)) /\ UNCHANGED <<unpaired, pairing, session>>
            /\ faults' \in {faults, faults + 1} /\ disturbed' \in {disturbed, TRUE}
  <2>1. PICK m : m = Close(n, c)
    OBVIOUS
  <2>2. NetOK(m, agreed) /\ Later(n, m) /\ m.serving[c] = {}
    BY <1>0, <1>3, <2>1, CloseOK
  <2>3. TabsOK' /\ faults' >= faults
    <3>1. faults' \in Nat /\ faults' >= faults
      BY <1>0, <1>10 DEF TabsOK
    <3>2. disturbed' \in BOOLEAN
      BY <1>0, <1>10, Zenon DEF TabsOK
    <3> QED BY <1>0, <1>4, <1>10, <3>1, <3>2 DEF TabsOK
  <2>4. HoldInv'
    BY <1>4, <1>10, SameAgreed, HoldKept
  <2>5. ASSUME NEW b \in DOMAIN conn, NEW f \in Devices, f \in m.serving[b]
        PROVE  /\ Held(b, f) => Held(b, f)'
               /\ b # c
    BY <1>6, <1>10, <2>2, <2>5 DEF Held
  <2>6. Holds(m, c, d)
    BY <2>5 DEF Holds
  <2> QED BY <1>3, <1>4, <1>5, <1>10, <2>1, <2>2, <2>3, <2>4, <2>6, WorkStep
<1> QED BY <1>1, <1>2, <1>7, <1>8, <1>9, <1>10 DEF OnEstablished

\* A code is accepted: it is on the screen no more.
LEMMA SpentOK ==
  ASSUME PairInv, NEW d \in Devices, code[d] # 0, Spent(d), owner' = owner,
         accepted' = [accepted EXCEPT ![code[d]] = @ + 1]
  PROVE  CodesInv'
<1>0. /\ MaxCodes \in Nat /\ Len(owner) \in Nat
      /\ DOMAIN owner = 1 .. Len(owner) /\ Len(owner) <= MaxCodes
  BY BoundsAssumption, LenProperties DEF PairInv, CodesInv
<1>1. PICK n : n = code[d]
  OBVIOUS
<1>2. /\ n \in 1 .. MaxCodes /\ n \in DOMAIN owner /\ owner[n] = d
      /\ accepted[n] = 0
  BY <1>0, <1>1 DEF PairInv, CodesInv
<1>3. accepted \in [1 .. MaxCodes -> Nat]
  BY DEF PairInv, CodesInv
<1>4. \A k \in 1 .. MaxCodes : accepted'[k] = IF k = n THEN 1 ELSE accepted[k]
  BY <1>1, <1>2, <1>3
<1>5. accepted' \in [1 .. MaxCodes -> Nat]
  BY <1>1, <1>2, <1>3
<1>6. /\ code' \in [Devices -> 0 .. MaxCodes] /\ lapsed' \in [Devices -> BOOLEAN]
      /\ \A e \in Devices : code'[e] = IF e = d THEN 0 ELSE code[e]
  BY <1>0 DEF Spent, PairInv, CodesInv
<1>7. ASSUME NEW e \in Devices, code'[e] # 0
      PROVE  /\ code'[e] \in DOMAIN owner /\ owner[code'[e]] = e
             /\ accepted'[code'[e]] = 0
  <2>1. e # d /\ code'[e] = code[e]
    BY <1>6, <1>7
  <2>2. /\ code[e] \in DOMAIN owner /\ owner[code[e]] = e
        /\ accepted[code[e]] = 0
    BY <1>7, <2>1 DEF PairInv, CodesInv
  <2>3. code[e] \in 1 .. MaxCodes /\ code[e] # n
    BY <1>0, <1>2, <2>1, <2>2
  <2> QED BY <1>4, <2>1, <2>2, <2>3
<1>8. \A k \in 1 .. MaxCodes : k > Len(owner) => accepted'[k] = 0
  BY <1>0, <1>2, <1>4 DEF PairInv, CodesInv
<1>9. \A k \in 1 .. MaxCodes : accepted'[k] <= 1
  BY <1>4 DEF PairInv, CodesInv, SingleUse
<1> QED BY <1>0, <1>5, <1>6, <1>7, <1>8, <1>9 DEF PairInv, CodesInv, SingleUse

\* A connection asks to pair.
LEMMA RequestStep ==
  ASSUME PairInv, NEW c \in DOMAIN conn, NEW d \in Devices, IsEnd(c, d),
         OnPairRequest(c, d)
  PROVE  PairInv'
<1>0. TabsOK /\ ConnsInv
  BY DEF PairInv
<1>1. PICK p \in Devices : p = Peer(c, d)
  BY PeerIs
<1>2. PICK n : n = Taken(c, d)
  OBVIOUS
<1>3. /\ NetOK(n, agreed) /\ Began(n, c, d) /\ c \in Conns
      /\ ~Next1(c, d, "Established")
  BY <1>2, TakenIs DEF OnPairRequest
<1>4. UNCHANGED <<owner, conn>> /\ unpaired' = [unpaired EXCEPT ![d] = @ \ {c}]
  BY DEF OnPairRequest
<1>5. unpaired' \in [Devices -> SUBSET Conns]
      /\ \A f \in Devices : unpaired'[f] = IF f = d THEN unpaired[f] \ {c} ELSE unpaired[f]
  BY <1>0, <1>4 DEF TabsOK
<1>6. \A b, f : Peer(b, f)' = Peer(b, f)
  BY <1>4 DEF Peer
<1>7. CASE /\ code[d] # 0 /\ Spent(d)
           /\ accepted' = [accepted EXCEPT ![code[d]] = @ + 1]
           /\ agreed' = [agreed EXCEPT ![c] = @ \cup {d}]
           /\ pairing' = DropPairing(d, p)
           /\ CompletePairing(d, p, c,
                              Send(Close(n, pairing[d][p].conn), c, d, "Yes"))
  <2>1. PICK old \in Conns \cup {NoConn} : old = pairing[d][p].conn
    BY PairingIs
  <2>2. PICK k : k = Close(n, old)
    OBVIOUS
  <2>3. /\ NetOK(k, agreed) /\ Later(n, k)
        /\ old \in Conns => k.serving[old] = {}
    BY <1>0, <1>3, <2>2, CloseOK
  <2>4. /\ agreed' \in [Conns -> SUBSET Devices] /\ ConnsInv'
        /\ \A b \in Conns : agreed[b] \subseteq agreed'[b]
        /\ agreed'[c] = agreed[c] \cup {d}
    BY <1>3, <1>4, <1>7, AgreeOK
  <2>5. NetOK(k, agreed')
    BY <1>0, <2>3, <2>4, NetGrows
  <2>6. PICK l : l = Send(k, c, d, "Yes")
    OBVIOUS
  <2>7. NetOK(l, agreed') /\ Later(k, l)
    BY <1>0, <1>3, <2>4, <2>5, <2>6, SendOK DEF Events
  <2>8. PICK m : /\ Switched(m, d, p, l, agreed')
                 /\ session'[d][p] = c \/ m.serving[c] = {}
                 /\ trusted' \in [Devices -> SUBSET Devices] /\ disturbed' \in BOOLEAN
                 /\ faults' \in Nat /\ faults' >= faults
    BY <1>0, <1>3, <1>7, <2>1, <2>2, <2>6, <2>7, CompleteOK
  <2>9. /\ NetIs(m) /\ NetOK(m, agreed') /\ Later(l, m)
        /\ session' \in [Devices -> [Devices -> Conns \cup {NoConn}]]
    BY <2>8 DEF Switched
  <2>10. Later(k, m) /\ Later(n, m)
    BY <2>3, <2>7, <2>9, LaterTrans
  <2>11. /\ pairing' \in [Devices -> [Devices -> Pending \cup {NoPairing}]]
         /\ \A f, q \in Devices :
              pairing'[f][q] = IF f = d /\ q = p THEN NoPairing ELSE pairing[f][q]
    BY <1>0, <1>7, DropPairingIs
  <2>12. TabsOK'
    BY <1>0, <1>5, <2>4, <2>8, <2>9, <2>11 DEF TabsOK
  <2>13. HoldInv'
    BY <1>4, <1>5, <2>4, <2>11, HoldKept DEF PairingOK
  <2>14. CodesInv'
    BY <1>4, <1>7, SpentOK
  <2>15. ASSUME NEW b \in DOMAIN conn, NEW f \in Devices, f \in m.serving[b], Held(b, f)
         PROVE  Held(b, f)'
    <3>1. Peer(b, f) \in Devices /\ b \in Conns /\ b # NoConn
      BY PeerIs
    <3>2. CASE b \in unpaired[f]
      <4>1. CASE b = c /\ f = d
        BY <1>1, <1>6, <2>8, <2>15, <4>1 DEF Held
      <4>2. CASE ~(b = c /\ f = d)
        BY <1>5, <3>2, <4>2 DEF Held
      <4> QED BY <4>1, <4>2
    <3>3. CASE session[f][Peer(b, f)] = b
      BY <1>6, <2>8, <2>15, <3>3, SwitchHeld DEF Held
    <3>4. CASE pairing[f][Peer(b, f)].conn = b
      <4>1. f \in k.serving[b]
        BY <2>10, <2>15, <3>1 DEF Later
      <4>2. ~(f = d /\ Peer(b, f) = p)
        BY <2>1, <2>3, <3>1, <3>4, <4>1
      <4> QED BY <1>6, <2>11, <3>1, <3>4, <4>2 DEF Held
    <3> QED BY <2>15, <3>2, <3>3, <3>4 DEF Held
  <2>16. Holds(m, c, d)
    BY <1>3, <2>15 DEF Holds
  <2> QED BY <1>3, <1>4, <2>4, <2>8, <2>9, <2>10, <2>12, <2>13, <2>14, <2>16, WorkStep
<1>8. CASE /\ BeginPairing(d, p, c, FALSE, n)
           /\ UNCHANGED <<trusted, code, lapsed, session, agreed, accepted,
                          disturbed, faults>>
  <2>1. PICK m : PairingBegun(m, d, p, c, n)
    BY <1>1, <1>3, <1>4, <1>8, BeginOK
  <2>2. TabsOK' /\ faults' >= faults /\ CodesInv' /\ ConnsInv'
    BY <1>0, <1>4, <1>5, <1>8, <2>1, CodesKept, SameAgreed DEF TabsOK, PairingBegun
  <2>3. HoldInv'
    BY <1>4, <1>5, <1>8, <2>1, SameAgreed, HoldKept DEF PairingBegun
  <2>4. ASSUME NEW b \in DOMAIN conn, NEW f \in Devices, f \in m.serving[b],
               Held(b, f)
        PROVE  Held(b, f)'
    <3>1. pairing[f][Peer(b, f)].conn = b => pairing'[f][Peer(b, f)].conn = b
      BY <2>1, <2>4 DEF PairingBegun
    <3>2. b = c /\ f = d => pairing'[f][Peer(b, f)].conn = b
      BY <1>1, <2>1 DEF PairingBegun
    <3>3. b \in unpaired[f] => b \in unpaired'[f] \/ (b = c /\ f = d)
      BY <1>5
    <3> QED BY <1>6, <1>8, <2>4, <3>1, <3>2, <3>3 DEF Held
  <2>5. Holds(m, c, d)
    BY <1>3, <2>4 DEF Holds
  <2>6. NetIs(m) /\ NetOK(m, agreed) /\ Later(n, m)
    BY <2>1 DEF PairingBegun
  <2> QED BY <1>3, <1>4, <1>8, <2>2, <2>3, <2>5, <2>6, WorkStep
<1>9. CASE /\ NetIs(Close(n, c))
           /\ UNCHANGED <<trusted, code, lapsed, pairing, session, agreed,
                          accepted, disturbed, faults>>
  <2>1. PICK m : m = Close(n, c)
    OBVIOUS
  <2>2. NetOK(m, agreed) /\ Later(n, m) /\ m.serving[c] = {}
    BY <1>0, <1>3, <2>1, CloseOK
  <2>3. TabsOK' /\ faults' >= faults /\ CodesInv' /\ ConnsInv'
    BY <1>0, <1>4, <1>5, <1>9, CodesKept, SameAgreed DEF TabsOK
  <2>4. HoldInv'
    BY <1>4, <1>5, <1>9, SameAgreed, HoldKept
  <2>5. ASSUME NEW b \in DOMAIN conn, NEW f \in Devices, f \in m.serving[b],
               Held(b, f)
        PROVE  Held(b, f)'
    <3>1. b \in unpaired[f] => b \in unpaired'[f]
      BY <1>5, <2>2, <2>5
    <3> QED BY <1>6, <1>9, <2>5, <3>1 DEF Held
  <2>6. Holds(m, c, d)
    BY <1>3, <2>5 DEF Holds
  <2> QED BY <1>3, <1>4, <1>9, <2>1, <2>2, <2>3, <2>4, <2>6, WorkStep
<1> QED BY <1>1, <1>2, <1>7, <1>8, <1>9 DEF OnPairRequest, Answer

\* The other end answers: the pairing is over, or waits for its own user.
LEMMA ResultStep ==
  ASSUME PairInv, NEW c \in DOMAIN conn, NEW d \in Devices, IsEnd(c, d),
         OnPairResult(c, d)
  PROVE  PairInv'
<1> DEFINE x == pairing[d][Peer(c, d)]
<1>0. TabsOK /\ ConnsInv
  BY DEF PairInv
<1>1. PICK p \in Devices : p = Peer(c, d)
  BY PeerIs
<1>2. PICK n : n = Taken(c, d)
  OBVIOUS
<1>3. /\ NetOK(n, agreed) /\ Began(n, c, d) /\ c \in Conns
      /\ ~Next1(c, d, "Established")
      /\ Next1(c, d, "Yes") => Has(queue[c][d], "Yes")
  BY <1>2, TakenIs DEF OnPairResult
<1>4. UNCHANGED <<code, lapsed, owner, conn, unpaired, agreed, accepted>>
      /\ pairing[d][p].conn = c
  BY <1>1 DEF OnPairResult
<1>5. CodesInv' /\ ConnsInv'
  BY <1>4, CodesKept, SameAgreed
<1>6. \A b, f : Peer(b, f)' = Peer(b, f)
  BY <1>4 DEF Peer
<1>7. /\ x \in Pending /\ x = pairing[d][p] /\ c # NoConn
      /\ x.local \/ x.scanner => d \in agreed[c]
  BY <1>1, <1>4, PairingIs, PeerIs
<1>8. CASE /\ pairing' = DropPairing(d, p) /\ NetIs(Close(n, c))
           /\ UNCHANGED <<trusted, session, disturbed, faults>>
  <2>1. PICK m : m = Close(n, c)
    OBVIOUS
  <2>2. NetOK(m, agreed) /\ Later(n, m) /\ m.serving[c] = {}
    BY <1>0, <1>3, <2>1, CloseOK
  <2>3. /\ pairing' \in [Devices -> [Devices -> Pending \cup {NoPairing}]]
        /\ \A f, q \in Devices :
             pairing'[f][q] = IF f = d /\ q = p THEN NoPairing ELSE pairing[f][q]
    BY <1>0, <1>8, DropPairingIs
  <2>4. TabsOK' /\ faults' >= faults
    BY <1>0, <1>4, <1>8, <2>3 DEF TabsOK
  <2>5. HoldInv'
    BY <1>4, <2>3, SameAgreed, HoldKept DEF PairingOK
  <2>6. ASSUME NEW b \in DOMAIN conn, NEW f \in Devices, f \in m.serving[b],
               Held(b, f)
        PROVE  Held(b, f)'
    <3>1. Peer(b, f) \in Devices /\ b # c
      BY <2>2, <2>6, PeerIs
    <3>2. pairing[f][Peer(b, f)].conn = b => pairing'[f][Peer(b, f)].conn = b
      BY <1>4, <2>3, <3>1
    <3> QED BY <1>4, <1>6, <1>8, <2>6, <3>2 DEF Held
  <2>7. Holds(m, c, d)
    BY <1>3, <2>6 DEF Holds
  <2> QED BY <1>3, <1>4, <1>5, <1>8, <2>1, <2>2, <2>4, <2>5, <2>7, WorkStep
<1>9. CASE /\ Completes(x) /\ pairing' = DropPairing(d, p)
           /\ CompletePairing(d, p, c,
                              IF x.scanner THEN Send(n, c, d, "Yes") ELSE n)
  <2>1. PICK k : k = IF x.scanner THEN Send(n, c, d, "Yes") ELSE n
    OBVIOUS
  <2>2. NetOK(k, agreed) /\ Later(n, k)
    <3>1. CASE x.scanner
      BY <1>0, <1>3, <1>7, <2>1, <3>1, SendOK DEF Events
    <3>2. CASE ~x.scanner
      BY <1>3, <2>1, <3>2 DEF Later
    <3> QED BY <3>1, <3>2
  <2>3. PICK m : /\ Switched(m, d, p, k, agreed)
                 /\ session'[d][p] = c \/ m.serving[c] = {}
                 /\ trusted' \in [Devices -> SUBSET Devices] /\ disturbed' \in BOOLEAN
                 /\ faults' \in Nat /\ faults' >= faults
    BY <1>0, <1>3, <1>9, <2>1, <2>2, CompleteOK
  <2>4. /\ NetIs(m) /\ NetOK(m, agreed) /\ Later(n, m)
        /\ session' \in [Devices -> [Devices -> Conns \cup {NoConn}]]
    BY <2>2, <2>3, LaterTrans DEF Switched
  <2>5. /\ pairing' \in [Devices -> [Devices -> Pending \cup {NoPairing}]]
        /\ \A f, q \in Devices :
             pairing'[f][q] = IF f = d /\ q = p THEN NoPairing ELSE pairing[f][q]
    BY <1>0, <1>9, DropPairingIs
  <2>6. TabsOK'
    BY <1>0, <1>4, <2>3, <2>4, <2>5 DEF TabsOK
  <2>7. HoldInv'
    BY <1>4, <2>5, SameAgreed, HoldKept DEF PairingOK
  <2>8. ASSUME NEW b \in DOMAIN conn, NEW f \in Devices, f \in m.serving[b], Held(b, f)
        PROVE  Held(b, f)'
    <3>1. Peer(b, f) \in Devices
      BY PeerIs
    <3>2. CASE b \in unpaired[f]
      BY <1>4, <3>2 DEF Held
    <3>3. CASE session[f][Peer(b, f)] = b
      BY <1>6, <2>3, <2>8, <3>3, SwitchHeld DEF Held
    <3>4. CASE pairing[f][Peer(b, f)].conn = b
      <4>1. CASE f = d /\ Peer(b, f) = p
        BY <1>4, <1>6, <2>3, <2>8, <3>4, <4>1 DEF Held
      <4>2. CASE ~(f = d /\ Peer(b, f) = p)
        BY <1>6, <2>5, <3>1, <3>4, <4>2 DEF Held
      <4> QED BY <4>1, <4>2
    <3> QED BY <2>8, <3>2, <3>3, <3>4 DEF Held
  <2>9. Holds(m, c, d)
    BY <1>3, <2>8 DEF Holds
  <2> QED BY <1>3, <1>4, <1>5, <2>3, <2>4, <2>6, <2>7, <2>9, WorkStep
<1>10. CASE /\ Next1(c, d, "Yes") /\ NetIs(n)
            /\ pairing' = [pairing EXCEPT ![d][p].peer = TRUE]
            /\ UNCHANGED <<trusted, session, disturbed, faults>>
  <2>1. PICK y : y = [x EXCEPT !.peer = TRUE]
    OBVIOUS
  <2>2. /\ y \in Pending /\ y.conn = c
        /\ y.local = x.local /\ y.scanner = x.scanner
    BY <1>4, <1>7, <2>1 DEF Pending
  <2>3. /\ pairing' \in [Devices -> [Devices -> Pending \cup {NoPairing}]]
        /\ \A f, q \in Devices :
             pairing'[f][q] = IF f = d /\ q = p THEN y ELSE pairing[f][q]
    <3>1. pairing' = [pairing EXCEPT ![d][p] = y]
      BY <1>1, <1>10, <2>1
    <3> QED BY <1>0, <2>2, <3>1 DEF TabsOK
  <2>4. p \in agreed[c]
    BY <1>1, <1>3, <1>10 DEF PairInv, NetOK, Net
  <2>5. TabsOK' /\ faults' >= faults
    BY <1>0, <1>4, <1>10, <2>3 DEF TabsOK
  <2>6. PairingOK(d, p, y)'
    BY <1>1, <1>4, <1>7, <2>2, <2>4 DEF PairingOK, IsEnd, Peer
  <2>7. \A f, q \in Devices :
          pairing'[f][q] = pairing[f][q] \/ PairingOK(f, q, pairing[f][q])'
    BY <2>3, <2>6 DEF PairingOK
  <2>8. HoldInv'
    BY <1>4, <2>7, SameAgreed, HoldKept
  <2>9. ASSUME NEW b \in DOMAIN conn, NEW f \in Devices, Held(b, f)
        PROVE  Held(b, f)'
    <3>1. Peer(b, f) \in Devices
      BY PeerIs
    <3>2. pairing'[f][Peer(b, f)].conn = pairing[f][Peer(b, f)].conn
      BY <1>4, <2>2, <2>3, <3>1
    <3> QED BY <1>4, <1>6, <1>10, <2>9, <3>2 DEF Held
  <2>10. Holds(n, c, d) /\ Later(n, n)
    BY <1>3, <2>9 DEF Holds, Later
  <2> QED BY <1>3, <1>4, <1>5, <1>10, <2>5, <2>8, <2>10, WorkStep
<1> QED BY <1>1, <1>2, <1>8, <1>9, <1>10 DEF OnPairResult

----------------------------------------------------------------------------
(* The invariant.                                                          *)

\* Nothing is under way in the beginning.
LEMMA InitInv == Init => PairInv
<1> SUFFICES ASSUME Init PROVE PairInv
  OBVIOUS
<1> USE DEF Init
<1>1. MaxDials \in Nat /\ MaxCodes \in Nat
  BY BoundsAssumption
<1>2. TabsOK
  <2>1. trusted \in [Devices -> SUBSET Devices]
    BY StartTrustAssumption
  <2>2. /\ unpaired \in [Devices -> SUBSET Conns]
        /\ pairing \in [Devices -> [Devices -> Pending \cup {NoPairing}]]
        /\ session \in [Devices -> [Devices -> Conns \cup {NoConn}]]
        /\ agreed \in [Conns -> SUBSET Devices]
    OBVIOUS
  <2> QED BY <2>1, <2>2 DEF TabsOK
<1>3. /\ owner \in Seq(Devices) /\ Len(owner) = 0
      /\ conn \in Seq(Dialed) /\ Len(conn) = 0 /\ DOMAIN conn = {}
  BY EmptySeq
<1>4. ConnsInv
  BY <1>1, <1>3 DEF ConnsInv
<1>5. CodesInv
  BY <1>1, <1>3 DEF CodesInv, SingleUse
<1>6. NetOK(Net, agreed)
  <2>1. Net \in Nets
    BY DEF Net, Nets
  <2> QED BY <1>3, <2>1 DEF NetOK, Net
<1>7. HoldInv /\ NoOrphans
  BY <1>3 DEF HoldInv, PairingOK, NoOrphans
<1> QED BY <1>2, <1>4, <1>5, <1>6, <1>7 DEF PairInv

\* A step that changes nothing.
LEMMA StutterInv == PairInv /\ UNCHANGED vars => PairInv'
<1> SUFFICES ASSUME PairInv, UNCHANGED vars PROVE PairInv'
  OBVIOUS
<1>1. UNCHANGED <<trusted, code, lapsed, owner, conn, queue, serving, unpaired,
                  pairing, session, agreed, accepted, disturbed, faults>>
  BY DEF vars
<1>2. TabsOK' /\ ConnsInv' /\ CodesInv'
  BY <1>1, CodesKept DEF PairInv, TabsOK, ConnsInv
<1>3. NetOK(Net, agreed)'
  BY <1>1 DEF PairInv, NetOK, Net, IsEnd, Peer
<1>4. HoldInv' /\ NoOrphans'
  BY <1>1 DEF PairInv, HoldInv, PairingOK, IsEnd, Peer, NoOrphans
<1> QED BY <1>2, <1>3, <1>4 DEF PairInv

\* A user dials.
LEMMA DialsInv ==
  ASSUME PairInv, NEW d \in Devices, NEW p \in Others(d),
         Pairs(d, p) \/ Connect(d, p)
  PROVE  PairInv'
<1>1. 0 \in 0 .. MaxCodes
  BY BoundsAssumption
<1>2. ASSUME NEW n \in DOMAIN owner, PairWithQr(d, p, n)
      PROVE  PairInv'
  <2>1. n \in 0 .. MaxCodes
    BY BoundsAssumption, LenProperties DEF PairInv, CodesInv
  <2>2. Dial(d, p, "qr", n, {d})
    BY <1>2 DEF PairWithQr
  <2> QED BY <2>1, <2>2, DialStep
<1>3. CASE PairWithDevice(d, p)
  <2>1. Dial(d, p, "code", 0, {})
    BY <1>3 DEF PairWithDevice
  <2> QED BY <1>1, <2>1, DialStep
<1>4. CASE Connect(d, p)
  <2>1. Dial(d, p, "connect", 0, {})
    BY <1>4 DEF Connect
  <2> QED BY <1>1, <2>1, DialStep
<1> QED BY <1>2, <1>3, <1>4 DEF Pairs

\* Every step keeps the invariant.
LEMMA NextInv == PairInv /\ [Next]_vars => PairInv'
<1> SUFFICES ASSUME PairInv, [Next]_vars PROVE PairInv'
  OBVIOUS
<1>1. ASSUME NEW d \in Devices, UserStep(d)
      PROVE  PairInv'
  <2>1. CASE StartPairing(d) \/ StopPairing(d)
    BY <2>1, ScreenStep
  <2>2. ASSUME NEW p \in Others(d), Pairs(d, p) \/ Connect(d, p)
        PROVE  PairInv'
    BY <2>2, DialsInv
  <2>3. ASSUME NEW p \in Others(d), ConfirmPairing(d, p)
        PROVE  PairInv'
    BY <2>3, ConfirmStep
  <2>4. ASSUME NEW p \in Others(d), RejectPairing(d, p)
        PROVE  PairInv'
    BY <2>4, DropStep
  <2>5. ASSUME NEW p \in Others(d), ForgetDevice(d, p)
        PROVE  PairInv'
    BY <2>5, ForgetStep
  <2> QED BY <1>1, <2>1, <2>2, <2>3, <2>4, <2>5 DEF UserStep
<1>2. ASSUME NEW d \in Devices, TimerStep(d)
      PROVE  PairInv'
  <2>1. CASE CodeLapses(d)
    BY <2>1, ScreenStep
  <2>2. ASSUME NEW p \in Others(d), PairingExpires(d, p)
        PROVE  PairInv'
    BY <2>2, DropStep
  <2>3. ASSUME NEW c \in unpaired[d], UnpairedExpires(c, d)
        PROVE  PairInv'
    BY <2>3, ExpireStep
  <2> QED BY <1>2, <2>1, <2>2, <2>3 DEF TimerStep
<1>3. ASSUME NEW c \in DOMAIN conn, ConnectionLost(c)
      PROVE  PairInv'
  BY <1>3, LossStep
<1>4. ASSUME NEW c \in DOMAIN conn, NEW d \in Devices, Handle(c, d)
      PROVE  PairInv'
  <2>1. IsEnd(c, d)
    BY <1>4 DEF Handle, IsEnd
  <2>2. CASE OnEstablished(c, d)
    BY <2>1, <2>2, EstablishedStep
  <2>3. CASE OnPairRequest(c, d)
    BY <2>1, <2>3, RequestStep
  <2>4. CASE OnPairResult(c, d)
    BY <2>1, <2>4, ResultStep
  <2>5. CASE OnOther(c, d)
    BY <2>5, OtherStep
  <2>6. CASE OnClosed(c, d)
    BY <2>6, ClosedStep
  <2> QED BY <1>4, <2>2, <2>3, <2>4, <2>5, <2>6 DEF Handle
<1>5. CASE UNCHANGED vars
  BY <1>5, StutterInv
<1> QED BY <1>1, <1>2, <1>3, <1>4, <1>5 DEF Next

\* What every reachable state of Pairing is like.
LEMMA PairInvHolds == Spec => []PairInv
  BY InitInv, NextInv, PTL DEF Spec

\* Every variable keeps its type, whatever connections are lost.
THEOREM TypesCorrect == Spec => []TypeOK
<1>1. PairInv => TypeOK
  BY DEF PairInv, TypeOK, TabsOK, ConnsInv, CodesInv, NetOK, Nets, Net
<1> QED BY <1>1, PairInvHolds, PTL

\* "Single-use QR secret" (on_pair_request): a code is accepted once.
THEOREM CodesUsedOnce == Spec => []SingleUse
<1>1. PairInv => SingleUse
  BY DEF PairInv, CodesInv
<1> QED BY <1>1, PairInvHolds, PTL

\* No served connection is left that no session, no pairing and no pending
\* request of its end knows of (begin_pairing, promote_session, on_closed).
THEOREM ConnectionsOwned == Spec => []NoOrphans
<1>1. PairInv => NoOrphans
  BY DEF PairInv
<1> QED BY <1>1, PairInvHolds, PTL

----------------------------------------------------------------------------
(* Consent.                                                                *)

\* complete_pairing trusts the peer and nobody else.
LEMMA TrustIs ==
  ASSUME TabsOK, NEW d \in Devices, NEW p \in Devices,
         trusted' = [trusted EXCEPT ![d] = @ \cup {p}],
         NEW f \in Devices, NEW q \in trusted'[f] \ trusted[f]
  PROVE  f = d /\ q = p
  BY DEF TabsOK

\* Both ends of a connection agreed, and nobody else can.
LEMMA BothAgreed ==
  ASSUME ConnsInv', conn' = conn, NEW c \in DOMAIN conn, NEW d, NEW p,
         IsEnd(c, d), Peer(c, d) = p, d \in agreed'[c], p \in agreed'[c]
  PROVE  agreed'[c] = {d, p}
  BY DEF ConnsInv, IsEnd, Peer

\* Only a handler that completes a pairing trusts a device, and it does so on a
\* connection both users agreed on.
LEMMA ConsentStep ==
  ASSUME PairInv, [Next]_vars, NEW f \in Devices,
         NEW q \in trusted'[f] \ trusted[f]
  PROVE  \E c \in DOMAIN conn : agreed'[c] = {f, q}
<1>0. TabsOK /\ PairInv' /\ ConnsInv'
  BY NextInv DEF PairInv
<1>1. trusted' # trusted
  OBVIOUS
<1>2. ASSUME NEW d \in Devices, UserStep(d)
      PROVE  \E c \in DOMAIN conn : agreed'[c] = {f, q}
  <2>1. PICK p \in Others(d) : ConfirmPairing(d, p) \/ ForgetDevice(d, p)
    BY <1>1, <1>2 DEF UserStep, StartPairing, StopPairing, Pairs, PairWithQr,
                      PairWithDevice, Connect, Dial, RejectPairing
  <2>2. CASE ForgetDevice(d, p)
    BY <1>0, <2>2 DEF ForgetDevice, TabsOK
  <2>3. CASE ConfirmPairing(d, p)
    <3>0. p \in Devices
      BY DEF Others
    <3>1. PICK c \in Conns : c = pairing[d][p].conn
      BY <2>3, <3>0, PairingIs DEF ConfirmPairing
    <3>2. /\ IsEnd(c, d) /\ Peer(c, d) = p /\ c \in DOMAIN conn
          /\ pairing[d][p].peer => p \in agreed[c]
      BY <2>3, <3>0, <3>1, PairingIs DEF ConfirmPairing
    <3>3. /\ agreed' = [agreed EXCEPT ![c] = @ \cup {d}] /\ conn' = conn
          /\ pairing[d][p].peer
          /\ trusted' = [trusted EXCEPT ![d] = @ \cup {p}]
      BY <1>1, <2>3, <3>1 DEF ConfirmPairing, CompletePairing
    <3>4. agreed'[c] = agreed[c] \cup {d}
      BY <3>2, <3>3, AgreeOK
    <3>5. agreed'[c] = {d, p}
      BY <1>0, <3>2, <3>3, <3>4, BothAgreed
    <3> QED BY <1>0, <3>0, <3>2, <3>3, <3>5, TrustIs
  <2> QED BY <2>1, <2>2, <2>3
<1>3. ASSUME NEW c \in DOMAIN conn, NEW d \in Devices, Handle(c, d)
      PROVE  \E b \in DOMAIN conn : agreed'[b] = {f, q}
  <2>0. IsEnd(c, d) /\ c \in Conns
    BY <1>3, PeerIs DEF Handle, IsEnd
  <2>1. PICK p \in Devices : p = Peer(c, d)
    BY PeerIs
  <2>2. OnPairRequest(c, d) \/ OnPairResult(c, d)
    BY <1>1, <1>3 DEF Handle, OnEstablished, OnOther, OnClosed
  <2>3. CASE OnPairRequest(c, d)
    <3>1. /\ conn[c].proof # 0 /\ c \in unpaired[d] /\ conn' = conn
          /\ agreed' = [agreed EXCEPT ![c] = @ \cup {d}]
          /\ trusted' = [trusted EXCEPT ![d] = @ \cup {p}]
      BY <1>1, <2>1, <2>3 DEF OnPairRequest, CompletePairing
    <3>2. agreed'[c] = agreed[c] \cup {d}
      BY <2>0, <3>1, AgreeOK
    <3>3. conn[c].to = d /\ conn[c].from \in agreed[c] /\ conn[c].from # d
      BY <3>1 DEF PairInv, HoldInv, ConnsInv
    <3>4. Peer(c, d) = p /\ p \in agreed[c]
      BY <2>1, <3>3 DEF Peer
    <3>5. agreed'[c] = {d, p}
      BY <1>0, <2>0, <3>1, <3>2, <3>4, BothAgreed
    <3> QED BY <1>0, <3>1, <3>5, TrustIs
  <2>4. CASE OnPairResult(c, d)
    <3>1. /\ Next1(c, d, "Yes") /\ Completes(pairing[d][p])
          /\ pairing[d][p].conn = c /\ conn' = conn /\ agreed' = agreed
          /\ trusted' = [trusted EXCEPT ![d] = @ \cup {p}]
      BY <1>1, <2>1, <2>4 DEF OnPairResult, CompletePairing
    <3>2. d \in agreed[c]
      BY <2>0, <3>1, PairingIs, PeerIs DEF Completes
    <3>3. Has(queue[c][d], "Yes")
      BY <3>1, TakenIs
    <3>4. p \in agreed[c]
      BY <2>0, <2>1, <3>3 DEF PairInv, NetOK, Net
    <3>5. agreed'[c] = {d, p}
      BY <1>0, <2>0, <2>1, <3>1, <3>2, <3>4, BothAgreed
    <3> QED BY <1>0, <3>1, <3>5, TrustIs
  <2> QED BY <2>2, <2>3, <2>4
<1>4. \/ \E d \in Devices : UserStep(d)
      \/ \E c \in DOMAIN conn : \E d \in Devices : Handle(c, d)
  BY <1>1 DEF Next, vars, TimerStep, CodeLapses, PairingExpires,
              UnpairedExpires, ConnectionLost
<1> QED BY <1>2, <1>3, <1>4

\* Nobody comes to be trusted but by the consent of both users on one
\* connection (confirm_pairing, on_pair_request, on_control, complete_pairing).
THEOREM TrustNeedsConsent == Spec => Consented
<1>1. PairInv /\ [Next]_vars =>
        [\A d \in Devices : \A p \in trusted'[d] \ trusted[d] :
           \E c \in DOMAIN conn : agreed'[c] = {d, p}]_vars
  BY ConsentStep
<1> QED BY <1>1, PairInvHolds, PTL DEF Spec, Consented

----------------------------------------------------------------------------
(* Both devices or neither.                                                *)
(*                                                                         *)
(* Until something disturbs it, the first connection either joins devices  *)
(* that trust each other already (Known) or ends of which each one's       *)
(* answer is on its way, was heard, or made the other one trust it         *)
(* (Between).                                                              *)

\* What the head of a queue says, and what follows the Hello.
Starts(q) == q # <<>> /\ Head(q) = "Established"
Requests(q) == q # <<>> /\ Head(q) = "PairRequest"
ToRequest(q) == Len(q) >= 2 /\ q[2] = "PairRequest"
Neat(q) == \A i \in 2 .. Len(q) : q[i] # "Established"

\* The ends of the first connection.
Ends(d, p) ==
  \/ d = conn[1].from /\ p = conn[1].to
  \/ d = conn[1].to /\ p = conn[1].from

\* d has not taken the connection up, may be asked to pair, or pairs.
Still(d, p) ==
  pairing[d][p].conn = 1 \/ Starts(queue[1][d]) \/ 1 \in unpaired[d]

\* The peer's yes is enough for d.
Ready(d, p) ==
  \/ pairing[d][p].conn = 1 /\ Completes(pairing[d][p])
  \/ Starts(queue[1][d]) /\ conn[1].from = d /\ conn[1].how = "qr"

\* One end of a connection between devices that did not trust each other.
EndOK(d, p) ==
  LET q == queue[1][d]
      x == pairing[d][p] IN
  /\ Neat(q)
  /\ Starts(q) => /\ p \notin trusted[d] /\ x = NoPairing /\ 1 \notin unpaired[d]
                  /\ conn[1].to = d => ToRequest(q)
  /\ 1 \in unpaired[d] => /\ conn[1].to = d /\ x = NoPairing
                          /\ p \notin trusted[d] /\ Requests(q)
  /\ p \in trusted[d] => x = NoPairing /\ serving[1] = {d, p}
  /\ serving[1] = {d, p} => /\ Still(d, p) \/ p \in trusted[d]
                            /\ ~Has(q, "No") /\ ~Has(q, "Closed")
  /\ serving[1] = {} \/ serving[1] = {d, p}
  /\ ~(x.peer /\ Completes(x))
  /\ conn[1].how = "qr" =>
       /\ (Starts(q) \/ 1 \in unpaired[d]) /\ conn[1].to = d =>
            serving[1] = {d, p}
       /\ x.conn = 1 /\ conn[1].from = d => x.scanner
  /\ session[d][p] # NoConn => p \in trusted[d]

\* How the ends belong together: d waits with the peer's yes only while the
\* connection is open and the peer agreed, a yes of d reaches the peer, and when
\* the peer trusts d first, its yes is on its way and enough for d.
CrossOK(d, p) ==
  LET x == pairing[d][p]
      y == pairing[p][d] IN
  /\ Still(d, p) /\ (Has(queue[1][d], "Yes") \/ x.peer) =>
       serving[1] = {d, p} /\ (d \in trusted[p] \/ y.local)
  /\ x.local /\ serving[1] = {d, p} =>
       Has(queue[1][p], "Yes") \/ y.peer \/ d \in trusted[p]
  /\ d \in trusted[p] /\ p \notin trusted[d] =>
       Has(queue[1][d], "Yes") /\ Ready(d, p)

\* d trusts the peer and has nothing to pair.
Idle(d, p) == /\ p \in trusted[d] /\ pairing[d][p] = NoPairing
              /\ 1 \notin unpaired[d]
Known(d, p) == Idle(d, p) /\ Idle(p, d)
Between(d, p) == EndOK(d, p) /\ EndOK(p, d) /\ CrossOK(d, p) /\ CrossOK(p, d)

\* Both or neither.
Alike(d, p) == p \in trusted[d] <=> d \in trusted[p]

\* Before the first connection.
None == \A d, p \in Devices : session[d][p] = NoConn /\ Alike(d, p)
\* While there is one.
One ==
  /\ conn[1].proof # 0 <=> conn[1].how = "qr"
  /\ \A d, p \in Devices :
       IF Ends(d, p) THEN Known(d, p) \/ Between(d, p) ELSE Alike(d, p)

MutualInv ==
  ~disturbed => /\ Len(conn) = 0 => None
                /\ Len(conn) = 1 => One

----------------------------------------------------------------------------
(* Queues of an undisturbed connection.                                    *)

\* A queue that something was put behind.
Grew(q, r) ==
  /\ Starts(r) <=> Starts(q)
  /\ Requests(q) => Requests(r)
  /\ ToRequest(q) => ToRequest(r)
  /\ Neat(q) => Neat(r)
  /\ Has(q, "Yes") => Has(r, "Yes")

\* Nothing but m is new in it.
Says(q, r, m) ==
  /\ Has(r, "Yes") => Has(q, "Yes") \/ m = "Yes"
  /\ Has(r, "No") => Has(q, "No") \/ m = "No"
  /\ Has(r, "Closed") => Has(q, "Closed") \/ m = "Closed"

\* Append is such a step of a queue.
LEMMA GrewAppend ==
  ASSUME NEW q \in Seq(Events), NEW m \in Events, m # "Established",
         NEW r, r = Append(q, m)
  PROVE  Grew(q, r) /\ Says(q, r, m) /\ Has(r, m) /\ r \in Seq(Events)
<1>1. /\ r \in Seq(Events) /\ Len(r) = Len(q) + 1
      /\ \A i \in 1 .. Len(q) : r[i] = q[i]
      /\ r[Len(q) + 1] = m /\ r # <<>>
  BY AppendProperties
<1>2. Len(q) \in Nat
  BY LenProperties
<1>3. Has(r, m)
  BY <1>1, <1>2 DEF Has
<1>4. Says(q, r, m)
  BY HasAppend DEF Says
<1>5. Has(q, "Yes") => Has(r, "Yes")
  BY <1>1, <1>2 DEF Has
<1>6. q # <<>> => Head(r) = Head(q)
  BY HeadTailAppend
<1>7. q = <<>> => Head(r) = m
  <2>1. q = <<>> => r[1] = m
    BY <1>1
  <2>2. Head(r) = r[1]
    BY <1>1, HeadTailProperties
  <2> QED BY <2>1, <2>2
<1>8. ToRequest(q) => ToRequest(r)
  BY <1>1, <1>2 DEF ToRequest
<1>9. Neat(q) => Neat(r)
  <2> SUFFICES ASSUME Neat(q), NEW i \in 2 .. Len(r) PROVE r[i] # "Established"
    BY DEF Neat
  <2>1. CASE i = Len(q) + 1
    BY <1>1, <2>1
  <2>2. CASE i # Len(q) + 1
    <3>1. i \in 2 .. Len(q) /\ i \in 1 .. Len(q)
      BY <1>1, <1>2, <2>2
    <3> QED BY <1>1, <3>1 DEF Neat
  <2> QED BY <2>1, <2>2
<1>10. Starts(r) <=> Starts(q)
  BY <1>1, <1>6, <1>7 DEF Starts
<1>11. Requests(q) => Requests(r)
  BY <1>1, <1>6 DEF Requests
<1> QED BY <1>1, <1>3, <1>4, <1>5, <1>8, <1>9, <1>10, <1>11 DEF Grew

\* One after the other.
LEMMA GrewTrans ==
  ASSUME NEW q, NEW r, NEW s, Grew(q, r), Grew(r, s)
  PROVE  Grew(q, s)
  BY DEF Grew

\* What is left when the head, e, was taken.
Took(q, r, e) ==
  /\ Neat(q) => Neat(r) /\ ~Starts(r)
  /\ ToRequest(q) => Requests(r)
  /\ Has(r, "Yes") => Has(q, "Yes")
  /\ Has(r, "No") => Has(q, "No")
  /\ Has(r, "Closed") => Has(q, "Closed")
  /\ Has(q, "Yes") => Has(r, "Yes") \/ e = "Yes"

\* What Tail leaves.
LEMMA TookTail ==
  ASSUME NEW q \in Seq(Events), q # <<>>, NEW e, Head(q) = e
  PROVE  Took(q, Tail(q), e)
<1>0. PICK r : r = Tail(q)
  OBVIOUS
<1>1. /\ r \in Seq(Events) /\ Len(r) = Len(q) - 1
      /\ \A i \in 1 .. Len(r) : r[i] = q[i + 1]
  BY <1>0, HeadTailProperties
<1>2. Len(q) \in Nat /\ Len(q) # 0 /\ Len(r) \in Nat
  BY <1>1, LenProperties, EmptySeq
<1>3. Head(q) = q[1]
  BY <1>2, HeadTailProperties
<1>4. r # <<>> => Head(r) = q[2] /\ 2 \in 2 .. Len(q)
  <2> SUFFICES ASSUME r # <<>> PROVE Head(r) = q[2] /\ 2 \in 2 .. Len(q)
    OBVIOUS
  <2>1. Head(r) = r[1] /\ Len(r) # 0
    BY <1>1, EmptySeq, HeadTailProperties
  <2>2. 1 \in 1 .. Len(r) /\ 2 \in 2 .. Len(q)
    BY <1>1, <1>2, <2>1
  <2>3. r[1] = q[1 + 1]
    BY <1>1, <2>2
  <2> QED BY <2>1, <2>2, <2>3
<1>5. Neat(q) => ~Starts(r)
  BY <1>4 DEF Neat, Starts
<1>6. ASSUME Neat(q) PROVE Neat(r)
  <2> SUFFICES ASSUME NEW i \in 2 .. Len(r) PROVE r[i] # "Established"
    BY DEF Neat
  <2>1. i \in 1 .. Len(r) /\ i + 1 \in 2 .. Len(q)
    BY <1>1, <1>2
  <2>2. r[i] = q[i + 1] /\ q[i + 1] # "Established"
    BY <1>1, <1>6, <2>1 DEF Neat
  <2> QED BY <2>2
<1>7. ASSUME ToRequest(q) PROVE Requests(r)
  <2>1. Len(r) # 0
    BY <1>1, <1>2, <1>7 DEF ToRequest
  <2>2. r # <<>>
    BY <2>1, EmptySeq
  <2> QED BY <1>4, <1>7, <2>2 DEF ToRequest, Requests
<1>8. \A f \in Events : Has(r, f) => Has(q, f)
  BY <1>0, HasTail
<1>9. ASSUME NEW f \in Events, Has(q, f), f # e PROVE Has(r, f)
  <2>1. PICK i \in 1 .. Len(q) : q[i] = f
    BY <1>9 DEF Has
  <2>2. i # 1
    BY <1>3, <1>9, <2>1
  <2>3. i - 1 \in 1 .. Len(r) /\ (i - 1) + 1 = i
    BY <1>1, <1>2, <2>1, <2>2
  <2>4. r[i - 1] = q[i]
    BY <1>1, <2>3
  <2> QED BY <2>1, <2>3, <2>4 DEF Has
<1>10. Took(q, r, e)
  BY <1>5, <1>6, <1>7, <1>8, <1>9 DEF Took, Events
<1> QED BY <1>0, <1>10

\* A queue nothing was done to.
LEMMA Same == ASSUME NEW q, NEW m PROVE Grew(q, q) /\ Says(q, q, m)
  BY DEF Grew, Says

----------------------------------------------------------------------------
(* The only connection there is.                                           *)

\* What is known of its ends in every state.
LEMMA EndsAre ==
  ASSUME PairInv, Len(conn) = 1, NEW d \in Devices, NEW p \in Devices, Ends(d, p)
  PROVE  /\ DOMAIN conn = {1} /\ 1 \in Conns /\ 1 # NoConn /\ d # p /\ Ends(p, d)
         /\ Peer(1, d) = p /\ Peer(1, p) = d
         /\ IsEnd(1, d) /\ IsEnd(1, p)
         /\ queue[1][d] \in Seq(Events) /\ queue[1][p] \in Seq(Events)
         /\ Net \in Nets /\ NoPairing.conn = NoConn
         /\ \/ pairing[d][p] = NoPairing
            \/ pairing[d][p] \in Pending /\ pairing[d][p].conn = 1
         /\ session[d][p] \in Conns \cup {NoConn}
<1>1. DOMAIN conn = 1 .. 1 /\ DOMAIN conn \subseteq Conns /\ conn[1].from # conn[1].to
  BY ConnsAre DEF PairInv, ConnsInv
<1>2. DOMAIN conn = {1} /\ 1 \in Conns /\ 1 # NoConn
  BY <1>1, NoConnAssumption
<1>3. d # p /\ Ends(p, d) /\ Peer(1, d) = p /\ Peer(1, p) = d
  BY <1>1 DEF Ends, Peer
<1>4. IsEnd(1, d) /\ IsEnd(1, p)
  BY <1>2 DEF Ends, IsEnd
<1>5. Net \in Nets
  BY DEF PairInv, NetOK
<1>6. queue[1][d] \in Seq(Events) /\ queue[1][p] \in Seq(Events)
  BY <1>2, <1>5 DEF Nets, Net
<1>7. \/ pairing[d][p] = NoPairing
      \/ pairing[d][p] \in Pending /\ pairing[d][p].conn = 1
  <2>1. pairing[d][p] # NoPairing =>
          pairing[d][p] \in Pending /\ pairing[d][p].conn \in DOMAIN conn
    BY PairingIs
  <2> QED BY <1>2, <2>1
<1>8. session[d][p] \in Conns \cup {NoConn}
  BY DEF PairInv, TabsOK
<1>9. NoPairing.conn = NoConn
  BY DEF NoPairing
<1> QED BY <1>2, <1>3, <1>4, <1>5, <1>6, <1>7, <1>8, <1>9

\* What the peer gets.
LEMMA OneSend ==
  ASSUME PairInv, Len(conn) = 1, NEW d \in Devices, NEW p \in Devices, Ends(d, p),
         NEW n \in Nets, NEW m \in Events, m # "Established",
         NEW r, r = Send(n, 1, d, m)
  PROVE  /\ r \in Nets /\ r.serving[1] = n.serving[1]
         /\ r.queue[1][d] = n.queue[1][d]
         /\ Grew(n.queue[1][p], r.queue[1][p])
         /\ Says(n.queue[1][p], r.queue[1][p], m)
         /\ n.serving[1] = {d, p} => Has(r.queue[1][p], m)
         /\ n.serving[1] # {d, p} => r = n
<1>1. 1 \in Conns /\ Peer(1, d) = p /\ d # p
  BY EndsAre
<1>2. /\ r \in Nets /\ r.serving = n.serving
      /\ \A b \in Conns : \A f \in Devices :
           \/ r.queue[b][f] = n.queue[b][f]
           \/ /\ b = 1 /\ n.serving[1] = {d, Peer(1, d)} /\ f = Peer(1, d)
              /\ r.queue[b][f] = Append(n.queue[b][f], m)
  BY <1>1, SendNet, SMTT(60)
<1>3. r.queue[1][d] = n.queue[1][d]
  BY <1>1, <1>2
<1>4. n.queue[1][p] \in Seq(Events)
  BY <1>1, SMTT(60) DEF Nets
<1>5. CASE r.queue[1][p] = n.queue[1][p] /\ n.serving[1] # {d, p}
  BY <1>1, <1>2, <1>3, <1>5, Same DEF Send
<1>6. CASE r.queue[1][p] = Append(n.queue[1][p], m) /\ n.serving[1] = {d, p}
  BY <1>2, <1>3, <1>4, <1>6, GrewAppend
<1>7. n.serving[1] = {d, p} => r.queue[1][p] = Append(n.queue[1][p], m)
  <2> SUFFICES ASSUME n.serving[1] = {d, p}
               PROVE  r.queue[1][p] = Append(n.queue[1][p], m)
    OBVIOUS
  <2>1. r = [n EXCEPT !.queue[1][p] = Append(@, m)]
    BY <1>1 DEF Send
  <2>2. PICK q : q = Append(n.queue[1][p], m)
    OBVIOUS
  <2>3. r = [n EXCEPT !.queue[1][p] = q]
    BY <2>1, <2>2
  <2>4. n = [queue |-> n.queue, serving |-> n.serving]
    BY DEF Nets
  <2>5. r = [queue |-> [n.queue EXCEPT ![1][p] = q], serving |-> n.serving]
    BY <2>3, <2>4
  <2>6. n.queue \in [Conns -> [Devices -> Seq(Events)]]
    BY DEF Nets
  <2> QED BY <1>1, <2>2, <2>5, <2>6
<1>8. r.queue[1][p] = n.queue[1][p] \/ n.serving[1] = {d, p}
  BY <1>1, <1>2
<1> QED BY <1>5, <1>6, <1>7, <1>8

\* Close, seen by both ends.
LEMMA OneClose ==
  ASSUME PairInv, Len(conn) = 1, NEW d \in Devices, NEW p \in Devices, Ends(d, p),
         NEW n \in Nets, NEW r, r = Close(n, 1)
  PROVE  /\ r \in Nets /\ r.serving[1] = {}
         /\ Grew(n.queue[1][d], r.queue[1][d])
         /\ Grew(n.queue[1][p], r.queue[1][p])
         /\ Says(n.queue[1][d], r.queue[1][d], "Closed")
         /\ Says(n.queue[1][p], r.queue[1][p], "Closed")
<1>1. 1 \in Conns
  BY EndsAre
<1>2. /\ r \in Nets /\ r.serving[1] = {}
      /\ \A b \in Conns : \A f \in Devices :
           \/ r.queue[b][f] = n.queue[b][f]
           \/ b = 1 /\ r.queue[b][f] = Append(n.queue[b][f], "Closed")
  BY <1>1, CloseNet, SMTT(60)
<1>3. ASSUME NEW f \in Devices
      PROVE  /\ Grew(n.queue[1][f], r.queue[1][f])
             /\ Says(n.queue[1][f], r.queue[1][f], "Closed")
  <2>1. n.queue[1][f] \in Seq(Events) /\ "Closed" \in Events
    BY <1>1 DEF Nets, Events
  <2>2. CASE r.queue[1][f] = n.queue[1][f]
    BY <2>2, Same
  <2>3. CASE r.queue[1][f] = Append(n.queue[1][f], "Closed")
    BY <2>1, <2>3, GrewAppend
  <2> QED BY <1>1, <1>2, <2>2, <2>3
<1> QED BY <1>2, <1>3

\* The head is taken, and the peer's queue stays.
LEMMA OneTaken ==
  ASSUME PairInv, Len(conn) = 1, NEW d \in Devices, NEW p \in Devices, Ends(d, p),
         NEW e, Next1(1, d, e), NEW r, r = Taken(1, d)
  PROVE  /\ r \in Nets /\ r.serving[1] = serving[1]
         /\ Took(queue[1][d], r.queue[1][d], e)
         /\ r.queue[1][p] = queue[1][p]
<1>1. 1 \in Conns /\ Net \in Nets /\ d # p /\ queue[1][d] \in Seq(Events)
  BY EndsAre
<1>2. queue[1][d] # <<>> /\ Head(queue[1][d]) = e
  BY DEF Next1
<1>3. /\ r \in Nets /\ r.serving = serving
      /\ r.queue[1][d] = Tail(queue[1][d])
      /\ \A b \in Conns : \A f \in Devices :
           b # 1 \/ f # d => r.queue[b][f] = queue[b][f]
  BY <1>1, <1>2, TakenNet
<1>4. Took(queue[1][d], Tail(queue[1][d]), e)
  BY <1>1, <1>2, TookTail
<1> QED BY <1>1, <1>3, <1>4

\* Who is trusted once a pairing is complete, and what the peer is told.
LEMMA OneComplete ==
  ASSUME PairInv, Len(conn) = 1, NEW d \in Devices, NEW p \in Devices, Ends(d, p),
         NEW n \in Nets, session[d][p] = NoConn, CompletePairing(d, p, 1, n),
         ~disturbed'
  PROVE  /\ p \in trusted'[d] /\ trusted'[p] = trusted[p]
         /\ session'[p][d] = session[p][d]
         /\ serving'[1] = n.serving[1]
         /\ queue'[1][d] = n.queue[1][d]
         /\ Grew(n.queue[1][p], queue'[1][p])
         /\ Says(n.queue[1][p], queue'[1][p], "Ticket")
<1>1. d # p
  BY EndsAre
<1>2. /\ trusted \in [Devices -> SUBSET Devices]
      /\ session \in [Devices -> [Devices -> Conns \cup {NoConn}]]
  BY DEF PairInv, TabsOK
<1>3. /\ trusted' = [trusted EXCEPT ![d] = @ \cup {p}]
      /\ PromoteSession(d, p, 1, n)
  BY DEF CompletePairing
<1>4. /\ session' = [session EXCEPT ![d][p] = 1]
      /\ NetIs(Send(n, 1, d, "Ticket"))
  BY <1>3 DEF PromoteSession, Close
<1>5. p \in trusted'[d] /\ trusted'[p] = trusted[p]
  BY <1>1, <1>2, <1>3
<1>6. session'[p][d] = session[p][d]
  BY <1>1, <1>2, <1>4
<1>7. PICK r : r = Send(n, 1, d, "Ticket")
  OBVIOUS
<1>8. queue' = r.queue /\ serving' = r.serving
  BY <1>4, <1>7 DEF NetIs
<1>9. "Ticket" \in Events /\ "Ticket" # "Established"
  BY DEF Events
<1>10. /\ r.serving[1] = n.serving[1]
       /\ r.queue[1][d] = n.queue[1][d]
       /\ Grew(n.queue[1][p], r.queue[1][p])
       /\ Says(n.queue[1][p], r.queue[1][p], "Ticket")
  BY <1>7, <1>9, OneSend
<1> QED BY <1>5, <1>6, <1>8, <1>10

\* Both devices trust each other and nothing more is to be done.
LEMMA BothKnown ==
  ASSUME PairInv, Len(conn) = 1, NEW d \in Devices, NEW p \in Devices, Ends(d, p),
         Between(d, p), p \in trusted'[d], d \in trusted[p],
         trusted'[p] = trusted[p], pairing'[d][p] = NoPairing,
         pairing'[p][d] = pairing[p][d], 1 \notin unpaired'[d],
         unpaired'[p] = unpaired[p]
  PROVE  Known(d, p)'
<1>1. pairing[p][d] = NoPairing
  BY DEF Between, EndOK
<1>2. 1 \notin unpaired[p]
  BY DEF Between, EndOK
<1>3. NoPairing' = NoPairing
  BY DEF NoPairing
<1> QED BY <1>1, <1>2 DEF Known, Idle

\* The user accepts.
LEMMA OneConfirm ==
  ASSUME PairInv, Len(conn) = 1, NEW d \in Devices, NEW p \in Devices, Ends(d, p),
         Between(d, p), ConfirmPairing(d, p), ~disturbed'
  PROVE  Known(d, p)' \/ Between(d, p)'
<1>0. EndOK(d, p) /\ EndOK(p, d) /\ CrossOK(d, p) /\ CrossOK(p, d)
  BY DEF Between
<1>1. /\ d # p /\ Ends(p, d) /\ Net \in Nets /\ NoPairing.conn # 1 /\ 1 # NoConn
      /\ \/ pairing[d][p] = NoPairing
         \/ pairing[d][p] \in Pending /\ pairing[d][p].conn = 1
      /\ \/ pairing[p][d] = NoPairing
         \/ pairing[p][d] \in Pending /\ pairing[p][d].conn = 1
      /\ session[d][p] \in Conns \cup {NoConn}
  BY EndsAre
<1>2. PICK x : x = pairing[d][p]
  OBVIOUS
<1>3. /\ x \in Pending /\ x.conn = 1 /\ x # NoPairing /\ ~x.scanner /\ ~x.local
      /\ UNCHANGED <<conn, unpaired>>
  BY <1>1, <1>2 DEF ConfirmPairing
<1>4. PICK n : n = Send(Net, 1, d, "Yes")
  OBVIOUS
<1>5. "Yes" \in Events /\ "Yes" # "Established"
  BY DEF Events
<1>6. Net.queue = queue /\ Net.serving = serving
  BY DEF Net
<1>7. /\ n \in Nets /\ n.serving[1] = serving[1]
      /\ n.queue[1][d] = queue[1][d]
      /\ Grew(queue[1][p], n.queue[1][p])
      /\ Says(queue[1][p], n.queue[1][p], "Yes")
      /\ serving[1] = {d, p} => Has(n.queue[1][p], "Yes")
      /\ serving[1] # {d, p} => n = Net
  BY <1>1, <1>4, <1>5, <1>6, OneSend
<1>8. p \notin trusted[d] /\ 1 \notin unpaired[d] /\ ~Starts(queue[1][d])
      /\ session[d][p] = NoConn
  BY <1>0, <1>2, <1>3 DEF EndOK
<1>9. d \notin trusted[p]
  BY <1>0, <1>2, <1>3, <1>8 DEF CrossOK, Ready, Completes
<1>10. pairing \in [Devices -> [Devices -> Pending \cup {NoPairing}]] /\ TabsOK
  BY DEF PairInv, TabsOK
<1>11. CASE x.peer
  <2>1. pairing' = DropPairing(d, p) /\ CompletePairing(d, p, 1, n)
    BY <1>2, <1>3, <1>4, <1>11 DEF ConfirmPairing
  <2>2. pairing'[d][p] = NoPairing /\ pairing'[p][d] = pairing[p][d]
    BY <1>1, <1>10, <2>1, DropPairingIs
  <2>3. /\ p \in trusted'[d] /\ trusted'[p] = trusted[p]
        /\ session'[p][d] = session[p][d]
        /\ serving'[1] = serving[1]
        /\ queue'[1][d] = queue[1][d]
        /\ Grew(n.queue[1][p], queue'[1][p])
        /\ Says(n.queue[1][p], queue'[1][p], "Ticket")
    BY <1>7, <1>8, <2>1, OneComplete
  <2>4. /\ Grew(queue[1][p], queue'[1][p])
        /\ Has(queue'[1][p], "Yes")
        /\ ~Has(queue'[1][p], "No") /\ ~Has(queue'[1][p], "Closed")
        /\ serving[1] = {d, p} /\ pairing[p][d].local
    <3>1. Still(d, p)
      BY <1>2, <1>3 DEF Still
    <3>2. serving[1] = {d, p} /\ pairing[p][d].local
      BY <1>0, <1>2, <1>9, <1>11, <3>1 DEF CrossOK
    <3>3. ~Has(queue[1][p], "No") /\ ~Has(queue[1][p], "Closed")
      BY <1>0, <3>2 DEF EndOK
    <3> QED BY <1>7, <2>3, <3>2, <3>3, GrewTrans DEF Says, Grew
  <2>5. pairing[p][d].conn = 1
    BY <1>1, <2>4 DEF NoPairing
  <2>6. EndOK(d, p)'
    BY <1>0, <1>1, <1>3, <1>8, <2>2, <2>3, <2>4 DEF EndOK, Still, Completes, NoPairing
  <2>7. EndOK(p, d)'
    BY <1>0, <1>1, <1>3, <1>9, <2>2, <2>3, <2>4, <2>5 DEF EndOK, Still, Completes, Grew
  <2>8. CrossOK(d, p)'
    BY <1>0, <1>1, <1>3, <1>8, <1>9, <2>2, <2>3, <2>4 DEF CrossOK, Still, Completes, NoPairing
  <2>9. CrossOK(p, d)'
    BY <1>0, <1>1, <1>3, <1>8, <2>2, <2>3, <2>4, <2>5 DEF CrossOK, Ready, Completes
  <2> QED BY <2>6, <2>7, <2>8, <2>9 DEF Between
<1>12. CASE ~x.peer
  <2>1. /\ pairing' = [pairing EXCEPT ![d][p].local = TRUE]
        /\ NetIs(n) /\ UNCHANGED <<trusted, session>>
    BY <1>2, <1>3, <1>4, <1>12 DEF ConfirmPairing
  <2>2. PICK y : y = [x EXCEPT !.local = TRUE]
    OBVIOUS
  <2>3. pairing' = [pairing EXCEPT ![d][p] = y]
    BY <1>2, <1>10, <2>1, <2>2
  <2>4. y.local /\ ~y.peer /\ ~y.scanner /\ y.conn = 1
    BY <1>3, <1>12, <2>2 DEF Pending
  <2>5. pairing'[d][p] = y /\ pairing'[p][d] = pairing[p][d]
    BY <1>1, <1>10, <2>3
  <2>6. queue' = n.queue /\ serving' = n.serving
    BY <2>1 DEF NetIs
  <2>7. EndOK(d, p)'
    BY <1>0, <1>1, <1>2, <1>3, <1>7, <1>8, <2>1, <2>4, <2>5, <2>6
    DEF EndOK, Still, Completes
  <2>8. EndOK(p, d)'
    BY <1>0, <1>1, <1>3, <1>7, <1>9, <2>1, <2>5, <2>6
    DEF EndOK, Still, Completes, Grew, Says
  <2>9. CrossOK(d, p)'
    BY <1>0, <1>1, <1>2, <1>3, <1>7, <1>9, <2>1, <2>4, <2>5, <2>6
    DEF CrossOK, Still
  <2>10. CrossOK(p, d)'
    BY <1>0, <1>1, <1>3, <1>7, <1>8, <2>1, <2>4, <2>5, <2>6
    DEF CrossOK, Still, Grew, Says, Net
  <2> QED BY <2>7, <2>8, <2>9, <2>10 DEF Between
<1> QED BY <1>11, <1>12

\* What is known of one end, of devices that did not trust each other.
LEMMA EndKnown ==
  ASSUME PairInv, Len(conn) = 1, NEW d \in Devices, NEW p \in Devices, Ends(d, p),
         Between(d, p)
  PROVE  /\ EndOK(d, p) /\ EndOK(p, d) /\ CrossOK(d, p) /\ CrossOK(p, d)
         /\ d # p /\ Ends(p, d) /\ Net \in Nets /\ NoPairing.conn # 1 /\ 1 # NoConn
         /\ \/ pairing[d][p] = NoPairing
            \/ pairing[d][p] \in Pending /\ pairing[d][p].conn = 1
         /\ \/ pairing[p][d] = NoPairing
            \/ pairing[p][d] \in Pending /\ pairing[p][d].conn = 1
         /\ p \notin trusted[d] => session[d][p] = NoConn
         /\ Net.queue = queue /\ Net.serving = serving /\ TabsOK
  BY EndsAre DEF Between, EndOK, PairInv, Net

\* A connection that ends before anybody trusts.
LEMMA OneEnds ==
  ASSUME PairInv, Len(conn) = 1, NEW d \in Devices, NEW p \in Devices, Ends(d, p),
         Between(d, p), UNCHANGED <<conn, trusted>>,
         p \notin trusted[d], d \notin trusted[p],
         session'[d][p] = session[d][p] \/ session'[d][p] = NoConn,
         session'[p][d] = session[p][d],
         serving'[1] = {},
         pairing'[d][p] = NoPairing, pairing'[p][d] = pairing[p][d],
         1 \notin unpaired'[d], unpaired'[p] = unpaired[p],
         ~Starts(queue'[1][d]), Neat(queue'[1][d]),
         Grew(queue[1][p], queue'[1][p]),
         Says(queue[1][p], queue'[1][p], "Closed"),
         ~(Still(p, d) /\ (Has(queue[1][p], "Yes") \/ pairing[p][d].peer)),
         conn[1].how = "qr" /\ conn[1].to = p =>
           ~Starts(queue[1][p]) /\ 1 \notin unpaired[p]
  PROVE  Between(d, p)'
<1>0. /\ EndOK(d, p) /\ EndOK(p, d) /\ CrossOK(d, p) /\ CrossOK(p, d)
      /\ d # p /\ NoPairing.conn # 1 /\ ~NoPairing.peer /\ ~NoPairing.local
      /\ NoPairing' = NoPairing
  BY EndKnown DEF NoPairing
<1>1. {} # {d, p} /\ {} # {p, d}
  OBVIOUS
<1>2. EndOK(d, p)'
  BY <1>0, <1>1 DEF EndOK, Still
<1>3. EndOK(p, d)'
  BY <1>0, <1>1 DEF EndOK, Still, Grew
<1>4. CrossOK(d, p)'
  BY <1>0, <1>1 DEF CrossOK, Still
<1>5. CrossOK(p, d)'
  BY <1>0, <1>1 DEF CrossOK, Still, Grew, Says
<1> QED BY <1>2, <1>3, <1>4, <1>5 DEF Between

\* The user refuses.
LEMMA OneReject ==
  ASSUME PairInv, Len(conn) = 1, NEW d \in Devices, NEW p \in Devices, Ends(d, p),
         Between(d, p), RejectPairing(d, p)
  PROVE  Between(d, p)'
<1>0. EndOK(d, p) /\ EndOK(p, d) /\ CrossOK(d, p) /\ CrossOK(p, d)
  BY DEF Between
<1>1. d # p /\ NoPairing.conn # 1 /\ Net \in Nets /\ Net.queue = queue
      /\ Net.serving = serving /\ TabsOK /\ Ends(p, d)
  BY EndKnown
<1>2. PICK x : x = pairing[d][p]
  OBVIOUS
<1>3. /\ x # NoPairing /\ ~x.scanner /\ ~x.local /\ x.conn = 1
      /\ pairing' = DropPairing(d, p)
      /\ NetIs(Close(Send(Net, 1, d, "No"), 1))
      /\ UNCHANGED <<conn, trusted, unpaired, session>>
  BY <1>2, EndKnown DEF RejectPairing
<1>4. pairing'[d][p] = NoPairing /\ pairing'[p][d] = pairing[p][d]
  BY <1>1, <1>3, DropPairingIs
<1>5. p \notin trusted[d] /\ 1 \notin unpaired[d] /\ ~Starts(queue[1][d])
      /\ Neat(queue[1][d])
  BY <1>0, <1>2, <1>3 DEF EndOK
<1>6. d \notin trusted[p]
  BY <1>0, <1>2, <1>3, <1>5 DEF CrossOK, Ready, Completes
<1>7. ~(Still(p, d) /\ (Has(queue[1][p], "Yes") \/ pairing[p][d].peer))
  BY <1>0, <1>2, <1>3, <1>5 DEF CrossOK
<1>8. conn[1].how = "qr" /\ conn[1].to = p =>
        ~Starts(queue[1][p]) /\ 1 \notin unpaired[p]
  <2>1. conn[1].how = "qr" => conn[1].from # d
    BY <1>0, <1>2, <1>3 DEF EndOK
  <2> QED BY <1>1, <2>1 DEF Ends
<1>9. PICK n : n = Send(Net, 1, d, "No")
  OBVIOUS
<1>10. PICK r : r = Close(n, 1)
  OBVIOUS
<1>11. "No" \in Events /\ "No" # "Established" /\ "No" # "Yes"
  BY DEF Events
<1>12. /\ n \in Nets /\ n.queue[1][d] = queue[1][d]
       /\ Grew(queue[1][p], n.queue[1][p])
       /\ Says(queue[1][p], n.queue[1][p], "No")
  BY <1>1, <1>9, <1>11, OneSend
<1>13. /\ r.serving[1] = {}
       /\ Grew(n.queue[1][d], r.queue[1][d])
       /\ Grew(n.queue[1][p], r.queue[1][p])
       /\ Says(n.queue[1][p], r.queue[1][p], "Closed")
  BY <1>10, <1>12, OneClose
<1>14. queue' = r.queue /\ serving' = r.serving
  BY <1>3, <1>9, <1>10 DEF NetIs
<1>15. ~Starts(queue'[1][d]) /\ Neat(queue'[1][d])
  BY <1>5, <1>12, <1>13, <1>14 DEF Grew
<1>16. Grew(queue[1][p], queue'[1][p])
  BY <1>12, <1>13, <1>14, GrewTrans
<1>20. EndOK(d, p)'
  BY <1>0, <1>1, <1>3, <1>4, <1>5, <1>13, <1>14, <1>15 DEF EndOK, Still, NoPairing
<1>21. EndOK(p, d)'
  BY <1>0, <1>1, <1>3, <1>4, <1>6, <1>8, <1>13, <1>14, <1>16 DEF EndOK, Still, Grew
<1>22. CrossOK(d, p)'
  BY <1>0, <1>1, <1>3, <1>4, <1>5, <1>6, <1>13, <1>14, <1>15
  DEF CrossOK, Still, NoPairing
<1>23. CrossOK(p, d)'
  BY <1>0, <1>1, <1>3, <1>4, <1>5, <1>6, <1>7, <1>12, <1>13, <1>14, <1>16
  DEF CrossOK, Still, Grew, Says
<1> QED BY <1>20, <1>21, <1>22, <1>23 DEF Between

\* The pairing is too old, and nobody has anything left to do.
LEMMA OneExpires ==
  ASSUME PairInv, Len(conn) = 1, NEW d \in Devices, NEW p \in Devices, Ends(d, p),
         Between(d, p), PairingExpires(d, p), ~disturbed'
  PROVE  Between(d, p)'
<1>0. EndOK(d, p) /\ EndOK(p, d) /\ CrossOK(d, p) /\ CrossOK(p, d)
  BY DEF Between
<1>1. d # p /\ NoPairing.conn # 1 /\ Net \in Nets /\ Net.queue = queue
      /\ Net.serving = serving /\ TabsOK /\ 1 \in Conns
  BY EndKnown, EndsAre
<1>2. PICK x : x = pairing[d][p]
  OBVIOUS
<1>3. /\ x # NoPairing /\ x.conn = 1 /\ Settled
      /\ pairing' = DropPairing(d, p)
      /\ NetIs(Close(Net, 1))
      /\ UNCHANGED <<conn, trusted, unpaired, session>>
  BY <1>2, EndKnown DEF PairingExpires
<1>4. pairing'[d][p] = NoPairing /\ pairing'[p][d] = pairing[p][d]
  BY <1>1, <1>3, DropPairingIs
<1>5. queue[1][d] = <<>> /\ queue[1][p] = <<>>
  BY <1>1, <1>3 DEF Settled
<1>6. /\ ~Has(queue[1][d], "Yes") /\ ~Has(queue[1][p], "Yes")
      /\ ~Starts(queue[1][d]) /\ ~Starts(queue[1][p])
      /\ ~Requests(queue[1][d]) /\ ~Requests(queue[1][p])
  BY <1>5 DEF Has, Starts, Requests
<1>7. 1 \notin unpaired[d] /\ 1 \notin unpaired[p]
  BY <1>0, <1>6 DEF EndOK
<1>8. p \notin trusted[d]
  BY <1>0, <1>2, <1>3 DEF EndOK
<1>9. d \notin trusted[p]
  BY <1>0, <1>6, <1>8 DEF CrossOK
<1>10. ~pairing[p][d].peer
  <2>1. pairing[p][d] = NoPairing \/ pairing[p][d].local \/ pairing[p][d].scanner
    BY <1>3 DEF Settled
  <2> QED BY <1>0, <2>1 DEF EndOK, Completes, NoPairing
<1>11. PICK r : r = Close(Net, 1)
  OBVIOUS
<1>12. /\ r.serving[1] = {}
       /\ Grew(queue[1][d], r.queue[1][d])
       /\ Grew(queue[1][p], r.queue[1][p])
       /\ Says(queue[1][p], r.queue[1][p], "Closed")
  BY <1>1, <1>11, OneClose
<1>13. queue' = r.queue /\ serving' = r.serving
  BY <1>3, <1>11 DEF NetIs
<1>14. ~Starts(queue'[1][d]) /\ Neat(queue'[1][d])
  BY <1>0, <1>6, <1>12, <1>13 DEF Grew, EndOK
<1> QED BY <1>3, <1>4, <1>6, <1>7, <1>8, <1>9, <1>10, <1>12, <1>13, <1>14, OneEnds

\* What was taken from the queue, in a step that leaves the peer alone.
LEMMA OneEvent ==
  ASSUME PairInv, Len(conn) = 1, NEW d \in Devices, NEW p \in Devices, Ends(d, p),
         Between(d, p), NEW e, Next1(1, d, e), NEW n, n = Taken(1, d)
  PROVE  /\ n \in Nets /\ n.serving[1] = serving[1]
         /\ n.queue[1][p] = queue[1][p]
         /\ Neat(n.queue[1][d]) /\ ~Starts(n.queue[1][d])
         /\ Took(queue[1][d], n.queue[1][d], e)
         /\ queue[1][d] # <<>> /\ Head(queue[1][d]) = e
         /\ Starts(queue[1][d]) <=> e = "Established"
         /\ Requests(queue[1][d]) <=> e = "PairRequest"
<1>1. /\ n \in Nets /\ n.serving[1] = serving[1]
      /\ n.queue[1][p] = queue[1][p]
      /\ Took(queue[1][d], n.queue[1][d], e)
  BY OneTaken
<1>2. Neat(n.queue[1][d]) /\ ~Starts(n.queue[1][d])
  BY <1>1, EndKnown DEF EndOK, Took
<1>3. queue[1][d] # <<>> /\ Head(queue[1][d]) = e
  BY DEF Next1
<1>4. /\ Starts(queue[1][d]) <=> e = "Established"
      /\ Requests(queue[1][d]) <=> e = "PairRequest"
  BY <1>3 DEF Starts, Requests
<1> QED BY <1>1, <1>2, <1>3, <1>4

\* The pairing begins.
LEMMA OneBegins ==
  ASSUME PairInv, Len(conn) = 1, NEW d \in Devices, NEW p \in Devices, Ends(d, p),
         Between(d, p), pairing[d][p] = NoPairing, NEW n, NEW sc \in BOOLEAN,
         BeginPairing(d, p, 1, sc, n)
  PROVE  /\ queue' = n.queue /\ serving' = n.serving
         /\ pairing'[d][p].conn = 1 /\ ~pairing'[d][p].local
         /\ ~pairing'[d][p].peer /\ pairing'[d][p].scanner = sc
         /\ pairing'[p][d] = pairing[p][d]
<1>1. d # p /\ TabsOK
  BY EndKnown
<1>2. NetIs(n)
  BY DEF BeginPairing, Close, NoPairing
<1>3. PICK y : y = [conn |-> 1, local |-> FALSE, peer |-> FALSE, scanner |-> sc]
  OBVIOUS
<1>4. pairing' = [pairing EXCEPT ![d][p] = y]
  BY <1>3 DEF BeginPairing
<1>5. pairing'[d][p] = y /\ pairing'[p][d] = pairing[p][d]
  BY <1>1, <1>4 DEF TabsOK
<1> QED BY <1>2, <1>3, <1>5 DEF NetIs

\* The connection is established.
LEMMA OneEstablished ==
  ASSUME PairInv, Len(conn) = 1, NEW d \in Devices, NEW p \in Devices, Ends(d, p),
         Between(d, p), OnEstablished(1, d), ~disturbed'
  PROVE  Between(d, p)'
<1>0. EndOK(d, p) /\ EndOK(p, d) /\ CrossOK(d, p) /\ CrossOK(p, d)
  BY DEF Between
<1>1. d # p /\ NoPairing.conn # 1 /\ Net \in Nets /\ Net.queue = queue
      /\ Net.serving = serving /\ TabsOK /\ Ends(p, d) /\ 1 \in Conns
      /\ Peer(1, d) = p
  BY EndKnown, EndsAre
<1>2. PICK n : n = Taken(1, d)
  OBVIOUS
<1>3. Next1(1, d, "Established") /\ UNCHANGED <<trusted, conn>>
  BY DEF OnEstablished
<1>4. /\ n \in Nets /\ n.serving[1] = serving[1]
      /\ n.queue[1][p] = queue[1][p]
      /\ Neat(n.queue[1][d]) /\ ~Starts(n.queue[1][d])
      /\ Took(queue[1][d], n.queue[1][d], "Established")
      /\ Starts(queue[1][d])
  BY <1>2, <1>3, OneEvent
<1>5. /\ p \notin trusted[d] /\ pairing[d][p] = NoPairing /\ 1 \notin unpaired[d]
      /\ conn[1].to = d => ToRequest(queue[1][d])
  BY <1>0, <1>4 DEF EndOK
<1>6. conn[1].from = d <=> conn[1].to = p
  BY <1>1 DEF Ends
<1>7. conn[1].to = d <=> conn[1].from = p
  BY <1>1 DEF Ends
<1>8. ASSUME conn[1].from = d, conn[1].how = "connect",
             NetIs(Close(n, 1)), UNCHANGED <<unpaired, pairing, session>>
      PROVE  Between(d, p)'
  <2>1. d \notin trusted[p]
    BY <1>0, <1>1, <1>5, <1>8 DEF CrossOK, Ready
  <2>2. ~(Still(p, d) /\ (Has(queue[1][p], "Yes") \/ pairing[p][d].peer))
    BY <1>0, <1>5 DEF CrossOK, NoPairing
  <2>3. PICK r : r = Close(n, 1)
    OBVIOUS
  <2>4. /\ r.serving[1] = {}
        /\ Grew(n.queue[1][d], r.queue[1][d])
        /\ Grew(queue[1][p], r.queue[1][p])
        /\ Says(queue[1][p], r.queue[1][p], "Closed")
    BY <1>4, <2>3, OneClose
  <2>5. queue' = r.queue /\ serving' = r.serving
    BY <1>8, <2>3 DEF NetIs
  <2>6. ~Starts(queue'[1][d]) /\ Neat(queue'[1][d])
    BY <1>4, <2>4, <2>5 DEF Grew
  <2> QED BY <1>3, <1>5, <1>8, <2>1, <2>2, <2>4, <2>5, <2>6, OneEnds
<1>9. ASSUME conn[1].from = d, BeginPairing(d, p, 1, conn[1].how = "qr", n),
             UNCHANGED <<unpaired, session>>
      PROVE  Between(d, p)'
  <2>0. PICK sc \in BOOLEAN : sc = (conn[1].how = "qr")
    OBVIOUS
  <2>1. /\ queue' = n.queue /\ serving' = n.serving
        /\ pairing'[d][p].conn = 1 /\ ~pairing'[d][p].local
        /\ ~pairing'[d][p].peer /\ pairing'[d][p].scanner = sc
        /\ pairing'[p][d] = pairing[p][d]
    <3>1. BeginPairing(d, p, 1, sc, n)
      BY <1>9, <2>0 DEF BeginPairing
    <3> QED BY <1>5, <3>1, OneBegins
  <2>2. pairing'[d][p].scanner <=> conn[1].how = "qr"
    BY <2>0, <2>1
  <2>3. /\ Has(queue'[1][d], "Yes") <=> Has(queue[1][d], "Yes")
        /\ Has(queue'[1][d], "No") => Has(queue[1][d], "No")
        /\ Has(queue'[1][d], "Closed") => Has(queue[1][d], "Closed")
    BY <1>4, <2>1 DEF Took
  <2>4. EndOK(d, p)'
    BY <1>0, <1>1, <1>3, <1>4, <1>5, <1>9, <2>1, <2>2, <2>3
    DEF EndOK, Still, Completes
  <2>5. EndOK(p, d)'
    BY <1>0, <1>1, <1>3, <1>4, <1>9, <2>1 DEF EndOK, Still, Completes
  <2>6. CrossOK(d, p)'
    BY <1>0, <1>1, <1>3, <1>4, <1>5, <1>9, <2>1, <2>2, <2>3
    DEF CrossOK, Still, Ready, Completes, NoPairing
  <2>7. CrossOK(p, d)'
    BY <1>0, <1>1, <1>3, <1>4, <1>5, <1>9, <2>1, <2>2, <2>3
    DEF CrossOK, Still, Ready, Completes, NoPairing
  <2> QED BY <2>4, <2>5, <2>6, <2>7 DEF Between
<1>10. ASSUME conn[1].from # d, unpaired' = [unpaired EXCEPT ![d] = @ \cup {1}],
              NetIs(n), UNCHANGED <<pairing, session>>
       PROVE  Between(d, p)'
  <2>1. queue' = n.queue /\ serving' = n.serving
    BY <1>10 DEF NetIs
  <2>2. 1 \in unpaired'[d] /\ unpaired'[p] = unpaired[p]
    BY <1>1, <1>10 DEF TabsOK
  <2>3. conn[1].to = d
    BY <1>10, EndKnown DEF Ends
  <2>4. Requests(n.queue[1][d])
    BY <1>4, <1>5, <2>3 DEF Took
  <2>5. /\ Has(queue'[1][d], "Yes") <=> Has(queue[1][d], "Yes")
        /\ Has(queue'[1][d], "No") => Has(queue[1][d], "No")
        /\ Has(queue'[1][d], "Closed") => Has(queue[1][d], "Closed")
    BY <1>4, <2>1 DEF Took
  <2>6. d \notin trusted[p]
    BY <1>0, <1>1, <1>5, <1>10 DEF CrossOK, Ready
  <2>7. EndOK(d, p)'
    BY <1>0, <1>1, <1>3, <1>4, <1>5, <1>10, <2>1, <2>2, <2>3, <2>4, <2>5
    DEF EndOK, Still, Completes, NoPairing
  <2>8. EndOK(p, d)'
    BY <1>0, <1>1, <1>3, <1>4, <1>10, <2>1, <2>2 DEF EndOK, Still, Completes
  <2>9. CrossOK(d, p)'
    BY <1>0, <1>1, <1>3, <1>4, <1>5, <1>10, <2>1, <2>2, <2>5, <2>6
    DEF CrossOK, Still, NoPairing
  <2>10. CrossOK(p, d)'
    BY <1>0, <1>1, <1>3, <1>4, <1>5, <1>10, <2>1, <2>2, <2>5
    DEF CrossOK, Still, NoPairing
  <2> QED BY <2>7, <2>8, <2>9, <2>10 DEF Between
<1> QED BY <1>1, <1>2, <1>5, <1>8, <1>9, <1>10 DEF OnEstablished

\* What one end hears while the other one is left alone.
Hears(d) ==
  /\ Neat(queue'[1][d]) /\ ~Starts(queue'[1][d])
  /\ Has(queue'[1][d], "Yes") => Has(queue[1][d], "Yes")
  /\ Has(queue'[1][d], "No") => Has(queue[1][d], "No")
  /\ Has(queue'[1][d], "Closed") => Has(queue[1][d], "Closed")

\* The peer asks to pair.
LEMMA OneRequest ==
  ASSUME PairInv, Len(conn) = 1, NEW d \in Devices, NEW p \in Devices, Ends(d, p),
         Between(d, p), conn[1].proof # 0 <=> conn[1].how = "qr",
         OnPairRequest(1, d), ~disturbed'
  PROVE  Between(d, p)'
<1>0. EndOK(d, p) /\ EndOK(p, d) /\ CrossOK(d, p) /\ CrossOK(p, d)
  BY DEF Between
<1>1. d # p /\ NoPairing.conn # 1 /\ Net \in Nets /\ Net.queue = queue
      /\ Net.serving = serving /\ TabsOK /\ Ends(p, d) /\ 1 \in Conns
      /\ Peer(1, d) = p
  BY EndKnown, EndsAre
<1>2. PICK n : n = Taken(1, d)
  OBVIOUS
<1>3. Next1(1, d, "PairRequest") /\ UNCHANGED conn /\ 1 \in unpaired[d]
      /\ unpaired' = [unpaired EXCEPT ![d] = @ \ {1}]
  BY DEF OnPairRequest
<1>4. /\ n \in Nets /\ n.serving[1] = serving[1]
      /\ n.queue[1][p] = queue[1][p]
      /\ Neat(n.queue[1][d]) /\ ~Starts(n.queue[1][d])
      /\ Took(queue[1][d], n.queue[1][d], "PairRequest")
      /\ ~Starts(queue[1][d])
  BY <1>2, <1>3, OneEvent
<1>5. /\ p \notin trusted[d] /\ pairing[d][p] = NoPairing /\ conn[1].to = d
      /\ session[d][p] = NoConn
  BY <1>0, <1>3, EndKnown DEF EndOK
<1>6. conn[1].from = p /\ conn[1].to # p /\ conn[1].from # d
  BY <1>1, <1>5 DEF Ends
<1>7. d \notin trusted[p]
  BY <1>0, <1>1, <1>4, <1>5, <1>6 DEF CrossOK, Ready
<1>8. 1 \notin unpaired'[d] /\ unpaired'[p] = unpaired[p]
  BY <1>1, <1>3 DEF TabsOK
<1>9. ASSUME conn[1].proof # 0, pairing' = DropPairing(d, p),
             CompletePairing(d, p, 1, Answer(Close(n, pairing[d][p].conn), 1, d))
      PROVE  Between(d, p)'
  <2>1. pairing'[d][p] = NoPairing /\ pairing'[p][d] = pairing[p][d]
    BY <1>1, <1>9, DropPairingIs
  <2>2. conn[1].how = "qr" /\ serving[1] = {d, p}
    BY <1>0, <1>3, <1>5, <1>9 DEF EndOK
  <2>3. PICK m : m = Send(n, 1, d, "Yes")
    OBVIOUS
  <2>4. Close(n, pairing[d][p].conn) = n
    BY <1>5 DEF Close, NoPairing
  <2>5. CompletePairing(d, p, 1, m)
    BY <1>9, <2>3, <2>4 DEF Answer
  <2>6. "Yes" \in Events /\ "Yes" # "Established"
    BY DEF Events
  <2>7. /\ m \in Nets /\ m.serving[1] = serving[1]
        /\ m.queue[1][d] = n.queue[1][d]
        /\ Grew(queue[1][p], m.queue[1][p])
        /\ Says(queue[1][p], m.queue[1][p], "Yes")
        /\ Has(m.queue[1][p], "Yes")
    BY <1>4, <2>2, <2>3, <2>6, OneSend
  <2>8. /\ p \in trusted'[d] /\ trusted'[p] = trusted[p]
        /\ session'[p][d] = session[p][d]
        /\ serving'[1] = serving[1]
        /\ queue'[1][d] = n.queue[1][d]
        /\ Grew(m.queue[1][p], queue'[1][p])
        /\ Says(m.queue[1][p], queue'[1][p], "Ticket")
    BY <1>5, <2>5, <2>7, OneComplete
  <2>9. Grew(queue[1][p], queue'[1][p]) /\ Has(queue'[1][p], "Yes")
    BY <2>7, <2>8, GrewTrans DEF Grew
  <2>10. ~Has(queue'[1][p], "No") /\ ~Has(queue'[1][p], "Closed")
    BY <1>0, <2>2, <2>7, <2>8 DEF EndOK, Says
  <2>11. 1 \notin unpaired[p]
    BY <1>0, <1>6 DEF EndOK
  <2>12. Hears(d)
    BY <1>4, <2>8 DEF Hears, Took
  <2>13. \/ pairing[p][d].conn = 1 /\ pairing[p][d].scanner
         \/ Starts(queue[1][p])
    BY <1>0, <1>6, <1>7, <2>2, <2>11 DEF EndOK, Still
  <2>14. EndOK(d, p)'
    BY <1>0, <1>1, <1>3, <1>6, <1>8, <2>1, <2>2, <2>8, <2>12
    DEF EndOK, Still, Completes, NoPairing, Hears
  <2>15. EndOK(p, d)'
    BY <1>0, <1>1, <1>3, <1>6, <1>7, <1>8, <2>1, <2>2, <2>8, <2>9, <2>10
    DEF EndOK, Still, Completes, Grew
  <2>16. CrossOK(d, p)'
    BY <1>0, <1>1, <1>3, <1>7, <1>8, <2>1, <2>2, <2>8, <2>12
    DEF CrossOK, Still, NoPairing, Hears
  <2>17. CrossOK(p, d)'
    BY <1>0, <1>1, <1>3, <1>6, <1>8, <2>1, <2>2, <2>8, <2>9, <2>13
    DEF CrossOK, Still, Ready, Completes, Grew
  <2> QED BY <2>14, <2>15, <2>16, <2>17 DEF Between
<1>10. ASSUME conn[1].proof = 0, BeginPairing(d, p, 1, FALSE, n),
              UNCHANGED <<trusted, session>>
       PROVE  Between(d, p)'
  <2>1. /\ queue' = n.queue /\ serving' = n.serving
        /\ pairing'[d][p].conn = 1 /\ ~pairing'[d][p].local
        /\ ~pairing'[d][p].peer /\ pairing'[d][p].scanner = FALSE
        /\ pairing'[p][d] = pairing[p][d]
    BY <1>5, <1>10, OneBegins
  <2>2. Hears(d) /\ (Has(queue[1][d], "Yes") => Has(queue'[1][d], "Yes"))
    BY <1>4, <2>1 DEF Hears, Took
  <2>3. conn[1].how # "qr"
    BY <1>10
  <2>4. EndOK(d, p)'
    BY <1>0, <1>1, <1>3, <1>5, <1>6, <1>8, <1>10, <2>1, <2>2, <1>4
    DEF EndOK, Still, Completes, Hears
  <2>5. EndOK(p, d)'
    BY <1>0, <1>1, <1>3, <1>4, <1>8, <1>10, <2>1 DEF EndOK, Still, Completes
  <2>6. CrossOK(d, p)'
    BY <1>0, <1>1, <1>3, <1>4, <1>7, <1>8, <1>10, <2>1, <2>2
    DEF CrossOK, Still, Hears
  <2>7. CrossOK(p, d)'
    BY <1>0, <1>1, <1>3, <1>4, <1>5, <1>8, <1>10, <2>1, <2>2
    DEF CrossOK, Still, Hears, NoPairing
  <2> QED BY <2>4, <2>5, <2>6, <2>7 DEF Between
<1>11. ASSUME NetIs(Close(n, 1)), UNCHANGED <<trusted, pairing, session>>
       PROVE  Between(d, p)'
  <2>1. ~(Still(p, d) /\ (Has(queue[1][p], "Yes") \/ pairing[p][d].peer))
    BY <1>0, <1>5 DEF CrossOK, NoPairing
  <2>2. PICK r : r = Close(n, 1)
    OBVIOUS
  <2>3. /\ r.serving[1] = {}
        /\ Grew(n.queue[1][d], r.queue[1][d])
        /\ Grew(queue[1][p], r.queue[1][p])
        /\ Says(queue[1][p], r.queue[1][p], "Closed")
    BY <1>4, <2>2, OneClose
  <2>4. queue' = r.queue /\ serving' = r.serving
    BY <1>11, <2>2 DEF NetIs
  <2>5. ~Starts(queue'[1][d]) /\ Neat(queue'[1][d])
    BY <1>4, <2>3, <2>4 DEF Grew
  <2> QED BY <1>3, <1>5, <1>6, <1>7, <1>8, <1>11, <2>1, <2>3, <2>4, <2>5, OneEnds
<1> QED BY <1>1, <1>2, <1>9, <1>10, <1>11 DEF OnPairRequest

\* The peer answers.
LEMMA OneResult ==
  ASSUME PairInv, Len(conn) = 1, NEW d \in Devices, NEW p \in Devices, Ends(d, p),
         Between(d, p), OnPairResult(1, d), ~disturbed'
  PROVE  Known(d, p)' \/ Between(d, p)'
<1>0. EndOK(d, p) /\ EndOK(p, d) /\ CrossOK(d, p) /\ CrossOK(p, d)
  BY DEF Between
<1>1. /\ d # p /\ NoPairing.conn # 1 /\ Net \in Nets /\ Net.queue = queue
      /\ Net.serving = serving /\ TabsOK /\ Ends(p, d) /\ 1 \in Conns
      /\ Peer(1, d) = p /\ {} # {d, p} /\ {} # {p, d}
      /\ \/ pairing[p][d] = NoPairing
         \/ pairing[p][d] \in Pending /\ pairing[p][d].conn = 1
  BY EndKnown, EndsAre
<1>2. PICK n : n = Taken(1, d)
  OBVIOUS
<1>3. PICK x : x = pairing[d][p]
  OBVIOUS
<1>4. /\ UNCHANGED <<conn, unpaired>> /\ 1 \notin unpaired[d] /\ x.conn = 1
      /\ x # NoPairing /\ x \in Pending
  BY <1>1, <1>3, EndKnown DEF OnPairResult
<1>5. PICK e \in {"Yes", "No"} : Next1(1, d, e)
  BY DEF OnPairResult
<1>6. /\ n \in Nets /\ n.serving[1] = serving[1]
      /\ n.queue[1][p] = queue[1][p]
      /\ Neat(n.queue[1][d]) /\ ~Starts(n.queue[1][d])
      /\ Took(queue[1][d], n.queue[1][d], e)
      /\ ~Starts(queue[1][d]) /\ Head(queue[1][d]) = e
  BY <1>2, <1>5, OneEvent
<1>7. p \notin trusted[d] /\ session[d][p] = NoConn
  BY <1>0, <1>3, <1>4, EndKnown DEF EndOK
<1>8. Has(queue[1][d], e)
  <2>1. queue[1][d] \in Seq(Events) /\ queue[1][d] # <<>>
    BY <1>5, EndsAre DEF Next1
  <2> QED BY <1>6, <2>1, HasTail
<1>9. ASSUME e = "No", pairing' = DropPairing(d, p), NetIs(Close(n, 1)),
             UNCHANGED <<trusted, session>>
      PROVE  Between(d, p)'
  <2>1. serving[1] = {} /\ d \notin trusted[p]
    <3>1. serving[1] = {}
      BY <1>0, <1>8, <1>9 DEF EndOK
    <3> QED BY <1>0, <1>1, <3>1 DEF EndOK
  <2>2. ~(Still(p, d) /\ (Has(queue[1][p], "Yes") \/ pairing[p][d].peer))
    BY <1>0, <1>1, <2>1 DEF CrossOK
  <2>3. PICK r : r = Close(n, 1)
    OBVIOUS
  <2>4. /\ r.serving[1] = {}
        /\ Grew(n.queue[1][d], r.queue[1][d])
        /\ Grew(queue[1][p], r.queue[1][p])
        /\ Says(queue[1][p], r.queue[1][p], "Closed")
    BY <1>6, <2>3, OneClose
  <2>5. queue' = r.queue /\ serving' = r.serving
    BY <1>9, <2>3 DEF NetIs
  <2>6. ~Starts(queue'[1][d]) /\ Neat(queue'[1][d])
    BY <1>6, <2>4, <2>5 DEF Grew
  <2>7. pairing'[d][p] = NoPairing /\ pairing'[p][d] = pairing[p][d]
    BY <1>1, <1>9, DropPairingIs
  <2>8. conn[1].how = "qr" /\ conn[1].to = p =>
          ~Starts(queue[1][p]) /\ 1 \notin unpaired[p]
    BY <1>0, <1>1, <2>1 DEF EndOK
  <2> QED BY <1>4, <1>7, <1>9, <2>1, <2>2, <2>4, <2>5, <2>6, <2>7, <2>8, OneEnds
<1>10. ASSUME e = "Yes", Completes(x), pairing' = DropPairing(d, p),
              CompletePairing(d, p, 1,
                              IF x.scanner THEN Send(n, 1, d, "Yes") ELSE n)
       PROVE  Known(d, p)' \/ Between(d, p)'
  <2>1. pairing'[d][p] = NoPairing /\ pairing'[p][d] = pairing[p][d]
    BY <1>1, <1>10, DropPairingIs
  <2>2. Still(d, p)
    BY <1>3, <1>4 DEF Still
  <2>3. serving[1] = {d, p} /\ (d \in trusted[p] \/ pairing[p][d].local)
    BY <1>0, <1>8, <1>10, <2>2 DEF CrossOK
  <2>4. PICK m : m = IF x.scanner THEN Send(n, 1, d, "Yes") ELSE n
    OBVIOUS
  <2>5. "Yes" \in Events /\ "Yes" # "Established"
    BY DEF Events
  <2>6. /\ m \in Nets /\ m.serving[1] = serving[1]
        /\ m.queue[1][d] = n.queue[1][d]
        /\ Grew(queue[1][p], m.queue[1][p])
        /\ Says(queue[1][p], m.queue[1][p], "Yes")
        /\ x.scanner => Has(m.queue[1][p], "Yes")
    <3>1. CASE x.scanner
      <4>1. m = Send(n, 1, d, "Yes")
        BY <2>4, <3>1
      <4> QED BY <1>6, <2>3, <2>5, <4>1, OneSend
    <3>2. CASE ~x.scanner
      <4>1. m = n
        BY <2>4, <3>2
      <4> QED BY <1>6, <3>2, <4>1, Same
    <3> QED BY <3>1, <3>2
  <2>7. /\ p \in trusted'[d] /\ trusted'[p] = trusted[p]
        /\ session'[p][d] = session[p][d]
        /\ serving'[1] = serving[1]
        /\ queue'[1][d] = n.queue[1][d]
        /\ Grew(m.queue[1][p], queue'[1][p])
        /\ Says(m.queue[1][p], queue'[1][p], "Ticket")
    <3>1. CompletePairing(d, p, 1, m)
      BY <1>10, <2>4
    <3> QED BY <1>7, <2>6, <3>1, OneComplete
  <2>8. CASE d \in trusted[p]
    BY <1>4, <2>1, <2>7, <2>8, BothKnown
  <2>9. CASE d \notin trusted[p]
    <3>1. pairing[p][d].local
      BY <2>3, <2>9
    <3>2. pairing[p][d].conn = 1 /\ ~pairing[p][d].peer
      BY <1>0, <1>1, <3>1 DEF EndOK, Completes, NoPairing
    <3>3. Grew(queue[1][p], queue'[1][p])
      BY <2>6, <2>7, GrewTrans
    <3>4. x.scanner \/ Has(queue[1][p], "Yes")
      <4>1. CASE x.local
        BY <1>0, <1>3, <2>3, <2>9, <3>2, <4>1 DEF CrossOK
      <4> QED BY <1>10, <4>1 DEF Completes
    <3>5. Has(queue'[1][p], "Yes")
      BY <2>6, <2>7, <3>3, <3>4 DEF Grew
    <3>6. ~Has(queue'[1][p], "No") /\ ~Has(queue'[1][p], "Closed")
      BY <1>0, <2>3, <2>6, <2>7 DEF EndOK, Says
    <3>7. Hears(d)
      BY <1>6, <2>7 DEF Hears, Took
    <3>8. EndOK(d, p)'
      BY <1>0, <1>1, <1>4, <2>1, <2>3, <2>7, <3>7
      DEF EndOK, Still, Completes, NoPairing, Hears
    <3>9. EndOK(p, d)'
      BY <1>0, <1>1, <1>4, <2>1, <2>3, <2>7, <2>9, <3>2, <3>3, <3>6
      DEF EndOK, Still, Completes, Grew
    <3>10. CrossOK(d, p)'
      BY <1>0, <1>1, <1>4, <2>1, <2>3, <2>7, <2>9, <3>7
      DEF CrossOK, Still, NoPairing, Hears
    <3>11. CrossOK(p, d)'
      BY <1>0, <1>1, <1>4, <2>1, <2>3, <2>7, <3>1, <3>2, <3>5
      DEF CrossOK, Still, Ready, Completes
    <3> QED BY <3>8, <3>9, <3>10, <3>11 DEF Between
  <2> QED BY <2>8, <2>9
<1>11. ASSUME e = "Yes", ~Completes(x),
              pairing' = [pairing EXCEPT ![d][p].peer = TRUE],
              NetIs(n), UNCHANGED <<trusted, session>>
       PROVE  Between(d, p)'
  <2>1. PICK y : y = [x EXCEPT !.peer = TRUE]
    OBVIOUS
  <2>2. pairing' = [pairing EXCEPT ![d][p] = y]
    BY <1>1, <1>3, <1>11, <2>1 DEF TabsOK
  <2>3. /\ y.peer /\ (y.local <=> x.local) /\ (y.scanner <=> x.scanner)
        /\ y.conn = 1
    BY <1>4, <2>1 DEF Pending
  <2>4. pairing'[d][p] = y /\ pairing'[p][d] = pairing[p][d]
    BY <1>1, <2>2 DEF TabsOK
  <2>5. queue' = n.queue /\ serving' = n.serving
    BY <1>11 DEF NetIs
  <2>6. Hears(d)
    BY <1>6, <2>5 DEF Hears, Took
  <2>7. d \notin trusted[p]
    BY <1>0, <1>3, <1>4, <1>6, <1>7, <1>11 DEF CrossOK, Ready
  <2>8. ~x.local /\ ~x.scanner
    BY <1>11 DEF Completes
  <2>9. EndOK(d, p)'
    BY <1>0, <1>1, <1>3, <1>4, <1>6, <1>7, <1>11, <2>3, <2>4, <2>5, <2>6, <2>8
    DEF EndOK, Still, Completes, Hears
  <2>10. EndOK(p, d)'
    BY <1>0, <1>1, <1>4, <1>6, <1>11, <2>4, <2>5 DEF EndOK, Still, Completes
  <2>11. CrossOK(d, p)'
    BY <1>0, <1>1, <1>3, <1>4, <1>6, <1>8, <1>11, <2>3, <2>4, <2>5, <2>6, <2>7, <2>8
    DEF CrossOK, Still, Hears
  <2>12. CrossOK(p, d)'
    BY <1>0, <1>1, <1>3, <1>4, <1>6, <1>7, <1>11, <2>3, <2>4, <2>5, <2>6, <2>8
    DEF CrossOK, Still, Hears
  <2> QED BY <2>9, <2>10, <2>11, <2>12 DEF Between
<1>12. Next1(1, d, "No") <=> e = "No"
  BY <1>5 DEF Next1
<1>13. Next1(1, d, "Yes") <=> e = "Yes"
  BY <1>5 DEF Next1
<1> QED BY <1>1, <1>2, <1>3, <1>9, <1>10, <1>11, <1>12, <1>13 DEF OnPairResult

\* A message that is of no use.
LEMMA OneOther ==
  ASSUME PairInv, Len(conn) = 1, NEW d \in Devices, NEW p \in Devices, Ends(d, p),
         Between(d, p), OnOther(1, d)
  PROVE  Between(d, p)'
<1>0. EndOK(d, p) /\ EndOK(p, d) /\ CrossOK(d, p) /\ CrossOK(p, d)
  BY DEF Between
<1>1. /\ d # p /\ NoPairing.conn # 1 /\ TabsOK /\ Ends(p, d) /\ 1 \in Conns
      /\ Peer(1, d) = p
  BY EndKnown, EndsAre
<1>2. PICK n : n = Taken(1, d)
  OBVIOUS
<1>3. PICK e \in {"PairRequest", "Yes", "No", "Ticket"} :
        /\ Next1(1, d, e)
        /\ IF 1 \in unpaired[d] THEN e # "PairRequest"
           ELSE \/ e \in {"PairRequest", "Ticket"}
                \/ pairing[d][p].conn # 1
  BY <1>1 DEF OnOther
<1>4. /\ UNCHANGED <<conn, trusted, pairing, session>>
      /\ unpaired' = [unpaired EXCEPT ![d] = @ \ {1}]
      /\ NetIs(IF 1 \in unpaired[d] THEN Close(n, 1) ELSE n)
  BY <1>2 DEF OnOther
<1>5. /\ n \in Nets /\ n.serving[1] = serving[1]
      /\ n.queue[1][p] = queue[1][p]
      /\ Neat(n.queue[1][d]) /\ ~Starts(n.queue[1][d])
      /\ Took(queue[1][d], n.queue[1][d], e)
      /\ ~Starts(queue[1][d])
      /\ Requests(queue[1][d]) <=> e = "PairRequest"
  BY <1>2, <1>3, OneEvent
<1>6. 1 \notin unpaired[d]
  BY <1>0, <1>3, <1>5 DEF EndOK
<1>7. queue' = n.queue /\ serving' = n.serving
  BY <1>4, <1>6 DEF NetIs
<1>8. unpaired'[d] = unpaired[d] /\ unpaired'[p] = unpaired[p]
  BY <1>1, <1>4, <1>6 DEF TabsOK
<1>9. Hears(d) /\ (Has(queue[1][d], "Yes") => e = "Yes" \/ Has(queue'[1][d], "Yes"))
  BY <1>5, <1>7 DEF Hears, Took
<1>10. e = "Yes" => ~Still(d, p)
  BY <1>3, <1>5, <1>6 DEF Still
<1>11. EndOK(d, p)'
  BY <1>0, <1>1, <1>4, <1>5, <1>6, <1>7, <1>8, <1>9 DEF EndOK, Still, Completes, Hears
<1>12. EndOK(p, d)'
  BY <1>0, <1>1, <1>4, <1>5, <1>7, <1>8 DEF EndOK, Still, Completes
<1>13. CrossOK(d, p)'
  <2>1. Ready(d, p) => Still(d, p)
    BY DEF Ready, Still
  <2>2. Ready(d, p) => Ready(d, p)'
    BY <1>4, <1>5 DEF Ready, Completes
  <2>3. Still(d, p)' => Still(d, p)
    BY <1>4, <1>6, <1>8, <1>9 DEF Still, Hears
  <2> QED BY <1>0, <1>1, <1>4, <1>5, <1>7, <1>8, <1>9, <1>10, <2>1, <2>2, <2>3
          DEF CrossOK, Hears
<1>14. CrossOK(p, d)'
  <2>1. Ready(p, d)' <=> Ready(p, d)
    BY <1>4, <1>5, <1>7 DEF Ready, Completes
  <2>2. Still(p, d)' <=> Still(p, d)
    BY <1>4, <1>5, <1>7, <1>8 DEF Still
  <2>3. serving[1] = {p, d} /\ e = "Yes" => p \in trusted[d]
    BY <1>0, <1>10 DEF EndOK
  <2> QED BY <1>0, <1>1, <1>4, <1>5, <1>7, <1>8, <1>9, <2>1, <2>2, <2>3
          DEF CrossOK, Hears
<1> QED BY <1>11, <1>12, <1>13, <1>14 DEF Between

\* The connection is over.
LEMMA OneClosed ==
  ASSUME PairInv, Len(conn) = 1, NEW d \in Devices, NEW p \in Devices, Ends(d, p),
         Between(d, p), OnClosed(1, d)
  PROVE  Between(d, p)'
<1>0. EndOK(d, p) /\ EndOK(p, d) /\ CrossOK(d, p) /\ CrossOK(p, d)
  BY DEF Between
<1>1. /\ d # p /\ NoPairing.conn # 1 /\ TabsOK /\ Ends(p, d) /\ 1 \in Conns
      /\ Peer(1, d) = p /\ {} # {d, p} /\ {} # {p, d}
      /\ \/ pairing[d][p] = NoPairing
         \/ pairing[d][p] \in Pending /\ pairing[d][p].conn = 1
  BY EndKnown, EndsAre
<1>2. PICK n : n = Taken(1, d)
  OBVIOUS
<1>3. /\ Next1(1, d, "Closed") /\ NetIs(n) /\ UNCHANGED <<conn, trusted>>
      /\ unpaired' = [unpaired EXCEPT ![d] = @ \ {1}]
      /\ pairing' = IF pairing[d][p].conn = 1
                    THEN DropPairing(d, p) ELSE pairing
      /\ session' = IF session[d][p] = 1
                    THEN [session EXCEPT ![d][p] = NoConn] ELSE session
  BY <1>1, <1>2 DEF OnClosed
<1>4. /\ n.serving[1] = serving[1]
      /\ n.queue[1][p] = queue[1][p]
      /\ Neat(n.queue[1][d]) /\ ~Starts(n.queue[1][d])
      /\ Head(queue[1][d]) = "Closed"
  BY <1>2, <1>3, OneEvent
<1>5. Has(queue[1][d], "Closed")
  <2>1. queue[1][d] \in Seq(Events) /\ queue[1][d] # <<>>
    BY <1>3, EndsAre DEF Next1
  <2> QED BY <1>4, <2>1, HasTail
<1>6. serving[1] = {}
  BY <1>0, <1>5 DEF EndOK
<1>7. p \notin trusted[d] /\ d \notin trusted[p]
  BY <1>0, <1>1, <1>6 DEF EndOK
<1>8. pairing'[d][p] = NoPairing /\ pairing'[p][d] = pairing[p][d]
  <2>1. CASE pairing[d][p].conn = 1
    BY <1>1, <1>3, <2>1, DropPairingIs
  <2>2. CASE pairing[d][p].conn # 1
    BY <1>1, <1>3, <2>2
  <2> QED BY <2>1, <2>2
<1>9. /\ session'[d][p] = session[d][p] \/ session'[d][p] = NoConn
      /\ session'[p][d] = session[p][d]
  BY <1>1, <1>3 DEF TabsOK
<1>10. 1 \notin unpaired'[d] /\ unpaired'[p] = unpaired[p]
  BY <1>1, <1>3 DEF TabsOK
<1>11. queue' = n.queue /\ serving' = n.serving
  BY <1>3 DEF NetIs
<1>12. ~(Still(p, d) /\ (Has(queue[1][p], "Yes") \/ pairing[p][d].peer))
  BY <1>0, <1>1, <1>6 DEF CrossOK
<1>13. conn[1].how = "qr" /\ conn[1].to = p =>
         ~Starts(queue[1][p]) /\ 1 \notin unpaired[p]
  BY <1>0, <1>1, <1>6 DEF EndOK
<1>14. Grew(queue[1][p], queue'[1][p]) /\ Says(queue[1][p], queue'[1][p], "Closed")
  BY <1>4, <1>11, Same
<1> QED BY <1>3, <1>4, <1>6, <1>7, <1>8, <1>9, <1>10, <1>11, <1>12, <1>13, <1>14, OneEnds

----------------------------------------------------------------------------
(* Every step.                                                             *)

\* What an undisturbed step is of.
Ticks(d, p) ==
  ConfirmPairing(d, p) \/ RejectPairing(d, p) \/ PairingExpires(d, p)
Handles(d) ==
  \/ OnEstablished(1, d) \/ OnPairRequest(1, d) \/ OnPairResult(1, d)
  \/ OnOther(1, d) \/ OnClosed(1, d)

\* Only a trust store that cannot be written disturbs.
LEMMA CompleteKeeps ==
  ASSUME NEW d, NEW p, NEW c, NEW n, CompletePairing(d, p, c, n), ~disturbed'
  PROVE  disturbed' = disturbed
  BY DEF CompletePairing

\* Steps of a pairing.
LEMMA TickKeeps ==
  ASSUME NEW d, NEW p, Ticks(d, p), ~disturbed'
  PROVE  ~disturbed /\ conn' = conn /\ unpaired' = unpaired /\ pairing[d][p] # NoPairing
<1>1. CASE ConfirmPairing(d, p)
  BY <1>1, CompleteKeeps DEF ConfirmPairing
<1>2. CASE RejectPairing(d, p)
  BY <1>2 DEF RejectPairing
<1>3. CASE PairingExpires(d, p)
  <2>1. disturbed' = (disturbed \/ ~Settled) /\ conn' = conn
        /\ unpaired' = unpaired /\ pairing[d][p] # NoPairing
    BY <1>3 DEF PairingExpires
  <2>2. ~disturbed
    BY <2>1
  <2> QED BY <2>1, <2>2
<1> QED BY <1>1, <1>2, <1>3 DEF Ticks

\* Events.
LEMMA HandleKeeps ==
  ASSUME NEW c, NEW d, Handle(c, d), ~disturbed'
  PROVE  ~disturbed /\ conn' = conn
<1>1. CASE OnEstablished(c, d)
  BY <1>1 DEF OnEstablished
<1>2. CASE OnPairRequest(c, d)
  <2>1. conn' = conn
    BY <1>2 DEF OnPairRequest
  <2>2. \/ disturbed' = disturbed
        \/ CompletePairing(d, Peer(c, d), c,
              Answer(Close(Taken(c, d), pairing[d][Peer(c, d)].conn), c, d))
    BY <1>2 DEF OnPairRequest
  <2> QED BY <2>1, <2>2, CompleteKeeps
<1>3. CASE OnPairResult(c, d)
  BY <1>3, CompleteKeeps DEF OnPairResult
<1>4. CASE OnOther(c, d) \/ OnClosed(c, d)
  BY <1>4 DEF OnOther, OnClosed
<1> QED BY <1>1, <1>2, <1>3, <1>4 DEF Handle

\* What an undisturbed step does.
LEMMA StepIs ==
  ASSUME PairInv, [Next]_vars, ~disturbed'
  PROVE  /\ ~disturbed
         /\ \/ UNCHANGED <<conn, trusted, queue, serving, unpaired, pairing,
                           session>>
            \/ \E d \in Devices : \E p \in Others(d) :
                 Pairs(d, p) \/ Connect(d, p)
            \/ /\ conn' = conn
               /\ \/ \E d \in Devices : \E p \in Others(d) : Ticks(d, p)
                  \/ \E c \in DOMAIN conn : \E d \in Devices : Handle(c, d)
<1>1. ASSUME NEW d \in Devices, UserStep(d) \/ TimerStep(d)
      PROVE  /\ ~disturbed
             /\ \/ UNCHANGED <<conn, trusted, queue, serving, unpaired, pairing,
                               session>>
                \/ \E p \in Others(d) : Pairs(d, p) \/ Connect(d, p)
                \/ conn' = conn /\ \E p \in Others(d) : Ticks(d, p)
  <2>1. CASE StartPairing(d) \/ StopPairing(d)
    BY <2>1 DEF StartPairing, StopPairing, netVars
  <2>2. ASSUME NEW p \in Others(d), Pairs(d, p) \/ Connect(d, p)
        PROVE  ~disturbed
    BY <2>2 DEF Pairs, Connect, PairWithQr, PairWithDevice, Dial
  <2>3. ASSUME NEW p \in Others(d), Ticks(d, p)
        PROVE  ~disturbed /\ conn' = conn
    BY <2>3, TickKeeps
  <2>4. ~ \E p \in Others(d) : ForgetDevice(d, p)
    BY DEF ForgetDevice
  <2>5. ~CodeLapses(d)
    BY DEF CodeLapses
  <2>6. ~ \E c \in unpaired[d] : UnpairedExpires(c, d)
    BY DEF UnpairedExpires
  <2>7. \/ StartPairing(d) \/ StopPairing(d)
        \/ \E p \in Others(d) : Pairs(d, p) \/ Connect(d, p)
        \/ \E p \in Others(d) : Ticks(d, p)
    BY <1>1, <2>4, <2>5, <2>6 DEF UserStep, TimerStep, Ticks
  <2> QED BY <2>1, <2>2, <2>3, <2>7
<1>2. ASSUME NEW c \in DOMAIN conn, NEW d \in Devices, Handle(c, d)
      PROVE  ~disturbed /\ conn' = conn
  BY <1>2, HandleKeeps
<1>3. ~ \E c \in DOMAIN conn : ConnectionLost(c)
  BY DEF ConnectionLost
<1>4. CASE UNCHANGED vars
  BY <1>4 DEF vars
<1>5. CASE \E d \in Devices : UserStep(d) \/ TimerStep(d)
  BY <1>1, <1>5
<1>6. CASE \E c \in DOMAIN conn : \E d \in Devices : Handle(c, d)
  BY <1>2, <1>6
<1> QED BY <1>3, <1>4, <1>5, <1>6 DEF Next

\* Completing a pairing is trust in the peer.
LEMMA TrustGrows ==
  ASSUME PairInv, Len(conn) = 1, NEW d \in Devices, NEW p \in Devices, Ends(d, p),
         Ticks(d, p) \/ Handles(d)
  PROVE  trusted' = trusted \/ trusted' = [trusted EXCEPT ![d] = @ \cup {p}]
<1>1. Peer(1, d) = p
  BY EndsAre, SMTT(60)
<1>2. CASE Ticks(d, p)
  BY <1>2, SMTT(60) DEF Ticks, ConfirmPairing, RejectPairing, PairingExpires, CompletePairing
<1>3. CASE Handles(d)
  BY <1>1, <1>3 DEF Handles, OnEstablished, OnPairRequest, OnPairResult, OnOther,
                    OnClosed, CompletePairing
<1> QED BY <1>2, <1>3

\* Devices that trust each other already have nothing to pair.
LEMMA KnownKept ==
  ASSUME PairInv, Len(conn) = 1, NEW d \in Devices, NEW p \in Devices, Ends(d, p),
         Known(d, p), Ticks(d, p) \/ Handles(d), ~disturbed'
  PROVE  Known(d, p)'
<1>1. /\ d # p /\ TabsOK /\ Peer(1, d) = p /\ NoPairing.conn # 1 /\ 1 \in Conns
      /\ NoPairing' = NoPairing
  BY EndsAre DEF PairInv, NoPairing
<1>2. /\ p \in trusted[d] /\ d \in trusted[p]
      /\ pairing[d][p] = NoPairing /\ pairing[p][d] = NoPairing
      /\ 1 \notin unpaired[d] /\ 1 \notin unpaired[p]
  BY DEF Known, Idle
<1>3. p \in trusted'[d] /\ d \in trusted'[p]
  BY <1>1, <1>2, TrustGrows DEF TabsOK
<1>4. Handles(d)
  BY <1>2, TickKeeps
<1>5. /\ unpaired' = unpaired \/ unpaired' = [unpaired EXCEPT ![d] = @ \ {1}]
      /\ pairing' = pairing
  <2>1. CASE OnEstablished(1, d)
    BY <1>1, <1>2, <2>1 DEF OnEstablished
  <2>2. CASE OnPairRequest(1, d)
    BY <1>2, <2>2 DEF OnPairRequest
  <2>3. CASE OnPairResult(1, d)
    BY <1>1, <1>2, <2>3 DEF OnPairResult
  <2>4. CASE OnOther(1, d) \/ OnClosed(1, d)
    BY <1>1, <1>2, <2>4 DEF OnOther, OnClosed
  <2> QED BY <1>4, <2>1, <2>2, <2>3, <2>4 DEF Handles
<1>6. 1 \notin unpaired'[d] /\ 1 \notin unpaired'[p]
  BY <1>1, <1>2, <1>5 DEF TabsOK
<1> QED BY <1>1, <1>2, <1>3, <1>5, <1>6 DEF Known, Idle

\* Devices that did not trust each other, whoever acts.
LEMMA BetweenKept ==
  ASSUME PairInv, Len(conn) = 1, NEW d \in Devices, NEW p \in Devices, Ends(d, p),
         conn[1].proof # 0 <=> conn[1].how = "qr",
         Between(d, p), Ticks(d, p) \/ Handles(d), ~disturbed'
  PROVE  Known(d, p)' \/ Between(d, p)'
  BY OneConfirm, OneReject, OneExpires, OneEstablished, OneRequest, OneResult,
     OneOther, OneClosed DEF Ticks, Handles

\* The ends are alike.
LEMMA Swapped ==
  ASSUME NEW d, NEW p
  PROVE  /\ Ends(d, p) <=> Ends(p, d)
         /\ Known(d, p) <=> Known(p, d)
         /\ Between(d, p) <=> Between(p, d)
  BY DEF Ends, Known, Between

\* A step that leaves all of this alone.
LEMMA NotDone == UNCHANGED <<conn, trusted, queue, serving, unpaired, pairing,
                             session>> => (One => One') /\ (None => None')
<1> SUFFICES ASSUME UNCHANGED <<conn, trusted, queue, serving, unpaired, pairing,
                                session>>
             PROVE  (One => One') /\ (None => None')
  OBVIOUS
<1>1. ASSUME NEW d, NEW p
      PROVE  /\ Known(d, p) <=> Known(d, p)'
             /\ Between(d, p) <=> Between(d, p)'
             /\ Ends(d, p) <=> Ends(d, p)'
             /\ Alike(d, p) <=> Alike(d, p)'
  <2>1. Known(d, p) <=> Known(d, p)'
    BY DEF Known, Idle, NoPairing
  <2>2. Still(d, p) <=> Still(d, p)'
    BY DEF Still
  <2>3. Still(p, d) <=> Still(p, d)'
    BY DEF Still
  <2>4. Ready(d, p) <=> Ready(d, p)'
    BY DEF Ready, Completes
  <2>5. Ready(p, d) <=> Ready(p, d)'
    BY DEF Ready, Completes
  <2>6. EndOK(d, p) <=> EndOK(d, p)'
    BY <2>2 DEF EndOK, Completes, NoPairing
  <2>7. EndOK(p, d) <=> EndOK(p, d)'
    BY <2>3 DEF EndOK, Completes, NoPairing
  <2>8. CrossOK(d, p) <=> CrossOK(d, p)'
    BY <2>2, <2>4 DEF CrossOK
  <2>9. CrossOK(p, d) <=> CrossOK(p, d)'
    BY <2>3, <2>5 DEF CrossOK
  <2> QED BY <2>1, <2>6, <2>7, <2>8, <2>9 DEF Between, Ends, Alike
<1>2. One => One'
  BY <1>1 DEF One
<1>3. None => None'
  BY <1>1 DEF None
<1> QED BY <1>2, <1>3

\* One of the ends acts.
LEMMA ActsKept ==
  ASSUME PairInv, Len(conn) = 1, One, NEW d \in Devices, NEW p \in Devices,
         Ends(d, p), Ticks(d, p) \/ Handles(d), conn' = conn, ~disturbed'
  PROVE  One'
<1>1. Known(d, p)' \/ Between(d, p)'
  BY KnownKept, BetweenKept DEF One
<1>2. ASSUME NEW f \in Devices, NEW q \in Devices, Ends(f, q)
      PROVE  \/ f = d /\ q = p
             \/ f = p /\ q = d
  BY <1>2 DEF Ends
<1>3. ASSUME NEW f \in Devices, NEW q \in Devices, ~Ends(f, q)
      PROVE  Alike(f, q)'
  <2>1. Alike(f, q)
    BY <1>3 DEF One
  <2>2. ~(f = d /\ q = p) /\ ~(f = p /\ q = d)
    BY <1>3, Swapped
  <2>3. trusted \in [Devices -> SUBSET Devices]
    BY DEF PairInv, TabsOK
  <2> QED BY <2>1, <2>2, <2>3, TrustGrows DEF Alike
<1>4. ASSUME NEW f \in Devices, NEW q \in Devices, Ends(f, q)
      PROVE  Known(f, q)' \/ Between(f, q)'
  <2>1. CASE f = d /\ q = p
    BY <1>1, <2>1
  <2>2. CASE f = p /\ q = d
    <3>1. (Known(d, p) <=> Known(p, d))' /\ (Between(d, p) <=> Between(p, d))'
      BY DEF Known, Between
    <3> QED BY <1>1, <2>2, <3>1
  <2> QED BY <1>2, <1>4, <2>1, <2>2
<1>5. \A f, q \in Devices : Ends(f, q)' <=> Ends(f, q)
  BY DEF Ends
<1>6. conn'[1].proof # 0 <=> conn'[1].how = "qr"
  BY DEF One
<1> QED BY <1>3, <1>4, <1>5, <1>6 DEF One

\* The first connection is dialed.
LEMMA FirstDial ==
  ASSUME PairInv, Len(conn) = 0, None, NEW d \in Devices, NEW p \in Others(d),
         NEW how \in {"qr", "code", "connect"}, NEW proof \in 0 .. MaxCodes, NEW who,
         Dial(d, p, how, proof, who), proof # 0 <=> how = "qr",
         how = "connect" => p \in trusted[d]
  PROVE  One'
<1>0. p \in Devices /\ d # p
  BY DEF Others
<1>1. /\ 1 \in Conns
      /\ conn' = Append(conn, [from |-> d, to |-> p, how |-> how, proof |-> proof])
      /\ queue' = [queue EXCEPT ![1] = [e \in Devices |->
                 IF e = d THEN <<"Established">>
                 ELSE IF e # p THEN <<>>
                 ELSE IF how = "connect" THEN <<"Established">>
                 ELSE <<"Established", "PairRequest">>]]
      /\ serving' = [serving EXCEPT ![1] = {d, p}]
      /\ UNCHANGED <<trusted, unpaired, pairing, session>>
  BY DEF Dial
<1>2. /\ queue \in [Conns -> [Devices -> Seq(Events)]]
      /\ serving \in [Conns -> SUBSET Devices] /\ TabsOK /\ conn \in Seq(Dialed)
      /\ DOMAIN conn = {}
  <2>1. DOMAIN conn = 1 .. 0
    BY ConnsAre DEF PairInv
  <2> QED BY <2>1 DEF PairInv, NetOK, Nets, Net, ConnsInv
<1>3. PICK k : k = [from |-> d, to |-> p, how |-> how, proof |-> proof]
  OBVIOUS
<1>4. conn'[1] = k
  <2>1. k \in Dialed
    BY <1>0, <1>3 DEF Dialed
  <2>2. Append(conn, k)[Len(conn) + 1] = k
    BY <1>2, <2>1, AppendProperties
  <2> QED BY <1>1, <1>3, <2>2
<1>5. /\ conn'[1].from = d /\ conn'[1].to = p /\ conn'[1].how = how
      /\ conn'[1].proof = proof
  BY <1>3, <1>4
<1>6. /\ serving'[1] = {d, p}
      /\ queue'[1][d] = <<"Established">>
      /\ queue'[1][p] = IF how = "connect" THEN <<"Established">>
                        ELSE <<"Established", "PairRequest">>
  BY <1>0, <1>1, <1>2
<1>7. ASSUME NEW q \in {<<"Established">>, <<"Established", "PairRequest">>}
      PROVE  /\ Neat(q) /\ Starts(q) /\ ~Has(q, "Yes") /\ ~Has(q, "No")
             /\ ~Has(q, "Closed")
             /\ q = <<"Established", "PairRequest">> => ToRequest(q)
  BY SMTT(60) DEF Neat, Starts, Has, ToRequest
<1>8. Starts(queue'[1][d]) /\ Neat(queue'[1][d]) /\ ~Has(queue'[1][d], "Yes")
      /\ ~Has(queue'[1][d], "No") /\ ~Has(queue'[1][d], "Closed")
  BY <1>6, <1>7
<1>9. /\ Starts(queue'[1][p]) /\ Neat(queue'[1][p]) /\ ~Has(queue'[1][p], "Yes")
      /\ ~Has(queue'[1][p], "No") /\ ~Has(queue'[1][p], "Closed")
      /\ how # "connect" => ToRequest(queue'[1][p])
  BY <1>6, <1>7
<1>10. \A f, q \in Devices : pairing[f][q] = NoPairing /\ unpaired[f] = {}
  <2>1. \A f, q \in Devices : pairing[f][q] = NoPairing
    BY <1>2, PairingIs
  <2>2. \A f \in Devices : unpaired[f] = {}
    BY <1>2 DEF PairInv, HoldInv
  <2> QED BY <2>1, <2>2
<1>11. Known(d, p)' \/ Between(d, p)'
  <2>1. p \in trusted[d] <=> d \in trusted[p]
    BY <1>0 DEF None, Alike
  <2>2. CASE p \in trusted[d]
    <3>1. NoPairing' = NoPairing
      BY DEF NoPairing
    <3> QED BY <1>0, <1>1, <1>10, <2>1, <2>2, <3>1 DEF Known, Idle
  <2>3. CASE p \notin trusted[d]
    <3>0. how # "connect" /\ session[d][p] = NoConn /\ session[p][d] = NoConn
      BY <1>0, <2>3 DEF None
    <3>1. /\ pairing[d][p] = NoPairing /\ pairing[p][d] = NoPairing
          /\ 1 \notin unpaired[d] /\ 1 \notin unpaired[p]
          /\ ~NoPairing.peer /\ ~NoPairing.local /\ NoPairing.conn # 1
          /\ {p, d} = {d, p}
      <4>1. 1 # NoConn
        BY <1>1, NoConnAssumption
      <4> QED BY <1>0, <1>10, <4>1 DEF NoPairing
    <3>2. EndOK(d, p)'
      BY <1>0, <1>1, <1>5, <1>6, <1>8, <2>3, <3>0, <3>1 DEF EndOK, Still, NoPairing
    <3>3. EndOK(p, d)'
      BY <1>0, <1>1, <1>5, <1>6, <1>9, <2>1, <2>3, <3>0, <3>1
      DEF EndOK, Still, NoPairing
    <3>4. CrossOK(d, p)'
      BY <1>0, <1>1, <1>8, <2>1, <2>3, <3>1 DEF CrossOK
    <3>5. CrossOK(p, d)'
      BY <1>0, <1>1, <1>9, <2>1, <2>3, <3>1 DEF CrossOK
    <3> QED BY <3>2, <3>3, <3>4, <3>5 DEF Between
  <2> QED BY <2>2, <2>3
<1>12. ASSUME NEW f \in Devices, NEW q \in Devices
       PROVE  IF Ends(f, q)' THEN Known(f, q)' \/ Between(f, q)' ELSE Alike(f, q)'
  <2>1. CASE f = d /\ q = p
    <3>1. Ends(f, q)'
      BY <1>5, <2>1 DEF Ends
    <3> QED BY <1>11, <2>1, <3>1
  <2>2. CASE f = p /\ q = d
    <3>1. Ends(f, q)'
      BY <1>5, <2>2 DEF Ends
    <3>2. (Known(d, p) <=> Known(p, d))' /\ (Between(d, p) <=> Between(p, d))'
      BY DEF Known, Between
    <3> QED BY <1>11, <2>2, <3>1, <3>2
  <2>3. CASE ~(f = d /\ q = p) /\ ~(f = p /\ q = d)
    <3>1. ~Ends(f, q)'
      BY <1>5, <2>3 DEF Ends
    <3>2. Alike(f, q)'
      BY <1>1 DEF None, Alike
    <3> QED BY <3>1, <3>2
  <2> QED BY <2>1, <2>2, <2>3
<1> QED BY <1>5, <1>12 DEF One

\* A dial is a pairing with or without a code, or of trusted devices.
LEMMA DialIs ==
  ASSUME PairInv, NEW d \in Devices, NEW p \in Others(d), Pairs(d, p) \/ Connect(d, p)
  PROVE  \E how \in {"qr", "code", "connect"} : \E proof \in 0 .. MaxCodes :
         \E who \in SUBSET Devices :
           /\ Dial(d, p, how, proof, who)
           /\ proof # 0 <=> how = "qr"
           /\ how = "connect" => p \in trusted[d]
<1>1. 0 \in 0 .. MaxCodes
  BY BoundsAssumption
<1>2. ASSUME NEW n \in DOMAIN owner, PairWithQr(d, p, n)
      PROVE  n \in 0 .. MaxCodes /\ n # 0 /\ Dial(d, p, "qr", n, {d})
  <2>1. n \in 0 .. MaxCodes /\ n # 0
    BY BoundsAssumption, LenProperties DEF PairInv, CodesInv
  <2> QED BY <1>2, <2>1 DEF PairWithQr
<1>3. CASE PairWithDevice(d, p)
  <2>1. Dial(d, p, "code", 0, {})
    BY <1>3 DEF PairWithDevice
  <2> QED BY <1>1, <2>1
<1>4. CASE Connect(d, p)
  <2>1. Dial(d, p, "connect", 0, {}) /\ p \in trusted[d]
    BY <1>4 DEF Connect
  <2> QED BY <1>1, <2>1
<1>5. CASE \E n \in DOMAIN owner : PairWithQr(d, p, n)
  BY <1>2, <1>5
<1> QED BY <1>3, <1>4, <1>5 DEF Pairs

\* Every step keeps it.
LEMMA MutualNext ==
  ASSUME PairInv, PairInv', MutualInv, [Next]_vars
  PROVE  MutualInv'
<1> SUFFICES ASSUME ~disturbed' PROVE MutualInv'
  BY DEF MutualInv
<1>0. Len(conn) \in Nat /\ conn \in Seq(Dialed)
  BY LenProperties DEF PairInv, ConnsInv
<1>1. ~disturbed /\ (Len(conn) = 0 => None) /\ (Len(conn) = 1 => One)
  BY StepIs DEF MutualInv
<1>2. CASE UNCHANGED <<conn, trusted, queue, serving, unpaired, pairing, session>>
  BY <1>1, <1>2, NotDone DEF MutualInv
<1>3. ASSUME NEW d \in Devices, NEW p \in Others(d), Pairs(d, p) \/ Connect(d, p)
      PROVE  MutualInv'
  <2>1. PICK how \in {"qr", "code", "connect"}, proof \in 0 .. MaxCodes,
           who \in SUBSET Devices :
          /\ Dial(d, p, how, proof, who)
          /\ proof # 0 <=> how = "qr"
          /\ how = "connect" => p \in trusted[d]
    BY <1>3, DialIs
  <2>2. Len(conn') = Len(conn) + 1
    <3>1. [from |-> d, to |-> p, how |-> how, proof |-> proof] \in Dialed
      BY DEF Dialed, Others
    <3> QED BY <1>0, <2>1, <3>1, AppendProperties DEF Dial
  <2>3. CASE Len(conn) = 0
    BY <1>1, <2>1, <2>2, <2>3, FirstDial DEF MutualInv
  <2>4. CASE Len(conn) # 0
    BY <1>0, <2>2, <2>4 DEF MutualInv
  <2> QED BY <2>3, <2>4
<1>4. ASSUME conn' = conn, NEW d \in Devices, NEW p \in Others(d), Ticks(d, p)
      PROVE  MutualInv'
  <2>1. pairing[d][p] # NoPairing /\ p \in Devices
    BY <1>4, TickKeeps DEF Others
  <2>2. pairing[d][p].conn \in DOMAIN conn /\ IsEnd(pairing[d][p].conn, d)
        /\ Peer(pairing[d][p].conn, d) = p
    BY <2>1, PairingIs
  <2>3. DOMAIN conn = 1 .. Len(conn)
    BY ConnsAre DEF PairInv
  <2>4. Len(conn) # 0
    BY <2>2, <2>3
  <2>5. CASE Len(conn) = 1
    <3>1. pairing[d][p].conn = 1
      BY <2>2, <2>3, <2>5
    <3>2. Ends(d, p)
      BY <2>2, <3>1 DEF IsEnd, Peer, Ends
    <3>3. One'
      BY <1>1, <1>4, <2>1, <2>5, <3>2, ActsKept
    <3> QED BY <1>4, <2>5, <3>3 DEF MutualInv
  <2>6. CASE Len(conn) # 1
    BY <1>4, <2>4, <2>6 DEF MutualInv
  <2> QED BY <2>5, <2>6
<1>5. ASSUME conn' = conn, NEW c \in DOMAIN conn, NEW d \in Devices, Handle(c, d)
      PROVE  MutualInv'
  <2>1. DOMAIN conn = 1 .. Len(conn) /\ IsEnd(c, d) /\ Peer(c, d) \in Devices
    BY <1>5, ConnsAre, PeerIs DEF PairInv, Handle, IsEnd
  <2>2. Len(conn) # 0
    BY <1>0, <2>1
  <2>3. CASE Len(conn) = 1
    <3>1. c = 1
      BY <2>1, <2>3
    <3>2. Ends(d, Peer(1, d)) /\ Handles(d) /\ Peer(1, d) \in Devices
      BY <1>5, <2>1, <3>1 DEF IsEnd, Peer, Ends, Handle, Handles
    <3>3. One'
      BY <1>1, <1>5, <2>3, <3>2, ActsKept
    <3> QED BY <1>5, <2>3, <3>3 DEF MutualInv
  <2>4. CASE Len(conn) # 1
    BY <1>5, <2>2, <2>4 DEF MutualInv
  <2> QED BY <2>3, <2>4
<1> QED BY <1>2, <1>3, <1>4, <1>5, StepIs

\* Trust that goes both ways from the beginning.
BothWays == \A t \in StartTrust : \A d, p \in Devices : p \in t[d] <=> d \in t[p]

\* It holds in the beginning.
LEMMA MutualInit == ASSUME BothWays, Init PROVE MutualInv
<1>1. Len(conn) = 0
  BY DEF Init
<1>2. None
  BY DEF Init, BothWays, None, Alike
<1> QED BY <1>1, <1>2 DEF MutualInv

\* When nothing is under way, both ends trust or none does.
LEMMA MutualHolds == PairInv /\ MutualInv => Mutual
<1> SUFFICES ASSUME PairInv, MutualInv, Quiet, ~disturbed, Len(conn) = 1,
                    NEW d \in Devices, NEW p \in Devices
             PROVE  Alike(d, p)
  BY DEF Mutual, Alike
<1>1. One
  BY DEF MutualInv
<1>2. CASE ~Ends(d, p)
  BY <1>1, <1>2 DEF One
<1>3. CASE Ends(d, p) /\ Known(d, p)
  BY <1>3 DEF Known, Idle, Alike
<1>4. CASE Ends(d, p) /\ Between(d, p)
  <2>1. 1 \in Conns
    BY <1>4, EndsAre
  <2>2. ~Has(queue[1][d], "Yes") /\ ~Has(queue[1][p], "Yes")
    BY <2>1 DEF Quiet, Has
  <2> QED BY <1>4, <2>2 DEF Between, CrossOK, Alike
<1> QED BY <1>1, <1>2, <1>3, <1>4 DEF One

\* A pairing that nothing disturbs ends with both devices trusting each other
\* or with neither, whatever the order of the answers (confirm_pairing,
\* on_control, complete_pairing), if trust went both ways before it.
THEOREM PairingIsMutual == ASSUME BothWays PROVE Spec => []Mutual
<1>1. Init => MutualInv
  BY MutualInit
<1>2. PairInv /\ PairInv' /\ MutualInv /\ [Next]_vars => MutualInv'
  BY MutualNext
<1>3. Spec => [](PairInv /\ MutualInv)
  BY <1>1, <1>2, InitInv, NextInv, PTL DEF Spec
<1> QED BY <1>3, MutualHolds, PTL

==============================================================================
