------------------------------ MODULE Pairing ------------------------------
(***************************************************************************)
(* How devices come to trust each other: the pairing flow of sp-engine     *)
(* (actor.rs) with the primitives of sp-security.                          *)
(*                                                                         *)
(* A device in pairing mode shows a code.  Another one scans it (QR), or   *)
(* dials and both users compare six digits (code pairing).  Connections    *)
(* begin here when the Hello exchange is over (module Connections); what   *)
(* the session task of an end queues for its actor arrives in order.       *)
(***************************************************************************)
EXTENDS Naturals, Sequences, FiniteSets, SequencesExt

CONSTANTS
  Devices,
  NoConn,      \* no connection
  StartTrust,  \* the trust stores to start from
  Methods,     \* how users pair: "qr", "code"
  UserDoes,    \* what else users do: "stop", "reject", "forget", "connect"
  MaxDials,    \* bound on connections
  MaxCodes,    \* bound on codes shown
  MaxFaults    \* bound on lost connections, refusals and failed writes

ASSUME StartTrustAssumption ==
  /\ StartTrust \subseteq [Devices -> SUBSET Devices]
  /\ \A t \in StartTrust : \A d \in Devices : d \notin t[d]
ASSUME MethodsAssumption == Methods \subseteq {"qr", "code"}
ASSUME BoundsAssumption == {MaxDials, MaxCodes, MaxFaults} \subseteq Nat

Conns == 1 .. MaxDials
Others(d) == Devices \ {d}
ASSUME NoConnAssumption == NoConn \notin Conns

VARIABLES
  trusted,    \* trusted[d]: the peers in d's trust store
  code,       \* code[d]: the code d shows, 0 out of pairing mode
  lapsed,     \* lapsed[d]: that code is over five minutes old
  owner,      \* owner[n]: the device that showed code n
  conn,       \* conn[c]: connection c, in the order they were dialed
  queue,      \* queue[c][d]: events of c that d's actor has not handled
  serving,    \* serving[c]: the ends whose session task serves the peer
  unpaired,   \* unpaired[d]: connections that may still ask to pair
  pairing,    \* pairing[d][p]: the pending pairing of d with p
  session,    \* session[d][p]: the connection of d's session with p
  agreed,     \* history: agreed[c], the devices whose user agreed on c
  accepted,   \* history: accepted[n], how often code n was accepted
  disturbed,  \* history: a connection, a timer or a user interfered
  faults

netVars == <<queue, serving>>
vars == <<trusted, code, lapsed, owner, conn, queue, serving, unpaired,
          pairing, session, agreed, accepted, disturbed, faults>>

Events == {"Established", "PairRequest", "Yes", "No", "Ticket", "Closed"}

\* proof: the number of the scanned code, 0 for none.
Dialed == [from: Devices, to: Devices, how: {"qr", "code", "connect"},
           proof: 0 .. MaxCodes]
Pending == [conn: Conns, local: BOOLEAN, peer: BOOLEAN, scanner: BOOLEAN]
NoPairing == [conn |-> NoConn, local |-> FALSE, peer |-> FALSE,
              scanner |-> FALSE]

Peer(c, d) == IF conn[c].from = d THEN conn[c].to ELSE conn[c].from

----------------------------------------------------------------------------
(* Session tasks. *)

Net == [queue |-> queue, serving |-> serving]
NetIs(n) == queue' = n.queue /\ serving' = n.serving

\* SessionCmd::Send(m) on d's end of c.
Send(n, c, d, m) ==
  IF n.serving[c] = {d, Peer(c, d)}
  THEN [n EXCEPT !.queue[c][Peer(c, d)] = Append(@, m)]
  ELSE n

\* SessionCmd::Close on an end of c: behind what was sent, both ends end.
Close(n, c) ==
  IF c = NoConn THEN n
  ELSE [queue |-> [n.queue EXCEPT ![c] = [d \in Devices |->
                     IF d \in n.serving[c] THEN Append(@[d], "Closed")
                                           ELSE @[d]]],
        serving |-> [n.serving EXCEPT ![c] = {}]]

\* The event of c at the head of d's queue is handled.
Next1(c, d, e) == queue[c][d] # <<>> /\ Head(queue[c][d]) = e
Taken(c, d) == [Net EXCEPT !.queue[c][d] = Tail(@)]

----------------------------------------------------------------------------
(* Trust. *)

\* promote_session, which of two connections stays is the tie-break of module
\* Connections.  The new session sends its peer a SessionTicket.
PromoteSession(d, p, c, n) ==
  LET old == session[d][p] IN
  \/ /\ session' = [session EXCEPT ![d][p] = c]
     /\ NetIs(Send(Close(n, old), c, d, "Ticket"))
  \/ /\ old # NoConn
     /\ NetIs(Close(n, c))
     /\ UNCHANGED session

\* How many events of the queue q an end sees whatever happens: that of the
\* handshake it finished.
Begun(q) == IF q # <<>> /\ Head(q) = "Established" THEN 1 ELSE 0

\* Bug: the session task goes on although nobody can command it.
AbortedNever(n, c, d) == {n}

\* d drops the sender of commands of its end of c: the session task closes the
\* connection at once, and what was sent last may be lost with it.
Aborted(n, c, d) ==
  LET p == Peer(c, d)
      q == n.queue[c][p] IN
  IF n.serving[c] = {} THEN {n}
  ELSE {Close([n EXCEPT !.queue[c][p] = SubSeq(q, 1, k)], c) :
          k \in Begun(q) .. Len(q)}

\* complete_pairing.  A trust store that cannot be written still holds the
\* device in memory, and the pairing is dropped with its sender of commands.
CompletePairing(d, p, c, n) ==
  /\ trusted' = [trusted EXCEPT ![d] = @ \cup {p}]
  /\ \/ PromoteSession(d, p, c, n) /\ UNCHANGED <<disturbed, faults>>
     \/ /\ faults < MaxFaults /\ faults' = faults + 1
        /\ \E m \in Aborted(n, c, d) : NetIs(m)
        /\ disturbed' = TRUE
        /\ UNCHANGED session

\* Bug: what was answered stays for the next pairing.
DropPairingConn(d, p) == [pairing EXCEPT ![d][p].conn = NoConn]

\* pairings.remove(&peer).
DropPairing(d, p) == [pairing EXCEPT ![d][p] = NoPairing]

\* Bug: the connection of the pairing that is replaced stays open.
BeginPairingKeepsOld(d, p, c, scanner, n) ==
  /\ pairing' = [pairing EXCEPT ![d][p] =
                   [conn |-> c, local |-> FALSE, peer |-> FALSE,
                    scanner |-> scanner]]
  /\ NetIs(n)

\* begin_pairing replaces the pairing the device already has with the peer.
BeginPairing(d, p, c, scanner, n) ==
  /\ pairing' = [pairing EXCEPT ![d][p] =
                   [conn |-> c, local |-> FALSE, peer |-> FALSE,
                    scanner |-> scanner]]
  /\ NetIs(Close(n, pairing[d][p].conn))

----------------------------------------------------------------------------
(* Users. *)

\* Command::StartPairing: a new code on the screen.
StartPairing(d) ==
  /\ Len(owner) < MaxCodes
  /\ owner' = Append(owner, d)
  /\ code' = [code EXCEPT ![d] = Len(owner) + 1]
  /\ lapsed' = [lapsed EXCEPT ![d] = FALSE]
  /\ UNCHANGED <<trusted, conn, netVars, unpaired, pairing, session, agreed,
                 accepted, disturbed, faults>>

\* Command::StopPairing.
StopPairing(d) ==
  /\ "stop" \in UserDoes /\ code[d] # 0
  /\ code' = [code EXCEPT ![d] = 0]
  /\ lapsed' = [lapsed EXCEPT ![d] = FALSE]
  /\ UNCHANGED <<trusted, owner, conn, netVars, unpaired, pairing, session,
                 agreed, accepted, disturbed, faults>>

\* A dial succeeds and both ends are established; the dialer's PairRequest
\* follows its Hello.
Dial(d, p, how, proof, who) ==
  LET c == Len(conn) + 1 IN
  /\ c \in Conns
  /\ conn' = Append(conn, [from |-> d, to |-> p, how |-> how,
                           proof |-> proof])
  /\ queue' = [queue EXCEPT ![c] = [e \in Devices |->
                 IF e = d THEN <<"Established">>
                 ELSE IF e # p THEN <<>>
                 ELSE IF how = "connect" THEN <<"Established">>
                 ELSE <<"Established", "PairRequest">>]]
  /\ serving' = [serving EXCEPT ![c] = {d, p}]
  /\ agreed' = [agreed EXCEPT ![c] = who]
  /\ UNCHANGED <<trusted, code, lapsed, owner, unpaired, pairing, session,
                 accepted, disturbed, faults>>

\* Command::PairWithQr, of a code shown now or before.
PairWithQr(d, p, n) ==
  "qr" \in Methods /\ owner[n] = p /\ Dial(d, p, "qr", n, {d})

\* Command::PairWithDevice or PairWithAddress.
PairWithDevice(d, p) == "code" \in Methods /\ Dial(d, p, "code", 0, {})

\* A trusted device is dialed, by its user or by tick.
Connect(d, p) ==
  /\ "connect" \in UserDoes /\ p \in trusted[d] /\ session[d][p] = NoConn
  /\ Dial(d, p, "connect", 0, {})

\* The user answers the prompt: confirm_pairing.
ConfirmPairing(d, p) ==
  LET x == pairing[d][p]
      n == Send(Net, x.conn, d, "Yes") IN
  /\ x # NoPairing /\ ~x.scanner /\ ~x.local
  /\ agreed' = [agreed EXCEPT ![x.conn] = @ \cup {d}]
  /\ \/ /\ x.peer
        /\ pairing' = DropPairing(d, p)
        /\ CompletePairing(d, p, x.conn, n)
     \/ /\ ~x.peer
        /\ pairing' = [pairing EXCEPT ![d][p].local = TRUE]
        /\ NetIs(n)
        /\ UNCHANGED <<trusted, session, disturbed, faults>>
  /\ UNCHANGED <<code, lapsed, owner, conn, unpaired, accepted>>

RejectPairing(d, p) ==
  LET x == pairing[d][p] IN
  /\ "reject" \in UserDoes
  /\ x # NoPairing /\ ~x.scanner /\ ~x.local
  /\ pairing' = DropPairing(d, p)
  /\ NetIs(Close(Send(Net, x.conn, d, "No"), x.conn))
  /\ UNCHANGED <<trusted, code, lapsed, owner, conn, unpaired, session, agreed,
                 accepted, disturbed, faults>>

\* Command::ForgetDevice.
ForgetDevice(d, p) ==
  /\ "forget" \in UserDoes /\ p \in trusted[d]
  /\ trusted' = [trusted EXCEPT ![d] = @ \ {p}]
  /\ session' = [session EXCEPT ![d][p] = NoConn]
  /\ NetIs(Close(Net, session[d][p]))
  /\ disturbed' = TRUE
  /\ UNCHANGED <<code, lapsed, owner, conn, unpaired, pairing, agreed, accepted,
                 faults>>

----------------------------------------------------------------------------
(* Events of connections. *)

\* on_established.
OnEstablished(c, d) ==
  LET p == Peer(c, d)
      n == Taken(c, d) IN
  /\ Next1(c, d, "Established")
  /\ \/ /\ p \in trusted[d]
        /\ PromoteSession(d, p, c, n)
        /\ UNCHANGED <<unpaired, pairing, disturbed, faults>>
     \/ /\ p \notin trusted[d] /\ conn[c].from = d /\ conn[c].how = "connect"
        /\ NetIs(Close(n, c))
        /\ UNCHANGED <<unpaired, pairing, session, disturbed, faults>>
     \/ /\ p \notin trusted[d] /\ conn[c].from = d /\ conn[c].how # "connect"
        /\ BeginPairing(d, p, c, conn[c].how = "qr", n)
        /\ UNCHANGED <<unpaired, session, disturbed, faults>>
     \/ /\ p \notin trusted[d] /\ conn[c].from # d
        /\ unpaired' = [unpaired EXCEPT ![d] = @ \cup {c}]
        /\ NetIs(n)
        /\ UNCHANGED <<pairing, session, disturbed, faults>>
     \/ /\ p \notin trusted[d] /\ conn[c].from # d   \* pairing_limiter
        /\ faults < MaxFaults /\ faults' = faults + 1
        /\ NetIs(Close(n, c)) /\ disturbed' = TRUE
        /\ UNCHANGED <<unpaired, pairing, session>>
  /\ UNCHANGED <<trusted, code, lapsed, owner, conn, agreed, accepted>>

\* Bug: the code stays on the screen.
SpentStays(d) == UNCHANGED <<code, lapsed>>

\* "Single-use QR secret."
Spent(d) == /\ code' = [code EXCEPT ![d] = 0]
            /\ lapsed' = [lapsed EXCEPT ![d] = FALSE]

\* Bug: the displayer does not say that it accepted.
AnswerNobody(n, c, d) == n

\* The displayer's PairResult.
Answer(n, c, d) == Send(n, c, d, "Yes")

\* on_pair_request for a connection that may ask.
OnPairRequest(c, d) ==
  LET p == Peer(c, d)
      n == Taken(c, d)
      proof == conn[c].proof IN
  /\ Next1(c, d, "PairRequest") /\ c \in unpaired[d]
  /\ unpaired' = [unpaired EXCEPT ![d] = @ \ {c}]
  /\ \/ /\ proof # 0 /\ proof = code[d] /\ ~lapsed[d]
        /\ Spent(d)
        /\ accepted' = [accepted EXCEPT ![proof] = @ + 1]
        /\ agreed' = [agreed EXCEPT ![c] = @ \cup {d}]
        /\ pairing' = DropPairing(d, p)
        /\ CompletePairing(d, p, c,
                           Answer(Close(n, pairing[d][p].conn), c, d))
     \/ /\ proof = 0 /\ code[d] # 0
        /\ BeginPairing(d, p, c, FALSE, n)
        /\ UNCHANGED <<trusted, code, lapsed, session, agreed, accepted,
                       disturbed, faults>>
     \/ /\ code[d] = 0 \/ (proof # 0 /\ (proof # code[d] \/ lapsed[d]))
        /\ NetIs(Close(n, c))
        /\ UNCHANGED <<trusted, code, lapsed, pairing, session, agreed,
                       accepted, disturbed, faults>>
  /\ UNCHANGED <<owner, conn>>

\* Bug: the peer's answer is enough.
CompletesUnasked(x) == TRUE

\* Whether the peer's confirmation completes the pairing.
Completes(x) == x.scanner \/ x.local

\* on_control for the peer's PairResult.
OnPairResult(c, d) ==
  LET p == Peer(c, d)
      n == Taken(c, d)
      x == pairing[d][p] IN
  /\ Next1(c, d, "Yes") \/ Next1(c, d, "No")
  /\ c \notin unpaired[d] /\ x.conn = c
  /\ \/ /\ Next1(c, d, "No")
        /\ pairing' = DropPairing(d, p)
        /\ NetIs(Close(n, c))
        /\ UNCHANGED <<trusted, session, disturbed, faults>>
     \/ /\ Next1(c, d, "Yes") /\ Completes(x)
        /\ pairing' = DropPairing(d, p)
        /\ CompletePairing(d, p, c,
                           IF x.scanner THEN Send(n, c, d, "Yes") ELSE n)
     \/ /\ Next1(c, d, "Yes") /\ ~Completes(x)
        /\ pairing' = [pairing EXCEPT ![d][p].peer = TRUE]
        /\ NetIs(n)
        /\ UNCHANGED <<trusted, session, disturbed, faults>>
  /\ UNCHANGED <<code, lapsed, owner, conn, unpaired, agreed, accepted>>

\* on_control for the rest: a connection that may only ask to pair is ended,
\* one in pairing or in a session has no use for the message.
OnOther(c, d) ==
  LET n == Taken(c, d)
      asks == c \in unpaired[d] IN
  /\ \E e \in {"PairRequest", "Yes", "No", "Ticket"} :
       /\ Next1(c, d, e)
       /\ IF asks THEN e # "PairRequest"
          ELSE e \in {"PairRequest", "Ticket"}
               \/ pairing[d][Peer(c, d)].conn # c
  /\ unpaired' = [unpaired EXCEPT ![d] = @ \ {c}]
  /\ NetIs(IF asks THEN Close(n, c) ELSE n)
  /\ UNCHANGED <<trusted, code, lapsed, owner, conn, pairing, session, agreed,
                 accepted, disturbed, faults>>

\* on_closed.
OnClosed(c, d) ==
  LET p == Peer(c, d) IN
  /\ Next1(c, d, "Closed")
  /\ NetIs(Taken(c, d))
  /\ unpaired' = [unpaired EXCEPT ![d] = @ \ {c}]
  /\ pairing' = IF pairing[d][p].conn = c
                THEN DropPairing(d, p) ELSE pairing
  /\ session' = IF session[d][p] = c
                THEN [session EXCEPT ![d][p] = NoConn] ELSE session
  /\ UNCHANGED <<trusted, code, lapsed, owner, conn, agreed, accepted, disturbed,
                 faults>>

----------------------------------------------------------------------------
(* Timers and the network. *)

\* tick: no PairRequest for thirty seconds.
UnpairedExpires(c, d) ==
  /\ c \in unpaired[d]
  /\ unpaired' = [unpaired EXCEPT ![d] = @ \ {c}]
  /\ NetIs(Close(Net, c))
  /\ disturbed' = TRUE
  /\ UNCHANGED <<trusted, code, lapsed, owner, conn, pairing, session, agreed,
                 accepted, faults>>

\* Every event was handled and every prompt answered.
Settled ==
  /\ \A c \in Conns : \A d \in Devices : queue[c][d] = <<>>
  /\ \A d, p \in Devices :
       pairing[d][p] = NoPairing \/ pairing[d][p].local
                                 \/ pairing[d][p].scanner

\* tick: a pairing is two minutes old.  That disturbs a pairing in which
\* somebody still had something to do.
PairingExpires(d, p) ==
  /\ pairing[d][p] # NoPairing
  /\ pairing' = DropPairing(d, p)
  /\ NetIs(Close(Net, pairing[d][p].conn))
  /\ disturbed' = (disturbed \/ ~Settled)
  /\ UNCHANGED <<trusted, code, lapsed, owner, conn, unpaired, session, agreed,
                 accepted, faults>>

\* The code is five minutes old; tick takes it off the screen a little later.
CodeLapses(d) ==
  /\ code[d] # 0
  /\ \/ ~lapsed[d] /\ lapsed' = [lapsed EXCEPT ![d] = TRUE] /\ UNCHANGED code
     \/ lapsed[d] /\ Spent(d)
  /\ disturbed' = TRUE
  /\ UNCHANGED <<trusted, owner, conn, netVars, unpaired, pairing, session,
                 agreed, accepted, faults>>

\* What an end gets to see of its queue q when the network fails: some of it,
\* and nothing at all of a connection whose handshake it did not finish.
Remains(q) ==
  {SubSeq(q, 1, k) \o <<"Closed">> : k \in Begun(q) .. Len(q)}
    \cup (IF Begun(q) = 1 THEN {<<>>} ELSE {})

ConnectionLost(c) ==
  LET d == conn[c].from
      p == conn[c].to IN
  /\ serving[c] # {}
  /\ faults < MaxFaults /\ faults' = faults + 1
  /\ \E q \in Remains(queue[c][d]) : \E r \in Remains(queue[c][p]) :
       queue' = [queue EXCEPT ![c][d] = q, ![c][p] = r]
  /\ serving' = [serving EXCEPT ![c] = {}]
  /\ disturbed' = TRUE
  /\ UNCHANGED <<trusted, code, lapsed, owner, conn, unpaired, pairing, session,
                 agreed, accepted>>

----------------------------------------------------------------------------
Init ==
  /\ trusted \in StartTrust
  /\ code = [d \in Devices |-> 0]
  /\ lapsed = [d \in Devices |-> FALSE]
  /\ owner = <<>> /\ conn = <<>>
  /\ queue = [c \in Conns |-> [d \in Devices |-> <<>>]]
  /\ serving = [c \in Conns |-> {}]
  /\ unpaired = [d \in Devices |-> {}]
  /\ pairing = [d \in Devices |-> [p \in Devices |-> NoPairing]]
  /\ session = [d \in Devices |-> [p \in Devices |-> NoConn]]
  /\ agreed = [c \in Conns |-> {}]
  /\ accepted = [n \in 1 .. MaxCodes |-> 0]
  /\ disturbed = FALSE /\ faults = 0

Pairs(d, p) ==
  \/ \E n \in DOMAIN owner : PairWithQr(d, p, n)
  \/ PairWithDevice(d, p)

UserStep(d) ==
  \/ StartPairing(d) \/ StopPairing(d)
  \/ \E p \in Others(d) : \/ Pairs(d, p) \/ Connect(d, p)
                          \/ ConfirmPairing(d, p) \/ RejectPairing(d, p)
                          \/ ForgetDevice(d, p)

Handle(c, d) ==
  /\ d \in {conn[c].from, conn[c].to}
  /\ \/ OnEstablished(c, d) \/ OnPairRequest(c, d) \/ OnPairResult(c, d)
     \/ OnOther(c, d) \/ OnClosed(c, d)

TimerStep(d) ==
  \/ CodeLapses(d)
  \/ \E p \in Others(d) : PairingExpires(d, p)
  \/ \E c \in unpaired[d] : UnpairedExpires(c, d)

Next ==
  \/ \E d \in Devices : UserStep(d) \/ TimerStep(d)
  \/ \E c \in DOMAIN conn :
       ConnectionLost(c) \/ \E d \in Devices : Handle(c, d)

Spec == Init /\ [][Next]_vars

(***************************************************************************)
(* Fairness: actors handle what is queued, users accept the prompts they   *)
(* see, and tick ends the pairings that get no further.                    *)
(***************************************************************************)
Fairness ==
  /\ \A c \in Conns : \A d \in Devices :
       WF_vars(c \in DOMAIN conn /\ Handle(c, d) /\ UNCHANGED faults)
  /\ \A d \in Devices : \A p \in Others(d) :
       /\ WF_vars(ConfirmPairing(d, p) /\ UNCHANGED faults)
       /\ WF_vars(PairingExpires(d, p))

FairSpec == Spec /\ Fairness

----------------------------------------------------------------------------
(* Properties. *)

TypeOK ==
  /\ trusted \in [Devices -> SUBSET Devices]
  /\ code \in [Devices -> 0 .. MaxCodes] /\ lapsed \in [Devices -> BOOLEAN]
  /\ owner \in Seq(Devices) /\ conn \in Seq(Dialed)
  /\ queue \in [Conns -> [Devices -> Seq(Events)]]
  /\ serving \in [Conns -> SUBSET Devices]
  /\ unpaired \in [Devices -> SUBSET Conns]
  /\ pairing \in [Devices -> [Devices -> Pending \cup {NoPairing}]]
  /\ session \in [Devices -> [Devices -> Conns \cup {NoConn}]]
  /\ agreed \in [Conns -> SUBSET Devices]
  /\ accepted \in [1 .. MaxCodes -> Nat]
  /\ disturbed \in BOOLEAN /\ faults \in Nat

\* A device trusts another one only after both users agreed on one connection:
\* each confirmed its digits, or one scanned the code the other one showed
\* (complete_pairing is reached from four places).
Consented ==
  [][\A d \in Devices : \A p \in trusted'[d] \ trusted[d] :
       \E c \in DOMAIN conn : agreed'[c] = {d, p}]_vars

\* "Single-use QR secret": a code is accepted once, however often it was
\* scanned before (on_pair_request).
SingleUse == \A n \in 1 .. MaxCodes : accepted[n] <= 1

\* Nothing of a pairing is under way.
Quiet ==
  /\ \A c \in Conns : \A d \in Devices : queue[c][d] = <<>>
  /\ \A d \in Devices :
       unpaired[d] = {} /\ \A p \in Devices : pairing[d][p] = NoPairing

\* A pairing that neither the network nor a timer disturbs ends with both
\* devices trusting each other or with neither, in whatever order the two
\* users answer (confirm_pairing, on_control).
Mutual ==
  Quiet /\ ~disturbed /\ Len(conn) = 1 =>
    \A d, p \in Devices : p \in trusted[d] <=> d \in trusted[p]

\* Connections that are served belong to somebody, whatever was lost, refused
\* or could not be written: each end holds it as its session, as a pairing or
\* as one that may still ask to pair, or is about to take it up (begin_pairing
\* replaces a pairing, complete_pairing may fail with the trust store).
NoOrphans ==
  \A c \in DOMAIN conn : \A d \in serving[c] :
    \/ queue[c][d] # <<>> /\ Head(queue[c][d]) = "Established"
    \/ c \in unpaired[d] \/ pairing[d][Peer(c, d)].conn = c
    \/ session[d][Peer(c, d)] = c

\* d dialed p to pair while p showed a code, and nothing got in the way.
Attempted(d, p) ==
  /\ code[p] # 0 /\ ~lapsed[p]
  /\ \E c \in DOMAIN conn : /\ conn[c].from = d /\ conn[c].to = p
                            /\ conn[c].how # "connect"

\* "The device was removed or blocked.  Pair it again": when both users pair
\* and accept, the devices trust each other in the end.
PairsAgain ==
  \A d \in Devices : \A p \in Others(d) :
    Attempted(d, p) ~>
      (p \in trusted[d] /\ d \in trusted[p]) \/ disturbed
=============================================================================
