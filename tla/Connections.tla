---------------------------- MODULE Connections ----------------------------
(***************************************************************************)
(* Who is connected to whom: the session manager of sp-engine (actor.rs    *)
(* with session.rs), for any number of devices that run one engine each.   *)
(*                                                                         *)
(* An engine is one actor task.  It reacts to user commands, to events its *)
(* dial and session tasks queue for it, and to a one second tick.  Queues  *)
(* are unbounded and tasks are independent, so what is queued for one      *)
(* connection can be handled before or after what is queued for another:   *)
(* the state of each end of a connection (ends) says what its task does    *)
(* and which event of it the actor has not handled yet.                    *)
(*                                                                         *)
(* Routes (module Routes) and the pairing flow (module Pairing) are left   *)
(* out: a pair of devices starts here with the trust entries it has.       *)
(***************************************************************************)
EXTENDS Naturals, FiniteSets

LOCAL INSTANCE TLC

CONSTANTS
  Devices,      \* device ids: their order decides the tie-break
  Conns,        \* connections alive at a time; a slot is reused when free
  NoConn,       \* no connection
  AutoDialers,  \* devices whose setting auto_connect_trusted is on
  MaxFaults,    \* bound on what the network and crashes do
  MaxCommands   \* bound on what users do

ASSUME DevicesAssumption == Devices \subseteq Nat \ {0}
ASSUME ConnsAssumption == NoConn \notin Conns
ASSUME AutoDialersAssumption == AutoDialers \subseteq Devices
ASSUME BoundsAssumption == MaxFaults \in Nat /\ MaxCommands \in Nat

VARIABLES
  trusted,    \* trusted[d]: peers in d's trust store
  blocked,    \* blocked[d]: trusted peers d blocks
  auto,       \* auto[d]: trusted peers with auto_connect
  addr,       \* addr[d]: peers d has a candidate address for
  inFlight,   \* inFlight[d]: peers whose dial state says in_flight
  waiting,    \* waiting[d]: peers whose next_attempt is in the future
  task,       \* task[d][p]: the dial an abort handle is held for
  targets,    \* targets[d]: dial_targets, connections dialed by d
  session,    \* session[d][p]: the connection of d's session with p
  fresh,      \* fresh[d]: peers whose session is under five seconds old
  index,      \* index[d]: conn_index, connections with a session of d
  unpaired,   \* unpaired[d]: connections of untrusted peers d keeps open
  conn,       \* conn[c]: the transport connection in slot c
  ends,       \* ends[c][d]: d's end of connection c
  faults,     \* faults so far
  commands    \* user commands so far

trustVars == <<trusted, blocked, auto>>
dialVars  == <<inFlight, waiting, task, targets>>
sessVars  == <<session, fresh, index, unpaired>>
bounds    == <<faults, commands>>
vars == <<trusted, blocked, auto, addr, inFlight, waiting, task, targets,
          session, fresh, index, unpaired, conn, ends, faults, commands>>

(***************************************************************************)
(* The life of one end of a connection.                                    *)
(*   none       no end here: free, aborted or finished                     *)
(*   racing     the dial task walks the candidate addresses                *)
(*   dialed     Internal::Dialed is queued                                 *)
(*   failed     Internal::DialFailed is queued                             *)
(*   incoming   Internal::Incoming is queued                               *)
(*   hello      session::run exchanges Hello                               *)
(*   hsfail     SessionEvent::HandshakeFailed is queued                    *)
(*   est        Established is queued, the session task serves the peer    *)
(*   estclosed  Established and then Closed are queued                     *)
(*   open       Established was handled, the session task serves the peer  *)
(*   closed     Closed is queued                                           *)
(***************************************************************************)
EndStates == {"none", "racing", "dialed", "failed", "incoming", "hello",
              "hsfail", "est", "estclosed", "open", "closed"}

\* The stop reasons a whole connection ends with.
Reasons == {"UserStopped", "Superseded", "PermissionDenied",
            "PermissionRevoked", "NetworkLost", "Timeout", "RateLimited"}

\* reason: the Close command waiting for the session task while it serves
\* the peer, then the reason in its Closed event.
\* bye: the reason in a Goodbye on its way to this end.
End == [st: EndStates, reason: Reasons \cup {"none"},
        bye: Reasons \cup {"none"}]
NoEnd == [st |-> "none", reason |-> "none", bye |-> "none"]

\* from dialed to; accepted: the transport handshake finished at the callee;
\* cut: the network lost it; hello: the ends whose Hello is on the stream;
\* ticket: the ends that made it their session and sent a SessionTicket.
NoDevice == 0
Connection == [from: Devices \cup {NoDevice}, to: Devices \cup {NoDevice},
               accepted: BOOLEAN, cut: BOOLEAN, hello: SUBSET Devices,
               ticket: SUBSET Devices]
Idle == [from |-> NoDevice, to |-> NoDevice, accepted |-> FALSE,
         cut |-> FALSE, hello |-> {}, ticket |-> {}]

Peer(c, d) == IF conn[c].from = d THEN conn[c].to ELSE conn[c].from
Free(c) == conn[c] = Idle

\* A connection none of whose ends is left gives its slot back.
Reclaim(cn, e) ==
  [c \in Conns |->
     IF \A d \in Devices : e[c][d].st = "none" THEN Idle ELSE cn[c]]

Over(e) == e.st \in {"none", "failed", "hsfail", "estclosed", "closed"}

\* The transport is gone: lost, or closed by an end that is over.
Dead(c) == \/ conn[c].cut
           \/ Over(ends[c][conn[c].from])
           \/ conn[c].accepted /\ Over(ends[c][conn[c].to])

----------------------------------------------------------------------------
(* What the actor does to the tasks of its connections. *)

\* SessionCmd::Close(r) to d's session task on c.  Of several the task sees
\* only the first; after the task ended the channel is closed.
Close(e, c, d, r) ==
  IF c # NoConn /\ e[c][d].st = "open" /\ e[c][d].reason = "none"
  THEN [e EXCEPT ![c][d].reason = r]
  ELSE e

\* AbortHandle::abort: a dial task that has sent its result is not affected.
Abort(e, c, d) ==
  IF c # NoConn /\ e[c][d].st = "racing" THEN [e EXCEPT ![c][d] = NoEnd] ELSE e

\* Bugs that the runs must notice: the flag, the targets or the other handles
\* are not handled as cancel_dial handles them.
CancelDialKeepsFlag(d, p) ==
  /\ inFlight' = inFlight
  /\ task' = [task EXCEPT ![d][p] = NoConn]
  /\ targets' = [targets EXCEPT ![d] = {c \in @ : Peer(c, d) # p}]
CancelDialKeepsTargets(d, p) ==
  /\ inFlight' = [inFlight EXCEPT ![d] = @ \ {p}]
  /\ task' = [task EXCEPT ![d][p] = NoConn]
  /\ targets' = targets
CancelDialDropsHandles(d, p) ==
  /\ inFlight' = [inFlight EXCEPT ![d] = @ \ {p}]
  /\ task' = [task EXCEPT ![d] = NoConn]
  /\ targets' = [targets EXCEPT ![d] = {c \in @ : Peer(c, d) # p}]

\* cancel_dial, but for the abort itself.
CancelDial(d, p) ==
  /\ inFlight' = [inFlight EXCEPT ![d] = @ \ {p}]
  /\ task' = [task EXCEPT ![d][p] = NoConn]
  /\ targets' = [targets EXCEPT ![d] = {c \in @ : Peer(c, d) # p}]

\* Bug: conn_index is forgotten.
DropSessionKeepsIndex(d, p) ==
  /\ session' = [session EXCEPT ![d][p] = NoConn]
  /\ fresh' = [fresh EXCEPT ![d] = @ \ {p}]
  /\ index' = index

\* d's session with p is over and every trace of it leaves the maps.
DropSession(d, p) ==
  /\ session' = [session EXCEPT ![d][p] = NoConn]
  /\ fresh' = [fresh EXCEPT ![d] = @ \ {p}]
  /\ index' = [index EXCEPT ![d] = @ \ {session[d][p]}]

----------------------------------------------------------------------------
(* Dialing. *)

\* The early returns of try_dial_trusted, but for next_attempt.
MayDial(d, p) ==
  /\ session[d][p] = NoConn
  /\ p \in trusted[d] /\ p \notin blocked[d]
  /\ p \notin inFlight[d]

\* The rest of try_dial_trusted and dial, with the wait it leaves behind.
Dial(d, p, wait) ==
  \/ /\ p \notin addr[d]                        \* no candidate: back off
     /\ waiting' = [waiting EXCEPT ![d] = wait \cup {p}]
     /\ UNCHANGED <<inFlight, task, targets, conn, ends>>
  \/ /\ p \in addr[d]
     /\ \E c \in Conns :
          /\ Free(c)
          /\ conn' = [conn EXCEPT ![c] = [from |-> d, to |-> p,
                        accepted |-> FALSE, cut |-> FALSE, hello |-> {},
                        ticket |-> {}]]
          /\ ends' = [ends EXCEPT ![c][d] = [NoEnd EXCEPT !.st = "racing"]]
          /\ task' = [task EXCEPT ![d][p] = c]
          /\ targets' = [targets EXCEPT ![d] = @ \cup {c}]
     /\ inFlight' = [inFlight EXCEPT ![d] = @ \cup {p}]
     /\ waiting' = [waiting EXCEPT ![d] = wait]

\* The last block of tick, for one of its candidates.
TickAutoConnect(d, p) ==
  /\ d \in AutoDialers
  /\ p \in auto[d] /\ p # d
  /\ MayDial(d, p) /\ p \notin waiting[d]
  /\ Dial(d, p, waiting[d])
  /\ UNCHANGED <<trustVars, addr, sessVars, bounds>>

\* next_attempt comes.
BackoffElapses(d, p) ==
  /\ p \in waiting[d]
  /\ waiting' = [waiting EXCEPT ![d] = @ \ {p}]
  /\ UNCHANGED <<trustVars, addr, inFlight, task, targets, sessVars, conn,
                 ends, bounds>>

\* The dial task reaches the peer and queues Dialed; its handle is spent.
RaceWins(c) ==
  LET d == conn[c].from IN
  /\ ~Free(c)
  /\ ends[c][d].st = "racing" /\ ~conn[c].cut
  /\ ends' = [ends EXCEPT ![c][d].st = "dialed"]
  /\ task' = [task EXCEPT ![d] =
                [p \in Devices |-> IF @[p] = c THEN NoConn ELSE @[p]]]
  /\ UNCHANGED <<trustVars, addr, inFlight, waiting, targets, sessVars, conn,
                 bounds>>

\* No candidate answers in time: the task queues DialFailed.
RaceFails(c) ==
  LET d == conn[c].from IN
  /\ ~Free(c)
  /\ ends[c][d].st = "racing"
  /\ conn[c].cut \/ faults < MaxFaults
  /\ faults' = IF conn[c].cut THEN faults ELSE faults + 1
  /\ ends' = [ends EXCEPT ![c][d].st = "failed"]
  /\ task' = [task EXCEPT ![d] =
                [p \in Devices |-> IF @[p] = c THEN NoConn ELSE @[p]]]
  /\ UNCHANGED <<trustVars, addr, inFlight, waiting, targets, sessVars, conn,
                 commands>>

\* Internal::DialFailed: the target's dial state is freed whichever dial it
\* is for.  The dial was for a trusted device; a dial state removed since is
\* created again.
OnDialFailed(c) ==
  LET d == conn[c].from
      p == conn[c].to IN
  /\ ~Free(c)
  /\ ends[c][d].st = "failed"
  /\ ends' = [ends EXCEPT ![c][d] = NoEnd]
  /\ targets' = [targets EXCEPT ![d] = @ \ {c}]
  /\ IF p \in trusted[d]
     THEN /\ inFlight' = [inFlight EXCEPT ![d] = @ \ {p}]
          /\ task' = [task EXCEPT ![d][p] = NoConn]
          /\ waiting' = [waiting EXCEPT ![d] = @ \cup {p}]
     ELSE UNCHANGED <<inFlight, task, waiting>>
  /\ conn' = Reclaim(conn, ends')
  /\ UNCHANGED <<trustVars, addr, sessVars, bounds>>

----------------------------------------------------------------------------
(* session::run: the handshake and the end of a session task. *)

\* The callee's listener finishes the transport handshake, before or after
\* the dialer does, and queues Incoming.
Accept(c) ==
  /\ ~Free(c) /\ ~conn[c].accepted /\ ~Dead(c)
  /\ conn' = [conn EXCEPT ![c].accepted = TRUE]
  /\ ends' = [ends EXCEPT ![c][conn[c].to].st = "incoming"]
  /\ UNCHANGED <<trustVars, addr, dialVars, sessVars, bounds>>

\* Internal::Dialed: session::run starts; the dialing end speaks first.
OnDialed(c) ==
  LET d == conn[c].from IN
  /\ ~Free(c)
  /\ ends[c][d].st = "dialed"
  /\ ends' = [ends EXCEPT ![c][d].st = "hello"]
  /\ conn' = [conn EXCEPT ![c].hello = @ \cup {d}]
  /\ UNCHANGED <<trustVars, addr, dialVars, sessVars, bounds>>

\* Internal::Incoming: session::run starts and waits for the dialer's Hello.
OnIncoming(c) ==
  LET d == conn[c].to IN
  /\ ~Free(c)
  /\ ends[c][d].st = "incoming"
  /\ ends' = [ends EXCEPT ![c][d].st = "hello"]
  /\ UNCHANGED <<trustVars, addr, dialVars, sessVars, conn, bounds>>

\* The peer's Hello arrives (the accepting end answers with its own) and
\* Established is queued.  A Goodbye sent behind the Hello keeps it readable.
HelloDone(c, d) ==
  /\ ends[c][d].st = "hello"
  /\ Peer(c, d) \in conn[c].hello
  /\ ~Dead(c) \/ ends[c][d].bye # "none"
  /\ ends' = [ends EXCEPT ![c][d].st = "est"]
  /\ conn' = [conn EXCEPT ![c].hello = @ \cup {d}]
  /\ UNCHANGED <<trustVars, addr, dialVars, sessVars, bounds>>

\* The Hello exchange fails or times out; a fault unless the transport is
\* gone with nothing left to read.
HelloFails(c, d) ==
  LET gone == Dead(c) /\ ends[c][d].bye = "none" IN
  /\ ends[c][d].st = "hello"
  /\ gone \/ faults < MaxFaults
  /\ faults' = IF gone THEN faults ELSE faults + 1
  /\ ends' = [ends EXCEPT ![c][d].st = "hsfail"]
  /\ UNCHANGED <<trustVars, addr, dialVars, sessVars, conn, commands>>

\* The session task stops serving the peer for reason r and queues Closed.
Ended(e, c, d, r) ==
  [e EXCEPT ![c][d].st = IF @ = "est" THEN "estclosed" ELSE "closed",
            ![c][d].reason = r]

\* SessionCmd::Close: Goodbye to the peer, then the connection is closed.
SessionCloses(c, d) ==
  /\ ends[c][d].st = "open" /\ ends[c][d].reason # "none"
  /\ LET r == ends[c][d].reason
         e == IF Dead(c) THEN ends
              ELSE [ends EXCEPT ![c][Peer(c, d)].bye = r]
     IN ends' = Ended(e, c, d, r)
  /\ UNCHANGED <<trustVars, addr, dialVars, sessVars, conn, bounds>>

\* The peer's Goodbye ends the session with the peer's reason.
SessionTold(c, d) ==
  /\ ends[c][d].st \in {"est", "open"} /\ ends[c][d].bye # "none"
  /\ ends' = Ended(ends, c, d, ends[c][d].bye)
  /\ UNCHANGED <<trustVars, addr, dialVars, sessVars, conn, bounds>>

\* The control stream fails.  It is a fault that a Goodbye sent before the
\* close does not arrive.
SessionLost(c, d) ==
  /\ ends[c][d].st \in {"est", "open"} /\ Dead(c)
  /\ ends[c][d].bye = "none" \/ faults < MaxFaults
  /\ faults' = IF ends[c][d].bye = "none" THEN faults ELSE faults + 1
  /\ ends' = Ended(ends, c, d, "NetworkLost")
  /\ UNCHANGED <<trustVars, addr, dialVars, sessVars, conn, commands>>

----------------------------------------------------------------------------
(* Session events in the actor. *)

\* SessionEvent::HandshakeFailed frees the dial state, but only of the dial
\* it belongs to.
OnHandshakeFailed(c, d) ==
  LET p == Peer(c, d) IN
  /\ ends[c][d].st = "hsfail"
  /\ ends' = [ends EXCEPT ![c][d] = NoEnd]
  /\ targets' = [targets EXCEPT ![d] = @ \ {c}]
  /\ IF c \in targets[d]
     THEN /\ inFlight' = [inFlight EXCEPT ![d] = @ \ {p}]
          /\ task' = [task EXCEPT ![d][p] = NoConn]
          /\ waiting' = [waiting EXCEPT ![d] = @ \cup {p}]
     ELSE UNCHANGED <<inFlight, task, waiting>>
  /\ conn' = Reclaim(conn, ends')
  /\ UNCHANGED <<trustVars, addr, sessVars, bounds>>

\* Established is taken from the queue.
Taken(e, c, d) ==
  [e EXCEPT ![c][d].st = IF @ = "est" THEN "open" ELSE "closed"]

\* Bug: each end prefers its own dial.
PreferredOwnDial(c, d) == conn[c].from = d

\* Both ends prefer the connection dialed by the device with the lower id.
Preferred(c, d) == (conn[c].from = d) = (d < Peer(c, d))

\* Bug: the block flag is not looked at.
AdmitsBlocked(d, p) == p \in trusted[d]

\* The trust check of on_established.
Admits(d, p) == p \in trusted[d] /\ p \notin blocked[d]

\* promote_session keeps the session it has.
Keep(c, d) ==
  LET p == Peer(c, d)
      old == session[d][p] IN
  /\ old # NoConn
  /\ Preferred(old, d) /\ ~Preferred(c, d)
  /\ p \in fresh[d]

\* on_established for a trusted peer: promote_session.
Promote(c, d) ==
  LET p == Peer(c, d)
      old == session[d][p] IN
  /\ ends[c][d].st \in {"est", "estclosed"}
  /\ Admits(d, p)
  /\ \/ /\ Keep(c, d)
        /\ ends' = Abort(Close(Taken(ends, c, d), c, d, "Superseded"),
                         task[d][p], d)
        /\ conn' = Reclaim(conn, ends')
        /\ UNCHANGED <<addr, sessVars>>
     \/ /\ ~Keep(c, d)
        /\ ends' = Abort(Close(Taken(ends, c, d), old, d, "Superseded"),
                         task[d][p], d)
        /\ addr' = [addr EXCEPT ![d] = @ \cup {p}]
        /\ session' = [session EXCEPT ![d][p] = c]
        /\ fresh' = [fresh EXCEPT ![d] = @ \cup {p}]
        /\ index' = [index EXCEPT ![d] = (@ \ {old}) \cup {c}]
        /\ conn' = Reclaim([conn EXCEPT ![c].ticket = @ \cup {d}], ends')
        /\ UNCHANGED unpaired
  /\ CancelDial(d, p)
  /\ UNCHANGED <<trustVars, waiting, bounds>>

\* on_established for a peer that is blocked, or for a dial (never a pairing
\* dial here) that reached a peer no longer trusted.
Refuse(c, d) ==
  LET p == Peer(c, d) IN
  /\ ends[c][d].st \in {"est", "estclosed"}
  /\ ~Admits(d, p)
  /\ p \in trusted[d] \/ conn[c].from = d
  /\ targets' = [targets EXCEPT ![d] = @ \ {c}]
  /\ ends' = Close(Taken(ends, c, d), c, d, "PermissionDenied")
  /\ UNCHANGED <<trustVars, addr, inFlight, waiting, task, sessVars, conn,
                 bounds>>

\* on_established for a peer that is not trusted and dialed this device: the
\* pairing limiter (module PairingLimiter) refuses it, or it may pair.
AdmitUnpaired(c, d) ==
  LET p == Peer(c, d) IN
  /\ ends[c][d].st \in {"est", "estclosed"}
  /\ p \notin trusted[d] /\ conn[c].from # d
  /\ \/ /\ ends' = Close(Taken(ends, c, d), c, d, "RateLimited")
        /\ UNCHANGED unpaired
     \/ /\ ends' = Taken(ends, c, d)
        /\ unpaired' = [unpaired EXCEPT ![d] = @ \cup {c}]
  /\ UNCHANGED <<trustVars, addr, dialVars, session, fresh, index, conn,
                 bounds>>

\* on_control: an untrusted peer may only ask to pair.  One that takes this
\* device for a trusted one sends a SessionTicket, and is refused.
UnpairedTalks(c, d) ==
  /\ c \in unpaired[d]
  /\ Peer(c, d) \in conn[c].ticket
  /\ unpaired' = [unpaired EXCEPT ![d] = @ \ {c}]
  /\ ends' = Close(ends, c, d, "PermissionDenied")
  /\ UNCHANGED <<trustVars, addr, dialVars, session, fresh, index, conn,
                 bounds>>

\* tick: an unpaired connection sent no PairRequest for thirty seconds.
UnpairedExpires(c, d) ==
  /\ c \in unpaired[d]
  /\ unpaired' = [unpaired EXCEPT ![d] = @ \ {c}]
  /\ ends' = Close(ends, c, d, "Timeout")
  /\ UNCHANGED <<trustVars, addr, dialVars, session, fresh, index, conn,
                 bounds>>

\* Bug: only a revocation counts.
RefusedOnlyRevoked(r) == r = "PermissionRevoked"

\* The peer no longer trusts this device: on_closed stops dialing it.
Refused(r) == r \in {"PermissionDenied", "PermissionRevoked"}

\* on_closed.
OnClosed(c, d) ==
  LET p == Peer(c, d)
      r == ends[c][d].reason IN
  /\ ends[c][d].st = "closed"
  /\ unpaired' = [unpaired EXCEPT ![d] = @ \ {c}]
  /\ \/ /\ c \in index[d] /\ session[d][p] = c
        /\ DropSession(d, p)
        /\ \/ /\ Refused(r)
              /\ ends' = Abort([ends EXCEPT ![c][d] = NoEnd], task[d][p], d)
              /\ CancelDial(d, p)
              /\ waiting' = [waiting EXCEPT ![d] = @ \ {p}]
              /\ auto' = [auto EXCEPT ![d] = @ \ {p}]
           \/ /\ r = "UserStopped"
              /\ ends' = [ends EXCEPT ![c][d] = NoEnd]
              /\ UNCHANGED <<dialVars, auto>>
           \/ /\ r # "UserStopped" /\ ~Refused(r)
              /\ ends' = [ends EXCEPT ![c][d] = NoEnd]
              /\ IF p \in auto[d]
                 THEN /\ inFlight' = [inFlight EXCEPT ![d] = @ \ {p}]
                      /\ waiting' = [waiting EXCEPT ![d] = @ \cup {p}]
                 ELSE UNCHANGED <<inFlight, waiting>>
              /\ UNCHANGED <<task, targets, auto>>
     \/ /\ c \notin index[d] \/ session[d][p] # c
        /\ ends' = [ends EXCEPT ![c][d] = NoEnd]
        /\ index' = [index EXCEPT ![d] = @ \ {c}]
        /\ UNCHANGED <<dialVars, auto, session, fresh>>
  /\ conn' = Reclaim(conn, ends')
  /\ UNCHANGED <<trusted, blocked, addr, bounds>>

\* A session is five seconds old.
SessionAges(d, p) ==
  /\ p \in fresh[d]
  /\ fresh' = [fresh EXCEPT ![d] = @ \ {p}]
  /\ UNCHANGED <<trustVars, addr, dialVars, session, index, unpaired, conn,
                 ends, bounds>>

----------------------------------------------------------------------------
(* User commands. *)

Commanded == commands < MaxCommands /\ commands' = commands + 1

\* Command::Connect.
Connect(d, p) ==
  /\ Commanded
  /\ \/ MayDial(d, p) /\ Dial(d, p, waiting[d] \ {p})
     \/ /\ ~MayDial(d, p)
        /\ waiting' = [waiting EXCEPT ![d] = @ \ {p}]
        /\ UNCHANGED <<inFlight, task, targets, conn, ends>>
  /\ UNCHANGED <<trustVars, addr, sessVars, faults>>

\* The part Disconnect, SetBlocked and ForgetDevice share (revoke): the dial
\* and its state go, and the session is closed.
CutOff(d, p, r) ==
  /\ CancelDial(d, p)
  /\ waiting' = [waiting EXCEPT ![d] = @ \ {p}]
  /\ DropSession(d, p)
  /\ ends' = Abort(Close(ends, session[d][p], d, r), task[d][p], d)
  /\ conn' = Reclaim(conn, ends')

\* Command::Disconnect.
Disconnect(d, p) ==
  /\ Commanded
  /\ CutOff(d, p, "UserStopped")
  /\ auto' = [auto EXCEPT ![d] = @ \ {p}]
  /\ UNCHANGED <<trusted, blocked, addr, unpaired, faults>>

\* Command::ForgetDevice.
ForgetDevice(d, p) ==
  /\ Commanded
  /\ CutOff(d, p, "PermissionRevoked")
  /\ trusted' = [trusted EXCEPT ![d] = @ \ {p}]
  /\ blocked' = [blocked EXCEPT ![d] = @ \ {p}]
  /\ auto' = [auto EXCEPT ![d] = @ \ {p}]
  /\ UNCHANGED <<addr, unpaired, faults>>

\* Command::SetBlocked: a device that is not trusted cannot be blocked.
SetBlocked(d, p, on) ==
  /\ Commanded
  /\ blocked' = [blocked EXCEPT ![d] =
                   IF on /\ p \in trusted[d] THEN @ \cup {p} ELSE @ \ {p}]
  /\ \/ on /\ CutOff(d, p, "PermissionRevoked")
     \/ ~on /\ UNCHANGED <<dialVars, session, fresh, index, conn, ends>>
  /\ UNCHANGED <<trusted, auto, addr, unpaired, faults>>

\* Command::SetAutoConnect.
SetAutoConnect(d, p, on) ==
  /\ Commanded
  /\ p \in trusted[d]
  /\ auto' = [auto EXCEPT ![d] = IF on THEN @ \cup {p} ELSE @ \ {p}]
  /\ UNCHANGED <<trusted, blocked, addr, dialVars, sessVars, conn, ends,
                 faults>>

\* Command::NetworkChanged.
NetworkChanged(d) ==
  /\ Commanded
  /\ waiting' = [waiting EXCEPT ![d] = {}]
  /\ UNCHANGED <<trustVars, addr, inFlight, task, targets, sessVars, conn,
                 ends, faults>>

----------------------------------------------------------------------------
(* The network, discovery and crashes. *)

\* DiscoveryEvent::Updated: an address, and no more waiting for the device.
DiscoveryUpdated(d, p) ==
  /\ p \notin addr[d] \/ p \in waiting[d]
  /\ addr' = [addr EXCEPT ![d] = @ \cup {p}]
  /\ waiting' = [waiting EXCEPT ![d] = IF p \in inFlight[d] THEN @ ELSE @ \ {p}]
  /\ UNCHANGED <<trustVars, inFlight, task, targets, sessVars, conn, ends,
                 bounds>>

\* DiscoveryEvent::Lost, or forget_own_address, takes the last address.
AddressLost(d, p) ==
  /\ p \in addr[d] /\ faults < MaxFaults
  /\ addr' = [addr EXCEPT ![d] = @ \ {p}]
  /\ faults' = faults + 1
  /\ UNCHANGED <<trustVars, dialVars, sessVars, conn, ends, commands>>

\* The network loses a connection.
Cut(c) ==
  /\ ~Free(c) /\ ~conn[c].cut /\ faults < MaxFaults
  /\ conn' = [conn EXCEPT ![c].cut = TRUE]
  /\ faults' = faults + 1
  /\ UNCHANGED <<trustVars, addr, dialVars, sessVars, ends, commands>>

\* The process of d ends without a word and is started again: the trust
\* store is on disk, everything else is gone.
Crash(d) ==
  /\ faults < MaxFaults
  /\ faults' = faults + 1
  /\ inFlight' = [inFlight EXCEPT ![d] = {}]
  /\ waiting' = [waiting EXCEPT ![d] = {}]
  /\ task' = [task EXCEPT ![d] = [p \in Devices |-> NoConn]]
  /\ targets' = [targets EXCEPT ![d] = {}]
  /\ session' = [session EXCEPT ![d] = [p \in Devices |-> NoConn]]
  /\ fresh' = [fresh EXCEPT ![d] = {}]
  /\ index' = [index EXCEPT ![d] = {}]
  /\ unpaired' = [unpaired EXCEPT ![d] = {}]
  /\ ends' = [c \in Conns |-> [ends[c] EXCEPT ![d] = NoEnd]]
  /\ conn' = Reclaim([c \in Conns |->
                        IF d \in {conn[c].from, conn[c].to}
                        THEN [conn[c] EXCEPT !.cut = TRUE]
                        ELSE conn[c]], ends')
  /\ UNCHANGED <<trustVars, addr, commands>>

----------------------------------------------------------------------------
Others(d) == Devices \ {d}

Init ==
  /\ trusted \in [Devices -> SUBSET Devices]
  /\ \A d \in Devices : d \notin trusted[d]
  /\ blocked = [d \in Devices |-> {}]
  /\ auto = trusted
  /\ addr = [d \in Devices |-> Others(d)]
  /\ inFlight = [d \in Devices |-> {}]
  /\ waiting = [d \in Devices |-> {}]
  /\ task = [d \in Devices |-> [p \in Devices |-> NoConn]]
  /\ targets = [d \in Devices |-> {}]
  /\ session = [d \in Devices |-> [p \in Devices |-> NoConn]]
  /\ fresh = [d \in Devices |-> {}]
  /\ index = [d \in Devices |-> {}]
  /\ unpaired = [d \in Devices |-> {}]
  /\ conn = [c \in Conns |-> Idle]
  /\ ends = [c \in Conns |-> [d \in Devices |-> NoEnd]]
  /\ faults = 0
  /\ commands = 0

\* What the engine does by itself.
DeviceStep(d) ==
  \/ \E p \in Others(d) :
       TickAutoConnect(d, p) \/ BackoffElapses(d, p) \/ SessionAges(d, p)
  \/ \E c \in Conns : UnpairedExpires(c, d)

EndStep(c, d) ==
  /\ d \in {conn[c].from, conn[c].to}
  /\ \/ HelloDone(c, d) \/ HelloFails(c, d)
     \/ SessionCloses(c, d) \/ SessionTold(c, d) \/ SessionLost(c, d)
     \/ OnHandshakeFailed(c, d)
     \/ Promote(c, d) \/ Refuse(c, d)
     \/ AdmitUnpaired(c, d) \/ UnpairedTalks(c, d)
     \/ OnClosed(c, d)

ConnStep(c) ==
  \/ RaceWins(c) \/ RaceFails(c) \/ OnDialFailed(c)
  \/ Accept(c) \/ OnDialed(c) \/ OnIncoming(c)
  \/ \E d \in Devices : EndStep(c, d)

UserStep(d) ==
  \/ \E p \in Others(d) :
       \/ Connect(d, p) \/ Disconnect(d, p) \/ ForgetDevice(d, p)
       \/ \E on \in BOOLEAN : SetBlocked(d, p, on) \/ SetAutoConnect(d, p, on)
  \/ NetworkChanged(d)

NetworkStep ==
  \/ \E d \in Devices :
       \/ Crash(d)
       \/ \E p \in Others(d) : DiscoveryUpdated(d, p) \/ AddressLost(d, p)
  \/ \E c \in Conns : Cut(c)

Next ==
  \/ \E d \in Devices : DeviceStep(d) \/ UserStep(d)
  \/ \E c \in Conns : ConnStep(c)
  \/ NetworkStep

Spec == Init /\ [][Next]_vars

(***************************************************************************)
(* Fairness.  Every task is run again by the runtime, every timer fires,   *)
(* the tick comes each second, and a device that is on the network is      *)
(* announced again.  Nothing is assumed about faults and users.            *)
(***************************************************************************)
Fairness ==
  /\ \A d \in Devices : \A p \in Others(d) :
       /\ WF_vars(TickAutoConnect(d, p))
       /\ WF_vars(BackoffElapses(d, p))
       /\ WF_vars(DiscoveryUpdated(d, p))
  /\ \A c \in Conns :
       /\ WF_vars((RaceWins(c) \/ RaceFails(c)) /\ UNCHANGED faults)
       /\ WF_vars(OnDialFailed(c))
       /\ WF_vars(Accept(c))
       /\ WF_vars(OnDialed(c))
       /\ WF_vars(OnIncoming(c))
       /\ \A d \in Devices :
            /\ WF_vars(UnpairedExpires(c, d))
            /\ WF_vars(EndStep(c, d) /\ UNCHANGED faults)

FairSpec == Spec /\ Fairness

----------------------------------------------------------------------------
(* Properties. *)

TypeOK ==
  /\ trusted \in [Devices -> SUBSET Devices]
  /\ blocked \in [Devices -> SUBSET Devices]
  /\ auto \in [Devices -> SUBSET Devices]
  /\ addr \in [Devices -> SUBSET Devices]
  /\ inFlight \in [Devices -> SUBSET Devices]
  /\ waiting \in [Devices -> SUBSET Devices]
  /\ task \in [Devices -> [Devices -> Conns \cup {NoConn}]]
  /\ targets \in [Devices -> SUBSET Conns]
  /\ session \in [Devices -> [Devices -> Conns \cup {NoConn}]]
  /\ fresh \in [Devices -> SUBSET Devices]
  /\ index \in [Devices -> SUBSET Conns]
  /\ unpaired \in [Devices -> SUBSET Conns]
  /\ conn \in [Conns -> Connection]
  /\ ends \in [Conns -> [Devices -> End]]
  /\ faults \in Nat /\ commands \in Nat

\* sessions and conn_index name the same connections, and the session task
\* of each still runs, not told to close, or its Closed event is queued: no
\* session outlives its connection unnoticed (promote_session, on_closed,
\* Disconnect, revoke).
SessionsIndexed ==
  \A d \in Devices :
    /\ \A p \in Devices : session[d][p] # NoConn =>
         /\ session[d][p] \in index[d]
         /\ Peer(session[d][p], d) = p
    /\ \A c \in index[d] :
         /\ session[d][Peer(c, d)] = c
         /\ \/ ends[c][d].st = "open" /\ ends[c][d].reason = "none"
            \/ ends[c][d].st = "closed"

\* Forgetting or blocking a device ends its session and none can appear
\* later from a dial or a handshake under way (revoke, on_established).
NoSessionWithoutTrust ==
  \A d \in Devices : \A p \in Devices :
    session[d][p] # NoConn => p \in trusted[d] /\ p \notin blocked[d]

DialEnding == {"racing", "dialed", "failed", "hello", "hsfail", "est",
               "estclosed"}

\* A dial state marked in_flight belongs to a dial whose result is still to
\* come.  Otherwise "the device is never dialed again" (handle_session).
NoStuckDial ==
  \A d \in Devices : \A p \in inFlight[d] :
    \E c \in targets[d] :
      conn[c].from = d /\ conn[c].to = p /\ ends[c][d].st \in DialEnding

\* dial_targets, conn_index and unpaired never keep a connection that is gone.
NoLeaks ==
  \A d \in Devices :
    /\ \A c \in targets[d] : conn[c].from = d /\ ends[c][d].st \in DialEnding
    /\ \A c \in index[d] \cup unpaired[d] : ends[c][d].st \in {"open", "closed"}
    /\ index[d] \cap unpaired[d] = {}

\* Two devices that trust each other, of which one connects by itself.
Willing(d, p) ==
  /\ p \in trusted[d] /\ p \notin blocked[d]
  /\ d \in trusted[p] /\ d \notin blocked[p]
  /\ d \in AutoDialers /\ p \in auto[d]

Connected(d, p) ==
  /\ session[d][p] # NoConn
  /\ session[p][d] = session[d][p]
  /\ \A e \in {d, p} : ends[session[d][p]][e].st = "open"

\* Something between d and p is still to be handled: a connection other than
\* d's session, or the peer's end of that session.
Unsettled(d, p) ==
  \E c \in Conns : /\ {d, p} = {conn[c].from, conn[c].to}
                   /\ c # session[d][p] \/ ends[c][p].st # "open"

\* No timer (300 ms or more) fires before what is under way is handled.
TimerInTime ==
  \A d \in Devices : \A p \in Others(d) :
    BackoffElapses(d, p) \/ SessionAges(d, p) => ~Unsettled(d, p)

\* Once the network behaves and tasks are not starved for longer than a timer
\* runs, willing devices end up with one connection that both of them use,
\* whoever dialed and in whatever order the events of simultaneous dials are
\* handled (promote_session).
Converges ==
  <>[][TimerInTime]_vars =>
    \A d \in Devices : \A p \in Others(d) :
      <>[]Willing(d, p) => <>[]Connected(d, p)

\* A device that is blocked stops dialing the one that blocked it (on_closed
\* with PermissionDenied or PermissionRevoked).
BlockedStopsDialing ==
  \A d \in AutoDialers : \A p \in Others(d) :
    <>[](d \in blocked[p] /\ p \notin blocked[d]) => <>[](p \notin auto[d])

\* The connections are alike: a symmetry for TLC.
ConnSymmetry == Permutations(Conns)
=============================================================================
