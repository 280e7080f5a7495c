------------------------------ MODULE Listener ------------------------------
(***************************************************************************)
(* The TLS-over-TCP listener of an engine (TcpEndpoint) and the port it    *)
(* ends up on.  It listens on loopback, where adb delivers a phone's USB   *)
(* connection, or on every interface while the TCP transport is pinned;    *)
(* changing the pin closes the listener and binds another (rebind_tcp).    *)
(* A closed listener keeps its port until the task that accepts on it, and *)
(* every dial that holds the endpoint, has let go of it.                   *)
(***************************************************************************)
EXTENDS Integers, Sequences, FiniteSets

CONSTANTS
  MaxPins,   \* bound on the changes of the pin
  MaxDials,  \* bound on the dials
  MaxCalls   \* bound on the connections from outside

VARIABLES
  taken,   \* another program has the TCP port that goes with the QUIC port
  pin,     \* settings.transport
  eps,     \* the endpoints made so far
  dials,   \* dials so far
  calls,   \* Internal::Incoming so far, by the pin at that time and the reach of the endpoint
  pins     \* changes of the pin so far

vars == <<taken, pin, eps, dials, calls, pins>>

Quic == 0        \* the port QUIC listens on: what peers are told to dial
NoPort == 0 - 1  \* a dial-only endpoint
Pins == {"Auto", "Tcp"}
Current == Len(eps)  \* Actor::tcp is the latest

\* tcp_listen_ip.
Wide(p) == p = "Tcp"

\* spawn_tcp_accept: a task accepts on an endpoint that listens.
Endpoint(port, p) ==
  [port |-> port, wide |-> Wide(p), accepts |-> port # NoPort, shut |-> FALSE, held |-> 0]

\* The listener is open while someone holds the endpoint.
Bound(e) == /\ eps[e].port # NoPort
            /\ eps[e].accepts \/ eps[e].held > 0 \/ e = Current

\* TcpEndpoint::bind and bind_tcp: the preferred port, an ephemeral one when it
\* is in use, and an endpoint that only dials when there is none.
PortFrom(inUse) == IF inUse THEN {Len(eps) + 1, NoPort} ELSE {Quic}

Init ==
  /\ taken \in BOOLEAN /\ pin \in Pins
  /\ \E port \in (IF taken THEN {1, NoPort} ELSE {Quic}) : eps = <<Endpoint(port, pin)>>
  /\ dials = 0 /\ calls = {} /\ pins = 0

\* Bug: the old listener is not closed.
ShutNothing(e) == eps

\* TcpEndpoint::close.
Shut(e) == [eps EXCEPT ![e].shut = TRUE]

\* UpdateSettings, rebind_tcp: the old endpoint is closed, which its accept task learns later.
RebindTcp ==
  /\ pins < MaxPins /\ pins' = pins + 1
  /\ pin' \in Pins \ {pin}
  /\ LET inUse == taken \/ \E e \in 1..Current :
                     eps[e].port = Quic /\ (eps[e].accepts \/ eps[e].held > 0)
     IN \E port \in PortFrom(inUse) : eps' = Append(Shut(Current), Endpoint(port, pin'))
  /\ UNCHANGED <<taken, dials, calls>>

\* TcpEndpoint::accept sees the shutdown, and its task drops the endpoint.
AcceptEnds(e) ==
  /\ eps[e].accepts /\ eps[e].shut
  /\ eps' = [eps EXCEPT ![e].accepts = FALSE]
  /\ UNCHANGED <<taken, pin, dials, calls, pins>>

\* accept, TcpHandshake::finish: a connection may still be taken after the shutdown.
Accept(e) ==
  /\ eps[e].accepts /\ Cardinality(calls) < MaxCalls
  /\ calls' = calls \cup {[wide |-> eps[e].wide, pin |-> pin, late |-> eps[e].shut]}
  /\ UNCHANGED <<taken, pin, eps, dials, pins>>

\* A dial keeps the endpoint it uses until it ends (Actor::dial).
DialStarts ==
  /\ dials < MaxDials /\ dials' = dials + 1
  /\ eps' = [eps EXCEPT ![Current].held = @ + 1]
  /\ UNCHANGED <<taken, pin, calls, pins>>
DialEnds(e) ==
  /\ eps[e].held > 0
  /\ eps' = [eps EXCEPT ![e].held = @ - 1]
  /\ UNCHANGED <<taken, pin, dials, calls, pins>>

Next ==
  \/ RebindTcp \/ DialStarts
  \/ \E e \in 1..Current : AcceptEnds(e) \/ Accept(e) \/ DialEnds(e)

Spec == Init /\ [][Next]_vars

----------------------------------------------------------------------------

TypeOK ==
  /\ taken \in BOOLEAN /\ pin \in Pins /\ Current \in 1..(MaxPins + 1)
  /\ \A e \in 1..Current :
       /\ eps[e].port \in NoPort..(MaxPins + 1) /\ eps[e].held \in 0..MaxDials
       /\ eps[e].wide \in BOOLEAN /\ eps[e].accepts \in BOOLEAN /\ eps[e].shut \in BOOLEAN
  /\ dials \in 0..MaxDials /\ pins \in 0..MaxPins

\* The reach of the listener is what the pin asks for: once the tasks of earlier endpoints have
\* ended, only the current one is open; and a device reaches this one over a wider listener than
\* the pin asks for only while that one is being closed.
Narrow ==
  /\ eps[Current].wide = Wide(pin)
  /\ (\A e \in 1..Current : e < Current => eps[e].held = 0 /\ (eps[e].shut => ~eps[e].accepts))
       => \A e \in 1..Current : Bound(e) => e = Current
  /\ \A c \in calls : c.wide # Wide(c.pin) => c.late
=============================================================================
