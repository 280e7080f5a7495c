----------------------------- MODULE MCProgress -----------------------------
(***************************************************************************)
(* What must be delivered and answered: the TCP fallback of a connection   *)
(* (TcpLink), a network test (NetworkTest) and the calls and snapshots of  *)
(* the engine (Snapshots).  They share no state, so a behaviour is one of  *)
(* either, and the others stay in their initial state.                     *)
(***************************************************************************)
EXTENDS Naturals

CONSTANTS
  A, B, Messages, MaxMedia, ControlQueue, MediaQueue, Socket, MaxPings,
  Ready, Probes, TestWindow, MaxTests,
  Clients, Interval, Period, MaxChanges

\* Two ends; limits and bounds are numbers.
ASSUME ProgressBounds ==
  /\ A # B
  /\ Messages \in [{A, B} -> Nat] /\ MaxPings \in [{A, B} -> Nat]
  /\ {MaxMedia, ControlQueue, MediaQueue, Socket} \subseteq Nat
  /\ {Ready, Probes, TestWindow, MaxTests} \subseteq Nat
  /\ {Interval, Period, MaxChanges} \subseteq Nat

\* The peer's window (RESPONDER_WINDOW, 15 s) is longer than the time to its
\* answer (READY_TIMEOUT, 3 s) and a test's probes together.
ASSUME WindowLongEnough == TestWindow >= Ready + Probes

VARIABLES
  part,  \* the component the behaviour is one of
  up, out, media, wire, ins, writer, reader, closed, session, bye, sent, got,
  offered, accounted, pings,
  connected, test, next, waiting, task, finished, sink, asks, back, armed, air,
  report, asked,
  phase, call, queue, state, published, since, timer, tick, late, heard

L == INSTANCE TcpLink
T == INSTANCE NetworkTest WITH Window <- TestWindow, out <- asks
S == INSTANCE Snapshots

linkVars == <<up, out, media, wire, ins, writer, reader, closed, session, bye,
              sent, got, offered, accounted, pings>>
testVars == <<connected, test, next, waiting, task, finished, sink, asks, back,
              armed, air, report, asked>>
engineVars == <<phase, call, queue, state, published, since, timer, tick, late,
                heard>>

\* One end sends a message, the other one keep-alives.
OneMessage == [e \in {A, B} |-> IF e = A THEN 1 ELSE 0]
OnePing == [e \in {A, B} |-> IF e = B THEN 1 ELSE 0]

ProgressInit ==
  /\ part \in {"link", "test", "engine"}
  /\ L!Init /\ T!Init /\ S!Init

linkSame == <<part, testVars, engineVars>>
testSame == <<part, linkVars, engineVars>>
engineSame == <<part, linkVars, testVars>>
all == <<part, linkVars, testVars, engineVars>>

ProgressNext ==
  \/ part = "link" /\ L!Next /\ UNCHANGED linkSame
  \/ part = "test" /\ T!Next /\ UNCHANGED testSame
  \/ part = "engine" /\ S!Next /\ UNCHANGED engineSame

(* The tasks of a connection run; time passes, and the actor handles the   *)
(* end of a test.  Nothing is assumed of the peer of a test and of the     *)
(* network.  Of these actions only the clock is enabled in an initial      *)
(* state.                                                                  *)
Fair ==
  /\ L!Fairness
  /\ WF_testVars(part = "test" /\ T!Tick) /\ WF_testVars(T!OnFinished)

ProgressSpec == ProgressInit /\ [][ProgressNext]_all /\ Fair

----------------------------------------------------------------------------

\* The variables of all components have their types.
TypesOK == L!TypeOK /\ T!TypeOK /\ S!TypeOK

\* The TCP fallback is a channel for control messages (TcpLink's InOrder).
InOrder == L!InOrder

\* What is handed over is accounted for: the media of a TCP connection
\* (write_loop), the probes and the report of a network test while its window
\* lasts (rtt_of, tick_network_tests), and the engine's state and replies, an
\* interval after a change at the latest (publish_throttled, request).
Delivered ==
  L!MediaCounted /\ T!OwnReport /\ T!WindowCovers /\ S!Lag /\ S!Replied

\* No session of the link has ended, or both have; no caller waits for a test.
Settled ==
  /\ \/ up /\ \A e \in {A, B} : session[e] # "ended"
     \/ \A e \in {A, B} : session[e] = "ended"
  /\ waiting = 0

\* Nobody waits for ever.  If one session of a TCP connection ends, or the
\* network fails, both end: neither waits for the other, for a queue or for the
\* network (close, read_loop).  And the callers of a network test are answered,
\* whatever the peer and the network do (finish_network_test).  An ended session
\* stays ended, so both say that a behaviour settles again and again.
Answered == []<>Settled
=============================================================================
