----------------------------- MODULE NetworkTest -----------------------------
(***************************************************************************)
(* The network self-test (sp-engine's actor/network_test.rs, nettest.rs,   *)
(* the echo part of the session, sp-protocol's probe.rs).  The initiator   *)
(* asks the peer to echo, sends probes for a fixed time and answers every  *)
(* caller with the measurement; the peer echoes the probes of the test it  *)
(* was asked for, for a limited time.  Probes and echoes may be lost,      *)
(* duplicated and late; control messages are late and lost only with the   *)
(* connection.                                                             *)
(***************************************************************************)
EXTENDS Naturals, Sequences

CONSTANTS
  Ready,      \* READY_TIMEOUT, in ticks
  Probes,     \* probes of a test, one each tick; one more tick is the linger
  Window,     \* RESPONDER_WINDOW
  MaxTests    \* bound on the tests started

None == 0

VARIABLES
  connected,  \* the two devices have a session
  test,       \* the entry of net_tests: its id (None: no entry), phase and age
  next,       \* next_test_id
  waiting,    \* callers whose reply is not sent
  task,       \* nettest::run: id (None: does not run), probes sent, echoes got
  finished,   \* NetTestFinished in the internal channel: id and echoes
  sink,       \* the test the session passes echoes to
  out, back,  \* control messages to and from the peer
  armed,      \* the peer's echo: test id and time left
  air,        \* probes and echoes under way
  report,     \* the last report given to callers: the test and its echoes
  asked       \* the test the callers of the last report waited for

vars == <<connected, test, next, waiting, task, finished, sink, out, back, armed,
          air, report, asked>>

NoTest == [id |-> None, phase |-> "finished", age |-> 0]
NoTask == [id |-> None, sent |-> 0, got |-> {}]
NoEcho == [id |-> None, left |-> 0]

Init ==
  /\ connected = TRUE /\ test = NoTest /\ next = 0 /\ waiting = 0
  /\ task = NoTask /\ finished = {} /\ sink = None
  /\ out = <<>> /\ back = <<>> /\ armed = NoEcho /\ air = {}
  /\ report = [id |-> None, got |-> {}] /\ asked = None

Running == test.phase # "finished"

----------------------------------------------------------------------------
(* The initiator.                                                          *)

\* start_network_test: a second caller waits for the running test.
Start ==
  /\ connected
  /\ \/ /\ Running /\ waiting < 2 /\ waiting' = waiting + 1
        /\ UNCHANGED <<test, next, out>>
     \/ /\ ~Running /\ next < MaxTests
        /\ next' = next + 1 /\ waiting' = 1
        /\ test' = [id |-> next + 1, phase |-> "ready", age |-> 0]
        /\ out' = Append(out, [kind |-> "start", id |-> next + 1])
  /\ UNCHANGED <<connected, task, finished, sink, back, armed, air, report, asked>>

\* finish_network_test: the task is aborted, all callers get the result, the peer
\* is told to stop.
Finish(tell) ==
  /\ task' = NoTask /\ waiting' = 0
  /\ test' = [test EXCEPT !.phase = "finished"]
  /\ IF tell THEN /\ sink' = None
                  /\ out' = Append(out, [kind |-> "stop", id |-> test.id])
     ELSE UNCHANGED <<sink, out>>

\* on_net_test_ready
OnReady ==
  /\ back # <<>> /\ back' = Tail(back)
  /\ IF test.id = Head(back) /\ test.phase = "ready"
     THEN /\ test' = [test EXCEPT !.phase = "running"]
          /\ task' = [id |-> test.id, sent |-> 0, got |-> {}]
          /\ sink' = test.id
     ELSE UNCHANGED <<test, task, sink>>
  /\ UNCHANGED <<connected, next, waiting, finished, out, armed, air, report, asked>>

\* Bug: any report is taken for the running test's.
TakesAny(id) == test.phase = "running"

Takes(id) == test.id = id /\ test.phase = "running"

\* on_net_test_finished
OnFinished ==
  \E f \in finished :
    /\ finished' = finished \ {f}
    /\ IF Takes(f.id)
       THEN /\ report' = f /\ asked' = test.id /\ Finish(connected)
       ELSE UNCHANGED <<report, asked, task, waiting, test, sink, out>>
    /\ UNCHANGED <<connected, next, back, armed, air>>

\* cancel_network_test
Cancel ==
  /\ Running /\ Finish(connected)
  /\ UNCHANGED <<connected, next, finished, back, armed, air, report, asked>>

----------------------------------------------------------------------------
(* Probes.                                                                 *)

Probe(id, seq) == [kind |-> "probe", id |-> id, seq |-> seq]
Echo(p) == [p EXCEPT !.kind = "echo"]

\* Bug: the test of the echo is not looked at.
CountsAll(p) == TRUE

\* rtt_of: an echo counts only in the test its probe belongs to.
Counts(p) == p.id = task.id

\* The session passes an echo to the sink.  It may arrive again.
EchoArrives ==
  \E p \in air :
    /\ p.kind = "echo" /\ connected
    /\ air' \in {air, air \ {p}}
    /\ task' = IF task.id # None /\ sink = task.id /\ Counts(p)
               THEN [task EXCEPT !.got = @ \cup {<<p.id, p.seq>>}] ELSE task
    /\ UNCHANGED <<connected, test, next, waiting, finished, sink, out, back,
                   armed, report, asked>>

Lost ==
  \E p \in air :
    /\ air' = air \ {p}
    /\ UNCHANGED <<connected, test, next, waiting, task, finished, sink, out,
                   back, armed, report, asked>>

\* The peer echoes probes of the test it is armed for, within its window.
ProbeArrives ==
  \E p \in air :
    /\ p.kind = "probe" /\ connected
    /\ air' = (air \ {p}) \cup
              (IF armed.id = p.id /\ armed.left > 0
               THEN {Echo(p)} ELSE {})
    /\ UNCHANGED <<connected, test, next, waiting, task, finished, sink, out,
                   back, armed, report, asked>>

\* on_net_test_start and on_net_test_stop of the peer
PeerHandles ==
  /\ out # <<>> /\ out' = Tail(out)
  /\ IF Head(out).kind = "start"
     THEN /\ armed' = [id |-> Head(out).id, left |-> Window]
          /\ back' = Append(back, Head(out).id)
     ELSE armed' = [id |-> Head(out).id, left |-> 0] /\ UNCHANGED back
  /\ UNCHANGED <<connected, test, next, waiting, task, finished, sink, air, report,
                 asked>>

----------------------------------------------------------------------------
(* Time and connections.                                                   *)

\* run: a probe each tick; after the linger the task reports and ends.
TaskStep ==
  CASE task.id = None -> UNCHANGED <<task, finished, air>>
    [] task.id # None /\ task.sent < Probes ->
         /\ task' = [task EXCEPT !.sent = @ + 1]
         /\ air' = IF connected
                   THEN air \cup {Probe(task.id, task.sent + 1)}
                   ELSE air
         /\ UNCHANGED finished
    [] OTHER ->
         /\ finished' = finished \cup {[id |-> task.id, got |-> task.got]}
         /\ task' = NoTask /\ UNCHANGED air

\* Bug: a peer that does not answer is waited for.
ExpiredNever == FALSE

Expired == test.phase = "ready" /\ test.age >= Ready

\* Time passes; tick_network_tests gives up a test the peer has not accepted.
Tick ==
  /\ armed' = [armed EXCEPT !.left = IF @ > 0 THEN @ - 1 ELSE 0]
  /\ IF Expired
     THEN Finish(connected) /\ UNCHANGED <<finished, air>>
     ELSE /\ TaskStep
          /\ test' = [test EXCEPT !.age =
                        IF test.phase = "ready" /\ @ < Ready THEN @ + 1 ELSE @]
          /\ UNCHANGED <<waiting, sink, out>>
  /\ UNCHANGED <<connected, next, back, report, asked>>

\* The session ends (end_network_test), the peer is forgotten
\* (forget_network_test) or the engine stops (abort_network_tests).
Disconnect ==
  /\ connected /\ connected' = FALSE
  /\ sink' = None /\ out' = <<>> /\ back' = <<>> /\ armed' = NoEcho /\ air' = {}
  /\ task' = NoTask /\ waiting' = 0
  /\ test' \in {[test EXCEPT !.phase = "finished"], NoTest}
  /\ UNCHANGED <<next, finished, report, asked>>

Connect ==
  /\ ~connected /\ connected' = TRUE
  /\ UNCHANGED <<test, next, waiting, task, finished, sink, out, back, armed, air,
                 report, asked>>

Next ==
  \/ Start \/ OnReady \/ OnFinished \/ Cancel \/ Connect \/ Disconnect
  \/ EchoArrives \/ ProbeArrives \/ Lost \/ PeerHandles \/ Tick

Spec == Init /\ [][Next]_vars

----------------------------------------------------------------------------
(* Properties.                                                             *)

\* The types of the variables; a task runs only for a running test.
TypeOK ==
  /\ connected \in BOOLEAN /\ next \in 0 .. MaxTests /\ waiting \in 0 .. 2
  /\ test \in [id : 0 .. MaxTests, phase : {"ready", "running", "finished"},
               age : 0 .. Ready]
  /\ task.id \in {None, test.id} /\ task.sent \in 0 .. Probes
  /\ sink \in 0 .. MaxTests
  /\ armed.id \in 0 .. MaxTests /\ armed.left \in 0 .. Window
  /\ waiting > 0 => Running

\* A report holds echoes of its own test only, each probe's once, and is given to
\* the callers of that test (rtt_of, on_net_test_finished).
OwnReport ==
  /\ report.got \subseteq {report.id} \X (1 .. Probes)
  /\ asked = report.id

\* The peer echoes as long as probes are sent: its window, counted from the
\* arrival of the request, does not end before the test, whose start the
\* answer's timeout bounds (tick_network_tests, on_net_test_start).
WindowCovers ==
  task.id # None /\ task.sent < Probes =>
    armed.id = task.id /\ armed.left > 0
=============================================================================
