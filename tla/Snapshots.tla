----------------------------- MODULE Snapshots -----------------------------
(***************************************************************************)
(* The engine as the apps see it (EngineHandle in sp-engine's lib.rs, the  *)
(* actor's loop and publish_throttled, the mobile bindings of sp-ffi):     *)
(* commands go into one channel, some with a reply; state comes back as    *)
(* snapshots in a watch channel, at most one each PUBLISH_INTERVAL.        *)
(*                                                                         *)
(* The state is a version number: a snapshot is one version, whole.  Time  *)
(* is counted in ticks; the actor handles what is due before time passes.  *)
(***************************************************************************)
EXTENDS Naturals, Sequences

CONSTANTS
  Clients,     \* threads of the app that call the engine
  Interval,    \* PUBLISH_INTERVAL
  Period,      \* the interval of the actor's own tick
  MaxChanges   \* bound on changes of the state



VARIABLES
  phase,      \* "starting", "run", "stopped" or "failed"
  call,       \* call[c]: "idle", "waiting" for a reply, "done", "error"
  queue,      \* the command channel
  state,      \* the actor's state
  published,  \* the snapshot in the watch channel
  since,      \* time since the last snapshot, up to Interval
  timer,      \* publish_at is set
  tick,       \* time to the actor's next tick
  late,       \* time since the oldest change that is not published
  heard       \* the snapshot StateListener.on_state was called with last

vars == <<phase, call, queue, state, published, since, timer, tick, late, heard>>

Init ==
  /\ phase = "starting" /\ call = [c \in Clients |-> "idle"] /\ queue = <<>>
  /\ state = 0 /\ published = 0 /\ since = 0 /\ timer = FALSE
  /\ tick = Period /\ late = 0 /\ heard = 0

\* EngineHandle::start: identity, stores, sockets; any of them may fail.
StartEngine ==
  /\ phase = "starting" /\ phase' \in {"run", "failed"}
  /\ UNCHANGED <<call, queue, state, published, since, timer, tick, late, heard>>

----------------------------------------------------------------------------
(* EngineHandle.                                                           *)

\* A thread in a blocking method of the mobile bindings calls nothing else.
Free(c) == call[c] # "waiting"

\* request: a command with a reply; the caller waits for it.
Request(c) ==
  /\ phase \in {"run", "stopped"} /\ Free(c)
  /\ IF phase = "run"
     THEN /\ queue' = Append(queue, [kind |-> "request", client |-> c])
          /\ call' = [call EXCEPT ![c] = "waiting"]
     ELSE /\ call' = [call EXCEPT ![c] = "error"] /\ UNCHANGED queue
  /\ UNCHANGED <<phase, state, published, since, timer, tick, late, heard>>

\* send: a command without a reply.
Tell(c) ==
  /\ phase = "run" /\ Free(c) /\ Len(queue) <= 1
  /\ queue' = Append(queue, [kind |-> "tell", client |-> c])
  /\ UNCHANGED <<phase, call, state, published, since, timer, tick, late, heard>>

\* shutdown, or the last handle is dropped
Shutdown(c) ==
  /\ phase = "run" /\ Free(c)
  /\ \A i \in DOMAIN queue : queue[i].kind # "shutdown"
  /\ queue' = Append(queue, [kind |-> "shutdown", client |-> c])
  /\ UNCHANGED <<phase, call, state, published, since, timer, tick, late, heard>>

----------------------------------------------------------------------------
(* The actor's loop.                                                       *)

\* publish
Publish(new) ==
  published' = new /\ since' = 0 /\ timer' = FALSE /\ late' = 0

\* Bug: without a timer a change waits for the next event.
ThrottleNoTimer(new) ==
  IF since >= Interval THEN Publish(new)
  ELSE timer' = FALSE /\ UNCHANGED <<published, since, late>>

\* publish_throttled, after every turn of the loop
Throttle(new) ==
  IF since >= Interval THEN Publish(new)
  ELSE timer' = TRUE /\ UNCHANGED <<published, since, late>>

Changes == {state} \cup (IF state < MaxChanges THEN {state + 1} ELSE {})

\* handle_command: the state may change, the reply is sent.
Handle ==
  /\ phase = "run" /\ queue # <<>> /\ Head(queue).kind # "shutdown"
  /\ queue' = Tail(queue)
  /\ call' = IF Head(queue).kind = "request"
             THEN [call EXCEPT ![Head(queue).client] = "done"] ELSE call
  /\ state' \in Changes /\ Throttle(state')
  /\ UNCHANGED <<phase, tick, heard>>

\* handle_internal, handle_session
Event ==
  /\ phase = "run" /\ state < MaxChanges /\ state' = state + 1
  /\ Throttle(state')
  /\ UNCHANGED <<phase, call, queue, tick, heard>>

\* tick, once a second
Tick ==
  /\ phase = "run" /\ tick = 0 /\ tick' = Period
  /\ state' \in Changes /\ Throttle(state')
  /\ UNCHANGED <<phase, call, queue, heard>>

\* The timer only turns the loop.
Timer ==
  /\ phase = "run" /\ timer /\ since >= Interval
  /\ Throttle(state)
  /\ UNCHANGED <<phase, call, queue, state, tick, heard>>

\* Bug: the command channel outlives the loop.
RepliesKept == call

\* The loop ends; commands behind the shutdown are dropped with their replies,
\* and their callers get EngineError::Stopped.
RepliesDropped ==
  [c \in Clients |-> IF call[c] = "waiting" THEN "error" ELSE call[c]]

Stop ==
  /\ phase = "run" /\ queue # <<>> /\ Head(queue).kind = "shutdown"
  /\ phase' = "stopped" /\ queue' = <<>> /\ call' = RepliesDropped
  /\ UNCHANGED <<state, published, since, timer, tick, late, heard>>

\* The listener's thread: whatever it missed, it gets the newest snapshot.
Listen ==
  /\ heard # published /\ heard' = published
  /\ UNCHANGED <<phase, call, queue, state, published, since, timer, tick, late>>

\* Time passes when the actor has nothing due.
Time ==
  /\ phase = "run" /\ queue = <<>> /\ tick > 0 /\ ~(timer /\ since >= Interval)
  /\ tick' = tick - 1
  /\ since' = IF since < Interval THEN since + 1 ELSE since
  /\ late' = IF state # published THEN late + 1 ELSE 0
  /\ UNCHANGED <<phase, call, queue, state, published, timer, heard>>

Next ==
  \/ StartEngine \/ Handle \/ Event \/ Tick \/ Timer \/ Stop \/ Listen \/ Time
  \/ \E c \in Clients : Request(c) \/ Tell(c) \/ Shutdown(c)

Spec == Init /\ [][Next]_vars

----------------------------------------------------------------------------
(* Properties.                                                             *)

\* The types of the variables; no snapshot is ahead of the state.
TypeOK ==
  /\ phase \in {"starting", "run", "stopped", "failed"}
  /\ call \in [Clients -> {"idle", "waiting", "done", "error"}]
  /\ state \in 0 .. MaxChanges /\ published \in 0 .. state
  /\ heard \in 0 .. published
  /\ since \in 0 .. Interval /\ timer \in BOOLEAN /\ tick \in 0 .. Period

\* Throttling delays a change by an interval at most: a burst is not lost until
\* the next tick (publish_throttled, publish_at).
Lag == state # published => late <= Interval

\* A caller waits only as long as its command, one for each, is in the channel
\* of a running actor, which it leaves with a reply, or with an error when the
\* engine stops (request, Command::Shutdown).
Replied ==
  \A c \in Clients : call[c] = "waiting" =>
    /\ phase = "run"
    /\ \E i \in DOMAIN queue :
         /\ queue[i] = [kind |-> "request", client |-> c]
         /\ \A j \in DOMAIN queue : queue[j] = queue[i] => j = i
=============================================================================
