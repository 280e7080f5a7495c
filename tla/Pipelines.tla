----------------------------- MODULE Pipelines -----------------------------
(***************************************************************************)
(* The audio of one device: the encoder groups that routes share, and the  *)
(* receivers of the routes it plays (actor/pipelines.rs, with the parts of *)
(* actor/local_audio.rs and actor/profiles.rs that restart them).          *)
(*                                                                         *)
(* Opening an audio device takes seconds, so it is done on the blocking    *)
(* pool.  The result comes back to the actor as an event, and so does the  *)
(* failure of a device, while routes are stopped, started and restarted.   *)
(* Each start has an id, which a result carries and a failure does not.    *)
(*                                                                         *)
(* A paused route has no pipelines and counts as stopped here; which       *)
(* routes there are is the business of module Routes.                      *)
(***************************************************************************)
EXTENDS Naturals, FiniteSets, Sequences, Functions

CONSTANTS
  Senders, Receivers,  \* the routes this device sends, and plays
  Pinned,              \* the routes that do not follow the default device
  Codecs,              \* the encodings a profile may ask for
  MaxStarts,           \* bound on devices opened
  MaxFailures          \* bound on devices that fail

Routes == Senders \cup Receivers
Starts == 1 .. MaxStarts

\* There are finitely many routes, and each sends or plays.
ASSUME RoutesApart == IsFiniteSet(Routes) /\ Senders \cap Receivers = {}

\* A codec is not the mark of none.
ASSUME CodecsNamed == Codecs # {} /\ 0 \notin Codecs

\* The bounds are numbers.
ASSUME PipelineBounds == {MaxStarts, MaxFailures} \subseteq Nat

\* EncoderKey: routes with equal keys share one capture and encoder.
Keys == [pinned: BOOLEAN, codec: Codecs]
NoKey == [pinned |-> FALSE, codec |-> 0]

\* A route is not a key.
ASSUME KeysApart == Receivers \cap (Keys \cup {NoKey}) = {}

VARIABLES
  route,     \* route[r]: the route and what its pipeline consists of
  slot,      \* slot[k]: the encoder group of key k
  stream,    \* stream[n]: the audio device opened by start n
  opener,    \* opener[n]: the key, or the route, start n is for
  next,      \* next_start_id
  failing,   \* failures the actor has not handled, of the streams of starts
  failed,    \* history: the streams whose device failed
  reopened,  \* routes reopened on the default device under 3 s ago
  failures

vars == <<route, slot, stream, opener, next, failing, failed, reopened,
          failures>>

\* enc, sub: encoder and subscription (of the group of a start), of a sender;
\* start, recv: start_id and the receiver of a start.  0 is none.
Route == [st: {"none", "Starting", "Active"}, codec: Codecs,
          enc: Keys \cup {NoKey}, sub: 0 .. MaxStarts,
          start: 0 .. MaxStarts, recv: 0 .. MaxStarts]
Slot == [st: {"none", "Starting", "Running"}, id: 0 .. MaxStarts,
         waiting: SUBSET Routes]
NoSlot == [st |-> "none", id |-> 0, waiting |-> {}]

\* opened and refused are results of a start the actor has not handled.
Streams == {"none", "opening", "opened", "refused", "used", "dropped"}

----------------------------------------------------------------------------
(* The steps handlers consist of, on x = [route, slot, stream, next].      *)

Now == [route |-> route, slot |-> slot, stream |-> stream, opener |-> opener,
        next |-> next]
Becomes(x) ==
  /\ route' = x.route /\ slot' = x.slot
  /\ stream' = x.stream /\ opener' = x.opener /\ next' = x.next

Drop(x, n) ==
  IF n = 0 \/ x.stream[n] # "used" THEN x
  ELSE [x EXCEPT !.stream[n] = "dropped"]

\* Bug: a group that is still opening is closed as well.
CloseEncoderAny(x, k) ==
  IF k = NoKey \/ x.slot[k].st = "none" THEN x
  ELSE Drop([x EXCEPT !.slot[k] = NoSlot], x.slot[k].id)

\* close_encoder: "only running ones close".
CloseEncoder(x, k) ==
  IF k = NoKey \/ x.slot[k].st # "Running" THEN x
  ELSE Drop([x EXCEPT !.slot[k] = NoSlot], x.slot[k].id)

Listeners(x, k) == {r \in Senders : x.route[r].sub = x.slot[k].id}

\* Bug: a group goes only when its device does.
PruneNothing(x) == x

\* prune_encoders: groups nobody listens to any more are closed.
Prune(x) ==
  LET idle == {k \in Keys : x.slot[k].st = "Running" /\ Listeners(x, k) = {}}
      unused == {x.slot[k].id : k \in idle}
  IN [x EXCEPT !.slot = [k \in Keys |-> IF k \in idle THEN NoSlot ELSE x.slot[k]],
               !.stream = [n \in Starts |-> IF n \in unused THEN "dropped"
                                            ELSE x.stream[n]]]

\* release_pipelines.
Release(x, r) ==
  Prune(Drop([x EXCEPT !.route[r] = [@ EXCEPT !.enc = NoKey, !.sub = 0,
                                              !.start = 0, !.recv = 0]],
             x.route[r].recv))

\* Bug: the id is counted up both when it is taken and after.
OpenSame(x, for) == [x EXCEPT !.next = @ + 2, !.stream[x.next + 1] = "opening",
                              !.opener[x.next + 1] = for]

\* A device begins to open on the blocking pool.
Open(x, for) ==
  [x EXCEPT !.next = @ + 1, !.stream[x.next + 1] = "opening",
            !.opener[x.next + 1] = for]

KeyOf(x, r) == [pinned |-> r \in Pinned, codec |-> x.route[r].codec]

\* activate_route.
Activate(x, r) ==
  IF x.route[r].st = "Starting" THEN [x EXCEPT !.route[r].st = "Active"] ELSE x

\* begin_sender joins the group that runs, waits for the one that opens, or
\* opens one.  activate_route follows at once in the first case.
BeginSender(x, r) ==
  LET k == KeyOf(x, r)
      y == [x EXCEPT !.route[r].enc = k, !.route[r].sub = 0] IN
  CASE x.slot[k].st = "Running" ->
         Activate([y EXCEPT !.route[r].sub = x.slot[k].id], r)
    [] x.slot[k].st = "Starting" -> [y EXCEPT !.slot[k].waiting = @ \cup {r}]
    [] OTHER -> Open([y EXCEPT !.slot[k] = [st |-> "Starting",
                                            id |-> x.next + 1,
                                            waiting |-> {r}]], k)

BeginReceiver(x, r) == Open([x EXCEPT !.route[r].start = x.next + 1], r)

\* begin_pipelines.
Begin(x, r) == IF r \in Senders THEN BeginSender(x, r) ELSE BeginReceiver(x, r)

\* stop_route_by_key or fail_route, and what a route keeps when it is paused.
StopRoute(x, r) == Release([x EXCEPT !.route[r].st = "none"], r)

\* reopen_route_audio: "a capture shared with other routes must really reopen".
Reopen(x, r) == Begin(Release(CloseEncoder(x, x.route[r].enc), r), r)

CanOpen(k) == next + k <= MaxStarts

----------------------------------------------------------------------------
(* Routes. *)

\* accept_route, or on_route_accept.
Start(r, c) ==
  /\ route[r].st = "none" /\ CanOpen(1)
  /\ Becomes(Begin([Now EXCEPT !.route[r].st = "Starting",
                               !.route[r].codec = c], r))
  /\ UNCHANGED <<failing, failed, reopened, failures>>

\* stop_route_by_key, pause_routes_for, remove_routes_for.
Stop(r) ==
  /\ route[r].st # "none"
  /\ Becomes(StopRoute(Now, r))
  /\ UNCHANGED <<failing, failed, reopened, failures>>

\* apply_profile with another encoding, of a route that runs: its pipeline is
\* built again, or cannot be (begin_pipelines fails) and the route ends.
ApplyProfile(r, c) ==
  LET x == Release([Now EXCEPT !.route[r].codec = c], r) IN
  /\ route[r].st = "Active" /\ route[r].codec # c
  /\ \/ CanOpen(1) /\ Becomes(Begin(x, r)) /\ UNCHANGED failures
     \/ /\ failures < MaxFailures /\ failures' = failures + 1
        /\ Becomes(StopRoute(x, r))
  /\ UNCHANGED <<failing, failed, reopened>>

----------------------------------------------------------------------------
(* Devices. *)

Opened(n) ==
  /\ stream[n] = "opening"
  /\ stream' = [stream EXCEPT ![n] = "opened"]
  /\ UNCHANGED <<route, slot, opener, next, failing, failed, reopened, failures>>

Refused(n) ==
  /\ stream[n] = "opening"
  /\ failures < MaxFailures /\ failures' = failures + 1
  /\ stream' = [stream EXCEPT ![n] = "refused"]
  /\ UNCHANGED <<route, slot, opener, next, failing, failed, reopened>>

\* The error callback of a stream: EncoderFailed or AudioFailed is queued.
\* It may come before the start has reported its result.
DeviceFails(n) ==
  /\ stream[n] \in {"opening", "opened", "used"} /\ n \notin failed
  /\ failures < MaxFailures /\ failures' = failures + 1
  /\ failing' = failing \cup {n}
  /\ failed' = failed \cup {n}
  /\ UNCHANGED <<route, slot, stream, opener, next, reopened>>

Current(k, n) == slot[k].st = "Starting" /\ slot[k].id = n

\* The routes rs listen to the group of start n.
Subscribe(x, n, rs) ==
  [x EXCEPT !.route = [r \in Routes |->
     IF r \in rs THEN [x.route[r] EXCEPT !.sub = n, !.st = "Active"]
     ELSE x.route[r]]]

\* fail_route, of all the routes rs: they have no pipelines.
FailAll(x, rs) ==
  Prune([x EXCEPT !.route = [r \in Routes |->
           IF r \in rs
           THEN [x.route[r] EXCEPT !.st = "none", !.enc = NoKey, !.sub = 0]
           ELSE x.route[r]]])

\* on_sender_ready.
OnSenderReady(n) ==
  LET k == opener[n]
      gone == [Now EXCEPT !.stream[n] = "dropped"]
      wait == {r \in slot[k].waiting : route[r].enc = k /\ route[r].sub = 0}
      run == Subscribe([Now EXCEPT !.stream[n] = "used",
                                   !.slot[k] = [st |-> "Running", id |-> n,
                                                waiting |-> {}]], n, wait)
      hurt == {r \in slot[k].waiting : route[r].enc = k} IN
  /\ n <= next /\ k \in Keys /\ stream[n] \in {"opened", "refused"}
  /\ Becomes(CASE ~Current(k, n) -> gone
               [] Current(k, n) /\ stream[n] = "opened" -> Prune(run)
               [] OTHER -> FailAll([gone EXCEPT !.slot[k] = NoSlot], hurt))
  /\ UNCHANGED <<failing, failed, reopened, failures>>

Awaits(r, n) == route[r].start = n

\* on_receiver_ready.
OnReceiverReady(n) ==
  LET r == opener[n]
      gone == [Now EXCEPT !.stream[n] = "dropped"]
      play == Drop([Now EXCEPT !.stream[n] = "used", !.route[r].start = 0,
                               !.route[r].recv = n], route[r].recv) IN
  /\ n <= next /\ r \in Receivers /\ stream[n] \in {"opened", "refused"}
  /\ Becomes(CASE ~Awaits(r, n) -> gone
               [] Awaits(r, n) /\ stream[n] = "opened" -> Activate(play, r)
               [] OTHER -> StopRoute(gone, r))
  /\ UNCHANGED <<failing, failed, reopened, failures>>

\* reopen_on_default_device goes ahead.
Reopens(r) == route[r].st = "Active" /\ r \notin Pinned \cup reopened

\* A route in good reopens; begin_pipelines fails for a bad one, and another one
\* just stops.
ReopenOrStop(x, r, good, bad) ==
  CASE r \in good -> Reopen(x, r)
    [] r \in bad -> StopRoute(CloseEncoder(x, x.route[r].enc), r)
    [] OTHER -> StopRoute(x, r)

\* One route after the other, in the order of the list.
ReopenAll(x, list, good, bad) ==
  LET after[i \in 0 .. Len(list)] ==
        IF i = 0 THEN x ELSE ReopenOrStop(after[i - 1], list[i], good, bad)
  IN after[Len(list)]

\* The orders in which the actor may list the routes rs.
Lists(rs) == Bijection(1 .. Cardinality(rs), rs)

\* The routes rs lost their audio: they reopen on the default device or stop.
Recover(x, rs) ==
  LET try == {r \in rs : Reopens(r)} IN
  /\ reopened' = reopened \cup try
  /\ \E bad \in SUBSET try :
       /\ failures + Cardinality(bad) <= MaxFailures
       /\ failures' = failures + Cardinality(bad)
       /\ \E list \in Lists(rs) : Becomes(ReopenAll(x, list, try \ bad, bad))

\* on_encoder_failed closes the group.
OnEncoderFailed(n) ==
  LET k == opener[n] IN
  /\ n \in failing /\ k \in Keys /\ CanOpen(1)
  /\ failing' = failing \ {n}
  /\ Recover(CloseEncoder(Now, k), {r \in Senders : route[r].enc = k})
  /\ UNCHANGED failed

\* Internal::AudioFailed.
OnAudioFailed(n) ==
  LET r == opener[n] IN
  /\ n \in failing /\ r \in Receivers /\ CanOpen(1)
  /\ failing' = failing \ {n}
  /\ Recover(Now, IF route[r].st = "none" THEN {} ELSE {r})
  /\ UNCHANGED failed

\* on_audio_devices_changed: running routes follow the default device.
DefaultChanged ==
  LET rs == {r \in Routes \ Pinned : route[r].st = "Active"} IN
  /\ rs # {} /\ CanOpen(Cardinality(rs))
  /\ \E bad \in SUBSET rs :
       /\ failures + 1 + Cardinality(bad) <= MaxFailures
       /\ failures' = failures + 1 + Cardinality(bad)
       /\ \E list \in Lists(rs) : Becomes(ReopenAll(Now, list, rs \ bad, bad))
  /\ UNCHANGED <<failing, failed, reopened>>

\* REOPEN_BACKOFF is over.
BackoffPasses(r) ==
  /\ r \in reopened
  /\ reopened' = reopened \ {r}
  /\ UNCHANGED <<route, slot, stream, opener, next, failing, failed, failures>>

----------------------------------------------------------------------------
Init ==
  /\ route \in [Routes -> {[st |-> "none", codec |-> c, enc |-> NoKey,
                            sub |-> 0, start |-> 0, recv |-> 0] :
                           c \in {CHOOSE c \in Codecs : TRUE}}]
  /\ slot = [k \in Keys |-> NoSlot]
  /\ stream = [n \in Starts |-> "none"]
  /\ opener = [n \in Starts |-> NoKey]
  /\ next = 0 /\ failing = {} /\ failed = {} /\ reopened = {} /\ failures = 0

Next ==
  \/ \E r \in Routes : \/ \E c \in Codecs : Start(r, c) \/ ApplyProfile(r, c)
                       \/ Stop(r) \/ BackoffPasses(r)
  \/ \E n \in Starts :
       \/ Opened(n) \/ Refused(n) \/ DeviceFails(n)
       \/ OnSenderReady(n) \/ OnReceiverReady(n)
       \/ OnEncoderFailed(n) \/ OnAudioFailed(n)
  \/ DefaultChanged

Spec == Init /\ [][Next]_vars

----------------------------------------------------------------------------
(* Properties. *)

TypeOK ==
  /\ route \in [Routes -> Route] /\ slot \in [Keys -> Slot]
  /\ stream \in [Starts -> Streams]
  /\ opener \in [Starts -> Keys \cup {NoKey} \cup Receivers]
  /\ next \in 0 .. MaxStarts /\ failures \in Nat
  /\ failing \subseteq failed /\ failed \subseteq Starts
  /\ reopened \subseteq Routes

\* Every open device serves somebody: a running group a route listens to, or
\* a receiver of a route that is not stopped.  A microphone nobody uses is
\* never left open, whatever was stopped while it opened (prune_encoders,
\* on_sender_ready, on_receiver_ready).
CaptureWanted ==
  \A n \in Starts : stream[n] = "used" =>
    \/ \E k \in Keys : /\ slot[k].st = "Running" /\ slot[k].id = n
                       /\ Listeners(Now, k) # {}
    \/ \E r \in Receivers : route[r].st = "Active" /\ route[r].recv = n

\* A route that sends is fed by the group of its encoding, or waits for that
\* group to open: a restart that crosses a result, a failure or another
\* restart never leaves it running without audio (begin_sender,
\* on_sender_ready, apply_profile, reopen_route_audio).
Fed ==
  \A r \in Senders : route[r].st # "none" =>
    LET k == KeyOf(Now, r) IN
    /\ route[r].enc = k
    /\ \/ slot[k].st = "Running" /\ route[r].sub = slot[k].id
       \/ slot[k].st = "Starting" /\ r \in slot[k].waiting
=============================================================================
