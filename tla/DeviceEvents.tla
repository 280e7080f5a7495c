---------------------------- MODULE DeviceEvents ----------------------------
(***************************************************************************)
(* How a change of the computer's audio devices reaches a running route:   *)
(* the sound server tells the watcher thread (pulse.rs watch_devices) or,  *)
(* on Windows and macOS, the system calls back; they tell the thread that  *)
(* merges bursts (device_watch.rs), that one tells the engine, and the     *)
(* engine lists the devices again on another thread and reopens the routes *)
(* that follow the default device.                                         *)
(***************************************************************************)
EXTENDS Naturals, Sequences, FiniteSets

CONSTANTS
  Jobs,        \* listings of devices that may run at a time
  MaxChanges,  \* bound on what happens to the devices
  MaxRestarts  \* bound on the restarts of the sound server

VARIABLES
  server,    \* the sound server: whether it runs, its list of devices and its default
  watcher,   \* the watcher thread; "direct" where the system calls back instead (Windows, macOS)
  pending,   \* what the server told it: devices added or removed, server changed
  last,      \* the default device it knows
  changes,   \* the channel to the merging thread
  burst,     \* the burst that thread is merging: none or one change
  calls,     \* AudioDevicesChanged commands for the engine
  jobs,      \* what each listing of the devices found
  listed,    \* AudioDevicesListed events for the engine
  devices,   \* Actor::audio_devices
  route,     \* a route on the default device: its status and the device it opened
  skipped,   \* a change came while the route was starting
  missed,    \* the default changed before the watcher first asked for it
  crossed,   \* a listing ended after one that began later
  turns, restarts

thread == <<watcher, pending, last>>
engine == <<jobs, listed, devices, route, skipped, crossed>>
vars == <<server, thread, changes, burst, calls, engine, missed, turns, restarts>>

\* A list of devices is told apart by its number, and so is the default.
Versions == 0..MaxChanges
Free == [st |-> "free", list |-> 0]

Init ==
  /\ server = [up |-> TRUE, list |-> 0, default |-> 0]
  /\ watcher \in {"first", "direct"} /\ pending = [devices |-> FALSE, server |-> FALSE] /\ last = 0
  /\ changes = <<>> /\ burst = {} /\ calls = <<>>
  /\ jobs = [j \in Jobs |-> Free] /\ listed = <<>> /\ devices = 0
  /\ route = [status |-> "none", on |-> 0]
  /\ skipped = FALSE /\ missed = FALSE /\ crossed = FALSE /\ turns = 0 /\ restarts = 0

----------------------------------------------------------------------------
(* The computer.                                                           *)

Subscribed == watcher \in {"subscribed", "follows"}
\* A change that no one will report: the watcher has not subscribed yet, or not yet asked
\* for the default it compares with.
Unread(states) == watcher \in states

Change(d) == [default |-> d]

\* OnDeviceAdded, OnDeviceRemoved; on_property of macOS.
CallsBack(d) == IF watcher = "direct" THEN Append(changes, Change(d)) ELSE changes

Plug ==
  /\ server.up /\ turns < MaxChanges /\ turns' = turns + 1
  /\ server' = [server EXCEPT !.list = turns + 1]
  /\ pending' = IF Subscribed THEN [pending EXCEPT !.devices = TRUE] ELSE pending
  /\ changes' = CallsBack(FALSE)
  /\ missed' = (missed \/ Unread({"first", "connected"}))
  /\ UNCHANGED <<watcher, last, burst, calls, engine, restarts>>

NewDefault ==
  /\ server.up /\ turns < MaxChanges /\ turns' = turns + 1
  /\ server' = [server EXCEPT !.default = turns + 1]
  /\ pending' = IF Subscribed THEN [pending EXCEPT !.server = TRUE] ELSE pending
  /\ changes' = CallsBack(TRUE)
  /\ missed' = (missed \/ Unread({"first", "connected", "subscribed"}))
  /\ UNCHANGED <<watcher, last, burst, calls, engine, restarts>>

\* The watcher's connection goes with the server; it tries again until there is one.
ServerStops ==
  /\ server.up /\ watcher # "direct" /\ restarts < MaxRestarts /\ restarts' = restarts + 1
  /\ server' = [server EXCEPT !.up = FALSE] /\ watcher' = "retry"
  /\ UNCHANGED <<pending, last, changes, burst, calls, engine, missed, turns>>
ServerStarts ==
  /\ ~server.up
  /\ \E d \in {server.default, turns} : server' = [up |-> TRUE, list |-> turns, default |-> d]
  /\ UNCHANGED <<thread, changes, burst, calls, engine, missed, turns, restarts>>

----------------------------------------------------------------------------
(* watch_devices and follow_devices.                                       *)

\* Bug: a server that comes back is not reported.
ToldBackNothing == changes

\* Devices may differ when the server is back: both defaults are reported.
ToldBack == Append(changes, Change(TRUE))

Connect ==
  /\ watcher \in {"first", "retry"} /\ server.up
  /\ changes' = IF watcher = "retry" THEN ToldBack ELSE changes
  /\ watcher' = "connected"
  /\ missed' = (missed /\ watcher = "first")
  /\ UNCHANGED <<server, pending, last, burst, calls, engine, turns, restarts>>

Subscribe ==
  /\ watcher = "connected" /\ server.up
  /\ watcher' = "subscribed" /\ pending' = [devices |-> FALSE, server |-> FALSE]
  /\ UNCHANGED <<server, last, changes, burst, calls, engine, missed, turns, restarts>>

AskDefault ==
  /\ watcher = "subscribed" /\ server.up
  /\ watcher' = "follows" /\ last' = server.default
  /\ UNCHANGED <<server, pending, changes, burst, calls, engine, missed, turns, restarts>>

\* The loop of follow_devices: the flags are taken before the server is asked.
Follow ==
  /\ watcher = "follows" /\ server.up /\ (pending.devices \/ pending.server)
  /\ pending' = [devices |-> FALSE, server |-> FALSE]
  /\ last' = IF pending.server THEN server.default ELSE last
  /\ changes' = IF pending.devices \/ last' # last
                THEN Append(changes, Change(last' # last)) ELSE changes
  /\ UNCHANGED <<server, watcher, burst, calls, engine, missed, turns, restarts>>

----------------------------------------------------------------------------
(* device_watch::start: a burst is merged until SETTLE passes without news. *)

\* Bug: what a burst ends with is all the engine is told.
MergeLast(a, b) == b

\* Change::merge.
Merge(a, b) == [default |-> a.default \/ b.default]

Receive ==
  /\ changes # <<>> /\ changes' = Tail(changes)
  /\ burst' = IF burst = {} THEN {Head(changes)} ELSE {Merge(b, Head(changes)) : b \in burst}
  /\ UNCHANGED <<server, thread, calls, engine, missed, turns, restarts>>

Settled ==
  /\ changes = <<>> /\ \E b \in burst : calls' = Append(calls, b)
  /\ burst' = {}
  /\ UNCHANGED <<server, thread, changes, engine, missed, turns, restarts>>

----------------------------------------------------------------------------
(* The engine.                                                             *)

\* on_audio_devices_changed: refresh_audio_devices, and an active route that
\* follows the default is reopened on what is the default by then.
OnAudioDevicesChanged ==
  /\ calls # <<>> /\ calls' = Tail(calls)
  /\ \E j \in Jobs : jobs[j] = Free /\ jobs' = [jobs EXCEPT ![j].st = "lists"]
  /\ route' = IF Head(calls).default /\ route.status = "active"
              THEN [route EXCEPT !.status = "opening"] ELSE route
  /\ skipped' = (skipped \/ (Head(calls).default /\ route.status = "opened"))
  /\ UNCHANGED <<server, thread, changes, burst, listed, devices, crossed, missed, turns, restarts>>

\* The blocking task of refresh_audio_devices reads the list (an error lists nothing), and sends it.
List(j) ==
  /\ jobs[j].st = "lists" /\ jobs' = [jobs EXCEPT ![j] = [st |-> "has", list |-> IF server.up THEN server.list ELSE 0]]
  /\ UNCHANGED <<server, thread, changes, burst, calls, listed, devices, route, skipped, crossed,
                 missed, turns, restarts>>
SendList(j) ==
  /\ jobs[j].st = "has"
  /\ listed' = Append(listed, jobs[j].list) /\ jobs' = [jobs EXCEPT ![j] = Free]
  /\ crossed' = (crossed \/ \E k \in Jobs \ {j} : jobs[k].st = "has" /\ jobs[k].list < jobs[j].list)
  /\ UNCHANGED <<server, thread, changes, burst, calls, devices, route, skipped, missed, turns,
                 restarts>>
\* Internal::AudioDevicesListed.
OnListed ==
  /\ listed # <<>> /\ listed' = Tail(listed) /\ devices' = Head(listed)
  /\ UNCHANGED <<server, thread, changes, burst, calls, jobs, route, skipped, crossed, missed, turns,
                 restarts>>

\* A route starts, opens the default device on its own thread, and is active once the engine hears.
RouteStarts ==
  /\ route.status = "none" /\ route' = [route EXCEPT !.status = "opening"]
  /\ UNCHANGED <<server, thread, changes, burst, calls, jobs, listed, devices, skipped, crossed,
                 missed, turns, restarts>>
RouteOpens ==
  /\ server.up /\ route.status = "opening" /\ route' = [status |-> "opened", on |-> server.default]
  /\ UNCHANGED <<server, thread, changes, burst, calls, jobs, listed, devices, skipped, crossed,
                 missed, turns, restarts>>
RouteReady ==
  /\ route.status = "opened" /\ route' = [route EXCEPT !.status = "active"]
  /\ UNCHANGED <<server, thread, changes, burst, calls, jobs, listed, devices, skipped, crossed,
                 missed, turns, restarts>>

Next ==
  \/ Plug \/ NewDefault \/ ServerStops \/ ServerStarts
  \/ Connect \/ Subscribe \/ AskDefault \/ Follow
  \/ Receive \/ Settled \/ OnAudioDevicesChanged \/ OnListed
  \/ \E j \in Jobs : List(j) \/ SendList(j)
  \/ RouteStarts \/ RouteOpens \/ RouteReady

Spec == Init /\ [][Next]_vars

----------------------------------------------------------------------------

TypeOK ==
  /\ server.up \in BOOLEAN /\ server.list \in Versions /\ server.default \in Versions
  /\ watcher \in {"first", "connected", "subscribed", "follows", "retry", "direct"} /\ last \in Versions
  /\ Cardinality(burst) <= 1 /\ jobs \in [Jobs -> [st: {"free", "lists", "has"}, list: Versions]]
  /\ devices \in Versions /\ route.status \in {"none", "opening", "opened", "active"}
  /\ turns \in Versions /\ restarts \in 0..MaxRestarts

\* Everything that was said has been heard.
Quiet ==
  /\ server.up /\ watcher \in {"follows", "direct"} /\ ~pending.devices /\ ~pending.server
  /\ changes = <<>> /\ burst = {} /\ calls = <<>> /\ listed = <<>>
  /\ \A j \in Jobs : jobs[j] = Free

\* Once everything is quiet, a running route plays on the device that is the default, through
\* bursts and restarts of the server; except for what the code gives up: a change while the
\* route was starting, and one before the watcher first asked what the default is.
FollowsDefault ==
  Quiet /\ route.status = "active" /\ ~skipped /\ ~missed => route.on = server.default

\* And the list of devices the engine shows is the present one, unless two listings crossed or
\* the devices changed before the watcher had subscribed.
ListsPresent == Quiet /\ ~crossed /\ ~missed => devices = server.list
----------------------------------------------------------------------------
(* The inductive invariant.  A default that a route does not play on, and  *)
(* a list that the engine does not have, are on their way to it: the       *)
(* watcher has to ask, or a change was told, or a listing runs.            *)

Changes == [default: BOOLEAN]

ToldTyped ==
  /\ changes \in Seq(Changes) /\ burst \subseteq Changes /\ calls \in Seq(Changes)
  /\ \A a, b \in burst : a = b

Typed ==
  /\ ToldTyped
  /\ server \in [up: BOOLEAN, list: Nat, default: Nat]
  /\ watcher \in {"first", "connected", "subscribed", "follows", "retry", "direct"}
  /\ pending \in [devices: BOOLEAN, server: BOOLEAN] /\ last \in Nat
  /\ jobs \in [Jobs -> [st: {"free", "lists", "has"}, list: Nat]]
  /\ listed \in Seq(Nat) /\ devices \in Nat
  /\ route \in [status: {"none", "opening", "opened", "active"}, on: Nat]
  /\ skipped \in BOOLEAN /\ missed \in BOOLEAN /\ crossed \in BOOLEAN
  /\ turns \in Nat /\ restarts \in Nat

Numbered ==
  /\ server.list <= turns /\ server.default <= turns /\ last <= turns
  /\ \A j \in Jobs : jobs[j].list <= server.list

HasDefault(cs) == \E i \in DOMAIN cs : cs[i].default
DefaultTold == HasDefault(changes) \/ (\E b \in burst : b.default) \/ HasDefault(calls)
AnyTold == changes # <<>> \/ burst # {} \/ calls # <<>>

Follows ==
  route.status \in {"opened", "active"} /\ ~skipped /\ ~missed /\ route.on # server.default =>
    DefaultTold \/ watcher = "retry" \/ (watcher = "follows" /\ last # server.default)

Listing(j) == jobs[j].st = "lists" \/ (jobs[j].st = "has" /\ jobs[j].list = server.list)
Coming ==
  \/ AnyTold \/ watcher = "retry"
  \/ Subscribed /\ pending.devices
  \/ \E j \in Jobs : Listing(j)

\* What the engine has when it has read what was sent to it.
Newest == IF listed = <<>> THEN devices ELSE listed[Len(listed)]

Present ==
  ~missed /\ ~crossed /\ ~Coming => Newest = server.list /\ \A j \in Jobs : jobs[j].st # "has"

\* A server that stopped is tried again, and one whose default is another has said so.
Watched ==
  /\ ~server.up => watcher = "retry"
  /\ watcher = "follows" /\ last # server.default => pending.server

Inv == Typed /\ Numbered /\ Watched /\ Follows /\ Present
=============================================================================
