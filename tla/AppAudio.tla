------------------------------ MODULE AppAudio ------------------------------
(***************************************************************************)
(* Audio of the mobile app (sp-ffi app_audio.rs).  A playback stream is    *)
(* played by the low-latency path (cpal calls the stream's callback on a   *)
(* thread of its own) or by the platform path (a Kotlin thread pulls the   *)
(* mix of every such stream), and moves between the two while it plays.    *)
(* Recorded audio is pushed by a Kotlin thread to every open feed.         *)
(***************************************************************************)
EXTENDS Naturals, FiniteSets

CONSTANTS
  Streams,   \* playback streams the engine may open
  Feeds,     \* capture streams fed by one recorder
  MaxTurns,  \* bound on what the user and the engine do
  MaxFaults  \* bound on streams and players that cannot be opened, or stop by themselves

VARIABLES
  entries,   \* Renders::entries: how each stream is played
  live,      \* streams with a running cpal stream
  cb,        \* who runs the callback of a stream
  handle,    \* what the engine holds of each stream
  platform,  \* Renders::platform
  lock,      \* who holds Renders: "free", "switch", "pull"
  todo,      \* streams its loop has still to visit
  player,    \* StreamingService.playback
  threads,   \* the player threads that run: "now" the player's, "old" a stopped one's
  puller,    \* the thread that pulls
  due,       \* the service has a change to look at
  broken,    \* the player could not be opened, or its thread gave up
  feeds,     \* Source::feeds
  pushes,    \* feeds the recorder's thread has still to call, with Source locked; or nothing
  running,   \* the feed whose callback it runs
  turns, faults

renders == <<entries, live, cb, handle, platform, lock, todo>>
service == <<player, threads, puller, due, broken>>
capture == <<feeds, pushes, running>>
vars == <<renders, service, capture, turns, faults>>

Nothing == {"unlocked"}
Turn == turns < MaxTurns /\ turns' = turns + 1
Fault == faults < MaxFaults /\ faults' = faults + 1

Init ==
  /\ entries = [s \in Streams |-> "none"] /\ live = {} /\ cb = [s \in Streams |-> "free"]
  /\ handle = [s \in Streams |-> "closed"] /\ platform = FALSE /\ lock = "free" /\ todo = {}
  /\ player = FALSE /\ threads = {} /\ puller = "none" /\ due = FALSE /\ broken = FALSE
  /\ feeds = {} /\ pushes = Nothing /\ running = {} /\ turns = 0 /\ faults = 0

----------------------------------------------------------------------------
(* Playback.                                                               *)

\* open_fast: the stream opens and cpal calls back, or it cannot be opened.
OpenFast(s) == /\ entries' = [entries EXCEPT ![s] = "fast"] /\ live' = live \cup {s}
               /\ UNCHANGED faults
Fallback(s) == /\ entries' = [entries EXCEPT ![s] = "platform"] /\ Fault /\ UNCHANGED live

\* open_render, on the thread of the pipeline; the route's state changes, which the service sees.
OpenRender(s) ==
  /\ handle[s] = "closed" /\ lock = "free" /\ Turn
  /\ handle' = [handle EXCEPT ![s] = "open"] /\ due' = TRUE
  /\ \/ platform /\ entries' = [entries EXCEPT ![s] = "platform"] /\ UNCHANGED <<live, faults>>
     \/ ~platform /\ (OpenFast(s) \/ Fallback(s))
  /\ UNCHANGED <<cb, platform, lock, todo, player, threads, puller, broken, capture>>

\* The cpal thread: try_lock, silence when it fails.
FastCalls(s) ==
  /\ s \in live /\ cb[s] = "free" /\ cb' = [cb EXCEPT ![s] = "fast"]
  /\ UNCHANGED <<entries, live, handle, platform, lock, todo, service, capture, turns, faults>>
FastReturns(s) ==
  /\ cb[s] = "fast" /\ cb' = [cb EXCEPT ![s] = "free"]
  /\ UNCHANGED <<entries, live, handle, platform, lock, todo, service, capture, turns, faults>>

\* Bug: a cpal stream is let go of while its thread runs.
JoinedNever(s) == TRUE

\* Dropping a cpal stream joins its thread.
Joined(s) == cb[s] # "fast"

\* set_platform_output, from applyPlatformOutput when the setting changed.
SetPlatformOutput ==
  /\ lock = "free" /\ Turn
  /\ platform' = ~platform /\ lock' = "switch" /\ todo' = {s \in Streams : entries[s] # "none"}
  /\ UNCHANGED <<entries, live, cb, handle, service, capture, faults>>

\* Bug: the fast stream is left running when the platform takes over.
KeepsFast(s) == live

\* drop(entry.fast.take()).
TakesFast(s) == live \ {s}

SwitchStream(s) ==
  /\ lock = "switch" /\ s \in todo /\ todo' = todo \ {s}
  /\ \/ /\ platform /\ (s \in live => Joined(s))
        /\ live' = TakesFast(s) /\ entries' = [entries EXCEPT ![s] = "platform"]
        /\ UNCHANGED faults
     \/ ~platform /\ s \in live /\ UNCHANGED <<entries, live, faults>>
     \/ ~platform /\ s \notin live /\ (OpenFast(s) \/ Fallback(s))
  /\ UNCHANGED <<cb, handle, platform, lock, service, capture, turns>>
\* The state with the new setting is published after the switch.
SwitchEnds ==
  /\ lock = "switch" /\ todo = {} /\ lock' = "free" /\ due' = TRUE
  /\ UNCHANGED <<entries, live, cb, handle, platform, todo, player, threads, puller, broken,
                 capture, turns, faults>>

\* pull_playback_pcm16: every stream without a fast path, with Renders locked.
Pulled == {s \in Streams : entries[s] = "platform"}
Pull(w) ==
  /\ w \in threads /\ lock = "free" /\ lock' = "pull" /\ puller' = w /\ todo' = Pulled
  /\ UNCHANGED <<entries, live, cb, handle, platform, player, threads, due, broken, capture, turns,
                 faults>>
PullStream(s) ==
  /\ lock = "pull" /\ s \in todo
  /\ \/ cb[s] = "free" /\ cb' = [cb EXCEPT ![s] = "pull"] /\ todo' = todo
     \/ cb[s] = "pull" /\ cb' = [cb EXCEPT ![s] = "free"] /\ todo' = todo \ {s}
  /\ UNCHANGED <<entries, live, handle, platform, lock, service, capture, turns, faults>>
\* A stopped player's thread ends after the pull it was in.
PullEnds ==
  /\ lock = "pull" /\ todo = {} /\ lock' = "free" /\ puller' = "none"
  /\ threads' = IF puller = "old" THEN threads \ {"old"} ELSE threads
  /\ UNCHANGED <<entries, live, cb, handle, platform, todo, player, due, broken, capture, turns,
                 faults>>

\* Drop of a RenderHandle: the entry goes under the lock, the cpal stream after it.
DropHandle(s) ==
  /\ handle[s] = "open" /\ lock = "free" /\ handle' = [handle EXCEPT ![s] = "closing"]
  /\ entries' = [entries EXCEPT ![s] = "none"] /\ due' = TRUE
  /\ UNCHANGED <<live, cb, platform, lock, todo, player, threads, puller, broken, capture, turns,
                 faults>>
DropStream(s) ==
  /\ handle[s] = "closing" /\ (s \in live => Joined(s))
  /\ handle' = [handle EXCEPT ![s] = "closed"] /\ live' = live \ {s}
  /\ UNCHANGED <<entries, cb, platform, lock, todo, service, capture, turns, faults>>

----------------------------------------------------------------------------
(* syncPlatformPlayback of the Android service.                            *)

\* platform_output_active, while a stream keeps the service alive.
PlatformOutputActive == Pulled # {} /\ \E s \in Streams : handle[s] = "open"

\* A stopped player's thread may have one pull to go.
Retire == IF "now" \in threads THEN {"old"} \cup (threads \ {"now"}) ELSE threads

\* Bug: a player is started only when the user asks for one.
WantedAsSet == platform /\ PlatformOutputActive

Wanted == PlatformOutputActive

SyncPlatformPlayback ==
  /\ due /\ lock = "free" /\ due' = FALSE
  /\ \/ Wanted = player /\ UNCHANGED <<player, threads, broken, faults>>
     \/ /\ Wanted /\ ~player
        /\ \/ player' = TRUE /\ threads' = threads \cup {"now"} /\ broken' = FALSE /\ UNCHANGED faults
           \/ player' = FALSE /\ broken' = TRUE /\ Fault /\ UNCHANGED threads
     \/ ~Wanted /\ player /\ player' = FALSE /\ threads' = Retire /\ broken' = FALSE /\ UNCHANGED faults
     \* The other kind of player was chosen.
     \/ Wanted /\ player /\ threads' = Retire \cup {"now"} /\ broken' = FALSE /\ UNCHANGED <<player, faults>>
  /\ UNCHANGED <<renders, puller, capture, turns>>

\* The thread ends when the track cannot be written; nothing tells the service.
PlayerFails ==
  /\ "now" \in threads /\ puller # "now" /\ Fault
  /\ threads' = threads \ {"now"} /\ broken' = TRUE
  /\ UNCHANGED <<renders, player, puller, due, capture, turns>>

----------------------------------------------------------------------------
(* Recorded audio: push_pcm16, open_feed, drop of a FeedStream.            *)

\* Bug: the list of feeds is copied, not locked.
FreeToChangeAlways == TRUE

\* Source is locked for as long as the callbacks run.
FreeToChange == pushes = Nothing

OpenFeed(f) ==
  /\ f \notin feeds /\ FreeToChange /\ Turn /\ feeds' = feeds \cup {f}
  /\ UNCHANGED <<renders, service, pushes, running, faults>>
DropFeed(f) ==
  /\ f \in feeds /\ FreeToChange /\ feeds' = feeds \ {f}
  /\ UNCHANGED <<renders, service, pushes, running, turns, faults>>
Push ==
  /\ pushes = Nothing /\ feeds # {} /\ pushes' = feeds
  /\ UNCHANGED <<renders, service, feeds, running, turns, faults>>
PushTo(f) ==
  /\ pushes # Nothing /\ f \in pushes
  /\ \/ running = {} /\ running' = {f} /\ pushes' = pushes
     \/ running = {f} /\ running' = {} /\ pushes' = pushes \ {f}
  /\ UNCHANGED <<renders, service, feeds, turns, faults>>
PushEnds ==
  /\ pushes = {} /\ pushes' = Nothing
  /\ UNCHANGED <<renders, service, feeds, running, turns, faults>>

Next ==
  \/ \E s \in Streams : \/ OpenRender(s) \/ FastCalls(s) \/ FastReturns(s) \/ SwitchStream(s)
                        \/ PullStream(s) \/ DropHandle(s) \/ DropStream(s)
  \/ SetPlatformOutput \/ SwitchEnds \/ PullEnds \/ SyncPlatformPlayback \/ PlayerFails
  \/ \E w \in {"now", "old"} : Pull(w)
  \/ \E f \in Feeds : OpenFeed(f) \/ DropFeed(f) \/ PushTo(f)
  \/ Push \/ PushEnds

Spec == Init /\ [][Next]_vars

----------------------------------------------------------------------------

TypeOK ==
  /\ entries \in [Streams -> {"none", "fast", "platform"}] /\ live \subseteq Streams
  /\ cb \in [Streams -> {"free", "fast", "pull"}]
  /\ handle \in [Streams -> {"closed", "open", "closing"}]
  /\ lock \in {"free", "switch", "pull"} /\ todo \subseteq Streams
  /\ player \in BOOLEAN /\ threads \subseteq {"now", "old"} /\ puller \in {"none", "now", "old"}
  /\ feeds \subseteq Feeds /\ running \subseteq Feeds /\ turns \in 0..MaxTurns /\ faults \in 0..MaxFaults

\* A stream's audio is consumed by one path at a time: no pull takes it while its cpal stream
\* runs, so a switch while it plays neither drops nor repeats audio.
ConsumedOnce == \A s \in Streams : s \in live => cb[s] # "pull" /\ entries[s] # "platform"

\* Once the engine has let go of a stream its callback is not running and never runs again,
\* whichever thread was in it.
SilentOnceDropped ==
  /\ \A s \in Streams : handle[s] = "closed" => s \notin live /\ cb[s] = "free"
  /\ running \subseteq feeds

\* Every open stream is played by someone once the service has looked: by cpal, or by a player
\* when it fell back or was switched; except after a player that failed.
Played ==
  lock = "free" /\ ~due /\ ~broken =>
    \A s \in Streams : handle[s] = "open" => s \in live \/ "now" \in threads
=============================================================================
