----------------------------- MODULE Microphone -----------------------------
(***************************************************************************)
(* The microphone of a device: its mute, which several shared captures and *)
(* several routes must follow, noise suppression that switches itself off, *)
(* the monitor ("listen to my mic") and the keep-alive signal by which a   *)
(* phone holds its recorder (sp-engine's local_audio.rs, denoise.rs and    *)
(* the microphone parts of actor.rs and pipelines.rs).                     *)
(*                                                                         *)
(* A route is one of three kinds: it sends the microphone ("mic"), the     *)
(* microphone mixed into the system audio ("mixed"), or plays a peer's     *)
(* microphone into the virtual microphone ("feed").  Routes that send the  *)
(* same share a capture group.  Opening a device takes a step of its own.  *)
(***************************************************************************)
EXTENDS Naturals, FiniteSets

CONSTANTS
  Kind,       \* Kind[r]: the kind of route r
  Recovery,   \* RECOVERY_STEPS of the noise suppression's supervisor
  IdleTicks,  \* AUDIO_IDLE, in ticks
  MaxTurns    \* bound on what users, peers and devices do

Routes == DOMAIN Kind
Groups == {"mic", "mixed"}
IsMic(r) == Kind[r] \in {"mic", "feed"}
IsSource(r) == Kind[r] \in Groups

VARIABLES
  micMuted,   \* Actor::mic_muted
  route,      \* route[r]: status, mute and the mute flag its audio thread reads
  group,      \* group[g]: EncoderSlot, its routes and the flags of its controls
  noise,      \* the setting "noise suppression"
  suspended, healthy,  \* DenoiseSupervisor
  monitor,    \* Actor::monitor
  keepMic,    \* KeepAlive::microphone as the shell last heard it
  idle, closed,        \* IdleAudio: ticks without audio; back ends closed
  overruled,  \* history: feeds unmuted by the peer during the microphone mute
  turns

supervisor == <<suspended, healthy>>
idling == <<idle, closed>>
vars == <<micMuted, route, group, noise, supervisor, monitor, keepMic, idling,
          overruled, turns>>

NoRoute == [status |-> "none", muted |-> FALSE, flag |-> FALSE, open |-> FALSE]
NoGroup == [slot |-> "none", routes |-> {}, muted |-> FALSE, denoise |-> FALSE]

Turn == turns < MaxTurns /\ turns' = turns + 1

Init ==
  /\ micMuted = FALSE
  /\ route = [r \in Routes |-> NoRoute]
  /\ group = [g \in Groups |-> NoGroup]
  /\ noise \in BOOLEAN /\ suspended = FALSE /\ healthy = 0
  /\ monitor = FALSE /\ keepMic = FALSE
  /\ idle = 0 /\ closed = FALSE
  /\ overruled = {} /\ turns = 0

----------------------------------------------------------------------------
(* What handlers share.                                                    *)

\* update_keep_alive, from the routes and the monitor there are then
NeedsMic(routes, mon) ==
  mon \/ \E r \in Routes : routes[r].status = "active" /\ IsSource(r)

\* Bug: only the groups of plain microphone routes are updated.
UpdateMicOnly(groups, muted, denoise) ==
  [g \in Groups |->
     IF groups[g].slot = "running" /\ g = "mic"
     THEN [groups[g] EXCEPT !.muted = muted, !.denoise = denoise]
     ELSE groups[g]]

\* update_mic_groups: running groups take the mute (a mixed one for its
\* microphone half) and whether to denoise.
UpdateMicGroups(groups, muted, denoise) ==
  [g \in Groups |->
     IF groups[g].slot = "running"
     THEN [groups[g] EXCEPT !.muted = muted, !.denoise = denoise]
     ELSE groups[g]]

DenoiseHere == noise /\ ~suspended

\* prune_encoders
Prune(groups) ==
  [g \in Groups |->
     IF groups[g].slot = "running" /\ groups[g].routes = {} THEN NoGroup
     ELSE groups[g]]

\* begin_sender: new controls for the route, and the group it joins or opens
Join(groups, r) ==
  LET g == Kind[r] IN
  IF groups[g].slot # "none" THEN [groups EXCEPT ![g].routes = @ \cup {r}]
  ELSE [groups EXCEPT ![g] = [slot |-> "starting", routes |-> {r},
                              muted |-> micMuted, denoise |-> DenoiseHere]]

SilentAtBegin(r) == route[r].muted \/ (IsMic(r) /\ micMuted)

Leave(r) ==
  Prune([g \in Groups |-> [group[g] EXCEPT !.routes = @ \ {r}]])

----------------------------------------------------------------------------
(* Routes.                                                                 *)

\* begin_pipelines of a new route: begin_receiver, or begin_sender, which
\* is ready at once if the capture already runs.
Begin(r) ==
  LET ready == IsSource(r) /\ group[Kind[r]].slot = "running"
      new == [status |-> IF ready THEN "active" ELSE "starting",
              muted |-> FALSE, flag |-> IsMic(r) /\ micMuted, open |-> ready]
  IN
  /\ route[r].status = "none" /\ Turn
  /\ route' = [route EXCEPT ![r] = new]
  /\ group' = IF IsSource(r) THEN Join(group, r) ELSE group
  /\ keepMic' = NeedsMic(route', monitor)
  /\ UNCHANGED <<micMuted, noise, supervisor, monitor, idling, overruled>>

\* Bug: settings that changed while the device was opening are not applied.
RefreshNothing(groups) == groups

\* "Settings may have changed while the device was opening."
Refresh(groups) == UpdateMicGroups(groups, micMuted, DenoiseHere)

\* on_sender_ready
SenderReady(g) ==
  /\ group[g].slot = "starting"
  /\ \/ /\ route' = [r \in Routes |->
             IF r \in group[g].routes
             THEN [route[r] EXCEPT !.status = "active", !.open = TRUE]
             ELSE route[r]]
        /\ group' = Prune(Refresh([group EXCEPT ![g].slot = "running"]))
        /\ UNCHANGED turns
     \/ /\ Turn
        /\ route' = [r \in Routes |->
             IF r \in group[g].routes THEN NoRoute ELSE route[r]]
        /\ group' = [group EXCEPT ![g] = NoGroup]
  /\ keepMic' = NeedsMic(route', monitor)
  /\ UNCHANGED <<micMuted, noise, supervisor, monitor, idling, overruled>>

\* on_receiver_ready
ReceiverReady(r) ==
  /\ ~IsSource(r) /\ route[r].status = "starting"
  /\ \/ /\ route' = [route EXCEPT ![r].status = "active", ![r].open = TRUE]
        /\ UNCHANGED <<overruled, turns>>
     \/ /\ Turn /\ route' = [route EXCEPT ![r] = NoRoute]
        /\ overruled' = overruled \ {r}
  /\ keepMic' = NeedsMic(route', monitor)
  /\ UNCHANGED <<micMuted, group, noise, supervisor, monitor, idling>>

\* Bug: a stopped route's keep-alive is left to the next one.
KeepsAsIs(routes) == keepMic

KeepsAfterStop(routes) == NeedsMic(routes, monitor)

\* stop_route_by_key
Stop(r) ==
  /\ route[r].status # "none" /\ Turn
  /\ route' = [route EXCEPT ![r] = NoRoute]
  /\ group' = Leave(r)
  /\ keepMic' = KeepsAfterStop(route')
  /\ overruled' = overruled \ {r}
  /\ UNCHANGED <<micMuted, noise, supervisor, monitor, idling>>

\* on_encoder_failed: the group closes; its routes stop, or reopen on the
\* default device with new controls (reopen_route_audio).
EncoderFailed(g, reopens) ==
  LET hit == group[g].routes
      left == [group EXCEPT ![g] = NoGroup] IN
  /\ group[g].slot = "running" /\ Turn
  /\ route' = [r \in Routes |->
       IF r \notin hit THEN route[r]
       ELSE IF reopens
            THEN [route[r] EXCEPT !.flag = SilentAtBegin(r), !.open = FALSE]
            ELSE NoRoute]
  /\ group' = IF reopens
              THEN [left EXCEPT ![g] = [slot |-> "starting", routes |-> hit,
                                        muted |-> micMuted,
                                        denoise |-> DenoiseHere]]
              ELSE left
  /\ keepMic' = NeedsMic(route', monitor)
  /\ UNCHANGED <<micMuted, noise, supervisor, monitor, idling, overruled>>

----------------------------------------------------------------------------
(* Mutes.                                                                  *)

HasControls(r) == route[r].status # "none"

\* set_mic_muted
SetMicMuted ==
  /\ Turn /\ micMuted' = ~micMuted
  /\ group' = UpdateMicGroups(group, micMuted', DenoiseHere)
  /\ route' = [r \in Routes |->
       IF IsMic(r) /\ HasControls(r)
       THEN [route[r] EXCEPT !.flag = micMuted' \/ route[r].muted]
       ELSE route[r]]
  /\ overruled' = {}
  /\ UNCHANGED <<noise, supervisor, monitor, keepMic, idling>>

\* Bug: a route's mute sets its flag whatever the microphone mute is.
SilentAsTold(r, m) == m

\* "The microphone mute keeps microphone routes silent whatever the route says."
Silent(r, m) == m \/ (IsMic(r) /\ micMuted)

\* Command::SetRouteMuted
SetRouteMuted(r) ==
  /\ HasControls(r) /\ Turn
  /\ \E m \in BOOLEAN :
       route' = [route EXCEPT ![r].muted = m, ![r].flag = Silent(r, m)]
  /\ UNCHANGED <<micMuted, group, noise, supervisor, monitor, keepMic, idling,
                 overruled>>

\* on_remote_mute: only a receiver's flag follows, and it does so whatever the
\* microphone mute is.
RemoteMute(r) ==
  /\ HasControls(r) /\ Turn
  /\ \E m \in BOOLEAN :
       /\ route' = [route EXCEPT ![r].muted = m,
                                 ![r].flag = IF IsSource(r) THEN @ ELSE m]
       /\ overruled' = IF ~m /\ ~IsSource(r) /\ micMuted
                       THEN overruled \cup {r} ELSE overruled
  /\ UNCHANGED <<micMuted, group, noise, supervisor, monitor, keepMic, idling>>

----------------------------------------------------------------------------
(* Noise suppression, monitor, idle audio.                                 *)

\* apply_settings: a changed setting forgets a suspension.
SetNoise ==
  /\ Turn /\ noise' = ~noise
  /\ suspended' = FALSE /\ healthy' = 0
  /\ group' = UpdateMicGroups(group, micMuted, noise')
  /\ UNCHANGED <<micMuted, route, monitor, keepMic, idling, overruled>>

\* DenoiseSupervisor::step; overrun: OVERRUN_LIMIT was reached since the last.
Step(overrun) ==
  IF ~noise THEN suspended' = FALSE /\ healthy' = 0
  ELSE IF overrun THEN suspended' = TRUE /\ healthy' = 0
  ELSE IF ~suspended THEN UNCHANGED supervisor
  ELSE /\ suspended' = (healthy + 1 < Recovery)
       /\ healthy' = IF healthy + 1 < Recovery THEN healthy + 1 ELSE 0

InUse == \/ monitor \/ \E g \in Groups : group[g].slot # "none"
         \/ \E r \in Routes : route[r].status # "none"

\* IdleAudio::update
UpdateIdle ==
  IF InUse THEN idle' = 0 /\ closed' = FALSE
  ELSE /\ idle' = IF idle < IdleTicks THEN idle + 1 ELSE idle
       /\ closed' = (idle' = IdleTicks)

\* tick: check_capture_health and check_audio_idle.  Overruns are those of
\* microphone groups that run.
Tick ==
  /\ \/ Step(FALSE) /\ UNCHANGED turns
     \/ group["mic"].slot = "running" /\ Turn /\ Step(TRUE)
  /\ group' = IF suspended' # suspended
              THEN UpdateMicGroups(group, micMuted, noise /\ ~suspended')
              ELSE group
  /\ UpdateIdle
  /\ UNCHANGED <<micMuted, route, noise, monitor, keepMic, overruled>>

\* set_monitor: a monitor that runs is closed first; opening may fail.
SetMonitor ==
  /\ Turn /\ monitor' \in BOOLEAN
  /\ keepMic' = NeedsMic(route, monitor')
  /\ UNCHANGED <<micMuted, route, group, noise, supervisor, idling, overruled>>

Next ==
  \/ \E r \in Routes : \/ Begin(r) \/ ReceiverReady(r) \/ Stop(r)
                       \/ SetRouteMuted(r) \/ RemoteMute(r)
  \/ \E g \in Groups : \/ SenderReady(g)
                       \/ \E b \in BOOLEAN : EncoderFailed(g, b)
  \/ SetMicMuted \/ SetNoise \/ Tick \/ SetMonitor

Spec == Init /\ [][Next]_vars

----------------------------------------------------------------------------
(* Properties.                                                             *)

\* The types of the variables.
TypeOK ==
  /\ micMuted \in BOOLEAN /\ noise \in BOOLEAN /\ suspended \in BOOLEAN
  /\ route \in [Routes -> [status: {"none", "starting", "active"},
                           muted: BOOLEAN, flag: BOOLEAN, open: BOOLEAN]]
  /\ group \in [Groups -> [slot: {"none", "starting", "running"},
                           routes: SUBSET Routes, muted: BOOLEAN,
                           denoise: BOOLEAN]]
  /\ healthy \in 0 .. Recovery - 1 /\ monitor \in BOOLEAN /\ keepMic \in BOOLEAN
  /\ idle \in 0 .. IdleTicks /\ closed \in BOOLEAN
  /\ overruled \subseteq Routes /\ turns \in 0 .. MaxTurns

Sends(r, g) == group[g].slot = "running" /\ r \in group[g].routes

\* While the microphone is muted no route carries it, whatever was opened,
\* reopened, muted or unmuted in between, except a feed its peer unmuted
\* (set_mic_muted, on_sender_ready, SetRouteMuted); while it is not, no group
\* stays muted.
MicSilent ==
  /\ \A g \in Groups : group[g].slot = "running" => group[g].muted = micMuted
  /\ micMuted =>
       \A r \in Routes : IsMic(r) /\ route[r].open /\ r \notin overruled =>
         route[r].flag

\* Running captures denoise as the setting and the supervisor say, and a phone
\* holds its recorder exactly while a capture of the microphone needs it
\* (update_mic_groups, update_keep_alive).
MicFollows ==
  /\ \A g \in Groups : group[g].slot = "running" =>
                         group[g].denoise = DenoiseHere
  /\ keepMic = NeedsMic(route, monitor)

----------------------------------------------------------------------------
(* The inductive invariant: a route is silent from the moment it has its   *)
(* controls, before its device is open, and a group holds routes of its    *)
(* kind.                                                                   *)

Silenced(r) ==
  micMuted /\ IsMic(r) /\ HasControls(r) /\ r \notin overruled =>
    route[r].flag

AsSet(g) ==
  group[g].slot = "running" =>
    group[g].muted = micMuted /\ group[g].denoise = DenoiseHere

Holds(g) == \A r \in group[g].routes : Kind[r] = g /\ HasControls(r)

Inv ==
  /\ TypeOK
  /\ \A r \in Routes : Silenced(r) /\ (route[r].open => HasControls(r))
  /\ \A g \in Groups : AsSet(g) /\ Holds(g)
  /\ keepMic = NeedsMic(route, monitor)
=============================================================================
