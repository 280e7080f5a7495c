------------------------------ MODULE Speakers ------------------------------
(***************************************************************************)
(* Who mutes the speakers of a computer (actor.rs, actor/pipelines.rs and  *)
(* the desktop's hooks.rs).  Two wishes share one switch: "mute this       *)
(* computer's speakers while sending", a setting that holds while system   *)
(* audio is sent, and "Mute PC", which a peer turns on and off.  A file    *)
(* marks that the speakers are muted, so that the start after a crash can  *)
(* undo it.  The handlers of the actor come one after the other; only a    *)
(* crash can come between the mute and the file.                           *)
(*                                                                         *)
(* route[p] is the route that sends system audio to p.                     *)
(***************************************************************************)
EXTENDS Naturals, FiniteSets

CONSTANTS
  Peers,      \* the devices that listen
  MaxEnds     \* bound on shutdowns and crashes

VARIABLES
  running,    \* the application runs
  setting,    \* settings.capture.mute_local_speakers
  session,    \* the peers with a session
  route,      \* route[p]: status, requested_locally, sender_controls.is_some()
  mutedBy,    \* speakers_muted_by
  muted,      \* the speakers, at the operating system
  marker,     \* the file speakers-muted exists
  unwritten,  \* the switch was thrown and the file not yet brought in line
  stray,      \* history: a route went without a look at the speakers
  overruled,  \* history: a peer unmuted what another one wants muted
  torn,       \* history: a crash came between switch and file
  ends

vars == <<running, setting, session, route, mutedBy, muted, marker, unwritten,
          stray, overruled, torn, ends>>

Statuses == {"none", "requesting", "starting", "active", "paused"}
Route == [st: Statuses, mine: BOOLEAN, controls: BOOLEAN]
NoRoute == [st |-> "none", mine |-> FALSE, controls |-> FALSE]

----------------------------------------------------------------------------
(* The steps handlers consist of, on x, the state of the actor.            *)

Now == [session |-> session, route |-> route, mutedBy |-> mutedBy,
        muted |-> muted, hooked |-> FALSE]
HasRoute(x) == \E p \in Peers : x.route[p].st # "none"

\* set_speakers_muted
Switch(x, on) == [x EXCEPT !.muted = on, !.hooked = TRUE]

\* begin_sender
BeginSender(x, p, mine) ==
  LET y == [x EXCEPT !.route[p] =
              [st |-> "starting", mine |-> mine, controls |-> TRUE]]
  IN IF setting THEN Switch(y, TRUE) ELSE y

\* Bug: a peer's mute is not asked for.
UnmutesAnyway(x) == setting

\* Bug: the speakers are left to the peer that asked for the audio.
UnmutesNever(x) == FALSE

\* "A peer's Mute PC keeps the speakers muted."
Unmutes(x) == setting /\ x.mutedBy = {}

\* stop_route_by_key and fail_route
StopRoute(x, p) ==
  IF x.route[p].st = "none" THEN x
  ELSE LET y == [x EXCEPT !.route[p] = NoRoute]
       IN IF Unmutes(x) THEN Switch(y, FALSE) ELSE y

\* forget_speaker_mutes
ForgetMutes(x, p) ==
  LET y == [x EXCEPT !.mutedBy = @ \ {p}]
  IN IF p \in x.mutedBy /\ y.mutedBy = {} /\ ~(setting /\ HasRoute(x))
     THEN Switch(y, FALSE) ELSE y

\* pause_routes_for: a route the peer asked for and that was still starting
\* goes.
PauseRoute(x, p) ==
  LET r == x.route[p]
  IN [x EXCEPT !.route[p] =
        IF r.st = "none" \/ (r.st = "starting" /\ ~r.mine) THEN NoRoute
        ELSE [r EXCEPT !.st = "paused"]]

Ready == running /\ ~unwritten

\* The end of a handler, and what the history makes of it.  It forgets when the
\* speakers are on.
Becomes(x, strays, overrules) ==
  /\ session' = x.session /\ route' = x.route
  /\ mutedBy' = x.mutedBy /\ muted' = x.muted
  /\ unwritten' = x.hooked
  /\ stray' = (x.muted /\ (stray \/ (strays /\ x.mutedBy = {} /\ ~HasRoute(x))))
  /\ overruled' = ((~x.muted) /\ x.mutedBy # {} /\ (overruled \/ overrules))
  /\ UNCHANGED <<running, setting, marker, torn, ends>>

----------------------------------------------------------------------------
(* The handlers.                                                           *)

Init ==
  /\ running = TRUE /\ setting \in BOOLEAN
  /\ session = {} /\ route = [p \in Peers |-> NoRoute] /\ mutedBy = {}
  /\ muted = FALSE /\ marker = FALSE /\ unwritten = FALSE
  /\ stray = FALSE /\ overruled = FALSE /\ torn = FALSE /\ ends = 0

\* The rest of set_speakers_muted: the file is written or removed.
WriteMarker ==
  /\ running /\ unwritten
  /\ marker' = muted /\ unwritten' = FALSE
  /\ UNCHANGED <<running, setting, session, route, mutedBy, muted, stray,
                 overruled, torn, ends>>

\* A session begins; resume_routes asks again for what this device asked for.
Connect(p) ==
  /\ Ready /\ p \notin session
  /\ LET again == [st |-> "requesting", mine |-> TRUE, controls |-> FALSE]
         x == [Now EXCEPT !.session = @ \cup {p}]
     IN Becomes(IF route[p].st = "paused" /\ route[p].mine
                THEN [x EXCEPT !.route[p] = again] ELSE x, FALSE, FALSE)

StartRoute(p) ==
  /\ Ready /\ p \in session /\ route[p].st = "none"
  /\ Becomes([Now EXCEPT !.route[p] =
       [st |-> "requesting", mine |-> TRUE, controls |-> FALSE]], FALSE, FALSE)

\* on_route_accept
Accepted(p) ==
  /\ Ready /\ p \in session /\ route[p].st = "requesting"
  /\ Becomes(BeginSender(Now, p, TRUE), FALSE, FALSE)

\* RouteReject, which comes before any RouteAccept: the route is taken out.
Rejected(p) ==
  /\ Ready /\ p \in session /\ route[p].st = "requesting"
  /\ Becomes([Now EXCEPT !.route[p] = NoRoute], TRUE, FALSE)

\* accept_route, which replaces a paused copy
OnRouteRequest(p) ==
  /\ Ready /\ p \in session /\ route[p].st \in {"none", "paused"}
  /\ Becomes(BeginSender(Now, p, FALSE), FALSE, FALSE)

Activate(p) ==
  /\ Ready /\ route[p].st = "starting"
  /\ Becomes([Now EXCEPT !.route[p].st = "active"], FALSE, FALSE)

\* apply_profile and reopen_route_audio begin a running route's sender again.
Reopen(p) ==
  /\ Ready /\ p \in session /\ route[p].st = "active"
  /\ Becomes([BeginSender(Now, p, route[p].mine)
                EXCEPT !.route[p].st = "active"], FALSE, FALSE)

\* A stop of either user, a denial, a deadline, an expiry, or a device that
\* fails.
Stop(p) ==
  /\ Ready /\ route[p].st # "none"
  /\ Becomes(StopRoute(Now, p), FALSE, FALSE)

Leave(x, p) == [x EXCEPT !.session = @ \ {p}]

\* on_closed of a connection that was lost
Lose(p) ==
  /\ Ready /\ p \in session
  /\ LET x == PauseRoute(ForgetMutes(Leave(Now, p), p), p)
     IN Becomes(x, route[p].st # "none" /\ x.route[p] = NoRoute, FALSE)

\* Command::Disconnect, and on_closed when the peer's user stopped it
Disconnect(p) ==
  /\ Ready /\ p \in session
  /\ Becomes(StopRoute(ForgetMutes(Leave(Now, p), p), p), FALSE, FALSE)

\* revoke, of a device with or without a session
Revoke(p) ==
  /\ Ready
  /\ Becomes(ForgetMutes(Leave(StopRoute(Now, p), p), p), FALSE, FALSE)

\* on_remote_mute with the target DeviceSpeakers
RemoteMute(p, on) ==
  /\ Ready /\ p \in session
  /\ LET by == IF on THEN mutedBy \cup {p} ELSE mutedBy \ {p}
     IN Becomes(Switch([Now EXCEPT !.mutedBy = by], on),
                FALSE, ~on /\ by # {})

\* apply_settings
ChangeSetting ==
  /\ Ready
  /\ setting' = ~setting
  /\ LET heeds == mutedBy = {} /\ \E p \in Peers : route[p].controls
     IN /\ muted' = IF heeds THEN ~setting ELSE muted
        /\ unwritten' = heeds
        /\ stray' = (muted' /\ (stray \/ (setting /\ ~heeds /\ mutedBy = {})))
  /\ UNCHANGED <<running, session, route, mutedBy, marker, overruled, torn,
                 ends>>

\* What ends with the process.
Ended ==
  /\ running' = FALSE /\ session' = {} /\ mutedBy' = {}
  /\ route' = [p \in Peers |-> NoRoute]
  /\ unwritten' = FALSE /\ overruled' = FALSE
  /\ ends' = ends + 1
  /\ UNCHANGED setting

\* shutdown
Shutdown ==
  /\ Ready /\ ends < MaxEnds
  /\ LET unmutes == mutedBy # {} \/ (setting /\ HasRoute(Now))
     IN /\ muted' = (muted /\ ~unmutes)
        /\ marker' = (marker /\ ~unmutes)
        /\ stray' = (stray /\ ~unmutes)
  /\ UNCHANGED torn
  /\ Ended

Crash ==
  /\ running /\ ends < MaxEnds
  /\ torn' = (muted /\ (torn \/ unwritten))
  /\ UNCHANGED <<muted, marker, stray>>
  /\ Ended

\* DesktopHooks::new
StartMuted == muted /\ ~marker

Start ==
  /\ ~running
  /\ running' = TRUE
  /\ muted' = StartMuted
  /\ marker' = FALSE
  /\ stray' = (stray /\ muted') /\ torn' = (torn /\ muted')
  /\ UNCHANGED <<setting, session, route, mutedBy, unwritten, overruled, ends>>

Next ==
  \/ WriteMarker
  \/ \E p \in Peers : Connect(p)
  \/ \E p \in Peers : StartRoute(p)
  \/ \E p \in Peers : Accepted(p)
  \/ \E p \in Peers : Rejected(p)
  \/ \E p \in Peers : OnRouteRequest(p)
  \/ \E p \in Peers : Activate(p)
  \/ \E p \in Peers : Reopen(p)
  \/ \E p \in Peers : Stop(p)
  \/ \E p \in Peers : Lose(p)
  \/ \E p \in Peers : Disconnect(p)
  \/ \E p \in Peers : Revoke(p)
  \/ \E p \in Peers, on \in BOOLEAN : RemoteMute(p, on)
  \/ ChangeSetting
  \/ Shutdown
  \/ Crash
  \/ Start

Spec == Init /\ [][Next]_vars

----------------------------------------------------------------------------
(* Properties.                                                             *)

\* The types of the variables; a peer mutes within a session.
TypeOK ==
  /\ {running, setting, muted, marker, unwritten, stray, overruled, torn}
       \subseteq BOOLEAN
  /\ session \subseteq Peers /\ mutedBy \subseteq session
  /\ route \in [Peers -> Route]
  /\ ends \in 0 .. MaxEnds

\* "A peer's Mute PC keeps the speakers muted until it is turned off or the
\* peer leaves", whatever routes end and settings change, unless another peer
\* turns it off.
KeptMuted == mutedBy # {} /\ ~overruled => muted

\* Speakers are muted only for a peer or a route that sends, or, in a run that
\* follows a crash, until the start has undone it: a phone that disconnects
\* never leaves them muted.
MutedForSomeone ==
  running /\ muted /\ ~stray /\ ~torn => mutedBy # {} \/ HasRoute(Now)

\* "May have muted its speakers: never leave them that way": the speakers are
\* on when shutdown is through.
LeftUnmuted == [][Shutdown => ~muted']_vars
=============================================================================
