------------------------------ MODULE Updates ------------------------------
(***************************************************************************)
(* The stream profile of one route while it starts and runs                *)
(* (actor/profiles.rs, with the parts of actor.rs that negotiate a profile *)
(* and health.rs's lossless fallback).                                     *)
(*                                                                         *)
(* Each end keeps a copy of the profile.  The requester decides about the  *)
(* quality, the sink about its buffer, the source about where a microphone *)
(* is denoised, each from its own settings, and an end that changes its    *)
(* copy sends the whole of it in a RouteUpdate.  Updates of the two ends   *)
(* can cross.  Requests are allowed here and pipelines open; module Routes *)
(* has the refusals.                                                       *)
(***************************************************************************)
EXTENDS Naturals, Sequences

CONSTANTS
  BadSecs,      \* FALLBACK_SECS
  GoodSecs,     \* FALLBACK_RECOVER_SECS
  MaxChanges    \* bound on settings changed and fallbacks switched

Ends == {"source", "sink"}
Other(e) == CHOOSE o \in Ends : o # e

\* The codec and its bitrate: PCM, Opus as the fallback encodes it, Opus as the
\* user set it.  jitter stands for both bounds of the buffer.
Qualities == {"lossless", "fallback", "high"}
Profile == [quality: Qualities, jitter: {1, 2}, denoise: BOOLEAN]

VARIABLES
  requester,   \* the end that asked for the route
  old,         \* the other one lacks FEATURE_ROUTE_RECONFIGURE
  settings,    \* settings[e]: what profile_for makes of e's settings
  status,      \* status[e]: of the route at e
  id,          \* id[e]: its id there, 0 if there is none
  profile,     \* profile[e]
  fallback,    \* quality_fallback at the requester
  chan,        \* chan[e]: control messages on their way to e, oldest first
  missed,      \* history: ends whose settings changed while nothing was active
  changes

vars == <<requester, old, settings, status, id, profile, fallback, chan,
          missed, changes>>

\* profile_for: denoise_at_peer is false at the end that plays.
SettingsOf(e) ==
  {s \in Profile : s.quality # "fallback" /\ (e = "sink" => ~s.denoise)}

Default == [quality |-> "high", jitter |-> 1, denoise |-> FALSE]
NoFallback == [active |-> FALSE, bad |-> 0, good |-> 0]

Message == [type: {"request", "accept", "update", "stop"},
            id: 1 .. MaxChanges + 1, profile: Profile]

EncodingChanged(a, b) == (a.quality = "lossless") # (b.quality = "lossless")

\* apply_quality_fallback
ApplyFallback(p) ==
  IF p.quality = "lossless" THEN [p EXCEPT !.quality = "fallback"] ELSE p

----------------------------------------------------------------------------
(* The steps handlers consist of, on x, the state of the route.            *)

Now == [settings |-> settings, status |-> status, id |-> id,
        profile |-> profile, fallback |-> fallback, chan |-> chan,
        missed |-> missed]
Becomes(x) ==
  /\ settings' = x.settings /\ status' = x.status /\ id' = x.id
  /\ profile' = x.profile /\ fallback' = x.fallback /\ chan' = x.chan
  /\ missed' = x.missed
  /\ UNCHANGED <<requester, old>>

Send(x, e, type) ==
  [x EXCEPT !.chan[Other(e)] =
     Append(@, [type |-> type, id |-> x.id[e], profile |-> x.profile[e]])]

\* What the requester's settings ask for on this route.
Proposed(x) ==
  IF x.fallback.active THEN ApplyFallback(x.settings[requester])
  ELSE x.settings[requester]

\* start_route_keeping: a request with the settings as they are now.
StartRoute(x) ==
  Send([x EXCEPT !.status[requester] = "requesting",
                 !.id[requester] = @ + 1,
                 !.profile[requester] = Proposed(x),
                 !.missed = @ \ {requester}],
       requester, "request")

\* restart_route, of a route this device requested: "a 1.0 peer cannot switch
\* codec or frame size mid-route".  The fallback survives.
RestartRoute(x) == StartRoute(Send(x, requester, "stop"))

\* reconfigure_route: each end changes what is its own to decide.
Reconfigured(x, e) ==
  [quality |-> IF e = requester THEN Proposed(x).quality
               ELSE x.profile[e].quality,
   jitter |-> IF e = "sink" THEN x.settings[e].jitter ELSE x.profile[e].jitter,
   denoise |-> IF e = "source" THEN x.settings[e].denoise
               ELSE x.profile[e].denoise]

\* Bug: only a new encoding is announced.
TellsEncodingOnly(e, current, next) ==
  e = requester /\ EncodingChanged(current, next)

\* send_update
Tells(e, current, next) ==
  \/ e = requester /\ current.quality # next.quality
  \/ e = "source" /\ current.denoise # next.denoise

\* Bug: a fallback outlives the wish for lossless.
ForgetsNever(x, e) == FALSE

\* "Nothing left to fall back from."
Forgets(x, e) == e = requester /\ x.settings[e].quality # "lossless"

Reconfigure(x, e) ==
  LET current == x.profile[e]
      next == Reconfigured(x, e)
      y == [x EXCEPT !.fallback = IF Forgets(x, e) THEN NoFallback ELSE @,
                     !.missed = @ \ {e}]
      applied == [y EXCEPT !.profile[e] = next]
  IN CASE next = current -> y
       [] next # current /\ old /\ EncodingChanged(current, next) ->
            RestartRoute(y)
       [] OTHER -> IF Tells(e, current, next) THEN Send(applied, e, "update")
                   ELSE applied

----------------------------------------------------------------------------
(* The handlers.                                                           *)

Init ==
  /\ requester \in Ends /\ old \in BOOLEAN
  /\ settings = [e \in Ends |-> Default]
  /\ status = [e \in Ends |-> IF e = requester THEN "requesting" ELSE "none"]
  /\ id = [e \in Ends |-> IF e = requester THEN 1 ELSE 0]
  /\ profile = [e \in Ends |-> Default]
  /\ fallback = NoFallback
  /\ chan = [e \in Ends |-> IF e = requester THEN <<>>
              ELSE <<[type |-> "request", id |-> 1, profile |-> Default]>>]
  /\ missed = {} /\ changes = 0

\* apply_settings, SetDeviceProfile, PreferLossless and expire_stable_holds:
\* reconfigure_routes takes the active routes.
ChangeSettings(e) ==
  /\ changes < MaxChanges
  /\ \E s \in SettingsOf(e) \ {settings[e]} :
       LET x == [Now EXCEPT !.settings[e] = s]
       IN Becomes(IF status[e] = "active" THEN Reconfigure(x, e)
                  ELSE [x EXCEPT !.missed = @ \cup {e}])
  /\ changes' = changes + 1

\* QualityFallback::update, of one second with this loss.  A count is cut off
\* at its threshold: the one that matters is never past it.
Count(n, goes_on, threshold) ==
  IF ~goes_on THEN 0 ELSE IF n = threshold THEN n ELSE n + 1

Measured(f, loss) ==
  LET bad == Count(f.bad, loss = "bad", BadSecs)
      good == Count(f.good, loss = "good", GoodSecs)
      active == IF f.active THEN good < GoodSecs ELSE bad >= BadSecs
  IN IF active # f.active THEN [active |-> active, bad |-> 0, good |-> 0]
     ELSE [active |-> active, bad |-> bad, good |-> good]

\* update_quality_fallback, once a second.
MeasureLoss ==
  /\ status[requester] = "active"
  /\ fallback.active \/ profile[requester].quality = "lossless"
  /\ \E loss \in {"bad", "middling", "good"} :
       LET f == Measured(fallback, loss)
           x == [Now EXCEPT !.fallback = f]
           switched == f.active # fallback.active
       IN /\ switched => changes < MaxChanges
          /\ Becomes(IF switched THEN Reconfigure(x, requester) ELSE x)
          /\ changes' = IF switched THEN changes + 1 ELSE changes

\* The oldest message to e is of this type; the state without that message.
Receives(e, type) == chan[e] # <<>> /\ Head(chan[e]).type = type
Rest(e) == [Now EXCEPT !.chan[e] = Tail(@)]

\* on_route_request and accept_route: the acceptor puts in what is its own.
OnRouteRequest(e) ==
  /\ Receives(e, "request")
  /\ LET m == Head(chan[e])
         p == IF e = "source"
              THEN [m.profile EXCEPT !.denoise = settings[e].denoise]
              ELSE [m.profile EXCEPT !.jitter = settings[e].jitter]
     IN Becomes([Rest(e) EXCEPT !.status[e] = "starting", !.id[e] = m.id,
                                !.profile[e] = p, !.missed = @ \ {e}])
  /\ UNCHANGED changes

\* activate_route: the audio device is open, and the acceptor says so.
Activate(e) ==
  /\ status[e] = "starting"
  /\ LET x == [Now EXCEPT !.status[e] = "active"]
     IN Becomes(IF e = requester THEN x ELSE Send(x, e, "accept"))
  /\ UNCHANGED changes

OnRouteAccept(e) ==
  /\ Receives(e, "accept")
  /\ LET m == Head(chan[e])
     IN Becomes(IF id[e] = m.id /\ status[e] = "requesting"
                THEN [Rest(e) EXCEPT !.status[e] = "starting",
                                     !.profile[e] = m.profile]
                ELSE Rest(e))
  /\ UNCHANGED changes

\* Bug: the update is taken as it is.
KeepOwnNothing(e, p) == p

\* Bug: the end that plays takes the sender's buffer.
KeepOwnDenoise(e, p) ==
  IF e = "source" THEN [p EXCEPT !.denoise = profile[e].denoise] ELSE p

\* What an end keeps of its own when the peer's profile comes.
KeepOwn(e, p) ==
  IF e = "source" THEN [p EXCEPT !.denoise = profile[e].denoise]
  ELSE [p EXCEPT !.jitter = profile[e].jitter]

\* on_route_update, with apply_profile
OnRouteUpdate(e) ==
  /\ Receives(e, "update")
  /\ LET m == Head(chan[e])
     IN Becomes(IF id[e] = m.id
                THEN [Rest(e) EXCEPT !.profile[e] = KeepOwn(e, m.profile)]
                ELSE Rest(e))
  /\ UNCHANGED changes

\* RouteStop: stop_route_by_key without telling the peer.
OnRouteStop(e) ==
  /\ Receives(e, "stop")
  /\ Becomes(IF id[e] = Head(chan[e]).id
             THEN [Rest(e) EXCEPT !.status[e] = "none", !.id[e] = 0]
             ELSE Rest(e))
  /\ UNCHANGED changes

Next ==
  \/ MeasureLoss
  \/ \E e \in Ends : ChangeSettings(e)
  \/ \E e \in Ends : OnRouteRequest(e)
  \/ \E e \in Ends : Activate(e)
  \/ \E e \in Ends : OnRouteAccept(e)
  \/ \E e \in Ends : OnRouteUpdate(e)
  \/ \E e \in Ends : OnRouteStop(e)

Spec == Init /\ [][Next]_vars

----------------------------------------------------------------------------
(* Properties.                                                             *)

Settled ==
  /\ \A e \in Ends : chan[e] = <<>> /\ status[e] = "active"
  /\ id["source"] = id["sink"]

\* The types of the variables; no more messages than changes and a start.
TypeOK ==
  /\ requester \in Ends /\ old \in BOOLEAN
  /\ \A e \in Ends : settings[e] \in SettingsOf(e)
  /\ status \in [Ends -> {"none", "requesting", "starting", "active"}]
  /\ id \in [Ends -> 0 .. MaxChanges + 1]
  /\ profile \in [Ends -> Profile]
  /\ fallback \in [active: BOOLEAN, bad: 0 .. BadSecs, good: 0 .. GoodSecs]
  /\ \A e \in Ends : \A i \in DOMAIN chan[e] : chan[e][i] \in Message
  /\ missed \subseteq Ends /\ changes \in 0 .. MaxChanges

\* A microphone is denoised exactly once: the end that plays denoises if and
\* only if the source, which decides, left it to it (apply_profile,
\* update_mic_groups), once all updates are in.
DenoisedOnce ==
  Settled =>
    /\ profile["source"].denoise = profile["sink"].denoise
    /\ "source" \notin missed =>
         profile["source"].denoise = settings["source"].denoise

\* "The receiving device always keeps its own buffer bounds": whatever the
\* peer sends, while an update is on its way too.  A change before the route is
\* active is missed.
OwnBuffer ==
  status["sink"] = "active" /\ "sink" \notin missed =>
    profile["sink"].jitter = settings["sink"].jitter

\* A route its source requested has, at both ends, the quality its settings ask
\* for, Opus in place of PCM while the link loses packets.
QualityProposed ==
  Settled /\ requester = "source" /\ "source" \notin missed =>
    \A e \in Ends : profile[e].quality = Proposed(Now).quality

\* The fallback is only on for a route that asks for lossless: it is forgotten
\* with the setting, and does not come back with it.
FallbackAsked ==
  fallback.active /\ requester \notin missed =>
    settings[requester].quality = "lossless"

\* "A codec, channel or frame change rebuilds the pipelines on both sides": the
\* ends use one codec once all updates are in.  Packets of another codec are
\* dropped.
CodecsAgree ==
  Settled => ~EncodingChanged(profile["source"], profile["sink"])
=============================================================================
