-------------------------------- MODULE Links --------------------------------
(***************************************************************************)
(* What a device makes of a link that is bad or keeps dropping: the flap   *)
(* detector (reconnect.rs), the hold on the Stable profile it starts       *)
(* (record_reconnect, expire_stable_holds in actor.rs) and the Degraded    *)
(* badge of a session (LinkHealth in health.rs).  One peer, and one route  *)
(* this device asked for and plays.                                        *)
(***************************************************************************)
EXTENDS Naturals, Sequences

CONSTANTS
  Limit,     \* FlapDetector::LIMIT
  Window,    \* FlapDetector::WINDOW
  Hold,      \* STABLE_HOLD
  EnterSecs, RecoverSecs,
  MaxTime, MaxDrops


Nobody == MaxTime + 1      \* no hold: a time that never comes
Latencies == {"own", "custom"}
Measures == {"bad", "good", "between"}

VARIABLES
  now,
  up,        \* there is a session
  events,    \* the detector's drops, oldest first
  since,     \* stabilized: the last drop of the hold
  latency,   \* settings.latency
  status,    \* of the route
  mode,      \* the latency mode of its profile
  health,    \* LinkHealth of the session
  drops,     \* history: when the connection dropped, since the peer was last revoked
  measured,  \* history: the measurements of this session
  skipped    \* history: the profile wanted changed while the route was starting

vars == <<now, up, events, since, latency, status, mode, health, drops, measured, skipped>>

Healthy == [degraded |-> FALSE, bad |-> 0, good |-> 0]

\* profile_for: a custom buffer is the user's choice and stays.
ModeFor(s, l) == IF s # Nobody /\ l # "custom" THEN "stable" ELSE l

Init ==
  /\ now = 0 /\ up = FALSE /\ events = <<>> /\ since = Nobody
  /\ latency = "own" /\ status = "none" /\ mode = "own" /\ health = Healthy
  /\ drops = <<>> /\ measured = <<>> /\ skipped = FALSE

\* start_route with the profile as it is wanted now.
Start(found) ==
  /\ status' = IF found # "none" THEN "starting" ELSE "none"
  /\ mode' = ModeFor(since, latency) /\ skipped' = FALSE

\* promote_session: also for a connection that replaces this one (pause_routes_for,
\* resume_routes), which is not a drop.
Promote ==
  /\ up' = TRUE /\ health' = Healthy /\ measured' = <<>>
  /\ Start(status)
  /\ UNCHANGED <<now, events, since, latency, drops>>

StartRoute ==
  /\ up /\ status = "none" /\ Start("starting")
  /\ UNCHANGED <<now, up, events, since, latency, health, drops, measured>>

\* activate_route
Activate ==
  /\ status = "starting" /\ status' = "active"
  /\ UNCHANGED <<now, up, events, since, latency, mode, health, drops, measured, skipped>>

----------------------------------------------------------------------------
(* Drops.                                                                  *)

\* Bug: the detector keeps one event too few.
KeepsLimit(s) == IF Len(s) > Limit THEN Tail(s) ELSE s

Keeps(s) == IF Len(s) > Limit + 1 THEN Tail(s) ELSE s

\* FlapDetector::record
Record == Keeps(Append(SelectSeq(events, LAMBDA t : now - t < Window), now))

\* Bug: a hold counts from the drop that started it.
RenewsNever == since

Renews == now

\* on_closed and record_reconnect
Drop ==
  /\ up /\ Len(drops) < MaxDrops /\ up' = FALSE
  /\ status' = IF status = "none" THEN "none" ELSE "paused"
  /\ events' = Record
  /\ since' = IF since # Nobody THEN Renews ELSE IF Len(Record) > Limit THEN now ELSE Nobody
  /\ drops' = Append(drops, now)
  /\ UNCHANGED <<now, latency, mode, health, measured, skipped>>

\* revoke: forgotten or blocked; the routes are removed.
Revoke ==
  /\ up' = FALSE /\ status' = "none" /\ events' = <<>> /\ since' = Nobody /\ drops' = <<>>
  /\ UNCHANGED <<now, latency, mode, health, measured, skipped>>

----------------------------------------------------------------------------
(* Settings, and each second.                                              *)

\* Bug: the hold ends and what runs keeps its profile.
ReconfiguresNever(s, l) == mode

\* reconfigure_route, for a route that is active.
Reconfigures(s, l) == IF status = "active" THEN ModeFor(s, l) ELSE mode

SetLatency(l) ==
  /\ l # latency /\ latency' = l /\ mode' = Reconfigures(since, l)
  /\ skipped' = (skipped \/ status = "starting")
  /\ UNCHANGED <<now, up, events, since, status, health, drops, measured>>

\* Bug: a second that is neither bad nor good leaves the counters alone.
CountKept(n, hit, neither) == IF hit THEN n + 1 ELSE IF neither THEN n ELSE 0

Count(n, hit, neither) == IF hit THEN n + 1 ELSE 0

\* LinkHealth::update
Update(x) ==
  LET bad == Count(health.bad, x = "bad", x = "between")
      good == Count(health.good, x = "good", x = "between")
  IN [degraded |-> IF health.degraded THEN good < RecoverSecs ELSE bad >= EnterSecs,
      bad |-> bad, good |-> good]

\* tick: update_link_health, expire_stable_holds
Tick(x) ==
  /\ now < MaxTime /\ now' = now + 1
  /\ IF up THEN health' = Update(x) /\ measured' = Append(measured, x)
           ELSE UNCHANGED <<health, measured>>
  /\ IF since # Nobody /\ now + 1 - since >= Hold
     THEN /\ since' = Nobody /\ events' = <<>> /\ mode' = Reconfigures(Nobody, latency)
          /\ skipped' = (skipped \/ status = "starting")
     ELSE UNCHANGED <<since, events, mode, skipped>>
  /\ UNCHANGED <<up, latency, status, drops>>

Next ==
  \/ Promote \/ StartRoute \/ Activate \/ Drop \/ Revoke
  \/ \E l \in Latencies : SetLatency(l)
  \/ \E x \in Measures : Tick(x)

Spec == Init /\ [][Next]_vars

----------------------------------------------------------------------------

TypeOK ==
  /\ now \in 0..MaxTime /\ up \in BOOLEAN /\ skipped \in BOOLEAN
  /\ Len(events) <= Limit + 1 /\ since \in 0..Nobody
  /\ latency \in Latencies /\ mode \in Latencies \cup {"stable"}
  /\ status \in {"none", "paused", "starting", "active"}

\* The peer is held on the Stable profile exactly when the drops say so: more than Limit of
\* them within the window, and no pause of Hold since; however many were forgotten
\* (FlapDetector::record, record_reconnect, expire_stable_holds).
HeldForDrops ==
  since # Nobody <=>
    \E i \in 1..Len(drops) :
      /\ i > Limit /\ drops[i] - drops[i - Limit] < Window
      /\ \A j \in i..Len(drops) :
           (IF j = Len(drops) THEN now ELSE drops[j + 1]) - drops[j] < Hold

\* A running route has the profile that is wanted: a hold reaches it when it resumes and
\* leaves it when it ends (profile_for, expire_stable_holds), except for a change that came
\* while it was starting.
RunsAsHeld == status = "active" /\ ~skipped => mode = ModeFor(since, latency)

\* A session is degraded exactly after EnterSecs bad seconds on end that RecoverSecs good
\* ones on end have not followed (LinkHealth::update).
DegradedFor ==
  LET Run(x, n, i) == i >= n /\ \A k \in (i - n + 1)..i : measured[k] = x
  IN up => (health.degraded <=>
       \E i \in 1..Len(measured) :
         /\ Run("bad", EnterSecs, i)
         /\ \A j \in (i + 1)..Len(measured) : ~Run("good", RecoverSecs, j))
=============================================================================
