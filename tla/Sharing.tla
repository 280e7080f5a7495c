------------------------------- MODULE Sharing -------------------------------
(***************************************************************************)
(* What the routes of several peers share at one device (sp-engine's       *)
(* actor.rs and local_audio.rs): a source feeds at most max_receivers      *)
(* devices, one device at a time feeds the virtual microphone, and the     *)
(* phone microphone starts by itself while an app records from it.         *)
(*                                                                         *)
(* Routes are kept in a list that is searched from its start; which of     *)
(* several routes is found first is left open here.  A peer numbers the    *)
(* routes it requests, and so does this device, in a half of its own.      *)
(***************************************************************************)
EXTENDS Naturals, FiniteSets

CONSTANTS
  Peers, NoPeer,
  Asks,       \* peers whose requests the user is asked about (Policy::Ask)
  Limits,     \* values of the setting max_receivers
  Ids,        \* numbers a peer gives to what it requests
  IdlePolls,  \* AUTO_MIC_IDLE, in polls of the virtual microphone
  MaxTurns    \* bound on what users, peers and links do

\* "send": the peer hears this device; "feed": the peer is the virtual microphone.
Uses == {"send", "feed"}

VARIABLES
  linked,     \* peers there is a session with
  route,      \* the routes: a key and a status
  prompts,    \* keys of requests the user has not answered
  limit,      \* the setting max_receivers
  recording,  \* an app records from the virtual microphone
  auto,       \* LocalAudio::auto_route
  handled,    \* LocalAudio::handled_use
  idle,       \* LocalAudio::idle_since, in polls
  lastPeer,   \* the setting last_mic_peer
  excepted,   \* history: keys of routes the user accepted at a prompt, that were in
              \* use when the limit was lowered, or of which a request to replace them
              \* stopped only one
  declined,   \* history: the user stopped the automatic route of this use
  turns

shared == <<route, prompts, limit, excepted>>
autoMic == <<recording, auto, handled, idle, lastPeer, declined>>
vars == <<linked, shared, autoMic, turns>>

\* route_key; what the route is for is part of it here.
RouteKeys == [peer: Peers, use: Uses, ours: BOOLEAN, id: Nat]
NoAuto == [peer |-> NoPeer, use |-> "feed", ours |-> TRUE, id |-> 0]
Key(r) == [peer |-> r.peer, use |-> r.use, ours |-> r.ours, id |-> r.id]
Route(k, status) ==
  [peer |-> k.peer, use |-> k.use, ours |-> k.ours, id |-> k.id, status |-> status]
Statuses == {"requesting", "starting", "active", "paused"}

Turn == turns < MaxTurns /\ turns' = turns + 1

Init ==
  /\ linked = Peers /\ route = {} /\ prompts = {}
  /\ limit \in Limits /\ recording = FALSE /\ auto = NoAuto /\ handled = FALSE
  /\ idle = 0 /\ lastPeer = NoPeer /\ excepted = {} /\ declined = FALSE
  /\ turns = 0

\* receivers_of: paused routes are not counted.
ReceiversOf(rs) == {Key(r) : r \in {r \in rs : r.use = "send" /\ r.status # "paused"}}

\* virtual_mic_feed may find any of these; the routes of p are ignored.
Feeds(rs) == {Key(r) : r \in {r \in rs : r.use = "feed"}}
FeedsBesides(rs, p) == {k \in Feeds(rs) : k.peer # p}

\* Bug: the limit is checked as if the new route were not to be counted.
RoomForOneMore(rs) == Cardinality(ReceiversOf(rs)) <= limit

\* check_local_capability
Room(rs) == Cardinality(ReceiversOf(rs)) < limit

\* stop_route_by_key
Drop(rs, k) == {r \in rs : Key(r) # k}

\* Bug: the virtual microphone counts as free while its feed is paused.
ActiveFeedsFree(rs, p) == FeedsBesides({r \in rs : r.status # "paused"}, p) = {}

FeedFree(rs, p) == FeedsBesides(rs, p) = {}

\* Bug: `replace' asks for the virtual microphone beside whatever feeds it now.
TakenNever(rs, p) == {rs}

\* `replace' stops the feed that is found, and no other.
Taken(rs, p) ==
  IF FeedFree(rs, p) THEN {rs} ELSE {Drop(rs, k) : k \in FeedsBesides(rs, p)}

\* What it leaves of routes that feed the virtual microphone, if they were several.
Spared(rs, p) == {k \in FeedsBesides(rs, p) : FeedsBesides(rs, p) # {k}}

Has(rs, p, u) == \E r \in rs : r.peer = p /\ r.use = u
Own(p, u) == [peer |-> p, use |-> u, ours |-> TRUE, id |-> turns + 1]
Requested(p, u) == IF p \in linked THEN {Route(Own(p, u), "requesting")} ELSE {}

\* start_route: what may become of routes rs.
Started(rs, p, u, replace) ==
  IF Has(rs, p, u) THEN {rs}
  ELSE IF u = "send" THEN {IF Room(rs) THEN rs \cup Requested(p, u) ELSE rs}
  ELSE IF replace THEN {left \cup Requested(p, u) : left \in Taken(rs, p)}
  ELSE {IF FeedFree(rs, p) THEN rs \cup Requested(p, u) ELSE rs}

Excepted(es, rs) == {k \in es : \E r \in rs : Key(r) = k}

----------------------------------------------------------------------------
(* Commands of the user.                                                   *)

StartRoute(p, u) ==
  /\ Turn
  /\ \E replace \in BOOLEAN : route' \in Started(route, p, u, replace)
  /\ excepted' = Excepted(IF u = "feed" /\ Has(route', p, u) /\ ~Has(route, p, u)
                          THEN excepted \cup Spared(route, p) ELSE excepted, route')
  /\ UNCHANGED <<linked, prompts, limit, autoMic>>

\* stop_route_by_key; the key is of a route that is there now.
StopRoute(r) ==
  /\ Turn /\ route' = Drop(route, Key(r)) /\ excepted' = Excepted(excepted, route')
  /\ declined' = (declined \/ (recording /\ handled /\ auto = Key(r)))
  /\ UNCHANGED <<linked, prompts, limit, recording, auto, handled, idle,
                 lastPeer>>

\* UpdateSettings with another max_receivers
SetLimit ==
  /\ Turn /\ limit' \in Limits \ {limit}
  /\ excepted' = IF limit' < limit THEN excepted \cup ReceiversOf(route) ELSE excepted
  /\ UNCHANGED <<linked, route, prompts, autoMic>>

\* accept_route: paused copies are replaced, of the same kind or with the same number.
Unpaused(rs, k) ==
  {r \in rs : ~(/\ r.peer = k.peer /\ r.status = "paused"
                /\ r.use = k.use \/ (~r.ours /\ r.id = k.id))}

\* A duplicate is known by its number alone.
Duplicate(rs, k) == \E r \in Unpaused(rs, k) : r.peer = k.peer /\ ~r.ours /\ r.id = k.id

\* The pipeline then opens, or fails.
Accepted(rs, k) ==
  Unpaused(rs, k) \cup IF Duplicate(rs, k) THEN {} ELSE {Route(k, "starting")}

\* respond_request: nothing is checked again.
Respond(k) ==
  /\ Turn /\ prompts' = prompts \ {k}
  /\ \/ UNCHANGED <<route, excepted>>
     \/ /\ route' = Accepted(route, k)
        /\ excepted' = Excepted(IF Duplicate(route, k) THEN excepted ELSE excepted \cup {k},
                                route')
  /\ UNCHANGED <<linked, limit, autoMic>>

----------------------------------------------------------------------------
(* What peers do.                                                          *)

\* The user is asked, unless the peer goes on with what was approved before.
Prompts(k) == k.peer \in Asks
Allowed(k) ==
  \/ k.peer \notin Asks
  \/ \E r \in route : /\ r.peer = k.peer /\ r.use = k.use /\ ~r.ours
                      /\ r.status = "paused"

\* on_route_request.  A current feed is stopped before the permission is looked at.
RouteRequest(k) ==
  /\ k.peer \in linked /\ Turn
  /\ k.use = "send" => Room(route)
  /\ \E replace \in BOOLEAN :
       /\ k.use = "feed" => replace \/ FeedFree(route, k.peer)
       /\ \E left \in IF k.use = "feed" /\ replace THEN Taken(route, k.peer)
                      ELSE {route} :
            \/ /\ Prompts(k) /\ prompts' = prompts \cup {k}
               /\ route' = left /\ excepted' = Excepted(excepted, left)
            \/ /\ Allowed(k) /\ UNCHANGED prompts
               /\ route' = Accepted(left, k)
               /\ excepted' =
                    Excepted(IF Duplicate(left, k) THEN excepted
                             ELSE IF k.use = "feed"
                             THEN (excepted \ {k}) \cup Spared(route, k.peer)
                             ELSE excepted \ {k}, route')
  /\ UNCHANGED <<linked, limit, autoMic>>

\* RouteAccept, and devices that open: on_route_accept, activate_route
Proceed(r) ==
  /\ r.peer \in linked
  /\ \E next \in {"starting", "active"} :
       /\ r.status = IF next = "starting" THEN "requesting" ELSE "starting"
       /\ route' = (route \ {r}) \cup {Route(Key(r), next)}
  /\ UNCHANGED <<linked, prompts, limit, excepted, autoMic, turns>>

\* RouteReject, RouteStop of the peer, fail_route, a deadline, or a paused
\* route that waited too long
RouteEnds(r) ==
  /\ Turn /\ route' = Drop(route, Key(r)) /\ excepted' = Excepted(excepted, route')
  /\ UNCHANGED <<linked, prompts, limit, autoMic>>

\* pause_routes_for
Lost(p) ==
  LET kept == {r \in route : r.peer = p /\ (r.status \in {"active", "paused"} \/ r.ours)} IN
  /\ p \in linked /\ Turn /\ linked' = linked \ {p}
  /\ route' = {r \in route : r.peer # p} \cup {Route(Key(r), "paused") : r \in kept}
  /\ excepted' = Excepted(excepted, route')
  /\ UNCHANGED <<prompts, limit, autoMic>>

\* resume_routes: what this device requested is taken out and started again,
\* and put back if that is refused.
Resumed(rs, p, u) ==
  LET out == {r \in rs : ~(r.peer = p /\ r.use = u /\ r.ours /\ r.status = "paused")}
      free == IF u = "send" THEN Room(out) ELSE FeedFree(out, p)
  IN IF out = rs THEN rs
     ELSE IF Has(out, p, u) THEN out
     ELSE IF free THEN out \cup {Route(Own(p, u), "requesting")} ELSE rs

Found(p) ==
  /\ p \notin linked /\ Turn /\ linked' = linked \cup {p}
  /\ route' = Resumed(Resumed(route, p, "send"), p, "feed")
  /\ excepted' = Excepted(excepted, route')
  /\ UNCHANGED <<prompts, limit, autoMic>>

----------------------------------------------------------------------------
(* "Start the phone microphone when an app opens the virtual microphone".  *)

Records ==
  /\ Turn /\ recording' = ~recording /\ declined' = FALSE
  /\ UNCHANGED <<linked, shared, auto, handled, idle, lastPeer>>

\* The route that is found to feed the virtual microphone.
FeedKeys == IF Feeds(route) = {} THEN {NoAuto} ELSE Feeds(route)

\* auto_start_mic: the device used last time, or the only one there is
Candidate ==
  IF lastPeer \in linked THEN lastPeer
  ELSE IF Cardinality(linked) = 1 THEN CHOOSE p \in linked : TRUE ELSE NoPeer

\* remember_mic_peer
Remember ==
  LET active == {r \in route : r.use = "feed" /\ r.status = "active"} IN
  IF active = {} THEN UNCHANGED lastPeer ELSE lastPeer' \in {r.peer : r \in active}

\* Bug: a use is reacted to at every poll.
ReactsAlways == TRUE

Reacts == ~handled

\* auto_start_mic
AutoStart ==
  /\ handled' = TRUE /\ route' \in Started(route, Candidate, "feed", FALSE)
  /\ auto' = IF Feeds(route') = {} THEN NoAuto ELSE Own(Candidate, "feed")

\* check_virtual_mic_use
Poll ==
  /\ Remember
  /\ \E key \in FeedKeys :
       LET mine == IF auto # key THEN NoAuto ELSE auto IN
       IF auto = NoAuto /\ linked = {}
       THEN handled' = FALSE /\ declined' = FALSE /\ UNCHANGED <<route, auto, idle>>
       ELSE IF recording
       THEN /\ idle' = 0 /\ UNCHANGED declined
            /\ IF ~Reacts \/ key # NoAuto \/ Candidate = NoPeer
               THEN /\ handled' = (handled \/ key # NoAuto) /\ auto' = mine
                    /\ UNCHANGED route
               ELSE AutoStart
       ELSE /\ handled' = FALSE /\ UNCHANGED declined
            /\ IF mine = NoAuto THEN auto' = NoAuto /\ UNCHANGED <<route, idle>>
               ELSE IF idle < IdlePolls
               THEN idle' = idle + 1 /\ auto' = mine /\ UNCHANGED route
               ELSE idle' = 0 /\ auto' = NoAuto /\ route' = Drop(route, mine)
  /\ excepted' = Excepted(excepted, route')
  /\ UNCHANGED <<linked, prompts, limit, recording, turns>>

Next ==
  \/ \E p \in Peers, u \in Uses :
       \/ StartRoute(p, u)
       \/ \E n \in Ids : RouteRequest([peer |-> p, use |-> u, ours |-> FALSE, id |-> n])
  \/ \E r \in route : StopRoute(r) \/ Proceed(r) \/ RouteEnds(r)
  \/ \E k \in prompts : Respond(k)
  \/ \E p \in Peers : Lost(p) \/ Found(p)
  \/ SetLimit \/ Records \/ Poll

Spec == Init /\ [][Next]_vars

----------------------------------------------------------------------------
(* Properties.                                                             *)

\* The types of the variables.
TypeOK ==
  /\ linked \subseteq Peers /\ prompts \cup excepted \subseteq RouteKeys
  /\ \A r \in route : r = Route(Key(r), r.status) /\ Key(r) \in RouteKeys /\ r.status \in Statuses
  /\ limit \in Limits /\ recording \in BOOLEAN /\ handled \in BOOLEAN
  /\ auto \in RouteKeys \cup {NoAuto} /\ idle \in 0 .. IdlePolls
  /\ lastPeer \in Peers \cup {NoPeer} /\ declined \in BOOLEAN /\ turns \in 0 .. MaxTurns

\* Except for what the user accepted at a prompt, what ran when the limit was lowered
\* and what is left of several feeds after a request to replace them: a source never has
\* more routes than max_receivers, and one device at a time is the virtual microphone,
\* also while its route is paused, resumed, replaced or started automatically
\* (check_local_capability, virtual_mic_feed, accept_route).
Shared ==
  /\ Cardinality(ReceiversOf(route) \ excepted) <= limit
  /\ \A j, k \in Feeds(route) \ excepted : j.peer = k.peer

\* "Only one device at a time can be the virtual microphone."  Not so: what is accepted at
\* a prompt is not checked again; and starts that cross, each device asking the other, give
\* one device two feeds (accept_route knows a duplicate by its number alone), of which a
\* device that replaces it stops only one.
OneFeed == \A j, k \in Feeds(route) : j.peer = k.peer

\* "React once per use: if the user stops the route, it stays stopped"
\* (check_virtual_mic_use).
StaysStopped == declined => auto = NoAuto \/ auto \notin Feeds(route)

----------------------------------------------------------------------------
(* The inductive invariant.  A number of this device's is never given twice *)
(* once the user stopped the route that has it, so no route can become the  *)
(* stopped one.                                                             *)

Stopped ==
  /\ recording /\ handled
  /\ auto = NoAuto \/ (auto.id <= turns /\ \A r \in route : Key(r) # auto)

Inv ==
  /\ linked \subseteq Peers /\ prompts \subseteq RouteKeys /\ \A k \in prompts : ~k.ours
  /\ \A r \in route : Key(r) \in RouteKeys /\ r.status \in Statuses
  /\ \A r \in route : r.ours => r.id <= turns + 1
  /\ limit \in Limits /\ turns \in Nat /\ IsFiniteSet(ReceiversOf(route))
  /\ auto \in RouteKeys \cup {NoAuto} /\ auto.ours /\ auto.id <= turns + 1
  /\ recording \in BOOLEAN /\ handled \in BOOLEAN /\ declined \in BOOLEAN
  /\ Shared
  /\ declined => Stopped
=============================================================================
