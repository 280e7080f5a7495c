------------------------------- MODULE Routes -------------------------------
(***************************************************************************)
(* How two devices agree on the streams between them: the route manager of *)
(* sp-engine (the "routes" part of actor.rs with actor/pipelines.rs).      *)
(*                                                                         *)
(* A route is negotiated over a session (RouteRequest, RouteAccept,        *)
(* RouteReject, RouteStop), survives the session as a paused entry, and is *)
(* asked for again by the device that first asked.  A route is found by    *)
(* its key, the peer and an id of one byte, and ids restart with each      *)
(* session.                                                                *)
(*                                                                         *)
(* Sessions come from module Connections: here the two ends take up and    *)
(* lose numbered sessions, each at a moment of its own.  A session is an   *)
(* ordered stream each way; what is under way is lost with it.             *)
(***************************************************************************)
EXTENDS Naturals, Sequences, FiniteSets

CONSTANTS
  A, B,           \* the two devices
  Flows,          \* the streams they may run, all under one permission
  InUse,          \* the permission policies users set
  Saving,         \* devices with resume_routes_on_start
  IdSpace,        \* a route id is a u8: 256
  UserDoes,       \* the commands users give
  MaxSessions,    \* bound on sessions
  MaxLosses,      \* bound on lost sessions and crashes
  MaxTimeouts,    \* bound on deadlines that fire and pipelines that fail
  MaxCommands     \* bound on what the users do

Devices == {A, B}
Other(d) == IF d = A THEN B ELSE A

ASSUME DevicesAssumption == A # B
ASSUME InUseAssumption == InUse \subseteq {"Allow", "Ask", "Deny"}
ASSUME SavingAssumption == Saving \subseteq Devices
ASSUME IdSpaceAssumption == IdSpace \in Nat /\ IdSpace > 3
ASSUME BoundsAssumption == 
  {MaxSessions, MaxLosses, MaxTimeouts, MaxCommands} \subseteq Nat

VARIABLES
  routes,    \* routes[d]: the routes of d with its peer, in list order
  saved,     \* saved[d]: the flows in settings.saved_routes
  prompts,   \* prompts[d]: the pending requests, in arrival order
  prompted,  \* history: a user was asked about a request
  policy,    \* policy[d]: what d's permission says of the peer's requests
  able,      \* able[d]: the flows check_local_capability passes
  gen,       \* the newest session
  dialer,    \* the device that dialed it
  at,        \* at[d]: the session d is in, 0 for none
  seen,      \* seen[d]: the newest session d has been in or given up
  resumed,   \* resumed[d]: the peer proved with a token that it resumes
  next,      \* next[d]: next_route of d's session
  left,      \* sessions a user disconnected
  starts,    \* starts[d]: how often the process of d was started again
  chan,      \* chan[d]: messages on their way to d, each of a session
  losses, timeouts, commands

sessionVars == <<gen, dialer, at, seen, resumed, left, starts>>
userVars == <<policy, able>>
promptVars == <<prompts, prompted>>
vars == <<routes, saved, prompts, prompted, policy, able, gen, dialer, at, seen,
          resumed, next, left, starts, chan, losses, timeouts, commands>>

Statuses == {"Requesting", "Starting", "Active", "Paused"}
Ids == 1 .. (IdSpace - 1)

\* mine: requested_locally.  up: the pipeline's start was reported.
Route == [id: Ids, flow: Flows, st: Statuses, mine: BOOLEAN, up: BOOLEAN]
Message == [of: Nat, type: {"Request", "Accept", "Reject", "Stop"}, id: Ids,
            flow: Flows]

----------------------------------------------------------------------------
(* Ids, keys and messages. *)

\* Session::alloc_route: the id after n.
After(n) == LET m == (n + 2) % IdSpace IN IF m < 2 THEN m + 2 ELSE m

\* The id k allocations after n.
Later(n, k) ==
  LET id[i \in 0 .. k] == IF i = 0 THEN n ELSE After(id[i - 1]) IN id[k]

NewRoute(i, f, st, mine) ==
  [id |-> i, flow |-> f, st |-> st, mine |-> mine, up |-> FALSE]

\* The first of the positions K, 0 if there is none.
First(K) == IF K = {} THEN 0 ELSE CHOOSE j \in K : \A k \in K : j <= k

\* The elements of s at the positions K, in their order.
Part(s, K) ==
  LET part[i \in 0 .. Len(s)] ==
        IF i = 0 THEN <<>>
        ELSE IF i \in K THEN Append(part[i - 1], s[i]) ELSE part[i - 1]
  IN part[Len(s)]

Without(s, i) == Part(s, DOMAIN s \ {i})

\* The position of the first route with id i, 0 if there is none.
FirstByKey(rs, i) == First({j \in DOMAIN rs : rs[j].id = i})

\* The list without its first route with id i.
WithoutKey(rs, i) == Without(rs, FirstByKey(rs, i))

HasFlow(rs, f) == \E i \in DOMAIN rs : rs[i].flow = f

\* ch with d's messages ms of session e behind what is under way to its peer.
\* Nothing is sent without a session, and nobody reads what is sent on a
\* session the peer has been in and is in no more.
Send(ch, d, e, ms) ==
  LET p == Other(d) IN
  IF e = 0 \/ (seen[p] >= e /\ at[p] # e) THEN ch
  ELSE [ch EXCEPT ![p] = @ \o ms]

Msg(e, type, i, f) == [of |-> e, type |-> type, id |-> i, flow |-> f]

\* d tells its peer about the route with id i.
Tell(ch, d, type, i, f) == Send(ch, d, at[d], <<Msg(at[d], type, i, f)>>)

\* What stop_route_by_key leaves of a device's routes and saved routes: the
\* first route with id i goes, and with it its "Resume after restart" entry
\* (every reason used with it here ends that).
Stopped(x, i) ==
  LET j == FirstByKey(x.routes, i) IN
  IF j = 0 THEN x
  ELSE [routes |-> Without(x.routes, j),
        saved |-> Part(x.saved, {k \in DOMAIN x.saved :
                                   x.saved[k] # x.routes[j].flow})]

\* stop_route_by_key for each route of rs in turn, from x.
StoppedEach(x, rs) ==
  LET after[k \in 0 .. Len(rs)] ==
        IF k = 0 THEN x ELSE Stopped(after[k - 1], rs[k].id)
  IN after[Len(rs)]

StopEach(d, rs) ==
  LET x == StoppedEach([routes |-> routes[d], saved |-> saved[d]], rs) IN
  /\ routes' = [routes EXCEPT ![d] = x.routes]
  /\ saved' = [saved EXCEPT ![d] = x.saved]

\* Bug: the peer is not told.
StopAndTellNobody(d, rs) == StopEach(d, rs) /\ UNCHANGED chan

\* The same, telling the peer.
StopAndTell(d, rs) ==
  /\ StopEach(d, rs)
  /\ chan' = Send(chan, d, at[d], [i \in DOMAIN rs |->
                Msg(at[d], "Stop", rs[i].id, rs[i].flow)])

Commanded(name) ==
  /\ name \in UserDoes
  /\ commands < MaxCommands /\ commands' = commands + 1

----------------------------------------------------------------------------
(* Starting a route. *)

\* Command::StartRoute.  A route with the flow in any state makes it a no-op,
\* and without a session or the capability it is refused.
StartRoute(d, f) ==
  /\ Commanded("start")
  /\ at[d] # 0 /\ ~HasFlow(routes[d], f) /\ f \in able[d]
  /\ routes' = [routes EXCEPT ![d] =
                  Append(@, NewRoute(next[d], f, "Requesting", TRUE))]
  /\ next' = [next EXCEPT ![d] = After(@)]
  /\ chan' = Tell(chan, d, "Request", next[d], f)
  /\ UNCHANGED <<saved, promptVars, userVars, sessionVars, losses, timeouts>>

\* Bug: a paused copy stays, and passes for a duplicate.
AcceptRouteKeepsPaused(d, i, f) ==
  routes' = [routes EXCEPT ![d] =
               IF FirstByKey(@, i) # 0 \/ at[d] = 0 THEN @
               ELSE Append(@, NewRoute(i, f, "Starting", FALSE))]

\* accept_route: paused copies with the flow or the id are replaced, an id
\* in use makes it a duplicate, and begin_pipelines needs the session.
AcceptRoute(d, i, f) ==
  LET kept == Part(routes[d], {k \in DOMAIN routes[d] :
                LET r == routes[d][k] IN
                ~(r.st = "Paused" /\ (r.flow = f \/ r.id = i))}) IN
  routes' = [routes EXCEPT ![d] =
               IF FirstByKey(kept, i) # 0 \/ at[d] = 0 THEN kept
               ELSE Append(kept, NewRoute(i, f, "Starting", FALSE))]

\* A reconnected peer need not be approved again for a route it had.
Resumes(d, f) ==
  /\ resumed[d]
  /\ \E i \in DOMAIN routes[d] :
       LET r == routes[d][i] IN r.flow = f /\ r.st = "Paused" /\ ~r.mine

\* on_route_request, with the message already taken from ch.
OnRequest(d, m, ch) ==
  \/ /\ m.flow \notin able[d] \/ policy[d] = "Deny"
     /\ chan' = Tell(ch, d, "Reject", m.id, m.flow)
     /\ UNCHANGED <<routes, promptVars>>
  \/ /\ m.flow \in able[d]
     /\ policy[d] = "Allow" \/ (policy[d] = "Ask" /\ Resumes(d, m.flow))
     /\ AcceptRoute(d, m.id, m.flow)
     /\ chan' = ch
     /\ UNCHANGED promptVars
  \/ /\ m.flow \in able[d]
     /\ policy[d] = "Ask" /\ ~Resumes(d, m.flow)
     /\ prompted' = TRUE
     /\ prompts' = [prompts EXCEPT ![d] =
                      Append(@, [id |-> m.id, flow |-> m.flow])]
     /\ chan' = ch
     /\ UNCHANGED routes

\* on_route_accept: the pipeline starts and the route moves to the end.
OnAccept(d, m, ch) ==
  LET i == First({k \in DOMAIN routes[d] : /\ routes[d][k].id = m.id
                                          /\ routes[d][k].st = "Requesting"}) IN
  /\ routes' = IF i = 0 THEN routes
               ELSE [routes EXCEPT ![d] =
                       Append(Without(@, i), [@[i] EXCEPT !.st = "Starting"])]
  /\ chan' = ch

\* Body::RouteReject removes the first route with the id, whatever its state.
OnReject(d, m, ch) ==
  /\ routes' = [routes EXCEPT ![d] = WithoutKey(@, m.id)]
  /\ chan' = ch

\* Body::RouteStop: stop_route_by_key without telling the peer.
OnStop(d, m, ch) ==
  /\ StopEach(d, <<m>>)
  /\ chan' = ch

\* on_control for the next message of d's session.
Receive(d) ==
  /\ chan[d] # <<>>
  /\ LET m == Head(chan[d])
         ch == [chan EXCEPT ![d] = Tail(@)] IN
     /\ m.of = at[d]
     /\ \/ m.type = "Request" /\ OnRequest(d, m, ch) /\ UNCHANGED saved
        \/ m.type = "Accept" /\ OnAccept(d, m, ch)
                             /\ UNCHANGED <<saved, promptVars>>
        \/ m.type = "Reject" /\ OnReject(d, m, ch)
                             /\ UNCHANGED <<saved, promptVars>>
        \/ m.type = "Stop" /\ OnStop(d, m, ch) /\ UNCHANGED promptVars
  /\ UNCHANGED <<userVars, sessionVars, next, losses, timeouts, commands>>

\* respond_request: the user answers a prompt, maybe for good.  The session
\* the request came on may be over and another one in its place.
RespondRequest(d, i, accept, remember) ==
  LET p == prompts[d][i] IN
  /\ prompts' = [prompts EXCEPT ![d] = Without(@, i)] /\ UNCHANGED prompted
  /\ policy' = IF remember
               THEN [policy EXCEPT ![d] = IF accept THEN "Allow" ELSE "Deny"]
               ELSE policy
  /\ \/ /\ accept
        /\ AcceptRoute(d, p.id, p.flow)
        /\ UNCHANGED chan
     \/ /\ ~accept
        /\ chan' = Tell(chan, d, "Reject", p.id, p.flow)
        /\ UNCHANGED routes
  /\ UNCHANGED <<saved, able, sessionVars, next, losses, timeouts, commands>>

\* tick: a prompt nobody answered in thirty seconds is refused.
PromptExpires(d, i) ==
  LET p == prompts[d][i] IN
  /\ timeouts < MaxTimeouts /\ timeouts' = timeouts + 1
  /\ prompts' = [prompts EXCEPT ![d] = Without(@, i)] /\ UNCHANGED prompted
  /\ chan' = Tell(chan, d, "Reject", p.id, p.flow)
  /\ UNCHANGED <<routes, saved, userVars, sessionVars, next, losses, commands>>

----------------------------------------------------------------------------
(* Pipelines. *)

\* on_sender_ready or on_receiver_ready, then activate_route: it takes the
\* first route with the id, and tells the device that asked.
PipelineReady(d, i) ==
  LET r == routes[d][i]
      j == FirstByKey(routes[d], r.id)
      up == [routes EXCEPT ![d][i].up = TRUE]
      go == routes[d][j].st = "Starting" IN
  /\ r.st = "Starting" /\ ~r.up
  /\ routes' = IF go THEN [up EXCEPT ![d][j].st = "Active"] ELSE up
  /\ chan' = IF go /\ ~routes[d][j].mine
             THEN Tell(chan, d, "Accept", r.id, routes[d][j].flow)
             ELSE chan
  /\ saved' = IF go /\ routes[d][j].mine /\ d \in Saving
                 /\ \A k \in DOMAIN saved[d] : saved[d][k] # routes[d][j].flow
              THEN [saved EXCEPT ![d] = Append(@, routes[d][j].flow)]
              ELSE saved
  /\ UNCHANGED <<promptVars, userVars, sessionVars, next, losses, timeouts,
                 commands>>

\* The device cannot be opened: fail_route, of the first route with the id.
PipelineFails(d, i) ==
  LET r == routes[d][i]
      j == FirstByKey(routes[d], r.id)
      told == IF routes[d][j].mine \/ routes[d][j].st = "Active"
              THEN "Stop" ELSE "Reject" IN
  /\ r.st = "Starting" /\ ~r.up
  /\ timeouts < MaxTimeouts /\ timeouts' = timeouts + 1
  /\ routes' = [routes EXCEPT ![d] = Without(@, j)]
  /\ chan' = Tell(chan, d, told, r.id, routes[d][j].flow)
  /\ UNCHANGED <<saved, promptVars, userVars, sessionVars, next, losses,
                 commands>>

\* tick: a request, a start or a pause took too long.
Expire(d, i) ==
  /\ routes[d][i].st # "Active"
  /\ timeouts < MaxTimeouts /\ timeouts' = timeouts + 1
  /\ StopAndTell(d, <<routes[d][i]>>)
  /\ UNCHANGED <<promptVars, userVars, sessionVars, next, losses, commands>>

----------------------------------------------------------------------------
(* Users. *)

\* Command::StopRoute.
StopRoute(d, i) ==
  /\ Commanded("stop")
  /\ StopAndTell(d, <<routes[d][i]>>)
  /\ UNCHANGED <<promptVars, userVars, sessionVars, next, losses, timeouts>>

\* Bug: routes on their way are not looked at.
UnderDenialActiveOnly(d) ==
  Part(routes[d], {i \in DOMAIN routes[d] :
                     ~routes[d][i].mine /\ routes[d][i].st = "Active"})

\* The routes enforce_permissions stops: those the peer asked for.
UnderDenial(d) ==
  Part(routes[d], {i \in DOMAIN routes[d] : ~routes[d][i].mine})

\* Command::SetPermission, with enforce_permissions.
SetPermission(d, p) ==
  /\ Commanded("permission")
  /\ policy' = [policy EXCEPT ![d] = p]
  /\ StopAndTell(d, IF p = "Deny" THEN UnderDenial(d) ELSE <<>>)
  /\ UNCHANGED <<promptVars, able, sessionVars, next, losses, timeouts>>

\* A permission of the operating system or a device comes or goes.
CapabilityChanges(d, f) ==
  /\ Commanded("capability")
  /\ able' = [able EXCEPT ![d] = IF f \in @ THEN @ \ {f} ELSE @ \cup {f}]
  /\ UNCHANGED <<routes, saved, promptVars, policy, sessionVars, next, chan,
                 losses, timeouts>>

----------------------------------------------------------------------------
(* Sessions. *)

\* Bug: what is only on its way is lost with the session.
PauseActiveOnly(rs) ==
  LET kept == Part(rs, {i \in DOMAIN rs : rs[i].st \in {"Active", "Paused"}})
  IN [i \in DOMAIN kept |-> [kept[i] EXCEPT !.st = "Paused", !.up = FALSE]]

\* pause_routes_for: a route on its way is kept by the device that asked.
Pause(rs) ==
  LET kept == Part(rs, {i \in DOMAIN rs :
                          rs[i].st \in {"Active", "Paused"} \/ rs[i].mine})
  IN [i \in DOMAIN kept |-> [kept[i] EXCEPT !.st = "Paused", !.up = FALSE]]

\* What resume_routes asks for: the paused routes this device had asked for,
\* unless another route of the list has the flow, and the saved flows.
Wanted(d, rs, rest) ==
  LET paused == Part(rs, {i \in DOMAIN rs :
                  /\ rs[i].st = "Paused" /\ rs[i].mine
                  /\ ~HasFlow(rest, rs[i].flow)})
      more == Part(saved[d], {i \in DOMAIN saved[d] :
                /\ ~HasFlow(rs, saved[d][i]) /\ saved[d][i] \in able[d]})
  IN paused \o [i \in DOMAIN more |-> NewRoute(1, more[i], "Paused", TRUE)]

\* Bugs: both ends count alike, or the dialer counts from zero.
SameFirstId(d) == 1
ZeroFirstId(d) == IF d = dialer THEN 0 ELSE 1

\* next_route of a new session.
FirstId(d) == IF d = dialer THEN 2 ELSE 1

\* The routes ws under the ids of a new session; one that cannot start stays
\* paused.
Begun(d, ws) ==
  LET Starts(k) == Cardinality({j \in 1 .. k : ws[j].flow \in able[d]})
  IN [k \in DOMAIN ws |->
        IF ws[k].flow \in able[d]
        THEN NewRoute(Later(FirstId(d), Starts(k) - 1), ws[k].flow,
                      "Requesting", TRUE)
        ELSE ws[k]]

\* The routes that are not asked for again, and of those that are, the ones that
\* start.
Others(rs) == Part(rs, {i \in DOMAIN rs : ~(rs[i].st = "Paused" /\ rs[i].mine)})
Asked(rs) == Part(rs, {i \in DOMAIN rs : rs[i].st = "Requesting"})

\* What is of older sessions is read no more.
Unread(d) == [chan EXCEPT ![d] = Part(@, {i \in DOMAIN @ : @[i].of = gen})]

\* promote_session of the newest session, then resume_routes.
Promote(d, proved) ==
  /\ seen[d] < gen
  /\ seen' = [seen EXCEPT ![d] = gen]
  /\ at' = [at EXCEPT ![d] = gen]
  /\ resumed' = [resumed EXCEPT ![d] = proved]
  /\ \E rs \in {IF at[d] = 0 THEN routes[d] ELSE Pause(routes[d])} :
     \E rest \in {Others(rs)} :
     \E wanted \in {Wanted(d, rs, rest)} :
     \E begun \in {Begun(d, wanted)} :
     \E asked \in {Asked(begun)} :
       /\ routes' = [routes EXCEPT ![d] = rest \o begun]
       /\ next' = [next EXCEPT ![d] = Later(FirstId(d), Len(asked))]
       /\ chan' = Send(Unread(d), d, gen, [k \in DOMAIN asked |->
                     Msg(gen, "Request", asked[k].id, asked[k].flow)])
  /\ UNCHANGED <<saved, promptVars, userVars, gen, dialer, left, starts, losses,
                 timeouts, commands>>

\* d's end of its session is over, and with it what it has not read.
Leave(d) ==
  /\ at' = [at EXCEPT ![d] = 0]
  /\ resumed' = [resumed EXCEPT ![d] = FALSE]
  /\ chan' = [chan EXCEPT ![d] = Part(@, {i \in DOMAIN @ : @[i].of > at[d]})]

\* on_closed, with the network gone or the peer's end.  A Goodbye of a user
\* who disconnected removes the routes, everything else pauses them.
OnClosed(d) ==
  LET p == Other(d)
      over == seen[p] >= at[d] /\ at[p] # at[d] IN
  /\ at[d] # 0
  /\ \/ /\ at[d] \in left
        /\ routes' = [routes EXCEPT ![d] = <<>>]
        /\ UNCHANGED losses
     \/ /\ (over /\ at[d] \notin left) \/ losses < MaxLosses
        /\ losses' = IF over /\ at[d] \notin left THEN losses ELSE losses + 1
        /\ routes' = [routes EXCEPT ![d] = Pause(@)]
  /\ Leave(d)
  /\ UNCHANGED <<saved, promptVars, userVars, gen, dialer, seen, left, starts,
                 next, timeouts, commands>>

\* Command::Disconnect, with remove_routes_for: the routes go without a word
\* about each, and saved routes stay saved.
Disconnect(d) ==
  /\ at[d] # 0
  /\ Commanded("disconnect")
  /\ routes' = [routes EXCEPT ![d] = <<>>]
  /\ Leave(d)
  /\ left' = left \cup {at[d]}
  /\ UNCHANGED <<saved, promptVars, userVars, gen, dialer, seen, starts, next,
                 losses, timeouts>>

\* Another session is made, because one end lost the newest one or because
\* the devices dialed each other twice.
Reconnect(d) ==
  LET missed == \E p \in Devices : seen[p] = gen /\ at[p] = 0 IN
  /\ gen < MaxSessions
  /\ missed \/ losses < MaxLosses
  /\ losses' = IF missed THEN losses ELSE losses + 1
  /\ gen' = gen + 1
  /\ dialer' = d
  /\ UNCHANGED <<routes, saved, promptVars, userVars, at, seen, resumed, next,
                 left, starts, chan, timeouts, commands>>

\* The process of d ends and is started again: only the settings are left.
Crash(d) ==
  /\ losses < MaxLosses /\ losses' = losses + 1
  /\ routes' = [routes EXCEPT ![d] = <<>>]
  /\ prompts' = [prompts EXCEPT ![d] = <<>>] /\ UNCHANGED prompted
  /\ starts' = [starts EXCEPT ![d] = @ + 1]
  /\ seen' = [seen EXCEPT ![d] = gen]
  /\ at' = [at EXCEPT ![d] = 0]
  /\ resumed' = [resumed EXCEPT ![d] = FALSE]
  /\ chan' = [chan EXCEPT ![d] = <<>>]
  /\ UNCHANGED <<saved, userVars, gen, dialer, left, next, timeouts, commands>>

\* resumed_recently is over.
ResumptionAges(d) ==
  /\ resumed[d]
  /\ resumed' = [resumed EXCEPT ![d] = FALSE]
  /\ UNCHANGED <<routes, saved, promptVars, userVars, gen, dialer, at, seen,
                 left, starts, next, chan, losses, timeouts, commands>>

----------------------------------------------------------------------------
Init ==
  /\ routes = [d \in Devices |-> <<>>]
  /\ saved = [d \in Devices |-> <<>>]
  /\ prompts = [d \in Devices |-> <<>>] /\ prompted = FALSE
  /\ policy \in [Devices -> InUse]
  /\ able = [d \in Devices |-> Flows]
  /\ gen = 1
  /\ dialer \in Devices
  /\ at = [d \in Devices |-> 0]
  /\ seen = [d \in Devices |-> 0]
  /\ resumed = [d \in Devices |-> FALSE]
  /\ next = [d \in Devices |-> 1]
  /\ left = {}
  /\ starts = [d \in Devices |-> 0]
  /\ chan = [d \in Devices |-> <<>>]
  /\ losses = 0 /\ timeouts = 0 /\ commands = 0

UserStep(d) ==
  \/ \E f \in Flows : StartRoute(d, f) \/ CapabilityChanges(d, f)
  \/ \E i \in DOMAIN routes[d] : StopRoute(d, i)
  \/ \E p \in InUse : SetPermission(d, p)
  \/ Disconnect(d)

Answer(d) ==
  \E i \in DOMAIN prompts[d] : \E accept, remember \in BOOLEAN :
    RespondRequest(d, i, accept, remember)

Pipelines(d) == \E i \in DOMAIN routes[d] : PipelineReady(d, i)

Timeout(d) ==
  \/ \E i \in DOMAIN routes[d] : PipelineFails(d, i) \/ Expire(d, i)
  \/ \E i \in DOMAIN prompts[d] : PromptExpires(d, i)

SessionStep(d) ==
  \/ \E proved \in BOOLEAN : Promote(d, proved)
  \/ OnClosed(d) \/ Reconnect(d) \/ Crash(d) \/ ResumptionAges(d)

Next == \E d \in Devices :
          \/ Receive(d) \/ Answer(d) \/ Pipelines(d) \/ Timeout(d)
          \/ UserStep(d) \/ SessionStep(d)

Spec == Init /\ [][Next]_vars

(***************************************************************************)
(* Fairness.  The actor handles what is queued for it, a pipeline starts,  *)
(* users answer prompts, and devices that trust each other and are on the  *)
(* network connect again (Connections!Converges).  Nothing is assumed of   *)
(* losses, timeouts and commands.                                          *)
(***************************************************************************)
Fairness ==
  /\ \A d \in Devices :
       /\ WF_vars(Receive(d))
       /\ WF_vars(Answer(d))
       /\ WF_vars(Pipelines(d))
       /\ WF_vars(\E proved \in BOOLEAN : Promote(d, proved))
       /\ WF_vars(OnClosed(d) /\ UNCHANGED losses)
  /\ WF_vars((\E d \in Devices : Reconnect(d)) /\ UNCHANGED losses)

FairSpec == Spec /\ Fairness

----------------------------------------------------------------------------
(* Properties. *)

TypeOK ==
  /\ routes \in [Devices -> Seq(Route)]
  /\ saved \in [Devices -> Seq(Flows)]
  /\ prompts \in [Devices -> Seq([id: Ids, flow: Flows])]
  /\ prompted \in BOOLEAN
  /\ policy \in [Devices -> {"Allow", "Ask", "Deny"}]
  /\ able \in [Devices -> SUBSET Flows]
  /\ gen \in Nat \ {0} /\ dialer \in Devices
  /\ at \in [Devices -> Nat] /\ seen \in [Devices -> Nat]
  /\ resumed \in [Devices -> BOOLEAN]
  /\ next \in [Devices -> Ids]
  /\ left \subseteq Nat
  /\ starts \in [Devices -> Nat]
  /\ chan \in [Devices -> Seq(Message)]
  /\ losses \in Nat /\ timeouts \in Nat /\ commands \in Nat

Together == at[A] = at[B] /\ at[A] # 0

\* The peer's half of route r of d is active too.
Matched(d, r) ==
  \E i \in DOMAIN routes[Other(d)] :
    LET q == routes[Other(d)][i] IN
    /\ q.id = r.id /\ q.flow = r.flow /\ q.mine = ~r.mine /\ q.st = "Active"

\* A route runs for the device that asked for it only while the other device
\* runs its half, or has said that it stopped it: the microphone or speaker
\* at the other end is never just assumed (on_route_accept, activate_route,
\* fail_route, stop_route_by_key).
RequesterMatched ==
  Together =>
    \A d \in Devices : \A i \in DOMAIN routes[d] :
      LET r == routes[d][i] IN
      r.mine /\ r.st \in {"Starting", "Active"} =>
        \/ Matched(d, r)
        \/ \E k \in DOMAIN chan[d] :
             chan[d][k].id = r.id /\ chan[d][k].type \in {"Stop", "Reject"}

\* Nothing is under way: every message is read, every prompt is answered and
\* every pipeline has started.
Settled ==
  /\ Together
  /\ \A d \in Devices :
       /\ chan[d] = <<>> /\ prompts[d] = <<>>
       /\ \A i \in DOMAIN routes[d] :
            routes[d][i].st \in {"Active", "Paused"}

\* "Start or stop any route from either device": without prompts (a RouteStop
\* does not withdraw a prompt that is open), once nothing is under way a
\* route runs at both devices or at none, so that a device never goes on
\* capturing for a route the other one has stopped.
RoutesAgree ==
  Settled =>
    \A d \in Devices : \A i \in DOMAIN routes[d] :
      routes[d][i].st = "Active" => Matched(d, routes[d][i])

\* Two routes that are not paused never have the same key, which every
\* handler looks routes up by.
KeysDistinct ==
  \A d \in Devices : \A i, j \in DOMAIN routes[d] :
    /\ routes[d][i].st # "Paused" /\ routes[d][j].st # "Paused"
    /\ routes[d][i].id = routes[d][j].id
    => i = j

\* A device that denies the permission runs nothing for the peer, whatever
\* was starting when the permission changed (enforce_permissions).
DeniedStopped ==
  \A d \in Devices : policy[d] = "Deny" =>
    \A i \in DOMAIN routes[d] : routes[d][i].mine

\* d asked for flow f and both devices run it.
Running(d, f) ==
  /\ Together
  /\ \E i \in DOMAIN routes[d] :
       LET r == routes[d][i] IN
       r.flow = f /\ r.mine /\ r.st = "Active" /\ Matched(d, r)

AskedFor(d, f) ==
  \E i \in DOMAIN routes[d] : routes[d][i].flow = f /\ routes[d][i].mine

\* A stream that ran runs again after the last loss of a connection or crash
\* (pause_routes_for, resume_routes, settings.saved_routes).
StreamSurvives ==
  \A d \in Devices : \A f \in Flows : [](Running(d, f) => <>[]Running(d, f))

\* "A link that drops while a stream is still being set up still ends with the
\* stream running", unless the device that asked crashes (pause_routes_for).
StartSurvives ==
  \A d \in Devices : \A f \in Flows : \A n \in 0 .. MaxLosses :
    (AskedFor(d, f) /\ starts[d] = n) ~> (Running(d, f) \/ starts[d] # n)

\* A stream that ran, or was being set up, runs again after the last loss of a
\* connection (pause_routes_for, resume_routes, settings.saved_routes).
Survives == StreamSurvives /\ StartSurvives
=============================================================================
