---------------------------- MODULE PartsProofs ----------------------------
(***************************************************************************)
(* What keeps the microphone of a device as the user wishes and the sound  *)
(* server as it was found, for any routes, keys, peers, sinks and bounds:  *)
(* each component of MCParts keeps the invariant Inv of its module.        *)
(***************************************************************************)
EXTENDS MCParts, FiniteSetTheorems, SequenceTheorems, TLAPS

----------------------------------------------------------------------------
(* The microphone.                                                         *)

LEMMA MicInit == Microphone!Init => Microphone!Inv
<1> SUFFICES ASSUME Microphone!Init PROVE Microphone!Inv
  OBVIOUS
<1> USE DEF Microphone!Init
<1>0. 0 \in 0 .. Recovery - 1 /\ 0 \in 0 .. IdleTicks /\ 0 \in 0 .. MicTurns
  BY MicrophoneNumbers
<1>1. Microphone!TypeOK
  BY <1>0 DEF Microphone!TypeOK, Microphone!NoRoute, Microphone!NoGroup
<1>2. \A r \in Microphone!Routes :
        Microphone!Silenced(r) /\ (route[r].open => Microphone!HasControls(r))
  BY DEF Microphone!Silenced, Microphone!NoRoute
<1>3. \A g \in Microphone!Groups : Microphone!AsSet(g) /\ Microphone!Holds(g)
  BY DEF Microphone!AsSet, Microphone!Holds, Microphone!NoGroup
<1>4. keepMic = Microphone!NeedsMic(route, monitor)
  BY DEF Microphone!NeedsMic, Microphone!NoRoute
<1> QED BY <1>1, <1>2, <1>3, <1>4 DEF Microphone!Inv

\* A route, and what holds of route r in state x, given the mute m and the feeds
\* o that were overruled.
MicRoute == [status: {"none", "starting", "active"},
             muted: BOOLEAN, flag: BOOLEAN, open: BOOLEAN]

SilentIn(r, x, m, o) ==
  /\ m /\ Microphone!IsMic(r) /\ x.status # "none" /\ r \notin o => x.flag
  /\ x.open => x.status # "none"

\* A group, and what holds of group g in state x, given the mute m, whether to
\* denoise, d, and the routes.
MicGroup == [slot: {"none", "starting", "running"},
             routes: SUBSET Microphone!Routes, muted: BOOLEAN, denoise: BOOLEAN]

HoldsIn(g, x, routes) ==
  \A r \in x.routes : Kind[r] = g /\ routes[r].status # "none"

SetIn(g, x, m, d, routes) ==
  /\ x.slot = "running" => x.muted = m /\ x.denoise = d
  /\ HoldsIn(g, x, routes)

\* The invariant, part by part.
LEMMA MicTypes ==
  ASSUME Microphone!Inv
  PROVE  /\ micMuted \in BOOLEAN /\ noise \in BOOLEAN /\ suspended \in BOOLEAN
         /\ healthy \in 0 .. Recovery - 1
         /\ monitor \in BOOLEAN /\ idle \in 0 .. IdleTicks /\ closed \in BOOLEAN
         /\ overruled \subseteq Microphone!Routes /\ turns \in 0 .. MicTurns
         /\ Microphone!DenoiseHere \in BOOLEAN
  BY DEF Microphone!Inv, Microphone!TypeOK, Microphone!DenoiseHere

LEMMA MicRoutes ==
  ASSUME Microphone!Inv
  PROVE  /\ route \in [Microphone!Routes -> MicRoute]
         /\ \A r \in Microphone!Routes :
              route[r] \in MicRoute /\ SilentIn(r, route[r], micMuted, overruled)
<1>1. route \in [Microphone!Routes -> MicRoute]
  BY DEF Microphone!Inv, Microphone!TypeOK, MicRoute
<1> QED
  BY <1>1 DEF Microphone!Inv, SilentIn, Microphone!HasControls, Microphone!Silenced

LEMMA MicGroups ==
  ASSUME Microphone!Inv
  PROVE  /\ group \in [Microphone!Groups -> MicGroup]
         /\ \A g \in Microphone!Groups :
              group[g] \in MicGroup /\ SetIn(g, group[g], micMuted, Microphone!DenoiseHere, route)
<1>1. group \in [Microphone!Groups -> MicGroup]
  BY DEF Microphone!Inv, Microphone!TypeOK, MicGroup
<1> QED
  BY <1>1 DEF Microphone!Inv, SetIn, HoldsIn, Microphone!AsSet, Microphone!Holds,
              Microphone!HasControls

LEMMA MicParts ==
  ASSUME micMuted' \in BOOLEAN, noise' \in BOOLEAN, suspended' \in BOOLEAN,
         healthy' \in 0 .. Recovery - 1, monitor' \in BOOLEAN, idle' \in 0 .. IdleTicks,
         closed' \in BOOLEAN, overruled' \subseteq Microphone!Routes, turns' \in 0 .. MicTurns,
         route' \in [Microphone!Routes -> MicRoute],
         \A r \in Microphone!Routes : SilentIn(r, route'[r], micMuted', overruled'),
         group' \in [Microphone!Groups -> MicGroup],
         \A g \in Microphone!Groups :
           SetIn(g, group'[g], micMuted', Microphone!DenoiseHere', route'),
         keepMic' = Microphone!NeedsMic(route', monitor')
  PROVE  Microphone!Inv'
<1>1. keepMic' \in BOOLEAN
  BY DEF Microphone!NeedsMic
<1>2. Microphone!TypeOK'
  BY <1>1 DEF Microphone!TypeOK, MicRoute, MicGroup
<1>3. \A g \in Microphone!Groups : Microphone!AsSet(g)' /\ Microphone!Holds(g)'
  BY DEF SetIn, HoldsIn, Microphone!AsSet, Microphone!Holds, Microphone!HasControls
<1>4. \A r \in Microphone!Routes :
        Microphone!Silenced(r)' /\ (route[r].open => Microphone!HasControls(r))'
  BY DEF Microphone!HasControls, Microphone!Silenced, SilentIn, Microphone!IsMic
<1>5. keepMic' = Microphone!NeedsMic(route, monitor)'
  BY DEF Microphone!NeedsMic, Microphone!IsSource
<1> QED BY <1>2, <1>3, <1>4, <1>5 DEF Microphone!Inv

LEMMA MicTurn ==
  ASSUME turns \in 0 .. MicTurns, Microphone!Turn
  PROVE  turns' \in 0 .. MicTurns
  BY MicrophoneNumbers DEF Microphone!Turn

\* What is not there is silent and set.
LEMMA NoMicRoute ==
  ASSUME NEW q, NEW m, NEW o
  PROVE  Microphone!NoRoute \in MicRoute /\ SilentIn(q, Microphone!NoRoute, m, o)
  BY DEF Microphone!NoRoute, MicRoute, SilentIn

LEMMA NoMicGroup ==
  ASSUME NEW g, NEW m, NEW d, NEW rs
  PROVE  /\ Microphone!NoGroup \in MicGroup
         /\ SetIn(g, Microphone!NoGroup, m, d, rs)
  BY DEF Microphone!NoGroup, MicGroup, SetIn, HoldsIn

\* update_mic_groups: what runs is set as it is told.
LEMMA MicUpdatedType ==
  ASSUME NEW gs, NEW m \in BOOLEAN, NEW d \in BOOLEAN,
         NEW g \in Microphone!Groups, gs[g] \in MicGroup
  PROVE  Microphone!UpdateMicGroups(gs, m, d)[g] \in MicGroup
  BY DEF Microphone!UpdateMicGroups, MicGroup

LEMMA MicUpdated ==
  ASSUME NEW gs, NEW m, NEW d, NEW rs, NEW g \in Microphone!Groups,
         gs[g] \in MicGroup, HoldsIn(g, gs[g], rs)
  PROVE  SetIn(g, Microphone!UpdateMicGroups(gs, m, d)[g], m, d, rs)
<1>1. CASE gs[g].slot = "running"
  <2>1. Microphone!UpdateMicGroups(gs, m, d)[g]
          = [gs[g] EXCEPT !.muted = m, !.denoise = d]
    BY <1>1 DEF Microphone!UpdateMicGroups
  <2> QED BY <2>1 DEF MicGroup, SetIn, HoldsIn
<1>2. CASE gs[g].slot # "running"
  <2>1. Microphone!UpdateMicGroups(gs, m, d)[g] = gs[g]
    BY <1>2 DEF Microphone!UpdateMicGroups
  <2> QED BY <1>2, <2>1 DEF SetIn, HoldsIn
<1> QED BY <1>1, <1>2

\* prune_encoders: what is left was there.
LEMMA MicPruned ==
  ASSUME NEW gs, NEW m, NEW d, NEW rs, NEW g \in Microphone!Groups,
         gs[g] \in MicGroup, SetIn(g, gs[g], m, d, rs)
  PROVE  /\ Microphone!Prune(gs)[g] \in MicGroup
         /\ SetIn(g, Microphone!Prune(gs)[g], m, d, rs)
<1>1. \/ Microphone!Prune(gs)[g] = gs[g]
      \/ Microphone!Prune(gs)[g] = Microphone!NoGroup
  BY DEF Microphone!Prune
<1> QED BY <1>1, NoMicGroup

\* A route whose status is what it was belongs to the groups it belonged to.
LEMMA MicStay ==
  ASSUME Microphone!Inv, NEW g \in Microphone!Groups, NEW rs,
         \A r \in group[g].routes : rs[r].status # "none"
  PROVE  SetIn(g, group[g], micMuted, Microphone!DenoiseHere, rs)
  BY MicGroups DEF SetIn, HoldsIn

----------------------------------------------------------------------------

\* begin_pipelines: a new route is silent from the beginning.
LEMMA MicBegin ==
  ASSUME Microphone!Inv, NEW r \in Microphone!Routes, Microphone!Begin(r)
  PROVE  Microphone!Inv'
<1> USE DEF Microphone!Begin
<1>0. PICK x : /\ x \in MicRoute /\ route' = [route EXCEPT ![r] = x]
               /\ x.status # "none" /\ SilentIn(r, x, micMuted, overruled)
  <2> DEFINE ready == Microphone!IsSource(r) /\ group[Kind[r]].slot = "running"
             x == [status |-> IF ready THEN "active" ELSE "starting",
                   muted |-> FALSE, flag |-> Microphone!IsMic(r) /\ micMuted, open |-> ready]
  <2>1. ready \in BOOLEAN /\ (Microphone!IsMic(r) /\ micMuted) \in BOOLEAN
    BY DEF Microphone!IsSource, Microphone!Groups, Microphone!IsMic
  <2>2. route' = [route EXCEPT ![r] = x]
    OBVIOUS
  <2> HIDE DEF ready
  <2>3. x \in MicRoute /\ x.status # "none" /\ SilentIn(r, x, micMuted, overruled)
    BY <2>1 DEF MicRoute, SilentIn
  <2> QED BY <2>2, <2>3
<1>1. route' \in [Microphone!Routes -> MicRoute]
  BY <1>0, MicRoutes
<1>2. \A q \in Microphone!Routes : SilentIn(q, route'[q], micMuted, overruled)
  BY <1>0, MicRoutes
<1>3. \A q \in Microphone!Routes : route[q].status # "none" => route'[q].status # "none"
  BY <1>0, MicRoutes
<1>4. route'[r].status # "none"
  BY <1>0, MicRoutes
<1>5. \A g \in Microphone!Groups : \A q \in group[g].routes : route'[q].status # "none"
  BY <1>3, MicGroups DEF SetIn, HoldsIn, MicGroup
<1>6. /\ group' \in [Microphone!Groups -> MicGroup]
      /\ \A g \in Microphone!Groups : SetIn(g, group'[g], micMuted, Microphone!DenoiseHere, route')
  <2>1. CASE ~Microphone!IsSource(r)
    BY <1>5, <2>1, MicGroups, MicStay
  <2>2. CASE Microphone!IsSource(r) /\ group[Kind[r]].slot = "none"
    <3> DEFINE y == [slot |-> "starting", routes |-> {r}, muted |-> micMuted,
                     denoise |-> Microphone!DenoiseHere]
    <3>1. group' = [group EXCEPT ![Kind[r]] = y] /\ Kind[r] \in Microphone!Groups
      BY <2>2, MicGroups DEF Microphone!Join, Microphone!IsSource
    <3>2. y \in MicGroup /\ SetIn(Kind[r], y, micMuted, Microphone!DenoiseHere, route')
      BY <1>4, MicTypes DEF MicGroup, SetIn, HoldsIn
    <3> HIDE DEF y
    <3> QED BY <1>5, <3>1, <3>2, MicGroups, MicStay
  <2>3. CASE Microphone!IsSource(r) /\ group[Kind[r]].slot # "none"
    <3> DEFINE y == [group[Kind[r]] EXCEPT !.routes = @ \cup {r}]
    <3>1. group' = [group EXCEPT ![Kind[r]] = y] /\ Kind[r] \in Microphone!Groups
      BY <2>3, MicGroups DEF Microphone!Join, Microphone!IsSource
    <3>2. y \in MicGroup /\ SetIn(Kind[r], y, micMuted, Microphone!DenoiseHere, route')
      <4>1. group[Kind[r]] \in MicGroup
        BY <3>1, MicGroups
      <4>2. SetIn(Kind[r], group[Kind[r]], micMuted, Microphone!DenoiseHere, route')
        BY <1>5, <3>1, MicStay
      <4> QED BY <1>4, <4>1, <4>2 DEF MicGroup, SetIn, HoldsIn
    <3> HIDE DEF y
    <3> QED BY <1>5, <3>1, <3>2, MicGroups, MicStay
  <2> QED BY <2>1, <2>2, <2>3
<1>7. Microphone!DenoiseHere' = Microphone!DenoiseHere
  BY DEF Microphone!DenoiseHere, Microphone!supervisor
<1>8. turns' \in 0 .. MicTurns
  BY MicTypes, MicTurn
<1> QED
  BY <1>1, <1>2, <1>6, <1>7, <1>8, MicTypes, MicParts
  DEF Microphone!supervisor, Microphone!idling

\* on_sender_ready: what was set while the device was opening is applied.
LEMMA MicSenderReady ==
  ASSUME Microphone!Inv, NEW g \in Microphone!Groups, Microphone!SenderReady(g)
  PROVE  Microphone!Inv'
<1> USE DEF Microphone!SenderReady
<1>1. Microphone!DenoiseHere' = Microphone!DenoiseHere
  BY DEF Microphone!DenoiseHere, Microphone!supervisor
<1>2. CASE /\ route' = [q \in Microphone!Routes |->
                       IF q \in group[g].routes
                       THEN [route[q] EXCEPT !.status = "active", !.open = TRUE]
                       ELSE route[q]]
           /\ group' = Microphone!Prune(Microphone!Refresh(
                      [group EXCEPT ![g].slot = "running"]))
           /\ UNCHANGED turns
  <2>1. \A q \in Microphone!Routes :
          route'[q] \in MicRoute /\ SilentIn(q, route'[q], micMuted, overruled)
          /\ (route[q].status # "none" => route'[q].status # "none")
    <3> TAKE q \in Microphone!Routes
    <3>1. CASE q \in group[g].routes
      <4>1. /\ route'[q] = [route[q] EXCEPT !.status = "active", !.open = TRUE]
            /\ route[q] \in MicRoute /\ SilentIn(q, route[q], micMuted, overruled)
            /\ route[q].status # "none"
        BY <1>2, <3>1, MicRoutes, MicGroups DEF SetIn, HoldsIn
      <4> QED BY <4>1 DEF MicRoute, SilentIn
    <3>2. CASE q \notin group[g].routes
      BY <1>2, <3>2, MicRoutes
    <3> QED BY <3>1, <3>2
  <2>2. route' \in [Microphone!Routes -> MicRoute]
    BY <1>2, <2>1
  <2> DEFINE gs == [group EXCEPT ![g].slot = "running"]
             us == Microphone!UpdateMicGroups(gs, micMuted, Microphone!DenoiseHere)
  <2>3. ASSUME NEW h \in Microphone!Groups
        PROVE  group'[h] \in MicGroup /\ SetIn(h, group'[h], micMuted, Microphone!DenoiseHere, route')
    <3>1. group[h] \in MicGroup /\ group \in [Microphone!Groups -> MicGroup]
      BY MicGroups
    <3>2. gs[h] \in MicGroup /\ gs[h].routes = group[h].routes
      BY <3>1 DEF MicGroup
    <3>6. SetIn(h, group[h], micMuted, Microphone!DenoiseHere, route)
      BY MicGroups
    <3> HIDE DEF gs
    <3>3. HoldsIn(h, gs[h], route')
      BY <2>1, <3>1, <3>2, <3>6 DEF SetIn, HoldsIn, MicGroup
    <3>4. us[h] \in MicGroup /\ SetIn(h, us[h], micMuted, Microphone!DenoiseHere, route')
      <4>1. micMuted \in BOOLEAN /\ Microphone!DenoiseHere \in BOOLEAN
        BY MicTypes
      <4>2. us[h] \in MicGroup
        BY <3>2, <4>1, MicUpdatedType
      <4>3. SetIn(h, us[h], micMuted, Microphone!DenoiseHere, route')
        BY <3>2, <3>3, MicUpdated
      <4> QED BY <4>2, <4>3
    <3>5. group' = Microphone!Prune(us)
      BY <1>2 DEF Microphone!Refresh, gs
    <3> HIDE DEF us
    <3> QED BY <3>4, <3>5, MicPruned
  <2>4. group' \in [Microphone!Groups -> MicGroup]
    BY <1>2, <2>3 DEF Microphone!Prune
  <2> QED
    BY <1>1, <1>2, <2>1, <2>2, <2>3, <2>4, MicTypes, MicParts
    DEF Microphone!supervisor, Microphone!idling
<1>3. CASE /\ Microphone!Turn
           /\ route' = [q \in Microphone!Routes |->
                       IF q \in group[g].routes THEN Microphone!NoRoute ELSE route[q]]
           /\ group' = [group EXCEPT ![g] = Microphone!NoGroup]
  <2>1. route' \in [Microphone!Routes -> MicRoute]
    BY <1>3, MicRoutes, NoMicRoute
  <2>2. \A q \in Microphone!Routes : SilentIn(q, route'[q], micMuted, overruled)
    BY <1>3, MicRoutes, NoMicRoute
  <2>3. group' \in [Microphone!Groups -> MicGroup]
    BY <1>3, MicGroups, NoMicGroup
  <2>4. ASSUME NEW h \in Microphone!Groups
        PROVE  SetIn(h, group'[h], micMuted, Microphone!DenoiseHere, route')
    <3>1. CASE h = g
      BY <1>3, <3>1, MicGroups, NoMicGroup
    <3>2. CASE h # g
      <4>1. \A q \in group[h].routes : route'[q].status # "none"
        BY <1>3, <3>2, MicGroups DEF SetIn, HoldsIn, MicGroup
      <4> QED BY <1>3, <3>2, <4>1, MicGroups, MicStay
    <3> QED BY <3>1, <3>2
  <2>5. turns' \in 0 .. MicTurns
    BY <1>3, MicTypes, MicTurn
  <2> QED
    BY <1>1, <2>1, <2>2, <2>3, <2>4, <2>5, MicTypes, MicParts
    DEF Microphone!supervisor, Microphone!idling
<1> QED BY <1>2, <1>3

\* What every handler that leaves the suppression as it is keeps of it.
LEMMA MicDenoise ==
  ASSUME UNCHANGED <<noise, Microphone!supervisor>>
  PROVE  Microphone!DenoiseHere' = Microphone!DenoiseHere
  BY DEF Microphone!DenoiseHere, Microphone!supervisor

\* A handler that leaves the groups and every route's status alone.
LEMMA MicGroupsStay ==
  ASSUME Microphone!Inv, UNCHANGED <<micMuted, group, noise, Microphone!supervisor>>,
         \A r \in Microphone!Routes : route[r].status # "none" => route'[r].status # "none"
  PROVE  /\ group' \in [Microphone!Groups -> MicGroup]
         /\ \A g \in Microphone!Groups :
              SetIn(g, group'[g], micMuted', Microphone!DenoiseHere', route')
<1>1. \A g \in Microphone!Groups : \A r \in group[g].routes : route'[r].status # "none"
  BY MicGroups DEF SetIn, HoldsIn, MicGroup
<1> QED BY <1>1, MicGroups, MicStay, MicDenoise

\* on_receiver_ready: routes that play belong to no group.
LEMMA MicReceiverReady ==
  ASSUME Microphone!Inv, NEW r \in Microphone!Routes, Microphone!ReceiverReady(r)
  PROVE  Microphone!Inv'
<1> USE DEF Microphone!ReceiverReady
<1>1. PICK x : /\ route' = [route EXCEPT ![r] = x] /\ x \in MicRoute
               /\ SilentIn(r, x, micMuted, overruled')
               /\ \A q \in Microphone!Routes : q # r =>
                    SilentIn(q, route[q], micMuted, overruled')
  <2>1. route[r] \in MicRoute /\ SilentIn(r, route[r], micMuted, overruled)
    BY MicRoutes
  <2>2. \A q \in Microphone!Routes : SilentIn(q, route[q], micMuted, overruled)
    BY MicRoutes
  <2>3. CASE route' = [route EXCEPT ![r].status = "active", ![r].open = TRUE]
             /\ UNCHANGED <<overruled, turns>>
    <3> DEFINE x == [route[r] EXCEPT !.status = "active", !.open = TRUE]
    <3>1. route' = [route EXCEPT ![r] = x]
      BY <2>3, MicRoutes
    <3>2. x \in MicRoute /\ SilentIn(r, x, micMuted, overruled)
      BY <2>1 DEF MicRoute, SilentIn
    <3> QED BY <2>2, <2>3, <3>1, <3>2
  <2>4. CASE route' = [route EXCEPT ![r] = Microphone!NoRoute]
             /\ overruled' = overruled \ {r}
    <3>1. \A q \in Microphone!Routes : q # r =>
            SilentIn(q, route[q], micMuted, overruled')
      BY <2>2, <2>4 DEF SilentIn
    <3> QED BY <2>4, <3>1, NoMicRoute
  <2> QED BY <2>3, <2>4
<1>2. route' \in [Microphone!Routes -> MicRoute]
  BY <1>1, MicRoutes
<1>3. \A q \in Microphone!Routes : SilentIn(q, route'[q], micMuted', overruled')
  BY <1>1, MicRoutes
<1>4. /\ group' \in [Microphone!Groups -> MicGroup]
      /\ \A g \in Microphone!Groups :
           SetIn(g, group'[g], micMuted', Microphone!DenoiseHere', route')
  <2>1. ASSUME NEW g \in Microphone!Groups, NEW q \in group[g].routes
        PROVE  route'[q].status # "none"
    <3>1. q \in Microphone!Routes /\ route[q].status # "none" /\ Kind[q] = g
      BY MicGroups DEF SetIn, HoldsIn, MicGroup
    <3>2. q # r
      BY <3>1 DEF Microphone!IsSource
    <3> QED BY <1>1, <3>1, <3>2, MicRoutes
  <2> QED BY <2>1, MicGroups, MicStay, MicDenoise
<1>5. turns' \in 0 .. MicTurns /\ overruled' \subseteq Microphone!Routes
  BY MicTypes, MicTurn
<1> QED
  BY <1>2, <1>3, <1>4, <1>5, MicTypes, MicParts DEF Microphone!supervisor, Microphone!idling

\* stop_route_by_key: the route leaves its group.
LEMMA MicStop ==
  ASSUME Microphone!Inv, NEW r \in Microphone!Routes, Microphone!Stop(r)
  PROVE  Microphone!Inv'
<1> USE DEF Microphone!Stop
<1>1. route' \in [Microphone!Routes -> MicRoute]
  BY MicRoutes, NoMicRoute
<1>2. \A q \in Microphone!Routes : SilentIn(q, route'[q], micMuted', overruled')
  <2> TAKE q \in Microphone!Routes
  <2>1. CASE q = r
    BY <2>1, MicRoutes, NoMicRoute
  <2>2. CASE q # r
    BY <2>2, MicRoutes DEF SilentIn
  <2> QED BY <2>1, <2>2
<1> DEFINE gs == [g \in Microphone!Groups |-> [group[g] EXCEPT !.routes = @ \ {r}]]
<1>3. ASSUME NEW g \in Microphone!Groups
      PROVE  /\ group'[g] \in MicGroup
             /\ SetIn(g, group'[g], micMuted', Microphone!DenoiseHere', route')
  <2>1. group[g] \in MicGroup /\ SetIn(g, group[g], micMuted, Microphone!DenoiseHere, route)
    BY MicGroups
  <2>2. gs[g] = [group[g] EXCEPT !.routes = @ \ {r}]
    OBVIOUS
  <2> HIDE DEF gs
  <2>3. gs[g] \in MicGroup
    BY <2>1, <2>2 DEF MicGroup
  <2>4. \A q \in group[g].routes : q # r => route'[q] = route[q]
    BY <2>1, MicRoutes DEF MicGroup
  <2>5. SetIn(g, gs[g], micMuted, Microphone!DenoiseHere, route')
    BY <2>1, <2>2, <2>4 DEF SetIn, HoldsIn, MicGroup
  <2>6. group' = Microphone!Prune(gs)
    BY DEF gs, Microphone!Leave
  <2> QED BY <2>3, <2>5, <2>6, MicPruned, MicDenoise
<1>4. group' \in [Microphone!Groups -> MicGroup]
  BY <1>3 DEF Microphone!Leave, Microphone!Prune
<1>5. turns' \in 0 .. MicTurns /\ overruled' \subseteq Microphone!Routes
  BY MicTypes, MicTurn
<1>6. keepMic' = Microphone!NeedsMic(route', monitor')
  BY DEF Microphone!KeepsAfterStop
<1> QED
  BY <1>1, <1>2, <1>3, <1>4, <1>5, <1>6, MicTypes, MicParts
  DEF Microphone!supervisor, Microphone!idling

\* on_encoder_failed, reopen_route_audio: what is opened again is silent from
\* the beginning.
LEMMA MicEncoderFailed ==
  ASSUME Microphone!Inv, NEW g \in Microphone!Groups, NEW b \in BOOLEAN,
         Microphone!EncoderFailed(g, b)
  PROVE  Microphone!Inv'
<1> USE DEF Microphone!EncoderFailed
<1>1. ASSUME NEW q \in Microphone!Routes
      PROVE  /\ route'[q] \in MicRoute /\ SilentIn(q, route'[q], micMuted, overruled)
             /\ q \notin group[g].routes => route'[q] = route[q]
             /\ b => route'[q].status = route[q].status
  <2>1. route[q] \in MicRoute /\ SilentIn(q, route[q], micMuted, overruled)
    BY MicRoutes
  <2>2. CASE q \notin group[g].routes
    BY <2>1, <2>2
  <2>3. CASE q \in group[g].routes /\ ~b
    BY <2>3, NoMicRoute
  <2>4. CASE q \in group[g].routes /\ b
    <3>1. route'[q] = [route[q] EXCEPT !.flag = Microphone!SilentAtBegin(q), !.open = FALSE]
      BY <2>4
    <3>2. Microphone!SilentAtBegin(q) = (route[q].muted \/ (Microphone!IsMic(q) /\ micMuted))
      BY DEF Microphone!SilentAtBegin
    <3>3. Microphone!SilentAtBegin(q) \in BOOLEAN
      BY <2>1, <3>2, MicTypes DEF MicRoute, Microphone!IsMic
    <3>4. micMuted /\ Microphone!IsMic(q) => Microphone!SilentAtBegin(q)
      BY <3>2
    <3> QED BY <2>1, <2>4, <3>1, <3>3, <3>4 DEF MicRoute, SilentIn
  <2> QED BY <2>2, <2>3, <2>4
<1>2. route' \in [Microphone!Routes -> MicRoute]
  BY <1>1
<1>3. ASSUME NEW h \in Microphone!Groups
      PROVE  /\ group'[h] \in MicGroup
             /\ SetIn(h, group'[h], micMuted, Microphone!DenoiseHere, route')
  <2>1. /\ group[h] \in MicGroup /\ group \in [Microphone!Groups -> MicGroup]
        /\ SetIn(h, group[h], micMuted, Microphone!DenoiseHere, route)
    BY MicGroups
  <2>2. CASE h # g
    <3>1. group'[h] = group[h]
      BY <2>1, <2>2
    <3>2. \A q \in group[h].routes : route'[q] = route[q]
      <4> TAKE q \in group[h].routes
      <4>1. q \in Microphone!Routes /\ Kind[q] = h
        BY <2>1 DEF SetIn, HoldsIn, MicGroup
      <4>2. \A p \in group[g].routes : Kind[p] = g
        BY MicGroups DEF SetIn, HoldsIn
      <4> QED BY <1>1, <2>2, <4>1, <4>2
    <3> QED BY <2>1, <3>1, <3>2 DEF SetIn, HoldsIn
  <2>3. CASE h = g /\ ~b
    BY <2>1, <2>3, NoMicGroup
  <2>4. CASE h = g /\ b
    <3>1. group'[g] = [slot |-> "starting", routes |-> group[g].routes,
                       muted |-> micMuted, denoise |-> Microphone!DenoiseHere]
      BY <2>1, <2>4
    <3>2. group'[g] \in MicGroup
      BY <2>1, <2>4, <3>1, MicTypes DEF MicGroup
    <3>3. HoldsIn(g, group'[g], route')
      BY <1>1, <2>1, <2>4, <3>1, ZenonT(60) DEF SetIn, HoldsIn, MicGroup
    <3> HIDE DEF Microphone!EncoderFailed
    <3>4. group'[g].slot # "running"
      BY <3>1
    <3>5. SetIn(g, group'[g], micMuted, Microphone!DenoiseHere, route')
      BY <3>3, <3>4 DEF SetIn
    <3> QED BY <2>4, <3>2, <3>5
  <2> QED BY <2>2, <2>3, <2>4
<1>4. group' \in [Microphone!Groups -> MicGroup]
  BY <1>3, MicGroups
<1>5. turns' \in 0 .. MicTurns
  BY MicTypes, MicTurn
<1> QED
  BY <1>1, <1>2, <1>3, <1>4, <1>5, MicDenoise, MicTypes, MicParts
  DEF Microphone!supervisor, Microphone!idling

\* set_mic_muted
LEMMA MicSetMicMuted ==
  ASSUME Microphone!Inv, Microphone!SetMicMuted
  PROVE  Microphone!Inv'
<1> USE DEF Microphone!SetMicMuted
<1>1. ASSUME NEW q \in Microphone!Routes
      PROVE  /\ route'[q] \in MicRoute /\ SilentIn(q, route'[q], micMuted', overruled')
             /\ route'[q].status = route[q].status
  <2>1. route[q] \in MicRoute /\ SilentIn(q, route[q], micMuted, overruled)
    BY MicRoutes
  <2>2. CASE Microphone!IsMic(q) /\ Microphone!HasControls(q)
    <3>1. route'[q] = [route[q] EXCEPT !.flag = micMuted' \/ route[q].muted]
      BY <2>2
    <3>2. (micMuted' \/ route[q].muted) \in BOOLEAN
      BY <2>1, MicTypes DEF MicRoute
    <3> QED BY <2>1, <3>1, <3>2 DEF MicRoute, SilentIn
  <2>3. CASE ~(Microphone!IsMic(q) /\ Microphone!HasControls(q))
    <3>1. route'[q] = route[q]
      BY <2>3
    <3> QED BY <2>1, <2>3, <3>1 DEF SilentIn, Microphone!HasControls
  <2> QED BY <2>2, <2>3
<1>2. route' \in [Microphone!Routes -> MicRoute]
  BY <1>1
<1>3. micMuted' \in BOOLEAN
  BY MicTypes
<1>4. ASSUME NEW g \in Microphone!Groups
      PROVE  /\ group'[g] \in MicGroup
             /\ SetIn(g, group'[g], micMuted', Microphone!DenoiseHere, route')
  <2>1. group[g] \in MicGroup /\ SetIn(g, group[g], micMuted, Microphone!DenoiseHere, route)
    BY MicGroups
  <2>2. HoldsIn(g, group[g], route')
    BY <1>1, <2>1 DEF SetIn, HoldsIn, MicGroup
  <2> QED BY <1>3, <2>1, <2>2, MicTypes, MicUpdated, MicUpdatedType
<1>5. group' \in [Microphone!Groups -> MicGroup]
  BY <1>4 DEF Microphone!UpdateMicGroups
<1>6. Microphone!NeedsMic(route', monitor) = Microphone!NeedsMic(route, monitor)
  BY <1>1 DEF Microphone!NeedsMic
<1>7. turns' \in 0 .. MicTurns /\ keepMic = Microphone!NeedsMic(route, monitor)
  BY MicTypes, MicTurn DEF Microphone!Inv
<1> QED
  BY <1>1, <1>2, <1>3, <1>4, <1>5, <1>6, <1>7, MicDenoise, MicTypes, MicParts
  DEF Microphone!supervisor, Microphone!idling

\* Command::SetRouteMuted
LEMMA MicSetRouteMuted ==
  ASSUME Microphone!Inv, NEW r \in Microphone!Routes, Microphone!SetRouteMuted(r)
  PROVE  Microphone!Inv'
<1> USE DEF Microphone!SetRouteMuted
<1>1. PICK m \in BOOLEAN :
        route' = [route EXCEPT ![r].muted = m, ![r].flag = Microphone!Silent(r, m)]
  OBVIOUS
<1>2. route[r] \in MicRoute /\ SilentIn(r, route[r], micMuted, overruled)
  BY MicRoutes
<1> DEFINE x == [route[r] EXCEPT !.muted = m, !.flag = Microphone!Silent(r, m)]
<1>3. route' = [route EXCEPT ![r] = x]
  BY <1>1, MicRoutes
<1>4. Microphone!Silent(r, m) \in BOOLEAN
      /\ (Microphone!IsMic(r) /\ micMuted => Microphone!Silent(r, m))
  BY MicTypes DEF Microphone!Silent, Microphone!IsMic
<1>5. x \in MicRoute /\ SilentIn(r, x, micMuted, overruled) /\ x.status = route[r].status
  BY <1>2, <1>4 DEF MicRoute, SilentIn
<1> HIDE DEF x
<1>6. /\ route' \in [Microphone!Routes -> MicRoute]
      /\ \A q \in Microphone!Routes :
           SilentIn(q, route'[q], micMuted, overruled) /\ route'[q].status = route[q].status
  BY <1>3, <1>5, MicRoutes
<1>7. Microphone!NeedsMic(route', monitor) = Microphone!NeedsMic(route, monitor)
  BY <1>6 DEF Microphone!NeedsMic
<1>8. turns' \in 0 .. MicTurns /\ keepMic = Microphone!NeedsMic(route, monitor)
  BY MicTypes, MicTurn DEF Microphone!Inv
<1> QED
  BY <1>6, <1>7, <1>8, MicGroupsStay, MicTypes, MicDenoise, MicParts
  DEF Microphone!supervisor, Microphone!idling

\* on_remote_mute: a feed that its peer unmutes is overruled.
LEMMA MicRemoteMute ==
  ASSUME Microphone!Inv, NEW r \in Microphone!Routes, Microphone!RemoteMute(r)
  PROVE  Microphone!Inv'
<1> USE DEF Microphone!RemoteMute
<1>1. PICK m \in BOOLEAN :
        /\ route' = [route EXCEPT ![r].muted = m,
                                  ![r].flag = IF Microphone!IsSource(r) THEN @ ELSE m]
        /\ overruled' = IF ~m /\ ~Microphone!IsSource(r) /\ micMuted
                        THEN overruled \cup {r} ELSE overruled
  OBVIOUS
<1>2. route[r] \in MicRoute /\ SilentIn(r, route[r], micMuted, overruled)
  BY MicRoutes
<1>3. PICK x : /\ route' = [route EXCEPT ![r] = x] /\ x \in MicRoute
               /\ SilentIn(r, x, micMuted, overruled') /\ x.status = route[r].status
  <2>1. CASE Microphone!IsSource(r)
    <3> DEFINE x == [route[r] EXCEPT !.muted = m]
    <3>1. route' = [route EXCEPT ![r] = x]
      <4>1. route' = [route EXCEPT ![r].muted = m, ![r].flag = route[r].flag]
        BY <1>1, <2>1, MicRoutes
      <4>2. [x EXCEPT !.flag = route[r].flag] = x
        BY <1>2 DEF MicRoute
      <4> QED BY <4>1, <4>2, <1>2, MicRoutes DEF MicRoute
    <3>2. x \in MicRoute /\ SilentIn(r, x, micMuted, overruled') /\ x.status = route[r].status
      BY <1>1, <1>2, <2>1 DEF MicRoute, SilentIn
    <3> HIDE DEF x
    <3> QED BY <3>1, <3>2
  <2>2. CASE ~Microphone!IsSource(r)
    <3> DEFINE x == [route[r] EXCEPT !.muted = m, !.flag = m]
    <3>1. route' = [route EXCEPT ![r] = x]
      BY <1>1, <1>2, <2>2, MicRoutes DEF MicRoute
    <3>2. x \in MicRoute /\ SilentIn(r, x, micMuted, overruled') /\ x.status = route[r].status
      BY <1>1, <1>2, <2>2 DEF MicRoute, SilentIn
    <3> HIDE DEF x
    <3> QED BY <3>1, <3>2
  <2> QED BY <2>1, <2>2
<1>4. \A q \in Microphone!Routes : SilentIn(q, route[q], micMuted, overruled')
        \/ q = r
  BY <1>1, MicRoutes DEF SilentIn
<1>5. /\ route' \in [Microphone!Routes -> MicRoute]
      /\ \A q \in Microphone!Routes :
           SilentIn(q, route'[q], micMuted, overruled') /\ route'[q].status = route[q].status
  BY <1>3, <1>4, MicRoutes
<1>6. Microphone!NeedsMic(route', monitor) = Microphone!NeedsMic(route, monitor)
  BY <1>5 DEF Microphone!NeedsMic
<1>7. /\ turns' \in 0 .. MicTurns /\ keepMic = Microphone!NeedsMic(route, monitor)
      /\ overruled' \subseteq Microphone!Routes
  BY <1>1, MicTypes, MicTurn DEF Microphone!Inv
<1> QED
  BY <1>5, <1>6, <1>7, MicGroupsStay, MicTypes, MicDenoise, MicParts
  DEF Microphone!supervisor, Microphone!idling

\* Groups that run are told whether to denoise as soon as that changes.
LEMMA MicRetold ==
  ASSUME Microphone!Inv, UNCHANGED <<micMuted, route>>,
         Microphone!DenoiseHere' \in BOOLEAN,
         group' = Microphone!UpdateMicGroups(group, micMuted, Microphone!DenoiseHere')
  PROVE  /\ group' \in [Microphone!Groups -> MicGroup]
         /\ \A g \in Microphone!Groups :
              SetIn(g, group'[g], micMuted', Microphone!DenoiseHere', route')
<1>1. ASSUME NEW g \in Microphone!Groups
      PROVE  /\ group'[g] \in MicGroup
             /\ SetIn(g, group'[g], micMuted, Microphone!DenoiseHere', route)
  <2>1. group[g] \in MicGroup /\ HoldsIn(g, group[g], route)
    BY MicGroups DEF SetIn
  <2>2. micMuted \in BOOLEAN
    BY MicTypes
  <2>3. PICK d \in BOOLEAN : d = Microphone!DenoiseHere'
    OBVIOUS
  <2> QED BY <2>1, <2>2, <2>3, MicUpdated, MicUpdatedType
<1> QED BY <1>1 DEF Microphone!UpdateMicGroups

\* A supervisor starts to count at 0.
LEMMA NoSteps == 0 \in 0 .. Recovery - 1
  BY MicrophoneNumbers

\* apply_settings
LEMMA MicSetNoise ==
  ASSUME Microphone!Inv, Microphone!SetNoise
  PROVE  Microphone!Inv'
<1> USE DEF Microphone!SetNoise
<1>1. Microphone!DenoiseHere' = noise' /\ noise' \in BOOLEAN
  BY MicTypes DEF Microphone!DenoiseHere
<1>2. /\ turns' \in 0 .. MicTurns /\ keepMic = Microphone!NeedsMic(route, monitor)
      /\ healthy' \in 0 .. Recovery - 1 /\ suspended' \in BOOLEAN
  BY MicTypes, MicTurn, NoSteps DEF Microphone!Inv
<1> QED
  BY <1>1, <1>2, MicRetold, MicTypes, MicRoutes, MicParts DEF Microphone!idling

\* tick: check_capture_health and check_audio_idle
LEMMA MicTick ==
  ASSUME Microphone!Inv, Microphone!Tick
  PROVE  Microphone!Inv'
<1> USE DEF Microphone!Tick
<1>0. suspended \in BOOLEAN /\ healthy \in 0 .. Recovery - 1 /\ idle \in 0 .. IdleTicks
  BY MicTypes
<1>1. suspended' \in BOOLEAN /\ healthy' \in 0 .. Recovery - 1
  <2>1. PICK overrun \in BOOLEAN : Microphone!Step(overrun)
    OBVIOUS
  <2>2. healthy + 1 < Recovery => healthy + 1 \in 0 .. Recovery - 1
    BY <1>0, MicrophoneNumbers
  <2>3. healthy' \in 0 .. Recovery - 1
    BY <1>0, <2>1, <2>2, NoSteps DEF Microphone!Step, Microphone!supervisor
  <2>4. (healthy + 1 < Recovery) \in BOOLEAN
    OBVIOUS
  <2>5. suspended' \in BOOLEAN
    BY <1>0, <2>1, <2>4, ZenonT(20) DEF Microphone!Step, Microphone!supervisor
  <2> QED BY <2>3, <2>5
<1>2. idle' \in 0 .. IdleTicks /\ closed' \in BOOLEAN
  <2>1. idle < IdleTicks => idle + 1 \in 0 .. IdleTicks
    BY <1>0, MicrophoneNumbers
  <2>2. 0 \in 0 .. IdleTicks
    BY MicrophoneNumbers
  <2> QED BY <1>0, <2>1, <2>2 DEF Microphone!UpdateIdle
<1>3. Microphone!DenoiseHere' = (noise /\ ~suspended') /\ Microphone!DenoiseHere' \in BOOLEAN
  BY MicTypes DEF Microphone!DenoiseHere
<1>4. /\ group' \in [Microphone!Groups -> MicGroup]
      /\ \A g \in Microphone!Groups :
           SetIn(g, group'[g], micMuted', Microphone!DenoiseHere', route')
  <2>1. CASE suspended' # suspended
    BY <1>3, <2>1, MicRetold
  <2>2. CASE suspended' = suspended
    <3>1. Microphone!DenoiseHere' = Microphone!DenoiseHere /\ group' = group
      BY <2>2 DEF Microphone!DenoiseHere
    <3> QED BY <3>1, MicGroups
  <2> QED BY <2>1, <2>2
<1>5. turns' \in 0 .. MicTurns /\ keepMic = Microphone!NeedsMic(route, monitor)
  BY MicTypes, MicTurn DEF Microphone!Inv
<1> QED BY <1>1, <1>2, <1>4, <1>5, MicTypes, MicRoutes, MicParts

\* set_monitor
LEMMA MicSetMonitor ==
  ASSUME Microphone!Inv, Microphone!SetMonitor
  PROVE  Microphone!Inv'
<1> USE DEF Microphone!SetMonitor
<1>1. turns' \in 0 .. MicTurns
  BY MicTypes, MicTurn
<1>2. keepMic' = Microphone!NeedsMic(route', monitor')
  OBVIOUS
<1> QED
  BY <1>1, <1>2, MicTypes, MicRoutes, MicGroups, MicDenoise, MicParts
  DEF Microphone!supervisor, Microphone!idling

LEMMA MicNext ==
  ASSUME Microphone!Inv, Microphone!Next
  PROVE  Microphone!Inv'
  BY MicBegin, MicReceiverReady, MicStop, MicSetRouteMuted, MicRemoteMute,
     MicSenderReady, MicEncoderFailed, MicSetMicMuted, MicSetNoise, MicTick,
     MicSetMonitor
  DEF Microphone!Next

LEMMA MicStays ==
  ASSUME Microphone!Inv, UNCHANGED micVars
  PROVE  Microphone!Inv'
<1> USE DEF micVars
<1>1. Microphone!DenoiseHere' = Microphone!DenoiseHere
  BY DEF Microphone!DenoiseHere
<1>2. keepMic' = Microphone!NeedsMic(route', monitor')
  BY DEF Microphone!Inv
<1> QED BY <1>1, <1>2, MicTypes, MicRoutes, MicGroups, MicParts

LEMMA MicWished == Microphone!Inv => Microphone!MicSilent /\ Microphone!MicFollows
<1> SUFFICES ASSUME Microphone!Inv PROVE Microphone!MicSilent /\ Microphone!MicFollows
  OBVIOUS
<1>1. \A g \in Microphone!Groups : group[g].slot = "running" =>
        group[g].muted = micMuted /\ group[g].denoise = Microphone!DenoiseHere
  BY MicGroups DEF SetIn
<1>2. \A r \in Microphone!Routes : SilentIn(r, route[r], micMuted, overruled)
  BY MicRoutes
<1> QED
  BY <1>1, <1>2 DEF SilentIn, Microphone!MicSilent, Microphone!MicFollows, Microphone!Inv

----------------------------------------------------------------------------
(* The shortcuts.                                                          *)

\* A queue that grows by one.
LEMMA Grown ==
  ASSUME NEW S, NEW q \in Seq(S), NEW c \in S
  PROVE  /\ q \o <<c>> \in Seq(S) /\ Len(q \o <<c>>) = Len(q) + 1
         /\ \A i \in 1 .. Len(q) : (q \o <<c>>)[i] = q[i]
         /\ (q \o <<c>>)[Len(q) + 1] = c
         /\ Len(q) \in Nat
  OBVIOUS

\* cmds has got the command c.
Queued(c) ==
  /\ c \in Shortcuts!Commands /\ cmds' \in Seq(Shortcuts!Commands)
  /\ Len(cmds') = Len(cmds) + 1
  /\ \A i \in 1 .. Len(cmds) : cmds'[i] = cmds[i]
  /\ cmds'[Len(cmds) + 1] = c

LEMMA QueuedOne ==
  ASSUME cmds \in Seq(Shortcuts!Commands), NEW c \in Shortcuts!Commands,
         cmds' = cmds \o <<c>>
  PROVE  Queued(c)
  BY Grown DEF Queued

LEMMA QueuedNone ==
  ASSUME cmds \in Seq(Shortcuts!Commands), cmds' = cmds \o <<>>
  PROVE  cmds' = cmds
  OBVIOUS

\* Muting is not unmuting.
LEMMA MutesDiffer ==
  /\ Shortcuts!Mute(TRUE) \in Shortcuts!Commands
  /\ Shortcuts!Mute(FALSE) \in Shortcuts!Commands
  /\ Shortcuts!Mute(TRUE) # Shortcuts!Mute(FALSE)
<1>1. /\ Shortcuts!Mute(TRUE) = [kind |-> "mic", muted |-> TRUE]
      /\ Shortcuts!Mute(FALSE) = [kind |-> "mic", muted |-> FALSE]
  BY DEF Shortcuts!Mute
<1>2. ASSUME NEW b \in BOOLEAN
      PROVE  /\ [kind |-> "mic", muted |-> b].muted = b
             /\ [kind |-> "mic", muted |-> b] \in Shortcuts!Commands
  BY DEF Shortcuts!Commands
<1>3. Shortcuts!Mute(TRUE).muted = TRUE /\ Shortcuts!Mute(FALSE).muted = FALSE
  BY <1>1, <1>2
<1>4. Shortcuts!Mute(TRUE) # Shortcuts!Mute(FALSE)
  BY <1>3
<1> QED BY <1>1, <1>2, <1>4

\* A mute that is queued is the last word; other commands let it stand.
LEMMA MutesAtLast ==
  ASSUME cmds \in Seq(Shortcuts!Commands), Queued(Shortcuts!Mute(TRUE))
  PROVE  Shortcuts!MutesLast'
<1> DEFINE yes == Shortcuts!Mute(TRUE)
           no == Shortcuts!Mute(FALSE)
<1>1. yes # no
  BY MutesDiffer
<1>2. /\ Len(cmds) \in Nat /\ Len(cmds') = Len(cmds) + 1
      /\ cmds'[Len(cmds) + 1] = yes /\ DOMAIN cmds' = 1 .. Len(cmds) + 1
  BY DEF Queued
<1>3. Shortcuts!MutesLast' =
        /\ \A j \in DOMAIN cmds' : cmds'[j] = no =>
             \E i \in DOMAIN cmds' : i > j /\ cmds'[i] = yes
        /\ muted' \/ \E i \in DOMAIN cmds' : cmds'[i] = yes
  BY DEF Shortcuts!MutesLast, Shortcuts!Mute
<1> HIDE DEF yes, no
<1>4. Len(cmds) + 1 \in DOMAIN cmds'
  BY <1>2
<1>5. ASSUME NEW j \in DOMAIN cmds', cmds'[j] = no
      PROVE  Len(cmds) + 1 > j
  BY <1>1, <1>2, <1>5
<1> QED BY <1>2, <1>3, <1>4, <1>5

LEMMA MutesStill ==
  ASSUME cmds \in Seq(Shortcuts!Commands), NEW c, Queued(c),
         c # Shortcuts!Mute(FALSE), muted' = muted, Shortcuts!MutesLast
  PROVE  Shortcuts!MutesLast'
<1> DEFINE yes == Shortcuts!Mute(TRUE)
           no == Shortcuts!Mute(FALSE)
<1>1. /\ Len(cmds) \in Nat /\ cmds'[Len(cmds) + 1] = c
      /\ DOMAIN cmds' = 1 .. Len(cmds) + 1 /\ DOMAIN cmds = 1 .. Len(cmds)
      /\ \A i \in 1 .. Len(cmds) : cmds'[i] = cmds[i]
  BY DEF Queued
<1>2. /\ \A j \in DOMAIN cmds : cmds[j] = no =>
           \E i \in DOMAIN cmds : i > j /\ cmds[i] = yes
      /\ muted \/ \E i \in DOMAIN cmds : cmds[i] = yes
  BY DEF Shortcuts!MutesLast
<1>3. Shortcuts!MutesLast' =
        /\ \A j \in DOMAIN cmds' : cmds'[j] = no =>
             \E i \in DOMAIN cmds' : i > j /\ cmds'[i] = yes
        /\ muted' \/ \E i \in DOMAIN cmds' : cmds'[i] = yes
  BY DEF Shortcuts!MutesLast, Shortcuts!Mute
<1>4. c # no
  OBVIOUS
<1> HIDE DEF yes, no
<1>5. ASSUME NEW j \in DOMAIN cmds', cmds'[j] = no
      PROVE  \E i \in DOMAIN cmds' : i > j /\ cmds'[i] = yes
  <2>1. j \in DOMAIN cmds /\ cmds[j] = no
    BY <1>1, <1>4, <1>5
  <2>2. PICK i \in DOMAIN cmds : i > j /\ cmds[i] = yes
    BY <1>2, <2>1
  <2>3. i \in DOMAIN cmds' /\ cmds'[i] = yes
    BY <1>1, <2>2
  <2> QED BY <2>2, <2>3
<1>6. muted' \/ \E i \in DOMAIN cmds' : cmds'[i] = yes
  <2>1. CASE muted
    BY <2>1
  <2>2. ASSUME NEW i \in DOMAIN cmds, cmds[i] = yes
        PROVE  \E k \in DOMAIN cmds' : cmds'[k] = yes
    <3>1. i \in DOMAIN cmds' /\ cmds'[i] = yes
      BY <1>1, <2>2
    <3> QED BY <3>1
  <2> QED BY <1>2, <2>1, <2>2
<1> QED BY <1>3, <1>5, <1>6

\* What the settings become by the commands, without the last of them.
LEMMA ChainQueued ==
  ASSUME cmds \in Seq(Shortcuts!Commands), NEW c, Queued(c),
         NEW h \in [0 .. Len(cmds') -> Shortcuts!Settings],
         Shortcuts!Chain(h, cmds', saved)
  PROVE  \E g \in [0 .. Len(cmds) -> Shortcuts!Settings] :
           /\ Shortcuts!Chain(g, cmds, saved)
           /\ IF c.kind = "settings"
              THEN c.base = g[Len(cmds)] /\ h[Len(cmds')] = c.settings
              ELSE h[Len(cmds')] = g[Len(cmds)]
<1>1. /\ Len(cmds) \in Nat /\ cmds'[Len(cmds) + 1] = c /\ Len(cmds') = Len(cmds) + 1
      /\ \A i \in 1 .. Len(cmds) : cmds'[i] = cmds[i]
  BY DEF Queued
<1> DEFINE g == [i \in 0 .. Len(cmds) |-> h[i]]
<1>2. g \in [0 .. Len(cmds) -> Shortcuts!Settings] /\ g[Len(cmds)] = h[Len(cmds)]
  BY <1>1
<1>3. Shortcuts!Chain(g, cmds, saved)
  BY <1>1 DEF Shortcuts!Chain
<1>4. IF c.kind = "settings"
      THEN c.base = h[Len(cmds)] /\ h[Len(cmds')] = c.settings
      ELSE h[Len(cmds')] = h[Len(cmds)]
  <2>1. Len(cmds) + 1 \in 1 .. Len(cmds') /\ Len(cmds) + 1 - 1 = Len(cmds)
    BY <1>1
  <2> QED BY <1>1, <2>1 DEF Shortcuts!Chain
<1> HIDE DEF g
<1> QED BY <1>2, <1>3, <1>4

\* What was foreseen still is: a command is queued,
LEMMA ForeseenQueued ==
  ASSUME cmds \in Seq(Shortcuts!Commands), NEW c, Queued(c), saved' = saved,
         Shortcuts!Foreseen,
         \A s, t \in Shortcuts!Settings :
           /\ Shortcuts!InTime(s)
           /\ IF c.kind = "settings" THEN c.base = s /\ t = c.settings ELSE t = s
           => Shortcuts!InTime(t)'
  PROVE  Shortcuts!Foreseen'
<1> SUFFICES ASSUME NEW h \in [0 .. Len(cmds') -> Shortcuts!Settings],
                    Shortcuts!Chain(h, cmds', saved)
             PROVE  Shortcuts!InTime(h[Len(cmds)])'
  BY DEF Shortcuts!Foreseen, Shortcuts!Chain, Shortcuts!InTime, Shortcuts!Promised
<1>1. PICK g \in [0 .. Len(cmds) -> Shortcuts!Settings] :
        /\ Shortcuts!Chain(g, cmds, saved)
        /\ IF c.kind = "settings"
           THEN c.base = g[Len(cmds)] /\ h[Len(cmds')] = c.settings
           ELSE h[Len(cmds')] = g[Len(cmds)]
  BY ChainQueued
<1>2. Shortcuts!InTime(g[Len(cmds)])
  BY <1>1 DEF Shortcuts!Foreseen
<1>3. g[Len(cmds)] \in Shortcuts!Settings /\ h[Len(cmds')] \in Shortcuts!Settings
  BY DEF Queued
<1>4. PICK t \in Shortcuts!Settings : t = h[Len(cmds')]
  BY <1>3
<1>5. Shortcuts!InTime(t)'
  BY <1>1, <1>2, <1>3, <1>4
<1> QED BY <1>4, <1>5 DEF Shortcuts!InTime, Shortcuts!Promised

\* or none is,
LEMMA ForeseenStill ==
  ASSUME cmds' = cmds, saved' = saved, cmds \in Seq(Shortcuts!Commands),
         Shortcuts!Foreseen,
         \A s \in Shortcuts!Settings : Shortcuts!InTime(s) => Shortcuts!InTime(s)'
  PROVE  Shortcuts!Foreseen'
<1> SUFFICES ASSUME NEW h \in [0 .. Len(cmds) -> Shortcuts!Settings],
                    Shortcuts!Chain(h, cmds, saved)
             PROVE  Shortcuts!InTime(h[Len(cmds)])'
  BY ZenonT(60) DEF Shortcuts!Foreseen, Shortcuts!Chain, Shortcuts!InTime, Shortcuts!Promised
<1>1. h[Len(cmds)] \in Shortcuts!Settings
  OBVIOUS
<1>2. PICK s \in Shortcuts!Settings : s = h[Len(cmds)]
  BY <1>1
<1>3. Shortcuts!InTime(s)'
  BY <1>2 DEF Shortcuts!Foreseen
<1> QED BY <1>2, <1>3 DEF Shortcuts!InTime, Shortcuts!Promised

\* or the first is carried out.
LEMMA ForeseenEngine ==
  ASSUME Shortcuts!Typed, Shortcuts!Engine, Shortcuts!Foreseen, ~crossed'
  PROVE  Shortcuts!Foreseen'
<1> USE DEF Shortcuts!Engine
<1>1. /\ cmds \in Seq(Shortcuts!Commands) /\ cmds # <<>> /\ saved \in Shortcuts!Settings
      /\ cmds' = Tail(cmds) /\ Head(cmds) = cmds[1]
  BY DEF Shortcuts!Typed
<1>2. /\ Len(cmds) \in Nat \ {0} /\ Len(cmds') = Len(cmds) - 1
      /\ \A i \in 1 .. Len(cmds') : cmds'[i] = cmds[i + 1]
  BY <1>1
<1> SUFFICES ASSUME NEW h \in [0 .. Len(cmds') -> Shortcuts!Settings],
                    Shortcuts!Chain(h, cmds', saved')
             PROVE  Shortcuts!InTime(h[Len(cmds)])'
  BY DEF Shortcuts!Foreseen, Shortcuts!Chain, Shortcuts!InTime, Shortcuts!Promised
<1> DEFINE g == [i \in 0 .. Len(cmds) |-> IF i = 0 THEN saved ELSE h[i - 1]]
<1>3. g \in [0 .. Len(cmds) -> Shortcuts!Settings]
  BY <1>1, <1>2
<1>4. g[0] = saved /\ \A i \in 1 .. Len(cmds) : g[i] = h[i - 1]
  BY <1>2
<1> HIDE DEF g
<1>5. IF cmds[1].kind = "settings"
      THEN cmds[1].base = saved /\ saved' = cmds[1].settings ELSE saved' = saved
  <2>1. cmds[1] \in Shortcuts!Commands
    BY <1>1, <1>2
  <2>2. CASE cmds[1].kind = "mic"
    BY <1>1, <2>2
  <2>3. CASE cmds[1].kind = "settings"
    BY <1>1, <2>3
  <2> QED BY <2>1, <2>2, <2>3 DEF Shortcuts!Commands
<1>6. Shortcuts!Chain(g, cmds, saved)
  <2>1. h[0] = saved'
    BY DEF Shortcuts!Chain
  <2>2. ASSUME NEW i \in 1 .. Len(cmds)
        PROVE  IF cmds[i].kind = "settings"
               THEN cmds[i].base = g[i - 1] /\ g[i] = cmds[i].settings
               ELSE g[i] = g[i - 1]
    <3>1. CASE i = 1
      BY <1>2, <1>4, <1>5, <2>1, <3>1
    <3>2. CASE i # 1
      <4>1. PICK j \in 1 .. Len(cmds') : i = j + 1
        <5>1. i - 1 \in 1 .. Len(cmds') /\ i = (i - 1) + 1
          BY <1>2, <3>2
        <5> QED BY <5>1
      <4>2. g[i] = h[j] /\ g[i - 1] = h[j - 1] /\ cmds[i] = cmds'[j]
        BY <1>2, <1>4, <4>1
      <4>3. IF cmds'[j].kind = "settings"
            THEN cmds'[j].base = h[j - 1] /\ h[j] = cmds'[j].settings
            ELSE h[j] = h[j - 1]
        BY DEF Shortcuts!Chain
      <4> QED BY <4>2, <4>3
    <3> QED BY <3>1, <3>2
  <2> QED BY <1>4, <2>2 DEF Shortcuts!Chain
<1>7. g[Len(cmds)] = h[Len(cmds')]
  BY <1>2, <1>4
<1>8. Shortcuts!InTime(h[Len(cmds')])
  BY <1>3, <1>6, <1>7 DEF Shortcuts!Foreseen
<1> QED BY <1>8 DEF Shortcuts!InTime, Shortcuts!Promised

LEMMA ShortcutsInit == Shortcuts!Init => Shortcuts!Inv
<1> SUFFICES ASSUME Shortcuts!Init PROVE Shortcuts!Inv
  OBVIOUS
<1> USE DEF Shortcuts!Init
<1>1. Shortcuts!NoKeys \in Shortcuts!Settings
  BY DEF Shortcuts!NoKeys, Shortcuts!Settings
<1>2. saved \in Shortcuts!Settings
  BY DEF Shortcuts!Settings
<1>3. cmds \in Seq(Shortcuts!Commands) /\ jobs \in Seq(Shortcuts!Settings)
  OBVIOUS
<1>4. Shortcuts!Typed
  BY <1>1, <1>2, <1>3 DEF Shortcuts!Typed, Shortcuts!Nobody
<1>5. slot["talk"] = NoKey
  BY DEF Shortcuts!NoKeys, Shortcuts!Kinds
<1> QED BY <1>4, <1>5 DEF Shortcuts!Inv

\* The mutes that replace queues.
LEMMA MutesQueued ==
  ASSUME cmds \in Seq(Shortcuts!Commands), NEW k, NEW key,
         cmds' = cmds \o Shortcuts!Mutes(k, key)
  PROVE  /\ cmds' = cmds \/ \E b \in BOOLEAN : Queued(Shortcuts!Mute(b))
         /\ k # "talk" => cmds' = cmds
         /\ k = "talk" /\ key # NoKey => Queued(Shortcuts!Mute(TRUE))
<1>1. CASE k # "talk"
  BY <1>1, QueuedNone DEF Shortcuts!Mutes
<1>2. CASE k = "talk" /\ key # NoKey
  <2>1. cmds' = cmds \o <<Shortcuts!Mute(TRUE)>>
    BY <1>2 DEF Shortcuts!Mutes
  <2> QED BY <1>2, <2>1, QueuedOne, MutesDiffer
<1>3. CASE k = "talk" /\ key = NoKey /\ slot[k] # NoKey
  <2>1. cmds' = cmds \o <<Shortcuts!Mute(FALSE)>>
    BY <1>3 DEF Shortcuts!Mutes
  <2> QED BY <1>3, <2>1, QueuedOne, MutesDiffer
<1>4. CASE k = "talk" /\ key = NoKey /\ slot[k] = NoKey
  <2>1. cmds' = cmds \o <<>>
    BY <1>4 DEF Shortcuts!Mutes
  <2> QED BY <1>4, <2>1, QueuedNone
<1> QED BY <1>1, <1>2, <1>3, <1>4

LEMMA MuteKinds ==
  ASSUME NEW b \in BOOLEAN
  PROVE  Shortcuts!Mute(b) \in Shortcuts!Commands /\ Shortcuts!Mute(b).kind = "mic"
  BY DEF Shortcuts!Mute, Shortcuts!Commands

\* Mutes decide nothing about what is saved.
LEMMA ForeseenMutes ==
  ASSUME cmds \in Seq(Shortcuts!Commands), saved' = saved, Shortcuts!Foreseen,
         cmds' = cmds \/ \E b \in BOOLEAN : Queued(Shortcuts!Mute(b)),
         \A s \in Shortcuts!Settings : Shortcuts!InTime(s) => Shortcuts!InTime(s)'
  PROVE  Shortcuts!Foreseen'
<1>1. CASE cmds' = cmds
  BY <1>1, ForeseenStill
<1>2. ASSUME NEW b \in BOOLEAN, Queued(Shortcuts!Mute(b))
      PROVE  Shortcuts!Foreseen'
  <2>1. PICK c : c = Shortcuts!Mute(b)
    OBVIOUS
  <2>2. Queued(c) /\ c.kind = "mic"
    BY <1>2, <2>1, MuteKinds
  <2> QED BY <2>2, ForeseenQueued
<1> QED BY <1>1, <1>2

LEMMA MutesSame ==
  ASSUME cmds' = cmds, muted' = muted, Shortcuts!MutesLast
  PROVE  Shortcuts!MutesLast'
  BY DEF Shortcuts!MutesLast, Shortcuts!Mute

\* What is queued has its type.
LEMMA MutesTyped ==
  ASSUME cmds \in Seq(Shortcuts!Commands),
         cmds' = cmds \/ \E b \in BOOLEAN : Queued(Shortcuts!Mute(b))
  PROVE  cmds' \in Seq(Shortcuts!Commands)
  BY DEF Queued

\* replace and set_hotkey: what is registered is what will be saved.
LEMMA ShortcutsSet ==
  ASSUME Shortcuts!Inv, NEW k \in Shortcuts!Kinds, NEW key \in Keys \cup {NoKey},
         Shortcuts!SetHotkey(k, key)
  PROVE  Shortcuts!Inv'
<1> USE DEF Shortcuts!SetHotkey
<1>1. Shortcuts!Typed
  BY DEF Shortcuts!Inv
<1>2. CASE UNCHANGED <<slot, error, setter, held, cmds, unmuted>>
  BY <1>2 DEF Shortcuts!Inv, Shortcuts!Typed, Shortcuts!MutesLast, Shortcuts!Mute,
              Shortcuts!Foreseen, Shortcuts!Chain, Shortcuts!InTime, Shortcuts!Promised
<1>3. CASE /\ slot' = [slot EXCEPT ![k] = key]
           /\ error' = [error EXCEPT ![k] = FALSE]
           /\ setter' = [kind |-> k, key |-> key]
           /\ held' = (held /\ (k = "mute" \/ slot[k] = key))
           /\ cmds' = cmds \o (IF slot[k] = key /\ key # NoKey THEN <<>>
                               ELSE Shortcuts!Mutes(k, key))
           /\ unmuted' = (unmuted /\ (k = "mute" \/ slot[k] = key))
  <2>0. cmds \in Seq(Shortcuts!Commands)
    BY <1>1 DEF Shortcuts!Typed
  <2>1. /\ cmds' = cmds \/ \E b \in BOOLEAN : Queued(Shortcuts!Mute(b))
        /\ k # "talk" => cmds' = cmds
        /\ k = "talk" /\ slot[k] # key /\ key # NoKey => Queued(Shortcuts!Mute(TRUE))
        /\ slot[k] = key /\ key # NoKey => cmds' = cmds
    <3>1. CASE slot[k] = key /\ key # NoKey
      BY <1>3, <2>0, <3>1, QueuedNone
    <3>2. CASE ~(slot[k] = key /\ key # NoKey)
      <4>1. cmds' = cmds \o Shortcuts!Mutes(k, key)
        BY <1>3, <3>2
      <4>2. /\ cmds' = cmds \/ \E b \in BOOLEAN : Queued(Shortcuts!Mute(b))
            /\ k # "talk" => cmds' = cmds
            /\ k = "talk" /\ key # NoKey => Queued(Shortcuts!Mute(TRUE))
        BY <2>0, <4>1, MutesQueued
      <4> QED BY <3>2, <4>2
    <3> QED BY <3>1, <3>2
  <2>2. slot \in Shortcuts!Settings /\ error \in [Shortcuts!Kinds -> BOOLEAN]
        /\ held \in BOOLEAN /\ unmuted \in BOOLEAN
    BY <1>1 DEF Shortcuts!Typed
  <2>3. slot' \in Shortcuts!Settings /\ error' \in [Shortcuts!Kinds -> BOOLEAN]
        /\ held' \in BOOLEAN /\ unmuted' \in BOOLEAN
        /\ setter' \in [kind: Shortcuts!Kinds \cup {"nobody"}, key: Keys \cup {NoKey}]
    BY <1>3, <2>2 DEF Shortcuts!Settings
  <2>4. Shortcuts!Typed'
    BY <1>1, <2>0, <2>1, <2>3, MutesTyped DEF Shortcuts!Typed
  <2>5. slot["talk"]' # NoKey /\ ~held' /\ ~unmuted' => Shortcuts!MutesLast'
    <3>1. CASE k = "talk"
      <4>1. slot'["talk"] = key
        BY <1>3, <2>2, <3>1 DEF Shortcuts!Settings
      <4>2. CASE slot[k] # key
        BY <2>0, <2>1, <3>1, <4>1, <4>2, MutesAtLast
      <4>3. CASE slot[k] = key
        BY <1>3, <2>1, <2>2, <3>1, <4>1, <4>3, MutesSame DEF Shortcuts!Inv
      <4> QED BY <4>2, <4>3
    <3>2. CASE k = "mute"
      <4>1. slot'["talk"] = slot["talk"] /\ held' = held /\ unmuted' = unmuted
            /\ cmds' = cmds
        BY <1>3, <2>1, <2>2, <3>2 DEF Shortcuts!Settings, Shortcuts!Kinds
      <4> QED BY <4>1, MutesSame DEF Shortcuts!Inv
    <3> QED BY <3>1, <3>2 DEF Shortcuts!Kinds
  <2>6. ASSUME NEW s \in Shortcuts!Settings, Shortcuts!InTime(s)
        PROVE  Shortcuts!InTime(s)'
    <3>1. slot'[k] = key /\ setter' = [kind |-> k, key |-> key]
          /\ setter'.kind = k /\ setter'.key = key
      BY <1>3, <2>2 DEF Shortcuts!Settings
    <3>2. ASSUME NEW j \in Shortcuts!Kinds, j # k
          PROVE  slot'[j] = slot[j] /\ error'[j] = error[j]
      BY <1>3, <2>2, <3>2 DEF Shortcuts!Settings
    <3>3. \A j \in Shortcuts!Kinds : setter.kind # j
      BY DEF Shortcuts!Nobody, Shortcuts!Kinds
    <3> QED BY <2>6, <3>1, <3>2, <3>3 DEF Shortcuts!InTime, Shortcuts!Promised
  <2>7. Shortcuts!Foreseen => Shortcuts!Foreseen'
    BY <2>0, <2>1, <2>6, ForeseenMutes
  <2> QED BY <2>4, <2>5, <2>7 DEF Shortcuts!Inv
<1> QED BY <1>2, <1>3 DEF Shortcuts!Queue

\* The rest of set_hotkey: what was promised is on its way.
LEMMA ShortcutsSave ==
  ASSUME Shortcuts!Inv, Shortcuts!SaveHotkey
  PROVE  Shortcuts!Inv'
<1> USE DEF Shortcuts!SaveHotkey, Shortcuts!Queue
<1>1. Shortcuts!Typed
  BY DEF Shortcuts!Inv
<1> DEFINE now == [snap.settings EXCEPT ![setter.kind] = setter.key]
<1>2. /\ cmds \in Seq(Shortcuts!Commands) /\ snap.settings \in Shortcuts!Settings
      /\ setter.key \in Keys \cup {NoKey}
      /\ setter.kind \in Shortcuts!Kinds \cup {"nobody"}
  BY <1>1 DEF Shortcuts!Typed
<1>3. now \in Shortcuts!Settings
  BY <1>2 DEF Shortcuts!Settings
<1> HIDE DEF now
<1>13. PICK c : c = [kind |-> "settings", settings |-> now, base |-> snap.settings]
  OBVIOUS
<1>4. /\ c = [kind |-> "settings", settings |-> now, base |-> snap.settings]
      /\ c.kind = "settings" /\ c.settings = now /\ c.base = snap.settings
  BY <1>13
<1>5. c \in Shortcuts!Commands /\ c # Shortcuts!Mute(FALSE)
  <2>1. Shortcuts!Mute(FALSE).kind = "mic"
    BY DEF Shortcuts!Mute
  <2> QED BY <1>2, <1>3, <1>4, <2>1 DEF Shortcuts!Commands
<1>6. cmds' = cmds \o <<c>>
  BY <1>4 DEF Shortcuts!Update, now
<1>7. Queued(c)
  BY <1>2, <1>5, <1>6, QueuedOne
<1>8. Shortcuts!Typed'
  BY <1>1, <1>7 DEF Shortcuts!Typed, Shortcuts!Nobody, Queued
<1>9. Shortcuts!MutesLast => Shortcuts!MutesLast'
  BY <1>2, <1>5, <1>7, MutesStill
<1>10. ASSUME NEW s \in Shortcuts!Settings, NEW t \in Shortcuts!Settings,
              Shortcuts!InTime(s), c.base = s, t = c.settings
       PROVE  Shortcuts!InTime(t)'
  <2>1. t = [s EXCEPT ![setter.kind] = setter.key]
    BY <1>4, <1>10 DEF now
  <2>2. ASSUME NEW k \in Shortcuts!Kinds
        PROVE  t[k] = IF setter.kind = k THEN setter.key ELSE s[k]
    BY <2>1 DEF Shortcuts!Settings
  <2>3. setter'.kind = "nobody" /\ \A k \in Shortcuts!Kinds : setter'.kind # k
    BY DEF Shortcuts!Nobody, Shortcuts!Kinds
  <2> HIDE DEF Shortcuts!SaveHotkey
  <2>4. UNCHANGED <<slot, error, last>>
    BY DEF Shortcuts!SaveHotkey
  <2> QED BY <1>10, <2>2, <2>3, <2>4 DEF Shortcuts!InTime, Shortcuts!Promised
<1>11. Shortcuts!Foreseen => Shortcuts!Foreseen'
  <2>1. c.kind = "settings" /\ saved' = saved
    BY <1>4
  <2> HIDE DEF Shortcuts!SaveHotkey
  <2> QED BY <1>2, <1>7, <1>10, <2>1, ForeseenQueued
<1> QED BY <1>8, <1>9, <1>11 DEF Shortcuts!Inv

\* A sequence without one of its members.
LEMMA Leaves ==
  ASSUME NEW S, NEW q \in Seq(S), NEW i \in DOMAIN q
  PROVE  /\ Shortcuts!Without(q, i) \in Seq(S)
         /\ Len(q) = 1 => Shortcuts!Without(q, i) = <<>>
<1>1. i \in 1 .. Len(q) /\ Len(q) \in Nat
  OBVIOUS
<1>2. SubSeq(q, 1, i - 1) \in Seq(S) /\ SubSeq(q, i + 1, Len(q)) \in Seq(S)
  BY <1>1, SubSeqProperties
<1>3. CASE Len(q) = 1
  <2>1. Len(SubSeq(q, 1, i - 1)) = 0 /\ Len(SubSeq(q, i + 1, Len(q))) = 0
    BY <1>1, <1>3, SubSeqProperties
  <2>2. SubSeq(q, 1, i - 1) = <<>> /\ SubSeq(q, i + 1, Len(q)) = <<>>
    BY <1>2, <2>1, EmptySeq
  <2> QED BY <1>2, <2>2 DEF Shortcuts!Without
<1> QED BY <1>2, <1>3 DEF Shortcuts!Without

\* apply leaves each shortcut as it is wanted, or its error is shown.
LEMMA AppliedTypes ==
  ASSUME slot \in Shortcuts!Settings, error \in [Shortcuts!Kinds -> BOOLEAN],
         NEW wanted \in Shortcuts!Settings,
         NEW a, a = Shortcuts!Applied(wanted)
  PROVE  /\ a.slot \in Shortcuts!Settings /\ a.error \in [Shortcuts!Kinds -> BOOLEAN]
         /\ \A k \in Shortcuts!Kinds : a.slot[k] = wanted[k] \/ a.error[k]
<1> DEFINE bad(k) == slot[k] # wanted[k] /\ Shortcuts!Refuses(k, wanted[k])
           first == [slot EXCEPT !["mute"] =
                       IF bad("mute") THEN slot["mute"] ELSE wanted["mute"]]
           clash == /\ first["talk"] # wanted["talk"] /\ wanted["talk"] # NoKey
                    /\ first["mute"] = wanted["talk"] \/ wanted["talk"] \in taken
           m == IF bad("mute") THEN TRUE ELSE error["mute"] /\ slot["mute"] = wanted["mute"]
           t == IF clash THEN TRUE ELSE error["talk"] /\ slot["talk"] = wanted["talk"]
<1>1. /\ a.slot = [first EXCEPT !["talk"] =
                     IF clash THEN first["talk"] ELSE wanted["talk"]]
      /\ a.error = [mute |-> m, talk |-> t]
  BY DEF Shortcuts!Applied
<1>2. first \in Shortcuts!Settings /\ first["mute"] =
        IF bad("mute") THEN slot["mute"] ELSE wanted["mute"]
  BY DEF Shortcuts!Settings, Shortcuts!Kinds
<1>3. m \in BOOLEAN /\ t \in BOOLEAN
  BY DEF Shortcuts!Kinds
<1>4. (bad("mute") => m) /\ (clash => t)
  OBVIOUS
<1> HIDE DEF bad, first, clash, m, t
<1>5. a.slot \in Shortcuts!Settings
  BY <1>1, <1>2 DEF Shortcuts!Settings, Shortcuts!Kinds
<1>6. a.slot["mute"] = first["mute"]
      /\ a.slot["talk"] = IF clash THEN first["talk"] ELSE wanted["talk"]
  BY <1>1, <1>2 DEF Shortcuts!Settings, Shortcuts!Kinds
<1>7. /\ a.error = [k \in {"mute", "talk"} |-> IF k = "mute" THEN m ELSE t]
      /\ a.error["mute"] = m /\ a.error["talk"] = t
  BY <1>1
<1>8. a.error \in [Shortcuts!Kinds -> BOOLEAN]
  BY <1>3, <1>7 DEF Shortcuts!Kinds
<1> QED BY <1>2, <1>4, <1>5, <1>6, <1>7, <1>8 DEF Shortcuts!Kinds

\* A job of the pool.
LEMMA ShortcutsRun ==
  ASSUME Shortcuts!Inv, Shortcuts!RunJob
  PROVE  Shortcuts!Inv'
<1>1. Shortcuts!Typed
  BY DEF Shortcuts!Inv
<1>2. PICK i \in DOMAIN jobs :
        LET a == Shortcuts!Applied(jobs[i])
            changed == a.slot["talk"] # slot["talk"]
        IN /\ slot' = a.slot /\ error' = a.error
           /\ jobs' = Shortcuts!Without(jobs, i)
           /\ held' = (held /\ ~changed)
           /\ unmuted' = (unmuted /\ ~changed)
           /\ cmds' = cmds \o (IF changed THEN Shortcuts!Mutes("talk", a.slot["talk"])
                               ELSE <<>>)
           /\ UNCHANGED <<taken, saved, muted, snap, last, setter, raced, presses,
                          crossed>>
  BY DEF Shortcuts!RunJob, Shortcuts!Queue
<1>3. jobs \in Seq(Shortcuts!Settings) /\ slot \in Shortcuts!Settings
      /\ error \in [Shortcuts!Kinds -> BOOLEAN] /\ cmds \in Seq(Shortcuts!Commands)
  BY <1>1 DEF Shortcuts!Typed
<1>4. PICK wanted \in Shortcuts!Settings : wanted = jobs[i]
  BY <1>3
<1>5. PICK a : a = Shortcuts!Applied(wanted)
  OBVIOUS
<1>6. /\ slot' = a.slot /\ error' = a.error /\ jobs' = Shortcuts!Without(jobs, i)
      /\ held' = (held /\ slot'["talk"] = slot["talk"])
      /\ unmuted' = (unmuted /\ slot'["talk"] = slot["talk"])
      /\ cmds' = cmds \o (IF slot'["talk"] # slot["talk"]
                          THEN Shortcuts!Mutes("talk", slot'["talk"]) ELSE <<>>)
      /\ UNCHANGED <<taken, saved, muted, snap, last, setter, raced, presses, crossed>>
  BY <1>2, <1>4, <1>5
<1>7. /\ slot' \in Shortcuts!Settings /\ error' \in [Shortcuts!Kinds -> BOOLEAN]
      /\ \A k \in Shortcuts!Kinds : slot'[k] = wanted[k] \/ error'[k]
  BY <1>3, <1>4, <1>5, <1>6, AppliedTypes
<1>8. /\ cmds' = cmds \/ \E b \in BOOLEAN : Queued(Shortcuts!Mute(b))
      /\ slot'["talk"] = slot["talk"] => cmds' = cmds
      /\ slot'["talk"] # slot["talk"] /\ slot'["talk"] # NoKey =>
           Queued(Shortcuts!Mute(TRUE))
  <2>1. CASE slot'["talk"] = slot["talk"]
    <3>1. cmds' = cmds \o <<>>
      BY <1>6, <2>1
    <3> QED BY <1>3, <2>1, <3>1, QueuedNone
  <2>2. CASE slot'["talk"] # slot["talk"]
    <3>1. PICK key \in Keys \cup {NoKey} : key = slot'["talk"]
      BY <1>7 DEF Shortcuts!Settings, Shortcuts!Kinds
    <3>2. PICK k \in Shortcuts!Kinds : k = "talk"
      BY DEF Shortcuts!Kinds
    <3>3. cmds' = cmds \o Shortcuts!Mutes(k, key)
      BY <1>6, <2>2, <3>1, <3>2
    <3>4. /\ cmds' = cmds \/ \E b \in BOOLEAN : Queued(Shortcuts!Mute(b))
          /\ k # "talk" => cmds' = cmds
          /\ k = "talk" /\ key # NoKey => Queued(Shortcuts!Mute(TRUE))
      BY <1>3, <3>3, MutesQueued
    <3>5. slot'["talk"] # NoKey => Queued(Shortcuts!Mute(TRUE))
      BY <3>1, <3>2, <3>4
    <3> QED BY <2>2, <3>4, <3>5
  <2> QED BY <2>1, <2>2
<1>9. held' \in BOOLEAN /\ unmuted' \in BOOLEAN
  BY <1>1, <1>6 DEF Shortcuts!Typed
<1>10. jobs' \in Seq(Shortcuts!Settings) /\ (Len(jobs) = 1 => jobs' = <<>>)
  BY <1>3, <1>6, Leaves
<1>11. Shortcuts!Typed'
  BY <1>1, <1>3, <1>6, <1>7, <1>8, <1>9, <1>10, MutesTyped DEF Shortcuts!Typed
<1>12. slot["talk"]' # NoKey /\ ~held' /\ ~unmuted' => Shortcuts!MutesLast'
  <2>1. CASE slot'["talk"] = slot["talk"]
    BY <1>6, <1>8, <2>1, MutesSame DEF Shortcuts!Inv
  <2>2. CASE slot'["talk"] # slot["talk"]
    BY <1>3, <1>8, <2>2, MutesAtLast
  <2> QED BY <2>1, <2>2
<1>13. ASSUME ~raced'
       PROVE  jobs' = <<>> /\ wanted = last'.keys
  <2>1. jobs = <<>> \/ jobs = <<last.keys>>
    BY <1>6, <1>13 DEF Shortcuts!Inv
  <2>2. jobs = <<last.keys>>
    BY <2>1
  <2>3. Len(jobs) = 1 /\ i = 1 /\ jobs[1] = last.keys
    BY <2>2
  <2> QED BY <1>4, <1>6, <1>10, <2>3
<1>14. ASSUME ~raced', NEW s \in Shortcuts!Settings
       PROVE  Shortcuts!InTime(s)'
  BY <1>7, <1>13, <1>14 DEF Shortcuts!InTime
<1>15. ASSUME ~raced' PROVE Shortcuts!Foreseen'
  <2> SUFFICES ASSUME NEW h \in [0 .. Len(cmds') -> Shortcuts!Settings]
               PROVE  Shortcuts!InTime(h[Len(cmds)])'
    BY DEF Shortcuts!Foreseen, Shortcuts!Chain, Shortcuts!InTime, Shortcuts!Promised
  <2>1. cmds' \in Seq(Shortcuts!Commands)
    BY <1>11 DEF Shortcuts!Typed
  <2>2. h[Len(cmds')] \in Shortcuts!Settings
    BY <2>1
  <2>3. PICK s \in Shortcuts!Settings : s = h[Len(cmds')]
    BY <2>2
  <2>4. Shortcuts!InTime(s)'
    BY <1>14, <1>15, <2>3
  <2> QED BY <2>3, <2>4 DEF Shortcuts!InTime, Shortcuts!Promised
<1> QED BY <1>11, <1>12, <1>13, <1>15 DEF Shortcuts!Inv

\* The first command is carried out: the last word stands.
LEMMA MutesEngine ==
  ASSUME Shortcuts!Typed, Shortcuts!Engine, Shortcuts!MutesLast
  PROVE  Shortcuts!MutesLast'
<1> DEFINE yes == Shortcuts!Mute(TRUE)
           no == Shortcuts!Mute(FALSE)
<1>1. cmds \in Seq(Shortcuts!Commands) /\ cmds # <<>> /\ cmds' = Tail(cmds)
      /\ Head(cmds) = cmds[1]
  BY DEF Shortcuts!Typed, Shortcuts!Engine
<1>2. /\ Len(cmds) \in Nat \ {0} /\ Len(cmds') = Len(cmds) - 1
      /\ \A i \in 1 .. Len(cmds') : cmds'[i] = cmds[i + 1]
      /\ DOMAIN cmds = 1 .. Len(cmds) /\ DOMAIN cmds' = 1 .. Len(cmds')
  BY <1>1
<1>3. /\ \A j \in DOMAIN cmds : cmds[j] = no =>
           \E i \in DOMAIN cmds : i > j /\ cmds[i] = yes
      /\ muted \/ \E i \in DOMAIN cmds : cmds[i] = yes
  BY DEF Shortcuts!MutesLast
<1>4. Shortcuts!MutesLast' =
        /\ \A j \in DOMAIN cmds' : cmds'[j] = no =>
             \E i \in DOMAIN cmds' : i > j /\ cmds'[i] = yes
        /\ muted' \/ \E i \in DOMAIN cmds' : cmds'[i] = yes
  BY DEF Shortcuts!MutesLast, Shortcuts!Mute
<1>5. \/ cmds[1] = yes /\ muted'
      \/ cmds[1] = no
      \/ cmds[1] # yes /\ muted' = muted
  <2>1. cmds[1] \in Shortcuts!Commands
    BY <1>1, <1>2
  <2>2. CASE cmds[1] \in [kind: {"mic"}, muted: BOOLEAN]
    <3>1. /\ cmds[1] = [kind |-> "mic", muted |-> cmds[1].muted]
          /\ cmds[1].kind = "mic" /\ cmds[1].muted \in BOOLEAN
      BY <2>2
    <3>2. muted' = cmds[1].muted
      BY <1>1, <3>1 DEF Shortcuts!Engine
    <3>3. CASE cmds[1].muted = TRUE
      BY <3>1, <3>2, <3>3 DEF Shortcuts!Mute
    <3>4. CASE cmds[1].muted = FALSE
      BY <3>1, <3>4 DEF Shortcuts!Mute
    <3> QED BY <3>1, <3>3, <3>4
  <2>3. CASE cmds[1].kind = "settings"
    <3>1. muted' = muted
      BY <1>1, <2>3 DEF Shortcuts!Engine
    <3>2. yes.kind = "mic"
      BY DEF Shortcuts!Mute
    <3> QED BY <2>3, <3>1, <3>2
  <2> QED BY <2>1, <2>2, <2>3 DEF Shortcuts!Commands
<1> HIDE DEF yes, no
<1>6. ASSUME NEW i \in DOMAIN cmds, i > 1, cmds[i] = yes
      PROVE  i - 1 \in DOMAIN cmds' /\ cmds'[i - 1] = yes
  <2>1. i - 1 \in 1 .. Len(cmds') /\ (i - 1) + 1 = i
    BY <1>2, <1>6
  <2> QED BY <1>2, <1>6, <2>1
<1>7. ASSUME NEW j \in DOMAIN cmds', cmds'[j] = no
      PROVE  \E i \in DOMAIN cmds' : i > j /\ cmds'[i] = yes
  <2>1. j + 1 \in DOMAIN cmds /\ cmds[j + 1] = no
    BY <1>2, <1>7
  <2>2. PICK i \in DOMAIN cmds : i > j + 1 /\ cmds[i] = yes
    BY <1>3, <2>1
  <2>3. i > 1 /\ i - 1 > j
    BY <1>2, <2>2
  <2> QED BY <1>6, <2>2, <2>3
<1>8. muted' \/ \E i \in DOMAIN cmds' : cmds'[i] = yes
  <2>1. 1 \in DOMAIN cmds
    BY <1>2
  <2>2. CASE cmds[1] = no
    <3>1. PICK i \in DOMAIN cmds : i > 1 /\ cmds[i] = yes
      BY <1>3, <2>1, <2>2
    <3> QED BY <1>6, <3>1
  <2>3. ASSUME cmds[1] # yes, muted' = muted, NEW i \in DOMAIN cmds, cmds[i] = yes
        PROVE  \E k \in DOMAIN cmds' : cmds'[k] = yes
    <3>1. i > 1
      BY <1>2, <2>3
    <3> QED BY <1>6, <2>3, <3>1
  <2> QED BY <1>3, <1>5, <2>2, <2>3
<1> QED BY <1>4, <1>7, <1>8

LEMMA ShortcutsEngine ==
  ASSUME Shortcuts!Inv, Shortcuts!Engine
  PROVE  Shortcuts!Inv'
<1>1. Shortcuts!Typed
  BY DEF Shortcuts!Inv
<1>2. cmds \in Seq(Shortcuts!Commands) /\ cmds # <<>> /\ cmds' = Tail(cmds)
      /\ Head(cmds) \in Shortcuts!Commands
  BY <1>1 DEF Shortcuts!Typed, Shortcuts!Engine
<1>3. cmds' \in Seq(Shortcuts!Commands)
  BY <1>2
<1>4. muted' \in BOOLEAN /\ saved' \in Shortcuts!Settings /\ crossed' \in BOOLEAN
      /\ (crossed => crossed')
  <2>1. CASE Head(cmds).kind = "mic"
    <3>1. Head(cmds).muted \in BOOLEAN
      BY <1>2, <2>1 DEF Shortcuts!Commands
    <3> QED BY <1>1, <2>1, <3>1 DEF Shortcuts!Typed, Shortcuts!Engine
  <2>2. CASE Head(cmds).kind # "mic"
    <3>1. Head(cmds).settings \in Shortcuts!Settings
      BY <1>2, <2>2 DEF Shortcuts!Commands
    <3> QED BY <1>1, <2>2, <3>1 DEF Shortcuts!Typed, Shortcuts!Engine
  <2> QED BY <2>1, <2>2
<1>5. Shortcuts!Typed'
  BY <1>1, <1>3, <1>4 DEF Shortcuts!Typed, Shortcuts!Engine
<1>6. UNCHANGED <<slot, held, unmuted, raced, jobs, last>>
  BY DEF Shortcuts!Engine
<1>7. slot["talk"]' # NoKey /\ ~held' /\ ~unmuted' => Shortcuts!MutesLast'
  BY <1>1, <1>6, MutesEngine DEF Shortcuts!Inv
<1>8. ~raced' /\ ~crossed' /\ jobs' = <<>> /\ ~last'.first => Shortcuts!Foreseen'
  BY <1>1, <1>4, <1>6, ForeseenEngine DEF Shortcuts!Inv
<1> QED BY <1>5, <1>6, <1>7, <1>8 DEF Shortcuts!Inv

LEMMA ShortcutsSnapshot ==
  ASSUME Shortcuts!Inv, Shortcuts!Snapshot
  PROVE  Shortcuts!Inv'
<1> USE DEF Shortcuts!Snapshot
<1>1. Shortcuts!Typed
  BY DEF Shortcuts!Inv
<1>2. Shortcuts!Typed'
  BY <1>1 DEF Shortcuts!Typed
<1>3. Shortcuts!MutesLast => Shortcuts!MutesLast'
  BY MutesSame
<1>4. Shortcuts!Foreseen => Shortcuts!Foreseen'
  BY <1>1, ForeseenStill DEF Shortcuts!Typed, Shortcuts!InTime, Shortcuts!Promised
<1> QED BY <1>2, <1>3, <1>4 DEF Shortcuts!Inv

\* forward_state: what was in time without a job is for the job now.
LEMMA ShortcutsForward ==
  ASSUME Shortcuts!Inv, Shortcuts!Forward
  PROVE  Shortcuts!Inv'
<1> USE DEF Shortcuts!Forward
<1>1. Shortcuts!Typed
  BY DEF Shortcuts!Inv
<1>2. /\ jobs \in Seq(Shortcuts!Settings) /\ snap.settings \in Shortcuts!Settings
      /\ cmds \in Seq(Shortcuts!Commands)
      /\ snap \in [settings: Shortcuts!Settings, muted: BOOLEAN]
      /\ last \in [first: BOOLEAN, keys: Shortcuts!Settings] /\ raced \in BOOLEAN
  BY <1>1 DEF Shortcuts!Typed
<1>3. last'.keys = snap.settings /\ last'.first = FALSE
      /\ last' \in [first: BOOLEAN, keys: Shortcuts!Settings]
  BY <1>2
<1>4. jobs' \in Seq(Shortcuts!Settings) /\ raced' \in BOOLEAN
  BY <1>2
<1>5. Shortcuts!Typed'
  BY <1>1, <1>3, <1>4 DEF Shortcuts!Typed
<1>6. Shortcuts!MutesLast => Shortcuts!MutesLast'
  BY MutesSame
<1>7. CASE Shortcuts!Forwards
  <2>1. Len(jobs') = Len(jobs) + 1 /\ Len(jobs) \in Nat
    BY <1>2, <1>7
  <2>2. jobs' # <<>>
    BY <2>1
  <2>3. ASSUME ~raced' PROVE jobs = <<>>
    <3>1. raced' = (raced \/ Len(jobs') = 2)
      OBVIOUS
    <3>2. Len(jobs') # 2
      BY <2>3, <3>1
    <3>3. Len(jobs) < 2
      OBVIOUS
    <3>4. Len(jobs) = 0
      BY <2>1, <3>2, <3>3
    <3> QED BY <1>2, <3>4, EmptySeq
  <2>4. jobs = <<>> => jobs' = <<last'.keys>>
    BY <1>2, <1>3, <1>7
  <2> QED BY <1>5, <1>6, <2>2, <2>3, <2>4 DEF Shortcuts!Inv
<1>8. CASE ~Shortcuts!Forwards
  <2>1. jobs' = jobs /\ last'.keys = last.keys /\ ~last.first
    BY <1>2, <1>3, <1>8 DEF Shortcuts!Forwards
  <2>2. raced => raced'
    BY <1>2
  <2>3. \A s \in Shortcuts!Settings : Shortcuts!InTime(s) => Shortcuts!InTime(s)'
    BY <2>1 DEF Shortcuts!InTime, Shortcuts!Promised
  <2>4. Shortcuts!Foreseen => Shortcuts!Foreseen'
    BY <1>2, <2>3, ForeseenStill
  <2> QED BY <1>5, <1>6, <2>1, <2>2, <2>4 DEF Shortcuts!Inv
<1> QED BY <1>7, <1>8

\* A mute is queued, and nothing of what is registered or saved changes.
LEMMA MuteOnly ==
  ASSUME Shortcuts!Inv, NEW b \in BOOLEAN, cmds' = cmds \o <<Shortcuts!Mute(b)>>,
         UNCHANGED <<slot, error, saved, muted, snap, last, jobs, setter, raced,
                     crossed>>,
         held' \in BOOLEAN, unmuted' \in BOOLEAN
  PROVE  /\ Queued(Shortcuts!Mute(b))
         /\ (slot["talk"]' # NoKey /\ ~held' /\ ~unmuted' => Shortcuts!MutesLast')
              => Shortcuts!Inv'
<1>1. Shortcuts!Typed /\ cmds \in Seq(Shortcuts!Commands)
  BY DEF Shortcuts!Inv, Shortcuts!Typed
<1>2. PICK c \in Shortcuts!Commands : c = Shortcuts!Mute(b)
  BY MuteKinds
<1>3. cmds' = cmds \o <<c>>
  BY <1>2
<1>4. Queued(c)
  BY <1>1, <1>3, QueuedOne
<1>5. Queued(Shortcuts!Mute(b))
  BY <1>2, <1>4
<1>6. cmds' = cmds \/ \E m \in BOOLEAN : Queued(Shortcuts!Mute(m))
  BY <1>5
<1>7. cmds' \in Seq(Shortcuts!Commands)
  BY <1>4 DEF Queued
<1>8. Shortcuts!Typed'
  BY <1>1, <1>7 DEF Shortcuts!Typed
<1>9. \A s \in Shortcuts!Settings : Shortcuts!InTime(s) => Shortcuts!InTime(s)'
  BY DEF Shortcuts!InTime, Shortcuts!Promised
<1>10. Shortcuts!Foreseen => Shortcuts!Foreseen'
  BY <1>1, <1>6, <1>9, ForeseenMutes
<1> QED BY <1>5, <1>8, <1>10 DEF Shortcuts!Inv

\* on_shortcut
LEMMA ShortcutsPress ==
  ASSUME Shortcuts!Inv, Shortcuts!PressTalk
  PROVE  Shortcuts!Inv'
<1>1. /\ cmds' = cmds \o <<Shortcuts!Mute(FALSE)>> /\ held' = TRUE /\ unmuted' = FALSE
      /\ UNCHANGED <<slot, error, saved, muted, snap, last, jobs, setter, raced, crossed>>
  BY DEF Shortcuts!PressTalk, Shortcuts!Queue
<1> QED BY <1>1, MuteOnly

LEMMA ShortcutsRelease ==
  ASSUME Shortcuts!Inv, Shortcuts!ReleaseTalk
  PROVE  Shortcuts!Inv'
<1>1. /\ cmds' = cmds \o <<Shortcuts!Mute(TRUE)>> /\ held' = FALSE /\ unmuted' = FALSE
      /\ UNCHANGED <<slot, error, saved, muted, snap, last, jobs, setter, raced, crossed>>
  BY DEF Shortcuts!ReleaseTalk, Shortcuts!Queue
<1>2. cmds \in Seq(Shortcuts!Commands)
  BY DEF Shortcuts!Inv, Shortcuts!Typed
<1>3. Queued(Shortcuts!Mute(TRUE))
  BY <1>1, MuteOnly
<1>4. Shortcuts!MutesLast'
  BY <1>2, <1>3, MutesAtLast
<1> QED BY <1>1, <1>4, MuteOnly

\* A toggle mutes when the snapshot says that the microphone is live.
LEMMA ShortcutsToggle ==
  ASSUME Shortcuts!Inv, Shortcuts!Toggle
  PROVE  Shortcuts!Inv'
<1>1. /\ cmds \in Seq(Shortcuts!Commands) /\ snap.muted \in BOOLEAN
      /\ unmuted \in BOOLEAN /\ held \in BOOLEAN
  BY DEF Shortcuts!Inv, Shortcuts!Typed
<1>2. /\ cmds' = cmds \o <<Shortcuts!Mute(~snap.muted)>>
      /\ unmuted' = (unmuted \/ snap.muted) /\ held' = held
      /\ UNCHANGED <<slot, error, saved, muted, snap, last, jobs, setter, raced, crossed>>
  BY DEF Shortcuts!Toggle, Shortcuts!Queue
<1>3. unmuted' \in BOOLEAN /\ held' \in BOOLEAN
  BY <1>1, <1>2
<1>4. CASE snap.muted = TRUE
  <2>1. cmds' = cmds \o <<Shortcuts!Mute(FALSE)>> /\ unmuted' = TRUE
    BY <1>2, <1>4
  <2> QED BY <1>2, <1>3, <2>1, MuteOnly
<1>5. CASE snap.muted = FALSE
  <2>1. cmds' = cmds \o <<Shortcuts!Mute(TRUE)>>
    BY <1>2, <1>5
  <2>2. Queued(Shortcuts!Mute(TRUE))
    BY <1>2, <1>3, <2>1, MuteOnly
  <2>3. Shortcuts!MutesLast'
    BY <1>1, <2>2, MutesAtLast
  <2> QED BY <1>2, <1>3, <2>1, <2>3, MuteOnly
<1> QED BY <1>1, <1>4, <1>5

\* The settings of the snapshot are sent again.
LEMMA ShortcutsWrite ==
  ASSUME Shortcuts!Inv, Shortcuts!WriteSettings
  PROVE  Shortcuts!Inv'
<1> USE DEF Shortcuts!WriteSettings, Shortcuts!Queue
<1>1. Shortcuts!Typed
  BY DEF Shortcuts!Inv
<1>2. cmds \in Seq(Shortcuts!Commands) /\ snap.settings \in Shortcuts!Settings
  BY <1>1 DEF Shortcuts!Typed
<1>3. PICK c : c = [kind |-> "settings", settings |-> snap.settings,
                    base |-> snap.settings]
  OBVIOUS
<1>4. c.kind = "settings" /\ c.settings = snap.settings /\ c.base = snap.settings
  BY <1>3
<1>5. c \in Shortcuts!Commands /\ c # Shortcuts!Mute(FALSE)
  <2>1. Shortcuts!Mute(FALSE).kind = "mic"
    BY DEF Shortcuts!Mute
  <2> QED BY <1>2, <1>3, <1>4, <2>1 DEF Shortcuts!Commands
<1>6. cmds' = cmds \o <<c>>
  BY <1>3 DEF Shortcuts!Update
<1>7. Queued(c)
  BY <1>2, <1>5, <1>6, QueuedOne
<1>8. Shortcuts!Typed'
  BY <1>1, <1>7 DEF Shortcuts!Typed, Queued
<1>9. Shortcuts!MutesLast => Shortcuts!MutesLast'
  BY <1>2, <1>5, <1>7, MutesStill
<1>10. ASSUME NEW s \in Shortcuts!Settings, Shortcuts!InTime(s)
       PROVE  Shortcuts!InTime(s)'
  BY <1>10 DEF Shortcuts!InTime, Shortcuts!Promised
<1>11. Shortcuts!Foreseen => Shortcuts!Foreseen'
  <2>1. saved' = saved
    OBVIOUS
  <2> HIDE DEF Shortcuts!WriteSettings
  <2>2. ASSUME NEW s \in Shortcuts!Settings, NEW t \in Shortcuts!Settings,
               Shortcuts!InTime(s), c.base = s, t = c.settings
        PROVE  Shortcuts!InTime(t)'
    BY <1>4, <1>10, <2>2
  <2> QED BY <1>2, <1>4, <1>7, <2>1, <2>2, ForeseenQueued
<1> QED BY <1>8, <1>9, <1>11 DEF Shortcuts!Inv

LEMMA ShortcutsNext ==
  ASSUME Shortcuts!Inv, Shortcuts!Next
  PROVE  Shortcuts!Inv'
  BY ShortcutsSet, ShortcutsSave, ShortcutsRun, ShortcutsEngine, ShortcutsSnapshot,
     ShortcutsForward, ShortcutsPress, ShortcutsRelease, ShortcutsToggle,
     ShortcutsWrite
  DEF Shortcuts!Next

LEMMA ShortcutsStay ==
  ASSUME Shortcuts!Inv, UNCHANGED shortcutVars
  PROVE  Shortcuts!Inv'
<1> USE DEF shortcutVars
<1>1. Shortcuts!Typed /\ cmds \in Seq(Shortcuts!Commands)
  BY DEF Shortcuts!Inv, Shortcuts!Typed
<1>2. Shortcuts!Typed'
  BY <1>1 DEF Shortcuts!Typed
<1>3. Shortcuts!MutesLast => Shortcuts!MutesLast'
  BY MutesSame
<1>4. \A s \in Shortcuts!Settings : Shortcuts!InTime(s) => Shortcuts!InTime(s)'
  BY DEF Shortcuts!InTime, Shortcuts!Promised
<1>5. Shortcuts!Foreseen => Shortcuts!Foreseen'
  BY <1>1, <1>4, ForeseenStill
<1> QED BY <1>2, <1>3, <1>5 DEF Shortcuts!Inv

\* Nothing is foreseen beyond what is saved when no command is under way.
LEMMA ShortcutsWished ==
  Shortcuts!Inv => Shortcuts!LiveWhileHeld /\ Shortcuts!Registered
<1> SUFFICES ASSUME Shortcuts!Inv
             PROVE  Shortcuts!LiveWhileHeld /\ Shortcuts!Registered
  OBVIOUS
<1>1. Shortcuts!Typed
  BY DEF Shortcuts!Inv
<1>2. ASSUME slot["talk"] # NoKey, ~held, cmds = <<>>, ~unmuted
      PROVE  muted
  BY <1>2 DEF Shortcuts!Inv, Shortcuts!MutesLast
<1>3. ASSUME Shortcuts!Settled, ~raced, ~crossed, NEW k \in Shortcuts!Kinds
      PROVE  slot[k] = saved[k] \/ error[k]
  <2>1. cmds = <<>> /\ jobs = <<>> /\ setter = Shortcuts!Nobody
        /\ last = [first |-> FALSE, keys |-> saved]
    BY <1>3 DEF Shortcuts!Settled
  <2>2. ~last.first /\ last.keys = saved
    BY <2>1
  <2>3. Shortcuts!Foreseen
    BY <1>3, <2>1, <2>2 DEF Shortcuts!Inv
  <2> DEFINE h == [i \in 0 .. 0 |-> saved]
  <2>4. h \in [0 .. Len(cmds) -> Shortcuts!Settings] /\ h[0] = saved /\ Len(cmds) = 0
    BY <1>1, <2>1 DEF Shortcuts!Typed
  <2> HIDE DEF h
  <2>5. Shortcuts!Chain(h, cmds, saved)
    BY <2>4 DEF Shortcuts!Chain
  <2>6. Shortcuts!InTime(saved)
    BY <2>3, <2>4, <2>5 DEF Shortcuts!Foreseen
  <2>7. setter.kind # k
    BY <2>1 DEF Shortcuts!Nobody, Shortcuts!Kinds
  <2> QED BY <2>2, <2>6, <2>7 DEF Shortcuts!InTime, Shortcuts!Promised
<1> QED BY <1>2, <1>3 DEF Shortcuts!LiveWhileHeld, Shortcuts!Registered

----------------------------------------------------------------------------
(* What the routes of several peers share.                                 *)

\* The routes that hear this device, and the ones that feed the virtual microphone.
Hear(rs) == Sharing!ReceiversOf(rs)
Feed(rs) == Sharing!Feeds(rs)

\* No more of either than allowed, except for the keys in es; this device's numbers are
\* n at most.
Enough(rs, es, n) ==
  /\ \A r \in rs : Sharing!Key(r) \in Sharing!RouteKeys /\ r.status \in Sharing!Statuses
  /\ \A r \in rs : r.ours => r.id <= n
  /\ IsFiniteSet(Hear(rs)) /\ Cardinality(Hear(rs) \ es) <= limit
  /\ \A j, k \in Feed(rs) \ es : j.peer = k.peer

\* This device gives no other number than n to a route that is not there yet.
Numbered(rs, q, n) ==
  \A x \in q : x.ours => x.id = n \/ \E r \in rs : Sharing!Key(r) = Sharing!Key(x)

\* The number of members is the same in every module.
LEMMA CountSame == /\ \A S : Sharing!Cardinality(S) = Cardinality(S)
                   /\ \A S : Sharing!IsFiniteSet(S) <=> IsFiniteSet(S)
  BY DEF Sharing!Cardinality, Cardinality, Sharing!IsFiniteSet, IsFiniteSet

LEMMA HearFeed ==
  ASSUME NEW rs
  PROVE  /\ \A k : k \in Hear(rs) <=>
              \E r \in rs : k = Sharing!Key(r) /\ r.use = "send" /\ r.status # "paused"
         /\ \A k : k \in Feed(rs) <=> \E r \in rs : k = Sharing!Key(r) /\ r.use = "feed"
         /\ \A p, k : k \in Sharing!FeedsBesides(rs, p) <=> k \in Feed(rs) /\ k.peer # p
  BY DEF Hear, Feed, Sharing!ReceiversOf, Sharing!Feeds, Sharing!FeedsBesides

\* A key, and the route that has it.
LEMMA KeyParts ==
  ASSUME NEW r
  PROVE  /\ Sharing!Key(r).peer = r.peer /\ Sharing!Key(r).use = r.use
         /\ Sharing!Key(r).ours = r.ours /\ Sharing!Key(r).id = r.id
  BY DEF Sharing!Key

LEMMA RouteParts ==
  ASSUME NEW k \in Sharing!RouteKeys, NEW st, NEW x, x = Sharing!Route(k, st)
  PROVE  /\ Sharing!Key(x) = k /\ x.status = st
         /\ x.peer = k.peer /\ x.use = k.use /\ x.ours = k.ours /\ x.id = k.id
  BY DEF Sharing!RouteKeys, Sharing!Key, Sharing!Route

\* A part of a finite set is not larger, and one more is at most one more.
LEMMA NotMore ==
  ASSUME NEW A, NEW B, A \subseteq B, IsFiniteSet(B)
  PROVE  /\ IsFiniteSet(A) /\ Cardinality(A) \in Nat /\ Cardinality(B) \in Nat
         /\ Cardinality(A) <= Cardinality(B)
  BY FS_Subset, FS_CardinalityType

LEMMA OneMore ==
  ASSUME NEW A, NEW B, NEW k, A \subseteq B \cup {k}, IsFiniteSet(B)
  PROVE  /\ IsFiniteSet(A) /\ Cardinality(A) \in Nat /\ Cardinality(B) \in Nat
         /\ Cardinality(A) <= Cardinality(B) + 1
<1>1. IsFiniteSet(B \cup {k}) /\ Cardinality(B \cup {k}) <= Cardinality(B) + 1
      /\ Cardinality(B) \in Nat
  <2>1. CASE k \in B
    <3>1. B \cup {k} = B
      BY <2>1
    <3>2. Cardinality(B) \in Nat
      BY FS_CardinalityType
    <3>3. Cardinality(B) <= Cardinality(B) + 1
      BY <3>2
    <3> QED BY <3>1, <3>2, <3>3
  <2>2. CASE k \notin B
    <3>1. IsFiniteSet(B \cup {k}) /\ Cardinality(B \cup {k}) = Cardinality(B) + 1
      BY <2>2, FS_AddElement
    <3>2. Cardinality(B) \in Nat
      BY FS_CardinalityType
    <3>3. Cardinality(B \cup {k}) <= Cardinality(B) + 1
      BY <3>1, <3>2
    <3> QED BY <3>1, <3>2, <3>3
  <2> QED BY <2>1, <2>2
<1>2. /\ IsFiniteSet(A) /\ Cardinality(A) \in Nat /\ Cardinality(B \cup {k}) \in Nat
      /\ Cardinality(A) <= Cardinality(B \cup {k})
  BY <1>1, NotMore
<1> QED BY <1>1, <1>2

\* No more is heard or fed, except for what is excepted.
LEMMA EnoughStill ==
  ASSUME NEW rs, NEW q, NEW es, NEW e, NEW n, Enough(rs, es, n), limit \in Nat,
         \A r \in q : Sharing!Key(r) \in Sharing!RouteKeys /\ r.status \in Sharing!Statuses,
         \A r \in q : r.ours => r.id <= n,
         IsFiniteSet(Hear(q)), Hear(q) \ e \subseteq Hear(rs) \ es,
         Feed(q) \ e \subseteq Feed(rs) \ es
  PROVE  Enough(q, e, n)
<1>1. IsFiniteSet(Hear(rs) \ es)
  BY FS_Subset DEF Enough
<1>2. /\ Cardinality(Hear(q) \ e) \in Nat /\ Cardinality(Hear(rs) \ es) \in Nat
      /\ Cardinality(Hear(q) \ e) <= Cardinality(Hear(rs) \ es)
  BY <1>1, NotMore
<1>3. Cardinality(Hear(q) \ e) <= limit
  BY <1>2 DEF Enough
<1>4. \A j, k \in Feed(q) \ e : j.peer = k.peer
  BY DEF Enough
<1> QED BY <1>3, <1>4 DEF Enough

\* Fewer routes.
LEMMA Fewer ==
  ASSUME NEW rs, NEW q, q \subseteq rs, NEW es, NEW e, es \subseteq e, NEW n \in Nat,
         Enough(rs, es, n), limit \in Nat
  PROVE  /\ Enough(q, e, n) /\ Numbered(rs, q, n)
         /\ Hear(q) \subseteq Hear(rs) /\ Feed(q) \subseteq Feed(rs)
<1>1. Hear(q) \subseteq Hear(rs) /\ Feed(q) \subseteq Feed(rs)
  BY HearFeed
<1>2. IsFiniteSet(Hear(q))
  BY <1>1, FS_Subset DEF Enough
<1>3. /\ \A r \in q : Sharing!Key(r) \in Sharing!RouteKeys /\ r.status \in Sharing!Statuses
      /\ \A r \in q : r.ours => r.id <= n
  BY DEF Enough
<1>4. Hear(q) \ e \subseteq Hear(rs) \ es /\ Feed(q) \ e \subseteq Feed(rs) \ es
  BY <1>1
<1>5. Enough(q, e, n)
  BY <1>2, <1>3, <1>4, EnoughStill
<1>6. Numbered(rs, q, n)
  BY DEF Numbered
<1> QED BY <1>1, <1>5, <1>6

\* q is rs with a route more, of key k.
OneAdded(rs, k, q, n) ==
  /\ \A r \in q : Sharing!Key(r) \in Sharing!RouteKeys /\ r.status \in Sharing!Statuses
  /\ \A r \in q : r.ours => r.id <= n
  /\ Numbered(rs, q, n) /\ IsFiniteSet(Hear(q))
  /\ Hear(q) \subseteq Hear(rs) \cup {k} /\ Feed(q) \subseteq Feed(rs) \cup {k}
  /\ k.use = "send" => Feed(q) \subseteq Feed(rs)
  /\ k.use = "feed" => Hear(q) \subseteq Hear(rs)

LEMMA Added ==
  ASSUME NEW rs, NEW k \in Sharing!RouteKeys, NEW st \in Sharing!Statuses, NEW q,
         q = rs \cup {Sharing!Route(k, st)}, NEW n \in Nat, NEW es, Enough(rs, es, n),
         k.ours => k.id = n
  PROVE  OneAdded(rs, k, q, n)
<1>1. PICK x : x = Sharing!Route(k, st)
  OBVIOUS
<1>2. /\ Sharing!Key(x) = k /\ x.status = st /\ x.use = k.use /\ x.ours = k.ours
      /\ x.id = k.id
  BY <1>1, RouteParts
<1>3. q = rs \cup {x}
  BY <1>1
<1>4. /\ Hear(q) \subseteq Hear(rs) \cup {k} /\ Feed(q) \subseteq Feed(rs) \cup {k}
      /\ k.use = "send" => Feed(q) \subseteq Feed(rs)
      /\ k.use = "feed" => Hear(q) \subseteq Hear(rs)
  <2>1. /\ \A j : j \in Hear(q) => j \in Hear(rs) \/ (j = k /\ k.use = "send")
        /\ \A j : j \in Feed(q) => j \in Feed(rs) \/ (j = k /\ k.use = "feed")
    BY <1>2, <1>3, HearFeed
  <2> QED BY <2>1
<1>5. IsFiniteSet(Hear(q))
  BY <1>4, OneMore DEF Enough
<1>6. /\ \A r \in q : Sharing!Key(r) \in Sharing!RouteKeys /\ r.status \in Sharing!Statuses
      /\ \A r \in q : r.ours => r.id <= n
  BY <1>2, <1>3 DEF Enough
<1>7. Numbered(rs, q, n)
  BY <1>2, <1>3 DEF Numbered
<1> QED BY <1>4, <1>5, <1>6, <1>7 DEF OneAdded

\* A receiver more, where there is room,
LEMMA EnoughHear ==
  ASSUME NEW rs, NEW k \in Sharing!RouteKeys, k.use = "send", NEW st \in Sharing!Statuses,
         NEW q, q = rs \cup {Sharing!Route(k, st)}, NEW n \in Nat, NEW es, NEW e,
         Enough(rs, es, n), k.ours => k.id = n, limit \in Nat
  PROVE  Cardinality(Hear(rs)) < limit /\ Feed(rs) \ e \subseteq Feed(rs) \ es =>
           Enough(q, e, n) /\ Numbered(rs, q, n)
<1>0. OneAdded(rs, k, q, n)
  BY Added
<1> HAVE Cardinality(Hear(rs)) < limit /\ Feed(rs) \ e \subseteq Feed(rs) \ es
<1>1. /\ \A r \in q : Sharing!Key(r) \in Sharing!RouteKeys /\ r.status \in Sharing!Statuses
      /\ \A r \in q : r.ours => r.id <= n
      /\ Numbered(rs, q, n) /\ IsFiniteSet(Hear(q))
      /\ Hear(q) \subseteq Hear(rs) \cup {k} /\ Feed(q) \subseteq Feed(rs)
  BY <1>0 DEF OneAdded
<1>2. IsFiniteSet(Hear(rs)) /\ Hear(q) \ e \subseteq Hear(rs) \cup {k}
  BY <1>1 DEF Enough
<1>3. /\ Cardinality(Hear(q) \ e) <= Cardinality(Hear(rs)) + 1
      /\ Cardinality(Hear(q) \ e) \in Nat /\ Cardinality(Hear(rs)) \in Nat
  BY <1>2, OneMore
<1>4. Cardinality(Hear(q) \ e) <= limit
  BY <1>3
<1>5. \A i, j \in Feed(q) \ e : i.peer = j.peer
  BY <1>1 DEF Enough
<1> QED BY <1>1, <1>4, <1>5 DEF Enough

\* a feed more, where every other one of another device is excepted,
LEMMA EnoughFeed ==
  ASSUME NEW rs, NEW k \in Sharing!RouteKeys, k.use = "feed", NEW st \in Sharing!Statuses,
         NEW q, q = rs \cup {Sharing!Route(k, st)}, NEW n \in Nat, NEW es, NEW e,
         Enough(rs, es, n), k.ours => k.id = n, limit \in Nat,
         Hear(rs) \ e \subseteq Hear(rs) \ es,
         \A j \in Feed(rs) \ e : j.peer = k.peer
  PROVE  Enough(q, e, n) /\ Numbered(rs, q, n)
<1>0. OneAdded(rs, k, q, n)
  BY Added
<1>1. /\ \A r \in q : Sharing!Key(r) \in Sharing!RouteKeys /\ r.status \in Sharing!Statuses
      /\ \A r \in q : r.ours => r.id <= n
      /\ Numbered(rs, q, n) /\ IsFiniteSet(Hear(q))
      /\ Hear(q) \subseteq Hear(rs) /\ Feed(q) \subseteq Feed(rs) \cup {k}
  BY <1>0 DEF OneAdded
<1>2. IsFiniteSet(Hear(rs) \ es) /\ Hear(q) \ e \subseteq Hear(rs) \ es
  BY <1>1, FS_Subset DEF Enough
<1>3. /\ Cardinality(Hear(q) \ e) <= Cardinality(Hear(rs) \ es)
      /\ Cardinality(Hear(q) \ e) \in Nat /\ Cardinality(Hear(rs) \ es) \in Nat
  BY <1>2, NotMore
<1>4. Cardinality(Hear(q) \ e) <= limit
  BY <1>3 DEF Enough
<1>5. \A i, j \in Feed(q) \ e : i.peer = j.peer
  BY <1>1
<1> QED BY <1>1, <1>4, <1>5 DEF Enough

\* or any route more that is excepted.
LEMMA EnoughExcepted ==
  ASSUME NEW rs, NEW k \in Sharing!RouteKeys, NEW st \in Sharing!Statuses,
         NEW q, q = rs \cup {Sharing!Route(k, st)}, NEW n \in Nat, NEW es,
         Enough(rs, es, n), k.ours => k.id = n, limit \in Nat
  PROVE  Enough(q, es \cup {k}, n) /\ Numbered(rs, q, n)
<1>1. /\ \A r \in q : Sharing!Key(r) \in Sharing!RouteKeys /\ r.status \in Sharing!Statuses
      /\ \A r \in q : r.ours => r.id <= n
      /\ Numbered(rs, q, n) /\ IsFiniteSet(Hear(q))
      /\ Hear(q) \subseteq Hear(rs) \cup {k} /\ Feed(q) \subseteq Feed(rs) \cup {k}
  <2>1. OneAdded(rs, k, q, n)
    BY Added
  <2> QED BY <2>1 DEF OneAdded
<1>2. PICK e : e = es \cup {k}
  OBVIOUS
<1>3. Hear(q) \ e \subseteq Hear(rs) \ es /\ Feed(q) \ e \subseteq Feed(rs) \ es
  BY <1>1, <1>2
<1>4. Enough(q, e, n)
  BY <1>1, <1>3, EnoughStill
<1> QED BY <1>1, <1>2, <1>4

\* Routes that ended need no exception.
LEMMA EnoughForgotten ==
  ASSUME NEW q, NEW es, NEW n, Enough(q, es, n), limit \in Nat
  PROVE  Enough(q, Sharing!Excepted(es, q), n)
<1>1. PICK e : e = Sharing!Excepted(es, q)
  OBVIOUS
<1>2. Hear(q) \ e \subseteq Hear(q) \ es /\ Feed(q) \ e \subseteq Feed(q) \ es
  BY <1>1, HearFeed DEF Sharing!Excepted
<1>3. /\ \A r \in q : Sharing!Key(r) \in Sharing!RouteKeys /\ r.status \in Sharing!Statuses
      /\ \A r \in q : r.ours => r.id <= n
      /\ IsFiniteSet(Hear(q))
  BY DEF Enough
<1> QED BY <1>1, <1>2, <1>3, EnoughStill

LEMMA NumberedTwice ==
  ASSUME NEW rs, NEW q, NEW t, NEW n, Numbered(rs, q, n), Numbered(q, t, n)
  PROVE  Numbered(rs, t, n)
<1> SUFFICES ASSUME NEW x \in t, x.ours
             PROVE  x.id = n \/ \E r \in rs : Sharing!Key(r) = Sharing!Key(x)
  BY DEF Numbered
<1>1. x.id = n \/ \E y \in q : Sharing!Key(y) = Sharing!Key(x)
  BY DEF Numbered
<1>2. ASSUME NEW y \in q, Sharing!Key(y) = Sharing!Key(x)
      PROVE  x.id = n \/ \E r \in rs : Sharing!Key(r) = Sharing!Key(x)
  <2>1. y.ours = x.ours /\ y.id = x.id
    <3>1. Sharing!Key(y).ours = y.ours /\ Sharing!Key(y).id = y.id
      BY KeyParts
    <3>2. Sharing!Key(x).ours = x.ours /\ Sharing!Key(x).id = x.id
      BY KeyParts
    <3> QED BY <1>2, <3>1, <3>2
  <2> QED BY <1>2, <2>1 DEF Numbered
<1> QED BY <1>1, <1>2

\* A request to replace the feed stops one, and spares the others.
LEMMA TakenSome ==
  ASSUME NEW rs, NEW p, NEW left \in Sharing!Taken(rs, p)
  PROVE  left \subseteq rs /\ Sharing!FeedsBesides(left, p) \subseteq Sharing!Spared(rs, p)
<1>1. CASE Sharing!FeedFree(rs, p)
  BY <1>1 DEF Sharing!Taken, Sharing!FeedFree
<1>2. CASE ~Sharing!FeedFree(rs, p)
  <2>1. PICK k \in Sharing!FeedsBesides(rs, p) : left = Sharing!Drop(rs, k)
    BY <1>2 DEF Sharing!Taken
  <2>2. left \subseteq rs /\ \A r \in left : Sharing!Key(r) # k
    BY <2>1 DEF Sharing!Drop
  <2>3. ASSUME NEW j \in Sharing!FeedsBesides(left, p)
        PROVE  j \in Sharing!Spared(rs, p)
    <3>1. j \in Feed(left) /\ j.peer # p
      BY <2>3, HearFeed
    <3>2. PICK r \in left : j = Sharing!Key(r) /\ r.use = "feed"
      BY <3>1, HearFeed
    <3>3. j # k /\ j \in Feed(rs)
      BY <2>2, <3>2, HearFeed
    <3>4. j \in Sharing!FeedsBesides(rs, p)
      BY <3>1, <3>3, HearFeed
    <3> QED BY <2>1, <3>3, <3>4 DEF Sharing!Spared
  <2> QED BY <2>2, <2>3
<1> QED BY <1>1, <1>2

\* What this device asks for next.
LEMMA OwnKey ==
  ASSUME NEW p \in Peers, NEW u \in {"send", "feed"}, moves \in Nat, NEW k,
         k = Sharing!Own(p, u)
  PROVE  /\ k \in Sharing!RouteKeys /\ k.ours /\ k.id = moves + 1 /\ k.use = u /\ k.peer = p
         /\ "requesting" \in Sharing!Statuses /\ "starting" \in Sharing!Statuses
  BY DEF Sharing!Own, Sharing!RouteKeys, Sharing!Uses, Sharing!Statuses

\* start_route, whatever it replaces.
LEMMA StartedEnough ==
  ASSUME NEW rs, NEW p \in Peers, NEW u \in {"send", "feed"}, NEW replace,
         moves \in Nat, limit \in Nat, NEW es, Enough(rs, es, moves + 1),
         NEW q \in Sharing!Started(rs, p, u, replace), NEW e, es \subseteq e,
         \/ ~replace \/ u = "send" \/ Sharing!Has(rs, p, u) \/ ~Sharing!Has(q, p, u)
         \/ Sharing!Spared(rs, p) \subseteq e
  PROVE  Enough(q, e, moves + 1) /\ Numbered(rs, q, moves + 1)
<1>1. PICK k : k = Sharing!Own(p, u)
  OBVIOUS
<1>2. /\ k \in Sharing!RouteKeys /\ k.ours /\ k.id = moves + 1 /\ k.use = u /\ k.peer = p
      /\ "requesting" \in Sharing!Statuses
  BY <1>1, OwnKey
<1>3. PICK n \in Nat : n = moves + 1
  OBVIOUS
<1>4. PICK x : x = Sharing!Route(k, "requesting")
  OBVIOUS
<1>5. x.peer = p /\ x.use = u
  BY <1>2, <1>4, RouteParts
<1>6. \/ q \subseteq rs
      \/ q = rs \cup {x} /\ u = "send" /\ Sharing!Room(rs)
      \/ /\ u = "feed" /\ ~Sharing!Has(rs, p, u) /\ replace
         /\ \E left \in Sharing!Taken(rs, p) : q = left \cup {x}
      \/ u = "feed" /\ Sharing!FeedFree(rs, p) /\ q = rs \cup {x}
  <2>1. Sharing!Requested(p, u) = {x} \/ Sharing!Requested(p, u) = {}
    BY <1>1, <1>4 DEF Sharing!Requested
  <2>2. CASE Sharing!Has(rs, p, u)
    BY <2>2 DEF Sharing!Started
  <2>3. CASE ~Sharing!Has(rs, p, u) /\ u = "send"
    BY <2>1, <2>3 DEF Sharing!Started
  <2>4. CASE ~Sharing!Has(rs, p, u) /\ u # "send" /\ replace
    <3>1. PICK left \in Sharing!Taken(rs, p) : q = left \cup Sharing!Requested(p, u)
      BY <2>4 DEF Sharing!Started
    <3>2. left \subseteq rs
      BY TakenSome
    <3> QED BY <2>1, <2>4, <3>1, <3>2
  <2>5. CASE ~Sharing!Has(rs, p, u) /\ u # "send" /\ ~replace
    BY <2>1, <2>5 DEF Sharing!Started
  <2> QED BY <2>2, <2>3, <2>4, <2>5
<1>7. CASE q \subseteq rs
  BY <1>3, <1>7, Fewer
<1>8. CASE q = rs \cup {x} /\ u = "send" /\ Sharing!Room(rs)
  <2>1. Cardinality(Hear(rs)) < limit
    BY <1>8, CountSame DEF Sharing!Room, Hear
  <2>2. Feed(rs) \ e \subseteq Feed(rs) \ es
    OBVIOUS
  <2> QED BY <1>2, <1>3, <1>4, <1>8, <2>1, <2>2, EnoughHear
<1>9. CASE /\ u = "feed" /\ ~Sharing!Has(rs, p, u) /\ replace
           /\ \E left \in Sharing!Taken(rs, p) : q = left \cup {x}
  <2>1. PICK left \in Sharing!Taken(rs, p) : q = left \cup {x}
    BY <1>9
  <2>2. left \subseteq rs /\ Sharing!FeedsBesides(left, p) \subseteq Sharing!Spared(rs, p)
    BY TakenSome
  <2>3. Sharing!Has(q, p, u)
    BY <1>5, <2>1 DEF Sharing!Has
  <2>4. Sharing!Spared(rs, p) \subseteq e
    BY <1>9, <2>3
  <2>5. Enough(left, es, n) /\ Numbered(rs, left, n)
    BY <1>3, <2>2, Fewer
  <2>6. \A j \in Feed(left) \ e : j.peer = k.peer
    BY <1>2, <2>2, <2>4, HearFeed
  <2>7. Hear(left) \ e \subseteq Hear(left) \ es
    OBVIOUS
  <2>8. Enough(q, e, n) /\ Numbered(left, q, n)
    BY <1>2, <1>3, <1>4, <1>9, <2>1, <2>5, <2>6, <2>7, EnoughFeed
  <2> QED BY <1>3, <2>5, <2>8, NumberedTwice
<1>10. CASE u = "feed" /\ Sharing!FeedFree(rs, p) /\ q = rs \cup {x}
  <2>1. \A j \in Feed(rs) \ e : j.peer = k.peer
    BY <1>2, <1>10, HearFeed DEF Sharing!FeedFree
  <2>2. Hear(rs) \ e \subseteq Hear(rs) \ es
    OBVIOUS
  <2> QED BY <1>2, <1>3, <1>4, <1>10, <2>1, <2>2, EnoughFeed
<1> QED BY <1>6, <1>7, <1>8, <1>9, <1>10

\* What accept_route keeps, and a route it accepts.
LEMMA UnpausedSome ==
  ASSUME NEW rs, NEW k
  PROVE  Sharing!Unpaused(rs, k) \subseteq rs
  BY DEF Sharing!Unpaused

LEMMA AcceptedSome ==
  ASSUME NEW rs, NEW k, NEW q, q = Sharing!Accepted(rs, k)
  PROVE  \/ Sharing!Duplicate(rs, k) /\ q \subseteq rs
         \/ /\ ~Sharing!Duplicate(rs, k)
            /\ \E kept \in SUBSET rs : q = kept \cup {Sharing!Route(k, "starting")}
<1>1. Sharing!Unpaused(rs, k) \in SUBSET rs
  BY UnpausedSome
<1>2. CASE Sharing!Duplicate(rs, k)
  BY <1>1, <1>2 DEF Sharing!Accepted
<1>3. CASE ~Sharing!Duplicate(rs, k)
  BY <1>1, <1>3 DEF Sharing!Accepted
<1> QED BY <1>2, <1>3

\* What Inv says of the routes, in these terms.
LEMMA SharingFacts ==
  ASSUME Sharing!Inv
  PROVE  /\ limit \in ReceiverLimits /\ limit \in Nat /\ moves \in Nat /\ moves + 1 \in Nat
         /\ Enough(shared, excepted, moves + 1) /\ linked \subseteq Peers
         /\ prompts \subseteq Sharing!RouteKeys /\ \A k \in prompts : ~k.ours
         /\ Numbered(shared, shared, moves + 1)
<1>1. /\ limit \in ReceiverLimits /\ limit \in Nat /\ moves \in Nat /\ moves + 1 \in Nat
      /\ linked \subseteq Peers /\ prompts \subseteq Sharing!RouteKeys
      /\ \A k \in prompts : ~k.ours
  BY SharingNumbers DEF Sharing!Inv
<1>2. /\ Sharing!Cardinality(Hear(shared) \ excepted) <= limit
      /\ \A j, k \in Feed(shared) \ excepted : j.peer = k.peer
  BY DEF Sharing!Inv, Sharing!Shared, Hear, Feed
<1>3. /\ \A r \in shared : Sharing!Key(r) \in Sharing!RouteKeys /\ r.status \in Sharing!Statuses
      /\ \A r \in shared : r.ours => r.id <= moves + 1
      /\ IsFiniteSet(Hear(shared))
  BY CountSame DEF Sharing!Inv, Hear
<1>4. Enough(shared, excepted, moves + 1)
  BY <1>2, <1>3, CountSame DEF Enough
<1>5. Numbered(shared, shared, moves + 1)
  BY DEF Numbered
<1> QED BY <1>1, <1>4, <1>5

\* Routes that keep within their numbers and the limit keep the invariant.
LEMMA SharingAfter ==
  ASSUME Sharing!Inv, linked' \subseteq Peers, prompts' \subseteq Sharing!RouteKeys,
         \A k \in prompts' : ~k.ours, Enough(shared', excepted', moves + 1),
         limit' = limit, moves' \in {moves, moves + 1},
         auto' \in Sharing!RouteKeys \cup {Sharing!NoAuto}, auto'.ours, auto'.id <= moves' + 1,
         recording' \in BOOLEAN, handled' \in BOOLEAN, declined' \in BOOLEAN,
         declined' => Sharing!Stopped'
  PROVE  Sharing!Inv'
<1>1. limit' \in ReceiverLimits /\ moves \in Nat /\ moves' \in Nat /\ moves + 1 <= moves' + 1
  BY SharingFacts
<1>2. /\ \A r \in shared' : Sharing!Key(r) \in Sharing!RouteKeys /\ r.status \in Sharing!Statuses
      /\ IsFiniteSet(Hear(shared')) /\ Cardinality(Hear(shared') \ excepted') <= limit
      /\ \A j, k \in Feed(shared') \ excepted' : j.peer = k.peer
      /\ \A r \in shared' : r.ours => r.id <= moves + 1
  BY DEF Enough
<1>3. ASSUME NEW r \in shared', r.ours PROVE r.id <= moves' + 1
  <2>1. r.id <= moves + 1 /\ Sharing!Key(r).id \in Nat /\ Sharing!Key(r).id = r.id
    BY <1>2, <1>3, KeyParts DEF Sharing!RouteKeys
  <2> QED BY <1>1, <2>1
<1>4. /\ Sharing!Cardinality(Hear(shared') \ excepted') <= limit'
      /\ Sharing!IsFiniteSet(Hear(shared'))
  BY <1>2, CountSame
<1>5. Sharing!Shared'
  BY <1>2, <1>4 DEF Sharing!Shared, Hear, Feed
<1>6. Sharing!IsFiniteSet(Sharing!ReceiversOf(shared'))
  BY <1>4 DEF Hear
<1> QED BY <1>1, <1>2, <1>3, <1>5, <1>6 DEF Sharing!Inv

\* A stopped route stays stopped.
LEMMA StillStopped ==
  ASSUME Sharing!Inv, declined, Numbered(shared, shared', moves + 1),
         moves' \in {moves, moves + 1}, recording' = recording, handled',
         auto' \in {auto, Sharing!NoAuto}
  PROVE  Sharing!Stopped'
<1>1. Sharing!Stopped /\ moves \in Nat
  BY DEF Sharing!Inv
<1>2. CASE auto' = Sharing!NoAuto
  BY <1>1, <1>2 DEF Sharing!Stopped, Sharing!NoAuto
<1>3. CASE auto' = auto /\ auto # Sharing!NoAuto
  <2>1. /\ auto.id <= moves /\ auto \in Sharing!RouteKeys /\ auto.ours /\ auto.id \in Nat
        /\ \A r \in shared : Sharing!Key(r) # auto
    BY <1>1, <1>3 DEF Sharing!Stopped, Sharing!Inv, Sharing!RouteKeys
  <2>2. ASSUME NEW x \in shared', Sharing!Key(x) = auto PROVE FALSE
    <3>1. x.ours /\ x.id = auto.id
      BY <2>1, <2>2, KeyParts
    <3>2. x.id # moves + 1
      BY <1>1, <2>1, <3>1
    <3>3. \E r \in shared : Sharing!Key(r) = Sharing!Key(x)
      BY <3>1, <3>2 DEF Numbered
    <3> QED BY <2>1, <2>2, <3>3
  <2>3. auto.id <= moves'
    BY <1>1, <2>1
  <2> QED BY <1>1, <1>3, <2>2, <2>3 DEF Sharing!Stopped
<1> QED BY <1>1, <1>2, <1>3

\* The same where the automatic microphone is left alone.
LEMMA SharingRoutes ==
  ASSUME Sharing!Inv, linked' \subseteq Peers, prompts' \subseteq Sharing!RouteKeys,
         \A k \in prompts' : ~k.ours, Numbered(shared, shared', moves + 1),
         Enough(shared', excepted', moves + 1),
         limit' = limit, moves' \in {moves, moves + 1}, UNCHANGED Sharing!autoMic
  PROVE  Sharing!Inv'
<1> USE DEF Sharing!autoMic
<1>1. /\ auto' \in Sharing!RouteKeys \cup {Sharing!NoAuto} /\ auto'.ours
      /\ auto'.id <= moves + 1
      /\ recording' \in BOOLEAN /\ handled' \in BOOLEAN /\ declined' \in BOOLEAN
  BY DEF Sharing!Inv
<1>2. auto'.id <= moves' + 1
  <2>1. auto'.id \in Nat
    BY <1>1 DEF Sharing!RouteKeys, Sharing!NoAuto
  <2> QED BY <1>1, <2>1, SharingFacts
<1>3. declined' => Sharing!Stopped'
  <2> SUFFICES ASSUME declined' PROVE Sharing!Stopped'
    OBVIOUS
  <2>1. declined /\ handled
    BY DEF Sharing!Inv, Sharing!Stopped
  <2> QED BY <2>1, StillStopped
<1> QED BY <1>1, <1>2, <1>3, SharingAfter

LEMMA Moved == Sharing!Turn => moves' \in {moves, moves + 1}
  BY DEF Sharing!Turn

LEMMA SharingInit == Sharing!Init => Sharing!Inv
<1> SUFFICES ASSUME Sharing!Init PROVE Sharing!Inv
  OBVIOUS
<1> USE DEF Sharing!Init
<1>1. Hear(shared) = {} /\ Feed(shared) = {}
  BY HearFeed
<1>2. Sharing!IsFiniteSet(Hear(shared)) /\ Sharing!Cardinality(Hear(shared) \ excepted) = 0
  <2>1. Hear(shared) \ excepted = {}
    BY <1>1
  <2> QED BY <1>1, <2>1, CountSame, FS_EmptySet
<1>3. limit \in ReceiverLimits /\ limit \in Nat
  BY SharingNumbers
<1>4. Sharing!Shared
  BY <1>1, <1>2, <1>3 DEF Sharing!Shared, Hear, Feed
<1>5. Sharing!NoAuto.ours /\ Sharing!NoAuto.id = 0
  BY DEF Sharing!NoAuto
<1>6. /\ auto \in Sharing!RouteKeys \cup {Sharing!NoAuto} /\ auto.ours /\ auto.id <= moves + 1
      /\ moves \in Nat /\ declined = FALSE /\ shared = {} /\ prompts = {}
  BY <1>5
<1>7. Sharing!IsFiniteSet(Sharing!ReceiversOf(shared))
  BY <1>2 DEF Hear
<1>8. linked \subseteq Peers /\ recording \in BOOLEAN /\ handled \in BOOLEAN
  OBVIOUS
<1> HIDE DEF Sharing!Init
<1> QED BY <1>3, <1>4, <1>6, <1>7, <1>8 DEF Sharing!Inv

LEMMA SharingStart ==
  ASSUME Sharing!Inv, NEW p \in Peers, NEW u \in Sharing!Uses, Sharing!StartRoute(p, u)
  PROVE  Sharing!Inv'
<1>1. PICK replace \in BOOLEAN : shared' \in Sharing!Started(shared, p, u, replace)
  BY DEF Sharing!StartRoute
<1>2. PICK e : e = IF u = "feed" /\ Sharing!Has(shared', p, u) /\ ~Sharing!Has(shared, p, u)
                   THEN excepted \cup Sharing!Spared(shared, p) ELSE excepted
  OBVIOUS
<1>3. /\ Sharing!Turn /\ excepted' = Sharing!Excepted(e, shared')
      /\ UNCHANGED <<linked, prompts, limit, Sharing!autoMic>>
  BY <1>2 DEF Sharing!StartRoute
<1>4. u \in {"send", "feed"}
  BY DEF Sharing!Uses
<1>5. excepted \subseteq e
      /\ \/ ~replace \/ u = "send" \/ Sharing!Has(shared, p, u) \/ ~Sharing!Has(shared', p, u)
         \/ Sharing!Spared(shared, p) \subseteq e
  BY <1>2, <1>4
<1>6. PICK q : q = shared'
  OBVIOUS
<1>7. Enough(q, e, moves + 1) /\ Numbered(shared, q, moves + 1)
  BY <1>1, <1>4, <1>5, <1>6, SharingFacts, StartedEnough
<1>8. Enough(q, Sharing!Excepted(e, q), moves + 1)
  BY <1>7, SharingFacts, EnoughForgotten
<1>9. Enough(shared', excepted', moves + 1) /\ Numbered(shared, shared', moves + 1)
  BY <1>3, <1>6, <1>7, <1>8
<1>10. /\ linked' \subseteq Peers /\ prompts' \subseteq Sharing!RouteKeys
       /\ \A k \in prompts' : ~k.ours
  BY <1>3, SharingFacts
<1> QED BY <1>3, <1>9, <1>10, Moved, SharingRoutes

\* Routes end: by a command of the user,
LEMMA LessEnough ==
  ASSUME Sharing!Inv, shared' \subseteq shared,
         excepted' = Sharing!Excepted(excepted, shared')
  PROVE  Enough(shared', excepted', moves + 1) /\ Numbered(shared, shared', moves + 1)
<1>1. PICK q : q = shared'
  OBVIOUS
<1>2. Enough(q, excepted, moves + 1) /\ Numbered(shared, q, moves + 1)
  BY <1>1, SharingFacts, Fewer
<1>3. Enough(q, Sharing!Excepted(excepted, q), moves + 1)
  BY <1>2, SharingFacts, EnoughForgotten
<1> QED BY <1>1, <1>2, <1>3

LEMMA SharingStop ==
  ASSUME Sharing!Inv, NEW r \in shared, Sharing!StopRoute(r)
  PROVE  Sharing!Inv'
<1>1. /\ Sharing!Turn /\ shared' = Sharing!Drop(shared, Sharing!Key(r))
      /\ excepted' = Sharing!Excepted(excepted, shared')
      /\ declined' = (declined \/ (recording /\ handled /\ auto = Sharing!Key(r)))
      /\ UNCHANGED <<linked, prompts, limit, recording, auto, handled, unused, lastPeer>>
  BY DEF Sharing!StopRoute
<1>2. shared' \subseteq shared /\ \A x \in shared' : Sharing!Key(x) # Sharing!Key(r)
  BY <1>1 DEF Sharing!Drop
<1>3. Enough(shared', excepted', moves + 1) /\ Numbered(shared, shared', moves + 1)
  BY <1>1, <1>2, LessEnough
<1>4. /\ auto' \in Sharing!RouteKeys \cup {Sharing!NoAuto} /\ auto'.ours
      /\ auto'.id <= moves + 1 /\ auto'.id \in Nat /\ moves' = moves + 1
      /\ recording' \in BOOLEAN /\ handled' \in BOOLEAN /\ declined' \in BOOLEAN
  BY <1>1 DEF Sharing!Inv, Sharing!RouteKeys, Sharing!NoAuto, Sharing!Turn
<1>5. auto'.id <= moves' /\ auto'.id <= moves' + 1
  BY <1>4, SharingFacts
<1>6. declined' => Sharing!Stopped'
  <2>1. CASE declined
    <3>1. handled' /\ recording' = recording /\ auto' \in {auto, Sharing!NoAuto}
      BY <1>1, <2>1 DEF Sharing!Inv, Sharing!Stopped
    <3> QED BY <1>1, <1>3, <2>1, <3>1, Moved, StillStopped
  <2>2. CASE ~declined
    BY <1>1, <1>2, <1>5, <2>2 DEF Sharing!Stopped
  <2> QED BY <2>1, <2>2
<1>7. /\ linked' \subseteq Peers /\ prompts' \subseteq Sharing!RouteKeys
      /\ \A k \in prompts' : ~k.ours
  BY <1>1, SharingFacts
<1> QED BY <1>1, <1>3, <1>4, <1>5, <1>6, <1>7, Moved, SharingAfter

\* or by the peer, a failure or a deadline.
LEMMA SharingEnds ==
  ASSUME Sharing!Inv, NEW r \in shared, Sharing!RouteEnds(r)
  PROVE  Sharing!Inv'
<1>1. /\ Sharing!Turn /\ shared' \subseteq shared
      /\ excepted' = Sharing!Excepted(excepted, shared')
      /\ UNCHANGED <<linked, prompts, limit, Sharing!autoMic>>
  BY DEF Sharing!RouteEnds, Sharing!Drop
<1>2. Enough(shared', excepted', moves + 1) /\ Numbered(shared, shared', moves + 1)
  BY <1>1, LessEnough
<1> QED BY <1>1, <1>2, Moved, SharingFacts, SharingRoutes

\* A limit that is lowered does not count what runs.
LEMMA SharingLimit ==
  ASSUME Sharing!Inv, Sharing!SetLimit
  PROVE  Sharing!Inv'
<1> USE DEF Sharing!SetLimit
<1>1. /\ limit \in Nat /\ limit' \in ReceiverLimits /\ limit' \in Nat
      /\ moves \in Nat /\ moves' = moves + 1 /\ shared' = shared
      /\ Enough(shared, excepted, moves + 1)
  BY SharingFacts, SharingNumbers DEF Sharing!Turn
<1>2. /\ IsFiniteSet(Hear(shared)) /\ Cardinality(Hear(shared) \ excepted) <= limit
      /\ \A j, k \in Feed(shared) \ excepted : j.peer = k.peer
  BY <1>1 DEF Enough
<1>3. /\ Cardinality(Hear(shared) \ excepted') <= limit'
      /\ excepted \subseteq excepted'
  <2>1. CASE limit' < limit
    <3>1. excepted' = excepted \cup Hear(shared)
      BY <2>1 DEF Hear
    <3>2. Hear(shared) \ excepted' = {}
      BY <3>1
    <3>3. Cardinality(Hear(shared) \ excepted') = 0
      BY <3>2, FS_EmptySet
    <3> QED BY <1>1, <3>1, <3>3
  <2>2. CASE ~(limit' < limit)
    <3>1. excepted' = excepted
      BY <2>2
    <3>2. IsFiniteSet(Hear(shared) \ excepted)
      BY <1>2, FS_Subset
    <3>3. Cardinality(Hear(shared) \ excepted) \in Nat
      BY <3>2, FS_CardinalityType
    <3> QED BY <1>1, <1>2, <2>2, <3>1, <3>3
  <2> QED BY <2>1, <2>2
<1>4. /\ Sharing!Cardinality(Hear(shared) \ excepted') <= limit'
      /\ Sharing!IsFiniteSet(Hear(shared))
  BY <1>2, <1>3, CountSame
<1>5. \A j, k \in Feed(shared) \ excepted' : j.peer = k.peer
  BY <1>2, <1>3
<1>6. Sharing!Shared'
  BY <1>1, <1>4, <1>5 DEF Sharing!Shared, Hear, Feed
<1>7. declined' => Sharing!Stopped'
  <2> SUFFICES ASSUME declined PROVE Sharing!Stopped'
    BY DEF Sharing!autoMic
  <2>1. handled' /\ recording' = recording /\ auto' = auto /\ Sharing!Stopped
    BY DEF Sharing!Inv, Sharing!Stopped, Sharing!autoMic
  <2>2. Numbered(shared, shared', moves + 1)
    BY <1>1, SharingFacts
  <2> QED BY <1>1, <2>1, <2>2, StillStopped
<1>8. /\ \A r \in shared : r.ours => r.id <= moves' + 1
      /\ auto.id <= moves' + 1
  <2>1. ASSUME NEW r \in shared PROVE r.id \in Nat
    BY KeyParts DEF Sharing!Inv, Sharing!RouteKeys
  <2>2. auto.id \in Nat
    BY DEF Sharing!Inv, Sharing!RouteKeys, Sharing!NoAuto
  <2>3. /\ \A r \in shared : r.ours => r.id <= moves + 1
        /\ auto.id <= moves + 1
    BY DEF Sharing!Inv
  <2> QED BY <1>1, <2>1, <2>2, <2>3
<1>9. Sharing!IsFiniteSet(Sharing!ReceiversOf(shared'))
  BY <1>1, <1>4 DEF Hear
<1>10. /\ linked' \subseteq Peers /\ prompts' \subseteq Sharing!RouteKeys /\ \A k \in prompts' : ~k.ours
       /\ \A r \in shared' : Sharing!Key(r) \in Sharing!RouteKeys /\ r.status \in Sharing!Statuses
       /\ auto' \in Sharing!RouteKeys \cup {Sharing!NoAuto} /\ auto' = auto /\ auto'.ours
       /\ recording' \in BOOLEAN /\ handled' \in BOOLEAN /\ declined' \in BOOLEAN
  BY <1>1 DEF Sharing!Inv, Sharing!autoMic
<1> QED BY <1>1, <1>6, <1>7, <1>8, <1>9, <1>10 DEF Sharing!Inv

\* respond_request: what the user accepts is excepted.
LEMMA SharingRespond ==
  ASSUME Sharing!Inv, NEW k \in prompts, Sharing!Respond(k)
  PROVE  Sharing!Inv'
<1>1. /\ Sharing!Turn /\ prompts' = prompts \ {k}
      /\ UNCHANGED <<linked, limit, Sharing!autoMic>>
      /\ \/ shared' = shared /\ excepted' = excepted
         \/ /\ shared' = Sharing!Accepted(shared, k)
            /\ excepted' = Sharing!Excepted(
                 IF Sharing!Duplicate(shared, k) THEN excepted ELSE excepted \cup {k}, shared')
  BY DEF Sharing!Respond
<1>2. /\ linked' \subseteq Peers /\ prompts' \subseteq Sharing!RouteKeys
      /\ \A j \in prompts' : ~j.ours
  BY <1>1, SharingFacts
<1>3. CASE shared' = shared /\ excepted' = excepted
  BY <1>1, <1>2, <1>3, Moved, SharingFacts, SharingRoutes
<1>4. CASE /\ shared' = Sharing!Accepted(shared, k)
           /\ excepted' = Sharing!Excepted(
                IF Sharing!Duplicate(shared, k) THEN excepted ELSE excepted \cup {k}, shared')
  <2>1. PICK q : q = shared'
    OBVIOUS
  <2>2. CASE Sharing!Duplicate(shared, k) /\ q \subseteq shared
    BY <1>1, <1>2, <1>4, <2>1, <2>2, LessEnough, Moved, SharingRoutes
  <2>3. CASE /\ ~Sharing!Duplicate(shared, k)
             /\ \E kept \in SUBSET shared : q = kept \cup {Sharing!Route(k, "starting")}
    <3>1. PICK kept \in SUBSET shared : q = kept \cup {Sharing!Route(k, "starting")}
      BY <2>3
    <3>2. Enough(kept, excepted, moves + 1) /\ Numbered(shared, kept, moves + 1)
      BY SharingFacts, Fewer
    <3>3. k \in Sharing!RouteKeys /\ ~k.ours /\ "starting" \in Sharing!Statuses
      BY SharingFacts DEF Sharing!Statuses
    <3>4. Enough(q, excepted \cup {k}, moves + 1) /\ Numbered(kept, q, moves + 1)
      BY <3>1, <3>2, <3>3, SharingFacts, EnoughExcepted
    <3>5. Enough(q, Sharing!Excepted(excepted \cup {k}, q), moves + 1)
      BY <3>4, SharingFacts, EnoughForgotten
    <3>6. excepted' = Sharing!Excepted(excepted \cup {k}, q)
      BY <1>4, <2>1, <2>3
    <3>7. Enough(shared', excepted', moves + 1) /\ Numbered(shared, shared', moves + 1)
      BY <2>1, <3>2, <3>4, <3>5, <3>6, NumberedTwice
    <3> QED BY <1>1, <1>2, <3>7, Moved, SharingRoutes
  <2> QED BY <1>4, <2>1, <2>2, <2>3, AcceptedSome
<1> QED BY <1>1, <1>3, <1>4

\* on_route_request
LEMMA SharingRequest ==
  ASSUME Sharing!Inv, NEW k \in Sharing!RouteKeys, ~k.ours, Sharing!RouteRequest(k)
  PROVE  Sharing!Inv'
<1> DEFINE p == k.peer
<1>1. /\ Sharing!Turn /\ UNCHANGED <<linked, limit, Sharing!autoMic>>
      /\ k.use = "send" => Sharing!Room(shared)
      /\ k.use \in {"send", "feed"} /\ "starting" \in Sharing!Statuses
  BY DEF Sharing!RouteRequest, Sharing!RouteKeys, Sharing!Uses, Sharing!Statuses
<1>2. PICK replace \in BOOLEAN :
        /\ k.use = "feed" => replace \/ Sharing!FeedFree(shared, p)
        /\ \E left \in IF k.use = "feed" /\ replace THEN Sharing!Taken(shared, p)
                       ELSE {shared} :
             \/ /\ prompts' = prompts \cup {k}
                /\ shared' = left /\ excepted' = Sharing!Excepted(excepted, left)
             \/ /\ prompts' = prompts
                /\ shared' = Sharing!Accepted(left, k)
                /\ excepted' =
                     Sharing!Excepted(IF Sharing!Duplicate(left, k) THEN excepted
                              ELSE IF k.use = "feed"
                              THEN (excepted \ {k}) \cup Sharing!Spared(shared, p)
                              ELSE excepted \ {k}, shared')
  BY DEF Sharing!RouteRequest
<1>3. PICK left \in IF k.use = "feed" /\ replace THEN Sharing!Taken(shared, p)
                    ELSE {shared} :
        \/ /\ prompts' = prompts \cup {k}
           /\ shared' = left /\ excepted' = Sharing!Excepted(excepted, left)
        \/ /\ prompts' = prompts
           /\ shared' = Sharing!Accepted(left, k)
           /\ excepted' =
                Sharing!Excepted(IF Sharing!Duplicate(left, k) THEN excepted
                         ELSE IF k.use = "feed"
                         THEN (excepted \ {k}) \cup Sharing!Spared(shared, p)
                         ELSE excepted \ {k}, shared')
  BY <1>2
<1>4. /\ left \subseteq shared
      /\ k.use = "feed" => Sharing!FeedsBesides(left, p) \subseteq Sharing!Spared(shared, p)
      /\ k.use = "send" => left = shared
  <2>1. CASE k.use = "feed" /\ replace
    BY <1>3, <2>1, TakenSome
  <2>2. CASE ~(k.use = "feed" /\ replace)
    <3>1. left = shared
      BY <1>3, <2>2
    <3>2. k.use = "feed" => Sharing!FeedsBesides(left, p) = {}
      BY <1>2, <2>2, <3>1 DEF Sharing!FeedFree
    <3> QED BY <3>1, <3>2
  <2> QED BY <2>1, <2>2
<1>5. /\ linked' \subseteq Peers /\ prompts' \subseteq Sharing!RouteKeys
      /\ \A j \in prompts' : ~j.ours
  BY <1>1, <1>3, SharingFacts
<1>6. CASE shared' = left /\ excepted' = Sharing!Excepted(excepted, left)
  BY <1>1, <1>4, <1>5, <1>6, LessEnough, Moved, SharingRoutes
<1>7. CASE /\ shared' = Sharing!Accepted(left, k)
           /\ excepted' =
                Sharing!Excepted(IF Sharing!Duplicate(left, k) THEN excepted
                         ELSE IF k.use = "feed"
                         THEN (excepted \ {k}) \cup Sharing!Spared(shared, p)
                         ELSE excepted \ {k}, shared')
  <2>1. PICK q : q = shared'
    OBVIOUS
  <2>2. CASE Sharing!Duplicate(left, k) /\ q \subseteq left
    <3>1. shared' \subseteq shared /\ excepted' = Sharing!Excepted(excepted, shared')
      BY <1>4, <1>7, <2>1, <2>2
    <3> QED BY <1>1, <1>5, <3>1, LessEnough, Moved, SharingRoutes
  <2>3. CASE /\ ~Sharing!Duplicate(left, k)
             /\ \E kept \in SUBSET left : q = kept \cup {Sharing!Route(k, "starting")}
    <3>1. PICK kept \in SUBSET left : q = kept \cup {Sharing!Route(k, "starting")}
      BY <2>3
    <3>2. PICK e : e = IF k.use = "feed" THEN (excepted \ {k}) \cup Sharing!Spared(shared, p)
                       ELSE excepted \ {k}
      OBVIOUS
    <3>3. /\ Enough(kept, excepted, moves + 1) /\ Numbered(shared, kept, moves + 1)
          /\ Hear(kept) \subseteq Hear(shared)
      BY <1>4, SharingFacts, Fewer
    <3>4. /\ \A r \in q : Sharing!Key(r) \in Sharing!RouteKeys /\ r.status \in Sharing!Statuses
          /\ \A r \in q : r.ours => r.id <= moves + 1
          /\ Numbered(kept, q, moves + 1) /\ IsFiniteSet(Hear(q))
          /\ Hear(q) \subseteq Hear(kept) \cup {k} /\ Feed(q) \subseteq Feed(kept) \cup {k}
          /\ k.use = "send" => Feed(q) \subseteq Feed(kept)
          /\ k.use = "feed" => Hear(q) \subseteq Hear(kept)
      <4>1. OneAdded(kept, k, q, moves + 1)
        BY <1>1, <3>1, <3>3, SharingFacts, Added
      <4> QED BY <4>1 DEF OneAdded
    <3>5. Enough(q, e, moves + 1)
      <4>1. CASE k.use = "send"
        <5>1. e = excepted \ {k}
          BY <3>2, <4>1
        <5>2. Cardinality(Hear(shared)) < limit
          BY <1>1, <4>1, CountSame DEF Sharing!Room, Hear
        <5>3. IsFiniteSet(Hear(shared)) /\ Hear(q) \ e \subseteq Hear(shared) \cup {k}
          BY <3>3, <3>4, SharingFacts DEF Enough
        <5>4. /\ Cardinality(Hear(q) \ e) <= Cardinality(Hear(shared)) + 1
              /\ Cardinality(Hear(q) \ e) \in Nat /\ Cardinality(Hear(shared)) \in Nat
          BY <5>3, OneMore
        <5>5. Cardinality(Hear(q) \ e) <= limit
          BY <5>2, <5>4, SharingFacts
        <5>6. k \notin Feed(kept)
          BY <4>1, HearFeed, KeyParts
        <5>7. Feed(q) \ e \subseteq Feed(kept) \ excepted
          BY <3>4, <4>1, <5>1, <5>6
        <5>8. \A i, j \in Feed(q) \ e : i.peer = j.peer
          BY <3>3, <5>7 DEF Enough
        <5> QED BY <3>4, <5>5, <5>8 DEF Enough
      <4>2. CASE k.use = "feed"
        <5>1. e = (excepted \ {k}) \cup Sharing!Spared(shared, p)
          BY <3>2, <4>2
        <5>2. k \notin Hear(kept)
          BY <4>2, HearFeed, KeyParts
        <5>3. Hear(q) \ e \subseteq Hear(kept) \ excepted /\ IsFiniteSet(Hear(kept) \ excepted)
          BY <3>3, <3>4, <4>2, <5>1, <5>2, FS_Subset DEF Enough
        <5>4. /\ Cardinality(Hear(q) \ e) <= Cardinality(Hear(kept) \ excepted)
              /\ Cardinality(Hear(q) \ e) \in Nat /\ Cardinality(Hear(kept) \ excepted) \in Nat
          BY <5>3, NotMore
        <5>5. Cardinality(Hear(q) \ e) <= limit
          BY <3>3, <5>4, SharingFacts DEF Enough
        <5>6. ASSUME NEW j \in Feed(q) \ e PROVE j.peer = p
          <6>1. j = k \/ j \in Feed(kept)
            BY <3>4, <5>6
          <6>2. CASE j \in Feed(kept)
            <7>1. j \in Feed(left)
              BY <3>1, <6>2, HearFeed
            <7>2. j \notin Sharing!FeedsBesides(left, p)
              BY <1>4, <4>2, <5>1, <5>6
            <7> QED BY <7>1, <7>2, HearFeed
          <6> QED BY <6>1, <6>2
        <5>7. \A i, j \in Feed(q) \ e : i.peer = j.peer
          BY <5>6
        <5> QED BY <3>4, <5>5, <5>7 DEF Enough
      <4> QED BY <1>1, <4>1, <4>2
    <3>6. Enough(q, Sharing!Excepted(e, q), moves + 1)
      BY <3>5, SharingFacts, EnoughForgotten
    <3>7. excepted' = Sharing!Excepted(e, q)
      BY <1>7, <2>1, <2>3, <3>2
    <3>8. Enough(shared', excepted', moves + 1) /\ Numbered(shared, shared', moves + 1)
      BY <2>1, <3>3, <3>4, <3>6, <3>7, NumberedTwice
    <3> QED BY <1>1, <1>5, <3>8, Moved, SharingRoutes
  <2> QED BY <1>7, <2>1, <2>2, <2>3, AcceptedSome
<1> QED BY <1>3, <1>6, <1>7

\* Routes with the keys there were, and none that is heard or fed anew.
LEMMA Renewed ==
  ASSUME NEW rs, NEW q, NEW n \in Nat, NEW es, Enough(rs, es, n), limit \in Nat,
         \A x \in q : /\ x.status \in Sharing!Statuses
                      /\ \E r \in rs : /\ Sharing!Key(r) = Sharing!Key(x)
                                       /\ x.status # "paused" => r.status # "paused"
  PROVE  Enough(q, es, n) /\ Numbered(rs, q, n)
<1>1. ASSUME NEW x \in q
      PROVE  /\ Sharing!Key(x) \in Sharing!RouteKeys
             /\ x.ours => x.id <= n
             /\ \E r \in rs : /\ Sharing!Key(r) = Sharing!Key(x) /\ r.use = x.use
                              /\ x.status # "paused" => r.status # "paused"
  <2>1. PICK r \in rs : /\ Sharing!Key(r) = Sharing!Key(x)
                        /\ x.status # "paused" => r.status # "paused"
    OBVIOUS
  <2>2. Sharing!Key(r) \in Sharing!RouteKeys /\ (r.ours => r.id <= n)
    BY DEF Enough
  <2>3. /\ Sharing!Key(r).ours = r.ours /\ Sharing!Key(r).id = r.id
        /\ Sharing!Key(r).use = r.use
    BY KeyParts
  <2>4. /\ Sharing!Key(x).ours = x.ours /\ Sharing!Key(x).id = x.id
        /\ Sharing!Key(x).use = x.use
    BY KeyParts
  <2> QED BY <2>1, <2>2, <2>3, <2>4
<1>2. Hear(q) \subseteq Hear(rs)
  <2> SUFFICES ASSUME NEW k \in Hear(q) PROVE k \in Hear(rs)
    OBVIOUS
  <2>1. PICK x \in q : k = Sharing!Key(x) /\ x.use = "send" /\ x.status # "paused"
    BY HearFeed
  <2>2. PICK r \in rs : Sharing!Key(r) = k /\ r.use = "send" /\ r.status # "paused"
    BY <1>1, <2>1
  <2> QED BY <2>2, HearFeed
<1>3. Feed(q) \subseteq Feed(rs)
  <2> SUFFICES ASSUME NEW k \in Feed(q) PROVE k \in Feed(rs)
    OBVIOUS
  <2>1. PICK x \in q : k = Sharing!Key(x) /\ x.use = "feed"
    BY HearFeed
  <2>2. PICK r \in rs : Sharing!Key(r) = k /\ r.use = "feed"
    BY <1>1, <2>1
  <2> QED BY <2>2, HearFeed
<1>4. IsFiniteSet(Hear(q))
  BY <1>2, FS_Subset DEF Enough
<1>5. Hear(q) \ es \subseteq Hear(rs) \ es /\ Feed(q) \ es \subseteq Feed(rs) \ es
  BY <1>2, <1>3
<1>6. /\ \A x \in q : Sharing!Key(x) \in Sharing!RouteKeys /\ x.status \in Sharing!Statuses
      /\ \A x \in q : x.ours => x.id <= n
  BY <1>1
<1>7. Enough(q, es, n)
  BY <1>4, <1>5, <1>6, EnoughStill
<1>8. Numbered(rs, q, n)
  BY DEF Numbered
<1> QED BY <1>7, <1>8

\* A route goes on with its key.
LEMMA SharingProceed ==
  ASSUME Sharing!Inv, NEW r \in shared, Sharing!Proceed(r)
  PROVE  Sharing!Inv'
<1>1. PICK next \in {"starting", "active"} :
        /\ r.status = IF next = "starting" THEN "requesting" ELSE "starting"
        /\ shared' = (shared \ {r}) \cup {Sharing!Route(Sharing!Key(r), next)}
  BY DEF Sharing!Proceed
<1>2. UNCHANGED <<linked, prompts, limit, excepted, Sharing!autoMic, moves>>
  BY DEF Sharing!Proceed
<1>3. PICK y : y = Sharing!Route(Sharing!Key(r), next)
  OBVIOUS
<1>4. \A x \in shared : Sharing!Key(x) \in Sharing!RouteKeys /\ x.status \in Sharing!Statuses
  BY SharingFacts DEF Enough
<1>5. Sharing!Key(y) = Sharing!Key(r) /\ y.status = next
  BY <1>3, <1>4, RouteParts
<1>6. PICK q : q = (shared \ {r}) \cup {y}
  OBVIOUS
<1>7. ASSUME NEW x \in q
      PROVE  /\ x.status \in Sharing!Statuses
             /\ \E s \in shared : /\ Sharing!Key(s) = Sharing!Key(x)
                                  /\ x.status # "paused" => s.status # "paused"
  <2>1. CASE x = y
    BY <1>1, <1>5, <2>1 DEF Sharing!Statuses
  <2>2. CASE x \in shared
    BY <1>4, <2>2
  <2> QED BY <1>6, <2>1, <2>2
<1>8. Enough(q, excepted, moves + 1) /\ Numbered(shared, q, moves + 1)
  BY <1>7, SharingFacts, Renewed
<1>9. shared' = q
  BY <1>1, <1>3, <1>6
<1>10. Enough(shared', excepted', moves + 1) /\ Numbered(shared, shared', moves + 1)
  BY <1>2, <1>8, <1>9
<1> QED BY <1>2, <1>10, SharingFacts, SharingRoutes

\* pause_routes_for
LEMMA SharingLost ==
  ASSUME Sharing!Inv, NEW p \in Peers, Sharing!Lost(p)
  PROVE  Sharing!Inv'
<1>1. PICK kept \in SUBSET shared :
        shared' = {r \in shared : r.peer # p}
                    \cup {Sharing!Route(Sharing!Key(r), "paused") : r \in kept}
  BY DEF Sharing!Lost
<1>2. /\ Sharing!Turn /\ linked' = linked \ {p}
      /\ excepted' = Sharing!Excepted(excepted, shared')
      /\ UNCHANGED <<prompts, limit, Sharing!autoMic>>
  BY DEF Sharing!Lost
<1>3. \A x \in shared : Sharing!Key(x) \in Sharing!RouteKeys /\ x.status \in Sharing!Statuses
  BY SharingFacts DEF Enough
<1>4. PICK q : q = shared'
  OBVIOUS
<1>5. ASSUME NEW x \in q
      PROVE  /\ x.status \in Sharing!Statuses
             /\ \E s \in shared : /\ Sharing!Key(s) = Sharing!Key(x)
                                  /\ x.status # "paused" => s.status # "paused"
  <2>1. CASE x \in shared
    BY <1>3, <2>1
  <2>2. CASE \E r \in kept : x = Sharing!Route(Sharing!Key(r), "paused")
    <3>1. PICK r \in kept : x = Sharing!Route(Sharing!Key(r), "paused")
      BY <2>2
    <3>2. Sharing!Key(r) \in Sharing!RouteKeys /\ r \in shared
      BY <1>3
    <3>3. Sharing!Key(x) = Sharing!Key(r) /\ x.status = "paused"
      BY <3>1, <3>2, RouteParts
    <3> QED BY <3>2, <3>3 DEF Sharing!Statuses
  <2> QED BY <1>1, <1>4, <2>1, <2>2
<1>6. Enough(q, excepted, moves + 1) /\ Numbered(shared, q, moves + 1)
  BY <1>5, SharingFacts, Renewed
<1>7. Enough(q, Sharing!Excepted(excepted, q), moves + 1)
  BY <1>6, SharingFacts, EnoughForgotten
<1>8. Enough(shared', excepted', moves + 1) /\ Numbered(shared, shared', moves + 1)
  BY <1>2, <1>4, <1>6, <1>7
<1>9. /\ linked' \subseteq Peers /\ prompts' \subseteq Sharing!RouteKeys
      /\ \A k \in prompts' : ~k.ours
  BY <1>2, SharingFacts
<1> QED BY <1>2, <1>8, <1>9, Moved, SharingRoutes

\* resume_routes, for one use
LEMMA ResumedEnough ==
  ASSUME NEW rs, NEW p \in Peers, NEW u \in {"send", "feed"}, moves \in Nat, limit \in Nat,
         NEW es, Enough(rs, es, moves + 1), NEW q, q = Sharing!Resumed(rs, p, u)
  PROVE  Enough(q, es, moves + 1) /\ Numbered(rs, q, moves + 1)
<1>1. PICK out \in SUBSET rs :
        \/ q = rs \/ q = out
        \/ /\ q = out \cup {Sharing!Route(Sharing!Own(p, u), "requesting")}
           /\ IF u = "send" THEN Sharing!Room(out) ELSE Sharing!FeedFree(out, p)
  <2>1. PICK out : out = {r \in rs : ~(r.peer = p /\ r.use = u /\ r.ours /\ r.status = "paused")}
    OBVIOUS
  <2>2. q = LET free == IF u = "send" THEN Sharing!Room(out) ELSE Sharing!FeedFree(out, p)
            IN IF out = rs THEN rs
               ELSE IF Sharing!Has(out, p, u) THEN out
               ELSE IF free THEN out \cup {Sharing!Route(Sharing!Own(p, u), "requesting")}
               ELSE rs
    BY <2>1 DEF Sharing!Resumed
  <2> QED BY <2>1, <2>2
<1>2. PICK k : k = Sharing!Own(p, u)
  OBVIOUS
<1>3. /\ k \in Sharing!RouteKeys /\ k.ours /\ k.id = moves + 1 /\ k.use = u /\ k.peer = p
      /\ "requesting" \in Sharing!Statuses
  BY <1>2, OwnKey
<1>4. PICK n \in Nat : n = moves + 1
  OBVIOUS
<1>5. Enough(out, es, n) /\ Numbered(rs, out, n)
  BY <1>4, Fewer
<1>6. CASE q = rs \/ q = out
  BY <1>4, <1>5, <1>6 DEF Numbered
<1>7. CASE /\ q = out \cup {Sharing!Route(k, "requesting")} /\ u = "send"
           /\ Sharing!Room(out)
  <2>1. Cardinality(Hear(out)) < limit
    BY <1>7, CountSame DEF Sharing!Room, Hear
  <2>2. Feed(out) \ es \subseteq Feed(out) \ es
    OBVIOUS
  <2>3. Enough(q, es, n) /\ Numbered(out, q, n)
    BY <1>3, <1>4, <1>5, <1>7, <2>1, <2>2, EnoughHear
  <2> QED BY <1>4, <1>5, <2>3, NumberedTwice
<1>8. CASE /\ q = out \cup {Sharing!Route(k, "requesting")} /\ u = "feed"
           /\ Sharing!FeedFree(out, p)
  <2>1. \A j \in Feed(out) \ es : j.peer = k.peer
    BY <1>3, <1>8, HearFeed DEF Sharing!FeedFree
  <2>2. Hear(out) \ es \subseteq Hear(out) \ es
    OBVIOUS
  <2>3. Enough(q, es, n) /\ Numbered(out, q, n)
    BY <1>3, <1>4, <1>5, <1>8, <2>1, <2>2, EnoughFeed, ZenonT(60)
  <2> QED BY <1>4, <1>5, <2>3, NumberedTwice
<1> QED BY <1>1, <1>2, <1>6, <1>7, <1>8

LEMMA SharingFound ==
  ASSUME Sharing!Inv, NEW p \in Peers, Sharing!Found(p)
  PROVE  Sharing!Inv'
<1>1. /\ Sharing!Turn /\ linked' = linked \cup {p}
      /\ shared' = Sharing!Resumed(Sharing!Resumed(shared, p, "send"), p, "feed")
      /\ excepted' = Sharing!Excepted(excepted, shared')
      /\ UNCHANGED <<prompts, limit, Sharing!autoMic>>
  BY DEF Sharing!Found
<1>2. PICK u \in {"send", "feed"} : u = "send"
  OBVIOUS
<1>3. PICK v \in {"send", "feed"} : v = "feed"
  OBVIOUS
<1>4. PICK r : r = Sharing!Resumed(shared, p, u)
  OBVIOUS
<1>5. PICK q : q = Sharing!Resumed(r, p, v)
  OBVIOUS
<1>6. Enough(r, excepted, moves + 1) /\ Numbered(shared, r, moves + 1)
  BY <1>4, SharingFacts, ResumedEnough
<1>7. Enough(q, excepted, moves + 1) /\ Numbered(r, q, moves + 1)
  BY <1>5, <1>6, SharingFacts, ResumedEnough
<1>8. Enough(q, Sharing!Excepted(excepted, q), moves + 1) /\ Numbered(shared, q, moves + 1)
  BY <1>6, <1>7, SharingFacts, EnoughForgotten, NumberedTwice
<1>9. shared' = q
  BY <1>1, <1>2, <1>3, <1>4, <1>5
<1>10. Enough(shared', excepted', moves + 1) /\ Numbered(shared, shared', moves + 1)
  BY <1>1, <1>8, <1>9
<1>11. /\ linked' \subseteq Peers /\ prompts' \subseteq Sharing!RouteKeys
       /\ \A k \in prompts' : ~k.ours
  BY <1>1, SharingFacts
<1> QED BY <1>1, <1>10, <1>11, Moved, SharingRoutes

\* An app starts or stops to record: the next use is another one.
LEMMA SharingRecords ==
  ASSUME Sharing!Inv, Sharing!Records
  PROVE  Sharing!Inv'
<1>1. /\ Sharing!Turn /\ recording' = ~recording /\ declined' = FALSE
      /\ UNCHANGED <<linked, shared, prompts, limit, excepted, auto, handled>>
  BY DEF Sharing!Records, Sharing!shared
<1>2. /\ auto' \in Sharing!RouteKeys \cup {Sharing!NoAuto} /\ auto'.ours /\ auto.id <= moves + 1
      /\ auto.id \in Nat /\ moves \in Nat /\ moves' = moves + 1 /\ auto' = auto
      /\ recording' \in BOOLEAN /\ handled' \in BOOLEAN /\ declined' \in BOOLEAN
  <2>1. /\ auto \in Sharing!RouteKeys \cup {Sharing!NoAuto} /\ auto.ours /\ auto.id <= moves + 1
        /\ moves \in Nat /\ recording \in BOOLEAN /\ handled \in BOOLEAN
    BY DEF Sharing!Inv
  <2>2. auto.id \in Nat
    BY <2>1 DEF Sharing!RouteKeys, Sharing!NoAuto
  <2>3. moves' = moves + 1
    BY <1>1 DEF Sharing!Turn
  <2>4. recording' \in BOOLEAN /\ handled' \in BOOLEAN /\ declined' \in BOOLEAN
    BY <1>1, <2>1
  <2> QED BY <1>1, <2>1, <2>2, <2>3, <2>4
<1>3. auto'.id <= moves' + 1
  BY <1>2
<1>4. Enough(shared', excepted', moves + 1)
  BY <1>1, SharingFacts
<1>5. /\ linked' \subseteq Peers /\ prompts' \subseteq Sharing!RouteKeys
      /\ \A k \in prompts' : ~k.ours
  BY <1>1, SharingFacts
<1>6. declined' => Sharing!Stopped'
  BY <1>1
<1> QED BY <1>1, <1>2, <1>3, <1>4, <1>5, <1>6, Moved, SharingAfter

\* The device that is asked to be the microphone is one.
LEMMA CandidateTypes ==
  ASSUME linked \subseteq Peers, Sharing!Candidate # NoPeer
  PROVE  Sharing!Candidate \in Peers
<1>1. Sharing!Cardinality({}) = 0
  BY CountSame, FS_EmptySet
<1>2. CASE lastPeer \in linked
  BY <1>2 DEF Sharing!Candidate
<1>3. CASE lastPeer \notin linked /\ Sharing!Cardinality(linked) = 1
  <2>1. linked # {}
    BY <1>1, <1>3
  <2> QED BY <1>3, <2>1 DEF Sharing!Candidate
<1> QED BY <1>2, <1>3 DEF Sharing!Candidate

\* check_virtual_mic_use
LEMMA SharingPoll ==
  ASSUME Sharing!Inv, Sharing!Poll
  PROVE  Sharing!Inv'
<1>1. UNCHANGED <<linked, prompts, limit, recording, moves>>
  BY DEF Sharing!Poll
<1>2. excepted' = Sharing!Excepted(excepted, shared')
  BY DEF Sharing!Poll
<1>3. PICK mine \in {auto, Sharing!NoAuto} :
         \/ handled' = FALSE /\ declined' = FALSE /\ UNCHANGED <<shared, auto>>
         \/ /\ recording /\ declined' = declined
            /\ handled' \in {handled, TRUE} /\ auto' = mine /\ UNCHANGED shared
         \/ /\ ~handled /\ declined' = declined /\ Sharing!Candidate # NoPeer
            /\ Sharing!AutoStart
         \/ /\ ~recording /\ handled' = FALSE /\ declined' = declined
            /\ auto' \in {Sharing!NoAuto, mine} /\ UNCHANGED shared
         \/ /\ ~recording /\ handled' = FALSE /\ declined' = declined
            /\ auto' = Sharing!NoAuto /\ shared' = Sharing!Drop(shared, mine)
  <2>1. PICK key \in Sharing!FeedKeys :
       LET mine == IF auto # key THEN Sharing!NoAuto ELSE auto IN
       IF auto = Sharing!NoAuto /\ linked = {}
       THEN handled' = FALSE /\ declined' = FALSE /\ UNCHANGED <<shared, auto, unused>>
       ELSE IF recording
       THEN /\ unused' = 0 /\ UNCHANGED declined
            /\ IF ~Sharing!Reacts \/ key # Sharing!NoAuto \/ Sharing!Candidate = NoPeer
               THEN /\ handled' = (handled \/ key # Sharing!NoAuto) /\ auto' = mine
                    /\ UNCHANGED shared
               ELSE Sharing!AutoStart
       ELSE /\ handled' = FALSE /\ UNCHANGED declined
            /\ IF mine = Sharing!NoAuto
               THEN auto' = Sharing!NoAuto /\ UNCHANGED <<shared, unused>>
               ELSE IF unused < IdlePolls
               THEN unused' = unused + 1 /\ auto' = mine /\ UNCHANGED shared
               ELSE /\ unused' = 0 /\ auto' = Sharing!NoAuto
                    /\ shared' = Sharing!Drop(shared, mine)
    BY DEF Sharing!Poll
  <2>2. PICK mine : mine = IF auto # key THEN Sharing!NoAuto ELSE auto
    OBVIOUS
  <2>3. mine \in {auto, Sharing!NoAuto} /\ handled \in BOOLEAN /\ recording \in BOOLEAN
    BY <2>2 DEF Sharing!Inv
  <2>4. CASE auto = Sharing!NoAuto /\ linked = {}
    BY <2>1, <2>3, <2>4
  <2>5. CASE ~(auto = Sharing!NoAuto /\ linked = {}) /\ recording
    <3>1. (handled \/ key # Sharing!NoAuto) \in {handled, TRUE}
      BY <2>3
    <3>2. CASE ~Sharing!Reacts \/ key # Sharing!NoAuto \/ Sharing!Candidate = NoPeer
      BY <2>1, <2>2, <2>3, <2>5, <3>1, <3>2
    <3>3. CASE ~(~Sharing!Reacts \/ key # Sharing!NoAuto \/ Sharing!Candidate = NoPeer)
      BY <2>1, <2>3, <2>5, <3>3 DEF Sharing!Reacts
    <3> QED BY <3>2, <3>3
  <2>6. CASE ~(auto = Sharing!NoAuto /\ linked = {}) /\ ~recording
    BY <2>1, <2>2, <2>3, <2>6
  <2> QED BY <2>3, <2>4, <2>5, <2>6
<1>4. /\ auto \in Sharing!RouteKeys \cup {Sharing!NoAuto} /\ auto.ours /\ auto.id <= moves + 1
      /\ recording \in BOOLEAN /\ handled \in BOOLEAN /\ declined \in BOOLEAN
      /\ declined => recording /\ handled
  BY DEF Sharing!Inv, Sharing!Stopped
<1>5. Sharing!NoAuto.ours /\ Sharing!NoAuto.id <= moves + 1
  <2>1. Sharing!NoAuto.ours /\ Sharing!NoAuto.id = 0
    BY DEF Sharing!NoAuto
  <2> QED BY <2>1, SharingFacts
<1>6. /\ linked' \subseteq Peers /\ prompts' \subseteq Sharing!RouteKeys
      /\ \A k \in prompts' : ~k.ours
      /\ limit' = limit /\ moves' = moves /\ moves' \in {moves, moves + 1}
      /\ recording' \in BOOLEAN /\ recording' = recording
  BY <1>1, <1>4, SharingFacts
<1>7. ASSUME shared' \subseteq shared, auto' \in {auto, Sharing!NoAuto},
             handled' \in BOOLEAN, declined' \in BOOLEAN, declined' => Sharing!Stopped'
      PROVE  Sharing!Inv'
  <2>1. Enough(shared', excepted', moves + 1)
    BY <1>2, <1>7, LessEnough
  <2>2. /\ auto' \in Sharing!RouteKeys \cup {Sharing!NoAuto} /\ auto'.ours
        /\ auto'.id <= moves' + 1
    BY <1>4, <1>5, <1>6, <1>7
  <2> QED BY <1>6, <1>7, <2>1, <2>2, SharingAfter
<1>8. CASE handled' = FALSE /\ declined' = FALSE /\ UNCHANGED <<shared, auto>>
  BY <1>7, <1>8
<1>9. CASE /\ recording /\ declined' = declined
           /\ handled' \in {handled, TRUE} /\ auto' = mine /\ UNCHANGED shared
  <2>1. ASSUME declined' PROVE Sharing!Stopped'
    <3>1. declined /\ handled
      BY <1>4, <1>9, <2>1
    <3>2. handled'
      <4>1. handled = TRUE
        BY <1>4, <3>1
      <4> QED BY <1>9, <4>1
    <3>3. Numbered(shared, shared', moves + 1)
      BY <1>9, SharingFacts
    <3> QED BY <1>6, <1>9, <3>1, <3>2, <3>3, StillStopped
  <2>2. handled' \in BOOLEAN /\ declined' \in BOOLEAN
    BY <1>4, <1>9
  <2> QED BY <1>7, <1>9, <2>1, <2>2
<1>10. CASE /\ ~handled /\ declined' = declined /\ Sharing!Candidate # NoPeer
            /\ Sharing!AutoStart
  <2>1. PICK p \in Peers : p = Sharing!Candidate
    BY <1>10, CandidateTypes, SharingFacts
  <2>2. PICK u \in {"send", "feed"} : u = "feed"
    OBVIOUS
  <2>3. PICK replace \in BOOLEAN : replace = FALSE
    OBVIOUS
  <2>4. PICK q : q = shared'
    OBVIOUS
  <2>5. /\ handled' = TRUE /\ q \in Sharing!Started(shared, p, u, replace)
        /\ auto' \in {Sharing!NoAuto, Sharing!Own(p, u)}
    BY <1>10, <2>1, <2>2, <2>3, <2>4 DEF Sharing!AutoStart
  <2>6. Enough(q, excepted, moves + 1)
    BY <2>3, <2>5, SharingFacts, StartedEnough
  <2>7. Enough(shared', excepted', moves + 1)
    BY <1>2, <2>4, <2>6, SharingFacts, EnoughForgotten
  <2>8. PICK k : k = Sharing!Own(p, u)
    OBVIOUS
  <2>9. k \in Sharing!RouteKeys /\ k.ours /\ k.id = moves + 1
    BY <2>8, SharingFacts, OwnKey
  <2>10. k.id <= moves' + 1
    BY <1>6, <2>9, SharingFacts
  <2>11. /\ auto' \in Sharing!RouteKeys \cup {Sharing!NoAuto} /\ auto'.ours
         /\ auto'.id <= moves' + 1
    BY <1>5, <1>6, <2>5, <2>8, <2>9, <2>10
  <2>12. handled' \in BOOLEAN /\ declined' \in BOOLEAN /\ (declined' => Sharing!Stopped')
    BY <1>4, <1>10, <2>5
  <2> QED BY <1>6, <2>7, <2>11, <2>12, SharingAfter
<1>11. CASE /\ ~recording /\ handled' = FALSE /\ declined' = declined
            /\ auto' \in {Sharing!NoAuto, mine} /\ UNCHANGED shared
  BY <1>4, <1>7, <1>11
<1>12. CASE /\ ~recording /\ handled' = FALSE /\ declined' = declined
            /\ auto' = Sharing!NoAuto /\ shared' = Sharing!Drop(shared, mine)
  <2>1. shared' \subseteq shared
    BY <1>12 DEF Sharing!Drop
  <2> QED BY <1>4, <1>7, <1>12, <2>1
<1> QED BY ZenonT(60), <1>3, <1>8, <1>9, <1>10, <1>11, <1>12

LEMMA SharingNext ==
  ASSUME Sharing!Inv, Sharing!Next
  PROVE  Sharing!Inv'
<1>1. CASE \E p \in Peers, u \in Sharing!Uses : Sharing!StartRoute(p, u)
  BY <1>1, SharingStart
<1>2. CASE \E p \in Peers, u \in Sharing!Uses, n \in RequestIds :
             Sharing!RouteRequest([peer |-> p, use |-> u, ours |-> FALSE, id |-> n])
  <2>1. PICK p \in Peers, u \in Sharing!Uses, n \in RequestIds :
          Sharing!RouteRequest([peer |-> p, use |-> u, ours |-> FALSE, id |-> n])
    BY <1>2
  <2>2. PICK k : k = [peer |-> p, use |-> u, ours |-> FALSE, id |-> n]
    OBVIOUS
  <2>3. k \in Sharing!RouteKeys /\ ~k.ours
    BY <2>2, SharingNumbers DEF Sharing!RouteKeys
  <2> QED BY <2>1, <2>2, <2>3, SharingRequest
<1>3. CASE \E r \in shared : \/ Sharing!StopRoute(r) \/ Sharing!Proceed(r)
                             \/ Sharing!RouteEnds(r)
  BY <1>3, SharingStop, SharingProceed, SharingEnds
<1>4. CASE \E k \in prompts : Sharing!Respond(k)
  BY <1>4, SharingRespond
<1>5. CASE \E p \in Peers : Sharing!Lost(p) \/ Sharing!Found(p)
  BY <1>5, SharingLost, SharingFound
<1> QED BY <1>1, <1>2, <1>3, <1>4, <1>5, SharingLimit, SharingRecords, SharingPoll
    DEF Sharing!Next

LEMMA SharingStays ==
  ASSUME Sharing!Inv, UNCHANGED sharingVars
  PROVE  Sharing!Inv'
<1> USE DEF sharingVars
<1>1. /\ linked' \subseteq Peers /\ prompts' \subseteq Sharing!RouteKeys
      /\ \A k \in prompts' : ~k.ours /\ Numbered(shared, shared', moves + 1)
      /\ Enough(shared', excepted', moves + 1) /\ moves' \in {moves, moves + 1}
      /\ limit' = limit
  BY SharingFacts
<1>2. Numbered(shared, shared', moves + 1)
  BY SharingFacts
<1>3. UNCHANGED Sharing!autoMic
  BY DEF Sharing!autoMic
<1> QED BY <1>1, <1>2, <1>3, SharingRoutes

\* The stopped route is not one that feeds the virtual microphone.
LEMMA SharingWished == Sharing!Inv => Sharing!Shared /\ Sharing!StaysStopped
<1> SUFFICES ASSUME Sharing!Inv, declined, auto # Sharing!NoAuto,
                    auto \in Sharing!Feeds(shared)
             PROVE  FALSE
  BY DEF Sharing!Inv, Sharing!StaysStopped
<1>1. PICK r \in shared : auto = Sharing!Key(r)
  BY HearFeed DEF Feed
<1>2. \A x \in shared : Sharing!Key(x) # auto
  BY DEF Sharing!Inv, Sharing!Stopped
<1> QED BY <1>1, <1>2

----------------------------------------------------------------------------
(* The sound server.                                                       *)

\* The names of sinks differ from each other and from the mark of none.
LEMMA SinkNames ==
  /\ SoundServer!Spk \notin Real /\ SoundServer!Spk \notin SoundServer!Caps /\ SoundServer!None \notin SoundServer!Sinks
  /\ \A x \in Real : x \notin SoundServer!Caps
  /\ SoundServer!Sinks = Real \cup SoundServer!Caps \cup {SoundServer!Spk} /\ SoundServer!Inputs = Streams \cup SoundServer!Caps
  /\ \A n \in DOMAIN CaptureSinks : CaptureSinks[n] \in SoundServer!Caps
  /\ \A m, n \in DOMAIN CaptureSinks : CaptureSinks[m] = CaptureSinks[n] => m = n
  BY SinksApart DEF SoundServer!Spk, SoundServer!Caps, SoundServer!None, SoundServer!Sinks, SoundServer!Inputs

\* What the invariant says of types.
LEMMA ServerTypes ==
  ASSUME SoundServer!Inv
  PROVE  /\ up \in BOOLEAN /\ run \in DOMAIN CaptureSinks /\ mark \in BOOLEAN
         /\ sinks \subseteq SoundServer!Sinks /\ default \in sinks
         /\ restore \in Real \cup SoundServer!Caps \cup {SoundServer!None}
         /\ at \in [SoundServer!Inputs -> sinks \cup {SoundServer!None}]
         /\ muter \in SoundServer!Muter /\ worker \in [SoundServer!Workers -> SoundServer!Worker]
         /\ moved \in [Streams -> SoundServer!Sinks \cup {SoundServer!None}]
         /\ playback \in SoundServer!Sinks \cup {SoundServer!None}
         /\ torn \in BOOLEAN /\ requests \in 0 .. ServerTurns
         /\ failures \in 0 .. ServerFailures
         /\ Real \cap sinks # {} /\ SoundServer!OwnSink \in SoundServer!Caps
  BY SinkNames DEF SoundServer!Inv, SoundServer!TypeOK, SoundServer!OwnSink

\* A call of the thread that mutes, and a step of a worker, have their types.
LEMMA MuterCalls ==
  ASSUME NEW to \in SoundServer!Sinks \cup {SoundServer!None}, NEW todo \in SUBSET SoundServer!Inputs,
         NEW step \in {"idle", "load", "default", "list", "move", "undefault", "unlist",
                       "unmove"},
         SoundServer!Call(step, to, todo)
  PROVE  /\ muter' \in SoundServer!Muter
         /\ muter'.pc = step /\ muter'.to = to /\ muter'.todo = todo
  BY DEF SoundServer!Call, SoundServer!Muter

LEMMA IdleCall == SoundServer!Idle \in SoundServer!Muter /\ SoundServer!Idle.pc = "idle"
  BY DEF SoundServer!Idle, SoundServer!Muter

WorkerSteps == {"off", "wait", "scan", "release", "putback", "unsink", "open", "loop", "route",
          "moving", "record"}

LEMMA OffWorker == SoundServer!Off \in SoundServer!Worker /\ SoundServer!Off.pc = "off" /\ SoundServer!Off.sink = SoundServer!None
  BY DEF SoundServer!Off, SoundServer!Worker

LEMMA StepsTo ==
  ASSUME worker \in [SoundServer!Workers -> SoundServer!Worker], NEW w \in SoundServer!Workers, NEW step \in WorkerSteps,
         NEW todo \in SUBSET Streams, SoundServer!Step(w, step, todo)
  PROVE  /\ worker' \in [SoundServer!Workers -> SoundServer!Worker]
         /\ worker'[w].pc = step /\ worker'[w].sink = worker[w].sink
         /\ worker'[w].todo = todo
         /\ \A v \in SoundServer!Workers : v # w => worker'[v] = worker[v]
<1>1. worker' = [worker EXCEPT ![w] = [worker[w] EXCEPT !.pc = step, !.todo = todo]]
  BY DEF SoundServer!Step
<1>2. [worker[w] EXCEPT !.pc = step, !.todo = todo] \in SoundServer!Worker
  BY DEF SoundServer!Worker, WorkerSteps
<1> QED BY <1>1, <1>2 DEF SoundServer!Worker

LEMMA BecomesWorker ==
  ASSUME worker \in [SoundServer!Workers -> SoundServer!Worker], NEW w \in SoundServer!Workers, NEW x \in SoundServer!Worker,
         worker' = [worker EXCEPT ![w] = x]
  PROVE  /\ worker' \in [SoundServer!Workers -> SoundServer!Worker] /\ worker'[w] = x
         /\ \A v \in SoundServer!Workers : v # w => worker'[v] = worker[v]
  OBVIOUS

\* Streams stay on sinks there are when one moves, and when a sink is unloaded.
LEMMA StreamMoves ==
  ASSUME at \in [SoundServer!Inputs -> sinks \cup {SoundServer!None}], NEW i \in SoundServer!Inputs, NEW x,
         SoundServer!Move(i, x)
  PROVE  at' \in [SoundServer!Inputs -> sinks \cup {SoundServer!None}]
  BY DEF SoundServer!Move

LEMMA SinkUnloads ==
  ASSUME SoundServer!Inv, NEW x, Real \cap (sinks \ {x}) # {}, SoundServer!Unload(x)
  PROVE  /\ sinks' = sinks \ {x} /\ default' \in sinks'
         /\ at' \in [SoundServer!Inputs -> sinks' \cup {SoundServer!None}]
<1>1. SoundServer!AnyReal(sinks \ {x}) \in sinks \ {x}
  BY DEF SoundServer!AnyReal
<1>2. sinks' = sinks \ {x} /\ default' \in sinks'
  BY <1>1, ServerTypes DEF SoundServer!Unload
<1>3. at' = [i \in SoundServer!Inputs |-> IF i = x THEN SoundServer!None ELSE IF at[i] = x THEN default' ELSE at[i]]
  BY DEF SoundServer!Unload
<1>4. ASSUME NEW i \in SoundServer!Inputs PROVE at'[i] \in sinks' \cup {SoundServer!None}
  BY <1>2, <1>3, ServerTypes
<1> QED BY <1>2, <1>3, <1>4

LEMMA RealUnlessUnloaded ==
  ASSUME SoundServer!Inv, NEW x, x \notin Real
  PROVE  Real \cap (sinks \ {x}) # {}
  BY ServerTypes

\* While sinks of runs that crashed are left, a thread is on its way to one; and runs to come
\* have no sinks yet.
Cleaning == up /\ SoundServer!Stale # {} => \E w \in SoundServer!Workers : SoundServer!Cleans(w)
Unused == \A n \in DOMAIN CaptureSinks : n > run => CaptureSinks[n] \notin sinks

\* A step of the thread that mutes leaves captures alone, and the other way round.
LEMMA CapturesApart ==
  ASSUME SoundServer!Inv, UNCHANGED <<up, run, worker>>,
         \A c \in SoundServer!Caps : c \in sinks' <=> c \in sinks,
         SoundServer!TypeOK', Real \cap sinks' # {}, SoundServer!Speakers', ~up => muter' = SoundServer!Idle
  PROVE  SoundServer!Inv'
<1>1. SoundServer!Stale' = SoundServer!Stale /\ SoundServer!OwnSink' = SoundServer!OwnSink
  BY DEF SoundServer!Stale, SoundServer!OwnSink
<1>2. SoundServer!Own'
  BY <1>1, ServerTypes DEF SoundServer!Inv, SoundServer!Own
<1>3. \A w \in SoundServer!Workers : SoundServer!Cleans(w)' = SoundServer!Cleans(w)
  BY <1>1 DEF SoundServer!Cleans
<1>4. Unused'
  BY SinkNames DEF SoundServer!Inv, Unused
<1> QED BY <1>1, <1>2, <1>3, <1>4 DEF SoundServer!Inv, Unused

LEMMA SpeakersApart ==
  ASSUME SoundServer!Inv, up, UNCHANGED <<up, run, mark, muter, torn>>,
         SoundServer!Spk \in sinks' <=> SoundServer!Spk \in sinks,
         \A n \in DOMAIN CaptureSinks : n > run => CaptureSinks[n] \notin sinks',
         SoundServer!TypeOK', Real \cap sinks' # {}, SoundServer!Own', Cleaning'
  PROVE  SoundServer!Inv'
<1>1. SoundServer!Speakers'
  BY DEF SoundServer!Inv, SoundServer!Speakers
<1> QED BY <1>1 DEF SoundServer!Inv, Cleaning

\* The count of the standard module, in an instance of SoundServer.
LEMMA CountsSame == \A X : SoundServer!Cardinality(X) = Cardinality(X)
  BY DEF SoundServer!Cardinality, Cardinality

\* What the user and other programs do.
LEMMA ServerOthers ==
  ASSUME SoundServer!Inv, SoundServer!Others
  PROVE  SoundServer!Inv'
<1>0. /\ UNCHANGED <<up, run, mark, restore, muter, worker, moved, playback, torn, failures>>
      /\ requests' \in 0 .. ServerTurns
  BY ServerTypes, ServerNumbers DEF SoundServer!Others, SoundServer!app, SoundServer!routing, SoundServer!Turn
<1>1. CASE sinks' = sinks /\ default' \in sinks /\ at' \in [SoundServer!Inputs -> sinks \cup {SoundServer!None}]
  <2>1. SoundServer!TypeOK'
    BY <1>0, <1>1 DEF SoundServer!Inv, SoundServer!TypeOK
  <2>2. SoundServer!Speakers'
    BY <1>0, <1>1 DEF SoundServer!Inv, SoundServer!Speakers
  <2> QED BY <1>0, <1>1, <2>1, <2>2, CapturesApart, ServerTypes DEF SoundServer!Inv
<1>2. ASSUME NEW d \in Real \cap sinks, SoundServer!Cardinality(Real \cap sinks) > 1, SoundServer!Unload(d)
      PROVE  SoundServer!Inv'
  <2>1. Real \cap (sinks \ {d}) # {}
    <3>1. SoundServer!Cardinality({d}) = 1
      BY FS_Singleton, CountsSame
    <3>2. Real \cap sinks # {d}
      BY <1>2, <3>1
    <3> QED BY <3>2
  <2>2. /\ sinks' = sinks \ {d} /\ default' \in sinks'
        /\ at' \in [SoundServer!Inputs -> sinks' \cup {SoundServer!None}]
    BY <1>2, <2>1, SinkUnloads
  <2>3. SoundServer!TypeOK'
    BY <1>0, <2>2, ServerTypes DEF SoundServer!TypeOK
  <2>4. SoundServer!Speakers'
    BY <1>0, <1>2, <2>2, SinkNames DEF SoundServer!Inv, SoundServer!Speakers
  <2> QED BY <1>0, <1>2, <2>1, <2>2, <2>3, <2>4, SinkNames, CapturesApart DEF SoundServer!Inv
<1>3. ASSUME NEW s \in Streams,
             at' = [at EXCEPT ![s] = IF at[s] = SoundServer!None THEN default ELSE SoundServer!None],
             UNCHANGED <<default, sinks>>
      PROVE  SoundServer!Inv'
  BY <1>1, <1>3, ServerTypes, SinkNames
<1>4. ASSUME NEW d \in Real \cap sinks, default' = d, UNCHANGED <<sinks, at>>
      PROVE  SoundServer!Inv'
  BY <1>1, <1>4, ServerTypes
<1> QED BY <1>2, <1>3, <1>4 DEF SoundServer!Others

\* The thread that mutes: what each of its steps keeps.
LEMMA MutersKeep ==
  ASSUME SoundServer!Inv, UNCHANGED <<up, run, worker, moved, playback>>,
         up, mark' \in BOOLEAN, torn' \in BOOLEAN, sinks' \in SUBSET SoundServer!Sinks,
         default' \in sinks', restore' \in Real \cup SoundServer!Caps \cup {SoundServer!None},
         at' \in [SoundServer!Inputs -> sinks' \cup {SoundServer!None}], muter' \in SoundServer!Muter,
         requests' \in 0 .. ServerTurns, failures' \in 0 .. ServerFailures,
         \A x \in SoundServer!Sinks : x # SoundServer!Spk => (x \in sinks' <=> x \in sinks),
         SoundServer!Speakers'
  PROVE  SoundServer!Inv'
<1>1. SoundServer!TypeOK'
  BY ServerTypes DEF SoundServer!TypeOK
<1>2. Real \cap sinks' # {} /\ \A c \in SoundServer!Caps : c \in sinks' <=> c \in sinks
  BY ServerTypes, SinkNames
<1> QED BY <1>1, <1>2, CapturesApart

\* The thread that mutes belongs to SoundPush.
LEMMA MutersRun ==
  ASSUME SoundServer!Inv, muter.pc # "idle"
  PROVE  up
  BY IdleCall, ServerTypes DEF SoundServer!Inv

\* Muting: the speakers' sink is loaded, made the default, and gets what plays.
LEMMA ServerMutes ==
  ASSUME SoundServer!Inv, SoundServer!Mute \/ SoundServer!MuteLoad \/ SoundServer!MuteDefault \/ SoundServer!MuteList \/ SoundServer!MuteMove
  PROVE  SoundServer!Inv'
<1>1. CASE SoundServer!Mute
  <2>1. /\ UNCHANGED <<run, up, sinks, restore, at, worker, moved, playback, torn, failures>>
        /\ up /\ muter = SoundServer!Idle /\ requests' \in 0 .. ServerTurns
    BY <1>1, ServerTypes, ServerNumbers DEF SoundServer!Mute, SoundServer!routing, SoundServer!Turn
  <2>2. CASE SoundServer!Spk \in sinks /\ default' = SoundServer!Spk /\ mark' = TRUE /\ UNCHANGED muter
    <3>1. SoundServer!Speakers'
      BY <2>1, <2>2 DEF SoundServer!Inv, SoundServer!Speakers
    <3> QED BY <2>1, <2>2, <3>1, MutersKeep, ServerTypes
  <2>3. CASE SoundServer!Spk \notin sinks /\ SoundServer!Call("load", default, {}) /\ UNCHANGED <<default, mark>>
    <3>1. /\ muter' \in SoundServer!Muter /\ muter'.pc = "load" /\ muter'.to = default
      BY <2>3, MuterCalls, ServerTypes
    <3>2. SoundServer!Speakers'
      BY <2>1, <2>3, <3>1, ServerTypes DEF SoundServer!Speakers, SoundServer!Silencing, SoundServer!Restoring
    <3> QED BY <2>1, <2>3, <3>1, <3>2, MutersKeep, ServerTypes
  <2> QED BY <1>1, <2>2, <2>3 DEF SoundServer!Mute
<1>2. CASE SoundServer!MuteLoad
  <2>1. /\ UNCHANGED <<run, up, mark, default, at, worker, moved, playback, torn, requests,
                       failures>>
        /\ up /\ muter.pc = "load" /\ muter.to # SoundServer!Spk
        /\ sinks' = sinks \cup {SoundServer!Spk} /\ restore' = muter.to
    BY <1>2, MutersRun DEF SoundServer!MuteLoad, SoundServer!app, SoundServer!routing, SoundServer!bounds, SoundServer!Inv, SoundServer!Speakers
  <2>2. muter.to \in Real \cup SoundServer!Caps \cup {SoundServer!None}
    BY <2>1, ServerTypes, SinkNames DEF SoundServer!Muter
  <2>3. muter' \in SoundServer!Muter /\ muter'.pc = "default" /\ muter'.to = muter.to
    BY <1>2, <2>2, MuterCalls, SinkNames DEF SoundServer!MuteLoad
  <2>4. SoundServer!Speakers'
    BY <2>1, <2>3 DEF SoundServer!Speakers, SoundServer!Silencing, SoundServer!Restoring
  <2>5. sinks' \in SUBSET SoundServer!Sinks /\ at \in [SoundServer!Inputs -> sinks' \cup {SoundServer!None}]
    BY <2>1, ServerTypes, SinkNames
  <2> QED BY <2>1, <2>2, <2>3, <2>4, <2>5, MutersKeep, ServerTypes
<1>3. CASE SoundServer!MuteDefault
  <2>1. /\ UNCHANGED <<run, up, mark, sinks, restore, at, worker, moved, playback, torn,
                       requests, failures>>
        /\ up /\ muter.pc = "default" /\ default' = SoundServer!Spk
        /\ SoundServer!Spk \in sinks /\ muter.to # SoundServer!Spk
    BY <1>3, MutersRun DEF SoundServer!MuteDefault, SoundServer!app, SoundServer!routing, SoundServer!bounds, SoundServer!Inv, SoundServer!Speakers,
                           SoundServer!Silencing
  <2>2. muter' \in SoundServer!Muter /\ muter'.pc = "list" /\ muter'.to = muter.to
    BY <1>3, MuterCalls, ServerTypes DEF SoundServer!MuteDefault, SoundServer!Muter
  <2>3. SoundServer!Speakers'
    BY <2>1, <2>2 DEF SoundServer!Speakers, SoundServer!Silencing, SoundServer!Restoring
  <2> QED BY <2>1, <2>2, <2>3, MutersKeep, ServerTypes
<1>4. CASE SoundServer!MuteList
  <2>1. /\ UNCHANGED <<run, up, mark, default, sinks, restore, at, worker, moved, playback,
                       torn, requests, failures>>
        /\ up /\ muter.pc = "list" /\ SoundServer!Spk \in sinks /\ muter.to # SoundServer!Spk
    BY <1>4, MutersRun DEF SoundServer!MuteList, SoundServer!app, SoundServer!server, SoundServer!routing, SoundServer!bounds, SoundServer!Inv,
                           SoundServer!Speakers, SoundServer!Silencing
  <2>2. muter' \in SoundServer!Muter /\ muter'.pc = "move" /\ muter'.to = muter.to
    BY <1>4, MuterCalls, ServerTypes DEF SoundServer!MuteList, SoundServer!Muter, SoundServer!On
  <2>3. SoundServer!Speakers'
    BY <2>1, <2>2 DEF SoundServer!Speakers, SoundServer!Silencing, SoundServer!Restoring
  <2> QED BY <2>1, <2>2, <2>3, MutersKeep, ServerTypes
<1>5. CASE SoundServer!MuteMove
  <2>1. /\ UNCHANGED <<run, up, default, sinks, restore, worker, moved, playback, torn,
                       requests, failures>>
        /\ up /\ muter.pc = "move" /\ SoundServer!Spk \in sinks /\ muter.to # SoundServer!Spk
    BY <1>5, MutersRun DEF SoundServer!MuteMove, SoundServer!routing, SoundServer!bounds, SoundServer!Inv, SoundServer!Speakers, SoundServer!Silencing
  <2>2. ASSUME NEW i \in muter.todo, SoundServer!Move(i, SoundServer!Spk),
               SoundServer!Call("move", muter.to, muter.todo \ {i}), UNCHANGED mark
        PROVE  SoundServer!Inv'
    <3>1. muter' \in SoundServer!Muter /\ muter'.pc = "move" /\ muter'.to = muter.to
      BY <2>2, MuterCalls, ServerTypes DEF SoundServer!Muter
    <3>2. at' \in [SoundServer!Inputs -> sinks \cup {SoundServer!None}]
      BY <2>2, StreamMoves, ServerTypes DEF SoundServer!Muter
    <3>3. SoundServer!Speakers'
      BY <2>1, <2>2, <3>1 DEF SoundServer!Inv, SoundServer!Speakers, SoundServer!Silencing, SoundServer!Restoring
    <3> QED BY <2>1, <2>2, <3>1, <3>2, <3>3, MutersKeep, ServerTypes
  <2>3. CASE muter' = SoundServer!Idle /\ mark' = TRUE /\ UNCHANGED at
    <3>1. SoundServer!Speakers'
      BY <2>1, <2>3, IdleCall DEF SoundServer!Speakers, SoundServer!Silencing, SoundServer!Restoring
    <3> QED BY <2>1, <2>3, <3>1, IdleCall, MutersKeep, ServerTypes
  <2> QED BY <1>5, <2>2, <2>3 DEF SoundServer!MuteMove
<1> QED BY <1>1, <1>2, <1>3, <1>4, <1>5

\* A request that is refused is undone.
LEMMA ServerRefuses ==
  ASSUME SoundServer!Inv, SoundServer!MuteFails
  PROVE  SoundServer!Inv'
<1>1. /\ UNCHANGED <<run, up, mark, worker, moved, playback, torn, requests>>
      /\ failures' \in 0 .. ServerFailures
      /\ muter.pc \in {"load", "default", "list"} /\ up
      /\ muter' = SoundServer!Idle /\ muter' \in SoundServer!Muter /\ muter'.pc = "idle"
  BY MutersRun, ServerTypes, ServerNumbers, IdleCall
  DEF SoundServer!MuteFails, SoundServer!app, SoundServer!routing, SoundServer!Fail
<1>2. CASE muter.pc = "load" /\ UNCHANGED SoundServer!server
  <2>1. UNCHANGED <<default, sinks, restore, at>>
    BY <1>2 DEF SoundServer!server
  <2>2. SoundServer!Speakers'
    BY <1>1, <1>2, <2>1 DEF SoundServer!Inv, SoundServer!Speakers, SoundServer!Silencing, SoundServer!Restoring
  <2> QED BY <1>1, <2>1, <2>2, MutersKeep, ServerTypes
<1>3. ASSUME NEW d, d = IF muter.to \in sinks THEN muter.to ELSE SoundServer!AnyReal(sinks),
             muter.pc \in {"default", "list"},
             default' = d, sinks' = sinks \ {SoundServer!Spk}, restore' = SoundServer!None,
             at' = [i \in SoundServer!Inputs |-> IF at[i] = SoundServer!Spk THEN d ELSE at[i]]
      PROVE  SoundServer!Inv'
  <2>1. SoundServer!AnyReal(sinks) \in sinks \ {SoundServer!Spk}
    BY ServerTypes, SinkNames DEF SoundServer!AnyReal
  <2>2. d \in sinks \ {SoundServer!Spk}
    BY <1>3, <2>1 DEF SoundServer!Inv, SoundServer!Speakers, SoundServer!Silencing
  <2>3. at' \in [SoundServer!Inputs -> sinks' \cup {SoundServer!None}]
    BY <1>3, <2>2, ServerTypes
  <2>4. SoundServer!Speakers'
    BY <1>1, <1>3 DEF SoundServer!Speakers, SoundServer!Silencing, SoundServer!Restoring
  <2>5. sinks' \in SUBSET SoundServer!Sinks /\ default' \in sinks'
    BY <1>3, <2>2, ServerTypes
  <2>6. \A x \in SoundServer!Sinks : x # SoundServer!Spk => (x \in sinks' <=> x \in sinks)
    BY <1>3
  <2> QED BY <1>1, <1>3, <2>3, <2>4, <2>5, <2>6, MutersKeep, ServerTypes
<1> QED BY <1>2, <1>3 DEF SoundServer!MuteFails

\* Unmuting: the default and the streams go back, and the sink is unloaded.
LEMMA UnmuteLooks ==
  ASSUME SoundServer!Inv, muter = SoundServer!Idle, SoundServer!UnmuteLook
  PROVE  /\ muter' \in SoundServer!Muter /\ mark' \in BOOLEAN
         /\ UNCHANGED <<sinks, torn>> => SoundServer!Speakers'
<1>1. CASE SoundServer!Spk \in sinks
  <2>1. SoundServer!Target \in SoundServer!Sinks
    BY ServerTypes, SinkNames DEF SoundServer!Target, SoundServer!AnyReal
  <2>2. SoundServer!Call("undefault", SoundServer!Target, {}) /\ UNCHANGED mark
    BY <1>1 DEF SoundServer!UnmuteLook
  <2>3. muter' \in SoundServer!Muter /\ muter'.pc = "undefault"
    BY <2>1, <2>2, MuterCalls
  <2> QED BY <1>1, <2>2, <2>3, ServerTypes DEF SoundServer!Speakers, SoundServer!Silencing, SoundServer!Restoring
<1>2. CASE SoundServer!Spk \notin sinks
  BY <1>2, IdleCall, ServerTypes DEF SoundServer!UnmuteLook, SoundServer!Speakers, SoundServer!Silencing, SoundServer!Restoring
<1> QED BY <1>1, <1>2

LEMMA ServerUnmutes ==
  ASSUME SoundServer!Inv, SoundServer!Unmute \/ SoundServer!UnmuteDefault \/ SoundServer!UnmuteList \/ SoundServer!UnmuteMove
  PROVE  SoundServer!Inv'
<1>1. CASE SoundServer!Unmute
  <2>1. /\ UNCHANGED <<run, up, default, sinks, restore, at, worker, moved, playback, torn,
                       failures>>
        /\ up /\ muter = SoundServer!Idle /\ SoundServer!UnmuteLook /\ requests' \in 0 .. ServerTurns
    BY <1>1, ServerTypes, ServerNumbers DEF SoundServer!Unmute, SoundServer!server, SoundServer!routing, SoundServer!Turn
  <2> QED BY <2>1, UnmuteLooks, MutersKeep, ServerTypes
<1>2. CASE SoundServer!UnmuteDefault
  <2>1. /\ UNCHANGED <<run, up, mark, sinks, restore, at, worker, moved, playback, torn,
                       requests, failures>>
        /\ up /\ muter.pc = "undefault" /\ SoundServer!Spk \in sinks /\ default' \in sinks
    BY <1>2, MutersRun, ServerTypes DEF SoundServer!UnmuteDefault, SoundServer!app, SoundServer!routing, SoundServer!bounds, SoundServer!Inv,
                                        SoundServer!Speakers, SoundServer!Restoring
  <2>2. muter' \in SoundServer!Muter /\ muter'.pc = "unlist"
    BY <1>2, MuterCalls, ServerTypes DEF SoundServer!UnmuteDefault, SoundServer!Muter
  <2>3. SoundServer!Speakers'
    BY <2>1, <2>2 DEF SoundServer!Speakers, SoundServer!Silencing, SoundServer!Restoring
  <2> QED BY <2>1, <2>2, <2>3, MutersKeep, ServerTypes
<1>3. CASE SoundServer!UnmuteList
  <2>1. /\ UNCHANGED <<run, up, mark, default, sinks, restore, at, worker, moved, playback,
                       torn, requests, failures>>
        /\ up /\ muter.pc = "unlist" /\ SoundServer!Spk \in sinks
    BY <1>3, MutersRun DEF SoundServer!UnmuteList, SoundServer!app, SoundServer!server, SoundServer!routing, SoundServer!bounds, SoundServer!Inv,
                           SoundServer!Speakers, SoundServer!Restoring
  <2>2. muter' \in SoundServer!Muter /\ muter'.pc = "unmove"
    BY <1>3, MuterCalls, ServerTypes DEF SoundServer!UnmuteList, SoundServer!Muter, SoundServer!On
  <2>3. SoundServer!Speakers'
    BY <2>1, <2>2 DEF SoundServer!Speakers, SoundServer!Silencing, SoundServer!Restoring
  <2> QED BY <2>1, <2>2, <2>3, MutersKeep, ServerTypes
<1>4. CASE SoundServer!UnmuteMove
  <2>1. /\ UNCHANGED <<run, up, worker, moved, playback, requests, failures>>
        /\ up /\ muter.pc = "unmove" /\ SoundServer!Spk \in sinks
    BY <1>4, MutersRun DEF SoundServer!UnmuteMove, SoundServer!routing, SoundServer!bounds, SoundServer!Inv, SoundServer!Speakers, SoundServer!Restoring
  <2>2. ASSUME NEW i \in muter.todo, SoundServer!Move(i, muter.to),
               SoundServer!Call("unmove", muter.to, muter.todo \ {i}),
               UNCHANGED <<mark, default, sinks, restore, torn>>
        PROVE  SoundServer!Inv'
    <3>1. muter' \in SoundServer!Muter /\ muter'.pc = "unmove"
      BY <2>2, MuterCalls, ServerTypes DEF SoundServer!Muter
    <3>2. at' \in [SoundServer!Inputs -> sinks \cup {SoundServer!None}]
      BY <2>2, StreamMoves, ServerTypes DEF SoundServer!Muter
    <3>3. SoundServer!Speakers'
      BY <2>1, <2>2, <3>1 DEF SoundServer!Inv, SoundServer!Speakers, SoundServer!Silencing, SoundServer!Restoring
    <3> QED BY <2>1, <2>2, <3>1, <3>2, <3>3, MutersKeep, ServerTypes
  <2>3. CASE /\ SoundServer!Unload(SoundServer!Spk)
             /\ restore' = SoundServer!None /\ muter' = SoundServer!Idle /\ mark' = FALSE /\ torn' = FALSE
    <3>1. Real \cap (sinks \ {SoundServer!Spk}) # {}
      BY RealUnlessUnloaded, SinkNames
    <3>2. /\ sinks' = sinks \ {SoundServer!Spk} /\ default' \in sinks'
          /\ at' \in [SoundServer!Inputs -> sinks' \cup {SoundServer!None}]
      BY <2>3, <3>1, SinkUnloads
    <3>3. SoundServer!Speakers'
      BY <2>3, <3>2, IdleCall DEF SoundServer!Speakers, SoundServer!Silencing, SoundServer!Restoring
    <3>4. sinks' \in SUBSET SoundServer!Sinks /\ \A x \in SoundServer!Sinks : x # SoundServer!Spk => (x \in sinks' <=> x \in sinks)
      BY <3>2, ServerTypes
    <3> QED BY <2>1, <2>3, <3>2, <3>3, <3>4, IdleCall, MutersKeep, ServerTypes
  <2> QED BY <1>4, <2>2, <2>3 DEF SoundServer!UnmuteMove
<1> QED BY <1>1, <1>2, <1>3, <1>4

\* The threads that capture and clean: what each of their steps keeps.
LEMMA WorkersKeep ==
  ASSUME SoundServer!Inv, UNCHANGED <<up, run, mark, muter, torn>>, up,
         sinks' \in SUBSET SoundServer!Sinks, default' \in sinks',
         restore' = restore, at' \in [SoundServer!Inputs -> sinks' \cup {SoundServer!None}],
         worker' \in [SoundServer!Workers -> SoundServer!Worker],
         moved' \in [Streams -> SoundServer!Sinks \cup {SoundServer!None}], playback' \in SoundServer!Sinks \cup {SoundServer!None},
         requests' \in 0 .. ServerTurns, failures' \in 0 .. ServerFailures,
         SoundServer!Spk \in sinks' <=> SoundServer!Spk \in sinks, Real \cap sinks' # {},
         \A n \in DOMAIN CaptureSinks : n > run => CaptureSinks[n] \notin sinks',
         SoundServer!Own', Cleaning'
  PROVE  SoundServer!Inv'
<1>1. SoundServer!TypeOK'
  BY ServerTypes DEF SoundServer!TypeOK
<1> QED BY <1>1, SpeakersApart

\* A step that leaves the sinks alone.
LEMMA WorkersLook ==
  ASSUME SoundServer!Inv, up, UNCHANGED <<up, run, mark, muter, torn, sinks, default, restore>>,
         at' \in [SoundServer!Inputs -> sinks \cup {SoundServer!None}],
         worker' \in [SoundServer!Workers -> SoundServer!Worker],
         moved' \in [Streams -> SoundServer!Sinks \cup {SoundServer!None}], playback' \in SoundServer!Sinks \cup {SoundServer!None},
         requests' \in 0 .. ServerTurns, failures' \in 0 .. ServerFailures,
         SoundServer!Own', Cleaning'
  PROVE  SoundServer!Inv'
  BY WorkersKeep, ServerTypes DEF SoundServer!Inv

\* A worker that has something to do belongs to SoundPush.
LEMMA WorkersRun ==
  ASSUME SoundServer!Inv, NEW w \in SoundServer!Workers, worker[w].pc # "off"
  PROVE  up
  BY OffWorker, ServerTypes DEF SoundServer!Inv

\* Worker w goes on in a way that leaves sinks, its own sink and its cleaning alone.
LEMMA GoesOn ==
  ASSUME SoundServer!Inv, UNCHANGED <<up, run, sinks>>, NEW w \in SoundServer!Workers, NEW step \in WorkerSteps,
         worker'[w].pc = step, worker'[w].sink = worker[w].sink,
         \A v \in SoundServer!Workers : v # w => worker'[v] = worker[v],
         \/ step \in SoundServer!Ending /\ worker[w].pc \in SoundServer!Ending
         \/ step = "scan" /\ worker[w].pc \in {"off", "wait"}
         \/ /\ w = "capture"
            /\ step \in SoundServer!Recording \cup {"release"} /\ worker[w].pc \in SoundServer!Recording
  PROVE  SoundServer!Own' /\ Cleaning'
<1>1. SoundServer!Stale' = SoundServer!Stale /\ SoundServer!OwnSink' = SoundServer!OwnSink
  BY DEF SoundServer!Stale, SoundServer!OwnSink
<1>2. SoundServer!Own'
  BY <1>1 DEF SoundServer!Inv, SoundServer!Own, SoundServer!Workers, SoundServer!Ending, SoundServer!Recording
<1>3. \A v \in SoundServer!Workers : SoundServer!Cleans(v) => SoundServer!Cleans(v)'
  <2>1. ASSUME SoundServer!Cleans(w) PROVE SoundServer!Cleans(w)'
    <3>1. CASE w = "capture" /\ worker[w].pc \in SoundServer!Recording
      BY <2>1, <3>1 DEF SoundServer!Cleans, SoundServer!Ending, SoundServer!Recording
    <3>2. CASE step \in SoundServer!Ending /\ worker[w].pc \in SoundServer!Ending
      BY <1>1, <2>1, <3>2 DEF SoundServer!Cleans, SoundServer!Ending
    <3>3. CASE step = "scan"
      BY <3>3 DEF SoundServer!Cleans
    <3> QED BY <3>1, <3>2, <3>3
  <2>2. ASSUME NEW v \in SoundServer!Workers, v # w, SoundServer!Cleans(v) PROVE SoundServer!Cleans(v)'
    BY <1>1, <2>2 DEF SoundServer!Cleans
  <2> QED BY <2>1, <2>2
<1>4. Cleaning'
  BY <1>1, <1>3 DEF SoundServer!Inv, Cleaning
<1> QED BY <1>2, <1>4

\* Each look for sinks of other runs, and each way to one of them.
LEMMA AfterScans ==
  ASSUME SoundServer!Inv, NEW w \in SoundServer!Workers
  PROVE  /\ SoundServer!AfterScan(w) \in SoundServer!Worker
         /\ w = "capture" =>
              SoundServer!AfterScan(w).pc = "open" /\ SoundServer!AfterScan(w).sink = SoundServer!OwnSink
         /\ w = "cleaner" => SoundServer!AfterScan(w).pc = "off"
<1>1. [SoundServer!Off EXCEPT !.pc = "open", !.sink = SoundServer!OwnSink] \in SoundServer!Worker
  BY ServerTypes DEF SoundServer!Off, SoundServer!Worker
<1>2. /\ [SoundServer!Off EXCEPT !.pc = "open", !.sink = SoundServer!OwnSink].pc = "open"
      /\ [SoundServer!Off EXCEPT !.pc = "open", !.sink = SoundServer!OwnSink].sink = SoundServer!OwnSink
  BY DEF SoundServer!Off
<1> QED BY <1>1, <1>2, OffWorker DEF SoundServer!AfterScan, SoundServer!Workers

LEMMA ServerScans ==
  ASSUME SoundServer!Inv, NEW w \in SoundServer!Workers, SoundServer!Scan(w)
  PROVE  SoundServer!Inv'
<1>1. /\ UNCHANGED <<up, run, mark, default, sinks, restore, at, muter, moved, playback, torn,
                     requests, failures>>
      /\ worker[w].pc = "scan" /\ up
  BY WorkersRun DEF SoundServer!Scan, SoundServer!app, SoundServer!server, SoundServer!routing, SoundServer!bounds
<1>2. SoundServer!Stale' = SoundServer!Stale /\ SoundServer!OwnSink' = SoundServer!OwnSink
  BY <1>1 DEF SoundServer!Stale, SoundServer!OwnSink
<1>3. CASE SoundServer!Stale = {} /\ worker' = [worker EXCEPT ![w] = SoundServer!AfterScan(w)]
  <2>1. /\ worker' \in [SoundServer!Workers -> SoundServer!Worker] /\ worker'[w] = SoundServer!AfterScan(w)
        /\ \A v \in SoundServer!Workers : v # w => worker'[v] = worker[v]
    BY <1>3, AfterScans, BecomesWorker, ServerTypes
  <2>2. SoundServer!Own'
    BY <1>1, <1>2, <2>1, AfterScans DEF SoundServer!Inv, SoundServer!Own, SoundServer!Workers, SoundServer!Ending, SoundServer!Recording
  <2>3. Cleaning'
    BY <1>2, <1>3 DEF Cleaning
  <2> QED BY <1>1, <2>1, <2>2, <2>3, WorkersLook, ServerTypes
<1>4. ASSUME NEW c \in SoundServer!Stale,
             worker' = [worker EXCEPT ![w] = [SoundServer!Off EXCEPT !.pc = "release", !.sink = c]]
      PROVE  SoundServer!Inv'
  <2> DEFINE x == [SoundServer!Off EXCEPT !.pc = "release", !.sink = c]
  <2>1. x \in SoundServer!Worker /\ x.pc = "release" /\ x.sink = c
    BY DEF SoundServer!Off, SoundServer!Worker, SoundServer!Stale
  <2>2. /\ worker' \in [SoundServer!Workers -> SoundServer!Worker] /\ worker'[w] = x
        /\ \A v \in SoundServer!Workers : v # w => worker'[v] = worker[v]
    BY <1>4, <2>1, BecomesWorker, ServerTypes
  <2>3. SoundServer!Own'
    BY <1>1, <1>2, <2>1, <2>2 DEF SoundServer!Inv, SoundServer!Own, SoundServer!Workers, SoundServer!Ending, SoundServer!Recording, SoundServer!Stale
  <2>4. Cleaning'
    BY <1>2, <2>1, <2>2 DEF Cleaning, SoundServer!Cleans, SoundServer!Ending
  <2> QED BY <1>1, <2>2, <2>3, <2>4, WorkersLook, ServerTypes
<1> QED BY <1>3, <1>4, SinkNames DEF SoundServer!Scan, SoundServer!Stale, SoundServer!Sinks

LEMMA ServerReleases ==
  ASSUME SoundServer!Inv, NEW w \in SoundServer!Workers, SoundServer!Release(w)
  PROVE  SoundServer!Inv'
<1>1. /\ UNCHANGED <<up, run, mark, default, sinks, restore, at, muter, moved, playback, torn,
                     requests, failures>>
      /\ worker[w].pc = "release" /\ up
  BY WorkersRun DEF SoundServer!Release, SoundServer!app, SoundServer!server, SoundServer!routing, SoundServer!bounds
<1>2. PICK todo \in SUBSET Streams, fallback \in SoundServer!Sinks \cup {SoundServer!None} :
        worker' = [worker EXCEPT ![w] = [worker[w] EXCEPT !.pc = "putback", !.todo = todo,
                                                          !.fallback = fallback]]
  <2> DEFINE y == worker[w].sink
             todo == IF y \in sinks THEN SoundServer!On(y) \cap Streams ELSE {}
             fallback == IF at[y] \in sinks \ {y} THEN at[y]
                         ELSE IF default # y THEN default ELSE SoundServer!None
  <2>1. todo \in SUBSET Streams
    OBVIOUS
  <2>2. fallback \in SoundServer!Sinks \cup {SoundServer!None}
    BY ServerTypes
  <2>3. worker' = [worker EXCEPT ![w] = [worker[w] EXCEPT !.pc = "putback", !.todo = todo,
                                                          !.fallback = fallback]]
    BY DEF SoundServer!Release
  <2> QED BY <2>1, <2>2, <2>3
<1>3. /\ worker' \in [SoundServer!Workers -> SoundServer!Worker]
      /\ worker'[w].pc = "putback" /\ worker'[w].sink = worker[w].sink
      /\ \A v \in SoundServer!Workers : v # w => worker'[v] = worker[v]
  <2> DEFINE x == [worker[w] EXCEPT !.pc = "putback", !.todo = todo, !.fallback = fallback]
  <2>1. x \in SoundServer!Worker /\ x.pc = "putback" /\ x.sink = worker[w].sink
    BY ServerTypes DEF SoundServer!Worker
  <2> QED BY <1>2, <2>1, BecomesWorker, ServerTypes
<1>4. SoundServer!Own' /\ Cleaning'
  BY <1>1, <1>3, GoesOn DEF WorkerSteps, SoundServer!Ending
<1> QED BY <1>1, <1>3, <1>4, WorkersLook, ServerTypes

LEMMA ServerPutsBack ==
  ASSUME SoundServer!Inv, NEW w \in SoundServer!Workers, SoundServer!PutBack(w)
  PROVE  SoundServer!Inv'
<1>1. /\ UNCHANGED <<up, run, mark, default, sinks, restore, muter, moved, playback, torn,
                     requests, failures>>
      /\ worker[w].pc = "putback" /\ up /\ worker[w] \in SoundServer!Worker
  BY WorkersRun, ServerTypes DEF SoundServer!PutBack, SoundServer!app, SoundServer!routing, SoundServer!bounds
<1>2. ASSUME NEW step \in SoundServer!Ending, NEW todo \in SUBSET Streams, SoundServer!Step(w, step, todo),
             at' \in [SoundServer!Inputs -> sinks \cup {SoundServer!None}]
      PROVE  SoundServer!Inv'
  <2>1. /\ worker' \in [SoundServer!Workers -> SoundServer!Worker]
        /\ worker'[w].pc = step /\ worker'[w].sink = worker[w].sink
        /\ \A v \in SoundServer!Workers : v # w => worker'[v] = worker[v]
    BY <1>2, StepsTo, ServerTypes DEF WorkerSteps, SoundServer!Ending
  <2>2. SoundServer!Own' /\ Cleaning'
    BY <1>1, <1>2, <2>1, GoesOn DEF WorkerSteps, SoundServer!Ending
  <2> QED BY <1>1, <1>2, <2>1, <2>2, WorkersLook, ServerTypes
<1>3. ASSUME NEW s \in worker[w].todo, SoundServer!Move(s, SoundServer!Home(w, s)),
             SoundServer!Step(w, "putback", worker[w].todo \ {s})
      PROVE  SoundServer!Inv'
  <2>1. s \in SoundServer!Inputs /\ worker[w].todo \ {s} \in SUBSET Streams
    BY <1>1, SinkNames DEF SoundServer!Worker
  <2>2. at' \in [SoundServer!Inputs -> sinks \cup {SoundServer!None}]
    BY <1>3, <2>1, StreamMoves, ServerTypes
  <2> QED BY <1>2, <1>3, <2>1, <2>2 DEF SoundServer!Ending
<1>4. CASE at' = [at EXCEPT ![worker[w].sink] = SoundServer!None] /\ SoundServer!Step(w, "unsink", {})
  <2>1. at' \in [SoundServer!Inputs -> sinks \cup {SoundServer!None}]
    BY <1>4, ServerTypes
  <2> QED BY <1>2, <1>4, <2>1 DEF SoundServer!Ending
<1> QED BY <1>3, <1>4 DEF SoundServer!PutBack

\* A sink is unloaded: who finds it gone stops, and who removed it looks again.
LEMMA ServerUnloads ==
  ASSUME SoundServer!Inv, NEW w \in SoundServer!Workers, SoundServer!UnloadSink(w)
  PROVE  SoundServer!Inv'
<1> DEFINE x == worker[w].sink
           y == IF x = SoundServer!OwnSink THEN SoundServer!Off
                ELSE IF x \in sinks THEN [SoundServer!Off EXCEPT !.pc = "scan"] ELSE SoundServer!AfterScan(w)
<1>1. /\ UNCHANGED <<up, run, mark, restore, muter, moved, playback, torn, requests, failures>>
      /\ worker[w].pc = "unsink" /\ up /\ SoundServer!UnloadsSink(x)
      /\ worker' = [worker EXCEPT ![w] = y]
  BY WorkersRun DEF SoundServer!UnloadSink, SoundServer!app, SoundServer!routing, SoundServer!bounds
<1>2. x \in SoundServer!Caps \cup {SoundServer!None}
  BY ServerTypes DEF SoundServer!Worker
<1>3. /\ sinks' = sinks \ {x} /\ default' \in sinks'
      /\ at' \in [SoundServer!Inputs -> sinks' \cup {SoundServer!None}]
  <2>1. CASE x \in sinks
    <3>1. Real \cap (sinks \ {x}) # {}
      BY <1>2, <2>1, RealUnlessUnloaded, SinkNames, ServerTypes
    <3> QED BY <1>1, <2>1, <3>1, SinkUnloads DEF SoundServer!UnloadsSink
  <2>2. CASE x \notin sinks
    BY <1>1, <2>2, ServerTypes DEF SoundServer!UnloadsSink
  <2> QED BY <2>1, <2>2
<1>4. [SoundServer!Off EXCEPT !.pc = "scan"] \in SoundServer!Worker /\ [SoundServer!Off EXCEPT !.pc = "scan"].pc = "scan"
  BY DEF SoundServer!Off, SoundServer!Worker
<1>5. y \in SoundServer!Worker
  BY <1>4, OffWorker, AfterScans
<1>6. /\ worker' \in [SoundServer!Workers -> SoundServer!Worker] /\ worker'[w] = y
      /\ \A v \in SoundServer!Workers : v # w => worker'[v] = worker[v]
  BY <1>1, <1>5, BecomesWorker, ServerTypes
<1>7. SoundServer!OwnSink' = SoundServer!OwnSink /\ SoundServer!Stale' = SoundServer!Stale \ {x}
  BY <1>1, <1>3 DEF SoundServer!OwnSink, SoundServer!Stale
<1>8. SoundServer!Own'
  <2>1. CASE w = "cleaner"
    <3>1. y.pc \in {"off", "scan"}
      BY <1>4, <2>1, OffWorker, AfterScans
    <3> QED BY <1>1, <1>3, <1>6, <1>7, <2>1, <3>1
            DEF SoundServer!Inv, SoundServer!Own, SoundServer!Workers, SoundServer!Ending, SoundServer!Recording
  <2>2. CASE w = "capture"
    <3>1. CASE x = SoundServer!OwnSink
      BY <1>1, <1>3, <1>6, <1>7, <2>2, <3>1, OffWorker
      DEF SoundServer!Inv, SoundServer!Own, SoundServer!Workers, SoundServer!Ending, SoundServer!Recording
    <3>2. CASE x # SoundServer!OwnSink
      <4>1. SoundServer!OwnSink \notin sinks
        <5>1. worker["capture"].sink # SoundServer!OwnSink
          BY <2>2, <3>2
        <5> QED BY <1>1, <5>1 DEF SoundServer!Inv, SoundServer!Own
      <4>2. y.pc = "scan" \/ (y.pc = "open" /\ y.sink = SoundServer!OwnSink)
        BY <1>4, <2>2, <3>2, AfterScans
      <4> QED BY <1>1, <1>3, <1>6, <1>7, <2>2, <4>1, <4>2
              DEF SoundServer!Inv, SoundServer!Own, SoundServer!Workers, SoundServer!Ending, SoundServer!Recording
    <3> QED BY <3>1, <3>2
  <2> QED BY <2>1, <2>2 DEF SoundServer!Workers
<1>9. Cleaning'
  <2> SUFFICES ASSUME SoundServer!Stale' # {} PROVE \E v \in SoundServer!Workers : SoundServer!Cleans(v)'
    BY DEF Cleaning
  <2>1. CASE x # SoundServer!OwnSink /\ x \in sinks
    <3>1. worker'[w].pc = "scan"
      BY <1>4, <1>6, <2>1
    <3> QED BY <3>1 DEF SoundServer!Cleans
  <2>2. CASE x = SoundServer!OwnSink \/ x \notin sinks
    <3>1. x \notin SoundServer!Stale /\ SoundServer!Stale' = SoundServer!Stale
      BY <1>7, <2>2 DEF SoundServer!Stale
    <3>2. ~SoundServer!Cleans(w)
      BY <1>1, <3>1 DEF SoundServer!Cleans
    <3>3. PICK v \in SoundServer!Workers : SoundServer!Cleans(v)
      BY <1>1, <3>1 DEF SoundServer!Inv
    <3>4. worker'[v] = worker[v]
      BY <1>6, <3>2, <3>3
    <3> QED BY <3>1, <3>3, <3>4 DEF SoundServer!Cleans
  <2> QED BY <2>1, <2>2
<1>10. SoundServer!Spk \in sinks' <=> SoundServer!Spk \in sinks
  BY <1>2, <1>3, SinkNames DEF SoundServer!Sinks
<1>11. Real \cap sinks' # {}
  BY <1>2, <1>3, SinkNames, ServerTypes
<1>12. \A n \in DOMAIN CaptureSinks : n > run => CaptureSinks[n] \notin sinks'
  BY <1>3 DEF SoundServer!Inv
<1> QED BY <1>1, <1>3, <1>6, <1>8, <1>9, <1>10, <1>11, <1>12, WorkersKeep, ServerTypes

\* A capture: its sink is loaded, its loopback, and the app's streams move to it.
LEMMA ServerCaptures ==
  ASSUME SoundServer!Inv, SoundServer!OpenCapture \/ SoundServer!StartCleaner
  PROVE  SoundServer!Inv'
<1>1. PICK w \in SoundServer!Workers :
        /\ SoundServer!Step(w, "scan", {}) /\ worker[w].pc \in {"off", "wait"} /\ up
        /\ UNCHANGED <<up, run, mark, default, sinks, restore, at, muter, moved, playback, torn>>
        /\ requests' \in 0 .. ServerTurns /\ failures' \in 0 .. ServerFailures
  <2>1. CASE SoundServer!OpenCapture
    BY <2>1, ServerTypes, ServerNumbers
    DEF SoundServer!OpenCapture, SoundServer!app, SoundServer!server, SoundServer!routing, SoundServer!Turn, SoundServer!Workers
  <2>2. CASE SoundServer!StartCleaner
    <3>1. worker["cleaner"].pc = "wait" /\ "cleaner" \in SoundServer!Workers
      BY <2>2 DEF SoundServer!StartCleaner, SoundServer!Workers
    <3>2. up
      BY <3>1, WorkersRun
    <3> QED BY <2>2, <3>1, <3>2, ServerTypes
            DEF SoundServer!StartCleaner, SoundServer!app, SoundServer!server, SoundServer!routing, SoundServer!bounds
  <2> QED BY <2>1, <2>2
<1>2. /\ worker' \in [SoundServer!Workers -> SoundServer!Worker]
      /\ worker'[w].pc = "scan" /\ worker'[w].sink = worker[w].sink
      /\ \A v \in SoundServer!Workers : v # w => worker'[v] = worker[v]
  BY <1>1, StepsTo, ServerTypes DEF WorkerSteps
<1>3. SoundServer!Own' /\ Cleaning'
  BY <1>1, <1>2, GoesOn DEF WorkerSteps
<1> QED BY <1>1, <1>2, <1>3, WorkersLook, ServerTypes

LEMMA ServerOpensSink ==
  ASSUME SoundServer!Inv, SoundServer!OpenSink
  PROVE  SoundServer!Inv'
<1> DEFINE w == "capture"
<1>1. /\ UNCHANGED <<up, run, mark, default, restore, at, muter, torn, requests, failures>>
      /\ worker[w].pc = "open" /\ w \in SoundServer!Workers
      /\ sinks' = sinks \cup {SoundServer!OwnSink} /\ playback' = default /\ moved' = SoundServer!NotMoved
      /\ SoundServer!Step(w, "loop", {})
  BY DEF SoundServer!OpenSink, SoundServer!app, SoundServer!bounds, SoundServer!Workers
<1>2. up
  BY <1>1, WorkersRun
<1>3. /\ worker' \in [SoundServer!Workers -> SoundServer!Worker]
      /\ worker'[w].pc = "loop" /\ worker'[w].sink = worker[w].sink
      /\ \A v \in SoundServer!Workers : v # w => worker'[v] = worker[v]
  BY <1>1, StepsTo, ServerTypes DEF WorkerSteps
<1>4. SoundServer!OwnSink' = SoundServer!OwnSink /\ SoundServer!Stale' = SoundServer!Stale
  BY <1>1 DEF SoundServer!OwnSink, SoundServer!Stale
<1>5. SoundServer!Own'
  BY <1>1, <1>3, <1>4 DEF SoundServer!Inv, SoundServer!Own, SoundServer!Workers, SoundServer!Ending, SoundServer!Recording
<1>6. Cleaning'
  <2>1. ~SoundServer!Cleans(w)
    BY <1>1 DEF SoundServer!Cleans, SoundServer!Ending
  <2>2. \A v \in SoundServer!Workers : v # w => (SoundServer!Cleans(v) => SoundServer!Cleans(v)')
    BY <1>3, <1>4 DEF SoundServer!Cleans
  <2> QED BY <1>2, <1>4, <2>1, <2>2 DEF SoundServer!Inv, Cleaning
<1>7. /\ sinks' \in SUBSET SoundServer!Sinks /\ default' \in sinks'
      /\ at' \in [SoundServer!Inputs -> sinks' \cup {SoundServer!None}]
      /\ moved' \in [Streams -> SoundServer!Sinks \cup {SoundServer!None}] /\ playback' \in SoundServer!Sinks \cup {SoundServer!None}
      /\ SoundServer!Spk \in sinks' <=> SoundServer!Spk \in sinks
      /\ Real \cap sinks' # {}
  BY <1>1, ServerTypes, SinkNames DEF SoundServer!NotMoved
<1>8. \A n \in DOMAIN CaptureSinks : n > run => CaptureSinks[n] \notin sinks'
  BY <1>1, ServerTypes, SinkNames, SinksApart DEF SoundServer!Inv, SoundServer!OwnSink
<1> QED BY <1>1, <1>2, <1>3, <1>5, <1>6, <1>7, <1>8, WorkersKeep, ServerTypes

LEMMA ServerOpensLoop ==
  ASSUME SoundServer!Inv, SoundServer!OpenLoop
  PROVE  SoundServer!Inv'
<1> DEFINE w == "capture"
<1>1. /\ UNCHANGED <<up, run, mark, restore, muter, moved, playback, torn>>
      /\ worker[w].pc = "loop" /\ w \in SoundServer!Workers
      /\ worker[w].sink = SoundServer!OwnSink
  BY DEF SoundServer!OpenLoop, SoundServer!app, SoundServer!routing, SoundServer!Workers, SoundServer!Inv, SoundServer!Own, SoundServer!Recording
<1>2. up
  BY <1>1, WorkersRun
<1>3. CASE at' = [at EXCEPT ![SoundServer!OwnSink] = default] /\ SoundServer!Step(w, "route", {})
           /\ UNCHANGED <<sinks, default, requests, failures>>
  <2>1. /\ worker' \in [SoundServer!Workers -> SoundServer!Worker]
        /\ worker'[w].pc = "route" /\ worker'[w].sink = worker[w].sink
        /\ \A v \in SoundServer!Workers : v # w => worker'[v] = worker[v]
    BY <1>1, <1>3, StepsTo, ServerTypes DEF WorkerSteps
  <2>2. SoundServer!Own' /\ Cleaning'
    BY <1>1, <1>3, <2>1, GoesOn DEF WorkerSteps, SoundServer!Recording
  <2>3. at' \in [SoundServer!Inputs -> sinks \cup {SoundServer!None}]
    BY <1>3, ServerTypes
  <2> QED BY <1>1, <1>2, <1>3, <2>1, <2>2, <2>3, WorkersLook, ServerTypes
<1>4. CASE SoundServer!Fail /\ SoundServer!Unload(SoundServer!OwnSink) /\ worker' = [worker EXCEPT ![w] = SoundServer!Off]
  <2>1. Real \cap (sinks \ {SoundServer!OwnSink}) # {}
    BY RealUnlessUnloaded, ServerTypes, SinkNames
  <2>2. /\ sinks' = sinks \ {SoundServer!OwnSink} /\ default' \in sinks'
        /\ at' \in [SoundServer!Inputs -> sinks' \cup {SoundServer!None}]
    BY <1>4, <2>1, SinkUnloads
  <2>3. /\ worker' \in [SoundServer!Workers -> SoundServer!Worker] /\ worker'[w] = SoundServer!Off
        /\ \A v \in SoundServer!Workers : v # w => worker'[v] = worker[v]
    BY <1>1, <1>4, OffWorker, BecomesWorker, ServerTypes
  <2>4. SoundServer!OwnSink' = SoundServer!OwnSink /\ SoundServer!Stale' = SoundServer!Stale
    BY <1>1, <2>2 DEF SoundServer!OwnSink, SoundServer!Stale
  <2>5. SoundServer!Own'
    BY <1>1, <2>2, <2>3, <2>4, OffWorker DEF SoundServer!Inv, SoundServer!Own, SoundServer!Workers, SoundServer!Ending, SoundServer!Recording
  <2>6. Cleaning'
    <3>1. ~SoundServer!Cleans(w)
      BY <1>1 DEF SoundServer!Cleans, SoundServer!Ending
    <3>2. \A v \in SoundServer!Workers : v # w => (SoundServer!Cleans(v) => SoundServer!Cleans(v)')
      BY <2>3, <2>4 DEF SoundServer!Cleans
    <3> QED BY <1>2, <2>4, <3>1, <3>2 DEF SoundServer!Inv, Cleaning
  <2>7. requests' \in 0 .. ServerTurns /\ failures' \in 0 .. ServerFailures
    BY <1>4, ServerTypes, ServerNumbers DEF SoundServer!Fail
  <2>8. /\ sinks' \in SUBSET SoundServer!Sinks /\ Real \cap sinks' # {}
        /\ SoundServer!Spk \in sinks' <=> SoundServer!Spk \in sinks
        /\ \A n \in DOMAIN CaptureSinks : n > run => CaptureSinks[n] \notin sinks'
    BY <2>1, <2>2, ServerTypes, SinkNames DEF SoundServer!Inv
  <2> QED BY <1>1, <1>2, <2>2, <2>3, <2>5, <2>6, <2>7, <2>8, WorkersKeep, ServerTypes
<1> QED BY <1>3, <1>4 DEF SoundServer!OpenLoop, SoundServer!bounds

LEMMA ServerRoutes ==
  ASSUME SoundServer!Inv, SoundServer!Route \/ SoundServer!RouteMove \/ SoundServer!Record
  PROVE  SoundServer!Inv'
<1> DEFINE w == "capture"
<1>0. w \in SoundServer!Workers /\ worker[w] \in SoundServer!Worker
  BY ServerTypes DEF SoundServer!Workers
<1>1. ASSUME NEW step \in SoundServer!Recording \cup {"release"}, NEW todo \in SUBSET Streams,
             SoundServer!Step(w, step, todo), worker[w].pc \in SoundServer!Recording,
             UNCHANGED <<up, run, mark, default, sinks, restore, muter, playback, torn>>,
             at' \in [SoundServer!Inputs -> sinks \cup {SoundServer!None}],
             moved' \in [Streams -> SoundServer!Sinks \cup {SoundServer!None}],
             requests' \in 0 .. ServerTurns, failures' \in 0 .. ServerFailures
      PROVE  SoundServer!Inv'
  <2>1. step \in WorkerSteps
    BY DEF WorkerSteps, SoundServer!Recording
  <2>2. /\ worker' \in [SoundServer!Workers -> SoundServer!Worker]
        /\ worker'[w].pc = step /\ worker'[w].sink = worker[w].sink
        /\ \A v \in SoundServer!Workers : v # w => worker'[v] = worker[v]
    BY <1>0, <1>1, <2>1, StepsTo, ServerTypes
  <2>3. SoundServer!Own' /\ Cleaning'
    BY <1>0, <1>1, <2>1, <2>2, GoesOn
  <2>4. up
    BY <1>0, <1>1, WorkersRun DEF SoundServer!Recording
  <2> QED BY <1>1, <2>2, <2>3, <2>4, WorkersLook, ServerTypes
<1>2. CASE SoundServer!Route
  <2>1. SoundServer!Wanted \in SUBSET Streams
    BY SinksApart DEF SoundServer!Wanted
  <2>2. moved' \in [Streams -> SoundServer!Sinks \cup {SoundServer!None}]
    BY <1>2, ServerTypes DEF SoundServer!Route
  <2> QED BY <1>1, <1>2, <2>1, <2>2, ServerTypes
          DEF SoundServer!Route, SoundServer!app, SoundServer!server, SoundServer!bounds, SoundServer!Recording
<1>3. CASE SoundServer!RouteMove
  <2>1. /\ worker[w].pc = "moving"
        /\ UNCHANGED <<up, run, mark, default, sinks, restore, muter, playback, torn, requests,
                       failures>>
    BY <1>3 DEF SoundServer!RouteMove, SoundServer!app, SoundServer!bounds
  <2>2. ASSUME NEW s \in worker[w].todo, SoundServer!Move(s, SoundServer!OwnSink),
               moved' = IF at[s] = SoundServer!None THEN moved ELSE [moved EXCEPT ![s] = at[s]],
               SoundServer!Step(w, "moving", worker[w].todo \ {s})
        PROVE  SoundServer!Inv'
    <3>1. s \in Streams /\ s \in SoundServer!Inputs /\ worker[w].todo \ {s} \in SUBSET Streams
      BY <1>0, SinkNames DEF SoundServer!Worker
    <3>2. at' \in [SoundServer!Inputs -> sinks \cup {SoundServer!None}]
      BY <2>2, <3>1, StreamMoves, ServerTypes
    <3>3. moved' \in [Streams -> SoundServer!Sinks \cup {SoundServer!None}]
      BY <2>2, <3>1, ServerTypes
    <3> QED BY <1>1, <2>1, <2>2, <3>1, <3>2, <3>3, ServerTypes DEF SoundServer!Recording
  <2>3. CASE SoundServer!Step(w, "record", {}) /\ UNCHANGED <<at, moved>>
    BY <1>1, <2>1, <2>3, ServerTypes DEF SoundServer!Recording
  <2> QED BY <1>3, <2>2, <2>3 DEF SoundServer!RouteMove
<1>4. CASE SoundServer!Record
  <2>1. /\ worker[w].pc = "record"
        /\ UNCHANGED <<up, run, mark, default, sinks, restore, at, muter, moved, playback, torn>>
    BY <1>4 DEF SoundServer!Record, SoundServer!app, SoundServer!server, SoundServer!routing
  <2>2. CASE SoundServer!Step(w, "route", {}) /\ UNCHANGED <<requests, failures>>
    BY <1>1, <2>1, <2>2, ServerTypes DEF SoundServer!Recording
  <2>3. CASE SoundServer!Turn /\ SoundServer!Step(w, "release", {})
    <3>1. requests' \in 0 .. ServerTurns /\ failures' \in 0 .. ServerFailures
      BY <2>3, ServerTypes, ServerNumbers DEF SoundServer!Turn
    <3> QED BY <1>1, <2>1, <2>3, <3>1, ServerTypes DEF SoundServer!Recording
  <2> QED BY <1>4, <2>2, <2>3 DEF SoundServer!Record, SoundServer!bounds
<1> QED BY <1>2, <1>3, <1>4

\* SoundPush ends at any point, and starts again.
LEMMA ServerCrashes ==
  ASSUME SoundServer!Inv, SoundServer!Crash
  PROVE  SoundServer!Inv'
<1>1. /\ UNCHANGED <<run, mark, default, sinks, restore, at, requests, failures>>
      /\ up' = FALSE /\ muter' = SoundServer!Idle /\ worker' = [w \in SoundServer!Workers |-> SoundServer!Off]
      /\ moved' = SoundServer!NotMoved /\ playback' = SoundServer!None
      /\ torn' = (torn \/ (SoundServer!Spk \in sinks /\ ~mark))
  BY DEF SoundServer!Crash, SoundServer!server, SoundServer!bounds
<1>2. worker' \in [SoundServer!Workers -> SoundServer!Worker] /\ \A w \in SoundServer!Workers : worker'[w] = SoundServer!Off
  BY <1>1, OffWorker
<1>3. torn' \in BOOLEAN /\ (SoundServer!Spk \in sinks => mark \/ torn')
  BY <1>1, ServerTypes
<1>4. moved' \in [Streams -> SoundServer!Sinks \cup {SoundServer!None}]
  BY <1>1 DEF SoundServer!NotMoved
<1>5. SoundServer!TypeOK'
  BY <1>1, <1>2, <1>3, <1>4, IdleCall, ServerTypes DEF SoundServer!TypeOK
<1>6. SoundServer!Speakers'
  BY <1>1, <1>3, IdleCall DEF SoundServer!Speakers, SoundServer!Silencing, SoundServer!Restoring
<1>7. SoundServer!Own'
  BY <1>1, <1>2, OffWorker DEF SoundServer!Own, SoundServer!Workers, SoundServer!Ending, SoundServer!Recording
<1>8. run + 1 \in DOMAIN CaptureSinks
  BY ServerTypes, SinksApart DEF SoundServer!Crash
<1> QED BY <1>1, <1>2, <1>5, <1>6, <1>7, <1>8 DEF SoundServer!Inv

LEMMA ServerStarts ==
  ASSUME SoundServer!Inv, SoundServer!Start
  PROVE  SoundServer!Inv'
<1>1. /\ UNCHANGED <<default, sinks, restore, at, moved, playback, torn, requests, failures>>
      /\ ~up /\ up' = TRUE /\ run' = run + 1
      /\ worker' = [worker EXCEPT !["cleaner"].pc = "wait"]
      /\ muter = SoundServer!Idle /\ \A w \in SoundServer!Workers : worker[w] = SoundServer!Off
      /\ IF mark THEN SoundServer!UnmuteLook ELSE UNCHANGED <<mark, muter>>
  BY DEF SoundServer!Start, SoundServer!server, SoundServer!routing, SoundServer!bounds, SoundServer!Inv
<1>2. run' \in DOMAIN CaptureSinks /\ run' > run
  BY <1>1, ServerTypes, SinksApart DEF SoundServer!Inv
<1>3. muter' \in SoundServer!Muter /\ mark' \in BOOLEAN /\ SoundServer!Speakers'
  <2>1. CASE mark
    BY <1>1, <2>1, UnmuteLooks
  <2>2. CASE ~mark
    BY <1>1, <2>2, ServerTypes DEF SoundServer!Inv, SoundServer!Speakers
  <2> QED BY <2>1, <2>2
<1>4. /\ worker' \in [SoundServer!Workers -> SoundServer!Worker]
      /\ worker'["cleaner"].pc = "wait" /\ worker'["cleaner"].sink = SoundServer!None
      /\ worker'["capture"] = SoundServer!Off
  <2>1. worker' = [worker EXCEPT !["cleaner"] = [SoundServer!Off EXCEPT !.pc = "wait"]]
    BY <1>1 DEF SoundServer!Workers
  <2>2. /\ [SoundServer!Off EXCEPT !.pc = "wait"] \in SoundServer!Worker
        /\ [SoundServer!Off EXCEPT !.pc = "wait"].pc = "wait"
        /\ [SoundServer!Off EXCEPT !.pc = "wait"].sink = SoundServer!None
    BY DEF SoundServer!Off, SoundServer!Worker
  <2> QED BY <1>1, <2>1, <2>2, ServerTypes DEF SoundServer!Workers
<1>5. SoundServer!OwnSink' = CaptureSinks[run'] /\ SoundServer!OwnSink' \notin sinks
  BY <1>2 DEF SoundServer!Inv, SoundServer!OwnSink
<1>6. SoundServer!Own'
  BY <1>1, <1>4, <1>5, OffWorker DEF SoundServer!Own, SoundServer!Ending, SoundServer!Recording
<1>7. Cleaning'
  BY <1>4 DEF Cleaning, SoundServer!Cleans, SoundServer!Workers
<1>8. SoundServer!TypeOK'
  BY <1>1, <1>2, <1>3, <1>4, ServerTypes DEF SoundServer!TypeOK
<1>9. \A n \in DOMAIN CaptureSinks : n > run' => CaptureSinks[n] \notin sinks'
  BY <1>1, ServerTypes, SinksApart DEF SoundServer!Inv
<1> QED BY <1>1, <1>3, <1>6, <1>7, <1>8, <1>9, ServerTypes DEF SoundServer!Inv, Cleaning

LEMMA ServerInit == SoundServer!Init => SoundServer!Inv
<1> SUFFICES ASSUME SoundServer!Init PROVE SoundServer!Inv
  OBVIOUS
<1>1. /\ up = TRUE /\ run = 1 /\ mark = FALSE /\ default \in Real /\ sinks = Real
      /\ restore = SoundServer!None /\ muter = SoundServer!Idle /\ worker = [w \in SoundServer!Workers |-> SoundServer!Off]
      /\ moved = SoundServer!NotMoved /\ playback = SoundServer!None
      /\ torn = FALSE /\ requests = 0 /\ failures = 0
      /\ at \in [SoundServer!Inputs -> Real \cup {SoundServer!None}]
  BY DEF SoundServer!Init
<1>2. worker \in [SoundServer!Workers -> SoundServer!Worker] /\ \A w \in SoundServer!Workers : worker[w] = SoundServer!Off
  BY <1>1, OffWorker
<1>3. run \in DOMAIN CaptureSinks
  BY <1>1, SinksApart
<1>4. SoundServer!TypeOK
  <2>1. /\ sinks \subseteq SoundServer!Sinks /\ default \in sinks
        /\ restore \in Real \cup SoundServer!Caps \cup {SoundServer!None} /\ playback \in SoundServer!Sinks \cup {SoundServer!None}
        /\ muter \in SoundServer!Muter
    BY <1>1, IdleCall, SinkNames
  <2>2. moved \in [Streams -> SoundServer!Sinks \cup {SoundServer!None}]
    BY <1>1 DEF SoundServer!NotMoved
  <2>3. requests \in 0 .. ServerTurns /\ failures \in 0 .. ServerFailures
    BY <1>1, ServerNumbers
  <2> QED BY <1>1, <1>2, <1>3, <2>1, <2>2, <2>3 DEF SoundServer!TypeOK
<1>5. SoundServer!Speakers
  BY <1>1, IdleCall, SinkNames DEF SoundServer!Speakers, SoundServer!Silencing, SoundServer!Restoring
<1>6. SoundServer!Stale = {} /\ SoundServer!OwnSink \notin sinks
  BY <1>1, <1>3, SinkNames DEF SoundServer!Stale, SoundServer!OwnSink
<1>7. SoundServer!Own
  BY <1>2, <1>6, OffWorker DEF SoundServer!Own, SoundServer!Workers, SoundServer!Ending, SoundServer!Recording
<1>8. \A n \in DOMAIN CaptureSinks : CaptureSinks[n] \notin sinks
  BY <1>1, SinkNames
<1> QED BY <1>1, <1>4, <1>5, <1>6, <1>7, <1>8, SinksApart DEF SoundServer!Inv

LEMMA ServerNext ==
  ASSUME SoundServer!Inv, SoundServer!Next
  PROVE  SoundServer!Inv'
  BY ServerOthers, ServerMutes, ServerRefuses, ServerUnmutes, ServerScans, ServerReleases,
     ServerPutsBack, ServerUnloads, ServerCaptures, ServerOpensSink, ServerOpensLoop,
     ServerRoutes, ServerCrashes, ServerStarts DEF SoundServer!Next

\* At rest no thread is on its way, so that no sink is left to go to.
LEMMA ServerLeft == SoundServer!Inv => SoundServer!NothingLeft
<1> SUFFICES ASSUME SoundServer!Inv, SoundServer!AtRest, ~mark, ~torn
             PROVE  sinks \subseteq Real /\ \A i \in SoundServer!Inputs : at[i] \in Real \cup {SoundServer!None}
  BY DEF SoundServer!NothingLeft
<1>1. up /\ muter.pc = "idle" /\ \A w \in SoundServer!Workers : worker[w] = SoundServer!Off
  BY IdleCall DEF SoundServer!AtRest
<1>2. SoundServer!Spk \notin sinks
  BY <1>1 DEF SoundServer!Inv, SoundServer!Speakers, SoundServer!Silencing, SoundServer!Restoring
<1>3. SoundServer!Stale = {}
  BY <1>1, OffWorker DEF SoundServer!Inv, SoundServer!Cleans, SoundServer!Ending
<1>4. SoundServer!OwnSink \notin sinks
  BY <1>1, OffWorker DEF SoundServer!Inv, SoundServer!Own, SoundServer!Ending, SoundServer!Recording, SoundServer!Workers
<1>5. sinks \subseteq Real
  BY <1>2, <1>3, <1>4, ServerTypes, SinkNames DEF SoundServer!Stale
<1> QED BY <1>5, ServerTypes

LEMMA ServerStays == SoundServer!Inv /\ UNCHANGED serverVars => SoundServer!Inv'
  BY DEF serverVars, SoundServer!Inv, SoundServer!TypeOK, SoundServer!Speakers, SoundServer!Own, SoundServer!Cleans, SoundServer!Stale, SoundServer!OwnSink

----------------------------------------------------------------------------
(* The virtual microphone.                                                 *)

LEMMA VirtualMicInit == VirtualMic!Init => VirtualMic!Inv
<1> SUFFICES ASSUME VirtualMic!Init PROVE VirtualMic!Inv
  OBVIOUS
<1> USE DEF VirtualMic!Init
<1>1. VirtualMic!Typed
  BY DEF VirtualMic!Typed, VirtualMic!Threads, VirtualMic!Steps
<1>2. VirtualMic!Apart
  BY DEF VirtualMic!Apart, VirtualMic!Loads, VirtualMic!Removes, VirtualMic!Unmarked,
         VirtualMic!Loaded, VirtualMic!Threads
<1> QED BY <1>1, <1>2 DEF VirtualMic!Inv

LEMMA VirtualMicNext ==
  ASSUME VirtualMic!Inv, VirtualMic!Next
  PROVE  VirtualMic!Inv'
<1> USE DEF VirtualMic!Inv, VirtualMic!Typed, VirtualMic!Apart, VirtualMic!Loads,
            VirtualMic!Removes, VirtualMic!Loaded, VirtualMic!Unmarked, VirtualMic!Threads, VirtualMic!Steps,
            VirtualMic!Requests, VirtualMic!Go, VirtualMic!Told, VirtualMic!AfterSink,
            VirtualMic!devices, VirtualMic!files, VirtualMic!ghosts, VirtualMic!bounds, VirtualMic!Fault
<1>1. ASSUME NEW t \in VirtualMic!Threads, VirtualMic!LookSink(t)
      PROVE  VirtualMic!Inv'
  BY <1>1 DEF VirtualMic!LookSink, VirtualMic!Look
<1>2. ASSUME NEW t \in VirtualMic!Threads, VirtualMic!LookSource(t)
      PROVE  VirtualMic!Inv'
  BY <1>2 DEF VirtualMic!LookSource, VirtualMic!Look
<1>3. ASSUME NEW t \in VirtualMic!Threads, VirtualMic!LoadSink(t)
      PROVE  VirtualMic!Inv'
  BY <1>3 DEF VirtualMic!LoadSink
<1>4. ASSUME NEW t \in VirtualMic!Threads, VirtualMic!LoadSource(t)
      PROVE  VirtualMic!Inv'
  <2>0. sources' \in Nat
    <3>1. CASE absent[t]
    BY <1>4, <3>1 DEF VirtualMic!LoadSource
    <3>2. CASE ~absent[t]
    BY <1>4, <3>2 DEF VirtualMic!LoadSource
    <3> QED BY <3>1, <3>2
  <2>1. VirtualMic!Typed'
    <3>1. pc' \in [VirtualMic!Threads -> VirtualMic!Steps]
    BY <1>4 DEF VirtualMic!LoadSource
    <3>2. lapsed' = FALSE /\ UNCHANGED <<micSinks, absent, listed, server, marker, dropIn, app, met>>
    BY <1>4 DEF VirtualMic!LoadSource
    <3> QED BY <2>0, <3>1, <3>2
  <2>2. server = TRUE /\ app = TRUE
  BY <1>4 DEF VirtualMic!LoadSource
  <2>3. ~met => VirtualMic!Apart'
    <3>1. CASE t = "user"
    BY <1>4, <3>1 DEF VirtualMic!LoadSource
    <3>2. CASE t = "restore"
    BY <1>4, <3>2 DEF VirtualMic!LoadSource
    <3> QED BY <3>1, <3>2
  <2> QED BY <1>4, <2>1, <2>2, <2>3 DEF VirtualMic!LoadSource
<1>5. ASSUME NEW t \in VirtualMic!Threads, VirtualMic!Connect(t)
      PROVE  VirtualMic!Inv'
  BY <1>5 DEF VirtualMic!Connect
<1>6. ASSUME NEW t \in VirtualMic!Threads, VirtualMic!Broken(t)
      PROVE  VirtualMic!Inv'
  BY <1>6 DEF VirtualMic!Broken
<1>7. CASE VirtualMic!AppStart
  BY <1>7 DEF VirtualMic!AppStart
<1>8. CASE VirtualMic!Install
  BY <1>8 DEF VirtualMic!Install, VirtualMic!Command
<1>9. CASE VirtualMic!Uninstall
  BY <1>9 DEF VirtualMic!Uninstall, VirtualMic!Command
<1>10. CASE VirtualMic!Mark
  BY <1>10 DEF VirtualMic!Mark
<1>11. CASE VirtualMic!WriteDropIn
  BY <1>11 DEF VirtualMic!WriteDropIn
<1>12. CASE VirtualMic!Unmark
  <2>1. CASE marker' = FALSE /\ dropIn' = FALSE /\ pc' = [pc EXCEPT !["user"] = "unconnect"]
  BY <1>12, <2>1 DEF VirtualMic!Unmark
  <2>2. CASE marker' \in {marker, FALSE} /\ dropIn' = dropIn /\ pc' = [pc EXCEPT !["user"] = "idle"]
  BY <1>12, <2>2 DEF VirtualMic!Unmark
  <2> QED BY <1>12, <2>1, <2>2 DEF VirtualMic!Unmark, VirtualMic!Unmarks
<1>13. CASE VirtualMic!Unconnect
  BY <1>13 DEF VirtualMic!Unconnect
<1>14. CASE VirtualMic!List
  BY <1>14 DEF VirtualMic!List
<1>15. CASE VirtualMic!UnloadSource
  BY <1>15 DEF VirtualMic!UnloadSource
<1>16. CASE VirtualMic!UnloadSink
  BY <1>16 DEF VirtualMic!UnloadSink
<1>17. CASE VirtualMic!ServerStop
  <2>1. /\ micSinks' = 0 /\ sources' = 0 /\ server' = FALSE /\ lapsed' = TRUE
      /\ UNCHANGED <<marker, dropIn, app, absent, listed, want, met>>
  BY <1>17 DEF VirtualMic!ServerStop
  <2>2. pc' \in [VirtualMic!Threads -> VirtualMic!Steps]
  BY <1>17 DEF VirtualMic!ServerStop
  <2>3. \A t \in VirtualMic!Threads :
        /\ pc'[t] \notin VirtualMic!Requests /\ pc'[t] # "mark"
        /\ pc'[t] = "idle" <=> pc[t] = "idle"
        /\ pc'[t] = "unconnect" => pc[t] = "unconnect"
  BY <1>17 DEF VirtualMic!ServerStop
  <2>4. VirtualMic!Typed'
  BY <2>1, <2>2
  <2>5. ~met => VirtualMic!Apart'
  BY <2>1, <2>2, <2>3
  <2> QED BY <2>1, <2>3, <2>4, <2>5
<1>18. CASE VirtualMic!ServerStart
  <2>1. /\ server' = TRUE /\ ~server /\ lapsed
      /\ UNCHANGED <<marker, dropIn, app, pc, absent, listed, want, met>>
  BY <1>18 DEF VirtualMic!ServerStart
  <2>2. CASE micSinks' = 1 /\ sources' = 1 /\ lapsed' = FALSE /\ dropIn
    <3>1. VirtualMic!Typed'
    BY <2>1, <2>2
    <3>2. ~met => VirtualMic!Apart'
    BY <2>1, <2>2
    <3> QED BY <2>1, <3>1, <3>2
  <2>3. CASE UNCHANGED <<micSinks, sources, lapsed>>
    <3>1. VirtualMic!Typed'
    BY <2>1, <2>3
    <3>2. ~met => VirtualMic!Apart'
    BY <2>1, <2>3
    <3> QED BY <2>1, <3>1, <3>2
  <2> QED BY <1>18, <2>2, <2>3 DEF VirtualMic!ServerStart
<1>19. CASE VirtualMic!AppExit
  BY <1>19 DEF VirtualMic!AppExit
<1> QED
  BY <1>1, <1>2, <1>3, <1>4, <1>5, <1>6, <1>7, <1>8, <1>9, <1>10, <1>11, <1>12, <1>13, <1>14, <1>15, <1>16, <1>17, <1>18, <1>19 DEF VirtualMic!Next

\* With no command under way, what is loaded is what the user asked for.
LEMMA VirtualMicLeft ==
  VirtualMic!Inv => VirtualMic!Removed /\ VirtualMic!Available
  BY DEF VirtualMic!Inv, VirtualMic!Apart, VirtualMic!Loaded, VirtualMic!Unmarked,
         VirtualMic!Removed, VirtualMic!Available, VirtualMic!Quiet, VirtualMic!Threads

LEMMA VirtualMicStays == VirtualMic!Inv /\ UNCHANGED virtualVars => VirtualMic!Inv'
  BY DEF virtualVars, VirtualMic!Inv, VirtualMic!Typed, VirtualMic!Apart, VirtualMic!Loads,
         VirtualMic!Removes, VirtualMic!Unmarked, VirtualMic!Loaded

----------------------------------------------------------------------------
(* The devices of the computer.                                            *)

\* Sequences that an element is added to, or taken from.
LEMMA Grows ==
  ASSUME NEW S, NEW s \in Seq(S), NEW e \in S
  PROVE  /\ Append(s, e) \in Seq(S) /\ Append(s, e) # <<>>
         /\ Len(Append(s, e)) = Len(s) + 1 /\ Len(s) \in Nat
         /\ DOMAIN Append(s, e) = 1 .. Len(s) + 1 /\ DOMAIN s = 1 .. Len(s)
         /\ \A i \in 1 .. Len(s) : Append(s, e)[i] = s[i]
         /\ Append(s, e)[Len(s) + 1] = e
  OBVIOUS

LEMMA Shrinks ==
  ASSUME NEW S, NEW s \in Seq(S), s # <<>>
  PROVE  /\ Tail(s) \in Seq(S) /\ Head(s) \in S /\ Head(s) = s[1]
         /\ Len(s) \in Nat \ {0} /\ Len(Tail(s)) = Len(s) - 1
         /\ DOMAIN Tail(s) = 1 .. Len(s) - 1 /\ DOMAIN s = 1 .. Len(s)
         /\ \A i \in 1 .. Len(s) - 1 : Tail(s)[i] = s[i + 1]
  OBVIOUS

LEMMA EmptyOnly == \A S : \A s \in Seq(S) : s = <<>> <=> Len(s) = 0
  OBVIOUS

\* What a channel tells once a change is sent, or received.
LEMMA MoreTold ==
  ASSUME NEW s \in Seq(DeviceEvents!Changes), NEW c \in DeviceEvents!Changes
  PROVE  /\ Append(s, c) \in Seq(DeviceEvents!Changes) /\ Append(s, c) # <<>>
         /\ DeviceEvents!HasDefault(Append(s, c)) <=> DeviceEvents!HasDefault(s) \/ c.default
<1>1. /\ Append(s, c) \in Seq(DeviceEvents!Changes) /\ Append(s, c) # <<>> /\ Len(s) \in Nat
      /\ DOMAIN Append(s, c) = 1 .. Len(s) + 1 /\ DOMAIN s = 1 .. Len(s)
      /\ \A i \in 1 .. Len(s) : Append(s, c)[i] = s[i]
      /\ Append(s, c)[Len(s) + 1] = c
  BY Grows
<1> QED BY <1>1 DEF DeviceEvents!HasDefault

LEMMA LessTold ==
  ASSUME NEW s \in Seq(DeviceEvents!Changes), s # <<>>
  PROVE  /\ Tail(s) \in Seq(DeviceEvents!Changes) /\ Head(s) \in DeviceEvents!Changes
         /\ DeviceEvents!HasDefault(s) <=> Head(s).default \/ DeviceEvents!HasDefault(Tail(s))
<1>1. /\ Tail(s) \in Seq(DeviceEvents!Changes) /\ Head(s) \in DeviceEvents!Changes
           /\ Head(s) = s[1]
      /\ Len(s) \in Nat \ {0}
      /\ DOMAIN Tail(s) = 1 .. Len(s) - 1 /\ DOMAIN s = 1 .. Len(s)
      /\ \A i \in 1 .. Len(s) - 1 : Tail(s)[i] = s[i + 1]
  BY Shrinks
<1>2. \A i \in DOMAIN s : i = 1 \/ (i - 1 \in DOMAIN Tail(s) /\ s[i] = Tail(s)[i - 1])
  BY <1>1
<1>3. ASSUME DeviceEvents!HasDefault(s) PROVE Head(s).default
               \/ DeviceEvents!HasDefault(Tail(s))
  BY <1>1, <1>2, <1>3 DEF DeviceEvents!HasDefault
<1>4. ASSUME DeviceEvents!HasDefault(Tail(s)) PROVE DeviceEvents!HasDefault(s)
  <2>1. PICK i \in DOMAIN Tail(s) : Tail(s)[i].default
    BY <1>4 DEF DeviceEvents!HasDefault
  <2>2. i + 1 \in DOMAIN s /\ s[i + 1].default
    BY <1>1, <2>1
  <2> QED BY <2>2 DEF DeviceEvents!HasDefault
<1>5. ASSUME Head(s).default PROVE DeviceEvents!HasDefault(s)
  BY <1>1, <1>5 DEF DeviceEvents!HasDefault
<1> QED BY <1>1, <1>3, <1>4, <1>5

LEMMA ChangeTold ==
  ASSUME NEW d \in BOOLEAN
  PROVE  DeviceEvents!Change(d) \in DeviceEvents!Changes /\ DeviceEvents!Change(d).default = d
  BY DEF DeviceEvents!Change, DeviceEvents!Changes

LEMMA MergeTold ==
  ASSUME NEW a \in DeviceEvents!Changes, NEW b \in DeviceEvents!Changes
  PROVE  /\ DeviceEvents!Merge(a, b) \in DeviceEvents!Changes
         /\ DeviceEvents!Merge(a, b).default <=> a.default \/ b.default
  BY DEF DeviceEvents!Merge, DeviceEvents!Changes

\* What was told, when a step leaves it alone, tells one change more, or hands it on.
LEMMA ToldStays ==
  ASSUME UNCHANGED <<changes, merging, calls>>
  PROVE  /\ DeviceEvents!ToldTyped => DeviceEvents!ToldTyped' 
         /\ DeviceEvents!DefaultTold' <=> DeviceEvents!DefaultTold
         /\ DeviceEvents!AnyTold' <=> DeviceEvents!AnyTold
  BY DEF DeviceEvents!ToldTyped, DeviceEvents!DefaultTold, DeviceEvents!AnyTold,
         DeviceEvents!HasDefault

LEMMA ToldOneMore ==
  ASSUME DeviceEvents!ToldTyped, NEW d \in BOOLEAN,
         changes' = Append(changes, DeviceEvents!Change(d)), UNCHANGED <<merging, calls>>
  PROVE  DeviceEvents!ToldTyped' /\ DeviceEvents!AnyTold'
           /\ (DeviceEvents!DefaultTold' <=> DeviceEvents!DefaultTold \/ d)
<1> DEFINE c == DeviceEvents!Change(d)
<1>1. c \in DeviceEvents!Changes /\ c.default = d
  BY ChangeTold
<1> HIDE DEF c
<1>2. /\ Append(changes, c) \in Seq(DeviceEvents!Changes) /\ Append(changes, c) # <<>>
      /\ DeviceEvents!HasDefault(Append(changes, c)) <=> DeviceEvents!HasDefault(changes)
           \/ c.default
  BY <1>1, MoreTold DEF DeviceEvents!ToldTyped
<1>3. DeviceEvents!HasDefault(calls)' = DeviceEvents!HasDefault(calls)
  BY DEF DeviceEvents!HasDefault
<1>4. DeviceEvents!HasDefault(changes)' = DeviceEvents!HasDefault(Append(changes, c))
  BY DEF DeviceEvents!HasDefault, c
<1>5. changes' = Append(changes, c)
  BY DEF c
<1> QED BY <1>1, <1>2, <1>3, <1>4, <1>5
        DEF DeviceEvents!ToldTyped, DeviceEvents!DefaultTold, DeviceEvents!AnyTold

LEMMA ToldReceived ==
  ASSUME DeviceEvents!ToldTyped, DeviceEvents!Receive
  PROVE  DeviceEvents!ToldTyped' /\ DeviceEvents!AnyTold'
           /\ (DeviceEvents!DefaultTold' <=> DeviceEvents!DefaultTold)
<1>1. /\ changes # <<>> /\ changes' = Tail(changes) /\ calls' = calls
      /\ merging' = IF merging = {} THEN {Head(changes)}
           ELSE {DeviceEvents!Merge(b, Head(changes)) : b \in merging}
  BY DEF DeviceEvents!Receive
<1> DEFINE c == Head(changes)
<1>2. /\ Tail(changes) \in Seq(DeviceEvents!Changes) /\ c \in DeviceEvents!Changes
      /\ DeviceEvents!HasDefault(changes) <=> c.default
           \/ DeviceEvents!HasDefault(Tail(changes))
  BY <1>1, LessTold DEF DeviceEvents!ToldTyped
<1>3. DeviceEvents!HasDefault(calls)' = DeviceEvents!HasDefault(calls)
        /\ DeviceEvents!HasDefault(changes)' = DeviceEvents!HasDefault(Tail(changes))
  BY <1>1 DEF DeviceEvents!HasDefault
<1> HIDE DEF c
<1>4. merging' = IF merging = {} THEN {c} ELSE {DeviceEvents!Merge(b, c) : b \in merging}
  BY <1>1 DEF c
<1>5. /\ merging' \subseteq DeviceEvents!Changes /\ merging' # {}
           /\ \A a, b \in merging' : a = b
      /\ (\E b \in merging' : b.default) <=> (\E b \in merging : b.default) \/ c.default
  <2>1. CASE merging = {}
    BY <1>2, <1>4, <2>1
  <2>2. CASE merging # {}
    <3>1. PICK b \in merging : merging = {b} /\ b \in DeviceEvents!Changes
      BY <2>2 DEF DeviceEvents!ToldTyped
    <3>2. merging' = {DeviceEvents!Merge(b, c)}
      BY <1>4, <3>1
    <3>3. DeviceEvents!Merge(b, c) \in DeviceEvents!Changes
            /\ (DeviceEvents!Merge(b, c).default <=> b.default \/ c.default)
      BY <1>2, <3>1, MergeTold
    <3> QED BY <3>1, <3>2, <3>3
  <2> QED BY <2>1, <2>2
<1>6. changes' \in Seq(DeviceEvents!Changes) /\ calls' \in Seq(DeviceEvents!Changes)
  BY <1>1, <1>2 DEF DeviceEvents!ToldTyped
<1> QED BY <1>2, <1>3, <1>5, <1>6
        DEF DeviceEvents!ToldTyped, DeviceEvents!DefaultTold, DeviceEvents!AnyTold

LEMMA ToldSettled ==
  ASSUME DeviceEvents!ToldTyped, DeviceEvents!Settled
  PROVE  DeviceEvents!ToldTyped' /\ DeviceEvents!AnyTold'
           /\ (DeviceEvents!DefaultTold' <=> DeviceEvents!DefaultTold)
<1>1. PICK b \in merging : calls' = Append(calls, b)
  BY DEF DeviceEvents!Settled
<1>2. changes' = changes /\ merging' = {}
  BY DEF DeviceEvents!Settled
<1>3. /\ Append(calls, b) \in Seq(DeviceEvents!Changes) /\ Append(calls, b) # <<>>
      /\ DeviceEvents!HasDefault(Append(calls, b)) <=> DeviceEvents!HasDefault(calls)
           \/ b.default
  BY <1>1, MoreTold DEF DeviceEvents!ToldTyped
<1>4. DeviceEvents!HasDefault(calls)' = DeviceEvents!HasDefault(Append(calls, b))
        /\ DeviceEvents!HasDefault(changes)' = DeviceEvents!HasDefault(changes)
  BY <1>1, <1>2 DEF DeviceEvents!HasDefault
<1>5. \A a \in merging : a = b
  BY DEF DeviceEvents!ToldTyped
<1> QED BY <1>1, <1>2, <1>3, <1>4, <1>5
        DEF DeviceEvents!ToldTyped, DeviceEvents!DefaultTold, DeviceEvents!AnyTold

LEMMA ToldHeard ==
  ASSUME DeviceEvents!ToldTyped, DeviceEvents!OnAudioDevicesChanged
  PROVE  DeviceEvents!ToldTyped' /\ (DeviceEvents!DefaultTold <=> Head(calls).default
           \/ DeviceEvents!DefaultTold')
<1>1. calls # <<>> /\ calls' = Tail(calls) /\ changes' = changes /\ merging' = merging
  BY DEF DeviceEvents!OnAudioDevicesChanged
<1>2. /\ Tail(calls) \in Seq(DeviceEvents!Changes)
      /\ DeviceEvents!HasDefault(calls) <=> Head(calls).default
           \/ DeviceEvents!HasDefault(Tail(calls))
  BY <1>1, LessTold DEF DeviceEvents!ToldTyped
<1>3. DeviceEvents!HasDefault(calls)' = DeviceEvents!HasDefault(Tail(calls))
        /\ DeviceEvents!HasDefault(changes)' = DeviceEvents!HasDefault(changes)
  BY <1>1 DEF DeviceEvents!HasDefault
<1> QED BY <1>1, <1>2, <1>3 DEF DeviceEvents!ToldTyped, DeviceEvents!DefaultTold

\* What the route and the list of devices lack is on its way to the engine: a notice
\* of the server, a change between the threads, or a listing under way.
LEMMA DevicesInit == DeviceEvents!Init => DeviceEvents!Inv
<1> SUFFICES ASSUME DeviceEvents!Init PROVE DeviceEvents!Inv
  OBVIOUS
<1> USE DEF DeviceEvents!Init
<1>1. DeviceEvents!Typed
  <2>1. DeviceEvents!ToldTyped
    BY DEF DeviceEvents!ToldTyped
  <2>2. listings \in [Jobs -> [st: {"free", "lists", "has"}, list: Nat]]
    BY DEF DeviceEvents!Free
  <2>3. /\ sound \in [up: BOOLEAN, list: Nat, default: Nat]
        /\ pending \in [devices: BOOLEAN, server: BOOLEAN]
    OBVIOUS
  <2>4. /\ player \in [status: {"none", "opening", "opened", "active"}, on: Nat]
        /\ lists \in Seq(Nat)
    OBVIOUS
  <2> QED BY <2>1, <2>2, <2>3, <2>4 DEF DeviceEvents!Typed
<1>2. DeviceEvents!Numbered /\ DeviceEvents!Watched /\ DeviceEvents!Follows
        /\ DeviceEvents!Present
  BY DEF DeviceEvents!Numbered, DeviceEvents!Watched, DeviceEvents!Follows,
         DeviceEvents!Present, DeviceEvents!Coming, DeviceEvents!Newest, DeviceEvents!Free,
         DeviceEvents!AnyTold
<1> QED BY <1>1, <1>2 DEF DeviceEvents!Inv

LEMMA DevicesNext ==
  ASSUME DeviceEvents!Inv, DeviceEvents!Next
  PROVE  DeviceEvents!Inv'
<1> USE DEF DeviceEvents!thread, DeviceEvents!engine
<1>1. CASE DeviceEvents!ServerStops
  <2> USE <1>1 DEF DeviceEvents!ServerStops
  <2>0. DeviceEvents!ToldTyped' /\ (DeviceEvents!DefaultTold' <=> DeviceEvents!DefaultTold)
          /\ (DeviceEvents!AnyTold' <=> DeviceEvents!AnyTold)
    BY ToldStays DEF DeviceEvents!Inv, DeviceEvents!Typed
  <2>1. DeviceEvents!Typed'
    <3>1. sound' \in [up: BOOLEAN, list: Nat, default: Nat]
      BY DEF DeviceEvents!Inv, DeviceEvents!Typed
    <3>2. restarts' \in Nat
      BY DEF DeviceEvents!Inv, DeviceEvents!Typed
    <3> QED BY <2>0, <3>1, <3>2 DEF DeviceEvents!Inv, DeviceEvents!Typed
  <2>2. DeviceEvents!Numbered'
    BY DEF DeviceEvents!Inv, DeviceEvents!Typed, DeviceEvents!Numbered, DeviceEvents!Free
  <2>3. DeviceEvents!Watched'
    BY DEF DeviceEvents!Inv, DeviceEvents!Typed, DeviceEvents!Watched, DeviceEvents!Subscribed
  <2>4. DeviceEvents!Follows'
    BY <2>0
    DEF DeviceEvents!Inv, DeviceEvents!Typed, DeviceEvents!Watched, DeviceEvents!Follows,
        DeviceEvents!Unread
  <2>5. DeviceEvents!Present'
    BY <2>0
    DEF DeviceEvents!Inv, DeviceEvents!Typed, DeviceEvents!Watched, DeviceEvents!Present,
        DeviceEvents!Coming, DeviceEvents!Listing, DeviceEvents!Newest, DeviceEvents!Subscribed,
        DeviceEvents!Unread, DeviceEvents!Free
  <2> QED BY <2>1, <2>2, <2>3, <2>4, <2>5 DEF DeviceEvents!Inv
<1>2. CASE DeviceEvents!ServerStarts
  <2> USE <1>2 DEF DeviceEvents!ServerStarts
  <2>0. DeviceEvents!ToldTyped' /\ (DeviceEvents!DefaultTold' <=> DeviceEvents!DefaultTold)
          /\ (DeviceEvents!AnyTold' <=> DeviceEvents!AnyTold)
    BY ToldStays DEF DeviceEvents!Inv, DeviceEvents!Typed
  <2>1. DeviceEvents!Typed'
    BY <2>0 DEF DeviceEvents!Inv, DeviceEvents!Typed, DeviceEvents!Free
  <2>2. DeviceEvents!Numbered'
    BY DEF DeviceEvents!Inv, DeviceEvents!Typed, DeviceEvents!Numbered, DeviceEvents!Free
  <2>3. DeviceEvents!Watched'
    BY DEF DeviceEvents!Inv, DeviceEvents!Typed, DeviceEvents!Watched, DeviceEvents!Subscribed
  <2>4. DeviceEvents!Follows'
    BY <2>0
    DEF DeviceEvents!Inv, DeviceEvents!Typed, DeviceEvents!Watched, DeviceEvents!Follows,
        DeviceEvents!Unread
  <2>5. DeviceEvents!Present'
    BY <2>0
    DEF DeviceEvents!Inv, DeviceEvents!Typed, DeviceEvents!Watched, DeviceEvents!Present,
        DeviceEvents!Coming, DeviceEvents!Listing, DeviceEvents!Newest, DeviceEvents!Subscribed,
        DeviceEvents!Unread, DeviceEvents!Free
  <2> QED BY <2>1, <2>2, <2>3, <2>4, <2>5 DEF DeviceEvents!Inv
<1>3. CASE DeviceEvents!Subscribe
  <2> USE <1>3 DEF DeviceEvents!Subscribe
  <2>0. DeviceEvents!ToldTyped' /\ (DeviceEvents!DefaultTold' <=> DeviceEvents!DefaultTold)
          /\ (DeviceEvents!AnyTold' <=> DeviceEvents!AnyTold)
    BY ToldStays DEF DeviceEvents!Inv, DeviceEvents!Typed
  <2>1. DeviceEvents!Typed'
    BY <2>0 DEF DeviceEvents!Inv, DeviceEvents!Typed, DeviceEvents!Free
  <2>2. DeviceEvents!Numbered'
    BY DEF DeviceEvents!Inv, DeviceEvents!Typed, DeviceEvents!Numbered, DeviceEvents!Free
  <2>3. DeviceEvents!Watched'
    BY DEF DeviceEvents!Inv, DeviceEvents!Typed, DeviceEvents!Watched, DeviceEvents!Subscribed
  <2>4. DeviceEvents!Follows'
    BY <2>0
    DEF DeviceEvents!Inv, DeviceEvents!Typed, DeviceEvents!Watched, DeviceEvents!Follows,
        DeviceEvents!Unread
  <2>5. DeviceEvents!Present'
    BY <2>0
    DEF DeviceEvents!Inv, DeviceEvents!Typed, DeviceEvents!Watched, DeviceEvents!Present,
        DeviceEvents!Coming, DeviceEvents!Listing, DeviceEvents!Newest, DeviceEvents!Subscribed,
        DeviceEvents!Unread, DeviceEvents!Free
  <2> QED BY <2>1, <2>2, <2>3, <2>4, <2>5 DEF DeviceEvents!Inv
<1>4. CASE DeviceEvents!AskDefault
  <2> USE <1>4 DEF DeviceEvents!AskDefault
  <2>0. DeviceEvents!ToldTyped' /\ (DeviceEvents!DefaultTold' <=> DeviceEvents!DefaultTold)
          /\ (DeviceEvents!AnyTold' <=> DeviceEvents!AnyTold)
    BY ToldStays DEF DeviceEvents!Inv, DeviceEvents!Typed
  <2>1. DeviceEvents!Typed'
    BY <2>0 DEF DeviceEvents!Inv, DeviceEvents!Typed, DeviceEvents!Free
  <2>2. DeviceEvents!Numbered'
    BY DEF DeviceEvents!Inv, DeviceEvents!Typed, DeviceEvents!Numbered, DeviceEvents!Free
  <2>3. DeviceEvents!Watched'
    BY DEF DeviceEvents!Inv, DeviceEvents!Typed, DeviceEvents!Watched, DeviceEvents!Subscribed
  <2>4. DeviceEvents!Follows'
    BY <2>0
    DEF DeviceEvents!Inv, DeviceEvents!Typed, DeviceEvents!Watched, DeviceEvents!Follows,
        DeviceEvents!Unread
  <2>5. DeviceEvents!Present'
    BY <2>0
    DEF DeviceEvents!Inv, DeviceEvents!Typed, DeviceEvents!Watched, DeviceEvents!Present,
        DeviceEvents!Coming, DeviceEvents!Listing, DeviceEvents!Newest, DeviceEvents!Subscribed,
        DeviceEvents!Unread, DeviceEvents!Free
  <2> QED BY <2>1, <2>2, <2>3, <2>4, <2>5 DEF DeviceEvents!Inv
<1>5. CASE DeviceEvents!RouteStarts
  <2> USE <1>5 DEF DeviceEvents!RouteStarts
  <2>0. DeviceEvents!ToldTyped' /\ (DeviceEvents!DefaultTold' <=> DeviceEvents!DefaultTold)
          /\ (DeviceEvents!AnyTold' <=> DeviceEvents!AnyTold)
    BY ToldStays DEF DeviceEvents!Inv, DeviceEvents!Typed
  <2>1. DeviceEvents!Typed'
    BY <2>0 DEF DeviceEvents!Inv, DeviceEvents!Typed, DeviceEvents!Free
  <2>2. DeviceEvents!Numbered'
    BY DEF DeviceEvents!Inv, DeviceEvents!Typed, DeviceEvents!Numbered, DeviceEvents!Free
  <2>3. DeviceEvents!Watched'
    BY DEF DeviceEvents!Inv, DeviceEvents!Typed, DeviceEvents!Watched, DeviceEvents!Subscribed
  <2>4. DeviceEvents!Follows'
    BY <2>0
    DEF DeviceEvents!Inv, DeviceEvents!Typed, DeviceEvents!Watched, DeviceEvents!Follows,
        DeviceEvents!Unread
  <2>5. DeviceEvents!Present'
    BY <2>0
    DEF DeviceEvents!Inv, DeviceEvents!Typed, DeviceEvents!Watched, DeviceEvents!Present,
        DeviceEvents!Coming, DeviceEvents!Listing, DeviceEvents!Newest, DeviceEvents!Subscribed,
        DeviceEvents!Unread, DeviceEvents!Free
  <2> QED BY <2>1, <2>2, <2>3, <2>4, <2>5 DEF DeviceEvents!Inv
<1>6. CASE DeviceEvents!RouteOpens
  <2> USE <1>6 DEF DeviceEvents!RouteOpens
  <2>0. DeviceEvents!ToldTyped' /\ (DeviceEvents!DefaultTold' <=> DeviceEvents!DefaultTold)
          /\ (DeviceEvents!AnyTold' <=> DeviceEvents!AnyTold)
    BY ToldStays DEF DeviceEvents!Inv, DeviceEvents!Typed
  <2>1. DeviceEvents!Typed'
    BY <2>0 DEF DeviceEvents!Inv, DeviceEvents!Typed, DeviceEvents!Free
  <2>2. DeviceEvents!Numbered'
    BY DEF DeviceEvents!Inv, DeviceEvents!Typed, DeviceEvents!Numbered, DeviceEvents!Free
  <2>3. DeviceEvents!Watched'
    BY DEF DeviceEvents!Inv, DeviceEvents!Typed, DeviceEvents!Watched, DeviceEvents!Subscribed
  <2>4. DeviceEvents!Follows'
    BY <2>0
    DEF DeviceEvents!Inv, DeviceEvents!Typed, DeviceEvents!Watched, DeviceEvents!Follows,
        DeviceEvents!Unread
  <2>5. DeviceEvents!Present'
    BY <2>0
    DEF DeviceEvents!Inv, DeviceEvents!Typed, DeviceEvents!Watched, DeviceEvents!Present,
        DeviceEvents!Coming, DeviceEvents!Listing, DeviceEvents!Newest, DeviceEvents!Subscribed,
        DeviceEvents!Unread, DeviceEvents!Free
  <2> QED BY <2>1, <2>2, <2>3, <2>4, <2>5 DEF DeviceEvents!Inv
<1>7. CASE DeviceEvents!RouteReady
  <2> USE <1>7 DEF DeviceEvents!RouteReady
  <2>0. DeviceEvents!ToldTyped' /\ (DeviceEvents!DefaultTold' <=> DeviceEvents!DefaultTold)
          /\ (DeviceEvents!AnyTold' <=> DeviceEvents!AnyTold)
    BY ToldStays DEF DeviceEvents!Inv, DeviceEvents!Typed
  <2>1. DeviceEvents!Typed'
    BY <2>0 DEF DeviceEvents!Inv, DeviceEvents!Typed, DeviceEvents!Free
  <2>2. DeviceEvents!Numbered'
    BY DEF DeviceEvents!Inv, DeviceEvents!Typed, DeviceEvents!Numbered, DeviceEvents!Free
  <2>3. DeviceEvents!Watched'
    BY DEF DeviceEvents!Inv, DeviceEvents!Typed, DeviceEvents!Watched, DeviceEvents!Subscribed
  <2>4. DeviceEvents!Follows'
    BY <2>0
    DEF DeviceEvents!Inv, DeviceEvents!Typed, DeviceEvents!Watched, DeviceEvents!Follows,
        DeviceEvents!Unread
  <2>5. DeviceEvents!Present'
    BY <2>0
    DEF DeviceEvents!Inv, DeviceEvents!Typed, DeviceEvents!Watched, DeviceEvents!Present,
        DeviceEvents!Coming, DeviceEvents!Listing, DeviceEvents!Newest, DeviceEvents!Subscribed,
        DeviceEvents!Unread, DeviceEvents!Free
  <2> QED BY <2>1, <2>2, <2>3, <2>4, <2>5 DEF DeviceEvents!Inv
<1>8. CASE DeviceEvents!OnListed
  <2> USE <1>8 DEF DeviceEvents!OnListed
  <2>0. DeviceEvents!ToldTyped' /\ (DeviceEvents!DefaultTold' <=> DeviceEvents!DefaultTold)
          /\ (DeviceEvents!AnyTold' <=> DeviceEvents!AnyTold)
    BY ToldStays DEF DeviceEvents!Inv, DeviceEvents!Typed
  <2>1. DeviceEvents!Typed'
    BY <2>0 DEF DeviceEvents!Inv, DeviceEvents!Typed, DeviceEvents!Free
  <2>2. DeviceEvents!Numbered'
    BY DEF DeviceEvents!Inv, DeviceEvents!Typed, DeviceEvents!Numbered, DeviceEvents!Free
  <2>3. DeviceEvents!Watched'
    BY DEF DeviceEvents!Inv, DeviceEvents!Typed, DeviceEvents!Watched, DeviceEvents!Subscribed
  <2>4. DeviceEvents!Follows'
    BY <2>0
    DEF DeviceEvents!Inv, DeviceEvents!Typed, DeviceEvents!Watched, DeviceEvents!Follows,
        DeviceEvents!Unread
  <2>5. DeviceEvents!Present'
    <3>1. lists \in Seq(Nat) /\ lists # <<>> /\ lists' = Tail(lists) /\ devices' = Head(lists)
      BY DEF DeviceEvents!Inv, DeviceEvents!Typed
    <3>2. /\ Len(lists) \in Nat \ {0} /\ Len(lists') = Len(lists) - 1 /\ Head(lists) = lists[1]
          /\ \A i \in 1 .. Len(lists) - 1 : lists'[i] = lists[i + 1]
          /\ lists' \in Seq(Nat)
      BY <3>1, Shrinks
    <3>3. DeviceEvents!Newest' = DeviceEvents!Newest
      <4>1. CASE lists' = <<>>
        <5>1. Len(lists) = 1
          <6> HIDE <1>8
          <6>1. Len(lists') = 0
            BY <3>2, <4>1, EmptyOnly
          <6> QED BY <3>2, <6>1
        <5> QED BY <3>1, <3>2, <4>1, <5>1 DEF DeviceEvents!Newest
      <4>2. CASE lists' # <<>>
        <5>1. Len(lists') \in 1 .. Len(lists) - 1 /\ Len(lists') + 1 = Len(lists)
          BY <3>2, <4>2
        <5>2. lists'[Len(lists')] = lists[Len(lists)]
          BY <3>2, <5>1
        <5> QED BY <3>1, <4>2, <5>2 DEF DeviceEvents!Newest
      <4> QED BY <4>1, <4>2
    <3> QED BY <2>0, <3>3
            DEF DeviceEvents!Inv, DeviceEvents!Present, DeviceEvents!Coming,
                DeviceEvents!Listing, DeviceEvents!Subscribed
  <2> QED BY <2>1, <2>2, <2>3, <2>4, <2>5 DEF DeviceEvents!Inv
<1>9. CASE DeviceEvents!Plug
  <2> USE <1>9 DEF DeviceEvents!Plug
  <2>0. DeviceEvents!ToldTyped' /\ (DeviceEvents!DefaultTold => DeviceEvents!DefaultTold')
          /\ (DeviceEvents!AnyTold => DeviceEvents!AnyTold')
          /\ (watcher = "direct" => DeviceEvents!AnyTold')
    <3>1. CASE watcher = "direct"
      BY <3>1, ToldOneMore DEF DeviceEvents!CallsBack, DeviceEvents!Inv, DeviceEvents!Typed
    <3>2. CASE watcher # "direct"
      BY <3>2, ToldStays DEF DeviceEvents!CallsBack, DeviceEvents!Inv, DeviceEvents!Typed
    <3> QED BY <3>1, <3>2
  <2>1. DeviceEvents!Typed'
    <3>0. /\ sound \in [up: BOOLEAN, list: Nat, default: Nat] /\ deviceTurns \in Nat
          /\ sound' = [sound EXCEPT !.list = deviceTurns + 1]
      BY DEF DeviceEvents!Inv, DeviceEvents!Typed
    <3>1. sound' \in [up: BOOLEAN, list: Nat, default: Nat]
      <4> HIDE <1>9
      <4> QED BY <3>0
    <3>2. deviceTurns' \in Nat /\ unseen' \in BOOLEAN
      BY DEF DeviceEvents!Inv, DeviceEvents!Typed, DeviceEvents!Unread
    <3>3. pending' \in [devices: BOOLEAN, server: BOOLEAN]
      BY DEF DeviceEvents!Inv, DeviceEvents!Typed
    <3> QED BY <2>0, <3>1, <3>2, <3>3 DEF DeviceEvents!Inv, DeviceEvents!Typed
  <2>2. DeviceEvents!Numbered'
    BY DEF DeviceEvents!Inv, DeviceEvents!Typed, DeviceEvents!Numbered, DeviceEvents!Free
  <2>3. DeviceEvents!Watched'
    BY DEF DeviceEvents!Inv, DeviceEvents!Typed, DeviceEvents!Watched, DeviceEvents!Subscribed
  <2>4. DeviceEvents!Follows'
    BY <2>0
    DEF DeviceEvents!Inv, DeviceEvents!Typed, DeviceEvents!Watched, DeviceEvents!Follows,
        DeviceEvents!Unread
  <2>5. DeviceEvents!Present'
    BY <2>0
    DEF DeviceEvents!Inv, DeviceEvents!Typed, DeviceEvents!Watched, DeviceEvents!Present,
        DeviceEvents!Coming, DeviceEvents!Listing, DeviceEvents!Newest, DeviceEvents!Subscribed,
        DeviceEvents!Unread, DeviceEvents!Free
  <2> QED BY <2>1, <2>2, <2>3, <2>4, <2>5 DEF DeviceEvents!Inv
<1>10. CASE DeviceEvents!NewDefault
  <2> USE <1>10 DEF DeviceEvents!NewDefault
  <2>0. DeviceEvents!ToldTyped' /\ (DeviceEvents!DefaultTold => DeviceEvents!DefaultTold')
          /\ (DeviceEvents!AnyTold => DeviceEvents!AnyTold')
          /\ (watcher = "direct" => DeviceEvents!DefaultTold')
    <3>1. CASE watcher = "direct"
      BY <3>1, ToldOneMore DEF DeviceEvents!CallsBack, DeviceEvents!Inv, DeviceEvents!Typed
    <3>2. CASE watcher # "direct"
      BY <3>2, ToldStays DEF DeviceEvents!CallsBack, DeviceEvents!Inv, DeviceEvents!Typed
    <3> QED BY <3>1, <3>2
  <2>1. DeviceEvents!Typed'
    <3>0. /\ sound \in [up: BOOLEAN, list: Nat, default: Nat] /\ deviceTurns \in Nat
          /\ sound' = [sound EXCEPT !.default = deviceTurns + 1]
      BY DEF DeviceEvents!Inv, DeviceEvents!Typed
    <3>1. sound' \in [up: BOOLEAN, list: Nat, default: Nat]
      <4> HIDE <1>10
      <4> QED BY <3>0
    <3>2. deviceTurns' \in Nat /\ unseen' \in BOOLEAN
      BY DEF DeviceEvents!Inv, DeviceEvents!Typed, DeviceEvents!Unread
    <3>3. pending' \in [devices: BOOLEAN, server: BOOLEAN]
      BY DEF DeviceEvents!Inv, DeviceEvents!Typed
    <3> QED BY <2>0, <3>1, <3>2, <3>3 DEF DeviceEvents!Inv, DeviceEvents!Typed
  <2>2. DeviceEvents!Numbered'
    BY DEF DeviceEvents!Inv, DeviceEvents!Typed, DeviceEvents!Numbered, DeviceEvents!Free
  <2>3. DeviceEvents!Watched'
    BY DEF DeviceEvents!Inv, DeviceEvents!Typed, DeviceEvents!Watched, DeviceEvents!Subscribed
  <2>4. DeviceEvents!Follows'
    BY <2>0
    DEF DeviceEvents!Inv, DeviceEvents!Typed, DeviceEvents!Numbered, DeviceEvents!Watched,
        DeviceEvents!Follows, DeviceEvents!Unread
  <2>5. DeviceEvents!Present'
    BY <2>0
    DEF DeviceEvents!Inv, DeviceEvents!Typed, DeviceEvents!Watched, DeviceEvents!Present,
        DeviceEvents!Coming, DeviceEvents!Listing, DeviceEvents!Newest, DeviceEvents!Subscribed,
        DeviceEvents!Unread, DeviceEvents!Free
  <2> QED BY <2>1, <2>2, <2>3, <2>4, <2>5 DEF DeviceEvents!Inv
<1>11. CASE DeviceEvents!Connect
  <2> USE <1>11 DEF DeviceEvents!Connect
  <2>0. DeviceEvents!ToldTyped' /\ (DeviceEvents!DefaultTold => DeviceEvents!DefaultTold')
          /\ (DeviceEvents!AnyTold => DeviceEvents!AnyTold')
          /\ (watcher = "retry" => DeviceEvents!DefaultTold' /\ DeviceEvents!AnyTold')
    <3>1. CASE watcher = "retry"
      BY <3>1, ToldOneMore DEF DeviceEvents!ToldBack, DeviceEvents!Inv, DeviceEvents!Typed
    <3>2. CASE watcher # "retry"
      BY <3>2, ToldStays DEF DeviceEvents!Inv, DeviceEvents!Typed
    <3> QED BY <3>1, <3>2
  <2>1. DeviceEvents!Typed'
    BY <2>0 DEF DeviceEvents!Inv, DeviceEvents!Typed, DeviceEvents!Free
  <2>2. DeviceEvents!Numbered'
    BY DEF DeviceEvents!Inv, DeviceEvents!Typed, DeviceEvents!Numbered, DeviceEvents!Free
  <2>3. DeviceEvents!Watched'
    BY DEF DeviceEvents!Inv, DeviceEvents!Typed, DeviceEvents!Watched, DeviceEvents!Subscribed
  <2>4. DeviceEvents!Follows'
    BY <2>0
    DEF DeviceEvents!Inv, DeviceEvents!Typed, DeviceEvents!Watched, DeviceEvents!Follows,
        DeviceEvents!Unread
  <2>5. DeviceEvents!Present'
    BY <2>0
    DEF DeviceEvents!Inv, DeviceEvents!Typed, DeviceEvents!Watched, DeviceEvents!Present,
        DeviceEvents!Coming, DeviceEvents!Listing, DeviceEvents!Newest, DeviceEvents!Subscribed,
        DeviceEvents!Unread, DeviceEvents!Free
  <2> QED BY <2>1, <2>2, <2>3, <2>4, <2>5 DEF DeviceEvents!Inv
<1>12. CASE DeviceEvents!Follow
  <2> USE <1>12 DEF DeviceEvents!Follow
  <2>0. /\ DeviceEvents!ToldTyped' /\ (DeviceEvents!DefaultTold => DeviceEvents!DefaultTold')
             /\ (DeviceEvents!AnyTold => DeviceEvents!AnyTold')
        /\ (known' # known => DeviceEvents!DefaultTold')
             /\ (pending.devices => DeviceEvents!AnyTold')
    <3>1. CASE pending.devices \/ known' # known
      BY <3>1, ToldOneMore DEF DeviceEvents!Inv, DeviceEvents!Typed
    <3>2. CASE ~(pending.devices \/ known' # known)
      BY <3>2, ToldStays DEF DeviceEvents!Inv, DeviceEvents!Typed
    <3> QED BY <3>1, <3>2
  <2>1. DeviceEvents!Typed'
    BY <2>0 DEF DeviceEvents!Inv, DeviceEvents!Typed, DeviceEvents!Free
  <2>2. DeviceEvents!Numbered'
    BY DEF DeviceEvents!Inv, DeviceEvents!Typed, DeviceEvents!Numbered, DeviceEvents!Free
  <2>3. DeviceEvents!Watched'
    BY DEF DeviceEvents!Inv, DeviceEvents!Typed, DeviceEvents!Watched, DeviceEvents!Subscribed
  <2>4. DeviceEvents!Follows'
    BY <2>0
    DEF DeviceEvents!Inv, DeviceEvents!Typed, DeviceEvents!Watched, DeviceEvents!Follows,
        DeviceEvents!Unread
  <2>5. DeviceEvents!Present'
    BY <2>0
    DEF DeviceEvents!Inv, DeviceEvents!Typed, DeviceEvents!Watched, DeviceEvents!Present,
        DeviceEvents!Coming, DeviceEvents!Listing, DeviceEvents!Newest, DeviceEvents!Subscribed,
        DeviceEvents!Unread, DeviceEvents!Free
  <2> QED BY <2>1, <2>2, <2>3, <2>4, <2>5 DEF DeviceEvents!Inv
<1>13. CASE DeviceEvents!Receive
  <2> USE <1>13 DEF DeviceEvents!Receive
  <2>0. DeviceEvents!ToldTyped' /\ DeviceEvents!AnyTold'
          /\ (DeviceEvents!DefaultTold' <=> DeviceEvents!DefaultTold)
    BY ToldReceived DEF DeviceEvents!Inv, DeviceEvents!Typed
  <2>1. DeviceEvents!Typed'
    BY <2>0 DEF DeviceEvents!Inv, DeviceEvents!Typed, DeviceEvents!Free
  <2>2. DeviceEvents!Numbered'
    BY DEF DeviceEvents!Inv, DeviceEvents!Typed, DeviceEvents!Numbered, DeviceEvents!Free
  <2>3. DeviceEvents!Watched'
    BY DEF DeviceEvents!Inv, DeviceEvents!Typed, DeviceEvents!Watched, DeviceEvents!Subscribed
  <2>4. DeviceEvents!Follows'
    BY <2>0
    DEF DeviceEvents!Inv, DeviceEvents!Typed, DeviceEvents!Watched, DeviceEvents!Follows,
        DeviceEvents!Unread
  <2>5. DeviceEvents!Present'
    BY <2>0
    DEF DeviceEvents!Inv, DeviceEvents!Typed, DeviceEvents!Watched, DeviceEvents!Present,
        DeviceEvents!Coming, DeviceEvents!Listing, DeviceEvents!Newest, DeviceEvents!Subscribed,
        DeviceEvents!Unread, DeviceEvents!Free
  <2> QED BY <2>1, <2>2, <2>3, <2>4, <2>5 DEF DeviceEvents!Inv
<1>14. CASE DeviceEvents!Settled
  <2> USE <1>14 DEF DeviceEvents!Settled
  <2>0. DeviceEvents!ToldTyped' /\ DeviceEvents!AnyTold'
          /\ (DeviceEvents!DefaultTold' <=> DeviceEvents!DefaultTold)
    BY ToldSettled DEF DeviceEvents!Inv, DeviceEvents!Typed
  <2>1. DeviceEvents!Typed'
    BY <2>0 DEF DeviceEvents!Inv, DeviceEvents!Typed, DeviceEvents!Free
  <2>2. DeviceEvents!Numbered'
    BY DEF DeviceEvents!Inv, DeviceEvents!Typed, DeviceEvents!Numbered, DeviceEvents!Free
  <2>3. DeviceEvents!Watched'
    BY DEF DeviceEvents!Inv, DeviceEvents!Typed, DeviceEvents!Watched, DeviceEvents!Subscribed
  <2>4. DeviceEvents!Follows'
    BY <2>0
    DEF DeviceEvents!Inv, DeviceEvents!Typed, DeviceEvents!Watched, DeviceEvents!Follows,
        DeviceEvents!Unread
  <2>5. DeviceEvents!Present'
    BY <2>0
    DEF DeviceEvents!Inv, DeviceEvents!Typed, DeviceEvents!Watched, DeviceEvents!Present,
        DeviceEvents!Coming, DeviceEvents!Listing, DeviceEvents!Newest, DeviceEvents!Subscribed,
        DeviceEvents!Unread, DeviceEvents!Free
  <2> QED BY <2>1, <2>2, <2>3, <2>4, <2>5 DEF DeviceEvents!Inv
<1>15. CASE DeviceEvents!OnAudioDevicesChanged
  <2> USE <1>15 DEF DeviceEvents!OnAudioDevicesChanged
  <2>0. DeviceEvents!ToldTyped' /\ (DeviceEvents!DefaultTold <=> Head(calls).default
          \/ DeviceEvents!DefaultTold')
    BY ToldHeard DEF DeviceEvents!Inv, DeviceEvents!Typed
  <2>1. DeviceEvents!Typed'
    <3>1. listings' \in [Jobs -> [st: {"free", "lists", "has"}, list: Nat]]
      <4>1. PICK i \in Jobs : listings' = [listings EXCEPT ![i].st = "lists"]
        OBVIOUS
      <4>2. listings \in [Jobs -> [st: {"free", "lists", "has"}, list: Nat]]
        BY DEF DeviceEvents!Inv, DeviceEvents!Typed
      <4>3. \A x \in [st: {"free", "lists", "has"}, list: Nat] :
              [x EXCEPT !.st = "lists"] \in [st: {"free", "lists", "has"}, list: Nat]
        OBVIOUS
      <4> HIDE <1>15
      <4> QED BY <4>1, <4>2, <4>3
    <3>2. player' \in [status: {"none", "opening", "opened", "active"}, on: Nat]
      BY DEF DeviceEvents!Inv, DeviceEvents!Typed
    <3>3. skipped' \in BOOLEAN
      OBVIOUS
    <3> QED BY <2>0, <3>1, <3>2, <3>3 DEF DeviceEvents!Inv, DeviceEvents!Typed
  <2>2. DeviceEvents!Numbered'
    BY DEF DeviceEvents!Inv, DeviceEvents!Typed, DeviceEvents!Numbered, DeviceEvents!Free
  <2>3. DeviceEvents!Watched'
    BY DEF DeviceEvents!Inv, DeviceEvents!Typed, DeviceEvents!Watched, DeviceEvents!Subscribed
  <2>4. DeviceEvents!Follows'
    BY <2>0
    DEF DeviceEvents!Inv, DeviceEvents!Typed, DeviceEvents!Watched, DeviceEvents!Follows,
        DeviceEvents!Unread
  <2>5. DeviceEvents!Present'
    BY <2>0
    DEF DeviceEvents!Inv, DeviceEvents!Typed, DeviceEvents!Watched, DeviceEvents!Present,
        DeviceEvents!Coming, DeviceEvents!Listing, DeviceEvents!Newest, DeviceEvents!Subscribed,
        DeviceEvents!Unread, DeviceEvents!Free
  <2> QED BY <2>1, <2>2, <2>3, <2>4, <2>5 DEF DeviceEvents!Inv
<1>16. ASSUME NEW j \in Jobs, DeviceEvents!List(j) PROVE DeviceEvents!Inv'
  <2> USE <1>16 DEF DeviceEvents!List
  <2>0. DeviceEvents!ToldTyped' /\ (DeviceEvents!DefaultTold' <=> DeviceEvents!DefaultTold)
          /\ (DeviceEvents!AnyTold' <=> DeviceEvents!AnyTold)
    BY ToldStays DEF DeviceEvents!Inv, DeviceEvents!Typed
  <2>1. DeviceEvents!Typed'
    BY <2>0 DEF DeviceEvents!Inv, DeviceEvents!Typed, DeviceEvents!Free
  <2>2. DeviceEvents!Numbered'
    BY DEF DeviceEvents!Inv, DeviceEvents!Typed, DeviceEvents!Numbered, DeviceEvents!Free
  <2>3. DeviceEvents!Watched'
    BY DEF DeviceEvents!Inv, DeviceEvents!Typed, DeviceEvents!Watched, DeviceEvents!Subscribed
  <2>4. DeviceEvents!Follows'
    BY <2>0
    DEF DeviceEvents!Inv, DeviceEvents!Typed, DeviceEvents!Watched, DeviceEvents!Follows,
        DeviceEvents!Unread
  <2>5. DeviceEvents!Present'
    BY <2>0
    DEF DeviceEvents!Inv, DeviceEvents!Typed, DeviceEvents!Watched, DeviceEvents!Present,
        DeviceEvents!Coming, DeviceEvents!Listing, DeviceEvents!Newest, DeviceEvents!Subscribed,
        DeviceEvents!Unread, DeviceEvents!Free
  <2> QED BY <2>1, <2>2, <2>3, <2>4, <2>5 DEF DeviceEvents!Inv
<1>17. ASSUME NEW j \in Jobs, DeviceEvents!SendList(j) PROVE DeviceEvents!Inv'
  <2> USE <1>17 DEF DeviceEvents!SendList
  <2>0. DeviceEvents!ToldTyped' /\ (DeviceEvents!DefaultTold' <=> DeviceEvents!DefaultTold)
          /\ (DeviceEvents!AnyTold' <=> DeviceEvents!AnyTold)
    BY ToldStays DEF DeviceEvents!Inv, DeviceEvents!Typed
  <2>1. DeviceEvents!Typed'
    BY <2>0 DEF DeviceEvents!Inv, DeviceEvents!Typed, DeviceEvents!Free
  <2>2. DeviceEvents!Numbered'
    BY DEF DeviceEvents!Inv, DeviceEvents!Typed, DeviceEvents!Numbered, DeviceEvents!Free
  <2>3. DeviceEvents!Watched'
    BY DEF DeviceEvents!Inv, DeviceEvents!Typed, DeviceEvents!Watched, DeviceEvents!Subscribed
  <2>4. DeviceEvents!Follows'
    BY <2>0
    DEF DeviceEvents!Inv, DeviceEvents!Typed, DeviceEvents!Watched, DeviceEvents!Follows,
        DeviceEvents!Unread
  <2>5. DeviceEvents!Present'
    <3>1. /\ listings[j].st = "has" /\ lists' = Append(lists, listings[j].list)
               /\ lists \in Seq(Nat)
          /\ listings[j].list \in Nat
      BY DEF DeviceEvents!Inv, DeviceEvents!Typed
    <3>2. DeviceEvents!Newest' = listings[j].list
      <4>1. /\ lists' # <<>> /\ Len(lists') = Len(lists) + 1
            /\ lists'[Len(lists) + 1] = listings[j].list
        BY <3>1, Grows
      <4> QED BY <4>1 DEF DeviceEvents!Newest
    <3>3. \A k \in Jobs : listings'[k] = IF k = j THEN DeviceEvents!Free ELSE listings[k]
      BY DEF DeviceEvents!Inv, DeviceEvents!Typed
    <3>4. SUFFICES ASSUME ~unseen, ~passed', ~DeviceEvents!Coming'
                   PROVE  /\ listings[j].list = sound.list
                          /\ \A k \in Jobs \ {j} : listings[k].st # "has"
      BY <3>2, <3>3 DEF DeviceEvents!Present, DeviceEvents!Free
    <3>5. \A k \in Jobs \ {j} : ~DeviceEvents!Listing(k)
      BY <3>3, <3>4 DEF DeviceEvents!Coming, DeviceEvents!Listing
    <3>6. DeviceEvents!Coming
      BY <3>1, <3>4 DEF DeviceEvents!Inv, DeviceEvents!Present
    <3>7. DeviceEvents!Listing(j)
      BY <2>0, <3>4, <3>5, <3>6 DEF DeviceEvents!Coming, DeviceEvents!Subscribed
    <3>8. listings[j].list = sound.list
      BY <3>1, <3>7 DEF DeviceEvents!Listing
    <3>9. ASSUME NEW k \in Jobs \ {j}, listings[k].st = "has" PROVE FALSE
      <4>1. listings[k].list <= sound.list /\ listings[k].list \in Nat /\ sound.list \in Nat
        BY DEF DeviceEvents!Inv, DeviceEvents!Typed, DeviceEvents!Numbered
      <4>2. listings[k].list # sound.list
        BY <3>5, <3>9 DEF DeviceEvents!Listing
      <4>3. listings[k].list < listings[j].list
        BY <3>8, <4>1, <4>2
      <4>4. passed'
        BY <3>9, <4>3
      <4> QED BY <3>4, <4>4
    <3> QED BY <3>8, <3>9
  <2> QED BY <2>1, <2>2, <2>3, <2>4, <2>5 DEF DeviceEvents!Inv
<1> QED BY <1>1, <1>2, <1>3, <1>4, <1>5, <1>6, <1>7, <1>8, <1>9, <1>10, <1>11, <1>12, <1>13,
           <1>14, <1>15, <1>16, <1>17
        DEF DeviceEvents!Next

LEMMA DevicesFollow ==
  ASSUME DeviceEvents!Inv
  PROVE  DeviceEvents!FollowsDefault /\ DeviceEvents!ListsPresent
<1>1. DeviceEvents!Quiet => ~DeviceEvents!DefaultTold /\ ~DeviceEvents!AnyTold
  BY DEF DeviceEvents!Quiet, DeviceEvents!DefaultTold, DeviceEvents!HasDefault,
         DeviceEvents!AnyTold
<1>2. DeviceEvents!FollowsDefault
  BY <1>1
  DEF DeviceEvents!FollowsDefault, DeviceEvents!Inv, DeviceEvents!Watched, DeviceEvents!Follows,
      DeviceEvents!Quiet
<1>3. DeviceEvents!ListsPresent
  <2>1. DeviceEvents!Quiet => ~DeviceEvents!Coming
    BY <1>1 DEF DeviceEvents!Quiet, DeviceEvents!Coming, DeviceEvents!Listing, DeviceEvents!Free
  <2>2. DeviceEvents!Quiet => DeviceEvents!Newest = devices
    BY DEF DeviceEvents!Quiet, DeviceEvents!Newest
  <2> QED BY <2>1, <2>2
          DEF DeviceEvents!ListsPresent, DeviceEvents!Inv, DeviceEvents!Watched,
              DeviceEvents!Present
<1> QED BY <1>2, <1>3

LEMMA DevicesStay == DeviceEvents!Inv /\ UNCHANGED deviceVars => DeviceEvents!Inv'
<1> SUFFICES ASSUME DeviceEvents!Inv, UNCHANGED deviceVars PROVE DeviceEvents!Inv'
  OBVIOUS
<1>0. DeviceEvents!ToldTyped' /\ (DeviceEvents!DefaultTold' <=> DeviceEvents!DefaultTold)
        /\ (DeviceEvents!AnyTold' <=> DeviceEvents!AnyTold)
  BY ToldStays
  DEF deviceVars, DeviceEvents!thread, DeviceEvents!engine, DeviceEvents!Inv, DeviceEvents!Typed
<1> USE DEF deviceVars, DeviceEvents!thread, DeviceEvents!engine
<1>1. DeviceEvents!Typed'
  BY <1>0 DEF DeviceEvents!Inv, DeviceEvents!Typed
<1>2. DeviceEvents!Numbered' /\ DeviceEvents!Watched'
  BY DEF DeviceEvents!Inv, DeviceEvents!Numbered, DeviceEvents!Watched
<1>3. DeviceEvents!Follows'
  BY <1>0 DEF DeviceEvents!Inv, DeviceEvents!Follows
<1>4. DeviceEvents!Coming' = DeviceEvents!Coming /\ DeviceEvents!Newest' = DeviceEvents!Newest
  BY <1>0
  DEF DeviceEvents!Coming, DeviceEvents!Listing, DeviceEvents!Newest, DeviceEvents!Subscribed
<1>5. DeviceEvents!Present'
  BY <1>4 DEF DeviceEvents!Inv, DeviceEvents!Present
<1> QED BY <1>1, <1>2, <1>3, <1>5 DEF DeviceEvents!Inv

----------------------------------------------------------------------------
(* The operating system.                                                   *)

LEMMA MinIs == \A a, b \in Nat : OsEvents!Min({a, b}) = IF a <= b THEN a ELSE b
<1> TAKE a, b \in Nat
<1> DEFINE m == IF a <= b THEN a ELSE b
<1>1. m \in {a, b} /\ \A y \in {a, b} : m <= y
  OBVIOUS
<1>2. \A x \in {a, b} : (\A y \in {a, b} : x <= y) => x = m
  OBVIOUS
<1> HIDE DEF m
<1>3. OsEvents!Min({a, b}) = m
  BY <1>1, <1>2 DEF OsEvents!Min
<1> QED BY <1>3 DEF m

\* The queue, when an event joins or leaves it.
\* What waits in the queue once an event is posted, or taken.
LEMMA QueueGrows ==
  ASSUME queue \in Seq(OsEvents!Events), NEW e \in OsEvents!Events, queue' = Append(queue, e)
  PROVE  queue' \in Seq(OsEvents!Events)
           /\ \A k \in OsEvents!Events : OsEvents!Queued(k)' <=> OsEvents!Queued(k) \/ k = e
<1>1. /\ Append(queue, e) \in Seq(OsEvents!Events) /\ Len(queue) \in Nat
      /\ DOMAIN Append(queue, e) = 1 .. Len(queue) + 1 /\ DOMAIN queue = 1 .. Len(queue)
      /\ \A i \in 1 .. Len(queue) : Append(queue, e)[i] = queue[i]
      /\ Append(queue, e)[Len(queue) + 1] = e
  BY Grows
<1> QED BY <1>1 DEF OsEvents!Queued

LEMMA QueueShrinks ==
  ASSUME queue \in Seq(OsEvents!Events), queue # <<>>, queue' = Tail(queue)
  PROVE  /\ queue' \in Seq(OsEvents!Events) /\ Head(queue) \in OsEvents!Events
         /\ \A k \in OsEvents!Events : OsEvents!Queued(k) <=> OsEvents!Queued(k)'
              \/ k = Head(queue)
<1>1. /\ Tail(queue) \in Seq(OsEvents!Events) /\ Head(queue) \in OsEvents!Events
           /\ Head(queue) = queue[1]
      /\ Len(queue) \in Nat \ {0}
      /\ DOMAIN Tail(queue) = 1 .. Len(queue) - 1 /\ DOMAIN queue = 1 .. Len(queue)
      /\ \A i \in 1 .. Len(queue) - 1 : Tail(queue)[i] = queue[i + 1]
  BY Shrinks
<1>2. \A i \in DOMAIN queue : i = 1 \/ (i - 1 \in DOMAIN queue' /\ queue[i] = queue'[i - 1])
  BY <1>1
<1>3. \A i \in DOMAIN queue' : i + 1 \in DOMAIN queue /\ queue[i + 1] = queue'[i]
  BY <1>1
<1>4. 1 \in DOMAIN queue
  BY <1>1
<1>5. ASSUME NEW k \in OsEvents!Events, OsEvents!Queued(k) PROVE OsEvents!Queued(k)'
                   \/ k = Head(queue)
  BY <1>1, <1>2, <1>5 DEF OsEvents!Queued
<1>6. ASSUME NEW k \in OsEvents!Events, OsEvents!Queued(k)' PROVE OsEvents!Queued(k)
  BY <1>3, <1>6 DEF OsEvents!Queued
<1>7. OsEvents!Queued(Head(queue))
  BY <1>1, <1>4 DEF OsEvents!Queued
<1> QED BY <1>1, <1>5, <1>6, <1>7

LEMMA QueueStays == queue' = queue => \A k : OsEvents!Queued(k)' <=> OsEvents!Queued(k)
  BY DEF OsEvents!Queued

\* A burst that an event joins, and one that a tick passes for.
Joined(b, e) == [b EXCEPT !.seen = @ \cup {e}, !.gap = 0, !.over = OsEvents!LastOne(b)]
Older(b) == [OsEvents!Older(b) EXCEPT !.gap = @ + 1]
Again(b) == [b EXCEPT !.over = OsEvents!LastOne(b)]

LEMMA JoinedIs ==
  ASSUME NEW b \in OsEvents!Bursts, NEW e \in OsEvents!Events
  PROVE  /\ Joined(b, e) \in OsEvents!Bursts /\ Joined(b, e).seen = b.seen \cup {e}
         /\ Joined(b, e).age = b.age /\ Joined(b, e).gap = 0
         /\ Joined(b, e).over <=> b.age >= MaxBurst
<1>1. (b.age >= MaxBurst) \in BOOLEAN
  BY OsNumbers DEF OsEvents!Bursts
<1> QED BY <1>1 DEF Joined, OsEvents!LastOne, OsEvents!Bursts

LEMMA AgainIs ==
  ASSUME NEW b \in OsEvents!Bursts
  PROVE  /\ Again(b) \in OsEvents!Bursts /\ Again(b).seen = b.seen /\ Again(b).age = b.age
         /\ Again(b).gap = b.gap /\ (Again(b).over <=> b.age >= MaxBurst)
<1>1. (b.age >= MaxBurst) \in BOOLEAN
  BY OsNumbers DEF OsEvents!Bursts
<1> QED BY <1>1 DEF Again, OsEvents!LastOne, OsEvents!Bursts

LEMMA AgedIs ==
  ASSUME NEW b \in OsEvents!Bursts, b.age <= MaxBurst
  PROVE  /\ OsEvents!Older(b) \in OsEvents!Bursts
         /\ OsEvents!Older(b).seen = b.seen /\ OsEvents!Older(b).over = b.over
         /\ OsEvents!Older(b).age = (IF b.age < MaxBurst THEN b.age + 1 ELSE MaxBurst)
         /\ OsEvents!Older(b).gap = b.gap
<1>1. b.age + 1 \in Nat /\ MaxBurst \in Nat /\ b.age \in Nat
  BY OsNumbers DEF OsEvents!Bursts
<1>2. OsEvents!Min({b.age + 1, MaxBurst}) = IF b.age + 1 <= MaxBurst THEN b.age + 1
        ELSE MaxBurst
  BY <1>1, MinIs
<1>3. PICK m \in Nat : /\ m = OsEvents!Min({b.age + 1, MaxBurst})
                       /\ m = IF b.age < MaxBurst THEN b.age + 1 ELSE MaxBurst
  BY <1>1, <1>2
<1>4. OsEvents!Older(b) = [b EXCEPT !.age = m]
  BY <1>3 DEF OsEvents!Older, OsEvents!Bursts
<1>5. /\ OsEvents!Older(b) \in OsEvents!Bursts
      /\ OsEvents!Older(b).seen = b.seen /\ OsEvents!Older(b).over = b.over
      /\ OsEvents!Older(b).age = m /\ OsEvents!Older(b).gap = b.gap
  BY <1>4 DEF OsEvents!Bursts
<1> QED BY <1>3, <1>5

LEMMA OlderIs ==
  ASSUME NEW b \in OsEvents!Bursts, b.age <= MaxBurst
  PROVE  /\ Older(b) \in OsEvents!Bursts /\ Older(b).seen = b.seen /\ Older(b).over = b.over
         /\ Older(b).age = (IF b.age < MaxBurst THEN b.age + 1 ELSE MaxBurst)
         /\ Older(b).gap = b.gap + 1
<1>1. PICK a \in OsEvents!Bursts :
        /\ a = OsEvents!Older(b) /\ a.seen = b.seen /\ a.over = b.over /\ a.gap = b.gap
        /\ a.age = (IF b.age < MaxBurst THEN b.age + 1 ELSE MaxBurst)
  BY AgedIs
<1>2. Older(b) = [a EXCEPT !.gap = @ + 1]
  BY <1>1 DEF Older
<1>3. /\ Older(b) \in OsEvents!Bursts /\ Older(b).seen = a.seen /\ Older(b).over = a.over
      /\ Older(b).age = a.age /\ Older(b).gap = a.gap + 1
  BY <1>2 DEF OsEvents!Bursts
<1> QED BY <1>1, <1>3

\* An event that the engine is owed is in the queue or in the burst, and the burst is not
\* older than the time it may last.
LEMMA OsInit == OsEvents!Init => OsEvents!Inv
<1> SUFFICES ASSUME OsEvents!Init PROVE OsEvents!Inv
  OBVIOUS
<1> USE DEF OsEvents!Init
<1>1. OsEvents!Typed
  BY OsNumbers DEF OsEvents!Typed, OsEvents!Kinds
<1>2. \A k \in OsEvents!Kinds : owed[k] = 0
  OBVIOUS
<1>3. OsEvents!Ending
  BY DEF OsEvents!Ending, OsEvents!Queued
<1> QED BY <1>1, <1>2, <1>3 DEF OsEvents!Inv, OsEvents!Owed

\* The burst is over, or the session ends, before the wait is.
LEMMA OsNext ==
  ASSUME OsEvents!Inv, OsEvents!Next
  PROVE  OsEvents!Inv'
<1>1. CASE OsEvents!EngineStarts
  <2>1. OsEvents!Typed'
    BY <1>1, QueueStays, OsNumbers, MinIs
    DEF OsEvents!EngineStarts, OsEvents!Inv, OsEvents!Typed, OsEvents!Kinds,
        OsEvents!Events, OsEvents!Bursts
  <2>2. (busy > 0 => burst = {})'
    BY <1>1, OsNumbers DEF OsEvents!EngineStarts, OsEvents!Inv, OsEvents!Typed
  <2>3. \A b \in burst' : OsEvents!Timed(b)'
    BY <1>1, OsNumbers, MinIs, QueueStays
    DEF OsEvents!EngineStarts, OsEvents!Inv, OsEvents!Typed, OsEvents!Timed,
        OsEvents!Stopping, OsEvents!Ending, OsEvents!Kinds, OsEvents!Events
  <2>4. (engine # "up" => \A k \in OsEvents!Kinds : owed[k] = 0)'
    BY <1>1, MinIs DEF OsEvents!EngineStarts, OsEvents!Inv, OsEvents!Typed
  <2>5. ASSUME NEW k \in OsEvents!Kinds PROVE OsEvents!Owed(k)'
    BY <1>1, QueueStays, OsNumbers, MinIs
    DEF OsEvents!EngineStarts, OsEvents!Inv, OsEvents!Typed, OsEvents!Owed,
        OsEvents!InQueue, OsEvents!InBurst, OsEvents!New, OsEvents!Timed, OsEvents!Stopping,
        OsEvents!Kinds, OsEvents!Events
  <2>6. OsEvents!Ending'
    BY <1>1, QueueStays, OsNumbers, MinIs
    DEF OsEvents!EngineStarts, OsEvents!Inv, OsEvents!Typed, OsEvents!Ending,
        OsEvents!New, OsEvents!Timed, OsEvents!Stopping, OsEvents!GivenUp, OsEvents!Kinds,
        OsEvents!Events
  <2> QED BY <2>1, <2>2, <2>3, <2>4, <2>5, <2>6 DEF OsEvents!Inv
<1>10. CASE OsEvents!EngineStops
  <2>1. OsEvents!Typed'
    BY <1>10, QueueStays, OsNumbers, MinIs
    DEF OsEvents!EngineStops, OsEvents!Inv, OsEvents!Typed, OsEvents!Kinds,
        OsEvents!Events, OsEvents!Bursts
  <2>2. (busy > 0 => burst = {})'
    BY <1>10, OsNumbers DEF OsEvents!EngineStops, OsEvents!Inv, OsEvents!Typed
  <2>3. \A b \in burst' : OsEvents!Timed(b)'
    BY <1>10, OsNumbers, MinIs, QueueStays
    DEF OsEvents!EngineStops, OsEvents!Inv, OsEvents!Typed, OsEvents!Timed,
        OsEvents!Stopping, OsEvents!Ending, OsEvents!Kinds, OsEvents!Events
  <2>4. (engine # "up" => \A k \in OsEvents!Kinds : owed[k] = 0)'
    BY <1>10, MinIs DEF OsEvents!EngineStops, OsEvents!Inv, OsEvents!Typed
  <2>5. ASSUME NEW k \in OsEvents!Kinds PROVE OsEvents!Owed(k)'
    BY <1>10, QueueStays, OsNumbers, MinIs
    DEF OsEvents!EngineStops, OsEvents!Inv, OsEvents!Typed, OsEvents!Owed,
        OsEvents!InQueue, OsEvents!InBurst, OsEvents!New, OsEvents!Timed, OsEvents!Stopping,
        OsEvents!Kinds, OsEvents!Events
  <2>6. OsEvents!Ending'
    BY <1>10, QueueStays, OsNumbers, MinIs
    DEF OsEvents!EngineStops, OsEvents!Inv, OsEvents!Typed, OsEvents!Ending,
        OsEvents!New, OsEvents!Timed, OsEvents!Stopping, OsEvents!GivenUp, OsEvents!Kinds,
        OsEvents!Events
  <2> QED BY <2>1, <2>2, <2>3, <2>4, <2>5, <2>6 DEF OsEvents!Inv
<1>2. CASE OsEvents!EndSession
  <2>1. OsEvents!Typed'
    BY <1>2, QueueGrows, OsNumbers, MinIs
    DEF OsEvents!EndSession, OsEvents!Inv, OsEvents!Typed, OsEvents!Kinds,
        OsEvents!Events, OsEvents!Bursts
  <2>2. (busy > 0 => burst = {})'
    BY <1>2, OsNumbers DEF OsEvents!EndSession, OsEvents!Inv, OsEvents!Typed
  <2>3. \A b \in burst' : OsEvents!Timed(b)'
    BY <1>2, OsNumbers, MinIs, QueueGrows
    DEF OsEvents!EndSession, OsEvents!Inv, OsEvents!Typed, OsEvents!Timed,
        OsEvents!Stopping, OsEvents!Ending, OsEvents!Kinds, OsEvents!Events
  <2>4. (engine # "up" => \A k \in OsEvents!Kinds : owed[k] = 0)'
    BY <1>2, MinIs DEF OsEvents!EndSession, OsEvents!Inv, OsEvents!Typed
  <2>5. ASSUME NEW k \in OsEvents!Kinds PROVE OsEvents!Owed(k)'
    BY <1>2, QueueGrows, OsNumbers, MinIs
    DEF OsEvents!EndSession, OsEvents!Inv, OsEvents!Typed, OsEvents!Owed,
        OsEvents!InQueue, OsEvents!InBurst, OsEvents!New, OsEvents!Timed, OsEvents!Stopping,
        OsEvents!Kinds, OsEvents!Events
  <2>6. OsEvents!Ending'
    BY <1>2, QueueGrows, OsNumbers, MinIs
    DEF OsEvents!EndSession, OsEvents!Inv, OsEvents!Typed, OsEvents!Ending,
        OsEvents!New, OsEvents!Timed, OsEvents!Stopping, OsEvents!GivenUp, OsEvents!Kinds,
        OsEvents!Events
  <2> QED BY <2>1, <2>2, <2>3, <2>4, <2>5, <2>6 DEF OsEvents!Inv
<1>3. CASE OsEvents!EndUnanswered
  <2>1. OsEvents!Typed'
    BY <1>3, QueueStays, OsNumbers, MinIs
    DEF OsEvents!EndUnanswered, OsEvents!Inv, OsEvents!Typed, OsEvents!Kinds,
        OsEvents!Events, OsEvents!Bursts
  <2>2. (busy > 0 => burst = {})'
    BY <1>3, OsNumbers DEF OsEvents!EndUnanswered, OsEvents!Inv, OsEvents!Typed
  <2>3. \A b \in burst' : OsEvents!Timed(b)'
    BY <1>3, OsNumbers, MinIs, QueueStays
    DEF OsEvents!EndUnanswered, OsEvents!Inv, OsEvents!Typed, OsEvents!Timed,
        OsEvents!Stopping, OsEvents!Ending, OsEvents!Kinds, OsEvents!Events
  <2>4. (engine # "up" => \A k \in OsEvents!Kinds : owed[k] = 0)'
    BY <1>3, MinIs DEF OsEvents!EndUnanswered, OsEvents!Inv, OsEvents!Typed
  <2>5. ASSUME NEW k \in OsEvents!Kinds PROVE OsEvents!Owed(k)'
    BY <1>3, QueueStays, OsNumbers, MinIs
    DEF OsEvents!EndUnanswered, OsEvents!Inv, OsEvents!Typed, OsEvents!Owed,
        OsEvents!InQueue, OsEvents!InBurst, OsEvents!New, OsEvents!Timed, OsEvents!Stopping,
        OsEvents!Kinds, OsEvents!Events
  <2>6. OsEvents!Ending'
    BY <1>3, QueueStays, OsNumbers, MinIs
    DEF OsEvents!EndUnanswered, OsEvents!Inv, OsEvents!Typed, OsEvents!Ending,
        OsEvents!New, OsEvents!Timed, OsEvents!Stopping, OsEvents!GivenUp, OsEvents!Kinds,
        OsEvents!Events
  <2> QED BY <2>1, <2>2, <2>3, <2>4, <2>5, <2>6 DEF OsEvents!Inv
<1>4. CASE OsEvents!Take
  <2>0. PICK e, b0, b1 :
          /\ e = Head(queue) /\ b1 = Joined(b0, e)
          /\ b0 = IF burst = {} THEN OsEvents!NewBurst ELSE CHOOSE x \in burst : TRUE
    OBVIOUS
  <2>1. /\ queue # <<>> /\ busy = 0 /\ busy' = 0 /\ ~OsEvents!Stopping
        /\ \A b \in burst : ~b.over /\ b.gap < 2
        /\ queue' = Tail(queue) /\ burst' = {b1} /\ UNCHANGED <<waited, events>>
        /\ \/ e # "SessionEnding" /\ UNCHANGED <<engine, session, stopping, owed>>
           \/ /\ e = "SessionEnding" /\ engine = "up" /\ engine' = "stopping" /\ stopping' = 1
              /\ owed' = [k \in OsEvents!Kinds |-> 0] /\ UNCHANGED session
           \/ /\ e = "SessionEnding" /\ engine # "up"
              /\ session' = (IF session = "asked" THEN "ended" ELSE session)
              /\ UNCHANGED <<engine, stopping, owed>>
    BY <1>4, <2>0 DEF OsEvents!Take, Joined
  <2>2. /\ queue' \in Seq(OsEvents!Events) /\ e \in OsEvents!Events
        /\ \A k \in OsEvents!Events : OsEvents!Queued(k) <=> OsEvents!Queued(k)' \/ k = e
    BY <2>0, <2>1, QueueShrinks DEF OsEvents!Inv, OsEvents!Typed
  <2>3. /\ b0 \in OsEvents!Bursts
        /\ burst = {} => b0 = OsEvents!NewBurst
        /\ burst # {} => burst = {b0} /\ OsEvents!Timed(b0)
        /\ ~b0.over /\ b0.gap < 2 /\ b0.age <= MaxBurst
    <3>1. CASE burst = {}
      BY <2>0, <3>1, OsNumbers DEF OsEvents!NewBurst, OsEvents!Bursts
    <3>2. CASE burst # {}
      <4>1. b0 \in burst
        BY <2>0, <3>2
      <4>2. burst = {b0}
        BY <4>1 DEF OsEvents!Inv, OsEvents!Typed
      <4> QED BY <2>1, <3>2, <4>1, <4>2 DEF OsEvents!Inv, OsEvents!Typed, OsEvents!Timed
    <3> QED BY <3>1, <3>2
  <2>4. /\ b1 \in OsEvents!Bursts
        /\ b1.seen = b0.seen \cup {e} /\ b1.age = b0.age /\ b1.gap = 0
        /\ b1.over <=> b0.age = MaxBurst
    <3>1. /\ b1 \in OsEvents!Bursts /\ b1.seen = b0.seen \cup {e} /\ b1.age = b0.age
               /\ b1.gap = 0
          /\ b1.over <=> b0.age >= MaxBurst
      BY <2>0, <2>2, <2>3, JoinedIs
    <3>2. b0.age \in Nat /\ b0.age <= MaxBurst
      BY <2>3 DEF OsEvents!Bursts
    <3> QED BY <3>1, <3>2, OsNumbers
  <2>5. (\A b \in burst : OsEvents!New(b)) => OsEvents!New(b1)
    <3>1. CASE burst = {}
      BY <2>3, <2>4, <3>1, OsNumbers DEF OsEvents!New, OsEvents!NewBurst, OsEvents!Bursts
    <3>2. CASE burst # {}
      BY <2>3, <2>4, <3>2, OsNumbers DEF OsEvents!New, OsEvents!Bursts
    <3> QED BY <3>1, <3>2
  <2>6. session = "on" => e # "SessionEnding"
    BY <2>2 DEF OsEvents!Inv, OsEvents!Ending, OsEvents!Events
  <2>7. OsEvents!Typed'
    <3>1. /\ engine' \in {"absent", "up", "stopping", "stopped", "late"}
          /\ session' \in {"on", "asked", "ended", "cut"}
          /\ stopping' \in 0 .. (Shutdown + 1) /\ owed' \in [OsEvents!Kinds -> Nat]
      BY <2>1, OsNumbers DEF OsEvents!Inv, OsEvents!Typed
    <3> QED BY <2>1, <2>2, <2>4, <3>1 DEF OsEvents!Inv, OsEvents!Typed
  <2>8. OsEvents!Timed(b1)'
    BY <2>3, <2>4, OsNumbers DEF OsEvents!Timed, OsEvents!Bursts
  <2>9. (engine # "up" => \A k \in OsEvents!Kinds : owed[k] = 0)'
    BY <2>1 DEF OsEvents!Inv, OsEvents!Typed
  <2>10. ASSUME NEW k \in OsEvents!Kinds, owed'[k] > 0 PROVE OsEvents!InQueue(k)'
                      \/ OsEvents!InBurst(k, b1)'
    <3>1. owed' = owed /\ e \in OsEvents!Events
      BY <2>1, <2>2, <2>10
    <3>2. owed[k] \in Nat /\ k \in OsEvents!Events
      BY DEF OsEvents!Inv, OsEvents!Typed, OsEvents!Events
    <3>3. CASE \E b \in burst : OsEvents!InBurst(k, b)
      <4>1. OsEvents!InBurst(k, b0) /\ burst = {b0}
        BY <2>3, <3>3
      <4> QED BY <2>3, <2>4, <3>1, <3>2, <4>1, OsNumbers DEF OsEvents!InBurst, OsEvents!Bursts
    <3>4. CASE OsEvents!InQueue(k) /\ k = e
      <4>1. owed[k] <= Slow + 1
        BY <2>1, <3>2, <3>4, OsNumbers DEF OsEvents!InQueue
      <4> QED BY <2>3, <2>4, <3>1, <3>2, <3>4, <4>1, OsNumbers
              DEF OsEvents!InBurst, OsEvents!Bursts
    <3>5. CASE OsEvents!InQueue(k) /\ k # e
      BY <2>1, <2>2, <2>5, <3>1, <3>2, <3>5 DEF OsEvents!InQueue
    <3> QED BY <2>10, <3>1, <3>3, <3>4, <3>5 DEF OsEvents!Inv, OsEvents!Owed
  <2>11. OsEvents!Ending'
    <3>0. /\ session \in {"on", "asked", "ended"} /\ waited \in Nat /\ stopping \in Nat
          /\ waited' = waited /\ Slow \in Nat
      BY <2>1, OsNumbers DEF OsEvents!Inv, OsEvents!Typed, OsEvents!Ending
    <3>1. CASE e # "SessionEnding"
      <4>1. OsEvents!Queued("SessionEnding")' <=> OsEvents!Queued("SessionEnding")
        BY <2>2, <3>1 DEF OsEvents!Events
      <4>2. UNCHANGED <<engine, session, stopping>>
        BY <2>1, <3>1
      <4> QED BY <2>1, <2>5, <3>0, <4>1, <4>2
              DEF OsEvents!Inv, OsEvents!Ending, OsEvents!Stopping, OsEvents!GivenUp
    <3>2. CASE e = "SessionEnding" /\ engine = "up"
      <4>1. session = "asked" /\ session' = "asked" /\ stopping = 0 /\ waited <= Slow
        BY <2>1, <2>6, <3>0, <3>2 DEF OsEvents!Inv, OsEvents!Ending
      <4>2. engine' = "stopping" /\ stopping' = 1 /\ waited' < Slow + stopping'
        BY <2>1, <3>0, <3>2, <4>1
      <4> QED BY <2>1, <4>1, <4>2 DEF OsEvents!Ending
    <3>3. CASE e = "SessionEnding" /\ engine # "up"
      <4>1. session' = "ended" /\ UNCHANGED <<engine, stopping>>
        BY <2>1, <2>6, <3>0, <3>3
      <4>2. engine = "stopping" => OsEvents!GivenUp
        BY <2>1, <2>6, <3>0, <3>3
        DEF OsEvents!Inv, OsEvents!Ending, OsEvents!Stopping
      <4> QED BY <3>3, <4>1, <4>2 DEF OsEvents!Ending, OsEvents!GivenUp
    <3> QED BY <3>1, <3>2, <3>3
  <2> QED BY <2>1, <2>7, <2>8, <2>9, <2>10, <2>11 DEF OsEvents!Inv, OsEvents!Owed
<1>11. CASE OsEvents!Answer
  <2>1. /\ session = "asked" /\ stopping > 0 /\ session' = "ended"
        /\ engine = "stopped" \/ OsEvents!GivenUp
        /\ burst' = {Again(b) : b \in burst}
        /\ UNCHANGED <<queue, busy, engine, waited, stopping, owed, events>>
    BY <1>11 DEF OsEvents!Answer, OsEvents!Stopping, Again
  <2>2. busy = 0 /\ engine \in {"stopping", "stopped"}
    BY <2>1 DEF OsEvents!Inv, OsEvents!Ending, OsEvents!Typed
  <2>3. ASSUME NEW b \in burst
        PROVE  Again(b) \in OsEvents!Bursts /\ OsEvents!Timed(Again(b))'
    <3>1. b \in OsEvents!Bursts /\ OsEvents!Timed(b) /\ b.age \in Nat
      BY DEF OsEvents!Inv, OsEvents!Typed, OsEvents!Bursts
    <3>2. /\ Again(b) \in OsEvents!Bursts /\ Again(b).age = b.age /\ Again(b).gap = b.gap
          /\ (Again(b).over <=> b.age >= MaxBurst)
      BY <3>1, AgainIs
    <3> QED BY <3>1, <3>2, OsNumbers DEF OsEvents!Timed
  <2>4. OsEvents!Typed'
    <3>1. burst' \subseteq OsEvents!Bursts /\ \A b, c \in burst' : b = c
      BY <2>1, <2>3 DEF OsEvents!Inv, OsEvents!Typed
    <3> QED BY <2>1, <3>1 DEF OsEvents!Inv, OsEvents!Typed
  <2>5. \A b \in burst' : OsEvents!Timed(b)'
    BY <2>1, <2>3
  <2>6. \A k \in OsEvents!Kinds : owed'[k] = 0
    BY <2>1, <2>2 DEF OsEvents!Inv
  <2>7. \A k \in OsEvents!Kinds : OsEvents!Owed(k)'
    BY <2>6 DEF OsEvents!Owed
  <2>8. OsEvents!Ending'
    BY <2>1, <2>2 DEF OsEvents!Ending, OsEvents!GivenUp
  <2> QED BY <2>1, <2>2, <2>4, <2>5, <2>6, <2>7, <2>8 DEF OsEvents!Inv
<1>5. CASE OsEvents!Act
  <2>1. OsEvents!Typed'
    BY <1>5, QueueStays, OsNumbers, MinIs
    DEF OsEvents!Act, OsEvents!BurstOver, OsEvents!Inv, OsEvents!Typed, OsEvents!Kinds,
        OsEvents!Events, OsEvents!Bursts
  <2>2. (busy > 0 => burst = {})'
    BY <1>5, OsNumbers DEF OsEvents!Act, OsEvents!BurstOver, OsEvents!Inv, OsEvents!Typed
  <2>3. \A b \in burst' : OsEvents!Timed(b)'
    BY <1>5, OsNumbers, MinIs, QueueStays
    DEF OsEvents!Act, OsEvents!BurstOver, OsEvents!Inv, OsEvents!Typed, OsEvents!Timed,
        OsEvents!Stopping, OsEvents!Ending, OsEvents!Kinds, OsEvents!Events
  <2>4. (engine # "up" => \A k \in OsEvents!Kinds : owed[k] = 0)'
    BY <1>5 DEF OsEvents!Act, OsEvents!Inv
  <2>5. ASSUME NEW k \in OsEvents!Kinds PROVE OsEvents!Owed(k)'
    BY <1>5, QueueStays, OsNumbers, MinIs
    DEF OsEvents!Act, OsEvents!BurstOver, OsEvents!Inv, OsEvents!Typed, OsEvents!Owed,
        OsEvents!InQueue, OsEvents!InBurst, OsEvents!New, OsEvents!Timed, OsEvents!Kinds,
        OsEvents!Events
  <2>6. OsEvents!Ending'
    BY <1>5, QueueStays, OsNumbers, MinIs
    DEF OsEvents!Act, OsEvents!BurstOver, OsEvents!Inv, OsEvents!Typed, OsEvents!Ending,
        OsEvents!New, OsEvents!Timed, OsEvents!Stopping, OsEvents!GivenUp,
        OsEvents!Kinds, OsEvents!Events
  <2> QED BY <2>1, <2>2, <2>3, <2>4, <2>5, <2>6 DEF OsEvents!Inv
<1>6. CASE OsEvents!Acted
  <2>1. OsEvents!Typed'
    BY <1>6, QueueStays, OsNumbers, MinIs
    DEF OsEvents!Acted, OsEvents!Inv, OsEvents!Typed, OsEvents!Kinds,
        OsEvents!Events, OsEvents!Bursts
  <2>2. (busy > 0 => burst = {})'
    BY <1>6, OsNumbers DEF OsEvents!Acted, OsEvents!Inv, OsEvents!Typed
  <2>3. \A b \in burst' : OsEvents!Timed(b)'
    BY <1>6, OsNumbers, MinIs, QueueStays
    DEF OsEvents!Acted, OsEvents!Inv, OsEvents!Typed, OsEvents!Timed,
        OsEvents!Stopping, OsEvents!Ending, OsEvents!Kinds, OsEvents!Events
  <2>4. (engine # "up" => \A k \in OsEvents!Kinds : owed[k] = 0)'
    BY <1>6, MinIs DEF OsEvents!Acted, OsEvents!Inv, OsEvents!Typed
  <2>5. ASSUME NEW k \in OsEvents!Kinds PROVE OsEvents!Owed(k)'
    BY <1>6, QueueStays, OsNumbers, MinIs
    DEF OsEvents!Acted, OsEvents!Inv, OsEvents!Typed, OsEvents!Owed,
        OsEvents!InQueue, OsEvents!InBurst, OsEvents!New, OsEvents!Timed, OsEvents!Stopping,
        OsEvents!Kinds, OsEvents!Events
  <2>6. OsEvents!Ending'
    BY <1>6, QueueStays, OsNumbers, MinIs
    DEF OsEvents!Acted, OsEvents!Inv, OsEvents!Typed, OsEvents!Ending,
        OsEvents!New, OsEvents!Timed, OsEvents!Stopping, OsEvents!GivenUp, OsEvents!Kinds,
        OsEvents!Events
  <2> QED BY <2>1, <2>2, <2>3, <2>4, <2>5, <2>6 DEF OsEvents!Inv
<1>7. CASE OsEvents!Tick
  <2>1. /\ UNCHANGED <<queue, engine, session, events>>
        /\ waited' = IF session = "asked" THEN waited + 1 ELSE waited
        /\ owed' = [k \in OsEvents!Kinds |-> IF owed[k] = 0 THEN 0
             ELSE OsEvents!Min({owed[k] + 1, OsEvents!Late})]
        /\ busy' = IF busy > 0 THEN busy + 1 ELSE 0
        /\ \/ /\ OsEvents!Stopping /\ ~OsEvents!GivenUp /\ stopping' = stopping + 1
              /\ burst' = {OsEvents!Older(b) : b \in burst}
           \/ busy > 0 /\ busy <= Slow /\ UNCHANGED <<burst, stopping>>
           \/ /\ busy = 0 /\ ~OsEvents!Stopping /\ queue = <<>> /\ burst # {}
              /\ \A b \in burst : ~OsEvents!BurstOver(b)
              /\ burst' = {Older(b) : b \in burst} /\ UNCHANGED stopping
    BY <1>7 DEF OsEvents!Tick, Older
  <2>0. busy \in Nat /\ busy <= Slow + 1
    BY OsNumbers DEF OsEvents!Inv, OsEvents!Typed
  <2>15. /\ stopping \in Nat /\ stopping <= Shutdown + 1
         /\ OsEvents!Stopping => session = "asked" /\ stopping > 0 /\ busy = 0
              /\ engine \in {"stopping", "stopped"} /\ waited < Slow + stopping
    BY OsNumbers DEF OsEvents!Inv, OsEvents!Typed, OsEvents!Ending, OsEvents!Stopping
  <2>2. waited' \in Nat /\ busy' \in 0 .. (Slow + 1)
    <3>1. waited' \in Nat
      BY <2>1 DEF OsEvents!Inv, OsEvents!Typed
    <3>2. busy' \in 0 .. (Slow + 1)
      BY <2>0, <2>1, <2>15, OsNumbers
    <3> QED BY <3>1, <3>2
  <2>3. \A k \in OsEvents!Kinds : /\ owed'[k] \in Nat /\ owed'[k] <= owed[k] + 1
                         /\ owed[k] \in Nat /\ (owed'[k] > 0 => owed[k] > 0)
    <3> TAKE k \in OsEvents!Kinds
    <3>1. owed[k] \in Nat /\ OsEvents!Late \in Nat
      BY OsNumbers DEF OsEvents!Inv, OsEvents!Typed, OsEvents!Late
    <3>2. owed[k] + 1 \in Nat
      BY <3>1
    <3>3. OsEvents!Min({owed[k] + 1, OsEvents!Late}) = IF owed[k] + 1 <= OsEvents!Late
            THEN owed[k] + 1 ELSE OsEvents!Late
      BY <3>1, <3>2, MinIs
    <3>4. owed'[k] = IF owed[k] = 0 THEN 0 ELSE IF owed[k] + 1 <= OsEvents!Late THEN owed[k] + 1
            ELSE OsEvents!Late
      BY <2>1, <3>3
    <3> QED BY <3>1, <3>4
  <2>4. owed' \in [OsEvents!Kinds -> Nat]
    BY <2>1, <2>3
  <2>5. (engine # "up" => \A k \in OsEvents!Kinds : owed[k] = 0)'
    BY <2>1, <2>3 DEF OsEvents!Inv
  <2>6. \A k \in OsEvents!Events : OsEvents!Queued(k)' <=> OsEvents!Queued(k)
    BY <2>1, QueueStays
  <2>16. CASE OsEvents!Stopping
    <3>1. /\ ~OsEvents!GivenUp /\ stopping' = stopping + 1 /\ busy = 0 /\ busy' = 0
          /\ burst' = {OsEvents!Older(b) : b \in burst} /\ session = "asked"
          /\ engine \in {"stopping", "stopped"} /\ waited < Slow + stopping
      BY <2>1, <2>15, <2>16
    <3>2. ASSUME NEW b \in burst
          PROVE  OsEvents!Older(b) \in OsEvents!Bursts /\ OsEvents!Timed(OsEvents!Older(b))'
      <4>1. b \in OsEvents!Bursts /\ OsEvents!Timed(b) /\ b.age <= MaxBurst
        BY DEF OsEvents!Inv, OsEvents!Typed, OsEvents!Timed
      <4>2. /\ OsEvents!Older(b) \in OsEvents!Bursts
            /\ OsEvents!Older(b).over = b.over /\ OsEvents!Older(b).gap = b.gap
            /\ OsEvents!Older(b).age = (IF b.age < MaxBurst THEN b.age + 1 ELSE MaxBurst)
        BY <4>1, AgedIs
      <4>3. OsEvents!Stopping'
        BY <2>1, <2>15, <3>1 DEF OsEvents!Stopping
      <4>4. b.age \in Nat /\ OsEvents!Older(b).age <= MaxBurst
        BY <4>1, <4>2, OsNumbers DEF OsEvents!Bursts
      <4>5. OsEvents!Older(b).over => OsEvents!Older(b).age = MaxBurst
        BY <4>1, <4>2, <4>4, OsNumbers DEF OsEvents!Timed
      <4> QED BY <4>1, <4>2, <4>3, <4>4, <4>5 DEF OsEvents!Timed
    <3>3. stopping' \in 0 .. (Shutdown + 1)
      BY <2>15, <3>1, OsNumbers DEF OsEvents!GivenUp
    <3>4. burst' \subseteq OsEvents!Bursts /\ \A b, c \in burst' : b = c
      BY <3>1, <3>2 DEF OsEvents!Inv, OsEvents!Typed
    <3>5. OsEvents!Typed'
      BY <2>1, <2>2, <2>4, <3>3, <3>4 DEF OsEvents!Inv, OsEvents!Typed
    <3>6. \A b \in burst' : OsEvents!Timed(b)'
      BY <3>1, <3>2
    <3>7. ASSUME NEW k \in OsEvents!Kinds PROVE OsEvents!Owed(k)'
      BY <2>1, <2>5, <3>1 DEF OsEvents!Owed
    <3>8. OsEvents!Ending'
      <4>1. waited' < Slow + stopping' /\ stopping' > 0
        BY <2>1, <2>15, <3>1, OsNumbers DEF OsEvents!Inv, OsEvents!Typed
      <4> QED BY <2>1, <3>1, <4>1 DEF OsEvents!Ending
    <3> QED BY <2>5, <3>1, <3>5, <3>6, <3>7, <3>8 DEF OsEvents!Inv
  <2>7. CASE busy > 0
    <3>1. /\ burst = {} /\ burst' = {} /\ busy' = busy + 1 /\ busy \in Nat
          /\ stopping' = stopping
      BY <2>0, <2>1, <2>7, <2>15 DEF OsEvents!Inv
    <3>2. OsEvents!Typed'
      BY <2>1, <2>2, <2>4, <3>1 DEF OsEvents!Inv, OsEvents!Typed
    <3>3. ASSUME NEW k \in OsEvents!Kinds PROVE OsEvents!Owed(k)'
      <4>1. k \in OsEvents!Events
        BY DEF OsEvents!Events
      <4> QED BY <2>3, <2>6, <2>7, <3>1, <4>1 DEF OsEvents!Inv, OsEvents!Owed, OsEvents!InQueue
    <3>4. OsEvents!Ending'
      BY <2>1, <2>6, <2>7, <3>1
      DEF OsEvents!Inv, OsEvents!Typed, OsEvents!Ending, OsEvents!GivenUp, OsEvents!Events
    <3> QED BY <2>5, <3>1, <3>2, <3>3, <3>4 DEF OsEvents!Inv
  <2>8. CASE busy = 0 /\ ~OsEvents!Stopping
    <3>1. /\ queue = <<>> /\ burst' = {Older(b) : b \in burst} /\ busy' = 0
          /\ burst # {} /\ stopping' = stopping
          /\ \A b \in burst : ~OsEvents!BurstOver(b)
      BY <2>1, <2>8
    <3>2. \A k \in OsEvents!Events : ~OsEvents!Queued(k)
      BY <3>1 DEF OsEvents!Queued
    <3>3. session # "asked"
      BY <2>8, <3>2 DEF OsEvents!Inv, OsEvents!Ending, OsEvents!Events, OsEvents!Stopping
    <3>4. PICK b \in burst : burst = {b} /\ burst' = {Older(b)}
      <4>1. PICK b \in burst : TRUE
        BY <3>1
      <4>2. burst = {b}
        BY DEF OsEvents!Inv, OsEvents!Typed
      <4> QED BY <3>1, <4>2
    <3>5. /\ b \in OsEvents!Bursts
          /\ OsEvents!Timed(b) /\ ~b.over /\ b.gap # 2
      BY <3>1, <3>4 DEF OsEvents!BurstOver, OsEvents!Inv, OsEvents!Typed
    <3> DEFINE c == Older(b)
    <3>7. /\ c \in OsEvents!Bursts
          /\ c.seen = b.seen /\ c.over = b.over /\ c.gap = b.gap + 1
          /\ c.age = IF b.age < MaxBurst THEN b.age + 1 ELSE MaxBurst
      BY <3>5, OlderIs DEF OsEvents!Timed
    <3>8. burst' = {c}
      BY <3>4
    <3> HIDE DEF c
    <3>9. OsEvents!Typed'
      BY <2>1, <2>2, <2>4, <3>1, <3>7, <3>8 DEF OsEvents!Inv, OsEvents!Typed
    <3>10. OsEvents!Timed(c)'
      BY <2>1, <3>5, <3>7, OsNumbers DEF OsEvents!Timed, OsEvents!Bursts
    <3>11. ASSUME NEW k \in OsEvents!Kinds, owed'[k] > 0 PROVE OsEvents!InBurst(k, c)'
      <4>1. owed[k] > 0 /\ owed[k] \in Nat /\ owed'[k] \in Nat /\ owed'[k] <= owed[k] + 1
        BY <2>3, <3>11
      <4>2. OsEvents!InBurst(k, b)
        BY <3>2, <3>4, <4>1 DEF OsEvents!Inv, OsEvents!Owed, OsEvents!InQueue, OsEvents!Events
      <4>3. CASE b.age < MaxBurst
        BY <3>5, <3>7, <4>1, <4>2, <4>3, OsNumbers DEF OsEvents!InBurst, OsEvents!Bursts
      <4>4. CASE b.age = MaxBurst
        BY <2>8, <3>5, <3>7, <4>1, <4>2, <4>4, OsNumbers
        DEF OsEvents!InBurst, OsEvents!Timed, OsEvents!Bursts
      <4> QED BY <3>5, <4>3, <4>4, OsNumbers DEF OsEvents!Timed, OsEvents!Bursts
    <3>12. OsEvents!Ending'
      BY <2>1, <2>6, <3>1, <3>3
      DEF OsEvents!Inv, OsEvents!Typed, OsEvents!Ending, OsEvents!GivenUp, OsEvents!Events
    <3>13. ASSUME NEW k \in OsEvents!Kinds PROVE OsEvents!Owed(k)'
      BY <3>8, <3>11 DEF OsEvents!Owed
    <3>14. \A x \in burst' : OsEvents!Timed(x)'
      BY <3>8, <3>10
    <3> QED BY <2>5, <3>1, <3>9, <3>12, <3>13, <3>14 DEF OsEvents!Inv
  <2> QED BY <2>0, <2>7, <2>8, <2>16
<1>8. CASE OsEvents!OnNetwork
  <2>1. OsEvents!Typed'
    BY <1>8, QueueGrows, OsNumbers, MinIs
    DEF OsEvents!OnNetwork, OsEvents!OsCallback, OsEvents!Inv, OsEvents!Typed, OsEvents!Kinds,
        OsEvents!Events, OsEvents!Bursts
  <2>2. (busy > 0 => burst = {})'
    BY <1>8, OsNumbers DEF OsEvents!OnNetwork, OsEvents!OsCallback, OsEvents!Inv, OsEvents!Typed
  <2>3. \A b \in burst' : OsEvents!Timed(b)'
    BY <1>8, OsNumbers, MinIs, QueueGrows
    DEF OsEvents!OnNetwork, OsEvents!OsCallback, OsEvents!Inv, OsEvents!Typed, OsEvents!Timed,
        OsEvents!Stopping, OsEvents!Ending, OsEvents!Kinds, OsEvents!Events
  <2>4. (engine # "up" => \A k \in OsEvents!Kinds : owed[k] = 0)'
    BY <1>8, MinIs DEF OsEvents!OnNetwork, OsEvents!OsCallback, OsEvents!Inv, OsEvents!Typed
  <2>5. ASSUME NEW k \in OsEvents!Kinds PROVE OsEvents!Owed(k)'
    BY <1>8, QueueGrows, OsNumbers, MinIs
    DEF OsEvents!OnNetwork, OsEvents!OsCallback, OsEvents!Inv, OsEvents!Typed, OsEvents!Owed,
        OsEvents!InQueue, OsEvents!InBurst, OsEvents!New, OsEvents!Timed, OsEvents!Stopping,
        OsEvents!Kinds, OsEvents!Events
  <2>6. OsEvents!Ending'
    BY <1>8, QueueGrows, OsNumbers, MinIs
    DEF OsEvents!OnNetwork, OsEvents!OsCallback, OsEvents!Inv, OsEvents!Typed, OsEvents!Ending,
        OsEvents!New, OsEvents!Timed, OsEvents!Stopping, OsEvents!GivenUp, OsEvents!Kinds,
        OsEvents!Events
  <2> QED BY <2>1, <2>2, <2>3, <2>4, <2>5, <2>6 DEF OsEvents!Inv
<1>9. CASE OsEvents!OnPower
  <2>1. OsEvents!Typed'
    BY <1>9, QueueGrows, OsNumbers, MinIs
    DEF OsEvents!OnPower, OsEvents!OsCallback, OsEvents!Inv, OsEvents!Typed, OsEvents!Kinds,
        OsEvents!Events, OsEvents!Bursts
  <2>2. (busy > 0 => burst = {})'
    BY <1>9, OsNumbers DEF OsEvents!OnPower, OsEvents!OsCallback, OsEvents!Inv, OsEvents!Typed
  <2>3. \A b \in burst' : OsEvents!Timed(b)'
    BY <1>9, OsNumbers, MinIs, QueueGrows
    DEF OsEvents!OnPower, OsEvents!OsCallback, OsEvents!Inv, OsEvents!Typed, OsEvents!Timed,
        OsEvents!Stopping, OsEvents!Ending, OsEvents!Kinds, OsEvents!Events
  <2>4. (engine # "up" => \A k \in OsEvents!Kinds : owed[k] = 0)'
    BY <1>9, MinIs DEF OsEvents!OnPower, OsEvents!OsCallback, OsEvents!Inv, OsEvents!Typed
  <2>5. ASSUME NEW k \in OsEvents!Kinds PROVE OsEvents!Owed(k)'
    BY <1>9, QueueGrows, OsNumbers, MinIs
    DEF OsEvents!OnPower, OsEvents!OsCallback, OsEvents!Inv, OsEvents!Typed, OsEvents!Owed,
        OsEvents!InQueue, OsEvents!InBurst, OsEvents!New, OsEvents!Timed, OsEvents!Stopping,
        OsEvents!Kinds, OsEvents!Events
  <2>6. OsEvents!Ending'
    BY <1>9, QueueGrows, OsNumbers, MinIs
    DEF OsEvents!OnPower, OsEvents!OsCallback, OsEvents!Inv, OsEvents!Typed, OsEvents!Ending,
        OsEvents!New, OsEvents!Timed, OsEvents!Stopping, OsEvents!GivenUp, OsEvents!Kinds,
        OsEvents!Events
  <2> QED BY <2>1, <2>2, <2>3, <2>4, <2>5, <2>6 DEF OsEvents!Inv
<1> QED BY <1>1, <1>2, <1>3, <1>4, <1>5, <1>6, <1>7, <1>8, <1>9, <1>10, <1>11
    DEF OsEvents!Next

LEMMA OsTold == OsEvents!Inv => OsEvents!ToldInTime /\ OsEvents!StoppedFirst
<1> SUFFICES ASSUME OsEvents!Inv PROVE OsEvents!ToldInTime /\ OsEvents!StoppedFirst
  OBVIOUS
<1>1. ASSUME NEW k \in OsEvents!Kinds PROVE owed[k] <= MaxBurst + Slow + 2
  <2>1. owed[k] \in Nat /\ busy \in Nat /\ busy <= Slow + 1
    BY OsNumbers DEF OsEvents!Inv, OsEvents!Typed
  <2>2. CASE OsEvents!InQueue(k)
    BY <2>1, <2>2, OsNumbers DEF OsEvents!InQueue
  <2>3. ASSUME NEW b \in burst, OsEvents!InBurst(k, b) PROVE owed[k] <= MaxBurst + Slow + 2
    <3>1. b \in OsEvents!Bursts /\ OsEvents!Timed(b)
      BY DEF OsEvents!Inv, OsEvents!Typed
    <3> QED BY <2>1, <2>3, <3>1, OsNumbers DEF OsEvents!InBurst, OsEvents!Timed, OsEvents!Bursts
  <2> QED BY <2>1, <2>2, <2>3, OsNumbers DEF OsEvents!Inv, OsEvents!Owed
<1>2. OsEvents!StoppedFirst
  BY DEF OsEvents!StoppedFirst, OsEvents!Inv, OsEvents!Ending
<1> QED BY <1>1, <1>2 DEF OsEvents!ToldInTime

LEMMA OsStays == OsEvents!Inv /\ UNCHANGED osVars => OsEvents!Inv'
  BY DEF osVars, OsEvents!Inv, OsEvents!Typed, OsEvents!Timed, OsEvents!Stopping,
         OsEvents!GivenUp, OsEvents!Owed, OsEvents!InQueue,
         OsEvents!InBurst, OsEvents!Queued, OsEvents!New, OsEvents!Ending

----------------------------------------------------------------------------
(* The window.                                                             *)

LEMMA Hosts == Shell!Init
    => host \in [tray: BOOLEAN, portal: BOOLEAN, auto: BOOLEAN, keep: BOOLEAN]
<1>1. SUFFICES ASSUME Shell!Init
               PROVE  host \in [tray: BOOLEAN, portal: BOOLEAN, auto: BOOLEAN, keep: BOOLEAN]
  OBVIOUS
<1>2. PICK t \in BOOLEAN :
        \/ host = [tray |-> t, portal |-> FALSE, auto |-> ~t, keep |-> t]
        \/ host = [tray |-> t, portal |-> t, auto |-> FALSE, keep |-> FALSE]
  BY <1>1 DEF Shell!Init
<1>3. ASSUME NEW a \in BOOLEAN, NEW b \in BOOLEAN, NEW c \in BOOLEAN, NEW d \in BOOLEAN
      PROVE  [tray |-> a, portal |-> b, auto |-> c, keep |-> d]
               \in [tray: BOOLEAN, portal: BOOLEAN, auto: BOOLEAN, keep: BOOLEAN]
  OBVIOUS
<1>4. CASE t = TRUE
  BY <1>2, <1>3, <1>4
<1>5. CASE t = FALSE
  BY <1>2, <1>3, <1>5
<1> QED BY <1>4, <1>5

\* What the page, the theme and the login item lack is on its way: a snapshot read, to be
\* forwarded or being sent.
LEMMA WindowInit == Shell!Init => Shell!Inv
<1> SUFFICES ASSUME Shell!Init PROVE Shell!Inv
  OBVIOUS
<1> USE DEF Shell!Init, Shell!NotOpening, Shell!NoWindow, Shell!NoPage, Shell!NoSnapshot
<1>1. Shell!Typed
  <2>1. pub \in Shell!Snapshot /\ start \in Shell!Starting /\ opening \in Shell!Opening
    BY DEF Shell!Themes, Shell!Snapshot, Shell!Starting, Shell!Opening
  <2>2. window \in Shell!Windows /\ page \in Shell!Page
    BY DEF Shell!Windows, Shell!Page
  <2>3. fwd \in Shell!Forwarded
    BY DEF Shell!Forwarded
  <2>4. host \in [tray: BOOLEAN, portal: BOOLEAN, auto: BOOLEAN, keep: BOOLEAN]
    BY Hosts
  <2> QED BY <2>1, <2>2, <2>3, <2>4 DEF Shell!Typed
<1>2. Shell!Phases
  BY DEF Shell!Phases
<1>3. Shell!PageKnows
  BY DEF Shell!PageKnows, Shell!Listening
<1>4. Shell!ThemeInv /\ Shell!LoginInv /\ Shell!Opened
  BY DEF Shell!ThemeInv, Shell!LoginInv, Shell!Opened
<1> QED BY <1>1, <1>2, <1>3, <1>4 DEF Shell!Inv

\* What Publish does about starting at sign-in.
PublishesLogin(wanted) ==
  /\ pub'.n = pub.n + 1 /\ pub'.login = wanted
  /\ wanted # pub.login /\ (fwd.login = "none" \/ (fwd.at # "off" /\ fwd.seen # pub.n)) =>
       "login" \in missed'
  /\ "login" \in missed => "login" \in missed'

\* The portal's answer is the wish, or it is a refusal that goes to the settings.
LEMMA Answered ==
  ASSUME NEW wanted \in BOOLEAN, Shell!SyncAutostart(wanted)
  PROVE  \/ login' = wanted /\ grants' = grants
         \/ wanted /\ login' = FALSE /\ grants' = grants \cup {FALSE}
<1>1. PICK granted \in IF host.portal THEN {wanted, FALSE} ELSE {wanted} :
        login' = granted /\ grants' = grants \cup Shell!Denied(wanted, granted)
  BY DEF Shell!SyncAutostart
<1>2. CASE granted = wanted
  BY <1>1, <1>2 DEF Shell!Denied
<1>3. CASE granted # wanted
  <2>1. granted = FALSE /\ wanted
    BY <1>1, <1>3
  <2> QED BY <1>1, <2>1 DEF Shell!Denied
<1> QED BY <1>2, <1>3

LEMMA Found ==
  ASSUME Shell!Typed, NEW by \in {"first", "user", "start"}, Shell!Find(by)
  PROVE  opening' \in Shell!Opening
<1> DEFINE theme == IF engine = "up" /\ ~window.exists THEN pub.theme ELSE "none"
<1>1. theme \in Shell!Themes \cup {"none"} /\ (~window.exists) \in BOOLEAN
  BY DEF Shell!Typed, Shell!Snapshot, Shell!Windows
<1>2. opening' =
        [by |-> by, at |-> "show", fresh |-> ~window.exists, theme |-> theme, snap |-> 0]
  BY DEF Shell!Find, Shell!NotOpening
<1> HIDE DEF theme
<1> QED BY <1>1, <1>2 DEF Shell!Opening

LEMMA WindowNext ==
  ASSUME Shell!Inv, Shell!Next
  PROVE  Shell!Inv'
<1>1. CASE Shell!DetectTray
  <2>1. Shell!Typed'
    BY <1>1 DEF Shell!DetectTray, Shell!Inv, Shell!Typed
  <2>2. Shell!Phases'
    BY <1>1
    DEF Shell!DetectTray, Shell!Inv, Shell!Typed, Shell!Snapshot, Shell!Starting, Shell!Opening,
        Shell!Windows, Shell!Page, Shell!Forwarded, Shell!Phases
  <2>3. Shell!PageKnows'
    BY <1>1
    DEF Shell!DetectTray, Shell!Inv, Shell!Typed, Shell!Snapshot, Shell!Starting, Shell!Opening,
        Shell!Windows, Shell!Page, Shell!Forwarded, Shell!Phases, Shell!PageKnows,
        Shell!Pending, Shell!Listening
  <2>4. Shell!ThemeInv'
    BY <1>1
    DEF Shell!DetectTray, Shell!Inv, Shell!Typed, Shell!Snapshot, Shell!Starting, Shell!Opening,
        Shell!Windows, Shell!Page, Shell!Forwarded, Shell!Phases, Shell!ThemeInv, Shell!NewTheme
  <2>5. Shell!LoginInv'
    BY <1>1
    DEF Shell!DetectTray, Shell!Inv, Shell!Typed, Shell!Snapshot, Shell!Starting, Shell!Opening,
        Shell!Windows, Shell!Page, Shell!Forwarded, Shell!Phases, Shell!LoginInv, Shell!NewWish,
        Shell!Handled, Shell!Wished
  <2>6. Shell!Opened'
    BY <1>1
    DEF Shell!DetectTray, Shell!Inv, Shell!Typed, Shell!Snapshot, Shell!Starting, Shell!Opening,
        Shell!Windows, Shell!Page, Shell!Forwarded, Shell!Phases, Shell!Opened
  <2> QED BY <2>1, <2>2, <2>3, <2>4, <2>5, <2>6 DEF Shell!Inv
<1>2. CASE Shell!GetState
  <2>1. Shell!Typed'
    <3>1. page' \in Shell!Page
      BY <1>2
      DEF Shell!GetState, Shell!Inv, Shell!Typed, Shell!Snapshot, Shell!Starting, Shell!Opening,
          Shell!Windows, Shell!Page, Shell!Forwarded
    <3> QED BY <1>2, <3>1 DEF Shell!GetState, Shell!Inv, Shell!Typed
  <2>2. Shell!Phases'
    BY <1>2
    DEF Shell!GetState, Shell!Inv, Shell!Typed, Shell!Snapshot, Shell!Starting, Shell!Opening,
        Shell!Windows, Shell!Page, Shell!Forwarded, Shell!Phases
  <2>3. Shell!PageKnows'
    BY <1>2
    DEF Shell!GetState, Shell!Inv, Shell!Typed, Shell!Snapshot, Shell!Starting, Shell!Opening,
        Shell!Windows, Shell!Page, Shell!Forwarded, Shell!Phases, Shell!PageKnows,
        Shell!Pending, Shell!Listening
  <2>4. Shell!ThemeInv'
    BY <1>2
    DEF Shell!GetState, Shell!Inv, Shell!Typed, Shell!Snapshot, Shell!Starting, Shell!Opening,
        Shell!Windows, Shell!Page, Shell!Forwarded, Shell!Phases, Shell!ThemeInv, Shell!NewTheme
  <2>5. Shell!LoginInv'
    BY <1>2
    DEF Shell!GetState, Shell!Inv, Shell!Typed, Shell!Snapshot, Shell!Starting, Shell!Opening,
        Shell!Windows, Shell!Page, Shell!Forwarded, Shell!Phases, Shell!LoginInv, Shell!NewWish,
        Shell!Handled, Shell!Wished
  <2>6. Shell!Opened'
    BY <1>2
    DEF Shell!GetState, Shell!Inv, Shell!Typed, Shell!Snapshot, Shell!Starting, Shell!Opening,
        Shell!Windows, Shell!Page, Shell!Forwarded, Shell!Phases, Shell!Opened
  <2> QED BY <2>1, <2>2, <2>3, <2>4, <2>5, <2>6 DEF Shell!Inv
<1>3. CASE Shell!PageInitial
  <2>1. Shell!Typed'
    <3>1. page' \in Shell!Page
      BY <1>3
      DEF Shell!PageInitial, Shell!Inv, Shell!Typed, Shell!Snapshot, Shell!Starting,
          Shell!Opening, Shell!Windows, Shell!Page, Shell!Forwarded
    <3> QED BY <1>3, <3>1 DEF Shell!PageInitial, Shell!Inv, Shell!Typed
  <2>2. Shell!Phases'
    BY <1>3
    DEF Shell!PageInitial, Shell!Inv, Shell!Typed, Shell!Snapshot, Shell!Starting,
        Shell!Opening, Shell!Windows, Shell!Page, Shell!Forwarded, Shell!Phases
  <2>3. Shell!PageKnows'
    BY <1>3
    DEF Shell!PageInitial, Shell!Inv, Shell!Typed, Shell!Snapshot, Shell!Starting,
        Shell!Opening, Shell!Windows, Shell!Page, Shell!Forwarded, Shell!Phases,
        Shell!PageKnows, Shell!Pending, Shell!Listening
  <2>4. Shell!ThemeInv'
    BY <1>3
    DEF Shell!PageInitial, Shell!Inv, Shell!Typed, Shell!Snapshot, Shell!Starting,
        Shell!Opening, Shell!Windows, Shell!Page, Shell!Forwarded, Shell!Phases, Shell!ThemeInv,
        Shell!NewTheme
  <2>5. Shell!LoginInv'
    BY <1>3
    DEF Shell!PageInitial, Shell!Inv, Shell!Typed, Shell!Snapshot, Shell!Starting,
        Shell!Opening, Shell!Windows, Shell!Page, Shell!Forwarded, Shell!Phases, Shell!LoginInv,
        Shell!NewWish, Shell!Handled, Shell!Wished
  <2>6. Shell!Opened'
    BY <1>3
    DEF Shell!PageInitial, Shell!Inv, Shell!Typed, Shell!Snapshot, Shell!Starting,
        Shell!Opening, Shell!Windows, Shell!Page, Shell!Forwarded, Shell!Phases, Shell!Opened
  <2> QED BY <2>1, <2>2, <2>3, <2>4, <2>5, <2>6 DEF Shell!Inv
<1>4. CASE Shell!FirstOpen
  <2>1. Shell!Typed'
    <3>1. opening' \in Shell!Opening
      BY <1>4, Found DEF Shell!FirstOpen, Shell!Inv
    <3> QED BY <1>4, <3>1
            DEF Shell!FirstOpen, Shell!Find, Shell!NotOpening, Shell!Inv, Shell!Typed
  <2>2. Shell!Phases'
    BY <1>4
    DEF Shell!FirstOpen, Shell!Find, Shell!NotOpening, Shell!Inv, Shell!Typed, Shell!Snapshot,
        Shell!Starting, Shell!Opening, Shell!Windows, Shell!Page, Shell!Forwarded, Shell!Phases
  <2>3. Shell!PageKnows'
    BY <1>4
    DEF Shell!FirstOpen, Shell!Find, Shell!NotOpening, Shell!Inv, Shell!Typed, Shell!Snapshot,
        Shell!Starting, Shell!Opening, Shell!Windows, Shell!Page, Shell!Forwarded, Shell!Phases,
        Shell!PageKnows, Shell!Pending, Shell!Listening
  <2>4. Shell!ThemeInv'
    BY <1>4
    DEF Shell!FirstOpen, Shell!Find, Shell!NotOpening, Shell!Inv, Shell!Typed, Shell!Snapshot,
        Shell!Starting, Shell!Opening, Shell!Windows, Shell!Page, Shell!Forwarded, Shell!Phases,
        Shell!ThemeInv, Shell!NewTheme
  <2>5. Shell!LoginInv'
    BY <1>4
    DEF Shell!FirstOpen, Shell!Find, Shell!NotOpening, Shell!Inv, Shell!Typed, Shell!Snapshot,
        Shell!Starting, Shell!Opening, Shell!Windows, Shell!Page, Shell!Forwarded, Shell!Phases,
        Shell!LoginInv, Shell!NewWish, Shell!Handled, Shell!Wished
  <2>6. Shell!Opened'
    BY <1>4
    DEF Shell!FirstOpen, Shell!Find, Shell!NotOpening, Shell!Inv, Shell!Typed, Shell!Snapshot,
        Shell!Starting, Shell!Opening, Shell!Windows, Shell!Page, Shell!Forwarded, Shell!Phases,
        Shell!Opened
  <2> QED BY <2>1, <2>2, <2>3, <2>4, <2>5, <2>6 DEF Shell!Inv
<1>5. CASE Shell!UserOpen
  <2>1. Shell!Typed'
    <3>1. opening' \in Shell!Opening
      BY <1>5, Found DEF Shell!UserOpen, Shell!Inv
    <3> QED BY <1>5, <3>1
            DEF Shell!UserOpen, Shell!Find, Shell!NotOpening, Shell!Inv, Shell!Typed
  <2>2. Shell!Phases'
    BY <1>5
    DEF Shell!UserOpen, Shell!Find, Shell!NotOpening, Shell!Inv, Shell!Typed, Shell!Snapshot,
        Shell!Starting, Shell!Opening, Shell!Windows, Shell!Page, Shell!Forwarded, Shell!Phases
  <2>3. Shell!PageKnows'
    BY <1>5
    DEF Shell!UserOpen, Shell!Find, Shell!NotOpening, Shell!Inv, Shell!Typed, Shell!Snapshot,
        Shell!Starting, Shell!Opening, Shell!Windows, Shell!Page, Shell!Forwarded, Shell!Phases,
        Shell!PageKnows, Shell!Pending, Shell!Listening
  <2>4. Shell!ThemeInv'
    BY <1>5
    DEF Shell!UserOpen, Shell!Find, Shell!NotOpening, Shell!Inv, Shell!Typed, Shell!Snapshot,
        Shell!Starting, Shell!Opening, Shell!Windows, Shell!Page, Shell!Forwarded, Shell!Phases,
        Shell!ThemeInv, Shell!NewTheme
  <2>5. Shell!LoginInv'
    BY <1>5
    DEF Shell!UserOpen, Shell!Find, Shell!NotOpening, Shell!Inv, Shell!Typed, Shell!Snapshot,
        Shell!Starting, Shell!Opening, Shell!Windows, Shell!Page, Shell!Forwarded, Shell!Phases,
        Shell!LoginInv, Shell!NewWish, Shell!Handled, Shell!Wished
  <2>6. Shell!Opened'
    BY <1>5
    DEF Shell!UserOpen, Shell!Find, Shell!NotOpening, Shell!Inv, Shell!Typed, Shell!Snapshot,
        Shell!Starting, Shell!Opening, Shell!Windows, Shell!Page, Shell!Forwarded, Shell!Phases,
        Shell!Opened
  <2> QED BY <2>1, <2>2, <2>3, <2>4, <2>5, <2>6 DEF Shell!Inv
<1>6. CASE Shell!Build
  <2>1. Shell!Typed'
    <3>1. window' \in Shell!Windows
      BY <1>6
      DEF Shell!Build, Shell!NoWindow, Shell!NoPage, Shell!Inv, Shell!Typed, Shell!Snapshot,
          Shell!Starting, Shell!Opening, Shell!Windows, Shell!Page, Shell!Forwarded
    <3>2. page' \in Shell!Page
      BY <1>6
      DEF Shell!Build, Shell!NoWindow, Shell!NoPage, Shell!Inv, Shell!Typed, Shell!Snapshot,
          Shell!Starting, Shell!Opening, Shell!Windows, Shell!Page, Shell!Forwarded
    <3> QED BY <1>6, <3>1, <3>2
            DEF Shell!Build, Shell!NoWindow, Shell!NoPage, Shell!Inv, Shell!Typed
  <2>2. Shell!Phases'
    BY <1>6
    DEF Shell!Build, Shell!NoWindow, Shell!NoPage, Shell!Inv, Shell!Typed, Shell!Snapshot,
        Shell!Starting, Shell!Opening, Shell!Windows, Shell!Page, Shell!Forwarded, Shell!Phases
  <2>3. Shell!PageKnows'
    BY <1>6
    DEF Shell!Build, Shell!NoWindow, Shell!NoPage, Shell!Inv, Shell!Typed, Shell!Snapshot,
        Shell!Starting, Shell!Opening, Shell!Windows, Shell!Page, Shell!Forwarded, Shell!Phases,
        Shell!PageKnows, Shell!Pending, Shell!Listening
  <2>4. Shell!ThemeInv'
    BY <1>6
    DEF Shell!Build, Shell!NoWindow, Shell!NoPage, Shell!Inv, Shell!Typed, Shell!Snapshot,
        Shell!Starting, Shell!Opening, Shell!Windows, Shell!Page, Shell!Forwarded, Shell!Phases,
        Shell!ThemeInv, Shell!NewTheme
  <2>5. Shell!LoginInv'
    BY <1>6
    DEF Shell!Build, Shell!NoWindow, Shell!NoPage, Shell!Inv, Shell!Typed, Shell!Snapshot,
        Shell!Starting, Shell!Opening, Shell!Windows, Shell!Page, Shell!Forwarded, Shell!Phases,
        Shell!LoginInv, Shell!NewWish, Shell!Handled, Shell!Wished
  <2>6. Shell!Opened'
    BY <1>6
    DEF Shell!Build, Shell!NoWindow, Shell!NoPage, Shell!Inv, Shell!Typed, Shell!Snapshot,
        Shell!Starting, Shell!Opening, Shell!Windows, Shell!Page, Shell!Forwarded, Shell!Phases,
        Shell!Opened
  <2> QED BY <2>1, <2>2, <2>3, <2>4, <2>5, <2>6 DEF Shell!Inv
<1>7. CASE Shell!Show
  <2>1. Shell!Typed'
    <3>1. opening' \in Shell!Opening
      BY <1>7
      DEF Shell!Show, Shell!Shows, Shell!NotOpening, Shell!Inv, Shell!Typed, Shell!Snapshot,
          Shell!Starting, Shell!Opening, Shell!Windows, Shell!Page, Shell!Forwarded
    <3>2. window' \in Shell!Windows
      BY <1>7
      DEF Shell!Show, Shell!Shows, Shell!NotOpening, Shell!Inv, Shell!Typed, Shell!Snapshot,
          Shell!Starting, Shell!Opening, Shell!Windows, Shell!Page, Shell!Forwarded
    <3> QED BY <1>7, <3>1, <3>2
            DEF Shell!Show, Shell!Shows, Shell!NotOpening, Shell!Inv, Shell!Typed
  <2>2. Shell!Phases'
    BY <1>7
    DEF Shell!Show, Shell!Shows, Shell!NotOpening, Shell!Inv, Shell!Typed, Shell!Snapshot,
        Shell!Starting, Shell!Opening, Shell!Windows, Shell!Page, Shell!Forwarded, Shell!Phases
  <2>3. Shell!PageKnows'
    BY <1>7
    DEF Shell!Show, Shell!Shows, Shell!NotOpening, Shell!Inv, Shell!Typed, Shell!Snapshot,
        Shell!Starting, Shell!Opening, Shell!Windows, Shell!Page, Shell!Forwarded, Shell!Phases,
        Shell!PageKnows, Shell!Pending, Shell!Listening
  <2>4. Shell!ThemeInv'
    BY <1>7
    DEF Shell!Show, Shell!Shows, Shell!NotOpening, Shell!Inv, Shell!Typed, Shell!Snapshot,
        Shell!Starting, Shell!Opening, Shell!Windows, Shell!Page, Shell!Forwarded, Shell!Phases,
        Shell!ThemeInv, Shell!NewTheme
  <2>5. Shell!LoginInv'
    BY <1>7
    DEF Shell!Show, Shell!Shows, Shell!NotOpening, Shell!Inv, Shell!Typed, Shell!Snapshot,
        Shell!Starting, Shell!Opening, Shell!Windows, Shell!Page, Shell!Forwarded, Shell!Phases,
        Shell!LoginInv, Shell!NewWish, Shell!Handled, Shell!Wished
  <2>6. Shell!Opened'
    BY <1>7
    DEF Shell!Show, Shell!Shows, Shell!NotOpening, Shell!Inv, Shell!Typed, Shell!Snapshot,
        Shell!Starting, Shell!Opening, Shell!Windows, Shell!Page, Shell!Forwarded, Shell!Phases,
        Shell!Opened
  <2> QED BY <2>1, <2>2, <2>3, <2>4, <2>5, <2>6 DEF Shell!Inv
<1>8. CASE Shell!ShowRead
  <2>1. Shell!Typed'
    <3>1. opening' \in Shell!Opening
      BY <1>8
      DEF Shell!ShowRead, Shell!Inv, Shell!Typed, Shell!Snapshot, Shell!Starting, Shell!Opening,
          Shell!Windows, Shell!Page, Shell!Forwarded
    <3> QED BY <1>8, <3>1 DEF Shell!ShowRead, Shell!Inv, Shell!Typed
  <2>2. Shell!Phases'
    BY <1>8
    DEF Shell!ShowRead, Shell!Inv, Shell!Typed, Shell!Snapshot, Shell!Starting, Shell!Opening,
        Shell!Windows, Shell!Page, Shell!Forwarded, Shell!Phases
  <2>3. Shell!PageKnows'
    BY <1>8
    DEF Shell!ShowRead, Shell!Inv, Shell!Typed, Shell!Snapshot, Shell!Starting, Shell!Opening,
        Shell!Windows, Shell!Page, Shell!Forwarded, Shell!Phases, Shell!PageKnows,
        Shell!Pending, Shell!Listening
  <2>4. Shell!ThemeInv'
    BY <1>8
    DEF Shell!ShowRead, Shell!Inv, Shell!Typed, Shell!Snapshot, Shell!Starting, Shell!Opening,
        Shell!Windows, Shell!Page, Shell!Forwarded, Shell!Phases, Shell!ThemeInv, Shell!NewTheme
  <2>5. Shell!LoginInv'
    BY <1>8
    DEF Shell!ShowRead, Shell!Inv, Shell!Typed, Shell!Snapshot, Shell!Starting, Shell!Opening,
        Shell!Windows, Shell!Page, Shell!Forwarded, Shell!Phases, Shell!LoginInv, Shell!NewWish,
        Shell!Handled, Shell!Wished
  <2>6. Shell!Opened'
    BY <1>8
    DEF Shell!ShowRead, Shell!Inv, Shell!Typed, Shell!Snapshot, Shell!Starting, Shell!Opening,
        Shell!Windows, Shell!Page, Shell!Forwarded, Shell!Phases, Shell!Opened
  <2> QED BY <2>1, <2>2, <2>3, <2>4, <2>5, <2>6 DEF Shell!Inv
<1>9. CASE Shell!ShowSend
  <2>1. Shell!Typed'
    <3>1. opening' \in Shell!Opening
      BY <1>9
      DEF Shell!ShowSend, Shell!Shown, Shell!Listening, Shell!NotOpening, Shell!Inv,
          Shell!Typed, Shell!Snapshot, Shell!Starting, Shell!Opening, Shell!Windows, Shell!Page,
          Shell!Forwarded
    <3>2. page' \in Shell!Page
      BY <1>9
      DEF Shell!ShowSend, Shell!Shown, Shell!Listening, Shell!NotOpening, Shell!Inv,
          Shell!Typed, Shell!Snapshot, Shell!Starting, Shell!Opening, Shell!Windows, Shell!Page,
          Shell!Forwarded
    <3> QED BY <1>9, <3>1, <3>2
            DEF Shell!ShowSend, Shell!Shown, Shell!Listening, Shell!NotOpening, Shell!Inv,
                Shell!Typed
  <2>2. Shell!Phases'
    BY <1>9
    DEF Shell!ShowSend, Shell!Shown, Shell!Listening, Shell!NotOpening, Shell!Inv, Shell!Typed,
        Shell!Snapshot, Shell!Starting, Shell!Opening, Shell!Windows, Shell!Page,
        Shell!Forwarded, Shell!Phases
  <2>3. Shell!PageKnows'
    BY <1>9
    DEF Shell!ShowSend, Shell!Shown, Shell!Listening, Shell!NotOpening, Shell!Inv, Shell!Typed,
        Shell!Snapshot, Shell!Starting, Shell!Opening, Shell!Windows, Shell!Page,
        Shell!Forwarded, Shell!Phases, Shell!PageKnows, Shell!Pending
  <2>4. Shell!ThemeInv'
    BY <1>9
    DEF Shell!ShowSend, Shell!Shown, Shell!Listening, Shell!NotOpening, Shell!Inv, Shell!Typed,
        Shell!Snapshot, Shell!Starting, Shell!Opening, Shell!Windows, Shell!Page,
        Shell!Forwarded, Shell!Phases, Shell!ThemeInv, Shell!NewTheme
  <2>5. Shell!LoginInv'
    BY <1>9
    DEF Shell!ShowSend, Shell!Shown, Shell!Listening, Shell!NotOpening, Shell!Inv, Shell!Typed,
        Shell!Snapshot, Shell!Starting, Shell!Opening, Shell!Windows, Shell!Page,
        Shell!Forwarded, Shell!Phases, Shell!LoginInv, Shell!NewWish, Shell!Handled,
        Shell!Wished
  <2>6. Shell!Opened'
    BY <1>9
    DEF Shell!ShowSend, Shell!Shown, Shell!Listening, Shell!NotOpening, Shell!Inv, Shell!Typed,
        Shell!Snapshot, Shell!Starting, Shell!Opening, Shell!Windows, Shell!Page,
        Shell!Forwarded, Shell!Phases, Shell!Opened
  <2> QED BY <2>1, <2>2, <2>3, <2>4, <2>5, <2>6 DEF Shell!Inv
<1>10. CASE Shell!StartEngine
  <2>1. Shell!Typed'
    <3>1. start' \in Shell!Starting
      BY <1>10
      DEF Shell!StartEngine, Shell!Inv, Shell!Typed, Shell!Snapshot, Shell!Starting,
          Shell!Opening, Shell!Windows, Shell!Page, Shell!Forwarded
    <3> QED BY <1>10, <3>1 DEF Shell!StartEngine, Shell!Inv, Shell!Typed
  <2>2. Shell!Phases'
    BY <1>10
    DEF Shell!StartEngine, Shell!Inv, Shell!Typed, Shell!Snapshot, Shell!Starting,
        Shell!Opening, Shell!Windows, Shell!Page, Shell!Forwarded, Shell!Phases
  <2>3. Shell!PageKnows'
    BY <1>10
    DEF Shell!StartEngine, Shell!Inv, Shell!Typed, Shell!Snapshot, Shell!Starting,
        Shell!Opening, Shell!Windows, Shell!Page, Shell!Forwarded, Shell!Phases,
        Shell!PageKnows, Shell!Pending, Shell!Listening
  <2>4. Shell!ThemeInv'
    BY <1>10
    DEF Shell!StartEngine, Shell!Inv, Shell!Typed, Shell!Snapshot, Shell!Starting,
        Shell!Opening, Shell!Windows, Shell!Page, Shell!Forwarded, Shell!Phases, Shell!ThemeInv,
        Shell!NewTheme
  <2>5. Shell!LoginInv'
    BY <1>10
    DEF Shell!StartEngine, Shell!Inv, Shell!Typed, Shell!Snapshot, Shell!Starting,
        Shell!Opening, Shell!Windows, Shell!Page, Shell!Forwarded, Shell!Phases, Shell!LoginInv,
        Shell!NewWish, Shell!Handled, Shell!Wished
  <2>6. Shell!Opened'
    BY <1>10
    DEF Shell!StartEngine, Shell!Inv, Shell!Typed, Shell!Snapshot, Shell!Starting,
        Shell!Opening, Shell!Windows, Shell!Page, Shell!Forwarded, Shell!Phases, Shell!Opened
  <2> QED BY <2>1, <2>2, <2>3, <2>4, <2>5, <2>6 DEF Shell!Inv
<1>11. CASE Shell!StartFails
  <2>1. Shell!Typed'
    <3>1. start' \in Shell!Starting
      BY <1>11
      DEF Shell!StartFails, Shell!Inv, Shell!Typed, Shell!Snapshot, Shell!Starting,
          Shell!Opening, Shell!Windows, Shell!Page, Shell!Forwarded
    <3> QED BY <1>11, <3>1 DEF Shell!StartFails, Shell!Inv, Shell!Typed
  <2>2. Shell!Phases'
    BY <1>11
    DEF Shell!StartFails, Shell!Inv, Shell!Typed, Shell!Snapshot, Shell!Starting, Shell!Opening,
        Shell!Windows, Shell!Page, Shell!Forwarded, Shell!Phases
  <2>3. Shell!PageKnows'
    BY <1>11
    DEF Shell!StartFails, Shell!Inv, Shell!Typed, Shell!Snapshot, Shell!Starting, Shell!Opening,
        Shell!Windows, Shell!Page, Shell!Forwarded, Shell!Phases, Shell!PageKnows,
        Shell!Pending, Shell!Listening
  <2>4. Shell!ThemeInv'
    BY <1>11
    DEF Shell!StartFails, Shell!Inv, Shell!Typed, Shell!Snapshot, Shell!Starting, Shell!Opening,
        Shell!Windows, Shell!Page, Shell!Forwarded, Shell!Phases, Shell!ThemeInv, Shell!NewTheme
  <2>5. Shell!LoginInv'
    BY <1>11
    DEF Shell!StartFails, Shell!Inv, Shell!Typed, Shell!Snapshot, Shell!Starting, Shell!Opening,
        Shell!Windows, Shell!Page, Shell!Forwarded, Shell!Phases, Shell!LoginInv, Shell!NewWish,
        Shell!Handled, Shell!Wished
  <2>6. Shell!Opened'
    BY <1>11
    DEF Shell!StartFails, Shell!Inv, Shell!Typed, Shell!Snapshot, Shell!Starting, Shell!Opening,
        Shell!Windows, Shell!Page, Shell!Forwarded, Shell!Phases, Shell!Opened
  <2> QED BY <2>1, <2>2, <2>3, <2>4, <2>5, <2>6 DEF Shell!Inv
<1>12. CASE Shell!StartSync
  <2>1. Shell!Typed'
    <3>1. start' \in Shell!Starting
      BY <1>12
      DEF Shell!StartSync, Shell!SyncAutostart, Shell!Denied, Shell!Inv, Shell!Typed,
          Shell!Snapshot, Shell!Starting, Shell!Opening, Shell!Windows, Shell!Page,
          Shell!Forwarded
    <3>2. Shell!SyncAutostart(start.login) /\ start.login \in BOOLEAN
      BY <1>12 DEF Shell!StartSync, Shell!Inv, Shell!Typed, Shell!Starting
    <3>3. login' \in BOOLEAN /\ grants' \subseteq BOOLEAN
      BY <3>2, Answered DEF Shell!Inv, Shell!Typed
    <3>4. lost' \in BOOLEAN
      BY <1>12 DEF Shell!StartSync
    <3> QED BY <1>12, <3>1, <3>3, <3>4 DEF Shell!StartSync, Shell!Inv, Shell!Typed
  <2>2. Shell!Phases'
    BY <1>12
    DEF Shell!StartSync, Shell!SyncAutostart, Shell!Denied, Shell!Inv, Shell!Typed,
        Shell!Snapshot, Shell!Starting, Shell!Opening, Shell!Windows, Shell!Page,
        Shell!Forwarded, Shell!Phases
  <2>3. Shell!PageKnows'
    BY <1>12
    DEF Shell!StartSync, Shell!SyncAutostart, Shell!Denied, Shell!Inv, Shell!Typed,
        Shell!Snapshot, Shell!Starting, Shell!Opening, Shell!Windows, Shell!Page,
        Shell!Forwarded, Shell!Phases, Shell!PageKnows, Shell!Pending, Shell!Listening
  <2>4. Shell!ThemeInv'
    BY <1>12
    DEF Shell!StartSync, Shell!SyncAutostart, Shell!Denied, Shell!Inv, Shell!Typed,
        Shell!Snapshot, Shell!Starting, Shell!Opening, Shell!Windows, Shell!Page,
        Shell!Forwarded, Shell!Phases, Shell!ThemeInv, Shell!NewTheme
  <2>5. Shell!LoginInv'
    <3>1. /\ start.at = "sync" /\ Shell!SyncAutostart(start.login) /\ start.login \in BOOLEAN
          /\ UNCHANGED <<pub, fwd, missed>> /\ start'.login = start.login
      BY <1>12 DEF Shell!StartSync, Shell!Inv, Shell!Typed, Shell!Starting
    <3>2. fwd.at = "off" /\ fwd.login = "none"
      BY <3>1 DEF Shell!Inv, Shell!Phases
    <3>3. "login" \notin missed => login' = FALSE /\ grants' = {}
      BY <3>1, <3>2, Answered DEF Shell!Inv, Shell!LoginInv
    <3> QED BY <3>1, <3>2, <3>3 DEF Shell!Inv, Shell!LoginInv
  <2>6. Shell!Opened'
    BY <1>12
    DEF Shell!StartSync, Shell!SyncAutostart, Shell!Denied, Shell!Inv, Shell!Typed,
        Shell!Snapshot, Shell!Starting, Shell!Opening, Shell!Windows, Shell!Page,
        Shell!Forwarded, Shell!Phases, Shell!Opened
  <2> QED BY <2>1, <2>2, <2>3, <2>4, <2>5, <2>6 DEF Shell!Inv
<1>13. CASE Shell!StartOpen
  <2>1. Shell!Typed'
    <3>1. start' \in Shell!Starting
      BY <1>13
      DEF Shell!StartOpen, Shell!Find, Shell!NotOpening, Shell!Inv, Shell!Typed, Shell!Snapshot,
          Shell!Starting, Shell!Opening, Shell!Windows, Shell!Page, Shell!Forwarded
    <3>2. opening' \in Shell!Opening
      BY <1>13, Found DEF Shell!StartOpen, Shell!Inv
    <3> QED BY <1>13, <3>1, <3>2
            DEF Shell!StartOpen, Shell!Find, Shell!NotOpening, Shell!Inv, Shell!Typed
  <2>2. Shell!Phases'
    BY <1>13
    DEF Shell!StartOpen, Shell!Find, Shell!NotOpening, Shell!Inv, Shell!Typed, Shell!Snapshot,
        Shell!Starting, Shell!Opening, Shell!Windows, Shell!Page, Shell!Forwarded, Shell!Phases
  <2>3. Shell!PageKnows'
    BY <1>13
    DEF Shell!StartOpen, Shell!Find, Shell!NotOpening, Shell!Inv, Shell!Typed, Shell!Snapshot,
        Shell!Starting, Shell!Opening, Shell!Windows, Shell!Page, Shell!Forwarded, Shell!Phases,
        Shell!PageKnows, Shell!Pending, Shell!Listening
  <2>4. Shell!ThemeInv'
    BY <1>13
    DEF Shell!StartOpen, Shell!Find, Shell!NotOpening, Shell!Inv, Shell!Typed, Shell!Snapshot,
        Shell!Starting, Shell!Opening, Shell!Windows, Shell!Page, Shell!Forwarded, Shell!Phases,
        Shell!ThemeInv, Shell!NewTheme
  <2>5. Shell!LoginInv'
    BY <1>13
    DEF Shell!StartOpen, Shell!Find, Shell!NotOpening, Shell!Inv, Shell!Typed, Shell!Snapshot,
        Shell!Starting, Shell!Opening, Shell!Windows, Shell!Page, Shell!Forwarded, Shell!Phases,
        Shell!LoginInv, Shell!NewWish, Shell!Handled, Shell!Wished
  <2>6. Shell!Opened'
    BY <1>13
    DEF Shell!StartOpen, Shell!Find, Shell!NotOpening, Shell!Inv, Shell!Typed, Shell!Snapshot,
        Shell!Starting, Shell!Opening, Shell!Windows, Shell!Page, Shell!Forwarded, Shell!Phases,
        Shell!Opened
  <2> QED BY <2>1, <2>2, <2>3, <2>4, <2>5, <2>6 DEF Shell!Inv
<1>14. CASE Shell!StartRead
  <2>1. Shell!Typed'
    <3>1. start' \in Shell!Starting
      BY <1>14
      DEF Shell!StartRead, Shell!Inv, Shell!Typed, Shell!Snapshot, Shell!Starting,
          Shell!Opening, Shell!Windows, Shell!Page, Shell!Forwarded
    <3> QED BY <1>14, <3>1 DEF Shell!StartRead, Shell!Inv, Shell!Typed
  <2>2. Shell!Phases'
    BY <1>14
    DEF Shell!StartRead, Shell!Inv, Shell!Typed, Shell!Snapshot, Shell!Starting, Shell!Opening,
        Shell!Windows, Shell!Page, Shell!Forwarded, Shell!Phases
  <2>3. Shell!PageKnows'
    BY <1>14
    DEF Shell!StartRead, Shell!Inv, Shell!Typed, Shell!Snapshot, Shell!Starting, Shell!Opening,
        Shell!Windows, Shell!Page, Shell!Forwarded, Shell!Phases, Shell!PageKnows,
        Shell!Pending, Shell!Listening
  <2>4. Shell!ThemeInv'
    BY <1>14
    DEF Shell!StartRead, Shell!Inv, Shell!Typed, Shell!Snapshot, Shell!Starting, Shell!Opening,
        Shell!Windows, Shell!Page, Shell!Forwarded, Shell!Phases, Shell!ThemeInv, Shell!NewTheme
  <2>5. Shell!LoginInv'
    BY <1>14
    DEF Shell!StartRead, Shell!Inv, Shell!Typed, Shell!Snapshot, Shell!Starting, Shell!Opening,
        Shell!Windows, Shell!Page, Shell!Forwarded, Shell!Phases, Shell!LoginInv, Shell!NewWish,
        Shell!Handled, Shell!Wished
  <2>6. Shell!Opened'
    BY <1>14
    DEF Shell!StartRead, Shell!Inv, Shell!Typed, Shell!Snapshot, Shell!Starting, Shell!Opening,
        Shell!Windows, Shell!Page, Shell!Forwarded, Shell!Phases, Shell!Opened
  <2> QED BY <2>1, <2>2, <2>3, <2>4, <2>5, <2>6 DEF Shell!Inv
<1>15. CASE Shell!StartSend
  <2>1. Shell!Typed'
    <3>1. start' \in Shell!Starting
      BY <1>15
      DEF Shell!StartSend, Shell!Listening, Shell!Inv, Shell!Typed, Shell!Snapshot,
          Shell!Starting, Shell!Opening, Shell!Windows, Shell!Page, Shell!Forwarded
    <3>2. page' \in Shell!Page
      BY <1>15
      DEF Shell!StartSend, Shell!Listening, Shell!Inv, Shell!Typed, Shell!Snapshot,
          Shell!Starting, Shell!Opening, Shell!Windows, Shell!Page, Shell!Forwarded
    <3>3. fwd' \in Shell!Forwarded
      BY <1>15
      DEF Shell!StartSend, Shell!Listening, Shell!Inv, Shell!Typed, Shell!Snapshot,
          Shell!Starting, Shell!Opening, Shell!Windows, Shell!Page, Shell!Forwarded
    <3> QED BY <1>15, <3>1, <3>2, <3>3
            DEF Shell!StartSend, Shell!Listening, Shell!Inv, Shell!Typed
  <2>2. Shell!Phases'
    BY <1>15
    DEF Shell!StartSend, Shell!Listening, Shell!Inv, Shell!Typed, Shell!Snapshot,
        Shell!Starting, Shell!Opening, Shell!Windows, Shell!Page, Shell!Forwarded, Shell!Phases
  <2>3. Shell!PageKnows'
    BY <1>15
    DEF Shell!StartSend, Shell!Listening, Shell!Inv, Shell!Typed, Shell!Snapshot,
        Shell!Starting, Shell!Opening, Shell!Windows, Shell!Page, Shell!Forwarded, Shell!Phases,
        Shell!PageKnows, Shell!Pending
  <2>4. Shell!ThemeInv'
    BY <1>15
    DEF Shell!StartSend, Shell!Listening, Shell!Inv, Shell!Typed, Shell!Snapshot,
        Shell!Starting, Shell!Opening, Shell!Windows, Shell!Page, Shell!Forwarded, Shell!Phases,
        Shell!ThemeInv, Shell!NewTheme
  <2>5. Shell!LoginInv'
    BY <1>15
    DEF Shell!StartSend, Shell!Listening, Shell!Inv, Shell!Typed, Shell!Snapshot,
        Shell!Starting, Shell!Opening, Shell!Windows, Shell!Page, Shell!Forwarded, Shell!Phases,
        Shell!LoginInv, Shell!NewWish, Shell!Handled, Shell!Wished
  <2>6. Shell!Opened'
    BY <1>15
    DEF Shell!StartSend, Shell!Listening, Shell!Inv, Shell!Typed, Shell!Snapshot,
        Shell!Starting, Shell!Opening, Shell!Windows, Shell!Page, Shell!Forwarded, Shell!Phases,
        Shell!Opened
  <2> QED BY <2>1, <2>2, <2>3, <2>4, <2>5, <2>6 DEF Shell!Inv
<1>16. CASE Shell!Change
  <2>1. Shell!Typed'
    <3>1. pub' \in Shell!Snapshot
      BY <1>16
      DEF Shell!Change, Shell!Publish, Shell!Themes, Shell!Inv, Shell!Typed, Shell!Snapshot,
          Shell!Starting, Shell!Opening, Shell!Windows, Shell!Page, Shell!Forwarded
    <3>2. missed' \subseteq {"login", "theme"}
      BY <1>16 DEF Shell!Change, Shell!Publish, Shell!Inv, Shell!Typed
    <3> QED BY <1>16, <3>1, <3>2 DEF Shell!Change, Shell!Inv, Shell!Typed
  <2>2. Shell!Phases'
    BY <1>16
    DEF Shell!Change, Shell!Publish, Shell!Themes, Shell!Inv, Shell!Typed, Shell!Snapshot,
        Shell!Starting, Shell!Opening, Shell!Windows, Shell!Page, Shell!Forwarded, Shell!Phases
  <2>3. Shell!PageKnows'
    BY <1>16
    DEF Shell!Change, Shell!Publish, Shell!Themes, Shell!Inv, Shell!Typed, Shell!Snapshot,
        Shell!Starting, Shell!Opening, Shell!Windows, Shell!Page, Shell!Forwarded, Shell!Phases,
        Shell!PageKnows, Shell!Pending, Shell!Listening
  <2>4. Shell!ThemeInv'
    BY <1>16
    DEF Shell!Change, Shell!Publish, Shell!Themes, Shell!Inv, Shell!Typed, Shell!Snapshot,
        Shell!Starting, Shell!Opening, Shell!Windows, Shell!Page, Shell!Forwarded, Shell!Phases,
        Shell!ThemeInv, Shell!NewTheme
  <2>5. Shell!LoginInv'
    <3>1. PICK theme \in Shell!Themes, wanted \in BOOLEAN :
            /\ Shell!Publish(theme, wanted)
            /\ wanted # pub.login => grants = {}
      BY <1>16 DEF Shell!Change
    <3>2. UNCHANGED <<start, fwd, login, grants>>
      BY <1>16 DEF Shell!Change
    <3>3. PublishesLogin(wanted)
      BY <3>1 DEF Shell!Publish, PublishesLogin
    <3>4. pub.n \in Nat /\ fwd.seen \in Nat /\ fwd.seen <= pub.n /\ pub.login \in BOOLEAN
          /\ login \in BOOLEAN /\ fwd.snap.login \in BOOLEAN
      BY DEF Shell!Inv, Shell!Typed, Shell!Snapshot, Shell!Forwarded, Shell!Phases
    <3>5. fwd.at = "off" => fwd.login = "none"
      BY DEF Shell!Inv, Shell!Phases
    <3>6. SUFFICES ASSUME "login" \notin missed' PROVE Shell!LoginInv'
      BY DEF Shell!LoginInv
    <3>7. "login" \notin missed
      BY <3>3, <3>6 DEF PublishesLogin
    <3>8. Shell!Wished' = Shell!Wished /\ Shell!Handled' = Shell!Handled /\ fwd.seen # pub'.n
            /\ pub'.login = wanted
      BY <3>2, <3>3, <3>4 DEF PublishesLogin, Shell!Wished, Shell!Handled
    <3>9. wanted # pub.login => grants = {} /\ fwd.login # "none" /\ fwd.seen = pub.n
      BY <3>1, <3>3, <3>5, <3>6 DEF PublishesLogin
    <3>10. CASE fwd.login = "none"
      BY <3>2, <3>7, <3>8, <3>9, <3>10 DEF Shell!Inv, Shell!LoginInv
    <3>11. CASE fwd.login # "none"
      <4>1. /\ grants \subseteq {FALSE} /\ (fwd.seen = pub.n => pub.login = Shell!Handled)
            /\ grants = {} => login = Shell!Wished \/ Shell!NewWish
            /\ grants # {} => ~login /\ (pub.login => Shell!Handled)
                 /\ (Shell!Handled => Shell!Wished)
        BY <3>7, <3>11 DEF Shell!Inv, Shell!LoginInv
      <4>2. wanted # pub.login => Shell!NewWish'
        BY <3>2, <3>4, <3>8, <3>9, <4>1 DEF Shell!NewWish
      <4>3. wanted = pub.login => (Shell!NewWish => Shell!NewWish')
        BY <3>2, <3>8 DEF Shell!NewWish
      <4> QED BY <3>2, <3>8, <3>9, <3>11, <4>1, <4>2, <4>3 DEF Shell!LoginInv
    <3> QED BY <3>10, <3>11
  <2>6. Shell!Opened'
    BY <1>16
    DEF Shell!Change, Shell!Publish, Shell!Themes, Shell!Inv, Shell!Typed, Shell!Snapshot,
        Shell!Starting, Shell!Opening, Shell!Windows, Shell!Page, Shell!Forwarded, Shell!Phases,
        Shell!Opened
  <2> QED BY <2>1, <2>2, <2>3, <2>4, <2>5, <2>6 DEF Shell!Inv
<1>17. CASE Shell!Granted
  <2>1. Shell!Typed'
    <3>1. pub' \in Shell!Snapshot
      BY <1>17
      DEF Shell!Granted, Shell!Publish, Shell!Inv, Shell!Typed, Shell!Snapshot, Shell!Starting,
          Shell!Opening, Shell!Windows, Shell!Page, Shell!Forwarded
    <3> QED BY <1>17, <3>1 DEF Shell!Granted, Shell!Publish, Shell!Inv, Shell!Typed
  <2>2. Shell!Phases'
    BY <1>17
    DEF Shell!Granted, Shell!Publish, Shell!Inv, Shell!Typed, Shell!Snapshot, Shell!Starting,
        Shell!Opening, Shell!Windows, Shell!Page, Shell!Forwarded, Shell!Phases
  <2>3. Shell!PageKnows'
    BY <1>17
    DEF Shell!Granted, Shell!Publish, Shell!Inv, Shell!Typed, Shell!Snapshot, Shell!Starting,
        Shell!Opening, Shell!Windows, Shell!Page, Shell!Forwarded, Shell!Phases,
        Shell!PageKnows, Shell!Pending, Shell!Listening
  <2>4. Shell!ThemeInv'
    BY <1>17
    DEF Shell!Granted, Shell!Publish, Shell!Inv, Shell!Typed, Shell!Snapshot, Shell!Starting,
        Shell!Opening, Shell!Windows, Shell!Page, Shell!Forwarded, Shell!Phases, Shell!ThemeInv,
        Shell!NewTheme
  <2>5. Shell!LoginInv'
    <3>1. PICK g \in grants : Shell!Publish(pub.theme, g) /\ grants' = grants \ {g}
      BY <1>17 DEF Shell!Granted
    <3>2. UNCHANGED <<start, fwd, login>>
      BY <1>17 DEF Shell!Granted
    <3>3. PublishesLogin(g)
      BY <3>1 DEF Shell!Publish, PublishesLogin
    <3>4. pub.n \in Nat /\ fwd.seen \in Nat /\ fwd.seen <= pub.n
      BY DEF Shell!Inv, Shell!Typed, Shell!Snapshot, Shell!Forwarded, Shell!Phases
    <3>5. SUFFICES ASSUME "login" \notin missed' PROVE Shell!LoginInv'
      BY DEF Shell!LoginInv
    <3>6. "login" \notin missed /\ grants # {} /\ g = FALSE /\ grants' = {}
            /\ fwd.login # "none"
      BY <3>1, <3>3, <3>5 DEF PublishesLogin, Shell!Inv, Shell!LoginInv
    <3>7. ~login /\ (pub.login => Shell!Handled) /\ (Shell!Handled => Shell!Wished)
      BY <3>6 DEF Shell!Inv, Shell!LoginInv
    <3>8. pub'.login = FALSE /\ fwd.seen # pub'.n
      BY <3>3, <3>4, <3>6 DEF PublishesLogin
    <3>9. login \in BOOLEAN /\ (fwd.at = "window" => fwd.snap.login \in BOOLEAN)
      BY DEF Shell!Inv, Shell!Typed, Shell!Forwarded
    <3> QED BY <3>2, <3>6, <3>7, <3>8, <3>9
            DEF Shell!LoginInv, Shell!NewWish, Shell!Handled, Shell!Wished
  <2>6. Shell!Opened'
    BY <1>17
    DEF Shell!Granted, Shell!Publish, Shell!Inv, Shell!Typed, Shell!Snapshot, Shell!Starting,
        Shell!Opening, Shell!Windows, Shell!Page, Shell!Forwarded, Shell!Phases, Shell!Opened
  <2> QED BY <2>1, <2>2, <2>3, <2>4, <2>5, <2>6 DEF Shell!Inv
<1>18. CASE Shell!Forward
  <2>1. Shell!Typed'
    <3>1. fwd' \in Shell!Forwarded
      BY <1>18
      DEF Shell!Forward, Shell!Inv, Shell!Typed, Shell!Snapshot, Shell!Starting, Shell!Opening,
          Shell!Windows, Shell!Page, Shell!Forwarded
    <3> QED BY <1>18, <3>1 DEF Shell!Forward, Shell!Inv, Shell!Typed
  <2>2. Shell!Phases'
    BY <1>18
    DEF Shell!Forward, Shell!Inv, Shell!Typed, Shell!Snapshot, Shell!Starting, Shell!Opening,
        Shell!Windows, Shell!Page, Shell!Forwarded, Shell!Phases, Shell!Themes
  <2>3. Shell!PageKnows'
    BY <1>18
    DEF Shell!Forward, Shell!Inv, Shell!Typed, Shell!Snapshot, Shell!Starting, Shell!Opening,
        Shell!Windows, Shell!Page, Shell!Forwarded, Shell!Phases, Shell!PageKnows,
        Shell!Pending, Shell!Listening
  <2>4. Shell!ThemeInv'
    BY <1>18
    DEF Shell!Forward, Shell!Inv, Shell!Typed, Shell!Snapshot, Shell!Starting, Shell!Opening,
        Shell!Windows, Shell!Page, Shell!Forwarded, Shell!Phases, Shell!ThemeInv, Shell!NewTheme
  <2>5. Shell!LoginInv'
    BY <1>18
    DEF Shell!Forward, Shell!Inv, Shell!Typed, Shell!Snapshot, Shell!Starting, Shell!Opening,
        Shell!Windows, Shell!Page, Shell!Forwarded, Shell!Phases, Shell!LoginInv, Shell!NewWish,
        Shell!Handled, Shell!Wished
  <2>6. Shell!Opened'
    BY <1>18
    DEF Shell!Forward, Shell!Inv, Shell!Typed, Shell!Snapshot, Shell!Starting, Shell!Opening,
        Shell!Windows, Shell!Page, Shell!Forwarded, Shell!Phases, Shell!Opened
  <2> QED BY <2>1, <2>2, <2>3, <2>4, <2>5, <2>6 DEF Shell!Inv
<1>19. CASE Shell!ForwardWindow
  <2>1. Shell!Typed'
    <3>1. window' \in Shell!Windows
      BY <1>19
      DEF Shell!ForwardWindow, Shell!Shown, Shell!Listening, Shell!SyncAutostart, Shell!Denied,
          Shell!ThemeSet, Shell!NoSnapshot, Shell!Inv, Shell!Typed, Shell!Snapshot,
          Shell!Starting, Shell!Opening, Shell!Windows, Shell!Page, Shell!Forwarded
    <3>2. fwd' \in Shell!Forwarded
      <4>1. fwd' = [at |-> "idle", seen |-> fwd.seen, snap |-> Shell!NoSnapshot,
                    theme |-> Shell!ThemeSet, login |-> IF fwd.snap.login THEN "on" ELSE "off"]
        BY <1>19 DEF Shell!ForwardWindow, Shell!Inv, Shell!Typed, Shell!Forwarded
      <4>2. Shell!ThemeSet \in Shell!Themes \cup {"none"} /\ fwd.seen \in Nat
        BY DEF Shell!ThemeSet, Shell!Inv, Shell!Typed, Shell!Forwarded
      <4> QED BY <4>1, <4>2 DEF Shell!NoSnapshot, Shell!Forwarded
    <3>3. page' \in Shell!Page
      BY <1>19
      DEF Shell!ForwardWindow, Shell!Shown, Shell!Listening, Shell!SyncAutostart, Shell!Denied,
          Shell!ThemeSet, Shell!NoSnapshot, Shell!Inv, Shell!Typed, Shell!Snapshot,
          Shell!Starting, Shell!Opening, Shell!Windows, Shell!Page, Shell!Forwarded
    <3>4. login' \in BOOLEAN /\ grants' \subseteq BOOLEAN
      <4>1. fwd.snap.login \in BOOLEAN
        BY DEF Shell!Inv, Shell!Typed, Shell!Forwarded
      <4>2. Shell!SyncAutostart(fwd.snap.login) \/ UNCHANGED <<login, grants>>
        BY <1>19 DEF Shell!ForwardWindow
      <4> QED BY <4>1, <4>2, Answered DEF Shell!Inv, Shell!Typed
    <3>5. late' \in BOOLEAN
      BY <1>19 DEF Shell!ForwardWindow, Shell!Shown, Shell!Inv, Shell!Typed
    <3> QED BY <1>19, <3>1, <3>2, <3>3, <3>4, <3>5
            DEF Shell!ForwardWindow, Shell!Inv, Shell!Typed
  <2>2. Shell!Phases'
    BY <1>19
    DEF Shell!ForwardWindow, Shell!Shown, Shell!Listening, Shell!SyncAutostart, Shell!Denied,
        Shell!ThemeSet, Shell!NoSnapshot, Shell!Inv, Shell!Typed, Shell!Snapshot,
        Shell!Starting, Shell!Opening, Shell!Windows, Shell!Page, Shell!Forwarded, Shell!Phases
  <2>3. Shell!PageKnows'
    BY <1>19
    DEF Shell!ForwardWindow, Shell!Shown, Shell!Listening, Shell!SyncAutostart, Shell!Denied,
        Shell!ThemeSet, Shell!NoSnapshot, Shell!Inv, Shell!Typed, Shell!Snapshot,
        Shell!Starting, Shell!Opening, Shell!Windows, Shell!Page, Shell!Forwarded, Shell!Phases,
        Shell!PageKnows, Shell!Pending
  <2>4. Shell!ThemeInv'
    <3>1. /\ fwd.at = "window" /\ fwd'.at = "idle" /\ fwd'.seen = fwd.seen
          /\ fwd'.theme = Shell!ThemeSet /\ UNCHANGED <<pub, opening, missed>>
      BY <1>19 DEF Shell!ForwardWindow, Shell!Inv, Shell!Typed, Shell!Forwarded
    <3>2. IF window.visible
          THEN /\ window'.exists = window.exists
               /\ window'.theme = fwd.snap.theme \/ (fwd.theme = fwd.snap.theme
                    /\ window'.theme = window.theme)
          ELSE fwd'.theme = "none"
      BY <1>19, <3>1
      DEF Shell!ForwardWindow, Shell!ThemeSet, Shell!Inv, Shell!Typed, Shell!Windows
    <3>3. SUFFICES ASSUME "theme" \notin missed, window.visible PROVE Shell!ThemeInv'
      BY <3>1, <3>2 DEF Shell!ThemeInv
    <3>4. ~(opening.at = "show" /\ opening.fresh)
      BY <3>3 DEF Shell!Inv, Shell!Phases
    <3>5. fwd'.theme = fwd.snap.theme /\ window.exists
      BY <3>1, <3>3 DEF Shell!ThemeSet, Shell!Inv, Shell!Phases
    <3>6. fwd.theme = fwd.snap.theme => fwd.theme # "none"
      BY <3>1 DEF Shell!Inv, Shell!Phases
    <3>7. fwd.seen = pub.n => pub.theme = fwd.snap.theme
      BY <3>1 DEF Shell!Inv, Shell!Phases
    <3> QED BY <3>1, <3>2, <3>3, <3>4, <3>5, <3>6, <3>7
            DEF Shell!Inv, Shell!ThemeInv, Shell!NewTheme
  <2>5. Shell!LoginInv'
    <3>1. /\ fwd.at = "window" /\ fwd'.at = "idle" /\ fwd'.seen = fwd.seen
          /\ fwd'.login = IF fwd.snap.login THEN "on" ELSE "off"
          /\ UNCHANGED <<pub, start, missed>>
      BY <1>19 DEF Shell!ForwardWindow, Shell!Inv, Shell!Typed, Shell!Forwarded
    <3>2. IF fwd.login \notin {"none", fwd'.login}
          THEN Shell!SyncAutostart(fwd.snap.login) ELSE UNCHANGED <<login, grants>>
      BY <1>19 DEF Shell!ForwardWindow
    <3>3. /\ fwd.snap.login \in BOOLEAN /\ fwd.login \in {"none", "on", "off"}
          /\ login \in BOOLEAN /\ pub.login \in BOOLEAN
      BY DEF Shell!Inv, Shell!Typed, Shell!Forwarded, Shell!Snapshot
    <3>4. SUFFICES ASSUME "login" \notin missed PROVE Shell!LoginInv'
      BY <3>1 DEF Shell!LoginInv
    <3>5. CASE fwd.login = "none"
      BY <3>1, <3>2, <3>3, <3>4, <3>5
      DEF Shell!Inv, Shell!LoginInv, Shell!NewWish, Shell!Handled, Shell!Wished
    <3>6. CASE fwd.login # "none" /\ fwd.login = fwd'.login
      BY <3>1, <3>2, <3>3, <3>4, <3>6
      DEF Shell!Inv, Shell!LoginInv, Shell!NewWish, Shell!Handled, Shell!Wished
    <3>7. CASE fwd.login # "none" /\ fwd.login # fwd'.login
      <4>1. \/ login' = fwd.snap.login /\ grants' = grants
            \/ fwd.snap.login /\ login' = FALSE /\ grants' = grants \cup {FALSE}
        BY <3>2, <3>3, <3>7, Answered
      <4>2. fwd.snap.login # Shell!Wished
        BY <3>1, <3>3, <3>7 DEF Shell!Wished
      <4>3. Shell!Handled = fwd.snap.login /\ Shell!Wished' = fwd.snap.login
              /\ Shell!Handled' = fwd.snap.login
        BY <3>1, <3>3 DEF Shell!Handled, Shell!Wished
      <4>4. /\ grants \subseteq {FALSE} /\ (fwd.seen = pub.n => pub.login = Shell!Handled)
            /\ grants # {} => (pub.login => Shell!Handled) /\ (Shell!Handled => Shell!Wished)
        BY <3>4, <3>7 DEF Shell!Inv, Shell!LoginInv
      <4>5. fwd'.login # "none"
        BY <3>1
      <4> QED BY <3>1, <3>3, <4>1, <4>2, <4>3, <4>4, <4>5 DEF Shell!LoginInv, Shell!NewWish
    <3> QED BY <3>5, <3>6, <3>7
  <2>6. Shell!Opened'
    BY <1>19
    DEF Shell!ForwardWindow, Shell!Shown, Shell!Listening, Shell!SyncAutostart, Shell!Denied,
        Shell!ThemeSet, Shell!NoSnapshot, Shell!Inv, Shell!Typed, Shell!Snapshot,
        Shell!Starting, Shell!Opening, Shell!Windows, Shell!Page, Shell!Forwarded, Shell!Phases,
        Shell!Opened
  <2> QED BY <2>1, <2>2, <2>3, <2>4, <2>5, <2>6 DEF Shell!Inv
<1>20. CASE Shell!Close
  <2>1. Shell!Typed'
    <3>1. window' \in Shell!Windows
      BY <1>20
      DEF Shell!Close, Shell!Closes, Shell!NoWindow, Shell!NoPage, Shell!Inv, Shell!Typed,
          Shell!Snapshot, Shell!Starting, Shell!Opening, Shell!Windows, Shell!Page,
          Shell!Forwarded
    <3>2. page' \in Shell!Page
      BY <1>20
      DEF Shell!Close, Shell!Closes, Shell!NoWindow, Shell!NoPage, Shell!Inv, Shell!Typed,
          Shell!Snapshot, Shell!Starting, Shell!Opening, Shell!Windows, Shell!Page,
          Shell!Forwarded
    <3> QED BY <1>20, <3>1, <3>2
            DEF Shell!Close, Shell!Closes, Shell!NoWindow, Shell!NoPage, Shell!Inv, Shell!Typed
  <2>2. Shell!Phases'
    BY <1>20
    DEF Shell!Close, Shell!Closes, Shell!NoWindow, Shell!NoPage, Shell!Inv, Shell!Typed,
        Shell!Snapshot, Shell!Starting, Shell!Opening, Shell!Windows, Shell!Page,
        Shell!Forwarded, Shell!Phases
  <2>3. Shell!PageKnows'
    BY <1>20
    DEF Shell!Close, Shell!Closes, Shell!NoWindow, Shell!NoPage, Shell!Inv, Shell!Typed,
        Shell!Snapshot, Shell!Starting, Shell!Opening, Shell!Windows, Shell!Page,
        Shell!Forwarded, Shell!Phases, Shell!PageKnows, Shell!Pending, Shell!Listening
  <2>4. Shell!ThemeInv'
    BY <1>20
    DEF Shell!Close, Shell!Closes, Shell!NoWindow, Shell!NoPage, Shell!Inv, Shell!Typed,
        Shell!Snapshot, Shell!Starting, Shell!Opening, Shell!Windows, Shell!Page,
        Shell!Forwarded, Shell!Phases, Shell!ThemeInv, Shell!NewTheme
  <2>5. Shell!LoginInv'
    BY <1>20
    DEF Shell!Close, Shell!Closes, Shell!NoWindow, Shell!NoPage, Shell!Inv, Shell!Typed,
        Shell!Snapshot, Shell!Starting, Shell!Opening, Shell!Windows, Shell!Page,
        Shell!Forwarded, Shell!Phases, Shell!LoginInv, Shell!NewWish, Shell!Handled,
        Shell!Wished
  <2>6. Shell!Opened'
    BY <1>20
    DEF Shell!Close, Shell!Closes, Shell!NoWindow, Shell!NoPage, Shell!Inv, Shell!Typed,
        Shell!Snapshot, Shell!Starting, Shell!Opening, Shell!Windows, Shell!Page,
        Shell!Forwarded, Shell!Phases, Shell!Opened
  <2> QED BY <2>1, <2>2, <2>3, <2>4, <2>5, <2>6 DEF Shell!Inv
<1> QED BY <1>1, <1>2, <1>3, <1>4, <1>5, <1>6, <1>7, <1>8, <1>9, <1>10, <1>11, <1>12, <1>13,
           <1>14, <1>15, <1>16, <1>17, <1>18, <1>19, <1>20
        DEF Shell!Next

LEMMA WindowFollows ==
  ASSUME Shell!Inv
  PROVE  Shell!Current /\ Shell!Themed /\ Shell!StartsAsSet /\ Shell!Reachable
<1> USE DEF Shell!Inv, Shell!Typed, Shell!Snapshot, Shell!Starting, Shell!Opening,
    Shell!Windows, Shell!Page, Shell!Forwarded, Shell!Phases, Shell!Quiet, Shell!NotOpening
<1>1. Shell!Current
  BY DEF Shell!Current, Shell!PageKnows, Shell!Pending, Shell!Listening
<1>2. Shell!Themed
  BY DEF Shell!Themed, Shell!ThemeInv, Shell!NewTheme
<1>3. Shell!StartsAsSet
  BY DEF Shell!StartsAsSet, Shell!LoginInv, Shell!NewWish, Shell!Handled, Shell!Wished
<1>4. Shell!Reachable
  BY DEF Shell!Reachable, Shell!Opened
<1> QED BY <1>1, <1>2, <1>3, <1>4

LEMMA WindowStays == Shell!Inv /\ UNCHANGED windowVars => Shell!Inv'
<1> SUFFICES ASSUME Shell!Inv, UNCHANGED windowVars PROVE Shell!Inv'
  OBVIOUS
<1> USE DEF windowVars, Shell!Inv
<1>1. Shell!Typed' /\ Shell!Phases' /\ Shell!Opened'
  BY DEF Shell!Typed, Shell!Phases, Shell!Opened
<1>2. Shell!PageKnows'
  BY DEF Shell!PageKnows, Shell!Pending, Shell!Listening
<1>3. Shell!ThemeInv'
  BY DEF Shell!ThemeInv, Shell!NewTheme
<1>4. Shell!LoginInv'
  BY DEF Shell!LoginInv, Shell!NewWish, Shell!Handled, Shell!Wished
<1> QED BY <1>1, <1>2, <1>3, <1>4
=============================================================================
