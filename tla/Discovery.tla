----------------------------- MODULE Discovery -----------------------------
(***************************************************************************)
(* How one device learns of another on the network (sp-discovery): the     *)
(* peer publishes itself by mDNS and by broadcast beacons, this device     *)
(* merges what it hears in its PeerRegistry and tells its engine, which    *)
(* keeps the peers it may dial.  The network loses and reorders beacons    *)
(* and loses mDNS events.                                                  *)
(*                                                                         *)
(* Time passes in sweeps of the registry; what a device sends is delivered *)
(* or lost, and every queue is emptied, within one.                        *)
(***************************************************************************)
EXTENDS Naturals, Sequences, FiniteSets, SequencesExt

CONSTANTS
  Addresses,  \* socket addresses
  Rank,       \* candidates::rank of each; Unusable is dropped
  Ttl,        \* PEER_TTL, in sweeps
  MaxTurns,   \* bound on what the user of the peer does
  MaxAdverts  \* bound on what the peer announces

VARIABLES
  setting,    \* settings.visibility of the peer
  qr,         \* the peer shows a pairing code
  cmds,       \* Command::Update for the peer's discovery service
  config,     \* the visibility that service runs with
  record,     \* what it has registered with mDNS
  here,       \* the addresses the peer has
  beacons,    \* beacons on their way
  mdns,       \* mDNS events on their way
  found,      \* found_rx of this device's discovery service
  lost,       \* lost_rx of it: how many removals wait
  entry,      \* its registry entry for the peer: none or one
  events,     \* DiscoveryEvents for its engine
  discovered, \* the engine's entry for the peer: none or one
  forgotten,  \* addresses the engine forgot since the last Updated
  silent,     \* sweeps since the peer last had to be visible
  exposed,    \* the name was shown since this device last knew nothing of the peer
  turns, adverts

theirs == <<setting, qr, cmds, config, record, here>>
ours == <<found, lost, entry, events, discovered, forgotten>>
vars == <<theirs, beacons, mdns, ours, silent, exposed, turns, adverts>>

Visibilities == {"Everyone", "TrustedOnly", "Hidden"}
Unusable == 0
Names == {"", "name"}
Orders(S) == {s \in [1..Cardinality(S) -> S] : ToSet(s) = S}
Advert == [name: Names, addrs: UNION {Orders(S) : S \in SUBSET Addresses}]

Init ==
  /\ setting = "Everyone" /\ qr = FALSE /\ cmds = <<>> /\ config = "Everyone"
  /\ record = "name" /\ here = Addresses
  /\ beacons = {} /\ mdns = <<>> /\ found = <<>> /\ lost = 0 /\ entry = {}
  /\ events = <<>> /\ discovered = {} /\ forgotten = {}
  /\ silent = 0 /\ exposed = TRUE /\ turns = 0 /\ adverts = 0

----------------------------------------------------------------------------
(* The peer.                                                               *)

\* Actor::discovery_config: a pairing code must be found by whoever scans it.
Visibility(v, code) == IF code THEN "Everyone" ELSE v

\* Bug: the discovery service is not told that the code is gone.
UpdateOnShow(v, code) ==
  cmds' = IF code \/ v # setting THEN Append(cmds, Visibility(v, code)) ELSE cmds

UpdateDiscovery(v, code) == cmds' = Append(cmds, Visibility(v, code))

Turn == turns < MaxTurns /\ turns' = turns + 1
UnchangedSeen == UNCHANGED <<config, record, here, beacons, mdns, ours, adverts>>

\* apply_settings.
SetVisibility(v) ==
  /\ v # setting /\ Turn
  /\ setting' = v /\ UpdateDiscovery(v, qr)
  /\ exposed' = (exposed \/ v = "Everyone")
  /\ silent' = IF Visibility(v, qr) = "Hidden" THEN silent ELSE 0
  /\ UNCHANGED qr /\ UnchangedSeen

\* StartPairing; StopPairing, the code was used or has expired.
ShowCode == ~qr /\ Turn /\ qr' = TRUE /\ UpdateDiscovery(setting, TRUE) /\ exposed' = TRUE
            /\ silent' = 0 /\ UNCHANGED setting /\ UnchangedSeen
EndCode == qr /\ qr' = FALSE /\ UpdateDiscovery(setting, FALSE)
           /\ UNCHANGED <<setting, exposed, silent, turns>> /\ UnchangedSeen

NameFor(v) == IF v = "Everyone" THEN "name" ELSE ""

\* Bug: the name is published whoever may see the device.
RecordNamed(v) == IF v = "Hidden" THEN "none" ELSE "name"

\* What publish leaves registered: the record has no name unless everyone may see it.
Record(v) == IF v = "Hidden" THEN "none" ELSE NameFor(v)

\* publish: the old record is withdrawn first, which those who browse are told
\* unless the message is lost.
ServiceUpdates ==
  /\ cmds # <<>> /\ config' = Head(cmds) /\ cmds' = Tail(cmds)
  /\ record' = Record(Head(cmds))
  /\ IF record = "none" THEN UNCHANGED mdns
     ELSE \/ mdns' = Append(mdns, [kind |-> "removed"])
          \/ UNCHANGED mdns
  /\ UNCHANGED <<setting, qr, here, beacons, ours, silent, exposed, turns, adverts>>

Announces == adverts < MaxAdverts /\ adverts' = adverts + 1

\* The mDNS daemon answers for what is registered, with every address it has.
MdnsAnswers ==
  /\ record # "none" /\ Announces
  /\ \E s \in Orders(here) :
       mdns' = Append(mdns, [kind |-> "resolved", name |-> record, addrs |-> s])
  /\ UNCHANGED <<theirs, beacons, ours, silent, exposed, turns>>

\* Bug: a hidden device keeps sending beacons.
BeaconsAlways == TRUE

Beacons == config # "Hidden"

\* beacon_tick: send_beacon, encode; the receiver reads the address off the packet.
SendBeacon ==
  /\ Beacons /\ Announces
  /\ \E a \in here : beacons' = beacons \cup {[name |-> NameFor(config), addrs |-> <<a>>]}
  /\ UNCHANGED <<theirs, mdns, ours, silent, exposed, turns>>

\* The peer's addresses change.
Moves(S) ==
  /\ S # here /\ S # {} /\ Turn /\ here' = S
  /\ UNCHANGED <<setting, qr, cmds, config, record, beacons, mdns, ours, silent, exposed, adverts>>

----------------------------------------------------------------------------
(* The network and this device's discovery service.                        *)

LoseBeacon(b) == b \in beacons /\ beacons' = beacons \ {b}
                 /\ UNCHANGED <<theirs, mdns, ours, silent, exposed, turns, adverts>>
\* The task that receives beacons: decode accepts only what the peer signed.
BeaconArrives(b) ==
  /\ b \in beacons /\ beacons' = beacons \ {b} /\ found' = Append(found, b)
  /\ UNCHANGED <<theirs, mdns, lost, entry, events, discovered, forgotten, silent, exposed,
                 turns, adverts>>

\* The task of MdnsAdvertiser::browse: two channels, which keep no order between them.
MdnsArrives ==
  /\ mdns # <<>> /\ mdns' = Tail(mdns)
  /\ LET e == Head(mdns) IN
       \/ e.kind = "resolved" /\ UNCHANGED lost
          /\ found' = Append(found, [name |-> e.name, addrs |-> e.addrs])
       \/ e.kind = "removed" /\ lost' = lost + 1 /\ UNCHANGED found
  /\ UNCHANGED <<theirs, beacons, entry, events, discovered, forgotten, silent, exposed, turns,
                 adverts>>

\* candidates::order: a stable sort by rank, and dedup of neighbours.
Dedup(s) == FoldLeft(LAMBDA r, a : IF r # <<>> /\ Last(r) = a THEN r ELSE Append(r, a), <<>>, s)
Order(s) ==
  LET Ranks == SetToSortSeq({Rank[a] : a \in Addresses} \ {Unusable}, <)
  IN Dedup(FlattenSeq([i \in 1..Len(Ranks) |-> SelectSeq(s, LAMBDA a : Rank[a] = Ranks[i])]))

\* PeerRegistry::ingest of a peer that is known already.
Merge(e, a) == [name |-> IF a.name = "" THEN e.name ELSE a.name,
                addrs |-> Order(e.addrs \o a.addrs)]

Updated(a) == Append(events, [kind |-> "Updated", name |-> a.name, addrs |-> a.addrs])
Shown(e) == [name |-> e.name, addrs |-> e.addrs]

\* Bug: a peer that is known already is told of only when its name changes.
ToldIfNamed(old, new) == new.name # old.name

Told(old, new) == new # old

\* PeerRegistry::ingest: the engine is told of what changed.
Ingest ==
  /\ found # <<>> /\ found' = Tail(found)
  /\ LET a == Head(found) IN
       \/ \E e \in entry :
            LET new == Merge(Shown(e), a) IN
              /\ entry' = {[name |-> new.name, addrs |-> new.addrs, age |-> 0]}
              /\ events' = IF Told(Shown(e), new) THEN Updated(new) ELSE events
       \/ entry = {}
          /\ LET new == [name |-> a.name, addrs |-> Order(a.addrs)] IN
               /\ entry' = {[name |-> new.name, addrs |-> new.addrs, age |-> 0]}
               /\ events' = Updated(new)
  /\ UNCHANGED <<theirs, beacons, mdns, lost, discovered, forgotten, silent, exposed, turns, adverts>>

\* PeerRegistry::remove.
Removed == /\ entry' = {}
           /\ events' = IF entry = {} THEN events ELSE Append(events, [kind |-> "Lost"])

RemoveLost ==
  /\ lost > 0 /\ lost' = lost - 1 /\ Removed
  /\ UNCHANGED <<theirs, beacons, mdns, found, discovered, forgotten, silent, exposed, turns,
                 adverts>>

\* Bug: a peer that was not heard of for long enough is kept.
StaleNever(age) == FALSE

Stale(age) == age > Ttl

Quiet == cmds = <<>> /\ beacons = {} /\ mdns = <<>> /\ found = <<>> /\ lost = 0 /\ events = <<>>

\* Time passes up to the next sweep, which expires what is stale.
Sweep ==
  /\ Quiet /\ (entry # {} \/ silent < Ttl + 2)
  /\ LET aged == {[e EXCEPT !.age = @ + 1] : e \in entry} IN
       IF \E e \in aged : Stale(e.age)
       THEN Removed
       ELSE entry' = aged /\ UNCHANGED events
  /\ silent' = IF Visibility(setting, qr) # "Hidden" \/ silent = Ttl + 2 THEN silent ELSE silent + 1
  /\ exposed' = (exposed /\ (entry # {} \/ Visibility(setting, qr) = "Everyone"))
  /\ UNCHANGED <<theirs, beacons, mdns, found, lost, discovered, forgotten, turns, adverts>>

----------------------------------------------------------------------------
(* The engine of this device.                                              *)

\* Internal::Discovery.
OnDiscovery ==
  /\ events # <<>> /\ events' = Tail(events)
  /\ LET e == Head(events) IN
       \/ e.kind = "Updated" /\ discovered' = {Shown(e)}
       \/ e.kind = "Lost" /\ discovered' = {}
  /\ forgotten' = {}
  /\ UNCHANGED <<theirs, beacons, mdns, found, lost, entry, silent, exposed, turns, adverts>>

\* Internal::DialFailed(DialedSelf), forget_own_address: a dial found this
\* device itself at an address the peer no longer has.
ForgetOwnAddress(a) ==
  /\ a \notin here
  /\ \E d \in discovered :
       /\ a \in ToSet(d.addrs)
       /\ discovered' = {[d EXCEPT !.addrs = SelectSeq(@, LAMBDA x : x # a)]}
  /\ forgotten' = forgotten \cup {a}
  /\ UNCHANGED <<theirs, beacons, mdns, found, lost, entry, events, silent, exposed, turns, adverts>>

Next ==
  \/ \E v \in Visibilities : SetVisibility(v)
  \/ ShowCode \/ EndCode \/ ServiceUpdates \/ MdnsAnswers \/ SendBeacon
  \/ \E S \in SUBSET Addresses : Moves(S)
  \/ \E b \in beacons : LoseBeacon(b) \/ BeaconArrives(b)
  \/ MdnsArrives \/ Ingest \/ RemoveLost \/ Sweep \/ OnDiscovery
  \/ \E a \in Addresses : ForgetOwnAddress(a)

Spec == Init /\ [][Next]_vars

----------------------------------------------------------------------------

TypeOK ==
  /\ setting \in Visibilities /\ config \in Visibilities /\ qr \in BOOLEAN
  /\ cmds \in Seq(Visibilities) /\ record \in Names \cup {"none"} /\ here \subseteq Addresses
  /\ beacons \subseteq Advert /\ \A i \in 1..Len(found) : found[i] \in Advert
  /\ lost \in Nat /\ Cardinality(entry) <= 1 /\ Cardinality(discovered) <= 1
  /\ \A e \in entry : e.name \in Names /\ ToSet(e.addrs) \subseteq Addresses /\ e.age \in 0..Ttl
  /\ forgotten \subseteq Addresses /\ silent \in 0..(Ttl + 2) /\ exposed \in BOOLEAN
  /\ turns \in 0..MaxTurns /\ adverts \in 0..MaxAdverts

\* A device that hides itself leaves the list of every other one: when nothing is on its way and
\* it has been hidden for longer than PEER_TTL, no engine offers it, whatever the network lost.
Vanishes == Quiet /\ silent > Ttl => discovered = {}

\* The engine knows what the registry knows once it has handled its events,
\* but for the addresses it forgot since.
Agrees ==
  events = <<>> =>
    discovered = {[name |-> e.name, addrs |-> SelectSeq(e.addrs, LAMBDA a : a \notin forgotten)]
                    : e \in entry}

\* A device first heard of while its name is hidden, and that has not shown it since, has no name
\* here: neither of the two ways it announces itself gives the name away.
NameHidden == ~exposed => \A e \in entry \cup discovered : e.name = ""
=============================================================================
