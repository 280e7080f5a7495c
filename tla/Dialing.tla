------------------------------ MODULE Dialing ------------------------------
(***************************************************************************)
(* One dial of a trusted device: Actor::dial races the ranked candidate    *)
(* addresses (net.rs), each started a step after the one before, against   *)
(* the USB forward, and the first handshake that authenticates the device  *)
(* wins.  What an address leads to is not known before it is dialed: the   *)
(* device, another one, this device itself, or nothing.                    *)
(*                                                                         *)
(* A tick of the clock is CANDIDATE_STAGGER.                               *)
(***************************************************************************)
EXTENDS Naturals, Sequences, FiniteSets, SequencesExt, FiniteSetsExt

CONSTANTS
  Addresses,      \* addresses a device was seen at
  Rank,           \* the rank of each; Unusable is dropped
  MaxCandidates,  \* MAX_CANDIDATES
  CandTimeout,    \* CANDIDATE_TIMEOUT, in ticks
  UsbDelay,       \* USB_FALLBACK_DELAY, in ticks
  UsbTimeout,     \* HANDSHAKE_TIMEOUT of a TCP dial, in ticks
  MaxDials        \* bound on the dials

VARIABLES
  leads,    \* what answers at each address
  own,      \* the addresses this device knows it answers on
  saved,    \* the addresses known for the device, in the order of arrival
  heard,    \* those in the PeerRegistry's advert (only what may be forgotten matters)
  pin,      \* settings.transport
  forward,  \* what answers at the USB port, or "none" when there is no such port
  cand,     \* the candidates of the running dial
  try,      \* try[i]: the attempt at candidate i
  usb,      \* the attempt over USB
  clock,    \* ticks since the dial began
  outcome,  \* how it ended
  told,     \* Internal::AddressIsSelf not handled yet
  hits,     \* addresses at which a dial that ended has found this device itself
  back,     \* addresses Updated has put back since the last dial began
  dials

vars == <<leads, own, saved, heard, pin, forward, cand, try, usb, clock, outcome, told,
          hits, back, dials>>

Unusable == 0
Pins == {"Auto", "Quic", "Tcp", "Usb"}
\* An attempt: waiting for its turn, running, connected, or failed with an error.
Errors == {"Refused", "WrongPeer", "DialedSelf", "Unreachable"}
Attempt == [st: {"waits", "runs", "ok", "gone"} \cup Errors, at: Nat]
NoAttempt == [st |-> "gone", at |-> 0]

Init ==
  /\ leads \in [Addresses -> {"device", "stranger", "self", "nothing"}]
  /\ own \in SUBSET {a \in Addresses : leads[a] = "self"}
  /\ heard \in SUBSET {a \in Addresses \ own : leads[a] = "self"}
  /\ saved \in {s \in [1..Cardinality(Addresses) -> Addresses] : IsInjective(s)}
  /\ pin \in Pins /\ forward \in {"none", "device", "nothing"}
  /\ cand = <<>> /\ try = <<>> /\ usb = NoAttempt /\ clock = 0 /\ outcome = "idle"
  /\ told = {} /\ hits = {} /\ back = {} /\ dials = 0

\* sort_candidates: unusable addresses are dropped, the rest ranked.
Ranked(s) ==
  LET ranks == SetToSortSeq({Rank[a] : a \in Addresses} \ {Unusable}, <)
  IN FlattenSeq([i \in 1..Len(ranks) |-> SelectSeq(s, LAMBDA a : Rank[a] = ranks[i])])

\* Bug: an address this device answers on is dialed like another.
KeepOwnAddresses(s) == s

\* drop_own_addresses.
DropOwnAddresses(s) == SelectSeq(s, LAMBDA a : a \notin own)

\* The pin decides which candidates there are; at most MaxCandidates are raced.
Candidates ==
  LET s == DropOwnAddresses(Ranked(saved))
  IN IF pin = "Usb" THEN <<>> ELSE SubSeq(s, 1, Min({Len(s), MaxCandidates}))

UsbPort == forward # "none" /\ pin # "Quic"

\* The network has a head start over USB when both are in play.
UsbStarts(s) == IF s # <<>> /\ pin # "Tcp" THEN UsbDelay ELSE 0

\* Actor::dial.
Dial ==
  /\ outcome # "dialing" /\ dials < MaxDials /\ dials' = dials + 1
  /\ outcome # "cancelled" => told = {}  \* what the task sent before its result is handled first
  /\ cand' = Candidates /\ (Candidates # <<>> \/ UsbPort)
  /\ try' = [i \in 1..Len(Candidates) |-> [st |-> "waits", at |-> i - 1]]
  /\ usb' = IF UsbPort THEN [st |-> "waits", at |-> UsbStarts(Candidates)]
            ELSE [st |-> "Unreachable", at |-> 0]
  /\ clock' = 0 /\ outcome' = "dialing" /\ back' = {}
  /\ UNCHANGED <<leads, own, saved, heard, pin, forward, told, hits>>

Dialing == outcome = "dialing"
Same == UNCHANGED <<leads, own, saved, heard, pin, forward, cand, hits, back, dials>>

\* Endpoint::connect, TcpEndpoint::connect with a pinned id.
Answers(what) ==
  CASE what = "device"   -> {"ok", "Refused"}
    [] what = "stranger" -> {"WrongPeer", "Refused"}
    [] what = "self"     -> {"DialedSelf"}
    [] OTHER             -> {"Refused"}

Starts(i) ==
  /\ Dialing /\ try[i].st = "waits" /\ clock >= try[i].at
  /\ try' = [try EXCEPT ![i].st = "runs"]
  /\ Same /\ UNCHANGED <<usb, clock, outcome, told>>

\* Bug: only the error is kept, the engine is not told of its own address.
SelfSilently(i, r) == told' = told

SelfTold(i, r) == told' = IF r = "DialedSelf" THEN told \cup {cand[i]} ELSE told

Ends(i) ==
  /\ Dialing /\ try[i].st = "runs"
  /\ \E r \in Answers(leads[cand[i]]) :
       try' = [try EXCEPT ![i].st = r] /\ SelfTold(i, r)
  /\ Same /\ UNCHANGED <<usb, clock, outcome>>

\* Bug: an attempt has no time limit of its own.
NeverDue(a, limit) == FALSE

Due(a, limit) == a.st = "runs" /\ clock >= a.at + limit

TimesOut(i) ==
  /\ Dialing /\ Due(try[i], CandTimeout)
  /\ try' = [try EXCEPT ![i].st = "Unreachable"]
  /\ Same /\ UNCHANGED <<usb, clock, outcome, told>>

UsbSteps ==
  /\ Dialing
  /\ \/ usb.st = "waits" /\ clock >= usb.at /\ usb' = [usb EXCEPT !.st = "runs"]
     \/ \E r \in Answers(forward) : usb.st = "runs" /\ usb' = [usb EXCEPT !.st = r]
     \/ Due(usb, UsbTimeout) /\ usb' = [usb EXCEPT !.st = "Unreachable"]
  /\ Same /\ UNCHANGED <<try, clock, outcome, told>>

Failed(a) == a.st \in Errors

\* Bug: the race is lost with its best candidate.
AllFailedAtFirst == try # <<>> => Failed(try[1])

\* race_candidates: the network has failed once every attempt has.
AllFailed == \A i \in 1..Len(try) : Failed(try[i])

\* The error race_candidates gives: the best candidate's.
NetworkError == IF try = <<>> THEN "Unreachable" ELSE try[1].st

\* first_success: a connection wins and drops the other attempts; the error
\* is the network's when both fail.
Finishes ==
  /\ Dialing
  /\ \/ /\ usb.st = "ok" \/ \E i \in 1..Len(try) : try[i].st = "ok"
        /\ outcome' = "connected"
     \/ /\ AllFailed /\ Failed(usb)
        /\ outcome' = NetworkError
  /\ hits' = hits \cup
       ({cand[i] : i \in {j \in 1..Len(try) : try[j].st = "DialedSelf"}} \ back)
  /\ UNCHANGED <<leads, own, saved, heard, pin, forward, cand, try, usb, clock, told, back,
                 dials>>

\* cancel_dial: the task is aborted, with every attempt in it.
Cancel == Dialing /\ outcome' = "cancelled" /\ UNCHANGED <<try, usb, clock, told>> /\ Same

\* Internal::AddressIsSelf: forget_own_address, which does not reach the PeerRegistry.
HandleSelf(a) ==
  /\ a \in told /\ told' = told \ {a}
  /\ saved' = SelectSeq(saved, LAMBDA x : x # a)
  /\ UNCHANGED <<leads, own, heard, pin, forward, cand, try, usb, clock, outcome, hits, back,
                 dials>>

\* Discovery(Updated): the whole advert of the registry is taken over, and with it what
\* forget_own_address had dropped.
Updated ==
  LET again == SelectSeq(SetToSeq(heard), LAMBDA x : x \notin ToSet(saved))
  IN /\ again # <<>> /\ saved' = saved \o again
     /\ back' = back \cup ToSet(again) /\ hits' = hits \ ToSet(again)
     /\ UNCHANGED <<leads, own, heard, pin, forward, cand, try, usb, clock, outcome, told,
                    dials>>

\* Time passes, but not past a timer that is due or a task that can run.
Waiting(a, limit) == ~(a.st = "waits" /\ clock >= a.at) /\ ~Due(a, limit)
Tick ==
  /\ Dialing /\ ~(AllFailed /\ Failed(usb)) /\ usb.st # "ok"
  /\ \A i \in 1..Len(try) : Waiting(try[i], CandTimeout) /\ try[i].st # "ok"
  /\ Waiting(usb, UsbTimeout)
  /\ clock <= MaxCandidates + CandTimeout + UsbDelay + UsbTimeout
  /\ clock' = clock + 1
  /\ Same /\ UNCHANGED <<try, usb, outcome, told>>

Next ==
  \/ Dial \/ Finishes \/ UsbSteps \/ Cancel \/ Tick \/ Updated
  \/ \E i \in 1..Len(try) : Starts(i) \/ Ends(i) \/ TimesOut(i)
  \/ \E a \in told : HandleSelf(a)

Spec == Init /\ [][Next]_vars

----------------------------------------------------------------------------

TypeOK ==
  /\ ToSet(saved) \subseteq Addresses /\ ToSet(cand) \subseteq Addresses
  /\ Len(try) = Len(cand) /\ \A i \in 1..Len(try) : try[i] \in Attempt
  /\ usb \in Attempt /\ clock \in Nat /\ pin \in Pins
  /\ outcome \in {"idle", "dialing", "connected", "cancelled"} \cup Errors
  /\ told \cup hits \cup back \cup heard \cup own \subseteq Addresses /\ dials \in 0..MaxDials

\* A dial fails only after everything it may try has failed (a candidate that is slow, or that
\* comes behind a wrong one, is waited for), and a connection is the device's.
FailsLast ==
  /\ outcome \in Errors => Failed(usb) /\ \A i \in 1..Len(try) : Failed(try[i])
  /\ outcome = "connected" =>
       \/ usb.st = "ok" /\ forward = "device"
       \/ \E i \in 1..Len(try) : try[i].st = "ok" /\ leads[cand[i]] = "device"

\* However many candidates hang, a dial ends in bounded time: the reconnect timer waits for it.
EndsInTime ==
  Dialing => clock <= Max({Max({0, Len(cand) - 1}) + CandTimeout, UsbDelay + UsbTimeout})

\* This device dials itself at most once at an address each time it learns it: the known ones
\* are never candidates, and one that turned out to be its own is forgotten before the next dial,
\* unless an Updated has brought it back from the PeerRegistry meanwhile.
SelfForgotten == Dialing => ToSet(cand) \cap (own \cup hits) = {}
=============================================================================
