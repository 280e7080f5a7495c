------------------------------- MODULE Limits -------------------------------
(***************************************************************************)
(* What an engine counts per address: pairing attempts (PairingLimiter)    *)
(* and inbound handshakes that never finished (RefusedHandshakes), each in *)
(* a table of bounded size, over a window of time.                         *)
(***************************************************************************)
EXTENDS Naturals, Sequences, FiniteSets, FiniteSetsExt, SequencesExt

CONSTANTS
  Addresses,    \* canonical addresses
  Attempts,     \* ATTEMPTS_PER_WINDOW
  Window,       \* WINDOW of both modules
  MaxSources,   \* MAX_SOURCES of both modules
  BeforeNotice, \* BEFORE_NOTICE
  MaxTime,      \* bound on the clock
  MaxEvents     \* bound on the attempts and failures

VARIABLES
  kind,     \* which of the two tables a behaviour is about
  now,
  sources,  \* PairingLimiter::sources: attempts, refused_reported and last_seen
  runs,     \* RefusedHandshakes::sources: when a run began, and its failures
  log,      \* what happened: address, time, and what was decided
  evicted,  \* addresses dropped from a full table, and when
  ignored   \* failures a full table did not take

vars == <<kind, now, sources, runs, log, evicted, ignored>>

None == [f \in {} |-> 0]

Init ==
  /\ kind \in {"pairing", "handshake"} /\ now = 0 /\ sources = None /\ runs = None
  /\ log = <<>> /\ evicted = {} /\ ignored = {}

\* Bug: the window is one tick too short.
InWindowShort(t) == now - t < Window - 1

InWindow(t) == now - t < Window

Only(f, S) == [x \in S |-> f[x]]
With(f, x, v) == [y \in DOMAIN f \cup {x} |-> IF y = x THEN v ELSE f[y]]
Event(a, d) == Append(log, [at |-> now, from |-> a, did |-> d])

----------------------------------------------------------------------------
(* PairingLimiter::check                                                   *)

\* Bug: only addresses that have not tried lately make room.
RoomIfQuiet(a) ==
  {{x \in DOMAIN sources :
      sources[x].attempts # <<>> /\ InWindow(Last(sources[x].attempts))}}

\* A full table forgets who has not tried lately; then one last seen first.
Room(a) ==
  IF a \in DOMAIN sources \/ Cardinality(DOMAIN sources) < MaxSources
  THEN {DOMAIN sources}
  ELSE LET Lately(x) == sources[x].attempts # <<>> /\ InWindow(Last(sources[x].attempts))
           left == {x \in DOMAIN sources : Lately(x)}
           Oldest(x) == \A y \in left : sources[x].seen <= sources[y].seen
       IN IF Cardinality(left) < MaxSources THEN {left}
          ELSE {left \ {x} : x \in {y \in left : Oldest(y)}}

\* Bug: a refused attempt is counted, so an address that keeps trying is never let in.
CountsRefused(s, allowed) == Append(s, now)

Counts(s, allowed) == IF allowed THEN Append(s, now) ELSE s

Check(a) ==
  /\ kind = "pairing" /\ Len(log) < MaxEvents
  /\ \E room \in Room(a) :
       LET old == IF a \in room THEN sources[a]
                  ELSE [attempts |-> <<>>, reported |-> FALSE, seen |-> now]
           recent == SelectSeq(old.attempts, InWindow)
           allowed == Len(recent) < Attempts
       IN /\ sources' = With(Only(sources, room), a,
                             [attempts |-> Counts(recent, allowed),
                              reported |-> ~allowed, seen |-> now])
          /\ log' = Event(a, CASE allowed -> "allowed"
                               [] ~allowed /\ ~old.reported -> "told"
                               [] OTHER -> "refused")
          /\ evicted' = evicted \cup
                        {[from |-> x, at |-> now] : x \in DOMAIN sources \ room}
  /\ UNCHANGED <<kind, now, runs, ignored>>

----------------------------------------------------------------------------
(* RefusedHandshakes::record                                               *)

\* Bug: runs that are over stay in the table.
StaleKept(rs) == rs

Stale(rs) == Only(rs, {x \in DOMAIN rs : InWindow(rs[x].since)})

\* The time of a run is the time of its first failure.
RefusedRecord(a) ==
  LET kept == Stale(runs)
      full == a \notin DOMAIN kept /\ Cardinality(DOMAIN kept) >= MaxSources
      run == IF a \in DOMAIN kept THEN [kept[a] EXCEPT !.count = @ + 1]
             ELSE [since |-> now, count |-> 1]
  IN /\ kind = "handshake" /\ Len(log) < MaxEvents
     /\ IF full
        THEN runs' = kept /\ log' = Event(a, "failed") /\ ignored' = ignored \cup {Len(log')}
        ELSE /\ runs' = With(kept, a, run) /\ UNCHANGED ignored
             /\ log' = Event(a, IF run.count = BeforeNotice THEN "told" ELSE "failed")
     /\ UNCHANGED <<kind, now, sources, evicted>>

Tick == now < MaxTime /\ now' = now + 1 /\ UNCHANGED <<kind, sources, runs, log, evicted, ignored>>

Next == Tick \/ \E a \in Addresses : Check(a) \/ RefusedRecord(a)

Spec == Init /\ [][Next]_vars

----------------------------------------------------------------------------
(* Properties.                                                             *)

Sources == [attempts : Seq(0..MaxTime), reported : BOOLEAN, seen : 0..MaxTime]

\* The types of the variables.
TypeOK ==
  /\ DOMAIN sources \subseteq Addresses /\ DOMAIN runs \subseteq Addresses
  /\ \A a \in DOMAIN sources : sources[a] \in Sources
  /\ \A a \in DOMAIN runs : runs[a].since \in 0..MaxTime /\ runs[a].count \in Nat
  /\ Cardinality(DOMAIN sources) <= MaxSources /\ Cardinality(DOMAIN runs) <= MaxSources

\* The events i..j of the log from a.
From(a, i, j) == {k \in i..j : log[k].from = a}

\* No address is let in more often than ATTEMPTS_PER_WINDOW within WINDOW, unless a
\* full table forgot it meanwhile (check).
Limited ==
  kind = "pairing" => \A i, j \in DOMAIN log :
    LET a == log[i].from
    IN i <= j /\ log[j].at - log[i].at < Window
       /\ (\A e \in evicted : e.from = a => e.at < log[i].at \/ e.at > log[j].at)
       => Cardinality({k \in From(a, i, j) : log[k].did = "allowed"}) <= Attempts

\* An address is let in again once a window passed without an attempt that counted:
\* refused attempts do not prolong a refusal (check).
LetInAgain ==
  kind = "pairing" => \A j \in DOMAIN log :
    log[j].did # "allowed" =>
      \E i \in From(log[j].from, 1, j) : log[i].did = "allowed" /\ log[j].at - log[i].at < Window

\* Failures within a window, enough for either of the two runs that can meet in it,
\* are told of, however many runs were told of before, unless the table was full (record).
RunTold ==
  kind = "handshake" => \A a \in Addresses, i, j \in DOMAIN log :
    /\ i <= j /\ log[j].at - log[i].at < Window
    /\ log[i].from = a /\ log[j].from = a
    /\ Cardinality(From(a, i, j)) >= 2 * BeforeNotice - 1
    /\ \A k \in From(a, 1, j) : k \notin ignored
    => \E k \in From(a, 1, j) : log[k].did = "told" /\ log[j].at - log[k].at < 2 * Window
=============================================================================
