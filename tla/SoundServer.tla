---------------------------- MODULE SoundServer ----------------------------
(***************************************************************************)
(* What SoundPush changes at a PulseAudio server (sp-audio-io's pulse.rs): *)
(* a null sink that stands in for muted speakers, and a private null sink  *)
(* with a loopback for the capture of one app.  Playback streams move to   *)
(* these sinks and back.  The server keeps all of it when SoundPush        *)
(* crashes; the next start undoes it.                                      *)
(*                                                                         *)
(* A step is a request to the server.  Three threads send them: the one    *)
(* that mutes, the capture thread, and the cleaner of a start.  A capture  *)
(* sink is named after its process: the n-th run makes CaptureSinks[n].    *)
(***************************************************************************)
EXTENDS Naturals, Sequences, FiniteSets

CONSTANTS
  Real,          \* the sinks of hardware
  Streams,       \* playback streams
  App,           \* the ones of the app that is captured
  CaptureSinks,  \* CaptureSinks[n]: the capture sink of the n-th run
  MaxTurns,      \* bound on calls and on what other programs do
  MaxFailures    \* bound on requests the server refuses

Caps == {CaptureSinks[n] : n \in DOMAIN CaptureSinks}
Spk == "soundpush_speakers"
None == "none"
Sinks == Real \cup Caps \cup {Spk}
Inputs == Streams \cup Caps   \* at the server; a capture sink has a loopback

VARIABLES
  up, run,   \* SoundPush runs, for the run-th time
  mark,      \* the marker file of hooks.rs
  default,   \* the server's default sink
  sinks,     \* the sinks there are
  restore,   \* the sink named in the arguments of the speakers' module
  at,        \* at[i]: the sink input i plays on
  muter,     \* the call of mute_speakers or unmute_speakers under way
  worker,    \* worker[w]: the capture thread and the cleaner
  moved,     \* AppRouting::moved: where each stream played before
  playback,  \* AppRouting::playback
  torn,      \* history: the speakers' sink was left behind without a marker
  turns, failures

app == <<up, run, mark>>
server == <<default, sinks, restore, at>>
routing == <<moved, playback>>
bounds == <<turns, failures>>
vars == <<app, server, muter, worker, routing, torn, bounds>>

Workers == {"capture", "cleaner"}
Muter == [pc: {"idle", "load", "default", "list", "move", "undefault",
               "unlist", "unmove"},
          to: Sinks \cup {None}, todo: SUBSET Inputs]
Worker == [pc: {"off", "wait", "scan", "release", "putback", "unsink", "open", "loop",
                "route", "moving", "record"},
           sink: Caps \cup {None}, todo: SUBSET Streams,
           fallback: Sinks \cup {None}]
Idle == [pc |-> "idle", to |-> None, todo |-> {}]
Off == [pc |-> "off", sink |-> None, todo |-> {}, fallback |-> None]
NotMoved == [s \in Streams |-> None]
OwnSink == CaptureSinks[run]

On(x) == {i \in Inputs : at[i] = x}
AnyReal(present) == CHOOSE d \in Real \cap present : TRUE

\* move_sink_input fails if the stream or the sink is gone.
Move(i, x) ==
  at' = IF at[i] # None /\ x \in sinks THEN [at EXCEPT ![i] = x] ELSE at

\* A null sink is unloaded, or a device unplugged: the server moves what played
\* there to the default, and ends the loopback of the sink.
Unload(x) ==
  LET left == sinks \ {x}
      d == IF default = x THEN AnyReal(left) ELSE default
  IN /\ sinks' = left /\ default' = d
     /\ at' = [i \in Inputs |-> IF i = x THEN None
                                ELSE IF at[i] = x THEN d ELSE at[i]]

Turn == turns < MaxTurns /\ turns' = turns + 1 /\ UNCHANGED failures
Fail == failures < MaxFailures /\ failures' = failures + 1 /\ UNCHANGED turns

Init ==
  /\ up = TRUE /\ run = 1 /\ mark = FALSE
  /\ default \in Real /\ sinks = Real /\ restore = None
  /\ at \in {f \in [Inputs -> Real \cup {None}] : \A c \in Caps : f[c] = None}
  /\ muter = Idle /\ worker = [w \in Workers |-> Off]
  /\ moved = NotMoved /\ playback = None
  /\ torn = FALSE /\ turns = 0 /\ failures = 0

\* What other programs and the user do.
Others ==
  /\ Turn
  /\ \/ /\ \E s \in Streams :
             at' = [at EXCEPT ![s] = IF at[s] = None THEN default ELSE None]
        /\ UNCHANGED <<default, sinks>>
     \/ /\ \E d \in Real \cap sinks : default # d /\ default' = d
        /\ UNCHANGED <<sinks, at>>
     \/ /\ Cardinality(Real \cap sinks) > 1
        /\ \E d \in Real \cap sinks : Unload(d)
  /\ UNCHANGED <<app, restore, muter, worker, routing, torn>>

----------------------------------------------------------------------------
(* mute_speakers and unmute_speakers.                                      *)

Call(pc, to, todo) == muter' = [pc |-> pc, to |-> to, todo |-> todo]

Mute ==
  /\ up /\ muter = Idle /\ Turn
  /\ IF Spk \in sinks
     THEN default' = Spk /\ mark' = TRUE /\ UNCHANGED muter
     ELSE Call("load", default, {}) /\ UNCHANGED <<default, mark>>
  /\ UNCHANGED <<up, run, sinks, restore, at, worker, routing, torn>>

MuteLoad ==
  /\ muter.pc = "load"
  /\ sinks' = sinks \cup {Spk} /\ restore' = muter.to
  /\ Call("default", muter.to, {})
  /\ UNCHANGED <<app, default, at, worker, routing, torn, bounds>>

MuteDefault ==
  /\ muter.pc = "default"
  /\ default' = Spk /\ Call("list", muter.to, {})
  /\ UNCHANGED <<app, sinks, restore, at, worker, routing, torn, bounds>>

MuteList ==
  /\ muter.pc = "list"
  /\ Call("move", muter.to, On(muter.to))
  /\ UNCHANGED <<app, server, worker, routing, torn, bounds>>

MuteMove ==
  /\ muter.pc = "move"
  /\ \/ /\ \E i \in muter.todo :
             Move(i, Spk) /\ Call("move", muter.to, muter.todo \ {i})
        /\ UNCHANGED mark
     \/ muter.todo = {} /\ muter' = Idle /\ mark' = TRUE /\ UNCHANGED at
  /\ UNCHANGED <<up, run, default, sinks, restore, worker, routing, torn,
                 bounds>>

\* A refused request: nothing was done yet, or it is undone.
MuteFails ==
  /\ \/ muter.pc = "load" /\ UNCHANGED server
     \/ /\ muter.pc \in {"default", "list"}
        /\ LET d == IF muter.to \in sinks THEN muter.to ELSE AnyReal(sinks)
           IN /\ default' = d /\ sinks' = sinks \ {Spk} /\ restore' = None
              /\ at' = [i \in Inputs |-> IF at[i] = Spk THEN d ELSE at[i]]
  /\ Fail /\ muter' = Idle
  /\ UNCHANGED <<app, worker, routing, torn>>

\* The previous default, or another real sink if it is gone.
Target == IF restore \in sinks THEN restore ELSE AnyReal(sinks)

UnmuteLook ==
  IF Spk \in sinks THEN Call("undefault", Target, {}) /\ UNCHANGED mark
  ELSE mark' = FALSE /\ UNCHANGED muter

Unmute ==
  /\ up /\ muter = Idle /\ Turn
  /\ UnmuteLook
  /\ UNCHANGED <<up, run, server, worker, routing, torn>>

UnmuteDefault ==
  /\ muter.pc = "undefault"
  /\ default' = IF default = Spk /\ muter.to \in sinks THEN muter.to
                ELSE default
  /\ Call("unlist", muter.to, {})
  /\ UNCHANGED <<app, sinks, restore, at, worker, routing, torn, bounds>>

UnmuteList ==
  /\ muter.pc = "unlist"
  /\ Call("unmove", muter.to, On(Spk))
  /\ UNCHANGED <<app, server, worker, routing, torn, bounds>>

UnmuteMove ==
  /\ muter.pc = "unmove"
  /\ \/ /\ \E i \in muter.todo :
             Move(i, muter.to) /\ Call("unmove", muter.to, muter.todo \ {i})
        /\ UNCHANGED <<mark, default, sinks, restore, torn>>
     \/ /\ muter.todo = {} /\ Unload(Spk)
        /\ restore' = None /\ muter' = Idle /\ mark' = FALSE /\ torn' = FALSE
  /\ UNCHANGED <<up, run, worker, routing, bounds>>

----------------------------------------------------------------------------
(* Per-app capture.                                                        *)

Step(w, pc, todo) == worker' = [worker EXCEPT ![w].pc = pc, ![w].todo = todo]

\* open_capture begins with remove_stale.
OpenCapture ==
  /\ up /\ worker["capture"].pc = "off" /\ worker["cleaner"].pc # "wait" /\ Turn
  /\ Step("capture", "scan", {})
  /\ UNCHANGED <<app, server, muter, routing, torn>>

\* remove_stale: the sinks of processes that no longer run
Stale == {c \in Caps \cap sinks : c # OwnSink}

AfterScan(w) ==
  IF w = "capture" THEN [Off EXCEPT !.pc = "open", !.sink = OwnSink] ELSE Off

Scan(w) ==
  /\ worker[w].pc = "scan"
  /\ \E c \in Stale \cup {None} :
       /\ c = None <=> Stale = {}
       /\ worker' = [worker EXCEPT ![w] =
            IF c = None THEN AfterScan(w)
            ELSE [Off EXCEPT !.pc = "release", !.sink = c]]
  /\ UNCHANGED <<app, server, muter, routing, torn, bounds>>

\* release_streams
Release(w) ==
  LET x == worker[w].sink IN
  /\ worker[w].pc = "release"
  /\ worker' = [worker EXCEPT
       ![w].pc = "putback",
       ![w].todo = IF x \in sinks THEN On(x) \cap Streams ELSE {},
       ![w].fallback = IF at[x] \in sinks \ {x} THEN at[x]
                       ELSE IF default # x THEN default ELSE None]
  /\ UNCHANGED <<app, server, muter, routing, torn, bounds>>

\* Where stream s goes: to the sink it came from, unless that was the one the
\* loopback began on, else where the loopback plays now.
Home(w, s) ==
  IF worker[w].sink = OwnSink /\ moved[s] \in sinks \ {OwnSink, playback}
  THEN moved[s] ELSE worker[w].fallback

PutBack(w) ==
  /\ worker[w].pc = "putback"
  /\ \/ \E s \in worker[w].todo :
          Move(s, Home(w, s)) /\ Step(w, "putback", worker[w].todo \ {s})
     \/ /\ worker[w].todo = {}
        /\ at' = [at EXCEPT ![worker[w].sink] = None]
        /\ Step(w, "unsink", {})
  /\ UNCHANGED <<app, default, sinks, restore, muter, routing, torn, bounds>>

\* Bug: close removes the loopback and leaves the sink.
UnloadsLoopOnly(x) == UNCHANGED <<default, sinks, at>>

UnloadsSink(x) ==
  IF x \in sinks THEN Unload(x) ELSE UNCHANGED <<default, sinks, at>>

\* What is already gone is an error, which ends a remove_stale.
UnloadSink(w) ==
  LET x == worker[w].sink IN
  /\ worker[w].pc = "unsink"
  /\ UnloadsSink(x)
  /\ worker' = [worker EXCEPT ![w] =
       IF x = OwnSink THEN Off
       ELSE IF x \in sinks THEN [Off EXCEPT !.pc = "scan"] ELSE AfterScan(w)]
  /\ UNCHANGED <<app, restore, muter, routing, torn, bounds>>

\* AppRouting::open
OpenSink ==
  /\ worker["capture"].pc = "open"
  /\ playback' = default /\ moved' = NotMoved
  /\ sinks' = sinks \cup {OwnSink}
  /\ Step("capture", "loop", {})
  /\ UNCHANGED <<app, default, restore, at, muter, torn, bounds>>

OpenLoop ==
  /\ worker["capture"].pc = "loop"
  /\ \/ /\ at' = [at EXCEPT ![OwnSink] = default]
        /\ Step("capture", "route", {})
        /\ UNCHANGED <<sinks, default, bounds>>
     \/ /\ Fail /\ Unload(OwnSink)
        /\ worker' = [worker EXCEPT !["capture"] = Off]
  /\ UNCHANGED <<app, restore, muter, routing, torn>>

\* route: the streams that move
Wanted == {s \in App : at[s] \in (Real \cup {Spk}) \cap sinks}

Route ==
  /\ worker["capture"].pc = "route"
  /\ Step("capture", "moving", Wanted)
  /\ moved' = [s \in Streams |-> IF at[s] = None THEN None ELSE moved[s]]
  /\ UNCHANGED <<app, server, muter, playback, torn, bounds>>

RouteMove ==
  /\ worker["capture"].pc = "moving"
  /\ \/ \E s \in worker["capture"].todo :
          /\ Move(s, OwnSink)
          /\ moved' = IF at[s] = None THEN moved ELSE [moved EXCEPT ![s] = at[s]]
          /\ Step("capture", "moving", worker["capture"].todo \ {s})
     \/ /\ worker["capture"].todo = {} /\ Step("capture", "record", {})
        /\ UNCHANGED <<at, moved>>
  /\ UNCHANGED <<app, default, sinks, restore, muter, playback, torn, bounds>>

\* The thread reads audio until it is stopped or fails; events of streams make
\* it route again.
Record ==
  /\ worker["capture"].pc = "record"
  /\ \/ Wanted # {} /\ Step("capture", "route", {}) /\ UNCHANGED bounds
     \/ Turn /\ Step("capture", "release", {})
  /\ UNCHANGED <<app, server, muter, routing, torn>>

----------------------------------------------------------------------------

Crash ==
  /\ up /\ run < Len(CaptureSinks)
  /\ up' = FALSE
  /\ muter' = Idle /\ worker' = [w \in Workers |-> Off]
  /\ moved' = NotMoved /\ playback' = None
  /\ torn' = (torn \/ (Spk \in sinks /\ ~mark))
  /\ UNCHANGED <<run, mark, server, bounds>>

\* DesktopHooks::new unmutes if the marker is there; then it starts the cleaner.
Start ==
  /\ ~up
  /\ up' = TRUE /\ run' = run + 1
  /\ worker' = [worker EXCEPT !["cleaner"].pc = "wait"]
  /\ IF mark THEN UnmuteLook ELSE UNCHANGED <<mark, muter>>
  /\ UNCHANGED <<server, routing, torn, bounds>>

StartCleaner ==
  /\ worker["cleaner"].pc = "wait" /\ muter = Idle
  /\ Step("cleaner", "scan", {})
  /\ UNCHANGED <<app, server, muter, routing, torn, bounds>>

Next ==
  \/ Others
  \/ Mute \/ MuteLoad \/ MuteDefault \/ MuteList \/ MuteMove \/ MuteFails
  \/ Unmute \/ UnmuteDefault \/ UnmuteList \/ UnmuteMove
  \/ OpenCapture \/ OpenSink \/ OpenLoop \/ Route \/ RouteMove \/ Record
  \/ \E w \in Workers : Scan(w) \/ Release(w) \/ PutBack(w) \/ UnloadSink(w)
  \/ Crash \/ Start \/ StartCleaner

Spec == Init /\ [][Next]_vars

----------------------------------------------------------------------------
(* Properties.                                                             *)

\* The types of the variables.
TypeOK ==
  /\ up \in BOOLEAN /\ run \in DOMAIN CaptureSinks /\ mark \in BOOLEAN
  /\ sinks \subseteq Sinks /\ default \in sinks
  /\ restore \in Real \cup Caps \cup {None}
  /\ at \in [Inputs -> sinks \cup {None}]
  /\ muter \in Muter /\ worker \in [Workers -> Worker]
  /\ moved \in [Streams -> Sinks \cup {None}] /\ playback \in Sinks \cup {None}
  /\ torn \in BOOLEAN /\ turns \in 0 .. MaxTurns
  /\ failures \in 0 .. MaxFailures

AtRest == up /\ muter = Idle /\ \A w \in Workers : worker[w] = Off

\* When no call is under way and the speakers are not muted, nothing of
\* SoundPush's is left at the server and the user's streams play on hardware,
\* also after a crash (unmute_speakers, close, remove_stale).
NothingLeft ==
  AtRest /\ ~mark /\ ~torn =>
    /\ sinks \subseteq Real
    /\ \A i \in Inputs : at[i] \in Real \cup {None}

----------------------------------------------------------------------------
(* The inductive invariant.  The speakers' sink is muting, marked or torn; *)
(* the sink of this run has its capture; and while there are sinks of runs *)
(* that crashed, a thread is on its way to each of them: one that finds a  *)
(* sink already gone stops, but then the one that removed it looks again.  *)

Silencing == {"default", "list", "move"}
Restoring == {"undefault", "unlist", "unmove"}

Speakers ==
  /\ Spk \in sinks => mark \/ torn \/ muter.pc \in Silencing \cup Restoring
  /\ muter.pc \in Silencing \cup Restoring => Spk \in sinks
  /\ muter.pc = "load" => Spk \notin sinks
  /\ muter.pc \in Silencing \cup {"load"} => muter.to # Spk

Ending == {"release", "putback", "unsink"}
Recording == {"loop", "route", "moving", "record"}

Own ==
  /\ worker["capture"].pc \in Recording \cup {"open"} => worker["capture"].sink = OwnSink
  /\ worker["cleaner"].pc \in Ending => worker["cleaner"].sink # OwnSink
  /\ worker["cleaner"].pc \notin Recording \cup {"open"}
  /\ up /\ OwnSink \in sinks =>
       worker["capture"].sink = OwnSink /\ worker["capture"].pc \in Recording \cup Ending

Cleans(w) ==
  \/ worker[w].pc \in {"wait", "scan"}
  \/ worker[w].pc \in Ending /\ worker[w].sink \in Stale

Inv ==
  /\ TypeOK /\ Real \cap sinks # {}
  /\ Speakers /\ Own
  /\ ~up => /\ run + 1 \in DOMAIN CaptureSinks
            /\ muter = Idle /\ \A w \in Workers : worker[w] = Off
  /\ up /\ Stale # {} => \E w \in Workers : Cleans(w)
  /\ \A n \in DOMAIN CaptureSinks : n > run => CaptureSinks[n] \notin sinks
=============================================================================
