----------------------------- MODULE VirtualMic -----------------------------
(***************************************************************************)
(* SoundPush Microphone on Linux (virtual_mic.rs): a null sink and a       *)
(* source remapped from it, two modules the sound server has until it      *)
(* stops.  A marker makes every start of SoundPush load them again, a      *)
(* drop-in makes PipeWire load them when it starts.  The user installs and *)
(* removes while the thread of restore may still be waiting for a server.  *)
(***************************************************************************)
EXTENDS Naturals, FiniteSets

CONSTANTS
  Tries,      \* connections restore tries
  MaxOps,     \* bound on what the user does
  MaxFaults   \* bound on ends of the server and of SoundPush, and failures

VARIABLES
  pipewire, \* the server is PipeWire, not PulseAudio
  server,   \* the sound server runs
  sinks,    \* module-null-sink modules of ours
  sources,  \* module-remap-source modules of ours
  marker,   \* <data dir>/virtual-microphone
  dropIn,   \* pipewire-pulse.conf.d/soundpush-microphone.conf
  app,      \* SoundPush runs
  pc,       \* the next step of each thread: "restore" and the "user"'s command
  absent,   \* ensure_loaded found no device of the kind it looked for
  listed,   \* the modules uninstall found
  tries,    \* connections restore has left
  want,     \* what the user was told last: "in", "out", "error"
  lapsed,   \* the server lost the modules, or restore gave up, since the last load
  crossed,  \* restore ran while the user's command did
  ops, faults

vars == <<pipewire, server, sinks, sources, marker, dropIn, app, pc, absent, listed, tries, want,
          lapsed, crossed, ops, faults>>

Threads == {"restore", "user"}
Steps == {"idle", "connect", "sinks", "loadSink", "sources", "loadSource", "mark", "dropIn",
          "unmark", "unconnect", "list", "unloadSource", "unloadSink", "broken", "markOnly"}
Requests == {"sinks", "loadSink", "sources", "loadSource", "list", "unloadSource", "unloadSink"}

devices == <<sinks, sources>>
files == <<marker, dropIn>>
ghosts == <<want, lapsed, crossed>>
bounds == <<ops, faults>>

Init ==
  /\ pipewire \in BOOLEAN /\ server = TRUE /\ sinks = 0 /\ sources = 0 /\ marker = FALSE /\ dropIn = FALSE
  /\ app = TRUE /\ pc = [t \in Threads |-> "idle"]
  /\ absent = [t \in Threads |-> FALSE] /\ listed = [sinks |-> 0, sources |-> 0]
  /\ tries = 0 /\ want = "out" /\ lapsed = FALSE /\ crossed = FALSE
  /\ ops = 0 /\ faults = 0

Go(t, s) == pc' = [pc EXCEPT ![t] = s]
Told(t, w) == want' = IF t = "user" THEN w ELSE want

\* A request on a broken connection: the command fails, restore gives up.
Broken(t) ==
  /\ pc[t] = "broken" /\ Go(t, "idle") /\ Told(t, "error")
  /\ lapsed' = (lapsed \/ t = "restore")
  /\ UNCHANGED <<pipewire, server, devices, files, app, absent, listed, tries, crossed, bounds>>

----------------------------------------------------------------------------
(* ensure_loaded: each look and each load is a request.                    *)

Look(t, s, count, load) ==
  /\ pc[t] = s /\ absent' = [absent EXCEPT ![t] = count = 0] /\ Go(t, load)
  /\ UNCHANGED <<pipewire, server, devices, files, app, listed, tries, ghosts, bounds>>

LookSink(t) == Look(t, "sinks", sinks, "loadSink")
LookSource(t) == Look(t, "sources", sources, "loadSource")

\* Bug: a sink that is there is taken for the whole device.
AfterSinkOnly(t) == IF absent[t] THEN "sources" ELSE IF t = "user" THEN "mark" ELSE "idle"

AfterSink(t) == "sources"

LoadSink(t) ==
  /\ pc[t] = "loadSink" /\ Go(t, AfterSink(t))
  /\ sinks' = IF absent[t] THEN sinks + 1 ELSE sinks
  /\ lapsed' = (lapsed /\ AfterSink(t) = "sources")
  /\ UNCHANGED <<pipewire, server, sources, files, app, absent, listed, tries, want, crossed, bounds>>

\* restore is done; install goes on to the marker.
LoadSource(t) ==
  /\ pc[t] = "loadSource" /\ Go(t, IF t = "user" THEN "mark" ELSE "idle")
  /\ sources' = IF absent[t] THEN sources + 1 ELSE sources
  /\ lapsed' = FALSE
  /\ UNCHANGED <<pipewire, server, sinks, files, app, absent, listed, tries, want, crossed, bounds>>

----------------------------------------------------------------------------
(* restore                                                                 *)

Connect(t) ==
  /\ pc[t] = "connect"
  /\ \/ /\ server /\ Go(t, "sinks") /\ UNCHANGED <<tries, want, lapsed>>
     \/ /\ ~server /\ t = "restore" /\ tries > 1 /\ tries' = tries - 1
        /\ UNCHANGED <<pc, want, lapsed>>
     \/ /\ ~server /\ (t = "user" \/ tries = 1) /\ Go(t, "idle") /\ Told(t, "error")
        /\ lapsed' = (lapsed \/ t = "restore") /\ UNCHANGED tries
  /\ UNCHANGED <<pipewire, server, devices, files, app, absent, listed, crossed, bounds>>

\* The setup of SoundPush: restore only if the marker is there.
AppStart ==
  /\ ~app /\ app' = TRUE
  /\ IF marker THEN Go("restore", "connect") /\ tries' = Tries ELSE UNCHANGED <<pc, tries>>
  /\ UNCHANGED <<pipewire, server, devices, files, absent, listed, ghosts, bounds>>

----------------------------------------------------------------------------
(* install and uninstall                                                   *)

Command(s) ==
  /\ app /\ pc["user"] = "idle" /\ ops < MaxOps /\ ops' = ops + 1 /\ Go("user", s)
  /\ want' = "error" /\ crossed' = (crossed \/ pc["restore"] # "idle")
  /\ UNCHANGED <<pipewire, server, devices, files, app, absent, listed, tries, lapsed, faults>>

Install == Command("connect")
Uninstall == Command("unmark")

Mark ==
  /\ pc["user"] \in {"mark", "markOnly"} /\ marker' = TRUE
  /\ IF pipewire /\ pc["user"] = "mark"
     THEN Go("user", "dropIn") /\ UNCHANGED want
     ELSE Go("user", "idle") /\ want' = "in"
  /\ UNCHANGED <<pipewire, server, devices, dropIn, app, absent, listed, tries, lapsed, crossed, bounds>>

\* A drop-in that cannot be written is only logged.
WriteDropIn ==
  /\ pc["user"] = "dropIn" /\ Go("user", "idle") /\ want' = "in"
  /\ \/ dropIn' = TRUE /\ UNCHANGED faults
     \/ faults < MaxFaults /\ faults' = faults + 1 /\ UNCHANGED dropIn
  /\ UNCHANGED <<pipewire, server, devices, marker, app, absent, listed, tries, lapsed, crossed, ops>>

\* Bug: the drop-in is forgotten.
UnmarksOnly == [marker |-> FALSE, dropIn |-> dropIn]

Unmarks == [marker |-> FALSE, dropIn |-> FALSE]

\* A file that cannot be removed ends the command; the first may be gone then.
Unmark ==
  /\ pc["user"] = "unmark"
  /\ \/ /\ marker' = Unmarks.marker /\ dropIn' = Unmarks.dropIn /\ Go("user", "unconnect")
        /\ UNCHANGED faults
     \/ /\ faults < MaxFaults /\ faults' = faults + 1 /\ Go("user", "idle")
        /\ marker' \in {marker, FALSE} /\ UNCHANGED dropIn
  /\ UNCHANGED <<pipewire, server, devices, app, absent, listed, tries, ghosts, ops>>

\* Without a sound server nothing is loaded.
Unconnect ==
  /\ pc["user"] = "unconnect"
  /\ IF server THEN Go("user", "list") /\ UNCHANGED want
     ELSE Go("user", "idle") /\ want' = "out"
  /\ UNCHANGED <<pipewire, server, devices, files, app, absent, listed, tries, lapsed, crossed, bounds>>

List ==
  /\ pc["user"] = "list" /\ Go("user", "unloadSource")
  /\ listed' = [sinks |-> sinks, sources |-> sources]
  /\ UNCHANGED <<pipewire, server, devices, files, app, absent, tries, ghosts, bounds>>

UnloadSource ==
  /\ pc["user"] = "unloadSource" /\ Go("user", "unloadSink")
  /\ sources' = IF sources > listed.sources THEN sources - listed.sources ELSE 0
  /\ UNCHANGED <<pipewire, server, sinks, files, app, absent, listed, tries, ghosts, bounds>>

UnloadSink ==
  /\ pc["user"] = "unloadSink" /\ Go("user", "idle") /\ want' = "out"
  /\ sinks' = IF sinks > listed.sinks THEN sinks - listed.sinks ELSE 0
  /\ UNCHANGED <<pipewire, server, sources, files, app, absent, listed, tries, lapsed, crossed, bounds>>

----------------------------------------------------------------------------
(* The environment.                                                        *)

Fault == faults < MaxFaults /\ faults' = faults + 1

ServerStop ==
  /\ server /\ Fault /\ server' = FALSE /\ sinks' = 0 /\ sources' = 0
  /\ lapsed' = TRUE
  /\ pc' = [t \in Threads |-> CASE pc[t] \in Requests -> "broken"
                               [] pc[t] = "mark" -> "markOnly"
                               [] OTHER -> pc[t]]
  /\ UNCHANGED <<pipewire, files, app, absent, listed, tries, want, crossed, ops>>

\* pulse.cmd of the drop-in.
ServerStart ==
  /\ ~server /\ server' = TRUE
  /\ IF pipewire /\ dropIn THEN sinks' = 1 /\ sources' = 1 /\ lapsed' = FALSE
     ELSE UNCHANGED <<devices, lapsed>>
  /\ UNCHANGED <<pipewire, files, app, pc, absent, listed, tries, want, crossed, bounds>>

AppExit ==
  /\ app /\ Fault /\ app' = FALSE /\ pc' = [t \in Threads |-> "idle"]
  /\ lapsed' = (lapsed \/ pc["restore"] # "idle")
  /\ UNCHANGED <<pipewire, server, devices, files, absent, listed, tries, want, crossed, ops>>

Next ==
  \/ \E t \in Threads : \/ LookSink(t) \/ LookSource(t) \/ LoadSink(t) \/ LoadSource(t)
                        \/ Connect(t) \/ Broken(t)
  \/ AppStart \/ Install \/ Uninstall \/ Mark \/ WriteDropIn \/ Unmark \/ Unconnect \/ List
  \/ UnloadSource \/ UnloadSink \/ ServerStop \/ ServerStart \/ AppExit

Spec == Init /\ [][Next]_vars

----------------------------------------------------------------------------
(* Properties.                                                             *)

\* The types of the variables.
TypeOK ==
  /\ sinks \in 0..3 /\ sources \in 0..3 /\ pc \in [Threads -> Steps] /\ tries \in 0..Tries
  /\ want \in {"in", "out", "error"} /\ {server, marker, dropIn, app} \subseteq BOOLEAN

Quiet == \A t \in Threads : pc[t] = "idle"

\* A microphone the user removed stays away: no start of SoundPush or of the server
\* brings it back, unless restore was running while it was removed (uninstall, restore).
Removed ==
  Quiet /\ want = "out" /\ ~crossed => sinks = 0 /\ sources = 0 /\ ~marker /\ ~dropIn

\* A microphone the user installed is there, once, after restarts of SoundPush and of the
\* server, unless the server stopped since and neither loaded it again (ensure_loaded,
\* restore, drop_in_text).
Available ==
  Quiet /\ app /\ server /\ want = "in" /\ ~lapsed /\ ~crossed => sinks = 1 /\ sources = 1

----------------------------------------------------------------------------
(* The inductive invariant.  A server that does not run has no modules and *)
(* no thread between two requests; and while restore and the user did not  *)
(* meet, each thread knows at every step what it has loaded or removed.    *)

Typed ==
  /\ sinks \in Nat /\ sources \in Nat /\ pc \in [Threads -> Steps]
  /\ absent \in [Threads -> BOOLEAN] /\ listed \in [sinks: Nat, sources: Nat]
  /\ server \in BOOLEAN /\ marker \in BOOLEAN /\ dropIn \in BOOLEAN
  /\ app \in BOOLEAN /\ lapsed \in BOOLEAN /\ crossed \in BOOLEAN

Loaded == sinks = 1 /\ sources = 1
Unmarked == ~marker /\ ~dropIn

Loads(t) ==
  /\ pc[t] = "loadSink" => absent[t] = (sinks = 0)
  /\ pc[t] \in {"sources", "loadSource"} => sinks = 1
  /\ pc[t] = "loadSource" => absent[t] = (sources = 0)

Removes ==
  /\ pc["user"] \in {"unconnect", "list", "unloadSource", "unloadSink"} => Unmarked
  /\ pc["user"] \in {"unloadSource", "unloadSink"} => listed.sinks = sinks
  /\ pc["user"] = "unloadSource" => listed.sources = sources
  /\ pc["user"] = "unloadSink" => sources = 0

Apart ==
  /\ sinks <= 1 /\ sources <= 1
  /\ pc["restore"] # "idle" => pc["user"] = "idle"
  /\ pc["user"] # "idle" => want = "error"
  /\ want = "out" => sinks = 0 /\ sources = 0 /\ Unmarked /\ pc["restore"] = "idle"
  /\ (want = "in" \/ pc["user"] \in {"mark", "markOnly", "dropIn"}) /\ server /\ ~lapsed => Loaded
  /\ \A t \in Threads : Loads(t)
  /\ Removes

Inv ==
  /\ Typed
  /\ ~server => /\ lapsed /\ sinks = 0 /\ sources = 0
                /\ \A t \in Threads : pc[t] \notin Requests
  /\ ~app => \A t \in Threads : pc[t] = "idle"
  /\ ~crossed => Apart
=============================================================================
