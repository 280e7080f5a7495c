------------------------------ MODULE MCParts ------------------------------
(***************************************************************************)
(* The parts of MCServices that are proved about, for any values of their  *)
(* constants: what decides whether the microphone of a device is live -    *)
(* its mute (Microphone), the shortcuts of the desktop shell (Shortcuts)   *)
(* and what the routes of several peers share (Sharing) - and what         *)
(* SoundPush leaves at the sound server (SoundServer, VirtualMic).         *)
(*                                                                         *)
(* A behaviour is one of any part, so they share the variables x1, x2, ... *)
(* and each part has its names for them.                                   *)
(***************************************************************************)
EXTENDS Naturals, Sequences, FiniteSets

CONSTANTS
  Kind, Recovery, IdleTicks, MicTurns,          \* of Microphone
  Keys, NoKey, ShortcutTurns,                   \* of Shortcuts
  Peers, NoPeer, Asks, ReceiverLimits, RequestIds, IdlePolls, SharingTurns,  \* of Sharing
  Real, Streams, App, CaptureSinks, ServerTurns, ServerFailures,  \* of SoundServer
  Tries, MicOps, MicFaults,                     \* of VirtualMic
  Jobs, DeviceTurns, MaxRestarts,               \* of DeviceEvents
  MaxBurst, EndWait, Shutdown, Slow, OsTurns,   \* of OsEvents
  MaxPublished                                  \* of Window

\* A supervisor needs a step to recover, and a route is of one of three kinds.
ASSUME MicrophoneNumbers ==
  /\ Recovery \in Nat \ {0} /\ IdleTicks \in Nat \ {0} /\ MicTurns \in Nat
  /\ Kind \in [DOMAIN Kind -> {"mic", "mixed", "feed"}]

\* The mark of no shortcut is no combination of keys.
ASSUME NoKeyApart == NoKey \notin Keys

\* A device is paired with finitely many others, which "nobody" is none of.
ASSUME PeersFinite == IsFiniteSet(Peers) /\ NoPeer \notin Peers

\* Limits, polls and bounds are numbers.
ASSUME SharingNumbers ==
  /\ ReceiverLimits \subseteq Nat /\ RequestIds \subseteq Nat
  /\ IdlePolls \in Nat /\ SharingTurns \in Nat

\* Real sinks and those of SoundPush's runs have different names, and a user has one sink
\* at least.
ASSUME SinksApart ==
  /\ IsFiniteSet(Real) /\ Real # {}
  /\ Len(CaptureSinks) \in Nat \ {0} /\ DOMAIN CaptureSinks = 1 .. Len(CaptureSinks)
  /\ \A m, n \in DOMAIN CaptureSinks : CaptureSinks[m] = CaptureSinks[n] => m = n
  /\ \A n \in DOMAIN CaptureSinks :
       CaptureSinks[n] \notin Real \cup {"soundpush_speakers", "none"}
  /\ Real \cap {"soundpush_speakers", "none"} = {}
  /\ App \subseteq Streams

\* Bounds are numbers.
ASSUME ServerNumbers == ServerTurns \in Nat /\ ServerFailures \in Nat

\* The window procedure waits longer than it takes to read the state of the network and then
\* to shut the engine down.
ASSUME OsNumbers ==
  /\ MaxBurst \in Nat \ {0} /\ Slow \in Nat /\ EndWait \in Nat /\ Shutdown \in Nat
  /\ EndWait > Slow + Shutdown

VARIABLES x1, x2, x3, x4, x5, x6, x7, x8, x9, x10, x11, x12, x13, x14, x15,
          x16, x17, x18, x19, x20, x21, x22

\* Of Microphone.
micMuted == x1
route == x2
group == x3
noise == x4
suspended == x5
healthy == x6
monitor == x7
keepMic == x8
idle == x9
closed == x10
overruled == x11
turns == x12

\* Of Shortcuts.
slot == x1
error == x2
taken == x3
saved == x4
muted == x5
snap == x6
cmds == x7
last == x8
jobs == x9
setter == x10
held == x11
raced == x12
crossed == x13
unmuted == x14
presses == x15

\* Of Sharing.
linked == x1
shared == x2
prompts == x3
limit == x4
recording == x5
auto == x6
handled == x7
unused == x8
lastPeer == x9
excepted == x10
declined == x11
moves == x12

\* Of SoundServer.
up == x1
run == x2
mark == x3
default == x4
sinks == x5
restore == x6
at == x7
muter == x8
worker == x9
moved == x10
playback == x11
torn == x12
requests == x13
failures == x14

\* Of VirtualMic.
pipewire == x1
server == x2
micSinks == x3
sources == x4
marker == x5
dropIn == x6
app == x7
pc == x8
absent == x9
listed == x10
tries == x11
want == x12
lapsed == x13
met == x14
ops == x15
faults == x16

\* Of DeviceEvents.
sound == x1
watcher == x2
pending == x3
known == x4
changes == x5
merging == x6
calls == x7
listings == x8
lists == x9
devices == x10
player == x11
skipped == x12
unseen == x13
passed == x14
deviceTurns == x15
restarts == x16

\* Of OsEvents.
queue == x1
burst == x2
busy == x3
engine == x4
session == x5
waited == x6
owed == x7
events == x8
stopping == x9

\* Of Window; engine is named above.
host == x1
trayed == x2
checked == x3
pub == x5
start == x6
firstWindow == x7
opening == x8
window == x9
page == x10
late == x11
fwd == x12
login == x13
grants == x14
missed == x15
lost == x16

Microphone == INSTANCE Microphone WITH MaxTurns <- MicTurns

Shortcuts ==
  INSTANCE Shortcuts WITH MaxTurns <- ShortcutTurns, asked <- unmuted,
                          turns <- presses

Sharing ==
  INSTANCE Sharing WITH Limits <- ReceiverLimits, Ids <- RequestIds,
                        MaxTurns <- SharingTurns, route <- shared, idle <- unused, turns <- moves

SoundServer ==
  INSTANCE SoundServer WITH MaxTurns <- ServerTurns, MaxFailures <- ServerFailures,
                            turns <- requests
VirtualMic ==
  INSTANCE VirtualMic WITH MaxOps <- MicOps, MaxFaults <- MicFaults,
                           sinks <- micSinks, crossed <- met

DeviceEvents ==
  INSTANCE DeviceEvents WITH 
    MaxChanges <- DeviceTurns, server <- sound, last <- known, burst <-
    merging, jobs <- listings, listed <- lists, route <- player, missed <-
    unseen, crossed <- passed, turns <- deviceTurns

OsEvents ==
  INSTANCE OsEvents WITH MaxEvents <- OsTurns, q <- queue

Shell ==
  INSTANCE Window WITH first <- firstWindow

micVars == <<micMuted, route, group, noise, suspended, healthy, monitor, keepMic,
             idle, closed, overruled, turns>>
shortcutVars == <<slot, error, taken, saved, muted, snap, cmds, last, jobs, setter,
                  held, raced, crossed, unmuted, presses>>
sharingVars == <<linked, shared, prompts, limit, recording, auto, handled, unused,
                 lastPeer, excepted, declined, moves>>
serverVars == <<up, run, mark, default, sinks, restore, at, muter, worker, moved,
                playback, torn, requests, failures>>
virtualVars == <<pipewire, server, micSinks, sources, marker, dropIn, app, pc, absent,
                 listed, tries, want, lapsed, met, ops, faults>>
deviceVars == <<sound, watcher, pending, known, changes, merging, calls, listings, lists,
                devices, player, skipped, unseen, passed, deviceTurns, restarts>>
osVars == <<queue, burst, busy, engine, session, waited, stopping, owed, events>>
windowVars == <<host, trayed, checked, engine, pub, start, firstWindow, opening, window,
                page, late, fwd, login, grants, missed, lost>>
=============================================================================
