# SoundPush in TLA+

SoundPush streams audio between the devices of one user (Windows, macOS, Linux,
Android) over the local network.  This directory models the core of it, the
engine in `sound-push-core`, in TLA+: modules that TLC checks on small
instances, and proofs that TLAPS checks for every instance.

## 1. Inventory

Every device runs one **engine**: a single actor task (`sp-engine/src/actor.rs`)
that owns all state and handles one thing at a time - a command of the user, an
event of a task it started, or a tick each second.  Concurrency comes from what
is *between* two handlers: dial tasks, session tasks, the blocking pool that
opens audio devices, the encode threads and audio callbacks, and the other
device's actor.  Queues are unbounded and unordered with respect to each other.

| Part | State | Operations | What makes it correct |
|---|---|---|---|
| Session manager (`actor.rs`, `session.rs`) | `trust`, `dials`, `dial_targets`, `sessions`, `conn_index`, `unpaired` | connect, disconnect, forget, block, dial, handshake, promote, close, tick | one common session per pair, no session without trust, no dial state stuck |
| Pairing (`actor.rs`, `sp-security/pairing.rs`) | pairing mode, `pairings`, `unpaired` | show a code, scan, confirm, reject, expire | trust only by consent of both, codes are single use, nothing left over |
| Route manager (`actor.rs`, `resume.rs`) | `routes`, `requests`, `settings.saved_routes`, ids of a session | start, stop, request, accept, reject, deny, pause, resume | the two ends agree, denial stops, streams survive a reconnect |
| Pipelines (`actor/pipelines.rs`, `local_audio.rs`, `profiles.rs`) | `encoders`, start ids, the pipelines of routes | open, result, failure, reopen, prune | no capture nobody wants, no route without audio |
| Media (`pipeline/sender.rs`, `receiver.rs`, `sp-media/jitter.rs`) | timeline, DTX counters, buffered frames, play position, target | encode, send, push, pop, adapt, reset | bounded delay, the stream recovers from loss |
| Route updates, quality fallback (`profiles.rs`, `health.rs`, `denoise.rs`) | profile per route, health windows | update, degrade, restore | the ends agree on codec and profile |
| Volume, mute, speakers (`actor.rs`, `hooks.rs`) | `speakers_muted_by`, the marker file, volumes | mute, unmute, set, remote set, shutdown, start | speakers muted exactly while someone asks |
| Default devices (`default_devices.rs`, `main.rs`) | replaced devices in memory and on disk | apply, restore, exit, start | put back when no longer wanted, also after a crash |
| Microphone (`local_audio.rs`, `denoise.rs`) | its mute, capture groups, suspension of noise suppression, keep-alive | mute, monitor, suspend, open, stop | no route carries a muted microphone; the recorder is held exactly while needed |
| Sharing (`actor.rs`, `local_audio.rs`) | receivers per source, the virtual microphone feed | accept, prompt, resume, automatic start | limits hold across peers; what the user stopped stays stopped |
| Encoder groups (`pipeline/sender.rs`) | capture rings, subscriber list and its generation, mix reader | fill, take, subscribe, refresh, mix | frames go to the subscribers; voice and system audio in step |
| Limits (`resume.rs`, `refused.rs`, `pairing_limit.rs`, `reconnect.rs`, `health.rs`) | timed tables | issue, redeem, count, expire, hold | decisions follow the history, also with full tables |
| Network test (`network_test.rs`, `nettest.rs`) | one test per peer | start, probe, echo, time out, end | every caller is answered with its own test |
| Engine facade (`lib.rs`, `sp-ffi/lib.rs`) | command channel, watch channel | request, send, publish, shut down | a change is shown within the interval, a caller is never left |
| Persistence (`trust.rs`, `settings.rs`, `secretbox.rs`, `audit.rs`, `crash.rs`, `logging.rs`) | files | load, write, append, compact, rotate, prune | decisions and entries survive failures and ends of the process |
| Transport (`tcp.rs`, `connection.rs`, `net.rs`, `actor.rs`) | queues and tasks of a connection, candidates of a dial, listeners | send, write, read, close, race, rebind | order, no wait for ever, dials end, listeners no wider than pinned |
| Discovery (`sp-discovery`) | what is published, the registry, the engine's copy | publish, beacon, ingest, sweep, forget | entries expire, hidden names stay hidden |
| Sound server (`pulse.rs`), virtual microphone (`virtual_mic.rs`) | sinks, modules, moved streams, markers | mute, capture an app, install, clean up | nothing is left behind, also after a crash |
| Desktop shell (`main.rs`, `tray.rs`, `hotkeys.rs`, `os_events.rs`, `device_watch.rs`) | window, page, tray, shortcuts, bursts of events | open, hide, close, forward, register, dispatch | the shell follows the engine and the engine the system |
| App audio of Android (`sp-ffi/app_audio.rs`) | playback streams, feeds, the platform's player | open, switch, pull, push, drop | one path plays a stream, none once it is dropped |
| Signal processing, drivers, views | samples, OS objects | | not modelled (section 7) |

Interactions: the session manager hands a promoted connection to the route
manager (resume), its end pauses routes; routes start and stop pipelines, whose
results and failures come back as events; pipelines feed media datagrams to the
transport, and the jitter buffer of the peer plays them.  The hard behaviours
are crossing events (simultaneous dials, stop against accept, result against
stop), state that is stale when an event arrives, lost connections between two
steps of a protocol, retries, and timers against late answers.  `PROJECT.json`
lists them as hazards at their lines.

## 2. Modules

| Module | Models | State and actions |
|---|---|---|
| `Connections` | session manager of any number of devices | one record per connection slot, `ends[c][d]` is the life of one end (racing, dialed, hello, established, open, closed ...); an action per command, per event handler and per outcome of the network |
| `Routes` | route manager of two devices | route lists, prompts, ordered channels per session; an action per command, per message (inside `Receive`) and per timer |
| `Pairing` | pairing of devices | code, connections in order, event queue per end, pending pairings; an action per command and handler |
| `Pipelines` | audio of one device | routes, encoder groups, streams by start id; an action per start, stop, result, failure and restart |
| `Updates` | the profile of one route | settings, status and copy of the profile at each end, ordered channels, the lossless fallback; an action per settings change, measurement, message and opened device |
| `Speakers` | who mutes the speakers of a computer | the switch of the operating system, its marker file, the peers that asked and the routes that send; an action per handler that may switch, and one for writing the marker, so that a crash can come between |
| `Defaults` | default devices of the desktop shell | the operating system's defaults, what was replaced in memory and on disk, jobs that wait for the lock; a job is four steps (input, output, note, unlock) |
| `Playout` | one media stream | sender timeline, datagrams, jitter buffer as a record with `Push`, `PopFrom`, `Jump` |
| `EncoderGroup` | one encode thread | two capture rings, the mix reader and the subscriber list; a step per read of shared state |
| `Microphone` | the microphone of one device | routes of three kinds, capture groups that open in a step of their own, mute, suspension, keep-alive |
| `Sharing` | routes of several peers at one device | routes and prompts by peer and use, the receiver limit, the automatic feed |
| `Tickets` | resume tokens between two devices | connections in any order, tokens issued, presented, redeemed, granted, forgotten |
| `Links` | one peer that drops or is bad | drops in a window, the Stable hold, the route's profile, bad and good seconds |
| `Limits` | pairing attempts and refused handshakes | two tables with windows and a capacity, and a log of what was decided |
| `Channel`, `TcpLink` | an ordered control channel; the TCP fallback that implements it | queues, writer, reader and session of both ends, sockets that fill, a network that fails |
| `Dialing` | one dial | candidates with their stagger and time-outs, the USB forward, own addresses |
| `Listener` | the TCP listener | endpoints that replace each other, with the tasks and dials that hold them |
| `Discovery` | one device heard of by another | mDNS record, beacons, registry entry with its age, the engine's copy |
| `NetworkTest` | a test between two devices | the entry, the probing task, control messages, the echo's window, probes in the air |
| `Snapshots` | the engine as apps see it | calls, the command channel, versions published, timers |
| `Store` | identity, trust store, settings | content in memory, of each file and the sealing key; writes that fail, ends of the process |
| `AuditTrail`, `Reports`, `LogFiles` | security log, crash reports, log rotation | entries in memory and lines on disk; files by name; a step per file operation |
| `SoundServer` | a PulseAudio server | sinks, loopbacks and streams; three threads, a step per request |
| `VirtualMic` | SoundPush Microphone on Linux | two modules of the server, marker and drop-in, restore against the user |
| `DeviceEvents`, `OsEvents` | events of devices; network, sleep, session end | queues, bursts and their timers, listing jobs, the thread that calls the engine |
| `Window`, `Shortcuts` | window, tray, page, autostart; global shortcuts | a step per thread and await; snapshots by number |
| `AppAudio` | audio of the Android app | streams, the lock, two players, the threads in a callback |
| `ConnectionsProofs` | proofs about `Connections`: types, trust, the tables | section 6 |
| `PairingProofs` | proofs about `Pairing`: types, codes, consent, both devices or neither | section 6 |
| `RoutesProofs` | proofs about `Routes`, as `MCRoutesSession` checks it | section 6 |
| `PipelinesProofs`, `AudioProofs` | proofs about the components of `MCAudio`: `Pipelines`; `Updates`, `Speakers`, `Defaults` and the types of all four | section 6 |
| `ProgressProofs` | proofs about the components of `MCProgress` | section 6 |
| `PartsProofs`, `ServicesProofs` | proofs about the components of `MCParts`; what follows for `MCServices` | section 6 |
| `MCAudio`, `MCProgress`, `MCServices` | components that share no state, composed: a behaviour is one of any of them | theorems are about these compositions |
| `MCParts` | the parts of `MCServices` that are proved about, with constants of their own and their names for the variables | `Microphone`, `Shortcuts`, `Sharing`, `SoundServer`, `VirtualMic`, `DeviceEvents`, `OsEvents`, `Window` (there named `Shell`, since other modules have a constant `Window`) |
| other `MC...` | values of constants for TLC | |

A handler is one action, with everything it calls.  Event queues of different
tasks are independent, so an event that is queued is a state of its end, and
`Next` picks any.  Numbers that only order things (ids, times) are model values,
flags or small numbers.  Timestamps in `Playout` count frames.

How the modules fit together: `Connections` starts from given trust entries,
which `Pairing` explains; `Routes` takes sessions as numbered generations that
the two ends take up and lose at different moments, which is what
`Connections` shows of them (one session per pair, closed at each end by an
event of its own); `Pipelines` takes routes as started and stopped, and
`Routes` takes the pipelines of a route as an outcome.  `Updates` looks at one
route that is allowed and opens, and at nothing but its profile.  `Sharing` and
`Microphone` take the other ends of their routes as free to send what the protocol
allows; `EncoderGroup` is the inside of one capture of `Pipelines`.  `TcpLink` is
shown to implement `Channel`, which is what `Connections`, `Routes` and `Pairing`
assume of a connection: ordered, complete until it is lost.  `Dialing` is the
inside of a dial that `Connections` takes as an outcome, `SoundServer` the inside
of the switch of `Speakers`, and `Tickets` looks at the promotion of sessions with
nothing but the tokens they carry.

## 3. Runs

| Run | Checks | Shows |
|---|---|---|
| `connections_safety` | `TypeOK`, `SessionsIndexed`, `NoSessionWithoutTrust`, `NoStuckDial`, `NoLeaks` | the tables agree with the connections there are, in every order of events |
| `connections_live` | `Converges`, `BlockedStopsDialing` | willing devices end on one session; a blocked device gives up |
| `routes_session` | `TypeOK`, `AgreeUnasked`, `DeniedUnasked`, `KeysDistinct`, `RequesterMatched` | keys are unambiguous and a requester never runs alone; where no user is asked, a route runs at both ends or none and denial is immediate |
| `routes_resume` | `Survives` | streams come back after losses and crashes |
| `pairing_safety` | `TypeOK`, `SingleUse`, `Mutual`, `NoOrphans`, `Consented` | trust by consent only, in every order of answers; no open connection is without an owner, also after lost connections, refusals and failed writes of the trust store |
| `audio_safety` | `TypesOK`, `CaptureWanted`, `Fed`, `ProfileAsAsked`, `MutedForPeers`, `DefaultsPutBack` | late results and failures never leave a capture open or a route silent; each end of a route keeps what is its own to decide, however updates cross; speakers are muted exactly while someone asks; default devices that were replaced are put back, also after a crash |
| `playout_safety` | `TypeOK`, `LatencyBounded`, `Heard` | delay bounded, also after a reopen; what the buffer of a stream without one holds is heard in the end |
| `progress` | `TypesOK`, `Delivered`, `InOrder`, `Answered` | the TCP fallback implements `Channel` and both its sessions end; network tests and calls are answered; snapshots are not late |
| `services_safety` | `TypesOK`, `PlayedOnce`, `Unbroken`, `MicAsWished`, `LeftAsFound`, `Kept`, `ShellFollows`, `Reached`, `AsRemembered` | the twenty smaller components, see below |

A property of `services_safety` is a conjunction over components that share no
state, one or more named properties of each module:

* `PlayedOnce`, `Unbroken`: an encoder sends to exactly its subscribers, whatever
  happened between its reads of list and counter; the two captures of a mix stay in
  step, and the voice has no holes (but where the reader judged the second ring by a
  count it had read before, `stale`); a stream of the app is consumed by one thread
  (`EncoderGroup`, `AppAudio`).
* `MicAsWished`: mute and noise suppression reach every capture however it was
  opened; push-to-talk is live only while held; limits hold across peers
  (`Microphone`, `Shortcuts`, `Sharing`).  `Shared` excepts the routes the user accepted
  at a prompt, those in use when the limit was lowered, and what is left of two feeds of
  one device after a request to replace them (`excepted`).
* `LeftAsFound`: sinks, loopbacks, moved streams and the virtual microphone are
  gone, or there, as they should after crashes at any request (`SoundServer`,
  `VirtualMic`).
* `Kept`: decisions, entries, reports and lines survive (`Store`, `AuditTrail`,
  `Reports`, `LogFiles`).  Reports are told of again after a start that could not write
  last-seen (`unmarked`), and the log loses what a failed rename writes over (`cut`).
* `ShellFollows`: once all is quiet the window shows the last snapshot, with the theme
  set, and can be reached, and SoundPush starts at sign-in as set; routes play on the
  default device; the engine hears of the system's events in time, and a session ends
  after it has stopped, or was given all of the two seconds `EngineHandle::shutdown`
  waits (`Window`, `DeviceEvents`, `OsEvents`).
* `Reached`: entries of discovery expire and agree with the engine's copy; a dial fails
  last and in time, and an address that is this device's own is dialed once each time it
  is learned; a listener is as wide as pinned (`Discovery`, `Dialing`, `Listener`).
* `AsRemembered`: `Limits`, `Tickets`, `Links`, each against the history of events
  kept in a variable of its own.

Three runs expect a violation: what the code does against what it says.

* `updates_cross` - "a codec, channel or frame change rebuilds the pipelines on
  both sides" (`actor/profiles.rs:6`).  Crossing updates, each with the whole
  profile, leave the ends with each other's codec, and the receiver drops packets
  of a codec that is not its own (`pipeline/receiver.rs:257`).
* `playout_reopen` - "Timeline discontinuity (source changed, device reopened).
  Receiver should resync." (`sp-protocol/src/media.rs:63`).  A reopened capture
  starts at timestamp 0 without the flag, and the jitter buffer can end without
  a play position and not buffering, where it stays.
* `playout_silence` - "Silence for long periods: timeline continues; DTX packets; no
  re-sync glitch on resume" (`docs/soundpush-final.md:466`).  In silence the play
  position goes on with the receiver's clock alone (`jitter.rs:248`).  Once that is ahead
  of the frames that arrive, each of them is dropped as late (`jitter.rs:115`), the
  `silent` flag is never cleared, and nothing brings the position back as long as the
  clocks run alike from then on.

More differences are stated as properties that no run checks, since TLC refutes them in
instances of their modules:

* `Survives` in `Routes`, once `StreamSurvives` is asked of two users who may each
  start the same stream (`UserDoes = {"start"}` and `MaxCommands = 2`) - "routes
  survive `Reconnecting`" (`docs/soundpush-final.md:1191`).  Both copies are dropped on
  resume.
* `LeftUnmuted` in `Speakers` - "may have muted its speakers: never leave them that
  way" (`actor.rs:3547`).  A connection lost while the stream a peer asked for is
  starting drops the route without unmuting (`actor.rs:3095`), and `shutdown` then
  sees no route to unmute for.  The start after it does unmute.
* `PairsAgain` in `Pairing` - "Pair it again" (`docs/error-codes.md:33`).  A device
  that still trusts this one takes the pairing connection for a session and ignores
  the request.
* `MixFailureReported` in `EncoderGroup` - "Its failures are reported like the first
  capture's: the group closes and the routes stop or reopen" (`pipeline/sender.rs:144`).
  The error callback of a mix's second capture does nothing (`sender.rs:153`).
* `OneFeed` in `Sharing` - "Only one device at a time can be the virtual microphone"
  (`actor.rs:2600`).  Starts that cross give one device two feeds, since `accept_route`
  knows a duplicate by its id alone (`actor.rs:2941`), and a device that replaces them
  stops only the one that is found first (`actor.rs:2647`); and what is accepted at a
  prompt is not checked again.
* `Bounded` in `LogFiles` - "Start the current file over rather than grow without bound"
  (`logging.rs:216`).  After a rotation the file is not open to append
  (`logging.rs:204`), so that `set_len(0)` leaves the position and the next line
  follows a hole of NULs.

Found while modelling and left as exceptions of properties (history variables) or
notes of hazards: an address that turned out to be this device's own is forgotten in the
engine's copies only, and the PeerRegistry, whose addresses only grow, brings it back
with its next Updated (`actor.rs:1779`), although the doc of `forget_own_address`
(`actor.rs:1979`) says that forgetting ends the dials there; `end_session` answers when
`EngineHandle::shutdown` returns, which is also when its two seconds have run out, while
the doc of its event says "once the engine has stopped" (`os_events.rs:39`); an engine
that starts after that answer is not stopped at all; after a disconnect by the user the other device may dial again
and is taken (`actor.rs:1158`); the answer to a prompt does not check limits again
(`actor.rs:2874`); a peer's unmute of the feed overrules the microphone's mute
(`actor.rs:3250`); stale whole-settings writes (`commands.rs`, `set_hotkey`); a
listener that moves may find its port still held (`actor.rs:1474`); a change of the
default device while a route is starting is not followed (`local_audio.rs:148`); a
device that keeps failing handshakes is told of again after a window that was not
quiet (`refused.rs:15`), because a run's time is that of its first failure; the
Stable hold runs out while the device is away (`actor.rs:2302`); a theme or a wish to
start at sign-in that changes twice before `forward_state` looks is compared with the last
one it saw, not with what a window or the portal made of the one between (`main.rs:429`).

Each property of a passing run has a mutant in `PROJECT.json`: a plausible bug
(defined in the module, marked "Bug") under which TLC finds it violated; a
conjunction has one for its parts.

## 4. Bounds

Two devices are enough for the protocols, which run between pairs; the theorems
cover any number.  Two connection slots are the least in which a dial crosses
another; slots are reused, so there may be any number one after the other.
`MaxCommands`, `MaxFaults`, `MaxLosses`, `MaxTimeouts`, `MaxTurns` bound only
what users, the network and devices do, in guards; what the engine does is not
bounded.  `routes_resume` has two losses, so that the second hits a resumption
of the first.  In `connections_safety` one device dials by itself and the other
one on a command, with two faults; in `connections_live` both dial by
themselves.  `audio_safety` has three starts: two groups, and one opened while the
first is still opening; four changes of a route's settings: both ends, a fallback
and its end; two peers that mute, and two ends of the process, so that a crash
meets what an earlier one left; two changes of the wanted default devices, which
may overtake each other, one choice of the user and one failing call.  Its four
components share no state, so a behaviour is one of any (`part`).
`routes_session` explores less of what users and timers do once a user was asked
(`FewerWithPrompts`), and takes the two streams as alike.  `playout_safety` has
four frames against a limit of one or two, so that the jump happens with frames
still to come, and three held at most, so that the cap does; the receiver's clock may run
ahead by one frame.  In `playout_silence` it gets ahead by two frames (`Drift`), and six
audio frames in a row are dropped as late (`Notice`), more than a clock that is two ahead
would explain, were the position brought back.  `quiet` in
`Playout` is folded once the DTX pattern repeats.

`progress` has one control message and a Goodbye, queues and sockets of one place:
the least with which every queue is full while both ends send; two probes and two
tests, so that echoes of the first meet the second, and a window just long enough
for the latest start; two threads that call, an interval of two ticks and a tick of
four.  `services_safety` gives each component the least values with which its cases
meet, next to its `INSTANCE` in `MCServices` (those of the parts in `MCParts`, which
the proofs leave open, are in `ServicesSafety.cfg`): two streams and two feeds of the app, a
ring of five frames against seven (it overflows), two runs of the process at the
sound server, two devices in the trust store with three decisions, twice the limit
of entries in the security log, one crash report kept of two by two processes, four log files, a table of two addresses and three
that try, three connections that carry tokens, three drops against a limit of one.  Three
snapshots of the engine (`MaxPublished`) are too few for a setting that changes twice
before `forward_state` looks: the watch channel hands it the last one only, so that a
window built with the theme between keeps it, and a wish to start at sign-in that is
repeated after the portal refused it is not asked for again.  These are exceptions of
`Themed` and `StartsAsSet` (`missed` of `Window`), found when their theorem was to be
proved and met by TLC from four snapshots on; the theorem holds for any number.

History variables keep what a property must except, and nothing reads them but
properties and the constraint `FewerWithPrompts`: `prompted` and `disturbed` flags, `stray` (a route dropped on a path
that does not unmute, see `LeftUnmuted`), `overruled` (another peer unmuted),
`torn` (a crash between a switch and its file), `failed` (a call of the operating
system that failed), `missed` (in `Updates`: settings that changed while a route was starting).  In
the smaller modules they are described where they are declared; a component that
does not move in a run keeps its first state, or is off.

Deadlock is not checked: when the bounds are used up and all is settled, the
system may stop.

## 5. Fairness

Weak fairness of what the runtime runs: actors take queued events, dial and
session tasks end, ticks come, the audio system calls the render callback.
Nothing is assumed of the network, of crashes or of users, except in `Pairing`
(users answer the prompts they see) and `Routes` (prompts are answered).
`Converges` also assumes that in the end no timer (300 ms at least) fires while
something between two devices is still to be handled; without it two devices
could go on replacing each other's connections, which the code breaks by time.
In `progress` the tasks of a TCP connection are weakly fair, one by one, as Tokio runs
every task that can go on; a writer that waits for room in the sockets and a reader
that waits for the session do not look at the close signal, and are not assumed to.
For a network test time passes and the actor handles its channel; nothing is assumed
of the peer and the network.  In `Playout` nothing is
assumed of the network or the sender; the receiver's clock gets ahead by `Drift` at most.

## 6. Proofs

Every theorem below is about a specification that a run checks, for any values of its
constants: any devices, connections, codes, routes, peers, sizes of queues and bounds.
Each rests on an inductive invariant, which TLC checked on the run's instance before it
was proved.  The layout is the same everywhere: a lemma per helper of the module (what
it leaves of the invariant), a lemma per handler, one step per action of `Next`, and a
last step with PTL.  In the composed modules (`MCAudio`, `MCProgress`, `MCServices`) a component's
lemmas are about its own variables, and the step of another component leaves them alone
or, in `MCServices`, is in a behaviour of its own.

| Theorem | States | Inductive invariant |
|---|---|---|
| `ConnectionsProofs.TypeCorrect` | `[]TypeOK` | `TypeInv` |
| `ConnectionsProofs.TrustCorrect` | `[]NoSessionWithoutTrust` | `TrustInv` |
| `ConnectionsProofs.SessionsCorrect`, `DialsCorrect`, `TablesCorrect` | `[]SessionsIndexed`, `[]NoStuckDial`, `[]NoLeaks` | `LinkInv` |
| `PairingProofs.TypesCorrect`, `CodesUsedOnce`, `ConnectionsOwned`, `TrustNeedsConsent` | `[]TypeOK`, `[]SingleUse`, `[]NoOrphans`, `Consented` (an action property) | `PairInv` |
| `PairingProofs.PairingIsMutual` | `[]Mutual` | `PairInv` and `MutualInv` |
| `RoutesProofs.RoutesTyped` | `[]TypeOK` of `Routes` | itself |
| `RoutesProofs.NothingUnderDenial` | `[]DeniedUnasked` | `Denial` |
| `RoutesProofs.KeysAlwaysDistinct`, `RequesterAlwaysMatched`, `DevicesAgree` | `[]KeysDistinct`, `[]RequesterMatched`, `[]AgreeUnasked` | `InSession` |
| `PipelinesProofs.DevicesWanted`, `RoutesFed` | `[]CaptureWanted`, `[]Fed` | `PInv` |
| `AudioProofs.ProfilesAsAsked` | `[]ProfileAsAsked` | `UInv` |
| `AudioProofs.SpeakersMutedForPeers` | `[]MutedForPeers` | `SInv` |
| `AudioProofs.DefaultsArePutBack` | `[]DefaultsPutBack` | `DInv` |
| `AudioProofs.AudioTyped` | `[]TypesOK` of `MCAudio` | the four above |
| `ProgressProofs.ConnectionIsChannel` | `InOrder`: `TcpLink` implements `Channel` | `ProgressInv` |
| `ProgressProofs.HandedOver`, `ProgressTyped` | `[]Delivered`, `[]TypesOK` of `MCProgress` | `ProgressInv` |
| `ServicesProofs.MicrophoneAsWished`, `ServerAsFound`, `ShellAlwaysFollows` | `[]MicAsWished`, `[]LeftAsFound`, `[]ShellFollows` | `ServicesInv` |

Why the properties are not inductive as they stand:

* `TypeInv` adds that a connection in use joins devices, since the peer of an end is
  computed from it.  `TrustInv` is preserved because `on_established` asks the trust
  store again when it promotes, and each handler that withdraws trust drops the session
  in the same step.
* `LinkInv` is stated for one device (`DevInv`): a device is only at
  its own connections and an end has no reason to close before it is open (`EndsInv`); a
  handle belongs to a dial that runs, what is in flight is wanted and has a target, and a
  target is a dial whose result is still to come (`DialsInv`); the connection of a
  session is served or its Closed is queued (`SessInv`).  Without the last two a step of
  the other device could close what the tables still name.
* `PairInv` says what a message under way stands for: a "yes" on its way was agreed to by
  the user of its sender (`NetOK`), the scanner of a code agreed from the beginning
  (`ConnsInv`), a code is on its owner's screen until it is accepted (`CodesInv`), and
  what a pending pairing says was answered was agreed (`HoldInv`); a pairing whose trust
  could not be written drops its sender, and the connection closes with it.
* `MutualInv` follows each pair of devices through the pairing they are in, until
  something else interferes (`disturbed`: another connection, a timer or a user).  Two devices either have nothing between them (`Known`) or are
  `Between`: each end waits with the answers it has (`EndOK`), and what one end has
  answered is on its way to the other, or was read there (`CrossOK`).  The case that
  matters is the end that trusts first: the other one does not trust yet, and what makes
  it follow is a "yes" that is in the queue behind nothing that could end the pairing.
* `Denial` says that a route of the peer's is the first of its key, with the routes of
  a device's own before it (`Ordered`): `enforce_permissions` collects keys and stops
  the first route of each, so a second one of the same key would go on.
* `InSession` says for each device which routes it can have, by the messages it has
  still to read (`Side`), and for the routes a device asked for how they are found at
  its peer (`Link`): asked for and the request is on its way or in a prompt
  (`AskedStill`), promised and accepted there (`Promised`, `RunsThere`), stopped and the
  Stop is on its way (`NotStopped`), or over (`Over`).  `Stages` says how far the two
  ends are in taking up and losing the session, and how many ids are used up.  The
  handlers look for the *first* route of a key, so that every lemma about a list first
  shows that the list and what is in it (`Elems`) say the same.
* `PInv` of the pipelines is `Settled`: a start id belongs to one group or route and the
  state of its device fits (`Sane`), an open device is held (`Wanted`), a sender has the
  group of its encoding (`FedAt`).  A handler that reopens several routes breaks the last
  two on the way; `Left` and `Room` are the invariant of its loop, proved by induction
  over the list of routes, in any order the actor may have them.
* `UInv` looks at every profile under way: the *last* one on its way to the end that
  plays, or else the one it has, agrees with the source in what the source decides
  (`Follows`), and how far the two ends are limits what may be under way (`Phases`,
  `Messages`).
* `SInv` adds the marker file (a start relies on it after a crash), and that a route that
  is not there controls nothing.  `DInv` says what each step of the job that holds the
  lock has done, and that the newest job asks for what is wanted now.
* `ProgressInv` is that of three components.  In `TcpLink`: types, limits of the queues,
  and the media counted; the refinement maps queue, socket, frames and the message in the
  reader's hand to the messages under way of `Channel`.  In `NetworkTest`: reports hold
  echoes of their own test, ids are not given again, and the peer's window covers what is
  left of the test (`Handshake`).  In `Snapshots`: a change that is not published has the
  timer running, and a waiting caller's request is in the queue once.
* `ServicesInv` is that of the eight components that `MicAsWished`, `LeftAsFound` and
  `ShellFollows` are about, each in its module.
  `Microphone`: a route is silent from the moment it has its controls, before its device
  is open (`Silenced`), a group holds routes of its own kind, and what the shell last
  heard is what the routes need.  `Shortcuts`: `LiveWhileHeld` looks at a microphone with
  no command under way, so that the invariant says of those under way that an unmute is
  followed by a mute (`MutesLast`).  `Registered` looks at settings at rest; on the way
  to them the settings that wait in the channel are followed one by one (`Chain`), and
  where each knows what it replaces, a shortcut is as its last one asks, or reports an
  error, or the forwarder still has the change before it (`Foreseen`).  `Sharing`: the
  feed the user stopped stays stopped, since its id is never given again (`Stopped`);
  the limits themselves are inductive with the types, because every way to a new route
  that does not ask the user counts the ones there are, and a limit that is lowered
  excepts the routes it meets (`excepted`); two feeds that are not excepted are of one
  device, and whoever replaces one of them excepts the others it leaves.
  `SoundServer`: the sink that stands in for muted speakers is being loaded or removed,
  or marked by the file that the next start looks for, or `torn` (`Speakers`); the capture
  sink of this run has its capture (`Own`); and while there are sinks of runs that
  crashed, a thread is on its way to one of them (`Cleans`).  The last is why
  `remove_stale` leaves nothing although it gives up at a sink another thread removed
  first: the thread that removed it looks again.  `VirtualMic`: as long as restore and a
  command of the user did not meet, each thread knows at every step what it or the other
  one loaded (`Loads`, `Removes`), and the server has what is wanted unless it restarted
  without it (`lapsed`).
  `DeviceEvents`: a default the route does not play on was told and is in one of the
  channels or in the burst that is merged, or the watcher has still to ask for it
  (`Follows`); when nothing of the kind is on its way and no listing runs, the list sent
  last is that of the devices there are (`Present`).  Merging must keep what both changes
  say.  `OsEvents`: an event the engine is owed is in the queue or in the burst, and how long
  it has been owed is bounded by the call before it, the age of the burst and the ticks of
  silence (`InQueue`, `InBurst`); the end of the session waits for one call at most before
  the thread takes it, and then for the shutdown of the engine (`Ending`).  `Window`: what the page does not show is to
  be forwarded or being sent (`PageKnows`); what differs from the last theme and wish
  forwarded is in a snapshot that `forward_state` has not seen or holds (`ThemeInv`,
  `LoginInv`), which needs the order of the threads that start (`Phases`); and without a
  tray a window exists or some thread has still to open it (`Opened`).

Assumptions are the named ASSUMEs of the modules, which TLC evaluates for each run:
sets of names that do not contain the marks of none (`ConnsAssumption`,
`NoConnAssumption`, `DeviceNames`, `CodecsNamed`, `KeysApart`, `NoKeyApart`), bounds that are numbers
(`BoundsAssumption`, `AudioBounds`, `PipelineBounds`, `ProgressBounds`,
`MicrophoneNumbers`, `SharingNumbers`, `ServerNumbers`, `OsNumbers`), sinks whose names differ: those
of hardware, of the speakers and of each process, whose id its sink is named after, and one
of hardware at least (`SinksApart`), finitely many routes, each of which sends or plays
(`RoutesApart`), finitely many paired devices (`PeersFinite`), and two that are about times: the peer's
window of a network test, 15 s, is at least the time to its answer and the probes together
(`WindowLongEnough`), and the window procedure waits longer for the engine, four seconds,
than a call that reads the network's state and the shutdown of the engine, 2.15 seconds,
take together (`EndWait > Slow + Shutdown` in `OsNumbers`).  The code does not bound that
call, so this is a hypothesis about the system: it takes less than 1.85 seconds.

Two theorems have a hypothesis besides:

* `PairingIsMutual` assumes `BothWays`: when the program starts, a device trusts
  another only if that one trusts it.  Trust of one side only is a state the program can
  be in (a device was forgotten while the other one was away), and pairing does not
  repair what it does not touch.
* The three theorems about routes with `InSession` assume `WithinSession`: one session,
  and more ids in it (`IdSpace`, 256 in the code) than twice the number of commands, so
  that no id comes round.  This is what `routes_session` checks.  Without it they do not
  hold as they stand: 127 requests in one session wrap the id (`next_route` is a u8),
  and over several sessions a route of the peer's that is paused keeps an id that a
  new route may get, and a prompt of an old session may be answered in a new one.
  `RoutesTyped` and `NothingUnderDenial` hold for any number of sessions and ids.

What stays with TLC, and why:

* Liveness (`Converges`, `BlockedStopsDialing`, `Survives`, `Answered`, `Heard`): outside
  the prover.
* `Playout`: the jitter buffer's properties are about arithmetic over a set of frames,
  and `Heard` is liveness.
* `MCServices` but for `MicAsWished`, `LeftAsFound` and `ShellFollows`: the types and the
  five properties about its other components, for which no invariant has been worked out
  (section 8).
  `Unbroken` and the parts of `PlayedOnce` about rings are arithmetic over positions, as in
  `Playout`; `AsRemembered` counts entries of lists with SelectSeq, a recursive definition.

## 7. Not modelled

Signal processing and codecs (floating point, libraries), QUIC and TLS (libraries),
message formats (small pure functions with unit tests of their own), the back ends
that call Windows and macOS (every call is an outcome in `Pipelines`), drivers (the
object models of kernel and HAL), views, the Android service and screens, and
`tethering.rs` and `network.rs`, which parse what the operating system reports and
keep no state.  Drift correction is left out of `Playout` and `EncoderGroup`; in `Playout` the receiver's
clock may be ahead by up to `Drift` frames in a silence, in `EncoderGroup` clocks run alike
up to the jitter of callbacks.  Three things within modules are left out too: requests to
the sound server that undo another one and are refused while the server lives
(`pulse.rs:758`, 930, 1309), and two captures of applications at once, in `SoundServer`;
and the push-to-talk of the desktop portal in `Shortcuts` (`hotkeys.rs:86`), which never
mutes the microphone before the first press, whatever the setting is.

## 8. Plan

1. Done: all modules of section 2 and the runs of section 3.
2. Done: the proofs of section 6, about `Connections`, `Pairing`, `TcpLink` with
   `Channel`, `NetworkTest`, `Snapshots`, `Pipelines`, `Updates`, `Speakers` and
   `Defaults`, `Routes`, `Microphone`, `Shortcuts`, `Sharing`, `SoundServer`,
   `VirtualMic`, `DeviceEvents`, `OsEvents` and `Window`.  Next: the other components of `MCServices` - first `AsRemembered`
   (`Limits`, `Tickets`, `Links`), then `Reached`, `Kept` and `PlayedOnce`,
   each with its constants brought out as `MCParts` does - and `TypeOK` of `Playout`.
3. Abstract specifications: a directory of sessions (connect, lose, revoke) that
   `Connections` implements; a stream that is wanted or not, that `Routes`
   implements.
4. Candidates for further modules: the updater's states, the Windows cable's ring,
   the life cycle of the Android service.
