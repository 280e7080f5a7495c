----------------------------- MODULE MCServices -----------------------------
(***************************************************************************)
(* The services around connections and streams, with values for TLC.       *)
(*                                                                         *)
(* They share no state, so a behaviour is one of any: part says of which.  *)
(* x1, x2, ... are the variables of that part's module in the order in     *)
(* which it declares them, and the ones it does not need are off.  The     *)
(* parts of MCParts have constants and names for their variables there.    *)
(***************************************************************************)
EXTENDS MCParts

VARIABLE part

RouteKinds == [m1 |-> "mic", m2 |-> "mic", x |-> "mixed", v |-> "feed"]
Ranks == [a \in {"a1", "a2", "a3"} |-> IF a = "a3" THEN 2 ELSE 1]
CaptureNames == <<"cap1", "cap2">>

EncoderGroup ==
  INSTANCE EncoderGroup WITH
    Routes <- {"r1"}, Ring <- 5, Prefill <- 2, MaxBacklog <- 4, Jitter <- 1,
    MaxFrames <- 7, MaxSubs <- 1, systemAt <- x1, micAt <- x2,
    systemRing <- x3, micRing <- x4, overrun <- x5, mid <- x6, stale <- x7,
    primed <- x8, cushioned <- x9, mixed <- x10, thread <- x11, frame <- x12,
    behind <- x13, entries <- x14, generation <- x15, changing <- x16,
    seen <- x17, current <- x18, targets <- x19, failed <- x20,
    reported <- x21, subs <- x22

AppAudio ==
  INSTANCE AppAudio WITH
    Streams <- {"s1", "s2"}, Feeds <- {"f1", "f2"}, MaxTurns <- 4,
    MaxFaults <- 1, entries <- x1, live <- x2, cb <- x3, handle <- x4,
    platform <- x5, lock <- x6, todo <- x7, player <- x8, threads <- x9,
    puller <- x10, due <- x11, broken <- x12, feeds <- x13, pushes <- x14,
    running <- x15, turns <- x16, faults <- x17

Store ==
  INSTANCE Store WITH
    Devices <- {"d1", "d2"}, MaxTurns <- 3, MaxFailures <- 1, MaxEnds <- 2,
    MaxKeys <- 2, stage <- x1, key <- x2, identity <- x3, paired <- x4,
    saved <- x5, self <- x6, trust <- x7, dirty <- x8, routes <- x9,
    write <- x10, reset <- x11, decided <- x12, known <- x13, lost <- x14,
    failed <- x15, torn <- x16, turns <- x17, failures <- x18, ends <- x19

AuditTrail ==
  INSTANCE AuditTrail WITH
    MaxEntries <- 2, Retention <- 1, MaxTime <- 2, MaxRecords <- 6,
    MaxFailures <- 2, running <- x1, now <- x2, entries <- x3, file <- x4,
    half <- x5, lines <- x6, removed <- x7, next <- x8, missing <- x9,
    cleared <- x10, failures <- x11

Reports ==
  INSTANCE Reports WITH
    Pids <- {1, 2}, Keep <- 1, MaxTime <- 2, MaxWrites <- 2, MaxFailures <- 1,
    now <- x1, pid <- x2, reports <- x3, dumps <- x4, seen <- x5, crash <- x6,
    pruning <- x7, told <- x8, twice <- x9, hidden <- x10, fresh <- x11,
    raced <- x12, unmarked <- x13, failures <- x14, writes <- x15

LogFiles ==
  INSTANCE LogFiles WITH
    MaxFiles <- 4, MaxBytes <- 2, MaxWritten <- 10, MaxFailures <- 3,
    files <- x1, handle <- x2, cursor <- x3, written <- x4, rotating <- x5,
    moving <- x6, last <- x7, cut <- x8, holes <- x9, astray <- x10,
    failures <- x11

Discovery ==
  INSTANCE Discovery WITH
    Addresses <- {"a1", "a2"}, Rank <- Ranks, Ttl <- 2, MaxTurns <- 2,
    MaxAdverts <- 2, setting <- x1, qr <- x2, cmds <- x3, config <- x4,
    record <- x5, here <- x6, beacons <- x7, mdns <- x8, found <- x9,
    lost <- x10, entry <- x11, events <- x12, discovered <- x13,
    forgotten <- x14, silent <- x15, exposed <- x16, turns <- x17,
    adverts <- x18

Dialing ==
  INSTANCE Dialing WITH
    Addresses <- {"a1", "a3"}, Rank <- Ranks, MaxCandidates <- 2,
    CandTimeout <- 3, UsbDelay <- 2, UsbTimeout <- 3, MaxDials <- 2,
    leads <- x1, own <- x2, saved <- x3, pin <- x4, forward <- x5, cand <- x6,
    try <- x7, usb <- x8, clock <- x9, outcome <- x10, told <- x11,
    hits <- x12, dials <- x13, heard <- x14, back <- x15

Listener ==
  INSTANCE Listener WITH
    MaxPins <- 2, MaxDials <- 2, MaxCalls <- 2, taken <- x1, pin <- x2,
    eps <- x3, dials <- x4, calls <- x5, pins <- x6

Limits ==
  INSTANCE Limits WITH
    Addresses <- {"a1", "a2", "a3"}, Attempts <- 2, Window <- 2,
    MaxSources <- 2, BeforeNotice <- 2, MaxTime <- 4, MaxEvents <- 5,
    kind <- x1, now <- x2, sources <- x3, runs <- x4, log <- x5,
    evicted <- x6, ignored <- x7

Tickets ==
  INSTANCE Tickets WITH
    Conns <- 1..3, Lifetime <- 1, Grant <- 1, MaxTime <- 1, now <- x1,
    conn <- x2, preferred <- x3, hello <- x4, seen <- x5, session <- x6,
    issued <- x7, held <- x8, grant <- x9, ticket <- x10, uses <- x11,
    tokens <- x12, trusted <- x13

Links ==
  INSTANCE Links WITH
    Limit <- 1, Window <- 2, Hold <- 3, EnterSecs <- 2, RecoverSecs <- 2,
    MaxTime <- 5, MaxDrops <- 3, now <- x1, up <- x2, events <- x3,
    since <- x4, latency <- x5, status <- x6, mode <- x7, health <- x8,
    drops <- x9, measured <- x10, skipped <- x11

\* The variables after the n-th are not needed.
Off21 == x22 = "off"
Off20 == Off21 /\ x21 = "off"
Off19 == Off20 /\ x20 = "off"
Off18 == Off19 /\ x19 = "off"
Off17 == Off18 /\ x18 = "off"
Off16 == Off17 /\ x17 = "off"
Off15 == Off16 /\ x16 = "off"
Off14 == Off15 /\ x15 = "off"
Off13 == Off14 /\ x14 = "off"
Off12 == Off13 /\ x13 = "off"
Off11 == Off12 /\ x12 = "off"
Off10 == Off11 /\ x11 = "off"
Off9 == Off10 /\ x10 = "off"
Off8 == Off9 /\ x9 = "off"
Off7 == Off8 /\ x8 = "off"
Off6 == Off7 /\ x7 = "off"

rest21 == <<x22>>
rest20 == <<rest21, x21>>
rest19 == <<rest20, x20>>
rest18 == <<rest19, x19>>
rest17 == <<rest18, x18>>
rest16 == <<rest17, x17>>
rest15 == <<rest16, x16>>
rest14 == <<rest15, x15>>
rest13 == <<rest14, x14>>
rest12 == <<rest13, x13>>
rest11 == <<rest12, x12>>
rest10 == <<rest11, x11>>
rest9 == <<rest10, x10>>
rest8 == <<rest9, x9>>
rest7 == <<rest8, x8>>
rest6 == <<rest7, x7>>
xs == <<x1, x2, x3, x4, x5, x6, x7, x8, x9, x10, x11, x12, x13, x14, x15, x16, x17, x18,
        x19, x20, x21, x22>>

ServicesInit ==
  \/ part = "group" /\ EncoderGroup!Init
  \/ part = "app" /\ AppAudio!Init /\ Off17
  \/ part = "microphone" /\ Microphone!Init /\ Off12
  \/ part = "sharing" /\ Sharing!Init /\ Off12
  \/ part = "shortcuts" /\ Shortcuts!Init /\ Off15
  \/ part = "server" /\ SoundServer!Init /\ Off14
  \/ part = "virtualMic" /\ VirtualMic!Init /\ Off16
  \/ part = "store" /\ Store!Init /\ Off19
  \/ part = "audit" /\ AuditTrail!Init /\ Off11
  \/ part = "reports" /\ Reports!Init /\ Off15
  \/ part = "log" /\ LogFiles!Init /\ Off11
  \/ part = "devices" /\ DeviceEvents!Init /\ Off16
  \/ part = "os" /\ OsEvents!Init /\ Off9
  \/ part = "discovery" /\ Discovery!Init /\ Off18
  \/ part = "dialing" /\ Dialing!Init /\ Off15
  \/ part = "listener" /\ Listener!Init /\ Off6
  \/ part = "limits" /\ Limits!Init /\ Off7
  \/ part = "tickets" /\ Tickets!Init /\ Off13
  \/ part = "links" /\ Links!Init /\ Off11
  \/ part = "window" /\ Shell!Init /\ Off16

ServicesNext ==
  \/ part = "group" /\ EncoderGroup!Next /\ UNCHANGED part
  \/ part = "app" /\ AppAudio!Next /\ UNCHANGED <<part, rest17>>
  \/ part = "microphone" /\ Microphone!Next /\ UNCHANGED <<part, rest12>>
  \/ part = "sharing" /\ Sharing!Next /\ UNCHANGED <<part, rest12>>
  \/ part = "shortcuts" /\ Shortcuts!Next /\ UNCHANGED <<part, rest15>>
  \/ part = "server" /\ SoundServer!Next /\ UNCHANGED <<part, rest14>>
  \/ part = "virtualMic" /\ VirtualMic!Next /\ UNCHANGED <<part, rest16>>
  \/ part = "store" /\ Store!Next /\ UNCHANGED <<part, rest19>>
  \/ part = "audit" /\ AuditTrail!Next /\ UNCHANGED <<part, rest11>>
  \/ part = "reports" /\ Reports!Next /\ UNCHANGED <<part, rest15>>
  \/ part = "log" /\ LogFiles!Next /\ UNCHANGED <<part, rest11>>
  \/ part = "devices" /\ DeviceEvents!Next /\ UNCHANGED <<part, rest16>>
  \/ part = "os" /\ OsEvents!Next /\ UNCHANGED <<part, rest9>>
  \/ part = "discovery" /\ Discovery!Next /\ UNCHANGED <<part, rest18>>
  \/ part = "dialing" /\ Dialing!Next /\ UNCHANGED <<part, rest15>>
  \/ part = "listener" /\ Listener!Next /\ UNCHANGED <<part, rest6>>
  \/ part = "limits" /\ Limits!Next /\ UNCHANGED <<part, rest7>>
  \/ part = "tickets" /\ Tickets!Next /\ UNCHANGED <<part, rest13>>
  \/ part = "links" /\ Links!Next /\ UNCHANGED <<part, rest11>>
  \/ part = "window" /\ Shell!Next /\ UNCHANGED <<part, rest16>>

ServicesSpec == ServicesInit /\ [][ServicesNext]_<<part, xs>>

----------------------------------------------------------------------------
(* Properties.                                                             *)

\* The variables of every part have their types.
TypesOK ==
  /\ part = "group" => EncoderGroup!TypeOK
  /\ part = "app" => AppAudio!TypeOK
  /\ part = "microphone" => Microphone!TypeOK
  /\ part = "sharing" => Sharing!TypeOK
  /\ part = "shortcuts" => Shortcuts!TypeOK
  /\ part = "server" => SoundServer!TypeOK
  /\ part = "virtualMic" => VirtualMic!TypeOK
  /\ part = "store" => Store!TypeOK
  /\ part = "audit" => AuditTrail!TypeOK
  /\ part = "reports" => Reports!TypeOK
  /\ part = "log" => LogFiles!TypeOK
  /\ part = "window" => Shell!TypeOK
  /\ part = "devices" => DeviceEvents!TypeOK
  /\ part = "os" => OsEvents!TypeOK
  /\ part = "discovery" => Discovery!TypeOK
  /\ part = "dialing" => Dialing!TypeOK
  /\ part = "listener" => Listener!TypeOK
  /\ part = "limits" => Limits!TypeOK
  /\ part = "tickets" => Tickets!TypeOK
  /\ part = "links" => Links!TypeOK

\* Audio goes where it is wanted: an encoder sends to its subscribers with both captures in
\* step (refresh_targets, MixReader::take), and a stream of the app is played by one path and
\* by none once it was dropped (AppAudioStreams).  The step is not kept by an encoder that
\* used an old count of what it is behind (stale).
PlayedOnce ==
  /\ part = "group" => EncoderGroup!SendsToSubscribers /\ EncoderGroup!InStep
  /\ part = "app" => AppAudio!ConsumedOnce /\ AppAudio!SilentOnceDropped /\ AppAudio!Played

\* The voice in a mix has no holes, but for the same exception (MixReader::take).
Unbroken == [][part = "group" => EncoderGroup!Continuous]_<<part, x10>>

\* The microphone is live only as the user wishes: muted and denoised through every start and
\* failure (set_mic_muted, update_mic_groups), heard while the keys are held and the keys saved
\* are registered (shortcuts), given to no more devices than allowed and not again to one the
\* user stopped (check_local_capability, check_virtual_mic_use).
MicAsWished ==
  /\ part = "microphone" => Microphone!MicSilent /\ Microphone!MicFollows
  /\ part = "shortcuts" => Shortcuts!LiveWhileHeld /\ Shortcuts!Registered
  /\ part = "sharing" => Sharing!Shared /\ Sharing!StaysStopped

\* The sound server is left as it was found, also after a crash, and the virtual microphone is
\* there exactly if it was installed (unmute_speakers, remove_stale, ensure_loaded, uninstall).
LeftAsFound ==
  /\ part = "server" => SoundServer!NothingLeft
  /\ part = "virtualMic" => VirtualMic!Removed /\ VirtualMic!Available

\* What was written survives the end of the process at any moment, and what was removed stays
\* removed: decisions about devices, the security log, crash reports and the log files.
Kept ==
  /\ part = "store" => Store!DecisionsKept /\ Store!Flushed /\ Store!Told
  /\ part = "audit" => AuditTrail!Durable /\ AuditTrail!StaysCleared
  /\ part = "reports" => Reports!ToldOnce /\ Reports!DumpsNamed
  /\ part = "log" => LogFiles!NewestKept

\* The shell follows the engine and the engine the operating system: the window shows the last
\* snapshot and can be reached, routes play on the default device, and the session ends only
\* after the engine has stopped or was given the whole time-out of its shutdown
\* (forward_state, on_audio_devices_changed, dispatch).
ShellFollows ==
  /\ part = "window" => Shell!Current /\ Shell!Themed /\ Shell!StartsAsSet /\ Shell!Reachable
  /\ part = "devices" => DeviceEvents!FollowsDefault /\ DeviceEvents!ListsPresent
  /\ part = "os" => OsEvents!ToldInTime /\ OsEvents!StoppedFirst

\* A device is offered and named as its owner wants, dialed until one address works and no
\* longer than the timeouts allow, and listens no wider than the pin asks (PeerRegistry,
\* first_success, rebind_tcp).
Reached ==
  /\ part = "discovery" => Discovery!Vanishes /\ Discovery!Agrees /\ Discovery!NameHidden
  /\ part = "dialing" => Dialing!FailsLast /\ Dialing!EndsInTime /\ Dialing!SelfForgotten
  /\ part = "listener" => Listener!Narrow

\* The tables that remember peers decide as the history says: pairing attempts and refused
\* handshakes, resume tokens, drops and bad seconds (PairingLimiter, RefusedHandshakes,
\* ResumeTokens, FlapDetector, LinkHealth).
AsRemembered ==
  /\ part = "limits" => Limits!Limited /\ Limits!LetInAgain /\ Limits!RunTold
  /\ part = "tickets" => Tickets!AcceptedOnce /\ Tickets!TicketsMatch
  /\ part = "links" => Links!HeldForDrops /\ Links!RunsAsHeld /\ Links!DegradedFor
=============================================================================
