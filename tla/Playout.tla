------------------------------ MODULE Playout ------------------------------
(***************************************************************************)
(* One stream from the capture of one device to the speaker of another:    *)
(* the encode thread (sp-engine pipeline/sender.rs), datagrams that get    *)
(* lost and overtake each other, and the render callback of the receiver   *)
(* (pipeline/receiver.rs) with the jitter buffer (sp-media jitter.rs).     *)
(*                                                                         *)
(* Timestamps and delays are counted in frames, so a frame has length 1    *)
(* and a silence marker length 0.  Samples, codec, drift and volume are    *)
(* left out: what is played is decided by timestamps alone.                *)
(***************************************************************************)
EXTENDS Integers, FiniteSets, FiniteSetsExt, Functions, TLC

CONSTANTS
  Bounds,      \* the delay bounds of the latency profiles in use
  Slack,       \* the 200 ms of delay allowed on top of the upper bound
  MaxConceal,  \* MAX_CONCEAL_FRAMES
  MaxHeld,     \* MAX_FRAMES
  Hangover, SignalFrames, Keepalive,  \* the DTX_ constants, in frames
  Redundancy,  \* whether packets carry a copy of the frame before
  Window,      \* how many frames a datagram may be late
  Drift,       \* bound on how far the receiver's clock gets ahead, in frames
  Notice,      \* how many audio frames dropped in a row are noticed
  MaxTs,       \* bound on frames captured from one device
  MaxTurns,    \* bound on mute, profile, target and device changes
  MaxReopens   \* bound on captures opened again during the stream

ASSUME BoundsAssumption ==
  /\ Bounds # {}
  /\ \A b \in Bounds : b.min \in Nat /\ b.max \in Nat /\ b.max >= b.min
ASSUME NumbersAssumption ==
  /\ {Slack, MaxConceal, MaxHeld, Hangover, SignalFrames, Keepalive, Window,
      Drift, Notice, MaxTs, MaxTurns, MaxReopens} \subseteq Nat
  /\ Keepalive > 0
ASSUME RedundancyAssumption == Redundancy \in BOOLEAN

None == -1
Kinds == {"audio", "silence"}
Stamps == 0 .. MaxTs

VARIABLES
  ts,       \* the timestamp of the next frame captured
  elapsed,  \* frames of time since the stream began
  quiet,    \* silent_frames
  prev,     \* previous: the last frame was encoded
  muted,    \* the user muted this receiver at the sender
  restart,  \* Target::restart
  net,      \* datagrams under way
  buf,      \* the jitter buffer
  bounds,   \* its delay bounds
  last,     \* what the last pop returned
  dropped,  \* history: audio that came late in silence, since some was held
  turns, reopens

senderVars == <<ts, elapsed, quiet, prev, muted, restart>>
vars == <<ts, elapsed, quiet, prev, muted, restart, net, buf, bounds, last,
          dropped, turns, reopens>>

Packet == [ts: Stamps, kind: Kinds, copy: BOOLEAN, disc: BOOLEAN]
Status == {"Played", "Missing", "Buffering", "Silence"}

----------------------------------------------------------------------------
(* The jitter buffer, a record                                             *)
(*   frames: what is held, by timestamp     play: the next to play or None *)
(*   newest: the end of the newest frame    buffering, silent: flags       *)
(*   missing: consecutive_missing           target: the delay aimed at     *)

First(S) == IF S = {} THEN None ELSE Min(S)
Held(b) == DOMAIN b.frames
Only(b, S) == [b EXCEPT !.frames = Restrict(@, S)]

\* clamp_target.
Clamp(n, c) ==
  LET low == Max({c.min, 1}) IN Max({low, Min({n, Max({c.max, low})})})

\* JitterBuffer::new, and what reset leaves of the target.
Fresh(target) ==
  [frames |-> <<>>, play |-> None, newest |-> 0, buffering |-> TRUE,
   silent |-> FALSE, missing |-> 0, target |-> target]

\* buffered_samples.
Buffered(b) ==
  LET from == IF b.play # None THEN b.play ELSE First(Held(b)) IN
  IF from = None \/ from > b.newest THEN 0 ELSE b.newest - from

Limit == bounds.max + Slack

\* Bugs: the newest frame is skipped too, or nothing ever is.
JumpToEnd(b) ==
  LET kept == {t \in Held(b) : t >= b.newest} IN
  IF b.play = None \/ b.newest - b.play <= Limit THEN b
  ELSE [Only(b, kept) EXCEPT !.play = First(kept)]
JumpNever(b) == b

\* Far too much is buffered: jump forward.
Jump(b) ==
  LET kept == {t \in Held(b) : t >= b.newest - b.target} IN
  IF b.play = None \/ b.newest - b.play <= Limit THEN b
  ELSE [Only(b, kept) EXCEPT !.play = First(kept)]

\* Bug: the number of frames is not capped.
PushUncapped(b, t, kind) ==
  LET end == t + (IF kind = "audio" THEN 1 ELSE 0) IN
  IF t < b.play THEN b
  ELSE Jump([b EXCEPT !.newest = Max({@, end}), !.frames = (t :> kind) @@ @])

\* push, and push_silence for a marker.  Stamps below None do not exist, so
\* nothing is late before the first frame is played.
Push(b, t, kind) ==
  LET end == t + (IF kind = "audio" THEN 1 ELSE 0)
      c == [b EXCEPT !.newest = Max({@, end}), !.frames = (t :> kind) @@ @]
      full == Cardinality(Held(c)) > MaxHeld IN
  IF t < b.play THEN b
  ELSE Jump(IF full THEN Only(c, Held(c) \ {First(Held(c))}) ELSE c)

\* has.
Has(b, t) == t \in Held(b) \/ t < b.play

Result(b, status) == [buf |-> b, last |-> status]

\* Nothing is held at the play position: conceal, in place while the buffer is
\* below target, or rebuffer with a larger target.
PopMissing(b) ==
  LET c == [b EXCEPT !.missing = @ + 1] IN
  IF Buffered(c) + 1 <= c.target /\ c.missing <= MaxConceal
  THEN Result(c, "Missing")
  ELSE IF Held(c) = {} /\ c.missing > MaxConceal
  THEN Result([c EXCEPT !.target = Clamp(@ + 2, bounds), !.buffering = TRUE,
                        !.play = None, !.missing = 0], "Buffering")
  ELSE Result([c EXCEPT !.play = @ + 1], "Missing")

\* pop, from where the play position is known.
PopAt(b) ==
  LET here == b.play \in Held(b)
      rest == Only(b, Held(b) \ {b.play})
      next == [rest EXCEPT !.play = @ + 1, !.missing = 0] IN
  CASE here /\ b.frames[b.play] = "audio" ->
         Result([next EXCEPT !.silent = FALSE], "Played")
    [] here /\ b.frames[b.play] = "silence" ->
         Result([next EXCEPT !.silent = TRUE], "Silence")
    [] ~here /\ b.silent -> Result(next, "Silence")
    [] OTHER -> PopMissing(b)

\* pop.
PopFrom(b) ==
  LET c == IF ~b.buffering THEN b
           ELSE [b EXCEPT !.buffering = FALSE,
                          !.play = IF @ = None THEN First(Held(b)) ELSE @] IN
  IF b.buffering /\ (Buffered(b) < b.target \/ Held(b) = {})
  THEN Result(b, "Buffering")
  ELSE IF c.play = None THEN Result(c, "Buffering")
  ELSE PopAt(Only(c, {t \in Held(c) : t >= c.play}))

----------------------------------------------------------------------------
(* The sender. *)

Live(p, n) == p.ts + Window >= n

\* encode_loop takes a frame with sound or without and sends a datagram, an
\* audio packet or a DTX packet, or nothing.  The transport may refuse it.
Capture(sound, taken) ==
  LET q == IF sound THEN 0 ELSE quiet + 1
      dtx == q > Hangover
      n == q - Hangover - 1
      signal == n < SignalFrames \/ n % Keepalive = 0
      sends == taken /\ ~muted /\ (dtx => signal)
      p == [ts |-> ts, kind |-> IF dtx THEN "silence" ELSE "audio",
            copy |-> Redundancy /\ prev /\ ~dtx, disc |-> restart]
      now == {x \in net : Live(x, ts + 1)} IN
  /\ ts < MaxTs
  /\ ts' = ts + 1 /\ elapsed' = elapsed + 1
  /\ quiet' = IF q > Hangover + Keepalive + SignalFrames
              THEN q - Keepalive ELSE q
  /\ prev' = ~dtx
  /\ restart' = (muted \/ (restart /\ ~sends))
  /\ net' = IF sends THEN now \cup {p} ELSE now
  /\ UNCHANGED <<muted, buf, bounds, last, dropped, turns,
                 reopens>>

\* The user mutes or unmutes this receiver (MuteSet on the route).
SetMuted ==
  /\ turns < MaxTurns /\ turns' = turns + 1
  /\ muted' = ~muted
  /\ UNCHANGED <<ts, elapsed, quiet, prev, restart, net, buf, bounds, last,
                 dropped, reopens>>

\* The capture is opened again (reopen_route_audio): a new group with a clock
\* of its own, and a subscription that starts without restart.  No datagram
\* is under way for as long as that takes.
Reopen ==
  /\ reopens < MaxReopens /\ reopens' = reopens + 1
  /\ turns < MaxTurns /\ turns' = turns + 1
  /\ ts' = 0 /\ quiet' = 0 /\ prev' = FALSE /\ restart' = FALSE
  /\ net' = {}
  /\ UNCHANGED <<elapsed, muted, buf, bounds, last, dropped>>

----------------------------------------------------------------------------
(* The network and the receiver. *)

Lose(p) ==
  /\ net' = net \ {p}
  /\ UNCHANGED <<senderVars, buf, bounds, last, dropped, turns,
                 reopens>>

\* drain_network, for one packet.
Deliver(p) ==
  LET b == IF p.disc THEN Fresh(buf.target) ELSE buf
      c == IF p.copy /\ p.ts > 0 /\ ~Has(b, p.ts - 1)
           THEN Push(b, p.ts - 1, "audio") ELSE b IN
  /\ net' = net \ {p}
  /\ buf' = Push(c, p.ts, p.kind)
  /\ dropped' = IF p.kind = "silence" \/ (b.silent /\ c = b /\ p.ts < b.play)
                THEN Min({Notice, dropped + (IF p.kind = "audio" THEN 1 ELSE 0)})
                ELSE 0
  /\ UNCHANGED <<senderVars, bounds, last, turns, reopens>>

\* The render callback needs a frame.  In silence nothing but the receiver's
\* clock moves the play position, and the two clocks differ (sender.rs:243).
Pop ==
  LET r == PopFrom(buf) IN
  /\ r.last = "Silence" => r.buf.play <= elapsed + Drift
  /\ buf' = r.buf /\ last' = r.last
  /\ UNCHANGED <<senderVars, net, bounds, dropped, turns, reopens>>

\* adapt: up to what the jitter needs at once, or down by a little.
Adapt(needed) ==
  /\ turns < MaxTurns /\ turns' = turns + 1
  /\ buf' = [buf EXCEPT !.target =
               IF Clamp(needed, bounds) > @ THEN Clamp(needed, bounds)
               ELSE Clamp(Max({@ - 1, Clamp(needed, bounds)}), bounds)]
  /\ UNCHANGED <<senderVars, net, bounds, last, dropped, reopens>>

\* set_bounds, after a change of the latency profile.
SetBounds(c) ==
  /\ turns < MaxTurns /\ turns' = turns + 1
  /\ bounds' = c
  /\ buf' = [buf EXCEPT !.target = Clamp(@, c)]
  /\ UNCHANGED <<senderVars, net, last, dropped, reopens>>

\* The receiver is built again (on_receiver_ready), in the middle of a stream.
Rebuild ==
  /\ turns < MaxTurns /\ turns' = turns + 1
  /\ buf' = Fresh(Clamp(bounds.min, bounds))
  /\ last' = "Buffering"
  /\ UNCHANGED <<senderVars, net, bounds, dropped, reopens>>

----------------------------------------------------------------------------
Init ==
  /\ ts = 0 /\ elapsed = 0 /\ quiet = 0
  /\ prev = FALSE /\ muted = FALSE /\ restart = FALSE
  /\ net = {}
  /\ bounds \in Bounds
  /\ buf = Fresh(Clamp(bounds.min, bounds))
  /\ last = "Buffering" /\ dropped = 0 /\ turns = 0 /\ reopens = 0

MaxTarget == Max({Clamp(c.max, c) : c \in Bounds})

Next ==
  \/ \E sound, taken \in BOOLEAN : Capture(sound, taken)
  \/ SetMuted \/ Reopen \/ Pop \/ Rebuild
  \/ \E p \in net : Lose(p) \/ Deliver(p)
  \/ \E n \in 1 .. MaxTarget : Adapt(n)
  \/ \E c \in Bounds : SetBounds(c)

Spec == Init /\ [][Next]_vars

\* The audio system calls the render callback again and again.
FairSpec == Spec /\ WF_vars(Pop)

----------------------------------------------------------------------------
(* Properties. *)

TypeOK ==
  /\ ts \in 0 .. MaxTs /\ elapsed \in Nat /\ quiet \in Nat
  /\ {prev, muted, restart, buf.buffering, buf.silent} \subseteq BOOLEAN
  /\ net \subseteq Packet
  /\ Held(buf) \subseteq Stamps /\ \A t \in Held(buf) : buf.frames[t] \in Kinds
  /\ Cardinality(Held(buf)) <= MaxHeld
  /\ buf.play \in Nat \cup {None} /\ buf.newest \in 0 .. MaxTs
  /\ buf.missing \in Nat /\ buf.target \in 1 .. MaxTarget
  /\ bounds \in Bounds /\ last \in Status /\ dropped \in 0 .. Notice
  /\ turns \in Nat /\ reopens \in Nat

\* However long the receiver stalled, a packet that arrives leaves at most the
\* upper bound and 200 ms between what is played and what was sent (push).
LatencyBounded ==
  [][buf'.frames # buf.frames /\ buf'.newest > buf.newest /\ buf'.play # None
     => buf'.newest - buf'.play <= Limit]_vars

\* Frames are held that could be played, and none of them is.
Stuck ==
  /\ Held(buf) # {}
  /\ buf.buffering => Buffered(buf) >= MaxTarget
  /\ last # "Played"

\* What the buffer holds is heard, whatever was lost, late, muted, rebuilt or
\* jumped over, in a stream whose capture is not opened again (push, pop).  It
\* holds no frame that comes after its place was played: of those that follow
\* a silence that may be all (Resumes).
Heard == [](reopens = 0) => []<>~Stuck

\* "Silence for long periods: timeline continues; DTX packets; no re-sync glitch
\* on resume" (soundpush-final.md): the sound after a silence is not dropped
\* frame after frame (push, play_silence).
Resumes == dropped < Notice

\* "Timeline discontinuity (source changed, device reopened).  Receiver should
\* resync": the same of a stream whose capture is opened again.
Resyncs == []<>~Stuck

----------------------------------------------------------------------------
(* Two latency profiles for TLC, in frames, and one of them alone.         *)

Profiles == {[min |-> 1, max |-> 1], [min |-> 1, max |-> 2]}
LowLatency == {[min |-> 1, max |-> 2]}
=============================================================================
