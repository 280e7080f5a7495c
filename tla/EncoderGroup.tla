---------------------------- MODULE EncoderGroup ----------------------------
(***************************************************************************)
(* An encoder group (pipeline/sender.rs): a capture fills a ring, the      *)
(* encode thread takes a frame at a time and sends it to every subscriber. *)
(* In a mixed group a second capture (the microphone) fills a ring of its  *)
(* own, and MixReader joins the two.                                       *)
(*                                                                         *)
(* Audio is a sequence of frames with the moment they were recorded; the   *)
(* resampling that follows the drift between the two clocks is left out.   *)
(***************************************************************************)
EXTENDS Integers, Sequences

CONSTANTS
  Routes,      \* routes that may subscribe
  Ring,        \* frames a ring holds (one second)
  Prefill,     \* MIX_PREFILL_FRAMES
  MaxBacklog,  \* MIX_MAX_BACKLOG_FRAMES
  Jitter,      \* how far, in frames, the second capture's callbacks may lag the first's
  MaxFrames,   \* bound on the frames recorded
  MaxSubs      \* bound on the changes to the subscribers

VARIABLES
  systemAt, micAt,  \* the next frame each capture delivers
  systemRing, micRing,
  overrun,     \* a full ring dropped a frame
  mid,         \* microphone frames that came since the thread took its frame
  stale,       \* and there was more than one: `behind` was old when it was used
  primed,      \* MixReader::primed
  cushioned,   \* no system audio was queued when it was primed
  mixed,       \* the last frame: what was joined; mic = 0 for silence
  thread,      \* the encode thread: "waits", "loads", "refreshes", "notes",
               \* "mixes"
  frame,       \* the frame of system audio it has in hand
  behind,      \* system audio still queued
  entries,     \* Fanout::entries
  generation,  \* Fanout::generation
  changing,    \* a subscription being added or dropped, between the list and the count
  seen,        \* the generation the thread knows
  current,     \* the one it has just read
  targets,     \* its copy of the list
  failed,      \* captures whose device is gone
  reported,    \* the engine was told
  subs

rings == <<systemAt, micAt, systemRing, micRing, overrun, mid, stale>>
mix == <<primed, cushioned, mixed, frame, behind>>
fanout == <<entries, generation, changing, subs>>
copy == <<seen, current, targets>>
health == <<failed, reported>>
vars == <<rings, mix, thread, fanout, copy, health>>

None == [system |-> 0, mic |-> 0]

Init ==
  /\ systemAt = 1 /\ micAt = 1 /\ systemRing = <<>> /\ micRing = <<>> /\ overrun = FALSE
  /\ mid = 0 /\ stale = FALSE
  /\ primed = FALSE /\ cushioned = FALSE /\ mixed = None /\ thread = "waits" /\ frame = 0 /\ behind = 0
  /\ entries = {} /\ generation = 0 /\ changing = FALSE /\ subs = 0
  /\ seen = -1 /\ current = -1 /\ targets = {} /\ failed = {} /\ reported = FALSE

----------------------------------------------------------------------------
(* The captures: fill_ring.                                                *)

Fill(ring, n) == IF Len(ring) < Ring THEN Append(ring, n) ELSE ring

SystemDelivers ==
  /\ "system" \notin failed /\ systemAt < MaxFrames /\ (systemAt < micAt + Jitter \/ "mic" \in failed)
  /\ systemRing' = Fill(systemRing, systemAt) /\ systemAt' = systemAt + 1
  /\ overrun' = (overrun \/ Len(systemRing) = Ring)
  /\ UNCHANGED <<micAt, micRing, mid, stale, mix, thread, fanout, copy, health>>
MicDelivers ==
  /\ "mic" \notin failed /\ micAt < MaxFrames /\ (micAt < systemAt \/ "system" \in failed)
  /\ micRing' = Fill(micRing, micAt) /\ micAt' = micAt + 1
  /\ overrun' = (overrun \/ Len(micRing) = Ring)
  /\ mid' = IF thread = "waits" THEN 0 ELSE 1
  /\ stale' = (stale \/ (thread # "waits" /\ mid = 1))
  /\ UNCHANGED <<systemAt, systemRing, mix, thread, fanout, copy, health>>

\* The device of a capture goes: the first capture's error callback tells the engine, the
\* second one's is empty.
SystemFails ==
  /\ "system" \notin failed /\ failed' = failed \cup {"system"} /\ reported' = TRUE
  /\ UNCHANGED <<rings, mix, thread, fanout, copy>>
MicFails ==
  /\ "mic" \notin failed /\ failed' = failed \cup {"mic"}
  /\ UNCHANGED <<rings, mix, thread, fanout, copy, reported>>

----------------------------------------------------------------------------
(* encode_loop.                                                            *)

TakesFrame ==
  /\ thread = "waits" /\ systemRing # <<>> /\ thread' = "loads"
  /\ frame' = Head(systemRing) /\ systemRing' = Tail(systemRing)
  /\ behind' = Len(systemRing) - 1 /\ mid' = 0
  /\ UNCHANGED <<systemAt, micAt, micRing, overrun, stale, primed, cushioned, mixed, fanout, copy, health>>

LoadsGeneration ==
  /\ thread = "loads" /\ current' = generation
  /\ thread' = IF generation = seen THEN "mixes" ELSE "refreshes"
  /\ UNCHANGED <<rings, mix, fanout, seen, targets, health>>

\* Bug: the generation is read again after the list was copied.
SeenAfter == generation

SeenBefore == current

\* refresh_targets; the list and the count it was read under.
RefreshTargets ==
  /\ thread = "refreshes" /\ targets' = entries /\ thread' = "notes"
  /\ UNCHANGED <<rings, mix, fanout, seen, current, health>>
NotesGeneration ==
  /\ thread = "notes" /\ seen' = SeenBefore /\ thread' = "mixes"
  /\ UNCHANGED <<rings, mix, fanout, current, targets, health>>

\* Bug: the microphone's backlog is trimmed although the encoder is behind on both.
KeepOwnBacklog == MaxBacklog

\* How much of the microphone's backlog is kept: as much as the encoder is behind.
Keep == MaxBacklog + behind

\* Bug: the first frame is taken as soon as it is there.
ReadyAtOnce(n) == n >= 1

\* The cushion.
Ready(n) == primed \/ n >= Prefill

\* MixReader::take, the sum, and the frame on its way to the targets.
Mixes ==
  /\ thread = "mixes" /\ thread' = "waits"
  /\ LET excess == IF Len(micRing) > Keep THEN Len(micRing) - Keep ELSE 0
         kept  == SubSeq(micRing, excess + 1, Len(micRing))
     IN IF Ready(Len(kept)) /\ kept # <<>>
        THEN /\ primed' = TRUE /\ cushioned' = IF primed THEN cushioned ELSE systemRing = <<>>
             /\ micRing' = Tail(kept)
             /\ mixed' = [system |-> frame, mic |-> Head(kept)]
        ELSE /\ primed' = FALSE /\ cushioned' = FALSE /\ micRing' = kept /\ mixed' = [system |-> frame, mic |-> 0]
  /\ UNCHANGED <<systemAt, micAt, systemRing, overrun, mid, stale, frame, behind, fanout, copy, health>>

----------------------------------------------------------------------------
(* Subscribers, changed by the engine's thread.                            *)

Bump == generation' = generation + 1 /\ changing' = FALSE

\* subscribe, and the drop of a Subscription: the list, then the count.
Subscribe(r) ==
  /\ ~changing /\ subs < MaxSubs /\ subs' = subs + 1 /\ r \notin entries
  /\ entries' = entries \cup {r} /\ changing' = TRUE
  /\ UNCHANGED <<rings, mix, thread, generation, copy, health>>
Unsubscribe(r) ==
  /\ ~changing /\ r \in entries /\ entries' = entries \ {r} /\ changing' = TRUE
  /\ UNCHANGED <<rings, mix, thread, generation, subs, copy, health>>
CountsChange ==
  /\ changing /\ Bump
  /\ UNCHANGED <<rings, mix, thread, entries, subs, copy, health>>

Next ==
  \/ SystemDelivers \/ MicDelivers \/ SystemFails \/ MicFails
  \/ TakesFrame \/ LoadsGeneration \/ RefreshTargets \/ NotesGeneration \/ Mixes
  \/ \E r \in Routes : Subscribe(r) \/ Unsubscribe(r)
  \/ CountsChange

Spec == Init /\ [][Next]_vars

----------------------------------------------------------------------------

TypeOK ==
  /\ systemAt \in 1..MaxFrames /\ micAt \in 1..MaxFrames
  /\ Len(systemRing) <= Ring /\ Len(micRing) <= Ring
  /\ mixed.system \in 0..MaxFrames /\ mixed.mic \in 0..MaxFrames
  /\ thread \in {"waits", "loads", "refreshes", "notes", "mixes"}
  /\ entries \subseteq Routes /\ targets \subseteq Routes
  /\ failed \subseteq {"system", "mic"} /\ subs \in 0..MaxSubs

\* A subscriber is not missed: once the thread has noted the count the engine left, it sends to
\* exactly those who are subscribed, whatever happened between its reads.
SendsToSubscribers == ~changing /\ seen = generation /\ thread = "waits" => targets = entries

\* While both captures work, the voice stays with the system audio it was recorded with,
\* however long the encoder stalls: never early, and late by no more than the cushion and
\* the callbacks' jitter, with the same exception as Continuous (MixReader::take).
InStep ==
  mixed.mic # 0 /\ ~overrun /\ ~stale /\ failed = {} =>
    mixed.system - mixed.mic \in 0..(Prefill + Jitter)

\* As long as no ring overflows and both captures record, the voice has no holes: once the
\* reader has its cushion every frame has a voice, the next one recorded.  (Primed while the
\* encoder is behind, the reader has no cushion: what is queued is not taken off.)  Excepted
\* is a stream in which two frames of voice came while the thread was busy with one: the count
\* it had read of what it is behind was old when it was used (stale).
Continuous ==
  cushioned /\ mixed' # mixed /\ ~overrun /\ ~stale /\ failed = {}
    => mixed'.mic = mixed.mic + 1
Unbroken == [][Continuous]_vars

\* "Its failures are reported like the first capture's: the group closes and the
\* routes stop or reopen": the second capture of a mix does not end unnoticed
\* (Sender::start).
MixFailureReported == "mic" \in failed => reported
=============================================================================
