------------------------------ MODULE Shortcuts ------------------------------
(***************************************************************************)
(* Global shortcuts of the desktop shell (hotkeys.rs, set_hotkey in        *)
(* commands.rs, forward_state in main.rs).  A shortcut is registered first *)
(* and saved afterwards, with a copy of the settings from the last         *)
(* snapshot; forward_state starts a job for every change of the saved      *)
(* shortcuts, and the jobs run on a pool of threads.  Push-to-talk mutes   *)
(* the microphone unless its keys are held.                                *)
(***************************************************************************)
EXTENDS Naturals, Sequences

CONSTANTS
  Keys,      \* key combinations
  NoKey,     \* no shortcut
  MaxTurns   \* bound on the user's actions

Kinds == {"mute", "talk"}

VARIABLES
  slot,     \* slot[k]: the combination registered for k
  error,    \* error[k]: the reason shown next to the setting is set
  taken,    \* combinations other applications own
  saved,    \* the engine's settings: saved[k]
  muted,    \* the engine's mic_muted
  snap,     \* the last snapshot: settings and mic_muted
  cmds,     \* commands on their way to the engine
  last,     \* forward_state's last_hotkeys (NoKeys: none yet)
  jobs,     \* apply jobs not yet run
  setter,   \* set_hotkey between registration and saving, or Nobody
  held,     \* the push-to-talk keys are down
  raced,    \* two jobs existed at once
  crossed,  \* settings were written that another write had replaced meanwhile
  asked,    \* the user unmuted the microphone in another way
  turns

vars == <<slot, error, taken, saved, muted, snap, cmds, last, jobs, setter, held,
          raced, crossed, asked, turns>>

NoKeys == [k \in Kinds |-> NoKey]
Nobody == [kind |-> "nobody", key |-> NoKey]
Other(k) == CHOOSE o \in Kinds : o # k

Mute(b) == [kind |-> "mic", muted |-> b]
Update(s) == [kind |-> "settings", settings |-> s, base |-> snap.settings]

Init ==
  /\ slot = NoKeys /\ error = [k \in Kinds |-> FALSE] /\ taken \in SUBSET Keys
  /\ saved \in {s \in [Kinds -> Keys \cup {NoKey}] :
                  s["mute"] # s["talk"] \/ s = NoKeys}
  /\ muted = FALSE /\ snap = [settings |-> saved, muted |-> FALSE]
  /\ cmds = <<>> /\ last = [first |-> TRUE, keys |-> NoKeys] /\ jobs = <<>>
  /\ setter = Nobody /\ held = FALSE /\ raced = FALSE /\ crossed = FALSE
  /\ asked = FALSE /\ turns = 0

Turn == turns < MaxTurns /\ turns' = turns + 1
Queue(c) == cmds' = cmds \o c

----------------------------------------------------------------------------
(* Registration, under the lock of the slots.                              *)

\* Bug: a new combination for push-to-talk leaves the microphone as it is.
MutesFirst(k, key) ==
  IF k # "talk" THEN <<>>
  ELSE CASE key # NoKey /\ slot[k] = NoKey -> <<Mute(TRUE)>>
         [] key = NoKey /\ slot[k] # NoKey -> <<Mute(FALSE)>>
         [] OTHER -> <<>>

\* With push-to-talk the microphone starts muted; without it it is given back.
Mutes(k, key) ==
  IF k # "talk" THEN <<>>
  ELSE CASE key # NoKey -> <<Mute(TRUE)>>
         [] key = NoKey /\ slot[k] # NoKey -> <<Mute(FALSE)>>
         [] OTHER -> <<>>

Refuses(k, key) == key # NoKey /\ (slot[Other(k)] = key \/ key \in taken)

\* set: nothing changes on an error.  replace keeps a combination that is
\* registered already and sends no mute then.
SetHotkey(k, key) ==
  /\ Turn /\ setter = Nobody /\ Len(cmds) < 2
  /\ IF slot[k] # key /\ Refuses(k, key)
     THEN UNCHANGED <<slot, error, setter, held, cmds, asked>>
     ELSE /\ slot' = [slot EXCEPT ![k] = key]
          /\ error' = [error EXCEPT ![k] = FALSE]
          /\ setter' = [kind |-> k, key |-> key]
          /\ held' = (held /\ (k = "mute" \/ slot[k] = key))
          /\ Queue(IF slot[k] = key /\ key # NoKey THEN <<>> ELSE Mutes(k, key))
          /\ asked' = (asked /\ (k = "mute" \/ slot[k] = key))
  /\ UNCHANGED <<taken, saved, muted, snap, last, jobs, raced, crossed>>

\* The rest of set_hotkey: the settings of the last snapshot with one change.
SaveHotkey ==
  /\ setter # Nobody /\ Len(cmds) < 3
  /\ Queue(<<Update([snap.settings EXCEPT ![setter.kind] = setter.key])>>)
  /\ setter' = Nobody
  /\ UNCHANGED <<slot, error, taken, saved, muted, snap, last, jobs, held, raced,
                 asked, turns, crossed>>

\* apply: mute first, then push-to-talk; a failure keeps what is registered.
Applied(wanted) ==
  LET bad(k) == slot[k] # wanted[k] /\ Refuses(k, wanted[k])
      first == [slot EXCEPT !["mute"] = IF bad("mute") THEN @ ELSE wanted["mute"]]
      clash == /\ first["talk"] # wanted["talk"] /\ wanted["talk"] # NoKey
               /\ first["mute"] = wanted["talk"] \/ wanted["talk"] \in taken
  IN [slot  |-> [first EXCEPT !["talk"] = IF clash THEN @ ELSE wanted["talk"]],
      error |-> [mute |-> IF bad("mute") THEN TRUE
                          ELSE error["mute"] /\ slot["mute"] = wanted["mute"],
                 talk |-> IF clash THEN TRUE
                          ELSE error["talk"] /\ slot["talk"] = wanted["talk"]]]

Without(s, i) == SubSeq(s, 1, i - 1) \o SubSeq(s, i + 1, Len(s))

\* A thread of the pool runs a job; not the oldest first.
RunJob ==
  \E i \in DOMAIN jobs :
    LET a == Applied(jobs[i])
        changed == a.slot["talk"] # slot["talk"]
    IN /\ Len(cmds) < 3
       /\ slot' = a.slot /\ error' = a.error
       /\ jobs' = Without(jobs, i)
       /\ held' = (held /\ ~changed)
       /\ asked' = (asked /\ ~changed)
       /\ Queue(IF changed THEN Mutes("talk", a.slot["talk"]) ELSE <<>>)
       /\ UNCHANGED <<taken, saved, muted, snap, last, setter, raced, turns, crossed>>

----------------------------------------------------------------------------
(* The engine, its snapshots and forward_state.                            *)

\* UpdateSettings, SetMicMuted; the snapshot may come later.
Engine ==
  /\ cmds # <<>> /\ cmds' = Tail(cmds)
  /\ IF Head(cmds).kind = "mic"
     THEN muted' = Head(cmds).muted /\ UNCHANGED <<saved, crossed>>
     ELSE /\ saved' = Head(cmds).settings /\ UNCHANGED muted
          /\ crossed' = (crossed \/ Head(cmds).base # saved)
  /\ UNCHANGED <<slot, error, taken, snap, last, jobs, setter, held, raced, asked,
                 turns>>

Snapshot ==
  /\ snap # [settings |-> saved, muted |-> muted]
  /\ snap' = [settings |-> saved, muted |-> muted]
  /\ UNCHANGED <<slot, error, taken, saved, muted, cmds, last, jobs, setter, held,
                 raced, asked, turns, crossed>>

\* Bug: the first snapshot only tells what is saved.
ForwardsChanges == ~last.first /\ last.keys # snap.settings

Forwards == last.first \/ last.keys # snap.settings

\* forward_state: a job for every change.
Forward ==
  /\ last # [first |-> FALSE, keys |-> snap.settings] /\ Len(jobs) < 2
  /\ jobs' = IF Forwards THEN Append(jobs, snap.settings) ELSE jobs
  /\ last' = [first |-> FALSE, keys |-> snap.settings]
  /\ raced' = (raced \/ Len(jobs') = 2)
  /\ UNCHANGED <<slot, error, taken, saved, muted, snap, cmds, setter, held, asked,
                 turns, crossed>>

----------------------------------------------------------------------------
(* The user.                                                               *)

\* on_shortcut
PressTalk ==
  /\ Turn /\ slot["talk"] # NoKey /\ ~held /\ Len(cmds) < 2
  /\ held' = TRUE /\ asked' = FALSE /\ Queue(<<Mute(FALSE)>>)
  /\ UNCHANGED <<slot, error, taken, saved, muted, snap, last, jobs, setter, raced, crossed>>

ReleaseTalk ==
  /\ held /\ Len(cmds) < 3
  /\ held' = FALSE /\ asked' = FALSE /\ Queue(<<Mute(TRUE)>>)
  /\ UNCHANGED <<slot, error, taken, saved, muted, snap, last, jobs, setter, raced,
                 turns, crossed>>

\* The mute shortcut, the tray's entry and the window toggle what the last
\* snapshot says.
Toggle ==
  /\ Turn /\ Len(cmds) < 2 /\ Queue(<<Mute(~snap.muted)>>)
  /\ asked' = (asked \/ snap.muted)
  /\ UNCHANGED <<slot, error, taken, saved, muted, snap, last, jobs, setter, held,
                 raced, crossed>>

\* Another setting is changed in the window, which sends all of them as they
\* were in the snapshot it shows.
WriteSettings ==
  /\ Turn /\ Len(cmds) < 2 /\ Queue(<<Update(snap.settings)>>)
  /\ UNCHANGED <<slot, error, taken, saved, muted, snap, last, jobs, setter, held,
                 raced, asked, crossed>>

Next ==
  \/ \E k \in Kinds, key \in Keys \cup {NoKey} : SetHotkey(k, key)
  \/ SaveHotkey \/ RunJob \/ Engine \/ Snapshot \/ Forward
  \/ PressTalk \/ ReleaseTalk \/ Toggle \/ WriteSettings

Spec == Init /\ [][Next]_vars

----------------------------------------------------------------------------
(* Properties.                                                             *)

\* The types of the variables; the two shortcuts differ.
TypeOK ==
  /\ slot \in [Kinds -> Keys \cup {NoKey}] /\ saved \in [Kinds -> Keys \cup {NoKey}]
  /\ error \in [Kinds -> BOOLEAN] /\ muted \in BOOLEAN /\ held \in BOOLEAN
  /\ Len(cmds) <= 4 /\ Len(jobs) <= 2
  /\ slot["mute"] = slot["talk"] => slot["mute"] = NoKey

Settled ==
  /\ cmds = <<>> /\ jobs = <<>> /\ setter = Nobody
  /\ snap = [settings |-> saved, muted |-> muted]
  /\ last = [first |-> FALSE, keys |-> saved]

\* When everything has settled, what is saved is registered, or the setting shows
\* why not (set_hotkey, forward_state, apply).  Two jobs at once may run in the
\* wrong order, and a write of stale settings may undo a change no snapshot told.
Registered ==
  Settled /\ ~raced /\ ~crossed => \A k \in Kinds : slot[k] = saved[k] \/ error[k]

\* With push-to-talk the microphone is live only while the keys are held, or if
\* the user unmuted it otherwise (replace, on_shortcut).
LiveWhileHeld ==
  slot["talk"] # NoKey /\ ~held /\ cmds = <<>> /\ ~asked => muted

----------------------------------------------------------------------------
(* The inductive invariant.  Unless a write is going to replace settings it *)
(* did not know (Chain), a shortcut without a job is as it will be saved,  *)
(* or its error is shown, or a change of it is still to be forwarded.      *)

Settings == [Kinds -> Keys \cup {NoKey}]
Commands == [kind: {"mic"}, muted: BOOLEAN]
            \cup [kind: {"settings"}, settings: Settings, base: Settings]

Typed ==
  /\ slot \in Settings /\ saved \in Settings /\ error \in [Kinds -> BOOLEAN]
  /\ muted \in BOOLEAN /\ held \in BOOLEAN /\ asked \in BOOLEAN
  /\ raced \in BOOLEAN /\ crossed \in BOOLEAN
  /\ snap \in [settings: Settings, muted: BOOLEAN]
  /\ cmds \in Seq(Commands) /\ jobs \in Seq(Settings)
  /\ last \in [first: BOOLEAN, keys: Settings]
  /\ setter \in [kind: Kinds \cup {"nobody"}, key: Keys \cup {NoKey}]

\* The microphone is muted, or will be by a command that is under way.
MutesLast ==
  /\ \A j \in DOMAIN cmds : cmds[j] = Mute(FALSE) =>
       \E i \in DOMAIN cmds : i > j /\ cmds[i] = Mute(TRUE)
  /\ muted \/ \E i \in DOMAIN cmds : cmds[i] = Mute(TRUE)

\* Settings s become h[1], h[2], ... by commands c, each of which knows what it
\* replaces.
Chain(h, c, s) ==
  /\ h[0] = s
  /\ \A i \in 1 .. Len(c) :
       IF c[i].kind = "settings"
       THEN c[i].base = h[i - 1] /\ h[i] = c[i].settings
       ELSE h[i] = h[i - 1]

\* What will be saved for shortcut k after settings s.
Promised(s, k) == IF setter.kind = k THEN setter.key ELSE s[k]

InTime(s) ==
  \A k \in Kinds : \/ slot[k] = Promised(s, k) \/ error[k]
                   \/ last.keys[k] # Promised(s, k)

Foreseen ==
  \A h \in [0 .. Len(cmds) -> Settings] :
    Chain(h, cmds, saved) => InTime(h[Len(cmds)])

Inv ==
  /\ Typed
  /\ slot["talk"] # NoKey /\ ~held /\ ~asked => MutesLast
  /\ ~raced => jobs = <<>> \/ jobs = <<last.keys>>
  /\ ~raced /\ ~crossed /\ jobs = <<>> /\ ~last.first => Foreseen
=============================================================================
