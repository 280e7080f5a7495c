-------------------------------- MODULE Store --------------------------------
(***************************************************************************)
(* What a device keeps across restarts: its identity, its paired devices   *)
(* (trust.rs) and its settings (settings.rs), sealed with a key from the   *)
(* platform's keystore and replaced by write_atomic (secretbox.rs).  A     *)
(* write may fail, the process may end between any two writes, and the     *)
(* keystore may lose its key.                                              *)
(***************************************************************************)
EXTENDS Naturals, Sequences

CONSTANTS
  Devices,      \* other devices
  MaxTurns,     \* bound on the commands
  MaxFailures,  \* bound on failed writes
  MaxEnds,      \* bound on ends of the process
  MaxKeys       \* keys of the keystore: 1..MaxKeys

VARIABLES
  stage,     \* "off", the stages of spawn, "run"
  key,       \* storage_key of the platform
  identity,  \* identity.bin: the key it is sealed with and the identity (0: no file)
  paired,    \* trust.bin: the key and the devices
  saved,     \* settings.json: devices with a saved route, if it is a document
  self,      \* the identity in memory
  trust,     \* TrustStore::devices
  dirty,     \* TrustStore::dirty
  routes,    \* Settings::saved_routes
  write,     \* writes the handler has still to do
  reset,     \* notices of this start: identityReset, trustStoreRecovered, ...
  decided,   \* what the user decided about each device
  known,     \* the identity of the last run
  lost,      \* what this start no longer has of what the last run had
  failed,    \* a write failed that nothing has written again
  torn,      \* the process ended while files were moved aside
  turns, failures, ends

vars == <<stage, key, identity, paired, saved, self, trust, dirty, routes, write,
          reset, decided, known, lost, failed, torn, turns, failures, ends>>

Stages == {"off", "identity", "create", "trust", "settings", "run"}
Decisions == {"none", "trusted", "blocked"}
Stranger == [sec |-> "none", hint |-> 0]
Empty == [d \in Devices |-> Stranger]
NoFile == [key |-> 0, id |-> 0]
NoTrust == [key |-> 0, devices |-> Empty]
Document(r) == [ok |-> TRUE, routes |-> r]
Garbage == [ok |-> FALSE, routes |-> {}]

Init ==
  /\ stage = "off" /\ key = 1 /\ identity = NoFile /\ paired = NoTrust
  /\ saved = Document({}) /\ self = 0 /\ trust = Empty /\ dirty = FALSE /\ routes = {}
  /\ write = <<>> /\ reset = {} /\ decided = [d \in Devices |-> "none"]
  /\ known = 0 /\ lost = {} /\ failed = {} /\ torn = FALSE
  /\ turns = 0 /\ failures = 0 /\ ends = 0

files == <<identity, paired, saved>>
memory == <<self, trust, dirty, routes>>
history == <<decided, known, lost, failed, torn>>
bounds == <<turns, failures, ends>>

----------------------------------------------------------------------------
(* spawn                                                                   *)

Readable(f) == f.key = key

\* Bug: a new identity looks like a first run.
RecoveredSilently(f) == {f} \ {"identity"}

\* load_or_create_identity and load say whether they moved a file aside.
Recovered(f) == {f}

\* load_or_create_identity: a file that cannot be opened is moved aside.
StartIdentity ==
  /\ stage = "identity"
  /\ IF Readable(identity)
     THEN self' = identity.id /\ stage' = "trust" /\ UNCHANGED <<identity, reset>>
     ELSE /\ identity' = NoFile /\ stage' = "create" /\ UNCHANGED self
          /\ reset' = IF identity = NoFile THEN reset ELSE reset \cup Recovered("identity")
  /\ UNCHANGED <<key, paired, saved, trust, dirty, routes, write, history, bounds>>

\* create_identity; no two are equal.  The engine does not start without one.
StartCreate ==
  /\ stage = "create" /\ stage' = "trust"
  /\ self' = known + 1 /\ identity' = [key |-> key, id |-> known + 1]
  /\ UNCHANGED <<key, paired, saved, trust, dirty, routes, write, reset, history, bounds>>

StartTrust ==
  /\ stage = "trust" /\ stage' = "settings" /\ dirty' = FALSE
  /\ IF Readable(paired) \/ paired = NoTrust
     THEN trust' = paired.devices /\ UNCHANGED <<paired, reset>>
     ELSE trust' = Empty /\ paired' = NoTrust /\ reset' = reset \cup Recovered("trust")
  /\ UNCHANGED <<key, identity, saved, self, routes, write, history, bounds>>

Secure == [d \in Devices |-> trust[d].sec]

\* SettingsStore::load; the notices are shown.
StartSettings ==
  /\ stage = "settings" /\ stage' = "run"
  /\ routes' = saved.routes
  /\ saved' = Document(saved.routes)
  /\ reset' = IF saved.ok THEN reset ELSE reset \cup Recovered("settings")
  /\ known' = self
  /\ lost' = (IF known \in {0, self} THEN {} ELSE {"identity"})
             \cup (IF decided = Secure THEN {} ELSE {"trust"})
  /\ decided' = IF "trust" \in reset \/ torn THEN Secure ELSE decided
  /\ UNCHANGED <<key, identity, paired, self, trust, dirty, write, failed, torn, bounds>>

Start ==
  /\ stage = "off" /\ stage' = "identity" /\ reset' = {}
  /\ UNCHANGED <<key, files, memory, write, history, bounds>>

----------------------------------------------------------------------------
(* Commands: a handler changes the memory and writes, then the next runs.  *)

Idle == stage = "run" /\ write = <<>>
Turn == Idle /\ turns < MaxTurns /\ turns' = turns + 1

\* Bug: a block is kept like a hint.
UpdateLazily == [write |-> <<>>, dirty |-> TRUE]

\* update, upsert: saved at once.
Update == [write |-> <<"trust">>, dirty |-> dirty]

\* sec stands for what must be durable at once: the key, blocked, permissions.
Decide(d, sec) ==
  /\ Turn
  /\ trust' = [trust EXCEPT ![d] = [sec |-> sec, hint |-> @.hint]]
  /\ write' = Update.write /\ dirty' = Update.dirty
  /\ decided' = [decided EXCEPT ![d] = sec]
  /\ UNCHANGED <<stage, key, files, self, routes, reset, known, lost, failed, torn,
                 failures, ends>>

\* complete_pairing: upsert.  A failure to write is told, the device stays in memory.
Pair(d) == trust[d].sec = "none" /\ Decide(d, "trusted")

\* SetBlocked, SetPermission, RenameDevice, SetAutoConnect: update.
Block(d) == trust[d].sec = "trusted" /\ Decide(d, "blocked")
Unblock(d) == trust[d].sec = "blocked" /\ Decide(d, "trusted")

\* ForgetDevice: the settings are written only if they named the device.
Forget(d) ==
  /\ Turn /\ trust[d].sec # "none"
  /\ trust' = [trust EXCEPT ![d] = Stranger]
  /\ routes' = routes \ {d}
  /\ write' = <<"trust">> \o (IF d \in routes THEN <<"settings">> ELSE <<>>)
  /\ decided' = [decided EXCEPT ![d] = "none"]
  /\ UNCHANGED <<stage, key, files, self, dirty, reset, known, lost, failed, torn,
                 failures, ends>>

\* update_hints on a new session.
Hint(d) ==
  /\ Turn /\ trust[d].sec # "none"
  /\ trust' = [trust EXCEPT ![d].hint = 1 - @] /\ dirty' = TRUE
  /\ UNCHANGED <<stage, key, files, self, routes, write, reset, history, failures, ends>>

\* flush_trust: every TRUST_FLUSH_INTERVAL, in the background, at shutdown.
Flush ==
  /\ Idle /\ dirty /\ write' = <<"trust">>
  /\ UNCHANGED <<stage, key, files, memory, reset, history, bounds>>

\* SetRouteKeepRunning
KeepRoute(d) ==
  /\ Turn /\ trust[d].sec = "trusted"
  /\ routes' = IF d \in routes THEN routes \ {d} ELSE routes \cup {d}
  /\ write' = <<"settings">>
  /\ UNCHANGED <<stage, key, files, self, trust, dirty, reset, history, failures, ends>>

Written(f) ==
  IF f = "trust"
  THEN paired' = [key |-> key, devices |-> trust] /\ UNCHANGED saved
  ELSE saved' = Document(routes) /\ UNCHANGED paired

\* write_atomic renames a complete file.
Write ==
  /\ write # <<>> /\ write' = Tail(write) /\ Written(Head(write))
  /\ dirty' = (dirty /\ Head(write) # "trust")
  /\ failed' = failed \ {Head(write)}
  /\ UNCHANGED <<stage, key, identity, self, trust, routes, reset, decided, known, lost,
                 torn, bounds>>

\* Bug: a save counts whether or not it is written.
DirtyCleared == FALSE

\* save leaves dirty alone when it fails.
DirtyKept == dirty

\* The file stays as it was.  Errors of update and remove are ignored.
WriteFails ==
  /\ write # <<>> /\ failures < MaxFailures /\ failures' = failures + 1
  /\ write' = Tail(write)
  /\ dirty' = IF Head(write) = "trust" THEN DirtyKept ELSE dirty
  /\ failed' = IF dirty /\ Head(write) = "trust" /\ \A d \in Devices :
                      trust[d].sec = paired.devices[d].sec
               THEN failed ELSE failed \cup {Head(write)}
  /\ UNCHANGED <<stage, key, files, self, trust, routes, reset, decided, known, lost,
                 torn, turns, ends>>

----------------------------------------------------------------------------
(* The environment.                                                        *)

\* The process ends; a command whose write was not done has no effect.
End ==
  /\ stage # "off" /\ ends < MaxEnds /\ ends' = ends + 1
  /\ stage' = "off" /\ write' = <<>> /\ dirty' = FALSE
  /\ trust' = Empty /\ routes' = {} /\ self' = 0
  /\ decided' = IF write = <<>> /\ "trust" \notin failed THEN decided
                ELSE [d \in Devices |-> paired.devices[d].sec]
  /\ failed' = {}
  /\ torn' = (torn \/ (stage \in {"create", "trust", "settings"} /\ reset # {}))
  /\ UNCHANGED <<key, files, reset, known, lost, turns, failures>>

\* The keystore has another key at the next start.
LoseKey ==
  /\ stage = "off" /\ key < MaxKeys /\ key' = key + 1
  /\ UNCHANGED <<stage, files, memory, write, reset, history, bounds>>

\* A file is damaged while nothing runs.
Damage ==
  /\ stage = "off" /\ failures < MaxFailures /\ failures' = failures + 1
  /\ \/ saved' = Garbage /\ UNCHANGED paired
     \/ paired # NoTrust /\ paired' = [paired EXCEPT !.key = 0] /\ UNCHANGED saved
  /\ UNCHANGED <<stage, key, identity, memory, write, reset, history, turns, ends>>

Next ==
  \/ Start \/ StartIdentity \/ StartCreate \/ StartTrust \/ StartSettings
  \/ \E d \in Devices : \/ Pair(d) \/ Block(d) \/ Unblock(d)
                        \/ Forget(d) \/ Hint(d) \/ KeepRoute(d)
  \/ Flush \/ Write \/ WriteFails \/ End \/ LoseKey \/ Damage

Spec == Init /\ [][Next]_vars

----------------------------------------------------------------------------
(* Properties.                                                             *)

\* The types of the variables.
TypeOK ==
  /\ stage \in Stages /\ key \in 1..MaxKeys /\ identity.key \in 0..MaxKeys
  /\ trust \in [Devices -> [sec : Decisions, hint : 0..1]]
  /\ paired.devices \in [Devices -> [sec : Decisions, hint : 0..1]]
  /\ routes \subseteq Devices /\ saved.routes \subseteq Devices
  /\ failed \subseteq {"trust", "settings"} /\ dirty \in BOOLEAN

\* A decision about a device that was carried out survives ends of the process,
\* later writes and flushes (update, upsert, remove, load).
DecisionsKept ==
  Idle /\ "trust" \notin failed => \A d \in Devices : trust[d].sec = decided[d]

\* What is not marked as unwritten is in the files, unless a write failed that
\* was not repeated (save, flush, save_settings).
Flushed ==
  Idle => /\ dirty \/ "trust" \in failed \/ trust = paired.devices
          /\ "settings" \in failed \/ routes = saved.routes

\* A device that lost its identity or its paired devices says so, unless the
\* process ended before it could (spawn, load_or_create_identity, load).
Told == Idle /\ ~torn => lost \subseteq reset
=============================================================================
