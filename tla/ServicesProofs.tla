--------------------------- MODULE ServicesProofs ---------------------------
(***************************************************************************)
(* What holds of the microphone and the sound server (PartsProofs) in      *)
(* every behaviour of MCServices, for any values of the constants of       *)
(* MCParts: each part keeps the invariant Inv of its module.               *)
(***************************************************************************)
EXTENDS MCServices, PartsProofs

ServicesInv ==
  /\ part = "microphone" => Microphone!Inv
  /\ part = "shortcuts" => Shortcuts!Inv
  /\ part = "sharing" => Sharing!Inv
  /\ part = "server" => SoundServer!Inv
  /\ part = "virtualMic" => VirtualMic!Inv
  /\ part = "devices" => DeviceEvents!Inv
  /\ part = "os" => OsEvents!Inv
  /\ part = "window" => Shell!Inv

LEMMA ServicesInvInit == ServicesInit => ServicesInv
  BY MicInit, ShortcutsInit, SharingInit, ServerInit, VirtualMicInit,
     DevicesInit, OsInit, WindowInit
  DEF ServicesInit, ServicesInv

\* A behaviour stays one of the same part.
LEMMA ServicesInvNext ==
  ASSUME ServicesInv, [ServicesNext]_<<part, xs>>
  PROVE  ServicesInv'
<1>1. CASE UNCHANGED <<part, xs>>
  <2>1. UNCHANGED <<part, micVars, shortcutVars, sharingVars, serverVars, virtualVars,
                    deviceVars, osVars, windowVars>>
    BY <1>1
    DEF xs, micMuted, route, group, noise, suspended, healthy, monitor, keepMic, idle,
        closed, overruled, turns, slot, error, taken, saved, muted, snap, cmds, last, jobs,
        setter, held, raced, crossed, unmuted, presses, linked, shared, prompts, limit,
        recording, auto, handled, unused, lastPeer, excepted, declined, moves, up, run, mark,
        default, sinks, restore, at, muter, worker, moved, playback, torn, requests,
        failures, pipewire, server, micSinks, sources, marker, dropIn, app, pc, absent,
        listed, tries, want, lapsed, met, ops, faults, sound, watcher, pending, known,
        changes, merging, calls, listings, lists, devices, player, skipped, unseen, passed,
        deviceTurns, restarts, queue, burst, busy, engine, session, waited, stopping, owed, events,
        host, trayed, checked, pub, start, firstWindow, opening, window, page, late, fwd,
        login, grants, missed, lost, micVars, shortcutVars, sharingVars, serverVars,
        virtualVars, deviceVars, osVars, windowVars
  <2> QED BY <2>1, MicStays, ShortcutsStay, SharingStays, ServerStays, VirtualMicStays,
            DevicesStay, OsStays, WindowStays
          DEF ServicesInv
<1>2. CASE ServicesNext
  <2>0. part' = part
    BY <1>2 DEF ServicesNext
  <2>1. part = "microphone" => Microphone!Inv'
    <3>1. part = "microphone" => Microphone!Next
      BY <1>2 DEF ServicesNext
    <3> QED BY <3>1, MicNext DEF ServicesInv
  <2>2. part = "shortcuts" => Shortcuts!Inv'
    <3>1. part = "shortcuts" => Shortcuts!Next
      BY <1>2 DEF ServicesNext
    <3> QED BY <3>1, ShortcutsNext DEF ServicesInv
  <2>3. part = "sharing" => Sharing!Inv'
    <3>1. part = "sharing" => Sharing!Next
      BY <1>2 DEF ServicesNext
    <3> QED BY <3>1, SharingNext DEF ServicesInv
  <2>4. part = "server" => SoundServer!Inv'
    <3>1. part = "server" => SoundServer!Next
      BY <1>2 DEF ServicesNext
    <3> QED BY <3>1, ServerNext DEF ServicesInv
  <2>5. part = "virtualMic" => VirtualMic!Inv'
    <3>1. part = "virtualMic" => VirtualMic!Next
      BY <1>2 DEF ServicesNext
    <3> QED BY <3>1, VirtualMicNext DEF ServicesInv
  <2>6. part = "devices" => DeviceEvents!Inv'
    <3>1. part = "devices" => DeviceEvents!Next
      BY <1>2 DEF ServicesNext
    <3> QED BY <3>1, DevicesNext DEF ServicesInv
  <2>7. part = "os" => OsEvents!Inv'
    <3>1. part = "os" => OsEvents!Next
      BY <1>2 DEF ServicesNext
    <3> QED BY <3>1, OsNext DEF ServicesInv
  <2>8. part = "window" => Shell!Inv'
    <3>1. part = "window" => Shell!Next
      BY <1>2 DEF ServicesNext
    <3> QED BY <3>1, WindowNext DEF ServicesInv
  <2> QED BY <2>0, <2>1, <2>2, <2>3, <2>4, <2>5, <2>6, <2>7, <2>8 DEF ServicesInv
<1> QED BY <1>1, <1>2

\* The microphone is live only as the user wishes, for any routes, keys, peers and limits:
\* its mute and noise suppression survive every start and failure, push-to-talk and the saved
\* shortcuts hold, and no more devices share it, and no second one feeds the virtual microphone,
\* than allowed, but for routes accepted at a prompt, in use when the limit was lowered, or
\* spared when only one of a device's two feeds was replaced (set_mic_muted,
\* update_mic_groups, forward_state, on_shortcut, check_local_capability,
\* check_virtual_mic_use).
THEOREM MicrophoneAsWished == ServicesSpec => []MicAsWished
<1>1. ServicesInv => MicAsWished
  BY MicWished, ShortcutsWished, SharingWished DEF ServicesInv, MicAsWished
<1>2. ServicesInv /\ [ServicesNext]_<<part, xs>> => ServicesInv'
  BY ServicesInvNext
<1> QED BY ServicesInvInit, <1>1, <1>2, PTL DEF ServicesSpec

\* When no call is under way and the speakers are not muted, nothing of SoundPush's is at the
\* sound server, for any sinks, streams and number of runs that end at any point; and the
\* virtual microphone is there exactly if it was installed, for any number of tries, commands
\* and restarts (unmute_speakers, close, remove_stale, ensure_loaded, restore, uninstall).
THEOREM ServerAsFound == ServicesSpec => []LeftAsFound
<1>1. ServicesInv => LeftAsFound
  BY ServerLeft, VirtualMicLeft DEF ServicesInv, LeftAsFound
<1>2. ServicesInv /\ [ServicesNext]_<<part, xs>> => ServicesInv'
  BY ServicesInvNext
<1> QED BY ServicesInvInit, <1>1, <1>2, PTL DEF ServicesSpec

\* The shell follows the engine, the engine the devices and the operating system, for any number
\* of snapshots, changes of devices, restarts of the sound server, bursts and events: the window
\* on screen shows the last snapshot and theme, SoundPush starts at sign-in as set and can be
\* reached, routes play on the default device, and the engine hears of the system's events in
\* time, and has stopped or was given the whole time-out of its shutdown before the session
\* ends, unless it starts after the end of the session was answered (forward_state,
\* sync_autostart, close_main_window, on_audio_devices_changed, dispatch).
THEOREM ShellAlwaysFollows == ServicesSpec => []ShellFollows
<1>1. ServicesInv => ShellFollows
  BY DevicesFollow, OsTold, WindowFollows DEF ServicesInv, ShellFollows
<1>2. ServicesInv /\ [ServicesNext]_<<part, xs>> => ServicesInv'
  BY ServicesInvNext
<1> QED BY ServicesInvInit, <1>1, <1>2, PTL DEF ServicesSpec
=============================================================================
