------------------------------ MODULE MCAudio ------------------------------
(***************************************************************************)
(* The audio of a device: its pipelines (Pipelines), the profile of a      *)
(* route (Updates), its speakers (Speakers) and its default devices        *)
(* (Defaults).  They share no state, so a behaviour is one of either, and  *)
(* the other three stay in an initial state.                               *)
(***************************************************************************)
EXTENDS Pipelines

CONSTANTS BadSecs, GoodSecs, MaxChanges, Peers, MaxEnds, UserDevices, MaxWants,
          MaxPicks, MaxErrors

\* A user's device is neither SoundPush's own nor the mark of none.
ASSUME DeviceNames == "own" \notin UserDevices /\ "none" \notin UserDevices

\* The bounds are numbers.
ASSUME AudioBounds ==
  {BadSecs, GoodSecs, MaxChanges, MaxEnds, MaxWants, MaxPicks, MaxErrors} \subseteq Nat

VARIABLES
  part,  \* the component the behaviour is one of
  requester, old, settings, status, id, profile, fallback, chan, missed,
  changes,
  running, setting, session, sending, mutedBy, muted, marker, unwritten, stray,
  overruled, torn, ends,
  stage, os, previous, note, wanted, jobs, job, newest, applied, unset, unnoted,
  picks, errors, exits

U == INSTANCE Updates
S == INSTANCE Speakers WITH route <- sending
D == INSTANCE Defaults WITH MaxChanges <- MaxWants, MaxFailures <- MaxErrors,
                            failed <- unset, torn <- unnoted,
                            failures <- errors, ends <- exits

profileVars == <<requester, old, settings, status, id, profile, fallback, chan,
                 missed, changes>>
speakerVars == <<running, setting, session, sending, mutedBy, muted, marker,
                 unwritten, stray, overruled, torn, ends>>
defaultVars == <<stage, os, previous, note, wanted, jobs, job, newest, applied,
                 unset, unnoted, picks, errors, exits>>

InitialDefault == CHOOSE d \in UserDevices : TRUE

AudioInit ==
  /\ part \in {"pipelines", "profile", "speakers", "defaults"}
  /\ Init /\ U!Init /\ S!Init /\ D!Init
  /\ part # "profile" => requester = "source" /\ ~old
  /\ part # "speakers" => ~setting
  /\ part # "defaults" => \A k \in D!Kinds : os[k] = InitialDefault

AudioNext ==
  \/ /\ part = "pipelines" /\ Next
     /\ UNCHANGED <<part, profileVars, speakerVars, defaultVars>>
  \/ /\ part = "profile" /\ U!Next
     /\ UNCHANGED <<part, vars, speakerVars, defaultVars>>
  \/ /\ part = "speakers" /\ S!Next
     /\ UNCHANGED <<part, vars, profileVars, defaultVars>>
  \/ /\ part = "defaults" /\ D!Next
     /\ UNCHANGED <<part, vars, profileVars, speakerVars>>

AudioSpec ==
  /\ AudioInit
  /\ [][AudioNext]_<<part, vars, profileVars, speakerVars, defaultVars>>

\* The variables of all components have their types.
TypesOK == TypeOK /\ U!TypeOK /\ S!TypeOK /\ D!TypeOK

\* A route has the profile its ends asked for: its microphone is denoised exactly
\* once, the receiving device keeps its own buffer bounds, a route its source
\* requested has the quality asked for at both ends, and a fallback does not
\* outlive the wish for lossless (apply_profile, update_mic_groups,
\* on_route_update, reconfigure_route).
ProfileAsAsked ==
  U!DenoisedOnce /\ U!OwnBuffer /\ U!QualityProposed /\ U!FallbackAsked

\* A peer's "Mute PC" keeps the speakers muted, and they are muted only for a peer
\* or a route, also after a crash (stop_route_by_key, fail_route,
\* forget_speaker_mutes, DesktopHooks::new).
MutedForPeers == S!KeptMuted /\ S!MutedForSomeone

\* SoundPush's device is the default only while it is wanted, and the file names
\* what it replaced, whenever the process ends (apply, restore, write_marker,
\* DefaultDevices::new).
DefaultsPutBack == D!PutBack /\ D!Recoverable
=============================================================================
