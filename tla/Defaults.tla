------------------------------ MODULE Defaults ------------------------------
(***************************************************************************)
(* "Make SoundPush the default input and output while active" (the         *)
(* desktop's default_devices.rs and main.rs).  The computer's default      *)
(* devices are replaced while a route runs and put back after it.  What    *)
(* was replaced is kept in memory and in a file, from which the start      *)
(* after a crash puts it back.                                             *)
(*                                                                         *)
(* Each change of what is wanted is a job of the blocking pool.  Jobs take *)
(* a lock, in no particular order, and hold it for their four steps.       *)
(***************************************************************************)
EXTENDS Naturals, FiniteSets

CONSTANTS
  UserDevices,  \* the devices a user may have made the default
  MaxChanges,   \* bound on changes of what is wanted
  MaxPicks,     \* bound on changes of a default by the user
  MaxFailures,  \* bound on calls of the operating system that fail
  MaxEnds       \* bound on exits and crashes

Kinds == {"input", "output"}
Own == "own"       \* the virtual device
None == "none"
Nothing == [k \in Kinds |-> None]

VARIABLES
  stage,     \* starting, running, exiting or down
  os,        \* os[k]: the default device of the operating system
  previous,  \* previous[k]: what SoundPush replaced
  note,      \* the same in the file, Nothing if there is none
  wanted,    \* wanted[k]: last_defaults asks for SoundPush's device
  jobs,      \* calls of apply that wait for the lock
  job,       \* the one that holds it, and its next step
  newest,    \* the number of the newest call
  applied,   \* history: the number of the last one that took the lock
  failed,    \* history: k whose device could not be set back
  torn,      \* history: k that a crash left replaced without a note
  picks, failures, ends

vars == <<stage, os, previous, note, wanted, jobs, job, newest, applied,
          failed, torn, picks, failures, ends>>

Steps == {"input", "output", "write", "free"}
Job == [n: 0 .. MaxChanges, want: [Kinds -> BOOLEAN], step: Steps]
NotWanted == [k \in Kinds |-> FALSE]
Free == [n |-> 0, want |-> NotWanted, step |-> "free"]

Begin(n, want) == [n |-> n, want |-> want, step |-> "input"]

----------------------------------------------------------------------------

Init ==
  /\ stage = "running" /\ os \in [Kinds -> UserDevices]
  /\ previous = Nothing /\ note = Nothing
  /\ wanted = NotWanted /\ jobs = {} /\ job = Free
  /\ newest = 0 /\ applied = 0
  /\ failed = {} /\ torn = {} /\ picks = 0 /\ failures = 0 /\ ends = 0

\* forward_state: another answer of wanted_defaults is a job.
Want(w) ==
  /\ stage \in {"running", "exiting"} /\ newest < MaxChanges
  /\ w # wanted
  /\ wanted' = w /\ newest' = newest + 1
  /\ jobs' = jobs \cup {Begin(newest + 1, w)}
  /\ UNCHANGED <<stage, os, previous, note, job, applied, failed, torn,
                 picks, failures, ends>>

\* The user chooses another default device.
UserPicks(k, d) ==
  /\ picks < MaxPicks /\ picks' = picks + 1
  /\ d # os[k] /\ os' = [os EXCEPT ![k] = d]
  /\ UNCHANGED <<stage, previous, note, wanted, jobs, job, newest, applied,
                 failed, torn, failures, ends>>

\* apply gets the lock.
Take(j) ==
  /\ stage \in {"running", "exiting"} /\ job = Free
  /\ j \in jobs
  /\ jobs' = jobs \ {j} /\ job' = j /\ applied' = j.n
  /\ UNCHANGED <<stage, os, previous, note, wanted, newest, failed, torn,
                 picks, failures, ends>>

\* "Only the first change is remembered."
Remembered(k) == IF previous[k] = None THEN os[k] ELSE previous[k]

\* take_over: sys::find and sys::set may fail, and nothing is done.
TakeOver(k) ==
  \/ /\ os[k] # Own
     /\ os' = [os EXCEPT ![k] = Own]
     /\ previous' = [previous EXCEPT ![k] = Remembered(k)]
     /\ UNCHANGED <<failed, failures>>
  \/ /\ os[k] = Own
     /\ UNCHANGED <<os, previous, failed, failures>>
  \/ /\ failures < MaxFailures /\ failures' = failures + 1
     /\ UNCHANGED <<os, previous, failed>>

\* give_back: forgotten also if the device cannot be set.
GiveBack(k) ==
  \/ /\ previous[k] # None
     /\ os' = [os EXCEPT ![k] = previous[k]]
     /\ previous' = [previous EXCEPT ![k] = None]
     /\ UNCHANGED <<failed, failures>>
  \/ /\ previous[k] = None
     /\ UNCHANGED <<os, previous, failed, failures>>
  \/ /\ previous[k] # None
     /\ failures < MaxFailures /\ failures' = failures + 1
     /\ failed' = failed \cup {k}
     /\ previous' = [previous EXCEPT ![k] = None]
     /\ UNCHANGED os

\* One direction of apply or restore.
Switch(k) ==
  /\ job.step = k
  /\ IF job.want[k] THEN TakeOver(k) ELSE GiveBack(k)
  /\ job' = [job EXCEPT !.step = IF k = "input" THEN "output" ELSE "write"]
  /\ UNCHANGED <<stage, note, wanted, jobs, newest, applied, torn, picks,
                 ends>>

\* Bug: a file that is there is left as it is.
NotedOnce == IF note = Nothing \/ previous = Nothing THEN previous ELSE note

\* write_marker
Noted == previous

WriteMarker ==
  /\ job.step = "write"
  /\ note' = Noted
  /\ job' = Free
  /\ stage' = IF stage = "starting" THEN "running" ELSE stage
  /\ UNCHANGED <<os, previous, wanted, jobs, newest, applied, failed, torn,
                 picks, failures, ends>>

\* RunEvent::Exit: restore, which waits for the lock like the others.
Exit ==
  /\ stage = "running" /\ job = Free
  /\ stage' = "exiting" /\ job' = Begin(0, NotWanted)
  /\ UNCHANGED <<os, previous, note, wanted, jobs, newest, applied, failed,
                 torn, picks, failures, ends>>

\* The process ends: behind restore, or at any moment.
End ==
  /\ stage # "down" /\ ends < MaxEnds
  /\ stage' = "down" /\ ends' = ends + 1
  /\ previous' = Nothing /\ wanted' = NotWanted
  /\ jobs' = {} /\ job' = Free /\ applied' = newest
  /\ torn' = {k \in Kinds : os[k] = Own /\ note[k] = None}
  /\ UNCHANGED <<os, note, newest, failed, picks, failures>>

\* Bug: the start does not read the file.
LeftUnread == Nothing

\* The content of the file.
Left == note

\* DefaultDevices::new
Start ==
  /\ stage = "down"
  /\ previous' = Left
  /\ IF Left = Nothing THEN stage' = "running" /\ UNCHANGED job
     ELSE stage' = "starting" /\ job' = Begin(0, NotWanted)
  /\ UNCHANGED <<os, note, wanted, jobs, newest, applied, failed, torn,
                 picks, failures, ends>>

Next ==
  \/ \E w \in [Kinds -> BOOLEAN] : Want(w)
  \/ \E k \in Kinds, d \in UserDevices : UserPicks(k, d)
  \/ \E j \in jobs : Take(j)
  \/ \E k \in Kinds : Switch(k)
  \/ WriteMarker
  \/ Exit
  \/ End
  \/ Start

Spec == Init /\ [][Next]_vars

----------------------------------------------------------------------------
(* Properties.                                                             *)

\* The types of the variables.
TypeOK ==
  /\ stage \in {"starting", "running", "exiting", "down"}
  /\ os \in [Kinds -> UserDevices \cup {Own}]
  /\ previous \in [Kinds -> UserDevices \cup {None}]
  /\ note \in [Kinds -> UserDevices \cup {None}]
  /\ wanted \in [Kinds -> BOOLEAN]
  /\ jobs \subseteq Job /\ job \in Job
  /\ newest \in 0 .. MaxChanges /\ applied \in 0 .. MaxChanges
  /\ failed \subseteq Kinds /\ torn \subseteq Kinds
  /\ picks \in 0 .. MaxPicks /\ failures \in 0 .. MaxFailures
  /\ ends \in 0 .. MaxEnds

\* "What was default before is put back when the last route stops", or by the
\* start that follows a crash: SoundPush's device stays the default only while
\* it is wanted, once the newest job was also the last one.  (A call that
\* failed, and a crash between the switch and the file, are not made good.)
PutBack ==
  stage = "running" /\ job = Free /\ jobs = {} /\ applied = newest =>
    \A k \in Kinds \ (failed \cup torn) : os[k] = Own => wanted[k]

\* A crash can be undone: while nothing is being changed, the file names what
\* each replaced default was before.
Recoverable ==
  job = Free =>
    \A k \in Kinds \ (failed \cup torn) : os[k] = Own => note[k] # None
=============================================================================
