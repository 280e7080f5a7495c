------------------------------ MODULE LogFiles ------------------------------
(***************************************************************************)
(* The log files (logging.rs): soundpush.log and the older files behind    *)
(* it, rotated on the writer's own thread when the next line would not     *)
(* fit.  Removing, renaming or creating a file may fail, and the process   *)
(* may end between two steps of a rotation; what is written is written.    *)
(***************************************************************************)
EXTENDS Integers, Sequences, SequencesExt, FiniteSetsExt

CONSTANTS
  MaxFiles,    \* LogConfig::max_files, more than one
  MaxBytes,    \* LogConfig::max_bytes; a line is one byte
  MaxWritten,  \* bound on the lines ever written
  MaxFailures  \* bound on failures and ends of the process

VARIABLES
  files,     \* lines of the file of each index; Absent if there is none
  handle,    \* RotatingFile::file: the index it has now, or Nowhere
  cursor,    \* where it writes: at the end of the file, or at a position of its own
  written,   \* RotatingFile::written
  rotating,  \* the step of rotate that is next, "no" if none is
  moving,    \* in "shift", the index of the file that is renamed next
  last,      \* number of the last line
  cut,       \* lines up to this one were given up by something that failed
  holes,     \* rotations that ended with the process, an index left without a file
  astray,    \* the new file could not be created: the handle is at an older file
  failures

vars == <<files, handle, cursor, written, rotating, moving, last, cut, holes, astray,
          failures>>

Indices == 0..MaxFiles - 1
Nul == 0
Absent == <<-1>>
Nowhere == MaxFiles
AtEnd == -1
Lines(f) == IF f = Absent THEN <<>> ELSE f

Init ==
  /\ files = [i \in Indices |-> Absent] /\ handle = Nowhere /\ cursor = AtEnd
  /\ written = 0 /\ rotating = "closed" /\ moving = 0 /\ last = 0 /\ cut = 0
  /\ holes = 0 /\ astray = FALSE /\ failures = 0

Fails == failures < MaxFailures /\ failures' = failures + 1

\* RotatingFile::open: create, append.
Open ==
  /\ rotating = "closed" /\ rotating' = "no" /\ handle' = 0 /\ cursor' = AtEnd
  /\ files' = [files EXCEPT ![0] = Lines(@)] /\ written' = Len(Lines(files[0]))
  /\ astray' = FALSE /\ cut' = IF astray THEN last ELSE cut
  /\ UNCHANGED <<moving, last, holes, failures>>

Full == written > 0 /\ written + 1 > MaxBytes

\* What a write at position p leaves of a file: NULs up to there, if it is shorter.
Placed(f, p, line) ==
  IF p = AtEnd THEN Append(f, line)
  ELSE [n \in 1..p + 1 |-> CASE n = p + 1 -> line
                             [] n \in DOMAIN f -> f[n]
                             [] OTHER -> Nul]

\* write: a line goes to the open file, wherever it is now.
WriteLine ==
  /\ rotating \in {"no", "done"} /\ (rotating = "no" => ~Full) /\ last < MaxWritten
  /\ last' = last + 1 /\ written' = written + 1 /\ rotating' = "no"
  /\ files' = IF handle \in Indices
              THEN [files EXCEPT ![handle] = Placed(@, cursor, last')] ELSE files
  /\ cursor' = IF cursor = AtEnd THEN AtEnd ELSE cursor + 1
  /\ UNCHANGED <<handle, moving, cut, holes, astray, failures>>

\* Bug: the file before the oldest is left out.
FirstMovedLate == MaxFiles - 3

\* The loop goes from the oldest file that is kept to the newest.
FirstMoved == MaxFiles - 2

\* Where the open file is once the file i is removed or written over.
HandleWithout(i) == IF handle = i THEN Nowhere ELSE handle

\* rotate removes the oldest file, if it can.
Rotate ==
  /\ rotating = "no" /\ Full /\ last < MaxWritten
  /\ rotating' = "shift" /\ moving' = FirstMoved
  /\ \/ /\ files' = [files EXCEPT ![MaxFiles - 1] = Absent]
        /\ handle' = HandleWithout(MaxFiles - 1) /\ UNCHANGED failures
     \/ files[MaxFiles - 1] # Absent /\ Fails /\ UNCHANGED <<files, handle>>
  /\ UNCHANGED <<cursor, written, last, cut, holes, astray>>

\* rename the file i to i + 1, over what is there.
Rename(i) ==
  /\ files[i] # Absent
  /\ files' = [files EXCEPT ![i + 1] = files[i], ![i] = Absent]
  /\ handle' = IF handle = i THEN i + 1 ELSE HandleWithout(i + 1)

\* One turn of the loop, which goes on whatever comes of it.
Shift ==
  /\ rotating = "shift" /\ moving > 0 /\ moving' = moving - 1
  /\ \/ Rename(moving) /\ UNCHANGED <<cut, failures>>
     \/ files[moving] = Absent /\ UNCHANGED <<files, handle, cut, failures>>
     \/ /\ files[moving] # Absent /\ Fails
        /\ cut' = Max({cut} \cup ToSet(files[moving]))
        /\ UNCHANGED <<files, handle>>
  /\ UNCHANGED <<cursor, written, rotating, last, holes, astray>>

\* write, when rotate failed: set_len(0), and the handle writes where it did.
StartOver ==
  /\ files' = IF handle \in Indices THEN [files EXCEPT ![handle] = <<>>] ELSE files
  /\ cut' = last /\ written' = 0 /\ rotating' = "done"
  /\ UNCHANGED <<handle, cursor>>

\* rename soundpush.log to soundpush.1.log; the handle goes with it.
Move ==
  /\ rotating = "shift" /\ moving = 0
  /\ \/ /\ Rename(0) /\ rotating' = "create"
        /\ UNCHANGED <<cursor, written, cut, failures>>
     \/ files[0] = Absent /\ StartOver /\ UNCHANGED failures
     \/ Fails /\ StartOver
  /\ UNCHANGED <<moving, last, holes, astray>>

\* create, write, truncate: not append.
Create ==
  /\ rotating = "create"
  /\ \/ /\ files' = [files EXCEPT ![0] = <<>>] /\ handle' = 0 /\ cursor' = 0
        /\ written' = 0 /\ rotating' = "done" /\ UNCHANGED <<cut, astray, failures>>
     \/ Fails /\ StartOver /\ astray' = TRUE
  /\ UNCHANGED <<moving, last, holes>>

\* The process ends.
End ==
  /\ rotating # "closed" /\ Fails /\ rotating' = "closed" /\ handle' = Nowhere
  /\ cursor' = AtEnd /\ written' = 0 /\ moving' = 0
  /\ holes' = IF rotating = "shift" THEN holes + 1 ELSE holes
  /\ UNCHANGED <<files, last, cut, astray>>

Next == Open \/ WriteLine \/ Rotate \/ Shift \/ Move \/ Create \/ End

Spec == Init /\ [][Next]_vars

----------------------------------------------------------------------------
(* Properties.                                                             *)

\* log_files, oldest first, one after the other.
Log == FlattenSeq([j \in 1..MaxFiles |-> Lines(files[MaxFiles - j])])

\* The types of the variables.
TypeOK ==
  /\ handle \in 0..MaxFiles /\ cursor \in -1..MaxWritten /\ written \in 0..MaxWritten
  /\ \A i \in Indices : ToSet(files[i]) \subseteq -1..MaxWritten
  /\ rotating \in {"closed", "no", "shift", "create", "done"} /\ moving \in Indices

\* The files hold the newest lines, in order and without a gap: at least what
\* MaxFiles - 1 full files hold, less one for every rotation that ended with the
\* process, or all lines since something failed: the rotation, or the rename of a
\* file that is written over then.  This says nothing of the time from a new file that
\* could not be created, when lines go to an older one, to the next start (rotate, write).
NewestKept ==
  ~astray =>
    LET least == Min({last - cut, Max({0, (MaxFiles - 1 - holes) * MaxBytes})})
    IN /\ \A j, k \in 1..Len(Log) :
            j < k /\ Log[j] # Nul /\ Log[k] # Nul => Log[j] < Log[k]
       /\ \A n \in last - least + 1..last : n \in ToSet(Log)

\* "Start the current file over rather than grow without bound."  Not so: after a
\* rotation the file is not open to append (rotate), and set_len leaves the position
\* where it was, so that the next line is written behind a hole of NULs.
Bounded == \A i \in Indices : Len(files[i]) <= MaxBytes
=============================================================================
