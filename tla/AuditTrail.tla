----------------------------- MODULE AuditTrail -----------------------------
(***************************************************************************)
(* The local audit log (audit.rs): entries in memory, appended to a file   *)
(* of one line per entry that is compacted when it holds twice the limit.  *)
(* A write may fail, or stop half way through a line, and the process may  *)
(* end at any point.  The clock does not go back.                          *)
(***************************************************************************)
EXTENDS Naturals, Sequences, SequencesExt

CONSTANTS
  MaxEntries,   \* MAX_ENTRIES
  Retention,    \* RETENTION_SECS
  MaxTime,      \* bound on the clock
  MaxRecords,   \* bound on the entries ever recorded
  MaxFailures   \* bound on failed writes and ends of the process

VARIABLES
  running,  \* the engine holds an AuditLog
  now,      \* now_unix()
  entries,  \* AuditLog::entries
  file,     \* audit.log, line by line
  half,     \* its last line has no end: a write stopped half way
  lines,    \* AuditLog::lines_on_disk
  removed,  \* clear has removed the file and not recorded LogCleared yet
  next,     \* number of the next entry
  missing,  \* entries the file does not have: not written, or glued to half a line
  cleared,  \* number of the entry of the last clear
  failures

vars == <<running, now, entries, file, half, lines, removed, next, missing, cleared,
          failures>>

Damaged == [n |-> 0, at |-> 0]

Init ==
  /\ running = FALSE /\ now = 0 /\ entries = <<>> /\ file = <<>> /\ half = FALSE
  /\ lines = 0 /\ removed = FALSE /\ next = 1 /\ missing = {} /\ cleared = 0
  /\ failures = 0

\* Not older than RETENTION_SECS at time t.
Recent(e, t) == e.at + Retention >= t

Newest(s) == SubSeq(s, IF Len(s) > MaxEntries THEN Len(s) - MaxEntries + 1 ELSE 1, Len(s))

\* open_with_limit: damaged and old lines are skipped.
Loaded(f) == Newest(SelectSeq(f, LAMBDA l : l # Damaged /\ Recent(l, now)))

Fails == failures < MaxFailures /\ failures' = failures + 1

\* compact: write_atomic replaces the file, or leaves it as it is.
Compact(es, count, add) ==
  \/ /\ file' = es /\ half' = FALSE /\ lines' = Len(es) /\ missing' = {}
     /\ UNCHANGED failures
  \/ Fails /\ lines' = count /\ missing' = missing \cup add /\ UNCHANGED <<file, half>>

Open ==
  /\ ~running /\ running' = TRUE /\ entries' = Loaded(file)
  /\ IF Len(file) = Len(Loaded(file))
     THEN lines' = Len(file) /\ UNCHANGED <<file, half, missing, failures>>
     ELSE Compact(Loaded(file), Len(file), {})
  /\ UNCHANGED <<now, removed, next, cleared>>

\* write_all of a line, to a file of `count' lines: all of it, nothing, or its beginning.
\* A line that follows half a line is part of it.
AppendLine(e, count) ==
  \/ /\ ~half /\ file' = Append(file, e) /\ lines' = count + 1
     /\ UNCHANGED <<half, missing, failures>>
  \/ /\ half /\ half' = FALSE /\ lines' = count + 1 /\ missing' = missing \cup {e.n}
     /\ UNCHANGED <<file, failures>>
  \/ /\ Fails /\ lines' = count /\ missing' = missing \cup {e.n}
     /\ \/ UNCHANGED <<file, half>>
        \/ ~half /\ half' = TRUE /\ file' = Append(file, Damaged)

\* Bug: the file is compacted before the entry is added.
CompactsBefore(es, e) == SelectSeq(es, LAMBDA x : x # e)

Compacts(es, e) == es

\* record: after `es', in a file of `count' lines.
Record(es, count) ==
  LET e == [n |-> next, at |-> now]
      kept == Newest(Append(SelectSeq(es, LAMBDA x : Recent(x, now)), e))
  IN /\ entries' = kept /\ next' = next + 1
     /\ IF count + 1 >= 2 * MaxEntries
        THEN Compact(Compacts(kept, e), count, {e.n})
        ELSE AppendLine(e, count)

Event ==
  /\ running /\ ~removed /\ next <= MaxRecords /\ Record(entries, lines)
  /\ UNCHANGED <<running, now, removed, cleared>>

\* Bug: a file that cannot be removed is taken for removed.
RemovesNothing == file

Removes == <<>>

\* clear removes the file; if that fails, nothing changes.
ClearRemove ==
  /\ running /\ ~removed /\ next <= MaxRecords
  /\ removed' = TRUE /\ file' = Removes /\ half' = FALSE
  /\ UNCHANGED <<running, now, entries, lines, next, missing, cleared, failures>>

\* ... and records LogCleared.
ClearRecord ==
  /\ removed /\ removed' = FALSE /\ cleared' = next
  /\ Record(<<>>, 0)
  /\ UNCHANGED <<running, now>>

\* The process ends, perhaps half way through a line.
End ==
  /\ running /\ Fails /\ running' = FALSE /\ entries' = <<>> /\ lines' = 0
  /\ removed' = FALSE /\ cleared' = IF removed THEN next - 1 ELSE cleared
  /\ \/ UNCHANGED <<file, half>>
     \/ ~half /\ ~removed /\ file' = Append(file, Damaged) /\ half' = TRUE
  /\ UNCHANGED <<now, next, missing>>

Tick ==
  /\ now < MaxTime /\ now' = now + 1
  /\ UNCHANGED <<running, entries, file, half, lines, removed, next, missing, cleared,
                 failures>>

Next == Open \/ Event \/ ClearRemove \/ ClearRecord \/ End \/ Tick

Spec == Init /\ [][Next]_vars

----------------------------------------------------------------------------
(* Properties.                                                             *)

Entry == [n : 1..MaxRecords + 1, at : 0..MaxTime]

\* The types of the variables.
TypeOK ==
  /\ running \in BOOLEAN /\ half \in BOOLEAN /\ removed \in BOOLEAN
  /\ ToSet(entries) \subseteq Entry /\ ToSet(file) \subseteq Entry \cup {Damaged}
  /\ lines \in 0..2 * MaxEntries /\ missing \subseteq 1..MaxRecords + 1

\* A start would find every recent entry this run has, but for those whose write
\* failed, or followed one that failed half way (record, compact, open_with_limit).
Durable ==
  running /\ ~removed =>
    \A e \in ToSet(entries) :
      Recent(e, now) /\ e.n \notin missing => e \in ToSet(Loaded(file))

\* What the user cleared does not come back, whatever fails and however often the
\* log is compacted and opened again (clear, compact).
StaysCleared ==
  /\ \A e \in ToSet(file) \ {Damaged} : e.n >= cleared
  /\ ~removed => \A e \in ToSet(entries) : e.n >= cleared
=============================================================================
