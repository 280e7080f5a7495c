------------------------------ MODULE Reports ------------------------------
(***************************************************************************)
(* Crash reports (crash.rs, crash_dump.rs): a panic writes a report, the   *)
(* crash handler a minidump and then a note that names it, each prunes the *)
(* folder, and the next start tells the user of the reports not yet seen.  *)
(* Threads panic while the handler runs; the process ends at any point.    *)
(***************************************************************************)
EXTENDS Naturals, FiniteSets, FiniteSetsExt

CONSTANTS
  Pids,      \* process ids: small numbers
  Keep,      \* KEEP
  MaxTime,   \* bound on the clock
  MaxWrites, \* bound on the reports
  MaxFailures  \* bound on failed writes of last-seen

VARIABLES
  now,       \* now_secs()
  pid,       \* the running process; 0 for none
  reports,   \* the .txt files: time and process of their name, kind, and the dump named
  dumps,     \* the .dmp files: time and process of their name
  seen,      \* last-seen: the sort key of the newest report told of
  crash,     \* the handler's dump, between writing it and the note
  pruning,   \* a report was written and prune has not run since
  told,      \* reports the user was told of
  twice,     \* ... more than once
  hidden,    \* reports of a second another report of which was told of before
  fresh,     \* reports of this run
  raced,     \* dumps pruned while the handler had not written their note
  unmarked,  \* reports told of by a start that could not write last-seen
  failures,
  writes

vars == <<now, pid, reports, dumps, seen, crash, pruning, told, twice, hidden, fresh, raced,
          unmarked, failures, writes>>
marks == <<unmarked, failures>>

NoCrash == [at |-> 0, dump |-> FALSE]

Init ==
  /\ now = 1 /\ pid = 0 /\ reports = {} /\ dumps = {} /\ seen = 0 /\ crash = NoCrash
  /\ pruning = FALSE /\ told = {} /\ twice = {} /\ hidden = {} /\ fresh = {}
  /\ raced = {} /\ unmarked = {} /\ failures = 0 /\ writes = 0

\* The position of a kind in the order of names: "crash-..." < "panic-...".
KindRank(r) == IF r.kind = "crash" THEN 0 ELSE 1

\* Bug: whole names are compared, so kinds are ordered before times.
OrderByName(r) == KindRank(r) * 100 + r.at * 10 + r.pid

\* order: by time, then by name.
Order(r) == r.at * 100 + KindRank(r) * 10 + r.pid

Stem(r) == [at |-> r.at, pid |-> r.pid]

\* A file of the same name is replaced.
WriteReport(r) ==
  /\ writes < MaxWrites /\ writes' = writes + 1
  /\ reports' = {q \in reports : Order(q) # Order(r)} \cup {r}
  /\ told' = told \ {r} /\ pruning' = TRUE
  /\ fresh' = fresh \cup {r}
  /\ hidden' = IF \E q \in (told \ unmarked) \cup hidden : q.at = r.at THEN hidden \cup {r} ELSE hidden

\* write_report: the panic hook of any thread.
Panic ==
  /\ pid # 0
  /\ WriteReport([at |-> now, kind |-> "panic", pid |-> pid, dump |-> FALSE])
  /\ UNCHANGED <<now, pid, dumps, seen, crash, twice, raced, marks>>

\* on_crash: write_minidump, which may fail, before the note.
CrashDump ==
  /\ pid # 0 /\ crash = NoCrash /\ writes < MaxWrites
  /\ \E ok \in BOOLEAN :
       /\ crash' = [at |-> now, dump |-> ok]
       /\ dumps' = IF ok THEN dumps \cup {[at |-> now, pid |-> pid]} ELSE dumps
  /\ UNCHANGED <<now, pid, reports, seen, pruning, told, twice, hidden, fresh, raced,
                 marks, writes>>

\* write_note
CrashNote ==
  /\ crash # NoCrash /\ crash' = NoCrash
  /\ WriteReport([at |-> crash.at, kind |-> "crash", pid |-> pid, dump |-> crash.dump])
  /\ UNCHANGED <<now, pid, dumps, seen, twice, raced, marks>>

\* Bug: notes of the crash handler are not in the list.
ReportsOfPanics(rs) == {r \in rs : r.kind = "panic"}

Listed(rs) == rs

\* prune: the oldest go with their dumps, then every dump without a report.
Prune ==
  LET Newer(r) == {q \in Listed(reports) : Order(q) > Order(r)}
      kept == {r \in reports : Cardinality(Newer(r)) < Keep}
      left == {d \in dumps : \E r \in Listed(kept) : Stem(r) = d}
  IN /\ pruning /\ pid # 0 /\ pruning' = FALSE
     /\ reports' = kept /\ dumps' = left
     /\ raced' = IF crash.dump THEN raced \cup (dumps \ left) ELSE raced
     /\ UNCHANGED <<now, pid, seen, crash, told, twice, hidden, fresh, marks, writes>>

\* spawn: take_unseen; a failed write of last-seen is ignored, and may leave it empty.
Start(p) ==
  LET unseen == {r \in Listed(reports) : Order(r) > seen}
  IN /\ pid = 0 /\ pid' = p
     /\ told' = told \cup unseen /\ twice' = twice \cup ((told \cap unseen) \ unmarked)
     /\ \/ /\ seen' = IF unseen = {} THEN seen ELSE Max({Order(r) : r \in Listed(reports)})
           /\ unmarked' = unmarked \ unseen /\ UNCHANGED failures
        \/ /\ unseen # {} /\ failures < MaxFailures /\ failures' = failures + 1
           /\ \/ unmarked' = unmarked \cup unseen /\ UNCHANGED seen
              \/ unmarked' = unmarked \cup Listed(reports) /\ seen' = 0
     /\ pruning' = FALSE /\ fresh' = {}
     /\ UNCHANGED <<now, reports, dumps, crash, hidden, raced, writes>>

\* The process ends: after a crash, or otherwise.
End ==
  /\ pid # 0 /\ pid' = 0 /\ crash' = NoCrash
  /\ UNCHANGED <<now, reports, dumps, seen, pruning, told, twice, hidden, fresh, raced, marks, writes>>

Tick ==
  /\ now < MaxTime /\ now' = now + 1
  /\ UNCHANGED <<pid, reports, dumps, seen, crash, pruning, told, twice, hidden, fresh, raced,
                 marks, writes>>

Next ==
  \/ Panic \/ CrashDump \/ CrashNote \/ Prune \/ End \/ Tick
  \/ \E p \in Pids : Start(p)

Spec == Init /\ [][Next]_vars

----------------------------------------------------------------------------
(* Properties.                                                             *)

Names == [at : 1..MaxTime, kind : {"panic", "crash"}, pid : Pids, dump : BOOLEAN]

\* The types of the variables.
TypeOK ==
  /\ now \in 1..MaxTime /\ pid \in Pids \cup {0} /\ reports \subseteq Names
  /\ dumps \subseteq [at : 1..MaxTime, pid : Pids] /\ told \subseteq Names
  /\ pruning \in BOOLEAN /\ unmarked \subseteq Names

\* The user is told of every report at the next start, and once: a report is left out
\* only if another of the same second, with a greater name, was told of before it was
\* written, and told of again only after starts that could not write last-seen
\* (take_unseen, order).
ToldOnce ==
  /\ twice = {}
  /\ pid # 0 => reports \subseteq told \cup hidden \cup fresh

\* A note that names a minidump has it next to it, whatever is pruned, unless a panic
\* of another thread pruned between the dump and its note (prune, on_crash).
DumpsNamed ==
  \A r \in reports : r.dump => Stem(r) \in dumps \cup raced
=============================================================================
