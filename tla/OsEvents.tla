------------------------------ MODULE OsEvents ------------------------------
(***************************************************************************)
(* Network changes, sleep and the end of the session, from the operating   *)
(* system to the engine (os_events.rs): callbacks of the system queue an   *)
(* event, one thread merges a burst of them and then calls the engine.     *)
(* When the session ends that thread stops the engine, and gives it some   *)
(* time to stop; Windows waits, for a longer time, until it is done.       *)
(*                                                                         *)
(* Two ticks without an event are SETTLE, the quiet time that ends a burst. *)
(***************************************************************************)
EXTENDS Naturals, Sequences, FiniteSets, FiniteSetsExt

CONSTANTS
  MaxBurst,  \* MAX_BURST in ticks
  EndWait,   \* how long the window procedure waits for the engine to stop
  Shutdown,  \* how long EngineHandle::shutdown takes at most: its time-out and the pause after it
  Slow,      \* how long reading the network's state may take
  MaxEvents  \* bound on the events

VARIABLES
  q,        \* the channel of events
  burst,    \* the burst being merged: none or one
  busy,     \* ticks spent calling the engine and reading the network's state; 0 when not
  engine,   \* AppState::engine; "stopping" while Command::Shutdown waits for it, "late" when it
            \* started after the end of the session was answered
  session,  \* the session as Windows sees it
  waited,   \* ticks the window procedure has waited
  stopping, \* ticks spent in EngineHandle::shutdown; 0 before
  owed,     \* owed[e]: ticks since the oldest event the engine was not told of; 0 when none
  events

vars == <<q, burst, busy, engine, session, waited, stopping, owed, events>>

\* What the engine is told of; "Suspend" only goes to the log.
Kinds == {"Network", "Resume"}
Late == MaxBurst + Slow + 4

Init ==
  /\ q = <<>> /\ burst = {} /\ busy = 0 /\ engine = "absent" /\ session = "on" /\ waited = 0
  /\ stopping = 0 /\ owed = [k \in Kinds |-> 0] /\ events = 0

\* The engine starts on a thread of its own, and stops when it reaches Command::Shutdown.
EngineStarts ==
  /\ engine = "absent" /\ engine' = IF session \in {"on", "asked"} THEN "up" ELSE "late"
  /\ UNCHANGED <<q, burst, busy, session, waited, stopping, owed, events>>

EngineStops ==
  /\ engine = "stopping" /\ engine' = "stopped"
  /\ UNCHANGED <<q, burst, busy, session, waited, stopping, owed, events>>

\* A callback of the system queues an event.  Only what happens while the engine runs is owed
\* to it: it looks for itself when it starts.
OsCallback(k) ==
  /\ session \in {"on", "asked"} /\ events < MaxEvents /\ events' = events + 1
  /\ q' = Append(q, k)
  /\ owed' = IF k \in Kinds /\ engine = "up" /\ owed[k] = 0 THEN [owed EXCEPT ![k] = 1] ELSE owed
  /\ UNCHANGED <<burst, busy, engine, session, waited, stopping>>

\* netlink, on_ip_change, on_network: an address came or went.
OnNetwork == OsCallback("Network")
\* logind's PrepareForSleep, WM_POWERBROADCAST, on_power.
OnPower == \E k \in {"Suspend", "Resume"} : OsCallback(k)

\* window_proc: WM_ENDSESSION queues the event and waits for its answer.
EndSession ==
  /\ session = "on" /\ session' = "asked" /\ q' = Append(q, "SessionEnding")
  /\ UNCHANGED <<burst, busy, engine, waited, stopping, owed, events>>

\* Windows does not wait for ever.
EndUnanswered ==
  /\ session = "asked" /\ waited >= EndWait /\ session' = "cut"
  /\ UNCHANGED <<q, burst, busy, engine, waited, stopping, owed, events>>

\* Bug: the engine is waited for without a time-out.
GivenUpNever == FALSE

\* recv_timeout in EngineHandle::shutdown ran out, and the pause is over.
GivenUp == stopping > Shutdown

\* The dispatching thread is in EngineHandle::shutdown.
Stopping == stopping > 0 /\ session # "ended"

NewBurst == [seen |-> {}, age |-> 0, gap |-> 0, over |-> FALSE]

\* Bug: a burst goes on for as long as events come.
LastOneNever(b) == FALSE

\* started.elapsed() < MAX_BURST is asked after each event.
LastOne(b) == b.age >= MaxBurst

\* dispatch: one event joins the burst.  SessionEnding stops the engine (end_session); without
\* one it is answered at once.
Take ==
  /\ q # <<>> /\ busy = 0 /\ ~Stopping /\ \A b \in burst : ~b.over /\ b.gap < 2
  /\ q' = Tail(q)
  /\ LET b == IF burst = {} THEN NewBurst ELSE CHOOSE x \in burst : TRUE
     IN burst' = {[b EXCEPT !.seen = @ \cup {Head(q)}, !.gap = 0, !.over = LastOne(b)]}
  /\ \/ Head(q) # "SessionEnding" /\ UNCHANGED <<engine, session, stopping, owed>>
     \/ /\ Head(q) = "SessionEnding" /\ engine = "up"
        /\ engine' = "stopping" /\ stopping' = 1 /\ owed' = [k \in Kinds |-> 0]
        /\ UNCHANGED session
     \/ /\ Head(q) = "SessionEnding" /\ engine # "up"
        /\ session' = (IF session = "asked" THEN "ended" ELSE session)
        /\ UNCHANGED <<engine, stopping, owed>>
  /\ UNCHANGED <<busy, waited, events>>

\* EngineHandle::shutdown returns, whether the engine has stopped or not, and the end of the
\* session is answered.
Answer ==
  /\ Stopping /\ session = "asked" /\ (engine = "stopped" \/ GivenUp)
  /\ session' = "ended" /\ burst' = {[b EXCEPT !.over = LastOne(b)] : b \in burst}
  /\ UNCHANGED <<q, busy, engine, waited, stopping, owed, events>>

\* recv_timeout(SETTLE) ran out, or was not called.
BurstOver(b) == b.over \/ b.gap = 2

\* The burst is over: audio first, then the network; a stopped engine hears nothing, and
\* without one there is nothing to do.
Act ==
  /\ busy = 0 /\ ~Stopping
  /\ \E b \in burst :
       /\ BurstOver(b)
       /\ owed' = IF engine = "up"
                  THEN [k \in Kinds |-> IF k \in b.seen THEN 0 ELSE owed[k]] ELSE owed
       /\ busy' = IF engine # "absent" /\ b.seen \cap Kinds # {} THEN 1 ELSE 0
  /\ burst' = {}
  /\ UNCHANGED <<q, engine, session, waited, stopping, events>>

\* network::status is done.
Acted == /\ busy > 0 /\ busy' = 0
         /\ UNCHANGED <<q, burst, engine, session, waited, stopping, owed, events>>

\* Time passes, but not past a thread that can run or a wait that is over: a tick of silence may
\* be less than SETTLE, and then the burst goes on.
Older(b) == [b EXCEPT !.age = Min({@ + 1, MaxBurst})]

Tick ==
  /\ session # "cut" /\ ~(session = "asked" /\ waited >= EndWait)
  /\ \/ /\ Stopping /\ ~GivenUp /\ stopping' = stopping + 1
        /\ burst' = {Older(b) : b \in burst}
     \/ busy > 0 /\ busy <= Slow /\ UNCHANGED <<burst, stopping>>
     \/ /\ busy = 0 /\ ~Stopping /\ q = <<>> /\ burst # {} /\ \A b \in burst : ~BurstOver(b)
        /\ burst' = {[Older(b) EXCEPT !.gap = @ + 1] : b \in burst} /\ UNCHANGED stopping
  /\ busy' = IF busy > 0 THEN busy + 1 ELSE 0
  /\ waited' = IF session = "asked" THEN waited + 1 ELSE waited
  /\ owed' = [k \in Kinds |-> IF owed[k] = 0 THEN 0 ELSE Min({owed[k] + 1, Late})]
  /\ UNCHANGED <<q, engine, session, events>>

Next ==
  \/ EngineStarts \/ EngineStops \/ EndSession \/ EndUnanswered \/ Take \/ Answer
  \/ Act \/ Acted \/ Tick \/ OnNetwork \/ OnPower

Spec == Init /\ [][Next]_vars

----------------------------------------------------------------------------

TypeOK ==
  /\ q \in Seq(Kinds \cup {"Suspend", "SessionEnding"}) /\ Cardinality(burst) <= 1
  /\ busy \in 0..(Slow + 1) /\ engine \in {"absent", "up", "stopping", "stopped", "late"}
  /\ session \in {"on", "asked", "ended", "cut"} /\ waited \in 0..EndWait
  /\ stopping \in 0..(Shutdown + 1)
  /\ owed \in [Kinds -> 0..Late] /\ events \in 0..MaxEvents

\* The engine learns of every network change and every wake-up in bounded time, even if the
\* events never stop coming: a burst is acted on after MAX_BURST at the latest.
ToldInTime == \A k \in Kinds : owed[k] <= MaxBurst + Slow + 2

\* Windows ends the process only after the engine has stopped (speakers unmuted, peers told) or
\* was given all the time that EngineHandle::shutdown waits: a burst that is being merged, the
\* state of the network being read and that wait itself never take so long that the window
\* procedure gives up first, as long as they fit in its wait together.  An engine that starts
\* only after the answer is not stopped.
StoppedFirst ==
  /\ session # "cut"
  /\ session = "ended" => engine # "up" /\ (engine = "stopping" => GivenUp)
----------------------------------------------------------------------------
(* The inductive invariant.  What the engine is owed is in the queue or in *)
(* the burst, and no older than its place there allows.  The window        *)
(* procedure waits while a call of the engine takes its time and no longer, *)
(* since a burst that the end of the session meets is over or new.         *)

Events == Kinds \cup {"Suspend", "SessionEnding"}
Bursts == [seen: SUBSET Events, age: Nat, gap: Nat, over: BOOLEAN]

Typed ==
  /\ q \in Seq(Events) /\ burst \subseteq Bursts /\ \A a, b \in burst : a = b
  /\ busy \in 0..(Slow + 1) /\ engine \in {"absent", "up", "stopping", "stopped", "late"}
  /\ session \in {"on", "asked", "ended", "cut"} /\ waited \in Nat
  /\ stopping \in 0..(Shutdown + 1) /\ owed \in [Kinds -> Nat] /\ events \in Nat

Queued(e) == \E i \in DOMAIN q : q[i] = e
New(b) == b.age = 0 /\ b.gap = 0 /\ ~b.over

Timed(b) ==
  /\ b.age <= MaxBurst /\ b.gap <= 2
  /\ b.over => b.age = MaxBurst
  /\ b.age = MaxBurst => b.over \/ b.gap >= 1 \/ Stopping

InBurst(k, b) ==
  /\ k \in b.seen
  /\ \/ owed[k] <= Slow + 1 + b.age
     \/ b.age = MaxBurst /\ owed[k] <= Slow + MaxBurst + b.gap
     \/ b.over /\ owed[k] <= Slow + MaxBurst + 2

InQueue(k) ==
  /\ Queued(k)
  /\ busy > 0 => owed[k] <= busy
  /\ busy = 0 => owed[k] <= 1 \/ (owed[k] <= Slow + 1 /\ \A b \in burst : New(b))

Owed(k) == owed[k] > 0 => InQueue(k) \/ \E b \in burst : InBurst(k, b)

Ending ==
  /\ session = "on" =>
       /\ waited = 0 /\ stopping = 0 /\ engine \in {"absent", "up"}
       /\ ~Queued("SessionEnding")
  /\ session = "asked" =>
       \/ /\ stopping = 0 /\ Queued("SessionEnding") /\ engine \in {"absent", "up"}
          /\ busy > 0 => waited < busy
          /\ busy = 0 => waited <= Slow /\ (waited > 0 => \A b \in burst : New(b))
       \/ /\ stopping > 0 /\ busy = 0 /\ waited < Slow + stopping
          /\ engine \in {"stopping", "stopped"}
  /\ session = "ended" => engine # "up" /\ (engine = "stopping" => GivenUp)
  /\ session # "cut"

Inv ==
  /\ Typed
  /\ busy > 0 => burst = {}
  /\ \A b \in burst : Timed(b)
  /\ engine # "up" => \A k \in Kinds : owed[k] = 0
  /\ \A k \in Kinds : Owed(k)
  /\ Ending
=============================================================================
