------------------------------ MODULE Channel ------------------------------
(***************************************************************************)
(* What a connection promises the sessions at its two ends (the control    *)
(* stream of sp-transport's connection.rs): a message is received once and *)
(* in the order of sending; when the connection is lost, what was under    *)
(* way may be lost from some message on, and nothing is sent afterwards.   *)
(***************************************************************************)
EXTENDS Sequences, SequencesExt

CONSTANTS
  Ends,     \* the two ends
  Payloads  \* control messages

VARIABLES
  alive,    \* the network carries the connection
  pending,  \* pending[e]: messages of e under way
  received  \* received[e]: messages of e the other end's session received

vars == <<alive, pending, received>>

Init ==
  /\ alive = TRUE
  /\ pending = [e \in Ends |-> <<>>] /\ received = [e \in Ends |-> <<>>]

Send(e) ==
  /\ alive
  /\ \E m \in Payloads : pending' = [pending EXCEPT ![e] = Append(@, m)]
  /\ UNCHANGED <<alive, received>>

Receive(e) ==
  /\ pending[e] # <<>>
  /\ received' = [received EXCEPT ![e] = Append(@, Head(pending[e]))]
  /\ pending' = [pending EXCEPT ![e] = Tail(@)]
  /\ UNCHANGED alive

\* Each direction keeps what is at the receiving end already.
Lose ==
  /\ alive /\ alive' = FALSE
  /\ DOMAIN pending' = Ends
  /\ \A e \in Ends : IsPrefix(pending'[e], pending[e])
  /\ UNCHANGED received

Next == Lose \/ \E e \in Ends : Send(e) \/ Receive(e)

Spec == Init /\ [][Next]_vars
=============================================================================
