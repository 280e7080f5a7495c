------------------------------ MODULE MCPairing ------------------------------
(* Instances of Pairing for TLC. *)
EXTENDS Pairing

CONSTANTS a, b

Nobody == {[d \in Devices |-> {}]}

\* b trusts a, which forgot b.
Forgotten == {[d \in Devices |-> IF d = b THEN {a} ELSE {}]}
=============================================================================
