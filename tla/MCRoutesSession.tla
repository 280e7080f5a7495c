-------------------------- MODULE MCRoutesSession --------------------------
(***************************************************************************)
(* Two streams within one session, with and without prompts.  A prompt     *)
(* that is open is not withdrawn by a RouteStop, and a refusal that is to  *)
(* be remembered stops nothing that runs, so two of the properties are     *)
(* about devices that never ask.                                           *)
(***************************************************************************)
EXTENDS Routes, TLC

\* The two streams are alike.
FlowSymmetry == Permutations(Flows)

\* With prompts, less of what users and timers do is explored.
FewerWithPrompts == prompted => commands + timeouts < MaxCommands

\* Without prompts a route runs at both devices or at none once nothing is
\* under way (RoutesAgree).
AgreeUnasked == ~prompted => RoutesAgree

\* Without prompts a device that denies the permission runs nothing for the
\* peer (DeniedStopped).
DeniedUnasked == ~prompted => DeniedStopped
=============================================================================
