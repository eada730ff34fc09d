---------------------------- MODULE BoundedCalls ----------------------------
(***************************************************************************)
(* Calls of services whose behaviours end only by a bound on the calls     *)
(* made.                                                                   *)
(***************************************************************************)
EXTENDS ServiceCalls

CONSTANT MaxCalls    \* bound: calls made

VARIABLE calls       \* calls made so far

\* A step that begins a call uses up one of them.
Bounded(c) ==
  /\ IsIdle(c) => calls < MaxCalls
  /\ calls' = IF IsIdle(c) THEN calls + 1 ELSE calls
=============================================================================
