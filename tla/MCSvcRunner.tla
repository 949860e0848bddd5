---------------------------- MODULE MCSvcRunner ----------------------------
(* SvcRunner for TLC: a backend that is renamed once, in either direction, *)
(* and the control loop as the caller of the runner.                       *)
EXTENDS SvcRunner
=============================================================================
