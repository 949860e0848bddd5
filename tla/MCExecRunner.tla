---------------------------- MODULE MCExecRunner ----------------------------
(* ExecRunner for TLC: launches g1, g2, ... and the goroutines that call   *)
(* the runner, the periodicals and, at shutdown, the service manager.      *)
EXTENDS ExecRunner, TLC

(* Nothing distinguishes one launch from another. *)
SlotSymmetry == Permutations(Slots)
=============================================================================
