------------------------------- MODULE MCArgv -------------------------------
(* Argv for TLC: all short lines over one character of each kind, and the  *)
(* lines made of all short lists of short arguments.                       *)
EXTENDS Argv
=============================================================================
