--------------------------- MODULE MCPeriodicals ---------------------------
(* Periodicals for TLC: the cfg pins k1 and says what may go wrong; a      *)
(* configuration is broken, or its validation may fail, or it is good.     *)
EXTENDS Periodicals, TLC

(* Keys that are not pinned, and values of one kind, are interchangeable.  *)
ValueSymmetry ==
    Permutations(Settings \ Unsupported) \cup Permutations(Templates \ Broken)
=============================================================================
