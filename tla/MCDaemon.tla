------------------------------ MODULE MCDaemon ------------------------------
(* Daemon for TLC: the backends k1, k2 and the runner objects r1, r2, r3,  *)
(* of which one more than there are backends lets a deleted runner and its *)
(* successor be at work at the same time.                                  *)
EXTENDS Daemon, TLC

(* Nothing distinguishes one runner object, or one key, from another.      *)
Interchangeable == Permutations(Runners) \cup Permutations(Keys)
=============================================================================
