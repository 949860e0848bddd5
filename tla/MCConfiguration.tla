-------------------------- MODULE MCConfiguration --------------------------
(* Configuration for TLC: the service, and in one run a -configtest beside *)
(* it; intervals 0, 1 and 2 for invalid, of the file and of the server.    *)
EXTENDS Configuration, TLC

(* Nothing distinguishes one uuid from another.                            *)
IdSymmetry == Permutations(Ids)
=============================================================================
