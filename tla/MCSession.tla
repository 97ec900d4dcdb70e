----------------------------- MODULE MCSession -----------------------------
(* Sessions on small tables: the slots, the threads and which calls they   *)
(* make come from the configuration.                                       *)
EXTENDS Session, TLC

Symmetry == Permutations(Threads)
=============================================================================
