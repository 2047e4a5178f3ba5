------------------------------ MODULE MCWorker ------------------------------
(* Small instances of Worker for TLC.                                       *)
EXTENDS Worker, TLC

(* The ids of databases are only compared for equality, and so are the      *)
(* destinations: both may be permuted. Not used with liveness.              *)
Symmetry == Permutations(Databases) \cup Permutations(Destinations)

=============================================================================
