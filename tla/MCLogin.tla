-------------------------------- MODULE MCLogin --------------------------------
(* Login on a small instance. *)
EXTENDS Login, TLC

(* Threads and passwords are interchangeable. *)
Symmetry == Permutations(Thread) \cup Permutations(Password)
=============================================================================
