---------------------------- MODULE MCProvisioning ----------------------------
(* Provisioning on a small instance. *)
EXTENDS Provisioning, TLC

(* Threads and users are interchangeable. *)
Symmetry == Permutations(Thread) \cup Permutations(User)
=============================================================================
