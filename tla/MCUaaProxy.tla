------------------------------ MODULE MCUaaProxy ------------------------------
(* UaaProxy on a small instance. *)
EXTENDS UaaProxy, TLC

(* Threads and cookies are interchangeable; the browsers differ. *)
Symmetry == Permutations(Thread) \cup Permutations(Cookie)
=============================================================================
