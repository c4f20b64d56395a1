------------------------------ MODULE MCAutologin ------------------------------
(* Autologin on a small instance. *)
EXTENDS Autologin, TLC

(* Threads, Authentications, codes and people are interchangeable. *)
Symmetry == Permutations(Thread) \cup Permutations(User)
                \cup Permutations(Code) \cup Permutations(Person)
=============================================================================
