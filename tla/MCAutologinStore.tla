--------------------------- MODULE MCAutologinStore ---------------------------
(* AutologinStore on a small instance. *)
EXTENDS AutologinStore, TLC

(* Threads, users and codes are interchangeable. *)
Symmetry == Permutations(Thread) \cup Permutations(User) \cup Permutations(Code)
=============================================================================
