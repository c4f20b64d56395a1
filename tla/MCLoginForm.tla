----------------------------- MODULE MCLoginForm -----------------------------
(* LoginForm on a small instance. *)
EXTENDS LoginForm, TLC

(* Hints are interchangeable, and so are the other words. *)
Symmetry == Permutations(Hint) \cup Permutations(Word)
=============================================================================
