---------------------------- MODULE MCLdapContext ----------------------------
(* LdapContext on a small instance. *)
EXTENDS LdapContext, TLC

(* Threads, emails, entries and passwords are interchangeable. *)
Symmetry ==
    Permutations(Thread) \cup Permutations(User) \cup Permutations(Entry)
        \cup Permutations(Password)
=============================================================================
