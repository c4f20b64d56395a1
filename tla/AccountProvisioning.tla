------------------------- MODULE AccountProvisioning -------------------------
(***************************************************************************)
(* What the first login of a user does to the rest of the platform, with   *)
(* no threads and no remote calls: an account is created once, and its     *)
(* organization, domain and space are created in this order by the login   *)
(* that created the account.  When that login gives up nobody goes on.     *)
(***************************************************************************)
EXTENDS Naturals

CONSTANT User

VARIABLES
    level,  \* how far each user is: see Level
    open    \* the users whose first login is still at work

vars == <<level, open>>

(* 0: no account; 1: account; 2: organization; 3: domain; 4: space. *)
Level == 0 .. 4

TypeOK ==
    /\ level \in [User -> Level]
    /\ open \in SUBSET User

Init ==
    /\ level = [u \in User |-> 0]
    /\ open = {}

(* The account of u is created; the login that did it may not learn so.    *)
Create(u) ==
    /\ level[u] = 0
    /\ level' = [level EXCEPT ![u] = 1]
    /\ open' \in {open, open \cup {u}}

(* The next resource of u is created; again the reply may be lost. *)
Advance(u) ==
    /\ u \in open
    /\ level[u] < 4
    /\ level' = [level EXCEPT ![u] = @ + 1]
    /\ open' \in {open, open \ {u}}

(* The first login of u ends, whatever it has achieved. *)
Close(u) ==
    /\ u \in open
    /\ open' = open \ {u}
    /\ UNCHANGED level

Next == \E u \in User : Create(u) \/ Advance(u) \/ Close(u)

Spec == Init /\ [][Next]_vars
=============================================================================
