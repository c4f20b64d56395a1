---------------------------- MODULE CodeLifecycle ----------------------------
(***************************************************************************)
(* What an AutologinCodeStore promises its two callers, with no map, no    *)
(* queue, no clock and no threads.  A ticket is one Authentication handed  *)
(* to storeUser; it becomes available when its code is returned, a getUser *)
(* claims it, and the claim is settled: the ticket is used, or it turns    *)
(* out to have expired.  A ticket nobody uses may be dropped at any time   *)
(* (it expired, or its code was drawn again).                              *)
(***************************************************************************)
EXTENDS FiniteSets

CONSTANTS
    Ticket,     \* the authentications that can be stored
    OneTime     \* BOOLEAN: is a ticket used up by its first use?

VARIABLES
    status,     \* the state of each ticket
    used        \* the tickets whose user has been returned

vars == <<status, used>>

Status == {"fresh", "available", "claimed", "gone"}

TypeOK ==
    /\ status \in [Ticket -> Status]
    /\ used \in SUBSET Ticket

Init ==
    /\ status = [i \in Ticket |-> "fresh"]
    /\ used = {}

Available == {i \in Ticket : status[i] = "available"}

(* Ticket i becomes available and takes the place of at most one other.    *)
Offer(i) ==
    \E lost \in SUBSET (Available \ {i}) :
        /\ \A j, k \in lost : j = k
        /\ status' = [j \in Ticket |-> IF j = i THEN "available"
                                       ELSE IF j \in lost THEN "gone"
                                       ELSE status[j]]

(* storeUser returns the code of ticket i. *)
Issue(i) ==
    /\ status[i] = "fresh"
    /\ Offer(i)
    /\ UNCHANGED used

(* One getUser call gets hold of ticket i: no other call can. *)
Claim(i) ==
    /\ status[i] = "available"
    /\ status' = [status EXCEPT ![i] = "claimed"]
    /\ UNCHANGED used

(* getUser returns the user of ticket i. *)
Use(i) ==
    /\ status[i] = "claimed"
    /\ used' = used \cup {i}
    /\ \/ OneTime /\ status' = [status EXCEPT ![i] = "gone"]
       \/ ~OneTime /\ Offer(i)

(* getUser returns null: ticket i has expired. *)
Reject(i) ==
    /\ status[i] = "claimed"
    /\ status' = [status EXCEPT ![i] = "gone"]
    /\ UNCHANGED used

(* Ticket i is dropped by the store. *)
Drop(i) ==
    /\ status[i] = "available"
    /\ status' = [status EXCEPT ![i] = "gone"]
    /\ UNCHANGED used

Settle(i) == Use(i) \/ Reject(i)

Next == \E i \in Ticket : Issue(i) \/ Claim(i) \/ Settle(i) \/ Drop(i)

Spec == Init /\ [][Next]_vars

(* A getUser call that has claimed a ticket runs on. *)
FairSpec == Spec /\ \A i \in Ticket : WF_vars(Settle(i))

(* A one-time ticket whose user has been returned is gone. *)
UsedIsGone == OneTime => \A i \in used : status[i] = "gone"

(* A ticket that is gone was used, has expired or was dropped: it never    *)
(* becomes available again and no call gets hold of it.                    *)
GoneStaysGone ==
    [][\A i \in Ticket : status[i] = "gone" => status'[i] = "gone"]_vars

(* A claim is settled: no ticket stays in limbo in a getUser call. *)
ClaimsAreSettled ==
    \A i \in Ticket : status[i] = "claimed" ~> status[i] # "claimed"
=============================================================================
