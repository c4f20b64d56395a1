---------------------------- MODULE ApprovalsProofs ----------------------------
(***************************************************************************)
(* Proofs about Approvals, for any tabs, clients, scopes and approvals.    *)
(* Nothing is used of the keys: the theorems hold whichever coincide.      *)
(***************************************************************************)
EXTENDS Approvals, TLAPS

-----------------------------------------------------------------------------
(* Type correctness. *)

(* The type invariant holds before the first request. *)
LEMMA InitTyped == Init => TypeOK
  BY DEF Init, TypeOK, Nothing, Status

(* Marking keeps the list of approvals one. *)
LEMMA MarkedTyped ==
    ASSUME TypeOK, NEW b \in Tab
    PROVE  Marked(b) \in [Approval -> Status]
  BY DEF Marked, Status

(* A request that goes on to render the page, or ends. *)
LEMMA LeaveTyped ==
    ASSUME TypeOK, NEW b \in Tab, NEW l \in {"render", "idle"}, Leave(b, l)
    PROVE  /\ pc' \in [Tab -> {"idle", "fetch", "put", "delete", "render"}]
           /\ clientId' \in [Tab -> Client \cup {NoClient}]
           /\ checked' \in [Tab -> SUBSET Approval]
           /\ fetched' \in [Tab -> [Approval -> Status]]
           /\ \A d \in Tab : checked'[d] # {} => pc'[d] \in {"fetch", "put"}
<1>1. Nothing \in [Approval -> Status]
  BY DEF Nothing, Status
<1> QED
  BY <1>1 DEF Leave, Goto, TypeOK

(* Every step of a request, and a grant of the UAA, keeps the types. *)
LEMMA NextTyped == TypeOK /\ [Next]_vars => TypeOK'
<1> SUFFICES ASSUME TypeOK, [Next]_vars PROVE TypeOK'
  OBVIOUS
<1>1. ASSUME NEW b \in Tab, Show(b) PROVE TypeOK'
  BY <1>1 DEF Show, Goto, request, TypeOK
<1>2. ASSUME NEW b \in Tab, NEW boxes \in SUBSET Approval, Update(b, boxes)
      PROVE  TypeOK'
  BY <1>2 DEF Update, Goto, TypeOK
<1>3. ASSUME NEW b \in Tab, NEW c \in Client \cup {NoClient}, Delete(b, c)
      PROVE  TypeOK'
  BY <1>3 DEF Delete, Goto, TypeOK
<1>4. ASSUME NEW b \in Tab, Fetch(b) PROVE TypeOK'
  <2>1. UNCHANGED <<approvals, deleted, revoked>>
    BY <1>4 DEF Fetch
  <2>2. CASE Leave(b, "idle")
    BY <2>1, <2>2, LeaveTyped DEF TypeOK
  <2>3. CASE ~Leave(b, "idle")
    BY <1>4, <2>3 DEF Fetch, Goto, TypeOK
  <2> QED
    BY <2>2, <2>3
<1>5. ASSUME NEW b \in Tab, Put(b) PROVE TypeOK'
  <2>1. /\ approvals' \in [Approval -> Status]
        /\ deleted' = deleted /\ revoked' \in SUBSET Approval
    BY <1>5, MarkedTyped DEF Put, TypeOK
  <2>2. PICK l \in {"render", "idle"} : Leave(b, l)
    BY <1>5 DEF Put
  <2> QED
    BY <2>1, <2>2, LeaveTyped DEF TypeOK
<1>6. ASSUME NEW b \in Tab, DeleteApprovals(b) PROVE TypeOK'
  <2>1. /\ approvals' \in [Approval -> Status]
        /\ deleted' \in SUBSET Approval /\ revoked' \in SUBSET Approval
    BY <1>6 DEF DeleteApprovals, TypeOK, Status
  <2>2. PICK l \in {"render", "idle"} : Leave(b, l)
    BY <1>6 DEF DeleteApprovals
  <2> QED
    BY <2>1, <2>2, LeaveTyped DEF TypeOK
<1>7. ASSUME NEW b \in Tab, Render(b) PROVE TypeOK'
  BY <1>7, LeaveTyped DEF Render, TypeOK
<1>8. ASSUME NEW a \in Approval, Grant(a) PROVE TypeOK'
  BY <1>8 DEF Grant, request, TypeOK, Status
<1>9. CASE UNCHANGED vars
  BY <1>9 DEF vars, request, TypeOK
<1> QED
  BY <1>1, <1>2, <1>3, <1>4, <1>5, <1>6, <1>7, <1>8, <1>9 DEF Next

(* TypeOK holds in every reachable state: an update, a delete or a lost    *)
(* reply leaves a whole list of approvals.                                 *)
THEOREM TypeCorrectness == Spec => []TypeOK
  BY InitTyped, NextTyped, PTL DEF Spec

-----------------------------------------------------------------------------
(* The strengthening: no update under way is about to write back what has  *)
(* been deleted, or asks for what has been revoked.                        *)

DeletedIsNotPending == \A a \in deleted : ~Pending(a)

AsksFor(d, a) == pc[d] \in {"fetch", "put"} /\ Checks(d, a)

RevokedIsNotAskedFor == \A a \in revoked, d \in Tab : ~AsksFor(d, a)

DeletedInv == DeletedStaysDeleted /\ DeletedIsNotPending
RevokedInv == RevokedStaysRevoked /\ RevokedIsNotAskedFor
IInv == TypeOK /\ DeletedInv /\ RevokedInv

(* Initially nothing was deleted or revoked. *)
LEMMA InitInvariant == Init => IInv
  BY InitTyped DEF Init, IInv, DeletedInv, DeletedStaysDeleted, DeletedIsNotPending,
                   RevokedInv, RevokedStaysRevoked, RevokedIsNotAskedFor

(* The updates under way after a step are some of those before it. *)
SameUpdates ==
    \A d \in Tab : pc'[d] \in {"fetch", "put"} =>
       /\ pc[d] \in {"fetch", "put"} /\ checked'[d] = checked[d]
       /\ pc'[d] = "put" => pc[d] = "put" /\ fetched'[d] = fetched[d]

(* Such a step makes no approval pending, and asks for none. *)
LEMMA NothingNewAsked ==
    ASSUME SameUpdates, NEW a
    PROVE  /\ ~Pending(a) => ~Pending(a)'
           /\ \A d \in Tab : ~AsksFor(d, a) => ~AsksFor(d, a)'
  BY DEF SameUpdates, Pending, AsksFor, Checks

(* A tab that leaves its update or delete starts no update. *)
LEMMA LeaveUpdates ==
    ASSUME TypeOK, NEW b \in Tab, NEW l \in {"render", "idle"}, Leave(b, l)
    PROVE  SameUpdates /\ pc'[b] = l
  BY DEF Leave, Goto, SameUpdates, TypeOK

(* If a step starts no update, gives no status to what was deleted, and    *)
(* forgets deletions or nothing, the invariants about them stay.           *)
LEMMA QuietStep ==
    ASSUME IInv, TypeOK', SameUpdates,
           deleted' \subseteq deleted, revoked' \subseteq revoked,
           \A a \in deleted' \cup revoked' : approvals'[a] = approvals[a]
    PROVE  IInv'
<1>1. DeletedInv'
  BY NothingNewAsked DEF IInv, DeletedInv, DeletedStaysDeleted, DeletedIsNotPending
<1>2. RevokedInv'
  BY NothingNewAsked DEF IInv, RevokedInv, RevokedStaysRevoked, RevokedIsNotAskedFor
<1> QED
  BY <1>1, <1>2 DEF IInv

(* A new update asks for its boxes, which are not counted as revoked then. *)
LEMMA UpdateInvariant ==
    ASSUME IInv, TypeOK', NEW b \in Tab, NEW boxes \in SUBSET Approval, Update(b, boxes)
    PROVE  IInv'
<1>1. /\ \A d \in Tab \ {b} : pc'[d] = pc[d] /\ checked'[d] = checked[d]
      /\ pc'[b] = "fetch" /\ checked'[b] = boxes
      /\ UNCHANGED <<approvals, fetched, deleted>>
      /\ revoked' = {a \in revoked : \A e \in boxes : Key(e) # Key(a)}
  BY DEF IInv, TypeOK, Update, Goto
<1>2. DeletedInv'
  BY <1>1 DEF IInv, DeletedInv, DeletedStaysDeleted, DeletedIsNotPending, Pending
<1>3. ASSUME NEW a \in revoked', NEW d \in Tab PROVE ~AsksFor(d, a)'
  <2>1. CASE d = b
    BY <1>1, <1>3, <2>1 DEF AsksFor, Checks
  <2>2. CASE d # b
    BY <1>1, <1>3, <2>2 DEF AsksFor, Checks, IInv, RevokedInv, RevokedIsNotAskedFor
  <2> QED
    BY <2>1, <2>2
<1>4. RevokedInv'
  BY <1>1, <1>3 DEF IInv, RevokedInv, RevokedStaysRevoked, RevokedIsNotAskedFor
<1> QED
  BY <1>2, <1>4 DEF IInv

(* An update reads nothing that has been deleted. *)
LEMMA FetchInvariant ==
    ASSUME IInv, TypeOK', NEW b \in Tab, Fetch(b)
    PROVE  IInv'
<1>1. UNCHANGED <<approvals, deleted, revoked>>
  BY DEF Fetch
<1>2. CASE Leave(b, "idle")
  BY <1>1, <1>2, LeaveUpdates, QuietStep DEF IInv
<1>3. CASE ~Leave(b, "idle")
  <2>1. /\ \A d \in Tab \ {b} : pc'[d] = pc[d] /\ fetched'[d] = fetched[d]
        /\ pc[b] = "fetch" /\ pc'[b] = "put" /\ fetched'[b] = approvals
        /\ checked' = checked
    BY <1>3 DEF IInv, TypeOK, Fetch, Goto
  <2>2. DeletedInv'
    BY <1>1, <2>1 DEF IInv, DeletedInv, DeletedStaysDeleted, DeletedIsNotPending, Pending
  <2>3. RevokedInv'
    BY <1>1, <2>1 DEF IInv, RevokedInv, RevokedStaysRevoked, RevokedIsNotAskedFor,
                      AsksFor, Checks
  <2> QED
    BY <2>2, <2>3 DEF IInv
<1> QED
  BY <1>2, <1>3

(* An update writes what it read, approved only where it asks for it; what *)
(* it revokes nobody else is asking for.                                   *)
LEMMA PutInvariant ==
    ASSUME IInv, TypeOK', NEW b \in Tab, Put(b)
    PROVE  IInv'
<1>1. PICK l \in {"render", "idle"} : Leave(b, l)
  BY DEF Put
<1>2. SameUpdates /\ pc'[b] = l /\ pc[b] = "put" /\ UNCHANGED deleted
  BY <1>1, LeaveUpdates DEF IInv, Put
<1>3. CASE UNCHANGED <<approvals, revoked>>
  BY <1>2, <1>3, QuietStep
<1>4. CASE /\ approvals' = Marked(b)
           /\ revoked' = revoked \cup {a \in Approval : /\ ~Checks(b, a)
                                                        /\ ~AskedBeside(b, a)}
  <2>1. ASSUME NEW a \in deleted' PROVE approvals'[a] = "none" /\ ~Pending(a)'
    <3>1. a \in Approval /\ fetched[b][a] = "none" /\ ~Pending(a)
      BY <1>2, <2>1 DEF IInv, TypeOK, DeletedInv, DeletedIsNotPending, Pending
    <3> QED
      BY <1>2, <1>4, <3>1, NothingNewAsked DEF Marked
  <2>2. ASSUME NEW a \in revoked'
        PROVE  approvals'[a] # "APPROVED" /\ \A d \in Tab : ~AsksFor(d, a)'
    <3>1. a \in Approval /\ ~Checks(b, a) /\ \A d \in Tab \ {b} : ~AsksFor(d, a)
      BY <1>2, <1>4, <2>2
         DEF IInv, TypeOK, RevokedInv, RevokedIsNotAskedFor, AsksFor, AskedBeside
    <3>2. Marked(b)[a] # "APPROVED"
      BY <3>1 DEF Marked
    <3>3. ~AsksFor(b, a)'
      BY <1>2 DEF AsksFor
    <3> QED
      BY <1>2, <1>4, <3>1, <3>2, <3>3, NothingNewAsked
  <2> QED
    BY <2>1, <2>2 DEF IInv, DeletedInv, DeletedStaysDeleted, DeletedIsNotPending,
                      RevokedInv, RevokedStaysRevoked, RevokedIsNotAskedFor
<1> QED
  BY <1>3, <1>4 DEF Put

(* A delete counts only what no update under way has read, and as revoked  *)
(* what none asks for.                                                     *)
LEMMA DeleteInvariant ==
    ASSUME IInv, TypeOK', NEW b \in Tab, DeleteApprovals(b)
    PROVE  IInv'
<1> DEFINE gone == {a \in Approval : a[1] = clientId[b]}
<1>1. PICK l \in {"render", "idle"} : Leave(b, l)
  BY DEF DeleteApprovals
<1>2. SameUpdates /\ pc'[b] = l /\ pc[b] = "delete"
  BY <1>1, LeaveUpdates DEF IInv, DeleteApprovals
<1>3. CASE UNCHANGED <<approvals, deleted, revoked>>
  BY <1>2, <1>3, QuietStep
<1>4. CASE /\ approvals' = [a \in Approval |-> IF a \in gone THEN "none" ELSE approvals[a]]
           /\ deleted' = deleted \cup {a \in gone : ~Pending(a)}
           /\ revoked' = revoked \cup {a \in gone : ~AskedBeside(b, a)}
  <2>1. ASSUME NEW a \in deleted' PROVE approvals'[a] = "none" /\ ~Pending(a)'
    <3>1. a \in Approval /\ ~Pending(a)
      BY <1>4, <2>1 DEF IInv, TypeOK, DeletedInv, DeletedIsNotPending
    <3>2. a \in gone \/ approvals[a] = "none"
      BY <1>4, <2>1 DEF IInv, DeletedInv, DeletedStaysDeleted
    <3> QED
      BY <1>2, <1>4, <3>1, <3>2, NothingNewAsked
  <2>2. ASSUME NEW a \in revoked'
        PROVE  approvals'[a] # "APPROVED" /\ \A d \in Tab : ~AsksFor(d, a)'
    <3>1. a \in Approval /\ \A d \in Tab : ~AsksFor(d, a)
      BY <1>2, <1>4, <2>2
         DEF IInv, TypeOK, RevokedInv, RevokedIsNotAskedFor, AsksFor, AskedBeside
    <3>2. a \in gone \/ approvals[a] # "APPROVED"
      BY <1>4, <2>2 DEF IInv, RevokedInv, RevokedStaysRevoked
    <3> QED
      BY <1>2, <1>4, <3>1, <3>2, NothingNewAsked
  <2> QED
    BY <2>1, <2>2 DEF IInv, DeletedInv, DeletedStaysDeleted, DeletedIsNotPending,
                      RevokedInv, RevokedStaysRevoked, RevokedIsNotAskedFor
<1> QED
  BY <1>3, <1>4 DEF DeleteApprovals

(* Every step keeps the strengthening. *)
LEMMA NextInvariant == IInv /\ [Next]_vars => IInv'
<1> SUFFICES ASSUME IInv, [Next]_vars PROVE IInv'
  OBVIOUS
<1>1. TypeOK /\ TypeOK'
  BY NextTyped DEF IInv
<1>2. ASSUME NEW b \in Tab, Show(b) PROVE IInv'
  BY <1>1, <1>2, QuietStep DEF Show, Goto, request, SameUpdates, TypeOK
<1>3. ASSUME NEW b \in Tab, NEW c \in Client \cup {NoClient}, Delete(b, c) PROVE IInv'
  BY <1>1, <1>3, QuietStep DEF Delete, Goto, SameUpdates, TypeOK
<1>4. ASSUME NEW b \in Tab, Render(b) PROVE IInv'
  BY <1>1, <1>4, LeaveUpdates, QuietStep DEF Render
<1>5. ASSUME NEW a \in Approval, Grant(a) PROVE IInv'
  BY <1>1, <1>5, QuietStep DEF Grant, request, SameUpdates, TypeOK
<1>6. CASE UNCHANGED vars
  BY <1>1, <1>6, QuietStep DEF vars, request, SameUpdates
<1> QED
  BY <1>1, <1>2, <1>3, <1>4, <1>5, <1>6, UpdateInvariant, FetchInvariant, PutInvariant,
     DeleteInvariant DEF Next

(* The strengthening is an invariant, however requests overlap. *)
LEMMA Invariance == Spec => []IInv
  BY InitInvariant, NextInvariant, PTL DEF Spec

(* No request of any tab brings back an approval that was deleted,         *)
(* whatever it asks for and whatever overlaps with it, unless it is an     *)
(* update that had read the approval before it was deleted.                *)
THEOREM DeletedApprovalsStayAway == Spec => []DeletedStaysDeleted
<1>1. IInv => DeletedStaysDeleted
  BY DEF IInv, DeletedInv
<1> QED
  BY <1>1, Invariance, PTL

(* No update, however old its reading, brings an approval into force that  *)
(* was denied or deleted since, unless it asks for the approval's key.     *)
THEOREM RevokedApprovalsStayRevoked == Spec => []RevokedStaysRevoked
<1>1. IInv => RevokedStaysRevoked
  BY DEF IInv, RevokedInv
<1> QED
  BY <1>1, Invariance, PTL
=============================================================================
