------------------------------ MODULE Approvals ------------------------------
(***************************************************************************)
(* ProfileController: what a POST to /profile does to the approvals that   *)
(* the UAA holds for applications.  An update reads all approvals, marks   *)
(* each one, and writes all of them back; a delete removes those of one    *)
(* client.  Requests of the user may overlap, as those of several browser  *)
(* tabs, while the UAA grants new approvals in authorization flows.        *)
(*                                                                         *)
(* Nothing ties the parameters of a request to a page that was shown: it   *)
(* may name any approvals and any client.                                  *)
(***************************************************************************)
EXTENDS Sequences

CONSTANTS
    Tab,        \* the browser tabs, each with one request at a time
    Client,     \* the ids of the applications and ...
    Scope,      \* ... the scopes; a name is the sequence of its parts,
                \* which hyphens separate
    Approval    \* the approvals there may be: pairs of a client and a scope

NoClient == <<>>   \* the parameter clientId is missing

ASSUME ApprovalsAssumption == Approval \subseteq Client \X Scope /\ NoClient \notin Client

VARIABLES
    approvals,  \* UAA: the status of each approval of the user
    pc,         \* the remote call the request of each tab is about to make
    clientId,   \* the parameter clientId of its delete
    checked,    \* the approvals that its checkedScopes were made from
    fetched,    \* the approvals its update has read
    deleted,    \* history: approvals deleted behind no update, nor granted since
    revoked     \* history: approvals that a request has put out of force, that
                \* nobody was asking for then, nor has asked for or granted since

request == <<clientId, checked, fetched>>
vars == <<approvals, pc, request, deleted, revoked>>

Status == {"none", "APPROVED", "DENIED"}

(* Type invariant: the UAA has a whole list, and a request its parameters. *)
TypeOK ==
    /\ approvals \in [Approval -> Status]
    /\ pc \in [Tab -> {"idle", "fetch", "put", "delete", "render"}]
    /\ clientId \in [Tab -> Client \cup {NoClient}]
    /\ checked \in [Tab -> SUBSET Approval]
    /\ fetched \in [Tab -> [Approval -> Status]]
    /\ deleted \in SUBSET Approval
    /\ revoked \in SUBSET Approval
    /\ \A b \in Tab : checked[b] # {} => pc[b] \in {"fetch", "put"}

Nothing == [a \in Approval |-> "none"]

Init ==
    /\ approvals = Nothing
    /\ pc = [b \in Tab |-> "idle"]
    /\ clientId = [b \in Tab |-> NoClient]
    /\ checked = [b \in Tab |-> {}]
    /\ fetched = [b \in Tab |-> Nothing]
    /\ deleted = {}
    /\ revoked = {}

Goto(b, l) == pc' = [pc EXCEPT ![b] = l]

(* post goes on to render the page, or ends; it needs its parameters and   *)
(* locals no more.                                                         *)
Leave(b, l) ==
    /\ Goto(b, l)
    /\ clientId' = [clientId EXCEPT ![b] = NoClient]
    /\ checked' = [checked EXCEPT ![b] = {}]
    /\ fetched' = [fetched EXCEPT ![b] = Nothing]

(* clientId + "-" + scope: the parts of both names, one after the other,   *)
(* from which nobody can tell where the client ends.                       *)
Key(a) == a[1] \o a[2]

(* checkedScopes contains the key of approval a. *)
Checks(b, a) == \E e \in checked[b] : Key(e) = Key(a)

-----------------------------------------------------------------------------
(* GET, or a POST with neither update nor delete: the page is rendered. *)
Show(b) ==
    /\ pc[b] = "idle"
    /\ Goto(b, "render")
    /\ UNCHANGED <<approvals, request, deleted, revoked>>

(* A POST with update, and the keys of some approvals as checkedScopes.    *)
Update(b, boxes) ==
    /\ pc[b] = "idle"
    /\ checked' = [checked EXCEPT ![b] = boxes]
    /\ revoked' = {a \in revoked : \A e \in boxes : Key(e) # Key(a)}
    /\ Goto(b, "fetch")
    /\ UNCHANGED <<approvals, clientId, fetched, deleted>>

(* A POST with delete and no update, with or without a clientId. *)
Delete(b, c) ==
    /\ pc[b] = "idle"
    /\ clientId' = [clientId EXCEPT ![b] = c]
    /\ Goto(b, "delete")
    /\ UNCHANGED <<approvals, checked, fetched, deleted, revoked>>

(* getCurrentApprovals in post; the request ends if it throws. *)
Fetch(b) ==
    /\ pc[b] = "fetch"
    /\ \/ /\ fetched' = [fetched EXCEPT ![b] = approvals]
          /\ Goto(b, "put")
          /\ UNCHANGED <<clientId, checked>>
       \/ Leave(b, "idle")
    /\ UNCHANGED <<approvals, deleted, revoked>>

(* Mutant of Marked: the list is made from the parameters as well. *)
MarkedFromForm(b) ==
    [a \in Approval |-> IF Checks(b, a) THEN "APPROVED"
                        ELSE IF fetched[b][a] = "none" THEN "none"
                        ELSE "DENIED"]

(* Mutant of Marked: only the approvals that were checked are put.         *)
MarkedChecked(b) == [a \in {e \in Approval : Checks(b, e)} |-> "APPROVED"]

(* Mutant of Marked: what was not checked keeps the status it had.         *)
MarkedAsRead(b) ==
    [a \in Approval |-> IF fetched[b][a] # "none" /\ Checks(b, a) THEN "APPROVED"
                        ELSE fetched[b][a]]

(* updatedApprovals: every approval that was read, of whatever client. *)
Marked(b) ==
    [a \in Approval |-> IF fetched[b][a] = "none" THEN "none"
                        ELSE IF Checks(b, a) THEN "APPROVED"
                        ELSE "DENIED"]

(* A tab other than b has sent an update that asks for approval a. *)
AskedBeside(b, a) ==
    \E d \in Tab \ {b} : pc[d] \in {"fetch", "put"} /\ Checks(d, a)

(* The PUT replaces the approvals of the user; its reply may be lost.      *)
Put(b) ==
    /\ pc[b] = "put"
    /\ \/ /\ approvals' = Marked(b)
          /\ revoked' = revoked \cup {a \in Approval : /\ ~Checks(b, a)
                                                       /\ ~AskedBeside(b, a)}
          /\ Leave(b, "render") \/ Leave(b, "idle")
       \/ UNCHANGED <<approvals, revoked>> /\ Leave(b, "idle")
    /\ UNCHANGED deleted

(* An update under way has read approval a and will write it back. *)
Pending(a) == \E d \in Tab : pc[d] = "put" /\ fetched[d][a] # "none"

(* deleteApprovalsForClient; its reply may be lost, too.                   *)
DeleteApprovals(b) ==
    /\ pc[b] = "delete"
    /\ LET gone == {a \in Approval : a[1] = clientId[b]} IN
       \/ /\ approvals' = [a \in Approval |-> IF a \in gone THEN "none"
                                              ELSE approvals[a]]
          /\ deleted' = deleted \cup {a \in gone : ~Pending(a)}
          /\ revoked' = revoked \cup {a \in gone : ~AskedBeside(b, a)}
          /\ Leave(b, "render") \/ Leave(b, "idle")
       \/ UNCHANGED <<approvals, deleted, revoked>> /\ Leave(b, "idle")

(* get(model), which may throw: it changes nothing. *)
Render(b) ==
    /\ pc[b] = "render"
    /\ Leave(b, "idle")
    /\ UNCHANGED <<approvals, deleted, revoked>>

(* The user approves an application in an authorization flow of the UAA.   *)
Grant(a) ==
    /\ approvals' = [approvals EXCEPT ![a] = "APPROVED"]
    /\ deleted' = deleted \ {a}
    /\ revoked' = revoked \ {a}
    /\ UNCHANGED <<pc, request>>

Next ==
    \/ \E b \in Tab :
          \/ Show(b) \/ Fetch(b) \/ Put(b) \/ DeleteApprovals(b) \/ Render(b)
          \/ \E boxes \in SUBSET Approval : Update(b, boxes)
          \/ \E c \in Client \cup {NoClient} : Delete(b, c)
    \/ \E a \in Approval : Grant(a)

Spec == Init /\ [][Next]_vars

-----------------------------------------------------------------------------
(* Properties. *)

(* An approval the user has deleted stays away until it is granted again,  *)
(* however the requests of the tabs overlap, and even when an update asks  *)
(* for it: the update only marks what it has read from the UAA.  Excepted  *)
(* is an approval that an update under way had read when it was deleted:   *)
(* the PUT of that update restores it.                                     *)
DeletedStaysDeleted == \A a \in deleted : approvals[a] = "none"

(* An approval that a request has denied or deleted stays out of force     *)
(* until it is granted, or an update asks for its key: updates that read   *)
(* it before it was revoked write it back, but as denied.  Excepted is     *)
(* what another update under way was asking for when it was revoked.       *)
RevokedStaysRevoked == \A a \in revoked : approvals[a] # "APPROVED"

(* "Handle form post for revoking chosen approvals": when an update has    *)
(* been answered, no approval is in force that was not checked in it.      *)
ChosenAreRevoked ==
    [][\A b \in Tab : pc[b] = "put" /\ pc'[b] = "render" =>
          \A a \in Approval \ checked[b] : approvals'[a] # "APPROVED"]_vars
=============================================================================
