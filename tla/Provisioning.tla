----------------------------- MODULE Provisioning -----------------------------
(***************************************************************************)
(* RemoteUaaAuthenticationManager.authenticate and the CCHelper calls it   *)
(* makes: a login is verified by LDAP and by the UAA; when the UAA does    *)
(* not know the user, the login creates the account there and the user,    *)
(* organization, domain and space in the Cloud Controller, and tries the   *)
(* UAA again.                                                              *)
(*                                                                         *)
(* Every servlet thread runs authenticate on its own and no lock or        *)
(* transaction spans the calls, so a step of this module is one remote     *)
(* call with the local computation after it.  A call may take effect, take *)
(* effect and have its reply lost, be refused by a status the error        *)
(* handlers let pass (below 500), or fail with an exception.               *)
(***************************************************************************)
EXTENDS Naturals

CONSTANTS
    Thread, \* the servlet threads
    User,   \* the users; jd and jd@rd.netease.com are the same one
    Null

ASSUME ProvisioningAssumption == Null \notin User

VARIABLES
    account,    \* UAA: the account of each user
    resources,  \* Cloud Controller: what exists for each user
    pc,         \* the remote call each thread is about to make
    user,       \* the user each thread is logging in
    created,    \* does the thread hold the id of a user it has created?
    answer,     \* the last status the UAA's /authenticate gave the thread
    outcome     \* how the thread's last login ended

remote == <<account, resources>>
vars == <<remote, pc, user, created, answer, outcome>>

(* An inactive account exists but does not accept the default password. *)
Account == {"none", "active", "inactive"}

Resource == {"ccUser", "org", "domain", "space"}

(* What addUserToOrgAndSpace creates, and what a login needs afterwards. *)
Workplace == {"org", "domain", "space"}

Provisioning == {"ccUser", "org", "domain", "space", "relogin"}
Location == {"idle", "ldap", "uaa", "scim"} \cup Provisioning

(* "failed": an exception, because of a status of 500 or more or of no     *)
(* answer at all; "other": any further status.                             *)
Answer == {"ok", "unauthorized", "other", "failed"}

(* The exceptions authenticate throws, told apart by what they say. *)
Outcome == {"none", "authenticated", "badCredentials", "inactive", "error"}

(* Type invariant, and which locals are set where: a thread has an id only *)
(* after PostUser, and without one it gets no further than CreateOrg.      *)
TypeOK ==
    /\ account \in [User -> Account]
    /\ resources \in [User -> SUBSET Resource]
    /\ pc \in [Thread -> Location]
    /\ user \in [Thread -> User \cup {Null}]
    /\ created \in [Thread -> BOOLEAN]
    /\ answer \in [Thread -> Answer \cup {"none"}]
    /\ outcome \in [Thread -> Outcome]
    /\ \A t \in Thread :
          /\ pc[t] # "idle" \/ created[t] => user[t] # Null
          /\ pc[t] # "idle" => outcome[t] = "none"
          /\ pc[t] \in {"ldap", "uaa", "scim"} => ~created[t]
          /\ pc[t] \in {"domain", "space", "relogin"} => created[t]

Init ==
    /\ account = [u \in User |-> "none"]
    /\ resources = [u \in User |-> {}]
    /\ pc = [t \in Thread |-> "idle"]
    /\ user = [t \in Thread |-> Null]
    /\ created = [t \in Thread |-> FALSE]
    /\ answer = [t \in Thread |-> "none"]
    /\ outcome = [t \in Thread |-> "none"]

Goto(t, l) == pc' = [pc EXCEPT ![t] = l] /\ UNCHANGED outcome

(* authenticate returns or throws. *)
Finish(t, o) ==
    /\ pc' = [pc EXCEPT ![t] = "idle"]
    /\ outcome' = [outcome EXCEPT ![t] = o]

-----------------------------------------------------------------------------
(* The UAA and the Cloud Controller as the calls see them. *)

(* The answers to a POST of u and the default password to /authenticate.   *)
Answers(u) == {"other", "failed",
               IF account[u] = "active" THEN "ok" ELSE "unauthorized"}

(* A POST of a resource that creates it for u; existing ones are refused.  *)
Add(u, r) ==
    /\ r \notin resources[u]
    /\ resources' = [resources EXCEPT ![u] = @ \cup {r}]

-----------------------------------------------------------------------------
(* Mutant of Login: the id of the previous login is kept. *)
LoginAgain(t, u) ==
    /\ pc[t] = "idle"
    /\ user' = [user EXCEPT ![t] = u]
    /\ answer' = [answer EXCEPT ![t] = "none"]
    /\ pc' = [pc EXCEPT ![t] = "ldap"]
    /\ outcome' = [outcome EXCEPT ![t] = "none"]
    /\ UNCHANGED <<remote, created>>

(* The thread enters authenticate; its locals are new. *)
Login(t, u) ==
    /\ pc[t] = "idle"
    /\ user' = [user EXCEPT ![t] = u]
    /\ created' = [created EXCEPT ![t] = FALSE]
    /\ answer' = [answer EXCEPT ![t] = "none"]
    /\ pc' = [pc EXCEPT ![t] = "ldap"]
    /\ outcome' = [outcome EXCEPT ![t] = "none"]
    /\ UNCHANGED remote

(* LdapAuthHelper accepts or refuses; without a context it throws. *)
CheckLdap(t) ==
    /\ pc[t] = "ldap"
    /\ \/ Goto(t, "uaa")
       \/ Finish(t, "badCredentials")
       \/ Finish(t, "error")
    /\ UNCHANGED <<remote, user, created, answer>>

VerifyUaa(t) ==
    /\ pc[t] = "uaa"
    /\ \E a \in Answers(user[t]) :
          /\ answer' = [answer EXCEPT ![t] = a]
          /\ \/ a = "ok" /\ Finish(t, "authenticated")
             \/ a = "unauthorized" /\ Goto(t, "scim")
             \/ a \in {"other", "failed"} /\ Finish(t, "error")
    /\ UNCHANGED <<remote, user, created>>

(* The account is created, and the thread has the id; unless the reply is  *)
(* lost (an exception), or its body is (a NullPointerException after it).  *)
CreateAccount(t) ==
    /\ account[user[t]] = "none"
    /\ account' = [account EXCEPT ![user[t]] = "active"]
    /\ \/ /\ created' = [created EXCEPT ![t] = TRUE]
          /\ Goto(t, "ccUser")
       \/ /\ Finish(t, "inactive") \/ Finish(t, "error")
          /\ UNCHANGED created

(* Mutant of AccountRefused: an existing account is as good as a new one. *)
AccountFound(t) ==
    /\ account[user[t]] # "none"
    /\ created' = [created EXCEPT ![t] = TRUE]
    /\ Goto(t, "ccUser")
    /\ UNCHANGED account

(* Nothing is created.  Any exception is taken for an inactive account; a  *)
(* status below 500 is not noticed, and the body has no id or is missing.  *)
AccountRefused(t) ==
    /\ UNCHANGED <<account, created>>
    /\ \/ Finish(t, "inactive")
       \/ Goto(t, "ccUser")
       \/ Finish(t, "error")

PostUser(t) ==
    /\ pc[t] = "scim"
    /\ CreateAccount(t) \/ AccountRefused(t)
    /\ UNCHANGED <<resources, user, answer>>

(* addCCUser looks at no status: a refused user is as good as a created one.*)
AddCCUser(t) ==
    /\ pc[t] = "ccUser"
    /\ \/ /\ created[t] /\ Add(user[t], "ccUser")
          /\ Goto(t, "org") \/ Finish(t, "error")
       \/ /\ UNCHANGED resources
          /\ Goto(t, "org") \/ Finish(t, "error")
    /\ UNCHANGED <<account, user, created, answer>>

(* Mutant of Create: the returned guid is not tested for null. *)
CreateUntested(t, r, next) ==
    /\ \/ Add(user[t], r) /\ (Goto(t, next) \/ Finish(t, "error"))
       \/ UNCHANGED resources /\ (Goto(t, next) \/ Finish(t, "error"))
    /\ UNCHANGED <<account, user, created, answer>>

(* createOrg, createDomain, createSpace: anything but 201 is the end; and  *)
(* so is a 201 whose body is lost or has no guid.                          *)
Create(t, r, next) ==
    /\ \/ Add(user[t], r) /\ (Goto(t, next) \/ Finish(t, "error"))
       \/ UNCHANGED resources /\ Finish(t, "error")
    /\ UNCHANGED <<account, user, created, answer>>

(* Mutant of CreateOrg: user_guid is not tested for null. *)
CreateOrgUntested(t) == pc[t] = "org" /\ Create(t, "org", "domain")

(* addUserToOrgAndSpace starts by refusing a user without id. *)
CreateOrg(t) ==
    /\ pc[t] = "org"
    /\ \/ created[t] /\ Create(t, "org", "domain")
       \/ /\ ~created[t]
          /\ Finish(t, "error")
          /\ UNCHANGED <<remote, user, created, answer>>

(* Mutant of CreateDomain: the domain after the space. *)
CreateDomainLast(t) ==
    /\ pc[t] = "domain"
    /\ "space" \notin resources[user[t]]
    /\ resources' = [resources EXCEPT ![user[t]] = @ \cup {"space"}]
    /\ Goto(t, "space")
    /\ UNCHANGED <<account, user, created, answer>>

CreateDomain(t) == pc[t] = "domain" /\ Create(t, "domain", "space")

CreateSpace(t) == pc[t] = "space" /\ Create(t, "space", "relogin")

(* A second POST to /authenticate.  The code that reports a failure looks  *)
(* at the FIRST response, which was 401.                                   *)
Relogin(t) ==
    /\ pc[t] = "relogin"
    /\ \E a \in Answers(user[t]) :
          /\ answer' = [answer EXCEPT ![t] = a]
          /\ \/ a = "ok" /\ Finish(t, "authenticated")
             \/ a \in {"unauthorized", "other"} /\ Finish(t, "badCredentials")
             \/ a = "failed" /\ Finish(t, "error")
    /\ UNCHANGED <<remote, user, created>>

(* An administrator of the UAA switches an account off or on. *)
SwitchAccount(u) ==
    /\ \/ account[u] = "active" /\ account' = [account EXCEPT ![u] = "inactive"]
       \/ account[u] = "inactive" /\ account' = [account EXCEPT ![u] = "active"]
    /\ UNCHANGED <<resources, pc, user, created, answer, outcome>>

Step(t) ==
    \/ CheckLdap(t) \/ VerifyUaa(t) \/ PostUser(t) \/ AddCCUser(t)
    \/ CreateOrg(t) \/ CreateDomain(t) \/ CreateSpace(t) \/ Relogin(t)

Next ==
    \/ \E t \in Thread : Step(t) \/ \E u \in User : Login(t, u)
    \/ \E u \in User : SwitchAccount(u)

Spec == Init /\ [][Next]_vars

-----------------------------------------------------------------------------
(* Properties. *)

(* The thread is provisioning u: it created the account and is not done. *)
Provisions(t, u) == user[t] = u /\ created[t] /\ pc[t] \in Provisioning

(* Concurrent first logins of one user: at most one of them provisions the *)
(* user, because the UAA creates the account for one of them only.         *)
OneProvisioner ==
    \A u \in User, s, t \in Thread :
        Provisions(s, u) /\ Provisions(t, u) => s = t

(* A login that created the account and was let in has left the user with  *)
(* an organization, a domain and a space, whatever failed on the way.      *)
FirstLoginIsComplete ==
    \A t \in Thread :
        created[t] /\ outcome[t] = "authenticated"
            => Workplace \subseteq resources[user[t]]

(* A first login that gave up is final: once the account exists and no     *)
(* thread is provisioning the user, nothing is created for the user by any *)
(* later login, although the UAA lets the user in.                         *)
NothingIsRepaired ==
    [][\A u \in User :
          account[u] # "none" /\ (\A t \in Thread : ~Provisions(t, u))
             => resources'[u] = resources[u]]_vars

(* The messages of the second attempt: bad credentials when the UAA said   *)
(* 401, and "Unexpected status code" for what it said otherwise.           *)
RefusalMeansUnauthorized ==
    \A t \in Thread :
        created[t] /\ outcome[t] = "badCredentials" => answer[t] = "unauthorized"

-----------------------------------------------------------------------------
(* How far a user is, in the terms of AccountProvisioning; 5 is nowhere.   *)
LevelOf(u) ==
    LET done == resources[u] \cap Workplace IN
    IF account[u] = "none" /\ done = {} THEN 0
    ELSE IF done = {} THEN 1
    ELSE IF done = {"org"} THEN 2
    ELSE IF done = {"org", "domain"} THEN 3
    ELSE IF done = Workplace THEN 4
    ELSE 5

Abstract == INSTANCE AccountProvisioning
    WITH level <- [u \in User |-> LevelOf(u)],
         open <- {u \in User : \E t \in Thread : Provisions(t, u)}

(* Under all interleavings of logins, lost replies, refusals and failures, *)
(* what exists for a user is a prefix of account, organization, domain and *)
(* space, extended only by the login that created the account.             *)
ImplementsProvisioning == Abstract!Spec
=============================================================================
