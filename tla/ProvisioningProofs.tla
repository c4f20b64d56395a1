-------------------------- MODULE ProvisioningProofs --------------------------
(***************************************************************************)
(* The safety properties of Provisioning for every set of threads and      *)
(* users, and the proof that it implements AccountProvisioning.            *)
(***************************************************************************)
EXTENDS Provisioning, TLAPS

(* The type invariant holds initially. *)
LEMMA InitTypeOK == Init => TypeOK
  BY DEF Init, TypeOK, Location, Provisioning, Account, Resource, Answer,
         Outcome

(* Every call of a login keeps the type invariant. *)
LEMMA NextTypeOK ==
    TypeOK /\ [Next]_vars => TypeOK'
<1> SUFFICES ASSUME TypeOK, [Next]_vars PROVE TypeOK'
  OBVIOUS
<1> USE ProvisioningAssumption DEF TypeOK, Location, Provisioning, Account, Resource,
        Answer, Outcome, remote, Goto, Finish
<1>1. ASSUME NEW t \in Thread, NEW u \in User, Login(t, u) PROVE TypeOK'
  BY <1>1 DEF Login
<1>2. ASSUME NEW t \in Thread, CheckLdap(t) PROVE TypeOK'
  BY <1>2 DEF CheckLdap
<1>3. ASSUME NEW t \in Thread, VerifyUaa(t) PROVE TypeOK'
  BY <1>3 DEF VerifyUaa, Answers
<1>4. ASSUME NEW t \in Thread, PostUser(t) PROVE TypeOK'
  <2>1. CASE CreateAccount(t)
    <3>1. user[t] \in User /\ pc[t] = "scim"
      BY <1>4 DEF PostUser
    <3>2. account' \in [User -> Account]
      BY <2>1, <3>1 DEF CreateAccount
    <3>3. UNCHANGED <<resources, user, answer>>
      BY <1>4 DEF PostUser
    <3>4. CASE created' = [created EXCEPT ![t] = TRUE] /\ Goto(t, "ccUser")
      BY <3>1, <3>2, <3>3, <3>4
    <3>5. CASE (Finish(t, "inactive") \/ Finish(t, "error")) /\ UNCHANGED created
      BY <3>1, <3>2, <3>3, <3>5
    <3> QED
      BY <2>1, <3>4, <3>5 DEF CreateAccount
  <2>2. CASE AccountRefused(t)
    BY <1>4, <2>2 DEF PostUser, AccountRefused
  <2> QED
    BY <1>4, <2>1, <2>2 DEF PostUser
<1>5. ASSUME NEW t \in Thread, AddCCUser(t) PROVE TypeOK'
  BY <1>5 DEF AddCCUser, Add
<1>6. ASSUME NEW t \in Thread, CreateOrg(t) PROVE TypeOK'
  BY <1>6 DEF CreateOrg, Create, Add
<1>7. ASSUME NEW t \in Thread, CreateDomain(t) PROVE TypeOK'
  BY <1>7 DEF CreateDomain, Create, Add
<1>8. ASSUME NEW t \in Thread, CreateSpace(t) PROVE TypeOK'
  BY <1>8 DEF CreateSpace, Create, Add
<1>9. ASSUME NEW t \in Thread, Relogin(t) PROVE TypeOK'
  BY <1>9 DEF Relogin, Answers
<1>10. ASSUME NEW u \in User, SwitchAccount(u) PROVE TypeOK'
  BY <1>10 DEF SwitchAccount
<1>11. CASE UNCHANGED vars
  BY <1>11 DEF vars
<1> QED
  BY <1>1, <1>2, <1>3, <1>4, <1>5, <1>6, <1>7, <1>8, <1>9, <1>10, <1>11
     DEF Next, Step

(* Every variable keeps its shape, and the locals of a thread are set      *)
(* exactly where authenticate has computed them.                           *)
THEOREM TypeCorrectness == Spec => []TypeOK
  BY InitTypeOK, NextTypeOK, PTL DEF Spec

-----------------------------------------------------------------------------
(* Who provisions a user, and what exists meanwhile. *)

Done(u) == resources[u] \cap Workplace

(* What the thread that provisions u has created, by the call it is about  *)
(* to make; before the account exists there is nothing.                    *)
Progress ==
    /\ \A u \in User : account[u] = "none" => Done(u) = {}
    /\ \A u \in User, t \in Thread : Provisions(t, u) =>
          /\ account[u] # "none"
          /\ pc[t] \in {"ccUser", "org"} => Done(u) = {}
          /\ pc[t] = "domain" => Done(u) = {"org"}
          /\ pc[t] = "space" => Done(u) = {"org", "domain"}
          /\ pc[t] = "relogin" => Done(u) = Workplace

(* The inductive invariant: progress is exact because there is one         *)
(* provisioner, and there is one because its account exists.               *)
IInv == OneProvisioner /\ Progress

(* Every call of a login keeps the inductive invariant. *)
LEMMA NextIInv ==
    TypeOK /\ IInv /\ [Next]_vars => IInv'
<1> SUFFICES ASSUME TypeOK, IInv, [Next]_vars PROVE IInv'
  OBVIOUS
<1> USE ProvisioningAssumption DEF TypeOK, Location, Provisioning, Account, Resource,
        Answer, Outcome, remote, Goto, Finish,
        IInv, OneProvisioner, Progress, Provisions, Done, Workplace
<1>1. ASSUME NEW t \in Thread, NEW u \in User, Login(t, u) PROVE IInv'
  BY <1>1 DEF Login
<1>2. ASSUME NEW t \in Thread, CheckLdap(t) PROVE IInv'
  BY <1>2 DEF CheckLdap
<1>3. ASSUME NEW t \in Thread, VerifyUaa(t) PROVE IInv'
  BY <1>3 DEF VerifyUaa, Answers
<1>4. ASSUME NEW t \in Thread, PostUser(t) PROVE IInv'
  <2>1. /\ user[t] \in User /\ ~created[t] /\ UNCHANGED <<resources, user>>
        /\ \A v \in Thread \ {t} : pc'[v] = pc[v] /\ created'[v] = created[v]
    BY <1>4 DEF PostUser, CreateAccount, AccountRefused
  <2>2. CASE created'[t] /\ CreateAccount(t)
    <3>1. /\ account[user[t]] = "none" /\ pc'[t] = "ccUser"
          /\ account' = [account EXCEPT ![user[t]] = "active"]
      BY <2>1, <2>2 DEF CreateAccount
    <3>2. \A v \in Thread : ~Provisions(v, user[t])
      BY <2>1, <3>1
    <3>3. \A v \in Thread, u \in User :
             Provisions(v, u)' => \/ v = t /\ u = user[t]
                                  \/ v # t /\ Provisions(v, u)
      BY <2>1
    <3> QED
      BY <2>1, <3>1, <3>2, <3>3
  <2>3. CASE ~created'[t]
    <3>1. \A v \in Thread, u \in User : Provisions(v, u)' => v # t /\ Provisions(v, u)
      BY <2>1, <2>3
    <3>2. \A u \in User : /\ account'[u] = "none" => account[u] = "none"
                          /\ account[u] # "none" => account'[u] # "none"
      BY <1>4, <2>1 DEF PostUser, CreateAccount, AccountRefused
    <3> QED
      BY <2>1, <3>1, <3>2
  <2> QED
    BY <1>4, <2>1, <2>2, <2>3 DEF PostUser, CreateAccount, AccountRefused
<1>5. ASSUME NEW t \in Thread, AddCCUser(t) PROVE IInv'
  <2>1. /\ UNCHANGED <<account, user, created>>
        /\ pc[t] = "ccUser"
        /\ pc' = [pc EXCEPT ![t] = "org"] \/ pc' = [pc EXCEPT ![t] = "idle"]
    BY <1>5 DEF AddCCUser
  <2>2. \A u \in User, v \in Thread : Provisions(v, u)' => Provisions(v, u)
    BY <2>1
  <2>3. \A u \in User : Done(u)' = Done(u)
    BY <1>5 DEF AddCCUser, Add
  <2>4. \A v \in Thread : v # t => pc'[v] = pc[v]
    BY <2>1
  <2>5. OneProvisioner'
    BY <2>2 DEF OneProvisioner
  <2>6. Progress'
    BY <2>1, <2>2, <2>3, <2>4
  <2> QED
    BY <2>5, <2>6
<1>6. ASSUME NEW t \in Thread, CreateOrg(t) PROVE IInv'
  <2>1. CASE ~created[t]
    BY <1>6, <2>1 DEF CreateOrg
  <2>2. CASE created[t]
    <3>1. /\ user[t] \in User /\ Provisions(t, user[t])
          /\ Done(user[t]) = {}
          /\ UNCHANGED <<account, user, created>>
          /\ pc' = [pc EXCEPT ![t] = "domain"] \/ pc' = [pc EXCEPT ![t] = "idle"]
      BY <1>6, <2>2 DEF CreateOrg, Create
    <3>2. \A u \in User, v \in Thread : Provisions(v, u)' => Provisions(v, u)
      BY <3>1
    <3>3. \A u \in User : u # user[t] => Done(u)' = Done(u)
      BY <1>6, <2>2, <3>1 DEF CreateOrg, Create, Add
    <3>4. pc'[t] = "domain" => Done(user[t])' = Done(user[t]) \cup {"org"}
      BY <1>6, <2>2, <3>1 DEF CreateOrg, Create, Add
    <3>5. \A v \in Thread : v # t => ~Provisions(v, user[t]) /\ pc'[v] = pc[v]
      BY <3>1
    <3>6. OneProvisioner'
      BY <3>2 DEF OneProvisioner
    <3>7. Progress'
      BY <3>1, <3>2, <3>3, <3>4, <3>5
    <3> QED
      BY <3>6, <3>7
  <2> QED
    BY <2>1, <2>2
<1>7. ASSUME NEW t \in Thread, CreateDomain(t) PROVE IInv'
  <2>1. /\ user[t] \in User /\ Provisions(t, user[t])
        /\ Done(user[t]) = {"org"}
        /\ UNCHANGED <<account, user, created>>
        /\ pc' = [pc EXCEPT ![t] = "space"] \/ pc' = [pc EXCEPT ![t] = "idle"]
    BY <1>7 DEF CreateDomain, Create
  <2>2. \A u \in User, v \in Thread : Provisions(v, u)' => Provisions(v, u)
    BY <2>1
  <2>3. \A u \in User : u # user[t] => Done(u)' = Done(u)
    BY <1>7, <2>1 DEF CreateDomain, Create, Add
  <2>4. pc'[t] = "space" => Done(user[t])' = Done(user[t]) \cup {"domain"}
    BY <1>7, <2>1 DEF CreateDomain, Create, Add
  <2>5. \A v \in Thread : v # t => ~Provisions(v, user[t]) /\ pc'[v] = pc[v]
    BY <2>1
  <2>6. OneProvisioner'
    BY <2>2 DEF OneProvisioner
  <2>7. Progress'
    BY <2>1, <2>2, <2>3, <2>4, <2>5
  <2> QED
    BY <2>6, <2>7
<1>8. ASSUME NEW t \in Thread, CreateSpace(t) PROVE IInv'
  <2>1. /\ user[t] \in User /\ Provisions(t, user[t])
        /\ Done(user[t]) = {"org", "domain"}
        /\ UNCHANGED <<account, user, created>>
        /\ pc' = [pc EXCEPT ![t] = "relogin"] \/ pc' = [pc EXCEPT ![t] = "idle"]
    BY <1>8 DEF CreateSpace, Create
  <2>2. \A u \in User, v \in Thread : Provisions(v, u)' => Provisions(v, u)
    BY <2>1
  <2>3. \A u \in User : u # user[t] => Done(u)' = Done(u)
    BY <1>8, <2>1 DEF CreateSpace, Create, Add
  <2>4. pc'[t] = "relogin" => Done(user[t])' = Done(user[t]) \cup {"space"}
    BY <1>8, <2>1 DEF CreateSpace, Create, Add
  <2>5. \A v \in Thread : v # t => ~Provisions(v, user[t]) /\ pc'[v] = pc[v]
    BY <2>1
  <2>6. OneProvisioner'
    BY <2>2 DEF OneProvisioner
  <2>7. Progress'
    BY <2>1, <2>2, <2>3, <2>4, <2>5
  <2> QED
    BY <2>6, <2>7
<1>9. ASSUME NEW t \in Thread, Relogin(t) PROVE IInv'
  BY <1>9 DEF Relogin, Answers
<1>10. ASSUME NEW u \in User, SwitchAccount(u) PROVE IInv'
  BY <1>10 DEF SwitchAccount
<1>11. CASE UNCHANGED vars
  BY <1>11 DEF vars
<1> QED
  BY <1>1, <1>2, <1>3, <1>4, <1>5, <1>6, <1>7, <1>8, <1>9, <1>10, <1>11
     DEF Next, Step

(* The inductive invariant holds in every state. *)
LEMMA IInvariance == Spec => [](TypeOK /\ IInv)
<1>1. Init => IInv
  BY DEF Init, IInv, OneProvisioner, Progress, Provisions, Done
<1> QED
  BY <1>1, InitTypeOK, NextTypeOK, NextIInv, PTL DEF Spec

(* However many logins of one user run at once, one of them provisions it. *)
THEOREM OneLoginProvisions == Spec => []OneProvisioner
<1>1. IInv => OneProvisioner
  BY DEF IInv
<1> QED
  BY <1>1, IInvariance, PTL

-----------------------------------------------------------------------------
(* The end of a login. *)

(* Nothing that was created is ever deleted. *)
LEMMA ResourcesGrow ==
    TypeOK /\ [Next]_vars => \A u \in User : resources[u] \subseteq resources'[u]
  BY DEF TypeOK, Next, Step, vars, remote, Login, CheckLdap, VerifyUaa,
         PostUser, AddCCUser, CreateOrg, CreateDomain, CreateSpace, Create,
         Add, Relogin, SwitchAccount

(* A first login reaches its end through all three creations. *)
LEMMA NextFirstLoginIsComplete ==
    TypeOK /\ IInv /\ FirstLoginIsComplete /\ [Next]_vars => FirstLoginIsComplete'
<1> SUFFICES ASSUME TypeOK, IInv, FirstLoginIsComplete, [Next]_vars PROVE FirstLoginIsComplete'
  OBVIOUS
<1> USE ProvisioningAssumption DEF TypeOK, Location, Provisioning, Account, Resource,
        Answer, Outcome, remote, Goto, Finish,
        IInv, Progress, Provisions, Done, FirstLoginIsComplete
<1>1. ASSUME NEW t \in Thread, NEW u \in User, Login(t, u) PROVE FirstLoginIsComplete'
  BY <1>1 DEF Login
<1>2. ASSUME NEW t \in Thread, CheckLdap(t) PROVE FirstLoginIsComplete'
  BY <1>2 DEF CheckLdap
<1>3. ASSUME NEW t \in Thread, VerifyUaa(t) PROVE FirstLoginIsComplete'
  BY <1>3 DEF VerifyUaa, Answers
<1>4. ASSUME NEW t \in Thread, PostUser(t) PROVE FirstLoginIsComplete'
  BY <1>4 DEF PostUser, CreateAccount, AccountRefused
<1>5. ASSUME NEW t \in Thread, AddCCUser(t) PROVE FirstLoginIsComplete'
  BY <1>5 DEF AddCCUser, Add
<1>6. ASSUME NEW t \in Thread, CreateOrg(t) PROVE FirstLoginIsComplete'
  BY <1>6 DEF CreateOrg, Create, Add
<1>7. ASSUME NEW t \in Thread, CreateDomain(t) PROVE FirstLoginIsComplete'
  BY <1>7 DEF CreateDomain, Create, Add
<1>8. ASSUME NEW t \in Thread, CreateSpace(t) PROVE FirstLoginIsComplete'
  BY <1>8 DEF CreateSpace, Create, Add
<1>9. ASSUME NEW t \in Thread, Relogin(t) PROVE FirstLoginIsComplete'
  BY <1>9 DEF Relogin, Answers
<1>10. ASSUME NEW u \in User, SwitchAccount(u) PROVE FirstLoginIsComplete'
  BY <1>10 DEF SwitchAccount
<1>11. CASE UNCHANGED vars
  BY <1>11 DEF vars
<1> QED
  BY <1>1, <1>2, <1>3, <1>4, <1>5, <1>6, <1>7, <1>8, <1>9, <1>10, <1>11
     DEF Next, Step

(* A login that created the account and is let in leaves the user with an  *)
(* organization, a domain and a space.                                     *)
THEOREM FirstLoginsAreComplete == Spec => []FirstLoginIsComplete
<1>1. Init => FirstLoginIsComplete
  BY DEF Init, FirstLoginIsComplete
<1> QED
  BY <1>1, NextFirstLoginIsComplete, IInvariance, PTL DEF Spec

(* Organizations, domains and spaces are created after POST /Users only. *)
LEMMA OnlyProvisionersCreate ==
    TypeOK /\ [Next]_vars =>
        \A u \in User :
            account[u] # "none" /\ (\A t \in Thread : ~Provisions(t, u))
                => resources'[u] = resources[u]
  BY DEF TypeOK, Provisions, Provisioning, Next, Step, vars, remote, Login,
         CheckLdap, VerifyUaa, PostUser, AddCCUser, CreateOrg, CreateDomain,
         CreateSpace, Create, Add, Relogin, SwitchAccount

(* What a first login that gave up has left undone stays undone. *)
THEOREM NothingIsEverRepaired == Spec => NothingIsRepaired
  BY TypeCorrectness, OnlyProvisionersCreate, PTL DEF Spec, NothingIsRepaired

-----------------------------------------------------------------------------
(* The refinement: every step of Provisioning is a step of                 *)
(* AccountProvisioning for the user of the thread that takes it, or none.  *)

(* Only the level of w may change, and only whether t provisions w. *)
OthersKeep(t, w) ==
    /\ \A u \in User : u # w => LevelOf(u)' = LevelOf(u)
    /\ \A v \in Thread, u \in User :
          v # t \/ u # w => (Provisions(v, u)' <=> Provisions(v, u))

(* A step that changes neither is a stutter. *)
LEMMA SameIsStutter ==
    ASSUME \A u \in User : LevelOf(u)' = LevelOf(u),
           \A v \in Thread, u \in User : Provisions(v, u)' <=> Provisions(v, u)
    PROVE  UNCHANGED Abstract!vars
<1>1. [u \in User |-> LevelOf(u)]' = [u \in User |-> LevelOf(u)]
  OBVIOUS
<1>2. {u \in User : \E t \in Thread : Provisions(t, u)}'
        = {u \in User : \E t \in Thread : Provisions(t, u)}
  OBVIOUS
<1> QED
  BY <1>1, <1>2 DEF Abstract!vars

(* The end of the thread that provisions w closes w. *)
LEMMA EndIsClose ==
    ASSUME OneProvisioner, NEW t \in Thread, NEW w \in User,
           OthersKeep(t, w), Provisions(t, w), ~Provisions(t, w)',
           LevelOf(w)' = LevelOf(w)
    PROVE  Abstract!Close(w)
<1>1. [u \in User |-> LevelOf(u)]' = [u \in User |-> LevelOf(u)]
  BY DEF OthersKeep
<1>2. \A v \in Thread : ~Provisions(v, w)'
  BY DEF OthersKeep, OneProvisioner
<1>3. {u \in User : \E v \in Thread : Provisions(v, u)}'
        = {u \in User : \E v \in Thread : Provisions(v, u)} \ {w}
  BY <1>2 DEF OthersKeep
<1> QED
  BY <1>1, <1>3 DEF Abstract!Close

(* A resource created by the thread that provisions w is an advance of w.  *)
LEMMA CreationIsAdvance ==
    ASSUME OneProvisioner, NEW t \in Thread, NEW w \in User,
           OthersKeep(t, w), Provisions(t, w),
           LevelOf(w) \in 0 .. 3, LevelOf(w)' = LevelOf(w) + 1
    PROVE  Abstract!Advance(w)
<1> DEFINE O == {u \in User : \E v \in Thread : Provisions(v, u)}
<1>1. [u \in User |-> LevelOf(u)]'
        = [[u \in User |-> LevelOf(u)] EXCEPT ![w] = @ + 1]
  BY DEF OthersKeep
<1>2. \A v \in Thread : v # t => ~Provisions(v, w)'
  BY DEF OthersKeep, OneProvisioner
<1>3. CASE Provisions(t, w)'
  <2>1. O' = O
    BY <1>3 DEF OthersKeep
  <2> QED
    BY <1>1, <2>1 DEF Abstract!Advance
<1>4. CASE ~Provisions(t, w)'
  <2>1. O' = O \ {w}
    BY <1>2, <1>4 DEF OthersKeep
  <2> QED
    BY <1>1, <2>1 DEF Abstract!Advance
<1> QED
  BY <1>3, <1>4

(* The account created by t for w. *)
LEMMA AccountIsCreate ==
    ASSUME TypeOK, IInv, NEW t \in Thread, PostUser(t), CreateAccount(t)
    PROVE  Abstract!Create(user[t])
<1> DEFINE w == user[t]
           O == {u \in User : \E v \in Thread : Provisions(v, u)}
<1>1. /\ w \in User /\ account[w] = "none" /\ ~created[t]
      /\ UNCHANGED <<resources, user>>
      /\ account' = [account EXCEPT ![w] = "active"]
  BY DEF PostUser, CreateAccount, TypeOK
<1>2. Done(w) = {}
  BY <1>1 DEF IInv, Progress
<1>3. LevelOf(w) = 0 /\ LevelOf(w)' = 1
  BY <1>1, <1>2 DEF LevelOf, Done, TypeOK, Workplace, Account
<1>4. \A u \in User : u # w => LevelOf(u)' = LevelOf(u)
  BY <1>1 DEF LevelOf, TypeOK
<1>5. [u \in User |-> LevelOf(u)]' = [[u \in User |-> LevelOf(u)] EXCEPT ![w] = 1]
  BY <1>1, <1>3, <1>4
<1>6. \A v \in Thread, u \in User :
         v # t \/ u # w => (Provisions(v, u)' <=> Provisions(v, u))
  BY <1>1 DEF Provisions, PostUser, CreateAccount, TypeOK, Goto, Finish
<1>7. O' \in {O, O \cup {w}}
  BY <1>1, <1>6 DEF IInv, Progress
<1> QED
  BY <1>1, <1>3, <1>5, <1>7 DEF Abstract!Create

(* A step that changes neither accounts nor what is created for a user is  *)
(* the end of the login that provisions the user, or a stutter.            *)
LEMMA NothingCreatedIsClose ==
    ASSUME TypeOK, IInv, NEW t \in Thread, UNCHANGED <<account, user, created>>,
           pc[t] # "idle",
           \A u \in User : Done(u)' = Done(u),
           \A v \in Thread : v # t => pc'[v] = pc[v],
           pc'[t] \in Provisioning /\ created[t] => pc[t] \in Provisioning
    PROVE  [Abstract!Next]_(Abstract!vars)
<1> DEFINE w == user[t]
<1>1. w \in User
  BY ProvisioningAssumption DEF TypeOK
<1>2. \A u \in User : LevelOf(u)' = LevelOf(u)
  BY DEF LevelOf, Done
<1>3. \A v \in Thread, u \in User :
         v # t \/ u # w => (Provisions(v, u)' <=> Provisions(v, u))
  BY DEF Provisions
<1>4. CASE Provisions(t, w) /\ ~Provisions(t, w)'
  <2>1. Abstract!Close(w)
    BY <1>1, <1>2, <1>3, <1>4, EndIsClose DEF OthersKeep, IInv
  <2> QED
    BY <1>1, <2>1 DEF Abstract!Next
<1>5. CASE ~(Provisions(t, w) /\ ~Provisions(t, w)')
  <2>1. Provisions(t, w)' <=> Provisions(t, w)
    BY <1>5 DEF Provisions
  <2> QED
    BY <1>2, <1>3, <2>1, SameIsStutter
<1> QED
  BY <1>4, <1>5

(* createOrg, createDomain and createSpace. *)
LEMMA ResourceIsAdvance ==
    ASSUME TypeOK, IInv, NEW t \in Thread, NEW r \in Workplace, NEW next,
           created[t], Create(t, r, next), next \in Provisioning,
           <<pc[t], r>> \in {<<"org", "org">>, <<"domain", "domain">>, <<"space", "space">>}
    PROVE  [Abstract!Next]_(Abstract!vars)
<1> DEFINE w == user[t]
<1>1. /\ w \in User /\ Provisions(t, w)
      /\ UNCHANGED <<account, user, created>>
      /\ \A v \in Thread : v # t => pc'[v] = pc[v]
  BY ProvisioningAssumption
     DEF TypeOK, Provisions, Provisioning, Create, Goto, Finish
<1>2. CASE UNCHANGED resources
  BY <1>1, <1>2, NothingCreatedIsClose DEF Done, Provisioning, Provisions
<1>3. CASE Add(w, r)
  <2>1. /\ r \notin Done(w) /\ Done(w)' = Done(w) \cup {r}
        /\ \A u \in User : u # w => Done(u)' = Done(u)
    BY <1>1, <1>3 DEF Add, Done, TypeOK
  <2>2. account[w] # "none" /\ account'[w] # "none"
    BY <1>1 DEF IInv, Progress
  <2>3. LevelOf(w) \in 0 .. 3 /\ LevelOf(w)' = LevelOf(w) + 1
    BY <1>1, <2>1, <2>2 DEF IInv, Progress, LevelOf, Done, Workplace
  <2>4. OthersKeep(t, w)
    BY <1>1, <2>1 DEF OthersKeep, LevelOf, Done, Provisions
  <2>5. Abstract!Advance(w)
    BY <1>1, <2>3, <2>4, CreationIsAdvance DEF IInv
  <2> QED
    BY <1>1, <2>5 DEF Abstract!Next
<1> QED
  BY <1>2, <1>3 DEF Create

(* Every call is one step of the abstract provisioning, or none. *)
LEMMA StepRefines ==
    TypeOK /\ IInv /\ [Next]_vars => [Abstract!Next]_(Abstract!vars)
<1> SUFFICES ASSUME TypeOK, IInv, [Next]_vars
             PROVE  [Abstract!Next]_(Abstract!vars)
  OBVIOUS
<1> USE ProvisioningAssumption DEF remote
<1>1. ASSUME NEW t \in Thread, NEW u \in User, Login(t, u)
      PROVE  [Abstract!Next]_(Abstract!vars)
  BY <1>1, SameIsStutter DEF Login, TypeOK, LevelOf, Provisions, Provisioning
<1>2. ASSUME NEW t \in Thread, CheckLdap(t)
      PROVE  [Abstract!Next]_(Abstract!vars)
  BY <1>2, NothingCreatedIsClose
     DEF CheckLdap, TypeOK, Done, Goto, Finish, Provisioning
<1>3. ASSUME NEW t \in Thread, VerifyUaa(t)
      PROVE  [Abstract!Next]_(Abstract!vars)
  BY <1>3, NothingCreatedIsClose
     DEF VerifyUaa, TypeOK, Done, Goto, Finish, Provisioning
<1>4. ASSUME NEW t \in Thread, PostUser(t)
      PROVE  [Abstract!Next]_(Abstract!vars)
  <2>1. CASE CreateAccount(t)
    <3>1. user[t] \in User
      BY <1>4 DEF PostUser, TypeOK
    <3> QED
      BY <1>4, <2>1, <3>1, AccountIsCreate DEF Abstract!Next
  <2>2. CASE AccountRefused(t)
    BY <1>4, <2>2, NothingCreatedIsClose
       DEF PostUser, AccountRefused, TypeOK, Done, Goto, Finish, Provisioning
  <2> QED
    BY <1>4, <2>1, <2>2 DEF PostUser
<1>5. ASSUME NEW t \in Thread, AddCCUser(t)
      PROVE  [Abstract!Next]_(Abstract!vars)
  <2>1. \A u \in User : Done(u)' = Done(u)
    BY <1>5 DEF AddCCUser, Add, Done, Workplace, TypeOK
  <2> QED
    BY <1>5, <2>1, NothingCreatedIsClose
       DEF AddCCUser, TypeOK, Goto, Finish, Provisioning
<1>6. ASSUME NEW t \in Thread, CreateOrg(t)
      PROVE  [Abstract!Next]_(Abstract!vars)
  <2>1. CASE created[t]
    BY <1>6, <2>1, ResourceIsAdvance DEF CreateOrg, Workplace, Provisioning
  <2>2. CASE ~created[t]
    BY <1>6, <2>2, NothingCreatedIsClose
       DEF CreateOrg, TypeOK, Done, Finish, Provisioning
  <2> QED
    BY <2>1, <2>2
<1>7. ASSUME NEW t \in Thread, CreateDomain(t)
      PROVE  [Abstract!Next]_(Abstract!vars)
  BY <1>7, ResourceIsAdvance DEF CreateDomain, TypeOK, Workplace, Provisioning
<1>8. ASSUME NEW t \in Thread, CreateSpace(t)
      PROVE  [Abstract!Next]_(Abstract!vars)
  BY <1>8, ResourceIsAdvance DEF CreateSpace, TypeOK, Workplace, Provisioning
<1>9. ASSUME NEW t \in Thread, Relogin(t)
      PROVE  [Abstract!Next]_(Abstract!vars)
  BY <1>9, NothingCreatedIsClose
     DEF Relogin, TypeOK, Done, Goto, Finish, Provisioning
<1>10. ASSUME NEW u \in User, SwitchAccount(u)
       PROVE  [Abstract!Next]_(Abstract!vars)
  <2>1. \A w \in User : LevelOf(w)' = LevelOf(w)
    BY <1>10 DEF SwitchAccount, LevelOf, TypeOK, Account
  <2>2. \A v \in Thread, w \in User : Provisions(v, w)' <=> Provisions(v, w)
    BY <1>10 DEF SwitchAccount, Provisions
  <2> QED
    BY <2>1, <2>2, SameIsStutter
<1>11. CASE UNCHANGED vars
  BY <1>11, SameIsStutter DEF vars, LevelOf, Provisions
<1> QED
  BY <1>1, <1>2, <1>3, <1>4, <1>5, <1>6, <1>7, <1>8, <1>9, <1>10, <1>11
     DEF Next, Step

(* Logins, with all their failures, implement the abstract provisioning of *)
(* users: account, organization, domain and space in this order, by the    *)
(* login that created the account.                                         *)
THEOREM LoginsImplementProvisioning == Spec => ImplementsProvisioning
<1>1. Init => Abstract!Init
  BY DEF Init, Abstract!Init, LevelOf, Provisions
<1> QED
  BY <1>1, StepRefines, IInvariance, PTL DEF Spec, Abstract!Spec, ImplementsProvisioning
=============================================================================
