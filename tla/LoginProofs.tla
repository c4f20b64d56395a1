------------------------------ MODULE LoginProofs ------------------------------
(***************************************************************************)
(* Logins with the LDAP helper as it is, for any threads, users, entries   *)
(* and passwords: they keep what Provisioning promises with an open        *)
(* verdict, and the calls of the helper are a behaviour of LdapContext.    *)
(***************************************************************************)
EXTENDS Login, ProvisioningProofs, TLAPS

LP == INSTANCE LdapContextProofs WITH pc <- ldapPc

-----------------------------------------------------------------------------
(* What the helper does to the login that calls it. *)

HelperLocation == {"idle", "env", "factory", "url", "simple", "open", "search",
                   "principal", "credentials", "reconnect"}
Verdict == {"none", "true", "false", "throws"}

(* A step of the helper is one of a call, and leaves its arguments alone.  *)
LEMMA HelperStep ==
    ASSUME NEW t \in Thread, L!Step(t)
    PROVE  ldapPc[t] # "idle" /\ user' = user
  BY DEF L!Step, L!NewEnv, L!PutEnv, L!Open, L!Search, L!SetPrincipal,
         L!SetCredentials, L!Reconnect, L!directory, L!fields, L!arguments

(* It moves no other call and changes no other verdict. *)
LEMMA HelperFrame ==
    ASSUME NEW t \in Thread, L!Step(t),
           ldapPc \in [Thread -> HelperLocation], valid \in [Thread -> Verdict]
    PROVE  /\ ldapPc' \in [Thread -> HelperLocation] /\ valid' \in [Thread -> Verdict]
           /\ \A s \in Thread \ {t} : ldapPc'[s] = ldapPc[s] /\ valid'[s] = valid[s]
           /\ ldapPc'[t] # "idle" => valid' = valid
<1> USE DEF L!Goto, L!Return, HelperLocation, Verdict
<1>1. CASE L!NewEnv(t) \/ L!PutEnv(t, "factory", "url")
           \/ L!PutEnv(t, "url", "simple") \/ L!PutEnv(t, "simple", "open")
  BY <1>1 DEF L!NewEnv, L!PutEnv
<1>2. CASE L!Open(t) \/ L!Search(t)
  BY <1>2 DEF L!Open, L!Search
<1>3. CASE L!SetPrincipal(t) \/ L!SetCredentials(t) \/ L!Reconnect(t)
  BY <1>3 DEF L!SetPrincipal, L!SetCredentials, L!Reconnect, L!Throws
<1> QED
  BY <1>1, <1>2, <1>3 DEF L!Step

-----------------------------------------------------------------------------
(* The strengthening: a login is in the helper exactly while its call of   *)
(* the helper runs, and what it does afterwards it does with a verdict.    *)

Coupled ==
    /\ ldapPc \in [Thread -> HelperLocation]
    /\ valid \in [Thread -> Verdict]
    /\ \A t \in Thread : pc[t] = "ldap" <=> ldapPc[t] # "idle"

Verified == \A t \in Thread : PastLdap(t) => valid[t] = "true"

LoginInv == TypeOK /\ Coupled /\ Verified

(* Initially no login is in the helper. *)
LEMMA LoginInitInvariant == LoginInit => Init /\ LoginInv
  BY InitTypeOK
     DEF LoginInit, Init, L!Init, LoginInv, Coupled, Verified, PastLdap,
         HelperLocation, Verdict

(* Every step of a login is one of Provisioning, or a stutter. *)
LEMMA LoginStepIsProvisioningStep ==
    LoginInv /\ [LoginNext]_loginVars => [Next]_vars
<1> SUFFICES ASSUME LoginInv, [LoginNext]_loginVars PROVE [Next]_vars
  OBVIOUS
<1>1. ASSUME NEW t \in Thread, NEW u \in User, NEW p \in Password \cup {Empty},
             Submit(t, u, p)
      PROVE  Next
  BY <1>1 DEF Submit, Next
<1>2. ASSUME NEW t \in Thread, AskLdap(t) PROVE [Next]_vars
  <2>1. pc[t] = "ldap" /\ user' = user
    BY <1>2, HelperStep DEF AskLdap, LoginInv, Coupled
  <2>2. CASE Judge(t)
    <3>1. CheckLdap(t)
      BY <2>1, <2>2 DEF Judge, CheckLdap
    <3> QED
      BY <3>1 DEF Next, Step
  <2> QED
    BY <1>2, <2>2 DEF AskLdap
<1>3. ASSUME NEW t \in Thread, Remote(t) PROVE Next
  BY <1>3 DEF Remote, Next, Step
<1>4. ASSUME NEW u \in User, SwitchAccount(u) PROVE Next
  BY <1>4 DEF Next
<1>5. CASE UNCHANGED loginVars
  BY <1>5 DEF loginVars
<1> QED
  BY <1>1, <1>2, <1>3, <1>4, <1>5 DEF LoginNext

(* Every step keeps login and helper together. *)
LEMMA LoginNextInvariant == LoginInv /\ [LoginNext]_loginVars => LoginInv'
<1> SUFFICES ASSUME LoginInv, [LoginNext]_loginVars PROVE LoginInv'
  OBVIOUS
<1>1. TypeOK /\ TypeOK'
  BY LoginStepIsProvisioningStep, NextTypeOK DEF LoginInv
<1>2. ASSUME NEW t \in Thread, NEW u \in User, NEW p \in Password \cup {Empty},
             Submit(t, u, p)
      PROVE  Coupled' /\ Verified'
  BY <1>1, <1>2 DEF Submit, Login, L!Authenticate, LoginInv, Coupled, Verified,
                    PastLdap, TypeOK, HelperLocation, Verdict
<1>3. ASSUME NEW t \in Thread, AskLdap(t) PROVE Coupled' /\ Verified'
  <2>1. /\ pc[t] = "ldap" /\ ldapPc[t] # "idle" /\ L!Step(t)
        /\ ~created[t] /\ outcome[t] = "none"
    BY <1>1, <1>3, HelperStep DEF AskLdap, LoginInv, Coupled, TypeOK
  <2>2. /\ ldapPc' \in [Thread -> HelperLocation] /\ valid' \in [Thread -> Verdict]
        /\ \A s \in Thread \ {t} : ldapPc'[s] = ldapPc[s] /\ valid'[s] = valid[s]
        /\ ldapPc'[t] # "idle" => valid' = valid
    BY <2>1, HelperFrame DEF LoginInv, Coupled
  <2>3. CASE ldapPc'[t] # "idle" /\ UNCHANGED vars
    BY <2>1, <2>2, <2>3 DEF vars, LoginInv, Coupled, Verified, PastLdap
  <2>4. CASE ldapPc'[t] = "idle" /\ Judge(t)
    <3>1. /\ created' = created
          /\ \A s \in Thread \ {t} : pc'[s] = pc[s] /\ outcome'[s] = outcome[s]
          /\ pc'[t] # "ldap"
      BY <1>1, <2>4 DEF Judge, Goto, Finish, TypeOK
    <3>2. pc'[t] # "idle" \/ outcome'[t] = "authenticated" => valid'[t] = "true"
      BY <1>1, <2>1, <2>4 DEF Judge, Goto, Finish, TypeOK
    <3> QED
      BY <2>1, <2>2, <2>4, <3>1, <3>2 DEF LoginInv, Coupled, Verified, PastLdap
  <2> QED
    BY <1>3, <2>3, <2>4 DEF AskLdap
<1>4. ASSUME NEW t \in Thread, Remote(t), UNCHANGED ldapVars
      PROVE  Coupled' /\ Verified'
  <2>1. /\ pc[t] \notin {"idle", "ldap"} /\ pc'[t] # "ldap"
        /\ \A s \in Thread \ {t} : /\ pc'[s] = pc[s] /\ created'[s] = created[s]
                                   /\ outcome'[s] = outcome[s]
    BY <1>1, <1>4
       DEF Remote, VerifyUaa, PostUser, CreateAccount, AccountRefused, AddCCUser,
           CreateOrg, CreateDomain, CreateSpace, Create, Relogin, Goto, Finish, TypeOK
  <2> QED
    BY <1>4, <2>1 DEF ldapVars, LoginInv, Coupled, Verified, PastLdap
<1>5. ASSUME NEW u \in User, SwitchAccount(u), UNCHANGED ldapVars
      PROVE  Coupled' /\ Verified'
  BY <1>5 DEF SwitchAccount, ldapVars, LoginInv, Coupled, Verified, PastLdap
<1>6. CASE UNCHANGED loginVars
  BY <1>1, <1>6 DEF loginVars, vars, ldapVars, LoginInv, Coupled, Verified, PastLdap
<1> QED
  BY <1>1, <1>2, <1>3, <1>4, <1>5, <1>6 DEF LoginNext, LoginInv

(* The strengthening is an invariant. *)
LEMMA LoginInvariance == LoginSpec => []LoginInv
  BY LoginInitInvariant, LoginNextInvariant, PTL DEF LoginSpec

(* The login implements Provisioning: its helper returns only verdicts     *)
(* that Provisioning leaves open, and only when it is asked.               *)
THEOREM LoginsImplementOpenVerdicts == LoginSpec => VerdictsAreCovered
  BY LoginInitInvariant, LoginStepIsProvisioningStep, LoginInvariance, PTL
     DEF LoginSpec, Spec, VerdictsAreCovered

(* So one login at a time provisions a user, a first login leaves a user   *)
(* complete, and an account, its organization, domain and space come into  *)
(* being in this order or not at all, whatever happens in the helper.      *)
THEOREM LoginsKeepProvisioning ==
    LoginSpec => /\ []OneProvisioner
                 /\ []FirstLoginIsComplete
                 /\ NothingIsRepaired
                 /\ ImplementsProvisioning
<1>1. LoginSpec => Spec
  BY LoginsImplementOpenVerdicts DEF VerdictsAreCovered
<1> QED
  BY <1>1, OneLoginProvisions, FirstLoginsAreComplete, NothingIsEverRepaired,
     LoginsImplementProvisioning

-----------------------------------------------------------------------------
(* The calls of the helper are a behaviour of LdapContext. *)

(* To the helper, logins are callers like any others. *)
LEMMA LoginStepIsHelperStep == [LoginNext]_loginVars => [LP!Next]_(LP!vars)
<1> SUFFICES ASSUME [LoginNext]_loginVars PROVE [LP!Next]_(LP!vars)
  OBVIOUS
<1>1. ASSUME NEW t \in Thread, NEW u \in User, NEW p \in Password \cup {Empty},
             Submit(t, u, p)
      PROVE  LP!Next
  BY <1>1 DEF Submit, L!Authenticate, L!directory, L!fields,
              LP!Authenticate, LP!directory, LP!fields, LP!Next
<1>2. ASSUME NEW t \in Thread, AskLdap(t) PROVE LP!Next
  <2>1. L!Step(t) => LP!Step(t)
    BY DEF L!Step, L!NewEnv, L!PutEnv, L!Open, L!Search, L!SetPrincipal,
           L!SetCredentials, L!Reconnect, L!Throws, L!Goto, L!Return, L!Binds,
           L!directory, L!fields, L!arguments, L!Needed, L!Name, L!Joins,
           LP!Step, LP!NewEnv, LP!PutEnv, LP!Open, LP!Search, LP!SetPrincipal,
           LP!SetCredentials, LP!Reconnect, LP!Throws, LP!Goto, LP!Return, LP!Binds,
           LP!directory, LP!fields, LP!arguments, LP!Needed, LP!Name, LP!Joins
  <2> QED
    BY <1>2, <2>1 DEF AskLdap, LP!Next
<1>3. ASSUME UNCHANGED ldapVars, user' = user PROVE UNCHANGED LP!vars
  BY <1>3 DEF ldapVars, LP!vars, LP!directory, LP!fields, LP!arguments
<1>4. ASSUME NEW t \in Thread, Remote(t) PROVE user' = user
  BY <1>4 DEF Remote, VerifyUaa, PostUser, AddCCUser, CreateOrg, CreateDomain,
              CreateSpace, Create, Relogin
<1>5. ASSUME NEW u \in User, SwitchAccount(u) PROVE user' = user
  BY <1>5 DEF SwitchAccount
<1>6. CASE UNCHANGED loginVars
  BY <1>3, <1>6 DEF loginVars, vars
<1> QED
  BY <1>1, <1>2, <1>3, <1>4, <1>5, <1>6 DEF LoginNext

(* So its calls are a behaviour of LdapContext. *)
LEMMA LoginsCallTheHelper == LoginSpec => LP!Spec
<1>1. LoginInit => LP!Init
  BY DEF LoginInit, L!Init, LP!Init
<1> QED
  BY <1>1, LoginStepIsHelperStep, PTL DEF LoginSpec, LP!Spec

(* A login whose call of the helper ran beside no other goes on to the     *)
(* UAA, creates and lets in only with the password of the entry found for  *)
(* its name, or after a bind that had no password or no name.              *)
THEOREM LoneLoginsAreOwn == LoginSpec => []LoneLoginIsOwn
<1>1. LP!Spec => []LP!LoneVerdictIsOwn
  BY LP!LoneVerdictsAreOwn, LoginAssumption DEF L!Context, L!Name, LP!Context, LP!Name
<1>2. LoginInv /\ LP!LoneVerdictIsOwn => LoneLoginIsOwn
  BY DEF LoginInv, Verified, LP!LoneVerdictIsOwn, LP!Vouched, L!Vouched, LoneLoginIsOwn
<1> QED
  BY <1>1, <1>2, LoginsCallTheHelper, LoginInvariance, PTL
=============================================================================
