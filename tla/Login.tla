--------------------------------- MODULE Login ---------------------------------
(***************************************************************************)
(* RemoteUaaAuthenticationManager and LdapAuthHelper together.  A login    *)
(* enters the helper with the email and the password it was given, and     *)
(* goes on to the UAA when the helper has returned true.  Provisioning     *)
(* leaves the verdict of the helper open (CheckLdap); here it is the one   *)
(* LdapContext computes from the fields that all logins share.             *)
(*                                                                         *)
(* The variables user of both modules are one: the email of a login is its *)
(* username with the mail suffix, and determined by it.                    *)
(***************************************************************************)
EXTENDS Provisioning

CONSTANTS
    Entry, Password, Empty   \* of LdapContext

VARIABLES
    secret, matches, env, ctx,   \* of LdapContext ...
    ldapPc,                      \* ... where it is called pc
    password, userDN, valid, overlapped

L == INSTANCE LdapContext WITH pc <- ldapPc

ASSUME LoginAssumption ==
    /\ Null \notin User \cup Password \cup {Empty} \cup L!Context
    /\ {Empty, "several", "unset"} \cap (Entry \cup Password) = {}
    /\ Empty \notin {"several", "unset"}

ldapVars ==
    <<secret, matches, env, ctx, ldapPc, password, userDN, valid, overlapped>>
loginVars == <<vars, ldapVars>>

LoginInit == Init /\ L!Init

(* authenticate is called, and calls the helper, whatever the password.    *)
Submit(t, u, p) == Login(t, u) /\ L!Authenticate(t, u, p)

(* Mutant of Judge: what the LDAP has accepted needs no account. *)
JudgeByLdapAlone(t) ==
    /\ \/ valid'[t] = "true" /\ Goto(t, "scim")
       \/ valid'[t] = "false" /\ Finish(t, "badCredentials")
       \/ valid'[t] = "throws" /\ Finish(t, "error")
    /\ UNCHANGED <<remote, created, answer>>

(* What the login makes of the result of the helper. *)
Judge(t) ==
    /\ \/ valid'[t] = "true" /\ Goto(t, "uaa")
       \/ valid'[t] = "false" /\ Finish(t, "badCredentials")
       \/ valid'[t] = "throws" /\ Finish(t, "error")
    /\ UNCHANGED <<remote, created, answer>>

(* A step of the helper, and at its end the login has the result. *)
AskLdap(t) ==
    /\ L!Step(t)
    /\ \/ ldapPc'[t] # "idle" /\ UNCHANGED vars
       \/ ldapPc'[t] = "idle" /\ Judge(t)

(* The calls after the helper, as in Provisioning. *)
Remote(t) ==
    \/ VerifyUaa(t) \/ PostUser(t) \/ AddCCUser(t)
    \/ CreateOrg(t) \/ CreateDomain(t) \/ CreateSpace(t) \/ Relogin(t)

LoginNext ==
    \/ \E t \in Thread :
          \/ \E u \in User, p \in Password \cup {Empty} : Submit(t, u, p)
          \/ AskLdap(t)
          \/ Remote(t) /\ UNCHANGED ldapVars
    \/ \E u \in User : SwitchAccount(u) /\ UNCHANGED ldapVars

LoginSpec == LoginInit /\ [][LoginNext]_loginVars

-----------------------------------------------------------------------------
(* Properties. *)

(* The call of the helper is over, and the login has made something of it. *)
PastLdap(t) == pc[t] \notin {"idle", "ldap"} \/ created[t] \/ outcome[t] = "authenticated"

(* A login goes on to the UAA, creates an account and what belongs to it,  *)
(* and lets the user in, only when its password is that of the entry found *)
(* for its name - unless its call of LdapAuthHelper has run beside another *)
(* one, or the bind had no password or no name, in which case the LDAP     *)
(* server decides.  Logins that are at their remote calls, or that have    *)
(* failed at any call before, do no harm.                                  *)
LoneLoginIsOwn ==
    \A t \in Thread \ overlapped : PastLdap(t) => L!Vouched(t)

(* Whatever the helper does with its shared fields, logins that overlap in *)
(* it included, is a verdict that Provisioning allows for: all it promises *)
(* of accounts and resources holds with the helper as it is.               *)
VerdictsAreCovered == Spec
=============================================================================
