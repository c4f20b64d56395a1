------------------------------ MODULE LdapContext ------------------------------
(***************************************************************************)
(* LdapAuthHelper: the helper by which the login checks a password.  It is *)
(* one object for all servlet threads, and keeps the environment and the   *)
(* context of the current LDAP connection in fields that every call reads  *)
(* and writes without a lock.  A step is one access to those fields.       *)
(*                                                                         *)
(* JNDI and the LDAP server are external.  The filter of the search is the *)
(* text of the email as it is, so it may match any entries; a bind with a  *)
(* name and a password succeeds for an entry with its own password only,   *)
(* and what the server says to a bind without one of them is left open.    *)
(***************************************************************************)
CONSTANTS
    Thread,     \* the servlet threads
    User,       \* the emails that authenticate is called with
    Entry,      \* the entries of the directory; an entry stands for its DN
    Password,   \* the passwords that are not empty
    Empty,      \* the empty string, as a password and as a DN
    Null        \* null

VARIABLES
    secret,     \* LDAP: the password of each entry
    matches,    \* LDAP: the entries that the filter of an email matches
    env,        \* the properties in the Hashtable of the field env
    ctx,        \* the context in the field ctx
    pc,         \* the statement each thread is about to execute
    user,       \* the email the thread has been called with
    password,   \* and the password
    userDN,     \* what its search has found; "several" for joined DNs
    valid,      \* what its last call returned; "throws" for an exception
    overlapped  \* history: the threads whose last call ran beside another

directory == <<secret, matches>>
fields == <<env, ctx>>
arguments == <<user, password>>
vars == <<directory, fields, pc, arguments, userDN, valid, overlapped>>

Property == {"factory", "url", "simple"}

(* What JNDI needs to make a connection; "simple" is the default besides.  *)
Needed == {"factory", "url"}

(* The names that a search may come up with. *)
Name == Entry \cup {Empty, "several"}

Context == [usable : BOOLEAN, principal : Name \cup {"unset"},
            credentials : Password \cup {Empty, "unset"}]

ASSUME LdapAssumption ==
    /\ Null \notin User \cup Password \cup {Empty} \cup Context
    /\ {Empty, "several", "unset"} \cap (Entry \cup Password) = {}
    /\ Empty \notin {"several", "unset"}

(* Type invariant: a call has its arguments, and a context to bind. *)
TypeOK ==
    /\ secret \in [Entry -> Password]
    /\ matches \in [User -> SUBSET Entry]
    /\ env \in SUBSET Property
    /\ ctx \in Context \cup {Null}
    /\ pc \in [Thread -> {"idle", "env", "factory", "url", "simple", "open",
                          "search", "principal", "credentials", "reconnect"}]
    /\ user \in [Thread -> User \cup {Null}]
    /\ password \in [Thread -> Password \cup {Empty, Null}]
    /\ userDN \in [Thread -> Name]
    /\ valid \in [Thread -> {"none", "true", "false", "throws"}]
    /\ overlapped \in SUBSET Thread
    /\ \A t \in Thread :
          /\ pc[t] # "idle" => user[t] \in User /\ password[t] # Null
          /\ pc[t] \in {"credentials", "reconnect"} => ctx # Null

Init ==
    /\ secret \in [Entry -> Password]
    /\ matches \in [User -> SUBSET Entry]
    /\ env = {}
    /\ ctx = Null
    /\ pc = [t \in Thread |-> "idle"]
    /\ user = [t \in Thread |-> Null]
    /\ password = [t \in Thread |-> Null]
    /\ userDN = [t \in Thread |-> Empty]
    /\ valid = [t \in Thread |-> "none"]
    /\ overlapped = {}

Goto(t, l) == pc' = [pc EXCEPT ![t] = l] /\ UNCHANGED <<valid, overlapped>>

Return(t, v) ==
    /\ pc' = [pc EXCEPT ![t] = "idle"]
    /\ valid' = [valid EXCEPT ![t] = v]
    /\ UNCHANGED overlapped

-----------------------------------------------------------------------------
(* authenticate(email, password) is called; nobody refuses an empty one.   *)
Authenticate(t, u, p) ==
    /\ pc[t] = "idle"
    /\ user' = [user EXCEPT ![t] = u]
    /\ password' = [password EXCEPT ![t] = p]
    /\ userDN' = [userDN EXCEPT ![t] = Empty]
    /\ pc' = [pc EXCEPT ![t] = "env"]
    /\ valid' = [valid EXCEPT ![t] = "none"]
    /\ LET busy == {s \in Thread : pc[s] # "idle"} IN
       overlapped' = IF busy = {} THEN overlapped \ {t}
                     ELSE overlapped \cup busy \cup {t}
    /\ UNCHANGED <<directory, fields>>

(* LDAP_connect starts with a new Hashtable in the field ... *)
NewEnv(t) ==
    /\ pc[t] = "env"
    /\ env' = {}
    /\ Goto(t, "factory")
    /\ UNCHANGED <<directory, ctx, arguments, userDN>>

(* ... and fills the one that is in the field now. *)
PutEnv(t, property, next) ==
    /\ pc[t] = property
    /\ env' = env \cup {property}
    /\ Goto(t, next)
    /\ UNCHANGED <<directory, ctx, arguments, userDN>>

(* new InitialLdapContext(env): without a factory it is made all the same, *)
(* and every later call on it throws.  If the connection fails, the        *)
(* context of an earlier call stays in the field.                          *)
Open(t) ==
    /\ pc[t] = "open"
    /\ \/ /\ ctx' = [usable |-> Needed \subseteq env,
                     principal |-> "unset", credentials |-> "unset"]
          /\ Needed \subseteq env \/ "factory" \notin env
       \/ /\ "factory" \in env
          /\ UNCHANGED ctx
    /\ Goto(t, "search")
    /\ UNCHANGED <<directory, env, arguments, userDN>>

(* The name made of the DNs of all results, one after the other. *)
Joins(dn, found) ==
    \/ found = {} /\ dn = Empty
    \/ dn \in Entry /\ found = {dn}
    \/ dn = "several" /\ \E d, e \in found : d # e

(* getUserDN searches by email; any exception ends it with the results it  *)
(* has got.                                                                *)
Search(t) ==
    /\ pc[t] = "search"
    /\ \E found \in SUBSET matches[user[t]], dn \in Name :
          /\ found # {} => ctx # Null /\ ctx.usable
          /\ Joins(dn, found)
          /\ userDN' = [userDN EXCEPT ![t] = dn]
    /\ Goto(t, "principal")
    /\ UNCHANGED <<directory, fields, arguments>>

(* A call on the context that is in the field now: without one, a          *)
(* NullPointerException that nobody catches; on an unusable one, a         *)
(* NamingException, for which the call returns false.                      *)
Throws(t) ==
    /\ \/ ctx = Null /\ Return(t, "throws")
       \/ ctx # Null /\ ~ctx.usable /\ Return(t, "false")
    /\ UNCHANGED ctx

(* Mutant of SetPrincipal: a missing context goes unnoticed. *)
SetPrincipalIfAny(t) ==
    /\ pc[t] = "principal"
    /\ ctx' = IF ctx = Null THEN Null ELSE [ctx EXCEPT !.principal = userDN[t]]
    /\ Goto(t, "credentials")
    /\ UNCHANGED <<directory, env, arguments, userDN>>

SetPrincipal(t) ==
    /\ pc[t] = "principal"
    /\ \/ Throws(t)
       \/ /\ ctx # Null /\ ctx.usable
          /\ ctx' = [ctx EXCEPT !.principal = userDN[t]]
          /\ Goto(t, "credentials")
    /\ UNCHANGED <<directory, env, arguments, userDN>>

(* Mutant of SetCredentials: those of an earlier call stay. *)
SetCredentialsOnce(t) ==
    /\ pc[t] = "credentials"
    /\ \/ Throws(t)
       \/ /\ ctx # Null /\ ctx.usable
          /\ ctx' = IF ctx.credentials = "unset"
                    THEN [ctx EXCEPT !.credentials = password[t]] ELSE ctx
          /\ Goto(t, "reconnect")
    /\ UNCHANGED <<directory, env, arguments, userDN>>

SetCredentials(t) ==
    /\ pc[t] = "credentials"
    /\ \/ Throws(t)
       \/ /\ ctx # Null /\ ctx.usable
          /\ ctx' = [ctx EXCEPT !.credentials = password[t]]
          /\ Goto(t, "reconnect")
    /\ UNCHANGED <<directory, env, arguments, userDN>>

(* What the LDAP server may say to a bind of the context: joined DNs name  *)
(* no entry.  Without a password, or without a name, the bind can succeed  *)
(* for any context (RFC 4513, anonymous and unauthenticated binds).        *)
Binds(c) ==
    \/ c.principal \in {Empty, "unset"} \/ c.credentials \in {Empty, "unset"}
    \/ c.principal \in Entry /\ c.credentials = secret[c.principal]

(* The bind: any exception, also one of the connection, is a refusal. *)
Reconnect(t) ==
    /\ pc[t] = "reconnect"
    /\ \/ ctx.usable /\ Binds(ctx) /\ Return(t, "true")
       \/ Return(t, "false")
    /\ UNCHANGED <<directory, fields, arguments, userDN>>

(* A step of a call that thread t has entered. *)
Step(t) ==
    \/ NewEnv(t)
    \/ PutEnv(t, "factory", "url")
    \/ PutEnv(t, "url", "simple")
    \/ PutEnv(t, "simple", "open")
    \/ Open(t) \/ Search(t)
    \/ SetPrincipal(t) \/ SetCredentials(t) \/ Reconnect(t)

Next ==
    \E t \in Thread :
        \/ \E u \in User, p \in Password \cup {Empty} : Authenticate(t, u, p)
        \/ Step(t)

Spec == Init /\ [][Next]_vars

-----------------------------------------------------------------------------
(* Properties. *)

(* The bind that t has asked for was one without a password or a name,     *)
(* whose result is the server's choice, or it shows that the password is   *)
(* that of an entry which the search for the email has found.              *)
Vouched(t) ==
    \/ password[t] = Empty \/ userDN[t] = Empty
    \/ userDN[t] \in matches[user[t]] /\ password[t] = secret[userDN[t]]

(* "Is authenticated", and the result true, are about the email and the    *)
(* password that authenticate was called with.                             *)
VerdictIsOwn == \A t \in Thread : valid[t] = "true" => Vouched(t)

(* A call that runs beside no other has its own verdict, whatever context  *)
(* and properties earlier calls, overlapping ones included, have left, and *)
(* also when its connection fails and it goes on with an old context: true *)
(* is about the entry found for its email and about its password.  Nothing *)
(* is said of calls with an empty password and of emails that no entry     *)
(* matches, which the helper sends to the server like any others.          *)
LoneVerdictIsOwn ==
    \A t \in Thread \ overlapped : valid[t] = "true" => Vouched(t)
=============================================================================
