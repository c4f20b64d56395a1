--------------------------- MODULE LdapContextProofs ---------------------------
(* Proofs about LdapContext, for any threads, emails, entries and passwords. *)
EXTENDS LdapContext, TLAPS

-----------------------------------------------------------------------------
(* Type correctness. *)

(* The type invariant holds before the first call. *)
LEMMA InitTyped == Init => TypeOK
BY DEF Init, TypeOK, Name

(* Every access to the fields keeps the types. *)
LEMMA StepTyped ==
    ASSUME TypeOK, NEW t \in Thread, Step(t)
    PROVE  TypeOK'
<1>1. CASE NewEnv(t) \/ PutEnv(t, "factory", "url")
           \/ PutEnv(t, "url", "simple") \/ PutEnv(t, "simple", "open")
  BY <1>1 DEF NewEnv, PutEnv, Goto, directory, fields, arguments, TypeOK, Property
<1>2. CASE Open(t)
  <2>1. [usable |-> Needed \subseteq env, principal |-> "unset",
         credentials |-> "unset"] \in Context
    BY DEF Context
  <2>2. ctx' \in Context \/ ctx' = ctx
    BY <1>2, <2>1 DEF Open
  <2> QED BY <1>2, <2>2, LdapAssumption DEF Open, Goto, directory, fields, arguments, TypeOK
<1>3. CASE Search(t)
  <2>1. PICK dn \in Name : userDN' = [userDN EXCEPT ![t] = dn]
    BY <1>3 DEF Search
  <2> QED BY <1>3, <2>1 DEF Search, Goto, directory, fields, arguments, TypeOK
<1>4. CASE SetPrincipal(t)
  <2>1. CASE Throws(t)
    BY <1>4, <2>1 DEF SetPrincipal, Throws, Return, directory, arguments, TypeOK
  <2>2. CASE ~Throws(t)
    <3>1. /\ ctx \in Context
          /\ ctx' = [ctx EXCEPT !.principal = userDN[t]]
          /\ Goto(t, "credentials")
      BY <1>4, <2>2 DEF SetPrincipal, TypeOK
    <3>2. ctx' \in Context
      BY <3>1 DEF TypeOK, Context
    <3> QED BY <1>4, <3>1, <3>2, LdapAssumption DEF SetPrincipal, Goto, directory, arguments, TypeOK
  <2> QED BY <2>1, <2>2
<1>5. CASE SetCredentials(t)
  <2>1. CASE Throws(t)
    BY <1>5, <2>1 DEF SetCredentials, Throws, Return, directory, arguments, TypeOK
  <2>2. CASE ~Throws(t)
    <3>1. /\ ctx \in Context
          /\ ctx' = [ctx EXCEPT !.credentials = password[t]]
          /\ Goto(t, "reconnect")
      BY <1>5, <2>2 DEF SetCredentials, TypeOK
    <3>2. ctx' \in Context
      BY <1>5, <3>1 DEF SetCredentials, TypeOK, Context
    <3> QED BY <1>5, <3>1, <3>2, LdapAssumption DEF SetCredentials, Goto, directory, arguments, TypeOK
  <2> QED BY <2>1, <2>2
<1>6. CASE Reconnect(t)
  BY <1>6 DEF Reconnect, Return, directory, fields, arguments, TypeOK
<1> QED BY <1>1, <1>2, <1>3, <1>4, <1>5, <1>6 DEF Step

(* So does every step. *)
LEMMA NextTyped == TypeOK /\ [Next]_vars => TypeOK'
<1> SUFFICES ASSUME TypeOK, [Next]_vars PROVE TypeOK'
  OBVIOUS
<1>1. ASSUME NEW t \in Thread, NEW u \in User, NEW p \in Password \cup {Empty}, Authenticate(t, u, p)
      PROVE  TypeOK'
  BY <1>1, LdapAssumption DEF Authenticate, directory, fields, TypeOK, Name
<1>2. ASSUME NEW t \in Thread, Step(t) PROVE TypeOK'
  BY <1>2, StepTyped
<1>3. CASE UNCHANGED vars
  BY <1>3 DEF vars, directory, fields, arguments, TypeOK
<1> QED BY <1>1, <1>2, <1>3 DEF Next

(* TypeOK holds in every reachable state. *)
THEOREM TypeCorrectness == Spec => []TypeOK
BY InitTyped, NextTyped, PTL DEF Spec

-----------------------------------------------------------------------------
(* The strengthening: a call that runs beside no other is the only one     *)
(* that is running, and the context it is about to bind is its own.        *)

Alone ==
    \A t \in Thread \ overlapped : pc[t] # "idle" =>
        \A s \in Thread : pc[s] # "idle" => s = t

(* What a search has found is an entry that the filter of its email        *)
(* matches, none, or several of them.                                      *)
Found(t) == matches[user[t]] \cup {Empty, "several"}

FoundIsOwn == \A t \in Thread : pc[t] # "idle" => userDN[t] \in Found(t)

(* A lone call binds what its own search has found, with its own password. *)
ContextIsOwn ==
    \A t \in Thread \ overlapped :
        /\ pc[t] \in {"credentials", "reconnect"} => ctx.principal = userDN[t]
        /\ pc[t] = "reconnect" => ctx.credentials = password[t]

(* While a call runs it has no verdict. *)
NoVerdictYet == \A t \in Thread : pc[t] # "idle" => valid[t] = "none"

IInv == TypeOK /\ Alone /\ FoundIsOwn /\ ContextIsOwn /\ NoVerdictYet /\ LoneVerdictIsOwn

(* Initially no call runs. *)
LEMMA InitInvariant == Init => IInv
BY InitTyped DEF Init, IInv, Alone, FoundIsOwn, ContextIsOwn, NoVerdictYet, LoneVerdictIsOwn

(* A call that starts beside others is marked, and so are they. *)
LEMMA AuthenticateInvariant ==
    ASSUME IInv, NEW t \in Thread, NEW u \in User, NEW p \in Password \cup {Empty},
           Authenticate(t, u, p)
    PROVE  IInv'
<1> USE DEF IInv, Authenticate, directory, fields
<1>1. TypeOK /\ TypeOK'
  BY NextTyped DEF Next
<1>2. /\ \A s \in Thread : s # t => /\ pc'[s] = pc[s] /\ user'[s] = user[s]
                                   /\ password'[s] = password[s]
                                   /\ userDN'[s] = userDN[s] /\ valid'[s] = valid[s]
      /\ pc'[t] = "env" /\ user'[t] = u /\ userDN'[t] = Empty /\ valid'[t] = "none"
      /\ ctx' = ctx /\ secret' = secret /\ matches' = matches /\ pc[t] = "idle"
  BY <1>1 DEF TypeOK
<1>3. CASE \A s \in Thread : pc[s] = "idle"
  <2>1. overlapped' = overlapped \ {t}
    BY <1>3
  <2> QED BY <1>1, <1>2, <1>3, <2>1
          DEF Alone, Found, FoundIsOwn, ContextIsOwn, NoVerdictYet, LoneVerdictIsOwn,
              Vouched
<1>4. CASE \E s \in Thread : pc[s] # "idle"
  <2>1. overlapped' = overlapped \cup {s \in Thread : pc[s] # "idle"} \cup {t}
    BY <1>4
  <2> QED BY <1>1, <1>2, <2>1
          DEF Alone, Found, FoundIsOwn, ContextIsOwn, NoVerdictYet, LoneVerdictIsOwn,
              Vouched
<1> QED BY <1>3, <1>4

(* What every step of a call leaves alone. *)
LEMMA StepFrame ==
    ASSUME TypeOK, NEW t \in Thread, Step(t)
    PROVE  /\ UNCHANGED <<secret, matches, user, password, overlapped>>
           /\ pc[t] # "idle"
           /\ \A s \in Thread : s # t => pc'[s] = pc[s] /\ userDN'[s] = userDN[s]
                                         /\ valid'[s] = valid[s]
<1> USE DEF directory, fields, arguments, Goto, Return, TypeOK
<1>1. CASE NewEnv(t) \/ PutEnv(t, "factory", "url")
           \/ PutEnv(t, "url", "simple") \/ PutEnv(t, "simple", "open")
  BY <1>1 DEF NewEnv, PutEnv
<1>2. CASE Open(t) \/ Search(t)
  BY <1>2 DEF Open, Search
<1>3. CASE SetPrincipal(t) \/ SetCredentials(t) \/ Reconnect(t)
  BY <1>3 DEF SetPrincipal, SetCredentials, Reconnect, Throws
<1> QED BY <1>1, <1>2, <1>3 DEF Step

(* What the step does for its own call. *)
LEMMA StepIsOwn ==
    ASSUME IInv, NEW t \in Thread, Step(t)
    PROVE  /\ pc'[t] # "idle" => valid'[t] = "none"
           /\ userDN'[t] \in Found(t)
           /\ t \notin overlapped =>
                 /\ pc'[t] \in {"credentials", "reconnect"} => ctx'.principal = userDN'[t]
                 /\ pc'[t] = "reconnect" => ctx'.credentials = password[t]
                 /\ valid'[t] = "true" => Vouched(t)'
<1>1. pc[t] # "idle" /\ valid[t] = "none" /\ userDN[t] \in Found(t)
      /\ TypeOK /\ user[t] \in User /\ password[t] \in Password \cup {Empty}
  BY StepFrame DEF IInv, NoVerdictYet, FoundIsOwn, TypeOK
<1> USE DEF directory, fields, arguments, Goto, Return
<1>2. CASE NewEnv(t) \/ PutEnv(t, "factory", "url")
           \/ PutEnv(t, "url", "simple") \/ PutEnv(t, "simple", "open")
  BY <1>1, <1>2 DEF NewEnv, PutEnv, TypeOK
<1>3. CASE Open(t)
  BY <1>1, <1>3 DEF Open, TypeOK
<1>4. CASE Search(t)
  <2>1. PICK found \in SUBSET matches[user[t]], dn \in Name :
          Joins(dn, found) /\ userDN' = [userDN EXCEPT ![t] = dn]
    BY <1>4 DEF Search
  <2>2. dn \in Found(t)
    BY <2>1 DEF Joins, Found
  <2> QED BY <1>1, <1>4, <2>1, <2>2 DEF Search, TypeOK
<1>5. CASE SetPrincipal(t)
  BY <1>1, <1>5 DEF SetPrincipal, Throws, TypeOK, Context
<1>6. CASE SetCredentials(t)
  BY <1>1, <1>6 DEF SetCredentials, Throws, TypeOK, Context, IInv, ContextIsOwn
<1>7. CASE Reconnect(t)
  <2>1. valid'[t] # "none" /\ pc'[t] = "idle" /\ userDN' = userDN
    BY <1>1, <1>7 DEF Reconnect, TypeOK
  <2>2. ASSUME t \notin overlapped, valid'[t] = "true"
        PROVE  Vouched(t)'
    <3>1. Binds(ctx)
      BY <1>1, <1>7, <2>2 DEF Reconnect, TypeOK
    <3>2. ctx.principal = userDN[t] /\ ctx.credentials = password[t]
      BY <1>7, <2>2 DEF Reconnect, IInv, ContextIsOwn
    <3>3. Vouched(t)
      <4>1. CASE userDN[t] \in {Empty, "several"}
        BY <1>1, <3>1, <3>2, <4>1, LdapAssumption DEF Binds, Vouched
      <4>2. CASE userDN[t] \in matches[user[t]]
        BY <1>1, <3>1, <3>2, <4>2, LdapAssumption DEF Binds, Vouched, TypeOK
      <4> QED BY <1>1, <4>1, <4>2 DEF Found
    <3> QED BY <1>7, <2>1, <3>3, StepFrame, <1>1 DEF Vouched
  <2> QED BY <1>1, <2>1, <2>2
<1> QED BY <1>2, <1>3, <1>4, <1>5, <1>6, <1>7 DEF Step

(* Every step keeps the strengthening. *)
LEMMA NextInvariant == IInv /\ [Next]_vars => IInv'
<1> SUFFICES ASSUME IInv, [Next]_vars PROVE IInv'
  OBVIOUS
<1>1. ASSUME NEW t \in Thread, NEW u \in User, NEW p \in Password \cup {Empty}, Authenticate(t, u, p)
      PROVE  IInv'
  BY <1>1, AuthenticateInvariant
<1>2. ASSUME NEW t \in Thread, Step(t) PROVE IInv'
  <2>1. TypeOK /\ TypeOK'
    BY <1>2, StepTyped DEF IInv
  <2>2. Alone' /\ NoVerdictYet' /\ FoundIsOwn'
    BY <1>2, <2>1, StepFrame, StepIsOwn DEF IInv, Alone, NoVerdictYet, Found, FoundIsOwn
  <2>3. ContextIsOwn'
    <3>1. ASSUME NEW s \in Thread, s \notin overlapped, s # t PROVE pc'[s] = "idle"
      BY <1>2, <2>1, <3>1, StepFrame DEF IInv, Alone
    <3> QED BY <1>2, <2>1, <3>1, StepFrame, StepIsOwn DEF ContextIsOwn
  <2>4. LoneVerdictIsOwn'
    <3>1. ASSUME NEW s \in Thread \ overlapped, valid'[s] = "true", s # t
          PROVE  Vouched(s)'
      BY <1>2, <2>1, <3>1, StepFrame DEF IInv, LoneVerdictIsOwn, Vouched
    <3>2. t \notin overlapped /\ valid'[t] = "true" => Vouched(t)'
      BY <1>2, StepIsOwn
    <3> QED BY <1>2, <2>1, <3>1, <3>2, StepFrame DEF LoneVerdictIsOwn
  <2> QED BY <2>1, <2>2, <2>3, <2>4 DEF IInv
<1>3. CASE UNCHANGED vars
  <2>1. TypeOK'
    BY NextTyped DEF IInv
  <2> QED BY <1>3, <2>1 DEF vars, directory, fields, arguments, IInv, Alone, Found,
                             FoundIsOwn, ContextIsOwn, NoVerdictYet,
                             LoneVerdictIsOwn, Vouched
<1> QED BY <1>1, <1>2, <1>3 DEF Next

(* A call that runs beside no other returns true for an entry of its own   *)
(* search and that entry's password only, or for a bind that had no        *)
(* password or no name: LoneVerdictIsOwn.                                  *)
THEOREM LoneVerdictsAreOwn == Spec => []LoneVerdictIsOwn
<1>1. IInv => LoneVerdictIsOwn
  BY DEF IInv
<1> QED BY <1>1, InitInvariant, NextInvariant, PTL DEF Spec
=============================================================================
