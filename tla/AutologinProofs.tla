---------------------------- MODULE AutologinProofs ----------------------------
(***************************************************************************)
(* The properties of Autologin for every set of people, threads, stored    *)
(* users and codes, and every validity period.  What happens in the store  *)
(* is taken from the theorems of AutologinStoreProofs: the composition     *)
(* only calls it.                                                          *)
(***************************************************************************)
EXTENDS Autologin, AutologinStoreProofs

(* A getUser call holds an entry of the code that it was called with, and  *)
(* what it returned had been issued.                                       *)
HeldIsAsked ==
    /\ \A t \in Thread : pc[t] \in Redeeming => held[t].code = request[t]
    /\ redeemed \subseteq issued

StoreInv == TypeOK /\ Ownership /\ OneTimeUse /\ IssuedOnce /\ HeldIsAsked

(* A code in a link is that of an entry for the person of the link. *)
LinksAreOwn ==
    \A p \in Person : \A c \in links[p] :
        \E e \in issued : e.code = c /\ name[e.user] = p

(* What is in a session, and what has opened one, was returned by getUser. *)
OpenedIsRedeemed ==
    /\ \A p \in Person : session[p] # Null => \E e \in redeemed : e.user = session[p]
    /\ \A u \in User : openings[u] # 0 => \E e \in redeemed : e.user = u

AutologinInv ==
    /\ AutologinTypeOK /\ LinksAreOwn /\ OpenedIsRedeemed
    /\ SessionIsOwn /\ OneSessionPerCode

-----------------------------------------------------------------------------
(* The store. *)

(* One statement of one thread keeps HeldIsAsked. *)
LEMMA NextHeldIsAsked ==
    TypeOK /\ KeysMatch /\ IssuedOnce /\ HeldIsAsked /\ [Next]_vars => HeldIsAsked'
<1> SUFFICES ASSUME TypeOK, KeysMatch, IssuedOnce, HeldIsAsked, [Next]_vars
             PROVE  HeldIsAsked'
  OBVIOUS
<1> USE StoreAssumption
<1> USE DEF TypeOK, Location, Owns, Building, Redeeming,
        shared, local, history, Goto, Hold, Return, HeldIsAsked
<1>1. ASSUME NEW t \in Thread, NEW c \in Code, GetUser(t, c) PROVE HeldIsAsked'
  BY <1>1 DEF GetUser
<1>2. ASSUME NEW t \in Thread, NEW u \in User, StoreUser(t, u) PROVE HeldIsAsked'
  BY <1>2 DEF StoreUser
<1>3. ASSUME NEW t \in Thread, FlushCheck(t) PROVE HeldIsAsked'
  BY <1>3 DEF FlushCheck, AfterFlush
<1>4. ASSUME NEW t \in Thread, FlushStamp(t) PROVE HeldIsAsked'
  BY <1>4 DEF FlushStamp
<1>5. ASSUME NEW t \in Thread, FlushPoll(t) PROVE HeldIsAsked'
  BY <1>5 DEF FlushPoll, FirstDue, AfterFlush
<1>6. ASSUME NEW t \in Thread, FlushDrop(t) PROVE HeldIsAsked'
  BY <1>6 DEF FlushDrop
<1>7. ASSUME NEW t \in Thread, Take(t) PROVE HeldIsAsked'
  BY <1>7 DEF Take, KeysMatch
<1>8. ASSUME NEW t \in Thread, CheckDelay(t) PROVE HeldIsAsked'
  BY <1>8 DEF CheckDelay, AfterDelay
<1>9. ASSUME NEW t \in Thread, Discard(t) PROVE HeldIsAsked'
  BY <1>9 DEF Discard
<1>10. ASSUME NEW t \in Thread, Unqueue(t) PROVE HeldIsAsked'
  BY <1>10 DEF Unqueue, IssuedOnce
<1>11. ASSUME NEW t \in Thread, PutBack(t) PROVE HeldIsAsked'
  BY <1>11 DEF PutBack, IssuedOnce
<1>12. ASSUME NEW t \in Thread, Generate(t) PROVE HeldIsAsked'
  BY <1>12 DEF Generate
<1>13. ASSUME NEW t \in Thread, Enqueue(t) PROVE HeldIsAsked'
  BY <1>13 DEF Enqueue
<1>14. ASSUME NEW t \in Thread, Publish(t) PROVE HeldIsAsked'
  BY <1>14 DEF Publish
<1>15. CASE Tick
  BY <1>15 DEF Tick
<1>16. CASE UNCHANGED vars
  BY <1>16 DEF vars
<1> QED
  BY <1>1, <1>2, <1>3, <1>4, <1>5, <1>6, <1>7, <1>8, <1>9, <1>10, <1>11,
     <1>12, <1>13, <1>14, <1>15, <1>16 DEF Next, Step

(* The store keeps StoreInv. *)
LEMMA StoreInvariance == Spec => []StoreInv
<1>1. Init => HeldIsAsked
  BY DEF Init, HeldIsAsked, Redeeming
<1>2. TypeOK /\ Ownership /\ IssuedOnce /\ HeldIsAsked /\ [Next]_vars => HeldIsAsked'
  BY NextHeldIsAsked DEF Ownership
<1> QED
  BY <1>1, <1>2, OwnershipInvariance, OriginInvariance, OneTimeCodesAreUsedOnce,
     PTL DEF Spec, StoreInv

(* What one statement in the store does for the caller: nothing, until the *)
(* method returns; then storeUser has issued the entry, and getUser has    *)
(* returned its user or null.                                              *)
LEMMA StepEffect ==
    ASSUME TypeOK, NEW t \in Thread, Step(t)
    PROVE  /\ \A s \in Thread \ {t} : /\ pc'[s] = pc[s]
                                      /\ request'[s] = request[s]
                                      /\ held'[s] = held[s]
           /\ pc[t] # "idle"
           /\ stored' = stored
           /\ pc'[t] # "idle" => UNCHANGED <<request, issued, redeemed>>
           /\ pc'[t] = "idle" /\ request[t] \in User =>
                 /\ pc[t] = "publish"
                 /\ issued' = issued \cup {held[t]}
                 /\ redeemed' = redeemed
           /\ pc'[t] = "idle" /\ request[t] \in Code =>
                 /\ pc[t] \in {"take"} \cup Redeeming
                 /\ issued' = issued
                 /\ redeemed' = IF Found(t) THEN redeemed \cup {held[t]} ELSE redeemed
<1> USE StoreAssumption
<1> USE DEF TypeOK, Location, Owns, Building, Redeeming,
        shared, local, history, Goto, Hold, Return, Found
<1>1. CASE FlushCheck(t) BY <1>1 DEF FlushCheck, AfterFlush
<1>2. CASE FlushStamp(t) BY <1>2 DEF FlushStamp
<1>3. CASE FlushPoll(t) BY <1>3 DEF FlushPoll, FirstDue, AfterFlush
<1>4. CASE FlushDrop(t) BY <1>4 DEF FlushDrop
<1>5. CASE Take(t) BY <1>5 DEF Take
<1>6. CASE CheckDelay(t) BY <1>6 DEF CheckDelay, AfterDelay
<1>7. CASE Discard(t) BY <1>7 DEF Discard
<1>8. CASE Unqueue(t) BY <1>8 DEF Unqueue
<1>9. CASE PutBack(t) BY <1>9 DEF PutBack
<1>10. CASE Generate(t) BY <1>10 DEF Generate
<1>11. CASE Enqueue(t) BY <1>11 DEF Enqueue
<1>12. CASE Publish(t) BY <1>12 DEF Publish
<1> QED
  BY <1>1, <1>2, <1>3, <1>4, <1>5, <1>6, <1>7, <1>8, <1>9, <1>10, <1>11,
     <1>12 DEF Step

-----------------------------------------------------------------------------
(* The composition. *)

(* To the store the endpoints are callers like any others. *)
LEMMA AutologinCallsStore == [AutologinNext]_autologinVars => [Next]_vars
<1> SUFFICES ASSUME [AutologinNext]_autologinVars PROVE [Next]_vars
  OBVIOUS
<1>1. ASSUME NEW t \in Thread, PostAutologin(t) PROVE [Next]_vars
  BY <1>1 DEF PostAutologin
<1>2. ASSUME NEW t \in Thread, AskClientInfo(t) PROVE [Next]_vars
  BY <1>2 DEF AskClientInfo
<1>3. ASSUME NEW t \in Thread, GenerateAutologinCode(t) PROVE [Next]_vars
  BY <1>3 DEF GenerateAutologinCode, Next
<1>4. ASSUME NEW t \in Thread, NEW p \in Person, NEW c \in Code, FollowLink(t, p, c)
      PROVE  [Next]_vars
  BY <1>4 DEF FollowLink, Next
<1>5. ASSUME NEW t \in Thread, StoreStep(t) PROVE [Next]_vars
  BY <1>5 DEF StoreStep, Next
<1>6. CASE Tick
  BY <1>6 DEF Next
<1>7. CASE UNCHANGED autologinVars
  BY <1>7 DEF autologinVars
<1> QED
  BY <1>1, <1>2, <1>3, <1>4, <1>5, <1>6, <1>7 DEF AutologinNext

(* Whatever holds of the store on its own holds of it under autologin. *)
THEOREM AutologinUsesTheStore == AutologinSpec => Spec
<1>1. AutologinInit => Init
  BY DEF AutologinInit
<1> QED
  BY <1>1, AutologinCallsStore, PTL DEF AutologinSpec, Spec

(* So under the endpoints, too, a redeemed one-time code is nowhere, a live *)
(* code is never lost, what can be redeemed can be collected, what is gone *)
(* stays gone, a stale flush stays so, and codes live the abstract life.   *)
THEOREM AutologinKeepsTheStore ==
    AutologinSpec => /\ []OneTimeUse
                     /\ []NoLostCode
                     /\ []LiveEntriesAreQueued
                     /\ FlushNeverResumes
                     /\ ImplementsLifecycle
                     /\ Lifecycle!GoneStaysGone
  BY AutologinUsesTheStore, OneTimeCodesAreUsedOnce, NoCodeIsLost, LiveEntriesStayQueued,
     StaleFlushNeverResumes, StoreImplementsLifecycle, GoneCodesStayGone

(* Initially nobody has a link, a session or a request under way. *)
LEMMA InitAutologinInv == AutologinInit => AutologinInv
  BY StoreAssumption, AutologinAssumption
     DEF AutologinInit, Init, AutologinInv, AutologinTypeOK, LinksAreOwn,
         OpenedIsRedeemed, SessionIsOwn, OneSessionPerCode

(* A step that stores, issues and redeems nothing, and leaves names, links *)
(* and sessions alone, keeps what they promise.                            *)
LEMMA NothingMoves ==
    ASSUME AutologinInv, issued' = issued,
           redeemed' = redeemed, Given \subseteq Given',
           UNCHANGED <<name, browser>>
    PROVE  (LinksAreOwn /\ OpenedIsRedeemed /\ SessionIsOwn /\ OneSessionPerCode)'
<1>1. \A e \in issued : OnlyEntry(e)' => OnlyEntry(e)
  BY DEF OnlyEntry
<1> QED
  BY <1>1 DEF AutologinInv, LinksAreOwn, OpenedIsRedeemed, SessionIsOwn,
              OneSessionPerCode, browser

(* A client posts, and the filter lets the request pass or not. *)
LEMMA PostAutologinInv ==
    ASSUME StoreInv, AutologinInv, NEW t \in Thread,
           PostAutologin(t) \/ AskClientInfo(t)
    PROVE  AutologinInv'
<1>1. UNCHANGED <<vars, name, browser>>
  BY DEF PostAutologin, AskClientInfo
<1>2. Given' = Given
  BY <1>1 DEF Given, Owns, vars, history, local
<1>3. AutologinTypeOK'
  BY <1>1, AutologinAssumption
     DEF PostAutologin, AskClientInfo, Answer, Become, AutologinInv,
         AutologinTypeOK, vars, local, history, browser
<1> QED
  BY <1>1, <1>2, <1>3, NothingMoves DEF AutologinInv, vars, history

(* The controller stores an Authentication that nobody has stored before. *)
LEMMA GenerateAutologinCodeInv ==
    ASSUME StoreInv, AutologinInv, NEW t \in Thread, GenerateAutologinCode(t)
    PROVE  AutologinInv'
<1>1. CASE Answer(t) /\ UNCHANGED <<vars, name>>
  <2>1. UNCHANGED <<vars, name, browser>>
    BY <1>1 DEF GenerateAutologinCode
  <2>2. Given' = Given
    BY <2>1 DEF Given, Owns, vars, history, local
  <2>3. AutologinTypeOK'
    BY <1>1, <2>1, AutologinAssumption
       DEF GenerateAutologinCode, Answer, Become, AutologinInv,
           AutologinTypeOK, vars, local, history, browser
  <2> QED
    BY <2>1, <2>2, <2>3, NothingMoves DEF AutologinInv, vars, history
<1>2. ASSUME NEW p \in Person, NEW u \in User, StoreUser(t, u),
             name' = [name EXCEPT ![u] = p], Become(t, "store", p)
      PROVE  AutologinInv'
  <2>1. /\ u \notin stored /\ stored' = stored \cup {u}
        /\ pc[t] = "idle"
        /\ pc' = [pc EXCEPT ![t] = "flush"]
        /\ request' = [request EXCEPT ![t] = u]
        /\ UNCHANGED <<held, issued, redeemed, links, session, openings>>
    BY <1>2 DEF StoreUser, Goto, GenerateAutologinCode, browser
  <2>2. \A v \in stored : v \in User /\ name'[v] = name[v]
    BY <1>2, <2>1 DEF StoreInv, TypeOK, AutologinInv, AutologinTypeOK
  <2>3. \A s \in Thread : request[s] \in User => request[s] \in stored
    BY DEF StoreInv, Ownership, UsersAreNew
  <2>4. AutologinTypeOK'
    <3>1. /\ task' = [task EXCEPT ![t] = "store"]
          /\ who' = [who EXCEPT ![t] = p]
          /\ name' = [name EXCEPT ![u] = p]
      BY <1>2 DEF Become
    <3> QED
      BY <2>1, <2>2, <2>3, <3>1, AutologinAssumption
         DEF AutologinInv, AutologinTypeOK, StoreInv, TypeOK, Location
  <2>5. Given' = Given
    BY <2>1 DEF Given, Owns, Building, Redeeming, StoreInv, TypeOK
  <2>6. \A e \in issued : name'[e.user] = name[e.user]
    BY <2>2 DEF StoreInv, IssuedOnce
  <2>7. LinksAreOwn' /\ OpenedIsRedeemed' /\ OneSessionPerCode'
    BY <2>1, <2>6 DEF AutologinInv, LinksAreOwn, OpenedIsRedeemed, OneSessionPerCode
  <2>8. SessionIsOwn'
    BY <2>1, <2>5, <2>6 DEF AutologinInv, SessionIsOwn, OnlyEntry
  <2> QED
    BY <2>4, <2>7, <2>8 DEF AutologinInv
<1> QED
  BY <1>1, <1>2 DEF GenerateAutologinCode

(* A browser brings a code of one of its links. *)
LEMMA FollowLinkInv ==
    ASSUME StoreInv, AutologinInv, NEW t \in Thread, NEW p \in Person,
           NEW c \in Code, FollowLink(t, p, c)
    PROVE  AutologinInv'
<1>1. /\ pc[t] = "idle" /\ c \in links[p]
      /\ pc' = [pc EXCEPT ![t] = "flush"]
      /\ request' = [request EXCEPT ![t] = c]
      /\ task' = [task EXCEPT ![t] = "redeem"]
      /\ who' = [who EXCEPT ![t] = p]
      /\ UNCHANGED <<held, issued, redeemed, stored, name, browser>>
  BY DEF FollowLink, GetUser, Goto, Become, history
<1>2. Given' = Given
  BY <1>1 DEF Given, Owns, Building, Redeeming, StoreInv, TypeOK
<1>3. AutologinTypeOK'
  BY <1>1, AutologinAssumption
     DEF AutologinInv, AutologinTypeOK, StoreInv, TypeOK, Location, browser
<1> QED
  BY <1>1, <1>2, <1>3, NothingMoves DEF AutologinInv

(* storeUser returns: the code is one of the person of the request. *)
LEMMA GiveCodeInv ==
    ASSUME StoreInv, AutologinInv, NEW t \in Thread, Step(t), AutologinTypeOK',
           task[t] = "store", pc'[t] = "idle", GiveCode(t), UNCHANGED name
    PROVE  (LinksAreOwn /\ OpenedIsRedeemed /\ SessionIsOwn /\ OneSessionPerCode)'
<1>1. request[t] \in User /\ name[request[t]] = who[t]
  BY DEF AutologinInv, AutologinTypeOK
<1>2. /\ pc[t] = "publish" /\ issued' = issued \cup {held[t]}
      /\ redeemed' = redeemed /\ stored' = stored
  BY <1>1, StepEffect DEF StoreInv
<1>3. held[t] \in TokenExpiry /\ held[t].user = request[t]
  BY <1>2 DEF StoreInv, TypeOK, IssuedOnce, Owns, Building
<1>4. UNCHANGED <<session, openings, name>>
  BY DEF GiveCode
<1>5. LinksAreOwn'
  <2>1. ASSUME NEW p \in Person, NEW c \in links'[p]
        PROVE  \/ c \in links[p]
               \/ p = who[t] /\ c = held[t].code
    BY <2>1 DEF GiveCode, AutologinInv, AutologinTypeOK
  <2>2. ASSUME NEW p \in Person, NEW c \in links'[p]
        PROVE  \E e \in issued' : e.code = c /\ name'[e.user] = p
    <3>1. CASE c \in links[p]
      BY <1>2, <1>4, <3>1 DEF AutologinInv, LinksAreOwn
    <3>2. CASE p = who[t] /\ c = held[t].code
      BY <1>1, <1>2, <1>3, <1>4, <3>2
    <3> QED
      BY <2>1, <3>1, <3>2
  <2> QED
    BY <2>2 DEF LinksAreOwn
<1>6. SessionIsOwn'
  <2> SUFFICES ASSUME NEW p \in Person, NEW e \in issued',
                      session[p] = e.user, OnlyEntry(e)'
               PROVE  name[e.user] = p
    BY <1>4 DEF SessionIsOwn
  <2>1. e # held[t]
    <3>1. \A f \in redeemed : f.user # request[t]
      BY <1>1 DEF StoreInv, HeldIsAsked, IssuedOnce
    <3>2. held[t].user # session[p]
      BY <1>1, <1>3, <3>1, StoreAssumption
         DEF AutologinInv, OpenedIsRedeemed, TokenExpiry
    <3> QED
      BY <3>2
  <2>2. e \in issued /\ OnlyEntry(e)
    BY <1>2, <2>1, OnlyEntryBefore DEF Next, StoreInv, TypeOK
  <2> QED
    BY <2>2 DEF AutologinInv, SessionIsOwn
<1> QED
  BY <1>2, <1>4, <1>5, <1>6
     DEF AutologinInv, OpenedIsRedeemed, OneSessionPerCode

(* getUser returns a user: the only one that has the code asked for, and   *)
(* one that was never returned.                                            *)
LEMMA OpenSessionInv ==
    ASSUME StoreInv, AutologinInv, NEW t \in Thread, Step(t), AutologinTypeOK',
           task[t] = "redeem", pc'[t] = "idle", Found(t), OpenSession(t),
           UNCHANGED name
    PROVE  (LinksAreOwn /\ OpenedIsRedeemed /\ SessionIsOwn /\ OneSessionPerCode)'
<1> DEFINE p == who[t]
<1> DEFINE u == held[t].user
<1>1. p \in Person /\ request[t] \in links[p] /\ request[t] \in Code
  BY DEF AutologinInv, AutologinTypeOK
<1>2. issued' = issued /\ redeemed' = redeemed \cup {held[t]} /\ stored' = stored
  BY <1>1, StepEffect DEF StoreInv
<1>3. /\ held[t] \in issued /\ held[t].code = request[t]
      /\ u \in User
  BY DEF Found, StoreInv, IssuedOnce, HeldIsAsked, Redeeming, TypeOK, Owns,
         TokenExpiry
<1>4. /\ links' = links /\ session' = [session EXCEPT ![p] = u]
      /\ openings' = [openings EXCEPT ![u] = IF @ < 2 THEN @ + 1 ELSE @]
  BY DEF OpenSession, CountOpening
<1>5. LinksAreOwn'
  BY <1>2, <1>4 DEF AutologinInv, LinksAreOwn
<1>6. OpenedIsRedeemed'
  <2>1. \A q \in Person : session'[q] # Null => \E e \in redeemed' : e.user = session'[q]
    BY <1>1, <1>2, <1>3, <1>4 DEF AutologinInv, AutologinTypeOK, OpenedIsRedeemed
  <2>2. \A v \in User : v # u => openings'[v] = openings[v]
    BY <1>4 DEF AutologinInv, AutologinTypeOK
  <2>3. \A v \in User : openings'[v] # 0 => \E e \in redeemed' : e.user = v
    BY <1>2, <2>2 DEF AutologinInv, OpenedIsRedeemed
  <2> QED
    BY <2>1, <2>3 DEF OpenedIsRedeemed
<1>7. SessionIsOwn'
  <2> SUFFICES ASSUME NEW q \in Person, NEW e \in issued,
                      session'[q] = e.user, OnlyEntry(e)'
               PROVE  name[e.user] = q
    BY <1>2 DEF SessionIsOwn
  <2>1. OnlyEntry(e)
    BY OnlyEntryBefore DEF Next, StoreInv, TypeOK
  <2>2. CASE q # p
    BY <1>1, <1>4, <2>1, <2>2 DEF AutologinInv, AutologinTypeOK, SessionIsOwn
  <2>3. CASE q = p
    <3>1. e.user = u
      BY <1>1, <1>4, <2>3 DEF AutologinInv, AutologinTypeOK
    <3>2. e = held[t]
      BY <1>3, <3>1 DEF StoreInv, IssuedOnce
    <3>3. PICK f \in issued : f.code = request[t] /\ name[f.user] = p
      BY <1>1 DEF AutologinInv, LinksAreOwn
    <3>4. f = e
      BY <1>3, <2>1, <3>2, <3>3 DEF OnlyEntry, Given
    <3> QED
      BY <2>3, <3>3, <3>4
  <2> QED
    BY <2>2, <2>3
<1>8. OneSessionPerCode'
  <2>1. SUFFICES ASSUME ExpireCodeWhenUsed, NEW v \in User PROVE openings'[v] <= 1
    BY DEF OneSessionPerCode
  <2>2. openings[v] \in 0 .. 1
    BY <2>1 DEF AutologinInv, AutologinTypeOK, OneSessionPerCode
  <2>3. CASE v # u
    BY <1>4, <2>2, <2>3 DEF AutologinInv, AutologinTypeOK
  <2>4. CASE v = u
    <3>1. held[t] \notin redeemed
      BY <2>1 DEF Found, StoreInv, OneTimeUse, Owns, Redeeming
    <3>2. \A e \in redeemed : e.user # u
      BY <1>3, <3>1 DEF StoreInv, HeldIsAsked, IssuedOnce
    <3>3. openings[u] = 0
      BY <1>3, <3>2 DEF AutologinInv, OpenedIsRedeemed
    <3> QED
      BY <1>4, <1>3, <2>4, <3>3 DEF AutologinInv, AutologinTypeOK
  <2> QED
    BY <2>3, <2>4
<1> QED
  BY <1>5, <1>6, <1>7, <1>8

(* A thread in the store takes a step, and returns or does not. *)
LEMMA StoreStepInv ==
    ASSUME StoreInv, AutologinInv, NEW t \in Thread, StoreStep(t)
    PROVE  AutologinInv'
<1>1. /\ Step(t) /\ UNCHANGED name
      /\ task[t] \in {"store", "redeem"}
      /\ \/ pc'[t] # "idle" /\ UNCHANGED <<ongoing, browser>>
         \/ pc'[t] = "idle" /\ Answer(t)
  BY DEF StoreStep
<1>2. /\ \A s \in Thread \ {t} : pc'[s] = pc[s] /\ request'[s] = request[s]
      /\ pc'[t] # "idle" => UNCHANGED <<request, issued, redeemed>>
      /\ stored' = stored
  BY <1>1, StepEffect DEF StoreInv
<1>3. Given \subseteq Given'
  BY <1>1, GivenGrows DEF StoreInv, Next
<1>4. CASE pc'[t] # "idle"
  <2>1. UNCHANGED <<ongoing, browser>>
    BY <1>1, <1>4
  <2>2. AutologinTypeOK'
    BY <1>1, <1>2, <1>4, <2>1 DEF AutologinInv, AutologinTypeOK, ongoing, browser
  <2> QED
    BY <1>1, <1>2, <1>3, <1>4, <2>1, <2>2, NothingMoves DEF AutologinInv
<1>5. CASE pc'[t] = "idle"
  <2>1. /\ task' = [task EXCEPT ![t] = "none"]
        /\ who' = [who EXCEPT ![t] = Null]
    BY <1>1, <1>5 DEF Answer, Become
  <2>2. \A s \in Thread \ {t} : task'[s] = task[s] /\ who'[s] = who[s]
    BY <2>1 DEF AutologinInv, AutologinTypeOK
  <2>3. \/ task[t] = "store" /\ GiveCode(t)
        \/ task[t] = "redeem" /\ Found(t) /\ OpenSession(t)
        \/ task[t] = "redeem" /\ ~Found(t) /\ UNCHANGED browser
    BY <1>5 DEF StoreStep
  <2>4. /\ links' \in [Person -> SUBSET Code]
        /\ session' \in [Person -> User \cup {Null}]
        /\ openings' \in [User -> 0 .. 2]
        /\ \A p \in Person : links[p] \subseteq links'[p]
    <3>1. CASE task[t] = "store" /\ GiveCode(t)
      <4>1. who[t] \in Person /\ request[t] \in User
        BY <3>1 DEF AutologinInv, AutologinTypeOK
      <4>2. held[t].code \in Code
        BY <1>1, <1>5, <4>1, StepEffect
           DEF StoreInv, TypeOK, Owns, Building, TokenExpiry
      <4> QED
        BY <3>1, <4>1, <4>2 DEF GiveCode, AutologinInv, AutologinTypeOK
    <3>2. CASE task[t] = "redeem" /\ Found(t) /\ OpenSession(t)
      <4>1. held[t].user \in User
        BY <3>2 DEF Found, StoreInv, TypeOK, Owns, Redeeming, TokenExpiry
      <4> QED
        BY <3>2, <4>1 DEF OpenSession, CountOpening, AutologinInv, AutologinTypeOK
    <3>3. CASE UNCHANGED browser
      BY <3>3 DEF browser, AutologinInv, AutologinTypeOK
    <3> QED
      BY <2>3, <3>1, <3>2, <3>3
  <2>5. AutologinTypeOK'
    BY <1>1, <1>2, <1>5, <2>1, <2>2, <2>4, AutologinAssumption
       DEF AutologinInv, AutologinTypeOK
  <2>6. CASE task[t] = "redeem" /\ ~Found(t) /\ UNCHANGED browser
    <3>1. request[t] \in Code
      BY <2>6 DEF AutologinInv, AutologinTypeOK
    <3>2. issued' = issued /\ redeemed' = redeemed
      BY <1>1, <1>5, <2>6, <3>1, StepEffect DEF StoreInv
    <3> QED
      BY <1>1, <1>2, <1>3, <2>5, <2>6, <3>2, NothingMoves DEF AutologinInv
  <2> QED
    BY <1>1, <1>5, <2>3, <2>5, <2>6, GiveCodeInv, OpenSessionInv DEF AutologinInv
<1> QED
  BY <1>4, <1>5

(* Every step of a client, a browser, the clock or a thread keeps the      *)
(* invariant.                                                              *)
LEMMA NextAutologinInv ==
    StoreInv /\ AutologinInv /\ [AutologinNext]_autologinVars => AutologinInv'
<1> SUFFICES ASSUME StoreInv, AutologinInv, [AutologinNext]_autologinVars
             PROVE  AutologinInv'
  OBVIOUS
<1>1. ASSUME UNCHANGED <<shared, local, history, ongoing, name, browser>>
      PROVE  AutologinInv'
  <2>1. Given' = Given
    BY <1>1 DEF Given, Owns, history, local
  <2>2. AutologinTypeOK'
    BY <1>1 DEF AutologinInv, AutologinTypeOK, local, ongoing, browser
  <2> QED
    BY <1>1, <2>1, <2>2, NothingMoves DEF AutologinInv, history
<1>2. CASE Tick /\ UNCHANGED <<ongoing, name, browser>>
  BY <1>1, <1>2 DEF Tick
<1>3. CASE UNCHANGED autologinVars
  BY <1>1, <1>3 DEF autologinVars, vars
<1> QED
  BY <1>2, <1>3, PostAutologinInv, GenerateAutologinCodeInv, FollowLinkInv,
     StoreStepInv DEF AutologinNext

(* The inductive invariant: the store's own, which it keeps under any      *)
(* callers, and that of the endpoints.                                     *)
LEMMA AutologinInvariance == AutologinSpec => [](StoreInv /\ AutologinInv)
  BY AutologinUsesTheStore, StoreInvariance, InitAutologinInv,
     NextAutologinInv, PTL DEF AutologinSpec

-----------------------------------------------------------------------------
(* The theorems. *)

(* A thread in the store is there for the request it began with. *)
THEOREM AutologinTypeCorrectness == AutologinSpec => []AutologinTypeOK
<1>1. AutologinInv => AutologinTypeOK
  BY DEF AutologinInv
<1> QED
  BY <1>1, AutologinInvariance, PTL

(* Whoever follows links, and whatever the store does meanwhile, a link    *)
(* logs in the person it was made for, unless a code was drawn again.      *)
THEOREM LinksLogInTheirPerson == AutologinSpec => []SessionIsOwn
<1>1. AutologinInv => SessionIsOwn
  BY DEF AutologinInv
<1> QED
  BY <1>1, AutologinInvariance, PTL

(* A one-time code opens one session, however often and on however many    *)
(* threads at once its link is followed.                                   *)
THEOREM LinksOpenOneSession == AutologinSpec => []OneSessionPerCode
<1>1. AutologinInv => OneSessionPerCode
  BY DEF AutologinInv
<1> QED
  BY <1>1, AutologinInvariance, PTL

(* The store refuses a fresh code that no other entry was given only when  *)
(* it has been redeemed or another call has it in hand.                    *)
LEMMA FreshCodeIsFound ==
    ASSUME StoreInv, Provenance, NoLostCode,
           NEW t \in Thread, Step(t), pc'[t] = "idle", ~Found(t),
           NEW e \in issued, request[t] = e.code, ~Expired(e), OnlyEntry(e)
    PROVE  e \in redeemed \/ \E s \in Thread \ {t} : held[s] = e
<1>1. e \in TokenExpiry /\ request[t] \in Code
  BY DEF StoreInv, TypeOK, TokenExpiry
<1>2. pc[t] \in {"take"} \cup Redeeming
  BY <1>1, StepEffect DEF StoreInv
<1>3. CASE pc[t] = "take"
  <2>1. codes[e.code] = Null
    BY <1>3 DEF Step, FlushCheck, FlushStamp, FlushPoll, FlushDrop, Take,
            CheckDelay, Discard, Unqueue, PutBack, Generate, Enqueue, Publish,
            Goto, StoreInv, TypeOK
  <2>2. \/ \E s \in Thread : pc[s] \in Redeeming /\ held[s] = e
        \/ e \in redeemed
    BY <1>1, <2>1, StoreAssumption DEF NoLostCode
  <2> QED
    BY <1>3, <2>2 DEF Redeeming
<1>4. CASE pc[t] = "delay"
  BY <1>4 DEF Step, FlushCheck, FlushStamp, FlushPoll, FlushDrop, Take,
            CheckDelay, Discard, Unqueue, PutBack, Generate, Enqueue, Publish,
            Goto, AfterDelay, StoreInv, TypeOK
<1>5. CASE pc[t] = "discard"
  <2>1. /\ Expired(held[t]) /\ held[t] \in TokenExpiry
        /\ held[t].code = e.code /\ held[t] \in issued
    BY <1>5 DEF Provenance, StoreInv, HeldIsAsked, IssuedOnce, Redeeming,
            TypeOK, Owns
  <2> QED
    BY <1>1, <2>1 DEF OnlyEntry, Given
<1> QED
  BY <1>2, <1>3, <1>4, <1>5 DEF Redeeming, Found

(* A fresh link works, and is not lost to what others store, redeem and    *)
(* flush, as long as the generator does not draw its code again.           *)
THEOREM FreshLinksWork == AutologinSpec => FreshLinkWorks
<1> DEFINE Fresh == \A t \in Thread, e \in issued :
          /\ task[t] = "redeem" /\ task'[t] = "none" /\ ~Found(t)
          /\ request[t] = e.code /\ ~Expired(e) /\ OnlyEntry(e)
          => \/ e \in redeemed
             \/ \E s \in Thread \ {t} : held[s] = e
<1>1. StoreInv /\ AutologinInv /\ Provenance /\ NoLostCode /\ [AutologinNext]_autologinVars
        => [Fresh]_autologinVars
  <2> SUFFICES ASSUME StoreInv, AutologinInv, Provenance, NoLostCode, AutologinNext,
                      NEW t \in Thread, NEW e \in issued,
                      task[t] = "redeem", task'[t] = "none", ~Found(t),
                      request[t] = e.code, ~Expired(e), OnlyEntry(e)
               PROVE  e \in redeemed \/ \E s \in Thread \ {t} : held[s] = e
    OBVIOUS
  <2>1. Step(t) /\ pc'[t] = "idle"
    BY DEF AutologinNext, PostAutologin, AskClientInfo, GenerateAutologinCode,
           FollowLink, StoreStep, Answer, Become, ongoing, AutologinInv,
           AutologinTypeOK
  <2> QED
    BY <2>1, FreshCodeIsFound
<1> QED
  BY <1>1, AutologinUsesTheStore, AutologinInvariance, OriginInvariance,
     NoCodeIsLost, PTL
     DEF AutologinSpec, FreshLinkWorks
=============================================================================
