---------------------------- MODULE UaaProxyProofs ----------------------------
(* Proofs about UaaProxy, for any threads, sessions and cookies. *)
EXTENDS UaaProxy, TLAPS

-----------------------------------------------------------------------------
(* Type correctness. *)

(* The type invariant holds before the first request. *)
LEMMA InitTyped == Init => TypeOK
  BY DEF Init, TypeOK

(* Every step of a request keeps the types. *)
LEMMA NextTyped == TypeOK /\ [Next]_vars => TypeOK'
<1> SUFFICES ASSUME TypeOK, [Next]_vars PROVE TypeOK'
  OBVIOUS
<1> USE UaaProxyAssumption DEF history, Goto, Fail
<1>1. ASSUME NEW t \in Thread, NEW s \in Session, NEW h \in Handler, Receive(t, s, h)
      PROVE  TypeOK'
  BY <1>1 DEF Receive, TypeOK
<1>2. ASSUME NEW t \in Thread, StartAuthorization(t) PROVE TypeOK'
  <2>1. session[t] \in Session
    BY <1>2 DEF StartAuthorization, TypeOK
  <2>2. PICK c \in Cookie \cup {Null} :
          /\ \/ c = Null /\ UNCHANGED <<giver, model, jar>>
             \/ /\ c # Null /\ giver[c] = Null
                /\ giver' = [giver EXCEPT ![c] = session[t]]
                /\ model' = [model EXCEPT ![t] = Saved(@, c)]
                /\ jar' = Remembered({c})
          /\ \/ Goto(t, "end") /\ page' = [page EXCEPT ![session[t]] = c]
             \/ Goto(t, "end") /\ page' = [page EXCEPT ![session[t]] = Null]
             \/ Fail(t) /\ UNCHANGED page
    BY <1>2 DEF StartAuthorization
  <2>3. /\ giver' \in [Cookie -> Session \cup {Null}]
        /\ model' \in [Thread -> Cookie \cup {Null}]
        /\ jar' \in SUBSET Cookie
    BY <2>1, <2>2 DEF Saved, Remembered, TypeOK
  <2>4. /\ page' \in [Session -> Cookie \cup {Null}]
        /\ pc' \in [Thread -> {"idle", "call", "end"}]
        /\ \A u \in Thread : pc'[u] # "idle" => pc[u] # "idle"
    BY <1>2, <2>1, <2>2 DEF StartAuthorization, TypeOK
  <2>5. sent' \in [Thread -> SUBSET Cookie] /\ UNCHANGED <<cookie, handler, session, answered>>
    BY <1>2 DEF StartAuthorization, TypeOK
  <2> QED
    BY <2>3, <2>4, <2>5 DEF TypeOK
<1>3. ASSUME NEW t \in Thread, Passthru(t) PROVE TypeOK'
  <2>1. sent' \in [Thread -> SUBSET Cookie]
    BY <1>3 DEF Passthru, TypeOK
  <2>2. /\ pc' \in [Thread -> {"idle", "call", "end"}]
        /\ \A u \in Thread : pc'[u] # "idle" => pc[u] # "idle"
    BY <1>3 DEF Passthru, TypeOK
  <2> QED
    BY <1>3, <2>1, <2>2 DEF Passthru, TypeOK
<1>4. ASSUME NEW t \in Thread, Prompts(t) PROVE TypeOK'
  BY <1>4 DEF Prompts, TypeOK
<1>5. ASSUME NEW t \in Thread, End(t) PROVE TypeOK'
  <2>1. session[t] \in Session
    BY <1>5 DEF End, TypeOK
  <2>2. /\ cookie' \in [Session -> Cookie \cup {Null}]
        /\ page' \in [Session -> Cookie \cup {Null}]
        /\ answered' \in SUBSET Session
    BY <1>5, <2>1 DEF End, TypeOK
  <2> QED
    BY <1>5, <2>2 DEF End, TypeOK
<1>6. CASE UNCHANGED vars
  BY <1>6 DEF vars, request, TypeOK
<1> QED
  BY <1>1, <1>2, <1>3, <1>4, <1>5, <1>6 DEF Next

(* TypeOK holds in every reachable state, overlapping requests included. *)
THEOREM TypeCorrectness == Spec => []TypeOK
  BY InitTyped, NextTyped, PTL DEF Spec

-----------------------------------------------------------------------------
(* Whose cookies there are, with or without overlapping requests. *)

(* The UAA gave out cookie c for session s. *)
GivenTo(c, s) == s \in Session /\ giver[c] = s

(* The client remembers nothing; sessions, models and requests hold what   *)
(* was given out for their session.                                        *)
CookiesAreOwn ==
    /\ jar = {}
    /\ \A s \in Session : cookie[s] # Null => GivenTo(cookie[s], s)
    /\ \A t \in Thread : model[t] # Null => GivenTo(model[t], session[t])
    /\ \A t \in Thread : \A c \in sent[t] : GivenTo(c, session[t])

(* Initially no cookie has been given out. *)
LEMMA InitOwn == Init => CookiesAreOwn
  BY DEF Init, CookiesAreOwn

(* A cookie moves between a session and the models of its requests only. *)
LEMMA NextOwn == TypeOK /\ CookiesAreOwn /\ [Next]_vars => CookiesAreOwn'
<1> SUFFICES ASSUME TypeOK, CookiesAreOwn, [Next]_vars PROVE CookiesAreOwn'
  OBVIOUS
<1> USE UaaProxyAssumption DEF history, Goto, Fail, GivenTo
<1>1. ASSUME NEW t \in Thread, NEW s \in Session, NEW h \in Handler, Receive(t, s, h)
      PROVE  CookiesAreOwn'
  BY <1>1 DEF Receive, TypeOK, CookiesAreOwn
<1>2. ASSUME NEW t \in Thread, StartAuthorization(t) PROVE CookiesAreOwn'
  <2>1. /\ session[t] \in Session /\ UNCHANGED <<session, cookie>> /\ jar' = {}
        /\ \A u \in Thread : sent'[u] = IF u = t THEN {} ELSE sent[u]
    BY <1>2 DEF StartAuthorization, Remembered, TypeOK, CookiesAreOwn
  <2>2. \A c \in Cookie : giver[c] # Null => giver'[c] = giver[c]
    BY <1>2 DEF StartAuthorization, TypeOK
  <2>3. \A u \in Thread : model'[u] = model[u] \/ (u = t /\ giver'[model'[t]] = session[t])
    BY <1>2 DEF StartAuthorization, Saved, TypeOK
  <2>4. \A c \in Cookie, r \in Session : GivenTo(c, r) => GivenTo(c, r)'
    BY <2>2
  <2> QED
    BY <2>1, <2>3, <2>4 DEF CookiesAreOwn, TypeOK
<1>3. ASSUME NEW t \in Thread, Passthru(t) PROVE CookiesAreOwn'
  BY <1>3 DEF Passthru, TypeOK, CookiesAreOwn
<1>4. ASSUME NEW t \in Thread, Prompts(t) PROVE CookiesAreOwn'
  BY <1>4 DEF Prompts, TypeOK, CookiesAreOwn
<1>5. ASSUME NEW t \in Thread, End(t) PROVE CookiesAreOwn'
  <2>1. /\ session[t] \in Session
        /\ UNCHANGED <<jar, session, model, sent, giver>>
        /\ \A s \in Session : cookie'[s] \in {cookie[s], Null}
                              \/ (s = session[t] /\ cookie'[s] = model[t])
    BY <1>5 DEF End, TypeOK
  <2> QED
    BY <2>1 DEF CookiesAreOwn, TypeOK
<1>6. CASE UNCHANGED vars
  BY <1>6 DEF vars, request, CookiesAreOwn
<1> QED
  BY <1>1, <1>2, <1>3, <1>4, <1>5, <1>6 DEF Next

(* No request to the UAA carries a cookie of another session, however many *)
(* requests of however many sessions overlap.                              *)
THEOREM SessionsNeverMix == Spec => []SessionsDoNotMix
<1>1. CookiesAreOwn => SessionsDoNotMix
  BY DEF CookiesAreOwn, SessionsDoNotMix, GivenTo
<1> QED
  BY <1>1, InitOwn, NextOwn, TypeCorrectness, PTL DEF Spec

-----------------------------------------------------------------------------
(* Sessions whose requests do not overlap, beside those whose requests do. *)

Careful == Session \ Overlapping

(* A request of a careful session is under way in thread t. *)
CarefulRequest(t) == pc[t] # "idle" /\ session[t] \in Careful

Starting(t) == pc[t] = "end" /\ handler[t] = "start"

(* One request of a careful session at a time. *)
OneRequest ==
    \A t, u \in Thread :
        CarefulRequest(t) /\ pc[u] # "idle" /\ session[t] = session[u] => t = u

(* Until a start has its answer, a request has the cookie of its session.  *)
ModelIsCurrent ==
    \A t \in Thread :
        CarefulRequest(t) /\ ~Starting(t) => model[t] = cookie[session[t]]

(* The cookie behind the page is the one of the session, or is about to be.*)
PageIsSaved ==
    /\ \A t \in Thread :
          CarefulRequest(t) /\ Starting(t) /\ page[session[t]] # Null
             => model[t] = page[session[t]]
    /\ \A s \in Careful :
          page[s] # Null /\ (\A t \in Thread : ~(Starting(t) /\ session[t] = s))
             => cookie[s] = page[s]

(* An approval presents the cookie of its model. *)
ApprovalSendsModel ==
    \A t \in Thread :
        pc[t] = "end" /\ handler[t] = "approve" => sent[t] = {model[t]} \ {Null}

(* After an approval a careful session has no cookie. *)
CookieGone == \A s \in Careful : s \in answered => cookie[s] = Null

IInv ==
    /\ TypeOK
    /\ CookiesAreOwn
    /\ OneRequest
    /\ ModelIsCurrent
    /\ PageIsSaved
    /\ ApprovalSendsModel
    /\ CookieGone

(* Initially there is no request and no cookie. *)
LEMMA InitInvariant == Init => IInv
  BY InitTyped, InitOwn
     DEF Init, IInv, OneRequest, CarefulRequest, Careful, Starting, ModelIsCurrent,
         PageIsSaved, ApprovalSendsModel, CookieGone

(* Every step of a request keeps cookie, model and page of the careful     *)
(* sessions together: it is the lone request of such a session, or one of  *)
(* another session and touches none of them.                               *)
LEMMA NextInvariant == IInv /\ [Next]_vars => IInv'
<1> SUFFICES ASSUME IInv, [Next]_vars PROVE IInv'
  OBVIOUS
<1>0. TypeOK /\ TypeOK' /\ CookiesAreOwn /\ CookiesAreOwn'
  BY NextTyped, NextOwn DEF IInv
<1> USE UaaProxyAssumption
    DEF history, Goto, Fail, IInv, OneRequest, CarefulRequest, Careful, ModelIsCurrent,
        PageIsSaved, ApprovalSendsModel, CookieGone, Starting
<1>1. ASSUME NEW t \in Thread, NEW s \in Session, NEW h \in Handler, Receive(t, s, h)
      PROVE  IInv'
  <2>1. /\ pc[t] = "idle" /\ pc'[t] = "call" /\ session'[t] = s /\ model'[t] = cookie[s]
        /\ \A u \in Thread \ {t} : /\ pc'[u] = pc[u] /\ session'[u] = session[u]
                                   /\ model'[u] = model[u] /\ handler'[u] = handler[u]
                                   /\ sent'[u] = sent[u]
                                   /\ (s \in Careful /\ pc[u] # "idle" => session[u] # s)
        /\ UNCHANGED <<cookie, page, answered>>
    BY <1>0, <1>1 DEF Receive, TypeOK
  <2>2. OneRequest'
    BY <2>1
  <2>3. ModelIsCurrent'
    BY <2>1
  <2>4. PageIsSaved'
    BY <1>0, <2>1
  <2>5. ApprovalSendsModel' /\ CookieGone'
    BY <2>1
  <2> QED
    BY <1>0, <2>2, <2>3, <2>4, <2>5
<1>2. ASSUME NEW t \in Thread, StartAuthorization(t) PROVE IInv'
  <2>1. /\ pc[t] = "call" /\ handler[t] = "start" /\ session[t] \in Session
        /\ UNCHANGED <<cookie, handler, session, answered>>
        /\ \A u \in Thread \ {t} : /\ pc'[u] = pc[u] /\ model'[u] = model[u]
                                   /\ sent'[u] = sent[u]
        /\ \A r \in Session \ {session[t]} : page'[r] = page[r]
        /\ \A u \in Thread \ {t} :
              session[t] \in Careful /\ pc[u] # "idle" => session[u] # session[t]
    BY <1>0, <1>2 DEF StartAuthorization, TypeOK
  <2>2. \/ pc'[t] = "idle" /\ page' = page
        \/ pc'[t] = "end" /\ page'[session[t]] \in {Null, model'[t]}
    BY <1>0, <1>2, <2>1 DEF StartAuthorization, Saved, TypeOK
  <2>3. OneRequest'
    BY <2>1
  <2>4. ModelIsCurrent'
    BY <2>1, <2>2
  <2>5. PageIsSaved'
    BY <1>0, <2>1, <2>2 DEF TypeOK
  <2>6. ApprovalSendsModel' /\ CookieGone'
    BY <2>1
  <2> QED
    BY <1>0, <2>3, <2>4, <2>5, <2>6
<1>3. ASSUME NEW t \in Thread, Passthru(t) PROVE IInv'
  <2>1. /\ pc[t] = "call" /\ handler[t] # "start" /\ session[t] \in Session
        /\ pc'[t] \in {"end", "idle"} /\ sent'[t] = {model[t]} \ {Null}
        /\ UNCHANGED <<cookie, handler, session, model, page, answered>>
        /\ \A u \in Thread \ {t} : pc'[u] = pc[u] /\ sent'[u] = sent[u]
    BY <1>0, <1>3 DEF Passthru, TypeOK, CookiesAreOwn
  <2> QED
    BY <1>0, <2>1
<1>4. ASSUME NEW t \in Thread, Prompts(t) PROVE IInv'
  <2>1. /\ pc[t] = "call" /\ handler[t] = "prompts" /\ pc'[t] = "end"
        /\ UNCHANGED <<cookie, handler, session, model, page, answered>>
        /\ \A u \in Thread \ {t} : pc'[u] = pc[u] /\ sent'[u] = sent[u]
    BY <1>0, <1>4 DEF Prompts, TypeOK
  <2> QED
    BY <1>0, <2>1
<1>5. ASSUME NEW t \in Thread, End(t) PROVE IInv'
  <2> DEFINE s == session[t]
  <2>1. /\ pc[t] = "end" /\ pc'[t] = "idle" /\ s \in Session
        /\ UNCHANGED <<handler, session, model, sent>>
        /\ \A u \in Thread \ {t} : pc'[u] = pc[u]
        /\ \A r \in Session \ {s} : /\ cookie'[r] = cookie[r] /\ page'[r] = page[r]
                                    /\ r \in answered' <=> r \in answered
    BY <1>0, <1>5 DEF End, TypeOK
  <2>2. CASE s \notin Careful
    BY <1>0, <2>1, <2>2 DEF TypeOK
  <2>3. CASE s \in Careful
    <3>0. \A u \in Thread \ {t} : pc[u] # "idle" => session[u] # s
      BY <2>1, <2>3
    <3>1. CASE handler[t] = "approve"
      <4>1. cookie'[s] = Null /\ page'[s] = Null
        BY <1>0, <1>5, <2>1, <3>1 DEF End, Cleanup, TypeOK
      <4> QED
        BY <1>0, <2>1, <3>0, <4>1 DEF TypeOK
    <3>2. CASE handler[t] # "approve"
      <4>1. /\ cookie'[s] = IF model[t] # Null THEN model[t] ELSE cookie[s]
            /\ page'[s] = page[s]
            /\ s \in answered' <=> s \in answered /\ handler[t] # "start"
        BY <1>0, <1>5, <2>1, <3>2 DEF End, Cleanup, TypeOK
      <4>2. page[s] # Null => cookie'[s] = page[s]
        BY <1>0, <2>1, <2>3, <3>0, <4>1 DEF TypeOK
      <4>3. s \in answered' => cookie'[s] = Null
        BY <1>0, <2>1, <2>3, <4>1 DEF TypeOK
      <4> QED
        BY <1>0, <2>1, <3>0, <4>1, <4>2, <4>3 DEF TypeOK
    <3> QED
      BY <3>1, <3>2
  <2> QED
    BY <2>2, <2>3
<1>6. CASE UNCHANGED vars
  BY <1>0, <1>6 DEF vars, request
<1> QED
  BY <1>1, <1>2, <1>3, <1>4, <1>5, <1>6 DEF Next

(* The strengthening is an invariant. *)
LEMMA Invariance == Spec => []IInv
  BY InitInvariant, NextInvariant, PTL DEF Spec

(* A browser that sends one request at a time approves the flow whose page *)
(* it shows, whatever other browsers send.                                 *)
THEOREM ApprovalsMatchPages == Spec => []ApprovalMatchesPage
<1>1. IInv => ApprovalMatchesPage
  <2> SUFFICES ASSUME IInv, NEW t \in Thread, pc[t] = "end", handler[t] = "approve",
                      session[t] \notin Overlapping, page[session[t]] # Null
               PROVE  sent[t] = {page[session[t]]}
    BY DEF ApprovalMatchesPage
  <2>1. CarefulRequest(t) /\ session[t] \in Careful
    BY UaaProxyAssumption DEF IInv, TypeOK, CarefulRequest, Careful
  <2>2. \A u \in Thread : ~(Starting(u) /\ session[u] = session[t])
    BY <2>1 DEF IInv, OneRequest, Starting
  <2>3. cookie[session[t]] = page[session[t]] /\ model[t] = cookie[session[t]]
    BY <2>1, <2>2 DEF IInv, PageIsSaved, ModelIsCurrent, Starting
  <2> QED
    BY <2>3 DEF IInv, ApprovalSendsModel
<1> QED
  BY <1>1, Invariance, PTL

(* From the end of an approval to the next start such a browser's session  *)
(* has no cookie.                                                          *)
THEOREM CookiesAreGone == Spec => []CookieGoneUnlessOverlap
<1>1. IInv => CookieGoneUnlessOverlap
  BY DEF IInv, TypeOK, CookieGone, Careful, CookieGoneUnlessOverlap
<1> QED
  BY <1>1, Invariance, PTL
=============================================================================
