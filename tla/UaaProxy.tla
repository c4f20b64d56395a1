------------------------------- MODULE UaaProxy -------------------------------
(***************************************************************************)
(* RemoteUaaController: the handlers behind /oauth/authorize, /oauth/token *)
(* and /login, and the back-end cookie they keep in the HTTP session.  The *)
(* UAA gives out a cookie with its answer to startAuthorization; the       *)
(* confirmation page of the browser is answered with approveOrDeny, which  *)
(* has to present that cookie to the UAA, and then to forget it.           *)
(*                                                                         *)
(* The cookie is a session attribute of Spring MVC: copied into the model  *)
(* when a request starts and copied back when its handler returns, without *)
(* a lock on the session.  A request is therefore three steps: receive,    *)
(* call the UAA, and end; a handler that throws copies nothing back.       *)
(***************************************************************************)
CONSTANTS
    Thread,     \* the servlet threads
    Session,    \* the HTTP sessions of the browsers
    Cookie,     \* the cookies the UAA can give out; bounds the answers
    Null,
    Overlapping \* the sessions whose browser may send requests that overlap

VARIABLES
    cookie,     \* the session attribute "cookie" of each session
    jar,        \* cookies the HttpClient of the rest templates remembers
    pc,         \* where each thread is
    handler,    \* the handler it runs
    session,    \* the session of its request
    model,      \* the attribute "cookie" in its model
    sent,       \* cookies on its last request to the UAA
    giver,      \* history: the session for which the UAA gave out a cookie
    page,       \* history: the cookie given with the page a browser shows
    answered    \* history: sessions whose last flow has been approved

request == <<pc, handler, session, model, sent>>
history == <<giver, page, answered>>
vars == <<cookie, jar, request, history>>

(* "prompts" is /login and /info; "sundry" is /oauth/token and /oauth/error.*)
Handler == {"start", "approve", "sundry", "prompts"}

ASSUME UaaProxyAssumption ==
    Overlapping \subseteq Session /\ Null \notin Cookie \cup Session \cup Handler

TypeOK ==
    /\ cookie \in [Session -> Cookie \cup {Null}]
    /\ jar \in SUBSET Cookie
    /\ pc \in [Thread -> {"idle", "call", "end"}]
    /\ handler \in [Thread -> Handler \cup {Null}]
    /\ session \in [Thread -> Session \cup {Null}]
    /\ model \in [Thread -> Cookie \cup {Null}]
    /\ sent \in [Thread -> SUBSET Cookie]
    /\ giver \in [Cookie -> Session \cup {Null}]
    /\ page \in [Session -> Cookie \cup {Null}]
    /\ answered \in SUBSET Session
    /\ \A t \in Thread : pc[t] # "idle" => session[t] # Null /\ handler[t] # Null

Init ==
    /\ cookie = [s \in Session |-> Null]
    /\ jar = {}
    /\ pc = [t \in Thread |-> "idle"]
    /\ handler = [t \in Thread |-> Null]
    /\ session = [t \in Thread |-> Null]
    /\ model = [t \in Thread |-> Null]
    /\ sent = [t \in Thread |-> {}]
    /\ giver = [c \in Cookie |-> Null]
    /\ page = [s \in Session |-> Null]
    /\ answered = {}

Goto(t, l) == pc' = [pc EXCEPT ![t] = l]

-----------------------------------------------------------------------------
(* A request arrives; the session attribute is copied into the model. *)
Receive(t, s, h) ==
    /\ pc[t] = "idle"
    /\ s \in Overlapping \/ \A u \in Thread : pc[u] = "idle" \/ session[u] # s
    /\ handler' = [handler EXCEPT ![t] = h]
    /\ session' = [session EXCEPT ![t] = s]
    /\ model' = [model EXCEPT ![t] = cookie[s]]
    /\ sent' = [sent EXCEPT ![t] = {}]
    /\ Goto(t, "call")
    /\ UNCHANGED <<cookie, jar, history>>

(* The handler throws: no answer from the UAA, a status of 500 or more,    *)
(* nobody logged in, or an answer that is neither a page nor a redirect.   *)
Fail(t) == Goto(t, "idle")

(* Mutant of Remembered: the client keeps cookies, as it does by default.  *)
RememberedByDefault(cs) == jar \cup cs

(* CookiePolicy.IGNORE_COOKIES: the client keeps no cookie it receives.    *)
Remembered(cs) == jar

(* Mutant of Saved: the first cookie stays. *)
SavedOnce(old, new) == IF old = Null THEN new ELSE old

(* Mutant of Saved: the values are appended to the old ones. *)
SavedAppended(old, new) == {old, new}

(* saveCookie: what the model holds after an answer with Set-Cookie. *)
Saved(old, new) == new

(* startAuthorization sends no cookie of its own.  The answer brings a new *)
(* cookie or none, and is a confirmation page, a redirect or a failure.    *)
StartAuthorization(t) ==
    /\ pc[t] = "call" /\ handler[t] = "start"
    /\ sent' = [sent EXCEPT ![t] = jar]
    /\ \E c \in Cookie \cup {Null} :
          /\ \/ c = Null /\ UNCHANGED <<giver, model, jar>>
             \/ /\ c # Null /\ giver[c] = Null
                /\ giver' = [giver EXCEPT ![c] = session[t]]
                /\ model' = [model EXCEPT ![t] = Saved(@, c)]
                /\ jar' = Remembered({c})
          /\ \/ Goto(t, "end") /\ page' = [page EXCEPT ![session[t]] = c]
             \/ Goto(t, "end") /\ page' = [page EXCEPT ![session[t]] = Null]
             \/ Fail(t) /\ UNCHANGED page
    /\ UNCHANGED <<cookie, handler, session, answered>>

(* passthru: the request goes on with the saved cookie, if there is one.   *)
Passthru(t) ==
    /\ pc[t] = "call" /\ handler[t] \in {"approve", "sundry"}
    /\ sent' = [sent EXCEPT ![t] = jar \cup ({model[t]} \ {Null})]
    /\ Goto(t, "end") \/ Fail(t)
    /\ UNCHANGED <<cookie, jar, handler, session, model, history>>

(* prompts asks the UAA, or uses its defaults when there is no answer. *)
Prompts(t) ==
    /\ pc[t] = "call" /\ handler[t] = "prompts"
    /\ sent' = [sent EXCEPT ![t] = jar]
    /\ Goto(t, "end")
    /\ UNCHANGED <<cookie, jar, handler, session, model, history>>

(* Mutant of Cleanup: the session is not marked as complete. *)
NoCleanup(t) == FALSE

(* SessionStatus.setComplete in approveOrDeny. *)
Cleanup(t) == handler[t] = "approve"

(* The handler has returned: the attribute is removed if the status is     *)
(* complete; else it is stored, if the model has it.                       *)
End(t) ==
    /\ pc[t] = "end"
    /\ LET s == session[t] IN
       /\ cookie' = [cookie EXCEPT ![s] = IF Cleanup(t) THEN Null
                                          ELSE IF model[t] # Null THEN model[t]
                                          ELSE @]
       /\ page' = [page EXCEPT ![s] = IF handler[t] = "approve" THEN Null ELSE @]
       /\ answered' = IF handler[t] = "approve" THEN answered \cup {s}
                      ELSE IF handler[t] = "start" THEN answered \ {s}
                      ELSE answered
    /\ Goto(t, "idle")
    /\ UNCHANGED <<jar, handler, session, model, sent, giver>>

Next ==
    \E t \in Thread :
        \/ \E s \in Session, h \in Handler : Receive(t, s, h)
        \/ StartAuthorization(t)
        \/ Passthru(t)
        \/ Prompts(t)
        \/ End(t)

Spec == Init /\ [][Next]_vars

-----------------------------------------------------------------------------
(* Properties. *)

(* What the UAA receives on behalf of a session carries no cookie that it  *)
(* gave out for another one, although all sessions share the rest          *)
(* templates and their HttpClient, and requests of all sessions overlap.   *)
SessionsDoNotMix ==
    \A t \in Thread : \A c \in sent[t] : giver[c] = session[t]

(* A browser that sends one request at a time approves the flow whose page *)
(* it shows: approveOrDeny presents the cookie of that page, also after    *)
(* other requests of the session, after attempts that failed, and whatever *)
(* requests of other browsers overlap with it.                             *)
ApprovalMatchesPage ==
    \A t \in Thread :
        /\ pc[t] = "end" /\ handler[t] = "approve"
        /\ session[t] \notin Overlapping /\ page[session[t]] # Null
        => sent[t] = {page[session[t]]}

(* From the end of such a browser's approval to its next start there is no *)
(* cookie in its session, so no other flow can be approved with it.        *)
CookieGoneUnlessOverlap ==
    \A s \in answered \ Overlapping : cookie[s] = Null

(* "We want to remove the remote session cookie in approveOrDeny": from    *)
(* the end of an approval to the next start the session has no cookie,     *)
(* whatever requests the browser sends.                                    *)
CookieGoneAfterApproval ==
    \A s \in answered : cookie[s] = Null
=============================================================================
