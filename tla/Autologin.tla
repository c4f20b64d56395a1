------------------------------- MODULE Autologin -------------------------------
(***************************************************************************)
(* The autologin endpoints over the store of AutologinStore.  A client     *)
(* (a portal, say) posts a user's name and password to /autologin and gets *)
(* a code; it sends the user's browser to /oauth/authorize with the code,  *)
(* and the login server exchanges it for the session of that user.         *)
(*                                                                         *)
(* ClientInfoAuthenticationFilter and AutologinController make one remote  *)
(* call each, and keep no state; then the thread is in storeUser.  The     *)
(* request of the browser is in getUser from the start, by way of          *)
(* AutologinAuthenticationManager.  Requests of clients and browsers run   *)
(* beside each other, as fast or as slow as the clock allows.              *)
(*                                                                         *)
(* External: the clients, which send a link to the browser of the user     *)
(* they have named; the browsers, one per person, which may follow a link  *)
(* they were sent at any time and any number of times, also twice at once; *)
(* and AuthzAuthenticationFilter, which puts what the manager returns into *)
(* the HTTP session.                                                       *)
(***************************************************************************)
EXTENDS AutologinStore

CONSTANT Person     \* the people with an account

VARIABLES
    task,       \* what the request of each thread is at
    who,        \* the person it names, or whose browser sent it
    name,       \* the person that each stored Authentication names
    links,      \* the codes in the links that each browser has been sent
    session,    \* the Authentication in each browser's session
    openings    \* history: how often each Authentication has opened one

ongoing == <<task, who>>
browser == <<links, session, openings>>
autologinVars == <<vars, ongoing, name, browser>>

ASSUME AutologinAssumption == Null \notin Person

GrantType == {"authorization_code", "client_credentials"}

AutologinInit ==
    /\ Init
    /\ task = [t \in Thread |-> "none"]
    /\ who = [t \in Thread |-> Null]
    /\ name = [u \in User |-> Null]
    /\ links = [p \in Person |-> {}]
    /\ session = [p \in Person |-> Null]
    /\ openings = [u \in User |-> 0]

(* Where the request of t is now, and whom it is about. *)
Become(t, l, p) ==
    /\ task' = [task EXCEPT ![t] = l]
    /\ who' = [who EXCEPT ![t] = p]

(* Mutant of Answer: the thread keeps the person of its last request. *)
AnswerKeepsPerson(t) == Become(t, "none", who[t])

(* The request is answered. *)
Answer(t) == Become(t, "none", Null)

-----------------------------------------------------------------------------
(* POST /autologin. *)

(* A client sends a request. Nothing looks at its body before the          *)
(* controller.                                                             *)
PostAutologin(t) ==
    /\ task[t] = "none"
    /\ Become(t, "clientinfo", Null)
    /\ UNCHANGED <<vars, name, browser>>

(* validateClient; the pattern for client ids allows all of them. *)
Permitted(grants) == "authorization_code" \in grants

(* The filter asks the UAA for the client that the Basic header names.     *)
(* Without such a header the request is refused after the filter, and with *)
(* any RuntimeException - no answer, no body, no client - by it.           *)
AskClientInfo(t) ==
    /\ task[t] = "clientinfo"
    /\ \/ \E grants \in SUBSET GrantType :
             IF Permitted(grants) THEN Become(t, "authenticate", Null) ELSE Answer(t)
       \/ Answer(t)
    /\ UNCHANGED <<vars, name, browser>>

(* The controller refuses a request without name or password; it logs the  *)
(* user in, which throws or returns an authentication that it drops; and   *)
(* it stores one of its own for the name in the request.                   *)
GenerateAutologinCode(t) ==
    /\ task[t] = "authenticate"
    /\ \/ \E p \in Person, u \in User :
             /\ StoreUser(t, u)
             /\ name' = [name EXCEPT ![u] = p]
             /\ Become(t, "store", p)
       \/ Answer(t) /\ UNCHANGED <<vars, name>>
    /\ UNCHANGED browser

(* storeUser returns the code, and the client sends the browser of the     *)
(* user there - unless the answer gets lost.                               *)
GiveCode(t) ==
    /\ \/ links' = [links EXCEPT ![who[t]] = @ \cup {held[t].code}]
       \/ UNCHANGED links
    /\ UNCHANGED <<session, openings>>

-----------------------------------------------------------------------------
(* A browser follows a link that it has been sent. *)
FollowLink(t, p, c) ==
    /\ task[t] = "none"
    /\ c \in links[p]
    /\ GetUser(t, c)
    /\ Become(t, "redeem", p)
    /\ UNCHANGED <<name, browser>>

(* The statements of getUser that return a user and not null. *)
Found(t) == pc[t] \in {"unqueue", "putBack"}

(* Bound: openings are counted up to two. *)
CountOpening(u) == openings' = [openings EXCEPT ![u] = IF @ < 2 THEN @ + 1 ELSE @]

(* Mutant of OpenSession: the user in a field that all requests share. *)
OpenSessionFromField(t) ==
    /\ \E s \in Thread :
          /\ Found(s)
          /\ session' = [session EXCEPT ![who[t]] = held[s].user]
          /\ CountOpening(held[s].user)
    /\ UNCHANGED links

(* The user is authenticated: a token around the stored Authentication. *)
OpenSession(t) ==
    /\ session' = [session EXCEPT ![who[t]] = held[t].user]
    /\ CountOpening(held[t].user)
    /\ UNCHANGED links

(* A step in the store, and what its return leads to. *)
StoreStep(t) ==
    /\ task[t] \in {"store", "redeem"}
    /\ Step(t)
    /\ \/ pc'[t] # "idle" /\ UNCHANGED <<ongoing, browser>>
       \/ /\ pc'[t] = "idle"
          /\ Answer(t)
          /\ \/ task[t] = "store" /\ GiveCode(t)
             \/ task[t] = "redeem" /\ Found(t) /\ OpenSession(t)
             \/ task[t] = "redeem" /\ ~Found(t) /\ UNCHANGED browser
    /\ UNCHANGED name

AutologinNext ==
    \/ \E t \in Thread :
          \/ PostAutologin(t) \/ AskClientInfo(t) \/ GenerateAutologinCode(t)
          \/ \E p \in Person, c \in Code : FollowLink(t, p, c)
          \/ StoreStep(t)
    \/ Tick /\ UNCHANGED <<ongoing, name, browser>>

AutologinSpec == AutologinInit /\ [][AutologinNext]_autologinVars

-----------------------------------------------------------------------------
(* Properties. *)

(* Type invariant: the shapes, and what a thread that is in the store is   *)
(* there for: to store the Authentication of the person its request names, *)
(* or to redeem a code that its browser was sent.                          *)
AutologinTypeOK ==
    /\ task \in [Thread -> {"none", "clientinfo", "authenticate", "store", "redeem"}]
    /\ who \in [Thread -> Person \cup {Null}]
    /\ name \in [User -> Person \cup {Null}]
    /\ links \in [Person -> SUBSET Code]
    /\ session \in [Person -> User \cup {Null}]
    /\ openings \in [User -> 0 .. 2]
    /\ \A t \in Thread :
          /\ task[t] \in {"store", "redeem"} <=> pc[t] # "idle"
          /\ task[t] \in {"store", "redeem"} <=> who[t] # Null
          /\ task[t] = "store" => request[t] \in User /\ name[request[t]] = who[t]
          /\ task[t] = "redeem" => request[t] \in links[who[t]]

(* The link that a client has sent to a browser logs in the person it was  *)
(* made for, and no one else, whichever requests are in the store beside   *)
(* it - unless the generator has drawn the code of that link again.        *)
SessionIsOwn ==
    \A p \in Person, e \in issued :
        session[p] = e.user /\ OnlyEntry(e) => name[e.user] = p

(* "Autologin code (short-lived, one-time)": a link opens one session,     *)
(* also when a browser follows it twice at once.                           *)
OneSessionPerCode == ExpireCodeWhenUsed => \A u \in User : openings[u] <= 1

(* A link that works: a browser that follows its link before it expires is *)
(* refused only if the link has been followed before or is being followed, *)
(* however many other codes are stored, redeemed and flushed meanwhile.    *)
FreshLinkWorks ==
    [][\A t \in Thread, e \in issued :
          /\ task[t] = "redeem" /\ task'[t] = "none" /\ ~Found(t)
          /\ request[t] = e.code /\ ~Expired(e) /\ OnlyEntry(e)
          => \/ e \in redeemed
             \/ \E s \in Thread \ {t} : held[s] = e]_autologinVars
=============================================================================
