---------------------------- MODULE AutologinStore ----------------------------
(***************************************************************************)
(* DefaultAutologinCodeStore: the in-memory store of autologin codes that  *)
(* AutologinController fills and AutologinAuthenticationManager redeems.   *)
(*                                                                         *)
(* Every servlet thread may be inside getUser or storeUser at once and     *)
(* nothing locks the object, so a step of this module is ONE access to an  *)
(* object the threads share (the ConcurrentHashMap codes, the DelayQueue   *)
(* expiryQueue, the AtomicLong flushTimestamp) together with the reads of  *)
(* the clock and the local computation next to it.  AutologinController    *)
(* builds a new Authentication for each call of storeUser, so the user an  *)
(* entry carries identifies the TokenExpiry object.                        *)
(***************************************************************************)
EXTENDS Integers

CONSTANTS
    Thread,             \* the servlet threads
    User,               \* the Authentications stored, one per storeUser call
    Code,               \* the codes the generator can draw
    Null,               \* null
    ValidityPeriod,     \* validityPeriod
    ExpireCodeWhenUsed, \* expireCodeWhenUsed
    MaxTime             \* bound: the clock stops there

(* A TokenExpiry object. *)
TokenExpiry == [user : User, code : Code, expiry : Nat]

ASSUME StoreAssumption ==
    /\ ValidityPeriod \in Nat \ {0}
    /\ ExpireCodeWhenUsed \in BOOLEAN
    /\ MaxTime \in Nat
    /\ Code \cap User = {}
    /\ Null \notin Code \cup User \cup TokenExpiry

FlushInterval == ValidityPeriod * 2

VARIABLES
    now,            \* System.currentTimeMillis()
    codes,          \* the map from a code to its TokenExpiry, Null if absent
    expiryQueue,    \* the set of entries in the DelayQueue
    flushTimestamp, \* when flush last ran
    pc,             \* the statement each thread is about to execute
    request,        \* the code passed to getUser, or the user to storeUser
    held,           \* the TokenExpiry in the thread's local variable
    stored,         \* history: users storeUser has been called with
    issued,         \* history: entries whose code storeUser has returned
    redeemed        \* history: entries whose user getUser has returned

shared == <<codes, expiryQueue, flushTimestamp>>
local == <<pc, request, held>>
history == <<stored, issued, redeemed>>
vars == <<now, shared, local, history>>

Expired(e) == e.expiry - now <= 0

(* The statements at which the entry in held is in nobody else's hands:    *)
(* built but not yet published, or removed from codes and not yet returned.*)
Building == {"enqueue", "publish"}
Redeeming == {"delay", "discard", "unqueue", "putBack"}
Owns(t) == pc[t] \in Building \cup Redeeming

Location == {"idle", "flush", "stamp", "poll", "drop", "take", "generate"}
                \cup Building \cup Redeeming

(* Type invariant: the shape of every variable between any two statements, *)
(* and which locals are set where.                                         *)
TypeOK ==
    /\ now \in Nat
    /\ codes \in [Code -> TokenExpiry \cup {Null}]
    /\ expiryQueue \in SUBSET TokenExpiry
    /\ flushTimestamp \in Nat
    /\ pc \in [Thread -> Location]
    /\ request \in [Thread -> Code \cup User \cup {Null}]
    /\ held \in [Thread -> TokenExpiry \cup {Null}]
    /\ stored \in SUBSET User
    /\ issued \in SUBSET TokenExpiry
    /\ redeemed \in SUBSET TokenExpiry
    /\ \A t \in Thread :
          /\ pc[t] = "idle" <=> request[t] = Null
          /\ pc[t] \in {"take"} \cup Redeeming => request[t] \in Code
          /\ pc[t] \in {"generate"} \cup Building => request[t] \in User
          /\ (Owns(t) \/ pc[t] = "drop") => held[t] \in TokenExpiry

Init ==
    /\ now = 0
    /\ codes = [c \in Code |-> Null]
    /\ expiryQueue = {}
    /\ flushTimestamp = now
    /\ pc = [t \in Thread |-> "idle"]
    /\ request = [t \in Thread |-> Null]
    /\ held = [t \in Thread |-> Null]
    /\ stored = {}
    /\ issued = {}
    /\ redeemed = {}

(* The next statement of t, with its local entry. *)
Goto(t, l) == pc' = [pc EXCEPT ![t] = l]
Hold(t, e) == held' = [held EXCEPT ![t] = e]

(* The method returns to the controller; its locals are gone. *)
Return(t) ==
    /\ Goto(t, "idle")
    /\ Hold(t, Null)
    /\ request' = [request EXCEPT ![t] = Null]

(* Mutant of RemoveCode: get instead of remove. *)
GetCode(c) == c \in Code /\ UNCHANGED codes

(* codes.remove(c) and expiryQueue.remove(e). *)
RemoveCode(c) == codes' = [codes EXCEPT ![c] = Null]

(* Mutant of RemoveEntry: wait for the entry to be there. *)
TakeEntry(e) == e \in expiryQueue /\ expiryQueue' = expiryQueue \ {e}

RemoveEntry(e) == expiryQueue' = expiryQueue \ {e}

-----------------------------------------------------------------------------
(* Both operations start with flush(). *)

GetUser(t, c) ==
    /\ pc[t] = "idle"
    /\ request' = [request EXCEPT ![t] = c]
    /\ Goto(t, "flush")
    /\ UNCHANGED <<now, shared, held, history>>

StoreUser(t, u) ==
    /\ pc[t] = "idle"
    /\ u \notin stored
    /\ stored' = stored \cup {u}
    /\ request' = [request EXCEPT ![t] = u]
    /\ Goto(t, "flush")
    /\ UNCHANGED <<now, shared, held, issued, redeemed>>

(* The statement after the call of flush(). *)
AfterFlush(t) == IF request[t] \in User THEN "generate" ELSE "take"

(* Mutant of FlushDue: the comparison the right way round. *)
FlushDueWhenOld == flushTimestamp <= now - FlushInterval

(* The guard of flush: it goes on when the last flush is RECENT, and       *)
(* returns at once when it is older than the interval.                     *)
FlushDue == flushTimestamp >= now - FlushInterval

FlushCheck(t) ==
    /\ pc[t] = "flush"
    /\ Goto(t, IF FlushDue THEN "stamp" ELSE AfterFlush(t))
    /\ UNCHANGED <<now, shared, request, held, history>>

FlushStamp(t) ==
    /\ pc[t] = "stamp"
    /\ flushTimestamp' = now
    /\ Goto(t, "poll")
    /\ UNCHANGED <<now, codes, expiryQueue, request, held, history>>

(* Mutant of FirstDue: the first entry, expired or not. *)
FirstQueued == {e \in expiryQueue : \A f \in expiryQueue : e.expiry <= f.expiry}

(* What DelayQueue.poll may return: an entry that expires first, and only  *)
(* if it has expired; compareTo leaves entries of equal expiry unordered.  *)
FirstDue == {e \in expiryQueue :
                Expired(e) /\ \A f \in expiryQueue : e.expiry <= f.expiry}

FlushPoll(t) ==
    /\ pc[t] = "poll"
    /\ \/ \E e \in FirstDue :
             /\ expiryQueue' = expiryQueue \ {e}
             /\ Hold(t, e)
             /\ Goto(t, "drop")
       \/ /\ FirstDue = {}
          /\ Goto(t, AfterFlush(t))
          /\ UNCHANGED <<expiryQueue, held>>
    /\ UNCHANGED <<now, codes, flushTimestamp, request, history>>

(* codes.remove(expiry.getValue()): by key, whatever entry is there. *)
FlushDrop(t) ==
    /\ pc[t] = "drop"
    /\ RemoveCode(held[t].code)
    /\ Hold(t, Null)
    /\ Goto(t, "poll")
    /\ UNCHANGED <<now, expiryQueue, flushTimestamp, request, history>>

-----------------------------------------------------------------------------
(* getUser after the flush. *)

(* Mutant of Take: no test for null. *)
TakeUnchecked(t) ==
    /\ pc[t] = "take"
    /\ RemoveCode(request[t])
    /\ Hold(t, codes[request[t]])
    /\ Goto(t, "delay")
    /\ UNCHANGED <<now, expiryQueue, flushTimestamp, request, history>>

(* codes.remove(code): atomic; null is returned to the caller. *)
Take(t) ==
    /\ pc[t] = "take"
    /\ LET e == codes[request[t]] IN
       \/ /\ e = Null
          /\ Return(t)
          /\ UNCHANGED codes
       \/ /\ e # Null
          /\ RemoveCode(request[t])
          /\ Hold(t, e)
          /\ Goto(t, "delay")
          /\ UNCHANGED request
    /\ UNCHANGED <<now, expiryQueue, flushTimestamp, history>>

(* Mutants of AfterDelay: the flag ignored, one way and the other. *)
AfterDelayUnqueue(t) == IF Expired(held[t]) THEN "discard" ELSE "unqueue"

AfterDelayPutBack(t) == IF Expired(held[t]) THEN "discard" ELSE "putBack"

AfterDelay(t) == IF Expired(held[t]) THEN "discard"
                 ELSE IF ExpireCodeWhenUsed THEN "unqueue" ELSE "putBack"

CheckDelay(t) ==
    /\ pc[t] = "delay"
    /\ Goto(t, AfterDelay(t))
    /\ UNCHANGED <<now, shared, request, held, history>>

(* The code had expired: forget the entry and return null. *)
Discard(t) ==
    /\ pc[t] = "discard"
    /\ RemoveEntry(held[t])
    /\ Return(t)
    /\ UNCHANGED <<now, codes, flushTimestamp, history>>

(* A one-time code: forget the entry and return the user. *)
Unqueue(t) ==
    /\ pc[t] = "unqueue"
    /\ RemoveEntry(held[t])
    /\ redeemed' = redeemed \cup {held[t]}
    /\ Return(t)
    /\ UNCHANGED <<now, codes, flushTimestamp, stored, issued>>

(* A reusable code: put the entry back and return the user. *)
PutBack(t) ==
    /\ pc[t] = "putBack"
    /\ codes' = [codes EXCEPT ![held[t].code] = held[t]]
    /\ redeemed' = redeemed \cup {held[t]}
    /\ Return(t)
    /\ UNCHANGED <<now, expiryQueue, flushTimestamp, stored, issued>>

-----------------------------------------------------------------------------
(* storeUser after the flush. *)

(* RandomValueStringGenerator may draw any code: nothing compares the draw *)
(* with earlier ones.                                                      *)
Generate(t) ==
    /\ pc[t] = "generate"
    /\ \E c \in Code : Hold(t, [user |-> request[t], code |-> c,
                               expiry |-> now + ValidityPeriod])
    /\ Goto(t, "enqueue")
    /\ UNCHANGED <<now, shared, request, history>>

Enqueue(t) ==
    /\ pc[t] = "enqueue"
    /\ expiryQueue' = expiryQueue \cup {held[t]}
    /\ Goto(t, "publish")
    /\ UNCHANGED <<now, codes, flushTimestamp, request, held, history>>

(* codes.put, and the code goes back to the caller. *)
Publish(t) ==
    /\ pc[t] = "publish"
    /\ codes' = [codes EXCEPT ![held[t].code] = held[t]]
    /\ issued' = issued \cup {held[t]}
    /\ Return(t)
    /\ UNCHANGED <<now, expiryQueue, flushTimestamp, stored, redeemed>>

-----------------------------------------------------------------------------
Tick ==
    /\ now < MaxTime
    /\ now' = now + 1
    /\ UNCHANGED <<shared, local, history>>

(* A step of a method that thread t has entered. *)
Step(t) ==
    \/ FlushCheck(t) \/ FlushStamp(t) \/ FlushPoll(t) \/ FlushDrop(t)
    \/ Take(t) \/ CheckDelay(t) \/ Discard(t) \/ Unqueue(t) \/ PutBack(t)
    \/ Generate(t) \/ Enqueue(t) \/ Publish(t)

Next ==
    \/ \E t \in Thread :
          \/ \E c \in Code : GetUser(t, c)
          \/ \E u \in User : StoreUser(t, u)
          \/ Step(t)
    \/ Tick

Spec == Init /\ [][Next]_vars

(* The JVM keeps scheduling a thread that is inside a method; nobody has   *)
(* to call one, and the clock owes nothing to the threads.                 *)
FairSpec == Spec /\ \A t \in Thread : WF_vars(Step(t))

-----------------------------------------------------------------------------
(* The store as its two callers see it: the ticket of CodeLifecycle that   *)
(* a user is, computed from the two collections and the threads' hands.    *)

TicketStatus == [u \in User |->
    IF \E t \in Thread : pc[t] \in Redeeming /\ held[t].user = u THEN "claimed"
    ELSE IF \E c \in Code : codes[c] # Null /\ codes[c].user = u THEN "available"
    ELSE IF \E e \in issued : e.user = u THEN "gone"
    ELSE "fresh"]

Lifecycle == INSTANCE CodeLifecycle
    WITH Ticket <- User, OneTime <- ExpireCodeWhenUsed,
         status <- TicketStatus, used <- {e.user : e \in redeemed}

(* Every interleaving of getUser, storeUser and flush looks to the callers *)
(* like tickets that are issued, claimed by one call at a time and, if     *)
(* one-time, used at most once.                                            *)
ImplementsLifecycle == Lifecycle!Spec

(* A code that a getUser call has removed from the map is settled: it is   *)
(* redeemed, put back or found expired, and never stays in limbo.          *)
ClaimsAreSettled == Lifecycle!ClaimsAreSettled

-----------------------------------------------------------------------------
(* Properties. *)

(* A code that can still be redeemed has its entry in the expiry queue, so *)
(* a flush that runs after it expires finds it: storeUser queues the entry *)
(* before it publishes the code, and a getUser that puts a reusable code   *)
(* back relies on nobody having unqueued it meanwhile.                     *)
LiveEntriesAreQueued ==
    \A c \in Code :
        codes[c] # Null /\ ~Expired(codes[c]) => codes[c] \in expiryQueue

(* A one-time code is used once: when getUser has returned the user of an  *)
(* entry, the entry is in neither collection and in no other thread's      *)
(* hands, so no interleaving of getUser calls can return it again.         *)
OneTimeUse ==
    ExpireCodeWhenUsed =>
        \A e \in redeemed :
            /\ \A c \in Code : codes[c] # e
            /\ e \notin expiryQueue
            /\ \A t \in Thread : Owns(t) => held[t] # e

(* The entries that have been given a code, and those whose code no other  *)
(* entry was given.                                                        *)
Given == issued \cup {held[t] : t \in {s \in Thread : Owns(s)}}
OnlyEntry(e) == \A f \in Given : f.code = e.code => f = e

(* No code is lost before its time: an entry whose code was returned and   *)
(* has not expired is in the map, or in the hands of a getUser call, or was*)
(* used up - unless its own code was drawn again.  Neither the remove-then-*)
(* put of a reusable code drops it, nor a flush that removes by code what  *)
(* has expired, whatever becomes of other codes.                           *)
NoLostCode ==
    \A e \in issued :
        OnlyEntry(e) /\ ~Expired(e) =>
            \/ codes[e.code] = e
            \/ \E t \in Thread : pc[t] \in Redeeming /\ held[t] = e
            \/ ExpireCodeWhenUsed /\ e \in redeemed

(* The flush is dead once the last one is older than the interval and no   *)
(* thread is between the guard and the new timestamp.                      *)
FlushDead ==
    /\ flushTimestamp + FlushInterval < now
    /\ \A t \in Thread : pc[t] # "stamp"

(* A store that was idle for longer than the flush interval never flushes  *)
(* again, however many calls follow: the guard of flush() asks for a       *)
(* RECENT timestamp and only a flush renews it.                            *)
FlushNeverResumes == [][FlushDead => FlushDead']_vars
=============================================================================
