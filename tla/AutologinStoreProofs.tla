------------------------- MODULE AutologinStoreProofs -------------------------
(***************************************************************************)
(* The safety properties of AutologinStore for every set of threads, users *)
(* and codes, every validity period and both values of the flags.          *)
(***************************************************************************)
EXTENDS AutologinStore, TLAPS

(* Every entry of the map is under its own code. *)
KeysMatch == \A c \in Code : codes[c] # Null => codes[c].code = c

(* An entry in a thread's hands is not in the map, nor in other hands. *)
Exclusive ==
    \A t \in Thread : Owns(t) =>
        /\ \A c \in Code : codes[c] # held[t]
        /\ \A u \in Thread : u # t /\ Owns(u) => held[u] # held[t]

(* The entries something may still be done with, or has been done with. *)
Known(e) ==
    \/ \E c \in Code : codes[c] = e
    \/ e \in expiryQueue
    \/ e \in redeemed
    \/ \E t \in Thread : Owns(t) /\ held[t] = e

(* A user on its way through storeUser is in that call alone, and has no   *)
(* entry before the call builds it.                                        *)
UsersAreNew ==
    /\ \A e \in TokenExpiry : Known(e) => e.user \in stored
    /\ \A t \in Thread : request[t] \in User =>
          /\ request[t] \in stored
          /\ \A u \in Thread : u # t => request[u] # request[t]
          /\ pc[t] \notin Building =>
                \A e \in TokenExpiry : Known(e) => e.user # request[t]

(* The entry a thread is about to publish or to put back is queued. *)
LiveHeldAreQueued ==
    \A t \in Thread :
        pc[t] \in {"publish", "delay", "putBack"} /\ ~Expired(held[t])
            => held[t] \in expiryQueue

(* The flag decides where a live entry goes. *)
FlagDecides ==
    \A t \in Thread : /\ pc[t] = "unqueue" => ExpireCodeWhenUsed
                      /\ pc[t] = "putBack" => ~ExpireCodeWhenUsed

Ownership == KeysMatch /\ Exclusive /\ UsersAreNew /\ FlagDecides

-----------------------------------------------------------------------------
(* Type correctness. *)

(* The type invariant holds initially. *)
LEMMA InitTypeOK == Init => TypeOK
  BY StoreAssumption DEF Init, TypeOK, Location, Owns, Building, Redeeming

(* Every statement of getUser, storeUser and flush keeps the type invariant. *)
LEMMA NextTypeOK == TypeOK /\ [Next]_vars => TypeOK'
<1> SUFFICES ASSUME TypeOK, [Next]_vars PROVE TypeOK'
  OBVIOUS
<1> USE StoreAssumption DEF TypeOK, Location, Owns, Building, Redeeming,
        shared, local, history, Goto, Hold, Return
<1>1. ASSUME NEW t \in Thread, NEW c \in Code, GetUser(t, c) PROVE TypeOK'
  BY <1>1 DEF GetUser
<1>2. ASSUME NEW t \in Thread, NEW u \in User, StoreUser(t, u) PROVE TypeOK'
  BY <1>2 DEF StoreUser
<1>3. ASSUME NEW t \in Thread, FlushCheck(t) PROVE TypeOK'
  BY <1>3 DEF FlushCheck, AfterFlush
<1>4. ASSUME NEW t \in Thread, FlushStamp(t) PROVE TypeOK'
  BY <1>4 DEF FlushStamp
<1>5. ASSUME NEW t \in Thread, FlushPoll(t) PROVE TypeOK'
  BY <1>5 DEF FlushPoll, FirstDue, AfterFlush
<1>6. ASSUME NEW t \in Thread, FlushDrop(t) PROVE TypeOK'
  BY <1>6 DEF FlushDrop, RemoveCode
<1>7. ASSUME NEW t \in Thread, Take(t) PROVE TypeOK'
  BY <1>7 DEF Take, RemoveCode
<1>8. ASSUME NEW t \in Thread, CheckDelay(t) PROVE TypeOK'
  BY <1>8 DEF CheckDelay, AfterDelay
<1>9. ASSUME NEW t \in Thread, Discard(t) PROVE TypeOK'
  BY <1>9 DEF Discard, RemoveEntry
<1>10. ASSUME NEW t \in Thread, Unqueue(t) PROVE TypeOK'
  BY <1>10 DEF Unqueue, RemoveEntry
<1>11. ASSUME NEW t \in Thread, PutBack(t) PROVE TypeOK'
  BY <1>11 DEF PutBack, TokenExpiry
<1>12. ASSUME NEW t \in Thread, Generate(t) PROVE TypeOK'
  BY <1>12 DEF Generate, TokenExpiry
<1>13. ASSUME NEW t \in Thread, Enqueue(t) PROVE TypeOK'
  BY <1>13 DEF Enqueue
<1>14. ASSUME NEW t \in Thread, Publish(t) PROVE TypeOK'
  BY <1>14 DEF Publish, TokenExpiry
<1>15. CASE Tick
  BY <1>15 DEF Tick
<1>16. CASE UNCHANGED vars
  BY <1>16 DEF vars
<1> QED
  BY <1>1, <1>2, <1>3, <1>4, <1>5, <1>6, <1>7, <1>8, <1>9, <1>10, <1>11,
     <1>12, <1>13, <1>14, <1>15, <1>16 DEF Next, Step

(* Every variable keeps its shape, and the locals of a thread are set      *)
(* exactly where its method reads them.                                    *)
THEOREM TypeCorrectness == Spec => []TypeOK
  BY InitTypeOK, NextTypeOK, PTL DEF Spec

-----------------------------------------------------------------------------
(* Ownership. *)

(* codes.put uses the code of the entry it puts. *)
LEMMA NextKeysMatch ==
    TypeOK /\ KeysMatch /\ [Next]_vars => KeysMatch'
<1> SUFFICES ASSUME TypeOK, KeysMatch, [Next]_vars PROVE KeysMatch'
  OBVIOUS
<1> USE StoreAssumption
<1> USE DEF TypeOK, Location, Owns, Building, Redeeming,
        shared, local, history, Goto, Hold, Return, KeysMatch
<1>1. ASSUME NEW t \in Thread, NEW c \in Code, GetUser(t, c) PROVE KeysMatch'
  BY <1>1 DEF GetUser
<1>2. ASSUME NEW t \in Thread, NEW u \in User, StoreUser(t, u) PROVE KeysMatch'
  BY <1>2 DEF StoreUser
<1>3. ASSUME NEW t \in Thread, FlushCheck(t) PROVE KeysMatch'
  BY <1>3 DEF FlushCheck, AfterFlush
<1>4. ASSUME NEW t \in Thread, FlushStamp(t) PROVE KeysMatch'
  BY <1>4 DEF FlushStamp
<1>5. ASSUME NEW t \in Thread, FlushPoll(t) PROVE KeysMatch'
  BY <1>5 DEF FlushPoll, FirstDue, AfterFlush
<1>6. ASSUME NEW t \in Thread, FlushDrop(t) PROVE KeysMatch'
  BY <1>6 DEF FlushDrop, RemoveCode
<1>7. ASSUME NEW t \in Thread, Take(t) PROVE KeysMatch'
  BY <1>7 DEF Take, RemoveCode
<1>8. ASSUME NEW t \in Thread, CheckDelay(t) PROVE KeysMatch'
  BY <1>8 DEF CheckDelay, AfterDelay
<1>9. ASSUME NEW t \in Thread, Discard(t) PROVE KeysMatch'
  BY <1>9 DEF Discard, RemoveEntry
<1>10. ASSUME NEW t \in Thread, Unqueue(t) PROVE KeysMatch'
  BY <1>10 DEF Unqueue, RemoveEntry
<1>11. ASSUME NEW t \in Thread, PutBack(t) PROVE KeysMatch'
  BY <1>11 DEF PutBack, TokenExpiry
<1>12. ASSUME NEW t \in Thread, Generate(t) PROVE KeysMatch'
  BY <1>12 DEF Generate, TokenExpiry
<1>13. ASSUME NEW t \in Thread, Enqueue(t) PROVE KeysMatch'
  BY <1>13 DEF Enqueue
<1>14. ASSUME NEW t \in Thread, Publish(t) PROVE KeysMatch'
  BY <1>14 DEF Publish, TokenExpiry
<1>15. CASE Tick
  BY <1>15 DEF Tick
<1>16. CASE UNCHANGED vars
  BY <1>16 DEF vars
<1> QED
  BY <1>1, <1>2, <1>3, <1>4, <1>5, <1>6, <1>7, <1>8, <1>9, <1>10, <1>11,
     <1>12, <1>13, <1>14, <1>15, <1>16 DEF Next, Step

(* expireCodeWhenUsed is final: a thread is where the flag sent it. *)
LEMMA NextFlagDecides ==
    TypeOK /\ FlagDecides /\ [Next]_vars => FlagDecides'
<1> SUFFICES ASSUME TypeOK, FlagDecides, [Next]_vars PROVE FlagDecides'
  OBVIOUS
<1> USE StoreAssumption
<1> USE DEF TypeOK, Location, Owns, Building, Redeeming,
        shared, local, history, Goto, Hold, Return, FlagDecides
<1>1. ASSUME NEW t \in Thread, NEW c \in Code, GetUser(t, c) PROVE FlagDecides'
  BY <1>1 DEF GetUser
<1>2. ASSUME NEW t \in Thread, NEW u \in User, StoreUser(t, u) PROVE FlagDecides'
  BY <1>2 DEF StoreUser
<1>3. ASSUME NEW t \in Thread, FlushCheck(t) PROVE FlagDecides'
  BY <1>3 DEF FlushCheck, AfterFlush
<1>4. ASSUME NEW t \in Thread, FlushStamp(t) PROVE FlagDecides'
  BY <1>4 DEF FlushStamp
<1>5. ASSUME NEW t \in Thread, FlushPoll(t) PROVE FlagDecides'
  BY <1>5 DEF FlushPoll, FirstDue, AfterFlush
<1>6. ASSUME NEW t \in Thread, FlushDrop(t) PROVE FlagDecides'
  BY <1>6 DEF FlushDrop, RemoveCode
<1>7. ASSUME NEW t \in Thread, Take(t) PROVE FlagDecides'
  BY <1>7 DEF Take, RemoveCode
<1>8. ASSUME NEW t \in Thread, CheckDelay(t) PROVE FlagDecides'
  BY <1>8 DEF CheckDelay, AfterDelay
<1>9. ASSUME NEW t \in Thread, Discard(t) PROVE FlagDecides'
  BY <1>9 DEF Discard, RemoveEntry
<1>10. ASSUME NEW t \in Thread, Unqueue(t) PROVE FlagDecides'
  BY <1>10 DEF Unqueue, RemoveEntry
<1>11. ASSUME NEW t \in Thread, PutBack(t) PROVE FlagDecides'
  BY <1>11 DEF PutBack, TokenExpiry
<1>12. ASSUME NEW t \in Thread, Generate(t) PROVE FlagDecides'
  BY <1>12 DEF Generate, TokenExpiry
<1>13. ASSUME NEW t \in Thread, Enqueue(t) PROVE FlagDecides'
  BY <1>13 DEF Enqueue
<1>14. ASSUME NEW t \in Thread, Publish(t) PROVE FlagDecides'
  BY <1>14 DEF Publish, TokenExpiry
<1>15. CASE Tick
  BY <1>15 DEF Tick
<1>16. CASE UNCHANGED vars
  BY <1>16 DEF vars
<1> QED
  BY <1>1, <1>2, <1>3, <1>4, <1>5, <1>6, <1>7, <1>8, <1>9, <1>10, <1>11,
     <1>12, <1>13, <1>14, <1>15, <1>16 DEF Next, Step

(* codes.remove hands an entry to one thread; put gives it up. *)
LEMMA NextExclusive ==
    TypeOK /\ KeysMatch /\ UsersAreNew /\ Exclusive /\ [Next]_vars => Exclusive'
<1> SUFFICES ASSUME TypeOK, KeysMatch, UsersAreNew, Exclusive, [Next]_vars PROVE Exclusive'
  OBVIOUS
<1> USE StoreAssumption
<1> USE DEF TypeOK, Location, Owns, Building, Redeeming,
        shared, local, history, Goto, Hold, Return, KeysMatch, Exclusive
<1>1. ASSUME NEW t \in Thread, NEW c \in Code, GetUser(t, c) PROVE Exclusive'
  BY <1>1 DEF GetUser
<1>2. ASSUME NEW t \in Thread, NEW u \in User, StoreUser(t, u) PROVE Exclusive'
  BY <1>2 DEF StoreUser
<1>3. ASSUME NEW t \in Thread, FlushCheck(t) PROVE Exclusive'
  BY <1>3 DEF FlushCheck, AfterFlush
<1>4. ASSUME NEW t \in Thread, FlushStamp(t) PROVE Exclusive'
  BY <1>4 DEF FlushStamp
<1>5. ASSUME NEW t \in Thread, FlushPoll(t) PROVE Exclusive'
  BY <1>5 DEF FlushPoll, FirstDue, AfterFlush
<1>6. ASSUME NEW t \in Thread, FlushDrop(t) PROVE Exclusive'
  BY <1>6 DEF FlushDrop, RemoveCode
<1>7. ASSUME NEW t \in Thread, Take(t) PROVE Exclusive'
  BY <1>7 DEF Take, RemoveCode
<1>8. ASSUME NEW t \in Thread, CheckDelay(t) PROVE Exclusive'
  BY <1>8 DEF CheckDelay, AfterDelay
<1>9. ASSUME NEW t \in Thread, Discard(t) PROVE Exclusive'
  BY <1>9 DEF Discard, RemoveEntry
<1>10. ASSUME NEW t \in Thread, Unqueue(t) PROVE Exclusive'
  BY <1>10 DEF Unqueue, RemoveEntry
<1>11. ASSUME NEW t \in Thread, PutBack(t) PROVE Exclusive'
  BY <1>11 DEF PutBack, TokenExpiry
<1>12. ASSUME NEW t \in Thread, Generate(t) PROVE Exclusive'
  <2>1. /\ request[t] \in User
        /\ held'[t] \in TokenExpiry
        /\ held'[t].user = request[t]
        /\ UNCHANGED codes
        /\ \A u \in Thread : u # t => held'[u] = held[u] /\ pc'[u] = pc[u]
    BY <1>12 DEF Generate, TokenExpiry
  <2>2. \A e \in TokenExpiry : Known(e) => e # held'[t]
    BY <1>12, <2>1 DEF Generate, UsersAreNew
  <2>3. \A c \in Code : codes'[c] # held'[t]
    BY <2>1, <2>2 DEF Known
  <2>4. \A u \in Thread : u # t /\ Owns(u) => held'[u] # held'[t]
    BY <2>1, <2>2 DEF Known
  <2> QED
    BY <2>1, <2>3, <2>4
<1>13. ASSUME NEW t \in Thread, Enqueue(t) PROVE Exclusive'
  BY <1>13 DEF Enqueue
<1>14. ASSUME NEW t \in Thread, Publish(t) PROVE Exclusive'
  BY <1>14 DEF Publish, TokenExpiry
<1>15. CASE Tick
  BY <1>15 DEF Tick
<1>16. CASE UNCHANGED vars
  BY <1>16 DEF vars
<1> QED
  BY <1>1, <1>2, <1>3, <1>4, <1>5, <1>6, <1>7, <1>8, <1>9, <1>10, <1>11,
     <1>12, <1>13, <1>14, <1>15, <1>16 DEF Next, Step

(* An entry is built once, by the storeUser call of its user. *)
LEMMA NextUsersAreNew ==
    TypeOK /\ UsersAreNew /\ [Next]_vars => UsersAreNew'
<1> SUFFICES ASSUME TypeOK, UsersAreNew, [Next]_vars PROVE UsersAreNew'
  OBVIOUS
<1> USE StoreAssumption
<1> USE DEF TypeOK, Location, Owns, Building, Redeeming,
        shared, local, history, Goto, Hold, Return, UsersAreNew, Known
<1>1. ASSUME NEW t \in Thread, NEW c \in Code, GetUser(t, c) PROVE UsersAreNew'
  BY <1>1 DEF GetUser
<1>2. ASSUME NEW t \in Thread, NEW u \in User, StoreUser(t, u) PROVE UsersAreNew'
  BY <1>2 DEF StoreUser
<1>3. ASSUME NEW t \in Thread, FlushCheck(t) PROVE UsersAreNew'
  BY <1>3 DEF FlushCheck, AfterFlush
<1>4. ASSUME NEW t \in Thread, FlushStamp(t) PROVE UsersAreNew'
  BY <1>4 DEF FlushStamp
<1>5. ASSUME NEW t \in Thread, FlushPoll(t) PROVE UsersAreNew'
  BY <1>5 DEF FlushPoll, FirstDue, AfterFlush
<1>6. ASSUME NEW t \in Thread, FlushDrop(t) PROVE UsersAreNew'
  BY <1>6 DEF FlushDrop, RemoveCode
<1>7. ASSUME NEW t \in Thread, Take(t) PROVE UsersAreNew'
  BY <1>7 DEF Take, RemoveCode
<1>8. ASSUME NEW t \in Thread, CheckDelay(t) PROVE UsersAreNew'
  BY <1>8 DEF CheckDelay, AfterDelay
<1>9. ASSUME NEW t \in Thread, Discard(t) PROVE UsersAreNew'
  BY <1>9 DEF Discard, RemoveEntry
<1>10. ASSUME NEW t \in Thread, Unqueue(t) PROVE UsersAreNew'
  BY <1>10 DEF Unqueue, RemoveEntry
<1>11. ASSUME NEW t \in Thread, PutBack(t) PROVE UsersAreNew'
  BY <1>11 DEF PutBack, TokenExpiry
<1>12. ASSUME NEW t \in Thread, Generate(t) PROVE UsersAreNew'
  BY <1>12 DEF Generate, TokenExpiry
<1>13. ASSUME NEW t \in Thread, Enqueue(t) PROVE UsersAreNew'
  BY <1>13 DEF Enqueue
<1>14. ASSUME NEW t \in Thread, Publish(t) PROVE UsersAreNew'
  BY <1>14 DEF Publish, TokenExpiry
<1>15. CASE Tick
  BY <1>15 DEF Tick
<1>16. CASE UNCHANGED vars
  BY <1>16 DEF vars
<1> QED
  BY <1>1, <1>2, <1>3, <1>4, <1>5, <1>6, <1>7, <1>8, <1>9, <1>10, <1>11,
     <1>12, <1>13, <1>14, <1>15, <1>16 DEF Next, Step

(* Where entries are and who is responsible for them, in every state. *)
THEOREM OwnershipInvariance == Spec => [](TypeOK /\ Ownership)
<1>1. Init => Ownership
  BY StoreAssumption DEF Init, Ownership, KeysMatch, Exclusive, UsersAreNew, FlagDecides,
         Known, Owns, Building, Redeeming
<1>2. TypeOK /\ Ownership /\ [Next]_vars => Ownership'
  BY NextKeysMatch, NextExclusive, NextUsersAreNew, NextFlagDecides
     DEF Ownership
<1> QED
  BY <1>1, <1>2, InitTypeOK, NextTypeOK, PTL DEF Spec

-----------------------------------------------------------------------------
(* The expiry queue. *)

QueueInv == LiveEntriesAreQueued /\ LiveHeldAreQueued

(* storeUser queues before it publishes; flush unqueues what has expired. *)
LEMMA NextQueueInv ==
    TypeOK /\ Exclusive /\ QueueInv /\ [Next]_vars => QueueInv'
<1> SUFFICES ASSUME TypeOK, Exclusive, QueueInv, [Next]_vars PROVE QueueInv'
  OBVIOUS
<1> USE StoreAssumption
<1> USE DEF TypeOK, Location, Owns, Building, Redeeming,
        shared, local, history, Goto, Hold, Return, QueueInv,
        Exclusive, LiveEntriesAreQueued, LiveHeldAreQueued, Expired, TokenExpiry
<1>1. ASSUME NEW t \in Thread, NEW c \in Code, GetUser(t, c) PROVE QueueInv'
  BY <1>1 DEF GetUser
<1>2. ASSUME NEW t \in Thread, NEW u \in User, StoreUser(t, u) PROVE QueueInv'
  BY <1>2 DEF StoreUser
<1>3. ASSUME NEW t \in Thread, FlushCheck(t) PROVE QueueInv'
  BY <1>3 DEF FlushCheck, AfterFlush
<1>4. ASSUME NEW t \in Thread, FlushStamp(t) PROVE QueueInv'
  BY <1>4 DEF FlushStamp
<1>5. ASSUME NEW t \in Thread, FlushPoll(t) PROVE QueueInv'
  BY <1>5 DEF FlushPoll, FirstDue, AfterFlush
<1>6. ASSUME NEW t \in Thread, FlushDrop(t) PROVE QueueInv'
  BY <1>6 DEF FlushDrop, RemoveCode
<1>7. ASSUME NEW t \in Thread, Take(t) PROVE QueueInv'
  BY <1>7 DEF Take, RemoveCode
<1>8. ASSUME NEW t \in Thread, CheckDelay(t) PROVE QueueInv'
  BY <1>8 DEF CheckDelay, AfterDelay
<1>9. ASSUME NEW t \in Thread, Discard(t) PROVE QueueInv'
  BY <1>9 DEF Discard, RemoveEntry
<1>10. ASSUME NEW t \in Thread, Unqueue(t) PROVE QueueInv'
  BY <1>10 DEF Unqueue, RemoveEntry
<1>11. ASSUME NEW t \in Thread, PutBack(t) PROVE QueueInv'
  BY <1>11 DEF PutBack
<1>12. ASSUME NEW t \in Thread, Generate(t) PROVE QueueInv'
  BY <1>12 DEF Generate
<1>13. ASSUME NEW t \in Thread, Enqueue(t) PROVE QueueInv'
  BY <1>13 DEF Enqueue
<1>14. ASSUME NEW t \in Thread, Publish(t) PROVE QueueInv'
  BY <1>14 DEF Publish
<1>15. CASE Tick
  BY <1>15 DEF Tick
<1>16. CASE UNCHANGED vars
  BY <1>16 DEF vars
<1> QED
  BY <1>1, <1>2, <1>3, <1>4, <1>5, <1>6, <1>7, <1>8, <1>9, <1>10, <1>11,
     <1>12, <1>13, <1>14, <1>15, <1>16 DEF Next, Step

(* An entry whose user was returned is found by nobody again. *)
LEMMA NextOneTimeUse ==
    TypeOK /\ Ownership /\ OneTimeUse /\ [Next]_vars => OneTimeUse'
<1> SUFFICES ASSUME TypeOK, Ownership, OneTimeUse, [Next]_vars PROVE OneTimeUse'
  OBVIOUS
<1> USE StoreAssumption
<1> USE DEF TypeOK, Location, Owns, Building, Redeeming,
        shared, local, history, Goto, Hold, Return,
        Ownership, OneTimeUse, KeysMatch, Exclusive, FlagDecides
<1>1. ASSUME NEW t \in Thread, NEW c \in Code, GetUser(t, c) PROVE OneTimeUse'
  BY <1>1 DEF GetUser
<1>2. ASSUME NEW t \in Thread, NEW u \in User, StoreUser(t, u) PROVE OneTimeUse'
  BY <1>2 DEF StoreUser
<1>3. ASSUME NEW t \in Thread, FlushCheck(t) PROVE OneTimeUse'
  BY <1>3 DEF FlushCheck, AfterFlush
<1>4. ASSUME NEW t \in Thread, FlushStamp(t) PROVE OneTimeUse'
  BY <1>4 DEF FlushStamp
<1>5. ASSUME NEW t \in Thread, FlushPoll(t) PROVE OneTimeUse'
  BY <1>5 DEF FlushPoll, FirstDue, AfterFlush
<1>6. ASSUME NEW t \in Thread, FlushDrop(t) PROVE OneTimeUse'
  BY <1>6 DEF FlushDrop, RemoveCode
<1>7. ASSUME NEW t \in Thread, Take(t) PROVE OneTimeUse'
  BY <1>7 DEF Take, RemoveCode
<1>8. ASSUME NEW t \in Thread, CheckDelay(t) PROVE OneTimeUse'
  BY <1>8 DEF CheckDelay, AfterDelay
<1>9. ASSUME NEW t \in Thread, Discard(t) PROVE OneTimeUse'
  BY <1>9 DEF Discard, RemoveEntry
<1>10. ASSUME NEW t \in Thread, Unqueue(t) PROVE OneTimeUse'
  BY <1>10 DEF Unqueue, RemoveEntry
<1>11. ASSUME NEW t \in Thread, PutBack(t) PROVE OneTimeUse'
  BY <1>11 DEF PutBack, TokenExpiry
<1>12. ASSUME NEW t \in Thread, Generate(t) PROVE OneTimeUse'
  <2>1. /\ request[t] \in User
        /\ held'[t].user = request[t]
        /\ UNCHANGED <<codes, expiryQueue, redeemed>>
        /\ \A u \in Thread : u # t => held'[u] = held[u] /\ pc'[u] = pc[u]
    BY <1>12 DEF Generate, TokenExpiry
  <2>2. \A e \in redeemed : e # held'[t]
    BY <1>12, <2>1 DEF Generate, UsersAreNew, Known
  <2> QED
    BY <2>1, <2>2
<1>13. ASSUME NEW t \in Thread, Enqueue(t) PROVE OneTimeUse'
  BY <1>13 DEF Enqueue
<1>14. ASSUME NEW t \in Thread, Publish(t) PROVE OneTimeUse'
  BY <1>14 DEF Publish, TokenExpiry
<1>15. CASE Tick
  BY <1>15 DEF Tick
<1>16. CASE UNCHANGED vars
  BY <1>16 DEF vars
<1> QED
  BY <1>1, <1>2, <1>3, <1>4, <1>5, <1>6, <1>7, <1>8, <1>9, <1>10, <1>11,
     <1>12, <1>13, <1>14, <1>15, <1>16 DEF Next, Step

(* A code that can still be redeemed has its entry in the expiry queue. *)
THEOREM LiveEntriesStayQueued == Spec => []LiveEntriesAreQueued
<1>1. Init => QueueInv
  BY DEF Init, QueueInv, LiveEntriesAreQueued, LiveHeldAreQueued
<1>2. TypeOK /\ Ownership /\ QueueInv /\ [Next]_vars => QueueInv'
  BY NextQueueInv DEF Ownership
<1>3. QueueInv => LiveEntriesAreQueued
  BY DEF QueueInv
<1> QED
  BY <1>1, <1>2, <1>3, OwnershipInvariance, PTL DEF Spec

(* No interleaving of getUser and storeUser calls, on any number of        *)
(* threads, returns the user of a one-time code a second time.             *)
THEOREM OneTimeCodesAreUsedOnce == Spec => []OneTimeUse
<1>1. Init => OneTimeUse
  BY DEF Init, OneTimeUse
<1> QED
  BY <1>1, NextOneTimeUse, OwnershipInvariance, PTL DEF Spec

-----------------------------------------------------------------------------
(* The flush. *)

(* No step leads a flush past the guard once the timestamp is stale. *)
LEMMA FlushStaysDead == TypeOK /\ [Next]_vars => (FlushDead => FlushDead')
<1> SUFFICES ASSUME TypeOK, [Next]_vars, FlushDead PROVE FlushDead'
  OBVIOUS
<1>1. ~FlushDue
  BY StoreAssumption DEF FlushDue, FlushDead, TypeOK, FlushInterval
<1>2. now' \in Nat /\ now' >= now /\ flushTimestamp' = flushTimestamp
  BY DEF TypeOK, FlushDead, Next, Step, vars, shared, GetUser, StoreUser,
         FlushCheck, FlushStamp, FlushPoll, FlushDrop, Take, CheckDelay,
         Discard, Unqueue, PutBack, Generate, Enqueue, Publish, Tick
<1>3. \A t \in Thread : pc'[t] # "stamp"
  BY <1>1, StoreAssumption
     DEF TypeOK, FlushDead, Next, Step, vars, local, Goto, Return, GetUser,
         StoreUser, FlushCheck, FlushStamp, FlushPoll, FlushDrop, Take,
         CheckDelay, Discard, Unqueue, PutBack, Generate, Enqueue, Publish,
         Tick, AfterFlush, AfterDelay
<1>4. FlushInterval \in Nat
  BY StoreAssumption DEF FlushInterval
<1> QED
  BY <1>2, <1>3, <1>4 DEF FlushDead, TypeOK

(* A store that was idle for longer than the flush interval never flushes  *)
(* again.                                                                  *)
THEOREM StaleFlushNeverResumes == Spec => FlushNeverResumes
  BY TypeCorrectness, FlushStaysDead, PTL DEF Spec, FlushNeverResumes

-----------------------------------------------------------------------------
(* What was issued. *)

(* Whatever is in the map or in the hands of getUser was issued; a user    *)
(* has at most one issued entry, and none while in storeUser.              *)
IssuedOnce ==
    /\ \A c \in Code : codes[c] # Null => codes[c] \in issued
    /\ \A t \in Thread : pc[t] \in Redeeming => held[t] \in issued
    /\ \A e \in issued : e.user \in stored
    /\ \A e, f \in issued : e.user = f.user => e = f
    /\ \A t \in Thread : request[t] \in User =>
          \A e \in issued : e.user # request[t]
    /\ \A t \in Thread : pc[t] \in Building => held[t].user = request[t]

(* One statement of one thread keeps IssuedOnce. *)
LEMMA NextIssuedOnce ==
    TypeOK /\ UsersAreNew /\ IssuedOnce /\ [Next]_vars => IssuedOnce'
<1> SUFFICES ASSUME TypeOK, UsersAreNew, IssuedOnce, [Next]_vars PROVE IssuedOnce'
  OBVIOUS
<1> USE StoreAssumption
<1> USE DEF TypeOK, Location, Owns, Building, Redeeming,
        shared, local, history, Goto, Hold, Return, IssuedOnce
<1>1. ASSUME NEW t \in Thread, NEW c \in Code, GetUser(t, c) PROVE IssuedOnce'
  BY <1>1 DEF GetUser
<1>2. ASSUME NEW t \in Thread, NEW u \in User, StoreUser(t, u) PROVE IssuedOnce'
  BY <1>2 DEF StoreUser, UsersAreNew, TokenExpiry
<1>3. ASSUME NEW t \in Thread, FlushCheck(t) PROVE IssuedOnce'
  BY <1>3 DEF FlushCheck, AfterFlush
<1>4. ASSUME NEW t \in Thread, FlushStamp(t) PROVE IssuedOnce'
  BY <1>4 DEF FlushStamp
<1>5. ASSUME NEW t \in Thread, FlushPoll(t) PROVE IssuedOnce'
  BY <1>5 DEF FlushPoll, FirstDue, AfterFlush
<1>6. ASSUME NEW t \in Thread, FlushDrop(t) PROVE IssuedOnce'
  BY <1>6 DEF FlushDrop, RemoveCode
<1>7. ASSUME NEW t \in Thread, Take(t) PROVE IssuedOnce'
  BY <1>7 DEF Take, RemoveCode
<1>8. ASSUME NEW t \in Thread, CheckDelay(t) PROVE IssuedOnce'
  BY <1>8 DEF CheckDelay, AfterDelay
<1>9. ASSUME NEW t \in Thread, Discard(t) PROVE IssuedOnce'
  BY <1>9 DEF Discard, RemoveEntry
<1>10. ASSUME NEW t \in Thread, Unqueue(t) PROVE IssuedOnce'
  BY <1>10 DEF Unqueue, RemoveEntry
<1>11. ASSUME NEW t \in Thread, PutBack(t) PROVE IssuedOnce'
  BY <1>11 DEF PutBack, TokenExpiry
<1>12. ASSUME NEW t \in Thread, Generate(t) PROVE IssuedOnce'
  BY <1>12 DEF Generate, TokenExpiry
<1>13. ASSUME NEW t \in Thread, Enqueue(t) PROVE IssuedOnce'
  BY <1>13 DEF Enqueue
<1>14. ASSUME NEW t \in Thread, Publish(t) PROVE IssuedOnce'
  BY <1>14 DEF Publish, UsersAreNew, TokenExpiry
<1>15. CASE Tick
  BY <1>15 DEF Tick
<1>16. CASE UNCHANGED vars
  BY <1>16 DEF vars
<1> QED
  BY <1>1, <1>2, <1>3, <1>4, <1>5, <1>6, <1>7, <1>8, <1>9, <1>10, <1>11,
     <1>12, <1>13, <1>14, <1>15, <1>16 DEF Next, Step

(* An entry keeps its code: it is issued, or still in the hands of its call.*)
LEMMA GivenGrows ==
    TypeOK /\ IssuedOnce /\ [Next]_vars
        => Given \subseteq Given' /\ issued \subseteq issued'
<1> SUFFICES ASSUME TypeOK, IssuedOnce, [Next]_vars
             PROVE  Given \subseteq Given' /\ issued \subseteq issued'
  OBVIOUS
<1> DEFINE Grows == Given \subseteq Given' /\ issued \subseteq issued'
<1> USE StoreAssumption
<1> USE DEF TypeOK, Location, Owns, Building, Redeeming, IssuedOnce, Given,
        shared, local, history, Goto, Hold, Return
<1>1. ASSUME NEW t \in Thread, NEW c \in Code, GetUser(t, c) PROVE Grows
  BY <1>1 DEF GetUser
<1>2. ASSUME NEW t \in Thread, NEW u \in User, StoreUser(t, u) PROVE Grows
  BY <1>2 DEF StoreUser
<1>3. ASSUME NEW t \in Thread, FlushCheck(t) PROVE Grows
  BY <1>3 DEF FlushCheck, AfterFlush
<1>4. ASSUME NEW t \in Thread, FlushStamp(t) PROVE Grows
  BY <1>4 DEF FlushStamp
<1>5. ASSUME NEW t \in Thread, FlushPoll(t) PROVE Grows
  BY <1>5 DEF FlushPoll, FirstDue, AfterFlush
<1>6. ASSUME NEW t \in Thread, FlushDrop(t) PROVE Grows
  BY <1>6 DEF FlushDrop
<1>7. ASSUME NEW t \in Thread, Take(t) PROVE Grows
  BY <1>7 DEF Take
<1>8. ASSUME NEW t \in Thread, CheckDelay(t) PROVE Grows
  BY <1>8 DEF CheckDelay, AfterDelay
<1>9. ASSUME NEW t \in Thread, Discard(t) PROVE Grows
  BY <1>9 DEF Discard
<1>10. ASSUME NEW t \in Thread, Unqueue(t) PROVE Grows
  BY <1>10 DEF Unqueue
<1>11. ASSUME NEW t \in Thread, PutBack(t) PROVE Grows
  BY <1>11 DEF PutBack
<1>12. ASSUME NEW t \in Thread, Generate(t) PROVE Grows
  BY <1>12 DEF Generate
<1>13. ASSUME NEW t \in Thread, Enqueue(t) PROVE Grows
  BY <1>13 DEF Enqueue
<1>14. ASSUME NEW t \in Thread, Publish(t) PROVE Grows
  BY <1>14 DEF Publish
<1>15. CASE Tick
  BY <1>15 DEF Tick
<1>16. CASE UNCHANGED vars
  BY <1>16 DEF vars
<1> QED
  BY <1>1, <1>2, <1>3, <1>4, <1>5, <1>6, <1>7, <1>8, <1>9, <1>10, <1>11,
     <1>12, <1>13, <1>14, <1>15, <1>16 DEF Next, Step

(* A code that no other entry has now was no other entry's before. *)
LEMMA OnlyEntryBefore ==
    TypeOK /\ IssuedOnce /\ [Next]_vars
        => \A e \in TokenExpiry : OnlyEntry(e)' => OnlyEntry(e)
  BY GivenGrows DEF OnlyEntry

-----------------------------------------------------------------------------
(* No code is lost. *)

(* An entry that has been built for a storeUser call. *)
Built(e) ==
    e \in issued \/ \E t \in Thread : pc[t] \in Building /\ held[t] = e

(* Nothing the store holds was built elsewhere; an entry that flush is     *)
(* dropping, or that getUser is discarding, has expired.                   *)
Provenance ==
    /\ \A e \in TokenExpiry : Known(e) => Built(e)
    /\ \A t \in Thread :
          /\ pc[t] = "drop" => Built(held[t]) /\ Expired(held[t])
          /\ pc[t] = "discard" => Expired(held[t])

(* What has expired stays expired. *)
LEMMA TickKeepsExpired ==
    TypeOK /\ Tick => \A e \in TokenExpiry : Expired(e) => Expired(e)'
  BY DEF TypeOK, Tick, Expired, TokenExpiry

(* Only storeUser builds entries; flush drops what has expired. *)
LEMMA NextProvenance ==
    TypeOK /\ Provenance /\ [Next]_vars => Provenance'
<1> SUFFICES ASSUME TypeOK, Provenance, [Next]_vars PROVE Provenance'
  OBVIOUS
<1> USE StoreAssumption
<1> USE DEF TypeOK, Location, Owns, Building, Redeeming,
        shared, local, history, Goto, Hold, Return,
        Provenance, Known, Built, Expired
<1>1. ASSUME NEW t \in Thread, NEW c \in Code, GetUser(t, c) PROVE Provenance'
  BY <1>1 DEF GetUser
<1>2. ASSUME NEW t \in Thread, NEW u \in User, StoreUser(t, u) PROVE Provenance'
  BY <1>2 DEF StoreUser
<1>3. ASSUME NEW t \in Thread, FlushCheck(t) PROVE Provenance'
  BY <1>3 DEF FlushCheck, AfterFlush
<1>4. ASSUME NEW t \in Thread, FlushStamp(t) PROVE Provenance'
  BY <1>4 DEF FlushStamp
<1>5. ASSUME NEW t \in Thread, FlushPoll(t) PROVE Provenance'
  BY <1>5 DEF FlushPoll, FirstDue, AfterFlush
<1>6. ASSUME NEW t \in Thread, FlushDrop(t) PROVE Provenance'
  BY <1>6 DEF FlushDrop, RemoveCode
<1>7. ASSUME NEW t \in Thread, Take(t) PROVE Provenance'
  BY <1>7 DEF Take, RemoveCode
<1>8. ASSUME NEW t \in Thread, CheckDelay(t) PROVE Provenance'
  BY <1>8 DEF CheckDelay, AfterDelay
<1>9. ASSUME NEW t \in Thread, Discard(t) PROVE Provenance'
  BY <1>9 DEF Discard, RemoveEntry
<1>10. ASSUME NEW t \in Thread, Unqueue(t) PROVE Provenance'
  BY <1>10 DEF Unqueue, RemoveEntry
<1>11. ASSUME NEW t \in Thread, PutBack(t) PROVE Provenance'
  BY <1>11 DEF PutBack, TokenExpiry
<1>12. ASSUME NEW t \in Thread, Generate(t) PROVE Provenance'
  BY <1>12 DEF Generate, TokenExpiry
<1>13. ASSUME NEW t \in Thread, Enqueue(t) PROVE Provenance'
  BY <1>13 DEF Enqueue
<1>14. ASSUME NEW t \in Thread, Publish(t) PROVE Provenance'
  BY <1>14 DEF Publish, TokenExpiry
<1>15. CASE Tick
  <2>1. UNCHANGED <<codes, expiryQueue, pc, held, issued, redeemed>>
    BY <1>15 DEF Tick
  <2> QED
    BY <1>15, <2>1, TickKeepsExpired
<1>16. CASE UNCHANGED vars
  BY <1>16 DEF vars
<1> QED
  BY <1>1, <1>2, <1>3, <1>4, <1>5, <1>6, <1>7, <1>8, <1>9, <1>10, <1>11,
     <1>12, <1>13, <1>14, <1>15, <1>16 DEF Next, Step

(* Where NoLostCode looks for an entry that is neither expired nor sharing *)
(* its code.                                                               *)
Kept(e) ==
    \/ codes[e.code] = e
    \/ \E t \in Thread : pc[t] \in Redeeming /\ held[t] = e
    \/ ExpireCodeWhenUsed /\ e \in redeemed

(* A flush drops, a discard forgets and a put overwrites entries that have *)
(* expired or whose code another one has; the others are kept.             *)
LEMMA StepKeeps ==
    ASSUME TypeOK, Ownership, IssuedOnce, Provenance, Next,
           NEW e \in issued, OnlyEntry(e), ~Expired(e), Kept(e)
    PROVE  Kept(e)'
<1> USE StoreAssumption
<1> USE DEF TypeOK, Location, Owns, Building, Redeeming,
        shared, local, history, Goto, Hold, Return, Kept
<1>0. /\ e \in TokenExpiry /\ e.code \in Code /\ e # Null
      /\ \A f \in TokenExpiry : Built(f) /\ f.code = e.code => f = e
  BY DEF TokenExpiry, Built, OnlyEntry, Given
<1>1. ASSUME NEW t \in Thread, NEW c \in Code, GetUser(t, c) PROVE Kept(e)'
  BY <1>1 DEF GetUser
<1>2. ASSUME NEW t \in Thread, NEW u \in User, StoreUser(t, u) PROVE Kept(e)'
  BY <1>2 DEF StoreUser
<1>3. ASSUME NEW t \in Thread, FlushCheck(t) PROVE Kept(e)'
  BY <1>3 DEF FlushCheck, AfterFlush
<1>4. ASSUME NEW t \in Thread, FlushStamp(t) PROVE Kept(e)'
  BY <1>4 DEF FlushStamp
<1>5. ASSUME NEW t \in Thread, FlushPoll(t) PROVE Kept(e)'
  BY <1>5 DEF FlushPoll, AfterFlush
<1>6. ASSUME NEW t \in Thread, FlushDrop(t) PROVE Kept(e)'
  <2>1. held[t] \in TokenExpiry /\ Built(held[t]) /\ Expired(held[t])
    BY <1>6 DEF FlushDrop, Provenance
  <2>2. held[t].code # e.code
    BY <1>0, <2>1
  <2> QED
    BY <1>0, <1>6, <2>2 DEF FlushDrop, RemoveCode
<1>7. ASSUME NEW t \in Thread, Take(t) PROVE Kept(e)'
  <2>1. /\ \A u \in Thread : u # t => pc'[u] = pc[u] /\ held'[u] = held[u]
        /\ pc[t] \notin Redeeming /\ redeemed' = redeemed
    BY <1>7 DEF Take
  <2>2. codes[e.code] = e
          => codes'[e.code] = e \/ (pc'[t] \in Redeeming /\ held'[t] = e)
    BY <1>0, <1>7 DEF Take, RemoveCode
  <2> QED
    BY <2>1, <2>2
<1>8. ASSUME NEW t \in Thread, CheckDelay(t) PROVE Kept(e)'
  BY <1>8 DEF CheckDelay, AfterDelay
<1>9. ASSUME NEW t \in Thread, Discard(t) PROVE Kept(e)'
  <2>1. held[t] # e
    BY <1>9 DEF Discard, Provenance
  <2> QED
    BY <1>9, <2>1 DEF Discard
<1>10. ASSUME NEW t \in Thread, Unqueue(t) PROVE Kept(e)'
  BY <1>10 DEF Unqueue, Ownership, FlagDecides
<1>11. ASSUME NEW t \in Thread, PutBack(t) PROVE Kept(e)'
  <2>1. /\ held[t] \in TokenExpiry /\ Built(held[t])
        /\ codes' = [codes EXCEPT ![held[t].code] = held[t]]
        /\ redeemed \subseteq redeemed'
        /\ \A u \in Thread : u # t => pc'[u] = pc[u] /\ held'[u] = held[u]
    BY <1>11 DEF PutBack, IssuedOnce, Built
  <2>2. CASE held[t].code = e.code
    BY <1>0, <2>1, <2>2
  <2>3. CASE held[t].code # e.code
    BY <1>0, <2>1, <2>3
  <2> QED
    BY <2>2, <2>3
<1>12. ASSUME NEW t \in Thread, Generate(t) PROVE Kept(e)'
  BY <1>12 DEF Generate
<1>13. ASSUME NEW t \in Thread, Enqueue(t) PROVE Kept(e)'
  BY <1>13 DEF Enqueue
<1>14. ASSUME NEW t \in Thread, Publish(t) PROVE Kept(e)'
  <2>1. /\ held[t] \in TokenExpiry /\ Built(held[t])
        /\ codes' = [codes EXCEPT ![held[t].code] = held[t]]
        /\ redeemed' = redeemed /\ pc[t] \notin Redeeming
        /\ \A u \in Thread : u # t => pc'[u] = pc[u] /\ held'[u] = held[u]
    BY <1>14 DEF Publish, Built
  <2>2. CASE held[t].code = e.code
    BY <1>0, <2>1, <2>2
  <2>3. CASE held[t].code # e.code
    BY <1>0, <2>1, <2>3
  <2> QED
    BY <2>2, <2>3
<1>15. CASE Tick
  BY <1>15 DEF Tick
<1> QED
  BY <1>1, <1>2, <1>3, <1>4, <1>5, <1>6, <1>7, <1>8, <1>9, <1>10, <1>11,
     <1>12, <1>13, <1>14, <1>15 DEF Next, Step

(* What is issued is put into the map under its code. *)
LEMMA NewIsKept ==
    ASSUME TypeOK, [Next]_vars, NEW e \in issued' \ issued
    PROVE  Kept(e)'
<1>1. PICK t \in Thread : Publish(t)
  BY DEF Next, Step, GetUser, StoreUser, FlushCheck, FlushStamp, FlushPoll,
         FlushDrop, Take, CheckDelay, Discard, Unqueue, PutBack, Generate,
         Enqueue, Tick, vars, history
<1>2. e = held[t] /\ e.code \in Code /\ codes' = [codes EXCEPT ![e.code] = e]
  BY <1>1 DEF Publish, TypeOK, Owns, Building, TokenExpiry
<1> QED
  BY <1>2 DEF Kept, TypeOK

(* One statement of one thread, or a tick of the clock, loses no code. *)
LEMMA NextNoLostCode ==
    TypeOK /\ Ownership /\ IssuedOnce /\ Provenance /\ NoLostCode /\ [Next]_vars
        => NoLostCode'
<1> SUFFICES ASSUME TypeOK, Ownership, IssuedOnce, Provenance, NoLostCode, [Next]_vars,
                    NEW e \in issued', OnlyEntry(e)', ~Expired(e)'
             PROVE  Kept(e)'
  BY DEF NoLostCode, Kept
<1>1. CASE e \notin issued
  BY <1>1, NewIsKept
<1>2. CASE e \in issued
  <2>1. e \in TokenExpiry
    BY <1>2 DEF TypeOK
  <2>2. OnlyEntry(e)
    BY <2>1, OnlyEntryBefore
  <2>3. ~Expired(e)
    <3>1. CASE Tick
      BY <2>1, <3>1, TickKeepsExpired
    <3>2. CASE ~Tick
      <4>1. now' = now
        BY <3>2 DEF Next, Step, GetUser, StoreUser, FlushCheck, FlushStamp, FlushPoll,
               FlushDrop, Take, CheckDelay, Discard, Unqueue, PutBack, Generate,
               Enqueue, Publish, vars
      <4> QED
        BY <4>1 DEF Expired
    <3> QED
      BY <3>1, <3>2
  <2>4. Kept(e)
    BY <1>2, <2>2, <2>3 DEF NoLostCode, Kept
  <2>5. CASE Next
    BY <1>2, <2>2, <2>3, <2>4, <2>5, StepKeeps
  <2>6. CASE UNCHANGED vars
    BY <2>4, <2>6 DEF Kept, vars, shared, local, history
  <2> QED
    BY <2>5, <2>6
<1> QED
  BY <1>1, <1>2

(* What the store holds was built by storeUser and issued once. *)
LEMMA OriginInvariance == Spec => [](IssuedOnce /\ Provenance)
<1>1. Init => IssuedOnce /\ Provenance
  BY StoreAssumption DEF Init, IssuedOnce, Provenance, Known, Built, Owns,
     Building, Redeeming
<1>2. TypeOK /\ Ownership /\ IssuedOnce /\ Provenance /\ [Next]_vars
        => (IssuedOnce /\ Provenance)'
  BY NextIssuedOnce, NextProvenance DEF Ownership
<1> QED
  BY <1>1, <1>2, OwnershipInvariance, PTL DEF Spec

(* No code is lost before it expires or is used up, whatever getUser,      *)
(* storeUser and flush calls interleave, unless the same code is drawn     *)
(* again.                                                                  *)
THEOREM NoCodeIsLost == Spec => []NoLostCode
<1>1. Init => NoLostCode
  BY DEF Init, NoLostCode
<1> QED
  BY <1>1, NextNoLostCode, OwnershipInvariance, OriginInvariance, PTL DEF Spec

-----------------------------------------------------------------------------
(* The refinement: every step of the store is a step of CodeLifecycle for  *)
(* the user of the entry it moves, or a stutter.                           *)

(* An issued user is in one place: in the hands of one thread, or in one   *)
(* slot of the map, and not in both.                                       *)
OnePlace ==
    /\ \A t \in Thread, c \in Code : pc[t] \in Redeeming /\ codes[c] # Null
          => codes[c].user # held[t].user
    /\ \A t, u \in Thread : pc[t] \in Redeeming /\ pc[u] \in Redeeming /\ t # u
          => held[u].user # held[t].user
    /\ \A c, d \in Code : codes[c] # Null /\ codes[d] # Null /\ c # d
          => codes[c].user # codes[d].user

(* Ownership of entries is ownership of users. *)
LEMMA OwnersAreApart == TypeOK /\ Ownership /\ IssuedOnce => OnePlace
  BY DEF TypeOK, Ownership, KeysMatch, Exclusive, Owns, IssuedOnce, OnePlace

Claimed(u) == \E t \in Thread : pc[t] \in Redeeming /\ held[t].user = u
InMap(u) == \E c \in Code : codes[c] # Null /\ codes[c].user = u
WasIssued(u) == \E e \in issued : e.user = u

StatusOf(u) == IF Claimed(u) THEN "claimed"
               ELSE IF InMap(u) THEN "available"
               ELSE IF WasIssued(u) THEN "gone"
               ELSE "fresh"

Used == {e.user : e \in redeemed}

(* The refinement mapping, user by user. *)
LEMMA Mapping == /\ TicketStatus = [u \in User |-> StatusOf(u)]
                 /\ TicketStatus' = [u \in User |-> StatusOf(u)']
  BY DEF TicketStatus, StatusOf, Claimed, InMap, WasIssued

(* A step that moves no entry between the places a user can be in. *)
LEMMA SameIsStutter ==
    ASSUME \A u \in User : StatusOf(u)' = StatusOf(u), Used' = Used
    PROVE  UNCHANGED Lifecycle!vars
  BY Mapping DEF Lifecycle!vars, Used

(* A step that moves only user w. *)
LEMMA OneMoves ==
    ASSUME NEW w \in User, NEW s,
           \A u \in User : u # w => StatusOf(u)' = StatusOf(u),
           StatusOf(w)' = s
    PROVE  TicketStatus' = [TicketStatus EXCEPT ![w] = s]
  BY Mapping

(* Publish and PutBack: the entry of t takes its slot of the map from the  *)
(* entry that was there.                                                   *)
LEMMA SlotIsOffered ==
    ASSUME TypeOK, OnePlace, IssuedOnce, NEW t \in Thread,
           NEW e \in TokenExpiry, held[t] = e,
           pc[t] \in {"publish", "putBack"}, Return(t),
           \A c \in Code : codes[c] # Null => codes[c].user # e.user,
           codes' = [codes EXCEPT ![e.code] = e],
           issued' = issued \cup {e}
    PROVE  Lifecycle!Offer(e.user)
<1> DEFINE w == e.user
           old == codes[e.code]
           lost == IF old = Null THEN {} ELSE {old.user}
<1> USE StoreAssumption DEF Redeeming, Building
<1>1. /\ w \in User /\ e.code \in Code
      /\ old \in TokenExpiry \cup {Null} /\ e # Null
  BY DEF TypeOK, Owns, TokenExpiry
<1>2. /\ pc'[t] = "idle"
      /\ \A v \in Thread : v # t => pc'[v] = pc[v] /\ held'[v] = held[v]
  BY DEF Return, Goto, Hold, TypeOK
<1>3. codes'[e.code] = e /\ \A c \in Code : c # e.code => codes'[c] = codes[c]
  BY <1>1 DEF TypeOK
<1>4. \A u \in User : u # w => (Claimed(u)' <=> Claimed(u))
  BY <1>1, <1>2 DEF Claimed
<1>5. \A u \in User : u # w => (WasIssued(u)' <=> WasIssued(u))
  BY DEF WasIssued
<1>6. \A u \in User : u # w /\ u \notin lost => (InMap(u)' <=> InMap(u))
  BY <1>1, <1>3 DEF InMap
<1>7. ASSUME NEW u \in lost
      PROVE  /\ u \in User \ {w} /\ StatusOf(u) = "available"
             /\ StatusOf(u)' = "gone"
  <2>1. old # Null /\ u = old.user
    BY <1>7
  <2>2. u \in User /\ u # w
    BY <1>1, <2>1 DEF TokenExpiry
  <2>3. ~Claimed(u) /\ InMap(u)
    BY <1>1, <2>1 DEF OnePlace, Claimed, InMap
  <2>4. ~InMap(u)'
    BY <1>1, <1>3, <2>1, <2>2 DEF InMap, OnePlace
  <2>5. WasIssued(u)
    BY <1>1, <2>1 DEF IssuedOnce, WasIssued
  <2> QED
    BY <1>4, <1>5, <2>2, <2>3, <2>4, <2>5 DEF StatusOf
<1>8. StatusOf(w)' = "available"
  <2>1. InMap(w)'
    BY <1>1, <1>3 DEF InMap
  <2>2. ~Claimed(w)'
    <3> SUFFICES ASSUME NEW v \in Thread, pc'[v] \in Redeeming, held'[v].user = w
                 PROVE  FALSE
      BY DEF Claimed
    <3>1. v # t /\ pc[v] \in Redeeming /\ held[v].user = w
      BY <1>2
    <3>2. CASE pc[t] = "putBack"
      BY <3>1, <3>2 DEF OnePlace
    <3>3. CASE pc[t] = "publish"
      BY <3>1, <3>3 DEF IssuedOnce, TypeOK
    <3> QED
      BY <3>2, <3>3
  <2> QED
    BY <2>1, <2>2 DEF StatusOf
<1>9. \A u \in User : u # w /\ u \notin lost => StatusOf(u)' = StatusOf(u)
  BY <1>4, <1>5, <1>6 DEF StatusOf
<1>10. TicketStatus' = [j \in User |-> IF j = w THEN "available"
                                       ELSE IF j \in lost THEN "gone"
                                       ELSE TicketStatus[j]]
  BY <1>7, <1>8, <1>9, Mapping
<1>11. lost \in SUBSET (Lifecycle!Available \ {w})
  BY <1>7, Mapping DEF Lifecycle!Available
<1>12. \A j, k \in lost : j = k
  OBVIOUS
<1> QED
  BY <1>10, <1>11, <1>12 DEF Lifecycle!Offer

(* Discard and Unqueue: the user whose entry t holds is gone. *)
LEMMA ClaimEnds ==
    ASSUME TypeOK, OnePlace, IssuedOnce, NEW t \in Thread,
           NEW e \in TokenExpiry, held[t] = e,
           pc[t] \in Redeeming, Return(t), UNCHANGED <<codes, issued>>
    PROVE  /\ TicketStatus[e.user] = "claimed"
           /\ TicketStatus' = [TicketStatus EXCEPT ![e.user] = "gone"]
<1> DEFINE w == e.user
<1>1. w \in User /\ Claimed(w) /\ WasIssued(w)
  BY DEF TokenExpiry, Claimed, IssuedOnce, WasIssued
<1>2. /\ pc'[t] \notin Redeeming
      /\ \A v \in Thread : v # t => pc'[v] = pc[v] /\ held'[v] = held[v]
  BY DEF Return, Goto, Hold, TypeOK, Redeeming
<1>3. \A u \in User : u # w => StatusOf(u)' = StatusOf(u)
  BY <1>2 DEF StatusOf, Claimed, InMap, WasIssued
<1>4. StatusOf(w)' = "gone"
  BY <1>1, <1>2 DEF StatusOf, Claimed, InMap, WasIssued, OnePlace
<1> QED
  BY <1>1, <1>3, <1>4, OneMoves, Mapping DEF StatusOf

(* Every statement is one step of the life cycle, or none. *)
LEMMA StepRefines ==
    /\ TypeOK /\ Ownership /\ IssuedOnce /\ [Next]_vars
    => [Lifecycle!Next]_(Lifecycle!vars)
<1> SUFFICES ASSUME TypeOK, Ownership, IssuedOnce, [Next]_vars
             PROVE  [Lifecycle!Next]_(Lifecycle!vars)
  OBVIOUS
<1> DEFINE Refines == [Lifecycle!Next]_(Lifecycle!vars)
<1> USE StoreAssumption DEF shared, local, history
<1>0. OnePlace
  BY OwnersAreApart
<1>a. ASSUME NEW t \in Thread, UNCHANGED <<codes, issued, redeemed>>,
             \A v \in Thread : v # t => pc'[v] = pc[v] /\ held'[v] = held[v],
             pc'[t] \in Redeeming <=> pc[t] \in Redeeming,
             pc[t] \in Redeeming => held'[t] = held[t]
      PROVE  Refines
  <2>1. \A u \in User : StatusOf(u)' = StatusOf(u)
    BY <1>a DEF StatusOf, Claimed, InMap, WasIssued
  <2> QED
    BY <1>a, <2>1, SameIsStutter DEF Used
<1>1. ASSUME NEW t \in Thread, NEW c \in Code, GetUser(t, c) PROVE Refines
  BY <1>a, <1>1 DEF GetUser, Goto, Hold, TypeOK, Redeeming
<1>2. ASSUME NEW t \in Thread, NEW u \in User, StoreUser(t, u) PROVE Refines
  BY <1>a, <1>2 DEF StoreUser, Goto, Hold, TypeOK, Redeeming
<1>3. ASSUME NEW t \in Thread, FlushCheck(t) PROVE Refines
  BY <1>a, <1>3 DEF FlushCheck, AfterFlush, Goto, Hold, TypeOK, Redeeming
<1>4. ASSUME NEW t \in Thread, FlushStamp(t) PROVE Refines
  BY <1>a, <1>4 DEF FlushStamp, Goto, Hold, TypeOK, Redeeming
<1>5. ASSUME NEW t \in Thread, FlushPoll(t) PROVE Refines
  BY <1>a, <1>5 DEF FlushPoll, AfterFlush, Goto, Hold, TypeOK, Redeeming
<1>6. ASSUME NEW t \in Thread, FlushDrop(t) PROVE Refines
  <2>0. PICK e \in TokenExpiry \cup {Null} : e = codes[held[t].code]
    BY <1>6 DEF FlushDrop, TypeOK, TokenExpiry
  <2>1. /\ held[t].code \in Code
        /\ codes' = [codes EXCEPT ![held[t].code] = Null]
        /\ UNCHANGED <<issued, redeemed>>
        /\ pc[t] \notin Redeeming /\ pc'[t] \notin Redeeming
        /\ \A v \in Thread : v # t => pc'[v] = pc[v] /\ held'[v] = held[v]
    BY <1>6 DEF FlushDrop, RemoveCode, Goto, Hold, TypeOK, TokenExpiry, Redeeming
  <2>2. CASE e = Null
    <3>1. codes' = codes
      <4>1. DOMAIN codes = Code /\ codes = [c \in Code |-> codes[c]]
        BY DEF TypeOK
      <4>2. \A c \in Code : codes'[c] = codes[c]
        BY <2>0, <2>1, <2>2, <4>1
      <4> QED
        BY <2>1, <4>1, <4>2
    <3> QED
      BY <1>a, <2>1, <3>1
  <2>3. CASE e # Null
    <3>1. e \in TokenExpiry /\ e.user \in User /\ WasIssued(e.user)
      BY <2>0, <2>1, <2>3 DEF TypeOK, TokenExpiry, IssuedOnce, WasIssued
    <3>2. \A u \in User : u # e.user => StatusOf(u)' = StatusOf(u)
      BY <2>0, <2>1, <2>3 DEF StatusOf, Claimed, InMap, WasIssued, TypeOK
    <3>3. StatusOf(e.user) = "available"
      BY <1>0, <2>0, <2>1, <2>3 DEF StatusOf, Claimed, InMap, OnePlace
    <3>4. StatusOf(e.user)' = "gone"
      BY <1>0, <2>0, <2>1, <2>3, <3>1
         DEF StatusOf, Claimed, InMap, WasIssued, OnePlace, TypeOK
    <3>5. Lifecycle!Drop(e.user)
      BY <2>1, <3>1, <3>2, <3>3, <3>4, OneMoves, Mapping DEF Lifecycle!Drop
    <3> QED
      BY <3>1, <3>5 DEF Lifecycle!Next
  <2> QED
    BY <2>2, <2>3
<1>7. ASSUME NEW t \in Thread, Take(t) PROVE Refines
  <2>0. PICK e \in TokenExpiry \cup {Null} : e = codes[request[t]]
    BY <1>7 DEF Take, TypeOK, Redeeming
  <2>1. /\ request[t] \in Code /\ UNCHANGED <<issued, redeemed>>
        /\ pc[t] \notin Redeeming
        /\ \A v \in Thread : v # t => pc'[v] = pc[v] /\ held'[v] = held[v]
    BY <1>7 DEF Take, Return, Goto, Hold, TypeOK, Redeeming
  <2>2. CASE e = Null
    <3>1. pc'[t] \notin Redeeming /\ codes' = codes
      BY <1>7, <2>0, <2>2 DEF Take, Return, Goto, TypeOK, Redeeming
    <3> QED
      BY <1>a, <2>1, <3>1
  <2>3. CASE e # Null
    <3>1. /\ e \in TokenExpiry /\ e.user \in User
          /\ codes' = [codes EXCEPT ![request[t]] = Null]
          /\ pc'[t] \in Redeeming /\ held'[t] = e
      BY <1>7, <2>0, <2>1, <2>3
         DEF Take, RemoveCode, Goto, Hold, TypeOK, TokenExpiry, Redeeming
    <3>2. \A u \in User : u # e.user => StatusOf(u)' = StatusOf(u)
      BY <2>0, <2>1, <3>1 DEF StatusOf, Claimed, InMap, WasIssued, TypeOK
    <3>3. StatusOf(e.user) = "available"
      BY <1>0, <2>0, <2>1, <2>3 DEF StatusOf, Claimed, InMap, OnePlace
    <3>4. StatusOf(e.user)' = "claimed"
      BY <3>1 DEF StatusOf, Claimed
    <3>5. Lifecycle!Claim(e.user)
      BY <2>1, <3>1, <3>2, <3>3, <3>4, OneMoves, Mapping DEF Lifecycle!Claim
    <3> QED
      BY <3>1, <3>5 DEF Lifecycle!Next
  <2> QED
    BY <2>2, <2>3
<1>8. ASSUME NEW t \in Thread, CheckDelay(t) PROVE Refines
  BY <1>a, <1>8 DEF CheckDelay, AfterDelay, Goto, Hold, TypeOK, Redeeming
<1>9. ASSUME NEW t \in Thread, Discard(t) PROVE Refines
  <2>1. PICK e \in TokenExpiry : held[t] = e
    BY <1>9 DEF Discard, TypeOK, Owns, Redeeming
  <2>2. /\ pc[t] \in Redeeming /\ Return(t)
        /\ UNCHANGED <<codes, issued, redeemed>>
    BY <1>9 DEF Discard, Redeeming
  <2>3. Lifecycle!Reject(e.user)
    BY <1>0, <2>1, <2>2, ClaimEnds DEF Lifecycle!Reject
  <2>4. e.user \in User /\ Lifecycle!Settle(e.user)
    BY <2>3 DEF Lifecycle!Settle, TokenExpiry
  <2> QED
    BY <2>4 DEF Lifecycle!Next
<1>10. ASSUME NEW t \in Thread, Unqueue(t) PROVE Refines
  <2>1. PICK e \in TokenExpiry : held[t] = e
    BY <1>10 DEF Unqueue, TypeOK, Owns, Redeeming
  <2>2. /\ pc[t] \in Redeeming /\ Return(t) /\ ExpireCodeWhenUsed
        /\ UNCHANGED <<codes, issued>>
        /\ redeemed' = redeemed \cup {e}
    BY <1>10, <2>1 DEF Unqueue, Redeeming, Ownership, FlagDecides
  <2>3. Lifecycle!Use(e.user)
    BY <1>0, <2>1, <2>2, ClaimEnds DEF Lifecycle!Use
  <2>4. e.user \in User /\ Lifecycle!Settle(e.user)
    BY <2>3 DEF Lifecycle!Settle, TokenExpiry
  <2> QED
    BY <2>4 DEF Lifecycle!Next
<1>11. ASSUME NEW t \in Thread, PutBack(t) PROVE Refines
  <2>1. PICK e \in TokenExpiry : held[t] = e
    BY <1>11 DEF PutBack, TypeOK, Owns, Redeeming
  <2>2. /\ pc[t] \in Redeeming /\ pc[t] = "putBack" /\ Return(t)
        /\ ~ExpireCodeWhenUsed
        /\ codes' = [codes EXCEPT ![e.code] = e]
        /\ issued' = issued /\ redeemed' = redeemed \cup {e}
    BY <1>11, <2>1 DEF PutBack, Redeeming, Ownership, FlagDecides
  <2>3. e.user \in User /\ e \in issued /\ StatusOf(e.user) = "claimed"
    BY <2>1, <2>2 DEF TokenExpiry, IssuedOnce, StatusOf, Claimed
  <2>4. \A c \in Code : codes[c] # Null => codes[c].user # e.user
    BY <1>0, <2>1, <2>2 DEF OnePlace
  <2>5. Lifecycle!Offer(e.user)
    BY <1>0, <2>1, <2>2, <2>3, <2>4, SlotIsOffered
  <2>6. Lifecycle!Use(e.user)
    BY <2>2, <2>3, <2>5, Mapping DEF Lifecycle!Use
  <2>7. Lifecycle!Settle(e.user)
    BY <2>6 DEF Lifecycle!Settle
  <2> QED
    BY <2>3, <2>7 DEF Lifecycle!Next
<1>12. ASSUME NEW t \in Thread, Generate(t) PROVE Refines
  BY <1>a, <1>12 DEF Generate, Goto, Hold, TypeOK, Redeeming
<1>13. ASSUME NEW t \in Thread, Enqueue(t) PROVE Refines
  BY <1>a, <1>13 DEF Enqueue, Goto, Hold, TypeOK, Redeeming
<1>14. ASSUME NEW t \in Thread, Publish(t) PROVE Refines
  <2>1. PICK e \in TokenExpiry : held[t] = e
    BY <1>14 DEF Publish, TypeOK, Owns, Building
  <2>2. /\ pc[t] = "publish" /\ pc[t] \in Building /\ Return(t)
        /\ codes' = [codes EXCEPT ![e.code] = e]
        /\ issued' = issued \cup {e} /\ redeemed' = redeemed
    BY <1>14, <2>1 DEF Publish, Building
  <2>3. e.user \in User /\ \A f \in issued : f.user # e.user
    BY <2>1, <2>2 DEF TypeOK, TokenExpiry, IssuedOnce
  <2>4. \A c \in Code : codes[c] # Null => codes[c].user # e.user
    BY <2>3 DEF IssuedOnce
  <2>5. StatusOf(e.user) = "fresh"
    BY <2>3 DEF StatusOf, Claimed, InMap, WasIssued, IssuedOnce
  <2>6. Lifecycle!Offer(e.user)
    BY <1>0, <2>1, <2>2, <2>4, SlotIsOffered
  <2>7. Lifecycle!Issue(e.user)
    BY <2>2, <2>3, <2>5, <2>6, Mapping DEF Lifecycle!Issue
  <2> QED
    BY <2>3, <2>7 DEF Lifecycle!Next
<1>15. ASSUME UNCHANGED <<codes, issued, redeemed, pc, held>> PROVE Refines
  BY <1>15, SameIsStutter DEF StatusOf, Claimed, InMap, WasIssued, Used
<1>16. CASE Tick \/ UNCHANGED vars
  BY <1>15, <1>16 DEF Tick, vars
<1> QED
  BY <1>1, <1>2, <1>3, <1>4, <1>5, <1>6, <1>7, <1>8, <1>9, <1>10, <1>11,
     <1>12, <1>13, <1>14, <1>16 DEF Next, Step

(* To its callers the store, with all its interleavings, is the life cycle *)
(* of tickets: issued once, claimed by one getUser at a time, used at most *)
(* once when one-time, and lost only to one other ticket at a time.        *)
THEOREM StoreImplementsLifecycle == Spec => ImplementsLifecycle
<1>1. Init => Lifecycle!Init
  BY StoreAssumption DEF Init, TicketStatus, Lifecycle!Init, Redeeming
<1> QED
  BY <1>1, StepRefines, OwnershipInvariance, OriginInvariance, PTL
     DEF Spec, Lifecycle!Spec, ImplementsLifecycle

-----------------------------------------------------------------------------
(* What the life cycle promises its callers, and therefore the store does. *)

(* A ticket is in one of the four states of its life. *)
LEMMA LifecycleTyped == Lifecycle!Spec => []Lifecycle!TypeOK
<1>1. Lifecycle!Init => Lifecycle!TypeOK
  BY DEF Lifecycle!Init, Lifecycle!TypeOK, Lifecycle!Status
<1>2. Lifecycle!TypeOK /\ [Lifecycle!Next]_(Lifecycle!vars) => Lifecycle!TypeOK'
  BY DEF Lifecycle!TypeOK, Lifecycle!Status, Lifecycle!Next, Lifecycle!vars, Lifecycle!Issue,
         Lifecycle!Offer, Lifecycle!Claim, Lifecycle!Settle, Lifecycle!Use, Lifecycle!Reject,
         Lifecycle!Drop
<1> QED
  BY <1>1, <1>2, PTL DEF Lifecycle!Spec

(* A step of the life cycle revives no ticket, and leaves what it uses     *)
(* once and for all gone.                                                  *)
LEMMA LifecycleStep ==
    ASSUME Lifecycle!TypeOK, [Lifecycle!Next]_(Lifecycle!vars)
    PROVE  /\ \A i \in User : TicketStatus[i] = "gone" => TicketStatus'[i] = "gone"
           /\ Lifecycle!UsedIsGone => Lifecycle!UsedIsGone'
<1> USE DEF Lifecycle!TypeOK, Lifecycle!UsedIsGone, Lifecycle!Offer, Lifecycle!Available
<1>1. ASSUME NEW i \in User, Lifecycle!Issue(i) \/ Lifecycle!Claim(i) \/ Lifecycle!Drop(i)
      PROVE  /\ \A j \in User : TicketStatus[j] = "gone" => TicketStatus'[j] = "gone"
             /\ Lifecycle!UsedIsGone => Lifecycle!UsedIsGone'
  BY <1>1 DEF Lifecycle!Issue, Lifecycle!Claim, Lifecycle!Drop
<1>2. ASSUME NEW i \in User, Lifecycle!Settle(i)
      PROVE  /\ \A j \in User : TicketStatus[j] = "gone" => TicketStatus'[j] = "gone"
             /\ Lifecycle!UsedIsGone => Lifecycle!UsedIsGone'
  BY <1>2 DEF Lifecycle!Settle, Lifecycle!Use, Lifecycle!Reject
<1>3. CASE UNCHANGED Lifecycle!vars
  BY <1>3 DEF Lifecycle!vars
<1> QED
  BY <1>1, <1>2, <1>3 DEF Lifecycle!Next

(* A code that was used up, has expired or was dropped never comes back to *)
(* the map or into the hands of a getUser, and a one-time code that was    *)
(* redeemed is such a code: this holds of every implementation of the life *)
(* cycle, and of the store because it is one.                              *)
THEOREM GoneCodesStayGone ==
    Spec => Lifecycle!GoneStaysGone /\ []Lifecycle!UsedIsGone
<1>1. Lifecycle!Init => Lifecycle!UsedIsGone
  BY DEF Lifecycle!Init, Lifecycle!UsedIsGone
<1> DEFINE Stays == \A i \in User : TicketStatus[i] = "gone" => TicketStatus'[i] = "gone"
<1>2. Lifecycle!TypeOK /\ [Lifecycle!Next]_(Lifecycle!vars) => [Stays]_(Lifecycle!vars)
  BY LifecycleStep
<1>3. Lifecycle!TypeOK /\ Lifecycle!UsedIsGone /\ [Lifecycle!Next]_(Lifecycle!vars)
        => Lifecycle!UsedIsGone'
  BY LifecycleStep
<1> QED
  BY <1>1, <1>2, <1>3, LifecycleTyped, StoreImplementsLifecycle, PTL
     DEF Lifecycle!Spec, ImplementsLifecycle, Lifecycle!GoneStaysGone
=============================================================================
