---------------------------- MODULE Dsync_proofs ----------------------------
(***************************************************************************)
(* Machine-checked proofs about Dsync, for every number of nodes dsync.Init *)
(* accepts, every set of goroutines and every bound.                        *)
(***************************************************************************)
EXTENDS Dsync, FiniteSetTheorems, TLAPS

-----------------------------------------------------------------------------
(* Type correctness.                                                       *)

Entry == [uid : Uid, writer : BOOLEAN]

(* The handlers of a lock server turn a table into a table.                *)
LEMMA TableType ==
  ASSUME NEW lri \in SUBSET Entry, NEW u \in Uid
  PROVE  /\ Lock(lri, u) \in SUBSET Entry
         /\ RLock(lri, u) \in SUBSET Entry
         /\ Unlock(lri, u) \in SUBSET Entry
         /\ RUnlock(lri, u) \in SUBSET Entry
         /\ ForceUnlock(lri) \in SUBSET Entry
         /\ removeEntryIfExists(lri, u) \in SUBSET Entry
<1>1. lockRequesterInfo(u, TRUE) \in Entry /\ lockRequesterInfo(u, FALSE) \in Entry
  BY DEF Entry, lockRequesterInfo
<1>2. removeEntry(lri, u) \in SUBSET Entry
  BY DEF removeEntry
<1>3. Lock(lri, u) \in SUBSET Entry /\ RLock(lri, u) \in SUBSET Entry
  BY <1>1, Zenon DEF Lock, RLock
<1> QED  BY <1>2, <1>3 DEF Unlock, RUnlock, ForceUnlock, removeEntryIfExists

(* The requests of one broadcast are requests.                             *)
LEMMA RequestsType ==
  ASSUME NEW p \in Proc, NEW t \in Nat, NEW N \in SUBSET Node, NEW r \in BOOLEAN
  PROVE  requests(p, t, N, r) \in SUBSET Request
BY DEF requests, uidOf, Request, Uid

(* Concluding a call of lock() keeps the types.                            *)
LEMMA ConcludeType ==
  ASSUME TypeOK, NEW p \in Proc, NEW L \in SUBSET Node, Conclude(p, L)
  PROVE  /\ pc' \in [Proc -> {"idle", "wait", "backoff", "held"}]
         /\ locks' \in [Proc -> SUBSET Node] /\ failed' \in [Proc -> SUBSET Node]
         /\ writeLocks' \in [Node -> SUBSET Grant]
         /\ readersLocks' \in [Node -> Seq(Grant)]
         /\ rels' \in SUBSET Request
<1> DEFINE h == home[p]
           g == grantOf(p, try[p], L)
<1>1. h \in Node /\ g \in Grant
  BY ProcAssumption DEF TypeOK, grantOf, Grant
<1>2. requests(p, try[p], L, read[p]) \in SUBSET Request
  BY RequestsType DEF TypeOK
<1>3. Append(readersLocks[h], g) \in Seq(Grant)
  BY <1>1 DEF TypeOK
<1>4. CASE quorumMet(L, read[p]) /\ h \in L
  <2>1. pc' = [pc EXCEPT ![p] = "held"] /\ rels' = rels
    BY <1>4 DEF Conclude
  <2>2. CASE read[p]
    <3>1. readersLocks' = [readersLocks EXCEPT ![h] = Append(@, g)] /\ writeLocks' = writeLocks
      BY <1>4, <2>2 DEF Conclude
    <3>2. readersLocks' \in [Node -> Seq(Grant)]
      BY <1>1, <1>3, <3>1 DEF TypeOK
    <3> QED  BY <2>1, <3>1, <3>2 DEF Conclude, TypeOK
  <2>3. CASE ~read[p]
    <3>1. writeLocks' = [writeLocks EXCEPT ![h] = {g}] /\ readersLocks' = readersLocks
      BY <1>4, <2>3 DEF Conclude
    <3>2. writeLocks' \in [Node -> SUBSET Grant]
      BY <1>1, <3>1 DEF TypeOK
    <3> QED  BY <2>1, <3>1, <3>2 DEF Conclude, TypeOK
  <2> QED  BY <2>2, <2>3
<1>5. CASE ~(quorumMet(L, read[p]) /\ h \in L)
  BY <1>2, <1>5, Zenon DEF Conclude, TypeOK, dm
<1> QED  BY <1>4, <1>5

(* Taking an answer keeps the types, whether lock() still collects or not. *)
LEMMA AnswerType ==
  ASSUME TypeOK, NEW m \in Request, NEW ok \in BOOLEAN, Answer(m, ok)
  PROVE  /\ pc' \in [Proc -> {"idle", "wait", "backoff", "held"}]
         /\ locks' \in [Proc -> SUBSET Node] /\ failed' \in [Proc -> SUBSET Node]
         /\ writeLocks' \in [Node -> SUBSET Grant]
         /\ readersLocks' \in [Node -> Seq(Grant)]
         /\ rels' \in SUBSET Request
<1> DEFINE p == m.uid.proc
           L == IF ok THEN locks[p] \cup {m.uid.node} ELSE locks[p]
           F == IF ok THEN failed[p] ELSE failed[p] \cup {m.uid.node}
<1>1. p \in Proc /\ m.uid.node \in Node
  BY DEF Request, Uid
<1>2. L \in SUBSET Node /\ F \in SUBSET Node
  BY <1>1 DEF TypeOK
<1>3. CASE ~collecting(m.uid)
  BY <1>3 DEF Answer, ReleaseLate, TypeOK, attempt, dm
<1>4. CASE collecting(m.uid) /\ (L \cup F = Node \/ Cardinality(F) > dnodeCount - quorum(read[p]))
  <2>1. Conclude(p, L)
    BY <1>4 DEF Answer, Collect
  <2> QED  BY <2>1, <1>1, <1>2, ConcludeType
<1>5. CASE collecting(m.uid) /\ ~(L \cup F = Node \/ Cardinality(F) > dnodeCount - quorum(read[p]))
  <2>1. /\ locks' = [locks EXCEPT ![p] = L]
        /\ failed' = [failed EXCEPT ![p] = F]
        /\ UNCHANGED <<pc, dm, rels>>
    BY <1>5, Zenon DEF Answer, Collect
  <2>2. locks' \in [Proc -> SUBSET Node] /\ failed' \in [Proc -> SUBSET Node]
    BY <1>1, <1>2, <2>1 DEF TypeOK
  <2> QED  BY <2>1, <2>2, Zenon DEF TypeOK, dm
<1> QED  BY <1>3, <1>4, <1>5

LEMMA InitType == Init => TypeOK
BY BoundAssumption DEF Init, TypeOK, Grant

LEMMA NextType == TypeOK /\ [Next]_vars => TypeOK'
<1> SUFFICES ASSUME TypeOK, [Next]_vars PROVE TypeOK'
  OBVIOUS
<1> USE DEF maintenance, calls, attempt, dm, net, faults
<1>1. ASSUME NEW p \in Proc, NEW r \in BOOLEAN, LockBroadcast(p, r) PROVE TypeOK'
  <2>1. try[p] + 1 \in Nat
    BY DEF TypeOK
  <2>2. requests(p, try[p] + 1, Node, r) \in SUBSET Request
    BY <2>1, RequestsType
  <2> QED  BY <1>1, <2>1, <2>2 DEF LockBroadcast, TypeOK
<1>2. ASSUME NEW p \in Proc, AcquireTimeout(p) PROVE TypeOK'
  BY <1>2, ConcludeType DEF AcquireTimeout, TypeOK
<1>3. ASSUME NEW p \in Proc, DRWUnlock(p) PROVE TypeOK'
  <2>1. home[p] \in Node
    BY ProcAssumption
  <2>2. \A g \in Grant, r \in BOOLEAN : releasesOf(g, r) \in SUBSET Request
    BY RequestsType DEF releasesOf, Grant
  <2>3. UNION {releasesOf(g, FALSE) : g \in writeLocks[home[p]]} \in SUBSET Request
    BY <2>1, <2>2, Zenon DEF TypeOK
  <2>4. rels' \in SUBSET Request
    BY <1>3, <2>3, Zenon DEF DRWUnlock, TypeOK
  <2> QED  BY <1>3, <2>1, <2>4, Zenon DEF DRWUnlock, TypeOK
<1>4. ASSUME NEW p \in Proc, DRWRUnlock(p) PROVE TypeOK'
  <2>1. home[p] \in Node
    BY ProcAssumption
  <2>2. \A g \in Grant, r \in BOOLEAN : releasesOf(g, r) \in SUBSET Request
    BY RequestsType DEF releasesOf, Grant
  <2>3. readersLocks[home[p]] \in Seq(Grant) /\ readersLocks[home[p]] # <<>>
    BY <1>4, <2>1 DEF DRWRUnlock, TypeOK
  <2>4. /\ Head(readersLocks[home[p]]) \in Grant
        /\ dropOldest(readersLocks[home[p]]) \in Seq(Grant)
    BY <2>3 DEF dropOldest
  <2>5. releasesOf(Head(readersLocks[home[p]]), TRUE) \in SUBSET Request
    BY <2>2, <2>4, Zenon
  <2> QED  BY <1>4, <2>1, <2>4, <2>5, Zenon DEF DRWRUnlock, TypeOK
<1>5. ASSUME NEW m \in ch, LateReply(m) PROVE TypeOK'
  BY <1>5 DEF LateReply, ReleaseLate, TypeOK
<1>6. CASE DRWForceUnlock
  BY <1>6 DEF DRWForceUnlock, TypeOK
<1> DEFINE Served == lockMap' \in [Node -> SUBSET [uid : Uid, writer : BOOLEAN]]
<1>7. ASSUME NEW m \in reqs, lockMap' = served(m) PROVE Served
  <2>1. m \in Request /\ m.uid \in Uid /\ m.uid.node \in Node
    BY DEF TypeOK, Request, Uid
  <2>2. lockMap[m.uid.node] \in SUBSET Entry
    BY <2>1 DEF TypeOK, Entry
  <2>3. /\ Lock(lockMap[m.uid.node], m.uid) \in SUBSET Entry
        /\ RLock(lockMap[m.uid.node], m.uid) \in SUBSET Entry
    BY <2>1, <2>2, TableType, Zenon
  <2> QED  BY <1>7, <2>1, <2>3 DEF served, TypeOK, Entry
<1>8. ASSUME NEW m \in reqs PROVE m \in Request /\ granted(m) \in BOOLEAN
  BY Zenon DEF TypeOK, granted, RLockReply, LockReply
<1>9. ASSUME NEW m \in reqs, ServeLock(m) PROVE TypeOK'
  BY <1>7, <1>8, <1>9, AnswerType DEF ServeLock, TypeOK
<1>10. ASSUME NEW m \in reqs, ServeLockSlow(m) PROVE TypeOK'
  BY <1>7, <1>8, <1>10 DEF ServeLockSlow, TypeOK
<1>11. ASSUME NEW m \in reqs, ServeLockReplyLost(m) PROVE TypeOK'
  <2>1. Answer(m, FALSE) /\ FALSE \in BOOLEAN /\ m \in Request
    BY <1>8, <1>11, Zenon DEF ServeLockReplyLost
  <2>2. /\ pc' \in [Proc -> {"idle", "wait", "backoff", "held"}]
        /\ locks' \in [Proc -> SUBSET Node] /\ failed' \in [Proc -> SUBSET Node]
        /\ writeLocks' \in [Node -> SUBSET Grant]
        /\ readersLocks' \in [Node -> Seq(Grant)]
        /\ rels' \in SUBSET Request
    BY <2>1, AnswerType, Zenon
  <2> QED  BY <1>7, <1>11, <2>2 DEF ServeLockReplyLost, TypeOK
<1>12. ASSUME NEW m \in reqs, LockCallFails(m) PROVE TypeOK'
  <2>1. Answer(m, FALSE) /\ FALSE \in BOOLEAN /\ m \in Request
    BY <1>8, <1>12, Zenon DEF LockCallFails
  <2>2. /\ pc' \in [Proc -> {"idle", "wait", "backoff", "held"}]
        /\ locks' \in [Proc -> SUBSET Node] /\ failed' \in [Proc -> SUBSET Node]
        /\ writeLocks' \in [Node -> SUBSET Grant]
        /\ readersLocks' \in [Node -> Seq(Grant)]
        /\ rels' \in SUBSET Request
    BY <2>1, AnswerType, Zenon
  <2> QED  BY <1>12, <2>2 DEF LockCallFails, TypeOK
<1>13. ASSUME NEW m \in rels, lockMap' = released(m) PROVE Served
  <2>1. m.uid \in Uid /\ m.uid.node \in Node
    BY DEF TypeOK, Request, Uid
  <2>2. lockMap[m.uid.node] \in SUBSET Entry
    BY <2>1 DEF TypeOK, Entry
  <2>3. /\ Unlock(lockMap[m.uid.node], m.uid) \in SUBSET Entry
        /\ RUnlock(lockMap[m.uid.node], m.uid) \in SUBSET Entry
    BY <2>1, <2>2, TableType, Zenon
  <2> QED  BY <1>13, <2>1, <2>3 DEF released, TypeOK, Entry
<1>14. ASSUME NEW m \in rels, ServeRelease(m) PROVE TypeOK'
  BY <1>13, <1>14 DEF ServeRelease, TypeOK
<1>15. ASSUME NEW m \in rels, ServeReleaseReplyLost(m) PROVE TypeOK'
  BY <1>13, <1>15 DEF ServeReleaseReplyLost, TypeOK
<1>16. ASSUME NEW m \in rels, ReleaseGivenUp(m) PROVE TypeOK'
  BY <1>16 DEF ReleaseGivenUp, TypeOK
<1>17. ASSUME NEW n \in forced, \/ ServeForceUnlock(n) \/ ServeForceUnlockReplyLost(n)
                                \/ ForceUnlockGivenUp(n)
       PROVE TypeOK'
  BY <1>17 DEF ServeForceUnlock, ServeForceUnlockReplyLost, ForceUnlockGivenUp,
               ForceUnlock, TypeOK
<1>18. ASSUME NEW n \in Node, NEW old \in SUBSET longLived(n), LockMaintenance(n, old)
       PROVE TypeOK'
  <2>1. uids(lockMap[n]) \in SUBSET Uid
    BY DEF uids, TypeOK
  <2> QED  BY <1>18, <2>1 DEF LockMaintenance, longLived, TypeOK
<1>19. ASSUME NEW u \in checks, ExpiredCallback(u) \/ CallbackFails(u) PROVE TypeOK'
  BY <1>19 DEF ExpiredCallback, CallbackFails, nextCheck, TypeOK
<1>20. ASSUME NEW u \in purge, PurgeExpired(u) PROVE TypeOK'
  <2>1. u \in Uid /\ u.node \in Node
    BY DEF TypeOK, Uid
  <2>2. Served
    BY <1>20, <2>1, TableType, Zenon DEF PurgeExpired, TypeOK, Entry
  <2> QED  BY <1>20, <2>2 DEF PurgeExpired, TypeOK
<1>21. ASSUME NEW n \in Node, Crash(n) PROVE TypeOK'
  <2>1. readersLocks' \in [Node -> Seq(Grant)]
    BY <1>21 DEF Crash, TypeOK
  <2> QED  BY <1>21, <2>1 DEF Crash, TypeOK
<1>22. CASE UNCHANGED vars
  BY <1>22 DEF vars, TypeOK
<1> QED
  BY <1>1, <1>2, <1>3, <1>4, <1>5, <1>6, <1>9, <1>10, <1>11, <1>12, <1>14, <1>15,
     <1>16, <1>17, <1>18, <1>19, <1>20, <1>21, <1>22
     DEF Next, ServerStep, MaintenanceStep, ClientStep

(* Every variable of the model keeps its type, whatever the constants.     *)
THEOREM TypeCorrect == Spec => []TypeOK
BY InitType, NextType, PTL DEF Spec
=============================================================================
