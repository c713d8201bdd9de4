----------------------- MODULE DsyncExclusion_proofs -----------------------
(***************************************************************************)
(* The invariant of DsyncInvariant is inductive as long as at most one     *)
(* node crashes, nobody calls ForceUnlock and no lock is held so long that *)
(* lock maintenance looks at it.  Exclusion follows: two write quorums     *)
(* share two nodes, a write and a read quorum share one.                   *)
(***************************************************************************)
EXTENDS DsyncQuorum_proofs

-----------------------------------------------------------------------------
(* One lemma per action or group of actions.                               *)

Core == /\ TableInv /\ CollectInv /\ OwnerInv /\ DistinctInv /\ GrantInv
        /\ NetInv /\ MaintenanceInv /\ HolderInv

LEMMA ServeInv ==
  ASSUME Calm, Inv, NEW m \in reqs,
         ServeLock(m) \/ ServeLockReplyLost(m) \/ LockCallFails(m)
  PROVE  Core'
<1>1. /\ TypeOK /\ TableInv /\ NetInv
      /\ reqs' = reqs \ {m} /\ ch' = ch
      /\ UNCHANGED <<read, try, crashed, checks, purge>>
  BY Zenon DEF Inv, ServeLock, ServeLockReplyLost, LockCallFails, maintenance, calls, faults
<1>2. CASE lockMap' = served(m)
  <2>1. /\ TableInv'
        /\ \A n \in Node : lockMap[n] \subseteq lockMap'[n]
        /\ granted(m) => lockRequesterInfo(m.uid, ~m.read) \in lockMap'[m.uid.node]
    BY <1>1, <1>2, Grow
  <2>2. granted(m) \in BOOLEAN
    BY Zenon DEF granted, RLockReply, LockReply
  <2>3. CASE Answer(m, granted(m))
    <3>1. PICK ok \in BOOLEAN : ok = granted(m)
      BY <2>2
    <3>2. Answered(m, ok)
      BY <1>1, <2>1, <2>3, <3>1 DEF Answered
    <3> QED  BY <2>1, <3>2, AnswerInv DEF Core
  <2>4. CASE Answer(m, FALSE)
    <3>1. Answered(m, FALSE)
      BY <1>1, <2>1, <2>4, Zenon DEF Answered
    <3> QED  BY <2>1, <3>1, AnswerInv, Zenon DEF Core
  <2>5. CASE LockCallFails(m)
    BY <2>4, <2>5 DEF LockCallFails
  <2> QED  BY <2>3, <2>4, <2>5, Zenon DEF ServeLock, ServeLockReplyLost
<1>3. CASE LockCallFails(m)
  <2>1. lockMap' = lockMap /\ Answer(m, FALSE)
    BY <1>3, Zenon DEF LockCallFails
  <2>2. TableInv'
    BY <1>1, <2>1 DEF TableInv
  <2>3. Answered(m, FALSE)
    BY <1>1, <2>1, <2>2, Zenon DEF Answered
  <2> QED  BY <2>2, <2>3, AnswerInv, Zenon DEF Core
<1> QED  BY <1>2, <1>3, Zenon DEF ServeLock, ServeLockReplyLost

LEMMA ServeSlowInv ==
  ASSUME Inv, NEW m \in reqs, ServeLockSlow(m)
  PROVE  Core'
<1>1. /\ TypeOK /\ TableInv /\ CollectInv /\ OwnerInv /\ DistinctInv /\ GrantInv /\ NetInv
      /\ MaintenanceInv /\ HolderInv
      /\ reqs' = reqs \ {m} /\ ch' \subseteq ch \cup {m} /\ lockMap' = served(m)
      /\ UNCHANGED <<read, try, crashed, checks, purge, pc, locks, writeLocks, readersLocks, rels>>
  BY DEF Inv, ServeLockSlow, maintenance, calls, faults, attempt, dm
<1>2. TableInv' /\ \A n \in Node : lockMap[n] \subseteq lockMap'[n]
  BY <1>1, Grow
<1>3. OwnerInv' /\ DistinctInv' /\ GrantInv' /\ HolderInv'
  BY <1>1, <1>2, Frame
<1>4. CollectInv'
  BY <1>1, <1>2, Zenon DEF CollectInv, backed, TypeOK
<1>5. \A u \in Uid : /\ inUse(u)' <=> inUse(u)
                     /\ counted(u)' <=> counted(u)
                     /\ collecting(u)' <=> collecting(u)
  BY <1>1, SameUse
<1>6. NetInv'
  <2>1. reqs' \cup ch' \subseteq reqs \cup ch /\ reqs' \subseteq reqs /\ reqs' \cap ch' = {}
    BY <1>1 DEF NetInv
  <2> QED  BY <1>1, <1>5, <2>1 DEF NetInv, TypeOK, Request
<1>7. MaintenanceInv'
  BY <1>1, <1>5 DEF MaintenanceInv, TypeOK
<1> QED  BY <1>2, <1>3, <1>4, <1>6, <1>7 DEF Core

(* A release, or a purge, of an entry nobody uses.                         *)
LEMMA RemoveInv ==
  ASSUME Inv, NEW u \in Uid, ~inUse(u), NEW T,
         lockMap' = [lockMap EXCEPT ![u.node] = T],
         T \subseteq lockMap[u.node],
         \A e \in lockMap[u.node] : e.uid # u => e \in T,
         rels' \subseteq rels, checks' \subseteq checks, purge' \subseteq purge,
         UNCHANGED <<read, try, pc, locks, writeLocks, readersLocks, crashed, reqs, ch>>
  PROVE  Core'
<1>1. TypeOK /\ TableInv /\ CollectInv /\ OwnerInv /\ DistinctInv /\ GrantInv /\ NetInv
      /\ MaintenanceInv /\ HolderInv
  BY DEF Inv
<1>2. TableInv' /\ CollectInv' /\ GrantInv'
  BY <1>1, Shrink, Zenon
<1>3. OwnerInv' /\ DistinctInv'
  BY <1>1 DEF OwnerInv, DistinctInv, heldGrants
<1>4. HolderInv'
  BY <1>1 DEF HolderInv, holdsWrite, readersOf, holdsRead
<1>5. \A v \in Uid : /\ inUse(v)' <=> inUse(v)
                     /\ counted(v)' <=> counted(v)
                     /\ collecting(v)' <=> collecting(v)
  BY SameUse
<1>6. NetInv' /\ MaintenanceInv'
  BY <1>1, <1>5 DEF NetInv, MaintenanceInv, TypeOK, Request
<1> QED  BY <1>2, <1>3, <1>4, <1>6 DEF Core

LEMMA ReleaseInv ==
  ASSUME Inv, NEW m \in rels,
         ServeRelease(m) \/ ServeReleaseReplyLost(m) \/ ReleaseGivenUp(m)
  PROVE  Core'
<1>1. m.uid \in Uid /\ m.uid.node \in Node /\ ~inUse(m.uid) /\ TypeOK
  BY Zenon DEF Inv, TypeOK, Request, Uid, NetInv
<1> DEFINE lri == lockMap[m.uid.node]
           T == IF lockMap' = lockMap THEN lri
                ELSE IF m.read THEN RUnlock(lri, m.uid) ELSE Unlock(lri, m.uid)
<1>2. /\ rels' \subseteq rels
      /\ UNCHANGED <<read, try, pc, locks, writeLocks, readersLocks, crashed, reqs, ch, checks, purge>>
  BY DEF ServeRelease, ServeReleaseReplyLost, ReleaseGivenUp, maintenance, calls, attempt, dm, net, faults
<1>3. lockMap' = [lockMap EXCEPT ![m.uid.node] = T]
  BY <1>1, Zenon DEF ServeRelease, ServeReleaseReplyLost, ReleaseGivenUp, released, TypeOK
<1>4. T \subseteq lri /\ \A e \in lri : e.uid # m.uid => e \in T
  BY Zenon DEF RUnlock, Unlock, removeEntry
<1> QED  BY <1>1, <1>2, <1>3, <1>4, RemoveInv, Zenon

LEMMA PurgeInv ==
  ASSUME Inv, NEW u \in purge, PurgeExpired(u)
  PROVE  Core'
<1>1. u \in Uid /\ ~inUse(u)
  BY DEF Inv, TypeOK, MaintenanceInv
<1> DEFINE T == removeEntryIfExists(lockMap[u.node], u)
<1>2. /\ lockMap' = [lockMap EXCEPT ![u.node] = T]
      /\ rels' \subseteq rels /\ checks' \subseteq checks /\ purge' \subseteq purge
      /\ UNCHANGED <<read, try, pc, locks, writeLocks, readersLocks, crashed, reqs, ch>>
  BY DEF PurgeExpired, calls, attempt, dm, net, faults
<1>3. T \subseteq lockMap[u.node] /\ \A e \in lockMap[u.node] : e.uid # u => e \in T
  BY DEF removeEntryIfExists, removeEntry
<1> QED  BY <1>1, <1>2, <1>3, RemoveInv, Zenon

LEMMA CheckInv ==
  ASSUME Calm, Inv,
         \/ \E n \in Node : \E old \in SUBSET longLived(n) : LockMaintenance(n, old)
         \/ \E u \in checks : ExpiredCallback(u) \/ CallbackFails(u)
  PROVE  Core'
<1>1. TypeOK /\ TableInv /\ CollectInv /\ OwnerInv /\ DistinctInv /\ GrantInv /\ NetInv
      /\ MaintenanceInv /\ HolderInv
  BY DEF Inv
<1>2. UNCHANGED <<lockMap, read, try, pc, locks, writeLocks, readersLocks, crashed, reqs, ch, rels>>
  BY Zenon DEF LockMaintenance, ExpiredCallback, CallbackFails, calls, attempt, dm, net, faults
<1>3. \A v \in Uid : /\ inUse(v)' <=> inUse(v)
                     /\ counted(v)' <=> counted(v)
                     /\ collecting(v)' <=> collecting(v)
  BY <1>2, SameUse
<1>4. \A v \in checks' \cup purge' : v \in Uid /\ v.try <= try[v.proc] /\ ~inUse(v)
  <2>1. ASSUME NEW n \in Node, NEW old \in SUBSET longLived(n), LockMaintenance(n, old)
        PROVE  \A v \in old : v \in Uid /\ v.try <= try[v.proc] /\ ~inUse(v)
    BY <1>1 DEF Calm, longLived, uids, TableInv, TypeOK
  <2>2. \A v \in checks \cup purge : v \in Uid /\ v.try <= try[v.proc] /\ ~inUse(v)
    BY <1>1 DEF MaintenanceInv, TypeOK
  <2> QED  BY <2>1, <2>2, Zenon DEF LockMaintenance, ExpiredCallback, CallbackFails
<1>5. MaintenanceInv'
  BY <1>2, <1>3, <1>4, Zenon DEF MaintenanceInv
<1>6. TableInv' /\ CollectInv'
  BY <1>1, <1>2, Zenon DEF TableInv, CollectInv, backed
<1>7. OwnerInv' /\ DistinctInv' /\ GrantInv' /\ HolderInv'
  BY <1>1, <1>2, Frame, Zenon
<1>8. NetInv'
  BY <1>1, <1>2, <1>3, Zenon DEF NetInv, TypeOK, Request
<1> QED  BY <1>5, <1>6, <1>7, <1>8 DEF Core

LEMMA LateReplyInv ==
  ASSUME Inv, NEW m \in ch, LateReply(m)
  PROVE  Core'
<1>1. TypeOK /\ TableInv /\ CollectInv /\ OwnerInv /\ DistinctInv /\ GrantInv /\ NetInv
      /\ MaintenanceInv /\ HolderInv
  BY DEF Inv
<1>2. /\ UNCHANGED <<lockMap, read, try, pc, locks, writeLocks, readersLocks, crashed, reqs, checks, purge>>
      /\ ch' = ch \ {m} /\ rels' \subseteq rels \cup {m} /\ ~collecting(m.uid)
  BY Zenon DEF LateReply, ReleaseLate, maintenance, calls, attempt, dm, faults
<1>3. \A v \in Uid : /\ inUse(v)' <=> inUse(v)
                     /\ counted(v)' <=> counted(v)
                     /\ collecting(v)' <=> collecting(v)
  BY <1>2, SameUse
<1>4. m.uid \in Uid /\ ~inUse(m.uid) /\ m.uid.try <= try[m.uid.proc]
  BY <1>1, <1>2, Zenon DEF NetInv, inUse, counted, TypeOK, Request
<1>5. NetInv'
  BY <1>1, <1>2, <1>3, <1>4, Zenon DEF NetInv, TypeOK, Request
<1>6. TableInv' /\ CollectInv'
  BY <1>1, <1>2, Zenon DEF TableInv, CollectInv, backed
<1>7. OwnerInv' /\ DistinctInv' /\ GrantInv' /\ HolderInv'
  BY <1>1, <1>2, Frame, Zenon
<1>8. MaintenanceInv'
  BY <1>1, <1>2, <1>3, Zenon DEF MaintenanceInv, TypeOK
<1> QED  BY <1>5, <1>6, <1>7, <1>8 DEF Core

LEMMA TimeoutInv ==
  ASSUME Calm, Inv, NEW p \in Proc, AcquireTimeout(p)
  PROVE  Core'
<1>1. /\ TypeOK /\ TableInv /\ CollectInv /\ NetInv /\ pc[p] = "wait"
      /\ UNCHANGED <<lockMap, read, try, crashed, checks, purge, reqs, ch>>
  BY DEF Inv, AcquireTimeout, maintenance, calls
<1>2. PICK L \in SUBSET Node : L = locks[p]
  BY <1>1, Zenon DEF TypeOK
<1>3. TableInv'
  BY <1>1, Zenon DEF TableInv
<1>4. backed(p, try[p], L, read[p])'
  BY <1>1, <1>2, Zenon DEF CollectInv, backed
<1>5. \A m \in reqs' \cup ch : m.uid.proc = p /\ collecting(m.uid) => m.uid.node \notin L
  BY <1>1, <1>2, Zenon DEF NetInv, counted
<1>6. Concludes(p, L)
  BY <1>1, <1>2, <1>3, <1>4, <1>5, Zenon DEF Concludes, AcquireTimeout
<1> QED  BY <1>3, <1>6, ConcludeOwner, ConcludeNet, ConcludeHolder DEF Core

LEMMA BroadcastInv ==
  ASSUME Inv, NEW p \in Proc, NEW r \in BOOLEAN, LockBroadcast(p, r)
  PROVE  Core'
<1> DEFINE t == try[p] + 1
<1>1. TypeOK /\ TableInv /\ CollectInv /\ OwnerInv /\ DistinctInv /\ GrantInv /\ NetInv
      /\ MaintenanceInv /\ HolderInv
  BY DEF Inv
<1>2. /\ UNCHANGED <<lockMap, locks, writeLocks, readersLocks, crashed, ch, rels, checks, purge>>
      /\ pc' = [pc EXCEPT ![p] = "wait"] /\ read' = [read EXCEPT ![p] = r]
      /\ try' = [try EXCEPT ![p] = t] /\ pc[p] \in {"idle", "backoff"}
      /\ reqs' = reqs \cup requests(p, t, Node, r)
  BY Zenon DEF LockBroadcast, maintenance, dm, faults
<1>3. /\ try[p] \in Nat /\ t \in Nat /\ try'[p] = t /\ pc'[p] = "wait" /\ read'[p] = r
      /\ \A q \in Proc : q # p => try'[q] = try[q] /\ pc'[q] = pc[q] /\ read'[q] = read[q]
      /\ \A q \in Proc : try[q] \in Nat /\ try[q] <= try'[q]
      /\ locks[p] = {}
  <2>1. locks[p] = {}
    BY <1>1, <1>2, Zenon DEF CollectInv
  <2>2. \A q \in Proc : try[q] \in Nat
    BY <1>1 DEF TypeOK
  <2>3. /\ try'[p] = t /\ pc'[p] = "wait" /\ read'[p] = r
        /\ \A q \in Proc : q # p => try'[q] = try[q] /\ pc'[q] = pc[q] /\ read'[q] = read[q]
    BY <1>1, <1>2, Zenon DEF TypeOK
  <2> QED  BY <2>1, <2>2, <2>3
<1>4. \A u \in Uid : u.try <= try[u.proc] =>
        /\ u.try <= try'[u.proc]
        /\ collecting(u)' => collecting(u) /\ u.proc # p
        /\ inUse(u)' => inUse(u)
        /\ counted(u)' => counted(u)
  <2> SUFFICES ASSUME NEW u \in Uid, u.try <= try[u.proc]
               PROVE  /\ u.try <= try'[u.proc]
                      /\ collecting(u)' => collecting(u) /\ u.proc # p
                      /\ inUse(u)' => inUse(u)
                      /\ counted(u)' => counted(u)
    OBVIOUS
  <2>1. u.proc \in Proc /\ u.try \in Nat
    BY DEF Uid
  <2>2. u.try <= try'[u.proc]
    BY <1>3, <2>1
  <2>3. collecting(u)' => collecting(u) /\ u.proc # p
    BY <1>3, <2>1 DEF collecting
  <2>4. heldUid(u)' <=> heldUid(u)
    BY <1>2, Zenon DEF heldUid, heldGrants, origin
  <2> QED  BY <1>2, <2>2, <2>3, <2>4, Zenon DEF inUse, counted
<1>5. TableInv'
  BY <1>1, <1>2, <1>3 DEF TableInv, TypeOK, Uid
<1>6. CollectInv'
  <2> SUFFICES ASSUME NEW q \in Proc
               PROVE  IF pc'[q] = "wait" THEN backed(q, try[q], locks[q], read[q])'
                                         ELSE locks'[q] = {}
    BY Zenon DEF CollectInv
  <2>1. CASE q = p
    BY <1>2, <1>3, <2>1, Zenon DEF backed
  <2>2. CASE q # p
    BY <1>1, <1>2, <1>3, <2>2 DEF backed, CollectInv
  <2> QED  BY <2>1, <2>2, Zenon
<1>7. OwnerInv' /\ DistinctInv'
  <2>1. DistinctInv'
    BY <1>1, <1>2, Zenon DEF DistinctInv
  <2>2. ASSUME NEW n \in Node, NEW g \in heldGrants(n)
        PROVE  /\ home[g.proc] = n /\ g.try <= try'[g.proc]
               /\ pc'[g.proc] \in {"wait", "backoff"} => g.try < try'[g.proc]
    <3>1. g.proc \in Proc /\ g.try \in Nat
      BY <1>1, HeldType, Zenon DEF Grant
    <3> QED  BY <1>1, <1>3, <3>1 DEF OwnerInv
  <2> QED  BY <1>2, <2>1, <2>2 DEF OwnerInv, heldGrants
<1>8. GrantInv'
  BY <1>1, <1>2, Zenon DEF GrantInv, sound, backed
<1>9. HolderInv'
  <2>1. \A q \in Proc : (holdsWrite(q)' <=> holdsWrite(q)) /\ (holdsRead(q)' <=> holdsRead(q))
    BY <1>2, <1>3, Zenon DEF holdsWrite, holdsRead
  <2>2. \A n \in Node : readersOf(n)' = readersOf(n)
    BY <2>1 DEF readersOf
  <2>3. \A q \in Proc : holdsWrite(q) => try'[q] = try[q]
    BY <1>2, <1>3, Zenon DEF holdsWrite
  <2> QED  BY <1>1, <1>2, <2>1, <2>2, <2>3 DEF HolderInv
<1>10. MaintenanceInv'
  BY <1>1, <1>2, <1>4, Zenon DEF MaintenanceInv, TypeOK
<1>11. ASSUME NEW m \in requests(p, t, Node, r)
       PROVE  /\ m.uid \in Uid /\ m.uid.proc = p /\ m.uid.try = t /\ m.read = r
              /\ ~counted(m.uid)'
  <2>1. m.uid \in Uid /\ m.uid.proc = p /\ m.uid.try = t /\ m.read = r
    BY <1>3 DEF requests, uidOf, Uid
  <2>2. \A g \in heldGrants(home[p]) : g.try \in Nat /\ (g.proc = p => g.try <= try[p])
    BY <1>1, HeldType, ProcAssumption DEF OwnerInv, Grant
  <2>3. ~heldUid(m.uid)
    BY <1>3, <2>1, <2>2 DEF heldUid, origin
  <2>4. ~heldUid(m.uid)'
    BY <1>2, <2>3, Zenon DEF heldUid, heldGrants, origin
  <2> QED  BY <1>2, <1>3, <2>1, <2>4, Zenon DEF counted
<1>12. NetInv'
  <2>1. \A m \in reqs \cup ch : m.uid \in Uid /\ m.uid.try <= try[m.uid.proc] /\ ~counted(m.uid)'
                                /\ m.uid.try <= try'[m.uid.proc]
    BY <1>1, <1>4, Zenon DEF NetInv, TypeOK, Request
  <2>2. \A m \in reqs' \cup ch' : m.uid.try <= try'[m.uid.proc] /\ ~counted(m.uid)'
    BY <1>2, <1>3, <1>11, <2>1
  <2>3. \A m \in reqs \cup ch : m.uid.proc = p => m.uid.try # t
    BY <1>3, <2>1 DEF Uid
  <2>4. \A m, k \in requests(p, t, Node, r) : m.uid = k.uid => m = k
    BY DEF requests, uidOf
  <2>5. \A m, k \in reqs' \cup ch' : m.uid = k.uid => m = k
    BY <1>1, <1>2, <1>11, <2>3, <2>4 DEF NetInv
  <2>6. reqs' \cap ch' = {}
    BY <1>1, <1>2, <1>11, <2>3, Zenon DEF NetInv
  <2>7. \A m \in reqs' : collecting(m.uid)' => m.read = read'[m.uid.proc]
    BY <1>1, <1>2, <1>3, <1>4, <1>11, <2>1 DEF NetInv, Uid
  <2>8. \A m \in rels' : m.uid.try <= try'[m.uid.proc] /\ ~inUse(m.uid)'
    BY <1>1, <1>2, <1>4, Zenon DEF NetInv, TypeOK, Request
  <2> QED  BY <2>2, <2>5, <2>6, <2>7, <2>8, Zenon DEF NetInv
<1> QED  BY <1>5, <1>6, <1>7, <1>8, <1>9, <1>10, <1>12 DEF Core

(* Unlock: the DRWMutex forgets the write grant of p.                      *)
LEMMA UnlockInv ==
  ASSUME Inv, NEW p \in Proc, DRWUnlock(p)
  PROVE  Core'
<1> DEFINE h == home[p]
<1>1. TypeOK /\ TableInv /\ CollectInv /\ OwnerInv /\ DistinctInv /\ GrantInv /\ NetInv
      /\ MaintenanceInv /\ HolderInv /\ h \in Node
  BY ProcAssumption DEF Inv
<1>2. PICK g \in writeLocks[h] : g.proc = p /\ g.try = try[p] /\ writeLocks[h] = {g}
  BY <1>1, Zenon DEF DRWUnlock, HolderInv, holdsWrite, DistinctInv
<1>3. /\ UNCHANGED <<lockMap, read, try, locks, readersLocks, crashed, reqs, ch, checks, purge>>
      /\ writeLocks'[h] = {}
      /\ \A n \in Node : n # h => writeLocks'[n] = writeLocks[n]
      /\ rels' = rels \cup releasesOf(g, FALSE)
      /\ pc[p] = "held" /\ ~read[p] /\ pc'[p] = "idle"
      /\ \A q \in Proc : q # p => pc'[q] = pc[q]
  BY <1>1, <1>2 DEF DRWUnlock, maintenance, calls, faults, TypeOK
<1>4. \A n \in Node : heldGrants(n)' \subseteq heldGrants(n)
  BY <1>3 DEF heldGrants
<1>5. \A u \in Uid : /\ collecting(u)' <=> collecting(u)
                     /\ heldUid(u)' => heldUid(u)
                     /\ inUse(u)' => inUse(u)
                     /\ counted(u)' => counted(u)
  <2>1. \A u \in Uid : collecting(u)' <=> collecting(u)
    BY <1>3 DEF collecting, Uid
  <2>2. \A u \in Uid : heldUid(u)' => heldUid(u)
    BY <1>4, ProcAssumption DEF heldUid, origin, Uid
  <2> QED  BY <1>3, <2>1, <2>2 DEF inUse, counted
<1>6. TableInv' /\ CollectInv'
  <2>1. TableInv'
    BY <1>1, <1>3 DEF TableInv
  <2>2. CollectInv'
    BY <1>1, <1>3 DEF CollectInv, backed
  <2> QED  BY <2>1, <2>2
<1>7. OwnerInv'
  <2> SUFFICES ASSUME NEW n \in Node, NEW k \in heldGrants(n)
               PROVE  /\ home[k.proc] = n /\ k.try <= try[k.proc]
                      /\ pc'[k.proc] \in {"wait", "backoff"} => k.try < try[k.proc]
    BY <1>3, <1>4, Zenon DEF OwnerInv
  <2>1. k.proc \in Proc
    BY <1>1, HeldType DEF Grant
  <2> QED  BY <1>1, <1>3, <2>1 DEF OwnerInv
<1>8. DistinctInv'
  BY <1>1, <1>3 DEF DistinctInv
<1>9. GrantInv'
  BY <1>1, <1>3, Zenon DEF GrantInv, sound, backed
<1>10. HolderInv'
  <2>1. ASSUME NEW q \in Proc, holdsWrite(q)'
        PROVE  \E k \in writeLocks'[home[q]] : k.proc = q /\ k.try = try'[q]
    <3>1. q # p /\ holdsWrite(q)
      BY <1>3, <2>1 DEF holdsWrite
    <3>2. PICK k \in writeLocks[home[q]] : k.proc = q /\ k.try = try[q]
      BY <1>1, <3>1 DEF HolderInv
    <3>3. home[q] # h
      BY <1>2, <3>1, <3>2
    <3> QED  BY <1>3, <3>2, <3>3, ProcAssumption, Zenon
  <2>2. \A n \in Node : readersOf(n)' = readersOf(n)
    BY <1>3 DEF readersOf, holdsRead
  <2> QED  BY <1>1, <1>3, <2>1, <2>2 DEF HolderInv
<1>11. MaintenanceInv'
  BY <1>1, <1>3, <1>5, Zenon DEF MaintenanceInv, TypeOK
<1>12. ASSUME NEW m \in releasesOf(g, FALSE)
       PROVE  m.uid.try <= try[m.uid.proc] /\ ~inUse(m.uid)'
  <2>1. g \in Grant /\ g.try \in Nat
    BY <1>1, <1>2 DEF TypeOK, Grant
  <2>2. m.uid \in Uid /\ m.uid.proc = p /\ m.uid.try = g.try
    BY <1>2, <2>1 DEF releasesOf, requests, uidOf, Uid, Grant
  <2>3. ~collecting(m.uid)'
    BY <1>3, <2>2, Zenon DEF collecting
  <2>4. \A k \in heldGrants(h)' : ~(k.proc = p /\ k.try = g.try)
    BY <1>1, <1>2, <1>3 DEF heldGrants, DistinctInv, sameCall
  <2>5. ~heldUid(m.uid)'
    BY <2>2, <2>4 DEF heldUid, origin
  <2> QED  BY <1>2, <2>1, <2>2, <2>3, <2>5 DEF inUse
<1>13. NetInv'
  <2>1. \A m \in rels' : m.uid.try <= try'[m.uid.proc] /\ ~inUse(m.uid)'
    BY <1>1, <1>3, <1>5, <1>12, Zenon DEF NetInv, TypeOK, Request
  <2> QED  BY <1>1, <1>3, <1>5, <2>1, Zenon DEF NetInv, TypeOK, Request
<1> QED  BY <1>6, <1>7, <1>8, <1>9, <1>10, <1>11, <1>13 DEF Core

(* RUnlock: the DRWMutex forgets its oldest read grant, whoever got it.    *)
LEMMA RUnlockInv ==
  ASSUME Inv, NEW p \in Proc, DRWRUnlock(p)
  PROVE  Core'
<1> DEFINE h == home[p]
           rl == readersLocks[h]
<1>1. TypeOK /\ TableInv /\ CollectInv /\ OwnerInv /\ DistinctInv /\ GrantInv /\ NetInv
      /\ MaintenanceInv /\ HolderInv /\ h \in Node /\ rl \in Seq(Grant) /\ rl # <<>>
  BY ProcAssumption, Zenon DEF Inv, DRWRUnlock, TypeOK
<1>2. PICK g \in Grant : g = Head(rl)
  BY <1>1
<1>3. /\ UNCHANGED <<lockMap, read, try, locks, writeLocks, crashed, reqs, ch, checks, purge>>
      /\ readersLocks'[h] = Tail(rl)
      /\ \A n \in Node : n # h => readersLocks'[n] = readersLocks[n]
      /\ rels' = rels \cup releasesOf(g, TRUE)
      /\ pc[p] = "held" /\ read[p] /\ pc'[p] = "idle"
      /\ \A q \in Proc : q # p => pc'[q] = pc[q]
  BY <1>1, <1>2 DEF DRWRUnlock, dropOldest, maintenance, calls, faults, TypeOK
<1>4. /\ Len(rl) \in Nat \ {0} /\ DOMAIN rl = 1..Len(rl)
      /\ Len(readersLocks'[h]) = Len(rl) - 1
      /\ DOMAIN readersLocks'[h] = 1..(Len(rl) - 1)
      /\ \A i \in 1..(Len(rl) - 1) : readersLocks'[h][i] = rl[i + 1]
      /\ g = rl[1]
  BY <1>1, <1>2, <1>3, TailElements
<1>5. /\ g \in heldGrants(h) /\ 1 \in DOMAIN rl
      /\ \A i \in DOMAIN readersLocks'[h] :
           i + 1 \in DOMAIN rl /\ readersLocks'[h][i] = rl[i + 1] /\ i + 1 # 1
  <2>1. 1 \in DOMAIN rl /\ g \in heldGrants(h)
    BY <1>4 DEF heldGrants
  <2>2. ASSUME NEW i \in DOMAIN readersLocks'[h]
        PROVE  i + 1 \in DOMAIN rl /\ readersLocks'[h][i] = rl[i + 1] /\ i + 1 # 1
    <3>1. i \in 1..(Len(rl) - 1) /\ i \in Nat \ {0}
      BY <1>4
    <3> QED  BY <1>4, <3>1
  <2> QED  BY <2>1, <2>2
<1>6. \A n \in Node : heldGrants(n)' \subseteq heldGrants(n)
  <2>1. heldGrants(h)' \subseteq heldGrants(h)
    <3> SUFFICES ASSUME NEW k \in heldGrants(h)', k \notin writeLocks[h]
                 PROVE  k \in heldGrants(h)
      BY <1>3 DEF heldGrants
    <3>1. PICK i \in DOMAIN readersLocks'[h] : k = readersLocks'[h][i]
      BY <1>3 DEF heldGrants
    <3> QED  BY <1>5, <3>1 DEF heldGrants
  <2>2. \A n \in Node : n # h => heldGrants(n)' = heldGrants(n)
    BY <1>3 DEF heldGrants
  <2> QED  BY <2>1, <2>2
<1>7. \A u \in Uid : /\ collecting(u)' <=> collecting(u)
                     /\ heldUid(u)' => heldUid(u)
                     /\ inUse(u)' => inUse(u)
                     /\ counted(u)' => counted(u)
  <2>1. \A u \in Uid : collecting(u)' <=> collecting(u)
    BY <1>3 DEF collecting, Uid
  <2>2. \A u \in Uid : heldUid(u)' => heldUid(u)
    BY <1>6, ProcAssumption DEF heldUid, origin, Uid
  <2> QED  BY <1>3, <2>1, <2>2 DEF inUse, counted
<1>8. TableInv'
  BY <1>1, <1>3 DEF TableInv
<1>9. CollectInv'
  BY <1>1, <1>3 DEF CollectInv, backed
<1>10. OwnerInv'
  <2> SUFFICES ASSUME NEW n \in Node, NEW k \in heldGrants(n)
               PROVE  /\ home[k.proc] = n /\ k.try <= try[k.proc]
                      /\ pc'[k.proc] \in {"wait", "backoff"} => k.try < try[k.proc]
    BY <1>3, <1>6 DEF OwnerInv
  <2>1. k.proc \in Proc
    BY <1>1, HeldType DEF Grant
  <2> QED  BY <1>1, <1>3, <2>1 DEF OwnerInv
<1>11. DistinctInv'
  <2> SUFFICES ASSUME NEW n \in Node
               PROVE  /\ \A k \in writeLocks[n] :
                           /\ writeLocks[n] = {k}
                           /\ \A i \in DOMAIN readersLocks'[n] : ~sameCall(readersLocks'[n][i], k)
                      /\ \A i, j \in DOMAIN readersLocks'[n] :
                           sameCall(readersLocks'[n][i], readersLocks'[n][j]) => i = j
    BY <1>3, Zenon DEF DistinctInv
  <2>1. CASE n # h
    BY <1>1, <1>3, <2>1 DEF DistinctInv
  <2>2. CASE n = h
    <3>1. \A i, j \in DOMAIN readersLocks'[h] :
            sameCall(readersLocks'[h][i], readersLocks'[h][j]) => i + 1 = j + 1
      BY <1>1, <1>5 DEF DistinctInv
    <3>2. \A i, j \in DOMAIN readersLocks'[h] : i + 1 = j + 1 => i = j
      BY <1>4
    <3>3. \A k \in writeLocks[h] :
            /\ writeLocks[h] = {k}
            /\ \A i \in DOMAIN readersLocks'[h] : ~sameCall(readersLocks'[h][i], k)
      BY <1>1, <1>5 DEF DistinctInv
    <3> QED  BY <2>2, <3>1, <3>2, <3>3
  <2> QED  BY <2>1, <2>2
<1>12. GrantInv'
  <2>1. ASSUME NEW k, NEW r \in BOOLEAN, sound(k, r) PROVE sound(k, r)'
    BY <1>3, <2>1, Zenon DEF sound, backed
  <2>2. ASSUME NEW n \in Node, NEW k \in writeLocks'[n] PROVE sound(k, FALSE)'
    BY <1>1, <1>3, <2>1, Zenon DEF GrantInv
  <2>3. ASSUME NEW n \in Node, NEW i \in DOMAIN readersLocks'[n]
        PROVE  sound(readersLocks[n][i], TRUE)'
    <3>1. PICK k : k = readersLocks'[n][i]
      OBVIOUS
    <3>2. sound(k, TRUE)
      <4>1. PICK j \in DOMAIN readersLocks[n] : k = readersLocks[n][j]
        BY <1>3, <1>5, <3>1, Zenon
      <4> QED  BY <1>1, <4>1, Zenon DEF GrantInv
    <3> QED  BY <2>1, <3>1, <3>2, Zenon
  <2> QED  BY <2>2, <2>3, Zenon DEF GrantInv
<1>13. HolderInv'
  <2>1. ASSUME NEW q \in Proc, holdsWrite(q)'
        PROVE  \E k \in writeLocks'[home[q]] : k.proc = q /\ k.try = try'[q]
    <3>1. holdsWrite(q)
      BY <1>3, <2>1 DEF holdsWrite
    <3> QED  BY <1>1, <1>3, <3>1 DEF HolderInv
  <2>2. ASSUME NEW n \in Node PROVE Cardinality(readersOf(n)') = Len(readersLocks'[n])
    <3>1. CASE n # h
      <4>1. readersOf(n)' = readersOf(n)
        BY <1>3, <3>1 DEF readersOf, holdsRead
      <4> QED  BY <1>1, <1>3, <3>1, <4>1 DEF HolderInv
    <3>2. CASE n = h
      <4>1. readersOf(h)' = readersOf(h) \ {p} /\ p \in readersOf(h)
        BY <1>3 DEF readersOf, holdsRead
      <4>2. IsFiniteSet(readersOf(h))
        BY ProcAssumption, FS_Subset DEF readersOf
      <4>3. Cardinality(readersOf(h)') = Cardinality(readersOf(h)) - 1
        BY <4>1, <4>2, FS_RemoveElement, Zenon
      <4> QED  BY <1>1, <1>4, <3>2, <4>3 DEF HolderInv
    <3> QED  BY <3>1, <3>2
  <2> QED  BY <2>1, <2>2 DEF HolderInv
<1>14. MaintenanceInv'
  BY <1>1, <1>3, <1>7, Zenon DEF MaintenanceInv, TypeOK
<1>15. ASSUME NEW m \in releasesOf(g, TRUE)
       PROVE  m.uid.try <= try[m.uid.proc] /\ ~inUse(m.uid)'
  <2>1. g.proc \in Proc /\ g.try \in Nat /\ home[g.proc] = h /\ g.try <= try[g.proc]
        /\ (pc[g.proc] = "wait" => g.try < try[g.proc])
    BY <1>1, <1>5 DEF Grant, OwnerInv
  <2>2. m.uid \in Uid /\ m.uid.proc = g.proc /\ m.uid.try = g.try
    BY <2>1 DEF releasesOf, requests, uidOf, Uid, Grant
  <2>3. ~collecting(m.uid)'
    <3>1. ~(pc[g.proc] = "wait" /\ g.try = try[g.proc])
      BY <2>1
    <3>2. ~collecting(m.uid)
      BY <2>2, <3>1, Zenon DEF collecting
    <3> QED  BY <1>7, <2>2, <3>2, Zenon
  <2>4. \A k \in heldGrants(h)' : ~sameCall(k, g)
    <3>1. \A k \in writeLocks[h] : ~sameCall(g, k)
      BY <1>1, <1>4, <1>5, Zenon DEF DistinctInv
    <3>2. \A i \in DOMAIN readersLocks'[h] : ~sameCall(readersLocks'[h][i], g)
      BY <1>1, <1>4, <1>5 DEF DistinctInv
    <3> QED  BY <1>3, <3>1, <3>2, Zenon DEF heldGrants, sameCall
  <2>5. ~heldUid(m.uid)'
    BY <2>1, <2>2, <2>4 DEF heldUid, origin, sameCall
  <2> QED  BY <2>1, <2>2, <2>3, <2>5 DEF inUse
<1>16. NetInv'
  <2>1. \A m \in rels' : m.uid.try <= try'[m.uid.proc] /\ ~inUse(m.uid)'
    BY <1>1, <1>3, <1>7, <1>15, Zenon DEF NetInv, TypeOK, Request
  <2> QED  BY <1>1, <1>3, <1>7, <2>1, Zenon DEF NetInv, TypeOK, Request
<1> QED  BY <1>8, <1>9, <1>10, <1>11, <1>12, <1>13, <1>14, <1>16 DEF Core

(* A crash forgets; what it makes others forget is only its own table.     *)
LEMMA CrashInv ==
  ASSUME Inv, NEW h \in Node, Crash(h)
  PROVE  Core'
<1>1. TypeOK /\ TableInv /\ CollectInv /\ OwnerInv /\ DistinctInv /\ GrantInv /\ NetInv
      /\ MaintenanceInv /\ HolderInv
  BY DEF Inv
<1>2. /\ UNCHANGED <<read, try, reqs>> /\ crashed' = crashed \cup {h}
      /\ lockMap'[h] = {} /\ \A n \in Node : n # h => lockMap'[n] = lockMap[n]
      /\ ch' \subseteq ch /\ rels' \subseteq rels
      /\ checks' \subseteq checks /\ purge' \subseteq purge
      /\ writeLocks'[h] = {} /\ \A n \in Node : n # h => writeLocks'[n] = writeLocks[n]
      /\ readersLocks'[h] = <<>>
      /\ \A n \in Node : n # h => readersLocks'[n] = readersLocks[n]
  BY <1>1 DEF Crash, TypeOK
<1>3. \A p \in Proc : /\ home[p] = h => pc'[p] = "idle" /\ locks'[p] = {}
                      /\ home[p] # h => pc'[p] = pc[p] /\ locks'[p] = locks[p]
  BY DEF Crash
<1>4. /\ heldGrants(h)' = {} /\ DOMAIN readersLocks'[h] = {}
      /\ \A n \in Node : n # h => heldGrants(n)' = heldGrants(n)
  BY <1>2 DEF heldGrants
<1>5. \A u \in Uid : /\ collecting(u)' => collecting(u)
                     /\ heldUid(u)' => heldUid(u)
                     /\ inUse(u)' => inUse(u)
                     /\ counted(u)' => counted(u)
  <2> TAKE u \in Uid
  <2>1. u.proc \in Proc /\ home[u.proc] \in Node
    BY ProcAssumption DEF Uid
  <2>2. collecting(u)' => collecting(u) /\ locks'[u.proc] = locks[u.proc]
    BY <1>2, <1>3, <2>1, Zenon DEF collecting
  <2>3. heldUid(u)' => heldUid(u)
    <3>1. heldGrants(home[u.proc])' \subseteq heldGrants(home[u.proc])
      BY <1>4, <2>1
    <3> QED  BY <3>1 DEF heldUid, origin
  <2> QED  BY <2>2, <2>3 DEF inUse, counted
<1>6. TableInv'
  BY <1>1, <1>2, Zenon DEF TableInv
<1>7. ASSUME NEW p, NEW t, NEW L \in SUBSET Node, NEW r, backed(p, t, L, r)
      PROVE  backed(p, t, L, r)'
  BY <1>2, <1>7, Zenon DEF backed
<1>8. CollectInv'
  <2> SUFFICES ASSUME NEW p \in Proc
               PROVE  (IF pc[p] = "wait" THEN backed(p, try[p], locks[p], read[p])
                                         ELSE locks[p] = {})'
    BY DEF CollectInv
  <2>1. CASE home[p] = h
    BY <1>3, <2>1
  <2>2. CASE home[p] # h
    <3>1. PICK L \in SUBSET Node : L = locks[p]
      BY <1>1 DEF TypeOK
    <3>2. pc[p] = "wait" => backed(p, try[p], L, read[p])
      BY <1>1, <3>1 DEF CollectInv
    <3>3. pc[p] = "wait" => backed(p, try[p], L, read[p])'
      <4>1. PICK t, r : t = try[p] /\ r = read[p]
        OBVIOUS
      <4> QED  BY <1>2, <1>7, <3>2, <4>1
    <3> QED  BY <1>1, <1>3, <2>2, <3>1, <3>3 DEF CollectInv
  <2> QED  BY <2>1, <2>2, Zenon
<1>9. OwnerInv'
  <2> SUFFICES ASSUME NEW n \in Node, NEW k \in heldGrants(n)'
               PROVE  /\ home[k.proc] = n /\ k.try <= try[k.proc]
                      /\ pc'[k.proc] \in {"wait", "backoff"} => k.try < try[k.proc]
    BY <1>2, Zenon DEF OwnerInv
  <2>1. n # h /\ k \in heldGrants(n)
    BY <1>4
  <2>2. k.proc \in Proc
    BY <1>1, <2>1, HeldType DEF Grant
  <2> QED  BY <1>1, <1>3, <2>1, <2>2 DEF OwnerInv
<1>10. DistinctInv'
  BY <1>1, <1>2, <1>4 DEF DistinctInv
<1>11. GrantInv'
  <2>1. ASSUME NEW k \in Grant, NEW r \in BOOLEAN, sound(k, r) PROVE sound(k, r)'
    BY <1>7, <2>1 DEF sound, Grant
  <2>2. ASSUME NEW n \in Node, NEW k \in writeLocks'[n] PROVE sound(k, FALSE)'
    <3>1. k \in writeLocks[n] /\ k \in Grant
      BY <1>1, <1>2, Zenon DEF TypeOK
    <3>2. sound(k, FALSE)
      BY <1>1, <3>1, Zenon DEF GrantInv
    <3> QED  BY <2>1, <3>1, <3>2, Zenon
  <2>3. ASSUME NEW n \in Node, NEW i \in DOMAIN readersLocks'[n]
        PROVE  sound(readersLocks[n][i], TRUE)'
    <3>1. n # h
      BY <1>4
    <3>2. PICK k \in Grant : k = readersLocks[n][i] /\ i \in DOMAIN readersLocks[n]
      BY <1>1, <1>2, <3>1, HeldType
    <3>3. sound(k, TRUE)
      BY <1>1, <3>2, Zenon DEF GrantInv
    <3>4. sound(k, TRUE)' /\ k = readersLocks'[n][i]
      BY <1>2, <2>1, <3>1, <3>2, <3>3, Zenon
    <3> QED  BY <3>4, Zenon
  <2> QED  BY <2>2, <2>3, Zenon DEF GrantInv
<1>12. HolderInv'
  <2>1. ASSUME NEW q \in Proc, holdsWrite(q)'
        PROVE  \E k \in writeLocks'[home[q]] : k.proc = q /\ k.try = try'[q]
    <3>1. home[q] # h /\ holdsWrite(q) /\ home[q] \in Node
      BY <1>2, <1>3, <2>1, ProcAssumption, Zenon DEF holdsWrite
    <3> QED  BY <1>1, <1>2, <3>1, Zenon DEF HolderInv
  <2>2. ASSUME NEW n \in Node PROVE Cardinality(readersOf(n)') = Len(readersLocks'[n])
    <3>1. CASE n # h
      <4>1. readersOf(n)' = readersOf(n)
        BY <1>2, <1>3, <3>1 DEF readersOf, holdsRead
      <4> QED  BY <1>1, <1>2, <3>1, <4>1, Zenon DEF HolderInv
    <3>2. CASE n = h
      <4>1. readersOf(h)' = {}
        BY <1>3 DEF readersOf, holdsRead
      <4> QED  BY <1>2, <3>2, <4>1, FS_EmptySet
    <3> QED  BY <3>1, <3>2
  <2> QED  BY <2>1, <2>2 DEF HolderInv
<1>13. MaintenanceInv'
  BY <1>1, <1>2, <1>5, Zenon DEF MaintenanceInv, TypeOK
<1>14. NetInv'
  <2>0. \A m \in reqs \cup ch \cup rels : m.uid \in Uid
    BY <1>1 DEF TypeOK, Request
  <2>1. \A m \in reqs' \cup ch' : m.uid.try <= try'[m.uid.proc] /\ ~counted(m.uid)'
    <3>1. \A m \in reqs' \cup ch' : m \in reqs \cup ch
      BY <1>2, Zenon
    <3> QED  BY <1>1, <1>2, <1>5, <2>0, <3>1, Zenon DEF NetInv
  <2>2. \A m \in rels' : m.uid.try <= try'[m.uid.proc] /\ ~inUse(m.uid)'
    BY <1>1, <1>2, <1>5, <2>0, Zenon DEF NetInv
  <2>3. \A m \in reqs' : collecting(m.uid)' => m.read = read'[m.uid.proc]
    BY <1>1, <1>2, <1>5, Zenon DEF NetInv, TypeOK, Request
  <2> QED  BY <1>1, <1>2, <2>1, <2>2, <2>3, Zenon DEF NetInv
<1> QED  BY <1>6, <1>8, <1>9, <1>10, <1>11, <1>12, <1>13, <1>14 DEF Core

-----------------------------------------------------------------------------
LEMMA InitInv == Init => Inv
<1> SUFFICES ASSUME Init PROVE Inv
  OBVIOUS
<1>1. TypeOK
  BY InitType
<1>2. TableInv /\ CollectInv
  BY Zenon DEF Init, TableInv, CollectInv
<1>3. \A n \in Node : heldGrants(n) = {} /\ DOMAIN readersLocks[n] = {} /\ writeLocks[n] = {}
  BY DEF Init, heldGrants
<1>4. OwnerInv /\ DistinctInv /\ GrantInv
  BY <1>3, Zenon DEF OwnerInv, DistinctInv, GrantInv
<1>5. NetInv /\ MaintenanceInv
  BY Zenon DEF Init, NetInv, MaintenanceInv
<1>6. HolderInv
  <2>1. \A n \in Node : readersOf(n) = {}
    BY DEF Init, readersOf, holdsRead
  <2>2. \A n \in Node : Len(readersLocks[n]) = 0
    BY DEF Init
  <2> QED  BY <2>1, <2>2, FS_EmptySet, Zenon DEF Init, HolderInv, holdsWrite
<1>7. FaultInv
  BY FS_EmptySet, BoundAssumption DEF Init, FaultInv
<1> QED  BY <1>1, <1>2, <1>4, <1>5, <1>6, <1>7 DEF Inv

LEMMA NextInv ==
  ASSUME Calm, Inv, [Next]_vars
  PROVE  Inv'
<1>1. TypeOK'
  BY NextType DEF Inv
<1>2. FaultInv'
  <2>1. ASSUME NEW n \in forced PROVE FALSE
    BY DEF Inv, FaultInv, Calm
  <2>2. CASE UNCHANGED <<crashed, forced>>
    BY <2>2 DEF Inv, FaultInv
  <2>3. CASE \E n \in Node : Crash(n)
    BY <2>3, Zenon DEF Inv, FaultInv, Crash
  <2>4. CASE DRWForceUnlock
    BY <2>4, BoundAssumption DEF Inv, TypeOK, DRWForceUnlock, Calm
  <2> QED
    <3> USE DEF vars, maintenance, calls, attempt, dm, net, faults
    <3>1. ServerStep => UNCHANGED <<crashed, forced>>
      BY <2>1, Zenon DEF ServerStep, ServeLock, ServeLockSlow, ServeLockReplyLost, LockCallFails,
                  ServeRelease, ServeReleaseReplyLost, ReleaseGivenUp
    <3>2. MaintenanceStep => UNCHANGED <<crashed, forced>>
      BY DEF MaintenanceStep, LockMaintenance, ExpiredCallback, CallbackFails, PurgeExpired
    <3>3. ClientStep => UNCHANGED <<crashed, forced>> \/ DRWForceUnlock
      BY Zenon DEF ClientStep, LockBroadcast, AcquireTimeout, DRWUnlock, DRWRUnlock, LateReply
    <3> QED  BY <2>2, <2>3, <2>4, <3>1, <3>2, <3>3 DEF Next
<1>3. Core'
  <2>1. CASE ServerStep
    <3>1. \A n \in forced : FALSE
      BY DEF Inv, FaultInv, Calm
    <3> QED  BY <2>1, <3>1, ServeInv, ServeSlowInv, ReleaseInv DEF ServerStep
  <2>2. CASE MaintenanceStep
    BY <2>2, CheckInv, PurgeInv DEF MaintenanceStep
  <2>3. CASE ClientStep
    <3>1. ~DRWForceUnlock
      BY BoundAssumption DEF Inv, TypeOK, DRWForceUnlock, Calm
    <3> QED  BY <2>3, <3>1, BroadcastInv, TimeoutInv, UnlockInv, RUnlockInv, LateReplyInv
             DEF ClientStep
  <2>4. CASE \E n \in Node : Crash(n)
    BY <2>4, CrashInv
  <2>5. CASE UNCHANGED vars
    <3>1. UNCHANGED <<lockMap, checks, purge, pc, read, try, locks, writeLocks,
                      readersLocks, reqs, ch, rels, crashed>>
      BY <2>5 DEF vars, maintenance, calls, attempt, dm, net, faults
    <3>2. TableInv' /\ CollectInv'
      BY <3>1, Zenon DEF Inv, TableInv, CollectInv, backed
    <3>3. OwnerInv' /\ DistinctInv' /\ GrantInv' /\ HolderInv'
      BY <3>1, Frame DEF Inv
    <3>4. NetInv' /\ MaintenanceInv'
      BY <3>1, SameUse DEF Inv, NetInv, MaintenanceInv, TypeOK, Request
    <3> QED  BY <3>2, <3>3, <3>4 DEF Core
  <2> QED  BY <2>1, <2>2, <2>3, <2>4, <2>5 DEF Next
<1> QED  BY <1>1, <1>2, <1>3 DEF Inv, Core

(* Under Calm, the invariant that relates tables, collectors, mutexes and  *)
(* messages holds in every reachable state.                                *)
THEOREM Invariance == Calm => (Spec => []Inv)
<1> SUFFICES ASSUME Calm PROVE Spec => []Inv
  OBVIOUS
<1>1. Inv /\ [Next]_vars => Inv'
  BY NextInv
<1> QED  BY <1>1, InitInv, PTL DEF Spec

(* No two goroutines hold the write lock at once, for any even number of   *)
(* nodes and any number of goroutines, attempts, lost, late and repeated   *)
(* messages, and with the crash and restart of any one node: two write     *)
(* quorums (n/2+1) share two nodes, one of which kept its table.           *)
THEOREM MutualExclusion == Calm => (Spec => []WriterExclusion)
<1> SUFFICES ASSUME Calm PROVE Spec => []WriterExclusion
  OBVIOUS
<1>1. ASSUME Inv PROVE WriterExclusion
  <2> SUFFICES ASSUME NEW p \in Proc, NEW q \in Proc, holdsWrite(p), holdsWrite(q)
               PROVE  p = q
    BY DEF WriterExclusion
  <2>1. TypeOK /\ TableInv /\ GrantInv /\ HolderInv /\ FaultInv
        /\ home[p] \in Node /\ home[q] \in Node
    BY <1>1, ProcAssumption DEF Inv
  <2>2. PICK g \in writeLocks[home[p]] : g.proc = p
    BY <2>1, Zenon DEF HolderInv
  <2>3. PICK k \in writeLocks[home[q]] : k.proc = q
    BY <2>1, Zenon DEF HolderInv
  <2>4. sound(g, FALSE) /\ sound(k, FALSE) /\ g.nodes \in SUBSET Node /\ k.nodes \in SUBSET Node
    <3>1. g \in Grant /\ k \in Grant
      BY <2>1, <2>2, <2>3, Zenon DEF TypeOK
    <3> QED  BY <2>1, <2>2, <2>3, <3>1, Zenon DEF GrantInv, Grant
  <2>5. Cardinality(crashed) <= 1
    <3>1. Cardinality(crashed) \in Nat
      BY <2>1, NodeAssumption, FS_Subset, FS_CardinalityType DEF TypeOK
    <3>2. Cardinality(crashed) <= MaxCrash /\ MaxCrash <= 1 /\ MaxCrash \in Nat
      BY <2>1, BoundAssumption, Zenon DEF Calm, FaultInv
    <3>3. PICK c \in Nat : c = Cardinality(crashed)
      BY <3>1, Zenon
    <3>4. c <= 1
      BY <3>2, <3>3
    <3> QED  BY <3>3, <3>4, Zenon
  <2>6. PICK n \in g.nodes \cap k.nodes : n \notin crashed
    BY <2>1, <2>4, <2>5, WriteQuorumsMeet, Zenon DEF sound, TypeOK
  <2>7. /\ lockRequesterInfo(uidOf(p, g.try, n), TRUE) \in lockMap[n]
        /\ lockRequesterInfo(uidOf(q, k.try, n), TRUE) \in lockMap[n]
    BY <2>2, <2>3, <2>4, <2>6, Zenon DEF sound, backed
  <2>8. uidOf(p, g.try, n) = uidOf(q, k.try, n)
    BY <2>1, <2>4, <2>6, <2>7, WriteEntryAlone, Zenon
  <2> QED  BY <2>8, Zenon DEF uidOf
<1>2. Inv => WriterExclusion
  BY <1>1
<1>3. Spec => []Inv
  BY Invariance
<1> QED  BY <1>2, <1>3, PTL

(* Without crashes, no goroutine reads while another one writes: a read    *)
(* quorum (n/2) and a write quorum (n/2+1) share a node.                   *)
THEOREM ReadersExcludeWriter ==
  Calm /\ MaxCrash = 0 => (Spec => []ReadWriteExclusion)
<1> SUFFICES ASSUME Calm, MaxCrash = 0 PROVE Spec => []ReadWriteExclusion
  OBVIOUS
<1>1. ASSUME Inv PROVE ReadWriteExclusion
  <2> SUFFICES ASSUME NEW p \in Proc, NEW q \in Proc, holdsWrite(p), holdsRead(q)
               PROVE  FALSE
    BY DEF ReadWriteExclusion
  <2>1. TypeOK /\ TableInv /\ GrantInv /\ HolderInv /\ FaultInv
        /\ home[p] \in Node /\ home[q] \in Node
    BY <1>1, ProcAssumption DEF Inv
  <2>2. PICK g \in writeLocks[home[p]] : g.proc = p
    BY <2>1 DEF HolderInv
  <2>3. readersLocks[home[q]] # <<>>
    <3>1. q \in readersOf(home[q]) /\ IsFiniteSet(readersOf(home[q]))
      BY ProcAssumption, FS_Subset DEF readersOf
    <3>2. Cardinality(readersOf(home[q])) # 0
      BY <3>1, FS_EmptySet
    <3> QED  BY <2>1, <3>2 DEF HolderInv
  <2>4. readersLocks[home[q]] \in Seq(Grant) /\ 1 \in DOMAIN readersLocks[home[q]]
    BY <2>1, <2>3 DEF TypeOK
  <2>5. PICK k \in Grant : k = readersLocks[home[q]][1]
    BY <2>4
  <2>6. sound(g, FALSE) /\ sound(k, TRUE) /\ g.nodes \in SUBSET Node /\ k.nodes \in SUBSET Node
    <3>1. g \in Grant
      BY <2>1, <2>2 DEF TypeOK
    <3> QED  BY <2>1, <2>2, <2>4, <2>5, <3>1, Zenon DEF GrantInv, Grant
  <2>7. crashed = {}
    <3>1. IsFiniteSet(crashed) /\ Cardinality(crashed) \in Nat
      BY <2>1, NodeAssumption, FS_Subset, FS_CardinalityType DEF TypeOK
    <3>2. PICK c \in Nat : c = Cardinality(crashed)
      BY <3>1, Zenon
    <3>3. c <= 0
      BY <2>1, <3>2, Zenon DEF FaultInv
    <3>4. c = 0
      BY <3>3
    <3> QED  BY <3>1, <3>2, <3>4, FS_EmptySet, Zenon
  <2>8. PICK n \in Node : n \in g.nodes /\ n \in k.nodes
    BY <2>6, ReadWriteQuorumsMeet, Zenon DEF sound
  <2>9. /\ lockRequesterInfo(uidOf(g.proc, g.try, n), TRUE) \in lockMap[n]
        /\ lockRequesterInfo(uidOf(k.proc, k.try, n), FALSE) \in lockMap[n]
    BY <2>6, <2>7, <2>8, Zenon DEF sound, backed
  <2> QED  BY <2>1, <2>8, <2>9, WriteEntryAlone, Zenon
<1>2. Inv => ReadWriteExclusion
  BY <1>1
<1>3. Spec => []Inv
  BY Invariance
<1> QED  BY <1>2, <1>3, PTL

(* A goroutine that acquired the lock never runs into the panic of Unlock  *)
(* or RUnlock, although the read grants of a node are handed back in the   *)
(* order they came and not to the goroutine that acquired them.            *)
THEOREM ReleaseNeverPanics == Calm => (Spec => []NoPanic)
<1>1. ASSUME Inv PROVE NoPanic
  <2>1. \A p \in Proc : holdsWrite(p) => writeLocks[home[p]] # {}
    BY <1>1 DEF Inv, HolderInv
  <2>2. ASSUME NEW p \in Proc, holdsRead(p) PROVE readersLocks[home[p]] # <<>>
    <3>1. home[p] \in Node /\ HolderInv
      BY <1>1, ProcAssumption DEF Inv
    <3>2. p \in readersOf(home[p]) /\ IsFiniteSet(readersOf(home[p]))
      BY <2>2, ProcAssumption, FS_Subset DEF readersOf
    <3>3. Cardinality(readersOf(home[p])) # 0
      BY <3>2, FS_EmptySet
    <3> QED  BY <3>1, <3>3 DEF HolderInv
  <2> QED  BY <2>1, <2>2 DEF NoPanic
<1>2. Inv => NoPanic
  BY <1>1
<1> QED  BY <1>2, Invariance, PTL

(* What lock maintenance is about to purge is in nobody's use: the answer  *)
(* it got from the origin is still true when it acts on it.                *)
THEOREM MaintenanceIsSafe == Calm => (Spec => []PurgeOnlyUnused)
<1>1. Inv => PurgeOnlyUnused
  BY DEF Inv, MaintenanceInv, PurgeOnlyUnused
<1> QED  BY <1>1, Invariance, PTL
=============================================================================
