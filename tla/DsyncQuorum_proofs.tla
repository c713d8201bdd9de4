------------------------ MODULE DsyncQuorum_proofs ------------------------
(***************************************************************************)
(* What the proof that the invariant of DsyncInvariant is inductive rests  *)
(* on: overlaps of quorums, and what one answer, and the attempt it may    *)
(* conclude, do to the conjuncts of the invariant.                         *)
(***************************************************************************)
EXTENDS DsyncInvariant, Dsync_proofs

Calm == MaxForce = 0 /\ MaxCrash <= 1 /\ ~LongHolds

-----------------------------------------------------------------------------
(* Quorums.                                                                *)

(* Two sets of nodes overlap in what they have beyond the number of nodes. *)
LEMMA Overlap ==
  ASSUME NEW A \in SUBSET Node, NEW B \in SUBSET Node
  PROVE  /\ IsFiniteSet(A \cap B)
         /\ Cardinality(A) \in Nat /\ Cardinality(B) \in Nat
         /\ Cardinality(A \cap B) \in Nat
         /\ Cardinality(A \cap B) >= Cardinality(A) + Cardinality(B) - dnodeCount
<1>1. IsFiniteSet(Node) /\ IsFiniteSet(A) /\ IsFiniteSet(B) /\ IsFiniteSet(A \cap B)
  BY NodeAssumption, FS_Subset
<1>2. /\ Cardinality(A) \in Nat /\ Cardinality(B) \in Nat /\ dnodeCount \in Nat
      /\ Cardinality(A \cap B) \in Nat /\ Cardinality(A \cup B) \in Nat
  BY <1>1, FS_CardinalityType, FS_Union, Zenon DEF dnodeCount
<1>3. Cardinality(A \cup B) = Cardinality(A) + Cardinality(B) - Cardinality(A \cap B)
  BY <1>1, FS_Union
<1>4. Cardinality(A \cup B) <= dnodeCount
  BY <1>1, FS_Subset DEF dnodeCount
<1> QED  BY <1>1, <1>2, <1>3, <1>4

(* dnodeCount is even, so the quorums are more than and exactly half.      *)
LEMMA Half == /\ dnodeCount \in Nat
              /\ 2 * dquorumReads = dnodeCount /\ 2 * dquorum = dnodeCount + 2
              /\ dquorum \in Nat /\ dquorumReads \in Nat
BY NodeAssumption DEF dquorum, dquorumReads

(* Two write quorums share a node outside any set of at most one node.     *)
LEMMA WriteQuorumsMeet ==
  ASSUME NEW A \in SUBSET Node, NEW B \in SUBSET Node, NEW C \in SUBSET Node,
         quorumMet(A, FALSE), quorumMet(B, FALSE), Cardinality(C) <= 1
  PROVE  \E n \in A \cap B : n \notin C
<1>1. Cardinality(A) >= dquorum /\ Cardinality(B) >= dquorum
  BY DEF quorumMet, quorum
<1>2. Cardinality(A \cap B) \in Nat /\ Cardinality(A \cap B) >= 2
  <2>1. /\ Cardinality(A) \in Nat /\ Cardinality(B) \in Nat
        /\ Cardinality(A \cap B) \in Nat
        /\ Cardinality(A \cap B) >= Cardinality(A) + Cardinality(B) - dnodeCount
    BY Overlap, Zenon
  <2> QED  BY <1>1, <2>1, Half
<1>3. SUFFICES ASSUME A \cap B \subseteq C PROVE FALSE
  OBVIOUS
<1>4. IsFiniteSet(C) /\ Cardinality(C) \in Nat
  BY NodeAssumption, FS_Subset, FS_CardinalityType
<1>5. Cardinality(A \cap B) <= Cardinality(C)
  BY <1>3, <1>4, FS_Subset
<1> QED  BY <1>2, <1>4, <1>5

(* A write quorum and a read quorum share a node.                          *)
LEMMA ReadWriteQuorumsMeet ==
  ASSUME NEW A \in SUBSET Node, NEW B \in SUBSET Node,
         quorumMet(A, FALSE), quorumMet(B, TRUE)
  PROVE  A \cap B # {}
<1>1. Cardinality(A) >= dquorum /\ Cardinality(B) >= dquorumReads
  BY DEF quorumMet, quorum
<1>2. Cardinality(A \cap B) >= 1
  <2>1. /\ Cardinality(A) \in Nat /\ Cardinality(B) \in Nat
        /\ Cardinality(A \cap B) \in Nat
        /\ Cardinality(A \cap B) >= Cardinality(A) + Cardinality(B) - dnodeCount
    BY Overlap
  <2> QED  BY <1>1, <2>1, Half
<1> QED  BY <1>2, FS_EmptySet

-----------------------------------------------------------------------------
(* Sequences of grants.                                                    *)

LEMMA AppendElements ==
  ASSUME NEW S, NEW s \in Seq(S), NEW e \in S
  PROVE  /\ Append(s, e) \in Seq(S) /\ Len(Append(s, e)) = Len(s) + 1
         /\ Len(s) \in Nat /\ DOMAIN s = 1..Len(s)
         /\ DOMAIN Append(s, e) = 1..(Len(s) + 1)
         /\ \A i \in 1..Len(s) : Append(s, e)[i] = s[i]
         /\ Append(s, e)[Len(s) + 1] = e
OBVIOUS

LEMMA TailElements ==
  ASSUME NEW S, NEW s \in Seq(S), s # <<>>
  PROVE  /\ Tail(s) \in Seq(S) /\ Len(Tail(s)) = Len(s) - 1
         /\ Len(s) \in Nat \ {0} /\ DOMAIN s = 1..Len(s)
         /\ DOMAIN Tail(s) = 1..(Len(s) - 1)
         /\ \A i \in 1..(Len(s) - 1) : Tail(s)[i] = s[i + 1]
         /\ Head(s) = s[1]
OBVIOUS

-----------------------------------------------------------------------------
(* Steps that change the lock tables only.                                 *)

(* What is in use depends on the DRWMutex and the collector alone.         *)
LEMMA SameUse ==
  ASSUME UNCHANGED <<pc, try, locks, writeLocks, readersLocks>>
  PROVE  /\ \A u \in Uid : (collecting(u)' <=> collecting(u)) /\ (heldUid(u)' <=> heldUid(u))
         /\ \A u \in Uid : (inUse(u)' <=> inUse(u)) /\ (counted(u)' <=> counted(u))
BY DEF collecting, heldUid, heldGrants, origin, inUse, counted

(* A write entry is the only entry of its table.                           *)
LEMMA WriteEntryAlone ==
  ASSUME TableInv, NEW n \in Node, NEW u, NEW v, NEW b \in BOOLEAN,
         lockRequesterInfo(u, TRUE) \in lockMap[n],
         lockRequesterInfo(v, b) \in lockMap[n]
  PROVE  u = v /\ b = TRUE
<1>1. lockRequesterInfo(u, TRUE).writer
  BY DEF lockRequesterInfo
<1>2. lockMap[n] = {lockRequesterInfo(u, TRUE)}
  BY <1>1, Zenon DEF TableInv
<1>3. lockRequesterInfo(v, b) = lockRequesterInfo(u, TRUE)
  BY <1>2
<1> QED  BY <1>3 DEF lockRequesterInfo

(* The grants of a DRWMutex are grants.                                    *)
LEMMA HeldType ==
  ASSUME TypeOK, NEW n \in Node
  PROVE  /\ heldGrants(n) \subseteq Grant
         /\ \A i \in DOMAIN readersLocks[n] : readersLocks[n][i] \in Grant
<1>1. readersLocks[n] \in Seq(Grant) /\ writeLocks[n] \in SUBSET Grant
  BY DEF TypeOK
<1>2. \A i \in DOMAIN readersLocks[n] : readersLocks[n][i] \in Grant
  BY <1>1
<1> QED  BY <1>1, <1>2 DEF heldGrants

(* Removing the entry of a uid not in use leaves every grant backed.       *)
LEMMA Shrink ==
  ASSUME TypeOK, TableInv, CollectInv, OwnerInv, GrantInv,
         NEW u \in Uid, ~inUse(u), NEW T,
         lockMap' = [lockMap EXCEPT ![u.node] = T],
         T \subseteq lockMap[u.node],
         \A e \in lockMap[u.node] : e.uid # u => e \in T,
         UNCHANGED <<read, try, pc, locks, writeLocks, readersLocks, crashed>>
  PROVE  TableInv' /\ CollectInv' /\ GrantInv'
<1>1. u.node \in Node /\ u.proc \in Proc
  BY DEF Uid
<1>2. TableInv'
  BY <1>1 DEF TypeOK, TableInv
<1>3. ASSUME NEW p \in Proc, NEW t \in Nat, NEW L \in SUBSET Node, NEW r \in BOOLEAN,
             backed(p, t, L, r), \A n \in L : uidOf(p, t, n) # u
      PROVE  backed(p, t, L, r)'
  BY <1>1, <1>3 DEF backed, lockRequesterInfo, TypeOK
<1>4. CollectInv'
  <2> SUFFICES ASSUME NEW p \in Proc, pc[p] = "wait"
               PROVE  backed(p, try[p], locks[p], read[p])'
    BY DEF CollectInv
  <2>1. \A n \in locks[p] : uidOf(p, try[p], n) # u
    BY DEF inUse, collecting, uidOf
  <2> QED  BY <2>1, <1>3 DEF CollectInv, TypeOK
<1>5. GrantInv'
  <2>1. ASSUME NEW n \in Node, NEW g \in heldGrants(n), NEW r \in BOOLEAN, sound(g, r)
        PROVE  sound(g, r)'
    <3>1. g \in Grant /\ home[g.proc] = n
      BY <2>1, HeldType DEF OwnerInv
    <3>2. \A k \in g.nodes : uidOf(g.proc, g.try, k) # u
      BY <2>1, <3>1 DEF inUse, heldUid, origin, uidOf
    <3>3. backed(g.proc, g.try, g.nodes, r)'
      BY <2>1, <3>1, <3>2, <1>3 DEF Grant, sound
    <3> QED  BY <2>1, <3>3 DEF sound
  <2> QED  BY <2>1, Zenon DEF GrantInv, heldGrants
<1> QED  BY <1>2, <1>4, <1>5

(* Serving a lock request only adds to a table, and a writer stays alone.  *)
LEMMA Grow ==
  ASSUME TypeOK, TableInv, NetInv, NEW m \in reqs, lockMap' = served(m), UNCHANGED try
  PROVE  /\ TableInv'
         /\ \A n \in Node : lockMap[n] \subseteq lockMap'[n]
         /\ granted(m) => lockRequesterInfo(m.uid, ~m.read) \in lockMap'[m.uid.node]
<1> DEFINE k == m.uid.node
           e == lockRequesterInfo(m.uid, ~m.read)
<1>1. /\ m.uid \in Uid /\ k \in Node /\ m.read \in BOOLEAN
      /\ m.uid.try <= try[m.uid.proc]
  BY DEF TypeOK, Request, Uid, NetInv
<1>2. \A n \in Node : n # k => lockMap'[n] = lockMap[n]
  BY <1>1 DEF served, TypeOK
<1>3. CASE ~granted(m)
  <2>1. lockMap'[k] = lockMap[k]
    BY <1>1, <1>3 DEF served, granted, Lock, RLock, TypeOK
  <2> QED  BY <1>2, <1>3, <2>1 DEF TableInv
<1>4. CASE granted(m)
  <2>1. lockMap'[k] = lockMap[k] \cup {e}
    BY <1>1, <1>4, Zenon DEF served, granted, Lock, RLock, LockReply, TypeOK
  <2>2. m.read => \A f \in lockMap[k] : ~f.writer
    BY <1>1, <1>4, Zenon DEF granted, RLockReply, isWriteLock, TableInv
  <2>3. ~m.read => lockMap[k] = {}
    BY <1>4 DEF granted, LockReply
  <2>4. e.uid = m.uid /\ e.writer = ~m.read
    BY DEF lockRequesterInfo
  <2>5. \A f \in lockMap'[k] : /\ f.uid.node = k /\ f.uid.try <= try[f.uid.proc]
                               /\ f.writer => lockMap'[k] = {f}
    BY <1>1, <2>1, <2>2, <2>3, <2>4, Zenon DEF TableInv
  <2> QED  BY <1>1, <1>2, <2>1, <2>5 DEF TableInv
<1> QED  BY <1>3, <1>4, Zenon

(* A grant that is backed stays so while the tables only grow.             *)
LEMMA StaysSound ==
  ASSUME \A n \in Node : lockMap[n] \subseteq lockMap'[n], UNCHANGED crashed,
         NEW p \in Proc, NEW t \in Nat, NEW L \in SUBSET Node, NEW r \in BOOLEAN
  PROVE  backed(p, t, L, r) => backed(p, t, L, r)'
BY DEF backed

-----------------------------------------------------------------------------
(* The end of a call of lock().                                            *)

(* It uses no uid that was not in use before.                              *)
LEMMA ConcludeUse ==
  ASSUME TypeOK, OwnerInv, NEW p \in Proc, NEW L \in SUBSET Node,
         pc[p] = "wait", Conclude(p, L), UNCHANGED try
  PROVE  \A u \in Uid :
           /\ inUse(u)' => inUse(u)
           /\ counted(u)' => counted(u) \/ (collecting(u) /\ u.proc = p /\ u.node \in L)
           /\ u.proc = p /\ u.try = try[p] => ~collecting(u)'
<1> SUFFICES ASSUME NEW u \in Uid
    PROVE  /\ inUse(u)' => inUse(u)
           /\ counted(u)' => counted(u) \/ (collecting(u) /\ u.proc = p /\ u.node \in L)
           /\ u.proc = p /\ u.try = try[p] => ~collecting(u)'
  OBVIOUS
<1>1. u.proc \in Proc /\ home[p] \in Node /\ home[u.proc] \in Node
  BY ProcAssumption DEF Uid
<1>2. collecting(u)' => collecting(u) /\ u.proc # p /\ locks'[u.proc] = locks[u.proc]
  BY <1>1, Zenon DEF Conclude, collecting, TypeOK
<1>3. heldUid(u)' => heldUid(u) \/ (collecting(u) /\ u.proc = p /\ u.node \in L)
  <2> DEFINE g == grantOf(p, try[p], L)
             h == home[p]
  <2>1. heldGrants(home[u.proc])' \subseteq heldGrants(home[u.proc]) \cup {g}
    <3>1. CASE UNCHANGED <<writeLocks, readersLocks>>
      BY <3>1, Zenon DEF heldGrants
    <3>2. CASE readersLocks' = [readersLocks EXCEPT ![h] = Append(@, g)] /\ UNCHANGED writeLocks
      <4>1. readersLocks[h] \in Seq(Grant) /\ g \in Grant
        BY <1>1, Zenon DEF TypeOK, grantOf, Grant
      <4>2. \A i \in DOMAIN Append(readersLocks[h], g) :
              \/ i \in DOMAIN readersLocks[h] /\ Append(readersLocks[h], g)[i] = readersLocks[h][i]
              \/ Append(readersLocks[h], g)[i] = g
        BY <4>1, AppendElements
      <4>3. /\ readersLocks'[h] = Append(readersLocks[h], g)
            /\ \A n \in Node : n # h => readersLocks'[n] = readersLocks[n]
        BY <1>1, <3>2, Zenon DEF TypeOK
      <4> QED  BY <1>1, <3>2, <4>2, <4>3 DEF heldGrants
    <3>3. CASE writeLocks' = [writeLocks EXCEPT ![h] = {g}] /\ UNCHANGED readersLocks
      BY <1>1, <3>3 DEF heldGrants, TypeOK
    <3> QED  BY <3>1, <3>2, <3>3, Zenon DEF Conclude, dm
  <2>2. g.proc = p /\ g.try = try[p] /\ g.nodes = L
    BY Zenon DEF grantOf
  <2> QED  BY <1>1, <2>1, <2>2, Zenon DEF heldUid, origin, collecting
<1> QED  BY <1>2, <1>3, Zenon DEF inUse, counted

(* The hypotheses under which a step concludes the call of p with L.       *)
Concludes(p, L) ==
  /\ pc[p] = "wait" /\ Conclude(p, L)
  /\ UNCHANGED <<read, try, crashed, checks, purge>>
  /\ \A n \in Node : lockMap[n] \subseteq lockMap'[n]
  /\ TableInv' /\ backed(p, try[p], L, read[p])'
  /\ reqs' \subseteq reqs /\ ch' = ch
  /\ \A m \in reqs' \cup ch : m.uid.proc = p /\ collecting(m.uid) => m.uid.node \notin L

Success(p, L) == quorumMet(L, read[p]) /\ home[p] \in L

LEMMA ConcludeOwner ==
  ASSUME Inv, NEW p \in Proc, NEW L \in SUBSET Node, Concludes(p, L)
  PROVE  CollectInv' /\ OwnerInv' /\ DistinctInv' /\ GrantInv'
<1> DEFINE h == home[p]
<1> USE DEF Inv
<1>0. PICK g \in Grant : g = grantOf(p, try[p], L)
  BY Zenon DEF TypeOK, grantOf, Grant
<1>1. h \in Node /\ g.proc = p /\ g.try = try[p] /\ g.nodes = L /\ try[p] \in Nat
  BY <1>0, ProcAssumption, Zenon DEF TypeOK, grantOf
<1>2. /\ pc' = [pc EXCEPT ![p] = IF Success(p, L) THEN "held" ELSE "backoff"]
      /\ locks' = [locks EXCEPT ![p] = {}]
      /\ UNCHANGED <<read, try, crashed>>
  BY Zenon DEF Concludes, Conclude, Success
<1>3. CollectInv'
  <2> SUFFICES ASSUME NEW q \in Proc
               PROVE  IF pc'[q] = "wait" THEN backed(q, try[q], locks[q], read[q])'
                                         ELSE locks'[q] = {}
    BY Zenon DEF CollectInv
  <2>1. CASE q = p
    BY <1>2, <2>1 DEF TypeOK
  <2>2. CASE q # p
    <3>1. pc'[q] = pc[q] /\ locks'[q] = locks[q]
      BY <1>2, <2>2 DEF TypeOK
    <3>2. backed(q, try[q], locks[q], read[q]) => backed(q, try[q], locks[q], read[q])'
      BY <1>2, <3>1, Zenon DEF backed, Concludes, TypeOK
    <3> QED  BY <3>1, <3>2, Zenon DEF CollectInv
  <2> QED  BY <2>1, <2>2, Zenon
<1>4. ASSUME NEW n \in Node, NEW k \in heldGrants(n)
      PROVE  /\ k \in Grant /\ home[k.proc] = n /\ k.try <= try[k.proc]
             /\ ~sameCall(k, g) /\ ~sameCall(g, k)
             /\ pc'[k.proc] \in {"wait", "backoff"} => k.try < try[k.proc]
  <2>1. k \in Grant /\ k.proc \in Proc /\ k.try \in Nat /\ try[k.proc] \in Nat
    BY HeldType, Zenon DEF Grant, TypeOK
  <2>2. /\ home[k.proc] = n /\ k.try <= try[k.proc]
        /\ pc[k.proc] \in {"wait", "backoff"} => k.try < try[k.proc]
    BY DEF OwnerInv
  <2>3. k.proc = p => k.try < try[p]
    BY <2>2, Zenon DEF Concludes
  <2>4. k.proc # p => pc'[k.proc] = pc[k.proc]
    BY <1>2, <2>1 DEF TypeOK
  <2> QED  BY <1>1, <2>1, <2>2, <2>3, <2>4 DEF sameCall
<1>5. ASSUME NEW n \in Node, NEW k \in heldGrants(n), NEW r \in BOOLEAN, sound(k, r)
      PROVE  sound(k, r)'
  <2>1. k \in Grant
    BY HeldType
  <2>2. backed(k.proc, k.try, k.nodes, r)'
    BY <1>5, <2>1, StaysSound DEF sound, Concludes, Grant
  <2> QED  BY <1>5, <2>2 DEF sound
<1>6. CASE ~Success(p, L)
  <2>1. UNCHANGED <<writeLocks, readersLocks>>
    BY <1>6, Zenon DEF Concludes, Conclude, Success, dm
  <2>2. OwnerInv'
    BY <1>2, <1>4, <2>1 DEF OwnerInv, heldGrants
  <2>3. DistinctInv'
    BY <2>1, Zenon DEF DistinctInv
  <2>4. GrantInv'
    BY <2>1, <1>5, Zenon DEF GrantInv, heldGrants
  <2> QED  BY <1>3, <2>2, <2>3, <2>4
<1>7. CASE Success(p, L) /\ ~read[p]
  <2>1. /\ writeLocks' = [writeLocks EXCEPT ![h] = {g}]
        /\ UNCHANGED readersLocks
        /\ pc'[p] = "held"
    BY <1>0, <1>2, <1>7, Zenon DEF Concludes, Conclude, Success, TypeOK
  <2>2. /\ writeLocks'[h] = {g}
        /\ \A n \in Node : n # h => writeLocks'[n] = writeLocks[n]
    BY <1>1, <2>1, Zenon DEF TypeOK
  <2>3. OwnerInv'
    <3> SUFFICES ASSUME NEW n \in Node, NEW k \in heldGrants(n)'
                 PROVE  /\ home[k.proc] = n /\ k.try <= try[k.proc]
                        /\ pc'[k.proc] \in {"wait", "backoff"} => k.try < try[k.proc]
      BY <1>2 DEF OwnerInv
    <3>1. k \in heldGrants(n) \/ (k = g /\ n = h)
      BY <2>1, <2>2, Zenon DEF heldGrants
    <3> QED  BY <1>1, <1>4, <2>1, <3>1 DEF TypeOK
  <2>4. DistinctInv'
    <3> SUFFICES ASSUME NEW i \in DOMAIN readersLocks[h]
                 PROVE  ~sameCall(readersLocks[h][i], g)
      BY <2>1, <2>2 DEF DistinctInv
    <3> QED  BY <1>1, <1>4 DEF heldGrants
  <2>5. sound(g, FALSE)'
    <3>1. backed(p, try[p], L, FALSE)' /\ try' = try /\ quorumMet(L, FALSE)
      <4>1. read[p] = FALSE /\ read' = read
        BY <1>2, <1>7, Zenon DEF TypeOK
      <4> QED  BY <1>2, <1>7, <4>1, Zenon DEF Concludes, Success
    <3>2. backed(g.proc, g.try, g.nodes, FALSE)'
      BY <1>1, <3>1, Zenon
    <3> QED  BY <1>1, <3>1, <3>2, Zenon DEF sound
  <2>6. GrantInv'
    <3>1. ASSUME NEW n \in Node, NEW k \in writeLocks'[n] PROVE sound(k, FALSE)'
      BY <1>5, <2>2, <2>5, Zenon DEF GrantInv, heldGrants
    <3>2. ASSUME NEW n \in Node, NEW i \in DOMAIN readersLocks'[n]
          PROVE  sound(readersLocks[n][i], TRUE)'
      <4>1. PICK k \in heldGrants(n) : k = readersLocks[n][i] /\ sound(k, TRUE)
        BY <2>1, Zenon DEF heldGrants, GrantInv
      <4> QED  BY <1>5, <2>1, <4>1, Zenon
    <3> QED  BY <3>1, <3>2, Zenon DEF GrantInv
  <2> QED  BY <1>3, <2>3, <2>4, <2>6
<1>8. CASE Success(p, L) /\ read[p]
  <2> DEFINE rl == readersLocks[h]
  <2>1. /\ readersLocks' = [readersLocks EXCEPT ![h] = Append(@, g)]
        /\ UNCHANGED writeLocks
        /\ pc'[p] = "held"
    BY <1>0, <1>2, <1>8, Zenon DEF Concludes, Conclude, Success, TypeOK
  <2>2. /\ readersLocks'[h] = Append(rl, g)
        /\ \A n \in Node : n # h => readersLocks'[n] = readersLocks[n]
        /\ rl \in Seq(Grant)
    BY <1>1, <2>1, Zenon DEF TypeOK
  <2>3. /\ Len(rl) \in Nat /\ DOMAIN rl = 1..Len(rl)
        /\ DOMAIN readersLocks'[h] = 1..(Len(rl) + 1)
        /\ \A i \in 1..Len(rl) : readersLocks'[h][i] = rl[i]
        /\ readersLocks'[h][Len(rl) + 1] = g
    BY <1>1, <2>2, AppendElements
  <2>4. \A i \in DOMAIN rl : rl[i] \in heldGrants(h) /\ ~sameCall(rl[i], g) /\ ~sameCall(g, rl[i])
    BY <1>1, <1>4 DEF heldGrants
  <2>5. OwnerInv'
    <3> SUFFICES ASSUME NEW n \in Node, NEW k \in heldGrants(n)'
                 PROVE  /\ home[k.proc] = n /\ k.try <= try[k.proc]
                        /\ pc'[k.proc] \in {"wait", "backoff"} => k.try < try[k.proc]
      BY <1>2 DEF OwnerInv
    <3>1. k \in heldGrants(n) \/ (k = g /\ n = h)
      BY <2>1, <2>2, <2>3 DEF heldGrants
    <3> QED  BY <1>1, <1>4, <2>1, <3>1 DEF TypeOK
  <2>6. DistinctInv'
    <3> SUFFICES ASSUME NEW n \in Node
                 PROVE  /\ \A k \in writeLocks[n] :
                             /\ writeLocks[n] = {k}
                             /\ \A i \in DOMAIN readersLocks'[n] : ~sameCall(readersLocks'[n][i], k)
                        /\ \A i, j \in DOMAIN readersLocks'[n] :
                             sameCall(readersLocks'[n][i], readersLocks'[n][j]) => i = j
      BY <2>1, Zenon DEF DistinctInv
    <3>1. CASE n # h
      BY <2>2, <3>1, Zenon DEF DistinctInv
    <3>2. CASE n = h
      <4>1. \A k \in writeLocks[h] : ~sameCall(g, k)
        BY <1>1, <1>4, Zenon DEF heldGrants
      <4>2. \A i \in 1..(Len(rl) + 1) : i \in 1..Len(rl) \/ i = Len(rl) + 1
        BY <2>3
      <4>3. \A i, j \in 1..(Len(rl) + 1) :
              sameCall(readersLocks'[h][i], readersLocks'[h][j]) => i = j
        BY <2>3, <2>4, <4>2, <1>1, Zenon DEF DistinctInv
      <4>4. \A k \in writeLocks[h] : /\ writeLocks[h] = {k}
              /\ \A i \in 1..(Len(rl) + 1) : ~sameCall(readersLocks'[h][i], k)
        BY <2>3, <4>1, <4>2, <1>1, Zenon DEF DistinctInv
      <4> QED  BY <3>2, <4>3, <4>4, <2>3, Zenon
    <3> QED  BY <3>1, <3>2, Zenon
  <2>7. sound(g, TRUE)'
    <3>1. backed(p, try[p], L, TRUE)' /\ try' = try /\ quorumMet(L, TRUE)
      BY <1>2, <1>8, Zenon DEF Concludes, Success
    <3>2. backed(g.proc, g.try, g.nodes, TRUE)'
      BY <1>1, <3>1, Zenon
    <3> QED  BY <1>1, <3>1, <3>2, Zenon DEF sound
  <2>8. GrantInv'
    <3>1. ASSUME NEW n \in Node, NEW k \in writeLocks'[n] PROVE sound(k, FALSE)'
      BY <1>5, <2>1, Zenon DEF GrantInv, heldGrants
    <3>2. ASSUME NEW n \in Node, NEW i \in DOMAIN readersLocks'[n]
          PROVE  sound(readersLocks[n][i], TRUE)'
      <4>1. PICK k : k = readersLocks'[n][i]
        OBVIOUS
      <4>2. k = g \/ (k \in heldGrants(n) /\ sound(k, TRUE))
        <5>1. CASE n # h
          BY <2>2, <4>1, <5>1, Zenon DEF GrantInv, heldGrants
        <5>2. CASE n = h
          <6>1. i \in 1..(Len(rl) + 1)
            BY <2>3, <5>2, Zenon
          <6>2. CASE i = Len(rl) + 1
            BY <2>3, <4>1, <5>2, <6>2, Zenon
          <6>3. CASE i \in 1..Len(rl)
            BY <1>1, <2>3, <2>4, <4>1, <5>2, <6>3, Zenon DEF GrantInv
          <6>4. Len(rl) \in Nat
            BY <2>3, Zenon
          <6>5. i = Len(rl) + 1 \/ i \in 1..Len(rl)
            BY <6>1, <6>4
          <6> QED  BY <6>2, <6>3, <6>5, Zenon
        <5> QED  BY <5>1, <5>2, Zenon
      <4>3. sound(k, TRUE)'
        BY <1>5, <2>7, <4>2, Zenon
      <4> QED  BY <4>1, <4>3, Zenon
    <3> QED  BY <3>1, <3>2, Zenon DEF GrantInv
  <2> QED  BY <1>3, <2>5, <2>6, <2>8
<1> QED  BY <1>6, <1>7, <1>8

LEMMA ConcludeNet ==
  ASSUME Inv, NEW p \in Proc, NEW L \in SUBSET Node, Concludes(p, L)
  PROVE  NetInv' /\ MaintenanceInv'
<1>1. /\ TypeOK /\ OwnerInv /\ NetInv /\ MaintenanceInv
      /\ pc[p] = "wait" /\ Conclude(p, L) /\ try' = try /\ read' = read
      /\ checks' = checks /\ purge' = purge /\ reqs' \subseteq reqs /\ ch' = ch
      /\ \A m \in reqs' \cup ch : m.uid.proc = p /\ collecting(m.uid) => m.uid.node \notin L
  BY DEF Inv, Concludes
<1>2. \A u \in Uid :
        /\ inUse(u)' => inUse(u)
        /\ counted(u)' => counted(u) \/ (collecting(u) /\ u.proc = p /\ u.node \in L)
        /\ u.proc = p /\ u.try = try[p] => ~collecting(u)'
  BY <1>1, ConcludeUse
<1>3. MaintenanceInv'
  BY <1>1, <1>2 DEF MaintenanceInv, TypeOK
<1>4. \A m \in reqs' \cup ch' : m.uid.try <= try'[m.uid.proc] /\ ~counted(m.uid)'
  BY <1>1, <1>2, Zenon DEF NetInv, TypeOK, Request
<1>5. \A m \in reqs' : collecting(m.uid)' => m.read = read'[m.uid.proc]
  <2> SUFFICES ASSUME NEW m \in reqs', collecting(m.uid)' PROVE m.read = read'[m.uid.proc]
    OBVIOUS
  <2>1. m \in reqs /\ m.uid.proc \in Proc
    BY <1>1 DEF TypeOK, Request, Uid
  <2>2. collecting(m.uid)
    BY <1>1, <2>1 DEF collecting, Conclude, TypeOK
  <2> QED  BY <1>1, <2>1, <2>2 DEF NetInv
<1>6. \A m \in rels' : m.uid.try <= try'[m.uid.proc] /\ ~inUse(m.uid)'
  <2>1. \A m \in rels : m.uid.try <= try'[m.uid.proc] /\ ~inUse(m.uid)'
    BY <1>1, <1>2 DEF NetInv, TypeOK, Request
  <2>2. CASE Success(p, L)
    BY <1>1, <2>1, <2>2, Zenon DEF Conclude, Success
  <2>3. CASE ~Success(p, L)
    <3>1. rels' = rels \cup requests(p, try[p], L, read[p]) /\ UNCHANGED <<writeLocks, readersLocks>>
      BY <1>1, <2>3, Zenon DEF Conclude, Success, dm
    <3>2. ASSUME NEW n \in L
          PROVE  uidOf(p, try[p], n).try <= try'[p] /\ ~inUse(uidOf(p, try[p], n))'
      <4>1. PICK u \in Uid : u = uidOf(p, try[p], n)
        BY <1>1, Zenon DEF Uid, uidOf, TypeOK
      <4>2. u.proc = p /\ u.try = try[p] /\ try[p] \in Nat
        BY <1>1, <4>1 DEF uidOf, TypeOK
      <4>3. ~heldUid(u)
        <5>1. \A g \in heldGrants(home[p]) : g.proc = p => g.try < try[p]
          BY <1>1, ProcAssumption DEF OwnerInv
        <5>2. \A g \in heldGrants(home[p]) : g.try \in Nat
          BY <1>1, HeldType, ProcAssumption DEF Grant
        <5> QED  BY <4>2, <5>1, <5>2 DEF heldUid, origin
      <4>4. ~heldUid(u)'
        BY <3>1, <4>3 DEF heldUid, heldGrants, origin
      <4>5. ~inUse(u)'
        BY <1>2, <4>2, <4>4 DEF inUse
      <4> QED  BY <1>1, <4>1, <4>2, <4>5 DEF TypeOK
    <3>3. ASSUME NEW m \in requests(p, try[p], L, read[p])
          PROVE  m.uid.try <= try'[m.uid.proc] /\ ~inUse(m.uid)'
      <4>1. PICK n \in L : m.uid = uidOf(p, try[p], n)
        BY DEF requests
      <4> QED  BY <1>1, <3>2, <4>1 DEF uidOf
    <3> QED  BY <2>1, <3>1, <3>3
  <2> QED  BY <2>2, <2>3
<1>7. /\ \A m, k \in reqs' \cup ch' : m.uid = k.uid => m = k
      /\ reqs' \cap ch' = {}
  BY <1>1 DEF NetInv
<1> QED  BY <1>3, <1>4, <1>5, <1>6, <1>7 DEF NetInv

(* Nobody writes when a write quorum is reached, wherever it is.           *)
LEMMA QuorumAlone ==
  ASSUME Calm, Inv, NEW p \in Proc, NEW L \in SUBSET Node, Concludes(p, L),
         Success(p, L), ~read[p], NEW q \in Proc, holdsWrite(q)
  PROVE  FALSE
<1>1. /\ TypeOK /\ TableInv' /\ GrantInv /\ HolderInv /\ FaultInv
      /\ UNCHANGED <<try, crashed>> /\ read'[p] = FALSE /\ pc[p] = "wait"
      /\ quorumMet(L, FALSE) /\ backed(p, try[p], L, read[p])'
      /\ \A n \in Node : lockMap[n] \subseteq lockMap'[n]
  BY Zenon DEF Inv, Concludes, Success, TypeOK
<1>2. PICK g \in writeLocks[home[q]] : g.proc = q /\ sound(g, FALSE)
  BY <1>1, ProcAssumption, Zenon DEF HolderInv, GrantInv
<1>3. g.nodes \in SUBSET Node
  BY <1>1, <1>2, ProcAssumption DEF TypeOK, Grant
<1>4. PICK n \in L \cap g.nodes : n \notin crashed
  <2>1. crashed \in SUBSET Node /\ IsFiniteSet(crashed) /\ Cardinality(crashed) \in Nat
    BY <1>1, NodeAssumption, FS_Subset, FS_CardinalityType, Zenon DEF TypeOK
  <2>2. Cardinality(crashed) <= 1
    <3>1. Cardinality(crashed) <= MaxCrash
      BY <1>1, Zenon DEF FaultInv
    <3>2. MaxCrash \in Nat /\ MaxCrash <= 1
      BY BoundAssumption, Zenon DEF Calm
    <3> QED  BY <2>1, <3>1, <3>2
  <2> QED  BY <1>1, <1>2, <1>3, <2>1, <2>2, WriteQuorumsMeet, Zenon DEF sound
<1>5. lockRequesterInfo(uidOf(q, g.try, n), TRUE) \in lockMap'[n]
  BY <1>1, <1>2, <1>3, <1>4, Zenon DEF sound, backed
<1>6. lockRequesterInfo(uidOf(p, try[p], n), TRUE) \in lockMap'[n]
  BY <1>1, <1>4, Zenon DEF backed
<1>7. uidOf(p, try[p], n) = uidOf(q, g.try, n)
  BY <1>1, <1>3, <1>4, <1>5, <1>6 DEF TableInv, lockRequesterInfo
<1> QED  BY <1>1, <1>7 DEF uidOf, holdsWrite

LEMMA ConcludeHolder ==
  ASSUME Calm, Inv, NEW p \in Proc, NEW L \in SUBSET Node, Concludes(p, L)
  PROVE  HolderInv'
<1> DEFINE h == home[p]
<1>1. /\ TypeOK /\ HolderInv /\ pc[p] = "wait" /\ try' = try /\ read' = read
      /\ Conclude(p, L) /\ h \in Node
      /\ pc' = [pc EXCEPT ![p] = IF Success(p, L) THEN "held" ELSE "backoff"]
  BY ProcAssumption, Zenon DEF Inv, Concludes, Conclude, Success
<1>2. ASSUME NEW q \in Proc, q # p
      PROVE  /\ holdsWrite(q)' <=> holdsWrite(q)
             /\ holdsRead(q)' <=> holdsRead(q)
  BY <1>1, <1>2 DEF holdsWrite, holdsRead, TypeOK
<1>3. ~holdsWrite(p) /\ ~holdsRead(p)
  BY <1>1 DEF holdsWrite, holdsRead
<1>4. /\ holdsWrite(p)' <=> Success(p, L) /\ ~read[p]
      /\ holdsRead(p)' <=> Success(p, L) /\ read[p]
  BY <1>1 DEF holdsWrite, holdsRead, TypeOK
<1>5. ASSUME NEW q \in Proc, holdsWrite(q)'
      PROVE  \E g \in writeLocks'[home[q]] : g.proc = q /\ g.try = try'[q]
  <2>1. CASE q = p
    <3>1. writeLocks'[h] = {grantOf(p, try[p], L)}
      BY <1>1, <1>4, <1>5, <2>1 DEF Conclude, Success, TypeOK
    <3> QED  BY <1>1, <2>1, <3>1 DEF grantOf
  <2>2. CASE q # p
    <3>1. holdsWrite(q)
      BY <1>2, <1>5, <2>2
    <3>2. ~(Success(p, L) /\ ~read[p])
      BY <3>1, QuorumAlone
    <3>3. writeLocks' = writeLocks
      BY <1>1, <3>2 DEF Conclude, Success, dm
    <3> QED  BY <1>1, <3>1, <3>3 DEF HolderInv
  <2> QED  BY <2>1, <2>2
<1>6. ASSUME NEW n \in Node PROVE Cardinality(readersOf(n)') = Len(readersLocks'[n])
  <2>1. CASE Success(p, L) /\ read[p] /\ n = h
    <3>1. readersLocks'[h] = Append(readersLocks[h], grantOf(p, try[p], L))
      BY <1>1, <2>1 DEF Conclude, Success, TypeOK
    <3>2. Len(readersLocks'[h]) = Len(readersLocks[h]) + 1
      <4>1. readersLocks[h] \in Seq(Grant) /\ grantOf(p, try[p], L) \in Grant
        BY <1>1, Zenon DEF TypeOK, grantOf, Grant
      <4> QED  BY <3>1, <4>1, AppendElements
    <3>3. readersOf(n)' = readersOf(n) \cup {p} /\ p \notin readersOf(n)
      BY <1>2, <1>3, <1>4, <2>1 DEF readersOf
    <3>4. IsFiniteSet(readersOf(n))
      BY ProcAssumption, FS_Subset DEF readersOf
    <3>5. Cardinality(readersOf(n)') = Cardinality(readersOf(n)) + 1
      BY <3>3, <3>4, FS_AddElement
    <3> QED  BY <1>1, <2>1, <3>2, <3>5 DEF HolderInv
  <2>2. CASE ~(Success(p, L) /\ read[p] /\ n = h)
    <3>1. readersOf(n)' = readersOf(n)
      BY <1>2, <1>3, <1>4, <2>2 DEF readersOf
    <3>2. readersLocks'[n] = readersLocks[n]
      BY <1>1, <2>2 DEF Conclude, Success, dm, TypeOK
    <3> QED  BY <1>1, <3>1, <3>2 DEF HolderInv
  <2> QED  BY <2>1, <2>2
<1> QED  BY <1>5, <1>6 DEF HolderInv

-----------------------------------------------------------------------------
(* An answer to a lock request.                                            *)

(* While the DRWMutex and the goroutines stand still and tables only grow. *)
LEMMA Frame ==
  ASSUME TypeOK, OwnerInv, DistinctInv, GrantInv, HolderInv,
         \A n \in Node : lockMap[n] \subseteq lockMap'[n],
         UNCHANGED <<pc, read, try, writeLocks, readersLocks, crashed>>
  PROVE  OwnerInv' /\ DistinctInv' /\ GrantInv' /\ HolderInv'
<1>1. OwnerInv' /\ DistinctInv'
  BY DEF OwnerInv, DistinctInv, heldGrants
<1>2. ASSUME NEW k \in Grant, NEW r \in BOOLEAN, sound(k, r) PROVE sound(k, r)'
  BY <1>2, StaysSound DEF sound, Grant
<1>3. ASSUME NEW n \in Node, NEW k \in writeLocks'[n] PROVE sound(k, FALSE)'
  BY <1>2, Zenon DEF GrantInv, TypeOK
<1>4. ASSUME NEW n \in Node, NEW i \in DOMAIN readersLocks'[n]
      PROVE  sound(readersLocks[n][i], TRUE)'
  <2>1. PICK k \in Grant : k = readersLocks[n][i] /\ sound(k, TRUE)
    BY HeldType, Zenon DEF GrantInv
  <2> QED  BY <1>2, <2>1, Zenon
<1>5. HolderInv'
  <2>1. \A n \in Node : readersOf(n)' = readersOf(n)
    BY DEF readersOf, holdsRead
  <2>2. \A q \in Proc : holdsWrite(q)' = holdsWrite(q)
    BY DEF holdsWrite
  <2> QED  BY <2>1, <2>2 DEF HolderInv
<1> QED  BY <1>1, <1>3, <1>4, <1>5, Zenon DEF GrantInv

Answered(m, ok) ==
  /\ Answer(m, ok)
  /\ reqs' = reqs \ {m} /\ ch' = ch
  /\ UNCHANGED <<read, try, crashed, checks, purge>>
  /\ \A n \in Node : lockMap[n] \subseteq lockMap'[n]
  /\ TableInv'
  /\ ok => lockRequesterInfo(m.uid, ~m.read) \in lockMap'[m.uid.node]

LEMMA AnswerInv ==
  ASSUME Calm, Inv, NEW m \in reqs, NEW ok \in BOOLEAN, Answered(m, ok)
  PROVE  /\ CollectInv' /\ OwnerInv' /\ DistinctInv' /\ GrantInv'
         /\ NetInv' /\ MaintenanceInv' /\ HolderInv'
<1> DEFINE p == m.uid.proc
           F == IF ok THEN failed[p] ELSE failed[p] \cup {m.uid.node}
<1>0. PICK L : L = IF ok THEN locks[p] \cup {m.uid.node} ELSE locks[p]
  BY Zenon
<1> DEFINE Full == L \cup F = Node \/ Cardinality(F) > dnodeCount - quorum(read[p])
<1>1. /\ TypeOK /\ CollectInv /\ OwnerInv /\ DistinctInv /\ GrantInv /\ NetInv
      /\ MaintenanceInv /\ HolderInv
      /\ Answer(m, ok) /\ reqs' = reqs \ {m} /\ ch' = ch
      /\ UNCHANGED <<read, try, crashed, checks, purge>>
      /\ \A n \in Node : lockMap[n] \subseteq lockMap'[n]
      /\ ok => lockRequesterInfo(m.uid, ~m.read) \in lockMap'[m.uid.node]
  BY Zenon DEF Inv, Answered
<1>2. m \in Request /\ m.uid \in Uid /\ p \in Proc /\ m.uid.node \in Node /\ m.uid.try \in Nat
  BY <1>1 DEF TypeOK, Request, Uid
<1>3. L \in SUBSET Node
  BY <1>0, <1>1, <1>2 DEF TypeOK
<1>4. ASSUME NEW q \in Proc, NEW M \in SUBSET Node, backed(q, try[q], M, read[q])
      PROVE  backed(q, try[q], M, read[q])'
  BY <1>1, <1>4, <1>2 DEF backed, TypeOK
<1>5. CASE ~collecting(m.uid)
  <2>1. UNCHANGED <<pc, locks, failed, writeLocks, readersLocks>> /\ rels' \subseteq rels \cup {m}
    BY <1>1, <1>5, Zenon DEF Answer, ReleaseLate, attempt, dm
  <2>2. \A u \in Uid : (inUse(u)' <=> inUse(u)) /\ (counted(u)' <=> counted(u))
                       /\ (collecting(u)' <=> collecting(u))
    BY <1>1, <2>1, SameUse, Zenon
  <2>3. CollectInv'
    <3> SUFFICES ASSUME NEW q \in Proc, pc[q] = "wait"
                 PROVE  backed(q, try[q], locks[q], read[q])'
      BY <1>1, <2>1, Zenon DEF CollectInv
    <3>1. backed(q, try[q], locks[q], read[q])
      BY <1>1, Zenon DEF CollectInv
    <3> QED  BY <1>1, <2>1, <3>1, Zenon DEF backed, TypeOK
  <2>4. OwnerInv' /\ DistinctInv' /\ GrantInv' /\ HolderInv'
    BY <1>1, <2>1, Frame, Zenon
  <2>5. ~inUse(m.uid) /\ m.uid.try <= try[p]
    BY <1>1, <1>5 DEF NetInv, inUse, counted
  <2>6. NetInv'
    <3>1. \A k \in reqs' \cup ch' : k.uid.try <= try'[k.uid.proc] /\ ~counted(k.uid)'
      BY <1>1, <2>2, Zenon DEF NetInv, TypeOK, Request
    <3>2. \A k \in rels' : k.uid.try <= try'[k.uid.proc] /\ ~inUse(k.uid)'
      BY <1>1, <1>2, <2>1, <2>2, <2>5, Zenon DEF NetInv, TypeOK, Request
    <3>3. \A k \in reqs' : collecting(k.uid)' => k.read = read'[k.uid.proc]
      BY <1>1, <2>2, Zenon DEF NetInv, TypeOK, Request
    <3> QED  BY <1>1, <3>1, <3>2, <3>3, Zenon DEF NetInv
  <2>7. MaintenanceInv'
    BY <1>1, <2>2, Zenon DEF MaintenanceInv, TypeOK
  <2> QED  BY <2>3, <2>4, <2>6, <2>7
<1>6. ASSUME collecting(m.uid)
      PROVE  /\ backed(p, try[p], L, read[p])'
             /\ \A k \in reqs' \cup ch : k.uid.proc = p /\ collecting(k.uid) => k.uid.node \notin L
             /\ pc[p] = "wait"
  <2>1. pc[p] = "wait" /\ m.uid.try = try[p] /\ m.read = read[p]
    BY <1>1, <1>6 DEF collecting, NetInv
  <2>2. backed(p, try[p], locks[p], read[p])
    BY <1>1, <1>2, <2>1 DEF CollectInv
  <2>3. m.uid = uidOf(p, try[p], m.uid.node)
    BY <1>2, <2>1 DEF uidOf, Uid
  <2>4. backed(p, try[p], L, read[p])'
    <3> SUFFICES ASSUME NEW n \in L, n \notin crashed
                 PROVE  lockRequesterInfo(uidOf(p, try[p], n), ~read[p]) \in lockMap'[n]
      BY <1>1 DEF backed
    <3>1. CASE n \in locks[p]
      BY <1>1, <1>3, <2>2, <3>1 DEF backed
    <3>2. CASE n \notin locks[p]
      BY <1>0, <1>1, <2>1, <2>3, <3>2
    <3> QED  BY <3>1, <3>2
  <2>5. ASSUME NEW k \in reqs' \cup ch, k.uid.proc = p, collecting(k.uid)
        PROVE  k.uid.node \notin L
    <3>1. k \in reqs \cup ch /\ k # m /\ ~counted(k.uid) /\ k.uid # m.uid
      BY <1>1 DEF NetInv
    <3>2. k.uid.node \notin locks[p]
      BY <2>5, <3>1 DEF counted
    <3>3. k.uid \in Uid
      BY <1>1, <3>1 DEF TypeOK, Request
    <3>4. k.uid.node # m.uid.node
      BY <1>2, <2>1, <2>5, <3>1, <3>3 DEF collecting, Uid
    <3> QED  BY <1>0, <3>2, <3>4
  <2> QED  BY <2>1, <2>4, <2>5
<1>7. CASE collecting(m.uid) /\ Full
  <2>1. Conclude(p, L)
    BY <1>0, <1>1, <1>7 DEF Answer, Collect
  <2>2. Concludes(p, L)
    BY <1>1, <1>6, <1>7, <2>1, Zenon DEF Concludes, Answered
  <2> QED  BY <1>2, <1>3, <2>2, ConcludeOwner, ConcludeNet, ConcludeHolder
<1>8. CASE collecting(m.uid) /\ ~Full
  <2>1. locks' = [locks EXCEPT ![p] = L] /\ UNCHANGED <<pc, writeLocks, readersLocks, rels>>
    BY <1>0, <1>1, <1>8 DEF Answer, Collect, dm
  <2>2. OwnerInv' /\ DistinctInv' /\ GrantInv' /\ HolderInv'
    BY <1>1, <2>1, Frame, Zenon
  <2>3. CollectInv'
    <3> SUFFICES ASSUME NEW q \in Proc
                 PROVE  IF pc[q] = "wait" THEN backed(q, try[q], locks[q], read[q])'
                                          ELSE locks'[q] = {}
      BY <2>1, Zenon DEF CollectInv
    <3>1. CASE q = p
      <4>1. locks'[p] = L /\ pc[p] = "wait"
        BY <1>1, <1>2, <1>6, <1>8, <2>1, Zenon DEF TypeOK
      <4> QED  BY <1>6, <1>8, <3>1, <4>1, Zenon DEF backed
    <3>2. CASE q # p
      <4>1. locks'[q] = locks[q]
        BY <2>1, <3>2 DEF TypeOK
      <4> QED  BY <1>1, <4>1, Zenon DEF backed, CollectInv, TypeOK
    <3> QED  BY <3>1, <3>2, Zenon
  <2>4. \A u \in Uid : /\ (inUse(u)' <=> inUse(u)) /\ (collecting(u)' <=> collecting(u))
                       /\ counted(u)' => counted(u) \/ (collecting(u) /\ u.proc = p /\ u.node \in L)
    <3>1. \A u \in Uid : (heldUid(u)' <=> heldUid(u)) /\ (collecting(u)' <=> collecting(u))
      BY <1>1, <2>1, Zenon DEF heldUid, heldGrants, origin, collecting
    <3>2. \A u \in Uid : u.proc # p => locks'[u.proc] = locks[u.proc]
      BY <2>1 DEF TypeOK, Uid
    <3>3. locks'[p] = L
      BY <1>1, <1>2, <2>1, Zenon DEF TypeOK
    <3> QED  BY <3>1, <3>2, <3>3, Zenon DEF inUse, counted
  <2>5. NetInv'
    <3>1. \A k \in reqs' \cup ch' : k.uid.try <= try'[k.uid.proc] /\ ~counted(k.uid)'
      BY <1>1, <1>6, <1>8, <2>4, Zenon DEF NetInv, TypeOK, Request
    <3>2. \A k \in rels' : k.uid.try <= try'[k.uid.proc] /\ ~inUse(k.uid)'
      BY <1>1, <2>1, <2>4, Zenon DEF NetInv, TypeOK, Request
    <3>3. \A k \in reqs' : collecting(k.uid)' => k.read = read'[k.uid.proc]
      BY <1>1, <2>4, Zenon DEF NetInv, TypeOK, Request
    <3> QED  BY <1>1, <3>1, <3>2, <3>3, Zenon DEF NetInv
  <2>6. MaintenanceInv'
    BY <1>1, <2>4, Zenon DEF MaintenanceInv, TypeOK
  <2> QED  BY <2>2, <2>3, <2>5, <2>6
<1> QED  BY <1>5, <1>7, <1>8

=============================================================================
