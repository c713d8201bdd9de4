--------------------------- MODULE DsyncInvariant ---------------------------
(***************************************************************************)
(* Why Dsync excludes: the inductive invariant behind its properties.      *)
(* It ties the four places that know of a grant to each other: the lock    *)
(* tables of the servers, the collector of lock(), the DRWMutex, and the   *)
(* requests and releases on their way.                                     *)
(***************************************************************************)
EXTENDS Dsync

(* Every server that granted has the entry, unless it lost its table.      *)
backed(p, t, L, r) ==
  \A n \in L \ crashed : lockRequesterInfo(uidOf(p, t, n), ~r) \in lockMap[n]

(* A writer is alone in a lock table, and no uid is from the future.       *)
TableInv ==
  \A n \in Node : \A e \in lockMap[n] :
    /\ e.uid.node = n /\ e.uid.try <= try[e.uid.proc]
    /\ e.writer => lockMap[n] = {e}

(* What the collector has recorded is in the tables.                       *)
CollectInv ==
  \A p \in Proc : IF pc[p] = "wait" THEN backed(p, try[p], locks[p], read[p])
                                    ELSE locks[p] = {}

(* The grants of a DRWMutex are of finished calls of goroutines of its     *)
(* node, one per call; each is of a quorum, and in the tables.             *)
OwnerInv ==
  \A n \in Node : \A g \in heldGrants(n) :
    /\ home[g.proc] = n /\ g.try <= try[g.proc]
    /\ pc[g.proc] \in {"wait", "backoff"} => g.try < try[g.proc]

sameCall(g, k) == g.proc = k.proc /\ g.try = k.try

DistinctInv ==
  \A n \in Node :
    /\ \A g \in writeLocks[n] :
         /\ writeLocks[n] = {g}
         /\ \A i \in DOMAIN readersLocks[n] : ~sameCall(readersLocks[n][i], g)
    /\ \A i, j \in DOMAIN readersLocks[n] :
         sameCall(readersLocks[n][i], readersLocks[n][j]) => i = j

sound(g, r) == quorumMet(g.nodes, r) /\ backed(g.proc, g.try, g.nodes, r)

GrantInv ==
  \A n \in Node : /\ \A g \in writeLocks[n] : sound(g, FALSE)
                  /\ \A i \in DOMAIN readersLocks[n] : sound(readersLocks[n][i], TRUE)

(* A uid somebody counts on has no other answer and no release on the way, *)
(* and lock maintenance is not about to purge it.                          *)
counted(u) == \/ collecting(u) /\ u.node \in locks[u.proc]
              \/ heldUid(u)

NetInv ==
  /\ \A m \in reqs \cup ch : m.uid.try <= try[m.uid.proc] /\ ~counted(m.uid)
  /\ \A m, k \in reqs \cup ch : m.uid = k.uid => m = k
  /\ reqs \cap ch = {}
  /\ \A m \in reqs : collecting(m.uid) => m.read = read[m.uid.proc]
  /\ \A m \in rels : m.uid.try <= try[m.uid.proc] /\ ~inUse(m.uid)

MaintenanceInv ==
  \A u \in checks \cup purge : u.try <= try[u.proc] /\ ~inUse(u)

(* A writing goroutine owns the write grant of its DRWMutex; reading ones  *)
(* are as many as the read grants, which they do not own one by one.       *)
readersOf(n) == {p \in Proc : home[p] = n /\ holdsRead(p)}

HolderInv ==
  /\ \A p \in Proc : holdsWrite(p) =>
       \E g \in writeLocks[home[p]] : g.proc = p /\ g.try = try[p]
  /\ \A n \in Node : Cardinality(readersOf(n)) = Len(readersLocks[n])

FaultInv == Cardinality(crashed) <= MaxCrash /\ (MaxForce = 0 => forced = {})

Inv == /\ TypeOK /\ TableInv /\ CollectInv /\ OwnerInv /\ DistinctInv
       /\ GrantInv /\ NetInv /\ MaintenanceInv /\ HolderInv /\ FaultInv
=============================================================================
