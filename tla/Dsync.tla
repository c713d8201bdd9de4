------------------------------- MODULE Dsync -------------------------------
(***************************************************************************)
(* The distributed read-write mutex of vendor/github.com/minio/dsync, run  *)
(* against the lock servers of cmd/lock-rpc-server.go, for one resource.   *)
(*                                                                         *)
(* Each node runs one lock server and one DRWMutex for the resource.       *)
(* The processes are the goroutines that call Lock, RLock, Unlock and      *)
(* RUnlock on the DRWMutex of their home node.  lock() broadcasts one      *)
(* request per server, each under a uid of its own; the replies come back  *)
(* in any order; releases are sent by goroutines that retry and finally    *)
(* give up.  The collector of lock() only waits for replies, so a reply    *)
(* that reaches it in time is collected in the step that serves the        *)
(* request; a reply that is slower than lock() itself stays in ch.         *)
(***************************************************************************)
EXTENDS LockServer, FiniteSets, Sequences

CONSTANTS
  Node,       \* the nodes, one lock server each (clnts)
  Proc,       \* the goroutines that use the lock
  home,       \* the node a goroutine runs on (ownNode of its process)
  Kinds,      \* the kinds of lock a goroutine takes: TRUE is a read lock
  MaxTry,     \* bound: calls of lock() per goroutine
  MaxDelay,   \* bound: replies slower than lock(), and timeouts of lock()
  MaxFail,    \* bound: lock requests that never reach their server
  MaxLoss,    \* bound: replies and releases lost while an entry exists
  MaxCrash,   \* bound: nodes that crash and restart
  MaxForce,   \* bound: calls of ForceUnlock
  Maintain,   \* whether lock maintenance runs
  LongHolds   \* whether a lock may be held past lockValidityCheckInterval

dnodeCount == Cardinality(Node)
dquorumHalf == dnodeCount \div 2
dquorum == dnodeCount \div 2 + 1
dquorumReads == dnodeCount \div 2

(* dsync.Init refuses any other number of nodes.                           *)
ASSUME NodeAssumption == /\ IsFiniteSet(Node)
                         /\ dnodeCount \in 4..16
                         /\ dnodeCount % 2 = 0

ASSUME ProcAssumption == /\ IsFiniteSet(Proc)
                         /\ home \in [Proc -> Node]
                         /\ Kinds \in [Proc -> SUBSET BOOLEAN]

ASSUME BoundAssumption == /\ MaxTry \in Nat /\ MaxDelay \in Nat /\ MaxFail \in Nat
                          /\ MaxLoss \in Nat /\ MaxCrash \in Nat /\ MaxForce \in Nat
                          /\ Maintain \in BOOLEAN /\ LongHolds \in BOOLEAN

(* The uid of the request that call number try of lock() by proc sends to  *)
(* node: the goroutine of each server draws its own.                       *)
Uid == [proc : Proc, try : Nat, node : Node]
uidOf(p, t, n) == [proc |-> p, try |-> t, node |-> n]

(* The uids one call of lock() has collected: the servers that granted it. *)
Grant == [proc : Proc, try : Nat, nodes : SUBSET Node]
grantOf(p, t, L) == [proc |-> p, try |-> t, nodes |-> L]

(* A lock or a release RPC.                                                *)
Request == [uid : Uid, read : BOOLEAN]
requests(p, t, N, r) == {[uid |-> uidOf(p, t, n), read |-> r] : n \in N}

VARIABLES
  lockMap,      \* lockServer.lockMap for the resource, per node
  checks,       \* maintenance: entries still to be verified at their origin
  purge,        \* maintenance: entries found expired, not yet removed
  pc,           \* per goroutine: idle, wait (in lock()), backoff, held
  read,         \* isReadLock of its last call
  try,          \* how many times it has called lock()
  boot,         \* the calls that a crash of its process has ended
  locks,        \* servers whose grant the collector has recorded
  failed,       \* servers whose refusal or error it has counted
  writeLocks,   \* DRWMutex.writeLocks, per node: {g}, or {} when all empty
  readersLocks, \* DRWMutex.readersLocks, per node
  reqs,         \* lock RPCs on their way
  ch,           \* grants that reach the channel after lock() has returned
  rels,         \* release goroutines still trying
  forced,       \* servers a ForceUnlock is on its way to
  delays,       \* how many replies were slow or calls of lock() timed out
  fails,        \* how many lock requests never reached their server
  losses,       \* how many replies or releases were lost
  crashed,      \* the nodes that have crashed at least once
  forces        \* how many times ForceUnlock was called

maintenance == <<checks, purge>>
calls == <<read, try, boot>>
attempt == <<pc, locks, failed>>
dm == <<writeLocks, readersLocks>>
net == <<reqs, ch, rels, forced>>
faults == <<delays, fails, losses, crashed, forces>>
vars == <<lockMap, maintenance, calls, attempt, dm, net, faults>>

Init ==
  /\ lockMap = [n \in Node |-> {}]
  /\ checks = {} /\ purge = {}
  /\ pc = [p \in Proc |-> "idle"]
  /\ read = [p \in Proc |-> FALSE]
  /\ try = [p \in Proc |-> 0] /\ boot = [p \in Proc |-> 0]
  /\ locks = [p \in Proc |-> {}] /\ failed = [p \in Proc |-> {}]
  /\ writeLocks = [n \in Node |-> {}]
  /\ readersLocks = [n \in Node |-> <<>>]
  /\ reqs = {} /\ ch = {} /\ rels = {} /\ forced = {}
  /\ delays = 0 /\ fails = 0 /\ losses = 0 /\ crashed = {} /\ forces = 0

-----------------------------------------------------------------------------
(* The DRWMutex: acquiring.                                                *)

(* lock(): a first call, or the next round of lockBlocking after its       *)
(* back-off.  One request goes to every server.                            *)
LockBroadcast(p, r) ==
  /\ pc[p] = "idle" \/ (pc[p] = "backoff" /\ r = read[p])
  /\ r \in Kinds[p] /\ try[p] < MaxTry
  /\ pc' = [pc EXCEPT ![p] = "wait"]
  /\ read' = [read EXCEPT ![p] = r]
  /\ try' = [try EXCEPT ![p] = @ + 1]
  /\ reqs' = reqs \cup requests(p, try[p] + 1, Node, r)
  /\ UNCHANGED <<lockMap, maintenance, boot, locks, failed, dm, ch, rels, forced, faults>>

quorum(r) == IF r THEN dquorumReads ELSE dquorum

quorumMet(L, r) == Cardinality(L) >= quorum(r)

(* The end of lock() with the servers L recorded.  It succeeds when a      *)
(* quorum granted and the local server is one of them; the grants are then *)
(* stored in the DRWMutex.  Otherwise releaseAll gives back what was       *)
(* granted and lockBlocking backs off.                                     *)
Conclude(p, L) ==
  LET h == home[p]
      g == grantOf(p, try[p], L)
  IN /\ locks' = [locks EXCEPT ![p] = {}]
     /\ failed' = [failed EXCEPT ![p] = {}]
     /\ IF quorumMet(L, read[p]) /\ h \in L
          THEN /\ pc' = [pc EXCEPT ![p] = "held"]
               /\ IF read[p]
                    THEN /\ readersLocks' = [readersLocks EXCEPT ![h] = Append(@, g)]
                         /\ UNCHANGED writeLocks
                    ELSE /\ writeLocks' = [writeLocks EXCEPT ![h] = {g}]
                         /\ UNCHANGED readersLocks
               /\ UNCHANGED rels
          ELSE /\ pc' = [pc EXCEPT ![p] = "backoff"]
               /\ rels' = rels \cup requests(p, try[p], L, read[p])
               /\ UNCHANGED dm

(* The call of lock() that sent this uid is still collecting replies.      *)
collecting(u) == pc[u.proc] = "wait" /\ u.try = try[u.proc]

(* The collector takes a reply.  It stops when every server has answered   *)
(* or when too many have refused for a quorum to be possible.              *)
Collect(m, ok) ==
  LET p == m.uid.proc
      L == IF ok THEN locks[p] \cup {m.uid.node} ELSE locks[p]
      F == IF ok THEN failed[p] ELSE failed[p] \cup {m.uid.node}
  IN IF L \cup F = Node \/ Cardinality(F) > dnodeCount - quorum(read[p])
       THEN Conclude(p, L)
       ELSE /\ locks' = [locks EXCEPT ![p] = L]
            /\ failed' = [failed EXCEPT ![p] = F]
            /\ UNCHANGED <<pc, dm, rels>>

(* After lock() has returned, its collector releases a grant at once.      *)
(* Nobody does when the process has crashed since.                         *)
KeepLate(m, ok) == UNCHANGED <<rels, attempt, dm>>
ReleaseLate(m, ok) ==
  /\ rels' = IF ok /\ m.uid.try > boot[m.uid.proc] THEN rels \cup {m} ELSE rels
  /\ UNCHANGED <<attempt, dm>>

Answer(m, ok) ==
  IF collecting(m.uid) THEN Collect(m, ok) ELSE ReleaseLate(m, ok)

(* DRWMutexAcquireTimeout fires before every server has answered.          *)
AcquireTimeout(p) ==
  /\ pc[p] = "wait" /\ delays < MaxDelay
  /\ Conclude(p, locks[p])
  /\ delays' = delays + 1
  /\ UNCHANGED <<lockMap, maintenance, calls, reqs, ch, forced,
                 fails, losses, crashed, forces>>

LateReply(m) ==
  /\ ~collecting(m.uid)
  /\ ch' = ch \ {m}
  /\ ReleaseLate(m, TRUE)
  /\ UNCHANGED <<lockMap, maintenance, calls, reqs, forced, faults>>

-----------------------------------------------------------------------------
(* The DRWMutex: releasing.                                                *)

releasesOf(g, r) == requests(g.proc, g.try, g.nodes, r)

(* Unlock and RUnlock panic when the DRWMutex holds nothing: see NoPanic.  *)
DRWUnlock(p) ==
  LET h == home[p]
  IN /\ pc[p] = "held" /\ ~read[p]
     /\ writeLocks[h] # {}
     /\ writeLocks' = [writeLocks EXCEPT ![h] = {}]
     /\ rels' = rels \cup UNION {releasesOf(g, FALSE) : g \in writeLocks[h]}
     /\ pc' = [pc EXCEPT ![p] = "idle"]
     /\ UNCHANGED <<lockMap, maintenance, calls, locks, failed, readersLocks,
                    reqs, ch, forced, faults>>

(* RUnlock releases the oldest read grant of the DRWMutex, whichever       *)
(* goroutine acquired it.                                                  *)
dropAll(rl) == <<>>
dropOldest(rl) == Tail(rl)

DRWRUnlock(p) ==
  LET h == home[p]
  IN /\ pc[p] = "held" /\ read[p]
     /\ readersLocks[h] # <<>>
     /\ readersLocks' = [readersLocks EXCEPT ![h] = dropOldest(@)]
     /\ rels' = rels \cup releasesOf(Head(readersLocks[h]), TRUE)
     /\ pc' = [pc EXCEPT ![p] = "idle"]
     /\ UNCHANGED <<lockMap, maintenance, calls, locks, failed, writeLocks,
                    reqs, ch, forced, faults>>

(* nsLockMap.ForceUnlock calls it on a fresh DRWMutex, on the node that    *)
(* got the administrator's request, which need not be one that has the     *)
(* resource in its namespace: nothing but the broadcast has an effect.     *)
DRWForceUnlock ==
  /\ forces < MaxForce
  /\ forced' = Node
  /\ forces' = forces + 1
  /\ UNCHANGED <<lockMap, maintenance, calls, attempt, dm, reqs, ch, rels,
                 delays, fails, losses, crashed>>

-----------------------------------------------------------------------------
(* The lock servers.                                                       *)

granted(m) == LET lri == lockMap[m.uid.node]
              IN  IF m.read THEN RLockReply(lri) ELSE LockReply(lri)

served(m) == [lockMap EXCEPT ![m.uid.node] =
                IF m.read THEN RLock(@, m.uid) ELSE Lock(@, m.uid)]

(* The Lock or RLock handler runs and its answer is received.              *)
ServeLock(m) ==
  /\ lockMap' = served(m)
  /\ reqs' = reqs \ {m}
  /\ Answer(m, granted(m))
  /\ UNCHANGED <<maintenance, calls, ch, forced, faults>>

(* The handler runs, but its answer is slower than the call of lock().     *)
ServeLockSlow(m) ==
  /\ collecting(m.uid) /\ delays < MaxDelay
  /\ lockMap' = served(m)
  /\ reqs' = reqs \ {m}
  /\ ch' = IF granted(m) THEN ch \cup {m} ELSE ch
  /\ delays' = delays + 1
  /\ UNCHANGED <<maintenance, calls, attempt, dm, rels, forced,
                 fails, losses, crashed, forces>>

(* The handler grants the lock but the caller sees an error, which lock()  *)
(* treats as a refusal.                                                    *)
ServeLockReplyLost(m) ==
  /\ granted(m) /\ losses < MaxLoss
  /\ lockMap' = served(m)
  /\ reqs' = reqs \ {m}
  /\ Answer(m, FALSE)
  /\ losses' = losses + 1
  /\ UNCHANGED <<maintenance, calls, ch, forced, delays, fails, crashed, forces>>

(* The request never reaches the server (down, unreachable, not            *)
(* authenticated).                                                         *)
LockCallFails(m) ==
  /\ fails < MaxFail
  /\ reqs' = reqs \ {m}
  /\ Answer(m, FALSE)
  /\ fails' = fails + 1
  /\ UNCHANGED <<lockMap, maintenance, calls, ch, forced,
                 delays, losses, crashed, forces>>

releaseOk(m) == LET lri == lockMap[m.uid.node]
                IN  IF m.read THEN RUnlockOk(lri, m.uid) ELSE UnlockOk(lri, m.uid)

released(m) == [lockMap EXCEPT ![m.uid.node] =
                  IF m.read THEN RUnlock(@, m.uid) ELSE Unlock(@, m.uid)]

(* The Unlock or RUnlock handler succeeds and sendRelease returns.         *)
ServeRelease(m) ==
  /\ releaseOk(m)
  /\ lockMap' = released(m)
  /\ rels' = rels \ {m}
  /\ UNCHANGED <<maintenance, calls, attempt, dm, reqs, ch, forced, faults>>

(* It succeeds, but its reply is lost: sendRelease tries again.            *)
ServeReleaseReplyLost(m) ==
  /\ releaseOk(m) /\ losses < MaxLoss
  /\ lockMap' = released(m)
  /\ losses' = losses + 1
  /\ UNCHANGED <<maintenance, calls, attempt, dm, net, delays, fails, crashed, forces>>

(* sendRelease stops without success: the call timed out, which counts as  *)
(* done, or every attempt of backOffArray failed.  It is a loss only while *)
(* the entry is still there.                                               *)
ReleaseGivenUp(m) ==
  /\ rels' = rels \ {m}
  /\ IF releaseOk(m) THEN losses < MaxLoss /\ losses' = losses + 1
                     ELSE UNCHANGED losses
  /\ UNCHANGED <<lockMap, maintenance, calls, attempt, dm, reqs, ch, forced,
                 delays, fails, crashed, forces>>

ServeForceUnlock(n) ==
  /\ lockMap' = [lockMap EXCEPT ![n] = ForceUnlock(@)]
  /\ forced' = forced \ {n}
  /\ UNCHANGED <<maintenance, calls, attempt, dm, reqs, ch, rels, faults>>

(* It ran, but its reply is lost: it will run again, half a minute later.  *)
ServeForceUnlockReplyLost(n) ==
  /\ losses < MaxLoss
  /\ lockMap' = [lockMap EXCEPT ![n] = ForceUnlock(@)]
  /\ losses' = losses + 1
  /\ UNCHANGED <<maintenance, calls, attempt, dm, net, delays, fails, crashed, forces>>

ForceUnlockGivenUp(n) ==
  /\ losses < MaxLoss
  /\ forced' = forced \ {n}
  /\ losses' = losses + 1
  /\ UNCHANGED <<lockMap, maintenance, calls, attempt, dm, reqs, ch, rels,
                 delays, fails, crashed, forces>>

-----------------------------------------------------------------------------
(* Lock maintenance.                                                       *)

origin(u) == home[u.proc]

heldGrants(n) ==
  writeLocks[n] \cup {readersLocks[n][i] : i \in DOMAIN readersLocks[n]}

(* The uids that a goroutine holds, and those it still collects too.       *)
heldUid(u) == \E g \in heldGrants(origin(u)) :
                g.proc = u.proc /\ g.try = u.try /\ u.node \in g.nodes

inUse(u) == collecting(u) \/ heldUid(u)

(* getLongLivedLocks selects the entries whose timeLastCheck is at least   *)
(* lockValidityCheckInterval (2 minutes) old.  Which ones are is a matter  *)
(* of time: any entry may be, except that without LongHolds no lock in use *)
(* gets that old.                                                          *)
anyEntry(n) == uids(lockMap[n])
longLived(n) == {u \in uids(lockMap[n]) : LongHolds \/ ~inUse(u)}

LockMaintenance(n, old) ==
  /\ Maintain
  /\ \A u \in checks \cup purge : u.node # n
  /\ old # {} /\ old \subseteq longLived(n)
  /\ checks' = checks \cup old
  /\ UNCHANGED <<lockMap, purge, calls, attempt, dm, net, faults>>

(* The entries are verified one after the other: the next callback starts  *)
(* after the previous entry was dealt with.                                *)
nextCheck(u) == u \in checks /\ \A v \in purge : v.node # u.node

(* The origin of the lock answers whether the uid is in its own table.     *)
ExpiredCallback(u) ==
  /\ nextCheck(u)
  /\ checks' = checks \ {u}
  /\ purge' = IF Expired(lockMap[origin(u)], u) THEN purge \cup {u} ELSE purge
  /\ UNCHANGED <<lockMap, calls, attempt, dm, net, faults>>

(* The callback fails: its error is ignored, the entry is kept.            *)
CallbackFails(u) ==
  /\ nextCheck(u)
  /\ checks' = checks \ {u}
  /\ UNCHANGED <<lockMap, purge, calls, attempt, dm, net, faults>>

PurgeExpired(u) ==
  /\ u \in purge
  /\ lockMap' = [lockMap EXCEPT ![u.node] = removeEntryIfExists(@, u)]
  /\ purge' = purge \ {u}
  /\ UNCHANGED <<checks, calls, attempt, dm, net, faults>>

-----------------------------------------------------------------------------
(* A node crashes and restarts: its lock table, its DRWMutex, its          *)
(* maintenance and its release goroutines are gone, and so are the         *)
(* goroutines that called lock().  None of it is persisted.  Requests that *)
(* left before the crash can still be served.                              *)
Crash(h) ==
  LET gone == {p \in Proc : home[p] = h}
  IN /\ Cardinality(crashed \cup {h}) <= MaxCrash
     /\ crashed' = crashed \cup {h}
     /\ lockMap' = [lockMap EXCEPT ![h] = {}]
     /\ checks' = {u \in checks : u.node # h}
     /\ purge' = {u \in purge : u.node # h}
     /\ pc' = [p \in Proc |-> IF p \in gone THEN "idle" ELSE pc[p]]
     /\ boot' = [p \in Proc |-> IF p \in gone THEN try[p] ELSE boot[p]]
     /\ locks' = [p \in Proc |-> IF p \in gone THEN {} ELSE locks[p]]
     /\ failed' = [p \in Proc |-> IF p \in gone THEN {} ELSE failed[p]]
     /\ writeLocks' = [writeLocks EXCEPT ![h] = {}]
     /\ readersLocks' = [readersLocks EXCEPT ![h] = <<>>]
     /\ ch' = {m \in ch : m.uid.proc \notin gone}
     /\ rels' = {m \in rels : m.uid.proc \notin gone}
     /\ UNCHANGED <<read, try, reqs, forced, delays, fails, losses, forces>>

ServerStep ==
  \/ \E m \in reqs : \/ ServeLock(m) \/ ServeLockSlow(m)
                     \/ ServeLockReplyLost(m) \/ LockCallFails(m)
  \/ \E m \in rels : ServeRelease(m) \/ ServeReleaseReplyLost(m) \/ ReleaseGivenUp(m)
  \/ \E n \in forced : \/ ServeForceUnlock(n) \/ ServeForceUnlockReplyLost(n)
                       \/ ForceUnlockGivenUp(n)

MaintenanceStep ==
  \/ \E n \in Node : \E old \in SUBSET longLived(n) : LockMaintenance(n, old)
  \/ \E u \in checks : ExpiredCallback(u) \/ CallbackFails(u)
  \/ \E u \in purge : PurgeExpired(u)

ClientStep ==
  \/ \E p \in Proc : \/ \E r \in BOOLEAN : LockBroadcast(p, r)
                     \/ AcquireTimeout(p)
                     \/ DRWUnlock(p)
                     \/ DRWRUnlock(p)
  \/ \E m \in ch : LateReply(m)
  \/ DRWForceUnlock

Next == ServerStep \/ MaintenanceStep \/ ClientStep \/ \E n \in Node : Crash(n)

Spec == Init /\ [][Next]_vars

(* The goroutines of the servers keep running: every request and release   *)
(* on its way is eventually dealt with, late replies are drained, and the  *)
(* ticker of every node's maintenance loop keeps firing.  An entry that    *)
(* stays gets old enough, so sweeps that select all of them keep coming;   *)
(* a callback may fail many times, but not for ever (strong fairness).     *)
Fairness ==
  /\ WF_vars(\E m \in reqs : ServeLock(m))
  /\ WF_vars(\E m \in rels : ServeRelease(m) \/ ReleaseGivenUp(m))
  /\ WF_vars(\E m \in ch : LateReply(m))
  /\ \A n \in Node : SF_vars(LockMaintenance(n, longLived(n)))
  /\ \A p \in Proc, t \in 1..MaxTry, n \in Node :
       /\ SF_vars(ExpiredCallback(uidOf(p, t, n)))
       /\ WF_vars(PurgeExpired(uidOf(p, t, n)))

FairSpec == Spec /\ Fairness

-----------------------------------------------------------------------------
(* Properties.                                                             *)

(* Every variable keeps the shape of the data structure it models.         *)
TypeOK ==
  /\ lockMap \in [Node -> SUBSET [uid : Uid, writer : BOOLEAN]]
  /\ checks \in SUBSET Uid /\ purge \in SUBSET Uid
  /\ pc \in [Proc -> {"idle", "wait", "backoff", "held"}]
  /\ read \in [Proc -> BOOLEAN]
  /\ try \in [Proc -> Nat] /\ boot \in [Proc -> Nat]
  /\ locks \in [Proc -> SUBSET Node] /\ failed \in [Proc -> SUBSET Node]
  /\ writeLocks \in [Node -> SUBSET Grant]
  /\ readersLocks \in [Node -> Seq(Grant)]
  /\ reqs \in SUBSET Request /\ rels \in SUBSET Request /\ ch \in SUBSET Request
  /\ forced \in SUBSET Node
  /\ delays \in Nat /\ fails \in Nat /\ losses \in Nat /\ crashed \in SUBSET Node /\ forces \in Nat

holdsWrite(p) == pc[p] = "held" /\ ~read[p]
holdsRead(p) == pc[p] = "held" /\ read[p]

(* No two goroutines, on the same node or on different ones, are past      *)
(* Lock() and before Unlock() at the same time, unless an administrator    *)
(* has forced the lock.                                                    *)
WriterExclusion ==
  forces = 0 => \A p, q \in Proc : holdsWrite(p) /\ holdsWrite(q) => p = q

(* No goroutine is past RLock() while another one is past Lock().          *)
ReadWriteExclusion == \A p, q \in Proc : ~(holdsWrite(p) /\ holdsRead(q))

(* The panics of Unlock() and RUnlock() are unreachable for a goroutine    *)
(* that acquired the lock, although the DRWMutex is shared by the          *)
(* goroutines of its node and RUnlock releases the oldest grant, not the   *)
(* caller's.                                                               *)
NoPanic == \A p \in Proc : /\ holdsWrite(p) => writeLocks[home[p]] # {}
                           /\ holdsRead(p) => readersLocks[home[p]] # <<>>

(* Every entry in a lock table has someone who will remove it: the caller  *)
(* is still collecting or holding it, its grant is in a channel, or its    *)
(* release is on the way.  Entries are left behind only by a lost reply,   *)
(* a lost release or a crash.                                              *)
NoLeak ==
  losses = 0 /\ crashed = {} =>
    \A n \in Node : \A u \in uids(lockMap[n]) :
      \/ inUse(u)
      \/ \E m \in ch \cup rels : m.uid = u

(* Lock maintenance acts on what it read earlier: the entry it is about to *)
(* purge was selected, and its origin asked, some time ago.  As long as no *)
(* lock is held past lockValidityCheckInterval it never purges one in use. *)
PurgeOnlyUnused == ~LongHolds => \A u \in checks \cup purge : ~inUse(u)

(* An entry nobody uses any more does not stay: it is released, or lock    *)
(* maintenance finds out at the node that asked for it and purges it.      *)
(* Not so in that node's own table, where Expired finds the entry itself.  *)
stale(u) == u \in uids(lockMap[u.node]) /\ ~inUse(u)

StalePurged ==
  \A p \in Proc, t \in 1..MaxTry, n \in Node :
    n # home[p] => (stale(uidOf(p, t, n)) ~> ~stale(uidOf(p, t, n)))

(* The detailed lock implements the abstract one.                          *)
Abstract == INSTANCE RWLock
              WITH writers <- {p \in Proc : holdsWrite(p)},
                   readers <- {p \in Proc : holdsRead(p)}
ImplementsRWLock == Abstract!Spec
=============================================================================
