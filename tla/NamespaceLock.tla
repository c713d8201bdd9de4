--------------------------- MODULE NamespaceLock ---------------------------
(***************************************************************************)
(* The namespace lock of one server (cmd/namespace-lock.go) over the       *)
(* RWMutex of package sync, with the lock instrumentation of               *)
(* cmd/lock-instrument.go and cmd/lock-stat.go.                            *)
(*                                                                         *)
(* nsLockMap gives every resource a mutex of its own for as long as        *)
(* somebody refers to it.  A goroutine looks the mutex up under            *)
(* lockMapMutex, waits for it without, and looks it up again to unlock;    *)
(* ForceUnlock drops it from the map in between.  Each action is one       *)
(* critical section of lockMapMutex, or the wait for the mutex.            *)
(***************************************************************************)
EXTENDS Integers, FiniteSets

CONSTANTS
  Proc,       \* the goroutines; each is also the opsID of its operation
  Param,      \* nsParam: the resources <volume, path>
  Mutex,      \* the RWMutexes
  NoMutex,    \* no entry in lockMap
  MaxForce    \* bound: calls of ForceUnlock

ASSUME NSAssumption == /\ IsFiniteSet(Proc) /\ NoMutex \notin Mutex
                       /\ MaxForce \in Nat

VARIABLES
  lockMap,    \* per resource: the mutex of its nsLock, or NoMutex
  ref,        \* per resource: nsLock.ref
  writer,     \* the mutexes a writer has locked or announced itself at
  readers,    \* per mutex: how many read locks it has
  pc,         \* per goroutine: idle, blocked, announced, acquired, held
  param,      \* per goroutine: the resource of its operation
  mine,       \* per goroutine: the mutex it waits for or got
  read,       \* per goroutine: whether it locks for reading
  debug,      \* per resource: whether debugLockMap has an entry
  info,       \* per resource and opsID: the status in lockInfo, or "none"
  counters,   \* the lockStat of nsLockMap
  paramCounters,  \* per resource: the lockStat of its debugLockMap entry
  forces,     \* ForceUnlock calls so far
  forcedOut   \* the goroutines whose mutex a ForceUnlock dropped

nsmap == <<lockMap, ref>>
mutexes == <<writer, readers>>
op == <<param, mine, read>>
stats == <<debug, info, counters, paramCounters>>
force == <<forces, forcedOut>>
vars == <<nsmap, mutexes, pc, op, stats, force>>

-----------------------------------------------------------------------------
(* lockStat.                                                               *)
lockStat == [total : Int, blocked : Int, granted : Int]
zeroStat == [total |-> 0, blocked |-> 0, granted |-> 0]

lockWaiting(ls) ==
  [total |-> ls.total + 1, blocked |-> ls.blocked + 1, granted |-> ls.granted]
lockGranted(ls) ==
  [total |-> ls.total, blocked |-> ls.blocked - 1, granted |-> ls.granted + 1]

lockRemoved(ls, running, blocked) ==
  [total |-> ls.total - running - blocked,
   blocked |-> ls.blocked - blocked, granted |-> ls.granted - running]

withStatus(x, O, s) == Cardinality({o \in O : info[x][o] = s})

-----------------------------------------------------------------------------
Init ==
  /\ lockMap = [x \in Param |-> NoMutex] /\ ref = [x \in Param |-> 0]
  /\ writer = {} /\ readers = [m \in Mutex |-> 0]
  /\ pc = [p \in Proc |-> "idle"]
  /\ param \in [Proc -> Param] /\ mine = [p \in Proc |-> NoMutex]
  /\ read = [p \in Proc |-> FALSE]
  /\ debug = [x \in Param |-> FALSE]
  /\ info = [x \in Param |-> [o \in Proc |-> "none"]]
  /\ counters = zeroStat /\ paramCounters = [x \in Param |-> zeroStat]
  /\ forces = 0 /\ forcedOut = {}

(* A mutex nothing refers to: newly allocated, or collected garbage.       *)
unreferenced(m) ==
  /\ \A x \in Param : lockMap[x] # m
  /\ \A p \in Proc : pc[p] # "idle" => mine[p] # m

(* The first half of lock(): find or make the nsLock, count the reference, *)
(* record the operation as blocked.                                        *)
lockBegin(p, x, m, r) ==
  /\ pc[p] = "idle"
  /\ IF lockMap[x] = NoMutex THEN unreferenced(m) ELSE m = lockMap[x]
  /\ lockMap' = [lockMap EXCEPT ![x] = m]
  /\ ref' = [ref EXCEPT ![x] = IF lockMap[x] = NoMutex THEN 1 ELSE @ + 1]
  /\ IF lockMap[x] = NoMutex
       THEN writer' = writer \ {m} /\ readers' = [readers EXCEPT ![m] = 0]
       ELSE UNCHANGED mutexes
  /\ pc' = [pc EXCEPT ![p] = "blocked"]
  /\ param' = [param EXCEPT ![p] = x] /\ mine' = [mine EXCEPT ![p] = m]
  /\ read' = [read EXCEPT ![p] = r]
  /\ debug' = [debug EXCEPT ![x] = TRUE]
  /\ info' = [info EXCEPT ![x][p] = "Blocked"]
  /\ counters' = lockWaiting(counters)
  /\ paramCounters' = [paramCounters EXCEPT ![x] =
                         lockWaiting(IF debug[x] THEN @ ELSE zeroStat)]
  /\ UNCHANGED force

(* RWMutex.  Lock announces itself, which keeps other writers and new      *)
(* readers out, and returns when the readers that are left have gone.      *)
writerAnnounce(p) ==
  /\ pc[p] = "blocked" /\ ~read[p] /\ mine[p] \notin writer
  /\ writer' = writer \cup {mine[p]}
  /\ pc' = [pc EXCEPT ![p] = "announced"]
  /\ UNCHANGED <<nsmap, readers, op, stats, force>>

writerAcquire(p) ==
  /\ pc[p] = "announced" /\ readers[mine[p]] = 0
  /\ pc' = [pc EXCEPT ![p] = "acquired"]
  /\ UNCHANGED <<nsmap, mutexes, op, stats, force>>

readerAcquire(p) ==
  /\ pc[p] = "blocked" /\ read[p] /\ mine[p] \notin writer
  /\ readers' = [readers EXCEPT ![mine[p]] = @ + 1]
  /\ pc' = [pc EXCEPT ![p] = "acquired"]
  /\ UNCHANGED <<nsmap, writer, op, stats, force>>

(* The second half of lock().  Its errors are logged and ignored.          *)
statusBlockedToRunning(p) ==
  LET x == param[p]
  IN /\ pc[p] = "acquired"
     /\ pc' = [pc EXCEPT ![p] = "held"]
     /\ IF debug[x] /\ info[x][p] = "Blocked"
          THEN /\ info' = [info EXCEPT ![x][p] = "Running"]
               /\ counters' = lockGranted(counters)
               /\ paramCounters' = [paramCounters EXCEPT ![x] = lockGranted(@)]
          ELSE UNCHANGED <<info, counters, paramCounters>>
     /\ UNCHANGED <<nsmap, mutexes, op, debug, force>>

(* RWMutex.RUnlock and RWMutex.Unlock of mutex m.  They are fatal to the   *)
(* process when it is not locked that way: see NoFatal.                    *)
isLocked(m, r) == IF r THEN readers[m] > 0 ELSE m \in writer

mutexReleaseNone(m, r) == UNCHANGED mutexes
mutexRelease(m, r) ==
  IF r THEN readers' = [readers EXCEPT ![m] = @ - 1] /\ UNCHANGED writer
       ELSE writer' = writer \ {m} /\ UNCHANGED readers

(* deleteLockInfoEntryForOps of one operation, and when the last reference *)
(* goes deleteLockInfoEntryForVolumePath of all that are left.             *)
deleteLockInfo(x, gone, last) ==
  LET running == withStatus(x, gone, "Running")
      blocked == withStatus(x, gone, "Blocked")
  IN IF debug[x]
       THEN /\ info' = [info EXCEPT ![x] =
                          [o \in Proc |-> IF o \in gone THEN "none" ELSE @[o]]]
            /\ counters' = lockRemoved(counters, running, blocked)
            /\ paramCounters' = [paramCounters EXCEPT ![x] =
                                   lockRemoved(@, running, blocked)]
            /\ debug' = [debug EXCEPT ![x] = ~last]
       ELSE UNCHANGED stats

(* unlock(): releases whatever mutex the resource has now.  When it has    *)
(* none, nothing happens at all.                                           *)
lastReferenceEarly(x) == ref[x] <= 2
lastReference(x) == ref[x] <= 1

unlock(p) ==
  LET x == param[p]
  IN /\ pc[p] = "held"
     /\ pc' = [pc EXCEPT ![p] = "idle"]
     /\ forcedOut' = forcedOut \ {p}
     /\ IF lockMap[x] = NoMutex
          THEN UNCHANGED <<nsmap, mutexes, stats>>
          ELSE /\ isLocked(lockMap[x], read[p])
               /\ mutexRelease(lockMap[x], read[p])
               /\ deleteLockInfo(x, IF lastReference(x) THEN Proc ELSE {p}, lastReference(x))
               /\ ref' = [ref EXCEPT ![x] = @ - 1]
               /\ lockMap' = [lockMap EXCEPT ![x] =
                                IF lastReference(x) THEN NoMutex ELSE @]
     /\ UNCHANGED <<op, forces>>

(* ForceUnlock on a server that is not part of a distributed setup.        *)
ForceUnlock(x) ==
  /\ forces < MaxForce
  /\ forces' = forces + 1
  /\ IF lockMap[x] = NoMutex
       THEN UNCHANGED <<lockMap, stats, forcedOut>>
       ELSE /\ lockMap' = [lockMap EXCEPT ![x] = NoMutex]
            /\ deleteLockInfo(x, Proc, TRUE)
            /\ forcedOut' = forcedOut \cup
                 {p \in Proc : pc[p] # "idle" /\ mine[p] = lockMap[x]}
  /\ UNCHANGED <<ref, mutexes, pc, op>>

Next ==
  \/ \E p \in Proc, x \in Param, m \in Mutex, r \in BOOLEAN : lockBegin(p, x, m, r)
  \/ \E p \in Proc : \/ writerAnnounce(p) \/ writerAcquire(p) \/ readerAcquire(p)
                     \/ statusBlockedToRunning(p) \/ unlock(p)
  \/ \E x \in Param : ForceUnlock(x)

Spec == Init /\ [][Next]_vars

(* Goroutines keep running, operations end, and a mutex that keeps         *)
(* becoming free is eventually granted to each of its waiters.             *)
Fairness == \A p \in Proc : /\ SF_vars(writerAnnounce(p)) /\ SF_vars(readerAcquire(p))
                            /\ WF_vars(writerAcquire(p))
                            /\ WF_vars(statusBlockedToRunning(p))
                            /\ WF_vars(unlock(p))

FairSpec == Spec /\ Fairness

-----------------------------------------------------------------------------
(* Properties.                                                             *)

(* Every variable keeps the shape of the data structure it models.         *)
TypeOK ==
  /\ lockMap \in [Param -> Mutex \cup {NoMutex}] /\ ref \in [Param -> Nat]
  /\ writer \in SUBSET Mutex /\ readers \in [Mutex -> Nat]
  /\ pc \in [Proc -> {"idle", "blocked", "announced", "acquired", "held"}]
  /\ param \in [Proc -> Param] /\ mine \in [Proc -> Mutex \cup {NoMutex}]
  /\ read \in [Proc -> BOOLEAN]
  /\ debug \in [Param -> BOOLEAN]
  /\ info \in [Param -> [Proc -> {"none", "Blocked", "Running"}]]
  /\ counters \in lockStat /\ paramCounters \in [Param -> lockStat]
  /\ forces \in Nat /\ forcedOut \in SUBSET Proc

inside(p) == pc[p] \in {"acquired", "held"}

excludes(P) ==
  \A p, q \in P :
    inside(p) /\ inside(q) /\ param[p] = param[q] /\ p # q => read[p] /\ read[q]

(* Operations on the same resource exclude each other unless both read,    *)
(* although each looks the mutex up, waits for it and looks it up again in *)
(* separate critical sections of lockMapMutex.                             *)
Exclusion == forces = 0 => excludes(Proc)

(* After a ForceUnlock the operations it did not give up on, those that    *)
(* came to the resource's new mutex among them, still exclude each other.  *)
ExclusionAfterForce == excludes(Proc \ forcedOut)

(* Without ForceUnlock the map keeps a mutex exactly as long as somebody   *)
(* refers to it, and everybody who does has that one.                      *)
users(x) == {p \in Proc : pc[p] # "idle" /\ param[p] = x}

Referenced ==
  forces = 0 => \A x \in Param :
    /\ IF lockMap[x] = NoMutex THEN users(x) = {} ELSE ref[x] = Cardinality(users(x))
    /\ \A p \in users(x) : mine[p] = lockMap[x]

(* Without ForceUnlock nobody unlocks a mutex that is not locked, which    *)
(* would end the process.                                                  *)
NoFatal ==
  forces = 0 => \A p \in Proc : pc[p] = "held" =>
    lockMap[param[p]] # NoMutex /\ isLocked(lockMap[param[p]], read[p])

(* The lock statistics that the admin API reports agree with the           *)
(* operations on record, per resource and in total, whatever was forced.   *)
counted(x) == [total |-> withStatus(x, Proc, "Running") + withStatus(x, Proc, "Blocked"),
               blocked |-> withStatus(x, Proc, "Blocked"),
               granted |-> withStatus(x, Proc, "Running")]

allWith(s) == Cardinality({e \in Param \X Proc : info[e[1]][e[2]] = s})

StatsExact ==
  /\ counters = [total |-> allWith("Running") + allWith("Blocked"),
                 blocked |-> allWith("Blocked"), granted |-> allWith("Running")]
  /\ \A x \in Param : /\ debug[x] <=> lockMap[x] # NoMutex
                      /\ debug[x] => paramCounters[x] = counted(x)
                      /\ ~debug[x] => counted(x) = zeroStat

(* Whoever waits for a resource is eventually let in; a ForceUnlock drops  *)
(* the mutex its waiters wait for, and they may wait for ever.             *)
waiting(p) == pc[p] \in {"blocked", "announced"}

StopsWaiting == \A p \in Proc : waiting(p) ~> ~waiting(p) \/ forces > 0
=============================================================================
