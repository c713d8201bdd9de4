------------------------ MODULE NamespaceLock_proofs ------------------------
(***************************************************************************)
(* Without ForceUnlock the namespace lock is a reader-writer lock per      *)
(* resource, for any number of resources and goroutines.  The argument:    *)
(* the map has one mutex per resource (MapInv), counted references keep it *)
(* there as long as it is used (RefInv), and whoever is inside has left    *)
(* its mark on that mutex (MutexInv).                                      *)
(***************************************************************************)
EXTENDS NamespaceLock, FiniteSetTheorems, TLAPS

owns(p) == pc[p] \in {"announced", "acquired", "held"} /\ ~read[p]
readersAt(m) == {p \in Proc : inside(p) /\ read[p] /\ mine[p] = m}

MapInv ==
  /\ \A x, y \in Param : lockMap[x] = lockMap[y] /\ lockMap[x] # NoMutex => x = y
  /\ \A p \in Proc : pc[p] # "idle" => mine[p] \in Mutex /\ lockMap[param[p]] = mine[p]

RefInv == \A x \in Param : lockMap[x] # NoMutex => ref[x] = Cardinality(users(x))

MutexInv ==
  /\ \A p \in Proc : pc[p] = "announced" => ~read[p]
  /\ \A p \in Proc : owns(p) => mine[p] \in writer
  /\ \A p, q \in Proc : owns(p) /\ owns(q) /\ mine[p] = mine[q] => p = q
  /\ \A p \in Proc : owns(p) /\ inside(p) => readers[mine[p]] = 0
  /\ \A m \in Mutex : readers[m] = Cardinality(readersAt(m))

NSInv == TypeOK /\ MapInv /\ RefInv /\ MutexInv /\ forces = 0 /\ forcedOut = {}

-----------------------------------------------------------------------------
LEMMA Counts ==
  ASSUME NEW O \in SUBSET Proc, NEW x, NEW s
  PROVE  withStatus(x, O, s) \in Nat
<1>1. IsFiniteSet({o \in O : info[x][o] = s})
  BY NSAssumption, FS_Subset
<1> QED  BY <1>1, FS_CardinalityType DEF withStatus

LEMMA FiniteUsers ==
  /\ \A x : IsFiniteSet(users(x)) /\ Cardinality(users(x)) \in Nat
  /\ \A m : IsFiniteSet(readersAt(m)) /\ Cardinality(readersAt(m)) \in Nat
<1>1. \A x : users(x) \in SUBSET Proc
  BY DEF users
<1>2. \A m : readersAt(m) \in SUBSET Proc
  BY DEF readersAt
<1> QED  BY <1>1, <1>2, NSAssumption, FS_Subset, FS_CardinalityType

LEMMA DeleteType ==
  ASSUME TypeOK, NEW x \in Param, NEW gone \in SUBSET Proc, NEW last \in BOOLEAN,
         deleteLockInfo(x, gone, last)
  PROVE  /\ debug' \in [Param -> BOOLEAN]
         /\ info' \in [Param -> [Proc -> {"none", "Blocked", "Running"}]]
         /\ counters' \in lockStat /\ paramCounters' \in [Param -> lockStat]
<1>1. CASE ~debug[x]
  BY <1>1 DEF deleteLockInfo, stats, TypeOK
<1>2. CASE debug[x]
  <2> DEFINE r == withStatus(x, gone, "Running")
             b == withStatus(x, gone, "Blocked")
             N == [o \in Proc |-> IF o \in gone THEN "none" ELSE info[x][o]]
  <2>1. /\ info' = [info EXCEPT ![x] = N]
        /\ counters' = lockRemoved(counters, r, b)
        /\ paramCounters' = [paramCounters EXCEPT ![x] = lockRemoved(paramCounters[x], r, b)]
        /\ debug' = [debug EXCEPT ![x] = ~last]
    BY <1>2 DEF deleteLockInfo, TypeOK
  <2>2. \A ls \in lockStat : lockRemoved(ls, r, b) \in lockStat
    BY Counts DEF lockRemoved, lockStat
  <2>3. N \in [Proc -> {"none", "Blocked", "Running"}]
    BY DEF TypeOK
  <2> HIDE DEF N, r, b
  <2> QED  BY <2>1, <2>2, <2>3 DEF TypeOK
<1> QED  BY <1>1, <1>2

LEMMA InitNS == Init => NSInv
<1> SUFFICES ASSUME Init PROVE NSInv
  OBVIOUS
<1>1. TypeOK
  BY DEF Init, TypeOK, zeroStat, lockStat
<1>2. MapInv /\ RefInv /\ forces = 0 /\ forcedOut = {}
  BY DEF Init, MapInv, RefInv
<1>3. MutexInv
  <2>1. \A m \in Mutex : readersAt(m) = {}
    BY DEF Init, readersAt, inside
  <2> QED  BY <2>1, FS_EmptySet, Zenon DEF Init, MutexInv, owns
<1> QED  BY <1>1, <1>2, <1>3 DEF NSInv

-----------------------------------------------------------------------------
(* lock(), first half: a new user of the resource and of its mutex.        *)
LEMMA BeginInv ==
  ASSUME NSInv, NEW p \in Proc, NEW x \in Param, NEW m \in Mutex, NEW r \in BOOLEAN,
         lockBegin(p, x, m, r)
  PROVE  NSInv'
<1> USE DEF NSInv
<1>1. /\ pc[p] = "idle" /\ pc' = [pc EXCEPT ![p] = "blocked"]
      /\ lockMap' = [lockMap EXCEPT ![x] = m]
      /\ param' = [param EXCEPT ![p] = x] /\ mine' = [mine EXCEPT ![p] = m]
      /\ read' = [read EXCEPT ![p] = r]
      /\ lockMap[x] # NoMutex => m = lockMap[x] /\ UNCHANGED mutexes
      /\ lockMap[x] = NoMutex => /\ unreferenced(m) /\ writer' = writer \ {m}
                                 /\ readers' = [readers EXCEPT ![m] = 0]
      /\ ref' = [ref EXCEPT ![x] = IF lockMap[x] = NoMutex THEN 1 ELSE ref[x] + 1]
      /\ forces' = 0 /\ forcedOut' = {}
  BY DEF lockBegin, force, TypeOK
<1>2. TypeOK'
  <2>1. \A ls \in lockStat : lockWaiting(ls) \in lockStat
    BY DEF lockWaiting, lockStat
  <2>2. counters' \in lockStat /\ paramCounters' \in [Param -> lockStat]
    BY <2>1 DEF lockBegin, TypeOK, zeroStat, lockStat
  <2>3. /\ debug' \in [Param -> BOOLEAN]
        /\ info' \in [Param -> [Proc -> {"none", "Blocked", "Running"}]]
    BY DEF lockBegin, TypeOK
  <2>4. writer' \in SUBSET Mutex /\ readers' \in [Mutex -> Nat]
    BY <1>1, Zenon DEF mutexes, TypeOK
  <2>5. ref' \in [Param -> Nat]
    BY <1>1 DEF TypeOK
  <2>6. /\ lockMap' \in [Param -> Mutex \cup {NoMutex}] /\ mine' \in [Proc -> Mutex \cup {NoMutex}]
        /\ pc' \in [Proc -> {"idle", "blocked", "announced", "acquired", "held"}]
        /\ param' \in [Proc -> Param] /\ read' \in [Proc -> BOOLEAN]
    BY <1>1 DEF TypeOK
  <2> QED  BY <1>1, <2>2, <2>3, <2>4, <2>5, <2>6 DEF TypeOK
<1>3. MapInv'
  BY <1>1, NSAssumption DEF MapInv, TypeOK, unreferenced
<1>4. \A y \in Param : users(y)' = IF y = x THEN users(y) \cup {p} ELSE users(y)
  BY <1>1 DEF users, TypeOK
<1>5. RefInv'
  <2> SUFFICES ASSUME NEW y \in Param, lockMap'[y] # NoMutex
               PROVE  ref'[y] = Cardinality(users(y)')
    BY DEF RefInv
  <2>1. CASE y # x
    BY <1>1, <1>4, <2>1 DEF RefInv, TypeOK
  <2>2. CASE y = x /\ lockMap[x] = NoMutex
    <3>1. users(x) = {}
      BY <2>2, NSAssumption DEF MapInv, users
    <3>2. users(x)' = {p}
      BY <1>4, <3>1
    <3> QED  BY <1>1, <2>2, <3>2, FS_Singleton, Zenon DEF TypeOK
  <2>3. CASE y = x /\ lockMap[x] # NoMutex
    <3>1. p \notin users(x)
      BY <1>1 DEF users
    <3>2. Cardinality(users(x) \cup {p}) = Cardinality(users(x)) + 1
      BY <3>1, FiniteUsers, FS_AddElement, Zenon
    <3> QED  BY <1>1, <1>4, <2>3, <3>2, Zenon DEF RefInv, TypeOK
  <2> QED  BY <2>1, <2>2, <2>3
<1>6. \A q \in Proc : /\ owns(q)' <=> owns(q) /\ q # p
                      /\ inside(q)' <=> inside(q) /\ q # p
                      /\ owns(q) => q # p
                      /\ q # p => mine'[q] = mine[q] /\ pc'[q] = pc[q]
  BY <1>1 DEF owns, inside, TypeOK
<1>7. \A k \in Mutex : readersAt(k)' = readersAt(k)
  BY <1>1, <1>6 DEF readersAt, inside, TypeOK
<1>8. MutexInv'
  <2>1. CASE lockMap[x] # NoMutex
    BY <1>1, <1>6, <1>7, <2>1 DEF MutexInv, mutexes
  <2>2. CASE lockMap[x] = NoMutex
    <3>1. readersAt(m) = {}
      BY <1>1, <2>2 DEF readersAt, unreferenced, inside
    <3>2. \A q \in Proc : owns(q) => mine[q] # m /\ mine[q] \in Mutex
      BY <1>1, <2>2 DEF unreferenced, owns, MapInv
    <3>3. readers'[m] = 0 /\ \A k \in Mutex : k # m => readers'[k] = readers[k]
      BY <1>1, <2>2 DEF TypeOK
    <3>4. Cardinality(readersAt(m)') = 0
      BY <1>7, <3>1, FS_EmptySet
    <3> QED  BY <1>1, <1>6, <1>7, <2>2, <3>2, <3>3, <3>4 DEF MutexInv
  <2> QED  BY <2>1, <2>2
<1> QED  BY <1>1, <1>2, <1>3, <1>5, <1>8

(* What leaves map, references and operations alone, and moves one         *)
(* goroutine on that is not idle before or after.                          *)
LEMMA MoveInv ==
  ASSUME NSInv, NEW p \in Proc, pc[p] # "idle", pc'[p] # "idle",
         \A q \in Proc : q # p => pc'[q] = pc[q], UNCHANGED <<nsmap, op>>
  PROVE  MapInv' /\ RefInv'
<1>1. UNCHANGED <<lockMap, ref, param, mine>>
  BY DEF nsmap, op
<1>2. \A x \in Param : users(x)' = users(x)
  BY <1>1 DEF users
<1> QED  BY <1>1, <1>2 DEF NSInv, MapInv, RefInv

(* The waits for the mutex and the change of status.                       *)
LEMMA WaitInv ==
  ASSUME NSInv, NEW p \in Proc,
         \/ writerAnnounce(p) \/ writerAcquire(p) \/ readerAcquire(p)
         \/ statusBlockedToRunning(p)
  PROVE  NSInv'
<1> USE DEF NSInv
<1>1. /\ pc[p] # "idle" /\ pc'[p] # "idle"
      /\ \A q \in Proc : q # p => pc'[q] = pc[q]
      /\ pc' \in [Proc -> {"idle", "blocked", "announced", "acquired", "held"}]
      /\ UNCHANGED <<nsmap, op, force, lockMap, ref, param, mine, read, forces, forcedOut>>
      /\ mine[p] \in Mutex
  BY Zenon DEF writerAnnounce, writerAcquire, readerAcquire, statusBlockedToRunning, TypeOK,
         MapInv, nsmap, op, force
<1>2. MapInv' /\ RefInv'
  BY <1>1, MoveInv
<1>3. CASE writerAnnounce(p)
  <2>1. TypeOK'
    BY <1>1, <1>3 DEF writerAnnounce, stats, TypeOK
  <2>2. \A k : readersAt(k)' = readersAt(k)
    BY <1>1, <1>3 DEF writerAnnounce, readersAt, inside, TypeOK
  <2>3. MutexInv'
    BY <1>1, <1>3, <2>2 DEF writerAnnounce, MutexInv, owns, inside, TypeOK
  <2> QED  BY <1>1, <1>2, <2>1, <2>3
<1>4. CASE writerAcquire(p)
  <2>1. TypeOK' /\ pc[p] = "announced" /\ UNCHANGED <<writer, readers>>
    BY <1>1, <1>4 DEF writerAcquire, stats, mutexes, TypeOK
  <2>2. CASE ~read[p]
    <3>1. \A k : readersAt(k)' = readersAt(k)
      BY <1>1, <2>1, <2>2 DEF readersAt, inside
    <3> QED  BY <1>1, <1>2, <1>4, <2>1, <2>2, <3>1 DEF writerAcquire, MutexInv, owns, inside, TypeOK
  <2>3. CASE read[p]
    BY <2>1, <2>3, Zenon DEF MutexInv
  <2> QED  BY <2>2, <2>3
<1>5. CASE readerAcquire(p)
  <2>1. TypeOK' /\ UNCHANGED writer /\ read[p] /\ mine[p] \notin writer
        /\ pc[p] = "blocked" /\ pc'[p] = "acquired"
    BY <1>1, <1>5 DEF readerAcquire, stats, TypeOK
  <2>2. \A q \in Proc : /\ owns(q)' <=> owns(q)
                        /\ owns(q) => mine[q] # mine[p] /\ q # p
    BY <1>1, <2>1 DEF owns, MutexInv
  <2>3. \A k \in Mutex : readersAt(k)' = IF k = mine[p] THEN readersAt(k) \cup {p} ELSE readersAt(k)
    BY <1>1, <2>1 DEF readersAt, inside
  <2>4. Cardinality(readersAt(mine[p])') = Cardinality(readersAt(mine[p])) + 1
    <3>1. p \notin readersAt(mine[p])
      BY <2>1 DEF readersAt, inside
    <3> QED  BY <1>1, <2>3, <3>1, FiniteUsers, FS_AddElement
  <2>5. /\ readers'[mine[p]] = readers[mine[p]] + 1
        /\ \A k \in Mutex : k # mine[p] => readers'[k] = readers[k]
    BY <1>1, <1>5 DEF readerAcquire, TypeOK
  <2>6. \A k \in Mutex : readers'[k] = Cardinality(readersAt(k)')
    BY <1>1, <2>3, <2>4, <2>5 DEF MutexInv
  <2>7. \A q \in Proc : owns(q) => mine[q] \in Mutex
    BY DEF owns, MapInv
  <2>8. MutexInv'
    BY <1>1, <2>1, <2>2, <2>5, <2>6, <2>7 DEF MutexInv, inside
  <2> QED  BY <1>1, <1>2, <2>1, <2>8
<1>6. CASE statusBlockedToRunning(p)
  <2>1. pc[p] = "acquired" /\ pc'[p] = "held" /\ UNCHANGED <<writer, readers>>
    BY <1>1, <1>6 DEF statusBlockedToRunning, mutexes, TypeOK
  <2>2. \A ls \in lockStat : lockGranted(ls) \in lockStat
    BY DEF lockGranted, lockStat
  <2>3. TypeOK'
    <3>1. param[p] \in Param
      BY DEF TypeOK
    <3>2. info' \in [Param -> [Proc -> {"none", "Blocked", "Running"}]] /\ UNCHANGED debug
      BY <1>6, <3>1 DEF statusBlockedToRunning, TypeOK
    <3>3. counters' \in lockStat /\ paramCounters' \in [Param -> lockStat]
      BY <1>6, <2>2, <3>1 DEF statusBlockedToRunning, TypeOK
    <3> QED  BY <1>1, <2>1, <3>2, <3>3 DEF TypeOK
  <2>4. \A q \in Proc : (owns(q)' <=> owns(q)) /\ (inside(q)' <=> inside(q))
    BY <1>1, <2>1 DEF owns, inside
  <2>5. \A k : readersAt(k)' = readersAt(k)
    BY <1>1, <2>4 DEF readersAt
  <2> QED  BY <1>1, <1>2, <2>1, <2>3, <2>4, <2>5 DEF MutexInv
<1> QED  BY <1>3, <1>4, <1>5, <1>6

(* unlock(): the mutex of the resource is the one the operation locked,    *)
(* and it leaves the map only with its last user.                          *)
LEMMA UnlockNS ==
  ASSUME NSInv, NEW p \in Proc, unlock(p)
  PROVE  NSInv'
<1> USE DEF NSInv
<1>0. PICK x \in Param, m \in Mutex : x = param[p] /\ m = mine[p]
  BY DEF unlock, TypeOK, MapInv
<1>1. /\ pc[p] = "held" /\ x \in Param /\ m \in Mutex /\ lockMap[x] = m /\ m # NoMutex
      /\ p \in users(x) /\ ref[x] = Cardinality(users(x)) /\ ref[x] \in Nat
  BY <1>0, NSAssumption, Zenon DEF unlock, TypeOK, MapInv, RefInv, users
<1>2. /\ mutexRelease(m, read[p])
      /\ deleteLockInfo(x, IF lastReference(x) THEN Proc ELSE {p}, lastReference(x))
      /\ ref' = [ref EXCEPT ![x] = ref[x] - 1]
      /\ lockMap' = [lockMap EXCEPT ![x] = IF lastReference(x) THEN NoMutex ELSE m]
      /\ UNCHANGED <<param, mine, read, forces>> /\ forcedOut' = {}
      /\ pc' \in [Proc -> {"idle", "blocked", "announced", "acquired", "held"}]
      /\ pc'[p] = "idle" /\ \A q \in Proc : q # p => pc'[q] = pc[q]
  BY <1>0, <1>1 DEF unlock, op, TypeOK
<1>3. \A y \in Param : users(y)' = IF y = x THEN users(y) \ {p} ELSE users(y)
  BY <1>0, <1>2 DEF users
<1>4. Cardinality(users(x)') = ref[x] - 1 /\ ref[x] - 1 \in Nat
  <2>1. Cardinality(users(x) \ {p}) = Cardinality(users(x)) - 1
    BY <1>1, FiniteUsers, FS_RemoveElement, Zenon
  <2>2. users(x)' = users(x) \ {p} /\ IsFiniteSet(users(x) \ {p})
    BY <1>1, <1>3, FiniteUsers, FS_Subset
  <2> QED  BY <1>1, <2>1, <2>2, FS_CardinalityType
<1>5. lastReference(x) => users(x)' = {}
  <2>1. IsFiniteSet(users(x)')
    BY <1>1, <1>3, FiniteUsers, FS_Subset
  <2> QED  BY <1>1, <1>4, <2>1, FS_EmptySet DEF lastReference
<1>6. MapInv' /\ RefInv'
  <2>1. MapInv'
    <3>1. \A y \in Param : lockMap'[y] # NoMutex => lockMap'[y] = lockMap[y]
      BY <1>1, <1>2 DEF TypeOK
    <3>2. ASSUME NEW q \in Proc, pc'[q] # "idle"
          PROVE  mine[q] \in Mutex /\ lockMap'[param[q]] = mine[q]
      <4>1. q # p /\ pc[q] # "idle" /\ mine[q] \in Mutex /\ lockMap[param[q]] = mine[q]
        BY <1>2, <3>2 DEF MapInv
      <4>2. CASE param[q] # x
        BY <1>2, <4>1, <4>2 DEF TypeOK
      <4>3. CASE param[q] = x
        <5>1. q \in users(x)'
          BY <1>2, <3>2, <4>3 DEF users
        <5> QED  BY <1>1, <1>2, <1>5, <4>1, <4>3, <5>1 DEF TypeOK
      <4> QED  BY <4>2, <4>3
    <3> QED  BY <1>2, <3>1, <3>2 DEF MapInv
  <2>2. RefInv'
    <3> SUFFICES ASSUME NEW y \in Param, lockMap'[y] # NoMutex
                 PROVE  ref'[y] = Cardinality(users(y)')
      BY DEF RefInv
    <3>1. CASE y = x
      BY <1>1, <1>2, <1>4, <3>1 DEF TypeOK
    <3>2. CASE y # x
      BY <1>2, <1>3, <3>2 DEF RefInv, TypeOK
    <3> QED  BY <3>1, <3>2
  <2> QED  BY <2>1, <2>2
<1>7. \A q \in Proc : /\ owns(q)' <=> owns(q) /\ q # p
                      /\ inside(q)' <=> inside(q) /\ q # p
  BY <1>1, <1>2 DEF owns, inside
<1>8. MutexInv' /\ writer' \in SUBSET Mutex /\ readers' \in [Mutex -> Nat]
  <2>1. CASE read[p]
    <3>1. readers' = [readers EXCEPT ![m] = readers[m] - 1] /\ UNCHANGED writer
      BY <1>2, <2>1 DEF mutexRelease
    <3>2. \A k \in Mutex : readersAt(k)' = IF k = m THEN readersAt(k) \ {p} ELSE readersAt(k)
      BY <1>0, <1>2, <1>7 DEF readersAt
    <3>3. p \in readersAt(m)
      BY <1>0, <1>1, <2>1 DEF readersAt, inside
    <3>4. /\ Cardinality(readersAt(m)') = Cardinality(readersAt(m)) - 1
          /\ Cardinality(readersAt(m)') \in Nat
      <4>1. IsFiniteSet(readersAt(m)')
        BY <1>1, <3>2, FiniteUsers, FS_Subset
      <4> QED  BY <1>1, <3>2, <3>3, <4>1, FiniteUsers, FS_RemoveElement, FS_CardinalityType
    <3>5. /\ readers'[m] = Cardinality(readersAt(m)') /\ readers[m] = Cardinality(readersAt(m))
          /\ \A k \in Mutex : k # m => readers'[k] = readers[k]
      BY <1>1, <3>1, <3>4 DEF MutexInv, TypeOK
    <3>6. \A q \in Proc : owns(q) /\ inside(q) => mine[q] # m
      BY <1>0, <1>1, <3>4, <3>5 DEF MutexInv, TypeOK
    <3>7. \A q \in Proc : owns(q) => mine[q] \in Mutex
      BY DEF owns, MapInv
    <3>8. readers' \in [Mutex -> Nat]
      BY <1>1, <3>1, <3>4, <3>5 DEF TypeOK
    <3>9. \A k \in Mutex : readers'[k] = Cardinality(readersAt(k)')
      BY <3>2, <3>5 DEF MutexInv
    <3> QED  BY <1>2, <1>7, <3>1, <3>5, <3>6, <3>7, <3>8, <3>9 DEF MutexInv, TypeOK
  <2>2. CASE ~read[p]
    <3>1. writer' = writer \ {m} /\ UNCHANGED readers
      BY <1>2, <2>2 DEF mutexRelease
    <3>2. \A k \in Mutex : readersAt(k)' = readersAt(k)
      BY <1>0, <1>2, <1>7, <2>2 DEF readersAt
    <3>3. \A q \in Proc : owns(q) /\ q # p => mine[q] # m
      BY <1>0, <1>1, <2>2 DEF MutexInv, owns
    <3> QED  BY <1>2, <1>7, <3>1, <3>2, <3>3 DEF MutexInv, TypeOK
  <2> QED  BY <2>1, <2>2
<1>9. TypeOK'
  <2>1. (IF lastReference(x) THEN Proc ELSE {p}) \in SUBSET Proc /\ lastReference(x) \in BOOLEAN
    BY DEF lastReference
  <2>2. lockMap' \in [Param -> Mutex \cup {NoMutex}] /\ ref' \in [Param -> Nat]
    BY <1>1, <1>2, <1>4 DEF TypeOK
  <2>3. /\ debug' \in [Param -> BOOLEAN]
        /\ info' \in [Param -> [Proc -> {"none", "Blocked", "Running"}]]
        /\ counters' \in lockStat /\ paramCounters' \in [Param -> lockStat]
    BY <1>1, <1>2, <2>1, DeleteType, Zenon
  <2> QED  BY <1>2, <1>8, <2>2, <2>3 DEF TypeOK
<1> QED  BY <1>2, <1>6, <1>8, <1>9

-----------------------------------------------------------------------------
LEMMA NextNS == MaxForce = 0 /\ NSInv /\ [Next]_vars => NSInv'
<1> SUFFICES ASSUME MaxForce = 0, NSInv, [Next]_vars PROVE NSInv'
  OBVIOUS
<1>1. CASE UNCHANGED vars
  BY <1>1 DEF vars, nsmap, mutexes, op, stats, force, NSInv, TypeOK, MapInv, RefInv, users,
              MutexInv, owns, inside, readersAt
<1>2. ASSUME NEW x \in Param, ForceUnlock(x) PROVE FALSE
  BY <1>2 DEF ForceUnlock, NSInv
<1> QED  BY <1>1, <1>2, BeginInv, WaitInv, UnlockNS DEF Next

(* A server on which nobody forces a lock: the references and the mutexes  *)
(* of the namespace stay consistent for ever.                              *)
THEOREM NSInvariance == MaxForce = 0 => (Spec => []NSInv)
<1> SUFFICES ASSUME MaxForce = 0 PROVE Spec => []NSInv
  OBVIOUS
<1>1. NSInv /\ [Next]_vars => NSInv'
  BY NextNS
<1> QED  BY <1>1, InitNS, PTL DEF Spec

(* Operations on a resource exclude each other unless both read, however   *)
(* many resources and goroutines there are and however nsLock entries come *)
(* and go in between.                                                      *)
THEOREM NamespaceExclusion == MaxForce = 0 => (Spec => []Exclusion)
<1> SUFFICES ASSUME MaxForce = 0 PROVE Spec => []Exclusion
  OBVIOUS
<1>1. ASSUME NSInv PROVE Exclusion
  <2> SUFFICES ASSUME NEW p \in Proc, NEW q \in Proc, inside(p), inside(q),
                      param[p] = param[q], p # q, ~read[p]
               PROVE  FALSE
    BY DEF Exclusion, excludes
  <2>1. mine[p] = mine[q] /\ mine[p] \in Mutex /\ owns(p)
    BY <1>1 DEF NSInv, MapInv, inside, owns
  <2>2. readersAt(mine[p]) = {}
    <3>1. Cardinality(readersAt(mine[p])) = 0
      BY <1>1, <2>1 DEF NSInv, MutexInv
    <3> QED  BY <3>1, FiniteUsers, FS_EmptySet
  <2>3. ~read[q] /\ owns(q)
    BY <2>1, <2>2 DEF readersAt, inside, owns
  <2> QED  BY <1>1, <2>1, <2>3 DEF NSInv, MutexInv
<1>2. NSInv => Exclusion
  BY <1>1
<1>3. Spec => []NSInv
  BY NSInvariance
<1> QED  BY <1>2, <1>3, PTL

(* Unlocking never finds the resource gone from the map or its mutex not   *)
(* locked, which package sync would end the process for.                   *)
THEOREM NamespaceNeverFatal == MaxForce = 0 => (Spec => []NoFatal)
<1> SUFFICES ASSUME MaxForce = 0 PROVE Spec => []NoFatal
  OBVIOUS
<1>1. ASSUME NSInv PROVE NoFatal
  <2> SUFFICES ASSUME NEW p \in Proc, pc[p] = "held"
               PROVE  lockMap[param[p]] # NoMutex /\ isLocked(lockMap[param[p]], read[p])
    BY DEF NoFatal
  <2>1. mine[p] \in Mutex /\ lockMap[param[p]] = mine[p] /\ mine[p] # NoMutex
    BY <1>1, NSAssumption DEF NSInv, MapInv
  <2>2. CASE ~read[p]
    BY <1>1, <2>1, <2>2 DEF NSInv, MutexInv, owns, isLocked
  <2>3. CASE read[p]
    <3>1. p \in readersAt(mine[p])
      BY <2>3 DEF readersAt, inside
    <3>2. Cardinality(readersAt(mine[p])) # 0 /\ Cardinality(readersAt(mine[p])) \in Nat
      BY <3>1, FiniteUsers, FS_EmptySet
    <3> QED  BY <1>1, <2>1, <2>3, <3>2 DEF NSInv, MutexInv, isLocked
  <2> QED  BY <2>1, <2>2, <2>3
<1>2. NSInv => NoFatal
  BY <1>1
<1>3. Spec => []NSInv
  BY NSInvariance
<1> QED  BY <1>2, <1>3, PTL
=============================================================================
