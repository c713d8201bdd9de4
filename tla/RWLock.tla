------------------------------- MODULE RWLock -------------------------------
(***************************************************************************)
(* What a reader-writer lock promises its callers: sync.RWMutex, and the   *)
(* drop-in replacement dsync's README offers ("it can be held by a single  *)
(* writer or an arbitrary number of readers").                             *)
(***************************************************************************)
CONSTANT Proc

VARIABLES writers, readers

Init == writers = {} /\ readers = {}

Lock(p) == /\ writers = {} /\ readers = {}
           /\ writers' = {p}
           /\ UNCHANGED readers

RLock(p) == /\ writers = {} /\ p \notin readers
            /\ readers' = readers \cup {p}
            /\ UNCHANGED writers

Unlock(p) == /\ p \in writers
             /\ writers' = writers \ {p}
             /\ UNCHANGED readers

RUnlock(p) == /\ p \in readers
              /\ readers' = readers \ {p}
              /\ UNCHANGED writers

Next == \E p \in Proc : Lock(p) \/ RLock(p) \/ Unlock(p) \/ RUnlock(p)

Spec == Init /\ [][Next]_<<writers, readers>>
=============================================================================
