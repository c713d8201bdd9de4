------------------------------ MODULE MCDsync ------------------------------
(* Small instances of Dsync: four nodes, the fewest dsync.Init accepts.    *)
EXTENDS DsyncInvariant, TLC

CONSTANTS n1, n2, n3, n4, p1, p2, p3

(* One goroutine; two on different nodes; two that share the DRWMutex of   *)
(* their node and one elsewhere.                                           *)
Alone == p1 :> n1
Apart == p1 :> n1 @@ p2 :> n2
PairAndOne == p1 :> n1 @@ p2 :> n1 @@ p3 :> n2

(* What they lock for: TRUE is reading.                                    *)
Writer == p1 :> {FALSE}
Writers == p1 :> {FALSE} @@ p2 :> {FALSE}
Mixed == p1 :> BOOLEAN @@ p2 :> {TRUE} @@ p3 :> {FALSE}

retries == Cardinality({p \in Proc : try[p] > 1})

(* Bound: the message troubles one at a time.  Either all three goroutines *)
(* meet, or two of them and a delay; or p1 and p3, of different nodes, and *)
(* a failed call or a loss, after which lock maintenance has one entry at  *)
(* a time in hand.  Beside a loss p1 reads: two writers and a loss are     *)
(* what Dsync_writers.cfg has.                                             *)
OneTrouble ==
  /\ delays + fails + losses + (IF \A p \in Proc : try[p] > 0 THEN 1 ELSE 0) <= 1
  /\ Cardinality(checks \cup purge) <= losses
  /\ fails + losses > 0 => try[p2] = 0
  /\ losses > 0 => read[p1] \/ try[p1] = 0 \/ try[p3] = 0

(* Bound: a loss or a crash, not both.                                     *)
OneFault == losses + Cardinality(crashed) <= 1

(* Bound: one of a crash, a ForceUnlock (with a message it loses), and a   *)
(* goroutine that backs off and tries again.                               *)
OneUpset == Cardinality(crashed) + retries + (IF forces + losses > 0 THEN 1 ELSE 0) <= 1

(* Nodes that are nobody's home are interchangeable.                       *)
Sym == Permutations({n3, n4})
=============================================================================
