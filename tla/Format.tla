------------------------------- MODULE Format -------------------------------
(***************************************************************************)
(* How the servers of an XL setup agree on format.json                     *)
(* (cmd/format-config-v1.go, cmd/prepare-storage.go, newObjectLayer of     *)
(* cmd/server-main.go and the head of newXLObjects in cmd/xl-v1.go).       *)
(*                                                                         *)
(* Every disk carries the uuid it was given and the list of all uuids, the *)
(* JBOD; the place of a disk's uuid in that list is the place of its       *)
(* shards.  Each server reads the files of all disks one by one, decides   *)
(* alone, and the one that has the first disk may write them, disk by      *)
(* disk.  Servers start, crash and restart at any time; the disks of a     *)
(* server that is down cannot be reached.                                  *)
(***************************************************************************)
EXTENDS Integers, Sequences, FiniteSets, FiniteSetsExt

CONSTANTS
  Server,
  N,          \* number of disks; disk i is the i-th endpoint
  host,       \* [Disk -> Server]: the server a disk is attached to
  Fragile,    \* bound: disks that may be replaced or damaged
  MaxCrash,   \* bound: servers that die
  MaxSwap,    \* bound: disks replaced or damaged
  MaxHeal     \* bound: format heals

Disk == 1..N
NoDisk == 0

VARIABLES
  format,     \* per disk: what loadFormat finds there
  skewed,     \* servers whose clock or credentials differ from the others'
  stage,      \* per server: down, load, save, init, up
  seen,       \* per server: what it has read in this round, by disk
  plan,       \* per server: format.json files it has yet to write, by disk
  saveErr,    \* per server: a write of this round has failed
  order,      \* per server: xlObjects.storageDisks
  drawn,      \* how many times uuids have been drawn
  started,    \* servers that have been started
  crashes, restarts, swaps, heals

formatDisks == <<format, skewed>>
formatServers == <<stage, seen, plan, saveErr, order>>
formatVars == <<formatDisks, formatServers, drawn, started, crashes, restarts, swaps, heals>>

-----------------------------------------------------------------------------
(* What loadFormat returns for a disk.  pos is the place the xl.json files *)
(* on a disk without format.json tell, 0 when there is none.               *)
NoUUID == <<0, 0>>
loadErr(e) == [err |-> e, disk |-> NoUUID, jbod |-> <<>>, pos |-> 0]
Unformatted == loadErr("unformatted")
withFormat(uuid, jbod) == [err |-> "nil", disk |-> uuid, jbod |-> jbod, pos |-> 0]

count(fs, e) == Cardinality({d \in DOMAIN fs : fs[d].err = e})
formatted(fs) == {d \in DOMAIN fs : fs[d].err = "nil"}
isLocalStorage(s, d) == host[d] = s
loadFormat(s, d) ==
  IF ~isLocalStorage(s, d) /\ stage[host[d]] = "down" THEN loadErr("offline")
  ELSE IF ~isLocalStorage(s, d) /\ (s \in skewed <=> host[d] \notin skewed) THEN loadErr("config")
  ELSE format[d]

isSavedUUIDInOrder(uuid, fs) == \E i \in Disk : \A d \in formatted(fs) : fs[d].jbod[i] = uuid
checkDisksConsistency(fs) == \A d \in formatted(fs) : isSavedUUIDInOrder(fs[d].disk, fs)
checkJBODConsistency(fs) == \A c, d \in formatted(fs) : fs[c].jbod = fs[d].jbod
checkFormatXL(fs) == checkJBODConsistency(fs) /\ checkDisksConsistency(fs)

genericFormatCheckXL(fs) ==
  /\ Cardinality({d \in Disk : fs[d].err \in {"offline", "config", "faulty"}}) <= N - N \div 2
  /\ count(fs, "corrupted") <= N - N \div 2
  /\ checkFormatXL(fs)

prepForInitXLImpatient(firstDisk, fs) ==
  IF count(fs, "unformatted") = N THEN IF firstDisk THEN "FormatDisks" ELSE "WaitForFormatting"
  ELSE IF count(fs, "nil") > N \div 2 THEN "InitObjectLayer"
  ELSE IF count(fs, "offline") > 0 THEN "WaitForQuorum" ELSE "Abort"
prepForInitXL(firstDisk, fs) ==
  LET quorum == N \div 2 + 1
      unformatted == count(fs, "unformatted")
      offline == count(fs, "offline")
      good == count(fs, "nil")
  IN IF count(fs, "config") > 0 THEN "WaitForConfig"
     ELSE IF offline >= quorum THEN "WaitForQuorum"
     ELSE IF count(fs, "corrupted") >= quorum THEN "Abort"
     ELSE IF unformatted = N THEN IF firstDisk THEN "FormatDisks" ELSE "WaitForFormatting"
     ELSE IF unformatted >= quorum
            THEN IF unformatted + good + offline = N THEN "WaitForAll" ELSE "Abort"
     ELSE IF good >= quorum
            THEN IF good + offline = N THEN "InitObjectLayer" ELSE "WaitForHeal"
     ELSE "WaitForQuorum"

(* reorderDisks: the disks in JBOD order; a disk that was not read is      *)
(* missing from it.                                                        *)
reorderDisksNot(fs) == [d \in Disk |-> IF d \in formatted(fs) THEN d ELSE NoDisk]
reorderDisks(fs) ==
  [i \in Disk |-> LET at == {d \in formatted(fs) :
                               fs[d].disk = fs[Min(formatted(fs))].jbod[i]}
                  IN IF at = {} THEN NoDisk ELSE Max(at)]

loadFormatXL(fs) ==
  /\ \A e \in {"config", "faulty"} : count(fs, e) = 0
  /\ \A e \in {"unformatted", "corrupted", "offline"} : count(fs, e) <= N - N \div 2
  /\ checkFormatXL(fs)

(* initFormatXL: a fresh uuid for every disk, in endpoint order.           *)
initFormatXL(g) ==
  [d \in Disk |-> withFormat(<<g, d>>, [i \in Disk |-> <<g, i>>])]

(* healFormatXLFreshDisks and healFormatXLCorruptedDisks: new uuids for    *)
(* the places nobody holds, which go to the disks whose xl.json files name *)
(* that place and then, in order, to the others; format.json is written    *)
(* again on all disks.  When none has a format.json they are formatted.    *)
fill(ordered, ds) ==
  LET free == {i \in Disk : ordered[i] = NoDisk}
      nth(S, k) == CHOOSE x \in S : Cardinality({y \in S : y < x}) = k - 1
  IN [i \in Disk |->
        IF i \in free /\ Cardinality({j \in free : j <= i}) <= Cardinality(ds)
          THEN nth(ds, Cardinality({j \in free : j <= i})) ELSE ordered[i]]

reorderDisksByInspection(ordered, fs) ==
  [i \in Disk |-> LET at == {d \in Disk : fs[d].pos = i}
                  IN IF at = {} THEN ordered[i] ELSE Min(at)]

inspectable(ordered, fs) ==
  \A i \in Disk : LET at == {d \in Disk : fs[d].pos = i}
                  IN Cardinality(at) <= 1 /\ (at # {} => ordered[i] = NoDisk)

unAssignedDisks(ordered) == Disk \ {ordered[i] : i \in Disk}

healedJBODByEndpoint(fs, g) ==
  LET jbod == [i \in Disk |-> IF reorderDisks(fs)[i] = NoDisk THEN <<g, i>>
                             ELSE fs[Min(formatted(fs))].jbod[i]]
  IN [d \in Disk |-> withFormat(jbod[d], jbod)]
healedJBOD(fs, g) ==
  LET ordered == reorderDisks(fs)
      placed == reorderDisksByInspection(ordered, fs)
      final == fill(placed, unAssignedDisks(placed))
      old == fs[Min(formatted(fs))].jbod
      jbod == [i \in Disk |-> IF ordered[i] = NoDisk THEN <<g, i>> ELSE old[i]]
  IN [d \in Disk |-> LET i == CHOOSE k \in Disk : final[k] = d IN withFormat(jbod[i], jbod)]

healed(fs, g) == IF formatted(fs) = {} THEN initFormatXL(g) ELSE healedJBOD(fs, g)

(* Whether a heal writes anything: the early returns of healFormatXL and   *)
(* the two functions it calls.                                             *)
reduceFormatErrs(fs) ==
  IF count(fs, "corrupted") > 0 THEN "corrupted"
  ELSE IF count(fs, "unformatted") = N THEN "unformatted"
  ELSE IF count(fs, "unformatted") = 0 THEN "nil"
  ELSE IF count(fs, "offline") > 0 THEN "someOffline" ELSE "someUnformatted"

healable(fs) ==
  /\ genericFormatCheckXL(fs)
  /\ reduceFormatErrs(fs) \in {"corrupted", "someUnformatted"}
  /\ \A e \in {"offline", "config", "faulty"} : count(fs, e) = 0
  /\ formatted(fs) # {} => inspectable(reorderDisks(fs), fs)

-----------------------------------------------------------------------------
(* Fresh disks, or disks formatted earlier of which two have changed slots. *)
FormatInit ==
  /\ format \in {[d \in Disk |-> Unformatted],
                 [initFormatXL(0) EXCEPT ![1] = initFormatXL(0)[2], ![2] = initFormatXL(0)[1]]}
  /\ skewed \in {{}} \cup {{s} : s \in Server}
  /\ stage = [s \in Server |-> "down"]
  /\ seen = [s \in Server |-> <<>>] /\ plan = [s \in Server |-> <<>>]
  /\ saveErr = [s \in Server |-> FALSE]
  /\ order = [s \in Server |-> <<>>]
  /\ drawn = 0 /\ started = {} /\ crashes = 0 /\ restarts = 0 /\ swaps = 0 /\ heals = 0

become(s, st) == stage' = [stage EXCEPT ![s] = st]
forget(s) == seen' = [seen EXCEPT ![s] = <<>>]

(* The server listens, and enters newObjectLayer.                          *)
Start(s) ==
  /\ stage[s] = "down"
  /\ IF s \in started THEN restarts < MaxCrash /\ restarts' = restarts + 1
                     ELSE UNCHANGED restarts
  /\ started' = started \cup {s}
  /\ become(s, "load")
  /\ UNCHANGED <<formatDisks, seen, plan, saveErr, order, drawn, crashes, swaps, heals>>

(* loadAllFormats before the decision, loadFormatXL after it.  The former  *)
(* reads in parallel; as the files are written in any order, reading them  *)
(* in disk order finds every combination.                                  *)
LoadFormat(s) ==
  /\ stage[s] \in {"load", "init"} /\ DOMAIN seen[s] # Disk
  /\ LET d == Cardinality(DOMAIN seen[s]) + 1
     IN seen' = [seen EXCEPT ![s] = Append(@, loadFormat(s, d))]
  /\ UNCHANGED <<formatDisks, stage, plan, saveErr, order, drawn, started, crashes, restarts, swaps, heals>>

(* One round of retryFormattingXLDisks.  An error ends the process.        *)
Decide(s) ==
  LET action == prepForInitXL(isLocalStorage(s, 1), seen[s])
  IN /\ stage[s] = "load" /\ DOMAIN seen[s] = Disk
     /\ forget(s)
     /\ CASE action = "FormatDisks" ->
               /\ become(s, "save")
               /\ plan' = [plan EXCEPT ![s] = initFormatXL(drawn + 1)]
               /\ drawn' = drawn + 1
          [] action \in {"InitObjectLayer", "WaitForHeal"} ->
               /\ become(s, IF genericFormatCheckXL(seen[s]) THEN "init" ELSE "down")
               /\ UNCHANGED <<plan, drawn>>
          [] action = "Abort" -> become(s, "down") /\ UNCHANGED <<plan, drawn>>
          [] OTHER -> UNCHANGED <<stage, plan, drawn>>
     /\ UNCHANGED <<formatDisks, saveErr, order, started, crashes, restarts, swaps, heals>>

(* One goroutine of saveFormatXL: the rename of format.json.tmp.           *)
SaveFormat(s, d) ==
  /\ d \in DOMAIN plan[s]
  /\ plan' = [plan EXCEPT ![s] = [c \in DOMAIN @ \ {d} |-> @[c]]]
  /\ IF loadFormat(s, d).err \in {"offline", "config", "faulty"}
       THEN saveErr' = [saveErr EXCEPT ![s] = stage[s] = "save"] /\ UNCHANGED format
       ELSE format' = [format EXCEPT ![d] = plan[s][d]] /\ UNCHANGED saveErr
  /\ UNCHANGED <<skewed, stage, seen, order, drawn, started, crashes, restarts, swaps, heals>>

(* saveFormatXL returns to waitForFormatXLDisks.                           *)
SaveEnd(s) ==
  /\ stage[s] = "save" /\ plan[s] = <<>>
  /\ become(s, IF saveErr[s] THEN "down" ELSE "init")
  /\ saveErr' = [saveErr EXCEPT ![s] = FALSE]
  /\ UNCHANGED <<formatDisks, seen, plan, order, drawn, started, crashes, restarts, swaps, heals>>

(* newXLObjects, after loadFormatXL has read the disks again.              *)
InitEnd(s) ==
  /\ stage[s] = "init" /\ DOMAIN seen[s] = Disk
  /\ forget(s)
  /\ IF loadFormatXL(seen[s])
       THEN become(s, "up") /\ order' = [order EXCEPT ![s] = reorderDisks(seen[s])]
       ELSE become(s, "down") /\ UNCHANGED order
  /\ UNCHANGED <<formatDisks, plan, saveErr, drawn, started, crashes, restarts, swaps, heals>>

(* healFormatXL on a running server.  It reads every disk twice before it  *)
(* writes; nobody else writes formats then, so one reading stands for both.*)
HealFormat(s) ==
  LET fs == [d \in Disk |-> loadFormat(s, d)]
  IN /\ stage[s] = "up" /\ \A t \in Server : plan[t] = <<>>
     /\ heals < MaxHeal /\ heals' = heals + 1
     /\ healable(fs)
     /\ plan' = [plan EXCEPT ![s] = healed(fs, drawn + 1)] /\ drawn' = drawn + 1
     /\ UNCHANGED <<formatDisks, stage, seen, saveErr, order, started, crashes, restarts, swaps>>

(* The process dies, whatever it was doing.                                *)
ServerCrash(s) ==
  /\ stage[s] # "down" /\ crashes < MaxCrash /\ crashes' = crashes + 1
  /\ become(s, "down") /\ forget(s)
  /\ plan' = [plan EXCEPT ![s] = <<>>] /\ saveErr' = [saveErr EXCEPT ![s] = FALSE]
  /\ order' = [order EXCEPT ![s] = <<>>]
  /\ UNCHANGED <<formatDisks, drawn, started, restarts, swaps, heals>>

(* External: a disk is replaced by an empty one, fails, or loses its       *)
(* format.json but not its objects; somebody sets the clocks.              *)
position(d) == CHOOSE i \in Disk : format[d].jbod[i] = format[d].disk
SwapDisk(d) ==
  /\ swaps < MaxSwap /\ swaps' = swaps + 1
  /\ format[d].err = "nil"
  /\ format' \in {[format EXCEPT ![d] = f] :
                    f \in {Unformatted, loadErr("faulty"), loadErr("corrupted"),
                           [loadErr("corrupted") EXCEPT !.pos = position(d)]}}
  /\ UNCHANGED <<skewed, formatServers, drawn, started, crashes, restarts, heals>>

SetClocks ==
  /\ skewed # {} /\ skewed' = {}
  /\ UNCHANGED <<format, formatServers, drawn, started, crashes, restarts, swaps, heals>>

FormatNext ==
  \/ \E s \in Server : \/ Start(s) \/ LoadFormat(s) \/ Decide(s) \/ SaveEnd(s) \/ InitEnd(s)
                       \/ HealFormat(s) \/ ServerCrash(s)
                       \/ \E d \in Disk : SaveFormat(s, d)
  \/ \E d \in Fragile : SwapDisk(d)
  \/ SetClocks

(* A server that runs goes on running, somebody starts the servers and     *)
(* sets the clocks.                                                        *)
FormatProgress(s) ==
  \/ Start(s) \/ LoadFormat(s) \/ Decide(s) \/ SaveEnd(s) \/ InitEnd(s)
  \/ \E d \in Disk : SaveFormat(s, d)
FormatFairness ==
  WF_formatVars(SetClocks) /\ \A s \in Server : WF_formatVars(FormatProgress(s))

FormatSpec == FormatInit /\ [][FormatNext]_formatVars
FormatFairSpec == FormatSpec /\ FormatFairness

-----------------------------------------------------------------------------
(* Properties.                                                             *)

(* Servers that run agree which disk is where, although each decided alone *)
(* from what it could read, some of it while another server was formatting *)
(* or healing: shards of one object never change places.                   *)
OrdersAgree ==
  \A s, t \in Server : stage[s] = "up" /\ stage[t] = "up" =>
    \A i \in Disk : order[s][i] # NoDisk /\ order[t][i] # NoDisk => order[s][i] = order[t][i]

(* Neither formatting nor healing, crashed part way or not, gives a disk   *)
(* another place than the one its format.json or its objects name.         *)
place(d) == IF format[d].err = "nil" THEN position(d) ELSE format[d].pos
PlacesKept ==
  [][\A d \in Disk : place(d) # 0 /\ swaps' = swaps => place(d)' = place(d)]_formatVars

(* With healthy disks and servers that stay up, every server comes up:     *)
(* nobody waits for ever for a format, a quorum or the clocks.             *)
EveryoneStarts ==
  <>(crashes + swaps > 0 \/ \A s \in Server : stage[s] = "up")
=============================================================================
