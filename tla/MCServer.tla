------------------------------ MODULE MCServer ------------------------------
(* What one server does for its clients: requests and their locks          *)
(* (Handlers), the byte ranges of a GET (Ranges), listings (Listing), calls*)
(* to the disks of other servers (StorageRPC), and its configuration file  *)
(* (ConfigMigration).  One instance of each; `part' says which one runs.   *)
EXTENDS Handlers, Ranges, Listing, StorageRPC, ConfigMigration

VARIABLE part

(* Objects of one part, of two around the size of a block, and of three.   *)
SomeParts == {<<n>> : n \in 0..7} \cup {<<m, n>> : m \in 3..5, n \in 1..4} \cup {<<>>, <<4, 3, 2>>}

(* Names as characters: 2 is the slash, 1 sorts before it, 3 and 4 after.  *)
(* An object, a directory of the same name and a name that sorts between   *)
(* them; disks that lack one of them.                                      *)
Names == {<<3>>, <<3, 2, 4>>, <<3, 1>>}
SomeTrees == {{<<3>>, <<3, 1>>, <<4>>}, {<<3, 1>>, <<3, 2, 3>>, <<3, 2, 4>>}}
SomeLacking == {[d \in {1, 2} |-> IF d = 1 THEN {<<3, 1>>} ELSE {}]}
SomeParams == [prefix : {<<>>}, recursive : BOOLEAN, kind : {"XL"}]
              \cup [prefix : {<<3>>}, recursive : BOOLEAN, kind : {"FS", "heal"}]

serverVars == <<part, handlerVars, rangeVars, listVars, rpcVars, cfgVars>>

ServerInit ==
  /\ part \in {"handlers", "ranges", "listing", "rpc", "config"}
  /\ HandlersInit /\ RangesInit /\ ListingInit /\ RPCInit /\ CfgInit
  /\ part # "handlers" => policyAllows
  /\ part # "listing" => objs = CHOOSE t \in Trees : TRUE
  /\ part # "config" => configFile = Missing /\ fsUsers = FALSE

(* Bounds: where the policy lets anonymous requests in, two requests; a    *)
(* change of the bucket or a timer during listings; two at once, which ask *)
(* for the same of an XL backend, with two walks; beside any call to a disk*)
(* another that appends; a connection that breaks or a change of the       *)
(* credentials.                                                            *)
FewTroubles ==
  /\ policyAllows => requests <= 2
  /\ objChanges + timers <= 1
  /\ \A c, k \in Lister : c # k /\ cl[c].pc # "idle" /\ cl[k].pc # "idle" =>
       cl[c].p = cl[k].p /\ cl[c].p.kind = "XL" /\ objChanges = 0 /\ Len(walks) <= 2
  /\ op[2].name \in {"none", "AppendFile"}
  /\ breaks + (serverCred - configCred) <= 1

ServerNext ==
  /\ UNCHANGED part
  /\ \/ part = "handlers" /\ HandlersNext /\ UNCHANGED <<rangeVars, listVars, rpcVars, cfgVars>>
     \/ part = "ranges" /\ RangesNext /\ UNCHANGED <<handlerVars, listVars, rpcVars, cfgVars>>
     \/ part = "listing" /\ ListingNext /\ UNCHANGED <<handlerVars, rangeVars, rpcVars, cfgVars>>
     \/ part = "rpc" /\ RPCNext /\ UNCHANGED <<handlerVars, rangeVars, listVars, cfgVars>>
     \/ part = "config" /\ CfgNext /\ UNCHANGED <<handlerVars, rangeVars, listVars, rpcVars>>
  /\ FewTroubles'

ServerSpec == ServerInit /\ [][ServerNext]_serverVars

(* Objects are interchangeable.                                            *)
Sym == Permutations(Object)
=============================================================================
