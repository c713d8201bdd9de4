------------------------------- MODULE MCPeers -------------------------------
(* What several servers do to each other: objects and uploads on a shared  *)
(* file system (FSObject, FSMultipart), bucket policies and notifications  *)
(* (BucketConfig), listeners (Listeners) and credentials (Credentials).    *)
(* One instance of each; `part' says which one runs.                       *)
EXTENDS FSObject, FSMultipart, BucketConfig, Listeners, Credentials

CONSTANTS a, b

VARIABLE part

(* Clients of one server, and of two.                                      *)
FSHomes == {<<a, a, a>>, <<a, a, b>>}
Sites == {<<a, a>>, <<a, b>>}

peersVars == <<part, fsVars, mpVars, configVars, listenVars, credVars>>

PeersInit ==
  /\ part \in {"objects", "uploads", "buckets", "listeners", "credentials"}
  /\ FSInit /\ FSMultipartInit /\ ConfigInit /\ ListenersInit /\ CredInit
  /\ part # "objects" => oneServer
  /\ part # "uploads" => oneSite

(* Bounds: four calls on the object, or three if one of them deletes it or *)
(* its bucket or a server dies; uploads through two servers send two parts *)
(* and see no timeout; a lost message or a restart; listeners and events,  *)
(* three together.                                                         *)
FewTroubles ==
  /\ deaths + deletes + purges <= 1 /\ fcalls + deaths + deletes + purges <= 4
  /\ oneSite \/ (puts <= 2 /\ timeouts = 0)
  /\ misses + starts <= 1
  /\ listens + events <= 3

PeersNext ==
  /\ UNCHANGED part
  /\ \/ part = "objects" /\ FSNext /\ UNCHANGED <<mpVars, configVars, listenVars, credVars>>
     \/ part = "uploads" /\ FSMultipartNext /\ UNCHANGED <<fsVars, configVars, listenVars, credVars>>
     \/ part = "buckets" /\ ConfigNext /\ UNCHANGED <<fsVars, mpVars, listenVars, credVars>>
     \/ part = "listeners" /\ ListenersNext /\ UNCHANGED <<fsVars, mpVars, configVars, credVars>>
     \/ part = "credentials" /\ CredNext /\ UNCHANGED <<fsVars, mpVars, configVars, listenVars>>
  /\ FewTroubles'

PeersSpec == PeersInit /\ [][PeersNext]_peersVars
=============================================================================
