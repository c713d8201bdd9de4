----------------------------- MODULE MCErasure -----------------------------
(* Beside XLObject, the rest of the erasure-coded object layer: multipart  *)
(* uploads (Multipart), buckets (Buckets) and the object cache (ObjCache). *)
(* One instance of each; `part' says which one runs.                       *)
EXTENDS Multipart, Buckets, ObjCache

VARIABLE part

erasureVars == <<part, multipartVars, bucketVars, cacheVars>>

ErasureInit ==
  /\ part \in {"multipart", "buckets", "cache"}
  /\ MultipartInit /\ BucketsInit /\ CacheInit
  /\ part # "multipart" => object = [d \in XLDisk |-> NoDir]

(* Bounds: three calls and one change of a disk, or two of each; a restart *)
(* or an outage.                                                           *)
FewTroubles == calls + changes <= 4 /\ (outages = 0 \/ restarted = {})

ErasureNext ==
  /\ UNCHANGED part
  /\ \/ part = "multipart" /\ MultipartNext /\ UNCHANGED <<bucketVars, cacheVars>>
     \/ part = "buckets" /\ BucketsNext /\ UNCHANGED <<multipartVars, cacheVars>>
     \/ part = "cache" /\ CacheNext /\ UNCHANGED <<multipartVars, bucketVars>>
  /\ FewTroubles'

ErasureSpec == ErasureInit /\ [][ErasureNext]_erasureVars

=============================================================================
