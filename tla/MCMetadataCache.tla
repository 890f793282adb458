-------------------------- MODULE MCMetadataCache --------------------------
(* MetadataCache for TLC: the environments the runs put the cache in. *)
EXTENDS MetadataCache, TLC

Symmetry == Permutations(Request) \cup Permutations(Id)

NoCall == {}
AnyCall == Calls
Invalidations == {"DropList", "DropFile", "DropListToo"}
\* The failures that leave no stale key behind.
ToleratedRejections == Calls \ Invalidations
=============================================================================
