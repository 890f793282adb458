-------------------------- MODULE MCStorageService --------------------------
(* StorageService for TLC: the environments the runs put the service in. *)
EXTENDS StorageServiceInv, TLC

Symmetry == Permutations(Request) \cup Permutations(Content)

NoCall == {}
AnyCall == Calls

\* The failures that cost at most space (see README): with the overlaps shut out
\* they leave every listed file downloadable.
ToleratedRejections == Calls \ {"CreateFile", "Decrement", "DeleteRow"}
ToleratedLosses == Calls \ {"AttachFile", "CreateStorage", "CreateFile", "Decrement"}
ToleratedCrashes == Calls \ {"DeleteRow"}

NoOverlap == {}
AnyOverlap == {"upload-delete", "twin-delete"}
=============================================================================
