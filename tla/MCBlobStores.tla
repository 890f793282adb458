----------------------------- MODULE MCBlobStores -----------------------------
(* BlobStores for TLC: two blobs of two pieces and five callers: a Put, two *)
(* readers and two Deletes of one path.                                        *)
EXTENDS BlobStores, TLC

Symmetry == Permutations(Client) \cup Permutations(Path)
=============================================================================
