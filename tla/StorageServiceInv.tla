-------------------------- MODULE StorageServiceInv --------------------------
(***************************************************************************)
(* The inductive invariants of StorageService and the environments in which *)
(* the stronger ones hold.  StorageServiceProofs proves BaseInv, SafeInv and *)
(* UndeletedInv, ReferenceCountProofs AccountInv and KeptInv,                *)
(* FileServerProofs OrderlyInv.                                              *)
(***************************************************************************)
EXTENDS StorageService

\* Past FindHash a delete holds a hash; from DeleteBlob on it holds a path.
HashRead == {"DeleteFile", "Decrement", "FindRow", "DeleteBlob", "DeleteRow"}
PathRead == {"DeleteBlob", "DeleteRow"}

LocalsInv ==
    \A r \in Request :
        /\ pc[r] = "idle" => body[r] = NULL
        /\ Uploading(r) => body[r] \in Content
        /\ Deleting(r) => target[r] \in Request
        /\ pc[r] \in HashRead => hash[r] \in Content
        /\ pc[r] \in PathRead => found[r] \in Request

\* The foreign key, and who wrote the row.
FileInv ==
    \A f \in Request : files[f] # NULL => files[f] = body[f] /\ RowExists(files[f])

\* A row's path was written by the upload that made the row, in full.
RowInv ==
    \A h \in Content : RowExists(h) =>
        /\ body[storage_path[h]] = h
        /\ pc[storage_path[h]] # "Put"
        /\ blobs[storage_path[h]] \in {NULL, h}

\* An upload about to make a row wrote its path in full.
CopyInv ==
    \A r \in Request :
        pc[r] \in {"FindDuplicate", "CreateStorage"} => blobs[r] \in {NULL, body[r]}

\* Holds whatever the environment does.
BaseInv == TypeOK /\ LocalsInv /\ FileInv /\ RowInv /\ CopyInv

-----------------------------------------------------------------------------
\* The failures that cost at most space, with overlaps shut out.  Outside are:
\*   - a delete overlapping an upload of its content, or its own twin;
\*   - a failed CreateFileReference of a first upload: its blob goes, its row stays;
\*   - a failed DecrementStorageRef of a delete: taken for a count of zero;
\*   - a DeleteStorage that fails, or a crash just before it: the row stays, its
\*     blob is gone;
\*   - an INSERT or a decrement that takes effect and reports an error.
Tolerated ==
    /\ Overlaps = {}
    /\ Rejected \cap {"CreateFile", "Decrement", "DeleteRow"} = {}
    /\ LostReply \cap {"AttachFile", "CreateStorage", "CreateFile", "Decrement"} = {}
    /\ "DeleteRow" \notin CrashAt

Cleaning == {"FindRow", "DeleteBlob", "DeleteRow"}

\* No two active requests work against each other.
DisciplineInv ==
    /\ \A u, d \in Request : Uploading(u) /\ Deleting(d) => body[u] # body[target[d]]
    /\ \A d, e \in Request : Deleting(d) /\ Deleting(e) /\ d # e => target[d] # target[e]

\* A delete works on the content of its file, and on a dead row once it cleans.
DeleteInv ==
    \A d \in Request :
        /\ Deleting(d) => body[target[d]] \in Content
        /\ pc[d] \in HashRead => hash[d] = body[target[d]]
        /\ pc[d] = "DeleteFile" => files[target[d]] = hash[d]
        /\ pc[d] \in {"Decrement"} \cup Cleaning => files[target[d]] = NULL
        /\ pc[d] \in Cleaning => reference_count[hash[d]] = 0
        /\ pc[d] \in PathRead => body[found[d]] = hash[d]

\* No file is listed before its upload is answered; before an upload makes its row
\* no row names its path, and the blob is there; the row a duplicate found stays.
UploadInv ==
    \A u \in Request :
        /\ pc[u] # "CleanUpRow"
        /\ Uploading(u) => files[u] = NULL
        /\ pc[u] \in {"FindDuplicate", "CreateStorage"} => blobs[u] = body[u]
        /\ pc[u] \in {"DropCopy", "Increment"} => RowExists(body[u])
        /\ pc[u] \in {"FindDuplicate", "DropCopy", "CreateStorage", "CleanUpBlob"} =>
               \A h \in Content : storage_path[h] # u

\* Only a delete about to remove the row may have removed the blob.
BlobInv ==
    \A h \in Content : RowExists(h) =>
        \/ blobs[storage_path[h]] = h
        \/ \E d \in Request : pc[d] = "DeleteRow" /\ hash[d] = h

CountInv == \A h \in Content : ~ RowExists(h) => reference_count[h] = 0

SafeInv ==
    /\ BaseInv
    /\ DisciplineInv
    /\ DeleteInv
    /\ UploadInv
    /\ BlobInv
    /\ CountInv
    /\ ReferencesCovered

-----------------------------------------------------------------------------
\* The failures that leave every reference to somebody who gives it back, however
\* requests overlap.  Outside are:
\*   - a first upload whose CreateFileReference fails: its row keeps the count of one;
\*   - a decrement that fails: the error is ignored, or taken for a count of zero;
\*   - an increment, a first upload's INSERT or the DELETE of a file that takes effect and
\*     reports an error;
\*   - a crash between the statement on one table and that on the other.
GivenBack ==
    /\ Rejected \cap {"CreateFile", "UndoIncrement", "Decrement"} = {}
    /\ LostReply \cap {"Increment", "CreateStorage", "DeleteFile"} = {}

Accounted == GivenBack /\ CrashAt \cap (Attaching \cup {"Decrement"}) = {}

\* An upload that owns no reference yet has no file, and no delete is about to give
\* one back for it.
Unattached == {"idle", "Put", "FindDuplicate", "DropCopy", "Increment", "CreateStorage"}

FreshInv ==
    \A u \in Request : pc[u] \in Unattached =>
        /\ files[u] = NULL
        /\ \A d \in Request : pc[d] \in {"DeleteFile", "Decrement"} => target[d] # u

\* A delete gives back the reference its file had.
TargetInv ==
    \A d \in Request : pc[d] \in {"DeleteFile", "Decrement"} => hash[d] = body[target[d]]

AccountInv ==
    /\ BaseInv
    /\ FreshInv
    /\ TargetInv
    /\ CountInv
    /\ NoForgottenReference

-----------------------------------------------------------------------------
\* Nothing fails and nothing overlaps what it works against; the process may be killed.
Orderly == Tolerated /\ Rejected = {} /\ LostReply = {}

NoneDead == \A r \in Request : pc[r] # "dead"

\* An upload in these states has bytes that no row need name: it makes the row or
\* removes them.
Unnamed == {"FindDuplicate", "DropCopy", "CreateStorage", "CleanUpBlob"}

\* Bytes belong to a row or to an upload.
BytesOwned ==
    \A p \in Request : blobs[p] # NULL =>
        pc[p] \in Unnamed \/ \E h \in Content : storage_path[h] = p

\* A row of count zero belongs to a delete that will remove it.
ZeroOwned ==
    /\ \A r \in Request : pc[r] # "UndoIncrement"
    /\ \A h \in Content : RowExists(h) /\ reference_count[h] = 0 =>
           \E d \in Request : pc[d] \in Cleaning /\ hash[d] = h

\* Such a delete has the row's path, and removes the bytes first.
DeleteHasPath ==
    \A d \in Request :
        /\ pc[d] \in PathRead /\ RowExists(hash[d]) => found[d] = storage_path[hash[d]]
        /\ pc[d] = "DeleteRow" => blobs[found[d]] = NULL

PathsInv == BytesOwned /\ ZeroOwned /\ DeleteHasPath

OrderlyInv ==
    /\ SafeInv
    /\ NoneDead => FreshInv /\ TargetInv /\ NoForgottenReference /\ PathsInv
-----------------------------------------------------------------------------
\* The failures that lose no copy of a content, however requests overlap, as long as the
\* content is deleted once.  Outside are, and each alone may leave a blob that no row names:
\*   - a Put that fails, or takes effect and reports an error, and a blob's removal that fails;
\*   - an INSERT into files that takes effect and reports an error: the reference is given
\*     back, or the row and the blob cleaned up, although the file is listed;
\*   - a crash while an upload has bytes that no row names.
CopiesKept ==
    /\ Rejected \cap {"Put", "DropCopy", "CleanUpBlob", "DeleteBlob"} = {}
    /\ LostReply \cap {"Put", "AttachFile", "CreateFile"} = {}
    /\ CrashAt \cap Unnamed = {}

\* What a delete knows of its file: its upload has ended, and its hash is the body's.
TargetKnown ==
    /\ \A f \in Request : files[f] # NULL => pc[f] \notin UploadCalls \cup {"idle"}
    /\ \A d \in Request :
        /\ target[d] # NULL =>
               body[target[d]] \in Content /\ pc[target[d]] \notin UploadCalls \cup {"idle"}
        /\ pc[d] = "idle" => target[d] = NULL
        /\ hash[d] # NULL => target[d] # NULL /\ hash[d] = body[target[d]]
        /\ found[d] # NULL => hash[d] # NULL

\* The content's delete has run to its end, and may have removed the row.
Removed(h) == \E d \in Request : pc[d] = "ok" /\ found[d] # NULL /\ hash[d] = h

\* The one delete of its content finds its file listed and unlists it.
FileTaken ==
    \A d \in Request :
        /\ pc[d] = "DeleteFile" => files[target[d]] # NULL
        /\ pc[d] \in {"Decrement"} \cup Cleaning => files[target[d]] = NULL

\* Until then the count covers the references, those of first uploads that are not listed
\* included, and the row a duplicate found stays.
Owners(h) == Holders(h) \cup {u \in Request : pc[u] = "CleanUpRow" /\ body[u] = h}

OwnersCovered ==
    \A h \in Content : Removed(h) \/ reference_count[h] >= Cardinality(Owners(h))

DuplicateStays ==
    \A u \in Request :
        pc[u] \in {"DropCopy", "Increment"} => RowExists(body[u]) \/ Removed(body[u])

\* A first upload keeps its row, and a delete the row it read, whose bytes it removes first.
FirstKeepsRow ==
    \A u \in Request : pc[u] \in {"CreateFile", "CleanUpRow"} => storage_path[body[u]] = u

DeleteKeepsRow ==
    \A d \in Request :
        /\ pc[d] \in PathRead => storage_path[hash[d]] = found[d]
        /\ pc[d] = "DeleteRow" => blobs[found[d]] = NULL

OnceInv ==
    /\ FileTaken
    /\ OwnersCovered
    /\ DuplicateStays
    /\ FirstKeepsRow
    /\ DeleteKeepsRow
    /\ BytesOwned

KeptInv ==
    /\ BaseInv
    /\ FreshInv
    /\ TargetInv
    /\ CountInv
    /\ TargetKnown
    /\ OneDeletePerContent => OnceInv

-----------------------------------------------------------------------------
\* The failures that leave a first upload its row and its file, however requests overlap
\* and wherever the process is killed.  Outside are an INSERT into files that fails and,
\* of either INSERT, one that takes effect and reports an error.
RowsKept ==
    /\ "CreateFile" \notin Rejected
    /\ LostReply \cap {"CreateStorage", "CreateFile"} = {}

\* A row's upload goes on to list its file, unless the process is killed.
MakersInv ==
    \A h \in Content : RowExists(h) => pc[storage_path[h]] \in {"CreateFile", "ok", "dead"}

MadeInv == BaseInv /\ MakersInv

\* A delete works on the content of its file, and on the blob of an upload of it.
OfTarget ==
    \A d \in Request :
        /\ pc[d] = "idle" => target[d] = NULL
        /\ Deleting(d) => body[target[d]] \in Content /\ body[d] = NULL
        /\ pc[d] \in HashRead => hash[d] = body[target[d]]
        /\ pc[d] \in PathRead => body[found[d]] = hash[d]

\* Only a delete takes the row or the blob of a content.
RowsStay ==
    /\ \A h \in Content : RowExists(h) => blobs[storage_path[h]] = h \/ Deleted(h)
    /\ \A u \in Request :
        /\ pc[u] \in {"FindDuplicate", "CreateStorage"} => blobs[u] = body[u] \/ Deleted(body[u])
        /\ pc[u] = "CreateFile" => RowExists(body[u]) \/ Deleted(body[u])
        /\ pc[u] = "CleanUpRow" => Deleted(body[u])

FilesStay ==
    \A u \in Request :
        pc[u] = "ok" /\ body[u] # NULL => files[u] = body[u] \/ Deleted(body[u])

UndeletedInv == MadeInv /\ OfTarget /\ RowsStay /\ FilesStay

=============================================================================
