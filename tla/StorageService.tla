--------------------------- MODULE StorageService ---------------------------
(***************************************************************************)
(* Upload and Delete of internal/service/storage.go over the two tables of  *)
(* migrations/001_initial.sql and a blob store.                             *)
(*                                                                          *)
(* Each HTTP request runs in a goroutine of its own and makes a sequence of *)
(* calls, each a separate SQL statement (no transaction spans two of them)  *)
(* or a separate blob-store operation.  One call is one step, and the calls *)
(* of different requests interleave.  pc[r] names the call request r makes  *)
(* next.                                                                    *)
(*                                                                          *)
(* Abstractions: a file's SHA-256 is its content (no two contents collide); *)
(* the two UUIDs an upload draws, its blob path and its file id, are both   *)
(* named by the request.  Uploads and deletes never read the Redis cache,   *)
(* which is left to MetadataCache.                                          *)
(***************************************************************************)
EXTENDS Integers, FiniteSets

CONSTANTS
    Request,    \* the requests served; each is started at most once
    Content,    \* the possible bodies, and so the possible hashes
    NULL,       \* absent row, absent blob, unset local variable
    PARTIAL,    \* what an interrupted Put leaves: not the bytes of any body
    Overlaps,   \* which kinds of requests may run at the same time
    Rejected,   \* calls that may fail and change nothing
    LostReply,  \* calls that may take effect and still report an error
    CrashAt     \* calls before which the process may be killed

UploadCalls == {"Put", "FindDuplicate", "DropCopy", "Increment", "AttachFile",
                "UndoIncrement", "CreateStorage", "CreateFile", "CleanUpRow",
                "CleanUpBlob"}
DeleteCalls == {"FindHash", "DeleteFile", "Decrement", "FindRow", "DeleteBlob",
                "DeleteRow"}
Calls == UploadCalls \cup DeleteCalls
Final == {"ok", "err", "dead"}

ASSUME RequestAssumption == IsFiniteSet(Request) /\ NULL \notin Request
ASSUME ContentAssumption == NULL \notin Content /\ PARTIAL \notin Content
ASSUME NullAssumption == NULL # PARTIAL
ASSUME OverlapsAssumption == Overlaps \subseteq {"upload-delete", "twin-delete"}
ASSUME FaultAssumption ==
    Rejected \subseteq Calls /\ LostReply \subseteq Calls /\ CrashAt \subseteq Calls

VARIABLES
    storage_path,     \* table storage: [hash -> path], NULL when there is no row
    reference_count,  \* table storage: [hash -> count], 0 when there is no row
    files,            \* table files: [id -> storage_hash], NULL when there is no row
    blobs,            \* blob store: [path -> bytes], NULL when there is no blob
    pc,               \* the call each request makes next, or how it ended
    body,             \* what each upload sends
    target,           \* the id each delete names
    hash,             \* Delete's local storageHash
    found             \* Delete's local storage.StoragePath

tables == <<storage_path, reference_count, files>>
locals == <<body, target, hash, found>>
vars == <<tables, blobs, pc, locals>>

TypeOK ==
    /\ storage_path \in [Content -> Request \cup {NULL}]
    /\ reference_count \in [Content -> Int]
    /\ files \in [Request -> Content \cup {NULL}]
    /\ blobs \in [Request -> Content \cup {NULL, PARTIAL}]
    /\ pc \in [Request -> Calls \cup Final \cup {"idle"}]
    /\ body \in [Request -> Content \cup {NULL}]
    /\ target \in [Request -> Request \cup {NULL}]
    /\ hash \in [Request -> Content \cup {NULL}]
    /\ found \in [Request -> Request \cup {NULL}]

Init ==
    /\ storage_path = [h \in Content |-> NULL]
    /\ reference_count = [h \in Content |-> 0]
    /\ files = [f \in Request |-> NULL]
    /\ blobs = [p \in Request |-> NULL]
    /\ pc = [r \in Request |-> "idle"]
    /\ body = [r \in Request |-> NULL]
    /\ target = [r \in Request |-> NULL]
    /\ hash = [r \in Request |-> NULL]
    /\ found = [r \in Request |-> NULL]

-----------------------------------------------------------------------------
(* The repository's statements on the two tables. *)

RowExists(h) == storage_path[h] # NULL
Referenced(h) == \E f \in Request : files[f] = h

\* Mutant: an upsert lets a second row through.
UpsertStorage(h, p) ==
    /\ storage_path' = [storage_path EXCEPT ![h] = p]
    /\ reference_count' = [reference_count EXCEPT ![h] = 1]

\* The primary key of storage lets one row through for each hash.
CreateStorage(h, p) ==
    /\ ~ RowExists(h)
    /\ storage_path' = [storage_path EXCEPT ![h] = p]
    /\ reference_count' = [reference_count EXCEPT ![h] = 1]

\* An UPDATE whose WHERE matches no row changes nothing and is no error.
IncrementStorageRef(h) ==
    reference_count' = IF RowExists(h)
                       THEN [reference_count EXCEPT ![h] = @ + 1]
                       ELSE reference_count

\* Mutant: WHERE reference_count > 1, against negative counts.
DecrementAboveOne(h) ==
    reference_count' = IF RowExists(h) /\ reference_count[h] > 1
                       THEN [reference_count EXCEPT ![h] = @ - 1]
                       ELSE reference_count

DecrementStorageRef(h) ==
    reference_count' = IF RowExists(h)
                       THEN [reference_count EXCEPT ![h] = @ - 1]
                       ELSE reference_count

\* Mutant: the count as it was before the statement.
OldRefCount(h) == IF RowExists(h) THEN reference_count[h] ELSE 0

\* What Delete's newRefCount holds after the statement: RETURNING of no row
\* is an error, and leaves the zero value.
NewRefCount(h) == IF RowExists(h) THEN reference_count[h] - 1 ELSE 0

\* The WHERE clause asks for a zero count; the foreign key of files is
\* ON DELETE RESTRICT.
Deletable(h) == RowExists(h) /\ reference_count[h] = 0 /\ ~ Referenced(h)

DeleteStorage(h) ==
    storage_path' = IF Deletable(h) THEN [storage_path EXCEPT ![h] = NULL]
                                    ELSE storage_path

\* The foreign key of files wants a row for the hash.
CreateFileReference(f, h) ==
    /\ RowExists(h)
    /\ files' = [files EXCEPT ![f] = h]

DeleteByID(f) == files' = [files EXCEPT ![f] = NULL]

\* The blob store.
PutBlob(p, bytes) == blobs' = [blobs EXCEPT ![p] = bytes]
RemoveBlob(p) == blobs' = [blobs EXCEPT ![p] = NULL]

-----------------------------------------------------------------------------
(* Requests and the outcomes of their calls. *)

Active(r) == pc[r] \in Calls
Uploading(r) == pc[r] \in UploadCalls
Deleting(r) == pc[r] \in DeleteCalls

Goto(r, l) == pc' = [pc EXCEPT ![r] = l]

\* r's call fails and changes nothing.
Rejects(r) == pc[r] \in Rejected

\* r's call took effect; it may report an error all the same.
Answer(r, ok, err) ==
    \/ Goto(r, ok)
    \/ pc[r] \in LostReply /\ Goto(r, err)

-----------------------------------------------------------------------------
(* Upload *)

\* The contents that two overlapping requests may not share unless Overlaps
\* says so: an upload's body, a delete's file's body.
Subject(r) == IF Deleting(r) THEN body[target[r]] ELSE body[r]

MayUpload(c) ==
    "upload-delete" \in Overlaps \/ \A d \in Request : Deleting(d) => Subject(d) # c

\* A client knows the id of a file from the answer to its upload or from List.
MayDelete(f) ==
    /\ files[f] # NULL \/ (pc[f] = "ok" /\ body[f] # NULL)
    /\ \/ "upload-delete" \in Overlaps
       \/ \A u \in Request : Uploading(u) => Subject(u) # body[f]
    /\ \/ "twin-delete" \in Overlaps
       \/ \A d \in Request : Deleting(d) => target[d] # f

\* A request the handler refuses (no form file, size, type, name) has no effect and
\* is not one of Request.
StartUpload(r, c) ==
    /\ pc[r] = "idle"
    /\ MayUpload(c)
    /\ body' = [body EXCEPT ![r] = c]
    /\ Goto(r, "Put")
    /\ UNCHANGED <<tables, blobs, target, hash, found>>

\* Mutant: an error of Put is overlooked.
PutUnchecked(r) ==
    /\ pc[r] = "Put"
    /\ \/ PutBlob(r, body[r])
       \/ Rejects(r) /\ PutBlob(r, PARTIAL)
    /\ Goto(r, "FindDuplicate")
    /\ UNCHANGED <<tables, locals>>

\* The bytes go to a fresh path before anything else is known of them.  A Put
\* that reports an error may have stored nothing, a part or everything.
Put(r) ==
    /\ pc[r] = "Put"
    /\ \/ PutBlob(r, body[r]) /\ Goto(r, "FindDuplicate")
       \/ /\ Rejects(r) \/ pc[r] \in LostReply
          /\ \E bytes \in {NULL, PARTIAL, body[r]} : PutBlob(r, bytes)
          /\ Goto(r, "err")
    /\ UNCHANGED <<tables, locals>>

\* Mutant: a duplicate is attached without being counted.
FindDuplicateUncounted(r) ==
    /\ pc[r] = "FindDuplicate"
    /\ \/ RowExists(body[r]) /\ Goto(r, "AttachFile")
       \/ (~ RowExists(body[r]) \/ Rejects(r)) /\ Goto(r, "CreateStorage")
    /\ UNCHANGED <<tables, blobs, locals>>

\* An error of the lookup is taken for "no duplicate".
FindDuplicate(r) ==
    /\ pc[r] = "FindDuplicate"
    /\ \/ RowExists(body[r]) /\ Goto(r, "DropCopy")
       \/ (~ RowExists(body[r]) \/ Rejects(r)) /\ Goto(r, "CreateStorage")
    /\ UNCHANGED <<tables, blobs, locals>>

\* Mutant: the copy stays.
KeepCopy(r) ==
    /\ pc[r] = "DropCopy"
    /\ Goto(r, "Increment")
    /\ UNCHANGED <<tables, blobs, locals>>

\* Errors of this call are ignored.
DropCopy(r) ==
    /\ pc[r] = "DropCopy"
    /\ RemoveBlob(r) \/ (Rejects(r) /\ UNCHANGED blobs)
    /\ Goto(r, "Increment")
    /\ UNCHANGED <<tables, locals>>

Increment(r) ==
    /\ pc[r] = "Increment"
    /\ \/ IncrementStorageRef(body[r]) /\ Answer(r, "AttachFile", "err")
       \/ Rejects(r) /\ Goto(r, "err") /\ UNCHANGED reference_count
    /\ UNCHANGED <<storage_path, files, blobs, locals>>

AttachFile(r) ==
    /\ pc[r] = "AttachFile"
    /\ \/ CreateFileReference(r, body[r]) /\ Answer(r, "ok", "UndoIncrement")
       \/ /\ ~ RowExists(body[r]) \/ Rejects(r)
          /\ Goto(r, "UndoIncrement")
          /\ UNCHANGED files
    /\ UNCHANGED <<storage_path, reference_count, blobs, locals>>

\* Errors of this call are ignored, and so is the count it returns.
UndoIncrement(r) ==
    /\ pc[r] = "UndoIncrement"
    /\ DecrementStorageRef(body[r]) \/ (Rejects(r) /\ UNCHANGED reference_count)
    /\ Goto(r, "err")
    /\ UNCHANGED <<storage_path, files, blobs, locals>>

\* Mutant: ON CONFLICT DO NOTHING.
InsertStorageOrNothing(r) ==
    /\ pc[r] = "CreateStorage"
    /\ CreateStorage(body[r], r)
       \/ (RowExists(body[r]) /\ UNCHANGED <<storage_path, reference_count>>)
    /\ Goto(r, "CreateFile")
    /\ UNCHANGED <<files, blobs, locals>>

\* Mutant: a conflicting insert is tried until it succeeds.
InsertStorageRetried(r) ==
    /\ pc[r] = "CreateStorage"
    /\ \/ CreateStorage(body[r], r) /\ Goto(r, "CreateFile")
       \/ RowExists(body[r]) /\ UNCHANGED <<storage_path, reference_count, pc>>
    /\ UNCHANGED <<files, blobs, locals>>

\* Mutant: a conflicting insert looks for the duplicate after all.
InsertStorageLooksAgain(r) ==
    /\ pc[r] = "CreateStorage"
    /\ \/ CreateStorage(body[r], r) /\ Goto(r, "CreateFile")
       \/ /\ RowExists(body[r])
          /\ Goto(r, "FindDuplicate")
          /\ UNCHANGED <<storage_path, reference_count>>
    /\ UNCHANGED <<files, blobs, locals>>

InsertStorage(r) ==
    /\ pc[r] = "CreateStorage"
    /\ \/ CreateStorage(body[r], r) /\ Answer(r, "CreateFile", "CleanUpBlob")
       \/ /\ RowExists(body[r]) \/ Rejects(r)
          /\ Goto(r, "CleanUpBlob")
          /\ UNCHANGED <<storage_path, reference_count>>
    /\ UNCHANGED <<files, blobs, locals>>

CreateFile(r) ==
    /\ pc[r] = "CreateFile"
    /\ \/ CreateFileReference(r, body[r]) /\ Answer(r, "ok", "CleanUpRow")
       \/ /\ ~ RowExists(body[r]) \/ Rejects(r)
          /\ Goto(r, "CleanUpRow")
          /\ UNCHANGED files
    /\ UNCHANGED <<storage_path, reference_count, blobs, locals>>

\* Errors of this call are ignored.  The row it wants gone has count 1, so the
\* statement leaves it alone unless a delete brought the count to zero.
CleanUpRow(r) ==
    /\ pc[r] = "CleanUpRow"
    /\ DeleteStorage(body[r]) \/ (Rejects(r) /\ UNCHANGED storage_path)
    /\ Goto(r, "CleanUpBlob")
    /\ UNCHANGED <<reference_count, files, blobs, locals>>

\* Mutant: the row in the way is taken for its own.
CleanUpRowsBlob(r) ==
    /\ pc[r] = "CleanUpBlob"
    /\ RowExists(body[r]) /\ RemoveBlob(storage_path[body[r]])
    /\ Goto(r, "err")
    /\ UNCHANGED <<tables, locals>>

CleanUpBlob(r) ==
    /\ pc[r] = "CleanUpBlob"
    /\ RemoveBlob(r) \/ (Rejects(r) /\ UNCHANGED blobs)
    /\ Goto(r, "err")
    /\ UNCHANGED <<tables, locals>>

-----------------------------------------------------------------------------
(* Delete *)

StartDelete(r, f) ==
    /\ pc[r] = "idle"
    /\ MayDelete(f)
    /\ target' = [target EXCEPT ![r] = f]
    /\ Goto(r, "FindHash")
    /\ UNCHANGED <<tables, blobs, body, hash, found>>

\* Mutant: the id is taken for the hash.
FindHashReturnsId(r) ==
    /\ pc[r] = "FindHash"
    /\ files[target[r]] # NULL
    /\ hash' = [hash EXCEPT ![r] = target[r]]
    /\ Goto(r, "DeleteFile")
    /\ UNCHANGED <<tables, blobs, body, target, found>>

FindHash(r) ==
    /\ pc[r] = "FindHash"
    /\ \/ /\ files[target[r]] # NULL
          /\ hash' = [hash EXCEPT ![r] = files[target[r]]]
          /\ Goto(r, "DeleteFile")
       \/ /\ files[target[r]] = NULL \/ Rejects(r)
          /\ Goto(r, "err")
          /\ UNCHANGED hash
    /\ UNCHANGED <<tables, blobs, body, target, found>>

\* A DELETE that matches no row is no error.
DeleteFile(r) ==
    /\ pc[r] = "DeleteFile"
    /\ \/ DeleteByID(target[r]) /\ Answer(r, "Decrement", "err")
       \/ Rejects(r) /\ Goto(r, "err") /\ UNCHANGED files
    /\ UNCHANGED <<storage_path, reference_count, blobs, locals>>

\* Mutant: the clean-up starts one reference early.
DecrementEarly(r) ==
    /\ pc[r] = "Decrement"
    /\ DecrementStorageRef(hash[r])
    /\ Goto(r, IF NewRefCount(hash[r]) <= 1 THEN "FindRow" ELSE "ok")
    /\ UNCHANGED <<storage_path, files, blobs, locals>>

\* An error leaves newRefCount zero, and the zero is acted on.
Decrement(r) ==
    /\ pc[r] = "Decrement"
    /\ \/ /\ DecrementStorageRef(hash[r])
          /\ Answer(r, IF NewRefCount(hash[r]) = 0 THEN "FindRow" ELSE "ok", "FindRow")
       \/ Rejects(r) /\ Goto(r, "FindRow") /\ UNCHANGED reference_count
    /\ UNCHANGED <<storage_path, files, blobs, locals>>

\* The row is read without its count: only the path is used.
FindRow(r) ==
    /\ pc[r] = "FindRow"
    /\ \/ /\ RowExists(hash[r])
          /\ found' = [found EXCEPT ![r] = storage_path[hash[r]]]
          /\ Goto(r, "DeleteBlob")
       \/ /\ ~ RowExists(hash[r]) \/ Rejects(r)
          /\ Goto(r, "ok")
          /\ UNCHANGED found
    /\ UNCHANGED <<tables, blobs, body, target, hash>>

\* Errors of this call and of the next are logged and ignored.
DeleteBlob(r) ==
    /\ pc[r] = "DeleteBlob"
    /\ RemoveBlob(found[r]) \/ (Rejects(r) /\ UNCHANGED blobs)
    /\ Goto(r, "DeleteRow")
    /\ UNCHANGED <<tables, locals>>

DeleteRow(r) ==
    /\ pc[r] = "DeleteRow"
    /\ DeleteStorage(hash[r]) \/ (Rejects(r) /\ UNCHANGED storage_path)
    /\ Goto(r, "ok")
    /\ UNCHANGED <<reference_count, files, blobs, locals>>

-----------------------------------------------------------------------------
(* The process *)

\* The process is killed and started again: nothing of the requests in flight
\* is remembered, and nothing looks for what they left behind.
Crash ==
    /\ \E r \in Request : Active(r)
    /\ \A r \in Request : Active(r) => pc[r] \in CrashAt
    /\ pc' = [r \in Request |-> IF Active(r) THEN "dead" ELSE pc[r]]
    /\ UNCHANGED <<tables, blobs, locals>>

\* Every request there is was served.
Finished == (\A r \in Request : pc[r] \in Final) /\ UNCHANGED vars

UploadStep(r) ==
    \/ Put(r) \/ FindDuplicate(r)
    \/ DropCopy(r) \/ Increment(r) \/ AttachFile(r) \/ UndoIncrement(r)
    \/ InsertStorage(r) \/ CreateFile(r) \/ CleanUpRow(r) \/ CleanUpBlob(r)

DeleteStep(r) ==
    \/ FindHash(r) \/ DeleteFile(r) \/ Decrement(r)
    \/ FindRow(r) \/ DeleteBlob(r) \/ DeleteRow(r)

Step(r) == UploadStep(r) \/ DeleteStep(r)

Next ==
    \/ \E r \in Request, c \in Content : StartUpload(r, c)
    \/ \E r, f \in Request : StartDelete(r, f)
    \/ \E r \in Request : Step(r)
    \/ Crash
    \/ Finished

Spec == Init /\ [][Next]_vars

\* The scheduler runs every goroutine, and every call returns: pgx and the
\* blob store's HTTP client answer or fail.
Fairness == \A r \in Request : WF_vars(Step(r))

FairSpec == Spec /\ Fairness

-----------------------------------------------------------------------------
(* Safety *)

\* A download of content h finds its bytes.
Stored(h) == RowExists(h) /\ blobs[storage_path[h]] = h

\* The files that hold a reference to h: the listed ones, the uploads that own
\* one but are not listed (or that must still give it back), and the deleted
\* ones whose Delete has yet to give it back.
Attaching == {"AttachFile", "UndoIncrement", "CreateFile"}

Holders(h) ==
    {f \in Request :
        \/ files[f] = h
        \/ body[f] = h /\ pc[f] \in Attaching
        \/ \E d \in Request : pc[d] = "Decrement" /\ target[d] = f /\ hash[d] = h}

\* A listed file is never served bytes that are not those its upload sent: its
\* row names a path that holds them, or holds nothing.  Whatever fails,
\* overlaps or crashes (Upload, Delete and the two tables' constraints).
NeverWrongBytes ==
    \A f \in Request : files[f] # NULL =>
        /\ files[f] = body[f]
        /\ RowExists(files[f])
        /\ blobs[storage_path[files[f]]] \in {NULL, body[f]}

\* The path of a file never changes while the file is listed, so that metadata
\* read earlier (GetByID's copy in Redis) names the same blob.
PathOfFileStable ==
    [][\A f \in Request : files[f] # NULL /\ files'[f] # NULL =>
           storage_path'[files'[f]] = storage_path[files[f]]]_vars

\* Every listed file can be downloaded: Delete and the clean-up of a failed
\* Upload remove no blob a file still needs (docs/FEATURES.md:42).
NoDanglingFile == \A f \in Request : files[f] # NULL => Stored(files[f])

\* The count never falls below the references there are, so that Delete's test
\* for zero (storage.go:177) never passes too early.
ReferencesCovered == \A h \in Content : reference_count[h] >= Cardinality(Holders(h))

\* With no failure the count never exceeds the references, even where overlapping
\* requests make it too low: interleaving alone leaves no reference nobody will
\* give back (DecrementStorageRef's and IncrementStorageRef's silent no-ops).
NoForgottenReference == \A h \in Content : reference_count[h] <= Cardinality(Holders(h))

\* With no failure, one delete of a content and any uploads of it, in any order,
\* leave no blob that no row names: a copy that lost to a duplicate, or to another
\* first upload, is dropped, and the delete removes the blob of the row it removes.
\* (A second delete may lose one: it removes by hash a row that was made anew after
\* the first delete read the old row's path.)
OneDeletePerContent ==
    \A d, e \in Request :
        target[d] # NULL /\ target[e] # NULL /\ body[target[d]] = body[target[e]] => d = e

NoStrayBlob ==
    OneDeletePerContent /\ (\A r \in Request : ~ Active(r)) =>
        {p \in Request : blobs[p] # NULL} \subseteq {storage_path[h] : h \in Content}

\* A file whose upload was answered is listed and has its bytes for as long as nobody
\* deletes a file of the same content, whatever overlaps, as long as the two INSERTs of a
\* first upload report what they did: no clean-up of another upload takes the row or the blob
\* it shares (README.md:133-137).  The run has no kills; AnsweredIsKeptHolds has.
Deleted(h) == \E d \in Request : target[d] # NULL /\ body[target[d]] = h

AnsweredIsKept ==
    \A u \in Request :
        (pc[u] = "ok" \/ files[u] # NULL) /\ body[u] # NULL /\ ~ Deleted(body[u]) =>
            files[u] = body[u] /\ Stored(body[u])

\* "If file creation fails, clean up storage" (storage.go:122): a failed upload
\* leaves no row that names its path.
FailedUploadLeavesNoRow ==
    \A h \in Content : RowExists(h) => pc[storage_path[h]] # "err"

-----------------------------------------------------------------------------
(* What the service promises: files are the catalog, and a content is stored  *)
(* when its row leads to its bytes.                                            *)

StoredContents == {h \in Content : Stored(h)}

Catalog == INSTANCE ContentCatalog WITH
    Id <- Request, catalog <- files, stored <- StoredContents

\* Every step of the service is a step of the catalog or invisible in it: a file
\* is published only when its bytes are there, and bytes go only when no file
\* needs them.
RefinesCatalog == Catalog!CatalogSpec

-----------------------------------------------------------------------------
(* Liveness *)

\* Every request is answered: no call order leaves Upload or Delete waiting.
EveryRequestReturns == \A r \in Request : Active(r) ~> pc[r] \in Final

\* A content no file lists any more loses its row (README.md:137), unless a
\* file takes it up again.
UnusedContentReclaimed ==
    \A h \in Content :
        (RowExists(h) /\ ~ Referenced(h)) ~> (~ RowExists(h) \/ Referenced(h))
=============================================================================
