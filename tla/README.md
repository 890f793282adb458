# pot-play-storage: TLA+ models, checks and proofs

pot-play-storage is an HTTP file server.  It stores each distinct content once:
PostgreSQL holds one row per content (hash, blob path, reference count) and one
row per file, a blob store (a local directory or a SeaweedFS filer) holds the
bytes, and Redis caches file metadata.  No transaction, lock or queue ties the
three together, so what makes the server right is the order of a dozen calls, and
what happens when two requests interleave them or one of them fails.

## 1. The system

| part | source | state | operations |
|---|---|---|---|
| HTTP handlers | `internal/handler/file.go` | none; one goroutine per request | Upload, Download, View, Delete, List |
| validator | `pkg/validator/file.go` | none | SanitizeFilename, ValidateFile |
| storage service | `internal/service/storage.go` | none of its own; locals of the request | Upload, Download, Delete, List |
| file repository | `internal/repository/file.go` | tables `storage`, `files`; Redis keys `file:<id>`, `file_list` | one SQL statement per method, cache fills and invalidations |
| blob store | `pkg/storage/*.go` | paths and their bytes | Put, Get, Delete, List |
| server | `cmd/main.go` | the listener, the blob store it chose | start, shutdown on a signal, being killed |
| schema | `migrations/001_initial.sql` | constraints | primary keys, foreign key ON DELETE RESTRICT |
| errors, configuration, records | `pkg/errors`, `internal/config`, `internal/model` | none | conversions |

How they interact.  A handler calls the service synchronously.  The service calls
the repository and the blob store one after the other; `Download` returns an open
reader that the handler copies to the client, so a read lasts long after the call
that opened it.  The repository talks to PostgreSQL and Redis.  Requests share the
two tables, Redis and the blob store, and nothing else.

What is hard, and what each part must guarantee:

* **Service.**  Upload writes the blob first, then looks for a duplicate, then
  either counts one more reference and drops its copy, or makes the row; Delete
  removes the file, counts one reference less, and at zero reads the path, deletes
  the blob, deletes the row.  Every gap between two calls is open to other
  requests, to a failing call, to an answer that is lost after the statement took
  effect, and to a crash.  Right means: a listed file leads to its bytes and to no
  others; the count never falls below the references; nothing is kept for ever
  that no file needs; a failed upload leaves nothing behind.
* **Repository.**  Readers fill the cache after a query that a writer may have
  overtaken; invalidations ignore errors.  Right means: Redis is coherent with the
  tables whenever nothing is in flight, a deleted file that has gone from Redis does not
  return, and what is wrong does not stay wrong.
* **Blob store.**  A Put may leave a part of a file; a Delete may overtake a
  reader; an HTTP call may time out and still take effect later; one Put may be three
  requests to three servers.
  Right means: whoever was told that a Put went well reads everything or is told
  of an error, and what was deleted never comes back.
* **Handlers.**  An upload is received for as long as the client sends, its name is
  sanitized, then validated; a download reads Redis, the tables and the store one after the
  other and streams for as long as the client reads.  Right means: nobody is sent the bytes
  of another file or of a deleted one, a listed file is served, and the name that is stored
  passes the rules.
* **Server.**  A kill at any point forgets every request; nothing at start-up
  looks for what they left; a signal waits without a deadline for the requests in flight,
  those whose body is still on its way included, and no timeout bounds a client.  Right means:
  an orderly stop leaves nothing half done, and nothing but a client can hold it up.

## 2. Modules

    ContentCatalog          what clients are promised: files, contents, reclamation
      ^ implemented by
    StorageService          Upload and Delete over the tables and a blob store
      StorageServiceInv     inductive invariants and the environments they need
      StorageServiceProofs, ReferenceCountProofs    MCStorageService
      ^ extended by
    FileServer              handlers, downloads, the copy in Redis, the process
      Validator             sanitizing and validating a header
      FileServerProofs                              MCFileServer

    MetadataCache           GetByID, List, create and delete over files and Redis
      MetadataCacheProofs                           MCMetadataCache

    BlobStore               what the service needs of a storage.Storage
      ^ implemented by
    BlobStores              the store main.go chose, one of the three below
      BlobStoresProofs                              MCBlobStores
      StoreCalls            their callers, shared by the three
      LocalStorage          a directory             LocalStorageProofs
      SeaweedFSSimple       a filer over HTTP       SeaweedFSSimpleProofs
        ^ extended by
      SeaweedFSStorage      file id, bytes, mapping SeaweedFSStorageProofs

The MC modules hold the values TLC gives to constants; each is checked under the
configurations of section 3.  ContentCatalog and BlobStore are the two abstract
specifications; the others say what the code does.

### StorageService

`storage_path`, `reference_count` and `files` are the two tables, `blobs` the blob
store.  `pc[r]` names the call request r makes next; `body`, `target`, `hash` and
`found` are the locals of Upload and Delete.  One action is one call with what its
answer makes the code do next:

| code | actions |
|---|---|
| Upload, up to the lookup (storage.go:29-49) | StartUpload, Put, FindDuplicate |
| a duplicate (50-86) | DropCopy, Increment, AttachFile, UndoIncrement |
| a first upload (89-133) | InsertStorage, CreateFile, CleanUpRow, CleanUpBlob |
| Delete (151-206) | StartDelete, FindHash, DeleteFile, Decrement, FindRow, DeleteBlob, DeleteRow |
| the repository's statements | CreateStorage, IncrementStorageRef, DecrementStorageRef, DeleteStorage, CreateFileReference, DeleteByID |

A statement that matches no row succeeds silently where the code lets it
(IncrementStorageRef, DeleteStorage, DeleteByID) and is an error where RETURNING
makes it one (DecrementStorageRef, whose zero value Delete then reads).  The
constraints of the schema decide which INSERT fails.

The environment is four constants.  `Overlaps` lets an upload and a delete of one
content, or two deletes of one file, run at the same time.  `Rejected` are calls
that may fail without effect, `LostReply` calls that may take effect and report an
error (a reset connection, a cancelled request context), `CrashAt` the calls before
which the process may be killed.  Identical uploads may always overlap, and so may
everything that concerns different contents.

A hash stands for its content: SHA-256 is taken to have no collisions.  The two
UUIDs of an upload, path and file id, are both named by the request; they live in
different tables.  Uploads and deletes never read Redis.

### MetadataCache

`rows` is table `files`, `issued` the ids that were ever in it; `file_key` and
`file_list` are the Redis keys.  A copy of a file's metadata is told apart by its
storage path, since the rest of a row never changes; `Marshalled` is what JSON
keeps of that path, which is nothing (`json:"-"`, model/file.go:10 and :29).
Requests go through CreateFileReference (Insert, DropList), DeleteByID (DeleteRow,
DropFile, DropListToo), GetByID (LookUpFile, QueryFile, FillFile) or List
(LookUpList, QueryList, QueryLegacy, FillList).  A query of List may end early and be taken
for the whole (`Truncated`: rows.Err() is not read).  Keys expire at any time.  A request
occupies a slot of `Request` while it is in flight, and the slot is used again: behaviours
have no last request, so nothing becomes true because readers have run out.

### FileServer and Validator

`FileServer` puts the handlers and the process around StorageService, whose actions it
uses unchanged:

| code | actions |
|---|---|
| handler.Upload: FormFile reads the body (handler/file.go:31-36) | Arrive, Received, BreakOff |
| handler.Upload: sanitize, validate, call the service (38-98) | AcceptUpload, RefuseUpload, ServiceStep |
| handler.Delete; DeleteByID's DEL of `file:<id>` (repository/file.go:229) | HandleDelete, ServiceStep, DropKey |
| handler.Download and View, service.Download, GetByID | StartDownload, LookUp, Query, Fill, Open, Stream |
| Get of the empty path | Base |
| PostgreSQL refuses a name that is no UTF-8 | RefusedInsert |
| the key's hour | Expire |
| main: start, SIGINT or SIGTERM, Shutdown, being killed | Boot, Signal, Stop, Kill |

`copies[f]` is the path in the copy under `file:<id>`; the list's key stays with
MetadataCache, which has the finer model of Redis.  `owed` are the deletes between their
statement and the DEL.  `listed[d]` remembers whether d's file was listed when d asked for
it, and exists for the properties only.  `receiving` are the uploads whose body is on its
way.  A blob is opened and then read as BlobStore promises: an opened reader keeps what it
opened.  The empty path is opened as the store does that `Store` says was configured
(main.go:46-57).  The base directory of LocalStorage opens and cannot be read.  A filer, which
`configs/config.yaml:20` selects, answers 200 with a listing of its root
(seaweedfs_simple.go:127-148), `LISTING`; the handler has announced the file's length
(handler/file.go:126), so the stream ends well only if the listing happens to be as long.

`Validator` is a pure module.  A name is a sequence of byte classes, since all its rules
compare bytes with a few sets, and lengths are counted in bytes (`len(filename)`); a rune of
two bytes is a `lead` and a `cont`.  `Settles` says of one name what sanitizing must do;
FileServer's NamesSettle says it of all of them.

### BlobStore, BlobStores and the three stores

`BlobStore` says what the service relies on: a path is put once, asked for only
after its Put answered well, opened only while it is stored, read whole or ended by
an error, missed only when someone removed it, and never back once removed.

`LocalStorage` splits the methods into system calls: create, copy piece by piece,
open, read piece by piece, unlink.  A partial file is there under its path while it
is copied; an open descriptor outlives an unlink.

`SeaweedFSSimple` puts a wire between client and filer: a request that was sent may
be served after its client gave up or died, an entry appears when the filer serves the
POST.  (net/http repeats neither a POST nor a DELETE, and the code does not either.)

`SeaweedFSStorage` extends it: Put asks the master for a file id, sends the bytes to the
volume server, and stores the mapping on the filer, each over the same wire.  Its Get asks
for the path on the filer and therefore answers the mapping document, not the bytes
(seaweedfs.go:256; `ReadMapping`); its Delete removes the mapping only.  So what the
refinement of BlobStore says of this store, it says of the entry on the filer.  No `storage.type` selects it.

`BlobStores` draws the `kind` of store at start, as main.go does once; the variables of the
stores that were not chosen stand still.

## 3. Runs

| run | environment and bounds | shows |
|---|---|---|
| `tolerated` | 5 requests, 2 contents, no overlaps, every failure, lost answer and crash of `Tolerated` | ReferencesCovered, NoDanglingFile, RefinesCatalog |
| `open` | 4 requests, 2 contents, everything overlaps, fails, loses answers and crashes | TypeOK, NeverWrongBytes, PathOfFileStable |
| `overlapping` | 6 requests, 2 contents, everything overlaps, nothing fails | NoForgottenReference, NoStrayBlob, AnsweredIsKept |
| `race_upload_delete` | 3 requests, 1 content | NoDanglingFile is violated |
| `cache_quiet` | 4 slots, 2 files, no reader overlaps a writer of what it reads, every call but an invalidation fails or crashes | TypeOK, CoherentWhenQuiet, FreshAnswers |
| `cache_open` | 2 slots used again and again, 2 files, everything overlaps, fails and crashes, queries are cut short, fairness | EventuallyCoherent, GoneStaysGone |
| `get_delete_race` | 3 slots, 1 file | CoherentWhenQuiet is violated |
| `stores` | each of the three stores, 5 callers, 2 paths of 2 pieces, every call fails, times out, takes effect late or dies | TypeOK, ReadsAreWhole, GoneForGood, MappingNamesVolume, RefinesBlobStore |
| `file_server` | 3 requests, 2 contents, 2 downloads, a filer; uploads break off, Redis fails, signals, kills, names that are refused or end in half a rune; no overlaps, no failing statement | ServerTypeOK, NoOtherFilesBytes, DeletedStaysDeleted, ListedIsServed, RestIsClean, NamesSettle |
| `liveness` | 3 requests, 1 content, 1 download, the local store, failures that only cost an answer, clients that stall, fairness | EveryRequestReturns, UnusedContentReclaimed, DrainEnds, WorkRunsOut |
| `create_file_fails` | 2 requests, 1 content, one name that the sanitizer cuts inside a rune, no other failure | FailedUploadLeavesNoRow is violated |
| `cached_path_lost` | 1 upload, 2 downloads, a filer, no failure | DownloadServes is violated |

What the properties say together.  Whatever happens, nobody is sent the bytes of another
file (`NeverWrongBytes` of the rows, `NoOtherFilesBytes` of what a download sends), and
metadata read earlier still names the right blob (`PathOfFileStable`).  What is answered 200
is the file, with one exception, stated in the property and shown by `cached_path_lost`: a
path lost in Redis makes a filer send the listing of its root under the file's headers.
Within `Tolerated` the bytes are there (`NoDanglingFile`) because the count covers every
reference (`ReferencesCovered`), so a download that took its path from the tables fails only
if its file was deleted (`ListedIsServed`), and a client sees a catalog with deduplication
hidden (`RefinesCatalog`).  The other direction, that the count is not too high, cannot hold
where the wrong calls fail; without failures it holds under any overlap
(`NoForgottenReference`), so that with neither failures nor overlaps the count is exact.
Blobs are not forgotten either while a content is deleted once (`NoStrayBlob`), and an upload
that was answered stays listed with its bytes until somebody deletes a file of its content: no
clean-up or undoing of another upload reaches what the two share (`AnsweredIsKept`).  A process
that was stopped by a signal leaves none of the three stores half updated (`RestIsClean`),
and only a client that stalls can hold the stop up for ever (`DrainEnds`), because no handler
goes back to a call it made (`WorkRunsOut`).  Redis may show a deleted file again
(`get_delete_race`), but only through a reader that queried the table before the delete
(`GoneStaysGone`), and not for good, although a list may go on lacking files while queries go
on being cut short (`EventuallyCoherent`).  Nothing of a deleted file is sent
(`DeletedStaysDeleted`) although its copy may come back to Redis and its blob may live on for a duplicate; the reason
is the very defect of `cached_path_lost`: the copy has no path.  A repair of the one has to
keep the other.

Bounds.  A request takes at most six calls, and the protocol has two kinds.  Five
requests hold a first upload, a duplicate, both deletes and an upload that comes
while, or after, the row is reclaimed; the longest counterexamples met while the
properties were shaped took six requests of one content (two deletes, a failed upload
and a third upload that loses its row), which is the bound of `overlapping`.  A second
content shows that contents do not disturb each other; it costs little under symmetry.

`file_server` and `liveness` have three requests: an upload, then a duplicate of it or its
delete, then what meets the row afterwards.  With four the product with the downloads and
the process is beyond five minutes; what a fourth and later requests add is among uploads and
deletes, and the runs of StorageService have it.  Two downloads
are the one that fills the copy and the one that finds it.  The names are every sequence of up
to five bytes over ten classes, 111,111 of them, with four as the limit: one byte above the
limit, a name and an extension that each may fill it, a rune on either side of the cut.  The
requests carry three of them: one that is trimmed, one that is refused and one that is cut.

In the cache a key has at most one writer and two readers that matter; four slots hold a
create, a delete and two readers of the same file.  `cache_open` has two, a reader and whoever
overtakes it: each slot is used without end, so the bound is on requests in flight, not on their
number, and three slots with one file pass as well.  Two pieces tell a partial blob from an
empty and from a whole one; five callers are a Put, two Gets and two Deletes of one path.
The runs with liveness use no symmetry.  Outside MetadataCache requests are finite in number:
that is the only bound on time, and the proofs lift it.

Fairness.  `FileServer!ServerFairness` and `MetadataCache!Fairness` are weak fairness of each
request's calls: goroutines are scheduled preemptively, and every call returns, since pgx,
go-redis and the 30-second HTTP client end in an answer or an error and the body of an upload
was received in full (`c.FormFile`) before the service is called.  Nothing is assumed of clients:
neither the reception of an upload (`BreakOff`, AcceptUpload, RefuseUpload) nor `Stream` is fair,
since `http.Server` is built without timeouts (main.go:85-88) and a client that stalls holds up a
Shutdown for ever.  `DrainEnds` says so: a shutdown ends, or from some point on there is always a
client that sends or reads.  `Stop` is fair: Shutdown polls and returns when it can.  Redis drops
a key when its hour or ten minutes are over, but SET starts them again; so what is fair in
MetadataCache is that a key expires or is set (`ExpireFile(f) \/ SetFile(f)`), and a reader that
renewed what it read could keep a key for ever.  No strong fairness is assumed anywhere.

Deadlock is checked in every run: `Finished` is enabled only when every request was
answered; FileServer, which may always be started or stopped again, and MetadataCache, whose
slots are used again, have no such step.

## 4. Where the program differs from what it says

* **An upload may lose its blob to a delete of the same content**
  (`race_upload_delete`).  Delete decides on the count at storage.go:164-177 and removes
  blob and row in later calls.  An upload in between attaches a file to the row.  FEATURES.md:42
  promises removal only with the last reference.
* **A failed CreateFileReference leaves a row whose blob is gone** (`create_file_fails`).
  The clean-up of storage.go:123 calls DeleteStorage, which wants a count of zero; the row
  has one.  Every later upload of the content becomes a duplicate of nothing.  No broken
  connection is needed: a name longer than the limit is cut at a byte (validator/file.go:198),
  and a cut inside a rune makes a string that PostgreSQL refuses.  That INSERT, refused or
  answered with an error although it took effect, and the row's INSERT whose answer is lost are
  the only causes: without them no failed upload leaves a row, whatever overlaps, fails or dies
  (FailedUploadLeavesNoRowHolds in section 5).
* **Metadata from Redis has no path** (`cached_path_lost`).  After the first download of
  a file, and for an hour, GetByID answers a file whose path is empty, and Download asks
  the store for it.  A filer, which the shipped configuration selects (configs/config.yaml:20),
  answers the listing of its root, and the client is sent that under the file's name, type and
  length; the local store opens its base directory and the read fails.
* **A deleted file comes back from Redis** (`get_delete_race`): a GetByID whose query is
  older than the delete fills the key after the invalidation.

`Tolerated` and `Quiet` name what had to be left out for the properties to hold; each of
these is a change of one line in `Tolerated.cfg` or `CacheQuiet.cfg` after which TLC refutes the property at its right:

| left out | line | refuted |
|---|---|---|
| two deletes of one file at a time: both count | storage.go:164 | NoDanglingFile, ReferencesCovered |
| a failing DecrementStorageRef is read as zero | storage.go:165 | NoDanglingFile |
| a crash, or a failing DeleteStorage, after the blob is gone | storage.go:194 | NoDanglingFile, RefinesCatalog |
| a first upload's INSERT, or a decrement, whose answer is lost | storage.go:101, :121, :164 | NoDanglingFile |
| a duplicate's INSERT whose answer is lost, and its increment undone | storage.go:75 | ReferencesCovered, NoDanglingFile |
| a List that overlaps a writer | repository/file.go:280 | CoherentWhenQuiet |
| an invalidation that fails, its error unread | repository/file.go:131, :229 | CoherentWhenQuiet |
| rows that stop early, rows.Err() unread | repository/file.go:276 | CoherentWhenQuiet |

`RestIsClean` and `ListedIsServed` speak of an environment without overlaps and of names the
database takes (`misnamed = {}`): without these limits the counterexamples of
`race_upload_delete` and `create_file_fails` refute both.

Also met, and not stated as a property: the 30 seconds of `read_timeout` and `write_timeout`
(configs/config.yaml:3-4, TECHNICAL.md:410-411) are never given to the server (main.go:85-88),
which is why DrainEnds has its second case; deleting a file that is not there is answered 500
where API.md:207 promises 404, and any error of Download is answered 404; a View may be shown
from the browser's cache for an hour after the delete (handler/file.go:209); the documents
promise names of 255 characters (API.md:107, FEATURES.md:22) where the code counts bytes; the second of two identical first uploads that
overlap is refused by the primary key (storage.go:101) where API.md:113 describes
deduplication; a row left at count zero because GetStorageByHash failed (storage.go:179) is
never looked at again unless the content comes back; two deletes of a content may leave the
blob of a third upload without a row.

## 5. Proofs

All theorems hold for every finite set of requests and every value of the other constants
that satisfies the named ASSUMEs (and, where stated, a named environment: a hypothesis about
which calls fail and which requests overlap, not about the code).

| theorem | under | says |
|---|---|---|
| StorageServiceProofs!TypeCorrect, NeverWrongBytesHolds, PathOfFileStableHolds | nothing | `Spec => []TypeOK`, `[]NeverWrongBytes`, `PathOfFileStable` |
| StorageServiceProofs!ReferencesCoveredHolds, NoDanglingFileHolds, RefinesCatalogHolds | Tolerated | the three properties of `tolerated` |
| StorageServiceProofs!FailedUploadLeavesNoRowHolds, AnsweredIsKeptHolds | RowsKept | no failed upload leaves a row; an answered one keeps its file and bytes while nobody deletes its content; any overlap, crash or other failure |
| ReferenceCountProofs!NoForgottenReferenceHolds | Accounted | no count exceeds its references, with every overlap |
| ReferenceCountProofs!CountsExactHolds | Tolerated, Accounted | the count is the number of holders |
| ReferenceCountProofs!NoStrayBlobHolds | CopiesKept | no blob without a row while a content is deleted once, with every overlap |
| FileServerProofs!ServerTypeCorrect, NoOtherFilesBytesHolds, DeletedStaysDeletedHolds | nothing (either store) | the three properties of `file_server` |
| FileServerProofs!ListedIsServedHolds | Reliable (Tolerated, and the reads of tables and store do not fail) | `[]ListedIsServed` |
| FileServerProofs!RestIsCleanHolds | Orderly (Tolerated, and no statement and no call of the store fails) | `[]RestIsClean` |
| FileServerProofs!NamesSettleHolds | nothing | `[]NamesSettle`, for every set of names and every limit |
| FileServerProofs!WorkRunsOutHolds | nothing | `WorkRunsOut` |
| FileServerProofs!ServerRefinesCatalogHolds, ServerAnsweredIsKeptHolds | Tolerated or RowsKept, and CleanNames (whole runes, within the limit) | the whole server implements ContentCatalog and keeps what it answered for |
| FileServerProofs!ServerNoStrayBlobHolds | CopiesKept | the whole server forgets no blob, whatever names it is sent |
| MetadataCacheProofs!TypeCorrect | nothing | `Spec => []TypeOK` |
| MetadataCacheProofs!GoneStaysGoneHolds | nothing | `GoneStaysGone`: only a reader from before the delete shows a deleted file again |
| MetadataCacheProofs!CoherentWhenQuietHolds, FreshAnswersHolds | Quiet | the two properties of `cache_quiet` |
| BlobStoresProofs!TypeCorrect, ReadsAreWholeHolds, GoneForGoodHolds, MappingNamesVolumeHolds, RefinesBlobStoreHolds | nothing | every property of `stores` |
| SeaweedFSStorageProofs!MappedImplementsSimple | nothing | three requests per Put implement one |

The arguments.

* `BaseInv` (StorageServiceInv) is inductive in every environment.  NeverWrongBytes is not
  inductive alone: it needs that a row's path was written by the upload that made the row,
  and that upload is past its Put (`RowInv`), which in turn needs that an upload about to make
  a row wrote its own path (`CopyInv`).
* `SafeInv` is inductive within `Tolerated`.  It adds who may be active at the same time
  (`DisciplineInv`), what a delete knows about its file (`DeleteInv`), that no row names the
  path of an upload which may still drop its copy (`UploadInv`), who alone may have removed a
  blob (`BlobInv`), and the count against its holders (`ReferencesCovered`).  The count is
  compared with the cardinality of a set that one request at a time enters or leaves
  (`StepShape`, `HolderCounts`), which reduces each step to adding or removing one element.
* `AccountInv` is inductive within `Accounted`, where no overlap is shut out, so nothing in it
  may speak of who is active with whom.  It says that an upload that owns no reference yet has
  no file and no delete works for it (`FreshInv`: a step that counts one more adds a new
  holder), that a delete gives back to the content of its file (`TargetInv`: a step that counts
  one less loses one holder at most, two deletes of a file sharing theirs), and that a content
  without a row counts nothing (`CountInv`: the statements that match no row lose nothing).  Each
  step then leaves every content alone, adds one holder, drops one or removes the row (`Moves`).
  `Accounted` leaves out the failures after which nobody gives a reference back: those of
  CreateFileReference in a first upload and of a decrement, lost answers of an increment, of a first
  upload's INSERT and of the DELETE of a file, and a crash between the statement on one table and that
  on the other.
* `KeptInv` is inductive in every environment: AccountInv's parts that need no environment
  (`FreshInv`, `TargetInv`, `CountInv`), what a delete knows of its file (`TargetKnown`), and, as
  long as the history has one delete per content, `OnceInv`.  That premise can only become false
  (`OnceBefore`), so the induction has it before every step.  OnceInv says who answers for bytes
  that no row names (`BytesOwned`), that every count covers the references that will be given back
  (`OwnersCovered`), that an upload which found a row keeps it (`DuplicateStays`), and that a row
  goes only with the one delete of its content, which has read the row's own path (`Removed`).
  The count is compared with owners, not with holders: a first upload may still be
  refused its file and give nothing back.  `CopiesKept` leaves out a failing Put or removal of a copy, a lost
  answer of Put or of the INSERT of a file, and a crash while a copy is without a row.  TLC refutes
  NoStrayBlob with each of these alone, six requests and one content.
* `UndeletedInv` is inductive within `RowsKept`.  A row's maker is on its way to list its file, has
  been answered or was killed (`MakersInv`), so nobody cleans up a row that stands.  While a content
  is undeleted its row stays, with its blob, and no file of it goes (`RowsStay`, `FilesStay`): what a
  delete, a copy or a clean-up takes away is its own upload's or of a content with a delete
  (`OfTarget`).  `RowsKept` leaves out the three failures of the finding above, and TLC refutes both
  properties with each of them alone.
* NamesSettle is a fact about three functions, proved for every sequence of byte classes rather
  than the run's five bytes.  The prover has no induction over sequences here, so each function is
  given by what is true of its first and last kept position (`LeastNatural`, `Extremes`, `ExtIs`):
  sanitizing a name leaves a trimmed name without separators or control bytes whose extension is
  the one it came with (`TrimmedShape`, `ReplacedShape`, `CutExt`), and each function leaves such a
  name alone (`TrimmedFixed`, `ReplacedFixed`), so that sanitizing twice is sanitizing once
  (`NameSettles`).  The cut keeps whole runes exactly when no rune crosses it (`TrimKeepsRunes`,
  `CutSettles`).  The provers do not know that a string literal is a STRING: `Bytes` adds the one
  literal that ReplaceAllString writes.
* A step of FileServer is, for the service, a step of StorageService, none, or the refusal of a
  name (`ServiceMove`), and each of them keeps `BaseInv`; what a step of the service may change
  under a download is `Frame`: once its Put is over the bytes under a path can only go away, what
  an upload brought stays the same, and a file that is gone is not listed again.  `ReadInv` says of each download that the path it read was that of its
  file, or lost, and what it opened the file's bytes, or a filer's listing if the path was lost;
  `NoOtherFilesBytes` follows.  For ListedIsServed, `ServedInv` adds `SafeInv` and that the row
  still has the path a download holds while its file is listed; it is stated for `misnamed = {}`, since a refused
  name leads to the finding above.
* What the service promises is carried to the whole server.  Sanitizing leaves a name alone that is
  well formed and fits (`AcceptsWhole`), so with `CleanNames` nothing is ever refused by the
  database (`CleanInv`) and each step of the server is a step of StorageService or leaves it alone:
  its theorems hold of ServerSpec.  NoStrayBlob needs no such names: the refusal of a name
  removes the blob and leaves the row, which KeptInv allows.
* `GoneStaysGone` needs that an id is inserted once, by the request that drew it
  (`InsertsFresh`), so that a row that is gone stays gone; then no query can find the file, and
  what a reader sets in Redis was read by a query.
* `WorkRunsOut` is the safety half of EveryRequestReturns and DrainEnds: every step of a request
  or download takes it to a state with fewer calls ahead, at most six and five, in any
  environment.  It remains that a handler which has a call ahead can make it, which is fairness
  and ENABLED, and is left to the run.
* For RestIsClean, `OrderlyInv` joins `SafeInv` and `AccountInv`, which fix the counts, with who owns
  what no file needs: bytes belong to a row or to an upload that will make one or remove them
  (`BytesOwned`), a row of count zero to a delete that will remove it (`ZeroOwned`), and that delete has
  the row's path and removes the bytes first (`DeleteHasPath`).  It speaks of runs in which no
  request was killed; when the process is down nothing is active (`RestInv`), so nobody owns anything.
* `CacheInv` says, of each key and each reader's local, which writer still owes it an
  invalidation; with readers and writers of one key apart, nobody fills a key someone has dropped.
* The refinements of the stores are proved per step: a step of one client changes the mapped
  state of that client only (`Moves`), and each of its calls is a call of the abstract store or a
  stutter.  SeaweedFSStorage is mapped to SeaweedFSSimple first: until its Put asks for the
  mapping it is as if nothing had been sent, so GoneForGood and the refinement carry over.
  BlobStoresProofs takes the three proofs as instances, one per kind; the kind never changes, and
  what does not belong to it stands still.

The environments are not wider than the code allows, nor narrower than the proofs need: TLC ran
each of KeptInv and UndeletedInv in its full environment (every failure it admits at once; four
requests and two contents, six and one for KeptInv) before it was proved.

Only model-checked: the four liveness properties, `EveryRequestReturns`,
`UnusedContentReclaimed`, `DrainEnds` and `EventuallyCoherent`.  They rest on weak fairness, thus
on ENABLED, which the prover does not handle.  Every safety property and every action property of a
passing run is stated by a theorem.  Of the properties that the violation runs refute,
`NoDanglingFile`, `FailedUploadLeavesNoRow` and `CoherentWhenQuiet` are theorems of the
environments named above; `DownloadServes` is not, since any second download breaks it.

## 6. Not modelled

* `SanitizeError` (pkg/errors) and the configuration: functions without state on which no
  decision depends.  `CalculateFileHash` (service/dedup.go) has no caller.  deploy.sh, the compose
  file and the documents are quoted, not modelled.
* The texts and headers of answers; the tables of MIME types, dangerous extensions and reserved
  names, which are one member each.
* `storage.List` of the three stores (no caller), their health checks at start, which change
  nothing, `createDirectory` (not reached with a path without a slash), and `sanitizePath`, which
  leaves a UUID as it is.
* The store's calls inside FileServer: there a Put, an open and a Delete are one step each, as
  BlobStore promises and BlobStores shows.  The list's key is in MetadataCache only.
* A statement that PostgreSQL executes after its client timed out; one that takes effect
  before the error is reported is `LostReply`.
* The browser's cache of a View.
* Overflow of reference_count (an INTEGER, after 2^31 uploads of one content), collisions of
  SHA-256 and of UUIDs, a power failure (files are not synced), the legacy columns (no
  statement of the service writes them).

## 7. Plan

Done, in this order: the service with its catalog; its invariants and theorems; the cache; the
blob stores and which of them is chosen; the validator; the server with its downloads; the
reference counts under every overlap; what an orderly stop leaves; blobs without a row under
every overlap; what was answered stays; names of any length; the server as an implementation of
the catalog.  What is left:

1. What two deletes of one content may leave: `KeptInv` ends where a second delete begins,
   although only deletes that overlap should lose a blob.
2. FileServer's reads joined to MetadataCache's keys: the copies of the former as an abstraction
   of `file_key`, proved step by step.
3. A power failure under LocalStorage (no fsync before the row is committed), once there is a
   statement of what the server promises then.
