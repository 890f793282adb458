------------------------------ MODULE FileServer ------------------------------
(***************************************************************************)
(* The whole server: the handlers of internal/handler/file.go over the       *)
(* storage service, the file's copy in Redis and the process of cmd/main.go. *)
(*                                                                          *)
(* An upload is received whole and validated before the service is called; a *)
(* delete of the row also drops the copy; a download asks Redis, then the      *)
(* tables, then the blob store, and streams what it opened.  A signal closes    *)
(* the listener and waits for the handlers; a kill waits for nothing.          *)
(*                                                                          *)
(* Abstractions: those of StorageService; a copy in Redis is told apart by    *)
(* its storage path, the list's key is left to MetadataCache, and an opened   *)
(* blob is read as BlobStore promises, the empty path as the store opens it.   *)
(***************************************************************************)
EXTENDS StorageService, Validator

CONSTANTS
    Reader,     \* the downloads and views served; each is started at most once
    EMPTY,      \* the empty storage path
    Store,      \* the blob store of configs/config.yaml: "local" or "filer"
    LISTING,    \* what a filer answers for the empty path: the files of its root
    RawHeader,  \* the names, sizes and types of the files clients send
    Flaky       \* calls of downloads and of Redis that may fail

ReadCalls == {"LookUp", "Query", "Fill", "Open", "Stream"}
Answered == {"200", "404", "500", "dead"}

ASSUME EmptyAssumption == EMPTY \notin Request /\ EMPTY # NULL
ASSUME StoreAssumption == Store \in {"local", "filer"}
ASSUME ListingAssumption == LISTING \notin Content \cup {NULL, PARTIAL}
ASSUME FlakyAssumption == Flaky \subseteq ReadCalls \cup {"DropKey"}
ASSUME HeaderAssumption ==
    RawHeader \subseteq [name : Filename, size : Nat, contentType : STRING]

VARIABLES
    server,     \* the process: "down", "up", or "draining" after a signal
    receiving,  \* uploads whose body is on its way
    copies,     \* Redis: the path in the copy under file:<id>, NULL when absent
    owed,       \* deletes that changed table files and have yet to drop the key
    misnamed,   \* uploads whose name PostgreSQL refuses
    rpc,        \* the call each download makes next, or its status
    rid,        \* the file it asks for
    rpath,      \* the path in the metadata it read
    rbytes,     \* what it opened
    listed      \* whether the file was listed when it was asked for

process == <<server, receiving, owed, misnamed>>
reader == <<rpc, rid, rpath, rbytes, listed>>
serverVars == <<vars, copies, process, reader>>

ServerTypeOK ==
    /\ TypeOK
    /\ server \in {"down", "up", "draining"}
    /\ receiving \subseteq Request
    /\ copies \in [Request -> Request \cup {NULL, EMPTY}]
    /\ owed \subseteq Request /\ misnamed \subseteq Request
    /\ rpc \in [Reader -> ReadCalls \cup Answered \cup {"idle"}]
    /\ rid \in [Reader -> Request \cup {NULL}]
    /\ rpath \in [Reader -> Request \cup {NULL, EMPTY}]
    /\ rbytes \in [Reader -> Content \cup {NULL, PARTIAL, LISTING}]
    /\ listed \in [Reader -> BOOLEAN]

ServerInit ==
    /\ Init
    /\ server = "down"
    /\ receiving = {}
    /\ copies = [f \in Request |-> NULL]
    /\ owed = {} /\ misnamed = {}
    /\ rpc = [d \in Reader |-> "idle"]
    /\ rid = [d \in Reader |-> NULL]
    /\ rpath = [d \in Reader |-> NULL]
    /\ rbytes = [d \in Reader |-> NULL]
    /\ listed = [d \in Reader |-> FALSE]

\* A connection accepted before the signal may still bring its request.
Serving == server # "down"

Reading(d) == rpc[d] \in ReadCalls

\* Nothing the server waits for.
Quiet ==
    /\ receiving = {} /\ owed = {}
    /\ (\A r \in Request : ~ Active(r)) /\ (\A d \in Reader : ~ Reading(d))

-----------------------------------------------------------------------------
(* Uploads and deletes *)

\* FormFile reads the whole body before the handler looks at it, as slowly as the
\* client sends it: the server sets no timeout.
Arrive(r) ==
    /\ Serving
    /\ pc[r] = "idle" /\ r \notin receiving
    /\ receiving' = receiving \cup {r}
    /\ UNCHANGED <<vars, server, copies, owed, misnamed, reader>>

Received(r) ==
    /\ Serving
    /\ pc[r] = "idle" /\ r \in receiving
    /\ receiving' = receiving \ {r}

\* The body ends early, or is no form with a file.
BreakOff(r) ==
    /\ Received(r)
    /\ Goto(r, "err")
    /\ UNCHANGED <<tables, blobs, locals, server, copies, owed, misnamed, reader>>

\* UTF-8 is what the database's encoding wants of a name.
AcceptUpload(r, c, h) ==
    LET name == SanitizeFilename(h.name)
    IN  /\ Received(r)
        /\ h.size \in 1..MaxFileSize
        /\ ValidateFile([h EXCEPT !.name = name])
        /\ StartUpload(r, c)
        /\ misnamed' = IF WellFormed(name) THEN misnamed ELSE misnamed \cup {r}
        /\ UNCHANGED <<server, copies, owed, reader>>

RefuseUpload(r, h) ==
    /\ Received(r)
    /\ ~ ValidateFile([h EXCEPT !.name = SanitizeFilename(h.name)])
    /\ Goto(r, "err")
    /\ UNCHANGED <<tables, blobs, locals, server, copies, owed, misnamed, reader>>

HandleDelete(r, f) ==
    /\ Serving
    /\ r \notin receiving
    /\ StartDelete(r, f)
    /\ UNCHANGED <<copies, process, reader>>

\* DeleteByID goes on to Redis whether or not its statement reported an error.
ServiceStep(r) ==
    /\ r \notin owed
    /\ r \in misnamed => pc[r] \notin {"AttachFile", "CreateFile"}
    /\ owed' = IF pc[r] = "DeleteFile" THEN owed \cup {r} ELSE owed
    /\ Step(r)
    /\ UNCHANGED <<server, receiving, copies, misnamed, reader>>

\* The statement is refused for the name alone.
RefusedInsert(r) ==
    /\ r \in misnamed
    /\ \/ pc[r] = "AttachFile" /\ Goto(r, "UndoIncrement")
       \/ pc[r] = "CreateFile" /\ Goto(r, "CleanUpRow")
    /\ UNCHANGED <<tables, blobs, locals, copies, process, reader>>

DropKey(r) ==
    /\ r \in owed
    /\ owed' = owed \ {r}
    /\ \/ copies' = [copies EXCEPT ![target[r]] = NULL]
       \/ "DropKey" \in Flaky /\ UNCHANGED copies
    /\ UNCHANGED <<vars, server, receiving, misnamed, reader>>

-----------------------------------------------------------------------------
(* Download and View, which differ in their headers only *)

ReaderGoto(d, l) == rpc' = [rpc EXCEPT ![d] = l]
Fails(d) == rpc[d] \in Flaky

\* Mutant: the copy has the path.
MarshalledInFull(p) == p

\* What JSON keeps of a file's path: model.File and model.Storage tag it "-".
Marshalled(p) == EMPTY

\* A client knows an id from the answer to an upload or from List.
StartDownload(d, f) ==
    /\ Serving
    /\ rpc[d] = "idle"
    /\ files[f] # NULL \/ (pc[f] = "ok" /\ body[f] # NULL)
    /\ rid' = [rid EXCEPT ![d] = f]
    /\ listed' = [listed EXCEPT ![d] = files[f] # NULL]
    /\ ReaderGoto(d, "LookUp")
    /\ UNCHANGED <<vars, copies, process, rpath, rbytes>>

LookUp(d) ==
    /\ rpc[d] = "LookUp"
    /\ \/ /\ copies[rid[d]] # NULL
          /\ rpath' = [rpath EXCEPT ![d] = copies[rid[d]]]
          /\ ReaderGoto(d, "Open")
       \/ /\ copies[rid[d]] = NULL \/ Fails(d)
          /\ ReaderGoto(d, "Query")
          /\ UNCHANGED rpath
    /\ UNCHANGED <<vars, copies, process, rid, rbytes, listed>>

\* Mutant: the hash is taken for the path.
QueryHash(d) ==
    /\ rpc[d] = "Query"
    /\ files[rid[d]] # NULL
    /\ rpath' = [rpath EXCEPT ![d] = files[rid[d]]]
    /\ ReaderGoto(d, "Fill")
    /\ UNCHANGED <<vars, copies, process, rid, rbytes, listed>>

\* Mutant: the join has lost its condition.
QueryUnjoined(d) ==
    /\ rpc[d] = "Query"
    /\ files[rid[d]] # NULL
    /\ \E h \in Content : RowExists(h) /\ rpath' = [rpath EXCEPT ![d] = storage_path[h]]
    /\ ReaderGoto(d, "Fill")
    /\ UNCHANGED <<vars, copies, process, rid, rbytes, listed>>

\* Mutant: a lookup that finds nothing is made again.
QueryAgain(d) ==
    /\ rpc[d] = "Query"
    /\ files[rid[d]] # NULL
    /\ rpath' = [rpath EXCEPT ![d] = storage_path[files[rid[d]]]]
    /\ ReaderGoto(d, "Fill")
    /\ UNCHANGED <<vars, copies, process, rid, rbytes, listed>>

\* The row joined with its storage row; the legacy query after it finds no row
\* either, or NULL in its columns.
Query(d) ==
    /\ rpc[d] = "Query"
    /\ \/ /\ files[rid[d]] # NULL
          /\ rpath' = [rpath EXCEPT ![d] = storage_path[files[rid[d]]]]
          /\ ReaderGoto(d, "Fill")
       \/ /\ files[rid[d]] = NULL \/ Fails(d)
          /\ ReaderGoto(d, "404")
          /\ UNCHANGED rpath
    /\ UNCHANGED <<vars, copies, process, rid, rbytes, listed>>

Fill(d) ==
    /\ rpc[d] = "Fill"
    /\ \/ copies' = [copies EXCEPT ![rid[d]] = Marshalled(rpath[d])]
       \/ Fails(d) /\ UNCHANGED copies
    /\ ReaderGoto(d, "Open")
    /\ UNCHANGED <<vars, process, rid, rpath, rbytes, listed>>

\* The empty path names the base directory of LocalStorage, which opens but has no bytes,
\* and the root of a filer, which answers 200 with a listing.
Base == IF Store = "filer" THEN LISTING ELSE NULL

Open(d) ==
    /\ rpc[d] = "Open"
    /\ \/ /\ rpath[d] = EMPTY
          /\ rbytes' = [rbytes EXCEPT ![d] = Base]
          /\ ReaderGoto(d, "Stream")
       \/ /\ rpath[d] # EMPTY /\ blobs[rpath[d]] # NULL
          /\ rbytes' = [rbytes EXCEPT ![d] = blobs[rpath[d]]]
          /\ ReaderGoto(d, "Stream")
       \/ /\ (rpath[d] # EMPTY /\ blobs[rpath[d]] = NULL) \/ Fails(d)
          /\ ReaderGoto(d, "404")
          /\ UNCHANGED rbytes
    /\ UNCHANGED <<vars, copies, process, rid, rpath, listed>>

\* Content-Length is the file's, so that only a listing as long as the file ends well;
\* a stream that breaks ends badly too.
Stream(d) ==
    /\ rpc[d] = "Stream"
    /\ \/ rbytes[d] # NULL /\ ReaderGoto(d, "200")
       \/ (rbytes[d] \in {NULL, LISTING} \/ Fails(d)) /\ ReaderGoto(d, "500")
    /\ UNCHANGED <<vars, copies, process, rid, rpath, rbytes, listed>>

\* A copy lives one hour.
Expire(f) ==
    /\ copies[f] # NULL
    /\ copies' = [copies EXCEPT ![f] = NULL]
    /\ UNCHANGED <<vars, process, reader>>

-----------------------------------------------------------------------------
(* The process *)

\* Nothing at start-up looks for what an earlier process left.
Boot ==
    /\ server = "down"
    /\ server' = "up"
    /\ UNCHANGED <<vars, receiving, copies, owed, misnamed, reader>>

\* SIGINT or SIGTERM; a second one is only buffered.
Signal ==
    /\ server = "up"
    /\ server' = "draining"
    /\ UNCHANGED <<vars, receiving, copies, owed, misnamed, reader>>

\* Mutant: the process ends with its listener.
StopAtOnce ==
    /\ server = "draining"
    /\ server' = "down"
    /\ UNCHANGED <<vars, receiving, copies, owed, misnamed, reader>>

\* srv.Shutdown returns when no request is left, those still being received among them:
\* its context never ends.
Stop ==
    /\ server = "draining"
    /\ Quiet
    /\ server' = "down"
    /\ UNCHANGED <<vars, receiving, copies, owed, misnamed, reader>>

Kill ==
    /\ Serving
    /\ \A r \in Request : Active(r) => pc[r] \in CrashAt
    /\ server' = "down"
    /\ pc' = [r \in Request |-> IF Active(r) THEN "dead" ELSE pc[r]]
    /\ rpc' = [d \in Reader |-> IF Reading(d) THEN "dead" ELSE rpc[d]]
    /\ receiving' = {} /\ owed' = {}
    /\ UNCHANGED <<tables, blobs, locals, copies, misnamed, rid, rpath, rbytes, listed>>

RequestStep(r) == ServiceStep(r) \/ RefusedInsert(r) \/ DropKey(r)

Find(d) == LookUp(d) \/ Query(d) \/ Fill(d) \/ Open(d)

ReaderStep(d) == Find(d) \/ Stream(d)

ServerNext ==
    \/ \E r \in Request, c \in Content, h \in RawHeader : AcceptUpload(r, c, h)
    \/ \E r \in Request, h \in RawHeader : RefuseUpload(r, h)
    \/ \E r \in Request : Arrive(r) \/ BreakOff(r)
    \/ \E r, f \in Request : HandleDelete(r, f)
    \/ \E r \in Request : RequestStep(r)
    \/ \E d \in Reader, f \in Request : StartDownload(d, f)
    \/ \E d \in Reader : ReaderStep(d)
    \/ \E f \in Request : Expire(f)
    \/ Boot \/ Signal \/ Stop \/ Kill

ServerSpec == ServerInit /\ [][ServerNext]_serverVars

\* Every call to PostgreSQL, to Redis and to the store returns, and a Shutdown that may
\* return does.  Nothing makes a client send its upload or read its download to the end.
ServerFairness ==
    /\ \A r \in Request : WF_serverVars(RequestStep(r))
    /\ \A d \in Reader : WF_serverVars(Find(d))
    /\ WF_serverVars(Stop)

ServerFairSpec == ServerSpec /\ ServerFairness

-----------------------------------------------------------------------------
(* Properties *)

\* Nobody is sent the bytes of another file, whatever the download read from Redis, from
\* the tables and from the store between the steps of uploads and deletes; and what is
\* answered 200 is the file, unless its path was lost in Redis and the store is a filer
\* (handler.Download over service.Download).
NoOtherFilesBytes ==
    \A d \in Reader :
        /\ rbytes[d] \notin {NULL, LISTING} => rbytes[d] = body[rid[d]]
        /\ rpc[d] = "200" /\ (rpath[d] = EMPTY => Store = "local") =>
               rbytes[d] = body[rid[d]]

\* Nothing of a file whose delete has taken effect is sent to anyone who asks for it
\* later, although its copy may come back to Redis and its blob may live on for a
\* duplicate: the copy has no path (docs/API.md, DELETE).
DeletedStaysDeleted ==
    \A d \in Reader : ~ listed[d] => rbytes[d] \in {NULL, LISTING}

\* A download that read its path from the tables fails only because its file has been
\* deleted: between its query and its open nobody removes the blob of a listed file, as
\* long as the database refuses no name.
ListedIsServed ==
    \A d \in Reader :
        rpc[d] \in {"404", "500"} /\ rpath[d] # EMPTY /\ misnamed = {} => files[rid[d]] = NULL

\* "Graceful shutdown" (docs/ARCHITECTURE.md:57): a process that was stopped, and never
\* killed, leaves counts equal to the references, no row without a file, and no blob
\* without a row or row without its blob, as long as the database refuses no name.  That is
\* so where requests do not overlap and no statement fails; downloads and Redis may.
RestIsClean ==
    server = "down" /\ misnamed = {} /\ (\A r \in Request : pc[r] # "dead") =>
        /\ \A h \in Content :
               /\ reference_count[h] = Cardinality({f \in Request : files[f] = h})
               /\ RowExists(h) => Referenced(h)
        /\ {p \in Request : blobs[p] # NULL}
               = {storage_path[h] : h \in {c \in Content : RowExists(c)}}

\* Whatever name the first upload brings, the one that is stored for it is settled
\* (SanitizeFilename, then ValidateFile).  The validator keeps no state, so what holds of
\* the first upload holds of the others.
NamesSettle ==
    (\A r \in Request : pc[r] = "idle" /\ r \notin receiving) => \A n \in Filename : Settles(n)

\* The most calls that a request, a download may still make.
CallsAhead ==
    [idle |-> 7, Put |-> 6, FindDuplicate |-> 5,
     DropCopy |-> 4, Increment |-> 3, AttachFile |-> 2, UndoIncrement |-> 1,
     CreateStorage |-> 4, CreateFile |-> 3, CleanUpRow |-> 2, CleanUpBlob |-> 1,
     FindHash |-> 6, DeleteFile |-> 5, Decrement |-> 4,
     FindRow |-> 3, DeleteBlob |-> 2, DeleteRow |-> 1,
     ok |-> 0, err |-> 0, dead |-> 0]

ReadsAhead(l) ==
    IF l \in Answered THEN 0
    ELSE [idle |-> 6, LookUp |-> 5, Query |-> 4, Fill |-> 3, Open |-> 2, Stream |-> 1][l]

\* No handler tries a call again or goes back to an earlier one, whatever fails and whoever
\* is in its way: each of its steps leaves it fewer calls, so that it ends if only every
\* call returns; and a delete drops its file's copy once.
WorkRunsOut ==
    [][/\ \A r \in Request : pc'[r] # pc[r] => CallsAhead[pc'[r]] < CallsAhead[pc[r]]
       /\ \A d \in Reader : rpc'[d] # rpc[d] => ReadsAhead(rpc'[d]) < ReadsAhead(rpc[d])
       /\ \A r \in owed' \ owed : pc[r] = "DeleteFile" /\ pc'[r] # pc[r]]_serverVars

\* "GetStoragePath returns the storage path" (internal/model/file.go:56): a listed file
\* is served, wherever its metadata was read.
DownloadServes ==
    \A d \in Reader :
        rpc[d] \in {"200", "404", "500"} /\ files[rid[d]] # NULL =>
            rpc[d] = "200" /\ rbytes[d] = body[rid[d]]

\* A client that sends its upload or reads its download keeps its handler.
HeldByClient == receiving # {} \/ \E d \in Reader : rpc[d] = "Stream"

\* A shutdown ends, or clients hold it up for ever, with no timeout to let go of them
\* (cmd/main.go:85-88, :101): no handler in flight waits for anything else that does not
\* come.
DrainEnds == []<>(server # "draining") \/ <>[]HeldByClient
=============================================================================
