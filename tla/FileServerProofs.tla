--------------------------- MODULE FileServerProofs ---------------------------
(***************************************************************************)
(* What TLAPS proves about FileServer for any number of requests, contents   *)
(* and downloads.                                                            *)
(*                                                                          *)
(* To the tables and the blobs the server's steps are those of the service,  *)
(* and two more: an upload the handler refuses and an INSERT refused for its  *)
(* name (ServiceMove).  So the service's invariants hold here too.  Of a     *)
(* download in flight, ReadInv says that the path and the bytes it has are    *)
(* those of its file; of an orderly process, RestInv says who owns each blob  *)
(* and each row that no file needs.  A name is settled whatever its bytes,    *)
(* and where clients send clean names the server implements the catalog.      *)
(***************************************************************************)
EXTENDS FileServer, ReferenceCountProofs

USE DEF Calls, UploadCalls, DeleteCalls, Final, Active, Uploading, Deleting, ReadCalls,
        Answered, Reading

Refused(r) == pc[r] = "idle" /\ Goto(r, "err") /\ UNCHANGED <<tables, blobs, locals>>

ServiceMove == [Next]_vars \/ \E r \in Request : Refused(r) \/ RefusedInsert(r)

LEMMA ServerMoves == TypeOK /\ [ServerNext]_serverVars => ServiceMove
  <1> SUFFICES ASSUME TypeOK, [ServerNext]_serverVars PROVE ServiceMove
    OBVIOUS
  <1> USE DEF ServiceMove, process, reader
  <1>1. ASSUME NEW r \in Request, NEW c \in Content, NEW h \in RawHeader,
               AcceptUpload(r, c, h)
        PROVE  ServiceMove
    BY <1>1 DEF AcceptUpload, Received, Next
  <1>2. ASSUME NEW r \in Request,
               BreakOff(r) \/ \E h \in RawHeader : RefuseUpload(r, h)
        PROVE  ServiceMove
    BY <1>2 DEF BreakOff, RefuseUpload, Received, Refused
  <1>3. ASSUME NEW r \in Request, NEW f \in Request, HandleDelete(r, f)
        PROVE  ServiceMove
    BY <1>3 DEF HandleDelete, Next
  <1>4. ASSUME NEW r \in Request, RequestStep(r) PROVE ServiceMove
    BY <1>4 DEF RequestStep, ServiceStep, DropKey, Next
  <1>5. ASSUME NEW d \in Reader,
               ReaderStep(d) \/ \E f \in Request : StartDownload(d, f)
        PROVE  UNCHANGED vars
    BY <1>5 DEF ReaderStep, Find, StartDownload, LookUp, Query, Fill, Open, Stream
  <1>6. CASE \/ \E r \in Request : Arrive(r)
             \/ \E f \in Request : Expire(f)
             \/ Boot \/ Signal \/ Stop
    BY <1>6 DEF Arrive, Expire, Boot, Signal, Stop
  <1>7. CASE Kill
    <2>1. CASE \E r \in Request : Active(r)
      BY <1>7, <2>1 DEF Kill, Next, Crash
    <2>2. CASE \A r \in Request : ~ Active(r)
      BY <1>7, <2>2 DEF Kill, TypeOK, vars, tables, locals
    <2> QED
      BY <2>1, <2>2
  <1>8. CASE UNCHANGED serverVars
    BY <1>8 DEF serverVars
  <1> QED
    BY <1>1, <1>2, <1>3, <1>4, <1>5, <1>6, <1>7, <1>8 DEF ServerNext

\* Downloads, deletes of the copy and the process leave the service's invariant be.
LEMMA MoveBase == BaseInv /\ ServiceMove => BaseInv'
  <1> SUFFICES ASSUME BaseInv, ServiceMove PROVE BaseInv'
    OBVIOUS
  <1> USE NullAssumption, ContentAssumption
      DEF BaseInv, TypeOK, LocalsInv, FileInv, RowInv, CopyInv, HashRead, PathRead,
          RowExists, tables, locals, Goto
  <1>1. CASE [Next]_vars
    BY <1>1, StepBase
  <1>2. ASSUME NEW r \in Request, Refused(r) PROVE BaseInv'
    BY <1>2 DEF Refused
  <1>3. ASSUME NEW r \in Request, RefusedInsert(r) PROVE BaseInv'
    BY <1>3 DEF RefusedInsert
  <1> QED
    BY <1>1, <1>2, <1>3 DEF ServiceMove

-----------------------------------------------------------------------------
(* What no step of the service changes *)

\* An upload's body is fixed when it starts; a path is written once, by its Put; a
\* file that is gone is not listed again once its upload has ended.
Frame ==
    \A f \in Request :
        /\ body[f] \in Content => body'[f] = body[f]
        /\ body[f] \in Content /\ pc[f] # "Put" =>
               pc'[f] # "Put" /\ blobs'[f] \in {blobs[f], NULL}
        /\ pc[f] \notin UploadCalls \cup {"idle"} =>
               /\ pc'[f] \notin UploadCalls \cup {"idle"}
               /\ files[f] = NULL => files'[f] = NULL

LEMMA MoveFrame == BaseInv /\ ServiceMove => Frame
  <1> SUFFICES ASSUME BaseInv, ServiceMove PROVE Frame
    OBVIOUS
  <1> USE NullAssumption, ContentAssumption, RequestAssumption
      DEF BaseInv, TypeOK, LocalsInv, Frame, HashRead, PathRead, tables, locals,
          Goto, Answer, Rejects
  <1>1. ASSUME NEW r \in Request, UploadStep(r) PROVE Frame
    <2>1. CASE Put(r)
      BY <2>1 DEF Put, PutBlob
    <2>2. CASE FindDuplicate(r) \/ InsertStorage(r)
      BY <2>2 DEF FindDuplicate, InsertStorage
    <2>3. CASE DropCopy(r) \/ CleanUpBlob(r)
      BY <2>3 DEF DropCopy, CleanUpBlob, RemoveBlob
    <2>4. CASE Increment(r) \/ UndoIncrement(r) \/ CleanUpRow(r)
      BY <2>4 DEF Increment, UndoIncrement, CleanUpRow
    <2>5. CASE AttachFile(r)
      BY <2>5 DEF AttachFile, CreateFileReference
    <2>6. CASE CreateFile(r)
      BY <2>6 DEF CreateFile, CreateFileReference
    <2> QED
      BY <1>1, <2>1, <2>2, <2>3, <2>4, <2>5, <2>6 DEF UploadStep
  <1>2. ASSUME NEW r \in Request, DeleteStep(r) PROVE Frame
    <2>1. CASE DeleteBlob(r)
      BY <2>1 DEF DeleteBlob, RemoveBlob
    <2>2. CASE DeleteFile(r)
      BY <2>2 DEF DeleteFile, DeleteByID
    <2>3. CASE FindHash(r) \/ FindRow(r)
      BY <2>3 DEF FindHash, FindRow
    <2>4. CASE Decrement(r) \/ DeleteRow(r)
      BY <2>4 DEF Decrement, DeleteRow
    <2> HIDE DEF Frame
    <2> QED
      BY <1>2, <2>1, <2>2, <2>3, <2>4 DEF DeleteStep
  <1>3. ASSUME NEW r \in Request,
               \/ \E c \in Content : StartUpload(r, c)
               \/ \E f \in Request : StartDelete(r, f)
               \/ Refused(r) \/ RefusedInsert(r)
        PROVE  Frame
    BY <1>3 DEF StartUpload, StartDelete, Refused, RefusedInsert
  <1>4. CASE Crash
    BY <1>4 DEF Crash
  <1>5. CASE UNCHANGED vars
    BY <1>5 DEF vars
  <1> HIDE DEF Frame
  <1> QED
    BY <1>1, <1>2, <1>3, <1>4, <1>5 DEF ServiceMove, Next, Step, Finished

-----------------------------------------------------------------------------
(* What a download in flight knows *)

ServerTyped ==
    /\ server \in {"down", "up", "draining"}
    /\ receiving \subseteq Request
    /\ copies \in [Request -> {NULL, EMPTY}]
    /\ owed \subseteq Request /\ misnamed \subseteq Request
    /\ rpc \in [Reader -> ReadCalls \cup Answered \cup {"idle"}]
    /\ rid \in [Reader -> Request \cup {NULL}]
    /\ rpath \in [Reader -> Request \cup {NULL, EMPTY}]
    /\ rbytes \in [Reader -> Content \cup {NULL, LISTING}]
    /\ listed \in [Reader -> BOOLEAN]

\* It asks for a file whose body is known.
Asked(d) ==
    /\ rpc[d] = "idle" => rpath[d] = NULL /\ rbytes[d] = NULL
    /\ rpc[d] # "idle" => rid[d] \in Request /\ body[rid[d]] \in Content

\* Its path was written in full with that body, and so is what it opened, unless its path
\* was lost.
PathIsOfFile(d) ==
    rpath[d] \in Request =>
        /\ body[rpath[d]] = body[rid[d]]
        /\ pc[rpath[d]] # "Put"
        /\ blobs[rpath[d]] \in {NULL, body[rid[d]]}

BytesAreOfFile(d) ==
    /\ rbytes[d] \in {NULL, LISTING, body[rid[d]]}
    /\ rbytes[d] = LISTING => rpath[d] = EMPTY /\ Store = "filer"
    /\ rpc[d] = "200" => rbytes[d] # NULL
    /\ rpc[d] \in {"LookUp", "Query", "Fill", "Open"} => rbytes[d] = NULL
    /\ rpc[d] = "Open" => rpath[d] # NULL
    /\ rpc[d] = "Fill" => rpath[d] \in Request

\* A file that was gone when it was asked for stays gone, and has neither.
GoneStaysGone(d) ==
    ~ listed[d] /\ rpc[d] # "idle" =>
        /\ files[rid[d]] = NULL
        /\ pc[rid[d]] \notin UploadCalls \cup {"idle"}
        /\ rpath[d] \notin Request /\ rbytes[d] \in {NULL, LISTING}

ReadInv ==
    \A d \in Reader : Asked(d) /\ PathIsOfFile(d) /\ BytesAreOfFile(d) /\ GoneStaysGone(d)

ServerInv == BaseInv /\ ServerTyped /\ ReadInv

LEMMA InitServer == ServerInit => ServerInv
  BY InitBase, NullAssumption, EmptyAssumption, RequestAssumption,
     ListingAssumption
  DEF ServerInit, ServerInv, ServerTyped, ReadInv, Asked, PathIsOfFile,
      BytesAreOfFile, GoneStaysGone

LEMMA MoveReads ==
  ASSUME ServerInv, Frame, UNCHANGED reader
  PROVE  ReadInv'
  <1> SUFFICES ASSUME NEW d \in Reader
               PROVE  (Asked(d) /\ PathIsOfFile(d) /\ BytesAreOfFile(d) /\ GoneStaysGone(d))'
    BY DEF ReadInv
  <1>1. Asked(d) /\ PathIsOfFile(d) /\ BytesAreOfFile(d) /\ GoneStaysGone(d)
    BY DEF ServerInv, ReadInv
  <1>2. rid[d] \in Request \cup {NULL} /\ rpath[d] \in Request \cup {NULL, EMPTY}
    BY DEF ServerInv, ServerTyped
  <1>3. rpc[d] = "idle" => rpath[d] \notin Request
    BY <1>1, RequestAssumption DEF Asked
  <1>4. rpc[d] # "idle" => body'[rid[d]] = body[rid[d]]
    BY <1>1 DEF Asked, Frame
  <1>5. Asked(d)'
    BY <1>1, <1>4 DEF reader, Asked
  <1>6. PathIsOfFile(d)'
    BY <1>1, <1>3, <1>4 DEF reader, PathIsOfFile, Frame, Asked
  <1>7. BytesAreOfFile(d)'
    BY <1>1, <1>4 DEF reader, BytesAreOfFile, Asked
  <1>8. GoneStaysGone(d)'
    BY <1>1 DEF reader, GoneStaysGone, Frame, Asked
  <1> QED
    BY <1>5, <1>6, <1>7, <1>8

LEMMA DownloadReads ==
  ASSUME ServerInv, NEW e \in Reader,
         ReaderStep(e) \/ \E f \in Request : StartDownload(e, f)
  PROVE  ServerTyped' /\ ReadInv'
  <1> USE NullAssumption, EmptyAssumption, RequestAssumption, ContentAssumption,
          ListingAssumption
      DEF ServerInv, ServerTyped, ReadInv, Asked, PathIsOfFile, BytesAreOfFile,
          GoneStaysGone, ReaderGoto, process, vars, tables, locals
  <1>1. ASSUME NEW f \in Request, StartDownload(e, f) PROVE ServerTyped' /\ ReadInv'
    <2>1. body[f] \in Content
      BY <1>1 DEF StartDownload, BaseInv, TypeOK, FileInv
    <2>2. ServerTyped'
      BY <1>1 DEF StartDownload
    <2>3. ASSUME NEW d \in Reader, d # e
          PROVE  Asked(d)' /\ PathIsOfFile(d)' /\ BytesAreOfFile(d)' /\ GoneStaysGone(d)'
      BY <1>1, <2>3 DEF StartDownload
    <2>4. Asked(e)' /\ PathIsOfFile(e)' /\ BytesAreOfFile(e)'
      BY <1>1, <2>1 DEF StartDownload
    <2>5. GoneStaysGone(e)'
      <3>1. rpath'[e] = NULL /\ rbytes'[e] = NULL /\ rid'[e] = f
        BY <1>1 DEF StartDownload
      <3>2. listed'[e] = (files[f] # NULL)
        <4>1. listed \in [Reader -> BOOLEAN]
          OBVIOUS
        <4>2. listed' = [listed EXCEPT ![e] = files[f] # NULL]
          BY <1>1 DEF StartDownload
        <4> QED
          BY Zenon, <4>1, <4>2
      <3>3. files[f] = NULL => files'[f] = NULL /\ pc'[f] \notin UploadCalls \cup {"idle"}
        BY <1>1 DEF StartDownload
      <3>4. rpath'[e] \notin Request
        BY <3>1
      <3> QED
        BY Zenon, <3>1, <3>2, <3>3, <3>4
    <2> QED
      BY <2>2, <2>3, <2>4, <2>5
  <1>2. CASE LookUp(e)
    BY <1>2 DEF LookUp
  <1>3. CASE Query(e)
    <2>1. files[rid[e]] # NULL =>
              LET p == storage_path[files[rid[e]]]
              IN  /\ p \in Request /\ body[p] = body[rid[e]] /\ pc[p] # "Put"
                  /\ blobs[p] \in {NULL, body[rid[e]]}
      BY <1>3 DEF Query, BaseInv, TypeOK, FileInv, RowInv, RowExists
    <2> QED
      BY <1>3, <2>1 DEF Query
  <1>4. CASE Fill(e)
    BY <1>4 DEF Fill, Marshalled
  <1>5. CASE Open(e)
    BY <1>5 DEF Open, Base
  <1>6. CASE Stream(e)
    BY <1>6 DEF Stream
  <1> QED
    BY <1>1, <1>2, <1>3, <1>4, <1>5, <1>6 DEF ReaderStep, Find

LEMMA StepServer == ServerInv /\ [ServerNext]_serverVars => ServerInv'
  <1> SUFFICES ASSUME ServerInv, [ServerNext]_serverVars PROVE ServerInv'
    OBVIOUS
  <1>1. BaseInv' /\ Frame
    BY ServerMoves, MoveBase, MoveFrame DEF ServerInv, BaseInv
  <1> SUFFICES ServerTyped' /\ ReadInv'
    BY <1>1 DEF ServerInv
  <1>2. ASSUME NEW d \in Reader, ReaderStep(d) \/ \E f \in Request : StartDownload(d, f)
        PROVE  ServerTyped' /\ ReadInv'
    BY <1>2, DownloadReads
  <1>3. CASE Kill
    <2>1. ServerTyped'
      BY <1>3 DEF Kill, ServerInv, ServerTyped
    <2>2. /\ UNCHANGED <<blobs, files, body, rid, rpath, rbytes, listed>>
          /\ \A f \in Request : /\ pc[f] # "Put" => pc'[f] # "Put"
                                /\ pc[f] \notin UploadCalls \cup {"idle"} =>
                                       pc'[f] \notin UploadCalls \cup {"idle"}
          /\ \A d \in Reader : rpc'[d] \in {rpc[d], "dead"} /\ (rpc'[d] = "idle" <=> rpc[d] = "idle")
      BY <1>3 DEF Kill, ServerInv, ServerTyped, BaseInv, TypeOK, locals, tables
    <2>3. ReadInv'
      BY <2>2, RequestAssumption
      DEF ServerInv, ServerTyped, ReadInv, Asked, PathIsOfFile, BytesAreOfFile,
          GoneStaysGone
    <2> QED
      BY <2>1, <2>3
  <1>4. ASSUME \/ \E r \in Request, c \in Content, h \in RawHeader : AcceptUpload(r, c, h)
               \/ \E r \in Request, h \in RawHeader : RefuseUpload(r, h)
               \/ \E r \in Request : Arrive(r) \/ BreakOff(r)
               \/ \E r, f \in Request : HandleDelete(r, f)
               \/ \E r \in Request : RequestStep(r)
               \/ \E f \in Request : Expire(f)
               \/ Boot \/ Signal \/ Stop \/ UNCHANGED serverVars
        PROVE  ServerTyped' /\ ReadInv'
    <2>1. UNCHANGED reader
      BY <1>4
      DEF AcceptUpload, RefuseUpload, Arrive, BreakOff, Received, HandleDelete,
          RequestStep, ServiceStep, RefusedInsert, DropKey, Expire, Boot, Signal, Stop,
          serverVars
    <2>2. /\ server' \in {"down", "up", "draining"} /\ receiving' \subseteq Request
          /\ owed' \subseteq Request /\ misnamed' \subseteq Request
      BY <1>4
      DEF ServerInv, ServerTyped, process, AcceptUpload, RefuseUpload, Arrive, BreakOff,
          Received, HandleDelete, RequestStep, ServiceStep, RefusedInsert, DropKey,
          Expire, Boot, Signal, Stop, serverVars
    <2>3. copies' \in [Request -> {NULL, EMPTY}]
      BY <1>4
      DEF ServerInv, ServerTyped, AcceptUpload, RefuseUpload, Arrive, BreakOff,
          Received, HandleDelete, RequestStep, ServiceStep, RefusedInsert, DropKey,
          Expire, Boot, Signal, Stop, serverVars
    <2>4. ReadInv'
      BY <1>1, <2>1, MoveReads
    <2> QED
      BY <2>1, <2>2, <2>3, <2>4 DEF ServerInv, ServerTyped, reader
  <1>5. CASE UNCHANGED serverVars
    BY <1>4, <1>5
  <1>6. CASE ServerNext
    <2> USE <1>6 DEF ServerNext
    <2>1. CASE \/ \E d \in Reader, f \in Request : StartDownload(d, f)
               \/ \E d \in Reader : ReaderStep(d)
      BY <1>2, <2>1
    <2> QED
      BY <1>3, <1>4, <2>1
  <1> QED
    BY <1>5, <1>6

LEMMA ServerInvariant == ServerSpec => []ServerInv
  <1> QED
    BY InitServer, StepServer, PTL DEF ServerSpec

-----------------------------------------------------------------------------
(* The theorems *)

\* In every environment every variable of the server keeps its type.
THEOREM ServerTypeCorrect == ServerSpec => []ServerTypeOK
  <1>1. ServerInv => ServerTypeOK
    BY DEF ServerInv, ServerTyped, BaseInv, ServerTypeOK
  <1> QED
    BY <1>1, ServerInvariant, PTL

\* Whatever overlaps, fails or is killed, and whatever the store, a download is sent no
\* other file's bytes, and one that is answered 200 is sent its file's, unless its path was
\* lost in Redis and the store is a filer.
THEOREM NoOtherFilesBytesHolds == ServerSpec => []NoOtherFilesBytes
  <1>1. ServerInv => NoOtherFilesBytes
    BY StoreAssumption
    DEF ServerInv, ReadInv, BytesAreOfFile, NoOtherFilesBytes
  <1> QED
    BY <1>1, ServerInvariant, PTL

\* In every environment a download that was asked for after the file's delete took
\* effect is sent nothing of it.
THEOREM DeletedStaysDeletedHolds == ServerSpec => []DeletedStaysDeleted
  <1>1. ServerInv => DeletedStaysDeleted
    BY DEF ServerInv, ServerTyped, ReadInv, Asked, GoneStaysGone, DeletedStaysDeleted
  <1> QED
    BY <1>1, ServerInvariant, PTL

-----------------------------------------------------------------------------
(* Listed files are served *)

\* The environment in which they are: the service's, and downloads whose own
\* queries, opens and streams do not fail; Redis may.
Reliable == Tolerated /\ Flaky \cap {"Query", "Open", "Stream"} = {}

\* Once it is asked for, a file's upload has ended; as long as the file is listed, the
\* path the download has is the row's; and it fails only without an empty path if the
\* file is gone.
Follows(d) ==
    /\ rpc[d] # "idle" => pc[rid[d]] \notin UploadCalls \cup {"idle"}
    /\ rpc[d] \in {"Fill", "Open"} /\ rpath[d] # EMPTY /\ files[rid[d]] # NULL =>
           rpath[d] = storage_path[files[rid[d]]]
    /\ rpc[d] = "Stream" /\ rpath[d] # EMPTY => rbytes[d] # NULL
    /\ rpc[d] \in {"404", "500"} /\ rpath[d] # EMPTY => files[rid[d]] = NULL

ServedInv == ServerInv /\ (misnamed = {} => SafeInv /\ \A d \in Reader : Follows(d))

LEMMA InitServed == ServerInit => ServedInv
  BY InitServer, InitSafe DEF ServerInit, ServedInv, Follows

LEMMA RefusedSafe ==
  ASSUME SafeInv, NEW r \in Request, Refused(r)
  PROVE  SafeInv'
  <1>1. BaseInv'
    BY MoveBase DEF SafeInv, ServiceMove
  <1>2. /\ UNCHANGED <<storage_path, reference_count, files, blobs, body, target, hash, found>>
        /\ pc[r] = "idle" /\ pc'[r] = "err"
        /\ \A q \in Request : q # r => pc'[q] = pc[q]
    BY DEF Refused, Goto, SafeInv, BaseInv, TypeOK, tables, locals
  <1>3. \A h \in Content : Holders(h)' = Holders(h)
    BY <1>2 DEF Holders, Attaching
  <1>4. ReferencesCovered'
    BY <1>2, <1>3 DEF SafeInv, ReferencesCovered
  <1>5. DisciplineInv' /\ DeleteInv' /\ UploadInv'
    <2>1. \A q \in Request : \A l \in Calls : pc'[q] = l <=> pc[q] = l
      BY <1>2
    <2>2. DisciplineInv'
      BY <1>2, <2>1 DEF SafeInv, DisciplineInv
    <2>3. DeleteInv'
      BY <1>2, <2>1 DEF SafeInv, DeleteInv, HashRead, PathRead, Cleaning
    <2>4. UploadInv'
      BY <1>2, <2>1 DEF SafeInv, UploadInv, RowExists
    <2> QED
      BY <2>2, <2>3, <2>4
  <1>6. BlobInv' /\ CountInv'
    BY <1>2 DEF SafeInv, BlobInv, CountInv, RowExists
  <1> QED
    BY <1>1, <1>4, <1>5, <1>6 DEF SafeInv

\* A step of the service takes no path from a download whose file stays listed.
LEMMA MoveFollows ==
  ASSUME ServerInv, SafeInv, BaseInv', Frame, UNCHANGED reader,
         [Next]_vars \/ \E r \in Request : Refused(r),
         NEW d \in Reader, Follows(d)
  PROVE  Follows(d)'
  <1> DEFINE f == rid[d]
  <1>1. rpc[d] # "idle" => f \in Request
    BY DEF ServerInv, ReadInv, Asked
  <1>2. f \in Request /\ pc[f] \notin UploadCalls \cup {"idle"} =>
            /\ pc'[f] \notin UploadCalls \cup {"idle"}
            /\ files[f] = NULL => files'[f] = NULL
    BY DEF Frame
  <1>3. f \in Request /\ files[f] # NULL /\ files'[f] # NULL =>
            storage_path'[files'[f]] = storage_path[files[f]]
    BY StepKeepsPath DEF Refused, tables, SafeInv
  <1> QED
    BY <1>1, <1>2, <1>3 DEF reader, Follows

LEMMA DownloadFollows ==
  ASSUME Reliable, ServerInv, SafeInv, \A d \in Reader : Follows(d), NEW e \in Reader,
         ReaderStep(e) \/ \E f \in Request : StartDownload(e, f)
  PROVE  \A d \in Reader : Follows(d)'
  <1> USE DEF Reliable, ServerTyped, Follows, ReaderGoto, vars, tables, Fails
  <1>1. ASSUME NEW f \in Request, StartDownload(e, f) PROVE \A d \in Reader : Follows(d)'
    <2>1. pc[f] \notin UploadCalls \cup {"idle"}
      BY <1>1, ContentAssumption
      DEF StartDownload, SafeInv, UploadInv, BaseInv, TypeOK, LocalsInv, FileInv
    <2> QED
      BY <1>1, <2>1 DEF StartDownload, ServerInv
  <1>2. CASE LookUp(e)
    BY <1>2 DEF LookUp, ServerInv, ReadInv, Asked
  <1>3. CASE Query(e)
    BY <1>3 DEF Query, ServerInv
  <1>4. CASE Fill(e)
    BY <1>4 DEF Fill, ServerInv
  <1>5. CASE Open(e)
    <2>1. rpath[e] # EMPTY /\ blobs[rpath[e]] = NULL => files[rid[e]] = NULL
      BY <1>5, ListedIsStored, ContentAssumption
      DEF Open, NoDanglingFile, Stored, SafeInv, BaseInv, TypeOK, ServerInv, ReadInv, Asked
    <2> QED
      BY <1>5, <2>1 DEF Open, ServerInv
  <1>6. CASE Stream(e)
    BY <1>6 DEF Stream, ServerInv, ReadInv, BytesAreOfFile
  <1> QED
    BY <1>1, <1>2, <1>3, <1>4, <1>5, <1>6 DEF ReaderStep, Find

LEMMA NamesGrow == [ServerNext]_serverVars /\ misnamed' = {} => misnamed = {}
  BY DEF ServerNext, serverVars, process, AcceptUpload, RefuseUpload, Arrive, BreakOff,
         Received, HandleDelete, RequestStep, ServiceStep, RefusedInsert, DropKey,
         StartDownload, ReaderStep, Find, LookUp, Query, Fill, Open, Stream, Expire,
         Boot, Signal, Stop, Kill

LEMMA StepServed == Reliable /\ ServedInv /\ [ServerNext]_serverVars => ServedInv'
  <1> SUFFICES ASSUME Reliable, ServedInv, [ServerNext]_serverVars, misnamed' = {}
               PROVE  SafeInv' /\ \A d \in Reader : Follows(d)'
    BY StepServer DEF ServedInv
  <1>1. misnamed = {}
    BY NamesGrow
  <1>2. ServerInv /\ SafeInv /\ (\A d \in Reader : Follows(d)) /\ BaseInv /\ TypeOK
    BY <1>1 DEF ServedInv, ServerInv, BaseInv
  <1>3. BaseInv' /\ Frame /\ ServiceMove
    BY <1>2, ServerMoves, MoveBase, MoveFrame
  <1>4. [Next]_vars \/ \E r \in Request : Refused(r)
    BY <1>1, <1>3 DEF ServiceMove, RefusedInsert
  <1>5. SafeInv'
    BY <1>2, <1>4, StepSafe, RefusedSafe DEF Reliable
  <1>6. ASSUME NEW e \in Reader, ReaderStep(e) \/ \E f \in Request : StartDownload(e, f)
        PROVE  \A d \in Reader : Follows(d)'
    BY <1>2, <1>6, DownloadFollows
  <1>7. ASSUME UNCHANGED reader PROVE \A d \in Reader : Follows(d)'
    BY <1>2, <1>3, <1>4, <1>7, MoveFollows
  <1>8. ASSUME Kill PROVE \A d \in Reader : Follows(d)'
    <2>1. /\ UNCHANGED <<storage_path, files, rid, rpath, rbytes>>
          /\ \A f \in Request : pc[f] \notin UploadCalls \cup {"idle"} =>
                                    pc'[f] \notin UploadCalls \cup {"idle"}
          /\ \A d \in Reader : rpc'[d] \in {rpc[d], "dead"} /\ (rpc'[d] = "idle" <=> rpc[d] = "idle")
      BY <1>2, <1>8 DEF Kill, ServerInv, ServerTyped, TypeOK, tables
    <2> QED
      BY <1>2, <2>1 DEF Follows, ServerInv, ReadInv, Asked
  <1>9. \/ UNCHANGED reader
        \/ Kill
        \/ \E e \in Reader : ReaderStep(e) \/ \E f \in Request : StartDownload(e, f)
    BY DEF ServerNext, serverVars, AcceptUpload, RefuseUpload, Arrive, BreakOff,
           Received, HandleDelete, RequestStep, ServiceStep, RefusedInsert, DropKey,
           Expire, Boot, Signal, Stop
  <1> QED
    BY <1>5, <1>6, <1>7, <1>8, <1>9

\* In that environment a download that read its path from the tables fails only
\* because its file has been deleted, as long as the database refuses no name.
THEOREM ListedIsServedHolds == ASSUME Reliable PROVE ServerSpec => []ListedIsServed
  <1>1. ServedInv => ListedIsServed
    BY DEF ServedInv, Follows, ListedIsServed
  <1>2. ServedInv /\ [ServerNext]_serverVars => ServedInv'
    BY StepServed
  <1> QED
    BY <1>1, <1>2, InitServed, PTL DEF ServerSpec

-----------------------------------------------------------------------------
(* An orderly stop leaves no loose end *)

\* What a step keeps of who owns the bytes and the rows of count zero.
LEMMA StepPaths ==
  ASSUME Orderly, SafeInv, PathsInv, [Next]_vars, ~ Crash
  PROVE  PathsInv'
  <1>0. \A h \in Content, f \in Request :
            f \in Holders(h) => RowExists(h) /\ reference_count[h] >= 1
    BY HolderCounts
  <1>n. \A h \in Content : reference_count[h] \in Nat
    BY HoldersFinite DEF SafeInv, BaseInv, TypeOK, ReferencesCovered
  <1> USE <1>0, NullAssumption, ContentAssumption, RequestAssumption
      DEF Orderly, Tolerated, SafeInv, BaseInv, TypeOK, LocalsInv, FileInv, RowInv, DisciplineInv,
          DeleteInv, UploadInv, PathsInv, BytesOwned, ZeroOwned, DeleteHasPath, HashRead, PathRead,
          Cleaning, Unnamed, RowExists, Holders, Attaching, tables, locals, Goto, Answer, Rejects
  <1>1. ASSUME NEW r \in Request, NEW c \in Content, StartUpload(r, c) PROVE PathsInv'
    <2>1. BytesOwned'
      BY <1>1 DEF StartUpload
    <2>2. ZeroOwned'
      BY <1>1 DEF StartUpload
    <2>3. DeleteHasPath'
      BY <1>1 DEF StartUpload
    <2> QED
      BY <2>1, <2>2, <2>3
  <1>2. ASSUME NEW r \in Request, NEW f \in Request, StartDelete(r, f) PROVE PathsInv'
    <2>1. BytesOwned'
      BY <1>2 DEF StartDelete, MayDelete
    <2>2. ZeroOwned'
      BY <1>2 DEF StartDelete, MayDelete
    <2>3. DeleteHasPath'
      BY <1>2 DEF StartDelete, MayDelete
    <2> QED
      BY <2>1, <2>2, <2>3
  <1>3. ASSUME NEW r \in Request, Put(r) PROVE PathsInv'
    <2>1. BytesOwned'
      BY <1>3 DEF Put, PutBlob
    <2>2. ZeroOwned'
      BY <1>3 DEF Put, PutBlob
    <2>3. DeleteHasPath'
      BY <1>3 DEF Put, PutBlob
    <2> QED
      BY <2>1, <2>2, <2>3
  <1>4. ASSUME NEW r \in Request, FindDuplicate(r) PROVE PathsInv'
    <2>1. BytesOwned'
      BY <1>4 DEF FindDuplicate
    <2>2. ZeroOwned'
      BY <1>4 DEF FindDuplicate
    <2>3. DeleteHasPath'
      BY <1>4 DEF FindDuplicate
    <2> QED
      BY <2>1, <2>2, <2>3
  <1>5. ASSUME NEW r \in Request, DropCopy(r) PROVE PathsInv'
    <2>1. BytesOwned'
      BY <1>5 DEF DropCopy, RemoveBlob
    <2>2. ZeroOwned'
      BY <1>5 DEF DropCopy, RemoveBlob
    <2>3. DeleteHasPath'
      BY <1>5 DEF DropCopy, RemoveBlob
    <2> QED
      BY <2>1, <2>2, <2>3
  <1>6. ASSUME NEW r \in Request, Increment(r) PROVE PathsInv'
    <2>1. BytesOwned'
      BY <1>6 DEF Increment, IncrementStorageRef
    <2>2. ZeroOwned'
      <3>1. \A d \in Request : pc[d] \in Cleaning => pc'[d] = pc[d]
        BY <1>6 DEF Increment
      <3>2. \A q \in Request : pc'[q] # "UndoIncrement"
        BY <1>6 DEF Increment
      <3>3. \A h \in Content : RowExists(h)' /\ reference_count'[h] = 0 =>
                RowExists(h) /\ reference_count[h] = 0
        BY <1>6, <1>n DEF Increment, IncrementStorageRef
      <3> QED
        BY <1>6, <3>1, <3>2, <3>3 DEF Increment
    <2>3. DeleteHasPath'
      BY <1>6 DEF Increment, IncrementStorageRef
    <2> QED
      BY <2>1, <2>2, <2>3
  <1>7. ASSUME NEW r \in Request, AttachFile(r) PROVE PathsInv'
    <2>1. BytesOwned'
      BY <1>7 DEF AttachFile, CreateFileReference
    <2>2. ZeroOwned'
      BY <1>7 DEF AttachFile, CreateFileReference
    <2>3. DeleteHasPath'
      BY <1>7 DEF AttachFile, CreateFileReference
    <2> QED
      BY <2>1, <2>2, <2>3
  <1>8. ASSUME NEW r \in Request, UndoIncrement(r) PROVE PathsInv'
    <2>1. BytesOwned'
      BY <1>8 DEF UndoIncrement
    <2>2. ZeroOwned'
      BY <1>8 DEF UndoIncrement
    <2>3. DeleteHasPath'
      BY <1>8 DEF UndoIncrement
    <2> QED
      BY <2>1, <2>2, <2>3
  <1>9. ASSUME NEW r \in Request, InsertStorage(r) PROVE PathsInv'
    <2>1. BytesOwned'
      BY <1>9 DEF InsertStorage, CreateStorage
    <2>2. ZeroOwned'
      <3>1. \A d \in Request : pc[d] \in Cleaning => pc'[d] = pc[d]
        BY <1>9 DEF InsertStorage
      <3>2. \A q \in Request : pc'[q] # "UndoIncrement"
        BY <1>9 DEF InsertStorage
      <3>3. \A h \in Content : RowExists(h)' /\ reference_count'[h] = 0 =>
                RowExists(h) /\ reference_count[h] = 0
        BY <1>9, <1>n DEF InsertStorage, CreateStorage
      <3> QED
        BY <1>9, <3>1, <3>2, <3>3 DEF InsertStorage
    <2>3. DeleteHasPath'
      BY <1>9 DEF InsertStorage, CreateStorage
    <2> QED
      BY <2>1, <2>2, <2>3
  <1>10. ASSUME NEW r \in Request, CreateFile(r) PROVE PathsInv'
    <2>1. BytesOwned'
      BY <1>10 DEF CreateFile, CreateFileReference
    <2>2. ZeroOwned'
      BY <1>10 DEF CreateFile, CreateFileReference
    <2>3. DeleteHasPath'
      BY <1>10 DEF CreateFile, CreateFileReference
    <2> QED
      BY <2>1, <2>2, <2>3
  <1>11. ASSUME NEW r \in Request, CleanUpRow(r) PROVE PathsInv'
    <2>1. BytesOwned'
      BY <1>11 DEF CleanUpRow
    <2>2. ZeroOwned'
      BY <1>11 DEF CleanUpRow
    <2>3. DeleteHasPath'
      BY <1>11 DEF CleanUpRow
    <2> QED
      BY <2>1, <2>2, <2>3
  <1>12. ASSUME NEW r \in Request, CleanUpBlob(r) PROVE PathsInv'
    <2>1. BytesOwned'
      BY <1>12 DEF CleanUpBlob, RemoveBlob
    <2>2. ZeroOwned'
      BY <1>12 DEF CleanUpBlob, RemoveBlob
    <2>3. DeleteHasPath'
      BY <1>12 DEF CleanUpBlob, RemoveBlob
    <2> QED
      BY <2>1, <2>2, <2>3
  <1>13. ASSUME NEW r \in Request, FindHash(r) PROVE PathsInv'
    <2>1. BytesOwned'
      BY <1>13 DEF FindHash
    <2>2. ZeroOwned'
      BY SMTT(20), <1>13 DEF FindHash
    <2>3. DeleteHasPath'
      BY <1>13 DEF FindHash
    <2> QED
      BY <2>1, <2>2, <2>3
  <1>14. ASSUME NEW r \in Request, DeleteFile(r) PROVE PathsInv'
    <2>1. BytesOwned'
      BY <1>14 DEF DeleteFile, DeleteByID
    <2>2. ZeroOwned'
      BY <1>14 DEF DeleteFile, DeleteByID
    <2>3. DeleteHasPath'
      BY <1>14 DEF DeleteFile, DeleteByID
    <2> QED
      BY <2>1, <2>2, <2>3
  <1>15. ASSUME NEW r \in Request, Decrement(r) PROVE PathsInv'
    <2>1. BytesOwned'
      BY <1>15 DEF Decrement, DecrementStorageRef, NewRefCount
    <2>2. ZeroOwned'
      BY <1>15 DEF Decrement, DecrementStorageRef, NewRefCount
    <2>3. DeleteHasPath'
      BY <1>15 DEF Decrement, DecrementStorageRef, NewRefCount
    <2> QED
      BY <2>1, <2>2, <2>3
  <1>16. ASSUME NEW r \in Request, FindRow(r) PROVE PathsInv'
    <2>1. BytesOwned'
      BY <1>16 DEF FindRow
    <2>2. ZeroOwned'
      BY <1>16 DEF FindRow
    <2>3. DeleteHasPath'
      BY <1>16 DEF FindRow
    <2> QED
      BY <2>1, <2>2, <2>3
  <1>17. ASSUME NEW r \in Request, DeleteBlob(r) PROVE PathsInv'
    <2>1. BytesOwned'
      BY <1>17 DEF DeleteBlob, RemoveBlob
    <2>2. ZeroOwned'
      BY <1>17 DEF DeleteBlob, RemoveBlob
    <2>3. DeleteHasPath'
      BY <1>17 DEF DeleteBlob, RemoveBlob
    <2> QED
      BY <2>1, <2>2, <2>3
  <1>18. ASSUME NEW r \in Request, DeleteRow(r) PROVE PathsInv'
    <2>1. BytesOwned'
      BY <1>18 DEF DeleteRow, DeleteStorage, Deletable, Referenced
    <2>2. ZeroOwned'
      BY <1>18 DEF DeleteRow, DeleteStorage, Deletable, Referenced
    <2>3. DeleteHasPath'
      BY <1>18 DEF DeleteRow, DeleteStorage, Deletable, Referenced
    <2> QED
      BY <2>1, <2>2, <2>3
  <1>19. CASE UNCHANGED vars
    BY <1>19 DEF vars
  <1> QED
    BY <1>1, <1>2, <1>3, <1>4, <1>5, <1>6, <1>7, <1>8, <1>9, <1>10, <1>11, <1>12, <1>13, <1>14, <1>15, <1>16, <1>17, <1>18, <1>19
    DEF Next, Step, UploadStep, DeleteStep, Finished

LEMMA DeadStay ==
  ASSUME TypeOK, [Next]_vars \/ \E r \in Request : Refused(r), NoneDead'
  PROVE  NoneDead /\ ~ Crash
  <1>1. ~ Crash
    BY DEF Crash, TypeOK, NoneDead
  <1>2. ASSUME NEW r \in Request, pc[r] # "dead", NEW l, Goto(r, l) PROVE NoneDead
    BY <1>2 DEF Goto, TypeOK, NoneDead
  <1> QED
    BY <1>1, <1>2
    DEF TypeOK, NoneDead, Next, vars, Finished, Refused, StartUpload, StartDelete, Step, UploadStep,
        DeleteStep, Put, FindDuplicate, DropCopy, Increment, AttachFile, UndoIncrement,
        InsertStorage, CreateFile, CleanUpRow, CleanUpBlob, FindHash, DeleteFile, Decrement,
        FindRow, DeleteBlob, DeleteRow, Answer

LEMMA StepOrderly ==
  ASSUME Orderly, OrderlyInv, [Next]_vars
  PROVE  OrderlyInv'
  <1>1. SafeInv'
    BY StepSafe DEF Orderly, OrderlyInv
  <1>2. ASSUME NoneDead'
        PROVE  FreshInv' /\ TargetInv' /\ NoForgottenReference' /\ PathsInv'
    <2>1. NoneDead /\ ~ Crash
      BY <1>2, DeadStay DEF OrderlyInv, SafeInv, BaseInv
    <2>2. AccountInv /\ PathsInv
      BY <2>1 DEF OrderlyInv, AccountInv, SafeInv
    <2>3. GivenBack
      BY DEF Orderly, GivenBack
    <2> QED
      BY <2>1, <2>2, <2>3, StepOwners, StepForgotten, StepPaths DEF OrderlyInv, AccountInv
  <1> QED
    BY <1>1, <1>2 DEF OrderlyInv

LEMMA RefusedOrderly ==
  ASSUME OrderlyInv, NEW r \in Request, Refused(r)
  PROVE  OrderlyInv'
  <1>1. SafeInv'
    BY RefusedSafe DEF OrderlyInv
  <1>2. /\ UNCHANGED <<storage_path, reference_count, files, blobs, body, target, hash, found>>
        /\ pc[r] = "idle" /\ pc'[r] = "err"
        /\ \A q \in Request : q # r => pc'[q] = pc[q]
    BY DEF Refused, Goto, OrderlyInv, SafeInv, BaseInv, TypeOK, tables, locals
  <1>3. ASSUME NoneDead'
        PROVE  FreshInv' /\ TargetInv' /\ NoForgottenReference' /\ PathsInv'
    <2>1. NoneDead
      BY <1>2, <1>3 DEF NoneDead
    <2>2. FreshInv' /\ TargetInv'
      BY <1>2, <2>1 DEF OrderlyInv, FreshInv, TargetInv, Unattached
    <2>3. NoForgottenReference'
      <3>1. \A h \in Content : Holders(h)' = Holders(h)
        BY <1>2 DEF Holders, Attaching
      <3> QED
        BY <1>2, <2>1, <3>1 DEF OrderlyInv, NoForgottenReference
    <2>4. BytesOwned' /\ ZeroOwned' /\ DeleteHasPath'
      BY <1>2, <2>1
      DEF OrderlyInv, PathsInv, BytesOwned, ZeroOwned, DeleteHasPath, Unnamed, Cleaning,
          PathRead, RowExists
    <2> QED
      BY <2>2, <2>3, <2>4 DEF PathsInv
  <1> QED
    BY <1>1, <1>3 DEF OrderlyInv

\* Nothing runs when the process is down.
RestInv ==
    /\ BaseInv
    /\ server = "down" => \A r \in Request : ~ Active(r)
    /\ misnamed = {} => OrderlyInv

LEMMA InitRest == ServerInit => RestInv
  <1> SUFFICES ASSUME ServerInit PROVE RestInv
    OBVIOUS
  <1>1. Init
    BY DEF ServerInit
  <1>2. SafeInv /\ AccountInv /\ BaseInv
    BY <1>1, InitSafe, InitAccount DEF SafeInv
  <1>3. PathsInv /\ \A r \in Request : ~ Active(r)
    BY <1>1 DEF Init, PathsInv, BytesOwned, ZeroOwned, DeleteHasPath, PathRead, RowExists
  <1> QED
    BY <1>2, <1>3 DEF RestInv, OrderlyInv, AccountInv

LEMMA StepRest == Orderly /\ RestInv /\ [ServerNext]_serverVars => RestInv'
  <1> SUFFICES ASSUME Orderly, RestInv, [ServerNext]_serverVars PROVE RestInv'
    OBVIOUS
  <1>1. ServiceMove /\ BaseInv /\ BaseInv'
    BY ServerMoves, MoveBase DEF RestInv, BaseInv
  <1>2. ASSUME server' = "down" PROVE \A r \in Request : ~ Active(r)'
    <2>1. CASE Kill
      BY <2>1, <1>1 DEF Kill, BaseInv, TypeOK
    <2>2. CASE Stop
      BY <2>2 DEF Stop, Quiet, vars
    <2>3. ASSUME \E r \in Request : RequestStep(r) PROVE server' # "down" \/ UNCHANGED pc
      BY <2>3
      DEF RestInv, RequestStep, ServiceStep, RefusedInsert, DropKey, process, vars,
          Step, UploadStep, DeleteStep,
          Put, FindDuplicate, DropCopy, Increment, AttachFile, UndoIncrement, InsertStorage,
          CreateFile, CleanUpRow, CleanUpBlob, FindHash, DeleteFile, Decrement, FindRow,
          DeleteBlob, DeleteRow
    <2>4. ASSUME ~ Kill, ~ Stop PROVE UNCHANGED pc /\ server = "down"
      BY <1>2, <2>3, <2>4
      DEF ServerNext, serverVars, process, vars, Serving, AcceptUpload, RefuseUpload,
          Arrive, BreakOff, Received, HandleDelete, RequestStep, ServiceStep,
          RefusedInsert, DropKey, StartDownload, ReaderStep, Find, LookUp, Query, Fill,
          Open, Stream, Expire, Boot, Signal
    <2> QED
      BY <2>1, <2>2, <2>4 DEF RestInv
  <1>3. ASSUME misnamed' = {} PROVE OrderlyInv'
    <2>1. misnamed = {}
      BY <1>3, NamesGrow
    <2>2. [Next]_vars \/ \E r \in Request : Refused(r)
      BY <1>1, <2>1 DEF ServiceMove, RefusedInsert
    <2> QED
      BY <2>1, <2>2, StepOrderly, RefusedOrderly DEF RestInv
  <1> QED
    BY <1>1, <1>2, <1>3 DEF RestInv

LEMMA RestClean == RestInv => RestIsClean
  <1> SUFFICES ASSUME RestInv, server = "down", misnamed = {}, NoneDead
               PROVE  /\ \A h \in Content :
                             /\ reference_count[h] = Cardinality({f \in Request : files[f] = h})
                             /\ RowExists(h) => Referenced(h)
                      /\ {p \in Request : blobs[p] # NULL}
                             = {storage_path[h] : h \in {c \in Content : RowExists(c)}}
    BY DEF RestIsClean, NoneDead
  <1>1. /\ \A r \in Request : ~ Active(r)
        /\ SafeInv /\ NoForgottenReference /\ PathsInv
    BY DEF RestInv, OrderlyInv
  <1>2. ASSUME NEW h \in Content
        PROVE  /\ reference_count[h] = Cardinality({f \in Request : files[f] = h})
               /\ RowExists(h) => Referenced(h)
    <2>1. Holders(h) = {f \in Request : files[f] = h}
      BY <1>1 DEF Holders, Attaching
    <2>2. reference_count[h] = Cardinality(Holders(h))
      BY <1>1, HoldersFinite
      DEF SafeInv, BaseInv, TypeOK, ReferencesCovered, NoForgottenReference
    <2>3. RowExists(h) => reference_count[h] # 0
      BY <1>1 DEF PathsInv, ZeroOwned, Cleaning
    <2>4. Holders(h) = {} => Cardinality(Holders(h)) = 0
      BY FS_EmptySet
    <2> QED
      BY <2>1, <2>2, <2>3, <2>4 DEF Referenced
  <1>3. ASSUME NEW h \in Content, RowExists(h) PROVE storage_path[h] \in Request /\ blobs[storage_path[h]] # NULL
    BY <1>1, <1>3, ContentAssumption DEF SafeInv, BlobInv, BaseInv, TypeOK, RowExists
  <1>4. ASSUME NEW p \in Request, blobs[p] # NULL PROVE \E h \in Content : RowExists(h) /\ storage_path[h] = p
    BY <1>1, <1>4, RequestAssumption DEF PathsInv, BytesOwned, Unnamed, RowExists
  <1> QED
    BY <1>2, <1>3, <1>4

\* A process that was stopped and never killed leaves counts equal to the references, no
\* row without a file, no blob without a row and no row without its blob, where requests do
\* not overlap and no statement fails; Redis and the downloads may.
THEOREM RestIsCleanHolds == ASSUME Orderly PROVE ServerSpec => []RestIsClean
  <1>1. RestInv /\ [ServerNext]_serverVars => RestInv'
    BY StepRest
  <1> QED
    BY <1>1, InitRest, RestClean, PTL DEF ServerSpec

-----------------------------------------------------------------------------
(* Names *)

\* These are the strings; no prover here knows that a literal is one.
Bytes == STRING \cup {"_"}

Edge == {" ", "."}

LEMMA LeastNatural ==
  ASSUME NEW T, T \subseteq Nat, T # {}
  PROVE  \E x \in T : \A y \in T : x <= y
  <1> DEFINE R == OpToRel(<, Nat)
  <1>1. \E x \in T : \A y \in T : <<y, x>> \notin R
    <2>1. IsWellFoundedOn(R, Nat)
      BY NatLessThanWellFounded
    <2> HIDE DEF R
    <2> QED
      BY <2>1, WFMin
  <1>2. \A x, y \in Nat : <<y, x>> \in R <=> y < x
    BY DEF OpToRel
  <1> HIDE DEF R
  <1>3. PICK x \in T : \A y \in T : <<y, x>> \notin R
    BY <1>1
  <1>4. \A y \in T : ~ (y < x) /\ y \in Nat /\ x \in Nat
    BY <1>2, <1>3
  <1>5. \A y \in T : x <= y
    BY <1>4
  <1> QED
    BY <1>5

\* The least and the greatest of some positions.
LEMMA Extremes ==
  ASSUME NEW n \in Nat, NEW S, S \subseteq 1..n, S # {}
  PROVE  /\ Sets!Min(S) \in S /\ \A i \in S : Sets!Min(S) <= i
         /\ Sets!Max(S) \in S /\ \A i \in S : i <= Sets!Max(S)
  <1>s. S \subseteq Nat /\ \A i \in S : i \in Nat /\ n - i \in Nat
    OBVIOUS
  <1>1. \E x \in S : \A y \in S : x <= y
    BY <1>s, LeastNatural
  <1>2. \E x \in S : \A y \in S : x >= y
    <2> DEFINE T == {n - i : i \in S}
    <2>1. PICK m \in T : \A k \in T : m <= k
      <3>1. T \subseteq Nat
        BY <1>s
      <3>2. T # {}
        OBVIOUS
      <3> HIDE DEF T
      <3> QED
        BY <3>1, <3>2, LeastNatural
    <2>2. PICK x \in S : m = n - x
      BY <2>1
    <2>3. ASSUME NEW y \in S PROVE x >= y
      <3>1. n - x <= n - y
        BY <2>1, <2>2
      <3>2. x \in Nat /\ y \in Nat
        BY <1>s
      <3> QED
        BY <3>1, <3>2
    <2> QED
      BY <2>3
  <1>3. Sets!Min(S) \in S /\ \A i \in S : Sets!Min(S) <= i
    BY <1>1 DEF Sets!Min
  <1>4. Sets!Max(S) \in S /\ \A i \in S : Sets!Max(S) >= i
    BY <1>2 DEF Sets!Max
  <1>5. \A i \in S : i <= Sets!Max(S)
    <2> DEFINE m == Sets!Max(S)
    <2>1. m \in S /\ \A i \in S : m >= i
      BY <1>4
    <2> HIDE DEF m
    <2>2. \A i \in S : i <= m
      BY <1>s, <2>1
    <2> QED
      BY <2>2 DEF m
  <1> QED
    BY <1>3, <1>4, <1>5

LEMMA SubSeqFacts ==
  ASSUME NEW n \in Seq(Bytes), NEW i \in 1..Len(n)+1, NEW j \in i-1..Len(n)
  PROVE  /\ SubSeq(n, i, j) \in Seq(Bytes)
         /\ Len(SubSeq(n, i, j)) = j - i + 1
         /\ DOMAIN SubSeq(n, i, j) = 1..(j - i + 1)
         /\ \A k \in 1..(j - i + 1) : SubSeq(n, i, j)[k] = n[i + k - 1]
  OBVIOUS

\* An extension is empty where there is no dot, or what follows the last one.
LEMMA ExtShape ==
  ASSUME NEW n \in Seq(Bytes)
  PROVE  /\ Ext(n) \in Seq(Bytes)
         /\ Len(Ext(n)) \in 0..Len(n)
         /\ Ext(n) = <<>> => \A i \in 1..Len(n) : n[i] # "."
         /\ Ext(n) # <<>> => /\ Ext(n)[1] = "."
                             /\ \A i \in 1..Len(Ext(n)) : Ext(n)[i] = n[Len(n) - Len(Ext(n)) + i]
                             /\ \A i \in 1..Len(n) : n[i] = "." => i <= Len(n) - Len(Ext(n)) + 1
  <1> DEFINE dots == {i \in DOMAIN n : n[i] = "."}
             d == Sets!Max(dots)
  <1>1. CASE dots = {}
    BY <1>1 DEF Ext
  <1>2. CASE dots # {}
    <2>1. d \in dots /\ \A i \in dots : i <= d
      <3>1. dots \subseteq 1..Len(n) /\ Len(n) \in Nat
        OBVIOUS
      <3> HIDE DEF dots
      <3> QED
        BY <1>2, <3>1, Extremes
    <2>2. Ext(n) = SubSeq(n, d, Len(n))
      BY <1>2 DEF Ext
    <2>3. d \in 1..Len(n) /\ n[d] = "." /\ \A i \in 1..Len(n) : n[i] = "." => i <= d
      BY <2>1
    <2> HIDE DEF d, dots
    <2>4. /\ Ext(n) \in Seq(Bytes)
          /\ Len(Ext(n)) = Len(n) - d + 1
          /\ \A k \in 1..(Len(n) - d + 1) : Ext(n)[k] = n[d + k - 1]
      BY <2>2, <2>3, SubSeqFacts
    <2> QED
      BY <2>3, <2>4
  <1> QED
    BY <1>1, <1>2

LEMMA SeqEqual ==
  ASSUME NEW s \in Seq(Bytes), NEW t \in Seq(Bytes), Len(s) = Len(t),
         \A i \in 1..Len(s) : s[i] = t[i]
  PROVE  s = t
  OBVIOUS

LEMMA ExtIs ==
  ASSUME NEW s \in Seq(Bytes), NEW d \in 1..Len(s), s[d] = ".",
         \A i \in d + 1..Len(s) : s[i] # "."
  PROVE  Ext(s) = SubSeq(s, d, Len(s))
  <1> DEFINE dots == {i \in DOMAIN s : s[i] = "."}
             m == Sets!Max(dots)
  <1>1. dots \subseteq 1..Len(s) /\ Len(s) \in Nat /\ d \in dots
    OBVIOUS
  <1>2. m \in dots /\ \A i \in dots : i <= m
    <2> HIDE DEF dots
    <2> QED
      BY <1>1, Extremes
  <1>3. m = d
    <2>1. m \in 1..Len(s) /\ s[m] = "." /\ d <= m
      BY <1>1, <1>2
    <2> HIDE DEF m
    <2> QED
      BY <2>1
  <1>4. Ext(s) = SubSeq(s, m, Len(s))
    BY <1>1 DEF Ext
  <1> QED
    BY <1>3, <1>4

\* Trimming takes nothing but spaces and dots, and leaves none at either end.
LEMMA TrimmedShape ==
  ASSUME NEW n \in Seq(Bytes), Trimmed(n) # <<>>
  PROVE  \E a, b \in 1..Len(n) :
             /\ a <= b
             /\ Trimmed(n) = SubSeq(n, a, b)
             /\ n[a] \notin {" ", "."} /\ n[b] \notin {" ", "."}
             /\ \A i \in 1..Len(n) : i < a \/ b < i => n[i] \in {" ", "."}
  <1> DEFINE kept == {i \in DOMAIN n : n[i] \notin {" ", "."}}
             a == Sets!Min(kept)
             b == Sets!Max(kept)
  <1>1. kept # {}
    BY DEF Trimmed
  <1>2. Trimmed(n) = SubSeq(n, a, b)
    BY <1>1 DEF Trimmed
  <1>3. DOMAIN n = 1..Len(n) /\ Len(n) \in Nat
    OBVIOUS
  <1>4. \A i : i \in kept <=> i \in 1..Len(n) /\ n[i] \notin {" ", "."}
    BY <1>3
  <1>5. a \in kept /\ b \in kept /\ \A i \in kept : a <= i /\ i <= b
    <2> HIDE DEF kept
    <2>1. kept \subseteq 1..Len(n)
      BY <1>4
    <2> QED
      BY <1>1, <1>3, <2>1, Extremes
  <1> HIDE DEF a, b, kept
  <1>6. a \in 1..Len(n) /\ b \in 1..Len(n) /\ a <= b
    BY <1>4, <1>5
  <1>7. n[a] \notin {" ", "."} /\ n[b] \notin {" ", "."}
    BY <1>4, <1>5
  <1>8. ASSUME NEW i \in 1..Len(n), i < a \/ b < i PROVE n[i] \in {" ", "."}
    <2>1. i \notin kept
      BY <1>5, <1>6, <1>8
    <2> QED
      BY <1>4, <2>1
  <1> QED
    BY <1>2, <1>6, <1>7, <1>8

LEMMA WiderSeq ==
  ASSUME NEW S, NEW T, S \subseteq T
  PROVE  \A n \in Seq(S) : n \in Seq(T)
  OBVIOUS

LEMMA SeqDomain ==
  ASSUME NEW s \in Seq(Bytes)
  PROVE  DOMAIN s = 1..Len(s) /\ Len(s) \in Nat
  OBVIOUS

LEMMA WholeSeq ==
  ASSUME NEW s \in Seq(Bytes), Len(s) # 0
  PROVE  SubSeq(s, 1, Len(s)) = s
  <1>1. Len(s) \in Nat
    OBVIOUS
  <1>2. 1 \in 1..Len(s) + 1 /\ Len(s) \in 1 - 1..Len(s)
    BY <1>1
  <1>3. /\ SubSeq(s, 1, Len(s)) \in Seq(Bytes)
        /\ Len(SubSeq(s, 1, Len(s))) = Len(s) - 1 + 1
        /\ \A k \in 1..(Len(s) - 1 + 1) : SubSeq(s, 1, Len(s))[k] = s[1 + k - 1]
    BY <1>2, SubSeqFacts
  <1> DEFINE t == SubSeq(s, 1, Len(s))
  <1> HIDE DEF t
  <1>4. t \in Seq(Bytes) /\ Len(t) = Len(s) /\ \A k \in 1..Len(s) : t[k] = s[k]
    BY <1>1, <1>3 DEF t
  <1>5. t = s
    BY <1>4, SeqEqual
  <1> QED
    BY <1>5 DEF t

LEMMA TrimmedFixed ==
  ASSUME NEW s \in Seq(Bytes), Len(s) # 0, s[1] \notin Edge, s[Len(s)] \notin Edge
  PROVE  Trimmed(s) = s
  <1> DEFINE kept == {i \in DOMAIN s : s[i] \notin Edge}
             a == Sets!Min(kept)
             b == Sets!Max(kept)
             n == Len(s)
  <1>1. DOMAIN s = 1..n /\ n \in Nat
    BY SeqDomain
  <1>2. 1 \in kept /\ n \in kept /\ kept \subseteq 1..n
    <2> HIDE DEF n
    <2>1. 1 \in 1..n /\ n \in 1..n
      BY <1>1 DEF n
    <2> QED
      BY <1>1, <2>1 DEF n
  <1>3. Trimmed(s) = SubSeq(s, a, b)
    BY <1>2, Zenon DEF Trimmed, Edge
  <1>4. a \in kept /\ b \in kept /\ \A i \in kept : a <= i /\ i <= b
    <2> HIDE DEF kept, n
    <2> QED
      BY <1>1, <1>2, Extremes
  <1>6. a = 1 /\ b = n
    <2> HIDE DEF a, b, kept, n
    <2> QED
      BY <1>1, <1>2, <1>4
  <1>7. SubSeq(s, 1, n) = s
    BY WholeSeq
  <1> QED
    BY <1>3, <1>6, <1>7, Zenon

LEMMA ReplacedShape ==
  ASSUME NEW n \in Seq(Bytes)
  PROVE  /\ Replaced(n) \in Seq(Bytes)
         /\ Len(Replaced(n)) = Len(n)
         /\ \A i \in 1..Len(n) : Replaced(n)[i] = IF n[i] = "<" THEN "_" ELSE n[i]
  <1> DEFINE m == Len(n)
             value(i) == IF n[i] = "<" THEN "_" ELSE n[i]
  <1>1. DOMAIN n = 1..m /\ m \in Nat
    BY SeqDomain
  <1>2. \A i \in 1..m : n[i] \in Bytes
    OBVIOUS
  <1>3. Replaced(n) = [i \in 1..m |-> value(i)]
    BY <1>1, Zenon DEF Replaced
  <1>4. \A i \in 1..m : value(i) \in Bytes
    <2> SUFFICES ASSUME NEW i \in 1..m PROVE value(i) \in Bytes
      OBVIOUS
    <2>1. n[i] \in Bytes
      BY <1>2
    <2>2. "_" \in Bytes
      BY DEF Bytes
    <2> QED
      BY <2>1, <2>2, Zenon
  <1> HIDE DEF m, value
  <1>5. Replaced(n) \in [1..m -> Bytes]
    BY <1>3, <1>4
  <1>6. \A k \in Nat : \A f \in [1..k -> Bytes] : f \in Seq(Bytes) /\ Len(f) = k
    OBVIOUS
  <1>7. Replaced(n) \in Seq(Bytes) /\ Len(Replaced(n)) = m
    BY <1>1, <1>5, <1>6
  <1>8. \A i \in 1..m : Replaced(n)[i] = value(i)
    BY <1>3
  <1> QED
    BY <1>7, <1>8 DEF m, value

LEMMA ReplacedFixed ==
  ASSUME NEW s \in Seq(Bytes), \A i \in 1..Len(s) : s[i] # "<"
  PROVE  Replaced(s) = s
  BY ReplacedShape, SeqEqual

\* What is cut keeps the extension and the bytes before it that there is room for.
LEMMA CutShape ==
  ASSUME NEW g \in Seq(Bytes), Cut(g) # g
  PROVE  \E room \in 1..Len(g) - Len(Ext(g)) :
             /\ room + Len(Ext(g)) = MaxFilenameLen
             /\ Cut(g) \in Seq(Bytes)
             /\ Len(Cut(g)) = MaxFilenameLen
             /\ \A i \in 1..room : Cut(g)[i] = g[i]
             /\ \A k \in 1..Len(Ext(g)) : Cut(g)[room + k] = Ext(g)[k]
  <1> DEFINE e == Ext(g)
             room == MaxFilenameLen - Len(e)
  <1>1. e \in Seq(Bytes) /\ Len(e) \in 0..Len(g)
    BY ExtShape
  <1>2. /\ Len(g) > MaxFilenameLen /\ room > 0
        /\ Cut(g) = SubSeq(BaseName(g), 1, room) \o e
    BY DEF Cut
  <1>3. BaseName(g) = SubSeq(g, 1, Len(g) - Len(e))
    BY DEF BaseName
  <1> HIDE DEF e
  <1>4. room \in 1..Len(g) - Len(e) /\ Len(g) - Len(e) \in 0..Len(g)
    BY <1>1, <1>2, LimitAssumption
  <1>5. /\ BaseName(g) \in Seq(Bytes)
        /\ Len(BaseName(g)) = Len(g) - Len(e)
        /\ \A k \in 1..Len(g) - Len(e) : BaseName(g)[k] = g[k]
    BY <1>3, <1>4, SubSeqFacts
  <1> DEFINE p == SubSeq(BaseName(g), 1, room)
  <1>6. p \in Seq(Bytes) /\ Len(p) = room /\ \A k \in 1..room : p[k] = BaseName(g)[k]
    BY <1>4, <1>5, SubSeqFacts
  <1>7. Cut(g) = p \o e
    BY <1>2
  <1> HIDE DEF p
  <1>8. /\ p \o e \in Seq(Bytes)
        /\ Len(p \o e) = room + Len(e)
        /\ \A i \in 1..room : (p \o e)[i] = p[i]
        /\ \A k \in 1..Len(e) : (p \o e)[room + k] = e[k]
    BY <1>1, <1>4, <1>6
  <1>9. /\ room + Len(e) = MaxFilenameLen
        /\ \A i \in 1..room : p[i] = g[i]
    BY <1>1, <1>4, <1>5, <1>6, LimitAssumption
  <1> QED
    BY <1>4, <1>7, <1>8, <1>9 DEF e

LEMMA CutExt ==
  ASSUME NEW g \in Seq(Bytes), Cut(g) # g
  PROVE  Ext(Cut(g)) = Ext(g)
  <1> DEFINE e == Ext(g)
             s == Cut(g)
  <1>1. PICK room \in 1..Len(g) - Len(e) :
            /\ room + Len(e) = MaxFilenameLen
            /\ s \in Seq(Bytes)
            /\ Len(s) = MaxFilenameLen
            /\ \A i \in 1..room : s[i] = g[i]
            /\ \A k \in 1..Len(e) : s[room + k] = e[k]
    BY CutShape
  <1>2. /\ e \in Seq(Bytes)
        /\ Len(e) \in 0..Len(g)
        /\ e = <<>> => \A i \in 1..Len(g) : g[i] # "."
        /\ e # <<>> => /\ e[1] = "."
                       /\ \A i \in 1..Len(e) : e[i] = g[Len(g) - Len(e) + i]
                       /\ \A i \in 1..Len(g) : g[i] = "." => i <= Len(g) - Len(e) + 1
    BY ExtShape
  <1>m. MaxFilenameLen \in Nat
    BY LimitAssumption
  <1>3. CASE e = <<>>
    <2>1. \A i \in 1..Len(s) : s[i] # "."
      BY <1>1, <1>2, <1>3
    <2>2. Ext(s) = <<>>
      BY <1>1, <2>1 DEF Ext
    <2> QED
      BY <1>3, <2>2
  <1>4. CASE e # <<>>
    <2> HIDE DEF e, s
    <2>1. Len(e) \in Nat \ {0}
      BY <1>2, <1>4
    <2>2. room + 1 \in 1..Len(s) /\ s[room + 1] = "."
      BY <1>1, <1>2, <1>4, <1>m, <2>1
    <2>3. ASSUME NEW i \in room + 1 + 1..Len(s) PROVE s[i] # "."
      <3> DEFINE k == i - room
      <3>1. k \in 2..Len(e) /\ i = room + k
        BY <1>1, <1>m, <2>1, <2>2
      <3> HIDE DEF k
      <3>2. s[i] = e[k] /\ e[k] = g[Len(g) - Len(e) + k]
        BY <1>1, <1>2, <1>4, <3>1
      <3>3. Len(g) - Len(e) + k \in 1..Len(g) /\ ~ (Len(g) - Len(e) + k <= Len(g) - Len(e) + 1)
        BY <1>2, <3>1
      <3> QED
        BY <1>2, <1>4, <3>2, <3>3
    <2>4. Ext(s) = SubSeq(s, room + 1, Len(s))
      BY <1>1, <2>2, <2>3, ExtIs
    <2>5. /\ SubSeq(s, room + 1, Len(s)) \in Seq(Bytes)
          /\ Len(SubSeq(s, room + 1, Len(s))) = Len(s) - (room + 1) + 1
          /\ \A k \in 1..(Len(s) - (room + 1) + 1) :
                 SubSeq(s, room + 1, Len(s))[k] = s[room + 1 + k - 1]
      BY <1>1, <1>m, <2>2, SubSeqFacts
    <2>6. Len(s) - (room + 1) + 1 = Len(e)
      BY <1>1, <1>m, <2>1
    <2>7. \A k \in 1..Len(e) : s[room + 1 + k - 1] = e[k]
      BY <1>1, <2>1
    <2> QED
      <3>1. Ext(s) \in Seq(Bytes) /\ Len(Ext(s)) = Len(e) /\ \A k \in 1..Len(e) : Ext(s)[k] = e[k]
        BY <2>4, <2>5, <2>6, <2>7
      <3>2. Ext(s) = e
        BY <1>2, <3>1, SeqEqual
      <3> QED
        BY <3>2 DEF e, s
  <1> QED
    BY <1>3, <1>4

LEMMA BytesInclude == \A n \in Seq(STRING) : n \in Seq(Bytes)
  <1>1. STRING \subseteq Bytes
    BY DEF Bytes
  <1> QED
    BY <1>1, WiderSeq

\* The name before the cut.
LEMMA GivenShape ==
  ASSUME NEW n \in Seq(Bytes), Trimmed(Replaced(n)) # <<>>
  PROVE  LET g == Trimmed(Replaced(n))
         IN  \E a, b \in 1..Len(n) :
                 /\ a <= b
                 /\ g \in Seq(Bytes)
                 /\ Len(g) = b - a + 1
                 /\ \A i \in 1..Len(g) : g[i] = Replaced(n)[a + i - 1]
                 /\ g[1] \notin Edge /\ g[Len(g)] \notin Edge
                 /\ \A i \in 1..Len(n) : i < a \/ b < i => Replaced(n)[i] \in Edge
                 /\ \A i \in 1..Len(g) : g[i] # "<"
  <1> DEFINE r == Replaced(n)
             g == Trimmed(r)
  <1>1. r \in Seq(Bytes) /\ Len(r) = Len(n)
    BY ReplacedShape
  <1>2. \A i \in 1..Len(n) : r[i] # "<"
    <2>1. \A i \in 1..Len(n) : r[i] = IF n[i] = "<" THEN "_" ELSE n[i]
      BY ReplacedShape
    <2> QED
      BY <2>1
  <1> HIDE DEF r
  <1>3. PICK a, b \in 1..Len(r) :
            /\ a <= b
            /\ g = SubSeq(r, a, b)
            /\ r[a] \notin Edge /\ r[b] \notin Edge
            /\ \A i \in 1..Len(r) : i < a \/ b < i => r[i] \in Edge
    BY <1>1, TrimmedShape DEF Edge, r
  <1>4. Len(r) \in Nat
    BY <1>1, SeqDomain
  <1>5. a \in 1..Len(r) + 1 /\ b \in a - 1..Len(r)
    BY <1>3, <1>4
  <1>6. /\ g \in Seq(Bytes)
        /\ Len(g) = b - a + 1
        /\ \A k \in 1..(b - a + 1) : g[k] = r[a + k - 1]
    BY <1>1, <1>3, <1>5, SubSeqFacts
  <1> HIDE DEF g
  <1>7. /\ 1 \in 1..(b - a + 1) /\ a + 1 - 1 = a
        /\ b - a + 1 \in 1..(b - a + 1) /\ a + (b - a + 1) - 1 = b
        /\ \A k \in 1..(b - a + 1) : a + k - 1 \in 1..Len(r)
    BY <1>3, <1>4
  <1>8. g[1] = r[a] /\ g[Len(g)] = r[b] /\ \A k \in 1..(b - a + 1) : g[k] # "<"
    BY <1>1, <1>2, <1>6, <1>7
  <1>9. /\ a <= b
        /\ g \in Seq(Bytes)
        /\ Len(g) = b - a + 1
        /\ \A i \in 1..Len(g) : g[i] = r[a + i - 1]
        /\ g[1] \notin Edge /\ g[Len(g)] \notin Edge
        /\ \A i \in 1..Len(n) : i < a \/ b < i => r[i] \in Edge
        /\ \A i \in 1..Len(g) : g[i] # "<"
    BY <1>1, <1>3, <1>6, <1>8
  <1>10. a \in 1..Len(n) /\ b \in 1..Len(n)
    BY <1>1
  <1> QED
    BY <1>9, <1>10 DEF g, r

LEMMA SettledGiven ==
  ASSUME NEW s \in Seq(Bytes), Len(s) # 0, s[1] \notin Edge, s[Len(s)] \notin Edge,
         \A i \in 1..Len(s) : s[i] # "<"
  PROVE  Trimmed(Replaced(s)) = s
  BY ReplacedFixed, TrimmedFixed

\* No rune is split: what is replaced or trimmed off is no part of one.
LEMMA TrimKeepsRunes ==
  ASSUME NEW n \in Seq(Bytes), Trimmed(Replaced(n)) # <<>>, WellFormed(n)
  PROVE  WellFormed(Trimmed(Replaced(n)))
  <1> DEFINE r == Replaced(n)
             g == Trimmed(r)
  <1>1. PICK a, b \in 1..Len(n) :
            /\ a <= b
            /\ g \in Seq(Bytes)
            /\ Len(g) = b - a + 1
            /\ \A i \in 1..Len(g) : g[i] = r[a + i - 1]
            /\ \A i \in 1..Len(n) : i < a \/ b < i => r[i] \in Edge
    BY GivenShape
  <1>2. /\ DOMAIN n = 1..Len(n) /\ Len(n) \in Nat
        /\ DOMAIN g = 1..Len(g) /\ Len(g) \in Nat
    BY <1>1, SeqDomain
  <1>3. \A i \in 1..Len(n) :
            /\ r[i] = "lead" <=> n[i] = "lead"
            /\ r[i] = "cont" <=> n[i] = "cont"
    <2>1. \A i \in 1..Len(n) : r[i] = IF n[i] = "<" THEN "_" ELSE n[i]
      BY ReplacedShape
    <2> HIDE DEF r
    <2> QED
      BY <2>1
  <1>4. \A i \in 1..Len(n) : r[i] = "lead" \/ r[i] = "cont" => a <= i /\ i <= b
    <2> HIDE DEF r, g
    <2>1. \A i \in 1..Len(n) : r[i] \in Edge => r[i] # "lead" /\ r[i] # "cont"
      BY DEF Edge
    <2> QED
      BY <1>1, <1>2, <2>1
  <1>5. \A i \in 1..Len(n) :
            /\ n[i] = "lead" => i < Len(n) /\ n[i + 1] = "cont"
            /\ n[i] = "cont" => i > 1 /\ n[i - 1] = "lead"
    BY <1>2 DEF WellFormed
  <1> HIDE DEF r, g
  <1>6. ASSUME NEW i \in 1..Len(g), g[i] = "lead"
        PROVE  i < Len(g) /\ g[i + 1] = "cont"
    <2> DEFINE k == a + i - 1
    <2>1. k \in 1..Len(n) /\ k + 1 = a + (i + 1) - 1 /\ g[i] = r[k]
      BY <1>1, <1>2
    <2> HIDE DEF k
    <2>2. k < Len(n) /\ k + 1 \in 1..Len(n) /\ r[k + 1] = "cont"
      <3>1. k < Len(n) /\ n[k + 1] = "cont"
        BY <1>3, <1>5, <1>6, <2>1
      <3>2. k + 1 \in 1..Len(n)
        BY <1>2, <2>1, <3>1
      <3> QED
        BY <1>3, <3>1, <3>2
    <2>3. k + 1 <= b
      BY <1>4, <2>2
    <2>4. i < Len(g) /\ i + 1 \in 1..Len(g)
      BY <1>1, <1>2, <2>3 DEF k
    <2> QED
      BY <1>1, <2>1, <2>2, <2>4
  <1>7. ASSUME NEW i \in 1..Len(g), g[i] = "cont"
        PROVE  i > 1 /\ g[i - 1] = "lead"
    <2> DEFINE k == a + i - 1
    <2>1. k \in 1..Len(n) /\ k - 1 = a + (i - 1) - 1 /\ g[i] = r[k]
      BY <1>1, <1>2
    <2> HIDE DEF k
    <2>2. k > 1 /\ k - 1 \in 1..Len(n) /\ r[k - 1] = "lead"
      <3>1. k > 1 /\ n[k - 1] = "lead"
        BY <1>3, <1>5, <1>7, <2>1
      <3>2. k - 1 \in 1..Len(n)
        BY <1>2, <2>1, <3>1
      <3> QED
        BY <1>3, <3>1, <3>2
    <2>3. a <= k - 1
      BY <1>4, <2>2
    <2>4. i > 1 /\ i - 1 \in 1..Len(g)
      BY <1>1, <1>2, <2>3 DEF k
    <2> QED
      BY <1>1, <2>1, <2>2, <2>4
  <1>8. WellFormed(g)
    BY <1>2, <1>6, <1>7 DEF WellFormed
  <1> QED
    BY <1>8 DEF g, r

LEMMA AcceptedHasExt ==
  ASSUME NEW s, Accepted(s)
  PROVE  Ext(s) = <<".", "t">>
  BY DEF Accepted, ValidateFileExtension, AllowedTypes

LEMMA NoExt == Ext(<<>>) = <<>> /\ Ext(<<"a">>) = <<>>
  <1>1. {i \in DOMAIN <<>> : <<>>[i] = "."} = {}
    OBVIOUS
  <1>2. {i \in DOMAIN <<"a">> : <<"a">>[i] = "."} = {}
    OBVIOUS
  <1> QED
    BY <1>1, <1>2 DEF Ext

\* A name that was cut ends with the extension it had before, so there is nothing left to
\* trim; and it is as long as the limit, so there is nothing left to cut.
LEMMA CutSettles ==
  ASSUME NEW g \in Seq(Bytes), Len(g) # 0, g[1] \notin Edge, g[Len(g)] \notin Edge,
         \A i \in 1..Len(g) : g[i] # "<", Cut(g) # g, Ext(g) # <<>>
  PROVE  /\ Cut(g) \in Seq(Bytes)
         /\ Len(Cut(g)) = MaxFilenameLen
         /\ Trimmed(Replaced(Cut(g))) = Cut(g)
         /\ Cut(Cut(g)) = Cut(g)
  <1> DEFINE e == Ext(g)
             s == Cut(g)
  <1>1. PICK room \in 1..Len(g) - Len(e) :
            /\ room + Len(e) = MaxFilenameLen
            /\ s \in Seq(Bytes)
            /\ Len(s) = MaxFilenameLen
            /\ \A i \in 1..room : s[i] = g[i]
            /\ \A k \in 1..Len(e) : s[room + k] = e[k]
    BY CutShape
  <1>2. /\ e \in Seq(Bytes)
        /\ Len(e) \in 0..Len(g)
        /\ e # <<>> => \A i \in 1..Len(e) : e[i] = g[Len(g) - Len(e) + i]
    BY ExtShape
  <1>3. MaxFilenameLen \in Nat \ {0} /\ Len(g) \in Nat
    BY LimitAssumption, SeqDomain
  <1>4. Cut(s) = s
    BY <1>1, <1>3 DEF Cut
  <1>5. e # <<>>
    OBVIOUS
  <1> HIDE DEF e, s
  <1>6. Len(e) \in Nat \ {0}
    BY <1>2, <1>5
  <1>7. s[1] = g[1]
    BY <1>1, <1>3, <1>6
  <1>8. s[Len(s)] = g[Len(g)]
    <2>1. Len(s) = room + Len(e) /\ Len(e) \in 1..Len(e)
      BY <1>1, <1>6
    <2>2. s[Len(s)] = e[Len(e)]
      BY <1>1, <2>1
    <2>3. e[Len(e)] = g[Len(g) - Len(e) + Len(e)]
      BY <1>2, <1>5, <2>1
    <2>4. Len(g) - Len(e) + Len(e) = Len(g)
      BY <1>3, <1>6
    <2> QED
      BY <2>2, <2>3, <2>4
  <1>9. ASSUME NEW i \in 1..Len(s) PROVE s[i] # "<"
    <2>1. CASE i <= room
      <3>1. i \in 1..room /\ i \in 1..Len(g)
        BY <1>1, <1>2, <1>3, <1>6, <2>1
      <3> QED
        BY <1>1, <3>1
    <2>2. CASE ~ (i <= room)
      <3> DEFINE k == i - room
      <3>1. k \in 1..Len(e) /\ i = room + k /\ Len(g) - Len(e) + k \in 1..Len(g)
        BY <1>1, <1>2, <1>3, <1>6, <2>2
      <3> HIDE DEF k
      <3> QED
        BY <1>1, <1>2, <1>5, <3>1
    <2> QED
      BY <2>1, <2>2
  <1>10. Len(s) # 0
    BY <1>1, <1>3
  <1>11. Trimmed(Replaced(s)) = s
    BY <1>1, <1>7, <1>8, <1>9, <1>10, SettledGiven
  <1> QED
    BY <1>1, <1>4, <1>11 DEF s

\* Whatever bytes a client sends: not only those of Filename.
LEMMA NameSettles ==
  ASSUME NEW n \in Seq(Bytes)
  PROVE  Settles(n)
  <1> DEFINE g == Trimmed(Replaced(n))
             s == SanitizeFilename(n)
  <1> SUFFICES ASSUME Accepted(s)
               PROVE  /\ SanitizeFilename(s) = s
                      /\ Ext(s) = Ext(g)
                      /\ s = g \/ Len(s) = MaxFilenameLen
                      /\ WellFormed(n) /\ s = g => WellFormed(s)
    BY Zenon DEF Settles
  <1>1. Ext(s) # <<>>
    <2>1. Ext(s) = <<".", "t">>
      BY AcceptedHasExt
    <2> HIDE DEF s
    <2> QED
      BY <2>1
  <1>2. s = Cut(g) /\ s # <<>>
    <2>1. s = IF Cut(g) = <<>> THEN <<"a">> ELSE Cut(g)
      BY DEF SanitizeFilename
    <2> HIDE DEF s, g
    <2> QED
      BY <1>1, <2>1, NoExt
  <1>3. g # <<>>
    <2>1. Cut(<<>>) = <<>>
      BY LimitAssumption DEF Cut
    <2> HIDE DEF s, g
    <2> QED
      BY <1>2, <2>1
  <1>4. /\ g \in Seq(Bytes)
        /\ Len(g) # 0
        /\ g[1] \notin Edge /\ g[Len(g)] \notin Edge
        /\ \A i \in 1..Len(g) : g[i] # "<"
    <2>1. PICK a, b \in 1..Len(n) :
            /\ g \in Seq(Bytes)
            /\ g[1] \notin Edge /\ g[Len(g)] \notin Edge
            /\ \A i \in 1..Len(g) : g[i] # "<"
      BY <1>3, GivenShape
    <2> HIDE DEF g
    <2>2. Len(g) # 0
      BY <1>3, <2>1
    <2> QED
      BY <2>1, <2>2
  <1>5. \A x : x # <<>> /\ Cut(Trimmed(Replaced(x))) = x => SanitizeFilename(x) = x
    BY Zenon DEF SanitizeFilename
  <1>6. CASE Cut(g) = g
    <2>1. Trimmed(Replaced(g)) = g
      <3> HIDE DEF g
      <3> QED
        BY <1>4, SettledGiven
    <2>2. SanitizeFilename(s) = s
      <3> HIDE DEF s, g
      <3> QED
        BY <1>2, <1>3, <1>5, <1>6, <2>1
    <2>3. WellFormed(n) => WellFormed(g)
      BY <1>3, TrimKeepsRunes
    <2> HIDE DEF s, g
    <2> QED
      BY <1>2, <1>6, <2>2, <2>3
  <1>7. CASE Cut(g) # g
    <2>1. Ext(s) = Ext(g) /\ Ext(g) # <<>>
      <3> HIDE DEF s, g
      <3> QED
        BY <1>1, <1>2, <1>4, <1>7, CutExt
    <2>2. /\ Len(Cut(g)) = MaxFilenameLen
          /\ Trimmed(Replaced(Cut(g))) = Cut(g)
          /\ Cut(Cut(g)) = Cut(g)
      <3> HIDE DEF s, g
      <3> QED
        BY <1>4, <1>7, <2>1, CutSettles
    <2>3. SanitizeFilename(s) = s
      <3> HIDE DEF s, g
      <3> QED
        BY <1>2, <1>5, <2>2
    <2> HIDE DEF s, g
    <2> QED
      BY <1>2, <1>7, <2>1, <2>2, <2>3
  <1> QED
    BY <1>6, <1>7

\* Whatever name an upload brings, the one stored for it is settled: sanitizing it again
\* changes nothing, it has the extension it came with, and its runes are whole unless it
\* was cut (handler.Upload: SanitizeFilename, then ValidateFile).
THEOREM NamesSettleHolds == ServerSpec => []NamesSettle
  <1>1. \A n \in Filename : Settles(n)
    BY FilenameAssumption, BytesInclude, NameSettles
  <1>2. NamesSettle
    BY <1>1 DEF NamesSettle
  <1> QED
    BY <1>2, PTL

\* A name that is short enough not to be cut keeps its runes.
LEMMA WholeNameStays ==
  ASSUME NEW n \in Seq(Bytes), WellFormed(n), Len(n) <= MaxFilenameLen,
         Accepted(SanitizeFilename(n))
  PROVE  WellFormed(SanitizeFilename(n))
  <1> DEFINE g == Trimmed(Replaced(n))
             s == SanitizeFilename(n)
  <1>1. /\ WellFormed(n) /\ s = g => WellFormed(s)
        /\ Ext(s) # <<>>
    <2>1. Ext(s) = <<".", "t">>
      BY AcceptedHasExt
    <2>2. Settles(n)
      BY NameSettles
    <2>3. WellFormed(n) /\ s = g => WellFormed(s)
      BY <2>2, Zenon DEF Settles
    <2> HIDE DEF s
    <2> QED
      BY <2>1, <2>3
  <1>2. s = IF Cut(g) = <<>> THEN <<"a">> ELSE Cut(g)
    BY DEF SanitizeFilename
  <1>3. Cut(g) = g
    <2>1. CASE g = <<>>
      BY <2>1, LimitAssumption DEF Cut
    <2>2. CASE g # <<>>
      <3>1. PICK a, b \in 1..Len(n) : Len(g) = b - a + 1
        BY <2>2, GivenShape
      <3>2. Len(n) \in Nat
        BY SeqDomain
      <3> HIDE DEF g
      <3>3. ~ (Len(g) > MaxFilenameLen)
        BY <3>1, <3>2, LimitAssumption
      <3> QED
        BY <3>3 DEF Cut
    <2> QED
      BY <2>1, <2>2
  <1> HIDE DEF g, s
  <1>4. s = g
    BY <1>1, <1>2, <1>3, NoExt
  <1> QED
    BY <1>1, <1>4 DEF s

-----------------------------------------------------------------------------
(* The service's promises, kept by the whole server *)

\* Clients send names of whole runes that fit: PostgreSQL refuses none of them.
CleanNames == \A h \in RawHeader : WellFormed(h.name) /\ Len(h.name) <= MaxFilenameLen

LEMMA AcceptsWhole ==
  ASSUME CleanNames, NEW r \in Request, NEW c \in Content, NEW h \in RawHeader,
         AcceptUpload(r, c, h)
  PROVE  misnamed' = misnamed
  <1> DEFINE name == SanitizeFilename(h.name)
             sent == [h EXCEPT !.name = name]
  <1>1. h \in [name : Filename, size : Nat, contentType : STRING]
    BY HeaderAssumption
  <1>2. h.name \in Seq(Bytes)
    BY <1>1, FilenameAssumption, BytesInclude
  <1>3. sent.name = name
    <2> HIDE DEF name
    <2> QED
      BY <1>1
  <1>4. ValidateFile(sent)
    BY Zenon DEF AcceptUpload
  <1>5. Accepted(name)
    <2> HIDE DEF name, sent
    <2> QED
      BY <1>3, <1>4 DEF ValidateFile, Accepted
  <1>6. WellFormed(name)
    BY <1>2, <1>5, WholeNameStays DEF CleanNames
  <1>7. misnamed' = IF WellFormed(name) THEN misnamed ELSE misnamed \cup {r}
    BY Zenon DEF AcceptUpload
  <1> QED
    BY <1>6, <1>7

LEMMA NamesStayClean ==
  ASSUME CleanNames
  PROVE  misnamed = {} /\ [ServerNext]_serverVars => misnamed' = {}
  <1> SUFFICES ASSUME misnamed = {}, [ServerNext]_serverVars PROVE misnamed' = {}
    OBVIOUS
  <1>1. ASSUME NEW r \in Request, NEW c \in Content, NEW h \in RawHeader, AcceptUpload(r, c, h)
        PROVE  misnamed' = misnamed
    BY <1>1, AcceptsWhole
  <1>2. CASE \E r \in Request, c \in Content, h \in RawHeader : AcceptUpload(r, c, h)
    BY <1>1, <1>2
  <1>3. CASE ~ \E r \in Request, c \in Content, h \in RawHeader : AcceptUpload(r, c, h)
    BY <1>3
    DEF ServerNext, serverVars, process, RefuseUpload, Arrive, BreakOff, Received,
        HandleDelete, RequestStep, ServiceStep, RefusedInsert, DropKey, StartDownload,
        ReaderStep, Find, LookUp, Query, Fill, Open, Stream, Expire, Boot, Signal, Stop,
        Kill
  <1> QED
    BY <1>2, <1>3

CleanInv == BaseInv /\ misnamed = {}

LEMMA CleanInvariant == ASSUME CleanNames PROVE ServerSpec => []CleanInv
  <1>1. ServerInit => CleanInv
    BY InitServer DEF ServerInit, ServerInv, CleanInv
  <1>2. CleanInv /\ [ServerNext]_serverVars => CleanInv'
    BY NamesStayClean, ServerMoves, MoveBase DEF CleanInv, BaseInv
  <1> QED
    BY <1>1, <1>2, PTL DEF ServerSpec

LEMMA CleanMoves ==
  CleanInv /\ [ServerNext]_serverVars => [Next]_vars \/ \E r \in Request : Refused(r)
  BY ServerMoves DEF CleanInv, BaseInv, ServiceMove, RefusedInsert

\* To its clients the whole server, with downloads, refusals, Redis and the process around
\* the service, is the catalog, where failures cost at most space and names are clean.
THEOREM ServerRefinesCatalogHolds ==
  ASSUME Tolerated, CleanNames PROVE ServerSpec => RefinesCatalog
  <1>1. ServerInit => SafeInv /\ Catalog!CatalogInit
    BY InitSafe, InitCatalog DEF ServerInit
  <1>2. SafeInv /\ CleanInv /\ [ServerNext]_serverVars => SafeInv'
    BY CleanMoves, StepSafe, RefusedSafe
  <1>3. SafeInv /\ CleanInv /\ [ServerNext]_serverVars =>
            [Catalog!CatalogNext]_(Catalog!catalogVars)
    <2>1. ASSUME NEW r \in Request, Refused(r) PROVE UNCHANGED Catalog!catalogVars
      BY <2>1 DEF Refused, tables, Catalog!catalogVars, StoredContents, Stored, RowExists
    <2> QED
      BY <2>1, CleanMoves, StepCatalog
  <1> QED
    BY <1>1, <1>2, <1>3, CleanInvariant, PTL DEF ServerSpec, RefinesCatalog, Catalog!CatalogSpec

LEMMA RefusedUndeleted ==
  ASSUME UndeletedInv, NEW r \in Request, Refused(r)
  PROVE  UndeletedInv'
  <1>1. BaseInv'
    BY MoveBase DEF UndeletedInv, MadeInv, ServiceMove
  <1>2. /\ UNCHANGED <<storage_path, reference_count, files, blobs, body, target, hash, found>>
        /\ pc[r] = "idle" /\ pc'[r] = "err"
        /\ \A q \in Request : q # r => pc'[q] = pc[q]
    BY DEF Refused, Goto, UndeletedInv, MadeInv, BaseInv, TypeOK, tables, locals
  <1>3. MakersInv'
    BY <1>2 DEF UndeletedInv, MadeInv, MakersInv, BaseInv, TypeOK, RowExists
  <1>4. OfTarget'
    BY <1>2 DEF UndeletedInv, OfTarget, HashRead, PathRead
  <1>5. RowsStay' /\ FilesStay'
    BY <1>2 DEF UndeletedInv, RowsStay, FilesStay, RowExists, Deleted
  <1> QED
    BY <1>1, <1>3, <1>4, <1>5 DEF UndeletedInv, MadeInv

\* The server keeps what it answered for, where a first upload's INSERTs succeed and report
\* it and names are clean: an INSERT refused for its name would take the blob and leave the row.
THEOREM ServerAnsweredIsKeptHolds ==
  ASSUME RowsKept, CleanNames PROVE ServerSpec => []AnsweredIsKept
  <1>1. ServerInit => UndeletedInv
    BY InitUndeleted DEF ServerInit
  <1>2. UndeletedInv /\ CleanInv /\ [ServerNext]_serverVars => UndeletedInv'
    BY CleanMoves, StepUndeleted, RefusedUndeleted
  <1> QED
    BY <1>1, <1>2, UndeletedKept, CleanInvariant, PTL DEF ServerSpec

\* A refused INSERT leaves the reference and the row to their owner.
LEMMA RefusalKept ==
  ASSUME KeptInv, NEW r \in Request, Refused(r) \/ RefusedInsert(r)
  PROVE  KeptInv'
  <1>1. BaseInv'
    BY MoveBase DEF KeptInv, ServiceMove
  <1>2. /\ UNCHANGED <<storage_path, reference_count, files, blobs, body, target, hash, found>>
        /\ <<pc[r], pc'[r]>> \in {<<"idle", "err">>, <<"AttachFile", "UndoIncrement">>,
                                  <<"CreateFile", "CleanUpRow">>}
        /\ \A q \in Request : q # r => pc'[q] = pc[q]
    BY DEF Refused, RefusedInsert, Goto, KeptInv, BaseInv, TypeOK, tables, locals
  <1>3. FreshInv' /\ TargetInv' /\ CountInv'
    BY <1>2 DEF KeptInv, FreshInv, TargetInv, CountInv, Unattached, RowExists
  <1>4. TargetKnown'
    BY <1>2 DEF KeptInv, TargetKnown, BaseInv, TypeOK
  <1>5. ASSUME OneDeletePerContent' PROVE OnceInv'
    <2>1. OneDeletePerContent
      BY <1>2, <1>5 DEF OneDeletePerContent
    <2>2. OnceInv
      BY <2>1 DEF KeptInv
    <2>3. \A h : Removed(h)' <=> Removed(h)
      BY <1>2 DEF Removed
    <2>4. \A h : Owners(h)' \subseteq Owners(h)
      BY <1>2 DEF Owners, Holders, Attaching
    <2>5. OwnersCovered'
      <3>1. ASSUME NEW h \in Content PROVE Cardinality(Owners(h)') <= Cardinality(Owners(h))
        BY <2>4, OwnersFinite, FS_Subset
      <3>2. \A h \in Content : reference_count'[h] = reference_count[h] /\ reference_count[h] \in Int
        BY <1>2 DEF KeptInv, BaseInv, TypeOK
      <3>3. ASSUME NEW h \in Content
            PROVE  Cardinality(Owners(h)') \in Nat /\ Cardinality(Owners(h)) \in Nat
        BY <2>4, OwnersFinite, FS_Subset, FS_CardinalityType
      <3> QED
        BY <2>2, <2>3, <3>1, <3>2, <3>3 DEF OnceInv, OwnersCovered
    <2>6. FileTaken' /\ FirstKeepsRow' /\ DeleteKeepsRow'
      BY <1>2, <2>2 DEF OnceInv, FileTaken, FirstKeepsRow, DeleteKeepsRow, Cleaning, PathRead
    <2>7. DuplicateStays'
      BY <1>2, <2>2, <2>3 DEF OnceInv, DuplicateStays, RowExists
    <2>8. BytesOwned'
      BY <1>2, <2>2 DEF OnceInv, BytesOwned, Unnamed
    <2> QED
      BY <2>5, <2>6, <2>7, <2>8 DEF OnceInv
  <1> QED
    BY <1>1, <1>3, <1>4, <1>5 DEF KeptInv

\* Nor does the server leave a blob without a row where no failure loses a copy and the content
\* is deleted once, whatever names clients send: a refused INSERT leaves the row, and its
\* clean-up removes the blob.
THEOREM ServerNoStrayBlobHolds == ASSUME CopiesKept PROVE ServerSpec => []NoStrayBlob
  <1>1. ServerInit => KeptInv
    BY InitKept DEF ServerInit
  <1>2. KeptInv /\ [ServerNext]_serverVars => KeptInv'
    BY ServerMoves, StepKept, RefusalKept DEF ServiceMove, KeptInv, BaseInv
  <1>3. KeptInv => NoStrayBlob
    BY KeptNoStray
  <1> QED
    BY <1>1, <1>2, <1>3, PTL DEF ServerSpec

-----------------------------------------------------------------------------
(* Handlers end *)

Descends == \A r \in Request : pc'[r] # pc[r] => CallsAhead[pc'[r]] < CallsAhead[pc[r]]

LEMMA MoveDescends ==
  ASSUME TypeOK, ServiceMove
  PROVE  Descends
  <1> USE DEF TypeOK, Descends, CallsAhead, Goto, Answer
  <1>1. ASSUME NEW r \in Request, UploadStep(r) PROVE Descends
    BY <1>1
    DEF UploadStep, Put, FindDuplicate, DropCopy, Increment, AttachFile, UndoIncrement,
        InsertStorage, CreateFile, CleanUpRow, CleanUpBlob
  <1>2. ASSUME NEW r \in Request, DeleteStep(r) PROVE Descends
    BY <1>2
    DEF DeleteStep, FindHash, DeleteFile, Decrement, FindRow, DeleteBlob, DeleteRow
  <1>3. ASSUME NEW r \in Request,
               \/ \E c \in Content : StartUpload(r, c)
               \/ \E f \in Request : StartDelete(r, f)
               \/ Refused(r) \/ RefusedInsert(r)
        PROVE  Descends
    BY <1>3 DEF StartUpload, StartDelete, Refused, RefusedInsert
  <1>4. CASE Crash
    BY <1>4 DEF Crash
  <1>5. CASE UNCHANGED vars
    BY <1>5 DEF vars
  <1> HIDE DEF Descends
  <1> QED
    BY <1>1, <1>2, <1>3, <1>4, <1>5 DEF ServiceMove, Next, Step, Finished

ReadsDescend == \A d \in Reader : rpc'[d] # rpc[d] => ReadsAhead(rpc'[d]) < ReadsAhead(rpc[d])
OwedOnce == \A r \in owed' \ owed : pc[r] = "DeleteFile" /\ pc'[r] # pc[r]

LEMMA ReadersDescend ==
  ASSUME ServerInv, [ServerNext]_serverVars
  PROVE  ReadsDescend
  <1> USE DEF ServerInv, ServerTyped, ReadsDescend, ReadsAhead, ReaderGoto
  <1>1. ASSUME NEW d \in Reader, ReaderStep(d) PROVE ReadsDescend
    BY <1>1 DEF ReaderStep, Find, LookUp, Query, Fill, Open, Stream
  <1>2. ASSUME NEW d \in Reader, NEW f \in Request, StartDownload(d, f) PROVE ReadsDescend
    BY <1>2 DEF StartDownload
  <1>3. CASE Kill
    BY <1>3 DEF Kill
  <1>4. CASE UNCHANGED reader
    BY <1>4 DEF reader
  <1> HIDE DEF ReadsDescend
  <1> QED
    BY <1>1, <1>2, <1>3, <1>4
    DEF ServerNext, serverVars, AcceptUpload, RefuseUpload, Arrive, BreakOff, Received,
        HandleDelete, RequestStep, ServiceStep, RefusedInsert, DropKey, Expire, Boot,
        Signal, Stop

LEMMA DropsOwed ==
  ASSUME TypeOK, [ServerNext]_serverVars
  PROVE  OwedOnce
  <1>1. ASSUME NEW r \in Request, ServiceStep(r) PROVE OwedOnce
    <2>1. pc[r] = "DeleteFile" => DeleteFile(r)
      BY <1>1
      DEF ServiceStep, Step, UploadStep, DeleteStep, Put, FindDuplicate, DropCopy, Increment,
          AttachFile, UndoIncrement, InsertStorage, CreateFile, CleanUpRow, CleanUpBlob,
          FindHash, Decrement, FindRow, DeleteBlob, DeleteRow
    <2> QED
      BY <1>1, <2>1 DEF ServiceStep, OwedOnce, DeleteFile, Answer, Goto, TypeOK
  <1>2. ASSUME owed' \subseteq owed PROVE OwedOnce
    BY <1>2 DEF OwedOnce
  <1> HIDE DEF OwedOnce
  <1> QED
    BY <1>1, <1>2
    DEF ServerNext, serverVars, process, AcceptUpload, RefuseUpload, Arrive, BreakOff,
        Received, HandleDelete, RequestStep, RefusedInsert, DropKey, StartDownload,
        ReaderStep, Find, LookUp, Query, Fill, Open, Stream, Expire, Boot, Signal, Stop,
        Kill

\* In every environment each step of a handler leaves it fewer calls: at most six for a
\* request and five for a download, and one more for a delete's copy (service.Upload,
\* DeleteFile and Download, which have no loop; repository.DeleteByID).
THEOREM WorkRunsOutHolds == ServerSpec => WorkRunsOut
  <1>1. ServerInv /\ [ServerNext]_serverVars => Descends /\ ReadsDescend /\ OwedOnce
    BY ServerMoves, MoveDescends, ReadersDescend, DropsOwed DEF ServerInv, BaseInv
  <1>2. ServerInv /\ [ServerNext]_serverVars =>
            [/\ \A r \in Request : pc'[r] # pc[r] => CallsAhead[pc'[r]] < CallsAhead[pc[r]]
             /\ \A d \in Reader : rpc'[d] # rpc[d] => ReadsAhead(rpc'[d]) < ReadsAhead(rpc[d])
             /\ \A r \in owed' \ owed : pc[r] = "DeleteFile" /\ pc'[r] # pc[r]]_serverVars
    BY <1>1 DEF Descends, ReadsDescend, OwedOnce
  <1> QED
    BY <1>2, ServerInvariant, PTL DEF ServerSpec, WorkRunsOut

=============================================================================
