---------------------------- MODULE MetadataCache ----------------------------
(***************************************************************************)
(* The Redis cache in front of table files (internal/repository/file.go):   *)
(* GetByID and List read through it, CreateFileReference and DeleteByID      *)
(* change the table and then drop the keys.                                  *)
(*                                                                          *)
(* A request makes its calls one after the other, and those of different    *)
(* requests interleave: a reader may fill a key with what it read before a  *)
(* writer changed the table and dropped the key.  Of Request only those in   *)
(* flight count: a slot whose request has ended is used for the next one, so  *)
(* that there is no end to the requests, nor to the restarts of the process.  *)
(*                                                                          *)
(* Abstractions: a file's row never changes while it exists, so its copy is *)
(* told apart only by its storage path, named by the file id; a list is the  *)
(* set of its files (its order is creation order).                           *)
(***************************************************************************)
EXTENDS FiniteSets, Naturals

CONSTANTS
    Request,    \* slots for requests, as many as may be in flight
    Id,         \* file ids, each drawn once
    NULL,       \* absent key, unset local variable
    EMPTY,      \* the empty storage path
    Overlaps,   \* which kinds of requests may run at the same time
    Rejected,   \* calls that may fail and change nothing
    LostReply,  \* calls that may take effect and still report an error
    Truncated,  \* queries whose rows may stop early
    CrashAt     \* calls before which the process may be killed

CreateCalls == {"Insert", "DropList"}
DeleteCalls == {"DeleteRow", "DropFile", "DropListToo"}
GetCalls == {"LookUpFile", "QueryFile", "FillFile"}
ListCalls == {"LookUpList", "QueryList", "QueryLegacy", "FillList"}
WriteCalls == CreateCalls \cup DeleteCalls
Calls == WriteCalls \cup GetCalls \cup ListCalls
Final == {"ok", "err", "dead"}

ASSUME IdAssumption == NULL \notin Id /\ EMPTY \notin Id /\ EMPTY # NULL
ASSUME OverlapsAssumption == Overlaps \subseteq {"get-delete", "list-write"}
ASSUME FaultAssumption ==
    /\ Rejected \subseteq Calls
    /\ LostReply \subseteq {"Insert"}
    /\ Truncated \subseteq {"QueryList", "QueryLegacy"}
    /\ CrashAt \subseteq Calls

VARIABLES
    rows,       \* the ids in table files
    issued,     \* the ids that were ever there
    file_key,   \* the path in the copy under Redis key file:<id>, NULL when absent
    file_list,  \* the list under Redis key file_list, NULL when absent
    pc,         \* the call each request makes next, or how it ended
    id,         \* the file a request is about
    path,       \* GetByID: the path in the metadata it read
    list        \* List: the files it read

table == <<rows, issued>>
redis == <<file_key, file_list>>
locals == <<id, path, list>>
vars == <<table, redis, pc, locals>>

TypeOK ==
    /\ rows \subseteq issued /\ issued \subseteq Id
    /\ file_key \in [Id -> Id \cup {NULL, EMPTY}]
    /\ file_list \in {NULL} \cup SUBSET Id
    /\ pc \in [Request -> Calls \cup Final \cup {"idle"}]
    /\ id \in [Request -> Id \cup {NULL}]
    /\ path \in [Request -> Id \cup {NULL, EMPTY}]
    /\ list \in [Request -> {NULL} \cup SUBSET Id]

Init ==
    /\ rows = {}
    /\ issued = {}
    /\ file_key = [f \in Id |-> NULL]
    /\ file_list = NULL
    /\ pc = [r \in Request |-> "idle"]
    /\ id = [r \in Request |-> NULL]
    /\ path = [r \in Request |-> NULL]
    /\ list = [r \in Request |-> NULL]

-----------------------------------------------------------------------------
(* Requests. *)

Active(r) == pc[r] \in Calls
Writing(r) == pc[r] \in WriteCalls

Goto(r, l) == pc' = [pc EXCEPT ![r] = l]
Rejects(r) == pc[r] \in Rejected

\* Who may not overlap a request that is about to start.
NoDeleteOf(f) ==
    "get-delete" \in Overlaps \/ \A d \in Request : pc[d] \in DeleteCalls => id[d] # f
NoGetOf(f) ==
    "get-delete" \in Overlaps \/ \A g \in Request : pc[g] \in GetCalls => id[g] # f
NoWriter == "list-write" \in Overlaps \/ \A w \in Request : ~ Writing(w)
NoList == "list-write" \in Overlaps \/ \A l \in Request : pc[l] \notin ListCalls

Start(r, f, call) ==
    /\ ~ Active(r)
    /\ id' = [id EXCEPT ![r] = f]
    /\ path' = [path EXCEPT ![r] = NULL]
    /\ list' = [list EXCEPT ![r] = NULL]
    /\ Goto(r, call)
    /\ UNCHANGED <<table, redis>>

SetRows(S) == rows' = S /\ issued' = issued \cup S

\* What JSON keeps of a file's path: model.File and model.Storage tag it "-".
Marshalled(p) == EMPTY

-----------------------------------------------------------------------------
(* CreateFileReference *)

\* A fresh UUID: no request was ever about the id.
StartCreate(r, f) ==
    /\ NoList
    /\ f \notin issued /\ \A q \in Request : id[q] # f
    /\ Start(r, f, "Insert")

\* The key is dropped only when the statement reported no error.
Insert(r) ==
    /\ pc[r] = "Insert"
    /\ \/ /\ SetRows(rows \cup {id[r]})
          /\ Goto(r, "DropList") \/ (pc[r] \in LostReply /\ Goto(r, "err"))
       \/ Rejects(r) /\ Goto(r, "err") /\ UNCHANGED table
    /\ UNCHANGED <<redis, locals>>

\* Mutant: the list is dropped only when it is there and names the file.
DropListIfListed(r) ==
    /\ pc[r] = "DropList"
    /\ file_list' = IF file_list # NULL /\ id[r] \in file_list THEN NULL ELSE file_list
    /\ Goto(r, "ok")
    /\ UNCHANGED <<table, file_key, locals>>

\* Errors of Del are ignored.
DropList(r) ==
    /\ pc[r] = "DropList"
    /\ file_list' = NULL \/ (Rejects(r) /\ UNCHANGED file_list)
    /\ Goto(r, "ok")
    /\ UNCHANGED <<table, file_key, locals>>

-----------------------------------------------------------------------------
(* DeleteByID *)

StartDelete(r, f) ==
    /\ NoGetOf(f) /\ NoList
    /\ f \in issued
    /\ Start(r, f, "DeleteRow")

\* The keys are dropped whether or not the statement reported an error.
DeleteRow(r) ==
    /\ pc[r] = "DeleteRow"
    /\ SetRows(rows \ {id[r]}) \/ (Rejects(r) /\ UNCHANGED table)
    /\ Goto(r, "DropFile")
    /\ UNCHANGED <<redis, locals>>

\* Mutant: the delete drops the list only.
KeepFile(r) ==
    /\ pc[r] = "DropFile"
    /\ Goto(r, "DropListToo")
    /\ UNCHANGED <<table, redis, locals>>

DropFile(r) ==
    /\ pc[r] = "DropFile"
    /\ \/ file_key' = [file_key EXCEPT ![id[r]] = NULL]
       \/ Rejects(r) /\ UNCHANGED file_key
    /\ Goto(r, "DropListToo")
    /\ UNCHANGED <<table, file_list, locals>>

DropListToo(r) ==
    /\ pc[r] = "DropListToo"
    /\ file_list' = NULL \/ (Rejects(r) /\ UNCHANGED file_list)
    /\ Goto(r, "ok")
    /\ UNCHANGED <<table, file_key, locals>>

-----------------------------------------------------------------------------
(* GetByID *)

StartGet(r, f) == NoDeleteOf(f) /\ Start(r, f, "LookUpFile")

\* Mutant: the copy of a file is read under the key of the list.
LookUpUnderListKey(r) ==
    /\ pc[r] = "LookUpFile"
    /\ \/ /\ file_list # NULL
          /\ path' = [path EXCEPT ![r] = file_list]
          /\ Goto(r, "ok")
       \/ /\ file_list = NULL \/ Rejects(r)
          /\ Goto(r, "QueryFile")
          /\ UNCHANGED path
    /\ UNCHANGED <<table, redis, id, list>>

\* Mutant: a copy that was read is set again, for another hour.
LookUpAndRenew(r) ==
    /\ pc[r] = "LookUpFile"
    /\ \/ /\ file_key[id[r]] # NULL
          /\ path' = [path EXCEPT ![r] = file_key[id[r]]]
          /\ Goto(r, "FillFile")
       \/ /\ file_key[id[r]] = NULL \/ Rejects(r)
          /\ Goto(r, "QueryFile")
          /\ UNCHANGED path
    /\ UNCHANGED <<table, redis, id, list>>

LookUpFile(r) ==
    /\ pc[r] = "LookUpFile"
    /\ \/ /\ file_key[id[r]] # NULL
          /\ path' = [path EXCEPT ![r] = file_key[id[r]]]
          /\ Goto(r, "ok")
       \/ /\ file_key[id[r]] = NULL \/ Rejects(r)
          /\ Goto(r, "QueryFile")
          /\ UNCHANGED path
    /\ UNCHANGED <<table, redis, id, list>>

\* Mutant: a file that has no row is cached as well.
QueryAnyway(r) ==
    /\ pc[r] = "QueryFile"
    /\ path' = [path EXCEPT ![r] = IF id[r] \in rows THEN id[r] ELSE EMPTY]
    /\ Goto(r, "FillFile")
    /\ UNCHANGED <<table, redis, id, list>>

\* Without a row, or after an error, the legacy query runs; it finds no row
\* either, or NULL in its columns, which is an error.
QueryFile(r) ==
    /\ pc[r] = "QueryFile"
    /\ \/ /\ id[r] \in rows
          /\ path' = [path EXCEPT ![r] = id[r]]
          /\ Goto(r, "FillFile")
       \/ /\ id[r] \notin rows \/ Rejects(r)
          /\ Goto(r, "err")
          /\ UNCHANGED path
    /\ UNCHANGED <<table, redis, id, list>>

FillFile(r) ==
    /\ pc[r] = "FillFile"
    /\ \/ file_key' = [file_key EXCEPT ![id[r]] = Marshalled(path[r])]
       \/ Rejects(r) /\ UNCHANGED file_key
    /\ Goto(r, "ok")
    /\ UNCHANGED <<table, file_list, locals>>

-----------------------------------------------------------------------------
(* List *)

StartList(r) == NoWriter /\ Start(r, NULL, "LookUpList")

LookUpList(r) ==
    /\ pc[r] = "LookUpList"
    /\ \/ /\ file_list # NULL
          /\ list' = [list EXCEPT ![r] = file_list]
          /\ Goto(r, "ok")
       \/ /\ file_list = NULL \/ Rejects(r)
          /\ Goto(r, "QueryList")
          /\ UNCHANGED list
    /\ UNCHANGED <<table, redis, id, path>>

\* rows.Err() is not looked at: rows that stop early are a shorter list.  A row
\* that does not scan is an error, a query that does not start runs the legacy one.
QueryList(r) ==
    /\ pc[r] = "QueryList"
    /\ \/ /\ \E S \in {rows} \cup (IF pc[r] \in Truncated THEN SUBSET rows ELSE {}) :
                 list' = [list EXCEPT ![r] = S]
          /\ Goto(r, "FillList")
       \/ /\ Rejects(r)
          /\ Goto(r, "QueryLegacy") \/ Goto(r, "err")
          /\ UNCHANGED list
    /\ UNCHANGED <<table, redis, id, path>>

\* The legacy columns of a row are NULL, so only an empty answer is none of an
\* error.
QueryLegacy(r) ==
    /\ pc[r] = "QueryLegacy"
    /\ \/ /\ rows = {} \/ pc[r] \in Truncated
          /\ list' = [list EXCEPT ![r] = {}]
          /\ Goto(r, "FillList")
       \/ /\ rows # {} \/ Rejects(r)
          /\ Goto(r, "err")
          /\ UNCHANGED list
    /\ UNCHANGED <<table, redis, id, path>>

FillList(r) ==
    /\ pc[r] = "FillList"
    /\ file_list' = list[r] \/ (Rejects(r) /\ UNCHANGED file_list)
    /\ Goto(r, "ok")
    /\ UNCHANGED <<table, file_key, locals>>

-----------------------------------------------------------------------------
(* Redis and the process. *)

\* A key lives one hour (file) or ten minutes (list).
ExpireFile(f) ==
    /\ file_key[f] # NULL
    /\ file_key' = [file_key EXCEPT ![f] = NULL]
    /\ UNCHANGED <<table, file_list, pc, locals>>

ExpireList ==
    /\ file_list # NULL
    /\ file_list' = NULL
    /\ UNCHANGED <<table, file_key, pc, locals>>

\* Redis outlives the process.
Crash ==
    /\ \E r \in Request : Active(r)
    /\ \A r \in Request : Active(r) => pc[r] \in CrashAt
    /\ pc' = [r \in Request |-> IF Active(r) THEN "dead" ELSE pc[r]]
    /\ UNCHANGED <<table, redis, locals>>

Write(r) ==
    \/ Insert(r) \/ DropList(r)
    \/ DeleteRow(r) \/ DropFile(r) \/ DropListToo(r)

Read(r) ==
    \/ LookUpFile(r) \/ QueryFile(r) \/ FillFile(r)
    \/ LookUpList(r) \/ QueryList(r) \/ QueryLegacy(r) \/ FillList(r)

Next ==
    \/ \E r \in Request, f \in Id : StartCreate(r, f) \/ StartDelete(r, f) \/ StartGet(r, f)
    \/ \E r \in Request : StartList(r)
    \/ \E r \in Request : Write(r) \/ Read(r)
    \/ \E f \in Id : ExpireFile(f)
    \/ ExpireList
    \/ Crash

Spec == Init /\ [][Next]_vars

SetFile(f) ==
    \E r \in Request : id[r] = f /\ FillFile(r) /\ file_key'[f] = Marshalled(path[r])

SetList == \E r \in Request : FillList(r) /\ file_list' = list[r]

\* Every call returns.  Setting a key starts its time again, so Redis expires a key
\* only if nobody goes on setting it.
Fairness ==
    /\ \A r \in Request : WF_vars(Write(r) \/ Read(r))
    /\ \A f \in Id : WF_vars(ExpireFile(f) \/ SetFile(f))
    /\ WF_vars(ExpireList \/ SetList)

FairSpec == Spec /\ Fairness

-----------------------------------------------------------------------------
(* Properties *)

Coherent ==
    /\ \A f \in Id : file_key[f] # NULL => f \in rows
    /\ file_list \in {NULL, rows}

\* "Automatic invalidation of the cache" (docs/FEATURES.md:41): with no request
\* in flight, Redis says nothing the table does not.
CoherentWhenQuiet == (\A r \in Request : ~ Active(r)) => Coherent

\* GetByID and List answer what the table holds when they answer, and GetByID no
\* other file's path, though the path it answers may have been lost in the copy.
FreshAnswers ==
    [][\A r \in Request : pc[r] # "ok" /\ pc'[r] = "ok" =>
           /\ pc[r] \in GetCalls => id[r] \in rows /\ path'[r] \in {id[r], EMPTY}
           /\ pc[r] \in ListCalls => list'[r] = rows]_vars

Shown(f) == file_key[f] # NULL \/ (file_list # NULL /\ f \in file_list)

\* What a reader has read and is about to set in Redis shows the file.
ToBeShown(f) ==
    \E r \in Request :
        \/ pc[r] = "FillFile" /\ id[r] = f
        \/ pc[r] = "FillList" /\ f \in list[r]

Gone(f) == f \in issued \ rows /\ ~ Shown(f) /\ ~ ToBeShown(f)

\* Whatever overlaps, fails or is killed, only a reader that queried the table before
\* the delete can show a deleted file again: once Redis is rid of it and no such reader is
\* left, it is gone for good (repository/file.go:161-189, :245-283).
GoneStaysGone == [][\A f \in Id : Gone(f) => Gone(f)']_vars

\* Redis shows no file that was deleted, though a list may lack one that is there.
ShowsNoneDeleted == \A f \in Id \ rows : ~ Shown(f)

\* A query whose rows stopped early is taken for the whole list.
CutShort == \E r \in Request : pc[r] \in Truncated /\ pc'[r] = "FillList" /\ list'[r] # rows

\* Whatever goes wrong, and although readers never cease, the TTLs leave nothing false in
\* Redis for ever: a deleted file goes from it for good, since no reader sets again what
\* it read from Redis, and so does a list that lacks a file unless queries are cut short
\* again and again (repository/file.go:187-190, :278-281).
EventuallyCoherent ==
    /\ <>[]ShowsNoneDeleted
    /\ <>[]Coherent \/ []<><<CutShort>>_vars
=============================================================================
