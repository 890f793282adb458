---------------------------- MODULE LocalStorage ----------------------------
(***************************************************************************)
(* The blob store on a directory of the host (pkg/storage/local.go).        *)
(*                                                                          *)
(* Put creates the entry and then copies piece by piece, so a partial file   *)
(* is there under the path; Get opens the file and its caller reads piece    *)
(* by piece (internal/handler/file.go:135) while a Delete may unlink it.     *)
(*                                                                          *)
(* A UUID passes sanitizePath unchanged, and an open descriptor keeps its    *)
(* file: since a path is created once, the file is named by its path.        *)
(***************************************************************************)
EXTENDS StoreCalls

VARIABLES
    linked,     \* paths with a directory entry
    written,    \* pieces in the file of each path
    pos         \* pieces a reader has got

disk == <<linked, written>>
vars == <<disk, stored, op, path, pc, pos>>

First(m) == CASE m = "Put" -> "create" [] m = "Get" -> "open" [] m = "Delete" -> "unlink"
Calling == {"create", "copy", "open", "read", "unlink"}
Final == {"ok", "eof", "missing", "err"}

TypeOK ==
    /\ linked \subseteq Path /\ stored \subseteq Path
    /\ written \in [Path -> 0..Pieces]
    /\ op \in [Client -> Method \cup {"none"}]
    /\ path \in [Client -> Path \cup {NULL}]
    /\ pc \in [Client -> Calling \cup Final \cup {"idle"}]
    /\ pos \in [Client -> 0..Pieces]

Init ==
    /\ NoCalls
    /\ linked = {}
    /\ written = [p \in Path |-> 0]
    /\ pos = [c \in Client |-> 0]

Start(c, m, p) == Call(c, m, p, First(m)) /\ UNCHANGED <<disk, pos>>

\* A call that fails changes nothing and is reported.
Fails(c) == Goto(c, "err") /\ UNCHANGED <<disk, stored, pos>>

-----------------------------------------------------------------------------
(* Put *)

Create(c) ==
    /\ pc[c] = "create"
    /\ \/ /\ linked' = linked \cup {path[c]}
          /\ written' = [written EXCEPT ![path[c]] = 0]
          /\ Goto(c, "copy")
          /\ UNCHANGED <<stored, pos>>
       \/ Fails(c)
    /\ UNCHANGED <<op, path>>

\* Mutant: one piece too many.
CopyPastEnd(c) ==
    /\ pc[c] = "copy"
    /\ \/ /\ written[path[c]] <= Pieces
          /\ written' = [written EXCEPT ![path[c]] = @ + 1]
          /\ UNCHANGED <<linked, stored, pc, pos>>
       \/ /\ written[path[c]] > Pieces
          /\ stored' = stored \cup {path[c]}
          /\ Goto(c, "ok")
          /\ UNCHANGED <<disk, pos>>
    /\ UNCHANGED <<op, path>>

\* What io.Copy returns is what Put returns; a partial file stays.
Copy(c) ==
    /\ pc[c] = "copy"
    /\ \/ /\ written[path[c]] < Pieces
          /\ written' = [written EXCEPT ![path[c]] = @ + 1]
          /\ UNCHANGED <<linked, stored, pc, pos>>
       \/ /\ written[path[c]] = Pieces
          /\ stored' = stored \cup {path[c]}
          /\ Goto(c, "ok")
          /\ UNCHANGED <<disk, pos>>
       \/ Fails(c)
    /\ UNCHANGED <<op, path>>

-----------------------------------------------------------------------------
(* Get and its reader *)

Open(c) ==
    /\ pc[c] = "open"
    /\ \/ path[c] \in linked /\ Goto(c, "read") /\ UNCHANGED <<disk, stored, pos>>
       \/ path[c] \notin linked /\ Goto(c, "missing") /\ UNCHANGED <<disk, stored, pos>>
       \/ Fails(c)
    /\ UNCHANGED <<op, path>>

\* The end of the file is the end of what was written to it.
Read(c) ==
    /\ pc[c] = "read"
    /\ \/ /\ pos[c] < written[path[c]]
          /\ pos' = [pos EXCEPT ![c] = @ + 1]
          /\ UNCHANGED <<disk, stored, pc>>
       \/ pos[c] = written[path[c]] /\ Goto(c, "eof") /\ UNCHANGED <<disk, stored, pos>>
       \/ Fails(c)
    /\ UNCHANGED <<op, path>>

-----------------------------------------------------------------------------
(* Delete *)

\* Mutant: the file is emptied before it is unlinked, as a secure erase would.
Erase(c) ==
    /\ pc[c] = "unlink"
    /\ path[c] \in linked
    /\ linked' = linked \ {path[c]}
    /\ written' = [written EXCEPT ![path[c]] = 0]
    /\ Goto(c, "ok")
    /\ UNCHANGED <<stored, pos, op, path>>

\* A missing file is an error here.
Unlink(c) ==
    /\ pc[c] = "unlink"
    /\ \/ /\ path[c] \in linked
          /\ linked' = linked \ {path[c]}
          /\ Goto(c, "ok")
          /\ UNCHANGED <<written, stored, pos>>
       \/ Fails(c)
    /\ UNCHANGED <<op, path>>

-----------------------------------------------------------------------------

\* The process is killed; the directory stays as it is.
Crash ==
    /\ \E c \in Client : pc[c] \in Calling
    /\ pc' = [c \in Client |-> IF pc[c] \in Calling THEN "err" ELSE pc[c]]
    /\ UNCHANGED <<disk, stored, op, path, pos>>

Step(c) == Create(c) \/ Copy(c) \/ Open(c) \/ Read(c) \/ Unlink(c)

Finished == (\A c \in Client : pc[c] \notin Calling) /\ UNCHANGED vars

Next ==
    \/ \E c \in Client, m \in Method, p \in Path : Start(c, m, p)
    \/ \E c \in Client : Step(c)
    \/ Crash
    \/ Finished

Spec == Init /\ [][Next]_vars

-----------------------------------------------------------------------------
(* Properties *)

\* A download that reaches the end of its file without an error got every piece of
\* the upload, whether a partial Put, a crash or a Delete came before or meanwhile.
ReadsAreWhole == \A c \in Client : pc[c] = "eof" => pos[c] = Pieces

BlobOf(p) ==
    CASE p \notin stored -> "absent"
      [] p \in stored /\ p \in linked -> "stored"
      [] p \in stored /\ p \notin linked -> "removed"

StateOf(c) ==
    CASE pc[c] \in {"create", "copy", "open", "unlink"} -> "called"
      [] pc[c] = "read" -> "reading"
      [] pc[c] = "eof" /\ pos[c] = Pieces -> "whole"
      [] pc[c] = "eof" /\ pos[c] # Pieces -> "short"
      [] pc[c] \in {"idle", "ok", "missing", "err"} -> pc[c]

Blob == INSTANCE BlobStore WITH
    blob <- [p \in Path |-> BlobOf(p)],
    state <- [c \in Client |-> StateOf(c)]

\* The directory is a blob store: nothing partial is ever relied on, a reader keeps
\* what it opened, and only a Delete makes a Get miss.
RefinesBlobStore == Blob!Spec
=============================================================================
