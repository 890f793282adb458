------------------------------ MODULE BlobStore ------------------------------
(***************************************************************************)
(* What StorageService needs of a storage.Storage (pkg/storage/interface.go *)
(* and the calls of internal/service/storage.go), whichever implementation  *)
(* is behind it.                                                            *)
(*                                                                          *)
(* A path is put once: Upload draws a UUID.  It is asked for only after its *)
(* Put answered without an error: that is when a row of table storage may   *)
(* come to name it.                                                         *)
(***************************************************************************)
CONSTANTS
    Client,     \* goroutines that call the store, each once
    Path,
    NULL        \* no path yet

VARIABLES
    blob,       \* what callers may rely on: "absent", "stored" or "removed"
    op,         \* the method each client called
    path,       \* and its path
    state       \* how far the call is, or how it ended

vars == <<blob, op, path, state>>

Method == {"Put", "Get", "Delete"}
Final == {"ok", "whole", "missing", "err"}

Init ==
    /\ blob = [p \in Path |-> "absent"]
    /\ op = [c \in Client |-> "none"]
    /\ path = [c \in Client |-> NULL]
    /\ state = [c \in Client |-> "idle"]

Calls(c, m) == op[c] = m /\ state[c] = "called"
To(c, s) == state' = [state EXCEPT ![c] = s]
Make(c, b) == blob' = [blob EXCEPT ![path[c]] = b]

Start(c, m, p) ==
    /\ state[c] = "idle"
    /\ IF m = "Put"
       THEN \A d \in Client : ~ (op[d] = "Put" /\ path[d] = p)
       ELSE blob[p] # "absent"
    /\ op' = [op EXCEPT ![c] = m]
    /\ path' = [path EXCEPT ![c] = p]
    /\ To(c, "called")
    /\ UNCHANGED blob

Put(c) ==
    /\ Calls(c, "Put")
    /\ Make(c, "stored") /\ To(c, "ok")
    /\ UNCHANGED <<op, path>>

\* A reader that found the blob keeps it, whoever removes it meanwhile.
Open(c) ==
    /\ Calls(c, "Get") /\ blob[path[c]] = "stored"
    /\ To(c, "reading")
    /\ UNCHANGED <<blob, op, path>>

Read(c) == state[c] = "reading" /\ To(c, "whole") /\ UNCHANGED <<blob, op, path>>

\* A blob is missed only when somebody removed it.
Miss(c) ==
    /\ Calls(c, "Get") /\ blob[path[c]] = "removed"
    /\ To(c, "missing")
    /\ UNCHANGED <<blob, op, path>>

Delete(c) ==
    /\ Calls(c, "Delete")
    /\ Make(c, "removed") /\ To(c, "ok")
    /\ UNCHANGED <<op, path>>

\* A Delete may take effect before its answer, or after it gave up.
Remove(c) ==
    /\ op[c] = "Delete" /\ state[c] \in {"called", "err"}
    /\ Make(c, "removed")
    /\ UNCHANGED <<op, path, state>>

\* One call fails, or all those of a killed process.
Fail(S) ==
    /\ \A c \in S : state[c] \in {"called", "reading"}
    /\ state' = [c \in Client |-> IF c \in S THEN "err" ELSE state[c]]
    /\ UNCHANGED <<blob, op, path>>

Next ==
    \/ \E c \in Client, m \in Method, p \in Path : Start(c, m, p)
    \/ \E c \in Client :
           Put(c) \/ Open(c) \/ Read(c) \/ Miss(c) \/ Delete(c) \/ Remove(c)
    \/ \E S \in SUBSET Client : Fail(S)

Spec == Init /\ [][Next]_vars
=============================================================================
