--------------------------- MODULE SeaweedFSSimple ---------------------------
(***************************************************************************)
(* The blob store behind a SeaweedFS filer (pkg/storage/seaweedfs_simple.go):*)
(* one HTTP request per call.                                               *)
(*                                                                          *)
(* The client gives up after 30 seconds, and the time covers the body of a   *)
(* Get; the filer may take up a request whose client is gone.  net/http      *)
(* repeats neither a POST nor a DELETE, and of a repeated GET only the last  *)
(* counts.  The filer itself is external: a POST makes the entry once all    *)
(* its bytes are there, and the body of a GET has a length, so it is never    *)
(* cut silently.                                                             *)
(***************************************************************************)
EXTENDS StoreCalls

VARIABLES
    filer,      \* paths with an entry
    wire        \* each client's request, or the status of the reply

vars == <<filer, stored, op, path, pc, wire>>

Final == {"ok", "whole", "missing", "err"}
Calling == {"send", "wait", "body"}
Reply == {"2xx", "404", "5xx"}

TypeOK ==
    /\ filer \subseteq Path /\ stored \subseteq Path
    /\ op \in [Client -> Method \cup {"none"}]
    /\ path \in [Client -> Path \cup {NULL}]
    /\ pc \in [Client -> Calling \cup Final \cup {"idle"}]
    /\ wire \in [Client -> Reply \cup {"none", "request"}]

Init ==
    /\ NoCalls
    /\ filer = {}
    /\ wire = [c \in Client |-> "none"]

Answer(c, s) == wire' = [wire EXCEPT ![c] = s]

-----------------------------------------------------------------------------
(* The client. *)

Start(c, m, p) == Call(c, m, p, "send") /\ UNCHANGED <<filer, wire>>

\* A Put that cannot read its input, or finds no filer, sends nothing.
Send(c) ==
    /\ pc[c] = "send"
    /\ \/ Goto(c, "wait") /\ Answer(c, "request")
       \/ Goto(c, "err") /\ UNCHANGED wire
    /\ UNCHANGED <<filer, stored, op, path>>

\* Mutant: the status of the reply is not looked at.
PutAnswered(c) ==
    /\ pc[c] = "wait" /\ op[c] = "Put" /\ wire[c] \in Reply
    /\ stored' = stored \cup {path[c]} /\ Goto(c, "ok")
    /\ UNCHANGED <<filer, op, path, wire>>

PutReply(c) ==
    /\ pc[c] = "wait" /\ op[c] = "Put"
    /\ \/ wire[c] = "2xx" /\ stored' = stored \cup {path[c]} /\ Goto(c, "ok")
       \/ wire[c] \in {"404", "5xx"} /\ Goto(c, "err") /\ UNCHANGED stored
    /\ UNCHANGED <<filer, op, path, wire>>

GetReply(c) ==
    /\ pc[c] = "wait" /\ op[c] = "Get"
    /\ \/ wire[c] = "2xx" /\ Goto(c, "body")
       \/ wire[c] = "404" /\ Goto(c, "missing")
       \/ wire[c] = "5xx" /\ Goto(c, "err")
    /\ UNCHANGED <<filer, stored, op, path, wire>>

\* A file that is not there counts as deleted.
DeleteReply(c) ==
    /\ pc[c] = "wait" /\ op[c] = "Delete"
    /\ \/ wire[c] \in {"2xx", "404"} /\ Goto(c, "ok")
       \/ wire[c] = "5xx" /\ Goto(c, "err")
    /\ UNCHANGED <<filer, stored, op, path, wire>>

Body(c) ==
    /\ pc[c] = "body"
    /\ Goto(c, "whole")
    /\ UNCHANGED <<filer, stored, op, path, wire>>

\* Mutant: a POST that got no answer is taken for one that went well.
GiveUpUnchecked(c) ==
    /\ pc[c] \in {"wait", "body"}
    /\ IF op[c] = "Put" THEN stored' = stored \cup {path[c]} /\ Goto(c, "ok")
                        ELSE Goto(c, "err") /\ UNCHANGED stored
    /\ UNCHANGED <<filer, op, path, wire>>

\* 30 seconds are over, the connection breaks or the caller's context is cancelled.
GiveUp(c) ==
    /\ pc[c] \in {"wait", "body"}
    /\ Goto(c, "err")
    /\ UNCHANGED <<filer, stored, op, path, wire>>

\* The process is killed; what it sent may still arrive.
Crash ==
    /\ \E c \in Client : pc[c] \in Calling
    /\ pc' = [c \in Client |-> IF pc[c] \in Calling THEN "err" ELSE pc[c]]
    /\ UNCHANGED <<filer, stored, op, path, wire>>

-----------------------------------------------------------------------------
(* The filer, which knows nothing of its clients. *)

ServePut(c) ==
    /\ wire[c] = "request" /\ op[c] = "Put"
    /\ \/ filer' = filer \cup {path[c]} /\ Answer(c, "2xx")
       \/ Answer(c, "5xx") /\ UNCHANGED filer
    /\ UNCHANGED <<stored, op, path, pc>>

ServeGet(c) ==
    /\ wire[c] = "request" /\ op[c] = "Get"
    /\ \E s \in {IF path[c] \in filer THEN "2xx" ELSE "404", "5xx"} : Answer(c, s)
    /\ UNCHANGED <<filer, stored, op, path, pc>>

ServeDelete(c) ==
    /\ wire[c] = "request" /\ op[c] = "Delete"
    /\ \/ /\ filer' = filer \ {path[c]}
          /\ Answer(c, IF path[c] \in filer THEN "2xx" ELSE "404")
       \/ Answer(c, "5xx") /\ UNCHANGED filer
    /\ UNCHANGED <<stored, op, path, pc>>

-----------------------------------------------------------------------------

ClientStep(c) ==
    \/ Send(c) \/ PutReply(c) \/ GetReply(c) \/ DeleteReply(c) \/ Body(c)
    \/ GiveUp(c)

Serve(c) == ServePut(c) \/ ServeGet(c) \/ ServeDelete(c)

Finished ==
    /\ \A c \in Client : pc[c] \notin Calling /\ wire[c] # "request"
    /\ UNCHANGED vars

Next ==
    \/ \E c \in Client, m \in Method, p \in Path : Start(c, m, p)
    \/ \E c \in Client : ClientStep(c) \/ Serve(c)
    \/ Crash
    \/ Finished

Spec == Init /\ [][Next]_vars

-----------------------------------------------------------------------------
(* Properties *)

\* A blob that a Delete acknowledged, or that was missed once, never comes back:
\* no request that is still under way can make its entry again.
GoneForGood ==
    \A c \in Client :
        (op[c] = "Delete" /\ pc[c] = "ok") \/ pc[c] = "missing" => path[c] \notin filer

BlobOf(p) ==
    CASE p \notin stored -> "absent"
      [] p \in stored /\ p \in filer -> "stored"
      [] p \in stored /\ p \notin filer -> "removed"

\* A Get has its blob from the moment the filer answers it.
Opened(c) == pc[c] = "wait" /\ op[c] = "Get" /\ wire[c] = "2xx"

StateOf(c) ==
    CASE Opened(c) \/ pc[c] = "body" -> "reading"
      [] pc[c] \in {"send", "wait"} /\ ~ Opened(c) -> "called"
      [] pc[c] \in Final \cup {"idle"} -> pc[c]

Blob == INSTANCE BlobStore WITH
    blob <- [p \in Path |-> BlobOf(p)],
    state <- [c \in Client |-> StateOf(c)]

\* The filer's client is a blob store although its calls are cut off by timeouts
\* and take effect after their callers have given up.
RefinesBlobStore == Blob!Spec
=============================================================================
