------------------------------ MODULE StoreCalls ------------------------------
(***************************************************************************)
(* What the implementations of storage.Storage share: their callers.        *)
(*                                                                          *)
(* Upload puts under a fresh UUID, and a row of table storage names only a   *)
(* path whose Put answered without an error, so nothing else is asked for    *)
(* or deleted.  Each client is a goroutine that makes one call.              *)
(***************************************************************************)
EXTENDS Naturals

CONSTANTS
    Client,
    Path,
    NULL,       \* no path yet
    Pieces      \* how many pieces io.Copy moves for the bytes of a blob

ASSUME PathAssumption == NULL \notin Path
ASSUME PiecesAssumption == Pieces \in Nat \ {0}

VARIABLES
    stored,     \* paths whose Put answered without an error
    op, path,   \* what each client called
    pc          \* where its call is, or how it ended

Method == {"Put", "Get", "Delete"}

Goto(c, l) == pc' = [pc EXCEPT ![c] = l]

NoCalls ==
    /\ stored = {}
    /\ op = [c \in Client |-> "none"]
    /\ path = [c \in Client |-> NULL]
    /\ pc = [c \in Client |-> "idle"]

\* c calls method m, whose first step is l.
Call(c, m, p, l) ==
    /\ pc[c] = "idle"
    /\ IF m = "Put"
       THEN \A d \in Client : ~ (op[d] = "Put" /\ path[d] = p)
       ELSE p \in stored
    /\ op' = [op EXCEPT ![c] = m]
    /\ path' = [path EXCEPT ![c] = p]
    /\ Goto(c, l)
    /\ UNCHANGED stored
=============================================================================
