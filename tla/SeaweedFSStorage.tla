--------------------------- MODULE SeaweedFSStorage ---------------------------
(***************************************************************************)
(* The store on SeaweedFS volumes (pkg/storage/seaweedfs.go), which main.go  *)
(* does not construct.  Put makes three requests, one after the other:       *)
(*   assign     the master draws a file id,                                  *)
(*   bytes      the volume server stores the bytes under that id,            *)
(*   mapping    the filer stores a document with the id under the path.      *)
(* Get and Delete are those of SeaweedFSSimple: they reach the entry of the   *)
(* filer, which here is the mapping and not the bytes, and Delete leaves the   *)
(* bytes where they are.                                                     *)
(*                                                                          *)
(* A path without a slash needs no directory.  The id of a Put is named by    *)
(* its path.  The servers are external.                                      *)
(***************************************************************************)
EXTENDS SeaweedFSSimple

VARIABLES
    stage,      \* the request a Put is at: its latest, answered or not
    volume      \* the file ids under which a volume server has the bytes

volumeVars == <<stage, volume>>
mappedVars == <<vars, volumeVars>>

Stages == {"assign", "bytes", "mapping"}

MappedTypeOK ==
    /\ TypeOK
    /\ stage \in [Client -> Stages]
    /\ volume \subseteq Path

MappedInit ==
    /\ Init
    /\ stage = [c \in Client |-> "assign"]
    /\ volume = {}

Asks(c, s) == op[c] = "Put" /\ stage[c] = s

\* Mutant: the mapping is stored although the upload of the bytes was refused.
AdvanceUnchecked(c) ==
    /\ pc[c] = "wait" /\ op[c] = "Put" /\ stage[c] # "mapping"
    /\ wire[c] = "2xx" \/ (stage[c] = "bytes" /\ wire[c] = "5xx")
    /\ stage' = [stage EXCEPT ![c] = IF @ = "assign" THEN "bytes" ELSE "mapping"]
    /\ Goto(c, "send") /\ Answer(c, "none")
    /\ UNCHANGED <<filer, stored, op, path, volume>>

\* The next request is made only after the last one went well.
Advance(c) ==
    /\ pc[c] = "wait" /\ op[c] = "Put" /\ stage[c] # "mapping"
    /\ wire[c] = "2xx"
    /\ stage' = [stage EXCEPT ![c] = IF @ = "assign" THEN "bytes" ELSE "mapping"]
    /\ Goto(c, "send") /\ Answer(c, "none")
    /\ UNCHANGED <<filer, stored, op, path, volume>>

\* Put ends with the answer to the mapping, or with the first that is no success.
MappingReply(c) ==
    /\ PutReply(c)
    /\ wire[c] = "2xx" => stage[c] = "mapping"
    /\ UNCHANGED volumeVars

\* What SeaweedFSSimple does alike.
SameCall(c) ==
    /\ Send(c) \/ GetReply(c) \/ DeleteReply(c) \/ GiveUp(c)
    /\ UNCHANGED volumeVars

\* What a Get reads, whole, is the mapping: the bytes it leads to are never asked for.
ReadMapping(c) == Body(c) /\ UNCHANGED volumeVars

-----------------------------------------------------------------------------
(* The servers; an "error" in the master's answer is a 5xx. *)

ServeAssign(c) ==
    /\ wire[c] = "request" /\ Asks(c, "assign")
    /\ \E s \in {"2xx", "5xx"} : Answer(c, s)
    /\ UNCHANGED <<filer, stored, op, path, pc, volumeVars>>

ServeBytes(c) ==
    /\ wire[c] = "request" /\ Asks(c, "bytes")
    /\ \/ volume' = volume \cup {path[c]} /\ Answer(c, "2xx")
       \/ Answer(c, "5xx") /\ UNCHANGED volume
    /\ UNCHANGED <<filer, stored, op, path, pc, stage>>

ServeMapping(c) == Asks(c, "mapping") /\ ServePut(c) /\ UNCHANGED volumeVars

ServeSame(c) == (ServeGet(c) \/ ServeDelete(c)) /\ UNCHANGED volumeVars

-----------------------------------------------------------------------------

MappedNext ==
    \/ \E c \in Client, m \in Method, p \in Path : Start(c, m, p) /\ UNCHANGED volumeVars
    \/ \E c \in Client :
           \/ Advance(c) \/ MappingReply(c) \/ SameCall(c) \/ ReadMapping(c)
           \/ ServeAssign(c) \/ ServeBytes(c) \/ ServeMapping(c) \/ ServeSame(c)
    \/ (Crash \/ Finished) /\ UNCHANGED volumeVars

MappedSpec == MappedInit /\ [][MappedNext]_mappedVars

\* A mapping on the filer, and so every path a row may come to name, leads to bytes
\* on a volume, although the requests that made the two were timed out, took effect
\* late or were refused one by one.
MappingNamesVolume == filer \cup stored \subseteq volume
=============================================================================
