------------------------------ MODULE BlobStores ------------------------------
(***************************************************************************)
(* The blob store of one process: main.go makes it when it starts, by the    *)
(* configured storage.type, and the service sees only storage.Storage.       *)
(*                                                                          *)
(* "mapped" stands for SeaweedFSStorage, which no storage.type selects.      *)
(***************************************************************************)
EXTENDS StoreCalls

VARIABLES kind, linked, written, pos, filer, wire, stage, volume

disk == <<linked, written, pos>>
net == <<filer, wire>>
volumes == <<stage, volume>>
vars == <<kind, stored, op, path, pc, disk, net, volumes>>

Local == INSTANCE LocalStorage
Simple == INSTANCE SeaweedFSSimple
Mapped == INSTANCE SeaweedFSStorage

Init ==
    /\ kind \in {"local", "seaweedfs", "mapped"}
    /\ Local!Init /\ Mapped!MappedInit

Next ==
    /\ UNCHANGED kind
    /\ \/ kind = "local" /\ Local!Next /\ UNCHANGED <<net, volumes>>
       \/ kind = "seaweedfs" /\ Simple!Next /\ UNCHANGED <<disk, volumes>>
       \/ kind = "mapped" /\ Mapped!MappedNext /\ UNCHANGED disk

Spec == Init /\ [][Next]_vars

-----------------------------------------------------------------------------
(* Properties *)

TypeOK ==
    CASE kind = "local" -> Local!TypeOK
      [] kind = "seaweedfs" -> Simple!TypeOK
      [] kind = "mapped" -> Mapped!MappedTypeOK

\* LocalStorage: a download that reaches the end of its file got every piece of the
\* upload, whether a partial Put, a crash or a Delete came before or meanwhile.
ReadsAreWhole == kind = "local" => Local!ReadsAreWhole

\* Over HTTP: no request still under way brings back an entry that a Delete
\* acknowledged or a Get missed.
GoneForGood == kind # "local" => Mapped!GoneForGood

\* SeaweedFSStorage: every mapping leads to bytes on a volume.
MappingNamesVolume == kind = "mapped" => Mapped!MappingNamesVolume

BlobOf(p) == IF kind = "local" THEN Local!BlobOf(p) ELSE Simple!BlobOf(p)

StateOf(c) == IF kind = "local" THEN Local!StateOf(c) ELSE Simple!StateOf(c)

Blob == INSTANCE BlobStore WITH
    blob <- [p \in Path |-> BlobOf(p)],
    state <- [c \in Client |-> StateOf(c)]

\* Whichever store is configured, the service gets what it relies on: nothing
\* partial, a reader that keeps what it opened, no miss without a Delete, and nothing
\* that comes back.  (Of "mapped" this is said of the entry, which holds the mapping:
\* SeaweedFSStorage.Get answers that document, not the bytes it leads to.)
RefinesBlobStore == Blob!Spec
=============================================================================
