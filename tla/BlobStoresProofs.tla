--------------------------- MODULE BlobStoresProofs ---------------------------
(***************************************************************************)
(* What TLAPS proves about the blob store of a process, whichever it is:     *)
(* the theorems about each store hold of it, and so does the refinement.     *)
(*                                                                          *)
(* BlobStores takes each store from its module and the theorems from the      *)
(* module of its proofs, so the two instances are first shown to be one.     *)
(***************************************************************************)
EXTENDS BlobStores, TLAPS

Dir == INSTANCE LocalStorageProofs
One == INSTANCE SeaweedFSSimpleProofs
Three == INSTANCE SeaweedFSStorageProofs

\* Each store keeps its own invariant; the volumes and mapping that of the filer's client.
StoresInv ==
    /\ kind \in {"local", "seaweedfs", "mapped"}
    /\ kind = "local" => Dir!StoreInv
    /\ kind = "seaweedfs" => One!FilerInv
    /\ kind = "mapped" => Three!MappedInv /\ Three!Entry!FilerInv

-----------------------------------------------------------------------------
(* The invariant *)

LEMMA InitStores == Init => StoresInv
<1> SUFFICES ASSUME Init PROVE StoresInv
  OBVIOUS
<1> USE PathAssumption, PiecesAssumption
<1>1. Dir!StoreInv
  <2>1. Dir!Init
    BY DEF Init, Local!Init, Local!NoCalls, Dir!Init, Dir!NoCalls
  <2> QED
    BY <2>1, Dir!InitStore
<1>2. Three!MappedInit
  BY DEF Init, Mapped!MappedInit, Mapped!Init, Mapped!NoCalls, Three!MappedInit,
         Three!Init, Three!NoCalls
<1>3. One!FilerInv
  <2>1. One!Init
    BY DEF Init, Mapped!MappedInit, Mapped!Init, Mapped!NoCalls, One!Init, One!NoCalls
  <2> QED
    BY <2>1, One!InitFiler
<1>4. Three!MappedInv /\ Three!Entry!FilerInv
  <2>1. Three!Entry!Init
    BY <1>2, Three!InitEntry
  <2> QED
    BY <1>2, <2>1, Three!InitMapped, Three!Entry!InitFiler
<1> QED
  BY <1>1, <1>3, <1>4 DEF StoresInv, Init

LEMMA LocalStep == Local!Next => Dir!Next
BY DEF Local!Next, Local!Start, Local!Step, Local!Crash, Local!Finished, Local!Create,
       Local!Copy, Local!Open, Local!Read, Local!Unlink, Local!Method, Local!Calling,
       Local!Fails, Local!Goto, Local!Call, Local!First, Local!disk, Local!vars,
       Dir!Next, Dir!Start, Dir!Step, Dir!Crash, Dir!Finished, Dir!Create, Dir!Copy,
       Dir!Open, Dir!Read, Dir!Unlink, Dir!Method, Dir!Calling, Dir!Fails, Dir!Goto,
       Dir!Call, Dir!First, Dir!disk, Dir!vars

LEMMA SimpleStep == Simple!Next => One!Next
BY DEF Simple!Next, Simple!Start, Simple!ClientStep, Simple!Serve, Simple!Crash,
       Simple!Finished, Simple!Send, Simple!PutReply, Simple!GetReply,
       Simple!DeleteReply, Simple!Body, Simple!GiveUp, Simple!ServePut,
       Simple!ServeGet, Simple!ServeDelete, Simple!Method, Simple!Calling,
       Simple!Reply, Simple!Goto, Simple!Answer, Simple!Call, Simple!vars, One!Next,
       One!Start, One!ClientStep, One!Serve, One!Crash, One!Finished, One!Send,
       One!PutReply, One!GetReply, One!DeleteReply, One!Body, One!GiveUp,
       One!ServePut, One!ServeGet, One!ServeDelete, One!Method, One!Calling,
       One!Reply, One!Goto, One!Answer, One!Call, One!vars

LEMMA MappedStep == Mapped!MappedNext => Three!MappedNext
BY DEF Mapped!MappedNext, Mapped!Start, Mapped!Advance, Mapped!MappingReply,
       Mapped!SameCall, Mapped!ReadMapping, Mapped!ServeAssign, Mapped!ServeBytes, Mapped!ServeMapping,
       Mapped!ServeSame, Mapped!Crash, Mapped!Finished, Mapped!Asks, Mapped!Send,
       Mapped!PutReply, Mapped!GetReply, Mapped!DeleteReply, Mapped!Body,
       Mapped!GiveUp, Mapped!ServePut, Mapped!ServeGet, Mapped!ServeDelete,
       Mapped!Method, Mapped!Calling, Mapped!Goto, Mapped!Answer, Mapped!Call,
       Mapped!vars, Mapped!volumeVars, Three!MappedNext, Three!Start, Three!Advance,
       Three!MappingReply, Three!SameCall, Three!ReadMapping, Three!ServeAssign, Three!ServeBytes,
       Three!ServeMapping, Three!ServeSame, Three!Crash, Three!Finished, Three!Asks,
       Three!Send, Three!PutReply, Three!GetReply, Three!DeleteReply, Three!Body,
       Three!GiveUp, Three!ServePut, Three!ServeGet, Three!ServeDelete, Three!Method,
       Three!Calling, Three!Goto, Three!Answer, Three!Call, Three!vars,
       Three!volumeVars

LEMMA NextStores == StoresInv /\ [Next]_vars => StoresInv'
<1> SUFFICES ASSUME StoresInv, [Next]_vars PROVE StoresInv'
  OBVIOUS
<1> USE PathAssumption, PiecesAssumption DEF StoresInv
<1>1. CASE kind = "local"
  <2>1. [Dir!Next]_(Dir!vars)
    BY <1>1, LocalStep DEF Next, vars, Dir!vars, Dir!disk, disk
  <2>2. Dir!StoreInv'
    BY <1>1, <2>1, Dir!NextStore
  <2> QED
    BY <1>1, <2>2 DEF Next, vars
<1>2. CASE kind = "seaweedfs"
  <2>1. [One!Next]_(One!vars)
    BY <1>2, SimpleStep DEF Next, vars, One!vars, net, disk, volumes
  <2>2. One!FilerInv'
    BY <1>2, <2>1, One!NextFiler
  <2> QED
    BY <1>2, <2>2 DEF Next, vars
<1>3. CASE kind = "mapped"
  <2>1. [Three!MappedNext]_(Three!mappedVars)
    BY <1>3, MappedStep
    DEF Next, vars, Three!mappedVars, Three!vars, Three!volumeVars, net, volumes
  <2>2. [Three!Entry!Next]_(Three!Entry!vars)
    BY <1>3, <2>1, Three!StepEntry
  <2>3. Three!MappedInv'
    BY <1>3, <2>1, Three!NextMapped
  <2>4. Three!Entry!FilerInv'
    BY <1>3, <2>2, Three!Entry!NextFiler
  <2> QED
    BY <1>3, <2>3, <2>4 DEF Next, vars
<1> QED
  BY <1>1, <1>2, <1>3

LEMMA StoresInvariant == Spec => []StoresInv
BY InitStores, NextStores, PTL DEF Spec

\* Every variable keeps its type under each store.
THEOREM TypeCorrect == Spec => []TypeOK
<1>1. StoresInv => TypeOK
  <2> SUFFICES ASSUME StoresInv PROVE TypeOK
    OBVIOUS
  <2>1. kind = "local" => Local!TypeOK
    BY DEF StoresInv, Dir!StoreInv, Dir!TypeOK, Local!TypeOK, Dir!Method, Local!Method,
           Dir!Calling, Local!Calling, Dir!Final, Local!Final
  <2>2. kind = "seaweedfs" => Simple!TypeOK
    BY DEF StoresInv, One!FilerInv, One!TypeOK, Simple!TypeOK, One!Method,
           Simple!Method,
           One!Calling, Simple!Calling, One!Final, Simple!Final, One!Reply, Simple!Reply
  <2>3. kind = "mapped" => Mapped!MappedTypeOK
    BY DEF StoresInv, Three!MappedInv, Three!MappedTypeOK, Mapped!MappedTypeOK,
           Three!TypeOK, Mapped!TypeOK, Three!Method, Mapped!Method, Three!Calling,
           Mapped!Calling, Three!Final, Mapped!Final, Three!Reply, Mapped!Reply,
           Three!Stages, Mapped!Stages
  <2> QED
    BY <2>1, <2>2, <2>3 DEF TypeOK, StoresInv
<1> QED
  BY <1>1, StoresInvariant, PTL

\* A download from the local store that ends without an error got the whole upload, for
\* any number of pieces, readers and deletes.
THEOREM ReadsAreWholeHolds == Spec => []ReadsAreWhole
<1>1. StoresInv => ReadsAreWhole
  BY DEF StoresInv, Dir!StoreInv, Dir!ReadsAreWhole, ReadsAreWhole, Local!ReadsAreWhole
<1> QED
  BY <1>1, StoresInvariant, PTL

\* What a Delete acknowledged or a Get missed never comes back to the filer, whatever is
\* lost or late, with one request per Put or three.
THEOREM GoneForGoodHolds == Spec => []GoneForGood
<1>1. StoresInv => GoneForGood
  <2> SUFFICES ASSUME StoresInv PROVE GoneForGood
    OBVIOUS
  <2>1. kind = "seaweedfs" => GoneForGood
    BY DEF StoresInv, One!FilerInv, One!GoneForGood, GoneForGood, Mapped!GoneForGood
  <2>2. kind = "mapped" => GoneForGood
    <3>1. ASSUME kind = "mapped" PROVE Three!GoneForGood
      <4>1. Three!Entry!GoneForGood
        BY <3>1 DEF StoresInv, Three!Entry!FilerInv
      <4> QED
        BY <4>1, Three!SameGone, PathAssumption, PiecesAssumption
    <3> QED
      BY <3>1 DEF Three!GoneForGood, GoneForGood, Mapped!GoneForGood
  <2> QED
    BY <2>1, <2>2 DEF StoresInv, GoneForGood
<1> QED
  BY <1>1, StoresInvariant, PTL

\* Every mapping, and every path a row may name, leads to bytes on a volume.
THEOREM MappingNamesVolumeHolds == Spec => []MappingNamesVolume
<1>1. StoresInv => MappingNamesVolume
  BY DEF StoresInv, Three!MappedInv, Three!MappingNamesVolume, MappingNamesVolume,
         Mapped!MappingNamesVolume
<1> QED
  BY <1>1, StoresInvariant, PTL

-----------------------------------------------------------------------------
(* The refinement: each store's mapping is that of BlobStores. *)

LEMMA LocalIsBlob ==
    ASSUME kind = "local", UNCHANGED kind, [Dir!Blob!Next]_(Dir!Blob!vars)
    PROVE  [Blob!Next]_(Blob!vars)
<1>1. /\ [p \in Path |-> BlobOf(p)] = [p \in Path |-> Dir!BlobOf(p)]
      /\ [p \in Path |-> BlobOf(p)]' = [p \in Path |-> Dir!BlobOf(p)]'
  <2>1. ASSUME NEW p \in Path PROVE BlobOf(p) = Dir!BlobOf(p)
    BY DEF BlobOf, Local!BlobOf, Dir!BlobOf
  <2>2. ASSUME NEW p \in Path PROVE BlobOf(p)' = Dir!BlobOf(p)'
    BY DEF BlobOf, Local!BlobOf, Dir!BlobOf
  <2> QED
    BY <2>1, <2>2
<1>2. /\ [c \in Client |-> StateOf(c)] = [c \in Client |-> Dir!StateOf(c)]
      /\ [c \in Client |-> StateOf(c)]' = [c \in Client |-> Dir!StateOf(c)]'
  <2>1. ASSUME NEW c \in Client PROVE StateOf(c) = Dir!StateOf(c)
    BY DEF StateOf, Dir!StateOf, Local!StateOf
  <2>2. ASSUME NEW c \in Client PROVE StateOf(c)' = Dir!StateOf(c)'
    BY DEF StateOf, Dir!StateOf, Local!StateOf
  <2> QED
    BY <2>1, <2>2
<1> USE <1>1, <1>2
    DEF Dir!Blob!Calls, Dir!Blob!To, Dir!Blob!Make, Blob!Calls, Blob!To, Blob!Make
<1>3. ASSUME NEW c \in Client, NEW m, NEW p, Dir!Blob!Start(c, m, p)
      PROVE  Blob!Start(c, m, p)
  BY <1>3 DEF Dir!Blob!Start, Blob!Start
<1>4. ASSUME NEW c \in Client, Dir!Blob!Put(c) PROVE Blob!Put(c)
  BY <1>4 DEF Dir!Blob!Put, Blob!Put
<1>5. ASSUME NEW c \in Client, Dir!Blob!Open(c) PROVE Blob!Open(c)
  BY <1>5 DEF Dir!Blob!Open, Blob!Open
<1>6. ASSUME NEW c \in Client, Dir!Blob!Read(c) PROVE Blob!Read(c)
  BY <1>6 DEF Dir!Blob!Read, Blob!Read
<1>7. ASSUME NEW c \in Client, Dir!Blob!Miss(c) PROVE Blob!Miss(c)
  BY <1>7 DEF Dir!Blob!Miss, Blob!Miss
<1>8. ASSUME NEW c \in Client, Dir!Blob!Delete(c) PROVE Blob!Delete(c)
  BY <1>8 DEF Dir!Blob!Delete, Blob!Delete
<1>9. ASSUME NEW c \in Client, Dir!Blob!Remove(c) PROVE Blob!Remove(c)
  BY <1>9 DEF Dir!Blob!Remove, Blob!Remove
<1>10. ASSUME NEW S \in SUBSET Client, Dir!Blob!Fail(S) PROVE Blob!Fail(S)
  BY <1>10 DEF Dir!Blob!Fail, Blob!Fail
<1>11. UNCHANGED Dir!Blob!vars => UNCHANGED Blob!vars
  BY DEF Dir!Blob!vars, Blob!vars
<1> QED
  BY <1>3, <1>4, <1>5, <1>6, <1>7, <1>8, <1>9, <1>10, <1>11
  DEF Dir!Blob!Next, Blob!Next, Dir!Blob!Method, Blob!Method

LEMMA SimpleIsBlob ==
    ASSUME kind = "seaweedfs", UNCHANGED kind, [One!Blob!Next]_(One!Blob!vars)
    PROVE  [Blob!Next]_(Blob!vars)
<1>1. /\ [p \in Path |-> BlobOf(p)] = [p \in Path |-> One!BlobOf(p)]
      /\ [p \in Path |-> BlobOf(p)]' = [p \in Path |-> One!BlobOf(p)]'
  <2>1. ASSUME NEW p \in Path PROVE BlobOf(p) = One!BlobOf(p)
    BY DEF BlobOf, Simple!BlobOf, One!BlobOf
  <2>2. ASSUME NEW p \in Path PROVE BlobOf(p)' = One!BlobOf(p)'
    BY DEF BlobOf, Simple!BlobOf, One!BlobOf
  <2> QED
    BY <2>1, <2>2
<1>2. /\ [c \in Client |-> StateOf(c)] = [c \in Client |-> One!StateOf(c)]
      /\ [c \in Client |-> StateOf(c)]' = [c \in Client |-> One!StateOf(c)]'
  <2>1. ASSUME NEW c \in Client PROVE StateOf(c) = One!StateOf(c)
    BY DEF StateOf, One!StateOf, One!Opened, One!Final, Simple!StateOf,
           Simple!Opened, Simple!Final
  <2>2. ASSUME NEW c \in Client PROVE StateOf(c)' = One!StateOf(c)'
    BY DEF StateOf, One!StateOf, One!Opened, One!Final, Simple!StateOf,
           Simple!Opened, Simple!Final
  <2> QED
    BY <2>1, <2>2
<1> USE <1>1, <1>2
    DEF One!Blob!Calls, One!Blob!To, One!Blob!Make, Blob!Calls, Blob!To, Blob!Make
<1>3. ASSUME NEW c \in Client, NEW m, NEW p, One!Blob!Start(c, m, p)
      PROVE  Blob!Start(c, m, p)
  BY <1>3 DEF One!Blob!Start, Blob!Start
<1>4. ASSUME NEW c \in Client, One!Blob!Put(c) PROVE Blob!Put(c)
  BY <1>4 DEF One!Blob!Put, Blob!Put
<1>5. ASSUME NEW c \in Client, One!Blob!Open(c) PROVE Blob!Open(c)
  BY <1>5 DEF One!Blob!Open, Blob!Open
<1>6. ASSUME NEW c \in Client, One!Blob!Read(c) PROVE Blob!Read(c)
  BY <1>6 DEF One!Blob!Read, Blob!Read
<1>7. ASSUME NEW c \in Client, One!Blob!Miss(c) PROVE Blob!Miss(c)
  BY <1>7 DEF One!Blob!Miss, Blob!Miss
<1>8. ASSUME NEW c \in Client, One!Blob!Delete(c) PROVE Blob!Delete(c)
  BY <1>8 DEF One!Blob!Delete, Blob!Delete
<1>9. ASSUME NEW c \in Client, One!Blob!Remove(c) PROVE Blob!Remove(c)
  BY <1>9 DEF One!Blob!Remove, Blob!Remove
<1>10. ASSUME NEW S \in SUBSET Client, One!Blob!Fail(S) PROVE Blob!Fail(S)
  BY <1>10 DEF One!Blob!Fail, Blob!Fail
<1>11. UNCHANGED One!Blob!vars => UNCHANGED Blob!vars
  BY DEF One!Blob!vars, Blob!vars
<1> QED
  BY <1>3, <1>4, <1>5, <1>6, <1>7, <1>8, <1>9, <1>10, <1>11
  DEF One!Blob!Next, Blob!Next, One!Blob!Method, Blob!Method

LEMMA MappedIsBlob ==
    ASSUME kind = "mapped", UNCHANGED kind, [Three!Blob!Next]_(Three!Blob!vars)
    PROVE  [Blob!Next]_(Blob!vars)
<1>1. /\ [p \in Path |-> BlobOf(p)] = [p \in Path |-> Three!BlobOf(p)]
      /\ [p \in Path |-> BlobOf(p)]' = [p \in Path |-> Three!BlobOf(p)]'
  <2>1. ASSUME NEW p \in Path PROVE BlobOf(p) = Three!BlobOf(p)
    BY DEF BlobOf, Simple!BlobOf, Three!BlobOf
  <2>2. ASSUME NEW p \in Path PROVE BlobOf(p)' = Three!BlobOf(p)'
    BY DEF BlobOf, Simple!BlobOf, Three!BlobOf
  <2> QED
    BY <2>1, <2>2
<1>2. /\ [c \in Client |-> StateOf(c)] = [c \in Client |-> Three!StateOf(c)]
      /\ [c \in Client |-> StateOf(c)]' = [c \in Client |-> Three!StateOf(c)]'
  <2>1. ASSUME NEW c \in Client PROVE StateOf(c) = Three!StateOf(c)
    BY DEF StateOf, Three!StateOf, Three!Opened, Three!Final, Simple!StateOf,
           Simple!Opened, Simple!Final
  <2>2. ASSUME NEW c \in Client PROVE StateOf(c)' = Three!StateOf(c)'
    BY DEF StateOf, Three!StateOf, Three!Opened, Three!Final, Simple!StateOf,
           Simple!Opened, Simple!Final
  <2> QED
    BY <2>1, <2>2
<1> USE <1>1, <1>2
    DEF Three!Blob!Calls, Three!Blob!To, Three!Blob!Make, Blob!Calls, Blob!To, Blob!Make
<1>3. ASSUME NEW c \in Client, NEW m, NEW p, Three!Blob!Start(c, m, p)
      PROVE  Blob!Start(c, m, p)
  BY <1>3 DEF Three!Blob!Start, Blob!Start
<1>4. ASSUME NEW c \in Client, Three!Blob!Put(c) PROVE Blob!Put(c)
  BY <1>4 DEF Three!Blob!Put, Blob!Put
<1>5. ASSUME NEW c \in Client, Three!Blob!Open(c) PROVE Blob!Open(c)
  BY <1>5 DEF Three!Blob!Open, Blob!Open
<1>6. ASSUME NEW c \in Client, Three!Blob!Read(c) PROVE Blob!Read(c)
  BY <1>6 DEF Three!Blob!Read, Blob!Read
<1>7. ASSUME NEW c \in Client, Three!Blob!Miss(c) PROVE Blob!Miss(c)
  BY <1>7 DEF Three!Blob!Miss, Blob!Miss
<1>8. ASSUME NEW c \in Client, Three!Blob!Delete(c) PROVE Blob!Delete(c)
  BY <1>8 DEF Three!Blob!Delete, Blob!Delete
<1>9. ASSUME NEW c \in Client, Three!Blob!Remove(c) PROVE Blob!Remove(c)
  BY <1>9 DEF Three!Blob!Remove, Blob!Remove
<1>10. ASSUME NEW S \in SUBSET Client, Three!Blob!Fail(S) PROVE Blob!Fail(S)
  BY <1>10 DEF Three!Blob!Fail, Blob!Fail
<1>11. UNCHANGED Three!Blob!vars => UNCHANGED Blob!vars
  BY DEF Three!Blob!vars, Blob!vars
<1> QED
  BY <1>3, <1>4, <1>5, <1>6, <1>7, <1>8, <1>9, <1>10, <1>11
  DEF Three!Blob!Next, Blob!Next, Three!Blob!Method, Blob!Method

LEMMA StepBlob ==
    ASSUME StoresInv, [Next]_vars
    PROVE  [Blob!Next]_(Blob!vars)
<1> USE PathAssumption, PiecesAssumption DEF StoresInv
<1>1. CASE kind = "local"
  <2>1. [Dir!Next]_(Dir!vars)
    BY <1>1, LocalStep DEF Next, vars, Dir!vars, Dir!disk, disk
  <2>2. [Dir!Blob!Next]_(Dir!Blob!vars)
    BY <1>1, <2>1, Dir!BlobStep
  <2> QED
    BY <1>1, <2>2, LocalIsBlob DEF Next, vars
<1>2. CASE kind = "seaweedfs"
  <2>1. [One!Next]_(One!vars)
    BY <1>2, SimpleStep DEF Next, vars, One!vars, net, disk, volumes
  <2>2. [One!Blob!Next]_(One!Blob!vars)
    BY <1>2, <2>1, One!BlobStep
  <2> QED
    BY <1>2, <2>2, SimpleIsBlob DEF Next, vars
<1>3. CASE kind = "mapped"
  <2>1. [Three!MappedNext]_(Three!mappedVars)
    BY <1>3, MappedStep
    DEF Next, vars, Three!mappedVars, Three!vars, Three!volumeVars, net, volumes
  <2>2. [Three!Entry!Next]_(Three!Entry!vars)
    BY <1>3, <2>1, Three!StepEntry
  <2>3. [Three!Blob!Next]_(Three!Blob!vars)
    BY <1>3, <2>2, Three!StepBlob
  <2> QED
    BY <1>3, <2>3, MappedIsBlob DEF Next, vars
<1> QED
  BY <1>1, <1>2, <1>3

LEMMA InitBlob == Init => Blob!Init
<1> SUFFICES ASSUME Init PROVE Blob!Init
  OBVIOUS
<1>1. \A p \in Path : BlobOf(p) = "absent"
  BY DEF BlobOf, Init, Local!Init, Local!NoCalls, Local!BlobOf, Simple!BlobOf
<1>2. \A c \in Client : StateOf(c) = "idle"
  BY DEF StateOf, Init, Local!Init, Local!NoCalls, Local!StateOf, Simple!StateOf,
         Simple!Opened,
         Simple!Final
<1> QED
  BY <1>1, <1>2 DEF Init, Local!Init, Local!NoCalls, Blob!Init

\* Whichever store is configured, it implements the blob store, for any number of
\* clients, paths and pieces.
THEOREM RefinesBlobStoreHolds == Spec => RefinesBlobStore
<1>1. StoresInv /\ [Next]_vars => [Blob!Next]_(Blob!vars)
  BY StepBlob
<1> QED
  BY <1>1, InitBlob, StoresInvariant, PTL DEF Spec, RefinesBlobStore, Blob!Spec
=============================================================================
