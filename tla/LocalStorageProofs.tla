------------------------- MODULE LocalStorageProofs -------------------------
(***************************************************************************)
(* What TLAPS proves about LocalStorage for any number of clients, paths and*)
(* pieces: a blob that is relied on is complete, and the directory is a      *)
(* blob store.                                                              *)
(***************************************************************************)
EXTENDS LocalStorage, TLAPS

\* The method each system call belongs to.
CallsFit ==
    \A c \in Client :
        /\ pc[c] \in {"create", "copy"} => op[c] = "Put"
        /\ pc[c] \in {"open", "read", "eof", "missing"} => op[c] = "Get"
        /\ pc[c] = "unlink" => op[c] = "Delete"
        /\ op[c] # "none" => path[c] \in Path
        /\ op[c] = "none" <=> pc[c] = "idle"

\* A path belongs to one Put, and is asked for only after that went well.
PathsFresh ==
    /\ \A c, d \in Client : op[c] = "Put" /\ op[d] = "Put" /\ path[c] = path[d] => c = d
    /\ \A p \in stored : \E c \in Client : op[c] = "Put" /\ path[c] = p
    /\ \A c \in Client : pc[c] \in {"create", "copy"} => path[c] \notin stored
    /\ \A c \in Client : op[c] \in {"Get", "Delete"} => path[c] \in stored

\* What is relied on is complete, and what is being written is there.
StoredWhole ==
    /\ \A p \in stored : written[p] = Pieces
    /\ \A c \in Client : pc[c] = "copy" => path[c] \in linked

StoreInv == TypeOK /\ CallsFit /\ PathsFresh /\ StoredWhole /\ ReadsAreWhole

-----------------------------------------------------------------------------
(* The invariant *)

LEMMA InitStore == Init => StoreInv
BY PiecesAssumption
DEF Init, NoCalls, StoreInv, TypeOK, CallsFit, PathsFresh, StoredWhole, ReadsAreWhole, Calling, Final

LEMMA NextStore == StoreInv /\ [Next]_vars => StoreInv'
<1> SUFFICES ASSUME StoreInv, [Next]_vars PROVE StoreInv'
  OBVIOUS
<1> USE PiecesAssumption, PathAssumption
    DEF StoreInv, TypeOK, CallsFit, Method, Calling, Final, Goto, Call, Fails, disk
<1>1. ASSUME NEW c \in Client, NEW m \in Method, NEW p \in Path, Start(c, m, p)
      PROVE  StoreInv'
  <2>1. TypeOK' /\ CallsFit'
    BY <1>1 DEF Start, First
  <2>2. PathsFresh'
    <3>1. \A d, e \in Client :
              op'[d] = "Put" /\ op'[e] = "Put" /\ path'[d] = path'[e] => d = e
      BY <1>1 DEF Start, PathsFresh
    <3>2. \A q \in stored' : \E d \in Client : op'[d] = "Put" /\ path'[d] = q
      <4> SUFFICES ASSUME NEW q \in stored
                   PROVE  \E d \in Client : op'[d] = "Put" /\ path'[d] = q
        BY <1>1 DEF Start
      <4>1. PICK d \in Client : op[d] = "Put" /\ path[d] = q
        BY DEF PathsFresh
      <4>2. d # c
        BY <1>1, <4>1 DEF Start
      <4> QED
        BY <1>1, <4>1, <4>2 DEF Start
    <3>3. ASSUME NEW d \in Client, pc'[d] \in {"create", "copy"}
          PROVE  path'[d] \notin stored'
      <4>1. CASE d = c
        <5>1. m = "Put"
          BY <1>1, <3>3, <4>1 DEF Start, First
        <5> QED
          BY <1>1, <4>1, <5>1 DEF Start, PathsFresh
      <4>2. CASE d # c
        BY <1>1, <3>3, <4>2 DEF Start, PathsFresh
      <4> QED
        BY <4>1, <4>2
    <3>4. \A d \in Client : op'[d] \in {"Get", "Delete"} => path'[d] \in stored'
      BY <1>1 DEF Start, PathsFresh
    <3> QED
      BY <3>1, <3>2, <3>3, <3>4 DEF PathsFresh
  <2>3. StoredWhole' /\ ReadsAreWhole'
    BY <1>1 DEF Start, First, StoredWhole, ReadsAreWhole
  <2> QED
    BY <2>1, <2>2, <2>3
<1>2. ASSUME NEW c \in Client, Create(c) PROVE StoreInv'
  <2>1. TypeOK' /\ CallsFit'
    BY <1>2 DEF Create
  <2>2. PathsFresh'
    BY <1>2 DEF Create, PathsFresh
  <2>3. StoredWhole'
    BY <1>2 DEF Create, StoredWhole, PathsFresh
  <2>4. ReadsAreWhole'
    BY <1>2 DEF Create, StoredWhole, ReadsAreWhole, PathsFresh
  <2> QED
    BY <2>1, <2>2, <2>3, <2>4
<1>3. ASSUME NEW c \in Client, Copy(c) PROVE StoreInv'
  <2>1. TypeOK' /\ CallsFit'
    BY <1>3 DEF Copy
  <2>2. PathsFresh'
    BY <1>3 DEF Copy, PathsFresh
  <2>3. StoredWhole'
    BY <1>3 DEF Copy, StoredWhole, PathsFresh
  <2>4. ReadsAreWhole'
    BY <1>3 DEF Copy, StoredWhole, ReadsAreWhole, PathsFresh
  <2> QED
    BY <2>1, <2>2, <2>3, <2>4
<1>4. ASSUME NEW c \in Client, Open(c) PROVE StoreInv'
  <2>1. TypeOK' /\ CallsFit'
    BY <1>4 DEF Open
  <2>2. PathsFresh'
    BY <1>4 DEF Open, PathsFresh
  <2>3. StoredWhole'
    BY <1>4 DEF Open, StoredWhole, PathsFresh
  <2>4. ReadsAreWhole'
    BY <1>4 DEF Open, StoredWhole, ReadsAreWhole, PathsFresh
  <2> QED
    BY <2>1, <2>2, <2>3, <2>4
<1>5. ASSUME NEW c \in Client, Read(c) PROVE StoreInv'
  <2>1. TypeOK' /\ CallsFit'
    BY <1>5 DEF Read
  <2>2. PathsFresh'
    BY <1>5 DEF Read, PathsFresh
  <2>3. StoredWhole'
    BY <1>5 DEF Read, StoredWhole, PathsFresh
  <2>4. ReadsAreWhole'
    BY <1>5 DEF Read, StoredWhole, ReadsAreWhole, PathsFresh
  <2> QED
    BY <2>1, <2>2, <2>3, <2>4
<1>6. ASSUME NEW c \in Client, Unlink(c) PROVE StoreInv'
  <2>1. TypeOK' /\ CallsFit'
    BY <1>6 DEF Unlink
  <2>2. PathsFresh'
    BY <1>6 DEF Unlink, PathsFresh
  <2>3. StoredWhole'
    BY <1>6 DEF Unlink, StoredWhole, PathsFresh
  <2>4. ReadsAreWhole'
    BY <1>6 DEF Unlink, StoredWhole, ReadsAreWhole, PathsFresh
  <2> QED
    BY <2>1, <2>2, <2>3, <2>4
<1>7. CASE Crash
  BY <1>7 DEF Crash, PathsFresh, StoredWhole, ReadsAreWhole
<1>8. CASE UNCHANGED vars
  BY <1>8 DEF vars, PathsFresh, StoredWhole, ReadsAreWhole
<1> QED
  BY <1>1, <1>2, <1>3, <1>4, <1>5, <1>6, <1>7, <1>8 DEF Next, Step, Finished

LEMMA StoreInvariant == Spec => []StoreInv
BY InitStore, NextStore, PTL DEF Spec

\* Every variable of the local store keeps its type.
THEOREM TypeCorrect == Spec => []TypeOK
<1>1. StoreInv => TypeOK
  BY DEF StoreInv
<1> QED
  BY <1>1, StoreInvariant, PTL

\* A download that ends without an error got the whole upload, for any number of
\* pieces, readers and deletes.
THEOREM ReadsAreWholeHolds == Spec => []ReadsAreWhole
<1>1. StoreInv => ReadsAreWhole
  BY DEF StoreInv
<1> QED
  BY <1>1, StoreInvariant, PTL

-----------------------------------------------------------------------------
(* The refinement *)

LEMMA InitBlob == Init => Blob!Init
BY DEF Init, NoCalls, Blob!Init, BlobOf, StateOf

\* What the abstract store sees of a client that moves on, and of the others.
LEMMA Moves ==
    ASSUME StoreInv, NEW c \in Client, NEW l, Goto(c, l), UNCHANGED pos
    PROVE  /\ \A d \in Client : d # c => StateOf(d)' = StateOf(d)
           /\ l \in {"ok", "missing", "err"} => StateOf(c)' = l
           /\ l \in {"create", "copy", "open", "unlink"} => StateOf(c)' = "called"
           /\ l = "read" => StateOf(c)' = "reading"
           /\ l = "eof" /\ pos[c] = Pieces => StateOf(c)' = "whole"
<1>1. pc'[c] = l /\ pos'[c] = pos[c]
  BY DEF StoreInv, TypeOK, Goto
<1>2. ASSUME NEW d \in Client, d # c PROVE StateOf(d)' = StateOf(d)
  <2>1. pc'[d] = pc[d] /\ pos'[d] = pos[d]
    BY <1>2 DEF StoreInv, TypeOK, Goto
  <2> QED
    BY <2>1 DEF StateOf
<1>3. l \in {"ok", "missing", "err"} => StateOf(c)' = l
  BY <1>1 DEF StateOf
<1>4. l \in {"create", "copy", "open", "unlink"} => StateOf(c)' = "called"
  BY <1>1 DEF StateOf
<1>5. l = "read" => StateOf(c)' = "reading"
  BY <1>1 DEF StateOf
<1>6. l = "eof" /\ pos[c] = Pieces => StateOf(c)' = "whole"
  BY <1>1 DEF StateOf
<1> QED
  BY <1>2, <1>3, <1>4, <1>5, <1>6

LEMMA BlobStep ==
    ASSUME StoreInv, [Next]_vars
    PROVE  [Blob!Next]_(Blob!vars)
<1> USE DEF StoreInv, TypeOK, Goto, Call, Fails, disk
<1>blobs. UNCHANGED <<linked, stored>> =>
              UNCHANGED [p \in Path |-> BlobOf(p)]
  BY DEF BlobOf
<1>fails. ASSUME NEW c \in Client, pc[c] \in Calling, Fails(c), UNCHANGED <<op, path>>
          PROVE  Blob!Fail({c})
  <2>1. \A d \in Client : StateOf(d)' = IF d \in {c} THEN "err" ELSE StateOf(d)
    BY <1>fails, Moves
  <2>2. StateOf(c) \in {"called", "reading"}
    BY <1>fails DEF StateOf, Calling
  <2> QED
    BY <2>1, <2>2, <1>fails, <1>blobs DEF Blob!Fail
<1>1. ASSUME NEW c \in Client, NEW m \in Method, NEW p \in Path, Start(c, m, p)
      PROVE  Blob!Start(c, m, p)
  <2>1. \A d \in Client : StateOf(d)' = IF d = c THEN "called" ELSE StateOf(d)
    BY <1>1, Moves DEF Start, First, Method
  <2>2. StateOf(c) = "idle"
    BY <1>1 DEF Start, StateOf
  <2>3. m # "Put" => BlobOf(p) # "absent"
    BY <1>1 DEF Start, BlobOf
  <2> QED
    BY <1>1, <2>1, <2>2, <2>3, <1>blobs DEF Start, Blob!Start, Blob!To
<1>2. ASSUME NEW c \in Client, Create(c)
      PROVE  Blob!Fail({c}) \/ UNCHANGED Blob!vars
  <2>1. CASE Goto(c, "copy") /\ linked' = linked \cup {path[c]} /\ UNCHANGED <<stored, pos>>
    <3>1. \A p \in Path : BlobOf(p)' = BlobOf(p)
      BY <1>2, <2>1 DEF Create, BlobOf, PathsFresh, CallsFit
    <3>2. \A d \in Client : StateOf(d)' = StateOf(d)
      BY <1>2, <2>1 DEF Create, StateOf
    <3> QED
      BY <1>2, <3>1, <3>2 DEF Create, Blob!vars
  <2>2. CASE Fails(c)
    BY <1>2, <2>2, <1>fails DEF Create, Calling
  <2> QED
    BY <1>2, <2>1, <2>2 DEF Create
<1>3. ASSUME NEW c \in Client, Copy(c)
      PROVE  Blob!Put(c) \/ Blob!Fail({c}) \/ UNCHANGED Blob!vars
  <2>1. CASE UNCHANGED <<linked, stored, pc, pos>>
    <3>1. \A d \in Client : StateOf(d)' = StateOf(d)
      BY <2>1 DEF StateOf
    <3> QED
      BY <1>3, <2>1, <3>1, <1>blobs DEF Copy, Blob!vars
  <2>2. CASE stored' = stored \cup {path[c]} /\ Goto(c, "ok") /\ UNCHANGED <<disk, pos>>
    <3>1. op[c] = "Put" /\ StateOf(c) = "called" /\ path[c] \in Path
      BY <1>3 DEF Copy, StateOf, CallsFit
    <3>2. \A p \in Path : BlobOf(p)' = IF p = path[c] THEN "stored" ELSE BlobOf(p)
      BY <1>3, <2>2 DEF Copy, BlobOf, StoredWhole
    <3>3. \A d \in Client : StateOf(d)' = IF d = c THEN "ok" ELSE StateOf(d)
      BY <2>2, Moves
    <3>4. Blob!Put(c)
      BY <1>3, <3>1, <3>2, <3>3 DEF Copy, Blob!Put, Blob!Calls, Blob!Make, Blob!To
    <3> QED
      BY <3>4
  <2>3. CASE Fails(c)
    BY <1>3, <2>3, <1>fails DEF Copy, Calling
  <2> QED
    BY <1>3, <2>1, <2>2, <2>3 DEF Copy
<1>4. ASSUME NEW c \in Client, Open(c)
      PROVE  Blob!Open(c) \/ Blob!Miss(c) \/ Blob!Fail({c})
  <2>1. op[c] = "Get" /\ StateOf(c) = "called" /\ path[c] \in stored
    BY <1>4 DEF Open, StateOf, CallsFit, PathsFresh
  <2>2. CASE path[c] \in linked /\ Goto(c, "read") /\ UNCHANGED <<disk, stored, pos>>
    <3>1. \A d \in Client : StateOf(d)' = IF d = c THEN "reading" ELSE StateOf(d)
      BY <2>2, Moves
    <3>2. BlobOf(path[c]) = "stored"
      BY <2>1, <2>2 DEF BlobOf
    <3>3. Blob!Open(c)
      BY <1>4, <2>1, <2>2, <3>1, <3>2, <1>blobs DEF Open, Blob!Open, Blob!Calls, Blob!To
    <3> QED
      BY <3>3
  <2>3. CASE path[c] \notin linked /\ Goto(c, "missing") /\ UNCHANGED <<disk, stored, pos>>
    <3>1. \A d \in Client : StateOf(d)' = IF d = c THEN "missing" ELSE StateOf(d)
      BY <2>3, Moves
    <3>2. BlobOf(path[c]) = "removed"
      BY <2>1, <2>3 DEF BlobOf
    <3>3. Blob!Miss(c)
      BY <1>4, <2>1, <2>3, <3>1, <3>2, <1>blobs DEF Open, Blob!Miss, Blob!Calls, Blob!To
    <3> QED
      BY <3>3
  <2>4. CASE Fails(c)
    BY <1>4, <2>4, <1>fails DEF Open, Calling
  <2> QED
    BY <1>4, <2>2, <2>3, <2>4 DEF Open
<1>5. ASSUME NEW c \in Client, Read(c)
      PROVE  Blob!Read(c) \/ Blob!Fail({c}) \/ UNCHANGED Blob!vars
  <2>1. StateOf(c) = "reading"
    BY <1>5 DEF Read, StateOf
  <2>2. CASE pos' = [pos EXCEPT ![c] = @ + 1] /\ UNCHANGED <<disk, stored, pc>>
    <3>1. \A d \in Client : StateOf(d)' = StateOf(d)
      BY <1>5, <2>2 DEF Read, StateOf
    <3> QED
      BY <1>5, <2>2, <3>1, <1>blobs DEF Read, Blob!vars
  <2>3. CASE pos[c] = written[path[c]] /\ Goto(c, "eof") /\ UNCHANGED <<disk, stored, pos>>
    <3>1. pos[c] = Pieces
      BY <1>5, <2>3 DEF Read, StoredWhole, PathsFresh, CallsFit
    <3>2. \A d \in Client : StateOf(d)' = IF d = c THEN "whole" ELSE StateOf(d)
      BY <2>3, <3>1, Moves
    <3>3. Blob!Read(c)
      BY <1>5, <2>1, <2>3, <3>2, <1>blobs DEF Read, Blob!Read, Blob!To
    <3> QED
      BY <3>3
  <2>4. CASE Fails(c)
    BY <1>5, <2>4, <1>fails DEF Read, Calling
  <2> QED
    BY <1>5, <2>2, <2>3, <2>4 DEF Read
<1>6. ASSUME NEW c \in Client, Unlink(c)
      PROVE  Blob!Delete(c) \/ Blob!Fail({c})
  <2>1. op[c] = "Delete" /\ StateOf(c) = "called" /\ path[c] \in stored
    BY <1>6 DEF Unlink, StateOf, CallsFit, PathsFresh
  <2>2. CASE linked' = linked \ {path[c]} /\ Goto(c, "ok") /\ UNCHANGED <<written, stored, pos>>
    <3>1. \A d \in Client : StateOf(d)' = IF d = c THEN "ok" ELSE StateOf(d)
      BY <2>2, Moves
    <3>2. \A p \in Path : BlobOf(p)' = IF p = path[c] THEN "removed" ELSE BlobOf(p)
      BY <2>1, <2>2 DEF BlobOf
    <3>3. Blob!Delete(c)
      BY <1>6, <2>1, <3>1, <3>2 DEF Unlink, Blob!Delete, Blob!Calls, Blob!Make, Blob!To
    <3> QED
      BY <3>3
  <2>3. CASE Fails(c)
    BY <1>6, <2>3, <1>fails DEF Unlink, Calling
  <2> QED
    BY <1>6, <2>2, <2>3 DEF Unlink
<1>7. CASE Crash
  <2> DEFINE S == {c \in Client : pc[c] \in Calling}
  <2>1. ASSUME NEW d \in Client
        PROVE  StateOf(d)' = IF d \in S THEN "err" ELSE StateOf(d)
    <3>1. pc'[d] = IF d \in S THEN "err" ELSE pc[d]
      BY <1>7 DEF Crash
    <3>2. d \in S => StateOf(d)' = "err"
      BY <3>1 DEF StateOf
    <3>3. d \notin S => StateOf(d)' = StateOf(d)
      BY <1>7, <3>1 DEF Crash, StateOf
    <3> QED
      BY <3>2, <3>3
  <2>2. \A d \in S : StateOf(d) \in {"called", "reading"}
    BY DEF StateOf, Calling
  <2>3. Blob!Fail(S)
    BY <1>7, <2>1, <2>2, <1>blobs DEF Crash, Blob!Fail
  <2>4. S \in SUBSET Client
    OBVIOUS
  <2> HIDE DEF S
  <2> QED
    BY <2>3, <2>4 DEF Blob!Next
<1>8. CASE UNCHANGED vars
  <2>1. \A d \in Client : StateOf(d)' = StateOf(d)
    BY <1>8 DEF vars, StateOf
  <2> QED
    BY <1>8, <2>1, <1>blobs DEF vars, Blob!vars
<1> QED
  BY <1>1, <1>2, <1>3, <1>4, <1>5, <1>6, <1>7, <1>8
  DEF Next, Step, Finished, Blob!Next, Blob!Method, Method

\* The local store implements the blob store for any number of clients, paths and
\* pieces.
THEOREM RefinesBlobStoreHolds == Spec => RefinesBlobStore
<1>1. StoreInv /\ [Next]_vars => [Blob!Next]_(Blob!vars)
  BY BlobStep
<1> QED
  BY <1>1, InitBlob, InitStore, NextStore, PTL DEF Spec, RefinesBlobStore, Blob!Spec
=============================================================================
