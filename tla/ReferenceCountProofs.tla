------------------------ MODULE ReferenceCountProofs ------------------------
(***************************************************************************)
(* What TLAPS proves about the reference counts of StorageService for any    *)
(* number of requests and contents: where every reference has somebody who   *)
(* gives it back (Accounted), none is forgotten, however requests overlap;   *)
(* where also no count falls short (Tolerated), the counts are exact; and    *)
(* where no failure loses a copy (CopiesKept), no blob is left without a row. *)
(***************************************************************************)
EXTENDS StorageServiceProofs

-----------------------------------------------------------------------------
(* Who owns a reference *)

LEMMA InitAccount == Init => AccountInv
<1> SUFFICES ASSUME Init PROVE AccountInv
  OBVIOUS
<1>1. BaseInv
  BY InitBase
<1>2. FreshInv /\ TargetInv /\ CountInv
  BY DEF Init, FreshInv, TargetInv, CountInv
<1>3. NoForgottenReference
  BY HoldersFinite DEF Init, NoForgottenReference
<1> QED
  BY <1>1, <1>2, <1>3 DEF AccountInv

LEMMA StepOwners ==
  ASSUME BaseInv, FreshInv, TargetInv, CountInv, [Next]_vars
  PROVE  FreshInv' /\ TargetInv' /\ CountInv'
<1> USE NullAssumption, ContentAssumption, RequestAssumption
    DEF BaseInv, TypeOK, LocalsInv, FileInv, HashRead, PathRead,
        tables, locals, Goto, Answer, Rejects, Calls, UploadCalls, DeleteCalls, Final,
        Uploading, Deleting
<1>1. ASSUME NEW r \in Request, NEW c \in Content, StartUpload(r, c) PROVE FreshInv' /\ TargetInv' /\ CountInv'
  <2>1. FreshInv' /\ TargetInv'
    BY <1>1 DEF StartUpload, FreshInv, TargetInv, Unattached
  <2>2. CountInv'
    BY <1>1 DEF StartUpload, CountInv, RowExists
  <2> QED
    BY <2>1, <2>2
<1>2. ASSUME NEW r \in Request, NEW f \in Request, StartDelete(r, f) PROVE FreshInv' /\ TargetInv' /\ CountInv'
  <2>1. FreshInv' /\ TargetInv'
    BY <1>2 DEF StartDelete, MayDelete, FreshInv, TargetInv, Unattached
  <2>2. CountInv'
    BY <1>2 DEF StartDelete, MayDelete, CountInv, RowExists
  <2> QED
    BY <2>1, <2>2
<1>3. ASSUME NEW r \in Request, Put(r) PROVE FreshInv' /\ TargetInv' /\ CountInv'
  <2>1. FreshInv' /\ TargetInv'
    BY <1>3 DEF Put, FreshInv, TargetInv, Unattached
  <2>2. CountInv'
    BY <1>3 DEF Put, CountInv, RowExists
  <2> QED
    BY <2>1, <2>2
<1>4. ASSUME NEW r \in Request, FindDuplicate(r) PROVE FreshInv' /\ TargetInv' /\ CountInv'
  <2>1. FreshInv' /\ TargetInv'
    BY <1>4 DEF FindDuplicate, FreshInv, TargetInv, Unattached
  <2>2. CountInv'
    BY <1>4 DEF FindDuplicate, CountInv, RowExists
  <2> QED
    BY <2>1, <2>2
<1>5. ASSUME NEW r \in Request, DropCopy(r) PROVE FreshInv' /\ TargetInv' /\ CountInv'
  <2>1. FreshInv' /\ TargetInv'
    BY <1>5 DEF DropCopy, FreshInv, TargetInv, Unattached
  <2>2. CountInv'
    BY <1>5 DEF DropCopy, CountInv, RowExists
  <2> QED
    BY <2>1, <2>2
<1>6. ASSUME NEW r \in Request, Increment(r) PROVE FreshInv' /\ TargetInv' /\ CountInv'
  <2>1. FreshInv' /\ TargetInv'
    BY <1>6 DEF Increment, IncrementStorageRef, FreshInv, TargetInv, Unattached
  <2>2. CountInv'
    BY <1>6 DEF Increment, IncrementStorageRef, CountInv, RowExists
  <2> QED
    BY <2>1, <2>2
<1>7. ASSUME NEW r \in Request, AttachFile(r) PROVE FreshInv' /\ TargetInv' /\ CountInv'
  <2>1. FreshInv' /\ TargetInv'
    BY <1>7 DEF AttachFile, CreateFileReference, FreshInv, TargetInv, Unattached
  <2>2. CountInv'
    BY <1>7 DEF AttachFile, CreateFileReference, CountInv, RowExists
  <2> QED
    BY <2>1, <2>2
<1>8. ASSUME NEW r \in Request, UndoIncrement(r) PROVE FreshInv' /\ TargetInv' /\ CountInv'
  <2>1. FreshInv' /\ TargetInv'
    BY <1>8 DEF UndoIncrement, DecrementStorageRef, FreshInv, TargetInv, Unattached
  <2>2. CountInv'
    BY <1>8 DEF UndoIncrement, DecrementStorageRef, CountInv, RowExists
  <2> QED
    BY <2>1, <2>2
<1>9. ASSUME NEW r \in Request, InsertStorage(r) PROVE FreshInv' /\ TargetInv' /\ CountInv'
  <2>1. FreshInv' /\ TargetInv'
    BY <1>9 DEF InsertStorage, CreateStorage, FreshInv, TargetInv, Unattached
  <2>2. CountInv'
    BY <1>9 DEF InsertStorage, CreateStorage, CountInv, RowExists
  <2> QED
    BY <2>1, <2>2
<1>10. ASSUME NEW r \in Request, CreateFile(r) PROVE FreshInv' /\ TargetInv' /\ CountInv'
  <2>1. FreshInv' /\ TargetInv'
    BY <1>10 DEF CreateFile, CreateFileReference, FreshInv, TargetInv, Unattached
  <2>2. CountInv'
    BY <1>10 DEF CreateFile, CreateFileReference, CountInv, RowExists
  <2> QED
    BY <2>1, <2>2
<1>11. ASSUME NEW r \in Request, CleanUpRow(r) PROVE FreshInv' /\ TargetInv' /\ CountInv'
  <2>1. FreshInv' /\ TargetInv'
    BY <1>11 DEF CleanUpRow, DeleteStorage, Deletable, FreshInv, TargetInv, Unattached
  <2>2. CountInv'
    BY <1>11 DEF CleanUpRow, DeleteStorage, Deletable, CountInv, RowExists
  <2> QED
    BY <2>1, <2>2
<1>12. ASSUME NEW r \in Request, CleanUpBlob(r) PROVE FreshInv' /\ TargetInv' /\ CountInv'
  <2>1. FreshInv' /\ TargetInv'
    BY <1>12 DEF CleanUpBlob, FreshInv, TargetInv, Unattached
  <2>2. CountInv'
    BY <1>12 DEF CleanUpBlob, CountInv, RowExists
  <2> QED
    BY <2>1, <2>2
<1>13. ASSUME NEW r \in Request, FindHash(r) PROVE FreshInv' /\ TargetInv' /\ CountInv'
  <2>1. FreshInv' /\ TargetInv'
    BY <1>13 DEF FindHash, FreshInv, TargetInv, Unattached
  <2>2. CountInv'
    BY <1>13 DEF FindHash, CountInv, RowExists
  <2> QED
    BY <2>1, <2>2
<1>14. ASSUME NEW r \in Request, DeleteFile(r) PROVE FreshInv' /\ TargetInv' /\ CountInv'
  <2>1. FreshInv' /\ TargetInv'
    BY <1>14 DEF DeleteFile, DeleteByID, FreshInv, TargetInv, Unattached
  <2>2. CountInv'
    BY <1>14 DEF DeleteFile, DeleteByID, CountInv, RowExists
  <2> QED
    BY <2>1, <2>2
<1>15. ASSUME NEW r \in Request, Decrement(r) PROVE FreshInv' /\ TargetInv' /\ CountInv'
  <2>1. FreshInv' /\ TargetInv'
    BY <1>15 DEF Decrement, DecrementStorageRef, FreshInv, TargetInv, Unattached
  <2>2. CountInv'
    BY <1>15 DEF Decrement, DecrementStorageRef, CountInv, RowExists
  <2> QED
    BY <2>1, <2>2
<1>16. ASSUME NEW r \in Request, FindRow(r) PROVE FreshInv' /\ TargetInv' /\ CountInv'
  <2>1. FreshInv' /\ TargetInv'
    BY <1>16 DEF FindRow, FreshInv, TargetInv, Unattached
  <2>2. CountInv'
    BY <1>16 DEF FindRow, CountInv, RowExists
  <2> QED
    BY <2>1, <2>2
<1>17. ASSUME NEW r \in Request, DeleteBlob(r) PROVE FreshInv' /\ TargetInv' /\ CountInv'
  <2>1. FreshInv' /\ TargetInv'
    BY <1>17 DEF DeleteBlob, FreshInv, TargetInv, Unattached
  <2>2. CountInv'
    BY <1>17 DEF DeleteBlob, CountInv, RowExists
  <2> QED
    BY <2>1, <2>2
<1>18. ASSUME NEW r \in Request, DeleteRow(r) PROVE FreshInv' /\ TargetInv' /\ CountInv'
  <2>1. FreshInv' /\ TargetInv'
    BY <1>18 DEF DeleteRow, DeleteStorage, Deletable, FreshInv, TargetInv, Unattached
  <2>2. CountInv'
    BY <1>18 DEF DeleteRow, DeleteStorage, Deletable, CountInv, RowExists
  <2> QED
    BY <2>1, <2>2
<1>19. CASE Crash
  BY <1>19 DEF Crash, Active, FreshInv, TargetInv, CountInv, Unattached, RowExists
<1>20. CASE UNCHANGED vars
  BY <1>20 DEF vars, FreshInv, TargetInv, CountInv, RowExists
<1> QED
  BY <1>1, <1>2, <1>3, <1>4, <1>5, <1>6, <1>7, <1>8, <1>9, <1>10, <1>11, <1>12, <1>13, <1>14, <1>15, <1>16, <1>17, <1>18, <1>19, <1>20
  DEF Next, Step, UploadStep, DeleteStep, Finished

-----------------------------------------------------------------------------
(* The counts *)

\* What a step may do to the count of a content and to those who hold it.
Keeps(h) ==
    /\ Holders(h) \subseteq Holders(h)'
    /\ reference_count'[h] <= reference_count[h]
KeepsBut(k) == \A h \in Content : h # k => Keeps(h)
Adds(k, r) ==
    /\ KeepsBut(k)
    /\ r \notin Holders(k) /\ Holders(k) \cup {r} \subseteq Holders(k)'
    /\ reference_count'[k] = reference_count[k] + 1
Drops(k, f) ==
    /\ KeepsBut(k)
    /\ Holders(k) \subseteq Holders(k)' \cup {f}
    /\ reference_count'[k] = reference_count[k] - 1
Loses(k) == KeepsBut(k) /\ ~ RowExists(k)'

Moves ==
    \/ \A h \in Content : Keeps(h)
    \/ \E k \in Content, r \in Request : Adds(k, r) \/ Drops(k, r)
    \/ \E k \in Content : Loses(k)

LEMMA StepMoves ==
  ASSUME GivenBack, Accounted \/ ~ Crash, AccountInv, [Next]_vars
  PROVE  Moves
<1>one. \A k, r : k \in Content /\ r \in Request /\ (Adds(k, r) \/ Drops(k, r)) => Moves
  BY DEF Moves
<1>row. \A k : k \in Content /\ Loses(k) => Moves
  BY DEF Moves
<1>same. \A k : k \in Content /\ KeepsBut(k) /\ Keeps(k) => Moves
  BY DEF KeepsBut, Moves
<1>t. \A h \in Content : reference_count[h] \in Int /\ reference_count'[h] \in Int
  BY StepBase DEF AccountInv, BaseInv, TypeOK
<1> USE NullAssumption, ContentAssumption, RequestAssumption
    DEF AccountInv, GivenBack, BaseInv, TypeOK, LocalsInv, FileInv, HashRead, PathRead,
        RowExists, tables, locals, Goto, Answer, Rejects, Holders, Attaching,
        Calls, UploadCalls, DeleteCalls, Final, Uploading, Deleting, Active
<1>1. ASSUME NEW r \in Request, NEW c \in Content, StartUpload(r, c) PROVE Moves
  <2>1. \A h \in Content : Keeps(h)
    BY <1>1, <1>t DEF StartUpload, Keeps
  <2> QED
    BY <2>1 DEF Moves
<1>2. ASSUME NEW r \in Request, NEW f \in Request, StartDelete(r, f) PROVE Moves
  <2>1. \A h \in Content : Keeps(h)
    BY <1>2, <1>t DEF StartDelete, Keeps
  <2> QED
    BY <2>1 DEF Moves
<1>3. ASSUME NEW r \in Request, Put(r) PROVE Moves
  <2>1. \A h \in Content : Keeps(h)
    BY <1>3, <1>t DEF Put, Keeps
  <2> QED
    BY <2>1 DEF Moves
<1>4. ASSUME NEW r \in Request, FindDuplicate(r) PROVE Moves
  <2>1. \A h \in Content : Keeps(h)
    BY <1>4, <1>t DEF FindDuplicate, Keeps
  <2> QED
    BY <2>1 DEF Moves
<1>5. ASSUME NEW r \in Request, DropCopy(r) PROVE Moves
  <2>1. \A h \in Content : Keeps(h)
    BY <1>5, <1>t DEF DropCopy, Keeps
  <2> QED
    BY <2>1 DEF Moves
<1>6. ASSUME NEW r \in Request, Increment(r) PROVE Moves
  <2> PICK k \in Content : k = body[r]
    BY <1>6 DEF Increment
  <2>1. r \notin Holders(k) /\ k \in Content
    BY <1>6 DEF Increment, FreshInv, Unattached
  <2>2. CASE IncrementStorageRef(k) /\ Goto(r, "AttachFile")
    <3>1. KeepsBut(k)
      BY <1>6, <2>2, <1>t DEF Increment, IncrementStorageRef, Keeps, KeepsBut
    <3>2. CASE RowExists(k)
      <4>1. Adds(k, r)
        BY <1>6, <2>1, <2>2, <3>1, <3>2 DEF Increment, IncrementStorageRef, Adds
      <4> QED
        BY <1>one, <2>1, <4>1
    <3>3. CASE ~ RowExists(k)
      <4>1. Keeps(k)
        BY <1>6, <2>1, <2>2, <3>3, <1>t DEF Increment, IncrementStorageRef, Keeps
      <4> QED
        BY <1>same, <2>1, <3>1, <4>1
    <3> QED
      BY <3>2, <3>3
  <2>3. CASE Goto(r, "err") /\ UNCHANGED reference_count
    <3>1. \A h \in Content : Keeps(h)
      BY <1>6, <2>3, <1>t DEF Increment, Keeps
    <3> QED
      BY <3>1 DEF Moves
  <2> QED
    BY <1>6, <2>2, <2>3 DEF Increment
<1>7. ASSUME NEW r \in Request, AttachFile(r) PROVE Moves
  <2>1. \A h \in Content : Keeps(h)
    BY <1>7, <1>t DEF AttachFile, CreateFileReference, Keeps
  <2> QED
    BY <2>1 DEF Moves
<1>8. ASSUME NEW r \in Request, UndoIncrement(r) PROVE Moves
  <2> PICK k \in Content : k = body[r]
    BY <1>8 DEF UndoIncrement
  <2>1. k \in Content /\ DecrementStorageRef(k)
    BY <1>8 DEF UndoIncrement
  <2>2. KeepsBut(k)
    BY <1>8, <2>1, <1>t DEF UndoIncrement, DecrementStorageRef, Keeps, KeepsBut
  <2>3. CASE RowExists(k)
    <3>1. Drops(k, r)
      BY <1>8, <2>1, <2>2, <2>3 DEF UndoIncrement, DecrementStorageRef, Drops
    <3> QED
      BY <1>one, <2>1, <3>1
  <2>4. CASE ~ RowExists(k)
    <3>1. Loses(k)
      BY <1>8, <2>2, <2>4 DEF UndoIncrement, Loses
    <3> QED
      BY <1>row, <2>1, <3>1
  <2> QED
    BY <2>3, <2>4
<1>9. ASSUME NEW r \in Request, InsertStorage(r) PROVE Moves
  <2> PICK k \in Content : k = body[r]
    BY <1>9 DEF InsertStorage
  <2>1. CASE CreateStorage(k, r) /\ Goto(r, "CreateFile")
    <3>1. KeepsBut(k)
      BY <1>9, <2>1, <1>t DEF InsertStorage, CreateStorage, Keeps, KeepsBut
    <3>2. /\ k \in Content
          /\ r \notin Holders(k)
          /\ Holders(k) \cup {r} \subseteq Holders(k)'
      BY <1>9, <2>1 DEF InsertStorage, FreshInv, Unattached
    <3>3. reference_count'[k] = reference_count[k] + 1
      BY <1>9, <2>1, <3>2 DEF CreateStorage, CountInv
    <3>4. Adds(k, r)
      BY <3>1, <3>2, <3>3 DEF Adds
    <3> QED
      BY <1>one, <3>2, <3>4
  <2>2. CASE Goto(r, "CleanUpBlob") /\ UNCHANGED <<storage_path, reference_count>>
    <3>1. \A h \in Content : Keeps(h)
      BY <1>9, <2>2, <1>t DEF InsertStorage, Keeps
    <3> QED
      BY <3>1 DEF Moves
  <2> QED
    BY <1>9, <2>1, <2>2 DEF InsertStorage
<1>10. ASSUME NEW r \in Request, CreateFile(r) PROVE Moves
  <2> PICK k \in Content : k = body[r]
    BY <1>10 DEF CreateFile
  <2>1. CASE CreateFileReference(r, k)
    <3>1. \A h \in Content : Keeps(h)
      BY <1>10, <2>1, <1>t DEF CreateFile, CreateFileReference, Keeps
    <3> QED
      BY <3>1 DEF Moves
  <2>2. CASE ~ RowExists(k) /\ Goto(r, "CleanUpRow") /\ UNCHANGED files
    <3>1. k \in Content /\ KeepsBut(k)
      BY <1>10, <2>2, <1>t DEF CreateFile, Keeps, KeepsBut
    <3>2. Loses(k)
      BY <1>10, <2>2, <3>1 DEF CreateFile, Loses
    <3> QED
      BY <1>row, <3>1, <3>2
  <2> QED
    BY <1>10, <2>1, <2>2 DEF CreateFile
<1>11. ASSUME NEW r \in Request, CleanUpRow(r) PROVE Moves
  <2>1. \A h \in Content : Keeps(h)
    BY <1>11, <1>t DEF CleanUpRow, Keeps
  <2> QED
    BY <2>1 DEF Moves
<1>12. ASSUME NEW r \in Request, CleanUpBlob(r) PROVE Moves
  <2>1. \A h \in Content : Keeps(h)
    BY <1>12, <1>t DEF CleanUpBlob, Keeps
  <2> QED
    BY <2>1 DEF Moves
<1>13. ASSUME NEW r \in Request, FindHash(r) PROVE Moves
  <2>1. \A h \in Content : Keeps(h)
    BY <1>13, <1>t DEF FindHash, Keeps
  <2> QED
    BY <2>1 DEF Moves
<1>14. ASSUME NEW r \in Request, DeleteFile(r) PROVE Moves
  <2>1. \A h \in Content : Keeps(h)
    BY <1>14, <1>t DEF DeleteFile, DeleteByID, TargetInv, Keeps
  <2> QED
    BY <2>1 DEF Moves
<1>15. ASSUME NEW r \in Request, Decrement(r) PROVE Moves
  <2> PICK k \in Content : k = hash[r]
    BY <1>15 DEF Decrement
  <2> PICK f \in Request : f = target[r]
    BY <1>15 DEF Decrement
  <2>1. k \in Content /\ DecrementStorageRef(k)
    BY <1>15 DEF Decrement
  <2>2. KeepsBut(k)
    BY <1>15, <2>1, <1>t DEF Decrement, DecrementStorageRef, Keeps, KeepsBut
  <2>3. CASE RowExists(k)
    <3>1. Drops(k, f)
      BY <1>15, <2>1, <2>2, <2>3 DEF Decrement, DecrementStorageRef, Drops
    <3> QED
      BY <1>one, <2>1, <3>1
  <2>4. CASE ~ RowExists(k)
    <3>1. Loses(k)
      BY <1>15, <2>2, <2>4 DEF Decrement, Loses
    <3> QED
      BY <1>row, <2>1, <3>1
  <2> QED
    BY <2>3, <2>4
<1>16. ASSUME NEW r \in Request, FindRow(r) PROVE Moves
  <2>1. \A h \in Content : Keeps(h)
    BY <1>16, <1>t DEF FindRow, Keeps
  <2> QED
    BY <2>1 DEF Moves
<1>17. ASSUME NEW r \in Request, DeleteBlob(r) PROVE Moves
  <2>1. \A h \in Content : Keeps(h)
    BY <1>17, <1>t DEF DeleteBlob, Keeps
  <2> QED
    BY <2>1 DEF Moves
<1>18. ASSUME NEW r \in Request, DeleteRow(r) PROVE Moves
  <2>1. \A h \in Content : Keeps(h)
    BY <1>18, <1>t DEF DeleteRow, Keeps
  <2> QED
    BY <2>1 DEF Moves
<1>19. CASE Crash
  <2>1. \A h \in Content : Keeps(h)
    BY <1>19, <1>t DEF Crash, Accounted, Keeps
  <2> QED
    BY <2>1 DEF Moves
<1>20. CASE UNCHANGED vars
  <2>1. \A h \in Content : Keeps(h)
    BY <1>20, <1>t DEF vars, Keeps
  <2> QED
    BY <2>1 DEF Moves
<1> QED
  BY <1>1, <1>2, <1>3, <1>4, <1>5, <1>6, <1>7, <1>8, <1>9, <1>10, <1>11, <1>12, <1>13, <1>14, <1>15, <1>16, <1>17, <1>18, <1>19, <1>20
  DEF Next, Step, UploadStep, DeleteStep, Finished

LEMMA AddOne ==
  ASSUME NEW S, NEW x, IsFiniteSet(S)
  PROVE  /\ IsFiniteSet(S \cup {x})
         /\ Cardinality(S \cup {x}) \in Nat
         /\ Cardinality(S \cup {x}) <= Cardinality(S) + 1
<1>1. IsFiniteSet(S \cup {x}) /\ Cardinality(S \cup {x}) \in Nat /\ Cardinality(S) \in Nat
  BY FS_AddElement, FS_CardinalityType
<1>2. Cardinality(S \cup {x}) = Cardinality(S) \/ Cardinality(S \cup {x}) = Cardinality(S) + 1
  BY FS_AddElement
<1> QED
  BY <1>1, <1>2

LEMMA StepForgotten ==
  ASSUME GivenBack, Accounted \/ ~ Crash, AccountInv, [Next]_vars
  PROVE  NoForgottenReference'
<1> DEFINE Counted(h) == reference_count[h] <= Cardinality(Holders(h))
<1>t. \A h \in Content : reference_count[h] \in Int /\ reference_count'[h] \in Int
  BY StepBase DEF AccountInv, BaseInv, TypeOK
<1>f. \A h \in Content :
          /\ IsFiniteSet(Holders(h)) /\ Cardinality(Holders(h)) \in Nat
          /\ IsFiniteSet(Holders(h)') /\ Cardinality(Holders(h)') \in Nat
  <2>1. \A h \in Content : Holders(h) \subseteq Request /\ Holders(h)' \subseteq Request
    BY DEF Holders
  <2>2. \A h \in Content : IsFiniteSet(Holders(h)) /\ IsFiniteSet(Holders(h)')
    BY <2>1, RequestAssumption, FS_Subset
  <2> QED
    BY <2>2, FS_CardinalityType
<1>c. \A h \in Content : Counted(h)
  BY DEF AccountInv, NoForgottenReference
<1>keep. ASSUME NEW h \in Content, Keeps(h) PROVE Counted(h)'
  <2>1. Cardinality(Holders(h)) <= Cardinality(Holders(h)')
    BY <1>keep, <1>f, FS_Subset DEF Keeps
  <2> QED
    BY <2>1, <1>keep, <1>t, <1>f, <1>c DEF Keeps
<1>1. CASE \A h \in Content : Keeps(h)
  BY <1>1, <1>keep DEF NoForgottenReference
<1>2. ASSUME NEW k \in Content, NEW r \in Request, Adds(k, r) PROVE NoForgottenReference'
  <2>1. Cardinality(Holders(k) \cup {r}) = Cardinality(Holders(k)) + 1
    BY <1>2, <1>f, FS_AddElement DEF Adds
  <2>2. Cardinality(Holders(k) \cup {r}) <= Cardinality(Holders(k)')
    BY <1>2, <1>f, FS_Subset DEF Adds
  <2>3. Counted(k)'
    BY <2>1, <2>2, <1>t, <1>f, <1>c, <1>2 DEF Adds
  <2> QED
    BY <2>3, <1>2, <1>keep DEF Adds, KeepsBut, NoForgottenReference
<1>3. ASSUME NEW k \in Content, NEW f \in Request, Drops(k, f) PROVE NoForgottenReference'
  <2> DEFINE After == Holders(k)'
  <2>1. IsFiniteSet(After) /\ Cardinality(After) \in Nat
    BY <1>f
  <2>2. Holders(k) \subseteq After \cup {f}
    BY <1>3 DEF Drops
  <2>3. Cardinality(Holders(k)) <= Cardinality(After) + 1
    <3>1. /\ IsFiniteSet(After \cup {f})
          /\ Cardinality(After \cup {f}) \in Nat
          /\ Cardinality(After \cup {f}) <= Cardinality(After) + 1
      BY <2>1, AddOne
    <3>2. Cardinality(Holders(k)) <= Cardinality(After \cup {f})
      BY <2>2, <3>1, FS_Subset
    <3> QED
      BY <2>1, <3>1, <3>2, <1>f
  <2>4. Counted(k)'
    BY <2>1, <2>3, <1>t, <1>f, <1>c, <1>3 DEF Drops
  <2> QED
    BY <2>4, <1>3, <1>keep DEF Drops, KeepsBut, NoForgottenReference
<1>4. ASSUME NEW k \in Content, Loses(k) PROVE NoForgottenReference'
  <2>1. reference_count'[k] = 0
    BY StepOwners, <1>4 DEF AccountInv, CountInv, Loses
  <2>2. Counted(k)'
    BY <2>1, <1>f
  <2> QED
    BY <2>2, <1>4, <1>keep DEF Loses, KeepsBut, NoForgottenReference
<1> QED
  BY <1>1, <1>2, <1>3, <1>4, StepMoves DEF Moves

LEMMA StepAccount == Accounted /\ AccountInv /\ [Next]_vars => AccountInv'
BY StepBase, StepOwners, StepForgotten DEF AccountInv, Accounted

\* Wherever every reference has somebody who gives it back, the count never exceeds the
\* references: interleaving alone forgets none, and neither do the failures left in.
THEOREM NoForgottenReferenceHolds ==
  ASSUME Accounted PROVE Spec => []NoForgottenReference
<1>1. AccountInv /\ [Next]_vars => AccountInv'
  BY StepAccount
<1>2. AccountInv => NoForgottenReference
  BY DEF AccountInv
<1> QED
  BY <1>1, <1>2, InitAccount, PTL DEF Spec

\* With the overlaps shut out as well, the count of a content is the number of its files
\* and of the uploads and deletes that owe it one.
CountsExact == \A h \in Content : reference_count[h] = Cardinality(Holders(h))

THEOREM CountsExactHolds ==
  ASSUME Tolerated, Accounted PROVE Spec => []CountsExact
<1>1. BaseInv /\ ReferencesCovered /\ NoForgottenReference => CountsExact
  BY HoldersFinite DEF BaseInv, TypeOK, ReferencesCovered, NoForgottenReference, CountsExact
<1> QED
  BY <1>1, BaseInvariant, ReferencesCoveredHolds, NoForgottenReferenceHolds, PTL

-----------------------------------------------------------------------------
(* No blob without a row, where no failure loses a copy *)

USE DEF Calls, UploadCalls, DeleteCalls, Final, Active, Uploading, Deleting

\* A file is listed, and a delete of it starts, only when its upload is over: no upload
\* reports an error that lists its file all the same.
LEMMA StepTargets ==
  ASSUME CopiesKept, BaseInv, FreshInv, TargetKnown, [Next]_vars
  PROVE  TargetKnown'
<1> USE NullAssumption, ContentAssumption, RequestAssumption
    DEF CopiesKept, BaseInv, TypeOK, LocalsInv, FileInv, FreshInv, Unattached, TargetKnown,
        HashRead, PathRead, Cleaning, tables, locals, Goto, Answer, Rejects
<1>1. ASSUME NEW r \in Request, NEW c \in Content, StartUpload(r, c) PROVE TargetKnown'
  BY <1>1 DEF StartUpload
<1>2. ASSUME NEW r \in Request, NEW f \in Request, StartDelete(r, f) PROVE TargetKnown'
  BY <1>2 DEF StartDelete, MayDelete
<1>3. ASSUME NEW r \in Request, Put(r) PROVE TargetKnown'
  BY <1>3 DEF Put, PutBlob
<1>4. ASSUME NEW r \in Request, FindDuplicate(r) PROVE TargetKnown'
  BY <1>4 DEF FindDuplicate
<1>5. ASSUME NEW r \in Request, DropCopy(r) PROVE TargetKnown'
  BY <1>5 DEF DropCopy, RemoveBlob
<1>6. ASSUME NEW r \in Request, Increment(r) PROVE TargetKnown'
  BY <1>6 DEF Increment, IncrementStorageRef
<1>7. ASSUME NEW r \in Request, AttachFile(r) PROVE TargetKnown'
  BY <1>7 DEF AttachFile, CreateFileReference
<1>8. ASSUME NEW r \in Request, UndoIncrement(r) PROVE TargetKnown'
  BY <1>8 DEF UndoIncrement, DecrementStorageRef
<1>9. ASSUME NEW r \in Request, InsertStorage(r) PROVE TargetKnown'
  BY <1>9 DEF InsertStorage, CreateStorage
<1>10. ASSUME NEW r \in Request, CreateFile(r) PROVE TargetKnown'
  BY <1>10 DEF CreateFile, CreateFileReference
<1>11. ASSUME NEW r \in Request, CleanUpRow(r) PROVE TargetKnown'
  BY <1>11 DEF CleanUpRow, DeleteStorage, Deletable
<1>12. ASSUME NEW r \in Request, CleanUpBlob(r) PROVE TargetKnown'
  BY <1>12 DEF CleanUpBlob, RemoveBlob
<1>13. ASSUME NEW r \in Request, FindHash(r) PROVE TargetKnown'
  BY <1>13 DEF FindHash
<1>14. ASSUME NEW r \in Request, DeleteFile(r) PROVE TargetKnown'
  BY <1>14 DEF DeleteFile, DeleteByID
<1>15. ASSUME NEW r \in Request, Decrement(r) PROVE TargetKnown'
  BY <1>15 DEF Decrement, DecrementStorageRef
<1>16. ASSUME NEW r \in Request, FindRow(r) PROVE TargetKnown'
  BY <1>16 DEF FindRow
<1>17. ASSUME NEW r \in Request, DeleteBlob(r) PROVE TargetKnown'
  BY <1>17 DEF DeleteBlob, RemoveBlob
<1>18. ASSUME NEW r \in Request, DeleteRow(r) PROVE TargetKnown'
  BY <1>18 DEF DeleteRow, DeleteStorage, Deletable
<1>19. CASE Crash
  BY <1>19 DEF Crash
<1>20. CASE UNCHANGED vars
  BY <1>20 DEF vars
<1> QED
  BY <1>1, <1>2, <1>3, <1>4, <1>5, <1>6, <1>7, <1>8, <1>9, <1>10, <1>11, <1>12, <1>13,
     <1>14, <1>15, <1>16, <1>17, <1>18, <1>19, <1>20
  DEF Next, Step, UploadStep, DeleteStep, Finished

\* What started stays: a content that is deleted once was deleted at most once before.
LEMMA OnceBefore ==
  ASSUME BaseInv, TargetKnown, [Next]_vars, OneDeletePerContent'
  PROVE  OneDeletePerContent
<1> DEFINE Same == \A d \in Request : target[d] # NULL =>
                       target'[d] = target[d] /\ body'[target[d]] = body[target[d]]
<1>1. Same
  <2> USE RequestAssumption DEF BaseInv, TypeOK, LocalsInv, TargetKnown, tables, locals
  <2>1. ASSUME NEW r \in Request, NEW c \in Content, StartUpload(r, c)
        PROVE  Same
    BY <2>1 DEF StartUpload
  <2>2. ASSUME NEW r \in Request, NEW f \in Request, StartDelete(r, f)
        PROVE  Same
    BY <2>2 DEF StartDelete
  <2>3. ASSUME ~ \E r \in Request : \/ \E c \in Content : StartUpload(r, c)
                                    \/ \E f \in Request : StartDelete(r, f)
        PROVE  UNCHANGED <<body, target>>
    BY <2>3 DEF vars, Next, Step, UploadStep, DeleteStep, Finished, Crash, Put, FindDuplicate, DropCopy,
        Increment, AttachFile, UndoIncrement, InsertStorage, CreateFile, CleanUpRow, CleanUpBlob,
        FindHash, DeleteFile, Decrement, FindRow, DeleteBlob, DeleteRow
  <2> QED
    BY <2>1, <2>2, <2>3
<1> QED
  BY <1>1, RequestAssumption DEF OneDeletePerContent, TargetKnown, BaseInv, TypeOK

LEMMA OwnersFinite ==
  ASSUME NEW h
  PROVE  IsFiniteSet(Owners(h)) /\ Cardinality(Owners(h)) \in Nat
<1>1. Owners(h) \subseteq Request
  BY DEF Owners, Holders
<1>2. IsFiniteSet(Owners(h))
  BY <1>1, RequestAssumption, FS_Subset
<1> QED
  BY <1>2, FS_CardinalityType

\* Until its delete is through, an owner of a content finds the row and its count above 0.
LEMMA OwnerCounts ==
  ASSUME KeptInv, OneDeletePerContent
  PROVE  \A h \in Content, u \in Request :
             u \in Owners(h) /\ ~ Removed(h) => RowExists(h) /\ reference_count[h] >= 1
<1> SUFFICES ASSUME NEW h \in Content, NEW u \in Owners(h), ~ Removed(h)
             PROVE  RowExists(h) /\ reference_count[h] >= 1
  OBVIOUS
<1>1. reference_count[h] \in Int /\ reference_count[h] >= Cardinality(Owners(h))
  BY DEF KeptInv, OnceInv, OwnersCovered, BaseInv, TypeOK
<1>2. Cardinality(Owners(h)) \in Nat /\ Cardinality(Owners(h)) # 0
  BY OwnersFinite, FS_EmptySet
<1>3. reference_count[h] >= 1
  BY <1>1, <1>2
<1> QED
  BY <1>3 DEF KeptInv, CountInv

\* While a content is being deleted, no other delete of it is through.
LEMMA DeleteIsSole ==
  ASSUME KeptInv, OneDeletePerContent
  PROVE  \A d \in Request : Deleting(d) => ~ Removed(body[target[d]])
BY RequestAssumption, NullAssumption
DEF KeptInv, TargetKnown, OneDeletePerContent, Removed, BaseInv, TypeOK, LocalsInv

\* A delete that is through has nothing left to change.
LEMMA RemovedStays ==
  ASSUME TypeOK, [Next]_vars
  PROVE  \A h : Removed(h) => Removed(h)'
<1> DEFINE Goal == \A d \in Request : pc[d] = "ok" =>
                       pc'[d] = "ok" /\ found'[d] = found[d] /\ hash'[d] = hash[d]
<1> USE DEF TypeOK, tables, locals, Goto, Answer
<1>1. ASSUME NEW r \in Request, NEW c \in Content, StartUpload(r, c) PROVE Goal
  BY <1>1 DEF StartUpload
<1>2. ASSUME NEW r \in Request, NEW f \in Request, StartDelete(r, f) PROVE Goal
  BY <1>2 DEF StartDelete
<1>3. ASSUME NEW r \in Request, Put(r) PROVE Goal
  BY <1>3 DEF Put, PutBlob
<1>4. ASSUME NEW r \in Request, FindDuplicate(r) PROVE Goal
  BY <1>4 DEF FindDuplicate
<1>5. ASSUME NEW r \in Request, DropCopy(r) PROVE Goal
  BY <1>5 DEF DropCopy, RemoveBlob
<1>6. ASSUME NEW r \in Request, Increment(r) PROVE Goal
  BY <1>6 DEF Increment, IncrementStorageRef
<1>7. ASSUME NEW r \in Request, AttachFile(r) PROVE Goal
  BY <1>7 DEF AttachFile, CreateFileReference
<1>8. ASSUME NEW r \in Request, UndoIncrement(r) PROVE Goal
  BY <1>8 DEF UndoIncrement, DecrementStorageRef
<1>9. ASSUME NEW r \in Request, InsertStorage(r) PROVE Goal
  BY <1>9 DEF InsertStorage, CreateStorage
<1>10. ASSUME NEW r \in Request, CreateFile(r) PROVE Goal
  BY <1>10 DEF CreateFile, CreateFileReference
<1>11. ASSUME NEW r \in Request, CleanUpRow(r) PROVE Goal
  BY <1>11 DEF CleanUpRow, DeleteStorage
<1>12. ASSUME NEW r \in Request, CleanUpBlob(r) PROVE Goal
  BY <1>12 DEF CleanUpBlob, RemoveBlob
<1>13. ASSUME NEW r \in Request, FindHash(r) PROVE Goal
  BY <1>13 DEF FindHash
<1>14. ASSUME NEW r \in Request, DeleteFile(r) PROVE Goal
  BY <1>14 DEF DeleteFile, DeleteByID
<1>15. ASSUME NEW r \in Request, Decrement(r) PROVE Goal
  BY <1>15 DEF Decrement, DecrementStorageRef
<1>16. ASSUME NEW r \in Request, FindRow(r) PROVE Goal
  BY <1>16 DEF FindRow
<1>17. ASSUME NEW r \in Request, DeleteBlob(r) PROVE Goal
  BY <1>17 DEF DeleteBlob, RemoveBlob
<1>18. ASSUME NEW r \in Request, DeleteRow(r) PROVE Goal
  BY <1>18 DEF DeleteRow, DeleteStorage
<1>19. ASSUME Crash PROVE Goal
  BY <1>19 DEF Crash
<1>20. ASSUME UNCHANGED vars PROVE Goal
  BY <1>20 DEF vars
<1>21. Goal
  BY <1>1, <1>2, <1>3, <1>4, <1>5, <1>6, <1>7, <1>8, <1>9, <1>10, <1>11, <1>12, <1>13,
     <1>14, <1>15, <1>16, <1>17, <1>18, <1>19, <1>20
  DEF Next, Step, UploadStep, DeleteStep, Finished
<1> QED
  BY <1>21 DEF Removed

\* What the requests of a content that is deleted once rely on: the count protects the row
\* that a duplicate found and a first upload inserted until the file is unlisted, and the
\* row a delete read until the delete removes it.
LEMMA StepOnce ==
  ASSUME CopiesKept, KeptInv, OneDeletePerContent, OneDeletePerContent', [Next]_vars
  PROVE  FileTaken' /\ DuplicateStays' /\ FirstKeepsRow' /\ DeleteKeepsRow' /\ BytesOwned'
<1> DEFINE Goal == FileTaken /\ DuplicateStays /\ FirstKeepsRow /\ DeleteKeepsRow /\ BytesOwned
<1>o. \A h \in Content, u \in Request :
          /\ ~ Removed(h)
          /\ body[u] = h /\ pc[u] \in Attaching \cup {"CleanUpRow"}
          => RowExists(h) /\ reference_count[h] >= 1
  BY OwnerCounts DEF Owners, Holders
<1>d. \A d \in Request : Deleting(d) => ~ Removed(body[target[d]])
  BY DeleteIsSole
<1>r. \A h : Removed(h) => Removed(h)'
  BY RemovedStays DEF KeptInv, BaseInv
<1>g. Goal
  BY DEF KeptInv, OnceInv
<1>k. BaseInv /\ FreshInv /\ TargetKnown
  BY DEF KeptInv
<1> SUFFICES Goal'
  OBVIOUS
<1> USE <1>r, <1>g, <1>k, NullAssumption, ContentAssumption, RequestAssumption
    DEF CopiesKept, BaseInv, TypeOK, LocalsInv, FileInv, RowInv, HashRead, PathRead, Cleaning,
        RowExists, TargetKnown, FreshInv, Unattached, Attaching, Unnamed,
        FileTaken, DuplicateStays, FirstKeepsRow, DeleteKeepsRow, BytesOwned,
        tables, locals, Goto, Answer, Rejects
<1>1. ASSUME NEW r \in Request, NEW c \in Content, StartUpload(r, c) PROVE Goal'
  BY <1>1 DEF StartUpload
<1>2. ASSUME NEW r \in Request, NEW f \in Request, StartDelete(r, f) PROVE Goal'
  BY <1>2 DEF StartDelete, MayDelete
<1>3. ASSUME NEW r \in Request, Put(r) PROVE Goal'
  BY <1>3 DEF Put, PutBlob
<1>4. ASSUME NEW r \in Request, FindDuplicate(r) PROVE Goal'
  BY <1>4 DEF FindDuplicate
<1>5. ASSUME NEW r \in Request, DropCopy(r) PROVE Goal'
  BY <1>5 DEF DropCopy, RemoveBlob
<1>6. ASSUME NEW r \in Request, Increment(r) PROVE Goal'
  BY <1>6 DEF Increment, IncrementStorageRef
<1>7. ASSUME NEW r \in Request, AttachFile(r) PROVE Goal'
  BY <1>7 DEF AttachFile, CreateFileReference
<1>8. ASSUME NEW r \in Request, UndoIncrement(r) PROVE Goal'
  BY <1>8 DEF UndoIncrement, DecrementStorageRef
<1>9. ASSUME NEW r \in Request, InsertStorage(r) PROVE Goal'
  BY <1>d, <1>9 DEF InsertStorage, CreateStorage
<1>10. ASSUME NEW r \in Request, CreateFile(r) PROVE Goal'
  BY <1>10 DEF CreateFile, CreateFileReference
<1>11. ASSUME NEW r \in Request, CleanUpRow(r) PROVE Goal'
  BY <1>o, <1>d, <1>11 DEF CleanUpRow, DeleteStorage, Deletable
<1>12. ASSUME NEW r \in Request, CleanUpBlob(r) PROVE Goal'
  BY <1>12 DEF CleanUpBlob, RemoveBlob
<1>13. ASSUME NEW r \in Request, FindHash(r) PROVE Goal'
  BY <1>13 DEF FindHash, OneDeletePerContent
<1>14. ASSUME NEW r \in Request, DeleteFile(r) PROVE Goal'
  BY <1>d, <1>14 DEF DeleteFile, DeleteByID, OneDeletePerContent
<1>15. ASSUME NEW r \in Request, Decrement(r) PROVE Goal'
  BY <1>15 DEF Decrement, DecrementStorageRef
<1>16. ASSUME NEW r \in Request, FindRow(r) PROVE Goal'
  BY <1>16 DEF FindRow
<1>17. ASSUME NEW r \in Request, DeleteBlob(r) PROVE Goal'
  BY <1>17 DEF DeleteBlob, RemoveBlob
<1>18. ASSUME NEW r \in Request, DeleteRow(r) PROVE Goal'
  BY <1>o, <1>d, <1>18 DEF DeleteRow, DeleteStorage, Deletable, Removed, OneDeletePerContent
<1>19. CASE Crash
  BY <1>19 DEF Crash
<1>20. CASE UNCHANGED vars
  BY <1>20 DEF vars
<1> QED
  BY <1>1, <1>2, <1>3, <1>4, <1>5, <1>6, <1>7, <1>8, <1>9, <1>10, <1>11, <1>12, <1>13,
     <1>14, <1>15, <1>16, <1>17, <1>18, <1>19, <1>20
  DEF Next, Step, UploadStep, DeleteStep, Finished

\* The counting argument: who takes one from the count owned a reference, and who comes to
\* own one added it; a row that is gone is gone with its content's delete.
LEMMA StepCovers ==
  ASSUME CopiesKept, KeptInv, OneDeletePerContent, [Next]_vars
  PROVE  OwnersCovered'
<1> DEFINE Covered(h) == Removed(h) \/ reference_count[h] >= Cardinality(Owners(h))
           Fewer(h) == Owners(h)' \subseteq Owners(h) /\ reference_count'[h] >= reference_count[h]
           Others(k) == \A h \in Content : h # k => Fewer(h)
<1>t. \A h \in Content : reference_count[h] \in Int /\ reference_count'[h] \in Int
  BY StepBase DEF KeptInv, BaseInv, TypeOK
<1>f. \A h \in Content :
          /\ IsFiniteSet(Owners(h)) /\ Cardinality(Owners(h)) \in Nat
          /\ IsFiniteSet(Owners(h)') /\ Cardinality(Owners(h)') \in Nat
  <2>1. \A h \in Content : Owners(h)' \subseteq Request
    BY DEF Owners, Holders
  <2>2. \A h \in Content : IsFiniteSet(Owners(h)')
    BY <2>1, RequestAssumption, FS_Subset
  <2> QED
    BY <2>2, OwnersFinite, FS_CardinalityType
<1>c. \A h \in Content : Covered(h)
  BY DEF KeptInv, OnceInv, OwnersCovered
<1>r. \A h : Removed(h) => Removed(h)'
  BY RemovedStays DEF KeptInv, BaseInv
<1>o. \A h \in Content, u \in Request :
             u \in Owners(h) /\ ~ Removed(h) => RowExists(h) /\ reference_count[h] >= 1
  BY OwnerCounts
<1>keep. ASSUME NEW h \in Content, Fewer(h) PROVE Covered(h)'
  <2>1. Cardinality(Owners(h)') <= Cardinality(Owners(h))
    BY <1>keep, <1>f, FS_Subset
  <2> QED
    BY <2>1, <1>keep, <1>t, <1>f, <1>c, <1>r
<1>add. ASSUME NEW h \in Content, NEW u \in Request, Owners(h)' \subseteq Owners(h) \cup {u},
               reference_count'[h] = reference_count[h] + 1
        PROVE  Covered(h)'
  <2>1. /\ IsFiniteSet(Owners(h) \cup {u})
        /\ Cardinality(Owners(h) \cup {u}) \in Nat
        /\ Cardinality(Owners(h) \cup {u}) <= Cardinality(Owners(h)) + 1
    BY <1>f, AddOne
  <2>2. Cardinality(Owners(h)') <= Cardinality(Owners(h) \cup {u})
    BY <1>add, <2>1, FS_Subset
  <2> QED
    BY <2>1, <2>2, <1>add, <1>t, <1>f, <1>c, <1>r
<1>drop. ASSUME NEW h \in Content, NEW u \in Owners(h), Owners(h)' \subseteq Owners(h) \ {u},
                reference_count'[h] = reference_count[h] - 1
         PROVE  Covered(h)'
  <2>1. /\ IsFiniteSet(Owners(h) \ {u})
        /\ Cardinality(Owners(h) \ {u}) = Cardinality(Owners(h)) - 1
    BY <1>f, FS_RemoveElement
  <2>2. Cardinality(Owners(h)') <= Cardinality(Owners(h) \ {u})
    BY <1>drop, <2>1, FS_Subset
  <2> QED
    BY <2>1, <2>2, <1>drop, <1>t, <1>f, <1>c, <1>r
<1>quiet. ASSUME \A h \in Content : Fewer(h) PROVE OwnersCovered'
  BY <1>quiet, <1>keep DEF OwnersCovered
<1>one. ASSUME NEW k \in Content, Others(k), Covered(k)' PROVE OwnersCovered'
  BY <1>one, <1>keep DEF OwnersCovered
<1>k. /\ BaseInv /\ FreshInv /\ TargetInv /\ CountInv /\ TargetKnown
      /\ FileTaken /\ DuplicateStays /\ FirstKeepsRow
  BY DEF KeptInv, OnceInv
<1> USE <1>k, NullAssumption, ContentAssumption, RequestAssumption
    DEF CopiesKept, BaseInv, TypeOK, LocalsInv, FileInv, HashRead, PathRead, Cleaning, RowExists,
        Holders, Attaching, Owners, tables, locals, Goto, Answer, Rejects
<1>1. ASSUME NEW r \in Request, NEW c \in Content, StartUpload(r, c) PROVE OwnersCovered'
  <2>1. \A h \in Content : Fewer(h)
    BY <1>1, <1>t DEF StartUpload
  <2> QED
    BY <2>1, <1>quiet
<1>2. ASSUME NEW r \in Request, NEW f \in Request, StartDelete(r, f) PROVE OwnersCovered'
  <2>1. \A h \in Content : Fewer(h)
    BY <1>2, <1>t DEF StartDelete
  <2> QED
    BY <2>1, <1>quiet
<1>3. ASSUME NEW r \in Request, Put(r) PROVE OwnersCovered'
  <2>1. \A h \in Content : Fewer(h)
    BY <1>3, <1>t DEF Put
  <2> QED
    BY <2>1, <1>quiet
<1>4. ASSUME NEW r \in Request, FindDuplicate(r) PROVE OwnersCovered'
  <2>1. \A h \in Content : Fewer(h)
    BY <1>4, <1>t DEF FindDuplicate
  <2> QED
    BY <2>1, <1>quiet
<1>5. ASSUME NEW r \in Request, DropCopy(r) PROVE OwnersCovered'
  <2>1. \A h \in Content : Fewer(h)
    BY <1>5, <1>t DEF DropCopy
  <2> QED
    BY <2>1, <1>quiet
<1>6. ASSUME NEW r \in Request, Increment(r) PROVE OwnersCovered'
  <2> PICK k \in Content : k = body[r]
    BY <1>6 DEF Increment
  <2>1. Others(k)
    BY <1>6, <1>t DEF Increment, IncrementStorageRef
  <2>2. CASE RowExists(k) /\ IncrementStorageRef(k)
    <3>1. Owners(k)' \subseteq Owners(k) \cup {r}
      BY <1>6 DEF Increment
    <3>2. reference_count'[k] = reference_count[k] + 1
      BY <2>2 DEF IncrementStorageRef
    <3> QED
      BY <2>1, <3>1, <3>2, <1>add, <1>one
  <2>3. CASE UNCHANGED reference_count /\ Goto(r, "err")
    <3>1. Fewer(k)
      BY <1>6, <2>3, <1>t DEF Increment
    <3> QED
      BY <2>1, <3>1, <1>keep, <1>one
  <2>4. CASE ~ RowExists(k)
    <3>1. Removed(k)
      BY <1>6, <2>4 DEF Increment, DuplicateStays
    <3> QED
      BY <2>1, <3>1, <1>r, <1>one
  <2> QED
    BY <1>6, <2>2, <2>3, <2>4 DEF Increment
<1>7. ASSUME NEW r \in Request, AttachFile(r) PROVE OwnersCovered'
  <2>1. \A h \in Content : Fewer(h)
    BY <1>7, <1>t DEF AttachFile, CreateFileReference
  <2> QED
    BY <2>1, <1>quiet
<1>8. ASSUME NEW r \in Request, UndoIncrement(r) PROVE OwnersCovered'
  <2> PICK k \in Content : k = body[r]
    BY <1>8 DEF UndoIncrement
  <2>1. Others(k)
    BY <1>8, <1>t DEF UndoIncrement, DecrementStorageRef
  <2>2. CASE UNCHANGED reference_count
    <3>1. Fewer(k)
      BY <1>8, <2>2, <1>t DEF UndoIncrement
    <3> QED
      BY <2>1, <3>1, <1>keep, <1>one
  <2>3. CASE ~ Removed(k) /\ DecrementStorageRef(k)
    <3>1. r \in Owners(k)
      BY <1>8 DEF UndoIncrement
    <3>2. reference_count'[k] = reference_count[k] - 1
      BY <2>3, <3>1, <1>o DEF DecrementStorageRef
    <3>3. Owners(k)' \subseteq Owners(k) \ {r}
      <4>1. files[r] # k
        BY <1>8 DEF UndoIncrement, TargetKnown
      <4>2. \A d \in Request : pc[d] = "Decrement" => target[d] # r
        BY <1>8 DEF UndoIncrement, TargetKnown
      <4> QED
        BY <1>8, <4>1, <4>2 DEF UndoIncrement
    <3> QED
      BY <2>1, <3>1, <3>2, <3>3, <1>drop, <1>one
  <2>4. CASE Removed(k)
    BY <2>1, <2>4, <1>r, <1>one
  <2> QED
    BY <1>8, <2>2, <2>3, <2>4 DEF UndoIncrement
<1>9. ASSUME NEW r \in Request, InsertStorage(r) PROVE OwnersCovered'
  <2> PICK k \in Content : k = body[r]
    BY <1>9 DEF InsertStorage
  <2>1. Others(k)
    BY <1>9, <1>t DEF InsertStorage, CreateStorage
  <2>2. CASE CreateStorage(k, r)
    <3>1. Owners(k)' \subseteq Owners(k) \cup {r}
      BY <1>9 DEF InsertStorage
    <3>2. reference_count'[k] = reference_count[k] + 1
      BY <2>2 DEF CreateStorage, CountInv
    <3> QED
      BY <2>1, <3>1, <3>2, <1>add, <1>one
  <2>3. CASE UNCHANGED <<storage_path, reference_count>> /\ Goto(r, "CleanUpBlob")
    <3>1. Fewer(k)
      BY <1>9, <2>3, <1>t DEF InsertStorage
    <3> QED
      BY <2>1, <3>1, <1>keep, <1>one
  <2> QED
    BY <1>9, <2>2, <2>3 DEF InsertStorage
<1>10. ASSUME NEW r \in Request, CreateFile(r) PROVE OwnersCovered'
  <2>1. \A h \in Content : Fewer(h)
    BY <1>10, <1>t DEF CreateFile, CreateFileReference
  <2> QED
    BY <2>1, <1>quiet
<1>11. ASSUME NEW r \in Request, CleanUpRow(r) PROVE OwnersCovered'
  <2>1. \A h \in Content : Fewer(h)
    BY <1>11, <1>t DEF CleanUpRow
  <2> QED
    BY <2>1, <1>quiet
<1>12. ASSUME NEW r \in Request, CleanUpBlob(r) PROVE OwnersCovered'
  <2>1. \A h \in Content : Fewer(h)
    BY <1>12, <1>t DEF CleanUpBlob
  <2> QED
    BY <2>1, <1>quiet
<1>13. ASSUME NEW r \in Request, FindHash(r) PROVE OwnersCovered'
  <2>1. \A h \in Content : Fewer(h)
    BY <1>13, <1>t DEF FindHash
  <2> QED
    BY <2>1, <1>quiet
<1>14. ASSUME NEW r \in Request, DeleteFile(r) PROVE OwnersCovered'
  <2>1. \A h \in Content : Fewer(h)
    BY <1>14, <1>t DEF DeleteFile, DeleteByID, TargetInv, FileTaken
  <2> QED
    BY <2>1, <1>quiet
<1>15. ASSUME NEW r \in Request, Decrement(r) PROVE OwnersCovered'
  <2> PICK k \in Content : k = hash[r]
    BY <1>15 DEF Decrement
  <2> PICK f \in Request : f = target[r]
    BY <1>15 DEF Decrement
  <2>1. Others(k)
    BY <1>15, <1>t DEF Decrement, DecrementStorageRef
  <2>2. CASE UNCHANGED reference_count
    <3>1. Fewer(k)
      BY <1>15, <2>2, <1>t DEF Decrement
    <3> QED
      BY <2>1, <3>1, <1>keep, <1>one
  <2>3. CASE ~ Removed(k) /\ DecrementStorageRef(k)
    <3>1. f \in Owners(k)
      BY <1>15 DEF Decrement
    <3>2. reference_count'[k] = reference_count[k] - 1
      BY <2>3, <3>1, <1>o DEF DecrementStorageRef
    <3>3. Owners(k)' \subseteq Owners(k) \ {f}
      <4>1. files[f] = NULL /\ pc[f] \notin UploadCalls /\ body[f] = k
        BY <1>15 DEF Decrement, FileTaken, TargetKnown, TargetInv
      <4>2. \A d \in Request : pc[d] = "Decrement" /\ target[d] = f => d = r
        BY <1>15, <4>1 DEF Decrement, OneDeletePerContent
      <4>3. f \notin Owners(k)'
        BY <1>15, <4>1, <4>2 DEF Decrement
      <4>4. Owners(k)' \subseteq Owners(k)
        BY <1>15 DEF Decrement
      <4> QED
        BY <4>3, <4>4
    <3> QED
      BY <2>1, <3>1, <3>2, <3>3, <1>drop, <1>one
  <2>4. CASE Removed(k)
    BY <2>1, <2>4, <1>r, <1>one
  <2> QED
    BY <1>15, <2>2, <2>3, <2>4 DEF Decrement
<1>16. ASSUME NEW r \in Request, FindRow(r) PROVE OwnersCovered'
  <2>1. \A h \in Content : Fewer(h)
    BY <1>16, <1>t DEF FindRow
  <2> QED
    BY <2>1, <1>quiet
<1>17. ASSUME NEW r \in Request, DeleteBlob(r) PROVE OwnersCovered'
  <2>1. \A h \in Content : Fewer(h)
    BY <1>17, <1>t DEF DeleteBlob
  <2> QED
    BY <2>1, <1>quiet
<1>18. ASSUME NEW r \in Request, DeleteRow(r) PROVE OwnersCovered'
  <2>1. \A h \in Content : Fewer(h)
    BY <1>18, <1>t DEF DeleteRow
  <2> QED
    BY <2>1, <1>quiet
<1>19. CASE Crash
  <2>1. \A h \in Content : Fewer(h)
    BY <1>19, <1>t DEF Crash
  <2> QED
    BY <2>1, <1>quiet
<1>20. CASE UNCHANGED vars
  <2>1. \A h \in Content : Fewer(h)
    BY <1>20, <1>t DEF vars
  <2> QED
    BY <2>1, <1>quiet
<1> QED
  BY <1>1, <1>2, <1>3, <1>4, <1>5, <1>6, <1>7, <1>8, <1>9, <1>10, <1>11, <1>12, <1>13,
     <1>14, <1>15, <1>16, <1>17, <1>18, <1>19, <1>20
  DEF Next, Step, UploadStep, DeleteStep, Finished

LEMMA StepKept == CopiesKept /\ KeptInv /\ [Next]_vars => KeptInv'
<1> SUFFICES ASSUME CopiesKept, KeptInv, [Next]_vars PROVE KeptInv'
  OBVIOUS
<1>1. BaseInv' /\ FreshInv' /\ TargetInv' /\ CountInv' /\ TargetKnown'
  BY StepBase, StepOwners, StepTargets DEF KeptInv
<1>2. ASSUME OneDeletePerContent' PROVE OnceInv'
  <2>1. OneDeletePerContent
    BY <1>2, OnceBefore DEF KeptInv
  <2> QED
    BY <1>2, <2>1, StepOnce, StepCovers DEF OnceInv
<1> QED
  BY <1>1, <1>2 DEF KeptInv

LEMMA InitKept == Init => KeptInv
<1> SUFFICES ASSUME Init PROVE KeptInv
  OBVIOUS
<1>1. BaseInv /\ FreshInv /\ TargetInv /\ CountInv
  BY InitAccount DEF AccountInv
<1>2. TargetKnown
  BY DEF Init, TargetKnown
<1>3. FileTaken /\ DuplicateStays /\ FirstKeepsRow /\ DeleteKeepsRow /\ BytesOwned
  BY DEF Init, FileTaken, DuplicateStays, FirstKeepsRow, DeleteKeepsRow, BytesOwned,
         PathRead, Cleaning
<1>4. OwnersCovered
  <2>1. ASSUME NEW h \in Content PROVE Owners(h) = {}
    BY ContentAssumption DEF Init, Owners, Holders, Attaching
  <2> QED
    BY <2>1, FS_EmptySet DEF Init, OwnersCovered
<1> QED
  BY <1>1, <1>2, <1>3, <1>4 DEF KeptInv, OnceInv

LEMMA KeptNoStray == KeptInv => NoStrayBlob
BY DEF KeptInv, OnceInv, BytesOwned, Unnamed, NoStrayBlob

\* Once no request runs, every blob is named by a row, whatever crashed and whatever was
\* refused on the way, for a content that is deleted once (service.Upload and DeleteFile,
\* the removals each of them owes).
THEOREM NoStrayBlobHolds == ASSUME CopiesKept PROVE Spec => []NoStrayBlob
<1>1. KeptInv /\ [Next]_vars => KeptInv'
  BY StepKept
<1> QED
  BY <1>1, InitKept, KeptNoStray, PTL DEF Spec

=============================================================================
