------------------------ MODULE StorageServiceProofs ------------------------
(* Proofs about StorageService, checked by TLAPS. *)
EXTENDS StorageServiceInv, FiniteSetTheorems, TLAPS

USE DEF Calls, UploadCalls, DeleteCalls, Final, Active, Uploading, Deleting

LEMMA InitBase == Init => BaseInv
  BY NullAssumption, ContentAssumption, RequestAssumption
  DEF Init, BaseInv, TypeOK, LocalsInv, FileInv, RowInv, CopyInv, HashRead,
      PathRead, RowExists

LEMMA StepBase == BaseInv /\ [Next]_vars => BaseInv'
  <1> SUFFICES ASSUME BaseInv, [Next]_vars PROVE BaseInv'
    OBVIOUS
  <1> USE NullAssumption, ContentAssumption, RequestAssumption
      DEF BaseInv, TypeOK, LocalsInv, FileInv, RowInv, CopyInv, HashRead,
          PathRead, RowExists, tables, locals, Goto, Answer, Rejects
  <1>1. ASSUME NEW r \in Request, NEW c \in Content, StartUpload(r, c)
        PROVE  BaseInv'
    BY <1>1 DEF StartUpload
  <1>2. ASSUME NEW r \in Request, NEW f \in Request, StartDelete(r, f)
        PROVE  BaseInv'
    BY <1>2 DEF StartDelete
  <1>3. ASSUME NEW r \in Request, Put(r) PROVE BaseInv'
    BY <1>3 DEF Put, PutBlob
  <1>4. ASSUME NEW r \in Request, FindDuplicate(r) PROVE BaseInv'
    BY <1>4 DEF FindDuplicate
  <1>5. ASSUME NEW r \in Request, DropCopy(r) PROVE BaseInv'
    BY <1>5 DEF DropCopy, RemoveBlob
  <1>6. ASSUME NEW r \in Request, Increment(r) PROVE BaseInv'
    BY <1>6 DEF Increment, IncrementStorageRef
  <1>7. ASSUME NEW r \in Request, AttachFile(r) PROVE BaseInv'
    BY <1>7 DEF AttachFile, CreateFileReference
  <1>8. ASSUME NEW r \in Request, UndoIncrement(r) PROVE BaseInv'
    BY <1>8 DEF UndoIncrement, DecrementStorageRef
  <1>9. ASSUME NEW r \in Request, InsertStorage(r) PROVE BaseInv'
    BY <1>9 DEF InsertStorage, CreateStorage
  <1>10. ASSUME NEW r \in Request, CreateFile(r) PROVE BaseInv'
    BY <1>10 DEF CreateFile, CreateFileReference
  <1>11. ASSUME NEW r \in Request, CleanUpRow(r) PROVE BaseInv'
    BY <1>11 DEF CleanUpRow, DeleteStorage, Deletable, Referenced
  <1>12. ASSUME NEW r \in Request, CleanUpBlob(r) PROVE BaseInv'
    BY <1>12 DEF CleanUpBlob, RemoveBlob
  <1>13. ASSUME NEW r \in Request, FindHash(r) PROVE BaseInv'
    BY <1>13 DEF FindHash
  <1>14. ASSUME NEW r \in Request, DeleteFile(r) PROVE BaseInv'
    BY <1>14 DEF DeleteFile, DeleteByID
  <1>15. ASSUME NEW r \in Request, Decrement(r) PROVE BaseInv'
    BY <1>15 DEF Decrement, DecrementStorageRef
  <1>16. ASSUME NEW r \in Request, FindRow(r) PROVE BaseInv'
    BY <1>16 DEF FindRow
  <1>17. ASSUME NEW r \in Request, DeleteBlob(r) PROVE BaseInv'
    BY <1>17 DEF DeleteBlob, RemoveBlob
  <1>18. ASSUME NEW r \in Request, DeleteRow(r) PROVE BaseInv'
    BY <1>18 DEF DeleteRow, DeleteStorage, Deletable, Referenced
  <1>19. CASE Crash
    BY <1>19 DEF Crash
  <1>20. CASE UNCHANGED vars
    BY <1>20 DEF vars
  <1> QED
    BY <1>1, <1>2, <1>3, <1>4, <1>5, <1>6, <1>7, <1>8, <1>9, <1>10, <1>11,
       <1>12, <1>13, <1>14, <1>15, <1>16, <1>17, <1>18, <1>19, <1>20
    DEF Next, Step, UploadStep, DeleteStep, Finished

-----------------------------------------------------------------------------
LEMMA HoldersFinite ==
  ASSUME NEW h \in Content
  PROVE  /\ IsFiniteSet(Holders(h))
         /\ Cardinality(Holders(h)) \in Nat
         /\ Holders(h) # {} => Cardinality(Holders(h)) >= 1
  <1>1. Holders(h) \subseteq Request
    BY DEF Holders
  <1>2. IsFiniteSet(Holders(h))
    BY <1>1, RequestAssumption, FS_Subset
  <1>3. Cardinality(Holders(h)) \in Nat
    BY <1>2, FS_CardinalityType
  <1>4. Cardinality(Holders(h)) = 0 <=> Holders(h) = {}
    BY <1>2, FS_EmptySet
  <1> QED
    BY <1>2, <1>3, <1>4

\* Who holds a reference to a content keeps its row and its count alive.
LEMMA HolderCounts ==
  ASSUME SafeInv
  PROVE  \A h \in Content, f \in Request :
             f \in Holders(h) => RowExists(h) /\ reference_count[h] >= 1
  <1> SUFFICES ASSUME NEW h \in Content, NEW f \in Holders(h)
               PROVE  RowExists(h) /\ reference_count[h] >= 1
    OBVIOUS
  <1>1. reference_count[h] \in Int /\ reference_count[h] >= Cardinality(Holders(h))
    BY DEF SafeInv, ReferencesCovered, BaseInv, TypeOK
  <1>2. reference_count[h] >= 1
    BY <1>1, HoldersFinite
  <1> QED
    BY <1>2 DEF SafeInv, CountInv

LEMMA StepShape ==
  ASSUME Tolerated, SafeInv, [Next]_vars
  PROVE  DisciplineInv' /\ DeleteInv' /\ UploadInv' /\ BlobInv' /\ CountInv'
  <1> DEFINE Shape == DisciplineInv /\ DeleteInv /\ UploadInv /\ BlobInv /\ CountInv
  <1>0. \A h \in Content, f \in Request :
            f \in Holders(h) => RowExists(h) /\ reference_count[h] >= 1
    BY HolderCounts
  <1>b. BaseInv /\ Shape
    BY DEF SafeInv
  <1> SUFFICES Shape'
    OBVIOUS
  <1> USE <1>0, <1>b, NullAssumption, ContentAssumption, RequestAssumption
      DEF Tolerated, BaseInv, TypeOK, LocalsInv, FileInv, RowInv, CopyInv, HashRead,
          PathRead, RowExists, tables, locals, Goto, Answer, Rejects, Holders,
          Attaching, Cleaning,
          DisciplineInv, DeleteInv, UploadInv, BlobInv, CountInv
  <1>1. ASSUME NEW r \in Request, NEW c \in Content, StartUpload(r, c)
        PROVE  Shape'
    BY <1>1 DEF StartUpload, MayUpload, Subject
  <1>2. ASSUME NEW r \in Request, NEW f \in Request, StartDelete(r, f)
        PROVE  Shape'
    BY <1>2 DEF StartDelete, MayDelete, Subject
  <1>3. ASSUME NEW r \in Request, Put(r) PROVE Shape'
    BY SMTT(20), <1>3 DEF Put, PutBlob
  <1>4. ASSUME NEW r \in Request, FindDuplicate(r) PROVE Shape'
    BY <1>4 DEF FindDuplicate
  <1>5. ASSUME NEW r \in Request, DropCopy(r) PROVE Shape'
    BY <1>5 DEF DropCopy, RemoveBlob
  <1>6. ASSUME NEW r \in Request, Increment(r) PROVE Shape'
    BY SMTT(20), <1>6 DEF Increment, IncrementStorageRef
  <1>7. ASSUME NEW r \in Request, AttachFile(r) PROVE Shape'
    <2>1. DisciplineInv'
      <3>1. \A q \in Request : /\ Uploading(q)' => Uploading(q)
                               /\ Deleting(q)' => Deleting(q)
        BY <1>7 DEF AttachFile
      <3>2. body' = body /\ target' = target
        BY <1>7 DEF AttachFile
      <3> QED
        BY <3>1, <3>2
    <2>2. DeleteInv'
      BY <1>7 DEF AttachFile, CreateFileReference
    <2>3. UploadInv'
      BY <1>7 DEF AttachFile, CreateFileReference
    <2>4. BlobInv'
      BY <1>7 DEF AttachFile, CreateFileReference
    <2>5. CountInv'
      BY <1>7 DEF AttachFile, CreateFileReference
    <2> QED
      BY <2>1, <2>2, <2>3, <2>4, <2>5
  <1>8. ASSUME NEW r \in Request, UndoIncrement(r) PROVE Shape'
    BY <1>8 DEF UndoIncrement, DecrementStorageRef
  <1>9. ASSUME NEW r \in Request, InsertStorage(r) PROVE Shape'
    <2>1. DisciplineInv'
      BY SMTT(20), <1>9 DEF InsertStorage, CreateStorage
    <2>2. DeleteInv'
      BY <1>9 DEF InsertStorage, CreateStorage
    <2>3. UploadInv'
      BY <1>9 DEF InsertStorage, CreateStorage
    <2>4. BlobInv'
      BY <1>9 DEF InsertStorage, CreateStorage
    <2>5. CountInv'
      BY <1>9 DEF InsertStorage, CreateStorage
    <2> QED
      BY <2>1, <2>2, <2>3, <2>4, <2>5
  <1>10. ASSUME NEW r \in Request, CreateFile(r) PROVE Shape'
    BY <1>10 DEF CreateFile, CreateFileReference
  <1>11. ASSUME NEW r \in Request, CleanUpRow(r) PROVE Shape'
    BY <1>11 DEF CleanUpRow
  <1>12. ASSUME NEW r \in Request, CleanUpBlob(r) PROVE Shape'
    BY <1>12 DEF CleanUpBlob, RemoveBlob
  <1>13. ASSUME NEW r \in Request, FindHash(r) PROVE Shape'
    <2>1. DisciplineInv'
      BY SMTT(20), <1>13 DEF FindHash
    <2>2. DeleteInv'
      BY <1>13 DEF FindHash
    <2>3. UploadInv'
      BY <1>13 DEF FindHash
    <2>4. BlobInv'
      BY <1>13 DEF FindHash
    <2>5. CountInv'
      BY <1>13 DEF FindHash
    <2> QED
      BY <2>1, <2>2, <2>3, <2>4, <2>5
  <1>14. ASSUME NEW r \in Request, DeleteFile(r) PROVE Shape'
    <2>1. DisciplineInv'
      BY <1>14 DEF DeleteFile, DeleteByID
    <2>2. DeleteInv'
      BY <1>14 DEF DeleteFile, DeleteByID
    <2>3. UploadInv'
      BY <1>14 DEF DeleteFile, DeleteByID
    <2>4. BlobInv'
      BY <1>14 DEF DeleteFile, DeleteByID
    <2>5. CountInv'
      BY <1>14 DEF DeleteFile, DeleteByID
    <2> QED
      BY <2>1, <2>2, <2>3, <2>4, <2>5
  <1>15. ASSUME NEW r \in Request, Decrement(r) PROVE Shape'
    <2>1. DisciplineInv'
      BY SMTT(20), <1>15 DEF Decrement, DecrementStorageRef, NewRefCount
    <2>2. DeleteInv'
      BY <1>15 DEF Decrement, DecrementStorageRef, NewRefCount
    <2>3. UploadInv'
      BY <1>15 DEF Decrement, DecrementStorageRef, NewRefCount
    <2>4. BlobInv'
      BY <1>15 DEF Decrement, DecrementStorageRef, NewRefCount
    <2>5. CountInv'
      BY <1>15 DEF Decrement, DecrementStorageRef, NewRefCount
    <2> QED
      BY <2>1, <2>2, <2>3, <2>4, <2>5
  <1>16. ASSUME NEW r \in Request, FindRow(r) PROVE Shape'
    BY SMTT(20), <1>16 DEF FindRow
  <1>17. ASSUME NEW r \in Request, DeleteBlob(r) PROVE Shape'
    BY SMTT(20), <1>17 DEF DeleteBlob, RemoveBlob
  <1>18. ASSUME NEW r \in Request, DeleteRow(r) PROVE Shape'
    BY <1>18 DEF DeleteRow, DeleteStorage, Deletable, Referenced
  <1>19. CASE Crash
    BY <1>19 DEF Crash
  <1>20. CASE UNCHANGED vars
    BY <1>20 DEF vars
  <1> QED
    BY <1>1, <1>2, <1>3, <1>4, <1>5, <1>6, <1>7, <1>8, <1>9, <1>10, <1>11,
       <1>12, <1>13, <1>14, <1>15, <1>16, <1>17, <1>18, <1>19, <1>20
    DEF Next, Step, UploadStep, DeleteStep, Finished

\* A step gives up a reference no earlier than its holder, and takes one no
\* later.
LEMMA StepCovered ==
  ASSUME Tolerated, SafeInv, [Next]_vars
  PROVE  ReferencesCovered'
  <1> DEFINE Grows(h) == reference_count'[h] >= reference_count[h]
             Covered(h) == reference_count[h] >= Cardinality(Holders(h))
  <1>b. BaseInv /\ DisciplineInv /\ DeleteInv /\ UploadInv
    BY DEF SafeInv
  <1>t. \A h \in Content : reference_count[h] \in Int /\ reference_count'[h] \in Int
    BY StepBase, <1>b DEF BaseInv, TypeOK
  <1>f. \A h \in Content : IsFiniteSet(Holders(h)) /\ Cardinality(Holders(h)) \in Nat
    BY HoldersFinite
  <1>c. \A h \in Content : Covered(h)
    BY DEF SafeInv, ReferencesCovered
  <1>p. \A h \in Content, f \in Request :
            f \in Holders(h) => RowExists(h) /\ reference_count[h] >= 1
    BY HolderCounts
  <1>keep. \A h \in Content : Holders(h)' \subseteq Holders(h) /\ Grows(h) => Covered(h)'
    <2> SUFFICES ASSUME NEW h \in Content, Holders(h)' \subseteq Holders(h), Grows(h)
                 PROVE  Covered(h)'
      OBVIOUS
    <2>1. Cardinality(Holders(h)') <= Cardinality(Holders(h))
      BY <1>f, FS_Subset
    <2>2. Cardinality(Holders(h)') \in Nat
      BY <1>f, FS_Subset, FS_CardinalityType
    <2> QED
      BY <2>1, <2>2, <1>t, <1>f, <1>c
  <1>add. \A h \in Content, r \in Request :
             /\ Holders(h)' \subseteq Holders(h) \cup {r}
             /\ reference_count'[h] = reference_count[h] + 1
             => Covered(h)'
    <2> SUFFICES ASSUME NEW h \in Content, NEW r \in Request,
                        Holders(h)' \subseteq Holders(h) \cup {r},
                        reference_count'[h] = reference_count[h] + 1
                 PROVE  Covered(h)'
      OBVIOUS
    <2>1. /\ IsFiniteSet(Holders(h) \cup {r})
          /\ Cardinality(Holders(h) \cup {r}) <= Cardinality(Holders(h)) + 1
          /\ Cardinality(Holders(h) \cup {r}) \in Nat
      BY <1>f, FS_AddElement, FS_CardinalityType
    <2>2. /\ Cardinality(Holders(h)') <= Cardinality(Holders(h) \cup {r})
          /\ Cardinality(Holders(h)') \in Nat
      BY <2>1, FS_Subset, FS_CardinalityType
    <2> QED
      BY <2>1, <2>2, <1>t, <1>f, <1>c
  <1>drop. \A h \in Content, f \in Request :
             /\ f \in Holders(h)
             /\ Holders(h)' \subseteq Holders(h) \ {f}
             /\ reference_count'[h] = reference_count[h] - 1
             => Covered(h)'
    <2> SUFFICES ASSUME NEW h \in Content, NEW f \in Request,
                        f \in Holders(h),
                        Holders(h)' \subseteq Holders(h) \ {f},
                        reference_count'[h] = reference_count[h] - 1
                 PROVE  Covered(h)'
      OBVIOUS
    <2>1. /\ IsFiniteSet(Holders(h) \ {f})
          /\ Cardinality(Holders(h) \ {f}) = Cardinality(Holders(h)) - 1
          /\ Cardinality(Holders(h) \ {f}) \in Nat
      BY <1>f, FS_RemoveElement, FS_CardinalityType
    <2>2. /\ Cardinality(Holders(h)') <= Cardinality(Holders(h) \ {f})
          /\ Cardinality(Holders(h)') \in Nat
      BY <2>1, FS_Subset, FS_CardinalityType
    <2> QED
      BY <2>1, <2>2, <1>t, <1>f, <1>c
  <1> DEFINE Quiet == \A h \in Content : Holders(h)' \subseteq Holders(h) /\ Grows(h)
  <1>q. ASSUME Quiet PROVE ReferencesCovered'
    BY <1>q, <1>keep DEF ReferencesCovered
  <1>qa. ASSUME NEW k \in Content, NEW r \in Request,
                \A h \in Content : h # k => Holders(h)' \subseteq Holders(h) /\ Grows(h),
                Holders(k)' \subseteq Holders(k) \cup {r},
                reference_count'[k] = reference_count[k] + 1
         PROVE  ReferencesCovered'
    BY <1>qa, <1>keep, <1>add DEF ReferencesCovered
  <1>qd. ASSUME NEW k \in Content, NEW f \in Holders(k), f \in Request,
                \A h \in Content : h # k => Holders(h)' \subseteq Holders(h) /\ Grows(h),
                Holders(k)' \subseteq Holders(k) \ {f},
                reference_count'[k] = reference_count[k] - 1
         PROVE  ReferencesCovered'
    BY <1>qd, <1>keep, <1>drop DEF ReferencesCovered
  <1> USE <1>b, NullAssumption, ContentAssumption, RequestAssumption
      DEF Tolerated, BaseInv, TypeOK, LocalsInv, FileInv, HashRead,
          PathRead, RowExists, tables, locals, Goto, Answer, Rejects, Holders,
          Attaching, Cleaning, DisciplineInv, DeleteInv, UploadInv
  <1>1. ASSUME NEW r \in Request, NEW c \in Content, StartUpload(r, c) PROVE ReferencesCovered'
    <2>1. Quiet
      BY <1>1, <1>t DEF StartUpload
    <2> QED
      BY <2>1, <1>q
  <1>2. ASSUME NEW r \in Request, NEW f \in Request, StartDelete(r, f) PROVE ReferencesCovered'
    <2>1. Quiet
      BY <1>2, <1>t DEF StartDelete
    <2> QED
      BY <2>1, <1>q
  <1>3. ASSUME NEW r \in Request, Put(r) PROVE ReferencesCovered'
    <2>1. Quiet
      BY <1>3, <1>t DEF Put
    <2> QED
      BY <2>1, <1>q
  <1>4. ASSUME NEW r \in Request, FindDuplicate(r) PROVE ReferencesCovered'
    <2>1. Quiet
      BY <1>4, <1>t DEF FindDuplicate
    <2> QED
      BY <2>1, <1>q
  <1>5. ASSUME NEW r \in Request, DropCopy(r) PROVE ReferencesCovered'
    <2>1. Quiet
      BY <1>5, <1>t DEF DropCopy
    <2> QED
      BY <2>1, <1>q
  <1>6. ASSUME NEW r \in Request, Increment(r) PROVE ReferencesCovered'
    <2>1. CASE Rejects(r) /\ Goto(r, "err") /\ UNCHANGED reference_count
      <3>1. Quiet
        BY <1>6, <2>1, <1>t DEF Increment
      <3> QED
        BY <3>1, <1>q
    <2>2. CASE IncrementStorageRef(body[r])
      <3>0. PICK k \in Content : k = body[r]
        BY <1>6 DEF Increment
      <3>1. \A h \in Content : h # k => Holders(h)' \subseteq Holders(h) /\ Grows(h)
        BY <1>6, <3>0, <2>2, <1>t DEF Increment, IncrementStorageRef
      <3>2. /\ Holders(k)' \subseteq Holders(k) \cup {r}
            /\ reference_count'[k] = reference_count[k] + 1
        BY <1>6, <3>0, <2>2, <1>t DEF Increment, IncrementStorageRef
      <3> HIDE DEF Holders
      <3> QED
        BY <3>1, <3>2, <1>qa
    <2> QED
      BY <1>6, <2>1, <2>2 DEF Increment
  <1>7. ASSUME NEW r \in Request, AttachFile(r) PROVE ReferencesCovered'
    <2>1. Quiet
      BY <1>7, <1>t DEF AttachFile, CreateFileReference
    <2> QED
      BY <2>1, <1>q
  <1>8. ASSUME NEW r \in Request, UndoIncrement(r) PROVE ReferencesCovered'
    <2>1. CASE Rejects(r) /\ UNCHANGED reference_count
      <3>1. Quiet
        BY <1>8, <2>1, <1>t DEF UndoIncrement
      <3> QED
        BY <3>1, <1>q
    <2>2. CASE DecrementStorageRef(body[r])
      <3>0. PICK k \in Content : k = body[r]
        BY <1>8 DEF UndoIncrement
      <3>1. \A h \in Content : h # k => Holders(h)' \subseteq Holders(h) /\ Grows(h)
        BY <1>8, <3>0, <2>2, <1>t DEF UndoIncrement, DecrementStorageRef
      <3>2. r \in Holders(k) /\ RowExists(k)
        BY <1>8, <3>0, <1>p DEF UndoIncrement
      <3>3. files[r] # k
        BY <1>8, <3>0 DEF UndoIncrement
      <3>4. /\ Holders(k)' \subseteq Holders(k) \ {r}
            /\ reference_count'[k] = reference_count[k] - 1
        BY <1>8, <3>0, <2>2, <3>2, <3>3, <1>t DEF UndoIncrement, DecrementStorageRef
      <3> HIDE DEF Holders
      <3> QED
        BY <3>1, <3>2, <3>4, <1>qd
    <2> QED
      BY <1>8, <2>1, <2>2 DEF UndoIncrement
  <1>9. ASSUME NEW r \in Request, InsertStorage(r) PROVE ReferencesCovered'
    <2>1. CASE UNCHANGED <<storage_path, reference_count>> /\ Goto(r, "CleanUpBlob")
      <3>1. Quiet
        BY <1>9, <2>1, <1>t DEF InsertStorage
      <3> QED
        BY <3>1, <1>q
    <2>2. CASE CreateStorage(body[r], r)
      <3>0. PICK k \in Content : k = body[r]
        BY <1>9 DEF InsertStorage
      <3>1. \A h \in Content : h # k => Holders(h)' \subseteq Holders(h) /\ Grows(h)
        BY <1>9, <3>0, <2>2, <1>t DEF InsertStorage, CreateStorage
      <3>2. reference_count[k] = 0
        BY <1>9, <3>0, <2>2 DEF InsertStorage, CreateStorage, SafeInv, CountInv
      <3>3. /\ Holders(k)' \subseteq Holders(k) \cup {r}
            /\ reference_count'[k] = reference_count[k] + 1
        BY <1>9, <3>0, <2>2, <3>2, <1>t DEF InsertStorage, CreateStorage
      <3> HIDE DEF Holders
      <3> QED
        BY <3>1, <3>2, <3>3, <1>qa
    <2> QED
      BY <1>9, <2>1, <2>2 DEF InsertStorage
  <1>10. ASSUME NEW r \in Request, CreateFile(r) PROVE ReferencesCovered'
    <2>1. Quiet
      BY <1>10, <1>t DEF CreateFile, CreateFileReference
    <2> QED
      BY <2>1, <1>q
  <1>11. ASSUME NEW r \in Request, CleanUpRow(r) PROVE ReferencesCovered'
    <2>1. Quiet
      BY <1>11, <1>t DEF CleanUpRow
    <2> QED
      BY <2>1, <1>q
  <1>12. ASSUME NEW r \in Request, CleanUpBlob(r) PROVE ReferencesCovered'
    <2>1. Quiet
      BY <1>12, <1>t DEF CleanUpBlob
    <2> QED
      BY <2>1, <1>q
  <1>13. ASSUME NEW r \in Request, FindHash(r) PROVE ReferencesCovered'
    <2>1. Quiet
      BY <1>13, <1>t DEF FindHash
    <2> QED
      BY <2>1, <1>q
  <1>14. ASSUME NEW r \in Request, DeleteFile(r) PROVE ReferencesCovered'
    <2>1. Quiet
      BY <1>14, <1>t DEF DeleteFile, DeleteByID
    <2> QED
      BY <2>1, <1>q
  <1>15. ASSUME NEW r \in Request, Decrement(r) PROVE ReferencesCovered'
    <2>0. PICK f \in Request, k \in Content : f = target[r] /\ k = hash[r]
      BY <1>15 DEF Decrement
    <2>1. files[f] = NULL /\ body[f] = k
      BY <1>15, <2>0 DEF Decrement
    <2>2. f \in Holders(k) /\ RowExists(k)
      BY <1>15, <2>0, <2>1, <1>p DEF Decrement
    <2>3. pc[f] \notin Attaching
      BY <1>15, <2>0, <2>1 DEF Decrement
    <2>4. DecrementStorageRef(k)
      BY <1>15, <2>0 DEF Decrement
    <2>5. \A h \in Content : h # k => Holders(h)' \subseteq Holders(h) /\ Grows(h)
      BY <1>15, <2>0, <2>4, <1>t DEF Decrement, DecrementStorageRef
    <2>6. reference_count'[k] = reference_count[k] - 1
      BY <2>0, <2>1, <2>2, <2>4, <1>t DEF DecrementStorageRef
    <2>7. Holders(k)' \subseteq Holders(k) \ {f}
      <3>1. Holders(k)' \subseteq Holders(k)
        BY <1>15, <2>0, <2>1 DEF Decrement
      <3>2. \A d \in Request : pc[d] = "Decrement" /\ d # r => target[d] # f
        BY <1>15, <2>0 DEF Decrement
      <3>3. f \notin Holders(k)'
        BY <1>15, <2>0, <2>1, <2>3, <3>2 DEF Decrement
      <3> QED
        BY <3>1, <3>3
    <2> HIDE DEF Holders
    <2> QED
      BY <2>1, <2>2, <2>5, <2>6, <2>7, <1>qd
  <1>16. ASSUME NEW r \in Request, FindRow(r) PROVE ReferencesCovered'
    <2>1. Quiet
      BY <1>16, <1>t DEF FindRow
    <2> QED
      BY <2>1, <1>q
  <1>17. ASSUME NEW r \in Request, DeleteBlob(r) PROVE ReferencesCovered'
    <2>1. Quiet
      BY <1>17, <1>t DEF DeleteBlob
    <2> QED
      BY <2>1, <1>q
  <1>18. ASSUME NEW r \in Request, DeleteRow(r) PROVE ReferencesCovered'
    <2>1. Quiet
      BY <1>18, <1>t DEF DeleteRow
    <2> QED
      BY <2>1, <1>q
  <1>19. CASE Crash
    <2>1. Quiet
      BY <1>19, <1>t DEF Crash
    <2> QED
      BY <2>1, <1>q
  <1>20. CASE UNCHANGED vars
    <2>1. Quiet
      BY <1>20, <1>t DEF vars
    <2> QED
      BY <2>1, <1>q
  <1> QED
    BY <1>1, <1>2, <1>3, <1>4, <1>5, <1>6, <1>7, <1>8, <1>9, <1>10, <1>11,
       <1>12, <1>13, <1>14, <1>15, <1>16, <1>17, <1>18, <1>19, <1>20
    DEF Next, Step, UploadStep, DeleteStep, Finished

-----------------------------------------------------------------------------
(* The theorems. *)

LEMMA BaseInvariant == Spec => []BaseInv
  <1> QED
    BY InitBase, StepBase, PTL DEF Spec

\* Every variable keeps its type in every environment: no failure, overlap or
\* crash makes Upload or Delete write a key or a path that is not one.
THEOREM TypeCorrect == Spec => []TypeOK
  <1>1. BaseInv => TypeOK
    BY DEF BaseInv
  <1> QED
    BY <1>1, BaseInvariant, PTL

\* In every environment the row of a listed file leads to the bytes its upload
\* sent, or to none: Upload's fresh paths and the two tables' constraints.
THEOREM NeverWrongBytesHolds == Spec => []NeverWrongBytes
  <1>1. BaseInv => NeverWrongBytes
    BY DEF BaseInv, TypeOK, FileInv, RowInv, NeverWrongBytes, RowExists
  <1> QED
    BY <1>1, BaseInvariant, PTL

LEMMA StepKeepsPath ==
  ASSUME BaseInv, BaseInv', [Next]_vars,
         NEW f \in Request, files[f] # NULL, files'[f] # NULL
  PROVE  storage_path'[files'[f]] = storage_path[files[f]]
  <1>1. PICK h \in Content : h = files[f] /\ RowExists(h) /\ body[f] = h
    BY DEF BaseInv, TypeOK, FileInv
  <1>2. Referenced(h)
    BY <1>1 DEF Referenced
  <1>3. body'[f] = body[f]
    BY <1>1, ContentAssumption
    DEF BaseInv, TypeOK, LocalsInv, Next, vars, tables, locals, Step, UploadStep,
        DeleteStep, Finished, StartUpload, StartDelete, Put, FindDuplicate,
        DropCopy, Increment, AttachFile, UndoIncrement, InsertStorage,
        CreateFile, CleanUpRow, CleanUpBlob, FindHash, DeleteFile, Decrement,
        FindRow, DeleteBlob, DeleteRow, Crash
  <1>4. files'[f] = h
    BY <1>1, <1>3 DEF BaseInv, FileInv
  <1>5. storage_path'[h] = storage_path[h]
    BY <1>1, <1>2
    DEF BaseInv, TypeOK, Next, vars, tables, locals, Step, UploadStep,
        DeleteStep, Finished, StartUpload, StartDelete, Put, FindDuplicate,
        DropCopy, Increment, AttachFile, UndoIncrement, InsertStorage,
        CreateStorage, CreateFile, CleanUpRow, CleanUpBlob, FindHash, DeleteFile,
        Decrement, FindRow, DeleteBlob, DeleteRow, Crash, DeleteStorage, Deletable
  <1> QED
    BY <1>1, <1>4, <1>5

\* In every environment a listed file keeps its path: the primary key of storage
\* and the RESTRICT of files.
THEOREM PathOfFileStableHolds == Spec => PathOfFileStable
  <1> DEFINE Keeps == \A f \in Request : files[f] # NULL /\ files'[f] # NULL =>
                          storage_path'[files'[f]] = storage_path[files[f]]
  <1>1. BaseInv /\ BaseInv' /\ [Next]_vars => [Keeps]_vars
    BY StepKeepsPath
  <1> QED
    BY <1>1, BaseInvariant, PTL DEF Spec, PathOfFileStable

LEMMA InitSafe == Init => SafeInv
  <1> SUFFICES ASSUME Init PROVE SafeInv
    OBVIOUS
  <1>1. BaseInv
    BY InitBase
  <1>2. \A h \in Content : Holders(h) = {}
    BY ContentAssumption DEF Init, Holders, Attaching
  <1>3. ReferencesCovered
    BY <1>2, FS_EmptySet DEF Init, ReferencesCovered
  <1> QED
    BY <1>1, <1>3
    DEF SafeInv, Init, DisciplineInv, DeleteInv, UploadInv, BlobInv, CountInv,
        HashRead, PathRead, Cleaning, RowExists

LEMMA StepSafe == Tolerated /\ SafeInv /\ [Next]_vars => SafeInv'
  <1> SUFFICES ASSUME Tolerated, SafeInv, [Next]_vars PROVE SafeInv'
    OBVIOUS
  <1>1. BaseInv'
    BY StepBase DEF SafeInv
  <1> QED
    BY <1>1, StepShape, StepCovered DEF SafeInv

LEMMA SafeInvariant == ASSUME Tolerated PROVE Spec => []SafeInv
  <1>1. SafeInv /\ [Next]_vars => SafeInv'
    BY StepSafe
  <1> QED
    BY <1>1, InitSafe, PTL DEF Spec

\* With overlaps shut out and only space-costing failures, the count covers every
\* reference at every step.
THEOREM ReferencesCoveredHolds == ASSUME Tolerated PROVE Spec => []ReferencesCovered
  <1>1. SafeInv => ReferencesCovered
    BY DEF SafeInv
  <1> QED
    BY <1>1, SafeInvariant, PTL

LEMMA ListedIsStored == ASSUME SafeInv PROVE NoDanglingFile
  <1> SUFFICES ASSUME NEW f \in Request, files[f] # NULL
               PROVE  Stored(files[f])
    BY DEF NoDanglingFile
  <1>1. PICK h \in Content : h = files[f] /\ RowExists(h)
    BY DEF SafeInv, BaseInv, TypeOK, FileInv
  <1>2. f \in Holders(h)
    BY <1>1 DEF Holders
  <1>3. reference_count[h] >= 1
    BY <1>2, HolderCounts
  <1>4. ~ \E d \in Request : pc[d] = "DeleteRow" /\ hash[d] = h
    BY <1>3 DEF SafeInv, DeleteInv, Cleaning
  <1>5. blobs[storage_path[h]] = h
    BY <1>1, <1>4 DEF SafeInv, BlobInv
  <1> QED
    BY <1>1, <1>5 DEF Stored

\* In the same environment every listed file can be downloaded: Delete's clean-up
\* never takes a blob that a file still needs.
THEOREM NoDanglingFileHolds == ASSUME Tolerated PROVE Spec => []NoDanglingFile
  <1>1. SafeInv => NoDanglingFile
    BY ListedIsStored
  <1> QED
    BY <1>1, SafeInvariant, PTL

-----------------------------------------------------------------------------
(* The service implements the catalog. *)

LEMMA InitCatalog == Init => Catalog!CatalogInit
  BY DEF Init, Catalog!CatalogInit, StoredContents, Stored, RowExists

LEMMA StepCatalog ==
  ASSUME Tolerated, SafeInv, [Next]_vars
  PROVE  [Catalog!CatalogNext]_(Catalog!catalogVars)
  <1> DEFINE Invisible == files' = files /\ StoredContents' = StoredContents
             Visible == Catalog!CatalogNext \/ Invisible
  <1>b. BaseInv /\ DeleteInv /\ UploadInv /\ BlobInv
    BY DEF SafeInv
  <1>p. \A h \in Content, f \in Request :
            f \in Holders(h) => RowExists(h) /\ reference_count[h] >= 1
    BY HolderCounts
  \* The rows and the blobs they lead to decide what is stored.
  <1>same. ASSUME files' = files,
                  \A h \in Content : Stored(h)' <=> Stored(h)
           PROVE  Visible
    BY <1>same DEF StoredContents
  <1>reclaim. ASSUME NEW c \in Content, files' = files,
                     \A f \in Request : files[f] # c,
                     ~ Stored(c)',
                     \A h \in Content : h # c => (Stored(h)' <=> Stored(h))
              PROVE  Visible
    <2>1. StoredContents' = StoredContents \ {c}
      BY <1>reclaim DEF StoredContents
    <2>2. Catalog!Reclaim(c)
      BY <1>reclaim, <2>1 DEF Catalog!Reclaim, Catalog!Used
    <2> QED
      BY <2>2 DEF Catalog!CatalogNext
  <1> DEFINE StoresSame == storage_path' = storage_path /\ blobs' = blobs
  <1>stores. ASSUME StoresSame PROVE StoredContents' = StoredContents
    BY <1>stores DEF StoredContents, Stored, RowExists
  <1>quiet. ASSUME files' = files, StoresSame PROVE Visible
    BY <1>quiet, <1>stores
  \* A holder of a content finds its bytes.
  <1>held. ASSUME NEW f \in Request, NEW h \in Content, f \in Holders(h)
           PROVE  h \in StoredContents
    <2>1. RowExists(h) /\ reference_count[h] >= 1
      BY <1>held, <1>p
    <2> QED
      BY <2>1, <1>b DEF DeleteInv, BlobInv, Cleaning, StoredContents, Stored
  <1>publish. ASSUME NEW r \in Request, pc[r] \in {"AttachFile", "CreateFile"},
                     CreateFileReference(r, body[r]), StoresSame
              PROVE  Visible
    <2>1. PICK c \in Content : c = body[r]
      BY <1>publish, <1>b DEF BaseInv, LocalsInv
    <2>2. c \in StoredContents
      BY <1>publish, <2>1, <1>held DEF Holders, Attaching
    <2>3. files[r] = NULL
      BY <1>publish, <1>b DEF UploadInv
    <2>4. Catalog!Publish(r, c)
      BY <1>publish, <2>1, <2>2, <2>3, <1>stores DEF CreateFileReference, Catalog!Publish
    <2> QED
      BY <2>4 DEF Catalog!CatalogNext
  \* A path no row names may change without anyone seeing it.
  <1>stray. ASSUME NEW r \in Request, files' = files, storage_path' = storage_path,
                   \A p \in Request : p # r => blobs'[p] = blobs[p],
                   \A h \in Content : storage_path[h] # r
            PROVE  Visible
    <2>1. \A h \in Content : Stored(h)' <=> Stored(h)
      BY <1>stray, <1>b DEF Stored, RowExists, BaseInv, TypeOK
    <2> QED
      BY <1>stray, <2>1, <1>same
  <1> USE <1>b DEF tables, locals, Goto, Answer, Rejects
  <1>1. ASSUME NEW r \in Request, NEW c \in Content, StartUpload(r, c)
        PROVE  Visible
    BY <1>1, <1>quiet DEF StartUpload
  <1>2. ASSUME NEW r \in Request, NEW f \in Request, StartDelete(r, f)
        PROVE  Visible
    BY <1>2, <1>quiet DEF StartDelete
  <1>3. ASSUME NEW r \in Request, Put(r) PROVE Visible
    <2>1. \A h \in Content : storage_path[h] # r
      BY <1>3, RequestAssumption DEF Put, BaseInv, RowInv, RowExists
    <2>2. \A p \in Request : p # r => blobs'[p] = blobs[p]
      BY <1>3 DEF Put, PutBlob, BaseInv, TypeOK
    <2> QED
      BY <1>3, <2>1, <2>2, <1>stray DEF Put
  <1>4. ASSUME NEW r \in Request, FindDuplicate(r) PROVE Visible
    BY <1>4, <1>quiet DEF FindDuplicate
  <1>5. ASSUME NEW r \in Request, DropCopy(r) PROVE Visible
    <2>1. \A h \in Content : storage_path[h] # r
      BY <1>5 DEF DropCopy, UploadInv
    <2>2. \A p \in Request : p # r => blobs'[p] = blobs[p]
      BY <1>5 DEF DropCopy, RemoveBlob, BaseInv, TypeOK
    <2> QED
      BY <1>5, <2>1, <2>2, <1>stray DEF DropCopy
  <1>6. ASSUME NEW r \in Request, Increment(r) PROVE Visible
    BY <1>6, <1>quiet DEF Increment
  <1>7. ASSUME NEW r \in Request, AttachFile(r) PROVE Visible
    BY <1>7, <1>quiet, <1>publish DEF AttachFile
  <1>8. ASSUME NEW r \in Request, UndoIncrement(r) PROVE Visible
    BY <1>8, <1>quiet DEF UndoIncrement
  <1>9. ASSUME NEW r \in Request, InsertStorage(r) PROVE Visible
    <2>1. CASE UNCHANGED storage_path
      BY <1>9, <2>1, <1>quiet DEF InsertStorage
    <2>2. CASE CreateStorage(body[r], r)
      <3>1. PICK c \in Content : c = body[r]
        BY <1>9 DEF InsertStorage, BaseInv, LocalsInv
      <3>2. \A h \in Content : h # c => (Stored(h)' <=> Stored(h))
        BY <1>9, <2>2, <3>1 DEF InsertStorage, CreateStorage, Stored, RowExists, BaseInv, TypeOK
      <3>3. Stored(c)'
        BY <1>9, <2>2, <3>1, RequestAssumption
        DEF InsertStorage, CreateStorage, Stored, RowExists, UploadInv, BaseInv, TypeOK
      <3>4. StoredContents' = StoredContents \cup {c}
        BY <3>2, <3>3 DEF StoredContents
      <3>5. Catalog!Keep(c)
        BY <1>9, <3>4 DEF InsertStorage, Catalog!Keep
      <3> QED
        BY <3>5 DEF Catalog!CatalogNext
    <2> QED
      BY <1>9, <2>1, <2>2 DEF InsertStorage
  <1>10. ASSUME NEW r \in Request, CreateFile(r) PROVE Visible
    BY <1>10, <1>quiet, <1>publish DEF CreateFile
  <1>11. ASSUME NEW r \in Request, CleanUpRow(r) PROVE Visible
    BY <1>11 DEF CleanUpRow, UploadInv
  <1>12. ASSUME NEW r \in Request, CleanUpBlob(r) PROVE Visible
    <2>1. \A h \in Content : storage_path[h] # r
      BY <1>12 DEF CleanUpBlob, UploadInv
    <2>2. \A p \in Request : p # r => blobs'[p] = blobs[p]
      BY <1>12 DEF CleanUpBlob, RemoveBlob, BaseInv, TypeOK
    <2> QED
      BY <1>12, <2>1, <2>2, <1>stray DEF CleanUpBlob
  <1>13. ASSUME NEW r \in Request, FindHash(r) PROVE Visible
    BY <1>13, <1>quiet DEF FindHash
  <1>14. ASSUME NEW r \in Request, DeleteFile(r) PROVE Visible
    <2>1. CASE UNCHANGED files
      BY <1>14, <2>1, <1>quiet DEF DeleteFile
    <2>2. CASE DeleteByID(target[r])
      <3>1. PICK f \in Request : f = target[r]
        BY <1>14 DEF DeleteFile, BaseInv, LocalsInv
      <3>2. Catalog!Withdraw(f)
        BY <1>14, <2>2, <3>1, <1>stores DEF DeleteFile, DeleteByID, Catalog!Withdraw
      <3> QED
        BY <3>2 DEF Catalog!CatalogNext
    <2> QED
      BY <1>14, <2>1, <2>2 DEF DeleteFile
  <1>15. ASSUME NEW r \in Request, Decrement(r) PROVE Visible
    BY <1>15, <1>quiet DEF Decrement
  <1>16. ASSUME NEW r \in Request, FindRow(r) PROVE Visible
    BY <1>16, <1>quiet DEF FindRow
  <1>17. ASSUME NEW r \in Request, DeleteBlob(r) PROVE Visible
    <2>1. CASE UNCHANGED blobs
      BY <1>17, <2>1, <1>quiet DEF DeleteBlob
    <2>2. CASE RemoveBlob(found[r])
      <3>1. PICK c \in Content, p \in Request :
                c = hash[r] /\ p = found[r] /\ body[p] = c /\ reference_count[c] = 0
        BY <1>17 DEF DeleteBlob, BaseInv, LocalsInv, HashRead, PathRead, DeleteInv, Cleaning
      <3>2. \A f \in Request : files[f] # c
        BY <3>1, <1>p DEF Holders
      <3>3. \A h \in Content : h # c => (Stored(h)' <=> Stored(h))
        BY <1>17, <2>2, <3>1 DEF DeleteBlob, RemoveBlob, Stored, RowExists, BaseInv, TypeOK, RowInv
      <3>4. CASE Stored(c)' <=> Stored(c)
        BY <1>17, <3>3, <3>4, <1>same DEF DeleteBlob
      <3>5. CASE ~ (Stored(c)' <=> Stored(c))
        <4>1. ~ Stored(c)'
          BY <1>17, <2>2, <3>1, <3>5, ContentAssumption
          DEF DeleteBlob, RemoveBlob, Stored, RowExists, BaseInv, TypeOK
        <4> QED
          BY <1>17, <3>2, <3>3, <4>1, <1>reclaim DEF DeleteBlob
      <3> QED
        BY <3>4, <3>5
    <2> QED
      BY <1>17, <2>1, <2>2 DEF DeleteBlob
  <1>18. ASSUME NEW r \in Request, DeleteRow(r) PROVE Visible
    <2>1. CASE UNCHANGED storage_path
      BY <1>18, <2>1, <1>quiet DEF DeleteRow
    <2>2. CASE Deletable(hash[r]) /\ DeleteStorage(hash[r])
      <3>1. PICK c \in Content : c = hash[r]
        BY <1>18 DEF DeleteRow, BaseInv, LocalsInv, HashRead
      <3>2. \A f \in Request : files[f] # c
        BY <2>2, <3>1 DEF Deletable, Referenced
      <3>3. ~ Stored(c)' /\ \A h \in Content : h # c => (Stored(h)' <=> Stored(h))
        BY <1>18, <2>2, <3>1 DEF DeleteRow, DeleteStorage, Stored, RowExists, BaseInv, TypeOK
      <3> QED
        BY <1>18, <3>2, <3>3, <1>reclaim DEF DeleteRow
    <2> QED
      BY <1>18, <2>1, <2>2 DEF DeleteRow, DeleteStorage
  <1>19. ASSUME Crash PROVE Visible
    BY <1>19, <1>quiet DEF Crash
  <1>20. ASSUME UNCHANGED vars PROVE Visible
    BY <1>20, <1>quiet DEF vars
  <1>21. Visible
    BY <1>1, <1>2, <1>3, <1>4, <1>5, <1>6, <1>7, <1>8, <1>9, <1>10, <1>11,
       <1>12, <1>13, <1>14, <1>15, <1>16, <1>17, <1>18, <1>19, <1>20
    DEF Next, Step, UploadStep, DeleteStep, Finished
  <1> QED
    BY <1>21 DEF Catalog!catalogVars

\* In the same environment Upload and Delete, every call of them interleaved with
\* the others', are to a client the four atomic operations of the catalog.
THEOREM RefinesCatalogHolds == ASSUME Tolerated PROVE Spec => RefinesCatalog
  <1>1. SafeInv /\ [Next]_vars => [Catalog!CatalogNext]_(Catalog!catalogVars)
    BY StepCatalog
  <1> QED
    BY <1>1, InitCatalog, SafeInvariant, PTL
    DEF Spec, RefinesCatalog, Catalog!CatalogSpec

-----------------------------------------------------------------------------
(* Uploads that were answered, where no failure takes a first upload's row *)

LEMMA StepMakers ==
  ASSUME RowsKept, MadeInv, [Next]_vars
  PROVE  MakersInv'
  <1> USE NullAssumption, ContentAssumption, RequestAssumption
      DEF RowsKept, MadeInv, MakersInv, BaseInv, TypeOK, LocalsInv, RowInv, RowExists,
          tables, locals, Goto, Answer, Rejects
  <1>1. ASSUME NEW r \in Request, NEW c \in Content, StartUpload(r, c) PROVE MakersInv'
    BY <1>1 DEF StartUpload
  <1>2. ASSUME NEW r \in Request, NEW f \in Request, StartDelete(r, f) PROVE MakersInv'
    BY <1>2 DEF StartDelete, MayDelete
  <1>3. ASSUME NEW r \in Request, Put(r) PROVE MakersInv'
    BY <1>3 DEF Put, PutBlob
  <1>4. ASSUME NEW r \in Request, FindDuplicate(r) PROVE MakersInv'
    BY <1>4 DEF FindDuplicate
  <1>5. ASSUME NEW r \in Request, DropCopy(r) PROVE MakersInv'
    BY <1>5 DEF DropCopy, RemoveBlob
  <1>6. ASSUME NEW r \in Request, Increment(r) PROVE MakersInv'
    BY <1>6 DEF Increment, IncrementStorageRef
  <1>7. ASSUME NEW r \in Request, AttachFile(r) PROVE MakersInv'
    BY <1>7 DEF AttachFile, CreateFileReference
  <1>8. ASSUME NEW r \in Request, UndoIncrement(r) PROVE MakersInv'
    BY <1>8 DEF UndoIncrement, DecrementStorageRef
  <1>9. ASSUME NEW r \in Request, InsertStorage(r) PROVE MakersInv'
    BY <1>9 DEF InsertStorage, CreateStorage
  <1>10. ASSUME NEW r \in Request, CreateFile(r) PROVE MakersInv'
    BY <1>10 DEF CreateFile, CreateFileReference
  <1>11. ASSUME NEW r \in Request, CleanUpRow(r) PROVE MakersInv'
    BY <1>11 DEF CleanUpRow, DeleteStorage, Deletable
  <1>12. ASSUME NEW r \in Request, CleanUpBlob(r) PROVE MakersInv'
    BY <1>12 DEF CleanUpBlob, RemoveBlob
  <1>13. ASSUME NEW r \in Request, FindHash(r) PROVE MakersInv'
    BY <1>13 DEF FindHash
  <1>14. ASSUME NEW r \in Request, DeleteFile(r) PROVE MakersInv'
    BY <1>14 DEF DeleteFile, DeleteByID
  <1>15. ASSUME NEW r \in Request, Decrement(r) PROVE MakersInv'
    BY <1>15 DEF Decrement, DecrementStorageRef
  <1>16. ASSUME NEW r \in Request, FindRow(r) PROVE MakersInv'
    BY <1>16 DEF FindRow
  <1>17. ASSUME NEW r \in Request, DeleteBlob(r) PROVE MakersInv'
    BY <1>17 DEF DeleteBlob, RemoveBlob
  <1>18. ASSUME NEW r \in Request, DeleteRow(r) PROVE MakersInv'
    BY <1>18 DEF DeleteRow, DeleteStorage, Deletable
  <1>19. CASE Crash
    BY <1>19 DEF Crash
  <1>20. CASE UNCHANGED vars
    BY <1>20 DEF vars
  <1> QED
    BY <1>1, <1>2, <1>3, <1>4, <1>5, <1>6, <1>7, <1>8, <1>9, <1>10, <1>11, <1>12, <1>13,
       <1>14, <1>15, <1>16, <1>17, <1>18, <1>19, <1>20
    DEF Next, Step, UploadStep, DeleteStep, Finished

LEMMA StepMade == RowsKept /\ MadeInv /\ [Next]_vars => MadeInv'
  BY StepMakers, StepBase DEF MadeInv

\* A failed upload leaves no row behind where the INSERT into files neither fails nor, like
\* the one into storage, reports an error it did not have (service.Upload, from its first
\* upload's CreateStorage on): what the code's comment promises at storage.go:122 depends on
\* these three, and on nothing else that may fail, overlap or be killed.
THEOREM FailedUploadLeavesNoRowHolds ==
  ASSUME RowsKept PROVE Spec => []FailedUploadLeavesNoRow
  <1>1. Init => MadeInv
    BY InitBase DEF Init, MadeInv, MakersInv, RowExists
  <1>2. MadeInv => FailedUploadLeavesNoRow
    BY DEF MadeInv, MakersInv, FailedUploadLeavesNoRow
  <1> QED
    BY <1>1, <1>2, StepMade, PTL DEF Spec

\* Requests keep their body and target: a content that was deleted stays so.
LEMMA DeletedStays ==
  ASSUME BaseInv, OfTarget, [Next]_vars
  PROVE  \A h \in Content : Deleted(h) => Deleted(h)'
  <1> DEFINE Same == \A d \in Request : target[d] # NULL /\ body[target[d]] \in Content =>
                        target'[d] = target[d] /\ body'[target[d]] = body[target[d]]
  <1>1. Same
    <2> USE RequestAssumption, ContentAssumption
        DEF BaseInv, TypeOK, LocalsInv, OfTarget, tables, locals
    <2>1. ASSUME NEW r \in Request, NEW c \in Content, StartUpload(r, c) PROVE Same
      BY <2>1 DEF StartUpload
    <2>2. ASSUME NEW r \in Request, NEW f \in Request, StartDelete(r, f) PROVE Same
      BY <2>2 DEF StartDelete
    <2>3. ASSUME ~ \E r \in Request : \/ \E c \in Content : StartUpload(r, c)
                                      \/ \E f \in Request : StartDelete(r, f)
          PROVE  UNCHANGED <<body, target>>
      BY <2>3 DEF vars, Next, Step, UploadStep, DeleteStep, Finished, Crash, Put, FindDuplicate,
          DropCopy, Increment, AttachFile, UndoIncrement, InsertStorage, CreateFile, CleanUpRow,
          CleanUpBlob, FindHash, DeleteFile, Decrement, FindRow, DeleteBlob, DeleteRow
    <2> QED
      BY <2>1, <2>2, <2>3
  <1> QED
    BY <1>1, RequestAssumption DEF Deleted

LEMMA StepOfTarget ==
  ASSUME BaseInv, OfTarget, [Next]_vars
  PROVE  OfTarget'
  <1> USE NullAssumption, ContentAssumption, RequestAssumption
      DEF BaseInv, TypeOK, LocalsInv, FileInv, RowInv, RowExists, OfTarget, HashRead, PathRead,
          tables, locals, Goto, Answer, Rejects
  <1>1. ASSUME NEW r \in Request, NEW c \in Content, StartUpload(r, c) PROVE OfTarget'
    BY <1>1 DEF StartUpload
  <1>2. ASSUME NEW r \in Request, NEW f \in Request, StartDelete(r, f) PROVE OfTarget'
    BY <1>2 DEF StartDelete, MayDelete
  <1>3. ASSUME NEW r \in Request, Put(r) PROVE OfTarget'
    BY <1>3 DEF Put, PutBlob
  <1>4. ASSUME NEW r \in Request, FindDuplicate(r) PROVE OfTarget'
    BY <1>4 DEF FindDuplicate
  <1>5. ASSUME NEW r \in Request, DropCopy(r) PROVE OfTarget'
    BY <1>5 DEF DropCopy, RemoveBlob
  <1>6. ASSUME NEW r \in Request, Increment(r) PROVE OfTarget'
    BY <1>6 DEF Increment, IncrementStorageRef
  <1>7. ASSUME NEW r \in Request, AttachFile(r) PROVE OfTarget'
    BY <1>7 DEF AttachFile, CreateFileReference
  <1>8. ASSUME NEW r \in Request, UndoIncrement(r) PROVE OfTarget'
    BY <1>8 DEF UndoIncrement, DecrementStorageRef
  <1>9. ASSUME NEW r \in Request, InsertStorage(r) PROVE OfTarget'
    BY <1>9 DEF InsertStorage, CreateStorage
  <1>10. ASSUME NEW r \in Request, CreateFile(r) PROVE OfTarget'
    BY <1>10 DEF CreateFile, CreateFileReference
  <1>11. ASSUME NEW r \in Request, CleanUpRow(r) PROVE OfTarget'
    BY <1>11 DEF CleanUpRow, DeleteStorage, Deletable
  <1>12. ASSUME NEW r \in Request, CleanUpBlob(r) PROVE OfTarget'
    BY <1>12 DEF CleanUpBlob, RemoveBlob
  <1>13. ASSUME NEW r \in Request, FindHash(r) PROVE OfTarget'
    BY <1>13 DEF FindHash
  <1>14. ASSUME NEW r \in Request, DeleteFile(r) PROVE OfTarget'
    BY <1>14 DEF DeleteFile, DeleteByID
  <1>15. ASSUME NEW r \in Request, Decrement(r) PROVE OfTarget'
    BY <1>15 DEF Decrement, DecrementStorageRef
  <1>16. ASSUME NEW r \in Request, FindRow(r) PROVE OfTarget'
    BY <1>16 DEF FindRow
  <1>17. ASSUME NEW r \in Request, DeleteBlob(r) PROVE OfTarget'
    BY <1>17 DEF DeleteBlob, RemoveBlob
  <1>18. ASSUME NEW r \in Request, DeleteRow(r) PROVE OfTarget'
    BY <1>18 DEF DeleteRow, DeleteStorage, Deletable
  <1>19. CASE Crash
    BY <1>19 DEF Crash
  <1>20. CASE UNCHANGED vars
    BY <1>20 DEF vars
  <1> QED
    BY <1>1, <1>2, <1>3, <1>4, <1>5, <1>6, <1>7, <1>8, <1>9, <1>10, <1>11, <1>12, <1>13,
       <1>14, <1>15, <1>16, <1>17, <1>18, <1>19, <1>20
    DEF Next, Step, UploadStep, DeleteStep, Finished

\* The row and the blob of a content nobody deletes stay: the clean-up of a first upload
\* runs before its row is there, and a duplicate's upload removes its own copy.
LEMMA StepRowsStay ==
  ASSUME RowsKept, UndeletedInv, [Next]_vars
  PROVE  RowsStay' /\ FilesStay'
  <1>d. \A h \in Content : Deleted(h) => Deleted(h)'
    BY DeletedStays DEF UndeletedInv, MadeInv
  <1>t. \A d \in Request : Deleting(d) => Deleted(body[target[d]])
    BY RequestAssumption DEF UndeletedInv, MadeInv, BaseInv, LocalsInv, Deleted
  <1> USE <1>d, <1>t, NullAssumption, ContentAssumption, RequestAssumption
      DEF RowsKept, UndeletedInv, MadeInv, MakersInv, BaseInv, TypeOK, LocalsInv, FileInv,
          RowInv, CopyInv, RowExists, OfTarget, HashRead, PathRead, RowsStay, FilesStay, tables, locals, Goto, Answer, Rejects
  <1>1. ASSUME NEW r \in Request, NEW c \in Content, StartUpload(r, c) PROVE RowsStay' /\ FilesStay'
    BY <1>1 DEF StartUpload
  <1>2. ASSUME NEW r \in Request, NEW f \in Request, StartDelete(r, f) PROVE RowsStay' /\ FilesStay'
    BY <1>2 DEF StartDelete, MayDelete
  <1>3. ASSUME NEW r \in Request, Put(r) PROVE RowsStay' /\ FilesStay'
    BY <1>3 DEF Put, PutBlob
  <1>4. ASSUME NEW r \in Request, FindDuplicate(r) PROVE RowsStay' /\ FilesStay'
    BY <1>4 DEF FindDuplicate
  <1>5. ASSUME NEW r \in Request, DropCopy(r) PROVE RowsStay' /\ FilesStay'
    BY <1>5 DEF DropCopy, RemoveBlob
  <1>6. ASSUME NEW r \in Request, Increment(r) PROVE RowsStay' /\ FilesStay'
    BY <1>6 DEF Increment, IncrementStorageRef
  <1>7. ASSUME NEW r \in Request, AttachFile(r) PROVE RowsStay' /\ FilesStay'
    BY <1>7 DEF AttachFile, CreateFileReference
  <1>8. ASSUME NEW r \in Request, UndoIncrement(r) PROVE RowsStay' /\ FilesStay'
    BY <1>8 DEF UndoIncrement, DecrementStorageRef
  <1>9. ASSUME NEW r \in Request, InsertStorage(r) PROVE RowsStay' /\ FilesStay'
    BY <1>9 DEF InsertStorage, CreateStorage
  <1>10. ASSUME NEW r \in Request, CreateFile(r) PROVE RowsStay' /\ FilesStay'
    BY <1>10 DEF CreateFile, CreateFileReference
  <1>11. ASSUME NEW r \in Request, CleanUpRow(r) PROVE RowsStay' /\ FilesStay'
    BY <1>11 DEF CleanUpRow, DeleteStorage, Deletable
  <1>12. ASSUME NEW r \in Request, CleanUpBlob(r) PROVE RowsStay' /\ FilesStay'
    BY <1>12 DEF CleanUpBlob, RemoveBlob
  <1>13. ASSUME NEW r \in Request, FindHash(r) PROVE RowsStay' /\ FilesStay'
    BY <1>13 DEF FindHash
  <1>14. ASSUME NEW r \in Request, DeleteFile(r) PROVE RowsStay' /\ FilesStay'
    BY <1>14 DEF DeleteFile, DeleteByID
  <1>15. ASSUME NEW r \in Request, Decrement(r) PROVE RowsStay' /\ FilesStay'
    BY <1>15 DEF Decrement, DecrementStorageRef
  <1>16. ASSUME NEW r \in Request, FindRow(r) PROVE RowsStay' /\ FilesStay'
    BY <1>16 DEF FindRow
  <1>17. ASSUME NEW r \in Request, DeleteBlob(r) PROVE RowsStay' /\ FilesStay'
    BY <1>17 DEF DeleteBlob, RemoveBlob
  <1>18. ASSUME NEW r \in Request, DeleteRow(r) PROVE RowsStay' /\ FilesStay'
    BY <1>18 DEF DeleteRow, DeleteStorage, Deletable
  <1>19. CASE Crash
    BY <1>19 DEF Crash
  <1>20. CASE UNCHANGED vars
    BY <1>20 DEF vars
  <1> QED
    BY <1>1, <1>2, <1>3, <1>4, <1>5, <1>6, <1>7, <1>8, <1>9, <1>10, <1>11, <1>12, <1>13,
       <1>14, <1>15, <1>16, <1>17, <1>18, <1>19, <1>20
    DEF Next, Step, UploadStep, DeleteStep, Finished

LEMMA StepUndeleted == RowsKept /\ UndeletedInv /\ [Next]_vars => UndeletedInv'
  <1> SUFFICES ASSUME RowsKept, UndeletedInv, [Next]_vars PROVE UndeletedInv'
    OBVIOUS
  <1>1. MadeInv' /\ OfTarget'
    BY StepMade, StepOfTarget DEF UndeletedInv, MadeInv
  <1> QED
    BY <1>1, StepRowsStay DEF UndeletedInv

LEMMA InitUndeleted == Init => UndeletedInv
  <1> SUFFICES ASSUME Init PROVE UndeletedInv
    OBVIOUS
  <1> QED
    BY InitBase
    DEF Init, UndeletedInv, MadeInv, MakersInv, RowExists, OfTarget, HashRead, PathRead,
        RowsStay, FilesStay

LEMMA UndeletedKept == UndeletedInv => AnsweredIsKept
  BY ContentAssumption
  DEF UndeletedInv, MadeInv, BaseInv, TypeOK, FileInv, RowsStay, FilesStay, AnsweredIsKept, Stored

\* Where those INSERTs succeed, a file whose upload was answered is listed and has its bytes
\* until somebody deletes a file of the same content, whatever else fails, overlaps or is
\* killed (service.Upload and its clean-ups, service.DeleteFile).
THEOREM AnsweredIsKeptHolds == ASSUME RowsKept PROVE Spec => []AnsweredIsKept
  <1>1. UndeletedInv /\ [Next]_vars => UndeletedInv'
    BY StepUndeleted
  <1> QED
    BY <1>1, InitUndeleted, UndeletedKept, PTL DEF Spec

=============================================================================
