------------------------- MODULE MetadataCacheProofs -------------------------
(***************************************************************************)
(* What TLAPS proves about MetadataCache for every set of requests and ids. *)
(*                                                                          *)
(* The file's copy and the list are each true or about to be dropped        *)
(* (CopiesTrue, ListTrue), and what a reader is about to fill in is still   *)
(* true (FillsTrue), because no writer it could miss is in flight (Apart).  *)
(***************************************************************************)
EXTENDS MetadataCache, TLAPS

Invalidations == {"DropList", "DropFile", "DropListToo"}

\* The environment in which the cache is coherent: readers do not overlap the
\* writers of what they read, and no invalidation is lost.
Quiet ==
    /\ Overlaps = {}
    /\ Rejected \cap Invalidations = {}
    /\ CrashAt \cap Invalidations = {}
    /\ LostReply = {}
    /\ Truncated = {}

Apart ==
    \A r, q \in Request :
        /\ pc[r] \in GetCalls /\ pc[q] \in DeleteCalls => id[r] # id[q]
        /\ pc[r] \in ListCalls => pc[q] \notin WriteCalls

CopiesTrue ==
    \A f \in Id : file_key[f] # NULL =>
        /\ file_key[f] = EMPTY
        /\ f \in rows \/ \E d \in Request : pc[d] = "DropFile" /\ id[d] = f

ListTrue ==
    file_list \in {NULL, rows} \/ \E w \in Request : pc[w] \in Invalidations

FillsTrue ==
    \A r \in Request :
        /\ pc[r] = "FillFile" => id[r] \in rows /\ path[r] = id[r]
        /\ pc[r] = "FillList" => list[r] = rows

\* A request about a file has its id.
IdKnown == \A r \in Request : pc[r] \in GetCalls \cup WriteCalls => id[r] \in Id

Typed == TypeOK /\ IdKnown

CacheInv == Typed /\ Apart /\ CopiesTrue /\ ListTrue /\ FillsTrue

-----------------------------------------------------------------------------
(* Types *)

LEMMA InitTyped == Init => Typed
BY DEF Init, Typed, TypeOK, IdKnown, GetCalls, WriteCalls, CreateCalls, DeleteCalls

\* Every step keeps every variable in its set, in every environment.
LEMMA NextTyped == Typed /\ [Next]_vars => Typed'
<1> SUFFICES ASSUME Typed, [Next]_vars PROVE Typed'
  OBVIOUS
<1> USE DEF Typed, TypeOK, IdKnown, table, redis, locals, Goto,
            Calls, GetCalls, WriteCalls, CreateCalls, DeleteCalls, ListCalls, Final
<1>1. ASSUME NEW r \in Request, NEW f \in Id,
             StartCreate(r, f) \/ StartDelete(r, f) \/ StartGet(r, f)
      PROVE Typed'
  BY <1>1 DEF StartCreate, StartDelete, StartGet, Start
<1>2. ASSUME NEW r \in Request, StartList(r) PROVE Typed'
  BY <1>2 DEF StartList, Start
<1>3. ASSUME NEW r \in Request, Write(r) PROVE Typed'
  <2>1. CASE Insert(r)
    BY <2>1 DEF Insert, SetRows
  <2>2. CASE DropList(r)
    BY <2>2 DEF DropList
  <2>3. CASE DeleteRow(r)
    BY <2>3 DEF DeleteRow, SetRows
  <2>4. CASE DropFile(r)
    BY <2>4 DEF DropFile
  <2>5. CASE DropListToo(r)
    BY <2>5 DEF DropListToo
  <2> QED
    BY <1>3, <2>1, <2>2, <2>3, <2>4, <2>5 DEF Write
<1>4. ASSUME NEW r \in Request, Read(r) PROVE Typed'
  <2>1. CASE LookUpFile(r)
    BY <2>1 DEF LookUpFile
  <2>2. CASE QueryFile(r)
    BY <2>2 DEF QueryFile
  <2>3. CASE FillFile(r)
    BY <2>3 DEF FillFile, Marshalled
  <2>4. CASE LookUpList(r)
    BY <2>4 DEF LookUpList
  <2>5. CASE QueryList(r)
    BY <2>5 DEF QueryList
  <2>6. CASE QueryLegacy(r)
    BY <2>6 DEF QueryLegacy
  <2>7. CASE FillList(r)
    BY <2>7 DEF FillList
  <2> QED
    BY <1>4, <2>1, <2>2, <2>3, <2>4, <2>5, <2>6, <2>7 DEF Read
<1>5. ASSUME NEW f \in Id, ExpireFile(f) PROVE Typed'
  BY <1>5 DEF ExpireFile
<1>6. CASE ExpireList
  BY <1>6 DEF ExpireList
<1>7. CASE Crash
  BY <1>7 DEF Crash, Active
<1>8. CASE UNCHANGED vars
  BY <1>8 DEF vars
<1> QED
  BY <1>1, <1>2, <1>3, <1>4, <1>5, <1>6, <1>7, <1>8 DEF Next

\* In every environment every variable of the cache's model keeps its type, and a
\* request that names a file has its id.
THEOREM TypeCorrect == Spec => []TypeOK
<1>1. Typed => TypeOK
  BY DEF Typed
<1> QED
  BY <1>1, InitTyped, NextTyped, PTL DEF Spec

-----------------------------------------------------------------------------
(* Deleted files *)

\* A file is inserted once: by the one request that drew its id, before it was issued.
InsertsFresh ==
    \A r, q \in Request :
        pc[r] = "Insert" => /\ id[r] \notin issued
                            /\ pc[q] = "Insert" /\ r # q => id[q] # id[r]

LEMMA NextInserts == Typed /\ InsertsFresh /\ [Next]_vars => InsertsFresh'
<1> SUFFICES ASSUME Typed, InsertsFresh, [Next]_vars PROVE InsertsFresh'
  OBVIOUS
<1> USE DEF Typed, TypeOK, IdKnown, InsertsFresh, table, redis, locals, Goto,
            WriteCalls, CreateCalls, DeleteCalls, GetCalls
<1>1. ASSUME NEW r \in Request, NEW f \in Id,
             StartCreate(r, f) \/ StartDelete(r, f) \/ StartGet(r, f)
      PROVE InsertsFresh'
  BY <1>1 DEF StartCreate, StartDelete, StartGet, Start
<1>2. ASSUME NEW r \in Request, StartList(r) PROVE InsertsFresh'
  BY <1>2 DEF StartList, Start
<1>3. ASSUME NEW r \in Request, Write(r) PROVE InsertsFresh'
  <2>1. CASE Insert(r)
    BY <2>1 DEF Insert, SetRows
  <2>2. CASE DeleteRow(r)
    BY <2>2 DEF DeleteRow, SetRows
  <2>3. CASE DropList(r) \/ DropFile(r) \/ DropListToo(r)
    BY <2>3 DEF DropList, DropFile, DropListToo
  <2> QED
    BY <1>3, <2>1, <2>2, <2>3 DEF Write
<1>4. ASSUME NEW r \in Request, Read(r) PROVE InsertsFresh'
  BY <1>4 DEF Read, LookUpFile, QueryFile, FillFile, LookUpList, QueryList,
              QueryLegacy, FillList
<1>5. CASE (\E f \in Id : ExpireFile(f)) \/ ExpireList \/ UNCHANGED vars
  BY <1>5 DEF ExpireFile, ExpireList, vars
<1>6. CASE Crash
  BY <1>6 DEF Crash
<1> QED
  BY <1>1, <1>2, <1>3, <1>4, <1>5, <1>6 DEF Next

LEMMA NextGone ==
    ASSUME Typed, InsertsFresh, [Next]_vars, NEW f \in Id, Gone(f)
    PROVE  Gone(f)'
<1> USE DEF Typed, TypeOK, IdKnown, Gone, Shown, ToBeShown, table, redis, locals, Goto,
            WriteCalls, CreateCalls, DeleteCalls, GetCalls
<1>1. ASSUME NEW r \in Request, NEW g \in Id,
             StartCreate(r, g) \/ StartDelete(r, g) \/ StartGet(r, g)
      PROVE Gone(f)'
  BY <1>1 DEF StartCreate, StartDelete, StartGet, Start
<1>2. ASSUME NEW r \in Request, StartList(r) PROVE Gone(f)'
  BY <1>2 DEF StartList, Start
<1>3. ASSUME NEW r \in Request, Write(r) PROVE Gone(f)'
  <2>1. CASE Insert(r)
    BY <2>1 DEF Insert, SetRows, InsertsFresh
  <2>2. CASE DeleteRow(r)
    BY <2>2 DEF DeleteRow, SetRows
  <2>3. CASE DropList(r) \/ DropFile(r) \/ DropListToo(r)
    BY <2>3 DEF DropList, DropFile, DropListToo
  <2> QED
    BY <1>3, <2>1, <2>2, <2>3 DEF Write
<1>4. ASSUME NEW r \in Request, Read(r) PROVE Gone(f)'
  <2>1. CASE LookUpFile(r) \/ LookUpList(r)
    BY <2>1 DEF LookUpFile, LookUpList
  <2>2. CASE QueryFile(r)
    BY <2>2 DEF QueryFile
  <2>3. CASE QueryList(r)
    BY <2>3 DEF QueryList
  <2>4. CASE QueryLegacy(r)
    BY <2>4 DEF QueryLegacy
  <2>5. CASE FillFile(r)
    BY <2>5 DEF FillFile
  <2>6. CASE FillList(r)
    BY <2>6 DEF FillList
  <2> QED
    BY <1>4, <2>1, <2>2, <2>3, <2>4, <2>5, <2>6 DEF Read
<1>5. CASE (\E g \in Id : ExpireFile(g)) \/ ExpireList \/ UNCHANGED vars
  BY <1>5 DEF ExpireFile, ExpireList, vars
<1>6. CASE Crash
  BY <1>6 DEF Crash
<1> QED
  BY <1>1, <1>2, <1>3, <1>4, <1>5, <1>6 DEF Next

\* In every environment a deleted file that Redis does not show, and that no reader in
\* flight read before the delete, is never shown again: an id is inserted once, and
\* what a reader sets in Redis it read from the table.
THEOREM GoneStaysGoneHolds == Spec => GoneStaysGone
<1>1. Init => InsertsFresh
  BY DEF Init, InsertsFresh
<1>2. Typed /\ InsertsFresh /\ [Next]_vars => InsertsFresh'
  BY NextInserts
<1>3. Typed /\ InsertsFresh /\ [Next]_vars => [\A f \in Id : Gone(f) => Gone(f)']_vars
  BY NextGone
<1> QED
  BY <1>1, <1>2, <1>3, InitTyped, NextTyped, PTL DEF Spec, GoneStaysGone

-----------------------------------------------------------------------------
(* Coherence *)

LEMMA InitCache == Init => CacheInv
BY InitTyped DEF Init, CacheInv, Apart, CopiesTrue, ListTrue, FillsTrue,
   GetCalls, ListCalls

LEMMA StartKeepsCache ==
    ASSUME Quiet, CacheInv,
           \/ \E r \in Request, f \in Id :
                  StartCreate(r, f) \/ StartDelete(r, f) \/ StartGet(r, f)
           \/ \E r \in Request : StartList(r)
    PROVE  Apart' /\ CopiesTrue' /\ ListTrue' /\ FillsTrue'
<1> USE DEF CacheInv, Typed, TypeOK, Quiet, table, redis, locals, Goto, Start, Active,
            WriteCalls, CreateCalls, DeleteCalls, GetCalls, ListCalls, Calls, Final
<1>1. ASSUME NEW r \in Request, NEW f \in Id, StartCreate(r, f)
      PROVE Apart' /\ CopiesTrue' /\ ListTrue' /\ FillsTrue'
  <2>1. Apart'
    BY <1>1 DEF StartCreate, NoList, Apart
  <2>2. CopiesTrue' /\ ListTrue' /\ FillsTrue'
    BY <1>1 DEF StartCreate, CopiesTrue, ListTrue, FillsTrue, Invalidations
  <2> QED
    BY <2>1, <2>2
<1>2. ASSUME NEW r \in Request, NEW f \in Id, StartDelete(r, f)
      PROVE Apart' /\ CopiesTrue' /\ ListTrue' /\ FillsTrue'
  <2>1. Apart'
    BY <1>2 DEF StartDelete, NoGetOf, NoList, Apart
  <2>2. CopiesTrue' /\ ListTrue' /\ FillsTrue'
    BY <1>2 DEF StartDelete, CopiesTrue, ListTrue, FillsTrue, Invalidations
  <2> QED
    BY <2>1, <2>2
<1>3. ASSUME NEW r \in Request, NEW f \in Id, StartGet(r, f)
      PROVE Apart' /\ CopiesTrue' /\ ListTrue' /\ FillsTrue'
  <2>1. Apart'
    BY <1>3 DEF StartGet, NoDeleteOf, Apart
  <2>2. CopiesTrue' /\ ListTrue' /\ FillsTrue'
    BY <1>3 DEF StartGet, CopiesTrue, ListTrue, FillsTrue, Invalidations
  <2> QED
    BY <2>1, <2>2
<1>4. ASSUME NEW r \in Request, StartList(r)
      PROVE Apart' /\ CopiesTrue' /\ ListTrue' /\ FillsTrue'
  <2>1. Apart'
    BY <1>4 DEF StartList, NoWriter, Writing, Apart
  <2>2. CopiesTrue' /\ ListTrue' /\ FillsTrue'
    BY <1>4 DEF StartList, CopiesTrue, ListTrue, FillsTrue, Invalidations
  <2> QED
    BY <2>1, <2>2
<1> QED
  BY <1>1, <1>2, <1>3, <1>4

LEMMA WriteKeepsCache ==
    ASSUME Quiet, CacheInv, NEW r \in Request, Write(r)
    PROVE  Apart' /\ CopiesTrue' /\ ListTrue' /\ FillsTrue'
<1> USE DEF CacheInv, Typed, TypeOK, IdKnown, Quiet, table, redis, locals, Goto,
            Calls, WriteCalls, CreateCalls, DeleteCalls, GetCalls, ListCalls, Final
<1>1. CASE Insert(r)
  <2>1. Apart'
    BY <1>1 DEF Insert, Apart, SetRows, Rejects
  <2>2. CopiesTrue'
    BY <1>1 DEF Insert, CopiesTrue, Apart, FillsTrue, SetRows, Rejects
  <2>3. ListTrue'
    BY <1>1 DEF Insert, ListTrue, Apart, FillsTrue, Invalidations, SetRows, Rejects
  <2>4. FillsTrue'
    BY <1>1 DEF Insert, FillsTrue, ListTrue, Apart, Invalidations, SetRows, Rejects
  <2> QED
    BY <2>1, <2>2, <2>3, <2>4
<1>2. CASE DropList(r)
  <2>1. Apart'
    BY <1>2 DEF DropList, Apart, Rejects
  <2>2. CopiesTrue'
    BY <1>2 DEF DropList, CopiesTrue, Apart, FillsTrue, Rejects
  <2>3. ListTrue'
    BY <1>2 DEF DropList, ListTrue, Apart, FillsTrue, Invalidations, Rejects
  <2>4. FillsTrue'
    BY <1>2 DEF DropList, FillsTrue, ListTrue, Apart, Invalidations, Rejects
  <2> QED
    BY <2>1, <2>2, <2>3, <2>4
<1>3. CASE DeleteRow(r)
  <2>1. Apart'
    BY <1>3 DEF DeleteRow, Apart, SetRows, Rejects
  <2>2. CopiesTrue'
    BY <1>3 DEF DeleteRow, CopiesTrue, Apart, FillsTrue, SetRows, Rejects
  <2>3. ListTrue'
    BY <1>3 DEF DeleteRow, ListTrue, Apart, FillsTrue, Invalidations, SetRows, Rejects
  <2>4. FillsTrue'
    BY <1>3 DEF DeleteRow, FillsTrue, ListTrue, Apart, Invalidations, SetRows, Rejects
  <2> QED
    BY <2>1, <2>2, <2>3, <2>4
<1>4. CASE DropFile(r)
  <2>1. Apart'
    BY <1>4 DEF DropFile, Apart, Rejects
  <2>2. CopiesTrue'
    <3> SUFFICES ASSUME NEW f \in Id, file_key'[f] # NULL, f \notin rows
                 PROVE  \E d \in Request : pc'[d] = "DropFile" /\ id[d] = f
      BY <1>4 DEF DropFile, CopiesTrue, Rejects
    <3>1. pc[r] \notin Rejected
      BY <1>4 DEF DropFile, Invalidations
    <3>2. f # id[r] /\ file_key[f] # NULL
      BY <1>4, <3>1 DEF DropFile, Rejects
    <3>3. PICK d \in Request : pc[d] = "DropFile" /\ id[d] = f
      BY <3>2 DEF CopiesTrue
    <3> QED
      BY <1>4, <3>2, <3>3 DEF DropFile
  <2>3. ListTrue'
    BY <1>4 DEF DropFile, ListTrue, Apart, FillsTrue, Invalidations, Rejects
  <2>4. FillsTrue'
    BY <1>4 DEF DropFile, FillsTrue, ListTrue, Apart, Invalidations, Rejects
  <2> QED
    BY <2>1, <2>2, <2>3, <2>4
<1>5. CASE DropListToo(r)
  <2>1. Apart'
    BY <1>5 DEF DropListToo, Apart, Rejects
  <2>2. CopiesTrue'
    BY <1>5 DEF DropListToo, CopiesTrue, Apart, FillsTrue, Rejects
  <2>3. ListTrue'
    BY <1>5 DEF DropListToo, ListTrue, Apart, FillsTrue, Invalidations, Rejects
  <2>4. FillsTrue'
    BY <1>5 DEF DropListToo, FillsTrue, ListTrue, Apart, Invalidations, Rejects
  <2> QED
    BY <2>1, <2>2, <2>3, <2>4
<1> QED
  BY <1>1, <1>2, <1>3, <1>4, <1>5 DEF Write

LEMMA ReadKeepsCache ==
    ASSUME Quiet, CacheInv, NEW r \in Request, Read(r)
    PROVE  Apart' /\ CopiesTrue' /\ ListTrue' /\ FillsTrue'
<1> USE DEF CacheInv, Typed, TypeOK, IdKnown, Quiet, table, redis, locals, Goto,
            Calls, WriteCalls, CreateCalls, DeleteCalls, GetCalls, ListCalls, Final
<1>1. CASE LookUpFile(r)
  <2>1. Apart'
    BY <1>1 DEF LookUpFile, Apart, Rejects
  <2>2. CopiesTrue'
    BY <1>1 DEF LookUpFile, CopiesTrue, Apart, FillsTrue, Rejects
  <2>3. ListTrue'
    BY <1>1 DEF LookUpFile, ListTrue, Apart, FillsTrue, Invalidations, Rejects
  <2>4. FillsTrue'
    BY <1>1 DEF LookUpFile, FillsTrue, ListTrue, Apart, Invalidations, Rejects
  <2> QED
    BY <2>1, <2>2, <2>3, <2>4
<1>2. CASE QueryFile(r)
  <2>1. Apart'
    BY <1>2 DEF QueryFile, Apart, Rejects
  <2>2. CopiesTrue'
    BY <1>2 DEF QueryFile, CopiesTrue, Apart, FillsTrue, Rejects
  <2>3. ListTrue'
    BY <1>2 DEF QueryFile, ListTrue, Apart, FillsTrue, Invalidations, Rejects
  <2>4. FillsTrue'
    BY <1>2 DEF QueryFile, FillsTrue, ListTrue, Apart, Invalidations, Rejects
  <2> QED
    BY <2>1, <2>2, <2>3, <2>4
<1>3. CASE FillFile(r)
  <2>1. Apart'
    BY <1>3 DEF FillFile, Apart, Rejects
  <2>2. CopiesTrue'
    BY <1>3 DEF FillFile, CopiesTrue, Apart, FillsTrue, Rejects, Marshalled
  <2>3. ListTrue'
    BY <1>3 DEF FillFile, ListTrue, Apart, FillsTrue, Invalidations, Rejects
  <2>4. FillsTrue'
    BY <1>3 DEF FillFile, FillsTrue, ListTrue, Apart, Invalidations, Rejects
  <2> QED
    BY <2>1, <2>2, <2>3, <2>4
<1>4. CASE LookUpList(r)
  <2>1. Apart'
    BY <1>4 DEF LookUpList, Apart, Rejects
  <2>2. CopiesTrue'
    BY <1>4 DEF LookUpList, CopiesTrue, Apart, FillsTrue, Rejects
  <2>3. ListTrue'
    BY <1>4 DEF LookUpList, ListTrue, Apart, FillsTrue, Invalidations, Rejects
  <2>4. FillsTrue'
    BY <1>4 DEF LookUpList, FillsTrue, ListTrue, Apart, Invalidations, Rejects
  <2> QED
    BY <2>1, <2>2, <2>3, <2>4
<1>5. CASE QueryList(r)
  <2>1. Apart'
    BY <1>5 DEF QueryList, Apart, Rejects
  <2>2. CopiesTrue'
    BY <1>5 DEF QueryList, CopiesTrue, Apart, FillsTrue, Rejects
  <2>3. ListTrue'
    BY <1>5 DEF QueryList, ListTrue, Apart, FillsTrue, Invalidations, Rejects
  <2>4. FillsTrue'
    BY <1>5 DEF QueryList, FillsTrue, ListTrue, Apart, Invalidations, Rejects
  <2> QED
    BY <2>1, <2>2, <2>3, <2>4
<1>6. CASE QueryLegacy(r)
  <2>1. Apart'
    BY <1>6 DEF QueryLegacy, Apart, Rejects
  <2>2. CopiesTrue'
    BY <1>6 DEF QueryLegacy, CopiesTrue, Apart, FillsTrue, Rejects
  <2>3. ListTrue'
    BY <1>6 DEF QueryLegacy, ListTrue, Apart, FillsTrue, Invalidations, Rejects
  <2>4. FillsTrue'
    BY <1>6 DEF QueryLegacy, FillsTrue, ListTrue, Apart, Invalidations, Rejects
  <2> QED
    BY <2>1, <2>2, <2>3, <2>4
<1>7. CASE FillList(r)
  <2>1. Apart'
    BY <1>7 DEF FillList, Apart, Rejects
  <2>2. CopiesTrue'
    BY <1>7 DEF FillList, CopiesTrue, Apart, FillsTrue, Rejects
  <2>3. ListTrue'
    BY <1>7 DEF FillList, ListTrue, Apart, FillsTrue, Invalidations, Rejects
  <2>4. FillsTrue'
    BY <1>7 DEF FillList, FillsTrue, ListTrue, Apart, Invalidations, Rejects
  <2> QED
    BY <2>1, <2>2, <2>3, <2>4
<1> QED
  BY <1>1, <1>2, <1>3, <1>4, <1>5, <1>6, <1>7 DEF Read

LEMMA OthersKeepCache ==
    ASSUME Quiet, CacheInv,
           (\E f \in Id : ExpireFile(f)) \/ ExpireList \/ Crash \/ UNCHANGED vars
    PROVE  Apart' /\ CopiesTrue' /\ ListTrue' /\ FillsTrue'
<1> USE DEF CacheInv, Typed, TypeOK, IdKnown, Quiet, table, redis, locals, Goto,
            Calls, WriteCalls, CreateCalls, DeleteCalls, GetCalls, ListCalls, Final
<1> USE DEF Apart, CopiesTrue, ListTrue, FillsTrue, Invalidations
<1>1. ASSUME NEW f \in Id, ExpireFile(f) PROVE Apart' /\ CopiesTrue' /\ ListTrue' /\ FillsTrue'
  BY <1>1 DEF ExpireFile
<1>2. CASE ExpireList
  BY <1>2 DEF ExpireList
<1>3. CASE Crash
  BY <1>3 DEF Crash, Active
<1>4. CASE UNCHANGED vars
  BY <1>4 DEF vars
<1> QED
  BY <1>1, <1>2, <1>3, <1>4

LEMMA NextCache == Quiet /\ CacheInv /\ [Next]_vars => CacheInv'
<1> SUFFICES ASSUME Quiet, CacheInv, [Next]_vars PROVE CacheInv'
  OBVIOUS
<1>1. Typed'
  BY NextTyped DEF CacheInv
<1>2. Apart' /\ CopiesTrue' /\ ListTrue' /\ FillsTrue'
  BY StartKeepsCache, WriteKeepsCache, ReadKeepsCache, OthersKeepCache
  DEF Next
<1> QED
  BY <1>1, <1>2 DEF CacheInv

\* Where readers do not overlap the writers of what they read and every
\* invalidation arrives, Redis says nothing the tables do not once no request is in
\* flight, whatever else is rejected or killed.
THEOREM CoherentWhenQuietHolds ==
    ASSUME Quiet
    PROVE  Spec => []CoherentWhenQuiet
<1>1. CacheInv => CoherentWhenQuiet
  BY DEF CacheInv, CopiesTrue, ListTrue, CoherentWhenQuiet, Coherent, Active,
         Calls, WriteCalls, CreateCalls, DeleteCalls, Invalidations
<1>2. CacheInv /\ [Next]_vars => CacheInv'
  BY NextCache
<1> QED
  BY <1>1, <1>2, InitCache, PTL DEF Spec

\* In the same environment GetByID answers for rows that are there and List answers
\* the table as it is at that moment.
THEOREM FreshAnswersHolds ==
    ASSUME Quiet
    PROVE  Spec => FreshAnswers
<1> DEFINE Fresh ==
      \A r \in Request : pc[r] # "ok" /\ pc'[r] = "ok" =>
          /\ pc[r] \in GetCalls => id[r] \in rows /\ path'[r] \in {id[r], EMPTY}
          /\ pc[r] \in ListCalls => list'[r] = rows
<1>1. ASSUME CacheInv, [Next]_vars PROVE [Fresh]_vars
  <2>1. ASSUME NEW q \in Request, Read(q) PROVE Fresh
    <3> USE <1>1 DEF CacheInv, Typed, TypeOK, IdKnown, Goto, locals, table, Quiet,
            Calls, GetCalls, ListCalls, WriteCalls, CreateCalls, DeleteCalls
    <3>1. CASE LookUpFile(q)
      <4>1. file_key[id[q]] # NULL /\ id[q] \in Id
                => id[q] \in rows /\ file_key[id[q]] = EMPTY
        BY <3>1 DEF LookUpFile, CopiesTrue, Apart
      <4> QED
        BY <3>1, <4>1 DEF LookUpFile
    <3>2. CASE LookUpList(q)
      <4>1. file_list # NULL => file_list = rows
        BY <3>2 DEF LookUpList, ListTrue, Apart, Invalidations
      <4> QED
        BY <3>2, <4>1 DEF LookUpList
    <3>3. CASE FillFile(q) \/ FillList(q)
      BY <3>3 DEF FillFile, FillList, FillsTrue
    <3>4. CASE QueryFile(q) \/ QueryList(q) \/ QueryLegacy(q)
      BY <3>4 DEF QueryFile, QueryList, QueryLegacy
    <3> QED
      BY <2>1, <3>1, <3>2, <3>3, <3>4 DEF Read
  <2>2. ASSUME NEW q \in Request, Write(q) PROVE Fresh
    BY <1>1, <2>2
    DEF CacheInv, Typed, TypeOK, Write, Insert, DropList, DeleteRow, DropFile,
        DropListToo, Goto, Calls, GetCalls, ListCalls, WriteCalls, CreateCalls,
        DeleteCalls
  <2>3. ASSUME NEW q \in Request, NEW f \in Id,
               StartCreate(q, f) \/ StartDelete(q, f) \/ StartGet(q, f)
        PROVE Fresh
    BY <1>1, <2>3
    DEF CacheInv, Typed, TypeOK, StartCreate, StartDelete, StartGet, Start, Goto
  <2>4. ASSUME NEW q \in Request, StartList(q) PROVE Fresh
    BY <1>1, <2>4 DEF CacheInv, Typed, TypeOK, StartList, Start, Goto
  <2>5. ASSUME (\E f \in Id : ExpireFile(f)) \/ ExpireList \/ Crash
        PROVE [Fresh]_vars
    BY <1>1, <2>5 DEF CacheInv, Typed, TypeOK, ExpireFile, ExpireList, Crash
  <2> HIDE DEF Fresh
  <2> QED
    BY <1>1, <2>1, <2>2, <2>3, <2>4, <2>5 DEF Next
<1>2. CacheInv /\ [Next]_vars => CacheInv'
  BY NextCache
<1> QED
  BY <1>1, <1>2, InitCache, PTL DEF Spec, FreshAnswers
=============================================================================
