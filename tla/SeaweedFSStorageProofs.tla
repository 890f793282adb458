------------------------ MODULE SeaweedFSStorageProofs ------------------------
(***************************************************************************)
(* What TLAPS proves about SeaweedFSStorage for any number of clients and    *)
(* paths: a mapping leads to bytes, and the three requests of a Put are one  *)
(* to those who use it, so that what holds of SeaweedFSSimple holds here.     *)
(***************************************************************************)
EXTENDS SeaweedFSStorage, TLAPS

\* A Put has its path, and its bytes are on the volume once it was told so.
BytesFirst ==
    \A c \in Client :
        /\ op[c] # "none" => path[c] \in Path
        /\ op[c] = "none" <=> pc[c] = "idle"
        /\ wire[c] # "none" => op[c] # "none"
        /\ stage[c] # "assign" => op[c] = "Put"
        /\ stage[c] = "bytes" /\ wire[c] = "2xx" => path[c] \in volume
        /\ stage[c] = "mapping" => path[c] \in volume

MappedInv == MappedTypeOK /\ BytesFirst /\ MappingNamesVolume

LEMMA InitMapped == MappedInit => MappedInv
BY DEF MappedInit, Init, NoCalls, MappedInv, MappedTypeOK, TypeOK, BytesFirst,
       MappingNamesVolume, Calling, Final, Stages

LEMMA NextMapped == MappedInv /\ [MappedNext]_mappedVars => MappedInv'
<1> SUFFICES ASSUME MappedInv, [MappedNext]_mappedVars PROVE MappedInv'
  OBVIOUS
<1> USE PathAssumption
    DEF MappedInv, MappedTypeOK, TypeOK, BytesFirst, MappingNamesVolume, Stages, Method,
        Calling, Final, Reply, Goto, Answer, volumeVars, Asks
<1>1. ASSUME NEW c \in Client, NEW m \in Method, NEW p \in Path,
             Start(c, m, p), UNCHANGED volumeVars
      PROVE  MappedInv'
  BY <1>1 DEF Start, Call
<1>2. ASSUME NEW c \in Client, Advance(c) PROVE MappedInv'
  BY <1>2 DEF Advance
<1>3. ASSUME NEW c \in Client, MappingReply(c) PROVE MappedInv'
  BY <1>3 DEF MappingReply, PutReply
<1>4. ASSUME NEW c \in Client, SameCall(c) \/ ReadMapping(c) PROVE MappedInv'
  BY <1>4 DEF SameCall, ReadMapping, Send, GetReply, DeleteReply, Body, GiveUp
<1>5. ASSUME NEW c \in Client, ServeAssign(c) PROVE MappedInv'
  BY <1>5 DEF ServeAssign
<1>6. ASSUME NEW c \in Client, ServeBytes(c) PROVE MappedInv'
  BY <1>6 DEF ServeBytes
<1>7. ASSUME NEW c \in Client, ServeMapping(c) PROVE MappedInv'
  BY <1>7 DEF ServeMapping, ServePut
<1>8. ASSUME NEW c \in Client, ServeSame(c) PROVE MappedInv'
  BY <1>8 DEF ServeSame, ServeGet, ServeDelete
<1>9. CASE Crash /\ UNCHANGED volumeVars
  BY <1>9 DEF Crash
<1>10. CASE UNCHANGED mappedVars
  BY <1>10 DEF mappedVars, vars
<1> QED
  BY <1>1, <1>2, <1>3, <1>4, <1>5, <1>6, <1>7, <1>8, <1>9, <1>10
  DEF MappedNext, Finished, mappedVars

\* Every mapping, and every path a row may name, leads to bytes on a volume, for any
\* number of clients and whatever is lost or late.
THEOREM MappingNamesVolumeHolds == MappedSpec => []MappingNamesVolume
<1>1. MappedInv => MappingNamesVolume
  BY DEF MappedInv
<1> QED
  BY <1>1, InitMapped, NextMapped, PTL DEF MappedSpec

-----------------------------------------------------------------------------
(* To its users the three requests are one: until Put asks for the mapping, it *)
(* is as if nothing had been sent.                                            *)

Early(c) == op[c] = "Put" /\ stage[c] # "mapping"

pcBar == [c \in Client |-> IF Early(c) /\ pc[c] = "wait" THEN "send" ELSE pc[c]]
wireBar == [c \in Client |-> IF Early(c) THEN "none" ELSE wire[c]]

Entry == INSTANCE SeaweedFSSimpleProofs WITH pc <- pcBar, wire <- wireBar

LEMMA InitEntry == MappedInit => Entry!Init
BY DEF MappedInit, Init, NoCalls, Entry!Init, Entry!NoCalls, pcBar, wireBar, Early

\* What a user sees of a client that moves on, and of an answer on the wire.
LEMMA MovesEntry ==
    ASSUME MappedInv, NEW c \in Client, NEW l, Goto(c, l), UNCHANGED <<op, stage>>,
           Early(c) => l # "wait"
    PROVE  pcBar' = [pcBar EXCEPT ![c] = l]
BY DEF MappedInv, MappedTypeOK, TypeOK, Goto, pcBar, Early

LEMMA AnswersEntry ==
    ASSUME MappedInv, NEW c \in Client, NEW s, Answer(c, s), UNCHANGED <<op, stage>>,
           ~ Early(c)
    PROVE  wireBar' = [wireBar EXCEPT ![c] = s]
<1>1. ASSUME NEW d \in Client
      PROVE  (IF Early(d)' THEN "none" ELSE wire'[d]) = IF d = c THEN s ELSE wireBar[d]
  BY DEF MappedInv, MappedTypeOK, TypeOK, Answer, wireBar, Early
<1> QED
  BY <1>1 DEF wireBar

LEMMA StepEntry ==
    ASSUME MappedInv, [MappedNext]_mappedVars
    PROVE  [Entry!Next]_(Entry!vars)
<1> USE DEF Entry!Goto, Entry!Answer, Entry!vars, volumeVars
<1>wire. UNCHANGED <<op, stage, wire>> => UNCHANGED wireBar
  BY DEF wireBar, Early
<1>pc. UNCHANGED <<op, stage, pc>> => UNCHANGED pcBar
  BY DEF pcBar, Early
<1>late. ASSUME NEW c \in Client, ~ Early(c) PROVE pcBar[c] = pc[c] /\ wireBar[c] = wire[c]
  BY <1>late DEF pcBar, wireBar
<1>fails. ASSUME NEW c \in Client, Early(c), pc[c] \in {"send", "wait"}, Goto(c, "err"),
                 UNCHANGED <<filer, stored, op, path, stage, wire>>
          PROVE  Entry!Send(c)
  <2>1. pcBar' = [pcBar EXCEPT ![c] = "err"]
    BY <1>fails, MovesEntry
  <2>2. pcBar[c] = "send"
    BY <1>fails DEF pcBar
  <2> QED
    BY <2>1, <2>2, <1>fails, <1>wire DEF Entry!Send
<1>1. ASSUME NEW c \in Client, NEW m \in Method, NEW p \in Path,
             Start(c, m, p), UNCHANGED volumeVars
      PROVE  Entry!Start(c, m, p)
  <2>1. pcBar[c] = "idle" /\ pcBar' = [pcBar EXCEPT ![c] = "send"]
    BY <1>1 DEF Start, Call, Goto, MappedInv, MappedTypeOK, TypeOK, pcBar, Early
  <2>2. UNCHANGED wireBar
    BY <1>1 DEF Start, Call, MappedInv, MappedTypeOK, TypeOK, BytesFirst, wireBar, Early
  <2> QED
    BY <1>1, <2>1, <2>2 DEF Start, Call, Entry!Start, Entry!Call
<1>2. ASSUME NEW c \in Client, Advance(c) PROVE UNCHANGED Entry!vars
  <2>1. UNCHANGED pcBar
    BY <1>2 DEF Advance, Goto, MappedInv, MappedTypeOK, TypeOK, pcBar, Early
  <2>2. UNCHANGED wireBar
    BY <1>2 DEF Advance, Answer, MappedInv, MappedTypeOK, TypeOK, wireBar, Early, Stages
  <2> QED
    BY <1>2, <2>1, <2>2 DEF Advance
<1>3. ASSUME NEW c \in Client, MappingReply(c) PROVE Entry!Send(c) \/ Entry!PutReply(c)
  <2>1. CASE Early(c)
    <3>1. wire[c] # "2xx"
      BY <1>3, <2>1 DEF MappingReply, Early
    <3> QED
      BY <1>3, <2>1, <3>1, <1>fails DEF MappingReply, PutReply
  <2>2. CASE ~ Early(c)
    BY <1>3, <2>2, <1>late, <1>wire, MovesEntry DEF MappingReply, PutReply, Entry!PutReply
  <2> QED
    BY <2>1, <2>2
<1>4. ASSUME NEW c \in Client, SameCall(c) \/ ReadMapping(c)
      PROVE  Entry!ClientStep(c) \/ UNCHANGED Entry!vars
  <2> USE DEF SameCall, ReadMapping, Entry!ClientStep
  <2>1. CASE Send(c) /\ Early(c)
    <3>1. CASE Goto(c, "wait") /\ Answer(c, "request")
      <4>1. UNCHANGED pcBar
        BY <1>4, <2>1, <3>1 DEF Send, Goto, MappedInv, MappedTypeOK, TypeOK, pcBar, Early
      <4>2. UNCHANGED wireBar
        BY <1>4, <2>1, <3>1
        DEF Send, Answer, MappedInv, MappedTypeOK, TypeOK, wireBar, Early
      <4> QED
        BY <1>4, <2>1, <4>1, <4>2 DEF Send
    <3>2. CASE Goto(c, "err") /\ UNCHANGED wire
      BY <1>4, <2>1, <3>2, <1>fails DEF Send
    <3> QED
      BY <2>1, <3>1, <3>2 DEF Send
  <2>2. CASE Send(c) /\ ~ Early(c)
    BY <1>4, <2>2, <1>late, <1>wire, MovesEntry, AnswersEntry DEF Send, Entry!Send
  <2>3. CASE GetReply(c)
    <3>1. ~ Early(c)
      BY <2>3 DEF GetReply, Early
    <3> QED
      BY <1>4, <2>3, <3>1, <1>late, <1>wire, MovesEntry DEF GetReply, Entry!GetReply
  <2>4. CASE DeleteReply(c)
    <3>1. ~ Early(c)
      BY <2>4 DEF DeleteReply, Early
    <3> QED
      BY <1>4, <2>4, <3>1, <1>late, <1>wire, MovesEntry
      DEF DeleteReply, Entry!DeleteReply
  <2>5. CASE Body(c)
    <3>1. pcBar[c] = "body"
      BY <2>5 DEF Body, pcBar
    <3> QED
      BY <1>4, <2>5, <3>1, <1>wire, MovesEntry DEF Body, Entry!Body
  <2>6. CASE GiveUp(c) /\ Early(c) /\ pc[c] = "wait"
    BY <1>4, <2>6, <1>fails DEF GiveUp
  <2>7. CASE GiveUp(c) /\ ~ (Early(c) /\ pc[c] = "wait")
    <3>1. pcBar[c] = pc[c]
      BY <2>7 DEF pcBar
    <3> QED
      BY <1>4, <2>7, <3>1, <1>wire, MovesEntry DEF GiveUp, Entry!GiveUp
  <2> QED
    BY <1>4, <2>1, <2>2, <2>3, <2>4, <2>5, <2>6, <2>7
<1>5. ASSUME NEW c \in Client, ServeAssign(c) \/ ServeBytes(c)
      PROVE  UNCHANGED Entry!vars
  <2>1. UNCHANGED wireBar
    BY <1>5 DEF ServeAssign, ServeBytes, Asks, Answer, MappedInv, MappedTypeOK, TypeOK,
                wireBar, Early
  <2> QED
    BY <1>5, <2>1, <1>pc DEF ServeAssign, ServeBytes
<1>6. ASSUME NEW c \in Client, ServeMapping(c) PROVE Entry!ServePut(c)
  <2>1. ~ Early(c)
    BY <1>6 DEF ServeMapping, Asks, Early
  <2> QED
    BY <1>6, <2>1, <1>late, <1>pc, AnswersEntry DEF ServeMapping, ServePut, Entry!ServePut
<1>7. ASSUME NEW c \in Client, ServeSame(c) PROVE Entry!Serve(c)
  <2>1. ~ Early(c)
    BY <1>7 DEF ServeSame, ServeGet, ServeDelete, Early
  <2>2. CASE ServeGet(c)
    BY <1>7, <2>1, <2>2, <1>late, <1>pc, AnswersEntry
    DEF ServeSame, ServeGet, Entry!ServeGet, Entry!Serve
  <2>3. CASE ServeDelete(c)
    BY <1>7, <2>1, <2>3, <1>late, <1>pc, AnswersEntry
    DEF ServeSame, ServeDelete, Entry!ServeDelete, Entry!Serve
  <2> QED
    BY <1>7, <2>2, <2>3 DEF ServeSame
<1>8. CASE Crash /\ UNCHANGED volumeVars
  <2>1. \A c \in Client : pcBar[c] \in Calling <=> pc[c] \in Calling
    BY DEF pcBar, Calling
  <2>2. pcBar' = [c \in Client |-> IF pcBar[c] \in Calling THEN "err" ELSE pcBar[c]]
    <3>1. ASSUME NEW c \in Client
          PROVE  (IF Early(c)' /\ pc'[c] = "wait" THEN "send" ELSE pc'[c])
                     = IF pcBar[c] \in Calling THEN "err" ELSE pcBar[c]
      BY <1>8, <2>1 DEF Crash, pcBar, Early, Calling
    <3> QED
      BY <3>1 DEF pcBar
  <2>3. \E c \in Client : pcBar[c] \in Calling
    BY <1>8, <2>1 DEF Crash
  <2>4. Entry!Crash
    BY <1>8, <2>2, <2>3, <1>wire DEF Crash, Entry!Crash, Calling, Entry!Calling
  <2> QED
    BY <2>4 DEF Entry!Next
<1>9. CASE UNCHANGED mappedVars
  BY <1>9, <1>pc, <1>wire DEF mappedVars, vars
<1>10. CASE \E c \in Client, m \in Method, p \in Path : Start(c, m, p) /\ UNCHANGED volumeVars
  BY <1>1, <1>10 DEF Entry!Next, Entry!Method, Method
<1>11. CASE \E c \in Client :
                \/ Advance(c) \/ MappingReply(c) \/ SameCall(c) \/ ReadMapping(c)
                \/ ServeAssign(c) \/ ServeBytes(c) \/ ServeMapping(c) \/ ServeSame(c)
  BY <1>2, <1>3, <1>4, <1>5, <1>6, <1>7, <1>11
  DEF Entry!Next, Entry!ClientStep, Entry!Serve
<1>12. CASE Finished /\ UNCHANGED volumeVars
  BY <1>12, <1>9 DEF Finished, mappedVars
<1> QED
  BY <1>8, <1>9, <1>10, <1>11, <1>12 DEF MappedNext

\* The three requests of a Put are one to those who use the store: the volumes and
\* the mapping implement the filer's client of one request, whatever is lost or late.
THEOREM MappedImplementsSimple == MappedSpec => Entry!Spec
<1>1. MappedInv /\ [MappedNext]_mappedVars => [Entry!Next]_(Entry!vars)
  BY StepEntry
<1> QED
  BY <1>1, InitEntry, InitMapped, NextMapped, PTL DEF MappedSpec, Entry!Spec

LEMMA SameGone == Entry!GoneForGood => GoneForGood
<1> SUFFICES ASSUME Entry!GoneForGood, NEW c \in Client,
                    (op[c] = "Delete" /\ pc[c] = "ok") \/ pc[c] = "missing"
             PROVE  path[c] \notin filer
  BY DEF GoneForGood
<1>1. pcBar[c] = pc[c]
  BY DEF pcBar
<1> QED
  BY <1>1 DEF Entry!GoneForGood

\* No request under way brings a mapping back that a Delete acknowledged or a Get
\* missed, although a Put makes it long after the bytes were stored.
THEOREM MappedGoneForGood == MappedSpec => []GoneForGood
<1>1. Entry!GoneForGood => GoneForGood
  BY SameGone
<1>2. Entry!Spec => []Entry!GoneForGood
  BY Entry!GoneForGoodHolds, PathAssumption, PiecesAssumption
<1> QED
  BY <1>1, <1>2, MappedImplementsSimple, PTL

-----------------------------------------------------------------------------
(* The refinement: a user cannot tell the states of a call apart either. *)

LEMMA SameStates ==
    /\ [c \in Client |-> Entry!StateOf(c)] = [c \in Client |-> StateOf(c)]
    /\ [c \in Client |-> Entry!StateOf(c)]' = [c \in Client |-> StateOf(c)]'
<1>1. ASSUME NEW c \in Client PROVE Entry!StateOf(c) = StateOf(c)
  BY DEF Entry!StateOf, Entry!Opened, Entry!Final, StateOf, Opened, Final,
         pcBar, wireBar, Early
<1>2. ASSUME NEW c \in Client PROVE Entry!StateOf(c)' = StateOf(c)'
  <2>1. /\ pcBar'[c] = IF Early(c)' /\ pc'[c] = "wait" THEN "send" ELSE pc'[c]
        /\ wireBar'[c] = IF Early(c)' THEN "none" ELSE wire'[c]
    BY DEF pcBar, wireBar
  <2>2. Early(c)' => op'[c] = "Put"
    BY DEF Early
  <2> QED
    BY <2>1, <2>2
    DEF Entry!StateOf, Entry!Opened, Entry!Final, StateOf, Opened, Final
<1> QED
  BY <1>1, <1>2

LEMMA SameBlobs ==
    /\ [p \in Path |-> Entry!BlobOf(p)] = [p \in Path |-> BlobOf(p)]
    /\ [p \in Path |-> Entry!BlobOf(p)]' = [p \in Path |-> BlobOf(p)]'
<1>1. ASSUME NEW p \in Path PROVE Entry!BlobOf(p) = BlobOf(p)
  BY DEF Entry!BlobOf, BlobOf
<1>2. ASSUME NEW p \in Path PROVE Entry!BlobOf(p)' = BlobOf(p)'
  BY DEF Entry!BlobOf, BlobOf
<1> QED
  BY <1>1, <1>2

LEMMA StepBlob ==
    ASSUME Entry!FilerInv, [Entry!Next]_(Entry!vars)
    PROVE  [Blob!Next]_(Blob!vars)
<1> USE SameStates, SameBlobs
    DEF Entry!Blob!Calls, Entry!Blob!To, Entry!Blob!Make, Blob!Calls, Blob!To, Blob!Make
<1>1. [Entry!Blob!Next]_(Entry!Blob!vars)
  BY Entry!BlobStep, PathAssumption, PiecesAssumption
<1>2. ASSUME NEW c \in Client, NEW m, NEW p, Entry!Blob!Start(c, m, p)
      PROVE  Blob!Start(c, m, p)
  BY <1>2 DEF Entry!Blob!Start, Blob!Start
<1>3. ASSUME NEW c \in Client, Entry!Blob!Put(c) PROVE Blob!Put(c)
  BY <1>3 DEF Entry!Blob!Put, Blob!Put
<1>4. ASSUME NEW c \in Client, Entry!Blob!Open(c) PROVE Blob!Open(c)
  BY <1>4 DEF Entry!Blob!Open, Blob!Open
<1>5. ASSUME NEW c \in Client, Entry!Blob!Read(c) PROVE Blob!Read(c)
  BY <1>5 DEF Entry!Blob!Read, Blob!Read
<1>6. ASSUME NEW c \in Client, Entry!Blob!Miss(c) PROVE Blob!Miss(c)
  BY <1>6 DEF Entry!Blob!Miss, Blob!Miss
<1>7. ASSUME NEW c \in Client, Entry!Blob!Delete(c) PROVE Blob!Delete(c)
  BY <1>7 DEF Entry!Blob!Delete, Blob!Delete
<1>8. ASSUME NEW c \in Client, Entry!Blob!Remove(c) PROVE Blob!Remove(c)
  BY <1>8 DEF Entry!Blob!Remove, Blob!Remove
<1>9. ASSUME NEW S \in SUBSET Client, Entry!Blob!Fail(S) PROVE Blob!Fail(S)
  BY <1>9 DEF Entry!Blob!Fail, Blob!Fail
<1>10. UNCHANGED Entry!Blob!vars => UNCHANGED Blob!vars
  BY DEF Entry!Blob!vars, Blob!vars
<1> QED
  BY <1>1, <1>2, <1>3, <1>4, <1>5, <1>6, <1>7, <1>8, <1>9, <1>10
  DEF Entry!Blob!Next, Blob!Next, Entry!Blob!Method, Blob!Method

\* The volumes and the mapping implement the blob store, as far as the entry goes.
THEOREM MappedRefinesBlobStore == MappedSpec => RefinesBlobStore
<1>1. Entry!FilerInv /\ [Entry!Next]_(Entry!vars) => [Blob!Next]_(Blob!vars)
  BY StepBlob
<1>2. MappedInit => Blob!Init
  BY DEF MappedInit, Init, NoCalls, Blob!Init, BlobOf, StateOf, Opened, Final
<1>3. Entry!Spec => []Entry!FilerInv
  BY Entry!FilerInvariant, PathAssumption, PiecesAssumption
<1> QED
  BY <1>1, <1>2, <1>3, MappedImplementsSimple, PTL
  DEF MappedSpec, Entry!Spec, RefinesBlobStore, Blob!Spec
=============================================================================
