----------------------- MODULE SeaweedFSSimpleProofs -----------------------
(***************************************************************************)
(* What TLAPS proves about SeaweedFSSimple for any number of clients and    *)
(* paths: no request still under way brings a blob back, and the filer's     *)
(* client is a blob store.                                                  *)
(***************************************************************************)
EXTENDS SeaweedFSSimple, TLAPS

\* The method each state of a call belongs to.
CallsFit ==
    \A c \in Client :
        /\ pc[c] \in {"body", "missing"} => op[c] = "Get"
        /\ op[c] # "none" => path[c] \in Path
        /\ op[c] = "none" <=> pc[c] = "idle"
        /\ pc[c] \in {"idle", "send"} => wire[c] = "none"
        /\ wire[c] = "request" => pc[c] \in {"wait", "err"}

\* A path belongs to one Put, and is asked for only after that went well; by then
\* the filer has answered it.
PathsFresh ==
    /\ \A c, d \in Client : op[c] = "Put" /\ op[d] = "Put" /\ path[c] = path[d] => c = d
    /\ \A p \in stored : \E c \in Client : op[c] = "Put" /\ path[c] = p
    /\ \A c \in Client : op[c] \in {"Get", "Delete"} => path[c] \in stored
    /\ \A c \in Client : op[c] = "Put" /\ path[c] \in stored => pc[c] = "ok" /\ wire[c] = "2xx"

\* What an answer on the wire, or received, says of the filer.
AnswersTrue ==
    \A c \in Client :
        /\ op[c] = "Put" /\ path[c] \notin stored /\ wire[c] = "2xx" => path[c] \in filer
        /\ op[c] = "Get" /\ wire[c] = "404" => path[c] \notin filer
        /\ op[c] = "Delete" /\ wire[c] \in {"2xx", "404"} => path[c] \notin filer

FilerInv == TypeOK /\ CallsFit /\ PathsFresh /\ AnswersTrue /\ GoneForGood

-----------------------------------------------------------------------------
(* The invariant *)

LEMMA InitFiler == Init => FilerInv
BY DEF Init, NoCalls, FilerInv, TypeOK, CallsFit, PathsFresh, AnswersTrue, GoneForGood, Calling, Final

LEMMA NextFiler == FilerInv /\ [Next]_vars => FilerInv'
<1> SUFFICES ASSUME FilerInv, [Next]_vars PROVE FilerInv'
  OBVIOUS
<1> USE PathAssumption
    DEF FilerInv, TypeOK, CallsFit, Method, Calling, Final, Reply, Goto, Answer, Call
<1>1. ASSUME NEW c \in Client, NEW m \in Method, NEW p \in Path, Start(c, m, p)
      PROVE  FilerInv'
  <2>1. TypeOK' /\ CallsFit'
    BY <1>1 DEF Start
  <2>2. PathsFresh'
    <3>1. \A d, e \in Client :
              op'[d] = "Put" /\ op'[e] = "Put" /\ path'[d] = path'[e] => d = e
      BY <1>1 DEF Start, PathsFresh
    <3>2. \A q \in stored' : \E d \in Client : op'[d] = "Put" /\ path'[d] = q
      <4> SUFFICES ASSUME NEW q \in stored
                   PROVE  \E d \in Client : op'[d] = "Put" /\ path'[d] = q
        BY <1>1 DEF Start
      <4>1. PICK d \in Client : op[d] = "Put" /\ path[d] = q
        BY DEF PathsFresh
      <4>2. d # c
        BY <1>1, <4>1 DEF Start
      <4> QED
        BY <1>1, <4>1, <4>2 DEF Start
    <3>3. \A d \in Client : op'[d] \in {"Get", "Delete"} => path'[d] \in stored'
      BY <1>1 DEF Start, PathsFresh
    <3>4. m = "Put" => p \notin stored
      BY <1>1 DEF Start, PathsFresh
    <3>5. \A d \in Client : op'[d] = "Put" /\ path'[d] \in stored' => pc'[d] = "ok" /\ wire'[d] = "2xx"
      BY <1>1, <3>4 DEF Start, PathsFresh
    <3> QED
      BY <3>1, <3>2, <3>3, <3>5 DEF PathsFresh
  <2>3. AnswersTrue' /\ GoneForGood'
    BY <1>1 DEF Start, AnswersTrue, GoneForGood
  <2> QED
    BY <2>1, <2>2, <2>3
<1>2. ASSUME NEW c \in Client, Send(c) PROVE FilerInv'
  <2>1. TypeOK' /\ CallsFit'
    BY <1>2 DEF Send
  <2>2. PathsFresh'
    BY <1>2 DEF Send, PathsFresh
  <2>3. AnswersTrue'
    BY <1>2 DEF Send, AnswersTrue, PathsFresh
  <2>4. GoneForGood'
    BY <1>2 DEF Send, GoneForGood, AnswersTrue, PathsFresh
  <2> QED
    BY <2>1, <2>2, <2>3, <2>4
<1>3. ASSUME NEW c \in Client, PutReply(c) PROVE FilerInv'
  <2>1. TypeOK' /\ CallsFit'
    BY <1>3 DEF PutReply
  <2>2. PathsFresh'
    BY <1>3 DEF PutReply, PathsFresh
  <2>3. AnswersTrue'
    BY <1>3 DEF PutReply, AnswersTrue, PathsFresh
  <2>4. GoneForGood'
    BY <1>3 DEF PutReply, GoneForGood, AnswersTrue, PathsFresh
  <2> QED
    BY <2>1, <2>2, <2>3, <2>4
<1>4. ASSUME NEW c \in Client, GetReply(c) PROVE FilerInv'
  <2>1. TypeOK' /\ CallsFit'
    BY <1>4 DEF GetReply
  <2>2. PathsFresh'
    BY <1>4 DEF GetReply, PathsFresh
  <2>3. AnswersTrue'
    BY <1>4 DEF GetReply, AnswersTrue, PathsFresh
  <2>4. GoneForGood'
    BY <1>4 DEF GetReply, GoneForGood, AnswersTrue, PathsFresh
  <2> QED
    BY <2>1, <2>2, <2>3, <2>4
<1>5. ASSUME NEW c \in Client, DeleteReply(c) PROVE FilerInv'
  <2>1. TypeOK' /\ CallsFit'
    BY <1>5 DEF DeleteReply
  <2>2. PathsFresh'
    BY <1>5 DEF DeleteReply, PathsFresh
  <2>3. AnswersTrue'
    BY <1>5 DEF DeleteReply, AnswersTrue, PathsFresh
  <2>4. GoneForGood'
    BY <1>5 DEF DeleteReply, GoneForGood, AnswersTrue, PathsFresh
  <2> QED
    BY <2>1, <2>2, <2>3, <2>4
<1>6. ASSUME NEW c \in Client, Body(c) PROVE FilerInv'
  <2>1. TypeOK' /\ CallsFit'
    BY <1>6 DEF Body
  <2>2. PathsFresh'
    BY <1>6 DEF Body, PathsFresh
  <2>3. AnswersTrue'
    BY <1>6 DEF Body, AnswersTrue, PathsFresh
  <2>4. GoneForGood'
    BY <1>6 DEF Body, GoneForGood, AnswersTrue, PathsFresh
  <2> QED
    BY <2>1, <2>2, <2>3, <2>4
<1>7. ASSUME NEW c \in Client, GiveUp(c) PROVE FilerInv'
  <2>1. TypeOK' /\ CallsFit'
    BY <1>7 DEF GiveUp
  <2>2. PathsFresh'
    BY <1>7 DEF GiveUp, PathsFresh
  <2>3. AnswersTrue'
    BY <1>7 DEF GiveUp, AnswersTrue, PathsFresh
  <2>4. GoneForGood'
    BY <1>7 DEF GiveUp, GoneForGood, AnswersTrue, PathsFresh
  <2> QED
    BY <2>1, <2>2, <2>3, <2>4
<1>8. ASSUME NEW c \in Client, ServePut(c) PROVE FilerInv'
  <2>1. TypeOK' /\ CallsFit'
    BY <1>8 DEF ServePut
  <2>2. PathsFresh'
    BY <1>8 DEF ServePut, PathsFresh
  <2>3. AnswersTrue'
    BY <1>8 DEF ServePut, AnswersTrue, PathsFresh
  <2>4. GoneForGood'
    BY <1>8 DEF ServePut, GoneForGood, AnswersTrue, PathsFresh
  <2> QED
    BY <2>1, <2>2, <2>3, <2>4
<1>9. ASSUME NEW c \in Client, ServeGet(c) PROVE FilerInv'
  <2>1. TypeOK' /\ CallsFit'
    BY <1>9 DEF ServeGet
  <2>2. PathsFresh'
    BY <1>9 DEF ServeGet, PathsFresh
  <2>3. AnswersTrue'
    BY <1>9 DEF ServeGet, AnswersTrue, PathsFresh
  <2>4. GoneForGood'
    BY <1>9 DEF ServeGet, GoneForGood, AnswersTrue, PathsFresh
  <2> QED
    BY <2>1, <2>2, <2>3, <2>4
<1>10. ASSUME NEW c \in Client, ServeDelete(c) PROVE FilerInv'
  <2>1. TypeOK' /\ CallsFit'
    BY <1>10 DEF ServeDelete
  <2>2. PathsFresh'
    BY <1>10 DEF ServeDelete, PathsFresh
  <2>3. AnswersTrue'
    BY <1>10 DEF ServeDelete, AnswersTrue, PathsFresh
  <2>4. GoneForGood'
    BY <1>10 DEF ServeDelete, GoneForGood, AnswersTrue, PathsFresh
  <2> QED
    BY <2>1, <2>2, <2>3, <2>4
<1>11. CASE Crash
  BY <1>11 DEF Crash, PathsFresh, AnswersTrue, GoneForGood
<1>12. CASE UNCHANGED vars
  BY <1>12 DEF vars, PathsFresh, AnswersTrue, GoneForGood
<1> QED
  BY <1>1, <1>2, <1>3, <1>4, <1>5, <1>6, <1>7, <1>8, <1>9, <1>10, <1>11, <1>12
  DEF Next, ClientStep, Serve, Finished

LEMMA FilerInvariant == Spec => []FilerInv
BY InitFiler, NextFiler, PTL DEF Spec

\* Every variable of the filer's client keeps its type.
THEOREM TypeCorrect == Spec => []TypeOK
<1>1. FilerInv => TypeOK
  BY DEF FilerInv
<1> QED
  BY <1>1, FilerInvariant, PTL

\* A blob that was deleted, or missed once, never comes back, for any number of
\* clients and whatever is lost, late or sent again.
THEOREM GoneForGoodHolds == Spec => []GoneForGood
<1>1. FilerInv => GoneForGood
  BY DEF FilerInv
<1> QED
  BY <1>1, FilerInvariant, PTL

-----------------------------------------------------------------------------
(* The refinement *)

LEMMA InitBlob == Init => Blob!Init
BY DEF Init, NoCalls, Blob!Init, BlobOf, StateOf, Opened, Final

\* What the abstract store sees of a client that moves on, and of the others.
LEMMA Moves ==
    ASSUME FilerInv, NEW c \in Client, NEW l, Goto(c, l), UNCHANGED <<op, wire>>
    PROVE  /\ \A d \in Client : d # c => StateOf(d)' = StateOf(d)
           /\ l \in Final => StateOf(c)' = l
           /\ l = "body" => StateOf(c)' = "reading"
<1>1. pc'[c] = l
  BY DEF FilerInv, TypeOK, Goto
<1>2. ASSUME NEW d \in Client, d # c PROVE StateOf(d)' = StateOf(d)
  <2>1. pc'[d] = pc[d]
    BY <1>2 DEF FilerInv, TypeOK, Goto
  <2>2. Opened(d)' = Opened(d)
    BY <2>1 DEF Opened
  <2> QED
    BY <2>1, <2>2 DEF StateOf
<1>3. l \in Final => StateOf(c)' = l
  BY <1>1 DEF StateOf, Opened, Final
<1>4. l = "body" => StateOf(c)' = "reading"
  BY <1>1 DEF StateOf, Final
<1> QED
  BY <1>2, <1>3, <1>4

\* The same for a step on the wire of one client.
LEMMA Wires ==
    ASSUME FilerInv, NEW c \in Client, NEW s, Answer(c, s), UNCHANGED <<op, pc>>
    PROVE  /\ \A d \in Client : d # c => StateOf(d)' = StateOf(d)
           /\ Opened(c)' = Opened(c) => StateOf(c)' = StateOf(c)
           /\ Opened(c)' = (pc[c] = "wait" /\ op[c] = "Get" /\ s = "2xx")
<1>1. wire'[c] = s
  BY DEF FilerInv, TypeOK, Answer
<1>2. ASSUME NEW d \in Client, d # c PROVE StateOf(d)' = StateOf(d)
  <2>1. wire'[d] = wire[d]
    BY <1>2 DEF FilerInv, TypeOK, Answer
  <2>2. Opened(d)' = Opened(d)
    BY <2>1 DEF Opened
  <2> QED
    BY <2>2 DEF StateOf
<1>3. Opened(c)' = Opened(c) => StateOf(c)' = StateOf(c)
  BY DEF StateOf
<1>4. Opened(c)' = (pc[c] = "wait" /\ op[c] = "Get" /\ s = "2xx")
  BY <1>1 DEF Opened
<1> QED
  BY <1>2, <1>3, <1>4

LEMMA ClientImplements ==
    ASSUME FilerInv, NEW c \in Client, ClientStep(c)
    PROVE  \/ Blob!Put(c) \/ Blob!Read(c) \/ Blob!Miss(c) \/ Blob!Delete(c)
           \/ Blob!Fail({c}) \/ UNCHANGED Blob!vars
<1> USE DEF FilerInv, TypeOK, Final
<1>blobs. UNCHANGED <<filer, stored>> => UNCHANGED [p \in Path |-> BlobOf(p)]
  BY DEF BlobOf
<1>fails. ASSUME pc[c] \in Calling, Goto(c, "err"), UNCHANGED <<filer, stored, op, path, wire>>
          PROVE  Blob!Fail({c})
  <2>1. \A d \in Client : StateOf(d)' = IF d \in {c} THEN "err" ELSE StateOf(d)
    BY <1>fails, Moves
  <2>2. StateOf(c) \in {"called", "reading"}
    BY <1>fails DEF StateOf, Calling
  <2> QED
    BY <2>1, <2>2, <1>fails, <1>blobs DEF Blob!Fail
<1>1. CASE Send(c)
  <2>1. CASE Goto(c, "wait") /\ Answer(c, "request")
    <3>1. ASSUME NEW d \in Client PROVE StateOf(d)' = StateOf(d)
      <4>1. CASE d = c
        BY <1>1, <2>1, <4>1 DEF Send, Goto, Answer, StateOf, Opened
      <4>2. CASE d # c
        <5>1. pc'[d] = pc[d] /\ Opened(d)' = Opened(d)
          BY <1>1, <2>1, <4>2 DEF Send, Goto, Answer, Opened
        <5> QED
          BY <5>1 DEF StateOf
      <4> QED
        BY <4>1, <4>2
    <3> QED
      BY <1>1, <3>1, <1>blobs DEF Send, Blob!vars
  <2> QED
    BY <1>1, <2>1, <1>fails DEF Send, Calling
<1>2. CASE PutReply(c)
  <2>1. CASE wire[c] = "2xx" /\ stored' = stored \cup {path[c]} /\ Goto(c, "ok")
    <3>1. path[c] \in filer /\ path[c] \in Path
      BY <1>2, <2>1 DEF PutReply, AnswersTrue, PathsFresh, CallsFit
    <3>2. StateOf(c) = "called"
      BY <1>2 DEF PutReply, StateOf, Opened
    <3>3. \A p \in Path : BlobOf(p)' = IF p = path[c] THEN "stored" ELSE BlobOf(p)
      BY <1>2, <2>1, <3>1 DEF PutReply, BlobOf
    <3>4. \A d \in Client : StateOf(d)' = IF d = c THEN "ok" ELSE StateOf(d)
      BY <1>2, <2>1, Moves DEF PutReply
    <3> QED
      BY <1>2, <3>1, <3>2, <3>3, <3>4 DEF PutReply, Blob!Put, Blob!Calls, Blob!Make, Blob!To
  <2> QED
    BY <1>2, <2>1, <1>fails DEF PutReply, Calling
<1>3. CASE GetReply(c)
  <2>1. CASE wire[c] = "2xx" /\ Goto(c, "body")
    <3>1. StateOf(c) = "reading"
      BY <1>3, <2>1 DEF GetReply, StateOf, Opened
    <3>2. \A d \in Client : StateOf(d)' = StateOf(d)
      BY <1>3, <2>1, <3>1, Moves DEF GetReply
    <3> QED
      BY <1>3, <3>2, <1>blobs DEF GetReply, Blob!vars
  <2>2. CASE wire[c] = "404" /\ Goto(c, "missing")
    <3>1. StateOf(c) = "called"
      BY <1>3, <2>2 DEF GetReply, StateOf, Opened
    <3>2. path[c] \in Path /\ BlobOf(path[c]) = "removed"
      BY <1>3, <2>2 DEF GetReply, BlobOf, AnswersTrue, PathsFresh, CallsFit
    <3>3. \A d \in Client : StateOf(d)' = IF d = c THEN "missing" ELSE StateOf(d)
      BY <1>3, <2>2, Moves DEF GetReply
    <3> QED
      BY <1>3, <3>1, <3>2, <3>3, <1>blobs DEF GetReply, Blob!Miss, Blob!Calls, Blob!To
  <2> QED
    BY <1>3, <2>1, <2>2, <1>fails DEF GetReply, Calling
<1>4. CASE DeleteReply(c)
  <2>1. CASE wire[c] \in {"2xx", "404"} /\ Goto(c, "ok")
    <3>1. StateOf(c) = "called"
      BY <1>4 DEF DeleteReply, StateOf, Opened
    <3>2. path[c] \in stored /\ path[c] \notin filer
      BY <1>4, <2>1 DEF DeleteReply, AnswersTrue, PathsFresh
    <3>3. \A p \in Path : BlobOf(p)' = IF p = path[c] THEN "removed" ELSE BlobOf(p)
      BY <1>4, <3>2 DEF DeleteReply, BlobOf
    <3>4. \A d \in Client : StateOf(d)' = IF d = c THEN "ok" ELSE StateOf(d)
      BY <1>4, <2>1, Moves DEF DeleteReply
    <3> QED
      BY <1>4, <3>1, <3>3, <3>4 DEF DeleteReply, Blob!Delete, Blob!Calls, Blob!Make, Blob!To
  <2> QED
    BY <1>4, <2>1, <1>fails DEF DeleteReply, Calling
<1>5. CASE Body(c)
  <2>1. StateOf(c) = "reading"
    BY <1>5 DEF Body, StateOf
  <2>2. \A d \in Client : StateOf(d)' = IF d = c THEN "whole" ELSE StateOf(d)
    BY <1>5, Moves DEF Body
  <2> QED
    BY <1>5, <2>1, <2>2, <1>blobs DEF Body, Blob!Read, Blob!To
<1>6. CASE GiveUp(c)
  BY <1>6, <1>fails DEF GiveUp, Calling
<1> QED
  BY <1>1, <1>2, <1>3, <1>4, <1>5, <1>6 DEF ClientStep

LEMMA FilerImplements ==
    ASSUME FilerInv, NEW c \in Client, Serve(c)
    PROVE  Blob!Open(c) \/ Blob!Remove(c) \/ UNCHANGED Blob!vars
<1> USE DEF FilerInv, TypeOK, Final
<1>blobs. UNCHANGED <<filer, stored>> => UNCHANGED [p \in Path |-> BlobOf(p)]
  BY DEF BlobOf
<1>same. ASSUME NEW s, Answer(c, s), UNCHANGED <<op, path, pc>>, op[c] # "Get" \/ s # "2xx",
                wire[c] = "request", UNCHANGED [p \in Path |-> BlobOf(p)]
         PROVE  UNCHANGED Blob!vars
  <2>1. Opened(c)' = Opened(c)
    BY <1>same, Wires DEF Opened
  <2>2. \A d \in Client : StateOf(d)' = StateOf(d)
    BY <1>same, <2>1, Wires
  <2> QED
    BY <1>same, <2>2 DEF Blob!vars
<1>1. CASE ServePut(c)
  <2>1. path[c] \notin stored
    BY <1>1 DEF ServePut, PathsFresh
  <2>2. \A p \in Path : BlobOf(p)' = BlobOf(p)
    BY <1>1, <2>1 DEF ServePut, BlobOf
  <2> QED
    BY <1>1, <2>2, <1>same DEF ServePut
<1>2. CASE ServeGet(c)
  <2>1. CASE Answer(c, "2xx") /\ path[c] \in filer /\ pc[c] = "wait"
    <3>1. StateOf(c) = "called"
      BY <1>2, <2>1 DEF ServeGet, StateOf, Opened
    <3>2. path[c] \in Path /\ BlobOf(path[c]) = "stored"
      BY <1>2, <2>1 DEF ServeGet, BlobOf, PathsFresh, CallsFit
    <3>3. Opened(c)' /\ pc'[c] = "wait"
      BY <1>2, <2>1, Wires DEF ServeGet
    <3>4. StateOf(c)' = "reading"
      BY <3>3 DEF StateOf
    <3>5. \A d \in Client : StateOf(d)' = IF d = c THEN "reading" ELSE StateOf(d)
      BY <1>2, <2>1, <3>4, Wires DEF ServeGet
    <3> QED
      BY <1>2, <3>1, <3>2, <3>5, <1>blobs DEF ServeGet, Blob!Open, Blob!Calls, Blob!To
  <2>2. CASE Answer(c, "2xx") /\ pc[c] # "wait"
    <3>1. Opened(c)' = Opened(c)
      BY <1>2, <2>2, Wires DEF ServeGet, Opened
    <3>2. \A d \in Client : StateOf(d)' = StateOf(d)
      BY <1>2, <2>2, <3>1, Wires DEF ServeGet
    <3> QED
      BY <1>2, <3>2, <1>blobs DEF ServeGet, Blob!vars
  <2>3. CASE Answer(c, "404") \/ Answer(c, "5xx")
    BY <1>2, <2>3, <1>same, <1>blobs DEF ServeGet
  <2> QED
    BY <1>2, <2>1, <2>2, <2>3 DEF ServeGet
<1>3. CASE ServeDelete(c)
  <2>1. CASE filer' = filer \ {path[c]} /\ Answer(c, IF path[c] \in filer THEN "2xx" ELSE "404")
    <3>1. StateOf(c) \in {"called", "err"}
      BY <1>3 DEF ServeDelete, StateOf, Opened, CallsFit
    <3>2. path[c] \in stored
      BY <1>3 DEF ServeDelete, PathsFresh
    <3>3. \A p \in Path : BlobOf(p)' = IF p = path[c] THEN "removed" ELSE BlobOf(p)
      BY <1>3, <2>1, <3>2 DEF ServeDelete, BlobOf
    <3>4. Opened(c)' = Opened(c)
      BY <1>3, <2>1, Wires DEF ServeDelete, Opened
    <3>5. \A d \in Client : StateOf(d)' = StateOf(d)
      BY <1>3, <2>1, <3>4, Wires DEF ServeDelete
    <3> QED
      BY <1>3, <3>1, <3>3, <3>5 DEF ServeDelete, Blob!Remove, Blob!Make
  <2>2. CASE Answer(c, "5xx") /\ UNCHANGED filer
    BY <1>3, <2>2, <1>same, <1>blobs DEF ServeDelete
  <2> QED
    BY <1>3, <2>1, <2>2 DEF ServeDelete
<1> QED
  BY <1>1, <1>2, <1>3 DEF Serve

LEMMA OthersImplement ==
    ASSUME FilerInv,
           \/ \E c \in Client, m \in Method, p \in Path : Start(c, m, p)
           \/ Crash
           \/ UNCHANGED vars
    PROVE  [Blob!Next]_(Blob!vars)
<1> USE DEF FilerInv, TypeOK, Final, Call
<1>blobs. UNCHANGED <<filer, stored>> => UNCHANGED [p \in Path |-> BlobOf(p)]
  BY DEF BlobOf
<1>1. ASSUME NEW c \in Client, NEW m \in Method, NEW p \in Path, Start(c, m, p)
      PROVE  Blob!Start(c, m, p)
  <2>1. StateOf(c) = "idle"
    BY <1>1 DEF Start, StateOf, Opened
  <2>2. m # "Put" => BlobOf(p) # "absent"
    BY <1>1 DEF Start, BlobOf
  <2>3. StateOf(c)' = "called"
    <3>1. pc'[c] = "send" /\ ~ Opened(c)'
      BY <1>1 DEF Start, Goto, Opened
    <3> QED
      BY <3>1 DEF StateOf
  <2>4. ASSUME NEW d \in Client, d # c PROVE StateOf(d)' = StateOf(d)
    <3>1. pc'[d] = pc[d] /\ Opened(d)' = Opened(d)
      BY <1>1, <2>4 DEF Start, Goto, Opened
    <3> QED
      BY <3>1 DEF StateOf
  <2> QED
    BY <1>1, <2>1, <2>2, <2>3, <2>4, <1>blobs DEF Start, Blob!Start, Blob!To
<1>2. CASE Crash
  <2> DEFINE S == {c \in Client : pc[c] \in Calling}
  <2>1. ASSUME NEW d \in Client
        PROVE  StateOf(d)' = IF d \in S THEN "err" ELSE StateOf(d)
    <3>1. pc'[d] = IF d \in S THEN "err" ELSE pc[d]
      BY <1>2 DEF Crash
    <3>2. d \in S => StateOf(d)' = "err"
      BY <3>1 DEF StateOf, Opened
    <3>3. d \notin S => Opened(d)' = Opened(d)
      BY <1>2, <3>1 DEF Crash, Opened
    <3>4. d \notin S => StateOf(d)' = StateOf(d)
      BY <3>1, <3>3 DEF StateOf
    <3> QED
      BY <3>2, <3>4
  <2>2. \A d \in S : StateOf(d) \in {"called", "reading"}
    BY DEF StateOf, Calling
  <2>3. Blob!Fail(S)
    BY <1>2, <2>1, <2>2, <1>blobs DEF Crash, Blob!Fail
  <2>4. S \in SUBSET Client
    OBVIOUS
  <2> HIDE DEF S
  <2> QED
    BY <2>3, <2>4 DEF Blob!Next
<1>3. CASE UNCHANGED vars
  <2>1. \A d \in Client : StateOf(d)' = StateOf(d)
    BY <1>3 DEF vars, StateOf, Opened
  <2> QED
    BY <1>3, <2>1, <1>blobs DEF vars, Blob!vars
<1> QED
  BY <1>1, <1>2, <1>3 DEF Blob!Next, Blob!Method, Method

LEMMA BlobStep == FilerInv /\ [Next]_vars => [Blob!Next]_(Blob!vars)
<1> SUFFICES ASSUME FilerInv, [Next]_vars PROVE [Blob!Next]_(Blob!vars)
  OBVIOUS
<1>1. ASSUME NEW c \in Client, ClientStep(c) PROVE [Blob!Next]_(Blob!vars)
  BY <1>1, ClientImplements DEF Blob!Next
<1>2. ASSUME NEW c \in Client, Serve(c) PROVE [Blob!Next]_(Blob!vars)
  BY <1>2, FilerImplements DEF Blob!Next
<1> QED
  BY <1>1, <1>2, OthersImplement DEF Next, Finished

\* The filer's client implements the blob store for any number of clients and paths.
THEOREM RefinesBlobStoreHolds == Spec => RefinesBlobStore
BY BlobStep, InitBlob, InitFiler, NextFiler, PTL DEF Spec, RefinesBlobStore, Blob!Spec
=============================================================================
