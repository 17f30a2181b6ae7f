------------------------ MODULE IgnitionServer_proofs ------------------------
(***************************************************************************)
(* Theorems about IgnitionServer, for every set of requests and every size *)
(* of the file.                                                            *)
(***************************************************************************)
EXTENDS IgnitionServer, TLAPS

\* Nothing is sent before the copy starts, and never more than was announced.
Announced ==
  \A r \in Request :
    /\ pc[r] \in {"new", "sniff", "rewind", "size", "restart"} => body[r] = <<>>
    /\ Len(body[r]) <= Chunks
    /\ pc[r] = "done" => Len(body[r]) = Chunks

\* While a request that was alone so far is handled, no other one is.
Undisturbed ==
  \A r \in alone :
    /\ pc[r] # "new"
    /\ pc[r] \in Busy => \A s \in Request : pc[s] \in Busy => s = r

\* The pieces sent to a request that was alone are those before the offset.
InOrder ==
  \A r \in alone :
    /\ \A i \in 1 .. Len(body[r]) : body[r][i] = i
    /\ pc[r] = "copy" => offset = Len(body[r])

IInv == TypeOK /\ Announced /\ Undisturbed /\ InOrder

LEMMA InitEstablishes == Init => IInv
<1> SUFFICES ASSUME Init PROVE IInv
  OBVIOUS
<1> USE ChunksAssumption DEF Init
<1>1. TypeOK
  BY DEF TypeOK
<1>2. Announced
  <2> SUFFICES ASSUME NEW r \in Request
               PROVE  /\ body[r] = <<>>
                      /\ Len(body[r]) <= Chunks
                      /\ pc[r] # "done"
    BY DEF Announced
  <2>1. body[r] = <<>> /\ pc[r] = "new"
    OBVIOUS
  <2>2. Len(body[r]) = 0
    BY <2>1
  <2> QED
    BY <2>1, <2>2
<1>3. Undisturbed /\ InOrder
  BY DEF Undisturbed, InOrder
<1> QED
  BY <1>1, <1>2, <1>3 DEF IInv

\* The server and a new request.
LEMMA ServerKeeps == IInv /\ StartServer => IInv'
BY DEF IInv, TypeOK, Announced, Undisturbed, InOrder, StartServer

LEMMA AcceptKeeps ==
  ASSUME IInv, NEW r \in Request, Accept(r)
  PROVE  IInv'
<1> USE DEF IInv, Accept
<1>1. TypeOK'
  BY DEF TypeOK, Busy
<1>2. Announced'
  BY DEF TypeOK, Announced
<1>3. Undisturbed'
  <2> SUFFICES ASSUME NEW q \in alone'
               PROVE  /\ pc'[q] # "new"
                      /\ pc'[q] \in Busy => \A s \in Request : pc'[s] \in Busy => s = q
    BY DEF Undisturbed
  <2>1. CASE Handled = {}
    BY <2>1 DEF TypeOK, Undisturbed, Handled, Busy
  <2>2. CASE Handled # {}
    <3>1. q \in alone /\ q \in Request /\ pc[q] \notin Busy /\ pc[q] # "new"
      BY <2>2 DEF TypeOK, Undisturbed, Handled
    <3> QED
      BY <3>1 DEF TypeOK
  <2> QED
    BY <2>1, <2>2
<1>4. InOrder'
  BY DEF TypeOK, Announced, InOrder
<1> QED
  BY <1>1, <1>2, <1>3, <1>4

\* One step of the handler before the copy.
LEMMA ReadsKeep ==
  ASSUME IInv, NEW r \in Request, NEW at, NEW next, NEW to \in 0 .. Chunks,
         Reads(r, at, next, to), at \in {"sniff", "rewind", "size", "restart"},
         \/ next \in {"rewind", "size", "restart"}
         \/ next = "copy" /\ to = 0
  PROVE  IInv'
<1> USE DEF IInv, Reads
<1>1. TypeOK'
  BY DEF TypeOK, Busy
<1>2. Announced'
  BY DEF TypeOK, Announced
<1>3. Undisturbed'
  BY DEF TypeOK, Undisturbed, Busy
<1>4. InOrder'
  <2> SUFFICES ASSUME NEW q \in alone'
               PROVE  /\ \A i \in 1 .. Len(body'[q]) : body'[q][i] = i
                      /\ pc'[q] = "copy" => offset' = Len(body'[q])
    BY DEF InOrder
  <2>1. q \in alone /\ q \in Request
    BY DEF TypeOK
  <2>2. CASE q = r
    BY <2>1, <2>2 DEF TypeOK, Announced, InOrder
  <2>3. CASE q # r
    BY <2>1, <2>3 DEF TypeOK, Undisturbed, InOrder, Busy
  <2> QED
    BY <2>2, <2>3
<1> QED
  BY <1>1, <1>2, <1>3, <1>4

\* One piece is sent.
LEMMA CopyKeeps ==
  ASSUME IInv, NEW r \in Request, Copy(r)
  PROVE  IInv'
<1> USE ChunksAssumption DEF IInv, Copy
<1>1. /\ body[r] \in Seq(1 .. Chunks)
      /\ offset + 1 \in 1 .. Chunks
  BY DEF TypeOK
<1>2. /\ body'[r] = Append(body[r], offset + 1)
      /\ body'[r] \in Seq(1 .. Chunks)
      /\ Len(body'[r]) = Len(body[r]) + 1
      /\ \A q \in Request : q # r => body'[q] = body[q]
  BY <1>1 DEF TypeOK
<1>3. TypeOK'
  BY <1>1, <1>2 DEF TypeOK
<1>4. Announced'
  BY <1>1, <1>2 DEF TypeOK, Announced
<1>5. Undisturbed'
  BY DEF Undisturbed
<1>6. InOrder'
  <2> SUFFICES ASSUME NEW q \in alone
               PROVE  /\ \A i \in 1 .. Len(body'[q]) : body'[q][i] = i
                      /\ pc[q] = "copy" => offset' = Len(body'[q])
    BY DEF InOrder
  <2>1. q \in Request
    BY DEF TypeOK
  <2>2. CASE q = r
    <3>1. offset = Len(body[r]) /\ \A i \in 1 .. Len(body[r]) : body[r][i] = i
      BY <2>2 DEF InOrder
    <3> QED
      BY <1>1, <1>2, <2>2, <3>1
  <2>3. CASE q # r
    BY <1>2, <2>1, <2>3 DEF TypeOK, Undisturbed, InOrder, Busy
  <2> QED
    BY <2>2, <2>3
<1> QED
  BY <1>3, <1>4, <1>5, <1>6

\* The answer ends, well or badly.
LEMMA EndKeeps ==
  ASSUME IInv, NEW r \in Request, Respond(r) \/ Break(r)
  PROVE  IInv'
<1> USE DEF IInv, Respond, Break
<1>1. TypeOK'
  BY DEF TypeOK
<1>2. Announced'
  BY DEF TypeOK, Announced
<1>3. Undisturbed'
  BY DEF TypeOK, Undisturbed, Busy
<1>4. InOrder'
  BY DEF TypeOK, InOrder
<1> QED
  BY <1>1, <1>2, <1>3, <1>4

LEMMA HandleKeeps ==
  ASSUME IInv, NEW r \in Request, Handle(r)
  PROVE  IInv'
<1>1. offset \in 0 .. Chunks /\ Chunks \in Nat \ {0}
  BY ChunksAssumption DEF IInv, TypeOK
<1>2. CASE Sniff(r)
  BY <1>1, <1>2, ReadsKeep DEF Sniff
<1>3. CASE Rewind(r)
  BY <1>1, <1>3, ReadsKeep DEF Rewind
<1>4. CASE Size(r)
  BY <1>1, <1>4, ReadsKeep DEF Size
<1>5. CASE Restart(r)
  BY <1>1, <1>5, ReadsKeep DEF Restart
<1> QED
  BY <1>2, <1>3, <1>4, <1>5, CopyKeeps, EndKeeps DEF Handle

THEOREM Invariance == Spec => []IInv
<1>1. IInv /\ [Next]_vars => IInv'
  <2>1. IInv /\ UNCHANGED vars => IInv'
    BY DEF IInv, TypeOK, Announced, Undisturbed, InOrder, vars
  <2> QED
    BY <2>1, ServerKeeps, AcceptKeeps, HandleKeeps DEF Next, Idle
<1> QED
  BY <1>1, InitEstablishes, PTL DEF Spec

\* Every variable keeps its type: the shared position never leaves the file, and
\* what is sent are chunks of it, however requests overlap and break off.
THEOREM TypeCorrect == Spec => []TypeOK
<1>1. IInv => TypeOK
  BY DEF IInv
<1> QED
  BY <1>1, Invariance, PTL

\* A request that no other one overlaps is answered with the ignition file,
\* whatever the requests before it did to the shared position.
THEOREM LoneRequestsAreServed == Spec => []WholeWhenAlone
<1>1. IInv => WholeWhenAlone
  <2> SUFFICES ASSUME IInv, NEW r \in alone
               PROVE  /\ pc[r] = "copy" => body[r] = SubSeq(File, 1, offset)
                      /\ pc[r] = "done" => body[r] = File
    BY DEF WholeWhenAlone
  <2>1. /\ Chunks \in Nat /\ offset \in 0 .. Chunks
        /\ body[r] \in Seq(1 .. Chunks)
        /\ \A i \in 1 .. Len(body[r]) : body[r][i] = i
    BY ChunksAssumption DEF IInv, TypeOK, InOrder
  <2>2. File \in Seq(1 .. Chunks) /\ Len(File) = Chunks
    BY <2>1 DEF File
  <2>3. CASE pc[r] = "copy"
    <3>1. offset = Len(body[r])
      BY <2>3 DEF IInv, InOrder
    <3>2. /\ SubSeq(File, 1, offset) \in Seq(1 .. Chunks)
          /\ Len(SubSeq(File, 1, offset)) = offset
          /\ \A i \in 1 .. offset : SubSeq(File, 1, offset)[i] = i
      BY <2>1, <2>2 DEF File
    <3> QED
      BY <2>1, <2>3, <3>1, <3>2
  <2>4. CASE pc[r] = "done"
    <3>1. Len(body[r]) = Chunks
      BY <2>4 DEF IInv, TypeOK, Announced
    <3> QED
      BY <2>1, <2>4, <3>1 DEF File
  <2> QED
    BY <2>3, <2>4
<1> QED
  BY <1>1, Invariance, PTL

\* A response that was cut short never passes for a whole one.
THEOREM LengthsAreKept == Spec => []LengthAsAnnounced
<1>1. IInv => LengthAsAnnounced
  BY DEF IInv, Announced, LengthAsAnnounced
<1> QED
  BY <1>1, Invariance, PTL
===============================================================================
