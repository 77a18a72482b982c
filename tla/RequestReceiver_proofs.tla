------------------------ MODULE RequestReceiver_proofs ------------------------
(***************************************************************************)
(* What the operations of RequestReceiver keep, for the readers that use   *)
(* the class.                                                              *)
(***************************************************************************)
EXTENDS RequestReceiver, SequenceTheorems, TLAPS

\* A request is never taken for none.
LEMMA RequestIsOne == NoRequest \notin Request
BY RequestAssumption DEF NoRequest, Request

LEMMA RequestInitTypes == RequestInit => RequestTypes
<1>1. <<>> \in Seq(Request) /\ Len(<<>>) = 0
  BY EmptySeq
<1>2. Len(<<>>) <= RequestCap
  BY <1>1, RequestAssumption
<1>3. QED
  BY <1>1, <1>2 DEF RequestInit, RequestTypes

LEMMA ReceiverKeeps ==
  ASSUME RequestTypes, StartReceiver \/ SignalReceiver \/ Ends
  PROVE  RequestTypes'
BY DEF RequestTypes, StartReceiver, SignalReceiver, Ends

LEMMA RemoveKeeps ==
  ASSUME RequestTypes, RemoveRequest
  PROVE  RequestTypes' /\ NextRequest \in Request \cup {NoRequest}
<1>1. /\ Len(reqQ) \in Nat
      /\ reqQ # <<>> => /\ Head(reqQ) \in Request /\ Tail(reqQ) \in Seq(Request)
                        /\ Len(Tail(reqQ)) = Len(reqQ) - 1
  BY LenProperties, HeadTailProperties DEF RequestTypes
<1>2. QED
  BY <1>1, RequestAssumption DEF RequestTypes, RemoveRequest, NextRequest

\* The queue keeps its capacity.
LEMMA ArrivesKeeps ==
  ASSUME RequestTypes, Arrives
  PROVE  RequestTypes'
<1>1. lastReq' \in Request
  BY RequestAssumption DEF RequestTypes, Arrives, Request, NoRequest
<1>2. /\ reqQ' = reqQ \/ (Len(reqQ) < RequestCap /\ reqQ' = Append(reqQ, lastReq'))
      /\ UNCHANGED <<rqpc, rqStop>>
  BY DEF Arrives
<1>3. reqQ' \in Seq(Request) /\ Len(reqQ') <= RequestCap
  BY <1>1, <1>2, AppendProperties, LenProperties, RequestAssumption DEF RequestTypes
<1>4. QED
  BY <1>1, <1>2, <1>3 DEF RequestTypes
(***************************************************************************)
(* The order of the requests.                                              *)
(***************************************************************************)

\* Request r was published before s.
Newer(r, s) == r.seqID < s.seqID /\ r.timestamp < s.timestamp

\* None of the requests queued in q, nor any to come after the last, is as old as r.
Past(r, q, last) ==
  /\ r.seqID <= last.seqID /\ r.timestamp <= last.timestamp
  /\ \A i \in 1..Len(q) : Newer(r, q[i])

\* A queue of requests is in order, and not ahead of the last one published.
InOrder(q, last) ==
  /\ \A i, j \in 1..Len(q) : i < j => Newer(q[i], q[j])
  /\ \A i \in 1..Len(q) : q[i].seqID <= last.seqID /\ q[i].timestamp <= last.timestamp
  /\ Past(NoRequest, q, last)

LEMMA OrderInitially ==
  ASSUME RequestInit
  PROVE  InOrder(reqQ, lastReq)
<1>1. Len(reqQ) = 0
  BY DEF RequestInit
<1>. QED BY <1>1 DEF RequestInit, InOrder, Past, NoRequest

\* What the requests are made of.
LEMMA RequestNumbers ==
  ASSUME NEW r \in Request \cup {NoRequest}
  PROVE  r.seqID \in Nat /\ r.timestamp \in Nat
<1>1. CASE r \in Request
  BY <1>1, RequestAssumption DEF Request
<1>2. CASE r = NoRequest
  BY <1>2 DEF NoRequest
<1>. QED BY <1>1, <1>2

\* No operation puts a request out of order.
LEMMA OrderStays ==
  ASSUME RequestTypes, InOrder(reqQ, lastReq),
         StartReceiver \/ SignalReceiver \/ Ends \/ Arrives \/ RemoveRequest \/ UNCHANGED requests
  PROVE  /\ InOrder(reqQ', lastReq')
         /\ \A r \in Request \cup {NoRequest} : Past(r, reqQ, lastReq) => Past(r, reqQ', lastReq')
<1>1. CASE reqQ' = reqQ /\ lastReq' = lastReq
  BY <1>1
<1>2. CASE Arrives
  <2>1. /\ lastReq' \in Request /\ Newer(lastReq, lastReq')
        /\ reqQ' = reqQ \/ reqQ' = Append(reqQ, lastReq')
    BY <1>2, RequestAssumption DEF Arrives, Request, RequestTypes, NoRequest, Newer
  <2>2. /\ lastReq.seqID \in Nat /\ lastReq.timestamp \in Nat
        /\ lastReq'.seqID \in Nat /\ lastReq'.timestamp \in Nat
    BY <2>1, RequestNumbers DEF RequestTypes
  <2>3. /\ reqQ \in Seq(Request) /\ Len(reqQ) \in Nat
        /\ \A i \in 1..Len(reqQ) : /\ reqQ[i] \in Request
                                   /\ reqQ[i].seqID \in Nat /\ reqQ[i].timestamp \in Nat
    BY RequestNumbers, ElementOfSeq, LenProperties DEF RequestTypes
  <2>4. \A r \in Request \cup {NoRequest} :
          Past(r, reqQ, lastReq) => Newer(r, lastReq') /\ Past(r, reqQ, lastReq')
    BY <2>1, <2>2, RequestNumbers DEF Past, Newer
  <2>5. InOrder(reqQ, lastReq')
    BY <2>1, <2>2, <2>3, <2>4 DEF InOrder, Newer
  <2>6. CASE reqQ' = Append(reqQ, lastReq')
    <3>1. /\ Len(reqQ') = Len(reqQ) + 1 /\ reqQ'[Len(reqQ) + 1] = lastReq'
          /\ \A i \in 1..Len(reqQ) : reqQ'[i] = reqQ[i]
      BY <2>1, <2>3, <2>6, AppendProperties
    <3>2. \A i \in 1..Len(reqQ') : i \in 1..Len(reqQ) \/ i = Len(reqQ) + 1
      BY <2>3, <3>1
    <3>3. \A r \in Request \cup {NoRequest} : Past(r, reqQ, lastReq) => Past(r, reqQ', lastReq')
      BY <2>4, <3>1, <3>2 DEF Past
    <3>4. \A i \in 1..Len(reqQ) : Newer(reqQ[i], lastReq')
      BY <2>1, <2>2, <2>3 DEF InOrder, Newer
    <3>5. \A i, j \in 1..Len(reqQ') : i < j => Newer(reqQ'[i], reqQ'[j])
      <4>. SUFFICES ASSUME NEW i \in 1..Len(reqQ'), NEW j \in 1..Len(reqQ'), i < j
                    PROVE  Newer(reqQ'[i], reqQ'[j])
        OBVIOUS
      <4>1. i \in 1..Len(reqQ)
        BY <2>3, <3>1
      <4>2. CASE j \in 1..Len(reqQ)
        BY <4>1, <4>2, <3>1 DEF InOrder
      <4>3. CASE j = Len(reqQ) + 1
        BY <4>1, <4>3, <3>1, <3>4
      <4>. QED BY <4>2, <4>3, <3>2
    <3>6. \A i \in 1..Len(reqQ') : /\ reqQ'[i].seqID <= lastReq'.seqID
                                   /\ reqQ'[i].timestamp <= lastReq'.timestamp
      BY <2>2, <2>5, <3>1, <3>2 DEF InOrder
    <3>. QED BY <3>3, <3>5, <3>6 DEF InOrder
  <2>. QED BY <2>1, <2>4, <2>5, <2>6
<1>3. CASE RemoveRequest /\ reqQ # <<>>
  <2>1. /\ reqQ' = Tail(reqQ) /\ lastReq' = lastReq
    BY <1>3 DEF RemoveRequest
  <2>2. /\ Len(reqQ) \in Nat /\ Len(reqQ') = Len(reqQ) - 1
        /\ \A i \in 1..Len(reqQ') : reqQ'[i] = reqQ[i + 1] /\ i + 1 \in 1..Len(reqQ)
    BY <1>3, <2>1, HeadTailProperties, LenProperties DEF RequestTypes
  <2>3. \A r \in Request \cup {NoRequest} : Past(r, reqQ, lastReq) => Past(r, reqQ', lastReq')
    BY <2>1, <2>2 DEF Past
  <2>4. \A i, j \in 1..Len(reqQ') : i < j => Newer(reqQ'[i], reqQ'[j])
    BY <2>2 DEF InOrder
  <2>. QED BY <2>1, <2>2, <2>3, <2>4 DEF InOrder
<1>. QED BY <1>1, <1>2, <1>3 DEF StartReceiver, SignalReceiver, Ends, RemoveRequest, requests

\* The request taken is newer than any that is past, and is past itself then.
LEMMA NextInOrder ==
  ASSUME RequestTypes, InOrder(reqQ, lastReq), RemoveRequest
  PROVE  /\ Past(NextRequest, reqQ', lastReq')
         /\ NextRequest # NoRequest =>
              \A r \in Request \cup {NoRequest} : Past(r, reqQ, lastReq) => Newer(r, NextRequest)
<1>1. CASE reqQ = <<>>
  BY <1>1 DEF RemoveRequest, NextRequest, InOrder
<1>2. CASE reqQ # <<>>
  <2>1. /\ reqQ' = Tail(reqQ) /\ lastReq' = lastReq /\ NextRequest = Head(reqQ)
    BY <1>2 DEF RemoveRequest, NextRequest
  <2>2. /\ Len(reqQ) \in Nat /\ Len(reqQ') = Len(reqQ) - 1 /\ 1 \in 1..Len(reqQ)
        /\ Head(reqQ) = reqQ[1]
        /\ \A i \in 1..Len(reqQ') : reqQ'[i] = reqQ[i + 1] /\ i + 1 \in 1..Len(reqQ)
    BY <1>2, <2>1, HeadTailProperties, LenProperties DEF RequestTypes
  <2>3. \A i \in 1..Len(reqQ') : Newer(reqQ[1], reqQ'[i])
    BY <2>2 DEF InOrder
  <2>. QED BY <2>1, <2>2, <2>3 DEF InOrder, Past
<1>. QED BY <1>1, <1>2

=============================================================================
