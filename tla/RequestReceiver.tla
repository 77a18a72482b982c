--------------------------- MODULE RequestReceiver ---------------------------
(***************************************************************************)
(* RequestReceiver: the thread that takes the data requests the timing     *)
(* reader publishes off a socket and queues them for getNextRequest(). The *)
(* FELIX reader and the SSP reader each have one.                          *)
(***************************************************************************)
EXTENDS Naturals, Sequences

CONSTANTS
  RequestCap,     \* capacity of the queue
  TriggerTimes,   \* timestamps of requests
  MaxRequests     \* requests sent (bound)

\* a timestamp of 0 stands for no request
ASSUME RequestAssumption ==
  /\ RequestCap \in Nat \ {0} /\ MaxRequests \in Nat
  /\ TriggerTimes \subseteq Nat \ {0}

VARIABLES
  rqpc,         \* the thread runs or not
  rqStop,       \* m_stop_thread
  reqQ,         \* m_req
  lastReq       \* the last request the timing reader has published

requests == <<rqpc, rqStop, reqQ, lastReq>>

NoRequest == [seqID |-> 0, timestamp |-> 0]
Request == [seqID : Nat, timestamp : TriggerTimes]

RequestTypes ==
  /\ rqpc \in {"off", "loop"} /\ rqStop \in BOOLEAN
  /\ reqQ \in Seq(Request) /\ Len(reqQ) <= RequestCap
  /\ lastReq \in Request \cup {NoRequest}

RequestInit == rqpc = "off" /\ rqStop = FALSE /\ reqQ = <<>> /\ lastReq = NoRequest

\* start(); the queue is left as it is
StartReceiver ==
  /\ rqStop' = FALSE /\ rqpc' = "loop"
  /\ UNCHANGED <<reqQ, lastReq>>

\* stop(), up to the join; the queue is left as it is
SignalReceiver == rqStop' = TRUE /\ UNCHANGED <<rqpc, reqQ, lastReq>>
ReceiverJoined == rqpc = "off"

\* getNextRequest(): the oldest request, or none when the wait has timed out
NextRequest == IF reqQ # <<>> THEN Head(reqQ) ELSE NoRequest
RemoveRequest ==
  /\ reqQ' = IF reqQ # <<>> THEN Tail(reqQ) ELSE reqQ
  /\ UNCHANGED <<rqpc, rqStop, lastReq>>

\* the thread queues a request; requests come in time order, a full queue drops them
Arrives ==
  /\ rqpc = "loop" /\ lastReq.seqID < MaxRequests
  /\ \E ts \in TriggerTimes :
       /\ ts > lastReq.timestamp
       /\ lastReq' = [seqID |-> lastReq.seqID + 1, timestamp |-> ts]
       /\ reqQ' = IF Len(reqQ) < RequestCap THEN Append(reqQ, lastReq') ELSE reqQ
  /\ UNCHANGED <<rqpc, rqStop>>

Ends == rqpc = "loop" /\ rqStop /\ rqpc' = "off" /\ UNCHANGED <<rqStop, reqQ, lastReq>>
=============================================================================
