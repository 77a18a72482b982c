----------------------------- MODULE InhibitGet -----------------------------
(***************************************************************************)
(* InhibitGet: the subscription of a reader to the InhibitMaster of the    *)
(* host, which tells the readers that control triggers whether triggers    *)
(* may flow. The socket holds one message: those that come before it is    *)
(* read are dropped. A reader may give up waiting for the first message.   *)
(***************************************************************************)
EXTENDS Naturals, Sequences

VARIABLES
  inq,        \* the socket's queue; a message: [on, run] (run: history, when it was sent)
  connected,  \* zmq_connect() has been called
  ignore,     \* timetoignore: "zero", or running ("waiting", "expired", "infinite")
  patience    \* inhibitget_timer_, what ignore starts with: "waiting", or "infinite" (10 s
              \* or more, or 0: both wait for a message for ever)

inhibit == <<inq, connected, ignore, patience>>

InhibitInit == /\ inq = <<>> /\ connected = FALSE
               /\ patience \in {"waiting", "infinite"} /\ ignore = patience

\* InhibitGet_connect() and InhibitGet_retime(): what is in the queue stays there
InhibitConnect == connected' = TRUE /\ ignore' = patience /\ UNCHANGED <<inq, patience>>

\* the queue holds one message (ZMQ_RCVHWM)
Publish(m) == /\ connected /\ inq = <<>> /\ inq' = <<m>>
              /\ UNCHANGED <<connected, ignore, patience>>

ClockPasses == /\ connected /\ ignore = "waiting" /\ ignore' = "expired"
               /\ UNCHANGED <<inq, connected, patience>>

KeepTimer(on) == /\ inq # <<>> /\ Head(inq).on = on   \* variant: the timer goes on
                 /\ inq' = Tail(inq) /\ UNCHANGED ignore

\* InhibitGet_get() returns 1 (on) or 2 (off) for a message ...
GetMessage(on) == /\ inq # <<>> /\ Head(inq).on = on
                  /\ inq' = Tail(inq) /\ ignore' = "zero"

\* ... 1 when it gives up waiting for the first one ...
GiveUp == inq = <<>> /\ ignore = "expired" /\ ignore' = "zero" /\ UNCHANGED inq

\* ... and 0 otherwise
NoUpdate == inq = <<>> /\ ignore # "expired" /\ UNCHANGED <<inq, ignore>>
=============================================================================
