----------------------------- MODULE PennClient -----------------------------
(***************************************************************************)
(* The control connection to the Penn trigger board and the commands the   *)
(* Penn reader sends on it: HardReset and the configuration when it is     *)
(* made, StartRun and StopRun for each run. A read ends with its deadline  *)
(* and keeps what had come; reads are repeated until all they have kept is *)
(* one XML document, whichever command it answers.                         *)
(***************************************************************************)
EXTENDS Integers, Sequences

CONSTANTS
  MaxRetries,    \* reads of one answer: ten seconds over timeout_usecs_
  MaxEndpoints,  \* addresses the name of the board may have (bound)
  MaxCommands    \* commands sent (bound)

ASSUME PennClientAssumption ==
  MaxRetries \in Nat \ {0} /\ MaxEndpoints \in Nat /\ MaxCommands \in Nat

VARIABLES
  endpoints,  \* addresses not tried yet
  stage,      \* what the reader is doing
  waiting,    \* the command has been sent, its answer is being read
  retries,
  response,
  refusal,    \* exception_
  nsent,      \* number of the last command
  unanswered, \* commands the board has not answered
  coming,     \* pieces of answers on their way
  inSocket,   \* pieces that have come and have not been read
  answers,    \* history: what the answers taken for an answer said
  own,        \* history: each of them answered the command it was taken for
  unread      \* history: a command ended without its answer, or stale data came late

clientVars == <<endpoints, stage, waiting, retries, response, refusal, nsent, unanswered, coming,
                inSocket, answers, own, unread>>
reading == <<waiting, retries, response>>
boardSide == <<unanswered, coming, inSocket>>
seen == <<answers, own, unread>>

Verdicts == {"true", "false", "error"}
Document(n, v) == <<[of |-> n, part |-> 1, says |-> v], [of |-> n, part |-> 2, says |-> v]>>
Parses(r) == Len(r) = 2 /\ r = Document(r[1].of, r[1].says)

Commands == {"HardReset", "config", "StartRun", "StopRun"}

\* a board may still be sending what nobody asked for
ClientInit ==
  /\ endpoints \in 0..MaxEndpoints /\ stage = "connect"
  /\ waiting = FALSE /\ retries = 0 /\ response = <<>> /\ refusal = FALSE /\ nsent = 0
  /\ unanswered = <<>> /\ coming \in {<<>>, Document(0, "true")} /\ inSocket = <<>>
  /\ answers = {} /\ own = TRUE /\ unread = FALSE
-----------------------------------------------------------------------------
\* the constructor tries every endpoint; one that refuses is passed over, one that does not
\* answer in time ends it, as having none left does
Connect ==
  /\ stage = "connect"
  /\ \/ endpoints = 0 /\ stage' = "failed" /\ UNCHANGED endpoints
     \/ endpoints > 0 /\ endpoints' = endpoints - 1
                      /\ stage' \in {"connect", "failed", "flush"}
  /\ UNCHANGED <<reading, refusal, nsent, boardSide, seen>>

\* stale data is read until a read ends with none
Flush ==
  /\ stage = "flush" /\ inSocket' = <<>>
  /\ IF inSocket = <<>> THEN stage' = "HardReset" /\ unread' = (coming # <<>>)
                      ELSE UNCHANGED <<stage, unread>>
  /\ UNCHANGED <<endpoints, reading, refusal, nsent, unanswered, coming, answers, own>>

\* send(): the write fails, is late or is cut short, which LogError throws
SendCommand ==
  /\ stage \in Commands /\ ~waiting /\ nsent < MaxCommands
  /\ \/ /\ nsent' = nsent + 1 /\ unanswered' = Append(unanswered, nsent + 1)
        /\ waiting' = TRUE /\ UNCHANGED <<retries, response, stage>>
     \/ stage' = "failed" /\ UNCHANGED <<nsent, unanswered, reading>>
  /\ UNCHANGED <<endpoints, refusal, coming, inSocket, seen>>

\* variant: the client's exception is not looked at when a run starts
StartUnchecked(ex) ==
  CASE stage = "HardReset" -> IF ex THEN "failed" ELSE "config"
    [] stage = "config"    -> IF ex THEN "failed" ELSE "ready"
    [] stage = "StartRun"  -> "running"
    [] stage = "StopRun"   -> "ready"

\* the reader goes on unless the client has seen a refusal, now or ever; it does not ask
\* after StopRun
Checked(ex) ==
  CASE stage = "HardReset" -> IF ex THEN "failed" ELSE "config"
    [] stage = "config"    -> IF ex THEN "failed" ELSE "ready"
    [] stage = "StartRun"  -> IF ex THEN "failed" ELSE "running"
    [] stage = "StopRun"   -> "ready"

\* a read of the answer ends: what has been read is a document, or not yet, or never will be
ReceiveAnswer ==
  /\ waiting /\ inSocket' = <<>>
  /\ LET r == response \o inSocket IN
       \/ /\ Parses(r)
          /\ refusal' = (refusal \/ r[1].says = "false")
          /\ stage' = IF r[1].says = "error" THEN "failed" ELSE Checked(refusal')
          /\ answers' = answers \cup {r[1].says} /\ own' = (own /\ r[1].of = nsent)
          /\ waiting' = FALSE /\ response' = <<>> /\ retries' = 0 /\ UNCHANGED unread
       \/ /\ ~Parses(r) /\ retries + 1 < MaxRetries
          /\ retries' = retries + 1 /\ response' = r
          /\ UNCHANGED <<waiting, refusal, stage, seen>>
       \/ /\ ~Parses(r) /\ retries + 1 >= MaxRetries
          /\ stage' = Checked(refusal) /\ unread' = TRUE
          /\ waiting' = FALSE /\ response' = <<>> /\ retries' = 0
          /\ UNCHANGED <<refusal, answers, own>>
  /\ UNCHANGED <<endpoints, nsent, unanswered, coming>>

\* artdaq starts and stops runs
Transition ==
  /\ \/ stage = "ready" /\ stage' = "StartRun"
     \/ stage = "running" /\ stage' = "StopRun"
  /\ UNCHANGED <<endpoints, reading, refusal, nsent, boardSide, seen>>

\* the board answers its commands in turn, in as many pieces as the network makes of it
BoardReplies ==
  /\ stage # "failed" /\ unanswered # <<>> /\ unanswered' = Tail(unanswered)
  /\ \E v \in Verdicts : coming' = coming \o Document(Head(unanswered), v)
  /\ UNCHANGED <<endpoints, stage, reading, refusal, nsent, inSocket, seen>>

PieceComes ==
  /\ stage \notin {"connect", "failed"} /\ coming # <<>>
  /\ coming' = Tail(coming) /\ inSocket' = Append(inSocket, Head(coming))
  /\ UNCHANGED <<endpoints, stage, reading, refusal, nsent, unanswered, seen>>

ClientNext ==
  \/ Connect \/ Flush \/ SendCommand \/ ReceiveAnswer \/ Transition \/ BoardReplies \/ PieceComes

ClientSpec == ClientInit /\ [][ClientNext]_clientVars
-----------------------------------------------------------------------------
(* Properties. *)

(* No run is taken once the board has said no, whatever the command it said *)
(* it to and whenever: a refusal outlives the command, the run and the next *)
(* start. And what is taken for an answer is the answer to the command that *)
(* was sent, as long as no earlier answer was given up and nothing stale    *)
(* came after the flush; after that the reader may be one answer behind for *)
(* good.                                                                    *)
RefusalHolds ==
  /\ stage = "running" => answers \subseteq {"true"}
  /\ ~unread => own
=============================================================================
