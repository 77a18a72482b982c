---------------------------- MODULE ReusableThread ----------------------------
(***************************************************************************)
(* ReusableThread: a thread that sleeps on a condition variable between    *)
(* the jobs that set_work() hands to it. Its mutex is locked by the thread *)
(* alone, so that a notification which finds the thread before the wait is *)
(* lost. The modules that use the class add the jobs and the callers.      *)
(***************************************************************************)
CONSTANTS
  Threads,
  Garbage       \* values m_function_ready, never initialised, may be born with

ASSUME ThreadAssumption == Garbage \subseteq BOOLEAN /\ Garbage # {}

VARIABLES
  pause,        \* m_thread_pause
  ready,        \* m_function_ready
  quit,         \* m_thread_quit
  wpc           \* where thread_worker() is

rtVars == <<pause, ready, quit, wpc>>

RTTypes ==
  /\ pause \in [Threads -> BOOLEAN] /\ ready \in [Threads -> BOOLEAN]
  /\ quit \in [Threads -> BOOLEAN]
  /\ wpc \in [Threads -> {"test", "run", "clear", "enter", "wait", "exit"}]

Born ==
  /\ pause = [t \in Threads |-> TRUE] /\ quit = [t \in Threads |-> FALSE]
  /\ ready \in [Threads -> Garbage] /\ wpc = [t \in Threads |-> "test"]

Reborn ==
  /\ pause' = [t \in Threads |-> TRUE] /\ quit' = [t \in Threads |-> FALSE]
  /\ ready' \in [Threads -> Garbage] /\ wpc' = [t \in Threads |-> "test"]

Readiness(t) == pause[t]                       \* get_readiness()
AnyIdle == \E t \in Threads : Readiness(t)     \* variant: one idle link is enough
NotBusy == \A t \in Threads : Readiness(t)     \* ~busy()

Unnotified(t) == wpc                           \* variant: no notification
\* notify_all(): only a thread that has reached the wait sees it
Notified(t) == IF wpc[t] = "wait" THEN [wpc EXCEPT ![t] = "test"] ELSE wpc

\* set_work(): the thread looks at the flags before it waits, so the stores and
\* the notification can be one step: a thread that reaches the wait between them
\* is one that reached it before them.
Accepts(t) == ~ready[t] /\ pause[t]

SetWork(t) ==
  IF Accepts(t)
  THEN /\ pause' = [pause EXCEPT ![t] = FALSE] /\ ready' = [ready EXCEPT ![t] = TRUE]
       /\ wpc' = Notified(t) /\ UNCHANGED quit
  ELSE UNCHANGED rtVars

\* the destructor, up to the join
Quit(t) ==
  /\ quit' = [quit EXCEPT ![t] = TRUE] /\ wpc' = Notified(t)
  /\ UNCHANGED <<pause, ready>>
Joined(t) == wpc[t] = "exit"
-----------------------------------------------------------------------------
(* thread_worker() *)

Goto(t, from, to) == wpc[t] = from /\ wpc' = [wpc EXCEPT ![t] = to]

\* variant: the destructor's flag is not looked at
TestJobOnly(t) ==
  /\ Goto(t, "test", IF ~pause[t] /\ ready[t] THEN "run" ELSE "enter")
  /\ UNCHANGED <<pause, ready, quit>>

Test(t) ==
  /\ Goto(t, "test", IF quit[t] THEN "exit"
                     ELSE IF ~pause[t] /\ ready[t] THEN "run" ELSE "enter")
  /\ UNCHANGED <<pause, ready, quit>>

Wait(t) == Goto(t, "enter", "wait") /\ UNCHANGED <<pause, ready, quit>>

SpuriousWakeup(t) == Goto(t, "wait", "test") /\ UNCHANGED <<pause, ready, quit>>

\* the job has returned and the thread says so before it takes its name off the job
FinishWork(t) ==
  /\ Goto(t, "run", "clear") /\ pause' = [pause EXCEPT ![t] = TRUE]
  /\ UNCHANGED <<ready, quit>>

ClearReady(t) ==
  /\ Goto(t, "clear", "test") /\ ready' = [ready EXCEPT ![t] = FALSE]
  /\ UNCHANGED <<pause, quit>>
=============================================================================
