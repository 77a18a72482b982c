----------------------------- MODULE WorkerRounds -----------------------------
(***************************************************************************)
(* The rounds in which NetioHandler::triggerWorkers() and                  *)
(* FelixOnHostInterface::TriggerWorkers() use their ReusableThreads: a job *)
(* is offered to every thread, the results of set_work() are not looked    *)
(* at, busy() is polled until no thread is busy; in the end the threads    *)
(* are destroyed one after the other.                                      *)
(***************************************************************************)
EXTENDS ReusableThread, FiniteSets, Naturals

CONSTANT MaxRounds       \* rounds of one life of the threads (bound)

ASSUME RoundsAssumption == IsFiniteSet(Threads) /\ MaxRounds \in Nat

VARIABLES
  cpc,          \* the caller: idle, offer, busy, destroy, join, gone
  round,        \* rounds begun
  todo,         \* threads the caller's loop has still to visit
  joining,      \* the thread whose destructor runs
  taken,        \* history: the threads that took the job of the round
  done,         \* history: the threads that have run it
  lost,         \* history: threads whose last notification was lost
  garbage       \* history: the threads born with m_function_ready set

callerVars == <<cpc, round, todo, joining>>
histories == <<taken, done, lost, garbage>>
vars == <<pause, ready, quit, wpc, cpc, round, todo, joining, taken, done, lost, garbage>>

Init ==
  /\ Born
  /\ cpc = "idle" /\ round = 0 /\ todo = {} /\ joining = {}
  /\ taken = {} /\ done = {} /\ lost = {}
  /\ garbage = {t \in Threads : ready[t]}
-----------------------------------------------------------------------------
(* The caller. *)

BeginRound ==
  /\ cpc = "idle" /\ round < MaxRounds
  /\ cpc' = "offer" /\ round' = round + 1 /\ todo' = Threads
  /\ UNCHANGED <<rtVars, joining, histories>>

Offer(t) ==
  /\ cpc = "offer" /\ t \in todo
  /\ SetWork(t)
  /\ todo' = todo \ {t}
  /\ cpc' = IF todo' = {} THEN "busy" ELSE "offer"
  /\ IF Accepts(t)
     THEN /\ taken' = taken \cup {t}
          /\ lost' = IF wpc[t] = "enter" THEN lost \cup {t} ELSE lost
     ELSE UNCHANGED <<taken, lost>>
  /\ UNCHANGED <<round, joining, done, garbage>>

\* while (busy()) { sleep }
EndRound ==
  /\ cpc = "busy" /\ NotBusy
  /\ cpc' = "idle" /\ taken' = {} /\ done' = {}
  /\ UNCHANGED <<rtVars, round, todo, joining, lost, garbage>>

Destroy ==
  /\ cpc = "idle" /\ cpc' = "destroy" /\ todo' = Threads
  /\ UNCHANGED <<rtVars, round, joining, histories>>

QuitOne(t) ==
  /\ cpc = "destroy" /\ t \in todo
  /\ Quit(t)
  /\ cpc' = "join" /\ todo' = todo \ {t} /\ joining' = {t}
  /\ lost' = IF wpc[t] = "enter" THEN lost \cup {t} ELSE lost
  /\ UNCHANGED <<round, taken, done, garbage>>

JoinOne ==
  /\ cpc = "join" /\ \A t \in joining : Joined(t)
  /\ cpc' = IF todo = {} THEN "gone" ELSE "destroy"
  /\ joining' = {}
  /\ UNCHANGED <<rtVars, round, todo, histories>>

Caller == \/ BeginRound \/ EndRound \/ Destroy \/ JoinOne
          \/ \E t \in Threads : Offer(t) \/ QuitOne(t)
-----------------------------------------------------------------------------
(* The threads. *)

Silent == UNCHANGED <<callerVars, taken, done, garbage>>

Worker(t) ==
  \/ (Test(t) \/ Wait(t) \/ ClearReady(t)) /\ Silent /\ UNCHANGED lost
  \/ /\ FinishWork(t)
     /\ done' = done \cup {t}
     /\ UNCHANGED <<callerVars, taken, lost, garbage>>

\* the standard lets a wait return without a notification; a lost one is made good
WakeUp(t) == SpuriousWakeup(t) /\ Silent /\ lost' = lost \ {t}

Next == Caller \/ \E t \in Threads : Worker(t) \/ WakeUp(t)

Spec == Init /\ [][Next]_vars

CallerGoesOn == EndRound \/ JoinOne \/ \E t \in Threads : Offer(t) \/ QuitOne(t)

\* The loops of the caller and the threads run; no wakeup comes by itself. When
\* the caller begins a round or destroys the threads is left open.
FairSpec == Spec /\ WF_vars(CallerGoesOn) /\ \A t \in Threads : WF_vars(Worker(t))
-----------------------------------------------------------------------------
(* Properties. *)

CallerTypes ==
  /\ cpc \in {"idle", "offer", "busy", "destroy", "join", "gone"} /\ round \in 0..MaxRounds
  /\ {todo, joining, taken, done, lost, garbage} \subseteq SUBSET Threads

(* Flags, program counters and the sets of the histories keep their types.  *)
TypeOK == RTTypes /\ CallerTypes

(* The rounds implement ThreadPool: a job that set_work() accepted is run   *)
(* once, and triggerWorkers() never goes on to read or move the fragment    *)
(* while a thread may still write to it.                                    *)
Pool == INSTANCE ThreadPool
ImplementsThreadPool == Pool!Spec

(* A thread that was born with m_function_ready clear refuses a job only in *)
(* the window between the two stores that end the job before.               *)
RefusedOnlyWhileClearing ==
  [][\A t \in Threads : Offer(t) /\ ~Accepts(t) => wpc[t] = "clear" \/ t \in garbage]_vars

(* As long as no notification is lost, every round comes to its end, and so *)
(* does the destruction of the threads.                                     *)
RoundsEnd ==
  [](lost = {}) => (cpc = "offer" ~> cpc = "idle") /\ (cpc = "destroy" ~> cpc = "gone")
=============================================================================
