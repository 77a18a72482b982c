------------------------------ MODULE ThreadPool ------------------------------
(***************************************************************************)
(* What a caller of a set of reusable threads counts on: in every round    *)
(* each thread takes its job or refuses it, a job that was taken is run    *)
(* once, and the round is over only when every job that was taken has run. *)
(***************************************************************************)
CONSTANT Threads

VARIABLES taken, done      \* threads that took, and that ran, the job of the round

Init == taken = {} /\ done = {}

Take(t) == t \notin taken /\ taken' = taken \cup {t} /\ UNCHANGED done

Run(t) == t \in taken \ done /\ done' = done \cup {t} /\ UNCHANGED taken

EndRound == taken = done /\ taken' = {} /\ done' = {}

Next == (\E t \in Threads : Take(t) \/ Run(t)) \/ EndRound

Spec == Init /\ [][Next]_<<taken, done>>
=============================================================================
