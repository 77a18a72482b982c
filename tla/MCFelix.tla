------------------------------- MODULE MCFelix -------------------------------
(***************************************************************************)
(* A link of the FELIX reader, over two runs, and what is computed from its *)
(* data: the hits and the sets of primitives that are sent. The parts share *)
(* no state: a behaviour is of one of them, the others stay as they began. *)
(*                                                                         *)
(* The link: messages hold two frames of two ticks each; of three trigger  *)
(* times the windows of the last two share a message.                      *)
(*                                                                         *)
(* Hits: two wires, whose pedestal is 20 or, of the second, 21; adcMax is  *)
(* 7, so that 27 is the highest sample that counts, and 4 is so far below  *)
(* that its filter overflows.                                              *)
(***************************************************************************)
EXTENDS Felix, HitFinder, HitSets

CONSTANTS l1, f1, f2

OneLink == {l1}
Clear == {FALSE}
AnyFlag == {TRUE, FALSE}
Times == {5, 10, 13}

OneFinder == {f1}
TwoFinders == {f1, f2}
FourTaps == <<4, 8, 4, 0>>
TwoWires(a, b) == [l \in Lane |-> IF l = 0 THEN a ELSE b]
Samples == {TwoWires(20, 20), TwoWires(27, 27), TwoWires(4, 21)}

VARIABLE part

PartsInit ==
  /\ part \in {"link", "hits", "sets"}
  /\ Init /\ HitInit /\ SetsInit
  /\ part # "link" => \A t \in Threads : ~ready[t]
  /\ part # "hits" => \A l \in Lane : avx[l].median.m = 20

PartsNext ==
  \/ part = "link" /\ Next /\ UNCHANGED <<part, hitVars, setVars>>
  \/ part = "hits" /\ HitNext /\ UNCHANGED <<part, vars, setVars>>
  \/ part = "sets" /\ SetsNext /\ UNCHANGED <<part, vars, hitVars>>

\* of the parts that are not the behaviour's nothing is demanded
PartsSpec ==
  /\ PartsInit /\ [][PartsNext]_<<part, vars, hitVars, setVars>>
  /\ WF_vars(part = "link" /\ RunSteps) /\ WF_vars(part = "link" /\ StopSteps)
  /\ WF_vars(part = "link" /\ (CheckBusy \/ PopHalf))
  /\ WF_vars(part = "link" /\ Functor) /\ WF_vars(part = "link" /\ Loop)
  /\ WF_vars(part = "link" /\ RequestsEnd)

\* the sets alone
SetsOnly == PartsInit /\ part = "sets" /\ [][PartsNext]_<<part, vars, hitVars, setVars>>
=============================================================================
