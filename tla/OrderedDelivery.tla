--------------------------- MODULE OrderedDelivery ---------------------------
(***************************************************************************)
(* What every board reader of the DAQ promises about the records it takes  *)
(* from its hardware: whatever buffers, threads and fragments lie between, *)
(* what has been handed to artdaq is at every moment a prefix of what was  *)
(* accepted, and it only grows until the reader is started again.          *)
(***************************************************************************)
EXTENDS Sequences, SequencesExt

CONSTANT Record

VARIABLES accepted, delivered

vars == <<accepted, delivered>>

Init == accepted = <<>> /\ delivered = <<>>

Accept == \E r \in Record : accepted' = Append(accepted, r) /\ UNCHANGED delivered

Deliver == /\ delivered' \in Prefixes(accepted)
           /\ IsStrictPrefix(delivered, delivered')
           /\ UNCHANGED accepted

Restart == accepted' = <<>> /\ delivered' = <<>>

Next == Accept \/ Deliver \/ Restart

Spec == Init /\ [][Next]_vars
=============================================================================
