-------------------------------- MODULE MCCTB --------------------------------
(***************************************************************************)
(* Instances of CTB for TLC: one run of the board with every kind of word  *)
(* that changes control, and two runs in a row.                            *)
(***************************************************************************)
EXTENDS CTB

AllKinds == {"ts", "fback"}
DataKinds == {"ts", "gt"}
Timed == {FALSE}
TimedOrNot == {TRUE, FALSE}
=============================================================================
