----------------------------- MODULE NetSocketMC -----------------------------
(***************************************************************************)
(* Instances of NetSocket for TLC.  Workers and callers only differ by     *)
(* name, so states that swap them are one for the safety runs.  Sends are  *)
(* not symmetric: only some of them have a timeout.                        *)
(***************************************************************************)
EXTENDS NetSocket, TLC

Symmetry == Permutations(Workers) \cup Permutations(Callers)
===============================================================================
