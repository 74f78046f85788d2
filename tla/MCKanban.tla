------------------------------- MODULE MCKanban -------------------------------
(***************************************************************************)
(* Instances of KanbanSync for TLC.                                        *)
(***************************************************************************)
EXTENDS KanbanSync, TLC

\* Workers and cards are interchangeable: only for runs without liveness.
Symmetry == Permutations(Workers) \cup Permutations(Cards) \cup Permutations(Editors)
=============================================================================
