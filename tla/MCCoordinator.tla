---------------------------- MODULE MCCoordinator ----------------------------
(***************************************************************************)
(* Model values for Coordinator: the sessions mint the same asset, one     *)
(* after the other, on a daemon where someone else mints a lookalike.      *)
(***************************************************************************)
EXTENDS Coordinator, TLC

MCSpecOf == [a \in Assets |-> "gold"]

\* The properties are safety properties and no definition tells the sessions
\* apart.
Symmetry == Permutations(Sessions)
=============================================================================
