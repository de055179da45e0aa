------------------------ MODULE CustomAnchorTransfer ------------------------
(***************************************************************************)
(* What the custom-anchor lifecycle promises, without calls, messages or   *)
(* failures: a transaction is frozen before it is logged, at most one is   *)
(* ever logged, and a frozen transaction is given up only while it is not. *)
(***************************************************************************)
CONSTANTS Anchors,  \* frozen anchor transactions
          None      \* no transaction is frozen

VARIABLES frozen,   \* the transaction signing and publication work on
          logged    \* transactions the backend has logged

Init == frozen = None /\ logged = {}

Freeze ==
    /\ frozen = None
    /\ logged = {}
    /\ frozen' \in Anchors
    /\ UNCHANGED logged

GiveUp ==
    /\ frozen # None
    /\ logged = {}
    /\ frozen' = None
    /\ UNCHANGED logged

Log ==
    /\ frozen # None
    /\ logged' = {frozen}
    /\ UNCHANGED frozen

Next == Freeze \/ GiveUp \/ Log

Spec == Init /\ [][Next]_<<frozen, logged>>
=============================================================================
