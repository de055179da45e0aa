---------------------------- MODULE MCProofPaths ----------------------------
(***************************************************************************)
(* Three mints of one asset and one of another.  split and top can be       *)
(* merged into nested paths; each other transaction breaks one rule.        *)
(***************************************************************************)
EXTENDS ProofPaths, TLC

Out(amount, identity) ==
    [amount |-> amount, identity |-> identity, root |-> identity,
     locked |-> FALSE, alone |-> TRUE]

Mint(amount, identity) ==
    [inputs |-> <<>>, witnesses |-> <<>>, outputs |-> <<Out(amount, identity)>>]

Move(spent, outputs) ==
    [inputs |-> spent, witnesses |-> spent, outputs |-> outputs]

MCTransactions ==
    [beef1 |-> Mint(2, "beef"),
     beef2 |-> Mint(1, "beef"),
     beef3 |-> Mint(1, "beef"),
     pork  |-> Mint(1, "pork"),
     split |-> Move(<<<<"beef1", 1>>>>, <<Out(1, "beef"), Out(1, "beef")>>),
     merge |-> Move(<<<<"split", 1>>, <<"beef2", 1>>>>, <<Out(2, "beef")>>),
     top   |-> Move(<<<<"beef3", 1>>, <<"merge", 1>>>>, <<Out(3, "beef")>>),
     \* The Bitcoin transaction does not spend the second input it claims.
     claim |-> [Move(<<<<"beef2", 1>>, <<"beef3", 1>>>>, <<Out(2, "beef")>>)
                   EXCEPT !.inputs = <<<<"beef2", 1>>>>],
     \* Two identities become one.
     swap  |-> Move(<<<<"beef2", 1>>, <<"pork", 1>>>>, <<Out(2, "beef")>>),
     \* Another asset hides in the output.
     crowd |-> Move(<<<<"beef3", 1>>>>, <<[Out(1, "beef") EXCEPT !.alone = FALSE]>>)]

MCPlans == {{"split", "merge", "top"}, {"split", "merge", "crowd"},
            {"split", "claim"}, {"split", "swap", "crowd"}}

MCBlocks == {{"split", "merge"}, {"split", "merge", "top"}, {"claim"}}

SlotSymmetry == Permutations(Slots)
=============================================================================
