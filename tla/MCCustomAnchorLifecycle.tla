---------------------- MODULE MCCustomAnchorLifecycle ----------------------
(***************************************************************************)
(* One wallet-funded and one external-P2A plan.  The wallet has two coins, *)
(* so a second commit freezes another transaction than the first; one      *)
(* answer exceeds the maximum fee.  Four calls are two commits and two     *)
(* publications, the fewest that can log two transactions.                 *)
(***************************************************************************)
EXTENDS CustomAnchorLifecycle

Input(outpoint, value) ==
    [outpoint |-> outpoint, sequence |-> 0, value |-> value, fixed |-> "utxo",
     derivations |-> {}, stable |-> TRUE]

Output(value, script) ==
    [value |-> value, script |-> script, fixed |-> "meta", roots |-> "none"]

WalletFunded ==
    [template |-> [header |-> "v2", inputs |-> <<Input("caller", 1)>>,
                   outputs |-> <<Output(1, "asset")>>],
     assetOutputs |-> {1}, mode |-> "walletFunded", change |-> "noNew",
     existing |-> 0, maxFee |-> 2, unconfirmedPath |-> FALSE]

P2AParent ==
    [template |-> [header |-> "v3", inputs |-> <<Input("caller", 1)>>,
                   outputs |-> <<Output(1, "asset"), Output(0, "p2a")>>],
     assetOutputs |-> {1}, mode |-> "externalP2A", change |-> "none",
     existing |-> 0, maxFee |-> 0, unconfirmedPath |-> FALSE]

MCPlans == {WalletFunded, P2AParent,
            [P2AParent EXCEPT !.unconfirmedPath = TRUE]}

Coin(p) == IF p.mode = "walletFunded"
           THEN {<<Input("coin1", 1)>>, <<Input("coin2", 2)>>,
                 <<Input("coin1", 1), Input("coin2", 2)>>}
           ELSE {<<>>}

MCAnswers(p) ==
    {[anchor |-> [p.template EXCEPT !.inputs = @ \o coins,
                                    !.outputs[1].script = "committed"],
      change |-> NoChange,
      locked |-> [i \in DOMAIN coins |-> coins[i].outpoint],
      commitments |-> TRUE] : coins \in Coin(p)}

MCProfiles == {Capabilities, Capabilities \ {"skipBroadcast"}}
=============================================================================
