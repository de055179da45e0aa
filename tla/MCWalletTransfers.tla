-------------------------- MODULE MCWalletTransfers -------------------------
(***************************************************************************)
(* A wallet with a fungible asset of two issuances and a collection with   *)
(* one item, which shares its anchor with a coin of the fungible asset.    *)
(***************************************************************************)
EXTENDS WalletTransfers, TLC

CONSTANTS gold, goldX, gold1, gold2, art, item

MCGroupOf == gold1 :> gold @@ gold2 :> gold @@ item :> art

MCCoins == {[issuance |-> gold1, amount |-> 2, anchor |-> 101],
            [issuance |-> item, amount |-> 1, anchor |-> 101],
            [issuance |-> gold2, amount |-> 1, anchor |-> 102],
            [issuance |-> gold1, amount |-> 1, anchor |-> 103]}

\* A universe names the group by its x-only key.
MCExactOf == goldX :> gold

MCHrp == "mainnet" :> "tapbc" @@ "regtest" :> "taprt"

\* A wallet's own address, and one with the amount the receiver asks for.
Receive(ref) == EncodeAddress(NewReceiveAddress(ref), "mainnet")
To(ref, embedded) == EncodeAddress([ref |-> ref, amount |-> embedded], "mainnet")
Pay(ref, embedded, amount) == [address |-> To(ref, embedded), amount |-> amount]

\* A tranche of the group named beside the group key, and records out of order.
Tranche == [hrp |-> "tapbc", records |-> << <<4, gold2>>, <<5, gold>>, <<10, 1>> >>]
Unsorted == [hrp |-> "tapbc", records |-> << <<5, gold>>, <<4, gold2>>, <<10, 1>> >>]

MCRecipientLists ==
    {<<[address |-> Receive(goldX), amount |-> 1], Pay(goldX, 1, None)>>,
     <<Pay(gold, 1, 2)>>,
     <<[address |-> Receive(item), amount |-> None]>>,
     <<Pay(gold, 0, 1), Pay(item, 0, 1)>>}

MCSingleSends ==
    {[address |-> Tranche, amount |-> None], [address |-> Unsorted, amount |-> 1],
     Pay(gold, 1, 2), Pay(gold, 0, None)}

Ask(ref, amount) == [ref |-> ref, amount |-> amount, embedded |-> 0]
MCInteractiveAsks == {Ask(gold, 2), Ask(gold2, 1)}
MCBurns == {Ask(gold1, 1), Ask(gold, 0)}

=============================================================================
