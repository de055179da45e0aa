--------------------------- MODULE SendRecipients ---------------------------
(***************************************************************************)
(* Whom a transfer pays, and how much (decode_addr.go, recipient.go,       *)
(* wallet.go and the clients' requests).  The SDK reads an address without *)
(* tapd's help, settles each recipient's amount between the address and    *)
(* the caller, and hands tapd one of two request forms.                    *)
(*                                                                         *)
(* An address string is [hrp, records], its records <<type, value>> pairs; *)
(* a recipient is [address, amount], amount being None if the caller gives *)
(* none.  Keys, versions and couriers are left out.                        *)
(***************************************************************************)
EXTENDS AssetViews, Sequences

CONSTANTS
    Hrp,      \* the address prefix of each network
    NoID,     \* the all-zero asset ID
    ExactOf   \* the group of each reference with an x-only group key

IDRecord == 4
GroupRecord == 5
AmountRecord == 10

Malformed == [ref |-> None, amount |-> 0, ok |-> FALSE]

\* Group keys are compared without their parity.
XOnly(ref) == IF ref \in DOMAIN ExactOf THEN ExactOf[ref] ELSE ref
Equivalent(ref1, ref2) == XOnly(ref1) = XOnly(ref2)

\* tapd's NewAddr knows exact groups and issuances; an item is sent whole.
NewAddr(ref, amount) ==
    [ref |-> ref, amount |-> amount,
     error |-> CASE ref \notin References -> "unknown"
                 [] ref \in Collectibles /\ amount # 1 -> "collectible"
                 [] OTHER -> "none"]

\* NewReceiveAddress: the amount of an item is supplied, and the exact key of a group
\* looked up, once each and in this order, when tapd's answer calls for it.
NewReceiveAddress(ref) ==
    LET amount == IF NewAddr(ref, 0).error = "collectible" THEN 1 ELSE 0
        second == NewAddr(ref, amount)
    IN IF second.error = "unknown" /\ ref \in DOMAIN ExactOf
       THEN NewAddr(ExactOf[ref], amount) ELSE second

EncodeAddress(address, network) ==
    LET grouped == address.ref \in Groups \cup DOMAIN ExactOf
    IN [hrp |-> Hrp[network],
        records |->
            << <<IDRecord, IF grouped THEN NoID ELSE address.ref>> >>
            \o (IF grouped THEN << <<GroupRecord, address.ref>> >> ELSE <<>>)
            \o (IF address.amount > 0
                THEN << <<AmountRecord, address.amount>> >> ELSE <<>>)]

\* A group key with an issuance names the issuance, with a zero one the group.
DecodeAddress(string) ==
    LET records == string.records
        known == {records[i][1] : i \in DOMAIN records}
        value(type) ==
            IF type \in known
            THEN (CHOOSE r \in {records[i] : i \in DOMAIN records} :
                    r[1] = type)[2]
            ELSE None
        sorted == \A i, j \in DOMAIN records :
                    i < j => records[i][1] < records[j][1]
    IN IF string.hrp \notin {Hrp[n] : n \in DOMAIN Hrp} \/ ~sorted
       THEN Malformed
       ELSE [ref |-> IF GroupRecord \in known /\ value(IDRecord) \in {None, NoID}
                     THEN value(GroupRecord) ELSE value(IDRecord),
             amount |-> IF AmountRecord \in known THEN value(AmountRecord) ELSE 0,
             ok |-> TRUE]

\* validateSingleAssetSendBatch.
SingleAsset(addresses) ==
    \A i \in DOMAIN addresses :
        /\ addresses[i].ref # None
        /\ Equivalent(addresses[1].ref, addresses[i].ref)

\* Faulty variant: the amount an address embeds is not compared with the caller's.
AmountGiven(recipient) ==
    IF recipient.amount = None THEN DecodeAddress(recipient.address).amount > 0
                               ELSE recipient.amount > 0

\* An amount is embedded or given; if both, they agree.
AmountSettled(recipient) ==
    LET embedded == DecodeAddress(recipient.address).amount
    IN IF recipient.amount = None THEN embedded > 0
       ELSE recipient.amount > 0 /\ embedded \in {0, recipient.amount}

\* What normaliseSendRecipients accepts, before it settles the amounts.
RecipientsValid(recipients) ==
    LET addresses == [i \in DOMAIN recipients |->
                        DecodeAddress(recipients[i].address)]
    IN /\ recipients # <<>>
       /\ \A i \in DOMAIN recipients : addresses[i].ok
       /\ SingleAsset(addresses)
       /\ \A i \in DOMAIN recipients : AmountSettled(recipients[i])

\* One explicit amount makes them all explicit.
Normalised(recipients, forceExplicit) ==
    LET explicit == forceExplicit \/ \E i \in DOMAIN recipients :
                                        recipients[i].amount # None
    IN [i \in DOMAIN recipients |->
          [recipients[i] EXCEPT !.amount =
            IF explicit /\ @ = None
            THEN DecodeAddress(recipients[i].address).amount ELSE @]]

\* Send with one recipient: only the amount is checked.
SendValid(recipient) ==
    DecodeAddress(recipient.address).ok /\ AmountSettled(recipient)

\* The clients refuse a request that mixes the two forms; FundTransfer takes
\* explicit amounts only.
Uniform(recipients) ==
    \/ \A i \in DOMAIN recipients : recipients[i].amount = None
    \/ \A i \in DOMAIN recipients : recipients[i].amount # None

Explicit(recipients) ==
    \A i \in DOMAIN recipients : recipients[i].amount \notin {None, 0}

\* What tapd pays for a request: one amount of one asset to each recipient.
Payments(recipients) ==
    [i \in DOMAIN recipients |->
        LET address == DecodeAddress(recipients[i].address)
        IN [ref |-> address.ref,
            amount |-> IF recipients[i].amount = None THEN address.amount
                                                      ELSE recipients[i].amount]]

=============================================================================
