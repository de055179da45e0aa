--------------------------- MODULE AnchorRequest ---------------------------
(***************************************************************************)
(* What a caller may ask of the custom-anchor builder                      *)
(* (custom_anchor_types.go): asset inputs, logical outputs, a transaction  *)
(* template, and how it is funded, what may be lost and what becomes of    *)
(* co-anchored assets.                                                     *)
(*                                                                         *)
(*   ref      [kind, name]: an issuance ("asset") or a group ("group")     *)
(*   coin     [outpoint, issuance, group, amount, key, locked]: the asset  *)
(*            a proof ends in                                              *)
(*   input    [id, ref, amount, sources, coin, witness]: sources are the   *)
(*            proofs given, "file" or "path"; coin is what they decode to; *)
(*            witness is "backend", "valid" or "invalid" for a caller's    *)
(*   output   [id, ref, amount, script, key, index, value, anchor]: anchor *)
(*            is the internal key with the tapscript sibling               *)
(*   loss     [mode, confirmed, allowances]: a sequence of [ref, amount]   *)
(*   passive  [policy, packets]; packet [id, ref, amount, tip, input,      *)
(*            output, wellFormed], output [issuance, amount, key, index,   *)
(*            anchor]                                                      *)
(*   funding  [mode, variants, change, existing, maxFee, lockID, p2a]      *)
(*   request  [inputs, outputs, loss, passive, funding, template]          *)
(***************************************************************************)
EXTENDS Integers, SequencesExt

CONSTANTS MaxAmount,  \* math.MaxUint64
          NoGroup     \* the group of an ungrouped issuance

AssetRef(issuance) == [kind |-> "asset", name |-> issuance]
GroupRef(group) == [kind |-> "group", name |-> group]

\* AssetRefFromTypedAsset, for fungible assets.
Identity(coin) ==
    IF coin.group = NoGroup THEN AssetRef(coin.issuance) ELSE GroupRef(coin.group)

\* customAnchorAssetRefMatchesIssuance.
Names(ref, coin) == ref \in {Identity(coin), AssetRef(coin.issuance)}

-----------------------------------------------------------------------------
(* Amounts *)

Overflow == -1

\* Faulty variant: sums wrap around.
WrappingSum(amounts) == SumFunction(amounts) % (MaxAmount + 1)

\* A chain of checkedCustomAnchorAdd.
CheckedSum(amounts) ==
    IF SumFunction(amounts) > MaxAmount THEN Overflow ELSE SumFunction(amounts)

\* The entries of a list for one accounting key (customAnchorAssetKey): a
\* reference is its own key, so one issuance may be accounted under two.
Under(entries, ref) == {i \in DOMAIN entries : entries[i].ref = ref}

TotalUnder(entries, ref) ==
    CheckedSum([i \in Under(entries, ref) |-> entries[i].amount])

Burned(r, ref) ==
    LET burning == {i \in Under(r.outputs, ref) : r.outputs[i].script = "burn"}
    IN  CheckedSum([i \in burning |-> r.outputs[i].amount])

Allowance(loss, ref) ==
    LET granted == {a \in ToSet(loss.allowances) : a.ref = ref}
    IN  IF loss.mode # "burn" \/ ~loss.confirmed \/ granted = {}
        THEN 0
        ELSE (CHOOSE a \in granted : TRUE).amount

\* Nothing is dropped without an output that burns it.
AmountsValid(r) ==
    /\ \A e \in ToSet(r.inputs) : TotalUnder(r.inputs, e.ref) # Overflow
    /\ \A e \in ToSet(r.outputs) :
          /\ TotalUnder(r.outputs, e.ref) # Overflow
          /\ TotalUnder(r.outputs, e.ref) = TotalUnder(r.inputs, e.ref)
    /\ \A e \in ToSet(r.inputs) : Burned(r, e.ref) <= Allowance(r.loss, e.ref)

-----------------------------------------------------------------------------
(* The parts of a request *)

IDs(entries) == [i \in DOMAIN entries |-> entries[i].id]

InputValid(input) ==
    /\ input.id # "" /\ input.amount # 0
    /\ Cardinality(input.sources) = 1
    /\ input.sources = {"path"} => input.witness # "backend"

OutputValid(output) == output.id # "" /\ output.amount # 0 /\ output.value # 0

SharedAnchorsAgree(outputs) ==
    \A a, b \in ToSet(outputs) :
        a.index = b.index => a.value = b.value /\ a.anchor = b.anchor

LossValid(loss) ==
    \/ loss.mode = "reject" /\ loss.allowances = <<>> /\ ~loss.confirmed
    \/ /\ loss.mode = "burn" /\ loss.confirmed /\ loss.allowances # <<>>
       /\ \A a \in ToSet(loss.allowances) : a.amount # 0
       /\ IsInjective([i \in DOMAIN loss.allowances |-> loss.allowances[i].ref])
       /\ CheckedSum([i \in DOMAIN loss.allowances |->
                         loss.allowances[i].amount]) # Overflow

PassiveValid(passive) ==
    \/ passive.policy \in {"reject", "preserve"} /\ passive.packets = <<>>
    \/ /\ passive.policy = "callerReanchor" /\ passive.packets # <<>>
       /\ IsInjective(IDs(passive.packets))
       /\ \A p \in ToSet(passive.packets) :
             p.id # "" /\ p.amount # 0 /\ TotalUnder(passive.packets, p.ref) # Overflow

FundingValid(funding) ==
    /\ funding.variants = {funding.mode}
    /\ funding.mode = "walletFunded" => funding.maxFee # 0 /\ funding.lockID # ""

Valid(r) ==
    /\ r.inputs # <<>> /\ r.outputs # <<>>
    /\ FundingValid(r.funding) /\ PassiveValid(r.passive) /\ LossValid(r.loss)
    /\ \A i \in ToSet(r.inputs) : InputValid(i)
    /\ \A o \in ToSet(r.outputs) : OutputValid(o)
    /\ IsInjective(IDs(r.inputs)) /\ IsInjective(IDs(r.outputs))
    /\ SharedAnchorsAgree(r.outputs)
    /\ AmountsValid(r)
=============================================================================
