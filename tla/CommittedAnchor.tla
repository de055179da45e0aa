-------------------------- MODULE CommittedAnchor --------------------------
(***************************************************************************)
(* What Commit accepts from the backend (custom_anchor_lifecycle.go).  The *)
(* caller's plan fixes a transaction template and a funding policy; the    *)
(* backend answers with an anchor transaction, a change index and the      *)
(* outpoints it locked.  Here are the checks that decide whether that      *)
(* answer becomes the sealed package.                                      *)
(*                                                                         *)
(*   anchor  [header, inputs, outputs]; header is version, locktime and    *)
(*           global PSBT fields                                            *)
(*   input   [outpoint, sequence, value, fixed, derivations, stable]:      *)
(*           fixed is every PSBT field but key origins; stable says that   *)
(*           the prevout is P2WPKH, P2WSH or P2TR                          *)
(*   output  [value, script, fixed, roots]: roots are tapd's proprietary   *)
(*           commitment fields                                             *)
(*   plan    [template, assetOutputs, mode, change, existing, maxFee]      *)
(*   answer  [anchor, change, locked, commitments]: commitments says that  *)
(*           the Taproot commitments in the answer agree with the packets  *)
(***************************************************************************)
EXTENDS Integers, SequencesExt

CONSTANTS MaxSatoshi,  \* btcutil.MaxSatoshi
          P2AScript    \* canonicalP2AScript

\* What a parsed PSBT is.
IsSequence(list) ==
    Len(list) \in Nat /\ list = [i \in 1..Len(list) |-> list[i]]

IsInput(in) ==
    in = [outpoint |-> in.outpoint, sequence |-> in.sequence, value |-> in.value,
          fixed |-> in.fixed, derivations |-> in.derivations, stable |-> in.stable]

IsOutput(out) ==
    out = [value |-> out.value, script |-> out.script, fixed |-> out.fixed,
           roots |-> out.roots]

IsAnchor(anchor) ==
    /\ anchor = [header |-> anchor.header, inputs |-> anchor.inputs,
                 outputs |-> anchor.outputs]
    /\ IsSequence(anchor.inputs) /\ IsSequence(anchor.outputs)
    /\ \A i \in DOMAIN anchor.inputs : IsInput(anchor.inputs[i])
    /\ \A i \in DOMAIN anchor.outputs : IsOutput(anchor.outputs[i])

\* Output indices count from one; the code's index -1 is NoChange.
NoChange == 0

InputTotal(anchor) ==
    SumFunction([i \in DOMAIN anchor.inputs |-> anchor.inputs[i].value])

OutputTotal(anchor) ==
    SumFunction([i \in DOMAIN anchor.outputs |-> anchor.outputs[i].value])

\* customAnchorTransactionFee.
Fee(anchor) == InputTotal(anchor) - OutputTotal(anchor)

Outpoints(anchor) == {anchor.inputs[i].outpoint : i \in DOMAIN anchor.inputs}

\* addedAnchorInputIndices: the backend may only append.
AddedInputs(before, after) ==
    {i \in DOMAIN after.inputs : i > Len(before.inputs)}

-----------------------------------------------------------------------------
(* verifyCommittedAnchorShape *)

\* Faulty variant: PSBT metadata, the prevout among it, is not compared.
OutpointsKept(before, after) ==
    /\ Len(after.inputs) >= Len(before.inputs)
    /\ \A i \in DOMAIN before.inputs :
          /\ after.inputs[i].outpoint = before.inputs[i].outpoint
          /\ after.inputs[i].sequence = before.inputs[i].sequence

InputsKept(before, after) ==
    /\ Len(after.inputs) >= Len(before.inputs)
    /\ \A i \in DOMAIN before.inputs :
          LET left == before.inputs[i]
              right == after.inputs[i]
          IN  /\ right = [left EXCEPT !.derivations = right.derivations]
              /\ left.derivations \subseteq right.derivations

SkipFundingKept(before, after, change) ==
    /\ Len(after.inputs) = Len(before.inputs)
    /\ Len(after.outputs) = Len(before.outputs)
    /\ change = NoChange

ChangePolicyKept(plan, after, change) ==
    LET added == Len(after.outputs) - Len(plan.template.outputs)
    IN  \/ /\ plan.change = "add"
           /\ \/ added = 0 /\ change = NoChange
              \/ added = 1 /\ change = Len(after.outputs)
        \/ /\ plan.change = "existing"
           /\ plan.existing \in DOMAIN plan.template.outputs \ plan.assetOutputs
           /\ added = 0
           /\ change = plan.existing
        \/ /\ plan.change = "noNew"
           /\ added = 0
           /\ change = NoChange

\* Faulty variant: the values of BTC-only outputs are not compared.
OutputScriptsKept(plan, after) ==
    \A i \in DOMAIN plan.template.outputs :
        i \in plan.assetOutputs
          \/ after.outputs[i].script = plan.template.outputs[i].script

\* The backend inserts commitment scripts and roots into asset outputs, and may
\* set the value of the existing output chosen as change.
OutputsKept(plan, after) ==
    \A i \in DOMAIN plan.template.outputs :
        LET left == plan.template.outputs[i]
            right == after.outputs[i]
        IN  IF i \in plan.assetOutputs
            THEN right.value = left.value /\ right.fixed = left.fixed
            ELSE /\ right = [left EXCEPT !.value = right.value]
                 /\ \/ right.value = left.value
                    \/ /\ plan.mode = "walletFunded"
                       /\ plan.change = "existing" /\ plan.existing = i

ShapeKept(plan, after, change) ==
    /\ after.header = plan.template.header
    /\ InputsKept(plan.template, after)
    /\ IF plan.mode = "walletFunded"
       THEN ChangePolicyKept(plan, after, change)
       ELSE SkipFundingKept(plan.template, after, change)
    /\ OutputsKept(plan, after)

-----------------------------------------------------------------------------
(* validateTxIDStableAnchorInputs, validateCustomAnchorBitcoinTransaction *)

InputsTxIDStable(anchor) ==
    \A i \in DOMAIN anchor.inputs : anchor.inputs[i].stable

\* blockchain.CheckTransactionSanity, as far as a plan can get it wrong.
TransactionSane(anchor) ==
    /\ anchor.inputs # <<>> /\ anchor.outputs # <<>>
    /\ \A i \in DOMAIN anchor.outputs : anchor.outputs[i].value \in 0..MaxSatoshi
    /\ OutputTotal(anchor) <= MaxSatoshi
    /\ \A i, j \in DOMAIN anchor.inputs :
          anchor.inputs[i].outpoint = anchor.inputs[j].outpoint => i = j

HasZeroValueP2A(anchor) ==
    \E i \in DOMAIN anchor.outputs :
        anchor.outputs[i].value = 0 /\ anchor.outputs[i].script = P2AScript

BitcoinTransactionValid(anchor) ==
    /\ TransactionSane(anchor)
    /\ \A i \in DOMAIN anchor.inputs : anchor.inputs[i].value \in 0..MaxSatoshi
    /\ InputTotal(anchor) <= MaxSatoshi
    /\ Fee(anchor) >= 0
    /\ HasZeroValueP2A(anchor) => Fee(anchor) = 0

-----------------------------------------------------------------------------
(* validateCustomAnchorLockInventory, and the acceptance of an answer *)

LockInventoryComplete(plan, after, locked) ==
    IF plan.mode = "walletFunded"
    THEN /\ IsInjective(locked)
         /\ ToSet(locked) = {after.inputs[i].outpoint :
                                i \in AddedInputs(plan.template, after)}
    ELSE locked = <<>>

\* Faulty variant: the maximum fee is never looked at.
AnyFee(plan, anchor) == Fee(anchor) >= 0

FeeWithinMaximum(plan, anchor) ==
    plan.mode = "walletFunded" => Fee(anchor) <= plan.maxFee

Accepts(plan, answer) ==
    /\ ShapeKept(plan, answer.anchor, answer.change)
    /\ InputsTxIDStable(answer.anchor)
    /\ BitcoinTransactionValid(answer.anchor)
    /\ FeeWithinMaximum(plan, answer.anchor)
    /\ LockInventoryComplete(plan, answer.anchor, answer.locked)
    /\ answer.commitments
=============================================================================
