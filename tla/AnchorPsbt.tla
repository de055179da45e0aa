----------------------------- MODULE AnchorPsbt -----------------------------
(***************************************************************************)
(* Anchor PSBTs as the SDK handles them (custom_anchor_signing.go and      *)
(* custom_anchor_lifecycle.go).  A PSBT is a record                        *)
(*                                                                         *)
(*   tx      the unsigned transaction, an opaque value                     *)
(*   meta    everything else that survives finalization: prevouts, output  *)
(*           maps, proprietary fields                                      *)
(*   signing for each input, the metadata finalization drops (sighash      *)
(*           type, Taproot internal key, merkle root, leaves)              *)
(*   keySig  for each input, its TaprootKeySpendSig                        *)
(*   final   for each input, its final witness                             *)
(*                                                                         *)
(* Signatures and witnesses are classified by what the code's checks tell  *)
(* apart, never by their bytes.                                            *)
(***************************************************************************)
CONSTANTS Inputs,   \* indices of the anchor transaction's inputs
          Txs,      \* unsigned transactions
          Metas,    \* contents of PSBT metadata
          None      \* an absent signature, witness or metadata field

\* Two valid Schnorr signatures that differ in their nonce, and an invalid one.
ValidKeySigs == {"sigA", "sigB"}
KeySigs == ValidKeySigs \cup {"badSig"}

\* What a final witness is to the sealed plan and to Bitcoin consensus:
\*   keyPath            key-path signature over the sealed sighash
\*   keyPathOther       consensus-valid key-path signature, other sighash
\*   scriptPath         sealed leaf, every required signer, sealed sighash
\*   scriptPathUnsealed sealed leaf, consensus-valid, but some signature is by
\*                      an undeclared signer or over another sighash
\*   otherLeaf          consensus-valid spend of a leaf that was not sealed
\*   annexed            consensus-valid, with an annex
\*   invalid            fails script execution
Witnesses == {"keyPath", "keyPathOther", "scriptPath", "scriptPathUnsealed",
              "otherLeaf", "annexed", "invalid"}
ConsensusValid == Witnesses \ {"invalid"}

\* None marks what is absent, so it is not one of the values that can be there.
ASSUME NoneAssumption == None \notin KeySigs \cup Witnesses \cup Metas

PSBTs ==
    [tx : Txs, meta : Metas, signing : [Inputs -> Metas \cup {None}],
     keySig : [Inputs -> KeySigs \cup {None}],
     final : [Inputs -> Witnesses \cup {None}]]

\* Serialization keeps no non-final input field once the input is finalized.
Serialized(psbt) ==
    [psbt EXCEPT
        !.signing = [i \in Inputs |-> IF psbt.final[i] # None
                                      THEN None ELSE psbt.signing[i]],
        !.keySig  = [i \in Inputs |-> IF psbt.final[i] # None
                                      THEN None ELSE psbt.keySig[i]]]

\* canonicalAnchorPSBT with stripSignatures: no signature, no final script.
Stripped(psbt) ==
    [psbt EXCEPT !.keySig = [i \in Inputs |-> None],
                 !.final  = [i \in Inputs |-> None]]

HasFinalization(psbt) == \E i \in Inputs : psbt.final[i] # None

AllAnchorInputsFinalized(psbt) == \A i \in Inputs : psbt.final[i] # None

\* sanitizeFinalAnchorPSBT: the committed packet with the final scripts of the
\* other one; it is defined only when the unsigned transactions are equal.
SanitizedFinal(committed, psbt) ==
    [committed EXCEPT !.final = psbt.final]

SameUnsignedTx(committed, psbt) == committed.tx = psbt.tx

\* compareCommittedAnchorPSBTMetadata.
CommittedMetadataKept(committed, current) ==
    IF HasFinalization(current)
    THEN /\ SameUnsignedTx(committed, current)
         /\ Serialized(SanitizedFinal(committed, current))
              = Serialized(current)
    ELSE Stripped(committed) = Stripped(current)
=============================================================================
