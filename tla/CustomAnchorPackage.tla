------------------------ MODULE CustomAnchorPackage ------------------------
(***************************************************************************)
(* CustomAnchorTransferPackage: the sealed recovery package, its three     *)
(* digests, and the immutable operations that apply signatures and final   *)
(* witnesses to a clone (custom_anchor_package.go,                         *)
(* custom_anchor_signing.go).  The fields no signing check reads (mappings,*)
(* lock inventory, publish metadata) are one opaque value, `body`; the     *)
(* signing plans and backend-managed inputs a body holds are PlanOf[body]. *)
(***************************************************************************)
EXTENDS AnchorPsbt

CONSTANTS Bodies,   \* contents of the package outside its anchor PSBTs
          PlanOf    \* PlanOf[body][input]: the spending path sealed for it

Plans == {"keyPath", "muSig2", "scriptPath", "callerSigned", "backend"}

\* validateCustomAnchorSigningPlans makes the plans and the backend-managed
\* inputs an exact disjoint cover of the inputs: a total function.
ASSUME PlanAssumption == PlanOf \in [Bodies -> [Inputs -> Plans]]

KeyPlans == {"keyPath", "muSig2"}

\* A digest is collision free, so it is the tuple of the values it binds.
UnsignedTxDigest(committed) == <<"unsigned-tx", committed.tx>>

CommittedDigest(body, committed) ==
    <<"committed-package", body, Stripped(committed)>>

\* Faulty variant: the digest binds the committed PSBT but not the current one.
DigestWithoutAnchor(p) ==
    <<"package", p.body, p.committed, p.committedDigest, p.unsignedDigest>>

PackageDigest(p) ==
    <<"package", p.body, p.committed, Serialized(p.anchor),
      p.committedDigest, p.unsignedDigest>>

Packages ==
    [body            : Bodies,
     committed       : PSBTs,
     anchor          : PSBTs,
     unsignedDigest  : {"unsigned-tx"} \X Txs,
     committedDigest : {"committed-package"} \X Bodies \X PSBTs,
     packageDigest   : {"package"} \X Bodies \X PSBTs \X PSBTs
                         \X ({"committed-package"} \X Bodies \X PSBTs)
                         \X ({"unsigned-tx"} \X Txs)]

RefreshPackageDigest(p) == [p EXCEPT !.packageDigest = PackageDigest(p)]

\* The clone every operation returns: another current PSBT, the digest renewed.
WithAnchor(p, psbt) ==
    RefreshPackageDigest([p EXCEPT !.anchor = Serialized(psbt)])

\* Seal of a commit result: the current PSBT becomes the committed one.
Seal(body, psbt) ==
    RefreshPackageDigest(
        [body            |-> body,
         committed       |-> psbt,
         anchor          |-> psbt,
         unsignedDigest  |-> UnsignedTxDigest(psbt),
         committedDigest |-> CommittedDigest(body, psbt),
         packageDigest   |-> None])

Validate(p) ==
    /\ p.unsignedDigest = UnsignedTxDigest(p.committed)
    /\ SameUnsignedTx(p.committed, p.anchor)
    /\ CommittedMetadataKept(p.committed, p.anchor)
    /\ p.committedDigest = CommittedDigest(p.body, p.committed)
    /\ p.packageDigest = PackageDigest(p)

\* Faulty variant: the ID binds the snapshot, which every signature changes.
RequestIDOfSnapshot(p, i) == <<p.packageDigest, PlanOf[p.body][i], i>>

\* customAnchorSigningRequestID; caller-signed and backend-managed inputs get
\* no request.
RequestID(p, i) == <<p.committedDigest, PlanOf[p.body][i], i>>

KeyPathRequests(p) ==
    {RequestID(p, i) : i \in {j \in Inputs : PlanOf[p.body][j] \in KeyPlans}}

\* The sealed leaf, its control block and the declared signers are in the plan.
ScriptPathRequests(p) ==
    {RequestID(p, i) : i \in {j \in Inputs : PlanOf[p.body][j] = "scriptPath"}}

SigningRequests(p) == KeyPathRequests(p) \cup ScriptPathRequests(p)

-----------------------------------------------------------------------------
(* The clone ApplyKeyPathSignature returns for input i, and when it does. *)

WithKeySig(p, i, sig) == WithAnchor(p, [p.anchor EXCEPT !.keySig[i] = sig])

\* Faulty variant: a second signature silently replaces the first.
AnyKeySig(p, i, sig) == sig # None

NoOtherKeySig(p, i, sig) == p.anchor.keySig[i] \in {None, sig}

KeyPathSignatureAccepted(p, id, i, sig) ==
    /\ Validate(p)
    /\ id \in SigningRequests(p)
    /\ id = RequestID(p, i)
    /\ PlanOf[p.body][i] \in KeyPlans
    /\ sig \in ValidKeySigs
    /\ p.anchor.final[i] = None
    /\ NoOtherKeySig(p, i, sig)
    /\ Validate(WithKeySig(p, i, sig))

(* The clone ApplyScriptPathWitness returns.  The SDK appends the sealed   *)
(* leaf and control block itself and runs the script engine; declared      *)
(* signers and the sealed sighash are not examined until finalization.     *)

WithScriptWitness(p, i, wit) ==
    WithAnchor(p, [p.anchor EXCEPT !.final[i] = wit])

ScriptPathWitnessAccepted(p, id, i, wit) ==
    /\ Validate(p)
    /\ id \in SigningRequests(p)
    /\ id = RequestID(p, i)
    /\ PlanOf[p.body][i] = "scriptPath"
    /\ p.anchor.keySig[i] = None
    /\ wit \in {"scriptPath", "scriptPathUnsealed"}
    /\ p.anchor.final[i] \in {None, wit}
    /\ Validate(WithScriptWitness(p, i, wit))

-----------------------------------------------------------------------------
(* Finalization. *)

\* Faulty variant: consensus validity alone decides.
AnyWitness(plan, wit) == plan \in Plans /\ wit # None

\* verifyFinalScriptPathWitness: the sealed leaf; every declared signer signed,
\* and nobody else.
RequiredSignersSigned(wit) == wit = "scriptPath"

\* verifyFinalAnchorSigningPlans for one input: the witness uses the sealed
\* path; backend-managed inputs are left to consensus.
WitnessFollowsPlan(plan, wit) ==
    \/ plan = "backend"
    \/ /\ wit # "annexed"
       /\ \/ plan \in KeyPlans /\ wit = "keyPath"
          \/ plan = "scriptPath" /\ RequiredSignersSigned(wit)
          \/ plan = "callerSigned" /\ wit # None

FinalWitnessesAccepted(p, psbt) ==
    /\ AllAnchorInputsFinalized(psbt)
    /\ \A i \in Inputs : WitnessFollowsPlan(PlanOf[p.body][i], psbt.final[i])
    /\ \A i \in Inputs : psbt.final[i] \in ConsensusValid

\* VerifyFinalAnchorPSBT: a partly signed PSBT passes on its transaction alone.
VerifyFinalAnchorPSBT(p, psbt) ==
    /\ Validate(p)
    /\ SameUnsignedTx(p.committed, psbt)
    /\ AllAnchorInputsFinalized(psbt) => FinalWitnessesAccepted(p, psbt)

\* The clone WithFinalAnchorPSBT returns: committed metadata, final scripts.
WithFinalAnchorPSBT(p, psbt) == WithAnchor(p, SanitizedFinal(p.committed, psbt))

FinalAnchorAccepted(p, psbt) ==
    /\ Validate(p)
    /\ SameUnsignedTx(p.committed, psbt)
    /\ FinalWitnessesAccepted(p, psbt)
    /\ Validate(WithFinalAnchorPSBT(p, psbt))
=============================================================================
