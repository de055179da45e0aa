--------------------------- MODULE AssetProofPath ---------------------------
(***************************************************************************)
(* Unconfirmed proof paths (custom_anchor_proof_path.go): a confirmed proof *)
(* file followed by the transitions that are not on chain yet, each with    *)
(* the complete paths of the other inputs it merges.                       *)
(*                                                                         *)
(* A path is a tree, kept as a function from positions to nodes.  Root is  *)
(* the path itself; the node at Append(q, <<i, j>>) is the j-th co-input   *)
(* path of step i of the node at q, so the length of a position is its     *)
(* nesting depth.                                                          *)
(*                                                                         *)
(*   node  [base, steps]: a confirmed file and the steps after it; a step  *)
(*         is [tx, out, prev, co]: it proves output out of the anchor      *)
(*         transaction tx, names prev as its predecessor and carries co    *)
(*         co-input paths                                                  *)
(*   file  [proofs, embedded]: the lineage of one asset, a sequence of     *)
(*         proofs [tx, out, block, merged], and the lineages its proofs    *)
(*         embed at any depth; merged are the outpoints whose lineages the *)
(*         proof embeds                                                    *)
(*                                                                         *)
(* What a proof says of an asset is what the anchor transaction commits to: *)
(* Transactions maps each transaction to its Bitcoin inputs, the outpoints  *)
(* its asset witnesses name, and its outputs [amount, identity, root,      *)
(* locked, alone]: root is the identity of the split root (or of the asset *)
(* itself), alone says that the output commits to this asset only.         *)
(***************************************************************************)
EXTENDS Integers, SequencesExt, FiniteSetsExt, Functions

CONSTANTS Transactions,   \* every anchor transaction, and the mints
          MaxSteps,       \* AssetProofPathMaxDepth
          MaxCoPaths,     \* AssetProofPathMaxStepCoPaths
          MaxNesting,     \* AssetProofPathMaxCoPathDepth
          MaxPathSize,    \* AssetProofPathMaxSize
          ProofSize       \* bytes of one encoded proof

ASSUME LimitAssumption ==
    /\ MaxSteps \in Nat /\ MaxCoPaths \in Nat /\ MaxNesting \in Nat
    /\ MaxPathSize \in Nat /\ ProofSize \in Nat

TxNames == DOMAIN Transactions
Mints == {t \in TxNames : Transactions[t].witnesses = <<>>}

\* Every transaction has outputs.
ASSUME OutputAssumption ==
    \A t \in TxNames : LET outputs == Transactions[t].outputs
                       IN  /\ Len(outputs) \in Nat /\ Len(outputs) > 0
                           /\ DOMAIN outputs = 1..Len(outputs)

Outpoint(proof) == <<proof.tx, proof.out>>
Asset(outpoint) == Transactions[outpoint[1]].outputs[outpoint[2]]

Root == <<>>

CoPositions(path, q, i) ==
    {Append(q, <<i, j>>) : j \in 1..path[q].steps[i].co}

\* The asset state a node selects, and the one before its i-th step.
TipBefore(node, i) ==
    Outpoint(IF i = 1 THEN Last(node.base.proofs) ELSE node.steps[i - 1])

Tip(node) == TipBefore(node, Len(node.steps) + 1)

CoTips(path, q, i) == {Tip(path[r]) : r \in CoPositions(path, q, i)}

-----------------------------------------------------------------------------
(* Validate: the shape of the whole tree first, then the content. *)

FrameSize == 16 + 32    \* magic, format, base length, step count; checksum

NodeSize(node, stepSize) ==
    FrameSize + ProofSize * Len(node.base.proofs)
      + SumFunction([i \in DOMAIN node.steps |-> stepSize + 4 * node.steps[i].co])

\* What validateShape charges against the budget of the tree.
ChargedSize(path) ==
    SumFunction([q \in DOMAIN path |-> NodeSize(path[q], 4 + ProofSize)])

\* What encode writes for the node at q and all below it: every step also
\* carries the count of its co-input paths.
Below(path, q) == {r \in DOMAIN path : IsPrefix(q, r)}

EncodedSize(path, q) ==
    SumFunction([r \in Below(path, q) |-> NodeSize(path[r], 4 + ProofSize + 2)])

ShapeWithin(path) ==
    \A q \in DOMAIN path :
        /\ Len(q) <= MaxNesting
        /\ Len(path[q].steps) <= MaxSteps
        /\ \A i \in DOMAIN path[q].steps : path[q].steps[i].co <= MaxCoPaths

ValidateShape(path) == ChargedSize(path) <= MaxPathSize /\ ShapeWithin(path)

WitnessCount(step) == 1 + step.co

CountIn(seq, x) == Cardinality({i \in DOMAIN seq : seq[i] = x})

\* decodeAssetProofPathStep: no unconfirmed mint, no timelock, one complete
\* witness per declared input, and the predecessor spent exactly once by each
\* layer.  Versions, activation evidence and the split root proof are those of
\* every transition modelled.
StepDecodes(step) ==
    LET tx == Transactions[step.tx]
    IN  /\ step.tx \notin Mints
        /\ ~tx.outputs[step.out].locked
        /\ Len(tx.witnesses) = WitnessCount(step)
        /\ CountIn(tx.inputs, step.prev) = 1
        /\ CountIn(tx.witnesses, step.prev) = 1

ValidateContent(path) ==
    \A q \in DOMAIN path :
        /\ ~Asset(Outpoint(Last(path[q].base.proofs))).locked
        /\ \A i \in DOMAIN path[q].steps : StepDecodes(path[q].steps[i])

Validate(path) == ValidateShape(path) /\ ValidateContent(path)

-----------------------------------------------------------------------------
(* MarshalBinary and UnmarshalBinary.  A blob nests the blobs of its        *)
(* co-input paths, each with a size and a checksum over everything in it.  *)

Encode(path) ==
    [q \in DOMAIN path |->
        [base |-> path[q].base, steps |-> path[q].steps,
         size |-> EncodedSize(path, q), sum |-> TRUE]]

\* Faulty variant: the nesting bound is off by one.
DecodesStrictly(blob) ==
    \A q \in DOMAIN blob :
        Len(q) < MaxNesting /\ blob[q].size <= MaxPathSize /\ blob[q].sum

DecodesAt(blob) ==
    \A q \in DOMAIN blob :
        /\ Len(q) <= MaxNesting
        /\ blob[q].size <= MaxPathSize
        /\ blob[q].sum
        /\ Len(blob[q].steps) <= MaxSteps
        /\ \A i \in DOMAIN blob[q].steps : blob[q].steps[i].co <= MaxCoPaths

Decode(blob) ==
    [q \in DOMAIN blob |-> [base |-> blob[q].base, steps |-> blob[q].steps]]

Unmarshals(blob) == DecodesAt(blob) /\ Validate(Decode(blob))

-----------------------------------------------------------------------------
(* Verify.  attested are the transactions VerifyUnconfirmedAnchor accepts.   *)

\* verifyAssetProofPathIsolatedOutput, on which DeriveConfirmedProofInventory
\* rests as well.
IsolatedOutput(outpoint) == Asset(outpoint).alone

SameIdentity(a, b) == a.identity = b.identity

\* verifyAssetProofPathIdentity: the selected asset and its split root.
IdentityKept(previous, step) ==
    LET asset == Asset(Outpoint(step))
    IN  SameIdentity(Asset(previous), asset) /\ asset.root = asset.identity

StepInputBinding(step, expected) ==
    ToSet(Transactions[step.tx].witnesses) = expected

\* Faulty variant: only the spine predecessor must be spent, which is all the
\* native verifier asks for.
PredecessorSpend(step, expected) ==
    CountIn(Transactions[step.tx].inputs, step.prev) = 1

AnchorSpend(step, expected) ==
    \A o \in expected : CountIn(Transactions[step.tx].inputs, o) = 1

TotalOf(outpoints) ==
    MapThenSumSet(LAMBDA o : Asset(o).amount, outpoints)

OutputsOf(tx) == {<<tx, i>> : i \in DOMAIN Transactions[tx].outputs}

\* proof.Verify without chain checks: the step follows its predecessor and the
\* assets it names hold the amounts it distributes.
NativelyValid(step, previous, inputs) ==
    /\ step.prev = previous
    /\ ToSet(Transactions[step.tx].witnesses) \subseteq inputs
    /\ TotalOf(OutputsOf(step.tx)) = TotalOf(inputs)

AnchorAttested(step, attested) == step.tx \in attested

BaseFiles(path) == {path[q].base : q \in DOMAIN path}

VerifyStep(path, q, i, attested) ==
    LET step == path[q].steps[i]
        previous == TipBefore(path[q], i)
        coTips == CoTips(path, q, i)
        expected == {previous} \cup coTips
    IN  /\ \A o \in coTips : SameIdentity(Asset(previous), Asset(o))
        /\ Cardinality(expected) = WitnessCount(step)
        /\ StepInputBinding(step, expected)
        /\ AnchorSpend(step, expected)
        /\ IdentityKept(previous, step)
        /\ AnchorAttested(step, attested)
        /\ NativelyValid(step, previous, expected)
        /\ IsolatedOutput(Outpoint(step))

VerifyChain(path, attested) ==
    \A q \in DOMAIN path :
        /\ IsolatedOutput(Outpoint(Last(path[q].base.proofs)))
        /\ \A i \in DOMAIN path[q].steps : VerifyStep(path, q, i, attested)

-----------------------------------------------------------------------------
(* ConfirmProofFile (custom_anchor_proof_confirm.go): confirmations maps the *)
(* transactions the host saw in a block to that block.                       *)

AnchorTxs(path) ==
    UNION {{path[q].steps[i].tx : i \in DOMAIN path[q].steps} : q \in DOMAIN path}

\* confirmTransitionProof.
Confirmable(path, confirmations) ==
    /\ Validate(path)
    /\ \A t \in AnchorTxs(path) :
          t \in DOMAIN confirmations /\ t \in confirmations[t].txs

\* The proofs of one node: those of its base, then one for each step.
Lineage(path, q, confirmations) ==
    path[q].base.proofs \o
      [i \in DOMAIN path[q].steps |->
          [tx |-> path[q].steps[i].tx, out |-> path[q].steps[i].out,
           block |-> confirmations[path[q].steps[i].tx],
           merged |-> CoTips(path, q, i)]]

\* Faulty variant: a merged step does not embed the lineages it merged.
SpineOnly(path, confirmations) ==
    [proofs |-> Lineage(path, Root, confirmations),
     embedded |-> path[Root].base.embedded]

ConfirmProofFile(path, confirmations) ==
    [proofs |-> Lineage(path, Root, confirmations),
     embedded |-> (UNION {path[q].base.embedded : q \in DOMAIN path}) \cup
                  {Lineage(path, q, confirmations) : q \in DOMAIN path \ {Root}}]

-----------------------------------------------------------------------------
(* Appending a transition to the spine of a path, with the paths of its      *)
(* other inputs.                                                             *)

Grafted(path, n, j) == {<<<<n, j>>>> \o r : r \in DOMAIN path}

Extended(path, step, coPaths) ==
    LET n == Len(path[Root].steps) + 1
    IN  [q \in DOMAIN path \cup
               (UNION {Grafted(coPaths[j], n, j) : j \in DOMAIN coPaths}) |->
            IF q = Root
              THEN [path[Root] EXCEPT !.steps = Append(@, step)]
              ELSE IF Head(q)[1] = n
                     THEN coPaths[Head(q)[2]][Tail(q)]
                     ELSE path[q]]
=============================================================================
