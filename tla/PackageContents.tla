-------------------------- MODULE PackageContents --------------------------
(***************************************************************************)
(* What a transfer package holds besides its signatures                    *)
(* (custom_anchor_package.go): the committed anchor and virtual packets,   *)
(* and the summaries a host works from, which say where each input came    *)
(* from, what each output is and whose proof goes where.  Commit derives   *)
(* the summaries (custom_anchor_lifecycle.go); Seal and Validate accept    *)
(* those that agree with the packets, whoever wrote them.                  *)
(*                                                                         *)
(*   virtual input   [role, packet, coin, proof]: proof is the coin that   *)
(*                   the attached proof ends in                            *)
(*   virtual output  [role, packet, issuance, group, amount, key, index]   *)
(*   suffix          [tx, out]: the transition proof for one output        *)
(*   virtual         [inputs, outputs]: the committed packets; an entry of *)
(*                   outputs is [out, suffix]                              *)
(*   source          the coin the file or path kept for an input ends in   *)
(***************************************************************************)
EXTENDS AnchorBuilder

\* The transaction ID leaves signatures and PSBT metadata out.
TxID(anchor) ==
    [header |-> anchor.header,
     ins |-> [i \in DOMAIN anchor.inputs |->
                 <<anchor.inputs[i].outpoint, anchor.inputs[i].sequence>>],
     outs |-> [i \in DOMAIN anchor.outputs |->
                  <<anchor.outputs[i].value, anchor.outputs[i].script>>]]

-----------------------------------------------------------------------------
(* The packets of a plan *)

ActiveInputs(r, q) ==
    {[role |-> "active", packet |-> <<q.ref, q.issuance>>,
      coin |-> r.inputs[i].coin, proof |-> r.inputs[i].coin] : i \in q.inputs}

VirtualInputs(r, p) ==
    (UNION {ActiveInputs(r, q) : q \in p.packets})
    \cup {[role |-> "passive", packet |-> <<q.ref, q.id>>, coin |-> q.input,
           proof |-> q.tip] : q \in ToSet(p.passive)}

ActiveOutput(r, q, out) ==
    [role |-> "active", packet |-> <<q.ref, q.issuance>>,
     issuance |-> q.issuance, group |-> r.inputs[Min(q.inputs)].coin.group,
     amount |-> out.amount, key |-> out.key, index |-> out.index]

PassiveOutput(q) ==
    [role |-> "passive", packet |-> <<q.ref, q.id>>,
     issuance |-> q.output.issuance, group |-> q.input.group,
     amount |-> q.output.amount, key |-> <<"static", q.output.key>>,
     index |-> q.output.index]

VirtualOutputs(r, p) ==
    (UNION {{ActiveOutput(r, q, out) : out \in q.outs} : q \in p.packets})
        \cup {PassiveOutput(q) : q \in ToSet(p.passive)}

\* The plan's summary of each input, with the proof it was verified by.
PlannedInputs(r, p) ==
    {[role |-> "active", ref |-> i.ref, coin |-> i.coin, source |-> i.coin] :
        i \in ToSet(r.inputs)}
    \cup {[role |-> "passive", ref |-> q.ref, coin |-> q.input, source |-> q.tip] :
             q \in ToSet(p.passive)}

\* The plan's summary of each virtual output: the logical output it is for.
Labelled(r, p) ==
    (UNION {{[out |-> ActiveOutput(r, q, out), id |-> r.outputs[out.for].id,
              ref |-> r.outputs[out.for].ref, script |-> r.outputs[out.for].script,
              recipient |-> r.outputs[out.for].id] : out \in q.outs} :
               q \in p.packets})
    \cup {[out |-> PassiveOutput(q), id |-> q.id, ref |-> q.ref,
           script |-> "passive", recipient |-> ""] : q \in ToSet(p.passive)}

\* deriveCustomAnchorOutputRoots: all that an anchor output commits to.
OutputRoots(outs, index) == {out \in outs : out.index = index}

\* Before anything is signed or committed.
PreviewOutputCommitments(r, p) ==
    LET outs == VirtualOutputs(r, p)
    IN  [index \in {out.index : out \in outs} |-> OutputRoots(outs, index)]

-----------------------------------------------------------------------------
(* Signing by the backend: verifyBackendSignedVirtualPacket *)

\* validateCustomAssetPacketWitnesses: the asset script engine accepts them.
WitnessesHold(answer) == answer.witnessed

\* Only witnesses and key derivations may be new.
SignedKept(packet, answer) == WitnessesHold(answer) /\ answer.packet = packet

\* The packets Commit submits: the backend's own as it returned them.
Submitted(p, signed) ==
    [p EXCEPT !.packets =
        {IF q.backend THEN signed[q].packet ELSE q : q \in @}]

-----------------------------------------------------------------------------
(* verifyCommittedVirtualPackets, verifyCommittedProofSuffixes *)

\* tapsend.CreateProofSuffix.
Suffix(anchor, out) == [tx |-> TxID(anchor), out |-> out]

\* Faulty variant: a suffix need only be there.
SuffixesPresent(r, p, anchor, virtual) ==
    /\ virtual.inputs = VirtualInputs(r, p)
    /\ {e.out : e \in virtual.outputs} = VirtualOutputs(r, p)

PacketsKept(r, p, anchor, virtual) ==
    /\ virtual.inputs = VirtualInputs(r, p)
    /\ virtual.outputs = {[out |-> out, suffix |-> Suffix(anchor, out)] :
                             out \in VirtualOutputs(r, p)}

-----------------------------------------------------------------------------
(* The package Commit derives from an accepted answer *)

\* customAnchorMappingKey.
InputKey(in) == <<in.role, in.packet, in.coin>>
OutputKey(out) == <<out.role, out.packet, out.index, out.key>>

\* committedInputSummaries: the planned input of each committed one.
InputSummaries(r, p, virtual) ==
    LET planned(in) == CHOOSE s \in PlannedInputs(r, p) :
                          s.role = in.role /\ s.coin = in.coin
    IN  SetToSeq({[at |-> InputKey(in), ref |-> planned(in).ref,
                   coin |-> planned(in).coin, source |-> planned(in).source] :
                     in \in virtual.inputs})

\* committedOutputSummaries.
OutputSummaries(r, p, anchor, virtual) ==
    SetToSeq({[at |-> OutputKey(l.out), id |-> l.id, ref |-> l.ref,
               out |-> l.out, script |-> l.script, recipient |-> l.recipient,
               tx |-> TxID(anchor), value |-> anchor.outputs[l.out.index].value,
               roots |-> OutputRoots({e.out : e \in virtual.outputs},
                                     l.out.index)] :
                 l \in Labelled(r, p)})

ProofUpdates(r, p, anchor, virtual) ==
    SetToSeq({[at |-> OutputKey(l.out), id |-> l.id, ref |-> l.ref,
               index |-> l.out.index, key |-> l.out.key,
               recipient |-> l.recipient, tx |-> TxID(anchor),
               proof |-> (CHOOSE e \in virtual.outputs : e.out = l.out).suffix] :
                 l \in Labelled(r, p)})

\* customAnchorFundingSummary, customAnchorFundingLockMetadata.
PackageOf(r, p, answer) ==
    LET managed == AddedInputs(p.template, answer.anchor)
    IN  [anchor |-> answer.anchor, virtual |-> answer.virtual,
         change |-> answer.change, locked |-> answer.locked,
         lockID |-> IF p.mode = "walletFunded" THEN r.funding.lockID ELSE "",
         mode |-> p.mode, fee |-> Fee(answer.anchor),
         maxFee |-> IF p.mode = "walletFunded" THEN p.maxFee ELSE 0,
         p2a |-> IF p.mode = "externalP2A" THEN r.funding.p2a ELSE 0,
         managed |-> managed, plans |-> DOMAIN answer.anchor.inputs \ managed,
         inputs |-> InputSummaries(r, p, answer.virtual),
         outputs |-> OutputSummaries(r, p, answer.anchor, answer.virtual),
         updates |-> ProofUpdates(r, p, answer.anchor, answer.virtual)]

-----------------------------------------------------------------------------
(* validateStructure *)

\* rejectBackendFundingMetadata.
NoBackendFunding(k) ==
    k.change = NoChange /\ k.lockID = "" /\ k.locked = <<>> /\ k.managed = {}

FundingMetadataValid(k) ==
    /\ k.change \in {NoChange} \cup DOMAIN k.anchor.outputs
    /\ k.lockID = "" => k.locked = <<>> /\ k.managed = {}
    /\ BitcoinTransactionValid(k.anchor)
    /\ k.fee = Fee(k.anchor)
    /\ \/ /\ k.mode = "walletFunded"
          /\ k.lockID # "" /\ k.p2a = 0 /\ k.maxFee # 0 /\ k.fee <= k.maxFee
       \/ /\ k.mode = "callerFundedExact"
          /\ k.p2a = 0 /\ k.maxFee = 0 /\ NoBackendFunding(k)
       \/ /\ k.mode = "externalP2A"
          /\ k.maxFee = 0 /\ k.fee = 0 /\ P2AParentValid(k.anchor, k.p2a)
          /\ NoBackendFunding(k)

\* validateCustomAnchorProofSource: the file or path ends in the coin named.
ProofSourceValid(s) == s.source = s.coin /\ Names(s.ref, s.source)

\* validatePackageInputMapping.
InputMapped(k, in, s) ==
    /\ ProofSourceValid(s)
    /\ s.coin = in.coin
    /\ Names(s.ref, in.coin)
    /\ in.coin.outpoint \in Outpoints(k.anchor)

\* Faulty variant: tapd's fields are not looked at.
AnyHints(anchor, index, roots) == TRUE

\* validateCustomAnchorOutputRootHints: tapd's fields at the anchor output.
RootHintsValid(anchor, index, roots) == anchor.outputs[index].roots = roots

\* validatePackageOutputMapping, for the output itself and for its update.
OutputMapped(k, e, s) ==
    /\ s.out = e.out
    /\ Names(s.ref, e.out)
    /\ s.script = "burn" <=> e.out.key[1] = "burn"
    /\ e.out.index \in DOMAIN k.anchor.outputs
    /\ s.tx = TxID(k.anchor)
    /\ s.value = k.anchor.outputs[e.out.index].value
    /\ s.roots = OutputRoots({x.out : x \in k.virtual.outputs}, e.out.index)
    /\ RootHintsValid(k.anchor, e.out.index, s.roots)

UpdateMapped(k, e, s, u) ==
    /\ u.id = s.id /\ u.ref = s.ref /\ u.index = e.out.index
    /\ u.key = e.out.key /\ u.tx = s.tx /\ u.recipient = s.recipient
    /\ u.proof = Suffix(k.anchor, e.out)
    /\ e.suffix = Suffix(k.anchor, e.out)

\* The entries of a summary list at one place of the packets.
At(list, key) == {i \in DOMAIN list : list[i].at = key}

\* Faulty variant: summaries are matched to packets, never counted.
SomeMapping(list, keys) == \A key \in keys : At(list, key) # {}

ExactMapping(list, keys) ==
    /\ IsInjective([i \in DOMAIN list |-> list[i].at])
    /\ {list[i].at : i \in DOMAIN list} = keys

\* validateSemanticMappings.
SemanticMappingsValid(k) ==
    LET of(list, key) == list[CHOOSE i \in At(list, key) : TRUE]
        outKeys == {OutputKey(e.out) : e \in k.virtual.outputs}
    IN  /\ ExactMapping(k.inputs, {InputKey(in) : in \in k.virtual.inputs})
        /\ ExactMapping(k.outputs, outKeys)
        /\ ExactMapping(k.updates, outKeys)
        /\ \A in \in k.virtual.inputs :
              InputMapped(k, in, of(k.inputs, InputKey(in)))
        /\ \A e \in k.virtual.outputs :
              LET s == of(k.outputs, OutputKey(e.out))
              IN  /\ OutputMapped(k, e, s)
                  /\ UpdateMapped(k, e, s, of(k.updates, OutputKey(e.out)))

\* validateCustomAnchorSigningPlans, and the lock inventory once more.
InputsClassified(k) ==
    /\ k.plans \cup k.managed = DOMAIN k.anchor.inputs
    /\ k.plans \cap k.managed = {}

\* Faulty variant: the inventory is only checked for duplicates.
LocksDistinct(k) == k.lockID # "" => IsInjective(k.locked)

LocksMatchManaged(k) ==
    k.lockID # "" =>
        /\ IsInjective(k.locked)
        /\ ToSet(k.locked) = {k.anchor.inputs[i].outpoint : i \in k.managed}

StructureValid(k) ==
    /\ FundingMetadataValid(k)
    /\ SemanticMappingsValid(k)
    /\ InputsClassified(k)
    /\ LocksMatchManaged(k)
=============================================================================
