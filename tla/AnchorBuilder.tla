--------------------------- MODULE AnchorBuilder ---------------------------
(***************************************************************************)
(* CustomAnchorTxBuilder.Build (custom_anchor_builder.go): from a caller's *)
(* request to the plan it inspects before anything is committed.           *)
(*                                                                         *)
(* Build validates the request, copies it, and works on the copy.  It asks *)
(* the backend to verify every proof, to derive script keys and to look up *)
(* signing keys, so it takes a while, in which the caller may reuse its    *)
(* request.  It distributes the input coins over one virtual packet per    *)
(* issuance and accounting key, maps the packets' outputs back to the      *)
(* logical ones, adds the caller's passive packets, and merges what all of *)
(* them need into the caller's transaction template.                       *)
(*                                                                         *)
(*   packet  [ref, issuance, inputs, backend, outs]: inputs are positions  *)
(*           in the request; backend says who signs                        *)
(*   out     [from, for, index, amount, key]: the output it was allocated  *)
(*           for, and the one the plan says it is for                      *)
(***************************************************************************)
EXTENDS AnchorRequest, CommittedAnchor

CONSTANTS Requests,    \* what callers ask for
          Edits(_),    \* what a caller may make of its request meanwhile
          Genuine,     \* the coins that exist
          WalletKeys,  \* script keys the wallet can sign for
          None

\* What a request is made of.
IsRequest(r) ==
    /\ IsSequence(r.inputs) /\ IsSequence(r.outputs)
    /\ IsSequence(r.passive.packets)
    /\ IsAnchor(r.template)
    /\ \A o \in ToSet(r.outputs) : o.amount \in Nat
    /\ r.funding.maxFee \in Nat

\* An issuance is made in one group, or in none.
ASSUME BuilderAssumption ==
    /\ MaxAmount \in Nat
    /\ \A r \in Requests : IsRequest(r)
    /\ \A c \in Genuine : c.amount \in Nat
    /\ \A b, c \in Genuine : b.issuance = c.issuance => b.group = c.group

VARIABLES live,     \* the caller's request
          request,  \* the copy that was validated, or None
          stage,    \* how far Build is
          packets,  \* active packets
          plan      \* the plan returned, or None

builder == <<live, request, stage, packets, plan>>

\* Faulty variant: the copy shares its slices with the caller's request.
Aliased == live

\* Clone.
Working == request

-----------------------------------------------------------------------------
(* resolveInputs, resolveOutputs *)

\* The backend's VerifyProof, or AssetProofPath.Verify.
ProofVerified(coin) == coin \in Genuine

InputsResolve(r) ==
    /\ \A i \in DOMAIN r.inputs :
          LET coin == r.inputs[i].coin
          IN  /\ ~coin.locked
              /\ Names(r.inputs[i].ref, coin)
              /\ r.inputs[i].amount = coin.amount
              /\ ProofVerified(coin)
    /\ IsInjective([i \in DOMAIN r.inputs |-> r.inputs[i].coin])

Issuances(r, ref) == {r.inputs[i].coin.issuance : i \in Under(r.inputs, ref)}

MultiIssuance(r, ref) == Cardinality(Issuances(r, ref)) > 1

\* An external key that is tweaked already cannot be made unique per issuance.
OutputsResolve(r) ==
    /\ IsInjective([o \in DOMAIN r.outputs |->
                       <<r.outputs[o].ref, r.outputs[o].index>>])
    /\ \A o \in ToSet(r.outputs) :
          o.script = "pretweaked" => ~MultiIssuance(r, o.ref)

-----------------------------------------------------------------------------
(* buildActivePackets *)

Holding(r, ref, issuance) ==
    {i \in Under(r.inputs, ref) : r.inputs[i].coin.issuance = issuance}

Groups(r) ==
    UNION {{<<ref, issuance>> : issuance \in Issuances(r, ref)} :
              ref \in {i.ref : i \in ToSet(r.inputs)}}

Slots(r) ==
    UNION {{<<g, o>> : o \in Under(r.outputs, g[1])} : g \in Groups(r)}

\* tapsend.DistributeCoins, trusted here to conserve every issuance only.
Distributions(r) ==
    LET Held(g) == SumFunction([i \in Holding(r, g[1], g[2]) |->
                                   r.inputs[i].coin.amount])
        Given(d, g) == SumFunctionOnSet(d, {s \in Slots(r) : s[1] = g})
    IN  {d \in [Slots(r) -> 0..MaxAmount] :
            \A g \in Groups(r) : Given(d, g) = Held(g)}

\* Anyone can spend an OP_TRUE key; a leaf makes it unique to its issuance.
OpTrueScriptKey(output, issuance) == <<"opTrue", output.key, issuance>>

\* DeriveUniqueScriptKey, for keys that several issuances share.
UniqueScriptKey(output, issuance) == <<"unique", output.key, issuance>>

\* tapAssetScriptKey.
StaticScriptKey(output) == <<"static", output.key>>

\* The script key of output o in the packet of an issuance; a burn key commits
\* to the packet's first input.
ScriptKey(r, o, group) ==
    LET output == r.outputs[o]
        first == Min(Holding(r, group[1], group[2]))
    IN  CASE output.script = "burn" -> <<"burn", r.inputs[first].coin>>
          [] output.script = "opTrue" -> OpTrueScriptKey(output, group[2])
          [] output.script \notin {"burn", "opTrue"} ->
                IF MultiIssuance(r, output.ref)
                THEN UniqueScriptKey(output, group[2])
                ELSE StaticScriptKey(output)

\* mapCustomAnchorOutputs: the first logical output that fits.
Candidates(r, group, o) ==
    LET coin == r.inputs[Min(Holding(r, group[1], group[2]))].coin
    IN  {c \in DOMAIN r.outputs :
            /\ r.outputs[c].index = r.outputs[o].index
            /\ Names(r.outputs[c].ref, coin)
            /\ ScriptKey(r, c, group) = ScriptKey(r, o, group)}

Outs(r, group, d) ==
    {[from |-> o, for |-> Min(Candidates(r, group, o)),
      index |-> r.outputs[o].index, amount |-> d[<<group, o>>],
      key |-> ScriptKey(r, o, group)] :
        o \in {o \in Under(r.outputs, group[1]) : d[<<group, o>>] > 0}}

\* Faulty variant: the first input decides for the packet.
FirstInputMode(r, inputs) ==
    IF r.inputs[Min(inputs)].witness = "backend" THEN "backend" ELSE "caller"

\* customAssetPacketWitnessMode.
WitnessMode(r, inputs) ==
    IF \A i \in inputs : r.inputs[i].witness = "backend" THEN "backend"
    ELSE IF \A i \in inputs : r.inputs[i].witness # "backend" THEN "caller"
    ELSE "mixed"

\* applyCallerAssetWitnesses: the asset script engine accepts all of them.
CallerWitnessesApply(r, inputs) ==
    \A i \in inputs : r.inputs[i].witness = "valid"

\* resolveInputSigningKeys: the wallet derives the key each proof commits to.
SigningKeysResolve(r, inputs) ==
    \A i \in inputs : r.inputs[i].coin.key \in WalletKeys

WitnessesResolve(r, inputs) ==
    \/ WitnessMode(r, inputs) = "caller" /\ CallerWitnessesApply(r, inputs)
    \/ WitnessMode(r, inputs) = "backend" /\ SigningKeysResolve(r, inputs)

Packet(r, group, d) ==
    LET inputs == Holding(r, group[1], group[2])
    IN  [ref |-> group[1], issuance |-> group[2], inputs |-> inputs,
         backend |-> WitnessMode(r, inputs) = "backend",
         outs |-> Outs(r, group, d)]

AllOuts(ps) == UNION {p.outs : p \in ps}

\* What the packets pay to some of their outputs.
OutTotal(ps, outs) ==
    SumFunction([p \in ps |->
        SumFunction([out \in p.outs \cap outs |-> out.amount])])

\* Faulty variant: an output that maps to some logical output is good enough.
AllMapped(r, ps) ==
    \A p \in ps : \A out \in p.outs : out.for \in DOMAIN r.outputs

AmountsMapped(r, ps) ==
    \A o \in DOMAIN r.outputs :
        OutTotal(ps, {out \in AllOuts(ps) : out.for = o}) = r.outputs[o].amount

BuildsActivePackets(r, ps) ==
    /\ \A i \in ToSet(r.inputs) : Under(r.outputs, i.ref) # {}
    /\ \A p \in ps : WitnessesResolve(r, p.inputs)
    /\ AmountsMapped(r, ps)

-----------------------------------------------------------------------------
(* resolvePassivePackets *)

ActiveOutpoints(r, ps) ==
    {r.inputs[i].coin.outpoint : i \in UNION {p.inputs : p \in ps}}

Reanchors(r, ps, packet) ==
    LET out == packet.output
        in == packet.input
    IN  /\ packet.wellFormed
        /\ in = packet.tip /\ ~in.locked
        /\ out.issuance = in.issuance
        /\ in.amount = packet.amount /\ out.amount = packet.amount
        /\ out.key = in.key
        /\ packet.ref = Identity(in)
        /\ in.outpoint \in ActiveOutpoints(r, ps)
        /\ \E o \in {a.from : a \in UNION {p.outs : p \in ps}} :
              r.outputs[o].index = out.index /\ r.outputs[o].anchor = out.anchor
        /\ ProofVerified(packet.tip)

PassiveResolves(r, ps) ==
    \/ r.passive.policy = "reject"
    \/ /\ r.passive.policy = "callerReanchor"
       /\ \A packet \in ToSet(r.passive.packets) :
             /\ Reanchors(r, ps, packet)
             /\ packet.output.index = r.passive.packets[1].output.index
             /\ packet.output.anchor = r.passive.packets[1].output.anchor

\* tapsend.ValidateCommitmentKeysUnique.
CommitmentKeysUnique(r, ps) ==
    LET active == {<<p, out>> : p \in ps, out \in UNION {q.outs : q \in ps}}
        own == {a \in active : a[2] \in a[1].outs}
        leaf(a) == <<a[2].index, a[1].issuance, a[2].key>>
        passive == [i \in DOMAIN r.passive.packets |->
                       LET out == r.passive.packets[i].output
                       IN  <<out.index, out.issuance, <<"static", out.key>>>>]
    IN  /\ \A a, b \in own : leaf(a) = leaf(b) => a = b
        /\ IsInjective(passive)
        /\ \A a \in own : leaf(a) \notin ToSet(passive)

-----------------------------------------------------------------------------
(* prepareCustomAnchorPSBT *)

\* What the packets need to know of the anchor output they spend.
Required(outpoint) == <<"spends", outpoint>>

\* validateExternalP2AAnchor.
P2AParentValid(anchor, index) ==
    /\ anchor.header = "v3"
    /\ index \in DOMAIN anchor.outputs
    /\ anchor.outputs[index].value = 0
    /\ anchor.outputs[index].script = P2AScript
    /\ \A i \in DOMAIN anchor.outputs \ {index} : anchor.outputs[i].value > 0

\* validateCustomAnchorTemplate.
TemplateValid(r) ==
    /\ \A i \in DOMAIN r.template.inputs : r.template.inputs[i].fixed # "signed"
    /\ \A o \in ToSet(r.outputs) :
          /\ o.index \in DOMAIN r.template.outputs
          /\ r.template.outputs[o.index].value = o.value
    /\ r.funding.mode = "externalP2A" => P2AParentValid(r.template, r.funding.p2a)

SpentOutpoints(r, ps) ==
    ActiveOutpoints(r, ps)
        \cup {packet.input.outpoint : packet \in ToSet(r.passive.packets)}

\* mergeRequiredInput: what the caller left open is filled in, what it set must
\* agree.
Mergeable(r, ps) ==
    /\ SpentOutpoints(r, ps) \subseteq Outpoints(r.template)
    /\ \A i \in DOMAIN r.template.inputs :
          LET input == r.template.inputs[i]
          IN  input.outpoint \in SpentOutpoints(r, ps) =>
                  input.fixed \in {"blank", Required(input.outpoint)}

Merged(r, ps) ==
    LET Filled(input) == IF input.outpoint \in SpentOutpoints(r, ps)
                         THEN [input EXCEPT !.fixed = Required(input.outpoint)]
                         ELSE input
    IN  [r.template EXCEPT !.inputs = [i \in DOMAIN @ |-> Filled(@[i])]]

\* A wallet-funded template has no fee yet.
AnchorTransactionValid(r, anchor) ==
    /\ InputsTxIDStable(anchor)
    /\ IF r.funding.mode = "walletFunded"
       THEN TransactionSane(anchor) ELSE BitcoinTransactionValid(anchor)

\* Faulty variant: only what a packet spends must exist.
AnchorInputsExist(r) ==
    {i.coin : i \in ToSet(r.inputs)} \subseteq Genuine

\* tapsend.ValidateAnchorInputs: the packets' inputs reconstruct the commitment
\* of every anchor output they spend.
AnchorInputsComplete(r) ==
    LET coins == [i \in DOMAIN r.inputs |-> r.inputs[i].coin]
                    \o [i \in DOMAIN r.passive.packets |->
                           r.passive.packets[i].input]
        spent == {c.outpoint : c \in ToSet(coins)}
    IN  /\ IsInjective(coins)
        /\ ToSet(coins) = {c \in Genuine : c.outpoint \in spent}

PreparesAnchor(r, ps) ==
    /\ CommitmentKeysUnique(r, ps)
    /\ TemplateValid(r)
    /\ Mergeable(r, ps)
    /\ AnchorTransactionValid(r, Merged(r, ps))
    /\ AnchorInputsComplete(r)

Plan(r, ps) ==
    [packets |-> ps, passive |-> r.passive.packets, template |-> Merged(r, ps),
     assetOutputs |-> {o.index : o \in ToSet(r.outputs)},
     mode |-> r.funding.mode, change |-> r.funding.change,
     existing |-> r.funding.existing, maxFee |-> r.funding.maxFee]

-----------------------------------------------------------------------------
(* Build, step by step *)

Init ==
    /\ live \in Requests
    /\ request = None /\ stage = "idle" /\ packets = {} /\ plan = None

Step(from, to, passes) ==
    /\ stage = from
    /\ stage' = IF passes THEN to ELSE "failed"

Build ==
    /\ Step("idle", "inputs", Valid(live))
    /\ request' = live
    /\ UNCHANGED <<live, packets, plan>>

ResolveInputs ==
    /\ Step("inputs", "outputs", InputsResolve(Working))
    /\ UNCHANGED <<live, request, packets, plan>>

ResolveOutputs ==
    /\ Step("outputs", "packets", OutputsResolve(Working))
    /\ UNCHANGED <<live, request, packets, plan>>

BuildActivePackets ==
    /\ stage = "packets"
    /\ \E d \in Distributions(Working) :
          packets' = {Packet(Working, group, d) : group \in Groups(Working)}
    /\ Step("packets", "passive", BuildsActivePackets(Working, packets'))
    /\ UNCHANGED <<live, request, plan>>

ResolvePassivePackets ==
    /\ Step("passive", "anchor", PassiveResolves(Working, packets))
    /\ UNCHANGED <<live, request, packets, plan>>

PrepareAnchor ==
    /\ Step("anchor", "built", PreparesAnchor(Working, packets))
    /\ plan' = IF stage' = "built" THEN Plan(Working, packets) ELSE plan
    /\ UNCHANGED <<live, request, packets>>

\* A backend call fails, or the caller's context is over.
BackendFails ==
    /\ stage \in {"inputs", "outputs", "packets", "passive"}
    /\ stage' = "failed"
    /\ UNCHANGED <<live, request, packets, plan>>

\* The caller reuses its request.
Edit ==
    /\ stage \notin {"idle", "built", "failed"}
    /\ live' \in Edits(live)
    /\ UNCHANGED <<request, stage, packets, plan>>

BuilderNext ==
    \/ Build \/ ResolveInputs \/ ResolveOutputs \/ BuildActivePackets
    \/ ResolvePassivePackets \/ PrepareAnchor \/ BackendFails \/ Edit

-----------------------------------------------------------------------------
(* Properties *)

\* Each logical output of the request that was validated gets exactly its
\* amount, at its anchor output and under its script, over all issuances, and
\* the plan labels every virtual output with the logical one it was made for:
\* whatever the caller does to its request while Build waits for the backend,
\* and however the library distributes the coins
\* (custom_anchor_builder.go:427, :1957-2084).
OutputsAsRequested ==
    plan # None =>
        \A o \in DOMAIN request.outputs :
            LET output == request.outputs[o]
                made == {out \in AllOuts(plan.packets) : out.from = o}
            IN  /\ OutTotal(plan.packets, made) = output.amount
                /\ \A out \in made :
                      /\ out.for = o
                      /\ out.index = output.index
                      /\ out.key[1] = "burn" <=> output.script = "burn"

\* What a plan destroys stays within what the caller allowed and confirmed for
\* the asset, in exact arithmetic: no sum that wraps around hides a burn
\* (custom_anchor_types.go:1217-1298).
BurnsAllowed ==
    plan # None =>
        \A ref \in {i.ref : i \in ToSet(request.inputs)} :
            LET ps == {p \in plan.packets : p.ref = ref}
            IN  OutTotal(ps, {out \in AllOuts(ps) : out.key[1] = "burn"})
                    <= Allowance(request.loss, ref)

\* Of every issuance, the coins at the anchor outputs a plan spends and the
\* outputs it creates are worth the same: no co-anchored asset is left behind,
\* and none is moved actively and passively at once
\* (custom_anchor_builder.go:437-457, :487).
ValueConserved ==
    plan # None =>
        LET spent == SpentOutpoints(request, plan.packets)
        IN  \A issuance \in {c.issuance : c \in Genuine} :
               LET consumed == {c \in Genuine : /\ c.outpoint \in spent
                                               /\ c.issuance = issuance}
                   active == {p \in plan.packets : p.issuance = issuance}
                   passive == {i \in DOMAIN plan.passive :
                                 plan.passive[i].output.issuance = issuance}
               IN  SumFunction([c \in consumed |-> c.amount])
                     = OutTotal(active, AllOuts(active))
                         + SumFunction([i \in passive |->
                                           plan.passive[i].output.amount])

\* Every input is signed the way its owner asked: a packet goes to the backend
\* only if the wallet can sign all of it and the caller asked for that for each
\* input, and no backend signature replaces a caller's witness
\* (custom_anchor_builder.go:1301-1325, lifecycle's backendSigning).
SignersAsRequested ==
    plan # None =>
        \A p \in plan.packets : \A i \in p.inputs :
            LET input == request.inputs[i]
            IN  IF p.backend
                THEN input.witness = "backend" /\ input.coin.key \in WalletKeys
                ELSE input.witness = "valid"
=============================================================================
