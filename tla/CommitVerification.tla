------------------------- MODULE CommitVerification -------------------------
(***************************************************************************)
(* Build, Commit and Seal.  Commit asks the backend to sign the packets    *)
(* that are its own, and faces an arbitrary answer to that and to the plan *)
(* Build returned: whichever of them it accepts becomes a package.  The    *)
(* package is a plain structure its host may edit and seal again.  The     *)
(* properties restate, independently of the individual checks, what the    *)
(* accepted answer can cost the wallet and the caller, and what a sealed   *)
(* package delivers.                                                       *)
(***************************************************************************)
EXTENDS PackageContents

CONSTANTS Signatures(_),  \* what it may return when asked to sign packets
          Answers(_, _),  \* answers a backend may give for a request's plan
          HostEdits(_)    \* what a host may make of a package

VARIABLES sealed,  \* the accepted answer, or None
          package  \* the sealed package, or None

vars == <<builder, sealed, package>>

CommitInit == Init /\ sealed = None /\ package = None

Commit ==
    /\ plan # None /\ sealed = None
    /\ \E signed \in Signatures({q \in plan.packets : q.backend}) :
          /\ \A q \in {q \in plan.packets : q.backend} : SignedKept(q, signed[q])
          /\ \E answer \in Answers(request, Submitted(plan, signed)) :
                /\ IsAnchor(answer.anchor)
                /\ Accepts(plan, answer)
                /\ PacketsKept(request, Submitted(plan, signed),
                               answer.anchor, answer.virtual)
                /\ StructureValid(PackageOf(request, plan, answer))
                /\ sealed' = answer
                /\ package' = PackageOf(request, plan, answer)
    /\ UNCHANGED builder

\* The parts of a package a host may exchange one at a time.  The anchor and the
\* committed packets are not its to write.
Parts == {{"change"}, {"locked"}, {"lockID"}, {"mode"}, {"fee"}, {"maxFee"}, {"p2a"},
          {"managed", "plans"}, {"inputs"}, {"outputs"}, {"updates"}}

OnePartEdited(before, after) ==
    \E part \in Parts : \A field \in DOMAIN before \ part : after[field] = before[field]

\* The host edits the package Commit returned and seals it again; one edit.
Seal ==
    /\ package # None
    /\ package = PackageOf(request, plan, sealed)
    /\ \E edited \in HostEdits(package) :
          /\ OnePartEdited(package, edited)
          /\ StructureValid(edited)
          /\ package' = edited
    /\ UNCHANGED <<builder, sealed>>

Next == (BuilderNext /\ UNCHANGED <<sealed, package>>) \/ Commit \/ Seal

Spec == CommitInit /\ [][Next]_vars
-----------------------------------------------------------------------------
(* Properties *)

\* Wallet coins put in, minus what comes back as change.
WalletSpend ==
    LET added == AddedInputs(plan.template, sealed.anchor)
        paid == SumFunction([i \in added |-> sealed.anchor.inputs[i].value])
        change == IF sealed.change = NoChange
                  THEN 0
                  ELSE sealed.anchor.outputs[sealed.change].value
        templated == IF sealed.change \in DOMAIN plan.template.outputs
                     THEN plan.template.outputs[sealed.change].value
                     ELSE 0
    IN  paid - (change - templated)

\* In wallet-funded mode the backend wallet pays at most MaxFeeSat, together
\* with whatever fee the template's own inputs already leave: funding cannot be
\* drained through a bigger output, a fake change index or an extra recipient
\* while the transaction fee itself stays within the maximum.
WalletCostBounded ==
    sealed # None /\ plan.mode = "walletFunded" =>
        WalletSpend <= plan.maxFee - Fee(plan.template)

\* With skip-funding the backend can neither move value between the caller's
\* outputs nor change what the caller pays for mining.
CallerValueKept ==
    sealed # None /\ plan.mode # "walletFunded" =>
        /\ Fee(sealed.anchor) = Fee(plan.template)
        /\ \A i \in DOMAIN plan.template.outputs :
              sealed.anchor.outputs[i].value = plan.template.outputs[i].value

\* Publishing and abandoning both act on the sealed lock inventory: every wallet
\* coin the anchor spends is in it, and no coin of the caller ever is, whoever
\* sealed the package (custom_anchor_package.go:780).
InventoryIsTheWallets ==
    package # None =>
        LET callers == Outpoints(plan.template)
        IN  ToSet(package.locked) = Outpoints(package.anchor) \ callers

\* What a plan previews for its outputs is what gets committed: a host that
\* composes its transaction around the previewed roots, before anything is
\* signed, finds them in tapd's fields of the sealed anchor and in its summaries,
\* whatever the backend signed and answered (custom_anchor_builder.go:309-318).
PreviewIsFinal ==
    package # None =>
        LET preview == PreviewOutputCommitments(request, plan)
        IN  /\ \A index \in DOMAIN preview :
                  package.anchor.outputs[index].roots = preview[index]
            /\ \A s \in ToSet(package.outputs) :
                  s.roots = preview[s.out.index]

\* A host that sends each proof update to the recipient it names delivers the
\* request: every recipient is handed proofs, valid for the transaction that
\* gets signed, of exactly what its logical output asked for, and per issuance
\* all proofs together are worth the inputs whose proofs the package keeps.
\* Whatever suffixes the backend returned and whichever entry the host damaged
\* before sealing (custom_anchor_package.go:817-1137).
EveryOutputIsProven ==
    package # None =>
        LET updates == ToSet(package.updates)
            Worth(us) == SumFunction([p \in {u.proof : u \in us} |-> p.out.amount])
        IN  /\ \A u \in updates : u.proof.tx = TxID(package.anchor)
            /\ \A o \in ToSet(request.outputs) :
                  Worth({u \in updates : u.recipient = o.id}) = o.amount
            /\ \A issuance \in {c.issuance : c \in Genuine} :
                  LET kept == {i \in DOMAIN package.inputs :
                                 package.inputs[i].source.issuance = issuance}
                  IN  Worth({u \in updates : u.proof.out.issuance = issuance})
                        = SumFunction([i \in kept |->
                                          package.inputs[i].source.amount])
=============================================================================
