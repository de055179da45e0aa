---------------------- MODULE CommitVerification_proofs ----------------------
(***************************************************************************)
(* What Build and Commit promise, for all requests, coins, wallets, answers *)
(* and edits of a package.                                                 *)
(*                                                                         *)
(* What carries the argument through Build is that every check was made of *)
(* the copied request, which no later step and no edit of the caller       *)
(* changes: PlanInv says which checks each stage has passed, and Planned   *)
(* collects what that makes of a plan.  The rest is about the sums in it.  *)
(* Commit and Seal never touch the plan.                                   *)
(***************************************************************************)
EXTENDS CommitVerification, Sums

\* The packets are those of one distribution of the coins.
ArePackets(r, ps) ==
    \E d \in Distributions(r) : ps = {Packet(r, group, d) : group \in Groups(r)}

Checked == {"inputs", "outputs", "packets", "passive", "anchor", "built"}
HavePackets == {"passive", "anchor", "built"}

PlanInv ==
    /\ stage = "idle" => live \in Requests
    /\ stage \in Checked => request \in Requests /\ Valid(request)
    /\ stage \in Checked \ {"inputs"} => InputsResolve(request)
    /\ stage \in Checked \ {"inputs", "outputs"} => OutputsResolve(request)
    /\ stage \in HavePackets => /\ ArePackets(request, packets)
                                /\ BuildsActivePackets(request, packets)
    /\ stage \in {"anchor", "built"} => PassiveResolves(request, packets)
    /\ stage = "built" => PreparesAnchor(request, packets)
    /\ plan # None => stage = "built" /\ plan = Plan(request, packets)

\* What is known of a plan's request and packets.
Planned(r, ps) ==
    /\ r \in Requests /\ Valid(r) /\ InputsResolve(r) /\ OutputsResolve(r)
    /\ ArePackets(r, ps) /\ BuildsActivePackets(r, ps)
    /\ PassiveResolves(r, ps) /\ PreparesAnchor(r, ps)

LEMMA InitPlanInv == CommitInit => PlanInv
  BY DEF CommitInit, Init, PlanInv, Checked, HavePackets

LEMMA BuilderKeepsPlanInv ==
  ASSUME PlanInv, BuilderNext
  PROVE  PlanInv'
<1> USE DEF PlanInv, Checked, HavePackets, Step, Working
<1>1. CASE Build
  BY <1>1 DEF Build
<1>2. CASE ResolveInputs
  BY <1>2 DEF ResolveInputs
<1>3. CASE ResolveOutputs
  BY <1>3 DEF ResolveOutputs
<1>4. CASE BuildActivePackets
  <2>1. stage' # "failed" => /\ ArePackets(request, packets')
                             /\ BuildsActivePackets(request, packets')
    BY <1>4 DEF BuildActivePackets, ArePackets
  <2> QED
    BY <1>4, <2>1 DEF BuildActivePackets, ArePackets
<1>5. CASE ResolvePassivePackets
  BY <1>5 DEF ResolvePassivePackets
<1>6. CASE PrepareAnchor
  BY <1>6 DEF PrepareAnchor
<1>7. CASE BackendFails
  BY <1>7 DEF BackendFails
<1>8. CASE Edit
  BY <1>8 DEF Edit
<1> QED
  BY <1>1, <1>2, <1>3, <1>4, <1>5, <1>6, <1>7, <1>8 DEF BuilderNext

LEMMA NextPlanInv == PlanInv /\ [Next]_vars => PlanInv'
<1> SUFFICES ASSUME PlanInv, [Next]_vars
             PROVE  PlanInv'
  OBVIOUS
<1>1. CASE BuilderNext
  BY <1>1, BuilderKeepsPlanInv
<1>2. CASE UNCHANGED builder
  BY <1>2 DEF builder, PlanInv
<1> QED
  BY <1>1, <1>2 DEF Next, Commit, Seal, vars

LEMMA SpecPlanInv == Spec => []PlanInv
  BY InitPlanInv, NextPlanInv, PTL DEF Spec

LEMMA PlansAreChecked ==
  ASSUME PlanInv, plan # None
  PROVE  Planned(request, packets) /\ plan = Plan(request, packets)
BY DEF PlanInv, Planned, Checked, HavePackets

-----------------------------------------------------------------------------
(* Who signs *)

\* Both ways a packet's witnesses can resolve, with the signer it is sent to.
Resolved(r, p) ==
    /\ WitnessesResolve(r, p.inputs)
    /\ p.backend <=> WitnessMode(r, p.inputs) = "backend"

LEMMA PacketsResolve ==
  ASSUME NEW r, NEW ps, Planned(r, ps)
  PROVE  \A p \in ps : Resolved(r, p)
<1>1. \A p \in ps : WitnessesResolve(r, p.inputs)
  BY DEF Planned, BuildsActivePackets
<1>2. ASSUME NEW p \in ps
      PROVE  p.backend <=> WitnessMode(r, p.inputs) = "backend"
  <2>1. PICK group, d : p = Packet(r, group, d)
    BY <1>2 DEF Planned, ArePackets
  <2> QED
    BY <2>1 DEF Packet
<1> QED
  BY <1>1, <1>2 DEF Resolved

\* A resolved packet goes to the backend only if that was asked for each input
\* and the wallet has all keys; otherwise every input has the caller's witness.
LEMMA ResolvedIsAsRequested ==
  ASSUME NEW r, NEW p, Resolved(r, p), NEW i \in p.inputs
  PROVE  IF p.backend
         THEN r.inputs[i].witness = "backend" /\ r.inputs[i].coin.key \in WalletKeys
         ELSE r.inputs[i].witness = "valid"
<1>1. CASE WitnessMode(r, p.inputs) = "caller" /\ CallerWitnessesApply(r, p.inputs)
  BY <1>1 DEF Resolved, CallerWitnessesApply
<1>2. CASE WitnessMode(r, p.inputs) = "backend" /\ SigningKeysResolve(r, p.inputs)
  <2>1. r.inputs[i].witness = "backend"
    BY <1>2 DEF WitnessMode
  <2> QED
    BY <1>2, <2>1 DEF Resolved, SigningKeysResolve
<1> QED
  BY <1>1, <1>2 DEF Resolved, WitnessesResolve

\* No backend signature ever replaces a caller's witness, and no packet goes to
\* the backend that the wallet cannot sign (custom_anchor_builder.go:1301-1325).
THEOREM SigningIsAsRequested == Spec => []SignersAsRequested
<1>1. PlanInv => SignersAsRequested
  <2> SUFFICES ASSUME PlanInv, plan # None PROVE SignersAsRequested
    BY DEF SignersAsRequested
  <2>1. plan.packets = packets /\ \A p \in packets : Resolved(request, p)
    BY PlansAreChecked, PacketsResolve DEF Plan
  <2> QED
    BY <2>1, ResolvedIsAsRequested DEF SignersAsRequested
<1> QED
  BY <1>1, SpecPlanInv, PTL

\* A plan is made of a request that passed every check, whatever the caller made
\* of its own copy meanwhile (custom_anchor_builder.go:427).
PlanIsValidated == plan # None => Valid(request)

THEOREM PlansAreValidated == Spec => []PlanIsValidated
<1>1. PlanInv => PlanIsValidated
  BY PlansAreChecked DEF Planned, PlanIsValidated
<1> QED
  BY <1>1, SpecPlanInv, PTL
-----------------------------------------------------------------------------
(* The accepted answer *)

Accepted ==
    /\ plan # None
    /\ IsAnchor(sealed.anchor)
    /\ Accepts(plan, sealed)
    /\ PacketsKept(request, plan, sealed.anchor, sealed.virtual)

\* The package is what Commit derived, but for one part of it.
PackageSealed ==
    /\ StructureValid(package)
    /\ OnePartEdited(PackageOf(request, plan, sealed), package)

AnswerInv ==
    /\ sealed # None \/ package # None => Accepted
    /\ package # None => PackageSealed

LEMMA PlanIsFinal ==
  ASSUME PlanInv, plan # None
  PROVE  ~ BuilderNext
BY DEF PlanInv, BuilderNext, Build, ResolveInputs, ResolveOutputs,
       BuildActivePackets, ResolvePassivePackets, PrepareAnchor, BackendFails,
       Edit, Step

\* A backend that signs only what it was asked to leaves the plan as it was.
LEMMA SubmittedIsThePlan ==
  ASSUME NEW r, NEW ps, NEW signed,
         \A q \in {q \in ps : q.backend} : SignedKept(q, signed[q])
  PROVE  Submitted(Plan(r, ps), signed) = Plan(r, ps)
<1>1. {IF q.backend THEN signed[q].packet ELSE q : q \in ps} = ps
  BY DEF SignedKept
<1> QED
  BY <1>1 DEF Submitted, Plan

LEMMA CommitAccepts ==
  ASSUME PlanInv, Commit
  PROVE  Accepted' /\ PackageSealed'
<1>1. PICK signed \in Signatures({q \in plan.packets : q.backend}) :
         /\ \A q \in {q \in plan.packets : q.backend} : SignedKept(q, signed[q])
         /\ \E answer \in Answers(request, Submitted(plan, signed)) :
               /\ IsAnchor(answer.anchor)
               /\ Accepts(plan, answer)
               /\ PacketsKept(request, Submitted(plan, signed),
                              answer.anchor, answer.virtual)
               /\ StructureValid(PackageOf(request, plan, answer))
               /\ sealed' = answer
               /\ package' = PackageOf(request, plan, answer)
  BY DEF Commit
<1>2. plan # None /\ UNCHANGED <<request, plan>>
  BY DEF Commit, builder
<1>3. plan = Plan(request, packets) /\ plan.packets = packets
  BY <1>2, PlansAreChecked DEF Plan
<1>4. Submitted(plan, signed) = plan
  BY <1>1, <1>3, SubmittedIsThePlan
<1>5. Accepted'
  BY <1>1, <1>2, <1>4 DEF Accepted
<1>6. PackageSealed'
  BY <1>1, <1>2 DEF PackageSealed, OnePartEdited, Parts
<1> QED
  BY <1>5, <1>6

LEMMA NextAnswerInv == PlanInv /\ AnswerInv /\ [Next]_vars => AnswerInv'
<1> SUFFICES ASSUME PlanInv, AnswerInv, [Next]_vars
             PROVE  AnswerInv'
  OBVIOUS
<1>1. CASE BuilderNext /\ UNCHANGED <<sealed, package>>
  <2>1. plan = None
    BY <1>1, PlanIsFinal
  <2> QED
    BY <1>1, <2>1 DEF AnswerInv, Accepted
<1>2. CASE Commit
  BY <1>2, CommitAccepts DEF AnswerInv
<1>3. CASE Seal
  BY <1>3 DEF Seal, AnswerInv, Accepted, PackageSealed, builder
<1>4. CASE UNCHANGED vars
  BY <1>4 DEF vars, builder, AnswerInv, Accepted, PackageSealed
<1> QED
  BY <1>1, <1>2, <1>3, <1>4 DEF Next

LEMMA SpecAnswerInv == Spec => [](PlanInv /\ AnswerInv)
<1>1. CommitInit => AnswerInv
  BY DEF CommitInit, AnswerInv
<1> QED
  BY <1>1, InitPlanInv, NextPlanInv, NextAnswerInv, PTL DEF Spec
-----------------------------------------------------------------------------
(* Values of anchors *)

LEMMA SequenceDomain ==
  ASSUME NEW list, IsSequence(list)
  PROVE  /\ Len(list) \in Nat
         /\ DOMAIN list = 1..Len(list)
         /\ IsFiniteSet(DOMAIN list)
<1>1. Len(list) \in Nat /\ DOMAIN list = 1..Len(list)
  BY DEF IsSequence
<1> QED
  BY <1>1, FS_Interval

LEMMA BuiltSequence ==
  ASSUME NEW n \in Nat, NEW f, DOMAIN f = 1..n, f = [i \in DOMAIN f |-> f[i]]
  PROVE  IsSequence(f) /\ Len(f) = n
<1>1. f \in Seq({f[i] : i \in 1..n})
  OBVIOUS
<1>2. Len(f) = n
  BY <1>1
<1> QED
  BY <1>2 DEF IsSequence

\* The template of a plan differs from the caller's in PSBT fields only.
LEMMA MergedTemplate ==
  ASSUME NEW r \in Requests, NEW ps
  PROVE  /\ IsAnchor(Merged(r, ps))
         /\ Merged(r, ps).outputs = r.template.outputs
         /\ Len(Merged(r, ps).inputs) = Len(r.template.inputs)
         /\ \A i \in DOMAIN r.template.inputs :
               /\ Merged(r, ps).inputs[i].outpoint = r.template.inputs[i].outpoint
               /\ Merged(r, ps).inputs[i].value = r.template.inputs[i].value
<1> DEFINE template == r.template
           merged == Merged(r, ps)
<1>1. IsAnchor(template)
  BY BuilderAssumption DEF IsRequest
<1>2. /\ merged = [header |-> template.header, inputs |-> merged.inputs,
                   outputs |-> template.outputs]
      /\ merged.inputs = [i \in DOMAIN template.inputs |-> merged.inputs[i]]
      /\ \A i \in DOMAIN template.inputs :
            merged.inputs[i] = IF template.inputs[i].outpoint \in SpentOutpoints(r, ps)
                               THEN [template.inputs[i] EXCEPT !.fixed =
                                        Required(template.inputs[i].outpoint)]
                               ELSE template.inputs[i]
  BY <1>1 DEF Merged, IsAnchor
<1>3. IsSequence(merged.inputs) /\ Len(merged.inputs) = Len(template.inputs)
  <2> DEFINE list == merged.inputs
  <2>1. DOMAIN list = 1..Len(template.inputs) /\ Len(template.inputs) \in Nat
    BY <1>1, <1>2, SequenceDomain DEF IsAnchor
  <2>2. list = [i \in DOMAIN list |-> list[i]]
    BY <1>2, <2>1
  <2> HIDE DEF list
  <2>3. IsSequence(list) /\ Len(list) = Len(template.inputs)
    BY <2>1, <2>2, BuiltSequence
  <2> QED
    BY <2>3 DEF list
<1>4. \A i \in DOMAIN template.inputs : IsInput(template.inputs[i])
  BY <1>1 DEF IsAnchor
<1>5. \A i \in DOMAIN template.inputs :
         /\ IsInput(merged.inputs[i])
         /\ merged.inputs[i].outpoint = template.inputs[i].outpoint
         /\ merged.inputs[i].value = template.inputs[i].value
  BY <1>2, <1>4 DEF IsInput
<1> HIDE DEF merged, template
<1>6. IsAnchor(merged)
  BY <1>1, <1>2, <1>3, <1>5 DEF IsAnchor
<1> QED
  BY <1>2, <1>3, <1>5, <1>6 DEF merged, template

InValues(anchor) == [i \in DOMAIN anchor.inputs |-> anchor.inputs[i].value]
OutValues(anchor) == [i \in DOMAIN anchor.outputs |-> anchor.outputs[i].value]

LEMMA TotalsAreSums ==
  ASSUME NEW anchor
  PROVE  /\ InputTotal(anchor) = Sum(InValues(anchor), DOMAIN anchor.inputs)
         /\ OutputTotal(anchor) = Sum(OutValues(anchor), DOMAIN anchor.outputs)
<1>1. DOMAIN InValues(anchor) = DOMAIN anchor.inputs
      /\ DOMAIN OutValues(anchor) = DOMAIN anchor.outputs
  BY DEF InValues, OutValues
<1>2. InputTotal(anchor) = SumFunction(InValues(anchor))
      /\ OutputTotal(anchor) = SumFunction(OutValues(anchor))
  BY DEF InputTotal, OutputTotal, InValues, OutValues
<1> QED
  BY <1>1, <1>2, SumFunctionIsSum

\* With skip-funding the transaction keeps its inputs, its outputs and their values.
LEMMA SkipFundingKeepsValues ==
  ASSUME NEW p, NEW answer, IsAnchor(p.template), IsAnchor(answer.anchor),
         Accepts(p, answer), p.mode # "walletFunded"
  PROVE  /\ Fee(answer.anchor) = Fee(p.template)
         /\ \A i \in DOMAIN p.template.outputs :
               answer.anchor.outputs[i].value = p.template.outputs[i].value
<1> DEFINE before == p.template
           after == answer.anchor
<1>1. /\ DOMAIN before.inputs = DOMAIN after.inputs
      /\ DOMAIN before.outputs = DOMAIN after.outputs
      /\ IsFiniteSet(DOMAIN before.inputs) /\ IsFiniteSet(DOMAIN before.outputs)
  BY SequenceDomain DEF IsAnchor, Accepts, ShapeKept, SkipFundingKept
<1>2. \A i \in DOMAIN before.inputs : IsInput(before.inputs[i])
  BY DEF IsAnchor
<1>3. \A i \in DOMAIN before.inputs : after.inputs[i].value = before.inputs[i].value
  BY <1>2 DEF Accepts, ShapeKept, InputsKept, IsInput
<1>4. \A i \in DOMAIN before.outputs : after.outputs[i].value = before.outputs[i].value
  BY DEF Accepts, ShapeKept, OutputsKept
<1>5. InputTotal(before) = InputTotal(after)
  <2>1. \A i \in DOMAIN before.inputs : InValues(before)[i] = InValues(after)[i]
    BY <1>1, <1>3 DEF InValues
  <2> HIDE DEF before, after
  <2> QED
    BY <1>1, <2>1, SumCongruence, TotalsAreSums
<1>6. OutputTotal(before) = OutputTotal(after)
  <2>1. \A i \in DOMAIN before.outputs : OutValues(before)[i] = OutValues(after)[i]
    BY <1>1, <1>4 DEF OutValues
  <2> HIDE DEF before, after
  <2> QED
    BY <1>1, <2>1, SumCongruence, TotalsAreSums
<1> QED
  BY <1>4, <1>5, <1>6 DEF Fee

\* With skip-funding the backend can neither move value between the caller's
\* outputs nor change what the caller pays for mining, for every transaction
\* (custom_anchor_lifecycle.go, verifyCommittedAnchorShape).
THEOREM CallerKeepsValue == Spec => []CallerValueKept
<1>1. PlanInv /\ AnswerInv => CallerValueKept
  <2> SUFFICES ASSUME PlanInv, AnswerInv, sealed # None, plan.mode # "walletFunded"
               PROVE  CallerValueKept
    BY DEF CallerValueKept
  <2>1. Accepted
    BY DEF AnswerInv
  <2>2. IsAnchor(plan.template)
    BY <2>1, PlansAreChecked, MergedTemplate DEF Accepted, Planned, Plan
  <2> QED
    BY <2>1, <2>2, SkipFundingKeepsValues DEF Accepted, CallerValueKept
<1> QED
  BY <1>1, SpecAnswerInv, PTL

-----------------------------------------------------------------------------
(* What the wallet pays *)

\* The wallet's coins are all the value that is new among the inputs.
LEMMA AddedValue ==
  ASSUME NEW p, NEW answer, IsAnchor(p.template), IsAnchor(answer.anchor),
         Accepts(p, answer)
  PROVE  LET added == AddedInputs(p.template, answer.anchor)
             paid == SumFunction([i \in added |-> answer.anchor.inputs[i].value])
         IN  /\ paid \in Int /\ InputTotal(p.template) \in Int
             /\ InputTotal(answer.anchor) = InputTotal(p.template) + paid
<1> DEFINE before == p.template
           after == answer.anchor
           added == AddedInputs(before, after)
           kept == DOMAIN before.inputs
           paidFor == [i \in added |-> after.inputs[i].value]
           values == InValues(after)
<1>1. /\ IsFiniteSet(kept) /\ IsFiniteSet(DOMAIN after.inputs)
      /\ kept = 1..Len(before.inputs) /\ Len(before.inputs) \in Nat
      /\ DOMAIN after.inputs = 1..Len(after.inputs) /\ Len(after.inputs) \in Nat
      /\ Len(before.inputs) <= Len(after.inputs)
  BY SequenceDomain DEF IsAnchor, Accepts, ShapeKept, InputsKept
<1>2. \A i \in kept : IsInput(before.inputs[i])
  BY DEF IsAnchor
<1>3. \A i \in kept : after.inputs[i].value = before.inputs[i].value
  BY <1>2 DEF Accepts, ShapeKept, InputsKept, IsInput
<1>4. \A i \in DOMAIN after.inputs : values[i] \in Int /\ values[i] = after.inputs[i].value
  BY DEF Accepts, BitcoinTransactionValid, InValues
<1>5. /\ DOMAIN after.inputs = kept \cup added /\ kept \cap added = {}
      /\ IsFiniteSet(added)
  <2>1. DOMAIN after.inputs = kept \cup added /\ kept \cap added = {}
    BY <1>1 DEF AddedInputs
  <2> QED
    BY <1>1, <2>1, FS_Subset
<1>6. Sum(values, kept \cup added) = Sum(values, kept) + Sum(values, added)
  <2> HIDE DEF before, after, values, kept, added
  <2> QED
    BY <1>1, <1>4, <1>5, SumUnion
<1>7. Sum(values, kept) \in Int /\ Sum(values, added) \in Int
  <2> HIDE DEF before, after, values, kept, added
  <2> QED
    BY <1>1, <1>4, <1>5, SumInt
<1>8. Sum(values, kept) = Sum(InValues(before), kept)
  <2>1. \A i \in kept : values[i] = InValues(before)[i]
    BY <1>1, <1>3, <1>5 DEF InValues
  <2> HIDE DEF before, after, values, kept
  <2> QED
    BY <1>1, <2>1, SumCongruence
<1>9. Sum(values, added) = SumFunction(paidFor)
  <2>1. \A i \in added : values[i] = paidFor[i]
    BY <1>4, <1>5
  <2>2. DOMAIN paidFor = added
    OBVIOUS
  <2> HIDE DEF paidFor, values, added
  <2> QED
    BY <1>5, <2>1, <2>2, SumCongruence, SumFunctionIsSum
<1>10. /\ InputTotal(after) = Sum(values, kept \cup added)
       /\ InputTotal(before) = Sum(InValues(before), kept)
  BY <1>5, TotalsAreSums
<1> HIDE DEF kept, values, added, before, after, paidFor
<1>11. /\ SumFunction(paidFor) \in Int /\ InputTotal(before) \in Int
       /\ InputTotal(after) = InputTotal(before) + SumFunction(paidFor)
  BY <1>6, <1>7, <1>8, <1>9, <1>10
<1> QED
  BY <1>11 DEF before, after, added, paidFor

\* The wallet's change, less what the caller put into that output.
Change(p, answer) ==
    IF answer.change = NoChange THEN 0
    ELSE answer.anchor.outputs[answer.change].value

Templated(p, answer) ==
    IF answer.change \in DOMAIN p.template.outputs
    THEN p.template.outputs[answer.change].value
    ELSE 0

\* All the value that is new among the outputs is the wallet's change.
LEMMA ChangedValue ==
  ASSUME NEW p, NEW answer, IsAnchor(p.template), IsAnchor(answer.anchor),
         Accepts(p, answer), TransactionSane(p.template), p.mode = "walletFunded"
  PROVE  /\ Change(p, answer) \in Int /\ Templated(p, answer) \in Int
         /\ OutputTotal(p.template) \in Int
         /\ OutputTotal(answer.anchor)
              = OutputTotal(p.template) + (Change(p, answer) - Templated(p, answer))
<1> DEFINE before == p.template.outputs
           after == answer.anchor.outputs
           old == OutValues(p.template)
           new == OutValues(answer.anchor)
           total == OutputTotal(p.template)
<1>1. /\ IsFiniteSet(DOMAIN before)
      /\ DOMAIN before = 1..Len(before) /\ Len(before) \in Nat
      /\ DOMAIN after = 1..Len(after) /\ Len(after) \in Nat
  BY SequenceDomain DEF IsAnchor
<1>2. /\ \A i \in DOMAIN before : old[i] \in Int /\ old[i] = before[i].value
      /\ \A i \in DOMAIN after : new[i] \in Int /\ new[i] = after[i].value
  BY DEF Accepts, BitcoinTransactionValid, TransactionSane, OutValues
<1>3. /\ total = Sum(old, DOMAIN before) /\ total \in Int
      /\ OutputTotal(answer.anchor) = Sum(new, DOMAIN after)
  <2>1. Sum(old, DOMAIN before) \in Int
    <3> HIDE DEF old, before
    <3> QED
      BY <1>1, <1>2, SumInt
  <2> QED
    BY <2>1, TotalsAreSums
<1>4. CASE /\ DOMAIN after = DOMAIN before /\ answer.change = NoChange
           /\ \A i \in DOMAIN before : after[i].value = before[i].value
  <2>1. Sum(new, DOMAIN before) = Sum(old, DOMAIN before)
    <3>1. \A i \in DOMAIN before : new[i] = old[i]
      BY <1>2, <1>4
    <3> HIDE DEF old, new, before
    <3> QED
      BY <1>1, <3>1, SumCongruence
  <2>2. Change(p, answer) = 0 /\ Templated(p, answer) = 0
    BY <1>1, <1>4 DEF Change, Templated, NoChange
  <2> HIDE DEF old, new, total, before, after
  <2>3. OutputTotal(answer.anchor) = total
    BY <1>3, <1>4, <2>1
  <2> QED
    BY <1>3, <2>2, <2>3 DEF total
<1>5. CASE /\ Len(after) = Len(before) + 1 /\ answer.change = Len(after)
           /\ \A i \in DOMAIN before : after[i].value = before[i].value
  <2> DEFINE last == Len(after)
  <2>1. Sum(new, DOMAIN before) = Sum(old, DOMAIN before)
    <3>1. \A i \in DOMAIN before : new[i] = old[i]
      BY <1>1, <1>2, <1>5
    <3> HIDE DEF old, new, before
    <3> QED
      BY <1>1, <3>1, SumCongruence
  <2>2. /\ DOMAIN after = DOMAIN before \cup {last} /\ last \notin DOMAIN before
        /\ new[last] \in Int /\ Change(p, answer) = new[last]
        /\ Templated(p, answer) = 0
    <3>1. DOMAIN after = DOMAIN before \cup {last} /\ last \notin DOMAIN before
      <4>1. \A n \in Nat : 1..(n + 1) = 1..n \cup {n + 1} /\ n + 1 \notin 1..n
        OBVIOUS
      <4> QED
        BY <1>1, <1>5, <4>1
    <3>2. new[last] \in Int /\ new[last] = after[last].value
      BY <1>2, <3>1
    <3>3. answer.change = last /\ last # NoChange
      BY <1>1, <1>5 DEF NoChange
    <3>4. Change(p, answer) = new[last]
      BY <3>2, <3>3 DEF Change
    <3>5. Templated(p, answer) = 0
      BY <3>1, <3>3 DEF Templated
    <3> QED
      BY <3>1, <3>2, <3>4, <3>5
  <2>3. Sum(new, DOMAIN before \cup {last}) = new[last] + Sum(new, DOMAIN before)
    <3>1. \A i \in DOMAIN before \cup {last} : new[i] \in Int
      BY <1>2, <2>2
    <3> HIDE DEF new, before, last
    <3> QED
      BY <1>1, <2>2, <3>1, SumAdd
  <2> HIDE DEF old, new, total, before, after, last
  <2>4. OutputTotal(answer.anchor) = new[last] + total
    BY <1>3, <2>1, <2>2, <2>3
  <2> QED
    BY <1>3, <2>2, <2>4 DEF total
<1>6. CASE /\ DOMAIN after = DOMAIN before /\ answer.change \in DOMAIN before
           /\ \A i \in DOMAIN before \ {answer.change} :
                 after[i].value = before[i].value
  <2> DEFINE chosen == answer.change
             rest == DOMAIN before \ {chosen}
  <2>1. Sum(new, rest) = Sum(old, rest) /\ Sum(old, rest) \in Int
    <3>1. \A i \in rest : new[i] = old[i] /\ old[i] \in Int
      BY <1>2, <1>6
    <3>2. IsFiniteSet(rest)
      BY <1>1, FS_Subset
    <3> HIDE DEF old, new, rest
    <3> QED
      BY <3>1, <3>2, SumCongruence, SumInt
  <2>2. /\ chosen \in DOMAIN before
        /\ new[chosen] \in Int /\ old[chosen] \in Int
        /\ Change(p, answer) = new[chosen]
        /\ Templated(p, answer) = old[chosen]
    BY <1>1, <1>2, <1>6 DEF Change, Templated, NoChange
  <2>3. /\ Sum(new, DOMAIN before) = new[chosen] + Sum(new, rest)
        /\ Sum(old, DOMAIN before) = old[chosen] + Sum(old, rest)
    <3>1. \A i \in DOMAIN before : new[i] \in Int /\ old[i] \in Int
      BY <1>2, <1>6
    <3> HIDE DEF new, old, before, chosen
    <3> QED
      BY <1>1, <2>2, <3>1, SumRemove DEF rest
  <2>4. OutputTotal(answer.anchor) = Sum(new, DOMAIN before)
    BY <1>3, <1>6
  <2> HIDE DEF old, new, total, before, after, chosen, rest
  <2>5. OutputTotal(answer.anchor) = total + (new[chosen] - old[chosen])
    BY <1>3, <2>1, <2>2, <2>3, <2>4
  <2> QED
    BY <1>3, <2>2, <2>5 DEF total
<1>7. ChangePolicyKept(p, answer.anchor, answer.change) /\ OutputsKept(p, answer.anchor)
  BY DEF Accepts, ShapeKept
<1>8. CASE p.change = "existing"
  <2>1. answer.change = p.existing /\ p.existing \in DOMAIN before \ p.assetOutputs
    BY <1>7, <1>8 DEF ChangePolicyKept
  <2>2. DOMAIN after = DOMAIN before
    BY <1>1, <1>7, <1>8 DEF ChangePolicyKept
  <2>3. \A i \in DOMAIN before \ {answer.change} : after[i].value = before[i].value
    BY <1>7, <2>1 DEF OutputsKept
  <2> QED
    BY <1>6, <2>1, <2>2, <2>3
<1>9. CASE p.change # "existing"
  <2>1. \A i \in DOMAIN before : after[i].value = before[i].value
    BY <1>7, <1>9 DEF OutputsKept
  <2>2. \/ Len(after) = Len(before) /\ answer.change = NoChange
        \/ Len(after) = Len(before) + 1 /\ answer.change = Len(after)
    BY <1>1, <1>7, <1>9 DEF ChangePolicyKept
  <2> QED
    BY <1>1, <1>4, <1>5, <2>1, <2>2
<1> QED
  BY <1>8, <1>9

\* In wallet-funded mode the wallet pays at most the maximum fee less what the
\* template leaves, for every transaction, change policy and set of coins: no
\* bigger output, fake change index or extra recipient hides what it pays
\* (custom_anchor_lifecycle.go, verifyCommittedAnchorShape and fee check).
THEOREM WalletCostIsBounded == Spec => []WalletCostBounded
<1>1. PlanInv /\ AnswerInv => WalletCostBounded
  <2> SUFFICES ASSUME PlanInv, AnswerInv, sealed # None, plan.mode = "walletFunded"
               PROVE  WalletSpend <= plan.maxFee - Fee(plan.template)
    BY DEF WalletCostBounded
  <2> DEFINE added == AddedInputs(plan.template, sealed.anchor)
             paid == SumFunction([i \in added |-> sealed.anchor.inputs[i].value])
  <2>1. Accepted /\ Planned(request, packets) /\ plan = Plan(request, packets)
    BY PlansAreChecked DEF AnswerInv, Accepted
  <2>2. IsAnchor(plan.template) /\ TransactionSane(plan.template)
    BY <2>1, MergedTemplate
       DEF Planned, Plan, PreparesAnchor, AnchorTransactionValid
  <2>3. /\ paid \in Int /\ InputTotal(plan.template) \in Int
        /\ InputTotal(sealed.anchor) = InputTotal(plan.template) + paid
    BY <2>1, <2>2, AddedValue DEF Accepted
  <2>4. /\ Change(plan, sealed) \in Int /\ Templated(plan, sealed) \in Int
        /\ OutputTotal(plan.template) \in Int
        /\ OutputTotal(sealed.anchor)
              = OutputTotal(plan.template)
                  + (Change(plan, sealed) - Templated(plan, sealed))
    BY <2>1, <2>2, ChangedValue DEF Accepted
  <2>5. Fee(sealed.anchor) <= plan.maxFee
    BY <2>1 DEF Accepted, Accepts, FeeWithinMaximum
  <2>6. WalletSpend = paid - (Change(plan, sealed) - Templated(plan, sealed))
    BY DEF WalletSpend, Change, Templated
  <2> HIDE DEF added, paid
  <2>7. plan.maxFee \in Int
    BY <2>1, BuilderAssumption DEF Planned, Plan, IsRequest
  <2> QED
    BY <2>3, <2>4, <2>5, <2>6, <2>7 DEF Fee
<1> QED
  BY <1>1, SpecAnswerInv, PTL

-----------------------------------------------------------------------------
(* The lock inventory *)

\* The answered transaction has the caller's outpoints first, then the wallet's.
LEMMA AddedOutpoints ==
  ASSUME NEW p, NEW answer, IsAnchor(p.template), IsAnchor(answer.anchor),
         Accepts(p, answer)
  PROVE  Outpoints(answer.anchor) \ Outpoints(p.template)
           = {answer.anchor.inputs[i].outpoint :
                 i \in AddedInputs(p.template, answer.anchor)}
<1> DEFINE before == p.template.inputs
           after == answer.anchor.inputs
<1>1. /\ DOMAIN before = 1..Len(before) /\ Len(before) \in Nat
      /\ DOMAIN after = 1..Len(after) /\ Len(after) \in Nat
      /\ Len(before) <= Len(after)
  BY SequenceDomain DEF IsAnchor, Accepts, ShapeKept, InputsKept
<1>2. \A i \in DOMAIN before : IsInput(before[i])
  BY DEF IsAnchor
<1>3. \A i \in DOMAIN before : after[i].outpoint = before[i].outpoint
  BY <1>2 DEF Accepts, ShapeKept, InputsKept, IsInput
<1>4. \A i, j \in DOMAIN after : after[i].outpoint = after[j].outpoint => i = j
  BY DEF Accepts, BitcoinTransactionValid, TransactionSane
<1>5. \A i \in DOMAIN after :
         after[i].outpoint \in Outpoints(p.template) <=> ~ (i > Len(before))
  BY <1>1, <1>3, <1>4 DEF Outpoints
<1>6. AddedInputs(p.template, answer.anchor) = {i \in DOMAIN after : i > Len(before)}
  BY DEF AddedInputs
<1> QED
  BY <1>5, <1>6 DEF Outpoints

\* Every wallet coin the anchor spends is in the sealed inventory, and no coin
\* of the caller ever is, whatever one part of the package its host rewrote
\* (custom_anchor_package.go:780).
THEOREM InventoryIsExact == Spec => []InventoryIsTheWallets
<1>1. PlanInv /\ AnswerInv => InventoryIsTheWallets
  <2> SUFFICES ASSUME PlanInv, AnswerInv, package # None
               PROVE  ToSet(package.locked)
                        = Outpoints(package.anchor) \ Outpoints(plan.template)
    BY DEF InventoryIsTheWallets
  <2> DEFINE derived == PackageOf(request, plan, sealed)
             added == AddedInputs(plan.template, sealed.anchor)
             coins == {sealed.anchor.inputs[i].outpoint : i \in added}
  <2>1. Accepted /\ Planned(request, packets) /\ plan = Plan(request, packets)
    BY PlansAreChecked DEF AnswerInv, Accepted
  <2>2. IsAnchor(plan.template)
    BY <2>1, MergedTemplate DEF Planned, Plan
  <2>3. Outpoints(sealed.anchor) \ Outpoints(plan.template) = coins
    BY <2>1, <2>2, AddedOutpoints DEF Accepted
  <2>4. StructureValid(package) /\ OnePartEdited(derived, package)
    BY DEF AnswerInv, PackageSealed
  <2>5. package.anchor = sealed.anchor
    BY <2>4 DEF OnePartEdited, Parts, PackageOf
  <2>6. CASE package.locked = derived.locked
    <3>1. package.locked = sealed.locked
      BY <2>6 DEF PackageOf
    <3>2. LockInventoryComplete(plan, sealed.anchor, sealed.locked)
      BY <2>1 DEF Accepted, Accepts
    <3>3. CASE plan.mode = "walletFunded"
      BY <2>3, <2>5, <3>1, <3>2, <3>3 DEF LockInventoryComplete
    <3>4. CASE plan.mode # "walletFunded"
      <4>1. sealed.locked = <<>>
        BY <3>2, <3>4 DEF LockInventoryComplete
      <4>2. ToSet(package.locked) = {}
        BY <3>1, <4>1 DEF ToSet
      <4>3. Len(sealed.anchor.inputs) = Len(plan.template.inputs)
        BY <2>1, <3>4 DEF Accepted, Accepts, ShapeKept, SkipFundingKept
      <4>4. added = {}
        BY <2>1, <4>3, SequenceDomain DEF AddedInputs, Accepted, IsAnchor
      <4>5. coins = {}
        BY <4>4
      <4> QED
        BY <2>3, <2>5, <4>2, <4>5
    <3> QED
      BY <3>3, <3>4
  <2>7. CASE package.locked # derived.locked
    <3>1. /\ package.mode = plan.mode
          /\ package.managed = added
      BY <2>4, <2>7 DEF OnePartEdited, Parts, PackageOf
    <3>2. FundingMetadataValid(package) /\ LocksMatchManaged(package)
      BY <2>4 DEF StructureValid
    <3>3. CASE plan.mode = "walletFunded"
      <4>1. package.lockID # ""
        BY <3>1, <3>2, <3>3 DEF FundingMetadataValid
      <4> QED
        BY <2>3, <2>5, <3>1, <3>2, <4>1, ZenonT(40) DEF LocksMatchManaged
    <3>4. CASE plan.mode # "walletFunded"
      <4>1. package.locked = <<>> /\ package.managed = {}
        BY <3>1, <3>2, <3>4 DEF FundingMetadataValid, NoBackendFunding
      <4>2. ToSet(package.locked) = {}
        BY <4>1 DEF ToSet
      <4>3. coins = {}
        BY <3>1, <4>1
      <4> QED
        BY <2>3, <2>5, <4>2, <4>3
    <3> QED
      BY <3>3, <3>4
  <2> QED
    BY <2>6, <2>7
<1> QED
  BY <1>1, SpecAnswerInv, PTL

-----------------------------------------------------------------------------
(* The sealed summaries *)

\* A host edit leaves the transaction and the packets alone.
LEMMA PackagesKeepPackets ==
  ASSUME AnswerInv, package # None
  PROVE  /\ Accepted /\ StructureValid(package)
         /\ package.anchor = sealed.anchor
         /\ package.virtual = sealed.virtual
         /\ {e.out : e \in package.virtual.outputs} = VirtualOutputs(request, plan)
<1>1. Accepted /\ PackageSealed
  BY DEF AnswerInv
<1>2. package.anchor = sealed.anchor /\ package.virtual = sealed.virtual
  BY <1>1 DEF PackageSealed, OnePartEdited, Parts, PackageOf
<1>3. {e.out : e \in sealed.virtual.outputs} = VirtualOutputs(request, plan)
  <2> DEFINE outs == VirtualOutputs(request, plan)
             entry(out) == [out |-> out, suffix |-> Suffix(sealed.anchor, out)]
  <2>1. sealed.virtual.outputs = {entry(out) : out \in outs}
    BY <1>1 DEF Accepted, PacketsKept
  <2>2. \A out \in outs : entry(out).out = out
    OBVIOUS
  <2> HIDE DEF outs, entry
  <2>3. {e.out : e \in sealed.virtual.outputs} = outs
    BY <2>1, <2>2
  <2> QED
    BY <2>3 DEF outs
<1> QED
  BY <1>1, <1>2, <1>3 DEF PackageSealed

\* An entry of a list that mirrors the packets is the one they are checked with.
LEMMA MappedEntry ==
  ASSUME NEW list, NEW keys, ExactMapping(list, keys), NEW i \in DOMAIN list
  PROVE  /\ list[i].at \in keys
         /\ list[CHOOSE j \in At(list, list[i].at) : TRUE] = list[i]
<1>1. list[i].at \in keys
  BY DEF ExactMapping
<1>2. i \in At(list, list[i].at)
  BY DEF At
<1>3. \A j \in At(list, list[i].at) : j = i
  BY DEF At, ExactMapping, IsInjective
<1> QED
  BY <1>1, <1>2, <1>3

LEMMA SummariesAgree ==
  ASSUME NEW k, SemanticMappingsValid(k)
  PROVE  /\ \A s \in ToSet(k.outputs) :
               \E e \in k.virtual.outputs : OutputMapped(k, e, s) /\ s.at = OutputKey(e.out)
         /\ \A e \in k.virtual.outputs :
               \E s \in ToSet(k.outputs) : OutputMapped(k, e, s) /\ s.at = OutputKey(e.out)
<1> DEFINE keys == {OutputKey(e.out) : e \in k.virtual.outputs}
           of(key) == k.outputs[CHOOSE i \in At(k.outputs, key) : TRUE]
<1>1. /\ ExactMapping(k.outputs, keys)
      /\ \A e \in k.virtual.outputs : OutputMapped(k, e, of(OutputKey(e.out)))
  BY DEF SemanticMappingsValid
<1>2. ASSUME NEW s \in ToSet(k.outputs)
      PROVE  \E e \in k.virtual.outputs : OutputMapped(k, e, s) /\ s.at = OutputKey(e.out)
  <2>1. PICK i \in DOMAIN k.outputs : s = k.outputs[i]
    BY <1>2 DEF ToSet
  <2>2. s.at \in keys /\ of(s.at) = s
    BY <1>1, <2>1, MappedEntry, SMTT(30)
  <2> QED
    BY <1>1, <2>2
<1>3. ASSUME NEW e \in k.virtual.outputs
      PROVE  \E s \in ToSet(k.outputs) : OutputMapped(k, e, s) /\ s.at = OutputKey(e.out)
  <2>1. PICK i \in DOMAIN k.outputs : k.outputs[i].at = OutputKey(e.out)
    BY <1>1 DEF ExactMapping
  <2>2. of(OutputKey(e.out)) = k.outputs[i]
    BY <1>1, <2>1, MappedEntry
  <2> QED
    BY <1>1, <2>1, <2>2 DEF ToSet
<1> QED
  BY <1>2, <1>3

\* The roots a plan previews are those of the sealed anchor and its summaries,
\* whatever the backend answered and whatever one part of the package its host
\* rewrote (custom_anchor_builder.go:309-318, custom_anchor_package.go:1042).
THEOREM PreviewHolds == Spec => []PreviewIsFinal
<1>1. PlanInv /\ AnswerInv => PreviewIsFinal
  <2> SUFFICES ASSUME AnswerInv, package # None
               PROVE  LET preview == PreviewOutputCommitments(request, plan)
                      IN  /\ \A index \in DOMAIN preview :
                                package.anchor.outputs[index].roots = preview[index]
                          /\ \A s \in ToSet(package.outputs) :
                                s.roots = preview[s.out.index]
    BY DEF PreviewIsFinal
  <2> DEFINE outs == VirtualOutputs(request, plan)
             preview == PreviewOutputCommitments(request, plan)
  <2>1. SemanticMappingsValid(package) /\ {e.out : e \in package.virtual.outputs} = outs
    BY PackagesKeepPackets DEF StructureValid
  <2>2. ASSUME NEW e \in package.virtual.outputs, NEW s, OutputMapped(package, e, s)
        PROVE  /\ s.out = e.out /\ e.out.index \in DOMAIN preview
               /\ s.roots = preview[e.out.index]
               /\ package.anchor.outputs[e.out.index].roots = s.roots
    <3>1. e.out \in outs
      BY <2>1
    <3> HIDE DEF outs
    <3>2. s.roots = OutputRoots(outs, e.out.index)
      BY <2>1, <2>2 DEF OutputMapped
    <3>3. e.out.index \in DOMAIN preview /\ preview[e.out.index] = OutputRoots(outs, e.out.index)
      BY <3>1 DEF PreviewOutputCommitments, outs
    <3> QED
      BY <2>2, <3>2, <3>3 DEF OutputMapped, RootHintsValid
  <2>3. ASSUME NEW index \in DOMAIN preview
        PROVE  package.anchor.outputs[index].roots = preview[index]
    <3>1. PICK e \in package.virtual.outputs : e.out.index = index
      BY <2>1, <2>3 DEF PreviewOutputCommitments
    <3> QED
      BY <2>1, <2>2, <3>1, SummariesAgree
  <2>4. ASSUME NEW s \in ToSet(package.outputs)
        PROVE  s.roots = preview[s.out.index]
    BY <2>1, <2>2, <2>4, SummariesAgree
  <2> QED
    BY <2>3, <2>4
<1> QED
  BY <1>1, SpecAnswerInv, PTL

-----------------------------------------------------------------------------
(* The packets' places *)

LEMMA MinIsLeast ==
  ASSUME NEW S, IsFiniteSet(S), S \subseteq Int, S # {}
  PROVE  Min(S) \in S /\ \A y \in S : Min(S) <= y
BY LeastElement DEF Min

\* The group of an input: its reference and the issuance of its coin.
GroupOf(r, i) == <<r.inputs[i].ref, r.inputs[i].coin.issuance>>

LEMMA RequestLists ==
  ASSUME NEW r \in Requests
  PROVE  /\ DOMAIN r.inputs = 1..Len(r.inputs) /\ IsFiniteSet(DOMAIN r.inputs)
         /\ DOMAIN r.outputs = 1..Len(r.outputs) /\ IsFiniteSet(DOMAIN r.outputs)
         /\ \A o \in DOMAIN r.outputs : r.outputs[o].amount \in Nat
<1>1. IsRequest(r)
  BY BuilderAssumption
<1>2. \A o \in DOMAIN r.outputs : r.outputs[o] \in ToSet(r.outputs)
  BY DEF ToSet
<1> QED
  BY <1>1, <1>2, SequenceDomain DEF IsRequest

LEMMA GroupsOfInputs ==
  ASSUME NEW r
  PROVE  Groups(r) = {GroupOf(r, i) : i \in DOMAIN r.inputs}
<1>1. ASSUME NEW g \in Groups(r)
      PROVE  \E i \in DOMAIN r.inputs : g = GroupOf(r, i)
  <2>1. PICK ref \in {i.ref : i \in ToSet(r.inputs)} :
           g \in {<<ref, issuance>> : issuance \in Issuances(r, ref)}
    BY DEF Groups
  <2>2. PICK i \in Under(r.inputs, ref) : g = <<ref, r.inputs[i].coin.issuance>>
    BY <2>1 DEF Issuances
  <2> QED
    BY <2>2 DEF Under, GroupOf
<1>2. ASSUME NEW i \in DOMAIN r.inputs
      PROVE  GroupOf(r, i) \in Groups(r)
  <2> DEFINE ref == r.inputs[i].ref
  <2>1. i \in Under(r.inputs, ref)
    BY DEF Under
  <2>2. r.inputs[i].coin.issuance \in Issuances(r, ref)
    BY <2>1 DEF Issuances
  <2>3. ref \in {e.ref : e \in ToSet(r.inputs)}
    BY DEF ToSet
  <2> QED
    BY <2>2, <2>3 DEF Groups, GroupOf
<1> QED
  BY <1>1, <1>2

LEMMA SlotParts ==
  ASSUME NEW r, NEW s
  PROVE  s \in Slots(r) <=>
           \E g \in Groups(r) : \E o \in Under(r.outputs, g[1]) : s = <<g, o>>
BY DEF Slots

LEMMA FiniteSlots ==
  ASSUME NEW r \in Requests
  PROVE  IsFiniteSet(Groups(r)) /\ IsFiniteSet(Slots(r))
<1>1. IsFiniteSet(Groups(r))
  <2> DEFINE f == [i \in DOMAIN r.inputs |-> GroupOf(r, i)]
  <2>1. IsFiniteSet({f[i] : i \in DOMAIN r.inputs})
    BY RequestLists, FiniteImage
  <2> QED
    BY <2>1, GroupsOfInputs
<1>2. IsFiniteSet(Groups(r) \X DOMAIN r.outputs)
  BY <1>1, RequestLists, FS_Product
<1>3. Slots(r) \subseteq Groups(r) \X DOMAIN r.outputs
  BY SlotParts DEF Under
<1> QED
  BY <1>1, <1>2, <1>3, FS_Subset

\* The coins of a packet; its first one decides on names and keys.
FirstCoin(r, g) == r.inputs[Min(Holding(r, g[1], g[2]))].coin

LEMMA HoldingIsNotEmpty ==
  ASSUME NEW r \in Requests, NEW g \in Groups(r)
  PROVE  /\ IsFiniteSet(Holding(r, g[1], g[2]))
         /\ Min(Holding(r, g[1], g[2])) \in Holding(r, g[1], g[2])
<1> DEFINE H == Holding(r, g[1], g[2])
<1>1. PICK i \in DOMAIN r.inputs : g = GroupOf(r, i)
  BY GroupsOfInputs
<1>2. i \in H
  BY <1>1 DEF Holding, Under, GroupOf
<1>3. H \subseteq DOMAIN r.inputs
  BY DEF Holding, Under
<1>4. IsFiniteSet(H) /\ H \subseteq Int
  BY <1>3, RequestLists, FS_Subset
<1> QED
  BY <1>2, <1>4, MinIsLeast

LEMMA FirstCoinFits ==
  ASSUME NEW r \in Requests, InputsResolve(r), NEW g \in Groups(r)
  PROVE  /\ FirstCoin(r, g) \in Genuine
         /\ FirstCoin(r, g).issuance = g[2]
         /\ Names(g[1], FirstCoin(r, g))
<1>1. PICK i \in Holding(r, g[1], g[2]) : FirstCoin(r, g) = r.inputs[i].coin
  BY HoldingIsNotEmpty DEF FirstCoin
<1> QED
  BY <1>1 DEF Holding, Under, InputsResolve, ProofVerified

-----------------------------------------------------------------------------
(* What packets pay is what the distribution put into their slots *)

Made(r, d) == {s \in Slots(r) : d[s] > 0}

For(r, s) == Min(Candidates(r, s[1], s[2]))

OutOf(r, d, s) ==
    [from |-> s[2], for |-> For(r, s), index |-> r.outputs[s[2]].index,
     amount |-> d[s], key |-> ScriptKey(r, s[2], s[1])]

LEMMA OutsOfPacket ==
  ASSUME NEW r, NEW g \in Groups(r), NEW d
  PROVE  Outs(r, g, d) = {OutOf(r, d, s) : s \in {s \in Made(r, d) : s[1] = g}}
<1>1. \A o \in Under(r.outputs, g[1]) :
         /\ <<g, o>> \in Slots(r)
         /\ OutOf(r, d, <<g, o>>)
              = [from |-> o, for |-> Min(Candidates(r, g, o)),
                 index |-> r.outputs[o].index, amount |-> d[<<g, o>>],
                 key |-> ScriptKey(r, o, g)]
  BY SlotParts DEF OutOf, For
<1>2. \A s \in Made(r, d) : s[1] = g =>
         s[2] \in Under(r.outputs, g[1]) /\ s = <<g, s[2]>> /\ d[<<g, s[2]>>] > 0
  BY SlotParts DEF Made
<1>3. ASSUME NEW out \in Outs(r, g, d)
      PROVE  \E s \in Made(r, d) : s[1] = g /\ out = OutOf(r, d, s)
  <2>1. PICK o \in Under(r.outputs, g[1]) :
           /\ d[<<g, o>>] > 0
           /\ out = [from |-> o, for |-> Min(Candidates(r, g, o)),
                     index |-> r.outputs[o].index, amount |-> d[<<g, o>>],
                     key |-> ScriptKey(r, o, g)]
    BY <1>3 DEF Outs
  <2> QED
    BY <1>1, <2>1 DEF Made
<1>4. ASSUME NEW s \in Made(r, d), s[1] = g
      PROVE  OutOf(r, d, s) \in Outs(r, g, d)
  <2>1. s[2] \in {o \in Under(r.outputs, g[1]) : d[<<g, o>>] > 0}
    BY <1>2, <1>4
  <2>2. OutOf(r, d, s)
          = [from |-> s[2], for |-> Min(Candidates(r, g, s[2])),
             index |-> r.outputs[s[2]].index, amount |-> d[<<g, s[2]>>],
             key |-> ScriptKey(r, s[2], g)]
    BY <1>1, <1>2, <1>4
  <2> QED
    BY <2>1, <2>2 DEF Outs
<1> QED
  BY <1>3, <1>4

\* What one packet pays to some of its outputs.
Paid(p, outs) == SumFunction([out \in p.outs \cap outs |-> out.amount])

LEMMA PacketPays ==
  ASSUME NEW r \in Requests, NEW d \in Distributions(r), NEW g \in Groups(r), NEW X
  PROVE  LET slots == {s \in Made(r, d) : s[1] = g /\ OutOf(r, d, s) \in X}
         IN  /\ IsFiniteSet(slots)
             /\ Sum(d, slots) \in Int
             /\ Paid(Packet(r, g, d), X) = Sum(d, slots)
<1> DEFINE slots == {s \in Made(r, d) : s[1] = g /\ OutOf(r, d, s) \in X}
           P == Packet(r, g, d).outs \cap X
           h == [out \in P |-> out.amount]
           f == [s \in slots |-> OutOf(r, d, s)]
<1>1. IsFiniteSet(slots) /\ \A s \in slots : d[s] \in Int
  <2>1. slots \subseteq Slots(r) /\ \A s \in Slots(r) : d[s] \in Int
    BY DEF Made, Distributions
  <2> QED
    BY <2>1, FiniteSlots, FS_Subset
<1>2. f \in [slots -> P] /\ \A out \in P : \E s \in slots : f[s] = out
  BY OutsOfPacket DEF Packet
<1>3. \A s, t \in slots : f[s] = f[t] => s = t
  <2>1. \A s \in slots : s = <<g, f[s].from>>
    BY SlotParts DEF Made, OutOf
  <2> QED
    BY <2>1
<1>4. \A s \in slots : h[f[s]] = d[s]
  <2>1. \A s \in slots : f[s].amount = d[s]
    BY DEF OutOf
  <2> QED
    BY <1>2, <2>1
<1>5. Paid(Packet(r, g, d), X) = SumFunction(h) /\ DOMAIN h = P
  BY DEF Paid
<1> HIDE DEF slots, P, h, f
<1>6. Sum(h, P) = Sum(d, slots)
  BY <1>1, <1>2, <1>3, <1>4, SumReindex
<1>7. Sum(d, slots) \in Int
  BY <1>1, SumInt
<1>8. Paid(Packet(r, g, d), X) = Sum(d, slots)
  BY <1>5, <1>6, SumFunctionIsSum
<1> QED
  BY <1>1, <1>7, <1>8 DEF slots

LEMMA PacketsPay ==
  ASSUME NEW r \in Requests, NEW d \in Distributions(r), NEW GG \in SUBSET Groups(r),
         NEW X
  PROVE  OutTotal({Packet(r, g, d) : g \in GG}, X)
           = Sum(d, {s \in Made(r, d) : s[1] \in GG /\ OutOf(r, d, s) \in X})
<1> DEFINE ps == {Packet(r, g, d) : g \in GG}
           F == [p \in ps |-> Paid(p, X)]
           block == [g \in GG |-> {s \in Made(r, d) : s[1] = g /\ OutOf(r, d, s) \in X}]
           B == [g \in GG |-> Sum(d, block[g])]
           f == [g \in GG |-> Packet(r, g, d)]
<1>1. IsFiniteSet(GG)
  BY FiniteSlots, FS_Subset
<1>2. \A g \in GG : /\ IsFiniteSet(block[g])
                    /\ B[g] \in Int
                    /\ F[f[g]] = B[g]
  BY PacketPays
<1>3. f \in [GG -> ps] /\ \A p \in ps : \E g \in GG : f[g] = p
  OBVIOUS
<1>4. \A g, k \in GG : f[g] = f[k] => g = k
  <2>1. \A g \in GG : g = <<f[g].ref, f[g].issuance>>
    BY GroupsOfInputs DEF Packet, GroupOf
  <2> QED
    BY <2>1
<1>5. OutTotal(ps, X) = SumFunction(F) /\ DOMAIN F = ps
  BY DEF OutTotal, Paid
<1>6. \A g \in GG : \A s \in block[g] : d[s] \in Int
  BY DEF Made, Distributions
<1>7. \A g, k \in GG : g # k => block[g] \cap block[k] = {}
  OBVIOUS
<1>8. UNION {block[g] : g \in GG}
        = {s \in Made(r, d) : s[1] \in GG /\ OutOf(r, d, s) \in X}
  OBVIOUS
<1>9. SumFunction(F) = Sum(F, ps)
  <2> HIDE DEF F, ps
  <2> QED
    BY <1>5, SumFunctionIsSum
<1>10. Sum(F, ps) = Sum(B, GG)
  <2> HIDE DEF F, ps, B, block, f
  <2> QED
    BY <1>1, <1>2, <1>3, <1>4, SumReindex
<1>11. Sum(d, UNION {block[g] : g \in GG}) = Sum(B, GG)
  <2>1. \A g \in GG : IsFiniteSet(block[g])
    BY <1>2
  <2> HIDE DEF block
  <2>2. Sum(d, UNION {block[k] : k \in GG}) = Sum([k \in GG |-> Sum(d, block[k])], GG)
    BY ONLY <1>1, <1>6, <1>7, <2>1, SumByBlocks
  <2> QED
    BY <2>2
<1> HIDE DEF F, ps, B, block, f
<1>12. OutTotal(ps, X) = Sum(d, {s \in Made(r, d) : s[1] \in GG /\ OutOf(r, d, s) \in X})
  BY <1>5, <1>8, <1>9, <1>10, <1>11
<1> QED
  BY <1>12 DEF ps

-----------------------------------------------------------------------------
(* Every virtual output is labelled with the logical output it was made for *)

\* The packets of a plan, with the distribution they were made of.
Distributed(r, ps, d) ==
    /\ Planned(r, ps) /\ d \in Distributions(r)
    /\ ps = {Packet(r, group, d) : group \in Groups(r)}

LEMMA SlotsFit ==
  ASSUME NEW r \in Requests, NEW s \in Slots(r)
  PROVE  /\ s[1] \in Groups(r) /\ s[2] \in DOMAIN r.outputs
         /\ r.outputs[s[2]].ref = s[1][1] /\ s = <<s[1], s[2]>>
         /\ s[1] = <<s[1][1], s[1][2]>>
BY SlotParts, GroupsOfInputs DEF Under, GroupOf

LEMMA CandidatesFit ==
  ASSUME NEW r \in Requests, InputsResolve(r), NEW s \in Slots(r)
  PROVE  /\ For(r, s) \in Candidates(r, s[1], s[2])
         /\ For(r, s) \in Int /\ s[2] \in Int /\ For(r, s) <= s[2]
<1> DEFINE C == Candidates(r, s[1], s[2])
<1>1. C = {c \in DOMAIN r.outputs :
              /\ r.outputs[c].index = r.outputs[s[2]].index
              /\ Names(r.outputs[c].ref, FirstCoin(r, s[1]))
              /\ ScriptKey(r, c, s[1]) = ScriptKey(r, s[2], s[1])}
  BY DEF Candidates, FirstCoin
<1>2. s[2] \in C
  BY <1>1, SlotsFit, FirstCoinFits
<1>3. IsFiniteSet(C) /\ C \subseteq Int
  BY <1>1, RequestLists, FS_Subset
<1> QED
  BY <1>2, <1>3, MinIsLeast DEF For

\* The candidate chosen is at the same place and names the packet's coin.
LEMMA ForFits ==
  ASSUME NEW r \in Requests, InputsResolve(r), NEW s \in Slots(r)
  PROVE  /\ For(r, s) \in DOMAIN r.outputs
         /\ r.outputs[For(r, s)].index = r.outputs[s[2]].index
         /\ Names(r.outputs[For(r, s)].ref, FirstCoin(r, s[1]))
         /\ ScriptKey(r, For(r, s), s[1]) = ScriptKey(r, s[2], s[1])
BY CandidatesFit DEF Candidates, FirstCoin

LEMMA OutputsAreApart ==
  ASSUME NEW r, OutputsResolve(r), NEW a \in DOMAIN r.outputs, NEW b \in DOMAIN r.outputs,
         r.outputs[a].ref = r.outputs[b].ref, r.outputs[a].index = r.outputs[b].index
  PROVE  a = b
BY DEF OutputsResolve, IsInjective

LEMMA AssetNames ==
  ASSUME NEW ref, NEW coin, Names(ref, coin)
  PROVE  /\ ref = AssetRef(coin.issuance) \/ ref = GroupRef(coin.group)
         /\ ref.kind = "asset" => ref = AssetRef(coin.issuance)
         /\ ref.kind = "asset" <=> ref # GroupRef(coin.group)
         /\ ref.kind # "asset" => coin.group # NoGroup
BY DEF Names, Identity, AssetRef, GroupRef

\* Each logical output is paid its amount under its label.
LEMMA MappedTotal ==
  ASSUME NEW r, NEW ps, NEW d, Distributed(r, ps, d), NEW o \in DOMAIN r.outputs
  PROVE  Sum(d, {s \in Made(r, d) : For(r, s) = o}) = r.outputs[o].amount
<1> DEFINE X == {out \in AllOuts(ps) : out.for = o}
<1>1. r \in Requests /\ AmountsMapped(r, ps)
  BY DEF Distributed, Planned, BuildsActivePackets
<1>2. OutTotal(ps, X) = r.outputs[o].amount
  BY <1>1 DEF AmountsMapped
<1>3. \A s \in Made(r, d) : OutOf(r, d, s) \in AllOuts(ps) /\ s[1] \in Groups(r)
  <2> TAKE s \in Made(r, d)
  <2>1. s[1] \in Groups(r)
    BY <1>1, SlotsFit DEF Made
  <2>2. OutOf(r, d, s) \in Packet(r, s[1], d).outs
    BY <2>1, OutsOfPacket DEF Packet
  <2> QED
    BY <2>1, <2>2 DEF AllOuts, Distributed
<1>4. {s \in Made(r, d) : s[1] \in Groups(r) /\ OutOf(r, d, s) \in X}
        = {s \in Made(r, d) : For(r, s) = o}
  BY <1>3 DEF OutOf
<1> HIDE DEF X
<1>5. OutTotal(ps, X) = Sum(d, {s \in Made(r, d) : s[1] \in Groups(r) /\ OutOf(r, d, s) \in X})
  BY <1>1, PacketsPay DEF Distributed
<1> QED
  BY <1>2, <1>4, <1>5

\* An output of an issuance keeps what is made for it.
LEMMA AssetOutputsKeep ==
  ASSUME NEW r, NEW ps, NEW d, Distributed(r, ps, d), NEW s \in Made(r, d),
         r.outputs[s[2]].ref.kind = "asset"
  PROVE  For(r, s) = s[2]
<1> SUFFICES ASSUME For(r, s) # s[2] PROVE FALSE
  OBVIOUS
<1> DEFINE o == s[2]
           c == For(r, s)
           coin == FirstCoin(r, s[1])
<1>1. /\ r \in Requests /\ Valid(r) /\ InputsResolve(r) /\ OutputsResolve(r)
      /\ s \in Slots(r)
  BY DEF Distributed, Planned, Made
<1>2. /\ s = <<s[1], o>> /\ s[1] = <<s[1][1], s[1][2]>> /\ s[1] \in Groups(r)
      /\ o \in DOMAIN r.outputs /\ r.outputs[o].ref = s[1][1]
  BY <1>1, SlotsFit
<1>3. /\ c \in DOMAIN r.outputs /\ r.outputs[c].index = r.outputs[o].index
      /\ Names(r.outputs[c].ref, coin) /\ c <= o /\ c \in Int /\ o \in Int
  BY <1>1, ForFits, CandidatesFit
<1>4. coin \in Genuine /\ coin.issuance = s[1][2] /\ Names(s[1][1], coin)
  BY <1>1, <1>2, FirstCoinFits
<1>5. s[1] = <<AssetRef(coin.issuance), coin.issuance>>
  BY <1>2, <1>4, AssetNames
<1>6. r.outputs[c].ref = GroupRef(coin.group)
  BY <1>1, <1>2, <1>3, <1>4, <1>5, OutputsAreApart, AssetNames
<1>7. \A t \in Made(r, d) : For(r, t) # o
  <2> SUFFICES ASSUME NEW t \in Made(r, d), For(r, t) = o PROVE FALSE
    OBVIOUS
  <2> DEFINE own == FirstCoin(r, t[1])
  <2>1. t \in Slots(r)
    BY DEF Made
  <2>2. /\ t = <<t[1], t[2]>> /\ t[1] = <<t[1][1], t[1][2]>> /\ t[1] \in Groups(r)
        /\ t[2] \in DOMAIN r.outputs /\ r.outputs[t[2]].ref = t[1][1]
    BY <1>1, <2>1, SlotsFit
  <2>3. own \in Genuine /\ own.issuance = t[1][2] /\ Names(t[1][1], own)
    BY <1>1, <2>2, FirstCoinFits
  <2>4. /\ r.outputs[o].index = r.outputs[t[2]].index
        /\ Names(r.outputs[o].ref, own) /\ o <= t[2] /\ t[2] \in Int
    BY <1>1, <2>1, ForFits, CandidatesFit
  <2>5. own.issuance = coin.issuance
    BY <1>2, <1>5, <2>4, AssetNames DEF AssetRef
  <2>6. own.group = coin.group
    BY <1>4, <2>3, <2>5, BuilderAssumption
  <2>7. CASE t[1][1] = AssetRef(own.issuance)
    <3>1. t[2] = o
      BY <1>1, <1>2, <1>5, <2>2, <2>4, <2>5, <2>7, OutputsAreApart
    <3>2. t = s
      BY <1>2, <1>5, <2>2, <2>3, <2>5, <2>7, <3>1
    <3> QED
      BY <3>2
  <2>8. CASE t[1][1] = GroupRef(own.group)
    <3>1. t[2] = c
      BY <1>1, <1>3, <1>6, <2>2, <2>4, <2>6, <2>8, OutputsAreApart
    <3> QED
      BY <1>3, <2>4, <3>1
  <2> QED
    BY <2>3, <2>7, <2>8, AssetNames
<1>8. r.outputs[o].amount = 0
  <2>1. {t \in Made(r, d) : For(r, t) = o} = {}
    BY <1>7
  <2> QED
    BY <1>2, <2>1, MappedTotal, SumEmpty
<1> QED
  BY <1>1, <1>2, <1>8 DEF Valid, OutputValid, ToSet

\* No reference's total is out of range, and outputs take what inputs bring.
LEMMA TotalsInRange ==
  ASSUME NEW r \in Requests, Valid(r), InputsResolve(r), NEW o \in DOMAIN r.outputs
  PROVE  LET ref == r.outputs[o].ref
             ins == Under(r.inputs, ref)
             outs == Under(r.outputs, ref)
             In == [i \in ins |-> r.inputs[i].amount]
             Out == [i \in outs |-> r.outputs[i].amount]
         IN  /\ IsFiniteSet(ins) /\ IsFiniteSet(outs)
             /\ TotalUnder(r.outputs, ref) # Overflow
             /\ Sum(Out, outs) <= MaxAmount
             /\ Sum(In, ins) = Sum(Out, outs)
             /\ \A i \in outs : Out[i] \in Nat
             /\ \A i \in ins : In[i] \in Nat
<1> DEFINE ref == r.outputs[o].ref
           ins == Under(r.inputs, ref)
           outs == Under(r.outputs, ref)
           In == [i \in ins |-> r.inputs[i].amount]
           Out == [i \in outs |-> r.outputs[i].amount]
<1>1. IsFiniteSet(ins) /\ IsFiniteSet(outs)
  BY RequestLists, FS_Subset DEF Under
<1>2. (\A i \in outs : Out[i] \in Nat) /\ (\A i \in ins : In[i] \in Nat)
  BY RequestLists, BuilderAssumption DEF Under, InputsResolve, ProofVerified
<1>3. r.outputs[o] \in ToSet(r.outputs)
  BY DEF ToSet
<1>4. /\ TotalUnder(r.outputs, ref) # Overflow
      /\ TotalUnder(r.outputs, ref) = TotalUnder(r.inputs, ref)
  BY <1>3 DEF Valid, AmountsValid
<1>5. /\ TotalUnder(r.outputs, ref) = CheckedSum(Out)
      /\ TotalUnder(r.inputs, ref) = CheckedSum(In)
  BY DEF TotalUnder
<1>6. DOMAIN In = ins /\ DOMAIN Out = outs
  OBVIOUS
<1> HIDE DEF In, Out, ins, outs, ref
<1>7. SumFunction(In) = Sum(In, ins) /\ SumFunction(Out) = Sum(Out, outs)
  BY <1>6, SumFunctionIsSum
<1>8. Sum(In, ins) \in Nat /\ Sum(Out, outs) \in Nat
  BY <1>1, <1>2, SumNat
<1>9. MaxAmount \in Nat
  BY BuilderAssumption
<1>10. Sum(Out, outs) <= MaxAmount /\ Sum(In, ins) = Sum(Out, outs)
  <2> DEFINE Summed(n) == IF n > MaxAmount THEN -1 ELSE n
  <2>1. \A m, n \in Nat : Summed(m) = Summed(n) /\ Summed(n) # -1
                            => n <= MaxAmount /\ m = n
    BY <1>9
  <2>2. /\ Summed(Sum(Out, outs)) = TotalUnder(r.outputs, ref)
        /\ Summed(Sum(In, ins)) = TotalUnder(r.inputs, ref)
    BY <1>5, <1>7 DEF CheckedSum, Overflow
  <2> HIDE DEF Summed
  <2> QED
    BY <1>4, <1>8, <2>1, <2>2 DEF Overflow
<1> QED
  BY <1>1, <1>2, <1>4, <1>10 DEF In, Out, ins, outs, ref

\* The slots of a group hold what its inputs bring.
LEMMA GroupTotal ==
  ASSUME NEW r \in Requests, NEW d \in Distributions(r), NEW g \in Groups(r)
  PROVE  LET held == Holding(r, g[1], g[2])
             amounts == [i \in held |-> r.inputs[i].coin.amount]
             slots == {s \in Slots(r) : s[1] = g}
         IN  /\ IsFiniteSet(held) /\ IsFiniteSet(slots)
             /\ Sum(d, slots) = Sum(amounts, held)
<1> DEFINE held == Holding(r, g[1], g[2])
           amounts == [i \in held |-> r.inputs[i].coin.amount]
           slots == {s \in Slots(r) : s[1] = g}
<1>1. IsFiniteSet(held) /\ IsFiniteSet(slots)
  BY HoldingIsNotEmpty, FiniteSlots, FS_Subset
<1>2. SumFunctionOnSet(d, slots) = SumFunction(amounts)
  BY DEF Distributions
<1>3. DOMAIN amounts = held
  OBVIOUS
<1> HIDE DEF slots, amounts, held
<1>4. Sum(d, slots) = Sum(amounts, held)
  BY <1>2, <1>3, SumFunctionOnSetIsSum, SumFunctionIsSum
<1> QED
  BY <1>1, <1>4 DEF slots, amounts, held

\* Where an issuance is accounted for under its own name, its own packet pays
\* its outputs in full.
LEMMA AssetPacketPays ==
  ASSUME NEW r, NEW ps, NEW d, Distributed(r, ps, d),
         NEW c \in DOMAIN r.outputs, r.outputs[c].ref.kind = "asset"
  PROVE  \E g \in Groups(r) :
            /\ g[1] = r.outputs[c].ref
            /\ <<g, c>> \in Slots(r)
            /\ d[<<g, c>>] = r.outputs[c].amount
<1> DEFINE ref == r.outputs[c].ref
           ins == Under(r.inputs, ref)
           outs == Under(r.outputs, ref)
           In == [i \in ins |-> r.inputs[i].amount]
           Out == [i \in outs |-> r.outputs[i].amount]
<1>1. /\ r \in Requests /\ Valid(r) /\ InputsResolve(r) /\ OutputsResolve(r)
      /\ d \in Distributions(r)
  BY DEF Distributed, Planned
<1>2. /\ IsFiniteSet(ins) /\ IsFiniteSet(outs)
      /\ Sum(In, ins) = Sum(Out, outs)
      /\ \A i \in outs : Out[i] \in Nat
  BY <1>1, TotalsInRange
<1>3. c \in outs /\ Out[c] # 0
  BY <1>1 DEF Under, Valid, OutputValid, ToSet
<1>4. ins # {}
  <2>1. Out[c] <= Sum(Out, outs)
    <3>1. Sum(Out, outs) = Out[c] + Sum(Out, outs \ {c})
      <4> HIDE DEF Out, outs
      <4> QED
        BY <1>2, <1>3, SumRemove
    <3>2. Sum(Out, outs \ {c}) \in Nat
      <4>1. IsFiniteSet(outs \ {c})
        BY <1>2, FS_Subset
      <4> HIDE DEF Out, outs
      <4> QED
        BY <1>2, <4>1, SumNat
    <3> HIDE DEF Out, outs
    <3> QED
      BY <1>2, <1>3, <3>1, <3>2
  <2>2. CASE ins = {}
    <3>1. Sum(In, ins) = 0
      <4> HIDE DEF In, ins
      <4> QED
        BY <2>2, SumEmpty
    <3> HIDE DEF Out, outs, In, ins
    <3> QED
      BY <1>2, <1>3, <2>1, <3>1
  <2> QED
    BY <2>2
<1>5. PICK k \in ins : TRUE
  BY <1>4
<1> DEFINE g == <<ref, r.inputs[k].coin.issuance>>
           x == r.inputs[k].coin.issuance
           held == Holding(r, g[1], g[2])
           amounts == [i \in held |-> r.inputs[i].coin.amount]
           slots == {s \in Slots(r) : s[1] = g}
<1>6. g \in Groups(r)
  BY <1>5, GroupsOfInputs DEF Under, GroupOf
<1>7. held = ins
  <2>1. \A i \in ins : Names(ref, r.inputs[i].coin)
    BY <1>1 DEF InputsResolve, Under
  <2>2. \A i \in ins : ref = AssetRef(r.inputs[i].coin.issuance)
    BY <2>1, AssetNames
  <2>3. \A i \in ins : r.inputs[i].coin.issuance = x
    <3>1. \A a, b : AssetRef(a) = AssetRef(b) => a = b
      BY DEF AssetRef
    <3>2. ref = AssetRef(x)
      BY <1>5, <2>2
    <3> HIDE DEF ref, ins
    <3> QED
      BY <2>2, <3>1, <3>2
  <2> QED
    BY <2>3 DEF Holding
<1>8. Sum(d, slots) = Sum(Out, outs) /\ IsFiniteSet(slots)
  <2>1. Sum(d, slots) = Sum(amounts, held) /\ IsFiniteSet(slots)
    <3> HIDE DEF g
    <3> QED
      BY <1>1, <1>6, GroupTotal
  <2>2. \A i \in ins : In[i] = amounts[i]
    BY <1>1, <1>7 DEF InputsResolve, Under
  <2>3. Sum(In, ins) = Sum(amounts, ins)
    <3> HIDE DEF In, amounts, ins
    <3> QED
      BY <1>2, <2>2, SumCongruence
  <2> HIDE DEF In, amounts, ins, held, slots, Out, outs
  <2> QED
    BY <1>2, <1>7, <2>1, <2>3
<1> DEFINE into == [i \in outs |-> d[<<g, i>>]]
<1>9. \A i \in outs : <<g, i>> \in Slots(r) /\ into[i] \in Nat /\ into[i] \in Int
  <2>1. \A i \in outs : <<g, i>> \in Slots(r)
    BY <1>6, SlotParts
  <2> QED
    BY <1>1, <2>1, BuilderAssumption DEF Distributions
<1>10. Sum(into, outs) = Sum(d, slots)
  <2> DEFINE p == [i \in outs |-> <<g, i>>]
  <2>1. p \in [outs -> slots]
    BY <1>9
  <2>2. \A s \in slots : \E i \in outs : p[i] = s
    BY SlotParts
  <2>3. \A i, j \in outs : p[i] = p[j] => i = j
    OBVIOUS
  <2>4. \A i \in outs : into[i] \in Int /\ d[p[i]] = into[i]
    BY <1>9
  <2> HIDE DEF p, outs, slots, into
  <2> QED
    BY <1>2, <2>1, <2>2, <2>3, <2>4, SumReindex
<1>11. \A i \in outs : into[i] <= Out[i]
  <2> TAKE i \in outs
  <2> DEFINE s == <<g, i>>
             mine == {t \in Made(r, d) : For(r, t) = i}
  <2>1. i \in DOMAIN r.outputs /\ r.outputs[i].ref = ref
    BY DEF Under
  <2>2. Sum(d, mine) = Out[i] /\ Out[i] \in Nat /\ into[i] \in Nat /\ into[i] = d[s]
    BY <1>2, <1>9, <2>1, MappedTotal
  <2>3. CASE into[i] > 0
    <3>1. s \in mine
      <4>1. s \in Made(r, d)
        BY <1>9, <2>2, <2>3 DEF Made
      <4> QED
        BY <2>1, <4>1, AssetOutputsKeep
    <3>2. IsFiniteSet(mine) /\ \A t \in mine : d[t] \in Nat
      <4>1. mine \subseteq Slots(r) /\ \A t \in Slots(r) : d[t] \in Nat
        BY <1>1, BuilderAssumption DEF Made, Distributions
      <4> QED
        BY <1>1, <4>1, FiniteSlots, FS_Subset
    <3>3. Sum(d, mine) = d[s] + Sum(d, mine \ {s})
      <4> HIDE DEF mine, s
      <4> QED
        BY <3>1, <3>2, SumRemove
    <3>4. Sum(d, mine \ {s}) \in Nat
      <4>1. IsFiniteSet(mine \ {s})
        BY <3>2, FS_Subset
      <4> HIDE DEF mine, s
      <4> QED
        BY <3>2, <4>1, SumNat
    <3> HIDE DEF mine, s, into, Out
    <3> QED
      BY <2>2, <3>3, <3>4
  <2>4. CASE ~ (into[i] > 0)
    <3> HIDE DEF into, Out
    <3> QED
      BY <2>2, <2>4
  <2> QED
    BY <2>3, <2>4
<1>12. into[c] = Out[c]
  <2>1. \A i \in outs : into[i] \in Int /\ Out[i] \in Int /\ into[i] <= Out[i]
    BY <1>2, <1>9, <1>11
  <2>2. Sum(into, outs) = Sum(Out, outs)
    BY <1>8, <1>10
  <2> HIDE DEF into, Out, outs
  <2> QED
    BY <1>2, <1>3, <2>1, <2>2, SumTight
<1>13. d[<<g, c>>] = r.outputs[c].amount
  BY <1>3, <1>12
<1> QED
  BY <1>3, <1>6, <1>9, <1>13

\* Two slots that pay one output pay no more than its amount together.
LEMMA TwoSlots ==
  ASSUME NEW r, NEW ps, NEW d, Distributed(r, ps, d), NEW o \in DOMAIN r.outputs,
         NEW s \in Made(r, d), NEW t \in Made(r, d), s # t,
         For(r, s) = o, For(r, t) = o
  PROVE  d[s] < r.outputs[o].amount
<1> DEFINE mine == {u \in Made(r, d) : For(r, u) = o}
<1>1. r \in Requests /\ d \in Distributions(r)
  BY DEF Distributed, Planned
<1>2. IsFiniteSet(mine) /\ \A u \in mine : d[u] \in Nat /\ d[u] > 0
  <2>1. mine \subseteq Slots(r) /\ \A u \in Slots(r) : d[u] \in Nat
    BY <1>1, BuilderAssumption DEF Made, Distributions
  <2> QED
    BY <1>1, <2>1, FiniteSlots, FS_Subset DEF Made
<1>3. s \in mine /\ t \in mine \ {s}
  OBVIOUS
<1>4. Sum(d, mine) = r.outputs[o].amount
  BY MappedTotal
<1> DEFINE rest == mine \ {s}
           least == rest \ {t}
<1>5. IsFiniteSet(rest) /\ IsFiniteSet(least) /\ \A u \in least : d[u] \in Nat
  BY <1>2, FS_Subset
<1>6. Sum(d, mine) = d[s] + Sum(d, rest)
  <2> HIDE DEF mine
  <2> QED
    BY <1>2, <1>3, SumRemove
<1>7. Sum(d, rest) = d[t] + Sum(d, least)
  <2>1. \A u \in rest : d[u] \in Int
    BY <1>2
  <2>2. t \in rest
    BY <1>3
  <2> HIDE DEF rest
  <2> QED
    BY <1>5, <2>1, <2>2, SumRemove
<1>8. Sum(d, least) \in Nat
  <2> HIDE DEF least
  <2> QED
    BY <1>5, SumNat
<1>9. d[s] \in Nat /\ d[t] \in Nat /\ d[t] > 0
  BY <1>2, <1>3
<1> HIDE DEF mine, rest, least
<1> QED
  BY <1>4, <1>6, <1>7, <1>8, <1>9

LEMMA LabelsAreTrue ==
  ASSUME NEW r, NEW ps, NEW d, Distributed(r, ps, d), NEW s \in Made(r, d)
  PROVE  For(r, s) = s[2]
<1> SUFFICES ASSUME For(r, s) # s[2] PROVE FALSE
  OBVIOUS
<1> DEFINE o == s[2]
           c == For(r, s)
           coin == FirstCoin(r, s[1])
<1>1. /\ r \in Requests /\ Valid(r) /\ InputsResolve(r) /\ OutputsResolve(r)
      /\ s \in Slots(r) /\ d \in Distributions(r)
  BY DEF Distributed, Planned, Made
<1>2. /\ s = <<s[1], o>> /\ o \in DOMAIN r.outputs /\ r.outputs[o].ref = s[1][1]
      /\ s[1] \in Groups(r)
  BY <1>1, SlotsFit
<1>3. /\ c \in DOMAIN r.outputs /\ r.outputs[c].index = r.outputs[o].index
      /\ Names(r.outputs[c].ref, coin)
  BY <1>1, ForFits
<1>4. Names(s[1][1], coin)
  BY <1>1, <1>2, FirstCoinFits
<1>5. r.outputs[o].ref.kind # "asset"
  BY AssetOutputsKeep
<1>6. r.outputs[o].ref # r.outputs[c].ref
  BY <1>1, <1>2, <1>3, OutputsAreApart
<1>7. r.outputs[c].ref.kind = "asset"
  BY <1>2, <1>3, <1>4, <1>5, <1>6, AssetNames
<1>8. PICK g \in Groups(r) : /\ g[1] = r.outputs[c].ref
                             /\ <<g, c>> \in Slots(r)
                             /\ d[<<g, c>>] = r.outputs[c].amount
  BY <1>3, <1>7, AssetPacketPays
<1> DEFINE t == <<g, c>>
<1>9. t \in Made(r, d)
  <2>1. r.outputs[c].amount # 0 /\ r.outputs[c].amount \in Nat
    BY <1>1, <1>3, RequestLists DEF Valid, OutputValid, ToSet
  <2> QED
    BY <1>8, <2>1 DEF Made
<1>10. For(r, t) = c
  BY <1>7, <1>9, AssetOutputsKeep
<1>11. t # s
  BY <1>2, <1>6, <1>8
<1>12. d[t] < r.outputs[c].amount
  BY <1>3, <1>9, <1>10, <1>11, TwoSlots
<1>13. r.outputs[c].amount \in Nat
  BY <1>1, <1>3, RequestLists
<1> QED
  BY <1>8, <1>12, <1>13

\* Only a burn has a burn key.
LEMMA BurnKeys ==
  ASSUME NEW r, NEW o, NEW g
  PROVE  ScriptKey(r, o, g)[1] = "burn" <=> r.outputs[o].script = "burn"
<1>1. CASE r.outputs[o].script = "burn"
  BY <1>1 DEF ScriptKey
<1>2. CASE r.outputs[o].script = "opTrue"
  BY <1>2 DEF ScriptKey, OpTrueScriptKey
<1>3. CASE r.outputs[o].script \notin {"burn", "opTrue"}
  BY <1>3 DEF ScriptKey, UniqueScriptKey, StaticScriptKey
<1> QED
  BY <1>1, <1>2, <1>3

\* An out of the packets comes from a slot.
LEMMA OutsAreMade ==
  ASSUME NEW r, NEW ps, NEW d, Distributed(r, ps, d), NEW out \in AllOuts(ps)
  PROVE  \E s \in Made(r, d) : out = OutOf(r, d, s)
<1>1. PICK g \in Groups(r) : out \in Packet(r, g, d).outs
  BY DEF AllOuts, Distributed
<1>2. out \in Outs(r, g, d)
  BY <1>1 DEF Packet
<1> QED
  BY <1>2, OutsOfPacket

LEMMA MadeForOutput ==
  ASSUME NEW r, NEW ps, NEW d, Distributed(r, ps, d), NEW o \in DOMAIN r.outputs
  PROVE  Sum(d, {s \in Made(r, d) : s[2] = o}) = r.outputs[o].amount
<1>1. {s \in Made(r, d) : s[2] = o} = {s \in Made(r, d) : For(r, s) = o}
  BY LabelsAreTrue
<1> QED
  BY <1>1, MappedTotal

LEMMA AllOutsTotal ==
  ASSUME NEW r, NEW ps, NEW d, Distributed(r, ps, d), NEW GG \in SUBSET Groups(r), NEW X
  PROVE  OutTotal({Packet(r, g, d) : g \in GG}, X)
           = Sum(d, {s \in Made(r, d) : s[1] \in GG /\ OutOf(r, d, s) \in X})
BY PacketsPay DEF Distributed, Planned

\* Each logical output gets its amount, at its place and under its script, and
\* every virtual output carries the label it was made for: for every request,
\* every mix of group and issuance references and every distribution of the
\* coins (custom_anchor_builder.go:1957-2084).
THEOREM OutputsAreAsRequested == Spec => []OutputsAsRequested
<1>1. PlanInv => OutputsAsRequested
  <2> SUFFICES ASSUME PlanInv, plan # None,
                      NEW o \in DOMAIN request.outputs
               PROVE  LET made == {out \in AllOuts(plan.packets) : out.from = o}
                      IN  /\ OutTotal(plan.packets, made) = request.outputs[o].amount
                          /\ \A out \in made :
                                /\ out.for = o
                                /\ out.index = request.outputs[o].index
                                /\ out.key[1] = "burn"
                                     <=> request.outputs[o].script = "burn"
    BY DEF OutputsAsRequested
  <2>1. Planned(request, packets) /\ plan.packets = packets
    BY PlansAreChecked DEF Plan
  <2>2. PICK d \in Distributions(request) : Distributed(request, packets, d)
    BY <2>1 DEF Planned, ArePackets, Distributed
  <2> DEFINE made == {out \in AllOuts(packets) : out.from = o}
  <2>3. packets = {Packet(request, g, d) : g \in Groups(request)} /\ request \in Requests
    BY <2>1, <2>2 DEF Distributed, Planned
  <2>4. \A out \in made : /\ out.for = o
                          /\ out.index = request.outputs[o].index
                          /\ out.key[1] = "burn" <=> request.outputs[o].script = "burn"
    <3> TAKE out \in made
    <3>1. PICK s \in Made(request, d) : out = OutOf(request, d, s)
      BY <2>2, OutsAreMade
    <3>2. s[2] = o
      BY <3>1 DEF OutOf
    <3>3. For(request, s) = o
      BY <2>2, <3>2, LabelsAreTrue
    <3> QED
      BY <3>1, <3>2, <3>3, BurnKeys DEF OutOf
  <2>5. OutTotal(packets, made) = request.outputs[o].amount
    <3>1. {s \in Made(request, d) :
              s[1] \in Groups(request) /\ OutOf(request, d, s) \in made}
            = {s \in Made(request, d) : s[2] = o}
      <4>1. ASSUME NEW s \in Made(request, d)
            PROVE  s[1] \in Groups(request) /\ OutOf(request, d, s) \in AllOuts(packets)
        <5>1. s[1] \in Groups(request)
          BY <2>3, SlotsFit DEF Made
        <5>2. OutOf(request, d, s) \in Packet(request, s[1], d).outs
          BY <5>1, OutsOfPacket DEF Packet
        <5> QED
          BY <2>3, <5>1, <5>2 DEF AllOuts
      <4> QED
        BY <4>1 DEF OutOf
    <3> HIDE DEF made
    <3>2. OutTotal(packets, made)
            = Sum(d, {s \in Made(request, d) :
                         s[1] \in Groups(request) /\ OutOf(request, d, s) \in made})
      BY <2>2, <2>3, AllOutsTotal
    <3> QED
      BY <2>2, <3>1, <3>2, MadeForOutput
  <2> QED
    BY <2>1, <2>4, <2>5
<1> QED
  BY <1>1, SpecPlanInv, PTL

-----------------------------------------------------------------------------
(* Burns *)

LEMMA MadeIsFinite ==
  ASSUME NEW r, NEW ps, NEW d, Distributed(r, ps, d), NEW T, T \subseteq Made(r, d)
  PROVE  IsFiniteSet(T) /\ \A s \in T : d[s] \in Int /\ d[s] \in Nat
<1>1. r \in Requests /\ d \in Distributions(r)
  BY DEF Distributed, Planned
<1>2. T \subseteq Slots(r) /\ \A s \in Slots(r) : d[s] \in Nat
  BY <1>1, BuilderAssumption DEF Made, Distributions
<1> QED
  BY <1>1, <1>2, FiniteSlots, FS_Subset

LEMMA MadeForOutputs ==
  ASSUME NEW r, NEW ps, NEW d, Distributed(r, ps, d), NEW O \in SUBSET DOMAIN r.outputs
  PROVE  Sum(d, {s \in Made(r, d) : s[2] \in O})
           = Sum([o \in O |-> r.outputs[o].amount], O)
<1> DEFINE block == [o \in O |-> {s \in Made(r, d) : s[2] = o}]
           amounts == [o \in O |-> r.outputs[o].amount]
           totals == [o \in O |-> Sum(d, block[o])]
<1>1. IsFiniteSet(O)
  BY RequestLists, FS_Subset DEF Distributed, Planned
<1>2. \A o \in O : IsFiniteSet(block[o]) /\ \A s \in block[o] : d[s] \in Int
  BY MadeIsFinite
<1>3. \A o, u \in O : o # u => block[o] \cap block[u] = {}
  OBVIOUS
<1>4. UNION {block[o] : o \in O} = {s \in Made(r, d) : s[2] \in O}
  OBVIOUS
<1>5. \A o \in O : totals[o] = amounts[o]
  BY MadeForOutput
<1>6. Sum(d, UNION {block[o] : o \in O}) = Sum([o \in O |-> Sum(d, block[o])], O)
  <2> HIDE DEF block
  <2> QED
    BY ONLY <1>1, <1>2, <1>3, SumByBlocks
<1>7. Sum(totals, O) = Sum(amounts, O)
  <2> HIDE DEF totals, amounts
  <2> QED
    BY <1>1, <1>5, SumCongruence
<1> QED
  BY <1>4, <1>6, <1>7

\* The packets for one reference.
LEMMA PacketsOf ==
  ASSUME NEW r, NEW ps, NEW d, Distributed(r, ps, d)
  PROVE  /\ \A ref : {p \in ps : p.ref = ref}
                       = {Packet(r, g, d) : g \in {g \in Groups(r) : g[1] = ref}}
         /\ \A x : {p \in ps : p.issuance = x}
                     = {Packet(r, g, d) : g \in {g \in Groups(r) : g[2] = x}}
<1>1. \A g : Packet(r, g, d).ref = g[1] /\ Packet(r, g, d).issuance = g[2]
  BY DEF Packet
<1>2. ps = {Packet(r, g, d) : g \in Groups(r)}
  BY DEF Distributed
<1> QED
  BY <1>1, <1>2

LEMMA SlotsAreOuts ==
  ASSUME NEW r, NEW ps, NEW d, Distributed(r, ps, d), NEW GG \in SUBSET Groups(r),
         NEW s \in Made(r, d)
  PROVE  /\ s[1] \in Groups(r)
         /\ s[1] \in GG => OutOf(r, d, s) \in AllOuts({Packet(r, g, d) : g \in GG})
<1>1. s[1] \in Groups(r)
  BY SlotsFit DEF Made, Distributed, Planned
<1>2. OutOf(r, d, s) \in Packet(r, s[1], d).outs
  BY <1>1, OutsOfPacket DEF Packet
<1> QED
  BY <1>1, <1>2 DEF AllOuts

\* What a plan destroys of an asset stays within what the caller allowed, in
\* exact arithmetic, for every request and distribution
\* (custom_anchor_types.go:1217-1298).
THEOREM BurnsAreAllowed == Spec => []BurnsAllowed
<1>1. PlanInv => BurnsAllowed
  <2> SUFFICES ASSUME PlanInv, plan # None,
                      NEW ref \in {i.ref : i \in ToSet(request.inputs)}
               PROVE  LET ps == {p \in plan.packets : p.ref = ref}
                      IN  OutTotal(ps, {out \in AllOuts(ps) : out.key[1] = "burn"})
                            <= Allowance(request.loss, ref)
    BY DEF BurnsAllowed
  <2>1. Planned(request, packets) /\ plan.packets = packets
    BY PlansAreChecked DEF Plan
  <2>2. PICK d \in Distributions(request) : Distributed(request, packets, d)
    BY <2>1 DEF Planned, ArePackets, Distributed
  <2> DEFINE r == request
             GG == {g \in Groups(r) : g[1] = ref}
             ps == {Packet(r, g, d) : g \in GG}
             X == {out \in AllOuts(ps) : out.key[1] = "burn"}
             outs == Under(r.outputs, ref)
             burning == {i \in outs : r.outputs[i].script = "burn"}
             amounts == [i \in burning |-> r.outputs[i].amount]
             Out == [i \in outs |-> r.outputs[i].amount]
  <2>3. {p \in plan.packets : p.ref = ref} = ps
    BY <2>1, <2>2, PacketsOf
  <2>4. OutTotal(ps, X) = Sum(d, {s \in Made(r, d) : s[1] \in GG /\ OutOf(r, d, s) \in X})
    <3>1. GG \in SUBSET Groups(r)
      OBVIOUS
    <3> HIDE DEF X, GG
    <3> QED
      BY <2>2, <3>1, AllOutsTotal
  <2>5. {s \in Made(r, d) : s[1] \in GG /\ OutOf(r, d, s) \in X}
          = {s \in Made(r, d) : s[2] \in burning}
    <3>1. ASSUME NEW s \in Made(r, d)
          PROVE  s[1] \in GG /\ OutOf(r, d, s) \in X <=> s[2] \in burning
      <4>1. s[1] \in Groups(r) /\ s[2] \in DOMAIN r.outputs /\ r.outputs[s[2]].ref = s[1][1]
        BY <2>1, SlotsFit DEF Made, Planned
      <4>2. s[1] \in GG <=> s[2] \in outs
        BY <4>1 DEF Under
      <4>3. s[1] \in GG => OutOf(r, d, s) \in AllOuts(ps)
        <5>1. GG \in SUBSET Groups(r)
          OBVIOUS
        <5> HIDE DEF GG
        <5> QED
          BY <2>2, <5>1, SlotsAreOuts
      <4>4. OutOf(r, d, s).key[1] = "burn" <=> r.outputs[s[2]].script = "burn"
        BY BurnKeys DEF OutOf
      <4> HIDE DEF GG, ps, outs
      <4> QED
        BY <4>2, <4>3, <4>4
    <3> QED
      BY <3>1
  <2>6. Sum(d, {s \in Made(r, d) : s[2] \in burning}) = Sum(amounts, burning)
    <3>1. burning \in SUBSET DOMAIN r.outputs
      BY DEF Under
    <3> HIDE DEF burning
    <3> QED
      BY <2>2, <3>1, MadeForOutputs
  <2>7. Sum(amounts, burning) <= MaxAmount /\ Sum(amounts, burning) \in Nat
    <3>1. PICK o \in outs : TRUE
      BY <2>1 DEF Planned, BuildsActivePackets
    <3>2. /\ IsFiniteSet(outs) /\ Sum(Out, outs) <= MaxAmount
          /\ \A i \in outs : Out[i] \in Nat
      BY <2>1, <3>1, TotalsInRange DEF Under, Planned
    <3>3. burning \subseteq outs /\ IsFiniteSet(burning) /\ \A i \in burning : Out[i] = amounts[i]
      BY <3>2, FS_Subset
    <3> HIDE DEF burning, outs, Out, amounts
    <3>4. Sum(Out, burning) <= Sum(Out, outs)
      BY <3>2, <3>3, SumSubset
    <3>5. Sum(Out, burning) = Sum(amounts, burning)
      BY <3>3, SumCongruence
    <3>6. Sum(Out, outs) \in Nat /\ Sum(Out, burning) \in Nat
      BY <3>2, <3>3, SumNat
    <3> QED
      BY <3>2, <3>4, <3>5, <3>6, BuilderAssumption
  <2>8. Burned(r, ref) = Sum(amounts, burning)
    <3>1. Burned(r, ref) = CheckedSum(amounts) /\ DOMAIN amounts = burning
      BY DEF Burned
    <3> HIDE DEF amounts, burning
    <3>2. SumFunction(amounts) = Sum(amounts, burning)
      BY <3>1, SumFunctionIsSum
    <3> QED
      BY <2>7, <3>1, <3>2, BuilderAssumption DEF CheckedSum
  <2>9. Burned(r, ref) <= Allowance(r.loss, ref)
    BY <2>1 DEF Planned, Valid, AmountsValid
  <2> HIDE DEF ps, X, GG, burning, amounts
  <2>10. OutTotal(ps, X) <= Allowance(r.loss, ref)
    BY <2>4, <2>5, <2>6, <2>8, <2>9
  <2> QED
    BY <2>3, <2>10 DEF X
<1> QED
  BY <1>1, SpecPlanInv, PTL

-----------------------------------------------------------------------------
(* Conservation *)

LEMMA PassivePacketsFit ==
  ASSUME NEW r, NEW ps, Planned(r, ps), NEW j \in DOMAIN r.passive.packets
  PROVE  LET q == r.passive.packets[j]
         IN  Reanchors(r, ps, q)
<1>1. r.passive.packets # <<>>
  OBVIOUS
<1>2. r.passive.policy = "callerReanchor"
  BY <1>1 DEF Planned, Valid, PassiveValid
<1> QED
  BY <1>2 DEF Planned, PassiveResolves, ToSet

\* Every input is in a packet.
LEMMA InputsArePacked ==
  ASSUME NEW r, NEW ps, NEW d, Distributed(r, ps, d)
  PROVE  UNION {p.inputs : p \in ps} = DOMAIN r.inputs
<1>1. \A g : Packet(r, g, d).inputs = Holding(r, g[1], g[2])
  BY DEF Packet
<1>2. \A i \in DOMAIN r.inputs : /\ i \in Holding(r, GroupOf(r, i)[1], GroupOf(r, i)[2])
                                 /\ GroupOf(r, i) \in Groups(r)
  BY GroupsOfInputs DEF Holding, Under, GroupOf
<1>3. \A g : Holding(r, g[1], g[2]) \subseteq DOMAIN r.inputs
  BY DEF Holding, Under
<1> QED
  BY <1>1, <1>2, <1>3 DEF Distributed

\* The two halves of a concatenation.
LEMMA Halves ==
  ASSUME NEW n \in Nat, NEW m \in Nat
  PROVE  /\ \A k \in 1..(n + m) : (k \in 1..n) \/ (\E j \in 1..m : k = n + j)
         /\ \A i \in 1..n : i \in 1..(n + m)
         /\ \A j \in 1..m : n + j \in 1..(n + m)
         /\ \A j, k \in 1..m : n + j = n + k => j = k
         /\ \A i \in 1..n, j \in 1..m : i # n + j
<1>1. \A k \in 1..(n + m) : (k \in 1..n) \/ (k - n \in 1..m /\ k = n + (k - n))
  OBVIOUS
<1> QED
  BY <1>1

\* The coins a plan spends are those of its inputs and of its passive packets,
\* each once.
LEMMA SpentCoins ==
  ASSUME NEW r, NEW ps, NEW d, Distributed(r, ps, d)
  PROVE  LET In(i) == r.inputs[i].coin
             Passive(j) == r.passive.packets[j].input
             spent == SpentOutpoints(r, ps)
         IN  /\ {c \in Genuine : c.outpoint \in spent}
                  = {In(i) : i \in DOMAIN r.inputs}
                      \cup {Passive(j) : j \in DOMAIN r.passive.packets}
             /\ \A i, k \in DOMAIN r.inputs : In(i) = In(k) => i = k
             /\ \A j, k \in DOMAIN r.passive.packets : Passive(j) = Passive(k) => j = k
             /\ \A i \in DOMAIN r.inputs, j \in DOMAIN r.passive.packets :
                   In(i) # Passive(j)
<1> DEFINE A == [i \in DOMAIN r.inputs |-> r.inputs[i].coin]
           B == [j \in DOMAIN r.passive.packets |-> r.passive.packets[j].input]
           coins == A \o B
           n == Len(r.inputs)
           m == Len(r.passive.packets)
           all == {A[i] : i \in 1..n} \cup {B[j] : j \in 1..m}
<1>1. /\ r \in Requests /\ AnchorInputsComplete(r)
  BY DEF Distributed, Planned, PreparesAnchor
<1>2. /\ DOMAIN r.inputs = 1..n /\ n \in Nat
      /\ DOMAIN r.passive.packets = 1..m /\ m \in Nat
  <2>1. IsRequest(r)
    BY <1>1, BuilderAssumption
  <2> QED
    BY <2>1, SequenceDomain DEF IsRequest
<1>3. /\ A \in Seq(all) /\ Len(A) = n /\ B \in Seq(all) /\ Len(B) = m
  <2>1. A \in [1..n -> all] /\ B \in [1..m -> all]
    BY <1>2
  <2> HIDE DEF A, B, all
  <2> QED
    BY <1>2, <2>1
<1>4. /\ DOMAIN coins = 1..(n + m)
      /\ \A i \in 1..n : coins[i] = A[i]
      /\ \A j \in 1..m : coins[n + j] = B[j]
  <2> HIDE DEF A, B, all, n, m
  <2> QED
    BY <1>2, <1>3
<1>5. ToSet(coins) = {A[i] : i \in 1..n} \cup {B[j] : j \in 1..m}
  <2>1. \A k \in 1..(n + m) : (k \in 1..n) \/ (\E j \in 1..m : k = n + j)
    BY <1>2, Halves, ZenonT(40)
  <2>2. (\A i \in 1..n : i \in 1..(n + m)) /\ (\A j \in 1..m : n + j \in 1..(n + m))
    BY <1>2, Halves
  <2> HIDE DEF A, B, n, m, coins
  <2> QED
    BY <1>4, <2>1, <2>2 DEF ToSet
<1>6. /\ IsInjective(coins)
      /\ ToSet(coins) = {c \in Genuine : c.outpoint \in {e.outpoint : e \in ToSet(coins)}}
  BY <1>1 DEF AnchorInputsComplete
<1>7. SpentOutpoints(r, ps) = {e.outpoint : e \in ToSet(coins)}
  <2>1. ActiveOutpoints(r, ps) = {r.inputs[i].coin.outpoint : i \in DOMAIN r.inputs}
    BY InputsArePacked DEF ActiveOutpoints
  <2>2. {packet.input.outpoint : packet \in ToSet(r.passive.packets)}
          = {r.passive.packets[j].input.outpoint : j \in DOMAIN r.passive.packets}
    BY DEF ToSet
  <2>3. {e.outpoint : e \in ToSet(coins)}
          = {A[i].outpoint : i \in 1..n} \cup {B[j].outpoint : j \in 1..m}
    <3> HIDE DEF A, B, n, m, coins
    <3> QED
      BY <1>5
  <2> QED
    BY <1>2, <2>1, <2>2, <2>3 DEF SpentOutpoints
<1>8. {c \in Genuine : c.outpoint \in SpentOutpoints(r, ps)} = ToSet(coins)
  BY <1>6, <1>7
<1>9. /\ \A i, k \in 1..n : A[i] = A[k] => i = k
      /\ \A j, k \in 1..m : B[j] = B[k] => j = k
      /\ \A i \in 1..n, j \in 1..m : A[i] # B[j]
  <2>1. (\A i \in 1..n : i \in 1..(n + m)) /\ (\A j \in 1..m : n + j \in 1..(n + m))
    BY <1>2, Halves
  <2>2. \A j, k \in 1..m : n + j = n + k => j = k
    BY <1>2, Halves
  <2>3. \A i \in 1..n, j \in 1..m : i # n + j
    BY <1>2, Halves
  <2> HIDE DEF A, B, n, m, coins
  <2> QED
    BY <1>4, <1>6, <2>1, <2>2, <2>3 DEF IsInjective
<1>10. /\ \A i \in DOMAIN r.inputs : A[i] = r.inputs[i].coin
       /\ \A j \in DOMAIN r.passive.packets : B[j] = r.passive.packets[j].input
  OBVIOUS
<1> HIDE DEF A, B, n, m, coins, all
<1>11. {c \in Genuine : c.outpoint \in SpentOutpoints(r, ps)}
         = {r.inputs[i].coin : i \in DOMAIN r.inputs}
             \cup {r.passive.packets[j].input : j \in DOMAIN r.passive.packets}
  <2>1. {r.inputs[i].coin : i \in DOMAIN r.inputs} = {A[i] : i \in 1..n}
    BY <1>2, <1>10
  <2>2. {r.passive.packets[j].input : j \in DOMAIN r.passive.packets}
          = {B[j] : j \in 1..m}
    BY <1>2, <1>10
  <2> QED
    BY <1>5, <1>8, <2>1, <2>2, Zenon
<1> QED
  BY <1>2, <1>9, <1>10, <1>11

\* What is held, spent and created of one issuance.
InputsIn(r, x) == {i \in DOMAIN r.inputs : r.inputs[i].coin.issuance = x}

ActiveIn(ps, x) == {p \in ps : p.issuance = x}

PassiveIn(qs, x) == {j \in DOMAIN qs : qs[j].output.issuance = x}

ConsumedIn(r, ps, x) ==
    {c \in Genuine : c.outpoint \in SpentOutpoints(r, ps) /\ c.issuance = x}

ActivePays(r, ps, x) ==
    OutTotal(ActiveIn(ps, x), AllOuts(ActiveIn(ps, x)))
      = Sum([i \in InputsIn(r, x) |-> r.inputs[i].coin.amount], InputsIn(r, x))

Conserved(r, ps, qs, x) ==
    SumFunction([c \in ConsumedIn(r, ps, x) |-> c.amount])
      = OutTotal(ActiveIn(ps, x), AllOuts(ActiveIn(ps, x)))
          + SumFunction([j \in PassiveIn(qs, x) |-> qs[j].output.amount])

\* The packets of an issuance pay out what its inputs bring.
LEMMA IssuancePays ==
  ASSUME NEW r, NEW ps, NEW d, Distributed(r, ps, d), NEW x
  PROVE  IsFiniteSet(InputsIn(r, x)) /\ ActivePays(r, ps, x)
<1> DEFINE ins == {i \in DOMAIN r.inputs : r.inputs[i].coin.issuance = x}
           amounts == [i \in ins |-> r.inputs[i].coin.amount]
           GG == {g \in Groups(r) : g[2] = x}
           active == {Packet(r, g, d) : g \in GG}
           held == [g \in GG |-> Holding(r, g[1], g[2])]
           slots == [g \in GG |-> {s \in Slots(r) : s[1] = g}]
           within == {s \in Slots(r) : s[1] \in GG}
           paid == {s \in Made(r, d) : s[1] \in GG}
<1>1. /\ r \in Requests /\ d \in Distributions(r) /\ InputsResolve(r)
      /\ GG \in SUBSET Groups(r) /\ IsFiniteSet(GG)
  BY FiniteSlots, FS_Subset DEF Distributed, Planned
<1>2. IsFiniteSet(ins) /\ \A i \in ins : amounts[i] \in Nat /\ amounts[i] \in Int
  BY <1>1, RequestLists, FS_Subset, BuilderAssumption DEF InputsResolve, ProofVerified
<1>3. \A g \in GG : /\ IsFiniteSet(held[g]) /\ IsFiniteSet(slots[g])
                    /\ Sum(d, slots[g])
                         = Sum([i \in held[g] |-> r.inputs[i].coin.amount], held[g])
  BY <1>1, GroupTotal
<1>4. UNION {held[g] : g \in GG} = ins
  <2>1. \A g \in GG : held[g] \subseteq ins
    BY DEF Holding, Under
  <2>2. \A i \in ins : GroupOf(r, i) \in GG /\ i \in held[GroupOf(r, i)]
    BY GroupsOfInputs DEF Holding, Under, GroupOf
  <2> QED
    BY <2>1, <2>2
<1>5. \A g \in GG : /\ held[g] \subseteq ins
                    /\ Sum([i \in held[g] |-> r.inputs[i].coin.amount], held[g])
                         = Sum(amounts, held[g])
  <2> TAKE g \in GG
  <2>1. held[g] \subseteq ins
    BY <1>4
  <2> DEFINE own == [i \in held[g] |-> r.inputs[i].coin.amount]
             H == held[g]
  <2>2. \A i \in H : own[i] = amounts[i]
    BY <2>1
  <2>3. IsFiniteSet(H)
    BY <1>3
  <2>4. Sum(own, H) = Sum(amounts, H)
    <3> HIDE DEF own, H, amounts
    <3> QED
      BY <2>2, <2>3, SumCongruence
  <2> QED
    BY <2>1, <2>4
<1>6. \A g, k \in GG : g # k => held[g] \cap held[k] = {}
  BY <1>1, GroupsOfInputs DEF Holding, Under, GroupOf
<1>7. Sum(amounts, ins) = Sum([g \in GG |-> Sum(amounts, held[g])], GG)
  <2>1. \A g \in GG : IsFiniteSet(held[g]) /\ \A i \in held[g] : amounts[i] \in Int
    BY <1>2, <1>3, <1>5
  <2> HIDE DEF amounts, held, GG, ins
  <2>2. Sum(amounts, UNION {held[g] : g \in GG})
          = Sum([g \in GG |-> Sum(amounts, held[g])], GG)
    BY ONLY <1>1, <1>6, <2>1, SumByBlocks
  <2> QED
    BY <1>4, <2>2
<1>8. Sum(d, within) = Sum([g \in GG |-> Sum(d, slots[g])], GG)
  <2>0. \A g \in GG : slots[g] = {s \in Slots(r) : s[1] = g}
    OBVIOUS
  <2>1. \A g \in GG : IsFiniteSet(slots[g]) /\ \A s \in slots[g] : d[s] \in Int
    <3>1. \A s \in Slots(r) : d[s] \in Int
      BY <1>1 DEF Distributions
    <3> HIDE DEF slots, GG
    <3> QED
      BY <1>3, <2>0, <3>1
  <2>2. \A g, k \in GG : g # k => slots[g] \cap slots[k] = {}
    OBVIOUS
  <2>3. UNION {slots[g] : g \in GG} = within
    <3> HIDE DEF slots, GG
    <3> QED
      BY <2>0
  <2> HIDE DEF slots, GG, within
  <2>4. Sum(d, UNION {slots[g] : g \in GG}) = Sum([g \in GG |-> Sum(d, slots[g])], GG)
    BY ONLY <1>1, <2>1, <2>2, SumByBlocks
  <2> QED
    BY <2>3, <2>4
<1>9. [g \in GG |-> Sum(d, slots[g])] = [g \in GG |-> Sum(amounts, held[g])]
  BY <1>3, <1>5
<1>10. Sum(d, within) = Sum(d, paid)
  <2> DEFINE idle == within \ paid
  <2>1. IsFiniteSet(paid) /\ IsFiniteSet(idle)
        /\ (\A s \in within : d[s] \in Int) /\ within = paid \cup idle /\ paid \cap idle = {}
    <3>1. within \subseteq Slots(r) /\ idle \subseteq Slots(r) /\ paid \subseteq within
      BY DEF Made
    <3> QED
      BY <1>1, <3>1, FiniteSlots, FS_Subset DEF Distributions
  <2>2. \A s \in idle : d[s] = 0
    <3>1. \A s \in idle : d[s] \in Nat /\ ~ (d[s] > 0)
      BY <1>1, BuilderAssumption DEF Made, Distributions
    <3> QED
      BY <3>1
  <2> HIDE DEF within, paid, idle
  <2>3. Sum(d, within) = Sum(d, paid) + Sum(d, idle)
    BY <2>1, SumUnion
  <2>4. Sum(d, idle) = 0
    BY <2>1, <2>2, SumZero
  <2>5. Sum(d, paid) \in Int
    BY <2>1, SumInt
  <2> QED
    BY <2>3, <2>4, <2>5
<1>11. OutTotal(active, AllOuts(active)) = Sum(d, paid)
  <2>1. {s \in Made(r, d) : s[1] \in GG /\ OutOf(r, d, s) \in AllOuts(active)} = paid
    <3>1. \A s \in Made(r, d) : s[1] \in GG => OutOf(r, d, s) \in AllOuts(active)
      <4> HIDE DEF GG
      <4> QED
        BY <1>1, SlotsAreOuts
    <3> QED
      BY <3>1
  <2>2. \A X : OutTotal(active, X)
                 = Sum(d, {s \in Made(r, d) : s[1] \in GG /\ OutOf(r, d, s) \in X})
    <3> HIDE DEF GG
    <3> QED
      BY <1>1, AllOutsTotal
  <2> HIDE DEF active, GG, paid
  <2> QED
    BY <2>1, <2>2
<1>12. {p \in ps : p.issuance = x} = active
  BY PacketsOf
<1> HIDE DEF ins, amounts, GG, active, held, slots, within, paid
<1>13. OutTotal(active, AllOuts(active)) = Sum(amounts, ins)
  BY <1>7, <1>8, <1>9, <1>10, <1>11
<1> QED
  BY <1>2, <1>12, <1>13 DEF ins, amounts, ActivePays, InputsIn, ActiveIn

LEMMA PlanConserves ==
  ASSUME NEW r, NEW ps, NEW d, Distributed(r, ps, d), NEW x
  PROVE  Conserved(r, ps, r.passive.packets, x)
<1> DEFINE consumed == {c \in Genuine : /\ c.outpoint \in SpentOutpoints(r, ps)
                                        /\ c.issuance = x}
           active == {p \in ps : p.issuance = x}
           passive == {j \in DOMAIN r.passive.packets :
                         r.passive.packets[j].output.issuance = x}
           ins == {i \in DOMAIN r.inputs : r.inputs[i].coin.issuance = x}
           worth == [c \in consumed |-> c.amount]
           brought == [i \in ins |-> r.inputs[i].coin.amount]
           kept == [j \in passive |-> r.passive.packets[j].output.amount]
           coin == [i \in ins |-> r.inputs[i].coin]
           tip == [j \in passive |-> r.passive.packets[j].input]
           moved == {coin[i] : i \in ins}
           stayed == {tip[j] : j \in passive}
<1>1. r \in Requests /\ Planned(r, ps)
  BY DEF Distributed, Planned
<1>2. \A j \in DOMAIN r.passive.packets :
         LET q == r.passive.packets[j]
         IN  q.output.issuance = q.input.issuance /\ q.output.amount = q.input.amount
  BY <1>1, PassivePacketsFit DEF Reanchors
<1>3. IsFiniteSet(ins) /\ IsFiniteSet(passive)
  <2>1. IsRequest(r)
    BY <1>1, BuilderAssumption
  <2> QED
    BY <2>1, <1>1, RequestLists, SequenceDomain, FS_Subset DEF IsRequest
<1>4. consumed = moved \cup stayed /\ moved \cap stayed = {}
  <2>1. \A c : c \in consumed <=>
                 /\ \/ \E i \in DOMAIN r.inputs : c = r.inputs[i].coin
                    \/ \E j \in DOMAIN r.passive.packets : c = r.passive.packets[j].input
                 /\ c.issuance = x
    BY SpentCoins
  <2>2. \A c : c \in moved <=>
                 \E i \in DOMAIN r.inputs : c = r.inputs[i].coin /\ c.issuance = x
    OBVIOUS
  <2>3. \A c : c \in stayed <=>
                 \E j \in DOMAIN r.passive.packets :
                    c = r.passive.packets[j].input /\ c.issuance = x
    BY <1>2
  <2>4. \A i \in DOMAIN r.inputs, j \in DOMAIN r.passive.packets :
           r.inputs[i].coin # r.passive.packets[j].input
    BY SpentCoins
  <2> HIDE DEF consumed, moved, stayed
  <2>5. consumed = moved \cup stayed
    BY <2>1, <2>2, <2>3
  <2>6. moved \cap stayed = {}
    BY <2>2, <2>3, <2>4
  <2> QED
    BY <2>5, <2>6
<1>5. IsFiniteSet(moved) /\ IsFiniteSet(stayed)
  <2> HIDE DEF coin, tip, ins, passive
  <2> QED
    BY <1>3, FiniteImage
<1>6. \A c \in consumed : worth[c] \in Int
  BY BuilderAssumption
<1>7. Sum(worth, consumed) = Sum(worth, moved) + Sum(worth, stayed)
  <2> HIDE DEF worth, consumed, moved, stayed
  <2> QED
    BY <1>4, <1>5, <1>6, SumUnion
<1>8. Sum(worth, moved) = Sum(brought, ins)
  <2>1. coin \in [ins -> moved] /\ \A c \in moved : \E i \in ins : coin[i] = c
    OBVIOUS
  <2>2. \A i, k \in ins : coin[i] = coin[k] => i = k
    BY SpentCoins
  <2>3. \A i \in ins : brought[i] \in Int /\ worth[coin[i]] = brought[i]
    <3>1. \A i \in ins : coin[i] \in consumed /\ brought[i] = coin[i].amount
      BY <1>4
    <3> QED
      BY <1>6, <3>1
  <2> HIDE DEF coin, ins, moved, worth, brought
  <2> QED
    BY <1>3, <2>1, <2>2, <2>3, SumReindex
<1>9. Sum(worth, stayed) = Sum(kept, passive)
  <2>1. tip \in [passive -> stayed] /\ \A c \in stayed : \E j \in passive : tip[j] = c
    OBVIOUS
  <2>2. \A j, k \in passive : tip[j] = tip[k] => j = k
    BY SpentCoins
  <2>3. \A j \in passive : kept[j] \in Int /\ worth[tip[j]] = kept[j]
    <3>1. \A j \in passive : tip[j] \in consumed /\ kept[j] = tip[j].amount
      BY <1>2, <1>4
    <3> QED
      BY <1>6, <3>1
  <2> HIDE DEF tip, passive, stayed, worth, kept
  <2> QED
    BY <1>3, <2>1, <2>2, <2>3, SumReindex
<1>10. OutTotal(active, AllOuts(active)) = Sum(brought, ins)
  <2> HIDE DEF consumed, passive, worth, kept, coin, tip, moved, stayed
  <2>1. ActivePays(r, ps, x)
    BY IssuancePays
  <2> QED
    BY <2>1, Zenon DEF ActivePays, InputsIn, ActiveIn, ins, active, brought
<1>11. DOMAIN worth = consumed /\ DOMAIN kept = passive
  OBVIOUS
<1> HIDE DEF worth, consumed, moved, stayed, brought, kept, ins, passive, active
<1>12. SumFunction(worth) = OutTotal(active, AllOuts(active)) + SumFunction(kept)
  BY <1>7, <1>8, <1>9, <1>10, <1>11, SumFunctionIsSum
<1> QED
  BY <1>12
  DEF worth, kept, consumed, active, passive, Conserved, ConsumedIn, ActiveIn, PassiveIn

\* Of every issuance, the coins at the anchor outputs a plan spends and the
\* outputs it creates are worth the same, actively and passively moved ones
\* together (custom_anchor_builder.go:437-457, :487).
THEOREM ValueIsConserved == Spec => []ValueConserved
<1>1. PlanInv => ValueConserved
  <2> SUFFICES ASSUME PlanInv, plan # None PROVE ValueConserved
    BY DEF ValueConserved
  <2>1. /\ Planned(request, packets) /\ plan.packets = packets
        /\ plan.passive = request.passive.packets
    BY PlansAreChecked DEF Plan
  <2>2. PICK d \in Distributions(request) : Distributed(request, packets, d)
    BY <2>1 DEF Planned, ArePackets, Distributed
  <2>3. \A x : Conserved(request, packets, request.passive.packets, x)
    BY <2>2, PlanConserves
  <2>4. \A x : Conserved(request, plan.packets, plan.passive, x)
    BY <2>1, <2>3
  <2> SUFFICES ASSUME NEW x
               PROVE  LET spent == SpentOutpoints(request, plan.packets)
                          consumed == {c \in Genuine : /\ c.outpoint \in spent
                                                       /\ c.issuance = x}
                          active == {p \in plan.packets : p.issuance = x}
                          passive == {i \in DOMAIN plan.passive :
                                        plan.passive[i].output.issuance = x}
                      IN  SumFunction([c \in consumed |-> c.amount])
                            = OutTotal(active, AllOuts(active))
                                + SumFunction([i \in passive |->
                                                  plan.passive[i].output.amount])
    BY Zenon DEF ValueConserved
  <2> QED
    BY <2>4, Zenon DEF Conserved, ConsumedIn, ActiveIn, PassiveIn
<1> QED
  BY <1>1, SpecPlanInv, PTL

-----------------------------------------------------------------------------
(* Whom the proofs go to *)

LEMMA SequenceOfSet ==
  ASSUME NEW S, IsFiniteSet(S)
  PROVE  ToSet(SetToSeq(S)) = S
<1> DEFINE n == Cardinality(S)
<1>1. n \in Nat /\ ExistsBijection(1..n, S)
  BY FS_CardinalityType
<1>2. \E f \in [1..n -> S] : IsInjective(f)
  BY <1>1 DEF ExistsBijection, Bijection, Injection, IsInjective
<1> DEFINE f == SetToSeq(S)
<1>3. f \in [1..n -> S] /\ IsInjective(f)
  BY <1>2 DEF SetToSeq
<1>4. f \in Injection(1..n, S)
  BY <1>3 DEF Injection, IsInjective
<1>5. Cardinality(1..n) = n
  BY <1>1, FS_Interval
<1> HIDE DEF f
<1>6. f \in Surjection(1..n, S)
  BY <1>4, <1>5, FS_Injection
<1>7. ToSet(f) = S
  BY <1>3, <1>6 DEF ToSet, Surjection
<1> QED
  BY <1>7 DEF f

ActiveAt(r, d, s) == ActiveOutput(r, Packet(r, s[1], d), OutOf(r, d, s))

ActiveLabel(r, d, s) ==
    [out |-> ActiveAt(r, d, s), id |-> r.outputs[For(r, s)].id,
     ref |-> r.outputs[For(r, s)].ref, script |-> r.outputs[For(r, s)].script,
     recipient |-> r.outputs[For(r, s)].id]

PassiveLabel(q) ==
    [out |-> PassiveOutput(q), id |-> q.id, ref |-> q.ref,
     script |-> "passive", recipient |-> ""]

LEMMA LabelsOfPlan ==
  ASSUME NEW r, NEW ps, NEW d, Distributed(r, ps, d)
  PROVE  /\ Labelled(r, Plan(r, ps))
               = {ActiveLabel(r, d, s) : s \in Made(r, d)}
                   \cup {PassiveLabel(q) : q \in ToSet(r.passive.packets)}
         /\ IsFiniteSet(Labelled(r, Plan(r, ps)))
         /\ VirtualOutputs(r, Plan(r, ps)) = {l.out : l \in Labelled(r, Plan(r, ps))}
<1> DEFINE p == Plan(r, ps)
           label(q, out) ==
              [out |-> ActiveOutput(r, q, out), id |-> r.outputs[out.for].id,
               ref |-> r.outputs[out.for].ref, script |-> r.outputs[out.for].script,
               recipient |-> r.outputs[out.for].id]
           active == UNION {{label(q, out) : out \in q.outs} : q \in ps}
           made == {ActiveLabel(r, d, s) : s \in Made(r, d)}
           passive == {PassiveLabel(q) : q \in ToSet(r.passive.packets)}
<1>1. p.packets = ps /\ p.passive = r.passive.packets
  BY DEF Plan
<1>2. Labelled(r, p) = active \cup passive
  <2> DEFINE ActiveOf(qs) == UNION {{label(q, out) : out \in q.outs} : q \in qs}
             PassiveOf(qs) == {PassiveLabel(q) : q \in ToSet(qs)}
  <2>1. Labelled(r, p) = ActiveOf(p.packets) \cup PassiveOf(p.passive)
    BY Zenon DEF Labelled, PassiveLabel
  <2>2. active = ActiveOf(ps) /\ passive = PassiveOf(r.passive.packets)
    OBVIOUS
  <2> HIDE DEF p, ActiveOf, PassiveOf, active, passive
  <2> QED
    BY <1>1, <2>1, <2>2
<1>3. r \in Requests /\ ps = {Packet(r, g, d) : g \in Groups(r)}
  BY DEF Distributed, Planned
<1>4. \A s \in Made(r, d) : /\ s[1] \in Groups(r)
                            /\ OutOf(r, d, s) \in Packet(r, s[1], d).outs
                            /\ ActiveLabel(r, d, s)
                                 = label(Packet(r, s[1], d), OutOf(r, d, s))
  <2> TAKE s \in Made(r, d)
  <2>1. s[1] \in Groups(r)
    BY <1>3, SlotsFit DEF Made
  <2>2. OutOf(r, d, s).for = For(r, s)
    BY DEF OutOf
  <2> QED
    BY <2>1, <2>2, OutsOfPacket DEF Packet, ActiveLabel, ActiveAt
<1>5. \A g \in Groups(r) : \A out \in Packet(r, g, d).outs :
         \E s \in Made(r, d) : s[1] = g /\ out = OutOf(r, d, s)
  BY OutsOfPacket DEF Packet
<1>6. active = made
  <2>1. ASSUME NEW l \in active
        PROVE  l \in made
    <3> HIDE DEF label
    <3>1. PICK g \in Groups(r) : \E out \in Packet(r, g, d).outs :
             l = label(Packet(r, g, d), out)
      BY <1>3
    <3>2. PICK out \in Packet(r, g, d).outs : l = label(Packet(r, g, d), out)
      BY <3>1
    <3>3. PICK s \in Made(r, d) : s[1] = g /\ out = OutOf(r, d, s)
      BY <1>5, <3>2
    <3>4. l = ActiveLabel(r, d, s)
      BY <1>4, <3>2, <3>3
    <3> QED
      BY <3>4
  <2>2. ASSUME NEW s \in Made(r, d)
        PROVE  ActiveLabel(r, d, s) \in active
    BY <1>3, <1>4
  <2> QED
    BY <2>1, <2>2
<1>7. IsFiniteSet(made)
  <2> DEFINE f == [s \in Made(r, d) |-> ActiveLabel(r, d, s)]
  <2>1. IsFiniteSet(Made(r, d))
    BY MadeIsFinite
  <2>2. made = {f[s] : s \in Made(r, d)}
    OBVIOUS
  <2> HIDE DEF f
  <2> QED
    BY <2>1, <2>2, FiniteImage
<1>8. IsFiniteSet(passive)
  <2> DEFINE J == DOMAIN r.passive.packets
             f == [j \in J |-> PassiveLabel(r.passive.packets[j])]
  <2>1. IsFiniteSet(J)
    BY <1>3, BuilderAssumption, SequenceDomain DEF IsRequest
  <2>2. passive = {f[j] : j \in J}
    BY DEF ToSet
  <2> HIDE DEF f, J
  <2> QED
    BY <2>1, <2>2, FiniteImage
<1>9. VirtualOutputs(r, p) = {l.out : l \in active \cup passive}
  <2>1. VirtualOutputs(r, p)
          = (UNION {{ActiveOutput(r, q, out) : out \in q.outs} : q \in ps})
              \cup {PassiveOutput(q) : q \in ToSet(r.passive.packets)}
    <3> DEFINE ActiveOf(qs) == UNION {{ActiveOutput(r, q, out) : out \in q.outs} : q \in qs}
               PassiveOf(qs) == {PassiveOutput(q) : q \in ToSet(qs)}
    <3>1. VirtualOutputs(r, p) = ActiveOf(p.packets) \cup PassiveOf(p.passive)
      BY Zenon DEF VirtualOutputs
    <3> HIDE DEF p, ActiveOf, PassiveOf
    <3>2. VirtualOutputs(r, p) = ActiveOf(ps) \cup PassiveOf(r.passive.packets)
      BY <1>1, <3>1
    <3> QED
      BY <3>2 DEF ActiveOf, PassiveOf
  <2>2. \A q, out : label(q, out).out = ActiveOutput(r, q, out)
    OBVIOUS
  <2>3. \A q : PassiveLabel(q).out = PassiveOutput(q)
    BY DEF PassiveLabel
  <2> HIDE DEF label, p
  <2>4. {l.out : l \in active}
          = UNION {{ActiveOutput(r, q, out) : out \in q.outs} : q \in ps}
    BY <2>2
  <2>5. {l.out : l \in passive} = {PassiveOutput(q) : q \in ToSet(r.passive.packets)}
    BY <2>3
  <2> HIDE DEF active, passive
  <2>6. {l.out : l \in active \cup passive}
          = {l.out : l \in active} \cup {l.out : l \in passive}
    OBVIOUS
  <2> QED
    BY <2>1, <2>4, <2>5, <2>6
<1> HIDE DEF p, active, made, passive
<1>10. /\ Labelled(r, p) = made \cup passive
       /\ IsFiniteSet(Labelled(r, p))
       /\ VirtualOutputs(r, p) = {l.out : l \in Labelled(r, p)}
  BY <1>2, <1>6, <1>7, <1>8, <1>9, FS_Union
<1> QED
  BY <1>10 DEF p, made, passive

\* Two labels of a plan are for different virtual outputs.
LEMMA OutputsDiffer ==
  ASSUME NEW r, NEW ps, NEW d, Distributed(r, ps, d)
  PROVE  /\ \A s, t \in Made(r, d) : ActiveAt(r, d, s) = ActiveAt(r, d, t) => s = t
         /\ \A i, j \in DOMAIN r.passive.packets :
               PassiveOutput(r.passive.packets[i]) = PassiveOutput(r.passive.packets[j])
                  => i = j
         /\ \A s, q : ActiveAt(r, d, s) # PassiveOutput(q)
<1>1. r \in Requests /\ OutputsResolve(r) /\ Valid(r)
  BY DEF Distributed, Planned
<1>2. \A s : /\ ActiveAt(r, d, s).packet = <<s[1][1], s[1][2]>>
             /\ ActiveAt(r, d, s).index = r.outputs[s[2]].index
             /\ ActiveAt(r, d, s).role = "active"
  BY DEF ActiveAt, ActiveOutput, Packet, OutOf
<1>3. \A q : PassiveOutput(q).packet = <<q.ref, q.id>> /\ PassiveOutput(q).role = "passive"
  BY DEF PassiveOutput
<1>4. ASSUME NEW s \in Made(r, d), NEW t \in Made(r, d),
             ActiveAt(r, d, s) = ActiveAt(r, d, t)
      PROVE  s = t
  <2>1. /\ s = <<s[1], s[2]>> /\ s[1] = <<s[1][1], s[1][2]>>
        /\ t = <<t[1], t[2]>> /\ t[1] = <<t[1][1], t[1][2]>>
        /\ s[2] \in DOMAIN r.outputs /\ t[2] \in DOMAIN r.outputs
        /\ r.outputs[s[2]].ref = s[1][1] /\ r.outputs[t[2]].ref = t[1][1]
    BY <1>1, SlotsFit DEF Made
  <2>2. s[1][1] = t[1][1] /\ s[1][2] = t[1][2]
    <3>1. <<s[1][1], s[1][2]>> = <<t[1][1], t[1][2]>>
      BY <1>2, <1>4
    <3> QED
      BY <3>1
  <2>3. r.outputs[s[2]].index = r.outputs[t[2]].index
    BY <1>2, <1>4
  <2>4. s[2] = t[2]
    BY <1>1, <2>1, <2>2, <2>3, OutputsAreApart
  <2> QED
    BY <2>1, <2>2, <2>4
<1>5. ASSUME NEW i \in DOMAIN r.passive.packets, NEW j \in DOMAIN r.passive.packets,
             PassiveOutput(r.passive.packets[i]) = PassiveOutput(r.passive.packets[j])
      PROVE  i = j
  <2>1. r.passive.packets[i].id = r.passive.packets[j].id
    BY <1>3, <1>5
  <2>2. IsInjective(IDs(r.passive.packets))
    <3>1. r.passive.packets # <<>>
      BY <1>5
    <3> QED
      BY <1>1, <3>1 DEF Valid, PassiveValid
  <2> QED
    BY <2>1, <2>2 DEF IsInjective, IDs
<1> QED
  BY <1>2, <1>3, <1>4, <1>5

\* Each proof update is checked with the output summary of its place.
LEMMA UpdatesAgree ==
  ASSUME NEW k, SemanticMappingsValid(k)
  PROVE  /\ \A u \in ToSet(k.updates) :
               \E e \in k.virtual.outputs, s \in ToSet(k.outputs) :
                  OutputMapped(k, e, s) /\ UpdateMapped(k, e, s, u)
         /\ \A s \in ToSet(k.outputs) :
               \E e \in k.virtual.outputs, u \in ToSet(k.updates) :
                  OutputMapped(k, e, s) /\ UpdateMapped(k, e, s, u)
<1> DEFINE keys == {OutputKey(e.out) : e \in k.virtual.outputs}
           of(list, key) == list[CHOOSE i \in At(list, key) : TRUE]
<1>1. /\ ExactMapping(k.outputs, keys) /\ ExactMapping(k.updates, keys)
      /\ \A e \in k.virtual.outputs :
            /\ OutputMapped(k, e, of(k.outputs, OutputKey(e.out)))
            /\ UpdateMapped(k, e, of(k.outputs, OutputKey(e.out)),
                            of(k.updates, OutputKey(e.out)))
  BY DEF SemanticMappingsValid
<1> HIDE DEF of, keys
<1>2. ASSUME NEW list, ExactMapping(list, keys), NEW v \in ToSet(list)
      PROVE  \E e \in k.virtual.outputs : v = of(list, OutputKey(e.out))
  <2>1. PICK i \in DOMAIN list : v = list[i]
    BY <1>2 DEF ToSet
  <2>2. v.at \in keys /\ of(list, v.at) = v
    BY <1>2, <2>1, MappedEntry DEF of
  <2> QED
    BY <2>2 DEF keys
<1>3. ASSUME NEW list, ExactMapping(list, keys), NEW e \in k.virtual.outputs
      PROVE  of(list, OutputKey(e.out)) \in ToSet(list)
  <2>1. PICK i \in DOMAIN list : list[i].at = OutputKey(e.out)
    BY <1>3 DEF ExactMapping, keys
  <2>2. of(list, OutputKey(e.out)) = list[i]
    BY <1>3, <2>1, MappedEntry DEF of
  <2> QED
    BY <2>1, <2>2 DEF ToSet
<1>4. ASSUME NEW u \in ToSet(k.updates)
      PROVE  \E e \in k.virtual.outputs, s \in ToSet(k.outputs) :
                OutputMapped(k, e, s) /\ UpdateMapped(k, e, s, u)
  <2>1. PICK e \in k.virtual.outputs : u = of(k.updates, OutputKey(e.out))
    BY <1>1, <1>2
  <2> QED
    BY <1>1, <1>3, <2>1
<1>5. ASSUME NEW s \in ToSet(k.outputs)
      PROVE  \E e \in k.virtual.outputs, u \in ToSet(k.updates) :
                OutputMapped(k, e, s) /\ UpdateMapped(k, e, s, u)
  <2>1. PICK e \in k.virtual.outputs : s = of(k.outputs, OutputKey(e.out))
    BY <1>1, <1>2
  <2> QED
    BY <1>1, <1>3, <2>1
<1> QED
  BY <1>4, <1>5

\* The package k is the one Commit derives from an answer, or an edit of it:
\* the packets are the committed ones, and one of the lists is the derived one.
Sealed(r, p, answer, k) ==
    /\ SemanticMappingsValid(k)
    /\ k.anchor = answer.anchor /\ k.virtual = answer.virtual
    /\ PacketsKept(r, p, answer.anchor, answer.virtual)
    /\ {e.out : e \in k.virtual.outputs} = VirtualOutputs(r, p)
    /\ \/ k.updates = PackageOf(r, p, answer).updates
       \/ k.outputs = PackageOf(r, p, answer).outputs

LEMMA PackagesAreSealed ==
  ASSUME AnswerInv, package # None
  PROVE  Sealed(request, plan, sealed, package)
<1>1. /\ Accepted /\ SemanticMappingsValid(package)
      /\ package.anchor = sealed.anchor /\ package.virtual = sealed.virtual
      /\ {e.out : e \in package.virtual.outputs} = VirtualOutputs(request, plan)
  BY PackagesKeepPackets DEF StructureValid
<1>2. \/ package.updates = PackageOf(request, plan, sealed).updates
      \/ package.outputs = PackageOf(request, plan, sealed).outputs
  BY DEF AnswerInv, PackageSealed, OnePartEdited, Parts, PackageOf
<1> QED
  BY <1>1, <1>2 DEF Sealed, Accepted

\* Which proof goes to whom is what the plan says, whichever list was edited.
LEMMA Deliveries ==
  ASSUME NEW r, NEW ps, NEW d, Distributed(r, ps, d), NEW answer, NEW k,
         Sealed(r, Plan(r, ps), answer, k)
  PROVE  /\ \A u \in ToSet(k.updates) : \E l \in Labelled(r, Plan(r, ps)) :
               u.proof = Suffix(k.anchor, l.out) /\ u.recipient = l.recipient
         /\ \A l \in Labelled(r, Plan(r, ps)) : \E u \in ToSet(k.updates) :
               u.proof = Suffix(k.anchor, l.out) /\ u.recipient = l.recipient
<1> DEFINE p == PackageOf(r, Plan(r, ps), answer)
           labels == Labelled(r, Plan(r, ps))
<1>1. /\ SemanticMappingsValid(k) /\ k.anchor = answer.anchor
      /\ k.virtual = answer.virtual
      /\ {e.out : e \in k.virtual.outputs} = VirtualOutputs(r, Plan(r, ps))
  BY DEF Sealed
<1>2. k.updates = p.updates \/ k.outputs = p.outputs
  BY DEF Sealed
<1>3. IsFiniteSet(labels) /\ VirtualOutputs(r, Plan(r, ps)) = {l.out : l \in labels}
  BY LabelsOfPlan
<1>4. \A e \in answer.virtual.outputs : e.suffix = Suffix(answer.anchor, e.out)
  BY DEF Sealed, PacketsKept
<1>5. CASE k.updates = p.updates
  <2> DEFINE proof(l) == (CHOOSE e \in answer.virtual.outputs : e.out = l.out).suffix
             update(l) == [at |-> OutputKey(l.out), id |-> l.id, ref |-> l.ref,
                           index |-> l.out.index, key |-> l.out.key,
                           recipient |-> l.recipient, tx |-> TxID(answer.anchor),
                           proof |-> proof(l)]
  <2>1. k.updates = SetToSeq({update(l) : l \in labels})
    BY <1>5 DEF PackageOf, ProofUpdates
  <2>2. \A l \in labels : proof(l) = Suffix(answer.anchor, l.out)
    <3> TAKE l \in labels
    <3>1. \E e \in answer.virtual.outputs : e.out = l.out
      BY <1>1, <1>3
    <3> QED
      BY <1>4, <3>1
  <2>3. \A l : update(l).proof = proof(l) /\ update(l).recipient = l.recipient
    OBVIOUS
  <2> HIDE DEF update, proof, p, labels
  <2>4. IsFiniteSet({update(l) : l \in labels})
    <3> DEFINE f == [l \in labels |-> update(l)]
               all == {update(l) : l \in labels}
    <3>1. all = {f[l] : l \in labels}
      OBVIOUS
    <3> HIDE DEF f, all
    <3>2. IsFiniteSet(all)
      BY <1>3, <3>1, FiniteImage
    <3> QED
      BY <3>2 DEF all
  <2>5. ToSet(k.updates) = {update(l) : l \in labels}
    BY <2>1, <2>4, SequenceOfSet
  <2> QED
    BY <1>1, <2>2, <2>3, <2>5 DEF labels
<1>6. CASE k.outputs = p.outputs
  <2> DEFINE roots(l) == OutputRoots({e.out : e \in answer.virtual.outputs}, l.out.index)
             summary(l) == [at |-> OutputKey(l.out), id |-> l.id, ref |-> l.ref,
                            out |-> l.out, script |-> l.script, recipient |-> l.recipient,
                            tx |-> TxID(answer.anchor),
                            value |-> answer.anchor.outputs[l.out.index].value,
                            roots |-> roots(l)]
  <2>1. k.outputs = SetToSeq({summary(l) : l \in labels})
    BY <1>6 DEF PackageOf, OutputSummaries
  <2>2. \A l : summary(l).out = l.out /\ summary(l).recipient = l.recipient
    OBVIOUS
  <2>3. \A e, s, u : OutputMapped(k, e, s) /\ UpdateMapped(k, e, s, u) =>
           u.proof = Suffix(k.anchor, s.out) /\ u.recipient = s.recipient
    BY DEF OutputMapped, UpdateMapped
  <2> HIDE DEF summary, roots, p, labels
  <2>4. IsFiniteSet({summary(l) : l \in labels})
    <3> DEFINE f == [l \in labels |-> summary(l)]
               all == {summary(l) : l \in labels}
    <3>1. all = {f[l] : l \in labels}
      OBVIOUS
    <3> HIDE DEF f, all
    <3>2. IsFiniteSet(all)
      BY <1>3, <3>1, FiniteImage
    <3> QED
      BY <3>2 DEF all
  <2>5. ToSet(k.outputs) = {summary(l) : l \in labels}
    BY <2>1, <2>4, SequenceOfSet
  <2>6. ASSUME NEW u \in ToSet(k.updates)
        PROVE  \E l \in labels : u.proof = Suffix(k.anchor, l.out) /\ u.recipient = l.recipient
    <3>1. PICK s \in ToSet(k.outputs) :
             u.proof = Suffix(k.anchor, s.out) /\ u.recipient = s.recipient
      BY <1>1, <2>3, UpdatesAgree
    <3> QED
      BY <2>2, <2>5, <3>1
  <2>7. ASSUME NEW l \in labels
        PROVE  \E u \in ToSet(k.updates) :
                  u.proof = Suffix(k.anchor, l.out) /\ u.recipient = l.recipient
    <3>1. summary(l) \in ToSet(k.outputs)
      BY <2>5
    <3>2. PICK u \in ToSet(k.updates) :
             /\ u.proof = Suffix(k.anchor, summary(l).out)
             /\ u.recipient = summary(l).recipient
      BY <1>1, <2>3, <3>1, UpdatesAgree
    <3> QED
      BY <2>2, <3>2
  <2> QED
    BY <2>6, <2>7 DEF labels
<1> QED
  BY <1>2, <1>5, <1>6

-----------------------------------------------------------------------------
(* What proofs are worth *)

WorthOf(proofs) == SumFunction([p \in proofs |-> p.out.amount])

ActiveProof(r, d, a, s) == Suffix(a, ActiveAt(r, d, s))

PassiveProof(r, a, j) == Suffix(a, PassiveOutput(r.passive.packets[j]))

\* Proofs of active and passive outputs are worth what these outputs are.
LEMMA ProofsAreWorth ==
  ASSUME NEW r, NEW ps, NEW d, Distributed(r, ps, d), NEW a,
         NEW T \in SUBSET Made(r, d), NEW J \in SUBSET DOMAIN r.passive.packets
  PROVE  WorthOf({ActiveProof(r, d, a, s) : s \in T} \cup {PassiveProof(r, a, j) : j \in J})
           = Sum(d, T) + Sum([j \in J |-> r.passive.packets[j].output.amount], J)
<1> DEFINE act == [s \in T |-> ActiveProof(r, d, a, s)]
           pas == [j \in J |-> PassiveProof(r, a, j)]
           A == {act[s] : s \in T}
           P == {pas[j] : j \in J}
           h == [p \in A \cup P |-> p.out.amount]
           kept == [j \in J |-> r.passive.packets[j].output.amount]
<1>1. IsFiniteSet(T) /\ \A s \in T : d[s] \in Int
  BY MadeIsFinite
<1>2. IsFiniteSet(J) /\ \A j \in J : kept[j] \in Int
  <2>1. r \in Requests /\ Planned(r, ps)
    BY DEF Distributed, Planned
  <2>2. IsFiniteSet(DOMAIN r.passive.packets)
    BY <2>1, BuilderAssumption, SequenceDomain DEF IsRequest
  <2>3. ASSUME NEW j \in J
        PROVE  r.passive.packets[j].output.amount \in Int
    <3>1. Reanchors(r, ps, r.passive.packets[j])
      BY <2>1, PassivePacketsFit
    <3> QED
      BY <3>1, BuilderAssumption DEF Reanchors, ProofVerified
  <2> QED
    BY <2>2, <2>3, FS_Subset
<1>3. \A out : Suffix(a, out).out = out
  BY DEF Suffix
<1>4. /\ \A s \in T : act[s].out = ActiveAt(r, d, s)
      /\ \A j \in J : pas[j].out = PassiveOutput(r.passive.packets[j])
  BY <1>3 DEF ActiveProof, PassiveProof
<1>5. /\ \A s, t \in T : act[s] = act[t] => s = t
      /\ \A i, j \in J : pas[i] = pas[j] => i = j
      /\ A \cap P = {}
  <2>1. \A s, t \in T : act[s] = act[t] => s = t
    BY <1>4, OutputsDiffer
  <2>2. \A i, j \in J : pas[i] = pas[j] => i = j
    BY <1>4, OutputsDiffer
  <2>3. \A s \in T, j \in J : act[s] # pas[j]
    BY <1>4, OutputsDiffer
  <2> HIDE DEF act, pas
  <2> QED
    BY <2>1, <2>2, <2>3
<1>6. /\ \A s \in T : h[act[s]] = d[s]
      /\ \A j \in J : h[pas[j]] = kept[j]
  <2>1. \A s : ActiveAt(r, d, s).amount = d[s]
    BY DEF ActiveAt, ActiveOutput, OutOf
  <2>2. \A q : PassiveOutput(q).amount = q.output.amount
    BY DEF PassiveOutput
  <2>3. (\A s \in T : act[s] \in A) /\ (\A j \in J : pas[j] \in P)
    OBVIOUS
  <2> HIDE DEF act, pas, A, P
  <2> QED
    BY <1>4, <2>1, <2>2, <2>3
<1>7. Sum(h, A) = Sum(d, T)
  <2>1. act \in [T -> A] /\ \A p \in A : \E s \in T : act[s] = p
    OBVIOUS
  <2> HIDE DEF act, A, h
  <2> QED
    BY <1>1, <1>5, <1>6, <2>1, SumReindex
<1>8. Sum(h, P) = Sum(kept, J)
  <2>1. pas \in [J -> P] /\ \A p \in P : \E j \in J : pas[j] = p
    OBVIOUS
  <2> HIDE DEF pas, P, h, kept
  <2> QED
    BY <1>2, <1>5, <1>6, <2>1, SumReindex
<1>9. IsFiniteSet(A) /\ IsFiniteSet(P)
  <2> HIDE DEF act, pas
  <2> QED
    BY <1>1, <1>2, FiniteImage
<1>10. \A p \in A \cup P : h[p] \in Int
  <2> HIDE DEF act, pas, h, kept
  <2> QED
    BY <1>1, <1>2, <1>6
<1>11. Sum(h, A \cup P) = Sum(h, A) + Sum(h, P)
  <2> HIDE DEF A, P, h
  <2> QED
    BY <1>5, <1>9, <1>10, SumUnion
<1>12. /\ A = {ActiveProof(r, d, a, s) : s \in T}
       /\ P = {PassiveProof(r, a, j) : j \in J}
       /\ WorthOf(A \cup P) = SumFunction(h) /\ DOMAIN h = A \cup P
  BY DEF WorthOf
<1> HIDE DEF A, P, h, act, pas, kept
<1>13. WorthOf(A \cup P) = Sum(d, T) + Sum(kept, J)
  BY <1>7, <1>8, <1>11, <1>12, SumFunctionIsSum
<1> QED
  BY <1>12, <1>13 DEF kept

ProofsTo(k, id) == {u.proof : u \in {u \in ToSet(k.updates) : u.recipient = id}}

ProofsOf(k, x) == {u.proof : u \in {u \in ToSet(k.updates) : u.proof.out.issuance = x}}

\* The proofs a package hands out, by the slot or passive packet they are for.
AtTheirPlaces(r, d, k) ==
    /\ \A u \in ToSet(k.updates) :
          \/ \E s \in Made(r, d) : /\ u.proof = ActiveProof(r, d, k.anchor, s)
                                   /\ u.recipient = r.outputs[s[2]].id
          \/ \E j \in DOMAIN r.passive.packets :
                u.proof = PassiveProof(r, k.anchor, j) /\ u.recipient = ""
    /\ \A s \in Made(r, d) : \E u \in ToSet(k.updates) :
          /\ u.proof = ActiveProof(r, d, k.anchor, s)
          /\ u.recipient = r.outputs[s[2]].id
    /\ \A j \in DOMAIN r.passive.packets : \E u \in ToSet(k.updates) :
          u.proof = PassiveProof(r, k.anchor, j) /\ u.recipient = ""

LEMMA ProofsByPlace ==
  ASSUME NEW r, NEW ps, NEW d, Distributed(r, ps, d), NEW answer, NEW k,
         Sealed(r, Plan(r, ps), answer, k)
  PROVE  AtTheirPlaces(r, d, k)
<1> DEFINE made == {ActiveLabel(r, d, s) : s \in Made(r, d)}
           passive == {PassiveLabel(q) : q \in ToSet(r.passive.packets)}
<1>1. Labelled(r, Plan(r, ps)) = made \cup passive
  BY LabelsOfPlan
<1>2. /\ \A u \in ToSet(k.updates) : \E l \in made \cup passive :
            u.proof = Suffix(k.anchor, l.out) /\ u.recipient = l.recipient
      /\ \A l \in made \cup passive : \E u \in ToSet(k.updates) :
            u.proof = Suffix(k.anchor, l.out) /\ u.recipient = l.recipient
  BY <1>1, Deliveries
<1>3. ASSUME NEW s \in Made(r, d)
      PROVE  /\ ActiveLabel(r, d, s) \in made
             /\ Suffix(k.anchor, ActiveLabel(r, d, s).out) = ActiveProof(r, d, k.anchor, s)
             /\ ActiveLabel(r, d, s).recipient = r.outputs[s[2]].id
  <2>1. For(r, s) = s[2]
    BY LabelsAreTrue
  <2> QED
    BY <2>1 DEF ActiveLabel, ActiveProof
<1>4. ASSUME NEW j \in DOMAIN r.passive.packets
      PROVE  /\ PassiveLabel(r.passive.packets[j]) \in passive
             /\ Suffix(k.anchor, PassiveLabel(r.passive.packets[j]).out)
                  = PassiveProof(r, k.anchor, j)
             /\ PassiveLabel(r.passive.packets[j]).recipient = ""
  BY DEF PassiveLabel, PassiveProof, ToSet
<1>5. /\ \A l \in made : \E s \in Made(r, d) : l = ActiveLabel(r, d, s)
      /\ \A l \in passive : \E j \in DOMAIN r.passive.packets :
            l = PassiveLabel(r.passive.packets[j])
  BY DEF ToSet
<1> HIDE DEF made, passive
<1>6. ASSUME NEW u \in ToSet(k.updates)
      PROVE  \/ \E s \in Made(r, d) : /\ u.proof = ActiveProof(r, d, k.anchor, s)
                                      /\ u.recipient = r.outputs[s[2]].id
             \/ \E j \in DOMAIN r.passive.packets :
                   u.proof = PassiveProof(r, k.anchor, j) /\ u.recipient = ""
  <2>1. PICK l \in made \cup passive :
           u.proof = Suffix(k.anchor, l.out) /\ u.recipient = l.recipient
    BY <1>2
  <2>2. CASE l \in made
    <3>1. PICK s \in Made(r, d) : l = ActiveLabel(r, d, s)
      BY <1>5, <2>2
    <3> QED
      BY <1>3, <2>1, <3>1
  <2>3. CASE l \in passive
    <3>1. PICK j \in DOMAIN r.passive.packets : l = PassiveLabel(r.passive.packets[j])
      BY <1>5, <2>3
    <3> QED
      BY <1>4, <2>1, <3>1
  <2> QED
    BY <2>1, <2>2, <2>3
<1>7. ASSUME NEW s \in Made(r, d)
      PROVE  \E u \in ToSet(k.updates) : /\ u.proof = ActiveProof(r, d, k.anchor, s)
                                         /\ u.recipient = r.outputs[s[2]].id
  BY <1>2, <1>3
<1>8. ASSUME NEW j \in DOMAIN r.passive.packets
      PROVE  \E u \in ToSet(k.updates) :
                u.proof = PassiveProof(r, k.anchor, j) /\ u.recipient = ""
  <2>1. PassiveLabel(r.passive.packets[j]) \in made \cup passive
    BY <1>4
  <2>2. PICK u \in ToSet(k.updates) :
           /\ u.proof = Suffix(k.anchor, PassiveLabel(r.passive.packets[j]).out)
           /\ u.recipient = PassiveLabel(r.passive.packets[j]).recipient
    BY <1>2, <2>1
  <2> QED
    BY <1>4, <2>2
<1> QED
  BY <1>6, <1>7, <1>8 DEF AtTheirPlaces

LEMMA RecipientsArePaid ==
  ASSUME NEW r, NEW ps, NEW d, Distributed(r, ps, d), NEW answer, NEW k,
         Sealed(r, Plan(r, ps), answer, k), NEW o \in DOMAIN r.outputs
  PROVE  WorthOf(ProofsTo(k, r.outputs[o].id)) = r.outputs[o].amount
<1> DEFINE T == {s \in Made(r, d) : s[2] = o}
           J == {}
           a == k.anchor
           kept == [j \in J |-> r.passive.packets[j].output.amount]
<1>1. r \in Requests /\ Valid(r)
  BY DEF Distributed, Planned
<1>2. /\ r.outputs[o].id # ""
      /\ \A c \in DOMAIN r.outputs : r.outputs[c].id = r.outputs[o].id => c = o
  BY <1>1 DEF Valid, OutputValid, ToSet, IDs, IsInjective
<1>3. \A s \in Made(r, d) : s[2] \in DOMAIN r.outputs
  BY <1>1, SlotsFit DEF Made
<1>4. AtTheirPlaces(r, d, k)
  BY ProofsByPlace
<1>5. ProofsTo(k, r.outputs[o].id) = {ActiveProof(r, d, a, s) : s \in T}
  <2>1. ASSUME NEW u \in ToSet(k.updates), u.recipient = r.outputs[o].id
        PROVE  \E s \in T : u.proof = ActiveProof(r, d, a, s)
    <3>1. PICK s \in Made(r, d) : /\ u.proof = ActiveProof(r, d, k.anchor, s)
                                  /\ u.recipient = r.outputs[s[2]].id
      BY <1>2, <1>4, <2>1 DEF AtTheirPlaces
    <3>2. s[2] = o
      BY <1>2, <1>3, <2>1, <3>1
    <3> QED
      BY <3>1, <3>2
  <2>2. ASSUME NEW s \in T
        PROVE  \E u \in ToSet(k.updates) :
                  u.recipient = r.outputs[o].id /\ u.proof = ActiveProof(r, d, a, s)
    <3>1. s \in Made(r, d) /\ s[2] = o
      OBVIOUS
    <3>2. PICK u \in ToSet(k.updates) : /\ u.proof = ActiveProof(r, d, k.anchor, s)
                                        /\ u.recipient = r.outputs[s[2]].id
      BY <1>4, <3>1 DEF AtTheirPlaces
    <3> QED
      BY <3>1, <3>2
  <2> HIDE DEF T
  <2> QED
    BY <2>1, <2>2 DEF ProofsTo
<1>6. Sum(d, T) = r.outputs[o].amount
  BY MadeForOutput
<1>7. Sum(kept, J) = 0
  BY SumEmpty
<1>8. T \in SUBSET Made(r, d) /\ J \in SUBSET DOMAIN r.passive.packets
  OBVIOUS
<1>9. WorthOf({ActiveProof(r, d, a, s) : s \in T} \cup {PassiveProof(r, a, j) : j \in J})
        = Sum(d, T) + Sum(kept, J)
  <2> HIDE DEF T, J
  <2> QED
    BY <1>8, ProofsAreWorth, SMTT(30)
<1>10. ProofsTo(k, r.outputs[o].id)
        = {ActiveProof(r, d, a, s) : s \in T} \cup {PassiveProof(r, a, j) : j \in J}
  BY <1>5
<1>11. r.outputs[o].amount \in Nat
  BY <1>1, RequestLists
<1> HIDE DEF T, J, kept
<1> QED
  BY <1>6, <1>7, <1>9, <1>10, <1>11

\* The active packets of an issuance pay what was distributed of it.
LEMMA IssuanceMade ==
  ASSUME NEW r, NEW ps, NEW d, Distributed(r, ps, d), NEW x
  PROVE  OutTotal(ActiveIn(ps, x), AllOuts(ActiveIn(ps, x)))
           = Sum(d, {s \in Made(r, d) : s[1][2] = x})
<1> DEFINE GG == {g \in Groups(r) : g[2] = x}
           active == {Packet(r, g, d) : g \in GG}
           paid == {s \in Made(r, d) : s[1] \in GG}
<1>1. GG \in SUBSET Groups(r)
  OBVIOUS
<1>2. {s \in Made(r, d) : s[1] \in GG /\ OutOf(r, d, s) \in AllOuts(active)} = paid
  <2>1. \A s \in Made(r, d) : s[1] \in GG => OutOf(r, d, s) \in AllOuts(active)
    <3> HIDE DEF GG
    <3> QED
      BY <1>1, SlotsAreOuts
  <2> QED
    BY <2>1
<1>3. \A X : OutTotal(active, X)
               = Sum(d, {s \in Made(r, d) : s[1] \in GG /\ OutOf(r, d, s) \in X})
  <2> HIDE DEF GG
  <2> QED
    BY <1>1, AllOutsTotal
<1>4. OutTotal(active, AllOuts(active)) = Sum(d, paid)
  <2> HIDE DEF active, GG, paid
  <2> QED
    BY <1>2, <1>3
<1>5. ActiveIn(ps, x) = active
  BY PacketsOf DEF ActiveIn
<1>6. paid = {s \in Made(r, d) : s[1][2] = x}
  BY SlotsAreOuts
<1> HIDE DEF active, paid
<1> QED
  BY <1>4, <1>5, <1>6

\* All proofs of an issuance are worth the coins of it that the plan spends.
LEMMA IssuanceIsProven ==
  ASSUME NEW r, NEW ps, NEW d, Distributed(r, ps, d), NEW answer, NEW k,
         Sealed(r, Plan(r, ps), answer, k), NEW x
  PROVE  WorthOf(ProofsOf(k, x)) = SumFunction([c \in ConsumedIn(r, ps, x) |-> c.amount])
<1> DEFINE T == {s \in Made(r, d) : s[1][2] = x}
           J == PassiveIn(r.passive.packets, x)
           a == k.anchor
           kept == [j \in J |-> r.passive.packets[j].output.amount]
           all == {ActiveProof(r, d, a, s) : s \in T} \cup {PassiveProof(r, a, j) : j \in J}
<1>1. /\ \A s : ActiveProof(r, d, a, s).out.issuance = s[1][2]
      /\ \A j : PassiveProof(r, a, j).out.issuance = r.passive.packets[j].output.issuance
  BY DEF ActiveProof, PassiveProof, Suffix, ActiveAt, ActiveOutput, PassiveOutput, Packet
<1>2. AtTheirPlaces(r, d, k)
  BY ProofsByPlace
<1>3. ProofsOf(k, x) = all
  <2>1. ASSUME NEW u \in ToSet(k.updates), u.proof.out.issuance = x
        PROVE  u.proof \in all
    <3>1. CASE \E s \in Made(r, d) : u.proof = ActiveProof(r, d, a, s)
      BY <1>1, <2>1, <3>1
    <3>2. CASE \E j \in DOMAIN r.passive.packets : u.proof = PassiveProof(r, a, j)
      BY <1>1, <2>1, <3>2 DEF PassiveIn
    <3> QED
      BY <1>2, <3>1, <3>2 DEF AtTheirPlaces
  <2>2. ASSUME NEW p \in all
        PROVE  \E u \in ToSet(k.updates) : u.proof = p /\ u.proof.out.issuance = x
    <3>1. CASE \E s \in T : p = ActiveProof(r, d, a, s)
      BY <1>1, <1>2, <3>1 DEF AtTheirPlaces
    <3>2. CASE \E j \in J : p = PassiveProof(r, a, j)
      BY <1>1, <1>2, <3>2 DEF AtTheirPlaces, PassiveIn
    <3> QED
      BY <3>1, <3>2
  <2> HIDE DEF all
  <2> QED
    BY <2>1, <2>2 DEF ProofsOf
<1>4. WorthOf(all) = Sum(d, T) + Sum(kept, J)
  <2>1. T \in SUBSET Made(r, d) /\ J \in SUBSET DOMAIN r.passive.packets
    BY DEF PassiveIn
  <2> HIDE DEF T, J
  <2> QED
    BY <2>1, ProofsAreWorth
<1>5. OutTotal(ActiveIn(ps, x), AllOuts(ActiveIn(ps, x))) = Sum(d, T)
  BY IssuanceMade
<1>6. SumFunction(kept) = Sum(kept, J)
  <2>1. DOMAIN kept = J
    OBVIOUS
  <2> HIDE DEF kept, J
  <2> QED
    BY <2>1, SumFunctionIsSum
<1>7. SumFunction([c \in ConsumedIn(r, ps, x) |-> c.amount])
        = OutTotal(ActiveIn(ps, x), AllOuts(ActiveIn(ps, x))) + SumFunction(kept)
  <2>1. Conserved(r, ps, r.passive.packets, x)
    BY PlanConserves
  <2> QED
    BY <2>1, Zenon DEF Conserved
<1> HIDE DEF T, kept, all
<1> QED
  BY <1>3, <1>4, <1>5, <1>6, <1>7

-----------------------------------------------------------------------------
(* The inputs whose proofs a package keeps *)

LEMMA InputsAgree ==
  ASSUME NEW k, SemanticMappingsValid(k)
  PROVE  /\ \A i \in DOMAIN k.inputs : \E in \in k.virtual.inputs :
               InputMapped(k, in, k.inputs[i]) /\ k.inputs[i].at = InputKey(in)
         /\ \A in \in k.virtual.inputs : \E i \in DOMAIN k.inputs :
               InputMapped(k, in, k.inputs[i]) /\ k.inputs[i].at = InputKey(in)
         /\ \A i, j \in DOMAIN k.inputs : k.inputs[i].at = k.inputs[j].at => i = j
<1> DEFINE keys == {InputKey(in) : in \in k.virtual.inputs}
           of(key) == k.inputs[CHOOSE i \in At(k.inputs, key) : TRUE]
<1>1. /\ ExactMapping(k.inputs, keys)
      /\ \A in \in k.virtual.inputs : InputMapped(k, in, of(InputKey(in)))
  BY DEF SemanticMappingsValid
<1>2. \A i \in DOMAIN k.inputs : k.inputs[i].at \in keys /\ of(k.inputs[i].at) = k.inputs[i]
  BY <1>1, MappedEntry
<1> HIDE DEF of
<1>3. ASSUME NEW i \in DOMAIN k.inputs
      PROVE  \E in \in k.virtual.inputs :
                InputMapped(k, in, k.inputs[i]) /\ k.inputs[i].at = InputKey(in)
  BY <1>1, <1>2
<1>4. ASSUME NEW in \in k.virtual.inputs
      PROVE  \E i \in DOMAIN k.inputs :
                InputMapped(k, in, k.inputs[i]) /\ k.inputs[i].at = InputKey(in)
  <2>1. PICK i \in DOMAIN k.inputs : k.inputs[i].at = InputKey(in)
    BY <1>1 DEF ExactMapping
  <2> QED
    BY <1>1, <1>2, <2>1
<1>5. \A i, j \in DOMAIN k.inputs : k.inputs[i].at = k.inputs[j].at => i = j
  BY <1>1 DEF ExactMapping, IsInjective
<1> QED
  BY <1>3, <1>4, <1>5

\* The committed inputs of a plan: those of the request and the passive ones.
Places(r, in) ==
    \/ \E i \in DOMAIN r.inputs :
          in.coin = r.inputs[i].coin /\ InputKey(in) = <<"active", GroupOf(r, i), in.coin>>
    \/ \E j \in DOMAIN r.passive.packets :
          LET q == r.passive.packets[j]
          IN  in.coin = q.input /\ InputKey(in) = <<"passive", <<q.ref, q.id>>, in.coin>>

LEMMA InputsOfPlan ==
  ASSUME NEW r, NEW ps, NEW d, Distributed(r, ps, d)
  PROVE  /\ \A in \in VirtualInputs(r, Plan(r, ps)) : Places(r, in)
         /\ \A i \in DOMAIN r.inputs : \E in \in VirtualInputs(r, Plan(r, ps)) :
               in.coin = r.inputs[i].coin
         /\ \A j \in DOMAIN r.passive.packets : \E in \in VirtualInputs(r, Plan(r, ps)) :
               in.coin = r.passive.packets[j].input
<1> DEFINE p == Plan(r, ps)
           active(q, i) == [role |-> "active", packet |-> <<q.ref, q.issuance>>,
                            coin |-> r.inputs[i].coin, proof |-> r.inputs[i].coin]
           passive(q) == [role |-> "passive", packet |-> <<q.ref, q.id>>, coin |-> q.input,
                          proof |-> q.tip]
           ActiveOf(qs) == UNION {{active(q, i) : i \in q.inputs} : q \in qs}
           PassiveOf(qs) == {passive(q) : q \in ToSet(qs)}
<1>1. VirtualInputs(r, p) = ActiveOf(p.packets) \cup PassiveOf(p.passive)
  BY DEF VirtualInputs, ActiveInputs
<1>2. p.packets = ps /\ p.passive = r.passive.packets
  BY DEF Plan
<1>3. /\ \A q, i : /\ active(q, i).coin = r.inputs[i].coin
                   /\ InputKey(active(q, i))
                        = <<"active", <<q.ref, q.issuance>>, r.inputs[i].coin>>
      /\ \A q : /\ passive(q).coin = q.input
                /\ InputKey(passive(q)) = <<"passive", <<q.ref, q.id>>, q.input>>
  BY DEF InputKey
<1>4. \A q \in ps : \A i \in q.inputs : /\ i \in DOMAIN r.inputs
                                        /\ <<q.ref, q.issuance>> = GroupOf(r, i)
  <2>1. \A q \in ps : \E g \in Groups(r) : q = Packet(r, g, d)
    BY DEF Distributed
  <2>2. \A g : /\ Packet(r, g, d).ref = g[1] /\ Packet(r, g, d).issuance = g[2]
               /\ Packet(r, g, d).inputs = Holding(r, g[1], g[2])
    BY DEF Packet
  <2>3. \A g : \A i \in Holding(r, g[1], g[2]) :
           i \in DOMAIN r.inputs /\ <<g[1], g[2]>> = GroupOf(r, i)
    BY DEF Holding, Under, GroupOf
  <2> QED
    BY <2>1, <2>2, <2>3
<1> HIDE DEF active, passive, p
<1>5. VirtualInputs(r, p) = ActiveOf(ps) \cup PassiveOf(r.passive.packets)
  <2> HIDE DEF ActiveOf, PassiveOf
  <2> QED
    BY <1>1, <1>2
<1>6. ASSUME NEW in \in ActiveOf(ps)
      PROVE  Places(r, in)
  <2>1. PICK q \in ps : \E i \in q.inputs : in = active(q, i)
    OBVIOUS
  <2>2. PICK i \in q.inputs : in = active(q, i)
    BY <2>1
  <2>3. i \in DOMAIN r.inputs /\ <<q.ref, q.issuance>> = GroupOf(r, i)
    BY <1>4
  <2>4. /\ in.coin = r.inputs[i].coin
        /\ InputKey(in) = <<"active", <<q.ref, q.issuance>>, r.inputs[i].coin>>
    BY <1>3, <2>2, Zenon
  <2>5. InputKey(in) = <<"active", GroupOf(r, i), in.coin>>
    BY <2>3, <2>4, Zenon
  <2> QED
    BY <2>3, <2>4, <2>5 DEF Places
<1>7. ASSUME NEW in \in PassiveOf(r.passive.packets)
      PROVE  Places(r, in)
  <2>1. PICK j \in DOMAIN r.passive.packets : in = passive(r.passive.packets[j])
    BY DEF ToSet
  <2> QED
    BY <1>3, <2>1 DEF Places
<1>8. ASSUME NEW i \in DOMAIN r.inputs
      PROVE  \E in \in ActiveOf(ps) : in.coin = r.inputs[i].coin
  <2>1. PICK q \in ps : i \in q.inputs
    BY InputsArePacked
  <2>2. active(q, i) \in ActiveOf(ps)
    BY <2>1
  <2> QED
    BY <1>3, <2>2
<1>9. ASSUME NEW j \in DOMAIN r.passive.packets
      PROVE  \E in \in PassiveOf(r.passive.packets) :
                in.coin = r.passive.packets[j].input
  <2>1. passive(r.passive.packets[j]) \in PassiveOf(r.passive.packets)
    BY DEF ToSet
  <2> QED
    BY <1>3, <2>1
<1> HIDE DEF ActiveOf, PassiveOf
<1> QED
  BY <1>5, <1>6, <1>7, <1>8, <1>9 DEF p

\* No two committed inputs spend one coin.
LEMMA CoinsHaveOneKey ==
  ASSUME NEW r, NEW ps, NEW d, Distributed(r, ps, d),
         NEW a, Places(r, a), NEW b, Places(r, b), a.coin = b.coin
  PROVE  InputKey(a) = InputKey(b)
<1>1. /\ \A i, k \in DOMAIN r.inputs : r.inputs[i].coin = r.inputs[k].coin => i = k
      /\ \A j, k \in DOMAIN r.passive.packets :
            r.passive.packets[j].input = r.passive.packets[k].input => j = k
      /\ \A i \in DOMAIN r.inputs, j \in DOMAIN r.passive.packets :
            r.inputs[i].coin # r.passive.packets[j].input
  BY SpentCoins
<1>2. CASE \E i \in DOMAIN r.inputs : /\ a.coin = r.inputs[i].coin
                                      /\ InputKey(a) = <<"active", GroupOf(r, i), a.coin>>
  BY <1>1, <1>2 DEF Places
<1>3. CASE \E j \in DOMAIN r.passive.packets :
              LET q == r.passive.packets[j]
              IN  a.coin = q.input /\ InputKey(a) = <<"passive", <<q.ref, q.id>>, a.coin>>
  BY <1>1, <1>3 DEF Places
<1> QED
  BY <1>2, <1>3 DEF Places

KeptIn(k, x) == {i \in DOMAIN k.inputs : k.inputs[i].source.issuance = x}

\* The proofs kept for the inputs are, coin by coin, of what the plan spends.
LEMMA KeptIsConsumed ==
  ASSUME NEW r, NEW ps, NEW d, Distributed(r, ps, d), NEW k, SemanticMappingsValid(k),
         k.virtual.inputs = VirtualInputs(r, Plan(r, ps)), NEW x
  PROVE  SumFunction([i \in KeptIn(k, x) |-> k.inputs[i].source.amount])
           = SumFunction([c \in ConsumedIn(r, ps, x) |-> c.amount])
<1> DEFINE all == {c \in Genuine : c.outpoint \in SpentOutpoints(r, ps)}
           C == ConsumedIn(r, ps, x)
           N == KeptIn(k, x)
           worth == [c \in C |-> c.amount]
           brought == [i \in N |-> k.inputs[i].source.amount]
           place == [c \in C |-> CHOOSE i \in N : k.inputs[i].source = c]
<1>1. /\ all = {r.inputs[i].coin : i \in DOMAIN r.inputs}
                 \cup {r.passive.packets[j].input : j \in DOMAIN r.passive.packets}
      /\ C = {c \in all : c.issuance = x}
  BY SpentCoins DEF ConsumedIn
<1>2. IsFiniteSet(C)
  <2> DEFINE in == [i \in DOMAIN r.inputs |-> r.inputs[i].coin]
             tip == [j \in DOMAIN r.passive.packets |-> r.passive.packets[j].input]
             A == {in[i] : i \in DOMAIN r.inputs}
             B == {tip[j] : j \in DOMAIN r.passive.packets}
  <2>1. IsFiniteSet(DOMAIN r.inputs) /\ IsFiniteSet(DOMAIN r.passive.packets)
    BY BuilderAssumption, RequestLists, SequenceDomain DEF Distributed, Planned, IsRequest
  <2>2. all = A \cup B
    BY <1>1
  <2>3. IsFiniteSet(A) /\ IsFiniteSet(B)
    <3> HIDE DEF in, tip
    <3> QED
      BY <2>1, FiniteImage
  <2> HIDE DEF A, B, all
  <2>4. IsFiniteSet(all)
    BY <2>2, <2>3, FS_Union
  <2> QED
    BY <1>1, <2>4, FS_Subset
<1>3. \A i \in DOMAIN k.inputs : \E in \in k.virtual.inputs :
         /\ Places(r, in) /\ k.inputs[i].source = in.coin
         /\ k.inputs[i].at = InputKey(in)
  BY InputsAgree, InputsOfPlan DEF InputMapped, ProofSourceValid
<1>4. \A i \in DOMAIN k.inputs : k.inputs[i].source \in all
  BY <1>1, <1>3 DEF Places
<1>5. \A c \in all : \E i \in DOMAIN k.inputs : k.inputs[i].source = c
  <2> TAKE c \in all
  <2>1. PICK in \in k.virtual.inputs : in.coin = c
    BY <1>1, InputsOfPlan
  <2> QED
    BY <2>1, InputsAgree DEF InputMapped, ProofSourceValid
<1>6. ASSUME NEW i \in DOMAIN k.inputs, NEW j \in DOMAIN k.inputs,
             k.inputs[i].source = k.inputs[j].source
      PROVE  i = j
  <2>1. PICK a \in k.virtual.inputs :
           /\ Places(r, a) /\ k.inputs[i].source = a.coin
           /\ k.inputs[i].at = InputKey(a)
    BY <1>3
  <2>2. PICK b \in k.virtual.inputs :
           /\ Places(r, b) /\ k.inputs[j].source = b.coin
           /\ k.inputs[j].at = InputKey(b)
    BY <1>3
  <2>3. InputKey(a) = InputKey(b)
    BY <1>6, <2>1, <2>2, CoinsHaveOneKey
  <2> QED
    BY <2>1, <2>2, <2>3, InputsAgree
<1> HIDE DEF all
<1>7. \A i \in N : i \in DOMAIN k.inputs /\ k.inputs[i].source \in C
  BY <1>1, <1>4 DEF KeptIn
<1>8. \A c \in C : \E i \in N : k.inputs[i].source = c
  BY <1>1, <1>5 DEF KeptIn
<1> HIDE DEF C, N
<1>9. \A c \in C : place[c] \in N /\ k.inputs[place[c]].source = c
  BY <1>8
<1>10. place \in [C -> N] /\ \A i \in N : \E c \in C : place[c] = i
  <2>1. place \in [C -> N]
    BY <1>9
  <2>2. ASSUME NEW i \in N
        PROVE  place[k.inputs[i].source] = i
    BY <1>6, <1>7, <1>9
  <2> HIDE DEF place
  <2> QED
    BY <1>7, <2>1, <2>2
<1>11. \A c, e \in C : place[c] = place[e] => c = e
  <2> HIDE DEF place
  <2> QED
    BY <1>9
<1>12. \A c \in C : worth[c] \in Int /\ brought[place[c]] = worth[c]
  <2>1. \A c \in C : c.amount \in Int
    BY <1>1, BuilderAssumption DEF all
  <2> HIDE DEF place
  <2> QED
    BY <1>9, <2>1
<1>13. DOMAIN worth = C /\ DOMAIN brought = N
  OBVIOUS
<1> HIDE DEF worth, brought, place
<1>14. Sum(brought, N) = Sum(worth, C)
  BY <1>2, <1>10, <1>11, <1>12, SumReindex
<1>15. SumFunction(brought) = SumFunction(worth)
  BY <1>13, <1>14, SumFunctionIsSum
<1> QED
  BY <1>15 DEF brought, worth, C, N

\* A host that sends every update to the recipient it names delivers what was
\* requested: of all recipients each is handed valid proofs of exactly the amount
\* of its output, and the proofs of an issuance are worth the inputs whose proofs
\* the package keeps; for all requests, answers and edits of one part of the
\* package (custom_anchor_package.go:817-1137).
THEOREM ProofsReachRecipients == Spec => []EveryOutputIsProven
<1>1. PlanInv /\ AnswerInv => EveryOutputIsProven
  <2> SUFFICES ASSUME PlanInv, AnswerInv, package # None PROVE EveryOutputIsProven
    BY DEF EveryOutputIsProven
  <2>1. Sealed(request, plan, sealed, package) /\ plan # None
    BY PackagesAreSealed DEF AnswerInv, Accepted
  <2>2. plan = Plan(request, packets) /\ Planned(request, packets)
    BY <2>1, PlansAreChecked
  <2>3. PICK d \in Distributions(request) : Distributed(request, packets, d)
    BY <2>2 DEF Planned, ArePackets, Distributed
  <2>4. Sealed(request, Plan(request, packets), sealed, package)
    BY <2>1, <2>2
  <2>5. \A u \in ToSet(package.updates) : u.proof.tx = TxID(package.anchor)
    <3>1. \A out : Suffix(package.anchor, out).tx = TxID(package.anchor)
      BY DEF Suffix
    <3>2. \A u \in ToSet(package.updates) : \E out : u.proof = Suffix(package.anchor, out)
      BY <2>3, <2>4, Deliveries
    <3> QED
      BY <3>1, <3>2
  <2>6. \A o \in ToSet(request.outputs) : WorthOf(ProofsTo(package, o.id)) = o.amount
    BY <2>3, <2>4, RecipientsArePaid DEF ToSet
  <2>7. \A x : WorthOf(ProofsOf(package, x))
                 = SumFunction([i \in KeptIn(package, x) |->
                                   package.inputs[i].source.amount])
    <3>1. SemanticMappingsValid(package)
          /\ package.virtual.inputs = VirtualInputs(request, Plan(request, packets))
      BY <2>4 DEF Sealed, PacketsKept
    <3> TAKE x
    <3>2. WorthOf(ProofsOf(package, x))
            = SumFunction([c \in ConsumedIn(request, packets, x) |-> c.amount])
      BY <2>3, <2>4, IssuanceIsProven
    <3>3. SumFunction([i \in KeptIn(package, x) |-> package.inputs[i].source.amount])
            = SumFunction([c \in ConsumedIn(request, packets, x) |-> c.amount])
      BY <2>3, <3>1, KeptIsConsumed
    <3> QED
      BY <3>2, <3>3, Zenon
  <2> QED
    BY <2>5, <2>6, <2>7, Zenon
    DEF EveryOutputIsProven, WorthOf, ProofsTo, ProofsOf, KeptIn
<1> QED
  BY <1>1, SpecAnswerInv, PTL
=============================================================================
