--------------------- MODULE CustomAnchorSigning_proofs ---------------------
(***************************************************************************)
(* Proofs about CustomAnchorSigning, for every set of inputs, workers,     *)
(* supplied PSBTs and damage.  The inductive invariant adds to the checked *)
(* ones that a package a worker holds validates, and that the stored one,  *)
(* whenever it validates, is as genuine as a held one: that is what makes  *)
(* Load safe after any damage.                                             *)
(***************************************************************************)
EXTENDS CustomAnchorSigning, TLAPS

\* What makes a package trustworthy: it validates, it carries what Commit
\* sealed, and each signature and witness in it was verified.
Genuine(p) ==
    /\ Validate(p)
    /\ p.body = SealedBody
    /\ p.committed = CommittedPsbt
    /\ \A i \in Inputs :
          /\ p.anchor.final[i] \in ConsensusValid \cup {None}
          /\ p.anchor.final[i] = None =>
                 p.anchor.keySig[i] \in ValidKeySigs \cup {None}

IInv ==
    /\ TypeOK
    /\ \A w \in Holding : Genuine(held[w])
    /\ Validate(store) => Genuine(store)
    /\ PublishedIsAuthorized

-----------------------------------------------------------------------------
(* PSBTs and packages *)

LEMMA SerializedFacts ==
    ASSUME NEW psbt \in PSBTs
    PROVE  /\ Serialized(psbt) \in PSBTs
           /\ Serialized(psbt).tx = psbt.tx
           /\ Serialized(psbt).meta = psbt.meta
           /\ Serialized(psbt).final = psbt.final
           /\ \A i \in Inputs :
                 Serialized(psbt).keySig[i] =
                     IF psbt.final[i] # None THEN None ELSE psbt.keySig[i]
BY DEF PSBTs, Serialized

LEMMA SanitizedFacts ==
    ASSUME NEW committed \in PSBTs, NEW psbt \in PSBTs
    PROVE  /\ SanitizedFinal(committed, psbt) \in PSBTs
           /\ SanitizedFinal(committed, psbt).tx = committed.tx
           /\ SanitizedFinal(committed, psbt).meta = committed.meta
           /\ SanitizedFinal(committed, psbt).final = psbt.final
BY DEF PSBTs, SanitizedFinal

\* A clone with another current PSBT is a package that differs in nothing else
\* but its digest.
LEMMA WithAnchorFacts ==
    ASSUME NEW p \in Packages, NEW psbt \in PSBTs
    PROVE  /\ WithAnchor(p, psbt) \in Packages
           /\ WithAnchor(p, psbt).anchor = Serialized(psbt)
           /\ WithAnchor(p, psbt).body = p.body
           /\ WithAnchor(p, psbt).committed = p.committed
<1> DEFINE q == [p EXCEPT !.anchor = Serialized(psbt)]
<1>1. Serialized(psbt) \in PSBTs
  BY SerializedFacts
<1>2. /\ q.body = p.body /\ q.committed = p.committed
      /\ q.anchor = Serialized(psbt)
      /\ q.committedDigest = p.committedDigest
      /\ q.unsignedDigest = p.unsignedDigest
  BY DEF Packages
<1>3. q \in Packages
  BY <1>1 DEF Packages
<1>4. Serialized(q.anchor) \in PSBTs
  BY <1>1, <1>2, SerializedFacts
<1>5. PackageDigest(q) \in
        {"package"} \X Bodies \X PSBTs \X PSBTs
          \X ({"committed-package"} \X Bodies \X PSBTs)
          \X ({"unsigned-tx"} \X Txs)
  BY <1>3, <1>4 DEF PackageDigest, Packages
<1>6. WithAnchor(p, psbt) = [q EXCEPT !.packageDigest = PackageDigest(q)]
  BY DEF WithAnchor, RefreshPackageDigest
<1> QED
  BY <1>2, <1>3, <1>5, <1>6 DEF Packages

LEMMA SealedFacts == Sealed \in Packages /\ Genuine(Sealed)
<1> DEFINE p == [body            |-> SealedBody,
                 committed       |-> CommittedPsbt,
                 anchor          |-> CommittedPsbt,
                 unsignedDigest  |-> UnsignedTxDigest(CommittedPsbt),
                 committedDigest |-> CommittedDigest(SealedBody, CommittedPsbt),
                 packageDigest   |-> None]
<1>1. /\ CommittedPsbt \in PSBTs /\ SealedBody \in Bodies
      /\ Stripped(CommittedPsbt) \in PSBTs
      /\ Serialized(CommittedPsbt) \in PSBTs
  BY SealedAssumption, SerializedFacts DEF PSBTs, Stripped
<1>2. Sealed = [p EXCEPT !.packageDigest = PackageDigest(p)]
  BY DEF Sealed, Seal, RefreshPackageDigest
<1>3. /\ Sealed.body = SealedBody
      /\ Sealed.committed = CommittedPsbt
      /\ Sealed.anchor = CommittedPsbt
      /\ Sealed.unsignedDigest = UnsignedTxDigest(CommittedPsbt)
      /\ Sealed.committedDigest = CommittedDigest(SealedBody, CommittedPsbt)
      /\ Sealed.packageDigest = PackageDigest(p)
  BY <1>2
<1>4. PackageDigest(Sealed) = PackageDigest(p)
  BY <1>3 DEF PackageDigest
<1>5. CommittedPsbt.tx \in Txs
  BY <1>1 DEF PSBTs
<1>6. PackageDigest(p) \in
        {"package"} \X Bodies \X PSBTs \X PSBTs
          \X ({"committed-package"} \X Bodies \X PSBTs)
          \X ({"unsigned-tx"} \X Txs)
  BY <1>1, <1>5 DEF PackageDigest, UnsignedTxDigest, CommittedDigest
<1>7. Sealed \in Packages
  BY <1>1, <1>2, <1>5, <1>6 DEF Packages, UnsignedTxDigest, CommittedDigest
<1>8. Validate(Sealed)
  BY <1>3, <1>4, SealedAssumption
     DEF Validate, SameUnsignedTx, CommittedMetadataKept, HasFinalization
<1>9. \A i \in Inputs : CommittedPsbt.final[i] = None
                        /\ CommittedPsbt.keySig[i] = None
  BY SealedAssumption
<1> QED
  BY <1>3, <1>7, <1>8, <1>9 DEF Genuine

\* Request IDs bind the committed package only, so every genuine snapshot
\* derives the same ones.
LEMMA SameRequests ==
    ASSUME NEW p, Genuine(p)
    PROVE  SigningRequests(p) = SigningRequests(Sealed)
<1>1. /\ p.committedDigest = CommittedDigest(SealedBody, CommittedPsbt)
      /\ p.body = SealedBody
  BY DEF Genuine, Validate
<1>2. /\ Sealed.committedDigest = CommittedDigest(SealedBody, CommittedPsbt)
      /\ Sealed.body = SealedBody
  BY SealedFacts DEF Genuine, Validate
<1> QED
  BY <1>1, <1>2
      DEF SigningRequests, KeyPathRequests, ScriptPathRequests, RequestID

\* The only packages that pass Validate after damage are those whose bound
\* contents did not change: equal digests are equal tuples.
LEMMA DamageIsDetected ==
    ASSUME NEW p \in Packages, Genuine(p), NEW q \in Packages, Validate(q),
           q.packageDigest = p.packageDigest
    PROVE  Genuine(q)
<1>1. PackageDigest(q) = PackageDigest(p)
  BY DEF Genuine, Validate
<1>2. /\ q.body = p.body
      /\ q.committed = p.committed
      /\ Serialized(q.anchor) = Serialized(p.anchor)
  BY <1>1 DEF PackageDigest
<1>3. p.anchor \in PSBTs /\ q.anchor \in PSBTs
  BY DEF Packages
<1>4. /\ q.anchor.final = p.anchor.final
      /\ \A i \in Inputs : q.anchor.final[i] = None =>
                            q.anchor.keySig[i] = p.anchor.keySig[i]
  BY <1>2, <1>3, SerializedFacts
<1> QED
  BY <1>2, <1>4 DEF Genuine

-----------------------------------------------------------------------------
(* The operations keep a package genuine *)

LEMMA KeyPathSignatureKeepsGenuine ==
    ASSUME NEW p \in Packages, Genuine(p), NEW id, NEW i \in Inputs, NEW sig,
           KeyPathSignatureAccepted(p, id, i, sig)
    PROVE  WithKeySig(p, i, sig) \in Packages /\ Genuine(WithKeySig(p, i, sig))
<1> DEFINE psbt == [p.anchor EXCEPT !.keySig[i] = sig]
           q == WithKeySig(p, i, sig)
<1>1. p.anchor \in PSBTs /\ sig \in ValidKeySigs /\ sig \in KeySigs
  BY DEF Packages, KeyPathSignatureAccepted, KeySigs
<1>2. /\ psbt \in PSBTs
      /\ psbt.final = p.anchor.final
      /\ \A j \in Inputs :
            psbt.keySig[j] = IF j = i THEN sig ELSE p.anchor.keySig[j]
  BY <1>1 DEF PSBTs
<1>3. /\ q \in Packages
      /\ q.anchor = Serialized(psbt)
      /\ q.body = p.body
      /\ q.committed = p.committed
  BY <1>2, WithAnchorFacts DEF WithKeySig
<1> HIDE DEF psbt
<1>4. /\ q.anchor.final = p.anchor.final
      /\ \A j \in Inputs : q.anchor.final[j] = None =>
            q.anchor.keySig[j] = IF j = i THEN sig ELSE p.anchor.keySig[j]
  BY <1>2, <1>3, SerializedFacts
<1>5. Validate(q)
  BY DEF KeyPathSignatureAccepted
<1> QED
  BY <1>1, <1>3, <1>4, <1>5 DEF Genuine

LEMMA ScriptWitnessKeepsGenuine ==
    ASSUME NEW p \in Packages, Genuine(p), NEW id, NEW i \in Inputs, NEW wit,
           ScriptPathWitnessAccepted(p, id, i, wit)
    PROVE  /\ WithScriptWitness(p, i, wit) \in Packages
           /\ Genuine(WithScriptWitness(p, i, wit))
<1> DEFINE psbt == [p.anchor EXCEPT !.final[i] = wit]
           q == WithScriptWitness(p, i, wit)
<1>1. p.anchor \in PSBTs /\ wit \in ConsensusValid /\ wit \in Witnesses
  BY DEF Packages, ScriptPathWitnessAccepted, ConsensusValid, Witnesses
<1>2. /\ psbt \in PSBTs
      /\ psbt.keySig = p.anchor.keySig
      /\ \A j \in Inputs :
            psbt.final[j] = IF j = i THEN wit ELSE p.anchor.final[j]
  BY <1>1 DEF PSBTs
<1>3. /\ q \in Packages
      /\ q.anchor = Serialized(psbt)
      /\ q.body = p.body
      /\ q.committed = p.committed
  BY <1>2, WithAnchorFacts DEF WithScriptWitness
<1> HIDE DEF psbt
<1>4. /\ q.anchor.final = psbt.final
      /\ \A j \in Inputs : q.anchor.final[j] = None =>
            q.anchor.keySig[j] = p.anchor.keySig[j]
  BY <1>2, <1>3, SerializedFacts
<1>5. Validate(q)
  BY DEF ScriptPathWitnessAccepted
<1>6. None \notin ConsensusValid
  BY NoneAssumption DEF ConsensusValid
<1> QED
  BY <1>1, <1>2, <1>3, <1>4, <1>5, <1>6 DEF Genuine

LEMMA FinalAnchorKeepsGenuine ==
    ASSUME NEW p \in Packages, Genuine(p), NEW psbt \in PSBTs,
           FinalAnchorAccepted(p, psbt)
    PROVE  LET q == WithFinalAnchorPSBT(p, psbt)
           IN  /\ q \in Packages
               /\ Genuine(q)
               /\ q.anchor.tx = CommittedPsbt.tx
               /\ q.anchor.meta = CommittedPsbt.meta
               /\ q.anchor.final = psbt.final
<1> DEFINE sanitized == SanitizedFinal(p.committed, psbt)
           q == WithFinalAnchorPSBT(p, psbt)
<1>1. p.committed \in PSBTs /\ p.committed = CommittedPsbt
  BY DEF Packages, Genuine
<1>2. /\ sanitized \in PSBTs
      /\ sanitized.tx = CommittedPsbt.tx
      /\ sanitized.meta = CommittedPsbt.meta
      /\ sanitized.final = psbt.final
  BY <1>1, SanitizedFacts
<1>3. /\ q \in Packages
      /\ q.anchor = Serialized(sanitized)
      /\ q.body = p.body
      /\ q.committed = p.committed
  BY <1>2, WithAnchorFacts DEF WithFinalAnchorPSBT
<1>4. /\ q.anchor.tx = CommittedPsbt.tx
      /\ q.anchor.meta = CommittedPsbt.meta
      /\ q.anchor.final = psbt.final
  BY <1>2, <1>3, SerializedFacts
<1>5. Validate(q)
  BY DEF FinalAnchorAccepted
<1>6. \A i \in Inputs : psbt.final[i] \in ConsensusValid /\ psbt.final[i] # None
  BY NoneAssumption
     DEF FinalAnchorAccepted, FinalWitnessesAccepted, ConsensusValid
<1> QED
  BY <1>3, <1>4, <1>5, <1>6 DEF Genuine

-----------------------------------------------------------------------------
(* The invariant *)

LEMMA InitIInv == Init => IInv
<1> SUFFICES ASSUME Init PROVE IInv
  OBVIOUS
<1>1. TypeOK
  BY SealedFacts DEF Init, TypeOK
<1>2. Holding = {}
  BY DEF Init, Holding
<1>3. Genuine(store)
  BY SealedFacts DEF Init
<1>4. PublishedIsAuthorized
  BY DEF Init, PublishedIsAuthorized
<1> QED
  BY <1>1, <1>2, <1>3, <1>4 DEF IInv

\* A step in which one worker replaces what it holds by a genuine package, or
\* by nothing, and nothing else changes.
LEMMA ReplaceKeepsIInv ==
    ASSUME IInv, NEW w \in Workers, NEW p,
           \/ p \in Packages /\ Genuine(p)
           \/ p = None,
           Replace(w, p), UNCHANGED <<store, requested, published>>
    PROVE  IInv'
<1>1. held \in [Workers -> Packages \cup {None}]
  BY DEF IInv, TypeOK
<1>2. \A v \in Workers : held'[v] = IF v = w THEN p ELSE held[v]
  BY <1>1 DEF Replace
<1>3. TypeOK'
  BY <1>1 DEF Replace, IInv, TypeOK
<1>4. \A v \in Holding' : Genuine(held'[v])
  BY <1>2 DEF IInv, Holding
<1>5. (Validate(store) => Genuine(store))'
  BY DEF IInv
<1>6. PublishedIsAuthorized'
  BY DEF IInv, PublishedIsAuthorized
<1> QED
  BY <1>3, <1>4, <1>5, <1>6 DEF IInv, Genuine, Holding, Validate

LEMMA NextIInv == IInv /\ [Next]_vars => IInv'
<1> SUFFICES ASSUME IInv, [Next]_vars PROVE IInv'
  OBVIOUS
<1>t. TypeOK
  BY DEF IInv
<1>h. \A w \in Workers : held[w] # None =>
          w \in Holding /\ held[w] \in Packages /\ Genuine(held[w])
  BY DEF IInv, TypeOK, Holding
<1>1. ASSUME NEW w \in Workers, Load(w) PROVE IInv'
  <2>1. store \in Packages /\ Genuine(store)
    BY <1>1, <1>t DEF Load, IInv, TypeOK
  <2> QED
    BY <1>1, <2>1, ReplaceKeepsIInv DEF Load
<1>2. ASSUME NEW w \in Workers, Save(w) PROVE IInv'
  <2>1. held[w] \in Packages /\ Genuine(held[w])
    BY <1>2, <1>h DEF Save
  <2>2. TypeOK'
    BY <1>2, <1>t, <2>1 DEF Save, TypeOK
  <2>3. Genuine(store')
    BY <1>2, <2>1 DEF Save
  <2> QED
    BY <1>2, <2>2, <2>3
       DEF Save, IInv, Holding, PublishedIsAuthorized
<1>3. ASSUME NEW w \in Workers, DeriveRequests(w) PROVE IInv'
  <2>1. SigningRequests(held[w]) = SigningRequests(Sealed)
    BY <1>3, <1>h, SameRequests DEF DeriveRequests
  <2>2. TypeOK'
    BY <1>3, <1>t, <2>1 DEF DeriveRequests, TypeOK
  <2> QED
    BY <1>3, <2>2 DEF DeriveRequests, IInv, Holding, PublishedIsAuthorized
<1>4. ASSUME NEW w \in Workers, ApplyKeyPathSignature(w) PROVE IInv'
  <2>1. PICK id \in requested, i \in Inputs, sig \in KeySigs :
           /\ held[w] # None
           /\ KeyPathSignatureAccepted(held[w], id, i, sig)
           /\ Replace(w, WithKeySig(held[w], i, sig))
           /\ UNCHANGED <<store, requested, published>>
    BY <1>4 DEF ApplyKeyPathSignature
  <2>2. /\ WithKeySig(held[w], i, sig) \in Packages
        /\ Genuine(WithKeySig(held[w], i, sig))
    BY <1>h, <2>1, KeyPathSignatureKeepsGenuine
  <2> QED
    BY <2>1, <2>2, ReplaceKeepsIInv
<1>5. ASSUME NEW w \in Workers, ApplyScriptPathWitness(w) PROVE IInv'
  <2>1. PICK id \in requested, i \in Inputs, wit \in Witnesses :
           /\ held[w] # None
           /\ ScriptPathWitnessAccepted(held[w], id, i, wit)
           /\ Replace(w, WithScriptWitness(held[w], i, wit))
           /\ UNCHANGED <<store, requested, published>>
    BY <1>5 DEF ApplyScriptPathWitness
  <2>2. /\ WithScriptWitness(held[w], i, wit) \in Packages
        /\ Genuine(WithScriptWitness(held[w], i, wit))
    BY <1>h, <2>1, ScriptWitnessKeepsGenuine
  <2> QED
    BY <2>1, <2>2, ReplaceKeepsIInv
<1>6. ASSUME NEW w \in Workers, Finalize(w) PROVE IInv'
  <2>1. PICK psbt \in SuppliedPsbts :
           /\ held[w] # None
           /\ FinalAnchorAccepted(held[w], psbt)
           /\ Replace(w, WithFinalAnchorPSBT(held[w], psbt))
           /\ UNCHANGED <<store, requested, published>>
    BY <1>6 DEF Finalize
  <2>2. psbt \in PSBTs
    BY SuppliedAssumption
  <2>3. /\ WithFinalAnchorPSBT(held[w], psbt) \in Packages
        /\ Genuine(WithFinalAnchorPSBT(held[w], psbt))
    BY <1>h, <2>1, <2>2, FinalAnchorKeepsGenuine
  <2> QED
    BY <2>1, <2>3, ReplaceKeepsIInv
<1>7. ASSUME NEW w \in Workers, Publish(w) PROVE IInv'
  <2>1. PICK psbt \in SuppliedPsbts \cup {held[w].anchor} :
           /\ held[w] # None
           /\ FinalAnchorAccepted(held[w], psbt)
           /\ published' = published \cup
                              {WithFinalAnchorPSBT(held[w], psbt).anchor}
    BY <1>7 DEF Publish
  <2> DEFINE anchor == WithFinalAnchorPSBT(held[w], psbt).anchor
  <2>2. held[w] \in Packages /\ Genuine(held[w]) /\ psbt \in PSBTs
    BY <1>h, <2>1, SuppliedAssumption DEF Packages
  <2>3. /\ WithFinalAnchorPSBT(held[w], psbt) \in Packages
        /\ anchor.tx = CommittedPsbt.tx
        /\ anchor.meta = CommittedPsbt.meta
        /\ anchor.final = psbt.final
    BY <2>1, <2>2, FinalAnchorKeepsGenuine
  <2>4. anchor \in PSBTs
    BY <2>3 DEF Packages
  <2>5. TypeOK'
    BY <1>7, <1>t, <2>1, <2>4 DEF Publish, TypeOK
  <2>6. PublishedIsAuthorized'
    <3>1. \A i \in Inputs :
             /\ anchor.final[i] \in ConsensusValid
             /\ WitnessFollowsPlan(PlanOf[SealedBody][i], anchor.final[i])
      BY <2>1, <2>2, <2>3 DEF FinalAnchorAccepted, FinalWitnessesAccepted,
                              Genuine
    <3>2. \A i \in Inputs :
             CASE PlanOf[SealedBody][i] \in KeyPlans ->
                     anchor.final[i] = "keyPath"
               [] PlanOf[SealedBody][i] = "scriptPath" ->
                     anchor.final[i] = "scriptPath"
               [] PlanOf[SealedBody][i] = "callerSigned" ->
                     anchor.final[i] # "annexed"
               [] OTHER -> TRUE
      BY <3>1 DEF WitnessFollowsPlan, RequiredSignersSigned, KeyPlans
    <3> HIDE DEF anchor
    <3> QED
      BY <1>7, <2>1, <2>3, <3>1, <3>2
         DEF IInv, PublishedIsAuthorized, anchor
  <2> QED
    BY <1>7, <2>5, <2>6 DEF Publish, IInv, Holding
<1>8. ASSUME NEW w \in Workers, Crash(w) PROVE IInv'
  BY <1>8, ReplaceKeepsIInv DEF Crash
<1>9. CASE DamageStore
  <2>1. store \in Packages /\ Genuine(store)
    BY <1>9, <1>t DEF DamageStore, IInv, TypeOK
  <2>2. /\ store' \in Packages
        /\ store'.packageDigest = store.packageDigest
    BY <1>9, <2>1, SuppliedAssumption DEF DamageStore, Packages
  <2>3. Validate(store') => Genuine(store')
    BY <2>1, <2>2, DamageIsDetected
  <2>4. TypeOK'
    BY <1>9, <1>t, <2>2 DEF DamageStore, TypeOK
  <2> QED
    BY <1>9, <2>3, <2>4
       DEF DamageStore, IInv, Holding, PublishedIsAuthorized
<1>10. CASE UNCHANGED vars
  BY <1>10 DEF vars, IInv, TypeOK, Holding, PublishedIsAuthorized
<1> QED
  BY <1>1, <1>2, <1>3, <1>4, <1>5, <1>6, <1>7, <1>8, <1>9, <1>10 DEF Next

LEMMA SpecIInv == Spec => []IInv
  BY InitIInv, NextIInv, PTL DEF Spec

-----------------------------------------------------------------------------
(* The theorems *)

\* Packages, requests and published PSBTs keep their types.
THEOREM TypeCorrect == Spec => []TypeOK
<1>1. IInv => TypeOK
  BY DEF IInv
<1> QED
  BY <1>1, SpecIInv, PTL

\* Whatever damage the store suffers and however workers interleave, what a
\* worker holds is the sealed plan with verified authorizations only.
THEOREM HeldPackagesAreGenuine == Spec => []HeldIsGenuine
<1>1. IInv => HeldIsGenuine
  BY DEF IInv, HeldIsGenuine, Genuine
<1> QED
  BY <1>1, SpecIInv, PTL

\* Only the committed transaction, spent along the sealed paths, is published.
THEOREM PublicationIsAuthorized == Spec => []PublishedIsAuthorized
<1>1. IInv => PublishedIsAuthorized
  BY DEF IInv
<1> QED
  BY <1>1, SpecIInv, PTL

\* A request handed to an external signer never goes stale.
THEOREM RequestsAreStable == Spec => []RequestsStayAnswerable
<1>1. IInv => RequestsStayAnswerable
  BY SameRequests DEF IInv, TypeOK, RequestsStayAnswerable
<1> QED
  BY <1>1, SpecIInv, PTL

-----------------------------------------------------------------------------
(* Authorizations *)

\* From one package to the next, no signature or witness is replaced or lost.
Keeps(p, q) ==
    \/ AllAnchorInputsFinalized(q.anchor)
    \/ \A i \in Inputs :
          /\ p.anchor.final[i] \in {None, q.anchor.final[i]}
          /\ p.anchor.final[i] = None =>
                p.anchor.keySig[i] \in {None, q.anchor.keySig[i]}

\* A key signature is added where there was none, or the same one.
LEMMA KeySigKeeps ==
    ASSUME NEW p \in Packages, NEW id, NEW i \in Inputs, NEW sig,
           KeyPathSignatureAccepted(p, id, i, sig)
    PROVE  Keeps(p, WithKeySig(p, i, sig))
<1> DEFINE psbt == [p.anchor EXCEPT !.keySig[i] = sig]
           q == WithKeySig(p, i, sig)
<1>1. p.anchor \in PSBTs /\ sig \in KeySigs /\ p.anchor.keySig[i] \in {None, sig}
  BY DEF Packages, KeyPathSignatureAccepted, KeySigs, NoOtherKeySig
<1>2. /\ psbt \in PSBTs
      /\ psbt.final = p.anchor.final
      /\ \A j \in Inputs :
            psbt.keySig[j] = IF j = i THEN sig ELSE p.anchor.keySig[j]
  BY <1>1 DEF PSBTs
<1>3. q.anchor = Serialized(psbt)
  BY <1>2, WithAnchorFacts DEF WithKeySig
<1> HIDE DEF psbt
<1>4. /\ q.anchor.final = p.anchor.final
      /\ \A j \in Inputs : p.anchor.final[j] = None =>
            q.anchor.keySig[j] = IF j = i THEN sig ELSE p.anchor.keySig[j]
  BY <1>2, <1>3, SerializedFacts
<1> QED
  BY <1>1, <1>4 DEF Keeps

\* A witness is added where there was none, or the same one, and only to an
\* input without a key signature.
LEMMA ScriptWitnessKeeps ==
    ASSUME NEW p \in Packages, NEW id, NEW i \in Inputs, NEW wit,
           ScriptPathWitnessAccepted(p, id, i, wit)
    PROVE  Keeps(p, WithScriptWitness(p, i, wit))
<1> DEFINE psbt == [p.anchor EXCEPT !.final[i] = wit]
           q == WithScriptWitness(p, i, wit)
<1>1. /\ p.anchor \in PSBTs /\ wit \in Witnesses
      /\ p.anchor.keySig[i] = None /\ p.anchor.final[i] \in {None, wit}
  BY DEF Packages, ScriptPathWitnessAccepted, Witnesses
<1>2. /\ psbt \in PSBTs
      /\ psbt.keySig = p.anchor.keySig
      /\ \A j \in Inputs :
            psbt.final[j] = IF j = i THEN wit ELSE p.anchor.final[j]
  BY <1>1 DEF PSBTs
<1>3. q.anchor = Serialized(psbt)
  BY <1>2, WithAnchorFacts DEF WithScriptWitness
<1> HIDE DEF psbt
<1>4. /\ q.anchor.final = psbt.final
      /\ \A j \in Inputs : psbt.final[j] = None =>
            q.anchor.keySig[j] = p.anchor.keySig[j]
  BY <1>2, <1>3, SerializedFacts
<1> QED
  BY <1>1, <1>2, <1>4 DEF Keeps

\* No Apply call replaces or drops what other signers contributed, for all
\* packages, plans, supplied PSBTs and damage (custom_anchor_signing.go:395).
THEOREM AuthorizationsStay == Spec => AuthorizationsAreKept
<1>1. ASSUME IInv, [Next]_vars, NEW w \in Workers,
             held[w] # None, held'[w] # None
      PROVE  Keeps(held[w], held'[w])
  <2>h. held \in [Workers -> Packages \cup {None}] /\ held[w] \in Packages
    BY <1>1 DEF IInv, TypeOK
  <2>u. CASE held'[w] = held[w]
    BY <2>u DEF Keeps
  <2>r. ASSUME NEW v \in Workers, NEW p, Replace(v, p), held'[w] # held[w]
        PROVE  v = w /\ held'[w] = p
    BY <2>h, <2>r DEF Replace
  <2>1. ASSUME NEW v \in Workers, Load(v), held'[w] # held[w] PROVE FALSE
    BY <1>1, <2>1, <2>r DEF Load
  <2>2. ASSUME NEW v \in Workers, Crash(v), held'[w] # held[w] PROVE FALSE
    BY <1>1, <2>2, <2>r DEF Crash
  <2>3. ASSUME NEW v \in Workers, ApplyKeyPathSignature(v), held'[w] # held[w]
        PROVE  Keeps(held[w], held'[w])
    <3>1. PICK id \in requested, i \in Inputs, sig \in KeySigs :
             /\ KeyPathSignatureAccepted(held[v], id, i, sig)
             /\ Replace(v, WithKeySig(held[v], i, sig))
      BY <2>3 DEF ApplyKeyPathSignature
    <3> QED
      BY <2>3, <2>h, <2>r, <3>1, KeySigKeeps
  <2>4. ASSUME NEW v \in Workers, ApplyScriptPathWitness(v), held'[w] # held[w]
        PROVE  Keeps(held[w], held'[w])
    <3>1. PICK id \in requested, i \in Inputs, wit \in Witnesses :
             /\ ScriptPathWitnessAccepted(held[v], id, i, wit)
             /\ Replace(v, WithScriptWitness(held[v], i, wit))
      BY <2>4 DEF ApplyScriptPathWitness
    <3> QED
      BY <2>4, <2>h, <2>r, <3>1, ScriptWitnessKeeps
  <2>5. ASSUME NEW v \in Workers, Finalize(v), held'[w] # held[w]
        PROVE  Keeps(held[w], held'[w])
    <3>1. PICK psbt \in SuppliedPsbts :
             /\ FinalAnchorAccepted(held[v], psbt)
             /\ Replace(v, WithFinalAnchorPSBT(held[v], psbt))
      BY <2>5 DEF Finalize
    <3>2. v = w /\ held'[w] = WithFinalAnchorPSBT(held[w], psbt)
      BY <2>5, <2>r, <3>1
    <3>3. psbt \in PSBTs /\ Genuine(held[w])
      BY <1>1, SuppliedAssumption DEF IInv, Holding
    <3>4. held'[w].anchor.final = psbt.final
      BY <2>h, <3>1, <3>2, <3>3, FinalAnchorKeepsGenuine
    <3> QED
      BY <3>1, <3>2, <3>4
         DEF Keeps, AllAnchorInputsFinalized, FinalAnchorAccepted,
             FinalWitnessesAccepted
  <2> QED
    BY <1>1, <2>u, <2>1, <2>2, <2>3, <2>4, <2>5
       DEF Next, Save, DeriveRequests, Publish, DamageStore, vars
<1>2. IInv /\ [Next]_vars =>
          [\A w \in Workers :
              held[w] # None /\ held'[w] # None =>
                  \/ AllAnchorInputsFinalized(held'[w].anchor)
                  \/ \A i \in Inputs :
                        /\ held[w].anchor.final[i] \in
                              {None, held'[w].anchor.final[i]}
                        /\ held[w].anchor.final[i] = None =>
                              held[w].anchor.keySig[i] \in
                                 {None, held'[w].anchor.keySig[i]}]_held
  BY <1>1 DEF Keeps
<1> QED
  BY <1>2, SpecIInv, PTL DEF Spec, AuthorizationsAreKept
=============================================================================
