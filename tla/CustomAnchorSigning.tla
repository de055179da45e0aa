------------------------ MODULE CustomAnchorSigning ------------------------
(***************************************************************************)
(* The life of one sealed package between Commit and publication.  Workers *)
(* of the host load the persisted package, derive signing requests, apply  *)
(* external signatures and witnesses to clones, save a clone back, and     *)
(* finally publish.  They interleave freely, crash and reload; the stored  *)
(* bytes may be damaged while at rest.  Every operation that succeeds is   *)
(* an action; one that returns an error changes nothing, because packages  *)
(* are immutable.                                                          *)
(***************************************************************************)
EXTENDS CustomAnchorPackage

CONSTANTS Workers,        \* goroutines or processes of the host
          SealedBody,     \* the contents Commit sealed
          CommittedPsbt,  \* the anchor PSBT Commit sealed
          SuppliedPsbts,  \* PSBTs an external finalizer may hand back
          DamagedPsbts    \* PSBTs that damage at rest may leave behind

VARIABLES held,       \* the package each worker holds, or None
          store,      \* the persisted package
          requested,  \* request IDs handed to external signers so far
          published   \* final PSBTs handed to the backend

vars == <<held, store, requested, published>>

\* Commit seals what the backend returned before anything is signed.
ASSUME SealedAssumption ==
    /\ SealedBody \in Bodies
    /\ CommittedPsbt \in PSBTs
    /\ CommittedPsbt.keySig = [i \in Inputs |-> None]
    /\ CommittedPsbt.final = [i \in Inputs |-> None]

ASSUME SuppliedAssumption ==
    SuppliedPsbts \subseteq PSBTs /\ DamagedPsbts \subseteq PSBTs

\* A worker that holds nothing holds no package.
ASSUME NoPackageAssumption == None \notin Packages

Sealed == Seal(SealedBody, CommittedPsbt)

Init ==
    /\ held = [w \in Workers |-> None]
    /\ store = Sealed
    /\ requested = {}
    /\ published = {}

Replace(w, p) == held' = [held EXCEPT ![w] = p]

\* UnmarshalJSON or UnmarshalBinary: nothing undamaged escapes validation.
Load(w) ==
    /\ held[w] = None
    /\ Validate(store)
    /\ Replace(w, store)
    /\ UNCHANGED <<store, requested, published>>

\* MarshalJSON refuses a package that does not validate.
Save(w) ==
    /\ held[w] # None
    /\ Validate(held[w])
    /\ store' = held[w]
    /\ UNCHANGED <<held, requested, published>>

DeriveRequests(w) ==
    /\ held[w] # None
    /\ Validate(held[w])
    /\ requested' = requested \cup SigningRequests(held[w])
    /\ UNCHANGED <<held, store, published>>

ApplyKeyPathSignature(w) ==
    \E id \in requested, i \in Inputs, sig \in KeySigs :
        /\ held[w] # None
        /\ KeyPathSignatureAccepted(held[w], id, i, sig)
        /\ Replace(w, WithKeySig(held[w], i, sig))
        /\ UNCHANGED <<store, requested, published>>

ApplyScriptPathWitness(w) ==
    \E id \in requested, i \in Inputs, wit \in Witnesses :
        /\ held[w] # None
        /\ ScriptPathWitnessAccepted(held[w], id, i, wit)
        /\ Replace(w, WithScriptWitness(held[w], i, wit))
        /\ UNCHANGED <<store, requested, published>>

\* WithFinalAnchorPSBT on a PSBT an external finalizer or signer returned.
Finalize(w) ==
    \E psbt \in SuppliedPsbts :
        /\ held[w] # None
        /\ FinalAnchorAccepted(held[w], psbt)
        /\ Replace(w, WithFinalAnchorPSBT(held[w], psbt))
        /\ UNCHANGED <<store, requested, published>>

\* PublishCustomAnchorTransfer hands over the sanitized PSBT, not the caller's.
Publish(w) ==
    /\ held[w] # None
    /\ \E psbt \in SuppliedPsbts \cup {held[w].anchor} :
        /\ FinalAnchorAccepted(held[w], psbt)
        /\ published' =
              published \cup {WithFinalAnchorPSBT(held[w], psbt).anchor}
    /\ UNCHANGED <<held, store, requested>>

Crash(w) ==
    /\ held[w] # None
    /\ Replace(w, None)
    /\ UNCHANGED <<store, requested, published>>

\* Damage at rest, or a write torn between two snapshots: the contents change,
\* the digests do not follow.
DamageStore ==
    /\ Validate(store)
    /\ \/ \E b \in Bodies : store' = [store EXCEPT !.body = b]
       \/ \E psbt \in DamagedPsbts : store' = [store EXCEPT !.anchor = psbt]
       \/ \E psbt \in DamagedPsbts : store' = [store EXCEPT !.committed = psbt]
    /\ UNCHANGED <<held, requested, published>>

Next ==
    \/ \E w \in Workers :
          \/ Load(w)
          \/ Save(w)
          \/ DeriveRequests(w)
          \/ ApplyKeyPathSignature(w)
          \/ ApplyScriptPathWitness(w)
          \/ Finalize(w)
          \/ Publish(w)
          \/ Crash(w)
    \/ DamageStore

Spec == Init /\ [][Next]_vars
-----------------------------------------------------------------------------
(* Properties *)

Holding == {w \in Workers : held[w] # None}

\* The type invariant: packages, requests and final PSBTs are what they claim to
\* be.
TypeOK ==
    /\ held \in [Workers -> Packages \cup {None}]
    /\ store \in Packages
    /\ requested \subseteq SigningRequests(Sealed)
    /\ published \subseteq PSBTs

\* Damage never reaches a worker: whatever a worker holds still carries the
\* plans and the committed PSBT that Commit sealed, and only signatures and
\* witnesses that were verified when they were applied
\* (custom_anchor_package.go:1248 decodes into a temporary and validates it).
HeldIsGenuine ==
    \A w \in Holding :
        /\ held[w].body = SealedBody
        /\ held[w].committed = CommittedPsbt
        /\ \A i \in Inputs :
              /\ held[w].anchor.final[i] \in ConsensusValid \cup {None}
              /\ held[w].anchor.final[i] = None =>
                     held[w].anchor.keySig[i] \in ValidKeySigs \cup {None}

\* Whatever reaches the backend spends exactly the committed transaction, with
\* the committed metadata, and every external input by the path sealed for it
\* at commit time (docs/design/advanced-custom-anchor-transactions.md:420).
PublishedIsAuthorized ==
    \A psbt \in published :
        /\ psbt.tx = CommittedPsbt.tx
        /\ psbt.meta = CommittedPsbt.meta
        /\ \A i \in Inputs :
              /\ psbt.final[i] \in ConsensusValid
              /\ CASE PlanOf[SealedBody][i] \in KeyPlans ->
                        psbt.final[i] = "keyPath"
                   [] PlanOf[SealedBody][i] = "scriptPath" ->
                        psbt.final[i] = "scriptPath"
                   [] PlanOf[SealedBody][i] = "callerSigned" ->
                        psbt.final[i] # "annexed"
                   [] OTHER -> TRUE

\* A request derived from any snapshot stays answerable on every other one:
\* IDs bind the committed package, which applying signatures does not change
\* (custom_anchor_package.go:100).
RequestsStayAnswerable ==
    \A w \in Holding : requested \subseteq SigningRequests(held[w])

\* Applying a signature or a witness to a package never replaces or drops one
\* it already carries; only complete finalization does.  (Beside a final witness
\* a key signature is not part of a package: serialization leaves it out.)
AuthorizationsAreKept ==
    [][\A w \in Workers :
          held[w] # None /\ held'[w] # None =>
              \/ AllAnchorInputsFinalized(held'[w].anchor)
              \/ \A i \in Inputs :
                    /\ held[w].anchor.final[i] \in
                          {None, held'[w].anchor.final[i]}
                    /\ held[w].anchor.final[i] = None =>
                          held[w].anchor.keySig[i] \in
                             {None, held'[w].anchor.keySig[i]}]_held

\* Claimed by the design document: "Signers may add PSBT signature and
\* final-witness fields" (:248) to the current PSBT.  A valid signature that
\* answers an outstanding request for an untouched input is accepted, whatever
\* was applied to the other inputs.
ValidKeySignatureAccepted ==
    \A w \in Holding, i \in Inputs, sig \in ValidKeySigs :
        /\ PlanOf[SealedBody][i] \in KeyPlans
        /\ held[w].anchor.keySig[i] = None
        /\ held[w].anchor.final[i] = None
        => KeyPathSignatureAccepted(held[w], RequestID(held[w], i), i, sig)

\* Claimed by the design document (:290): VerifyFinalAnchorPSBT compares all
\* non-signature PSBT metadata with the frozen committed transaction.
VerifiedMetadataMatches ==
    \A w \in Holding, psbt \in SuppliedPsbts :
        VerifyFinalAnchorPSBT(held[w], psbt) => psbt.meta = CommittedPsbt.meta
=============================================================================
