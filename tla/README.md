# TLA+ models of tap-sdk

tap-sdk is a Go SDK over the RPCs of `tapd` (Taproot Assets). Most of it turns
Go values into RPC messages and back. Its own logic sits in a few places: the
*custom anchor* transfer, where the caller builds a Bitcoin transaction that
several parties fund and sign and the SDK must hold `tapd`, the signers and
storage to the plan the caller inspected; the *unconfirmed proof paths* such
transfers are chained by; the transaction builders and one-shot calls that send
assets, and the wallet's views of what is left; the high-level minting calls,
which sequence five RPCs against shared batch state, and the coordinator that
runs them for remote signers; and the event listener, a reconnecting
subscription with a start/stop protocol. These are modelled here, model-checked
with TLC, and their most important properties proved with TLAPS for every value
of the constants. Paths below are relative to the repository.

Contents: [Inventory](#1-inventory) - [Modules and code](#2-modules-and-the-code-they-model)
- [Runs](#3-runs) - [Findings](#4-findings) - [Proofs](#5-proofs)
- [Only model-checked](#6-only-model-checked) - [Not modelled](#7-not-modelled)
- [Plan](#8-plan).

To repeat everything, in this directory:

    tlc -config CustomAnchorSigning.cfg MCCustomAnchorSigning.tla
    tlapm CustomAnchorSigning_proofs.tla

## 1. Inventory

| Component | Source | State | Operations | Hard behaviour |
| --- | --- | --- | --- | --- |
| Custom-anchor builder | `custom_anchor_builder.go`, `_types.go`, `_fields.go` | none: a plan is an immutable value | `Build`, plan accessors | amounts per asset, packet-to-output mapping, policy combinations |
| Commit verification | `custom_anchor_lifecycle.go` (verify*), `_builder.go`, `_package.go` | none | checks on the backend's signatures and answer, derivation of the package's summaries, its structural validation | value hidden in perturbed inputs, outputs, change, locks; proofs or recipients exchanged |
| Custom-anchor lifecycle | `custom_anchor_lifecycle.go` | in the host: the persisted package; in tapd: leases, logged transfers | `Commit`, `PublishCustomAnchorTransfer` | timeouts, lost or late answers, crash in a call, rejection or ambiguity |
| Custom-anchor signing, package | `custom_anchor_signing.go`, `custom_anchor_package.go` | sealed package: committed PSBT, current PSBT, plans, three digests | derive requests, apply signature or witness, verify, finalize, encode, decode | several workers on clones, damage at rest, any order of Apply calls |
| Custom-anchor capabilities | `custom_anchor_capabilities.go` | capability report of the client | require | the backend changes between commit and publish |
| Unconfirmed proof paths | `custom_anchor_proof_path.go`, `_confirm.go` | a confirmed base and a chain of unconfirmed steps, each with nested paths of its other inputs | `Validate`, codec, `Verify`, `ConfirmProofFile` | steps are checked one by one; two size computations; reorganised hop |
| Issuer | `issuer.go`, `mint.go` | `Wallet.issuerMu`; in tapd: the open batch, records | `CreateFungible`, `IssueFungible`, `CreateNFT`, `CreateCollection`, `MintCollectionItem` | requests name no batch, partial failure after staging, retries in doubt, other minters |
| Event listener | `event_listener.go`, both `event_client.go` | `running`, `cancel`, wait group, one goroutine per stream with retries and backoff | `Start`, `Stop`, handlers, reconnection | Stop against Start, drain against error, retry bookkeeping |
| Transaction builders | `tx_builder.go`, `interactive_tx_builder.go`, `virtual_psbt.go` | recipients, funded, signed, anchor and passive packets, change and locks | setters, `Fund`, `Sign`, `Commit`, `Finish`, `Execute` | calls out of order, repetition after an error or a lost answer |
| Wallet operations | `wallet.go`, `send.go`, `burn.go`, `balance.go`, `recipient.go`, `backup.go` | none | send, burn, balance, receive, list, export | amounts given twice or not at all; aggregation of one asset over groups |
| Ownership proofs | `ownership.go` | none | prove, verify | binding of the challenge |
| Universe client | `universe.go` | none | paginated queries | end of pagination |
| Addresses, references, fee rates | `address.go`, `asset_ref.go`, `fee_rate.go`, ... | none | parse, convert | rounding |
| Errors, requests, entities | `errors.go`, `requests.go`, ... | none | data types | - |
| gRPC and REST transports | `grpc/`, `rest/` | connection | one RPC per call | per-call timeout (`rest/transport.go:134`), status mapping |
| Macaroons | `auth.go`, `macaroon/` | none | load credentials | - |
| Internal codecs | `internal/` | none | PSBT encodings | - |
| Coordinator demo | `demos/remote-signing-coordinator/server/` | sessions, mint lock, signature rendezvous, batch watchers | HTTP handlers, one goroutine and one watcher per session | a session waits for a remote signer with the lock held; a watcher outlives its session |
| Dashboard, integration tests | `demos/.../dashboard`, `itest/`, `tools/` | - | - | - |

How they interact. A host calls the builder, which has `tapd` verify proofs (and
proof paths their own steps, through the host's verifiers); then `Commit`, which
has the backend sign, sends the plan to `tapd` and runs *commit verification* on
the answer; what passes is sealed in a *package*. The package is stored, loaded by
signing workers, signed through requests sent to outside signers, finalized, and handed to
`PublishCustomAnchorTransfer`. Two transaction builders and the one-shot calls
compete for the coins of one wallet, which `tapd` selects; the wallet's views
aggregate the same coins. An issuer call holds its wallet's lock and drives
the mint client of the transport; the coordinator runs one issuer call per
session, under a lock of its own, and listens to `tapd`'s mint events. The
listener calls the transport's event client and the host's handlers from its own
goroutines. Nothing in the SDK persists anything: durable state is the host's
package and `tapd`'s.

What makes each correct, for the modelled components:

* Signing and package: no storage damage or other worker can put anything but
  the sealed plan and verified authorizations into a package a worker holds;
  only the committed transaction, spent along sealed paths, is published;
  outstanding requests stay answerable; no applied signature is lost.
* Builder: the plan does what was asked and nothing else: outputs as requested,
  nothing lost or burned beyond what was confirmed, every co-anchored asset
  moved once, each coin signed by whom its owner named.
* Commit verification: no answer that passes costs the wallet more than the
  plan's maximum or moves the caller's value; the lock inventory is exact; the
  package hands every recipient the proofs of its outputs.
* Proof paths: what `Verify` accepts exists and can be mined; a mined path
  becomes a proof file the backend accepts; what was stored is loaded again.
* Lifecycle: at most one transaction is logged however calls fail; success is
  real; no lease is forgotten; a parent that cannot be relayed alone is never
  broadcast; a logged transfer is eventually known to be.
* Issuer: a call never returns an earlier call's mint; two calls never the same;
  a resolve timeout is no rejection; failures leave no batch behind; calls return.
* Coordinator: all of the issuer's, for its sessions; a session that ended stays
  as it ended.
* Builders and wallet: a transfer is paid once per funding asked for, pays what
  addresses and callers say, and is published from one round of calls; all views
  of the wallet add up to the same amounts.
* Event listener: no second goroutine for a stream; no event dropped on the way
  to the handler; retries as configured; `Stop` returns.

## 2. Modules and the code they model

`EXTENDS` goes upwards in each group; `MC*` modules give constants their values.

    AnchorPsbt <- CustomAnchorPackage <- CustomAnchorSigning <- MCCustomAnchorSigning
                                                             <- CustomAnchorSigning_proofs
    AnchorRequest, CommittedAnchor <- AnchorBuilder <- PackageContents
                    <- CommitVerification <- MCCommitVerification, CommitVerification_proofs
    CommittedAnchor <- CustomAnchorLifecycle <- MCCustomAnchorLifecycle
                                             <- CustomAnchorLifecycle_proofs
    CustomAnchorTransfer: abstract specification, INSTANCEd by CustomAnchorLifecycle
    AssetProofPath <- ProofPaths <- MCProofPaths, ProofPaths_proofs
    AssetViews <- SendRecipients <- WalletTransfers <- MCWalletTransfers, WalletTransfers_proofs
    EventListener <- MCEventListener, EventListener_proofs
    Issuer <- MCIssuer
           <- Coordinator <- MCCoordinator, Issuer_proofs
    Sums: lemmas about sums over finite sets, for CommitVerification_proofs,
          WalletTransfers_proofs, EventListener_proofs and ProofPaths_proofs

**AnchorPsbt, CustomAnchorPackage** are pure operators. A PSBT is its unsigned
transaction, its metadata that survives finalization, the metadata that does
not, and per input a key signature and a final witness; witnesses are classified
by what the SDK's checks and Bitcoin consensus tell apart (sealed leaf or
another, declared signers and sighash or not, annexed, invalid). A package is
`[body, committed, anchor, digests]`; `Seal`, `Validate`, `SigningRequests`,
`KeyPathSignatureAccepted`, `ScriptPathWitnessAccepted`, `FinalAnchorAccepted`
and `WithFinalAnchorPSBT` follow the methods of the same names. A digest is the
tuple of what it binds, i.e. collision free. The structural checks on the
package's mappings do not matter once a digest binds them: they are one opaque
`body`.

**CustomAnchorSigning**: `held[w]` is a worker's in-memory package, `store` the
persisted bytes, `requested` the request IDs given out, `published` what reached
the backend. `Load`/`Save` are the codecs with their validation,
`ApplyKeyPathSignature`, `ApplyScriptPathWitness`, `Finalize` and `Publish` the
methods; a method that returns an error is no step, because packages are cloned
before they are changed. `Crash` and `DamageStore` are the environment.

**AnchorRequest** is what a caller may ask for and `Valid`, the checks `Build`
makes before it calls anybody: identifiers, proofs, amounts per asset with their
wrapping and checked sums, allowed losses, policies and their combinations.
**AnchorBuilder** is `Build`: `live` is the caller's own request, `request` the
copy, `stage` the statement `Build` waits at; `ResolveInputs`,
`ResolveOutputs`, `BuildActivePackets`, `ResolvePassivePackets` and
`PrepareAnchor` are its phases, each of which may end in an error, and `Edit` is
the caller who reuses its request meanwhile. How coins are split over outputs is
tapd's library: any distribution that conserves each issuance is allowed, and
`mapCustomAnchorOutputs` (`Candidates`, `AmountsMapped`) has to find back what
belongs to whom. A script key is what makes it: the caller's key, the issuance
it was made unique for, or the coins a burn commits to.

**CommittedAnchor** holds `Accepts(plan, answer)`, the conjunction of the checks
of `Commit` on shape, transaction sanity, fee and lock inventory.
**PackageContents** is the rest of `Commit`: what the backend may have changed
when it signed a packet (`SignedKept`), agreement of the committed packets,
proof suffixes and commitment roots with the plan (`PacketsKept`), the summaries
the SDK derives of them (`PackageOf`), the preview of output commitments, and
`StructureValid`, which `Seal` and `Validate` apply to a package whoever made it.
**CommitVerification** composes them: `Build`, then `Commit` with any signatures
and any answer, then one edit by a host that seals the package again. It states,
independently of the individual checks, what an accepted answer may cost and
what a sealed package must deliver. For `PreviewIsFinal`: the leaves of a
commitment leave the witnesses out, since the builder makes every asset
`asset.V1`; this is why roots can be known before signing.

**AssetProofPath** is the pure part of proof paths: `Validate` with the shape
limits, sizes as charged and as encoded, the codec with its checksum,
`VerifyChain` (every step on its own anchor transaction, its inputs, its
co-input paths and their identity and amounts), and `ConfirmProofFile`. A path is
a tree, kept as a function from positions to nodes: the code's recursion over
co-input paths is a quantifier over positions, and nesting depth the length of a
position. A confirmed file is the lineage it is about and the set of lineages its
proofs embed at any depth. Which proof embeds which file does not matter beyond
the outpoints each one merged (`merged`), because the backend accepts a file only
if all that it embeds is anchored.
**ProofPaths** puts a host around it: `Sign` makes a set of transactions known,
`Mine` and `Reorg` are the chain, `Begin`, `Extend`, `Confirm`, `Store`, `Load`
work on the paths in `held` and `stored`, `Crash` and `Damage` do as they say.
`Extend` appends anything that fits the tip, because `Append`ing is the host's
affair and `Verify`'s to judge. The reference is `Ledger`: the least set of
outpoints that has the mints and every output the protocol allows to be made of
its members (`Genuine`, `Complete`). Nothing in it looks at a path.

**AssetViews** are the wallet's read operations over one set of coins: asset,
collection and issuance listings, balances by group and by issuance, exports and
the choice of ownership proofs, each aggregating as its own code does.
**SendRecipients** decodes addresses, settles each amount between address and
caller (`Normalised`, `RecipientsValid`) and decides between the two request
forms. **WalletTransfers** is one wallet with three users: `builder` is a
`TxBuilder` (recipients, the four packets it keeps, change and locks, and where
`Execute` is), `interactive` an `InteractiveTxBuilder`; `Send`, `SendMulti` and
`Burn` are single calls. tapd selects coins (`Selections`), logs transfers,
confirms them. Every call may fail, or be carried out while its answer is
lost. `again` counts the reasons the caller has to expect a second payment: that
it asked for another funding, or repeated a one-shot call whose answer was lost.
`stage` is a history of whether the host's calls came in order.

**CustomAnchorTransfer** is the promise: freeze, give up while unlogged, log the
frozen transaction. **CustomAnchorLifecycle** is the code. `call`, `requests`,
`reply` are the RPC in progress, and requests and answer under way; `phase`,
`pkg`, `releasable`, `doubtful` are what the host persists; `leases`, `logged`,
`broadcast` are tapd's. `StartCommit` .. `CommitFailed` and `StartPublish` ..
`PublishRejected` are the branches of `Commit` and
`PublishCustomAnchorTransfer`; `CommitOutcomeUnknown` and
`PublishOutcomeUnknown` are the error classification; `OutcomeLost` is a
timeout, a cancelled context, or the host's crash in the call. The host's
recovery (`ReconcileCommit`, `ReconcilePublish`, `Abandon`, `Release`) is not SDK
code: it is the procedure of
`docs/design/advanced-custom-anchor-transactions.md:577-629` and marked external,
as is tapd.

**Issuer**: `at[c]` is the statement a minting call is at, `holder` the wallet's
`issuerMu`, `before` the record IDs listed before staging, `result` what the call
returned. The five methods differ only in the record they stage and recognise,
`SpecOf`. `batches` and `visible` are tapd's; a request whose answer is lost was
executed, never will be, or (`Late`) will be after its call returned; `lost`
remembers calls whose staging or cancellation was not acknowledged. Foreign
assets are minted by other users of the same daemon, who stage into, finalize
and cancel the one open batch. A frozen and a committed batch behave alike, so
`Frozen` stands for both.

**Coordinator** EXTENDS Issuer by the demo server: `run[s]` is the statement
`runSession` is at, `status[s]` what the dashboard shows, `mintMu` the lock
around the issuer call, `letter[s]` the channel a posted signature travels
through, `unsigned[s]` how many signing requests the call still has, and
`news`, `tracked`, `heard` the watcher's event channel, the batch it follows and
the result it left. `MintStep` is a step of the issuer call, `TakeSignature` the
signer's return. Every step is a step of Issuer or leaves its variables alone
(proved), so what holds of issuer calls holds of sessions. The watcher follows
the first batch it hears of, whoever opened it.

**EventListener**: `running`, `generation` (whose context `l.cancel` belongs to)
and `stopping` are the listener under its mutex; `thread[s, g]` is the goroutine
`Start` number `g` launched for stream `s`, at its place in `runStream`,
`drainEvents` or the backoff sleep, with its retry counter and backoff and the
two channels of its subscription. `StopCancels`, `StopWaited`, `StopClears` are
the three parts of `Stop`, of which the middle one runs without the lock.
`handled` records handler calls.

The variants marked "Faulty variant" in the modules are plausible bugs (a
dropped comparison, a missing reset, a lock not released). Each property is
violated when one of them replaces the definition it follows, which
shows that the property depends on that code.

## 3. Runs

| Configuration | Module | Distinct states | Shows |
| --- | --- | --- | --- |
| `CustomAnchorSigning.cfg` | MCCustomAnchorSigning | 2,480 (symmetry) | `HeldIsGenuine`, `PublishedIsAuthorized`, `RequestsStayAnswerable`, `AuthorizationsAreKept` |
| `CommitVerification.cfg` | MCCommitVerification | 138,514 | plan: `OutputsAsRequested`, `BurnsAllowed`, `ValueConserved`, `SignersAsRequested`; answer: `WalletCostBounded`, `CallerValueKept`; package: `InventoryIsTheWallets`, `EveryOutputIsProven`, `PreviewIsFinal` |
| `CustomAnchorLifecycle.cfg` | MCCustomAnchorLifecycle | 98,491 | `ImplementsTransfer`, `LeasesAreAccounted`, `DoneMeansLogged`, `P2AParentNotBroadcast`, `LoggedWithinBudget`, `LoggedTransfersComplete` |
| `ProofPaths.cfg` | MCProofPaths | 205,875 (symmetry) | `VerifiedIsGenuine`, `MinedPathsConfirm`, `PathsWithinLimitLoad` |
| `WalletTransfers.cfg` | MCWalletTransfers | 464,851 | `PaidOnce`, `PaidAsAsked`, `PublishedIsCoherent`, `WalletViewsAgree` |
| `EventListener.cfg` | MCEventListener | 24,920 | `OneGoroutinePerStream`, `NothingSentIsLost`, `RetryPolicyKept`, `StopReturns` |
| `Issuer.cfg` | MCIssuer | 31,844 | another minter and late requests: `ResultIsOwn`, `TimeoutMeansAccepted`, `CallsReturn` |
| `Coordinator.cfg` | MCCoordinator | 3,694,688 (symmetry) | two sessions, another minter and late requests: `NoRecordReturnedTwice`, `StrandedOnlyByLoss`, `SessionsEndOnce` |
| `MixedSigning.cfg` | MCCustomAnchorSigning | - | finding F1 (violation) |
| `FinalMetadata.cfg` | MCCustomAnchorSigning | - | finding F2 (violation) |
| `ConcurrentStops.cfg` | MCEventListener | - | finding F3 (violation) |
| `ProofPathSize.cfg` | MCProofPaths | - | finding F4 (violation) |

The signing, lifecycle, listener and issuer runs also check their `TypeOK`. The
other passing runs have no type invariant; what is in their variables is
constrained by stronger properties.

Bounds, and why they are enough to be interesting:

* *Signing*: two workers, for clones that diverge and overwrite each other; four
  inputs, one per kind of plan that differs in control (key path, script path,
  caller-signed, backend-managed; `muSig2` is checked like key path). An external
  finalizer may return partial or full PSBTs on the right or another transaction,
  with right or drifted metadata and every class of witness; damage hits the
  body, transaction, metadata, a signature or a witness. Workers are
  symmetric: no definition singles one out. Few states, because most steps are
  refused; the invariants quantify over the many refused inputs.
* *Commit verification*: four coins of two issuances of one group, for packets of
  one asset that have to be split; one of them shares its anchor with a coin of
  another asset, for passive packets. One or two inputs, one or two outputs of
  every amount, script and anchor output, every loss policy, in `MaxAmount = 3`,
  small enough for sums to wrap around. `MaxSatoshi` is 21, so that values reach
  zero, the maximum fee and one above. For the simplest request every funding
  and change policy, with answers that perturb each caller field, append up to
  two coins and a change output, choose any change index and lie about locks
  (about 150,000 answers per plan, of which some twenty are accepted); for the
  other requests answers that exchange, drop or redirect suffixes, and a signer
  that pays somebody else or signs badly. One edit of a package: of one field or
  one entry of its lists.
* *Proof paths*: ten transactions, of which three are legal and combine to a
  nested merge, and three break one rule each (an input that is not spent, two
  identities, a second asset in the output); up to three are signed together.
  Two slots: a merge needs two paths. Two steps, one co-path, nesting one are the
  limits of the code, made small, and `Extend` may exceed the first by one, so
  that each is met and exceeded. One block above the mints and one
  reorganisation: the block that replaces a disconnected one is another.
  `MaxPathSize` is out of reach, so that `PathsWithinLimitLoad` is about the other
  limits, and near in `ProofPathSize.cfg`.
* *Wallet transfers*: two fundings, commits, transfers and setter calls each: one
  more of each than a single send needs, hence every repetition. Four coins:
  two issuances of a group, and an item that shares an anchor with one of them.
  A lease only makes a coin unavailable for a while; any coin no pending
  transfer spends can be funded, which allows more than tapd does.
* *Lifecycle*: `MaxAttempts = 4`: two commits and two publications, the fewest
  calls that could log two different transactions. Two wallet coins make the
  second commit freeze another transaction; one answer exceeds the budget; two
  capability profiles, with and without skip-broadcast. One ambiguous and one
  explicit gRPC code, and `Unknown`, which tapd also returns for plain errors and
  so occurs on either side.
* *Event listener*: one stream, since streams share only the context and the
  wait group (a run with two streams passes too, at 817k states); two starts, so
  that a goroutine of the first could meet one of the second; two buffered
  events, so that some are left when the stream breaks; two retries, enough to
  reach the backoff's cap. `MaxRetries = 0` (retry for ever) is outside the model.
* *Issuer*: two calls for the same asset, the situation of a caller who repeats a
  call that failed, one of them with an external signer; another minter whose
  asset looks the same; requests that outlive their calls. (Three calls alone on
  the daemon pass too, at 12k states.)
* *Coordinator*: two sessions for the same asset, another minter whose asset looks
  the same and itself needs a group signature, late requests, a miner. Sessions
  are symmetric.

Deadlock is not checked: each system legitimately stops (everything is done, or
the bound on calls or starts is used up, the user never posts a signature). The
liveness properties show instead that what must end does.

Fairness, which is assumed only of what the code schedules:

* Lifecycle: `OutcomeLost`, because every call ends at a deadline (the REST
  transport sets one for each request, a gRPC call ends with its context), and
  `ReconcilePublish`, because a host that follows the documented recovery looks
  an unknown publication up. tapd and the network owe nothing.
* Event listener: a cancelled goroutine gets on (the scheduler runs it, a select
  with a ready case returns, a dial or receive gives up with its context,
  handlers return), and so does a `Stop` that may.
* Issuer: a call goes on, as requests and signers answer or time out and
  `sync.Mutex` does not starve its waiters. tapd and the chain owe nothing.

The other specifications state no fairness: their properties are safety
properties. In the coordinator nothing has to end: the user owes no signature.

## 4. Findings

**F1, `MixedSigning.cfg`.** A package with a key-path and a script-path plan
cannot be signed with the two Apply operations. The first script-path witness
finalizes its input; from then on `compareCommittedAnchorPSBTMetadata`
(`custom_anchor_package.go:1343`) allows only final witnesses beyond the
committed packet, and the `TaprootKeySpendSig` that `ApplyKeyPathSignature`
adds elsewhere makes validation fail. The other order fails likewise. The design
document (`:248`) says "Signers may add PSBT signature and final-witness fields."

**F2, `FinalMetadata.cfg`.** The design document (`:290`) says that
`VerifyFinalAnchorPSBT` compares all non-signature metadata with the committed
transaction. The function (`custom_anchor_signing.go:529`) compares the
unsigned transaction and the witnesses; other metadata of the supplied PSBT is
never read. This is harmless for publication, which hands over a PSBT rebuilt
from the committed one: `PublishedIsAuthorized` includes the metadata and holds.

**F3, `ConcurrentStops.cfg`.** "Safe to call multiple times" (`event_listener.go:225`)
holds for calls one after the other. With two concurrent `Stop`s, the first can
return and the listener be started again before the second clears `running`
(`:235`): the new goroutines live on under a listener that says it is stopped,
and the next `Start` doubles them. (Go's `sync.WaitGroup` may also panic on such
a reuse.) `OneListener` is proved for a single controller.

**F4, `ProofPathSize.cfg`.** `validateShape` (`custom_anchor_proof_path.go:335`)
charges four bytes and the proof for each step, but `marshalBody` (`:1150`) also
writes a two-byte count of the step's co-input paths. A path within two bytes per
step of the limit passes `Validate` and is encoded, and `UnmarshalBinary` then
refuses it: a host cannot load what it stored. The comments (`:34`, `:283`) say
that the limit bounds, and the budget accumulates, the *encoded* size.
This is the only disagreement: a path whose encoding is within the limit is
loaded (`PathsWithinLimitLoad`, proved).

One more divergence has no run of its own. The coordinator's README
(`demos/remote-signing-coordinator/README.md:45`, `:116`) says a session waits
for its batch to be final; the watcher follows the first batch it hears of
(`server/mint_events.go:105`). After a session failed with `ErrMintResolveTimeout`
its batch can confirm while the next session waits, which is then shown as
finalized for it. The model has this behaviour; what does hold of a session's end
is `SessionsEndOnce`.

## 5. Proofs

`tlapm` checks every obligation of the eight modules with theorems: seven proof
modules, and `Sums`, which four of them cite. No assumption is made but these,
named in the modules and evaluated by TLC in the runs:

* `NoneAssumption` (three), `NoPackageAssumption`, `CallAssumption`: model values
  are distinct from what they stand beside.
* `PlanAssumption` (each input has one plan), `SealedAssumption` (Commit seals
  before anything is signed), `SuppliedAssumption`, `BoundAssumption` (types of
  constants; in the listener they are positive, so `MaxRetries = 0`, which
  retries for ever, is outside the theorems as it is outside the model).
* `BuilderAssumption`: requests are made of Go slices and non-negative amounts,
  and an issuance belongs to one group or to none.
* `WalletAssumption`: the same for recipients and asks; the wallet holds finitely
  many coins, a transfer's anchor is a new transaction, no asset ID is a group key.
* `HoldingsAssumption`: what tapd guarantees of a wallet's assets. A group is of
  items or of fungible issuances; the wallet holds an item once, as one unit; of
  no asset it holds more than a `uint64` can say. Without the last the SDK's sums
  saturate (`wallet.go:683`), and so would the views; the theorem that no transfer
  destroys this property is part of `WalletInvariant`.
* `SessionAssumption`: the assets of others that need a group signature are assets
  of others. (That every session's call has an external signer is how `Sessions`
  is defined.) The theorems about the issuer alone do not use it.
* `LimitAssumption`: limits and sizes of proof paths are natural numbers, of any
  value. `OutputAssumption`: every anchor transaction has an output.
  `HostAssumption`: the host signs transactions that are in the model, and keeps
  finitely many paths. The transactions themselves are arbitrary, and illegal ones
  among them are what the theorems are about.
* `FailureAssumption`: tapd never answers a call that took effect with one of the
  six gRPC codes that report a rejection. This is the contract on which the SDK's
  classification rests.

| Module | Theorem | Statement |
| --- | --- | --- |
| CustomAnchorSigning_proofs | `TypeCorrect` | `[]TypeOK` |
| | `HeldPackagesAreGenuine` | `[]HeldIsGenuine` |
| | `PublicationIsAuthorized` | `[]PublishedIsAuthorized` |
| | `RequestsAreStable` | `[]RequestsStayAnswerable` |
| | `AuthorizationsStay` | `AuthorizationsAreKept` (action property) |
| CustomAnchorLifecycle_proofs | `TypeCorrect` | `[]TypeOK` |
| | `SuccessIsReal` | `[]DoneMeansLogged` |
| | `LifecycleImplementsTransfer` | `Spec => ImplementsTransfer` |
| | `LoggedObeysPlan` | `[]LoggedWithinBudget` |
| | `NoLeaseIsForgotten` | `[]LeasesAreAccounted` |
| | `ParentsWait` | `[]P2AParentNotBroadcast` |
| CommitVerification_proofs | `SigningIsAsRequested` | `[]SignersAsRequested` |
| | `PlansAreValidated` | `[]PlanIsValidated`: a plan is of a request that passed every check |
| | `OutputsAreAsRequested` | `[]OutputsAsRequested` |
| | `BurnsAreAllowed` | `[]BurnsAllowed` |
| | `ValueIsConserved` | `[]ValueConserved` |
| | `CallerKeepsValue` | `[]CallerValueKept` |
| | `WalletCostIsBounded` | `[]WalletCostBounded` |
| | `InventoryIsExact` | `[]InventoryIsTheWallets` |
| | `PreviewHolds` | `[]PreviewIsFinal` |
| | `ProofsReachRecipients` | `[]EveryOutputIsProven` |
| WalletTransfers_proofs | `WalletInvariant` | `[]Inv`, the inductive invariant |
| | `PaysWhatIsAsked` | `[]PaidAsAsked` |
| | `PublishesCoherently` | `[]PublishedIsCoherent` |
| | `PaysOnce` | `[]PaidOnce` |
| | `ViewsAgree` | `[]WalletViewsAgree` |
| EventListener_proofs | `TypeCorrect` | `[]TypeOK` |
| | `OneListener` | one controller: `[]OneGoroutinePerStream` |
| | `EventsReachHandlers` | any number of controllers: `[]NothingSentIsLost` |
| | `RetriesFollowPolicy` | any number of controllers: `[]RetryPolicyKept` |
| Issuer_proofs | `TypeCorrect` | `[]TypeOK` |
| | `OneCallPerRecord` | `[]NoRecordReturnedTwice` |
| | `NothingStranded` | `[]StrandedOnlyByLoss` |
| | `OwnResult` | any daemon: `[]ResultIsOwn` |
| | `TimeoutIsNoRejection` | any daemon: `[]TimeoutMeansAccepted` |
| | `CoordinatorIsAnIssuer` | `CoordinatorSpec => Spec` (of Issuer) |
| | `OneSessionPerRecord` | `[]NoRecordReturnedTwice` for sessions |
| | `SessionsStrandNothing` | `[]StrandedOnlyByLoss` for sessions |
| | `EndIsFinal` | `SessionsEndOnce` |
| ProofPaths_proofs | `InvHolds` | `[]Inv`, the inductive invariant |
| | `VerifiedPathsAreGenuine` | `[]VerifiedIsGenuine` |
| | `MinedPathsBecomeFiles` | `[]MinedPathsConfirm` |
| | `WrittenPathsAreRead` | `[]PathsWithinLimitLoad` |

How the arguments go:

* *Signing.* `HeldIsGenuine` alone is not inductive: `Load` takes whatever the
  store holds. The invariant adds that *if* the stored package validates it is
  genuine. Damage either leaves the contents as they were or makes a digest
  disagree, so nothing damaged validates; each Apply verified what it added.
  `AuthorizationsStay` needs of an Apply call only that it checked what it was
  given against what it holds, input by input, and added to that.
* *Lifecycle.* Two facts carry it. A publish request under way asks for the
  package's transaction, and its call is open or in doubt. And once a
  transaction is logged, the host is done, or a publication is in doubt, or the
  call that logged it is open and cannot return a rejection
  (`FailureAssumption`). `Abandon` needs no doubt and no open call, so it happens
  only before anything is logged. `LoggedObeysPlan` carries `Accepts(plan, pkg)`
  from the answer into the package, the requests and the log, and takes the
  budget from it. The refinement maps the package's transaction
  to `frozen`; client and network steps stutter but for sealing, abandoning,
  logging.
* *Leases.* Each lease names its commit call. While that call is open an answer
  either lists its leases in full or is ambiguous; requests take effect once.
  *Parents:* the skip flag is forced at commit, kept in the package, copied into
  each request, and only sent to a backend that honours it.
* *Sums.* The provers have no induction over data, so `Sums` derives it from
  well-foundedness of cardinality: a property of finite sets that fails somewhere
  fails at a set all of whose proper subsets have it (`MinimalSubset`). From this
  follow that the community modules' `SumFunction` satisfies the usual recursion
  (`SumRecursion`), and the lemmas the proofs need: union, congruence, reindexing along a
  bijection, summation by blocks (`SumByBlocks`), monotonicity, and that a sum
  no smaller than one which bounds it term by term is equal to it term by term.
* *Builder.* The request stays what `Build` copied and checked, and each phase
  leaves what it established of the packets (`PlanInv`); `Planned` is what that
  makes of a plan. A packet reaches a plan only through `BuildActivePackets`, which
  refuses mixed witnesses and unknown keys. Edits touch the caller's own request
  only.
* *Amounts of a plan.* The outputs of a packet are slots of one distribution of its
  coins, so each issuance pays what it holds (`IssuancePays`), and grouping the slots
  by what they were made for gives the requested amounts: checked sums that did not
  wrap around are the true sums. The one indirection is `mapCustomAnchorOutputs`,
  which labels outputs by searching for candidates. The first candidate is the right
  one (`LabelsAreTrue`): another could only be an output asked for by asset ID at the
  same anchor output, which its own packet pays in full already, so that
  `AmountsMapped` would find it paid too much. `BurnsAllowed` compares the sum of
  slots labelled as burns with the allowance; `ValueConserved` adds the passive
  packets, whose coins share an anchor with an input but are none.
* *Commit.* What `Accepts` let through is related to the plan position by position
  (`MergedTemplate`): the answer's inputs and outputs are the template's, followed
  by the backend's. Hence the caller's values, and the wallet's cost as the
  value of what follows (`AddedValue`, `ChangedValue`). The lock inventory is the set of
  appended outpoints. A package is what `PackageOf` derived, or differs from it in one
  part that `StructureValid` accepted (`PackagesKeepPackets`).
* *Proofs for recipients.* `StructureValid` makes each proof update agree with the
  packets of the plan: one for every virtual output, and no proof serves two
  since virtual outputs differ in packet, index or role (`OutputsDiffer`). So a
  recipient's proofs are worth what its slots are, which the builder's theorem
  knows; and kept inputs are in bijection with the coins consumed, so
  `ValueConserved` accounts for them.
* *Wallet, paying once.* An anchor is a new transaction for each transfer and a
  confirmed transfer removes its coins, so no two confirmed transfers spend one
  anchor, though any number of logged ones may (`AnchorsInv`). What a `TxBuilder`
  publishes spends the coins of a funding it was given, and it was given at most
  `1 + again` (`HeldInv`): its confirmed transfers inject into its fundings. For
  the other users `CallsInv` counts answers. Repeating `Execute` adds no funding,
  which is where the variant `ExecuteAnew` fails.
* *Wallet, coherence.* `InOrderInv`: a builder that was signed and committed in this
  order since its last funding holds what that commit answered; signing again,
  funding again or injecting a packet takes it back. The re-anchored assets are
  still all of them at publication, or an input was spent by somebody else
  (`AnchorsInv`).
* *Wallet, views.* Holdings stay `Sound`: confirming replaces coins of one asset by
  change that is not worth more, and items, whose fundings are exact, leave no
  change (`ConfirmIsSound`). Each view is then a sum over the same coins, by issuance or
  by group: the sums agree by reindexing and by blocks and nothing saturates; that
  some choice of ownership proofs exists for each amount is `MinimalSubset` again.
* *Listener.* Live goroutines belong to the last start, exist only while
  `running`, and a `Stop` that finished waiting finds none. For
  `EventsReachHandlers`: what a subscription sent is handled or in its queue, and a
  goroutine leaves a broken subscription only with an empty queue. That needs
  neither of the former facts, so any number of controllers may interfere.
  *Retries:* `RetryInv` ties a goroutine's counter and backoff to its reconnections
  since the last event, at each of its places; the configured delay, a capped
  power, is shown to satisfy its recursion by a least counterexample. (The first
  delay is `InitialBackoff` even if that exceeds `MaxBackoff`, as in the code.)
* *Issuer.* The lock makes critical sections disjoint. A returned record was
  visible, so it is in every list taken later. From the moment a call has checked
  that no batch is active, no other call of this wallet stages anything: another
  call's asset is in an open batch, or becomes visible, only if a request of that
  call outlived it. So a record that was not in the list and fits is the call's
  own, a lookalike another user minted meanwhile, or, with late requests, one of a
  call in doubt.
  For `TimeoutIsNoRejection`: tapd loses no staged mint, it only closes its batch,
  and an acknowledged finalization leaves no batch open; that nobody can have
  cancelled the batch of a wallet `Alone` on its daemon is the stronger invariant
  that every active batch holds the running call's asset and no other.
* *Coordinator.* Each of its steps is a step of the issuer call it runs, of the
  daemon, or none of either, so Issuer's theorems carry over. A session's status
  changes while its goroutine is not over, or by an event or a posted signature in
  two statuses which no ended session has.
* *Proof paths, genuine.* The invariant says what a held path is, a finite tree that
  has every co-input path its steps declare (`PathOK`), and that signed and mined
  transactions stay free of conflicts (`WorldOK`). Its longest step is that
  `Extended` makes a tree of trees (`ExtendedOK`). The ledger, the intersection of
  all complete sets, is complete itself (`LedgerTakesGenuine`) and grows with the
  transactions (`LedgerMonotone`). Suppose a node of a verified path goes through
  an outpoint that the ledger lacks. Take a deepest such node and the first such
  outpoint of it (`TipsInLedger`). It is not the base's, which is in the ledger by the
  backend's answer; and a step all of whose inputs are in the ledger makes a
  genuine output (`StepInLedger`), since `VerifyStep` bound the witnesses to the
  predecessor and the tips of the co-input paths, all of them spent, unlocked and of
  one identity, and the amounts agree.
* *Proof paths, confirmed.* The lineage of a node is the proofs of its base and one
  proof for each step (`LineageHasParts`), anchored where the bases and the
  recorded blocks are; what a step merged is the tip of a lineage that the file
  embeds. A reorganisation removes blocks and keeps records, so the property asks
  that the records are of blocks still in the chain, and nothing else. The
  confirmed file is again a base for paths.
* *Proof paths, stored.* The blob of a nested path is no longer than the blob it is
  in (`PartsAreSmaller`: a sum over fewer positions), so if the whole is within the
  limit no part is refused, and decoding inverts encoding (`DecodeInvertsEncode`).
  Without the hypothesis on the size the statement is false: finding F4.

## 6. Only model-checked

* Liveness (`LoggedTransfersComplete`, `StopReturns`, `CallsReturn`): temporal
  reasoning with fairness and `ENABLED` is outside TLAPS's reach here.
* The findings: a counterexample needs no proof.

Every other property the runs check is a theorem. The runs stay: they show that
the theorems are about systems that move, and their mutants that the properties
depend on the code.

## 7. Not modelled

* Cryptography: signatures, script execution and hashes are classified, not
  computed; digests do not collide.
* TLV fields, Taproot trees and PSBT encodings: a script key is what it was made
  of, a commitment the set of its leaves, a proof the transaction and outputs it
  speaks of. Projection of RPC messages into entities and events is modelled
  where it decides about amounts, references or recipients, and nowhere else.
* Handlers that call `Stop` (they would wait for themselves) and external
  signers that call the issuer (they would wait for its lock): the models assume
  handlers return and signers answer. Nothing in the documentation allows either.
* Events missed between a break and the next subscription without replay: no
  delivery guarantee across reconnections is documented.
* Which coins tapd chooses and who re-leases an expired coin: the model lets
  leases expire but coins have no history; see the plan.
* The daemon: modelled only as far as the SDK uses it. The records of a confirmed
  batch are assumed to be visible in the wallet's list, and one batch to be open
  at a time.
* The Universe client (read-only queries; the caller pages), macaroons, internal
  codecs, dashboard, integration tests; of the partly modelled components: text
  formats of addresses and references, fee-rate rounding, import of proofs, key
  derivation, metadata lookups, connections, and the HTTP routing and
  configuration of the coordinator. These convert, format or forward, and keep no
  state.

## 8. Plan

Done, in this order: signing and package, commit verification, lifecycle with its
abstract specification, event listener, issuer; proofs of each; then the builder
and the package's contents below commit verification, proof paths, the wallet's
transfers and views, the coordinator; then proofs of the coordinator, of all the
builder and commit verification promise, of the wallet's transfers and views, of
the listener's retries and of resolve timeouts on a shared daemon; then proof paths
as trees of positions, without recursive operators, and the proofs about them.

Next:

1. An abstract "pay once per funding" that `WalletTransfers` implements.
2. `Leases`: coins with expiry and lock IDs below the lifecycle, for the release
   of an inventory that outlived its leases.
3. The REST and gRPC event clients below the listener: replay from
   `StartTimestamp` and what a break may skip or repeat.
