------------------------------- MODULE Issuer -------------------------------
(***************************************************************************)
(* The high-level minting calls of issuer.go: CreateFungible,              *)
(* IssueFungible, CreateNFT, CreateCollection and MintCollectionItem.      *)
(*                                                                         *)
(* They differ in the record they stage and recognise; all take the lock   *)
(* of their wallet, refuse to start while a batch is active, remember the  *)
(* records that exist, stage one asset, finalize the batch (with an        *)
(* external signer: fund, sign and seal it first), and poll the wallet for *)
(* a record that is new and fits.  tapd has one open batch, which the      *)
(* requests do not name: whoever stages adds to it, whoever finalizes or   *)
(* cancels takes all of it.                                                *)
(*                                                                         *)
(* A request whose answer is lost was executed, or never will be, or, when *)
(* Late, is executed after its call has returned.  Foreign assets are      *)
(* staged, finalized and cancelled by other users of the daemon, through   *)
(* another wallet or the batch operations of MintClient.                   *)
(***************************************************************************)
EXTENDS FiniteSets

CONSTANTS
    Calls,     \* calls of one wallet's issuers; each mints one asset
    External,  \* those with an external issuance signer
    Foreign,   \* assets other users of the daemon mint
    SpecOf,    \* what an asset looks like: type, name, amount and reference
    Late,      \* whether a request may outlive its call
    None

VARIABLES
    at,       \* how far each call is
    holder,   \* the call that holds the wallet's issuer lock
    before,   \* the records each call saw before it staged
    result,   \* the record each call returned
    batches,  \* tapd's mint batches
    visible,  \* the records the wallet lists, unconfirmed mints included
    late,     \* requests still on their way
    lost      \* calls whose staging or cancellation was not acknowledged

client == <<at, holder, before, result>>
tapd == <<batches, visible>>
vars == <<client, tapd, late, lost>>

Assets == Calls \cup Foreign

ASSUME CallAssumption ==
    /\ External \subseteq Calls
    /\ Calls \cap Foreign = {}
    /\ Late \in BOOLEAN
    /\ None \notin Assets

States == {"Pending", "Frozen", "Broadcast", "Confirmed", "Cancelled"}
Batches == [assets : SUBSET Assets, state : States]

Critical ==
    {"checking", "listing", "staging", "funding", "signing", "sealing",
     "finalizing", "cancelling", "resolving"}

Over == {"returned", "timedOut", "failed"}

Init ==
    /\ at = [c \in Calls |-> "waiting"]
    /\ holder = None
    /\ before = [c \in Calls |-> {}]
    /\ result = [c \in Calls |-> None]
    /\ batches = {} /\ visible = {}
    /\ late = {} /\ lost = {}

-----------------------------------------------------------------------------
(* tapd *)

Open == {b \in batches : b.state \in {"Pending", "Frozen"}}

MoveOpen(state) ==
    /\ Open # {}
    /\ batches' = (batches \ Open)
                    \cup {[assets |-> b.assets, state |-> state] : b \in Open}

\* A frozen batch takes no more assets.
TapdStage(id) ==
    /\ \A b \in Open : b.state = "Pending"
    /\ batches' = (batches \ Open)
                    \cup {[assets |-> {id} \cup UNION {b.assets : b \in Open},
                           state |-> "Pending"]}

Perform(request) ==
    \/ request.kind = "stage" /\ TapdStage(request.id)
    \/ request.kind = "finalize" /\ MoveOpen("Broadcast")
    \/ request.kind = "cancel" /\ MoveOpen("Cancelled")

\* A finalization that fails on the way, without funds or a fee, say, leaves the
\* batch frozen.
Refuse(request) ==
    \/ UNCHANGED batches
    \/ request.kind = "finalize" /\ MoveOpen("Frozen")

Replies == {"ok", "error", "lost"}

\* One request and what its caller hears of it.
Request(request, reply) ==
    /\ \/ reply = "ok" /\ Perform(request) /\ UNCHANGED late
       \/ reply = "error" /\ Refuse(request) /\ UNCHANGED late
       \/ reply = "lost" /\ (Perform(request) \/ UNCHANGED batches)
                         /\ UNCHANGED late
       \/ reply = "lost" /\ Late /\ UNCHANGED batches
                         /\ late' = late \cup {request}
    /\ UNCHANGED visible

-----------------------------------------------------------------------------
(* A call *)

Goto(c, step) == at' = [at EXCEPT ![c] = step]

\* Faulty variant: the lock is not released.
LeaveLocked(c, outcome) == Goto(c, outcome) /\ UNCHANGED holder

Leave(c, outcome) == Goto(c, outcome) /\ holder' = None

\* Faulty variant: every call runs at once.
NoLock == TRUE

LockIsFree == holder = None

Lock(c) ==
    /\ at[c] = "waiting"
    /\ LockIsFree
    /\ holder' = c
    /\ Goto(c, "checking")
    /\ UNCHANGED <<before, result, tapd, late, lost>>

\* Faulty variant: a broadcast batch is as good as confirmed.
IsUnsealedBatch(state) == state \in {"Pending", "Frozen"}

\* isActiveMintBatch.
IsActiveMintBatch(state) == state \in {"Pending", "Frozen", "Broadcast"}

EnsureReady(c) ==
    /\ at[c] = "checking"
    /\ IF \E b \in batches : IsActiveMintBatch(b.state)
       THEN Leave(c, "failed")
       ELSE Goto(c, "listing") /\ UNCHANGED holder
    /\ UNCHANGED <<before, result, tapd, late, lost>>

\* Faulty variant: the records are not remembered.
Nothing == {}

RecordIDs == visible

ListMintRecords(c) ==
    /\ at[c] = "listing"
    /\ before' = [before EXCEPT ![c] = RecordIDs]
    /\ Goto(c, "staging")
    /\ UNCHANGED <<holder, result, tapd, late, lost>>

\* A listing fails, the reference is unknown or of the wrong type, the options
\* do not fit, or the context is over: nothing was staged.
NotStarted(c) ==
    /\ at[c] \in {"checking", "listing", "staging"}
    /\ Leave(c, "failed")
    /\ UNCHANGED <<before, result, tapd, late, lost>>

\* MintAsset or MintIssuance; an error returns without a cancellation.
Stage(c) ==
    /\ at[c] = "staging"
    /\ \E reply \in Replies :
          /\ Request([kind |-> "stage", id |-> c], reply)
          /\ lost' = IF reply = "lost" THEN lost \cup {c} ELSE lost
          /\ IF reply # "ok" THEN Leave(c, "failed")
             ELSE /\ Goto(c, IF c \in External THEN "funding" ELSE "finalizing")
                  /\ UNCHANGED holder
    /\ UNCHANGED <<before, result>>

\* Faulty variant: a failed signature leaves the batch behind.
GiveUpAtOnce(c) == Leave(c, "failed")

GiveUp(c) == Goto(c, "cancelling") /\ UNCHANGED holder

\* FundBatch, every SignIssuance, SealBatch: each can fail.
ExternalStep(c, step, next) ==
    /\ at[c] = step
    /\ \/ Goto(c, next) /\ UNCHANGED holder
       \/ GiveUp(c)
    /\ UNCHANGED <<before, result, tapd, late, lost>>

FundBatch(c) == ExternalStep(c, "funding", "signing")
SignIssuance(c) == ExternalStep(c, "signing", "sealing")
SealBatch(c) == ExternalStep(c, "sealing", "finalizing")

\* Faulty variant: no answer is taken for a slow success.
NotRejected(reply) == reply # "error"

Accepted(reply) == reply = "ok"

FinalizeBatch(c) ==
    /\ at[c] = "finalizing"
    /\ \E reply \in Replies :
          /\ Request([kind |-> "finalize", id |-> c], reply)
          /\ IF Accepted(reply)
             THEN Goto(c, "resolving") /\ UNCHANGED holder
             ELSE GiveUp(c)
    /\ UNCHANGED <<before, result, lost>>

\* The answer is ignored; the call fails with the error that led here.
CancelBatchBestEffort(c) ==
    /\ at[c] = "cancelling"
    /\ \E reply \in Replies :
          /\ Request([kind |-> "cancel", id |-> c], reply)
          /\ lost' = IF reply = "ok" THEN lost ELSE lost \cup {c}
    /\ Leave(c, "failed")
    /\ UNCHANGED <<before, result>>

FindNewRecord(c) ==
    /\ at[c] = "resolving"
    /\ \E record \in visible \ before[c] :
          /\ SpecOf[record] = SpecOf[c]
          /\ result' = [result EXCEPT ![c] = record]
    /\ Leave(c, "returned")
    /\ UNCHANGED <<before, tapd, late, lost>>

\* ErrMintResolveTimeout.
ResolveTimeout(c) ==
    /\ at[c] = "resolving"
    /\ Leave(c, "timedOut")
    /\ UNCHANGED <<before, result, tapd, late, lost>>

\* One poll fails, or the caller's context is over.
ResolveFails(c) ==
    /\ at[c] = "resolving"
    /\ Leave(c, "failed")
    /\ UNCHANGED <<before, result, tapd, late, lost>>

Call(c) ==
    \/ Lock(c) \/ EnsureReady(c) \/ ListMintRecords(c) \/ NotStarted(c)
    \/ Stage(c) \/ FundBatch(c) \/ SignIssuance(c) \/ SealBatch(c)
    \/ FinalizeBatch(c) \/ CancelBatchBestEffort(c)
    \/ FindNewRecord(c) \/ ResolveTimeout(c) \/ ResolveFails(c)

-----------------------------------------------------------------------------
(* The environment *)

LateArrival ==
    /\ \E request \in late :
          /\ late' = late \ {request}
          /\ Perform(request) \/ UNCHANGED batches
    /\ UNCHANGED <<client, visible, lost>>

ForeignStage ==
    /\ \E f \in Foreign :
          /\ \A b \in batches : f \notin b.assets
          /\ TapdStage(f)
    /\ UNCHANGED <<client, visible, late, lost>>

ForeignEnd ==
    /\ Foreign # {}
    /\ \E state \in {"Broadcast", "Cancelled"} : MoveOpen(state)
    /\ UNCHANGED <<client, visible, late, lost>>

\* The wallet lists a broadcast mint sooner or later, and a confirmed one.
Show ==
    /\ \E b \in batches :
          /\ b.state = "Broadcast"
          /\ visible' = visible \cup b.assets
    /\ UNCHANGED <<client, batches, late, lost>>

Confirm ==
    /\ \E b \in batches :
          /\ b.state = "Broadcast"
          /\ batches' = (batches \ {b})
                          \cup {[assets |-> b.assets, state |-> "Confirmed"]}
          /\ visible' = visible \cup b.assets
    /\ UNCHANGED <<client, late, lost>>

Environment == LateArrival \/ ForeignStage \/ ForeignEnd \/ Show \/ Confirm

Next == (\E c \in Calls : Call(c)) \/ Environment

Spec == Init /\ [][Next]_vars

\* A waiting or running call goes on: requests and signers answer or time out,
\* and sync.Mutex does not starve.  tapd and the chain owe nothing.
FairSpec == Spec /\ \A c \in Calls : WF_vars(Call(c))

-----------------------------------------------------------------------------
(* Properties *)

\* The type invariant; the lock admits one call, from its check to its result.
TypeOK ==
    /\ at \in [Calls -> {"waiting"} \cup Critical \cup Over]
    /\ holder \in Calls \cup {None}
    /\ \A c \in Calls : at[c] \in Critical <=> holder = c
    /\ before \in [Calls -> SUBSET Assets]
    /\ result \in [Calls -> Assets \cup {None}]
    /\ \A c \in Calls : at[c] = "returned" <=> result[c] # None
    /\ batches \subseteq Batches
    /\ visible \subseteq Assets
    /\ late \subseteq [kind : {"stage", "finalize", "cancel"}, id : Calls]
    /\ lost \subseteq Calls

\* A caller gets what its own call minted, unless another user of the daemon minted
\* a lookalike at the same time: never the result of an earlier call that failed
\* and was repeated, although both look the same, unless a request of that call
\* outlived it (issuer.go:769-805, :885-941).
ResultIsOwn ==
    \A c \in Calls :
        result[c] \in {c, None} \cup Foreign \cup (IF Late THEN lost ELSE {})

\* Two calls of one wallet never return the same record, whatever others mint
\* on the daemon and whichever requests arrive late (issuer.go:25-32).
NoRecordReturnedTwice ==
    \A c, d \in Calls : c # d /\ result[c] # None => result[c] # result[d]

\* ErrMintResolveTimeout means that tapd accepted the mint (errors.go:366); on a
\* shared daemon it may mean that another user cancelled it, never that it is still
\* open or was not staged.
Alone == ~Late /\ Foreign = {}

TimeoutMeansAccepted ==
    \A c \in Calls :
        at[c] = "timedOut" =>
            \E b \in batches :
                /\ c \in b.assets
                /\ \/ b.state \in {"Broadcast", "Confirmed"}
                   \/ b.state = "Cancelled" /\ ~Alone

\* A batch blocks later calls for good only if its request or its cancellation
\* went unacknowledged: no failure the issuer hears of strands what it staged
\* (issuer.go:580-608).
StrandedOnlyByLoss ==
    \A b \in Open : \A c \in b.assets \cap Calls :
        at[c] \in Critical \/ c \in lost

\* Every call returns, whatever tapd's batch does.
CallsReturn == \A c \in Calls : at[c] = "waiting" ~> at[c] \in Over
=============================================================================
