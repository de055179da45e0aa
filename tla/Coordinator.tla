----------------------------- MODULE Coordinator -----------------------------
(***************************************************************************)
(* The remote-signing coordinator (demos/remote-signing-coordinator): an   *)
(* HTTP server that runs issuer calls as sessions.                         *)
(*                                                                         *)
(* A session's goroutine takes the mint lock, subscribes a watcher to      *)
(* tapd's mint events, and makes its issuer call.  The signer it gives the *)
(* call shows the virtual PSBT to the user and waits for the signature to  *)
(* be posted.  After the call the session mines blocks where it may, and   *)
(* waits until its watcher has heard that a batch is final.                *)
(*                                                                         *)
(* The watcher follows the batch it hears of first, whoever opened it, and *)
(* may hear of it after its session is over: it is cancelled, and neither  *)
(* waited for nor served before an event that is ready.  tapd announces    *)
(* every batch that is broadcast, confirmed or cancelled to all            *)
(* subscribers; what it contains, which no longer changes, names it.       *)
(*                                                                         *)
(* Each session is one call of Issuer that an external signer signs; no    *)
(* other call runs.                                                        *)
(***************************************************************************)
EXTENDS Issuer, Sequences, Naturals

CONSTANTS
    Grouped,  \* assets of others whose issuance needs a group signature
    Mines     \* a regtest miner is configured

VARIABLES
    run,      \* how far each session's goroutine is
    status,   \* what the dashboard shows of each session
    mintMu,   \* the session that holds the mint lock
    letter,   \* the signature posted to each session: none, sent or taken
    unsigned, \* signatures each session's call still has to ask for
    news,     \* mint events each watcher has been sent
    tracked,  \* the batch each watcher follows
    heard     \* each watcher's result, or that it runs or does not exist

session == <<run, status, mintMu, letter, unsigned>>
watcher == <<tracked, heard>>
coordinator == <<session, watcher, news>>
cvars == <<vars, coordinator>>

ASSUME SessionAssumption == Grouped \subseteq Foreign /\ Mines \in BOOLEAN

Sessions == External

Statuses ==
    {"none", "staging", "waiting_signature", "signature_submitted",
     "waiting_confirmation", "mining", "finalized", "failed"}

CoordinatorInit ==
    /\ Init
    /\ run = [s \in Sessions |-> "none"]
    /\ status = [s \in Sessions |-> "none"]
    /\ mintMu = None
    /\ letter = [s \in Sessions |-> "none"]
    /\ unsigned = [s \in Sessions |-> 0]
    /\ news = [s \in Sessions |-> <<>>]
    /\ tracked = [s \in Sessions |-> None]
    /\ heard = [s \in Sessions |-> "none"]

RunTo(s, step) == run' = [run EXCEPT ![s] = step]
ShowAs(s, value) == status' = [status EXCEPT ![s] = value]

-----------------------------------------------------------------------------
(* The mint events *)

Announced ==
    {b \in batches' \ batches : b.state \in {"Broadcast", "Confirmed", "Cancelled"}}

\* At most one batch is open, and one step moves one batch.
Announce ==
    news' = [s \in Sessions |->
        IF heard[s] # "running" \/ run[s] = "over" \/ Announced = {} THEN news[s]
        ELSE Append(news[s], CHOOSE b \in Announced : TRUE)]

\* Faulty variant: what an event says overwrites what the session has become.
ObserveAnyway(s, event) == event.state = "Broadcast"

\* observeMintEvent changes the status.
Observed(s, event) ==
    event.state = "Broadcast" /\ status[s] = "signature_submitted"

\* The goroutine returns; its result stays in its channel.
Conclude(s, outcome) ==
    /\ heard' = [heard EXCEPT ![s] = outcome]
    /\ tracked' = [tracked EXCEPT ![s] = None]
    /\ news' = [news EXCEPT ![s] = <<>>]

\* consumeMintEvents takes one event; "Confirmed" is announced again as final.
HearEvent(s) ==
    /\ heard[s] = "running" /\ news[s] # <<>>
    /\ LET event == Head(news[s])
           key == IF tracked[s] = None THEN event.assets ELSE tracked[s]
           own == key = event.assets
       IN  /\ IF own /\ event.state = "Confirmed" THEN Conclude(s, "final")
              ELSE /\ tracked' = [tracked EXCEPT ![s] = key]
                   /\ news' = [news EXCEPT ![s] = Tail(@)]
                   /\ UNCHANGED heard
           /\ IF own /\ Observed(s, event) THEN ShowAs(s, "waiting_confirmation")
              ELSE UNCHANGED status
    /\ UNCHANGED <<vars, run, mintMu, letter, unsigned>>

\* An event that carries an error, a stream error, the end of the stream, or
\* that Stop was called.
StreamEnds(s) ==
    /\ heard[s] = "running"
    /\ Conclude(s, "error")
    /\ UNCHANGED <<vars, session>>

-----------------------------------------------------------------------------
(* The HTTP handlers *)

StartSession(s) ==
    /\ run[s] = "none"
    /\ RunTo(s, "queued") /\ ShowAs(s, "staging")
    /\ UNCHANGED <<vars, mintMu, letter, unsigned, watcher, news>>

SubmitSignature(s) ==
    /\ status[s] = "waiting_signature"
    /\ letter[s] = "none"
    /\ letter' = [letter EXCEPT ![s] = "sent"]
    /\ ShowAs(s, "signature_submitted")
    /\ UNCHANGED <<vars, run, mintMu, unsigned, watcher, news>>

-----------------------------------------------------------------------------
(* runSession *)

LockMint(s) ==
    /\ run[s] = "queued"
    /\ mintMu = None
    /\ mintMu' = s
    /\ RunTo(s, "subscribing")
    /\ UNCHANGED <<vars, status, letter, unsigned, watcher, news>>

\* failSession or completeSession; the deferred Stop and unlock follow.
End(s, outcome) == RunTo(s, "over") /\ ShowAs(s, outcome) /\ mintMu' = None

StartMintFinalityWatcher(s) ==
    /\ run[s] = "subscribing"
    /\ \/ End(s, "failed") /\ UNCHANGED heard
       \/ /\ RunTo(s, "minting") /\ UNCHANGED <<status, mintMu>>
          /\ heard' = [heard EXCEPT ![s] = "running"]
    /\ UNCHANGED <<vars, letter, unsigned, tracked, news>>

\* issuanceSigningRequests: whatever is in the open batch is signed; there must
\* be something.
ToSign(s) == (Grouped \cup {s}) \cap UNION {b.assets : b \in Open}

\* The steps of the issuer call that leave the signer alone.
MintStep(s) ==
    /\ run[s] = "minting"
    /\ at[s] # "signing"
    /\ Call(s)
    /\ IF at[s] = "funding" /\ at'[s] = "signing"
       THEN /\ ToSign(s) # {}
            /\ unsigned' = [unsigned EXCEPT ![s] = Cardinality(ToSign(s))]
       ELSE UNCHANGED unsigned
    /\ Announce
    /\ UNCHANGED <<run, status, mintMu, letter, watcher>>

\* awaitSignature, up to its select; its context is never done.
AskSignature(s) ==
    /\ run[s] = "minting" /\ at[s] = "signing"
    /\ RunTo(s, "asking") /\ ShowAs(s, "waiting_signature")
    /\ UNCHANGED <<vars, mintMu, letter, unsigned, watcher, news>>

TakeSignature(s) ==
    /\ run[s] = "asking"
    /\ letter[s] = "sent"
    /\ letter' = [letter EXCEPT ![s] = "taken"]
    /\ unsigned' = [unsigned EXCEPT ![s] = @ - 1]
    /\ RunTo(s, "minting")
    /\ IF unsigned[s] = 1 THEN SignIssuance(s) /\ at'[s] = "sealing"
       ELSE UNCHANGED vars
    /\ UNCHANGED <<status, mintMu, watcher, news>>

MintFailed(s) ==
    /\ run[s] = "minting"
    /\ at[s] \in {"failed", "timedOut"}
    /\ End(s, "failed")
    /\ UNCHANGED <<vars, letter, unsigned, watcher, news>>

AcceptSession(s) ==
    /\ run[s] = "minting"
    /\ at[s] = "returned"
    /\ RunTo(s, IF Mines THEN "accepted" ELSE "awaiting")
    /\ ShowAs(s, "waiting_confirmation")
    /\ UNCHANGED <<vars, mintMu, letter, unsigned, watcher, news>>

StartMining(s) ==
    /\ run[s] = "accepted"
    /\ RunTo(s, "mining") /\ ShowAs(s, "mining")
    /\ UNCHANGED <<vars, mintMu, letter, unsigned, watcher, news>>

\* The blocks, if any, reach tapd through the chain.
MineBlocks(s) ==
    /\ run[s] = "mining"
    /\ \/ End(s, "failed")
       \/ /\ RunTo(s, "awaiting") /\ ShowAs(s, "waiting_confirmation")
          /\ UNCHANGED mintMu
    /\ UNCHANGED <<vars, letter, unsigned, watcher, news>>

Wait(s) ==
    /\ run[s] = "awaiting"
    /\ \/ heard[s] = "error" /\ End(s, "failed")
       \/ heard[s] = "final" /\ End(s, "finalized")
    /\ UNCHANGED <<vars, letter, unsigned, watcher, news>>

Session(s) ==
    \/ StartSession(s) \/ SubmitSignature(s)
    \/ LockMint(s) \/ StartMintFinalityWatcher(s) \/ MintStep(s)
    \/ AskSignature(s) \/ TakeSignature(s) \/ MintFailed(s)
    \/ AcceptSession(s) \/ StartMining(s) \/ MineBlocks(s) \/ Wait(s)
    \/ HearEvent(s) \/ StreamEnds(s)

Daemon ==
    /\ Environment
    /\ Announce
    /\ UNCHANGED <<session, watcher>>

CoordinatorNext == (\E s \in Sessions : Session(s)) \/ Daemon

CoordinatorSpec == CoordinatorInit /\ [][CoordinatorNext]_cvars

-----------------------------------------------------------------------------
(* Properties *)

Ended == {"finalized", "failed"}

\* A session that is over is never shown as running again, whatever its watcher
\* still hears (service.go:391-413, mint_events.go:75-147).
SessionsEndOnce ==
    [][\A s \in Sessions : status[s] \in Ended => status'[s] = status[s]]_cvars
=============================================================================
