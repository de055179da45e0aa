----------------------- MODULE CustomAnchorLifecycle -----------------------
(***************************************************************************)
(* One custom-anchor transfer from an accepted plan to a logged transfer:  *)
(* Commit and PublishCustomAnchorTransfer (custom_anchor_lifecycle.go) as  *)
(* remote calls that time out, lose their request or their answer, execute *)
(* late or fail half way; the host that persists the package, crashes and  *)
(* recovers as docs/design/advanced-custom-anchor-transactions.md:577-629  *)
(* prescribes; and tapd with its wallet's leases.  Signing happens between *)
(* the two calls and is the subject of CustomAnchorSigning.                *)
(***************************************************************************)
EXTENDS CommittedAnchor, FiniteSets

CONSTANTS Plans,          \* plans Build can return
          Answers(_),     \* answers tapd can give to a plan's commit
          Profiles,       \* capability sets the client may report
          RejectionCodes, \* codes tapd returns before it executes anything
          FailureCodes,   \* codes a call ends with that may have executed
          MaxAttempts,    \* bound on commit and publish calls together
          None

VARIABLES plan,        \* the inspected plan
          caps,        \* capabilities the client reports
          phase,       \* durable state of the host
          pkg,         \* the persisted sealed package, or None
          releasable,  \* outpoints the host knows it must release
          doubtful,    \* calls that ended with an unknown outcome
          call,        \* the call in progress, or None
          attempts,    \* calls started so far
          requests,    \* requests on their way to tapd
          reply,       \* the answer on its way to the call in progress, or None
          leases,      \* wallet coins tapd holds leased, by commit call
          logged,      \* anchor transactions tapd has logged
          broadcast    \* and those it has broadcast

host == <<phase, pkg, releasable, doubtful>>
net == <<call, attempts, requests, reply>>
tapd == <<leases, logged, broadcast>>
vars == <<plan, caps, host, net, tapd>>

\* gRPC codes that report an explicit rejection; every other error is ambiguous.
KnownRejections ==
    {"InvalidArgument", "FailedPrecondition", "PermissionDenied",
     "Unauthenticated", "NotFound", "Unimplemented"}

\* What is assumed of tapd: it never answers a call that took effect with a
\* code that reports a rejection.
ASSUME FailureAssumption == FailureCodes \cap KnownRejections = {}

ASSUME BoundAssumption ==
    /\ MaxAttempts \in Nat
    /\ {"ok", "empty"} \cap (RejectionCodes \cup FailureCodes) = {}

AllAnswers == UNION {Answers(p) : p \in Plans}
Anchors == {answer.anchor : answer \in AllAnswers}
Coins == UNION {ToSet(answer.locked) : answer \in AllAnswers}

Packages == [anchor : Anchors, locked : SUBSET Coins, skip : BOOLEAN]
Calls == [kind : {"commit", "publish"}, id : 1..MaxAttempts, skip : BOOLEAN]
Requests ==
    [kind : {"commit"}, id : 1..MaxAttempts]
      \cup [kind : {"publish"}, id : 1..MaxAttempts, anchor : Anchors,
            skip : BOOLEAN]
Results ==
    RejectionCodes \cup FailureCodes \cup {"ok", "empty", "AlreadyExists"}

Replies == [result : Results, answer : AllAnswers \cup Anchors \cup {None}]

\* None is none of the things it stands in for.
ASSUME NoneAssumption ==
    /\ None \notin Packages
    /\ None \notin Calls
    /\ None \notin Replies
    /\ None \notin Anchors

Capabilities ==
    {"commit", "callerAnchorPSBT", "walletFunding", "skipFunding",
     "noChangeOutput", "skipBroadcast"}

Publishes == {a \in doubtful : a.kind = "publish"}

\* customAnchorCommitOutcomeUnknown and customAnchorPublishOutcomeUnknown.
CommitOutcomeUnknown(code) == code \notin KnownRejections

\* Faulty variant: only the client's own timeouts are ambiguous.
TimeoutsOnly(code) == code \in {"Canceled", "DeadlineExceeded"}

PublishOutcomeUnknown(code) == code \notin KnownRejections

\* requireCustomAnchorCommitCapabilities.
CommitCapabilities(skip) ==
    {"commit", "callerAnchorPSBT"}
      \cup (IF plan.mode = "walletFunded" THEN {"walletFunding"}
                                          ELSE {"skipFunding"})
      \cup (IF plan.change = "noNew" THEN {"noChangeOutput"} ELSE {})
      \cup (IF skip THEN {"skipBroadcast"} ELSE {})

\* Faulty variant: the caller's option decides.
CallersChoice(requested) == requested

\* A zero-fee P2A parent cannot be broadcast on its own, whatever the options.
SkipBroadcast(requested) == requested \/ plan.mode = "externalP2A"

PublishCapabilities(p) == IF p.skip THEN {"skipBroadcast"} ELSE {}

Init ==
    /\ plan \in Plans
    /\ caps \in Profiles
    /\ phase = "planned" /\ pkg = None
    /\ releasable = {} /\ doubtful = {}
    /\ call = None /\ attempts = 0
    /\ requests = {} /\ reply = None
    /\ leases = {} /\ logged = {} /\ broadcast = {}

-----------------------------------------------------------------------------
(* The client: Commit and PublishCustomAnchorTransfer *)

Start(kind, skip, request) ==
    /\ call = None
    /\ attempts < MaxAttempts
    /\ attempts' = attempts + 1
    /\ call' = [kind |-> kind, id |-> attempts + 1, skip |-> skip]
    /\ requests' = requests \cup {request}
    /\ UNCHANGED <<plan, caps, reply, tapd>>

\* Faulty variant: the answer survives its call and can be read by the next one.
ReturnWithReply == call' = None /\ UNCHANGED <<attempts, requests, reply>>

\* The call in progress is over.
Return == call' = None /\ reply' = None /\ UNCHANGED <<attempts, requests>>

Answered(kind) ==
    /\ call # None /\ call.kind = kind
    /\ reply # None

Doubt == doubtful' = doubtful \cup {[kind |-> call.kind, id |-> call.id]}

StartCommit ==
    /\ phase = "planned"
    /\ phase' = "committing"
    /\ \E requested \in BOOLEAN :
          LET skip == SkipBroadcast(requested)
          IN  /\ CommitCapabilities(skip) \subseteq caps
              /\ Start("commit", skip, [kind |-> "commit", id |-> attempts + 1])
    /\ UNCHANGED <<pkg, releasable, doubtful>>

\* The answer passed every check; the host persists the sealed package.
CommitSealed ==
    /\ Answered("commit")
    /\ reply.result = "ok"
    /\ Accepts(plan, reply.answer)
    /\ phase' = "committed"
    /\ pkg' = [anchor |-> reply.answer.anchor,
               locked |-> ToSet(reply.answer.locked), skip |-> call.skip]
    /\ Return
    /\ UNCHANGED <<plan, caps, releasable, doubtful, tapd>>

\* Faulty variant: the error is built before the outpoints are collected.
NoLocks(answer) == {}

\* CustomAnchorCommitResponseError carries the outpoints to release.
LocksToRelease(answer) == ToSet(answer.locked)

CommitRefused ==
    /\ Answered("commit")
    /\ reply.result = "ok"
    /\ ~Accepts(plan, reply.answer)
    /\ phase' = "planned"
    /\ releasable' = releasable \cup LocksToRelease(reply.answer)
    /\ Return
    /\ UNCHANGED <<plan, caps, pkg, doubtful, tapd>>

\* CustomAnchorCommitAttemptError; no response at all counts as unknown.
CommitFailed ==
    /\ Answered("commit")
    /\ reply.result # "ok"
    /\ IF CommitOutcomeUnknown(reply.result)
       THEN phase' = "commitUnknown" /\ Doubt
       ELSE phase' = "planned" /\ UNCHANGED doubtful
    /\ Return
    /\ UNCHANGED <<plan, caps, pkg, releasable, tapd>>

StartPublish ==
    /\ phase = "committed"
    /\ ~plan.unconfirmedPath
    /\ PublishCapabilities(pkg) \subseteq caps
    /\ phase' = "publishing"
    /\ Start("publish", pkg.skip,
             [kind |-> "publish", id |-> attempts + 1,
              anchor |-> pkg.anchor, skip |-> pkg.skip])
    /\ UNCHANGED <<pkg, releasable, doubtful>>

\* Faulty variant: any response without an error is a success.
AnyResponse(answer) == answer = None \/ answer = pkg.anchor

\* The response carries exactly the finalized transfer.
ResponseMatches(answer) == answer = pkg.anchor

PublishConfirmed ==
    /\ Answered("publish")
    /\ reply.result = "ok" /\ ResponseMatches(reply.answer)
    /\ phase' = "done"
    /\ Return
    /\ UNCHANGED <<plan, caps, pkg, releasable, doubtful, tapd>>

\* CustomAnchorPublishAttemptError with OutcomeUnknown: an ambiguous error, no
\* usable response, or one that does not match the finalized transfer.
PublishUncertain ==
    /\ Answered("publish")
    /\ IF reply.result = "ok" THEN ~ResponseMatches(reply.answer)
                              ELSE PublishOutcomeUnknown(reply.result)
    /\ phase' = "publishUnknown"
    /\ Doubt
    /\ Return
    /\ UNCHANGED <<plan, caps, pkg, releasable, tapd>>

PublishRejected ==
    /\ Answered("publish")
    /\ reply.result # "ok" /\ ~PublishOutcomeUnknown(reply.result)
    /\ phase' = "committed"
    /\ Return
    /\ UNCHANGED <<plan, caps, pkg, releasable, doubtful, tapd>>

UnknownPhase(kind) ==
    IF kind = "commit" THEN "commitUnknown" ELSE "publishUnknown"

\* The caller's context ends or the transport's timeout fires: both are unknown
\* outcomes.  The request may still be on its way.  A host that crashes inside
\* the call finds itself in the same place when it restarts.
OutcomeLost ==
    /\ call # None
    /\ phase' = UnknownPhase(call.kind)
    /\ Doubt
    /\ Return
    /\ UNCHANGED <<plan, caps, pkg, releasable, tapd>>

-----------------------------------------------------------------------------
(* The host's recovery *)

\* After an unknown commit the host lists the leases held under its lock ID.
ReconcileCommit ==
    /\ phase = "commitUnknown"
    /\ phase' = "planned"
    /\ releasable' = releasable \cup {l.outpoint : l \in leases}
    /\ UNCHANGED <<plan, caps, pkg, doubtful, net, tapd>>

\* After an unknown publish it looks the transaction up before anything else,
\* and again as long as some attempt is in doubt.
ReconcilePublish ==
    /\ phase = "publishUnknown" \/ (phase = "committed" /\ Publishes # {})
    /\ phase' = IF pkg.anchor \in logged THEN "done" ELSE "committed"
    /\ UNCHANGED <<plan, caps, pkg, releasable, doubtful, net, tapd>>

\* A package is given up only when no publish attempt is in doubt.
Abandon ==
    /\ phase = "committed"
    /\ Publishes = {}
    /\ phase' = "planned"
    /\ pkg' = None
    /\ releasable' = releasable \cup pkg.locked
    /\ UNCHANGED <<plan, caps, doubtful, net, tapd>>

Release ==
    /\ \E o \in releasable :
          /\ releasable' = releasable \ {o}
          /\ leases' = {l \in leases : l.outpoint # o}
    /\ UNCHANGED <<plan, caps, phase, pkg, doubtful, net, logged, broadcast>>

-----------------------------------------------------------------------------
(* The environment: tapd, its wallet, and the network *)

\* tapd answers request m; nobody listens once its call is over.
Consume(m, result, answer) ==
    /\ requests' = requests \ {m}
    /\ reply' = IF call # None /\ call.id = m.id
                THEN [result |-> result, answer |-> answer]
                ELSE reply
    /\ UNCHANGED <<plan, caps, host, call, attempts>>

TapdRejects ==
    /\ \E m \in requests, code \in RejectionCodes : Consume(m, code, None)
    /\ UNCHANGED tapd

Leased(id, locked) == {[id |-> id, outpoint |-> o] : o \in ToSet(locked)}

\* tapd funds, leases and commits; the answer arrives, is empty, or the call
\* fails after the leases were taken.
TapdCommits ==
    /\ \E m \in requests, answer \in Answers(plan) :
          /\ m.kind = "commit"
          /\ ToSet(answer.locked) \cap {l.outpoint : l \in leases} = {}
          /\ leases' = leases \cup Leased(m.id, answer.locked)
          /\ \/ Consume(m, "ok", answer)
             \/ \E result \in FailureCodes \cup {"empty"} :
                   Consume(m, result, None)
    /\ UNCHANGED <<logged, broadcast>>

\* tapd logs the transfer and broadcasts it unless it was told to skip that and
\* knows how to.
TapdLogs ==
    /\ \E m \in requests :
          /\ m.kind = "publish"
          /\ m.anchor \notin logged
          /\ logged' = logged \cup {m.anchor}
          /\ broadcast' = IF m.skip /\ "skipBroadcast" \in caps
                          THEN broadcast ELSE broadcast \cup {m.anchor}
          /\ \/ Consume(m, "ok", m.anchor)
             \/ \E result \in FailureCodes \cup {"empty"} :
                   Consume(m, result, None)
    /\ UNCHANGED leases

\* An answer without effect: a gateway's empty body, or another transfer's.
TapdAnswersNothing ==
    /\ \E m \in requests, result \in {"ok", "empty"} :
          /\ m.kind = "publish"
          /\ Consume(m, result, None)
    /\ UNCHANGED tapd

TapdAlreadyLogged ==
    /\ \E m \in requests :
          /\ m.kind = "publish"
          /\ m.anchor \in logged
          /\ Consume(m, "AlreadyExists", None)
    /\ UNCHANGED tapd

LoseRequest ==
    /\ \E m \in requests : requests' = requests \ {m}
    /\ UNCHANGED <<plan, caps, host, call, attempts, reply, tapd>>

LoseReply ==
    /\ reply # None
    /\ reply' = None
    /\ UNCHANGED <<plan, caps, host, call, attempts, requests, tapd>>

LeaseExpires ==
    /\ \E l \in leases : leases' = leases \ {l}
    /\ UNCHANGED <<plan, caps, host, net, logged, broadcast>>

\* The host's client is replaced, or tapd is upgraded or rolled back.
ChangeCapabilities ==
    /\ call = None /\ requests = {}
    /\ caps' \in Profiles
    /\ UNCHANGED <<plan, host, net, tapd>>

Client ==
    \/ StartCommit \/ CommitSealed \/ CommitRefused \/ CommitFailed
    \/ StartPublish \/ PublishConfirmed \/ PublishUncertain \/ PublishRejected
    \/ OutcomeLost

Recovery == ReconcileCommit \/ ReconcilePublish \/ Abandon \/ Release

Environment ==
    \/ TapdRejects \/ TapdCommits \/ TapdLogs \/ TapdAnswersNothing
    \/ TapdAlreadyLogged \/ LoseRequest \/ LoseReply \/ LeaseExpires
    \/ ChangeCapabilities

Next == Client \/ Recovery \/ Environment

Spec == Init /\ [][Next]_vars

\* Every call carries a deadline (rest/transport.go:134 sets one for every
\* request; a gRPC call ends with its context), and a host that finds an unknown
\* outcome reconciles it.  tapd and the network owe nothing.
Fairness == WF_vars(OutcomeLost) /\ WF_vars(ReconcilePublish)

FairSpec == Spec /\ Fairness
-----------------------------------------------------------------------------
(* Properties *)

Phases == {"planned", "committing", "commitUnknown", "committed", "publishing",
           "publishUnknown", "done"}

HasPackage == {"committed", "publishing", "publishUnknown", "done"}

\* The type invariant, with what each phase says of the package and the call.
TypeOK ==
    /\ plan \in Plans
    /\ phase \in Phases
    /\ pkg \in Packages \cup {None}
    /\ call \in Calls \cup {None}
    /\ reply \in Replies \cup {None}
    /\ attempts \in 0..MaxAttempts
    /\ requests \subseteq Requests
    /\ doubtful \subseteq [kind : {"commit", "publish"}, id : 1..MaxAttempts]
    /\ phase \in HasPackage <=> pkg # None
    /\ phase = "committing" <=> call # None /\ call.kind = "commit"
    /\ phase = "publishing" <=> call # None /\ call.kind = "publish"
    /\ reply # None => call # None
    /\ call # None => call.id = attempts
    /\ \A m \in requests : m.id <= attempts

\* The promise: a client that follows the outcome classification, whatever is
\* lost, late or crashes, has at most one transaction logged, the one frozen in
\* the package it holds; an ambiguous error is never taken for a rejection
\* (custom_anchor_lifecycle.go:684).
Transfer == INSTANCE CustomAnchorTransfer WITH
    frozen <- IF pkg = None THEN None ELSE pkg.anchor

ImplementsTransfer == Transfer!Spec

\* A wallet coin tapd leased is never forgotten: it is listed for release, or in
\* the package, or was leased by a call the host knows to be in doubt, whose
\* lock ID it persisted (custom_anchor_lifecycle.go:36-53).
LeasesAreAccounted ==
    \A l \in leases :
        \/ l.outpoint \in releasable
        \/ pkg # None /\ l.outpoint \in pkg.locked
        \/ [kind |-> "commit", id |-> l.id] \in doubtful
        \/ call # None /\ call.id = l.id

\* Success is reported only for a transfer that was logged: no empty or foreign
\* answer, and no misread error, ends in "done".
DoneMeansLogged == phase = "done" => pkg.anchor \in logged

\* Nothing is broadcast that cannot be relayed alone: a zero-fee P2A parent
\* waits for its child whatever the caller's commit options say and whatever
\* backend it is published through (custom_anchor_lifecycle.go:174, :597).
P2AParentNotBroadcast == plan.mode = "externalP2A" => broadcast = {}

\* What tapd logs obeys the plan the caller inspected: the wallet's share of the
\* cost stays within the maximum fee, and nothing moved between the outputs.
LoggedWithinBudget ==
    \A anchor \in logged :
        /\ plan.mode = "walletFunded" => Fee(anchor) <= plan.maxFee
        /\ \A i \in DOMAIN plan.template.outputs \ {plan.existing} :
              anchor.outputs[i].value = plan.template.outputs[i].value

\* A transfer tapd logged is eventually reported done, after any number of lost
\* answers: no failure leaves the host believing it was rejected.
LoggedTransfersComplete == logged # {} ~> phase = "done"
=============================================================================
