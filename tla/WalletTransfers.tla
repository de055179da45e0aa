--------------------------- MODULE WalletTransfers --------------------------
(***************************************************************************)
(* One wallet whose assets are sent by three users at a time: a TxBuilder  *)
(* (tx_builder.go), an InteractiveTxBuilder (interactive_tx_builder.go)    *)
(* and the wallet's one-shot calls Send, SendMulti and Burn (wallet.go).   *)
(* tapd, which all of them call, selects coins, commits packets to an      *)
(* anchor, logs transfers and sees them confirmed or conflicted.           *)
(*                                                                         *)
(* Every call of tapd may fail, or be carried out while its answer is      *)
(* lost; a builder is then called again by the host.  Packets are named by *)
(* the funding and the commit they come from.                              *)
(***************************************************************************)
EXTENDS SendRecipients

CONSTANTS
    Coins,           \* what the wallet holds at first
    RecipientLists,  \* what the host asks the TxBuilder and SendMulti for
    SingleSends,     \* the recipients of Send
    InteractiveAsks, \* [ref, amount, embedded |-> 0] for the InteractiveTxBuilder
    Burns,           \* the same for Burn
    Advanced,        \* the client takes full commit and publish requests
    MaxFundings,     \* bound: fundings tapd carries out
    MaxCommits,      \* bound: commits tapd carries out
    MaxTransfers,    \* bound: transfers tapd logs
    MaxSetups        \* bound: setter calls of the host

Coin == [issuance : Issuances, amount : Nat, anchor : Nat]

\* Amounts are uint64, those the addresses embed among them.
IsRecipient(r) ==
    /\ r = [address |-> r.address, amount |-> r.amount]
    /\ r.amount = None \/ r.amount \in Nat
    /\ DecodeAddress(r.address).amount \in Nat

IsRecipientList(rs) ==
    /\ Len(rs) \in Nat /\ rs = [i \in 1..Len(rs) |-> rs[i]]
    /\ \A i \in DOMAIN rs : IsRecipient(rs[i])

\* A transfer's anchor is a new transaction, and no asset ID is a group key.
ASSUME WalletAssumption ==
    /\ MaxAmount \in Nat \ {0} /\ MaxTransfers \in Nat
    /\ Coins \subseteq Coin /\ IsFiniteSet(Coins)
    /\ \A c \in Coins : c.anchor \notin 1..MaxTransfers
    /\ \A rs \in RecipientLists : IsRecipientList(rs)
    /\ \A r \in SingleSends : IsRecipient(r)
    /\ \A ask \in InteractiveAsks \cup Burns :
          ask.amount \in Nat /\ ask.embedded = 0
    /\ Groups \cap Issuances = {}

\* A group is of items or of fungible issuances.  The wallet holds an item once, as
\* one unit, and of no asset more than an amount can say.
ASSUME HoldingsAssumption ==
    /\ Collectibles \subseteq Issuances
    /\ \A i, j \in Issuances :
          GroupOf[i] = GroupOf[j] /\ GroupOf[i] # None =>
              (i \in Collectibles <=> j \in Collectibles)
    /\ \A c \in Coins : c.amount > 0 /\ (c.issuance \in Collectibles => c.amount = 1)
    /\ \A c, d \in Coins :
          c.issuance = d.issuance /\ c.issuance \in Collectibles => c = d
    /\ \A i \in Issuances :
          SumFunction([c \in Records(Coins, RecordRef(i)) |-> c.amount]) <= MaxAmount

VARIABLES
    coins,        \* the wallet's unspent coins in the chain
    spent,        \* the coins the chain has seen spent
    fundings,     \* tapd: how many fundings were made
    commits,      \* tapd: how many commits were made
    transfers,    \* tapd: the transfers logged
    confirmed,    \* the chain: the transfers confirmed
    builder,      \* the TxBuilder
    interactive,  \* the InteractiveTxBuilder
    kept,         \* the host's copy of the first commit's artifacts, or None
    setups,       \* setter calls so far
    again         \* reasons for a user to be charged again

tapd == <<coins, spent, fundings, commits, transfers, confirmed>>
vars == <<tapd, builder, interactive, kept, setups, again>>

Users == {"builder", "interactive", "wallet"}

-----------------------------------------------------------------------------
(* tapd and the chain *)

Anchors(cs) == {c.anchor : c \in cs}
Pending == UNION {t.spends : t \in transfers \ confirmed}
Spendable == {c \in coins : c.anchor \notin Pending}

Total(payments) ==
    Saturated(SumFunction([i \in DOMAIN payments |-> payments[i].amount]))

\* tapd funds a payment from spendable coins of the asset, and needs all of them.
\* A funded coin is leased for a while only: any coin no transfer spends will do.
Selections(ref, amount) ==
    {s \in SUBSET Records(Spendable, ref) :
        /\ SumOf(s) >= amount
        /\ \A c \in s : SumOf(s \ {c}) < amount}

Passive(inputs) ==
    {c \in coins : c.anchor \in Anchors(inputs)} \ inputs

\* tapd refuses packets that leave an asset of a spent anchor behind, or take one
\* from an anchor that is not spent.
Accounted(funding, passive) ==
    funding.inputs \subseteq coins /\ passive = Passive(funding.inputs)

\* A funding: its coins, what it pays and what the host asked for.
Fundings(payments, asked) ==
    {[n |-> fundings + 1, inputs |-> s, pays |-> payments, asked |-> asked] :
        s \in Selections(payments[1].ref, Total(payments))}

\* What the host asked for, as its addresses read.
Asked(recipients) ==
    [i \in DOMAIN recipients |->
        LET address == DecodeAddress(recipients[i].address)
        IN [ref |-> address.ref, embedded |-> address.amount,
            amount |-> recipients[i].amount]]

\* The fundings a TxBuilder may hold.
Fundable ==
    [n : Nat, inputs : SUBSET Coin,
     pays : {Payments(Normalised(rs, TRUE)) : rs \in RecipientLists},
     asked : {Asked(rs) : rs \in RecipientLists}]

ASSUME NoneAssumption == None \notin Fundable

CanFund(payments) ==
    /\ fundings < MaxFundings
    /\ Selections(payments[1].ref, Total(payments)) # {}

\* A logged transfer spends whole anchors; what it re-anchors are its passive coins.
Log(user, funding, passive, published) ==
    /\ Cardinality(transfers) < MaxTransfers
    /\ transfers' = transfers \cup
         {[n |-> Cardinality(transfers) + 1, by |-> user,
           spends |-> Anchors(funding.inputs), inputs |-> funding.inputs,
           pays |-> funding.pays, asked |-> funding.asked,
           passive |-> passive, published |-> published]}

\* The wallet's share: the change of the inputs, and the passive coins.
Received(t) ==
    LET change == SumOf(t.inputs) - Total(t.pays)
        largest == CHOOSE c \in t.inputs : \A d \in t.inputs : d.amount <= c.amount
    IN {[c EXCEPT !.anchor = t.n] : c \in t.passive}
       \cup (IF change > 0
             THEN {[issuance |-> largest.issuance, amount |-> change, anchor |-> t.n]}
             ELSE {})

\* The chain confirms a transfer whose anchors are unspent.
Confirm ==
    \E t \in transfers \ confirmed :
        /\ t.spends \subseteq Anchors(coins)
        /\ confirmed' = confirmed \cup {t}
        /\ spent' = spent \cup {c \in coins : c.anchor \in t.spends}
        /\ coins' = {c \in coins : c.anchor \notin t.spends} \cup Received(t)
        /\ UNCHANGED <<fundings, commits, transfers, builder,
                       interactive, kept, setups, again>>

-----------------------------------------------------------------------------
(* TxBuilder *)

\* The builder's stage is how far its calls have come in their order, 0 once the
\* host leaves it: funded 1, then signed 2, then committed 3.
Init ==
    /\ coins = Coins /\ spent = {}
    /\ fundings = 0 /\ commits = 0
    /\ transfers = {} /\ confirmed = {}
    /\ builder = [at |-> "idle", recipients |-> <<>>, funded |-> None,
                  passive |-> [coins |-> {}, commit |-> 0],
                  signed |-> None, anchor |-> None, change |-> 0, locks |-> 0,
                  stage |-> 0, finished |-> FALSE]
    /\ interactive = [at |-> "idle", issuance |-> None, funded |-> None,
                      ask |-> [ref |-> None, amount |-> 0, embedded |-> 0],
                      finished |-> FALSE]
    /\ kept = None /\ setups = 0
    /\ again = [u \in Users |-> 0]

\* SetRecipients and AddRecipient take no lock: also while Execute runs.
SetRecipients ==
    /\ setups < MaxSetups
    /\ \E rs \in RecipientLists \ {builder.recipients} :
         builder' = [builder EXCEPT !.recipients = rs]
    /\ setups' = setups + 1
    /\ UNCHANGED <<tapd, interactive, kept, again>>

\* SetFundedPsbt, SetSignedPsbt, SetAnchorPsbt and SetPassivePsbts, with what an
\* earlier call returned.
SetPsbt ==
    /\ setups < MaxSetups /\ kept # None
    /\ builder.at = "idle"
    /\ \E field \in {"funded", "signed", "anchor", "passive"} :
         builder' = [builder EXCEPT ![field] = kept[field], !.stage = 0]
    /\ builder' # builder
    /\ setups' = setups + 1
    /\ UNCHANGED <<tapd, interactive, kept, again>>

\* A failing call of tapd, or of the anchor signer, ends Execute with an error.
ExecuteFails ==
    /\ builder.at # "idle"
    /\ builder' = [builder EXCEPT !.at = "idle"]
    /\ UNCHANGED <<tapd, interactive, kept, setups, again>>

Funded(f, next) ==
    [builder EXCEPT !.funded = f, !.at = next, !.stage = 1,
                    !.passive = [coins |-> Passive(f.inputs), commit |-> 0]]

\* FundTransfer, and what the builder keeps of its answer.
FundTransfer(next) ==
    LET recipients == Normalised(builder.recipients, TRUE)
        payments == Payments(recipients)
    IN /\ RecipientsValid(builder.recipients)
       /\ Explicit(recipients)
       /\ CanFund(payments)
       /\ \E f \in Fundings(payments, Asked(builder.recipients)) :
            /\ fundings' = f.n
            /\ \/ builder' = Funded(f, next)
               \/ UNCHANGED builder
       /\ UNCHANGED <<coins, spent, commits, transfers, confirmed, interactive,
                      kept, setups>>

\* A host that funds a funded builder again asks for another transfer.
Fund ==
    /\ builder.at = "idle" /\ ~builder.finished
    /\ FundTransfer("idle")
    /\ again' = [again EXCEPT !["builder"] =
                    IF builder.funded # None THEN @ + 1 ELSE @]

\* Faulty variant: Execute funds whatever the builder holds.
ExecuteAnew ==
    /\ builder.at = "idle" /\ ~builder.finished
    /\ FundTransfer("sign")
    /\ UNCHANGED again

\* Execute funds if the builder is not funded yet.
Execute ==
    /\ builder.at = "idle" /\ ~builder.finished
    /\ IF builder.funded = None
       THEN FundTransfer("sign")
       ELSE /\ builder' = [builder EXCEPT !.at = "sign"]
            /\ UNCHANGED <<tapd, interactive, kept, setups>>
    /\ UNCHANGED again

\* A step is taken by Execute, or by a call of its own.
MayCall(step) ==
    \/ builder.at = step
    \/ builder.at = "idle" /\ ~builder.finished

\* Sign and Execute: the signed packet replaces one that was committed.
Sign ==
    /\ MayCall("sign")
    /\ builder.funded # None
    /\ builder' = [builder EXCEPT
         !.signed = [fund |-> builder.funded, commit |-> 0],
         !.stage = IF @ > 0 THEN 2 ELSE 0,
         !.at = IF @ = "sign" THEN "commit" ELSE "idle"]
    /\ UNCHANGED <<tapd, interactive, kept, setups, again>>

Commitment ==
    [n |-> commits + 1, fund |-> builder.signed.fund, passive |-> builder.passive.coins]

\* Faulty variant: the passive packets and the change index stay as they were.
AppliedToAnchor(c) ==
    [builder EXCEPT !.anchor = c, !.signed = [fund |-> c.fund, commit |-> c.n],
                    !.stage = IF @ > 1 THEN 3 ELSE 0]

\* applyCommitResponse; a legacy client's answer has no change index and no locks.
Applied(c) ==
    [builder EXCEPT
        !.anchor = c,
        !.signed = [fund |-> c.fund, commit |-> c.n],
        !.passive = IF c.passive = {} THEN @ ELSE [coins |-> c.passive, commit |-> c.n],
        !.change = IF Advanced THEN c.n ELSE 0,
        !.locks = IF Advanced THEN c.n ELSE 0,
        !.stage = IF @ > 1 THEN 3 ELSE 0]

Commit ==
    /\ MayCall("commit")
    /\ builder.signed # None
    /\ commits < MaxCommits
    /\ Accounted(builder.signed.fund, builder.passive.coins)
    /\ commits' = commits + 1
    /\ \/ LET c == Commitment
              after == [Applied(c) EXCEPT !.at = IF @ = "commit" THEN "publish"
                                                                 ELSE "idle"]
          IN /\ builder' = after
             /\ kept' = IF kept # None THEN kept
                        ELSE [funded |-> after.funded, signed |-> after.signed,
                              anchor |-> after.anchor, passive |-> after.passive]
       \/ builder' = [builder EXCEPT !.at = "idle"] /\ UNCHANGED kept
    /\ UNCHANGED <<coins, spent, fundings, transfers, confirmed,
                   interactive, setups, again>>

\* publishAndLog, for Finish and Execute.  The builder is finished by an answer.
Publish ==
    /\ MayCall("publish")
    /\ builder.anchor # None
    /\ Accounted(builder.anchor.fund, builder.passive.coins)
    /\ builder.signed.fund = builder.anchor.fund
    /\ Log("builder", builder.anchor.fund, builder.passive.coins,
           [anchor |-> builder.anchor, signed |-> builder.signed,
            passive |-> builder.passive, change |-> builder.change,
            locks |-> builder.locks, inOrder |-> builder.stage = 3])
    /\ \E answered \in BOOLEAN :
         builder' = [builder EXCEPT !.at = "idle", !.finished = answered]
    /\ UNCHANGED <<coins, spent, fundings, commits, confirmed,
                   interactive, kept, setups, again>>

-----------------------------------------------------------------------------
(* InteractiveTxBuilder *)

Answer(at) ==
    interactive' = [interactive EXCEPT !.at = at]

\* SetAsset.
SetAsset ==
    /\ setups < MaxSetups
    /\ interactive.at = "idle"
    /\ \E ask \in InteractiveAsks \ {interactive.ask} :
         interactive' = [interactive EXCEPT !.ask = ask]
    /\ setups' = setups + 1
    /\ UNCHANGED <<tapd, builder, kept, again>>

\* resolveAssetID: a group is paid from the first record that is large enough.
Resolved(ask) ==
    IF ask.ref \in Issuances THEN {ask.ref}
    ELSE {c.issuance : c \in {r \in Records(Spendable, ask.ref) :
                                r.amount >= ask.amount}}

ExecuteInteractive ==
    /\ interactive.at = "idle" /\ ~interactive.finished
    /\ interactive.ask.ref # None /\ interactive.ask.amount > 0
    /\ \E i \in Resolved(interactive.ask) :
         interactive' = [interactive EXCEPT !.at = "fund", !.issuance = i]
    /\ UNCHANGED <<tapd, builder, kept, setups, again>>

InteractiveFails ==
    /\ interactive.at # "idle"
    /\ Answer("idle")
    /\ UNCHANGED <<tapd, builder, kept, setups, again>>

\* The packet is funded anew by every Execute; the records may have changed since
\* they were listed.
FundInteractive ==
    LET payments == << [ref |-> interactive.issuance,
                        amount |-> interactive.ask.amount] >>
    IN /\ interactive.at = "fund"
       /\ CanFund(payments)
       /\ \E f \in Fundings(payments, <<interactive.ask>>) :
            /\ fundings' = f.n
            /\ \/ interactive' = [interactive EXCEPT !.at = "complete", !.funded = f]
               \/ Answer("idle")
       /\ UNCHANGED <<coins, spent, commits, transfers, confirmed, builder, kept,
                      setups, again>>

\* sign, and complete: tapd anchors the packet with its own passive assets.
Complete ==
    /\ interactive.at = "complete"
    /\ interactive.funded.inputs \subseteq coins
    /\ Log("interactive", interactive.funded,
           Passive(interactive.funded.inputs), None)
    /\ \E answered \in BOOLEAN :
         /\ interactive' = [interactive EXCEPT !.at = "idle", !.finished = answered]
         /\ again' = [again EXCEPT !["interactive"] = IF answered THEN @ ELSE @ + 1]
    /\ UNCHANGED <<coins, spent, fundings, commits, confirmed, builder,
                   kept, setups>>

-----------------------------------------------------------------------------
(* Send, SendMulti and Burn: one call of tapd *)

\* The host repeats a call whose answer was lost, and no other.
Call(payments, asked) ==
    /\ Cardinality({t \in transfers : t.by = "wallet"}) <= again["wallet"]
    /\ CanFund(payments)
    /\ \E f \in Fundings(payments, asked) :
         /\ fundings' = f.n
         /\ Log("wallet", f, Passive(f.inputs), None)
    /\ \E answered \in BOOLEAN :
         again' = [again EXCEPT !["wallet"] = IF answered THEN @ ELSE @ + 1]
    /\ UNCHANGED <<coins, spent, commits, confirmed, builder, interactive, kept,
                   setups>>

Send ==
    \E r \in SingleSends :
        /\ SendValid(r)
        /\ Call(Payments(<<r>>), Asked(<<r>>))

SendMulti ==
    \E rs \in RecipientLists :
        LET recipients == Normalised(rs, FALSE)
        IN /\ RecipientsValid(rs)
           /\ Uniform(recipients)
           /\ Call(Payments(recipients), Asked(rs))

Burn ==
    \E burn \in Burns :
        /\ burn.amount > 0 /\ burn.ref \in References
        /\ Call(<<burn>>, <<burn>>)

Next ==
    \/ SetRecipients \/ SetPsbt \/ SetAsset
    \/ Fund \/ Execute \/ Sign \/ Commit \/ Publish \/ ExecuteFails
    \/ ExecuteInteractive \/ FundInteractive \/ Complete \/ InteractiveFails
    \/ Send \/ SendMulti \/ Burn
    \/ Confirm

Spec == Init /\ [][Next]_vars

-----------------------------------------------------------------------------
(* Properties *)

\* However often Execute, Finish or a one-shot call is repeated after an error or a
\* lost answer, a TxBuilder pays once for each funding the host asks for; the
\* InteractiveTxBuilder and the one-shot calls pay again only if the answer to the
\* call that logged the transfer was lost (tx_builder.go:225).
PaidOnce ==
    \A u \in Users :
        Cardinality({t \in confirmed : t.by = u}) <= 1 + again[u]

\* Every logged transfer pays each recipient what its address embeds and what the
\* caller gave, all in the one asset the addresses name, group keys taken without
\* their parity; an interactive transfer is paid from an issuance of the asset asked
\* for (recipient.go:7).
PaidAsAsked ==
    \A t \in transfers : \A i \in DOMAIN t.asked :
        LET asked == t.asked[i]
            paid == t.pays[i].amount
        IN /\ paid > 0
           /\ asked.amount \in {None, paid}
           /\ asked.embedded \in {0, paid}
           /\ \A c \in t.inputs : \E ref \in {c.issuance, RecordRef(c.issuance)} :
                 Equivalent(asked.ref, ref)

\* What a TxBuilder publishes is of one funding and one commit: anchor, packet,
\* passive assets, change output and locks, and every asset beside the inputs is
\* re-anchored, as long as the host calls in order and injects nothing
\* (tx_builder.go:362).
PublishedIsCoherent ==
    \A t \in transfers :
        t.by = "builder" /\ t.published.inOrder =>
            LET p == t.published
            IN /\ p.signed = [fund |-> p.anchor.fund, commit |-> p.anchor.n]
               /\ p.passive.coins = p.anchor.passive
               /\ p.passive.coins # {} => p.passive.commit = p.anchor.n
               /\ {p.change, p.locks} = {IF Advanced THEN p.anchor.n ELSE 0}
               /\ t.spends \subseteq Anchors(coins) =>
                    t.passive = Passive(t.inputs)

\* The wallet's views of one set of coins agree: an asset's listed amount is its
\* balance, the sum of its proofs and of its issuances, and what can be proved
\* owned; an item counts once even when its spent coin is listed with its
\* successor; a collection has as many items as are listed (wallet.go:487).
WalletViewsAgree ==
    LET assets == ListAssets(Spendable)
        sum(entries) == SumOf(entries)
    IN /\ \A a \in assets :
            /\ GetBalance(Spendable, a.ref) = a.amount
            /\ sum(ExportProof(Spendable, a.ref)) = a.amount
            /\ a.collection = None =>
                 sum({i \in ListIssuances(Spendable) : i.ref = a.ref}) \in
                    {a.amount, 0}
            /\ \A n \in 1..a.amount :
                 LET proofs == ProveOwnership(coins, a.ref, n)
                 IN proofs # {} /\ \A p \in proofs : sum(p) >= n
       /\ \A a \in ListAssets(coins \cup spent) :
            a.ref \in Collectibles => a.amount = 1
       /\ \A col \in ListCollections(Spendable) :
            Cardinality(ListCollectionItems(Spendable, col.ref)) = col.items
       /\ FilterAssets(assets, 1, 0) = assets

=============================================================================
