----------------------------- MODULE AssetViews -----------------------------
(***************************************************************************)
(* What a wallet says it holds (wallet.go, ownership.go and the clients'   *)
(* listings).  tapd lists coins, the outputs of single issuances; the SDK  *)
(* speaks of assets: all issuances of a fungible group are one asset, an   *)
(* item of a collection is an asset of its own, a collection is none.      *)
(* Each call aggregates the coins anew, in its own way.                    *)
(*                                                                         *)
(* A coin is [issuance, amount, anchor]; a reference is a group or, for    *)
(* one issuance, the issuance itself.                                      *)
(***************************************************************************)
EXTENDS Integers, FiniteSets, Functions

CONSTANTS
    GroupOf,       \* the group of each issuance, or None
    Collectibles,  \* the issuances that are single items
    MaxAmount,     \* the largest amount: sums saturate there
    None

Issuances == DOMAIN GroupOf
Groups == {GroupOf[i] : i \in Issuances} \ {None}
References == Groups \cup Issuances

\* addSaturatingUint64.
Saturated(sum) == IF sum > MaxAmount THEN MaxAmount ELSE sum

SumOf(coins) == Saturated(SumFunction([c \in coins |-> c.amount]))

\* AssetRefFromAsset: the reference of a record.
RecordRef(issuance) ==
    IF GroupOf[issuance] # None THEN GroupOf[issuance] ELSE issuance

\* ListAssetRecords: tapd filters by group, the client by reference.
Records(coins, ref) ==
    {c \in coins : RecordRef(c.issuance) = ref \/ c.issuance = ref}

-----------------------------------------------------------------------------
(* ListAssets, ListCollections, ListIssuances *)

\* assetFromRecord: an item of a collection is an asset of its own.
AssetRefOf(issuance) ==
    IF issuance \in Collectibles THEN issuance ELSE RecordRef(issuance)

CollectionOf(issuance) ==
    IF issuance \in Collectibles THEN GroupOf[issuance] ELSE None

\* Faulty variant: every record counts.
SummedAmount(records) == SumOf(records)

\* One record of each item counts: a spent one may be listed beside its successor.
ListedAmount(records) ==
    LET items == {c.issuance : c \in {r \in records : r.issuance \in Collectibles}}
    IN SumOf({c \in records : c.issuance \notin Collectibles}
             \cup {CHOOSE c \in records : c.issuance = i : i \in items})

ListAssets(records) ==
    {[ref |-> AssetRefOf(i), collection |-> CollectionOf(i),
      amount |-> ListedAmount({c \in records :
                                 AssetRefOf(c.issuance) = AssetRefOf(i)})] :
        i \in {c.issuance : c \in records}}

ListCollections(records) ==
    {[ref |-> g,
      items |-> Cardinality({c.issuance : c \in {r \in records :
                                CollectionOf(r.issuance) = g}})] :
        g \in {CollectionOf(c.issuance) : c \in records} \ {None}}

ListCollectionItems(records, collection) ==
    {a \in ListAssets(Records(records, collection)) : a.collection # None}

ListIssuances(records) ==
    {[ref |-> RecordRef(i), issuance |-> i,
      amount |-> SumOf({c \in records : c.issuance = i})] :
        i \in {c.issuance : c \in records} \ Collectibles}

\* MinAmount and MaxAmount apply to assets, not to the coins behind them.
FilterAssets(assets, min, max) ==
    {a \in assets : a.amount >= min /\ (max = 0 \/ a.amount <= max)}

-----------------------------------------------------------------------------
(* ListBalances and GetBalance *)

\* tapd's rows, one for each issuance, under the SDK's references.
RowRef(issuance) ==
    IF GroupOf[issuance] # None /\ issuance \notin Collectibles
    THEN GroupOf[issuance] ELSE issuance

\* The sum of the rows is not checked for overflow.
RowSum(coins) == SumFunction([c \in coins |-> c.amount]) % (MaxAmount + 1)

ListBalances(coins) ==
    [ref \in {RowRef(c.issuance) : c \in coins} |->
        RowSum({c \in coins : RowRef(c.issuance) = ref})]

\* tapd's own sum for a group.
GroupBalance(coins, ref) == SumOf({c \in coins : GroupOf[c.issuance] = ref})

\* A group is asked for as a group, an issuance as a filter on the rows; what has
\* no row is zero if the universe knows it.
GetBalance(coins, ref) ==
    LET rows == ListBalances({c \in coins : c.issuance = ref})
    IN IF ref \in Groups THEN GroupBalance(coins, ref)
       ELSE IF ref \in DOMAIN rows THEN rows[ref] ELSE 0

-----------------------------------------------------------------------------
(* Proofs *)

\* An item of a collection goes by its own reference.
EntryRef(ref, coin) ==
    IF ref \in Groups /\ coin.issuance \in Collectibles THEN coin.issuance ELSE ref

\* ExportProof: one entry for each coin.
ExportProof(records, ref) ==
    {[ref |-> EntryRef(ref, c), issuance |-> c.issuance, anchor |-> c.anchor,
      amount |-> c.amount] : c \in Records(records, ref)}

\* ProveOwnership may select these coins, leased ones among them.  tapd orders the
\* outputs by outpoint: any order is possible.
OwnershipCandidates(coins, ref) ==
    IF ref \in Groups THEN {c \in coins : RecordRef(c.issuance) = ref}
                      ELSE {c \in coins : c.issuance = ref}

OwnershipSelections(coins, ref, amount) ==
    LET candidates == OwnershipCandidates(coins, ref)
        items == {c \in candidates : c.issuance \in Collectibles}
    IN IF items # {}
       THEN {{c} : c \in {i \in items : items = candidates /\ amount <= 1}}
       ELSE {s \in SUBSET candidates :
                /\ s # {} /\ SumOf(s) >= amount
                /\ \E last \in s : SumOf(s \ {last}) < amount}

\* One proof for each coin selected, by tapd.
ProveOwnership(coins, ref, amount) ==
    {{[ref |-> EntryRef(ref, c), issuance |-> c.issuance, anchor |-> c.anchor,
       amount |-> c.amount] : c \in selected} :
        selected \in OwnershipSelections(coins, ref, amount)}
=============================================================================
