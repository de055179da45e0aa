----------------------- MODULE WalletTransfers_proofs -----------------------
(***************************************************************************)
(* What three users of one wallet do to its assets, whatever coins it      *)
(* holds, whatever they ask for and however often tapd's answers are lost. *)
(*                                                                         *)
(* CoinsInv, TransfersInv and HoldersInv say what coins, transfers and the *)
(* users' fundings look like, AskInv how far an interactive call is,       *)
(* AnchorsInv that no anchor is spent twice, HeldInv how many fundings a   *)
(* TxBuilder may have come by, CallsInv how often the other two users had  *)
(* a transfer logged, and InOrderInv what a TxBuilder holds once the host  *)
(* has called it in order.  CoinsInv includes that the holdings are Sound: *)
(* no transfer makes an asset worth more than an amount can say, and       *)
(* an item stays one coin.  SpentInv says the little that the views        *)
(* need of coins already spent.                                            *)
(***************************************************************************)
EXTENDS WalletTransfers, Sums

Worth == [c \in Coin |-> c.amount]

\* The coins of the asset a reference stands for.
Of(cs, ref) == {c \in cs : RecordRef(c.issuance) = ref}

\* Coins that are worth something, an item one unit and once, and an asset no more
\* than an amount can say.
Sound(cs) ==
    /\ \A c \in cs : c.amount > 0 /\ (c.issuance \in Collectibles => c.amount = 1)
    /\ \A c, d \in cs : c.issuance = d.issuance /\ c.issuance \in Collectibles => c = d
    /\ \A ref : Sum(Worth, Of(cs, ref)) <= MaxAmount

\* A funding is of one asset, and pays items without change.
OneAsset(f) ==
    /\ \A c, d \in f.inputs : RecordRef(c.issuance) = RecordRef(d.issuance)
    /\ \A c \in f.inputs :
          c.issuance \in Collectibles => SumOf(f.inputs) <= Total(f.pays)

\* A funding, or a transfer of it, pays what was asked for.
PaysAsAsked(f) ==
    \A i \in DOMAIN f.asked :
        LET asked == f.asked[i]
            paid == f.pays[i].amount
        IN /\ paid > 0
           /\ asked.amount \in {None, paid}
           /\ asked.embedded \in {0, paid}
           /\ \A c \in f.inputs : \E ref \in {c.issuance, RecordRef(c.issuance)} :
                 Equivalent(asked.ref, ref)

IsFunding(f) ==
    /\ f.inputs \subseteq Coin /\ IsFiniteSet(f.inputs) /\ f.inputs # {}
    /\ IsFiniteSet(DOMAIN f.pays) /\ \A i \in DOMAIN f.pays : f.pays[i].amount \in Nat
    /\ PaysAsAsked(f) /\ OneAsset(f)

\* The fundings that a TxBuilder, or the host's copy of its artifacts, refers to.
FundOf(x) == IF x = None THEN {} ELSE {x.fund}

HeldIn(b) ==
    (IF b.funded = None THEN {} ELSE {b.funded}) \cup FundOf(b.signed) \cup FundOf(b.anchor)

Held == HeldIn(builder) \cup (IF kept = None THEN {} ELSE HeldIn(kept))

By(user) == {t \in transfers : t.by = user}

\* The coins the TxBuilder was ever given to spend, as far as anyone can tell.
Given == {f.inputs : f \in Held} \cup {t.inputs : t \in By("builder")}

Fields == {"at", "recipients", "funded", "passive", "signed", "anchor", "change",
           "locks", "stage", "finished"}

CoinsInv ==
    coins \subseteq Coin /\ IsFiniteSet(coins) /\ Sound(coins) /\ fundings \in Nat

TransfersInv ==
    /\ IsFiniteSet(transfers) /\ confirmed \subseteq transfers
    /\ \A t \in transfers : /\ IsFunding(t) /\ t.spends = Anchors(t.inputs)
                            /\ t.passive \subseteq Coin /\ IsFiniteSet(t.passive)
                            /\ t.n \in 1..Cardinality(transfers)
                            /\ t.n \in 1..MaxTransfers
    /\ \A t, u \in transfers : t.n = u.n => t = u

HoldersInv ==
    /\ DOMAIN builder = Fields
    /\ DOMAIN interactive = {"at", "issuance", "funded", "ask", "finished"}
    /\ again \in [Users -> Nat]
    /\ builder.recipients \in RecipientLists \cup {<<>>}
    /\ kept # None => kept.funded # None /\ builder.funded # None
    /\ builder.signed # None => builder.funded # None
    /\ \A f \in Held : IsFunding(f)

AskInv ==
    /\ interactive.ask.embedded = 0 /\ interactive.ask.amount \in Nat
    /\ interactive.at \in {"idle", "fund", "complete"}
    /\ interactive.at = "fund" =>
         /\ interactive.ask.amount > 0
         /\ interactive.issuance \in Issuances
         /\ interactive.ask.ref \in {interactive.issuance, RecordRef(interactive.issuance)}
    /\ interactive.at = "complete" => IsFunding(interactive.funded)
    /\ interactive.at # "idle" => ~interactive.finished

\* The anchors that exist or existed.
Known == Anchors(Coins) \cup {t.n : t \in confirmed}

AnchorsInv ==
    /\ Anchors(coins) \subseteq Known
    /\ \A t \in transfers : t.spends \subseteq Known
    /\ \A t \in confirmed : t.spends \cap Anchors(coins) = {}
    /\ \A t, u \in confirmed : t # u => t.spends \cap u.spends = {}
    /\ \A t \in transfers :
          t.spends \subseteq Anchors(coins) =>
              t.inputs \subseteq coins /\ t.passive = Passive(t.inputs)

HeldInv ==
    /\ IsFiniteSet(Given)
    /\ builder.funded = None => Given = {}
    /\ Cardinality(Given) <= again["builder"] + 1

CallsInv ==
    /\ Cardinality(By("interactive"))
         <= again["interactive"] + (IF interactive.finished THEN 1 ELSE 0)
    /\ Cardinality(By("wallet")) <= again["wallet"] + 1

InOrder(b) ==
    /\ b.signed = [fund |-> b.anchor.fund, commit |-> b.anchor.n]
    /\ b.passive.coins = b.anchor.passive
    /\ b.passive.coins # {} => b.passive.commit = b.anchor.n
    /\ {b.change, b.locks} = {IF Advanced THEN b.anchor.n ELSE 0}

InOrderInv ==
    /\ builder.stage = 3 => InOrder(builder)
    /\ \A t \in By("builder") : t.published.inOrder => InOrder(t.published)
-----------------------------------------------------------------------------
(* Amounts and payments *)

LEMMA CoinsAreWorth ==
  ASSUME NEW cs, cs \subseteq Coin, IsFiniteSet(cs)
  PROVE  /\ \A c \in cs : Worth[c] = c.amount /\ Worth[c] \in Nat
         /\ Sum(Worth, cs) \in Nat
         /\ SumOf(cs) = Saturated(Sum(Worth, cs))
         /\ SumFunction([c \in cs |-> c.amount]) = Sum(Worth, cs)
<1> DEFINE worth == [c \in cs |-> c.amount]
<1>1. \A c \in cs : Worth[c] = c.amount /\ Worth[c] \in Nat /\ worth[c] = Worth[c]
  BY DEF Worth, Coin
<1>2. SumFunction(worth) = Sum(worth, cs)
  BY SumFunctionIsSum
<1>3. Sum(worth, cs) = Sum(Worth, cs)
  <2> HIDE DEF worth
  <2> QED
    BY <1>1, SumCongruence
<1>4. Sum(Worth, cs) \in Nat
  BY <1>1, SumNat
<1> QED
  BY <1>1, <1>2, <1>3, <1>4 DEF SumOf

LEMMA MoreIsWorthMore ==
  ASSUME NEW cs, cs \subseteq Coin, IsFiniteSet(cs), NEW ds, ds \subseteq cs
  PROVE  Sum(Worth, ds) <= Sum(Worth, cs)
  BY CoinsAreWorth, SumSubset

LEMMA TogetherAtMost ==
  ASSUME NEW cs, cs \subseteq Coin, IsFiniteSet(cs),
         NEW ds, ds \subseteq Coin, IsFiniteSet(ds)
  PROVE  Sum(Worth, cs \cup ds) <= Sum(Worth, cs) + Sum(Worth, ds)
<1>1. IsFiniteSet(ds \ cs) /\ ds \ cs \subseteq Coin /\ cs \cup ds = cs \cup (ds \ cs)
  BY FS_Subset
<1>2. \A c \in cs \cup ds : Worth[c] \in Int
  <2>1. \A c \in cs : Worth[c] \in Nat
    BY CoinsAreWorth
  <2>2. \A c \in ds : Worth[c] \in Nat
    BY CoinsAreWorth
  <2> QED
    BY <2>1, <2>2
<1>3. Sum(Worth, cs \cup (ds \ cs)) = Sum(Worth, cs) + Sum(Worth, ds \ cs)
  BY <1>1, <1>2, SumUnion
<1>4. Sum(Worth, ds \ cs) <= Sum(Worth, ds)
  BY MoreIsWorthMore
<1>5. Sum(Worth, cs) \in Nat
  BY CoinsAreWorth
<1>6. Sum(Worth, ds) \in Nat
  BY CoinsAreWorth
<1>7. Sum(Worth, ds \ cs) \in Nat
  BY <1>1, CoinsAreWorth
<1>8. Sum(Worth, cs \cup ds) = Sum(Worth, cs \cup (ds \ cs))
  BY <1>1
<1> QED
  BY <1>3, <1>4, <1>5, <1>6, <1>7, <1>8

\* A group is no issuance: whoever has a reference in common has its asset, and its
\* kind.
LEMMA Relatives ==
  ASSUME NEW i \in Issuances, NEW j \in Issuances
  PROVE  /\ RecordRef(i) \in {j, RecordRef(j)} => RecordRef(i) = RecordRef(j)
         /\ i \in {j, RecordRef(j)} => RecordRef(i) = RecordRef(j)
         /\ RecordRef(i) = RecordRef(j) => (i \in Collectibles <=> j \in Collectibles)
         /\ RecordRef(i) \in Issuances => RecordRef(i) = i
  BY WalletAssumption, HoldingsAssumption DEF RecordRef, Groups

\* Coins of one asset that Sound coins include add up without saturation.
LEMMA OneAssetIsWorth ==
  ASSUME NEW cs, cs \subseteq Coin, IsFiniteSet(cs), Sound(cs),
         NEW ds, ds \subseteq cs, NEW ref, \A c \in ds : RecordRef(c.issuance) = ref
  PROVE  /\ SumOf(ds) = Sum(Worth, ds) /\ Sum(Worth, ds) \in Nat
         /\ Sum(Worth, ds) <= MaxAmount
<1>1. ds \subseteq Of(cs, ref) /\ IsFiniteSet(ds) /\ ds \subseteq Coin
      /\ Of(cs, ref) \subseteq Coin /\ IsFiniteSet(Of(cs, ref))
  BY FS_Subset DEF Of
<1>2. Sum(Worth, ds) <= Sum(Worth, Of(cs, ref)) /\ Sum(Worth, Of(cs, ref)) \in Nat
  BY <1>1, MoreIsWorthMore, CoinsAreWorth
<1>3. Sum(Worth, Of(cs, ref)) <= MaxAmount
  BY DEF Sound
<1>4. Sum(Worth, ds) \in Nat /\ SumOf(ds) = Saturated(Sum(Worth, ds))
  BY <1>1, CoinsAreWorth
<1> QED
  BY <1>2, <1>3, <1>4, WalletAssumption DEF Saturated

LEMMA HoldingsAreSound == Sound(Coins)
<1>1. Coins \subseteq Coin /\ IsFiniteSet(Coins)
  BY WalletAssumption
<1>2. ASSUME NEW ref
      PROVE  Sum(Worth, Of(Coins, ref)) <= MaxAmount
  <2>1. CASE Of(Coins, ref) = {}
    BY <2>1, SumEmpty, WalletAssumption
  <2>2. CASE Of(Coins, ref) # {}
    <3>1. PICK c \in Coins : RecordRef(c.issuance) = ref
      BY <2>2 DEF Of
    <3>2. c.issuance \in Issuances /\ \A d \in Coins : d.issuance \in Issuances
      BY <1>1 DEF Coin
    <3>3. Records(Coins, ref) = Of(Coins, ref)
      BY <3>1, <3>2, Relatives DEF Records, Of
    <3>4. SumFunction([d \in Records(Coins, RecordRef(c.issuance)) |-> d.amount]) <= MaxAmount
      BY <3>2, HoldingsAssumption
    <3>5. Of(Coins, ref) \subseteq Coin /\ IsFiniteSet(Of(Coins, ref))
      BY <1>1, FS_Subset DEF Of
    <3>6. SumFunction([d \in Of(Coins, ref) |-> d.amount]) = Sum(Worth, Of(Coins, ref))
      BY <3>5, CoinsAreWorth
    <3> QED
      BY <3>1, <3>3, <3>4, <3>6
  <2> QED
    BY <2>1, <2>2
<1> QED
  BY <1>2, HoldingsAssumption DEF Sound

LEMMA NothingIsWorthNothing == SumOf({}) = 0
<1> DEFINE none == [c \in {} |-> c.amount]
<1>1. SumFunction(none) = Sum(none, {})
  <2>1. DOMAIN none = {}
    OBVIOUS
  <2> HIDE DEF none
  <2> QED
    BY <2>1, SumFunctionIsSum
<1>2. SumFunction(none) = 0
  BY <1>1, SumEmpty
<1> HIDE DEF none
<1> QED
  BY <1>2, WalletAssumption DEF SumOf, Saturated, none

\* What one of several payments is worth, all of them are worth, or more than an
\* amount can say.
LEMMA TotalIsPositive ==
  ASSUME NEW payments, IsFiniteSet(DOMAIN payments),
         \A i \in DOMAIN payments : payments[i].amount \in Nat,
         NEW i \in DOMAIN payments, payments[i].amount > 0
  PROVE  Total(payments) \in Nat /\ Total(payments) > 0
<1> DEFINE paid == [j \in DOMAIN payments |-> payments[j].amount]
<1>1. SumFunction(paid) = Sum(paid, DOMAIN payments)
  BY SumFunctionIsSum
<1>2. Sum(paid, DOMAIN payments) \in Nat
  <2>1. \A j \in DOMAIN payments : paid[j] \in Nat
    OBVIOUS
  <2> HIDE DEF paid
  <2> QED
    BY <2>1, SumNat
<1>3. Sum(paid, DOMAIN payments) > 0
  <2>1. \A j \in DOMAIN payments : paid[j] \in Nat
    OBVIOUS
  <2>2. paid[i] > 0
    OBVIOUS
  <2> HIDE DEF paid
  <2>3. Sum(paid, DOMAIN payments) = paid[i] + Sum(paid, DOMAIN payments \ {i})
    BY <2>1, SumRemove
  <2>4. Sum(paid, DOMAIN payments \ {i}) \in Nat
    BY <2>1, FS_RemoveElement, SumNat
  <2> QED
    BY <2>1, <2>2, <2>3, <2>4
<1> HIDE DEF paid
<1> QED
  BY <1>1, <1>2, <1>3, WalletAssumption DEF Total, Saturated, paid

Names(ref, c) == ref \in {c.issuance, RecordRef(c.issuance)}

\* What a request asks for is what it pays.
PaymentsFit(payments, asked) ==
    /\ IsFiniteSet(DOMAIN payments) /\ 1 \in DOMAIN payments
    /\ DOMAIN asked \subseteq DOMAIN payments
    /\ \A i \in DOMAIN payments : payments[i].amount \in Nat /\ payments[i].amount > 0
    /\ \A i \in DOMAIN asked :
          /\ asked[i].amount \in {None, payments[i].amount}
          /\ asked[i].embedded \in {0, payments[i].amount}
          /\ \A c \in Coin : Names(payments[1].ref, c) =>
                \E ref : Names(ref, c) /\ Equivalent(asked[i].ref, ref)

LEMMA FundingsFit ==
  ASSUME coins \subseteq Coin, IsFiniteSet(coins), Sound(coins), fundings \in Nat,
         NEW payments, NEW asked, PaymentsFit(payments, asked),
         NEW f \in Fundings(payments, asked)
  PROVE  /\ IsFunding(f) /\ f.n \in Nat /\ f.inputs \subseteq Spendable
         /\ f = [n |-> fundings + 1, inputs |-> f.inputs, pays |-> payments,
                 asked |-> asked]
<1>1. PICK s \in Selections(payments[1].ref, Total(payments)) :
         f = [n |-> fundings + 1, inputs |-> s, pays |-> payments, asked |-> asked]
  BY DEF Fundings
<1>2. Total(payments) \in Nat /\ Total(payments) > 0
  BY TotalIsPositive DEF PaymentsFit
<1>3. s \subseteq Spendable /\ s \subseteq coins /\ IsFiniteSet(s)
      /\ \A c \in s : Names(payments[1].ref, c)
  BY FS_Subset DEF Selections, Records, Spendable, Names
<1>4. s # {}
  BY <1>2, NothingIsWorthNothing DEF Selections
<1>5. PaysAsAsked(f)
  BY <1>1, <1>3 DEF PaysAsAsked, PaymentsFit, Names
<1>6. \A c, d \in s : RecordRef(c.issuance) = RecordRef(d.issuance)
  <2>1. \A c \in s : c.issuance \in Issuances
    BY <1>3 DEF Coin
  <2> QED
    BY <1>3, <2>1, Relatives DEF Names
<1>7. ASSUME NEW c \in s, c.issuance \in Collectibles
      PROVE  SumOf(s) <= Total(payments)
  <2>1. c \in Coin /\ IsFiniteSet(s \ {c}) /\ c.amount = 1 /\ Worth[c] = 1
    BY <1>3, <1>7, FS_RemoveElement DEF Sound, Worth
  <2>2. SumOf(s \ {c}) < Total(payments)
    BY <1>1 DEF Selections
  <2>3. SumOf(s) = Sum(Worth, s)
    BY <1>3, <1>6, OneAssetIsWorth
  <2>4. SumOf(s \ {c}) = Sum(Worth, s \ {c}) /\ Sum(Worth, s \ {c}) \in Nat
    BY <1>3, <1>6, OneAssetIsWorth
  <2>5. Sum(Worth, s) = Worth[c] + Sum(Worth, s \ {c})
    <3>1. s \subseteq Coin /\ \A d \in s : Worth[d] \in Int
      BY <1>3 DEF Worth, Coin
    <3> QED
      BY <1>3, <3>1, SumRemove
  <2> QED
    BY <1>2, <2>1, <2>2, <2>3, <2>4, <2>5
<1>8. OneAsset(f)
  BY <1>1, <1>6, <1>7 DEF OneAsset
<1> QED
  BY <1>1, <1>3, <1>4, <1>5, <1>8 DEF IsFunding, PaymentsFit

LEMMA ListFits ==
  ASSUME NEW rs \in RecipientLists, RecipientsValid(rs), NEW force \in BOOLEAN
  PROVE  PaymentsFit(Payments(Normalised(rs, force)), Asked(rs))
<1> DEFINE list == Normalised(rs, force)
           explicit == force \/ \E i \in DOMAIN rs : rs[i].amount # None
           own(i) == DecodeAddress(rs[i].address)
<1>1. Len(rs) \in Nat /\ DOMAIN rs = 1..Len(rs) /\ rs = [i \in 1..Len(rs) |-> rs[i]]
      /\ \A i \in DOMAIN rs : IsRecipient(rs[i])
  BY WalletAssumption DEF IsRecipientList
<1>2. 1 \in DOMAIN rs
  <2>1. Len(rs) # 0
    <3> SUFFICES ASSUME Len(rs) = 0 PROVE FALSE
      OBVIOUS
    <3>1. rs = [i \in 1..0 |-> rs[i]] /\ 1..0 = {}
      BY <1>1
    <3>2. rs = <<>>
      BY <3>1
    <3> QED
      BY <3>2 DEF RecipientsValid
  <2> QED
    BY <1>1, <2>1
<1>3. DOMAIN list = DOMAIN rs /\ IsFiniteSet(DOMAIN rs)
  BY <1>1, FS_Interval DEF Normalised
<1>4. \A i \in DOMAIN rs :
         /\ list[i].address = rs[i].address
         /\ list[i].amount = IF explicit /\ rs[i].amount = None
                             THEN own(i).amount ELSE rs[i].amount
  BY <1>1 DEF Normalised, IsRecipient
<1>5. \A i \in DOMAIN rs : AmountSettled(rs[i]) /\ Equivalent(own(1).ref, own(i).ref)
  BY <1>2 DEF RecipientsValid, SingleAsset
<1>6. \A i \in DOMAIN rs :
         LET paid == IF list[i].amount = None THEN own(i).amount ELSE list[i].amount
         IN  /\ paid \in Nat /\ paid > 0
             /\ rs[i].amount \in {None, paid}
             /\ own(i).amount \in {0, paid}
  BY <1>1, <1>4, <1>5 DEF AmountSettled, IsRecipient
<1>7. /\ DOMAIN Payments(list) = DOMAIN rs /\ DOMAIN Asked(rs) = DOMAIN rs
      /\ \A i \in DOMAIN rs :
            /\ Payments(list)[i] = [ref |-> own(i).ref,
                                    amount |-> IF list[i].amount = None
                                               THEN own(i).amount
                                               ELSE list[i].amount]
            /\ Asked(rs)[i] = [ref |-> own(i).ref, embedded |-> own(i).amount,
                               amount |-> rs[i].amount]
  BY <1>3, <1>4 DEF Payments, Asked
<1>8. \A i \in DOMAIN rs : \A ref :
         ref = own(1).ref => Equivalent(own(i).ref, ref)
  BY <1>5 DEF Equivalent
<1> HIDE DEF list, own
<1>9. PaymentsFit(Payments(list), Asked(rs))
  BY <1>2, <1>3, <1>6, <1>7, <1>8 DEF PaymentsFit
<1> QED
  BY <1>9 DEF list

LEMMA SingleFits ==
  ASSUME NEW r \in SingleSends, SendValid(r)
  PROVE  PaymentsFit(Payments(<<r>>), Asked(<<r>>))
<1> DEFINE own == DecodeAddress(r.address)
           paid == IF r.amount = None THEN own.amount ELSE r.amount
<1>1. /\ paid \in Nat /\ paid > 0
      /\ r.amount \in {None, paid} /\ own.amount \in {0, paid}
  BY WalletAssumption DEF SendValid, AmountSettled, IsRecipient
<1>2. /\ DOMAIN Payments(<<r>>) = {1} /\ DOMAIN Asked(<<r>>) = {1}
      /\ Payments(<<r>>)[1] = [ref |-> own.ref, amount |-> paid]
      /\ Asked(<<r>>)[1] = [ref |-> own.ref, embedded |-> own.amount,
                            amount |-> r.amount]
  BY DEF Payments, Asked
<1>3. IsFiniteSet({1})
  BY FS_Singleton
<1> HIDE DEF own, paid
<1> QED
  BY <1>1, <1>2, <1>3 DEF PaymentsFit, Equivalent

\* One payment of what was asked for.
LEMMA AskFits ==
  ASSUME NEW ask, ask.amount \in Nat, ask.amount > 0, ask.embedded = 0,
         NEW payment, payment.amount = ask.amount,
         \A c \in Coin : Names(payment.ref, c) => Names(ask.ref, c)
  PROVE  PaymentsFit(<<payment>>, <<ask>>)
<1>1. IsFiniteSet({1})
  BY FS_Singleton
<1>2. DOMAIN <<payment>> = {1} /\ DOMAIN <<ask>> = {1}
  OBVIOUS
<1> QED
  BY <1>1, <1>2 DEF PaymentsFit, Equivalent

\* A group is paid from one of its issuances.
LEMMA IssuanceNamesItsGroup ==
  ASSUME NEW issuance \in Issuances, NEW ref,
         ref \in {issuance, RecordRef(issuance)},
         NEW c \in Coin, Names(issuance, c)
  PROVE  Names(ref, c)
<1>1. c.issuance \in Issuances /\ issuance \notin Groups
  BY WalletAssumption DEF Coin
<1>2. c.issuance = issuance
  BY <1>1 DEF Names, RecordRef, Groups
<1> QED
  BY <1>2 DEF Names
-----------------------------------------------------------------------------
(* Transfers *)

LEMMA LoggedOnce ==
  ASSUME TransfersInv, NEW user, NEW f, NEW passive, NEW published,
         Log(user, f, passive, published)
  PROVE  \E t : /\ transfers' = transfers \cup {t} /\ t \notin transfers
                /\ t.by = user /\ t.inputs = f.inputs /\ t.pays = f.pays
                /\ t.asked = f.asked /\ t.spends = Anchors(f.inputs)
                /\ t.passive = passive /\ t.published = published
                /\ t.n = Cardinality(transfers) + 1
                /\ t.n \in 1..MaxTransfers
                /\ IsFiniteSet(transfers')
                /\ Cardinality(transfers) \in Nat
                /\ Cardinality(transfers') = Cardinality(transfers) + 1
<1> DEFINE t == [n |-> Cardinality(transfers) + 1, by |-> user,
                 spends |-> Anchors(f.inputs), inputs |-> f.inputs,
                 pays |-> f.pays, asked |-> f.asked,
                 passive |-> passive, published |-> published]
<1>1. transfers' = transfers \cup {t} /\ Cardinality(transfers) < MaxTransfers
  BY DEF Log
<1>2. Cardinality(transfers) \in Nat
  BY FS_CardinalityType DEF TransfersInv
<1>3. t \notin transfers
  BY <1>2 DEF TransfersInv
<1>4. t.n \in 1..MaxTransfers
  BY <1>1, <1>2, WalletAssumption
<1>5. IsFiniteSet(transfers')
      /\ Cardinality(transfers') = Cardinality(transfers) + 1
  BY <1>1, <1>3, FS_AddElement DEF TransfersInv
<1>6. /\ t.by = user /\ t.inputs = f.inputs /\ t.pays = f.pays
      /\ t.asked = f.asked /\ t.spends = Anchors(f.inputs)
      /\ t.passive = passive /\ t.published = published
      /\ t.n = Cardinality(transfers) + 1
  OBVIOUS
<1> HIDE DEF t
<1> QED
  BY <1>1, <1>2, <1>3, <1>4, <1>5, <1>6

LEMMA LogKeepsTransfers ==
  ASSUME CoinsInv, TransfersInv, AnchorsInv,
         NEW user, NEW f, IsFunding(f), f.inputs \subseteq coins, NEW published,
         Log(user, f, Passive(f.inputs), published), UNCHANGED <<coins, confirmed>>
  PROVE  TransfersInv' /\ AnchorsInv'
<1>1. PICK t : /\ transfers' = transfers \cup {t} /\ t \notin transfers
               /\ t.by = user /\ t.inputs = f.inputs /\ t.pays = f.pays
               /\ t.asked = f.asked /\ t.spends = Anchors(f.inputs)
               /\ t.passive = Passive(f.inputs) /\ t.published = published
               /\ t.n = Cardinality(transfers) + 1
               /\ t.n \in 1..MaxTransfers
               /\ IsFiniteSet(transfers')
               /\ Cardinality(transfers) \in Nat
               /\ Cardinality(transfers') = Cardinality(transfers) + 1
  BY LoggedOnce
<1>2. IsFunding(t)
  BY <1>1 DEF IsFunding, PaysAsAsked, OneAsset
<1>3. t.passive \subseteq Coin /\ IsFiniteSet(t.passive)
  BY <1>1, FS_Subset DEF Passive, CoinsInv
<1>4. TransfersInv'
  <2>1. confirmed' \subseteq transfers' /\ IsFiniteSet(transfers')
    BY <1>1 DEF TransfersInv
  <2>2. \A u \in transfers' : u = t \/ u \in transfers
    BY <1>1
  <2>3. \A u \in transfers :
           /\ IsFunding(u) /\ u.spends = Anchors(u.inputs)
           /\ u.passive \subseteq Coin /\ IsFiniteSet(u.passive)
           /\ u.n \in 1..Cardinality(transfers')
           /\ u.n \in 1..MaxTransfers
           /\ u.n # t.n
    BY <1>1 DEF TransfersInv
  <2>4. /\ IsFunding(t) /\ t.spends = Anchors(t.inputs)
        /\ t.n \in 1..Cardinality(transfers') /\ t.n \in 1..MaxTransfers
    BY <1>1, <1>2
  <2>5. \A u, v \in transfers : u.n = v.n => u = v
    BY DEF TransfersInv
  <2> QED
    BY <1>3, <2>1, <2>2, <2>3, <2>4, <2>5 DEF TransfersInv
<1>5. AnchorsInv'
  <2>1. t.spends \subseteq Anchors(coins)
    BY <1>1 DEF Anchors
  <2> QED
    BY <1>1, <2>1 DEF AnchorsInv, Known, Passive
<1> QED
  BY <1>4, <1>5

Change(t) == SumOf(t.inputs) - Total(t.pays)
Moved(t) == {[c EXCEPT !.anchor = t.n] : c \in t.passive}
Returned(t, c) == [issuance |-> c.issuance, amount |-> Change(t), anchor |-> t.n]

\* What a transfer pays back lands at its own anchor.
LEMMA ReceivedFits ==
  ASSUME NEW t, IsFunding(t), t.passive \subseteq Coin, IsFiniteSet(t.passive),
         t.n \in Nat
  PROVE  /\ Received(t) \subseteq Coin /\ IsFiniteSet(Received(t))
         /\ \A c \in Received(t) : c.anchor = t.n
         /\ Moved(t) \subseteq Coin /\ IsFiniteSet(Moved(t))
         /\ SumOf(t.inputs) \in Nat /\ Total(t.pays) \in Nat
         /\ \E largest \in t.inputs :
               Received(t) = Moved(t) \cup (IF Change(t) > 0
                                             THEN {Returned(t, largest)} ELSE {})
<1> DEFINE moved == {[c EXCEPT !.anchor = t.n] : c \in t.passive}
           total == SumOf(t.inputs)
           change == total - Total(t.pays)
           largest == CHOOSE c \in t.inputs : \A d \in t.inputs : d.amount <= c.amount
           returned == [issuance |-> largest.issuance, amount |-> change, anchor |-> t.n]
<1>1. moved \subseteq Coin /\ \A c \in moved : c.anchor = t.n
  BY DEF Coin
<1>2. IsFiniteSet(moved)
  <2> DEFINE at == [c \in t.passive |-> [c EXCEPT !.anchor = t.n]]
  <2>1. moved = {at[c] : c \in t.passive}
    OBVIOUS
  <2> HIDE DEF at
  <2>2. IsFiniteSet({at[c] : c \in t.passive})
    BY FiniteImage
  <2> QED
    BY <2>1, <2>2
<1>3. total \in Nat
  <2> DEFINE worth == [c \in t.inputs |-> c.amount]
  <2>1. \A c \in t.inputs : worth[c] \in Nat
    BY DEF IsFunding, Coin
  <2>2. SumFunction(worth) = Sum(worth, t.inputs)
    BY SumFunctionIsSum
  <2>3. Sum(worth, t.inputs) \in Nat
    <3>1. IsFiniteSet(t.inputs)
      BY DEF IsFunding
    <3> HIDE DEF worth
    <3> QED
      BY <2>1, <3>1, SumNat
  <2> QED
    BY <2>2, <2>3, WalletAssumption DEF SumOf, Saturated
<1>4. Total(t.pays) \in Nat
  <2> DEFINE paid == [j \in DOMAIN t.pays |-> t.pays[j].amount]
  <2>1. \A j \in DOMAIN t.pays : paid[j] \in Nat
    BY DEF IsFunding
  <2>2. SumFunction(paid) = Sum(paid, DOMAIN t.pays)
    BY SumFunctionIsSum
  <2>3. Sum(paid, DOMAIN t.pays) \in Nat
    <3>1. IsFiniteSet(DOMAIN t.pays)
      BY DEF IsFunding
    <3> HIDE DEF paid
    <3> QED
      BY <2>1, <3>1, SumNat
  <2> QED
    BY <2>2, <2>3, WalletAssumption DEF Total, Saturated
<1>5. largest \in t.inputs
  <2> DEFINE less == [c \in t.inputs |-> 0 - c.amount]
  <2>1. \A c \in t.inputs : c.amount \in Nat /\ less[c] = 0 - c.amount
    BY DEF IsFunding, Coin
  <2>2. IsFiniteSet({less[c] : c \in t.inputs})
    <3> HIDE DEF less
    <3> QED
      BY FiniteImage DEF IsFunding
  <2>3. {less[c] : c \in t.inputs} \subseteq Int /\ {less[c] : c \in t.inputs} # {}
    <3>1. \A c \in t.inputs : less[c] \in Int
      BY <2>1
    <3>2. PICK c : c \in t.inputs
      BY DEF IsFunding
    <3> HIDE DEF less
    <3> QED
      BY <3>1, <3>2
  <2>4. PICK x \in {less[c] : c \in t.inputs} : \A y \in {less[c] : c \in t.inputs} : x <= y
    <3> HIDE DEF less
    <3> QED
      BY <2>2, <2>3, LeastElement
  <2>5. \E c \in t.inputs : \A d \in t.inputs : d.amount <= c.amount
    <3>1. PICK c \in t.inputs : x = less[c]
      BY <2>4
    <3>2. \A d \in t.inputs : less[c] <= less[d]
      BY <2>4, <3>1
    <3> HIDE DEF less
    <3>3. \A d \in t.inputs : d.amount <= c.amount
      BY <2>1, <3>2
    <3> QED
      BY <3>3
  <2> QED
    BY <2>5
<1>6. change > 0 => returned \in Coin /\ returned.anchor = t.n
  BY <1>3, <1>4, <1>5 DEF IsFunding, Coin
<1>7. Received(t) = moved \cup (IF change > 0 THEN {returned} ELSE {})
  BY DEF Received
<1>9. moved = Moved(t) /\ change = Change(t) /\ returned = Returned(t, largest)
  BY DEF Moved, Change, Returned
<1>10. total = SumOf(t.inputs)
  OBVIOUS
<1> HIDE DEF moved, change, returned, total, largest
<1>8. IsFiniteSet(Received(t))
  BY <1>2, <1>7, FS_AddElement
<1>11. \E l \in t.inputs :
         Received(t) = Moved(t) \cup (IF Change(t) > 0 THEN {Returned(t, l)} ELSE {})
  BY <1>5, <1>7, <1>9
<1> QED
  BY <1>1, <1>2, <1>3, <1>4, <1>6, <1>7, <1>8, <1>9, <1>10, <1>11

LEMMA SpentIsReturned ==
  ASSUME NEW cs, cs \subseteq Coin, IsFiniteSet(cs), NEW t,
         Moved(t) \subseteq Coin, IsFiniteSet(Moved(t)), t.passive \subseteq cs, NEW ref
  PROVE  Sum(Worth, Of(Moved(t), ref)) <= Sum(Worth, Of(t.passive, ref))
<1> DEFINE From == Of(Moved(t), ref)
           before == [m \in From |-> CHOOSE c \in t.passive :
                                       m = [c EXCEPT !.anchor = t.n]]
           Kept == {c \in t.passive : \E m \in From : before[m] = c}
<1>1. \A m \in From : /\ before[m] \in t.passive
                     /\ m = [before[m] EXCEPT !.anchor = t.n]
  BY DEF Of, Moved
<1>2. \A m \in From : before[m] \in Coin /\ Worth[before[m]] = Worth[m] /\ Worth[m] \in Int
                      /\ before[m].issuance = m.issuance
  <2>1. \A m \in From : m \in Coin
    BY DEF Of
  <2> HIDE DEF before, From
  <2> QED
    BY <1>1, <2>1 DEF Worth, Coin
<1>3. Kept \subseteq Of(t.passive, ref)
  <2>1. \A m \in From : RecordRef(m.issuance) = ref
    BY DEF Of
  <2> HIDE DEF before, From
  <2> QED
    BY <1>2, <2>1 DEF Of
<1>4. before \in [From -> Kept]
  <2>1. before = [m \in From |-> before[m]]
    OBVIOUS
  <2> HIDE DEF before, From
  <2> QED
    BY <1>1, <2>1
<1>5. IsFiniteSet(From)
  BY FS_Subset DEF Of
<1>6. Sum(Worth, Kept) = Sum(Worth, From)
  <2>1. \A m, n \in From : before[m] = before[n] => m = n
    <3> HIDE DEF before, From
    <3> QED
      BY <1>1
  <2>2. \A c \in Kept : \E m \in From : before[m] = c
    OBVIOUS
  <2> HIDE DEF before, From, Kept
  <2> QED
    BY <1>2, <1>4, <1>5, <2>1, <2>2, SumReindex
<1>7. Sum(Worth, Kept) <= Sum(Worth, Of(t.passive, ref))
  <2>1. IsFiniteSet(Of(t.passive, ref)) /\ Of(t.passive, ref) \subseteq Coin
    BY FS_Subset DEF Of
  <2> HIDE DEF Kept
  <2> QED
    BY <1>3, <2>1, MoreIsWorthMore
<1> HIDE DEF Kept
<1> QED
  BY <1>6, <1>7


\* Confirming a transfer makes no asset worth more and no item twice: its passive
\* coins move, its inputs come back as change of their own asset.
LEMMA ConfirmIsSound ==
  ASSUME CoinsInv, NEW t, IsFunding(t), t.n \in Nat, t.spends = Anchors(t.inputs),
         t.inputs \subseteq coins, t.passive = Passive(t.inputs)
  PROVE  Sound({c \in coins : c.anchor \notin t.spends} \cup Received(t))
<1> DEFINE left == {c \in coins : c.anchor \notin t.spends}
           gone == {c \in coins : c.anchor \in t.spends}
<1>1. /\ t.passive \subseteq coins /\ t.passive \subseteq Coin /\ IsFiniteSet(t.passive)
      /\ t.inputs \subseteq Coin /\ IsFiniteSet(t.inputs)
      /\ t.passive \cap t.inputs = {}
      /\ left \subseteq Coin /\ IsFiniteSet(left) /\ left \subseteq coins
  BY FS_Subset DEF CoinsInv, Passive
<1>2. /\ gone = t.inputs \cup t.passive /\ left \cap gone = {} /\ coins = left \cup gone
      /\ left \cap t.passive = {}
  BY DEF Passive, Anchors
<1>3. /\ Received(t) \subseteq Coin /\ IsFiniteSet(Received(t))
      /\ Moved(t) \subseteq Coin /\ IsFiniteSet(Moved(t))
      /\ SumOf(t.inputs) \in Nat /\ Total(t.pays) \in Nat
  BY <1>1, ReceivedFits
<1>4. PICK largest \in t.inputs :
         Received(t) = Moved(t) \cup (IF Change(t) > 0 THEN {Returned(t, largest)} ELSE {})
  BY <1>1, ReceivedFits
<1>5. \A c \in Moved(t) : \E d \in t.passive :
         d.issuance = c.issuance /\ d.amount = c.amount /\ c = [d EXCEPT !.anchor = t.n]
  <2>1. \A d \in t.passive : d = [issuance |-> d.issuance, amount |-> d.amount,
                                  anchor |-> d.anchor]
    BY <1>1 DEF Coin
  <2> QED
    BY <2>1 DEF Moved
<1>6. Change(t) > 0 => largest.issuance \notin Collectibles
  BY <1>3, <1>4 DEF IsFunding, OneAsset, Change
<1>7. /\ Returned(t, largest).issuance = largest.issuance
      /\ Returned(t, largest).amount = Change(t)
  BY DEF Returned
<1>8. \A c \in Received(t) :
         \/ \E d \in t.passive :
               d.issuance = c.issuance /\ d.amount = c.amount /\ c = [d EXCEPT !.anchor = t.n]
         \/ c.issuance \notin Collectibles /\ c.amount > 0
  BY <1>4, <1>5, <1>6, <1>7
<1>9. \A c \in coins : c.amount > 0 /\ (c.issuance \in Collectibles => c.amount = 1)
  BY DEF CoinsInv, Sound
<1>10. \A c, d \in coins :
          c.issuance = d.issuance /\ c.issuance \in Collectibles => c = d
  BY DEF CoinsInv, Sound
<1> HIDE DEF left, gone
<1>11. ASSUME NEW ref
       PROVE  Sum(Worth, Of(left \cup Received(t), ref)) <= MaxAmount
  <2> DEFINE moved == Of(Moved(t), ref)
             back == IF Change(t) > 0 /\ RecordRef(largest.issuance) = ref
                     THEN {Returned(t, largest)} ELSE {}
             rest == Of(left, ref)
             inputs == Of(t.inputs, ref)
             passive == Of(t.passive, ref)
  <2>1. Of(left \cup Received(t), ref) = rest \cup (moved \cup back)
    BY <1>4, <1>7 DEF Of
  <2>2. /\ rest \subseteq Coin /\ IsFiniteSet(rest)
        /\ moved \subseteq Coin /\ IsFiniteSet(moved)
        /\ inputs \subseteq Coin /\ IsFiniteSet(inputs)
        /\ passive \subseteq Coin /\ IsFiniteSet(passive)
    BY <1>1, <1>3, FS_Subset DEF Of
  <2>3. back \subseteq Coin /\ IsFiniteSet(back)
    BY <1>3, <1>4, FS_EmptySet, FS_Singleton
  <2>4. Sum(Worth, back) <= Sum(Worth, inputs)
    <3>0. Sum(Worth, inputs) \in Nat
      BY <2>2, CoinsAreWorth
    <3>1. CASE back = {}
      BY <3>0, <3>1, SumEmpty
    <3>2. CASE back # {}
      <4>1. Change(t) > 0 /\ back = {Returned(t, largest)} /\ RecordRef(largest.issuance) = ref
        BY <3>2
      <4>2. inputs = t.inputs
        BY <4>1 DEF IsFunding, OneAsset, Of
      <4>3. Sum(Worth, t.inputs) \in Nat /\ SumOf(t.inputs) = Saturated(Sum(Worth, t.inputs))
        BY <1>1, CoinsAreWorth
      <4>4. Change(t) <= Sum(Worth, t.inputs)
        BY <1>3, <4>3, WalletAssumption DEF Change, Saturated
      <4>5. Returned(t, largest) \in Coin /\ Worth[Returned(t, largest)] = Change(t)
        BY <1>3, <1>4, <1>7, <4>1 DEF Worth
      <4>6. Sum(Worth, {Returned(t, largest)}) = Change(t)
        <5>1. Change(t) \in Int
          BY <1>3 DEF Change
        <5>2. \A c \in {Returned(t, largest)} : Worth[c] \in Int
          BY <4>5, <5>1
        <5>3. {Returned(t, largest)} \ {Returned(t, largest)} = {}
          OBVIOUS
        <5>4. Sum(Worth, {Returned(t, largest)})
                = Worth[Returned(t, largest)] + Sum(Worth, {})
          BY <5>2, <5>3, FS_Singleton, SumRemove
        <5> QED
          BY <4>5, <5>1, <5>4, SumEmpty
      <4> QED
        BY <4>1, <4>2, <4>4, <4>6
    <3> QED
      BY <3>1, <3>2
  <2>5. Sum(Worth, moved) <= Sum(Worth, passive)
    BY <1>1, <1>3, SpentIsReturned
  <2>6. Sum(Worth, inputs \cup passive) = Sum(Worth, inputs) + Sum(Worth, passive)
    <3>1. inputs \cap passive = {}
      BY <1>1 DEF Of
    <3>2. \A c \in inputs \cup passive : Worth[c] \in Int
      BY <2>2 DEF Worth, Coin
    <3> HIDE DEF inputs, passive
    <3> QED
      BY <2>2, <3>1, <3>2, SumUnion
  <2>7. Sum(Worth, rest \cup (inputs \cup passive))
          = Sum(Worth, rest) + Sum(Worth, inputs \cup passive)
    <3>1. rest \cap (inputs \cup passive) = {}
      BY <1>2 DEF Of
    <3>2. \A c \in rest \cup (inputs \cup passive) : Worth[c] \in Int
      BY <2>2 DEF Worth, Coin
    <3> HIDE DEF inputs, passive, rest
    <3>3. IsFiniteSet(inputs \cup passive)
      BY <2>2, FS_Union
    <3> QED
      BY <2>2, <3>1, <3>2, <3>3, SumUnion
  <2>8. Of(coins, ref) = rest \cup (inputs \cup passive)
    BY <1>2 DEF Of
  <2>9. Sum(Worth, Of(coins, ref)) <= MaxAmount
    BY DEF CoinsInv, Sound
  <2> HIDE DEF moved, back, rest, inputs, passive
  <2>10. Sum(Worth, moved \cup back) <= Sum(Worth, moved) + Sum(Worth, back)
    BY <2>2, <2>3, TogetherAtMost
  <2>11. moved \cup back \subseteq Coin /\ IsFiniteSet(moved \cup back)
    BY <2>2, <2>3, FS_Union
  <2>12. Sum(Worth, rest \cup (moved \cup back)) <= Sum(Worth, rest) + Sum(Worth, moved \cup back)
    BY <2>2, <2>11, TogetherAtMost
  <2>13. /\ Sum(Worth, rest) \in Nat /\ Sum(Worth, moved) \in Nat
         /\ Sum(Worth, inputs) \in Nat /\ Sum(Worth, passive) \in Nat
    BY <2>2, CoinsAreWorth
  <2>14. Sum(Worth, back) \in Nat /\ Sum(Worth, moved \cup back) \in Nat
    BY <2>3, <2>11, CoinsAreWorth
  <2>15. Sum(Worth, rest \cup (moved \cup back)) \in Nat
    <3>1. IsFiniteSet(rest \cup (moved \cup back)) /\ rest \cup (moved \cup back) \subseteq Coin
      BY <2>2, <2>11, FS_Union
    <3> QED
      BY <3>1, CoinsAreWorth
  <2>16. Sum(Worth, Of(coins, ref)) = Sum(Worth, rest) + (Sum(Worth, inputs) + Sum(Worth, passive))
    BY <2>6, <2>7, <2>8
  <2>17. Sum(Worth, rest \cup (moved \cup back)) <= MaxAmount
    BY <2>4, <2>5, <2>9, <2>10, <2>12, <2>13, <2>14, <2>15, <2>16, WalletAssumption
  <2> QED
    BY <2>1, <2>17
<1>12. \A c \in left \cup Received(t) :
          c.amount > 0 /\ (c.issuance \in Collectibles => c.amount = 1)
  BY <1>1, <1>8, <1>9
<1>13. ASSUME NEW c \in left \cup Received(t), NEW d \in left \cup Received(t),
              c.issuance = d.issuance, c.issuance \in Collectibles
       PROVE  c = d
  <2>1. \A e \in left \cup Received(t) : e.issuance \in Collectibles =>
           \/ e \in left
           \/ \E o \in t.passive : o.issuance = e.issuance /\ e = [o EXCEPT !.anchor = t.n]
    BY <1>8
  <2>2. CASE c \in left /\ d \in left
    BY <1>1, <1>10, <1>13, <2>2
  <2>3. CASE c \notin left /\ d \notin left
    BY <1>1, <1>10, <1>13, <2>1, <2>3
  <2>4. CASE ~ (c \in left <=> d \in left)
    BY <1>1, <1>2, <1>10, <1>13, <2>1, <2>4
  <2> QED
    BY <2>2, <2>3, <2>4
<1> QED
  BY <1>11, <1>12, <1>13 DEF Sound, left

LEMMA ConfirmKeeps ==
  ASSUME CoinsInv, TransfersInv, AnchorsInv, Confirm
  PROVE  CoinsInv' /\ TransfersInv' /\ AnchorsInv'
<1>1. PICK t \in transfers \ confirmed :
         /\ t.spends \subseteq Anchors(coins)
         /\ confirmed' = confirmed \cup {t}
         /\ coins' = {c \in coins : c.anchor \notin t.spends} \cup Received(t)
         /\ transfers' = transfers /\ fundings' = fundings
  BY DEF Confirm
<1>2. t.n \in Nat /\ t.n \in 1..MaxTransfers
  BY <1>1, FS_CardinalityType DEF TransfersInv
<1>3. /\ Received(t) \subseteq Coin /\ IsFiniteSet(Received(t))
      /\ \A c \in Received(t) : c.anchor = t.n
  BY <1>2, ReceivedFits DEF TransfersInv
<1>4. CoinsInv'
  <2> DEFINE left == {c \in coins : c.anchor \notin t.spends}
  <2>1. IsFiniteSet(left) /\ left \subseteq Coin
    BY FS_Subset DEF CoinsInv
  <2>3. Sound(left \cup Received(t))
    BY <1>1, <1>2, ConfirmIsSound DEF TransfersInv, AnchorsInv
  <2> HIDE DEF left
  <2>2. coins' = left \cup Received(t)
    BY <1>1 DEF left
  <2> QED
    BY <1>1, <1>3, <2>1, <2>2, <2>3, FS_Union, ZenonT(40) DEF CoinsInv
<1>5. TransfersInv'
  BY <1>1 DEF TransfersInv
<1>6. t.n \notin Known
  <2>1. t.n \notin Anchors(Coins)
    BY <1>2, WalletAssumption DEF Anchors
  <2>2. \A u \in confirmed : u.n # t.n
    BY <1>1 DEF TransfersInv
  <2> QED
    BY <2>1, <2>2 DEF Known
<1>7. Known' = Known \cup {t.n}
  BY <1>1 DEF Known
<1>8. \A a \in Anchors(coins)' : a = t.n \/ (a \in Anchors(coins) /\ a \notin t.spends)
  BY <1>1, <1>3 DEF Anchors
<1>9. AnchorsInv'
  <2>1. Anchors(coins)' \subseteq Known'
    BY <1>7, <1>8 DEF AnchorsInv
  <2>2. \A u \in transfers' : u.spends \subseteq Known'
    BY <1>1, <1>7 DEF AnchorsInv
  <2>3. \A u \in confirmed' : u.spends \cap Anchors(coins)' = {}
    <3> SUFFICES ASSUME NEW u \in confirmed', NEW a \in u.spends, a \in Anchors(coins)'
                 PROVE  FALSE
      OBVIOUS
    <3>1. u \in transfers /\ a \in Known
      BY <1>1 DEF AnchorsInv, TransfersInv
    <3>2. a \in Anchors(coins) /\ a \notin t.spends
      BY <1>6, <1>8, <3>1
    <3> QED
      BY <1>1, <3>2 DEF AnchorsInv
  <2>4. \A u, v \in confirmed' : u # v => u.spends \cap v.spends = {}
    <3>1. \A u \in confirmed : u.spends \cap t.spends = {}
      BY <1>1 DEF AnchorsInv
    <3> QED
      BY <1>1, <3>1 DEF AnchorsInv
  <2>5. \A u \in transfers' :
           u.spends \subseteq Anchors(coins)' =>
               u.inputs \subseteq coins' /\ u.passive = Passive(u.inputs)'
    <3> SUFFICES ASSUME NEW u \in transfers, u.spends \subseteq Anchors(coins)'
                 PROVE  u.inputs \subseteq coins' /\ u.passive = Passive(u.inputs)'
      BY <1>1
    <3>1. \A a \in u.spends : a \in Anchors(coins) /\ a \notin t.spends /\ a # t.n
      BY <1>6, <1>8 DEF AnchorsInv
    <3>2. u.inputs \subseteq coins /\ u.passive = Passive(u.inputs)
      BY <3>1 DEF AnchorsInv
    <3>3. Anchors(u.inputs) = u.spends
      BY DEF TransfersInv
    <3>4. \A c : c \in coins' /\ c.anchor \in Anchors(u.inputs)
                   <=> c \in coins /\ c.anchor \in Anchors(u.inputs)
      BY <1>1, <1>3, <3>1, <3>3
    <3>5. Passive(u.inputs)' = Passive(u.inputs)
      BY <3>4 DEF Passive
    <3>6. u.inputs \subseteq coins'
      BY <3>2, <3>4 DEF Anchors
    <3> QED
      BY <3>2, <3>5, <3>6
  <2> QED
    BY <2>1, <2>2, <2>3, <2>4, <2>5 DEF AnchorsInv
<1> QED
  BY <1>4, <1>5, <1>9
-----------------------------------------------------------------------------
(* Steps of the users *)

Inv ==
    CoinsInv /\ TransfersInv /\ HoldersInv /\ AskInv /\ AnchorsInv /\ HeldInv
        /\ CallsInv /\ InOrderInv

\* What a step of the TxBuilder leaves alone that neither funds nor logs.
Untouched ==
    UNCHANGED <<coins, fundings, transfers, confirmed, interactive, again>>

LEMMA UntouchedKeeps ==
  ASSUME Inv, Untouched
  PROVE  CoinsInv' /\ TransfersInv' /\ AskInv' /\ AnchorsInv' /\ CallsInv'
<1>1. CoinsInv' /\ TransfersInv'
  BY DEF Inv, Untouched, CoinsInv, TransfersInv
<1>2. AskInv'
  BY DEF Inv, Untouched, AskInv
<1>3. AnchorsInv'
  BY DEF Inv, Untouched, AnchorsInv, Known, Passive
<1>4. CallsInv'
  BY DEF Inv, Untouched, CallsInv, By
<1> QED
  BY <1>1, <1>2, <1>3, <1>4

\* A step that brings no funding to the TxBuilder.
LEMMA NothingGained ==
  ASSUME HeldInv, Given' \subseteq Given, again'["builder"] = again["builder"],
         builder'.funded = None => builder.funded = None,
         again["builder"] \in Nat
  PROVE  HeldInv'
<1>1. IsFiniteSet(Given') /\ Cardinality(Given') <= Cardinality(Given)
  BY FS_Subset DEF HeldInv
<1>2. Cardinality(Given) \in Nat /\ Cardinality(Given') \in Nat
  BY <1>1, FS_CardinalityType DEF HeldInv
<1> QED
  BY <1>1, <1>2 DEF HeldInv

\* A step that brings it one, which is its first or was asked for.
LEMMA OneGained ==
  ASSUME HeldInv, NEW x, Given' \subseteq Given \cup {x}, builder'.funded # None,
         again["builder"] \in Nat,
         \/ builder.funded = None /\ again'["builder"] = again["builder"]
         \/ again'["builder"] = again["builder"] + 1
  PROVE  HeldInv'
<1>0. IsFiniteSet(Given) /\ Cardinality(Given) \in Nat
  BY FS_CardinalityType DEF HeldInv
<1>1. IsFiniteSet(Given \cup {x})
      /\ Cardinality(Given \cup {x}) <= Cardinality(Given) + 1
  <2>1. /\ IsFiniteSet(Given \cup {x})
        /\ Cardinality(Given \cup {x})
             = IF x \in Given THEN Cardinality(Given) ELSE Cardinality(Given) + 1
    BY <1>0, FS_AddElement
  <2> QED
    BY <1>0, <2>1
<1>2. IsFiniteSet(Given') /\ Cardinality(Given') <= Cardinality(Given \cup {x})
  BY <1>1, FS_Subset
<1>3. Cardinality(Given \cup {x}) \in Nat /\ Cardinality(Given') \in Nat
  BY <1>1, <1>2, FS_CardinalityType
<1>4. builder.funded = None => Cardinality(Given) = 0
  BY FS_EmptySet DEF HeldInv
<1>5. Cardinality(Given') <= again'["builder"] + 1
  BY <1>0, <1>1, <1>2, <1>3, <1>4 DEF HeldInv
<1> QED
  BY <1>2, <1>5 DEF HeldInv

\* A step of the TxBuilder or its host, with what the builder holds already.
LEMMA BuilderKeeps ==
  ASSUME Inv, Untouched, DOMAIN builder' = Fields,
         builder'.recipients \in RecipientLists \cup {<<>>},
         Held' \subseteq Held, builder'.funded = None => builder.funded = None,
         kept' # None => kept'.funded # None /\ builder'.funded # None,
         builder'.signed # None => builder'.funded # None,
         builder'.stage = 3 => InOrder(builder')
  PROVE  Inv'
<1>1. HoldersInv'
  BY DEF Inv, HoldersInv, Untouched
<1>2. HeldInv'
  BY NothingGained DEF Inv, Given, By, Untouched, HoldersInv, Users
<1>3. InOrderInv'
  BY DEF Inv, InOrderInv, By, Untouched
<1> QED
  BY <1>1, <1>2, <1>3, UntouchedKeeps DEF Inv

LEMMA SetRecipientsKeeps ==
  ASSUME Inv, SetRecipients
  PROVE  Inv'
<1>1. Untouched /\ kept' = kept
  BY DEF SetRecipients, Untouched, tapd
<1>2. PICK rs \in RecipientLists : builder' = [builder EXCEPT !.recipients = rs]
  BY DEF SetRecipients
<1>3. /\ DOMAIN builder' = Fields /\ builder'.recipients = rs
      /\ builder'.funded = builder.funded /\ builder'.signed = builder.signed
      /\ builder'.anchor = builder.anchor /\ builder'.passive = builder.passive
      /\ builder'.change = builder.change /\ builder'.locks = builder.locks
      /\ builder'.stage = builder.stage
  BY <1>2 DEF Inv, HoldersInv, Fields
<1>4. Held' = Held /\ (builder'.stage = 3 => InOrder(builder'))
  BY <1>1, <1>3 DEF Inv, Held, HeldIn, InOrderInv, InOrder
<1> QED
  BY <1>1, <1>3, <1>4, BuilderKeeps DEF Inv, HoldersInv

LEMMA ExecuteFailsKeeps ==
  ASSUME Inv, ExecuteFails
  PROVE  Inv'
<1>1. Untouched /\ kept' = kept
  BY DEF ExecuteFails, Untouched, tapd
<1>2. builder' = [builder EXCEPT !.at = "idle"]
  BY DEF ExecuteFails
<1>3. /\ DOMAIN builder' = Fields /\ builder'.recipients = builder.recipients
      /\ builder'.funded = builder.funded /\ builder'.signed = builder.signed
      /\ builder'.anchor = builder.anchor /\ builder'.passive = builder.passive
      /\ builder'.change = builder.change /\ builder'.locks = builder.locks
      /\ builder'.stage = builder.stage
  BY <1>2 DEF Inv, HoldersInv, Fields
<1>4. Held' = Held /\ (builder'.stage = 3 => InOrder(builder'))
  BY <1>1, <1>3 DEF Inv, Held, HeldIn, InOrderInv, InOrder
<1> QED
  BY <1>1, <1>3, <1>4, BuilderKeeps DEF Inv, HoldersInv

LEMMA SetPsbtKeeps ==
  ASSUME Inv, SetPsbt
  PROVE  Inv'
<1>1. Untouched /\ kept' = kept /\ kept # None
  BY DEF SetPsbt, Untouched, tapd
<1>2. PICK field \in {"funded", "signed", "anchor", "passive"} :
         builder' = [builder EXCEPT ![field] = kept[field], !.stage = 0]
  BY DEF SetPsbt
<1>3. /\ DOMAIN builder' = Fields /\ builder'.recipients = builder.recipients
      /\ builder'.funded \in {builder.funded, kept.funded}
      /\ builder'.signed \in {builder.signed, kept.signed}
      /\ builder'.anchor \in {builder.anchor, kept.anchor}
      /\ builder'.stage = 0
  BY <1>2 DEF Inv, HoldersInv, Fields
<1>4. Held' \subseteq Held
  BY <1>1, <1>3 DEF Held, HeldIn
<1>5. kept.funded # None
  BY <1>1 DEF Inv, HoldersInv
<1> QED
  BY <1>1, <1>3, <1>4, <1>5, BuilderKeeps DEF Inv, HoldersInv

LEMMA SignKeeps ==
  ASSUME Inv, Sign
  PROVE  Inv'
<1>1. Untouched /\ kept' = kept /\ builder.funded # None
  BY DEF Sign, Untouched, tapd
<1>2. builder' = [builder EXCEPT
         !.signed = [fund |-> builder.funded, commit |-> 0],
         !.stage = IF @ > 0 THEN 2 ELSE 0,
         !.at = IF @ = "sign" THEN "commit" ELSE "idle"]
  BY DEF Sign
<1>3. /\ DOMAIN builder' = Fields /\ builder'.recipients = builder.recipients
      /\ builder'.funded = builder.funded
      /\ builder'.signed = [fund |-> builder.funded, commit |-> 0]
      /\ builder'.anchor = builder.anchor
      /\ builder'.stage \in {0, 2}
  BY <1>2 DEF Inv, HoldersInv, Fields
<1>4. Held' \subseteq Held
  BY <1>1, <1>3 DEF Held, HeldIn, FundOf
<1> QED
  BY <1>1, <1>3, <1>4, BuilderKeeps DEF Inv, HoldersInv

LEMMA CommitKeeps ==
  ASSUME Inv, Commit
  PROVE  Inv'
<1>1. Untouched /\ builder.signed # None
  BY DEF Commit, Untouched
<1>2. CASE builder' = [builder EXCEPT !.at = "idle"] /\ kept' = kept
  <2>1. /\ DOMAIN builder' = Fields /\ builder'.recipients = builder.recipients
        /\ builder'.funded = builder.funded /\ builder'.signed = builder.signed
        /\ builder'.anchor = builder.anchor /\ builder'.passive = builder.passive
        /\ builder'.change = builder.change /\ builder'.locks = builder.locks
        /\ builder'.stage = builder.stage
    BY <1>2 DEF Inv, HoldersInv, Fields
  <2>2. Held' = Held /\ (builder'.stage = 3 => InOrder(builder'))
    BY <1>2, <2>1 DEF Inv, Held, HeldIn, InOrderInv, InOrder
  <2> QED
    BY <1>1, <1>2, <2>1, <2>2, BuilderKeeps DEF Inv, HoldersInv
<1>3. CASE /\ builder' = [Applied(Commitment) EXCEPT
                            !.at = IF @ = "commit" THEN "publish" ELSE "idle"]
           /\ kept' = IF kept # None THEN kept
                      ELSE [funded |-> builder'.funded, signed |-> builder'.signed,
                            anchor |-> builder'.anchor, passive |-> builder'.passive]
  <2> DEFINE c == Commitment
  <2>1. /\ DOMAIN builder' = Fields /\ builder'.recipients = builder.recipients
        /\ builder'.funded = builder.funded
        /\ builder'.signed = [fund |-> c.fund, commit |-> c.n]
        /\ builder'.anchor = c
        /\ builder'.passive = IF c.passive = {} THEN builder.passive
                              ELSE [coins |-> c.passive, commit |-> c.n]
        /\ builder'.change = (IF Advanced THEN c.n ELSE 0)
        /\ builder'.locks = (IF Advanced THEN c.n ELSE 0)
    BY <1>3 DEF Inv, HoldersInv, Fields, Applied
  <2>2. c.fund = builder.signed.fund /\ c.passive = builder.passive.coins
    BY DEF Commitment
  <2>3. InOrder(builder')
    <3> HIDE DEF c
    <3> QED
      BY <2>1, <2>2 DEF InOrder
  <2>4. HeldIn(builder') \subseteq HeldIn(builder)
    <3> HIDE DEF c
    <3> QED
      BY <1>1, <2>1, <2>2 DEF HeldIn, FundOf
  <2>5. kept' # kept => HeldIn(kept') = HeldIn(builder') /\ kept = None
    BY <1>3 DEF HeldIn
  <2>6. Held' \subseteq Held
    BY <2>4, <2>5 DEF Held
  <2>7. builder'.funded = None => builder.funded = None
    BY <2>1
  <2>8. /\ builder'.funded # None
        /\ kept' # None => kept'.funded # None
    BY <1>1, <1>3, <2>1 DEF Inv, HoldersInv
  <2> QED
    BY <1>1, <2>1, <2>3, <2>6, <2>7, <2>8, BuilderKeeps DEF Inv, HoldersInv
<1> QED
  BY <1>2, <1>3 DEF Commit

LEMMA FundTransferKeeps ==
  ASSUME Inv, NEW next, FundTransfer(next),
         \/ builder.funded = None /\ again' = again
         \/ /\ builder.funded # None
            /\ again' = [again EXCEPT !["builder"] = @ + 1]
  PROVE  Inv'
<1> DEFINE rs == builder.recipients
           payments == Payments(Normalised(rs, TRUE))
<1>1. /\ RecipientsValid(rs)
      /\ UNCHANGED <<coins, transfers, confirmed, interactive, kept>>
  BY DEF FundTransfer
<1>2. PICK f \in Fundings(payments, Asked(rs)) :
         fundings' = f.n /\ (builder' = Funded(f, next) \/ builder' = builder)
  BY DEF FundTransfer
<1>3. rs \in RecipientLists
  BY <1>1 DEF Inv, HoldersInv, RecipientsValid
<1>4. PaymentsFit(payments, Asked(rs))
  BY <1>1, <1>3, ListFits
<1>5. /\ IsFunding(f) /\ f.n \in Nat
      /\ f = [n |-> fundings + 1, inputs |-> f.inputs, pays |-> payments,
              asked |-> Asked(rs)]
  <2> HIDE DEF payments, rs
  <2> QED
    BY <1>2, <1>4, FundingsFit DEF Inv, CoinsInv
<1>6. f # None
  <2> DEFINE allPays == {Payments(Normalised(list, TRUE)) : list \in RecipientLists}
             allAsked == {Asked(list) : list \in RecipientLists}
  <2>1. payments \in allPays /\ Asked(rs) \in allAsked
    BY <1>3, Zenon
  <2>2. fundings + 1 \in Nat /\ f.inputs \in SUBSET Coin
    BY <1>5 DEF Inv, CoinsInv, IsFunding
  <2>3. Fundable = [n : Nat, inputs : SUBSET Coin, pays : allPays, asked : allAsked]
    BY DEF Fundable
  <2> HIDE DEF payments, rs, allPays, allAsked
  <2>4. f \in Fundable
    BY <1>5, <2>1, <2>2, <2>3
  <2> QED
    BY <2>4, NoneAssumption
<1> HIDE DEF payments, rs
<1>7. /\ DOMAIN builder' = Fields /\ builder'.recipients = builder.recipients
      /\ \/ builder'.funded = f /\ builder'.stage = 1
         \/ builder'.funded = builder.funded /\ builder' = builder
      /\ builder'.signed = builder.signed /\ builder'.anchor = builder.anchor
  BY <1>2 DEF Inv, HoldersInv, Fields, Funded
<1>8. Held' \subseteq Held \cup {f} /\ (builder' = builder => Held' = Held)
  BY <1>1, <1>7 DEF Held, HeldIn
<1>9. /\ again' \in [Users -> Nat]
      /\ \A u \in Users \ {"builder"} : again'[u] = again[u]
      /\ again["builder"] \in Nat
      /\ again'["builder"] \in {again["builder"], again["builder"] + 1}
      /\ builder.funded # None => again'["builder"] = again["builder"] + 1
      /\ builder.funded = None => again'["builder"] = again["builder"]
  BY DEF Inv, HoldersInv, Users
<1>10. CoinsInv' /\ TransfersInv'
  BY <1>1, <1>2, <1>5 DEF Inv, CoinsInv, TransfersInv
<1>11. AnchorsInv'
  BY <1>1 DEF Inv, AnchorsInv, Known, Passive
<1>12. HoldersInv'
  BY <1>1, <1>5, <1>6, <1>7, <1>8, <1>9 DEF Inv, HoldersInv
<1>13. AskInv'
  BY <1>1 DEF Inv, AskInv
<1>14. CallsInv'
  BY <1>1, <1>9 DEF Inv, CallsInv, By, Users
<1>15. Given' \subseteq Given \cup {f.inputs} /\ (builder' = builder => Given' = Given)
  BY <1>1, <1>8 DEF Given, By
<1>16. HeldInv'
  <2>1. CASE builder' = builder
    <3>1. Given' = Given /\ IsFiniteSet(Given)
      BY <1>15, <2>1 DEF Inv, HeldInv
    <3>2. Cardinality(Given) \in Nat
      BY <3>1, FS_CardinalityType
    <3> QED
      BY <1>9, <2>1, <3>1, <3>2 DEF Inv, HeldInv
  <2>2. CASE builder'.funded = f
    BY <1>6, <1>9, <1>15, <2>2, OneGained DEF Inv
  <2> QED
    BY <1>7, <2>1, <2>2
<1>17. InOrderInv'
  BY <1>1, <1>7 DEF Inv, InOrderInv, By
<1> QED
  BY <1>10, <1>11, <1>12, <1>13, <1>14, <1>16, <1>17 DEF Inv

LEMMA FundKeeps ==
  ASSUME Inv, Fund
  PROVE  Inv'
<1>1. FundTransfer("idle")
      /\ again' = [again EXCEPT !["builder"] =
                      IF builder.funded # None THEN @ + 1 ELSE @]
  BY DEF Fund
<1>2. builder.funded = None => again' = again
  BY <1>1 DEF Inv, HoldersInv, Users
<1> QED
  BY <1>1, <1>2, FundTransferKeeps

LEMMA ExecuteKeeps ==
  ASSUME Inv, Execute
  PROVE  Inv'
<1>1. CASE builder.funded = None
  BY <1>1, FundTransferKeeps DEF Execute
<1>2. CASE builder.funded # None
  <2>1. Untouched /\ kept' = kept /\ builder' = [builder EXCEPT !.at = "sign"]
    BY <1>2 DEF Execute, Untouched, tapd
  <2>2. /\ DOMAIN builder' = Fields /\ builder'.recipients = builder.recipients
        /\ builder'.funded = builder.funded /\ builder'.signed = builder.signed
        /\ builder'.anchor = builder.anchor /\ builder'.passive = builder.passive
        /\ builder'.change = builder.change /\ builder'.locks = builder.locks
        /\ builder'.stage = builder.stage
    BY <2>1 DEF Inv, HoldersInv, Fields
  <2>3. Held' = Held /\ (builder'.stage = 3 => InOrder(builder'))
    BY <2>1, <2>2 DEF Inv, Held, HeldIn, InOrderInv, InOrder
  <2> QED
    BY <2>1, <2>2, <2>3, BuilderKeeps DEF Inv, HoldersInv
<1> QED
  BY <1>1, <1>2

\* A transfer is one more of its user's.
LEMMA LogCounts ==
  ASSUME TransfersInv, NEW t, transfers' = transfers \cup {t}, t \notin transfers
  PROVE  \A u : /\ Cardinality(By(u)) \in Nat
                /\ u # t.by => By(u)' = By(u)
                /\ Cardinality(By(u)') <= Cardinality(By(u)) + 1
<1> TAKE u
<1>1. IsFiniteSet(By(u))
  BY FS_Subset DEF TransfersInv, By
<1>2. Cardinality(By(u)) \in Nat
  BY <1>1, FS_CardinalityType
<1>3. By(u)' = IF t.by = u THEN By(u) \cup {t} ELSE By(u)
  BY DEF By
<1>4. Cardinality(By(u) \cup {t})
        = IF t \in By(u) THEN Cardinality(By(u)) ELSE Cardinality(By(u)) + 1
  BY <1>1, FS_AddElement
<1> QED
  BY <1>2, <1>3, <1>4

LEMMA PublishKeeps ==
  ASSUME Inv, Publish
  PROVE  Inv'
<1> DEFINE f == builder.anchor.fund
           published == [anchor |-> builder.anchor, signed |-> builder.signed,
                         passive |-> builder.passive, change |-> builder.change,
                         locks |-> builder.locks, inOrder |-> builder.stage = 3]
<1>1. /\ builder.anchor # None
      /\ Accounted(f, builder.passive.coins)
      /\ Log("builder", f, builder.passive.coins, published)
      /\ UNCHANGED <<coins, fundings, confirmed, interactive, kept, again>>
  BY DEF Publish
<1>2. PICK answered \in BOOLEAN :
         builder' = [builder EXCEPT !.at = "idle", !.finished = answered]
  BY DEF Publish
<1>3. /\ DOMAIN builder' = Fields /\ builder'.recipients = builder.recipients
      /\ builder'.funded = builder.funded /\ builder'.signed = builder.signed
      /\ builder'.anchor = builder.anchor /\ builder'.passive = builder.passive
      /\ builder'.change = builder.change /\ builder'.locks = builder.locks
      /\ builder'.stage = builder.stage
  BY <1>2 DEF Inv, HoldersInv, Fields
<1>4. f \in Held
  BY <1>1 DEF Held, HeldIn, FundOf
<1>5. /\ published.anchor = builder.anchor /\ published.signed = builder.signed
      /\ published.passive = builder.passive /\ published.change = builder.change
      /\ published.locks = builder.locks
      /\ published.inOrder => builder.stage = 3
  OBVIOUS
<1> HIDE DEF published, f
<1>6. IsFunding(f) /\ f.inputs \subseteq coins
      /\ Log("builder", f, Passive(f.inputs), published)
  BY <1>1, <1>4 DEF Inv, HoldersInv, Accounted
<1>7. TransfersInv' /\ AnchorsInv'
  BY <1>1, <1>6, LogKeepsTransfers DEF Inv
<1>8. PICK t : /\ transfers' = transfers \cup {t} /\ t \notin transfers
               /\ t.by = "builder" /\ t.inputs = f.inputs /\ t.published = published
  BY <1>6, LoggedOnce DEF Inv
<1>9. Held' = Held
  BY <1>1, <1>3 DEF Held, HeldIn
<1>10. CoinsInv' /\ HoldersInv' /\ AskInv'
  BY <1>1, <1>3, <1>9 DEF Inv, CoinsInv, HoldersInv, AskInv
<1>11. HeldInv'
  <2>1. By("builder")' = By("builder") \cup {t}
    BY <1>8 DEF By
  <2>2. Given' \subseteq Given
    BY <1>4, <1>8, <1>9, <2>1 DEF Given
  <2> QED
    BY <1>1, <1>3, <2>2, NothingGained DEF Inv, HoldersInv, Users
<1>12. CallsInv'
  <2>1. By("interactive")' = By("interactive") /\ By("wallet")' = By("wallet")
    BY <1>8 DEF By
  <2> QED
    BY <1>1, <2>1 DEF Inv, CallsInv
<1>13. InOrderInv'
  <2>1. builder.stage = 3 => InOrder(builder') /\ InOrder(published)
    BY <1>3, <1>5 DEF Inv, InOrderInv, InOrder
  <2>2. \A u \in By("builder")' : u = t \/ u \in By("builder")
    BY <1>8 DEF By
  <2> QED
    BY <1>3, <1>5, <1>8, <2>1, <2>2 DEF Inv, InOrderInv
<1> QED
  BY <1>7, <1>10, <1>11, <1>12, <1>13 DEF Inv

\* A step of the interactive builder that logs nothing.
LEMMA InteractiveKeeps ==
  ASSUME Inv, UNCHANGED <<coins, transfers, confirmed, builder, kept, again>>,
         fundings' \in Nat,
         DOMAIN interactive' = {"at", "issuance", "funded", "ask", "finished"},
         interactive'.finished = interactive.finished,
         AskInv'
  PROVE  Inv'
<1>1. CoinsInv' /\ TransfersInv'
  BY DEF Inv, CoinsInv, TransfersInv
<1>2. AnchorsInv'
  BY DEF Inv, AnchorsInv, Known, Passive
<1>3. Held' = Held /\ Given' = Given
  BY DEF Held, HeldIn, Given, By
<1>4. HoldersInv' /\ HeldInv'
  BY <1>3 DEF Inv, HoldersInv, HeldInv
<1>5. CallsInv' /\ InOrderInv'
  BY DEF Inv, CallsInv, InOrderInv, By
<1> QED
  BY <1>1, <1>2, <1>4, <1>5 DEF Inv

LEMMA SetAssetKeeps ==
  ASSUME Inv, SetAsset
  PROVE  Inv'
<1>1. UNCHANGED <<coins, transfers, confirmed, builder, kept, again, fundings>>
  BY DEF SetAsset, tapd
<1>2. PICK ask \in InteractiveAsks : interactive' = [interactive EXCEPT !.ask = ask]
  BY DEF SetAsset
<1>3. /\ DOMAIN interactive' = {"at", "issuance", "funded", "ask", "finished"}
      /\ interactive'.finished = interactive.finished /\ interactive'.ask = ask
      /\ interactive'.at = interactive.at /\ interactive.at = "idle"
  BY <1>2 DEF SetAsset, Inv, HoldersInv
<1>4. AskInv'
  BY <1>3, WalletAssumption DEF AskInv
<1> QED
  BY <1>1, <1>3, <1>4, InteractiveKeeps DEF Inv, CoinsInv

LEMMA InteractiveFailsKeeps ==
  ASSUME Inv, InteractiveFails
  PROVE  Inv'
<1>1. UNCHANGED <<coins, transfers, confirmed, builder, kept, again, fundings>>
  BY DEF InteractiveFails, tapd
<1>2. interactive' = [interactive EXCEPT !.at = "idle"]
  BY DEF InteractiveFails, Answer
<1>3. /\ DOMAIN interactive' = {"at", "issuance", "funded", "ask", "finished"}
      /\ interactive'.finished = interactive.finished
      /\ interactive'.ask = interactive.ask /\ interactive'.at = "idle"
  BY <1>2 DEF Inv, HoldersInv
<1>4. AskInv'
  BY <1>3 DEF AskInv, Inv
<1> QED
  BY <1>1, <1>3, <1>4, InteractiveKeeps DEF Inv, CoinsInv

LEMMA ExecuteInteractiveKeeps ==
  ASSUME Inv, ExecuteInteractive
  PROVE  Inv'
<1>1. UNCHANGED <<coins, transfers, confirmed, builder, kept, again, fundings>>
  BY DEF ExecuteInteractive, tapd
<1>2. PICK i \in Resolved(interactive.ask) :
         interactive' = [interactive EXCEPT !.at = "fund", !.issuance = i]
  BY DEF ExecuteInteractive
<1>3. /\ DOMAIN interactive' = {"at", "issuance", "funded", "ask", "finished"}
      /\ interactive'.finished = interactive.finished
      /\ interactive'.ask = interactive.ask /\ interactive'.at = "fund"
      /\ interactive'.issuance = i
  BY <1>2 DEF Inv, HoldersInv
<1>4. ~interactive.finished /\ interactive.ask.amount > 0
  BY DEF ExecuteInteractive
<1>5. i \in Issuances /\ interactive.ask.ref \in {i, RecordRef(i)}
  BY DEF Resolved, Records, Spendable, Inv, CoinsInv, Coin
<1>6. AskInv'
  BY <1>3, <1>4, <1>5 DEF AskInv, Inv
<1> QED
  BY <1>1, <1>3, <1>6, InteractiveKeeps DEF Inv, CoinsInv

LEMMA FundInteractiveKeeps ==
  ASSUME Inv, FundInteractive
  PROVE  Inv'
<1> DEFINE payment == [ref |-> interactive.issuance, amount |-> interactive.ask.amount]
<1>1. /\ UNCHANGED <<coins, transfers, confirmed, builder, kept, again>>
      /\ interactive.at = "fund"
  BY DEF FundInteractive
<1>2. PICK f \in Fundings(<<payment>>, <<interactive.ask>>) :
         /\ fundings' = f.n
         /\ \/ interactive' = [interactive EXCEPT !.at = "complete", !.funded = f]
            \/ interactive' = [interactive EXCEPT !.at = "idle"]
  BY DEF FundInteractive, Answer
<1>3. PaymentsFit(<<payment>>, <<interactive.ask>>)
  <2>1. \A c \in Coin : Names(interactive.issuance, c) => Names(interactive.ask.ref, c)
    BY <1>1, IssuanceNamesItsGroup DEF Inv, AskInv
  <2>2. payment.amount = interactive.ask.amount /\ payment.ref = interactive.issuance
    OBVIOUS
  <2> HIDE DEF payment
  <2> QED
    BY <1>1, <2>1, <2>2, AskFits DEF Inv, AskInv
<1>4. IsFunding(f) /\ f.n \in Nat
  <2> HIDE DEF payment
  <2> QED
    BY <1>2, <1>3, FundingsFit DEF Inv, CoinsInv
<1>5. /\ DOMAIN interactive' = {"at", "issuance", "funded", "ask", "finished"}
      /\ interactive'.finished = interactive.finished
      /\ interactive'.ask = interactive.ask
      /\ \/ interactive'.at = "complete" /\ interactive'.funded = f
         \/ interactive'.at = "idle"
  BY <1>2 DEF Inv, HoldersInv
<1>6. AskInv'
  BY <1>1, <1>4, <1>5 DEF AskInv, Inv
<1> QED
  BY <1>1, <1>2, <1>4, <1>5, <1>6, InteractiveKeeps

LEMMA CompleteKeeps ==
  ASSUME Inv, Complete
  PROVE  Inv'
<1> DEFINE f == interactive.funded
<1>1. /\ interactive.at = "complete" /\ f.inputs \subseteq coins
      /\ Log("interactive", f, Passive(f.inputs), None)
      /\ UNCHANGED <<coins, fundings, confirmed, builder, kept>>
  BY DEF Complete
<1>2. PICK answered \in BOOLEAN :
         /\ interactive' = [interactive EXCEPT !.at = "idle", !.finished = answered]
         /\ again' = [again EXCEPT !["interactive"] = IF answered THEN @ ELSE @ + 1]
  BY DEF Complete
<1>3. /\ DOMAIN interactive' = {"at", "issuance", "funded", "ask", "finished"}
      /\ interactive'.finished = answered /\ interactive'.ask = interactive.ask
      /\ interactive'.at = "idle"
      /\ again' \in [Users -> Nat]
      /\ again'["builder"] = again["builder"] /\ again'["wallet"] = again["wallet"]
      /\ again'["interactive"] = IF answered THEN again["interactive"]
                                 ELSE again["interactive"] + 1
  BY <1>2 DEF Inv, HoldersInv, Users
<1>4. IsFunding(f) /\ ~interactive.finished
  BY <1>1 DEF Inv, AskInv
<1> HIDE DEF f
<1>5. TransfersInv' /\ AnchorsInv'
  BY <1>1, <1>4, LogKeepsTransfers DEF Inv
<1>6. PICK t : /\ transfers' = transfers \cup {t} /\ t \notin transfers
               /\ t.by = "interactive"
  BY <1>1, LoggedOnce DEF Inv
<1>7. By("builder")' = By("builder") /\ By("wallet")' = By("wallet")
  BY <1>6 DEF By
<1>8. Held' = Held /\ Given' = Given
  BY <1>1, <1>7 DEF Held, HeldIn, Given
<1>9. CoinsInv' /\ HoldersInv' /\ AskInv'
  BY <1>1, <1>3, <1>8 DEF Inv, CoinsInv, HoldersInv, AskInv
<1>10. HeldInv' /\ InOrderInv'
  BY <1>1, <1>3, <1>7, <1>8 DEF Inv, HeldInv, InOrderInv
<1>11. CallsInv'
  <2>1. /\ Cardinality(By("interactive")) \in Nat
        /\ Cardinality(By("interactive")') <= Cardinality(By("interactive")) + 1
    BY <1>6, LogCounts DEF Inv
  <2>2. Cardinality(By("interactive")) <= again["interactive"]
        /\ again["interactive"] \in Nat
    BY <1>4 DEF Inv, CallsInv, HoldersInv, Users
  <2>3. Cardinality(By("interactive")') \in Nat
    <3>1. IsFiniteSet(By("interactive")')
      BY <1>5, FS_Subset DEF TransfersInv, By
    <3> QED
      BY <3>1, FS_CardinalityType
  <2>4. Cardinality(By("interactive")')
          <= again'["interactive"] + (IF interactive'.finished THEN 1 ELSE 0)
    BY <1>3, <2>1, <2>2, <2>3
  <2> QED
    BY <1>3, <1>7, <2>4 DEF Inv, CallsInv
<1> QED
  BY <1>5, <1>9, <1>10, <1>11 DEF Inv

LEMMA CallKeeps ==
  ASSUME Inv, NEW payments, NEW asked, PaymentsFit(payments, asked),
         Call(payments, asked)
  PROVE  Inv'
<1>1. /\ Cardinality({t \in transfers : t.by = "wallet"}) <= again["wallet"]
      /\ UNCHANGED <<coins, confirmed, builder, interactive, kept>>
  BY DEF Call
<1>2. PICK f \in Fundings(payments, asked) :
         fundings' = f.n /\ Log("wallet", f, Passive(f.inputs), None)
  BY DEF Call
<1>3. PICK answered \in BOOLEAN :
         again' = [again EXCEPT !["wallet"] = IF answered THEN @ ELSE @ + 1]
  BY DEF Call
<1>4. IsFunding(f) /\ f.n \in Nat /\ f.inputs \subseteq coins
  BY FundingsFit DEF Inv, CoinsInv, Spendable
<1>5. TransfersInv' /\ AnchorsInv'
  BY <1>1, <1>2, <1>4, LogKeepsTransfers DEF Inv
<1>6. PICK t : /\ transfers' = transfers \cup {t} /\ t \notin transfers
               /\ t.by = "wallet"
  BY <1>2, LoggedOnce DEF Inv
<1>7. By("builder")' = By("builder") /\ By("interactive")' = By("interactive")
  BY <1>6 DEF By
<1>8. Held' = Held /\ Given' = Given
  BY <1>1, <1>7 DEF Held, HeldIn, Given
<1>9. /\ again' \in [Users -> Nat] /\ again["wallet"] \in Nat
      /\ again'["builder"] = again["builder"]
      /\ again'["interactive"] = again["interactive"]
      /\ again'["wallet"] \in {again["wallet"], again["wallet"] + 1}
  BY <1>3 DEF Inv, HoldersInv, Users
<1>10. CoinsInv' /\ HoldersInv' /\ AskInv'
  BY <1>1, <1>2, <1>4, <1>8, <1>9 DEF Inv, CoinsInv, HoldersInv, AskInv
<1>11. HeldInv' /\ InOrderInv'
  BY <1>1, <1>7, <1>8, <1>9 DEF Inv, HeldInv, InOrderInv
<1>12. CallsInv'
  <2>1. /\ Cardinality(By("wallet")) \in Nat
        /\ Cardinality(By("wallet")') <= Cardinality(By("wallet")) + 1
    BY <1>6, LogCounts DEF Inv
  <2>2. Cardinality(By("wallet")) <= again["wallet"]
    BY <1>1 DEF By
  <2>3. Cardinality(By("wallet")') \in Nat
    <3>1. IsFiniteSet(By("wallet")')
      BY <1>5, FS_Subset DEF TransfersInv, By
    <3> QED
      BY <3>1, FS_CardinalityType
  <2>4. Cardinality(By("wallet")') <= again'["wallet"] + 1
    BY <1>9, <2>1, <2>2, <2>3
  <2> QED
    BY <1>1, <1>7, <1>9, <2>4 DEF Inv, CallsInv
<1> QED
  BY <1>5, <1>10, <1>11, <1>12 DEF Inv

LEMMA OneShotKeeps ==
  ASSUME Inv, Send \/ SendMulti \/ Burn
  PROVE  Inv'
<1>1. CASE Send
  BY <1>1, SingleFits, CallKeeps DEF Send
<1>2. CASE SendMulti
  BY <1>2, ListFits, CallKeeps DEF SendMulti
<1>3. CASE Burn
  <2>1. PICK burn \in Burns : burn.amount > 0 /\ Call(<<burn>>, <<burn>>)
    BY <1>3 DEF Burn
  <2>2. PaymentsFit(<<burn>>, <<burn>>)
    BY <2>1, AskFits, WalletAssumption
  <2> QED
    BY <2>1, <2>2, CallKeeps
<1> QED
  BY <1>1, <1>2, <1>3

LEMMA ConfirmKeepsInv ==
  ASSUME Inv, Confirm
  PROVE  Inv'
<1>1. UNCHANGED <<transfers, fundings, builder, interactive, kept, again>>
  BY DEF Confirm
<1>2. CoinsInv' /\ TransfersInv' /\ AnchorsInv'
  BY ConfirmKeeps DEF Inv
<1>3. Held' = Held /\ Given' = Given
  BY <1>1 DEF Held, HeldIn, Given, By
<1>4. HoldersInv' /\ HeldInv' /\ AskInv'
  BY <1>1, <1>3 DEF Inv, HoldersInv, HeldInv, AskInv
<1>5. CallsInv' /\ InOrderInv'
  BY <1>1 DEF Inv, CallsInv, InOrderInv, By
<1> QED
  BY <1>2, <1>4, <1>5 DEF Inv

LEMMA InitInv == Init => Inv
<1> SUFFICES ASSUME Init PROVE Inv
  OBVIOUS
<1>1. transfers = {} /\ confirmed = {} /\ spent = {} /\ kept = None
  BY DEF Init
<1>2. CoinsInv /\ TransfersInv
  BY <1>1, FS_EmptySet, HoldingsAreSound, WalletAssumption DEF Init, CoinsInv, TransfersInv
<1>3. Held = {} /\ Given = {} /\ \A u \in Users : By(u) = {}
  BY <1>1 DEF Init, Held, HeldIn, FundOf, Given, By
<1>4. HoldersInv
  BY <1>1, <1>3 DEF Init, HoldersInv, Fields
<1>5. AskInv
  BY DEF Init, AskInv
<1>6. AnchorsInv
  BY <1>1 DEF Init, AnchorsInv, Known
<1>7. HeldInv
  <2>1. again["builder"] = 0
    BY DEF Init, Users
  <2> QED
    BY <1>3, <2>1, FS_EmptySet DEF HeldInv
<1>8. CallsInv
  <2>1. again["interactive"] = 0 /\ again["wallet"] = 0 /\ ~interactive.finished
    BY DEF Init, Users
  <2> QED
    BY <1>3, <2>1, FS_EmptySet DEF CallsInv, Users
<1>9. InOrderInv
  BY <1>1 DEF Init, InOrderInv, By
<1> QED
  BY <1>2, <1>4, <1>5, <1>6, <1>7, <1>8, <1>9 DEF Inv

LEMMA NextInv == Inv /\ [Next]_vars => Inv'
<1> SUFFICES ASSUME Inv, [Next]_vars PROVE Inv'
  OBVIOUS
<1>1. CASE SetRecipients
  BY <1>1, SetRecipientsKeeps
<1>2. CASE SetPsbt
  BY <1>2, SetPsbtKeeps
<1>3. CASE SetAsset
  BY <1>3, SetAssetKeeps
<1>4. CASE Fund
  BY <1>4, FundKeeps
<1>5. CASE Execute
  BY <1>5, ExecuteKeeps
<1>6. CASE Sign
  BY <1>6, SignKeeps
<1>7. CASE Commit
  BY <1>7, CommitKeeps
<1>8. CASE Publish
  BY <1>8, PublishKeeps
<1>9. CASE ExecuteFails
  BY <1>9, ExecuteFailsKeeps
<1>10. CASE ExecuteInteractive
  BY <1>10, ExecuteInteractiveKeeps
<1>11. CASE FundInteractive
  BY <1>11, FundInteractiveKeeps
<1>12. CASE Complete
  BY <1>12, CompleteKeeps
<1>13. CASE InteractiveFails
  BY <1>13, InteractiveFailsKeeps
<1>14. CASE Send \/ SendMulti \/ Burn
  BY <1>14, OneShotKeeps
<1>15. CASE Confirm
  BY <1>15, ConfirmKeepsInv
<1>16. CASE UNCHANGED vars
  <2>1. Untouched /\ builder' = builder /\ kept' = kept
    BY <1>16 DEF vars, tapd, Untouched
  <2>2. Held' = Held
    BY <2>1 DEF Held, HeldIn
  <2> QED
    BY <2>1, <2>2, BuilderKeeps DEF Inv, HoldersInv, InOrderInv
<1> QED
  BY <1>1, <1>2, <1>3, <1>4, <1>5, <1>6, <1>7, <1>8, <1>9, <1>10, <1>11, <1>12,
     <1>13, <1>14, <1>15, <1>16 DEF Next

\* Coins, transfers and fundings are what they are said to be, no anchor is spent
\* twice, and no user holds more fundings or transfers than it was charged for.
THEOREM WalletInvariant == Spec => []Inv
BY InitInv, NextInv, PTL DEF Spec

\* Every transfer that was logged pays each recipient what its address and the
\* caller say, in the asset they name (recipient.go:7).
THEOREM PaysWhatIsAsked == Spec => []PaidAsAsked
<1>1. Inv => PaidAsAsked
  BY DEF Inv, TransfersInv, IsFunding, PaysAsAsked, PaidAsAsked
<1> QED
  BY <1>1, WalletInvariant, PTL

\* What a TxBuilder publishes is of one funding and one commit, and leaves no asset
\* of a spent anchor behind (tx_builder.go:362).
THEOREM PublishesCoherently == Spec => []PublishedIsCoherent
<1>1. Inv => PublishedIsCoherent
  <2> SUFFICES ASSUME Inv PROVE PublishedIsCoherent
    OBVIOUS
  <2>1. \A t \in By("builder") : t.published.inOrder => InOrder(t.published)
    BY DEF Inv, InOrderInv
  <2>2. \A t \in transfers :
           t.spends \subseteq Anchors(coins) => t.passive = Passive(t.inputs)
    BY DEF Inv, AnchorsInv
  <2> QED
    BY <2>1, <2>2 DEF PublishedIsCoherent, InOrder, By
<1> QED
  BY <1>1, WalletInvariant, PTL

\* The chain confirms one payment for each that a user asked for
\* (tx_builder.go:225).
THEOREM PaysOnce == Spec => []PaidOnce
<1>1. Inv => PaidOnce
  <2> SUFFICES ASSUME Inv, NEW u \in Users
               PROVE  Cardinality({t \in confirmed : t.by = u}) <= 1 + again[u]
    BY DEF PaidOnce
  <2> DEFINE own == {t \in confirmed : t.by = u}
  <2>1. /\ IsFiniteSet(By(u)) /\ own \subseteq By(u)
        /\ again[u] \in Nat
    BY FS_Subset DEF Inv, TransfersInv, HoldersInv, By
  <2>2. /\ IsFiniteSet(own) /\ Cardinality(own) <= Cardinality(By(u))
        /\ Cardinality(own) \in Nat /\ Cardinality(By(u)) \in Nat
    BY <2>1, FS_Subset, FS_CardinalityType
  <2>3. CASE u \in {"interactive", "wallet"}
    <3>0. u = "interactive" \/ u = "wallet"
      BY <2>3
    <3>1. Cardinality(By(u)) <= again[u] + 1
      <4>1. \/ Cardinality(By(u)) <= again[u] \/ Cardinality(By(u)) <= again[u] + 1
        BY <2>1, <3>0 DEF Inv, CallsInv
      <4> HIDE DEF own
      <4> QED
        BY <2>1, <2>2, <4>1
    <3> HIDE DEF own
    <3>2. Cardinality(own) <= 1 + again[u]
      BY <2>1, <2>2, <3>1
    <3> QED
      BY <3>2 DEF own
  <2>4. CASE u = "builder"
    <3> DEFINE of == [t \in own |-> t.inputs]
    <3>1. of \in [own -> Given]
      BY <2>1, <2>4 DEF Given
    <3>2. \A t, v \in own : of[t] = of[v] => t = v
      <4> SUFFICES ASSUME NEW t \in own, NEW v \in own, t.inputs = v.inputs, t # v
                   PROVE  FALSE
        OBVIOUS
      <4>1. t \in confirmed /\ v \in confirmed /\ t \in transfers /\ v \in transfers
        BY DEF Inv, TransfersInv
      <4>2. t.spends = v.spends /\ t.spends # {}
        <5>1. t.spends = Anchors(t.inputs) /\ v.spends = Anchors(v.inputs)
              /\ t.inputs # {}
          BY <4>1 DEF Inv, TransfersInv, IsFunding
        <5>2. Anchors(t.inputs) # {}
          BY <5>1 DEF Anchors
        <5> QED
          BY <5>1, <5>2
      <4> QED
        BY <4>1, <4>2 DEF Inv, AnchorsInv
    <3> HIDE DEF of, own
    <3>3. of \in Injection(own, Given)
      BY <3>1, <3>2 DEF Injection, IsInjective
    <3>4. IsFiniteSet(Given) /\ Cardinality(Given) <= again["builder"] + 1
      BY DEF Inv, HeldInv
    <3>5. Cardinality(own) <= Cardinality(Given) /\ Cardinality(Given) \in Nat
      BY <3>3, <3>4, FS_Injection, FS_CardinalityType
    <3>6. Cardinality(own) <= 1 + again[u]
      BY <2>1, <2>2, <2>4, <3>4, <3>5
    <3> QED
      BY <3>6 DEF own
  <2> QED
    BY <2>3, <2>4 DEF Users
<1> QED
  BY <1>1, WalletInvariant, PTL
-----------------------------------------------------------------------------
(* Views *)

\* The coins behind an asset's reference are the same in every view: of an item its
\* own, of a fungible asset those of all its issuances.
Behind(cs, i, ref) ==
    /\ {c \in cs : AssetRefOf(c.issuance) = ref} = Records(cs, ref)
    /\ OwnershipCandidates(cs, ref) = Records(cs, ref)
    /\ i \in Collectibles =>
         /\ ref = i /\ i \notin Groups /\ RowRef(i) = i
         /\ Records(cs, i) = {c \in cs : c.issuance = i}
    /\ i \notin Collectibles =>
         /\ ref = RecordRef(i) /\ ref \notin Collectibles
         /\ Records(cs, ref) = Of(cs, ref)
         /\ \A c \in Of(cs, ref) : c.issuance \notin Collectibles
         /\ ref \in Groups => Of(cs, ref) = {c \in cs : GroupOf[c.issuance] = ref}
         /\ ref \notin Groups =>
              ref = i /\ RowRef(i) = i /\ Of(cs, ref) = {c \in cs : c.issuance = i}

LEMMA CoinsBehind ==
  ASSUME NEW cs, cs \subseteq Coin, NEW i \in Issuances, NEW ref, ref = AssetRefOf(i)
  PROVE  Behind(cs, i, ref)
<1>1. \A c \in cs : c.issuance \in Issuances
  BY DEF Coin
<1>2. /\ i \notin Groups /\ Collectibles \subseteq Issuances
      /\ \A j \in Issuances : j \notin Groups
  BY WalletAssumption, HoldingsAssumption
<1>3. RecordRef(i) \in Groups \cup {i} /\ (RecordRef(i) \notin Groups => RecordRef(i) = i)
  BY DEF RecordRef, Groups
<1>4. CASE i \in Collectibles
  <2>1. AssetRefOf(i) = i /\ RowRef(i) = i
    BY <1>4 DEF AssetRefOf, RowRef
  <2>2. \A c \in cs : RecordRef(c.issuance) = i => c.issuance = i
    BY <1>1, Relatives
  <2>3. \A c \in cs : AssetRefOf(c.issuance) = i <=> c.issuance = i
    BY <2>1, <2>2 DEF AssetRefOf
  <2>4. Records(cs, i) = {c \in cs : c.issuance = i}
    BY <2>2 DEF Records
  <2>5. OwnershipCandidates(cs, i) = {c \in cs : c.issuance = i}
    BY <1>2 DEF OwnershipCandidates
  <2> QED
    BY <1>2, <1>4, <2>1, <2>3, <2>4, <2>5 DEF Behind
<1>5. CASE i \notin Collectibles
  <2>1. ref = RecordRef(i)
    BY <1>5 DEF AssetRefOf
  <2>2. ref \notin Collectibles
    BY <1>2, <1>3, <1>5, <2>1
  <2>3. \A c \in cs : RecordRef(c.issuance) = ref => c.issuance \notin Collectibles
    BY <1>1, <1>5, Relatives, <2>1
  <2>4. \A c \in cs : AssetRefOf(c.issuance) = ref <=> RecordRef(c.issuance) = ref
    BY <2>1, <2>2, <2>3 DEF AssetRefOf
  <2>5. \A c \in cs : c.issuance = ref => RecordRef(c.issuance) = ref
    BY <1>1, <2>1, Relatives
  <2>6. Records(cs, ref) = Of(cs, ref)
    BY <2>5 DEF Records, Of
  <2>7. ref \in Groups => Of(cs, ref) = {c \in cs : GroupOf[c.issuance] = ref}
    <3>1. SUFFICES ASSUME ref \in Groups
                   PROVE  \A c \in cs : RecordRef(c.issuance) = ref <=> GroupOf[c.issuance] = ref
      BY DEF Of
    <3>2. ref # None
      BY <3>1 DEF Groups
    <3> QED
      BY <1>1, <1>2, <2>1, <3>1, <3>2 DEF RecordRef
  <2>8. ref \notin Groups => /\ ref = i /\ RowRef(i) = i
                             /\ Of(cs, ref) = {c \in cs : c.issuance = i}
    <3> SUFFICES ASSUME ref \notin Groups
                 PROVE  /\ ref = i /\ RowRef(i) = i
                        /\ Of(cs, ref) = {c \in cs : c.issuance = i}
      OBVIOUS
    <3>1. ref = i /\ GroupOf[i] = None /\ RecordRef(i) = i
      BY <1>3, <2>1 DEF RecordRef, Groups
    <3>2. \A c \in cs : RecordRef(c.issuance) = i <=> c.issuance = i
      BY <1>1, <3>1, Relatives
    <3> QED
      BY <3>1, <3>2 DEF Of, RowRef
  <2>9. OwnershipCandidates(cs, ref) = Of(cs, ref)
    BY <2>8 DEF OwnershipCandidates, Of
  <2>10. {c \in cs : AssetRefOf(c.issuance) = ref} = Of(cs, ref)
    BY <2>4 DEF Of
  <2>11. \A c \in Of(cs, ref) : c.issuance \notin Collectibles
    BY <2>3 DEF Of
  <2>12. /\ {c \in cs : AssetRefOf(c.issuance) = ref} = Records(cs, ref)
         /\ OwnershipCandidates(cs, ref) = Records(cs, ref)
    BY <2>6, <2>9, <2>10
  <2> QED
    BY <1>5, <2>1, <2>2, <2>6, <2>7, <2>8, <2>11, <2>12 DEF Behind
<1> QED
  BY <1>4, <1>5

\* Exports and ownership proofs have one entry for each coin.
LEMMA EntriesAreWorth ==
  ASSUME NEW cs, cs \subseteq Coin, IsFiniteSet(cs), NEW ref
  PROVE  SumOf({[ref |-> EntryRef(ref, c), issuance |-> c.issuance,
                 anchor |-> c.anchor, amount |-> c.amount] : c \in cs}) = SumOf(cs)
<1> DEFINE entry(c) == [ref |-> EntryRef(ref, c), issuance |-> c.issuance,
                        anchor |-> c.anchor, amount |-> c.amount]
           entries == {entry(c) : c \in cs}
           p == [c \in cs |-> entry(c)]
           g == [e \in entries |-> e.amount]
<1>1. \A c, d \in cs : p[c] = p[d] => c = d
  <2>1. \A c \in cs : c = [issuance |-> c.issuance, amount |-> c.amount, anchor |-> c.anchor]
    BY DEF Coin
  <2>2. \A c \in cs : /\ p[c].issuance = c.issuance /\ p[c].amount = c.amount
                      /\ p[c].anchor = c.anchor
    OBVIOUS
  <2> HIDE DEF p
  <2> QED
    BY <2>1, <2>2
<1>2. \A c \in cs : Worth[c] \in Int /\ g[p[c]] = Worth[c]
  BY DEF Worth, Coin
<1>3. p \in [cs -> entries] /\ \A e \in entries : \E c \in cs : p[c] = e
  OBVIOUS
<1>4. SumFunction(g) = Sum(g, entries)
  BY SumFunctionIsSum
<1>5. Sum(g, entries) = Sum(Worth, cs)
  <2> HIDE DEF p, g, entries
  <2> QED
    BY <1>1, <1>2, <1>3, SumReindex
<1>6. SumOf(cs) = Saturated(Sum(Worth, cs))
  BY CoinsAreWorth
<1> QED
  BY <1>4, <1>5, <1>6 DEF SumOf

\* An item counts once, whatever records of it are listed.
LEMMA ItemsCountOnce ==
  ASSUME NEW cs, cs \subseteq Coin, IsFiniteSet(cs), cs # {}, NEW i \in Collectibles,
         \A c \in cs : c.issuance = i /\ c.amount = 1
  PROVE  ListedAmount(cs) = 1
<1> DEFINE one == CHOOSE c \in cs : c.issuance = i
<1>1. one \in cs /\ one.amount = 1
  OBVIOUS
<1>2. {c.issuance : c \in {r \in cs : r.issuance \in Collectibles}} = {i}
  OBVIOUS
<1>3. {c \in cs : c.issuance \notin Collectibles} = {}
  OBVIOUS
<1>4. {c \in cs : c.issuance \notin Collectibles}
        \cup {CHOOSE c \in cs : c.issuance = j :
                j \in {c.issuance : c \in {r \in cs : r.issuance \in Collectibles}}} = {one}
  BY <1>2, <1>3
<1>5. ListedAmount(cs) = SumOf({one})
  BY <1>4 DEF ListedAmount
<1> HIDE DEF one
<1>6. Sum(Worth, {one}) = 1
  <2>1. Worth[one] = 1
    BY <1>1 DEF Worth
  <2>2. {one} \ {one} = {} /\ \A c \in {one} : Worth[c] \in Int
    BY <2>1
  <2>3. Sum(Worth, {one}) = Worth[one] + Sum(Worth, {})
    BY <2>2, FS_Singleton, SumRemove
  <2> QED
    BY <2>1, <2>3, SumEmpty
<1>7. SumOf({one}) = Saturated(Sum(Worth, {one}))
  BY <1>1, FS_Singleton, CoinsAreWorth
<1> QED
  BY <1>5, <1>6, <1>7, WalletAssumption DEF Saturated

LEMMA FungiblesAddUp ==
  ASSUME NEW cs, \A c \in cs : c.issuance \notin Collectibles
  PROVE  ListedAmount(cs) = SumOf(cs)
<1>1. {c.issuance : c \in {r \in cs : r.issuance \in Collectibles}} = {}
  OBVIOUS
<1>2. {c \in cs : c.issuance \notin Collectibles} = cs
  OBVIOUS
<1> QED
  BY <1>1, <1>2 DEF ListedAmount

\* What a reference of a single issuance is worth in tapd's rows.
LEMMA RowsAreWorth ==
  ASSUME NEW cs, cs \subseteq Coin, IsFiniteSet(cs), NEW i, i \notin Groups, RowRef(i) = i,
         {c \in cs : c.issuance = i} # {},
         Sum(Worth, {c \in cs : c.issuance = i}) <= MaxAmount
  PROVE  GetBalance(cs, i) = Sum(Worth, {c \in cs : c.issuance = i})
<1> DEFINE own == {c \in cs : c.issuance = i}
<1>1. own \subseteq Coin /\ IsFiniteSet(own) /\ \A c \in own : c.issuance = i
  BY FS_Subset
<1>2. Sum(Worth, own) \in Nat /\ SumFunction([c \in own |-> c.amount]) = Sum(Worth, own)
  BY <1>1, CoinsAreWorth
<1>3. RowSum(own) = Sum(Worth, own)
  <2>1. \A n \in Nat, m \in Nat : n <= m => n % (m + 1) = n
    OBVIOUS
  <2> HIDE DEF own
  <2>2. Sum(Worth, own) % (MaxAmount + 1) = Sum(Worth, own)
    BY <1>2, <2>1, WalletAssumption DEF own
  <2> QED
    BY <1>2, <2>2 DEF RowSum
<1>4. {RowRef(c.issuance) : c \in own} = {i} /\ {c \in own : RowRef(c.issuance) = i} = own
  BY <1>1
<1>5. DOMAIN ListBalances(own) = {i} /\ ListBalances(own)[i] = RowSum(own)
  BY <1>4 DEF ListBalances
<1> QED
  BY <1>3, <1>5 DEF GetBalance

\* The record of one of a wallet's assets, as every view has it.
ViewedAlike(all, cs, a) ==
    /\ a.amount \in Nat /\ a.amount > 0
    /\ GetBalance(cs, a.ref) = a.amount
    /\ SumOf(ExportProof(cs, a.ref)) = a.amount
    /\ SumOf({i \in ListIssuances(cs) : i.ref = a.ref}) \in {a.amount, 0}
    /\ \A n \in 1..a.amount :
          /\ ProveOwnership(all, a.ref, n) # {}
          /\ \A p \in ProveOwnership(all, a.ref, n) : SumOf(p) >= n

LEMMA OneItem ==
  ASSUME NEW c \in Coin, c.amount = 1
  PROVE  Sum(Worth, {c}) = 1 /\ SumOf({c}) = 1
<1>1. {c} \subseteq Coin /\ IsFiniteSet({c}) /\ Worth[c] = 1
  BY FS_Singleton DEF Worth
<1>2. Sum(Worth, {c}) = 1
  <2>1. {c} \ {c} = {} /\ \A d \in {c} : Worth[d] \in Int
    BY <1>1
  <2>2. Sum(Worth, {c}) = Worth[c] + Sum(Worth, {})
    BY <1>1, <2>1, SumRemove
  <2> QED
    BY <1>1, <2>2, SumEmpty
<1>3. SumOf({c}) = Saturated(Sum(Worth, {c}))
  BY <1>1, CoinsAreWorth
<1> QED
  BY <1>2, <1>3, WalletAssumption DEF Saturated

LEMMA ItemsViewedAlike ==
  ASSUME NEW all, all \subseteq Coin, IsFiniteSet(all), Sound(all), NEW cs, cs \subseteq all,
         NEW k \in cs, k.issuance \in Collectibles, NEW a, a.ref = k.issuance,
         a.amount = ListedAmount({c \in cs : AssetRefOf(c.issuance) = k.issuance})
  PROVE  ViewedAlike(all, cs, a) /\ a.amount = 1
<1> DEFINE i == k.issuance
<1>1. /\ k \in Coin /\ k.amount = 1 /\ i \in Issuances
      /\ cs \subseteq Coin /\ IsFiniteSet(cs)
  BY FS_Subset DEF Sound, Coin
<1>2. {c \in cs : c.issuance = i} = {k} /\ {c \in all : c.issuance = i} = {k}
  BY DEF Sound
<1>3. /\ AssetRefOf(i) = i /\ i \notin Groups /\ RowRef(i) = i
      /\ {c \in cs : AssetRefOf(c.issuance) = i} = {k} /\ Records(cs, i) = {k}
  <2>1. AssetRefOf(i) = i
    BY DEF AssetRefOf
  <2> HIDE DEF i
  <2>2. i \in Collectibles
    BY DEF i
  <2>5. Behind(cs, i, i)
    BY <1>1, <2>1, CoinsBehind
  <2>3. {c \in cs : AssetRefOf(c.issuance) = i} = Records(cs, i)
    BY <2>5 DEF Behind
  <2>4. /\ i \notin Groups /\ RowRef(i) = i
        /\ Records(cs, i) = {c \in cs : c.issuance = i}
    BY <2>2, <2>5 DEF Behind
  <2> QED
    BY <1>2, <2>1, <2>3, <2>4
<1>4. OwnershipCandidates(all, i) = {k}
  BY <1>2, <1>3 DEF OwnershipCandidates
<1>5. Sum(Worth, {k}) = 1 /\ SumOf({k}) = 1
  BY <1>1, OneItem
<1> HIDE DEF i
<1>6. a.amount = 1
  <2>1. ListedAmount({k}) = 1
    BY <1>1, FS_Singleton, ItemsCountOnce
  <2> QED
    BY <1>3, <2>1 DEF i
<1>7. GetBalance(cs, i) = 1
  BY <1>1, <1>2, <1>3, <1>5, RowsAreWorth, WalletAssumption
<1>8. SumOf({[ref |-> EntryRef(i, c), issuance |-> c.issuance,
              anchor |-> c.anchor, amount |-> c.amount] : c \in {k}}) = 1
  <2>1. {k} \subseteq Coin /\ IsFiniteSet({k})
    BY <1>1, FS_Singleton
  <2> QED
    BY <1>5, <2>1, EntriesAreWorth
<1>9. SumOf(ExportProof(cs, i)) = 1
  BY <1>3, <1>8 DEF ExportProof
<1>10. SumOf({e \in ListIssuances(cs) : e.ref = i}) = 0
  <2>1. \A c \in cs : c.issuance \in Issuances
    BY <1>1 DEF Coin
  <2>2. \A e \in ListIssuances(cs) : e.ref # i
    <3> SUFFICES ASSUME NEW e \in ListIssuances(cs), e.ref = i PROVE FALSE
      OBVIOUS
    <3>1. PICK j \in {c.issuance : c \in cs} \ Collectibles :
             e = [ref |-> RecordRef(j), issuance |-> j,
                  amount |-> SumOf({c \in cs : c.issuance = j})]
      BY DEF ListIssuances
    <3>2. j \in Issuances /\ RecordRef(j) = i
      BY <2>1, <3>1
    <3>3. j = i
      BY <1>1, <3>2, Relatives
    <3> QED
      BY <3>1, <3>3 DEF i
  <2>3. {e \in ListIssuances(cs) : e.ref = i} = {}
    BY <2>2
  <2> QED
    BY <2>3, NothingIsWorthNothing
<1>11. OwnershipSelections(all, i, 1) = {{k}}
  <2>1. {c \in {k} : c.issuance \in Collectibles} = {k}
    OBVIOUS
  <2> QED
    BY <1>4, <2>1 DEF OwnershipSelections
<1>15. ProveOwnership(all, i, 1)
         = {{[ref |-> EntryRef(i, c), issuance |-> c.issuance,
              anchor |-> c.anchor, amount |-> c.amount] : c \in {k}}}
  <2> DEFINE proofs(selected) ==
               {[ref |-> EntryRef(i, c), issuance |-> c.issuance,
                 anchor |-> c.anchor, amount |-> c.amount] : c \in selected}
  <2>1. ProveOwnership(all, i, 1) = {proofs(selected) : selected \in {{k}}}
    BY <1>11 DEF ProveOwnership
  <2>2. {proofs(selected) : selected \in {{k}}} = {proofs({k})}
    <3> HIDE DEF proofs
    <3> QED
      OBVIOUS
  <2> QED
    BY <2>1, <2>2
<1>12. \A p \in ProveOwnership(all, i, 1) : SumOf(p) = 1
  BY <1>8, <1>15
<1>13. ProveOwnership(all, i, 1) # {}
  BY <1>15
<1>14. \A n \in 1..a.amount : n = 1
  BY <1>6
<1> QED
  BY <1>6, <1>7, <1>9, <1>10, <1>12, <1>13, <1>14 DEF ViewedAlike, i

\* The issuances of an asset are listed one by one.
LEMMA IssuancesAddUp ==
  ASSUME NEW cs, cs \subseteq Coin, IsFiniteSet(cs), Sound(cs), NEW ref,
         \A c \in Of(cs, ref) : c.issuance \notin Collectibles
  PROVE  SumOf({e \in ListIssuances(cs) : e.ref = ref}) = SumOf(Of(cs, ref))
<1> DEFINE R == Of(cs, ref)
           J == {c.issuance : c \in R}
           block == [j \in J |-> {c \in cs : c.issuance = j}]
           L == {e \in ListIssuances(cs) : e.ref = ref}
           record(j) == [ref |-> RecordRef(j), issuance |-> j,
                         amount |-> SumOf({c \in cs : c.issuance = j})]
           p == [j \in J |-> record(j)]
           g == [e \in L |-> e.amount]
           f == [j \in J |-> Sum(Worth, block[j])]
<1>1. R \subseteq Coin /\ IsFiniteSet(R)
  BY FS_Subset DEF Of
<1>2. IsFiniteSet(J)
  <2> DEFINE h == [c \in R |-> c.issuance]
  <2>1. J = {h[c] : c \in R}
    OBVIOUS
  <2> HIDE DEF h, R, J
  <2>2. IsFiniteSet({h[c] : c \in R})
    BY <1>1, FiniteImage
  <2> QED
    BY <2>1, <2>2
<1>3. \A j \in J : /\ block[j] \subseteq cs /\ block[j] \subseteq Coin
                   /\ IsFiniteSet(block[j])
                   /\ \A c \in block[j] : c.issuance = j /\ RecordRef(c.issuance) = ref
  BY FS_Subset DEF Of
<1>4. \A j \in J : /\ Sum(Worth, block[j]) \in Nat
                   /\ SumOf(block[j]) = Sum(Worth, block[j])
  <2> HIDE DEF block, J
  <2> QED
    BY <1>3, OneAssetIsWorth
<1>5. UNION {block[j] : j \in J} = R
  <2>1. \A c \in R : c.issuance \in J /\ c \in block[c.issuance]
    BY DEF Of
  <2>2. \A j \in J : block[j] \subseteq R
    BY <1>3 DEF Of
  <2> HIDE DEF block, J, R
  <2> QED
    BY <2>1, <2>2
<1>6. Sum(Worth, R) = Sum(f, J)
  <2>1. \A j \in J : \A c \in block[j] : Worth[c] \in Int
    <3> HIDE DEF block, J
    <3> QED
      BY <1>3 DEF Worth, Coin
  <2>2. \A j, l \in J : j # l => block[j] \cap block[l] = {}
    OBVIOUS
  <2> HIDE DEF block, J, R
  <2>3. Sum(Worth, UNION {block[j] : j \in J}) = Sum([j \in J |-> Sum(Worth, block[j])], J)
    BY ONLY <1>2, <1>3, <2>1, <2>2, SumByBlocks
  <2> QED
    BY <1>5, <2>3
<1>7. /\ p \in [J -> L] /\ \A e \in L : \E j \in J : p[j] = e
  <2>1. \A j \in J : j \in {c.issuance : c \in cs} \ Collectibles /\ RecordRef(j) = ref
    BY DEF Of
  <2>2. \A j \in {c.issuance : c \in cs} \ Collectibles : RecordRef(j) = ref => j \in J
    BY DEF Of
  <2>3. ListIssuances(cs) = {record(j) : j \in {c.issuance : c \in cs} \ Collectibles}
    BY DEF ListIssuances
  <2>4. \A j : record(j).ref = RecordRef(j)
    OBVIOUS
  <2>5. p = [j \in J |-> record(j)]
    OBVIOUS
  <2> HIDE DEF J, record, p
  <2>6. \A j \in J : record(j) \in L /\ p[j] = record(j)
    BY <2>1, <2>3, <2>4, <2>5
  <2>7. \A e \in L : \E j \in J : p[j] = e
    BY <2>2, <2>3, <2>4, <2>6
  <2> HIDE DEF L
  <2> QED
    BY <2>5, <2>6, <2>7
<1>8. \A j \in J : p[j].amount = SumOf(block[j]) /\ p[j].issuance = j
  OBVIOUS
<1>9. \A e \in L : g[e] = e.amount
  OBVIOUS
<1>10. \A j \in J : f[j] = Sum(Worth, block[j])
  OBVIOUS
<1>11. SumFunction(g) = Sum(g, L)
  BY SumFunctionIsSum
<1> HIDE DEF p, g, f, J, L, block
<1>12. \A j, l \in J : p[j] = p[l] => j = l
  BY <1>8
<1>13. \A j \in J : f[j] \in Int /\ g[p[j]] = f[j]
  BY <1>4, <1>7, <1>8, <1>9, <1>10
<1>14. Sum(g, L) = Sum(f, J)
  BY <1>2, <1>7, <1>12, <1>13, SumReindex
<1>15. SumOf(L) = Saturated(SumFunction(g))
  BY DEF SumOf, g
<1>16. SumOf(R) = Saturated(Sum(Worth, R))
  BY <1>1, CoinsAreWorth
<1> QED
  BY <1>6, <1>11, <1>14, <1>15, <1>16 DEF L

LEMMA FungiblesViewedAlike ==
  ASSUME NEW all, all \subseteq Coin, IsFiniteSet(all), Sound(all), NEW cs, cs \subseteq all,
         NEW k \in cs, k.issuance \notin Collectibles,
         NEW a, a.ref = AssetRefOf(k.issuance),
         a.amount = ListedAmount({c \in cs : AssetRefOf(c.issuance) = a.ref})
  PROVE  ViewedAlike(all, cs, a)
<1> DEFINE i == k.issuance
           ref == RecordRef(k.issuance)
           own == Of(cs, ref)
           candidates == Of(all, ref)
<1>1. /\ k \in Coin /\ k.amount > 0 /\ i \in Issuances
      /\ cs \subseteq Coin /\ IsFiniteSet(cs)
  BY FS_Subset DEF Sound, Coin
<1>2. a.ref = ref /\ ref = AssetRefOf(i)
  BY DEF AssetRefOf
<1>3. k \in own /\ own \subseteq candidates /\ candidates \subseteq all /\ own \subseteq cs
  BY DEF Of
<1> HIDE DEF i, ref
<1>4. Behind(cs, i, ref) /\ Behind(all, i, ref) /\ i \notin Collectibles
  BY <1>1, <1>2, CoinsBehind DEF i
<1>5. /\ {c \in cs : AssetRefOf(c.issuance) = ref} = own /\ Records(cs, ref) = own
      /\ \A c \in own : c.issuance \notin Collectibles
      /\ OwnershipCandidates(all, ref) = candidates
      /\ \A c \in candidates : c.issuance \notin Collectibles
  BY <1>4 DEF Behind
<1>6. \A s \in SUBSET candidates :
         /\ SumOf(s) = Sum(Worth, s) /\ Sum(Worth, s) \in Nat /\ Sum(Worth, s) <= MaxAmount
         /\ s \subseteq Coin /\ IsFiniteSet(s)
  <2> SUFFICES ASSUME NEW s \in SUBSET candidates
               PROVE  /\ SumOf(s) = Sum(Worth, s) /\ Sum(Worth, s) \in Nat
                      /\ Sum(Worth, s) <= MaxAmount
                      /\ s \subseteq Coin /\ IsFiniteSet(s)
    OBVIOUS
  <2>1. s \subseteq all /\ \A c \in s : RecordRef(c.issuance) = ref
    BY DEF Of
  <2> HIDE DEF candidates
  <2>2. s \subseteq Coin /\ IsFiniteSet(s)
    BY <2>1, FS_Subset
  <2> QED
    BY <2>1, <2>2, OneAssetIsWorth
<1> HIDE DEF own, candidates
<1>7. /\ SumOf(own) = Sum(Worth, own) /\ Sum(Worth, own) \in Nat
      /\ Sum(Worth, own) <= MaxAmount /\ own \subseteq Coin /\ IsFiniteSet(own)
  BY <1>3, <1>6
<1>8. a.amount = SumOf(own)
  <2>1. ListedAmount(own) = SumOf(own)
    BY <1>5, FungiblesAddUp
  <2> QED
    BY <1>2, <1>5, <2>1
<1>9. SumOf(own) > 0
  <2>1. Worth[k] > 0 /\ \A c \in own : Worth[c] \in Int
    BY <1>1, <1>7 DEF Worth, Coin
  <2>2. Sum(Worth, own) = Worth[k] + Sum(Worth, own \ {k})
    BY <1>3, <1>7, <2>1, SumRemove
  <2>3. Sum(Worth, own \ {k}) \in Nat
    BY <1>3, <1>6
  <2>4. Worth[k] \in Int
    BY <1>3, <2>1
  <2> QED
    BY <1>7, <2>1, <2>2, <2>3, <2>4
<1>10. GetBalance(cs, ref) = SumOf(own)
  <2>1. CASE ref \in Groups
    <3>1. own = {c \in cs : GroupOf[c.issuance] = ref}
      BY <1>4, <2>1 DEF Behind, own
    <3> QED
      BY <2>1, <3>1 DEF GetBalance, GroupBalance
  <2>2. CASE ref \notin Groups
    <3>1. ref = i /\ RowRef(i) = i /\ own = {c \in cs : c.issuance = i}
      BY <1>4, <2>2 DEF Behind, own
    <3> QED
      BY <1>1, <1>3, <1>7, <2>2, <3>1, RowsAreWorth
  <2> QED
    BY <2>1, <2>2
<1>11. SumOf(ExportProof(cs, ref)) = SumOf(own)
  BY <1>5, <1>7, EntriesAreWorth DEF ExportProof
<1>12. SumOf({e \in ListIssuances(cs) : e.ref = ref}) = SumOf(own)
  <2>1. Sound(cs)
    <3>1. \A r : Of(cs, r) \subseteq Of(all, r) /\ Of(all, r) \subseteq Coin
                 /\ IsFiniteSet(Of(all, r))
      BY FS_Subset DEF Of
    <3>2. \A r : Sum(Worth, Of(cs, r)) <= Sum(Worth, Of(all, r))
      BY <3>1, MoreIsWorthMore
    <3>3. \A r : Sum(Worth, Of(cs, r)) \in Nat /\ Sum(Worth, Of(all, r)) \in Nat
      <4>1. \A r : Of(cs, r) \subseteq Coin /\ IsFiniteSet(Of(cs, r))
        BY <3>1, FS_Subset
      <4> QED
        BY <3>1, <4>1, CoinsAreWorth
    <3> QED
      BY <3>2, <3>3, WalletAssumption DEF Sound
  <2> QED
    BY <1>1, <1>5, <2>1, IssuancesAddUp DEF own
<1>13. ASSUME NEW n \in 1..a.amount
       PROVE  /\ ProveOwnership(all, ref, n) # {}
              /\ \A p \in ProveOwnership(all, ref, n) : SumOf(p) >= n
  <2> DEFINE Enough == {s \in SUBSET candidates : SumOf(s) >= n}
             entries(selected) == {[ref |-> EntryRef(ref, c), issuance |-> c.issuance,
                                    anchor |-> c.anchor, amount |-> c.amount] : c \in selected}
  <2>1. n \in Nat /\ n > 0 /\ own \in Enough
    BY <1>3, <1>7, <1>8
  <2>2. IsFiniteSet(candidates)
    BY <1>6
  <2>3. PICK s \in Enough : \A u \in Enough : u \subseteq s => u = s
    <3>1. Enough \subseteq SUBSET candidates /\ Enough # {}
      BY <2>1
    <3> HIDE DEF Enough
    <3> QED
      BY ONLY <2>2, <3>1, MinimalSubset
  <2>4. s \in SUBSET candidates /\ SumOf(s) >= n
    OBVIOUS
  <2>5. s # {}
    BY <2>1, <2>4, NothingIsWorthNothing
  <2>6. PICK last : last \in s
    BY <2>5
  <2>7. SumOf(s \ {last}) < n
    <3>1. s \ {last} \in SUBSET candidates /\ s \ {last} # s
      BY <2>4, <2>6
    <3>2. s \ {last} \notin Enough
      BY <2>3, <3>1
    <3>3. ~ (SumOf(s \ {last}) >= n)
      BY <3>1, <3>2
    <3> QED
      BY <1>6, <2>1, <3>1, <3>3
  <2>8. OwnershipSelections(all, ref, n)
          = {t \in SUBSET candidates : /\ t # {} /\ SumOf(t) >= n
                                       /\ \E c \in t : SumOf(t \ {c}) < n}
    <3>1. {c \in candidates : c.issuance \in Collectibles} = {}
      BY <1>5
    <3> QED
      BY <1>5, <3>1 DEF OwnershipSelections
  <2>9. s \in OwnershipSelections(all, ref, n)
    BY <2>4, <2>5, <2>6, <2>7, <2>8
  <2>10. ProveOwnership(all, ref, n)
           = {entries(selected) : selected \in OwnershipSelections(all, ref, n)}
    BY DEF ProveOwnership
  <2>11. \A t \in OwnershipSelections(all, ref, n) : SumOf(entries(t)) >= n
    <3> SUFFICES ASSUME NEW t \in OwnershipSelections(all, ref, n)
                 PROVE  SumOf(entries(t)) >= n
      OBVIOUS
    <3>1. t \in SUBSET candidates /\ SumOf(t) >= n
      BY <2>8
    <3>2. SumOf(entries(t)) = SumOf(t)
      BY <1>6, <3>1, EntriesAreWorth
    <3> QED
      BY <3>1, <3>2
  <2> HIDE DEF entries
  <2> QED
    BY <2>9, <2>10, <2>11
<1>14. a.amount \in Nat
  BY <1>7, <1>8
<1> QED
  BY <1>2, <1>8, <1>9, <1>10, <1>11, <1>12, <1>13, <1>14 DEF ViewedAlike

LEMMA AssetsViewedAlike ==
  ASSUME NEW all, all \subseteq Coin, IsFiniteSet(all), Sound(all), NEW cs, cs \subseteq all,
         NEW a \in ListAssets(cs)
  PROVE  ViewedAlike(all, cs, a)
<1>1. PICK k \in cs :
         a = [ref |-> AssetRefOf(k.issuance), collection |-> CollectionOf(k.issuance),
              amount |-> ListedAmount({c \in cs : AssetRefOf(c.issuance)
                                                    = AssetRefOf(k.issuance)})]
  BY DEF ListAssets
<1>2. /\ a.ref = AssetRefOf(k.issuance)
      /\ a.amount = ListedAmount({c \in cs : AssetRefOf(c.issuance) = a.ref})
  BY <1>1
<1>3. CASE k.issuance \in Collectibles
  <2>1. AssetRefOf(k.issuance) = k.issuance
    BY <1>3 DEF AssetRefOf
  <2>2. /\ a.ref = k.issuance
        /\ a.amount = ListedAmount({c \in cs : AssetRefOf(c.issuance) = k.issuance})
    BY <1>1, <2>1
  <2> QED
    BY <1>3, <2>2, ItemsViewedAlike
<1>4. CASE k.issuance \notin Collectibles
  BY <1>2, <1>4, FungiblesViewedAlike
<1> QED
  BY <1>3, <1>4

\* A spent coin of an item that is listed beside its successor adds nothing.
LEMMA ItemsListedOnce ==
  ASSUME NEW cs, cs \subseteq Coin, IsFiniteSet(cs),
         \A c \in cs : c.issuance \in Collectibles => c.amount = 1,
         NEW a \in ListAssets(cs), a.ref \in Collectibles
  PROVE  a.amount = 1
<1>1. PICK k \in cs :
         a = [ref |-> AssetRefOf(k.issuance), collection |-> CollectionOf(k.issuance),
              amount |-> ListedAmount({c \in cs : AssetRefOf(c.issuance)
                                                    = AssetRefOf(k.issuance)})]
  BY DEF ListAssets
<1> DEFINE i == k.issuance
           own == {c \in cs : c.issuance = i}
<1>2. i \in Issuances /\ k \in own
  BY DEF Coin
<1> HIDE DEF i
<1>3. /\ a.ref = AssetRefOf(i)
      /\ a.amount = ListedAmount({c \in cs : AssetRefOf(c.issuance) = AssetRefOf(i)})
  BY <1>1 DEF i
<1>4. Behind(cs, i, AssetRefOf(i))
  BY <1>2, CoinsBehind
<1>5. i \in Collectibles /\ AssetRefOf(i) = i
  BY <1>3, <1>4 DEF Behind
<1>6. {c \in cs : AssetRefOf(c.issuance) = AssetRefOf(i)} = own
  BY <1>4, <1>5 DEF Behind
<1>7. own \subseteq Coin /\ IsFiniteSet(own) /\ \A c \in own : c.issuance = i /\ c.amount = 1
  BY <1>5, FS_Subset
<1> HIDE DEF own
<1> QED
  BY <1>2, <1>3, <1>5, <1>6, <1>7, ItemsCountOnce

\* A collection has as many items as a listing of its items has entries.
LEMMA CollectionsCount ==
  ASSUME NEW cs, cs \subseteq Coin, IsFiniteSet(cs), NEW col \in ListCollections(cs)
  PROVE  Cardinality(ListCollectionItems(cs, col.ref)) = col.items
<1> DEFINE g == col.ref
           rs == Records(cs, g)
           X == {c.issuance : c \in {r \in cs : CollectionOf(r.issuance) = g}}
           Y == ListCollectionItems(cs, g)
           record(i) == [ref |-> AssetRefOf(i), collection |-> CollectionOf(i),
                         amount |-> ListedAmount({c \in rs :
                                      AssetRefOf(c.issuance) = AssetRefOf(i)})]
           f == [i \in X |-> record(i)]
<1>1. /\ col.items = Cardinality(X) /\ g # None
      /\ \E c \in cs : CollectionOf(c.issuance) = g
  <2>1. PICK h \in {CollectionOf(c.issuance) : c \in cs} \ {None} :
           col = [ref |-> h,
                  items |-> Cardinality({c.issuance : c \in {r \in cs :
                                            CollectionOf(r.issuance) = h}})]
    BY DEF ListCollections
  <2>2. g = h
    BY <2>1
  <2> QED
    BY <2>1, <2>2
<1>2. Y = {a \in {record(i) : i \in {c.issuance : c \in rs}} : a.collection # None}
  BY DEF ListCollectionItems, ListAssets
<1>3. \A i : record(i).ref = AssetRefOf(i) /\ record(i).collection = CollectionOf(i)
  OBVIOUS
<1>4. \A i : CollectionOf(i) = g =>
               i \in Collectibles /\ GroupOf[i] = g /\ AssetRefOf(i) = i
  BY <1>1 DEF CollectionOf, AssetRefOf
<1>5. g \in Groups /\ g \notin Issuances
  BY <1>1, <1>4, HoldingsAssumption, WalletAssumption DEF Groups
<1>6. \A c \in cs : c.issuance \in Issuances
  BY DEF Coin
<1>7. \A c \in cs : CollectionOf(c.issuance) = g => c \in rs
  BY <1>1, <1>4 DEF Records, RecordRef
<1>8. \A c \in rs : CollectionOf(c.issuance) # None => CollectionOf(c.issuance) = g
  BY <1>1, <1>5, <1>6 DEF Records, RecordRef, CollectionOf
<1>9. \A i \in X : CollectionOf(i) = g /\ i \in {c.issuance : c \in rs}
  BY <1>7
<1>10. \A c \in rs : CollectionOf(c.issuance) # None => c.issuance \in X
  <2>1. \A c \in rs : c \in cs
    BY DEF Records
  <2> HIDE DEF rs
  <2> QED
    BY <1>8, <2>1
<1>11. f = [i \in X |-> record(i)]
  OBVIOUS
<1>12. IsFiniteSet(X)
  <2> DEFINE S == {r \in cs : CollectionOf(r.issuance) = g}
             h == [c \in S |-> c.issuance]
  <2>1. IsFiniteSet(S) /\ X = {h[c] : c \in S}
    BY FS_Subset
  <2> HIDE DEF S, h, X
  <2>2. IsFiniteSet({h[c] : c \in S})
    BY <2>1, FiniteImage
  <2> QED
    BY <2>1, <2>2
<1> HIDE DEF g, rs, X, Y, record, f
<1>13. \A i \in X : record(i) \in Y /\ f[i] = record(i) /\ f[i].ref = i
  BY <1>1, <1>2, <1>3, <1>4, <1>9, <1>11
<1>14. \A a \in Y : \E i \in X : f[i] = a
  <2> SUFFICES ASSUME NEW a \in Y PROVE \E i \in X : f[i] = a
    OBVIOUS
  <2>1. PICK c \in rs : a = record(c.issuance) /\ a.collection # None
    BY <1>2
  <2>2. c.issuance \in X
    BY <1>3, <1>10, <2>1
  <2> QED
    BY <1>13, <2>1, <2>2
<1>15. f \in Bijection(X, Y)
  <2>1. f \in [X -> Y]
    BY <1>11, <1>13
  <2>2. \A i, j \in X : f[i] = f[j] => i = j
    BY <1>13
  <2> QED
    BY <1>14, <2>1, <2>2 DEF Bijection, Injection, Surjection, IsInjective
<1>16. Cardinality(Y) = Cardinality(X)
  BY <1>12, <1>15, FS_Bijection DEF ExistsBijection
<1> QED
  BY <1>1, <1>16 DEF Y, g

SpentInv ==
    /\ spent \subseteq Coin /\ IsFiniteSet(spent)
    /\ \A c \in spent : c.issuance \in Collectibles => c.amount = 1

LEMMA NextSpentInv == Inv /\ SpentInv /\ [Next]_vars => SpentInv'
<1> SUFFICES ASSUME Inv, SpentInv, [Next]_vars
             PROVE  SpentInv'
  OBVIOUS
<1>1. CASE Confirm
  <2>1. PICK t : spent' = spent \cup {c \in coins : c.anchor \in t.spends}
    BY <1>1 DEF Confirm
  <2> DEFINE gone == {c \in coins : c.anchor \in t.spends}
  <2>2. /\ gone \subseteq Coin /\ IsFiniteSet(gone)
        /\ \A c \in gone : c.issuance \in Collectibles => c.amount = 1
    BY FS_Subset DEF Inv, CoinsInv, Sound
  <2>3. spent' = spent \cup gone
    BY <2>1
  <2> HIDE DEF gone
  <2> QED
    BY <2>2, <2>3, FS_Union DEF SpentInv
<1>2. CASE ~ Confirm
  <2>1. CASE SetRecipients \/ SetPsbt \/ SetAsset \/ Sign \/ ExecuteFails
               \/ ExecuteInteractive \/ InteractiveFails
    BY <2>1 DEF SetRecipients, SetPsbt, SetAsset, Sign, ExecuteFails,
                ExecuteInteractive, InteractiveFails, SpentInv, tapd
  <2>2. CASE Fund \/ Execute
    BY <2>2 DEF Fund, Execute, FundTransfer, SpentInv, tapd
  <2>3. CASE Commit \/ Publish
    BY <2>3 DEF Commit, Publish, SpentInv
  <2>4. CASE FundInteractive \/ Complete
    BY <2>4 DEF FundInteractive, Complete, SpentInv
  <2>5. CASE Send \/ SendMulti \/ Burn
    BY <2>5 DEF Send, SendMulti, Burn, Call, SpentInv
  <2>6. CASE UNCHANGED vars
    BY <2>6 DEF vars, tapd, SpentInv
  <2> QED
    BY <1>2, <2>1, <2>2, <2>3, <2>4, <2>5, <2>6 DEF Next
<1> QED
  BY <1>1, <1>2

\* The wallet's views of one set of coins agree: an asset's listed amount is its
\* balance, the sum of its proofs and of its issuances, and what can be proved
\* owned, and an item counts once (wallet.go:487), for all holdings and transfers.
THEOREM ViewsAgree == Spec => []WalletViewsAgree
<1>1. Init => Inv /\ SpentInv
  <2>1. Init => SpentInv
    BY FS_EmptySet DEF Init, SpentInv
  <2> QED
    BY <2>1, InitInv
<1>2. Inv /\ SpentInv /\ [Next]_vars => (Inv /\ SpentInv)'
  BY NextInv, NextSpentInv
<1>3. Inv /\ SpentInv => WalletViewsAgree
  <2> SUFFICES ASSUME Inv, SpentInv PROVE WalletViewsAgree
    OBVIOUS
  <2>1. /\ coins \subseteq Coin /\ IsFiniteSet(coins) /\ Sound(coins)
        /\ Spendable \subseteq coins
    BY DEF Inv, CoinsInv, Spendable
  <2>2. Spendable \subseteq Coin /\ IsFiniteSet(Spendable)
    BY <2>1, FS_Subset
  <2>3. \A a \in ListAssets(Spendable) : ViewedAlike(coins, Spendable, a)
    BY <2>1, AssetsViewedAlike
  <2>4. \A a \in ListAssets(coins \cup spent) : a.ref \in Collectibles => a.amount = 1
    <3>1. /\ coins \cup spent \subseteq Coin /\ IsFiniteSet(coins \cup spent)
          /\ \A c \in coins \cup spent : c.issuance \in Collectibles => c.amount = 1
      BY <2>1, FS_Union DEF SpentInv, Sound
    <3> QED
      BY <3>1, ItemsListedOnce
  <2>5. \A col \in ListCollections(Spendable) :
           Cardinality(ListCollectionItems(Spendable, col.ref)) = col.items
    BY <2>2, CollectionsCount
  <2>6. FilterAssets(ListAssets(Spendable), 1, 0) = ListAssets(Spendable)
    <3> DEFINE assets == ListAssets(Spendable)
    <3>1. \A a \in assets : a.amount \in Nat /\ a.amount >= 1
      <4> SUFFICES ASSUME NEW a \in ListAssets(Spendable)
                   PROVE  a.amount \in Nat /\ a.amount >= 1
        OBVIOUS
      <4>1. a.amount \in Nat /\ a.amount > 0
        BY <2>3 DEF ViewedAlike
      <4> QED
        BY <4>1
    <3> HIDE DEF assets
    <3>2. FilterAssets(assets, 1, 0) = assets
      BY <3>1 DEF FilterAssets
    <3> QED
      BY <3>2 DEF assets
  <2> QED
    BY <2>3, <2>4, <2>5, <2>6 DEF WalletViewsAgree, ViewedAlike
<1> QED
  BY <1>1, <1>2, <1>3, PTL DEF Spec
=============================================================================
