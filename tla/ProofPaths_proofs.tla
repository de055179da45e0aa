-------------------------- MODULE ProofPaths_proofs --------------------------
(***************************************************************************)
(* Theorems about proof paths: what Verify accepts the ledger holds, a      *)
(* mined path becomes a file the backend accepts, and a stored path whose   *)
(* encoding is within the limit is loaded again.                            *)
(***************************************************************************)
EXTENDS ProofPaths, Sums, FiniteSetTheorems, SequenceTheorems, TLAPS

Outpoints == Created(TxNames)

BlockRec == [id : Nat \X Nat, txs : SUBSET TxNames]

ProofRec ==
    {p \in [tx : TxNames, out : Nat, block : BlockRec, merged : SUBSET Outpoints] :
        Outpoint(p) \in Outpoints}

StepRec ==
    {p \in [tx : TxNames, out : Nat, prev : Outpoints, co : Nat] :
        Outpoint(p) \in Outpoints}

File == [proofs : Seq(ProofRec) \ {<<>>}, embedded : SUBSET Seq(ProofRec)]

Node == [base : File, steps : Seq(StepRec)]

Position == Seq(Nat \X Nat)

(* A path is a finite tree: every position but the root lies below a step of *)
(* the root, and every co-input path a step declares is there.               *)
PathOK(path) ==
    /\ path \in [DOMAIN path -> Node]
    /\ IsFiniteSet(DOMAIN path)
    /\ DOMAIN path \subseteq Position
    /\ Root \in DOMAIN path
    /\ \A q \in DOMAIN path :
          /\ q # Root => Head(q)[1] <= Len(path[Root].steps)
          /\ \A i \in DOMAIN path[q].steps : CoPositions(path, q, i) \subseteq DOMAIN path

(* A stored blob is the encoding of a valid path, its outer checksum perhaps *)
(* damaged.                                                                  *)
BlobNode == [base : File, steps : Seq(StepRec), size : Nat, sum : BOOLEAN]

BlobOK(blob) ==
    /\ blob \in [DOMAIN blob -> BlobNode]
    /\ PathOK(Decode(blob))
    /\ Validate(Decode(blob))
    /\ \A q \in DOMAIN blob :
          /\ blob[q].size = EncodedSize(Decode(blob), q)
          /\ q # Root => blob[q].sum

TypeOK ==
    /\ graph \in SUBSET TxNames
    /\ chain \in Seq(BlockRec) /\ chain # <<>>
    /\ reorgs \in Nat
    /\ DOMAIN confirmations \subseteq TxNames
    /\ confirmations \in [DOMAIN confirmations -> BlockRec]
    /\ DOMAIN held = Slots /\ DOMAIN stored = Slots

HeldOK == \A s \in Slots : held[s] # None => PathOK(held[s])

StoredOK == \A s \in Slots : stored[s] # None => BlobOK(stored[s])

(* The signed transactions and the mined ones can all be mined together, and *)
(* every recorded block has the transaction it is recorded for.              *)
WorldOK ==
    /\ graph # {} => \A t, u \in graph \cup ChainTxs : ~Conflicting(t, u)
    /\ \A t \in DOMAIN confirmations : t \in confirmations[t].txs

Inv == TypeOK /\ HeldOK /\ StoredOK /\ WorldOK

-----------------------------------------------------------------------------
(* The ledger: it is complete, and transactions only add to it.             *)

(* The constant that holds all ledgers has the ledger of every set of       *)
(* transactions.                                                             *)
LEMMA LedgerIsLedgerOf ==
  ASSUME NEW txs \in SUBSET TxNames
  PROVE  Ledger(txs) = LedgerOf(txs)
<1>1. LedgerOf(txs) \subseteq Created(txs)
  BY DEF LedgerOf
<1>2. ASSUME NEW o
      PROVE  <<txs, o>> \in Ledgers <=> o \in LedgerOf(txs)
  <2> DEFINE Entries(t) == {<<t, p>> : p \in LedgerOf(t)}
  <2>1. <<txs, o>> \in Ledgers <=>
          \E t \in SUBSET TxNames : \E p \in LedgerOf(t) : <<txs, o>> = <<t, p>>
    <3>1. Ledgers = UNION {Entries(t) : t \in SUBSET TxNames}
      BY DEF Ledgers
    <3>2. ASSUME NEW t
          PROVE  <<txs, o>> \in Entries(t) <=> \E p \in LedgerOf(t) : <<txs, o>> = <<t, p>>
      OBVIOUS
    <3> HIDE DEF Entries
    <3>3. <<txs, o>> \in Ledgers <=> \E t \in SUBSET TxNames : <<txs, o>> \in Entries(t)
      BY <3>1
    <3> QED
      BY <3>2, <3>3, Zenon
  <2>2. ASSUME NEW t, NEW p, <<txs, o>> = <<t, p>>
        PROVE  t = txs /\ p = o
    BY <2>2
  <2>3. ASSUME NEW t \in SUBSET TxNames, NEW p \in LedgerOf(t), <<txs, o>> = <<t, p>>
        PROVE  o \in LedgerOf(txs)
    BY ONLY <2>2, <2>3, Zenon
  <2> QED
    BY <2>1, <2>3, Zenon
<1> QED
  BY <1>1, <1>2 DEF Ledger

(* An outpoint is in the ledger when every complete set has it.              *)
LEMMA LedgerIsLeast ==
  ASSUME NEW txs \in SUBSET TxNames, NEW o \in Created(txs)
  PROVE  o \in Ledger(txs) <=>
           \A known \in SUBSET Created(txs) : Complete(known, txs) => o \in known
BY LedgerIsLedgerOf DEF LedgerOf

LEMMA LedgerIsCreated ==
  ASSUME NEW txs \in SUBSET TxNames
  PROVE  Ledger(txs) \subseteq Created(txs)
BY DEF Ledger

(* What is genuine given some assets is genuine given more.                  *)
LEMMA GenuineMonotone ==
  ASSUME NEW o, NEW known, NEW more, known \subseteq more, Genuine(o, known)
  PROVE  Genuine(o, more)
BY DEF Genuine

(* The ledger has every output that is genuine given the ledger.             *)
LEMMA LedgerTakesGenuine ==
  ASSUME NEW txs \in SUBSET TxNames, NEW o \in Created(txs \ Mints),
         Genuine(o, Ledger(txs))
  PROVE  o \in Ledger(txs)
<1>1. o \in Created(txs)
  BY DEF Created
<1>2. ASSUME NEW known \in SUBSET Created(txs), Complete(known, txs)
      PROVE  o \in known
  <2>1. Ledger(txs) \subseteq known
    BY <1>2, LedgerIsLeast, LedgerIsCreated
  <2> QED
    BY <2>1, <1>2, GenuineMonotone DEF Complete
<1> QED
  BY <1>1, <1>2, LedgerIsLeast

(* The ledger of more transactions has everything the smaller one has.       *)
LEMMA LedgerMonotone ==
  ASSUME NEW txs \in SUBSET TxNames, NEW more \in SUBSET TxNames, txs \subseteq more
  PROVE  Ledger(txs) \subseteq Ledger(more)
<1> SUFFICES ASSUME NEW o \in Ledger(txs)
             PROVE  o \in Ledger(more)
  OBVIOUS
<1>1. o \in Created(txs) /\ o \in Created(more)
  BY LedgerIsCreated DEF Created
<1>2. ASSUME NEW known \in SUBSET Created(more), Complete(known, more)
      PROVE  o \in known
  <2> DEFINE old == known \cap Created(txs)
  <2>1. Created(txs \cap Mints) \subseteq old
    BY <1>2 DEF Complete, Created
  <2>2. ASSUME NEW p \in Created(txs \ Mints), Genuine(p, old)
        PROVE  p \in old
    <3>1. p \in Created(more \ Mints) /\ p \in Created(txs)
      BY DEF Created
    <3>2. Genuine(p, known)
      BY <2>2, GenuineMonotone
    <3> QED
      BY <3>1, <3>2, <1>2 DEF Complete
  <2>3. Complete(old, txs)
    BY <2>1, <2>2 DEF Complete
  <2> QED
    BY <2>3, <1>1, LedgerIsLeast
<1> QED
  BY <1>1, <1>2, LedgerIsLeast

-----------------------------------------------------------------------------
(* Tips: the asset states a node goes through.                               *)

\* The node of a path, typed, with every fact about its sequences.
LEMMA NodeParts ==
  ASSUME NEW path, PathOK(path), NEW q \in DOMAIN path
  PROVE  /\ path[q] \in Node
         /\ path[q].base \in File
         /\ path[q].base.proofs \in Seq(ProofRec) /\ path[q].base.proofs # <<>>
         /\ path[q].steps \in Seq(StepRec)
BY DEF PathOK, Node, File

LEMMA LastIsElement ==
  ASSUME NEW S, NEW seq \in Seq(S), seq # <<>>
  PROVE  /\ Len(seq) \in Nat \ {0}
         /\ Len(seq) \in DOMAIN seq
         /\ Last(seq) = seq[Len(seq)]
         /\ Last(seq) \in S
BY DEF Last

(* Before every step, and after the last one, a node selects an output that  *)
(* exists.                                                                   *)
LEMMA TipTypes ==
  ASSUME NEW node \in Node, NEW i \in 1..(Len(node.steps) + 1)
  PROVE  TipBefore(node, i) \in Outpoints
<1>1. node.base.proofs \in Seq(ProofRec) /\ node.base.proofs # <<>>
      /\ node.steps \in Seq(StepRec)
  BY DEF Node, File
<1>2. CASE i = 1
  <2>1. Last(node.base.proofs) \in ProofRec
    BY <1>1, LastIsElement
  <2> QED
    BY <2>1, <1>2 DEF TipBefore, ProofRec
<1>3. CASE i # 1
  <2>1. i - 1 \in 1..Len(node.steps)
    BY <1>3, <1>1
  <2>2. node.steps[i - 1] \in StepRec
    BY <2>1, <1>1
  <2> QED
    BY <2>2, <1>3 DEF TipBefore, StepRec
<1> QED
  BY <1>2, <1>3

LEMMA TipType ==
  ASSUME NEW node \in Node
  PROVE  Tip(node) \in Outpoints
<1>1. node.steps \in Seq(StepRec)
  BY DEF Node
<1>2. Len(node.steps) + 1 \in 1..(Len(node.steps) + 1)
  BY <1>1
<1> QED
  BY <1>2, TipTypes DEF Tip

(* A co-input path is a node of the tree, one level deeper.                  *)
LEMMA CoPositionsBelow ==
  ASSUME NEW path, PathOK(path), NEW q \in DOMAIN path,
         NEW i \in DOMAIN path[q].steps, NEW r \in CoPositions(path, q, i)
  PROVE  /\ r \in DOMAIN path /\ r # Root
         /\ Len(q) \in Nat /\ Len(r) = Len(q) + 1
<1>1. q \in Position /\ r \in DOMAIN path
  BY DEF PathOK
<1>2. PICK j \in 1..path[q].steps[i].co : r = Append(q, <<i, j>>)
  BY DEF CoPositions
<1> QED
  BY <1>1, <1>2 DEF Position, Root

LEMMA CoTipsExist ==
  ASSUME NEW path, PathOK(path), NEW q \in DOMAIN path,
         NEW i \in DOMAIN path[q].steps
  PROVE  CoTips(path, q, i) \subseteq Outpoints
BY CoPositionsBelow, NodeParts, TipType DEF CoTips

(* Nothing a valid path goes through is locked.                              *)
LEMMA TipUnlocked ==
  ASSUME NEW path, PathOK(path), ValidateContent(path), NEW q \in DOMAIN path,
         NEW i \in 1..(Len(path[q].steps) + 1)
  PROVE  ~Asset(TipBefore(path[q], i)).locked
<1>1. path[q].steps \in Seq(StepRec)
  BY NodeParts
<1>2. CASE i = 1
  BY <1>2 DEF ValidateContent, TipBefore
<1>3. CASE i # 1
  <2>1. i - 1 \in DOMAIN path[q].steps
    BY <1>1, <1>3
  <2>2. StepDecodes(path[q].steps[i - 1])
    BY <2>1 DEF ValidateContent
  <2> QED
    BY <2>2, <1>3 DEF StepDecodes, TipBefore, Asset, Outpoint
<1> QED
  BY <1>2, <1>3

LEMMA TipIsUnlocked ==
  ASSUME NEW path, PathOK(path), ValidateContent(path), NEW q \in DOMAIN path
  PROVE  ~Asset(Tip(path[q])).locked
<1>1. Len(path[q].steps) + 1 \in 1..(Len(path[q].steps) + 1)
  BY NodeParts
<1> QED
  BY <1>1, TipUnlocked DEF Tip

LEMMA CountedIsElement ==
  ASSUME NEW seq, NEW x, CountIn(seq, x) = 1
  PROVE  x \in ToSet(seq)
<1>1. {i \in DOMAIN seq : seq[i] = x} # {}
  BY FS_EmptySet DEF CountIn
<1> QED
  BY <1>1 DEF ToSet

(* A step whose inputs are all in the ledger of some transactions, its own   *)
(* among them, adds its output to that ledger.                               *)
LEMMA StepInLedger ==
  ASSUME NEW path, PathOK(path), ValidateContent(path),
         NEW attested, NEW q \in DOMAIN path, NEW i \in DOMAIN path[q].steps,
         VerifyStep(path, q, i, attested),
         NEW txs \in SUBSET TxNames, path[q].steps[i].tx \in txs,
         TipBefore(path[q], i) \in Ledger(txs),
         CoTips(path, q, i) \subseteq Ledger(txs)
  PROVE  Outpoint(path[q].steps[i]) \in Ledger(txs)
<1> DEFINE step == path[q].steps[i]
           previous == TipBefore(path[q], i)
           expected == {previous} \cup CoTips(path, q, i)
           o == Outpoint(step)
           spent == ToSet(Transactions[step.tx].witnesses)
<1>1. step \in StepRec /\ i \in 1..(Len(path[q].steps) + 1)
  BY NodeParts
<1>2. StepDecodes(step)
  BY DEF ValidateContent
<1>3. o \in Created(txs \ Mints)
  <2>1. o \in Outpoints /\ o[1] = step.tx /\ step.tx \notin Mints
    BY <1>1, <1>2 DEF StepRec, StepDecodes, Outpoint
  <2> QED
    BY <2>1 DEF Outpoints, Created, OutputsOf
<1>4. spent = expected
  BY DEF VerifyStep, StepInputBinding
<1>5. spent \subseteq ToSet(Transactions[step.tx].inputs) \cap Ledger(txs)
  <2>1. AnchorSpend(step, expected)
    BY DEF VerifyStep
  <2> QED
    BY <2>1, <1>4, CountedIsElement DEF AnchorSpend
<1>6. ASSUME NEW a \in spent
      PROVE  ~Asset(a).locked /\ SameIdentity(Asset(a), Asset(o))
  <2>1. SameIdentity(Asset(previous), Asset(o))
    BY DEF VerifyStep, IdentityKept
  <2>2. CASE a = previous
    BY <2>1, <2>2, <1>1, TipUnlocked
  <2>3. CASE a \in CoTips(path, q, i)
    <3>1. SameIdentity(Asset(previous), Asset(a))
      BY <2>3 DEF VerifyStep
    <3>2. PICK r \in CoPositions(path, q, i) : a = Tip(path[r])
      BY <2>3 DEF CoTips
    <3>3. ~Asset(a).locked
      BY <3>2, CoPositionsBelow, TipIsUnlocked
    <3> QED
      BY <2>1, <3>1, <3>3 DEF SameIdentity
  <2> QED
    BY <2>2, <2>3, <1>4
<1>7. TotalOf(spent) = TotalOf(OutputsOf(step.tx))
  <2>1. NativelyValid(step, previous, expected)
    BY DEF VerifyStep
  <2> QED
    BY <2>1, <1>4 DEF NativelyValid
<1>8. Genuine(o, Ledger(txs))
  <2>1. o[1] = step.tx
    BY DEF Outpoint
  <2> HIDE DEF o, step
  <2> QED
    BY <1>5, <1>6, <1>7, <2>1 DEF Genuine
<1> QED
  BY <1>3, <1>8, LedgerTakesGenuine

(* The induction over a tree: when the bases are in the ledger of some       *)
(* transactions and these have all anchors, every asset state on the way is. *)
LEMMA TipsInLedger ==
  ASSUME NEW path, PathOK(path), Validate(path),
         NEW attested, VerifyChain(path, attested),
         NEW txs \in SUBSET TxNames, AnchorTxs(path) \subseteq txs,
         \A q \in DOMAIN path : Outpoint(Last(path[q].base.proofs)) \in Ledger(txs)
  PROVE  \A q \in DOMAIN path : Tip(path[q]) \in Ledger(txs)
<1> DEFINE Bad == {q \in DOMAIN path : Tip(path[q]) \notin Ledger(txs)}
           depths == {MaxNesting - Len(q) : q \in Bad}
<1> SUFFICES ASSUME Bad # {} PROVE FALSE
  OBVIOUS
<1>1. ASSUME NEW q \in DOMAIN path
      PROVE  Len(q) \in Nat /\ Len(q) <= MaxNesting
  BY <1>1, LimitAssumption DEF Validate, ValidateShape, ShapeWithin, PathOK, Position
<1>2. PICK q \in Bad : \A r \in Bad : Len(r) <= Len(q)
  <2>1. depths \subseteq Int /\ depths # {} /\ IsFiniteSet(depths)
    <3>1. depths \subseteq 0..MaxNesting
      BY <1>1, LimitAssumption
    <3>2. IsFiniteSet(0..MaxNesting)
      BY FS_Interval, LimitAssumption
    <3>3. depths # {}
      OBVIOUS
    <3>4. depths \subseteq Int
      BY <3>1
    <3> HIDE DEF depths
    <3>5. IsFiniteSet(depths)
      BY <3>1, <3>2, FS_Subset
    <3> QED
      BY <3>3, <3>4, <3>5
  <2> HIDE DEF depths
  <2>2. PICK d \in depths : \A e \in depths : d <= e
    BY <2>1, LeastElement
  <2> USE DEF depths
  <2>3. PICK q \in Bad : d = MaxNesting - Len(q)
    OBVIOUS
  <2>4. ASSUME NEW r \in Bad
        PROVE  Len(r) <= Len(q)
    <3>1. d <= MaxNesting - Len(r)
      BY <2>2
    <3> QED
      BY <3>1, <2>3, <1>1, LimitAssumption
  <2> QED
    BY <2>4
<1> DEFINE n == Len(path[q].steps)
           late == {i \in 1..(n + 1) : TipBefore(path[q], i) \notin Ledger(txs)}
<1>3. n \in Nat /\ DOMAIN path[q].steps = 1..n
  BY NodeParts
<1>4. PICK i \in late : \A k \in late : i <= k
  <2>1. late # {}
    BY <1>3 DEF Tip
  <2>2. late \subseteq Int /\ IsFiniteSet(late)
    <3>1. IsFiniteSet(1..(n + 1)) /\ late \subseteq 1..(n + 1)
      <4>1. 1 \in Int /\ n + 1 \in Int
        BY <1>3
      <4>2. late \subseteq 1..(n + 1)
        OBVIOUS
      <4> HIDE DEF late, n
      <4>3. IsFiniteSet(1..(n + 1))
        BY <4>1, FS_Interval
      <4> QED
        BY <4>2, <4>3
    <3>2. late \subseteq Int
      BY <3>1, <1>3
    <3>3. IsFiniteSet(late)
      <4> HIDE DEF late, n
      <4> QED
        BY <3>1, FS_Subset
    <3> QED
      BY <3>2, <3>3
  <2> QED
    BY <2>1, <2>2, LeastElement
<1>5. i # 1
  BY DEF TipBefore
<1>6. i - 1 \in 1..n /\ i - 1 \in 1..(n + 1)
  BY <1>3, <1>5
<1>7. TipBefore(path[q], i - 1) \in Ledger(txs)
  BY <1>4, <1>6, <1>3
<1>8. CoTips(path, q, i - 1) \subseteq Ledger(txs)
  <2>1. ASSUME NEW r \in CoPositions(path, q, i - 1)
        PROVE  Tip(path[r]) \in Ledger(txs)
    <3>1. r \in DOMAIN path /\ Len(r) = Len(q) + 1 /\ Len(q) \in Nat
      BY <1>3, <1>6, CoPositionsBelow
    <3>2. r \notin Bad
      BY <3>1, <1>2
    <3> QED
      BY <3>1, <3>2
  <2> QED
    BY <2>1 DEF CoTips
<1>9. path[q].steps[i - 1].tx \in txs
  BY <1>3, <1>6 DEF AnchorTxs
<1>10. VerifyStep(path, q, i - 1, attested) /\ ValidateContent(path)
  BY <1>3, <1>6 DEF VerifyChain, Validate
<1>11. Outpoint(path[q].steps[i - 1]) \in Ledger(txs)
  BY <1>3, <1>6, <1>7, <1>8, <1>9, <1>10, StepInLedger
<1> QED
  BY <1>11, <1>5, <1>4 DEF TipBefore

-----------------------------------------------------------------------------
(* The trees the host builds.                                                *)

LEMMA FileOfMint ==
  ASSUME NEW mint \in Mints
  PROVE  MintFile(mint) \in File
<1> DEFINE p == [tx |-> mint, out |-> 1, block |-> Genesis, merged |-> {}]
<1>1. mint \in TxNames /\ Genesis \in BlockRec
  BY DEF Mints, Genesis, BlockRec
<1>2. 1 \in DOMAIN Transactions[mint].outputs
  BY <1>1, OutputAssumption
<1>3. <<mint, 1>> \in Outpoints
  BY <1>1, <1>2 DEF Outpoints, Created, OutputsOf
<1>4. p \in ProofRec
  BY <1>1, <1>3 DEF ProofRec, Outpoint
<1> HIDE DEF p
<1>5. <<p>> \in Seq(ProofRec) \ {<<>>}
  BY <1>4
<1>6. MintFile(mint) = [proofs |-> <<p>>, embedded |-> {}]
  BY DEF MintFile, p
<1> QED
  BY <1>5, <1>6 DEF File

LEMMA UnextendedOK ==
  ASSUME NEW file \in File
  PROVE  PathOK(Unextended(file)) /\ Unextended(file)[Root].base = file
<1> DEFINE path == Unextended(file)
           node == [base |-> file, steps |-> <<>>]
<1>1. DOMAIN path = {Root} /\ path[Root] = node
  BY DEF Unextended
<1>2. node \in Node
  BY DEF Node
<1>3. path \in [DOMAIN path -> Node]
  BY <1>2 DEF Unextended
<1>4. IsFiniteSet({Root}) /\ {Root} \subseteq Position
  <2>1. IsFiniteSet({Root})
    BY FS_Singleton
  <2>2. Root \in Position
    BY DEF Root, Position
  <2> QED
    BY <2>1, <2>2
<1>5. DOMAIN path[Root].steps = {}
  BY <1>1
<1> HIDE DEF path
<1>6. PathOK(path)
  BY <1>1, <1>3, <1>4, <1>5 DEF PathOK
<1> QED
  BY <1>1, <1>6 DEF path

\* An element put before a sequence.
LEMMA PrefixedSeq ==
  ASSUME NEW S, NEW x \in S, NEW s \in Seq(S), Len(s) = 1, s[1] = x, NEW r \in Seq(S)
  PROVE  /\ s \o r \in Seq(S)
         /\ s \o r # <<>>
         /\ Head(s \o r) = x
         /\ Tail(s \o r) = r
<1>1. Len(r) \in Nat
  OBVIOUS
<1>3. /\ s \o r \in Seq(S)
      /\ Len(s \o r) = Len(s) + Len(r)
      /\ \A k \in 1..(Len(s) + Len(r)) :
            (s \o r)[k] = IF k <= Len(s) THEN s[k] ELSE r[k - Len(s)]
  BY ConcatProperties, Zenon
<1> DEFINE t == s \o r
<1>4. /\ t \in Seq(S) /\ Len(t) = 1 + Len(r)
      /\ \A k \in 1..(1 + Len(r)) : t[k] = IF k <= 1 THEN s[k] ELSE r[k - 1]
  <2>1. /\ t \in Seq(S)
        /\ Len(t) = Len(s) + Len(r)
        /\ \A k \in 1..(Len(s) + Len(r)) :
              t[k] = IF k <= Len(s) THEN s[k] ELSE r[k - Len(s)]
    BY <1>3, Zenon
  <2> HIDE DEF t
  <2> QED
    BY <2>1
<1> HIDE DEF t
<1>5. t # <<>>
  BY <1>4, <1>1
<1>6. Head(t) = x
  BY <1>1, <1>4
<1>7. Tail(t) = r
  <2>1. /\ Tail(t) \in Seq(S) /\ Len(Tail(t)) = Len(r)
        /\ \A k \in 1..Len(r) : Tail(t)[k] = t[k + 1]
    BY <1>1, <1>4, <1>5, HeadTailProperties
  <2>2. \A k \in 1..Len(r) : Tail(t)[k] = r[k]
    BY <1>1, <1>4, <2>1
  <2> QED
    BY <2>1, <2>2, SeqEqual
<1> USE DEF t
<1> QED
  BY <1>4, <1>5, <1>6, <1>7, Zenon

\* A position below another one.
LEMMA Prefixed ==
  ASSUME NEW x \in Nat \X Nat, NEW r \in Position
  PROVE  /\ <<x>> \o r \in Position
         /\ <<x>> \o r # Root
         /\ Head(<<x>> \o r) = x
         /\ Tail(<<x>> \o r) = r
         /\ \A y \in Nat \X Nat : Append(<<x>> \o r, y) = <<x>> \o Append(r, y)
<1>1. ASSUME NEW y \in Nat \X Nat
      PROVE  Append(<<x>> \o r, y) = <<x>> \o Append(r, y)
  BY DEF Position
<1>2. /\ <<x>> \o r \in Position
      /\ <<x>> \o r # <<>>
      /\ Head(<<x>> \o r) = x
      /\ Tail(<<x>> \o r) = r
  <2> DEFINE S == Nat \X Nat
             s == <<x>>
  <2>1. r \in Seq(S)
    BY DEF Position
  <2>2. x \in S
    OBVIOUS
  <2> HIDE DEF S
  <2>3. s \in Seq(S) /\ Len(s) = 1 /\ s[1] = x
    BY <2>2
  <2> HIDE DEF s
  <2>4. /\ s \o r \in Seq(S)
        /\ s \o r # <<>>
        /\ Head(s \o r) = x
        /\ Tail(s \o r) = r
    BY <2>1, <2>2, <2>3, PrefixedSeq
  <2> USE DEF s, S
  <2> QED
    BY <2>4, Zenon DEF Position
<1> QED
  BY <1>1, <1>2, Zenon DEF Root

LEMMA FiniteGraft ==
  ASSUME NEW path, PathOK(path), NEW n, NEW j
  PROVE  IsFiniteSet(Grafted(path, n, j))
<1>1. IsFiniteSet(DOMAIN path)
  BY DEF PathOK
<1> DEFINE f == [r \in DOMAIN path |-> <<<<n, j>>>> \o r]
<1>2. IsFiniteSet({f[r] : r \in DOMAIN path})
  BY <1>1, FiniteImage
<1>3. {f[r] : r \in DOMAIN path} = Grafted(path, n, j)
  BY DEF Grafted
<1> QED
  BY <1>2, <1>3

\* The nodes of new: those of path with one step more at the root, and those
\* of the merged paths below that step.
ExtendedNodes(new, path, step, coPaths, n) ==
    /\ n \in Nat
    /\ DOMAIN new = DOMAIN path \cup
                      (UNION {Grafted(coPaths[j], n, j) : j \in DOMAIN coPaths})
    /\ new = [q \in DOMAIN new |-> new[q]]
    /\ new[Root] = [path[Root] EXCEPT !.steps = Append(@, step)]
    /\ \A q \in DOMAIN path \ {Root} : new[q] = path[q]
    /\ \A j \in DOMAIN coPaths : \A r \in DOMAIN coPaths[j] :
          /\ <<<<n, j>>>> \o r \in DOMAIN new
          /\ new[<<<<n, j>>>> \o r] = coPaths[j][r]

LEMMA ExtendedHasNodes ==
  ASSUME NEW path, PathOK(path), NEW step,
         NEW coPaths, NEW m \in Nat, DOMAIN coPaths = 1..m,
         \A j \in 1..m : PathOK(coPaths[j])
  PROVE  ExtendedNodes(Extended(path, step, coPaths), path, step, coPaths,
                       Len(path[Root].steps) + 1)
<1> DEFINE n == Len(path[Root].steps) + 1
           new == Extended(path, step, coPaths)
<1>1. n \in Nat /\ Root \in DOMAIN path
  BY NodeParts DEF PathOK
<1> DEFINE D == DOMAIN path \cup (UNION {Grafted(coPaths[j], n, j) : j \in 1..m})
<1>2. new = [q \in D |->
               IF q = Root THEN [path[Root] EXCEPT !.steps = Append(@, step)]
               ELSE IF Head(q)[1] = n THEN coPaths[Head(q)[2]][Tail(q)] ELSE path[q]]
  BY DEF Extended
<1>3. ASSUME NEW q \in DOMAIN path \ {Root}
      PROVE  new[q] = path[q]
  <2>1. Head(q)[1] # n
    <3>1. Head(q)[1] <= Len(path[Root].steps)
      BY DEF PathOK
    <3>2. Len(path[Root].steps) \in Nat
      BY <1>1, NodeParts
    <3> QED
      BY <3>1, <3>2
  <2> QED
    BY <1>2, <2>1
<1>4. ASSUME NEW j \in 1..m, NEW r \in DOMAIN coPaths[j]
      PROVE  /\ <<<<n, j>>>> \o r \in D
             /\ new[<<<<n, j>>>> \o r] = coPaths[j][r]
  <2> DEFINE q == <<<<n, j>>>> \o r
  <2>1. <<n, j>> \in Nat \X Nat /\ r \in Position
    BY <1>1 DEF PathOK
  <2>2. q # Root /\ Head(q) = <<n, j>> /\ Tail(q) = r
    BY <2>1, Prefixed
  <2>3. q \in D
    <3>1. q \in Grafted(coPaths[j], n, j)
      BY DEF Grafted
    <3> HIDE DEF q
    <3> QED
      BY <3>1
  <2> HIDE DEF q, D
  <2>4. Head(q)[1] = n /\ Head(q)[2] = j
    BY <2>2
  <2>5. new[q] = coPaths[Head(q)[2]][Tail(q)]
    BY <1>2, <2>2, <2>3, <2>4
  <2>6. q \in D /\ new[q] = coPaths[j][r]
    BY <2>2, <2>3, <2>4, <2>5
  <2> QED
    BY <2>6 DEF q
<1>5. DOMAIN new = D
  BY <1>2
<1>6. Root \in D /\ new = [q \in DOMAIN new |-> new[q]]
  BY <1>1, <1>2
<1> HIDE DEF D
<1>7. new[Root] = [path[Root] EXCEPT !.steps = Append(@, step)]
  BY <1>2, <1>6
<1> HIDE DEF new
<1> QED
  <2>1. DOMAIN new = DOMAIN path \cup
                     (UNION {Grafted(coPaths[j], n, j) : j \in DOMAIN coPaths})
    BY <1>5 DEF D
  <2>2. \A j \in DOMAIN coPaths : \A r \in DOMAIN coPaths[j] :
           /\ <<<<n, j>>>> \o r \in DOMAIN new
           /\ new[<<<<n, j>>>> \o r] = coPaths[j][r]
    BY <1>4, <1>5
  <2>3. \A q \in DOMAIN path \ {Root} : new[q] = path[q]
    BY <1>3
  <2>4. new = [q \in DOMAIN new |-> new[q]]
    BY <1>6
  <2> HIDE DEF n
  <2>5. ExtendedNodes(new, path, step, coPaths, n)
    BY <1>1, <1>7, <2>1, <2>2, <2>3, <2>4 DEF ExtendedNodes
  <2> QED
    BY <2>5 DEF new, n

(* Appending a step with the paths it merges gives a tree again.             *)
LEMMA ExtendedOK ==
  ASSUME NEW path, PathOK(path), NEW step \in StepRec,
         NEW coPaths, DOMAIN coPaths = 1..step.co,
         \A j \in 1..step.co : PathOK(coPaths[j])
  PROVE  PathOK(Extended(path, step, coPaths))
<1> DEFINE m == step.co
           n == Len(path[Root].steps) + 1
           new == Extended(path, step, coPaths)
           old == DOMAIN path
           graft == UNION {Grafted(coPaths[j], n, j) : j \in 1..m}
<1>1. m \in Nat
  BY DEF StepRec
<1>0. /\ DOMAIN coPaths = 1..m /\ \A j \in 1..m : PathOK(coPaths[j])
      /\ n = Len(path[Root].steps) + 1 /\ new = Extended(path, step, coPaths)
  OBVIOUS
<1> HIDE DEF m, n, new
<1>2. /\ n \in Nat
      /\ DOMAIN new = old \cup graft
      /\ new = [q \in DOMAIN new |-> new[q]]
      /\ new[Root] = [path[Root] EXCEPT !.steps = Append(@, step)]
      /\ \A q \in old \ {Root} : new[q] = path[q]
      /\ \A j \in 1..m : \A r \in DOMAIN coPaths[j] :
            /\ <<<<n, j>>>> \o r \in DOMAIN new
            /\ new[<<<<n, j>>>> \o r] = coPaths[j][r]
  <2>1. ExtendedNodes(new, path, step, coPaths, n)
    BY <1>0, <1>1, ExtendedHasNodes
  <2> QED
    BY <2>1, <1>0 DEF ExtendedNodes, graft
<1>3. /\ Root \in old /\ old \subseteq Position
      /\ path[Root] \in Node /\ path[Root].steps \in Seq(StepRec)
  BY NodeParts DEF PathOK
<1>4. /\ new[Root].base = path[Root].base
      /\ new[Root].steps = Append(path[Root].steps, step)
      /\ new[Root] \in Node
  <2>1. path[Root] \in [base : File, steps : Seq(StepRec)]
    BY <1>3 DEF Node
  <2>2. /\ new[Root].base = path[Root].base
        /\ new[Root].steps = Append(path[Root].steps, step)
        /\ new[Root] = [base |-> path[Root].base,
                        steps |-> Append(path[Root].steps, step)]
    BY <2>1, <1>2
  <2>3. Append(path[Root].steps, step) \in Seq(StepRec)
    BY <1>3
  <2> QED
    BY <2>1, <2>2, <2>3 DEF Node
<1>5. Len(new[Root].steps) = n
  BY <1>0, <1>3, <1>4
<1> HIDE DEF graft
<1>6. ASSUME NEW q \in graft
      PROVE  \E j \in 1..m : \E r \in DOMAIN coPaths[j] : q = <<<<n, j>>>> \o r
  BY DEF graft, Grafted
<1>7. ASSUME NEW q \in DOMAIN new
      PROVE  new[q] \in Node /\ q \in Position
  <2>1. CASE q = Root
    BY <2>1, <1>3, <1>4
  <2>2. CASE q \in old \ {Root}
    BY <2>2, <1>2, <1>3, NodeParts
  <2>3. CASE q \in graft
    <3>1. PICK j \in 1..m : \E r \in DOMAIN coPaths[j] : q = <<<<n, j>>>> \o r
      BY <2>3, <1>6
    <3>2. PICK r \in DOMAIN coPaths[j] : q = <<<<n, j>>>> \o r
      BY <3>1
    <3>3. PathOK(coPaths[j])
      BY DEF m
    <3>4. new[q] = coPaths[j][r] /\ coPaths[j][r] \in Node /\ r \in Position
      BY <3>2, <3>3, <1>2, NodeParts DEF PathOK
    <3>5. <<n, j>> \in Nat \X Nat
      BY <1>1, <1>2
    <3> QED
      BY <3>2, <3>4, <3>5, Prefixed
  <2> QED
    BY <2>1, <2>2, <2>3, <1>2
<1>8. IsFiniteSet(DOMAIN new)
  <2>1. IsFiniteSet(old)
    BY DEF PathOK
  <2>2. IsFiniteSet(graft)
    <3> DEFINE f == [j \in 1..m |-> Grafted(coPaths[j], n, j)]
    <3>1. IsFiniteSet({f[j] : j \in 1..m})
      <4>1. IsFiniteSet(1..m)
        BY <1>1, FS_Interval
      <4> HIDE DEF f
      <4> QED
        BY <4>1, FiniteImage
    <3>2. \A T \in {f[j] : j \in 1..m} : IsFiniteSet(T)
      BY FiniteGraft DEF m
    <3>3. IsFiniteSet(UNION {f[j] : j \in 1..m})
      <4> HIDE DEF f
      <4> QED
        BY <3>1, <3>2, FS_UNION
    <3>4. UNION {f[j] : j \in 1..m} = graft
      BY DEF graft
    <3> QED
      BY <3>3, <3>4
  <2> QED
    <3>1. IsFiniteSet(old \cup graft)
      BY <2>1, <2>2, FS_Union
    <3> QED
      BY <3>1, <1>2
<1>9. ASSUME NEW q \in DOMAIN new, q # Root
      PROVE  Head(q)[1] <= Len(new[Root].steps)
  <2>1. CASE q \in old
    <3>1. Head(q)[1] <= Len(path[Root].steps)
      BY <2>1, <1>9 DEF PathOK
    <3>2. Head(q) \in Nat \X Nat
      BY <2>1, <1>3, <1>9 DEF Position, Root
    <3>3. Len(path[Root].steps) \in Nat
      BY <1>3
    <3> QED
      BY <3>1, <3>2, <3>3, <1>5 DEF n
  <2>2. CASE q \in graft
    <3>1. PICK j \in 1..m : \E r \in DOMAIN coPaths[j] : q = <<<<n, j>>>> \o r
      BY <2>2, <1>6
    <3>2. PICK r \in DOMAIN coPaths[j] : q = <<<<n, j>>>> \o r
      BY <3>1
    <3>3. <<n, j>> \in Nat \X Nat /\ r \in Position
      BY <1>1, <1>2 DEF PathOK, m
    <3>4. Head(q) = <<n, j>>
      BY <3>2, <3>3, Prefixed
    <3> QED
      BY <3>4, <1>5, <1>2
  <2> QED
    BY <2>1, <2>2, <1>2
<1>10. ASSUME NEW q \in DOMAIN new, NEW i \in DOMAIN new[q].steps,
              NEW p \in CoPositions(new, q, i)
       PROVE  p \in DOMAIN new
  <2>1. PICK k \in 1..new[q].steps[i].co : p = Append(q, <<i, k>>)
    BY DEF CoPositions
  <2>2. new[q] \in Node /\ new[q].steps \in Seq(StepRec) /\ new[q].steps[i] \in StepRec
    BY <1>7 DEF Node
  <2>3. <<i, k>> \in Nat \X Nat
    BY <2>2 DEF StepRec
  <2>4. CASE q = Root /\ i = n
    <3>1. new[q].steps[i] = step
      BY <2>4, <1>3, <1>4 DEF n
    <3>2. k \in 1..m /\ p = <<<<n, k>>>>
      BY <2>1, <2>4, <3>1 DEF m, Root
    <3>3. Root \in DOMAIN coPaths[k]
      BY <3>2 DEF PathOK, m
    <3>4. <<<<n, k>>>> \o Root = <<<<n, k>>>>
      BY <1>1, <1>2, <3>2 DEF Root
    <3>5. <<<<n, k>>>> \o Root \in DOMAIN new
      BY <3>2, <3>3, <1>2
    <3> QED
      BY <3>2, <3>4, <3>5
  <2>5. CASE q = Root /\ i # n
    <3>1. i \in DOMAIN path[Root].steps /\ new[q].steps[i] = path[Root].steps[i]
      BY <2>5, <1>3, <1>4 DEF n
    <3>2. p \in CoPositions(path, Root, i)
      BY <2>1, <2>5, <3>1 DEF CoPositions
    <3> QED
      BY <3>1, <3>2, <1>2, <1>3 DEF PathOK
  <2>6. CASE q \in old \ {Root}
    <3>1. new[q] = path[q]
      BY <2>6, <1>2
    <3>2. p \in CoPositions(path, q, i)
      BY <2>1, <3>1 DEF CoPositions
    <3> QED
      BY <2>6, <3>1, <3>2, <1>2 DEF PathOK
  <2>7. CASE q \in graft
    <3>1. PICK j \in 1..m : \E r \in DOMAIN coPaths[j] : q = <<<<n, j>>>> \o r
      BY <2>7, <1>6
    <3>2. PICK r \in DOMAIN coPaths[j] : q = <<<<n, j>>>> \o r
      BY <3>1
    <3>3. PathOK(coPaths[j]) /\ <<n, j>> \in Nat \X Nat /\ r \in Position
      BY <1>1, <1>2 DEF PathOK, m
    <3>4. new[q] = coPaths[j][r]
      BY <3>2, <1>2
    <3>5. p = <<<<n, j>>>> \o Append(r, <<i, k>>)
      BY <2>1, <2>3, <3>2, <3>3, Prefixed
    <3>6. Append(r, <<i, k>>) \in CoPositions(coPaths[j], r, i)
      BY <2>1, <3>4 DEF CoPositions
    <3>7. Append(r, <<i, k>>) \in DOMAIN coPaths[j]
      BY <3>3, <3>4, <3>6 DEF PathOK
    <3> QED
      BY <3>5, <3>7, <1>2
  <2> QED
    BY <2>4, <2>5, <2>6, <2>7, <1>2
<1>11. new \in [DOMAIN new -> Node]
  BY <1>2, <1>7
<1> QED
  BY <1>2, <1>3, <1>7, <1>8, <1>9, <1>10, <1>11 DEF PathOK, new

-----------------------------------------------------------------------------
(* The file a mined path becomes.                                            *)

StepProof(path, q, i, blocks) ==
    [tx |-> path[q].steps[i].tx, out |-> path[q].steps[i].out,
     block |-> blocks[path[q].steps[i].tx], merged |-> CoTips(path, q, i)]

(* The lineage of a node has the proofs of its base and then those of its    *)
(* steps; it ends in the asset the node selects.                             *)
LineageParts(lineage, path, q, blocks, b, n) ==
    /\ b = Len(path[q].base.proofs) /\ n = Len(path[q].steps)
    /\ b \in Nat \ {0} /\ n \in Nat /\ DOMAIN lineage = 1..(b + n)
    /\ lineage \in Seq(ProofRec) \ {<<>>}
    /\ \A k \in 1..b : lineage[k] = path[q].base.proofs[k]
    /\ \A i \in 1..n : lineage[b + i] = StepProof(path, q, i, blocks)
    /\ \A i \in 1..n : Outpoint(lineage[b + i - 1]) = TipBefore(path[q], i)
    /\ Outpoint(Last(lineage)) = Tip(path[q])

LEMMA LineageHasParts ==
  ASSUME NEW path, PathOK(path), NEW q \in DOMAIN path,
         NEW blocks, blocks \in [DOMAIN blocks -> BlockRec],
         AnchorTxs(path) \subseteq DOMAIN blocks
  PROVE  LineageParts(Lineage(path, q, blocks), path, q, blocks,
                      Len(path[q].base.proofs), Len(path[q].steps))
<1> DEFINE proofs == path[q].base.proofs
           steps == path[q].steps
           b == Len(proofs)
           n == Len(steps)
           tail == [i \in DOMAIN steps |-> StepProof(path, q, i, blocks)]
           lineage == Lineage(path, q, blocks)
<1>1. /\ proofs \in Seq(ProofRec) /\ proofs # <<>> /\ steps \in Seq(StepRec)
      /\ b \in Nat \ {0} /\ n \in Nat /\ DOMAIN proofs = 1..b /\ DOMAIN steps = 1..n
  BY NodeParts
<1>2. lineage = proofs \o tail
  BY DEF Lineage, StepProof
<1>3. ASSUME NEW i \in 1..n
      PROVE  StepProof(path, q, i, blocks) \in ProofRec
  <2>1. steps[i] \in StepRec /\ steps[i].tx \in AnchorTxs(path)
    BY <1>1 DEF AnchorTxs
  <2>2. blocks[steps[i].tx] \in BlockRec
    BY <2>1
  <2>3. CoTips(path, q, i) \subseteq Outpoints
    BY <1>1, CoTipsExist
  <2>4. /\ steps[i].tx \in TxNames /\ steps[i].out \in Nat
        /\ <<steps[i].tx, steps[i].out>> \in Outpoints
    BY <2>1 DEF StepRec, Outpoint
  <2> QED
    BY <2>2, <2>3, <2>4 DEF ProofRec, StepProof, Outpoint
<1>4. tail \in Seq(ProofRec) /\ Len(tail) = n
  <2>1. tail \in [1..n -> ProofRec]
    BY <1>1, <1>3
  <2> HIDE DEF tail
  <2> QED
    BY <1>1, <2>1
<1>5. /\ lineage \in Seq(ProofRec) \ {<<>>} /\ Len(lineage) = b + n
      /\ DOMAIN lineage = 1..(b + n)
      /\ \A k \in 1..b : lineage[k] = proofs[k]
      /\ \A i \in 1..n : lineage[b + i] = tail[i]
  <2> HIDE DEF tail, lineage, b, n, proofs
  <2>1. lineage \in Seq(ProofRec) /\ Len(lineage) = b + n
    <3>1. Len(proofs) = b
      BY DEF b
    <3>2. \A s, t \in Seq(ProofRec) : s \o t \in Seq(ProofRec)
                                     /\ Len(s \o t) = Len(s) + Len(t)
      OBVIOUS
    <3> QED
      BY <1>1, <1>2, <1>4, <3>1, <3>2
  <2>2. DOMAIN lineage = 1..(b + n) /\ lineage # <<>>
    BY <1>1, <2>1
  <2>3. ASSUME NEW k \in 1..b
        PROVE  lineage[k] = proofs[k]
    BY <1>1, <1>2, <1>4 DEF b
  <2>4. ASSUME NEW i \in 1..n
        PROVE  lineage[b + i] = tail[i]
    BY <1>1, <1>2, <1>4 DEF b
  <2> QED
    BY <2>1, <2>2, <2>3, <2>4
<1>6. \A i \in 1..n : lineage[b + i] = StepProof(path, q, i, blocks)
  BY <1>1, <1>5
<1>7. ASSUME NEW i \in 1..(n + 1)
      PROVE  Outpoint(lineage[b + i - 1]) = TipBefore(path[q], i)
  <2>1. CASE i = 1
    <3>1. b + i - 1 = b /\ b \in 1..b
      BY <1>1, <2>1
    <3>2. lineage[b] = Last(proofs)
      BY <1>1, <1>5, <3>1, LastIsElement
    <3> QED
      BY <2>1, <3>1, <3>2 DEF TipBefore
  <2>2. CASE i # 1
    <3>1. i - 1 \in 1..n /\ b + i - 1 = b + (i - 1)
      BY <1>1, <2>2
    <3>2. lineage[b + i - 1] = StepProof(path, q, i - 1, blocks)
      BY <1>6, <3>1
    <3> QED
      BY <2>2, <3>2 DEF TipBefore, StepProof, Outpoint
  <2> QED
    BY <2>1, <2>2
<1>8. Outpoint(Last(lineage)) = Tip(path[q])
  <2>1. Last(lineage) = lineage[b + n]
    BY <1>5 DEF Last
  <2>2. n + 1 \in 1..(n + 1) /\ b + (n + 1) - 1 = b + n
    BY <1>1
  <2>3. Outpoint(lineage[b + (n + 1) - 1]) = TipBefore(path[q], n + 1)
    BY <1>7, <2>2
  <2> QED
    BY <2>1, <2>2, <2>3 DEF Tip
<1>9. \A i \in 1..n : Outpoint(lineage[b + i - 1]) = TipBefore(path[q], i)
  BY <1>1, <1>7
<1>10. b = Len(path[q].base.proofs) /\ n = Len(path[q].steps)
  OBVIOUS
<1>11. \A k \in 1..b : lineage[k] = path[q].base.proofs[k]
  BY <1>5
<1> HIDE DEF lineage, b, n
<1>12. LineageParts(lineage, path, q, blocks, b, n)
  BY <1>1, <1>5, <1>6, <1>8, <1>9, <1>10, <1>11 DEF LineageParts
<1> QED
  BY <1>12 DEF lineage, b, n

LEMMA ConfirmedFileType ==
  ASSUME NEW path, PathOK(path),
         NEW blocks, blocks \in [DOMAIN blocks -> BlockRec],
         AnchorTxs(path) \subseteq DOMAIN blocks
  PROVE  ConfirmProofFile(path, blocks) \in File
<1>1. ASSUME NEW q \in DOMAIN path
      PROVE  /\ Lineage(path, q, blocks) \in Seq(ProofRec) \ {<<>>}
             /\ path[q].base.embedded \subseteq Seq(ProofRec)
  BY LineageHasParts, NodeParts DEF LineageParts, File
<1>2. Root \in DOMAIN path
  BY DEF PathOK
<1> DEFINE proofs == Lineage(path, Root, blocks)
           bases == UNION {path[q].base.embedded : q \in DOMAIN path}
           merged == {Lineage(path, q, blocks) : q \in DOMAIN path \ {Root}}
<1>3. proofs \in Seq(ProofRec) \ {<<>>}
  BY <1>1, <1>2
<1>4. bases \subseteq Seq(ProofRec) /\ merged \subseteq Seq(ProofRec)
  BY <1>1
<1>5. ConfirmProofFile(path, blocks) = [proofs |-> proofs, embedded |-> bases \cup merged]
  BY DEF ConfirmProofFile
<1> HIDE DEF proofs, bases, merged
<1> QED
  BY <1>3, <1>4, <1>5 DEF File

-----------------------------------------------------------------------------
(* The codec.                                                                *)

WrittenStep == 4 + ProofSize + 2

LEMMA NodeSizeType ==
  ASSUME NEW node \in Node
  PROVE  NodeSize(node, WrittenStep) \in Nat
<1> DEFINE f == [i \in DOMAIN node.steps |-> WrittenStep + 4 * node.steps[i].co]
<1>1. /\ node.base.proofs \in Seq(ProofRec) /\ node.steps \in Seq(StepRec)
  BY DEF Node, File
<1>2. IsFiniteSet(DOMAIN node.steps)
  <2>1. Len(node.steps) \in Nat /\ DOMAIN node.steps = 1..Len(node.steps)
    BY <1>1
  <2> QED
    BY <2>1, FS_Interval
<1>3. \A i \in DOMAIN node.steps : f[i] \in Nat
  <2>1. ASSUME NEW i \in DOMAIN node.steps
        PROVE  f[i] \in Nat
    <3>1. node.steps[i].co \in Nat
      BY <1>1 DEF StepRec
    <3> QED
      BY <3>1, LimitAssumption DEF WrittenStep
  <2> QED
    BY <2>1
<1>4. SumFunction(f) \in Nat
  <2>1. DOMAIN f = DOMAIN node.steps
    OBVIOUS
  <2> HIDE DEF f
  <2>2. SumFunction(f) = Sum(f, DOMAIN node.steps)
    BY <2>1, SumFunctionIsSum
  <2> QED
    BY <1>2, <1>3, <2>2, SumNat
<1>5. NodeSize(node, WrittenStep) = FrameSize + ProofSize * Len(node.base.proofs) + SumFunction(f)
  BY DEF NodeSize
<1>6. ProofSize * Len(node.base.proofs) \in Nat
  BY <1>1, LimitAssumption
<1> HIDE DEF f
<1> QED
  BY <1>4, <1>5, <1>6 DEF FrameSize

(* The blob of a node is no longer than the blob it is in.                   *)
LEMMA PartsAreSmaller ==
  ASSUME NEW path, PathOK(path), NEW q \in DOMAIN path
  PROVE  /\ EncodedSize(path, q) \in Nat
         /\ EncodedSize(path, q) <= EncodedSize(path, Root)
<1> DEFINE f == [r \in DOMAIN path |-> NodeSize(path[r], WrittenStep)]
<1>1. IsFiniteSet(DOMAIN path) /\ Root \in DOMAIN path /\ DOMAIN path \subseteq Position
  BY DEF PathOK
<1>2. \A r \in DOMAIN path : f[r] \in Nat
  BY NodeParts, NodeSizeType
<1>3. ASSUME NEW p \in DOMAIN path
      PROVE  /\ EncodedSize(path, p) = Sum(f, Below(path, p))
             /\ IsFiniteSet(Below(path, p)) /\ Below(path, p) \subseteq DOMAIN path
  <2> DEFINE B == Below(path, p)
             g == [r \in B |-> NodeSize(path[r], WrittenStep)]
  <2>1. B \subseteq DOMAIN path
    BY DEF Below
  <2>2. IsFiniteSet(B)
    BY <1>1, <2>1, FS_Subset
  <2>3. \A r \in B : g[r] = f[r]
    BY <2>1
  <2>4. EncodedSize(path, p) = SumFunction(g)
    BY DEF EncodedSize, WrittenStep
  <2>5. DOMAIN g = B
    OBVIOUS
  <2> HIDE DEF g, f, B
  <2>6. SumFunction(g) = Sum(g, B)
    BY <2>5, SumFunctionIsSum
  <2>7. Sum(g, B) = Sum(f, B)
    BY <2>2, <2>3, SumCongruence
  <2> QED
    BY <2>1, <2>2, <2>4, <2>6, <2>7 DEF B
<1>4. Below(path, Root) = DOMAIN path
  <2>1. ASSUME NEW r \in Position
        PROVE  IsPrefix(Root, r)
    <3>1. Len(Root) = 0 /\ Len(r) \in Nat
      BY DEF Root, Position
    <3>2. SubSeq(Root, 1, 0) = SubSeq(r, 1, 0)
      BY DEF Root, Position
    <3> QED
      BY <3>1, <3>2 DEF IsPrefix
  <2> QED
    BY <1>1, <2>1 DEF Below
<1> HIDE DEF f
<1>5. Sum(f, Below(path, q)) \in Nat
  BY <1>2, <1>3, SumNat
<1>6. Sum(f, Below(path, q)) <= Sum(f, DOMAIN path)
  BY <1>1, <1>2, <1>3, SumSubset
<1> QED
  BY <1>1, <1>3, <1>4, <1>5, <1>6

(* Reading back what was written gives the path.                             *)
LEMMA DecodeInvertsEncode ==
  ASSUME NEW path, PathOK(path)
  PROVE  Decode(Encode(path)) = path
<1>1. path = [q \in DOMAIN path |-> path[q]]
  BY DEF PathOK
<1>2. ASSUME NEW q \in DOMAIN path
      PROVE  Decode(Encode(path))[q] = path[q]
  <2>1. path[q] \in [base : File, steps : Seq(StepRec)]
    BY NodeParts DEF Node
  <2>2. path[q] = [base |-> path[q].base, steps |-> path[q].steps]
    BY <2>1
  <2> QED
    BY <2>2 DEF Decode, Encode
<1>3. /\ Decode(Encode(path)) = [q \in DOMAIN path |-> Decode(Encode(path))[q]]
  BY DEF Decode, Encode
<1> QED
  BY <1>1, <1>2, <1>3

LEMMA EncodedOK ==
  ASSUME NEW path, PathOK(path), Validate(path)
  PROVE  BlobOK(Encode(path))
<1> DEFINE blob == Encode(path)
<1>1. Decode(blob) = path
  BY DecodeInvertsEncode
<1>2. DOMAIN blob = DOMAIN path /\ blob = [q \in DOMAIN blob |-> blob[q]]
  BY DEF Encode
<1>3. ASSUME NEW q \in DOMAIN path
      PROVE  /\ blob[q] \in BlobNode
             /\ blob[q].size = EncodedSize(path, q) /\ blob[q].sum
  <2>1. blob[q] = [base |-> path[q].base, steps |-> path[q].steps,
                   size |-> EncodedSize(path, q), sum |-> TRUE]
    BY DEF Encode
  <2>2. EncodedSize(path, q) \in Nat /\ path[q].base \in File
        /\ path[q].steps \in Seq(StepRec)
    BY NodeParts, PartsAreSmaller
  <2> QED
    BY <2>1, <2>2 DEF BlobNode
<1> HIDE DEF blob
<1>4. blob \in [DOMAIN blob -> BlobNode]
  BY <1>2, <1>3
<1> QED
  BY <1>1, <1>2, <1>3, <1>4 DEF BlobOK, blob

LEMMA DamagedOK ==
  ASSUME NEW blob, BlobOK(blob)
  PROVE  BlobOK([blob EXCEPT ![Root].sum = FALSE])
<1> DEFINE new == [blob EXCEPT ![Root].sum = FALSE]
<1>1. /\ blob \in [DOMAIN blob -> BlobNode] /\ PathOK(Decode(blob))
      /\ Validate(Decode(blob))
  BY DEF BlobOK
<1>2. DOMAIN new = DOMAIN blob /\ new = [q \in DOMAIN new |-> new[q]]
  BY <1>1
<1>3. ASSUME NEW q \in DOMAIN blob
      PROVE  /\ new[q] \in BlobNode
             /\ new[q].base = blob[q].base /\ new[q].steps = blob[q].steps
             /\ new[q].size = blob[q].size
             /\ q # Root => new[q].sum = blob[q].sum
  <2>1. blob[q] \in [base : File, steps : Seq(StepRec), size : Nat, sum : BOOLEAN]
    BY <1>1 DEF BlobNode
  <2>2. CASE q = Root
    <3>1. new[q] = [blob[q] EXCEPT !.sum = FALSE]
      BY <1>1, <2>2
    <3> QED
      BY <2>1, <2>2, <3>1 DEF BlobNode
  <2>3. CASE q # Root
    BY <1>1, <2>1, <2>3 DEF BlobNode
  <2> QED
    BY <2>2, <2>3
<1> HIDE DEF new
<1>4. Decode(new) = Decode(blob)
  BY <1>2, <1>3 DEF Decode
<1>5. new \in [DOMAIN new -> BlobNode]
  BY <1>2, <1>3
<1>6. ASSUME NEW q \in DOMAIN blob
      PROVE  /\ new[q].size = EncodedSize(Decode(blob), q)
             /\ q # Root => new[q].sum
  BY <1>3 DEF BlobOK
<1> QED
  BY <1>1, <1>2, <1>4, <1>5, <1>6 DEF BlobOK, new

-----------------------------------------------------------------------------
(* Every step keeps the invariant.                                           *)

LEMMA GenesisBlock == Genesis \in BlockRec
BY DEF Genesis, BlockRec, Mints

LEMMA ChainTxsTyped ==
  ASSUME TypeOK
  PROVE  ChainTxs \subseteq TxNames
<1>1. \A b \in ToSet(chain) : b \in BlockRec
  BY DEF TypeOK, ToSet
<1> QED
  BY <1>1 DEF ChainTxs, BlockRec

LEMMA InitInv == Init => Inv
<1> SUFFICES ASSUME Init PROVE Inv
  OBVIOUS
<1>1. TypeOK
  <2>1. chain \in Seq(BlockRec) /\ chain # <<>>
    BY GenesisBlock DEF Init
  <2>2. Mints \subseteq TxNames
    BY DEF Mints
  <2>3. /\ DOMAIN confirmations \subseteq TxNames
        /\ confirmations \in [DOMAIN confirmations -> BlockRec]
    BY <2>2, GenesisBlock DEF Init
  <2> QED
    BY <2>1, <2>3 DEF TypeOK, Init
<1>2. HeldOK /\ StoredOK
  BY DEF HeldOK, StoredOK, Init
<1>3. WorldOK
  BY DEF WorldOK, Init, Genesis
<1> QED
  BY <1>1, <1>2, <1>3 DEF Inv

\* The steps of the host on its paths leave the world alone.
LEMMA WorldUntouched ==
  ASSUME TypeOK, WorldOK, UNCHANGED world,
         DOMAIN held' = Slots, DOMAIN stored' = Slots
  PROVE  TypeOK' /\ WorldOK'
BY DEF TypeOK, WorldOK, ChainTxs, world

\* A step that puts a path into one slot.
LEMMA OneSlotHeld ==
  ASSUME TypeOK, HeldOK, NEW s \in Slots, NEW path, PathOK(path),
         held' = [held EXCEPT ![s] = path]
  PROVE  DOMAIN held' = Slots /\ HeldOK'
BY DEF TypeOK, HeldOK

LEMMA SignInv ==
  ASSUME Inv, NEW plan \in Plans, Sign(plan)
  PROVE  Inv'
<1>1. plan \subseteq TxNames
  BY HostAssumption
<1>2. TypeOK'
  BY <1>1 DEF Inv, TypeOK, Sign
<1>3. HeldOK' /\ StoredOK'
  BY DEF Inv, HeldOK, StoredOK, Sign
<1>4. ChainTxs' = ChainTxs
  BY DEF Sign, ChainTxs
<1>5. WorldOK'
  BY <1>4 DEF Inv, WorldOK, Sign
<1> QED
  BY <1>2, <1>3, <1>5 DEF Inv

LEMMA MineInv ==
  ASSUME Inv, NEW txs, txs \subseteq graph, Mine(txs)
  PROVE  Inv'
<1> DEFINE block == [id |-> <<Len(chain), reorgs>>, txs |-> txs]
<1>1. /\ chain' = Append(chain, block)
      /\ confirmations' = [t \in txs \cup DOMAIN confirmations |->
                              IF t \in txs THEN block ELSE confirmations[t]]
      /\ UNCHANGED <<graph, reorgs, held, stored>>
      /\ txs # {}
  BY DEF Mine
<1>2. block \in BlockRec
  BY DEF Inv, TypeOK, BlockRec
<1>3. /\ DOMAIN confirmations' = txs \cup DOMAIN confirmations
      /\ confirmations' = [t \in DOMAIN confirmations' |-> confirmations'[t]]
      /\ \A t \in DOMAIN confirmations' :
            confirmations'[t] = IF t \in txs THEN block ELSE confirmations[t]
  BY <1>1
<1>4. TypeOK'
  <2>1. chain' \in Seq(BlockRec) /\ chain' # <<>>
    BY <1>1, <1>2 DEF Inv, TypeOK
  <2>2. /\ DOMAIN confirmations' \subseteq TxNames
        /\ confirmations' \in [DOMAIN confirmations' -> BlockRec]
    BY <1>2, <1>3 DEF Inv, TypeOK
  <2> QED
    BY <1>1, <2>1, <2>2 DEF Inv, TypeOK
<1>5. HeldOK' /\ StoredOK'
  BY <1>1 DEF Inv, HeldOK, StoredOK
<1>6. ChainTxs' \subseteq ChainTxs \cup txs
  <2>1. chain \in Seq(BlockRec)
    BY DEF Inv, TypeOK
  <2> HIDE DEF block
  <2>2. ToSet(chain') \subseteq ToSet(chain) \cup {block}
    BY <1>1, <2>1 DEF ToSet
  <2>3. block.txs = txs
    BY DEF block
  <2> QED
    BY <2>2, <2>3 DEF ChainTxs
<1>7. WorldOK'
  <2>1. graph # {} /\ graph' = graph
    BY <1>1
  <2>2. \A t, u \in graph' \cup ChainTxs' : ~Conflicting(t, u)
    BY <1>6, <2>1 DEF Inv, WorldOK
  <2>3. \A t \in DOMAIN confirmations' : t \in confirmations'[t].txs
    BY <1>3 DEF Inv, WorldOK
  <2> QED
    BY <2>2, <2>3 DEF WorldOK
<1> QED
  BY <1>4, <1>5, <1>7 DEF Inv

LEMMA ReorgInv ==
  ASSUME Inv, Reorg
  PROVE  Inv'
<1>1. chain \in Seq(BlockRec) /\ Len(chain) > 1 /\ chain' = SubSeq(chain, 1, Len(chain) - 1)
  BY DEF Inv, TypeOK, Reorg, Front
<1>2. /\ chain' \in Seq(BlockRec) /\ chain' # <<>>
      /\ \A i \in DOMAIN chain' : i \in DOMAIN chain /\ chain'[i] = chain[i]
  <2> DEFINE n == Len(chain) - 1
  <2>1. n \in Nat \ {0} /\ n < Len(chain) /\ DOMAIN chain = 1..Len(chain)
    BY <1>1
  <2>2. /\ SubSeq(chain, 1, n) \in Seq(BlockRec) /\ Len(SubSeq(chain, 1, n)) = n
        /\ \A i \in 1..n : SubSeq(chain, 1, n)[i] = chain[i]
    BY <1>1, <2>1
  <2>3. chain' = SubSeq(chain, 1, n)
    BY <1>1
  <2> HIDE DEF n
  <2>4. chain' \in Seq(BlockRec) /\ Len(chain') = n /\ DOMAIN chain' = 1..n
    BY <2>1, <2>2, <2>3
  <2>5. chain' # <<>>
    BY <2>1, <2>4
  <2>6. ASSUME NEW i \in 1..n
        PROVE  i \in DOMAIN chain /\ chain'[i] = chain[i]
    <3>1. i \in DOMAIN chain
      BY <2>1
    <3>2. SubSeq(chain, 1, n)[i] = chain[i]
      BY <2>2
    <3> QED
      BY <3>1, <3>2, <2>3
  <2> QED
    BY <2>4, <2>5, <2>6
<1>3. TypeOK'
  BY <1>2 DEF Inv, TypeOK, Reorg
<1>4. HeldOK' /\ StoredOK'
  BY DEF Inv, HeldOK, StoredOK, Reorg
<1>5. ChainTxs' \subseteq ChainTxs
  BY <1>2 DEF ChainTxs, ToSet
<1>6. WorldOK'
  BY <1>5 DEF Inv, WorldOK, Reorg
<1> QED
  BY <1>3, <1>4, <1>6 DEF Inv

LEMMA BeginInv ==
  ASSUME Inv, NEW s \in Slots, NEW mint \in Mints, Begin(s, mint)
  PROVE  Inv'
<1>1. PathOK(Unextended(MintFile(mint)))
  BY FileOfMint, UnextendedOK
<1>2. DOMAIN held' = Slots /\ HeldOK'
  BY <1>1, OneSlotHeld DEF Inv, Begin
<1>3. StoredOK' /\ DOMAIN stored' = Slots
  BY DEF Inv, TypeOK, StoredOK, Begin
<1>4. TypeOK' /\ WorldOK'
  BY <1>2, <1>3, WorldUntouched DEF Inv, Begin
<1> QED
  BY <1>2, <1>3, <1>4 DEF Inv

LEMMA ExtendInv ==
  ASSUME Inv, NEW s \in Slots, NEW t \in TxNames \ Mints, NEW co \in CoInputs(s),
         NEW out \in DOMAIN Transactions[t].outputs, Extend(s, t, out, co)
  PROVE  Inv'
<1> DEFINE step == [tx |-> t, out |-> out, prev |-> Tip(held[s][Root]), co |-> Len(co)]
           coPaths == [j \in DOMAIN co |-> held[co[j]]]
<1>1. PICK m \in Nat : co \in [1..m -> Slots \ {s}]
  <2>1. PICK m \in 0..(Cardinality(Slots) - 1) : co \in [1..m -> Slots \ {s}]
    BY DEF CoInputs, SeqOf
  <2>2. Cardinality(Slots) \in Nat
    BY HostAssumption, FS_CardinalityType
  <2> QED
    BY <2>1, <2>2
<1>2. Len(co) = m /\ DOMAIN co = 1..m
  BY <1>1
<1>3. PathOK(held[s]) /\ \A j \in 1..m : PathOK(coPaths[j])
  BY <1>1, <1>2 DEF Inv, HeldOK, Extend
<1>4. step \in StepRec
  <2>1. out \in Nat /\ <<t, out>> \in Outpoints
    BY OutputAssumption DEF Outpoints, Created, OutputsOf
  <2>2. Tip(held[s][Root]) \in Outpoints
    BY <1>3, NodeParts, TipType DEF PathOK
  <2> QED
    BY <1>2, <2>1, <2>2 DEF StepRec, Outpoint
<1>5. PathOK(Extended(held[s], step, coPaths))
  <2>1. step.co = m /\ DOMAIN coPaths = 1..m
    BY <1>2
  <2> HIDE DEF step, coPaths
  <2> QED
    BY <1>3, <1>4, <2>1, ExtendedOK
<1>6. held' = [c \in Slots |-> IF c \in ToSet(co) THEN None
                               ELSE IF c # s THEN held[c]
                               ELSE Extended(held[s], step, coPaths)]
  BY DEF Extend
<1> HIDE DEF step, coPaths
<1>7. DOMAIN held' = Slots /\ HeldOK'
  BY <1>5, <1>6 DEF Inv, HeldOK
<1>8. StoredOK' /\ DOMAIN stored' = Slots
  BY DEF Inv, TypeOK, StoredOK, Extend
<1>9. TypeOK' /\ WorldOK'
  BY <1>7, <1>8, WorldUntouched DEF Inv, Extend
<1> QED
  BY <1>7, <1>8, <1>9 DEF Inv

LEMMA ConfirmInv ==
  ASSUME Inv, NEW s \in Slots, Confirm(s)
  PROVE  Inv'
<1>1. PathOK(held[s]) /\ AnchorTxs(held[s]) \subseteq DOMAIN confirmations
  BY DEF Inv, HeldOK, Confirm, Confirmable
<1>2. PathOK(Unextended(ConfirmProofFile(held[s], confirmations)))
  BY <1>1, ConfirmedFileType, UnextendedOK DEF Inv, TypeOK
<1>3. DOMAIN held' = Slots /\ HeldOK'
  BY <1>2, OneSlotHeld DEF Inv, Confirm
<1>4. StoredOK' /\ DOMAIN stored' = Slots
  BY DEF Inv, TypeOK, StoredOK, Confirm
<1>5. TypeOK' /\ WorldOK'
  BY <1>3, <1>4, WorldUntouched DEF Inv, Confirm
<1> QED
  BY <1>3, <1>4, <1>5 DEF Inv

LEMMA StoreInv ==
  ASSUME Inv, NEW s \in Slots, Store(s)
  PROVE  Inv'
<1>1. BlobOK(Encode(held[s]))
  BY EncodedOK DEF Inv, HeldOK, Store
<1>2. /\ DOMAIN held' = Slots /\ DOMAIN stored' = Slots
      /\ HeldOK' /\ StoredOK'
  BY <1>1 DEF Inv, TypeOK, HeldOK, StoredOK, Store
<1>3. TypeOK' /\ WorldOK'
  BY <1>2, WorldUntouched DEF Inv, Store
<1> QED
  BY <1>2, <1>3 DEF Inv

LEMMA LoadInv ==
  ASSUME Inv, NEW s \in Slots, Load(s)
  PROVE  Inv'
<1>1. PathOK(Decode(stored[s]))
  BY DEF Inv, StoredOK, BlobOK, Load
<1>2. DOMAIN held' = Slots /\ HeldOK'
  BY <1>1, OneSlotHeld DEF Inv, Load
<1>3. DOMAIN stored' = Slots /\ StoredOK'
  BY DEF Inv, TypeOK, StoredOK, Load
<1>4. TypeOK' /\ WorldOK'
  BY <1>2, <1>3, WorldUntouched DEF Inv, Load
<1> QED
  BY <1>2, <1>3, <1>4 DEF Inv

LEMMA DamageInv ==
  ASSUME Inv, NEW s \in Slots, Damage(s)
  PROVE  Inv'
<1>1. BlobOK([stored[s] EXCEPT ![Root].sum = FALSE])
  BY DamagedOK DEF Inv, StoredOK, Damage
<1>2. stored' = [stored EXCEPT ![s] = [stored[s] EXCEPT ![Root].sum = FALSE]]
  BY DEF Damage
<1>3. DOMAIN stored' = Slots /\ StoredOK'
  BY <1>1, <1>2 DEF Inv, TypeOK, StoredOK
<1>4. DOMAIN held' = Slots /\ HeldOK'
  BY DEF Inv, TypeOK, HeldOK, Damage
<1>5. TypeOK' /\ WorldOK'
  BY <1>3, <1>4, WorldUntouched DEF Inv, Damage
<1> QED
  BY <1>3, <1>4, <1>5 DEF Inv

LEMMA CrashInv ==
  ASSUME Inv, Crash
  PROVE  Inv'
<1>1. /\ DOMAIN held' = Slots /\ DOMAIN stored' = Slots
      /\ HeldOK' /\ StoredOK'
  BY DEF Inv, TypeOK, HeldOK, StoredOK, Crash
<1>2. TypeOK' /\ WorldOK'
  BY <1>1, WorldUntouched DEF Inv, Crash
<1> QED
  BY <1>1, <1>2 DEF Inv

LEMMA NextInv == Inv /\ [Next]_vars => Inv'
<1> SUFFICES ASSUME Inv, [Next]_vars PROVE Inv'
  OBVIOUS
<1>1. CASE UNCHANGED vars
  BY <1>1 DEF vars, Inv, TypeOK, HeldOK, StoredOK, WorldOK, ChainTxs
<1>2. CASE \E plan \in Plans : Sign(plan)
  BY <1>2, SignInv
<1>3. CASE \E block \in Blocks : block \subseteq graph /\ Mine(block)
  BY <1>3, MineInv
<1>4. CASE Reorg
  BY <1>4, ReorgInv
<1>5. ASSUME NEW s \in Slots, \E m \in Mints : Begin(s, m)
      PROVE  Inv'
  BY <1>5, BeginInv
<1>6. ASSUME NEW s \in Slots,
             \E t \in TxNames \ Mints, co \in CoInputs(s) :
                \E out \in DOMAIN Transactions[t].outputs : Extend(s, t, out, co)
      PROVE  Inv'
  BY <1>6, ExtendInv
<1>7. ASSUME NEW s \in Slots, Confirm(s) \/ Store(s) \/ Load(s) \/ Damage(s)
      PROVE  Inv'
  BY <1>7, ConfirmInv, StoreInv, LoadInv, DamageInv
<1>8. CASE Crash
  BY <1>8, CrashInv
<1> QED
  BY <1>1, <1>2, <1>3, <1>4, <1>5, <1>6, <1>7, <1>8 DEF Next

(* In every state the held paths are finite trees of well-formed nodes, the  *)
(* stored bytes are encodings of valid ones, the signed and mined            *)
(* transactions can be mined together and each recorded block has the        *)
(* transaction it is recorded for.                                           *)
THEOREM InvHolds == Spec => []Inv
<1>1. Init => Inv
  BY InitInv
<1>2. Inv /\ [Next]_vars => Inv'
  BY NextInv
<1> QED
  BY <1>1, <1>2, PTL DEF Spec

-----------------------------------------------------------------------------
(* The properties.                                                           *)

\* The base of every node of a verified path is in the ledger of the chain.
LEMMA BasesInLedger ==
  ASSUME Inv, NEW path, PathOK(path), Verifies(path),
         NEW txs \in SUBSET TxNames, ChainTxs \subseteq txs
  PROVE  \A q \in DOMAIN path : Outpoint(Last(path[q].base.proofs)) \in Ledger(txs)
<1>1. ASSUME NEW q \in DOMAIN path
      PROVE  Outpoint(Last(path[q].base.proofs)) \in Ledger(ChainTxs)
  BY DEF Verifies, BaseFiles, VerifyConfirmedProof
<1>2. ChainTxs \in SUBSET TxNames
  BY ChainTxsTyped DEF Inv
<1> QED
  BY <1>1, <1>2, LedgerMonotone

LEMMA TipAlone ==
  ASSUME NEW path, PathOK(path), NEW attested, VerifyChain(path, attested)
  PROVE  Asset(Tip(path[Root])).alone
<1>1. Root \in DOMAIN path /\ path[Root].steps \in Seq(StepRec)
  BY NodeParts DEF PathOK
<1>2. CASE Len(path[Root].steps) = 0
  <2>1. Tip(path[Root]) = Outpoint(Last(path[Root].base.proofs))
    BY <1>2 DEF Tip, TipBefore
  <2> QED
    BY <1>1, <2>1 DEF VerifyChain, IsolatedOutput
<1>3. CASE Len(path[Root].steps) # 0
  <2> DEFINE n == Len(path[Root].steps)
  <2>1. n \in DOMAIN path[Root].steps /\ n + 1 # 1 /\ (n + 1) - 1 = n
    BY <1>1, <1>3
  <2>2. Tip(path[Root]) = Outpoint(path[Root].steps[n])
    BY <2>1 DEF Tip, TipBefore
  <2>3. VerifyStep(path, Root, n, attested)
    BY <1>1, <2>1 DEF VerifyChain
  <2> QED
    BY <2>2, <2>3 DEF VerifyStep, IsolatedOutput
<1> QED
  BY <1>2, <1>3

LEMMA GenuineWhenVerified == Inv => VerifiedIsGenuine
<1> SUFFICES ASSUME Inv, NEW s \in Slots, held[s] # None, Verifies(held[s])
             PROVE  /\ Tip(held[s][Root]) \in Ledger(graph \cup ChainTxs)
                    /\ Asset(Tip(held[s][Root])).alone
                    /\ \A t \in AnchorTxs(held[s]), u \in graph \cup ChainTxs :
                          ~Conflicting(t, u)
  BY DEF VerifiedIsGenuine
<1> DEFINE path == held[s]
<1>1. PathOK(path) /\ Root \in DOMAIN path
  BY DEF Inv, HeldOK, PathOK
<1>2. VerifyChain(path, graph) /\ Validate(path)
  BY DEF Verifies
<1>3. AnchorTxs(path) \subseteq graph
  <2>1. ASSUME NEW q \in DOMAIN path, NEW i \in DOMAIN path[q].steps
        PROVE  path[q].steps[i].tx \in graph
    <3>1. VerifyStep(path, q, i, graph)
      BY <1>2 DEF VerifyChain
    <3> QED
      BY <3>1 DEF VerifyStep, AnchorAttested
  <2> QED
    BY <2>1 DEF AnchorTxs
<1>4. graph \cup ChainTxs \in SUBSET TxNames
  BY ChainTxsTyped DEF Inv, TypeOK
<1>5. \A q \in DOMAIN path :
         Outpoint(Last(path[q].base.proofs)) \in Ledger(graph \cup ChainTxs)
  BY <1>1, <1>4, BasesInLedger
<1>6. Tip(path[Root]) \in Ledger(graph \cup ChainTxs)
  <2>1. AnchorTxs(path) \subseteq graph \cup ChainTxs
    BY <1>3
  <2> HIDE DEF path
  <2> QED
    BY <1>1, <1>2, <1>4, <1>5, <2>1, TipsInLedger
<1>7. Asset(Tip(path[Root])).alone
  BY <1>1, <1>2, TipAlone
<1>8. \A t \in AnchorTxs(path), u \in graph \cup ChainTxs : ~Conflicting(t, u)
  BY <1>3 DEF Inv, WorldOK
<1> QED
  BY <1>6, <1>7, <1>8

\* A lineage stays anchored when the file embeds more lineages.
LEMMA AnchoredInMore ==
  ASSUME NEW lineage, NEW some, NEW more, some \subseteq more,
         LineageAnchored(lineage, some)
  PROVE  LineageAnchored(lineage, more)
<1>1. TipsOf(some) \subseteq TipsOf(more)
  BY DEF TipsOf
<1> QED
  BY <1>1 DEF LineageAnchored

(* The lineage of each node of a verified path whose anchors are mined: its  *)
(* steps are in blocks of the chain, and what they merge the file embeds.    *)
LEMMA NodeLineageAnchored ==
  ASSUME Inv, NEW path, PathOK(path), Verifies(path),
         AnchorTxs(path) \subseteq DOMAIN confirmations,
         \A t \in AnchorTxs(path) : confirmations[t] \in ToSet(chain),
         NEW q \in DOMAIN path
  PROVE  LineageAnchored(Lineage(path, q, confirmations),
                         ConfirmProofFile(path, confirmations).embedded)
<1> DEFINE lineage == Lineage(path, q, confirmations)
           embedded == ConfirmProofFile(path, confirmations).embedded
           base == path[q].base
           b == Len(base.proofs)
           n == Len(path[q].steps)
<1>1. confirmations \in [DOMAIN confirmations -> BlockRec]
  BY DEF Inv, TypeOK
<1>2. ASSUME NEW r \in DOMAIN path
      PROVE  LineageParts(Lineage(path, r, confirmations), path, r, confirmations,
                          Len(path[r].base.proofs), Len(path[r].steps))
  BY <1>1, LineageHasParts
<1>3. LineageParts(lineage, path, q, confirmations, b, n)
  BY <1>2
<1>4. base.embedded \subseteq embedded
  BY DEF ConfirmProofFile
<1>5. \A r \in DOMAIN path \ {Root} : Lineage(path, r, confirmations) \in embedded
  BY DEF ConfirmProofFile
<1>6. LineageAnchored(base.proofs, embedded)
  <2>1. LineageAnchored(base.proofs, base.embedded)
    BY DEF Verifies, BaseFiles, VerifyConfirmedProof, Anchored
  <2> HIDE DEF embedded, base
  <2> QED
    BY <2>1, <1>4, AnchoredInMore
<1>7. base.proofs \in Seq(ProofRec) /\ DOMAIN base.proofs = 1..b /\ DOMAIN path[q].steps = 1..n
  BY NodeParts
<1> HIDE DEF lineage, embedded, base, b, n
<1>8. /\ b \in Nat \ {0} /\ n \in Nat /\ DOMAIN lineage = 1..(b + n)
      /\ \A k \in 1..b : lineage[k] = base.proofs[k]
      /\ \A i \in 1..n : lineage[b + i] = StepProof(path, q, i, confirmations)
      /\ \A i \in 1..n : Outpoint(lineage[b + i - 1]) = TipBefore(path[q], i)
  BY <1>3 DEF LineageParts, base
<1>9. lineage[1].tx \in Mints
  <2>1. lineage[1] = base.proofs[1]
    BY <1>8
  <2> QED
    BY <2>1, <1>6 DEF LineageAnchored
<1> DEFINE Fine(k) ==
             /\ lineage[k].block \in ToSet(chain)
             /\ lineage[k].tx \in lineage[k].block.txs
             /\ lineage[k].merged \subseteq TipsOf(embedded)
             /\ k > 1 => ToSet(Transactions[lineage[k].tx].witnesses) =
                            {Outpoint(lineage[k - 1])} \cup lineage[k].merged
<1>10. ASSUME NEW k \in 1..b
       PROVE  Fine(k)
  <2>1. lineage[k] = base.proofs[k]
    BY <1>8
  <2>2. k > 1 => k - 1 \in 1..b
    BY <1>8
  <2>3. k > 1 => lineage[k - 1] = base.proofs[k - 1]
    BY <2>2, <1>8
  <2>4. k \in DOMAIN base.proofs
    BY <1>7
  <2> QED
    BY <2>1, <2>3, <2>4, <1>6 DEF LineageAnchored
<1>11. ASSUME NEW i \in 1..n
       PROVE  Fine(b + i)
  <2> DEFINE step == path[q].steps[i]
             p == lineage[b + i]
  <2>1. p = StepProof(path, q, i, confirmations) /\ i \in DOMAIN path[q].steps
    BY <1>7, <1>8
  <2>2. p.tx = step.tx /\ p.block = confirmations[step.tx] /\ p.merged = CoTips(path, q, i)
    BY <2>1 DEF StepProof
  <2>3. step.tx \in AnchorTxs(path)
    BY <2>1 DEF AnchorTxs
  <2>4. p.block \in ToSet(chain) /\ p.tx \in p.block.txs
    BY <2>2, <2>3 DEF Inv, WorldOK
  <2>5. p.merged \subseteq TipsOf(embedded)
    <3>1. ASSUME NEW r \in CoPositions(path, q, i)
          PROVE  Tip(path[r]) \in TipsOf(embedded)
      <4>1. r \in DOMAIN path \ {Root}
        BY <2>1, CoPositionsBelow
      <4>2. Outpoint(Last(Lineage(path, r, confirmations))) = Tip(path[r])
        BY <4>1, <1>2 DEF LineageParts
      <4> QED
        BY <4>1, <4>2, <1>5 DEF TipsOf
    <3> QED
      BY <3>1, <2>2 DEF CoTips
  <2>6. ToSet(Transactions[step.tx].witnesses) =
          {TipBefore(path[q], i)} \cup CoTips(path, q, i)
    <3>1. VerifyStep(path, q, i, graph)
      BY <2>1 DEF Verifies, VerifyChain
    <3> QED
      BY <3>1 DEF VerifyStep, StepInputBinding
  <2>7. Outpoint(lineage[b + i - 1]) = TipBefore(path[q], i)
    BY <1>8
  <2>8. ToSet(Transactions[p.tx].witnesses) = {Outpoint(lineage[b + i - 1])} \cup p.merged
    BY <2>2, <2>6, <2>7
  <2> DEFINE k == b + i
  <2>9. ToSet(Transactions[lineage[k].tx].witnesses) =
           {Outpoint(lineage[k - 1])} \cup lineage[k].merged
    <3>1. lineage[k] = p /\ lineage[k - 1] = lineage[b + i - 1]
      <4>1. k - 1 = b + i - 1
        BY <1>8
      <4> QED
        BY <4>1
    <3> HIDE DEF k, p
    <3> QED
      BY <2>8, <3>1
  <2>10. /\ lineage[k].block \in ToSet(chain) /\ lineage[k].tx \in lineage[k].block.txs
         /\ lineage[k].merged \subseteq TipsOf(embedded)
    BY <2>4, <2>5
  <2> HIDE DEF k
  <2>11. Fine(k)
    BY <2>9, <2>10
  <2> QED
    BY <2>11 DEF k
<1>12. ASSUME NEW k \in DOMAIN lineage
       PROVE  Fine(k)
  <2>1. CASE k <= b
    BY <2>1, <1>8, <1>10
  <2>2. CASE k > b
    <3>1. k - b \in 1..n /\ b + (k - b) = k
      BY <2>2, <1>8
    <3>2. Fine(b + (k - b))
      BY ONLY <3>1, <1>11
    <3> QED
      BY <3>1, <3>2
  <2> QED
    BY <2>1, <2>2, <1>8
<1>13. LineageAnchored(lineage, embedded)
  BY <1>9, <1>12 DEF LineageAnchored
<1> QED
  BY <1>13 DEF lineage, embedded

LEMMA ConfirmedWhenMined == Inv => MinedPathsConfirm
<1> SUFFICES ASSUME Inv, NEW s \in Slots, held[s] # None,
                    \A t \in AnchorTxs(held[s]) :
                       t \in DOMAIN confirmations /\ confirmations[t] \in ToSet(chain),
                    Verifies(held[s]),
                    NEW file, file = ConfirmProofFile(held[s], confirmations)
             PROVE  /\ Confirmable(held[s], confirmations)
                    /\ VerifyConfirmedProof(file)
                    /\ Outpoint(Last(file.proofs)) = Tip(held[s][Root])
  BY DEF MinedPathsConfirm
<1> DEFINE path == held[s]
<1>1. PathOK(path) /\ Root \in DOMAIN path
  BY DEF Inv, HeldOK, PathOK
<1>2. VerifyChain(path, graph) /\ Validate(path)
  BY DEF Verifies
<1>3. Confirmable(path, confirmations)
  BY <1>2 DEF Confirmable, Inv, WorldOK
<1>4. /\ file.proofs = Lineage(path, Root, confirmations)
      /\ file.embedded = (UNION {path[q].base.embedded : q \in DOMAIN path}) \cup
                         {Lineage(path, q, confirmations) : q \in DOMAIN path \ {Root}}
  BY DEF ConfirmProofFile
<1>5. Outpoint(Last(file.proofs)) = Tip(path[Root])
  <2>1. /\ confirmations \in [DOMAIN confirmations -> BlockRec]
        /\ AnchorTxs(path) \subseteq DOMAIN confirmations
    BY DEF Inv, TypeOK
  <2>2. LineageParts(Lineage(path, Root, confirmations), path, Root, confirmations,
                     Len(path[Root].base.proofs), Len(path[Root].steps))
    <3> HIDE DEF path
    <3> QED
      BY <1>1, <2>1, LineageHasParts
  <2> QED
    BY <1>4, <2>2 DEF LineageParts
<1>6. Tip(path[Root]) \in Ledger(ChainTxs)
  <2>1. ChainTxs \in SUBSET TxNames
    BY ChainTxsTyped DEF Inv
  <2>2. AnchorTxs(path) \subseteq ChainTxs
    BY DEF Inv, WorldOK, ChainTxs
  <2>3. \A q \in DOMAIN path : Outpoint(Last(path[q].base.proofs)) \in Ledger(ChainTxs)
    BY <1>1, <2>1, BasesInLedger
  <2> HIDE DEF path
  <2> QED
    BY <1>1, <1>2, <2>1, <2>2, <2>3, TipsInLedger
<1>7. ASSUME NEW q \in DOMAIN path
      PROVE  LineageAnchored(Lineage(path, q, confirmations), file.embedded)
  BY <1>1, NodeLineageAnchored
<1>8. ASSUME NEW q \in DOMAIN path, NEW lineage \in path[q].base.embedded
      PROVE  LineageAnchored(lineage, file.embedded)
  <2>1. LineageAnchored(lineage, path[q].base.embedded)
    BY DEF Verifies, BaseFiles, VerifyConfirmedProof, Anchored
  <2>2. path[q].base.embedded \subseteq file.embedded
    BY <1>4
  <2> QED
    BY <2>1, <2>2, AnchoredInMore
<1>9. Anchored(file)
  <2>1. ASSUME NEW lineage \in {file.proofs} \cup file.embedded
        PROVE  LineageAnchored(lineage, file.embedded)
    <3>1. CASE \E q \in DOMAIN path : lineage = Lineage(path, q, confirmations)
      BY <3>1, <1>7
    <3>2. CASE \E q \in DOMAIN path : lineage \in path[q].base.embedded
      BY <3>2, <1>8
    <3> QED
      BY <3>1, <3>2, <1>1, <1>4
  <2> QED
    BY <2>1 DEF Anchored
<1> QED
  BY <1>3, <1>5, <1>6, <1>9 DEF VerifyConfirmedProof

LEMMA LoadedWithinLimit == Inv => PathsWithinLimitLoad
<1> SUFFICES ASSUME Inv, NEW s \in Slots, stored[s] # None, stored[s][Root].sum,
                    stored[s][Root].size <= MaxPathSize
             PROVE  Unmarshals(stored[s])
  BY DEF PathsWithinLimitLoad
<1> DEFINE blob == stored[s]
           path == Decode(blob)
<1>1. BlobOK(blob)
  BY DEF Inv, StoredOK
<1>2. PathOK(path) /\ Validate(path)
  BY <1>1 DEF BlobOK
<1>3. DOMAIN path = DOMAIN blob /\ \A q \in DOMAIN blob : path[q].steps = blob[q].steps
  BY DEF Decode
<1>4. ASSUME NEW q \in DOMAIN blob
      PROVE  /\ Len(q) <= MaxNesting
             /\ blob[q].size <= MaxPathSize
             /\ blob[q].sum
             /\ Len(blob[q].steps) <= MaxSteps
             /\ \A i \in DOMAIN blob[q].steps : blob[q].steps[i].co <= MaxCoPaths
  <2>1. Root \in DOMAIN blob
    BY <1>2, <1>3 DEF PathOK
  <2>2. blob[q].sum
    BY <1>1 DEF BlobOK
  <2>3. blob[q].size <= MaxPathSize
    <3>1. blob[q].size = EncodedSize(path, q) /\ blob[Root].size = EncodedSize(path, Root)
      BY <1>1, <2>1 DEF BlobOK
    <3>2. /\ EncodedSize(path, q) \in Nat /\ EncodedSize(path, Root) \in Nat
          /\ EncodedSize(path, q) <= EncodedSize(path, Root)
      BY <1>2, <1>3, <2>1, PartsAreSmaller
    <3> HIDE DEF path
    <3> QED
      BY <3>1, <3>2, LimitAssumption
  <2>4. /\ Len(q) <= MaxNesting /\ Len(path[q].steps) <= MaxSteps
        /\ \A i \in DOMAIN path[q].steps : path[q].steps[i].co <= MaxCoPaths
    BY <1>2, <1>3 DEF Validate, ValidateShape, ShapeWithin
  <2> QED
    BY <2>2, <2>3, <2>4, <1>3
<1>5. DecodesAt(blob)
  BY <1>4 DEF DecodesAt
<1> QED
  BY <1>2, <1>5 DEF Unmarshals

(* What Verify accepts the ledger holds, whatever the transactions, the      *)
(* plans, the blocks and the limits: the tip of the path is an asset that    *)
(* genuine transitions made out of the signed and mined transactions, alone  *)
(* in its output, and nothing signed or mined conflicts with its anchors.    *)
THEOREM VerifiedPathsAreGenuine == Spec => []VerifiedIsGenuine
BY InvHolds, GenuineWhenVerified, PTL

(* Once the anchors of a verified path are in the chain, ConfirmProofFile    *)
(* gives a file the backend accepts, for the asset the path selects, at any  *)
(* nesting of merged paths.                                                  *)
THEOREM MinedPathsBecomeFiles == Spec => []MinedPathsConfirm
BY InvHolds, ConfirmedWhenMined, PTL

(* UnmarshalBinary reads back every undamaged path whose encoding is within  *)
(* the limit: no blob inside it, depth or count is refused.                  *)
THEOREM WrittenPathsAreRead == Spec => []PathsWithinLimitLoad
BY InvHolds, LoadedWithinLimit, PTL
=============================================================================
