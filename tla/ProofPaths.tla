----------------------------- MODULE ProofPaths -----------------------------
(***************************************************************************)
(* A host that holds proof paths while the transactions they prove are      *)
(* signed, mined and reorganised away: it extends and merges paths, stores  *)
(* them, loses its memory, and turns a mined path into a confirmed proof    *)
(* file that is the base of the next one.                                  *)
(***************************************************************************)
EXTENDS AssetProofPath

CONSTANTS Plans,       \* the sets of transactions the host may sign
          Blocks,      \* the sets of transactions a block may bring
          Slots,       \* the paths the host keeps at a time
          MaxBlocks,   \* bound: length of the chain
          MaxReorgs    \* bound: blocks disconnected in a behaviour

ASSUME HostAssumption == Plans \subseteq SUBSET TxNames /\ IsFiniteSet(Slots)

VARIABLES graph,          \* the host's signed transactions, free of conflicts
          chain,          \* blocks [id, txs], the genesis block with the mints
          reorgs,
          confirmations,  \* the block each transaction was last seen in
          held,           \* slot -> path in memory
          stored          \* slot -> encoded path

vars == <<graph, chain, reorgs, confirmations, held, stored>>
world == <<graph, chain, reorgs, confirmations>>

None == <<>>    \* a path without nodes

ChainTxs == UNION {block.txs : block \in ToSet(chain)}

Conflicting(t, u) ==
    /\ t # u
    /\ ToSet(Transactions[t].inputs) \cap ToSet(Transactions[u].inputs) # {}

Created(txs) == UNION {OutputsOf(t) : t \in txs}

-----------------------------------------------------------------------------
(* The reference: the assets that exist, given the transactions that do.  An *)
(* output of a transition is genuine when Bitcoin spends every outpoint the  *)
(* witnesses name, those hold unlocked assets of its identity that are       *)
(* genuine themselves, and the transition creates nothing.  The ledger is    *)
(* the least set that has the minted assets and every genuine output.        *)

Genuine(o, known) ==
    LET tx == Transactions[o[1]]
        spent == ToSet(tx.witnesses)
    IN  /\ spent \subseteq ToSet(tx.inputs) \cap known
        /\ \A i \in spent : ~Asset(i).locked /\ SameIdentity(Asset(i), Asset(o))
        /\ TotalOf(spent) = TotalOf(OutputsOf(o[1]))

Complete(known, txs) ==
    /\ Created(txs \cap Mints) \subseteq known
    /\ \A o \in Created(txs \ Mints) : Genuine(o, known) => o \in known

LedgerOf(txs) ==
    LET complete == {known \in SUBSET Created(txs) : Complete(known, txs)}
    IN  {o \in Created(txs) : \A known \in complete : o \in known}

\* The ledgers of all sets of transactions: a constant, computed once.
Ledgers == UNION {{<<txs, o>> : o \in LedgerOf(txs)} : txs \in SUBSET TxNames}

Ledger(txs) == {o \in Created(txs) : <<txs, o>> \in Ledgers}

-----------------------------------------------------------------------------
(* The backend's answer for a confirmed file: every lineage in it begins at  *)
(* a mint, every proof is in a block of the chain, every asset it spends is  *)
(* proved by the proof before it or by an embedded lineage, and the ledger   *)
(* of the chain has the tip.                                                 *)

TipsOf(lineages) == {Outpoint(Last(l)) : l \in lineages}

LineageAnchored(lineage, embedded) ==
    /\ lineage[1].tx \in Mints
    /\ \A k \in DOMAIN lineage :
          /\ lineage[k].block \in ToSet(chain)
          /\ lineage[k].tx \in lineage[k].block.txs
          /\ lineage[k].merged \subseteq TipsOf(embedded)
          /\ k > 1 => ToSet(Transactions[lineage[k].tx].witnesses) =
                          {Outpoint(lineage[k - 1])} \cup lineage[k].merged

Anchored(file) ==
    \A lineage \in {file.proofs} \cup file.embedded :
        LineageAnchored(lineage, file.embedded)

VerifyConfirmedProof(file) ==
    Anchored(file) /\ Outpoint(Last(file.proofs)) \in Ledger(ChainTxs)

\* AssetProofPath.Verify, with the host's own record as verifier.
Verifies(path) ==
    /\ Validate(path)
    /\ VerifyChain(path, graph)
    /\ \A file \in BaseFiles(path) : VerifyConfirmedProof(file)

-----------------------------------------------------------------------------
Genesis == [id |-> <<0, 0>>, txs |-> Mints]

MintFile(mint) ==
    [proofs |-> <<[tx |-> mint, out |-> 1, block |-> Genesis, merged |-> {}]>>,
     embedded |-> {}]

\* A path without steps.
Unextended(file) == [q \in {Root} |-> [base |-> file, steps |-> <<>>]]

Init ==
    /\ graph = {}
    /\ chain = <<Genesis>>
    /\ reorgs = 0
    /\ confirmations = [t \in Mints |-> Genesis]
    /\ held = [s \in Slots |-> None]
    /\ stored = [s \in Slots |-> None]

(* The host signs the transactions of a plan together.                       *)
Sign(plan) ==
    /\ graph = {}
    /\ \A t, u \in plan \cup ChainTxs : ~Conflicting(t, u)
    /\ \A t \in plan :
          ToSet(Transactions[t].inputs) \subseteq Created(plan \cup ChainTxs)
    /\ graph' = plan
    /\ UNCHANGED <<chain, reorgs, confirmations, held, stored>>

(* A block is connected; the host notes where its transactions are.          *)
Mine(txs) ==
    /\ txs # {} /\ txs \cap ChainTxs = {}
    /\ Len(chain) < MaxBlocks
    /\ \A t \in txs : ToSet(Transactions[t].inputs) \subseteq
                          Created(ChainTxs \cup txs)
    /\ LET block == [id |-> <<Len(chain), reorgs>>, txs |-> txs]
       IN  /\ chain' = Append(chain, block)
           /\ confirmations' = [t \in txs \cup DOMAIN confirmations |->
                                   IF t \in txs THEN block ELSE confirmations[t]]
    /\ UNCHANGED <<graph, reorgs, held, stored>>

(* The last block is disconnected.  Nothing tells a path about it.           *)
Reorg ==
    /\ Len(chain) > 1 /\ reorgs < MaxReorgs
    /\ chain' = Front(chain)
    /\ reorgs' = reorgs + 1
    /\ UNCHANGED <<graph, confirmations, held, stored>>

(* A path begins at a confirmed asset the signed plan moves.                 *)
Begin(s, mint) ==
    /\ graph # {} /\ held[s] = None /\ stored[s] = None
    /\ held' = [held EXCEPT ![s] = Unextended(MintFile(mint))]
    /\ UNCHANGED <<world, stored>>

\* The other paths a step may merge, in any order.
CoInputs(s) ==
    {co \in SeqOf(Slots \ {s}, Cardinality(Slots) - 1) : IsInjective(co)}

(* The host appends the transition of one output, with paths of inputs that  *)
(* it names: whether they are all of them, each once, is for Verify to say.  *)
Extend(s, t, out, co) ==
    /\ held[s] # None /\ Len(held[s][Root].steps) <= MaxSteps
    /\ Tip(held[s][Root]) \in ToSet(Transactions[t].inputs)
    /\ \A j \in DOMAIN co :
          /\ held[co[j]] # None
          /\ Tip(held[co[j]][Root]) \in ToSet(Transactions[t].witnesses)
    /\ LET step == [tx |-> t, out |-> out, prev |-> Tip(held[s][Root]),
                    co |-> Len(co)]
       IN  held' = [c \in Slots |->
                       IF c \in ToSet(co) THEN None
                       ELSE IF c # s THEN held[c]
                       ELSE Extended(held[s], step, [j \in DOMAIN co |-> held[co[j]]])]
    /\ UNCHANGED <<world, stored>>

(* The mined path becomes a confirmed file, the base of a path without steps. *)
Confirm(s) ==
    /\ held[s] # None /\ held[s][Root].steps # <<>>
    /\ Confirmable(held[s], confirmations)
    /\ held' = [held EXCEPT ![s] =
                   Unextended(ConfirmProofFile(held[s], confirmations))]
    /\ UNCHANGED <<world, stored>>

(* MarshalBinary into the host's storage (bound: one path at a time).         *)
Store(s) ==
    /\ held[s] # None /\ Validate(held[s])
    /\ \A c \in Slots : stored[c] = None
    /\ stored' = [stored EXCEPT ![s] = Encode(held[s])]
    /\ held' = [held EXCEPT ![s] = None]
    /\ UNCHANGED world

(* UnmarshalBinary: the receiver is left alone when it fails.                *)
Load(s) ==
    /\ stored[s] # None /\ Unmarshals(stored[s])
    /\ held' = [held EXCEPT ![s] = Decode(stored[s])]
    /\ stored' = [stored EXCEPT ![s] = None]
    /\ UNCHANGED world

Damage(s) ==
    /\ stored[s] # None
    /\ stored' = [stored EXCEPT ![s][Root].sum = FALSE]
    /\ UNCHANGED <<world, held>>

Crash ==
    /\ held' = [s \in Slots |-> None]
    /\ UNCHANGED <<world, stored>>

Next ==
    \/ \E plan \in Plans : Sign(plan)
    \/ \E block \in Blocks : block \subseteq graph /\ Mine(block)
    \/ Reorg
    \/ \E s \in Slots :
         \/ \E m \in Mints : Begin(s, m)
         \/ \E t \in TxNames \ Mints, co \in CoInputs(s) :
               \E out \in DOMAIN Transactions[t].outputs : Extend(s, t, out, co)
         \/ Confirm(s) \/ Store(s) \/ Load(s) \/ Damage(s)
    \/ Crash

Spec == Init /\ [][Next]_vars

-----------------------------------------------------------------------------
(* What Verify accepts exists: the tip was made by transitions the protocol  *)
(* allows out of the transactions that were signed or mined, so its amount   *)
(* and identity are what the chain will hold, its output carries no other    *)
(* asset, and all anchors of the path can be mined together.  The host       *)
(* attests single transactions only.                                         *)
VerifiedIsGenuine ==
    \A s \in Slots : held[s] # None /\ Verifies(held[s]) =>
        /\ Tip(held[s][Root]) \in Ledger(graph \cup ChainTxs)
        /\ Asset(Tip(held[s][Root])).alone
        /\ \A t \in AnchorTxs(held[s]), u \in graph \cup ChainTxs : ~Conflicting(t, u)

(* A verified path whose anchors are all in the chain becomes a confirmed    *)
(* file the backend accepts, for the same asset.                             *)
MinedPathsConfirm ==
    \A s \in Slots :
        /\ held[s] # None
        /\ \A t \in AnchorTxs(held[s]) :
              t \in DOMAIN confirmations /\ confirmations[t] \in ToSet(chain)
        /\ Verifies(held[s])
        => /\ Confirmable(held[s], confirmations)
           /\ LET file == ConfirmProofFile(held[s], confirmations)
              IN  /\ VerifyConfirmedProof(file)
                  /\ Outpoint(Last(file.proofs)) = Tip(held[s][Root])

(* A path that was stored is loaded again unless its bytes were damaged.     *)
StoredPathsLoad ==
    \A s \in Slots :
        stored[s] # None /\ stored[s][Root].sum => Unmarshals(stored[s])

(* The same for the paths whose encoding is within the limit, which is not   *)
(* all that Validate lets through: MarshalBinary writes two bytes for each   *)
(* step that validateShape does not charge.                                  *)
PathsWithinLimitLoad ==
    \A s \in Slots :
        /\ stored[s] # None /\ stored[s][Root].sum
        /\ stored[s][Root].size <= MaxPathSize
        => Unmarshals(stored[s])
=============================================================================
