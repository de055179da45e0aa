----------------------- MODULE MCCustomAnchorSigning -----------------------
(***************************************************************************)
(* A four-input anchor: one key-path, one script-path, one caller-signed   *)
(* and one backend-managed input, the smallest one where every kind of     *)
(* signing plan that differs in control meets every other.                 *)
(***************************************************************************)
EXTENDS CustomAnchorSigning, Naturals, TLC

CONSTANTS w1, w2

MCWorkers == {w1, w2}
MCInputs == 0..3
MCTxs == {"tx", "otherTx"}
MCMetas == {"meta", "drifted"}
MCBodies == {"sealed", "damaged"}

ByInput(v0, v1, v2, v3) == 0 :> v0 @@ 1 :> v1 @@ 2 :> v2 @@ 3 :> v3

\* The damaged body drops the sealed spending paths: any witness would do.
MCPlanOf ==
    "sealed" :> ByInput("keyPath", "scriptPath", "callerSigned", "backend") @@
    "damaged" :> ByInput("backend", "backend", "callerSigned", "backend")

MCCommitted ==
    [tx |-> "tx", meta |-> "meta", signing |-> [i \in MCInputs |-> "meta"],
     keySig |-> [i \in MCInputs |-> None], final |-> [i \in MCInputs |-> None]]

\* Finals an external finalizer may return, in part or in full, on the right
\* or another transaction, with the committed or drifted metadata.
MCSupplied ==
    {[MCCommitted EXCEPT !.tx = t, !.meta = m,
                         !.final = ByInput(f0, f1, f2, f3)] :
        t \in MCTxs, m \in MCMetas,
        f0 \in {None, "keyPath", "keyPathOther", "annexed"},
        f1 \in {None, "scriptPath", "scriptPathUnsealed", "otherLeaf"},
        f2 \in {"otherLeaf", "annexed"},
        f3 \in {"annexed", "invalid"}}

\* Bit rot in the transaction, in the metadata, in a signature, in a witness.
MCDamaged ==
    {[MCCommitted EXCEPT !.tx = "otherTx"],
     [MCCommitted EXCEPT !.meta = "drifted"],
     [MCCommitted EXCEPT !.keySig[0] = "badSig"],
     Serialized([MCCommitted EXCEPT !.final[1] = "invalid"])}

Symmetry == Permutations(MCWorkers)

=============================================================================
