------------------------------ MODULE MC_Ledger ------------------------------
(* Model-checking instance of Ledger: one or two asset codes, two records. *)
EXTENDS Ledger

CONSTANTS A, B, r1, r2

MC_Codes == {A}
MC_Records == {r1, r2}

\* Transactions whose transfers zei's verify_xfr_note could accept: a record
\* stands for an amount of a type, so a balanced transfer with a valid
\* proof outputs the records it consumes.  proofOk alone is a free verdict.
Balanced(op) ==
    \A r \in Records :
        Cardinality({k \in DOMAIN op.xfr_inputs : op.xfr_inputs[k] = r})
            = Cardinality({k \in DOMAIN op.xfr_outputs : op.xfr_outputs[k] = r})

MC_BalancedTransactions ==
    {t \in BoundedSeq(Operations, MaxOps) :
        \A i \in DOMAIN t : t[i].type = "TransferAsset" /\ t[i].proofOk => Balanced(t[i])}

\* No definition tells one record from another, so permuting them is sound.
MC_Symmetry == Permutations(MC_Records)
=============================================================================
