---------------------------- MODULE MC_TxnEffect ----------------------------
(***************************************************************************)
(* Bounded check of the pure effect compiler: every transaction of the     *)
(* bounded set is an initial state, and the properties relate its effect   *)
(* to the reference definition and to deep_invariant_check.                *)
(***************************************************************************)
EXTENDS TxnEffect

CONSTANTS A, B, r1, r2

MC_Codes == {A, B}
MC_Records == {r1, r2}

\* Operations whose signatures and proofs verify and whose counts agree:
\* the others are rejected by the first guard of their step, which the
\* properties below, about accepted transactions, do not look at.
WellFormedOps ==
    {op \in DefineOps : op.sigOk}
    \cup {op \in IssueOps : op.sigOk /\ op.num_outputs = Len(op.records)}
    \cup {op \in TransferOps : /\ op.sigsOk /\ op.proofOk
                                /\ op.num_outputs = Len(op.xfr_outputs)
                                /\ Len(op.inputs) = Len(op.xfr_inputs)}

VARIABLE txn

Init == txn \in BoundedSeq(WellFormedOps, MaxOps)
\* The transaction under check does not change.
Next == UNCHANGED txn
Spec == Init /\ [][Next]_txn

\* An accepted transaction's output slots are exactly the reference slots:
\* each operation's outputs in order, emptied where a relative input of a
\* later transfer consumed them (the (txo_count-1)-offs arithmetic and the
\* txos[ix] = None of compute_effect).
SlotsMatchReference ==
    LET eff == compute_effect(txn)
    IN  ~IsErr(eff) => eff.txos = ReferenceSlots(txn)

\* deep_invariant_check accepts every effect compute_effect accepts (the
\* spec, 4.1: the internal check holds for every validated effect).
DeepInvariantHolds ==
    LET eff == compute_effect(txn)
    IN  ~IsErr(eff) => deep_invariant_check(txn, eff)
=============================================================================
