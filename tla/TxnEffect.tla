----------------------------- MODULE TxnEffect -----------------------------
(***************************************************************************)
(* The transaction effect compiler of ledger/src/store/store.rs:           *)
(* TxnEffect::compute_effect, which walks the operations of a transaction  *)
(* in order and either rejects it (InputsError, or a failed signature or   *)
(* zero-knowledge proof) or returns the TxnEffect: the output slots it     *)
(* creates (internally spent ones are None), the absolute inputs it        *)
(* claims, the asset codes it defines and the issuance sequence numbers it *)
(* uses per code.                                                          *)
(*                                                                         *)
(* Data is abstract: an asset record (BlindAssetRecord) is a model value   *)
(* of Records, an asset code a model value of Codes.  Signature and proof  *)
(* verification are opaque oracles, so every operation carries the         *)
(* verdict they return (sigOk, proofOk).  A u64 sequence number is         *)
(* narrowed to SeqWidth bits so that its maximum is reachable.             *)
(***************************************************************************)
EXTENDS Integers, Sequences, SequencesExt, TLC

CONSTANTS
    Codes,      \* asset type codes (model values)
    Records,    \* asset records carried by outputs (model values)
    SeqWidth,   \* bits of an issuance sequence number (u64 in the code)
    MaxOut,     \* most outputs (records) of one Issue or Transfer
    MaxIn,      \* most inputs of one Transfer
    MaxRel,     \* Relative offsets range over 0..MaxRel-1
    MaxTxo,     \* Absolute TxoSIDs range over 0..MaxTxo-1
    MaxOps,     \* most operations of one transaction
    None        \* an internally consumed output slot (Option::None)

ASSUME None \notin Records /\ SeqWidth \in Nat \ {0} /\ {MaxOut, MaxIn, MaxRel, MaxTxo, MaxOps} \subseteq Nat

\* The largest sequence number, u64::MAX in the code.
SeqMax == 2^SeqWidth - 1
SeqNums == 0..SeqMax

\* The error every rejection of compute_effect is abstracted to.
Err == [err |-> "InputsError"]
IsErr(e) == "err" \in DOMAIN e

\* TxoRef::Relative(offset) and TxoRef::Absolute(TxoSID).
TxoRefs ==
    [kind : {"Relative"}, offs : 0..(MaxRel - 1)]
    \cup [kind : {"Absolute"}, sid : 0..(MaxTxo - 1)]

\* The three Operation variants.  num_outputs and the transfer body's own
\* input list are separate fields, as in the code, so that their count
\* mismatches are inputs too.
DefineOps == [type : {"DefineAsset"}, code : Codes, sigOk : BOOLEAN]
IssueOps ==
    [type : {"IssueAsset"}, code : Codes, seq_num : SeqNums,
     num_outputs : 0..MaxOut, records : BoundedSeq(Records, MaxOut),
     sigOk : BOOLEAN]
TransferOps ==
    [type : {"TransferAsset"}, inputs : BoundedSeq(TxoRefs, MaxIn),
     xfr_inputs : BoundedSeq(Records, MaxIn), num_outputs : 0..MaxOut,
     xfr_outputs : BoundedSeq(Records, MaxOut), sigsOk : BOOLEAN,
     proofOk : BOOLEAN]
Operations == DefineOps \cup IssueOps \cup TransferOps

Transactions == BoundedSeq(Operations, MaxOps)

\* The fields of struct TxnEffect: slots of the new outputs (None for an
\* internally spent one), the consumed TXOs with the records claimed, the
\* new asset codes, and per code the issuance numbers used, ascending.
IsTxnEffect(e) ==
    /\ DOMAIN e = {"txos", "input_txos", "new_asset_codes", "new_issuance_nums"}
    /\ DOMAIN e.txos = 1..Len(e.txos)
    /\ \A i \in DOMAIN e.txos : e.txos[i] \in Records \cup {None}
    /\ \A sid \in DOMAIN e.input_txos : sid \in Nat /\ e.input_txos[sid] \in Records
    /\ e.new_asset_codes \subseteq Codes
    /\ \A c \in DOMAIN e.new_issuance_nums :
          LET nums == e.new_issuance_nums[c]
          IN  /\ c \in Codes
              /\ \A i \in DOMAIN nums : nums[i] \in SeqNums
              /\ \A i \in 1..(Len(nums) - 1) : nums[i] < nums[i + 1]

(***************************************************************************)
(* The local variables of compute_effect (txo_count is Len(txos)).         *)
(* new_asset_codes maps a code to its AssetType, which is determined by    *)
(* the defining operation's code here, so it is kept as a set of codes.    *)
(***************************************************************************)
EmptyEffect ==
    [txos |-> <<>>, input_txos |-> <<>>, new_asset_codes |-> {},
     new_issuance_nums |-> <<>>]

\* A function with one more (or a replaced) entry.
Put(f, k, v) == (k :> v) @@ f

\* Operation::DefineAsset: signature, then no earlier definition or
\* issuance of the code in this transaction.
DefineStep(e, op) ==
    IF \/ ~op.sigOk
       \/ op.code \in e.new_asset_codes
       \/ op.code \in DOMAIN e.new_issuance_nums
    THEN Err
    ELSE [e EXCEPT !.new_asset_codes = @ \cup {op.code},
                   !.new_issuance_nums = Put(@, op.code, <<>>)]

\* Operation::IssueAsset: output count, strictly increasing sequence
\* numbers within the transaction, signature, then the outputs.
IssueStep(e, op) ==
    LET nums == IF op.code \in DOMAIN e.new_issuance_nums
                THEN e.new_issuance_nums[op.code] ELSE <<>>
    IN  IF \/ op.num_outputs # Len(op.records)
           \/ nums # <<>> /\ op.seq_num <= Last(nums)
           \/ ~op.sigOk
        THEN Err
        ELSE [e EXCEPT !.new_issuance_nums = Put(@, op.code, Append(nums, op.seq_num)),
                       !.txos = @ \o op.records]

\* Mutation: a relative input is checked but its slot is not emptied.
InputStepNoMark(e, inp) ==
    LET ref == inp[1]
        record == inp[2]
    IN  IF IsErr(e) THEN Err
        ELSE IF ref.kind = "Relative"
        THEN LET ix == Len(e.txos) - ref.offs
             IN  IF \/ ref.offs >= Len(e.txos)
                    \/ e.txos[ix] = None
                    \/ e.txos[ix] # record
                 THEN Err
                 ELSE e
        ELSE IF ref.sid \in DOMAIN e.input_txos
             THEN Err
             ELSE [e EXCEPT !.input_txos = Put(@, ref.sid, record)]

\* One input of a Transfer (the loop over the zipped input lists).
InputStep(e, inp) ==
    LET ref == inp[1]
        record == inp[2]
    IN  IF IsErr(e) THEN Err
        ELSE IF ref.kind = "Relative"
        THEN LET ix == Len(e.txos) - ref.offs    \* (txo_count-1)-offs, 1-based
             IN  IF \/ ref.offs >= Len(e.txos)
                    \/ e.txos[ix] = None
                    \/ e.txos[ix] # record
                 THEN Err
                 ELSE [e EXCEPT !.txos[ix] = None]
        ELSE IF ref.sid \in DOMAIN e.input_txos
             THEN Err
             ELSE [e EXCEPT !.input_txos = Put(@, ref.sid, record)]

\* Operation::TransferAsset: counts, body signatures, proof, inputs, outputs.
TransferStep(e, op) ==
    IF \/ Len(op.inputs) # Len(op.xfr_inputs)
       \/ op.num_outputs # Len(op.xfr_outputs)
       \/ ~op.sigsOk
       \/ ~op.proofOk
    THEN Err
    ELSE LET e2 == FoldLeft(InputStep, e, Zip(op.inputs, op.xfr_inputs))
         IN  IF IsErr(e2) THEN Err
             ELSE [e2 EXCEPT !.txos = @ \o op.xfr_outputs]

OpStep(e, op) ==
    IF IsErr(e) THEN Err
    ELSE CASE op.type = "DefineAsset"   -> DefineStep(e, op)
           [] op.type = "IssueAsset"    -> IssueStep(e, op)
           [] op.type = "TransferAsset" -> TransferStep(e, op)

\* TxnEffect::compute_effect: Err, or the effect of the whole transaction.
compute_effect(txn) == FoldLeft(OpStep, EmptyEffect, txn)

-----------------------------------------------------------------------------
(***************************************************************************)
(* HasInvariants::deep_invariant_check for TxnEffect: every absolute input *)
(* is claimed by exactly one TransferAsset input with the same record, no  *)
(* relative input carries that record, and recomputing the effect from the *)
(* transaction gives the same effect.                                      *)
(***************************************************************************)
\* Every input of every transfer of txn, with its position.
TransferInputs(txn) ==
    UNION {{[op |-> j, pos |-> k, ref |-> txn[j].inputs[k], record |-> txn[j].xfr_inputs[k]] :
              k \in 1..Len(Zip(txn[j].inputs, txn[j].xfr_inputs))} :
           j \in {i \in 1..Len(txn) : txn[i].type = "TransferAsset"}}

deep_invariant_check(txn, eff) ==
    \* the count check sits inside the loop over input_txos
    /\ DOMAIN eff.input_txos # {} =>
          \A j \in 1..Len(txn) :
             txn[j].type = "TransferAsset" => Len(txn[j].inputs) = Len(txn[j].xfr_inputs)
    /\ \A sid \in DOMAIN eff.input_txos :
          LET claims == {x \in TransferInputs(txn) :
                            x.ref.kind = "Absolute" /\ x.ref.sid = sid}
          IN  /\ Cardinality(claims) = 1
              /\ \A x \in claims : x.record = eff.input_txos[sid]
              /\ \A x \in TransferInputs(txn) :
                    x.ref.kind = "Relative" => x.record # eff.input_txos[sid]
    /\ compute_effect(txn) = eff

-----------------------------------------------------------------------------
(***************************************************************************)
(* Reference definition of the output slots of an accepted transaction,    *)
(* stated from the data model rather than from the loop: the slots are the *)
(* outputs of all operations in order, and a slot is None exactly when a   *)
(* Relative(offset) input of a later transfer names it, counting offset    *)
(* back from the last output created before that transfer.                 *)
(***************************************************************************)
Outputs(op) == IF op.type = "IssueAsset" THEN op.records
               ELSE IF op.type = "TransferAsset" THEN op.xfr_outputs ELSE <<>>

AllOutputs(txn) == FoldLeft(LAMBDA acc, op : acc \o Outputs(op), <<>>, txn)

\* Number of output slots created before operation j.
OutputsBefore(txn, j) == Len(AllOutputs(SubSeq(txn, 1, j - 1)))

ConsumedSlots(txn) ==
    {OutputsBefore(txn, x.op) - x.ref.offs : x \in {y \in TransferInputs(txn) : y.ref.kind = "Relative"}}

ReferenceSlots(txn) ==
    [i \in 1..Len(AllOutputs(txn)) |->
        IF i \in ConsumedSlots(txn) THEN None ELSE AllOutputs(txn)[i]]

=============================================================================
