----------------------------- MODULE TxnBuilder -----------------------------
(***************************************************************************)
(* TransactionBuilder of txn_builder/src/txn_builder.rs with the default   *)
(* methods of BuildsTransactions: each add_* call appends one operation    *)
(* to the transaction.  add_basic_transfer_asset computes the outputs of a *)
(* transfer itself: the requested outputs, all of the asset type of the    *)
(* first input, then the leftovers of partially spent inputs.  Key and     *)
(* record constructors of zei (DefineAssetBody::new, IssueAsset::new,      *)
(* TransferAssetBody::new, open_asset_record) are modelled on success; a   *)
(* call returning Err changes nothing and is no step.                      *)
(***************************************************************************)
EXTENDS BuilderData

CONSTANTS
    MaxOps,      \* bound on the operations of the transaction
    MaxFrom,     \* most inputs of one add_basic_transfer_asset
    MaxTo,       \* most outputs of one add_basic_transfer_asset
    SeqNums      \* issuance sequence numbers offered

VARIABLES
    txn,         \* Transaction: its operations in order
    basic,       \* indices of the transfers built by add_basic_transfer_asset (history)
    panicked     \* an overflow or an index out of bounds panicked

vars == <<txn, basic, panicked>>

\* TransactionBuilder::default
Init == txn = <<>> /\ basic = {} /\ panicked = FALSE

\* self.txn.add_operation(op), the end of every add_operation_* method.
AddOp(op) ==
    /\ ~panicked /\ Len(txn) < MaxOps
    /\ txn' = Append(txn, op)

DefineOp(code) == [type |-> "DefineAsset", code |-> code]
IssueOp(code, seq_num, records) ==
    [type |-> "IssueAsset", code |-> code, seq_num |-> seq_num, records |-> records]
TransferOp(input_sids, input_records, output_records) ==
    [type |-> "TransferAsset", inputs |-> input_sids, in_records |-> input_records,
     outputs |-> output_records]

\* add_operation_create_asset: token_code, or a random code when None.
AddOperationCreateAsset(code) ==
    AddOp(DefineOp(code)) /\ UNCHANGED <<basic, panicked>>

AddOperationIssueAsset(code, seq_num, records) ==
    AddOp(IssueOp(code, seq_num, records)) /\ UNCHANGED <<basic, panicked>>

AddOperationTransferAsset(input_sids, input_records, output_records) ==
    AddOp(TransferOp(input_sids, input_records, output_records)) /\ UNCHANGED <<basic, panicked>>

\* add_basic_issue_asset: one record of `amount` of the code, owned by the
\* issuer.
AddBasicIssueAsset(issuer, code, seq_num, amount) ==
    AddOperationIssueAsset(code, seq_num,
                           <<[amount |-> amount, asset_type |-> code, pub_key |-> issuer]>>)

(***************************************************************************)
(* add_basic_transfer_asset(key_pair, transfer_from, transfer_to):         *)
(* input_total (may overflow), the loop rejecting an overspent input and   *)
(* collecting leftovers, output_total (may overflow), the comparison, then *)
(* input_oars[0] (panics when there is no input), the outputs and the      *)
(* operation.  from: <<TxoRef, record, amount>>; to: <<amount, address>>.  *)
(***************************************************************************)
BasicTransferOutcome(from, to) ==
    LET oars == [i \in DOMAIN from |-> from[i][2]]
        amts == [i \in DOMAIN from |-> from[i][3]]
        input_total == Total(amts)
        output_total == Total([j \in DOMAIN to |-> to[j][1]])
    IN  CASE DebugBuild /\ Overflows(input_total)            -> "panic"
          [] Overspent(amts, oars)                            -> "err"
          [] DebugBuild /\ Overflows(output_total)           -> "panic"
          [] Wrapped(input_total) # Wrapped(output_total)    -> "err"
          [] from = <<>>                                      -> "panic"
          [] OTHER                                            -> "ok"

BasicTransferOutputs(from, to) ==
    LET oars == [i \in DOMAIN from |-> from[i][2]]
        amts == [i \in DOMAIN from |-> from[i][3]]
        asset_type == oars[1].asset_type
    IN  [j \in DOMAIN to |-> [amount |-> to[j][1], asset_type |-> asset_type, pub_key |-> to[j][2]]]
        \o Remainders(amts, oars)

AddBasicTransferAsset(from, to) ==
    \/ /\ BasicTransferOutcome(from, to) = "ok"
       /\ AddOp(TransferOp([i \in DOMAIN from |-> from[i][1]],
                           [i \in DOMAIN from |-> from[i][2]],
                           BasicTransferOutputs(from, to)))
       /\ basic' = basic \cup {Len(txn) + 1}
       /\ UNCHANGED panicked
    \/ /\ ~panicked
       /\ BasicTransferOutcome(from, to) = "panic"
       /\ panicked' = TRUE
       /\ UNCHANGED <<txn, basic>>

Halted == panicked /\ UNCHANGED vars

\* The arguments callers pass: inputs spending part of a record they hold,
\* outputs to any key.
FromEntries == Refs \X AssetRecords \X Amounts
ToEntries == Amounts \X Keys

Next ==
    \/ \E code \in AssetTypes : AddOperationCreateAsset(code)
    \/ \E code \in AssetTypes, s \in SeqNums, r \in AssetRecords :
          AddOperationIssueAsset(code, s, <<r>>)
    \/ \E issuer \in Keys, code \in AssetTypes, s \in SeqNums, amount \in Amounts :
          AddBasicIssueAsset(issuer, code, s, amount)
    \/ \E sid \in Refs, i \in AssetRecords, o \in AssetRecords :
          AddOperationTransferAsset(<<sid>>, <<i>>, <<o>>)
    \/ \E from \in BoundedSeq(FromEntries, MaxFrom), to \in BoundedSeq(ToEntries, MaxTo) :
          AddBasicTransferAsset(from, to)
    \/ Halted

Spec == Init /\ [][Next]_vars

-----------------------------------------------------------------------------
\* Every transfer add_basic_transfer_asset puts in the transaction moves,
\* for every asset type, exactly the amount its input records hold: the
\* requested outputs take what is spent, the leftover records the rest.
BasicTransfersConserve ==
    \A i \in basic : Conserved(txn[i].in_records, txn[i].outputs)

\* add_basic_transfer_asset returns Err on bad arguments and never aborts
\* the process (its signature returns Result<&mut Self, PlatformError>).
NeverPanics == ~panicked

=============================================================================
