------------------------- MODULE TransferOpBuilder -------------------------
(***************************************************************************)
(* TransferOperationBuilder of txn_builder/src/txn_builder.rs: inputs and  *)
(* outputs are added one at a time, balance() adds the leftover records,   *)
(* create() builds the transfer and sign() signs it; once a transfer has   *)
(* been created the lists may no longer change.  Each action is one method *)
(* call that succeeds; a call returning Err changes nothing and is no      *)
(* step.  TransferAssetBody::new (zei) is external: create() is modelled   *)
(* on its success.                                                         *)
(***************************************************************************)
EXTENDS BuilderData

CONSTANTS
    MaxInputs,   \* bound on add_input calls
    MaxOutputs,  \* bound on add_output calls
    MaxSigs      \* bound on sign calls per transfer

VARIABLES
    input_sids,      \* Vec<TxoRef>
    input_records,   \* Vec<OpenAssetRecord>
    spend_amounts,   \* Vec<u64>: how much of each input to spend
    output_records,  \* Vec<AssetRecord>
    transfer,        \* Option<TransferAsset>: body and signers
    panicked         \* an overflow panicked (debug build)

vars == <<input_sids, input_records, spend_amounts, output_records, transfer, panicked>>

\* TransferOperationBuilder::new
Init ==
    /\ input_sids = <<>> /\ input_records = <<>> /\ spend_amounts = <<>>
    /\ output_records = <<>> /\ transfer = None /\ panicked = FALSE

\* Mutation: the "Cannot mutate a transfer that has been signed" check is
\* missing.
MutableAlways == TRUE

\* The guard of add_input, add_output and balance: no transfer created yet.
Mutable == transfer = None

\* Mutation: the spend amount is not recorded.
AddInputNoSpend(txo_sid, open_ar, amount) ==
    /\ ~panicked /\ Mutable
    /\ Len(input_sids) < MaxInputs
    /\ input_sids' = Append(input_sids, txo_sid)
    /\ input_records' = Append(input_records, open_ar)
    /\ UNCHANGED <<spend_amounts, output_records, transfer, panicked>>

AddInput(txo_sid, open_ar, amount) ==
    /\ ~panicked /\ Mutable
    /\ Len(input_sids) < MaxInputs
    /\ input_sids' = Append(input_sids, txo_sid)
    /\ input_records' = Append(input_records, open_ar)
    /\ spend_amounts' = Append(spend_amounts, amount)
    /\ UNCHANGED <<output_records, transfer, panicked>>

AddOutput(amount, recipient, code) ==
    /\ ~panicked /\ Mutable
    /\ Len(output_records) < MaxOutputs
    /\ output_records' = Append(output_records,
                                [amount |-> amount, asset_type |-> code, pub_key |-> recipient])
    /\ UNCHANGED <<input_sids, input_records, spend_amounts, transfer, panicked>>

(***************************************************************************)
(* balance(): spend_total (may overflow), the loop that rejects an         *)
(* overspent input and collects the leftovers, output_total (may           *)
(* overflow), the u64 comparison, then the leftovers appended.            *)
(***************************************************************************)
BalanceOutcome ==
    LET spend_total == Total(spend_amounts)
        output_total == Total(AmountsOf(output_records))
    IN  CASE DebugBuild /\ Overflows(spend_total)              -> "panic"
          [] Overspent(spend_amounts, input_records)            -> "err"
          [] DebugBuild /\ Overflows(output_total)             -> "panic"
          [] Wrapped(spend_total) # Wrapped(output_total)      -> "err"
          [] OTHER                                             -> "ok"

Balance ==
    /\ ~panicked /\ Mutable
    /\ \/ /\ BalanceOutcome = "ok"
          /\ output_records' = output_records \o Remainders(spend_amounts, input_records)
          /\ UNCHANGED <<input_sids, input_records, spend_amounts, transfer, panicked>>
       \/ /\ BalanceOutcome = "panic"
          /\ panicked' = TRUE
          /\ UNCHANGED <<input_sids, input_records, spend_amounts, output_records, transfer>>

\* create(): a new, unsigned transfer of the current lists (no guard).
Create ==
    /\ ~panicked
    /\ transfer' = [inputs |-> input_sids, in_records |-> input_records,
                    outputs |-> output_records, signers |-> <<>>]
    /\ UNCHANGED <<input_sids, input_records, spend_amounts, output_records, panicked>>

\* sign(kp): requires a created transfer, adds a signature by kp.
Sign(kp) ==
    /\ ~panicked /\ transfer # None
    /\ Len(transfer.signers) < MaxSigs
    /\ transfer' = [transfer EXCEPT !.signers = Append(@, kp)]
    /\ UNCHANGED <<input_sids, input_records, spend_amounts, output_records, panicked>>

\* validate_signatures(): a created transfer whose every input owner has
\* signed (signatures are made over the current body, so each verifies).
SignaturesValid ==
    /\ transfer # None
    /\ \A i \in DOMAIN transfer.in_records :
          transfer.in_records[i].pub_key \in ToSet(transfer.signers)

\* transaction(): the built TransferAsset operation, once created.
TransactionOp == IF transfer = None THEN None ELSE transfer

Halted == panicked /\ UNCHANGED vars

Next ==
    \/ \E sid \in Refs, oar \in AssetRecords, amount \in Amounts : AddInput(sid, oar, amount)
    \/ \E amount \in Amounts, recipient \in Keys, code \in AssetTypes : AddOutput(amount, recipient, code)
    \/ Balance
    \/ Create
    \/ \E kp \in Keys : Sign(kp)
    \/ Halted

Spec == Init /\ [][Next]_vars

-----------------------------------------------------------------------------
TypeOK ==
    /\ input_sids \in Seq(Refs) /\ input_records \in Seq(AssetRecords)
    /\ spend_amounts \in Seq(Amounts) /\ output_records \in Seq(AssetRecords)
    /\ Len(input_sids) = Len(input_records) /\ Len(input_records) = Len(spend_amounts)
    /\ panicked \in BOOLEAN

\* A balance() that succeeds leaves outputs that carry, for every asset
\* type, exactly the amount the input records hold: what was spent goes to
\* the outputs added so far, the rest to the leftover records ("Ensures
\* that outputs and inputs are balanced by adding remainder outputs").
BalanceConserves ==
    [][Balance /\ ~panicked' => Conserved(input_records, output_records')]_vars

\* The transfer that transaction() hands out is the one the builder's
\* lists describe: after create() no add_input, add_output or balance can
\* change the lists behind it.
TransferMatchesBuilder ==
    TransactionOp # None =>
        /\ TransactionOp.inputs = input_sids
        /\ TransactionOp.in_records = input_records
        /\ TransactionOp.outputs = output_records

\* A transfer that validate_signatures() accepted stays accepted: once
\* every input owner has signed, no later call leaves transaction()
\* handing out a transfer that lacks a signature ("Cannot mutate a
\* transfer that has been signed").
ValidatedStaysSigned ==
    [][SignaturesValid => SignaturesValid']_vars

=============================================================================
