---------------------------- MODULE BuilderData ----------------------------
(***************************************************************************)
(* The data the transaction builders of txn_builder/src/txn_builder.rs     *)
(* work on.  An asset record (AssetRecord, or the OpenAssetRecord of an    *)
(* input) is its amount, asset type and owner; keys and TxoRefs are model  *)
(* values.  Amounts are u64, narrowed to AmtWidth bits: a sum of amounts   *)
(* (iter().sum() or a fold with +) wraps in a release build and panics in  *)
(* a debug build.                                                          *)
(***************************************************************************)
EXTENDS Integers, Sequences, SequencesExt, Functions, TLC

CONSTANTS
    AssetTypes,  \* asset type codes
    Keys,        \* key pairs: owners of records and signers
    Refs,        \* TxoRefs naming inputs
    AmtWidth,    \* bits of an amount (u64 in the code)
    DebugBuild,  \* TRUE: arithmetic overflow panics
    None         \* Option::None

ASSUME AmtWidth \in Nat \ {0} /\ DebugBuild \in BOOLEAN

AmtMax == 2^AmtWidth - 1
Amounts == 0..AmtMax

\* AssetRecord::new(amount, asset_type, pub_key) and OpenAssetRecord.
AssetRecords == [amount : Amounts, asset_type : AssetTypes, pub_key : Keys]

\* The amounts of a list of records.
AmountsOf(recs) == [i \in DOMAIN recs |-> recs[i].amount]

\* The mathematical sum of a list of amounts; the u64 sum computed by the
\* code is Wrapped of it, and overflows when it exceeds AmtMax (all partial
\* sums are below the total, so the first overflow happens iff the total
\* overflows).
Total(amts) == SumFunction(amts)
Wrapped(n) == n % (AmtMax + 1)
Overflows(n) == n > AmtMax

\* Mutation: the leftover record carries the spent amount.
RemaindersOfSpend(spends, recs) ==
    LET idx == SelectSeq([i \in 1..Len(spends) |-> i], LAMBDA i : spends[i] < recs[i].amount)
    IN  [j \in 1..Len(idx) |-> [recs[idx[j]] EXCEPT !.amount = spends[idx[j]]]]

\* The leftover records of the inputs a spend list does not use up (the
\* partially_consumed_inputs loop): for each input spent below its amount,
\* a record of the rest for the same type and owner.
Remainders(spends, recs) ==
    LET idx == SelectSeq([i \in 1..Len(spends) |-> i], LAMBDA i : spends[i] < recs[i].amount)
    IN  [j \in 1..Len(idx) |-> [recs[idx[j]] EXCEPT !.amount = @ - spends[idx[j]]]]

\* Some input is asked to spend more than it holds.
Overspent(spends, recs) == \E i \in 1..Len(spends) : spends[i] > recs[i].amount

\* The total amount of one asset type in a list of records.
TypeTotal(recs, t) ==
    Total(AmountsOf(SelectSeq(recs, LAMBDA r : r.asset_type = t)))

\* Input records and output records carry the same amount of every type.
Conserved(ins, outs) == \A t \in AssetTypes : TypeTotal(ins, t) = TypeTotal(outs, t)

=============================================================================
