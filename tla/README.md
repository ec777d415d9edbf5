# TLA+ models of the ledger store and the transaction builders

These modules model the transaction pipeline of `src/ledger/src/store/store.rs` and the builders of `src/components/txn_builder/src/txn_builder.rs`. A transaction is first compiled into an effect. The effect is then validated against the global state and applied: it changes the unspent outputs, the asset registry and the issuance watermarks, and it extends the Merkle log and the UTXO bitmap. Every definition is translated from the Rust source. `PROJECT.json` "map" names the lines each definition stands for.

## The system and its parts

| part | source | state | operations |
|---|---|---|---|
| Effect compiler | `store.rs` 52-314 | the locals of `compute_effect`: `txos` (with `None` for internally spent slots), `input_txos`, `new_asset_codes`, `new_issuance_nums` | `compute_effect` (a fold over DefineAsset / IssueAsset / TransferAsset), `deep_invariant_check` |
| LedgerStatus | `store.rs` 393-594 | `utxos`, `asset_types`, `issuance_num`, `next_txn`, `next_txo`, `utxo_map_versions`, `global_hash`, `global_commit_count` | `new`, `apply_txn_effects` (stage 1 validation, stage 2 mutation) |
| LedgerState | `store.rs` 454-836 | the status, the Merkle tree and its log file, `txs`, the UTXO bitmap, the (unused) `txn_log` file | `apply_transaction`, `checkpoint` (= `save_utxo_map_version` + `save_global_hash`), `snapshot`, `new`, `load` |
| Read access | `store.rs` 839-912 | none (reads the two above) | `get_utxo`, `get_issuance_num`, `get_asset_type`, `get_transaction`, `get_proof`, `get_utxo_checksum`, `get_global_hash` |
| Errors | `data_model/errors.rs` | none | `PlatformError` |
| ABCI node | `abci_validator_node.rs` | the ledger behind an `RwLock`, the block being built | `check_tx`, `deliver_tx`, `begin_block`, `end_block`, `commit` |
| Transaction builder | `txn_builder.rs` | inputs, outputs and the built transaction | `add_input`, `add_output`, `balance`, `create`, `sign`, `transaction` |
| Query API | `query_api/mod.rs` | none (HTTP reads) | the read handlers |
| CLI tests, EVM globals | `known_answer_tests.rs`, `staking/evm.rs` | none | tests and constants |

**How the parts interact.** A client builds a transaction with the builder. The node's `check_tx` and `deliver_tx` run `compute_effect`. `compute_effect` checks everything local to the transaction, including signatures, proofs, counts, relative inputs, in-transaction double spends and issuance ordering. `apply_transaction` then checks the effect against the global state and applies it. The store has a single writer, because the node holds it under a write lock, so calls to it do not interleave. `checkpoint` seals a global hash over the bitmap checksum, the Merkle root and the previous hash.

**Hard behaviours** (listed with their lines in `PROJECT.json` "hazards"):
- Relative offsets count back across operations, and consumed slots become `None`.
- Validation happens in two stages. Stage 2 mutates in place.
- The issuance check iterates a `HashMap` and unwraps a lookup that can miss.
- The u64 watermark `x+1` can overflow.
- The bitmap loop only covers the new slot range.
- The Merkle append unwraps after the state has already advanced.
- The version deque has a fixed capacity.
- `load` asserts that the transaction list matches `next_txn`, but nothing writes the transaction log.
- `load` reopens the Merkle tree at its flushed size and truncates the log file of that size, which is the log holding every leaf since the last snapshot.
- The builders sum u64 amounts, which wrap in release builds. `balance` compares totals taken across asset types. `create` has no guard after `sign`.

## Modules

- **`TxnEffect.tla`** models the effect compiler. An operation is a record. Signature and proof checks are opaque verdicts carried in the record (`sigOk`, `sigsOk`, `proofOk`), because their cryptography is outside the model. Records and asset codes are model values. Sequence numbers are `SeqWidth` bits wide, so their maximum can be reached.
  - `DefineStep`, `IssueStep`, `TransferStep` and `InputStep` are the arms of the `match`. `compute_effect` is `FoldLeft` of `OpStep`.
  - Every error is the single value `Err`.
  - `deep_invariant_check` translates the code's own consistency check.
  - The reference definition `ReferenceSlots` states from the data model which slots end up `None`.
- **`Ledger.tla`** (EXTENDS TxnEffect) models LedgerStatus and LedgerState.
  - There is one variable per field. `merkle_file` and `merkle_log_file` are what the tree file and the current log file hold. The external `AppendOnlyMerkle`/`LoggedMerkle` write them as spec 4.3 describes: `apply_transaction` logs each leaf, and `snapshot` flushes the tree. `Init` is `LedgerState::new` with `init_merkle_log` and `init_utxo_map`. The ghost variables `issue_log`, `spent_log` and `checkpoint_log` record history.
  - **Actions:**
    - `ApplyTransaction(eff)` is the whole of `apply_transaction`, including stage 1, stage 2, the bitmap loop, the Merkle append and `txs.push`. Each `eff` is drawn from `Effects`, the set of accepted `compute_effect` results.
    - `Checkpoint` is `save_utxo_map_version` followed by `save_global_hash`.
    - `Snapshot` starts a new Merkle log keyed by the tree size (`create_merkle_log`, which truncates) and flushes the tree file.
    - `Halted` is the stutter step after a panic.
  - `TypeOK` checks every recorded effect against the fields of struct `TxnEffect` (`IsTxnEffect`), including that each code's issuance numbers are ascending.
  - A rejected effect changes nothing, so it is not a step.
  - A panic sets `panicked`. This covers the unwrap at line 548 and, in a debug build (`DebugBuild`), an overflow or a failed bitmap `debug_assert!`.
  - The issuance loop may run in any `HashMap` order, so every failure it can stop at is a possible outcome.
  - Digests are injective: a checksum is the bitmap itself, a root is the leaf sequence.
  - **Reads** (`LedgerAccess`, `ArchiveAccess`) are operators over the state: `get_utxo`, `get_issuance_num`, `get_asset_type`, `get_transaction`, `get_proof` and `get_utxo_checksum`. `get_proof`'s unwrap failure is a distinguished record. The read properties are stated through them. `get_utxo_map` and `get_global_hash` return fields unchanged.
- **`LedgerAbstract.tla`** is what the store promises: a step consumes live outputs and creates outputs at fresh, increasing identifiers, and a consumed output never comes back. `Ledger` instantiates it with `live <- utxos`, `spent <- ToSet(spent_log)`, `nxt <- next_txo`. `LedgerRefinement` (its `ASpec`) is a PROPERTY of `MC_Ledger`.
- **`LedgerRestart.tla`** (EXTENDS Ledger) adds a process stop (`Crash`) and `Load`, which is `LedgerState::load`. `Load` runs `init_merkle_log` on the tree file. That reopens the tree at its flushed size and truncates the log file of that size. `Load` then fails at `File::open(snapshot_path)`, because `snapshot` only rolls the Merkle log and nothing writes the snapshot file. The truncation stays on disk. The failed state is final, so its cfg turns deadlock checking off.
- **`BuilderData.tla`** holds the builders' data: asset records (amount, type, owner), u64 sums narrowed to `AmtWidth` bits (`Wrapped` in release, `Overflows` → panic in debug), the remainder records of partially spent inputs, and per-type totals.
- **`TransferOpBuilder.tla`** models `TransferOperationBuilder`. There is one variable per field, plus `panicked`. The actions are `AddInput`, `AddOutput`, `Balance` (with its error and panic outcomes), `Create`, and `Sign`. `TransactionOp` and `SignaturesValid` are the read-only `transaction` and `validate_signatures`. Blinding and key material are abstracted: a signature is the signer's key.
- **`TxnBuilder.tla`** models `TransactionBuilder`. `txn` is its operation list. The ghost `basic` records which operations `add_basic_transfer_asset` added. The actions are the three `add_operation_*` calls, `add_basic_issue_asset` and `add_basic_transfer_asset`, with their error and panic outcomes. `from` and `to` are bounded lists of `(TxoRef, record, amount)` and `(amount, key)`.
- **`MC_Ledger.tla`** instantiates `Ledger` with one asset code and two records (symmetric). `MC_BalancedTransactions` narrows the transactions to balanced transfers: with a valid proof, a transfer outputs the records it consumes. This stands in for zei's balance proof, which the free `proofOk` verdict does not enforce.
- **`MC_TransferOpBuilder.tla`** and **`MC_TxnBuilder.tla`** give the builders two asset types, two keys and one TxoRef. **`MC_LedgerRestart.tla`** reuses the `MC_Ledger` values.
- **`MC_TxnEffect.tla`** makes every well-formed transaction an initial state. Operations whose signatures or counts fail are left out: they are rejected by the first guard of their step, and the properties only concern accepted transactions.

## Runs

| run | cfg | expect | what it shows |
|---|---|---|---|
| ledger_release | `MC_Ledger.cfg` | pass | Release build. `LiveUtxosMarked`: a live output's bit is never clear. `NoDoubleSpend`: no output is consumed twice, and `get_utxo` never finds a consumed one. `HistoryConsistent`: `get_transaction` answers for exactly the TxnSIDs below `next_txn`, and `get_proof` proves each transaction's own leaf without its unwrap failing. `ChecksumsAnswer`: `get_utxo_checksum(v)` returns the bitmap of the latest checkpoint taken at TxnSID `v` if it is among the last `MAX_VERSION` checkpoints, and `None` otherwise. The code returns the oldest matching deque entry, so this also needs the bitmap to change only with `next_txn`. `LedgerRefinement`: the store implements `LedgerAbstract`. |
| ledger_debug_replay | `MC_Ledger_debug.cfg` | pass | Debug build. `NoIssuanceReplay`: no `<<code, seq_num>>` is accepted twice. |
| bitmap_tracks_spent | `MC_Ledger_bitmap.cfg` | violation | `BitmapMatchesUtxos` fails. The cfg admits only balanced transfers (`MC_BalancedTransactions`: a transfer with a valid proof outputs the records it consumes), so no transfer creates value from nothing. The trace: define A, issue `r1` at TxoSID 0, then transfer `Absolute(0)` into a new output. `utxos` then holds only TxoSID 1, but bit 0 is still set, because the bitmap loop only touches the new slot range. |
| unregistered_issue_panics | `MC_Ledger_panic.cfg` | violation | `NeverPanics` fails: Define+Issue in one transaction, or an issuance of an undefined code, reaches the unwrap at line 548. |
| release_watermark_wraps | `MC_Ledger_replay.cfg` | violation | `NoIssuanceReplay` fails in a release build: the watermark wraps at the maximum and earlier sequence numbers are accepted again. |
| effect_slots | `MC_TxnEffect.cfg` | pass | `SlotsMatchReference`: the slots `compute_effect` empties are exactly those its relative inputs name. |
| transfer_op_builder | `MC_TransferOpBuilder.cfg` | pass | Debug build, one asset type. `BalanceConserves`: a successful `balance` leaves outputs equal to inputs. `TransferMatchesBuilder`: `transaction()` returns the builder's own lists. |
| transfer_op_types | `MC_TransferOpBuilder_types.cfg` | violation | Two asset types. `balance` accepts spending one type into an output of another. |
| create_after_sign | `MC_TransferOpBuilder_sign.cfg` | violation | `ValidatedStaysSigned` fails: `add_input`, `create`, `sign` by the input's owner, then `create` again drops the signature. |
| txn_builder | `MC_TxnBuilder.cfg` | pass | Debug build, one type. `BasicTransfersConserve`: each basic transfer's outputs carry its inputs' amounts. |
| issuance_num_is_next | `MC_Ledger_lastissued.cfg` | violation | `IssuanceNumIsLastIssued` fails: define A, then issue seq_num 0, and `get_issuance_num(A)` is 1. The `LedgerAccess` comment (line 320) says it is "the most recently-issued sequence number", and `test_apply_asset_issuance` (line 1404) asserts `issuance_num == seq_num`. The code stores last+1 (line 583), which is the next-allowed meaning spec.md gives. So the comment and that test disagree with the code. |
| load_truncates_log | `MC_LedgerRestart_log.cfg` | violation | `DurableHistory` fails: apply one transaction, stop, `load`. The leaf was only in the log segment, and `load` empties it. |

Each property of a passing run has a mutant in `PROJECT.json`: a plausible bug in the mapped definition that TLC catches under the same cfg.

**Bounds.**
- `MC_Ledger`:
  - 3 transactions and 3 output slots.
  - Up to 2 operations per transaction, with one input and one output each.
  - Relative offsets 0..1, 3 checkpoints, `MAX_VERSION = 2`, 2-bit sequence numbers.
  - This is enough for each of the following:
    - issue then spend, absolutely or relatively;
    - spend in a later transaction;
    - fill the version deque and evict from it;
    - reach the sequence-number maximum;
    - define and issue in one transaction.
  - About 1.4M states; the `Effects` set has 437 elements.
- `MC_TxnEffect`:
  - 2 codes, 2 records, 2 operations, 2 inputs and 2 outputs per operation, offsets 0..2.
  - This covers mixed relative/absolute inputs and relative offsets across the boundary between operations.
  - 293k transactions.
- `MC_TransferOpBuilder`:
  - 2-bit amounts, 2 inputs, 2 outputs and 2 signatures.
  - This is enough for remainders, both overflow panics, a wrap, and signing by one and two owners.
  - About 707k states.
- `MC_TxnBuilder`:
  - 1-bit amounts, one operation, and `from`/`to` lists of up to 2 entries.
  - The builder's calls only append to `txn` and never read it, so a single call shows every outcome. Two-operation, 2-bit runs took over half an hour without exploring anything new.
- `MC_LedgerRestart`:
  - 1 transaction, 1 checkpoint. `Load` fails from every state, and one unsnapshotted transaction is enough to be lost, so a bigger ledger adds nothing.

**Fairness.** None is assumed, and no liveness property is checked. `Ledger` and the builders are synchronous, single-caller libraries in which nothing waits or retries. In `LedgerRestart`, `load` always ends in the terminal failed state, so a liveness property there would only restate that one transition. What a restart does is checked as safety: `DurableHistory`.

**Also seen, not kept as runs.** More disagreements show up under the same modules when the cfgs are changed:
- `DeepInvariantHolds` (in `TxnEffect`) fails: `deep_invariant_check` rejects an accepted effect in which a relative input and an absolute input carry the same record. TLC finds it with `INVARIANT DeepInvariantHolds` in place of `SlotsMatchReference` in `MC_TxnEffect.cfg`. The check is called nowhere in the repository.
- With `DebugBuild = FALSE`, `BalanceConserves` fails through a wrapped spend sum: spends of 1 and 3 in 2 bits total 0, against no outputs.
- In `MC_TxnBuilder` with two types, `BasicTransfersConserve` fails: every output takes the first input's type. With a release build, `NeverPanics` fails: empty `from` and `to` pass the balance check, then `input_oars[0]` panics.
- `load` never succeeds. It opens a snapshot file that no code writes (`snapshot` only rolls the Merkle log), so a stopped ledger cannot run again. This is visible as the final `failed` state of the `load_truncates_log` trace.

The first three are listed as hazards in `PROJECT.json`.

## Not modelled, and why

- I/O errors of the file operations are not modelled, and neither are the bitmap file's contents. `BitMap` is external, and no property reads the bitmap after a restart.
- The ABCI node (`abci_validator_node.rs`) is not modelled, for two reasons:
  - Every block operation goes through `SubmissionServer`: `cache_transaction`, `begin_block`, `end_block`, `pulse_block`, `all_commited` and `block_pulse_count`. That code is not in this repository, and spec.md leaves the block driver out of scope.
  - The node also calls `LedgerState::load_or_init` and `get_committed_state`, which `store.rs` does not define. The node's own logic is one `if` around each of these calls, so a model of it would be the missing server's behaviour, guessed.
- The query API (`query_api/mod.rs`) is not modelled. It is HTTP handlers over a `QueryServer` that is not in the repository, and it reads structures this store does not have (anonymous records, owned-UTXO indexes, staking mint entries).
- The builders' `serialize` is not modelled. It is a conversion with no state of its own.
- The CLI tests and the EVM globals have no state to model.
- What remains unmapped in the modelled files is test code and signing helpers: `store.rs` from line 913 (the `helpers` module and the unit tests) and `txn_builder.rs` from line 302 (the quickcheck and builder tests). It also includes the trait declarations and the builders' `serialize`. Tests are not behaviour of the ledger. Their expectations are checked where they bear on a property: for example, the builder test's "change after signing" case is `create_after_sign`. `get_utxo_map` and `get_global_hash` return a field unchanged, so they have no operator of their own.

## Plan

1. Done: `TxnEffect`, then `Ledger` (composing the effect compiler), `MC_Ledger` and `MC_TxnEffect` with the runs above.
2. Done: `LedgerAbstract`, and the refinement checked on `MC_Ledger`.
3. Done: `LedgerRestart`, which shows that `load` cannot succeed and that it empties the current Merkle log segment.
4. Done: `TransferOpBuilder` and `TxnBuilder`.
5. Done: the durable Merkle files (`merkle_file`, `merkle_log_file`), `new` and `load`'s helpers.
6. Done: the read accessors, with the ledger properties restated as what a reader gets back.
7. Open: compose the builders with `TxnEffect`. The builders' transfers would be checked as `compute_effect` inputs, but its signature and proof checks are opaque verdicts, so the composition would say little beyond `BalanceConserves`.
