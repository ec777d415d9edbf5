---------------------------- MODULE LedgerRestart ----------------------------
(***************************************************************************)
(* The ledger store with process crashes and LedgerState::load.  What a    *)
(* restart can read back is what the store writes to files: the Merkle     *)
(* tree and its logs and the bitmap file (through external modules), the   *)
(* transaction log (opened by new/load but never written: txn_log is only  *)
(* kept as a handle) and the snapshot file (never written: snapshot()      *)
(* only starts a new Merkle log, "TODO(joe): Actually serialize the active *)
(* ledger state").  load opens the Merkle tree and bitmap, reads the empty *)
(* transaction log and then File::open(snapshot_path)?, which fails on a   *)
(* file no code of the repository creates, so load returns Err.            *)
(***************************************************************************)
EXTENDS Ledger

VARIABLE node   \* "running", "crashed" (process gone), "failed" (load returned Err)

rvars == <<vars, node>>

RInit == Init /\ node = "running"

\* The process dies between two calls, or after a panic.
Crash ==
    /\ node = "running"
    /\ node' = "crashed"
    /\ UNCHANGED vars

\* load_transaction_log: deserialize FinalizedTransactions until the
\* first failure.  No code writes txn_log, so the list is empty.
load_transaction_log == <<>>

\* LedgerState::load: init_merkle_log(merkle_path, false) opens the tree
\* file and creates the log keyed by its size, truncating that file;
\* init_utxo_map opens the bitmap file; load_transaction_log reads the
\* empty list; File::open(snapshot_path)? fails on the snapshot no code
\* writes, and load returns the io::Error.  What it did to the files stays.
Load ==
    LET m == InitMerkleLog(merkle_file)
        bitmap == init_utxo_map(FALSE, utxo_map)
        loaded_txs == load_transaction_log
    IN
    /\ node = "crashed"
    /\ merkle_log_file' = m.log
    /\ node' = "failed"
    /\ UNCHANGED <<status_vars, merkle, merkle_log, merkle_file, txs, utxo_map,
                   panicked, issue_log, spent_log, checkpoint_log>>

RNext ==
    \/ node = "running" /\ Next /\ UNCHANGED node
    \/ Crash
    \/ Load

\* No fairness: the only property checked on this module is a safety one.
RSpec == RInit /\ [][RNext]_rvars

=============================================================================
