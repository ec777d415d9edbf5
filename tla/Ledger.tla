------------------------------- MODULE Ledger -------------------------------
(***************************************************************************)
(* The ledger store of ledger/src/store/store.rs: LedgerStatus (unspent    *)
(* outputs, asset types, issuance watermarks, counters, bitmap versions,   *)
(* global hash) and LedgerState (Merkle log of transactions, finalized     *)
(* transaction list, UTXO bitmap).  One step is one call of a public       *)
(* operation: apply_transaction of an effect produced by compute_effect,   *)
(* checkpoint or snapshot.  The store is single-writer (the node wraps it  *)
(* in an RwLock), so calls do not interleave.                              *)
(*                                                                         *)
(* A panic (an unwrap of None, an arithmetic overflow or a debug_assert!   *)
(* in a debug build) aborts the process: the model records it in           *)
(* `panicked` and takes no further step.                                   *)
(*                                                                         *)
(* Digests are abstract and injective: a bitmap checksum is the bitmap, a  *)
(* Merkle root is the leaf sequence, sha256 of GlobalHashData is the       *)
(* record itself.                                                          *)
(***************************************************************************)
EXTENDS TxnEffect

CONSTANTS
    MaxTxn,          \* bound on next_txn
    MaxCheckpoints,  \* bound on global_commit_count
    MAX_VERSION,     \* capacity of utxo_map_versions (100 in the code)
    DebugBuild       \* TRUE: overflow checks and debug_assert! are on

ASSUME MaxTxn \in Nat /\ MaxCheckpoints \in Nat /\ MAX_VERSION \in Nat \ {0}
ASSUME DebugBuild \in BOOLEAN

VARIABLES
    \* LedgerStatus
    utxos,               \* TxoSID -> record of every unspent output
    asset_types,         \* registered asset codes
    issuance_num,        \* code -> one more than the last issued seq_num
    next_txn,            \* TxnSID of the next transaction
    next_txo,            \* TxoSID of the next output slot
    utxo_map_versions,   \* <<TxnSID, bitmap digest>> of recent checkpoints
    global_hash,         \* digest of the last checkpoint
    global_commit_count, \* number of checkpoints
    \* LedgerState
    merkle,              \* leaves of the append-only Merkle tree
    merkle_log,          \* tree size at which the current log file starts
    \* files (the Merkle tree file and its current log are written by the
    \* external AppendOnlyMerkle / LoggedMerkle; spec 4.3: snapshot flushes
    \* the tree, and the log segment since then is what recovery replays)
    merkle_file,         \* leaves in the tree file, as of the last flush
    merkle_log_file,     \* leaves in the file <merkle_path>-log-<merkle_log>
    txs,                 \* FinalizedTransaction list
    utxo_map,            \* the UTXO bitmap, bit i at index i+1
    panicked,            \* the process has aborted
    \* history, not part of the program state
    issue_log,           \* every <<code, seq_num>> ever issued, in order
    spent_log,           \* every TxoSID ever consumed as an absolute input
    checkpoint_log       \* every <<TxnSID, digest>> ever checkpointed

status_vars == <<utxos, asset_types, issuance_num, next_txn, next_txo,
                 utxo_map_versions, global_hash, global_commit_count>>
files == <<merkle_file, merkle_log_file>>
vars == <<status_vars, merkle, merkle_log, files, txs, utxo_map, panicked,
          issue_log, spent_log, checkpoint_log>>

(***************************************************************************)
(* The effects compute_effect can produce.  They depend on no variable,    *)
(* so TLC computes them once.  The finalized transaction and its Merkle    *)
(* leaf keep the effect in place of the transaction it was computed from.  *)
(***************************************************************************)
Effects == {e \in {compute_effect(t) : t \in Transactions} : ~IsErr(e)}

\* The hash compute_merkle_hash(txn_sid) binds into the Merkle tree.
MerkleLeaf(sid, eff) == <<sid, eff>>

\* Mutation: append returns the new size rather than the leaf's index.
AppendLeafSize(m, leaf) == [tree |-> Append(m, leaf), id |-> Len(m) + 1]

\* AppendOnlyMerkle::append: the tree with one more leaf, and its index.
AppendLeaf(m, leaf) == [tree |-> Append(m, leaf), id |-> Len(m)]

-----------------------------------------------------------------------------
(* The UTXO bitmap (ledger/src/store/bitmap.rs): set() extends it,         *)
(* clear() of a bit past its end does nothing.                             *)

BitSet(m, ix) ==
    IF ix < Len(m) THEN [m EXCEPT ![ix + 1] = TRUE]
    ELSE m \o [j \in 1..(ix - Len(m)) |-> FALSE] \o <<TRUE>>

BitClear(m, ix) == IF ix < Len(m) THEN [m EXCEPT ![ix + 1] = FALSE] ELSE m

\* Bit ix of the bitmap; bits past its end read as clear.
Bit(m, ix) == ix < Len(m) /\ m[ix + 1]

-----------------------------------------------------------------------------
(* LedgerStatus::apply_txn_effects                                          *)

\* TxoSIDs of the produced (non-None) outputs, ascending.
NewUtxoSids(eff) ==
    LET ixs == {i \in 1..Len(eff.txos) : eff.txos[i] # None}
    IN  SetToSortSeq({next_txo + i - 1 : i \in ixs}, <)

\* Mutation: the inputs are not looked up in utxos.
InputsValidUnchecked(eff) == TRUE

\* Stage 1, inputs: each claimed input is unspent with the claimed record.
InputsValid(eff) ==
    \A sid \in DOMAIN eff.input_txos :
        sid \in DOMAIN utxos /\ utxos[sid] = eff.input_txos[sid]

\* Stage 1, asset types: no new code is already registered.
AssetsValid(eff) ==
    \A code \in eff.new_asset_codes :
        code \notin asset_types /\ code \notin DOMAIN issuance_num

\* Stage 1, issuance numbers, for one code: "ok", "err", or "panic" when
\* self.issuance_num.get(&code).unwrap() finds no entry.
IssuanceOutcome(eff, code) ==
    LET nums == eff.new_issuance_nums[code]
    IN  IF nums = <<>>
        THEN IF code \in eff.new_asset_codes THEN "ok" ELSE "err"
        ELSE IF code \notin DOMAIN issuance_num THEN "panic"
        ELSE IF Head(nums) < issuance_num[code] THEN "err"
        ELSE "ok"

\* The possible results of stage 1.  The issuance loop walks a HashMap in
\* an unspecified order and stops at the first failing code, so when codes
\* fail differently either failure can be the result.
ValidationOutcomes(eff) ==
    IF ~InputsValid(eff) \/ ~AssetsValid(eff) THEN {"err"}
    ELSE LET failing == {IssuanceOutcome(eff, c) : c \in DOMAIN eff.new_issuance_nums}
                            \ {"ok"}
         IN  IF failing = {} THEN {"ok"} ELSE failing

\* Mutation: the watermark is taken from the first sequence number.
NextIssuanceNumFirst(nums) ==
    IF nums = <<>> THEN 0 ELSE (Head(nums) + 1) % (SeqMax + 1)

\* Mutation: the consumed inputs are not removed.
RemainingUtxosKeepSpent(eff) == utxos

\* Stage 2, the unspent outputs the effect does not consume.
RemainingUtxos(eff) == Restrict(utxos, DOMAIN utxos \ DOMAIN eff.input_txos)

\* Stage 2, the new unspent outputs: the produced records zipped with the
\* TxoSIDs, in order.
AddUtxos(eff, sids) ==
    LET produced == SelectSeq(eff.txos, LAMBDA x : x # None)
    IN  [s \in ToSet(sids) |-> produced[CHOOSE j \in 1..Len(sids) : sids[j] = s]]

\* Stage 2: the new watermark of a code, seq_nums.last().map(|x| x+1),
\* which wraps at the width of u64 in a release build.
NextIssuanceNum(nums) ==
    IF nums = <<>> THEN 0 ELSE (Last(nums) + 1) % (SeqMax + 1)

\* x+1 overflows (and panics in a debug build).
IssuanceOverflows(eff) ==
    \E code \in DOMAIN eff.new_issuance_nums :
        LET nums == eff.new_issuance_nums[code]
        IN  nums # <<>> /\ Last(nums) = SeqMax

-----------------------------------------------------------------------------
(* LedgerState::apply_transaction, the bitmap loop over base_sid..max_sid  *)
(* with its debug_assert!s.  k is utxo_ix (0-based).                       *)

\* Mutation: the comparison of the bitmap loop is inverted.
RECURSIVE UpdateBitmapInverted(_, _, _, _, _)
UpdateBitmapInverted(m, ix, max, sids, k) ==
    IF ix >= max THEN [map |-> m, asserts |-> k = Len(sids)]
    ELSE LET m1 == BitSet(m, ix)
             has == k < Len(sids)
             m2 == IF has /\ sids[k + 1] = ix THEN BitClear(m1, ix) ELSE m1
             k2 == IF has /\ sids[k + 1] = ix THEN k + 1 ELSE k
             rest == UpdateBitmapInverted(m2, ix + 1, max, sids, k2)
         IN  [map |-> rest.map, asserts |-> has /\ rest.asserts]

RECURSIVE UpdateBitmap(_, _, _, _, _)
UpdateBitmap(m, ix, max, sids, k) ==
    IF ix >= max THEN [map |-> m, asserts |-> k = Len(sids)]
    ELSE LET m1 == BitSet(m, ix)
             has == k < Len(sids)
             m2 == IF has /\ sids[k + 1] # ix THEN BitClear(m1, ix) ELSE m1
             k2 == IF has /\ sids[k + 1] = ix THEN k + 1 ELSE k
             rest == UpdateBitmap(m2, ix + 1, max, sids, k2)
         IN  [map |-> rest.map, asserts |-> has /\ rest.asserts]

\* The <<code, seq_num>> pairs an effect issues (for the history).
IssuedBy(eff) ==
    LET cs == SetToSeq(DOMAIN eff.new_issuance_nums)
        nums(j) == eff.new_issuance_nums[cs[j]]
    IN  FlattenSeq([j \in 1..Len(cs) |-> [i \in DOMAIN nums(j) |-> <<cs[j], nums(j)[i]>>]])

-----------------------------------------------------------------------------
\* LedgerStatus::new: no outputs, no asset types, zero counters.
StatusNew ==
    /\ utxos = <<>>
    /\ asset_types = {}
    /\ issuance_num = <<>>
    /\ next_txn = 0
    /\ next_txo = 0
    /\ utxo_map_versions = <<>>
    /\ global_hash = "zero"
    /\ global_commit_count = 0

\* create_merkle_log: OpenOptions::new().write(true).create(true)
\* .truncate(true) on <base_path>-log-<next_id>: the file starts empty,
\* whatever it held before.
create_merkle_log == <<>>

\* init_merkle_log(path, create): create or open the tree file, then
\* always start a new log keyed by the tree's size (create_merkle_log).
InitMerkleLog(tree_file) ==
    [tree |-> tree_file, next_id |-> Len(tree_file), log |-> create_merkle_log]

\* init_utxo_map(path, create): BitMap::create on a new file, or
\* BitMap::open of the bitmap file.
init_utxo_map(create, bitmap_file) == IF create THEN <<>> ELSE bitmap_file

\* LedgerState::new(.., create = true): a new status, a new Merkle tree
\* with its first log, an empty transaction list and a new bitmap.
Init ==
    LET m == InitMerkleLog(<<>>)
    IN
    /\ StatusNew
    /\ merkle = m.tree
    /\ merkle_log = m.next_id
    /\ merkle_file = m.tree
    /\ merkle_log_file = m.log
    /\ txs = <<>>
    /\ utxo_map = init_utxo_map(TRUE, <<>>)
    /\ panicked = FALSE
    /\ issue_log = <<>>
    /\ spent_log = <<>>
    /\ checkpoint_log = <<>>

(***************************************************************************)
(* apply_transaction(eff): apply_txn_effects validates and mutates the     *)
(* status, then the bitmap is updated over the new slot range, the Merkle  *)
(* leaf appended and the finalized transaction recorded.  A rejected       *)
(* effect changes nothing and is no step.  The call panics in stage 1 on   *)
(* an issuance of an unregistered code, and in a debug build on a          *)
(* watermark overflow or a failed bitmap debug_assert!.                    *)
(***************************************************************************)
ApplyTransaction(eff) ==
    LET sids == NewUtxoSids(eff)
        max == next_txo + Len(eff.txos)
        bm == UpdateBitmap(utxo_map, next_txo, max, sids, 0)
        outcomes == ValidationOutcomes(eff)
        debugPanic == DebugBuild /\ (IssuanceOverflows(eff) \/ ~bm.asserts)
        leaf == AppendLeaf(merkle, MerkleLeaf(next_txn, eff))
    IN
    /\ ~panicked
    /\ next_txn < MaxTxn
    /\ max <= MaxTxo
    /\ \/ /\ "ok" \in outcomes
          /\ ~debugPanic
          /\ next_txn' = next_txn + 1
          /\ next_txo' = max
          /\ utxos' = AddUtxos(eff, sids) @@ RemainingUtxos(eff)
          /\ issuance_num' = [c \in DOMAIN eff.new_issuance_nums |->
                                NextIssuanceNum(eff.new_issuance_nums[c])] @@ issuance_num
          /\ asset_types' = asset_types \cup eff.new_asset_codes
          /\ utxo_map' = bm.map
          /\ merkle' = leaf.tree
          /\ merkle_log_file' = Append(merkle_log_file, MerkleLeaf(next_txn, eff))
          /\ txs' = Append(txs, [txn |-> eff, tx_id |-> next_txn, merkle_id |-> leaf.id])
          /\ issue_log' = issue_log \o IssuedBy(eff)
          /\ spent_log' = spent_log \o SetToSeq(DOMAIN eff.input_txos)
          /\ UNCHANGED <<utxo_map_versions, global_hash, global_commit_count,
                         merkle_log, merkle_file, panicked, checkpoint_log>>
       \/ /\ "panic" \in outcomes \/ ("ok" \in outcomes /\ debugPanic)
          /\ panicked' = TRUE
          /\ UNCHANGED <<status_vars, merkle, merkle_log, files, txs, utxo_map,
                         issue_log, spent_log, checkpoint_log>>

\* LedgerState::save_global_hash: sha256 of GlobalHashData (bitmap
\* checksum, Merkle root, commit count, previous global hash).
GlobalHash(bitmap, root, block, prev) ==
    [bitmap |-> bitmap, merkle |-> root, block |-> block, global_hash |-> prev]

\* Mutation: evict only once the deque is over capacity.
SaveVersionLate(versions, entry) ==
    Append(IF Len(versions) > MAX_VERSION THEN Tail(versions) ELSE versions, entry)

\* LedgerState::save_utxo_map_version: pop_front at MAX_VERSION, push_back.
save_utxo_map_version(versions, entry) ==
    Append(IF Len(versions) >= MAX_VERSION THEN Tail(versions) ELSE versions, entry)

(***************************************************************************)
(* checkpoint(): save_utxo_map_version (evict the oldest entry at          *)
(* MAX_VERSION, push <<next_txn, checksum>>) then save_global_hash (hash   *)
(* bitmap checksum, Merkle root, commit count and the previous hash).      *)
(***************************************************************************)
Checkpoint ==
    LET entry == <<next_txn, utxo_map>>
    IN
    /\ ~panicked
    /\ global_commit_count < MaxCheckpoints
    /\ utxo_map_versions' = save_utxo_map_version(utxo_map_versions, entry)
    /\ global_hash' = GlobalHash(utxo_map, merkle, global_commit_count, global_hash)
    /\ global_commit_count' = global_commit_count + 1
    /\ checkpoint_log' = Append(checkpoint_log, entry)
    /\ UNCHANGED <<utxos, asset_types, issuance_num, next_txn, next_txo,
                   merkle, merkle_log, files, txs, utxo_map, panicked, issue_log,
                   spent_log>>

(***************************************************************************)
(* snapshot(): create_merkle_log(merkle_path, state) starts the log file   *)
(* keyed by the tree's size, and merkle.snapshot(writer) flushes the tree  *)
(* file and switches the logger to the new file.                           *)
(***************************************************************************)
Snapshot ==
    /\ ~panicked
    /\ merkle_log' = Len(merkle)
    /\ merkle_log_file' = create_merkle_log
    /\ merkle_file' = merkle
    /\ UNCHANGED <<status_vars, merkle, txs, utxo_map, panicked,
                   issue_log, spent_log, checkpoint_log>>

\* The aborted process takes no more steps.
Halted == panicked /\ UNCHANGED vars

Next ==
    \/ \E eff \in Effects : ApplyTransaction(eff)
    \/ Checkpoint
    \/ Snapshot
    \/ Halted

Spec == Init /\ [][Next]_vars

-----------------------------------------------------------------------------
(***************************************************************************)
(* Read access: LedgerAccess for LedgerStatus (LedgerState delegates to    *)
(* its status) and ArchiveAccess for LedgerState.  An AssetType is kept    *)
(* as its code, a BitDigest as the bitmap it hashes, and a Proof as the    *)
(* proved leaf with the tree it is proved against.  get_proof unwraps      *)
(* merkle.get_proof(merkle_id, 0), which fails for an id outside the tree *)
(* (a panic, kept as the record of the failed unwrap).                     *)
(***************************************************************************)
get_utxo(addr) == IF addr \in DOMAIN utxos THEN utxos[addr] ELSE None

get_issuance_num(code) ==
    IF code \in DOMAIN issuance_num THEN issuance_num[code] ELSE None

get_asset_type(code) == IF code \in asset_types THEN code ELSE None

get_transaction(addr) == IF addr < Len(txs) THEN txs[addr + 1] ELSE None

get_proof(addr) ==
    LET txn == get_transaction(addr)
    IN  IF txn = None THEN None
        ELSE IF txn.merkle_id < Len(merkle)
             THEN [leaf |-> merkle[txn.merkle_id + 1], tree |-> merkle]
             ELSE [unwrap_failed |-> txn.merkle_id]

\* Mutation: the stored TxnSID is compared with the version one ahead.
get_utxo_checksumOffByOne(version) ==
    LET i == SelectInSeq(utxo_map_versions, LAMBDA pair : pair[1] = version + 1)
    IN  IF i = 0 THEN None ELSE utxo_map_versions[i][2]

\* The first pair of the deque (oldest first) whose TxnSID is version.
get_utxo_checksum(version) ==
    LET i == SelectInSeq(utxo_map_versions, LAMBDA pair : pair[1] = version)
    IN  IF i = 0 THEN None ELSE utxo_map_versions[i][2]

-----------------------------------------------------------------------------
(* Properties                                                              *)

TypeOK ==
    /\ utxos \in [DOMAIN utxos -> Records] /\ DOMAIN utxos \subseteq Nat
    /\ asset_types \subseteq Codes
    /\ DOMAIN issuance_num \subseteq Codes /\ \A c \in DOMAIN issuance_num : issuance_num[c] \in SeqNums
    /\ next_txn \in 0..MaxTxn /\ next_txo \in 0..MaxTxo
    /\ utxo_map \in Seq(BOOLEAN) /\ Len(utxo_map_versions) <= MAX_VERSION
    /\ global_commit_count \in 0..MaxCheckpoints
    /\ merkle_log \in 0..Len(merkle) /\ panicked \in BOOLEAN
    /\ \A i \in 1..Len(txs) : IsTxnEffect(txs[i].txn)

\* Every unspent output has its bit set in the UTXO bitmap, so a client
\* reading the bitmap never takes a live output for spent: the bitmap loop
\* of apply_transaction must clear exactly the internally consumed slots
\* of the new range, using the sorted TxoSIDs apply_txn_effects returned.
LiveUtxosMarked ==
    ~panicked => \A sid \in DOMAIN utxos : Bit(utxo_map, sid)

\* The bitmap is the set of unspent outputs ("Bitmap tracking all the live
\* TXOs"; the spec's end-to-end scenario expects the slot consumed by a
\* later transfer to be clear): bit i is set iff TxoSID i is unspent.
BitmapMatchesUtxos ==
    ~panicked => \A sid \in 0..(next_txo - 1) : Bit(utxo_map, sid) <=> sid \in DOMAIN utxos

\* No output is spent twice: every TxoSID consumed as an absolute input
\* is consumed by one transaction only, and get_utxo never finds a spent
\* output again (apply_txn_effects checks inputs against utxos and
\* removes them; compute_effect rejects an input claimed twice).
NoDoubleSpend ==
    /\ IsInjective(spent_log)
    /\ \A i \in DOMAIN spent_log : get_utxo(spent_log[i]) = None

\* No issuance <<code, seq_num>> is ever accepted twice, within one
\* transaction (compute_effect) or across transactions (the watermark
\* check of apply_txn_effects and its update to last+1).
NoIssuanceReplay == IsInjective(issue_log)

\* get_issuance_num(code) is the most recently issued sequence number of
\* the code: the LedgerAccess comment says so, and test_apply_asset_issuance
\* asserts issuance_num[code] == seq_num after issuing seq_num.  Stage 2
\* of apply_txn_effects stores the last number plus one.
IssuanceNumIsLastIssued ==
    ~panicked =>
        \A code \in Codes :
            LET issued == {i \in DOMAIN issue_log : issue_log[i][1] = code}
            IN  issued # {} => get_issuance_num(code) = issue_log[Max(issued)][2]

\* The files hold the whole Merkle history: the flushed tree followed by
\* the current log segment is every leaf appended so far, so the tree can
\* be rebuilt from the files after the process stops (spec 4.3: snapshot
\* flushes the tree, the log segment since then is replayed).  The leaf is
\* logged by every apply_transaction, and snapshot must flush the tree
\* when it truncates-and-starts the log keyed by the tree's size.
DurableHistory == merkle_file \o merkle_log_file = merkle

\* The archive answers for every committed TxnSID and no other: below
\* next_txn get_transaction returns the transaction with that id, and
\* get_proof proves its own leaf against the current tree without its
\* unwrap failing; at next_txn both return None.  apply_transaction must
\* record merkle.append's index (not the new size) as merkle_id, and
\* LedgerState::load asserts txs.len() == next_txn.
HistoryConsistent ==
    ~panicked =>
        /\ Len(merkle) = next_txn
        /\ get_transaction(next_txn) = None /\ get_proof(next_txn) = None
        /\ \A t \in 0..(next_txn - 1) :
              LET txn == get_transaction(t)
              IN  /\ txn # None /\ txn.tx_id = t
                  /\ get_proof(t) = [leaf |-> MerkleLeaf(t, txn.txn), tree |-> merkle]

\* get_utxo_checksum(v) answers with the bitmap of the most recent
\* checkpoint taken at TxnSID v if it is one of the last MAX_VERSION
\* checkpoints, and None otherwise.  The code returns the oldest matching
\* pair of the deque, so this needs save_utxo_map_version to evict the
\* oldest entry at capacity, and the bitmap to change only with next_txn.
ChecksumsAnswer ==
    LET n == Len(checkpoint_log)
        window == {i \in 1..n : i > n - MAX_VERSION}
        at(v) == {i \in window : checkpoint_log[i][1] = v}
    IN  \A v \in 0..MaxTxn :
            get_utxo_checksum(v) =
                IF at(v) = {} THEN None ELSE checkpoint_log[Max(at(v))][2]

\* The store implements the abstract ledger (LedgerAbstract): every
\* apply_transaction consumes live outputs only, never revives a consumed
\* one, and puts its new outputs at fresh TxoSIDs in next_txo..next_txo'-1
\* (the new_utxo_sids of apply_txn_effects and the next_txo update).
Abs == INSTANCE LedgerAbstract WITH live <- utxos, spent <- ToSet(spent_log), nxt <- next_txo

LedgerRefinement == Abs!ASpec

\* A transaction that fails validation is rejected with an error and the
\* node keeps running (spec 4.2 and 7: validation errors are returned to
\* the caller with no side effects); apply_transaction never aborts the
\* process in a release build.
NeverPanics == ~panicked

=============================================================================
