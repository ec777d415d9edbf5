\* Release build (no overflow checks, no debug_assert!): one asset code, two
\* records, 2-bit sequence numbers, transactions of up to two operations with
\* at most one input and one output each, three transactions, three
\* checkpoints against a version window of two.
CONSTANTS
    A = A
    B = B
    r1 = r1
    r2 = r2
    None = None
    Codes <- MC_Codes
    Records <- MC_Records
    SeqWidth = 2
    MaxOut = 1
    MaxIn = 1
    MaxRel = 2
    MaxTxo = 3
    MaxOps = 2
    MaxTxn = 3
    MaxCheckpoints = 3
    MAX_VERSION = 2
    DebugBuild = FALSE

SPECIFICATION Spec
SYMMETRY MC_Symmetry
INVARIANT TypeOK
INVARIANT LiveUtxosMarked
INVARIANT HistoryConsistent
INVARIANT ChecksumsAnswer
INVARIANT NoDoubleSpend
PROPERTY LedgerRefinement
