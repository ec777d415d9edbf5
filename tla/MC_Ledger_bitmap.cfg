\* Release build: the bitmap against the set of unspent outputs.
CONSTANTS
    A = A
    B = B
    r1 = r1
    r2 = r2
    None = None
    Codes <- MC_Codes
    Records <- MC_Records
    Transactions <- MC_BalancedTransactions
    SeqWidth = 2
    MaxOut = 1
    MaxIn = 1
    MaxRel = 2
    MaxTxo = 3
    MaxOps = 2
    MaxTxn = 3
    MaxCheckpoints = 3
    MAX_VERSION = 2
    DebugBuild = FALSE

SPECIFICATION Spec
SYMMETRY MC_Symmetry
INVARIANT BitmapMatchesUtxos
