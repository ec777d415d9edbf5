\* Release build, one transaction and one checkpoint: a crash after a
\* transaction, then load.  A failed load ends the process, so the system
\* really stops there: deadlock is not checked.
CONSTANTS
    A = A
    B = B
    r1 = r1
    r2 = r2
    None = None
    Codes <- MC_Codes
    Records <- MC_Records
    SeqWidth = 2
    MaxOut = 1
    MaxIn = 1
    MaxRel = 2
    MaxTxo = 3
    MaxOps = 2
    MaxTxn = 1
    MaxCheckpoints = 1
    MAX_VERSION = 2
    DebugBuild = FALSE

SPECIFICATION RSpec
INVARIANT DurableHistory
CHECK_DEADLOCK FALSE
