\* Debug build, one asset type, two keys, 1-bit amounts: one operation (the
\* calls do not read the transaction), transfers of up to 2 inputs and 2 outputs.
CONSTANTS
    T1 = T1
    T2 = T2
    alice = alice
    bob = bob
    rel1 = rel1
    None = None
    AssetTypes <- MC_OneType
    Keys <- MC_Keys
    Refs <- MC_Refs
    AmtWidth = 1
    DebugBuild = TRUE
    MaxOps = 1
    MaxFrom = 2
    MaxTo = 2
    SeqNums = {0}

SPECIFICATION Spec
INVARIANT BasicTransfersConserve
