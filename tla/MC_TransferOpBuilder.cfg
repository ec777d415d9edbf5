\* Debug build, one asset type, two keys, 2-bit amounts: up to two inputs,
\* two added outputs and two signatures.
CONSTANTS
    T1 = T1
    T2 = T2
    alice = alice
    bob = bob
    rel1 = rel1
    None = None
    AssetTypes <- MC_OneType
    Keys <- MC_Keys
    Refs <- MC_Refs
    AmtWidth = 2
    DebugBuild = TRUE
    MaxInputs = 2
    MaxOutputs = 2
    MaxSigs = 2

SPECIFICATION Spec
INVARIANT TypeOK
INVARIANT TransferMatchesBuilder
PROPERTY BalanceConserves
