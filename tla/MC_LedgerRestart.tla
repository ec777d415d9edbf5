-------------------------- MODULE MC_LedgerRestart --------------------------
EXTENDS LedgerRestart

CONSTANTS A, B, r1, r2

MC_Codes == {A}
MC_Records == {r1, r2}
=============================================================================
