------------------------ MODULE MC_TransferOpBuilder ------------------------
EXTENDS TransferOpBuilder

CONSTANTS T1, T2, alice, bob, rel1

MC_OneType == {T1}
MC_TwoTypes == {T1, T2}
MC_Keys == {alice, bob}
MC_Refs == {rel1}
=============================================================================
