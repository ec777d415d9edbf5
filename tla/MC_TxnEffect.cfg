\* Two codes, two records, 1-bit sequence numbers, transactions of up to
\* two operations, up to two inputs and two outputs, offsets 0..2.
CONSTANTS
    A = A
    B = B
    r1 = r1
    r2 = r2
    None = None
    Codes <- MC_Codes
    Records <- MC_Records
    SeqWidth = 1
    MaxOut = 2
    MaxIn = 2
    MaxRel = 3
    MaxTxo = 1
    MaxOps = 2

SPECIFICATION Spec
INVARIANT SlotsMatchReference
