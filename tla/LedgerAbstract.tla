--------------------------- MODULE LedgerAbstract ---------------------------
(***************************************************************************)
(* What the ledger store promises its callers, without effects, bitmaps    *)
(* or Merkle trees: the set of live outputs changes only by one atomic     *)
(* step that consumes some live outputs and creates outputs at fresh,      *)
(* consecutive identifiers above every identifier handed out before, the   *)
(* records of the outputs it leaves alone unchanged.  A consumed output    *)
(* is never live again.                                                    *)
(***************************************************************************)
EXTENDS Naturals, FiniteSets, Functions, TLC

CONSTANTS
    Records,    \* what an output carries
    MaxTxo      \* identifiers range over 0..MaxTxo-1

VARIABLES
    live,       \* identifier -> record of every live output
    spent,      \* identifiers consumed so far
    nxt         \* the next identifier to hand out

avars == <<live, spent, nxt>>

AInit == live = <<>> /\ spent = {} /\ nxt = 0

\* One transaction: consume the live outputs C, hand out the k identifiers
\* nxt..nxt+k-1, of which those in N become live with records f.
Transact ==
    \E C \in SUBSET DOMAIN live, k \in 0..(MaxTxo - nxt) :
      \E N \in SUBSET (nxt..(nxt + k - 1)) :
        \E f \in [N -> Records] :
          /\ live' = f @@ Restrict(live, DOMAIN live \ C)
          /\ spent' = spent \cup C
          /\ nxt' = nxt + k

ASpec == AInit /\ [][Transact]_avars

=============================================================================
