--------------------------- MODULE MCFinanceIngest ---------------------------
(***************************************************************************)
(* Small instances of FinanceIngest for TLC.                               *)
(***************************************************************************)
EXTENDS FinanceIngest, TLC

CONSTANTS acc, other, k0, k1, j0, h1

MCAccountOf == [k \in Keys |-> IF k \in {k0, k1} THEN acc ELSE other]
MCDayOf == [k \in Keys |-> IF k = k1 THEN 1 ELSE 0]
MCHolderOf == [h \in Holds |-> acc]

\* Requests are interchangeable.
TxSymmetry == Permutations(Txs)
=============================================================================
