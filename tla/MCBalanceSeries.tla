--------------------------- MODULE MCBalanceSeries ---------------------------
(***************************************************************************)
(* A small instance of BalanceSeries for TLC: a payment in and a transfer  *)
(* out between the owner's accounts.                                       *)
(***************************************************************************)
EXTENDS BalanceSeries

MCKinds == {[amt |-> 2, internal |-> FALSE], [amt |-> -1, internal |-> TRUE]}
=============================================================================
