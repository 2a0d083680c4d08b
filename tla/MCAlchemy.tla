----------------------------- MODULE MCAlchemy -----------------------------
(***************************************************************************)
(* Model checking of Alchemy with every account starting from one balance. *)
(***************************************************************************)
EXTENDS Alchemy

CONSTANT InitialBalance

Equal == [a \in Accounts |-> InitialBalance]
=============================================================================
