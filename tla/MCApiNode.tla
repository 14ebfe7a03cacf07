----------------------------- MODULE MCApiNode ------------------------------
(***************************************************************************)
(* A node and its queries, with one transaction that calls a contract:     *)
(* once confirmed, the contract's key exists beside the miner's balance.   *)
(***************************************************************************)
EXTENDS ApiQueries, TLC

CONSTANTS Call, Miner, Slot

MCTouched == Call :> {Slot}
=============================================================================
