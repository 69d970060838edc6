----------------------------- MODULE MCRegistry ------------------------------
(***************************************************************************)
(* The registry for TLC: a buy maker and a taker of a sell order, which    *)
(* allocate funds, and a sell maker, which does not.                       *)
(***************************************************************************)
EXTENDS Registry
=============================================================================
