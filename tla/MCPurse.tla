------------------------------- MODULE MCPurse -------------------------------
(* Confirmed and pending coins for one or two of the amounts, not for      *)
(* every combination of them with its fees.                                *)
EXTENDS Purse

MCDeposit == [confirmed |-> 3, pending |-> 2]
MCLargerDeposit == [confirmed |-> 4, pending |-> 2]
=============================================================================
