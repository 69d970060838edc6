------------------------------ MODULE MCMailbox ------------------------------
(***************************************************************************)
(* The channels of an actor for TLC: one task trades, the other only       *)
(* registers and unregisters, and each may act while the other waits for   *)
(* an answer.                                                              *)
(***************************************************************************)
EXTENDS Mailbox, TLC

CONSTANTS trading, watching

MCMayAsk == trading :> {"Begin", "Agree", "Query", "Shutdown"}
              @@ watching :> {"Register", "Unregister"}
=============================================================================
