--------------------------- MODULE MCConfirmations ---------------------------
(* Four blocks and three starts: the transaction can be mined before,      *)
(* between and after two synchronizations of each life of the purse.       *)
EXTENDS Confirmations
=============================================================================
