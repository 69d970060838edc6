------------------------------ MODULE MCOrders -------------------------------
(***************************************************************************)
(* Orders for TLC, with numbers of few bits.                               *)
(***************************************************************************)
EXTENDS Orders

MCExponents == -7..0
=============================================================================
