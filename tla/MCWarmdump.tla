------------------------------ MODULE MCWarmdump ------------------------------
(***************************************************************************)
(* Warmdump over three crashes: what one leaves behind meets the next, and *)
(* what that one leaves meets a third.                                     *)
(***************************************************************************)
EXTENDS Warmdump
=============================================================================
