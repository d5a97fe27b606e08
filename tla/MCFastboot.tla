------------------------------ MODULE MCFastboot ------------------------------
(***************************************************************************)
(* Fastboot with small downloads; the fb_*.cfg files choose the pool size  *)
(* and what may fail.                                                      *)
(***************************************************************************)
EXTENDS Fastboot
=============================================================================
