------------------------------- MODULE MCEntry -------------------------------
(***************************************************************************)
(* Entry with a kernel whose init_size is larger than its image, and a     *)
(* command line of one page.                                               *)
(***************************************************************************)
EXTENDS Entry
=============================================================================
