------------------------------- MODULE MCErase -------------------------------
(***************************************************************************)
(* Erase on a small card, for every partition it can hold.                 *)
(***************************************************************************)
EXTENDS Erase

CONSTANT LastLba

MCLbas == 0 .. LastLba
MCPartitions ==
    {p \in [start : MCLbas, end : MCLbas] : p.start <= p.end}
=============================================================================
