------------------------------ MODULE MCVector ------------------------------
(***************************************************************************)
(* Instances of Vector for TLC: an unsigned int of eight bits, and         *)
(* elements of three bytes.                                                *)
(***************************************************************************)
EXTENDS Vector

MCWord == 2^8
MCElementSize == 3
=============================================================================
