------------------------------ MODULE MC_Sanity ------------------------------
(* Instances of Sanity for TLC: three vertices, values 0 .. 2.              *)
EXTENDS Sanity

SNode == 1 .. 3
SValues == 0 .. 2
=============================================================================
