------------------------------ MODULE MCSessions ------------------------------
(* Instances of Sessions.                                                   *)
EXTENDS Sessions, TLC

CONSTANTS c1, c2

Symmetry == Permutations(Callers)
================================================================================
