----------------------------- MODULE MCSessionPool -----------------------------
(* Four calls on two session IDs or none, with room for two in each line;  *)
(* the calls are interchangeable.                                          *)
EXTENDS SessionPool, TLC

Symmetry == Permutations(Request) \union Permutations(Id)
================================================================================
