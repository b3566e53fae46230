---------------------------- MODULE MCLoopRecovery ----------------------------
(* The default policy in units of five minutes: two recoveries in thirty   *)
(* minutes, ten minutes apart.  One content block.                         *)
EXTENDS LoopRecovery
===============================================================================
