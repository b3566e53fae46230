----------------------------- MODULE MCSessionGate -----------------------------
(* A session with four callers and a line of two: one runs, two wait, one  *)
(* is turned away or comes when a place is free again.                     *)
EXTENDS SessionGate
================================================================================
