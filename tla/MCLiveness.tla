------------------------------ MODULE MCLiveness ------------------------------
(* Time in rounds of the timer.  The answer to a ping can be as late as    *)
(* the assumption of AnsweringPeerLives allows.                            *)
EXTENDS Liveness
===============================================================================
