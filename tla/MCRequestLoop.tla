----------------------------- MODULE MCRequestLoop -----------------------------
(* A queue of two events and up to three frames per attempt: enough for a  *)
(* queue to overflow, and for output between two other frames.             *)
EXTENDS RequestLoop
================================================================================
