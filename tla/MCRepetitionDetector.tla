-------------------------- MODULE MCRepetitionDetector --------------------------
(* Every text of two letters and backticks up to a length at which all     *)
(* three detections happen, in all deltas of up to four characters, so     *)
(* that a fence may be cut anywhere.  The letters are interchangeable.     *)
EXTENDS RepetitionDetector, TLC

Symmetry == Permutations(Letter)
================================================================================
