---------------------------- MODULE MCStreamAdapter ----------------------------
(* Histories of up to six messages out of seven that are made; two         *)
(* screenshots, of which the smaller fits twice and otherwise only one     *)
(* does; a cutoff that three to six messages reach; two milliseconds, so  *)
(* that a compaction comes before a rejection, with it, or after it.       *)
EXTENDS StreamAdapter
================================================================================
