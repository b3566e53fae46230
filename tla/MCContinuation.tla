---------------------------- MODULE MCContinuation ----------------------------
(* Histories that grow along one line, have an item edited, shrink and     *)
(* start again; responses that add an item, or nothing that is kept        *)
(* locally.                                                                *)
EXTENDS Continuation, TLC

CONSTANTS a, b

Histories == {<<a>>, <<a, a>>, <<a, a, a>>, <<a, b>>}
Outputs == {<<>>, <<a>>}

EndpointSymmetry == Permutations(Endpoint)
===============================================================================
