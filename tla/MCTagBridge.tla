---------------------------- MODULE MCTagBridge ----------------------------
(* TagBridge with two requesters, two request slots and two response slots: *)
(* enough for every combination of full and non-full queues, for reordered  *)
(* answers and for a request that is stalled on one queue after the other.  *)
EXTENDS TagBridge
=============================================================================
