---------------------------- MODULE MCCPNetwork ----------------------------
(* CPNetwork with two PRM threads and two planes that share the select       *)
(* register, a decoded and an undecoded address, and a command to a handler. *)
EXTENDS CPNetwork
=============================================================================
