------------------------------ MODULE MCFabric ------------------------------
(***************************************************************************)
(* Two cached ports of a CPU behind TagXBar and one other master, a memory *)
(* and an I/O address; three requests at a time, so that a layer has a     *)
(* request in it while two ports wait, and Requests are reused.            *)
(***************************************************************************)
EXTENDS Fabric, TLC

Fixed == [a \in {0} |-> "memory_port"]
Ports == [a \in {0, 1} |-> IF a = 0 THEN "shadowed" ELSE "io_port"]
RequestSymmetry == Permutations(Requests)
=============================================================================
