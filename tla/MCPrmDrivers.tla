---------------------------- MODULE MCPrmDrivers ----------------------------
(* A machine with planes of each kind and one pardg5v cannot drive, and a *)
(* machine whose adaptor finds no plane.                                   *)
EXTENDS PrmDrivers
CONSTANTS sys, sys2, ioh, ich, cache
MCMachines == {{}, {sys, sys2, ioh, ich, cache}}
MCType == [p \in UNION MCMachines |-> CASE p \in {sys, sys2} -> "S" [] p = ioh -> "H"
                                             [] p = ich -> "I" [] OTHER -> "C"]
=============================================================================
