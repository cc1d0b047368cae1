----------------------------- MODULE MCIOHubCP -----------------------------
(* Small instances of IOHubCP: LDoms, of which DSid 0 also marks an unused *)
(* row, contend for the two rows of the table.  Runs of the tool are       *)
(* interchangeable where no liveness is checked.                           *)
EXTENDS IOHubCP, TLC

Symmetry == Permutations(Procs)
=============================================================================
