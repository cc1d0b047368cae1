------------------------------ MODULE MCIOHub ------------------------------
(* Small instances of IOHub: two devices with windows of different sizes;  *)
(* LDoms are interchangeable.                                              *)
EXTENDS IOHub, TLC

MCSize == <<8, 4>>
Symmetry == Permutations(LDoms)
=============================================================================
