----------------------------- MODULE MCDmaPort -----------------------------
(* DmaPort with two-byte lines: an action is split into one to three        *)
(* packets, aligned or not, and two actions overlap in the port.          *)
EXTENDS DmaPort
=============================================================================
