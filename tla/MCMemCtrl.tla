----------------------------- MODULE MCMemCtrl -----------------------------
(* MemCtrl with two LDoms whose windows touch: a remap into the wrong window *)
(* is a remap into the other LDom's memory.  Address 3 lies beyond the       *)
(* window, as nothing keeps an LDom from asking for it.                      *)
EXTENDS MemCtrl
=============================================================================
