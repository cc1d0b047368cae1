------------------------------ MODULE MCLDoms ------------------------------
(* Instances of LDoms: two domains on two CPUs.                            *)
EXTENDS LDoms

RebootFirst == <<0, 1, 0>>
TwoSegments == <<"bootparams", "mptable">>
TimerAndSerial == <<2, 4>>
=============================================================================
