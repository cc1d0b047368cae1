------------------------------- MODULE MCIde -------------------------------
(* Sectors of two words; a primary master and slave and a secondary master, *)
(* or one disk.                                                             *)
EXTENDS IdeCtrl
MCBarAddrs == [b \in 0..4 |-> IF b = 1 THEN {2, 6} ELSE {b + 1}]
MCWorkload == [c \in 0..1 |-> IF c = 0 THEN {"RECAL", "READ", "WRITEDMA"} ELSE {"WRITE", "READDMA"}]
MCTransfers == {<<2, 1>>}
MCDisks == {<<0, 0>>, <<0, 1>>, <<1, 0>>}
MCOneDisk == {<<0, 0>>}
MCDmaWorkload == [c \in 0..1 |-> IF c = 0 THEN {"WRITEDMA"} ELSE {"READDMA"}]

\* After the reset of a busy channel the properties of MCIde.cfg promise nothing,
\* so that run goes no further; MCIde_reset.cfg does.
UntilBusyReset == ~busyReset
=============================================================================
