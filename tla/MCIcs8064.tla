------------------------------ MODULE MCIcs8064 ------------------------------
(* Two users of one device; 17 stands for numbers that are no relay.        *)
EXTENDS Ics8064, TLC

CONSTANTS alice, bob

MCProc == {alice, bob}
MCList == {<<1>>, <<1, 1>>, <<2, 3>>, <<3, 17>>}
Symmetry == Permutations(MCProc)
=============================================================================
