----------------------------- MODULE MCHp3488 -------------------------------
(* One or two slots; channel 0 stands for the channels every card has, 3    *)
(* for the one the microwave switch has not, 4 and 9 for the probe's.       *)
EXTENDS Hp3488, TLC

(* -C with five times the same model, be it there or not.                   *)
MCConfig == {[s \in 1 .. NSlots |-> model] : model \in Card}
=============================================================================
