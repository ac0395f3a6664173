------------------------------- MODULE MC_Lights -------------------------------
(***************************************************************************)
(* A small instance of Lights: a steady light, flashing of this LED and    *)
(* flashing of another one of the three, with delays and with none.        *)
(***************************************************************************)
EXTENDS Lights

Light(lv, fl, on, off) == [lit |-> TRUE, level |-> lv, flash |-> fl, on |-> on, off |-> off]
Flashing == {Light(0, TRUE, 1, 1), Light(1, TRUE, 1, 1), Light(1, TRUE, 0, 0)}
Steady == {Dark, Light(1, FALSE, 0, 0)}
TheStates == Flashing \cup Steady
===============================================================================
