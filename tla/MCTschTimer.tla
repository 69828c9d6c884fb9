---------------------------- MODULE MCTschTimer ----------------------------
(* A 42-tick clock, slots of 7 ticks (one, two or three of them, one tick  *)
(* short or long when drift is corrected), and delays of more than half a  *)
(* turn: one tick more, and the busy wait would take the shortest interval *)
(* for one ahead.                                                          *)
EXTENDS TschTimer

MC_Intervals == {6, 7, 8, 14, 21}
=============================================================================
