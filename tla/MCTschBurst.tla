---------------------------- MODULE MCTschBurst ----------------------------
(* Instances of TschBurst: two nodes, interchangeable, and two channels,   *)
(* so that a node that is late may still be heard.                         *)
EXTENDS TschBurst, TLC

MC_HoppingSequence == <<15, 20>>
MC_Symmetry == Permutations(Nodes)
=============================================================================
