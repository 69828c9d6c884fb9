-------------------------- MODULE MCTschExperiment --------------------------
(* Instances of TschExperiment.  The nodes are interchangeable, but the    *)
(* run checks liveness, so it does without symmetry.                       *)
EXTENDS TschExperiment
=============================================================================
