------------------------ MODULE MCTschNetworkUptime ------------------------
(* Instances of TschNetworkUptime. *)
EXTENDS TschNetworkUptime
=============================================================================
