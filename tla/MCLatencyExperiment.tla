------------------------ MODULE MCLatencyExperiment ------------------------
(* One client of each operating system.                                    *)
EXTENDS LatencyExperiment

CONSTANTS contiki, riot

MC_Clients == {contiki, riot}
MC_Contiki == {contiki}
MC_Riot == {riot}
MC_None == {}
=============================================================================
