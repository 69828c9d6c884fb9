------------------------ MODULE MCTschSlotOperation ------------------------
(* Two overlapping links of two slotframes, as in 6TiSCH: a link that only *)
(* transmits, for EBs or data, and a minimal link that does everything.    *)
EXTENDS TschSlotOperation

MC_Advertising ==
  [handle |-> 1, type |-> "advertising", tx |-> TRUE, rx |-> FALSE,
   channel_offset |-> 0]
MC_Minimal ==
  [handle |-> 0, type |-> "normal", tx |-> TRUE, rx |-> TRUE,
   channel_offset |-> 1]

MC_Links == {MC_Advertising, MC_Minimal}
MC_OneLink == {MC_Minimal}

MC_HoppingSequence == <<15, 20, 25>>
MC_AllChannels == {15, 20, 25}

(* An ACK correction inside the bound, one beyond it on each side. *)
MC_AckCorrections == {-3, 1, 3}
MC_Drifts == {-1, 0, 1}
MC_NoCompensation == {0}
MC_Compensations == {0, 1}
=============================================================================
