------------------------- MODULE TschSlotOperation -------------------------
(***************************************************************************)
(* TSCH slot operation on one node                                         *)
(* (3-experiment-tsch/app-contiki-tsch/tsch-slot-operation.c).             *)
(*                                                                         *)
(* The slot protothread runs in the rtimer interrupt; the rest of the      *)
(* system runs in process context, only while the protothread is yielded.  *)
(* pt is the protothread's position.  A segment between two yields is a    *)
(* chain of actions through positions that are not in Preemptible, so      *)
(* nothing else runs inside it.  A yield whose deadline is missed does not *)
(* give way to processes; the behaviours in which they do nothing at that  *)
(* point cover it.                                                         *)
(*                                                                         *)
(* Time is unwrapped here: TschTimer settles the wrapped arithmetic.       *)
(***************************************************************************)
EXTENDS Integers, Sequences

CONSTANTS
  Links,                \* records [handle, type, tx, rx, channel_offset]
  NoLink,               \* NULL
  HoppingSequence,      \* a sequence of channels
  JoinSequence,         \* TSCH_JOIN_HOPPING_SEQUENCE, as a set
  TSCH_BURST_MAX_LEN,
  TimeslotLength,       \* tsch_timing[tsch_ts_timeslot_length]
  DesyncThreshold,      \* TSCH_DESYNC_THRESHOLD, in slots
  SYNC_IE_BOUND,        \* largest correction taken from an ACK
  AckCorrections,       \* values of the Sync-IE of an ACK
  Drifts,               \* offsets measured on reception
  Compensations,        \* results of tsch_timesync_adaptive_compensate
  DequeuedCapacity,     \* of dequeued_ringbuf
  InputCapacity,        \* of input_ringbuf
  Coordinators,         \* what tsch_is_coordinator may be: BOOLEAN, or less
  TSCH_TIMESYNC_DRIFT_CORRECTION,    \* build options, as Booleans
  TSCH_CCA_ENABLED,
  TSCH_RADIO_ON_DURING_TIMESLOT,
  MaxGap,               \* bound: largest timeslot_diff of the schedule
  MaxAsn,               \* bound: no slot begins from this ASN on
  MaxMisses             \* bound: consecutive deadlines missed

ASSUME LinksAssumption ==
  /\ NoLink \notin Links
  /\ \A link \in Links :
       /\ link.handle \in Nat
       /\ link.type \in {"normal", "advertising", "advertising_only"}
       /\ link.tx \in BOOLEAN
       /\ link.rx \in BOOLEAN
       /\ link.channel_offset \in Nat

ASSUME HoppingAssumption ==
  /\ HoppingSequence \in Seq(Nat)
  /\ HoppingSequence # << >>

ASSUME TimingAssumption ==
  /\ TimeslotLength \in Nat
  /\ DesyncThreshold \in Nat
  /\ SYNC_IE_BOUND \in Nat
  /\ AckCorrections \subseteq Int
  /\ Drifts \subseteq Int
  /\ Compensations \subseteq Int

ASSUME BoundsAssumption ==
  /\ TSCH_BURST_MAX_LEN \in Nat
  /\ DequeuedCapacity \in Nat
  /\ InputCapacity \in Nat
  /\ MaxGap \in Nat \ {0}
  /\ MaxAsn \in Nat
  /\ MaxMisses \in Nat

ASSUME OptionsAssumption ==
  /\ Coordinators \subseteq BOOLEAN
  /\ TSCH_TIMESYNC_DRIFT_CORRECTION \in BOOLEAN
  /\ TSCH_CCA_ENABLED \in BOOLEAN
  /\ TSCH_RADIO_ON_DURING_TIMESLOT \in BOOLEAN

VARIABLES
  tsch_is_coordinator,     \* set before TSCH starts
  tsch_is_associated,
  tsch_locked,
  tsch_lock_requested,
  tsch_in_slot_operation,
  proc,                    \* where process context is in tsch_get_lock
  pt,                      \* where the slot protothread is
  tsch_current_asn,
  current_slot_start,
  last_sync_asn,
  drift_correction,
  misses,                  \* deadlines missed since a slot last ended
  corrections,             \* history: what the slot starts should include
  current_link,
  backup_link,
  burst_link_scheduled,
  tsch_current_burst_count,
  tsch_current_channel,
  current_packet,          \* whom it is for; "none" is NULL
  mac_tx_status,
  burst_link_requested,
  dequeued,                \* packets in dequeued_ringbuf
  input,                   \* packets in input_ringbuf
  radio_on

lockVars  == <<tsch_locked, tsch_lock_requested, proc>>
clockVars == <<tsch_current_asn, current_slot_start, last_sync_asn,
               drift_correction, misses, corrections>>
linkVars  == <<current_link, backup_link, burst_link_scheduled,
               tsch_current_burst_count, tsch_current_channel>>
txVars    == <<current_packet, mac_tx_status, burst_link_requested>>
ringVars  == <<dequeued, input>>

vars == <<tsch_is_coordinator, tsch_is_associated, tsch_in_slot_operation,
          pt, radio_on, lockVars, clockVars, linkVars, txVars, ringVars>>

-----------------------------------------------------------------------------
(* Positions and values *)

(* Positions of process context: "spin" is the busy wait of tsch_get_lock, *)
(* "take" and "clear" the points before its two last assignments.          *)
ProcPositions == {"idle", "spin", "take", "clear", "held"}

TxPositions == {"tx_start", "tx_cca", "tx_wait", "tx_ack", "tx_post"}
RxPositions == {"rx_start", "rx_listen", "rx_ack", "rx_accept"}

(* "off": no timer is armed; "assoc": in tsch_slot_operation_start;        *)
(* "wait": yielded until the next slot; "end": the slot's work is done;    *)
(* "resched": in the loop that looks for the next slot.                    *)
PtPositions ==
  {"off", "assoc", "wait", "end", "resched"} \cup TxPositions \cup RxPositions

(* The protothread is yielded: processes may run. *)
Preemptible == pt \in {"off", "wait", "tx_cca", "tx_wait", "tx_ack",
                       "rx_listen", "rx_ack"}

(* "source" is a unicast packet to a time source, "other" to another       *)
(* neighbor; EBs and broadcasts are not acknowledged.                      *)
Unicast == {"source", "other"}
Packets == {"none", "eb", "broadcast"} \cup Unicast

TxStatuses == {"ok", "collision", "noack", "err", "fatal"}

(* The link's own offset: these builds have no link selector.              *)
tsch_get_channel_offset(link) == link.channel_offset

Channel(asn, channel_offset) ==
  HoppingSequence[((asn + channel_offset) % Len(HoppingSequence)) + 1]

(* EBs keep to the join sequence, judged on the channel hopping gives. *)
is_current_channel_in_join_sequence(link) ==
  Channel(tsch_current_asn, link.channel_offset) \in JoinSequence

(* What the queues may offer for a link.  A coordinator has no time        *)
(* source.                                                                 *)
get_packet_for_link(link) ==
  {"none"} \cup
  {p \in Packets \ {"none"} :
     /\ link.tx
     /\ p = "eb" => /\ link.type # "normal"
                    /\ is_current_channel_in_join_sequence(link)
     /\ p # "eb" => link.type # "advertising_only"
     /\ p = "source" => ~tsch_is_coordinator}

(* What tsch_radio_on and tsch_radio_off do with a command depends on the  *)
(* build.                                                                  *)
TurnsOn(command) ==
  \/ command = "START_OF_TIMESLOT" /\ TSCH_RADIO_ON_DURING_TIMESLOT
  \/ command = "WITHIN_TIMESLOT" /\ ~TSCH_RADIO_ON_DURING_TIMESLOT

TurnsOff(command) ==
  \/ command = "FORCE"
  \/ command = "END_OF_TIMESLOT" /\ TSCH_RADIO_ON_DURING_TIMESLOT
  \/ command = "WITHIN_TIMESLOT" /\ ~TSCH_RADIO_ON_DURING_TIMESLOT

tsch_radio_on(command) == radio_on' = (radio_on \/ TurnsOn(command))

tsch_radio_off(command) == radio_on' = (radio_on /\ ~TurnsOff(command))

(* The radio is turned on within the slot to listen, then turned off by    *)
(* these commands.                                                         *)
Listen(commands) ==
  radio_on' = (/\ radio_on \/ TurnsOn("WITHIN_TIMESLOT")
               /\ \A command \in commands : ~TurnsOff(command))

Truncate(correction) ==
  CASE correction > SYNC_IE_BOUND  -> SYNC_IE_BOUND
    [] correction < -SYNC_IE_BOUND -> -SYNC_IE_BOUND
    [] OTHER -> correction

(* A time source told us how far off we are: corrects the clock and counts *)
(* as a synchronization.                                                   *)
Synchronize(correction) ==
  /\ drift_correction' = correction
  /\ last_sync_asn' = tsch_current_asn
  /\ corrections' = IF TSCH_TIMESYNC_DRIFT_CORRECTION
                    THEN corrections + correction ELSE corrections
  /\ UNCHANGED <<tsch_current_asn, current_slot_start, misses>>

-----------------------------------------------------------------------------
(* Everything is statically zero; TSCH is not autostarted. *)
Init ==
  /\ tsch_is_coordinator \in Coordinators
  /\ tsch_is_associated = FALSE
  /\ tsch_locked = FALSE
  /\ tsch_lock_requested = FALSE
  /\ tsch_in_slot_operation = FALSE
  /\ proc = "idle"
  /\ pt = "off"
  /\ tsch_current_asn = 0
  /\ current_slot_start = 0
  /\ last_sync_asn = 0
  /\ drift_correction = 0
  /\ misses = 0
  /\ corrections = 0
  /\ current_link = NoLink
  /\ backup_link = NoLink
  /\ burst_link_scheduled = FALSE
  /\ tsch_current_burst_count = 0
  /\ tsch_current_channel = 0
  /\ current_packet = "none"
  /\ mac_tx_status = "ok"
  /\ burst_link_requested = FALSE
  /\ dequeued = 0
  /\ input = 0
  /\ radio_on = FALSE

-----------------------------------------------------------------------------
(* Process context: association, the lock, the consumers of the two rings. *)

(* tsch_slot_operation_sync.  Slot starts are measured from the slot of    *)
(* association, put where the ASN says.                                    *)
tsch_slot_operation_sync(asn) ==
  /\ pt = "off" /\ proc = "idle"
  /\ ~tsch_is_associated
  /\ tsch_is_associated' = TRUE
  /\ pt' = "assoc"
  /\ tsch_current_asn' = asn
  /\ current_slot_start' = TimeslotLength * asn
  /\ last_sync_asn' = asn
  /\ corrections' = 0
  /\ misses' = 0
  /\ current_link' = NoLink
  /\ UNCHANGED <<tsch_is_coordinator, drift_correction, backup_link,
                 burst_link_scheduled, tsch_current_burst_count,
                 tsch_current_channel, tsch_in_slot_operation, radio_on,
                 lockVars, txVars, ringVars>>

(* tsch_schedule_get_next_active_link: any link and any gap, with a backup *)
(* that can receive; or none, and the next slot is taken.                  *)
NextActiveLink(diff) ==
  \/ /\ current_link' = NoLink
     /\ backup_link' = NoLink
     /\ diff = 1
  \/ /\ current_link' \in Links
     /\ backup_link' \in {NoLink} \cup {b \in Links \ {current_link'} : b.rx}

(* Move to the slot diff slots ahead, with the clock correction given.     *)
(* tsch_schedule_slot_operation then arms the timer, or reports a miss.    *)
AdvanceSlot(diff, correction) ==
  /\ tsch_current_asn' = tsch_current_asn + diff
  /\ \E compensation \in Compensations :
       /\ current_slot_start' = current_slot_start + TimeslotLength * diff
                                + correction + compensation
       /\ corrections' = corrections + compensation
  /\ \/ pt' = "wait" /\ misses' = misses
     \/ misses < MaxMisses /\ pt' = pt /\ misses' = misses + 1

(* One turn of the loop of tsch_slot_operation_start. *)
tsch_slot_operation_start ==
  /\ pt = "assoc"
  /\ \E diff \in 1 .. MaxGap : NextActiveLink(diff) /\ AdvanceSlot(diff, 0)
  /\ UNCHANGED <<tsch_is_coordinator, tsch_is_associated,
                 tsch_in_slot_operation, last_sync_asn, drift_correction,
                 burst_link_scheduled, tsch_current_burst_count,
                 tsch_current_channel, radio_on, lockVars, txVars, ringVars>>

(* The TSCH process leaves the network, at any point it may run. *)
tsch_disassociate ==
  /\ Preemptible /\ proc = "idle"
  /\ tsch_is_associated
  /\ tsch_is_associated' = FALSE
  /\ UNCHANGED <<tsch_is_coordinator, tsch_in_slot_operation, pt, radio_on,
                 lockVars, clockVars, linkVars, txVars, ringVars>>

(* tsch_get_lock, up to the busy wait. *)
RequestLock ==
  /\ Preemptible /\ proc = "idle"
  /\ ~tsch_locked
  /\ tsch_lock_requested' = TRUE
  /\ proc' = "spin"
  /\ UNCHANGED <<tsch_is_coordinator, tsch_is_associated,
                 tsch_in_slot_operation, pt, radio_on, tsch_locked,
                 clockVars, linkVars, txVars, ringVars>>

(* while(tsch_in_slot_operation) finds it cleared. *)
SlotOver_Unchecked == TRUE
SlotOver == ~tsch_in_slot_operation

SpinExit ==
  /\ Preemptible /\ proc = "spin"
  /\ SlotOver
  /\ proc' = "take"
  /\ UNCHANGED <<tsch_is_coordinator, tsch_is_associated,
                 tsch_in_slot_operation, pt, radio_on, tsch_locked,
                 tsch_lock_requested, clockVars, linkVars, txVars, ringVars>>

TakeLock ==
  /\ Preemptible /\ proc = "take"
  /\ tsch_locked' = TRUE
  /\ proc' = "clear"
  /\ UNCHANGED <<tsch_is_coordinator, tsch_is_associated,
                 tsch_in_slot_operation, pt, radio_on, tsch_lock_requested,
                 clockVars, linkVars, txVars, ringVars>>

ClearRequest ==
  /\ Preemptible /\ proc = "clear"
  /\ tsch_lock_requested' = FALSE
  /\ proc' = "held"
  /\ UNCHANGED <<tsch_is_coordinator, tsch_is_associated,
                 tsch_in_slot_operation, pt, radio_on, tsch_locked,
                 clockVars, linkVars, txVars, ringVars>>

tsch_release_lock ==
  /\ Preemptible /\ proc = "held"
  /\ tsch_locked' = FALSE
  /\ proc' = "idle"
  /\ UNCHANGED <<tsch_is_coordinator, tsch_is_associated,
                 tsch_in_slot_operation, pt, radio_on, tsch_lock_requested,
                 clockVars, linkVars, txVars, ringVars>>

(* tsch_tx_process_pending and tsch_rx_process_pending take packets out of *)
(* the rings the slots fill.                                               *)
ProcessPending ==
  /\ Preemptible /\ proc = "idle"
  /\ \/ dequeued > 0 /\ dequeued' = dequeued - 1 /\ input' = input
     \/ input > 0 /\ input' = input - 1 /\ dequeued' = dequeued
  /\ UNCHANGED <<tsch_is_coordinator, tsch_is_associated,
                 tsch_in_slot_operation, pt, radio_on, lockVars, clockVars,
                 linkVars, txVars>>

-----------------------------------------------------------------------------
(* The slot protothread: one turn of its main loop. *)

(* The timer fires after the node has left: the protothread ends. *)
WakeDisassociated ==
  /\ pt = "wait"
  /\ ~tsch_is_associated
  /\ pt' = "off"
  /\ UNCHANGED <<tsch_is_coordinator, tsch_is_associated,
                 tsch_in_slot_operation, radio_on, lockVars, clockVars,
                 linkVars, txVars, ringVars>>

Wake == pt = "wait" /\ tsch_is_associated /\ tsch_current_asn < MaxAsn

(* No link, or somebody waits for the lock: nothing is done in this slot.  *)
SkipSlot ==
  /\ Wake
  /\ current_link = NoLink \/ tsch_lock_requested
  /\ pt' = "end"
  /\ UNCHANGED <<tsch_is_coordinator, tsch_is_associated,
                 tsch_in_slot_operation, radio_on, lockVars, clockVars,
                 linkVars, txVars, ringVars>>

(* Nothing to send on current_link, and backup_link is worth listening to. *)
do_skip_best_link ==
  /\ backup_link # NoLink
  /\ ~current_link.rx \/ backup_link.handle < current_link.handle

(* Execute link with packet; in a burst, on the channel of the last slot.  *)
StartSlot(link, packet) ==
  LET is_active_slot == packet # "none" \/ link.rx
  IN  /\ current_link' = link
      /\ current_packet' = packet
      /\ tsch_in_slot_operation' = TRUE
      /\ drift_correction' = 0
      /\ burst_link_scheduled' = FALSE
      /\ \/ /\ is_active_slot
            /\ pt' = IF packet # "none" THEN "tx_start" ELSE "rx_start"
            /\ tsch_current_channel' =
                 IF burst_link_scheduled
                 THEN tsch_current_channel
                 ELSE Channel(tsch_current_asn,
                              tsch_get_channel_offset(link))
            /\ tsch_radio_on("START_OF_TIMESLOT")
         \/ /\ ~is_active_slot
            /\ pt' = "end"
            /\ UNCHANGED <<tsch_current_channel, radio_on>>

BeginSlot ==
  /\ Wake
  /\ current_link # NoLink /\ ~tsch_lock_requested
  /\ \E packet \in get_packet_for_link(current_link) :
       \/ /\ packet = "none" /\ do_skip_best_link
          /\ \E packet2 \in get_packet_for_link(backup_link) :
               StartSlot(backup_link, packet2)
       \/ /\ packet # "none" \/ ~do_skip_best_link
          /\ StartSlot(current_link, packet)
  /\ UNCHANGED <<tsch_is_coordinator, tsch_is_associated, tsch_current_asn,
                 current_slot_start, last_sync_asn, misses, corrections,
                 backup_link, tsch_current_burst_count, mac_tx_status,
                 burst_link_requested, lockVars, ringVars>>

(* A coordinator is in sync by definition. *)
SyncCoordinator ==
  last_sync_asn' =
    IF tsch_is_coordinator THEN tsch_current_asn ELSE last_sync_asn

(* The last synchronization is too old. *)
Desynchronized_AfterSlot ==
  /\ ~tsch_is_coordinator /\ tsch_in_slot_operation
  /\ tsch_current_asn - last_sync_asn > DesyncThreshold
Desynchronized ==
  /\ ~tsch_is_coordinator
  /\ tsch_current_asn - last_sync_asn > DesyncThreshold

LeaveNetwork_InSlot ==
  /\ tsch_is_associated' = FALSE
  /\ pt' = "off"
  /\ UNCHANGED <<tsch_is_coordinator, tsch_in_slot_operation, misses>>

(* tsch_disassociate, and a yield from which no timer wakes. *)
LeaveNetwork ==
  /\ tsch_is_associated' = FALSE
  /\ tsch_in_slot_operation' = FALSE
  /\ pt' = "off"
  /\ UNCHANGED misses

(* The slot is over: leave the network, or look for the next slot. *)
EndOfSlot ==
  /\ pt = "end"
  /\ SyncCoordinator
  /\ \/ Desynchronized /\ LeaveNetwork
     \/ /\ ~Desynchronized
        /\ pt' = "resched"
        /\ misses' = 0
        /\ UNCHANGED <<tsch_is_associated, tsch_in_slot_operation>>
  /\ UNCHANGED <<tsch_is_coordinator, tsch_current_asn, current_slot_start,
                 drift_correction, corrections, radio_on, lockVars, linkVars,
                 txVars, ringVars>>

(* The next slot comes later or earlier by the correction of this one,     *)
(* once.                                                                   *)
Correction_Always == drift_correction
Correction == IF TSCH_TIMESYNC_DRIFT_CORRECTION THEN drift_correction ELSE 0

ResetCorrection_WhenArmed ==
  drift_correction' = IF pt' = "wait" THEN 0 ELSE drift_correction
ResetCorrection == drift_correction' = 0

(* Replay the link of a burst in the next slot. *)
ReplayLink(diff) ==
  /\ burst_link_scheduled /\ current_link # NoLink
  /\ diff = 1
  /\ current_link' = current_link
  /\ backup_link' = NoLink
  /\ tsch_current_burst_count' = tsch_current_burst_count + 1

AskSchedule(diff) ==
  /\ ~burst_link_scheduled \/ current_link = NoLink
  /\ NextActiveLink(diff)
  /\ tsch_current_burst_count' =
       IF current_link' = NoLink THEN tsch_current_burst_count ELSE 0

(* One turn of the loop that looks for the next slot.  When the timer is   *)
(* armed the slot is over.                                                 *)
ScheduleNext ==
  /\ pt = "resched"
  /\ \E diff \in 1 .. MaxGap :
       /\ ReplayLink(diff) \/ AskSchedule(diff)
       /\ AdvanceSlot(diff, Correction)
  /\ ResetCorrection
  /\ tsch_in_slot_operation' = (tsch_in_slot_operation /\ pt' # "wait")
  /\ UNCHANGED <<tsch_is_coordinator, tsch_is_associated, last_sync_asn,
                 burst_link_scheduled, tsch_current_channel, radio_on,
                 lockVars, txVars, ringVars>>

-----------------------------------------------------------------------------
(* tsch_tx_slot *)

(* ringbufindex_peek_put finds no room. *)
DequeuedFull_Ignored == FALSE
DequeuedFull == dequeued = DequeuedCapacity

(* No room in dequeued_ringbuf, and nothing is done; or the packet has no  *)
(* buffer; or it is prepared, asking for a burst if more packets wait for  *)
(* the neighbor.                                                           *)
TxStart ==
  /\ pt = "tx_start"
  /\ \/ /\ DequeuedFull
        /\ pt' = "end"
        /\ UNCHANGED <<mac_tx_status, burst_link_requested>>
     \/ /\ ~DequeuedFull
        /\ pt' = "tx_post"
        /\ mac_tx_status' = "fatal"
        /\ burst_link_requested' = burst_link_requested
     \/ /\ ~DequeuedFull
        /\ \E more_packets \in BOOLEAN :
             burst_link_requested' =
               (/\ current_packet \in Unicast
                /\ tsch_current_burst_count + 1 < TSCH_BURST_MAX_LEN
                /\ more_packets)
        /\ \/ pt' = "tx_post" /\ mac_tx_status' = "err"
           \/ /\ pt' = IF TSCH_CCA_ENABLED THEN "tx_cca" ELSE "tx_wait"
              /\ mac_tx_status' = mac_tx_status
  /\ UNCHANGED <<tsch_is_coordinator, tsch_is_associated,
                 tsch_in_slot_operation, current_packet, radio_on, lockVars,
                 clockVars, linkVars, ringVars>>

(* The channel is clear, or somebody transmits; the radio stays on. *)
TxCca ==
  /\ pt = "tx_cca"
  /\ tsch_radio_on("WITHIN_TIMESLOT")
  /\ \/ pt' = "tx_wait" /\ mac_tx_status' = mac_tx_status
     \/ pt' = "tx_post" /\ mac_tx_status' = "collision"
  /\ UNCHANGED <<tsch_is_coordinator, tsch_is_associated,
                 tsch_in_slot_operation, current_packet,
                 burst_link_requested, lockVars, clockVars, linkVars,
                 ringVars>>

TxTransmit ==
  /\ pt = "tx_wait"
  /\ tsch_radio_off("WITHIN_TIMESLOT")
  /\ \/ pt' = "tx_post" /\ mac_tx_status' = "err"
     \/ /\ current_packet \notin Unicast
        /\ pt' = "tx_post" /\ mac_tx_status' = "ok"
     \/ /\ current_packet \in Unicast
        /\ pt' = "tx_ack" /\ mac_tx_status' = mac_tx_status
  /\ UNCHANGED <<tsch_is_coordinator, tsch_is_associated,
                 tsch_in_slot_operation, current_packet,
                 burst_link_requested, lockVars, clockVars, linkVars,
                 ringVars>>

(* Listen for the ACK.  From a time source it brings a correction, which   *)
(* is truncated; if a burst was asked for, it grants it.                   *)
TxReceiveAck ==
  /\ pt = "tx_ack"
  /\ Listen({"WITHIN_TIMESLOT"})
  /\ pt' = "tx_post"
  /\ \/ /\ mac_tx_status' = "noack"
        /\ UNCHANGED <<burst_link_scheduled, clockVars>>
     \/ /\ mac_tx_status' = "ok"
        /\ burst_link_scheduled' =
             (burst_link_scheduled \/ burst_link_requested)
        /\ \/ /\ current_packet = "source"
              /\ \E correction \in AckCorrections :
                   Synchronize(Truncate(correction))
           \/ /\ current_packet # "source"
              /\ UNCHANGED clockVars
  /\ UNCHANGED <<tsch_is_coordinator, tsch_is_associated,
                 tsch_in_slot_operation, current_packet,
                 burst_link_requested, current_link, backup_link,
                 tsch_current_burst_count, tsch_current_channel, lockVars,
                 ringVars>>

(* tsch_queue_packet_sent takes the packet out of its queue when it was    *)
(* sent, and may when its retries are exhausted.                           *)
TxPost ==
  /\ pt = "tx_post"
  /\ tsch_radio_off("END_OF_TIMESLOT")
  /\ \/ dequeued' = dequeued + 1
     \/ mac_tx_status # "ok" /\ dequeued' = dequeued
  /\ pt' = "end"
  /\ UNCHANGED <<tsch_is_coordinator, tsch_is_associated,
                 tsch_in_slot_operation, input, lockVars, clockVars,
                 linkVars, txVars>>

-----------------------------------------------------------------------------
(* tsch_rx_slot *)

InputFull_Ignored == FALSE
InputFull == input = InputCapacity

(* No room in input_ringbuf, and nothing is done; or sleep until the guard *)
(* time.                                                                   *)
RxStart ==
  /\ pt = "rx_start"
  /\ pt' = IF InputFull THEN "end" ELSE "rx_listen"
  /\ UNCHANGED <<tsch_is_coordinator, tsch_is_associated,
                 tsch_in_slot_operation, radio_on, lockVars, clockVars,
                 linkVars, txVars, ringVars>>

(* No packet was seen during the guard time. *)
Silence_Unforced == pt' = "end" /\ Listen({"END_OF_TIMESLOT"})
Silence == pt' = "end" /\ Listen({"FORCE", "END_OF_TIMESLOT"})

(* A frame that is not read, not valid or not for us. *)
Rejected_Return == pt' = "end" /\ Listen({"WITHIN_TIMESLOT"})
Rejected == pt' = "end" /\ Listen({"WITHIN_TIMESLOT", "END_OF_TIMESLOT"})

(* Otherwise a frame to accept, after its ACK if it asks for one. *)
RxListen ==
  /\ pt = "rx_listen"
  /\ \/ Silence
     \/ Rejected
     \/ pt' \in {"rx_ack", "rx_accept"} /\ Listen({"WITHIN_TIMESLOT"})
  /\ UNCHANGED <<tsch_is_coordinator, tsch_is_associated,
                 tsch_in_slot_operation, lockVars, clockVars, linkVars,
                 txVars, ringVars>>

(* Send the ACK; the frame pending bit grants the sender a burst. *)
RxSendAck ==
  /\ pt = "rx_ack"
  /\ pt' = "rx_accept"
  /\ tsch_radio_off("WITHIN_TIMESLOT")
  /\ burst_link_scheduled' \in BOOLEAN
  /\ UNCHANGED <<tsch_is_coordinator, tsch_is_associated,
                 tsch_in_slot_operation, current_link, backup_link,
                 tsch_current_burst_count, tsch_current_channel, lockVars,
                 clockVars, txVars, ringVars>>

(* A frame from a time source tells how late we are: go back by as much.   *)
RxAccept ==
  /\ pt = "rx_accept"
  /\ \/ ~tsch_is_coordinator /\ \E estimated_drift \in Drifts :
                             Synchronize(-estimated_drift)
     \/ UNCHANGED clockVars
  /\ input' = input + 1
  /\ tsch_radio_off("END_OF_TIMESLOT")
  /\ pt' = "end"
  /\ UNCHANGED <<tsch_is_coordinator, tsch_is_associated,
                 tsch_in_slot_operation, dequeued, lockVars, linkVars, txVars>>

-----------------------------------------------------------------------------

LockStep == SpinExit \/ TakeLock \/ ClearRequest

Process ==
  \/ \E asn \in tsch_current_asn .. MaxAsn : tsch_slot_operation_sync(asn)
  \/ tsch_slot_operation_start
  \/ tsch_disassociate
  \/ RequestLock \/ LockStep \/ tsch_release_lock
  \/ ProcessPending

TxSlot == TxStart \/ TxCca \/ TxTransmit \/ TxReceiveAck \/ TxPost
RxSlot == RxStart \/ RxListen \/ RxSendAck \/ RxAccept

SlotOperation ==
  \/ WakeDisassociated
  \/ SkipSlot \/ BeginSlot
  \/ TxSlot \/ RxSlot
  \/ EndOfSlot \/ ScheduleNext

Next == Process \/ SlotOperation

Spec == Init /\ [][Next]_vars

(* An armed rtimer fires and an interrupt handler runs to its next yield;  *)
(* a process that spins in tsch_get_lock is given the CPU between them.    *)
FairSpec == Spec /\ WF_vars(SlotOperation) /\ WF_vars(LockStep)

-----------------------------------------------------------------------------
(* Properties *)

TypeOK ==
  /\ tsch_is_coordinator \in BOOLEAN
  /\ tsch_is_associated \in BOOLEAN
  /\ tsch_locked \in BOOLEAN
  /\ tsch_lock_requested \in BOOLEAN
  /\ tsch_in_slot_operation \in BOOLEAN
  /\ proc \in ProcPositions
  /\ pt \in PtPositions
  /\ tsch_current_asn \in Nat
  /\ current_slot_start \in Int
  /\ last_sync_asn \in 0 .. tsch_current_asn
  /\ drift_correction \in Int
  /\ misses \in 0 .. MaxMisses
  /\ corrections \in Int
  /\ current_link \in Links \cup {NoLink}
  /\ backup_link \in Links \cup {NoLink}
  /\ burst_link_scheduled \in BOOLEAN
  /\ tsch_current_burst_count \in Nat
  /\ tsch_current_channel \in Nat
  /\ current_packet \in Packets
  /\ mac_tx_status \in TxStatuses
  /\ burst_link_requested \in BOOLEAN
  /\ dequeued \in 0 .. DequeuedCapacity
  /\ input \in 0 .. InputCapacity
  /\ radio_on \in BOOLEAN

(* Every slot starts where the network's slot grid and the corrections     *)
(* measured so far put it: each correction, truncated for an ACK, enters   *)
(* exactly one slot start, however many deadlines are then missed, however *)
(* many slots are skipped, and none is left over when the node waits       *)
(* (lines 1086-1088, 1199-1210).  Without TSCH_TIMESYNC_DRIFT_CORRECTION   *)
(* no measurement enters any.                                              *)
SlotGrid ==
  pt = "wait" =>
    current_slot_start = TimeslotLength * tsch_current_asn + corrections

(* A node never waits for a slot further from its last synchronization     *)
(* than the desynchronization threshold allows, plus the gap to that slot  *)
(* and the deadlines missed on the way; skipping slots for the lock or for *)
(* want of a link is no way around it (lines 1149-1164).                   *)
DesyncBounded ==
  pt = "wait" =>
    tsch_current_asn - last_sync_asn
      <= DesyncThreshold + MaxGap * (MaxMisses + 1)

(* The room a slot found in a ring when it began is still there when it    *)
(* stores a packet, after every yield in between: the slot is the only     *)
(* producer of both rings (lines 552-553 and 774-777, 832-833 and 1014).   *)
RoomReserved ==
  /\ pt \in TxPositions \ {"tx_start"} => dequeued < DequeuedCapacity
  /\ pt \in RxPositions \ {"rx_start"} => input < InputCapacity

(* The radio is off whenever the node is between two slots, whichever way  *)
(* the last one ended (the comments on tsch_radio_on and tsch_radio_off,   *)
(* lines 463-499), in the build without CCA that turns the radio on for    *)
(* parts of a slot.                                                        *)
RadioOffBetweenSlots == ~tsch_in_slot_operation => ~radio_on

(* In the build that keeps the radio on during a slot it is left on past   *)
(* the slot in one case only: the slot returned at once for want of room   *)
(* in its ring (lines 552 and 832 return before the radio is turned off,   *)
(* against the comment of lines 494-499).  Every other way out turns it    *)
(* off, and nothing turns it on between slots.                             *)
RadioLeftOnOnlyIfFull ==
  [][radio_on' /\ pt' \notin TxPositions \cup RxPositions =>
       \/ radio_on /\ pt \notin TxPositions \cup RxPositions
       \/ pt = "tx_start" /\ DequeuedFull
       \/ pt = "rx_start" /\ InputFull]_vars

(* The abstract lock: wanted from the request on, granted when taken. *)
SlotLock ==
  INSTANCE TschSlotLock WITH
    slot <- tsch_in_slot_operation,
    lock <- IF tsch_locked THEN "granted"
            ELSE IF tsch_lock_requested THEN "wanted" ELSE "free"

(* Slot operation keeps the promise of tsch_get_lock, whatever the slot    *)
(* and the processes do: no grant inside a slot, no slot begun past a      *)
(* waiting caller (lines 200-256, 1069).                                   *)
LockSafety == SlotLock!Safety

(* It also keeps the promise that slots end and waiting callers are        *)
(* served, when the timer and the CPU are fair.                            *)
LockPromise == SlotLock!Spec

-----------------------------------------------------------------------------
(* What a comment says, and the code does not do *)

(* "If we are in a burst, we stick to current channel instead of doing     *)
(* channel hopping" (lines 1111-1112): outside a burst, every slot hops.   *)
HopOutsideBurst ==
  pt \in {"tx_start", "rx_start"} /\ tsch_current_burst_count = 0 =>
    tsch_current_channel =
      Channel(tsch_current_asn, current_link.channel_offset)
=============================================================================
