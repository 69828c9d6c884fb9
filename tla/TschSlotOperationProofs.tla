---------------------- MODULE TschSlotOperationProofs ----------------------
(***************************************************************************)
(* Invariants of TschSlotOperation for every schedule, hopping sequence,   *)
(* timing and capacity, and for every choice of the build options.         *)
(*                                                                         *)
(* The inductive invariant has these parts, each proved from TypeInv and   *)
(* from those before it that it needs:                                     *)
(*   TypeInv   types, and the room reserved in the rings;                  *)
(*   LockInv   how proc, the two lock flags and the slot flag agree;       *)
(*   GridInv   the slot start, with the correction that is still to be     *)
(*             applied, is on the grid;                                    *)
(*   SyncInv   how far the last synchronization can be;                    *)
(*   RadioInv  where in a slot the radio may be on;                        *)
(*   HopInv    between which points the flag of a burst is up.             *)
(***************************************************************************)
EXTENDS TschSlotOperation, TLAPS

USE DEF Preemptible

-----------------------------------------------------------------------------
(* Types *)

TypeInv == TypeOK /\ RoomReserved

LEMMA ChannelType ==
  ASSUME NEW asn \in Nat, NEW channel_offset \in Nat
  PROVE  Channel(asn, channel_offset) \in Nat
<1> DEFINE n == Len(HoppingSequence)
<1>1. n \in Nat /\ n > 0
  BY HoppingAssumption
<1>2. (asn + channel_offset) % n \in 0 .. n - 1
  BY <1>1
<1>3. ((asn + channel_offset) % n) + 1 \in 1 .. n
  BY <1>1, <1>2
<1> QED BY <1>3, HoppingAssumption DEF Channel

LEMMA TruncateType ==
  ASSUME NEW correction \in Int
  PROVE  Truncate(correction) \in Int
  BY TimingAssumption DEF Truncate

LEMMA PacketType == \A link : get_packet_for_link(link) \subseteq Packets
  BY Zenon DEF get_packet_for_link, Packets

LEMMA InitTypeInv == Init => TypeInv
<1> SUFFICES ASSUME Init PROVE TypeInv
  OBVIOUS
<1>1. /\ tsch_is_associated \in BOOLEAN /\ tsch_locked \in BOOLEAN
      /\ tsch_lock_requested \in BOOLEAN
      /\ tsch_in_slot_operation \in BOOLEAN
      /\ burst_link_scheduled \in BOOLEAN
      /\ burst_link_requested \in BOOLEAN /\ radio_on \in BOOLEAN
  BY Zenon DEF Init
<1>2. tsch_is_coordinator \in BOOLEAN
  BY OptionsAssumption, Zenon DEF Init
<1> QED
  BY <1>1, <1>2, BoundsAssumption
     DEF Init, TypeInv, TypeOK, RoomReserved, ProcPositions, PtPositions,
         TxPositions, RxPositions, Packets, Unicast, TxStatuses

(* The packet a slot stores finds the room seen when it began: processes   *)
(* only take packets out, so the two strict bounds survive every yield.    *)
LEMMA NextTypeInv == TypeInv /\ [Next]_vars => TypeInv'
<1> SUFFICES ASSUME TypeInv, [Next]_vars PROVE TypeInv'
  OBVIOUS
<1> USE BoundsAssumption
    DEF TypeInv, TypeOK, RoomReserved, ProcPositions, PtPositions,
        TxPositions, RxPositions,
        lockVars, clockVars, linkVars, txVars, ringVars
<1>1. ASSUME NEW asn \in tsch_current_asn .. MaxAsn, tsch_slot_operation_sync(asn)
      PROVE  TypeInv'
  BY <1>1, TimingAssumption DEF tsch_slot_operation_sync
<1>2. CASE tsch_slot_operation_start
  BY <1>2, TimingAssumption
     DEF tsch_slot_operation_start, NextActiveLink, AdvanceSlot
<1>3. CASE tsch_disassociate
  <2>1. tsch_is_associated' \in BOOLEAN
    BY <1>3, Zenon DEF tsch_disassociate
  <2> QED BY <1>3, <2>1 DEF tsch_disassociate
<1>4. CASE RequestLock
  BY <1>4 DEF RequestLock
<1>5. CASE SpinExit
  BY <1>5 DEF SpinExit
<1>6. CASE TakeLock
  BY <1>6 DEF TakeLock
<1>7. CASE ClearRequest
  <2>1. tsch_lock_requested' \in BOOLEAN
    BY <1>7, Zenon DEF ClearRequest
  <2> QED BY <1>7, <2>1 DEF ClearRequest
<1>8. CASE tsch_release_lock
  <2>1. tsch_locked' \in BOOLEAN
    BY <1>8, Zenon DEF tsch_release_lock
  <2> QED BY <1>8, <2>1 DEF tsch_release_lock
<1>9. CASE ProcessPending
  BY <1>9 DEF ProcessPending
<1>10. CASE WakeDisassociated
  BY <1>10 DEF WakeDisassociated
<1>11. CASE SkipSlot
  BY <1>11 DEF SkipSlot, Wake
<1>12. CASE BeginSlot
  <2>1. PICK link \in Links, packet \in Packets : StartSlot(link, packet)
    BY <1>12, PacketType DEF BeginSlot, do_skip_best_link
  <2>2. tsch_get_channel_offset(link) \in Nat
    BY LinksAssumption DEF tsch_get_channel_offset
  <2>3. tsch_current_channel' \in Nat
    BY <2>1, <2>2, ChannelType DEF StartSlot
  <2>4. /\ tsch_in_slot_operation' \in BOOLEAN
        /\ burst_link_scheduled' \in BOOLEAN
        /\ radio_on' \in BOOLEAN
    BY <2>1, Zenon DEF StartSlot, tsch_radio_on
  <2>5. pt' \in {"tx_start", "rx_start", "end"}
    BY <2>1 DEF StartSlot
  <2>6. /\ drift_correction' = 0
        /\ current_link' \in Links /\ current_packet' \in Packets
    BY <2>1 DEF StartSlot
  <2> QED BY <1>12, <2>3, <2>4, <2>5, <2>6 DEF BeginSlot
<1>13. CASE TxStart
  <2>1. burst_link_requested' \in BOOLEAN
    BY <1>13, Zenon DEF TxStart
  <2>2. pt' \in {"end", "tx_post", "tx_cca", "tx_wait"}
    BY <1>13 DEF TxStart
  <2>3. mac_tx_status' \in TxStatuses
    BY <1>13 DEF TxStart, TxStatuses
  <2>4. pt' = "end" \/ dequeued # DequeuedCapacity
    BY <1>13, Zenon DEF TxStart, DequeuedFull
  <2> QED BY <1>13, <2>1, <2>2, <2>3, <2>4 DEF TxStart
<1>14. CASE TxCca
  BY <1>14 DEF TxCca, TxStatuses, tsch_radio_on
<1>15. CASE TxTransmit
  BY <1>15 DEF TxTransmit, TxStatuses, tsch_radio_off
<1>16. CASE TxReceiveAck
  BY <1>16, TruncateType, TimingAssumption
     DEF TxReceiveAck, TxStatuses, Listen, Synchronize
<1>17. CASE TxPost
  BY <1>17 DEF TxPost, tsch_radio_off
<1>18. CASE RxStart
  BY <1>18 DEF RxStart, InputFull
<1>19. CASE RxListen
  <2>1. radio_on' \in BOOLEAN
    BY <1>19, Zenon DEF RxListen, Silence, Rejected, Listen
  <2>2. pt' \in {"end", "rx_ack", "rx_accept"}
    BY <1>19 DEF RxListen, Silence, Rejected
  <2> QED BY <1>19, <2>1, <2>2 DEF RxListen
<1>20. CASE RxSendAck
  BY <1>20 DEF RxSendAck, tsch_radio_off
<1>21. CASE RxAccept
  BY <1>21, TimingAssumption DEF RxAccept, tsch_radio_off, Synchronize
<1>22. CASE EndOfSlot
  <2>1. tsch_is_associated' \in BOOLEAN /\ tsch_in_slot_operation' \in BOOLEAN
    BY <1>22, Zenon DEF EndOfSlot, LeaveNetwork
  <2> QED BY <1>22, <2>1 DEF EndOfSlot, SyncCoordinator, LeaveNetwork
<1>23. CASE ScheduleNext
  BY <1>23, TimingAssumption
     DEF ScheduleNext, ReplayLink, AskSchedule, NextActiveLink, AdvanceSlot,
         Correction, ResetCorrection
<1>24. CASE UNCHANGED vars
  BY <1>24 DEF vars
<1> QED
  BY <1>1, <1>2, <1>3, <1>4, <1>5, <1>6, <1>7, <1>8, <1>9, <1>10, <1>11,
     <1>12, <1>13, <1>14, <1>15, <1>16, <1>17, <1>18, <1>19, <1>20, <1>21,
     <1>22, <1>23, <1>24
     DEF Next, Process, LockStep, SlotOperation, TxSlot, RxSlot

THEOREM TypeInvariance == Spec => []TypeInv
  BY InitTypeInv, NextTypeInv, PTL DEF Spec

(* Every variable keeps to its type, and neither ring overflows. *)
THEOREM TypeCorrect == Spec => []TypeOK
<1>1. TypeInv => TypeOK BY DEF TypeInv
<1> QED BY <1>1, TypeInvariance, PTL

(* No slot ever stores a packet in a full ring (lines 552-553, 774-777,    *)
(* 832-833, 1014).                                                         *)
THEOREM RoomAlwaysReserved == Spec => []RoomReserved
<1>1. TypeInv => RoomReserved BY DEF TypeInv
<1> QED BY <1>1, TypeInvariance, PTL

-----------------------------------------------------------------------------
(* The lock *)

LockInv ==
  /\ tsch_lock_requested <=> proc \in {"spin", "take", "clear"}
  /\ tsch_locked <=> proc \in {"clear", "held"}
  /\ proc \in {"take", "clear"} => ~tsch_in_slot_operation
  /\ pt \in {"off", "assoc", "wait"} => ~tsch_in_slot_operation

LEMMA InitLockInv == Init => LockInv
  BY DEF Init, LockInv

(* The slot flag rises only in BeginSlot, where the lock is not requested. *)
LEMMA NextLockInv == TypeInv /\ LockInv /\ [Next]_vars => LockInv'
<1> SUFFICES ASSUME TypeInv, LockInv, [Next]_vars PROVE LockInv'
  OBVIOUS
<1> USE DEF TypeInv, TypeOK, LockInv, lockVars
<1>1. ASSUME NEW asn \in tsch_current_asn .. MaxAsn, tsch_slot_operation_sync(asn)
      PROVE  LockInv'
  BY <1>1 DEF tsch_slot_operation_sync
<1>2. CASE tsch_slot_operation_start
  BY <1>2 DEF tsch_slot_operation_start, AdvanceSlot
<1>3. CASE tsch_disassociate
  BY <1>3 DEF tsch_disassociate
<1>4. CASE RequestLock
  BY <1>4 DEF RequestLock
<1>5. CASE SpinExit
  BY <1>5 DEF SpinExit, SlotOver
<1>6. CASE TakeLock
  BY <1>6 DEF TakeLock
<1>7. CASE ClearRequest
  BY <1>7 DEF ClearRequest
<1>8. CASE tsch_release_lock
  BY <1>8 DEF tsch_release_lock
<1>9. CASE ProcessPending
  BY <1>9 DEF ProcessPending
<1>10. CASE WakeDisassociated
  BY <1>10 DEF WakeDisassociated
<1>11. CASE SkipSlot
  BY <1>11 DEF SkipSlot
<1>12. CASE BeginSlot
  BY <1>12 DEF BeginSlot, StartSlot
<1>13. CASE TxStart
  BY <1>13 DEF TxStart
<1>14. CASE TxCca
  BY <1>14 DEF TxCca
<1>15. CASE TxTransmit
  BY <1>15 DEF TxTransmit
<1>16. CASE TxReceiveAck
  BY <1>16 DEF TxReceiveAck
<1>17. CASE TxPost
  BY <1>17 DEF TxPost
<1>18. CASE RxStart
  BY <1>18 DEF RxStart
<1>19. CASE RxListen
  BY <1>19 DEF RxListen, Silence, Rejected
<1>20. CASE RxSendAck
  BY <1>20 DEF RxSendAck
<1>21. CASE RxAccept
  BY <1>21 DEF RxAccept
<1>22. CASE EndOfSlot
  BY <1>22 DEF EndOfSlot, LeaveNetwork
<1>23. CASE ScheduleNext
  BY <1>23 DEF ScheduleNext, AdvanceSlot
<1>24. CASE UNCHANGED vars
  BY <1>24 DEF vars
<1> QED
  BY <1>1, <1>2, <1>3, <1>4, <1>5, <1>6, <1>7, <1>8, <1>9, <1>10, <1>11,
     <1>12, <1>13, <1>14, <1>15, <1>16, <1>17, <1>18, <1>19, <1>20, <1>21,
     <1>22, <1>23, <1>24
     DEF Next, Process, LockStep, SlotOperation, TxSlot, RxSlot

THEOREM LockInvariance == Spec => [](TypeInv /\ LockInv)
  BY InitTypeInv, NextTypeInv, InitLockInv, NextLockInv, PTL DEF Spec

-----------------------------------------------------------------------------
(* The slot grid *)

(* The correction of the current slot exists only from its measurement to  *)
(* the computation of the next slot start, and in that time the node is in *)
(* sync: it cannot leave the network and take the correction along.        *)
GridInv ==
  /\ current_slot_start + Correction
       = TimeslotLength * tsch_current_asn + corrections
  /\ drift_correction # 0 => /\ pt \in {"tx_post", "end", "resched"}
                             /\ last_sync_asn = tsch_current_asn

LEMMA InitGridInv == Init => GridInv
  BY TimingAssumption DEF Init, GridInv, Correction

LEMMA Distribute ==
  ASSUME NEW a \in Int, NEW b \in Int
  PROVE  TimeslotLength * (a + b) = TimeslotLength * a + TimeslotLength * b
  BY TimingAssumption

LEMMA ProductType ==
  ASSUME NEW a \in Int PROVE TimeslotLength * a \in Int
  BY TimingAssumption

(* Moving to another slot keeps to the grid and uses up the correction. *)
LEMMA AdvanceGrid ==
  ASSUME TypeInv, GridInv, NEW diff \in 1 .. MaxGap,
         AdvanceSlot(diff, Correction), drift_correction' = 0
  PROVE  GridInv'
<1> USE DEF TypeInv, TypeOK
<1>1. /\ TimeslotLength * tsch_current_asn \in Int
      /\ TimeslotLength * diff \in Int
      /\ TimeslotLength * tsch_current_asn'
           = TimeslotLength * tsch_current_asn + TimeslotLength * diff
  <2>1. /\ tsch_current_asn \in Int /\ diff \in Int
        /\ tsch_current_asn' = tsch_current_asn + diff
    BY BoundsAssumption DEF AdvanceSlot
  <2> QED BY <2>1, Distribute, ProductType
<1>2. Correction \in Int
  BY DEF Correction
<1>3. Correction' = 0
  BY DEF Correction
<1>4. current_slot_start'
        = TimeslotLength * tsch_current_asn' + corrections'
  <2>1. PICK compensation \in Compensations :
          /\ current_slot_start' = current_slot_start + TimeslotLength * diff
                                   + Correction + compensation
          /\ corrections' = corrections + compensation
    BY DEF AdvanceSlot
  <2>2. compensation \in Int
    BY TimingAssumption
  <2>3. current_slot_start + Correction
          = TimeslotLength * tsch_current_asn + corrections
    BY DEF GridInv
  <2> HIDE DEF Correction
  <2> QED BY <1>1, <1>2, <2>1, <2>2, <2>3
<1>5. current_slot_start' \in Int
  BY <1>1, <1>2, TimingAssumption DEF AdvanceSlot
<1> QED BY <1>3, <1>4, <1>5 DEF GridInv

LEMMA NextGridInv == TypeInv /\ GridInv /\ [Next]_vars => GridInv'
<1> SUFFICES ASSUME TypeInv, GridInv, [Next]_vars PROVE GridInv'
  OBVIOUS
<1> USE DEF TypeInv, TypeOK, clockVars
<1>1. CASE UNCHANGED clockVars /\ (pt' \in {"tx_post", "end", "resched"} \/ drift_correction = 0)
  BY <1>1 DEF GridInv, Correction
<1>2. ASSUME NEW correction \in Int, Synchronize(correction),
             drift_correction = 0, pt' \in {"tx_post", "end"}
      PROVE  GridInv'
  <2>1. TimeslotLength * tsch_current_asn \in Int
    BY ProductType
  <2> QED BY <1>2, <2>1 DEF Synchronize, GridInv, Correction
<1>3. ASSUME NEW asn \in tsch_current_asn .. MaxAsn, tsch_slot_operation_sync(asn)
      PROVE  GridInv'
  <2>1. drift_correction = 0 /\ drift_correction' = 0
    BY <1>3 DEF tsch_slot_operation_sync, GridInv
  <2>2. asn \in Int
    BY BoundsAssumption
  <2>3. TimeslotLength * asn \in Int
    BY <2>2, ProductType
  <2> QED BY <1>3, <2>1, <2>3 DEF tsch_slot_operation_sync, GridInv, Correction
<1>4. CASE tsch_slot_operation_start
  <2>1. drift_correction = 0 /\ drift_correction' = 0
    BY <1>4 DEF tsch_slot_operation_start, GridInv
  <2>2. Correction = 0
    BY <2>1 DEF Correction
  <2> QED BY <1>4, <2>1, <2>2, AdvanceGrid DEF tsch_slot_operation_start
<1>5. CASE ScheduleNext
  BY <1>5, AdvanceGrid DEF ScheduleNext, ResetCorrection
<1>6. CASE BeginSlot
  <2>1. /\ drift_correction = 0 /\ drift_correction' = 0
        /\ UNCHANGED <<tsch_current_asn, current_slot_start, corrections>>
    BY <1>6 DEF BeginSlot, Wake, StartSlot, GridInv
  <2> QED BY <2>1 DEF GridInv, Correction
<1>7. CASE TxReceiveAck
  <2>1. drift_correction = 0 /\ pt' = "tx_post"
    BY <1>7 DEF TxReceiveAck, GridInv
  <2>2. CASE UNCHANGED clockVars
    BY <1>1, <2>1, <2>2
  <2>3. ASSUME NEW correction \in AckCorrections, Synchronize(Truncate(correction))
        PROVE  GridInv'
    BY <1>2, <2>1, <2>3, TruncateType, TimingAssumption
  <2> QED BY <1>7, <2>2, <2>3 DEF TxReceiveAck
<1>8. CASE RxAccept
  <2>1. drift_correction = 0 /\ pt' = "end"
    BY <1>8 DEF RxAccept, GridInv
  <2>2. CASE UNCHANGED clockVars
    BY <1>1, <2>1, <2>2
  <2>3. ASSUME NEW estimated_drift \in Drifts, Synchronize(-estimated_drift)
        PROVE  GridInv'
    BY <1>2, <2>1, <2>3, TimingAssumption
  <2> QED BY <1>8, <2>2, <2>3 DEF RxAccept
<1>9. CASE EndOfSlot
  <2>1. CASE Desynchronized /\ LeaveNetwork
    <3>1. drift_correction = 0
      BY <2>1, TimingAssumption DEF Desynchronized, GridInv
    <3> QED BY <1>9, <3>1 DEF EndOfSlot, GridInv, Correction
  <2>2. CASE pt' = "resched"
    <3>1. drift_correction # 0 => last_sync_asn' = tsch_current_asn
      BY <1>9 DEF EndOfSlot, SyncCoordinator, GridInv
    <3> QED BY <1>9, <2>2, <3>1 DEF EndOfSlot, GridInv, Correction
  <2> QED BY <1>9, <2>1, <2>2 DEF EndOfSlot
<1>10. CASE tsch_disassociate \/ RequestLock \/ SpinExit \/ TakeLock \/ ClearRequest
            \/ tsch_release_lock \/ ProcessPending
  <2>1. drift_correction = 0 /\ UNCHANGED clockVars
    BY <1>10 DEF tsch_disassociate, RequestLock, SpinExit, TakeLock, ClearRequest,
                 tsch_release_lock, ProcessPending, GridInv
  <2> QED BY <1>1, <2>1
<1>11. CASE WakeDisassociated \/ SkipSlot
  <2>1. drift_correction = 0 /\ UNCHANGED clockVars
    BY <1>11 DEF WakeDisassociated, SkipSlot, Wake, GridInv
  <2> QED BY <1>1, <2>1
<1>12. CASE TxStart \/ TxCca \/ TxTransmit
  <2>1. drift_correction = 0 /\ UNCHANGED clockVars
    BY <1>12 DEF TxStart, TxCca, TxTransmit, GridInv
  <2> QED BY <1>1, <2>1
<1>13. CASE RxStart \/ RxListen \/ RxSendAck
  <2>1. drift_correction = 0 /\ UNCHANGED clockVars
    BY <1>13 DEF RxStart, RxListen, RxSendAck, GridInv
  <2> QED BY <1>1, <2>1
<1>14. CASE TxPost
  BY <1>1, <1>14 DEF TxPost
<1>15. CASE UNCHANGED vars
  BY <1>15 DEF vars, GridInv, Correction
<1> QED
  BY <1>3, <1>4, <1>5, <1>6, <1>7, <1>8, <1>9, <1>10, <1>11, <1>12, <1>13,
     <1>14, <1>15
     DEF Next, Process, LockStep, SlotOperation, TxSlot, RxSlot

(* Every slot the node waits for starts on the grid of the network, plus   *)
(* each measured correction exactly once (lines 1086-1088, 1199-1210).     *)
THEOREM AlwaysOnGrid == Spec => []SlotGrid
<1>1. TypeInv /\ GridInv => SlotGrid
  BY DEF TypeInv, TypeOK, GridInv, SlotGrid, Correction
<1> QED
  BY <1>1, InitTypeInv, NextTypeInv, InitGridInv, NextGridInv, PTL DEF Spec

-----------------------------------------------------------------------------
(* Staying synchronized *)

(* How far ahead of the last synchronization the current slot can be:      *)
(* inside the loop that looks for the next slot, each turn adds one gap.   *)
SyncInv ==
  pt # "off" =>
    tsch_current_asn - last_sync_asn
      <= IF pt \in {"assoc", "resched"}
         THEN DesyncThreshold + MaxGap * misses
         ELSE DesyncThreshold + MaxGap * (MaxMisses + 1)

LEMMA GapBound ==
  ASSUME NEW m \in 0 .. MaxMisses
  PROVE  /\ MaxGap * m \in Nat
         /\ MaxGap * (m + 1) = MaxGap * m + MaxGap
         /\ MaxGap * (m + 1) <= MaxGap * (MaxMisses + 1)
<1>1. \A g, a, b \in Nat : a <= b => g * a <= g * b
  OBVIOUS
<1>2. m \in Nat /\ m + 1 \in Nat /\ MaxMisses + 1 \in Nat
      /\ m + 1 <= MaxMisses + 1 /\ MaxGap \in Nat
  BY BoundsAssumption
<1> QED BY <1>1, <1>2

LEMMA InitSyncInv == Init => SyncInv
  BY DEF Init, SyncInv

LEMMA AdvanceSync ==
  ASSUME TypeInv, SyncInv, pt \in {"assoc", "resched"},
         NEW diff \in 1 .. MaxGap, NEW correction, AdvanceSlot(diff, correction),
         last_sync_asn' = last_sync_asn
  PROVE  SyncInv'
<1> USE DEF TypeInv, TypeOK
<1>1. tsch_current_asn - last_sync_asn
        <= DesyncThreshold + MaxGap * misses
  BY DEF SyncInv
<1>2. tsch_current_asn' = tsch_current_asn + diff /\ diff \in Nat /\ diff <= MaxGap
  BY BoundsAssumption DEF AdvanceSlot
<1>3. /\ MaxGap * misses \in Nat
      /\ MaxGap * (misses + 1) = MaxGap * misses + MaxGap
      /\ MaxGap * (misses + 1) <= MaxGap * (MaxMisses + 1)
  BY GapBound
<1>4. tsch_current_asn' - last_sync_asn'
        <= DesyncThreshold + MaxGap * (misses + 1)
  BY <1>1, <1>2, <1>3, BoundsAssumption, TimingAssumption
<1>5. CASE pt' = "wait"
  <2>1. MaxGap * (MaxMisses + 1) \in Nat /\ MaxGap * (misses + 1) \in Nat
    BY BoundsAssumption
  <2>2. tsch_current_asn' \in Nat /\ last_sync_asn' \in Nat
    BY <1>2
  <2>3. tsch_current_asn' - last_sync_asn'
          <= DesyncThreshold + MaxGap * (MaxMisses + 1)
    BY <1>3, <1>4, <2>1, <2>2, TimingAssumption
  <2> QED BY <1>5, <2>3 DEF SyncInv
<1>6. CASE pt' = pt /\ misses' = misses + 1
  BY <1>4, <1>6 DEF SyncInv
<1> QED BY <1>5, <1>6 DEF AdvanceSlot

LEMMA NextSyncInv == TypeInv /\ TypeInv' /\ SyncInv /\ [Next]_vars => SyncInv'
<1> SUFFICES ASSUME TypeInv, TypeInv', SyncInv, [Next]_vars PROVE SyncInv'
  OBVIOUS
<1> USE DEF TypeInv, TypeOK, clockVars
<1> DEFINE Far == DesyncThreshold + MaxGap * (MaxMisses + 1)
<1>1. /\ MaxGap * 0 = 0
      /\ MaxGap * (MaxMisses + 1) \in Nat
  BY BoundsAssumption
<1> HIDE DEF Far
<1>2. /\ Far \in Nat /\ DesyncThreshold <= Far
      /\ MaxGap * 0 = 0
  BY <1>1, TimingAssumption DEF Far
<1>3. SyncInv <=> (pt # "off" =>
                    tsch_current_asn - last_sync_asn
                      <= IF pt \in {"assoc", "resched"}
                         THEN DesyncThreshold + MaxGap * misses ELSE Far)
  BY DEF SyncInv, Far
<1>4. ASSUME UNCHANGED <<tsch_current_asn, last_sync_asn>>,
             pt \notin {"off", "assoc", "resched"},
             pt' \notin {"assoc", "resched"}
      PROVE  SyncInv'
  BY <1>3, <1>4 DEF SyncInv, Far
<1>5. ASSUME NEW asn \in tsch_current_asn .. MaxAsn, tsch_slot_operation_sync(asn)
      PROVE  SyncInv'
  BY <1>2, <1>5, BoundsAssumption, TimingAssumption
     DEF tsch_slot_operation_sync, SyncInv
<1>6. CASE tsch_slot_operation_start
  BY <1>6, AdvanceSync DEF tsch_slot_operation_start
<1>7. CASE ScheduleNext
  BY <1>7, AdvanceSync DEF ScheduleNext
<1>8. CASE EndOfSlot
  <2>1. CASE Desynchronized /\ LeaveNetwork
    BY <2>1 DEF LeaveNetwork, SyncInv
  <2>2. CASE ~Desynchronized /\ pt' = "resched" /\ misses' = 0
    <3>1. tsch_current_asn - last_sync_asn' <= DesyncThreshold
      BY <1>8, <2>2, OptionsAssumption, TimingAssumption
         DEF EndOfSlot, SyncCoordinator, Desynchronized
    <3>2. tsch_current_asn' = tsch_current_asn
      BY <1>8 DEF EndOfSlot
    <3>3. DesyncThreshold + MaxGap * misses' = DesyncThreshold
      BY <1>2, <2>2, TimingAssumption
    <3> QED BY <2>2, <3>1, <3>2, <3>3 DEF SyncInv
  <2> QED BY <1>8, <2>1, <2>2 DEF EndOfSlot
<1>9. CASE TxReceiveAck \/ RxAccept
  <2>1. pt' \in {"tx_post", "end"} /\ pt \in {"tx_ack", "rx_accept"}
    BY <1>9 DEF TxReceiveAck, RxAccept
  <2>2. CASE UNCHANGED clockVars
    BY <1>4, <2>1, <2>2
  <2>3. CASE last_sync_asn' = tsch_current_asn /\ tsch_current_asn' = tsch_current_asn
    BY <1>2, <2>1, <2>3 DEF SyncInv, Far
  <2> QED BY <1>9, <2>2, <2>3 DEF TxReceiveAck, RxAccept, Synchronize
<1>10. CASE \/ tsch_disassociate \/ RequestLock \/ SpinExit \/ TakeLock
            \/ ClearRequest \/ tsch_release_lock \/ ProcessPending
  BY <1>10
     DEF tsch_disassociate, RequestLock, SpinExit, TakeLock, ClearRequest,
         tsch_release_lock, ProcessPending, SyncInv
<1>11. CASE WakeDisassociated \/ SkipSlot
  BY <1>4, <1>11 DEF WakeDisassociated, SkipSlot, Wake
<1>12. CASE BeginSlot
  BY <1>4, <1>12 DEF BeginSlot, Wake, StartSlot
<1>13. CASE TxStart \/ TxCca \/ TxTransmit \/ TxPost
  BY <1>4, <1>13 DEF TxStart, TxCca, TxTransmit, TxPost
<1>14. CASE RxStart \/ RxListen \/ RxSendAck
  BY <1>4, <1>14 DEF RxStart, RxListen, RxSendAck, Silence, Rejected
<1>15. CASE UNCHANGED vars
  BY <1>15 DEF vars, SyncInv
<1> QED
  BY <1>5, <1>6, <1>7, <1>8, <1>9, <1>10, <1>11, <1>12, <1>13, <1>14, <1>15
     DEF Next, Process, LockStep, SlotOperation, TxSlot, RxSlot

(* No run of skipped slots or missed deadlines takes a node further from   *)
(* its last synchronization than the threshold, the gap to the next slot   *)
(* and the deadlines missed (lines 1149-1164).                             *)
THEOREM AlwaysDesyncBounded == Spec => []DesyncBounded
<1>1. SyncInv => DesyncBounded
  BY DEF SyncInv, DesyncBounded
<1> QED
  BY <1>1, InitTypeInv, NextTypeInv, InitSyncInv, NextSyncInv, PTL DEF Spec

-----------------------------------------------------------------------------
(* The radio *)

(* A slot that transmits or listens is under way.  Between two parts of it *)
(* the radio is on in one build only, and after it in none.                *)
RadioInv ==
  /\ pt \in TxPositions \cup RxPositions => tsch_in_slot_operation
  /\ pt = "tx_cca" => TSCH_CCA_ENABLED
  /\ radio_on => /\ TSCH_RADIO_ON_DURING_TIMESLOT
                 /\ pt \in TxPositions \cup RxPositions

(* The slot that begins finds room for its packet in the ring.             *)
RoomFound ==
  /\ pt = "tx_start" => ~DequeuedFull
  /\ pt = "rx_start" => ~InputFull

LEMMA InitRadioInv == Init => RadioInv
  BY DEF Init, RadioInv, TxPositions, RxPositions

(* Each way out of a slot turns the radio off: by the command that ends    *)
(* the part it was on for, or, in the build that keeps it on, by the one   *)
(* that ends the slot, which a slot without room returns before.           *)
LEMMA NextRadioInv ==
  ASSUME ~TSCH_CCA_ENABLED \/ TSCH_RADIO_ON_DURING_TIMESLOT,
         TSCH_RADIO_ON_DURING_TIMESLOT => RoomFound,
         TypeInv, LockInv, RadioInv, [Next]_vars
  PROVE  RadioInv'
<1> DEFINE Between == pt \notin TxPositions \cup RxPositions
<1> USE DEF TypeInv, TypeOK, RadioInv, TxPositions, RxPositions
<1>1. CASE UNCHANGED <<pt, tsch_in_slot_operation, radio_on>>
  BY <1>1, Zenon
<1>2. CASE Between /\ Between' /\ UNCHANGED radio_on
  BY <1>2
<1>3. ASSUME NEW asn \in tsch_current_asn .. MaxAsn, tsch_slot_operation_sync(asn)
      PROVE  RadioInv'
  BY <1>2, <1>3 DEF tsch_slot_operation_sync
<1>4. CASE tsch_slot_operation_start
  BY <1>2, <1>4 DEF tsch_slot_operation_start, AdvanceSlot
<1>5. CASE \/ tsch_disassociate \/ RequestLock \/ SpinExit \/ TakeLock
           \/ ClearRequest \/ tsch_release_lock \/ ProcessPending
  BY <1>1, <1>5
     DEF tsch_disassociate, RequestLock, SpinExit, TakeLock, ClearRequest,
         tsch_release_lock, ProcessPending
<1>6. CASE WakeDisassociated \/ SkipSlot
  BY <1>2, <1>6 DEF WakeDisassociated, SkipSlot, Wake
<1>7. CASE BeginSlot
  <2>1. PICK link, packet : StartSlot(link, packet)
    BY <1>7, Zenon DEF BeginSlot
  <2>2. pt = "wait" /\ ~radio_on
    BY <1>7 DEF BeginSlot, Wake
  <2>3. tsch_in_slot_operation'
    BY <2>1, Zenon DEF StartSlot
  <2>4. \/ /\ pt' \in {"tx_start", "rx_start"}
           /\ radio_on' => TSCH_RADIO_ON_DURING_TIMESLOT
        \/ pt' = "end" /\ ~radio_on'
    BY <2>1, <2>2 DEF StartSlot, tsch_radio_on, TurnsOn
  <2> QED BY <2>3, <2>4
<1>8. CASE TxStart
  <2>1. /\ UNCHANGED <<radio_on, tsch_in_slot_operation>>
        /\ pt = "tx_start"
    BY <1>8 DEF TxStart
  <2>2. pt' = "end" => DequeuedFull
    BY <1>8 DEF TxStart
  <2>3. pt' \in {"end", "tx_post", "tx_cca", "tx_wait"}
        /\ (pt' = "tx_cca" => TSCH_CCA_ENABLED)
    BY <1>8 DEF TxStart
  <2> QED BY <2>1, <2>2, <2>3 DEF RoomFound
<1>9. CASE RxStart
  <2>1. /\ UNCHANGED <<radio_on, tsch_in_slot_operation>>
        /\ pt = "rx_start"
        /\ pt' = IF InputFull THEN "end" ELSE "rx_listen"
    BY <1>9 DEF RxStart
  <2> QED BY <2>1 DEF RoomFound
<1>10. CASE TxCca
  BY <1>10 DEF TxCca, tsch_radio_on, TurnsOn
<1>11. CASE TxTransmit
  BY <1>11 DEF TxTransmit, tsch_radio_off
<1>12. CASE TxReceiveAck
  BY <1>12 DEF TxReceiveAck, Listen, TurnsOn, TurnsOff
<1>13. CASE TxPost
  BY <1>13 DEF TxPost, tsch_radio_off, TurnsOff
<1>14. CASE RxListen
  <2>1. /\ UNCHANGED tsch_in_slot_operation
        /\ pt = "rx_listen"
        /\ pt' \in {"end", "rx_ack", "rx_accept"}
    BY <1>14 DEF RxListen, Silence, Rejected
  <2>2. pt' = "end" => ~radio_on'
    BY <1>14, <2>1 DEF RxListen, Silence, Rejected, Listen, TurnsOn, TurnsOff
  <2>3. radio_on' => TSCH_RADIO_ON_DURING_TIMESLOT
    BY <1>14 DEF RxListen, Silence, Rejected, Listen, TurnsOn, TurnsOff
  <2> QED BY <2>1, <2>2, <2>3
<1>15. CASE RxSendAck
  BY <1>15 DEF RxSendAck, tsch_radio_off
<1>16. CASE RxAccept
  BY <1>16 DEF RxAccept, tsch_radio_off, TurnsOff
<1>17. CASE EndOfSlot
  BY <1>2, <1>17 DEF EndOfSlot, LeaveNetwork
<1>18. CASE ScheduleNext
  BY <1>2, <1>18 DEF ScheduleNext, AdvanceSlot
<1>19. CASE UNCHANGED vars
  BY <1>1, <1>19 DEF vars
<1> QED
  BY <1>3, <1>4, <1>5, <1>6, <1>7, <1>8, <1>9, <1>10, <1>11, <1>12, <1>13,
     <1>14, <1>15, <1>16, <1>17, <1>18, <1>19
     DEF Next, Process, LockStep, SlotOperation, TxSlot, RxSlot

(* In the default build the radio is off between two slots whichever way   *)
(* the last one ended: rings full, silence, a frame rejected, no ACK, the  *)
(* network left (lines 463-499 and the returns of 552, 832).               *)
THEOREM RadioAlwaysOffBetweenSlots ==
  ASSUME ~TSCH_CCA_ENABLED, ~TSCH_RADIO_ON_DURING_TIMESLOT
  PROVE  Spec => []RadioOffBetweenSlots
<1>1. TypeInv /\ LockInv /\ RadioInv /\ [Next]_vars => RadioInv'
  BY NextRadioInv
<1>2. RadioInv => RadioOffBetweenSlots
  BY DEF RadioInv, RadioOffBetweenSlots
<1> QED BY <1>1, <1>2, InitRadioInv, LockInvariance, PTL DEF Spec

(* In the build that keeps the radio on during a slot, with CCA or without *)
(* it, the radio is off between two slots as long as every slot finds room *)
(* in its ring (lines 552 and 832 return before the radio is turned off).  *)
THEOREM RadioOffGivenRoom ==
  ASSUME TSCH_RADIO_ON_DURING_TIMESLOT
  PROVE  Spec /\ []RoomFound => []RadioOffBetweenSlots
<1>1. RoomFound /\ TypeInv /\ LockInv /\ RadioInv /\ [Next]_vars => RadioInv'
  BY NextRadioInv
<1>2. RadioInv => RadioOffBetweenSlots
  BY DEF RadioInv, RadioOffBetweenSlots
<1> QED BY <1>1, <1>2, InitRadioInv, LockInvariance, PTL DEF Spec

(* In the build that keeps the radio on during a slot, with CCA or without *)
(* it, only a slot that finds its ring full leaves the radio on, and that  *)
(* case is real: lines 552 and 832 return before the radio is turned off.  *)
THEOREM RadioAlwaysLeftOnOnlyIfFull ==
  ASSUME TSCH_RADIO_ON_DURING_TIMESLOT
  PROVE  Spec => RadioLeftOnOnlyIfFull
<1> DEFINE InSlot == pt \in TxPositions \cup RxPositions
           Stays == \/ radio_on' => radio_on /\ ~InSlot
                    \/ InSlot'
           Allowed == \/ Stays
                      \/ pt = "tx_start" /\ DequeuedFull
                      \/ pt = "rx_start" /\ InputFull
<1>1. [Next]_vars => [Allowed]_vars
  <2> SUFFICES ASSUME Next PROVE Allowed
    OBVIOUS
  <2> USE DEF TxPositions, RxPositions
  <2>1. CASE UNCHANGED <<pt, radio_on>>
    BY <2>1
  <2>2. CASE ~InSlot /\ UNCHANGED radio_on
    BY <2>2
  <2>3. ASSUME NEW asn \in tsch_current_asn .. MaxAsn,
               tsch_slot_operation_sync(asn)
        PROVE  Allowed
    BY <2>2, <2>3 DEF tsch_slot_operation_sync
  <2>4. CASE tsch_slot_operation_start
    BY <2>2, <2>4 DEF tsch_slot_operation_start
  <2>5. CASE \/ tsch_disassociate \/ RequestLock \/ SpinExit \/ TakeLock
             \/ ClearRequest \/ tsch_release_lock \/ ProcessPending
    BY <2>1, <2>5
       DEF tsch_disassociate, RequestLock, SpinExit, TakeLock, ClearRequest,
           tsch_release_lock, ProcessPending
  <2>6. CASE WakeDisassociated \/ SkipSlot
    BY <2>2, <2>6 DEF WakeDisassociated, SkipSlot, Wake
  <2>7. CASE BeginSlot
    <3>1. PICK link, packet : StartSlot(link, packet)
      BY <2>7, Zenon DEF BeginSlot
    <3>2. pt = "wait"
      BY <2>7 DEF BeginSlot, Wake
    <3>3. pt' \in {"tx_start", "rx_start"} \/ UNCHANGED radio_on
      BY <3>1 DEF StartSlot
    <3> QED BY <3>2, <3>3
  <2>8. CASE TxStart
    <3>1. pt' = "end" => DequeuedFull
      BY <2>8 DEF TxStart
    <3>2. pt = "tx_start" /\ pt' \in {"end", "tx_post", "tx_cca", "tx_wait"}
      BY <2>8 DEF TxStart
    <3> QED BY <3>1, <3>2
  <2>9. CASE TxCca \/ TxTransmit \/ TxReceiveAck \/ RxSendAck
    BY <2>9 DEF TxCca, TxTransmit, TxReceiveAck, RxSendAck
  <2>10. CASE TxPost
    BY <2>10 DEF TxPost, tsch_radio_off, TurnsOff
  <2>11. CASE RxStart
    BY <2>11 DEF RxStart
  <2>12. CASE RxListen
    <3>1. pt' \in {"end", "rx_ack", "rx_accept"}
      BY <2>12 DEF RxListen, Silence, Rejected
    <3>2. pt' = "end" => ~radio_on'
      BY <2>12 DEF RxListen, Silence, Rejected, Listen, TurnsOff
    <3> QED BY <3>1, <3>2
  <2>13. CASE RxAccept
    BY <2>13 DEF RxAccept, tsch_radio_off, TurnsOff
  <2>14. CASE EndOfSlot \/ ScheduleNext
    BY <2>2, <2>14 DEF EndOfSlot, ScheduleNext
  <2> QED
    BY <2>3, <2>4, <2>5, <2>6, <2>7, <2>8, <2>9, <2>10, <2>11, <2>12,
       <2>13, <2>14
       DEF Next, Process, LockStep, SlotOperation, TxSlot, RxSlot
<1>2. [Allowed]_vars =>
        [radio_on' /\ pt' \notin TxPositions \cup RxPositions =>
           \/ radio_on /\ pt \notin TxPositions \cup RxPositions
           \/ pt = "tx_start" /\ DequeuedFull
           \/ pt = "rx_start" /\ InputFull]_vars
  BY DEF TxPositions, RxPositions
<1> QED BY <1>1, <1>2, PTL DEF Spec, RadioLeftOnOnlyIfFull

-----------------------------------------------------------------------------
(* Hopping *)

(* The flag of a burst is up only from the frame that asked for it to the  *)
(* slot that continues it, which the link of that frame occupies, and      *)
(* which the count of the burst includes.                                  *)
HopInv ==
  /\ burst_link_scheduled =>
       /\ pt \notin {"off", "assoc"}
       /\ current_link \in Links
       /\ pt = "wait" => tsch_current_burst_count > 0
  /\ pt \in TxPositions \cup RxPositions => current_link \in Links
  /\ HopOutsideBurst

(* No burst is left over when the node is out of the network.              *)
BurstEnded == pt = "off" => ~burst_link_scheduled

LEMMA InitHopInv == Init => HopInv
  BY DEF Init, HopInv, HopOutsideBurst, TxPositions, RxPositions

LEMMA NextHopInv == BurstEnded' /\ TypeInv /\ HopInv /\ [Next]_vars => HopInv'
<1> SUFFICES ASSUME BurstEnded', TypeInv, HopInv, [Next]_vars
             PROVE  HopInv'
  OBVIOUS
<1> USE DEF TypeInv, TypeOK, HopInv, TxPositions, RxPositions,
            clockVars, linkVars
<1>1. CASE /\ UNCHANGED <<linkVars, tsch_current_asn>>
           /\ pt' = pt
  BY <1>1 DEF HopOutsideBurst
<1>2. CASE /\ pt \notin {"off", "assoc", "wait"}
           /\ pt' \notin {"off", "assoc", "wait", "tx_start", "rx_start"}
           /\ UNCHANGED current_link /\ current_link \in Links
  BY <1>2 DEF HopOutsideBurst
<1>3. CASE ~burst_link_scheduled' /\ pt' \in {"off", "assoc", "wait", "resched"}
  BY <1>3 DEF HopOutsideBurst
<1>4. ASSUME NEW asn \in tsch_current_asn .. MaxAsn, tsch_slot_operation_sync(asn)
      PROVE  HopInv'
  BY <1>3, <1>4 DEF tsch_slot_operation_sync
<1>5. CASE tsch_slot_operation_start
  BY <1>3, <1>5 DEF tsch_slot_operation_start, AdvanceSlot
<1>6. CASE \/ tsch_disassociate \/ RequestLock \/ SpinExit \/ TakeLock
           \/ ClearRequest \/ tsch_release_lock \/ ProcessPending
  BY <1>1, <1>6
     DEF tsch_disassociate, RequestLock, SpinExit, TakeLock, ClearRequest,
         tsch_release_lock, ProcessPending
<1>7. CASE WakeDisassociated
  BY <1>3, <1>7 DEF WakeDisassociated, BurstEnded
<1>8. CASE SkipSlot
  BY <1>8 DEF SkipSlot, Wake, HopOutsideBurst
<1>9. CASE BeginSlot
  <2>1. PICK link \in Links : \E packet : StartSlot(link, packet)
    BY <1>9, Zenon DEF BeginSlot, do_skip_best_link
  <2>2. /\ ~burst_link_scheduled' /\ current_link' = link
        /\ pt' \in {"tx_start", "rx_start", "end"}
    BY <2>1 DEF StartSlot
  <2>3. /\ pt = "wait"
        /\ UNCHANGED <<tsch_current_asn, tsch_current_burst_count>>
    BY <1>9 DEF BeginSlot, Wake
  <2>4. ~burst_link_scheduled /\ pt' # "end"
          => tsch_current_channel' = Channel(tsch_current_asn, link.channel_offset)
    BY <2>1 DEF StartSlot, tsch_get_channel_offset
  <2>5. HopOutsideBurst'
    BY <2>2, <2>3, <2>4 DEF HopOutsideBurst
  <2> QED BY <2>1, <2>2, <2>5
<1>10. CASE TxStart \/ TxCca \/ TxTransmit \/ TxPost
  BY <1>2, <1>10 DEF TxStart, TxCca, TxTransmit, TxPost
<1>11. CASE TxReceiveAck
  BY <1>2, <1>11 DEF TxReceiveAck
<1>12. CASE RxStart \/ RxListen \/ RxSendAck \/ RxAccept
  BY <1>2, <1>12 DEF RxStart, RxListen, Silence, Rejected, RxSendAck, RxAccept
<1>13. CASE EndOfSlot
  <2>1. CASE LeaveNetwork
    BY <1>3, <2>1 DEF LeaveNetwork, BurstEnded
  <2>2. CASE pt' = "resched"
    BY <1>13, <2>2 DEF EndOfSlot, HopOutsideBurst
  <2> QED BY <1>13, <2>1, <2>2 DEF EndOfSlot
<1>14. CASE ScheduleNext
  <2>1. /\ pt' \in {"wait", "resched"} /\ pt = "resched"
        /\ UNCHANGED burst_link_scheduled
    BY <1>14 DEF ScheduleNext, AdvanceSlot
  <2>2. burst_link_scheduled =>
          /\ current_link' = current_link
          /\ tsch_current_burst_count' = tsch_current_burst_count + 1
    BY <1>14, LinksAssumption DEF ScheduleNext, ReplayLink, AskSchedule
  <2>3. HopOutsideBurst'
    BY <2>1 DEF HopOutsideBurst
  <2> QED BY <2>1, <2>2, <2>3
<1>15. CASE UNCHANGED vars
  BY <1>1, <1>15 DEF vars
<1> QED
  BY <1>4, <1>5, <1>6, <1>7, <1>8, <1>9, <1>10, <1>11, <1>12, <1>13, <1>14,
     <1>15
     DEF Next, Process, LockStep, SlotOperation, TxSlot, RxSlot

(* Leaving the network with the flag of a burst up is the only way to a    *)
(* slot outside a burst that does not hop: as long as no node leaves in    *)
(* this state, or the flag is cleared on the way, every slot that continues *)
(* no burst is on the channel of its ASN (lines 1106-1117, 1171-1189).     *)
THEOREM HopUnlessLeftInBurst == Spec /\ []BurstEnded => []HopOutsideBurst
<1>1. HopInv => HopOutsideBurst
  BY DEF HopInv
<1> QED
  BY <1>1, InitTypeInv, NextTypeInv, InitHopInv, NextHopInv, PTL DEF Spec

-----------------------------------------------------------------------------
(* Slot operation implements the abstract lock *)

(* Every step that touches the slot flag or a lock flag is a step of the   *)
(* abstract lock; the rest leave it as it is.                              *)
LEMMA LockStepRefines ==
  TypeInv /\ LockInv /\ [Next]_vars => [SlotLock!Next]_(SlotLock!vars)
<1> SUFFICES ASSUME TypeInv, LockInv, [Next]_vars
             PROVE  [SlotLock!Next]_(SlotLock!vars)
  OBVIOUS
<1> USE DEF TypeInv, TypeOK, LockInv, lockVars, SlotLock!Next, SlotLock!vars
<1>1. CASE UNCHANGED <<tsch_in_slot_operation, lockVars>>
  BY <1>1
<1>2. CASE RequestLock
  BY <1>2 DEF RequestLock, SlotLock!Request
<1>3. CASE SpinExit
  BY <1>3 DEF SpinExit
<1>4. CASE TakeLock
  BY <1>4 DEF TakeLock, SlotLock!Grant
<1>5. CASE ClearRequest
  BY <1>5 DEF ClearRequest
<1>6. CASE tsch_release_lock
  BY <1>6 DEF tsch_release_lock, SlotLock!Release
<1>7. CASE BeginSlot
  <2>1. /\ ~tsch_in_slot_operation /\ tsch_in_slot_operation' = TRUE
        /\ ~tsch_lock_requested /\ UNCHANGED lockVars
    BY <1>7 DEF BeginSlot, Wake, StartSlot
  <2> QED BY <2>1 DEF SlotLock!SlotBegin
<1>8. CASE EndOfSlot
  <2>1. /\ UNCHANGED lockVars
        /\ \/ UNCHANGED tsch_in_slot_operation
           \/ tsch_in_slot_operation' = FALSE
    BY <1>8 DEF EndOfSlot, LeaveNetwork
  <2> QED BY <2>1 DEF SlotLock!SlotEnd
<1>9. CASE ScheduleNext
  <2>1. /\ UNCHANGED lockVars
        /\ \/ UNCHANGED tsch_in_slot_operation
           \/ tsch_in_slot_operation' = FALSE
    BY <1>9 DEF ScheduleNext
  <2> QED BY <2>1 DEF SlotLock!SlotEnd
<1>10. CASE \/ \E asn \in tsch_current_asn .. MaxAsn :
                 tsch_slot_operation_sync(asn)
            \/ tsch_slot_operation_start \/ tsch_disassociate
            \/ ProcessPending \/ WakeDisassociated \/ SkipSlot
  BY <1>1, <1>10
     DEF tsch_slot_operation_sync, tsch_slot_operation_start,
         tsch_disassociate, ProcessPending, WakeDisassociated, SkipSlot
<1>11. CASE TxSlot \/ RxSlot
  BY <1>1, <1>11
     DEF TxSlot, TxStart, TxCca, TxTransmit, TxReceiveAck, TxPost,
         RxSlot, RxStart, RxListen, RxSendAck, RxAccept
<1>12. CASE UNCHANGED vars
  BY <1>1, <1>12 DEF vars
<1> QED
  BY <1>2, <1>3, <1>4, <1>5, <1>6, <1>7, <1>8, <1>9, <1>10, <1>11, <1>12
     DEF Next, Process, LockStep, SlotOperation

(* Whatever the slot and the processes do, the lock is granted only        *)
(* between slots and no slot overtakes a waiting caller (lines 200-256,    *)
(* 1069).                                                                  *)
THEOREM LockIsSafe == Spec => LockSafety
<1>1. Init => SlotLock!Init
  BY DEF Init, SlotLock!Init
<1> QED
  BY <1>1, LockStepRefines, LockInvariance, PTL
     DEF Spec, LockSafety, SlotLock!Safety
=============================================================================
