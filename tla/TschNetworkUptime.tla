------------------------- MODULE TschNetworkUptime -------------------------
(***************************************************************************)
(* tsch_get_network_uptime_ticks on a node and on the coordinator          *)
(* (3-experiment-tsch/app-contiki-tsch/tsch-slot-operation.c:436-461), the *)
(* synchronizations it reads, and the latency that coordinator.c prints    *)
(* from the uptimes of a packet's sender and its own.                      *)
(*                                                                         *)
(* Time is counted in rtimer ticks of the network, whose slot k begins at  *)
(* k * TimeslotLength; the clocks of the nodes run at that rate, and tick  *)
(* at instants of their own.  The drift between two synchronizations is    *)
(* left out.  The function runs in process context, statement by           *)
(* statement; the slot operation interrupts it unless it is masked.        *)
(***************************************************************************)
EXTENDS Integers

CONSTANTS
  Nodes,
  Coordinator,
  TimeslotLength,    \* tsch_timing[tsch_ts_timeslot_length], rtimer ticks
  TicksPerClock,     \* RTIMER_ARCH_SECOND / CLOCK_SECOND
  GuardTime,         \* how far off a slot may be when it synchronizes
  Unknown,           \* (uint64_t)-1
  LongRange,         \* number of values of unsigned long
  MaxTime            \* bound: rtimer ticks

ASSUME NodesAssumption == Coordinator \in Nodes
ASSUME TimingAssumption ==
  /\ TimeslotLength \in Nat
  /\ TicksPerClock \in Nat \ {0}
  /\ GuardTime \in Nat
  /\ MaxTime \in Nat
ASSUME UnknownAssumption == Unknown \notin Int
ASSUME LongAssumption == LongRange \in Nat \ {0}

VARIABLES
  time,
  phase,                 \* of the tick of clock_time, on each node
  tsch_is_associated,
  last_sync_asn,
  tsch_last_sync_time,
  pc,                    \* where the node's process is
  masked,                \* between critical_enter and critical_exit
  uptime_ticks,
  began,                 \* history: when the function was called
  packet,                \* the packet on its way, or the empty record
  arrived                \* the packet udp_rx_callback works on

syncVars   == <<tsch_is_associated, last_sync_asn, tsch_last_sync_time>>
readerVars == <<pc, masked, uptime_ticks, began>>
packetVars == <<packet, arrived>>
vars == <<time, phase, syncVars, readerVars, packetVars>>

(* "returned": the uptime is in a local variable of the caller. *)
Positions == {"idle", "checked", "entered", "asn", "ticks", "returned"}

Nothing == << >>

clock_time(n) == (time + phase[n]) \div TicksPerClock

(* The slots a synchronization at this instant may be in. *)
SlotsNow ==
  {asn \in 0 .. time + GuardTime :
     /\ asn * TimeslotLength - GuardTime <= time
     /\ time <= (asn + 1) * TimeslotLength + GuardTime}

Init ==
  /\ time = 0
  /\ phase \in [Nodes -> 0 .. TicksPerClock - 1]
  /\ tsch_is_associated = [n \in Nodes |-> n = Coordinator]
  /\ last_sync_asn = [n \in Nodes |-> 0]
  /\ tsch_last_sync_time = [n \in Nodes |-> clock_time(n)]
  /\ pc = [n \in Nodes |-> "idle"]
  /\ masked = [n \in Nodes |-> FALSE]
  /\ uptime_ticks = [n \in Nodes |-> 0]
  /\ began = [n \in Nodes |-> 0]
  /\ packet = Nothing
  /\ arrived = Nothing

Tick ==
  /\ time < MaxTime
  /\ time' = time + 1
  /\ UNCHANGED <<phase, syncVars, readerVars, packetVars>>

-----------------------------------------------------------------------------
(* Interrupts: the slot operation, unless it is masked. *)

SyncTime_Kept(n) == tsch_last_sync_time[n]
SyncTime(n) == clock_time(n)

Synchronize(n, asn) ==
  /\ last_sync_asn' = [last_sync_asn EXCEPT ![n] = asn]
  /\ tsch_last_sync_time' = [tsch_last_sync_time EXCEPT ![n] = SyncTime(n)]

(* A slot with an ACK or a frame from a time source; on the coordinator,   *)
(* the end of any slot.                                                    *)
SyncInSlot(n) ==
  /\ ~masked[n]
  /\ tsch_is_associated[n]
  /\ \E asn \in SlotsNow : asn >= last_sync_asn[n] /\ Synchronize(n, asn)
  /\ UNCHANGED <<time, phase, tsch_is_associated, readerVars, packetVars>>

Disassociate(n) ==
  /\ ~masked[n]
  /\ tsch_is_associated[n] /\ n # Coordinator
  /\ tsch_is_associated' = [tsch_is_associated EXCEPT ![n] = FALSE]
  /\ UNCHANGED <<time, phase, last_sync_asn, tsch_last_sync_time,
                 readerVars, packetVars>>

-----------------------------------------------------------------------------
(* Processes, which do not preempt each other *)

AnyPoint(n) == TRUE
Scheduled(n) == pc[n] = "idle"

(* tsch_process joins a network: tsch_slot_operation_sync. *)
Associate(n) ==
  /\ Scheduled(n)
  /\ ~tsch_is_associated[n]
  /\ tsch_is_associated' = [tsch_is_associated EXCEPT ![n] = TRUE]
  /\ \E asn \in SlotsNow : Synchronize(n, asn)
  /\ UNCHANGED <<time, phase, readerVars, packetVars>>

(* The call: a node that is not associated knows no uptime. *)
Call(n) ==
  /\ pc[n] = "idle"
  /\ began' = [began EXCEPT ![n] = time]
  /\ \/ /\ tsch_is_associated[n]
        /\ pc' = [pc EXCEPT ![n] = "checked"]
        /\ uptime_ticks' = uptime_ticks
     \/ /\ ~tsch_is_associated[n]
        /\ pc' = [pc EXCEPT ![n] = "returned"]
        /\ uptime_ticks' = [uptime_ticks EXCEPT ![n] = Unknown]
  /\ UNCHANGED <<time, phase, syncVars, masked>>

Masks_Nothing == FALSE
Masks == TRUE

critical_enter(n) ==
  /\ pc[n] = "checked"
  /\ pc' = [pc EXCEPT ![n] = "entered"]
  /\ masked' = [masked EXCEPT ![n] = Masks]
  /\ UNCHANGED <<time, phase, syncVars, uptime_ticks, began, packetVars>>

(* The uptime at the last synchronization, in clock ticks. *)
AsnTicks(asn) == (asn * TimeslotLength) \div TicksPerClock

ReadAsn(n) ==
  /\ pc[n] = "entered"
  /\ pc' = [pc EXCEPT ![n] = "asn"]
  /\ uptime_ticks' = [uptime_ticks EXCEPT ![n] = AsnTicks(last_sync_asn[n])]
  /\ UNCHANGED <<time, phase, syncVars, masked, began, packetVars>>

(* The ticks since. *)
TicksSince_Negated(n) == tsch_last_sync_time[n] - clock_time(n)
TicksSince(n) == clock_time(n) - tsch_last_sync_time[n]

ReadTime(n) ==
  /\ pc[n] = "asn"
  /\ pc' = [pc EXCEPT ![n] = "ticks"]
  /\ uptime_ticks' = [uptime_ticks EXCEPT ![n] = @ + TicksSince(n)]
  /\ UNCHANGED <<time, phase, syncVars, masked, began, packetVars>>

critical_exit(n) ==
  /\ pc[n] = "ticks"
  /\ pc' = [pc EXCEPT ![n] = "returned"]
  /\ masked' = [masked EXCEPT ![n] = FALSE]
  /\ UNCHANGED <<time, phase, syncVars, uptime_ticks, began, packetVars>>

(* The caller is done with its local variables. *)
Forget(n) ==
  /\ pc' = [pc EXCEPT ![n] = "idle"]
  /\ uptime_ticks' = [uptime_ticks EXCEPT ![n] = 0]
  /\ began' = [began EXCEPT ![n] = 0]

(* node.c: the timer of a node with a route expires. *)
TakeUptime(n) ==
  /\ n # Coordinator
  /\ packet = Nothing /\ arrived = Nothing
  /\ Call(n)
  /\ UNCHANGED packetVars

(* simple_udp_sendto hands the packet to the MAC, which drops it if the    *)
(* node is not associated.                                                 *)
SendTo(n) ==
  /\ n # Coordinator
  /\ pc[n] = "returned" /\ packet = Nothing
  /\ packet' = IF tsch_is_associated[n]
               THEN [uptime |-> uptime_ticks[n],
                     began |-> began[n], ended |-> time]
               ELSE Nothing
  /\ Forget(n)
  /\ UNCHANGED <<time, phase, syncVars, masked, arrived>>

Lose ==
  /\ packet # Nothing
  /\ packet' = Nothing
  /\ UNCHANGED <<time, phase, syncVars, readerVars, arrived>>

(* coordinator.c: udp_rx_callback asks for the uptime ... *)
udp_rx_callback ==
  /\ packet # Nothing
  /\ arrived' = packet
  /\ packet' = Nothing
  /\ Call(Coordinator)

(* ... and prints the difference, as an unsigned long. *)
latency == (uptime_ticks[Coordinator] - arrived.uptime) % LongRange

PrintLatency ==
  /\ pc[Coordinator] = "returned" /\ arrived # Nothing
  /\ arrived' = Nothing
  /\ Forget(Coordinator)
  /\ UNCHANGED <<time, phase, syncVars, masked, packet>>

-----------------------------------------------------------------------------

Next ==
  \/ Tick
  \/ \E n \in Nodes :
       \/ SyncInSlot(n) \/ Disassociate(n) \/ Associate(n)
       \/ TakeUptime(n) \/ SendTo(n)
       \/ critical_enter(n) \/ ReadAsn(n) \/ ReadTime(n) \/ critical_exit(n)
  \/ Lose
  \/ udp_rx_callback \/ PrintLatency

Spec == Init /\ [][Next]_vars

-----------------------------------------------------------------------------
(* Properties *)

(* Every variable has its type. *)
TypeOK ==
  /\ time \in 0 .. MaxTime
  /\ phase \in [Nodes -> 0 .. TicksPerClock - 1]
  /\ tsch_is_associated \in [Nodes -> BOOLEAN]
  /\ last_sync_asn \in [Nodes -> Nat]
  /\ tsch_last_sync_time \in [Nodes -> Nat]
  /\ pc \in [Nodes -> Positions]
  /\ masked \in [Nodes -> BOOLEAN]
  /\ uptime_ticks \in [Nodes -> Nat \cup {Unknown}]
  /\ began \in [Nodes -> 0 .. time]

(* Rounding of one conversion to clock ticks, in rtimer ticks. *)
Rounding == TicksPerClock - 1

(* How far behind and ahead of the network an uptime may be: a slot and    *)
(* the guard time for where in its slot the node synchronized, and the     *)
(* rounding of the ASN and of the ticks since.                             *)
Behind == TimeslotLength + GuardTime + 2 * Rounding
Ahead  == GuardTime + Rounding

(* An uptime is one of the network's while the function ran, to within     *)
(* these errors: the ASN and the time it adds belong to one                *)
(* synchronization, however many the interrupt makes, and also when the    *)
(* node leaves the network after tsch_is_associated was read               *)
(* (tsch-slot-operation.c:443-458).                                        *)
UptimeAccurate ==
  \A n \in Nodes :
    pc[n] = "returned" /\ uptime_ticks[n] # Unknown =>
      /\ TicksPerClock * uptime_ticks[n] >= began[n] - Behind
      /\ TicksPerClock * uptime_ticks[n] <= time + Ahead

(* No packet carries the uptime of a node that knows none: processes are   *)
(* not preempted by tsch_process between the call and the send, and a node *)
(* that is out of the network does not send (node.c:115-116).              *)
UnknownNeverSent ==
  \A p \in {packet, arrived} : p # Nothing => p.uptime # Unknown

(* No difference of two uptimes is as large as the range of unsigned long. *)
ASSUME RangeAssumption ==
  MaxTime + Behind + Ahead < TicksPerClock * LongRange

(* A value that is the latency of the packet, to within the errors of two  *)
(* uptimes.                                                                *)
LatencyWithin(ticks) ==
  /\ TicksPerClock * ticks
       >= began[Coordinator] - arrived.ended - Behind - Ahead
  /\ TicksPerClock * ticks
       <= time - arrived.began + Behind + Ahead

(* The value about to be printed is the latency of the packet, to within   *)
(* the errors of two uptimes; or it is above the range of any latency,     *)
(* being one below zero printed as unsigned, which happens only to a       *)
(* packet that took less time than these errors (coordinator.c:69-80).     *)
LatencyAccurate ==
  pc[Coordinator] = "returned" /\ arrived # Nothing =>
    /\ latency \in 0 .. LongRange - 1
    /\ \/ LatencyWithin(latency)
       \/ /\ LatencyWithin(latency - LongRange)
          /\ began[Coordinator] - arrived.ended < Behind + Ahead
=============================================================================
