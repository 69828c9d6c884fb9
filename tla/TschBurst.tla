----------------------------- MODULE TschBurst -----------------------------
(***************************************************************************)
(* Bursts between two nodes that share a link                              *)
(* (3-experiment-tsch/app-contiki-tsch/tsch-slot-operation.c): the sender  *)
(* asks for the next slot with the frame pending bit, the ACK grants it,   *)
(* and each node replays the link by itself.  Frames and ACKs get lost,    *)
(* slots are skipped for the lock, deadlines are missed.                   *)
(*                                                                         *)
(* What one node does inside a slot is TschSlotOperation's; here a slot is *)
(* its beginning, its outcome and the choice of the next slot.  The nodes  *)
(* are synchronized: a slot is the same for both.                          *)
(***************************************************************************)
EXTENDS Integers, Sequences

CONSTANTS
  Nodes,                \* two of them
  HoppingSequence,
  Slotframe,            \* the link is active in one slot out of so many
  TSCH_BURST_MAX_LEN,
  MaxQueue,             \* bound: packets queued for the other node
  MaxAsn,               \* bound: no slot begins from this ASN on
  MaxMisses             \* bound: consecutive deadlines missed

ASSUME NodesAssumption == \E a, b \in Nodes : a # b /\ Nodes = {a, b}
ASSUME HoppingAssumption ==
  /\ HoppingSequence \in Seq(Nat)
  /\ HoppingSequence # << >>
ASSUME BoundsAssumption ==
  /\ Slotframe \in Nat \ {0}
  /\ TSCH_BURST_MAX_LEN \in Nat \ {0}
  /\ MaxQueue \in Nat
  /\ MaxAsn \in Nat
  /\ MaxMisses \in Nat

VARIABLES
  asn,                       \* of the network
  tsch_current_asn,          \* the slot each node executes or waits for
  pos,                       \* where its slot operation is
  burst_link_scheduled,
  burst_link_requested,
  tsch_current_burst_count,
  tsch_current_channel,
  queue,                     \* packets for the other node
  frame_pending,             \* the bit in the first of them
  role,                      \* what it did in the last slot it executed
  late,                      \* history: has skipped or missed slots since
  frames                     \* history: frames sent in this burst

vars == <<asn, tsch_current_asn, pos, burst_link_scheduled,
          burst_link_requested, tsch_current_burst_count,
          tsch_current_channel, queue, frame_pending, role, late, frames>>

(* "other": to a third node, a broadcast or an EB; "end": the slot is over *)
(* or was skipped.                                                         *)
Roles == {"none", "tx", "other", "rx"}
Positions == {"wait", "tx", "other", "rx", "end"}

(* The node at the other end. *)
Peer(n) == CHOOSE m \in Nodes : m # n

Channel(slot) == HoppingSequence[(slot % Len(HoppingSequence)) + 1]

Init ==
  /\ asn = 0
  /\ tsch_current_asn = [n \in Nodes |-> 0]
  /\ pos = [n \in Nodes |-> "wait"]
  /\ burst_link_scheduled = [n \in Nodes |-> FALSE]
  /\ burst_link_requested = [n \in Nodes |-> FALSE]
  /\ tsch_current_burst_count = [n \in Nodes |-> 0]
  /\ tsch_current_channel = [n \in Nodes |-> 0]
  /\ queue = [n \in Nodes |-> 0]
  /\ frame_pending = [n \in Nodes |-> FALSE]
  /\ role = [n \in Nodes |-> "none"]
  /\ late = [n \in Nodes |-> FALSE]
  /\ frames = [n \in Nodes |-> 0]

Enqueue(n) ==
  /\ queue[n] < MaxQueue
  /\ queue' = [queue EXCEPT ![n] = @ + 1]
  /\ UNCHANGED <<asn, tsch_current_asn, pos, burst_link_scheduled,
                 burst_link_requested, tsch_current_burst_count,
                 tsch_current_channel, frame_pending, role, late, frames>>

-----------------------------------------------------------------------------
(* The beginning of a slot *)

Wakes(n) == pos[n] = "wait" /\ tsch_current_asn[n] = asn /\ asn < MaxAsn

(* Somebody waits for the lock: the grant of a burst is kept. *)
SkipSlot(n) ==
  /\ Wakes(n)
  /\ pos' = [pos EXCEPT ![n] = "end"]
  /\ late' = [late EXCEPT ![n] = TRUE]
  /\ UNCHANGED <<asn, tsch_current_asn, burst_link_scheduled,
                 burst_link_requested, tsch_current_burst_count,
                 tsch_current_channel, queue, frame_pending, role, frames>>

(* The channel is that of the last slot in a burst. *)
SlotChannel_Hops(n) == Channel(asn)
SlotChannel(n) ==
  IF burst_link_scheduled[n] THEN tsch_current_channel[n] ELSE Channel(asn)

(* What is done in the slot is decided anew. *)
Execute(n, what) ==
  /\ Wakes(n)
  /\ pos' = [pos EXCEPT ![n] = what]
  /\ role' = [role EXCEPT ![n] = what]
  /\ late' = [late EXCEPT ![n] = FALSE]
  /\ burst_link_scheduled' = [burst_link_scheduled EXCEPT ![n] = FALSE]
  /\ tsch_current_channel' =
       [tsch_current_channel EXCEPT ![n] = SlotChannel(n)]
  /\ UNCHANGED <<asn, tsch_current_asn, tsch_current_burst_count, queue>>

(* More packets for the neighbor, and room for another slot in the burst. *)
Requests_OneMore(n) ==
  tsch_current_burst_count[n] + 1 <= TSCH_BURST_MAX_LEN /\ queue[n] > 1
Requests(n) ==
  tsch_current_burst_count[n] + 1 < TSCH_BURST_MAX_LEN /\ queue[n] > 1

(* The bit is set in the packet itself: a retransmission still has it, and *)
(* grants a slot that the sender may not have asked for.                   *)
TxSlot(n) ==
  /\ queue[n] > 0
  /\ Execute(n, "tx")
  /\ burst_link_requested' = [burst_link_requested EXCEPT ![n] = Requests(n)]
  /\ frame_pending' = [frame_pending EXCEPT ![n] = @ \/ Requests(n)]
  /\ frames' = [frames EXCEPT
                  ![n] = IF burst_link_scheduled[n] THEN @ + 1 ELSE 1]

TxOther(n) ==
  /\ Execute(n, "other")
  /\ \E requested \in BOOLEAN :
       /\ requested => tsch_current_burst_count[n] + 1 < TSCH_BURST_MAX_LEN
       /\ burst_link_requested' =
            [burst_link_requested EXCEPT ![n] = requested]
  /\ UNCHANGED frame_pending
  /\ frames' = [frames EXCEPT
                  ![n] = IF burst_link_scheduled[n] THEN @ + 1 ELSE 1]

(* Nothing to send, or the backoff of the shared link is not over. *)
RxSlot(n) ==
  /\ Execute(n, "rx")
  /\ frames' = [frames EXCEPT ![n] = 0]
  /\ UNCHANGED <<burst_link_requested, frame_pending>>

-----------------------------------------------------------------------------
(* The outcome *)

(* An ACK grants what was asked for. *)
Granted_Unacknowledged(n, acked) == burst_link_requested[n]
Granted(n, acked) == burst_link_requested[n] /\ acked

(* An acknowledged packet leaves the queue, another one may when its       *)
(* retries are exhausted.                                                  *)
Done(n, acked) ==
  \/ /\ queue' = [queue EXCEPT ![n] = @ - 1]
     /\ frame_pending' = [frame_pending EXCEPT ![n] = FALSE]
  \/ ~acked /\ UNCHANGED <<queue, frame_pending>>

(* The frame reaches the other node, whose ACK may get lost. *)
Receive(n) ==
  /\ pos[n] = "tx" /\ pos[Peer(n)] = "rx"
  /\ tsch_current_asn[n] = tsch_current_asn[Peer(n)]
  /\ tsch_current_channel[n] = tsch_current_channel[Peer(n)]
  /\ pos' = [m \in Nodes |-> "end"]
  /\ \E acked \in BOOLEAN :
       /\ burst_link_scheduled' =
            [burst_link_scheduled EXCEPT
               ![n] = Granted(n, acked),
               ![Peer(n)] = frame_pending[n]]
       /\ Done(n, acked)
  /\ UNCHANGED <<asn, tsch_current_asn, burst_link_requested,
                 tsch_current_burst_count, tsch_current_channel, role, late,
                 frames>>

(* It does not: the channel is busy, the frame is lost, nobody listens. *)
TxFails(n) ==
  /\ pos[n] = "tx"
  /\ pos' = [pos EXCEPT ![n] = "end"]
  /\ burst_link_scheduled' =
       [burst_link_scheduled EXCEPT ![n] = Granted(n, FALSE)]
  /\ Done(n, FALSE)
  /\ UNCHANGED <<asn, tsch_current_asn, burst_link_requested,
                 tsch_current_burst_count, tsch_current_channel, role, late,
                 frames>>

(* What a third node made of the frame. *)
OtherEnds(n) ==
  /\ pos[n] = "other"
  /\ pos' = [pos EXCEPT ![n] = "end"]
  /\ \E acked \in BOOLEAN :
       burst_link_scheduled' =
         [burst_link_scheduled EXCEPT ![n] = Granted(n, acked)]
  /\ UNCHANGED <<asn, tsch_current_asn, burst_link_requested,
                 tsch_current_burst_count, tsch_current_channel, queue,
                 frame_pending, role, late, frames>>

(* Silence, a frame for another node, or one of a third node, whose bit is *)
(* obeyed.                                                                 *)
RxEnds(n) ==
  /\ pos[n] = "rx"
  /\ pos' = [pos EXCEPT ![n] = "end"]
  /\ \E pending \in BOOLEAN :
       burst_link_scheduled' = [burst_link_scheduled EXCEPT ![n] = pending]
  /\ UNCHANGED <<asn, tsch_current_asn, burst_link_requested,
                 tsch_current_burst_count, tsch_current_channel, queue,
                 frame_pending, role, late, frames>>

-----------------------------------------------------------------------------
(* The next slot: in a burst the following one, each turn of the loop      *)
(* counted; otherwise the link's next ones.  Slots begin together, so no   *)
(* node is done with one before the other has begun it.                    *)

NextActive_Included(slot, turns) ==
  ((slot \div Slotframe) + turns - 1) * Slotframe
NextActive(slot, turns) == ((slot \div Slotframe) + turns) * Slotframe

ScheduleNext(n) ==
  /\ pos[n] = "end"
  /\ \A m \in Nodes : ~Wakes(m)
  /\ pos' = [pos EXCEPT ![n] = "wait"]
  /\ \E turns \in 1 .. MaxMisses + 1 :
       /\ late' = [late EXCEPT ![n] = @ \/ turns > 1]
       /\ tsch_current_asn' =
            [tsch_current_asn EXCEPT
               ![n] = IF burst_link_scheduled[n]
                      THEN @ + turns ELSE NextActive(@, turns)]
       /\ tsch_current_burst_count' =
            [tsch_current_burst_count EXCEPT
               ![n] = IF burst_link_scheduled[n] THEN @ + turns ELSE 0]
  /\ UNCHANGED <<asn, burst_link_scheduled, burst_link_requested,
                 tsch_current_channel, queue, frame_pending, role, frames>>

(* The slot is over for both. *)
NextSlot ==
  /\ asn < MaxAsn
  /\ \A n \in Nodes : pos[n] = "wait" /\ tsch_current_asn[n] > asn
  /\ asn' = asn + 1
  /\ UNCHANGED <<tsch_current_asn, pos, burst_link_scheduled,
                 burst_link_requested, tsch_current_burst_count,
                 tsch_current_channel, queue, frame_pending, role, late,
                 frames>>

-----------------------------------------------------------------------------

Next ==
  \/ \E n \in Nodes :
       \/ Enqueue(n)
       \/ SkipSlot(n) \/ TxSlot(n) \/ TxOther(n) \/ RxSlot(n)
       \/ Receive(n) \/ TxFails(n) \/ OtherEnds(n) \/ RxEnds(n)
       \/ ScheduleNext(n)
  \/ NextSlot

Spec == Init /\ [][Next]_vars

-----------------------------------------------------------------------------
(* Properties *)

(* Every variable has its type.  No node waits for a slot that is over,    *)
(* and none executes another slot than the network's.                      *)
TypeOK ==
  /\ asn \in 0 .. MaxAsn
  /\ tsch_current_asn \in [Nodes -> Nat]
  /\ \A n \in Nodes :
       IF pos[n] = "wait" THEN tsch_current_asn[n] >= asn
                          ELSE tsch_current_asn[n] = asn
  /\ pos \in [Nodes -> Positions]
  /\ burst_link_scheduled \in [Nodes -> BOOLEAN]
  /\ burst_link_requested \in [Nodes -> BOOLEAN]
  /\ tsch_current_burst_count \in [Nodes -> Nat]
  /\ tsch_current_channel \in [Nodes -> Nat]
  /\ queue \in [Nodes -> 0 .. MaxQueue]
  /\ frame_pending \in [Nodes -> BOOLEAN]
  /\ role \in [Nodes -> Roles]
  /\ late \in [Nodes -> BOOLEAN]
  /\ frames \in [Nodes -> Nat]

OnTime(n) == pos[n] = "wait" /\ ~late[n]

(* The two nodes of a burst meet in its next slot: when the sender goes on *)
(* with a burst, so does the other node, in the same slot and on the same  *)
(* channel, unless one of them skips a slot or misses a deadline (lines    *)
(* 744-748, 992-993, 1111-1119, 1176-1182).                                *)
BurstMeets ==
  \A n \in Nodes :
    /\ OnTime(n) /\ role[n] = "tx" /\ burst_link_scheduled[n]
    /\ OnTime(Peer(n))
    => /\ burst_link_scheduled[Peer(n)]
       /\ tsch_current_asn[n] = tsch_current_asn[Peer(n)]
       /\ tsch_current_channel[n] = tsch_current_channel[Peer(n)]

(* A burst stays on the channel of its first slot: the count of a node     *)
(* that executes a slot leads back to the one whose channel it is on,      *)
(* through the slots of the burst that it skipped or missed (lines         *)
(* 1111-1119, 1176-1193).                                                  *)
BurstKeepsChannel ==
  \A n \in Nodes :
    pos[n] \in {"tx", "other", "rx"} =>
      /\ tsch_current_burst_count[n] <= asn
      /\ tsch_current_channel[n] = Channel(asn - tsch_current_burst_count[n])

(* A burst is no longer than TSCH_BURST_MAX_LEN frames, also when packets  *)
(* for several neighbors share it, when slots are skipped inside it and    *)
(* deadlines missed (lines 584-585, 1182, 1193).                           *)
BurstLength == \A n \in Nodes : frames[n] <= TSCH_BURST_MAX_LEN
=============================================================================
