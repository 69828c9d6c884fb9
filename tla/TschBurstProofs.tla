-------------------------- MODULE TschBurstProofs --------------------------
(***************************************************************************)
(* Proofs about TschBurst: a burst is bounded, and its two nodes meet.     *)
(***************************************************************************)
EXTENDS TschBurst, TLAPS

-----------------------------------------------------------------------------
(* The other node, the channel of a slot and the next active slot *)

LEMMA PeerFacts ==
  \A n \in Nodes :
    /\ Peer(n) \in Nodes /\ Peer(n) # n
    /\ Peer(Peer(n)) = n
    /\ \A m \in Nodes : m = n \/ m = Peer(n)
<1> TAKE n \in Nodes
<1>1. PICK a, b \in Nodes : a # b /\ Nodes = {a, b}
  BY NodesAssumption
<1>2. \A m \in Nodes : Peer(m) \in Nodes /\ Peer(m) # m
  BY <1>1 DEF Peer
<1> QED BY <1>1, <1>2

LEMMA ChannelType == \A slot \in Nat : Channel(slot) \in Nat
<1> TAKE slot \in Nat
<1>1. Len(HoppingSequence) \in Nat \ {0}
  BY HoppingAssumption
<1>2. slot % Len(HoppingSequence) \in 0 .. Len(HoppingSequence) - 1
  BY <1>1
<1> QED BY HoppingAssumption, <1>1, <1>2 DEF Channel

LEMMA NextActiveLater ==
  \A slot \in Nat, turns \in Nat \ {0} :
    NextActive(slot, turns) \in Nat /\ NextActive(slot, turns) > slot
<1> TAKE slot \in Nat, turns \in Nat \ {0}
<1> DEFINE q == slot \div Slotframe
           r == slot % Slotframe
<1>1. q \in Nat /\ r \in Nat /\ r < Slotframe /\ slot = Slotframe * q + r
  BY BoundsAssumption
<1>2. \A k \in Nat, s, t \in Nat \ {0} :
        (k + t) * s \in Nat /\ (k + t) * s >= s * k + s
  <2> TAKE k \in Nat, s, t \in Nat \ {0}
  <2>1. PICK u \in Nat : t = u + 1
    <3>1. t - 1 \in Nat /\ t = (t - 1) + 1
      OBVIOUS
    <3> QED BY <3>1
  <2>2. (k + t) * s = s * k + s + u * s
    BY <2>1
  <2>3. u * s \in Nat /\ s * k \in Nat
    BY <2>1
  <2> QED BY <2>2, <2>3
<1>3. (q + turns) * Slotframe \in Nat
      /\ (q + turns) * Slotframe >= Slotframe * q + Slotframe
  BY <1>1, <1>2, BoundsAssumption
<1>4. Slotframe * q \in Nat
  BY <1>1, BoundsAssumption
<1> HIDE DEF q, r
<1>5. (q + turns) * Slotframe > slot
  BY <1>1, <1>3, <1>4, BoundsAssumption
<1> QED BY <1>3, <1>5 DEF NextActive, q

-----------------------------------------------------------------------------
(* The inductive invariant *)

(* What a node knows of its own burst.  In a slot the request it makes     *)
(* leaves room for one more frame; between slots a granted burst has sent  *)
(* no more frames than it counted, and still has room for one.             *)
Executing == {"tx", "other", "rx"}

NodeInv(n) ==
  /\ pos[n] \in Executing =>
       ~late[n] /\ ~burst_link_scheduled[n] /\ role[n] = pos[n]
  /\ pos[n] = "tx" =>
       queue[n] > 0 /\ (burst_link_requested[n] => frame_pending[n])
  /\ pos[n] = "rx" => frames[n] = 0
  /\ pos[n] \in {"tx", "other"} =>
       /\ frames[n] <= tsch_current_burst_count[n] + 1
       /\ burst_link_requested[n] => frames[n] < TSCH_BURST_MAX_LEN
  /\ burst_link_scheduled[n] =>
       /\ frames[n] < TSCH_BURST_MAX_LEN
       /\ pos[n] = "wait" => frames[n] <= tsch_current_burst_count[n]
       /\ pos[n] # "wait" => frames[n] <= tsch_current_burst_count[n] + 1
  /\ frames[n] <= TSCH_BURST_MAX_LEN

(* What a sender whose burst goes on may rely on.  "base" is the slot of   *)
(* its last frame: the other node is still in it, waits for the next slot  *)
(* or a later one, or has begun the next slot first.                       *)
GoesOn(n) ==
  /\ role[n] = "tx" /\ burst_link_scheduled[n] /\ ~late[n]
  /\ pos[n] \in {"end", "wait"}

MeetsAt(n, p, base) ==
  \/ /\ pos[p] = "end" /\ ~late[p] /\ burst_link_scheduled[p]
     /\ tsch_current_channel[p] = tsch_current_channel[n]
     /\ tsch_current_asn[p] = base
  \/ /\ pos[p] = "wait" /\ ~late[p] /\ burst_link_scheduled[p]
     /\ tsch_current_channel[p] = tsch_current_channel[n]
     /\ tsch_current_asn[p] = base + 1
  \/ pos[p] = "wait" /\ late[p] /\ tsch_current_asn[p] > base + 1
  \/ pos[p] # "wait" /\ pos[n] = "wait" /\ Wakes(n)

MeetInv(n) ==
  GoesOn(n) =>
    MeetsAt(n, Peer(n), IF pos[n] = "end" THEN tsch_current_asn[n]
                                          ELSE tsch_current_asn[n] - 1)

IInv == TypeOK /\ (\A n \in Nodes : NodeInv(n) /\ MeetInv(n))

-----------------------------------------------------------------------------
(* Types *)

LEMMA TypeStep ==
  ASSUME TypeOK, \A n \in Nodes : NodeInv(n), [Next]_vars
  PROVE  TypeOK'
<1> USE BoundsAssumption, PeerFacts DEF TypeOK, Positions, Roles
<1>1. ASSUME NEW n \in Nodes, Enqueue(n) PROVE TypeOK'
  BY <1>1 DEF Enqueue
<1>2. ASSUME NEW n \in Nodes, SkipSlot(n) PROVE TypeOK'
  BY <1>2 DEF SkipSlot, Wakes
<1>3. ASSUME NEW n \in Nodes, TxSlot(n) PROVE TypeOK'
  <2>1. Requests(n) \in BOOLEAN
    BY Zenon DEF Requests
  <2>2. burst_link_requested' \in [Nodes -> BOOLEAN]
    BY <1>3, <2>1 DEF TxSlot
  <2> QED BY <1>3, <2>2, ChannelType DEF TxSlot, Execute, SlotChannel, Wakes
<1>4. ASSUME NEW n \in Nodes, TxOther(n) PROVE TypeOK'
  <2>1. burst_link_requested' \in [Nodes -> BOOLEAN]
    BY <1>4 DEF TxOther
  <2> QED BY <1>4, <2>1, ChannelType DEF TxOther, Execute, SlotChannel, Wakes
<1>5. ASSUME NEW n \in Nodes, RxSlot(n) PROVE TypeOK'
  BY <1>5, ChannelType DEF RxSlot, Execute, SlotChannel, Wakes
<1>6. ASSUME NEW n \in Nodes, Receive(n) PROVE TypeOK'
  <2>1. queue[n] \in 1 .. MaxQueue
    BY <1>6 DEF Receive, NodeInv
  <2>2. queue' \in [Nodes -> 0 .. MaxQueue]
    BY <1>6, <2>1 DEF Receive, Done
  <2>3. frame_pending' \in [Nodes -> BOOLEAN]
    <3>1. PICK acked \in BOOLEAN : Done(n, acked)
      BY <1>6 DEF Receive
    <3> QED BY <3>1 DEF Done
  <2> QED BY <1>6, <2>2, <2>3 DEF Receive, Granted
<1>7. ASSUME NEW n \in Nodes, TxFails(n) PROVE TypeOK'
  <2>1. queue[n] \in 1 .. MaxQueue
    BY <1>7 DEF TxFails, NodeInv
  <2>2. queue' \in [Nodes -> 0 .. MaxQueue]
    BY <1>7, <2>1 DEF TxFails, Done
  <2>3. frame_pending' \in [Nodes -> BOOLEAN]
    BY <1>7 DEF TxFails, Done
  <2> QED BY <1>7, <2>2, <2>3 DEF TxFails, Granted
<1>8. ASSUME NEW n \in Nodes, OtherEnds(n) PROVE TypeOK'
  BY <1>8 DEF OtherEnds, Granted
<1>9. ASSUME NEW n \in Nodes, RxEnds(n) PROVE TypeOK'
  BY <1>9 DEF RxEnds
<1>10. ASSUME NEW n \in Nodes, ScheduleNext(n) PROVE TypeOK'
  <2>1. PICK turns \in 1 .. MaxMisses + 1 :
          /\ late' = [late EXCEPT ![n] = @ \/ turns > 1]
          /\ tsch_current_asn' =
               [tsch_current_asn EXCEPT
                  ![n] = IF burst_link_scheduled[n]
                         THEN @ + turns ELSE NextActive(@, turns)]
          /\ tsch_current_burst_count' =
               [tsch_current_burst_count EXCEPT
                  ![n] = IF burst_link_scheduled[n] THEN @ + turns ELSE 0]
    BY <1>10 DEF ScheduleNext
  <2>2. turns \in Nat \ {0}
    OBVIOUS
  <2>3. tsch_current_asn'[n] \in Nat /\ tsch_current_asn'[n] > asn
    <3>1. tsch_current_asn[n] \in Nat /\ tsch_current_asn[n] = asn
      BY <1>10 DEF ScheduleNext
    <3>2. /\ NextActive(asn, turns) \in Nat
          /\ NextActive(asn, turns) > asn
      BY <2>2, <3>1, NextActiveLater
    <3>3. CASE burst_link_scheduled[n]
      BY <2>1, <2>2, <3>1, <3>3
    <3>4. CASE ~burst_link_scheduled[n]
      BY <2>1, <3>1, <3>2, <3>4
    <3> QED BY <3>3, <3>4
  <2>4. late' \in [Nodes -> BOOLEAN]
    <3>1. (late[n] \/ turns > 1) \in BOOLEAN
      BY Zenon
    <3> QED BY <2>1, <3>1
  <2>5. /\ tsch_current_asn' \in [Nodes -> Nat]
        /\ \A m \in Nodes : m # n =>
             tsch_current_asn'[m] = tsch_current_asn[m]
    BY <2>1, <2>2, <2>3, NextActiveLater
  <2>6. tsch_current_burst_count' \in [Nodes -> Nat]
    BY <2>1, <2>2
  <2> QED BY <1>10, <2>3, <2>4, <2>5, <2>6 DEF ScheduleNext
<1>11. CASE NextSlot
  BY <1>11 DEF NextSlot
<1>12. CASE UNCHANGED vars
  BY <1>12 DEF vars
<1> QED
  BY <1>1, <1>2, <1>3, <1>4, <1>5, <1>6, <1>7, <1>8, <1>9, <1>10, <1>11,
     <1>12 DEF Next

-----------------------------------------------------------------------------
(* One node *)

LEMMA NodeStep ==
  ASSUME TypeOK, \A n \in Nodes : NodeInv(n), [Next]_vars
  PROVE  \A n \in Nodes : NodeInv(n)'
<1> USE BoundsAssumption, PeerFacts DEF TypeOK, Positions, Roles, Executing
<1> SUFFICES ASSUME NEW m \in Nodes PROVE NodeInv(m)'
  OBVIOUS
<1>1. ASSUME NEW n \in Nodes, Enqueue(n) PROVE NodeInv(m)'
  BY <1>1 DEF Enqueue, NodeInv
<1>2. ASSUME NEW n \in Nodes, SkipSlot(n) PROVE NodeInv(m)'
  BY <1>2 DEF SkipSlot, Wakes, NodeInv
<1>3. ASSUME NEW n \in Nodes, TxSlot(n) PROVE NodeInv(m)'
  <2>1. CASE m = n
    <3>1. burst_link_requested'[n] =>
            tsch_current_burst_count[n] + 1 < TSCH_BURST_MAX_LEN
      BY <1>3 DEF TxSlot, Requests
    <3>2. burst_link_requested'[n] => frame_pending'[n]
      BY <1>3 DEF TxSlot
    <3> QED BY <1>3, <2>1, <3>1, <3>2 DEF TxSlot, Execute, Wakes, NodeInv
  <2>2. CASE m # n
    BY <1>3, <2>2 DEF TxSlot, Execute, Wakes, NodeInv
  <2> QED BY <2>1, <2>2
<1>4. ASSUME NEW n \in Nodes, TxOther(n) PROVE NodeInv(m)'
  <2>1. CASE m = n
    <3>1. burst_link_requested'[n] =>
            tsch_current_burst_count[n] + 1 < TSCH_BURST_MAX_LEN
      BY <1>4 DEF TxOther
    <3> QED BY <1>4, <2>1, <3>1 DEF TxOther, Execute, Wakes, NodeInv
  <2>2. CASE m # n
    BY <1>4, <2>2 DEF TxOther, Execute, Wakes, NodeInv
  <2> QED BY <2>1, <2>2
<1>5. ASSUME NEW n \in Nodes, RxSlot(n) PROVE NodeInv(m)'
  <2>1. CASE m = n
    BY <1>5, <2>1 DEF RxSlot, Execute, Wakes, NodeInv
  <2>2. CASE m # n
    BY <1>5, <2>2 DEF RxSlot, Execute, Wakes, NodeInv
  <2> QED BY <2>1, <2>2
<1>6. ASSUME NEW n \in Nodes, Receive(n) PROVE NodeInv(m)'
  BY <1>6 DEF Receive, Done, Granted, NodeInv
<1>7. ASSUME NEW n \in Nodes, TxFails(n) PROVE NodeInv(m)'
  BY <1>7 DEF TxFails, Done, Granted, NodeInv
<1>8. ASSUME NEW n \in Nodes, OtherEnds(n) PROVE NodeInv(m)'
  BY <1>8 DEF OtherEnds, Granted, NodeInv
<1>9. ASSUME NEW n \in Nodes, RxEnds(n) PROVE NodeInv(m)'
  BY <1>9 DEF RxEnds, NodeInv
<1>10. ASSUME NEW n \in Nodes, ScheduleNext(n) PROVE NodeInv(m)'
  BY <1>10 DEF ScheduleNext, NodeInv
<1>11. CASE NextSlot
  BY <1>11 DEF NextSlot, NodeInv
<1>12. CASE UNCHANGED vars
  BY <1>12 DEF vars, NodeInv
<1> QED
  BY <1>1, <1>2, <1>3, <1>4, <1>5, <1>6, <1>7, <1>8, <1>9, <1>10, <1>11,
     <1>12 DEF Next

-----------------------------------------------------------------------------
(* Two nodes *)

LEMMA MeetStep ==
  ASSUME IInv, [Next]_vars
  PROVE  \A n \in Nodes : MeetInv(n)'
<1> USE BoundsAssumption DEF TypeOK, Positions, Roles, Executing
<1> SUFFICES ASSUME NEW m \in Nodes PROVE MeetInv(m)'
  OBVIOUS
<1> DEFINE p == Peer(m)
<1>p. /\ p \in Nodes /\ p # m /\ Peer(p) = m
      /\ \A n \in Nodes : n = m \/ n = p
  BY PeerFacts
<1> HIDE DEF p
<1>i. TypeOK /\ NodeInv(m) /\ NodeInv(p) /\ MeetInv(m)
  BY <1>p DEF IInv
<1>1. ASSUME NEW n \in Nodes, Enqueue(n) PROVE MeetInv(m)'
  <2>1. CASE n = m
    BY <1>p, <1>i, <1>1, <2>1
       DEF Enqueue, Wakes,
           NodeInv, MeetInv, MeetsAt, GoesOn, p
  <2>2. CASE n = p
    BY <1>p, <1>i, <1>1, <2>2
       DEF Enqueue, Wakes,
           NodeInv, MeetInv, MeetsAt, GoesOn, p
  <2> QED BY <1>p, <2>1, <2>2
<1>2. ASSUME NEW n \in Nodes, SkipSlot(n) PROVE MeetInv(m)'
  <2>1. CASE n = m
    BY <1>p, <1>i, <1>2, <2>1
       DEF SkipSlot, Wakes,
           NodeInv, MeetInv, MeetsAt, GoesOn, p
  <2>2. CASE n = p
    BY <1>p, <1>i, <1>2, <2>2
       DEF SkipSlot, Wakes,
           NodeInv, MeetInv, MeetsAt, GoesOn, p
  <2> QED BY <1>p, <2>1, <2>2
<1>3. ASSUME NEW n \in Nodes, TxSlot(n) PROVE MeetInv(m)'
  <2>1. CASE n = m
    BY <1>p, <1>i, <1>3, <2>1
       DEF TxSlot, Execute, SlotChannel, Wakes,
           NodeInv, MeetInv, MeetsAt, GoesOn, p
  <2>2. CASE n = p
    BY <1>p, <1>i, <1>3, <2>2
       DEF TxSlot, Execute, SlotChannel, Wakes,
           NodeInv, MeetInv, MeetsAt, GoesOn, p
  <2> QED BY <1>p, <2>1, <2>2
<1>4. ASSUME NEW n \in Nodes, TxOther(n) PROVE MeetInv(m)'
  <2>1. CASE n = m
    BY <1>p, <1>i, <1>4, <2>1
       DEF TxOther, Execute, SlotChannel, Wakes,
           NodeInv, MeetInv, MeetsAt, GoesOn, p
  <2>2. CASE n = p
    BY <1>p, <1>i, <1>4, <2>2
       DEF TxOther, Execute, SlotChannel, Wakes,
           NodeInv, MeetInv, MeetsAt, GoesOn, p
  <2> QED BY <1>p, <2>1, <2>2
<1>5. ASSUME NEW n \in Nodes, RxSlot(n) PROVE MeetInv(m)'
  <2>1. CASE n = m
    BY <1>p, <1>i, <1>5, <2>1
       DEF RxSlot, Execute, SlotChannel, Wakes,
           NodeInv, MeetInv, MeetsAt, GoesOn, p
  <2>2. CASE n = p
    BY <1>p, <1>i, <1>5, <2>2
       DEF RxSlot, Execute, SlotChannel, Wakes,
           NodeInv, MeetInv, MeetsAt, GoesOn, p
  <2> QED BY <1>p, <2>1, <2>2
<1>6. ASSUME NEW n \in Nodes, Receive(n) PROVE MeetInv(m)'
  <2>1. CASE n = m
    BY <1>p, <1>i, <1>6, <2>1
       DEF Receive, Done, Granted, Wakes,
           NodeInv, MeetInv, MeetsAt, GoesOn, p
  <2>2. CASE n = p
    BY <1>p, <1>i, <1>6, <2>2
       DEF Receive, Done, Granted, Wakes,
           NodeInv, MeetInv, MeetsAt, GoesOn, p
  <2> QED BY <1>p, <2>1, <2>2
<1>7. ASSUME NEW n \in Nodes, TxFails(n) PROVE MeetInv(m)'
  <2>1. CASE n = m
    BY <1>p, <1>i, <1>7, <2>1
       DEF TxFails, Done, Granted, Wakes,
           NodeInv, MeetInv, MeetsAt, GoesOn, p
  <2>2. CASE n = p
    BY <1>p, <1>i, <1>7, <2>2
       DEF TxFails, Done, Granted, Wakes,
           NodeInv, MeetInv, MeetsAt, GoesOn, p
  <2> QED BY <1>p, <2>1, <2>2
<1>8. ASSUME NEW n \in Nodes, OtherEnds(n) PROVE MeetInv(m)'
  <2>1. CASE n = m
    BY <1>p, <1>i, <1>8, <2>1
       DEF OtherEnds, Granted, Wakes,
           NodeInv, MeetInv, MeetsAt, GoesOn, p
  <2>2. CASE n = p
    BY <1>p, <1>i, <1>8, <2>2
       DEF OtherEnds, Granted, Wakes,
           NodeInv, MeetInv, MeetsAt, GoesOn, p
  <2> QED BY <1>p, <2>1, <2>2
<1>9. ASSUME NEW n \in Nodes, RxEnds(n) PROVE MeetInv(m)'
  <2>1. CASE n = m
    BY <1>p, <1>i, <1>9, <2>1
       DEF RxEnds, Wakes,
           NodeInv, MeetInv, MeetsAt, GoesOn, p
  <2>2. CASE n = p
    BY <1>p, <1>i, <1>9, <2>2
       DEF RxEnds, Wakes,
           NodeInv, MeetInv, MeetsAt, GoesOn, p
  <2> QED BY <1>p, <2>1, <2>2
<1>10. ASSUME NEW n \in Nodes, ScheduleNext(n) PROVE MeetInv(m)'
  <2>1. CASE n = m
    BY <1>p, <1>i, <1>10, <2>1
       DEF ScheduleNext, Wakes,
           NodeInv, MeetInv, MeetsAt, GoesOn, p
  <2>2. CASE n = p
    BY <1>p, <1>i, <1>10, <2>2
       DEF ScheduleNext, Wakes,
           NodeInv, MeetInv, MeetsAt, GoesOn, p
  <2> QED BY <1>p, <2>1, <2>2
<1>11. CASE NextSlot
  BY <1>p, <1>i, <1>11
     DEF NextSlot, Wakes, NodeInv, MeetInv, MeetsAt, GoesOn, p
<1>12. CASE UNCHANGED vars
  BY <1>i, <1>12 DEF vars, Wakes, MeetInv, MeetsAt, GoesOn
<1> QED
  BY <1>1, <1>2, <1>3, <1>4, <1>5, <1>6, <1>7, <1>8, <1>9, <1>10, <1>11,
     <1>12 DEF Next

-----------------------------------------------------------------------------
(* The channel of a burst *)

(* The count of a node leads back to the slot whose channel it is on: in   *)
(* a slot, and as long as a granted burst lasts.  Without a grant, the     *)
(* next slot is the first of a burst.                                      *)
ChannelInv(n) ==
  /\ tsch_current_burst_count[n] <= tsch_current_asn[n]
  /\ pos[n] \in Executing \/ burst_link_scheduled[n] =>
       tsch_current_channel[n]
         = Channel(tsch_current_asn[n] - tsch_current_burst_count[n])
  /\ pos[n] = "wait" /\ ~burst_link_scheduled[n] =>
       tsch_current_burst_count[n] = 0

LEMMA ChannelStep ==
  ASSUME IInv, \A n \in Nodes : ChannelInv(n), [Next]_vars
  PROVE  \A n \in Nodes : ChannelInv(n)'
<1> USE BoundsAssumption, PeerFacts
    DEF IInv, TypeOK, Positions, Roles, Executing, ChannelInv
<1> SUFFICES ASSUME NEW m \in Nodes PROVE ChannelInv(m)'
  OBVIOUS
<1>1. CASE UNCHANGED <<tsch_current_asn, pos, burst_link_scheduled,
                       tsch_current_burst_count, tsch_current_channel>>
  BY <1>1
<1>2. ASSUME NEW n \in Nodes, Enqueue(n) PROVE ChannelInv(m)'
  BY <1>1, <1>2 DEF Enqueue
<1>3. ASSUME NEW n \in Nodes, SkipSlot(n) PROVE ChannelInv(m)'
  BY <1>3 DEF SkipSlot, Wakes
<1>4. ASSUME NEW n \in Nodes, NEW what \in Executing, Execute(n, what)
      PROVE  ChannelInv(m)'
  <2>1. /\ tsch_current_asn[n] = asn /\ pos[n] = "wait"
        /\ UNCHANGED <<tsch_current_asn, tsch_current_burst_count>>
    BY <1>4 DEF Execute, Wakes
  <2>2. /\ ~burst_link_scheduled'[n]
        /\ tsch_current_channel'[n] = SlotChannel(n)
    BY <1>4 DEF Execute
  <2>3. SlotChannel(n) = Channel(asn - tsch_current_burst_count[n])
    BY <2>1 DEF SlotChannel
  <2>4. CASE m = n
    BY <1>4, <2>1, <2>2, <2>3, <2>4 DEF Execute
  <2>5. CASE m # n
    BY <1>4, <2>5 DEF Execute
  <2> QED BY <2>4, <2>5
<1>5. ASSUME NEW n \in Nodes, TxSlot(n) \/ TxOther(n) \/ RxSlot(n)
      PROVE  ChannelInv(m)'
  BY <1>4, <1>5 DEF TxSlot, TxOther, RxSlot
<1>6. CASE /\ UNCHANGED <<tsch_current_asn, tsch_current_burst_count,
                          tsch_current_channel>>
           /\ \/ pos[m] \in Executing /\ pos'[m] = "end"
              \/ pos'[m] = pos[m] /\ UNCHANGED burst_link_scheduled[m]
  BY <1>6
<1>7. ASSUME NEW n \in Nodes,
             Receive(n) \/ TxFails(n) \/ OtherEnds(n) \/ RxEnds(n)
      PROVE  ChannelInv(m)'
  <2>1. /\ UNCHANGED <<tsch_current_asn, tsch_current_burst_count,
                       tsch_current_channel>>
        /\ \/ pos[m] \in Executing /\ pos'[m] = "end"
           \/ pos'[m] = pos[m] /\ UNCHANGED burst_link_scheduled[m]
    <3>1. CASE Receive(n)
      BY <3>1 DEF Receive
    <3>2. CASE TxFails(n)
      BY <3>2 DEF TxFails
    <3>3. CASE OtherEnds(n)
      BY <3>3 DEF OtherEnds
    <3>4. CASE RxEnds(n)
      BY <3>4 DEF RxEnds
    <3> QED BY <1>7, <3>1, <3>2, <3>3, <3>4
  <2> QED BY <1>6, <2>1
<1>8. ASSUME NEW n \in Nodes, ScheduleNext(n) PROVE ChannelInv(m)'
  <2>1. PICK turns \in 1 .. MaxMisses + 1 :
          /\ tsch_current_asn' =
               [tsch_current_asn EXCEPT
                  ![n] = IF burst_link_scheduled[n]
                         THEN @ + turns ELSE NextActive(@, turns)]
          /\ tsch_current_burst_count' =
               [tsch_current_burst_count EXCEPT
                  ![n] = IF burst_link_scheduled[n] THEN @ + turns ELSE 0]
    BY <1>8 DEF ScheduleNext
  <2>2. /\ UNCHANGED <<burst_link_scheduled, tsch_current_channel>>
        /\ pos' = [pos EXCEPT ![n] = "wait"]
    BY <1>8 DEF ScheduleNext
  <2>3. CASE m # n
    BY <2>1, <2>2, <2>3
  <2>4. CASE m = n /\ burst_link_scheduled[n]
    <3>1. /\ tsch_current_asn'[n] = tsch_current_asn[n] + turns
          /\ tsch_current_burst_count'[n] = tsch_current_burst_count[n] + turns
      BY <2>1, <2>4
    <3>2. tsch_current_asn'[n] - tsch_current_burst_count'[n]
            = tsch_current_asn[n] - tsch_current_burst_count[n]
      BY <3>1
    <3> QED BY <2>2, <2>4, <3>1, <3>2
  <2>5. CASE m = n /\ ~burst_link_scheduled[n]
    <3>1. /\ tsch_current_asn'[n] \in Nat
          /\ tsch_current_burst_count'[n] = 0
      BY <2>1, <2>5, NextActiveLater
    <3> QED BY <2>2, <2>5, <3>1
  <2> QED BY <2>3, <2>4, <2>5
<1>9. CASE NextSlot
  BY <1>1, <1>9 DEF NextSlot
<1>10. CASE UNCHANGED vars
  BY <1>1, <1>10 DEF vars
<1> QED
  BY <1>2, <1>3, <1>5, <1>7, <1>8, <1>9, <1>10 DEF Next

-----------------------------------------------------------------------------
(* The invariant holds throughout: what each node knows of its burst, and  *)
(* where the two nodes of a burst are (lines 1066-1215).                   *)
THEOREM BurstInvariance == Spec => []IInv
<1>1. Init => IInv
  <2>1. SUFFICES ASSUME Init PROVE IInv
    OBVIOUS
  <2>2. TypeOK
    BY <2>1, BoundsAssumption DEF Init, TypeOK, Positions, Roles
  <2>3. ASSUME NEW n \in Nodes PROVE NodeInv(n) /\ MeetInv(n)
    BY <2>1, BoundsAssumption
       DEF Init, NodeInv, MeetInv, GoesOn, Executing
  <2> QED BY <2>2, <2>3 DEF IInv
<1>2. IInv /\ [Next]_vars => IInv'
  <2>1. SUFFICES ASSUME IInv, [Next]_vars PROVE IInv'
    OBVIOUS
  <2>2. TypeOK'
    BY <2>1, TypeStep DEF IInv
  <2>3. \A n \in Nodes : NodeInv(n)'
    BY <2>1, NodeStep DEF IInv
  <2>4. \A n \in Nodes : MeetInv(n)'
    BY <2>1, MeetStep
  <2> QED BY <2>2, <2>3, <2>4 DEF IInv
<1> QED BY <1>1, <1>2, PTL DEF Spec

(* Every variable keeps its type, and no node waits for a slot that is     *)
(* over, however many slots each skips or misses (lines 1174-1215).        *)
THEOREM BurstTypeCorrect == Spec => []TypeOK
<1>1. IInv => TypeOK
  BY DEF IInv
<1> QED BY <1>1, BurstInvariance, PTL

(* The two nodes of a burst meet in its next slot, for every hopping       *)
(* sequence, slotframe and burst length (lines 744-748, 992-993,           *)
(* 1111-1119, 1176-1182).                                                  *)
THEOREM BurstAlwaysMeets == Spec => []BurstMeets
<1>1. IInv => BurstMeets
  <2>1. SUFFICES ASSUME IInv, NEW n \in Nodes, OnTime(n), role[n] = "tx",
                        burst_link_scheduled[n], OnTime(Peer(n))
                 PROVE  /\ burst_link_scheduled[Peer(n)]
                        /\ tsch_current_asn[n] = tsch_current_asn[Peer(n)]
                        /\ tsch_current_channel[n]
                             = tsch_current_channel[Peer(n)]
    BY DEF BurstMeets
  <2>2. MeetsAt(n, Peer(n), tsch_current_asn[n] - 1)
    BY <2>1 DEF IInv, MeetInv, GoesOn, OnTime
  <2>3. Peer(n) \in Nodes /\ TypeOK
    BY <2>1, PeerFacts DEF IInv
  <2> QED BY <2>1, <2>2, <2>3 DEF MeetsAt, OnTime, TypeOK
<1> QED BY <1>1, BurstInvariance, PTL

(* No burst is longer than TSCH_BURST_MAX_LEN frames, whatever its value   *)
(* (lines 584-585, 1182, 1193).                                            *)
THEOREM BurstAlwaysBounded == Spec => []BurstLength
<1>1. IInv => BurstLength
  BY DEF IInv, NodeInv, BurstLength
<1> QED BY <1>1, BurstInvariance, PTL
(* Every slot of a burst is on the channel of its first one, whatever was  *)
(* skipped or missed in between (lines 1111-1119, 1176-1193).              *)
THEOREM BurstAlwaysKeepsChannel == Spec => []BurstKeepsChannel
<1>1. Init => \A n \in Nodes : ChannelInv(n)
  <2>1. SUFFICES ASSUME Init, NEW n \in Nodes PROVE ChannelInv(n)
    OBVIOUS
  <2>2. /\ pos[n] = "wait" /\ ~burst_link_scheduled[n]
        /\ tsch_current_asn[n] = 0 /\ tsch_current_burst_count[n] = 0
    BY <2>1 DEF Init
  <2> QED BY <2>2 DEF ChannelInv, Executing
<1>2. /\ IInv /\ (\A n \in Nodes : ChannelInv(n)) /\ [Next]_vars
      => (\A n \in Nodes : ChannelInv(n))'
  BY ChannelStep
<1>3. IInv /\ (\A n \in Nodes : ChannelInv(n)) => BurstKeepsChannel
  BY DEF IInv, TypeOK, ChannelInv, BurstKeepsChannel, Executing
<1> QED BY <1>1, <1>2, <1>3, BurstInvariance, PTL DEF Spec
=============================================================================
