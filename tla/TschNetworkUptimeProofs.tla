---------------------- MODULE TschNetworkUptimeProofs ----------------------
(***************************************************************************)
(* How wrong an uptime and a latency may be, for any nodes, any slot       *)
(* length, guard time, ratio of the two clocks, and phase of each.         *)
(*                                                                         *)
(* PairInv is what the critical section protects: some instant ties the    *)
(* two variables of the last synchronization to each other.  ReaderInv     *)
(* follows the function through its statements, and PacketInv takes what   *)
(* it returned along with the packet.                                      *)
(***************************************************************************)
EXTENDS TschNetworkUptime, TLAPS

-----------------------------------------------------------------------------
(* Arithmetic *)

LEMMA ErrorTypes ==
  /\ Rounding \in Nat /\ Behind \in Nat /\ Ahead \in Nat
  /\ Behind = TimeslotLength + GuardTime + 2 * Rounding
  /\ Ahead = GuardTime + Rounding
  /\ TimeslotLength \in Nat /\ GuardTime \in Nat
  BY TimingAssumption DEF Rounding, Behind, Ahead

LEMMA DivBounds ==
  ASSUME NEW a \in Nat
  PROVE  /\ a \div TicksPerClock \in Nat
         /\ TicksPerClock * (a \div TicksPerClock) \in Nat
         /\ TicksPerClock * (a \div TicksPerClock) <= a
         /\ a - Rounding <= TicksPerClock * (a \div TicksPerClock)
  BY TimingAssumption DEF Rounding

LEMMA ClockBounds ==
  ASSUME NEW i \in Nat, NEW p \in Nat, NEW k, k = (i + p) \div TicksPerClock
  PROVE  /\ k \in Nat /\ TicksPerClock * k <= i + p
         /\ i + p - Rounding <= TicksPerClock * k
<1>1. PICK a \in Nat : a = i + p
  OBVIOUS
<1>2. k = a \div TicksPerClock
  BY <1>1
<1>3. /\ k \in Nat /\ TicksPerClock * k \in Nat
      /\ TicksPerClock * k <= a
      /\ a - Rounding <= TicksPerClock * k
  BY <1>2, DivBounds
<1> QED BY <1>1, <1>3, ErrorTypes

LEMMA Scale ==
  ASSUME NEW a \in Int, NEW b \in Int
  PROVE  /\ TicksPerClock * a \in Int
         /\ TicksPerClock * (a + b) = TicksPerClock * a + TicksPerClock * b
         /\ TicksPerClock * (a - b) = TicksPerClock * a - TicksPerClock * b
  BY TimingAssumption

LEMMA Cancel ==
  ASSUME NEW a \in Int, NEW b \in Int,
         TicksPerClock * a - TicksPerClock * b <= Rounding
  PROVE  a <= b
  BY TimingAssumption DEF Rounding

LEMMA SlotStart ==
  ASSUME NEW asn \in Nat
  PROVE  /\ asn * TimeslotLength \in Nat
         /\ (asn + 1) * TimeslotLength = asn * TimeslotLength + TimeslotLength
  BY TimingAssumption

-----------------------------------------------------------------------------
(* The invariant *)

Types ==
  /\ time \in 0 .. MaxTime
  /\ phase \in [Nodes -> 0 .. TicksPerClock - 1]
  /\ tsch_is_associated \in [Nodes -> BOOLEAN]
  /\ last_sync_asn \in [Nodes -> Nat]
  /\ tsch_last_sync_time \in [Nodes -> Nat]
  /\ pc \in [Nodes -> Positions]
  /\ masked \in [Nodes -> BOOLEAN]
  /\ uptime_ticks \in [Nodes -> Nat \cup {Unknown}]
  /\ began \in [Nodes -> 0 .. time]

(* The two variables were written at the same instant, in that slot. *)
Pair(n, instant) ==
  /\ last_sync_asn[n] * TimeslotLength - GuardTime <= instant
  /\ instant <= last_sync_asn[n] * TimeslotLength + TimeslotLength + GuardTime
  /\ tsch_last_sync_time[n] = (instant + phase[n]) \div TicksPerClock

PairInv == \A n \in Nodes : \E instant \in 0 .. time : Pair(n, instant)

(* An uptime taken between the instants from and to. *)
Accurate(uptime, from, to) ==
  /\ uptime \in Nat
  /\ TicksPerClock * uptime >= from - Behind
  /\ TicksPerClock * uptime <= to + Ahead

Reader(n) ==
  /\ pc[n] \in {"entered", "asn", "ticks"} => masked[n]
  /\ pc[n] = "asn" => uptime_ticks[n] = AsnTicks(last_sync_asn[n])
  /\ pc[n] = "ticks" => Accurate(uptime_ticks[n], began[n], time)
  /\ pc[n] = "returned" =>
       \/ Accurate(uptime_ticks[n], began[n], time)
       \/ uptime_ticks[n] = Unknown /\ ~tsch_is_associated[n]

ReaderInv ==
  /\ tsch_is_associated[Coordinator]
  /\ \A n \in Nodes : Reader(n)

PacketInv ==
  \A p \in {packet, arrived} :
    p # Nothing => /\ p.began \in Nat /\ p.ended \in 0 .. MaxTime
                   /\ Accurate(p.uptime, p.began, p.ended)

IInv == Types /\ PairInv /\ ReaderInv /\ PacketInv

-----------------------------------------------------------------------------
(* The clock of a node that has synchronized is not behind the last        *)
(* synchronization, and what the function computes is right now.           *)
LEMMA ClockOfPair ==
  ASSUME Types, NEW n \in Nodes, NEW instant \in 0 .. time, Pair(n, instant)
  PROVE  /\ TicksSince(n) \in Nat
         /\ Accurate(AsnTicks(last_sync_asn[n]) + TicksSince(n), time, time)
<1> DEFINE start == last_sync_asn[n] * TimeslotLength
           a == AsnTicks(last_sync_asn[n])
           c == clock_time(n)
           t == tsch_last_sync_time[n]
<1>1. /\ phase[n] \in Nat /\ time \in Nat /\ instant \in Nat
      /\ instant <= time
  BY TimingAssumption DEF Types
<1>2. start \in Nat
  BY SlotStart DEF Types
<1>3. /\ a \in Nat /\ TicksPerClock * a <= start
      /\ start - Rounding <= TicksPerClock * a
  <2>1. a = start \div TicksPerClock
    BY DEF AsnTicks
  <2> HIDE DEF a, start
  <2> QED BY <1>2, <2>1, DivBounds
<1>4. /\ c \in Nat /\ TicksPerClock * c <= time + phase[n]
      /\ time + phase[n] - Rounding <= TicksPerClock * c
  BY <1>1, ClockBounds DEF clock_time
<1>5. /\ t \in Nat /\ TicksPerClock * t <= instant + phase[n]
      /\ instant + phase[n] - Rounding <= TicksPerClock * t
  BY <1>1, ClockBounds DEF Pair
<1>6. start - GuardTime <= instant
      /\ instant <= start + TimeslotLength + GuardTime
  BY DEF Pair
<1>7. TicksSince(n) = c - t
  BY DEF TicksSince
<1> HIDE DEF start, a, c, t
<1>8. /\ TicksPerClock * a \in Int /\ TicksPerClock * c \in Int
      /\ TicksPerClock * t \in Int
  BY <1>3, <1>4, <1>5, Scale
<1>9. t <= c
  <2>1. TicksPerClock * t - TicksPerClock * c <= Rounding
    BY <1>1, <1>4, <1>5, <1>8, ErrorTypes
  <2> QED BY <1>4, <1>5, <2>1, Cancel
<1>10. TicksPerClock * (a + (c - t))
         = TicksPerClock * a + TicksPerClock * c - TicksPerClock * t
  <2>1. c - t \in Int /\ a \in Int /\ c \in Int /\ t \in Int
    BY <1>3, <1>4, <1>5
  <2>2. TicksPerClock * (a + (c - t))
          = TicksPerClock * a + TicksPerClock * (c - t)
    BY <2>1, Scale
  <2>3. TicksPerClock * (c - t) = TicksPerClock * c - TicksPerClock * t
    BY <2>1, Scale
  <2> QED BY <1>8, <2>2, <2>3
<1>11. Accurate(a + (c - t), time, time)
  BY <1>1, <1>2, <1>3, <1>4, <1>5, <1>6, <1>8, <1>9, <1>10, ErrorTypes
     DEF Accurate
<1> QED BY <1>4, <1>5, <1>7, <1>9, <1>11 DEF a

(* Synchronizing writes a pair. *)
LEMMA SynchronizePair ==
  ASSUME Types, NEW n \in Nodes, NEW asn \in SlotsNow, Synchronize(n, asn),
         UNCHANGED <<time, phase>>
  PROVE  /\ Pair(n, time)'
         /\ last_sync_asn' \in [Nodes -> Nat]
         /\ tsch_last_sync_time' \in [Nodes -> Nat]
         /\ \A m \in Nodes \ {n} :
              /\ last_sync_asn'[m] = last_sync_asn[m]
              /\ tsch_last_sync_time'[m] = tsch_last_sync_time[m]
<1>1. /\ time \in Nat /\ phase[n] \in Nat
  BY TimingAssumption DEF Types
<1>2. /\ asn \in Nat /\ asn * TimeslotLength - GuardTime <= time
      /\ time <= (asn + 1) * TimeslotLength + GuardTime
  BY <1>1, TimingAssumption DEF SlotsNow
<1>3. SyncTime(n) = (time + phase[n]) \div TicksPerClock
  BY DEF SyncTime, clock_time
<1>4. SyncTime(n) \in Nat
  BY <1>1, <1>3, DivBounds
<1>5. /\ last_sync_asn' \in [Nodes -> Nat]
      /\ last_sync_asn'[n] = asn
      /\ \A m \in Nodes \ {n} : last_sync_asn'[m] = last_sync_asn[m]
  BY <1>2 DEF Synchronize, Types
<1>6. /\ tsch_last_sync_time' \in [Nodes -> Nat]
      /\ tsch_last_sync_time'[n] = SyncTime(n)
      /\ \A m \in Nodes \ {n} :
           tsch_last_sync_time'[m] = tsch_last_sync_time[m]
  BY <1>4 DEF Synchronize, Types
<1>7. Pair(n, time)'
  BY <1>2, <1>3, <1>5, <1>6, SlotStart DEF Pair
<1> QED BY <1>5, <1>6, <1>7

-----------------------------------------------------------------------------
LEMMA InitInv == Init => IInv
<1> SUFFICES ASSUME Init PROVE IInv
  OBVIOUS
<1>1. time = 0 /\ phase \in [Nodes -> 0 .. TicksPerClock - 1]
  BY DEF Init
<1>2. \A n \in Nodes : /\ Pair(n, 0)
                       /\ tsch_last_sync_time[n] \in Nat
  <2> TAKE n \in Nodes
  <2>1. phase[n] \in Nat /\ 0 + phase[n] = phase[n]
    BY <1>1, TimingAssumption
  <2>2. tsch_last_sync_time[n] = (0 + phase[n]) \div TicksPerClock
    BY <1>1 DEF Init, clock_time
  <2>3. tsch_last_sync_time[n] \in Nat
    BY <2>1, <2>2, ClockBounds
  <2>4. last_sync_asn[n] = 0 /\ 0 * TimeslotLength = 0
    BY TimingAssumption DEF Init
  <2> QED BY <2>2, <2>3, <2>4, ErrorTypes DEF Pair
<1>3. PairInv
  <2> SUFFICES ASSUME NEW n \in Nodes
               PROVE  \E instant \in 0 .. time : Pair(n, instant)
    BY DEF PairInv
  <2>1. 0 \in 0 .. time
    BY <1>1
  <2> QED BY <1>2, <2>1, Zenon
<1>4. Types
  <2>1. tsch_is_associated \in [Nodes -> BOOLEAN]
        /\ masked \in [Nodes -> BOOLEAN]
    BY Zenon DEF Init
  <2>2. tsch_last_sync_time \in [Nodes -> Nat]
    BY <1>2 DEF Init
  <2> QED BY <1>1, <2>1, <2>2, TimingAssumption DEF Init, Types, Positions
<1>5. ReaderInv
  BY NodesAssumption DEF Init, ReaderInv, Reader
<1>6. PacketInv
  BY DEF Init, PacketInv
<1> QED BY <1>3, <1>4, <1>5, <1>6 DEF IInv

LEMMA NextTypes == ASSUME IInv, [Next]_vars PROVE Types'
<1> USE DEF IInv, Types, Positions, syncVars, readerVars, packetVars
<1>1. CASE Tick
  BY <1>1, TimingAssumption DEF Tick
<1>2. ASSUME NEW n \in Nodes, SyncInSlot(n) PROVE Types'
  BY <1>2, SynchronizePair DEF SyncInSlot
<1>3. ASSUME NEW n \in Nodes, Disassociate(n) PROVE Types'
  <2>1. tsch_is_associated' \in [Nodes -> BOOLEAN]
    BY <1>3, Zenon DEF Disassociate
  <2> QED BY <1>3, <2>1 DEF Disassociate
<1>4. ASSUME NEW n \in Nodes, Associate(n) PROVE Types'
  <2>1. tsch_is_associated' \in [Nodes -> BOOLEAN]
    BY <1>4, Zenon DEF Associate
  <2> QED BY <1>4, <2>1, SynchronizePair DEF Associate
<1>5. ASSUME NEW n \in Nodes, Call(n), UNCHANGED <<time, phase, syncVars>>
      PROVE  Types'
  BY <1>5 DEF Call
<1>6. ASSUME NEW n \in Nodes, SendTo(n) PROVE Types'
  BY <1>6 DEF SendTo, Forget
<1>7. ASSUME NEW n \in Nodes, critical_enter(n) \/ critical_exit(n)
      PROVE  Types'
  <2>1. masked' \in [Nodes -> BOOLEAN]
    BY <1>7, Zenon DEF critical_enter, critical_exit, Masks
  <2> QED BY <1>7, <2>1 DEF critical_enter, critical_exit
<1>8. ASSUME NEW n \in Nodes, ReadAsn(n) PROVE Types'
  <2>1. AsnTicks(last_sync_asn[n]) \in Nat
    BY SlotStart, DivBounds DEF AsnTicks
  <2> QED BY <1>8, <2>1 DEF ReadAsn
<1>9. ASSUME NEW n \in Nodes, ReadTime(n) PROVE Types'
  <2>1. PICK instant \in 0 .. time : Pair(n, instant)
    BY DEF PairInv
  <2>2. uptime_ticks[n] + TicksSince(n) \in Nat
    <3>1. uptime_ticks[n] = AsnTicks(last_sync_asn[n])
      BY <1>9 DEF ReadTime, ReaderInv, Reader
    <3> QED BY <2>1, <3>1, ClockOfPair DEF Accurate
  <2> QED BY <1>9, <2>2 DEF ReadTime
<1>10. CASE Lose
  BY <1>10 DEF Lose
<1>11. CASE PrintLatency
  BY <1>11, NodesAssumption DEF PrintLatency, Forget
<1>12. CASE UNCHANGED vars
  BY <1>12 DEF vars
<1> QED
  BY <1>1, <1>2, <1>3, <1>4, <1>5, <1>6, <1>7, <1>8, <1>9, <1>10, <1>11,
     <1>12, NodesAssumption DEF Next, TakeUptime, udp_rx_callback, Call

LEMMA PairKept ==
  ASSUME NEW m \in Nodes, NEW instant, Pair(m, instant),
         last_sync_asn'[m] = last_sync_asn[m],
         tsch_last_sync_time'[m] = tsch_last_sync_time[m], phase' = phase
  PROVE  Pair(m, instant)'
  BY DEF Pair

LEMMA NextPair == ASSUME IInv, [Next]_vars PROVE PairInv'
<1> USE DEF IInv, syncVars
<1>1. CASE UNCHANGED <<time, phase, last_sync_asn, tsch_last_sync_time>>
  BY <1>1, PairKept DEF PairInv
<1>2. CASE Tick
  <2> SUFFICES ASSUME NEW m \in Nodes
               PROVE  \E instant \in 0 .. time' : Pair(m, instant)'
    BY DEF PairInv
  <2>1. PICK instant \in 0 .. time : Pair(m, instant)
    BY DEF PairInv
  <2>2. Pair(m, instant)'
    BY <1>2, <2>1, PairKept DEF Tick
  <2>3. instant \in 0 .. time'
    BY <1>2 DEF Tick, Types
  <2> QED BY <2>2, <2>3
<1>3. ASSUME NEW n \in Nodes, NEW asn \in SlotsNow, Synchronize(n, asn),
             UNCHANGED <<time, phase>>
      PROVE  PairInv'
  <2> SUFFICES ASSUME NEW m \in Nodes
               PROVE  \E instant \in 0 .. time' : Pair(m, instant)'
    BY DEF PairInv
  <2>1. CASE m = n
    <3>1. Pair(n, time)'
      BY <1>3, SynchronizePair
    <3>2. time' = time /\ time' \in 0 .. time'
      BY <1>3, TimingAssumption DEF Types
    <3> QED BY <2>1, <3>1, <3>2
  <2>2. CASE m # n
    <3>1. PICK instant \in 0 .. time : Pair(m, instant)
      BY DEF PairInv
    <3>2. /\ last_sync_asn'[m] = last_sync_asn[m]
          /\ tsch_last_sync_time'[m] = tsch_last_sync_time[m]
      BY <1>3, <2>2, SynchronizePair
    <3>3. Pair(m, instant)'
      BY <1>3, <3>1, <3>2, PairKept
    <3> QED BY <1>3, <3>3
  <2> QED BY <2>1, <2>2
<1>4. ASSUME NEW n \in Nodes, SyncInSlot(n) \/ Associate(n) PROVE PairInv'
  BY <1>3, <1>4 DEF SyncInSlot, Associate
<1>5. ASSUME NEW n \in Nodes,
             \/ Disassociate(n) \/ TakeUptime(n)
             \/ SendTo(n) \/ critical_enter(n) \/ ReadAsn(n)
             \/ ReadTime(n) \/ critical_exit(n)
      PROVE  UNCHANGED <<time, phase, last_sync_asn, tsch_last_sync_time>>
  BY <1>5 DEF Disassociate, TakeUptime, Call, SendTo, critical_enter,
              ReadAsn, ReadTime, critical_exit
<1>6. ASSUME Lose \/ udp_rx_callback \/ PrintLatency \/ UNCHANGED vars
      PROVE  UNCHANGED <<time, phase, last_sync_asn, tsch_last_sync_time>>
  BY <1>6 DEF Lose, udp_rx_callback, Call, PrintLatency, vars
<1> QED BY <1>1, <1>2, <1>4, <1>5, <1>6 DEF Next

-----------------------------------------------------------------------------
LEMMA AccurateLater ==
  ASSUME NEW u, NEW from \in Nat, NEW to \in Nat, NEW later \in Nat,
         to <= later, Accurate(u, from, to)
  PROVE  Accurate(u, from, later)
<1>1. TicksPerClock * u \in Int
  BY Scale DEF Accurate
<1> QED BY <1>1, ErrorTypes DEF Accurate

LEMMA AccurateEarlier ==
  ASSUME NEW u, NEW from \in Nat, NEW to \in Nat, from <= to,
         Accurate(u, to, to)
  PROVE  Accurate(u, from, to)
<1>1. TicksPerClock * u \in Int
  BY Scale DEF Accurate
<1> QED BY <1>1, ErrorTypes DEF Accurate

LEMMA ReaderKept ==
  ASSUME NEW m \in Nodes, Reader(m),
         pc'[m] = pc[m], masked'[m] = masked[m],
         uptime_ticks'[m] = uptime_ticks[m], began'[m] = began[m],
         tsch_is_associated'[m] = tsch_is_associated[m]
           \/ ~tsch_is_associated'[m],
         last_sync_asn'[m] = last_sync_asn[m] \/ ~masked[m],
         time' = time
  PROVE  Reader(m)'
  BY DEF Reader, Accurate

LEMMA NextReader == ASSUME IInv, [Next]_vars PROVE ReaderInv'
<1> USE DEF IInv, Types, Positions, syncVars, readerVars, packetVars
<1>0. \A n \in Nodes : Reader(n) /\ began[n] \in Nat /\ began[n] <= time
  BY TimingAssumption DEF ReaderInv
<1>1. CASE Tick
  <2>1. tsch_is_associated'[Coordinator]
    BY <1>1 DEF Tick, ReaderInv
  <2>2. ASSUME NEW m \in Nodes PROVE Reader(m)'
    <3>1. time \in Nat /\ time' \in Nat /\ time <= time'
      BY <1>1, TimingAssumption DEF Tick
    <3>2. Accurate(uptime_ticks[m], began[m], time)
            => Accurate(uptime_ticks[m], began[m], time')
      BY <1>0, <3>1, AccurateLater
    <3> QED BY <1>0, <1>1, <3>2 DEF Tick, Reader
  <2> QED BY <2>1, <2>2 DEF ReaderInv
<1>2. ASSUME NEW n \in Nodes, NEW asn \in SlotsNow, Synchronize(n, asn),
             UNCHANGED <<time, phase, readerVars>>,
             pc[n] \in {"idle", "checked"} \/ ~masked[n],
             \A m \in Nodes : tsch_is_associated'[m] = tsch_is_associated[m]
                \/ (m = n /\ pc[n] = "idle" /\ tsch_is_associated'[n])
      PROVE  ReaderInv'
  <2>1. tsch_is_associated'[Coordinator]
    BY <1>2, NodesAssumption DEF ReaderInv
  <2>2. ASSUME NEW m \in Nodes, m # n PROVE Reader(m)'
    <3>1. last_sync_asn'[m] = last_sync_asn[m]
      BY <1>2, <2>2, SynchronizePair
    <3> QED BY <1>0, <1>2, <2>2, <3>1, ReaderKept
  <2>3. Reader(n)'
    <3>1. pc[n] \notin {"entered", "asn", "ticks"}
      BY <1>0, <1>2 DEF Reader
    <3> QED BY <1>0, <1>2, <3>1 DEF Reader, Accurate
  <2> QED BY <2>1, <2>2, <2>3 DEF ReaderInv
<1>3. ASSUME NEW n \in Nodes, SyncInSlot(n) PROVE ReaderInv'
  <2>1. \A m \in Nodes : tsch_is_associated'[m] = tsch_is_associated[m]
    BY <1>3 DEF SyncInSlot
  <2>2. PICK asn \in SlotsNow : Synchronize(n, asn)
    BY <1>3 DEF SyncInSlot
  <2>3. ~masked[n] /\ UNCHANGED <<time, phase, readerVars>>
    BY <1>3 DEF SyncInSlot
  <2>4. /\ pc[n] \in {"idle", "checked"} \/ ~masked[n]
        /\ \A m \in Nodes : tsch_is_associated'[m] = tsch_is_associated[m]
             \/ (m = n /\ pc[n] = "idle" /\ tsch_is_associated'[n])
    BY <2>1, <2>3
  <2> QED BY <1>2, <2>2, <2>3, <2>4, Zenon
<1>4. ASSUME NEW n \in Nodes, Associate(n) PROVE ReaderInv'
  <2>1. \A m \in Nodes : tsch_is_associated'[m] = tsch_is_associated[m]
          \/ (m = n /\ pc[n] = "idle" /\ tsch_is_associated'[n])
    BY <1>4 DEF Associate, Scheduled
  <2>2. pc[n] = "idle"
    BY <1>4 DEF Associate, Scheduled
  <2> QED BY <1>2, <1>4, <2>1, <2>2 DEF Associate
<1>5. ASSUME NEW n \in Nodes, Disassociate(n) PROVE ReaderInv'
  <2>1. tsch_is_associated'[Coordinator]
    BY <1>5, NodesAssumption DEF Disassociate, ReaderInv
  <2>2. ASSUME NEW m \in Nodes PROVE Reader(m)'
    BY <1>0, <1>5, ReaderKept DEF Disassociate
  <2> QED BY <2>1, <2>2 DEF ReaderInv
<1>6. ASSUME NEW n \in Nodes, Reader(n)',
             \A m \in Nodes \ {n} :
               /\ pc'[m] = pc[m] /\ masked'[m] = masked[m]
               /\ uptime_ticks'[m] = uptime_ticks[m] /\ began'[m] = began[m],
             UNCHANGED <<time, phase, syncVars>>
      PROVE  ReaderInv'
  <2>1. tsch_is_associated'[Coordinator]
    BY <1>6 DEF ReaderInv
  <2>2. ASSUME NEW m \in Nodes, m # n PROVE Reader(m)'
    BY <1>0, <1>6, <2>2, ReaderKept
  <2> QED BY <1>6, <2>1, <2>2 DEF ReaderInv
<1>7. ASSUME NEW n \in Nodes, Call(n), UNCHANGED <<time, phase, syncVars>>
      PROVE  ReaderInv'
  <2>1. Reader(n)'
    BY <1>7 DEF Call, Reader
  <2> QED BY <1>6, <1>7, <2>1 DEF Call
<1>8. ASSUME NEW n \in Nodes, Forget(n),
             UNCHANGED <<time, phase, syncVars, masked>>
      PROVE  ReaderInv'
  <2>1. Reader(n)'
    BY <1>8 DEF Forget, Reader
  <2> QED BY <1>6, <1>8, <2>1 DEF Forget
<1>9. ASSUME NEW n \in Nodes, critical_enter(n) PROVE ReaderInv'
  <2>1. Reader(n)'
    BY <1>9 DEF critical_enter, Masks, Reader
  <2> QED BY <1>6, <1>9, <2>1 DEF critical_enter
<1>10. ASSUME NEW n \in Nodes, ReadAsn(n) PROVE ReaderInv'
  <2>1. masked[n]
    BY <1>0, <1>10 DEF ReadAsn, Reader
  <2>2. /\ pc'[n] = "asn" /\ masked'[n] = masked[n]
        /\ uptime_ticks'[n] = AsnTicks(last_sync_asn[n])
        /\ last_sync_asn' = last_sync_asn
    BY <1>10 DEF ReadAsn
  <2>3. Reader(n)'
    BY <2>1, <2>2 DEF Reader, AsnTicks
  <2> QED BY <1>6, <1>10, <2>3 DEF ReadAsn
<1>11. ASSUME NEW n \in Nodes, ReadTime(n) PROVE ReaderInv'
  <2>1. masked[n] /\ uptime_ticks[n] = AsnTicks(last_sync_asn[n])
    BY <1>0, <1>11 DEF ReadTime, Reader
  <2>2. PICK instant \in 0 .. time : Pair(n, instant)
    BY DEF PairInv
  <2>3. Accurate(uptime_ticks[n] + TicksSince(n), time, time)
    BY <2>1, <2>2, ClockOfPair
  <2>4. Accurate(uptime_ticks[n] + TicksSince(n), began[n], time)
    BY <1>0, <2>3, AccurateEarlier, TimingAssumption
  <2>5. /\ pc'[n] = "ticks" /\ masked'[n] = masked[n]
        /\ uptime_ticks'[n] = uptime_ticks[n] + TicksSince(n)
        /\ began' = began /\ time' = time
    BY <1>11 DEF ReadTime
  <2>6. Reader(n)'
    BY <2>1, <2>4, <2>5 DEF Reader
  <2> QED BY <1>6, <1>11, <2>6 DEF ReadTime
<1>12. ASSUME NEW n \in Nodes, critical_exit(n) PROVE ReaderInv'
  <2>1. Accurate(uptime_ticks[n], began[n], time)
    BY <1>0, <1>12 DEF critical_exit, Reader
  <2>2. pc'[n] = "returned" /\ UNCHANGED <<uptime_ticks, began, time>>
    BY <1>12 DEF critical_exit
  <2>3. Reader(n)'
    BY <2>1, <2>2 DEF Reader
  <2> QED BY <1>6, <1>12, <2>3 DEF critical_exit
<1>13. ASSUME Lose \/ UNCHANGED vars PROVE ReaderInv'
  <2>1. UNCHANGED <<time, syncVars, readerVars>>
    BY <1>13 DEF Lose, vars
  <2>2. ASSUME NEW m \in Nodes PROVE Reader(m)'
    BY <1>0, <2>1, ReaderKept
  <2> QED BY <2>1, <2>2 DEF ReaderInv
<1>14. ASSUME NEW n \in Nodes, TakeUptime(n) \/ SendTo(n) PROVE ReaderInv'
  BY <1>7, <1>8, <1>14 DEF TakeUptime, SendTo, Call
<1>15. ASSUME udp_rx_callback \/ PrintLatency PROVE ReaderInv'
  BY <1>7, <1>8, <1>15, NodesAssumption
     DEF udp_rx_callback, PrintLatency, Call
<1> QED
  BY <1>1, <1>3, <1>4, <1>5, <1>9, <1>10, <1>11, <1>12, <1>13, <1>14, <1>15
     DEF Next

LEMMA NextPacket == ASSUME IInv, [Next]_vars PROVE PacketInv'
<1> USE DEF IInv, packetVars
<1>1. CASE UNCHANGED packetVars
  BY <1>1 DEF PacketInv, Accurate
<1>2. ASSUME NEW n \in Nodes, SendTo(n) PROVE PacketInv'
  <2>1. CASE ~tsch_is_associated[n]
    <3>1. packet' = Nothing /\ arrived' = arrived
      BY <1>2, <2>1 DEF SendTo
    <3> QED BY <3>1 DEF PacketInv
  <2>2. CASE tsch_is_associated[n]
    <3>1. /\ packet' = [uptime |-> uptime_ticks[n],
                        began |-> began[n], ended |-> time]
          /\ arrived' = arrived /\ pc[n] = "returned"
      BY <1>2, <2>2 DEF SendTo
    <3>2. Accurate(uptime_ticks[n], began[n], time)
      BY <2>2, <3>1 DEF ReaderInv, Reader
    <3>3. began[n] \in Nat /\ time \in 0 .. MaxTime
      BY TimingAssumption DEF Types
    <3>4. /\ packet'.began \in Nat /\ packet'.ended \in 0 .. MaxTime
          /\ Accurate(packet'.uptime, packet'.began, packet'.ended)
      BY <3>1, <3>2, <3>3
    <3> QED BY <3>1, <3>4 DEF PacketInv, Accurate
  <2> QED BY <2>1, <2>2
<1>3. CASE Lose
  BY <1>3 DEF Lose, PacketInv
<1>4. CASE udp_rx_callback
  BY <1>4 DEF udp_rx_callback, PacketInv
<1>5. CASE PrintLatency
  BY <1>5 DEF PrintLatency, PacketInv
<1>6. ASSUME NEW n \in Nodes,
             \/ SyncInSlot(n) \/ Disassociate(n) \/ Associate(n)
             \/ TakeUptime(n) \/ critical_enter(n) \/ ReadAsn(n)
             \/ ReadTime(n) \/ critical_exit(n)
      PROVE  UNCHANGED packetVars
  BY <1>6 DEF SyncInSlot, Disassociate, Associate, TakeUptime,
              critical_enter, ReadAsn, ReadTime, critical_exit
<1>7. ASSUME Tick \/ UNCHANGED vars PROVE UNCHANGED packetVars
  BY <1>7 DEF Tick, vars
<1> QED BY <1>1, <1>2, <1>3, <1>4, <1>5, <1>6, <1>7 DEF Next

THEOREM UptimeInvariance == Spec => []IInv
<1>1. IInv /\ [Next]_vars => IInv'
  BY NextTypes, NextPair, NextReader, NextPacket DEF IInv
<1> QED BY <1>1, InitInv, PTL DEF Spec

-----------------------------------------------------------------------------
(* Every variable keeps to its type: the clock is never behind the last    *)
(* synchronization, so that no uptime is negative.                         *)
THEOREM UptimeTypeCorrect == Spec => []TypeOK
<1>1. IInv => TypeOK
  BY DEF IInv, Types, TypeOK
<1> QED BY <1>1, UptimeInvariance, PTL

(* The bounds on the error of an uptime hold for every timing, however     *)
(* often the interrupt synchronizes or disassociates in the middle of the  *)
(* function (tsch-slot-operation.c:443-458).                               *)
THEOREM UptimeAlwaysAccurate == Spec => []UptimeAccurate
<1>1. IInv => UptimeAccurate
  BY DEF IInv, ReaderInv, Reader, Accurate, UptimeAccurate
<1> QED BY <1>1, UptimeInvariance, PTL

(* No packet carries (uint64_t)-1 (node.c:115-116).                        *)
THEOREM UnknownIsNeverSent == Spec => []UnknownNeverSent
<1>1. IInv => UnknownNeverSent
  BY UnknownAssumption DEF IInv, PacketInv, Accurate, UnknownNeverSent
<1> QED BY <1>1, UptimeInvariance, PTL

LEMMA ModRange ==
  ASSUME NEW d \in Int, -LongRange < d, d < LongRange
  PROVE  /\ d % LongRange \in 0 .. LongRange - 1
         /\ d >= 0 => d % LongRange = d
         /\ d < 0 => d % LongRange = d + LongRange
<1> DEFINE r == d % LongRange
           q == d \div LongRange
<1>1. /\ LongRange \in Nat \ {0} /\ q \in Int
      /\ r \in 0 .. LongRange - 1
      /\ d = LongRange * q + r
  BY LongAssumption
<1>2. q \in {-1, 0}
  BY <1>1
<1> HIDE DEF q, r
<1>3. CASE q = 0
  BY <1>1, <1>3 DEF r
<1>4. CASE q = -1
  <2>1. d = r - LongRange
    BY <1>1, <1>4
  <2> QED BY <1>1, <2>1 DEF r
<1> QED BY <1>2, <1>3, <1>4

(* What is printed is off by the errors of two uptimes at most, or is the  *)
(* latency of a packet that took less than these errors, below zero and    *)
(* wrapped once by the conversion to unsigned long (coordinator.c:69-80).  *)
THEOREM LatencyAlwaysAccurate == Spec => []LatencyAccurate
<1>1. IInv => LatencyAccurate
  <2> SUFFICES ASSUME IInv, pc[Coordinator] = "returned", arrived # Nothing
               PROVE  /\ latency \in 0 .. LongRange - 1
                      /\ \/ LatencyWithin(latency)
                         \/ /\ LatencyWithin(latency - LongRange)
                            /\ began[Coordinator] - arrived.ended
                                 < Behind + Ahead
    BY DEF LatencyAccurate
  <2> DEFINE u == uptime_ticks[Coordinator]
             v == arrived.uptime
             d == u - v
  <2>1. Accurate(u, began[Coordinator], time)
    BY NodesAssumption DEF IInv, ReaderInv, Reader
  <2>2. /\ arrived.began \in Nat
        /\ arrived.ended \in Nat /\ arrived.ended <= MaxTime
        /\ Accurate(v, arrived.began, arrived.ended)
    BY TimingAssumption DEF IInv, PacketInv
  <2>3. /\ began[Coordinator] \in Nat
        /\ time \in Nat /\ time <= MaxTime /\ MaxTime \in Nat
    BY NodesAssumption, TimingAssumption DEF IInv, Types
  <2>4. latency = d % LongRange
    BY DEF latency
  <2>5. u \in Nat /\ v \in Nat
    BY <2>1, <2>2 DEF Accurate
  <2> HIDE DEF u, v
  <2>6. /\ d \in Int
        /\ TicksPerClock * d = TicksPerClock * u - TicksPerClock * v
        /\ TicksPerClock * u \in Int /\ TicksPerClock * v \in Int
    BY <2>5, Scale
  <2> HIDE DEF d
  <2>7. LatencyWithin(d)
    BY <2>1, <2>2, <2>3, <2>6, ErrorTypes DEF Accurate, LatencyWithin
  <2>8. -LongRange < d /\ d < LongRange
    <3>1. /\ TicksPerClock * LongRange \in Int
          /\ LongRange \in Nat
          /\ MaxTime + Behind + Ahead < TicksPerClock * LongRange
      BY LongAssumption, RangeAssumption, TimingAssumption
    <3>2. TicksPerClock * d < TicksPerClock * LongRange
      BY <2>2, <2>3, <2>6, <2>7, <3>1, ErrorTypes DEF LatencyWithin
    <3>3. TicksPerClock * (0 - LongRange) = 0 - TicksPerClock * LongRange
      BY <3>1, TimingAssumption
    <3>4. TicksPerClock * (0 - LongRange) < TicksPerClock * d
      BY <2>2, <2>3, <2>6, <2>7, <3>1, <3>3, ErrorTypes DEF LatencyWithin
    <3>5. ASSUME NEW a \in Int, NEW b \in Int,
                 TicksPerClock * a < TicksPerClock * b
          PROVE  a < b
      BY <3>5, TimingAssumption
    <3> QED BY <2>6, <3>1, <3>2, <3>4, <3>5
  <2>9. latency \in 0 .. LongRange - 1
    BY <2>4, <2>6, <2>8, ModRange
  <2>10. CASE d >= 0
    BY <2>4, <2>6, <2>7, <2>8, <2>10, ModRange
  <2>11. CASE d < 0
    <3>1. latency - LongRange = d
      BY <2>4, <2>6, <2>8, <2>11, ModRange, LongAssumption
    <3>2. TicksPerClock * d < 0
      BY <2>6, <2>11, TimingAssumption
    <3>3. began[Coordinator] - arrived.ended < Behind + Ahead
      BY <2>2, <2>3, <2>6, <2>7, <3>2, ErrorTypes DEF LatencyWithin
    <3> QED BY <2>7, <2>9, <3>1, <3>3
  <2> QED BY <2>6, <2>9, <2>10, <2>11
<1> QED BY <1>1, UptimeInvariance, PTL
=============================================================================
