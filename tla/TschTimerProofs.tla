-------------------------- MODULE TschTimerProofs --------------------------
(***************************************************************************)
(* The properties of TschTimer for every width of the clock, every guard,  *)
(* every slot length up to half a turn of the clock, and every delay that  *)
(* leaves no slot late by half a turn.                                     *)
(***************************************************************************)
EXTENDS TschTimer, TLAPS

(* For an offset shorter than one turn of the clock and a reference time   *)
(* within one turn of the present, the wrapped comparison answers whether  *)
(* the offset has truly elapsed: the two assumptions of the comment on     *)
(* check_timer_miss suffice (lines 297-316).                               *)
THEOREM CheckTimerMissExact ==
  ASSUME NEW ref_time \in Clock, NEW at \in Clock, NEW offset \in Clock
  PROVE  check_timer_miss(ref_time, offset, at)
           <=> offset <= Elapsed(ref_time, at)
  BY ClockAssumption DEF Clock, check_timer_miss, WrapAdd, Elapsed

LEMMA CheckTimerMissBoolean ==
  ASSUME NEW ref_time \in Clock, NEW at \in Clock, NEW offset \in Clock
  PROVE  check_timer_miss(ref_time, offset, at) \in BOOLEAN
<1>1. \A a, b \in Int : (a <= b) \in BOOLEAN /\ (a < b) \in BOOLEAN
  OBVIOUS
<1>2. at \in Int /\ ref_time \in Int /\ WrapAdd(ref_time, offset) \in Int
  BY ClockAssumption DEF Clock, WrapAdd
<1> QED BY <1>1, <1>2, Zenon DEF check_timer_miss

(* Wrapped addition moves a clock value by the offset. *)
LEMMA ElapsedWrapAdd ==
  ASSUME NEW ref_time \in Clock, NEW offset \in Clock
  PROVE  /\ WrapAdd(ref_time, offset) \in Clock
         /\ Elapsed(ref_time, WrapAdd(ref_time, offset)) = offset
  BY ClockAssumption DEF Clock, WrapAdd, Elapsed

(* What holds between two steps: the distance from the start of the slot   *)
(* to the present, and how the wrapped values show it.                     *)
SlotLag ==
  phase = "slot" =>
    /\ 0 <= lag /\ lag <= MaxLag
    /\ now = WrapAdd(current_slot_start, lag)

IInv == TypeOK /\ SlotLag /\ ArmedAhead

LEMMA InitIInv == Init => IInv
<1> SUFFICES ASSUME Init PROVE IInv
  OBVIOUS
<1>1. missed \in BOOLEAN
  BY DEF Init
<1>2. SlotLag /\ ArmedAhead
  BY ClockAssumption DEF Init, SlotLag, ArmedAhead, WrapAdd, Clock
<1> QED BY <1>1, <1>2 DEF Init, IInv, TypeOK

LEMMA WorkIInv == IInv /\ Work => IInv'
  BY ClockAssumption DEF IInv, TypeOK, SlotLag, ArmedAhead, WrapAdd, Clock, Work

(* The answer of check_timer_miss when the loop asks it. *)
LEMMA MissedDeadline ==
  ASSUME IInv, phase = "slot", NEW interval \in Intervals
  PROVE  /\ interval \in Clock /\ interval > RTIMER_GUARD
         /\ Elapsed(current_slot_start, now) = lag
         /\ check_timer_miss(current_slot_start, interval - RTIMER_GUARD, now)
              <=> interval - lag <= RTIMER_GUARD
<1>1. /\ interval \in Clock /\ interval > RTIMER_GUARD
      /\ interval - RTIMER_GUARD \in Clock
      /\ RTIMER_GUARD \in Nat
  BY ClockAssumption DEF Clock
<1>2. /\ now \in Clock /\ current_slot_start \in Clock
      /\ lag \in Clock
      /\ now = WrapAdd(current_slot_start, lag)
  BY ClockAssumption DEF IInv, TypeOK, SlotLag, Clock
<1>3. Elapsed(current_slot_start, now) = lag
  BY <1>2, ElapsedWrapAdd
<1>4. check_timer_miss(current_slot_start, interval - RTIMER_GUARD, now)
        <=> interval - RTIMER_GUARD <= lag
  BY <1>1, <1>2, <1>3, CheckTimerMissExact
<1>5. interval - RTIMER_GUARD <= lag <=> interval - lag <= RTIMER_GUARD
  BY <1>1, <1>2 DEF Clock
<1> QED BY <1>1, <1>3, <1>4, <1>5

(* The wrapped comparison of the busy wait tells a slot ahead from one that *)
(* is late, and the wait ends at the start of a slot ahead.                *)
LEMMA BusyWaitLag ==
  ASSUME IInv, phase = "slot", NEW interval \in Intervals,
         current_slot_start' = WrapAdd(current_slot_start, interval),
         BusyWait(interval)
  PROVE  /\ lag' = IF lag < interval THEN 0 ELSE lag - interval
         /\ now' \in Clock
         /\ now' = WrapAdd(current_slot_start', lag')
<1> DEFINE target == WrapAdd(current_slot_start, interval)
<1>1. /\ interval \in Clock /\ ClockRange \in Nat \ {0}
      /\ 2 * interval <= ClockRange
      /\ 2 * (MaxLag - interval) < ClockRange
      /\ MaxLag \in Nat /\ MaxLag < ClockRange
  BY ClockAssumption, HalfTurnAssumption DEF Clock
<1>2. /\ now \in Clock /\ current_slot_start \in Clock
      /\ lag \in Int /\ 0 <= lag /\ lag <= MaxLag
      /\ now = WrapAdd(current_slot_start, lag)
  BY DEF IInv, TypeOK, SlotLag
<1>3. CASE lag < interval
  <2>1. /\ Elapsed(now, target) = interval - lag
        /\ Elapsed(target, now) = ClockRange - (interval - lag)
    BY <1>1, <1>2, <1>3 DEF Clock, WrapAdd, Elapsed
  <2>2. RTIMER_CLOCK_LT(now, target)
    BY <1>1, <1>2, <2>1 DEF RTIMER_CLOCK_LT, Clock
  <2>3. lag' = 0 /\ now' = WrapAdd(now, interval - lag)
    BY <1>1, <1>2, <2>1, <2>2 DEF BusyWait, Clock
  <2>4. WrapAdd(now, interval - lag) = target
    BY <1>1, <1>2, <1>3 DEF Clock, WrapAdd
  <2> QED BY <1>1, <1>2, <1>3, <2>3, <2>4 DEF Clock, WrapAdd
<1>4. CASE ~(lag < interval)
  <2>1. Elapsed(target, now) = lag - interval
    BY <1>1, <1>2, <1>4 DEF Clock, WrapAdd, Elapsed
  <2>2. ~RTIMER_CLOCK_LT(now, target)
    BY <1>1, <1>2, <2>1 DEF RTIMER_CLOCK_LT, Clock
  <2>3. lag' = lag - interval /\ now' = now
    BY <1>1, <1>2, <2>2 DEF BusyWait, WrapAdd, Clock
  <2> QED BY <1>1, <1>2, <1>4, <2>3 DEF Clock, WrapAdd
<1> QED BY <1>3, <1>4

LEMMA ScheduleNextIInv == IInv /\ ScheduleNext => IInv'
<1> SUFFICES ASSUME IInv, ScheduleNext PROVE IInv'
  OBVIOUS
<1>1. phase = "slot" BY DEF ScheduleNext
<1>2. PICK interval \in Intervals, rtimer_ok \in BOOLEAN :
        /\ current_slot_start' = WrapAdd(current_slot_start, interval)
        /\ missed' = check_timer_miss(current_slot_start,
                                      interval - RTIMER_GUARD, now)
        /\ \/ /\ ~missed' /\ rtimer_ok
              /\ phase' = "armed" /\ now' = now /\ lag' = lag - interval
           \/ /\ missed' \/ ~rtimer_ok
              /\ BusyWait(interval)
  BY DEF ScheduleNext
<1>3. /\ interval \in Clock /\ interval > RTIMER_GUARD
      /\ missed' <=> interval - lag <= RTIMER_GUARD
  BY <1>1, <1>2, MissedDeadline
<1>4. missed' \in BOOLEAN
  <2>1. /\ interval - RTIMER_GUARD \in Clock
        /\ current_slot_start \in Clock /\ now \in Clock
    BY ClockAssumption DEF IInv, TypeOK, Clock
  <2> QED BY <1>2, <2>1, CheckTimerMissBoolean, Zenon
<1>5. CASE ~missed' /\ phase' = "armed" /\ now' = now /\ lag' = lag - interval
  BY <1>2, <1>3, <1>4, <1>5, ClockAssumption
     DEF IInv, TypeOK, SlotLag, ArmedAhead, Clock, WrapAdd
<1>6. CASE BusyWait(interval)
  <2>1. /\ lag' = IF lag < interval THEN 0 ELSE lag - interval
        /\ now' \in Clock
        /\ now' = WrapAdd(current_slot_start', lag')
    BY <1>1, <1>2, <1>6, BusyWaitLag
  <2>2. phase' = "slot"
    BY <1>6 DEF BusyWait
  <2>3. current_slot_start' \in Clock
    BY <1>2, <1>3, ElapsedWrapAdd DEF IInv, TypeOK
  <2> QED BY <1>1, <1>3, <1>4, <2>1, <2>2, <2>3, ClockAssumption
          DEF IInv, TypeOK, SlotLag, ArmedAhead, Clock
<1> QED BY <1>2, <1>5, <1>6

LEMMA FireIInv == IInv /\ Fire => IInv'
  BY ClockAssumption
     DEF IInv, TypeOK, SlotLag, ArmedAhead, Clock, WrapAdd, Fire

LEMMA NextIInv == IInv /\ [Next]_vars => IInv'
<1>1. IInv /\ UNCHANGED vars => IInv'
  BY DEF IInv, TypeOK, SlotLag, ArmedAhead, vars
<1> QED BY <1>1, WorkIInv, ScheduleNextIInv, FireIInv DEF Next

THEOREM Invariance == Spec => []IInv
  BY InitIInv, NextIInv, PTL DEF Spec

(* The clock, the slot start and the timer keep to their ranges. *)
THEOREM TypeCorrect == Spec => []TypeOK
<1>1. IInv => TypeOK BY DEF IInv
<1> QED BY <1>1, Invariance, PTL

(* The loop establishes, slot after slot, the assumption under which it    *)
(* calls check_timer_miss: the previous slot start is behind the clock by  *)
(* less than one turn (lines 297-298, 1173-1211).                          *)
THEOREM RefAlwaysPrior == Spec => []RefPriorToNow
<1>1. IInv => RefPriorToNow
  BY ClockAssumption, ElapsedWrapAdd
     DEF IInv, TypeOK, SlotLag, RefPriorToNow, Clock
<1> QED BY <1>1, Invariance, PTL

(* The timer is never armed in the past, nor within the guard. *)
THEOREM AlwaysArmedAhead == Spec => []ArmedAhead
<1>1. IInv => ArmedAhead BY DEF IInv
<1> QED BY <1>1, Invariance, PTL

(* A deadline is declared missed exactly when it is. *)
THEOREM MissAlwaysExact == Spec => MissIsExact
<1> DEFINE Exact ==
      ScheduleNext =>
        LET interval == Elapsed(current_slot_start, current_slot_start')
        IN  missed' <=> (interval - lag <= RTIMER_GUARD)
<1>1. IInv /\ [Next]_vars => [Exact]_vars
  <2> SUFFICES ASSUME IInv, ScheduleNext PROVE Exact
    OBVIOUS
  <2>1. phase = "slot" BY DEF ScheduleNext
  <2>2. PICK interval \in Intervals :
          /\ current_slot_start' = WrapAdd(current_slot_start, interval)
          /\ missed' = check_timer_miss(current_slot_start,
                                        interval - RTIMER_GUARD, now)
    BY DEF ScheduleNext
  <2>3. /\ interval \in Clock
        /\ missed' <=> interval - lag <= RTIMER_GUARD
    BY <2>1, <2>2, MissedDeadline
  <2>4. Elapsed(current_slot_start, current_slot_start') = interval
    BY <2>2, <2>3, ElapsedWrapAdd DEF IInv, TypeOK
  <2> QED BY <2>3, <2>4
<1> QED BY <1>1, Invariance, PTL DEF Spec, MissIsExact

-----------------------------------------------------------------------------
(* The clock that never wraps *)

(* The wrapped values show the true distance, before the start of the slot *)
(* as well as after it.                                                    *)
LagShown ==
  lag = IF phase = "armed" THEN -Elapsed(now, current_slot_start)
                           ELSE Elapsed(current_slot_start, now)

LEMMA InitLagShown == Init => LagShown
  BY DEF Init, LagShown, Elapsed, Clock

LEMMA InSlotLagShown == IInv /\ phase = "slot" => LagShown
  BY ClockAssumption, ElapsedWrapAdd DEF IInv, TypeOK, SlotLag, LagShown, Clock

(* Arming the timer turns the distance round. *)
LEMMA ArmedLagShown ==
  ASSUME IInv, phase = "slot", NEW interval \in Intervals,
         interval - lag > RTIMER_GUARD
  PROVE  Elapsed(now, WrapAdd(current_slot_start, interval)) = interval - lag
<1>1. interval \in Clock /\ RTIMER_GUARD \in Nat
  BY ClockAssumption DEF Clock
<1>2. /\ current_slot_start \in Clock /\ lag \in Clock
      /\ now = WrapAdd(current_slot_start, lag)
  BY ClockAssumption DEF IInv, TypeOK, SlotLag, Clock
<1> QED BY <1>1, <1>2, ClockAssumption DEF Clock, WrapAdd, Elapsed

LEMMA NextLagShown == IInv /\ LagShown /\ [Next]_vars => LagShown'
<1> SUFFICES ASSUME IInv, LagShown, [Next]_vars PROVE LagShown'
  OBVIOUS
<1>1. IInv'
  BY NextIInv
<1>2. CASE phase' = "slot"
  <2>1. (IInv /\ phase = "slot")' => LagShown'
    BY InSlotLagShown, PTL
  <2> QED BY <1>1, <1>2, <2>1
<1>3. CASE ScheduleNext /\ phase' = "armed"
  <2>1. phase = "slot" /\ now' = now
    BY <1>3 DEF ScheduleNext, BusyWait
  <2>2. PICK interval \in Intervals :
          /\ current_slot_start' = WrapAdd(current_slot_start, interval)
          /\ lag' = lag - interval
    BY <1>3 DEF ScheduleNext, BusyWait
  <2>3. lag' < -RTIMER_GUARD
    BY <1>1, <1>3 DEF IInv, ArmedAhead
  <2>4. interval \in Int /\ lag \in Int /\ RTIMER_GUARD \in Int
    BY ClockAssumption DEF IInv, TypeOK
  <2>5. Elapsed(now', current_slot_start') = interval - lag
    BY <2>1, <2>2, <2>3, <2>4, ArmedLagShown
  <2> QED BY <1>3, <2>2, <2>4, <2>5 DEF LagShown
<1>4. CASE UNCHANGED vars
  BY <1>4 DEF vars, LagShown, Elapsed
<1> QED
  BY <1>1, <1>2, <1>3, <1>4 DEF Next, Work, Fire, IInv, TypeOK

(* Every step of the loop is one of the clock that never wraps.            *)
LEMMA ClockStepRefines ==
  IInv /\ LagShown /\ [Next]_vars => [SlotClock!Next]_(SlotClock!vars)
<1> SUFFICES ASSUME IInv, LagShown, [Next]_vars
             PROVE  [SlotClock!Next]_(SlotClock!vars)
  OBVIOUS
<1>0. LagShown'
  BY NextLagShown
<1> DEFINE elapsed == IF phase = "armed" THEN -Elapsed(now, current_slot_start)
                                         ELSE Elapsed(current_slot_start, now)
<1>1. elapsed = lag /\ elapsed' = lag'
  BY <1>0 DEF LagShown
<1> HIDE DEF elapsed
<1>2. CASE Work
  <2>1. SlotClock!Work
    BY <1>1, <1>2 DEF Work, SlotClock!Work, elapsed
  <2> QED BY <2>1 DEF SlotClock!Next
<1>3. CASE ScheduleNext
  <2>1. PICK interval \in Intervals :
          /\ current_slot_start' = WrapAdd(current_slot_start, interval)
          /\ \/ phase' = "armed" /\ lag' = lag - interval
             \/ BusyWait(interval)
    BY <1>3 DEF ScheduleNext
  <2>2. phase = "slot"
    BY <1>3 DEF ScheduleNext
  <2>3. CASE phase' = "armed" /\ lag' = lag - interval
    <3>1. lag' < -RTIMER_GUARD
      BY <2>3, NextIInv DEF IInv, ArmedAhead
    <3>2. SlotClock!Arm(interval)
      BY <1>1, <2>2, <2>3, <3>1 DEF SlotClock!Arm, elapsed
    <3> QED BY <3>2 DEF SlotClock!Next
  <2>4. CASE BusyWait(interval)
    <3>1. /\ lag' = IF lag < interval THEN 0 ELSE lag - interval
          /\ phase' = "slot"
      BY <2>1, <2>2, <2>4, BusyWaitLag DEF BusyWait
    <3>2. SlotClock!PassOver(interval)
      BY <1>1, <2>2, <3>1 DEF SlotClock!PassOver, elapsed
    <3> QED BY <3>2 DEF SlotClock!Next
  <2> QED BY <2>1, <2>3, <2>4
<1>4. CASE Fire
  <2>1. lag' \in Nat
    BY <1>4, ClockAssumption DEF Fire
  <2>2. SlotClock!Fire
    BY <1>1, <1>4, <2>1 DEF Fire, SlotClock!Fire, elapsed
  <2> QED BY <2>2 DEF SlotClock!Next
<1>5. CASE UNCHANGED vars
  BY <1>5 DEF vars, SlotClock!vars, Elapsed
<1> QED BY <1>2, <1>3, <1>4, <1>5 DEF Next

(* For every width of the clock the wrapped arithmetic implements a clock  *)
(* that never wraps, as TschSlotOperation assumes (lines 299-346).         *)
THEOREM WrapAlwaysInvisible == Spec => WrapInvisible
<1>1. Init => SlotClock!Init
  BY DEF Init, SlotClock!Init, Elapsed, Clock
<1> QED
  BY <1>1, Invariance, InitLagShown, NextLagShown, ClockStepRefines, PTL
     DEF Spec, WrapInvisible, SlotClock!Spec
=============================================================================
