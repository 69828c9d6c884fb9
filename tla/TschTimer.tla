----------------------------- MODULE TschTimer -----------------------------
(***************************************************************************)
(* The rtimer arithmetic of TSCH slot operation                            *)
(* (3-experiment-tsch/app-contiki-tsch/tsch-slot-operation.c).             *)
(*                                                                         *)
(* rtimer_clock_t is an unsigned counter that wraps.  A slot computes the  *)
(* start of the next one by adding to the start of the current one, asks   *)
(* check_timer_miss whether that instant has already gone by, and either   *)
(* arms the rtimer or busy-waits and tries the slot after.  Everything is  *)
(* decided on wrapped values.  The variable lag is not in the program: it  *)
(* is the true distance from the start of the current slot to the present, *)
(* which no wrap affects, so the properties can say what the wrapped       *)
(* comparisons should have answered.  Nothing is decided on it, but for    *)
(* the bound on delays.                                                    *)
(***************************************************************************)
EXTENDS Integers

CONSTANTS
  ClockRange,   \* number of values of rtimer_clock_t (2^32 in the program)
  RTIMER_GUARD, \* rtimers cannot be set closer than this (lines 110-117)
  Intervals,    \* values time_to_next_active_slot can take
  MaxLag        \* bound: the longest a slot and its interrupts may take

ASSUME ClockAssumption ==
  /\ ClockRange \in Nat \ {0}
  /\ RTIMER_GUARD \in Nat
  /\ MaxLag \in Nat
  /\ MaxLag < ClockRange
  /\ Intervals \subseteq {d \in Nat : RTIMER_GUARD < d /\ d < ClockRange}

(* RTIMER_CLOCK_LT tells before from after within half a turn.  So the     *)
(* next slot starts within half a turn of this one, and is never late by   *)
(* as much: later than that, the busy wait would take it for ahead.        *)
ASSUME HalfTurnAssumption ==
  \A d \in Intervals :
    /\ 2 * d <= ClockRange
    /\ 2 * (MaxLag - d) < ClockRange

VARIABLES
  now,                \* RTIMER_NOW(), wrapped
  current_slot_start, \* wrapped
  phase,              \* "slot": computing; "armed": the rtimer is set
  missed,             \* result of the last check_timer_miss
  lag                 \* history: true time from current_slot_start to now

vars == <<now, current_slot_start, phase, missed, lag>>

Clock == 0 .. ClockRange - 1

-----------------------------------------------------------------------------
(* Unsigned arithmetic on the width of rtimer_clock_t. *)

WrapAdd_Unwrapped(a, b) == a + b
WrapAdd(a, b) == IF a + b < ClockRange THEN a + b ELSE a + b - ClockRange

(* What check_timer_miss would be if it compared the wrapped values alone. *)
check_timer_miss_Compare(ref_time, offset, at) ==
  WrapAdd(ref_time, offset) <= at

(* Has the clock, reading "at", passed ref_time + offset?  Exactly one of  *)
(* now and the target having wrapped decides; otherwise they compare.      *)
check_timer_miss(ref_time, offset, at) ==
  LET target == WrapAdd(ref_time, offset)
      now_has_overflowed == at < ref_time
      target_has_overflowed == target < ref_time
  IN  IF now_has_overflowed = target_has_overflowed
      THEN target <= at
      ELSE now_has_overflowed

(* The true time elapsed since ref_time, given that it is less than one    *)
(* turn of the clock.                                                      *)
Elapsed(ref_time, at) ==
  IF ref_time <= at THEN at - ref_time ELSE at + ClockRange - ref_time

-----------------------------------------------------------------------------

(* A slot has just started on time. *)
Init ==
  /\ now \in Clock
  /\ current_slot_start = now
  /\ phase = "slot"
  /\ missed = FALSE
  /\ lag = 0

(* The slot's own work, and any interrupt it had to wait for. *)
Work ==
  /\ phase = "slot"
  /\ lag < MaxLag
  /\ now' = WrapAdd(now, 1)
  /\ lag' = lag + 1
  /\ UNCHANGED <<current_slot_start, phase, missed>>

(* RTIMER_CLOCK_LT: the sign of the wrapped difference. *)
RTIMER_CLOCK_LT(a, b) == 2 * Elapsed(b, a) >= ClockRange

BusyWait_Return(interval) ==
  /\ phase' = "slot"
  /\ now' = now /\ lag' = lag - interval

(* RTIMER_BUSYWAIT_UNTIL_ABS: hold the CPU as long as the clock reads      *)
(* before the target.  Then return 0, so that the caller tries the next    *)
(* slot.                                                                   *)
BusyWait(interval) ==
  LET target == WrapAdd(current_slot_start, interval)
      spun == IF RTIMER_CLOCK_LT(now, target) THEN Elapsed(now, target) ELSE 0
  IN  /\ phase' = "slot"
      /\ now' = WrapAdd(now, spun)
      /\ lag' = lag - interval + spun

(* One turn of the do-while loop of tsch_slot_operation: advance           *)
(* current_slot_start and call tsch_schedule_slot_operation relative to    *)
(* the previous one.  rtimer_set may refuse, which is handled as a miss.   *)
ScheduleNext ==
  /\ phase = "slot"
  /\ \E interval \in Intervals, rtimer_ok \in BOOLEAN :
       /\ current_slot_start' = WrapAdd(current_slot_start, interval)
       /\ missed' = check_timer_miss(current_slot_start,
                                     interval - RTIMER_GUARD, now)
       /\ \/ /\ ~missed'
             /\ rtimer_ok
             /\ phase' = "armed"
             /\ now' = now
             /\ lag' = lag - interval
          \/ /\ missed' \/ ~rtimer_ok
             /\ BusyWait(interval)

(* The rtimer fires at the target or, behind other interrupts, after it.   *)
Fire ==
  /\ phase = "armed"
  /\ \E latency \in 0 .. MaxLag :
       /\ now' = WrapAdd(current_slot_start, latency)
       /\ lag' = latency
  /\ phase' = "slot"
  /\ UNCHANGED <<current_slot_start, missed>>

Next == Work \/ ScheduleNext \/ Fire

Spec == Init /\ [][Next]_vars

-----------------------------------------------------------------------------
(* Properties *)

TypeOK ==
  /\ now \in Clock
  /\ current_slot_start \in Clock
  /\ phase \in {"slot", "armed"}
  /\ missed \in BOOLEAN
  /\ lag \in Int

(* The comment on check_timer_miss makes its answer depend on "a single    *)
(* overflow and ref time prior to now" (lines 297-298).  The loop keeps    *)
(* both true for itself, through every missed deadline and busy-wait:      *)
(* while a slot is running its start is behind the clock by less than one  *)
(* turn, and the wrapped values show exactly that distance.                *)
RefPriorToNow ==
  phase = "slot" =>
    /\ 0 <= lag /\ lag <= MaxLag
    /\ Elapsed(current_slot_start, now) = lag

(* The timer is never armed for an instant already past, nor closer than   *)
(* the guard the hardware needs: otherwise the wake-up would come a whole  *)
(* turn of the clock later (lines 326-338).                                *)
ArmedAhead == phase = "armed" => lag < -RTIMER_GUARD

(* A deadline is declared missed if and only if it truly is: the wrapped   *)
(* comparison of check_timer_miss never drops a slot that could have been  *)
(* kept, nor keeps one that is too close (lines 299-328).                  *)
MissIsExact ==
  [][ScheduleNext =>
       LET interval == Elapsed(current_slot_start, current_slot_start')
       IN  missed' <=> (interval - lag <= RTIMER_GUARD)]_vars

(* The same clock without wraps, read off the wrapped values alone: the    *)
(* way from the slot start to the present, or from the present to the slot *)
(* start once the timer is set for it.                                     *)
SlotClock ==
  INSTANCE TschSlotClock WITH
    Guard   <- RTIMER_GUARD,
    elapsed <- IF phase = "armed" THEN -Elapsed(now, current_slot_start)
                                  ELSE Elapsed(current_slot_start, now),
    armed   <- phase = "armed"

(* On wrapped values the loop does what it would do on a clock that never  *)
(* wraps, through every missed deadline, busy-wait and late interrupt:     *)
(* nothing else in the slot operation needs to know of the wrap (lines     *)
(* 299-346, 1173-1211).                                                    *)
WrapInvisible == SlotClock!Spec
=============================================================================
