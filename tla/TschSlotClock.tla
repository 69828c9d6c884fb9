--------------------------- MODULE TschSlotClock ---------------------------
(***************************************************************************)
(* What the loop that schedules slots promises, on a clock that never      *)
(* wraps (3-experiment-tsch/app-contiki-tsch/tsch-slot-operation.c,        *)
(* 318-346): the timer is set only for a slot that starts more than the    *)
(* guard ahead, a slot without timer is passed over, and none is entered   *)
(* before its start.                                                       *)
(***************************************************************************)
EXTENDS Integers

CONSTANTS
  Guard,
  Intervals \* from the start of a slot to the start of the next

VARIABLES
  elapsed, \* since the start of the slot; below zero, until it
  armed    \* the timer is set for that start

vars == <<elapsed, armed>>

Init == elapsed = 0 /\ armed = FALSE

(* The slot takes its time. *)
Work == ~armed /\ elapsed' = elapsed + 1 /\ UNCHANGED armed

(* The next slot is in time. *)
Arm(interval) ==
  /\ ~armed
  /\ elapsed' = elapsed - interval
  /\ elapsed' < -Guard
  /\ armed' = TRUE

(* It is not, or the timer refuses; its start is waited for.               *)
PassOver(interval) ==
  /\ ~armed
  /\ elapsed' = IF elapsed < interval THEN 0 ELSE elapsed - interval
  /\ UNCHANGED armed

Fire == armed /\ elapsed' \in Nat /\ armed' = FALSE

Next ==
  \/ Work \/ Fire
  \/ \E interval \in Intervals : Arm(interval) \/ PassOver(interval)

Spec == Init /\ [][Next]_vars
=============================================================================
