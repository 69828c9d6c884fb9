---------------------------- MODULE TschSlotLock ----------------------------
(***************************************************************************)
(* What tsch_get_lock and tsch_release_lock promise the code that calls    *)
(* them, apart from how the promise is kept                                *)
(* (3-experiment-tsch/app-contiki-tsch/tsch-slot-operation.c, 200-256):    *)
(* the lock is granted only between two slots, and a caller that waits is  *)
(* not overtaken by a new slot.  It does not promise that no slot runs     *)
(* once the lock is granted.                                               *)
(***************************************************************************)
VARIABLES
  lock, \* "free", "wanted" or "granted"
  slot  \* is a slot being executed?

vars == <<lock, slot>>

Init == lock = "free" /\ slot = FALSE

Request == lock = "free" /\ lock' = "wanted" /\ UNCHANGED slot

Grant == lock = "wanted" /\ ~slot /\ lock' = "granted" /\ UNCHANGED slot

Release == lock = "granted" /\ lock' = "free" /\ UNCHANGED slot

SlotBegin == ~slot /\ lock # "wanted" /\ slot' = TRUE /\ UNCHANGED lock

SlotEnd == slot /\ slot' = FALSE /\ UNCHANGED lock

Next == Request \/ Grant \/ Release \/ SlotBegin \/ SlotEnd

(* The safety half of the promise. *)
Safety == Init /\ [][Next]_vars

(* The whole promise: slots end, and a waiting caller gets the lock. *)
Spec == Safety /\ WF_vars(SlotEnd) /\ WF_vars(Grant)
=============================================================================
