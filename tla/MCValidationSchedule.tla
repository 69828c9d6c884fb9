------------------------ MODULE MCValidationSchedule ------------------------
(* Instances of ValidationSchedule: bytes are small numbers, the command   *)
(* two of them.                                                            *)
EXTENDS ValidationSchedule

MCCells == {[os |-> "contiki", z1 |-> FALSE],
            [os |-> "riot", z1 |-> FALSE],
            [os |-> "contiki", z1 |-> TRUE]}
MCCommand == <<1, 2>>
=============================================================================
