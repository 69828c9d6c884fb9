---------------------- MODULE ValidationScheduleProofs ----------------------
(***************************************************************************)
(* Invariants of ValidationSchedule for every set of cells, every line     *)
(* size and command, every stop time, and any number of losses.            *)
(*                                                                         *)
(*   TypeInv     types; the line of the RIOT client holds bytes of noise;  *)
(*   CountInv    the numbers the nodes print are those of requests sent;   *)
(*   VerdictInv  what verify asserted still holds once it has passed;      *)
(*   OrderInv    at most one request is on its way, so that without loss   *)
(*               the server receives 1, 2, 3 in this order;                *)
(*   NoiseInv    the noise before the command is what the line holds and   *)
(*               whole buffers that were dropped;                          *)
(*   PaceInv     when a client that nothing disturbs sends its requests;   *)
(*   FailInv     a cell fails for what verify found;                       *)
(*   Z1Inv       when a Z1 sends its first request.                        *)
(*                                                                         *)
(* The schedule, a few numbers in half seconds, is the code's; how long a  *)
(* node takes to stop and how many requests it sends are hypotheses of the *)
(* theorems that need them.                                                *)
(***************************************************************************)
EXTENDS ValidationSchedule, WellFoundedInduction, TLAPS

-----------------------------------------------------------------------------
(* Types *)

TypeInv == TypeOK /\ line \in Seq(Noise)

LEMMA ScheduleFacts ==
  /\ Len(Schedule) = 3
  /\ Schedule[1] = 20 /\ Schedule[2] = 60 /\ Schedule[3] = 120
  BY DEF Schedule

LEMMA LineSizeFacts == LineSize \in Nat /\ LineSize > 0
<1>1. Len(Command) \in Nat
  BY ScheduleAssumption
<1> QED BY <1>1, ScheduleAssumption

LEMMA IntervalsType == Intervals \subseteq 8 .. 21
  BY DEF Intervals

LEMMA FirstDelaysType == FirstDelays \subseteq 0 .. 9
  BY DEF FirstDelays

LEMMA ReadsType ==
  ASSUME NEW l \in Seq(Noise), NEW byte \in Noise, Len(l) < LineSize
  PROVE  Reads(l, byte) \in Seq(Noise) /\ Len(Reads(l, byte)) < LineSize
<1>1. CASE Len(l) < LineSize - 1
  <2>1. /\ Append(l, byte) \in Seq(Noise)
        /\ Len(Append(l, byte)) = Len(l) + 1
    OBVIOUS
  <2> QED BY <1>1, <2>1, LineSizeFacts DEF Reads
<1>2. CASE ~(Len(l) < LineSize - 1)
  BY <1>2, LineSizeFacts DEF Reads
<1> QED BY <1>1, <1>2

LEMMA BeginSendingType ==
  ASSUME now \in Nat, BeginSending PROVE wake' \in Nat /\ now <= wake'
<1>1. PICK delay \in FirstDelays : wake' = now + delay
  BY DEF BeginSending
<1>2. delay \in 0 .. 9
  BY FirstDelaysType
<1> QED BY <1>1, <1>2

(* Two numbers are within a bound of their sum. *)
LEMMA SumBound ==
  \A a, b, max \in Nat : a + b <= max => a \in 0 .. max /\ b \in 0 .. max
OBVIOUS

(* What a reception does to the network. *)
LEMMA ReceiveFacts ==
  ASSUME TypeOK, NEW n, NEW again \in BOOLEAN, Receive(n, again)
  PROVE  /\ UNCHANGED <<lost, missed>>
         /\ copies' \in 0 .. MaxCopies
         /\ \/ datagrams' = datagrams /\ copies' = copies + 1
            \/ datagrams' = datagrams \ {n} /\ copies' = copies
<1>1. copies \in 0 .. MaxCopies /\ MaxCopies \in Nat
  BY ScheduleAssumption DEF TypeOK
<1>2. CASE again
  BY <1>1, <1>2 DEF Receive
<1>3. CASE ~again
  BY <1>1, <1>3 DEF Receive
<1> QED BY <1>2, <1>3

(* What a turn of the client's loop does to the network. *)
LEMMA SendOrFail ==
  ASSUME IF route THEN Transmit ELSE SendFails
  PROVE  \/ /\ datagrams' = datagrams \cup {request_id}
            /\ lost' = lost
            /\ missed' = missed \/ missed' = missed + 1
            /\ lost' + missed' <= MaxLosses
            /\ copies' = copies
         \/ /\ datagrams' = datagrams
            /\ lost' = lost + 1
            /\ missed' = missed \/ missed' = missed + 1
            /\ lost' + missed' <= MaxLosses
            /\ copies' = copies
  BY DEF Transmit, SendFails

LEMMA InitTypeInv == Init => TypeInv
<1> SUFFICES ASSUME Init PROVE TypeInv
  OBVIOUS
<1>1. /\ route \in BOOLEAN /\ send_data \in BOOLEAN /\ radio \in BOOLEAN
      /\ first_serial \in BOOLEAN /\ first_rx \in BOOLEAN
  BY Zenon DEF Init
<1>2. line \in Seq(Noise) /\ Len(line) < LineSize
  BY LineSizeFacts DEF Init
<1> QED
  BY <1>1, <1>2, ScheduleAssumption, ScheduleFacts
     DEF Init, TypeInv, TypeOK, ClientPositions

LEMMA NextTypeInv == TypeInv /\ [Next]_vars => TypeInv'
<1> SUFFICES ASSUME TypeInv, [Next]_vars PROVE TypeInv'
  OBVIOUS
<1>0. ASSUME NEW n \in datagrams, NEW again \in BOOLEAN,
             ServerReceive(n, again)
      PROVE  /\ UNCHANGED <<lost, missed>>
             /\ copies' \in 0 .. MaxCopies
             /\ datagrams' \subseteq datagrams
  BY <1>0, ReceiveFacts DEF ServerReceive, TypeInv
<1> USE ScheduleAssumption, ScheduleFacts
    DEF TypeInv, TypeOK, ClientPositions, clientVars, serverVars,
        networkVars, checkerVars, Due, Ended, Sees, Larger
<1>1. CASE StartClient
  <2>1. first_serial' \in BOOLEAN /\ send_data' \in BOOLEAN
    BY <1>1, Zenon DEF StartClient
  <2> QED BY <1>1, <2>1 DEF StartClient
<1>2. CASE SerialWrite
  <2>1. first_serial' \in BOOLEAN /\ send_data' \in BOOLEAN
    BY <1>2, Zenon DEF SerialWrite
  <2>2. client' \in ClientPositions
    BY <1>2 DEF SerialWrite, BeginSending
  <2>3. wake' \in Nat
    <3>1. BeginSending \/ wake' = wake
      BY <1>2, Zenon DEF SerialWrite
    <3> QED BY <3>1, BeginSendingType
  <2>4. client_max' \in 0 .. N_REQUESTS
    BY <1>2 DEF SerialWrite
  <2>5. line' \in Seq(Noise) /\ Len(line') < LineSize
    BY <1>2, LineSizeFacts DEF SerialWrite
  <2>6. UNCHANGED <<first_rx, radio, server_max, after_end>>
    BY <1>2 DEF SerialWrite
  <2> QED BY <1>2, <2>1, <2>2, <2>3, <2>4, <2>5, <2>6 DEF SerialWrite
<1>3. CASE End
  BY <1>3 DEF End
<1>4. CASE Join
  <2>1. route' \in BOOLEAN
    BY <1>4, Zenon DEF Join
  <2> QED BY <1>4, <2>1 DEF Join
<1>5. CASE NoiseByte
  <2>1. first_serial' \in BOOLEAN /\ send_data' \in BOOLEAN
    BY <1>5, Zenon DEF NoiseByte
  <2>2. line' \in Seq(Noise) /\ Len(line') < LineSize
    <3>1. CASE \E byte \in Noise : line' = Reads(line, byte)
      BY <3>1, ReadsType
    <3>2. CASE line' = << >>
      BY <3>2, LineSizeFacts
    <3> QED BY <1>5, <3>1, <3>2 DEF NoiseByte
  <2> QED BY <1>5, <2>1, <2>2 DEF NoiseByte
<1>6. CASE WarmupOver
  <2>1. BeginSending
    BY <1>6 DEF WarmupOver
  <2>2. wake' \in Nat
    BY <2>1, BeginSendingType
  <2> QED BY <1>6, <2>2 DEF WarmupOver, BeginSending
<1>7. CASE ClientTurn
  <2>1. CASE cell.os = "contiki" /\ ~route /\ client' = "expired"
             /\ UNCHANGED <<wake, request_id, networkVars, checkerVars>>
    BY <1>7, <2>1 DEF ClientTurn, NotReachable, SendRequest
  <2>2. CASE /\ client' = client
             /\ \E interval \in Intervals : wake' = now + interval
             /\ request_id' = request_id + 1
             /\ Sees(FALSE, request_id)
             /\ IF route THEN Transmit ELSE SendFails
    <3>1. wake' \in Nat
      BY <2>2, IntervalsType
    <3>2. first_serial' \in BOOLEAN /\ send_data' \in BOOLEAN
      BY <2>2, Zenon
    <3>3. radio' \in BOOLEAN
      BY <2>2, Zenon DEF Transmit, SendFails
    <3>4. \/ /\ datagrams' = datagrams \cup {request_id}
             /\ lost' = lost
             /\ missed' = missed \/ missed' = missed + 1
             /\ lost' + missed' <= MaxLosses
             /\ copies' = copies
          \/ /\ datagrams' = datagrams
             /\ lost' = lost + 1
             /\ missed' = missed \/ missed' = missed + 1
             /\ lost' + missed' <= MaxLosses
             /\ copies' = copies
      <4>1. IF route THEN Transmit ELSE SendFails
        BY <2>2
      <4> QED BY <4>1, SendOrFail, Zenon
    <3>5. lost' \in 0 .. MaxLosses /\ missed' \in 0 .. MaxLosses
      <4>1. lost \in Nat /\ missed \in Nat /\ MaxLosses \in Nat
        OBVIOUS
      <4> HIDE DEF TypeInv
      <4>2. lost' \in Nat /\ missed' \in Nat
        BY <3>4, <4>1
      <4>3. lost' + missed' <= MaxLosses
        BY <3>4
      <4> QED BY <4>1, <4>2, <4>3, SumBound, Zenon
    <3>7. copies' = copies
      BY <3>4
    <3>6. datagrams' \subseteq 1 .. N_REQUESTS
      <4>1. request_id \in 1 .. N_REQUESTS
        BY <1>7 DEF ClientTurn, NotReachable, SendRequest
      <4>2. datagrams \subseteq 1 .. N_REQUESTS
        OBVIOUS
      <4> HIDE DEF TypeInv
      <4> QED BY <3>4, <4>1, <4>2
    <3> QED BY <1>7, <2>2, <3>1, <3>2, <3>3, <3>5, <3>6, <3>7
         DEF ClientTurn, NotReachable, SendRequest
  <2> QED BY <1>7, <2>1, <2>2 DEF ClientTurn, NotReachable, SendRequest
<1>8. ASSUME NEW n \in datagrams, NEW again \in BOOLEAN,
             ServerReceive(n, again)
      PROVE  TypeInv'
  <2>1. first_serial' \in BOOLEAN /\ first_rx' \in BOOLEAN
    BY <1>8, Zenon DEF ServerReceive, SeesReception
  <2>2. server_max' \in 0 .. N_REQUESTS
    BY <1>8 DEF ServerReceive, SeesReception
  <2>3. stop_at' \in Nat
    <3>1. CASE \E time \in StopTimes : stop_at' = now + time
      BY <3>1
    <3>2. CASE stop_at' = stop_at
      BY <3>2
    <3> QED BY <1>8, <3>1, <3>2, Zenon DEF ServerReceive
  <2>4. server' \in {"on", "stopping", "off"}
    BY <1>8 DEF ServerReceive
  <2>5. /\ receptions' \in Nat
        /\ datagrams' \subseteq 1 .. N_REQUESTS
        /\ copies' \in 0 .. MaxCopies
        /\ UNCHANGED <<lost, missed>>
    <3>1. \A m \in datagrams : m \in 1 .. N_REQUESTS
      OBVIOUS
    <3>2. receptions' \in Nat
      BY <1>8 DEF ServerReceive
    <3>3. /\ UNCHANGED <<lost, missed>>
          /\ copies' \in 0 .. MaxCopies
          /\ datagrams' \subseteq datagrams
      BY <1>0, <1>8, Zenon
    <3> QED BY <3>1, <3>2, <3>3
  <2>6. UNCHANGED <<send_data, radio, client_max, after_end>>
    BY <1>8 DEF ServerReceive, SeesReception
  <2> QED
    BY <1>8, <2>1, <2>2, <2>3, <2>4, <2>5, <2>6 DEF ServerReceive
<1>9. CASE StopServer
  BY <1>9 DEF StopServer
<1>10. CASE Unheard
  BY <1>10 DEF Unheard
<1>11. CASE Advance
  <2>1. step \in 0 .. 2
    BY <1>11 DEF Advance
  <2>2. Schedule[step + 1] \in Deadlines /\ Schedule[step + 1] <= Schedule[3]
    BY <2>1 DEF Deadlines
  <2>3. Deadlines \subseteq Nat
    BY <2>1 DEF Deadlines
  <2>4. now' \in 0 .. Schedule[3]
    BY <1>11, <2>2, <2>3 DEF Advance
  <2> QED BY <1>11, <2>4 DEF Advance
<1>12. CASE LateObservation
  BY <1>12 DEF LateObservation
<1>13. CASE verify
  BY <1>13 DEF verify
<1>14. CASE UNCHANGED vars
  BY <1>14 DEF vars
<1> QED
  BY <1>1, <1>2, <1>3, <1>4, <1>5, <1>6, <1>7, <1>8, <1>9, <1>10, <1>11,
     <1>12, <1>13, <1>14 DEF Next

(* Every variable keeps to its type: the line of the RIOT client never     *)
(* fills its buffer, and no schedule outlasts its last action.             *)
THEOREM ValidationTypeCorrect == Spec => []TypeOK
<1>1. TypeInv => TypeOK
  BY DEF TypeInv
<1> QED BY <1>1, InitTypeInv, NextTypeInv, PTL DEF Spec

-----------------------------------------------------------------------------
(* The verdict *)

CountInv ==
  /\ step = 0 => client = "off"
  /\ client \in {"off", "warmup", "waiting"} => request_id = 1
  /\ client_max = request_id - 1
  /\ \A n \in datagrams : n < request_id
  /\ server_max < request_id
  /\ server_max = 3 => server # "on"
  /\ server # "on" => receptions > 0

LEMMA InitCountInv == Init => CountInv
  BY DEF Init, CountInv

LEMMA NextCountInv == TypeInv /\ CountInv /\ [Next]_vars => CountInv'
<1> SUFFICES ASSUME TypeInv, CountInv, [Next]_vars PROVE CountInv'
  OBVIOUS
<1> USE DEF CountInv, TypeInv, TypeOK, clientVars, serverVars, networkVars,
            checkerVars
<1>1. CASE StartClient
  BY <1>1 DEF StartClient, Due, Sees, Larger
<1>2. CASE SerialWrite
  <2>1. client' \in {client, "sending"}
    BY <1>2, Zenon DEF SerialWrite, BeginSending
  <2>2. client_max' = client_max
    BY <1>2 DEF SerialWrite, Sees, Larger
  <2>3. server_max' = server_max
    BY <1>2 DEF SerialWrite, Sees
  <2>4. /\ step' = 2
        /\ UNCHANGED <<request_id, serverVars, networkVars>>
    BY <1>2 DEF SerialWrite
  <2> QED BY <2>1, <2>2, <2>3, <2>4
<1>3. CASE End
  BY <1>3 DEF End, Due
<1>4. CASE Join
  BY <1>4 DEF Join
<1>5. CASE NoiseByte
  BY <1>5 DEF NoiseByte, Sees, Larger
<1>6. CASE WarmupOver
  BY <1>6 DEF WarmupOver, BeginSending
<1>7. CASE ClientTurn
  <2>1. CASE client' = "expired" /\ UNCHANGED <<request_id, networkVars,
                                               checkerVars>>
    BY <1>7, <2>1 DEF ClientTurn, NotReachable, SendRequest
  <2>2. CASE /\ client' = client /\ request_id' = request_id + 1
             /\ Sees(FALSE, request_id)
             /\ IF route THEN Transmit ELSE SendFails
    <3>1. datagrams' \subseteq datagrams \cup {request_id}
      BY <2>2, SendOrFail
    <3>2. client_max' = request_id /\ server_max' = server_max
      BY <2>2 DEF Sees, Larger
    <3>3. UNCHANGED <<step, server, receptions>> /\ client = "sending"
      BY <1>7 DEF ClientTurn, NotReachable, SendRequest
    <3> QED BY <2>2, <3>1, <3>2, <3>3
  <2> QED BY <1>7, <2>1, <2>2 DEF ClientTurn, NotReachable, SendRequest
<1>8. ASSUME NEW n \in datagrams, NEW again \in BOOLEAN,
             ServerReceive(n, again)
      PROVE  CountInv'
  <2>1. server_max' = IF server_max < n THEN n ELSE server_max
    BY <1>8 DEF ServerReceive, SeesReception, Larger
  <2>2. /\ UNCHANGED <<step, client, request_id, client_max>>
        /\ datagrams' \subseteq datagrams
    BY <1>8, ReceiveFacts DEF ServerReceive, SeesReception
  <2>3. receptions' > 0
    BY <1>8 DEF ServerReceive
  <2>4. server # "on" \/ n = 3 => server' # "on"
    BY <1>8 DEF ServerReceive, Triggers
  <2> QED BY <2>1, <2>2, <2>3, <2>4
<1>9. CASE StopServer
  BY <1>9 DEF StopServer
<1>10. CASE Unheard
  BY <1>10 DEF Unheard
<1>11. CASE Advance
  BY <1>11 DEF Advance
<1>12. CASE LateObservation
  BY <1>12 DEF LateObservation
<1>13. CASE verify
  BY <1>13 DEF verify
<1>14. CASE UNCHANGED vars
  BY <1>14 DEF vars
<1> QED
  BY <1>1, <1>2, <1>3, <1>4, <1>5, <1>6, <1>7, <1>8, <1>9, <1>10, <1>11,
     <1>12, <1>13, <1>14 DEF Next

(* Nothing but late output and the verdict comes after the end. *)
LEMMA OnlyLateAfterEnd ==
  ASSUME Next, ~verify, ~LateObservation
  PROVE  ~Ended /\ verdict' = verdict
<1> USE ScheduleFacts DEF Ended
<1>1. CASE StartClient \/ SerialWrite \/ End
  <2>1. /\ Due(1) \/ Due(2) \/ Due(3)
        /\ verdict' = verdict
    BY <1>1, Zenon DEF StartClient, SerialWrite, End
  <2> QED BY <2>1 DEF Due
<1>2. CASE Join \/ WarmupOver \/ ClientTurn
  BY <1>2, Zenon DEF Join, WarmupOver, ClientTurn, NotReachable, SendRequest
<1>3. CASE NoiseByte
  BY <1>3 DEF NoiseByte
<1>4. ASSUME NEW n \in datagrams, NEW again \in BOOLEAN,
             ServerReceive(n, again)
      PROVE  ~Ended /\ verdict' = verdict
  BY <1>4 DEF ServerReceive
<1>5. CASE StopServer \/ Unheard \/ Advance
  BY <1>5 DEF StopServer, Unheard, Advance
<1> QED BY <1>1, <1>2, <1>3, <1>4, <1>5, Zenon DEF Next

(* Late output may not follow the verdict. *)
VerdictInv == verdict = "PASSED" => Ended /\ Passes

LEMMA InitVerdictInv == Init => VerdictInv
  BY DEF Init, VerdictInv

LEMMA NextVerdictInv == VerdictInv /\ [Next]_vars => VerdictInv'
<1> SUFFICES ASSUME VerdictInv, [Next]_vars PROVE VerdictInv'
  OBVIOUS
<1>1. CASE UNCHANGED vars
  BY <1>1 DEF vars, checkerVars, VerdictInv, Passes, Ended,
              expect_serial_write
<1>2. CASE verify
  BY <1>2 DEF verify, checkerVars, VerdictInv, Passes, Ended,
              expect_serial_write
<1>3. CASE LateObservation
  BY <1>3 DEF LateObservation, VerdictInv
<1>4. CASE Next /\ ~verify /\ ~LateObservation
  BY <1>4, OnlyLateAfterEnd DEF VerdictInv
<1> QED BY <1>1, <1>2, <1>3, <1>4

(* A cell that passes stopped its server at a request numbered 3 and heard *)
(* its client announce a later one (validation.py:188-207).                *)
THEOREM VerdictAlwaysSound == Spec => []VerdictSound
<1>1. TypeInv /\ CountInv /\ VerdictInv => VerdictSound
  BY DEF TypeInv, TypeOK, ClientPositions, CountInv, VerdictInv, Passes,
         VerdictSound
<1> QED
  BY <1>1, InitTypeInv, NextTypeInv, InitCountInv, NextCountInv,
     InitVerdictInv, NextVerdictInv, PTL DEF Spec

-----------------------------------------------------------------------------
(* The stop *)

(* A request and its copy are numbered alike: what was received is every   *)
(* request sent, once, and the copies of those no longer on their way.     *)
OrderInv ==
  /\ datagrams # {} => client = "sending" /\ now < wake
  /\ lost = 0 /\ server = "on" =>
       /\ receptions <= 2 + copies
       /\ \/ datagrams = {} /\ receptions = request_id - 1 + copies
          \/ /\ datagrams = {request_id - 1}
             /\ receptions = request_id - 2 + copies
  /\ lost = 0 /\ server # "on" => receptions \in 3 .. 3 + copies

LEMMA InitOrderInv == Init => OrderInv
  BY DEF Init, OrderInv

LEMMA NextOrderInv ==
  TypeInv /\ CountInv /\ OrderInv /\ [Next]_vars => OrderInv'
<1> SUFFICES ASSUME TypeInv, CountInv, OrderInv, [Next]_vars PROVE OrderInv'
  OBVIOUS
<1> USE DEF OrderInv, TypeInv, TypeOK, clientVars, serverVars, networkVars
<1>1. CASE StartClient
  BY <1>1, ScheduleFacts DEF StartClient, Due, CountInv
<1>2. CASE SerialWrite
  <2>1. datagrams # {} => UNCHANGED <<client, wake>>
    BY <1>2 DEF SerialWrite
  <2> QED BY <1>2, <2>1 DEF SerialWrite
<1>3. CASE End
  BY <1>3 DEF End
<1>4. CASE Join
  BY <1>4 DEF Join
<1>5. CASE NoiseByte
  BY <1>5 DEF NoiseByte
<1>6. CASE WarmupOver
  BY <1>6 DEF WarmupOver
<1>7. CASE ClientTurn
  <2>1. datagrams = {}
    BY <1>7 DEF ClientTurn, NotReachable, SendRequest
  <2>2. CASE UNCHANGED <<request_id, networkVars>>
    BY <1>7, <2>1, <2>2 DEF ClientTurn, NotReachable, SendRequest
  <2>3. CASE /\ client' = client /\ request_id' = request_id + 1
             /\ \E interval \in Intervals : wake' = now + interval
             /\ IF route THEN Transmit ELSE SendFails
    <3>1. now < wake'
      BY <2>3, IntervalsType
    <3>2. /\ \/ datagrams' = {request_id} /\ lost' = lost
             \/ datagrams' = {} /\ lost' = lost + 1
          /\ copies' = copies
      <4>1. IF route THEN Transmit ELSE SendFails
        BY <2>3
      <4>2. /\ \/ /\ datagrams' = datagrams \cup {request_id}
                  /\ lost' = lost
               \/ datagrams' = datagrams /\ lost' = lost + 1
            /\ copies' = copies
        BY <4>1, SendOrFail, Zenon
      <4>3. datagrams \cup {request_id} = {request_id}
        BY <2>1
      <4> HIDE DEF OrderInv, TypeInv
      <4> QED BY <2>1, <4>2, <4>3
    <3>3. /\ UNCHANGED <<now, server, receptions>>
          /\ client' = "sending"
      BY <1>7, <2>3 DEF ClientTurn, NotReachable, SendRequest
    <3> QED BY <2>1, <2>3, <3>1, <3>2, <3>3
  <2> QED BY <1>7, <2>2, <2>3 DEF ClientTurn, NotReachable, SendRequest
<1>8. ASSUME NEW n \in datagrams, NEW again \in BOOLEAN,
             ServerReceive(n, again)
      PROVE  OrderInv'
  <2>1. /\ UNCHANGED <<client, wake, now, request_id, lost>>
        /\ \/ datagrams' = datagrams /\ copies' = copies + 1
           \/ datagrams' = datagrams \ {n} /\ copies' = copies
        /\ receptions' = IF server = "on" THEN receptions + 1 ELSE receptions
    BY <1>8, ReceiveFacts DEF ServerReceive
  <2>2. server' = IF n = 3 /\ server = "on" THEN "stopping" ELSE server
    BY <1>8 DEF ServerReceive, Triggers
  <2>3. datagrams' # {} => datagrams # {}
    OBVIOUS
  <2>4. CASE server # "on"
    BY <2>1, <2>2, <2>4
  <2>5. CASE lost # 0
    BY <2>1, <2>5
  <2>6. CASE server = "on" /\ lost = 0
    <3>1. /\ datagrams = {n} /\ n = request_id - 1
          /\ receptions = request_id - 2 + copies
          /\ receptions' = receptions + 1
      BY <2>1, <2>6
    <3>2. n <= 3
      BY <2>6, <3>1
    <3>3. CASE n = 3
      BY <2>1, <2>2, <2>6, <3>1, <3>3
    <3>4. CASE n # 3
      BY <2>1, <2>2, <2>6, <3>1, <3>2, <3>4
    <3> QED BY <3>3, <3>4
  <2> QED BY <2>4, <2>5, <2>6
<1>9. CASE StopServer
  BY <1>9 DEF StopServer
<1>10. CASE Unheard
  BY <1>10 DEF Unheard
<1>11. CASE Advance
  BY <1>11 DEF Advance
<1>12. CASE LateObservation
  BY <1>12 DEF LateObservation
<1>13. CASE verify
  BY <1>13 DEF verify
<1>14. CASE UNCHANGED vars
  BY <1>14 DEF vars
<1> QED
  BY <1>1, <1>2, <1>3, <1>4, <1>5, <1>6, <1>7, <1>8, <1>9, <1>10, <1>11,
     <1>12, <1>13, <1>14 DEF Next

(* Without loss the server is stopped at the third reception, whatever the *)
(* cell and the random delays, unless a request was received twice: each   *)
(* copy may put the stop off by one (validation.py:199-200, 239-240).      *)
THEOREM AlwaysStopAtThird == Spec => []StopAtThird
<1>1. TypeInv /\ OrderInv => StopAtThird
  BY DEF TypeInv, TypeOK, OrderInv, StopAtThird
<1> QED
  BY <1>1, InitTypeInv, NextTypeInv, InitCountInv, NextCountInv,
     InitOrderInv, NextOrderInv, PTL DEF Spec
-----------------------------------------------------------------------------
(* The command *)

(* A set of numbers has a smallest element. *)
LEMMA SmallestNat ==
  ASSUME NEW T \in SUBSET Nat, T # {}
  PROVE  \E m \in T : \A n \in T : m <= n
<1>1. PICK m \in T : \A n \in T : ~(<<n, m>> \in OpToRel(<, Nat))
  BY WFMin, NatLessThanWellFounded
<1>2. \A n \in T : ~(n < m)
  BY <1>1 DEF OpToRel
<1> QED BY <1>2

(* The command, sent on a line of its own, is read whole. *)
LEMMA CommandReadWhole == ReadsAll(<< >>, Command) = Command
<1> DEFINE n == Len(Command)
           Reading(f) == f = [i \in 0 .. n |->
                                IF i = 0 THEN << >>
                                ELSE Reads(f[i - 1], Command[i])]
           after == CHOOSE f : Reading(f)
<1>1. n \in Nat /\ n < LineSize /\ LineSize \in Nat /\ Command \in Seq(Nat)
  BY ScheduleAssumption
<1>2. \A i \in 1 .. n :
         Reads(SubSeq(Command, 1, i - 1), Command[i]) = SubSeq(Command, 1, i)
  <2> TAKE i \in 1 .. n
  <2>1. /\ SubSeq(Command, 1, i - 1) \in Seq(Nat)
        /\ Len(SubSeq(Command, 1, i - 1)) = i - 1
    BY <1>1
  <2>2. Append(SubSeq(Command, 1, i - 1), Command[i]) = SubSeq(Command, 1, i)
    BY <1>1, <2>1
  <2> QED BY <1>1, <2>1, <2>2 DEF Reads
<1>3. SubSeq(Command, 1, 0) = << >> /\ SubSeq(Command, 1, n) = Command
  BY <1>1
<1>4. Reading([i \in 0 .. n |-> SubSeq(Command, 1, i)])
  <2> DEFINE w == [i \in 0 .. n |-> SubSeq(Command, 1, i)]
  <2>1. ASSUME NEW i \in 0 .. n
        PROVE  w[i] = IF i = 0 THEN << >> ELSE Reads(w[i - 1], Command[i])
    <3>1. CASE i = 0
      BY <1>3, <3>1
    <3>2. CASE i # 0
      <4>1. i \in 1 .. n /\ i - 1 \in 0 .. n
        BY <1>1, <3>2
      <4>2. w[i - 1] = SubSeq(Command, 1, i - 1) /\ w[i] = SubSeq(Command, 1, i)
        BY <4>1
      <4>3. Reads(w[i - 1], Command[i]) = SubSeq(Command, 1, i)
        BY <1>2, <4>1, <4>2, Zenon
      <4> QED BY <3>2, <4>2, <4>3, Zenon
    <3> QED BY <3>1, <3>2
  <2> QED BY <2>1
<1>5. Reading(after)
  BY <1>4
<1> HIDE DEF after
<1>6. \A i \in 0 .. n : after[i] = SubSeq(Command, 1, i)
  <2> DEFINE wrong == {i \in 0 .. n : after[i] # SubSeq(Command, 1, i)}
  <2> SUFFICES ASSUME wrong # {} PROVE FALSE
    OBVIOUS
  <2>1. PICK m \in wrong : \A i \in wrong : m <= i
    <3>1. wrong \in SUBSET Nat
      BY <1>1
    <3> QED BY <3>1, SmallestNat
  <2>2. m # 0
    BY <1>1, <1>3, <1>5
  <2>3. after[m - 1] = SubSeq(Command, 1, m - 1)
    BY <1>1, <2>1, <2>2
  <2>4. m \in 1 .. n
    BY <1>1, <2>1, <2>2
  <2>5. after[m] = Reads(after[m - 1], Command[m])
    BY <1>1, <1>5, <2>4
  <2>6. after[m] = SubSeq(Command, 1, m)
    BY <1>2, <2>3, <2>4, <2>5, Zenon
  <2> QED BY <2>1, <2>6
<1>7. ReadsAll(<< >>, Command) = after[n]
  BY DEF ReadsAll, after
<1> QED BY <1>1, <1>3, <1>6, <1>7

(* The bytes of noise before the command are whole lines dropped, and what *)
(* the line holds.                                                         *)
NoiseInv ==
  /\ step < 2 => \E dropped \in Nat : noise = LineSize * dropped + Len(line)
  /\ CommandHeard

LEMMA InitNoiseInv == Init => NoiseInv
<1> SUFFICES ASSUME Init PROVE NoiseInv
  OBVIOUS
<1>1. noise = LineSize * 0 + Len(line)
  BY LineSizeFacts DEF Init
<1> QED BY <1>1 DEF Init, NoiseInv, CommandHeard

(* What is left of a line is not a multiple of the buffer's size. *)
LEMMA RestOfLine ==
  ASSUME NEW dropped \in Nat, NEW left \in Nat, 0 < left, left < LineSize
  PROVE  (LineSize * dropped + left) % LineSize # 0
<1> DEFINE total == LineSize * dropped + left
<1>1. LineSize * dropped \in Nat /\ total \in Nat
  BY LineSizeFacts
<1> HIDE DEF total
<1>2. PICK quotient \in Int :
        total = LineSize * quotient + (total % LineSize)
  BY <1>1, LineSizeFacts
<1> SUFFICES ASSUME total % LineSize = 0 PROVE FALSE
  BY DEF total
<1>3. LineSize * quotient = LineSize * dropped + left
  BY <1>1, <1>2, LineSizeFacts DEF total
<1>4. CASE quotient <= dropped
  <2>1. LineSize * quotient <= LineSize * dropped
    BY <1>4, LineSizeFacts
  <2> QED BY <1>1, <1>3, <2>1
<1>5. CASE quotient >= dropped + 1
  <2>1. LineSize * quotient >= LineSize * (dropped + 1)
    BY <1>5, LineSizeFacts
  <2>2. LineSize * (dropped + 1) = LineSize * dropped + LineSize
    BY LineSizeFacts
  <2> QED BY <1>1, <1>3, <2>1, <2>2, LineSizeFacts
<1> QED BY <1>4, <1>5

LEMMA NextNoiseInv ==
  TypeInv /\ CountInv /\ NoiseInv /\ [Next]_vars => NoiseInv'
<1> SUFFICES ASSUME TypeInv, CountInv, NoiseInv, [Next]_vars
             PROVE  NoiseInv'
  OBVIOUS
<1> USE DEF NoiseInv, CommandHeard, TypeInv, TypeOK, clientVars
<1>1. CASE /\ UNCHANGED <<step, line, noise>>
           /\ client' = "waiting" => client = "waiting"
  BY <1>1
<1>2. CASE StartClient
  BY <1>2, ScheduleFacts DEF StartClient, Due
<1>3. CASE SerialWrite
  <2>1. step = 1 /\ step' = 2 /\ noise' = noise
    BY <1>3, ScheduleFacts DEF SerialWrite, Due
  <2> SUFFICES ASSUME client' = "waiting" PROVE noise % LineSize # 0
    BY <2>1
  <2>2. ReadsAll(line, Command) # Command
    BY <1>3 DEF SerialWrite, BeginSending
  <2>3. line # << >>
    BY <2>2, CommandReadWhole
  <2>4. Len(line) \in Nat /\ 0 < Len(line) /\ Len(line) < LineSize
    BY <2>3
  <2> QED BY <2>1, <2>4, RestOfLine
<1>4. CASE NoiseByte
  <2>1. step = 1 /\ step' = 1
    BY <1>4 DEF NoiseByte
  <2>2. PICK dropped \in Nat : noise = LineSize * dropped + Len(line)
    BY <2>1
  <2>3. LineSize * dropped \in Nat
    BY LineSizeFacts
  <2>4. ASSUME NEW byte \in Noise, line' = Reads(line, byte), noise' = noise + 1
        PROVE  \E d \in Nat : noise' = LineSize * d + Len(line')
    <3>1. CASE Len(line) < LineSize - 1
      <4>1. Len(line') = Len(line) + 1
        BY <2>4, <3>1 DEF Reads
      <4>2. Len(line) \in Nat
        OBVIOUS
      <4>3. noise' = LineSize * dropped + Len(line')
        BY <2>2, <2>3, <2>4, <4>1, <4>2
      <4> QED BY <4>3
    <3>2. CASE ~(Len(line) < LineSize - 1)
      <4>1. Len(line') = 0 /\ Len(line) = LineSize - 1
        BY <2>4, <3>2, LineSizeFacts DEF Reads
      <4>2. LineSize * (dropped + 1) = LineSize * dropped + LineSize
        BY LineSizeFacts
      <4>3. noise' = LineSize * (dropped + 1) + Len(line')
        BY <2>2, <2>3, <2>4, <4>1, <4>2, LineSizeFacts
      <4> QED BY <4>3
    <3> QED BY <3>1, <3>2
  <2>5. CASE line' = << >> /\ noise' = 0
    <3>1. noise' = LineSize * 0 + Len(line')
      BY <2>5, LineSizeFacts
    <3> QED BY <2>1, <3>1
  <2> QED BY <1>4, <2>1, <2>4, <2>5 DEF NoiseByte
<1>5. CASE End
  BY <1>5, ScheduleFacts DEF End, Due
<1>6. CASE Join \/ WarmupOver \/ ClientTurn
  <2>1. UNCHANGED <<step, line, noise>> /\ client' \in {client, "sending", "expired"}
    BY <1>6, Zenon
       DEF Join, WarmupOver, BeginSending, ClientTurn, NotReachable, SendRequest
  <2> QED BY <1>1, <2>1
<1>7. ASSUME NEW n \in datagrams, NEW again \in BOOLEAN,
             ServerReceive(n, again)
      PROVE  NoiseInv'
  BY <1>1, <1>7 DEF ServerReceive
<1>8. CASE StopServer \/ Unheard \/ Advance \/ LateObservation \/ verify
  BY <1>1, <1>8 DEF StopServer, Unheard, Advance, LateObservation, verify
<1>9. CASE UNCHANGED vars
  BY <1>1, <1>9 DEF vars
<1> QED
  BY <1>2, <1>3, <1>4, <1>5, <1>6, <1>7, <1>8, <1>9 DEF Next

(* A client that did not hear the command had part of a line in its buffer *)
(* when the command came, whatever the size of the buffer and the bytes of *)
(* noise (app-riot/udp-client/main.c:99-117).                              *)
THEOREM CommandAlwaysHeard == Spec => []CommandHeard
<1>1. NoiseInv => CommandHeard
  BY DEF NoiseInv
<1> QED
  BY <1>1, InitTypeInv, NextTypeInv, InitCountInv, NextCountInv,
     InitNoiseInv, NextNoiseInv, PTL DEF Spec
-----------------------------------------------------------------------------
(* A run in which nothing is lost *)

(* No request was lost and no frame missed, no client came without a route *)
(* to its first request, and the client waits for the command.             *)
Undisturbed ==
  lost = 0 /\ missed = 0 /\ client # "expired" /\ ~cell.z1

(* The latest time at which the client sends its next request. *)
Latest == IF cell.os = "contiki" THEN 69 + 11 * (request_id - 1)
                                 ELSE 60 + 21 * (request_id - 1)

BeforeCommand ==
  step < 2 =>
    /\ client = IF step = 0 THEN "off" ELSE "waiting"
    /\ step = 0 \/ first_serial
    /\ server = "on" /\ receptions = 0 /\ server_max = 0
    /\ noise = 0 => line = << >>

(* Every request is sent in time and answered before the next one is due;  *)
(* the server is stopped between the third and the fourth.                 *)
AfterCommand ==
  step = 2 /\ noise = 0 =>
    /\ client = "sending" /\ send_data /\ first_serial
    /\ request_id > 1 => radio
    /\ wake <= Latest
    /\ request_id <= N_REQUESTS => now <= wake
    /\ datagrams # {} => now + 8 <= wake
    /\ server # "on" => server_max = 3 /\ first_rx
    /\ server = "stopping" => /\ datagrams \subseteq {3} /\ request_id = 4
                              /\ now <= stop_at /\ stop_at < wake

AtEnd ==
  step = 3 /\ noise = 0 =>
    /\ first_serial /\ send_data /\ first_rx /\ radio
    /\ server_max = 3
    /\ client_max > 3 \/ (cell.os = "riot" /\ client_max = 3)

PaceInv == Undisturbed => BeforeCommand /\ AfterCommand /\ AtEnd

(* What verify refused stays refused. *)
FailInv == verdict = "FAILED" => Ended /\ ~Passes

LEMMA InitPaceInv == Init => PaceInv /\ FailInv
  BY ScheduleFacts
     DEF Init, PaceInv, BeforeCommand, AfterCommand, AtEnd, FailInv

(* A loss, a miss and a client that gave up are never undone. *)
LEMMA NothingUndone ==
  ASSUME TypeInv, CountInv, [Next]_vars
  PROVE  /\ cell' = cell
         /\ lost' = 0 => lost = 0
         /\ missed' = 0 => missed = 0
         /\ client = "expired" => client' = "expired"
<1> DEFINE Undoes == ~ /\ cell' = cell
                       /\ lost' = 0 => lost = 0
                       /\ missed' = 0 => missed = 0
                       /\ client = "expired" => client' = "expired"
<1> SUFFICES ~Undoes
  OBVIOUS
<1> USE DEF TypeInv, TypeOK, clientVars, networkVars
<1>1. CASE /\ UNCHANGED <<cell, lost, missed>>
           /\ client = "expired" => client' = "expired"
  BY <1>1
<1>2. CASE StartClient
  BY <1>1, <1>2, ScheduleFacts DEF StartClient, Due, CountInv
<1>3. CASE SerialWrite
  BY <1>1, <1>3 DEF SerialWrite
<1>4. CASE End \/ Join \/ NoiseByte \/ WarmupOver
  BY <1>1, <1>4 DEF End, Join, NoiseByte, WarmupOver
<1>5. CASE ClientTurn
  <2>1. cell' = cell /\ client = "sending"
    BY <1>5 DEF ClientTurn
  <2>2. CASE UNCHANGED networkVars
    BY <2>1, <2>2
  <2>3. CASE IF route THEN Transmit ELSE SendFails
    <3>1. /\ lost' = lost \/ lost' = lost + 1
          /\ missed' = missed \/ missed' = missed + 1
      BY <2>3, SendOrFail, Zenon
    <3>2. lost \in Nat /\ missed \in Nat
      OBVIOUS
    <3>3. (lost' = 0 => lost = 0) /\ (missed' = 0 => missed = 0)
      BY <3>1, <3>2
    <3> QED BY <2>1, <3>3
  <2> QED
    BY <1>5, <2>2, <2>3, Zenon DEF ClientTurn, NotReachable, SendRequest
<1>6. ASSUME NEW n \in datagrams, NEW again \in BOOLEAN,
             ServerReceive(n, again)
      PROVE  ~Undoes
  BY <1>1, <1>6 DEF ServerReceive, Receive
<1>7. CASE StopServer \/ Unheard \/ Advance \/ LateObservation \/ verify
  BY <1>1, <1>7 DEF StopServer, Unheard, Advance, LateObservation, verify
<1>8. CASE UNCHANGED vars
  BY <1>1, <1>8 DEF vars
<1> QED
  BY <1>2, <1>3, <1>4, <1>5, <1>6, <1>7, <1>8 DEF Next

(* The longest interval separates the latest times of two requests. *)
LEMMA NextLatest ==
  ASSUME TypeInv, wake <= Latest, NEW interval \in Intervals,
         cell' = cell, request_id' = request_id + 1, wake' = wake + interval
  PROVE  wake' <= Latest'
<1>1. cell.os \in {"contiki", "riot"}
  BY ScheduleAssumption DEF TypeInv, TypeOK
<1> QED BY <1>1 DEF TypeInv, TypeOK, Intervals, Latest

(* At the end the fourth request was sent by a Contiki client, the third   *)
(* by a RIOT client, and the third was received.                           *)
LEMMA EndPace ==
  ASSUME N_REQUESTS >= 4,
         TypeInv, CountInv, OrderInv, PaceInv, Undisturbed, End
  PROVE  AtEnd'
<1> USE DEF TypeInv, TypeOK
<1> SUFFICES ASSUME noise = 0 PROVE AtEnd'
  BY DEF AtEnd, End, clientVars
<1>1. step = 2 /\ now = 120
  BY ScheduleFacts DEF End, Due
<1>2. cell.os \in {"contiki", "riot"}
  BY ScheduleAssumption
<1>3. /\ client = "sending" /\ send_data /\ first_serial
      /\ request_id > 1 => radio
      /\ wake <= Latest
      /\ request_id <= N_REQUESTS => 120 <= wake
      /\ datagrams # {} => 128 <= wake
      /\ server # "on" => server_max = 3 /\ first_rx
  BY <1>1 DEF PaceInv, AfterCommand
<1>4. cell.os = "contiki" => request_id >= 5
  BY <1>2, <1>3, ScheduleAssumption DEF Latest
<1>5. request_id >= 4
  BY <1>2, <1>3, ScheduleAssumption DEF Latest
<1>6. server # "on"
  <2> SUFFICES ASSUME server = "on" PROVE FALSE
    OBVIOUS
  <2>1. /\ receptions <= 2 + copies
        /\ \/ datagrams = {} /\ receptions = request_id - 1 + copies
           \/ /\ datagrams = {request_id - 1}
              /\ receptions = request_id - 2 + copies
    BY DEF OrderInv, Undisturbed
  <2>2. request_id = 4 /\ datagrams # {}
    <3>1. request_id \in Nat /\ copies \in Nat /\ receptions \in Nat
      BY ScheduleAssumption
    <3> HIDE DEF TypeInv, TypeOK
    <3> QED BY <1>5, <2>1, <3>1
  <2> QED BY <1>2, <1>3, <2>2 DEF Latest
<1>7. client_max > 3 \/ (cell.os = "riot" /\ client_max = 3)
  BY <1>2, <1>4, <1>5 DEF CountInv
<1> QED
  BY <1>3, <1>5, <1>6, <1>7
     DEF AtEnd, End, clientVars, serverVars, checkerVars

LEMMA NextPaceInv ==
  ASSUME N_REQUESTS >= 4, StopTimes \subseteq 0 .. 7,
         TypeInv, CountInv, OrderInv, PaceInv, [Next]_vars
  PROVE  PaceInv'
<1> SUFFICES ASSUME Undisturbed'
             PROVE  BeforeCommand' /\ AfterCommand' /\ AtEnd'
  BY DEF PaceInv
<1>0. /\ Undisturbed /\ lost' = 0 /\ missed' = 0
      /\ BeforeCommand /\ AfterCommand /\ AtEnd
  <2>1. Undisturbed /\ lost' = 0 /\ missed' = 0
    BY NothingUndone, Zenon DEF Undisturbed
  <2> QED BY <2>1 DEF PaceInv
<1> USE <1>0
    DEF TypeInv, TypeOK, clientVars, serverVars, networkVars, checkerVars,
        BeforeCommand, AfterCommand, AtEnd
<1>1. cell.os \in {"contiki", "riot"}
  BY ScheduleAssumption
<1>2. CASE StartClient
  <2>1. /\ step' = 1 /\ client' = "waiting" /\ first_serial'
        /\ UNCHANGED <<serverVars, server_max, line, noise>> /\ step = 0
    BY <1>2, ScheduleFacts DEF StartClient, Due, Sees, Undisturbed
  <2> QED BY <2>1
<1>3. CASE SerialWrite
  <2>1. step = 1 /\ step' = 2 /\ now = 60
    BY <1>3, ScheduleFacts DEF SerialWrite, Due
  <2>2. UNCHANGED <<now, request_id, route, noise, serverVars, networkVars, cell>>
    BY <1>3 DEF SerialWrite
  <2>3. client = "waiting" /\ request_id = 1 /\ datagrams = {}
    BY <2>1 DEF CountInv
  <2> SUFFICES ASSUME noise = 0 PROVE AfterCommand'
    BY <2>1, <2>2
  <2>4. line = << >>
    BY <2>1
  <2>5. ReadsAll(line, Command) = Command
    BY <2>4, CommandReadWhole
  <2>6. Len(line) + Len(Command) < LineSize
    BY <2>4, ScheduleAssumption
  <2>7. BeginSending /\ Sees(TRUE, 0)
    BY <1>3, <2>3, <2>5, <2>6 DEF SerialWrite
  <2>8. client' = "sending" /\ send_data' /\ first_serial'
    BY <2>7 DEF BeginSending, Sees
  <2>9. 60 <= wake' /\ wake' <= Latest'
    BY <1>1, <2>1, <2>2, <2>3, <2>7 DEF BeginSending, FirstDelays, Latest
  <2>10. UNCHANGED server_max
    BY <2>7 DEF Sees
  <2> QED BY <2>1, <2>2, <2>3, <2>8, <2>9, <2>10
<1>4. CASE End
  <2>1. step' = 3 /\ AtEnd'
    BY <1>4, EndPace DEF End
  <2> QED BY <2>1
<1>5. CASE Join
  <2>1. UNCHANGED <<cell, now, step, client, wake, request_id, line, noise,
                    serverVars, networkVars, checkerVars>>
    BY <1>5, Zenon DEF Join
  <2> QED BY <2>1 DEF Latest
<1>6. CASE NoiseByte
  <2>1. /\ step = 1 /\ step' = 1 /\ client' = client
        /\ first_serial'
        /\ noise' = 0 => line' = << >>
        /\ UNCHANGED <<serverVars, server_max>>
    BY <1>6 DEF NoiseByte, Sees
  <2> QED BY <2>1
<1>7. CASE WarmupOver
  BY <1>7, ScheduleFacts DEF WarmupOver, Ended
<1>8. CASE ClientTurn
  <2>1. /\ step = 2 /\ client = "sending" /\ now = wake
        /\ request_id <= N_REQUESTS
        /\ UNCHANGED <<cell, now, step, noise, line, serverVars>>
    BY <1>8, ScheduleFacts DEF ClientTurn, Ended
  <2> SUFFICES ASSUME noise = 0 PROVE AfterCommand'
    BY <2>1
  <2>2. client' # "expired"
    BY DEF Undisturbed
  <2>3. SendRequest
    BY <1>8, <2>2 DEF ClientTurn, NotReachable
  <2>4. PICK interval \in Intervals : wake' = wake + interval
    BY <2>1, <2>3 DEF SendRequest
  <2>5. client' = "sending" /\ request_id' = request_id + 1
    BY <2>1, <2>3 DEF SendRequest
  <2>6. wake' <= Latest' /\ now' + 8 <= wake'
    BY <2>1, <2>4, <2>5, NextLatest, IntervalsType
  <2>7. send_data' /\ first_serial'
        /\ UNCHANGED <<first_rx, server_max>>
    BY <2>1, <2>3 DEF SendRequest, Sees
  <2>8. radio'
    <3>1. IF route THEN Transmit ELSE SendFails
      BY <2>3 DEF SendRequest
    <3>2. lost = 0 /\ lost' = 0 /\ missed = 0 /\ missed' = 0
      BY DEF Undisturbed
    <3>3. route
      BY <3>1, <3>2 DEF SendFails
    <3>4. PICK captured \in BOOLEAN :
            /\ missed' = IF captured THEN missed ELSE missed + 1
            /\ radio' = (radio \/ captured)
      BY <3>1, <3>3, Zenon DEF Transmit
    <3>5. captured
      BY <3>2, <3>4
    <3> QED BY <3>4, <3>5
  <2>9. server # "stopping"
    BY <2>1
  <2>10. now' <= wake'
    <3>1. now' \in Nat /\ wake' \in Nat
      BY <2>1, <2>4, IntervalsType
    <3>2. \A a, b \in Nat : a + 8 <= b => a <= b
      OBVIOUS
    <3> QED BY <2>6, <3>1, <3>2, Zenon
  <2>11. UNCHANGED serverVars
    BY <2>1
  <2>12. /\ server' # "on" => server_max' = 3 /\ first_rx'
         /\ server' # "stopping"
    BY <2>1, <2>7, <2>9, <2>11
  <2> QED BY <2>5, <2>6, <2>7, <2>8, <2>10, <2>12
<1>9. ASSUME NEW n \in datagrams, NEW again \in BOOLEAN,
             ServerReceive(n, again)
      PROVE  BeforeCommand' /\ AfterCommand' /\ AtEnd'
  <2>1. step = 2
    BY <1>9, ScheduleFacts DEF ServerReceive, Ended, CountInv
  <2>2. /\ datagrams' \subseteq datagrams
        /\ UNCHANGED <<cell, now, step, client, wake, request_id, noise,
                       send_data, radio>>
        /\ first_serial' /\ first_rx'
        /\ server_max' = IF server_max < n THEN n ELSE server_max
        /\ server \in {"on", "stopping"}
    BY <1>9, ReceiveFacts DEF ServerReceive, SeesReception, Larger
  <2> SUFFICES ASSUME noise = 0 PROVE AfterCommand'
    BY <2>1, <2>2
  <2>3. wake' <= Latest'
    BY <2>1, <2>2 DEF Latest
  <2>4. CASE server = "stopping"
    <3>1. n = 3 /\ server_max' = 3
      BY <2>1, <2>2, <2>4
    <3>2. server' = "stopping" /\ UNCHANGED stop_at
      BY <1>9, <2>4 DEF ServerReceive
    <3> QED BY <2>1, <2>2, <2>3, <2>4, <3>1, <3>2
  <2>5. CASE server = "on"
    <3>1. datagrams = {n} /\ n = request_id - 1
      BY <2>5 DEF OrderInv, Undisturbed
    <3>2. server_max' = n
      BY <2>2, <3>1 DEF CountInv
    <3>3. CASE n = 3
      <4>1. /\ server' = "stopping"
            /\ \E time \in StopTimes : stop_at' = now + time
        BY <1>9, <2>5, <3>3 DEF ServerReceive, Triggers
      <4>2. now' <= stop_at' /\ stop_at' < wake'
        BY <2>1, <2>2, <4>1
      <4>3. datagrams' \subseteq {3} /\ request_id' = 4
        BY <2>2, <3>1, <3>3
      <4> QED BY <2>1, <2>2, <2>3, <3>2, <3>3, <4>1, <4>2, <4>3
    <3>4. CASE n # 3
      <4>1. server' = "on"
        BY <1>9, <2>5, <3>4 DEF ServerReceive, Triggers
      <4> QED BY <2>1, <2>2, <2>3, <4>1
    <3> QED BY <3>3, <3>4
  <2> QED BY <2>2, <2>4, <2>5
<1>10. CASE StopServer
  <2>1. step = 2 /\ server = "stopping"
    BY <1>10, ScheduleFacts DEF StopServer, Ended
  <2>2. /\ server' = "off" /\ datagrams' = {}
        /\ UNCHANGED <<cell, now, step, clientVars, receptions, checkerVars>>
    BY <1>10 DEF StopServer
  <2> QED BY <2>1, <2>2 DEF Latest
<1>11. CASE Unheard
  <2>1. step = 2 /\ server = "off"
    BY <1>11, ScheduleFacts DEF Unheard, Ended, CountInv
  <2>2. /\ datagrams' = {}
        /\ UNCHANGED <<cell, now, step, clientVars, serverVars, checkerVars>>
    BY <1>11 DEF Unheard
  <2> QED BY <2>1, <2>2 DEF Latest
<1>12. CASE Advance
  <2>1. /\ step \in 0 .. 2 /\ datagrams = {}
        /\ UNCHANGED <<cell, step, clientVars, serverVars, networkVars,
                       checkerVars>>
    BY <1>12, ScheduleFacts DEF Advance, Ended
  <2>2. \A deadline \in Deadlines : now' <= deadline
    BY <1>12 DEF Advance
  <2>3. ClientWaits => now' <= wake
    BY <2>2 DEF Deadlines
  <2>4. server = "stopping" => now' <= stop_at
    BY <2>2 DEF Deadlines
  <2>5. wake <= Latest => wake' <= Latest'
    BY <2>1 DEF Latest
  <2> QED BY <2>1, <2>3, <2>4, <2>5 DEF ClientWaits
<1>13. CASE LateObservation \/ verify
  <2>1. /\ UNCHANGED <<cell, now, step, clientVars, serverVars, networkVars,
                       send_data, first_serial, first_rx, radio, client_max,
                       server_max>>
        /\ step = 3
    BY <1>13, ScheduleFacts DEF LateObservation, verify, Ended
  <2> QED BY <2>1
<1>14. CASE UNCHANGED vars
  BY <1>14 DEF vars, Latest
<1> QED
  BY <1>2, <1>3, <1>4, <1>5, <1>6, <1>7, <1>8, <1>9, <1>10, <1>11, <1>12,
     <1>13, <1>14 DEF Next

LEMMA NextFailInv == FailInv /\ [Next]_vars => FailInv'
<1> SUFFICES ASSUME FailInv, [Next]_vars PROVE FailInv'
  OBVIOUS
<1>1. CASE UNCHANGED vars
  BY <1>1 DEF vars, checkerVars, FailInv, Passes, Ended, expect_serial_write
<1>2. CASE verify
  BY <1>2 DEF verify, checkerVars, FailInv, Passes, Ended, expect_serial_write
<1>3. CASE LateObservation
  BY <1>3 DEF LateObservation, FailInv
<1>4. CASE Next /\ ~verify /\ ~LateObservation
  BY <1>4, OnlyLateAfterEnd DEF FailInv
<1> QED BY <1>1, <1>2, <1>3, <1>4

(* A run without loss, noise or late output passes for every choice of the *)
(* random delays, as long as a client has a fourth request to send and the *)
(* server stops faster than the next request may follow, 4 s: Contiki      *)
(* always reaches its fourth request before the end, RIOT at least its     *)
(* third (validation.py:188-207, 236-247; udp-client.c:100-128).           *)
THEOREM LosslessAlwaysPasses ==
  ASSUME N_REQUESTS >= 4, StopTimes \subseteq 0 .. 7
  PROVE  Spec => []LosslessPasses
<1>1. TypeInv /\ CountInv /\ OrderInv /\ PaceInv /\ [Next]_vars => PaceInv'
  BY NextPaceInv
<1>2. TypeInv /\ PaceInv /\ FailInv => LosslessPasses
  <2> SUFFICES ASSUME TypeInv, PaceInv, FailInv, verdict = "FAILED",
                      lost + missed + noise + after_end <= 0,
                      client # "expired", ~cell.z1
               PROVE  cell.os = "riot" /\ client_max = 3
    BY DEF TypeInv, TypeOK, LosslessPasses
  <2>1. lost = 0 /\ missed = 0 /\ noise = 0 /\ after_end = 0
    BY DEF TypeInv, TypeOK
  <2>2. step = 3 /\ ~Passes
    BY ScheduleFacts DEF FailInv, Ended
  <2>3. /\ first_serial /\ send_data /\ first_rx /\ radio
        /\ server_max = 3
        /\ client_max > 3 \/ (cell.os = "riot" /\ client_max = 3)
    BY <2>1, <2>2 DEF PaceInv, Undisturbed, AtEnd
  <2> QED BY <2>1, <2>2, <2>3 DEF Passes, expect_serial_write
<1> QED
  BY <1>1, <1>2, InitTypeInv, NextTypeInv, InitCountInv, NextCountInv,
     InitOrderInv, NextOrderInv, InitPaceInv, NextFailInv, PTL DEF Spec

-----------------------------------------------------------------------------
(* A Z1 under Cooja *)

(* The client of a Z1 has found a route, and its requests arrive. *)
Z1Reaches == cell.z1 /\ lost = 0 /\ client # "expired"

(* The client needs no command: 30 s after its start and at most 4.5 s     *)
(* later it sends its first request, and the server receives it before     *)
(* time goes on.                                                           *)
Z1Inv ==
  Z1Reaches =>
    /\ client # "waiting"
    /\ client = "off" <=> step = 0
    /\ client = "warmup" => wake = 80 /\ now <= 80 /\ ~Ended
    /\ client = "sending" /\ request_id = 1 =>
         now <= wake /\ wake <= 89 /\ ~Ended
    /\ server = "on" /\ datagrams = {1} => now <= 89 /\ ~Ended
    /\ receptions > 0 => first_rx

LEMMA InitZ1Inv == Init => Z1Inv
  BY DEF Init, Z1Inv

LEMMA NextZ1Inv ==
  ASSUME N_REQUESTS > 0, TypeInv, CountInv, OrderInv, Z1Inv, [Next]_vars
  PROVE  Z1Inv'
<1> SUFFICES ASSUME Z1Reaches' PROVE Z1Inv'
  BY DEF Z1Inv
<1>0. Z1Reaches /\ cell' = cell /\ lost' = 0
  BY NothingUndone, Zenon DEF Z1Reaches
<1> USE <1>0, ScheduleFacts
    DEF TypeInv, TypeOK, ClientPositions, Z1Inv, Ended, clientVars, serverVars,
        networkVars, checkerVars
<1>1. CASE UNCHANGED <<now, step, client, wake, request_id, datagrams,
                       server, receptions, first_rx>>
  BY <1>1
<1>2. CASE StartClient
  <2>1. /\ step = 0 /\ now = 20 /\ step' = 1 /\ now' = now
        /\ client' = "warmup" /\ wake' = 80
    BY <1>2 DEF StartClient, Due, Z1Reaches
  <2>2. request_id = 1 /\ datagrams = {}
    BY <2>1 DEF CountInv
  <2>3. UNCHANGED <<request_id, datagrams, receptions, first_rx>>
    BY <1>2 DEF StartClient, Sees
  <2> QED BY <2>1, <2>2, <2>3
<1>3. CASE SerialWrite
  <2>1. step = 1 /\ step' = 2
    BY <1>3 DEF SerialWrite, Due
  <2>2. UNCHANGED <<now, client, wake, request_id, datagrams, server,
                    receptions, first_rx>>
    BY <1>3 DEF SerialWrite
  <2> QED BY <2>1, <2>2
<1>4. CASE End
  <2>1. step = 2 /\ now = 120 /\ step' = 3
    BY <1>4 DEF End, Due
  <2>2. UNCHANGED <<now, client, wake, request_id, datagrams, server,
                    receptions, first_rx>>
    BY <1>4 DEF End
  <2>3. client # "off" /\ client # "warmup"
        /\ ~(server = "on" /\ datagrams = {1})
        /\ ~(client = "sending" /\ request_id = 1)
    BY <2>1
  <2> QED BY <2>1, <2>2, <2>3
<1>5. CASE Join
  BY <1>1, <1>5 DEF Join
<1>6. CASE NoiseByte
  BY <1>6 DEF NoiseByte
<1>7. CASE WarmupOver
  <2>1. /\ client = "warmup" /\ now = wake
        /\ client' = "sending" /\ step \in 0 .. 2
        /\ \E delay \in FirstDelays : wake' = now + delay
    BY <1>7 DEF WarmupOver, BeginSending
  <2>2. UNCHANGED <<now, step, request_id, datagrams, receptions, first_rx>>
    BY <1>7 DEF WarmupOver
  <2>3. now' <= wake' /\ wake' <= 89
    BY <2>1, <2>2, FirstDelaysType
  <2> QED BY <2>1, <2>2, <2>3
<1>8. CASE ClientTurn
  <2>1. /\ client = "sending" /\ now = wake /\ step \in 0 .. 2
        /\ UNCHANGED <<now, step, receptions>>
    BY <1>8 DEF ClientTurn
  <2>2. SendRequest
    BY <1>8 DEF ClientTurn, NotReachable, Z1Reaches
  <2>3. /\ client' = "sending" /\ request_id' = request_id + 1
        /\ UNCHANGED first_rx
    BY <2>1, <2>2 DEF SendRequest, Sees
  <2>4. datagrams' = datagrams \cup {request_id}
    <3>1. IF route THEN Transmit ELSE SendFails
      BY <2>2 DEF SendRequest
    <3> QED BY <3>1, SendOrFail DEF Z1Reaches
  <2>5. datagrams' = {1} => request_id = 1
    BY <2>4
  <2> QED BY <2>1, <2>3, <2>5
<1>9. ASSUME NEW n \in datagrams, NEW again \in BOOLEAN,
             ServerReceive(n, again)
      PROVE  Z1Inv'
  <2>1. /\ UNCHANGED <<now, step, client, wake, request_id>>
        /\ step \in 0 .. 2 /\ first_rx'
        /\ datagrams' \subseteq datagrams
    BY <1>9, ReceiveFacts DEF ServerReceive, SeesReception
  <2>2. server' = "on" => server = "on"
    BY <1>9 DEF ServerReceive
  <2>3. server = "on" /\ datagrams' = {1} => datagrams = {1}
    BY <2>1 DEF OrderInv, Z1Reaches
  <2> QED BY <2>1, <2>2, <2>3
<1>10. CASE StopServer \/ Unheard
  BY <1>10 DEF StopServer, Unheard
<1>11. CASE Advance
  <2>1. /\ datagrams = {} /\ step \in 0 .. 2
        /\ UNCHANGED <<step, client, wake, request_id, datagrams, receptions,
                       first_rx>>
    BY <1>11 DEF Advance
  <2>2. ClientWaits => now' <= wake
    BY <1>11 DEF Advance, Deadlines
  <2>3. client = "warmup" => now' <= wake
    BY <2>2 DEF ClientWaits
  <2>4. client = "sending" /\ request_id = 1 => now' <= wake
    BY <2>2, ScheduleAssumption DEF ClientWaits
  <2>5. datagrams' = {} /\ step' = step
    BY <2>1
  <2>6. client' = "warmup" => wake' = 80 /\ now' <= 80 /\ step' \in 0 .. 2
    BY <2>1, <2>3
  <2>7. client' = "sending" /\ request_id' = 1 =>
          now' <= wake' /\ wake' <= 89 /\ step' \in 0 .. 2
    BY <2>1, <2>4
  <2>8. /\ client' # "waiting"
        /\ client' = "off" <=> step' = 0
        /\ receptions' > 0 => first_rx'
    BY <2>1
  <2> QED BY <2>5, <2>6, <2>7, <2>8
<1>12. CASE LateObservation \/ verify
  BY <1>1, <1>12 DEF LateObservation, verify
<1>13. CASE UNCHANGED vars
  BY <1>1, <1>13 DEF vars
<1> QED
  BY <1>2, <1>3, <1>4, <1>5, <1>6, <1>7, <1>8, <1>9, <1>10, <1>11, <1>12,
     <1>13 DEF Next

(* The cell of a Z1 never passes when its client finds a route and its     *)
(* requests arrive, whatever the random delay: the checker expects silence *)
(* from a client that does not wait for the command (validation.py:208-216, *)
(* 244-247; udp-client.c:84-100).                                          *)
THEOREM Z1NeverPasses ==
  ASSUME N_REQUESTS > 0
  PROVE  Spec => [](Z1Reaches => verdict # "PASSED")
<1>1. TypeInv /\ CountInv /\ OrderInv /\ Z1Inv /\ [Next]_vars => Z1Inv'
  BY NextZ1Inv
<1>2. TypeInv /\ CountInv /\ OrderInv /\ Z1Inv /\ VerdictInv
        => (Z1Reaches => verdict # "PASSED")
  <2> SUFFICES ASSUME TypeInv, CountInv, OrderInv, Z1Inv, VerdictInv,
                      Z1Reaches, verdict = "PASSED"
               PROVE  FALSE
    OBVIOUS
  <2> USE DEF TypeInv, TypeOK, ClientPositions
  <2>1. step = 3 /\ ~first_rx
    BY ScheduleFacts
       DEF VerdictInv, Passes, Ended, expect_serial_write, Z1Reaches
  <2>2. receptions = 0 /\ request_id > 1 /\ datagrams # {1}
    BY <2>1, ScheduleFacts DEF Z1Inv, Ended, Z1Reaches, CountInv
  <2> QED BY <2>2 DEF OrderInv, Z1Reaches
<1> QED
  BY <1>1, <1>2, InitTypeInv, NextTypeInv, InitCountInv, NextCountInv,
     InitOrderInv, NextOrderInv, InitVerdictInv, NextVerdictInv, InitZ1Inv,
     PTL DEF Spec
=============================================================================
