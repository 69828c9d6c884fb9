------------------------- MODULE ValidationSchedule -------------------------
(***************************************************************************)
(* The capability validation (1-validation): the schedule of actions of    *)
(* validation.py, the clients it drives, and the verdict of its Checker.   *)
(*                                                                         *)
(* Time counts in half seconds, the precision of the jitter of the         *)
(* clients; it jumps to the next instant at which something is due.  A     *)
(* datagram takes much less than that: time waits for it.                  *)
(***************************************************************************)
EXTENDS Integers, Sequences

CONSTANTS
  Cells,        \* cells of the matrix: [os, z1]
  N_REQUESTS,   \* requests a client sends
  LineSize,     \* sizeof(line) in wait_for_send_data_command
  Command,      \* the line "send-data", as a sequence of bytes
  Noise,        \* bytes the UART may bring before the command
  StopTimes,    \* how long StopNodeAction may take
  MaxNoise,     \* bound: bytes of noise in a line
  MaxLosses,    \* bound: datagrams lost and frames not captured
  MaxCopies,    \* bound: datagrams received once more
  MaxLate       \* bound: observations after the end

ASSUME ScheduleAssumption ==
  /\ \A c \in Cells :
       /\ c.os \in {"contiki", "riot"} /\ c.z1 \in BOOLEAN
       /\ c.z1 => c.os = "contiki"
  /\ N_REQUESTS \in Nat
  /\ LineSize \in Nat
  /\ Command \in Seq(Nat)
  /\ 0 < Len(Command) /\ Len(Command) < LineSize
  /\ StopTimes \subseteq Nat
  /\ MaxNoise \in Nat
  /\ MaxLosses \in Nat
  /\ MaxCopies \in Nat
  /\ MaxLate \in Nat

VARIABLES
  cell,          \* what is being validated
  now,
  step,          \* actions of the schedule already executed
  client,
  wake,          \* when the client's timer expires
  request_id,    \* number of the client's next request
  route,         \* the client can reach the server
  line,          \* what the RIOT client has read of the current line
  noise,         \* history: bytes of noise in the current line
  server,
  stop_at,       \* when StopNodeAction takes effect
  datagrams,     \* requests on their way
  lost,          \* history: requests refused or lost on their way
  missed,        \* history: request frames not captured
  copies,        \* history: copies of a request the server was to receive
  receptions,    \* history: requests received before the stop was ordered
  send_data, first_serial, first_rx, radio,      \* Checker: seen or not
  client_max, server_max, after_end,
  verdict

clientVars  == <<client, wake, request_id, route, line, noise>>
serverVars  == <<server, stop_at, receptions>>
networkVars == <<datagrams, lost, missed, copies>>
checkerVars == <<send_data, first_serial, first_rx, radio,
                 client_max, server_max, after_end>>
vars == <<cell, now, step, clientVars, serverVars, networkVars, checkerVars,
          verdict>>

-----------------------------------------------------------------------------
(* The schedule: start the client, write the command, end. *)
Schedule == <<20, 60, 120>>
Ended == step = Len(Schedule)
Due(n) == step = n - 1 /\ now = Schedule[n]

(* "expired": a Contiki client whose timer ran out without a route. *)
ClientPositions == {"off", "warmup", "waiting", "sending", "expired"}

expect_serial_write == ~cell.z1

Intervals_RiotForAll == 18 .. 21

(* Time between two requests: SEND_INTERVAL is 5 s in Contiki, 10 s in     *)
(* RIOT, each with a jitter of up to one second on either side.            *)
Intervals == IF cell.os = "contiki" THEN 8 .. 11 ELSE 18 .. 21

(* Random delay before the first request; RIOT has none. *)
FirstDelays == IF cell.os = "contiki" THEN 0 .. 9 ELSE {0}

Larger(a, b) == IF a < b THEN b ELSE a

Init ==
  /\ cell \in Cells
  /\ now = 0
  /\ step = 0
  /\ client = "off"
  /\ wake = 0
  /\ request_id = 1
  /\ route = FALSE
  /\ line = << >>
  /\ noise = 0
  /\ server = "on"
  /\ stop_at = 0
  /\ datagrams = {}
  /\ lost = 0
  /\ missed = 0
  /\ copies = 0
  /\ receptions = 0
  /\ send_data = FALSE
  /\ first_serial = FALSE
  /\ first_rx = FALSE
  /\ radio = FALSE
  /\ client_max = 0
  /\ server_max = 0
  /\ after_end = 0
  /\ verdict = "none"

-----------------------------------------------------------------------------
(* Checker.serial_message and radio_packet, by what the lines say.         *)

Sees(seen_send_data, seen_client_max) ==
  /\ first_serial' = TRUE
  /\ send_data' = (send_data \/ seen_send_data)
  /\ client_max' = Larger(client_max, seen_client_max)
  /\ UNCHANGED <<first_rx, server_max, after_end>>

(* "Received request 'hello n'" *)
SeesReception(n) ==
  /\ first_serial' = TRUE
  /\ first_rx' = TRUE
  /\ server_max' = Larger(server_max, n)
  /\ UNCHANGED <<send_data, radio, client_max, after_end>>

-----------------------------------------------------------------------------
(* The clients *)

(* The RIOT client prints at its start a line that holds the command:      *)
(* "Waiting for 'send-data' command on UART...".                           *)
NamesCommandAtStart == cell.os = "riot"

(* StartNodeAction; a client on a Z1 waits for a timer, any other for the  *)
(* command.                                                                *)
StartClient ==
  /\ Due(1)
  /\ step' = 1
  /\ client' = IF cell.z1 THEN "warmup" ELSE "waiting"
  /\ wake' = now + 60
  /\ Sees(NamesCommandAtStart, 0) /\ UNCHANGED radio
  /\ UNCHANGED <<cell, now, request_id, route, line, noise, serverVars,
                 networkVars, verdict>>

(* The client joins the server's network. *)
Join ==
  /\ client # "off" /\ ~route /\ ~Ended
  /\ route' = TRUE
  /\ UNCHANGED <<cell, now, step, client, wake, request_id, line, noise,
                 serverVars, networkVars, checkerVars, verdict>>

(* What is left of the line after a byte that does not end it; one byte    *)
(* too many drops the line, itself included.                               *)
Reads_NoResync(l, byte) ==
  IF Len(l) < LineSize - 1 THEN Append(l, byte) ELSE l
Reads_OneMore(l, byte) ==
  IF Len(l) < LineSize THEN Append(l, byte) ELSE << >>
Reads(l, byte) ==
  IF Len(l) < LineSize - 1 THEN Append(l, byte) ELSE << >>

(* The line after a sequence of bytes without line end. *)
ReadsAll(l, bytes) ==
  LET after[i \in 0 .. Len(bytes)] ==
        IF i = 0 THEN l ELSE Reads(after[i - 1], bytes[i])
  IN  after[Len(bytes)]

(* A byte of noise, which may end the line: what is printed of an unknown  *)
(* line says nothing to the Checker.                                       *)
NoiseByte ==
  /\ client = "waiting" /\ cell.os = "riot" /\ step = 1
  /\ \/ /\ noise < MaxNoise
        /\ \E byte \in Noise : line' = Reads(line, byte)
        /\ noise' = noise + 1
     \/ /\ noise > 0
        /\ line' = << >>
        /\ noise' = 0
  /\ Sees(FALSE, 0) /\ UNCHANGED radio
  /\ UNCHANGED <<cell, now, step, client, wake, request_id, route,
                 serverVars, networkVars, verdict>>

(* The client's wait is over, and its first request is due. *)
BeginSending ==
  /\ client' = "sending"
  /\ \E delay \in FirstDelays : wake' = now + delay

(* SerialWriteAction: a line with the command reaches the client, and what *)
(* it read is echoed, known or not.  A Z1 in Cooja never sees it.          *)
SerialWrite ==
  /\ Due(2)
  /\ step' = 2
  /\ line' = << >>
  /\ LET whole == ReadsAll(line, Command)
         heard == whole = Command
         echoed == Len(line) + Len(Command) < LineSize
     IN  \/ /\ client = "waiting" /\ heard
            /\ BeginSending
            /\ Sees(echoed, 0) /\ UNCHANGED radio
         \/ /\ client = "waiting" /\ ~heard
            /\ Sees(echoed, 0) /\ UNCHANGED radio
            /\ UNCHANGED <<client, wake>>
         \/ /\ client # "waiting"
            /\ UNCHANGED <<client, wake, checkerVars>>
  /\ UNCHANGED <<cell, now, request_id, route, noise, serverVars,
                 networkVars, verdict>>

(* The 30 s of a Z1 are over. *)
WarmupOver ==
  /\ client = "warmup" /\ now = wake /\ ~Ended
  /\ BeginSending
  /\ UNCHANGED <<cell, now, step, request_id, route, line, noise, serverVars,
                 networkVars, checkerVars, verdict>>

(* A datagram is sent and captured, unless it is lost or missed. *)
Transmit ==
  \E arrives, captured \in BOOLEAN :
    /\ datagrams' = IF arrives THEN datagrams \cup {request_id} ELSE datagrams
    /\ lost' = IF arrives THEN lost ELSE lost + 1
    /\ missed' = IF captured THEN missed ELSE missed + 1
    /\ lost' + missed' <= MaxLosses
    /\ copies' = copies
    /\ radio' = (radio \/ captured)

SendFails ==
  /\ lost' = lost + 1
  /\ lost' + missed <= MaxLosses
  /\ UNCHANGED <<datagrams, missed, copies, radio>>

(* Without a route a Contiki client does not set its timer again ...       *)
NotReachable ==
  /\ cell.os = "contiki" /\ ~route
  /\ client' = "expired"
  /\ UNCHANGED <<wake, request_id, networkVars, checkerVars>>

(* ... and the send of a RIOT client fails. *)
SendRequest ==
  /\ cell.os = "riot" \/ route
  /\ client' = client
  /\ \E interval \in Intervals : wake' = now + interval
  /\ request_id' = request_id + 1
  /\ Sees(FALSE, request_id)
  /\ IF route THEN Transmit ELSE SendFails

(* One turn of the loop of either client. *)
ClientTurn ==
  /\ client = "sending" /\ now = wake /\ ~Ended
  /\ request_id <= N_REQUESTS
  /\ NotReachable \/ SendRequest
  /\ UNCHANGED <<cell, now, step, route, line, noise, serverVars, verdict>>

-----------------------------------------------------------------------------
(* The server *)

(* SerialReadTrigger: the line contains "hello 3"; no client comes to 30   *)
(* before the end.                                                         *)
Triggers_Beyond(n) == n > 3
Triggers_AnyHello(n) == TRUE
Triggers(n) == n = 3

(* The frame of a request is received; when its ACK is lost the client     *)
(* sends it again, and a copy of the request is still on its way.          *)
Receive(n, again) ==
  /\ again => copies < MaxCopies
  /\ copies' = IF again THEN copies + 1 ELSE copies
  /\ datagrams' = IF again THEN datagrams ELSE datagrams \ {n}
  /\ UNCHANGED <<lost, missed>>

(* The server prints a request.  The line may trigger StopNodeAction,      *)
(* which takes its time.                                                   *)
ServerReceive(n, again) ==
  /\ n \in datagrams
  /\ server # "off" /\ ~Ended
  /\ Receive(n, again)
  /\ SeesReception(n)
  /\ receptions' = IF server = "on" THEN receptions + 1 ELSE receptions
  /\ \/ /\ Triggers(n) /\ server = "on"
        /\ server' = "stopping"
        /\ \E time \in StopTimes : stop_at' = now + time
     \/ /\ ~Triggers(n) \/ server # "on"
        /\ UNCHANGED <<server, stop_at>>
  /\ UNCHANGED <<cell, now, step, clientVars, verdict>>

StopServer ==
  /\ server = "stopping" /\ now = stop_at /\ ~Ended
  /\ server' = "off"
  /\ datagrams' = {}
  /\ UNCHANGED <<cell, now, step, clientVars, stop_at, receptions, lost,
                 missed, copies, checkerVars, verdict>>

(* Nobody is there to receive. *)
Unheard ==
  /\ server = "off" /\ datagrams # {} /\ ~Ended
  /\ datagrams' = {}
  /\ UNCHANGED <<cell, now, step, clientVars, serverVars, lost, missed,
                 copies, checkerVars, verdict>>

-----------------------------------------------------------------------------
(* Time, the end, and the verdict *)

ClientWaits ==
  \/ client = "warmup"
  \/ client = "sending" /\ request_id <= N_REQUESTS

Deadlines ==
  {Schedule[step + 1]}
    \cup (IF ClientWaits THEN {wake} ELSE {})
    \cup (IF server = "stopping" THEN {stop_at} ELSE {})

Advance ==
  /\ ~Ended
  /\ datagrams = {}
  /\ now' \in Deadlines
  /\ \A deadline \in Deadlines : now < deadline /\ now' <= deadline
  /\ UNCHANGED <<cell, step, clientVars, serverVars, networkVars, checkerVars,
                 verdict>>

(* StopExperimentAction *)
End ==
  /\ Due(3)
  /\ step' = 3
  /\ UNCHANGED <<cell, now, clientVars, serverVars, networkVars, checkerVars,
                 verdict>>

(* A line or a frame handed over after experiment_ended. *)
LateObservation ==
  /\ Ended /\ verdict = "none"
  /\ after_end < MaxLate
  /\ after_end' = after_end + 1
  /\ UNCHANGED <<cell, now, step, clientVars, serverVars, networkVars,
                 send_data, first_serial, first_rx, radio, client_max,
                 server_max, verdict>>

(* The assertions of verify. *)
Passes ==
  /\ first_serial
  /\ after_end = 0
  /\ expect_serial_write =>
       /\ send_data /\ first_rx /\ radio
       /\ server_max = 3
       /\ client_max # 0 => client_max > server_max
  /\ ~expect_serial_write =>
       ~send_data /\ ~first_rx /\ server_max = 0

verify ==
  /\ Ended /\ verdict = "none"
  /\ verdict' = IF Passes THEN "PASSED" ELSE "FAILED"
  /\ UNCHANGED <<cell, now, step, clientVars, serverVars, networkVars,
                 checkerVars>>

Next ==
  \/ StartClient \/ SerialWrite \/ End
  \/ Join \/ NoiseByte \/ WarmupOver \/ ClientTurn
  \/ \E n \in datagrams, again \in BOOLEAN : ServerReceive(n, again)
  \/ StopServer \/ Unheard
  \/ Advance \/ LateObservation \/ verify

Spec == Init /\ [][Next]_vars

-----------------------------------------------------------------------------
(* Properties *)

(* Every variable has its type.  The line of the RIOT client keeps room    *)
(* for its end.                                                            *)
TypeOK ==
  /\ cell \in Cells
  /\ now \in 0 .. Schedule[3]
  /\ step \in 0 .. 3
  /\ client \in ClientPositions
  /\ wake \in Nat
  /\ request_id \in 1 .. N_REQUESTS + 1
  /\ route \in BOOLEAN
  /\ Len(line) < LineSize
  /\ noise \in 0 .. MaxNoise
  /\ server \in {"on", "stopping", "off"}
  /\ stop_at \in Nat
  /\ datagrams \subseteq 1 .. N_REQUESTS
  /\ lost \in 0 .. MaxLosses
  /\ missed \in 0 .. MaxLosses
  /\ copies \in 0 .. MaxCopies
  /\ receptions \in Nat
  /\ send_data \in BOOLEAN
  /\ first_serial \in BOOLEAN
  /\ first_rx \in BOOLEAN
  /\ radio \in BOOLEAN
  /\ client_max \in 0 .. N_REQUESTS
  /\ server_max \in 0 .. N_REQUESTS
  /\ after_end \in 0 .. MaxLate
  /\ verdict \in {"none", "PASSED", "FAILED"}

(* A cell that passes did what its verdict says: the client obeyed the     *)
(* command and sent a request after the third, and a request numbered 3    *)
(* stopped the server.  Every observation went through text that the nodes *)
(* print (validation.py:136-153, 188-207).  For RIOT it is the requests    *)
(* alone that show the command was obeyed: the assertion on its echo       *)
(* (lines 193-195) holds from the client's start on.                       *)
VerdictSound ==
  verdict = "PASSED" /\ expect_serial_write =>
    /\ client \in {"sending", "expired"}
    /\ request_id > 4
    /\ server # "on"
    /\ receptions > 0

(* A run without loss, noise or late output passes, whatever the random    *)
(* delays and the copies: the schedule leaves Contiki clients the time to  *)
(* reach their fourth request.  It does not for RIOT, where the fourth     *)
(* request may fall after the end (app-riot/udp-client/main.c:30,          *)
(* validation.py:241).                                                     *)
LosslessPasses ==
  verdict = "FAILED" =>
    \/ lost + missed + noise + after_end > 0
    \/ client = "expired"
    \/ cell.z1
    \/ cell.os = "riot" /\ client_max = 3

(* "fires at the third reception" (validation.py:199-200, 239-240): the    *)
(* trigger is the number in the text, so that without loss the stop comes  *)
(* at the third reception when no request is received twice, never before, *)
(* and later by no more than the copies received before it.                *)
StopAtThird ==
  lost = 0 =>
    IF server = "on" THEN receptions <= 2 + copies
                     ELSE receptions \in 3 .. 3 + copies

(* A RIOT client misses the command only when part of a line preceded it:  *)
(* a line longer than the buffer is dropped, and what follows it is read   *)
(* as a line of its own (app-riot/udp-client/main.c:99-117).               *)
CommandHeard ==
  step >= 2 /\ client = "waiting" => noise % LineSize # 0

(* "so the request stream never starts there" (validation.py:245-246, of   *)
(* the Z1 under Cooja).                                                    *)
SilentWithoutCommand ==
  ~expect_serial_write => client_max = 0
=============================================================================
