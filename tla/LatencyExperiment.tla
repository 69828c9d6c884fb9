------------------------- MODULE LatencyExperiment -------------------------
(***************************************************************************)
(* The latency experiment (2-experiments-latencies): Contiki and RIOT      *)
(* clients number their requests, a server echoes them over a network that *)
(* loses and duplicates, and RttListener pairs the lines the clients       *)
(* print.                                                                  *)
(*                                                                         *)
(* The Contiki client runs one event at a time.  The RIOT client has two   *)
(* threads: the receiver may run between the line that announces a request *)
(* and the call that sends it.  The framework hands the lines of a node to *)
(* the listener in the order they were printed.                            *)
(***************************************************************************)
EXTENDS Integers, FiniteSets

CONSTANTS
  Clients,
  RiotClients,          \* the clients that run RIOT; the others run Contiki
  N_REQUESTS,
  Copied,               \* bound: the clients whose requests may arrive twice
  WarmupSuffices,       \* a client is reachable when its SEND_DELAY is over
  MaxOutages            \* bound: routes lost and restarts, of all clients

ASSUME ExperimentAssumption ==
  /\ RiotClients \subseteq Clients
  /\ Copied \subseteq Clients
  /\ N_REQUESTS \in Nat
  /\ WarmupSuffices \in BOOLEAN
  /\ MaxOutages \in Nat

VARIABLES
  request_id,           \* number of the next request; n in the RIOT client
  at,                   \* where the client is between two events
  reachable,            \* node_is_reachable and get_root_ipaddr
  outages,
  boots,                \* restarts so far
  requests,             \* datagrams on their way to the server
  responses,            \* and back
  req,                  \* RttListener.req, by (node, seq)
  announced, received,  \* history: datagrams printed as sent, as received
  report                \* what experiment_ended counted

clientVars   == <<request_id, at, boots>>
routeVars    == <<reachable, outages>>
networkVars  == <<requests, responses>>
listenerVars == <<req, announced, received>>
vars == <<clientVars, routeVars, networkVars, listenerVars, report>>

-----------------------------------------------------------------------------
(* Values *)

(* "expired" is a Contiki client whose timer ran out while the root was    *)
(* unreachable; "midway" a RIOT client between printing and sending.       *)
Positions == {"warmup", "armed", "expired", "midway"}

NoTime == 0

(* The copies of a datagram, by the client, the number it carries, and the *)
(* life of the client that sent it (history).                              *)
Datagrams == [client : Clients, seq : Nat, boot : Nat]

(* A row of the listener: its times are numbered in the order in which the *)
(* row received them.  sentIn and answeredIn are history: the life of      *)
(* the client whose request and whose response the two times belong to.    *)
Rows == [request : Nat, response : Nat, sentIn : Nat, answeredIn : Nat]

NoReport == [sent |-> -1, delivered |-> -1]
Ended == report # NoReport

-----------------------------------------------------------------------------
(* RttListener *)

(* Rows told apart by the number of the request alone. *)
Key_SeqOnly(c, n) == <<CHOOSE d \in Clients : TRUE, n>>

Key(c, n) == <<c, n>>

(* The timestamp of a line, later than the times its row has.              *)
Timestamp(row) ==
  1 + IF row.request > row.response THEN row.request ELSE row.response

(* The next request of c, as the network carries it. *)
Request(c) == [client |-> c, seq |-> request_id[c], boot |-> boots[c]]

NewRow(c) ==
  [request |-> 1, response |-> NoTime, sentIn |-> boots[c], answeredIn |-> 0]

(* serial_message on the line "Sending request n" of c.  The file tells    *)
(* apart no lives; the history does.                                       *)
RecordRequest(c) ==
  LET k == Key(c, request_id[c])
      row == IF k \in DOMAIN req
             THEN [req[k] EXCEPT !.request = Timestamp(req[k]),
                                 !.sentIn = boots[c]]
             ELSE NewRow(c)
  IN /\ req' = [j \in DOMAIN req \cup {k} |-> IF j = k THEN row ELSE req[j]]
     /\ announced' = announced \cup {Request(c)}
     /\ UNCHANGED received

(* serial_message on a line "Received response n": the first one counts,   *)
(* and only if a request with its number was seen.                         *)
RecordResponse(m) ==
  LET k == Key(m.client, m.seq) IN
  /\ received' = received \cup {m}
  /\ UNCHANGED announced
  /\ IF k \in DOMAIN req /\ req[k].response = NoTime
     THEN req' = [req EXCEPT ![k].response = Timestamp(req[k]),
                             ![k].answeredIn = m.boot]
     ELSE UNCHANGED req

(* The summary; the file holds the rows themselves.  The nodes are gone,   *)
(* with what was on its way.                                               *)
experiment_ended ==
  /\ ~Ended
  /\ report' =
       [sent |-> Cardinality(DOMAIN req),
        delivered |->
          Cardinality({k \in DOMAIN req : req[k].response # NoTime})]
  /\ requests' = {}
  /\ responses' = {}
  /\ UNCHANGED <<clientVars, routeVars, listenerVars>>

-----------------------------------------------------------------------------
(* The clients *)

MoreToSend_OneMore(c) == request_id[c] <= N_REQUESTS + 1

(* Condition of the loop of both clients. *)
MoreToSend(c) == request_id[c] <= N_REQUESTS

(* simple_udp_sendto and sock_udp_send, which may fail. *)
Transmit(c, ok) ==
  /\ requests' = IF ok THEN requests \cup {Request(c)} ELSE requests
  /\ UNCHANGED responses

(* Z1's 30 s, SEND_DELAY, or the command "send-data", and the random delay *)
(* that follows.                                                           *)
Start(c) ==
  /\ at[c] = "warmup"
  /\ WarmupSuffices => reachable[c]
  /\ at' = [at EXCEPT ![c] = "armed"]
  /\ UNCHANGED <<request_id, boots, routeVars, networkVars, listenerVars,
                 report>>

Rearmed_Never == "expired"

(* The timer is set again before the request is sent. *)
Rearmed == "armed"

(* One turn of the Contiki loop.  Without a route nothing is set again. *)
ContikiTurn(c) ==
  /\ MoreToSend(c)
  /\ \/ /\ reachable[c]
        /\ \E ok \in BOOLEAN : Transmit(c, ok)
        /\ RecordRequest(c)
        /\ request_id' = [request_id EXCEPT ![c] = @ + 1]
        /\ at' = [at EXCEPT ![c] = Rearmed]
     \/ /\ ~reachable[c]
        /\ at' = [at EXCEPT ![c] = "expired"]
        /\ UNCHANGED <<request_id, networkVars, listenerVars>>
  /\ UNCHANGED <<boots, routeVars, report>>

(* periodic_timer expires. *)
TimerEvent(c) ==
  /\ c \notin RiotClients
  /\ at[c] = "armed"
  /\ ContikiTurn(c)

(* Any other event of the process, such as a line on its serial port: it   *)
(* ends the wait only when the timer has expired before.                   *)
OtherEvent(c) ==
  /\ c \notin RiotClients
  /\ at[c] = "expired"
  /\ ContikiTurn(c)

RiotOrder_SendFirst == <<"send", "print">>

(* The loop of the RIOT client: print, then send. *)
RiotOrder == <<"print", "send">>

RiotDo(c, step, ok) ==
  \/ /\ step = "print"
     /\ RecordRequest(c)
     /\ UNCHANGED networkVars
  \/ /\ step = "send"
     /\ Transmit(c, ok)
     /\ UNCHANGED listenerVars

(* As the other errors of main: a failed send returns from it. *)
AfterSend_Return(ok) == IF ok THEN "armed" ELSE "expired"

(* A failed send is printed, and the loop goes on. *)
AfterSend(ok) == "armed"

RiotBegin(c) ==
  /\ c \in RiotClients
  /\ at[c] = "armed"
  /\ MoreToSend(c)
  /\ \E ok \in BOOLEAN : RiotDo(c, RiotOrder[1], ok)
  /\ at' = [at EXCEPT ![c] = "midway"]
  /\ UNCHANGED <<request_id, boots, routeVars, report>>

(* The send, n++ and the sleep to the next wakeup. *)
RiotEnd(c) ==
  /\ at[c] = "midway"
  /\ \E ok \in BOOLEAN :
       /\ RiotDo(c, RiotOrder[2], ok)
       /\ at' = [at EXCEPT ![c] = AfterSend(ok)]
  /\ request_id' = [request_id EXCEPT ![c] = @ + 1]
  /\ UNCHANGED <<boots, routeVars, report>>

(* udp_rx_callback and recv_thread print the response.  A copy may stay on *)
(* its way: a frame whose ACK was lost is sent again.                      *)
ClientReceive(m, again) ==
  /\ m \in responses
  /\ responses' = IF again THEN responses ELSE responses \ {m}
  /\ RecordResponse(m)
  /\ UNCHANGED <<requests, clientVars, routeVars, report>>

(* A client restarts with its first number; what is on its way stays so. *)
Reboot(c) ==
  /\ outages < MaxOutages
  /\ outages' = outages + 1
  /\ boots' = [boots EXCEPT ![c] = @ + 1]
  /\ request_id' = [request_id EXCEPT ![c] = 1]
  /\ at' = [at EXCEPT ![c] = "warmup"]
  /\ reachable' = [reachable EXCEPT ![c] = FALSE]
  /\ UNCHANGED <<networkVars, listenerVars, report>>

-----------------------------------------------------------------------------
(* The server and the network *)

(* The reply carries the payload of the request; it may fail.              *)
Echo(m) == responses' \in {responses, responses \cup {m}}

(* The server prints what it receives and echoes it.  Its own lines match  *)
(* neither pattern of the listener: to a client, a request that arrived    *)
(* twice is a response that may arrive twice.                              *)
ServerReceive(m, again) ==
  /\ m \in requests
  /\ again => m.client \in Copied
  /\ requests' = IF again THEN requests ELSE requests \ {m}
  /\ Echo(m)
  /\ UNCHANGED <<clientVars, routeVars, listenerVars, report>>

Lose ==
  /\ ~Ended
  /\ \/ /\ \E m \in requests : requests' = requests \ {m}
        /\ UNCHANGED responses
     \/ /\ \E m \in responses : responses' = responses \ {m}
        /\ UNCHANGED requests
  /\ UNCHANGED <<clientVars, routeVars, listenerVars, report>>

Join(c) ==
  /\ ~reachable[c]
  /\ reachable' = [reachable EXCEPT ![c] = TRUE]
  /\ UNCHANGED <<outages, clientVars, networkVars, listenerVars, report>>

LoseRoute(c) ==
  /\ reachable[c]
  /\ outages < MaxOutages
  /\ outages' = outages + 1
  /\ reachable' = [reachable EXCEPT ![c] = FALSE]
  /\ UNCHANGED <<clientVars, networkVars, listenerVars, report>>

-----------------------------------------------------------------------------
Init ==
  /\ request_id = [c \in Clients |-> 1]
  /\ at = [c \in Clients |-> "warmup"]
  /\ reachable = [c \in Clients |-> FALSE]
  /\ outages = 0
  /\ boots = [c \in Clients |-> 0]
  /\ requests = {}
  /\ responses = {}
  /\ req = [k \in {} |-> NoTime]
  /\ announced = {}
  /\ received = {}
  /\ report = NoReport

(* What the scheduler of a client owes it. *)
ClientStep(c) ==
  /\ ~Ended
  /\ Start(c) \/ TimerEvent(c) \/ RiotBegin(c) \/ RiotEnd(c)

Rejoin(c) == ~Ended /\ Join(c)

Upset(c) ==
  /\ ~Ended
  /\ OtherEvent(c) \/ Reboot(c) \/ LoseRoute(c)

Delivery(again) ==
  /\ ~Ended
  /\ \/ \E m \in requests : ServerReceive(m, again)
     \/ \E m \in responses : ClientReceive(m, again)

Next ==
  \/ \E c \in Clients : ClientStep(c) \/ Rejoin(c) \/ Upset(c)
  \/ \E again \in BOOLEAN : Delivery(again)
  \/ Lose
  \/ experiment_ended

Spec == Init /\ [][Next]_vars

(* Timers expire, threads run, and a client that is out of reach joins     *)
(* again.  No other event is promised to a client.                         *)
Fairness ==
  \A c \in Clients :
    /\ WF_vars(ClientStep(c))
    /\ WF_vars(Rejoin(c))

FairSpec == Spec /\ Fairness

-----------------------------------------------------------------------------
(* Properties *)

(* Type correctness; no client goes beyond N_REQUESTS. *)
TypeOK ==
  /\ request_id \in [Clients -> 1 .. N_REQUESTS + 1]
  /\ at \in [Clients -> Positions]
  /\ reachable \in [Clients -> BOOLEAN]
  /\ outages \in 0 .. MaxOutages
  /\ boots \in [Clients -> Nat]
  /\ requests \subseteq Datagrams
  /\ responses \subseteq Datagrams
  /\ DOMAIN req \subseteq Clients \X Nat
  /\ \A k \in DOMAIN req : req[k] \in Rows
  /\ announced \subseteq Datagrams
  /\ received \subseteq Datagrams
  /\ report \in [sent : Int, delivered : Int]

(* A latency of the file is the time from a request to its own response:   *)
(* a row whose two times belong to one life of the client has them in      *)
(* order, and only a restart brings times of two lives together            *)
(* (RttListener).                                                          *)
RowIsLatency ==
  \A k \in DOMAIN req :
    req[k].response # NoTime =>
      \/ /\ req[k].sentIn = req[k].answeredIn
         /\ req[k].request < req[k].response
      \/ /\ req[k].sentIn # req[k].answeredIn
         /\ boots[k[1]] > 0

(* The members of S whose number an earlier life of the client used in S. *)
Repeated(S) ==
  {m \in S :
     \E e \in S : e.client = m.client /\ e.seq = m.seq /\ e.boot < m.boot}

(* The delivery ratio is about what happened (experiment_ended): every     *)
(* response counted answers a request its client announced in the same     *)
(* life, before; a request and a response that were announced and received *)
(* are left out only if an earlier life of the client had used the number; *)
(* and nothing is left out of an experiment in which no client restarted.  *)
PdrHonest ==
  Ended =>
    /\ received \subseteq announced
    /\ report.sent = Cardinality(announced \ Repeated(announced))
    /\ report.delivered = Cardinality(received \ Repeated(received))
    /\ (\A c \in Clients : boots[c] = 0) =>
         /\ report.sent = Cardinality(announced)
         /\ report.delivered = Cardinality(received)

(* A RIOT client sends all its requests, whatever happens to its route, and *)
(* a Contiki client whose route is there from its first expiry on: no      *)
(* failed send, loss or restart stops the loop (udp-client.c 107-129,      *)
(* main.c 189-211), unless the experiment ends before.                     *)
RequestsSentOnRoute ==
  \A c \in Clients :
    c \in RiotClients \/ [](at[c] # "warmup" => reachable[c]) =>
      <>(Ended \/ request_id[c] > N_REQUESTS)

(* Every client sends all its requests, unless the experiment ends before  *)
(* ("every client sends a request every 10s", README.md).                  *)
RequestsSent ==
  \A c \in Clients : <>(Ended \/ request_id[c] > N_REQUESTS)
=============================================================================
