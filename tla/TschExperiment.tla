--------------------------- MODULE TschExperiment ---------------------------
(***************************************************************************)
(* The TSCH experiment (3-experiment-tsch): nodes that join, send to the   *)
(* coordinator, fall out of the network and rejoin, and the TschListener   *)
(* of experiment_tsch.py, which counts what their lines say.               *)
(*                                                                         *)
(* The application does not yield between the call of simple_udp_sendto    *)
(* and the line it prints next, but slots run in interrupts: the packet    *)
(* may reach the coordinator first.                                        *)
(***************************************************************************)
EXTENDS Integers, FiniteSets

CONSTANTS
  Nodes,       \* the clients; the coordinator is always up
  MaxTurns,    \* bound: expiries of a node's timer
  MaxReboots   \* bound: restarts of all nodes together

ASSUME NodesAssumption == IsFiniteSet(Nodes)
ASSUME BoundsAssumption == MaxTurns \in Nat /\ MaxReboots \in Nat

VARIABLES
  app,                   \* where node_process is
  periodic_timer,        \* armed or not
  turns,                 \* expiries so far
  sent_once,             \* history: has printed "S:" since it started
  mac,                   \* where tsch_process is
  reachable,             \* node_is_reachable and get_root_ipaddr
  in_flight,             \* packets queued or on the air
  reboots,
  ended,
  associated, sent, received,   \* TschListener
  lost,                  \* history: packets that will not arrive
  due,                   \* history: expiries with a packet sent, now or before
  forgotten,             \* history: restarts of an associated node
  unlogged               \* history: restarts between a send and its line

nodeVars     == <<app, periodic_timer, turns, sent_once>>
networkVars  == <<mac, reachable, in_flight, lost>>
listenerVars == <<ended, associated, sent, received>>
historyVars  == <<due, forgotten, unlogged, reboots>>
vars == <<nodeVars, networkVars, listenerVars, historyVars>>

(* "logging" is between simple_udp_sendto and LOG_INFO("S:"). *)
AppPositions == {"off", "waiting", "logging"}

(* "leaving": tsch_is_associated is cleared, the line is yet to come. *)
MacPositions == {"off", "joining", "associated", "leaving"}

Init ==
  /\ app = [n \in Nodes |-> "off"]
  /\ periodic_timer = [n \in Nodes |-> FALSE]
  /\ turns = [n \in Nodes |-> 0]
  /\ sent_once = [n \in Nodes |-> FALSE]
  /\ mac = [n \in Nodes |-> "off"]
  /\ reachable = [n \in Nodes |-> FALSE]
  /\ in_flight = 0
  /\ reboots = 0
  /\ ended = FALSE
  /\ associated = 0
  /\ sent = 0
  /\ received = 0
  /\ lost = 0
  /\ due = 0
  /\ forgotten = 0
  /\ unlogged = 0

-----------------------------------------------------------------------------
(* Lines: what the listener makes of them. *)

(* The slot that leaves the network prints nothing of its own:             *)
(* TSCH_LOG_CONF_PER_SLOT is 0.                                            *)
SlotLine_Logged == -1
SlotLine == 0

-----------------------------------------------------------------------------
(* TSCH of a node *)

(* tsch_process has scanned and synchronized: "association done". *)
Associate(n) ==
  /\ ~ended /\ mac[n] = "joining"
  /\ mac' = [mac EXCEPT ![n] = "associated"]
  /\ associated' = associated + 1
  /\ UNCHANGED <<nodeVars, reachable, in_flight, lost,
                 ended, sent, received, historyVars>>

(* The slot operation finds the node desynchronized. *)
Disassociate(n) ==
  /\ ~ended /\ mac[n] = "associated"
  /\ mac' = [mac EXCEPT ![n] = "leaving"]
  /\ associated' = associated + SlotLine
  /\ UNCHANGED <<nodeVars, reachable, in_flight, lost,
                 ended, sent, received, historyVars>>

(* tsch_process notices: "leaving the network", and scans again. *)
Leave(n) ==
  /\ ~ended /\ mac[n] = "leaving"
  /\ mac' = [mac EXCEPT ![n] = "joining"]
  /\ associated' = associated - 1
  /\ UNCHANGED <<nodeVars, reachable, in_flight, lost,
                 ended, sent, received, historyVars>>

(* RPL: a route needs the network to be found, not to be kept. *)
FindRoute(n) ==
  /\ ~ended /\ mac[n] = "associated" /\ ~reachable[n]
  /\ reachable' = [reachable EXCEPT ![n] = TRUE]
  /\ UNCHANGED <<nodeVars, mac, in_flight, lost, listenerVars, historyVars>>

LoseRoute(n) ==
  /\ ~ended /\ reachable[n]
  /\ reachable' = [reachable EXCEPT ![n] = FALSE]
  /\ UNCHANGED <<nodeVars, mac, in_flight, lost, listenerVars, historyVars>>

(* The retries of a packet are exhausted, or its queue is flushed. *)
Lose ==
  /\ ~ended /\ in_flight > 0
  /\ in_flight' = in_flight - 1
  /\ lost' = lost + 1
  /\ UNCHANGED <<nodeVars, mac, reachable, listenerVars, historyVars>>

-----------------------------------------------------------------------------
(* node_process *)

(* StartNodeAction; the process arms its timer and turns the MAC on. *)
Start(n) ==
  /\ ~ended /\ app[n] = "off"
  /\ app' = [app EXCEPT ![n] = "waiting"]
  /\ periodic_timer' = [periodic_timer EXCEPT ![n] = TRUE]
  /\ mac' = [mac EXCEPT ![n] = "joining"]
  /\ UNCHANGED <<turns, sent_once, reachable, in_flight, lost, listenerVars,
                 historyVars>>

(* The timer is armed again at the end of a turn, sent or not.             *)
Rearmed_OnSend(sends) == sends
Rearmed(sends) == TRUE

Expires(n) ==
  /\ ~ended /\ app[n] = "waiting" /\ periodic_timer[n]
  /\ turns[n] < MaxTurns
  /\ turns' = [turns EXCEPT ![n] = @ + 1]

(* A turn with a route: the packet goes to the MAC, which drops it when    *)
(* the node is not in the network.                                         *)
SendTo(n) ==
  /\ Expires(n) /\ reachable[n]
  /\ app' = [app EXCEPT ![n] = "logging"]
  /\ periodic_timer' = [periodic_timer EXCEPT ![n] = FALSE]
  /\ \/ mac[n] = "associated" /\ in_flight' = in_flight + 1 /\ lost' = lost
     \/ mac[n] # "associated" /\ in_flight' = in_flight /\ lost' = lost + 1
  /\ due' = due + 1
  /\ UNCHANGED <<sent_once, mac, reachable, listenerVars,
                 forgotten, unlogged, reboots>>

(* "S:<uptime>:<address>", whatever became of the packet. *)
Counted_InNetwork(n) == IF mac[n] = "associated" THEN 1 ELSE 0
Counted(n) == 1

LogSent(n) ==
  /\ ~ended /\ app[n] = "logging"
  /\ app' = [app EXCEPT ![n] = "waiting"]
  /\ periodic_timer' = [periodic_timer EXCEPT ![n] = Rearmed(TRUE)]
  /\ sent_once' = [sent_once EXCEPT ![n] = TRUE]
  /\ sent' = sent + Counted(n)
  /\ UNCHANGED <<turns, networkVars, ended, associated, received,
                 historyVars>>

(* sent_counter is an automatic variable: each time the process is resumed *)
(* it is zero again.                                                       *)
sent_counter(n) == 0

(* A turn without a route.  "S:unreachable" would count as sent. *)
LogUnreachable(n) ==
  /\ Expires(n) /\ ~reachable[n]
  /\ periodic_timer' = [periodic_timer EXCEPT ![n] = Rearmed(FALSE)]
  /\ sent' = IF sent_counter(n) > 0 THEN sent + 1 ELSE sent
  /\ due' = IF sent_once[n] THEN due + 1 ELSE due
  /\ UNCHANGED <<app, sent_once, networkVars, ended, associated, received,
                 forgotten, unlogged, reboots>>

(* A node restarts by itself; the listener is not told. *)
Reboot(n) ==
  /\ ~ended /\ app[n] # "off"
  /\ reboots < MaxReboots
  /\ reboots' = reboots + 1
  /\ app' = [app EXCEPT ![n] = "waiting"]
  /\ periodic_timer' = [periodic_timer EXCEPT ![n] = TRUE]
  /\ sent_once' = [sent_once EXCEPT ![n] = FALSE]
  /\ mac' = [mac EXCEPT ![n] = "joining"]
  /\ reachable' = [reachable EXCEPT ![n] = FALSE]
  /\ forgotten' = IF mac[n] = "joining" THEN forgotten ELSE forgotten + 1
  /\ unlogged' = IF app[n] = "logging" THEN unlogged + 1 ELSE unlogged
  /\ UNCHANGED <<turns, in_flight, lost, listenerVars, due>>

-----------------------------------------------------------------------------
(* The coordinator's udp_rx_callback prints "R:". *)
Receive ==
  /\ ~ended /\ in_flight > 0
  /\ in_flight' = in_flight - 1
  /\ received' = received + 1
  /\ UNCHANGED <<nodeVars, mac, reachable, lost, ended, associated, sent,
                 historyVars>>

(* StopExperimentAction; experiment_ended divides received by sent. *)
StopExperiment ==
  /\ ~ended
  /\ ended' = TRUE
  /\ UNCHANGED <<nodeVars, networkVars, associated, sent, received,
                 historyVars>>

-----------------------------------------------------------------------------

Process(n) == SendTo(n) \/ LogSent(n) \/ LogUnreachable(n)

Next ==
  \/ \E n \in Nodes :
       \/ Start(n) \/ Process(n) \/ Reboot(n)
       \/ Associate(n) \/ Disassociate(n) \/ Leave(n)
       \/ FindRoute(n) \/ LoseRoute(n)
  \/ Lose \/ Receive
  \/ StopExperiment

Spec == Init /\ [][Next]_vars

(* The event timer of a node posts its event, and its process runs. *)
FairSpec == Spec /\ \A n \in Nodes : WF_vars(Process(n))

-----------------------------------------------------------------------------
(* Properties *)

(* Every variable has its type. *)
TypeOK ==
  /\ app \in [Nodes -> AppPositions]
  /\ periodic_timer \in [Nodes -> BOOLEAN]
  /\ turns \in [Nodes -> 0 .. MaxTurns]
  /\ sent_once \in [Nodes -> BOOLEAN]
  /\ mac \in [Nodes -> MacPositions]
  /\ reachable \in [Nodes -> BOOLEAN]
  /\ in_flight \in Nat
  /\ reboots \in 0 .. MaxReboots
  /\ ended \in BOOLEAN
  /\ associated \in Nat
  /\ sent \in Nat
  /\ received \in Nat
  /\ lost \in Nat
  /\ due \in Nat
  /\ forgotten \in Nat
  /\ unlogged \in Nat

InNetwork == {n \in Nodes : mac[n] \in {"associated", "leaving"}}
Logging   == {n \in Nodes : app[n] = "logging"}

(* The count of synchronized nodes is that of the nodes in the network,    *)
(* those that have yet to say they left included, plus one for each node   *)
(* that ever restarted inside it: lines alone cannot tell, and the surplus *)
(* never goes away (experiment_tsch.py:48-51).                             *)
AssociatedCount == associated = Cardinality(InNetwork) + forgotten

(* No packet is counted twice nor left out, in whatever order the lines of *)
(* the sender and of the coordinator come: what was counted as sent, or    *)
(* will be, was received, lost, or is on its way.  So received exceeds     *)
(* sent by no more than the lines yet to be printed (node.c:116-117,       *)
(* coordinator.c:60-84, experiment_tsch.py:52-58).                         *)
DeliveryAccounts ==
  sent + Cardinality(Logging) + unlogged = received + lost + in_flight

(* A started node goes on to use every turn it has, through outages,       *)
(* disassociations and restarts: its timer is armed again whatever a turn  *)
(* did (node.c:109-141).                                                   *)
KeepsSending ==
  \A n \in Nodes : app[n] # "off" ~> turns[n] = MaxTurns \/ ended

(* "the global packet delivery ratio" (README.md:17 of the experiment)     *)
(* with a line for every packet a node was due to send: once a node has    *)
(* sent, it prints "S:unreachable" at an expiry without a route            *)
(* (node.c:129-131).                                                       *)
UnreachableCounted ==
  due = sent + Cardinality(Logging) + unlogged
=============================================================================
