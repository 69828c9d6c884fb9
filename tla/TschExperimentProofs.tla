------------------------ MODULE TschExperimentProofs ------------------------
(***************************************************************************)
(* The counters of TschListener, for any finite set of nodes and any       *)
(* number of turns and restarts.                                           *)
(*                                                                         *)
(* The two balances are inductive with the types: each line moves one node *)
(* in or out of a set, or one packet from one account to another.  That    *)
(* the counter of associated nodes stays a natural number follows from its *)
(* balance only.                                                           *)
(***************************************************************************)
EXTENDS TschExperiment, FiniteSetTheorems, TLAPS

(* The MAC is turned on by the process, and never off. *)
OffInv == \A n \in Nodes : app[n] = "off" <=> mac[n] = "off"

IInv == TypeOK /\ OffInv /\ AssociatedCount /\ DeliveryAccounts

-----------------------------------------------------------------------------
(* Counting nodes *)

LEMMA NodeSetFinite ==
  ASSUME NEW S \in SUBSET Nodes
  PROVE  IsFiniteSet(S) /\ Cardinality(S) \in Nat
  BY NodesAssumption, FS_Subset, FS_CardinalityType

(* A node enters a set of nodes, or leaves it. *)
LEMMA Enter ==
  ASSUME NEW S \in SUBSET Nodes, NEW T, NEW n \in Nodes,
         n \notin S, T = S \cup {n}
  PROVE  Cardinality(T) = Cardinality(S) + 1
  BY NodeSetFinite, FS_AddElement

LEMMA Depart ==
  ASSUME NEW S \in SUBSET Nodes, NEW T, NEW n \in Nodes,
         n \in S, T = S \ {n}
  PROVE  Cardinality(T) = Cardinality(S) - 1
  BY NodeSetFinite, FS_RemoveElement

LEMMA NetworkSet ==
  ASSUME TypeOK, NEW n \in Nodes, NEW p, mac' = [mac EXCEPT ![n] = p]
  PROVE  InNetwork' = IF p \in {"associated", "leaving"}
                      THEN InNetwork \cup {n} ELSE InNetwork \ {n}
  BY DEF TypeOK, InNetwork

LEMMA LoggingSet ==
  ASSUME TypeOK, NEW n \in Nodes, NEW p, app' = [app EXCEPT ![n] = p]
  PROVE  Logging' = IF p = "logging"
                    THEN Logging \cup {n} ELSE Logging \ {n}
  BY DEF TypeOK, Logging

-----------------------------------------------------------------------------
LEMMA InitInv == Init => IInv
<1> SUFFICES ASSUME Init PROVE IInv
  OBVIOUS
<1>1. InNetwork = {} /\ Logging = {}
  BY DEF Init, InNetwork, Logging
<1>2. Cardinality({}) = 0
  BY FS_EmptySet
<1>3. /\ periodic_timer \in [Nodes -> BOOLEAN]
      /\ sent_once \in [Nodes -> BOOLEAN]
      /\ reachable \in [Nodes -> BOOLEAN]
      /\ ended \in BOOLEAN
  BY Zenon DEF Init
<1> QED
  BY <1>1, <1>2, <1>3, BoundsAssumption
     DEF Init, IInv, TypeOK, OffInv, AssociatedCount, DeliveryAccounts, AppPositions,
         MacPositions

(* Types, apart from the counter that only its balance keeps natural. *)
LEMMA NextTypes ==
  ASSUME IInv, [Next]_vars, associated' \in Nat
  PROVE  TypeOK'
<1> USE BoundsAssumption
    DEF IInv, TypeOK, AppPositions, MacPositions, nodeVars, networkVars,
        listenerVars, historyVars
<1>1. ASSUME NEW n \in Nodes, Start(n) PROVE TypeOK'
  <2>1. periodic_timer' \in [Nodes -> BOOLEAN]
    BY <1>1, Zenon DEF Start
  <2> QED BY <1>1, <2>1 DEF Start
<1>2. ASSUME NEW n \in Nodes, SendTo(n) PROVE TypeOK'
  <2>1. periodic_timer' \in [Nodes -> BOOLEAN]
    BY <1>2, Zenon DEF SendTo
  <2>2. turns' \in [Nodes -> 0 .. MaxTurns]
    BY <1>2 DEF SendTo, Expires
  <2> QED BY <1>2, <2>1, <2>2 DEF SendTo
<1>3. ASSUME NEW n \in Nodes, LogSent(n) PROVE TypeOK'
  <2>1. /\ periodic_timer' \in [Nodes -> BOOLEAN]
        /\ sent_once' \in [Nodes -> BOOLEAN]
    BY <1>3, Zenon DEF LogSent, Rearmed
  <2>2. sent' \in Nat /\ app' \in [Nodes -> AppPositions]
    BY <1>3 DEF LogSent, Counted
  <2> QED BY <1>3, <2>1, <2>2 DEF LogSent
<1>4. ASSUME NEW n \in Nodes, LogUnreachable(n) PROVE TypeOK'
  <2>1. periodic_timer' \in [Nodes -> BOOLEAN]
    BY <1>4, Zenon DEF LogUnreachable, Rearmed
  <2>2. turns' \in [Nodes -> 0 .. MaxTurns]
    BY <1>4 DEF LogUnreachable, Expires
  <2>3. sent' \in Nat /\ due' \in Nat
    BY <1>4 DEF LogUnreachable
  <2> QED BY <1>4, <2>1, <2>2, <2>3 DEF LogUnreachable
<1>5. ASSUME NEW n \in Nodes, Reboot(n) PROVE TypeOK'
  <2>1. /\ periodic_timer' \in [Nodes -> BOOLEAN]
        /\ sent_once' \in [Nodes -> BOOLEAN]
        /\ reachable' \in [Nodes -> BOOLEAN]
    BY <1>5, Zenon DEF Reboot
  <2>2. /\ app' \in [Nodes -> AppPositions]
        /\ mac' \in [Nodes -> MacPositions]
    BY <1>5 DEF Reboot
  <2>3. /\ forgotten' \in Nat /\ unlogged' \in Nat
        /\ reboots' \in 0 .. MaxReboots
    BY <1>5 DEF Reboot
  <2> QED BY <1>5, <2>1, <2>2, <2>3 DEF Reboot
<1>6. ASSUME NEW n \in Nodes,
             Associate(n) \/ Disassociate(n) \/ Leave(n)
      PROVE  TypeOK'
  BY <1>6 DEF Associate, Disassociate, Leave
<1>7. ASSUME NEW n \in Nodes, FindRoute(n) \/ LoseRoute(n) PROVE TypeOK'
  <2>1. reachable' \in [Nodes -> BOOLEAN]
    BY <1>7, Zenon DEF FindRoute, LoseRoute
  <2> QED BY <1>7, <2>1 DEF FindRoute, LoseRoute
<1>8. CASE Lose \/ Receive
  BY <1>8 DEF Lose, Receive
<1>9. CASE StopExperiment
  <2>1. ended' \in BOOLEAN
    BY <1>9, Zenon DEF StopExperiment
  <2> QED BY <1>9, <2>1 DEF StopExperiment
<1>10. CASE UNCHANGED vars
  BY <1>10 DEF vars
<1> QED
  BY <1>1, <1>2, <1>3, <1>4, <1>5, <1>6, <1>7, <1>8, <1>9, <1>10
     DEF Next, Process

(* The counter moves with the set of the nodes in the network, except that *)
(* a restart takes a node out of the set without a line.                   *)
LEMMA NextAssociated ==
  ASSUME IInv, [Next]_vars
  PROVE  associated' \in Nat /\ AssociatedCount'
<1> USE DEF IInv, nodeVars, networkVars, listenerVars, historyVars
<1>1. InNetwork \in SUBSET Nodes /\ Cardinality(InNetwork) \in Nat
  BY NodeSetFinite DEF InNetwork
<1>2. forgotten \in Nat /\ associated \in Nat
  BY DEF TypeOK
<1>3. CASE UNCHANGED <<mac, associated, forgotten>>
  BY <1>2, <1>3 DEF AssociatedCount, InNetwork
<1>4. ASSUME NEW n \in Nodes, Associate(n)
      PROVE  associated' \in Nat /\ AssociatedCount'
  <2>1. n \notin InNetwork
    BY <1>4 DEF Associate, InNetwork
  <2>2. InNetwork' = InNetwork \cup {n}
    BY <1>4, NetworkSet DEF Associate
  <2>3. Cardinality(InNetwork') = Cardinality(InNetwork) + 1
    BY <1>1, <2>1, <2>2, Enter
  <2> QED BY <1>1, <1>2, <1>4, <2>3 DEF Associate, AssociatedCount
<1>5. ASSUME NEW n \in Nodes, Disassociate(n)
      PROVE  associated' \in Nat /\ AssociatedCount'
  <2>1. n \in InNetwork
    BY <1>5 DEF Disassociate, InNetwork
  <2>2. InNetwork' = InNetwork
    <3>1. InNetwork' = InNetwork \cup {n}
      BY <1>5, NetworkSet DEF Disassociate
    <3> QED BY <2>1, <3>1
  <2> QED
    BY <1>1, <1>2, <1>5, <2>2 DEF Disassociate, SlotLine, AssociatedCount
<1>6. ASSUME NEW n \in Nodes, Leave(n)
      PROVE  associated' \in Nat /\ AssociatedCount'
  <2>1. n \in InNetwork
    BY <1>6 DEF Leave, InNetwork
  <2>2. InNetwork' = InNetwork \ {n}
    BY <1>6, NetworkSet DEF Leave
  <2>3. Cardinality(InNetwork') = Cardinality(InNetwork) - 1
    BY <1>1, <2>1, <2>2, Depart
  <2>4. Cardinality(InNetwork') \in Nat
    BY <1>1, <2>2, NodeSetFinite
  <2> QED BY <1>1, <1>2, <1>6, <2>3, <2>4 DEF Leave, AssociatedCount
<1>7. ASSUME NEW n \in Nodes, Start(n)
      PROVE  associated' \in Nat /\ AssociatedCount'
  <2>1. n \notin InNetwork
    BY <1>7 DEF Start, OffInv, InNetwork
  <2>2. InNetwork' = InNetwork
    <3>1. InNetwork' = InNetwork \ {n}
      BY <1>7, NetworkSet DEF Start
    <3> QED BY <2>1, <3>1
  <2> QED BY <1>1, <1>2, <1>7, <2>2 DEF Start, AssociatedCount
<1>8. ASSUME NEW n \in Nodes, Reboot(n)
      PROVE  associated' \in Nat /\ AssociatedCount'
  <2>1. InNetwork' = InNetwork \ {n}
    BY <1>8, NetworkSet DEF Reboot
  <2>2. associated' = associated
    BY <1>8 DEF Reboot
  <2>3. CASE n \in InNetwork
    <3>1. Cardinality(InNetwork') = Cardinality(InNetwork) - 1
      BY <1>1, <2>1, <2>3, Depart
    <3>2. forgotten' = forgotten + 1
      BY <1>8, <2>3 DEF Reboot, InNetwork
    <3> QED BY <1>1, <1>2, <2>2, <3>1, <3>2 DEF AssociatedCount
  <2>4. CASE n \notin InNetwork
    <3>1. InNetwork' = InNetwork
      BY <2>1, <2>4
    <3>2. mac[n] = "joining"
      BY <1>8, <2>4 DEF Reboot, InNetwork, OffInv, TypeOK, MacPositions
    <3>3. forgotten' = forgotten
      BY <1>8, <3>2 DEF Reboot
    <3> QED BY <1>2, <2>2, <3>1, <3>3 DEF AssociatedCount
  <2> QED BY <2>3, <2>4
<1>9. ASSUME NEW n \in Nodes, Process(n) \/ FindRoute(n) \/ LoseRoute(n)
      PROVE  UNCHANGED <<mac, associated, forgotten>>
  BY <1>9 DEF Process, SendTo, LogSent, LogUnreachable, FindRoute, LoseRoute
<1>10. ASSUME Lose \/ Receive \/ StopExperiment \/ UNCHANGED vars
       PROVE  UNCHANGED <<mac, associated, forgotten>>
  BY <1>10 DEF Lose, Receive, StopExperiment, vars
<1> QED
  BY <1>3, <1>4, <1>5, <1>6, <1>7, <1>8, <1>9, <1>10 DEF Next

(* A packet enters the accounts with its line pending, and moves from one  *)
(* to another.                                                             *)
LEMMA NextDelivery == ASSUME IInv, [Next]_vars PROVE DeliveryAccounts'
<1> USE DEF IInv, nodeVars, networkVars, listenerVars, historyVars
<1>1. Logging \in SUBSET Nodes /\ Cardinality(Logging) \in Nat
  BY NodeSetFinite DEF Logging
<1>2. /\ sent \in Nat /\ unlogged \in Nat /\ received \in Nat
      /\ lost \in Nat /\ in_flight \in Nat
  BY DEF TypeOK
<1>3. CASE UNCHANGED <<app, sent, unlogged, received, lost, in_flight>>
  BY <1>3 DEF DeliveryAccounts, Logging
<1>4. ASSUME NEW n \in Nodes, SendTo(n) PROVE DeliveryAccounts'
  <2>1. n \notin Logging /\ Logging' = Logging \cup {n}
    BY <1>4, LoggingSet DEF SendTo, Expires, Logging
  <2>2. Cardinality(Logging') = Cardinality(Logging) + 1
    BY <1>1, <2>1, Enter
  <2>3. UNCHANGED <<sent, unlogged, received>>
    BY <1>4 DEF SendTo
  <2>4. \/ in_flight' = in_flight + 1 /\ lost' = lost
        \/ in_flight' = in_flight /\ lost' = lost + 1
    BY <1>4 DEF SendTo
  <2> QED BY <1>1, <1>2, <2>2, <2>3, <2>4 DEF DeliveryAccounts
<1>5. ASSUME NEW n \in Nodes, LogSent(n) PROVE DeliveryAccounts'
  <2>1. n \in Logging /\ Logging' = Logging \ {n}
    BY <1>5, LoggingSet DEF LogSent, Logging
  <2>2. Cardinality(Logging') = Cardinality(Logging) - 1
    BY <1>1, <2>1, Depart
  <2>3. sent' = sent + 1 /\ UNCHANGED <<unlogged, received, lost, in_flight>>
    BY <1>5 DEF LogSent, Counted
  <2> QED BY <1>1, <1>2, <2>2, <2>3 DEF DeliveryAccounts
<1>6. ASSUME NEW n \in Nodes, LogUnreachable(n)
      PROVE  UNCHANGED <<app, sent, unlogged, received, lost, in_flight>>
  BY <1>6 DEF LogUnreachable, sent_counter
<1>7. ASSUME NEW n \in Nodes, Start(n) PROVE DeliveryAccounts'
  <2>1. n \notin Logging /\ Logging' = Logging \ {n}
    BY <1>7, LoggingSet DEF Start, Logging
  <2>2. Logging' = Logging
    BY <2>1
  <2>3. UNCHANGED <<sent, unlogged, received, lost, in_flight>>
    BY <1>7 DEF Start
  <2>4. Cardinality(Logging') = Cardinality(Logging)
    BY <2>2
  <2> QED BY <1>1, <1>2, <2>3, <2>4 DEF DeliveryAccounts
<1>8. ASSUME NEW n \in Nodes, Reboot(n) PROVE DeliveryAccounts'
  <2>1. Logging' = Logging \ {n}
    <3>1. app' = [app EXCEPT ![n] = "waiting"]
      BY <1>8 DEF Reboot
    <3>2. Logging' = IF "waiting" = "logging"
                     THEN Logging \cup {n} ELSE Logging \ {n}
      BY <3>1, LoggingSet, Zenon
    <3> QED BY <3>2
  <2>2. UNCHANGED <<sent, received, lost, in_flight>>
    BY <1>8 DEF Reboot
  <2>3. CASE n \in Logging
    <3>1. Cardinality(Logging') = Cardinality(Logging) - 1
      BY <1>1, <2>1, <2>3, Depart
    <3>2. unlogged' = unlogged + 1
      BY <1>8, <2>3 DEF Reboot, Logging
    <3> QED BY <1>1, <1>2, <2>2, <3>1, <3>2 DEF DeliveryAccounts
  <2>4. CASE n \notin Logging
    <3>1. Logging' = Logging
      BY <2>1, <2>4
    <3>2. unlogged' = unlogged
      BY <1>8, <2>4 DEF Reboot, Logging
    <3> QED BY <2>2, <3>1, <3>2 DEF DeliveryAccounts
  <2> QED BY <2>3, <2>4
<1>9. ASSUME NEW n \in Nodes,
             \/ Associate(n) \/ Disassociate(n) \/ Leave(n)
             \/ FindRoute(n) \/ LoseRoute(n)
      PROVE  UNCHANGED <<app, sent, unlogged, received, lost, in_flight>>
  BY <1>9 DEF Associate, Disassociate, Leave, FindRoute, LoseRoute
<1>10. CASE Lose \/ Receive
  <2>1. UNCHANGED <<app, sent, unlogged>>
    BY <1>10 DEF Lose, Receive
  <2>2. \/ lost' = lost + 1 /\ in_flight' = in_flight - 1
           /\ received' = received
        \/ received' = received + 1 /\ in_flight' = in_flight - 1
           /\ lost' = lost
    BY <1>10 DEF Lose, Receive
  <2>3. Logging' = Logging
    BY <2>1 DEF Logging
  <2> QED BY <1>1, <1>2, <2>1, <2>2, <2>3 DEF DeliveryAccounts
<1>11. ASSUME StopExperiment \/ UNCHANGED vars
       PROVE  UNCHANGED <<app, sent, unlogged, received, lost, in_flight>>
  BY <1>11 DEF StopExperiment, vars
<1> QED
  BY <1>3, <1>4, <1>5, <1>6, <1>7, <1>8, <1>9, <1>10, <1>11
     DEF Next, Process

LEMMA NextOff == ASSUME IInv, [Next]_vars PROVE OffInv'
<1> USE DEF IInv, OffInv, TypeOK, nodeVars, networkVars
<1>1. CASE UNCHANGED <<app, mac>>
  BY <1>1
<1>2. ASSUME NEW n \in Nodes, Start(n) \/ Reboot(n) PROVE OffInv'
  BY <1>2 DEF Start, Reboot
<1>3. ASSUME NEW n \in Nodes, SendTo(n) \/ LogSent(n) PROVE OffInv'
  BY <1>3 DEF SendTo, Expires, LogSent
<1>4. ASSUME NEW n \in Nodes,
             Associate(n) \/ Disassociate(n) \/ Leave(n)
      PROVE  OffInv'
  BY <1>4 DEF Associate, Disassociate, Leave
<1>5. ASSUME NEW n \in Nodes,
             LogUnreachable(n) \/ FindRoute(n) \/ LoseRoute(n)
      PROVE  UNCHANGED <<app, mac>>
  BY <1>5 DEF LogUnreachable, FindRoute, LoseRoute
<1>6. ASSUME Lose \/ Receive \/ StopExperiment \/ UNCHANGED vars
      PROVE  UNCHANGED <<app, mac>>
  BY <1>6 DEF Lose, Receive, StopExperiment, vars
<1> QED BY <1>1, <1>2, <1>3, <1>4, <1>5, <1>6 DEF Next, Process

LEMMA NextInv == IInv /\ [Next]_vars => IInv'
  BY NextAssociated, NextTypes, NextDelivery, NextOff DEF IInv

THEOREM Invariance == Spec => []IInv
  BY InitInv, NextInv, PTL DEF Spec

-----------------------------------------------------------------------------
(* Every variable keeps to its type; no counter of the listener falls      *)
(* below zero (experiment_tsch.py:48-58).                                  *)
THEOREM ExperimentTypeCorrect == Spec => []TypeOK
<1>1. IInv => TypeOK
  BY DEF IInv
<1> QED BY <1>1, Invariance, PTL

(* The count of associated nodes errs by the restarts it was not told of,  *)
(* and by nothing else (experiment_tsch.py:48-51).                         *)
THEOREM AlwaysAssociatedCount == Spec => []AssociatedCount
<1>1. IInv => AssociatedCount
  BY DEF IInv
<1> QED BY <1>1, Invariance, PTL

(* Every packet is in exactly one account, whatever the order of the lines *)
(* of the sender and of the coordinator (node.c:116-117).                  *)
THEOREM AlwaysDeliveryAccounts == Spec => []DeliveryAccounts
<1>1. IInv => DeliveryAccounts
  BY DEF IInv
<1> QED BY <1>1, Invariance, PTL
-----------------------------------------------------------------------------
(* What the delivery ratio leaves out *)

Packets == received + lost + in_flight

(* An expiry at which a node that has sent before finds no route. *)
NoneUnreachable == \A n \in Nodes : sent_once[n] => ~LogUnreachable(n)

(* A packet sent was due; an expiry without a route may add one that was   *)
(* due and not sent.                                                       *)
LEMMA DueStep ==
  ASSUME IInv, [Next]_vars
  PROVE  \/ due' - due = Packets' - Packets
         \/ due' = due + 1 /\ Packets' = Packets /\ ~NoneUnreachable
<1> USE DEF IInv, TypeOK, nodeVars, networkVars, listenerVars, historyVars,
            Packets
<1>1. CASE UNCHANGED <<due, received, lost, in_flight>>
  BY <1>1
<1>2. ASSUME NEW n \in Nodes, SendTo(n)
      PROVE  due' - due = Packets' - Packets
  BY <1>2 DEF SendTo
<1>3. ASSUME NEW n \in Nodes, LogUnreachable(n)
      PROVE  \/ due' - due = Packets' - Packets
             \/ due' = due + 1 /\ Packets' = Packets /\ ~NoneUnreachable
  <2>1. UNCHANGED <<received, lost, in_flight>>
    BY <1>3 DEF LogUnreachable
  <2>2. due' = due \/ (due' = due + 1 /\ ~NoneUnreachable)
    BY <1>3 DEF LogUnreachable, NoneUnreachable
  <2> QED BY <2>1, <2>2
<1>4. CASE Lose \/ Receive
  BY <1>4 DEF Lose, Receive
<1>5. ASSUME NEW n \in Nodes,
             \/ Start(n) \/ LogSent(n) \/ Reboot(n)
             \/ Associate(n) \/ Disassociate(n) \/ Leave(n)
             \/ FindRoute(n) \/ LoseRoute(n)
      PROVE  UNCHANGED <<due, received, lost, in_flight>>
  BY <1>5
     DEF Start, LogSent, Reboot, Associate, Disassociate, Leave, FindRoute,
         LoseRoute
<1>6. ASSUME StopExperiment \/ UNCHANGED vars
      PROVE  UNCHANGED <<due, received, lost, in_flight>>
  BY <1>6 DEF StopExperiment, vars
<1> QED BY <1>1, <1>2, <1>3, <1>4, <1>5, <1>6 DEF Next, Process

(* The ratio errs on one side only: the lines that count as sent, with     *)
(* those still to come or cut off by a restart, are never more than the    *)
(* packets that were due (node.c:109-141, experiment_tsch.py:52-58).       *)
THEOREM RatioNeverPessimistic ==
  Spec => [](sent + Cardinality(Logging) + unlogged <= due)
<1>1. Init => Packets <= due
  BY DEF Init, Packets
<1>2. IInv /\ Packets <= due /\ [Next]_vars => (Packets <= due)'
  <2> SUFFICES ASSUME IInv, Packets <= due, [Next]_vars
               PROVE  Packets' <= due'
    OBVIOUS
  <2>1. Packets \in Int /\ due \in Int
    BY DEF IInv, TypeOK, Packets
  <2>2. IInv'
    BY NextInv
  <2>3. Packets' \in Int /\ due' \in Int
    BY <2>2 DEF IInv, TypeOK, Packets
  <2> QED BY <2>1, <2>3, DueStep
<1>3. IInv /\ Packets <= due => sent + Cardinality(Logging) + unlogged <= due
  BY DEF IInv, DeliveryAccounts, Packets
<1> QED BY <1>1, <1>2, <1>3, Invariance, PTL DEF Spec

(* The expiries of a node that has sent and then found no route are all    *)
(* that the ratio leaves out: without one, every packet that was due has   *)
(* its line (node.c:122-131).                                              *)
THEOREM WholeUnlessUnreachable ==
  Spec /\ [][NoneUnreachable]_vars => []UnreachableCounted
<1>1. Init => Packets = due
  BY DEF Init, Packets
<1>2. IInv /\ Packets = due /\ [Next]_vars /\ [NoneUnreachable]_vars
        => (Packets = due)'
  <2> SUFFICES ASSUME IInv, Packets = due, [Next]_vars, [NoneUnreachable]_vars
               PROVE  Packets' = due'
    OBVIOUS
  <2>1. Packets \in Int /\ due \in Int
    BY DEF IInv, TypeOK, Packets
  <2>2. IInv'
    BY NextInv
  <2>3. Packets' \in Int /\ due' \in Int
    BY <2>2 DEF IInv, TypeOK, Packets
  <2>4. CASE UNCHANGED vars
    BY <2>4 DEF vars, networkVars, listenerVars, historyVars, Packets
  <2>5. CASE NoneUnreachable
    BY <2>1, <2>3, <2>5, DueStep
  <2> QED BY <2>4, <2>5
<1>3. IInv /\ Packets = due => UnreachableCounted
  BY DEF IInv, DeliveryAccounts, Packets, UnreachableCounted
<1> QED BY <1>1, <1>2, <1>3, Invariance, PTL DEF Spec
=============================================================================
