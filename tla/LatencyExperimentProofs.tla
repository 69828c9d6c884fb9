---------------------- MODULE LatencyExperimentProofs ----------------------
(***************************************************************************)
(* Invariants of LatencyExperiment, for all clients, any number of         *)
(* requests, and whatever the network does.                                *)
(*                                                                         *)
(*   TypeInv     types; a client that is midway has a request to send;     *)
(*   AccountInv  there is a row for every number announced, and it is      *)
(*               answered if a response with the number was received; what *)
(*               is on its way was announced in the life it left in;       *)
(*   LifeInv     in one life a client announces a number once, so that a   *)
(*               row with both times of that life keeps them;              *)
(*   NobodyStranded                                                        *)
(*               while timers expire on a route, no client waits in vain.  *)
(***************************************************************************)
EXTENDS LatencyExperiment, FiniteSetTheorems, WellFoundedInduction, TLAPS

-----------------------------------------------------------------------------
(* Types *)

TypeInv ==
  /\ TypeOK
  /\ IsFiniteSet(DOMAIN req)
  /\ IsFiniteSet(announced) /\ IsFiniteSet(received)
  /\ \A c \in Clients : at[c] = "midway" => request_id[c] <= N_REQUESTS

HistoryType ==
  /\ announced \subseteq Datagrams /\ IsFiniteSet(announced)
  /\ received \subseteq Datagrams /\ IsFiniteSet(received)

(* A timestamp is later than the times of its row. *)
LEMMA TimestampType ==
  \A row \in Rows :
    /\ Timestamp(row) \in Nat
    /\ Timestamp(row) > row.request /\ Timestamp(row) > row.response
BY DEF Timestamp, Rows

(* What the listener does with the two kinds of lines. *)
LEMMA RequestType ==
  ASSUME TypeInv, NEW c \in Clients, RecordRequest(c)
  PROVE  /\ DOMAIN req' = DOMAIN req \cup {<<c, request_id[c]>>}
         /\ IsFiniteSet(DOMAIN req')
         /\ DOMAIN req' \subseteq Clients \X Nat
         /\ \A k \in DOMAIN req' : req'[k] \in Rows
         /\ HistoryType'
<1>1. request_id[c] \in Nat /\ boots[c] \in Nat
  BY ExperimentAssumption DEF TypeInv, TypeOK
<1>2. DOMAIN req' = DOMAIN req \cup {<<c, request_id[c]>>}
  BY DEF RecordRequest, Key
<1>3. IsFiniteSet(DOMAIN req')
  BY <1>2, FS_AddElement DEF TypeInv
<1>4. NewRow(c) \in Rows
  BY <1>1 DEF NewRow, Rows, NoTime
<1>5. \A k \in DOMAIN req :
        [req[k] EXCEPT !.request = Timestamp(req[k]), !.sentIn = boots[c]]
          \in Rows
  BY <1>1, TimestampType DEF TypeInv, TypeOK, Rows
<1>6. \A k \in DOMAIN req' : req'[k] \in Rows
  BY <1>2, <1>4, <1>5 DEF TypeInv, TypeOK, RecordRequest, Key
<1>7. announced' = announced \cup {Request(c)}
      /\ received' = received
  BY DEF RecordRequest
<1>8. Request(c) \in Datagrams
  BY <1>1 DEF Request, Datagrams
<1>9. HistoryType'
  BY <1>7, <1>8, FS_AddElement DEF TypeInv, TypeOK, HistoryType
<1> QED
  BY <1>1, <1>2, <1>3, <1>6, <1>9 DEF TypeInv, TypeOK

LEMMA ResponseType ==
  ASSUME TypeInv, NEW m \in Datagrams, RecordResponse(m)
  PROVE  /\ DOMAIN req' = DOMAIN req
         /\ \A k \in DOMAIN req' : req'[k] \in Rows
         /\ HistoryType'
<1>1. m.client \in Clients /\ m.seq \in Nat /\ m.boot \in Nat
  BY DEF TypeInv, TypeOK, Datagrams
<1>2. DOMAIN req' = DOMAIN req
  BY DEF RecordResponse
<1>3. \A k \in DOMAIN req' : req'[k] \in Rows
  BY <1>1, <1>2, TimestampType DEF TypeInv, TypeOK, RecordResponse, Rows
<1>4. HistoryType'
  BY FS_AddElement DEF TypeInv, TypeOK, HistoryType, RecordResponse
<1> QED
  BY <1>1, <1>2, <1>3, <1>4 DEF TypeInv, TypeOK

LEMMA TransmitType ==
  ASSUME TypeInv, NEW c \in Clients, NEW ok \in BOOLEAN, Transmit(c, ok)
  PROVE  requests' \subseteq Datagrams /\ responses' \subseteq Datagrams
<1>1. Request(c) \in Datagrams
  BY ExperimentAssumption DEF TypeInv, TypeOK, Request, Datagrams
<1> QED BY <1>1 DEF TypeInv, TypeOK, Transmit

(* After a request, as after a wakeup, the next number is in range.        *)
LEMMA CountType ==
  ASSUME TypeInv, NEW c \in Clients, request_id[c] <= N_REQUESTS
  PROVE  [request_id EXCEPT ![c] = @ + 1] \in [Clients -> 1 .. N_REQUESTS + 1]
BY ExperimentAssumption DEF TypeInv, TypeOK

LEMMA TypeInvariance == Spec => []TypeInv
<1>1. Init => TypeInv
  <2> SUFFICES ASSUME Init PROVE TypeInv
    OBVIOUS
  <2>1. DOMAIN req = {}
    BY DEF Init
  <2>2. IsFiniteSet(DOMAIN req) /\ IsFiniteSet({})
    BY <2>1, FS_EmptySet
  <2> QED
    BY <2>1, <2>2, ExperimentAssumption
       DEF Init, TypeInv, TypeOK, Positions, NoReport
<1>2. TypeInv /\ [Next]_vars => TypeInv'
  <2> SUFFICES ASSUME TypeInv, [Next]_vars PROVE TypeInv'
    OBVIOUS
  <2> USE ExperimentAssumption
      DEF TypeInv, TypeOK, clientVars, routeVars, networkVars, listenerVars,
          Positions
  <2>1. ASSUME NEW c \in Clients, Start(c) PROVE TypeInv'
    BY <2>1 DEF Start
  <2>2. ASSUME NEW c \in Clients, ContikiTurn(c) PROVE TypeInv'
    <3>1. CASE reachable[c]
      <4>1. PICK ok \in BOOLEAN : Transmit(c, ok)
        BY <2>2, <3>1 DEF ContikiTurn
      <4>2. RecordRequest(c)
        BY <2>2, <3>1 DEF ContikiTurn
      <4>3. requests' \subseteq Datagrams /\ responses' \subseteq Datagrams
        BY <4>1, TransmitType
      <4>4. /\ request_id[c] <= N_REQUESTS
            /\ request_id' = [request_id EXCEPT ![c] = @ + 1]
            /\ at' = [at EXCEPT ![c] = "armed"]
            /\ UNCHANGED <<boots, routeVars, report>>
        BY <2>2, <3>1 DEF ContikiTurn, MoreToSend, Rearmed
      <4>5. request_id' \in [Clients -> 1 .. N_REQUESTS + 1]
        BY <4>4, CountType
      <4>6. \A d \in Clients :
              at'[d] = "midway" => request_id'[d] <= N_REQUESTS
        BY <4>4
      <4> HIDE DEF TypeInv
      <4>7. /\ DOMAIN req' \subseteq Clients \X Nat
            /\ IsFiniteSet(DOMAIN req')
            /\ \A k \in DOMAIN req' : req'[k] \in Rows
            /\ HistoryType'
        BY <4>2, RequestType
      <4> QED
        BY <4>3, <4>4, <4>5, <4>6, <4>7 DEF TypeInv, HistoryType
    <3>2. CASE ~reachable[c]
      BY <2>2, <3>2 DEF ContikiTurn
    <3> QED BY <3>1, <3>2
  <2>3. ASSUME NEW c \in Clients, RiotBegin(c) PROVE TypeInv'
    <3>1. RecordRequest(c) /\ UNCHANGED networkVars
      BY <2>3 DEF RiotBegin, RiotDo, RiotOrder
    <3> QED
      BY <2>3, <3>1, RequestType DEF RiotBegin, MoreToSend, HistoryType
  <2>4. ASSUME NEW c \in Clients, RiotEnd(c) PROVE TypeInv'
    <3>1. PICK ok \in BOOLEAN :
            Transmit(c, ok) /\ UNCHANGED listenerVars
            /\ at' = [at EXCEPT ![c] = "armed"]
      BY <2>4 DEF RiotEnd, RiotDo, RiotOrder, AfterSend
    <3>2. requests' \subseteq Datagrams /\ responses' \subseteq Datagrams
      BY <3>1, TransmitType
    <3>3. /\ request_id[c] <= N_REQUESTS
          /\ request_id' = [request_id EXCEPT ![c] = @ + 1]
          /\ UNCHANGED <<boots, routeVars, report>>
      BY <2>4 DEF RiotEnd
    <3>4. request_id' \in [Clients -> 1 .. N_REQUESTS + 1]
      BY <3>3, CountType
    <3>5. \A d \in Clients : at'[d] = "midway" => request_id'[d] <= N_REQUESTS
      BY <3>1, <3>3
    <3>6. at' \in [Clients -> Positions]
      BY <3>1
    <3>7. UNCHANGED <<boots, routeVars, listenerVars, report>>
      BY <3>1, <3>3
    <3> QED
      BY <3>2, <3>4, <3>5, <3>6, <3>7
  <2>5. ASSUME NEW c \in Clients, Reboot(c) PROVE TypeInv'
    BY <2>5 DEF Reboot
  <2>6. ASSUME NEW c \in Clients, Join(c) \/ LoseRoute(c) PROVE TypeInv'
    <3>1. CASE Join(c)
      BY <3>1 DEF Join
    <3>2. CASE LoseRoute(c)
      BY <3>2 DEF LoseRoute
    <3> QED BY <2>6, <3>1, <3>2
  <2>7. ASSUME NEW m \in requests, NEW again \in BOOLEAN,
               ServerReceive(m, again)
        PROVE  TypeInv'
    BY <2>7 DEF ServerReceive, Echo
  <2>8. ASSUME NEW m \in responses, NEW again \in BOOLEAN,
               ClientReceive(m, again)
        PROVE  TypeInv'
    <3>1. RecordResponse(m) /\ m \in Datagrams
      BY <2>8 DEF ClientReceive
    <3> QED
      BY <2>8, <3>1, ResponseType DEF ClientReceive, HistoryType
  <2>9. CASE Lose
    BY <2>9 DEF Lose
  <2>10. CASE experiment_ended
    <3>1. IsFiniteSet({k \in DOMAIN req : req[k].response # NoTime})
      BY FS_Subset
    <3>2. report' \in [sent : Int, delivered : Int]
      BY <2>10, <3>1, FS_CardinalityType DEF experiment_ended
    <3> QED BY <2>10, <3>2 DEF experiment_ended
  <2>11. CASE UNCHANGED vars
    BY <2>11 DEF vars
  <2> QED
    BY <2>1, <2>2, <2>3, <2>4, <2>5, <2>6, <2>7, <2>8, <2>9, <2>10, <2>11
       DEF Next, ClientStep, Rejoin, Upset, Delivery, TimerEvent, OtherEvent
<1> QED BY <1>1, <1>2, PTL DEF Spec

(* Every variable keeps its type, and no client numbers a request beyond   *)
(* N_REQUESTS + 1 (udp-client.c 107, main.c 189).                          *)
THEOREM LatencyTypeCorrect == Spec => []TypeOK
BY TypeInvariance, PTL DEF TypeInv

-----------------------------------------------------------------------------
(* What is counted *)

(* The numbers in a set of datagrams, as the listener tells them apart.    *)
Keys(S) == {Key(m.client, m.seq) : m \in S}

Answered == {k \in DOMAIN req : req[k].response # NoTime}

(* There is a row for each number announced, with a response if one with   *)
(* the number was received.                                                *)
RowsMatch ==
  /\ DOMAIN req = Keys(announced)
  /\ Answered = Keys(received)

(* A request is announced before any copy of it is on its way.             *)
AnnouncedFirst ==
  /\ requests \cup responses \cup received \subseteq announced
  /\ \A c \in Clients : at[c] = "midway" => Request(c) \in announced

(* What a client announced, it announced in this life or in an earlier one.*)
AnnouncedBefore == \A m \in announced : m.boot <= boots[m.client]

AccountInv == RowsMatch /\ AnnouncedFirst /\ AnnouncedBefore /\ PdrHonest

LEMMA SmallestLife ==
  ASSUME NEW T \in SUBSET Nat, T # {}
  PROVE  \E b \in T : \A a \in T : b <= a
<1>1. PICK b \in T : \A a \in T : ~(<<a, b>> \in OpToRel(<, Nat))
  BY WFMin, NatLessThanWellFounded
<1>2. \A a \in T : ~(a < b)
  BY <1>1 DEF OpToRel
<1> QED BY <1>2

(* Without the datagrams whose number an earlier life had used, a set has  *)
(* one datagram for each of its numbers.                                   *)
LEMMA OnePerNumber ==
  ASSUME NEW S, S \subseteq Datagrams, IsFiniteSet(S)
  PROVE  Cardinality(S \ Repeated(S)) = Cardinality(Keys(S))
<1> DEFINE F == S \ Repeated(S)
           f == [m \in F |-> Key(m.client, m.seq)]
<1>1. \A m \in S : m.client \in Clients /\ m.seq \in Nat /\ m.boot \in Nat
  BY DEF Datagrams
<1>2. IsFiniteSet(F)
  BY FS_Subset
<1>3. f \in [F -> Keys(S)]
  BY DEF Keys
<1>4. ASSUME NEW m \in F, NEW e \in F, f[m] = f[e] PROVE m = e
  <2>1. m.client = e.client /\ m.seq = e.seq
    BY <1>4 DEF Key
  <2>2. ~(e.boot < m.boot) /\ ~(m.boot < e.boot)
    BY <2>1 DEF Repeated
  <2>3. m.boot = e.boot
    BY <1>1, <2>2
  <2> QED BY <2>1, <2>3 DEF Datagrams
<1>5. ASSUME NEW k \in Keys(S) PROVE \E m \in F : f[m] = k
  <2>1. PICK e \in S : k = Key(e.client, e.seq)
    BY <1>5 DEF Keys
  <2> DEFINE Same == {m \in S : m.client = e.client /\ m.seq = e.seq}
             Lives == {m.boot : m \in Same}
  <2>2. Lives \in SUBSET Nat /\ Lives # {}
    BY <1>1
  <2>3. PICK b \in Lives : \A a \in Lives : b <= a
    BY <2>2, SmallestLife
  <2>4. PICK m \in Same : m.boot = b
    BY <2>3
  <2>5. \A d \in Same : m.boot <= d.boot
    BY <2>3, <2>4
  <2>6. m \notin Repeated(S)
    BY <1>1, <2>4, <2>5 DEF Repeated
  <2> QED BY <2>1, <2>4, <2>6
<1> HIDE DEF f, F
<1>6. f \in Bijection(F, Keys(S))
  BY <1>3, <1>4, <1>5 DEF Bijection, Injection, Surjection, IsInjective
<1>7. ExistsBijection(F, Keys(S))
  BY <1>6 DEF ExistsBijection
<1>8. Cardinality(Keys(S)) = Cardinality(F)
  BY <1>2, <1>7, FS_Bijection
<1> QED BY <1>8 DEF F

LEMMA AccountRequest ==
  ASSUME TypeInv, RowsMatch, AnnouncedBefore,
         NEW c \in Clients, RecordRequest(c), UNCHANGED boots
  PROVE  /\ RowsMatch' /\ AnnouncedBefore'
         /\ announced' = announced \cup {Request(c)}
         /\ received' = received
<1> DEFINE k == Key(c, request_id[c])
<1>1. /\ announced' = announced \cup {Request(c)}
      /\ received' = received
  BY DEF RecordRequest
<1>2. Keys(announced') = Keys(announced) \cup {k}
  <2>1. Request(c).client = c /\ Request(c).seq = request_id[c]
    BY DEF Request
  <2> QED BY <1>1, <2>1 DEF Keys
<1>3. DOMAIN req' = Keys(announced')
  BY <1>2 DEF RecordRequest, RowsMatch
<1>4. \A j \in DOMAIN req : j # k => req'[j] = req[j]
  BY DEF RecordRequest
<1>5. Answered' = Answered
  <2>1. CASE k \in DOMAIN req
    <3>1. req[k] \in Rows
      BY <2>1 DEF TypeInv, TypeOK
    <3>2. req'[k] = [req[k] EXCEPT !.request = Timestamp(req[k]),
                                  !.sentIn = boots[c]]
      BY <2>1 DEF RecordRequest
    <3>3. req'[k].response = req[k].response
      BY <3>1, <3>2 DEF Rows
    <3> QED BY <1>2, <1>3, <1>4, <2>1, <3>3 DEF Answered, RowsMatch
  <2>2. CASE k \notin DOMAIN req
    <3>1. req'[k].response = NoTime
      BY <2>2 DEF RecordRequest, NewRow
    <3> QED BY <1>2, <1>3, <1>4, <2>2, <3>1 DEF Answered, RowsMatch
  <2> QED BY <2>1, <2>2
<1>6. AnnouncedBefore'
  BY <1>1 DEF AnnouncedBefore, Request, TypeInv, TypeOK
<1> QED BY <1>1, <1>3, <1>5, <1>6 DEF RowsMatch, Keys

LEMMA AccountResponse ==
  ASSUME TypeInv, RowsMatch, NEW m \in announced, RecordResponse(m)
  PROVE  /\ RowsMatch' /\ announced' = announced
         /\ received' = received \cup {m}
<1> DEFINE k == Key(m.client, m.seq)
<1>1. announced' = announced /\ received' = received \cup {m}
  BY DEF RecordResponse
<1>2. Keys(received') = Keys(received) \cup {k}
  BY <1>1 DEF Keys
<1>3. k \in DOMAIN req /\ req[k] \in Rows
  BY DEF RowsMatch, Keys, TypeInv, TypeOK
<1>4. CASE req[k].response = NoTime
  <2>1. req' = [req EXCEPT ![k].response = Timestamp(req[k]),
                           ![k].answeredIn = m.boot]
    BY <1>3, <1>4 DEF RecordResponse
  <2>2. /\ DOMAIN req' = DOMAIN req
        /\ \A j \in DOMAIN req \ {k} : req'[j] = req[j]
    BY <2>1
  <2>3. req'[k].response = Timestamp(req[k]) /\ Timestamp(req[k]) > NoTime
    BY <1>3, <2>1, TimestampType DEF Rows, NoTime
  <2>4. req'[k].response # NoTime
    BY <1>3, <2>3, TimestampType DEF NoTime
  <2>5. Answered' = Answered \cup {k}
    BY <1>3, <2>2, <2>4 DEF Answered
  <2> QED BY <1>1, <1>2, <2>2, <2>5 DEF RowsMatch, Keys
<1>5. CASE req[k].response # NoTime
  <2>1. UNCHANGED req
    BY <1>5 DEF RecordResponse
  <2>2. k \in Answered /\ Answered' = Answered
    BY <1>3, <1>5, <2>1 DEF Answered
  <2> QED BY <1>1, <1>2, <2>1, <2>2 DEF RowsMatch, Keys
<1> QED BY <1>4, <1>5

(* What the summary says, when the rows are in order.                      *)
LEMMA SummaryHonest ==
  ASSUME TypeInv, RowsMatch, AnnouncedFirst, AnnouncedBefore, experiment_ended
  PROVE  PdrHonest'
<1>1. /\ report'.sent = Cardinality(Keys(announced))
      /\ report'.delivered = Cardinality(Keys(received))
  BY DEF experiment_ended, RowsMatch, Answered
<1>2. /\ report'.sent = Cardinality(announced \ Repeated(announced))
      /\ report'.delivered = Cardinality(received \ Repeated(received))
  BY <1>1, OnePerNumber DEF TypeInv, TypeOK
<1>3. ASSUME \A c \in Clients : boots[c] = 0
      PROVE  Repeated(announced) = {} /\ Repeated(received) = {}
  <2>1. \A m \in announced : m.boot \in Nat /\ m.boot <= 0
    BY <1>3 DEF AnnouncedBefore, TypeInv, TypeOK, Datagrams
  <2>2. \A m, e \in announced : ~(e.boot < m.boot)
    BY <2>1
  <2> QED BY <2>2 DEF Repeated, AnnouncedFirst
<1>4. (\A c \in Clients : boots[c] = 0) =>
         /\ announced \ Repeated(announced) = announced
         /\ received \ Repeated(received) = received
  BY <1>3
<1>5. UNCHANGED <<boots, announced, received>> /\ received \subseteq announced
  BY DEF experiment_ended, clientVars, listenerVars, AnnouncedFirst
<1> QED BY <1>2, <1>4, <1>5 DEF PdrHonest, Repeated

(* What is sent has been announced by the time it is on its way.           *)
LEMMA TransmitAnnounced ==
  ASSUME NEW c, NEW ok, Transmit(c, ok), AnnouncedFirst,
         announced \subseteq announced', Request(c) \in announced'
  PROVE  (requests \cup responses)' \subseteq announced'
BY DEF Transmit, AnnouncedFirst

(* A step that announces and receives nothing, and does not end.           *)
LEMMA AccountFrame ==
  ASSUME AccountInv, UNCHANGED <<req, announced, received, report>>,
         requests' \cup responses' \subseteq announced,
         \A c \in Clients : boots'[c] >= boots[c],
         TypeInv, TypeInv',
         Ended => UNCHANGED boots,
         \A c \in Clients :
           at'[c] = "midway" => /\ at[c] = "midway"
                                /\ UNCHANGED <<request_id[c], boots[c]>>
  PROVE  AccountInv'
<1>1. AnnouncedFirst'
  BY DEF AccountInv, AnnouncedFirst, Request
<1>2. \A m \in announced : m.client \in Clients /\ m.boot \in Nat
  BY DEF TypeInv, TypeOK, Datagrams
<1>3. \A c \in Clients : boots[c] \in Nat /\ boots'[c] \in Nat
  BY DEF TypeInv, TypeOK
<1>4. AnnouncedBefore'
  BY <1>2, <1>3 DEF AccountInv, AnnouncedBefore
<1>5. PdrHonest'
  BY DEF AccountInv, PdrHonest, Ended, Repeated
<1>6. RowsMatch'
  BY DEF AccountInv, RowsMatch, Answered, Keys
<1> QED BY <1>1, <1>4, <1>5, <1>6 DEF AccountInv

LEMMA AccountStep ==
  ASSUME TypeInv, TypeInv', AccountInv, [Next]_vars
  PROVE  AccountInv'
<1> USE DEF clientVars, routeVars, networkVars, listenerVars
<1>1. /\ RowsMatch /\ AnnouncedFirst /\ AnnouncedBefore
      /\ requests \cup responses \subseteq announced
  BY DEF AccountInv, AnnouncedFirst
<1>2. \A c \in Clients : boots[c] \in Nat /\ boots[c] >= boots[c]
  BY DEF TypeInv, TypeOK
<1>3. ASSUME NEW c \in Clients, ContikiTurn(c), reachable[c], ~Ended
      PROVE  AccountInv'
  <2>1. PICK ok \in BOOLEAN : Transmit(c, ok)
    BY <1>3 DEF ContikiTurn
  <2>2. RecordRequest(c) /\ UNCHANGED <<boots, report>>
    BY <1>3 DEF ContikiTurn
  <2>3. /\ RowsMatch' /\ AnnouncedBefore'
        /\ announced' = announced \cup {Request(c)}
        /\ received' = received
    BY <1>1, <2>2, AccountRequest
  <2>4. (requests \cup responses)' \subseteq announced'
    BY <1>1, <2>1, <2>3, TransmitAnnounced
  <2>5. /\ at' = [at EXCEPT ![c] = "armed"]
        /\ request_id' = [request_id EXCEPT ![c] = @ + 1]
    BY <1>3 DEF ContikiTurn, Rearmed
  <2>6. \A d \in Clients : at'[d] = "midway" => Request(d)' \in announced'
    BY <1>1, <2>2, <2>3, <2>5 DEF AnnouncedFirst, Request, TypeInv, TypeOK
  <2> QED
    BY <1>1, <1>3, <2>2, <2>3, <2>4, <2>6
       DEF AccountInv, AnnouncedFirst, PdrHonest, Ended
<1>4. ASSUME NEW c \in Clients, ContikiTurn(c), ~reachable[c]
      PROVE  AccountInv'
  <2>1. /\ UNCHANGED <<request_id, boots, networkVars, listenerVars, report>>
        /\ at' = [at EXCEPT ![c] = "expired"]
    BY <1>4 DEF ContikiTurn
  <2>2. \A d \in Clients : at'[d] = "midway" => at[d] = "midway"
    BY <2>1 DEF TypeInv, TypeOK
  <2> QED BY <1>1, <1>2, <2>1, <2>2, AccountFrame
<1>5. ASSUME NEW c \in Clients, RiotBegin(c), ~Ended PROVE AccountInv'
  <2>1. RecordRequest(c) /\ UNCHANGED networkVars
    BY <1>5 DEF RiotBegin, RiotDo, RiotOrder
  <2>2. /\ at' = [at EXCEPT ![c] = "midway"]
        /\ UNCHANGED <<request_id, boots, report>>
    BY <1>5 DEF RiotBegin
  <2>3. /\ RowsMatch' /\ AnnouncedBefore'
        /\ announced' = announced \cup {Request(c)}
        /\ received' = received
    BY <1>1, <2>1, <2>2, AccountRequest
  <2>4. \A d \in Clients : at'[d] = "midway" => Request(d)' \in announced'
    BY <1>1, <2>2, <2>3 DEF AnnouncedFirst, Request, TypeInv, TypeOK
  <2> QED
    BY <1>1, <1>5, <2>1, <2>2, <2>3, <2>4
       DEF AccountInv, AnnouncedFirst, PdrHonest, Ended
<1>6. ASSUME NEW c \in Clients, RiotEnd(c) PROVE AccountInv'
  <2>1. PICK ok \in BOOLEAN :
          /\ Transmit(c, ok)
          /\ UNCHANGED listenerVars
          /\ at' = [at EXCEPT ![c] = "armed"]
    BY <1>6 DEF RiotEnd, RiotDo, RiotOrder, AfterSend
  <2>2. Request(c) \in announced'
    BY <1>1, <1>6, <2>1 DEF RiotEnd, AnnouncedFirst
  <2>3. (requests \cup responses)' \subseteq announced
    BY <1>1, <2>1, <2>2, TransmitAnnounced
  <2>4. /\ request_id' = [request_id EXCEPT ![c] = @ + 1]
        /\ UNCHANGED <<boots, report>>
    BY <1>6 DEF RiotEnd
  <2>5. \A d \in Clients :
          at'[d] = "midway" => at[d] = "midway" /\ UNCHANGED request_id[d]
    BY <2>1, <2>4 DEF TypeInv, TypeOK
  <2> QED BY <1>2, <2>1, <2>3, <2>4, <2>5, AccountFrame
<1>7. ASSUME NEW c \in Clients, Start(c) \/ Join(c) \/ LoseRoute(c)
      PROVE  AccountInv'
  <2>1. UNCHANGED <<request_id, boots, networkVars, listenerVars, report>>
    BY <1>7 DEF Start, Join, LoseRoute
  <2>2. \A d \in Clients : at'[d] = "midway" => at[d] = "midway"
    BY <1>7 DEF Start, Join, LoseRoute, TypeInv, TypeOK
  <2> QED BY <1>1, <1>2, <2>1, <2>2, AccountFrame
<1>8. ASSUME NEW c \in Clients, Reboot(c), ~Ended PROVE AccountInv'
  <2>1. UNCHANGED <<networkVars, listenerVars, report>>
    BY <1>8 DEF Reboot
  <2>2. \A d \in Clients :
          /\ boots'[d] >= boots[d]
          /\ at'[d] = "midway" => /\ at[d] = "midway"
                                  /\ UNCHANGED <<request_id[d], boots[d]>>
    BY <1>2, <1>8 DEF Reboot, TypeInv, TypeOK
  <2> QED BY <1>1, <1>8, <2>1, <2>2, AccountFrame
<1>9. ASSUME NEW m \in requests, NEW again \in BOOLEAN,
             ServerReceive(m, again)
      PROVE  AccountInv'
  <2>1. /\ requests' \cup responses' \subseteq announced
        /\ UNCHANGED <<clientVars, listenerVars, report>>
    BY <1>1, <1>9 DEF ServerReceive, Echo
  <2> QED BY <1>2, <2>1, AccountFrame
<1>10. ASSUME NEW m \in responses, NEW again \in BOOLEAN,
              ClientReceive(m, again), ~Ended
       PROVE  AccountInv'
  <2>1. m \in announced /\ RecordResponse(m)
    BY <1>1, <1>10 DEF ClientReceive
  <2>2. /\ RowsMatch' /\ announced' = announced
        /\ received' = received \cup {m}
    BY <1>1, <2>1, AccountResponse
  <2>3. /\ responses' \subseteq responses
        /\ UNCHANGED <<requests, clientVars, report>>
    BY <1>10 DEF ClientReceive
  <2> QED
    BY <1>1, <1>10, <2>1, <2>2, <2>3
       DEF AccountInv, AnnouncedFirst, AnnouncedBefore, PdrHonest, Ended,
           Request
<1>11. CASE Lose
  <2>1. /\ requests' \cup responses' \subseteq announced
        /\ UNCHANGED <<clientVars, listenerVars, report>>
    BY <1>1, <1>11 DEF Lose
  <2> QED BY <1>2, <2>1, AccountFrame
<1>12. CASE experiment_ended
  <2>1. PdrHonest'
    BY <1>1, <1>12, SummaryHonest
  <2>2. /\ requests' = {} /\ responses' = {}
        /\ UNCHANGED <<clientVars, listenerVars>>
    BY <1>12 DEF experiment_ended
  <2> QED
    BY <1>1, <2>1, <2>2
       DEF AccountInv, RowsMatch, Answered, Keys, AnnouncedFirst,
           AnnouncedBefore, Request
<1>13. CASE UNCHANGED vars
  BY <1>1, <1>2, <1>13, AccountFrame DEF vars
<1> QED
  BY <1>3, <1>4, <1>5, <1>6, <1>7, <1>8, <1>9, <1>10, <1>11, <1>12, <1>13
     DEF Next, ClientStep, Rejoin, Upset, Delivery, TimerEvent, OtherEvent

LEMMA AccountInvariance == Spec => []AccountInv
<1>1. Init => AccountInv
  BY DEF Init, AccountInv, RowsMatch, Answered, Keys, AnnouncedFirst,
         AnnouncedBefore, PdrHonest, Ended
<1>2. TypeInv /\ TypeInv' /\ AccountInv /\ [Next]_vars => AccountInv'
  BY AccountStep
<1> QED BY <1>1, <1>2, TypeInvariance, PTL DEF Spec

(* For any clients, restarts, losses, duplicates and outages: a response   *)
(* counted answers a request of its own life, the summary leaves out the   *)
(* numbers a restarted client used again and no others, and nothing        *)
(* without a restart (experiment_latencies.py 117-154).                    *)
THEOREM PdrAlwaysHonest == Spec => []PdrHonest
BY AccountInvariance, PTL DEF AccountInv

-----------------------------------------------------------------------------
(* What is measured *)

(* What is on its way left in this life of its client, with a number the   *)
(* client is past, or in an earlier one.                                   *)
SentBefore ==
  \A m \in requests \cup responses :
    /\ m.boot <= boots[m.client]
    /\ m.boot = boots[m.client] => m.seq < request_id[m.client]

(* The same of the times of a row.                                         *)
AnsweredBefore ==
  \A k \in DOMAIN req :
    /\ req[k].sentIn <= boots[k[1]]
    /\ req[k].response # NoTime =>
         /\ req[k].answeredIn <= boots[k[1]]
         /\ req[k].answeredIn = boots[k[1]] => k[2] < request_id[k[1]]

InOrder ==
  \A k \in DOMAIN req :
    req[k].response # NoTime /\ req[k].sentIn = req[k].answeredIn =>
      req[k].request < req[k].response

LifeInv == SentBefore /\ AnsweredBefore /\ InOrder

(* No client goes back to an earlier number. *)
Advances ==
  \A c \in Clients :
    request_id'[c] \in Nat /\ request_id'[c] >= request_id[c]

LEMMA OrderOfRow ==
  ASSUME TypeInv, RowsMatch, AnsweredBefore, InOrder
  PROVE  RowIsLatency
<1> SUFFICES ASSUME NEW k \in DOMAIN req, req[k].response # NoTime,
                    req[k].sentIn # req[k].answeredIn
             PROVE  boots[k[1]] > 0
  BY DEF RowIsLatency, RowsMatch, InOrder
<1>1. req[k] \in Rows /\ boots[k[1]] \in Nat
  BY DEF TypeInv, TypeOK, RowsMatch
<1> QED BY <1>1 DEF AnsweredBefore, Rows

(* The line of a request finds no response of the same life in its row.    *)
LEMMA LifeRequest ==
  ASSUME TypeInv, RowsMatch, AnsweredBefore, InOrder,
         NEW c \in Clients, RecordRequest(c),
         UNCHANGED boots,
         Advances
  PROVE  AnsweredBefore' /\ InOrder'
<1> DEFINE k == Key(c, request_id[c])
<1>1. /\ boots \in [Clients -> Nat]
      /\ request_id[c] \in Nat
      /\ k[1] = c /\ k[2] = request_id[c]
  BY ExperimentAssumption DEF TypeInv, TypeOK, Key
<1>2. DOMAIN req' = DOMAIN req \cup {k}
  BY DEF RecordRequest, Key
<1>3. \A j \in DOMAIN req \ {k} : req'[j] = req[j]
  BY DEF RecordRequest, RowsMatch
<1>4. \A j \in DOMAIN req :
        /\ req[j] \in Rows /\ j[1] \in Clients /\ j[2] \in Nat
        /\ request_id[j[1]] \in Int /\ boots[j[1]] \in Nat
        /\ request_id'[j[1]] \in Nat /\ request_id'[j[1]] >= request_id[j[1]]
  BY <1>1, ExperimentAssumption DEF TypeInv, TypeOK, RowsMatch, Advances
<1>5. CASE k \in DOMAIN req
  <2>1. req'[k] = [req[k] EXCEPT !.request = Timestamp(req[k]),
                                 !.sentIn = boots[c]]
    BY <1>5 DEF RecordRequest, RowsMatch
  <2>2. /\ req'[k].response = req[k].response
        /\ req'[k].answeredIn = req[k].answeredIn
        /\ req'[k].sentIn = boots[c]
    BY <1>4, <1>5, <2>1 DEF Rows
  <2>3. req[k].response # NoTime => req[k].answeredIn # boots[c]
    BY <1>1, <1>5 DEF AnsweredBefore
  <2> HIDE DEF k
  <2>4. req[k].response # NoTime => req[k].answeredIn < boots[c]
    BY <1>1, <1>4, <1>5, <2>3 DEF AnsweredBefore, Rows
  <2>5. InOrder'
    BY <1>2, <1>3, <1>5, <2>2, <2>3 DEF InOrder
  <2>6. \A j \in DOMAIN req \ {k} :
          /\ req'[j].sentIn <= boots'[j[1]]
          /\ req'[j].response # NoTime =>
               /\ req'[j].answeredIn <= boots'[j[1]]
               /\ req'[j].answeredIn = boots'[j[1]]
                    => j[2] < request_id'[j[1]]
    BY <1>3, <1>4 DEF AnsweredBefore
  <2>7. /\ req'[k].sentIn <= boots'[k[1]]
        /\ req'[k].response # NoTime =>
             /\ req'[k].answeredIn <= boots'[k[1]]
             /\ req'[k].answeredIn # boots'[k[1]]
    BY <1>1, <1>4, <1>5, <2>2, <2>4 DEF Rows
  <2> QED BY <1>2, <1>5, <2>5, <2>6, <2>7 DEF AnsweredBefore
<1>6. CASE k \notin DOMAIN req
  <2>1. req'[k].response = NoTime /\ req'[k].sentIn = boots[c]
    BY <1>6 DEF RecordRequest, RowsMatch, NewRow
  <2> HIDE DEF k
  <2>2. InOrder'
    BY <1>2, <1>3, <1>6, <2>1 DEF InOrder
  <2>3. \A j \in DOMAIN req :
          /\ req'[j].sentIn <= boots'[j[1]]
          /\ req'[j].response # NoTime =>
               /\ req'[j].answeredIn <= boots'[j[1]]
               /\ req'[j].answeredIn = boots'[j[1]]
                    => j[2] < request_id'[j[1]]
    BY <1>3, <1>4, <1>6 DEF AnsweredBefore
  <2>4. req'[k].sentIn <= boots'[k[1]]
    BY <1>1, <2>1
  <2> QED BY <1>2, <2>1, <2>2, <2>3, <2>4 DEF AnsweredBefore
<1> QED BY <1>5, <1>6

(* A response that completes a row comes after the request it finds there. *)
LEMMA LifeResponse ==
  ASSUME TypeInv, RowsMatch, AnsweredBefore, InOrder,
         NEW m \in Datagrams, RecordResponse(m),
         Key(m.client, m.seq) \in DOMAIN req,
         m.boot <= boots[m.client],
         m.boot = boots[m.client] => m.seq < request_id[m.client],
         UNCHANGED <<boots, request_id>>
  PROVE  AnsweredBefore' /\ InOrder'
<1> DEFINE k == Key(m.client, m.seq)
<1>1. DOMAIN req' = DOMAIN req
  BY DEF RecordResponse
<1>2. CASE req[k].response = NoTime
  <2>1. req' = [req EXCEPT ![k].response = Timestamp(req[k]),
                           ![k].answeredIn = m.boot]
    BY <1>2 DEF RecordResponse, RowsMatch
  <2>2. \A j \in DOMAIN req : req[j] \in Rows
    BY DEF TypeInv, TypeOK, RowsMatch
  <2>3. DOMAIN req' = DOMAIN req /\ \A j \in DOMAIN req \ {k} : req'[j] = req[j]
    BY <2>1 DEF RowsMatch
  <2>4. /\ req'[k].request = req[k].request
        /\ req'[k].response = Timestamp(req[k])
        /\ req'[k].sentIn = req[k].sentIn
        /\ req'[k].answeredIn = m.boot
    BY <2>1, <2>2 DEF RowsMatch, Rows
  <2>5. Timestamp(req[k]) > req[k].request
    BY <2>2, TimestampType
  <2>6. k \in DOMAIN req /\ k[1] = m.client /\ k[2] = m.seq
    BY DEF Key
  <2> HIDE DEF k
  <2>7. InOrder'
    BY <1>1, <2>3, <2>4, <2>5 DEF InOrder
  <2>8. AnsweredBefore'
    BY <1>1, <2>3, <2>4, <2>6 DEF AnsweredBefore
  <2> QED BY <2>7, <2>8
<1>3. CASE req[k].response # NoTime
  <2>1. UNCHANGED req
    BY <1>3 DEF RecordResponse
  <2> QED BY <1>1, <2>1 DEF AnsweredBefore, InOrder
<1> QED BY <1>2, <1>3

(* A client that goes on, or is at a later number, has everything behind   *)
(* it that it had before.                                                  *)
LEMMA LifeFrame ==
  ASSUME TypeInv, RowsMatch, LifeInv,
         requests' \cup responses' \subseteq requests \cup responses,
         UNCHANGED <<req, boots>>,
         Advances
  PROVE  LifeInv'
<1>1. \A m \in requests \cup responses :
        m.client \in Clients /\ m.seq \in Nat /\ m.boot \in Nat
  BY DEF TypeInv, TypeOK, Datagrams
<1>2. \A k \in DOMAIN req : k[1] \in Clients /\ k[2] \in Nat
  BY DEF TypeInv, TypeOK
<1>3. \A c \in Clients : request_id[c] \in Int
  BY ExperimentAssumption DEF TypeInv, TypeOK
<1>4. SentBefore'
  BY <1>1, <1>3 DEF LifeInv, SentBefore, Advances
<1>5. AnsweredBefore'
  BY <1>2, <1>3 DEF LifeInv, AnsweredBefore, Advances
<1> QED BY <1>4, <1>5 DEF LifeInv, InOrder

(* What a client sends carries its life, and a number it then leaves.      *)
LEMMA LifeTransmit ==
  ASSUME TypeInv, SentBefore, NEW c \in Clients, NEW ok \in BOOLEAN,
         Transmit(c, ok), UNCHANGED boots,
         request_id' = [request_id EXCEPT ![c] = @ + 1]
  PROVE  /\ SentBefore'
         /\ Advances
<1>1. \A d \in Clients : request_id[d] \in Nat /\ boots[d] \in Nat
  BY ExperimentAssumption DEF TypeInv, TypeOK
<1>2. /\ request_id'[c] = request_id[c] + 1
      /\ \A d \in Clients \ {c} : request_id'[d] = request_id[d]
  BY DEF TypeInv, TypeOK
<1>3. \A m \in requests \cup responses :
        m.client \in Clients /\ m.seq \in Nat /\ m.boot \in Nat
  BY DEF TypeInv, TypeOK, Datagrams
<1>4. \A m \in requests' \cup responses' :
        \/ m \in requests \cup responses
        \/ m.client = c /\ m.seq = request_id[c] /\ m.boot = boots[c]
  BY DEF Transmit, Request
<1> QED BY <1>1, <1>2, <1>3, <1>4 DEF SentBefore, Advances

LEMMA LifeStep ==
  ASSUME TypeInv, AccountInv, LifeInv, [Next]_vars
  PROVE  LifeInv'
<1> USE DEF clientVars, routeVars, networkVars, listenerVars
<1>1. /\ RowsMatch /\ SentBefore /\ AnsweredBefore /\ InOrder
      /\ \A c \in Clients : request_id[c] \in Nat
  BY ExperimentAssumption
     DEF AccountInv, LifeInv, TypeInv, TypeOK
<1>2. ASSUME NEW c \in Clients, ContikiTurn(c), reachable[c] PROVE LifeInv'
  <2>1. PICK ok \in BOOLEAN : Transmit(c, ok)
    BY <1>2 DEF ContikiTurn
  <2>2. /\ RecordRequest(c)
        /\ request_id' = [request_id EXCEPT ![c] = @ + 1]
        /\ UNCHANGED boots
    BY <1>2 DEF ContikiTurn
  <2>3. SentBefore' /\ Advances
    BY <1>1, <2>1, <2>2, LifeTransmit
  <2> QED BY <1>1, <2>2, <2>3, LifeRequest DEF LifeInv
<1>3. ASSUME NEW c \in Clients, ContikiTurn(c), ~reachable[c] PROVE LifeInv'
  <2>1. UNCHANGED <<request_id, boots, networkVars, listenerVars>>
    BY <1>3 DEF ContikiTurn
  <2> QED BY <1>1, <2>1, LifeFrame DEF Advances
<1>4. ASSUME NEW c \in Clients, RiotBegin(c) PROVE LifeInv'
  <2>1. /\ RecordRequest(c)
        /\ UNCHANGED <<networkVars, request_id, boots>>
    BY <1>4 DEF RiotBegin, RiotDo, RiotOrder
  <2>2. SentBefore' /\ Advances
    BY <1>1, <2>1 DEF SentBefore, Advances
  <2> QED BY <1>1, <2>1, <2>2, LifeRequest DEF LifeInv
<1>5. ASSUME NEW c \in Clients, RiotEnd(c) PROVE LifeInv'
  <2>1. PICK ok \in BOOLEAN : Transmit(c, ok) /\ UNCHANGED listenerVars
    BY <1>5 DEF RiotEnd, RiotDo, RiotOrder
  <2>2. request_id' = [request_id EXCEPT ![c] = @ + 1] /\ UNCHANGED boots
    BY <1>5 DEF RiotEnd
  <2>3. SentBefore' /\ Advances
    BY <1>1, <2>1, <2>2, LifeTransmit
  <2>4. \A k \in DOMAIN req : k[1] \in Clients /\ k[2] \in Nat
    BY DEF TypeInv, TypeOK
  <2>5. AnsweredBefore'
    BY <1>1, <2>1, <2>2, <2>3, <2>4 DEF AnsweredBefore, Advances
  <2> QED BY <1>1, <2>1, <2>3, <2>5 DEF LifeInv, InOrder
<1>6. ASSUME NEW c \in Clients, Start(c) \/ Join(c) \/ LoseRoute(c)
      PROVE  LifeInv'
  <2>1. UNCHANGED <<networkVars, listenerVars, request_id, boots>>
    BY <1>6 DEF Start, Join, LoseRoute
  <2> QED BY <1>1, <2>1, LifeFrame DEF Advances
<1>7. ASSUME NEW c \in Clients, Reboot(c) PROVE LifeInv'
  <2>1. /\ boots' = [boots EXCEPT ![c] = @ + 1]
        /\ request_id' = [request_id EXCEPT ![c] = 1]
        /\ UNCHANGED <<networkVars, listenerVars>>
    BY <1>7 DEF Reboot
  <2>2. /\ boots'[c] = boots[c] + 1 /\ boots[c] \in Nat
        /\ \A d \in Clients \ {c} :
             boots'[d] = boots[d] /\ request_id'[d] = request_id[d]
    BY <2>1 DEF TypeInv, TypeOK
  <2>3. \A m \in requests \cup responses : m.client \in Clients /\ m.boot \in Nat
    BY DEF TypeInv, TypeOK, Datagrams
  <2>4. \A k \in DOMAIN req : k[1] \in Clients /\ req[k] \in Rows
    BY <1>1 DEF TypeInv, TypeOK, RowsMatch
  <2>5. SentBefore'
    BY <1>1, <2>1, <2>2, <2>3 DEF SentBefore
  <2>6. AnsweredBefore'
    BY <1>1, <2>1, <2>2, <2>4 DEF AnsweredBefore, Rows
  <2> QED BY <1>1, <2>1, <2>5, <2>6 DEF LifeInv, InOrder
<1>8. ASSUME NEW m \in requests, NEW again \in BOOLEAN,
             ServerReceive(m, again)
      PROVE  LifeInv'
  <2>1. /\ requests' \cup responses' \subseteq requests \cup responses
        /\ UNCHANGED <<listenerVars, request_id, boots>>
    BY <1>8 DEF ServerReceive, Echo
  <2> QED BY <1>1, <2>1, LifeFrame DEF Advances
<1>9. ASSUME NEW m \in responses, NEW again \in BOOLEAN,
             ClientReceive(m, again)
      PROVE  LifeInv'
  <2>1. m \in Datagrams /\ RecordResponse(m)
    BY <1>9 DEF ClientReceive, TypeInv, TypeOK
  <2>2. /\ responses' \subseteq responses
        /\ UNCHANGED <<requests, clientVars>>
    BY <1>9 DEF ClientReceive
  <2>3. Key(m.client, m.seq) \in DOMAIN req
    BY DEF AccountInv, RowsMatch, Keys, AnnouncedFirst
  <2>4. AnsweredBefore' /\ InOrder'
    BY <1>1, <2>1, <2>2, <2>3, LifeResponse DEF SentBefore
  <2>5. SentBefore'
    BY <1>1, <2>2 DEF SentBefore
  <2> QED BY <2>4, <2>5 DEF LifeInv
<1>10. CASE Lose \/ experiment_ended \/ UNCHANGED vars
  <2>1. /\ requests' \cup responses' \subseteq requests \cup responses
        /\ UNCHANGED <<listenerVars, request_id, boots>>
    BY <1>10 DEF Lose, experiment_ended, vars
  <2> QED BY <1>1, <2>1, LifeFrame DEF Advances
<1> QED
  BY <1>2, <1>3, <1>4, <1>5, <1>6, <1>7, <1>8, <1>9, <1>10
     DEF Next, ClientStep, Rejoin, Upset, Delivery, TimerEvent, OtherEvent

(* A response time is paired with the time of its own request and comes    *)
(* after it, whatever is lost, duplicated or late; times of two lives come *)
(* together only if the client restarted (experiment_latencies.py          *)
(* 117-136).                                                               *)
THEOREM RowAlwaysLatency == Spec => []RowIsLatency
<1>1. Init => LifeInv
  BY DEF Init, LifeInv, SentBefore, AnsweredBefore, InOrder
<1>2. TypeInv /\ AccountInv /\ LifeInv /\ [Next]_vars => LifeInv'
  BY LifeStep
<1>3. TypeInv /\ AccountInv /\ LifeInv => RowIsLatency
  BY OrderOfRow DEF AccountInv, LifeInv
<1> QED
  BY <1>1, <1>2, <1>3, TypeInvariance, AccountInvariance, PTL DEF Spec
-----------------------------------------------------------------------------
(* The clients that stop *)

(* The timer of a Contiki client never expires while it has no route.      *)
TurnsOnRoute == \A c \in Clients : TimerEvent(c) => reachable[c]

(* No client waits for an event that nobody posts. *)
NobodyStranded == \A c \in Clients : at[c] # "expired"

LEMMA StrandedStep ==
  TypeInv /\ NobodyStranded /\ [Next]_vars /\ [TurnsOnRoute]_vars
    => NobodyStranded'
<1> SUFFICES ASSUME TypeInv, NobodyStranded, [Next]_vars, [TurnsOnRoute]_vars
             PROVE  NobodyStranded'
  OBVIOUS
<1>1. at \in [Clients -> Positions]
  BY DEF TypeInv, TypeOK
<1>2. ASSUME NEW c \in Clients, TimerEvent(c) PROVE NobodyStranded'
  <2>1. at[c] = "armed" /\ ContikiTurn(c)
    BY <1>2 DEF TimerEvent
  <2>2. CASE reachable[c]
    <3>1. at' = [at EXCEPT ![c] = "armed"]
      BY <2>1, <2>2 DEF ContikiTurn, Rearmed
    <3> QED BY <1>1, <3>1 DEF NobodyStranded
  <2>3. CASE ~reachable[c]
    <3>1. at'[c] = "expired"
      BY <1>1, <2>1, <2>3 DEF ContikiTurn
    <3>2. TurnsOnRoute
      BY <2>1, <3>1 DEF vars, clientVars
    <3> QED BY <1>2, <2>3, <3>2 DEF TurnsOnRoute
  <2> QED BY <2>2, <2>3
<1>3. ASSUME NEW c \in Clients, OtherEvent(c) PROVE NobodyStranded'
  BY <1>3 DEF OtherEvent, NobodyStranded
<1>4. ASSUME NEW c \in Clients, Start(c) \/ RiotBegin(c) \/ RiotEnd(c)
      PROVE  NobodyStranded'
  BY <1>1, <1>4 DEF Start, RiotBegin, RiotEnd, AfterSend, NobodyStranded
<1>5. ASSUME NEW c \in Clients, Reboot(c) PROVE NobodyStranded'
  BY <1>1, <1>5 DEF Reboot, NobodyStranded
<1>6. ASSUME NEW c \in Clients, Join(c) \/ LoseRoute(c)
      PROVE  NobodyStranded'
  BY <1>6 DEF Join, LoseRoute, clientVars, NobodyStranded
<1>7. ASSUME NEW again \in BOOLEAN, Delivery(again) PROVE NobodyStranded'
  BY <1>7 DEF Delivery, ServerReceive, ClientReceive, clientVars,
              NobodyStranded
<1>8. CASE Lose \/ experiment_ended \/ UNCHANGED vars
  BY <1>8 DEF Lose, experiment_ended, vars, clientVars, NobodyStranded
<1> QED
  BY <1>2, <1>3, <1>4, <1>5, <1>6, <1>7, <1>8
     DEF Next, ClientStep, Rejoin, Upset

(* A client stops for no other reason than a timer that expired without a  *)
(* route: not for a loss, a restart or a send that failed, and a RIOT      *)
(* client never (udp-client.c 107-129, main.c 189-211).                    *)
THEOREM StrandedOnlyWithoutRoute ==
  Spec /\ [][TurnsOnRoute]_vars => []NobodyStranded
<1>1. Init => NobodyStranded
  BY DEF Init, NobodyStranded
<1> QED BY <1>1, StrandedStep, TypeInvariance, PTL DEF Spec
=============================================================================
