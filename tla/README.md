# Formal models of the IoTeaPot MSWiM 2026 experiments

The repository holds five experiments of a paper on portable wireless sensor
network experimentation: firmware applications (C), one rewritten part of the
Contiki-NG network stack (TSCH slot operation), and the Python scripts that
schedule the experiments and reduce what they observe. This directory specifies
the parts that carry logic of their own, model-checks them with TLC, and proves
the most important invariants with TLAPS.

Paths below are relative to the repository. `slot-op` stands for
`3-experiment-tsch/app-contiki-tsch/tsch-slot-operation.c`.

## 1. Inventory

| Component | Where | State it keeps | Operations | What makes it correct |
| --- | --- | --- | --- | --- |
| rtimer arithmetic | slot-op 106-117, 299-357 | the clock, `current_slot_start`, both wrapping | `check_timer_miss`, `tsch_schedule_slot_operation` | a deadline counts as missed iff it is; the timer is never armed in the past |
| slot operation | slot-op 526-1265 | the slot protothread, ASN, slot start, last synchronization, current and backup link, burst flag and count, two ring buffers, the radio | association, slot start, transmit, receive, end of slot, reschedule, leave | slots stay on the network's grid; each correction is applied once; a node that loses sync leaves; rings do not overflow; the radio is off between slots |
| TSCH lock | slot-op 145-148, 200-256 | `tsch_locked`, `tsch_lock_requested`, `tsch_in_slot_operation` | get, release | granted between slots only; slots do not overtake a waiting caller; a caller is served |
| network uptime | slot-op 436-461 | reads `last_sync_asn`, `tsch_last_sync_time` | `tsch_get_network_uptime_ticks` | an uptime is the network's while the function ran, to within a known error; latencies follow |
| bursts | slot-op 583-589, 744-748, 992-993, 1176-1195 | frame pending bit, burst flag and count on both ends | request, grant, replay | both ends are in the next slot, on the same channel; a burst is bounded |
| TSCH applications | `node.c`, `coordinator.c` | send timer, `sent_counter` | periodic send, receive | a node goes on sending whatever a turn did; every packet has its line |
| TSCH experiment | `experiment_tsch.py` | associated nodes, sent, received | `TschListener` | the counts are what happened |
| Contiki UDP | `1-validation/app-contiki`, `2-experiments-latencies/app-contiki` | request number, timer | request, respond | every client eventually sends all its requests |
| RIOT UDP | `*/app-riot` | request number, command buffer | command reader, sender, server thread | the command is heard, whatever the UART brought before |
| validation checker | `1-validation/validation.py` | what was observed so far | `Checker`, the action schedule | a cell that passes did what the verdict says; a run without loss passes |
| latency experiment | `experiment_latencies.py` | request and response times | `RttListener` | a latency is one response minus its own request |
| move experiment | `4-validation-move-action` | counts per 30 s slice | moves, listener | the delivery ratio follows the distance (not modelled) |
| drift experiment | `5-experiment-drift` | first sample, samples | listener | drift is time minus cadence (not modelled) |

Outside the repository, and modelled only from how it is used: Contiki-NG
(schedule, queues, packets, timers, radio drivers), RIOT, Embassy, and the
IoTeaPot framework. The submodules are empty in this tree. `data/` holds results,
`Dockerfile` and `entrypoint.sh` only build and start; none is modelled.

### How the parts interact

The slot protothread runs in the rtimer interrupt. It gives way to process
context only where it yields: until the next slot, before CCA, before
transmitting, before the ACK, before listening. Processes share with it the two
ring buffers (the slot is the only producer, `tsch_tx_process_pending` and
`tsch_rx_process_pending` the only consumers), the lock flags, and the association
state (`tsch_slot_operation_sync`, `tsch_slot_operation_start`,
`tsch_disassociate`). Nodes interact through frames and ACKs, which carry the
clock correction and the frame pending bit. The applications read the network
uptime and log lines; the framework delivers the lines to the Python listeners,
which compute the results.

### What is hard here

Interrupt against process at every yield; a busy wait on a flag that the
interrupt clears; wrapped clock values; deadlines missed inside the loop that
computes the next one; flags that outlive the slot or the association they belong
to; builds that differ by options; two nodes that each decide alone what they do
together; results read off log lines that several processes print, and that a
restart or a fixed end of the run cuts short. `PROJECT.json` lists each hazard at
its line with the properties that cover it.

## 2. Modules

| Module | Models | Proofs |
| --- | --- | --- |
| `TschTimer` | the wrapped arithmetic and the loop that uses it | `TschTimerProofs` |
| `TschSlotClock` | the same loop on a clock that never wraps, abstractly | |
| `TschSlotLock` | the promise of `tsch_get_lock`, abstractly | |
| `TschSlotOperation` | slot operation, association, and `tsch_get_lock` on one node | `TschSlotOperationProofs` |
| `TschBurst` | bursts between two nodes that share a link | `TschBurstProofs` |
| `TschNetworkUptime` | `tsch_get_network_uptime_ticks` on several nodes, and the latency printed from it | `TschNetworkUptimeProofs` |
| `TschExperiment` | `node.c`, `coordinator.c` and `TschListener` | `TschExperimentProofs` |
| `ValidationSchedule` | the schedule of `validation.py`, the clients it drives, `Checker` | `ValidationScheduleProofs` |
| `LatencyExperiment` | Contiki and RIOT clients, the server, the network, `RttListener` | `LatencyExperimentProofs` |
| `MC...` | constants for TLC, one for each module with actions | |

What one node does inside a slot is in `TschSlotOperation`. The modules about several
nodes take from it what the others see of a slot: `TschBurst` its beginning, its
outcome and the choice of the next one, `TschNetworkUptime` its synchronization,
`TschExperiment` joining and leaving.

### TschTimer

`now` and `current_slot_start` wrap at `ClockRange`. `Work` lets time pass while a
slot computes; `ScheduleNext` is one turn of the do-while loop with its call of
`tsch_schedule_slot_operation`: it arms the timer, or it busy-waits and stays in
the loop (also when `rtimer_set` refuses); `Fire` is the interrupt, on time or
late. `lag` is a history variable: the true distance from the slot start to the
present. Nothing is decided on it but its own bound `MaxLag`: the deadline test and the
busy wait (`RTIMER_CLOCK_LT` in `RTIMER_BUSYWAIT_UNTIL_ABS`) compare wrapped values. That
comparison tells before from after within half a turn, so `HalfTurnAssumption` bounds
`MaxLag`: no slot is late by half a turn of the clock. The lag itself, from the previous
slot start, may be longer than half a turn. Everything else is a consequence.

`TschSlotClock` says the same of a clock that never wraps. `SlotClock` is its instance,
mapped from the wrapped values alone: the way from the slot start to the present, or
back once the timer is set. That `TschTimer` implements it (`WrapInvisible`) is what lets
`TschSlotOperation` count time without wraps.

### TschSlotOperation

Time is unwrapped here, since `WrapInvisible` settles the wrap. `pt` is the position of
the protothread. A segment of code between two yields is a chain of actions
through positions outside `Preemptible`, so that nothing interleaves with it;
each yield is a position inside it. `proc` is the position of process context in
`tsch_get_lock`, one action for each statement that touches shared state. Process
context is one thread in Contiki-NG, so one `proc` stands for all callers; the
second test of `tsch_locked` (line 230) is then always true, and the model has no
branch for its failure.

| Code | Actions |
| --- | --- |
| `tsch_slot_operation_sync`, `_start` | the same names; start is one action per turn of its loop |
| `tsch_get_lock`, `tsch_release_lock` | `RequestLock`, `SpinExit`, `TakeLock`, `ClearRequest`, `tsch_release_lock` |
| `tsch_slot_operation` | `WakeDisassociated`, `SkipSlot`, `BeginSlot`, `EndOfSlot`, `ScheduleNext` |
| `tsch_tx_slot` | `TxStart`, `TxCca`, `TxTransmit`, `TxReceiveAck`, `TxPost` |
| `tsch_rx_slot` | `RxStart`, `RxListen`, `RxSendAck`, `RxAccept` |
| consumers of the rings, leaving (external) | `ProcessPending`, `tsch_disassociate` |

Abstractions: a packet is whom it is for; the schedule may answer any link with any
gap and any backup that receives, or none; the radio medium may do anything at each
wait; a ring is the number of packets in it, with the capacity
`ringbufindex_peek_put` grants. Payloads, security, statistics, logs, backoff
windows and the link selector are left out. `corrections` is a history variable:
the sum of the corrections measured since association (when the build applies
them) and of the compensations added. `tsch_slot_operation_sync` places the slot of
association on the grid, so `corrections` starts from zero. A new association
begins only when no timer of the old one is armed: the scan for beacons takes
longer than a timer.

`TschSlotLock` says what the lock promises and `SlotLock` is its instance:
`granted` while `tsch_locked`, `wanted` while only the request is set.

### TschBurst

Two nodes, and third nodes that are not modelled but may be sent to and heard. `asn`
is the network's; a node waits for the slot `tsch_current_asn[n]` and executes it when
the two are equal. Both are synchronized, so a slot begins for both before it is
over for either (`ScheduleNext` waits for a node that has yet to wake).

| Code | Actions |
| --- | --- |
| beginning of a slot (1066-1142) | `SkipSlot`, `TxSlot`, `TxOther`, `RxSlot`, which share `Execute` |
| outcome (550-808, 832-995) | `Receive`, `TxFails`, `OtherEnds`, `RxEnds` |
| the loop (1173-1211) | `ScheduleNext`, with the number of turns it takes |

The frame pending bit is set in the queued packet, where a retransmission finds it
(`frame_pending`); what the sender itself expects is `burst_link_requested`, computed
anew for each transmission. The two may differ, and then the receiver replays the
link alone. `late` and `frames` are history: whether a node skipped or missed slots
since its last one, and how many frames its burst has had. Queues of `MaxQueue`
packets, and the schedule's answer is the next active slot of one slotframe.

### TschNetworkUptime

`tsch_get_network_uptime_ticks` runs in process context, one action per statement
(`Call`, `critical_enter`, `ReadAsn`, `ReadTime`, `critical_exit`), and `masked` keeps the
slot operation out (`SyncInSlot`, `Disassociate`). `Associate` is a process, which in
Contiki-NG does not preempt another (`Scheduled`). Its callers are `TakeUptime` and
`SendTo` (`node.c`), `udp_rx_callback` and `PrintLatency` (`coordinator.c`).

Time is counted in rtimer ticks of the network. The nodes' clocks run at its rate and
tick at instants of their own (`phase`): the drift between two synchronizations is
not modelled, a synchronization may be off by `GuardTime`. The unsigned 64-bit result is
a natural number that does not reach its width, `(uint64_t)-1` a value of its own. The
latency is printed as the code prints it, modulo the range of `unsigned long`
(`LongRange`): one below zero wraps. One packet is on its way at a time.

### TschExperiment

| Code | Actions |
| --- | --- |
| `node_process` | `Start`, `SendTo`, `LogSent`, `LogUnreachable` |
| `udp_rx_callback` of the coordinator | `Receive` |
| `tsch_slot_operation`, `tsch_process` | `Disassociate`, then `Leave`; `Associate` |
| `TschListener` | in the actions that print a line; `StopExperiment` |
| routes, queues, restarts (external) | `FindRoute`, `LoseRoute`, `Lose`, `Reboot` |

The send and its line are two steps: slots run in interrupts in between, and the
packet may be received first. `sent_counter` is an automatic variable of a
protothread, initialized again at each resumption, so it is 0 wherever it is read.
`due`, `forgotten`, `unlogged` and `sent_once` are history.

### ValidationSchedule

One cell of the matrix from start to verdict: `StartClient`, `SerialWrite`, `End` are the
timed actions, `StopServer` the one triggered by output, `ServerReceive` prints the line
that triggers it. `Checker` is in `Sees`, `SeesReception`, `Transmit`, `LateObservation` and
`verify`. Time counts in half seconds and jumps to the next instant at which
something is due; a datagram takes less than that. The RIOT command reader is
modelled byte by byte (`NoiseByte`, `SerialWrite`, both through `Reads`); Contiki's serial
line driver is external and hands over whole lines. What the nodes print is
reduced to what the checker finds in it. The order of a lost datagram and a missed
frame is arbitrary: the sniffer may capture what the server does not. A request may be
received more than once (`Receive`: the frame is sent again when its ACK is lost).
The line a RIOT client prints at its start holds the command's text
(`NamesCommandAtStart`), so the checker takes it for the echo (section 6).

### LatencyExperiment

The Contiki and RIOT UDP applications and the latency experiment in one module,
since the property that matters (a latency is one response minus its own request)
is about all of them.

| Code | Actions |
| --- | --- |
| `udp_client_process` (Contiki) | `Start`, `TimerEvent`, `OtherEvent`; one turn of the loop is `ContikiTurn` |
| `main` of the RIOT client | `Start`, `RiotBegin`, `RiotEnd` |
| `udp_rx_callback`, `recv_thread` | `ClientReceive` |
| the echo of the servers | `ServerReceive` |
| `RttListener` | `RecordRequest`, `RecordResponse` (called by the actions that print), `experiment_ended` |
| routes, datagrams, restarts (external) | `Join`, `LoseRoute`, `Lose`, `Reboot` |

A Contiki client handles an event without interruption, so its line and its send
are one step. A RIOT client may be preempted by its receiver thread between them,
so they are two. A Contiki wait ends at an event of the process with the timer
expired: at the expiry itself (`TimerEvent`), or, if the timer was left expired, at
any other event, such as a line on the serial port (`OtherEvent`).

Datagrams are sets: they are lost, overtake each other, and a delivery may leave a
copy behind (the ACK of the frame was lost). A datagram carries a number and its
sender, as in the code, and the life of its sender, as history. The histories
`announced` and `received` tell lives apart, which the rows of the listener do not:
comparing the two shows what a restart does to the summary. When the experiment ends
the nodes are gone, with what was on its way. The two times of a
row are numbered in the order in which the row received them: only their order
matters to a latency. The length of the intervals, `do_work` and the file are left
out. The order in which the
framework delivers the lines of a node is the order they were printed in. Rows
and `self.order` have the same keys in the code; the model keeps the rows.

## 3. Runs

| Run | Question | States |
| --- | --- | --- |
| `timer` | is the wrapped arithmetic exact, do its assumptions hold by themselves, can the wrap be seen? | 3.1 k |
| `slot_operation` | types, grid, desynchronization, rings, lock, radio, on a node or a coordinator | 2.9 M |
| `ablation_build` | the grid without correction; which slots leave the radio on, with CCA and on during slots; are waiting callers served? | 1.6 M |
| `burst` | do the two ends of a burst meet, on which channel, and is it bounded? | 1.8 M |
| `network_uptime` | how far off are uptimes and latencies; is an unknown one ever sent? | 9.0 M |
| `tsch_experiment` | what do the listener's counters mean; do nodes go on sending? | 0.3 M |
| `validation` | what does PASSED mean, and which runs may fail? | 0.4 M |
| `latency` | are the latencies and the summary about what happened; are all requests sent? | 0.8 M |
| `stale_burst`, `tsch_unreachable`, `validation_z1`, `latency_outage` | statements of comments, documents and code that the code does not keep (section 6) | |

Bounds, and why they are enough. Two links (an advertising Tx link and a minimal
link that does everything, of two slotframes) give all combinations of current and
backup link the code tells apart. Three channels make hopping visible. Rings of
one packet are full after one. `MaxAsn = 4` with a desynchronization threshold of 1
lets a node join, burst, skip, lose sync, leave and rejoin; `MaxGap = 2` and
`MaxMisses = 1` let gaps and missed deadlines add up. `MaxAsn` bounds where slots
begin, never where they end: a slot under way always runs to its end, so liveness
is not cut off. AckCorrections are within the truncation bound and beyond it on
both sides. The timer's clock of 42 values wraps every six slots, with slots
one tick short or long; `MaxLag = 26` is the most `HalfTurnAssumption` allows with the
shortest interval of 6, and more than half a turn.

For a burst, `MaxAsn = 8` with a slotframe of 3 and a burst length of 3 let a burst of
full length end and another begin; three queued packets are what the longest burst
needs; two channels let a node that is late share a channel by chance. Nodes are
interchangeable (symmetry). For the uptime, a slot and a clock tick of two rtimer
ticks and a guard time of one give every rounding and both orders of a slot's edge
and a tick within `MaxTime = 8`; `LongRange = 8` is the least power of
two `RangeAssumption` allows, and latencies below zero occur. For the TSCH experiment, two nodes, two expiries and
one restart let a node send, lose its route, leave, rejoin and restart while the
other is in the network; no symmetry, since liveness is checked. For the
validation, five requests are more than fit before the end, a line buffer of 4 bytes and a
command of 2 let noise fill, overflow and precede the command in every way, and two
losses are enough to lose the third request or all evidence of it; two copies
(`MaxCopies`) can put off the stop by two receptions.

For the latency experiment, one client of each system and two requests each: the
second request tells a client that goes on from one that stops, and lets an old
response meet a new request, also that of an earlier life of the client. `MaxOutages`
bounds lost routes and restarts together; one of them shows every effect. Responses
of both clients may arrive any number of times, and requests of the clients in
`Copied`, here the Contiki one: a request that arrives twice shows to a client only as
a response that may arrive twice. `CHECK_DEADLOCK FALSE`
stands where a run really ends: after `experiment_ended` or `verify`, or at the last
slot or tick of a bound.

Fairness (`FairSpec` of `TschSlotOperation`): an armed timer fires and the interrupt runs to its next
yield, which the hardware does; the process spinning in `tsch_get_lock` is given the
CPU while the interrupt has yielded, since it is the running process. `FairSpec` of
`LatencyExperiment`: timers expire, threads run, and a client without a route finds
one. `FairSpec` of `TschExperiment`: the event timer of a node posts its event and
its process runs, as the framework's event loop does; joining, routes and deliveries
are not fair, and `KeepsSending` does without them. In no module are deliveries,
other events of a process or the end of the experiment fair: nobody promises them.

## 4. Proofs

`TschTimerProofs`, for every clock width, guard, set of intervals up to half a turn of
the clock, and delay that leaves no slot late by half a turn:

- `CheckTimerMissExact`: `check_timer_miss(ref, offset, now)` holds iff `offset` has
  elapsed since `ref`.
- The invariant `IInv` adds to types that `now` is `current_slot_start` plus the true
  lag; with it, `RefAlwaysPrior`, `AlwaysArmedAhead`, `MissAlwaysExact`.
- `BusyWaitLag` is the lemma that needs the bound: the wrapped busy wait then ends at the
  target, or at once when the target is behind.
- `WrapAlwaysInvisible`: the loop implements `TschSlotClock`. The mapping does not use
  `lag`; `LagShown` proves that it gives the same, and every step then maps to one of the
  abstract clock.

`TschSlotOperationProofs`, for every set of links, hopping sequence, timing,
capacity, bound and option:

- `TypeCorrect` and `RoomAlwaysReserved` from `TypeInv`: the two strict bounds on the
  rings are what makes the types inductive.
- `LockIsSafe`: every step implements a step of the abstract lock or a stutter.
  `LockInv` says how `proc` and the flags agree, and that no slot is under way in
  "take" and "clear".
- `AlwaysOnGrid` from `GridInv`: slot start plus pending correction equals the grid
  plus the corrections measured. Inductive only with the fact that a pending
  correction exists only between its measurement and the loop, and that the node
  is then in sync: it cannot leave the network and carry the correction into the
  next association.
- `AlwaysDesyncBounded` from `SyncInv`, which follows the distance through the turns
  of the loop.
- `RadioAlwaysOffBetweenSlots` and `RadioOffGivenRoom` from `RadioInv`: outside the parts
  of a slot the radio is off, inside them it is on between two yields only in the build
  that keeps it on. The first theorem is about the build without CCA that turns the
  radio on in parts of a slot. The second is about the other build, with CCA or without,
  and assumes what that build needs: that every slot that begins finds room in its
  ring (`RoomFound`).
  `RadioAlwaysLeftOnOnlyIfFull` is about the same build without that assumption: a ring
  found full is the one way out of a slot that leaves the radio on. The run
  `ablation_build` has rings of one packet, in which this happens.
  With CCA and the radio on in parts only, the property is false (section 6), so no
  theorem covers that build.
- `HopUnlessLeftInBurst` from `HopInv`: the flag of a burst is up only from a grant to the
  slot that continues it. That a node is out of the network with its flag up
  (`BurstEnded` excludes it) is the only step that breaks `HopInv`: the defect of
  `stale_burst` has this cause and no other.

`LatencyExperimentProofs`, for every set of clients, any of them RIOT, any number of
requests, whatever is lost, duplicated or delayed:

- `LatencyTypeCorrect` from `TypeInv`, which knows that a client between printing and
  sending still has a request to send, and that the rows are finitely many.
- `PdrAlwaysHonest` from `AccountInv`: there is a row for each number announced, answered
  if a response with the number was received. Inductive only because whatever is on
  its way was announced first, in the life it left in (`AnnouncedFirst`): no response
  finds its row missing. `OnePerNumber` counts: a set of datagrams without those whose
  number an earlier life had used has as many members as the set has numbers (a
  bijection, the earliest life of each number being its witness). So the summary
  leaves out exactly those, and none while no client restarted (`AnnouncedBefore`).
- `RowAlwaysLatency` from `LifeInv`: what is on its way, and the response of a row, left
  in an earlier life of its client or carries a number the client is past. So the
  line of a request finds no response of its own life in its row, and only a restart
  brings times of two lives together (section 6).
- `StrandedOnlyWithoutRoute`: as long as no Contiki timer expires without a route
  (`TurnsOnRoute`, an action property), no client waits for an event that nobody posts:
  losses, restarts and failed sends do not stop a client, and nothing stops a RIOT one.

`TschBurstProofs`, for every hopping sequence, slotframe and burst length, two nodes
and any number of packets:

- `BurstAlwaysMeets` and `BurstAlwaysBounded` from `NodeInv` and `MeetInv`. `BurstMeets`
  is not inductive: it speaks of two nodes that wait for the same slot, while they end
  theirs one after the other. `MeetInv` follows the peer while the burst of a sender
  goes on: it is still in the slot of the last frame, or waits for the next one on the
  same channel, or is late and already beyond it, or has begun that slot first.
  `NodeInv` adds that a request always leaves room for one more frame, and that a
  granted burst never sent more frames than it counted.
- `BurstAlwaysKeepsChannel` from `ChannelInv`: as long as the grant lasts, ASN minus count is
  the slot the burst began in. Each turn of the loop adds to both.

`TschNetworkUptimeProofs`, for every timeslot length, clock tick, guard time and phase
of the clocks:

- `UptimeAlwaysAccurate`, `UnknownIsNeverSent` and `LatencyAlwaysAccurate` from
  `PairInv` (the ASN and the time of the last synchronization were written at one
  instant), `ReaderInv` (what a caller has computed at each step of the function, with
  interrupts masked) and `PacketInv` (what a packet carries was right when it was
  taken). The divisions that truncate are bounded once, in `DivBounds`; the error is
  at most a timeslot, a guard time and two roundings behind, and a guard time and a
  rounding ahead. For the printed latency, the range of `unsigned long` is larger than
  any difference of two uptimes (`RangeAssumption`): a value is either within the
  errors or a negative one wrapped once, and this only if the packet took less time
  than the errors.

`TschExperimentProofs`, for every finite set of nodes:

- `AlwaysAssociatedCount` and `AlwaysDeliveryAccounts` are balances between the
  listener's counters and the cardinality of a set of nodes (in the network; between
  sending and logging). They are inductive together with the types and
  `OffInv` (a node that is off has neither application nor network); one lemma says what
  a node that enters or leaves a set does to its cardinality.
- `RatioNeverPessimistic` and `WholeUnlessUnreachable` say what the missing "S:unreachable"
  does to the delivery ratio: it can only be too high, and it leaves out exactly the
  expiries at which a node that has sent before finds no route (`DueStep`).

`ValidationScheduleProofs`, for every buffer length, command, bound on losses, and
set of cells:

- `VerdictAlwaysSound`: from `CountInv` (the highest number the client printed is one less
  than the next; no datagram and no reception carries a number that was not printed;
  the server stops only after a reception) and `VerdictInv` (PASSED is given only
  after the end, when the checker's conditions hold).
  For RIOT the condition on the echo says nothing (section 6); what the theorem
  concludes rests on the requests alone.
- `AlwaysStopAtThird`, from `OrderInv`: as long as no request is lost, the server is told to
  stop at its third reception, never before, and later only by the copies it received.
- `CommandAlwaysHeard`, from `NoiseInv`: the noise before the command is what the line holds
  plus whole buffers that were dropped. So noise of no remainder leaves the line
  empty, and `CommandReadWhole` says that an empty line takes the whole command. That
  lemma is about a recursive function of the bytes; it is proved by a least
  counterexample (`SmallestNat`), not by the induction theorems of the library.
- `LosslessAlwaysPasses`, from `PaceInv`, a timing argument: `Latest` bounds the time of each
  request by the random delays so far, every datagram is received 4 s before the next
  can follow, and the server stops between the third and the fourth. So at the end the
  client of a Contiki cell has sent its fourth request, that of a RIOT cell at least
  its third. Two hypotheses: `N_REQUESTS >= 4` (it is 5, `app-contiki/Makefile` 9 and
  `app-riot/udp-client/Makefile` 50), and a server that stops within 3.5 s, which the
  schedule assumes and nothing enforces. The run has stop times within this bound.
- `Z1NeverPasses`, from `Z1Inv`: a Z1 whose client finds a route and whose requests arrive
  sends by the 45th second of a run of 60 s, so its cell cannot pass, whatever the delays
  (section 6).

Assumptions are the named `ASSUME`s of the modules. `MaxMisses`, `MaxAsn`,
`MaxTime`, `MaxOutages`, `MaxLosses`, `MaxCopies` and `Copied` are bounds of the model, arbitrary in the proofs.

Only model-checked: `LockPromise`, `RequestsSentOnRoute` and `KeepsSending`, which are
liveness under fairness and out of the prover's reach. Every invariant that a passing
run checks has a theorem.

## 5. What is not modelled

- The move experiment (`4-validation-move-action`): its client and listener only
  count per slice of 30 s; what they show, the delivery ratio over the distance, is
  a property of a probabilistic medium outside the repository.
- The drift experiment's listener (`5-experiment-drift`): a subtraction per sample by
  one thread, without state that another reads.
- Of the slot operation: the parsing and building of frames, security
  (`LLSEC802154_ENABLED` is off in these builds), logs, random backoff and the
  statistics of the links. Clocks drift in `TschTimer` and `TschSlotOperation`, where
  each synchronization measures another correction, and do not
  in `TschBurst` and `TschNetworkUptime`, which bound its effect by the guard time.
- Of the TSCH applications: RPL, of which only the route's existence is kept, and the
  receive callback of a node that is not the coordinator, which nothing sends to.
- Embassy (its application is not in the repository), RIOT, Contiki-NG and the
  framework, except as they are used; the image and the recorded data.

One thing could be added: a composition of two `TschSlotOperation`s with drifting
clocks, of which `TschBurst` would be the abstraction. It is beyond what TLC explores here.

## 6. Where comments and code differ

Shown by a run:

- `stale_burst`: the burst flag survives leaving and rejoining; the first slot after
  that does not hop. `HopUnlessLeftInBurst` proves that nothing else has this effect.
- `tsch_unreachable`: `sent_counter` is an automatic variable of a protothread,
  initialized at each resumption (`node.c` 93): it is 0 whenever a turn did not send,
  so "S:unreachable" (`node.c` 129-130) is never printed, and the expiries of a node
  that lost its route are missing from the delivery ratio, and by
  `WholeUnlessUnreachable` nothing else is.
- `validation_z1`: `validation.py` 244-246 says the request stream of a Z1 under Cooja
  never starts. The Contiki client built for the Z1 does not wait for the command
  (`udp-client.c` 84) and sends its first request before the end; the checker, which
  expects silence, then calls the cell FAILED: always, by `Z1NeverPasses`, when the client
  has a route.
- `latency_outage`: the Contiki client does not set its timer again when the root is
  unreachable, and then waits for an event that nothing posts. By
  `StrandedOnlyWithoutRoute` nothing else stops a client.

Read in the code, not run:

- `tsch_get_lock` clears the request once the lock is taken, and the slot operation
  only tests the request (slot-op 233, 1069): a slot may run while the lock is held,
  although the comment at line 212 says "no slot operation". `LockSafety` says what
  does hold.
- With CCA, and with the radio off between the parts of a slot (comment at slot-op
  498), the radio stays on after a slot that found the channel busy (line 628 skips
  the block that turns it off).
- In the build that keeps the radio on during slots, a slot that finds its ring full
  returns at once (lines 552 and 832) and leaves the radio on, which the comment at
  494-499 has turned off at the end of the timeslot. `RadioLeftOnOnlyIfFull` says that
  this is the only such way out; the run `ablation_build` reaches it.
- The busy wait after a missed deadline (slot-op 344) compares within half a turn of the
  clock. A slot late by half a turn or more would be taken for one ahead, and the CPU
  held for nearly the other half: the reference time is then a turn behind, against
  the comment at 297-298. `HalfTurnAssumption` is what excludes this.
- A receiver learns of a burst from the frame pending bit, which a packet keeps when
  it is sent again: after a lost ACK it may replay the link alone. A node that is late
  in a burst stays on the burst's channel in the slot it wakes for (`BurstKeepsChannel`).
- `tsch_current_burst_count` survives leaving and rejoining, as the flag does: the first
  burst after that may be shorter (slot-op 585, 1193, 1224-1265).
- The latency of `node.c` and `coordinator.c` is the difference of two uptimes and can
  be below zero by the error `LatencyAccurate` bounds; it is then printed as a number
  near the largest `unsigned long`.
- After a restart the clients count from 1 again, and the latency listener
  (`experiment_latencies.py` 128) keeps the response of the earlier request beside the
  time of the new one: the latency may be negative. The summary counts a number used
  again once, and the earlier response counts for a new request that has none: the
  printed ratio may be too high. `PdrHonest` says how far.
- Each restart of a node in the TSCH network adds one to the count of associated
  nodes, which nothing takes back; `AssociatedCount` states the surplus.
- If the datagram with the third request is lost, the server of the validation is
  never stopped. If a request before it is received twice, the server is stopped at a
  later reception than the third, against the comment at `validation.py` 199.
- The assertion at `validation.py` 193-195 ("the injected command is echoed back") holds
  for a RIOT client from its start on: the client prints "Waiting for 'send-data' command
  on UART..." (`app-riot/udp-client/main.c` 93), and line 144 takes any line with the
  command in it, 20 s before the command is written. The requests are what shows
  that it was obeyed (`VerdictSound`).
- The README of the validation speaks of a request every 5 s, and a comment in the RIOT
  client (`app-riot/udp-client/main.c` 204) of [4, 5) s; `SEND_INTERVAL_MS` is 10 s (line
  30). The fourth request may then fall after the end, and a run in which nothing is
  lost may FAIL: the exception for RIOT in `LosslessPasses`.
- With a custom join sequence, an EB fetched in a burst slot goes out on the channel of
  the burst (slot-op 361 says EBs are only sent using the sequence).
- `project-conf.h` of experiment 3 speaks of a build without per-slot correction, and
  enables it.
