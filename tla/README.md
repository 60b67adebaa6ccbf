# A TLA+ development of ATLAHS

The repository is a tool chain that traces or generates the communication of
parallel programs and simulates it on a network. `goal_gen/` holds an MPI tracer
and the generators of GOAL schedules; `sim/LogGOPSim` executes schedules under
the LogGOPS model; `sim/htsim-backend` executes them, or connection matrices, on
htsim, a packet-level simulator to which this repository adds collectives that
the switches of a lossless fat tree carry out.

The modules here follow that chain: the tracer and its clock synchronisation,
the generator and the translator of traces, the execution of what they produce,
the bridge between a schedule and the network, and of the network the
collectives (multicast trees, fan-in barriers, release credits), the flow control
below them and the UEC transport over a trimming queue. TLC checks them on
small instances. TLAPS proves the flow control of a link lossless for every
threshold and latency, the multicast trees sound for every size of the fabric, the
collectives of the switches correct for every tree and set of operations, the
bridge for every schedule whose messages go to other ranks, the UEC flow for every
length and window, and the tracer for every size of buffers.

Paths below are relative to `src/sim/htsim-backend/sim/` unless they begin with
`goal_gen/` or `LogGOPSim/`, which stand for `src/goal_gen/hpc/` and
`src/sim/LogGOPSim/`.

## 1. Inventory

| Component | State it keeps | Operations | What makes it correct |
|---|---|---|---|
| Lossless link (`queue_lossless_output.cpp`, `queue_lossless_input.cpp`, `pipe.cpp`, `callback_pipe.cpp`) | egress queue, `_state_send`, `_sending`; ingress `_queuesize`, `_state_recv`; packets and frames in flight | enqueue, begin/complete service, receive a pause or a go, charge, release | bounded ingress occupancy, no lost or repeated frame, every pause is lifted |
| Host send queue (`FairPriorityQueue` in `queue.cpp`, `fairpullqueue.cpp`) | `_queuesize`, `_sending`, `_servicing`, `_state_send` | same, with its own rules for a pause | one frame in service, no frame overwritten |
| Switch data plane (`datacenter/fat_tree_switch.cpp`, credits in `queue_lossless_input.h`) | `_reduce_barriers`, live credits, `_packets`, `_fib`, `_inc_fib` | `handle_mcast`, `fanout_replicas`, `handle_reduce`, unicast descent | each contribution counted once, no partial result, each charge released once |
| Collective drivers (`datacenter/main_uec.cpp`), sources and sinks (`uec_collectives.*`), triggers (`trigger.cpp`) | `_sent_once`, `bytes_received`, `_activations_remaining` | set-up, `emit_once`, sink `receivePacket`, trigger activation | every member gets each piece it is due once; completion means all have |
| Multicast trees (`datacenter/fat_tree_topology.cpp`, `inc_fib.h`) | `rr_counter`, one `INCFibEntry` per group and switch | `set_up_mcast`, `build_mcast_tree`, `addMcastPort` | the tree is connected, acyclic, cabled, and agrees with the routing |
| UEC transport (`uec.cpp`) | `_highest_sent`, `_sent_packets`, `_cwnd`, `_rtx_pending`; the sink's `_cumulative_ack` and `_received` | `send_packets`, `processAck`, `processNack`, `retransmit_packet`; the sink's `receivePacket` | no packet lost or sent without need; the flow ends exactly when all has arrived |
| Trimming queue (`compositequeue.cpp`) | `_enqueued_low`, `_enqueued_high`, `_serv`, `_crt` | `receivePacket`, `beginService`, `completeService` | nothing in service is taken away, neither queue starves |
| Event list (`eventlist.cpp`) | pending sources and triggers, the clock | schedule, run next, cancel | time does not go back, nothing due is lost |
| GOAL bridge (`datacenter/logsim-interface.cpp`) | `_pending_collectives`, `aq`, `rq`, `uq`, `sends_active`, `compute_started`, `have_more`, CPU and NIC times | dispatch, `launch_collective`, `collective_complete`, `flow_over`, message matching | each node released once, the clock never freezes |
| LogGOPS simulator (`LogGOPSim/`) and GOAL graphs (`lgs/Parser.hpp`) | dependency counters, executable nodes, `aq`, `rq`, `uq` | mark started, mark done, the cases of the main loop | dependencies respected, every message meets its receive |
| Schedule generator (`goal_gen/Schedgen/schedgen.cpp`) | the labels, dependencies, tag and open ends of the rank at hand | `Send`, `Recv`, `Exec`, `Requires`, one function per pattern | the schedule ends and moves the data the pattern is named for |
| Trace translator (`goal_gen/Schedgen/process_trace.cpp`) | `curlocop`, open and persistent requests, `comm_map`, `nops` | one case per MPI function | the schedule keeps the order of the calls |
| MPI tracer (`goal_gen/liballprof/template.c`, `mpipf77log.c`, `sync.c`) | two buffers, two semaphores, `exitflag`, the file; `diffs` | log a record, swap, write, finalize; `sync_tree` | each record reaches the file once and in order; the clock differences are right |
| Other transports, topologies, scripts, applications | - | - | see section 5 |

How they interact. The tracer writes one file per rank, with the difference of
its clock at both ends. The translator turns the files into a GOAL schedule, a
graph of operations per rank; the generator writes such schedules directly. A
simulator starts an operation when its counter of dependencies reaches zero,
matches messages with receives by source and tag, and counts down what depends on
an operation when it starts and when it ends. Over htsim a send becomes a UEC
flow and its end an `OP_MSG` in `aq`; collectives are launched rank by rank by
the dispatch loop.

A source pushes its chunks into the host queue; the queue sends them through a
pipe into the ToR's ingress queue, which charges their bytes and hands the packet
to the switch. The switch replicates or folds it and gives the result a credit;
the egress queue calls the credit when a copy has left, and the last call
releases the ingress charges, which may send a GO back through a pause pipe to
the queue upstream. At a member's ToR the egress route ends in the member's
collective sink; its byte count activates the operation's barrier trigger, which
may start the sources of another operation, or, under a schedule, puts a marker
for every waiting rank into `aq` and takes control back from the event list.

What is hard. PAUSE, GO and completions of service meet at one instant in any
order; frames are in flight while the occupancy crosses the other threshold; one
ingress charge is released by counts in several queues; chunks of several
operations interleave at a switch; a charge may be held by a barrier that waits
for a packet behind the very pause the charge caused; operations are chained by
triggers; the tree, the barrier sizes and the ordinary routes come from different
code and have to agree; acknowledgements and trimmed headers come in any order
and each must find its packet; every rank's part of a schedule is generated
alone, and all must fit together; the clock of a schedule advances only through
events of another simulator; a writer thread clears the buffer the program
filled. `PROJECT.json` lists these hazards at their lines.

## 2. Modules

| Module | Models | Instantiated by |
|---|---|---|
| `Pfc` | the arithmetic of a port: charge, release, crossing the thresholds, the sender's three states | the next three |
| `LosslessLink` | one link with its timing, in ticks | `LosslessLink.cfg` |
| `LosslessLinkProofs` | theorems about `LosslessLink` | - |
| `HostNic` | the host queue and its ToR ingress queue, in ticks | `HostNicOnePort.cfg`, `HostNicManyPorts.cfg` |
| `HostNicProofs` | theorems about `HostNic` | - |
| `CollectiveOps` | the operations: who sends, what each member expects, how many activations | through the next two and `GoalCollectives` |
| `Collective` | the abstract collective: members contribute, pieces arrive, the operation completes | refined by `IncFabric` |
| `CollectiveProofs` | theorems about `Collective` | - |
| `IncFabric` | the switches of a group's tree, links, barriers, credits, sources, sinks and triggers | `MCIncFabric`, two configurations |
| `IncFabricProofs` | theorems about `IncFabric`, down to the refinement of `Collective` | - |
| `McastTree` | `set_up_mcast` over two and three tiers | `MCMcastTree` |
| `McastTreeProofs` | theorems about `McastTree` | - |
| `UecFlow` | source and sink of a UEC flow over a fabric that may trim and reorder anything | through `UecQueue` |
| `UecQueue` | the flow through a `CompositeQueue`; it implements `UecFlow` | `UecTrimming.cfg` |
| `UecProofs` | theorems about both | - |
| `GoalCollectives` | the dispatch loop of the bridge, the graphs' counters, messages, `launch_collective`, `collective_complete` | `MCGoalCollectives`, two configurations |
| `GoalProofs` | theorems about `GoalCollectives` | - |
| `Schedgen` | the patterns of the generator, as functions on the schedule built so far | through `GoalGen` |
| `TraceToGoal` | the translation of traces | through `GoalGen` |
| `LogGops` | the execution of a schedule by LogGOPSim | through `GoalGen` |
| `GoalGen` | what generated schedules do when they are executed | `MCGoalGen`, two configurations |
| `ClockSync` | `sync_tree` and `sync_peer` | through `Tracing` |
| `Tracing` | the tracer of one rank with its writer thread, `sync_tree` at both ends | `MCTracing` |
| `TracingProofs` | theorems about `Tracing` and `ClockSync` | - |

State and actions correspond to the code as follows.

`LosslessLink`. `txq`, `st`, `sending`, `left` are the egress queue
(`_enqueued`, `_state_send`, `_sending`, the scheduled completion), `wire` and
`pwire` the two pipes, `iq` the ingress queue. `Enqueue` and `ReceiveFrame` are
the two halves of `LosslessOutputQueue::receivePacket`, `CompleteService` is
`completeService`, `ReceiveData` and `Drain` are `receivePacket` and
`release_bytes` of `LosslessInputQueue`, and `Tick` is the event list moving to
the next instant: it is enabled only when nothing is due, and what is due at one
instant happens in any order.

`HostNic` differs where `FairPriorityQueue` does: `queuesize()` counts the frame
in service (`bytes` against `queued`), a completion is an entry of `events` so
that there can be two, and `aborted` records the assert of `beginService`.

`IncFabric`. Per link of the tree: the egress queue `out` with the credit of each
packet, the sender state `st`, the pipe `wire`, and for links into a switch the
ingress queue `iq` and the frames `pwire`. `barrier` is `_reduce_barriers`,
`credit` the live credit objects, `got` the sinks' byte counts, `remaining` the
triggers. `seen` and the `of` field of a packet are history: the program moves
byte counts and no data, and they record whose contributions the bytes stand
for. Actions: `Start` (`emit_once`), `NicSend` and `PortSend` (completion of
service, with the credit's `completedService`), `ReceiveFrame`, and one per way a
switch treats an arriving packet: `Replicate` (`handle_mcast`), `Fold` (a
contribution that is not the last), `Combine` (the last one: forward up, or turn
around at the apex), `Descend` (a rooted result on its way down); `Deliver` is
the sink with its trigger.

`McastTree`. One action, `SetUpGroup`, is a round of `set_up_mcast`; `fib` holds
the entries of the group last set up (groups do not share entries). Operators
then follow a multicast packet, a contribution and a descending result (from
`getNextHop`) over the entries.

`UecFlow`. `highest`, `sent`, `acked`, `nacked`, `rtx`, `finished` are the
source's `_highest_sent`, `_sent_packets` with its flags, `_rtx_pending` and
`_flow_finished`; `cum`, `ooo`, `sinkDone` the sink's `_cumulative_ack`,
`_received` and `_flow_completed`. The network is a bag: how many copies of each
packet, header, NACK and acknowledgement are under way. `RecvData` and
`RecvHeader` are the sink's `receivePacket` with the reply it sends, `RecvCumAck`,
`RecvOneAck` and `RecvNack` the source's, each with `send_packets` at its end;
`Trim` is what the fabric may do. `UecQueue` replaces `Trim` by the queue:
`Accept`, `TrimArriving`, `TrimNewest`, `DepartLow` and `DepartHigh`.

`GoalCollectives`. A node of a rank's graph passes from `dep_cnt` to
`executableNodes` (`Parser.hpp`) and to `aq` (`queued`). From there a computation
goes to `computing`, a collective to the `rank_nodes` of its entry in `coll`
(`_pending_collectives`) and back to `aq` as a marker, a send to a flow, to `aq`
as an `OP_MSG` (`msgs`) and, without its receive, to `uq`, a receive, without its
message, to `rq`; these two have a queue per sender, receiver and tag (`Channel`).
`DispatchCalc`, `DispatchColl`, `DispatchSend`, `DispatchRecv`, `DispatchMsg`,
`FinishCalc` and `HandleCollDone` are the cases of the loop's big switch, `PutBack`
what three of them do when the CPU or NIC is busy: the element returns to `aq` with
a later time, and the receive that a message had found goes to the end of its
queue. A time (`nexto`, `nextgs`, an element's `time`) is a set of tokens, each
named for the event at that time and taken away when it has come (`Pass`).
`Replenish` is the pass over `check_hosts`, `HandOver` and `CatchUp` the two
calls of `htsim_simulate_until`: up to the time the NIC of the round's last send
is free (`until`), and up to the head of `aq`. Inside it `due` and `later` are
the event list at the present picosecond and after it; `EmitOnce`,
`ActivateBarrier`, `flow_over`, `compute_over` and `null_over` are the events that
matter here. The barrier's targets run before any other event, so that the firing
and `collective_complete` are one step.

`Schedgen` and `TraceToGoal` are functions. The value they pass along is the
object `Goal` (operations, dependencies, current tag, independent starts and
ends) and, for traces, the variables of `process_trace`. `GoalGen` takes a case,
computes its schedule and hands it to `LogGops`, where `begun` and `past` hold
the operations that have started and ended, each with what had ended before it by
dependency or message: the properties are about these sets. `Launch` is the
replenishment and the cases `OP_LOCOP`, `OP_SEND` and `OP_RECV` for everything
executable, `Arrive` the case `OP_MSG`; `Meet` is the matching against `rq` or
`uq`. `Overrun` is the case `OP_MSG` of a message to a rank outside the job, for
which there are no queues (`LogGOPSim/LogGOPSim.cpp:229`, `:550`); what the program
does after that is undefined and nothing follows in the model. `Readable` is the
part of `LogGOPSim/txt2bin.re` that refuses a schedule for its peers.

`ClockSync` has the local variables of `sync_tree` per rank and the messages
between ranks, `Tracing` two threads with a program counter each (`user`,
`writer`), the buffers and the semaphores. `Pong` and `Serve` are the two sides of
`sync_peer`, `Merge` the messages by which a client takes over what its server
has measured, `Collect` the reports and the scatter.

Definitions marked as wrong variants in comments are not part of the models: each
is a plausible bug of the operator after it, and every property of a passing run
is known to fail when one of them replaces that operator (`mutants` in
`PROJECT.json`).

### Abstractions

- Packets of the modelled traffic have one size, so occupancy counts packets.
- `IncFabric` is not timed. The switch pipes add latency only, and a packet the
  switch accepts is in its egress queue at once; a pipe holds up to `WireCap`
  packets. `SenderConsistent`, proved of `LosslessLink`, is why "transmitting"
  can be read off the queue there (`Sending`).
- The fair queue of a host takes the next packet of any operation that has one,
  a superset of its round robin.
- `HostNic`'s defect is kept out of `IncFabric`: a GO is not taken by a host
  queue while the frame a PAUSE found in service is still there.
- One group per fabric; groups interact only through shared ports.
- A unicast charge is a credit of one drain. A barrier's charges are a set of
  ports; `ContributionsWhole` checks that the count agrees with it.
- Bundled links are one cable: trees use the first. Failed links are left out.
- UEC: whatever congestion control computes, the window is some value of
  `Windows` after each reply, and paths are any order of the packets. The window
  is counted in half packets, because a new packet needs room for a whole one and
  a repeated one only some room. The retransmission timer is not registered by
  `main_uec.cpp` (`datacenter/main_uec.cpp:1629`) and there is none in the model;
  the queue of headers holds 20000 times the other and never overflows here. One
  flow meets itself in the queue; cross traffic would only trim more, which
  `UecFlow`, of which everything is proved, allows at any time.
- `GoalCollectives` keeps of the network the arrival of the last packet a member
  waits for, which may follow any time after the last of its senders has emitted;
  what comes before is `IncFabric`'s. A flow is one event. There are stray
  events that no node waits for (acknowledgements, pause frames, timers). Event
  times are whole nanoseconds, events of one instant run in any order, and
  reading the front of an empty event list finds no event of this instant. A rank
  has one CPU and one NIC; with the default `-lgs_o` and `g` only computations
  take the CPU and only sends the NIC, for a time that is free in the model; a
  receive hands the time of its NIC on to its sender, as the code does. Nodes,
  ranks, tags and dependencies are any (`ScheduleAssumption`), several messages of
  one kind and exchanges included, but that a message goes to another rank: one to
  the own rank is put back into `aq` as a computation and handled as one at once
  besides (`datacenter/logsim-interface.cpp:808`), so that its node is done twice.
- `LogGops` has no clocks. A host's turn starts everything executable or takes
  in everything that has arrived, and the hosts take turns in any order; two
  messages from one host to another stay in order. Matching is that of the build
  as it stands: a queue per source and tag (`LIST_MATCH` is not defined). Either
  all messages are eager or all are rendezvous.
- Sizes and times are left out of `Schedgen` and `TraceToGoal`, as no dependency
  is chosen by them; a segmented pattern has a number of segments. In a trace a
  request is its address, an array of them consecutive addresses.
- Clocks of `ClockSync` have constant offsets, and a message takes one of the
  times in `Legs`. In `Tracing` a record takes some of a buffer's units.

## 3. Runs

| Run | Question | Bounds | States | Result |
|---|---|---|---|---|
| `LosslessLink` | does one link work with several packets and frames in flight? | High 3, Low 2, serialisation 2, latencies 3 and 6, backlog 3 | 10,103 | holds |
| `HostNicOnePort` | is a host's frame ever overwritten, with one egress port behind it? | High 2, Low 1, serialisation 2, drains 2 apart | 985 | holds |
| `HostNicManyPorts` | and when many ports drain the ToR? | same, drains 0 apart | - | violated |
| `IncTwoLevel` | do collectives over an uneven tree implement the abstract one, through pause and restart, and leave nothing behind? | 3 members, 3 switches of 2 levels, five programs of 1 to 3 chunks, High 2, Low 1 | 90,036 | holds |
| `IncOppositeOrder` | two allreduces emitted in opposite orders? | 2 members, 1 switch, 3 + 3 chunks | - | deadlock |
| `MCMcastTree` | do trees, barriers and routes agree for every group? | 2 pods of 2 ToRs of 2 hosts, 2 aggregation switches per pod, 2 uplinks; all 247 groups of two or more, 4 in a row | 3,956 | holds |
| `UecTrimming` | does a flow survive trimming, reordering and a changing window? | 5 packets, windows of 1, 2.5 and 4 packets, a queue of 2, headers and packets served 2 to 1 | 36,352 | holds |
| `GoalSchedule` | is every rank's node released once, after its operation or message, and does the schedule end? | 3 ranks, 16 nodes: 2 collectives, 4 messages, 2 computations | 155,866 | holds |
| `GoalMarkers` | do the markers of a completed operation run? | same | - | violated |
| `GoalGen` | which generated schedules end, at which sizes do they move their data, and is the order of a trace kept? | 257 cases: every pattern on 2 to 8 ranks, roots 0 to 2, 1 to 3 ways, nine sets of traces; eager and rendezvous | 426,194 | holds |
| `SchedgenResnet` | does the training step of `create_resnet152` run? | 2 ranks, 2 buckets | - | violated |
| `Tracing` | does every record reach the file once, and are the clock differences right? | 2, 3, 4 and 6 ranks, buffers of 4 units, records of 1 or 2, two slower pings end a session | 28,921 | holds |

Why the bounds are enough. The thresholds are the smallest that let a port be
paused, hold a second packet above the high threshold and be restarted. Latencies
longer than a serialisation put several packets and several frames on a wire,
which is what the order of frames is about. `IncTwoLevel` has the five shapes of
connection matrix the drivers know: an allreduce beside a reduction, a reduction
that triggers a broadcast, a `reduce_scatter`, an allgather, and an allreduce of
two chunks; two members under one ToR and one under another give switches with
different numbers of children. In `MCMcastTree` the index of a group runs through
every aggregation and core choice (`MaxGroups` is their product), and the fabric
is the smallest with more than one of everything. A queue of two in `UecTrimming`
is the smallest with one packet in service and another to trim; five packets fill
it, overflow it and come back out of order.

In `GoalSchedule` one rank computes before the broadcast and another receives a
message before it, so that a member arrives before, during or after it; the other
two send to each other; two messages of one tag follow each other as soon as the
NIC is free; messages find their receiver computing and are put back while two
receives of their kind wait; a receiver's own NIC may be busy; ranks go on without
waiting (`irequires`); and the two operations have two activations and one.
`MCGoalCollectives` draws the schedule. `GoalGen` takes all patterns of up to
eight ranks, where trees of three levels and rounds with wrap-around appear, the
sizes and roots at which a pattern fails included: `Runs` says which schedules run
to their end and `Carries` at which sizes every rank gets its data, and the two
properties are equivalences, so that neither list can be too long or too short.
Jobs of up to four ranks (`MaxInterleaved`) interleave rank by rank; in larger ones
all ranks move at once, which leaves the causal order what it is, since matching is
per source and tag. The traces use every translated call; in two of them requests
are answered out of order, or waited for once more after `MPI_Waitall` has answered
them; in one, two ranks meet two communicators in opposite orders; three
receive from any source. Six ranks in
`Tracing` are a tree of four and two outside it; the clock offsets are powers of
three, so that no wrong sum looks right.

What the safety properties say is stated above each in its module. The deepest:
`BoundedOccupancy` (losslessness of a hop), `FlowControl` (the two ends agree, and
frames alternate), `ChargesHeld` (the contract of the credits),
`ContributionsWhole` and `ExactlyOnce` (what the byte counts stand for),
`ImplementsCollective` (the whole fabric refines `Collective`),
`BarrierMatchesSenders` and `RoutesAgree` (three pieces of code agree on one
tree), `RepliesMeetTheirPacket` and `FinishExact` (what a flow knows of its
packets), `EachNodeOnce` and `EndsOrFreezes` (no rank is lost or released twice
by the bridge), `DataArrives` and `TraceOrderKept` (what a schedule is for),
`FileFaithful` and `DiffsRight` (what a trace is for). Most runs do not check
deadlock: when every operation is complete, every group set up, the flow over or
the schedule executed, the program stops.

Fairness. In `LosslessLink` and `HostNic` each internal action is weakly fair:
the event list runs whatever is scheduled, and the downstream queue drains. A
source is never obliged to offer a packet. In `IncFabric`, `GoalCollectives` and
`UecQueue` one weak fairness of the
whole next-state relation is assumed, the weakest there is: the program does not
stop while it has something to do. Their state spaces are finite and every step
moves something on, so this is enough for `AllComplete`, `EndsOrFreezes` and
`Completes`. In `Tracing` the synchronisation and each of the two threads
are weakly fair: the operating system runs every process and thread that can run.

### Findings

`HostNicManyPorts`: `FairPriorityQueue` restarts on a GO without looking whether
a frame is in service (`queue.cpp:454`), where `LosslessOutputQueue` does look
(`queue_lossless_output.cpp:66`). It needs the ToR to release high - low + 1
packets of one host within one serialisation time of the host's link, as when
they leave by different ports or over faster links.

`IncOppositeOrder`: with the charges of folded contributions held until the
result drains (`datacenter/fat_tree_switch.cpp:305`), two concurrent reductions
that two members emit in opposite orders pause each other for ever. The design
note says that concurrent operations of several MTUs complete
(`AA-plan-Aggregation/plan.md:252`). `OneFlowSpec` restricts members to one
operation in the host queue at a time, so that the order in which the queue
serves flows plays no part. Thresholds above the length of the messages hide it.

`GoalMarkers`: `have_more` is set when control returns from the event list while
the present picosecond has another event, it keeps the dispatch loop away from
`aq`, and only the next call of `htsim_simulate_until` clears it
(`datacenter/logsim-interface.cpp:472`). When the completion that set it was the
last thing outstanding, that call is never made (`:1228`, `:1237`): the main loop
spins with the completed operation's markers in `aq`. The comment at `:423` says
that control returns so that the markers run. `Frozen` is that state.
`datacenter/llama3_ab_pcm_g72/traces/SPG4/STALL_FINDING.md` records a stall with
these symptoms and suspects another cause.

`SchedgenResnet`: `create_resnet152` numbers its allreduces by a count that is
declared outside the loop over the ranks and never reset
(`goal_gen/Schedgen/schedgen.cpp:1178`), so that no two ranks give one allreduce
the same tag, no message meets a receive and every rank waits after its first
round. The build of the simulator without `LIST_MATCH` does not report it: the
test for left-over messages is compiled out (`LogGOPSim/LogGOPSim.cpp:831`).

`GoalGen` passes because `DataArrives` names the sizes at which data are missing. In
`create_allreduce_recdoub_rank` the send of a round requires the receive of the round
before and nothing else (`goal_gen/Schedgen/schedgen.cpp:1015`), and no receive
requires anything. The receive of the second round may be over before that of the
first, and the third send then passes on a sum that lacks the first. The comments
call a round a sendrecv, as in the algorithm of MPICH (`:962`, `:1012`), where each
is over before the next begins. With four ranks or fewer the gap does no harm; from
five on the schedule ends and some rank has not heard of another. Plain
dissemination has the same gap (`:413`), under no comment that promises more.

`GoalSchedule` shows besides that its schedule ends unless it reaches `Frozen` or
`Stalled`. In `Stalled` an operation waits for a member whose send waits for its
NIC, no event is left, and because `sends_active` is positive the network is not
run up to the head of `aq` (`datacenter/logsim-interface.cpp:1228`); the report
`datacenter/llama3_ab_pcm/results.md:90` describes this of another engine as found
and fixed.

## 4. Proofs

All theorems about `LosslessLink` are of `Safety`, the specification without
fairness, under `ThresholdAssumption` and `TimingAssumption` alone.

`LosslessLinkProofs` proves `TypeOK`, `SenderConsistent` and `FlowControl`, the
last as three: the ends of the link agree once the frames in flight have arrived
(`AgreementCorrect`), frames alternate (`AlternationCorrect`), and the announced
state fits the occupancy (`ThresholdsCorrect`). They form one inductive invariant
`IInv` together with `PipesOrdered`: a tick takes one off every age, and only the
head of a pipe is known not to be due, so the type of the ages needs their order.
The argument about the frames: a frame is sent only when the announced state
changes, so it differs from the last one in flight, or, when none is in flight,
from what the sender believes; arriving frames therefore alternate, and each one
changes the sender's belief.

It proves `BoundedOccupancy` last. The invariant for that adds `Budget` to
`IInv`: packets are at least a serialisation time apart on the wire (`Spaced`);
while a pause travels, what has arrived, is in the pipe and is in service fits in
the time since the threshold was crossed (`PauseOnItsWay`); once the sender has
taken it, nothing is launched (`PauseTaken`). `SpanFits` turns spans of time
into numbers of packets. Every conjunct was model-checked before it was proved.

`UecProofs` proves of a flow of any length, with windows as congestion control
pleases, over a fabric that may trim and reorder anything, that every packet that
was sent is in exactly one place until the sink has it (`OneCopy`), that each
reply finds its packet as the asserts of `mark_received` and `processNack` demand
(`RepliesMeetTheirPacket`) and that the flow is over exactly when all is
acknowledged and nothing of it is left (`FinishExact`). The inductive invariant
(`FlowInvariant`) needs `AcksInOrder`: no packet is acknowledged on its own while
it is the one after a cumulative acknowledgement, after the sink's count, or at
the front of what the source remembers. So the front only ever moves to a count
the sink announced, and the acknowledgement that empties the list is the one of
the last byte. `QueueIsAFabric` shows that the trimming queue is such a fabric,
step by step, and carries the results over to it; `QueueTypeCorrect` adds that it
never serves an empty queue. The assumptions are `FlowAssumption` and
`QueueAssumption`: a flow has a packet, a window is one packet or more.

Two action properties follow. `QueueWithinWindow`: a step that sends may send a
packet again for each that is waiting, each tested against what was sent before it,
so all but the last lie within the window (`SendFits`), and the last overshoots it
by the half packet that `resend_packet` tolerates. `QueueServiceKept`: a queue of
two packets or more never trims the packet it is sending. The size is a hypothesis
of that theorem (`MaxSize > 1`): in a queue of one packet the newest is the one in
service, and `receivePacket` takes it.

`McastTreeProofs` proves all four invariants of `McastTree` for every size of a
two- or three-tier fabric, every group, every pin and every number of groups set up
before: `TreeRoutesAgree`, `FloodsExact`, `BarriersMatchSenders` and the types. The
invariant (`IInv`) says what the code has built member by member: the entries are
those of the members' ToRs, of one aggregation switch per member pod and, if there
are two pods, of one core, all chosen with one index (`TreeOf`). That this is a
tree with a cable behind each port is arithmetic of the numbering: a host's pod is
its ToR's (`HostPlace`, since dividing twice is dividing by the product), the
aggregation switch chosen in a pod is one of it (`ChosenPlace`), and those of all
pods have cables to the core chosen (`CorePlace`: index and core agree modulo the
aggregation switches of a pod). The routing table ends up on the same switches
because it uses the same remainder (`NextHopsOnTree`). A flood, an ascent and a
descent are bounded recursions and are unrolled (`FloodSteps`): `GoesOn` says how
each of the six kinds of copies goes on, so `FloodIs` lists all that ever exist,
and each member but the sender is the end of just one. The only assumption is
`FabricAssumption`: sizes are positive, a pin is an integer.

`CollectiveProofs` proves of the abstract collective that nothing is delivered
before it was contributed (`PiecesHaveSources`), that completion means delivery
to every member (`CompletionIsTotal`) and that chains are respected
(`ChainsInOrder`). They carry over to the fabric by `Refinement`.

`IncFabricProofs` proves of every tree, group, set of operations and threshold that
reductions are whole (`WholeContributions`), that ingress charges are held as long
as they must be (`HeldCharges`), that each piece is delivered once (`PiecesOnce`),
that nothing is left at rest (`RestClean`), the types (`TypeCorrect`), and that each
step of the fabric is one of the abstract collective or none it sees (`Refinement`).
All come from one invariant, `IInv`, since none can be had alone:

- `Data` is about packets. `Shaped` says which packet belongs on which link, and
  whose data it carries there. `Contributions`: of one chunk, the contributions
  that exist, moving or folded, are of subtrees that do not meet, and none exists
  once its result does. So no contribution meets a barrier that has it, the barrier
  that is complete has heard each child once, and nothing arrives after the result.
  `Results`: copies of one result on different links lead to disjoint parts of the
  tree (`Side`), where nobody has had it; a switch that passes it on splits the
  part, an access link delivers it. So no member gets it twice.
- `Counts` ties bytes, pieces and triggers together.
- `Held` and `Charges`: a credit waits for the ports that hold its packet, an
  ingress queue counts the barriers and credits that hold its charges. That the key
  of a new credit is free (`FreshKey`) needs `Data`: a packet is on no link out of
  the switch it arrives at (`PassFreshAll`, `ResultFresh`).
- `FlowSound`: the last PAUSE or GO sent tells the state of its ingress queue, and
  a paused queue is not below the low threshold, which is not zero. So a queue with
  no charge is READY, and with no frame under way its sender is too (`RestClean`).

The proof has one lemma per action and part (`CombineData`, `CombineCharges`), and
one per action that puts them together (`CombineInv`). The assumptions are
`ThresholdAssumption`, `OpAssumption` and `TreeAssumption`. The last says that the
nodes are a finite tree: of any nodes one is highest and one is lowest. Induction
over the tree is replaced by that (`NoCycle`, `BelowIs`: what is below a node is
the intersection of the sets that hold it and are closed under children).

`HostNicProofs` proves of the host's first hop what its code does not check: a GO
never meets a transmission that is under way, so that no frame is overwritten
(`HostKeepsFrames`) and none is dequeued that is not there (`DequeuesAreSafe`).
That needs a bound, `RestartIsLate`: draining from above the high threshold to
below the low one takes longer than a frame, `(High - Low + 1) * DrainGap >
Service`. It is met whatever the thresholds when one egress port carries the
host's traffic at the rate of its own link (`OnePortKeepsFrames`), and it is tight:
TLC finds `FramesKept` violated when the two sides are equal, as it does in
`HostNicManyPorts`. The invariant carries the bound along the path of a pause:
until the ToR can send a GO (`ToGo`), then how far the GO is behind its PAUSE in the
pipe, then that the host, in PAUSE_RECEIVED, has less left to transmit than the GO
has to travel (`RestartsLate`). When the GO is there the host is therefore PAUSED,
with nothing in `_sending`.

`GoalProofs` proves of every schedule and every group that no node is lost or
released twice (`NodesAreKept`), that a rank gets past a collective, a send or a
receive only when that has happened (`ReleasesAreSound`), that the counters which
keep the network running equal what is outstanding (`CountersStand`), and that when
the main loop ends nothing is left (`BooksAreBalanced`). The only assumptions are
`OpAssumption` and `ScheduleAssumption`: dependencies stay within a rank, each
member has one node per collective, and messages go to other ranks. A rank may send
and receive, and any number of messages may have the same ends and tag. None of the
theorems is inductive: what a counter or a flag of the bridge means depends on
events that are scheduled. The invariant adds that a dependency count is the number
of what is not met (`DepsCounted`), which emissions and last packets are due or have
happened (`EventsFit`), the four phases of an operation with the receivers the
barrier still waits for (`Phases`), that of one channel messages and receives never
both wait and as many sends as receives are done (`PairsMeet`), and what is due
while the loop dispatches (`ControlFits`). Putting a message back turns its queue of
receives and changes none of this. `BooksAreBalanced` has two hypotheses, without
which the loop rightly ends with nodes left: `NothingNeedsItself`, the schedule has
an order, no set of nodes in which each needs another of the set, where a send or
receive also needs what its partners of the same channel need; and
`AsManySendsAsReceives` on every channel. `MCGoalCollectives` has TLC evaluate both
for its schedule.

`TracingProofs` proves of the tracer for every size of buffers, records and jobs
that the trace file has each logged line once and in order (`TraceIsFaithful`) and
that no buffer overflows and the semaphores stay binary (`BuffersNeverOverflow`).
The invariant lists the permits of the semaphores for each pair of states of the
threads (`Handshake`), that a writer at rest left the spare buffer empty
(`SpareEmpty`), and that the user thread is quiet from entering the last
synchronisation on (`Quiet`).

Of the synchronisation it proves for every size of the communicator, all clocks
and all times of messages that the differences rank 0 scatters are right, each up to
the slack of its own chain of measurements (`DifferencesRight`), and that never more
than two messages wait between two ranks, the rest of `TypeOK` (`TypesRight`). This
holds although ranks enter and leave `sync_tree` at different times, so that a fast
rank is a whole call ahead of a slow one. The proof has three layers:

- The tree as numbers. Powers of two and remainders give that every session of a
  rank is the session of exactly one pair of ranks, that both ranks of the pair
  agree on who is the client and how many values are sent, and that the blocks of
  ranks a client takes over in one round follow on those it had (`SessionPair`,
  `PairsDiffer`, `PairFacts`). That `Log2` and `Slack` are defined at all is proved
  too (`LogExists`, `RecursionExists`), from well-founded induction on sets.
- The messages (`Linked`). `Shake` lists what is on its way in both directions for
  each pair of states of client and server, and each difference in how often the two
  have ended their session: the client can be one ahead of a server that has not
  taken its abort yet, the server one ahead of a client that still merges.
  Nothing is on its way between ranks that are no pair.
- The values (`Valued`). What a rank holds between two sessions covers exactly the
  block it has measured so far (`Knows`), each entry right up to the slack from that
  rank to the entry's; the fastest round trip a client has kept is that of its
  difference (`Fresh`, `Kept`), the report of a rank outside the tree is right
  (`Truth`, `Reported`), and no rank has ended more calls than rank 0 (`Epochs`).
  All this is said of the ranks in rank 0's own call (`Current`), and what a client
  has taken over it has from such ranks only: rank 0 never mixes the values of two
  calls (`SyncInvariant`).

The assumptions are `SyncAssumption` and `TracingAssumption`.

Only model-checked: everything about `GoalGen`, whose generators are recursive
definitions (what their loops produce for every number of ranks would need
induction over them), and all liveness (`NoLostResume`, `HostResumes`,
`AllComplete`, `Completes`, `EndsOrFreezes`, `TraceComplete`), since fairness and
`ENABLED` are out of the prover's reach.

## 5. What is not modelled

- The transports and queues inherited from htsim that the pipeline of this
  repository does not use (TCP, NDP, EQDS, HPCC, Swift, RoCE, STrack), the other
  topologies and the traffic generators. They are most of the code of
  `htsim-backend`.
- The congestion control algorithms of UEC and the choice of paths, which are
  floating point and random; ECN; loggers.
- `goal_gen/liballprof2`, and of the wrappers generated from `template.c` those for
  C. `Tracing` follows `template.c` and the wrappers for Fortran
  (`goal_gen/liballprof/mpipf77log.c`, built as `libf77log`), of which one stands
  for all. The C wrappers (`mpipclog.c`, built as `libclog`) have the same buffers,
  threads and semaphores, but their calls of `sync_tree` and the lines with the
  clock differences are commented out (`:197-199`, `:244-246`): there, ranks do not
  synchronise in the tracer, traces have no clock differences, and the line of
  `mpi_finalize` that `LastLine` counts is missing. What is said of `ClockSync`
  does not apply to them, what is said of the buffers and the file does.
- The scanners of trace lines and of `LogGOPSim/txt2bin.re`, but for the peers the
  latter refuses, the reading of binary schedules, and the generators of schedules from AI and storage traces.
- Sizes in bytes (whole MTUs are assumed where the drivers' comments demand them),
  the unicast broadcast baseline, the parser of connection matrices.
- Of the generator, start positions and the computations of `--nb`; of the tracer,
  `sync_lin`, which nothing calls, and the build without a writer thread.
- The clocks of LogGOPSim and with them noise, visualisation, statistics and the
  messages that are put back while a CPU is busy; of the bridge, CPU time of
  messages (`-lgs_o`), several CPUs or NICs of a rank and messages of a rank to
  itself.
- Scripts, plots, applications and documentation, which hold no state.

### Limits noticed while modelling

Where the code is right only under a condition, a property says so, or the models
take the condition and stay inside it. The conditions met, with their lines:

- Generator. A round of a dissemination or of recursive doubling waits for the
  receive of the round before only, so that data may be passed on incomplete: from
  six ranks on in the plain and the one-way dissemination
  (`goal_gen/Schedgen/schedgen.cpp:413`, `:691`), from five on in the allreduce
  (`:1015`), on eight in `reduce_scatter_allgather` (`:1093`). Of several ways only
  the last send of a round waits for all receives of the one before (`:706`): with
  two ways data are missing from six ranks on, with three not on eight or fewer.
  `reduce_scatter_allgather` has partners outside the job unless its size is a
  power of two. The binary tree broadcast is right for root 0 only (`:330`). The
  chained dissemination sends to rank 9999999 (`:1248`), for which LogGOPSim has no
  queue. All these are in the run `GoalGen`. The dummy operations of
  `create_resnet152` depend on `ops.second` (`:1213`).
- Translator. A wildcard source is written as rank -2
  (`goal_gen/Schedgen/process_trace.cpp:86`), which the converter refuses, as it
  knows -1 only (`LogGOPSim/txt2bin.re:483`); ranks that meet their communicators
  in different orders get tags that never match (`process_trace.cpp:53`); both are
  in the run `GoalGen`. Peers in a subcommunicator are not translated to ranks of
  the job (`:684`); the receive of an `MPI_Sendrecv` is posted with the tag of its
  send (`:1025`).
- Tracer. `sync_tree` computes negative sizes for one rank
  (`goal_gen/liballprof/sync.c:101`).
- Bridge. A message that is put back moves the receive it had found to the end of
  its queue, so that messages of one kind may overtake one another
  (`datacenter/logsim-interface.cpp:1118`; modelled); a send to the own rank is
  handled twice (`:808`); two collectives of a group with one
  `op_flow_id` are merged (`:264`).
- Drivers. A group may name a host twice (`datacenter/connection_matrix.cpp:716`),
  a reduction of size zero keeps the default flow size
  (`datacenter/main_uec.cpp:1080`), and sources of collectives do not retransmit
  (`uec_collectives.cpp:53`), which is why the link has to be lossless.
- UEC. The retransmission timer is not registered (`datacenter/main_uec.cpp:1629`),
  so a flow relies on the trimmed header of every packet that is dropped; the sink
  draws the path of a reply from 128 whatever the number of paths (`uec.cpp:983`).

## 6. Plan

The modules were built from the network upwards: `Pfc` and `LosslessLink` with
their proofs, `HostNic`, `CollectiveOps` with `Collective`, `IncFabric` that
refines it, `McastTree`, `GoalCollectives`; then the transport (`UecFlow`,
`UecQueue`, `UecProofs`) and the tool chain (`Schedgen`, `TraceToGoal`, `LogGops`,
`GoalGen`, `ClockSync`, `Tracing`). What would come next, in this order:

1. Clocks in `LogGops`, and an order of messages and receives in `GoalCollectives`,
   for the rule that messages with equal source and tag do not overtake.
2. `CollectiveSizes`: chunking in bytes, expected bytes and block owners against
   the reference division, for sizes that are not multiples.
3. `EventList` with triggers and cancellation, as far as it carries properties of
   its own.
