--------------------------- MODULE GoalCollectives ---------------------------
(***************************************************************************)
(* The bridge between a GOAL schedule and the simulated network: the        *)
(* dispatch loop over aq, the nodes' dependency counters, the matching of   *)
(* messages and receives, the state launch_collective keeps for an          *)
(* operation until its members have arrived, and the hand-over of control   *)
(* to the event list and back (logsim-interface.cpp, lgs/Parser.hpp).       *)
(*                                                                          *)
(* Of the network only events are left: a source emits, the last packet a   *)
(* member waits for arrives, a flow is over, a computation ends, and stray  *)
(* events, such as acknowledgements and pause frames, that no node waits    *)
(* for.  Times are whole nanoseconds, and none is kept as a number: a time  *)
(* to come is named by what happens then, the end of a computation or of    *)
(* the time a rank's last send keeps its NIC.  A rank has one CPU and one   *)
(* NIC; as the defaults of the bridge have it, only computations take CPU   *)
(* time and only sends keep a NIC busy, but a receive hands on the time of  *)
(* its own NIC to the CPU and the NIC of the rank whose message it finds.   *)
(***************************************************************************)
EXTENDS CollectiveOps

CONSTANTS
    Node,      \* the nodes of all the ranks' graphs
    Rank,      \* the rank of a node
    Task,      \* what it is: a collective operation, Calc, Send or Recv
    Calc, Send, Recv,
    Peer,      \* the other rank of a send or receive
    Tag,       \* and its tag
    Requires,  \* the nodes that must be done before a node
    IRequires  \* the nodes that must be started before it

(* The sender, the receiver and the tag of a send or receive: messages are  *)
(* matched by these, first come, first served.                              *)
Channel(n) ==
    IF Task[n] = Send THEN <<Rank[n], Peer[n], Tag[n]>>
    ELSE <<Peer[n], Rank[n], Tag[n]>>

Channels == {Channel(n) : n \in {m \in Node : Task[m] \in {Send, Recv}}}

Sends(c) == {n \in Node : Task[n] = Send /\ Channel(n) = c}
Recvs(c) == {n \in Node : Task[n] = Recv /\ Channel(n) = c}

(* Every member has one node per operation, messages go to other ranks, and *)
(* dependencies stay within a rank: a GOAL schedule is a graph for each     *)
(* rank.                                                                    *)
ASSUME ScheduleAssumption ==
    /\ IsFiniteSet(Node)
    /\ {Calc, Send, Recv} \intersect Op = {}
    /\ Cardinality({Calc, Send, Recv}) = 3
    /\ Rank \in [Node -> Member]
    /\ Task \in [Node -> Op \union {Calc, Send, Recv}]
    /\ \A n \in Node :
        Task[n] \in {Send, Recv} => Peer[n] \in Member \ {Rank[n]}
    /\ Requires \in [Node -> SUBSET Node]
    /\ IRequires \in [Node -> SUBSET Node]
    /\ \A n \in Node :
        \A m \in Requires[n] \union IRequires[n] : Rank[m] = Rank[n]
    /\ \A o \in Op, h \in Member :
        \E n \in Node : \A m \in Node : m = n <=> (Rank[m] = h /\ Task[m] = o)

VARIABLES
    dep_cnt,          \* per node: dependencies not yet met
    executableNodes,  \* freed, not yet put into aq
    queued,           \* in aq, not yet dispatched
    computing,        \* in aq as OP_LOCOP_IN_PROGRESS
    markers,          \* per node: its OP_COLL_DONE entries in aq
    msgs,             \* sends whose OP_MSG is in aq
    rq, uq,           \* per channel: receives without a message and sends
                      \* without a receive, in the order they came
    nic, cpu,         \* per rank: nextgs and nexto, as the latest of these times
    time,             \* per node in aq: the time it is put back with, likewise
    until,            \* the rank of the last send of this round, if any
    finished,         \* per node: how often it was marked as done (history)
    coll,             \* _pending_collectives, by operation
    remaining,        \* the barriers' _activations_remaining
    sent_once,        \* sources that have emitted, as <<operation, member>>
    due,              \* events pending at the present instant
    later,            \* events pending after it
    sends_active,
    compute_started,
    have_more,
    simulating        \* inside htsim_simulate_until

graph == <<dep_cnt, executableNodes>>
aq == <<queued, computing, markers, msgs>>
matching == <<rq, uq>>
clocks == <<nic, cpu, time, until>>
network == <<remaining, sent_once, due, later>>
counts == <<sends_active, compute_started>>
control == <<have_more, simulating>>
vars == <<graph, aq, matching, clocks, finished, coll, network, counts, control>>

CalcEnd(n) == <<"calc", n>>
FlowOver(n) == <<"flow", n>>
NullEvent(h) == <<"null", h>>
Emission(o, h) == <<"emit", o, h>>
LastPacket(o, h) == <<"last", o, h>>
Stray(o) == <<"stray", o>>
Event == {CalcEnd(n) : n \in Node} \union {FlowOver(n) : n \in Node}
           \union {NullEvent(h) : h \in Member}
           \union {Emission(o, h) : o \in Op, h \in Member}
           \union {LastPacket(o, h) : o \in Op, h \in Member}
           \union {Stray(o) : o \in Op}

Init ==
    /\ dep_cnt = [n \in Node |-> Cardinality(Requires[n])
                                   + Cardinality(IRequires[n])]
    /\ executableNodes = {}
    /\ queued = {n \in Node : dep_cnt[n] = 0}
    /\ computing = {}
    /\ markers = [n \in Node |-> 0]
    /\ msgs = {}
    /\ rq = [c \in Channels |-> <<>>] /\ uq = rq
    /\ nic = [h \in Member |-> {}] /\ cpu = nic
    /\ time = [n \in Node |-> {}] /\ until = {}
    /\ finished = [n \in Node |-> 0]
    /\ coll = <<>>
    /\ remaining = [o \in Op |-> 0]
    /\ sent_once = {}
    /\ due = {} /\ later = {}
    /\ sends_active = 0 /\ compute_started = 0
    /\ have_more = FALSE /\ simulating = FALSE

-----------------------------------------------------------------------------
(* How many of m's dependencies are met when the nodes of started start and *)
(* those of done are done.  (Wrong variant: what depends on the start of a  *)
(* node is counted again when it is done.)                                  *)
MetTwice(m, started, done) ==
    Cardinality(IRequires[m] \intersect (started \union done))
      + Cardinality(Requires[m] \intersect done)

Met(m, started, done) ==
    Cardinality(IRequires[m] \intersect started)
      + Cardinality(Requires[m] \intersect done)

CountDown(started, done) ==
    /\ dep_cnt' = [m \in Node |-> dep_cnt[m] - Met(m, started, done)]
    /\ executableNodes' = executableNodes \union
                            {m \in Node : dep_cnt[m] > 0 /\ dep_cnt'[m] <= 0}
    /\ finished' = [n \in Node |-> IF n \in done THEN finished[n] + 1
                                    ELSE finished[n]]

(* Markers for the nodes of S, when active completions are outstanding.     *)
push_coll_done(S, active) ==
    /\ markers' = [n \in Node |-> IF n \in S THEN markers[n] + 1
                                  ELSE markers[n]]
    /\ sends_active' = active - Cardinality(S)

-----------------------------------------------------------------------------
(* The state of an operation, and what becomes of it: the entry is dropped  *)
(* when the operation is complete and every member has arrived.  (Wrong     *)
(* variants: the entry stays; the recorded nodes stay on completion; a      *)
(* member that arrives after the completion is recorded like the others.)   *)
CollOpState(o) ==
    IF o \in DOMAIN coll THEN coll[o]
    ELSE [arrived |-> 0, completed |-> FALSE, rank_nodes |-> {}]

StoreForEver(o, st) ==
    coll' = [p \in DOMAIN coll \union {o} |-> IF p = o THEN st ELSE coll[p]]

Store(o, st) ==
    LET gone == st.completed /\ st.arrived = Len(Group)
        kept == IF gone THEN DOMAIN coll \ {o} ELSE DOMAIN coll \union {o}
    IN  coll' = [p \in kept |-> IF p = o THEN st ELSE coll[p]]

CompletedKeepingNodes(st) == [st EXCEPT !.completed = TRUE]

Completed(st) == [st EXCEPT !.completed = TRUE, !.rank_nodes = {}]

NeverLate(st) == FALSE

Late(st) == st.completed

(* A rank reaches its collective.  The first to do so registers every       *)
(* member's sink and arms the barrier; an emitter's source is scheduled at  *)
(* once.                                                                    *)
launch_collective(n) ==
    LET o == Task[n]
        h == Rank[n]
        st == CollOpState(o)
        here == [st EXCEPT !.arrived = @ + 1]
    IN  /\ remaining' = IF o \in DOMAIN coll THEN remaining
                        ELSE [remaining EXCEPT ![o] = Activations(o)]
        /\ due' = due \union
                    (IF h \in Emitters(o) THEN {Emission(o, h)} ELSE {})
        /\ IF Late(st)
           THEN /\ push_coll_done({n}, sends_active + 1)
                /\ Store(o, here)
           ELSE /\ UNCHANGED markers
                /\ sends_active' = sends_active + 1
                /\ Store(o, [here EXCEPT !.rank_nodes = @ \union {n}])

-----------------------------------------------------------------------------
(* The dispatch loop.  It takes what is due out of aq, in any order, unless *)
(* have_more is set.                                                        *)
OnTime(n) == n \in queued \union msgs /\ time[n] = {}

Computed(n) == n \in computing /\ CalcEnd(n) \notin later

AqDue == \E n \in Node : OnTime(n) \/ Computed(n) \/ markers[n] > 0

Dispatching == ~simulating /\ ~have_more

(* Until when a rank's CPU is busy: with a computation, or for as long as   *)
(* the NIC of a rank that received from it.                                 *)
Busy(h) == cpu[h] \union {e \in later : \E n \in Node : Rank[n] = h /\ e = CalcEnd(n)}

(* What n has to wait for: a computation for the CPU, a send for the NIC    *)
(* too, a message with a receive for the CPU of the rank that receives.     *)
Obstacles(n) ==
    CASE n \in queued /\ Task[n] = Calc -> Busy(Rank[n])
      [] n \in queued /\ Task[n] = Send -> Busy(Rank[n]) \union nic[Rank[n]]
      [] n \in msgs /\ rq[Channel(n)] # <<>> -> Busy(Peer[n])
      [] OTHER -> {}

Ready(n) == Dispatching /\ OnTime(n) /\ Obstacles(n) = {}

(* What cannot be done is put back with the time it can.  The receive that  *)
(* a message had found goes to the end of its queue.                        *)
PutBack(n) ==
    /\ Dispatching
    /\ OnTime(n) /\ Obstacles(n) # {}
    /\ time' = [time EXCEPT ![n] = Obstacles(n)]
    /\ rq' = IF n \in queued THEN rq
             ELSE [rq EXCEPT ![Channel(n)] = Append(Tail(@), Head(@))]
    /\ UNCHANGED <<graph, aq, uq, nic, cpu, until, finished, coll, network,
                   counts, control>>

DispatchCalc(n) ==
    /\ Ready(n)
    /\ n \in queued /\ Task[n] = Calc
    /\ queued' = queued \ {n}
    /\ computing' = computing \union {n}
    /\ CountDown({n}, {})
    /\ compute_started' = compute_started + 1
    /\ later' = later \union {CalcEnd(n)}
    /\ UNCHANGED <<markers, msgs, matching, clocks, coll, remaining, sent_once,
                   due, sends_active, control>>

FinishCalc(n) ==
    /\ Dispatching
    /\ Computed(n)
    /\ computing' = computing \ {n}
    /\ CountDown({}, {n})
    /\ UNCHANGED <<queued, markers, msgs, matching, clocks, coll, network,
                   counts, control>>

DispatchColl(n) ==
    /\ Dispatching
    /\ n \in queued /\ Task[n] \in Op
    /\ queued' = queued \ {n}
    /\ CountDown({n}, {})
    /\ launch_collective(n)
    /\ UNCHANGED <<computing, msgs, matching, clocks, sent_once, later,
                   compute_started, control>>

HandleCollDone(n) ==
    /\ Dispatching
    /\ markers[n] > 0
    /\ markers' = [markers EXCEPT ![n] = @ - 1]
    /\ CountDown({}, {n})
    /\ UNCHANGED <<queued, computing, msgs, matching, clocks, coll, network,
                   counts, control>>

(* A send starts a flow and keeps the NIC busy; it is done when its message *)
(* is matched.                                                              *)
DispatchSend(n) ==
    /\ Ready(n)
    /\ n \in queued /\ Task[n] = Send
    /\ queued' = queued \ {n}
    /\ CountDown({n}, {})
    /\ nic' = [nic EXCEPT ![Rank[n]] = {NullEvent(Rank[n])}]
    /\ until' = {Rank[n]}
    /\ sends_active' = sends_active + 1
    /\ later' = later \union {FlowOver(n)}
    /\ UNCHANGED <<computing, markers, msgs, matching, cpu, time, coll, remaining,
                   sent_once, due, compute_started, control>>

(* A receive waits in the receive queue, or takes a message from the        *)
(* unexpected queue and keeps the CPU and the NIC of the sender busy for as *)
(* long as its own NIC is.                                                  *)
DispatchRecv(n) ==
    LET c == Channel(n)
        mine == nic[Rank[n]]
    IN  /\ Ready(n)
        /\ n \in queued /\ Task[n] = Recv
        /\ queued' = queued \ {n}
        /\ \/ /\ uq[c] = <<>>
              /\ CountDown({n}, {})
              /\ rq' = [rq EXCEPT ![c] = Append(@, n)]
              /\ UNCHANGED <<uq, nic, cpu>>
           \/ /\ uq[c] # <<>>
              /\ CountDown({n}, {n, Head(uq[c])})
              /\ uq' = [uq EXCEPT ![c] = Tail(@)]
              /\ nic' = [nic EXCEPT ![Peer[n]] = @ \union mine]
              /\ cpu' = [cpu EXCEPT ![Peer[n]] = @ \union mine]
              /\ UNCHANGED rq
        /\ UNCHANGED <<computing, markers, msgs, time, until, coll, network,
                       counts, control>>

(* The message of a flow that is over, likewise; it uses nothing beyond the *)
(* present.  Sender and receiver are done when they have met.               *)
DispatchMsg(n) ==
    LET c == Channel(n)
    IN  /\ Ready(n)
        /\ n \in msgs
        /\ msgs' = msgs \ {n}
        /\ \/ /\ rq[c] = <<>>
              /\ CountDown({}, {})
              /\ uq' = [uq EXCEPT ![c] = Append(@, n)]
              /\ UNCHANGED rq
           \/ /\ rq[c] # <<>>
              /\ CountDown({}, {n, Head(rq[c])})
              /\ rq' = [rq EXCEPT ![c] = Tail(@)]
              /\ UNCHANGED uq
        /\ UNCHANGED <<queued, computing, markers, clocks, coll, network, counts,
                       control>>

(* After the loop the hosts that did something are asked for freed nodes;   *)
(* with none, and something outstanding, the network runs, to the time the  *)
(* NIC of the round's last send is free or until something happens.  On an  *)
(* empty event list htsim_simulate_until returns at once.                   *)
RoundOver == ~simulating /\ (have_more \/ ~AqDue)

Replenish ==
    /\ RoundOver
    /\ executableNodes # {}
    /\ queued' = queued \union executableNodes
    /\ executableNodes' = {}
    /\ until' = {}
    /\ UNCHANGED <<dep_cnt, computing, markers, msgs, matching, nic, cpu, time,
                   finished, coll, network, counts, control>>

htsim_simulate_until(null) ==
    /\ compute_started' = compute_started + Cardinality(null)
    /\ later' = later \union null
    /\ simulating' = (due \union later' # {})
    /\ have_more' = FALSE
    /\ until' = {}
    /\ UNCHANGED <<graph, aq, matching, nic, cpu, time, finished, coll, remaining,
                   sent_once, due, sends_active>>

HandOver ==
    /\ RoundOver
    /\ executableNodes = {}
    /\ sends_active # 0 \/ compute_started # 0
    /\ htsim_simulate_until({NullEvent(h) : h \in until})

(* With nothing outstanding the network is run up to the head of aq.        *)
CatchUp ==
    /\ ~simulating /\ ~AqDue
    /\ executableNodes = {}
    /\ sends_active = 0 /\ compute_started = 0
    /\ \E n \in queued \union msgs, h \in Member :
        NullEvent(h) \in time[n] /\ htsim_simulate_until({NullEvent(h)})

-----------------------------------------------------------------------------
(* Inside htsim_simulate_until: events one by one, those of one instant in  *)
(* any order, until one returns control or none is left.  A time of a send  *)
(* passes with its event, or, when none was scheduled for it, with others.  *)
Live == UNION {nic[h] : h \in Member}

Pass(past) ==
    /\ nic' = [h \in Member |-> nic[h] \ past]
    /\ cpu' = [h \in Member |-> cpu[h] \ past]
    /\ time' = [n \in Node |-> time[n] \ past]

NextInstant ==
    /\ simulating
    /\ due = {}
    /\ \E S \in SUBSET later \ {{}}, free \in SUBSET (Live \ later) :
        /\ due' = S
        /\ later' = later \ S
        /\ Pass(S \union free)
    /\ UNCHANGED <<graph, aq, matching, until, finished, coll, remaining,
                   sent_once, counts, control>>

(* Control goes back, and whether the instant has more events is recorded.  *)
ReturnControl ==
    /\ simulating' = FALSE
    /\ have_more' = (due' # {})

GoOn ==
    /\ simulating' = (due' \union later' # {})
    /\ UNCHANGED have_more

(* The members whose packets h waits for, and the receivers that the        *)
(* emission of S's members completes the supply of.                         *)
Sources(o, h) == UNION {piece[2] : piece \in Due(o, h)}

Supplied(o, senders) ==
    {h \in Receivers(o) : \A s \in Sources(o, h) : <<o, s>> \in senders}

EmitOnce(o, h) ==
    /\ simulating
    /\ Emission(o, h) \in due
    /\ sent_once' = sent_once \union {<<o, h>>}
    /\ due' = due \ {Emission(o, h)}
    /\ later' = later \union {Stray(o)} \union
                  {LastPacket(o, m) :
                     m \in Supplied(o, sent_once') \ Supplied(o, sent_once)}
    /\ GoOn
    /\ UNCHANGED <<graph, aq, matching, clocks, finished, coll, remaining,
                   counts>>

PassStray(o) ==
    /\ simulating
    /\ Stray(o) \in due
    /\ due' = due \ {Stray(o)}
    /\ UNCHANGED <<graph, aq, matching, clocks, finished, coll, remaining,
                   sent_once, later, counts>>
    /\ GoOn

(* A sink has everything and activates the barrier; the last activation     *)
(* fires it, and its targets run before any other event.  The operation is  *)
(* pending then, so that collective_complete never returns early.  (Wrong   *)
(* variant: a barrier that fires at each activation.)                       *)
FiresAlways(o) == TRUE

Fires(o) == remaining[o] = 1

collective_complete(o) ==
    /\ push_coll_done(coll[o].rank_nodes, sends_active)
    /\ Store(o, Completed(coll[o]))
    /\ ReturnControl

ActivateBarrier(o, h) ==
    /\ simulating
    /\ LastPacket(o, h) \in due
    /\ due' = due \ {LastPacket(o, h)}
    /\ remaining' = [remaining EXCEPT ![o] = @ - 1]
    /\ UNCHANGED <<graph, queued, computing, msgs, matching, clocks, finished,
                   sent_once, later, compute_started>>
    /\ IF Fires(o) THEN collective_complete(o)
       ELSE GoOn /\ UNCHANGED <<markers, sends_active, coll>>

compute_over(n) ==
    /\ simulating
    /\ CalcEnd(n) \in due
    /\ due' = due \ {CalcEnd(n)}
    /\ compute_started' = compute_started - 1
    /\ ReturnControl
    /\ UNCHANGED <<graph, aq, matching, clocks, finished, coll, remaining,
                   sent_once, later, sends_active>>

null_over(h) ==
    /\ simulating
    /\ NullEvent(h) \in due
    /\ due' = due \ {NullEvent(h)}
    /\ compute_started' = compute_started - 1
    /\ ReturnControl
    /\ UNCHANGED <<graph, aq, matching, clocks, finished, coll, remaining,
                   sent_once, later, sends_active>>

flow_over(n) ==
    /\ simulating
    /\ FlowOver(n) \in due
    /\ due' = due \ {FlowOver(n)}
    /\ sends_active' = sends_active - 1
    /\ msgs' = msgs \union {n}
    /\ ReturnControl
    /\ UNCHANGED <<graph, queued, computing, markers, matching, clocks, finished,
                   coll, remaining, sent_once, later, compute_started>>

Next ==
    \/ Replenish \/ HandOver \/ CatchUp \/ NextInstant
    \/ \E n \in Node : \/ DispatchCalc(n) \/ FinishCalc(n)
                       \/ DispatchColl(n) \/ HandleCollDone(n)
                       \/ DispatchSend(n) \/ DispatchRecv(n)
                       \/ DispatchMsg(n) \/ PutBack(n)
                       \/ compute_over(n) \/ flow_over(n)
    \/ \E h \in Member : null_over(h)
    \/ \E o \in Op : PassStray(o)
    \/ \E o \in Op, h \in Member : EmitOnce(o, h) \/ ActivateBarrier(o, h)

Spec == Init /\ [][Next]_vars /\ WF_vars(Next)

-----------------------------------------------------------------------------
(* The type invariant: no counter goes below zero.                          *)
TypeOK ==
    /\ dep_cnt \in [Node -> Nat]
    /\ executableNodes \subseteq Node
    /\ queued \subseteq Node
    /\ computing \subseteq Node
    /\ markers \in [Node -> Nat]
    /\ msgs \subseteq {n \in Node : Task[n] = Send}
    /\ rq \in [Channels -> Seq(Node)] /\ uq \in [Channels -> Seq(Node)]
    /\ \A c \in Channels :
        /\ \A i \in DOMAIN rq[c] : rq[c][i] \in Recvs(c)
        /\ \A i \in DOMAIN uq[c] : uq[c][i] \in Sends(c)
    /\ {nic, cpu} \subseteq [Member -> SUBSET {NullEvent(h) : h \in Member}]
    /\ time \in [Node -> SUBSET Event]
    /\ until \subseteq Member
    /\ finished \in [Node -> Nat]
    /\ DOMAIN coll \subseteq Op
    /\ \A o \in DOMAIN coll :
        coll[o] \in [arrived : 0..Len(Group), completed : BOOLEAN,
                     rank_nodes : SUBSET Node]
    /\ remaining \in [Op -> Nat]
    /\ sent_once \subseteq Op \X Member
    /\ due \subseteq Event /\ later \subseteq Event
    /\ sends_active \in Nat /\ compute_started \in Nat
    /\ have_more \in BOOLEAN /\ simulating \in BOOLEAN

(* A node is never lost and never released twice: at any time it is in      *)
(* exactly one place, waiting for dependencies, freed, in aq in one form,   *)
(* recorded by its operation, on its way as a flow, in a matching queue, or *)
(* done.  A broadcast receiver may arrive before, during or after the       *)
(* broadcast, a message before or after its receive.                        *)
Recorded(n) == \E o \in DOMAIN coll : n \in coll[o].rank_nodes

Waiting(q) == {n \in Node : \E c \in Channels : \E i \in DOMAIN q[c] : q[c][i] = n}

One(condition) == IF condition THEN 1 ELSE 0

EachNodeOnce ==
    \A n \in Node :
        One(dep_cnt[n] > 0) + One(n \in executableNodes)
          + One(n \in queued) + One(n \in computing)
          + One(Recorded(n)) + One(FlowOver(n) \in due \union later)
          + One(n \in msgs) + One(n \in Waiting(rq)) + One(n \in Waiting(uq))
          + markers[n] + finished[n] = 1

(* A rank gets past a collective only when the operation has happened: all  *)
(* of its emitters have reached it and emitted, and every receiver, late or *)
(* not, has its last packet.  Sends and receives are done in pairs.         *)
Received(o, h) ==
    /\ h \in Supplied(o, sent_once)
    /\ LastPacket(o, h) \notin due \union later

DoneOf(S) == {n \in S : finished[n] > 0}

ReleaseSound ==
    /\ \A n \in Node :
        Task[n] \in Op /\ markers[n] + finished[n] > 0 =>
            /\ \A h \in Emitters(Task[n]) : <<Task[n], h>> \in sent_once
            /\ \A h \in Receivers(Task[n]) : Received(Task[n], h)
    /\ \A c \in Channels :
        Cardinality(DoneOf(Sends(c))) = Cardinality(DoneOf(Recvs(c)))

(* The two counters that keep the network running stand for exactly what    *)
(* is outstanding: the rank nodes recorded by operations and the flows that *)
(* are not over, and the computations and waits whose end is still to come. *)
CountersBalanced ==
    /\ sends_active = Cardinality({n \in Node :
                          Recorded(n) \/ FlowOver(n) \in due \union later})
    /\ compute_started = Cardinality((due \union later) \intersect
          ({CalcEnd(n) : n \in Node} \union {NullEvent(h) : h \in Member}))

(* The main loop's exit, and the state it cannot leave: entries of aq that  *)
(* are due, a stale have_more that keeps the dispatch loop from them, and   *)
(* nothing outstanding that would run the network and clear it.             *)
Ended ==
    /\ ~simulating
    /\ executableNodes = {} /\ queued \union computing \union msgs = {} /\ ~AqDue
    /\ sends_active = 0 /\ compute_started = 0

Frozen ==
    /\ ~simulating /\ have_more /\ AqDue
    /\ sends_active = 0 /\ compute_started = 0

(* And another: an operation waits for a member where something waits for   *)
(* its CPU or NIC, no event is left, and with sends_active positive the     *)
(* network is not run up to the head of aq.                                 *)
Stalled ==
    /\ ~simulating /\ ~AqDue
    /\ executableNodes = {} /\ due \union later = {}
    /\ \E n \in queued \union msgs : time[n] # {}
    /\ \E n \in Node : Recorded(n)

(* What has to come before a node: its dependencies, and those of the sends *)
(* or receives it may meet.  A schedule in which nodes need each other in a *)
(* circle, or which has a send or a receive too many, may not be runnable;  *)
(* the loop then ends with some undone.                                     *)
Partners(n) ==
    IF Task[n] = Send THEN Recvs(Channel(n))
    ELSE IF Task[n] = Recv THEN Sends(Channel(n)) ELSE {}

Needed(n) == UNION {Requires[m] \union IRequires[m] : m \in {n} \union Partners(n)}

NothingNeedsItself ==
    \A S \in SUBSET Node \ {{}} : \E n \in S : Needed(n) \intersect S = {}

AsManySendsAsReceives ==
    \A c \in Channels : Cardinality(Sends(c)) = Cardinality(Recvs(c))

(* The state of an operation lives from its first arrival until it is       *)
(* complete and its last member has arrived: no barrier fires without it,   *)
(* and none is left when the schedule has ended, every node being done.     *)
NoStateLeft ==
    /\ \A o \in Op : remaining[o] > 0 => o \in DOMAIN coll
    /\ Ended => /\ coll = <<>> /\ Waiting(rq) \union Waiting(uq) = {}
                /\ \A n \in Node : finished[n] = 1

(* Nothing is counted that is not outstanding, and nothing is forgotten or  *)
(* kept for ever.                                                           *)
BooksBalanced == CountersBalanced /\ NoStateLeft

(* A schedule whose ranks order their collectives alike comes to its end,   *)
(* unless the loop freezes in one of these two ways: nobody waits for a     *)
(* barrier that has fired or for a message that has come.                   *)
EndsOrFreezes == <>(Ended \/ Frozen \/ Stalled)

(* What the comment in collective_complete says of its markers: control     *)
(* returns "so the dispatch loop runs the OP_COLL_DONE markers".            *)
MarkersRun == \A n \in Node : markers[n] > 0 ~> finished[n] > 0
=============================================================================
