------------------------------ MODULE IncFabric ------------------------------
(***************************************************************************)
(* The lossless fabric that carries the collectives: the switches of one   *)
(* group's tree with their multicast fan-out (handle_mcast) and reduce     *)
(* fan-in (handle_reduce), the per-port flow control between them, the     *)
(* release credits that join the two, and the members' sinks.              *)
(*                                                                         *)
(* The tree is the one McastTree builds; a rooted result descends along    *)
(* the same links, since down-routing in a fat tree is one path.  The      *)
(* switch pipes (_pipe, _reduce_pipe) only add latency between ingress and *)
(* egress, and a step of this module is not timed: a packet accepted by a  *)
(* switch is in its egress queue at once.  LosslessLink has the timing of  *)
(* a link and shows that an egress queue is transmitting exactly when      *)
(* Sending says.                                                           *)
(***************************************************************************)
EXTENDS Pfc, CollectiveOps

CONSTANTS
    Programs, \* connection matrices: sets of operations listed together
    Switch,   \* the switches of the tree
    Parent,   \* the uplink of every member and every switch but the apex
    WireCap   \* bound: packets a data pipe holds (delay over service time)

Node == Member \cup Switch
Apex == CHOOSE s \in Switch : s \notin DOMAIN Parent
Children(s) == {n \in DOMAIN Parent : Parent[n] = s}
Neighbours(s) == Children(s) \cup (IF s = Apex THEN {} ELSE {Parent[s]})

ASSUME TreeAssumption ==
    /\ Member \cap Switch = {}
    /\ IsFiniteSet(Switch)
    /\ \E s \in Switch : Parent \in [Node \ {s} -> Switch]
    /\ \A S \in (SUBSET Node) \ {{}} :                 \* no circle: a highest
         /\ \E n \in S : n = Apex \/ Parent[n] \notin S   \* and a lowest of
         /\ \E n \in S : Children(n) \cap S = {}          \* any nodes
    /\ \A s \in Switch : Cardinality(Neighbours(s)) > 1
    /\ WireCap \in Nat \ {0}
    /\ \A ops \in Programs : ops \subseteq Op /\ \A o \in ops : Needs[o] \subseteq ops

Below[n \in Node] ==
    IF n \in Member THEN {n} ELSE UNION {Below[m] : m \in Children(n)}

UpLink == {<<n, Parent[n]>> : n \in DOMAIN Parent}
DownLink == {<<Parent[n], n>> : n \in DOMAIN Parent}
Link == UpLink \cup DownLink

Nic == {l \in Link : l[1] \in Member}        \* from a host
Ingress == {l \in Link : l[2] \in Switch}    \* with a LosslessInputQueue
Access == {l \in Link : l[2] \in Member}     \* to a host
Port == {l \in Link : l[1] \in Switch}       \* egress of a switch

(* An INC packet.  t is its packet type, and DOWN a reduce packet marked    *)
(* descending; of is the set of members whose data it carries.              *)
Packet ==
    [t : {"REDUCE", "DOWN", "MCAST"}, op : Op, c : Nat, of : SUBSET Member]

AllChunks == UNION {Chunks(o) : o \in Op}

VARIABLES
    listed,     \* the operations of this run
    started,    \* sources that have emitted, per operation (_sent_once)
    out,        \* egress queues: packets, each with the credit it settles
    st,         \* _state_send of every egress queue
    wire,       \* data pipes
    iq,         \* ingress queues of the switches
    pwire,      \* PAUSE and GO frames on the way back along each link
    barrier,    \* _reduce_barriers, per switch, operation and chunk
    credit,     \* live McastFanoutCredits and ReduceFanInCredits
    got,        \* bytes_received of every sink, in MTUs
    seen,       \* the pieces behind those bytes
    remaining   \* _activations_remaining of every operation's trigger

flow == <<out, st, wire, iq, pwire, credit>>
sinks == <<got, seen, remaining>>
vars == <<listed, started, flow, barrier, sinks>>

NoBarrier == [arrived |-> 0, charges |-> {}, of |-> {}]

Init ==
    /\ listed \in Programs
    /\ started = [o \in Op |-> {}]
    /\ out = [l \in Link |-> <<>>]
    /\ st = [l \in Link |-> "READY"]
    /\ wire = [l \in Link |-> <<>>]
    /\ iq = [l \in Ingress |-> IngressInit]
    /\ pwire = [l \in Ingress |-> <<>>]
    /\ barrier = [s \in Switch |-> [o \in Op |-> [c \in AllChunks |-> NoBarrier]]]
    /\ credit = [k \in {} |-> {}]
    /\ got = [o \in Op |-> [h \in Member |-> 0]]
    /\ seen = [o \in Op |-> [h \in Member |-> {}]]
    /\ remaining = [o \in Op |-> Activations(o)]

Complete == {o \in Op : remaining[o] = 0}

-----------------------------------------------------------------------------
(* emit_once of a member's source: every chunk, back to back, into the NIC. *)
SourcePacket(o, h, c) ==
    [t |-> IF Kind[o] \in Reducing THEN "REDUCE" ELSE "MCAST",
     op |-> o, c |-> c, of |-> {h}]

(* A packet in a queue, with the credit its transmission counts against; a  *)
(* host holds no ingress charge.  (Wrong variant of Start: a source that    *)
(* does not wait for its trigger.)                                          *)
Entry(p, k) == [pkt |-> p, key |-> k]
NoKey == <<>>

StartUntriggered(o, h) ==
    LET l == <<h, Parent[h]>>
        emitted == [c \in Chunks(o) |-> Entry(SourcePacket(o, h, c), NoKey)]
    IN /\ o \in listed
       /\ h \in Emitters(o) \ started[o]
       /\ started' = [started EXCEPT ![o] = @ \cup {h}]
       /\ out' = [out EXCEPT ![l] = @ \o emitted]
       /\ UNCHANGED <<listed, st, wire, iq, pwire, credit, barrier, sinks>>

Start(o, h) ==
    LET l == <<h, Parent[h]>>
        emitted == [c \in Chunks(o) |-> Entry(SourcePacket(o, h, c), NoKey)]
    IN /\ o \in listed
       /\ Needs[o] \subseteq Complete
       /\ h \in Emitters(o) \ started[o]
       /\ started' = [started EXCEPT ![o] = @ \cup {h}]
       /\ out' = [out EXCEPT ![l] = @ \o emitted]
       /\ UNCHANGED <<listed, st, wire, iq, pwire, credit, barrier, sinks>>

-----------------------------------------------------------------------------
(* Transmission of one packet.                                              *)
Sending(l) ==
    \/ st[l] = "PAUSE_RECEIVED"
    \/ st[l] = "READY" /\ out[l] # <<>>

Launch(l, p) ==
    /\ Len(wire[l]) < WireCap
    /\ wire' = [wire EXCEPT ![l] = Append(@, p)]
    /\ st' = [st EXCEPT ![l] = AfterService(@)]

(* FairPriorityQueue::completeService.  The FairPullQueue serves the flows  *)
(* in turns: here any flow may be next, each in its own order.              *)
NicSend(l) ==
    \E i \in DOMAIN out[l] :
        /\ Sending(l)
        /\ \A j \in 1..(i - 1) : out[l][j].pkt.op # out[l][i].pkt.op
        /\ Launch(l, out[l][i].pkt)
        /\ out' = [out EXCEPT ![l] =
                     SubSeq(@, 1, i - 1) \o SubSeq(@, i + 1, Len(@))]
        /\ UNCHANGED <<listed, started, iq, pwire, credit, barrier, sinks>>

(* LosslessOutputQueue::completeService with completedService of the credit *)
(* the packet carries: the last drain releases every charge it holds.       *)
(* (Wrong variant: the drain after the last would.)                         *)
ReleaseAll(k) ==
    /\ credit' = [j \in DOMAIN credit \ {k} |-> credit[j]]
    /\ iq' = [l \in Ingress |-> IF l \in credit[k].charges
                                THEN Release(iq[l]) ELSE iq[l]]
    /\ pwire' = [l \in Ingress |->
                   IF l \in credit[k].charges
                   THEN pwire[l] \o FramesOnRelease(iq[l])
                   ELSE pwire[l]]

SettleTooLate(k) ==
    IF credit[k].pending = 0 THEN ReleaseAll(k)
    ELSE /\ credit' = [credit EXCEPT ![k].pending = @ - 1]
         /\ UNCHANGED <<iq, pwire>>

Settle(k) ==
    IF credit[k].pending = 1
    THEN ReleaseAll(k)
    ELSE /\ credit' = [credit EXCEPT ![k].pending = @ - 1]
         /\ UNCHANGED <<iq, pwire>>

PortSend(l) ==
    /\ Sending(l)
    /\ Launch(l, Head(out[l]).pkt)
    /\ out' = [out EXCEPT ![l] = Tail(@)]
    /\ Settle(Head(out[l]).key)
    /\ UNCHANGED <<listed, started, barrier, sinks>>

(* An ETH_PAUSE frame reaches the egress queue of link l.  A GO that finds  *)
(* a host's frame still in flight is HostNic's subject: here the frame      *)
(* finishes first.                                                          *)
ReceiveFrame(l) ==
    /\ pwire[l] # <<>>
    /\ ~(l \in Nic /\ Head(pwire[l]) = "GO" /\ st[l] = "PAUSE_RECEIVED")
    /\ st' = [st EXCEPT ![l] = OnFrame(Head(pwire[l]), Sending(l))]
    /\ pwire' = [pwire EXCEPT ![l] = Tail(@)]
    /\ UNCHANGED <<listed, started, out, wire, iq, credit, barrier, sinks>>

-----------------------------------------------------------------------------
(* A packet reaches the ingress queue of a switch, is charged there, and is *)
(* handed to the switch.                                                    *)
Accept(l) ==
    /\ wire[l] # <<>>
    /\ wire' = [wire EXCEPT ![l] = Tail(@)]
    /\ iq' = [iq EXCEPT ![l] = Charge(@)]
    /\ pwire' = [pwire EXCEPT ![l] = @ \o FramesOnCharge(iq[l])]

(* Copies of p for the given neighbours of s enter their egress queues, all *)
(* against one new credit that holds these charges.  (Wrong variant: it     *)
(* holds one of them.)                                                      *)
NewCreditOfOne(k, charges, n) ==
    credit' = [j \in DOMAIN credit \cup {k} |->
                 IF j = k THEN [charges |-> {CHOOSE l \in charges : TRUE},
                                pending |-> n]
                 ELSE credit[j]]

NewCredit(k, charges, n) ==
    credit' = [j \in DOMAIN credit \cup {k} |->
                 IF j = k THEN [charges |-> charges, pending |-> n]
                 ELSE credit[j]]

Forward(s, p, targets, charges) ==
    LET k == <<s, p>>
    IN /\ out' = [l \in Link |-> IF l[1] = s /\ l[2] \in targets
                                 THEN Append(out[l], Entry(p, k)) ELSE out[l]]
       /\ NewCredit(k, charges, Cardinality(targets))

(* handle_mcast and fanout_replicas: a copy to every tree port but the one  *)
(* the packet came in by.                                                   *)
Replicate(l) ==
    LET s == l[2]
        p == Head(wire[l])
    IN /\ Accept(l)
       /\ p.t = "MCAST"
       /\ Forward(s, p, Neighbours(s) \ {l[1]}, {l})
       /\ UNCHANGED <<listed, started, st, barrier, sinks>>

(* A descending result takes the ordinary route to its root; the ingress    *)
(* queue itself is the credit of a unicast packet.                          *)
NextHop(s, h) == {n \in Children(s) : h \in Below[n]}

Descend(l) ==
    LET s == l[2]
        p == Head(wire[l])
    IN /\ Accept(l)
       /\ p.t = "DOWN"
       /\ Forward(s, p, NextHop(s, ReduceRoot(p.op, p.c)), {l})
       /\ UNCHANGED <<listed, started, st, barrier, sinks>>

(* handle_reduce: the barrier of the packet's chunk, with this arrival.     *)
(* (Wrong variants: only the last charge is kept; the operations share a    *)
(* barrier.)                                                                *)
Awaited(s) == Cardinality(Children(s))

WithLastCharge(l) ==
    LET p == Head(wire[l])
        b == barrier[l[2]][p.op][p.c]
    IN [arrived |-> b.arrived + 1, charges |-> {l}, of |-> b.of \cup p.of]

WithArrival(l) ==
    LET p == Head(wire[l])
        b == barrier[l[2]][p.op][p.c]
    IN [arrived |-> b.arrived + 1,
        charges |-> b.charges \cup {l},
        of |-> b.of \cup p.of]

SetEveryOp(s, o, c, b) ==
    barrier' = [barrier EXCEPT ![s] = [q \in Op |-> [@[q] EXCEPT ![c] = b]]]

SetBarrier(s, o, c, b) == barrier' = [barrier EXCEPT ![s][o][c] = b]

Fold(l) ==
    LET s == l[2]
        p == Head(wire[l])
    IN /\ Accept(l)
       /\ p.t = "REDUCE"
       /\ WithArrival(l).arrived < Awaited(s)
       /\ SetBarrier(s, p.op, p.c, WithArrival(l))
       /\ UNCHANGED <<listed, started, out, st, credit, sinks>>

(* The last contribution: forward one combined packet, or turn the result   *)
(* around at the apex, down to the chunk's root or out to everyone.         *)
Result(s, p, of) ==
    [p EXCEPT !.of = of,
              !.t = IF s # Apex THEN "REDUCE"
                    ELSE IF Kind[p.op] = "allreduce" THEN "MCAST" ELSE "DOWN"]

ResultPorts(s, p) ==
    CASE s # Apex -> {Parent[s]}
      [] s = Apex /\ Kind[p.op] = "allreduce" -> Neighbours(s)
      [] OTHER -> NextHop(s, ReduceRoot(p.op, p.c))

Combine(l) ==
    LET s == l[2]
        p == Head(wire[l])
        b == WithArrival(l)
    IN /\ Accept(l)
       /\ p.t = "REDUCE"
       /\ b.arrived = Awaited(s)
       /\ SetBarrier(s, p.op, p.c, NoBarrier)
       /\ Forward(s, Result(s, p, b.of), ResultPorts(s, p), b.charges)
       /\ UNCHANGED <<listed, started, st, sinks>>

-----------------------------------------------------------------------------
(* UecCollectiveSink::receivePacket, and the BarrierTrigger it activates    *)
(* when the member has all it expects.                                      *)
Deliver(l) ==
    LET h == l[2]
        p == Head(wire[l])
        o == p.op
    IN /\ wire[l] # <<>>
       /\ wire' = [wire EXCEPT ![l] = Tail(@)]
       /\ IF h \in Receivers(o)
          THEN /\ got' = [got EXCEPT ![o][h] = @ + 1]
               /\ seen' = [seen EXCEPT ![o][h] = @ \cup {<<p.c, p.of>>}]
               /\ remaining' = IF got[o][h] + 1 = Expected(o)
                               THEN [remaining EXCEPT ![o] = @ - 1]
                               ELSE remaining
          ELSE UNCHANGED sinks
       /\ UNCHANGED <<listed, started, out, st, iq, pwire, credit, barrier>>

Next ==
    \/ \E o \in Op, h \in Member : Start(o, h)
    \/ \E l \in Nic : NicSend(l)
    \/ \E l \in Port : PortSend(l)
    \/ \E l \in Ingress :
         \/ ReceiveFrame(l)
         \/ Replicate(l)
         \/ Descend(l)
         \/ Fold(l)
         \/ Combine(l)
    \/ \E l \in Access : Deliver(l)

(* The event list runs until no event is left, and a started simulation     *)
(* lets every member reach its operations.                                  *)
Spec == Init /\ [][Next]_vars /\ WF_vars(Next)

-----------------------------------------------------------------------------
TypeOK ==
    /\ listed \in Programs
    /\ started \in [Op -> SUBSET Member]
    /\ \A l \in Link :
         /\ \A i \in DOMAIN out[l] : out[l][i].pkt \in Packet
         /\ wire[l] \in Seq(Packet)
         /\ st[l] \in SendState
    /\ iq \in [Ingress -> IngressType]
    /\ pwire \in [Ingress -> Seq(Frame)]
    /\ \A k \in DOMAIN credit :
         /\ credit[k].charges \in SUBSET Ingress
         /\ credit[k].pending \in Nat \ {0}
    /\ got \in [Op -> [Member -> Nat]]
    /\ remaining \in [Op -> Nat]

(* A waiting barrier has folded exactly the children whose charges it       *)
(* holds, each of them once and whole, and one at least is missing: no      *)
(* over-arrival, no contribution counted for another chunk, operation or    *)
(* child (the assert of handle_reduce and the comment above its key).       *)
BarrierSound ==
    \A s \in Switch, o \in Op, c \in AllChunks :
        LET b == barrier[s][o][c]
            in == {l[1] : l \in b.charges}
        IN /\ b.arrived = Cardinality(b.charges)
           /\ in \subseteq Children(s) /\ in # Children(s)
           /\ b.of = UNION {Below[n] : n \in in}

(* No partial result leaves a switch: a combined packet carries the whole   *)
(* subtree it comes from, and one on its way down carries every member.     *)
InTransit(l) ==
    {wire[l][i] : i \in DOMAIN wire[l]} \cup {out[l][i].pkt : i \in DOMAIN out[l]}

ResultsWhole ==
    \A l \in Link : \A p \in InTransit(l) :
        Kind[p.op] \in Reducing =>
            p.of = IF p.t = "REDUCE" THEN Below[l[1]] ELSE Member

(* Every contribution counts once, where it belongs, and nothing travels    *)
(* on before it is whole.                                                   *)
ContributionsWhole == BarrierSound /\ ResultsWhole

(* An ingress queue holds exactly the bytes that a waiting barrier or a     *)
(* live credit will release: none is leaked, and none is released twice.    *)
Holders(l) ==
      {k \in DOMAIN credit : l \in credit[k].charges}
    \cup {x \in Switch \X Op \X AllChunks :
            l \in barrier[x[1]][x[2]][x[3]].charges}

ChargesConserved == \A l \in Ingress : iq[l].occ = Cardinality(Holders(l))

(* The ingress charge persists while any replica is still buffered: a       *)
(* credit waits for exactly the copies that are in egress queues.           *)
Copies(k) ==
    UNION {{<<l, i>> : i \in {j \in DOMAIN out[l] : out[l][j].key = k}} :
           l \in Port}

HeldWhileBuffered ==
    /\ \A k \in DOMAIN credit : credit[k].pending = Cardinality(Copies(k))
    /\ \A l \in Port : \A i \in DOMAIN out[l] : out[l][i].key \in DOMAIN credit

(* A charge is held as long as a copy of its packet is buffered and not     *)
(* longer.                                                                  *)
ChargesHeld == ChargesConserved /\ HeldWhileBuffered

(* No piece reaches a member twice, none that is not its own does, and the  *)
(* byte count that completes a sink stands for all the pieces it is due.    *)
ExactlyOnce ==
    \A o \in Op, h \in Member :
        /\ seen[o][h] \subseteq Due(o, h)
        /\ got[o][h] = Cardinality(seen[o][h])
        /\ h \in Receivers(o) /\ got[o][h] >= Expected(o) =>
             seen[o][h] = Due(o, h)

(* At rest nothing is left behind: with every operation complete and every  *)
(* queue and pipe empty, no port is charged or paused, no credit is live,   *)
(* and a sender none of whose frames is under way is not paused.            *)
Idle == \A l \in Link : out[l] = <<>> /\ wire[l] = <<>>

CleanAtRest ==
    (Idle /\ Complete = listed) =>
        /\ \A l \in Ingress : iq[l] = IngressInit
        /\ DOMAIN credit = {}
        /\ \A l \in Ingress : pwire[l] = <<>> => st[l] = "READY"

(* Every operation completes.                                               *)
AllComplete == <>(Complete = listed)

Promised == INSTANCE Collective WITH
    contributed <- started,
    delivered <- seen,
    complete <- Complete

(* The fabric implements the promise made of a collective.                  *)
ImplementsCollective == Promised!Spec
=============================================================================
