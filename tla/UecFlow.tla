------------------------------ MODULE UecFlow ------------------------------
(***************************************************************************)
(* One UEC flow: the source UecSrc and the sink UecSink of                 *)
(* src/sim/htsim-backend/sim/uec.cpp with the network between them, over a *)
(* fabric that may trim any data packet to its header but loses nothing.   *)
(* A packet is the number of its first byte in units of the MSS.  Windows  *)
(* are counted in half packets, which is what it takes to tell the two     *)
(* tests of the code apart: a new packet needs "get_unacked() + _mss <=    *)
(* c", a retransmission only "get_unacked() < _cwnd".                      *)
(***************************************************************************)
EXTENDS Integers, FiniteSets

CONSTANTS
    N,        \* packets of the flow, its size divided by the MSS, rounded up
    Windows   \* values congestion control may give _cwnd, in half packets

\* check_limits_cwnd keeps the window at one packet or more.
ASSUME FlowAssumption ==
    /\ N \in Nat \ {0}
    /\ Windows # {}
    /\ Windows \subseteq Nat \ {0, 1}

VARIABLES
    \* the source
    highest,   \* _highest_sent: packets 1 .. highest were sent
    sent,      \* _sent_packets: those the source still remembers
    acked,     \* of these, the ones flagged acked
    nacked,    \* and the ones flagged nacked
    cwnd,      \* _cwnd
    rtx,       \* _rtx_pending
    finished,  \* _flow_finished
    \* the sink
    cum,       \* _cumulative_ack: packets 1 .. cum have arrived
    ooo,       \* _received: packets that arrived out of order
    sinkDone,  \* _flow_completed: the sink's trigger fired
    (* the network: how many copies of each message are on their way.  A   *)
    (* cumulative acknowledgement carries 1 as its sequence number and the *)
    (* last packet received in order, any other names the packet it is for *)
    data, hdrs, nacks, cumAcks, oneAcks

source == <<highest, sent, acked, nacked, cwnd, rtx, finished>>
sink == <<cum, ooo, sinkDone>>
network == <<data, hdrs, nacks, cumAcks, oneAcks>>
flowVars == <<source, sink, network>>

Packet == 1 .. N

\* The packets the sink has.
Received == {p \in Packet : p <= cum \/ p \in ooo}

FlowInit ==
    /\ highest = 0
    /\ sent = {} /\ acked = {} /\ nacked = {}
    /\ cwnd \in Windows
    /\ rtx = FALSE
    /\ finished = FALSE
    /\ cum = 0
    /\ ooo = {}
    /\ sinkDone = FALSE
    /\ data = [p \in Packet |-> 0]
    /\ hdrs = [p \in Packet |-> 0]
    /\ nacks = [p \in Packet |-> 0]
    /\ cumAcks = [p \in Packet |-> 0]
    /\ oneAcks = [p \in Packet |-> 0]

-----------------------------------------------------------------------------
\* The source.

\* get_unacked, in packets: sent, and neither acknowledged nor trimmed.
Unacked(s, a, n) == Cardinality(s \ (a \cup n))

\* The packets retransmit_packet sends again: the first that fit.
Again(u, n, c) ==
    {p \in n : 2 * (u + Cardinality({q \in n : q < p})) < c}

(* How many new packets the loop of send_packets sends.  (Wrong variants:  *)
(* the end of the flow forgotten; the window tested before the packet is   *)
(* added.)                                                                 *)
RoomPastTheEnd(u, c) == IF (c \div 2) - u <= 0 THEN 0 ELSE (c \div 2) - u

RoomBeforeAdding(u, c) ==
    LET free == (c \div 2) - u + 1
    IN IF free <= 0 THEN 0
       ELSE IF free > N - highest THEN N - highest ELSE free

Room(u, c) ==
    LET free == (c \div 2) - u
    IN IF free <= 0 THEN 0
       ELSE IF free > N - highest THEN N - highest ELSE free

(* send_packets with window c, from the flags s, a and n: first what was   *)
(* trimmed and could not be sent again at once, then new packets.          *)
SendPackets(s, a, n, c) ==
    LET again == IF rtx THEN Again(Unacked(s, a, n), n, c) ELSE {}
        room == Room(Unacked(s, a, n \ again), c)
        new == (highest + 1) .. (highest + room)
    IN  /\ highest' = highest + room
        /\ sent' = s \cup new
        /\ acked' = a
        /\ nacked' = n \ again
        /\ rtx' = (rtx /\ n \ again # {})
        /\ data' = [p \in Packet |->
                        IF p \in again \cup new THEN data[p] + 1 ELSE data[p]]

\* doNextEvent of the source at its start time: the first window.
Start ==
    /\ highest = 0
    /\ SendPackets(sent, acked, nacked, cwnd)
    /\ UNCHANGED <<cwnd, finished, sink, hdrs, nacks, cumAcks, oneAcks>>

(* mark_received: what is left of _sent_packets.  Packets leave only at    *)
(* the front, up to the first that is neither covered nor acked.           *)
Remaining(covered) ==
    {p \in sent : \E q \in sent : q <= p /\ q \notin covered \cup acked}

\* The packet at the front of _sent_packets is p.
IsFront(p) == p \in sent /\ \A q \in sent : p <= q

(* The test for the end of the flow: the acknowledgement covers it and     *)
(* nothing is outstanding.  (Wrong variant: the former is enough.)         *)
FinishesEarly(last, left) == last >= N /\ ~finished

Finishes(last, left) == last >= N /\ left = {} /\ ~finished

(* processAck for an acknowledgement up to packet last that leaves the     *)
(* packets left, those in flagged acknowledged: finish, or adjust the      *)
(* window and send.                                                        *)
ProcessAck(last, left, flagged) ==
    /\ LET marked == flagged \cap left
           trimmed == (nacked \cap left) \ marked
       IN  IF Finishes(last, left)
           THEN /\ finished' = TRUE
                /\ sent' = left
                /\ acked' = marked
                /\ nacked' = trimmed
                /\ UNCHANGED <<highest, cwnd, rtx, data>>
           ELSE \E c \in Windows :
                /\ cwnd' = c
                /\ SendPackets(left, marked, trimmed, c)
                /\ UNCHANGED finished
    /\ UNCHANGED <<sink, hdrs, nacks>>

RecvCumAck(k) ==
    /\ cumAcks[k] > 0
    /\ cumAcks' = [cumAcks EXCEPT ![k] = @ - 1]
    /\ ProcessAck(k, Remaining(1 .. k), acked)
    /\ UNCHANGED oneAcks

\* A late one is ignored, one for the front removes it, others set a flag.
RecvOneAck(p) ==
    /\ oneAcks[p] > 0
    /\ oneAcks' = [oneAcks EXCEPT ![p] = @ - 1]
    /\ IF \A q \in sent : q > p
       THEN ProcessAck(p, sent, acked)
       ELSE IF IsFront(p)
       THEN ProcessAck(p, Remaining({p}), acked)
       ELSE ProcessAck(p, sent, acked \cup {p})
    /\ UNCHANGED cumAcks

(* processNack: congestion control sets the window, then resend_packet     *)
(* sends the packet again unless the window is full.  (Wrong variant: it   *)
(* stays marked.)                                                          *)
RecvNackMarked(p) ==
    /\ nacks[p] > 0
    /\ nacks' = [nacks EXCEPT ![p] = @ - 1]
    /\ \E c \in Windows :
        /\ cwnd' = c
        /\ nacked' = nacked \cup {p}
        /\ rtx' = TRUE
        /\ data' = IF 2 * Unacked(sent, acked, nacked') < c
                   THEN [data EXCEPT ![p] = @ + 1] ELSE data
    /\ UNCHANGED <<highest, sent, acked, finished, sink, hdrs, cumAcks, oneAcks>>

RecvNack(p) ==
    /\ nacks[p] > 0
    /\ nacks' = [nacks EXCEPT ![p] = @ - 1]
    /\ \E c \in Windows :
        /\ cwnd' = c
        /\ IF 2 * Unacked(sent, acked, nacked \cup {p}) < c
           THEN /\ nacked' = nacked \ {p}
                /\ data' = [data EXCEPT ![p] = @ + 1]
                /\ UNCHANGED rtx
           ELSE /\ nacked' = nacked \cup {p}
                /\ rtx' = TRUE
                /\ UNCHANGED data
    /\ UNCHANGED <<highest, sent, acked, finished, sink, hdrs, cumAcks, oneAcks>>

-----------------------------------------------------------------------------
\* The sink.

SendCumAck(k) ==
    /\ cumAcks' = [cumAcks EXCEPT ![k] = @ + 1]
    /\ UNCHANGED oneAcks

SendOneAck(p) ==
    /\ oneAcks' = [oneAcks EXCEPT ![p] = @ + 1]
    /\ UNCHANGED cumAcks

(* receivePacket, a whole packet: in order, already had, or out of order.  *)
(* (Wrong variant: packets that waited for it are not passed over.)        *)
RecvDataAlone(p) ==
    /\ data[p] > 0
    /\ data' = [data EXCEPT ![p] = @ - 1]
    /\ IF p = cum + 1
       THEN cum' = p /\ SendCumAck(p) /\ UNCHANGED ooo
       ELSE SendOneAck(p) /\ ooo' = ooo \cup {p} /\ UNCHANGED cum
    /\ sinkDone' = (sinkDone \/ cum' >= N)
    /\ UNCHANGED <<source, hdrs, nacks>>

RecvData(p) ==
    /\ data[p] > 0
    /\ data' = [data EXCEPT ![p] = @ - 1]
    /\ \/ /\ p = cum + 1
          /\ \E c \in p .. N :
                /\ (p + 1) .. c \subseteq ooo
                /\ c + 1 \notin ooo
                /\ cum' = c
                /\ ooo' = {q \in ooo : q > c}
                /\ SendCumAck(c)
       \/ /\ p # cum + 1
          /\ IF p <= cum
             THEN SendCumAck(cum) /\ UNCHANGED <<cum, ooo>>
             ELSE SendOneAck(p) /\ ooo' = ooo \cup {p} /\ UNCHANGED cum
    /\ sinkDone' = (sinkDone \/ cum' >= N)
    /\ UNCHANGED <<source, hdrs, nacks>>

\* receivePacket, a header whose payload was trimmed: send_nack.
RecvHeader(p) ==
    /\ hdrs[p] > 0
    /\ hdrs' = [hdrs EXCEPT ![p] = @ - 1]
    /\ nacks' = [nacks EXCEPT ![p] = @ + 1]
    /\ UNCHANGED <<source, sink, data, cumAcks, oneAcks>>

\* A queue on the way strips the payload.
Trim(p) ==
    /\ data[p] > 0
    /\ data' = [data EXCEPT ![p] = @ - 1]
    /\ hdrs' = [hdrs EXCEPT ![p] = @ + 1]
    /\ UNCHANGED <<source, sink, nacks, cumAcks, oneAcks>>

FlowNext ==
    \/ Start
    \/ \E k \in Packet : RecvCumAck(k)
    \/ \E p \in Packet : RecvOneAck(p)
    \/ \E p \in Packet : RecvNack(p)
    \/ \E p \in Packet : RecvData(p)
    \/ \E p \in Packet : RecvHeader(p)
    \/ \E p \in Packet : Trim(p)

FlowSpec == FlowInit /\ [][FlowNext]_flowVars

-----------------------------------------------------------------------------
\* Properties.

(* Type invariant.                                                         *)
FlowTypeOK ==
    /\ highest \in 0 .. N
    /\ sent \subseteq 1 .. highest
    /\ acked \subseteq sent
    /\ nacked \subseteq sent
    /\ cwnd \in Windows
    /\ rtx \in BOOLEAN
    /\ finished \in BOOLEAN
    /\ cum \in 0 .. N
    /\ ooo \subseteq Packet
    /\ sinkDone \in BOOLEAN
    /\ data \in [Packet -> Nat]
    /\ hdrs \in [Packet -> Nat]
    /\ nacks \in [Packet -> Nat]
    /\ cumAcks \in [Packet -> Nat]
    /\ oneAcks \in [Packet -> Nat]

Bit(b) == IF b THEN 1 ELSE 0

(* A packet that was sent is in exactly one place: whole, as a header or   *)
(* as a NACK in the network, marked at the source for retransmission, or   *)
(* at the sink.  No order of ACKs and NACKs makes the source send a packet *)
(* the sink has, or forget one it has not.                                 *)
OneCopy ==
    \A p \in Packet :
        data[p] + hdrs[p] + nacks[p] + Bit(p \in nacked) + Bit(p \in Received)
            = Bit(p <= highest)

(* The asserts of processNack and mark_received hold, and the question the *)
(* code asks ("would it be possible for a packet to receive a nack after   *)
(* being acked?") is answered: a NACK always finds its packet remembered   *)
(* and not acknowledged, and an acknowledgement of one packet never finds  *)
(* it at the front, where the cumulative ones must have removed it.        *)
RepliesMeetTheirPacket ==
    /\ \A p \in Packet : nacks[p] > 0 => p \in sent \ acked
    /\ \A p \in Packet :
            oneAcks[p] > 0 =>
                /\ ~IsFront(p)
                /\ p \in sent \/ \A q \in sent : q > p

(* Completion is not missed and not early: the flow is over exactly when   *)
(* the source remembers nothing of a flow sent to the end, although it is  *)
(* tested only against the acknowledgement at hand; and then the sink has  *)
(* everything and nothing is on its way to the routes that were deleted.   *)
FinishExact ==
    /\ finished <=> (highest = N /\ sent = {})
    /\ finished =>
        /\ cum = N
        /\ sinkDone
        /\ \A p \in Packet : data[p] = 0 /\ hdrs[p] = 0 /\ nacks[p] = 0

(* No step of the source that puts more packets into the network leaves    *)
(* more unacknowledged than the window, but for the fraction of a packet   *)
(* by which resend_packet may overshoot it.                                *)
WithinWindow ==
    [][ Unacked(sent', acked', nacked') > Unacked(sent, acked, nacked) =>
            2 * Unacked(sent', acked', nacked') <= cwnd' + 1 ]_flowVars
=============================================================================
