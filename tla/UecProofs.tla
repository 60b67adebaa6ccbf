----------------------------- MODULE UecProofs -----------------------------
(***************************************************************************)
(* What holds of a UEC flow of any length under any congestion control,    *)
(* over a fabric that may trim any packet at any time (UecFlow), and that  *)
(* the flow through a trimming queue (UecQueue) is such a flow.            *)
(*                                                                         *)
(* The invariant that carries the argument is AcksInOrder: no packet is    *)
(* acknowledged on its own while it is the one after a cumulative          *)
(* acknowledgement, the one after the sink's own count, or the front of    *)
(* what the source remembers.  So the front only ever moves to a count the *)
(* sink announced, and the acknowledgement that empties the list is the    *)
(* one for the whole flow.                                                 *)
(*                                                                         *)
(* The window needs a count: of the packets sent again at once, all but    *)
(* the last lie within it, because each was tested against those before.   *)
(***************************************************************************)
EXTENDS UecQueue, FiniteSetTheorems, WellFoundedInduction, TLAPS

\* p was acknowledged on its own.
AckedAlone(p) == oneAcks[p] > 0 \/ p \in acked

\* The source remembers what it sent from packet f on.
RemembersFrom(f) ==
    /\ f \in 1 .. (cum + 1)
    /\ sent = f .. highest
    /\ \A p \in Packet : p = f => ~AckedAlone(p)

AcksInOrder ==
    /\ \E f \in Int : RemembersFrom(f)
    /\ \A p \in Packet : AckedAlone(p) => p \in Received
    /\ \A k \in Packet :
            cumAcks[k] > 0 =>
                /\ k <= cum
                /\ \A p \in Packet : p = k + 1 => ~AckedAlone(p)

SinkConsistent ==
    /\ cum <= highest
    /\ \A p \in ooo : p > cum + 1 /\ p <= highest
    /\ sinkDone <=> cum = N

FinishedIffEmpty == finished <=> (highest = N /\ sent = {})

IInv ==
    /\ FlowTypeOK
    /\ OneCopy
    /\ SinkConsistent
    /\ AcksInOrder
    /\ FinishedIffEmpty

-----------------------------------------------------------------------------
\* What send_packets does.

(* get_unacked is a number, and none when nothing is remembered.           *)
LEMMA UnackedIsNat ==
    ASSUME NEW h \in Nat, NEW s \in SUBSET (1 .. h), NEW a, NEW n
    PROVE  /\ Unacked(s, a, n) \in Nat
           /\ s = {} => Unacked(s, a, n) = 0
<1>1. IsFiniteSet(1 .. h)
  BY FS_Interval
<1>2. IsFiniteSet(s \ (a \cup n))
  BY <1>1, FS_Subset
<1>3. Unacked(s, a, n) \in Nat
  BY <1>2, FS_CardinalityType DEF Unacked
<1>4. ASSUME s = {} PROVE Unacked(s, a, n) = 0
  <2>1. s \ (a \cup n) = {}
    BY <1>4
  <2> QED BY <2>1, FS_EmptySet DEF Unacked
<1> QED BY <1>3, <1>4

(* The loop of send_packets never runs past the end of the flow, and with  *)
(* nothing outstanding it sends at least one packet of what is left.       *)
LEMMA RoomBounds ==
    ASSUME NEW u \in Nat, NEW c \in Windows, highest \in 0 .. N
    PROVE  /\ Room(u, c) \in 0 .. (N - highest)
           /\ u = 0 /\ highest # N => Room(u, c) > 0
<1>1. c \in Nat /\ c >= 2 /\ N \in Nat
  BY FlowAssumption
<1>2. c \div 2 \in Nat /\ c \div 2 >= 1
  BY <1>1
<1> DEFINE free == (c \div 2) - u
<1>3. free \in Int
  BY <1>2
<1>4. u = 0 => free >= 1
  BY <1>2
<1>5. Room(u, c) = IF free <= 0 THEN 0
                   ELSE IF free > N - highest THEN N - highest ELSE free
  BY DEF Room
<1> HIDE DEF free
<1> QED BY <1>1, <1>3, <1>4, <1>5

(* What send_packets leaves: more packets at the back of what the source   *)
(* remembers, fewer marked for retransmission, and one new copy in the     *)
(* network of each packet that is new or no longer marked.                 *)
LEMMA SendEffect ==
    ASSUME FlowTypeOK,
           NEW s \in SUBSET (1 .. highest), NEW a, NEW n \in SUBSET s,
           NEW c \in Windows, SendPackets(s, a, n, c)
    PROVE  /\ highest' \in highest .. N
           /\ sent' = s \cup ((highest + 1) .. highest')
           /\ acked' = a
           /\ nacked' \subseteq n
           /\ rtx' \in BOOLEAN
           /\ data' \in [Packet -> Nat]
           /\ \A p \in Packet :
                data'[p] = data[p] + Bit(p \in n) - Bit(p \in nacked')
                            + Bit(p > highest /\ p <= highest')
           /\ s = {} /\ highest # N => highest' > highest
<1> DEFINE again == IF rtx THEN Again(Unacked(s, a, n), n, c) ELSE {}
           room == Room(Unacked(s, a, n \ again), c)
           new == (highest + 1) .. (highest + room)
<1>1. /\ highest' = highest + room
      /\ sent' = s \cup new
      /\ acked' = a
      /\ nacked' = n \ again
      /\ rtx' = (rtx /\ n \ again # {})
      /\ data' = [p \in Packet |->
                    IF p \in again \cup new THEN data[p] + 1 ELSE data[p]]
  BY Zenon DEF SendPackets
<1>2. again \subseteq n
  BY DEF Again
<1>3. /\ highest \in 0 .. N /\ highest \in Nat /\ N \in Nat
      /\ data \in [Packet -> Nat]
  BY FlowAssumption DEF FlowTypeOK
<1>4. /\ Unacked(s, a, n \ again) \in Nat
      /\ s = {} => Unacked(s, a, n \ again) = 0
  BY <1>3, UnackedIsNat
<1>5. /\ room \in 0 .. (N - highest)
      /\ s = {} /\ highest # N => room > 0
  BY <1>3, <1>4, RoomBounds
<1>6. rtx' \in BOOLEAN
  BY <1>1
<1> HIDE DEF again, room
<1>7. /\ highest' \in highest .. N
      /\ s = {} /\ highest # N => highest' > highest
      /\ new = (highest + 1) .. highest'
  BY <1>1, <1>3, <1>5
<1>8. data' \in [Packet -> Nat]
  BY <1>1, <1>3
<1>9. ASSUME NEW p \in Packet
      PROVE  data'[p] = data[p] + Bit(p \in n) - Bit(p \in nacked')
                            + Bit(p > highest /\ p <= highest')
  <2>1. p \in Nat /\ p >= 1 /\ data[p] \in Nat
    BY <1>3 DEF Packet
  <2>2. p \in new <=> (p > highest /\ p <= highest')
    <3>1. highest' \in Int /\ highest \in Int
      BY <1>3, <1>7
    <3> HIDE DEF new
    <3> QED BY <1>7, <2>1, <3>1
  <2>3. p \in again => p \in n /\ p \notin new
    BY <1>2, <1>3, <2>2
  <2>4. data'[p] = IF p \in again \cup new THEN data[p] + 1 ELSE data[p]
    BY <1>1
  <2>5. p \in nacked' <=> p \in n /\ p \notin again
    BY <1>1
  <2> HIDE DEF new
  <2> QED BY <2>1, <2>2, <2>3, <2>4, <2>5, <1>2 DEF Bit
<1> QED BY <1>1, <1>6, <1>7, <1>8, <1>9

-----------------------------------------------------------------------------
\* The invariant, step by step.

(* What OneCopy says packet by packet.                                     *)
LEMMA CopyFacts ==
    ASSUME IInv, NEW p \in Packet
    PROVE  /\ data[p] > 0 \/ hdrs[p] > 0 \/ nacks[p] > 0 \/ p \in nacked =>
                p <= highest /\ p \notin Received
           /\ nacks[p] > 0 => p \notin nacked /\ p \in sent
           /\ p \in Received =>
                data[p] = 0 /\ hdrs[p] = 0 /\ nacks[p] = 0 /\ p <= highest
<1>1. /\ data[p] \in Nat /\ hdrs[p] \in Nat /\ nacks[p] \in Nat
      /\ highest \in Nat /\ cum \in Nat /\ p \in Nat
  BY DEF IInv, FlowTypeOK, Packet
<1>2. data[p] + hdrs[p] + nacks[p] + Bit(p \in nacked) + Bit(p \in Received)
        = Bit(p <= highest)
  BY DEF IInv, OneCopy
<1>3. /\ data[p] > 0 \/ hdrs[p] > 0 \/ nacks[p] > 0 \/ p \in nacked =>
            p <= highest /\ p \notin Received
      /\ nacks[p] > 0 => p \notin nacked
      /\ p \in Received =>
            data[p] = 0 /\ hdrs[p] = 0 /\ nacks[p] = 0 /\ p <= highest
  <2> DEFINE n == Bit(p \in nacked)
             r == Bit(p \in Received)
             h == Bit(p <= highest)
  <2>1. /\ n \in {0, 1} /\ (n = 1 <=> p \in nacked)
        /\ r \in {0, 1} /\ (r = 1 <=> p \in Received)
        /\ h \in {0, 1} /\ (h = 1 <=> p <= highest)
    BY DEF Bit
  <2> DEFINE d == data[p]
             e == hdrs[p]
             k == nacks[p]
  <2>2. d + e + k + n + r = h /\ d \in Nat /\ e \in Nat /\ k \in Nat
    BY <1>1, <1>2
  <2> HIDE DEF n, r, h, d, e, k
  <2>3. /\ d > 0 \/ e > 0 \/ k > 0 \/ n = 1 => h = 1 /\ r = 0
        /\ k > 0 => n = 0
        /\ r = 1 => d = 0 /\ e = 0 /\ k = 0 /\ h = 1
    BY <2>1, <2>2
  <2> QED BY <2>1, <2>3 DEF d, e, k
<1>4. ASSUME nacks[p] > 0 PROVE p \in sent
  <2>1. PICK f \in Int : RemembersFrom(f)
    BY DEF IInv, AcksInOrder
  <2>2. f <= cum + 1 /\ sent = f .. highest
    BY <1>1, <2>1 DEF RemembersFrom
  <2>3. p > cum
    BY <1>1, <1>3, <1>4 DEF Received
  <2> QED BY <1>1, <1>3, <1>4, <2>2, <2>3
<1> QED BY <1>3, <1>4

LEMMA InitInv == FlowInit => IInv
<1> SUFFICES ASSUME FlowInit PROVE IInv
  OBVIOUS
<1> USE FlowAssumption DEF FlowInit, Packet
<1>1. FlowTypeOK
  <2>1. /\ highest \in 0 .. N /\ cum \in 0 .. N
        /\ sent \subseteq 1 .. highest /\ ooo \subseteq Packet
    OBVIOUS
  <2>2. /\ data \in [Packet -> Nat] /\ hdrs \in [Packet -> Nat]
        /\ nacks \in [Packet -> Nat] /\ cumAcks \in [Packet -> Nat]
        /\ oneAcks \in [Packet -> Nat]
    OBVIOUS
  <2> QED BY <2>1, <2>2 DEF FlowTypeOK
<1>2. Received = {}
  BY DEF Received
<1>3. OneCopy
  BY <1>2 DEF OneCopy, Bit
<1>4. SinkConsistent
  BY DEF SinkConsistent
<1>5. \A p \in Packet : ~AckedAlone(p)
  BY DEF AckedAlone
<1>6. RemembersFrom(1)
  BY <1>5 DEF RemembersFrom
<1>7. AcksInOrder
  BY <1>5, <1>6 DEF AcksInOrder
<1>8. FinishedIffEmpty
  BY DEF FinishedIffEmpty
<1> QED BY <1>1, <1>3, <1>4, <1>7, <1>8 DEF IInv

(* A step of the source that forgets the packets before g, flags some of   *)
(* those acknowledged alone and runs send_packets keeps the invariant.     *)
LEMMA SendKeeps ==
    ASSUME IInv,
           NEW g \in 1 .. (cum + 1),
           NEW marked \in SUBSET (g .. highest),
           NEW c \in Windows,
           \A p \in marked : AckedAlone(p),
           \A p \in Packet : p = g => ~AckedAlone(p),
           nacked \subseteq g .. highest,
           SendPackets(g .. highest, marked, nacked, c),
           cwnd' \in Windows,
           cumAcks' \in [Packet -> Nat],
           oneAcks' \in [Packet -> Nat],
           \A p \in Packet : cumAcks'[p] <= cumAcks[p] /\ oneAcks'[p] <= oneAcks[p],
           UNCHANGED <<finished, sink, hdrs, nacks>>,
           finished => highest = N /\ g .. highest = {},
           g .. highest = {} /\ ~finished => highest # N
    PROVE  IInv'
<1>1. /\ FlowTypeOK
      /\ highest \in Nat /\ highest <= N /\ N \in Nat /\ cum \in Nat
      /\ cum <= highest /\ g \in Nat /\ g >= 1 /\ g <= highest + 1
  BY FlowAssumption DEF IInv, FlowTypeOK, SinkConsistent
<1>2. /\ UNCHANGED <<cum, ooo, sinkDone, hdrs, nacks, finished>>
      /\ Received' = Received
  BY DEF sink, Received, Packet
<1>3. /\ highest' \in highest .. N
      /\ sent' = (g .. highest) \cup ((highest + 1) .. highest')
      /\ acked' = marked
      /\ nacked' \subseteq nacked
      /\ rtx' \in BOOLEAN
      /\ data' \in [Packet -> Nat]
      /\ \A p \in Packet :
            data'[p] = data[p] + Bit(p \in nacked) - Bit(p \in nacked')
                        + Bit(p > highest /\ p <= highest')
      /\ g .. highest = {} /\ highest # N => highest' > highest
  <2> DEFINE s == g .. highest
  <2>1. s \in SUBSET (1 .. highest) /\ nacked \in SUBSET s
    BY <1>1
  <2>2. SendPackets(s, marked, nacked, c)
    OBVIOUS
  <2> HIDE DEF s
  <2>3. /\ highest' \in highest .. N
        /\ sent' = s \cup ((highest + 1) .. highest')
        /\ acked' = marked
        /\ nacked' \subseteq nacked
        /\ rtx' \in BOOLEAN
        /\ data' \in [Packet -> Nat]
        /\ \A p \in Packet :
            data'[p] = data[p] + Bit(p \in nacked) - Bit(p \in nacked')
                        + Bit(p > highest /\ p <= highest')
        /\ s = {} /\ highest # N => highest' > highest
    BY <1>1, <2>1, <2>2, SendEffect
  <2> QED BY <2>3 DEF s
<1>4. highest' \in Nat /\ highest <= highest' /\ highest' <= N
  BY <1>1, <1>3
<1>5. sent' = g .. highest'
  BY <1>1, <1>3, <1>4
<1>6. FlowTypeOK'
  <2>1. /\ sent' \subseteq 1 .. highest' /\ acked' \subseteq sent'
        /\ nacked' \subseteq sent'
    BY <1>1, <1>3, <1>4, <1>5
  <2> QED BY <1>1, <1>2, <1>3, <1>4, <2>1 DEF FlowTypeOK
<1>7. OneCopy'
  <2> SUFFICES ASSUME NEW p \in Packet
               PROVE  data'[p] + hdrs'[p] + nacks'[p] + Bit(p \in nacked')
                        + Bit(p \in Received') = Bit(p <= highest')
    BY DEF OneCopy, Packet
  <2>1. /\ data[p] \in Nat /\ hdrs[p] \in Nat /\ nacks[p] \in Nat /\ p \in Nat
        /\ data[p] + hdrs[p] + nacks[p] + Bit(p \in nacked) + Bit(p \in Received)
            = Bit(p <= highest)
    <3>1. data[p] \in Nat /\ hdrs[p] \in Nat /\ nacks[p] \in Nat
      BY <1>1 DEF FlowTypeOK
    <3>2. p \in Nat
      BY DEF Packet
    <3> QED BY <3>1, <3>2 DEF IInv, OneCopy
  <2>2. data'[p] = data[p] + Bit(p \in nacked) - Bit(p \in nacked')
                        + Bit(p > highest /\ p <= highest')
    BY <1>3
  <2>3. Bit(p <= highest) + Bit(p > highest /\ p <= highest') = Bit(p <= highest')
    BY <1>1, <1>4, <2>1 DEF Bit
  <2> DEFINE n0 == Bit(p \in nacked)
             n1 == Bit(p \in nacked')
             r == Bit(p \in Received)
             b == Bit(p > highest /\ p <= highest')
             h0 == Bit(p <= highest)
             h1 == Bit(p <= highest')
             d == data[p]
             e == hdrs[p]
             k == nacks[p]
  <2>4. n0 \in Int /\ n1 \in Int /\ r \in Int /\ b \in Int /\ h0 \in Int /\ h1 \in Int
    BY DEF Bit
  <2>5. d \in Int /\ e \in Int /\ k \in Int /\ d + e + k + n0 + r = h0 /\ h0 + b = h1
    <3>1. d \in Int /\ e \in Int /\ k \in Int
      BY <2>1
    <3>2. d + e + k + n0 + r = h0
      BY Zenon, <2>1
    <3>3. h0 + b = h1
      BY Zenon, <2>3
    <3> QED BY <3>1, <3>2, <3>3
  <2>6. /\ hdrs'[p] = e /\ nacks'[p] = k
        /\ Bit(p \in Received') = r
        /\ data'[p] = d + n0 - n1 + b
    BY <1>2, <2>2
  <2> SUFFICES (d + n0 - n1 + b) + e + k + n1 + r = h1
    BY <2>6
  <2> HIDE DEF n0, n1, r, b, h0, h1, d, e, k
  <2> QED BY <2>4, <2>5
<1>8. SinkConsistent'
  <2>1. SinkConsistent /\ ooo \subseteq Packet
    BY <1>1 DEF IInv, FlowTypeOK
  <2> QED BY <1>1, <1>2, <1>4, <2>1 DEF SinkConsistent, Packet
<1>9. AcksInOrder'
  <2>1. ASSUME NEW p \in Packet, AckedAlone(p)' PROVE AckedAlone(p)
    <3>1. oneAcks[p] \in Nat /\ oneAcks'[p] \in Nat
      BY <1>1 DEF FlowTypeOK
    <3>2. oneAcks'[p] <= oneAcks[p]
      OBVIOUS
    <3>3. CASE oneAcks'[p] > 0
      BY <3>1, <3>2, <3>3 DEF AckedAlone
    <3>4. CASE p \in acked'
      BY <1>3, <3>4
    <3> QED BY <2>1, <3>3, <3>4 DEF AckedAlone
  <2>2. RemembersFrom(g)'
    BY <1>2, <1>5, <2>1 DEF RemembersFrom, Packet
  <2>3. ASSUME NEW k \in Packet, cumAcks'[k] > 0 PROVE cumAcks[k] > 0
    <3>1. cumAcks[k] \in Nat /\ cumAcks'[k] \in Nat
      BY <1>1 DEF FlowTypeOK
    <3> QED BY <2>3, <3>1
  <2>4. AcksInOrder
    BY DEF IInv
  <2>5. Packet' = Packet /\ g \in Int
    BY <1>1 DEF Packet
  <2> QED BY <1>2, <2>1, <2>2, <2>3, <2>4, <2>5 DEF AcksInOrder
<1>10. FinishedIffEmpty'
  <2>1. CASE finished
    BY <1>1, <1>2, <1>4, <1>5, <2>1 DEF FinishedIffEmpty
  <2>2. CASE ~finished
    <3>1. ASSUME highest' = N, sent' = {} PROVE FALSE
      <4>1. g .. highest = {} /\ highest' = highest
        BY <1>1, <1>3, <1>4, <3>1
      <4> QED BY <1>3, <2>2, <3>1, <4>1
    <3> QED BY <1>2, <2>2, <3>1 DEF FinishedIffEmpty
  <2> QED BY <2>1, <2>2
<1> QED BY <1>6, <1>7, <1>8, <1>9, <1>10 DEF IInv

(* An acknowledgement that leaves the packets from g on.                   *)
LEMMA ProcessKeeps ==
    ASSUME IInv,
           NEW f \in Int, RemembersFrom(f),
           NEW last \in Packet \cap Received,
           NEW g \in f .. (cum + 1),
           NEW flagged,
           \A p \in flagged : p \in Packet /\ AckedAlone(p),
           \A p \in Packet : p = g => ~AckedAlone(p),
           cumAcks' \in [Packet -> Nat],
           oneAcks' \in [Packet -> Nat],
           \A p \in Packet : cumAcks'[p] <= cumAcks[p] /\ oneAcks'[p] <= oneAcks[p],
           highest = N /\ g .. highest = {} /\ ~finished => last >= N,
           ProcessAck(last, g .. highest, flagged)
    PROVE  IInv'
<1> DEFINE left == g .. highest
           marked == flagged \cap left
           trimmed == (nacked \cap left) \ marked
<1>1. /\ FlowTypeOK
      /\ highest \in Nat /\ highest <= N /\ N \in Nat /\ cum \in Nat
      /\ cum <= highest /\ f >= 1 /\ f <= cum + 1 /\ sent = f .. highest
      /\ g \in Nat /\ g \in 1 .. (cum + 1) /\ g >= f
  BY FlowAssumption DEF IInv, FlowTypeOK, SinkConsistent, RemembersFrom
<1>2. nacked \subseteq g .. highest /\ nacked \cap flagged = {}
  <2> SUFFICES ASSUME NEW p \in nacked PROVE p \in g .. highest /\ p \notin flagged
    OBVIOUS
  <2>1. p \in Packet /\ p \in Int /\ p \in sent
    BY <1>1 DEF FlowTypeOK, Packet
  <2>2. p \notin Received /\ p <= highest
    BY <2>1, CopyFacts
  <2>3. p > cum
    BY <1>1, <2>1, <2>2 DEF Received
  <2>4. ~AckedAlone(p)
    BY <2>1, <2>2 DEF IInv, AcksInOrder
  <2> QED BY <1>1, <2>1, <2>2, <2>3, <2>4
<1>3. trimmed = nacked
  BY <1>2
<1>4. UNCHANGED <<sink, hdrs, nacks>>
  BY DEF ProcessAck, Finishes
<1>5. finished => highest = N /\ sent = {}
  BY DEF IInv, FinishedIffEmpty
<1>6. finished => left = {}
  BY <1>1, <1>5
<1>7. CASE last >= N /\ left = {} /\ ~finished
  <2>1. /\ finished' = TRUE
        /\ sent' = {} /\ acked' = {} /\ nacked' = {} /\ nacked = {}
        /\ UNCHANGED <<highest, cwnd, rtx, data>>
    BY <1>2, <1>3, <1>7 DEF ProcessAck, Finishes
  <2>2. highest = N
    BY <1>1, <1>7, CopyFacts DEF Packet
  <2>3. Received' = Received /\ UNCHANGED <<cum, ooo, sinkDone, hdrs, nacks>>
    BY <1>4 DEF sink, Received, Packet
  <2>4. FlowTypeOK'
    BY <1>1, <2>1, <2>3 DEF FlowTypeOK, Packet
  <2>5. OneCopy'
    <3> SUFFICES ASSUME NEW p \in Packet
                 PROVE  data'[p] + hdrs'[p] + nacks'[p] + Bit(p \in nacked')
                            + Bit(p \in Received') = Bit(p <= highest')
      BY DEF OneCopy, Packet
    <3>1. data[p] + hdrs[p] + nacks[p] + Bit(p \in nacked) + Bit(p \in Received)
                = Bit(p <= highest)
      BY DEF IInv, OneCopy
    <3>2. nacked' = nacked
      BY <2>1
    <3> HIDE DEF Bit
    <3> QED BY Zenon, <2>1, <2>3, <3>1, <3>2
  <2>6. SinkConsistent'
    BY <2>1, <2>3 DEF IInv, SinkConsistent
  <2>7. ASSUME NEW p \in Packet, AckedAlone(p)' PROVE AckedAlone(p)
    <3>1. oneAcks[p] \in Nat /\ oneAcks'[p] \in Nat /\ oneAcks'[p] <= oneAcks[p]
      BY <1>1 DEF FlowTypeOK
    <3>2. oneAcks'[p] > 0
      BY <2>1, <2>7 DEF AckedAlone
    <3> QED BY <3>1, <3>2 DEF AckedAlone
  <2>8. AcksInOrder'
    <3>1. RemembersFrom(g)'
      <4>1. g .. highest = {}
        BY <1>7
      <4> QED BY <1>1, <2>1, <2>3, <2>7, <4>1 DEF RemembersFrom, Packet
    <3>2. ASSUME NEW k \in Packet, cumAcks'[k] > 0 PROVE cumAcks[k] > 0
      <4>1. cumAcks[k] \in Nat /\ cumAcks'[k] \in Nat /\ cumAcks'[k] <= cumAcks[k]
        BY <1>1 DEF FlowTypeOK
      <4> QED BY <3>2, <4>1
    <3>3. AcksInOrder /\ g \in Int
      BY <1>1 DEF IInv
    <3>4. Packet' = Packet
      BY DEF Packet
    <3> QED BY <2>3, <2>7, <3>1, <3>2, <3>3, <3>4 DEF AcksInOrder
  <2>9. FinishedIffEmpty'
    BY <2>1, <2>2 DEF FinishedIffEmpty
  <2> QED BY <2>4, <2>5, <2>6, <2>8, <2>9 DEF IInv
<1>8. CASE ~(last >= N /\ left = {} /\ ~finished)
  <2>1. PICK c \in Windows :
            /\ cwnd' = c
            /\ SendPackets(left, marked, trimmed, c)
            /\ UNCHANGED finished
    BY Zenon, <1>8 DEF ProcessAck, Finishes
  <2>2. SendPackets(g .. highest, marked, nacked, c)
    BY <1>3, <2>1
  <2>3. marked \in SUBSET (g .. highest) /\ \A p \in marked : AckedAlone(p)
    OBVIOUS
  <2>4. g .. highest = {} /\ ~finished => highest # N
    BY <1>8
  <2> HIDE DEF marked
  <2> QED BY <1>1, <1>2, <1>4, <1>5, <1>6, <2>1, <2>2, <2>3, <2>4, SendKeeps
<1> QED BY <1>7, <1>8

LEMMA StartKeeps == IInv /\ Start => IInv'
<1> SUFFICES ASSUME IInv, Start PROVE IInv'
  OBVIOUS
<1>1. /\ FlowTypeOK
      /\ highest = 0 /\ N \in Nat /\ N > 0 /\ cum \in Nat
      /\ sent = {} /\ acked = {} /\ nacked = {} /\ ~finished
  BY FlowAssumption DEF IInv, FlowTypeOK, FinishedIffEmpty, Start
<1>2. /\ SendPackets(1 .. highest, {}, nacked, cwnd)
      /\ UNCHANGED <<cwnd, finished, sink, hdrs, nacks, cumAcks, oneAcks>>
  BY <1>1 DEF Start
<1>3. \A p \in Packet : ~AckedAlone(p)
  BY <1>1, CopyFacts DEF IInv, AcksInOrder, Packet
<1>4. \A p \in Packet : cumAcks'[p] <= cumAcks[p] /\ oneAcks'[p] <= oneAcks[p]
  BY <1>1, <1>2 DEF FlowTypeOK
<1>5. /\ cwnd \in Windows /\ cwnd' \in Windows
      /\ cumAcks' \in [Packet -> Nat] /\ oneAcks' \in [Packet -> Nat]
  BY <1>1, <1>2 DEF FlowTypeOK
<1>6. 1 \in 1 .. (cum + 1) /\ highest # N
  BY <1>1
<1> QED BY <1>1, <1>2, <1>3, <1>4, <1>5, <1>6, SendKeeps

LEMMA RecvCumAckKeeps ==
    ASSUME IInv, NEW k \in Packet, RecvCumAck(k) PROVE IInv'
<1>1. PICK f \in Int : RemembersFrom(f)
  BY DEF IInv, AcksInOrder
<1>2. /\ FlowTypeOK /\ f >= 1 /\ f <= cum + 1 /\ sent = f .. highest
      /\ cum \in Nat /\ highest \in Nat /\ cum <= highest /\ k \in Nat /\ k >= 1
      /\ highest <= N /\ N \in Nat
  <2>1. k \in Nat /\ k >= 1
    BY DEF Packet
  <2> QED BY <1>1, <2>1, FlowAssumption
      DEF IInv, FlowTypeOK, SinkConsistent, RemembersFrom
<1>3. /\ cumAcks[k] > 0
      /\ cumAcks' = [cumAcks EXCEPT ![k] = @ - 1]
      /\ ProcessAck(k, Remaining(1 .. k), acked)
      /\ oneAcks' = oneAcks
  BY DEF RecvCumAck
<1>4. k <= cum /\ \A p \in Packet : p = k + 1 => ~AckedAlone(p)
  BY <1>3 DEF IInv, AcksInOrder
<1>5. PICK g \in {f, k + 1} : g >= f /\ g > k /\ (g = f \/ g = k + 1)
  BY <1>2
<1>6. \A p \in Packet : p = g => ~AckedAlone(p)
  BY <1>1, <1>4, <1>5 DEF RemembersFrom
<1>7. Remaining(1 .. k) = g .. highest
  <2>1. ASSUME NEW p \in Remaining(1 .. k) PROVE p \in g .. highest
    <3>1. PICK q \in sent : p \in sent /\ q <= p /\ q \notin (1 .. k) \cup acked
      BY DEF Remaining
    <3>2. q \in Int /\ q >= f /\ q > k
      BY <1>2, <3>1
    <3> QED BY <1>2, <1>5, <3>1, <3>2
  <2>2. ASSUME NEW p \in g .. highest PROVE p \in Remaining(1 .. k)
    <3>1. /\ p \in Int /\ g \in Int /\ g <= p /\ p \in sent /\ g \in sent
          /\ g \in Packet
      BY <1>2, <1>5 DEF Packet
    <3>2. g \notin (1 .. k) \cup acked
      BY <1>5, <1>6, <3>1 DEF AckedAlone
    <3> QED BY <3>1, <3>2 DEF Remaining
  <2> QED BY <2>1, <2>2
<1>8. /\ cumAcks' \in [Packet -> Nat] /\ oneAcks' \in [Packet -> Nat]
      /\ \A p \in Packet : cumAcks'[p] <= cumAcks[p] /\ oneAcks'[p] <= oneAcks[p]
  BY <1>2, <1>3 DEF FlowTypeOK
<1>9. \A p \in acked : p \in Packet /\ AckedAlone(p)
  BY <1>2 DEF FlowTypeOK, AckedAlone, Packet
<1>10. highest = N /\ g .. highest = {} /\ ~finished => k >= N
  <2> SUFFICES ASSUME highest = N, g .. highest = {}, g = f PROVE finished
    BY <1>2, <1>5
  <2>1. sent = {}
    BY <1>2
  <2> QED BY <2>1 DEF IInv, FinishedIffEmpty
<1>11. k \in Packet \cap Received /\ g \in f .. (cum + 1)
  BY <1>2, <1>4, <1>5 DEF Received
<1> QED BY <1>1, <1>3, <1>6, <1>7, <1>8, <1>9, <1>10, <1>11, ProcessKeeps

LEMMA RecvOneAckKeeps ==
    ASSUME IInv, NEW a \in Packet, RecvOneAck(a) PROVE IInv'
<1>1. PICK f \in Int : RemembersFrom(f)
  BY DEF IInv, AcksInOrder
<1>2. /\ FlowTypeOK /\ f >= 1 /\ f <= cum + 1 /\ sent = f .. highest
      /\ cum \in Nat /\ highest \in Nat /\ cum <= highest
  BY <1>1 DEF IInv, FlowTypeOK, SinkConsistent, RemembersFrom
<1>3. /\ oneAcks[a] > 0
      /\ oneAcks' = [oneAcks EXCEPT ![a] = @ - 1]
      /\ cumAcks' = cumAcks
  BY DEF RecvOneAck
<1>4. AckedAlone(a)
  BY <1>3 DEF AckedAlone
<1>5. ~IsFront(a)
  <2> SUFFICES ASSUME IsFront(a) PROVE FALSE
    OBVIOUS
  <2>1. a \in Int /\ a \in sent /\ \A q \in sent : a <= q
    BY DEF IsFront, Packet
  <2>2. f \in sent
    BY <1>2, <2>1
  <2>3. a = f
    BY <1>2, <2>1, <2>2
  <2> QED BY <1>1, <1>4, <2>3 DEF RemembersFrom
<1>6. PICK flagged \in {acked, acked \cup {a}} : ProcessAck(a, sent, flagged)
  BY Zenon, <1>5 DEF RecvOneAck
<1>7. \A p \in flagged : p \in Packet /\ AckedAlone(p)
  <2>1. \A p \in acked : p \in Packet /\ AckedAlone(p)
    BY <1>2, FlowAssumption DEF FlowTypeOK, AckedAlone, Packet
  <2> QED BY <1>4, <1>6, <2>1
<1>8. /\ cumAcks' \in [Packet -> Nat] /\ oneAcks' \in [Packet -> Nat]
      /\ \A p \in Packet : cumAcks'[p] <= cumAcks[p] /\ oneAcks'[p] <= oneAcks[p]
  BY <1>2, <1>3 DEF FlowTypeOK
<1>9. highest = N /\ f .. highest = {} => finished
  BY <1>2 DEF IInv, FinishedIffEmpty
<1>10. a \in Packet \cap Received /\ f \in f .. (cum + 1)
  BY <1>2, <1>4 DEF IInv, AcksInOrder
<1>11. \A p \in Packet : p = f => ~AckedAlone(p)
  BY <1>1 DEF RemembersFrom
<1>12. ProcessAck(a, f .. highest, flagged)
  BY <1>2, <1>6
<1> QED BY <1>1, <1>7, <1>8, <1>9, <1>10, <1>11, <1>12, ProcessKeeps

(* What the steps that leave highest, finished and the sink alone, and     *)
(* forget or flag nothing, have to keep.                                   *)
LEMMA NetworkKeeps ==
    ASSUME IInv,
           UNCHANGED <<highest, sent, acked, finished, sink, cumAcks, oneAcks>>,
           FlowTypeOK', OneCopy'
    PROVE  IInv'
<1>1. UNCHANGED <<highest, sent, acked, finished, cum, ooo, sinkDone,
                  cumAcks, oneAcks>>
  BY DEF sink
<1>2. /\ Packet' = Packet /\ Received' = Received
      /\ \A p : AckedAlone(p)' <=> AckedAlone(p)
      /\ \A f : RemembersFrom(f)' <=> RemembersFrom(f)
  BY <1>1 DEF Packet, Received, AckedAlone, RemembersFrom
<1>3. AcksInOrder'
  BY <1>1, <1>2 DEF IInv, AcksInOrder
<1>4. SinkConsistent' /\ FinishedIffEmpty'
  BY <1>1 DEF IInv, SinkConsistent, FinishedIffEmpty
<1> QED BY <1>3, <1>4 DEF IInv

LEMMA RecvNackKeeps ==
    ASSUME IInv, NEW a \in Packet, RecvNack(a) PROVE IInv'
<1>1. /\ nacks[a] > 0
      /\ nacks' = [nacks EXCEPT ![a] = @ - 1]
      /\ UNCHANGED <<highest, sent, acked, finished, sink, hdrs, cumAcks, oneAcks>>
      /\ cwnd' \in Windows
      /\ \/ /\ nacked' = nacked \ {a}
            /\ data' = [data EXCEPT ![a] = @ + 1]
            /\ UNCHANGED rtx
         \/ /\ nacked' = nacked \cup {a}
            /\ rtx' = TRUE
            /\ UNCHANGED data
  BY DEF RecvNack
<1>2. a \in sent /\ a \notin nacked
  BY <1>1, CopyFacts
<1>3. FlowTypeOK
  BY DEF IInv
<1>4. nacks[a] \in Nat /\ nacks[a] - 1 \in Nat /\ data[a] + 1 \in Nat
  BY <1>1, <1>3 DEF FlowTypeOK
<1>5. FlowTypeOK'
  <2>1. UNCHANGED <<highest, sent, acked, finished, cum, ooo, sinkDone, hdrs,
                    cumAcks, oneAcks>> /\ Packet' = Packet
    BY <1>1 DEF sink, Packet
  <2>2. nacks' \in [Packet -> Nat] /\ data' \in [Packet -> Nat]
    BY <1>1, <1>3, <1>4 DEF FlowTypeOK
  <2>3. nacked' \subseteq sent /\ rtx' \in BOOLEAN
    BY <1>1, <1>2, <1>3 DEF FlowTypeOK
  <2> QED BY <1>1, <1>3, <2>1, <2>2, <2>3 DEF FlowTypeOK
<1>6. OneCopy'
  <2> SUFFICES ASSUME NEW p \in Packet
               PROVE  data'[p] + hdrs'[p] + nacks'[p] + Bit(p \in nacked')
                            + Bit(p \in Received') = Bit(p <= highest')
    BY DEF OneCopy, Packet
  <2>1. data[p] + hdrs[p] + nacks[p] + Bit(p \in nacked) + Bit(p \in Received)
            = Bit(p <= highest)
    BY DEF IInv, OneCopy
  <2>2. /\ hdrs'[p] = hdrs[p] /\ highest' = highest /\ Received' = Received
        /\ data[p] \in Nat /\ hdrs[p] \in Nat /\ nacks[p] \in Nat
    BY <1>1, <1>3 DEF sink, Received, Packet, FlowTypeOK
  <2>3. data'[p] + nacks'[p] + Bit(p \in nacked')
            = data[p] + nacks[p] + Bit(p \in nacked)
    <3>1. CASE p # a
      BY <1>1, <1>3, <3>1 DEF FlowTypeOK, Bit
    <3>2. CASE p = a
      <4>1. nacks'[p] = nacks[p] - 1 /\ ~(p \in nacked)
        BY <1>1, <1>2, <1>3, <3>2 DEF FlowTypeOK
      <4>2. \/ data'[p] = data[p] + 1 /\ ~(p \in nacked')
            \/ data'[p] = data[p] /\ p \in nacked'
        BY <1>1, <1>3, <3>2 DEF FlowTypeOK
      <4> QED BY <2>2, <4>1, <4>2 DEF Bit
    <3> QED BY <3>1, <3>2
  <2> DEFINE d0 == data[p]    d1 == data'[p]
             k0 == nacks[p]   k1 == nacks'[p]
             n0 == Bit(p \in nacked)   n1 == Bit(p \in nacked')
             r == Bit(p \in Received)  h == Bit(p <= highest)  e == hdrs[p]
  <2>4. d0 + e + k0 + n0 + r = h /\ d1 + k1 + n1 = d0 + k0 + n0
    BY Zenon, <2>1, <2>3
  <2>5. /\ d0 \in Int /\ d1 \in Int /\ k0 \in Int /\ k1 \in Int /\ e \in Int
        /\ n0 \in Int /\ n1 \in Int /\ r \in Int /\ h \in Int
    BY <1>5, <2>2 DEF FlowTypeOK, Bit, Packet
  <2> SUFFICES d1 + e + k1 + n1 + r = h
    BY <2>2
  <2> HIDE DEF d0, d1, k0, k1, n0, n1, r, h, e
  <2> QED BY <2>4, <2>5
<1> QED BY <1>1, <1>5, <1>6, NetworkKeeps

LEMMA RecvHeaderKeeps ==
    ASSUME IInv, NEW a \in Packet, RecvHeader(a) PROVE IInv'
<1>1. /\ hdrs[a] > 0
      /\ hdrs' = [hdrs EXCEPT ![a] = @ - 1]
      /\ nacks' = [nacks EXCEPT ![a] = @ + 1]
      /\ UNCHANGED <<source, sink, data, cumAcks, oneAcks>>
  BY DEF RecvHeader
<1>2. UNCHANGED <<highest, sent, acked, nacked, cwnd, rtx, finished, cum, ooo,
                  sinkDone>> /\ Packet' = Packet /\ Received' = Received
  BY <1>1 DEF source, sink, Packet, Received
<1>3. FlowTypeOK
  BY DEF IInv
<1>4. /\ hdrs' \in [Packet -> Nat] /\ nacks' \in [Packet -> Nat]
      /\ \A p \in Packet : hdrs'[p] + nacks'[p] = hdrs[p] + nacks[p]
  BY <1>1, <1>3 DEF FlowTypeOK
<1>5. FlowTypeOK'
  BY <1>1, <1>2, <1>3, <1>4 DEF FlowTypeOK
<1>6. OneCopy'
  <2> SUFFICES ASSUME NEW p \in Packet
               PROVE  data'[p] + hdrs'[p] + nacks'[p] + Bit(p \in nacked')
                            + Bit(p \in Received') = Bit(p <= highest')
    BY DEF OneCopy, Packet
  <2> DEFINE d == data[p]
             e0 == hdrs[p]    e1 == hdrs'[p]
             k0 == nacks[p]   k1 == nacks'[p]
             n == Bit(p \in nacked)
             r == Bit(p \in Received)  h == Bit(p <= highest)
  <2>1. d + e0 + k0 + n + r = h /\ e1 + k1 = e0 + k0
    BY Zenon, <1>4 DEF IInv, OneCopy
  <2>2. /\ d \in Int /\ e0 \in Int /\ e1 \in Int /\ k0 \in Int /\ k1 \in Int
        /\ n \in Int /\ r \in Int /\ h \in Int
    BY <1>3, <1>4 DEF FlowTypeOK, Bit
  <2> SUFFICES d + e1 + k1 + n + r = h
    BY <1>1, <1>2
  <2> HIDE DEF d, e0, e1, k0, k1, n, r, h
  <2> QED BY <2>1, <2>2
<1> QED BY <1>1, <1>2, <1>5, <1>6, NetworkKeeps

LEMMA TrimKeeps ==
    ASSUME IInv, NEW a \in Packet, Trim(a) PROVE IInv'
<1>1. /\ data[a] > 0
      /\ data' = [data EXCEPT ![a] = @ - 1]
      /\ hdrs' = [hdrs EXCEPT ![a] = @ + 1]
      /\ UNCHANGED <<source, sink, nacks, cumAcks, oneAcks>>
  BY DEF Trim
<1>2. UNCHANGED <<highest, sent, acked, nacked, cwnd, rtx, finished, cum, ooo,
                  sinkDone>> /\ Packet' = Packet /\ Received' = Received
  BY <1>1 DEF source, sink, Packet, Received
<1>3. FlowTypeOK
  BY DEF IInv
<1>4. /\ data' \in [Packet -> Nat] /\ hdrs' \in [Packet -> Nat]
      /\ \A p \in Packet : data'[p] + hdrs'[p] = data[p] + hdrs[p]
  BY <1>1, <1>3 DEF FlowTypeOK
<1>5. FlowTypeOK'
  BY <1>1, <1>2, <1>3, <1>4 DEF FlowTypeOK
<1>6. OneCopy'
  <2> SUFFICES ASSUME NEW p \in Packet
               PROVE  data'[p] + hdrs'[p] + nacks'[p] + Bit(p \in nacked')
                            + Bit(p \in Received') = Bit(p <= highest')
    BY DEF OneCopy, Packet
  <2> DEFINE d0 == data[p]    d1 == data'[p]
             e0 == hdrs[p]    e1 == hdrs'[p]
             k == nacks[p]
             n == Bit(p \in nacked)
             r == Bit(p \in Received)  h == Bit(p <= highest)
  <2>1. d0 + e0 + k + n + r = h /\ d1 + e1 = d0 + e0
    BY Zenon, <1>4 DEF IInv, OneCopy
  <2>2. /\ d0 \in Int /\ d1 \in Int /\ e0 \in Int /\ e1 \in Int /\ k \in Int
        /\ n \in Int /\ r \in Int /\ h \in Int
    BY <1>3, <1>4 DEF FlowTypeOK, Bit
  <2> SUFFICES d1 + e1 + k + n + r = h
    BY <1>1, <1>2
  <2> HIDE DEF d0, d1, e0, e1, k, n, r, h
  <2> QED BY <2>1, <2>2
<1> QED BY <1>1, <1>2, <1>5, <1>6, NetworkKeeps

(* A whole packet is new to the sink; the packets the sink has afterwards  *)
(* are that one and those it had.                                          *)
LEMMA RecvDataKeeps ==
    ASSUME IInv, NEW a \in Packet, RecvData(a) PROVE IInv'
<1>1. /\ data[a] > 0
      /\ data' = [data EXCEPT ![a] = @ - 1]
      /\ sinkDone' = (sinkDone \/ cum' >= N)
      /\ UNCHANGED <<source, hdrs, nacks>>
  BY DEF RecvData
<1>2. /\ FlowTypeOK /\ SinkConsistent
      /\ N \in Nat /\ highest \in Nat /\ highest <= N /\ cum \in Nat /\ cum <= N
  BY FlowAssumption DEF IInv, FlowTypeOK
<1>3. a \notin Received /\ a <= highest /\ a \in Nat /\ a >= 1 /\ a > cum
  BY <1>1, <1>2, CopyFacts DEF Received, Packet
<1>4. UNCHANGED <<highest, sent, acked, nacked, cwnd, rtx, finished, hdrs, nacks>>
      /\ Packet' = Packet
  BY <1>1 DEF source, Packet
<1>5. /\ data' \in [Packet -> Nat] /\ data'[a] = data[a] - 1
      /\ \A p \in Packet : p # a => data'[p] = data[p]
  BY <1>1, <1>2 DEF FlowTypeOK
<1>6. PICK f \in Int : RemembersFrom(f)
  BY DEF IInv, AcksInOrder
<1>7. PICK c \in Nat :
        /\ cum' = c
        /\ a = cum + 1 =>
            /\ c >= a
            /\ (a + 1) .. c \subseteq ooo
            /\ c + 1 \notin ooo
            /\ ooo' = {q \in ooo : q > c}
            /\ SendCumAck(c)
        /\ a # cum + 1 =>
            /\ c = cum
            /\ ooo' = ooo \cup {a}
            /\ SendOneAck(a)
        /\ c <= N
  <2>1. CASE a = cum + 1
    BY <1>2, <1>3, <2>1 DEF RecvData
  <2>2. CASE a # cum + 1
    <3>1. SendOneAck(a) /\ ooo' = ooo \cup {a} /\ cum' = cum
      BY <1>2, <1>3, <2>2 DEF RecvData
    <3> QED BY <1>2, <2>2, <3>1
  <2> QED BY <2>1, <2>2
<1>8. /\ c \in Int /\ cum \in Int /\ highest \in Int /\ a \in Int
      /\ cum <= c /\ c <= highest
      /\ ooo' \subseteq Packet
      /\ \A p \in Packet : p \in Received' <=> p \in Received \/ p = a
      /\ \A p \in ooo' : p > c + 1 /\ p <= highest
  <2>1. CASE a = cum + 1
    <3>1. /\ c \in Nat /\ c >= a /\ c > cum /\ c <= N /\ c + 1 \notin ooo
          /\ cum' = c /\ ooo' = {q \in ooo : q > c} /\ (a + 1) .. c \subseteq ooo
      BY <1>2, <1>3, <1>7, <2>1
    <3>2. c <= highest
      <4>1. CASE c = a
        BY <1>3, <3>1, <4>1
      <4>2. CASE c # a
        <5>1. c \in ooo
          BY <1>3, <3>1, <4>2
        <5> QED BY <1>2, <5>1 DEF SinkConsistent
      <4> QED BY <4>1, <4>2
    <3>3. ooo \subseteq Packet /\ ooo' \subseteq ooo
      BY <1>2, <3>1 DEF FlowTypeOK
    <3>4. ASSUME NEW p \in Packet
          PROVE  p \in Received' <=> p \in Received \/ p = a
      <4>1. p \in Int
        BY DEF Packet
      <4>2. p \in Received' <=> p <= c \/ (p \in ooo /\ p > c)
        BY <1>4, <3>1 DEF Received
      <4>3. p > a /\ p <= c => p \in ooo
        BY <1>3, <3>1, <4>1
      <4> QED BY <1>2, <2>1, <3>1, <4>1, <4>2, <4>3 DEF Received
    <3>5. ASSUME NEW p \in ooo' PROVE p > c + 1 /\ p <= highest
      <4>1. p \in ooo /\ p > c /\ p # c + 1
        BY <3>1
      <4>2. p \in Int
        BY <3>3, <4>1 DEF Packet
      <4> QED BY <1>2, <3>1, <4>1, <4>2 DEF SinkConsistent
    <3>6. c \in Int /\ cum \in Int /\ highest \in Int /\ a \in Int /\ cum <= c
      BY <1>2, <1>3, <3>1
    <3>7. ooo' \subseteq Packet
      BY <3>3
    <3> QED BY Zenon, <3>2, <3>4, <3>5, <3>6, <3>7
  <2>2. CASE a # cum + 1
    <3>1. ooo' = ooo \cup {a} /\ c = cum /\ cum' = cum /\ a > c + 1
      BY <1>2, <1>3, <1>7, <2>2
    <3>2. ooo' \subseteq Packet
      BY <1>2, <3>1 DEF FlowTypeOK
    <3>3. \A p \in Packet : p \in Received' <=> p \in Received \/ p = a
      BY <1>4, <3>1 DEF Received
    <3>4. \A p \in ooo' : p > c + 1 /\ p <= highest
      BY <1>2, <1>3, <3>1 DEF SinkConsistent
    <3>5. c \in Int /\ cum <= c /\ c <= highest
      BY <1>2, <3>1 DEF SinkConsistent
    <3> QED BY <1>2, <1>3, <3>2, <3>3, <3>4, <3>5
  <2> QED BY <2>1, <2>2
<1>9. /\ cumAcks' \in [Packet -> Nat] /\ oneAcks' \in [Packet -> Nat]
      /\ \A p \in Packet : AckedAlone(p)' => AckedAlone(p) \/ (p = a /\ a > c + 1)
      /\ \A k \in Packet :
            cumAcks'[k] > 0 =>
                \/ cumAcks[k] > 0
                \/ k = c /\ \A p \in Packet : p = c + 1 => ~AckedAlone(p)
  <2>1. CASE a = cum + 1
    <3>1. c \in Packet /\ SendCumAck(c) /\ c + 1 \notin ooo
      BY <1>2, <1>3, <1>7, <2>1 DEF Packet
    <3>2. /\ cumAcks' = [cumAcks EXCEPT ![c] = @ + 1]
          /\ oneAcks' = oneAcks
      BY <3>1 DEF SendCumAck
    <3>3. cumAcks' \in [Packet -> Nat] /\ oneAcks' \in [Packet -> Nat]
      BY <1>2, <3>1, <3>2 DEF FlowTypeOK
    <3>4. \A p \in Packet : AckedAlone(p)' => AckedAlone(p)
      BY <1>4, <3>2 DEF AckedAlone
    <3>5. ASSUME NEW p \in Packet, p = c + 1 PROVE ~AckedAlone(p)
      <4>1. p \notin Received
        BY <1>8, <3>1, <3>5 DEF Received
      <4> QED BY <4>1 DEF IInv, AcksInOrder
    <3>6. \A k \in Packet : cumAcks'[k] > 0 => cumAcks[k] > 0 \/ k = c
      BY <1>2, <3>2 DEF FlowTypeOK
    <3> QED BY Zenon, <3>3, <3>4, <3>5, <3>6
  <2>2. CASE a # cum + 1
    <3>1. SendOneAck(a) /\ a > c + 1
      BY <1>2, <1>3, <1>7, <2>2
    <3>2. /\ oneAcks' = [oneAcks EXCEPT ![a] = @ + 1]
          /\ cumAcks' = cumAcks
      BY <3>1 DEF SendOneAck
    <3>3. cumAcks' \in [Packet -> Nat] /\ oneAcks' \in [Packet -> Nat]
      BY <1>2, <3>2 DEF FlowTypeOK
    <3>4. \A p \in Packet : AckedAlone(p)' => AckedAlone(p) \/ p = a
      BY <1>2, <1>4, <3>2 DEF AckedAlone, FlowTypeOK
    <3> QED BY Zenon, <3>1, <3>2, <3>3, <3>4
  <2> QED BY <2>1, <2>2
<1>10. cum' = c /\ c <= N
  BY <1>7
<1>11. FlowTypeOK'
  <2>1. cum' \in 0 .. N /\ sinkDone' \in BOOLEAN
    BY <1>1, <1>2, <1>8, <1>10
  <2> QED BY <1>2, <1>4, <1>5, <1>8, <1>9, <2>1 DEF FlowTypeOK
<1>12. OneCopy'
  <2> SUFFICES ASSUME NEW p \in Packet
               PROVE  data'[p] + hdrs'[p] + nacks'[p] + Bit(p \in nacked')
                            + Bit(p \in Received') = Bit(p <= highest')
    BY DEF OneCopy, Packet
  <2>1. data'[p] + Bit(p \in Received') = data[p] + Bit(p \in Received)
    <3>1. CASE p = a
      BY <1>2, <1>3, <1>5, <1>8, <3>1 DEF Bit, FlowTypeOK
    <3>2. CASE p # a
      BY <1>5, <1>8, <3>2 DEF Bit
    <3> QED BY <3>1, <3>2
  <2> DEFINE d0 == data[p]    d1 == data'[p]
             e == hdrs[p]     k == nacks[p]
             n == Bit(p \in nacked)
             r0 == Bit(p \in Received)   r1 == Bit(p \in Received')
             h == Bit(p <= highest)
  <2>2. d0 + e + k + n + r0 = h /\ d1 + r1 = d0 + r0
    BY Zenon, <2>1 DEF IInv, OneCopy
  <2>3. /\ d0 \in Int /\ d1 \in Int /\ e \in Int /\ k \in Int
        /\ n \in Int /\ r0 \in Int /\ r1 \in Int /\ h \in Int
    BY <1>2, <1>5 DEF FlowTypeOK, Bit
  <2> SUFFICES d1 + e + k + n + r1 = h
    BY <1>4
  <2> HIDE DEF d0, d1, e, k, n, r0, r1, h
  <2> QED BY <2>2, <2>3
<1>13. SinkConsistent'
  <2>1. sinkDone' <=> cum' = N
    <3>1. sinkDone <=> cum = N
      BY <1>2 DEF SinkConsistent
    <3>2. c >= N <=> c = N
      BY <1>2, <1>8, <1>10
    <3>3. cum = N => c = N
      BY <1>2, <1>8, <1>10
    <3> QED BY Zenon, <1>1, <1>10, <3>1, <3>2, <3>3
  <2>2. \A p \in ooo' : p > cum' + 1 /\ p <= highest
    BY Zenon, <1>8, <1>10
  <2> QED BY Zenon, <1>4, <1>8, <1>10, <2>1, <2>2 DEF SinkConsistent
<1>14. AcksInOrder'
  <2>1. /\ f \in Int /\ f >= 1 /\ f <= cum + 1 /\ sent = f .. highest
        /\ \A p \in Packet : p = f => ~AckedAlone(p)
    BY <1>2, <1>6 DEF RemembersFrom
  <2>2. ASSUME NEW p \in Packet, AckedAlone(p)'
        PROVE  (AckedAlone(p) \/ p = a) /\ (p <= c + 1 => AckedAlone(p))
    <3>1. AckedAlone(p) \/ (p = a /\ a > c + 1)
      BY Zenon, <1>9, <2>2
    <3>2. a > c + 1 => ~(a <= c + 1)
      BY <1>3, <1>8
    <3> QED BY Zenon, <3>1, <3>2
  <2>3. RemembersFrom(f)'
    <3>1. f \in 1 .. (c + 1) /\ f <= c + 1
      BY <1>8, <2>1
    <3>2. ASSUME NEW p \in Packet, p = f PROVE ~AckedAlone(p)'
      BY Zenon, <2>1, <2>2, <3>1, <3>2
    <3>3. f \in 1 .. (cum' + 1) /\ sent' = f .. highest'
      BY Zenon, <1>4, <1>10, <2>1, <3>1
    <3> QED BY Zenon, <1>4, <3>2, <3>3 DEF RemembersFrom
  <2>4. ASSUME NEW p \in Packet, AckedAlone(p)' PROVE p \in Received'
    BY Zenon, <1>8, <2>2, <2>4 DEF IInv, AcksInOrder
  <2>5. ASSUME NEW k \in Packet, cumAcks'[k] > 0
        PROVE  /\ k <= cum'
               /\ \A p \in Packet : p = k + 1 => ~AckedAlone(p)'
    <3>1. k \in Int
      BY DEF Packet
    <3>2. k <= c /\ \A p \in Packet : p = k + 1 => ~AckedAlone(p)
      <4>1. CASE cumAcks[k] > 0
        <5>1. k <= cum /\ \A p \in Packet : p = k + 1 => ~AckedAlone(p)
          BY <4>1 DEF IInv, AcksInOrder
        <5> QED BY <1>8, <3>1, <5>1
      <4>2. CASE k = c /\ \A p \in Packet : p = c + 1 => ~AckedAlone(p)
        BY <1>8, <4>2
      <4> QED BY <1>9, <2>5, <4>1, <4>2
    <3>3. ASSUME NEW p \in Packet, p = k + 1 PROVE ~AckedAlone(p)'
      <4>1. p <= c + 1
        BY <1>8, <3>1, <3>2, <3>3
      <4> QED BY Zenon, <2>2, <3>2, <3>3, <4>1
    <3> QED BY Zenon, <1>10, <3>2, <3>3
  <2> QED BY <1>4, <2>3, <2>4, <2>5 DEF AcksInOrder
<1>15. FinishedIffEmpty'
  BY <1>4 DEF IInv, FinishedIffEmpty
<1> QED BY <1>11, <1>12, <1>13, <1>14, <1>15 DEF IInv

-----------------------------------------------------------------------------
\* The theorems.

LEMMA NextKeeps == IInv /\ [FlowNext]_flowVars => IInv'
<1> SUFFICES ASSUME IInv, [FlowNext]_flowVars PROVE IInv'
  OBVIOUS
<1>1. CASE Start
  BY <1>1, StartKeeps
<1>2. CASE \E k \in Packet : RecvCumAck(k)
  BY <1>2, RecvCumAckKeeps
<1>3. CASE \E p \in Packet : RecvOneAck(p)
  BY <1>3, RecvOneAckKeeps
<1>4. CASE \E p \in Packet : RecvNack(p)
  BY <1>4, RecvNackKeeps
<1>5. CASE \E p \in Packet : RecvData(p)
  BY <1>5, RecvDataKeeps
<1>6. CASE \E p \in Packet : RecvHeader(p)
  BY <1>6, RecvHeaderKeeps
<1>7. CASE \E p \in Packet : Trim(p)
  BY <1>7, TrimKeeps
<1>8. CASE UNCHANGED flowVars
  BY <1>8
  DEF flowVars, source, sink, network, IInv, FlowTypeOK, OneCopy, SinkConsistent,
      AcksInOrder, RemembersFrom, AckedAlone, FinishedIffEmpty, Received, Packet, Bit
<1> QED BY <1>1, <1>2, <1>3, <1>4, <1>5, <1>6, <1>7, <1>8 DEF FlowNext

(* The invariant holds of every flow over every trimming fabric.           *)
THEOREM FlowInvariant == FlowSpec => []IInv
<1>1. FlowInit => IInv
  BY InitInv
<1>2. IInv /\ [FlowNext]_flowVars => IInv'
  BY NextKeeps
<1> QED BY <1>1, <1>2, PTL DEF FlowSpec

(* A reply finds its packet where the asserts expect it: the packet of a   *)
(* NACK is remembered and not acknowledged.                                *)
LEMMA RepliesFollow == IInv => RepliesMeetTheirPacket
<1> SUFFICES ASSUME IInv PROVE RepliesMeetTheirPacket
  OBVIOUS
<1>1. PICK f \in Int : RemembersFrom(f)
  BY DEF IInv, AcksInOrder
<1>2. /\ sent = f .. highest /\ cum \in Nat /\ highest \in Nat /\ f <= cum + 1
      /\ cum <= highest
      /\ \A p \in Packet : p = f => ~AckedAlone(p)
  BY <1>1 DEF IInv, FlowTypeOK, SinkConsistent, RemembersFrom
<1>3. ASSUME NEW p \in Packet, nacks[p] > 0 PROVE p \in sent \ acked
  <2>1. p \in sent /\ p \notin Received
    BY <1>3, CopyFacts
  <2>2. ~AckedAlone(p)
    BY <2>1 DEF IInv, AcksInOrder
  <2> QED BY <2>1, <2>2 DEF AckedAlone
<1>4. ASSUME NEW p \in Packet, oneAcks[p] > 0
      PROVE  /\ ~IsFront(p)
             /\ p \in sent \/ \A q \in sent : q > p
  <2>1. AckedAlone(p) /\ p \in Received
    BY <1>4 DEF AckedAlone, IInv, AcksInOrder
  <2>2. p \in Int /\ p <= highest /\ p # f
    BY <1>2, <2>1, CopyFacts DEF Packet
  <2>3. IsFront(p) => p = f
    BY <1>2, <2>2 DEF IsFront
  <2>4. p \in sent \/ \A q \in sent : q > p
    BY <1>2, <2>2
  <2> QED BY <2>2, <2>3, <2>4
<1> QED BY <1>3, <1>4 DEF RepliesMeetTheirPacket

(* When the source remembers nothing of a flow sent to the end, the sink   *)
(* has all of it and the network is empty.                                 *)
LEMMA FinishFollows == IInv => FinishExact
<1> SUFFICES ASSUME IInv PROVE FinishExact
  OBVIOUS
<1>1. finished <=> (highest = N /\ sent = {})
  BY DEF IInv, FinishedIffEmpty
<1>2. ASSUME finished
      PROVE  /\ cum = N
             /\ sinkDone
             /\ \A p \in Packet : data[p] = 0 /\ hdrs[p] = 0 /\ nacks[p] = 0
  <2>1. PICK f \in Int : RemembersFrom(f)
    BY DEF IInv, AcksInOrder
  <2>2. highest = N /\ N \in Nat /\ cum \in Nat /\ cum <= highest
    BY <1>1, <1>2, FlowAssumption DEF IInv, FlowTypeOK, SinkConsistent
  <2>3. cum = N
    <3>1. f .. highest = {} /\ f <= cum + 1
      BY <1>1, <1>2, <2>1, <2>2 DEF RemembersFrom
    <3> QED BY <2>2, <3>1
  <2>4. sinkDone
    BY <2>3 DEF IInv, SinkConsistent
  <2>5. \A p \in Packet : p \in Received
    BY <2>2, <2>3 DEF Received, Packet
  <2> QED BY <2>3, <2>4, <2>5, CopyFacts
<1> QED BY <1>1, <1>2 DEF FinishExact

(* No packet of a flow is lost, doubled, or sent again once the sink has   *)
(* it.                                                                     *)
THEOREM FlowKeepsOneCopy == FlowSpec => []OneCopy
<1>1. IInv => OneCopy
  BY DEF IInv
<1> QED BY <1>1, FlowInvariant, PTL

(* The asserts of processNack and mark_received hold.                      *)
THEOREM FlowRepliesMeet == FlowSpec => []RepliesMeetTheirPacket
BY RepliesFollow, FlowInvariant, PTL

(* A flow is over exactly when everything has arrived and been             *)
(* acknowledged.                                                           *)
THEOREM FlowFinishExact == FlowSpec => []FinishExact
BY FinishFollows, FlowInvariant, PTL

-----------------------------------------------------------------------------
\* The window.

(* A set of numbers up to h has a greatest one.                            *)
LEMMA Greatest ==
    ASSUME NEW h \in Nat, NEW S \in SUBSET (1 .. h), S # {}
    PROVE  \E m \in S : \A p \in S : p <= m
<1> DEFINE below == {h - p : p \in S}
<1>1. below \subseteq Nat /\ below # {}
  <2>1. \A p \in S : p \in 1 .. h
    OBVIOUS
  <2>2. \A p \in S : h - p \in Nat
    BY <2>1
  <2>3. PICK p \in S : TRUE
    OBVIOUS
  <2>4. h - p \in below
    OBVIOUS
  <2> QED BY <2>2, <2>4
<1>2. PICK x \in below : \A y \in below : ~(<<y, x>> \in OpToRel(<, Nat))
  <2> HIDE DEF below
  <2> QED BY <1>1, NatLessThanWellFounded, WFMin
<1>3. \A y \in below : ~(y < x)
  <2> SUFFICES ASSUME NEW y \in below, y < x PROVE FALSE
    OBVIOUS
  <2>1. y \in Nat /\ x \in Nat
    BY <1>1
  <2>2. <<y, x>> \in OpToRel(<, Nat)
    BY <2>1 DEF OpToRel
  <2> QED BY <1>2, <2>2
<1>4. PICK m \in S : x = h - m
  OBVIOUS
<1>5. ASSUME NEW p \in S PROVE p <= m
  <2>1. h - p \in below /\ p \in Nat /\ m \in Nat
    OBVIOUS
  <2>2. ~(h - p < h - m)
    BY <1>3, <1>4, <2>1
  <2> QED BY <2>1, <2>2
<1> QED BY <1>5

(* Of the packets sent again, only the last may overshoot the window.      *)
LEMMA AgainFits ==
    ASSUME NEW h \in Nat, NEW n \in SUBSET (1 .. h), NEW u \in Nat, NEW c \in Nat,
           Again(u, n, c) # {}
    PROVE  2 * (u + Cardinality(Again(u, n, c))) <= c + 1
<1> DEFINE again == Again(u, n, c)
<1>1. again \in SUBSET (1 .. h) /\ again \subseteq n /\ again # {}
  BY DEF Again
<1>2. PICK m \in again : \A p \in again : p <= m
  <2> HIDE DEF again
  <2> QED BY <1>1, Greatest
<1> DEFINE before == {q \in n : q < m}
<1>3. 2 * (u + Cardinality(before)) < c
  BY <1>2 DEF Again
<1>4. IsFiniteSet(1 .. h)
  BY FS_Interval
<1>5. IsFiniteSet(before)
  <2>1. before \subseteq 1 .. h
    OBVIOUS
  <2> HIDE DEF before
  <2> QED BY <1>4, <2>1, FS_Subset
<1>6. again \subseteq before \cup {m}
  <2> SUFFICES ASSUME NEW p \in again, p # m PROVE p \in before
    OBVIOUS
  <2>1. p \in Int /\ m \in Int /\ p <= m /\ p \in n
    BY <1>1, <1>2
  <2> QED BY <2>1
<1> HIDE DEF before, again
<1>7. /\ IsFiniteSet(before \cup {m})
      /\ Cardinality(before \cup {m}) <= Cardinality(before) + 1
      /\ Cardinality(before) \in Nat
      /\ Cardinality(before \cup {m}) \in Nat
  <2>1. IsFiniteSet(before \cup {m}) /\ Cardinality(before) \in Nat
    BY <1>5, FS_AddElement, FS_CardinalityType
  <2>2. /\ Cardinality(before \cup {m})
            = IF m \in before THEN Cardinality(before) ELSE Cardinality(before) + 1
        /\ Cardinality(before \cup {m}) \in Nat
    BY <1>5, <2>1, FS_AddElement, FS_CardinalityType
  <2> QED BY <2>1, <2>2
<1>8. /\ Cardinality(again) <= Cardinality(before \cup {m})
      /\ Cardinality(again) \in Nat
  BY <1>6, <1>7, FS_Subset, FS_CardinalityType
<1>9. \A x, y, z \in Nat : 2 * (u + y) < c /\ z <= y + 1 /\ x <= z => 2 * (u + x) <= c + 1
  OBVIOUS
<1>10. 2 * (u + Cardinality(again)) <= c + 1
  BY <1>3, <1>7, <1>8, <1>9
<1> QED BY <1>10 DEF again

(* New packets never overshoot it.                                         *)
LEMMA RoomFits ==
    ASSUME NEW u \in Nat, NEW c \in Windows, highest \in 0 .. N, Room(u, c) > 0
    PROVE  2 * (u + Room(u, c)) <= c
<1>1. c \in Nat /\ N \in Nat /\ highest \in Nat /\ highest <= N
  BY FlowAssumption
<1>2. c \div 2 \in Nat /\ 2 * (c \div 2) <= c
  BY <1>1
<1>3. PICK d \in Nat : d = c \div 2
  BY <1>2
<1>4. Room(u, c) = IF d - u <= 0 THEN 0
                   ELSE IF d - u > N - highest THEN N - highest ELSE d - u
  BY <1>3 DEF Room
<1> QED BY <1>1, <1>2, <1>3, <1>4

(* A set within the union of two has at most as many members as both.      *)
LEMMA FiniteUnion ==
    ASSUME NEW S, NEW T, NEW R, IsFiniteSet(S), IsFiniteSet(T), R \subseteq S \cup T
    PROVE  /\ Cardinality(R) \in Nat /\ Cardinality(S) \in Nat /\ Cardinality(T) \in Nat
           /\ Cardinality(R) <= Cardinality(S) + Cardinality(T)
<1>1. /\ IsFiniteSet(S \cup T)
      /\ Cardinality(S \cup T) = Cardinality(S) + Cardinality(T) - Cardinality(S \cap T)
  BY FS_Union
<1>2. IsFiniteSet(R) /\ Cardinality(R) <= Cardinality(S \cup T) /\ IsFiniteSet(S \cap T)
  BY <1>1, FS_Subset
<1>3. /\ Cardinality(R) \in Nat /\ Cardinality(S) \in Nat /\ Cardinality(T) \in Nat
      /\ Cardinality(S \cap T) \in Nat /\ Cardinality(S \cup T) \in Nat
  BY <1>1, <1>2, FS_CardinalityType
<1> QED BY <1>1, <1>2, <1>3

(* A run of send_packets either adds nothing to what is unacknowledged or  *)
(* stays within the window.                                                *)
LEMMA SendFits ==
    ASSUME highest \in 0 .. N,
           NEW s \in SUBSET (1 .. highest), NEW a, NEW n \in SUBSET s,
           NEW c \in Windows, SendPackets(s, a, n, c)
    PROVE  \/ Unacked(sent', acked', nacked') <= Unacked(s, a, n)
           \/ 2 * Unacked(sent', acked', nacked') <= c + 1
<1> DEFINE again == IF rtx THEN Again(Unacked(s, a, n), n, c) ELSE {}
           room == Room(Unacked(s, a, n \ again), c)
           new == (highest + 1) .. (highest + room)
           u0 == Unacked(s, a, n)
           u1 == Unacked(s, a, n \ again)
           u2 == Unacked(sent', acked', nacked')
<1>1. sent' = s \cup new /\ acked' = a /\ nacked' = n \ again
  BY Zenon DEF SendPackets
<1>2. highest \in Nat /\ N \in Nat /\ highest <= N /\ c \in Nat
  BY FlowAssumption
<1>3. IsFiniteSet(1 .. highest) /\ again \subseteq n /\ again \in SUBSET (1 .. highest)
  <2>1. again \subseteq n
    BY DEF Again
  <2> HIDE DEF again
  <2> QED BY <1>2, <2>1, FS_Interval
<1>4. IsFiniteSet(s \ (a \cup n)) /\ IsFiniteSet(again)
        /\ IsFiniteSet(s \ (a \cup (n \ again)))
  <2> HIDE DEF again
  <2> QED BY <1>3, FS_Subset
<1>5. u0 \in Nat /\ u1 \in Nat /\ Cardinality(again) \in Nat
        /\ u1 <= u0 + Cardinality(again)
  <2>1. s \ (a \cup (n \ again)) \subseteq (s \ (a \cup n)) \cup again
    OBVIOUS
  <2> HIDE DEF again
  <2> QED BY <1>4, <2>1, FiniteUnion DEF Unacked
<1>6. again = {} => u1 = u0
  <2>1. again = {} => n \ again = n
    OBVIOUS
  <2> QED BY <2>1
<1>7. again # {} => 2 * (u0 + Cardinality(again)) <= c + 1
  <2> SUFFICES ASSUME again # {} PROVE 2 * (u0 + Cardinality(again)) <= c + 1
    OBVIOUS
  <2>1. again = Again(u0, n, c)
    OBVIOUS
  <2>2. n \in SUBSET (1 .. highest)
    OBVIOUS
  <2> HIDE DEF again, u0
  <2> QED BY <1>2, <1>5, <2>1, <2>2, AgainFits
<1>8. room \in 0 .. (N - highest) /\ (room > 0 => 2 * (u1 + room) <= c)
  <2>1. room = Room(u1, c)
    OBVIOUS
  <2> HIDE DEF room, u1
  <2> QED BY <1>2, <1>5, <2>1, RoomBounds, RoomFits
<1>9. u2 \in Nat /\ u2 <= u1 + room
  <2>1. room \in Nat
    BY <1>2, <1>8
  <2> HIDE DEF room
  <2>2. IsFiniteSet(new) /\ Cardinality(new) = room
    <3>1. PICK x \in Int, y \in Int : x = highest + 1 /\ y = highest + room
      BY <1>2, <2>1
    <3>2. IsFiniteSet(x .. y) /\ Cardinality(x .. y) = IF x > y THEN 0 ELSE y - x + 1
      BY FS_Interval
    <3>3. Cardinality(x .. y) = room
      BY <1>2, <2>1, <3>1, <3>2
    <3> QED BY <3>1, <3>2, <3>3
  <2>3. sent' \ (acked' \cup nacked') \subseteq (s \ (a \cup (n \ again))) \cup new
    BY <1>1
  <2> HIDE DEF again, new
  <2> QED BY <1>4, <2>2, <2>3, FiniteUnion DEF Unacked
<1> SUFFICES u2 <= u0 \/ 2 * u2 <= c + 1
  OBVIOUS
<1>10. PICK k \in Nat : k = Cardinality(again)
  BY <1>5
<1>11. again = {} => k = 0
  BY <1>10, FS_EmptySet
<1>12. room \in Nat
  BY <1>2, <1>8
<1> HIDE DEF again, room, u0, u1, u2
<1>13. CASE room > 0
  BY <1>2, <1>5, <1>8, <1>9, <1>12, <1>13
<1>14. CASE room = 0 /\ again = {}
  BY <1>5, <1>6, <1>9, <1>14
<1>15. CASE room = 0 /\ again # {}
  BY <1>2, <1>5, <1>7, <1>9, <1>10, <1>15
<1> QED BY <1>12, <1>13, <1>14, <1>15

(* What is remembered is finite, and what is unacknowledged a number.      *)
LEMMA SentIsFinite ==
    ASSUME FlowTypeOK
    PROVE  /\ highest \in Nat /\ sent \in SUBSET (1 .. highest)
           /\ IsFiniteSet(sent)
           /\ Unacked(sent, acked, nacked) \in Nat
<1>1. highest \in Nat /\ sent \in SUBSET (1 .. highest)
  BY FlowAssumption DEF FlowTypeOK
<1>2. IsFiniteSet(1 .. highest)
  BY <1>1, FS_Interval
<1>3. IsFiniteSet(sent)
  BY <1>1, <1>2, FS_Subset
<1> QED BY <1>1, <1>3, UnackedIsNat

(* What WithinWindow says of one step.                                     *)
StepWithinWindow ==
    Unacked(sent', acked', nacked') > Unacked(sent, acked, nacked) =>
        2 * Unacked(sent', acked', nacked') <= cwnd' + 1

(* The same for a step that first forgets and flags acknowledged packets.  *)
LEMMA ForgetFits ==
    ASSUME FlowTypeOK,
           NEW left \in SUBSET sent, NEW marked, NEW trimmed \in SUBSET left,
           left \cap (acked \cup nacked) \subseteq marked \cup trimmed,
           NEW c \in Windows, SendPackets(left, marked, trimmed, c), cwnd' = c
    PROVE  StepWithinWindow
<1>1. /\ highest \in 0 .. N /\ highest \in Nat /\ left \in SUBSET (1 .. highest)
      /\ sent \in SUBSET (1 .. highest) /\ N \in Nat /\ c \in Nat
  BY FlowAssumption DEF FlowTypeOK
<1> DEFINE u == Unacked(sent, acked, nacked)
           v == Unacked(left, marked, trimmed)
           w == Unacked(sent', acked', nacked')
<1>2. w <= v \/ 2 * w <= c + 1
  BY <1>1, SendFits
<1>3. v \in Nat /\ u \in Nat
  BY <1>1, UnackedIsNat
<1>4. v <= u
  <2>1. left \ (marked \cup trimmed) \subseteq sent \ (acked \cup nacked)
    OBVIOUS
  <2>2. IsFiniteSet(sent \ (acked \cup nacked))
    BY SentIsFinite, FS_Subset
  <2> QED BY <2>1, <2>2, FS_Subset DEF Unacked
<1>5. w \in Nat
  <2>1. /\ highest' \in highest .. N
        /\ sent' = left \cup ((highest + 1) .. highest')
    BY <1>1, SendEffect
  <2>2. PICK h \in Nat : h = highest'
    BY <1>1, <2>1
  <2>3. sent' \in SUBSET (1 .. h)
    BY <1>1, <2>1, <2>2
  <2> QED BY <2>3, UnackedIsNat
<1> HIDE DEF u, v, w
<1>6. w > u => 2 * w <= c + 1
  BY <1>2, <1>3, <1>4, <1>5
<1> QED BY <1>6 DEF StepWithinWindow, u, w

(* An acknowledgement stays within the window.                             *)
LEMMA ProcessFits ==
    ASSUME FlowTypeOK, NEW last, NEW left \in SUBSET sent, NEW flagged,
           acked \subseteq flagged, ProcessAck(last, left, flagged)
    PROVE  StepWithinWindow
<1> DEFINE marked == flagged \cap left
           trimmed == (nacked \cap left) \ marked
<1>1. CASE Finishes(last, left)
  <2>1. sent' = {}
    BY <1>1 DEF ProcessAck, Finishes
  <2>2. Unacked(sent', acked', nacked') = 0
    BY <2>1, UnackedIsNat
  <2>3. Unacked(sent, acked, nacked) \in Nat
    BY SentIsFinite
  <2> QED BY <2>2, <2>3 DEF StepWithinWindow
<1>2. CASE ~Finishes(last, left)
  <2>1. PICK c \in Windows : cwnd' = c /\ SendPackets(left, marked, trimmed, c)
    BY Zenon, <1>2 DEF ProcessAck
  <2>2. /\ trimmed \in SUBSET left
        /\ left \cap (acked \cup nacked) \subseteq marked \cup trimmed
    OBVIOUS
  <2> HIDE DEF marked, trimmed
  <2> QED BY <2>1, <2>2, ForgetFits
<1> QED BY <1>1, <1>2

(* resend_packet tests the window before it counts the packet, part of     *)
(* which may then lie beyond it.                                           *)
LEMMA NackFits ==
    ASSUME FlowTypeOK, NEW a \in Packet, RecvNack(a) PROVE StepWithinWindow
<1>1. PICK c \in Windows :
        /\ cwnd' = c
        /\ IF 2 * Unacked(sent, acked, nacked \cup {a}) < c
           THEN nacked' = nacked \ {a}
           ELSE nacked' = nacked \cup {a}
  BY DEF RecvNack
<1>2. sent' = sent /\ acked' = acked
  BY DEF RecvNack
<1>3. /\ highest \in Nat /\ sent \in SUBSET (1 .. highest) /\ c \in Nat
      /\ IsFiniteSet(sent)
  BY FlowAssumption, SentIsFinite
<1> DEFINE u == Unacked(sent, acked, nacked)
           v == Unacked(sent, acked, nacked \cup {a})
           w == Unacked(sent', acked', nacked')
<1>4. u \in Nat /\ v \in Nat /\ w \in Nat
  BY <1>2, <1>3, UnackedIsNat
<1>5. CASE 2 * v < c /\ nacked' = nacked \ {a}
  <2> DEFINE S == sent \ (acked \cup (nacked \cup {a}))
             R == sent' \ (acked' \cup nacked')
  <2>1. R \subseteq S \cup {a}
    BY <1>2, <1>5
  <2>2. IsFiniteSet(S) /\ IsFiniteSet({a}) /\ Cardinality({a}) = 1
    BY <1>3, FS_Subset, FS_Singleton
  <2>3. v = Cardinality(S) /\ w = Cardinality(R)
    BY DEF Unacked
  <2> HIDE DEF S, R
  <2>4. w <= v + 1
    BY <2>1, <2>2, <2>3, FiniteUnion
  <2> HIDE DEF v, w
  <2>5. 2 * w <= c + 1
    BY <1>3, <1>4, <1>5, <2>4
  <2> QED BY <1>1, <2>5 DEF StepWithinWindow, w
<1>6. CASE nacked' = nacked \cup {a}
  <2>1. sent' \ (acked' \cup nacked') \subseteq sent \ (acked \cup nacked)
    BY <1>2, <1>6
  <2>2. IsFiniteSet(sent \ (acked \cup nacked))
    BY <1>3, FS_Subset
  <2>3. w <= u
    BY <2>1, <2>2, FS_Subset DEF Unacked
  <2> HIDE DEF u, w
  <2>4. ~(w > u)
    BY <1>4, <2>3
  <2> QED BY <2>4 DEF StepWithinWindow, u, w
<1> QED BY Zenon, <1>1, <1>5, <1>6

LEMMA FlowStepFits == FlowTypeOK /\ [FlowNext]_flowVars => StepWithinWindow
<1> SUFFICES ASSUME FlowTypeOK, [FlowNext]_flowVars PROVE StepWithinWindow
  OBVIOUS
<1>1. CASE Start
  <2>1. /\ SendPackets(sent, acked, nacked, cwnd) /\ cwnd' = cwnd
        /\ cwnd \in Windows /\ nacked \in SUBSET sent
    BY <1>1 DEF Start, FlowTypeOK
  <2> QED BY <2>1, ForgetFits
<1>2. ASSUME NEW k \in Packet, RecvCumAck(k) PROVE StepWithinWindow
  <2>1. Remaining(1 .. k) \in SUBSET sent
    BY DEF Remaining
  <2>2. ProcessAck(k, Remaining(1 .. k), acked)
    BY <1>2 DEF RecvCumAck
  <2> QED BY <2>1, <2>2, ProcessFits
<1>3. ASSUME NEW p \in Packet, RecvOneAck(p) PROVE StepWithinWindow
  <2>1. PICK left \in SUBSET sent, flagged \in {acked, acked \cup {p}} :
            ProcessAck(p, left, flagged)
    <3>1. Remaining({p}) \in SUBSET sent /\ sent \in SUBSET sent
      BY DEF Remaining
    <3> QED BY Zenon, <1>3, <3>1 DEF RecvOneAck
  <2>2. acked \subseteq flagged
    OBVIOUS
  <2> QED BY <2>1, <2>2, ProcessFits
<1>4. ASSUME NEW p \in Packet, RecvNack(p) PROVE StepWithinWindow
  BY <1>4, NackFits
<1>5. CASE UNCHANGED source
  <2>1. Unacked(sent', acked', nacked') = Unacked(sent, acked, nacked)
    BY <1>5 DEF source
  <2>2. Unacked(sent, acked, nacked) \in Nat
    BY SentIsFinite
  <2> QED BY <2>1, <2>2 DEF StepWithinWindow
<1>6. ASSUME NEW p \in Packet, RecvData(p) \/ RecvHeader(p) \/ Trim(p)
      PROVE  UNCHANGED source
  BY <1>6 DEF RecvData, RecvHeader, Trim
<1>7. UNCHANGED flowVars => UNCHANGED source
  BY DEF flowVars
<1> QED BY Zenon, <1>1, <1>2, <1>3, <1>4, <1>5, <1>6, <1>7 DEF FlowNext

(* No step of the source that raises what is unacknowledged leaves it      *)
(* above the window by more than the half packet that a retransmission may *)
(* overshoot.                                                              *)
THEOREM FlowWithinWindow == FlowSpec => WithinWindow
<1>1. IInv /\ [FlowNext]_flowVars => [StepWithinWindow]_flowVars
  BY FlowStepFits DEF IInv
<1>2. FlowSpec => [][StepWithinWindow]_flowVars
  BY <1>1, FlowInvariant, PTL DEF FlowSpec
<1> QED BY <1>2 DEF WithinWindow, StepWithinWindow

-----------------------------------------------------------------------------
\* The flow through the queue.

LEMMA Remainder ==
    ASSUME NEW i \in Nat, NEW m \in Nat, m > 0 PROVE i % m \in 0 .. (m - 1)
OBVIOUS

(* beginService chooses a queue that has something to send.                *)
LEMMA ServeFacts ==
    ASSUME QueueTypeOK, NEW l \in Seq(Packet), NEW h \in Seq(Packet), Serve(l, h)
    PROVE  /\ serv' \in {"none", "low", "high"}
           /\ crt' \in 0 .. RatioHigh + RatioLow - 1
           /\ serv' = "low" => l # <<>>
           /\ serv' = "high" => h # <<>>
           /\ serv' = "none" => l = <<>> /\ h = <<>>
<1>1. crt \in Nat /\ RatioHigh + RatioLow \in Nat /\ RatioHigh + RatioLow > 0
  BY QueueAssumption DEF QueueTypeOK
<1>2. (crt + 1) % (RatioHigh + RatioLow) \in 0 .. RatioHigh + RatioLow - 1
  <2>1. PICK m \in Nat : m = RatioHigh + RatioLow /\ m > 0
    BY <1>1
  <2>2. PICK i \in Nat : i = crt + 1
    BY <1>1
  <2>3. i % m \in 0 .. (m - 1)
    BY <2>1, Remainder
  <2>4. (crt + 1) % (RatioHigh + RatioLow) = i % m
    BY Zenon, <2>1, <2>2
  <2>5. 0 .. RatioHigh + RatioLow - 1 = 0 .. (m - 1)
    BY <2>1, QueueAssumption
  <2> QED BY Zenon, <2>3, <2>4, <2>5
<1>3. CASE l # <<>> /\ h # <<>>
  BY <1>2, <1>3 DEF Serve
<1>4. CASE ~(l # <<>> /\ h # <<>>)
  BY <1>4 DEF Serve, QueueTypeOK
<1> QED BY <1>3, <1>4

(* An arrival leaves the queue in order.                                   *)
LEMMA ArrivalFacts ==
    ASSUME QueueTypeOK,
           NEW l \in Seq(Packet), NEW h \in Seq(Packet),
           l # <<>> \/ h # <<>>,
           low # <<>> => l # <<>>, high # <<>> => h # <<>>,
           ServeIfIdle(l, h),
           low' = l, high' = h
    PROVE  QueueTypeOK'
<1>1. Packet' = Packet
  BY DEF Packet
<1>2. CASE serv = "none"
  <2>1. Serve(l, h)
    BY <1>2 DEF ServeIfIdle
  <2>2. /\ serv' \in {"none", "low", "high"}
        /\ crt' \in 0 .. RatioHigh + RatioLow - 1
        /\ serv' = "low" => l # <<>>
        /\ serv' = "high" => h # <<>>
        /\ serv' = "none" => l = <<>> /\ h = <<>>
    BY <2>1, ServeFacts
  <2> QED BY Zenon, <1>1, <2>2 DEF QueueTypeOK
<1>3. CASE serv # "none"
  BY <1>1, <1>3 DEF ServeIfIdle, QueueTypeOK
<1> QED BY <1>2, <1>3

LEMMA QueueKeeps == QueueTypeOK /\ [Next]_vars => QueueTypeOK'
<1> SUFFICES ASSUME QueueTypeOK, [Next]_vars PROVE QueueTypeOK'
  OBVIOUS
<1>0. Packet' = Packet /\ low \in Seq(Packet) /\ high \in Seq(Packet)
  BY DEF Packet, QueueTypeOK
<1>1. CASE AtSource
  BY <1>0, <1>1 DEF AtSource, queue, QueueTypeOK
<1>2. ASSUME NEW p \in Packet, Accept(p) PROVE QueueTypeOK'
  <2>1. /\ low' = Append(low, p) /\ high' = high
        /\ ServeIfIdle(Append(low, p), high)
    BY <1>2 DEF Accept
  <2>2. Append(low, p) \in Seq(Packet) /\ Append(low, p) # <<>>
    BY <1>0
  <2> QED BY <1>0, <2>1, <2>2, ArrivalFacts
<1>3. ASSUME NEW p \in Packet, TrimArriving(p) PROVE QueueTypeOK'
  <2>1. /\ high' = Append(high, p) /\ low' = low
        /\ ServeIfIdle(low, Append(high, p))
    BY <1>3 DEF TrimArriving
  <2>2. Append(high, p) \in Seq(Packet) /\ Append(high, p) # <<>>
    BY <1>0
  <2> QED BY <1>0, <2>1, <2>2, ArrivalFacts
<1>4. ASSUME NEW p \in Packet, TrimNewest(p) PROVE QueueTypeOK'
  <2> DEFINE h == Append(high, Last(low))
             l == Append(Front(low), p)
  <2>1. low' = l /\ high' = h /\ ServeIfIdle(l, h)
    BY <1>4 DEF TrimNewest
  <2>2. Len(low) > 0 /\ Len(low) \in Nat
    BY <1>0, <1>4, QueueAssumption DEF TrimNewest, Fits
  <2>3. Last(low) \in Packet /\ Front(low) \in Seq(Packet)
    BY <1>0, <2>2 DEF Last, Front
  <2>4. h \in Seq(Packet) /\ h # <<>> /\ l \in Seq(Packet) /\ l # <<>>
    <3>1. PICK x \in Packet, f \in Seq(Packet) : x = Last(low) /\ f = Front(low)
      BY <2>3
    <3>2. Append(high, x) \in Seq(Packet) /\ Append(high, x) # <<>>
      BY <1>0, <3>1
    <3>3. Append(f, p) \in Seq(Packet) /\ Append(f, p) # <<>>
      BY <1>4, <3>1
    <3> QED BY <3>1, <3>2, <3>3
  <2> HIDE DEF h, l
  <2> QED BY <2>1, <2>4, ArrivalFacts
<1>5. CASE DepartLow
  <2>1. low' = Tail(low) /\ high' = high /\ Serve(Tail(low), high) /\ low # <<>>
    BY <1>5 DEF DepartLow, QueueTypeOK
  <2>2. Tail(low) \in Seq(Packet)
    BY <1>0, <2>1
  <2>3. /\ serv' \in {"none", "low", "high"}
        /\ crt' \in 0 .. RatioHigh + RatioLow - 1
        /\ serv' = "low" => Tail(low) # <<>>
        /\ serv' = "high" => high # <<>>
        /\ serv' = "none" => Tail(low) = <<>> /\ high = <<>>
    BY <1>0, <2>1, <2>2, ServeFacts
  <2> QED BY Zenon, <1>0, <2>1, <2>2, <2>3 DEF QueueTypeOK
<1>6. CASE DepartHigh
  <2>1. high' = Tail(high) /\ low' = low /\ Serve(low, Tail(high)) /\ high # <<>>
    BY <1>6 DEF DepartHigh, QueueTypeOK
  <2>2. Tail(high) \in Seq(Packet)
    BY <1>0, <2>1
  <2>3. /\ serv' \in {"none", "low", "high"}
        /\ crt' \in 0 .. RatioHigh + RatioLow - 1
        /\ serv' = "low" => low # <<>>
        /\ serv' = "high" => Tail(high) # <<>>
        /\ serv' = "none" => low = <<>> /\ Tail(high) = <<>>
    BY <1>0, <2>1, <2>2, ServeFacts
  <2> QED BY Zenon, <1>0, <2>1, <2>2, <2>3 DEF QueueTypeOK
<1>7. CASE UNCHANGED vars
  BY <1>7 DEF vars, queue, QueueTypeOK, Packet
<1> QED BY Zenon, <1>1, <1>2, <1>3, <1>4, <1>5, <1>6, <1>7 DEF Next

LEMMA QueueInit == Init => QueueTypeOK
BY QueueAssumption DEF Init, QueueTypeOK

(* Every step of the queue is a step of a trimming fabric.                 *)
LEMMA StepRefines == QueueTypeOK /\ [Next]_vars => [FlowNext]_flowVars
<1> SUFFICES ASSUME QueueTypeOK, [Next]_vars PROVE [FlowNext]_flowVars
  OBVIOUS
<1>1. CASE AtSource
  BY Zenon, <1>1 DEF AtSource, FlowNext
<1>2. CASE \E p \in Packet : Accept(p)
  BY Zenon, <1>2 DEF Accept
<1>3. CASE \E p \in Packet : TrimArriving(p)
  BY Zenon, <1>3 DEF TrimArriving, FlowNext
<1>4. CASE \E p \in Packet : TrimNewest(p)
  <2>1. Trim(Last(low)) /\ Len(low) > 0
    BY <1>4, QueueAssumption DEF TrimNewest, Fits, QueueTypeOK
  <2>2. Last(low) \in Packet
    BY <2>1 DEF Last, QueueTypeOK
  <2> QED BY Zenon, <2>1, <2>2 DEF FlowNext
<1>5. CASE DepartLow
  <2>1. RecvData(Head(low)) /\ low # <<>>
    BY <1>5 DEF DepartLow, QueueTypeOK
  <2>2. Head(low) \in Packet
    BY <2>1 DEF QueueTypeOK
  <2> QED BY Zenon, <2>1, <2>2 DEF FlowNext
<1>6. CASE DepartHigh
  <2>1. RecvHeader(Head(high)) /\ high # <<>>
    BY <1>6 DEF DepartHigh, QueueTypeOK
  <2>2. Head(high) \in Packet
    BY <2>1 DEF QueueTypeOK
  <2> QED BY Zenon, <2>1, <2>2 DEF FlowNext
<1>7. CASE UNCHANGED vars
  BY Zenon, <1>7 DEF vars
<1> QED BY Zenon, <1>1, <1>2, <1>3, <1>4, <1>5, <1>6, <1>7 DEF Next

(* Through the trimming queue a flow is still a flow over a trimming       *)
(* fabric, whatever the queue's size and ratio.                            *)
THEOREM QueueIsAFabric == Spec => FlowSpec
<1>1. Init => FlowInit
  BY DEF Init
<1> QED BY <1>1, QueueInit, QueueKeeps, StepRefines, PTL DEF Spec, FlowSpec

(* The asserts of completeService: what is served is there.                *)
THEOREM QueueTypeCorrect == Spec => []TypeOK
<1>1. IInv /\ QueueTypeOK => TypeOK
  BY DEF IInv, TypeOK
<1> QED BY <1>1, QueueInit, QueueKeeps, QueueIsAFabric, FlowInvariant, PTL DEF Spec

(* A NACK or an acknowledgement that comes through the queue late finds    *)
(* the packet it is for.                                                   *)
THEOREM QueueRepliesMeet == Spec => []RepliesMeetTheirPacket
BY QueueIsAFabric, FlowRepliesMeet, PTL

(* So completion is exact and no packet is lost or doubled there either.   *)
THEOREM QueueFinishExact == Spec => [](FinishExact /\ OneCopy)
BY QueueIsAFabric, FlowFinishExact, FlowKeepsOneCopy, PTL

(* Nor does the window give way to an order in which the queue delivers.   *)
THEOREM QueueWithinWindow == Spec => WithinWindow
BY QueueIsAFabric, FlowWithinWindow, PTL

-----------------------------------------------------------------------------
\* What the queue is sending.

(* The newest of two packets or more can be replaced and the head stays.   *)
LEMMA LastOut ==
    ASSUME NEW s \in Seq(Packet), Len(s) > 1, NEW p \in Packet
    PROVE  /\ Head(Append(Front(s), p)) = Head(s)
           /\ Len(Append(Front(s), p)) = Len(s)
<1>1. Front(s) = SubSeq(s, 1, Len(s) - 1)
  BY DEF Front
<1>2. SubSeq(s, 1, Len(s) - 1) \in Seq(Packet)
  OBVIOUS
<1>3. PICK f \in Seq(Packet) : f = SubSeq(s, 1, Len(s) - 1)
  BY <1>2
<1>4. Len(f) = Len(s) - 1 /\ f[1] = s[1]
  BY <1>3
<1>5. Head(Append(f, p)) = s[1] /\ Len(Append(f, p)) = Len(s)
  BY <1>4
<1> QED BY <1>1, <1>3, <1>5

(* What ServiceKept says of one step.                                      *)
StepServiceKept ==
    /\ serv = "low" /\ serv' = "low" /\ Len(low') >= Len(low) =>
            Head(low') = Head(low)
    /\ Len(low') <= MaxSize

(* A packet that arrives joins the back, and what is trimmed is the newest.*)
LEMMA StepKeepsService ==
    MaxSize > 1 /\ QueueTypeOK /\ Len(low) <= MaxSize /\ [Next]_vars
        => StepServiceKept
<1> SUFFICES ASSUME MaxSize > 1, QueueTypeOK, Len(low) <= MaxSize, [Next]_vars
             PROVE  StepServiceKept
  OBVIOUS
<1>1. low \in Seq(Packet) /\ Len(low) \in Nat /\ MaxSize \in Nat
  BY QueueAssumption DEF QueueTypeOK
<1>2. ASSUME NEW p \in Packet, Accept(p) PROVE StepServiceKept
  <2>1. low' = Append(low, p) /\ Len(low) < MaxSize
    BY <1>2 DEF Accept, Fits
  <2>2. Len(low') = Len(low) + 1
    BY <1>1, <2>1
  <2>3. serv = "low" => Head(low') = Head(low)
    BY <1>1, <2>1 DEF QueueTypeOK
  <2> QED BY <1>1, <2>1, <2>2, <2>3 DEF StepServiceKept
<1>3. ASSUME NEW p \in Packet, TrimNewest(p) PROVE StepServiceKept
  <2>1. low' = Append(Front(low), p) /\ Len(low) = MaxSize
    BY <1>1, <1>3 DEF TrimNewest, Fits
  <2>2. Head(low') = Head(low) /\ Len(low') = Len(low)
    BY <1>1, <1>3, <2>1, LastOut
  <2> QED BY <1>1, <2>1, <2>2 DEF StepServiceKept
<1>4. CASE DepartLow
  <2>1. low' = Tail(low) /\ low # <<>>
    BY <1>4 DEF DepartLow, QueueTypeOK
  <2>2. Len(low') = Len(low) - 1
    BY <1>1, <2>1
  <2> QED BY <1>1, <2>2 DEF StepServiceKept
<1>5. CASE UNCHANGED low
  BY <1>1, <1>5 DEF StepServiceKept
<1>6. CASE AtSource \/ DepartHigh \/ UNCHANGED vars
  <2>1. UNCHANGED low
    BY <1>6 DEF AtSource, queue, DepartHigh, vars
  <2> QED BY <1>5, <2>1
<1>7. ASSUME NEW p \in Packet, TrimArriving(p) PROVE StepServiceKept
  BY <1>5, <1>7 DEF TrimArriving
<1> QED BY Zenon, <1>2, <1>3, <1>4, <1>6, <1>7 DEF Next

(* A queue of two packets or more never trims the packet it is sending and *)
(* never holds more than it may.  The size is a hypothesis: of one packet, *)
(* the newest is the one being sent.                                       *)
THEOREM QueueServiceKept ==
    ASSUME MaxSize > 1 PROVE Spec => ServiceKept
<1>1. Init => Len(low) <= MaxSize
  BY QueueAssumption DEF Init
<1>2. QueueTypeOK /\ Len(low) <= MaxSize /\ [Next]_vars => StepServiceKept
  BY StepKeepsService
<1>3. QueueTypeOK /\ Len(low) <= MaxSize /\ [Next]_vars => (Len(low) <= MaxSize)'
  BY <1>2 DEF StepServiceKept
<1>4. QueueTypeOK /\ Len(low) <= MaxSize /\ [Next]_vars => [StepServiceKept]_vars
  BY <1>2
<1>5. Spec => [][StepServiceKept]_vars
  BY <1>1, <1>3, <1>4, QueueInit, QueueKeeps, PTL DEF Spec
<1> QED BY <1>5 DEF ServiceKept, StepServiceKept
=============================================================================
