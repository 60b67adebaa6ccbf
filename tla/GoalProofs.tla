----------------------------- MODULE GoalProofs -----------------------------
(***************************************************************************)
(* Proofs about GoalCollectives, for every schedule and every group: the   *)
(* types, that every node is in one place, that what a rank gets past has  *)
(* happened, and that the two counters which keep the network running      *)
(* stand for what is outstanding.  Ranks send and receive as they like,    *)
(* with as many nodes to a channel as they like, paired or not.            *)
(*                                                                         *)
(* The invariant follows an operation through four phases (Phases) and     *)
(* knows what is scheduled and what control returns for (EventsFit,        *)
(* ControlFits).  The code keeps none of this: it has a counter here, a    *)
(* flag there, and what they mean depends on events that are under way.    *)
(***************************************************************************)
EXTENDS GoalCollectives, FiniteSetTheorems, TLAPS

(* Events that are due or will be.                                          *)
Pending == due \union later

(* Nodes that have been started, by leaving aq for the first time, and      *)
(* nodes that are done.                                                     *)
Started == {n \in Node : dep_cnt[n] <= 0 /\ n \notin executableNodes
                           /\ n \notin queued}
Done == {n \in Node : finished[n] > 0}

(* The nodes of an operation, and those whose rank has reached it.          *)
NodesOf(o) == {n \in Node : Task[n] = o}
Came(o) == {n \in Started : Task[n] = o}

(* The receivers whose barrier activation is past.                          *)
Got(o) == {h \in Receivers(o) : Received(o, h)}

(* A node is in a place only its task has.                                  *)
PlacesFit ==
    /\ \A n \in computing : Task[n] = Calc
    /\ \A n \in Node : markers[n] > 0 => Task[n] \in Op
    /\ \A o \in DOMAIN coll : \A n \in coll[o].rank_nodes : Task[n] = o
    /\ \A n \in Node : FlowOver(n) \in Pending => Task[n] = Send
    /\ \A n \in Node : CalcEnd(n) \in Pending => n \in computing

(* A counter of dependencies counts those that are not met.                 *)
DepsCounted ==
    \A m \in Node :
        dep_cnt[m] = Cardinality(Requires[m] \ Done)
                       + Cardinality(IRequires[m] \ Started)

(* An event is scheduled once (but for the stray ones); an emission is      *)
(* scheduled when its member arrives, at that instant, and happens once; a  *)
(* last packet has been supplied.                                           *)
Here(o, h) == \E n \in Came(o) : Rank[n] = h

EventsFit ==
    /\ \A e \in due \intersect later : \E o \in Op : e = Stray(o)
    /\ \A o \in Op, h \in Member :
        /\ Emission(o, h) \notin later
        /\ Emission(o, h) \in due \/ <<o, h>> \in sent_once
             <=> h \in Emitters(o) /\ Here(o, h)
        /\ ~(Emission(o, h) \in due /\ <<o, h>> \in sent_once)
        /\ LastPacket(o, h) \in Pending => h \in Supplied(o, sent_once)

(* The life of an operation: no member has come; some have, and wait with   *)
(* the barrier, which counts the receivers that lack something; it is       *)
(* complete, and a member is missing; all of them have come.                *)
Unheard(o) == Came(o) = {} /\ o \notin DOMAIN coll /\ remaining[o] = 0

Open(o) ==
    /\ o \in DOMAIN coll /\ ~coll[o].completed
    /\ coll[o].rank_nodes = Came(o) /\ Came(o) # {}
    /\ coll[o].arrived = Cardinality(Came(o))
    /\ remaining[o] = Cardinality(Receivers(o) \ Got(o))
    /\ remaining[o] > 0

Happened(o) == remaining[o] = 0 /\ Receivers(o) \subseteq Got(o)

Partly(o) ==
    /\ o \in DOMAIN coll /\ coll[o].completed
    /\ coll[o].rank_nodes = {}
    /\ coll[o].arrived = Cardinality(Came(o))
    /\ coll[o].arrived < Len(Group)
    /\ Happened(o)

Over(o) == o \notin DOMAIN coll /\ Came(o) = NodesOf(o) /\ Happened(o)

Phases == \A o \in Op : Unheard(o) \/ Open(o) \/ Partly(o) \/ Over(o)

(* Receives and messages that wait.                                         *)
InRq == Waiting(rq)
InUq == Waiting(uq)

(* A message and a receive for it do not both wait, neither waits twice,    *)
(* and they are done in pairs.                                              *)
PairsMeet ==
    \A c \in Channels :
        /\ rq[c] = <<>> \/ uq[c] = <<>>
        /\ IsInjective(rq[c]) /\ IsInjective(uq[c])
        /\ Cardinality(DoneOf(Sends(c))) = Cardinality(DoneOf(Recvs(c)))

(* While the loop dispatches, nothing but emissions is due, and the round's *)
(* last send has scheduled nothing for its NIC yet.                         *)
ControlFits ==
    /\ simulating => ~have_more
    /\ Dispatching => \A e \in due : \E o \in Op, h \in Member : e = Emission(o, h)
    /\ until # {} => /\ Dispatching
                     /\ \E h \in Member : /\ until = {h} /\ NullEvent(h) \in nic[h]
                                         /\ NullEvent(h) \notin later

(* Who waits for the time of a rank's last send does so while that rank's   *)
(* NIC is busy, and so does the event list.                                 *)
ClocksFit ==
    \A h \in Member :
        (\/ NullEvent(h) \in later
         \/ \E k \in Member : NullEvent(h) \in nic[k] \union cpu[k]
         \/ \E n \in Node : NullEvent(h) \in time[n])
        => NullEvent(h) \in nic[h]

IInv ==
    /\ TypeOK /\ EachNodeOnce /\ PlacesFit /\ DepsCounted /\ EventsFit
    /\ Phases /\ PairsMeet /\ ControlFits /\ ClocksFit /\ CountersBalanced

Safety == Init /\ [][Next]_vars

-----------------------------------------------------------------------------
(* The operations                                                           *)

LEMMA MembersFinite ==
    /\ IsFiniteSet(Member) /\ Cardinality(Member) = Len(Group)
    /\ Len(Group) \in Nat /\ Len(Group) > 1
    /\ DOMAIN Group = 1..Len(Group)
  <1>1. Len(Group) \in Nat /\ DOMAIN Group = 1..Len(Group)
    BY OpAssumption
  <1>2. Group \in Surjection(1..Len(Group), Member)
    BY <1>1, OpAssumption DEF Surjection, Member
  <1>3. IsFiniteSet(1..Len(Group))
    BY <1>1, FS_Interval
  <1> QED  BY <1>1, <1>2, <1>3, FS_Surjection, OpAssumption

LEMMA KindCases ==
    ASSUME NEW o \in Op
    PROVE  /\ \/ Kind[o] = "allreduce" \/ Kind[o] = "reduce"
              \/ Kind[o] = "reduce_scatter" \/ Kind[o] = "bcast"
              \/ Kind[o] = "allgather"
           /\ Root[o] \in Member /\ Size[o] \in Nat /\ Size[o] > 0
  BY OpAssumption DEF Kinds

(* The blocks of an operation that has blocks are not empty, and fit.       *)
LEMMA Blocks ==
    ASSUME NEW o \in Op, Kind[o] \in {"reduce_scatter", "allgather"}
    PROVE  /\ Block(o) \in Nat /\ Block(o) > 0
           /\ \A i \in DOMAIN Group :
                /\ (i - 1) * Block(o) + 1 \in 1..Size[o]
                /\ (i - 1) * Block(o) + 1 \in ((i - 1) * Block(o) + 1)..(i * Block(o))
  <1> DEFINE n == Len(Group)
             b == Size[o] \div Len(Group)
  <1>1. n \in Nat /\ n > 1 /\ DOMAIN Group = 1..n
    BY MembersFinite
  <1>2. Size[o] \in Nat /\ Size[o] > 0 /\ Size[o] % n = 0
    BY KindCases, OpAssumption
  <1> HIDE DEF n
  <1>3. Size[o] = (n * (Size[o] \div n)) + (Size[o] % n) /\ Size[o] \div n \in Nat
    BY <1>1, <1>2
  <1>4. b \in Nat /\ Size[o] = n * b
    BY <1>2, <1>3 DEF n
  <1> HIDE DEF b
  <1>5. b > 0
    BY <1>1, <1>2, <1>4
  <1>6. ASSUME NEW i \in 1..n
        PROVE  /\ (i - 1) * b \in Nat /\ i * b = (i - 1) * b + b
               /\ (i - 1) * b + b <= n * b
    <2>1. i - 1 \in Nat /\ n - i \in Nat /\ n = (i - 1) + 1 + (n - i)
      BY <1>1
    <2>2. (i - 1) * b \in Nat /\ (n - i) * b \in Nat
      BY <1>4, <2>1
    <2>3. i * b = (i - 1) * b + b
      BY <1>4
    <2>4. n * b = (i - 1) * b + b + (n - i) * b
      BY <1>1, <1>4
    <2> QED  BY <1>4, <2>2, <2>3, <2>4
  <1>7. Block(o) = b
    BY DEF Block, b
  <1>8. ASSUME NEW i \in DOMAIN Group
        PROVE  /\ (i - 1) * Block(o) + 1 \in 1..Size[o]
               /\ (i - 1) * Block(o) + 1 \in ((i - 1) * Block(o) + 1)..(i * Block(o))
    <2>1. /\ (i - 1) * b \in Nat /\ i * b = (i - 1) * b + b
          /\ (i - 1) * b + b <= n * b
      BY <1>1, <1>6
    <2> DEFINE x == (i - 1) * b
               y == i * b
               z == n * b
    <2>2. x \in Nat /\ y = x + b /\ x + b <= z /\ Size[o] = z
      BY <1>4, <2>1
    <2> HIDE DEF x, y, z
    <2>3. x + 1 \in 1..Size[o] /\ x + 1 \in (x + 1)..y
      BY <1>2, <1>4, <1>5, <2>2
    <2> QED  BY <1>7, <2>3 DEF x, y
  <1> QED  BY <1>4, <1>5, <1>7, <1>8

(* Whoever expects something waits for somebody, and everybody who sends is *)
(* waited for.                                                              *)
LEMMA SourcesCover ==
    ASSUME NEW o \in Op
    PROVE  /\ \A h \in Receivers(o) : Sources(o, h) # {}
           /\ \A e \in Emitters(o) : \E h \in Receivers(o) : e \in Sources(o, h)
           /\ Emitters(o) \subseteq Member /\ Receivers(o) \subseteq Member
  <1>0. Emitters(o) \subseteq Member /\ Receivers(o) \subseteq Member
    BY KindCases DEF Emitters, Receivers
  <1>1. \A h : \E m \in Member : m # h
    <2>1. ASSUME NEW h, \A m \in Member : m = h PROVE FALSE
      <3>1. Cardinality({h}) = 1
        BY FS_Singleton
      <3>2. Root[o] \in Member
        BY KindCases
      <3>3. Member = {h}
        BY <2>1, <3>2
      <3> QED  BY <3>1, <3>3, MembersFinite
    <2> QED  BY <2>1
  <1>2. \E m \in Member : m # Root[o]
    BY <1>1
  <1>3. ASSUME NEW h, NEW c, NEW S, <<c, S>> \in Due(o, h)
        PROVE  S \subseteq Sources(o, h)
    <2>1. <<c, S>>[2] = S
      OBVIOUS
    <2> QED  BY <1>3, <2>1 DEF Sources
  <1>4. CASE Kind[o] = "allreduce"
    <2>1. 1 \in Chunks(o)
      BY <1>4, KindCases DEF Chunks
    <2>2. \A h \in Member : <<1, Member>> \in Due(o, h)
      BY <1>4, <2>1 DEF Due
    <2>3. \A h \in Member : Member \subseteq Sources(o, h)
      BY <1>3, <2>2
    <2>4. Receivers(o) = Member /\ Emitters(o) = Member
      BY <1>4 DEF Receivers, Emitters
    <2> QED  BY <1>0, <1>1, <1>2, <2>3, <2>4
  <1>5. CASE Kind[o] = "reduce"
    <2>1. 1 \in Chunks(o)
      BY <1>5, KindCases DEF Chunks
    <2>2. <<1, Member>> \in Due(o, Root[o])
      BY <1>5, <2>1 DEF Due
    <2>3. Member \subseteq Sources(o, Root[o])
      BY <1>3, <2>2
    <2>4. Receivers(o) = {Root[o]} /\ Emitters(o) = Member
      BY <1>5 DEF Receivers, Emitters
    <2> QED  BY <1>0, <1>1, <1>2, <2>3, <2>4
  <1>6. CASE Kind[o] = "reduce_scatter"
    <2>1. ASSUME NEW h \in Member PROVE Member \subseteq Sources(o, h)
      <3>1. PICK i \in DOMAIN Group : h = Group[i]
        BY DEF Member
      <3> DEFINE c == (i - 1) * Block(o) + 1
      <3>2. c \in 1..Size[o] /\ c \in ((i - 1) * Block(o) + 1)..(i * Block(o))
        BY <1>6, Blocks
      <3> HIDE DEF c
      <3>3. c \in Chunks(o)
        BY <1>6, <3>2 DEF Chunks
      <3>4. <<c, Member>> \in Due(o, h)
        BY <1>6, <3>1, <3>2, <3>3 DEF Due
      <3> QED  BY <1>3, <3>4
    <2>2. Receivers(o) = Member /\ Emitters(o) = Member
      BY <1>6 DEF Receivers, Emitters
    <2> QED  BY <1>0, <1>2, <2>1, <2>2
  <1>7. CASE Kind[o] = "bcast"
    <2>1. 1 \in Chunks(o)
      BY <1>7, KindCases DEF Chunks
    <2>2. \A h \in Member \ {Root[o]} : <<1, {Root[o]}>> \in Due(o, h)
      BY <1>7, <2>1 DEF Due
    <2>3. \A h \in Member \ {Root[o]} : Root[o] \in Sources(o, h)
      BY <1>3, <2>2
    <2>4. Receivers(o) = Member \ {Root[o]} /\ Emitters(o) = {Root[o]}
      BY <1>7 DEF Receivers, Emitters
    <2> QED  BY <1>0, <1>1, <1>2, <2>3, <2>4
  <1>8. CASE Kind[o] = "allgather"
    <2>1. 1 \in Chunks(o)
      BY <1>8, Blocks DEF Chunks
    <2>2. \A h \in Member : \A m \in Member \ {h} : <<1, {m}>> \in Due(o, h)
      BY <1>8, <2>1 DEF Due
    <2>3. \A h \in Member : \A m \in Member \ {h} : m \in Sources(o, h)
      BY <1>3, <2>2
    <2>4. Receivers(o) = Member /\ Emitters(o) = Member
      BY <1>8 DEF Receivers, Emitters
    <2> QED  BY <1>0, <1>1, <1>2, <2>3, <2>4
  <1> QED  BY <1>4, <1>5, <1>6, <1>7, <1>8, KindCases

(* The barrier starts from the number of members that expect something.     *)
LEMMA ActivationsCount ==
    ASSUME NEW o \in Op
    PROVE  /\ Activations(o) = Cardinality(Receivers(o))
           /\ IsFiniteSet(Receivers(o)) /\ Activations(o) > 0
           /\ Activations(o) \in Nat
  <1>1. CASE Kind[o] = "reduce"
    <2>1. Receivers(o) = {Root[o]} /\ Activations(o) = 1
      BY <1>1 DEF Receivers, Activations
    <2>2. IsFiniteSet({Root[o]}) /\ Cardinality({Root[o]}) = 1
      BY FS_Singleton
    <2> QED  BY <2>1, <2>2
  <1>2. CASE Kind[o] = "bcast"
    <2>1. Receivers(o) = Member \ {Root[o]} /\ Activations(o) = Len(Group) - 1
      BY <1>2 DEF Receivers, Activations
    <2>2. IsFiniteSet(Member \ {Root[o]})
          /\ Cardinality(Member \ {Root[o]}) = Cardinality(Member) - 1
      BY FS_RemoveElement, MembersFinite, KindCases
    <2> QED  BY <2>1, <2>2, MembersFinite
  <1>3. CASE Kind[o] # "reduce" /\ Kind[o] # "bcast"
    <2>1. Receivers(o) = Member /\ Activations(o) = Len(Group)
      BY <1>3 DEF Receivers, Activations
    <2> QED  BY <2>1, MembersFinite
  <1> QED  BY <1>1, <1>2, <1>3

(* An operation has as many nodes as the group has members.                 *)
LEMMA NodePerMember ==
    ASSUME NEW o \in Op
    PROVE  /\ IsFiniteSet(NodesOf(o))
           /\ Cardinality(NodesOf(o)) = Len(Group)
           /\ \A h \in Member : \E n \in NodesOf(o) : Rank[n] = h
           /\ \A n, m \in NodesOf(o) : Rank[n] = Rank[m] => n = m
           /\ \A n \in NodesOf(o) : Rank[n] \in Member
  <1>1. \A h \in Member :
          \E n \in Node : \A m \in Node : m = n <=> (Rank[m] = h /\ Task[m] = o)
    BY ScheduleAssumption
  <1>2. \A n \in NodesOf(o) : Rank[n] \in Member
    BY ScheduleAssumption DEF NodesOf
  <1>3. \A h \in Member : \E n \in NodesOf(o) : Rank[n] = h
    BY <1>1 DEF NodesOf
  <1>4. \A n, m \in NodesOf(o) : Rank[n] = Rank[m] => n = m
    BY <1>1, <1>2 DEF NodesOf
  <1>5. IsFiniteSet(NodesOf(o))
    BY FS_Subset, ScheduleAssumption DEF NodesOf
  <1> DEFINE f == [n \in NodesOf(o) |-> Rank[n]]
  <1>6. f \in Surjection(NodesOf(o), Member) /\ f \in Injection(NodesOf(o), Member)
    BY <1>2, <1>3, <1>4 DEF Surjection, Injection, IsInjective
  <1>7. Cardinality(Member) = Cardinality(NodesOf(o))
    BY <1>5, <1>6, FS_Surjection
  <1> QED  BY <1>2, <1>3, <1>4, <1>5, <1>7, MembersFinite

-----------------------------------------------------------------------------
(* Events, nodes and counters                                               *)

LEMMA EventsApart ==
    /\ \A n, m : CalcEnd(n) = CalcEnd(m) => n = m
    /\ \A n, m : FlowOver(n) = FlowOver(m) => n = m
    /\ \A n, m : NullEvent(n) = NullEvent(m) => n = m
    /\ \A o, h, p, i : Emission(o, h) = Emission(p, i) => o = p /\ h = i
    /\ \A o, h, p, i : LastPacket(o, h) = LastPacket(p, i) => o = p /\ h = i
    /\ \A o, p : Stray(o) = Stray(p) => o = p
  BY DEF CalcEnd, FlowOver, NullEvent, Emission, LastPacket, Stray

LEMMA KindsApart ==
    /\ \A n, m : /\ CalcEnd(n) # FlowOver(m) /\ CalcEnd(n) # NullEvent(m)
                 /\ CalcEnd(n) # Stray(m) /\ FlowOver(n) # NullEvent(m)
                 /\ FlowOver(n) # Stray(m) /\ NullEvent(n) # Stray(m)
    /\ \A o, h, m : /\ Emission(o, h) # CalcEnd(m) /\ Emission(o, h) # FlowOver(m)
                    /\ Emission(o, h) # NullEvent(m) /\ Emission(o, h) # Stray(m)
                    /\ LastPacket(o, h) # CalcEnd(m) /\ LastPacket(o, h) # FlowOver(m)
                    /\ LastPacket(o, h) # NullEvent(m) /\ LastPacket(o, h) # Stray(m)
    /\ \A o, h, p, i : Emission(o, h) # LastPacket(p, i)
  BY DEF CalcEnd, FlowOver, NullEvent, Emission, LastPacket, Stray

LEMMA EventsTyped ==
    /\ \A n \in Node : CalcEnd(n) \in Event /\ FlowOver(n) \in Event
    /\ \A h \in Member : NullEvent(h) \in Event
    /\ \A o \in Op : Stray(o) \in Event
    /\ \A o \in Op, h \in Member : Emission(o, h) \in Event /\ LastPacket(o, h) \in Event
  BY DEF Event

LEMMA TasksApart ==
    /\ Calc \notin Op /\ Send \notin Op /\ Recv \notin Op
    /\ Calc # Send /\ Calc # Recv /\ Send # Recv
    /\ \A n \in Node : \/ Task[n] \in Op \/ Task[n] = Calc
                       \/ Task[n] = Send \/ Task[n] = Recv
    /\ \A n \in Node : Rank[n] \in Member
  <1>1. \A x, y : Cardinality({x, y}) <= 2
    <2> SUFFICES ASSUME NEW x, NEW y PROVE Cardinality({x, y}) <= 2
      OBVIOUS
    <2>1. IsFiniteSet({x}) /\ Cardinality({x}) = 1
      BY FS_Singleton
    <2>2. Cardinality({x} \cup {y}) = IF y \in {x} THEN 1 ELSE 2
      BY <2>1, FS_AddElement
    <2>3. {x, y} = {x} \cup {y}
      OBVIOUS
    <2> QED  BY <2>2, <2>3
  <1>2. Cardinality({Calc, Send, Recv}) = 3
    BY ScheduleAssumption
  <1>3. Calc # Send
    <2>1. Calc = Send => {Calc, Send, Recv} = {Send, Recv}
      OBVIOUS
    <2>2. Cardinality({Send, Recv}) <= 2
      BY <1>1
    <2> QED  BY <1>2, <2>1, <2>2
  <1>4. Calc # Recv
    <2>1. Calc = Recv => {Calc, Send, Recv} = {Send, Recv}
      OBVIOUS
    <2> QED  BY <1>1, <1>2, <2>1
  <1>5. Send # Recv
    <2>1. Send = Recv => {Calc, Send, Recv} = {Calc, Recv}
      OBVIOUS
    <2> QED  BY <1>1, <1>2, <2>1
  <1> QED  BY <1>3, <1>4, <1>5, ScheduleAssumption

(* Taking D from what is left of A.                                         *)
LEMMA CardRest ==
    ASSUME NEW A, NEW B, NEW D, IsFiniteSet(A), B \cap D = {}
    PROVE  /\ Cardinality(A \ (B \cup D)) = Cardinality(A \ B) - Cardinality(A \cap D)
           /\ Cardinality(A \ (B \cup D)) \in Nat /\ Cardinality(A \ B) \in Nat
           /\ Cardinality(A \cap D) \in Nat
  <1>1. IsFiniteSet(A \ B) /\ IsFiniteSet(A \cap D) /\ IsFiniteSet(A \ (B \cup D))
    BY FS_Difference, FS_Intersection
  <1>2. (A \ B) \ D = A \ (B \cup D) /\ (A \ B) \cap D = A \cap D
    OBVIOUS
  <1>3. Cardinality((A \ B) \ D) = Cardinality(A \ B) - Cardinality((A \ B) \cap D)
    BY <1>1, FS_Difference
  <1> QED  BY <1>1, <1>2, <1>3, FS_CardinalityType

(* Where a node is it is nowhere else.                                      *)
LEMMA OnePlace ==
    ASSUME IInv, NEW n \in Node
    PROVE  /\ n \in queued => dep_cnt[n] = 0 /\ n \notin executableNodes
           /\ n \in executableNodes => dep_cnt[n] = 0
           /\ n \notin Started => finished[n] = 0
           /\ n \notin Started => markers[n] = 0
           /\ n \notin Started => ~Recorded(n)
           /\ markers[n] + finished[n] > 0 => ~Recorded(n)
           /\ n \in computing \/ markers[n] > 0 \/ n \in msgs \/ n \in InRq \/ n \in InUq
                => finished[n] = 0
           /\ dep_cnt[n] \in Nat /\ markers[n] \in Nat /\ finished[n] \in Nat
  <1>1. /\ dep_cnt[n] \in Nat /\ markers[n] \in Nat /\ finished[n] \in Nat
    BY DEF IInv, TypeOK
  <1>2. One(dep_cnt[n] > 0) + One(n \in executableNodes)
          + One(n \in queued) + One(n \in computing)
          + One(Recorded(n)) + One(FlowOver(n) \in due \union later)
          + One(n \in msgs) + One(n \in InRq) + One(n \in InUq)
          + markers[n] + finished[n] = 1
    BY DEF IInv, EachNodeOnce, InRq, InUq
  <1> QED  BY <1>1, <1>2 DEF One, Started

(* The counters go down by the dependencies that are met, and never below   *)
(* zero; the nodes that are freed are those whose last one is.              *)
LEMMA CountDownFacts ==
    ASSUME IInv, NEW S \in SUBSET queued, NEW D \in SUBSET Node, CountDown(S, D),
           queued' = queued \ S, \A n \in D : finished[n] = 0
    PROVE  /\ dep_cnt' \in [Node -> Nat] /\ DepsCounted'
           /\ executableNodes' \subseteq Node /\ finished' \in [Node -> Nat]
           /\ Started' = Started \cup S
           /\ \A x \in Node :
                /\ finished'[x] = finished[x] + One(x \in D)
                /\ One(dep_cnt'[x] > 0) + One(x \in executableNodes')
                     = One(dep_cnt[x] > 0) + One(x \in executableNodes)
  <1>0. /\ queued \subseteq Node /\ executableNodes \subseteq Node
        /\ dep_cnt \in [Node -> Nat] /\ finished \in [Node -> Nat]
    BY DEF IInv, TypeOK
  <1>1. Started \cap S = {} /\ Done \cap D = {}
    BY DEF Started, Done
  <1>2. \A m \in Node : IsFiniteSet(Requires[m]) /\ IsFiniteSet(IRequires[m])
    BY ScheduleAssumption, FS_Subset
  <1>3. ASSUME NEW m \in Node
        PROVE  /\ dep_cnt'[m] = Cardinality(Requires[m] \ (Done \cup D))
                                  + Cardinality(IRequires[m] \ (Started \cup S))
               /\ dep_cnt'[m] \in Nat /\ dep_cnt'[m] <= dep_cnt[m]
    <2>1. dep_cnt'[m] = dep_cnt[m] - (Cardinality(IRequires[m] \cap S)
                                        + Cardinality(Requires[m] \cap D))
      BY DEF CountDown, Met
    <2>2. dep_cnt[m] = Cardinality(Requires[m] \ Done)
                         + Cardinality(IRequires[m] \ Started)
      BY DEF IInv, DepsCounted
    <2>3. /\ Cardinality(Requires[m] \ (Done \cup D))
               = Cardinality(Requires[m] \ Done) - Cardinality(Requires[m] \cap D)
          /\ Cardinality(Requires[m] \ (Done \cup D)) \in Nat
          /\ Cardinality(Requires[m] \ Done) \in Nat
          /\ Cardinality(Requires[m] \cap D) \in Nat
      BY <1>1, <1>2, CardRest
    <2>4. /\ Cardinality(IRequires[m] \ (Started \cup S))
               = Cardinality(IRequires[m] \ Started) - Cardinality(IRequires[m] \cap S)
          /\ Cardinality(IRequires[m] \ (Started \cup S)) \in Nat
          /\ Cardinality(IRequires[m] \ Started) \in Nat
          /\ Cardinality(IRequires[m] \cap S) \in Nat
      BY <1>1, <1>2, CardRest
    <2> QED  BY <2>1, <2>2, <2>3, <2>4
  <1>4. /\ dep_cnt' \in [Node -> Nat]
        /\ executableNodes' = executableNodes \union
                            {m \in Node : dep_cnt[m] > 0 /\ dep_cnt'[m] <= 0}
        /\ finished' = [n \in Node |-> IF n \in D THEN finished[n] + 1
                                        ELSE finished[n]]
    <2>1. dep_cnt' = [m \in Node |-> dep_cnt[m] - Met(m, S, D)]
      BY DEF CountDown
    <2> QED  BY <1>3, <2>1 DEF CountDown
  <1>5. executableNodes' \subseteq Node /\ finished' \in [Node -> Nat]
        /\ \A x \in Node : finished'[x] = finished[x] + One(x \in D)
    BY <1>0, <1>4 DEF One
  <1>6. ASSUME NEW x \in Node
        PROVE  /\ dep_cnt'[x] \in Nat /\ dep_cnt'[x] <= dep_cnt[x]
               /\ dep_cnt[x] \in Nat
               /\ x \in executableNodes => dep_cnt[x] = 0
               /\ x \in queued => dep_cnt[x] = 0 /\ x \notin executableNodes
               /\ x \in executableNodes' <=>
                    x \in executableNodes \/ (dep_cnt[x] > 0 /\ dep_cnt'[x] <= 0)
    BY <1>0, <1>3, <1>4, OnePlace
  <1>7. Done' = Done \cup D
    BY <1>0, <1>4 DEF Done
  <1>8. Started' = Started \cup S
    <2>1. ASSUME NEW x \in Node PROVE x \in Started' <=> x \in Started \cup S
      BY <1>6 DEF Started
    <2>2. Started' \subseteq Node /\ Started \cup S \subseteq Node
      BY <1>0 DEF Started
    <2> QED  BY <2>1, <2>2
  <1>9. \A x \in Node : One(dep_cnt'[x] > 0) + One(x \in executableNodes')
                          = One(dep_cnt[x] > 0) + One(x \in executableNodes)
    BY <1>6 DEF One
  <1>10. DepsCounted'
    BY <1>3, <1>7, <1>8 DEF DepsCounted
  <1> QED  BY <1>4, <1>5, <1>8, <1>9, <1>10

(* The places of a node before and after a step that moves it out of the    *)
(* graph or makes it done.                                                  *)
LEMMA PlacesAfter ==
    ASSUME IInv, NEW S \in SUBSET queued, NEW D \in SUBSET Node, CountDown(S, D),
           queued' = queued \ S, \A n \in D : finished[n] = 0,
           markers' \in [Node -> Nat],
           \A x \in Node :
             One(x \in S)
               + One(x \in computing) + One(Recorded(x)) + One(FlowOver(x) \in Pending)
               + One(x \in msgs) + One(x \in InRq) + One(x \in InUq) + markers[x]
             = One(x \in computing') + One(Recorded(x)') + One(FlowOver(x) \in Pending')
                 + One(x \in msgs') + One(x \in InRq') + One(x \in InUq') + markers'[x]
                 + One(x \in D)
    PROVE  EachNodeOnce'
  <1> SUFFICES ASSUME NEW x \in Node
      PROVE  One(dep_cnt'[x] > 0) + One(x \in executableNodes')
          + One(x \in queued') + One(x \in computing')
          + One(Recorded(x)') + One(FlowOver(x) \in due' \union later')
          + One(x \in msgs') + One(x \in InRq') + One(x \in InUq')
          + markers'[x] + finished'[x] = 1
    BY DEF EachNodeOnce, FlowOver, InRq, InUq
  <1>1. /\ finished'[x] = finished[x] + One(x \in D)
        /\ One(dep_cnt'[x] > 0) + One(x \in executableNodes')
             = One(dep_cnt[x] > 0) + One(x \in executableNodes)
    BY CountDownFacts
  <1>2. One(x \in queued) = One(x \in queued') + One(x \in S)
    BY DEF One
  <1>3. finished[x] \in Nat /\ markers[x] \in Nat /\ markers'[x] \in Nat
    BY DEF IInv, TypeOK
  <1>4. One(dep_cnt[x] > 0) + One(x \in executableNodes)
          + One(x \in queued) + One(x \in computing)
          + One(Recorded(x)) + One(FlowOver(x) \in Pending)
          + One(x \in msgs) + One(x \in InRq) + One(x \in InUq)
          + markers[x] + finished[x] = 1
    BY DEF IInv, EachNodeOnce, Pending, InRq, InUq
  <1>5.  One(x \in S)
               + One(x \in computing) + One(Recorded(x)) + One(FlowOver(x) \in Pending)
               + One(x \in msgs) + One(x \in InRq) + One(x \in InUq) + markers[x]
             = One(x \in computing') + One(Recorded(x)') + One(FlowOver(x) \in Pending')
                 + One(x \in msgs') + One(x \in InRq') + One(x \in InUq') + markers'[x]
                 + One(x \in D)
    OBVIOUS
  <1> QED  BY <1>1, <1>2, <1>3, <1>4, <1>5 DEF One, Pending

-----------------------------------------------------------------------------
(* What a step leaves alone                                                 *)

(* The nodes that are outstanding for sends_active, and the events that     *)
(* compute_started counts.                                                  *)
Outstanding == {n \in Node : Recorded(n) \/ FlowOver(n) \in Pending}
TimedEvents == {CalcEnd(n) : n \in Node} \union {NullEvent(h) : h \in Member}
Timed == Pending \intersect TimedEvents

LEMMA TimedEventsFinite == IsFiniteSet(TimedEvents)
  <1>1. IsFiniteSet({CalcEnd(n) : n \in Node})
    <2> DEFINE f == [n \in Node |-> CalcEnd(n)]
    <2>1. f \in Surjection(Node, {CalcEnd(n) : n \in Node})
      BY DEF Surjection
    <2> QED  BY <2>1, FS_Surjection, ScheduleAssumption
  <1>2. IsFiniteSet({NullEvent(h) : h \in Member})
    <2> DEFINE f == [h \in Member |-> NullEvent(h)]
    <2>1. f \in Surjection(Member, {NullEvent(h) : h \in Member})
      BY DEF Surjection
    <2> QED  BY <2>1, FS_Surjection, MembersFinite
  <1> QED  BY <1>1, <1>2, FS_Union DEF TimedEvents

LEMMA CountedFinite ==
    /\ IsFiniteSet(Outstanding) /\ Cardinality(Outstanding) \in Nat
    /\ IsFiniteSet(Timed) /\ Cardinality(Timed) \in Nat
    /\ CountersBalanced <=> /\ sends_active = Cardinality(Outstanding)
                            /\ compute_started = Cardinality(Timed)
  <1>1. IsFiniteSet(Outstanding)
    BY FS_Subset, ScheduleAssumption DEF Outstanding
  <1>2. IsFiniteSet(Timed)
    BY TimedEventsFinite, FS_Intersection DEF Timed
  <1>3. CountersBalanced <=> /\ sends_active = Cardinality(Outstanding)
                             /\ compute_started = Cardinality(Timed)
    BY DEF CountersBalanced, Outstanding, Timed, TimedEvents, Pending
  <1> QED  BY <1>1, <1>2, <1>3, FS_CardinalityType

LEMMA BalancedAfter ==
    ASSUME sends_active' = Cardinality(Outstanding'),
           compute_started' = Cardinality(Timed')
    PROVE  /\ CountersBalanced'
           /\ sends_active' \in Nat /\ compute_started' \in Nat
  <1>1. CountersBalanced'
    BY DEF CountersBalanced, Outstanding, Timed, TimedEvents, Pending,
           CalcEnd, NullEvent
  <1>2. IsFiniteSet(Outstanding') /\ IsFiniteSet(Timed')
    <2>1. IsFiniteSet({n \in Node : Recorded(n)' \/ FlowOver(n) \in Pending'})
      BY FS_Subset, ScheduleAssumption
    <2>2. IsFiniteSet(Pending' \cap TimedEvents)
      BY TimedEventsFinite, FS_Intersection
    <2> QED  BY <2>1, <2>2 DEF Outstanding, FlowOver, Timed, TimedEvents, CalcEnd, NullEvent
  <1> QED  BY <1>1, <1>2, FS_CardinalityType

(* What depends on operations alone, when none of them goes on.             *)
LEMMA CameSame ==
    ASSUME \A n \in Node : Task[n] \in Op => (n \in Started' <=> n \in Started)
    PROVE  \A o \in Op : Came(o)' = Came(o)
  BY DEF Came, Started

LEMMA SameCame ==
    ASSUME Started' = Started
    PROVE  \A o \in Op : Came(o)' = Came(o)
  BY DEF Came

LEMMA GotSame ==
    ASSUME sent_once' = sent_once, NEW o \in Op,
           \A h \in Member : LastPacket(o, h) \in Pending' <=> LastPacket(o, h) \in Pending
    PROVE  Got(o)' = Got(o)
  <1>1. \A h \in Receivers(o) : Received(o, h)' <=> Received(o, h)
    BY SourcesCover DEF Received, Pending, Supplied, LastPacket
  <1> QED  BY <1>1 DEF Got

LEMMA PhasesKept ==
    ASSUME IInv, coll' = coll, remaining' = remaining, sent_once' = sent_once,
           \A o \in Op : Came(o)' = Came(o),
           \A o \in Op, h \in Member :
              LastPacket(o, h) \in Pending' <=> LastPacket(o, h) \in Pending
    PROVE  Phases'
  <1> SUFFICES ASSUME NEW o \in Op
               PROVE  (Unheard(o) \/ Open(o) \/ Partly(o) \/ Over(o))'
    BY DEF Phases
  <1>1. Unheard(o) \/ Open(o) \/ Partly(o) \/ Over(o)
    BY DEF IInv, Phases
  <1>2. Got(o)' = Got(o)
    BY GotSame
  <1> QED  BY <1>1, <1>2 DEF Unheard, Open, Partly, Over, Happened

LEMMA EventsKept ==
    ASSUME IInv, sent_once' = sent_once,
           \A o \in Op : Came(o)' = Came(o),
           \A e \in due' \intersect later' : \E o \in Op : e = Stray(o),
           \A o \in Op, h \in Member :
              /\ Emission(o, h) \in due' <=> Emission(o, h) \in due
              /\ Emission(o, h) \notin later'
              /\ LastPacket(o, h) \in Pending' => LastPacket(o, h) \in Pending
    PROVE  EventsFit'
  <1>1. EventsFit
    BY DEF IInv
  <1>2. \A o \in Op, h \in Member : Here(o, h)' <=> Here(o, h)
    BY DEF Here
  <1>3. \A o \in Op, h \in Member :
          Supplied(o, sent_once)' = Supplied(o, sent_once)
    BY DEF Supplied
  <1> QED  BY <1>1, <1>2, <1>3 DEF EventsFit, Emission, LastPacket, Stray, Pending

(* An operation's entry has the right type in every phase.                  *)
LEMMA EntriesTyped ==
    ASSUME IInv, Phases', DOMAIN coll' \subseteq Op,
           \A o \in DOMAIN coll' :
              /\ coll'[o].completed \in BOOLEAN
              /\ coll'[o] = [arrived |-> coll'[o].arrived,
                             completed |-> coll'[o].completed,
                             rank_nodes |-> coll'[o].rank_nodes]
    PROVE  \A o \in DOMAIN coll' :
             coll'[o] \in [arrived : 0..Len(Group), completed : BOOLEAN,
                           rank_nodes : SUBSET Node]
  <1> SUFFICES ASSUME NEW o \in DOMAIN coll'
               PROVE  /\ coll'[o].arrived \in 0..Len(Group)
                      /\ coll'[o].rank_nodes \in SUBSET Node
    OBVIOUS
  <1>1. Came(o)' \subseteq NodesOf(o) /\ Came(o)' \subseteq Node
    BY DEF Came, NodesOf, Started
  <1>2. Cardinality(Came(o)') \in 0..Len(Group)
    <2>1. /\ IsFiniteSet(Came(o)')
          /\ Cardinality(Came(o)') <= Cardinality(NodesOf(o))
      BY <1>1, NodePerMember, FS_Subset
    <2>2. Cardinality(NodesOf(o)) = Len(Group) /\ Len(Group) \in Nat
      BY NodePerMember, MembersFinite
    <2>3. Cardinality(Came(o)') \in Nat
      BY <2>1, FS_CardinalityType
    <2> QED  BY <2>1, <2>2, <2>3
  <1>3. (Unheard(o) \/ Open(o) \/ Partly(o) \/ Over(o))'
    BY DEF Phases
  <1>4. coll'[o].arrived = Cardinality(Came(o)')
        /\ (coll'[o].rank_nodes = Came(o)' \/ coll'[o].rank_nodes = {})
    BY <1>3 DEF Unheard, Open, Partly, Over
  <1> QED  BY <1>1, <1>2, <1>4

-----------------------------------------------------------------------------
(* The matching queues                                                      *)

(* Every queue is made of sends or of receives that are its own.            *)
LEMMA QueuesTyped ==
    ASSUME IInv
    PROVE  /\ rq \in [Channels -> Seq(Node)] /\ uq \in [Channels -> Seq(Node)]
           /\ \A c \in Channels : /\ Range(rq[c]) \subseteq Recvs(c)
                                  /\ Range(uq[c]) \subseteq Sends(c)
                                  /\ IsInjective(rq[c]) /\ IsInjective(uq[c])
  BY DEF IInv, TypeOK, PairsMeet, Range

LEMMA QueuesSame ==
    ASSUME rq' = rq, uq' = uq
    PROVE  InRq' = InRq /\ InUq' = InUq
  BY DEF InRq, InUq, Waiting

(* A send or receive is of one channel only.                                *)
LEMMA OwnChannel ==
    /\ \A c, n : n \in Recvs(c) \/ n \in Sends(c) => n \in Node /\ c = Channel(n)
    /\ \A c, n : n \in Recvs(c) => Task[n] = Recv
    /\ \A c, n : n \in Sends(c) => Task[n] = Send
    /\ \A n \in Node : Task[n] = Recv => n \in Recvs(Channel(n)) /\ Channel(n) \in Channels
    /\ \A n \in Node : Task[n] = Send => n \in Sends(Channel(n)) /\ Channel(n) \in Channels
  BY DEF Recvs, Sends, Channels

LEMMA PairsKept ==
    ASSUME IInv, rq' = rq, uq' = uq,
           \A n \in Node : Task[n] \in {Send, Recv} => finished'[n] = finished[n]
    PROVE  PairsMeet'
  <1>1. ASSUME NEW c \in Channels
        PROVE  /\ DoneOf(Sends(c))' = DoneOf(Sends(c))
               /\ DoneOf(Recvs(c))' = DoneOf(Recvs(c))
    BY OwnChannel DEF DoneOf
  <1> QED  BY <1>1 DEF IInv, PairsMeet

(* One more in a queue.                                                     *)
LEMMA LastPut ==
    ASSUME NEW q \in Seq(Node), NEW n \in Node, n \notin Range(q), IsInjective(q)
    PROVE  /\ Append(q, n) \in Seq(Node) /\ Append(q, n) # <<>>
           /\ Range(Append(q, n)) = Range(q) \union {n}
           /\ IsInjective(Append(q, n))
  <1>1. /\ Append(q, n) \in Seq(Node) /\ Len(q) \in Nat
        /\ DOMAIN q = 1..Len(q) /\ DOMAIN Append(q, n) = 1..(Len(q) + 1)
        /\ \A i \in 1..Len(q) : Append(q, n)[i] = q[i]
        /\ Append(q, n)[Len(q) + 1] = n
    OBVIOUS
  <1> DEFINE p == Append(q, n)
             l == Len(q)
  <1> HIDE DEF p, l
  <1>2. /\ l \in Nat /\ DOMAIN q = 1..l /\ DOMAIN p = 1..(l + 1)
        /\ \A i \in 1..l : p[i] = q[i]
        /\ p[l + 1] = n
    BY <1>1 DEF p, l
  <1>3. Range(p) = Range(q) \union {n}
    BY <1>2 DEF Range
  <1>4. IsInjective(p)
    BY <1>2 DEF Range, IsInjective
  <1>5. p # <<>>
    BY <1>1 DEF p
  <1> QED  BY <1>1, <1>3, <1>4, <1>5 DEF p

(* The first of a queue, and what is left without it.                       *)
LEMMA FirstTaken ==
    ASSUME NEW q \in Seq(Node), q # <<>>, IsInjective(q)
    PROVE  /\ Tail(q) \in Seq(Node) /\ Head(q) \in Range(q)
           /\ Range(Tail(q)) = Range(q) \ {Head(q)}
           /\ IsInjective(Tail(q))
  <1>1. /\ Tail(q) \in Seq(Node) /\ Len(q) \in Nat /\ Len(q) > 0
        /\ DOMAIN q = 1..Len(q) /\ DOMAIN Tail(q) = 1..(Len(q) - 1)
        /\ \A i \in 1..(Len(q) - 1) : Tail(q)[i] = q[i + 1]
        /\ Head(q) = q[1]
    OBVIOUS
  <1> DEFINE p == Tail(q)
             l == Len(q)
             h == Head(q)
  <1> HIDE DEF p, l, h
  <1>2. /\ l \in Nat /\ l > 0 /\ DOMAIN q = 1..l /\ DOMAIN p = 1..(l - 1)
        /\ \A i \in 1..(l - 1) : p[i] = q[i + 1]
        /\ h = q[1]
    BY <1>1 DEF p, l, h
  <1>3. h \in Range(q)
    BY <1>2 DEF Range
  <1>4. ASSUME NEW x PROVE x \in Range(p) <=> x \in Range(q) \ {h}
    <2>1. ASSUME NEW i \in 1..(l - 1), x = p[i] PROVE x \in Range(q) \ {h}
      <3>1. i + 1 \in 1..l /\ 1 \in 1..l /\ i + 1 # 1 /\ x = q[i + 1]
        BY <1>2, <2>1
      <3> QED  BY <1>2, <3>1 DEF Range, IsInjective
    <2>2. ASSUME NEW i \in 1..l, x = q[i], x # h PROVE x \in Range(p)
      <3>1. i - 1 \in 1..(l - 1) /\ (i - 1) + 1 = i
        BY <1>2, <2>2
      <3> QED  BY <1>2, <2>2, <3>1 DEF Range
    <2> QED  BY <1>2, <2>1, <2>2 DEF Range
  <1>5. IsInjective(p)
    <2> SUFFICES ASSUME NEW i \in 1..(l - 1), NEW j \in 1..(l - 1), p[i] = p[j]
                 PROVE  i = j
      BY <1>2 DEF IsInjective
    <2>1. i + 1 \in 1..l /\ j + 1 \in 1..l /\ q[i + 1] = q[j + 1]
      BY <1>2
    <2>2. i + 1 = j + 1
      BY <1>2, <2>1 DEF IsInjective
    <2> QED  BY <1>2, <2>2
  <1> QED  BY <1>1, <1>3, <1>4, <1>5 DEF p, h

(* Queues whose nodes are of their channel and are in them once.            *)
Proper(q) ==
    /\ q \in [Channels -> Seq(Node)]
    /\ \A d \in Channels : IsInjective(q[d]) /\ \A n \in Range(q[d]) : Channel(n) = d

LEMMA QueuesProper ==
    ASSUME IInv
    PROVE  Proper(rq) /\ Proper(uq)
  BY QueuesTyped, OwnChannel DEF Proper

(* The changes a step makes to the queues q.                                *)
Change(p, q, c, r) == p = [q EXCEPT ![c] = r]
Put(p, q, n) == p = [q EXCEPT ![Channel(n)] = Append(@, n)]
Take(p, q, c) == p = [q EXCEPT ![c] = Tail(@)]
Turn(p, q, c) == p = [q EXCEPT ![c] = Append(Tail(@), Head(@))]

(* A queue of a channel becomes r, and the others stay.                     *)
LEMMA QueueChange ==
    ASSUME NEW q, Proper(q), NEW c \in Channels,
           NEW r \in Seq(Node), IsInjective(r), \A n \in Range(r) : Channel(n) = c,
           NEW p, Change(p, q, c, r)
    PROVE  /\ Proper(p) /\ p[c] = r
           /\ \A d \in Channels : d # c => p[d] = q[d]
           /\ \A n : n \in Waiting(p) <=>
                \/ n \in Range(r)
                \/ n \in Waiting(q) /\ n \notin Range(q[c])
           /\ Range(q[c]) \subseteq Waiting(q)
           /\ \A n \in Waiting(q) : Channel(n) = c => n \in Range(q[c])
  <1>1. /\ p \in [Channels -> Seq(Node)] /\ p[c] = r
        /\ \A d \in Channels : d # c => p[d] = q[d]
    BY DEF Proper, Change
  <1>2. Proper(p)
    BY <1>1 DEF Proper
  <1>3. \A d \in Channels : Range(p[d]) \subseteq Node /\ Range(q[d]) \subseteq Node
    <2>1. ASSUME NEW s \in Seq(Node) PROVE Range(s) \subseteq Node
      BY DEF Range
    <2> QED  BY <1>1, <2>1 DEF Proper
  <1>4. /\ \A n : n \in Waiting(p) <=> \E d \in Channels : n \in Range(p[d])
        /\ \A n : n \in Waiting(q) <=> \E d \in Channels : n \in Range(q[d])
    BY <1>3 DEF Waiting, Range
  <1>5. ASSUME NEW n
        PROVE  n \in Waiting(p) <=>
                 \/ n \in Range(r)
                 \/ n \in Waiting(q) /\ n \notin Range(q[c])
    <2>1. ASSUME NEW d \in Channels, n \in Range(p[d])
          PROVE  n \in Range(r) \/ (n \in Waiting(q) /\ n \notin Range(q[c]))
      <3>1. CASE d = c
        BY <1>1, <2>1, <3>1
      <3>2. CASE d # c
        <4>1. n \in Range(q[d])
          BY <1>1, <2>1, <3>2
        <4>2. n \notin Range(q[c])
          BY <3>2, <4>1 DEF Proper
        <4> QED  BY <1>4, <4>1, <4>2
      <3> QED  BY <3>1, <3>2
    <2>2. n \in Range(r) => n \in Range(p[c])
      BY <1>1
    <2>3. ASSUME NEW d \in Channels, n \in Range(q[d]), n \notin Range(q[c])
          PROVE  n \in Range(p[d])
      BY <1>1, <2>3
    <2> QED  BY <1>4, <2>1, <2>2, <2>3
  <1>6. Range(q[c]) \subseteq Waiting(q)
        /\ \A n \in Waiting(q) : Channel(n) = c => n \in Range(q[c])
    BY <1>4 DEF Proper
  <1> QED  BY <1>1, <1>2, <1>5, <1>6

LEMMA QueuePut ==
    ASSUME NEW q, Proper(q), NEW n \in Node, Channel(n) \in Channels,
           n \notin Waiting(q), NEW p, Put(p, q, n)
    PROVE  /\ Proper(p) /\ Waiting(p) = Waiting(q) \union {n}
           /\ \A d \in Channels : d # Channel(n) => p[d] = q[d]
           /\ Range(p[Channel(n)]) = Range(q[Channel(n)]) \union {n}
  <1> DEFINE c == Channel(n)
             r == Append(q[c], n)
  <1>1. n \notin Range(q[c])
    BY DEF Waiting, Range
  <1>2. q[c] \in Seq(Node) /\ IsInjective(q[c]) /\ \A m \in Range(q[c]) : Channel(m) = c
    BY DEF Proper
  <1>3. r \in Seq(Node) /\ Range(r) = Range(q[c]) \union {n} /\ IsInjective(r)
    BY <1>1, <1>2, LastPut
  <1>4. Change(p, q, c, r) /\ c \in Channels /\ Channel(n) = c
    BY DEF Change, Put
  <1> HIDE DEF r, c
  <1>5. \A m \in Range(r) : Channel(m) = c
    BY <1>2, <1>3, <1>4
  <1>6. /\ Proper(p) /\ p[c] = r
        /\ \A d \in Channels : d # c => p[d] = q[d]
        /\ \A m : m \in Waiting(p) <=>
                \/ m \in Range(r)
                \/ m \in Waiting(q) /\ m \notin Range(q[c])
        /\ Range(q[c]) \subseteq Waiting(q)
    BY <1>3, <1>4, <1>5, QueueChange
  <1> QED  BY <1>3, <1>6 DEF c

LEMMA QueueTake ==
    ASSUME NEW q, Proper(q), NEW c \in Channels, q[c] # <<>>,
           NEW p, Take(p, q, c)
    PROVE  /\ Proper(p) /\ Waiting(p) = Waiting(q) \ {Head(q[c])}
           /\ \A d \in Channels : d # c => p[d] = q[d]
           /\ Range(p[c]) \subseteq Range(q[c])
           /\ Head(q[c]) \in Range(q[c]) /\ Head(q[c]) \in Waiting(q)
  <1> DEFINE r == Tail(q[c])
             h == Head(q[c])
  <1>1. q[c] \in Seq(Node) /\ IsInjective(q[c]) /\ \A m \in Range(q[c]) : Channel(m) = c
    BY DEF Proper
  <1>2. /\ r \in Seq(Node) /\ h \in Range(q[c])
        /\ Range(r) = Range(q[c]) \ {h} /\ IsInjective(r)
    BY <1>1, FirstTaken
  <1>3. Change(p, q, c, r)
    BY DEF Change, Take
  <1> HIDE DEF r, h
  <1>4. \A m \in Range(r) : Channel(m) = c
    BY <1>1, <1>2
  <1>5. /\ Proper(p) /\ p[c] = r
        /\ \A d \in Channels : d # c => p[d] = q[d]
        /\ \A m : m \in Waiting(p) <=>
                \/ m \in Range(r)
                \/ m \in Waiting(q) /\ m \notin Range(q[c])
        /\ Range(q[c]) \subseteq Waiting(q)
    BY <1>2, <1>3, <1>4, QueueChange
  <1> QED  BY <1>2, <1>5 DEF h

LEMMA QueueTurn ==
    ASSUME NEW q, Proper(q), NEW c \in Channels, q[c] # <<>>,
           NEW p, Turn(p, q, c)
    PROVE  /\ Proper(p) /\ Waiting(p) = Waiting(q)
           /\ \A d \in Channels : Range(p[d]) = Range(q[d]) /\ (q[d] = <<>> => p[d] = <<>>)
  <1> DEFINE t == Tail(q[c])
             h == Head(q[c])
             r == Append(t, h)
  <1>1. q[c] \in Seq(Node) /\ IsInjective(q[c]) /\ \A m \in Range(q[c]) : Channel(m) = c
    BY DEF Proper
  <1>2. /\ t \in Seq(Node) /\ h \in Range(q[c])
        /\ Range(t) = Range(q[c]) \ {h} /\ IsInjective(t)
    BY <1>1, FirstTaken
  <1>3. Change(p, q, c, r)
    BY DEF Change, Turn
  <1> HIDE DEF t, h
  <1>4. h \in Node
    BY <1>1, <1>2 DEF Range
  <1>5. /\ r \in Seq(Node) /\ r # <<>> /\ IsInjective(r)
        /\ Range(r) = Range(q[c])
    <2>1. /\ Append(t, h) \in Seq(Node) /\ Append(t, h) # <<>>
          /\ Range(Append(t, h)) = Range(t) \union {h}
          /\ IsInjective(Append(t, h))
      BY <1>2, <1>4, LastPut
    <2> QED  BY <1>2, <2>1
  <1> HIDE DEF r
  <1>6. \A m \in Range(r) : Channel(m) = c
    BY <1>1, <1>5
  <1>7. /\ Proper(p) /\ p[c] = r
        /\ \A d \in Channels : d # c => p[d] = q[d]
        /\ \A m : m \in Waiting(p) <=>
                \/ m \in Range(r)
                \/ m \in Waiting(q) /\ m \notin Range(q[c])
        /\ Range(q[c]) \subseteq Waiting(q)
    BY <1>3, <1>5, <1>6, QueueChange
  <1>8. \A d \in Channels : Range(p[d]) = Range(q[d]) /\ (q[d] = <<>> => p[d] = <<>>)
    BY <1>5, <1>7
  <1>9. \A m : m \in Waiting(p) <=> m \in Waiting(q)
    BY <1>5, <1>7
  <1>10. Waiting(p) = Waiting(q)
    BY <1>9
  <1> QED  BY <1>7, <1>8, <1>10

(* Steps that pass over the operations' entries.                            *)
LEMMA RecordedSame ==
    ASSUME coll' = coll
    PROVE  \A n : Recorded(n)' <=> Recorded(n)
  BY DEF Recorded

LEMMA ReplenishStep ==
    ASSUME IInv, Replenish
    PROVE  IInv'
  <1>1. /\ queued' = queued \union executableNodes /\ executableNodes' = {}
        /\ until' = {}
        /\ UNCHANGED <<dep_cnt, computing, markers, msgs, matching, nic, cpu, time,
                       finished, coll, network, counts, control>>
    BY DEF Replenish
  <1>2. Started' = Started /\ Done' = Done
    BY <1>1 DEF Started, Done
  <1>3. Pending' = Pending
    BY <1>1 DEF Pending, network
  <1>4. \A o \in Op : Came(o)' = Came(o)
    BY <1>2, SameCame
  <1>5. EachNodeOnce'
    <2> SUFFICES ASSUME NEW x \in Node
        PROVE  One(dep_cnt'[x] > 0) + One(x \in executableNodes')
          + One(x \in queued') + One(x \in computing')
          + One(Recorded(x)') + One(FlowOver(x) \in due' \union later')
          + One(x \in msgs') + One(x \in InRq') + One(x \in InUq')
          + markers'[x] + finished'[x] = 1
      BY DEF EachNodeOnce, FlowOver, InRq, InUq
    <2>1. One(x \in executableNodes) + One(x \in queued)
            = One(x \in executableNodes') + One(x \in queued')
      BY <1>1, OnePlace DEF One
    <2>2. One(dep_cnt[x] > 0) + One(x \in executableNodes)
          + One(x \in queued) + One(x \in computing)
          + One(Recorded(x)) + One(FlowOver(x) \in Pending)
          + One(x \in msgs) + One(x \in InRq) + One(x \in InUq)
          + markers[x] + finished[x] = 1
      BY DEF IInv, EachNodeOnce, Pending, InRq, InUq
    <2>3. markers[x] \in Nat /\ finished[x] \in Nat
      BY DEF IInv, TypeOK
    <2>4. (Recorded(x)' <=> Recorded(x)) /\ InRq' = InRq /\ InUq' = InUq
      BY <1>1, RecordedSame, QueuesSame DEF matching
    <2> QED  BY <1>1, <2>1, <2>2, <2>3, <2>4 DEF One, Pending, network
  <1>6. Phases' /\ EventsFit'
    BY <1>1, <1>3, <1>4, PhasesKept, EventsKept DEF network, IInv, EventsFit
  <1>7. TypeOK'
    BY <1>1 DEF IInv, TypeOK, network, counts, control, matching
  <1>8. PlacesFit' /\ DepsCounted' /\ PairsMeet'
    BY <1>1, <1>2, <1>3, PairsKept DEF IInv, PlacesFit, DepsCounted, matching, network,
                     FlowOver, CalcEnd, Pending
  <1>9. ControlFits' /\ ClocksFit'
    BY <1>1 DEF IInv, ControlFits, ClocksFit, network, control, NullEvent, Emission, Dispatching
  <1>10. CountersBalanced'
    <2>1. \A n \in Node : Recorded(n)' <=> Recorded(n)
      BY <1>1, RecordedSame
    <2> QED  BY <1>1, <2>1 DEF IInv, CountersBalanced, network, counts, FlowOver, CalcEnd, NullEvent
  <1> QED  BY <1>5, <1>6, <1>7, <1>8, <1>9, <1>10 DEF IInv

-----------------------------------------------------------------------------
(* Steps of the dispatch loop                                               *)

LEMMA QueuedOnly ==
    ASSUME IInv, NEW n \in queued
    PROVE  /\ n \in Node
           /\ n \notin computing /\ ~Recorded(n) /\ FlowOver(n) \notin Pending
           /\ n \notin msgs /\ n \notin InRq /\ n \notin InUq
           /\ markers[n] = 0 /\ finished[n] = 0
           /\ dep_cnt[n] = 0 /\ n \notin executableNodes /\ n \notin Started
  <1>1. n \in Node
    BY DEF IInv, TypeOK
  <1>2. /\ dep_cnt[n] \in Nat /\ markers[n] \in Nat /\ finished[n] \in Nat
    BY <1>1 DEF IInv, TypeOK
  <1>3. One(dep_cnt[n] > 0) + One(n \in executableNodes)
          + One(n \in queued) + One(n \in computing)
          + One(Recorded(n)) + One(FlowOver(n) \in Pending)
          + One(n \in msgs) + One(n \in InRq) + One(n \in InUq)
          + markers[n] + finished[n] = 1
    BY <1>1 DEF IInv, EachNodeOnce, Pending, InRq, InUq
  <1> QED  BY <1>1, <1>2, <1>3 DEF One, Started

LEMMA DispatchCalcStep ==
    ASSUME IInv, NEW n \in Node, DispatchCalc(n)
    PROVE  IInv'
  <1>1. /\ n \in queued /\ Task[n] = Calc /\ Dispatching
        /\ queued' = queued \ {n} /\ computing' = computing \union {n}
        /\ CountDown({n}, {}) /\ compute_started' = compute_started + 1
        /\ later' = later \union {CalcEnd(n)}
        /\ UNCHANGED <<markers, msgs, rq, uq, nic, cpu, time, until, coll, remaining, sent_once,
                   due, sends_active, have_more, simulating>>
    BY DEF DispatchCalc, Ready, matching, clocks, control
  <1>2. /\ dep_cnt' \in [Node -> Nat] /\ DepsCounted'
        /\ executableNodes' \subseteq Node /\ finished' \in [Node -> Nat]
        /\ Started' = Started \cup {n}
        /\ \A x \in Node : finished'[x] = finished[x] + One(x \in {})
    <2>1. {n} \in SUBSET queued /\ {} \in SUBSET Node /\ queued' = queued \ {n}
          /\ \A m \in {} : finished[m] = 0
      BY <1>1
    <2> QED  BY <1>1, <2>1, CountDownFacts
  <1>3. /\ n \notin computing /\ CalcEnd(n) \notin Pending
    BY <1>1, QueuedOnly DEF IInv, PlacesFit
  <1>4. /\ \A x : FlowOver(x) \in Pending' <=> FlowOver(x) \in Pending
        /\ \A o, h : LastPacket(o, h) \in Pending' <=> LastPacket(o, h) \in Pending
        /\ \A o, h : Emission(o, h) \in later' <=> Emission(o, h) \in later
        /\ \A h : NullEvent(h) \in later' <=> NullEvent(h) \in later
    BY <1>1, KindsApart DEF Pending
  <1>5. \A o \in Op : Came(o)' = Came(o)
    <2>1. \A m \in Node : Task[m] \in Op => (m \in Started' <=> m \in Started)
      BY <1>1, <1>2, TasksApart
    <2> QED  BY <2>1, CameSame
  <1>6. \A x \in Node : Recorded(x)' <=> Recorded(x)
    BY <1>1, RecordedSame
  <1>7. EachNodeOnce'
    <2>1. ASSUME NEW x \in Node
          PROVE  One(x \in {n})
               + One(x \in computing) + One(Recorded(x)) + One(FlowOver(x) \in Pending)
               + One(x \in msgs) + One(x \in InRq) + One(x \in InUq) + markers[x]
             = One(x \in computing') + One(Recorded(x)') + One(FlowOver(x) \in Pending')
                 + One(x \in msgs') + One(x \in InRq') + One(x \in InUq') + markers'[x]
                 + One(x \in {})
      <3>1. markers[x] \in Nat
        BY DEF IInv, TypeOK
      <3> QED  BY <1>1, <1>3, <1>4, <1>6, <3>1, QueuesSame DEF One
    <2>2. markers' \in [Node -> Nat] /\ \A m \in {} : finished[m] = 0
      BY <1>1 DEF IInv, TypeOK
    <2> QED  BY <1>1, <2>1, <2>2, PlacesAfter
  <1>8. Phases'
    BY <1>1, <1>4, <1>5, PhasesKept
  <1>9. EventsFit'
    <2>1. \A e \in due' \intersect later' : \E o \in Op : e = Stray(o)
      BY <1>1, <1>3 DEF IInv, EventsFit, Pending
    <2> QED  BY <1>1, <1>4, <1>5, <2>1, EventsKept DEF IInv, EventsFit
  <1>10. PlacesFit'
    BY <1>1, <1>4, EventsApart DEF IInv, PlacesFit, Pending, FlowOver, CalcEnd
  <1>11. PairsMeet'
    <2>1. \A x \in Node : finished'[x] = finished[x]
      BY <1>2 DEF One, IInv, TypeOK
    <2> QED  BY <1>1, <2>1, PairsKept
  <1>12. ControlFits' /\ ClocksFit'
    BY <1>1, <1>4 DEF IInv, ControlFits, ClocksFit, Dispatching, NullEvent, Emission
  <1>13. CountersBalanced' /\ sends_active' \in Nat /\ compute_started' \in Nat
    <2>1. Outstanding' = Outstanding
      BY <1>4, <1>6 DEF Outstanding, FlowOver
    <2>2. Timed' = Timed \cup {CalcEnd(n)} /\ CalcEnd(n) \notin Timed
      BY <1>1, <1>3 DEF Timed, TimedEvents, Pending, CalcEnd, NullEvent
    <2>3. Cardinality(Timed') = Cardinality(Timed) + 1
      BY <2>2, CountedFinite, FS_AddElement
    <2>4. sends_active = Cardinality(Outstanding) /\ compute_started = Cardinality(Timed)
      BY CountedFinite DEF IInv
    <2> QED  BY <1>1, <2>1, <2>3, <2>4, BalancedAfter
  <1>14. TypeOK'
    <2>1. later' \subseteq Event
      BY <1>1, EventsTyped DEF IInv, TypeOK
    <2> QED  BY <1>1, <1>2, <1>13, <2>1 DEF IInv, TypeOK
  <1> QED  BY <1>2, <1>7, <1>8, <1>9, <1>10, <1>11, <1>12, <1>13, <1>14 DEF IInv

(* Steps that touch neither the network nor the operations.                 *)
LEMMA NetworkIdle ==
    ASSUME IInv, \A o \in Op : Came(o)' = Came(o),
           \A h \in Member : nic[h] \subseteq nic'[h],
           UNCHANGED <<until, coll, remaining, sent_once, due, later,
                       sends_active, compute_started, have_more, simulating>>
    PROVE  /\ Phases' /\ EventsFit' /\ ControlFits' /\ CountersBalanced'
           /\ Pending' = Pending /\ \A x \in Node : Recorded(x)' <=> Recorded(x)
  <1>1. Pending' = Pending
    BY DEF Pending
  <1>2. \A x \in Node : Recorded(x)' <=> Recorded(x)
    BY RecordedSame
  <1>3. Phases' /\ EventsFit'
    BY <1>1, PhasesKept, EventsKept DEF IInv, EventsFit
  <1>4. ControlFits'
    <2>1. \A h \in Member : NullEvent(h) \in nic[h] => NullEvent(h) \in nic'[h]
      OBVIOUS
    <2> QED  BY <2>1 DEF IInv, ControlFits, NullEvent, Emission, Dispatching
  <1>5. CountersBalanced'
    BY <1>2 DEF IInv, CountersBalanced, FlowOver, CalcEnd, NullEvent
  <1> QED  BY <1>1, <1>2, <1>3, <1>4, <1>5

LEMMA ClocksIdle ==
    ASSUME IInv, UNCHANGED <<nic, cpu, time, later>>
    PROVE  ClocksFit' /\ \A h \in Member : nic[h] \subseteq nic'[h]
  BY DEF IInv, ClocksFit, NullEvent

(* Counting down when nothing is taken out of aq for the first time.        *)
LEMMA DoneFacts ==
    ASSUME IInv, NEW D \in SUBSET Node, CountDown({}, D), queued' = queued,
           \A n \in D : finished[n] = 0
    PROVE  /\ dep_cnt' \in [Node -> Nat] /\ DepsCounted'
           /\ executableNodes' \subseteq Node /\ finished' \in [Node -> Nat]
           /\ \A x \in Node : finished'[x] = finished[x] + One(x \in D)
           /\ \A o \in Op : Came(o)' = Came(o)
  <1>1. {} \in SUBSET queued /\ queued' = queued \ {}
    OBVIOUS
  <1>2. /\ dep_cnt' \in [Node -> Nat] /\ DepsCounted'
        /\ executableNodes' \subseteq Node /\ finished' \in [Node -> Nat]
        /\ Started' = Started \cup {}
        /\ \A x \in Node : finished'[x] = finished[x] + One(x \in D)
    BY <1>1, CountDownFacts
  <1>3. \A o \in Op : Came(o)' = Came(o)
    BY <1>2, SameCame
  <1> QED  BY <1>2, <1>3

LEMMA PlacesAfterDone ==
    ASSUME IInv, NEW D \in SUBSET Node, CountDown({}, D), queued' = queued,
           \A n \in D : finished[n] = 0, markers' \in [Node -> Nat],
           \A x \in Node :
             One(x \in computing) + One(Recorded(x)) + One(FlowOver(x) \in Pending)
               + One(x \in msgs) + One(x \in InRq) + One(x \in InUq) + markers[x]
             = One(x \in computing') + One(Recorded(x)') + One(FlowOver(x) \in Pending')
                 + One(x \in msgs') + One(x \in InRq') + One(x \in InUq') + markers'[x]
                 + One(x \in D)
    PROVE  EachNodeOnce'
  <1>1. {} \in SUBSET queued /\ queued' = queued \ {}
    OBVIOUS
  <1>2. ASSUME NEW x \in Node
        PROVE  One(x \in {})
               + One(x \in computing) + One(Recorded(x)) + One(FlowOver(x) \in Pending)
               + One(x \in msgs) + One(x \in InRq) + One(x \in InUq) + markers[x]
             = One(x \in computing') + One(Recorded(x)') + One(FlowOver(x) \in Pending')
                 + One(x \in msgs') + One(x \in InRq') + One(x \in InUq') + markers'[x]
                 + One(x \in D)
    <2>1. One(x \in {}) = 0 /\ markers[x] \in Nat
      BY DEF One, IInv, TypeOK
    <2>2. One(x \in computing) + One(Recorded(x)) + One(FlowOver(x) \in Pending)
               + One(x \in msgs) + One(x \in InRq) + One(x \in InUq) + markers[x]
             = One(x \in computing') + One(Recorded(x)') + One(FlowOver(x) \in Pending')
                 + One(x \in msgs') + One(x \in InRq') + One(x \in InUq') + markers'[x]
                 + One(x \in D)
      OBVIOUS
    <2> QED  BY <2>1, <2>2 DEF One
  <1> QED  BY <1>1, <1>2, PlacesAfter

LEMMA FinishCalcStep ==
    ASSUME IInv, NEW n \in Node, FinishCalc(n)
    PROVE  IInv'
  <1>1. /\ n \in computing /\ CalcEnd(n) \notin later /\ Dispatching
        /\ computing' = computing \ {n} /\ CountDown({}, {n})
        /\ UNCHANGED <<queued, markers, msgs, rq, uq, nic, cpu, time, until, coll, remaining,
                       sent_once, due, later, sends_active, compute_started,
                       have_more, simulating>>
    BY DEF FinishCalc, Computed, matching, clocks, network, counts, control
  <1>2. {n} \in SUBSET Node /\ \A m \in {n} : finished[m] = 0
    BY <1>1, OnePlace
  <1>3. /\ dep_cnt' \in [Node -> Nat] /\ DepsCounted'
        /\ executableNodes' \subseteq Node /\ finished' \in [Node -> Nat]
        /\ \A x \in Node : finished'[x] = finished[x] + One(x \in {n})
        /\ \A o \in Op : Came(o)' = Came(o)
    BY <1>1, <1>2, DoneFacts
  <1>4. /\ Phases' /\ EventsFit' /\ ControlFits' /\ CountersBalanced'
        /\ Pending' = Pending /\ \A x \in Node : Recorded(x)' <=> Recorded(x)
    BY <1>1, <1>3, ClocksIdle, NetworkIdle
  <1>5. CalcEnd(n) \notin Pending
    BY <1>1, KindsApart DEF IInv, ControlFits, Pending
  <1>6. EachNodeOnce'
    <2>1. ASSUME NEW x \in Node
          PROVE  One(x \in computing) + One(Recorded(x)) + One(FlowOver(x) \in Pending)
               + One(x \in msgs) + One(x \in InRq) + One(x \in InUq) + markers[x]
             = One(x \in computing') + One(Recorded(x)') + One(FlowOver(x) \in Pending')
                 + One(x \in msgs') + One(x \in InRq') + One(x \in InUq') + markers'[x]
                 + One(x \in {n})
      <3>1. markers[x] \in Nat
        BY DEF IInv, TypeOK
      <3> QED  BY <1>1, <1>4, <3>1, QueuesSame DEF One
    <2>2. markers' \in [Node -> Nat]
      BY <1>1 DEF IInv, TypeOK
    <2> QED  BY <1>1, <1>2, <2>1, <2>2, PlacesAfterDone
  <1>7. PlacesFit'
    BY <1>1, <1>4, <1>5, EventsApart DEF IInv, PlacesFit, FlowOver, CalcEnd
  <1>8. PairsMeet'
    <2>1. Task[n] = Calc
      BY <1>1 DEF IInv, PlacesFit
    <2>2. ASSUME NEW x \in Node, Task[x] = Send \/ Task[x] = Recv
          PROVE  finished'[x] = finished[x]
      <3>1. x # n
        BY <2>1, <2>2, TasksApart
      <3>2. finished'[x] = finished[x] + One(x \in {n}) /\ finished[x] \in Nat
        BY <1>3 DEF IInv, TypeOK
      <3> QED  BY <3>1, <3>2 DEF One
    <2> QED  BY <1>1, <2>2, PairsKept
  <1>9. ClocksFit'
    BY <1>1, ClocksIdle
  <1>10. TypeOK'
    BY <1>1, <1>3 DEF IInv, TypeOK
  <1> QED  BY <1>3, <1>4, <1>6, <1>7, <1>8, <1>9, <1>10 DEF IInv

LEMMA CollDoneStep ==
    ASSUME IInv, NEW n \in Node, HandleCollDone(n)
    PROVE  IInv'
  <1>1. /\ markers[n] > 0 /\ markers' = [markers EXCEPT ![n] = @ - 1]
        /\ CountDown({}, {n})
        /\ UNCHANGED <<queued, computing, msgs, rq, uq, nic, cpu, time, until, coll, remaining,
                       sent_once, due, later, sends_active, compute_started,
                       have_more, simulating>>
    BY DEF HandleCollDone, matching, clocks, network, counts, control
  <1>2. {n} \in SUBSET Node /\ \A m \in {n} : finished[m] = 0
    BY <1>1, OnePlace
  <1>3. /\ dep_cnt' \in [Node -> Nat] /\ DepsCounted'
        /\ executableNodes' \subseteq Node /\ finished' \in [Node -> Nat]
        /\ \A x \in Node : finished'[x] = finished[x] + One(x \in {n})
        /\ \A o \in Op : Came(o)' = Came(o)
    BY <1>1, <1>2, DoneFacts
  <1>4. /\ Phases' /\ EventsFit' /\ ControlFits' /\ CountersBalanced'
        /\ Pending' = Pending /\ \A x \in Node : Recorded(x)' <=> Recorded(x)
    BY <1>1, <1>3, ClocksIdle, NetworkIdle
  <1>5. /\ markers' \in [Node -> Nat]
        /\ \A x \in Node : markers'[x] = markers[x] - One(x \in {n})
    BY <1>1 DEF IInv, TypeOK, One
  <1>6. EachNodeOnce'
    <2>1. ASSUME NEW x \in Node
          PROVE  One(x \in computing) + One(Recorded(x)) + One(FlowOver(x) \in Pending)
               + One(x \in msgs) + One(x \in InRq) + One(x \in InUq) + markers[x]
             = One(x \in computing') + One(Recorded(x)') + One(FlowOver(x) \in Pending')
                 + One(x \in msgs') + One(x \in InRq') + One(x \in InUq') + markers'[x]
                 + One(x \in {n})
      <3>1. markers[x] \in Nat
        BY DEF IInv, TypeOK
      <3> QED  BY <1>1, <1>4, <1>5, <3>1, QueuesSame DEF One
    <2> QED  BY <1>1, <1>2, <1>5, <2>1, PlacesAfterDone
  <1>7. PlacesFit'
    BY <1>1, <1>4, <1>5 DEF IInv, PlacesFit, FlowOver, CalcEnd, One, TypeOK
  <1>8. PairsMeet'
    <2>1. Task[n] \in Op
      BY <1>1 DEF IInv, PlacesFit
    <2>2. ASSUME NEW x \in Node, Task[x] = Send \/ Task[x] = Recv
          PROVE  finished'[x] = finished[x]
      <3>1. x # n
        BY <2>1, <2>2, TasksApart
      <3>2. finished'[x] = finished[x] + One(x \in {n}) /\ finished[x] \in Nat
        BY <1>3 DEF IInv, TypeOK
      <3> QED  BY <3>1, <3>2 DEF One
    <2> QED  BY <1>1, <2>2, PairsKept
  <1>9. ClocksFit'
    BY <1>1, ClocksIdle
  <1>10. TypeOK'
    BY <1>1, <1>3, <1>5 DEF IInv, TypeOK
  <1> QED  BY <1>3, <1>4, <1>6, <1>7, <1>8, <1>9, <1>10 DEF IInv

LEMMA DispatchSendStep ==
    ASSUME IInv, NEW n \in Node, DispatchSend(n)
    PROVE  IInv'
  <1>1. /\ n \in queued /\ Task[n] = Send /\ Dispatching /\ nic[Rank[n]] = {}
        /\ queued' = queued \ {n} /\ CountDown({n}, {})
        /\ nic' = [nic EXCEPT ![Rank[n]] = {NullEvent(Rank[n])}]
        /\ until' = {Rank[n]}
        /\ sends_active' = sends_active + 1
        /\ later' = later \union {FlowOver(n)}
        /\ UNCHANGED <<computing, markers, msgs, rq, uq, cpu, time, coll, remaining,
                   sent_once, due, compute_started, have_more, simulating>>
    <2>1. n \in queued /\ Task[n] = Send /\ Obstacles(n) = {} /\ n \notin msgs
      BY QueuedOnly DEF DispatchSend, Ready
    <2>2. nic[Rank[n]] = {}
      BY <2>1, TasksApart DEF Obstacles
    <2> QED  BY <2>2 DEF DispatchSend, Ready, matching, control
  <1>2. /\ dep_cnt' \in [Node -> Nat] /\ DepsCounted'
        /\ executableNodes' \subseteq Node /\ finished' \in [Node -> Nat]
        /\ Started' = Started \cup {n}
        /\ \A x \in Node : finished'[x] = finished[x] + One(x \in {})
    <2>1. {n} \in SUBSET queued /\ {} \in SUBSET Node /\ queued' = queued \ {n}
          /\ \A m \in {} : finished[m] = 0
      BY <1>1
    <2> QED  BY <1>1, <2>1, CountDownFacts
  <1>3. n \notin computing /\ FlowOver(n) \notin Pending /\ ~Recorded(n)
    BY <1>1, QueuedOnly
  <1>4. /\ \A x : FlowOver(x) \in Pending' <=> FlowOver(x) \in Pending \/ x = n
        /\ \A x : CalcEnd(x) \in Pending' <=> CalcEnd(x) \in Pending
        /\ \A o, h : LastPacket(o, h) \in Pending' <=> LastPacket(o, h) \in Pending
        /\ \A o, h : Emission(o, h) \in later' <=> Emission(o, h) \in later
        /\ \A h : NullEvent(h) \in later' <=> NullEvent(h) \in later
    BY <1>1, KindsApart, EventsApart DEF Pending
  <1>5. \A o \in Op : Came(o)' = Came(o)
    <2>1. \A m \in Node : Task[m] \in Op => (m \in Started' <=> m \in Started)
      BY <1>1, <1>2, TasksApart
    <2> QED  BY <2>1, CameSame
  <1>6. \A x \in Node : Recorded(x)' <=> Recorded(x)
    BY <1>1, RecordedSame
  <1>7. EachNodeOnce'
    <2>1. ASSUME NEW x \in Node
          PROVE  One(x \in {n})
               + One(x \in computing) + One(Recorded(x)) + One(FlowOver(x) \in Pending)
               + One(x \in msgs) + One(x \in InRq) + One(x \in InUq) + markers[x]
             = One(x \in computing') + One(Recorded(x)') + One(FlowOver(x) \in Pending')
                 + One(x \in msgs') + One(x \in InRq') + One(x \in InUq') + markers'[x]
                 + One(x \in {})
      <3>1. markers[x] \in Nat
        BY DEF IInv, TypeOK
      <3> QED  BY <1>1, <1>3, <1>4, <1>6, <3>1, QueuesSame DEF One
    <2>2. markers' \in [Node -> Nat] /\ \A m \in {} : finished[m] = 0
      BY <1>1 DEF IInv, TypeOK
    <2> QED  BY <1>1, <2>1, <2>2, PlacesAfter
  <1>8. Phases'
    BY <1>1, <1>4, <1>5, PhasesKept
  <1>9. EventsFit'
    <2>1. \A e \in due' \intersect later' : \E o \in Op : e = Stray(o)
      BY <1>1, <1>3 DEF IInv, EventsFit, Pending
    <2> QED  BY <1>1, <1>4, <1>5, <2>1, EventsKept DEF IInv, EventsFit
  <1>10. PlacesFit'
    BY <1>1, <1>4 DEF IInv, PlacesFit, FlowOver, CalcEnd
  <1>11. PairsMeet'
    <2>1. \A x \in Node : finished'[x] = finished[x]
      BY <1>2 DEF One, IInv, TypeOK
    <2> QED  BY <1>1, <2>1, PairsKept
  <1>12. ControlFits' /\ ClocksFit'
    <2>1. /\ Rank[n] \in Member /\ NullEvent(Rank[n]) \notin later
          /\ nic'[Rank[n]] = {NullEvent(Rank[n])}
          /\ \A h \in Member : h # Rank[n] => nic'[h] = nic[h]
      BY <1>1, TasksApart DEF IInv, ClocksFit, TypeOK
    <2>2. ASSUME NEW h \in Member,
                 \/ NullEvent(h) \in later'
                 \/ \E k \in Member : NullEvent(h) \in nic'[k] \union cpu'[k]
                 \/ \E m \in Node : NullEvent(h) \in time'[m]
          PROVE  NullEvent(h) \in nic'[h]
      <3>1. CASE h = Rank[n]
        BY <2>1, <3>1
      <3>2. CASE h # Rank[n]
        <4>1. NullEvent(h) # NullEvent(Rank[n])
          BY <3>2, EventsApart
        <4>2. NullEvent(h) \in nic[h]
          BY <1>1, <1>4, <2>1, <2>2, <4>1 DEF IInv, ClocksFit
        <4> QED  BY <2>1, <3>2, <4>2
      <3> QED  BY <3>1, <3>2
    <2>3. ClocksFit'
      BY <2>2 DEF ClocksFit, NullEvent
    <2>4. /\ Dispatching' /\ until' = {Rank[n]} /\ NullEvent(Rank[n]) \in nic'[Rank[n]]
          /\ NullEvent(Rank[n]) \notin later' /\ simulating' = simulating
          /\ have_more' = have_more /\ due' = due /\ Dispatching
      BY <1>1, <1>4, <2>1 DEF Dispatching
    <2> QED  BY <2>1, <2>3, <2>4 DEF IInv, ControlFits, NullEvent, Emission
  <1>13. CountersBalanced' /\ sends_active' \in Nat /\ compute_started' \in Nat
    <2>1. Outstanding' = Outstanding \cup {n} /\ n \notin Outstanding
      BY <1>3, <1>4, <1>6 DEF Outstanding, FlowOver
    <2>2. Timed' = Timed
      BY <1>1, KindsApart DEF Timed, TimedEvents, Pending, CalcEnd, NullEvent, FlowOver
    <2>3. Cardinality(Outstanding') = Cardinality(Outstanding) + 1
      BY <2>1, CountedFinite, FS_AddElement
    <2>4. sends_active = Cardinality(Outstanding) /\ compute_started = Cardinality(Timed)
      BY CountedFinite DEF IInv
    <2> QED  BY <1>1, <2>2, <2>3, <2>4, BalancedAfter
  <1>14. TypeOK'
    <2>1. later' \subseteq Event
      BY <1>1, EventsTyped DEF IInv, TypeOK
    <2>2. Rank[n] \in Member
      BY TasksApart
    <2> QED  BY <1>1, <1>2, <1>13, <2>1, <2>2 DEF IInv, TypeOK
  <1> QED  BY <1>2, <1>7, <1>8, <1>9, <1>10, <1>11, <1>12, <1>13, <1>14 DEF IInv

(* When a message and a receive meet one more of either is done.            *)
LEMMA MeetCounts ==
    ASSUME IInv, NEW c \in Channels, NEW s \in Sends(c), NEW r \in Recvs(c),
           finished[s] = 0, finished[r] = 0,
           \A x \in Node : finished'[x] = finished[x] + One(x \in {s, r})
    PROVE  \A d \in Channels :
             Cardinality(DoneOf(Sends(d))') = Cardinality(DoneOf(Recvs(d))')
  <1> SUFFICES ASSUME NEW d \in Channels
               PROVE  Cardinality(DoneOf(Sends(d))') = Cardinality(DoneOf(Recvs(d))')
    OBVIOUS
  <1>1. \A x \in Node : finished[x] \in Nat
    BY DEF IInv, TypeOK
  <1>2. s \in Node /\ r \in Node /\ s # r /\ Task[s] = Send /\ Task[r] = Recv
    BY OwnChannel, TasksApart
  <1>3. Cardinality(DoneOf(Sends(d))) = Cardinality(DoneOf(Recvs(d)))
    BY DEF IInv, PairsMeet
  <1>4. IsFiniteSet(DoneOf(Sends(d))) /\ IsFiniteSet(DoneOf(Recvs(d)))
    BY ScheduleAssumption, FS_Subset DEF DoneOf, Sends, Recvs
  <1>5. \A x \in Node : finished'[x] > 0 <=> finished[x] > 0 \/ x = s \/ x = r
    BY <1>1, <1>2 DEF One
  <1>6. CASE d # c
    <2>1. s \notin Sends(d) /\ r \notin Recvs(d) /\ s \notin Recvs(d) /\ r \notin Sends(d)
      BY <1>6, OwnChannel
    <2>2. DoneOf(Sends(d))' = DoneOf(Sends(d)) /\ DoneOf(Recvs(d))' = DoneOf(Recvs(d))
      BY <1>5, <2>1, OwnChannel DEF DoneOf
    <2> QED  BY <1>3, <2>2
  <1>7. CASE d = c
    <2>1. r \notin Sends(d) /\ s \notin Recvs(d)
      BY <1>2, OwnChannel, TasksApart
    <2>2. /\ DoneOf(Sends(d))' = DoneOf(Sends(d)) \union {s}
          /\ DoneOf(Recvs(d))' = DoneOf(Recvs(d)) \union {r}
          /\ s \notin DoneOf(Sends(d)) /\ r \notin DoneOf(Recvs(d))
      BY <1>5, <1>7, <2>1, OwnChannel DEF DoneOf
    <2>3. /\ Cardinality(DoneOf(Sends(d)) \union {s}) = Cardinality(DoneOf(Sends(d))) + 1
          /\ Cardinality(DoneOf(Recvs(d)) \union {r}) = Cardinality(DoneOf(Recvs(d))) + 1
      BY <1>4, <2>2, FS_AddElement
    <2> QED  BY <1>3, <2>2, <2>3
  <1> QED  BY <1>6, <1>7

LEMMA CountsKept ==
    ASSUME IInv, \A n \in Node : finished'[n] = finished[n]
    PROVE  \A d \in Channels :
             Cardinality(DoneOf(Sends(d))') = Cardinality(DoneOf(Recvs(d))')
  <1>1. ASSUME NEW d \in Channels
        PROVE  DoneOf(Sends(d))' = DoneOf(Sends(d)) /\ DoneOf(Recvs(d))' = DoneOf(Recvs(d))
    BY OwnChannel DEF DoneOf
  <1> QED  BY <1>1 DEF IInv, PairsMeet

(* What is left to show of the queues when one of them has changed.         *)
LEMMA QueuesChanged ==
    ASSUME Proper(rq'), Proper(uq'),
           \A d \in Channels : /\ Range(rq'[d]) \subseteq Recvs(d)
                               /\ Range(uq'[d]) \subseteq Sends(d)
                               /\ rq'[d] = <<>> \/ uq'[d] = <<>>
                               /\ Cardinality(DoneOf(Sends(d))') = Cardinality(DoneOf(Recvs(d))')
    PROVE  /\ PairsMeet'
           /\ rq' \in [Channels -> Seq(Node)] /\ uq' \in [Channels -> Seq(Node)]
           /\ \A c \in Channels :
                /\ \A i \in DOMAIN rq'[c] : rq'[c][i] \in Recvs(c)
                /\ \A i \in DOMAIN uq'[c] : uq'[c][i] \in Sends(c)
           /\ InRq' = Waiting(rq') /\ InUq' = Waiting(uq')
  <1>1. rq' \in [Channels -> Seq(Node)] /\ uq' \in [Channels -> Seq(Node)]
        /\ \A d \in Channels : IsInjective(rq'[d]) /\ IsInjective(uq'[d])
    BY DEF Proper
  <1>2. PairsMeet'
    BY <1>1 DEF PairsMeet, IsInjective
  <1>3. \A c \in Channels :
                /\ \A i \in DOMAIN rq'[c] : rq'[c][i] \in Recvs(c)
                /\ \A i \in DOMAIN uq'[c] : uq'[c][i] \in Sends(c)
    BY DEF Range
  <1>4. InRq' = Waiting(rq') /\ InUq' = Waiting(uq')
    BY DEF InRq, InUq, Waiting
  <1> QED  BY <1>1, <1>2, <1>3, <1>4

(* A receive hands on times of which the owners are busy.                   *)
LEMMA TimesHandedOn ==
    ASSUME IInv, NEW h \in Member, NEW k \in Member,
           nic' = [nic EXCEPT ![k] = @ \union nic[h]],
           cpu' = [cpu EXCEPT ![k] = @ \union nic[h]],
           UNCHANGED <<time, later>>
    PROVE  /\ ClocksFit' /\ \A i \in Member : nic[i] \subseteq nic'[i]
           /\ {nic', cpu'} \subseteq [Member -> SUBSET {NullEvent(i) : i \in Member}]
  <1>1. /\ nic \in [Member -> SUBSET {NullEvent(i) : i \in Member}]
        /\ cpu \in [Member -> SUBSET {NullEvent(i) : i \in Member}]
    BY DEF IInv, TypeOK
  <1>2. /\ \A i \in Member : nic[i] \subseteq nic'[i]
        /\ \A i \in Member : \A e \in nic'[i] \union cpu'[i] :
              e \in nic[i] \union cpu[i] \/ e \in nic[h]
    BY <1>1
  <1>3. nic' \in [Member -> SUBSET {NullEvent(i) : i \in Member}]
        /\ cpu' \in [Member -> SUBSET {NullEvent(i) : i \in Member}]
    BY <1>1
  <1>4. ASSUME NEW i \in Member,
               \/ NullEvent(i) \in later'
               \/ \E m \in Member : NullEvent(i) \in nic'[m] \union cpu'[m]
               \/ \E m \in Node : NullEvent(i) \in time'[m]
        PROVE  NullEvent(i) \in nic'[i]
    <2>1. NullEvent(i) \in nic[i]
      BY <1>2, <1>4 DEF IInv, ClocksFit
    <2> QED  BY <1>2, <2>1
  <1>5. ClocksFit'
    BY <1>4 DEF ClocksFit, NullEvent
  <1> QED  BY <1>2, <1>3, <1>5

LEMMA DispatchRecvStep ==
    ASSUME IInv, NEW n \in Node, DispatchRecv(n)
    PROVE  IInv'
  <1> DEFINE c == Channel(n)
             s == Head(uq[c])
  <1>1. /\ n \in queued /\ Task[n] = Recv /\ queued' = queued \ {n}
        /\ \/ /\ uq[c] = <<>> /\ CountDown({n}, {})
              /\ rq' = [rq EXCEPT ![c] = Append(@, n)]
              /\ UNCHANGED <<uq, nic, cpu>>
           \/ /\ uq[c] # <<>> /\ CountDown({n}, {n, s})
              /\ uq' = [uq EXCEPT ![c] = Tail(@)] /\ rq' = rq
              /\ nic' = [nic EXCEPT ![Peer[n]] = @ \union nic[Rank[n]]]
              /\ cpu' = [cpu EXCEPT ![Peer[n]] = @ \union nic[Rank[n]]]
        /\ UNCHANGED <<computing, markers, msgs, time, until, coll, remaining,
                       sent_once, due, later, sends_active, compute_started,
                       have_more, simulating>>
    BY DEF DispatchRecv, network, counts, control
  <1>2. /\ n \notin computing /\ FlowOver(n) \notin Pending /\ ~Recorded(n)
        /\ n \notin msgs /\ n \notin InRq /\ n \notin InUq /\ finished[n] = 0
    BY <1>1, QueuedOnly
  <1>3. \A x \in Node : markers[x] \in Nat /\ finished[x] \in Nat
    BY DEF IInv, TypeOK
  <1>4. /\ c \in Channels /\ n \in Recvs(c) /\ Rank[n] \in Member /\ Peer[n] \in Member
        /\ Proper(rq) /\ Proper(uq)
        /\ \A d \in Channels : /\ Range(rq[d]) \subseteq Recvs(d)
                               /\ Range(uq[d]) \subseteq Sends(d)
                               /\ rq[d] = <<>> \/ uq[d] = <<>>
        /\ InRq = Waiting(rq) /\ InUq = Waiting(uq)
    <2>1. Peer[n] \in Member
      BY <1>1, ScheduleAssumption
    <2> QED  BY <1>1, <2>1, OwnChannel, QueuesTyped, QueuesProper, TasksApart
          DEF IInv, PairsMeet, InRq, InUq
  <1>5. markers' \in [Node -> Nat] /\ {n} \in SUBSET queued
    BY <1>1 DEF IInv, TypeOK
  <1> HIDE DEF c, s
  <1>6. ASSUME NEW D \in SUBSET Node, CountDown({n}, D),
               \A m \in D : finished[m] = 0,
               \A h \in Member : nic[h] \subseteq nic'[h]
        PROVE  /\ dep_cnt' \in [Node -> Nat] /\ DepsCounted'
               /\ executableNodes' \subseteq Node /\ finished' \in [Node -> Nat]
               /\ \A x \in Node : finished'[x] = finished[x] + One(x \in D)
               /\ Phases' /\ EventsFit' /\ ControlFits' /\ CountersBalanced' /\ PlacesFit'
               /\ \A x \in Node : /\ FlowOver(x) \in Pending' <=> FlowOver(x) \in Pending
                                  /\ Recorded(x)' <=> Recorded(x)
    <2>1. /\ dep_cnt' \in [Node -> Nat] /\ DepsCounted'
          /\ executableNodes' \subseteq Node /\ finished' \in [Node -> Nat]
          /\ Started' = Started \cup {n}
          /\ \A x \in Node : finished'[x] = finished[x] + One(x \in D)
      BY <1>1, <1>5, <1>6, CountDownFacts
    <2>2. \A o \in Op : Came(o)' = Came(o)
      <3>1. \A m \in Node : Task[m] \in Op => (m \in Started' <=> m \in Started)
        BY <1>1, <2>1, TasksApart
      <3> QED  BY <3>1, CameSame
    <2>3. /\ Phases' /\ EventsFit' /\ ControlFits' /\ CountersBalanced'
          /\ Pending' = Pending /\ \A x \in Node : Recorded(x)' <=> Recorded(x)
      BY <1>1, <1>6, <2>2, NetworkIdle
    <2>4. PlacesFit'
      BY <1>1, <2>3 DEF IInv, PlacesFit, FlowOver, CalcEnd
    <2> QED  BY <2>1, <2>3, <2>4
  <1>7. CASE uq[c] = <<>>
    <2>1. /\ CountDown({n}, {}) /\ rq' = [rq EXCEPT ![c] = Append(@, n)] /\ uq' = uq
          /\ nic' = nic /\ cpu' = cpu
      BY <1>1, <1>7
    <2>2. {} \in SUBSET Node /\ \A m \in {} : finished[m] = 0
      OBVIOUS
    <2>3. ClocksFit' /\ \A h \in Member : nic[h] \subseteq nic'[h]
      BY <1>1, <2>1, ClocksIdle
    <2>4. /\ dep_cnt' \in [Node -> Nat] /\ DepsCounted'
          /\ executableNodes' \subseteq Node /\ finished' \in [Node -> Nat]
          /\ \A x \in Node : finished'[x] = finished[x] + One(x \in {})
          /\ Phases' /\ EventsFit' /\ ControlFits' /\ CountersBalanced' /\ PlacesFit'
          /\ \A x \in Node : /\ FlowOver(x) \in Pending' <=> FlowOver(x) \in Pending
                             /\ Recorded(x)' <=> Recorded(x)
      BY <1>6, <2>1, <2>2, <2>3
    <2>5. \A d \in Channels :
            Cardinality(DoneOf(Sends(d))') = Cardinality(DoneOf(Recvs(d))')
      <3>1. \A x \in Node : finished'[x] = finished[x]
        BY <1>3, <2>4 DEF One
      <3> QED  BY <3>1, CountsKept
    <2>6. /\ Proper(rq') /\ Waiting(rq') = Waiting(rq) \union {n}
          /\ \A d \in Channels : d # c => rq'[d] = rq[d]
          /\ Range(rq'[c]) = Range(rq[c]) \union {n}
      <3>1. Put(rq', rq, n)
        BY <2>1 DEF Put, c
      <3> QED  BY <1>2, <1>4, <3>1, QueuePut DEF c
    <2>7. /\ PairsMeet' /\ rq' \in [Channels -> Seq(Node)] /\ uq' \in [Channels -> Seq(Node)]
          /\ \A d \in Channels :
                /\ \A i \in DOMAIN rq'[d] : rq'[d][i] \in Recvs(d)
                /\ \A i \in DOMAIN uq'[d] : uq'[d][i] \in Sends(d)
          /\ InRq' = Waiting(rq') /\ InUq' = Waiting(uq')
      BY <1>4, <1>7, <2>1, <2>5, <2>6, QueuesChanged
    <2>8. EachNodeOnce'
      <3>1. InRq' = InRq \union {n} /\ InUq' = InUq
        BY <1>4, <2>1, <2>6, <2>7
      <3>2. ASSUME NEW x \in Node
            PROVE  One(x \in {n})
               + One(x \in computing) + One(Recorded(x)) + One(FlowOver(x) \in Pending)
               + One(x \in msgs) + One(x \in InRq) + One(x \in InUq) + markers[x]
             = One(x \in computing') + One(Recorded(x)') + One(FlowOver(x) \in Pending')
                 + One(x \in msgs') + One(x \in InRq') + One(x \in InUq') + markers'[x]
                 + One(x \in {})
        BY <1>1, <1>2, <1>3, <2>4, <3>1 DEF One
      <3> QED  BY <1>1, <1>5, <2>1, <2>2, <3>2, PlacesAfter
    <2>9. TypeOK'
      BY <1>1, <2>1, <2>4, <2>7 DEF IInv, TypeOK
    <2> QED  BY <2>3, <2>4, <2>7, <2>8, <2>9 DEF IInv
  <1>8. CASE uq[c] # <<>>
    <2>1. /\ CountDown({n}, {n, s}) /\ uq' = [uq EXCEPT ![c] = Tail(@)] /\ rq' = rq
          /\ nic' = [nic EXCEPT ![Peer[n]] = @ \union nic[Rank[n]]]
          /\ cpu' = [cpu EXCEPT ![Peer[n]] = @ \union nic[Rank[n]]]
      BY <1>1, <1>8
    <2>2. /\ Proper(uq') /\ Waiting(uq') = Waiting(uq) \ {s}
          /\ \A d \in Channels : d # c => uq'[d] = uq[d]
          /\ Range(uq'[c]) \subseteq Range(uq[c])
          /\ s \in Range(uq[c]) /\ s \in Waiting(uq)
      <3>1. Take(uq', uq, c)
        BY <2>1 DEF Take
      <3> QED  BY <1>4, <1>8, <3>1, QueueTake DEF s
    <2>3. s \in Sends(c) /\ s \in Node /\ s # n /\ finished[s] = 0 /\ s \in InUq
      <3>1. s \in Sends(c) /\ s \in Node /\ s \in InUq
        BY <1>4, <2>2, OwnChannel
      <3> QED  BY <1>2, <3>1, OnePlace
    <2>4. {n, s} \in SUBSET Node /\ \A m \in {n, s} : finished[m] = 0
      BY <1>2, <2>3
    <2>5. /\ ClocksFit' /\ \A h \in Member : nic[h] \subseteq nic'[h]
          /\ {nic', cpu'} \subseteq [Member -> SUBSET {NullEvent(h) : h \in Member}]
      BY <1>1, <1>4, <2>1, TimesHandedOn
    <2>6. /\ dep_cnt' \in [Node -> Nat] /\ DepsCounted'
          /\ executableNodes' \subseteq Node /\ finished' \in [Node -> Nat]
          /\ \A x \in Node : finished'[x] = finished[x] + One(x \in {n, s})
          /\ Phases' /\ EventsFit' /\ ControlFits' /\ CountersBalanced' /\ PlacesFit'
          /\ \A x \in Node : /\ FlowOver(x) \in Pending' <=> FlowOver(x) \in Pending
                             /\ Recorded(x)' <=> Recorded(x)
      BY <1>6, <2>1, <2>4, <2>5
    <2>7. \A d \in Channels :
            Cardinality(DoneOf(Sends(d))') = Cardinality(DoneOf(Recvs(d))')
      <3>1. \A x \in Node : finished'[x] = finished[x] + One(x \in {s, n})
        <4>1. {s, n} = {n, s}
          OBVIOUS
        <4> QED  BY <2>6, <4>1
      <3> QED  BY <1>2, <1>4, <2>3, <3>1, MeetCounts
    <2>8. /\ PairsMeet' /\ rq' \in [Channels -> Seq(Node)] /\ uq' \in [Channels -> Seq(Node)]
          /\ \A d \in Channels :
                /\ \A i \in DOMAIN rq'[d] : rq'[d][i] \in Recvs(d)
                /\ \A i \in DOMAIN uq'[d] : uq'[d][i] \in Sends(d)
          /\ InRq' = Waiting(rq') /\ InUq' = Waiting(uq')
      <3>1. \A d \in Channels : /\ Range(rq'[d]) \subseteq Recvs(d)
                                /\ Range(uq'[d]) \subseteq Sends(d)
                                /\ rq'[d] = <<>> \/ uq'[d] = <<>>
        BY <1>4, <1>8, <2>1, <2>2
      <3> QED  BY <1>4, <2>1, <2>2, <2>7, <3>1, QueuesChanged
    <2>9. EachNodeOnce'
      <3>1. InRq' = InRq /\ InUq' = InUq \ {s}
        BY <1>4, <2>1, <2>2, <2>8
      <3>2. ASSUME NEW x \in Node
            PROVE  One(x \in {n})
               + One(x \in computing) + One(Recorded(x)) + One(FlowOver(x) \in Pending)
               + One(x \in msgs) + One(x \in InRq) + One(x \in InUq) + markers[x]
             = One(x \in computing') + One(Recorded(x)') + One(FlowOver(x) \in Pending')
                 + One(x \in msgs') + One(x \in InRq') + One(x \in InUq') + markers'[x]
                 + One(x \in {n, s})
        BY <1>1, <1>3, <2>3, <2>6, <3>1 DEF One
      <3> QED  BY <1>1, <1>5, <2>1, <2>4, <3>2, PlacesAfter
    <2>10. TypeOK'
      BY <1>1, <2>5, <2>6, <2>8 DEF IInv, TypeOK, NullEvent
    <2> QED  BY <2>5, <2>6, <2>8, <2>9, <2>10 DEF IInv
  <1> QED  BY <1>7, <1>8

LEMMA DispatchMsgStep ==
    ASSUME IInv, NEW n \in Node, DispatchMsg(n)
    PROVE  IInv'
  <1> DEFINE c == Channel(n)
             r == Head(rq[c])
  <1>1. /\ n \in msgs /\ msgs' = msgs \ {n}
        /\ \/ /\ rq[c] = <<>> /\ CountDown({}, {})
              /\ uq' = [uq EXCEPT ![c] = Append(@, n)] /\ rq' = rq
           \/ /\ rq[c] # <<>> /\ CountDown({}, {n, r})
              /\ rq' = [rq EXCEPT ![c] = Tail(@)] /\ uq' = uq
        /\ UNCHANGED <<queued, computing, markers, nic, cpu, time, until, coll,
                       remaining, sent_once, due, later, sends_active,
                       compute_started, have_more, simulating>>
    BY DEF DispatchMsg, clocks, network, counts, control
  <1>2. \A x \in Node : markers[x] \in Nat /\ finished[x] \in Nat
    BY DEF IInv, TypeOK
  <1>3. n \notin InUq /\ n \notin InRq /\ finished[n] = 0
    <2>1. One(dep_cnt[n] > 0) + One(n \in executableNodes)
          + One(n \in queued) + One(n \in computing)
          + One(Recorded(n)) + One(FlowOver(n) \in due \union later)
          + One(n \in msgs) + One(n \in InRq) + One(n \in InUq)
          + markers[n] + finished[n] = 1
      BY DEF IInv, EachNodeOnce, InRq, InUq
    <2> QED  BY <1>1, <1>2, <2>1 DEF One
  <1>4. /\ c \in Channels /\ n \in Sends(c)
        /\ Proper(rq) /\ Proper(uq)
        /\ \A d \in Channels : /\ Range(rq[d]) \subseteq Recvs(d)
                               /\ Range(uq[d]) \subseteq Sends(d)
                               /\ rq[d] = <<>> \/ uq[d] = <<>>
        /\ InRq = Waiting(rq) /\ InUq = Waiting(uq)
    <2>1. Task[n] = Send
      BY <1>1 DEF IInv, TypeOK
    <2> QED  BY <2>1, OwnChannel, QueuesTyped, QueuesProper DEF IInv, PairsMeet, InRq, InUq
  <1>5. markers' \in [Node -> Nat]
    BY <1>1 DEF IInv, TypeOK
  <1>6. ClocksFit' /\ \A h \in Member : nic[h] \subseteq nic'[h]
    BY <1>1, ClocksIdle
  <1> HIDE DEF c, r
  <1>7. ASSUME NEW D \in SUBSET Node, CountDown({}, D), \A m \in D : finished[m] = 0
        PROVE  /\ dep_cnt' \in [Node -> Nat] /\ DepsCounted'
               /\ executableNodes' \subseteq Node /\ finished' \in [Node -> Nat]
               /\ \A x \in Node : finished'[x] = finished[x] + One(x \in D)
               /\ Phases' /\ EventsFit' /\ ControlFits' /\ CountersBalanced' /\ PlacesFit'
               /\ \A x \in Node : /\ FlowOver(x) \in Pending' <=> FlowOver(x) \in Pending
                                  /\ Recorded(x)' <=> Recorded(x)
    <2>1. /\ dep_cnt' \in [Node -> Nat] /\ DepsCounted'
          /\ executableNodes' \subseteq Node /\ finished' \in [Node -> Nat]
          /\ \A x \in Node : finished'[x] = finished[x] + One(x \in D)
          /\ \A o \in Op : Came(o)' = Came(o)
      BY <1>1, <1>7, DoneFacts
    <2>2. /\ Phases' /\ EventsFit' /\ ControlFits' /\ CountersBalanced'
          /\ Pending' = Pending /\ \A x \in Node : Recorded(x)' <=> Recorded(x)
      BY <1>1, <1>6, <2>1, NetworkIdle
    <2>3. PlacesFit'
      BY <1>1, <2>2 DEF IInv, PlacesFit, FlowOver, CalcEnd
    <2> QED  BY <2>1, <2>2, <2>3
  <1>8. CASE rq[c] = <<>>
    <2>1. CountDown({}, {}) /\ uq' = [uq EXCEPT ![c] = Append(@, n)] /\ rq' = rq
      BY <1>1, <1>8
    <2>2. {} \in SUBSET Node /\ \A m \in {} : finished[m] = 0
      OBVIOUS
    <2>3. /\ dep_cnt' \in [Node -> Nat] /\ DepsCounted'
          /\ executableNodes' \subseteq Node /\ finished' \in [Node -> Nat]
          /\ \A x \in Node : finished'[x] = finished[x] + One(x \in {})
          /\ Phases' /\ EventsFit' /\ ControlFits' /\ CountersBalanced' /\ PlacesFit'
          /\ \A x \in Node : /\ FlowOver(x) \in Pending' <=> FlowOver(x) \in Pending
                             /\ Recorded(x)' <=> Recorded(x)
      BY <1>7, <2>1, <2>2
    <2>4. \A d \in Channels :
            Cardinality(DoneOf(Sends(d))') = Cardinality(DoneOf(Recvs(d))')
      <3>1. \A x \in Node : finished'[x] = finished[x]
        BY <1>2, <2>3 DEF One
      <3> QED  BY <3>1, CountsKept
    <2>5. /\ Proper(uq') /\ Waiting(uq') = Waiting(uq) \union {n}
          /\ \A d \in Channels : d # c => uq'[d] = uq[d]
          /\ Range(uq'[c]) = Range(uq[c]) \union {n}
      <3>1. Put(uq', uq, n)
        BY <2>1 DEF Put, c
      <3> QED  BY <1>3, <1>4, <3>1, QueuePut DEF c
    <2>6. /\ PairsMeet' /\ rq' \in [Channels -> Seq(Node)] /\ uq' \in [Channels -> Seq(Node)]
          /\ \A d \in Channels :
                /\ \A i \in DOMAIN rq'[d] : rq'[d][i] \in Recvs(d)
                /\ \A i \in DOMAIN uq'[d] : uq'[d][i] \in Sends(d)
          /\ InRq' = Waiting(rq') /\ InUq' = Waiting(uq')
      BY <1>4, <1>8, <2>1, <2>4, <2>5, QueuesChanged
    <2>7. EachNodeOnce'
      <3>1. InRq' = InRq /\ InUq' = InUq \union {n}
        BY <1>4, <2>1, <2>5, <2>6
      <3>2. ASSUME NEW x \in Node
            PROVE  One(x \in computing) + One(Recorded(x)) + One(FlowOver(x) \in Pending)
               + One(x \in msgs) + One(x \in InRq) + One(x \in InUq) + markers[x]
             = One(x \in computing') + One(Recorded(x)') + One(FlowOver(x) \in Pending')
                 + One(x \in msgs') + One(x \in InRq') + One(x \in InUq') + markers'[x]
                 + One(x \in {})
        BY <1>1, <1>2, <1>3, <2>3, <3>1 DEF One
      <3> QED  BY <1>1, <1>5, <2>1, <2>2, <3>2, PlacesAfterDone
    <2>8. TypeOK'
      BY <1>1, <2>3, <2>6 DEF IInv, TypeOK
    <2> QED  BY <1>6, <2>3, <2>6, <2>7, <2>8 DEF IInv
  <1>9. CASE rq[c] # <<>>
    <2>1. CountDown({}, {n, r}) /\ rq' = [rq EXCEPT ![c] = Tail(@)] /\ uq' = uq
      BY <1>1, <1>9
    <2>2. /\ Proper(rq') /\ Waiting(rq') = Waiting(rq) \ {r}
          /\ \A d \in Channels : d # c => rq'[d] = rq[d]
          /\ Range(rq'[c]) \subseteq Range(rq[c])
          /\ r \in Range(rq[c]) /\ r \in Waiting(rq)
      <3>1. Take(rq', rq, c)
        BY <2>1 DEF Take
      <3> QED  BY <1>4, <1>9, <3>1, QueueTake DEF r
    <2>3. r \in Recvs(c) /\ r \in Node /\ r # n /\ finished[r] = 0 /\ r \in InRq
      <3>1. r \in Recvs(c) /\ r \in Node /\ r \in InRq
        BY <1>4, <2>2, OwnChannel
      <3> QED  BY <1>3, <3>1, OnePlace
    <2>4. {n, r} \in SUBSET Node /\ \A m \in {n, r} : finished[m] = 0
      BY <1>3, <2>3
    <2>5. /\ dep_cnt' \in [Node -> Nat] /\ DepsCounted'
          /\ executableNodes' \subseteq Node /\ finished' \in [Node -> Nat]
          /\ \A x \in Node : finished'[x] = finished[x] + One(x \in {n, r})
          /\ Phases' /\ EventsFit' /\ ControlFits' /\ CountersBalanced' /\ PlacesFit'
          /\ \A x \in Node : /\ FlowOver(x) \in Pending' <=> FlowOver(x) \in Pending
                             /\ Recorded(x)' <=> Recorded(x)
      BY <1>7, <2>1, <2>4
    <2>6. \A d \in Channels :
            Cardinality(DoneOf(Sends(d))') = Cardinality(DoneOf(Recvs(d))')
      BY <1>3, <1>4, <2>3, <2>5, MeetCounts
    <2>7. /\ PairsMeet' /\ rq' \in [Channels -> Seq(Node)] /\ uq' \in [Channels -> Seq(Node)]
          /\ \A d \in Channels :
                /\ \A i \in DOMAIN rq'[d] : rq'[d][i] \in Recvs(d)
                /\ \A i \in DOMAIN uq'[d] : uq'[d][i] \in Sends(d)
          /\ InRq' = Waiting(rq') /\ InUq' = Waiting(uq')
      <3>1. \A d \in Channels : /\ Range(rq'[d]) \subseteq Recvs(d)
                                /\ Range(uq'[d]) \subseteq Sends(d)
                                /\ rq'[d] = <<>> \/ uq'[d] = <<>>
        BY <1>4, <1>9, <2>1, <2>2
      <3> QED  BY <1>4, <2>1, <2>2, <2>6, <3>1, QueuesChanged
    <2>8. EachNodeOnce'
      <3>1. InRq' = InRq \ {r} /\ InUq' = InUq
        BY <1>4, <2>1, <2>2, <2>7
      <3>2. ASSUME NEW x \in Node
            PROVE  One(x \in computing) + One(Recorded(x)) + One(FlowOver(x) \in Pending)
               + One(x \in msgs) + One(x \in InRq) + One(x \in InUq) + markers[x]
             = One(x \in computing') + One(Recorded(x)') + One(FlowOver(x) \in Pending')
                 + One(x \in msgs') + One(x \in InRq') + One(x \in InUq') + markers'[x]
                 + One(x \in {n, r})
        <4>1. /\ x \in msgs' <=> x \in msgs /\ x # n
              /\ x \in InRq' <=> x \in InRq /\ x # r
              /\ x \in {n, r} <=> x = n \/ x = r
              /\ n \in msgs /\ n \notin InRq /\ r \in InRq /\ r # n
          BY <1>1, <1>3, <2>3, <3>1
        <4>2. One(x \in msgs) + One(x \in InRq)
                = One(x \in msgs') + One(x \in InRq') + One(x \in {n, r})
          BY <4>1 DEF One
        <4> QED  BY <1>1, <1>2, <2>5, <3>1, <4>2 DEF One
      <3> QED  BY <1>1, <1>5, <2>1, <2>4, <3>2, PlacesAfterDone
    <2>9. TypeOK'
      BY <1>1, <2>5, <2>7 DEF IInv, TypeOK
    <2> QED  BY <1>6, <2>5, <2>7, <2>8, <2>9 DEF IInv
  <1> QED  BY <1>8, <1>9

-----------------------------------------------------------------------------
(* A rank reaches its collective                                            *)

LEMMA PhaseOfOther ==
    ASSUME NEW p \in Op, Unheard(p) \/ Open(p) \/ Partly(p) \/ Over(p),
           Came(p)' = Came(p), Got(p)' = Got(p), remaining'[p] = remaining[p],
           p \in DOMAIN coll' <=> p \in DOMAIN coll,
           p \in DOMAIN coll => coll'[p] = coll[p]
    PROVE  (Unheard(p) \/ Open(p) \/ Partly(p) \/ Over(p))'
  BY DEF Unheard, Open, Partly, Over, Happened

(* Before anybody has come nobody has got anything.                         *)
LEMMA NobodyGot ==
    ASSUME IInv, NEW o \in Op, Came(o) = {}
    PROVE  Got(o) = {}
  <1>1. ASSUME NEW h \in Receivers(o), h \in Supplied(o, sent_once) PROVE FALSE
    <2>1. PICK s \in Sources(o, h) : <<o, s>> \in sent_once
      BY <1>1, SourcesCover DEF Supplied
    <2>2. s \in Member
      BY <2>1 DEF IInv, TypeOK
    <2>3. Here(o, s)
      BY <2>1, <2>2 DEF IInv, EventsFit
    <2> QED  BY <2>3 DEF Here
  <1> QED  BY <1>1 DEF Got, Received

LEMMA CameCount ==
    ASSUME NEW o \in Op
    PROVE  /\ Came(o) \subseteq NodesOf(o) /\ IsFiniteSet(Came(o))
           /\ Cardinality(Came(o)) \in Nat /\ Cardinality(Came(o)) <= Len(Group)
           /\ Cardinality(Came(o)) = Len(Group) => Came(o) = NodesOf(o)
  <1>1. Came(o) \subseteq NodesOf(o)
    BY DEF Came, NodesOf, Started
  <1>2. /\ IsFiniteSet(NodesOf(o)) /\ Cardinality(NodesOf(o)) = Len(Group)
        /\ Len(Group) \in Nat
    BY NodePerMember, MembersFinite
  <1>3. /\ IsFiniteSet(Came(o)) /\ Cardinality(Came(o)) <= Cardinality(NodesOf(o))
        /\ Cardinality(NodesOf(o)) = Cardinality(Came(o)) => NodesOf(o) = Came(o)
    BY <1>1, <1>2, FS_Subset
  <1> QED  BY <1>1, <1>2, <1>3, FS_CardinalityType

LEMMA DispatchCollStep ==
    ASSUME IInv, NEW n \in Node, DispatchColl(n)
    PROVE  IInv'
  <1> DEFINE o == Task[n]
             h == Rank[n]
             st == CollOpState(o)
             here == [st EXCEPT !.arrived = @ + 1]
             joined == [here EXCEPT !.rank_nodes = @ \union {n}]
  <1>1. /\ n \in queued /\ o \in Op /\ h \in Member /\ Dispatching
        /\ queued' = queued \ {n} /\ CountDown({n}, {})
        /\ UNCHANGED <<computing, msgs, rq, uq, nic, cpu, time, until, sent_once, later,
                       compute_started, have_more, simulating>>
    BY TasksApart DEF DispatchColl, matching, clocks, control
  <1>2. /\ remaining' = IF o \in DOMAIN coll THEN remaining
                        ELSE [remaining EXCEPT ![o] = Activations(o)]
        /\ due' = due \union
                    (IF h \in Emitters(o) THEN {Emission(o, h)} ELSE {})
        /\ Late(st) => push_coll_done({n}, sends_active + 1) /\ Store(o, here)
        /\ ~Late(st) => /\ markers' = markers
                        /\ sends_active' = sends_active + 1
                        /\ Store(o, joined)
    BY DEF DispatchColl, launch_collective
  <1>3. /\ n \notin computing /\ FlowOver(n) \notin Pending /\ ~Recorded(n)
        /\ n \notin msgs /\ n \notin InRq /\ n \notin InUq /\ finished[n] = 0
        /\ markers[n] = 0 /\ n \notin Started
    BY <1>1, QueuedOnly
  <1>4. /\ dep_cnt' \in [Node -> Nat] /\ DepsCounted'
        /\ executableNodes' \subseteq Node /\ finished' \in [Node -> Nat]
        /\ Started' = Started \cup {n}
        /\ \A x \in Node : finished'[x] = finished[x]
    <2>1. {n} \in SUBSET queued /\ {} \in SUBSET Node /\ queued' = queued \ {n}
          /\ \A m \in {} : finished[m] = 0
      BY <1>1
    <2>2. /\ dep_cnt' \in [Node -> Nat] /\ DepsCounted'
          /\ executableNodes' \subseteq Node /\ finished' \in [Node -> Nat]
          /\ Started' = Started \cup {n}
          /\ \A x \in Node : finished'[x] = finished[x] + One(x \in {})
      BY <1>1, <2>1, CountDownFacts
    <2>3. \A x \in Node : finished[x] \in Nat
      BY DEF IInv, TypeOK
    <2> QED  BY <2>2, <2>3 DEF One
  <1>5. /\ \A p \in Op : p # o => Came(p)' = Came(p)
        /\ Came(o)' = Came(o) \union {n} /\ n \notin Came(o)
    BY <1>3, <1>4 DEF Came
  <1>6. Cardinality(Came(o)') = Cardinality(Came(o)) + 1
    BY <1>1, <1>5, CameCount, FS_AddElement
  <1>7. ~Here(o, h) /\ Here(o, h)'
        /\ \A p \in Op, i \in Member : <<p, i>> # <<o, h>> => (Here(p, i)' <=> Here(p, i))
    <2>1. ~Here(o, h)
      <3>1. SUFFICES ASSUME NEW m \in Came(o), Rank[m] = h PROVE FALSE
        BY DEF Here
      <3>2. m \in NodesOf(o) /\ n \in NodesOf(o)
        BY <1>1, CameCount DEF NodesOf
      <3>3. m = n
        BY <1>1, <3>1, <3>2, NodePerMember
      <3> QED  BY <1>5, <3>3
    <2>2. Here(o, h)'
      BY <1>5 DEF Here
    <2>3. ASSUME NEW p \in Op, NEW i \in Member, <<p, i>> # <<o, h>>
          PROVE  Here(p, i)' <=> Here(p, i)
      BY <1>5, <2>3 DEF Here
    <2> QED  BY <2>1, <2>2, <2>3
  <1>8. /\ \A p, i : LastPacket(p, i) \in Pending' <=> LastPacket(p, i) \in Pending
        /\ \A x : FlowOver(x) \in Pending' <=> FlowOver(x) \in Pending
        /\ \A x : CalcEnd(x) \in Pending' <=> CalcEnd(x) \in Pending
        /\ \A x : NullEvent(x) \in Pending' <=> NullEvent(x) \in Pending
        /\ \A p, i : Emission(p, i) \in due' <=>
              Emission(p, i) \in due \/ (p = o /\ i = h /\ h \in Emitters(o))
    BY <1>1, <1>2, KindsApart, EventsApart DEF Pending
  <1> HIDE DEF o, h, st, here, joined
  <1>9. EventsFit'
    <2>1. \A e \in due' \intersect later' : \E p \in Op : e = Stray(p)
      BY <1>1, <1>2 DEF IInv, EventsFit
    <2>2. ASSUME NEW p \in Op, NEW i \in Member
          PROVE  /\ Emission(p, i) \notin later
                 /\ Emission(p, i) \in due \/ <<p, i>> \in sent_once
                      <=> i \in Emitters(p) /\ Here(p, i)
                 /\ ~(Emission(p, i) \in due /\ <<p, i>> \in sent_once)
                 /\ LastPacket(p, i) \in Pending => i \in Supplied(p, sent_once)
      BY DEF IInv, EventsFit
    <2>3. ASSUME NEW p \in Op, NEW i \in Member
          PROVE  /\ Emission(p, i) \notin later'
                 /\ Emission(p, i) \in due' \/ <<p, i>> \in sent_once'
                      <=> i \in Emitters(p) /\ Here(p, i)'
                 /\ ~(Emission(p, i) \in due' /\ <<p, i>> \in sent_once')
      <3>1. CASE p = o /\ i = h
        BY <1>1, <1>7, <1>8, <2>2, <3>1
      <3>2. CASE ~(p = o /\ i = h)
        <4>1. <<p, i>> # <<o, h>>
          BY <3>2
        <4> QED  BY <1>1, <1>7, <1>8, <2>2, <3>2, <4>1
      <3> QED  BY <3>1, <3>2
    <2>4. \A p \in Op, i \in Member :
            LastPacket(p, i) \in Pending' => i \in Supplied(p, sent_once)'
      <3>1. \A p \in Op : Supplied(p, sent_once)' = Supplied(p, sent_once)
        BY <1>1 DEF Supplied
      <3> QED  BY <1>8, <2>2, <3>1
    <2> QED  BY <2>1, <2>3, <2>4 DEF EventsFit, Emission, LastPacket, Stray
  <1>10. \A p \in Op : Got(p)' = Got(p)
    BY <1>1, <1>8, GotSame
  <1>11. PairsMeet' /\ ClocksFit'
    BY <1>1, <1>4, PairsKept, ClocksIdle
  <1>12. ControlFits'
    <2>1. \A e \in due' : e \in due \/ e = Emission(o, h)
      BY <1>2
    <2>2. \A e \in due' : \E p \in Op, i \in Member : e = Emission(p, i)
      BY <1>1, <2>1 DEF IInv, ControlFits
    <2> QED  BY <1>1, <2>2 DEF IInv, ControlFits, Dispatching, NullEvent, Emission
  <1>13. Timed' = Timed
    BY <1>8 DEF Timed, TimedEvents, CalcEnd, NullEvent
  <1>14. sends_active = Cardinality(Outstanding) /\ compute_started = Cardinality(Timed)
         /\ IsFiniteSet(Outstanding) /\ Cardinality(Outstanding) \in Nat
    BY CountedFinite DEF IInv
  <1>15. /\ due' \subseteq Event /\ later' \subseteq Event
         /\ remaining' \in [Op -> Nat]
         /\ remaining'[o] = IF o \in DOMAIN coll THEN remaining[o] ELSE Activations(o)
         /\ \A p \in Op : p # o => remaining'[p] = remaining[p]
    <2>1. remaining \in [Op -> Nat] /\ Activations(o) \in Nat
      BY <1>1, ActivationsCount DEF IInv, TypeOK
    <2> QED  BY <1>1, <1>2, <2>1, EventsTyped DEF IInv, TypeOK
  <1>16. DOMAIN coll \subseteq Op
         /\ \A p \in DOMAIN coll :
              coll[p] \in [arrived : 0..Len(Group), completed : BOOLEAN,
                           rank_nodes : SUBSET Node]
    BY DEF IInv, TypeOK
  <1>17. /\ \A x \in Node : markers[x] \in Nat /\ finished[x] \in Nat
         /\ markers \in [Node -> Nat]
    BY DEF IInv, TypeOK
  <1>18. Unheard(o) \/ Open(o) \/ Partly(o)
    <2>1. Unheard(o) \/ Open(o) \/ Partly(o) \/ Over(o)
      BY <1>1 DEF IInv, Phases
    <2>2. ~Over(o)
      BY <1>1, <1>5 DEF Over, NodesOf, o
    <2> QED  BY <2>1, <2>2
  <1>19. Len(Group) \in Nat /\ Len(Group) > 1
    BY MembersFinite
  <1>20. CASE ~Late(st)
    <2>1. /\ markers' = markers /\ sends_active' = sends_active + 1
          /\ Store(o, joined)
      BY <1>2, <1>20
    <2>2. Unheard(o) \/ Open(o)
      BY <1>18, <1>20 DEF Partly, Late, CollOpState, st
    <2>3. /\ joined.completed = FALSE /\ joined.rank_nodes = Came(o)'
          /\ joined.arrived = Cardinality(Came(o)')
          /\ joined = [arrived |-> joined.arrived, completed |-> joined.completed,
                       rank_nodes |-> joined.rank_nodes]
      <3>1. CASE Unheard(o)
        <4>1. st = [arrived |-> 0, completed |-> FALSE, rank_nodes |-> {}]
          BY <3>1 DEF st, CollOpState, Unheard
        <4>2. here = [arrived |-> 1, completed |-> FALSE, rank_nodes |-> {}]
          <5>1. here = [arrived |-> st.arrived + 1, completed |-> st.completed,
                        rank_nodes |-> st.rank_nodes]
            <6>1. st = [arrived |-> st.arrived, completed |-> st.completed,
                        rank_nodes |-> st.rank_nodes]
              BY <4>1
            <6> QED  BY <6>1 DEF here
          <5>2. st.arrived + 1 = 1 /\ st.completed = FALSE /\ st.rank_nodes = {}
            BY <4>1
          <5> QED  BY <5>1, <5>2
        <4>4. joined = [here EXCEPT !.rank_nodes = here.rank_nodes \union {n}]
          BY <4>2 DEF joined
        <4>5. joined = [arrived |-> 1, completed |-> FALSE, rank_nodes |-> {} \union {n}]
          BY <4>2, <4>4
        <4>3. Came(o) = {} /\ Cardinality(Came(o)) = 0
          BY <3>1, FS_EmptySet DEF Unheard
        <4> QED  BY <1>5, <1>6, <4>3, <4>5
      <3>2. CASE Open(o)
        <4>1. st = coll[o] /\ o \in DOMAIN coll
          BY <3>2 DEF st, CollOpState, Open
        <4>2. /\ st = [arrived |-> st.arrived, completed |-> st.completed,
                       rank_nodes |-> st.rank_nodes]
              /\ st.completed \in BOOLEAN
          BY <1>16, <4>1
        <4>5. here = [arrived |-> st.arrived + 1, completed |-> st.completed,
                       rank_nodes |-> st.rank_nodes]
          BY <4>2 DEF here
        <4>3. joined = [arrived |-> st.arrived + 1, completed |-> st.completed,
                       rank_nodes |-> st.rank_nodes \union {n}]
          BY <4>5 DEF joined
        <4> QED  BY <1>5, <1>6, <3>2, <4>1, <4>2, <4>3 DEF Open
      <3> QED  BY <2>2, <3>1, <3>2
    <2>4. /\ DOMAIN coll' = DOMAIN coll \union {o} /\ coll'[o] = joined
          /\ \A p \in DOMAIN coll : p # o => coll'[p] = coll[p]
      BY <2>1, <2>3 DEF Store
    <2> HIDE DEF joined
    <2>5. Phases'
      <3> SUFFICES ASSUME NEW p \in Op
                   PROVE  (Unheard(p) \/ Open(p) \/ Partly(p) \/ Over(p))'
        BY DEF Phases
      <3>1. CASE p # o
        <4>1. Unheard(p) \/ Open(p) \/ Partly(p) \/ Over(p)
          BY DEF IInv, Phases
        <4> QED  BY <1>5, <1>10, <1>15, <2>4, <3>1, <4>1, PhaseOfOther
      <3>2. CASE p = o
        <4>1. remaining'[o] = Cardinality(Receivers(o) \ Got(o)) /\ remaining'[o] > 0
          <5>1. CASE Unheard(o)
            <6>1. Got(o) = {} /\ Receivers(o) \ {} = Receivers(o)
              BY <1>1, <5>1, NobodyGot DEF Unheard
            <6> QED  BY <1>1, <1>15, <5>1, <6>1, ActivationsCount DEF Unheard
          <5>2. CASE Open(o)
            BY <1>15, <5>2 DEF Open
          <5> QED  BY <2>2, <5>1, <5>2
        <4>2. Open(o)'
          BY <1>5, <1>10, <1>1, <2>3, <2>4, <4>1 DEF Open
        <4> QED  BY <3>2, <4>2
      <3> QED  BY <3>1, <3>2
    <2>6. \A x \in Node : Recorded(x)' <=> Recorded(x) \/ x = n
      <3>1. CASE Unheard(o)
        BY <1>5, <2>3, <2>4, <3>1 DEF Recorded, Unheard
      <3>2. CASE Open(o)
        BY <1>5, <2>3, <2>4, <3>2 DEF Recorded, Open
      <3> QED  BY <2>2, <3>1, <3>2
    <2>7. EachNodeOnce'
      <3>1. ASSUME NEW x \in Node
            PROVE  One(x \in {n})
               + One(x \in computing) + One(Recorded(x)) + One(FlowOver(x) \in Pending)
               + One(x \in msgs) + One(x \in InRq) + One(x \in InUq) + markers[x]
             = One(x \in computing') + One(Recorded(x)') + One(FlowOver(x) \in Pending')
                 + One(x \in msgs') + One(x \in InRq') + One(x \in InUq') + markers'[x]
                 + One(x \in {})
        BY <1>1, <1>3, <1>8, <1>17, <2>1, <2>6, QueuesSame DEF One
      <3>2. {n} \in SUBSET queued /\ {} \in SUBSET Node /\ \A m \in {} : finished[m] = 0
        BY <1>1
      <3>3. markers' \in [Node -> Nat]
        BY <1>17, <2>1
      <3> QED  BY <1>1, <3>1, <3>2, <3>3, PlacesAfter
    <2>8. PlacesFit'
      <3>1. \A p \in DOMAIN coll' : \A x \in coll'[p].rank_nodes : Task[x] = p
        BY <2>3, <2>4 DEF IInv, PlacesFit, Came
      <3> QED  BY <1>1, <1>8, <2>1, <3>1 DEF IInv, PlacesFit, FlowOver, CalcEnd
    <2>9. CountersBalanced' /\ sends_active' \in Nat /\ compute_started' \in Nat
      <3>1. Outstanding' = Outstanding \union {n} /\ n \notin Outstanding
        BY <1>3, <1>8, <2>6 DEF Outstanding, FlowOver
      <3>2. Cardinality(Outstanding') = Cardinality(Outstanding) + 1
        BY <1>14, <3>1, FS_AddElement
      <3> QED  BY <1>1, <1>13, <1>14, <2>1, <3>2, BalancedAfter
    <2>10. TypeOK'
      <3>1. DOMAIN coll' \subseteq Op
        BY <1>1, <1>16, <2>4
      <3>2. \A p \in DOMAIN coll' :
              /\ coll'[p].completed \in BOOLEAN
              /\ coll'[p] = [arrived |-> coll'[p].arrived,
                             completed |-> coll'[p].completed,
                             rank_nodes |-> coll'[p].rank_nodes]
        BY <1>16, <2>3, <2>4
      <3>3. \A p \in DOMAIN coll' :
             coll'[p] \in [arrived : 0..Len(Group), completed : BOOLEAN,
                           rank_nodes : SUBSET Node]
        BY <2>5, <3>1, <3>2, EntriesTyped
      <3> QED  BY <1>1, <1>4, <1>15, <2>1, <2>9, <3>1, <3>3 DEF IInv, TypeOK
    <2> QED  BY <1>4, <1>9, <1>11, <1>12, <2>5, <2>7, <2>8, <2>9, <2>10 DEF IInv
  <1>21. CASE Late(st)
    <2>1. Partly(o)
      <3>1. ~Unheard(o)
        BY <1>21 DEF Late, CollOpState, st, Unheard
      <3>2. ~Open(o)
        BY <1>21 DEF Late, CollOpState, st, Open
      <3> QED  BY <1>18, <3>1, <3>2
    <2>2. st = coll[o] /\ o \in DOMAIN coll /\ st.completed /\ st.rank_nodes = {}
          /\ st.arrived = Cardinality(Came(o)) /\ st.arrived < Len(Group)
      BY <2>1 DEF Partly, CollOpState, st
    <2>3. /\ here = [arrived |-> Cardinality(Came(o)'), completed |-> TRUE,
                     rank_nodes |-> {}]
      <3>1. st = [arrived |-> st.arrived, completed |-> st.completed,
                  rank_nodes |-> st.rank_nodes]
            /\ st.completed \in BOOLEAN
        BY <1>16, <2>2
      <3>2. st = [arrived |-> Cardinality(Came(o)), completed |-> TRUE,
                  rank_nodes |-> {}]
        BY <2>2, <3>1
      <3>3. here = [arrived |-> st.arrived + 1, completed |-> st.completed,
                    rank_nodes |-> st.rank_nodes]
        BY <3>1 DEF here
      <3> QED  BY <1>6, <2>2, <3>2, <3>3
    <2>4. \A x \in Node : markers'[x] = markers[x] + One(x \in {n})
      BY <1>2, <1>17, <1>21 DEF push_coll_done, One
    <2>5. markers' \in [Node -> Nat] /\ sends_active' = sends_active
      <3>1. Cardinality({n}) = 1
        BY FS_Singleton
      <3> QED  BY <1>2, <1>14, <1>17, <1>21, <3>1 DEF push_coll_done
    <2>6. /\ o \in DOMAIN coll' <=> Cardinality(Came(o)') # Len(Group)
          /\ o \in DOMAIN coll' => coll'[o] = here
          /\ \A p : p # o => (p \in DOMAIN coll' <=> p \in DOMAIN coll)
          /\ \A p \in DOMAIN coll : p # o => coll'[p] = coll[p]
      BY <1>2, <1>21, <2>2, <2>3 DEF Store
    <2> HIDE DEF here
    <2>7. Phases'
      <3> SUFFICES ASSUME NEW p \in Op
                   PROVE  (Unheard(p) \/ Open(p) \/ Partly(p) \/ Over(p))'
        BY DEF Phases
      <3>1. CASE p # o
        <4>1. Unheard(p) \/ Open(p) \/ Partly(p) \/ Over(p)
          BY DEF IInv, Phases
        <4> QED  BY <1>5, <1>10, <1>15, <2>6, <3>1, <4>1, PhaseOfOther
      <3>2. CASE p = o
        <4>1. Happened(o)'
          BY <1>1, <1>10, <1>15, <2>1, <2>2 DEF Partly, Happened
        <4>2. CASE Cardinality(Came(o)') # Len(Group)
          <5>1. Cardinality(Came(o)') < Len(Group)
            BY <1>1, <1>6, <1>19, <2>2, <4>2, CameCount
          <5> QED  BY <2>3, <2>6, <3>2, <4>1, <4>2, <5>1 DEF Partly
        <4>3. CASE Cardinality(Came(o)') = Len(Group)
          <5>1. Came(o)' \subseteq NodesOf(o)
            BY <1>1, <1>5, CameCount DEF NodesOf, o
          <5>2. Came(o)' = NodesOf(o)
            BY <1>1, <4>3, <5>1, NodePerMember, FS_Subset
          <5> QED  BY <2>6, <3>2, <4>1, <4>3, <5>2 DEF Over, NodesOf
        <4> QED  BY <4>2, <4>3
      <3> QED  BY <3>1, <3>2
    <2>8. \A x \in Node : Recorded(x)' <=> Recorded(x)
      <3>1. o \in DOMAIN coll' => coll'[o].rank_nodes = {}
        BY <2>3, <2>6
      <3> QED  BY <2>2, <2>6, <3>1 DEF Recorded
    <2>9. EachNodeOnce'
      <3>1. ASSUME NEW x \in Node
            PROVE  One(x \in {n})
               + One(x \in computing) + One(Recorded(x)) + One(FlowOver(x) \in Pending)
               + One(x \in msgs) + One(x \in InRq) + One(x \in InUq) + markers[x]
             = One(x \in computing') + One(Recorded(x)') + One(FlowOver(x) \in Pending')
                 + One(x \in msgs') + One(x \in InRq') + One(x \in InUq') + markers'[x]
                 + One(x \in {})
        BY <1>1, <1>3, <1>8, <1>17, <2>4, <2>8, QueuesSame DEF One
      <3>2. {n} \in SUBSET queued /\ {} \in SUBSET Node /\ \A m \in {} : finished[m] = 0
        BY <1>1
      <3> QED  BY <1>1, <2>5, <3>1, <3>2, PlacesAfter
    <2>10. PlacesFit'
      <3>1. \A p \in DOMAIN coll' : \A x \in coll'[p].rank_nodes : Task[x] = p
        BY <2>3, <2>6 DEF IInv, PlacesFit
      <3>2. \A x \in Node : markers'[x] > 0 => Task[x] \in Op
        BY <1>1, <1>17, <2>4 DEF IInv, PlacesFit, One, o
      <3> QED  BY <1>1, <1>8, <3>1, <3>2 DEF IInv, PlacesFit, FlowOver, CalcEnd
    <2>11. CountersBalanced' /\ sends_active' \in Nat /\ compute_started' \in Nat
      <3>1. Outstanding' = Outstanding
        BY <1>8, <2>8 DEF Outstanding, FlowOver
      <3> QED  BY <1>1, <1>13, <1>14, <2>5, <3>1, BalancedAfter
    <2>12. TypeOK'
      <3>1. DOMAIN coll' \subseteq Op
        BY <1>1, <1>16, <2>6
      <3>2. \A p \in DOMAIN coll' :
              /\ coll'[p].completed \in BOOLEAN
              /\ coll'[p] = [arrived |-> coll'[p].arrived,
                             completed |-> coll'[p].completed,
                             rank_nodes |-> coll'[p].rank_nodes]
        <4>1. coll'[o] = here => /\ coll'[o].completed \in BOOLEAN
                                 /\ coll'[o] = [arrived |-> coll'[o].arrived,
                                                completed |-> coll'[o].completed,
                                                rank_nodes |-> coll'[o].rank_nodes]
          BY <2>3
        <4>2. \A p \in DOMAIN coll :
                /\ coll[p].completed \in BOOLEAN
                /\ coll[p] = [arrived |-> coll[p].arrived,
                              completed |-> coll[p].completed,
                              rank_nodes |-> coll[p].rank_nodes]
          BY <1>16
        <4> QED  BY <2>6, <4>1, <4>2
      <3>3. \A p \in DOMAIN coll' :
             coll'[p] \in [arrived : 0..Len(Group), completed : BOOLEAN,
                           rank_nodes : SUBSET Node]
        BY <2>7, <3>1, <3>2, EntriesTyped
      <3> QED  BY <1>1, <1>4, <1>15, <2>5, <2>11, <3>1, <3>3 DEF IInv, TypeOK
    <2> QED  BY <1>4, <1>9, <1>11, <1>12, <2>7, <2>9, <2>10, <2>11, <2>12 DEF IInv
  <1> QED  BY <1>20, <1>21

-----------------------------------------------------------------------------
(* Control passes to the network, and time goes on                          *)

LEMMA GraphIdle ==
    ASSUME IInv, UNCHANGED <<dep_cnt, executableNodes, queued, finished>>
    PROVE  /\ Started' = Started /\ Done' = Done /\ DepsCounted'
           /\ \A o \in Op : Came(o)' = Came(o)
  <1>1. Started' = Started /\ Done' = Done
    BY DEF Started, Done
  <1> QED  BY <1>1, SameCame DEF IInv, DepsCounted

LEMMA PlacesMove ==
    ASSUME IInv, UNCHANGED <<dep_cnt, executableNodes, queued, finished>>,
           markers' \in [Node -> Nat],
           \A x \in Node :
             One(x \in computing) + One(Recorded(x)) + One(FlowOver(x) \in Pending)
               + One(x \in msgs) + One(x \in InRq) + One(x \in InUq) + markers[x]
             = One(x \in computing') + One(Recorded(x)') + One(FlowOver(x) \in Pending')
                 + One(x \in msgs') + One(x \in InRq') + One(x \in InUq') + markers'[x]
    PROVE  EachNodeOnce'
  <1> SUFFICES ASSUME NEW x \in Node
      PROVE  One(dep_cnt'[x] > 0) + One(x \in executableNodes')
          + One(x \in queued') + One(x \in computing')
          + One(Recorded(x)') + One(FlowOver(x) \in due' \union later')
          + One(x \in msgs') + One(x \in InRq') + One(x \in InUq')
          + markers'[x] + finished'[x] = 1
    BY DEF EachNodeOnce, FlowOver, InRq, InUq
  <1>1. finished[x] \in Nat /\ markers[x] \in Nat /\ markers'[x] \in Nat
    BY DEF IInv, TypeOK
  <1>2. One(dep_cnt[x] > 0) + One(x \in executableNodes)
          + One(x \in queued) + One(x \in computing)
          + One(Recorded(x)) + One(FlowOver(x) \in Pending)
          + One(x \in msgs) + One(x \in InRq) + One(x \in InUq)
          + markers[x] + finished[x] = 1
    BY DEF IInv, EachNodeOnce, Pending, InRq, InUq
  <1>3. One(x \in computing) + One(Recorded(x)) + One(FlowOver(x) \in Pending)
               + One(x \in msgs) + One(x \in InRq) + One(x \in InUq) + markers[x]
             = One(x \in computing') + One(Recorded(x)') + One(FlowOver(x) \in Pending')
                 + One(x \in msgs') + One(x \in InRq') + One(x \in InUq') + markers'[x]
    OBVIOUS
  <1> QED  BY <1>1, <1>2, <1>3 DEF One, Pending

(* Steps that move no node at all.                                          *)
LEMMA NodesStay ==
    ASSUME IInv,
           UNCHANGED <<dep_cnt, executableNodes, queued, finished, computing,
                       markers, msgs, rq, uq, coll>>,
           \A x \in Node : FlowOver(x) \in Pending' <=> FlowOver(x) \in Pending,
           \A x \in Node : CalcEnd(x) \in Pending' => CalcEnd(x) \in Pending
    PROVE  /\ EachNodeOnce' /\ PlacesFit' /\ DepsCounted' /\ PairsMeet'
           /\ \A o \in Op : Came(o)' = Came(o)
           /\ Outstanding' = Outstanding
  <1>1. \A x \in Node : Recorded(x)' <=> Recorded(x)
    BY RecordedSame
  <1>2. EachNodeOnce'
    <2>1. markers' \in [Node -> Nat] /\ \A x \in Node : markers[x] \in Nat
      BY DEF IInv, TypeOK
    <2>2. \A x \in Node :
             One(x \in computing) + One(Recorded(x)) + One(FlowOver(x) \in Pending)
               + One(x \in msgs) + One(x \in InRq) + One(x \in InUq) + markers[x]
             = One(x \in computing') + One(Recorded(x)') + One(FlowOver(x) \in Pending')
                 + One(x \in msgs') + One(x \in InRq') + One(x \in InUq') + markers'[x]
      BY <1>1, <2>1, QueuesSame DEF One
    <2> QED  BY <2>1, <2>2, PlacesMove
  <1>3. PlacesFit'
    BY DEF IInv, PlacesFit, FlowOver, CalcEnd
  <1>4. PairsMeet'
    BY PairsKept
  <1>5. Outstanding' = Outstanding
    BY <1>1 DEF Outstanding, FlowOver
  <1> QED  BY <1>2, <1>3, <1>4, <1>5, GraphIdle

(* What is put back is where it was, and waits for times of busy ranks.     *)
LEMMA ObstaclesKnown ==
    ASSUME IInv, NEW n \in Node, n \in queued \union msgs
    PROVE  /\ Obstacles(n) \subseteq Event
           /\ \A h \in Member : NullEvent(h) \in Obstacles(n) => NullEvent(h) \in nic[h]
  <1>1. /\ nic \in [Member -> SUBSET {NullEvent(i) : i \in Member}]
        /\ cpu \in [Member -> SUBSET {NullEvent(i) : i \in Member}]
        /\ later \subseteq Event
    BY DEF IInv, TypeOK
  <1>2. ASSUME NEW k \in Member
        PROVE  /\ Busy(k) \union nic[k] \subseteq Event
               /\ \A h \in Member : NullEvent(h) \in Busy(k) \union nic[k] => NullEvent(h) \in nic[h]
    <2>1. nic[k] \subseteq Event /\ cpu[k] \subseteq Event
      BY <1>1, EventsTyped
    <2>2. \A h \in Member : NullEvent(h) \in Busy(k) \union nic[k] =>
                              NullEvent(h) \in nic[k] \union cpu[k] \/ NullEvent(h) \in later
      BY DEF Busy
    <2>3. Busy(k) \subseteq Event
      BY <1>1, <2>1 DEF Busy
    <2> QED  BY <2>1, <2>2, <2>3 DEF IInv, ClocksFit
  <1>3. Rank[n] \in Member /\ (n \in msgs => Peer[n] \in Member)
    BY ScheduleAssumption DEF IInv, TypeOK
  <1>4. \/ Obstacles(n) \subseteq Busy(Rank[n]) \union nic[Rank[n]]
        \/ n \in msgs /\ Obstacles(n) \subseteq Busy(Peer[n])
    BY DEF Obstacles
  <1> QED  BY <1>2, <1>3, <1>4

LEMMA PutBackStep ==
    ASSUME IInv, NEW n \in Node, PutBack(n)
    PROVE  IInv'
  <1> DEFINE c == Channel(n)
  <1>1. /\ n \in queued \union msgs /\ Obstacles(n) # {}
        /\ time' = [time EXCEPT ![n] = Obstacles(n)]
        /\ rq' = IF n \in queued THEN rq
                 ELSE [rq EXCEPT ![c] = Append(Tail(@), Head(@))]
        /\ UNCHANGED <<dep_cnt, executableNodes, queued, computing, markers, msgs,
                       uq, nic, cpu, until, finished, coll, remaining, sent_once,
                       due, later, sends_active, compute_started, have_more,
                       simulating>>
    BY DEF PutBack, OnTime, graph, aq, network, counts, control
  <1>2. /\ time' \in [Node -> SUBSET Event]
        /\ \A m \in Node : \A e \in time'[m] : e \in time[m] \/ e \in Obstacles(n)
    BY <1>1, ObstaclesKnown DEF IInv, TypeOK
  <1>3. ClocksFit' /\ \A h \in Member : nic[h] \subseteq nic'[h]
    <2>1. ASSUME NEW h \in Member,
                 \/ NullEvent(h) \in later'
                 \/ \E k \in Member : NullEvent(h) \in nic'[k] \union cpu'[k]
                 \/ \E m \in Node : NullEvent(h) \in time'[m]
          PROVE  NullEvent(h) \in nic'[h]
      BY <1>1, <1>2, <2>1, ObstaclesKnown DEF IInv, ClocksFit
    <2>2. ClocksFit'
      BY <2>1 DEF ClocksFit, NullEvent
    <2> QED  BY <1>1, <2>2
  <1>4. DepsCounted' /\ \A o \in Op : Came(o)' = Came(o)
    BY <1>1, GraphIdle
  <1>5. /\ Phases' /\ EventsFit' /\ ControlFits' /\ CountersBalanced'
        /\ Pending' = Pending /\ \A x \in Node : Recorded(x)' <=> Recorded(x)
    BY <1>1, <1>3, <1>4, NetworkIdle
  <1>6. /\ Proper(rq) /\ Proper(uq)
        /\ \A d \in Channels : /\ Range(rq[d]) \subseteq Recvs(d)
                               /\ Range(uq[d]) \subseteq Sends(d)
                               /\ rq[d] = <<>> \/ uq[d] = <<>>
    BY QueuesTyped, QueuesProper DEF IInv, PairsMeet
  <1>7. /\ Proper(rq') /\ Waiting(rq') = Waiting(rq)
        /\ \A d \in Channels : Range(rq'[d]) = Range(rq[d]) /\ (rq[d] = <<>> => rq'[d] = <<>>)
    <2>1. CASE n \in queued
      BY <1>1, <1>6, <2>1
    <2>2. CASE n \notin queued
      <3>1. Task[n] = Send /\ c \in Channels
        BY <1>1, <2>2, OwnChannel DEF IInv, TypeOK
      <3>2. rq[c] # <<>>
        BY <1>1, <2>2 DEF Obstacles
      <3> HIDE DEF c
      <3>3. Turn(rq', rq, c)
        BY <1>1, <2>2 DEF Turn
      <3> QED  BY <1>6, <3>1, <3>2, <3>3, QueueTurn
    <2> QED  BY <2>1, <2>2
  <1>8. /\ PairsMeet' /\ rq' \in [Channels -> Seq(Node)] /\ uq' \in [Channels -> Seq(Node)]
        /\ \A d \in Channels :
                /\ \A i \in DOMAIN rq'[d] : rq'[d][i] \in Recvs(d)
                /\ \A i \in DOMAIN uq'[d] : uq'[d][i] \in Sends(d)
        /\ InRq' = InRq /\ InUq' = InUq
    <2>1. \A d \in Channels :
            Cardinality(DoneOf(Sends(d))') = Cardinality(DoneOf(Recvs(d))')
      BY <1>1, CountsKept
    <2>2. \A d \in Channels : /\ Range(rq'[d]) \subseteq Recvs(d)
                              /\ Range(uq'[d]) \subseteq Sends(d)
                              /\ rq'[d] = <<>> \/ uq'[d] = <<>>
      BY <1>1, <1>6, <1>7
    <2> QED  BY <1>1, <1>6, <1>7, <2>1, <2>2, QueuesChanged DEF InRq, InUq
  <1>9. EachNodeOnce'
    <2>1. markers' \in [Node -> Nat] /\ \A x \in Node : markers[x] \in Nat
      BY <1>1 DEF IInv, TypeOK
    <2>2. \A x \in Node :
             One(x \in computing) + One(Recorded(x)) + One(FlowOver(x) \in Pending)
               + One(x \in msgs) + One(x \in InRq) + One(x \in InUq) + markers[x]
             = One(x \in computing') + One(Recorded(x)') + One(FlowOver(x) \in Pending')
                 + One(x \in msgs') + One(x \in InRq') + One(x \in InUq') + markers'[x]
      BY <1>1, <1>5, <1>8, <2>1 DEF One
    <2> QED  BY <1>1, <2>1, <2>2, PlacesMove
  <1>10. PlacesFit'
    BY <1>1, <1>5 DEF IInv, PlacesFit, FlowOver, CalcEnd
  <1>11. TypeOK'
    BY <1>1, <1>2, <1>8 DEF IInv, TypeOK
  <1> QED  BY <1>3, <1>4, <1>5, <1>8, <1>9, <1>10, <1>11 DEF IInv

LEMMA SimulateStep ==
    ASSUME IInv, ~simulating, NEW H \in SUBSET Member,
           \A h \in H : NullEvent(h) \in nic[h] /\ NullEvent(h) \notin Pending,
           htsim_simulate_until({NullEvent(h) : h \in H})
    PROVE  IInv'
  <1> DEFINE N == {NullEvent(h) : h \in H}
  <1>1. /\ compute_started' = compute_started + Cardinality(N)
        /\ later' = later \union N /\ simulating' \in BOOLEAN
        /\ simulating' <=> due' \union later' # {}
        /\ have_more' = FALSE /\ until' = {}
        /\ UNCHANGED <<dep_cnt, executableNodes, queued, computing, markers, msgs,
                       rq, uq, nic, cpu, time, finished, coll, remaining, sent_once,
                       due, sends_active>>
    BY DEF htsim_simulate_until, graph, aq, matching
  <1>2. /\ \A o, h : LastPacket(o, h) \in Pending' <=> LastPacket(o, h) \in Pending
        /\ \A x : FlowOver(x) \in Pending' <=> FlowOver(x) \in Pending
        /\ \A x : CalcEnd(x) \in Pending' <=> CalcEnd(x) \in Pending
        /\ \A o, h : Emission(o, h) \in later' <=> Emission(o, h) \in later
        /\ \A h : NullEvent(h) \in later' <=> NullEvent(h) \in later \/ h \in H
    BY <1>1, KindsApart, EventsApart DEF Pending
  <1>3. /\ EachNodeOnce' /\ PlacesFit' /\ DepsCounted' /\ PairsMeet'
        /\ \A o \in Op : Came(o)' = Came(o)
        /\ Outstanding' = Outstanding
    BY <1>1, <1>2, NodesStay
  <1>4. N \subseteq TimedEvents /\ N \intersect Pending = {}
    BY DEF TimedEvents
  <1>5. Phases'
    BY <1>1, <1>2, <1>3, PhasesKept
  <1>6. EventsFit'
    <2>1. \A e \in due' \intersect later' : \E o \in Op : e = Stray(o)
      BY <1>1, <1>4 DEF IInv, EventsFit, Pending
    <2> QED  BY <1>1, <1>2, <1>3, <2>1, EventsKept DEF IInv, EventsFit
  <1>7. ControlFits' /\ ClocksFit'
    <2>1. ~simulating' => due' = {}
      BY <1>1
    <2> QED  BY <1>1, <1>2, <2>1 DEF IInv, ControlFits, ClocksFit, Dispatching, NullEvent, Emission
  <1>8. CountersBalanced' /\ sends_active' \in Nat /\ compute_started' \in Nat
    <2>1. Timed' = Timed \union N /\ Timed \intersect N = {}
      BY <1>1, <1>4 DEF Timed, TimedEvents, Pending, CalcEnd, NullEvent
    <2>2. IsFiniteSet(N)
      BY <1>4, TimedEventsFinite, FS_Subset
    <2>3. Cardinality(Timed') = Cardinality(Timed) + Cardinality(N)
      <3>1. Cardinality(Timed \union N)
              = Cardinality(Timed) + Cardinality(N) - Cardinality(Timed \intersect N)
        BY <2>2, CountedFinite, FS_Union
      <3>2. Cardinality(Timed \intersect N) = 0 /\ Cardinality(N) \in Nat
        BY <2>1, <2>2, FS_EmptySet, FS_CardinalityType
      <3> QED  BY <2>1, <3>1, <3>2, CountedFinite
    <2>4. sends_active = Cardinality(Outstanding) /\ compute_started = Cardinality(Timed)
      BY CountedFinite DEF IInv
    <2> QED  BY <1>1, <1>3, <2>3, <2>4, BalancedAfter
  <1>9. TypeOK'
    <2>1. later' \subseteq Event
      BY <1>1, EventsTyped DEF IInv, TypeOK
    <2> QED  BY <1>1, <1>8, <2>1 DEF IInv, TypeOK
  <1> QED  BY <1>3, <1>5, <1>6, <1>7, <1>8, <1>9 DEF IInv

LEMMA HandOverStep ==
    ASSUME IInv, HandOver
    PROVE  IInv'
  <1>1. ~simulating /\ htsim_simulate_until({NullEvent(h) : h \in until})
    BY DEF HandOver, RoundOver
  <1>2. until \in SUBSET Member
    BY DEF IInv, TypeOK
  <1>3. ASSUME NEW h \in until PROVE NullEvent(h) \in nic[h] /\ NullEvent(h) \notin Pending
    <2>1. Dispatching /\ NullEvent(h) \in nic[h] /\ NullEvent(h) \notin later
      BY <1>3 DEF IInv, ControlFits
    <2>2. NullEvent(h) \notin due
      BY <2>1, KindsApart DEF IInv, ControlFits
    <2> QED  BY <2>1, <2>2 DEF Pending
  <1> QED  BY <1>1, <1>2, <1>3, SimulateStep

LEMMA CatchUpStep ==
    ASSUME IInv, CatchUp
    PROVE  IInv'
  <1>1. /\ ~simulating /\ ~AqDue /\ compute_started = 0
    BY DEF CatchUp
  <1>2. PICK n \in queued \union msgs, h \in Member :
          NullEvent(h) \in time[n] /\ htsim_simulate_until({NullEvent(h)})
    BY DEF CatchUp
  <1>3. NullEvent(h) \in nic[h]
    BY <1>2 DEF IInv, ClocksFit, TypeOK
  <1>4. NullEvent(h) \notin Pending
    <2>1. Timed = {}
      BY <1>1, CountedFinite, FS_EmptySet DEF IInv
    <2> QED  BY <2>1 DEF Timed, TimedEvents
  <1>5. {NullEvent(k) : k \in {h}} = {NullEvent(h)} /\ {h} \in SUBSET Member
    OBVIOUS
  <1>6. htsim_simulate_until({NullEvent(k) : k \in {h}})
    BY <1>2, <1>5
  <1>7. \A k \in {h} : NullEvent(k) \in nic[k] /\ NullEvent(k) \notin Pending
    BY <1>3, <1>4
  <1> QED  BY <1>1, <1>5, <1>6, <1>7, SimulateStep

LEMMA NextInstantStep ==
    ASSUME IInv, NextInstant
    PROVE  IInv'
  <1>1. PICK S \in SUBSET later, free \in SUBSET (Live \ later) :
          /\ due' = S /\ later' = later \ S
          /\ Pass(S \union free)
    BY DEF NextInstant
  <1>2. /\ simulating /\ due = {}
        /\ UNCHANGED <<dep_cnt, executableNodes, queued, computing, markers, msgs,
                       rq, uq, until, finished, coll, remaining, sent_once,
                       sends_active, compute_started, have_more, simulating>>
    BY DEF NextInstant, graph, aq, matching, counts, control
  <1>3. Pending' = Pending
    BY <1>1, <1>2 DEF Pending
  <1>4. /\ EachNodeOnce' /\ PlacesFit' /\ DepsCounted' /\ PairsMeet'
        /\ \A o \in Op : Came(o)' = Came(o)
        /\ Outstanding' = Outstanding
    BY <1>2, <1>3, NodesStay
  <1>5. Phases'
    BY <1>2, <1>3, <1>4, PhasesKept
  <1>6. EventsFit'
    BY <1>1, <1>2, <1>3, <1>4, EventsKept DEF IInv, EventsFit
  <1>7. ControlFits' /\ ClocksFit'
    <2> DEFINE past == S \union free
    <2>1. /\ \A h \in Member : nic'[h] = nic[h] \ past /\ cpu'[h] = cpu[h] \ past
          /\ \A n \in Node : time'[n] = time[n] \ past
      BY <1>1 DEF Pass
    <2>2. \A h \in Member : NullEvent(h) \in later' => NullEvent(h) \notin past
      BY <1>1
    <2> HIDE DEF past
    <2>3. ASSUME NEW h \in Member,
                 \/ NullEvent(h) \in later'
                 \/ \E k \in Member : NullEvent(h) \in nic'[k] \union cpu'[k]
                 \/ \E m \in Node : NullEvent(h) \in time'[m]
          PROVE  NullEvent(h) \in nic'[h]
      BY <1>1, <2>1, <2>2, <2>3 DEF IInv, ClocksFit
    <2>4. ClocksFit'
      BY <2>3 DEF ClocksFit, NullEvent
    <2> QED  BY <1>2, <2>4 DEF IInv, ControlFits, Dispatching, NullEvent
  <1>8. CountersBalanced' /\ sends_active' \in Nat /\ compute_started' \in Nat
    <2>1. Timed' = Timed
      BY <1>3 DEF Timed, TimedEvents, CalcEnd, NullEvent
    <2>2. sends_active = Cardinality(Outstanding) /\ compute_started = Cardinality(Timed)
      BY CountedFinite DEF IInv
    <2> QED  BY <1>2, <1>4, <2>1, <2>2, BalancedAfter
  <1>9. TypeOK'
    <2>1. /\ {nic', cpu'} \subseteq [Member -> SUBSET {NullEvent(h) : h \in Member}]
          /\ time' \in [Node -> SUBSET Event]
      BY <1>1 DEF IInv, TypeOK, Pass
    <2> QED  BY <1>1, <1>2, <2>1 DEF IInv, TypeOK, NullEvent
  <1> QED  BY <1>4, <1>5, <1>6, <1>7, <1>8, <1>9 DEF IInv

-----------------------------------------------------------------------------
(* Events                                                                   *)

LEMMA EventPast ==
    ASSUME IInv, simulating, NEW e \in due, due' = due \ {e},
           UNCHANGED <<later, nic, cpu, time, until, sent_once>>,
           ReturnControl \/ GoOn, \A o \in Op : Came(o)' = Came(o),
           \A o, h : e # Emission(o, h)
    PROVE  /\ ControlFits' /\ ClocksFit' /\ EventsFit'
           /\ have_more' \in BOOLEAN /\ simulating' \in BOOLEAN
           /\ \A x : x # e => (x \in Pending' <=> x \in Pending)
           /\ e \in Pending' => \E o \in Op : e = Stray(o)
  <1>1. ~have_more /\ until = {} /\ have_more \in BOOLEAN
    BY DEF IInv, ControlFits, Dispatching, TypeOK
  <1>2. /\ have_more' \in BOOLEAN /\ simulating' \in BOOLEAN
        /\ simulating' => ~have_more'
        /\ ~simulating' /\ ~have_more' => due' = {}
    <2>1. CASE ReturnControl
      <3>1. simulating' = FALSE /\ have_more' = (due' # {})
        BY <2>1 DEF ReturnControl
      <3> QED  BY <3>1
    <2>2. CASE GoOn
      <3>1. simulating' = (due' \union later' # {}) /\ have_more' = have_more
        BY <2>2 DEF GoOn
      <3>2. simulating' \in BOOLEAN /\ (simulating' <=> due' \union later' # {})
        BY <3>1
      <3> QED  BY <1>1, <3>1, <3>2
    <2> QED  BY <2>1, <2>2
  <1>3. ControlFits' /\ ClocksFit'
    BY <1>1, <1>2, ClocksIdle DEF IInv, ControlFits, Dispatching, NullEvent
  <1>4. \A x : x # e => (x \in Pending' <=> x \in Pending)
    BY DEF Pending
  <1>5. e \in Pending' => \E o \in Op : e = Stray(o)
    BY DEF Pending, IInv, EventsFit
  <1>6. EventsFit'
    <2>1. \A x \in due' \intersect later' : \E o \in Op : x = Stray(o)
      BY DEF IInv, EventsFit
    <2>2. \A x \in Pending' : x \in Pending
      BY DEF Pending
    <2>3. \A o \in Op, h \in Member : Emission(o, h) \notin later'
      BY DEF IInv, EventsFit
    <2> QED  BY <2>1, <2>2, <2>3, EventsKept
  <1> QED  BY <1>2, <1>3, <1>4, <1>5, <1>6

LEMMA WaitOver ==
    ASSUME IInv, simulating, NEW e \in due, due' = due \ {e}, e \in TimedEvents,
           compute_started' = compute_started - 1, ReturnControl,
           UNCHANGED <<dep_cnt, executableNodes, queued, computing, markers, msgs,
                       rq, uq, nic, cpu, time, until, finished, coll, remaining, sent_once,
                       later, sends_active>>
    PROVE  IInv'
  <1>1. /\ \A o, h : e # Emission(o, h) /\ e # LastPacket(o, h)
        /\ \A o : e # Stray(o) /\ \A n : e # FlowOver(n)
    BY KindsApart DEF TimedEvents
  <1>2. \A o \in Op : Came(o)' = Came(o)
    BY GraphIdle
  <1>3. /\ ControlFits' /\ ClocksFit' /\ EventsFit'
        /\ have_more' \in BOOLEAN /\ simulating' \in BOOLEAN
        /\ \A x : x # e => (x \in Pending' <=> x \in Pending)
        /\ e \notin Pending'
    BY <1>1, <1>2, EventPast
  <1>4. /\ EachNodeOnce' /\ PlacesFit' /\ DepsCounted' /\ PairsMeet'
        /\ Outstanding' = Outstanding
    <2>1. /\ \A x \in Node : FlowOver(x) \in Pending' <=> FlowOver(x) \in Pending
          /\ \A x \in Node : CalcEnd(x) \in Pending' => CalcEnd(x) \in Pending
      BY <1>1, <1>3
    <2> QED  BY <2>1, NodesStay
  <1>5. Phases'
    <2>1. \A o \in Op, h \in Member :
              LastPacket(o, h) \in Pending' <=> LastPacket(o, h) \in Pending
      BY <1>1, <1>3
    <2> QED  BY <1>2, <2>1, PhasesKept
  <1>6. CountersBalanced' /\ sends_active' \in Nat /\ compute_started' \in Nat
    <2>1. e \in Timed
      BY DEF Timed, Pending
    <2>2. Timed' = Timed \ {e}
      BY <1>3 DEF Timed, TimedEvents, CalcEnd, NullEvent
    <2>3. Cardinality(Timed') = Cardinality(Timed) - 1
      BY <2>1, <2>2, CountedFinite, FS_RemoveElement
    <2>4. sends_active = Cardinality(Outstanding) /\ compute_started = Cardinality(Timed)
      BY CountedFinite DEF IInv
    <2> QED  BY <1>4, <2>3, <2>4, BalancedAfter
  <1>7. TypeOK'
    BY <1>3, <1>6 DEF IInv, TypeOK
  <1> QED  BY <1>3, <1>4, <1>5, <1>6, <1>7 DEF IInv

LEMMA ComputeOverStep ==
    ASSUME IInv, NEW n \in Node, compute_over(n)
    PROVE  IInv'
  <1>1. CalcEnd(n) \in TimedEvents
    BY DEF TimedEvents
  <1> QED  BY <1>1, WaitOver DEF compute_over, graph, aq, matching, clocks

LEMMA NullOverStep ==
    ASSUME IInv, NEW h \in Member, null_over(h)
    PROVE  IInv'
  <1>1. NullEvent(h) \in TimedEvents
    BY DEF TimedEvents
  <1> QED  BY <1>1, WaitOver DEF null_over, graph, aq, matching, clocks

LEMMA FlowOverStep ==
    ASSUME IInv, NEW n \in Node, flow_over(n)
    PROVE  IInv'
  <1>1. /\ simulating /\ FlowOver(n) \in due /\ due' = due \ {FlowOver(n)}
        /\ sends_active' = sends_active - 1 /\ msgs' = msgs \union {n}
        /\ ReturnControl
        /\ UNCHANGED <<dep_cnt, executableNodes, queued, computing, markers, rq,
                       uq, nic, cpu, time, until, finished, coll, remaining, sent_once,
                       later, compute_started>>
    BY DEF flow_over, graph, matching, clocks
  <1>2. /\ DepsCounted' /\ \A o \in Op : Came(o)' = Came(o)
    BY <1>1, GraphIdle
  <1>3. /\ ControlFits' /\ ClocksFit' /\ EventsFit'
        /\ have_more' \in BOOLEAN /\ simulating' \in BOOLEAN
        /\ \A x : x # FlowOver(n) => (x \in Pending' <=> x \in Pending)
        /\ FlowOver(n) \notin Pending'
    BY <1>1, <1>2, KindsApart, EventPast
  <1>4. /\ \A x : CalcEnd(x) \in Pending' <=> CalcEnd(x) \in Pending
        /\ \A o, h : LastPacket(o, h) \in Pending' <=> LastPacket(o, h) \in Pending
        /\ \A x : FlowOver(x) \in Pending' <=> FlowOver(x) \in Pending /\ x # n
    BY <1>3, KindsApart, EventsApart
  <1>5. \A x \in Node : Recorded(x)' <=> Recorded(x)
    BY <1>1, RecordedSame
  <1>6. FlowOver(n) \in Pending /\ ~Recorded(n) /\ n \notin msgs
    <2>1. One(dep_cnt[n] > 0) + One(n \in executableNodes)
          + One(n \in queued) + One(n \in computing)
          + One(Recorded(n)) + One(FlowOver(n) \in Pending)
          + One(n \in msgs) + One(n \in InRq) + One(n \in InUq)
          + markers[n] + finished[n] = 1
      BY DEF IInv, EachNodeOnce, Pending, InRq, InUq
    <2>2. markers[n] \in Nat /\ finished[n] \in Nat /\ FlowOver(n) \in Pending
      BY <1>1 DEF IInv, TypeOK, Pending
    <2> QED  BY <2>1, <2>2 DEF One
  <1>7. EachNodeOnce'
    <2>1. markers' \in [Node -> Nat] /\ \A x \in Node : markers[x] \in Nat
      BY <1>1 DEF IInv, TypeOK
    <2>2. \A x \in Node :
             One(x \in computing) + One(Recorded(x)) + One(FlowOver(x) \in Pending)
               + One(x \in msgs) + One(x \in InRq) + One(x \in InUq) + markers[x]
             = One(x \in computing') + One(Recorded(x)') + One(FlowOver(x) \in Pending')
                 + One(x \in msgs') + One(x \in InRq') + One(x \in InUq') + markers'[x]
      BY <1>1, <1>4, <1>5, <1>6, <2>1, QueuesSame DEF One
    <2> QED  BY <1>1, <2>1, <2>2, PlacesMove
  <1>8. Phases'
    BY <1>1, <1>2, <1>4, PhasesKept
  <1>9. PlacesFit' /\ Task[n] = Send
    BY <1>1, <1>4, <1>6 DEF IInv, PlacesFit, FlowOver, CalcEnd
  <1>10. PairsMeet'
    BY <1>1, PairsKept
  <1>11. CountersBalanced' /\ sends_active' \in Nat /\ compute_started' \in Nat
    <2>1. Outstanding' = Outstanding \ {n} /\ n \in Outstanding
      BY <1>4, <1>5, <1>6 DEF Outstanding, FlowOver
    <2>2. Timed' = Timed
      <3>1. \A x \in TimedEvents : x # FlowOver(n)
        BY KindsApart DEF TimedEvents
      <3> QED  BY <1>3, <3>1 DEF Timed, TimedEvents, CalcEnd, NullEvent
    <2>3. Cardinality(Outstanding') = Cardinality(Outstanding) - 1
      BY <2>1, CountedFinite, FS_RemoveElement
    <2>4. sends_active = Cardinality(Outstanding) /\ compute_started = Cardinality(Timed)
      BY CountedFinite DEF IInv
    <2> QED  BY <1>1, <2>2, <2>3, <2>4, BalancedAfter
  <1>12. TypeOK'
    BY <1>1, <1>3, <1>9, <1>11 DEF IInv, TypeOK
  <1> QED  BY <1>2, <1>3, <1>7, <1>8, <1>9, <1>10, <1>11, <1>12 DEF IInv

LEMMA PassStrayStep ==
    ASSUME IInv, NEW o \in Op, PassStray(o)
    PROVE  IInv'
  <1>1. /\ simulating /\ Stray(o) \in due /\ due' = due \ {Stray(o)} /\ GoOn
        /\ UNCHANGED <<dep_cnt, executableNodes, queued, computing, markers, msgs,
                       rq, uq, nic, cpu, time, until, finished, coll, remaining, sent_once,
                       later, sends_active, compute_started>>
    BY DEF PassStray, graph, aq, matching, clocks, counts
  <1>2. \A p \in Op : Came(p)' = Came(p)
    BY <1>1, GraphIdle
  <1>3. /\ ControlFits' /\ ClocksFit' /\ EventsFit'
        /\ have_more' \in BOOLEAN /\ simulating' \in BOOLEAN
        /\ \A x : x # Stray(o) => (x \in Pending' <=> x \in Pending)
    BY <1>1, <1>2, KindsApart, EventPast
  <1>4. /\ \A x : CalcEnd(x) \in Pending' <=> CalcEnd(x) \in Pending
        /\ \A p, h : LastPacket(p, h) \in Pending' <=> LastPacket(p, h) \in Pending
        /\ \A x : FlowOver(x) \in Pending' <=> FlowOver(x) \in Pending
    BY <1>3, KindsApart
  <1>5. /\ EachNodeOnce' /\ PlacesFit' /\ DepsCounted' /\ PairsMeet'
        /\ Outstanding' = Outstanding
    BY <1>1, <1>4, NodesStay
  <1>6. Phases'
    BY <1>1, <1>2, <1>4, PhasesKept
  <1>7. CountersBalanced' /\ sends_active' \in Nat /\ compute_started' \in Nat
    <2>1. Timed' = Timed
      <3>1. \A x \in TimedEvents : x # Stray(o)
        BY KindsApart DEF TimedEvents
      <3> QED  BY <1>3, <3>1 DEF Timed, TimedEvents, CalcEnd, NullEvent
    <2>2. sends_active = Cardinality(Outstanding) /\ compute_started = Cardinality(Timed)
      BY CountedFinite DEF IInv
    <2> QED  BY <1>1, <1>5, <2>1, <2>2, BalancedAfter
  <1>8. TypeOK'
    BY <1>1, <1>3, <1>7 DEF IInv, TypeOK
  <1> QED  BY <1>3, <1>5, <1>6, <1>7, <1>8 DEF IInv

LEMMA EmitOnceStep ==
    ASSUME IInv, NEW o \in Op, NEW h \in Member, EmitOnce(o, h)
    PROVE  IInv'
  <1> DEFINE fed == Supplied(o, sent_once') \ Supplied(o, sent_once)
  <1>1. /\ simulating /\ Emission(o, h) \in due /\ due' = due \ {Emission(o, h)}
        /\ sent_once' = sent_once \union {<<o, h>>}
        /\ later' = later \union {Stray(o)} \union {LastPacket(o, m) : m \in fed}
        /\ GoOn
        /\ UNCHANGED <<dep_cnt, executableNodes, queued, computing, markers, msgs,
                       rq, uq, nic, cpu, time, until, finished, coll, remaining,
                       sends_active, compute_started>>
    BY DEF EmitOnce, graph, aq, matching, clocks, counts
  <1>2. \A p \in Op : Came(p)' = Came(p)
    BY <1>1, GraphIdle
  <1>3. fed \subseteq Receivers(o) /\ Receivers(o) \subseteq Member
    BY SourcesCover DEF Supplied
  <1>4. \A p \in Op : /\ Supplied(p, sent_once) \subseteq Supplied(p, sent_once')
                      /\ p # o => Supplied(p, sent_once') = Supplied(p, sent_once)
                      /\ Supplied(p, sent_once)' = Supplied(p, sent_once')
    BY <1>1 DEF Supplied
  <1> HIDE DEF fed
  <1>5. /\ \A x : CalcEnd(x) \in Pending' <=> CalcEnd(x) \in Pending
        /\ \A x : FlowOver(x) \in Pending' <=> FlowOver(x) \in Pending
        /\ \A x : NullEvent(x) \in Pending' <=> NullEvent(x) \in Pending
        /\ \A x : NullEvent(x) \in later' <=> NullEvent(x) \in later
        /\ \A p, i : LastPacket(p, i) \in Pending' <=>
                       LastPacket(p, i) \in Pending \/ (p = o /\ i \in fed)
        /\ \A p, i : Emission(p, i) \in later' <=> Emission(p, i) \in later
        /\ \A p, i : Emission(p, i) \in due' <=>
                       Emission(p, i) \in due /\ ~(p = o /\ i = h)
    BY <1>1, KindsApart, EventsApart DEF Pending
  <1>6. /\ EachNodeOnce' /\ PlacesFit' /\ DepsCounted' /\ PairsMeet'
        /\ Outstanding' = Outstanding
    BY <1>1, <1>5, NodesStay
  <1>7. ASSUME NEW p \in Op PROVE Got(p)' = Got(p)
    <2>1. CASE p # o
      <3>1. \A i : LastPacket(p, i) \in Pending' <=> LastPacket(p, i) \in Pending
        BY <1>5, <2>1
      <3>2. \A i : Received(p, i)' <=> Received(p, i)
        BY <1>4, <2>1, <3>1 DEF Received, Pending, LastPacket
      <3> QED  BY <3>2 DEF Got
    <2>2. CASE p = o
      <3>1. ASSUME NEW i \in Receivers(o) PROVE Received(o, i)' <=> Received(o, i)
        <4>1. /\ i \in fed <=> i \in Supplied(o, sent_once') /\ i \notin Supplied(o, sent_once)
              /\ LastPacket(o, i) \in Pending' <=> LastPacket(o, i) \in Pending \/ i \in fed
          BY <1>5 DEF fed
        <4>2. Received(o, i)' <=> i \in Supplied(o, sent_once') /\ LastPacket(o, i) \notin Pending'
          BY <1>4 DEF Received, Pending, LastPacket
        <4>3. Received(o, i) <=> i \in Supplied(o, sent_once) /\ LastPacket(o, i) \notin Pending
          BY DEF Received, Pending
        <4> QED  BY <1>4, <4>1, <4>2, <4>3
      <3> QED  BY <2>2, <3>1 DEF Got
    <2> QED  BY <2>1, <2>2
  <1>8. Phases'
    <2> SUFFICES ASSUME NEW p \in Op
                 PROVE  (Unheard(p) \/ Open(p) \/ Partly(p) \/ Over(p))'
      BY DEF Phases
    <2>1. Unheard(p) \/ Open(p) \/ Partly(p) \/ Over(p)
      BY DEF IInv, Phases
    <2> QED  BY <1>1, <1>2, <1>7, <2>1, PhaseOfOther
  <1>9. EventsFit'
    <2>1. ASSUME NEW x \in due' \intersect later' PROVE \E p \in Op : x = Stray(p)
      <3>1. x \in due /\ x \in Pending
        BY <1>1 DEF Pending
      <3>2. CASE x \in later
        BY <3>1, <3>2 DEF IInv, EventsFit
      <3>3. ASSUME NEW m \in fed, x = LastPacket(o, m) PROVE FALSE
        <4>1. m \in Supplied(o, sent_once)
          BY <1>3, <3>1, <3>3 DEF IInv, EventsFit
        <4> QED  BY <4>1 DEF fed
      <3> QED  BY <1>1, <3>2, <3>3
    <2>2. ASSUME NEW p \in Op, NEW i \in Member
          PROVE  /\ Emission(p, i) \notin later'
                 /\ Emission(p, i) \in due' \/ <<p, i>> \in sent_once'
                      <=> i \in Emitters(p) /\ Here(p, i)'
                 /\ ~(Emission(p, i) \in due' /\ <<p, i>> \in sent_once')
                 /\ LastPacket(p, i) \in Pending' => i \in Supplied(p, sent_once)'
      <3>1. /\ Emission(p, i) \notin later
            /\ Emission(p, i) \in due \/ <<p, i>> \in sent_once
                 <=> i \in Emitters(p) /\ Here(p, i)
            /\ ~(Emission(p, i) \in due /\ <<p, i>> \in sent_once)
            /\ LastPacket(p, i) \in Pending => i \in Supplied(p, sent_once)
        BY DEF IInv, EventsFit
      <3>2. Here(p, i)' <=> Here(p, i)
        BY <1>2 DEF Here
      <3>3. <<p, i>> \in sent_once' <=> <<p, i>> \in sent_once \/ (p = o /\ i = h)
        BY <1>1
      <3>4. LastPacket(p, i) \in Pending' => i \in Supplied(p, sent_once)'
        BY <1>4, <1>5, <3>1 DEF fed
      <3> QED  BY <1>1, <1>5, <3>1, <3>2, <3>3, <3>4
    <2> QED  BY <2>1, <2>2 DEF EventsFit, Emission, LastPacket, Stray
  <1>10. /\ ~have_more /\ until = {}
    BY <1>1 DEF IInv, ControlFits, Dispatching
  <1>11. /\ have_more' = have_more /\ simulating' \in BOOLEAN
         /\ simulating' <=> due' \union later' # {}
    BY <1>1 DEF GoOn
  <1>12. ControlFits' /\ ClocksFit'
    <2>1. ~simulating' => due' = {}
      BY <1>11
    <2> QED  BY <1>1, <1>5, <1>10, <1>11, <2>1 DEF IInv, ControlFits, ClocksFit, Dispatching, NullEvent
  <1>13. CountersBalanced' /\ sends_active' \in Nat /\ compute_started' \in Nat
    <2>1. Timed' = Timed
      BY <1>5 DEF Timed, TimedEvents, CalcEnd, NullEvent
    <2>2. sends_active = Cardinality(Outstanding) /\ compute_started = Cardinality(Timed)
      BY CountedFinite DEF IInv
    <2> QED  BY <1>1, <1>6, <2>1, <2>2, BalancedAfter
  <1>14. TypeOK'
    <2>1. due' \subseteq Event /\ later' \subseteq Event
      BY <1>1, <1>3, EventsTyped DEF IInv, TypeOK
    <2>2. sent_once' \subseteq Op \X Member
      BY <1>1 DEF IInv, TypeOK
    <2> QED  BY <1>1, <1>11, <1>13, <2>1, <2>2 DEF IInv, TypeOK
  <1> QED  BY <1>6, <1>8, <1>9, <1>12, <1>13, <1>14 DEF IInv

(* A last packet comes to a receiver that lacked it, while its operation    *)
(* waits.                                                                   *)
LEMMA LastPacketFacts ==
    ASSUME IInv, NEW o \in Op, NEW h \in Member, LastPacket(o, h) \in due
    PROVE  /\ h \in Receivers(o) \ Got(o) /\ h \in Supplied(o, sent_once)
           /\ LastPacket(o, h) \notin later /\ Open(o)
  <1>1. h \in Supplied(o, sent_once) /\ LastPacket(o, h) \notin later
    <2>1. LastPacket(o, h) \in Pending
      BY DEF Pending
    <2>2. h \in Supplied(o, sent_once)
      BY <2>1 DEF IInv, EventsFit
    <2>3. \A p : LastPacket(o, h) # Stray(p)
      BY KindsApart
    <2>4. LastPacket(o, h) \notin due \intersect later
      BY <2>3 DEF IInv, EventsFit
    <2> QED  BY <2>2, <2>4
  <1>2. h \in Receivers(o) \ Got(o)
    BY <1>1 DEF Supplied, Got, Received
  <1>3. ~Unheard(o)
    <2>1. PICK s \in Sources(o, h) : <<o, s>> \in sent_once
      BY <1>1, <1>2, SourcesCover DEF Supplied
    <2>2. s \in Member
      BY <2>1 DEF IInv, TypeOK
    <2>3. Here(o, s)
      BY <2>1, <2>2 DEF IInv, EventsFit
    <2> QED  BY <2>3 DEF Here, Unheard
  <1>4. ~Partly(o) /\ ~Over(o)
    BY <1>2 DEF Partly, Over, Happened
  <1> QED  BY <1>1, <1>2, <1>3, <1>4 DEF IInv, Phases

LEMMA ActivateBarrierStep ==
    ASSUME IInv, NEW o \in Op, NEW h \in Member, ActivateBarrier(o, h)
    PROVE  IInv'
  <1>1. /\ simulating /\ LastPacket(o, h) \in due
        /\ due' = due \ {LastPacket(o, h)}
        /\ remaining' = [remaining EXCEPT ![o] = @ - 1]
        /\ UNCHANGED <<dep_cnt, executableNodes, queued, computing, msgs, rq, uq,
                       nic, cpu, time, until, finished, sent_once, later, compute_started>>
        /\ IF remaining[o] = 1 THEN collective_complete(o)
           ELSE GoOn /\ UNCHANGED <<markers, sends_active, coll>>
    BY DEF ActivateBarrier, Fires, graph, matching, clocks
  <1>2. /\ h \in Receivers(o) \ Got(o) /\ h \in Supplied(o, sent_once)
        /\ LastPacket(o, h) \notin later /\ Open(o)
    BY <1>1, LastPacketFacts
  <1>3. DepsCounted' /\ \A p \in Op : Came(p)' = Came(p)
    BY <1>1, GraphIdle
  <1>4. /\ ControlFits' /\ ClocksFit' /\ EventsFit'
        /\ have_more' \in BOOLEAN /\ simulating' \in BOOLEAN
        /\ \A x : x # LastPacket(o, h) => (x \in Pending' <=> x \in Pending)
        /\ LastPacket(o, h) \notin Pending'
    <2>1. ReturnControl \/ GoOn
      BY <1>1 DEF collective_complete
    <2> QED  BY <1>1, <1>3, <2>1, KindsApart, EventPast
  <1>5. /\ \A x : CalcEnd(x) \in Pending' <=> CalcEnd(x) \in Pending
        /\ \A x : FlowOver(x) \in Pending' <=> FlowOver(x) \in Pending
        /\ \A p, i : LastPacket(p, i) \in Pending' <=>
                       LastPacket(p, i) \in Pending /\ ~(p = o /\ i = h)
    BY <1>4, KindsApart, EventsApart
  <1>6. Got(o)' = Got(o) \union {h} /\ \A p \in Op : p # o => Got(p)' = Got(p)
    <2>1. \A p, i : Received(p, i)' <=> Received(p, i) \/ (p = o /\ i = h)
      <3> SUFFICES ASSUME NEW p, NEW i
                   PROVE  Received(p, i)' <=> Received(p, i) \/ (p = o /\ i = h)
        OBVIOUS
      <3>1. Supplied(p, sent_once)' = Supplied(p, sent_once)
        BY <1>1 DEF Supplied
      <3>2. Received(p, i)' <=> i \in Supplied(p, sent_once) /\ LastPacket(p, i) \notin Pending'
        BY <3>1 DEF Received, Pending, LastPacket
      <3>3. Received(p, i) <=> i \in Supplied(p, sent_once) /\ LastPacket(p, i) \notin Pending
        BY DEF Received, Pending
      <3> QED  BY <1>2, <1>5, <3>2, <3>3
    <2> QED  BY <1>2, <2>1 DEF Got
  <1>7. /\ Cardinality(Receivers(o) \ Got(o)') = remaining[o] - 1
        /\ IsFiniteSet(Receivers(o) \ Got(o)') /\ remaining[o] \in Nat
        /\ Cardinality(Receivers(o) \ Got(o)') \in Nat
    <2>1. IsFiniteSet(Receivers(o) \ Got(o))
      BY ActivationsCount, FS_Difference
    <2>2. Receivers(o) \ Got(o)' = (Receivers(o) \ Got(o)) \ {h}
      BY <1>6
    <2>3. remaining[o] = Cardinality(Receivers(o) \ Got(o))
      BY <1>2 DEF Open
    <2>4. /\ Cardinality((Receivers(o) \ Got(o)) \ {h})
               = Cardinality(Receivers(o) \ Got(o)) - 1
          /\ IsFiniteSet((Receivers(o) \ Got(o)) \ {h})
      BY <1>2, <2>1, FS_RemoveElement
    <2>5. /\ Cardinality(Receivers(o) \ Got(o)) \in Nat
          /\ Cardinality((Receivers(o) \ Got(o)) \ {h}) \in Nat
      BY <2>1, <2>4, FS_CardinalityType
    <2> QED  BY <2>2, <2>3, <2>4, <2>5
  <1>8. /\ remaining' \in [Op -> Nat] /\ remaining'[o] = remaining[o] - 1
        /\ \A p \in Op : p # o => remaining'[p] = remaining[p]
    BY <1>1, <1>7 DEF IInv, TypeOK
  <1>9. Timed' = Timed
    <2>1. \A x \in TimedEvents : x # LastPacket(o, h)
      BY KindsApart DEF TimedEvents
    <2> QED  BY <1>4, <2>1 DEF Timed, TimedEvents, CalcEnd, NullEvent
  <1>10. sends_active = Cardinality(Outstanding) /\ compute_started = Cardinality(Timed)
         /\ IsFiniteSet(Outstanding) /\ Cardinality(Outstanding) \in Nat
    BY CountedFinite DEF IInv
  <1>11. PairsMeet'
    BY <1>1, PairsKept
  <1>12. ASSUME NEW p \in Op, p # o, p \in DOMAIN coll' <=> p \in DOMAIN coll,
                p \in DOMAIN coll => coll'[p] = coll[p]
         PROVE  (Unheard(p) \/ Open(p) \/ Partly(p) \/ Over(p))'
    <2>1. Unheard(p) \/ Open(p) \/ Partly(p) \/ Over(p)
      BY DEF IInv, Phases
    <2> QED  BY <1>3, <1>6, <1>8, <1>12, <2>1, PhaseOfOther
  <1>13. /\ \A x \in Node : markers[x] \in Nat
         /\ markers \in [Node -> Nat]
         /\ DOMAIN coll \subseteq Op
         /\ \A p \in DOMAIN coll :
              coll[p] \in [arrived : 0..Len(Group), completed : BOOLEAN,
                           rank_nodes : SUBSET Node]
    BY DEF IInv, TypeOK
  <1>14. CASE remaining[o] # 1
    <2>1. UNCHANGED <<markers, sends_active, coll>>
      BY <1>1, <1>14
    <2>2. /\ EachNodeOnce' /\ PlacesFit' /\ Outstanding' = Outstanding
      BY <1>1, <1>5, <2>1, NodesStay
    <2>3. Open(o)'
      BY <1>2, <1>3, <1>7, <1>8, <1>14, <2>1 DEF Open
    <2>4. Phases'
      BY <1>12, <2>1, <2>3 DEF Phases
    <2>5. CountersBalanced' /\ sends_active' \in Nat /\ compute_started' \in Nat
      BY <1>1, <1>9, <1>10, <2>1, <2>2, BalancedAfter
    <2>6. TypeOK'
      BY <1>1, <1>4, <1>8, <2>1, <2>5 DEF IInv, TypeOK
    <2> QED  BY <1>3, <1>4, <1>11, <2>2, <2>4, <2>5, <2>6 DEF IInv
  <1>15. CASE remaining[o] = 1
    <2> DEFINE st == Completed(coll[o])
    <2>1. /\ push_coll_done(coll[o].rank_nodes, sends_active) /\ Store(o, st)
      BY <1>1, <1>15 DEF collective_complete
    <2>2. coll[o].rank_nodes = Came(o) /\ o \in DOMAIN coll
          /\ coll[o].arrived = Cardinality(Came(o))
      BY <1>2 DEF Open
    <2>3. /\ st.arrived = Cardinality(Came(o)) /\ st.completed /\ st.rank_nodes = {}
          /\ st.completed \in BOOLEAN
          /\ st = [arrived |-> st.arrived, completed |-> st.completed,
                   rank_nodes |-> st.rank_nodes]
      <3> DEFINE r == coll[o]
                 s == [[r EXCEPT !.completed = TRUE] EXCEPT !.rank_nodes = {}]
      <3>1. r \in [arrived : 0..Len(Group), completed : BOOLEAN,
                   rank_nodes : SUBSET Node]
        BY <1>13, <2>2
      <3> HIDE DEF r
      <3>2. s \in [arrived : 0..Len(Group), completed : BOOLEAN,
                   rank_nodes : SUBSET Node]
        BY <3>1
      <3>3. s.arrived = r.arrived /\ s.completed /\ s.rank_nodes = {}
        BY <3>1
      <3>4. st = s
        BY DEF Completed, r
      <3> HIDE DEF s
      <3> QED  BY <2>2, <3>2, <3>3, <3>4 DEF r
    <2>4. /\ o \in DOMAIN coll' <=> Cardinality(Came(o)) # Len(Group)
          /\ o \in DOMAIN coll' => coll'[o] = st
          /\ \A p : p # o => (p \in DOMAIN coll' <=> p \in DOMAIN coll)
          /\ \A p \in DOMAIN coll : p # o => coll'[p] = coll[p]
      BY <2>1, <2>2, <2>3 DEF Store
    <2> HIDE DEF st
    <2>5. /\ Came(o) \subseteq Node
          /\ \A x \in Node : markers'[x] = markers[x] + One(x \in Came(o))
          /\ markers' \in [Node -> Nat]
          /\ sends_active' = sends_active - Cardinality(Came(o))
      BY <1>13, <2>1, <2>2 DEF push_coll_done, One, Came, Started
    <2>6. Happened(o)'
      <3>1. Receivers(o) \ Got(o)' = {}
        BY <1>7, <1>15, FS_EmptySet
      <3> QED  BY <1>7, <1>8, <1>15, <3>1 DEF Happened
    <2>7. Phases'
      <3>1. CASE Cardinality(Came(o)) # Len(Group)
        <4>1. Cardinality(Came(o)) < Len(Group)
          BY <3>1, CameCount, MembersFinite
        <4>2. Partly(o)'
          BY <1>3, <2>3, <2>4, <2>6, <3>1, <4>1 DEF Partly
        <4> QED  BY <1>12, <2>4, <4>2 DEF Phases
      <3>2. CASE Cardinality(Came(o)) = Len(Group)
        <4>1. Came(o) = NodesOf(o)
          BY <3>2, CameCount
        <4>2. Over(o)'
          BY <1>3, <2>4, <2>6, <3>2, <4>1 DEF Over, NodesOf
        <4> QED  BY <1>12, <2>4, <4>2 DEF Phases
      <3> QED  BY <3>1, <3>2
    <2>8. /\ \A x \in Node : Recorded(x)' <=> Recorded(x) /\ x \notin Came(o)
          /\ \A x \in Came(o) : Recorded(x)
      <3>1. o \in DOMAIN coll' => coll'[o].rank_nodes = {}
        BY <2>3, <2>4
      <3>2. \A p \in DOMAIN coll : p # o => \A x \in coll[p].rank_nodes : x \notin Came(o)
        BY DEF IInv, PlacesFit, Came
      <3> QED  BY <2>2, <2>4, <3>1, <3>2 DEF Recorded
    <2>9. EachNodeOnce'
      <3>1. \A x \in Node :
             One(x \in computing) + One(Recorded(x)) + One(FlowOver(x) \in Pending)
               + One(x \in msgs) + One(x \in InRq) + One(x \in InUq) + markers[x]
             = One(x \in computing') + One(Recorded(x)') + One(FlowOver(x) \in Pending')
                 + One(x \in msgs') + One(x \in InRq') + One(x \in InUq') + markers'[x]
        BY <1>1, <1>5, <1>13, <2>5, <2>8, QueuesSame DEF One
      <3> QED  BY <1>1, <2>5, <3>1, PlacesMove
    <2>10. PlacesFit'
      <3>1. \A p \in DOMAIN coll' : \A x \in coll'[p].rank_nodes : Task[x] = p
        BY <2>3, <2>4 DEF IInv, PlacesFit
      <3>2. \A x \in Node : markers'[x] > 0 => Task[x] \in Op
        BY <1>13, <2>5 DEF IInv, PlacesFit, One, Came
      <3> QED  BY <1>1, <1>5, <3>1, <3>2 DEF IInv, PlacesFit, FlowOver, CalcEnd
    <2>11. CountersBalanced' /\ sends_active' \in Nat /\ compute_started' \in Nat
      <3>1. \A x \in Came(o) : FlowOver(x) \notin Pending
        BY <2>5, <2>8, TasksApart DEF Came, IInv, PlacesFit
      <3>2. Outstanding' = Outstanding \ Came(o) /\ Came(o) \subseteq Outstanding
        BY <1>5, <2>5, <2>8, <3>1 DEF Outstanding, FlowOver
      <3>3. Cardinality(Outstanding') = Cardinality(Outstanding) - Cardinality(Came(o))
        <4>1. Outstanding \intersect Came(o) = Came(o)
          BY <3>2
        <4>2. Cardinality(Outstanding \ Came(o))
                = Cardinality(Outstanding) - Cardinality(Outstanding \intersect Came(o))
          BY <1>10, FS_Difference
        <4> QED  BY <3>2, <4>1, <4>2
      <3> QED  BY <1>1, <1>9, <1>10, <2>5, <3>3, BalancedAfter
    <2>12. TypeOK'
      <3>1. DOMAIN coll' \subseteq Op
        BY <1>13, <2>4
      <3>2. \A p \in DOMAIN coll' :
              /\ coll'[p].completed \in BOOLEAN
              /\ coll'[p] = [arrived |-> coll'[p].arrived,
                             completed |-> coll'[p].completed,
                             rank_nodes |-> coll'[p].rank_nodes]
        <4>1. coll'[o] = st => /\ coll'[o].completed \in BOOLEAN
                               /\ coll'[o] = [arrived |-> coll'[o].arrived,
                                              completed |-> coll'[o].completed,
                                              rank_nodes |-> coll'[o].rank_nodes]
          BY <2>3
        <4>2. \A p \in DOMAIN coll :
                /\ coll[p].completed \in BOOLEAN
                /\ coll[p] = [arrived |-> coll[p].arrived,
                              completed |-> coll[p].completed,
                              rank_nodes |-> coll[p].rank_nodes]
          BY <1>13
        <4> QED  BY <2>4, <4>1, <4>2
      <3>3. \A p \in DOMAIN coll' :
             coll'[p] \in [arrived : 0..Len(Group), completed : BOOLEAN,
                           rank_nodes : SUBSET Node]
        BY <2>7, <3>1, <3>2, EntriesTyped
      <3> QED  BY <1>1, <1>4, <1>8, <2>5, <2>11, <3>1, <3>3 DEF IInv, TypeOK
    <2> QED  BY <1>3, <1>4, <1>11, <2>7, <2>9, <2>10, <2>11, <2>12 DEF IInv
  <1> QED  BY <1>14, <1>15

-----------------------------------------------------------------------------
(* The invariant                                                            *)

LEMMA InitInv ==
    ASSUME Init
    PROVE  IInv
  <1>1. /\ dep_cnt = [n \in Node |-> Cardinality(Requires[n])
                                       + Cardinality(IRequires[n])]
        /\ executableNodes = {} /\ queued = {n \in Node : dep_cnt[n] = 0}
        /\ computing = {} /\ markers = [n \in Node |-> 0]
        /\ msgs = {} /\ until = {}
        /\ rq = [c \in Channels |-> <<>>] /\ uq = [c \in Channels |-> <<>>]
        /\ nic = [h \in Member |-> {}] /\ cpu = [h \in Member |-> {}]
        /\ time = [n \in Node |-> {}]
        /\ finished = [n \in Node |-> 0] /\ coll = <<>>
        /\ remaining = [o \in Op |-> 0] /\ sent_once = {}
        /\ due = {} /\ later = {} /\ sends_active = 0 /\ compute_started = 0
        /\ have_more = FALSE /\ simulating = FALSE
    BY DEF Init
  <1>2. DOMAIN coll = {}
    BY <1>1
  <1>3. dep_cnt \in [Node -> Nat]
    <2>1. \A n \in Node : /\ Cardinality(Requires[n]) \in Nat
                          /\ Cardinality(IRequires[n]) \in Nat
      BY ScheduleAssumption, FS_Subset, FS_CardinalityType
    <2> QED  BY <1>1, <2>1
  <1>4. Started = {} /\ Done = {} /\ \A o : Came(o) = {}
    BY <1>1, <1>3 DEF Started, Done, Came
  <1>5. TypeOK
    <2>1. /\ rq \in [Channels -> Seq(Node)] /\ uq \in [Channels -> Seq(Node)]
          /\ \A c \in Channels : DOMAIN rq[c] = {} /\ DOMAIN uq[c] = {}
      <3>1. <<>> \in Seq(Node) /\ DOMAIN <<>> = {}
        OBVIOUS
      <3> QED  BY <1>1, <3>1
    <2>2. {nic, cpu} \subseteq [Member -> SUBSET {NullEvent(h) : h \in Member}]
      BY <1>1
    <2>3. /\ time \in [Node -> SUBSET Event] /\ markers \in [Node -> Nat]
          /\ finished \in [Node -> Nat] /\ remaining \in [Op -> Nat]
      BY <1>1
    <2> QED  BY <1>1, <1>2, <1>3, <2>1, <2>2, <2>3 DEF TypeOK
  <1>6. EachNodeOnce
    <2>1. Waiting(rq) = {} /\ Waiting(uq) = {}
      BY <1>1 DEF Waiting
    <2> QED  BY <1>1, <1>2, <1>3, <2>1 DEF EachNodeOnce, One, Recorded
  <1>7. PlacesFit
    BY <1>1, <1>2 DEF PlacesFit, Pending
  <1>8. DepsCounted
    <2> SUFFICES ASSUME NEW m \in Node
                 PROVE  dep_cnt[m] = Cardinality(Requires[m] \ Done)
                                       + Cardinality(IRequires[m] \ Started)
      BY DEF DepsCounted
    <2>1. Requires[m] \ Done = Requires[m] /\ IRequires[m] \ Started = IRequires[m]
      BY <1>4
    <2> QED  BY <1>1, <2>1
  <1>9. EventsFit
    BY <1>1, <1>4 DEF EventsFit, Here, Pending
  <1>10. Phases
    BY <1>1, <1>2, <1>4 DEF Phases, Unheard
  <1>11. PairsMeet
    <2>1. \A c \in Channels : DoneOf(Sends(c)) = {} /\ DoneOf(Recvs(c)) = {}
      BY <1>1 DEF DoneOf, Sends, Recvs
    <2>2. \A c \in Channels : rq[c] = <<>> /\ uq[c] = <<>>
      BY <1>1
    <2>3. IsInjective(<<>>)
      BY DEF IsInjective
    <2>4. \A c \in Channels : IsInjective(rq[c]) /\ IsInjective(uq[c])
      BY <2>2, <2>3
    <2>5. \A c \in Channels :
            Cardinality(DoneOf(Sends(c))) = Cardinality(DoneOf(Recvs(c)))
      BY <2>1
    <2> QED  BY <2>2, <2>4, <2>5 DEF PairsMeet
  <1>12. ControlFits /\ ClocksFit
    BY <1>1 DEF ControlFits, ClocksFit
  <1>13. CountersBalanced
    <2>1. Outstanding = {} /\ Timed = {}
      BY <1>1, <1>2 DEF Outstanding, Timed, Recorded, Pending
    <2> QED  BY <1>1, <2>1, FS_EmptySet, CountedFinite
  <1> QED  BY <1>5, <1>6, <1>7, <1>8, <1>9, <1>10, <1>11, <1>12, <1>13 DEF IInv

LEMMA Unchanged ==
    ASSUME IInv, UNCHANGED vars
    PROVE  IInv'
  <1>1. UNCHANGED <<dep_cnt, executableNodes, queued, computing, markers, msgs,
                    rq, uq, nic, cpu, time, until, finished, coll, remaining, sent_once,
                    due, later, sends_active, compute_started, have_more,
                    simulating>>
    BY DEF vars, graph, aq, matching, clocks, network, counts, control
  <1>2. Pending' = Pending
    BY <1>1 DEF Pending
  <1>3. /\ EachNodeOnce' /\ PlacesFit' /\ DepsCounted' /\ PairsMeet'
        /\ \A o \in Op : Came(o)' = Came(o)
    BY <1>1, <1>2, NodesStay
  <1>4. Phases' /\ EventsFit' /\ ControlFits' /\ ClocksFit' /\ CountersBalanced'
    BY <1>1, <1>3, ClocksIdle, NetworkIdle
  <1>5. TypeOK'
    BY <1>1 DEF IInv, TypeOK
  <1> QED  BY <1>3, <1>4, <1>5 DEF IInv

LEMMA NextInv ==
    ASSUME IInv, [Next]_vars
    PROVE  IInv'
  <1>1. ASSUME NEW n \in Node,
               \/ DispatchCalc(n) \/ FinishCalc(n) \/ DispatchColl(n)
               \/ HandleCollDone(n) \/ DispatchSend(n) \/ DispatchRecv(n)
               \/ DispatchMsg(n) \/ PutBack(n) \/ compute_over(n) \/ flow_over(n)
        PROVE  IInv'
    BY <1>1, DispatchCalcStep, FinishCalcStep, DispatchCollStep, CollDoneStep,
       DispatchSendStep, DispatchRecvStep, DispatchMsgStep, PutBackStep,
       ComputeOverStep, FlowOverStep
  <1>2. ASSUME NEW h \in Member, null_over(h) PROVE IInv'
    BY <1>2, NullOverStep
  <1>3. ASSUME NEW o \in Op, PassStray(o) PROVE IInv'
    BY <1>3, PassStrayStep
  <1>4. ASSUME NEW o \in Op, NEW h \in Member,
               EmitOnce(o, h) \/ ActivateBarrier(o, h)
        PROVE  IInv'
    BY <1>4, EmitOnceStep, ActivateBarrierStep
  <1>5. CASE Replenish \/ HandOver \/ CatchUp \/ NextInstant
    BY <1>5, ReplenishStep, HandOverStep, CatchUpStep, NextInstantStep
  <1>6. CASE UNCHANGED vars
    BY <1>6, Unchanged
  <1> QED  BY <1>1, <1>2, <1>3, <1>4, <1>5, <1>6 DEF Next

(* The invariant holds of every schedule: each conjunct says where a node,  *)
(* an event or an operation can be, given what the code has counted.        *)
THEOREM GoalInvariant == Spec => []IInv
  <1>1. Init => IInv
    BY InitInv
  <1>2. IInv /\ [Next]_vars => IInv'
    BY NextInv
  <1> QED  BY <1>1, <1>2, PTL DEF Spec

(* No counter of the bridge goes below zero.                                *)
THEOREM GoalTypeCorrect == Spec => []TypeOK
  <1>1. IInv => TypeOK
    BY DEF IInv
  <1> QED  BY <1>1, GoalInvariant, PTL

(* A node is neither lost nor released twice, however arrivals, events and  *)
(* rounds of the dispatch loop interleave.                                  *)
THEOREM NodesAreKept == Spec => []EachNodeOnce
  <1>1. IInv => EachNodeOnce
    BY DEF IInv
  <1> QED  BY <1>1, GoalInvariant, PTL

(* A node that its operation no longer holds belongs to an operation that   *)
(* has happened: the phases in which others wait record every node that     *)
(* has come.                                                                *)
LEMMA ReleaseFollows ==
    ASSUME IInv
    PROVE  ReleaseSound
  <1>1. ASSUME NEW n \in Node, Task[n] \in Op, markers[n] + finished[n] > 0
        PROVE  /\ \A h \in Emitters(Task[n]) : <<Task[n], h>> \in sent_once
               /\ \A h \in Receivers(Task[n]) : Received(Task[n], h)
    <2> DEFINE o == Task[n]
    <2>1. n \in Started /\ ~Recorded(n)
      BY <1>1, OnePlace
    <2>2. n \in Came(o)
      BY <2>1 DEF Came
    <2> HIDE DEF o
    <2>3. ~Unheard(o) /\ ~Open(o)
      BY <2>1, <2>2 DEF Unheard, Open, Recorded
    <2>4. Happened(o) /\ o \in Op
      BY <1>1, <2>3 DEF IInv, Phases, Partly, Over, o
    <2>5. \A h \in Receivers(o) : Received(o, h)
      BY <2>4 DEF Happened, Got
    <2>6. ASSUME NEW e \in Emitters(o) PROVE <<o, e>> \in sent_once
      <3>1. PICK h \in Receivers(o) : e \in Sources(o, h)
        BY <2>4, SourcesCover
      <3> QED  BY <2>5, <3>1 DEF Received, Supplied
    <2> QED  BY <2>5, <2>6 DEF o
  <1>2. \A c \in Channels :
          Cardinality(DoneOf(Sends(c))) = Cardinality(DoneOf(Recvs(c)))
    BY DEF IInv, PairsMeet
  <1> QED  BY <1>1, <1>2 DEF ReleaseSound

(* A rank gets past a collective only when it has happened, and past a send *)
(* or a receive only together with its other end.                           *)
THEOREM ReleasesAreSound == Spec => []ReleaseSound
  BY ReleaseFollows, GoalInvariant, PTL

(* The counters that keep the network running stand for what is             *)
(* outstanding.                                                             *)
THEOREM CountersStand == Spec => []CountersBalanced
  <1>1. IInv => CountersBalanced
    BY DEF IInv
  <1> QED  BY <1>1, GoalInvariant, PTL

-----------------------------------------------------------------------------
(* Nothing is left                                                          *)

(* The entries of operations are those that Store keeps, and no others.     *)
Entries == coll = [o \in DOMAIN coll |-> coll[o]]

LEMMA EntriesKept ==
    ASSUME Entries, [Next]_vars
    PROVE  Entries'
  <1>1. coll' = coll => Entries'
    BY DEF Entries
  <1>2. \A o, st : Store(o, st) => Entries'
    BY DEF Entries, Store
  <1>3. ASSUME NEW n \in Node, DispatchColl(n) PROVE Entries'
    BY <1>2, <1>3 DEF DispatchColl, launch_collective
  <1>4. ASSUME NEW o \in Op, NEW h \in Member, ActivateBarrier(o, h) PROVE Entries'
    BY <1>1, <1>2, <1>4 DEF ActivateBarrier, collective_complete
  <1>5. ASSUME NEW n \in Node,
               \/ DispatchCalc(n) \/ FinishCalc(n)
               \/ HandleCollDone(n) \/ DispatchSend(n) \/ DispatchRecv(n)
               \/ DispatchMsg(n) \/ PutBack(n) \/ compute_over(n) \/ flow_over(n)
        PROVE  coll' = coll
    BY <1>5 DEF DispatchCalc, FinishCalc, HandleCollDone, DispatchSend,
                DispatchRecv, DispatchMsg, PutBack, compute_over, flow_over
  <1>6. ASSUME NEW h \in Member, null_over(h) PROVE coll' = coll
    BY <1>6 DEF null_over
  <1>7. ASSUME NEW o \in Op, PassStray(o) PROVE coll' = coll
    BY <1>7 DEF PassStray
  <1>8. ASSUME NEW o \in Op, NEW h \in Member, EmitOnce(o, h) PROVE coll' = coll
    BY <1>8 DEF EmitOnce
  <1>9. Replenish \/ HandOver \/ CatchUp \/ NextInstant => coll' = coll
    BY DEF Replenish, HandOver, CatchUp, NextInstant, htsim_simulate_until
  <1>10. UNCHANGED vars => coll' = coll
    BY DEF vars
  <1> QED  BY <1>1, <1>3, <1>4, <1>5, <1>6, <1>7, <1>8, <1>9, <1>10 DEF Next

(* When the loop ends every node is done: the first, along the order of the *)
(* schedule, that is not would have all it needs.                           *)
LEMMA EndFacts ==
    ASSUME IInv, NothingNeedsItself, AsManySendsAsReceives, Ended
    PROVE  \A n \in Node : finished[n] = 1
  <1>1. /\ executableNodes = {} /\ queued = {} /\ computing = {} /\ msgs = {}
        /\ \A n \in Node : markers[n] = 0
        /\ \A n \in Node : ~Recorded(n) /\ FlowOver(n) \notin Pending
    <2>1. \A n \in Node : ~(markers[n] > 0) /\ markers[n] \in Nat
      BY DEF Ended, AqDue, IInv, TypeOK
    <2>2. Outstanding = {}
      BY CountedFinite, FS_EmptySet DEF Ended, IInv
    <2> QED  BY <2>1, <2>2 DEF Ended, Outstanding
  <1>2. ASSUME NEW n \in Node
        PROVE  /\ finished[n] = 1 \/ (dep_cnt[n] > 0 \/ n \in InRq \/ n \in InUq)
               /\ finished[n] = 1 \/ finished[n] = 0
    <2>1. One(dep_cnt[n] > 0) + One(n \in executableNodes)
          + One(n \in queued) + One(n \in computing)
          + One(Recorded(n)) + One(FlowOver(n) \in Pending)
          + One(n \in msgs) + One(n \in InRq) + One(n \in InUq)
          + markers[n] + finished[n] = 1
      BY DEF IInv, EachNodeOnce, Pending, InRq, InUq
    <2>2. markers[n] \in Nat /\ finished[n] \in Nat
      BY DEF IInv, TypeOK
    <2> QED  BY <1>1, <2>1, <2>2 DEF One
  <1> DEFINE open == {n \in Node : finished[n] = 0}
  <1>3. ASSUME NEW n \in Node, dep_cnt[n] > 0
        PROVE  \E m \in Requires[n] \union IRequires[n] : m \in open
    <2>1. dep_cnt[n] = Cardinality(Requires[n] \ Done)
                         + Cardinality(IRequires[n] \ Started)
      BY DEF IInv, DepsCounted
    <2>2. ~(Requires[n] \ Done = {} /\ IRequires[n] \ Started = {})
      <3>1. Cardinality({}) = 0
        BY FS_EmptySet
      <3> QED  BY <1>3, <2>1, <3>1
    <2>3. Requires[n] \subseteq Node /\ IRequires[n] \subseteq Node
      BY ScheduleAssumption
    <2>4. \A m \in Node : m \notin Done => m \in open
      BY <1>2 DEF Done
    <2>5. \A m \in Node : m \notin Started => m \in open
      BY OnePlace
    <2> QED  BY <2>2, <2>3, <2>4, <2>5
  <1>4. ASSUME NEW n \in open PROVE Needed(n) \intersect open # {}
    <2>1. n \in Node /\ (dep_cnt[n] > 0 \/ n \in InRq \/ n \in InUq)
      BY <1>2
    <2>2. \A k \in {n} \union Partners(n) :
            Requires[k] \union IRequires[k] \subseteq Needed(n)
      BY DEF Needed
    <2>3. CASE dep_cnt[n] > 0
      BY <1>3, <2>1, <2>2, <2>3
    <2>4. CASE n \in InRq \union InUq
      <3>1. PICK c \in Channels : n \in Range(rq[c]) \/ n \in Range(uq[c])
        BY <2>4 DEF InRq, InUq, Waiting, Range
      <3>2. /\ Range(rq[c]) \subseteq Recvs(c) /\ Range(uq[c]) \subseteq Sends(c)
            /\ rq[c] = <<>> \/ uq[c] = <<>>
            /\ Cardinality(DoneOf(Sends(c))) = Cardinality(DoneOf(Recvs(c)))
            /\ Cardinality(Sends(c)) = Cardinality(Recvs(c))
        BY QueuesTyped DEF IInv, PairsMeet, AsManySendsAsReceives
      <3>3. /\ IsFiniteSet(Sends(c)) /\ IsFiniteSet(Recvs(c))
            /\ DoneOf(Sends(c)) \subseteq Sends(c) /\ DoneOf(Recvs(c)) \subseteq Recvs(c)
        BY ScheduleAssumption, FS_Subset DEF DoneOf, Sends, Recvs
      <3>4. n \in Recvs(c) \/ n \in Sends(c)
        BY <3>1, <3>2
      <3>5. ASSUME NEW m \in Node, finished[m] = 0, m \notin InRq, m \notin InUq,
                   m \in Partners(n)
            PROVE  Needed(n) \intersect open # {}
        <4>1. dep_cnt[m] > 0
          BY <1>2, <3>5
        <4> QED  BY <1>3, <2>2, <3>5, <4>1
      <3>6. \A m \in Node : m \in InRq \/ m \in InUq =>
              m \in Range(rq[Channel(m)]) \/ m \in Range(uq[Channel(m)])
        BY QueuesProper DEF InRq, InUq, Waiting, Range, Proper
      <3>7. CASE n \in Recvs(c)
        <4>1. n \notin Sends(c) /\ c = Channel(n) /\ Partners(n) = Sends(c)
          BY <3>7, OwnChannel, TasksApart DEF Partners
        <4>2. n \in Range(rq[c]) /\ uq[c] = <<>>
          BY <3>1, <3>2, <4>1 DEF Range
        <4>3. DoneOf(Recvs(c)) # Recvs(c)
          BY <3>7 DEF DoneOf
        <4>4. DoneOf(Sends(c)) # Sends(c)
          BY <3>2, <3>3, <4>3, FS_Subset
        <4>5. PICK m \in Sends(c) : ~(finished[m] > 0)
          BY <4>4 DEF DoneOf
        <4>6. m \in Node /\ finished[m] = 0 /\ Channel(m) = c
          BY <1>2, <4>5, OwnChannel
        <4>7. m \notin InRq /\ m \notin InUq
          BY <3>2, <3>6, <4>2, <4>5, <4>6, OwnChannel, TasksApart DEF Range
        <4> QED  BY <3>5, <4>1, <4>5, <4>6, <4>7
      <3>8. CASE n \in Sends(c)
        <4>1. n \notin Recvs(c) /\ c = Channel(n) /\ Partners(n) = Recvs(c)
          BY <3>8, OwnChannel, TasksApart DEF Partners
        <4>2. n \in Range(uq[c]) /\ rq[c] = <<>>
          BY <3>1, <3>2, <4>1 DEF Range
        <4>3. DoneOf(Sends(c)) # Sends(c)
          BY <3>8 DEF DoneOf
        <4>4. DoneOf(Recvs(c)) # Recvs(c)
          BY <3>2, <3>3, <4>3, FS_Subset
        <4>5. PICK m \in Recvs(c) : ~(finished[m] > 0)
          BY <4>4 DEF DoneOf
        <4>6. m \in Node /\ finished[m] = 0 /\ Channel(m) = c
          BY <1>2, <4>5, OwnChannel
        <4>7. m \notin InRq /\ m \notin InUq
          BY <3>2, <3>6, <4>2, <4>5, <4>6, OwnChannel, TasksApart DEF Range
        <4> QED  BY <3>5, <4>1, <4>5, <4>6, <4>7
      <3> QED  BY <3>4, <3>7, <3>8
    <2> QED  BY <2>1, <2>3, <2>4
  <1>5. open = {}
    BY <1>4 DEF NothingNeedsItself
  <1> QED  BY <1>2, <1>5

LEMMA NothingLeftFollows ==
    ASSUME IInv, Entries, NothingNeedsItself, AsManySendsAsReceives
    PROVE  NoStateLeft
  <1>1. \A o \in Op : remaining[o] > 0 => o \in DOMAIN coll
    <2> SUFFICES ASSUME NEW o \in Op, o \notin DOMAIN coll PROVE remaining[o] = 0
      OBVIOUS
    <2>1. Unheard(o) \/ Over(o)
      BY DEF IInv, Phases, Open, Partly
    <2> QED  BY <2>1 DEF Unheard, Over, Happened
  <1>2. ASSUME Ended
        PROVE  /\ coll = <<>> /\ Waiting(rq) \union Waiting(uq) = {}
               /\ \A n \in Node : finished[n] = 1
    <2>1. \A n \in Node : finished[n] = 1
      BY <1>2, EndFacts
    <2>2. Waiting(rq) \union Waiting(uq) = {}
      <3>1. InRq \subseteq Node /\ InUq \subseteq Node
        BY DEF InRq, InUq, Waiting
      <3>2. InRq = {} /\ InUq = {}
        BY <2>1, <3>1, OnePlace
      <3> QED  BY <3>2 DEF InRq, InUq
    <2>3. ASSUME NEW o \in DOMAIN coll PROVE FALSE
      <3>1. o \in Op
        BY DEF IInv, TypeOK
      <3>2. Came(o) = NodesOf(o)
        BY <2>1, OnePlace DEF Came, NodesOf, Started
      <3>3. ~Open(o)
        <4>1. \A n \in Came(o) : markers[n] + finished[n] > 0 /\ n \in Node
          <5>1. \A n \in Node : markers[n] \in Nat
            BY DEF IInv, TypeOK
          <5> QED  BY <2>1, <5>1 DEF Came, Started
        <4>2. \A n \in Came(o) : ~Recorded(n)
          BY <4>1, OnePlace
        <4> QED  BY <4>2 DEF Open, Recorded
      <3>4. ~Partly(o)
        BY <3>1, <3>2, NodePerMember, MembersFinite DEF Partly
      <3> QED  BY <3>1, <3>3, <3>4 DEF IInv, Phases, Unheard, Over
    <2>4. DOMAIN coll = {}
      BY <2>3
    <2>5. coll = [o \in {} |-> coll[o]]
      BY <2>4 DEF Entries
    <2>6. coll = <<>>
      BY <2>5
    <2> QED  BY <2>1, <2>2, <2>6
  <1> QED  BY <1>1, <1>2 DEF NoStateLeft

(* In a schedule without circular waiting, and with as many sends as        *)
(* receives from each rank to each other with each tag, the main loop ends  *)
(* only when every node is done: no operation's state is left, no message   *)
(* waits for a receive and no receive for a message.                        *)
THEOREM BooksAreBalanced ==
    ASSUME NothingNeedsItself, AsManySendsAsReceives
    PROVE  Spec => []BooksBalanced
  <1>1. Init => Entries
    BY DEF Init, Entries
  <1>2. Spec => []Entries
    BY <1>1, EntriesKept, PTL DEF Spec
  <1>3. IInv /\ Entries => BooksBalanced
    BY NothingLeftFollows DEF BooksBalanced, IInv
  <1> QED  BY <1>2, <1>3, GoalInvariant, PTL
=============================================================================
