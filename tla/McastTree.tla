------------------------------ MODULE McastTree ------------------------------
(***************************************************************************)
(* The multicast trees of the fat tree: set_up_mcast walks the list of     *)
(* groups, chooses a convergence point for each in turn, builds the tree   *)
(* below it (build_mcast_tree) and installs one INCFibEntry per switch.    *)
(* The same entries serve multicast (flood along the tree, reverse-path    *)
(* check) and reduction (wait for every port but the uplink, send up the   *)
(* uplink).  The operators after the actions say what a packet then meets. *)
(*                                                                         *)
(* A port is named by the node at its other end.  Bundled links carry the  *)
(* trees on their first cable only, so one cable per pair is modelled.     *)
(***************************************************************************)
EXTENDS Integers, Sequences, FiniteSets

CONSTANTS
    Pods,         \* pods of a three-tier fabric; a leaf-spine is one pod
    TorsPerPod,   \* _tor_switches_per_pod of the three-tier fabric
    HostsPerTor,  \* _radix_down[TOR_TIER]
    AggsPerPod,   \* _agg_switches_per_pod
    Uplinks,      \* cables of an aggregation switch to different cores
    Pin,          \* values of _mcast_pin_assignment to try; -1 is no pin
    MaxGroups     \* bound: groups of two and more that are set up

ASSUME FabricAssumption ==
    /\ {Pods, TorsPerPod, HostsPerTor, AggsPerPod, Uplinks} \subseteq Nat \ {0}
    /\ Pin \subseteq Int
    /\ MaxGroups \in Nat

Tors == Pods * TorsPerPod
Hosts == 0..(Tors * HostsPerTor - 1)

VARIABLES
    tiers,    \* _tiers of the topology file read
    pin,      \* _mcast_pin_assignment
    rr,       \* rr_counter of set_up_mcast
    members,  \* the group last set up
    fib       \* its INCFibEntry at every switch that has one

vars == <<tiers, pin, rr, members, fib>>

-----------------------------------------------------------------------------
(* Numbering of the fabric.                                                 *)
HOST_POD_SWITCH(h) == h \div HostsPerTor
HOST_POD(h) == IF tiers = 3 THEN h \div (HostsPerTor * TorsPerPod) ELSE 0
TorPod(t) == IF tiers = 3 THEN t \div TorsPerPod ELSE 0
MIN_POD_AGG_SWITCH(pod) == pod * AggsPerPod
AggPod(a) == a \div AggsPerPod

NAGG == IF tiers = 3 THEN Pods * AggsPerPod ELSE AggsPerPod
NCORE == IF tiers = 3 THEN Uplinks * AggsPerPod ELSE 0

Host(h) == <<"host", h>>
Tor(t) == <<"tor", t>>
Agg(a) == <<"agg", a>>
Core(c) == <<"core", c>>

(* The cables init_network lays, as pairs of a node and the one above it.   *)
Cable ==
         {<<Host(h), Tor(HOST_POD_SWITCH(h))>> : h \in Hosts}
    \cup {<<Tor(x[1]), Agg(x[2])>> : x \in
            {y \in (0..(Tors - 1)) \X (0..(NAGG - 1)) :
                TorPod(y[1]) = AggPod(y[2])}}
    \cup {<<Agg(x[1]), Core(x[2])>> : x \in
            {y \in (0..(NAGG - 1)) \X (0..(NCORE - 1)) :
                y[1] % AggsPerPod = y[2] % AggsPerPod}}

-----------------------------------------------------------------------------
(* build_mcast_tree.  A tree node is a switch with the nodes its tree ports *)
(* lead to, and the one its uplink leads to if it has one.                  *)
NoUplink == <<"none", 0>>
TreeNode(down, up) ==
    [ports |-> down \cup ({up} \ {NoUplink}), up |-> up]

MemberTors(ms) == {HOST_POD_SWITCH(h) : h \in ms}
MemberPods(ms) == {HOST_POD(h) : h \in ms}
MultiPod(ms) == Cardinality(MemberPods(ms)) > 1
TorNeedsUplinkAcrossPods(ms) == MultiPod(ms)

TorNeedsUplink(ms) == Cardinality(MemberTors(ms)) > 1 \/ MultiPod(ms)

(* The convergence point of an assignment index.  (Wrong variants, here and *)
(* below: an uplink only across pods; the core of another position; a sink  *)
(* for every host of the ToR; one child fewer at the apex too; a descent    *)
(* through another position.)                                               *)
PodPos(aidx) == aidx % AggsPerPod
ChosenAgg(pod, aidx) == MIN_POD_AGG_SWITCH(pod) + PodPos(aidx)
ChosenCoreUnscaled(aidx) == ((aidx \div AggsPerPod) % Uplinks) + PodPos(aidx)

ChosenCore(aidx) ==
    ((aidx \div AggsPerPod) % Uplinks) * AggsPerPod + PodPos(aidx)

TorNode(ms, aidx, t) ==
    TreeNode({Host(h) : h \in {x \in ms : HOST_POD_SWITCH(x) = t}},
             IF TorNeedsUplink(ms) THEN Agg(ChosenAgg(TorPod(t), aidx))
             ELSE NoUplink)

AggNode(ms, aidx, pod) ==
    TreeNode({Tor(t) : t \in {x \in MemberTors(ms) : TorPod(x) = pod}},
             IF MultiPod(ms) /\ tiers = 3 THEN Core(ChosenCore(aidx))
             ELSE NoUplink)

CoreNode(ms, aidx) ==
    TreeNode({Agg(ChosenAgg(pod, aidx)) : pod \in MemberPods(ms)}, NoUplink)

TreeSwitches(ms, aidx) ==
         {Tor(t) : t \in MemberTors(ms)}
    \cup {Agg(ChosenAgg(pod, aidx)) : pod \in MemberPods(ms)}
    \cup (IF MultiPod(ms) /\ tiers = 3 THEN {Core(ChosenCore(aidx))} ELSE {})

build_mcast_tree(ms, aidx) ==
    [n \in TreeSwitches(ms, aidx) |->
        CASE n[1] = "tor" -> TorNode(ms, aidx, n[2])
          [] n[1] = "agg" -> AggNode(ms, aidx, AggPod(n[2]))
          [] n[1] = "core" -> CoreNode(ms, aidx)]

(* The INCFibEntry of a tree node; addMcastPort then gives every member a   *)
(* leaf route to its sink at the member's own ToR.                          *)
EntryForAll(n, node, ms) ==
    [mask |-> node.ports,
     root |-> node.up,
     leaf |-> {Host(h) : h \in {x \in Hosts : Tor(HOST_POD_SWITCH(x)) = n}}]

EntryOf(n, node, ms) ==
    [mask |-> node.ports,
     root |-> node.up,
     leaf |-> {Host(h) : h \in {x \in ms : Tor(HOST_POD_SWITCH(x)) = n}}]

Init ==
    /\ tiers \in {2, 3}
    /\ pin \in Pin
    /\ rr = 0
    /\ members = {}
    /\ fib = [n \in {} |-> {}]

(* One round of set_up_mcast; groups of fewer than two members are skipped  *)
(* and use up no convergence point.                                         *)
SetUpGroup(ms) ==
    LET aidx == IF pin >= 0 THEN pin ELSE rr
        tree == build_mcast_tree(ms, aidx)
    IN /\ rr < MaxGroups
       /\ Cardinality(ms) > 1
       /\ rr' = rr + 1
       /\ members' = ms
       /\ fib' = [n \in DOMAIN tree |-> EntryOf(n, tree[n], ms)]
       /\ UNCHANGED <<tiers, pin>>

Next == \E ms \in SUBSET Hosts : SetUpGroup(ms)

Spec == Init /\ [][Next]_vars

-----------------------------------------------------------------------------
(* What a multicast packet meets: the switch floods it to the tree ports    *)
(* other than the one it came in by.  A walk is the path of one copy.       *)
Replicas(n, from) == IF n \in DOMAIN fib THEN fib[n].mask \ {from} ELSE {}

Extensions(w) ==
    {Append(w, n) : n \in Replicas(w[Len(w)], w[Len(w) - 1])}

MaxHops == 7
Flood(h) ==
    LET f[k \in 0..MaxHops] ==
          IF k = 0 THEN {<<Host(h), Tor(HOST_POD_SWITCH(h))>>}
          ELSE UNION {Extensions(w) : w \in f[k - 1]}
    IN UNION {f[k] : k \in 0..MaxHops}

(* What a reduce packet meets: each switch passes it to its uplink.         *)
RootPort(n) == IF n[1] = "host" THEN Tor(HOST_POD_SWITCH(n[2])) ELSE fib[n].root

Ascent(h) ==
    LET f[k \in 0..3] == IF k = 0 THEN {Host(h)}
                         ELSE {RootPort(n) : n \in f[k - 1]} \ {NoUplink}
    IN UNION {f[k] : k \in 0..3}

OnAscent == UNION {Ascent(h) : h \in members}
TreeSwitch == OnAscent \cap DOMAIN fib
ApexSwitches == {n \in TreeSwitch : fib[n].root = NoUplink}

ChildrenButOne(n) == Cardinality(fib[n].mask) - 1

expected_children(n) ==
    Cardinality(fib[n].mask) - (IF fib[n].root # NoUplink THEN 1 ELSE 0)

(* What a descending result meets: getNextHop at a switch, all the egress   *)
(* choices it may hash over.                                                *)
CoreDownAcross(c, h) == MIN_POD_AGG_SWITCH(HOST_POD(h)) + (c \div AggsPerPod)

CoreDown(c, h) == MIN_POD_AGG_SWITCH(HOST_POD(h)) + (c % AggsPerPod)

NextHops(n, h) ==
    LET i == n[2]
    IN CASE n[1] = "tor" /\ HOST_POD_SWITCH(h) = i -> {Host(h)}
         [] n[1] = "tor" /\ HOST_POD_SWITCH(h) # i ->
               {Agg(a) : a \in {x \in 0..(NAGG - 1) : AggPod(x) = TorPod(i)}}
         [] n[1] = "agg" /\ HOST_POD(h) = AggPod(i) -> {Tor(HOST_POD_SWITCH(h))}
         [] n[1] = "agg" /\ HOST_POD(h) # AggPod(i) ->
               {Core(l * AggsPerPod + (i % AggsPerPod)) : l \in 0..(Uplinks - 1)}
         [] n[1] = "core" -> {Agg(CoreDown(i, h))}
         [] OTHER -> {}

Descent(a, h) ==
    LET f[k \in 0..3] ==
          IF k = 0 THEN {a}
          ELSE UNION {NextHops(n, h) : n \in f[k - 1]}
    IN f

-----------------------------------------------------------------------------
TypeOK ==
    /\ tiers \in {2, 3} /\ pin \in Pin /\ rr \in 0..MaxGroups
    /\ members \subseteq Hosts
    /\ \A n \in DOMAIN fib :
         /\ fib[n].mask \subseteq {Host(h) : h \in Hosts}
              \cup ({"tor", "agg", "core"} \X Nat)
         /\ fib[n].leaf \subseteq {Host(h) : h \in members}

(* Every tree port exists: each has a cable behind it (the asserts on       *)
(* port_idx_for), and the two ends of a cable agree that it is in the tree. *)
Wired ==
    /\ \A n \in DOMAIN fib : \A m \in fib[n].mask :
         <<n, m>> \in Cable \/ <<m, n>> \in Cable
    /\ \A n \in TreeSwitch : \A m \in fib[n].mask \cap DOMAIN fib :
         n \in fib[m].mask

(* A chunk flooded from any member reaches the sink of every other member   *)
(* over exactly one path, never comes back, and reaches nobody else: the    *)
(* tree is connected, has no cycle and no switch that is a dead end.        *)
FloodExact ==
    \A h \in members :
        LET ends == {w \in Flood(h) : w[Len(w)][1] = "host"}
        IN /\ {w[Len(w)] : w \in ends} = {Host(m) : m \in members \ {h}}
           /\ Cardinality(ends) = Cardinality(members) - 1
           /\ \A w \in ends : w[Len(w)] \in fib[w[Len(w) - 1]].leaf
           /\ \A w \in Flood(h) : Len(w) <= MaxHops
           /\ \A w \in Flood(h) \ ends : Extensions(w) # {}

(* Every switch a contribution passes waits for exactly the nodes that send *)
(* to it, and all the contributions meet at one apex: a barrier that waits  *)
(* for one too many never fires, and one too few loses a contribution.      *)
BarrierMatchesSenders ==
    members # {} =>
        /\ Cardinality(ApexSwitches) = 1
        /\ OnAscent \ {Host(h) : h \in members} \subseteq DOMAIN fib
        /\ \A n \in TreeSwitch :
             expected_children(n) = Cardinality({m \in OnAscent : RootPort(m) = n})

(* A result that turns around at the apex goes down to any member by the    *)
(* links of the tree, with no choice to make on the way.                    *)
DescentOnTree ==
    \A a \in ApexSwitches, h \in members :
        LET d == Descent(a, h)
        IN /\ \A k \in 0..3 : Cardinality(d[k]) <= 1
           /\ \A k \in 0..2 : \A n \in d[k] :
                n[1] # "host" => n \in DOMAIN fib /\ d[k + 1] \subseteq fib[n].mask
           /\ Host(h) \in UNION {d[k] : k \in 0..3}

(* The cables, the port masks of both ends and the routing table that the   *)
(* topology fills in apart from the trees agree on one tree.                *)
RoutesAgree == Wired /\ DescentOnTree
=============================================================================
