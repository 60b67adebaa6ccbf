--------------------------- MODULE McastTreeProofs ---------------------------
(***************************************************************************)
(* Proofs about McastTree, for every size of the fabric: the trees that    *)
(* set_up_mcast installs are sound for flooding, reducing and descending.  *)
(*                                                                         *)
(* The invariant says of the entries, member by member, what the code has  *)
(* built (TreeOf): the ToR of a member, the aggregation switch of its pod  *)
(* and the core above them, with their ports.  That the switches chosen in *)
(* the pods are the ones the core has cables to rests on the div and mod   *)
(* numbering of the fabric, proved first.  The recursions of a flood, an   *)
(* ascent and a descent are bounded: each is unrolled hop by hop.          *)
(***************************************************************************)
EXTENDS McastTree, FiniteSetTheorems, SequenceTheorems, TLAPS

-----------------------------------------------------------------------------
\* Division.

(* Quotient and remainder are what they should be.                         *)
LEMMA Division ==
    ASSUME NEW a \in Nat, NEW b \in Nat \ {0}
    PROVE  /\ a \div b \in Nat /\ a % b \in 0 .. (b - 1)
           /\ a = b * (a \div b) + (a % b)
OBVIOUS

(* They are the only such pair.                                            *)
LEMMA Quotient ==
    ASSUME NEW b \in Nat \ {0}, NEW q \in Nat, NEW r \in 0 .. (b - 1),
           NEW p \in Nat, NEW s \in 0 .. (b - 1), b * q + r = b * p + s
    PROVE  q = p /\ r = s
<1>1. ~(q < p)
  <2> SUFFICES ASSUME q + 1 <= p PROVE FALSE
    OBVIOUS
  <2>1. b * (q + 1) <= b * p
    OBVIOUS
  <2>2. b * (q + 1) = b * q + b
    OBVIOUS
  <2> QED BY <2>1, <2>2
<1>2. ~(p < q)
  <2> SUFFICES ASSUME p + 1 <= q PROVE FALSE
    OBVIOUS
  <2>1. b * (p + 1) <= b * q
    OBVIOUS
  <2>2. b * (p + 1) = b * p + b
    OBVIOUS
  <2> QED BY <2>1, <2>2
<1> QED BY <1>1, <1>2

(* So a number put together from a pair gives the pair back.               *)
LEMMA DivisionIs ==
    ASSUME NEW b \in Nat \ {0}, NEW q \in Nat, NEW r \in 0 .. (b - 1)
    PROVE  (q * b + r) \div b = q /\ (q * b + r) % b = r
<1> DEFINE a == q * b + r
<1>1. a \in Nat /\ a = b * q + r
  OBVIOUS
<1> HIDE DEF a
<1>2. a \div b \in Nat /\ a % b \in 0 .. (b - 1) /\ a = b * (a \div b) + (a % b)
  BY <1>1, Division
<1>3. a \div b = q /\ a % b = r
  BY <1>1, <1>2, Quotient
<1> QED BY <1>3 DEF a

(* Dividing by b and then by c is dividing by b * c.                       *)
LEMMA DivisionTwice ==
    ASSUME NEW a \in Nat, NEW b \in Nat \ {0}, NEW c \in Nat \ {0}
    PROVE  (a \div b) \div c = a \div (b * c)
<1> DEFINE q == a \div b
           r == a % b
           p == q \div c
           s == q % c
<1>1. q \in Nat /\ r \in 0 .. (b - 1) /\ a = b * q + r
  BY Division
<1>2. p \in Nat /\ s \in 0 .. (c - 1) /\ q = c * p + s
  <2> HIDE DEF q
  <2> QED BY <1>1, Division
<1> HIDE DEF q, r, p, s
<1>3. PICK m \in Nat \ {0} : m = b * c
  <2>1. b * c \in Nat /\ b * c # 0
    OBVIOUS
  <2> QED BY <2>1
<1>4. PICK t \in Nat : t = b * s + r
  BY <1>1, <1>2
<1>5. t \in 0 .. (m - 1)
  <2>1. b * (s + 1) <= b * c
    BY <1>2
  <2>2. b * (s + 1) = b * s + b
    BY <1>2
  <2>3. PICK x \in Nat : x = b * s
    BY <1>2
  <2>4. x + b <= m /\ t = x + r
    BY <1>3, <1>4, <2>1, <2>2, <2>3
  <2> QED BY <1>1, <2>4
<1>6. a = p * m + t
  <2>1. b * q = b * (c * p) + b * s
    BY <1>1, <1>2
  <2>2. b * (c * p) = p * (b * c)
    BY <1>2
  <2> QED BY <1>1, <1>2, <1>3, <1>4, <2>1, <2>2
<1>7. a \div m = p
  BY <1>2, <1>3, <1>5, <1>6, DivisionIs
<1> QED BY <1>3, <1>7 DEF p, q

-----------------------------------------------------------------------------
\* Names of nodes.

(* A node is a kind of node and a number.                                  *)
LEMMA NodeNames ==
    /\ \A x : Host(x)[1] = "host" /\ Host(x)[2] = x
    /\ \A x : Tor(x)[1] = "tor" /\ Tor(x)[2] = x
    /\ \A x : Agg(x)[1] = "agg" /\ Agg(x)[2] = x
    /\ \A x : Core(x)[1] = "core" /\ Core(x)[2] = x
    /\ NoUplink[1] = "none"
BY DEF Host, Tor, Agg, Core, NoUplink

(* The switches of the tree a member h hangs from.                         *)
TorOf(h) == Tor(HOST_POD_SWITCH(h))
AggOf(i, h) == Agg(ChosenAgg(HOST_POD(h), i))
TopOf(i) == Core(ChosenCore(i))

SpansTors == \E h, m \in members : TorOf(h) # TorOf(m)
SpansPods == \E h, m \in members : HOST_POD(h) # HOST_POD(m)

(* The sizes, one by one.                                                  *)
LEMMA Sizes ==
    /\ Pods \in Nat \ {0} /\ TorsPerPod \in Nat \ {0} /\ HostsPerTor \in Nat \ {0}
    /\ AggsPerPod \in Nat \ {0} /\ Uplinks \in Nat \ {0}
    /\ Pin \subseteq Int /\ MaxGroups \in Nat
BY FabricAssumption

(* A number below c * b has a quotient by b below c.                       *)
LEMMA SmallerQuotient ==
    ASSUME NEW a \in Nat, NEW b \in Nat \ {0}, NEW c \in Nat, a < c * b
    PROVE  a \div b \in 0 .. (c - 1)
<1>1. a \div b \in Nat /\ a % b \in 0 .. (b - 1) /\ a = b * (a \div b) + (a % b)
  BY Division
<1>2. PICK q \in Nat, r \in Nat : q = a \div b /\ r = a % b
  BY <1>1
<1>3. a = b * q + r
  BY <1>1, <1>2
<1>4. ~(c <= q)
  <2> SUFFICES ASSUME c <= q PROVE FALSE
    OBVIOUS
  <2>1. b * c <= b * q
    BY <1>2
  <2>2. b * c = c * b
    OBVIOUS
  <2> QED BY <1>2, <1>3, <2>1, <2>2
<1> QED BY <1>2, <1>4

(* The numbering puts a host under a ToR of its own pod.                   *)
LEMMA HostPlace ==
    ASSUME NEW h \in Hosts, tiers \in {2, 3}
    PROVE  /\ h \in Nat
           /\ HOST_POD_SWITCH(h) \in 0 .. (Tors - 1)
           /\ HOST_POD(h) \in Nat
           /\ tiers = 3 => HOST_POD(h) \in 0 .. (Pods - 1)
           /\ tiers = 2 => HOST_POD(h) = 0
           /\ TorPod(HOST_POD_SWITCH(h)) = HOST_POD(h)
<1>1. Tors \in Nat /\ h \in Nat /\ h < Tors * HostsPerTor
  <2>1. PICK n \in Nat : n = Tors
    BY Sizes DEF Tors
  <2>2. PICK k \in Nat : k = n * HostsPerTor
    BY <2>1, Sizes
  <2> QED BY <2>1, <2>2 DEF Hosts
<1>2. HOST_POD_SWITCH(h) \in 0 .. (Tors - 1)
  <2> HIDE DEF Tors
  <2> QED BY <1>1, Sizes, SmallerQuotient DEF HOST_POD_SWITCH
<1>3. CASE tiers = 2
  BY <1>1, <1>2, <1>3 DEF HOST_POD, TorPod
<1>4. CASE tiers = 3
  <2>1. HOST_POD(h) = HOST_POD_SWITCH(h) \div TorsPerPod
    BY <1>1, <1>4, Sizes, DivisionTwice DEF HOST_POD, HOST_POD_SWITCH
  <2>2. HOST_POD_SWITCH(h) \div TorsPerPod \in 0 .. (Pods - 1)
    <3>1. PICK s \in Nat : s = HOST_POD_SWITCH(h)
      BY <1>1, <1>2
    <3>2. s < Pods * TorsPerPod
      <4>1. PICK n \in Nat : n = Tors
        BY <1>1
      <4>2. s < n
        BY <1>2, <3>1, <4>1
      <4> QED BY <4>1, <4>2 DEF Tors
    <3>3. s \div TorsPerPod \in 0 .. (Pods - 1)
      BY <3>2, Sizes, SmallerQuotient
    <3> QED BY <3>1, <3>3
  <2>3. HOST_POD(h) \in Nat
    BY <2>1, <2>2, Sizes
  <2> QED BY <1>1, <1>2, <1>4, <2>1, <2>2, <2>3 DEF TorPod
<1> QED BY <1>3, <1>4

(* The aggregation switch chosen in a pod is one of that pod, and all that *)
(* are chosen with one index have cables to the core chosen with it.       *)
LEMMA ChosenPlace ==
    ASSUME NEW i \in Nat, NEW pod \in Nat
    PROVE  /\ ChosenAgg(pod, i) \in Nat
           /\ AggPod(ChosenAgg(pod, i)) = pod
           /\ ChosenAgg(pod, i) % AggsPerPod = i % AggsPerPod
           /\ \A n \in Nat : pod < n => ChosenAgg(pod, i) < n * AggsPerPod
<1>1. PICK r \in Nat : r = i % AggsPerPod
  BY Sizes
<1>2. r \in 0 .. (AggsPerPod - 1)
  BY <1>1, Sizes, Division
<1>3. ChosenAgg(pod, i) = pod * AggsPerPod + r
  BY <1>1 DEF ChosenAgg, MIN_POD_AGG_SWITCH, PodPos
<1>4. /\ (pod * AggsPerPod + r) \div AggsPerPod = pod
      /\ (pod * AggsPerPod + r) % AggsPerPod = r
      /\ pod * AggsPerPod + r \in Nat
  BY <1>2, Sizes, DivisionIs
<1>5. ASSUME NEW n \in Nat, pod < n PROVE pod * AggsPerPod + r < n * AggsPerPod
  <2>1. (pod + 1) * AggsPerPod <= n * AggsPerPod
    BY <1>5, Sizes
  <2>2. (pod + 1) * AggsPerPod = pod * AggsPerPod + AggsPerPod
    BY Sizes
  <2>3. PICK x \in Nat, y \in Nat : x = pod * AggsPerPod /\ y = n * AggsPerPod
    BY Sizes
  <2>4. x + AggsPerPod <= y
    BY <2>1, <2>2, <2>3
  <2>5. x + r < y
    BY <1>2, <2>3, <2>4, Sizes
  <2> QED BY <2>3, <2>5
<1> QED BY <1>1, <1>3, <1>4, <1>5 DEF AggPod

(* The core chosen is one there is, of the position of the index.          *)
LEMMA CorePlace ==
    ASSUME NEW i \in Nat
    PROVE  /\ ChosenCore(i) \in Nat
           /\ ChosenCore(i) % AggsPerPod = i % AggsPerPod
           /\ ChosenCore(i) < Uplinks * AggsPerPod
<1>1. PICK q \in Nat : q = (i \div AggsPerPod) % Uplinks /\ q < Uplinks
  <2>1. PICK d \in Nat : d = i \div AggsPerPod
    BY Sizes, Division
  <2>2. d % Uplinks \in 0 .. (Uplinks - 1)
    BY Sizes, Division
  <2> QED BY <2>1, <2>2, Sizes
<1>2. ChosenCore(i) = ChosenAgg(q, i)
  BY <1>1 DEF ChosenCore, ChosenAgg, MIN_POD_AGG_SWITCH
<1>3. /\ ChosenAgg(q, i) \in Nat /\ ChosenAgg(q, i) % AggsPerPod = i % AggsPerPod
      /\ \A n \in Nat : q < n => ChosenAgg(q, i) < n * AggsPerPod
  BY ChosenPlace
<1>4. ChosenAgg(q, i) < Uplinks * AggsPerPod
  BY <1>1, <1>3, Sizes
<1> QED BY <1>2, <1>3, <1>4

-----------------------------------------------------------------------------
\* The tree.

(* The entries of the group, member by member: what set_up_mcast leaves    *)
(* when it set the group up with the convergence point of index i.         *)
Switches(i) ==
         {TorOf(h) : h \in members}
    \cup {AggOf(i, h) : h \in members}
    \cup (IF SpansPods THEN {TopOf(i)} ELSE {})

TorEntry(i, h) ==
    [mask |-> {Host(m) : m \in {x \in members : TorOf(x) = TorOf(h)}}
                \cup (IF SpansTors THEN {AggOf(i, h)} ELSE {}),
     root |-> IF SpansTors THEN AggOf(i, h) ELSE NoUplink,
     leaf |-> {Host(m) : m \in {x \in members : TorOf(x) = TorOf(h)}}]

AggEntry(i, h) ==
    [mask |-> {TorOf(m) : m \in {x \in members : HOST_POD(x) = HOST_POD(h)}}
                \cup (IF SpansPods THEN {TopOf(i)} ELSE {}),
     root |-> IF SpansPods THEN TopOf(i) ELSE NoUplink,
     leaf |-> {}]

TopEntry(i) ==
    [mask |-> {AggOf(i, m) : m \in members}, root |-> NoUplink, leaf |-> {}]

TreeOf(i) ==
    /\ DOMAIN fib = Switches(i)
    /\ \A h \in members : fib[TorOf(h)] = TorEntry(i, h)
    /\ \A h \in members : fib[AggOf(i, h)] = AggEntry(i, h)
    /\ SpansPods => fib[TopOf(i)] = TopEntry(i)

FabricRead ==
    /\ tiers \in {2, 3}
    /\ pin \in Pin
    /\ rr \in 0 .. MaxGroups
    /\ members \in SUBSET Hosts

IInv ==
    /\ FabricRead
    /\ \/ members = {} /\ DOMAIN fib = {}
       \/ Cardinality(members) > 1 /\ \E i \in Nat : TreeOf(i)

(* A group is a finite set.                                                *)
LEMMA MembersFinite ==
    ASSUME NEW ms \in SUBSET Hosts
    PROVE  IsFiniteSet(ms) /\ Cardinality(ms) \in Nat
<1>1. Tors * HostsPerTor - 1 \in Int
  <2>1. PICK n \in Nat : n = Tors
    BY Sizes DEF Tors
  <2> QED BY <2>1, Sizes
<1>2. IsFiniteSet(Hosts)
  BY <1>1, FS_Interval DEF Hosts
<1>3. IsFiniteSet(ms)
  BY <1>2, FS_Subset
<1> QED BY <1>3, FS_CardinalityType

(* A finite set has two members or more if two of its members differ.      *)
LEMMA TwoOrMore ==
    ASSUME NEW S, IsFiniteSet(S)
    PROVE  Cardinality(S) > 1 <=> \E x, y \in S : x # y
<1>1. Cardinality(S) \in Nat
  BY FS_CardinalityType
<1>2. Cardinality(S) = 0 <=> S = {}
  BY FS_EmptySet
<1>3. Cardinality(S) = 1 <=> \E x : S = {x}
  BY FS_Singleton
<1>4. (\E x, y \in S : x # y) <=> S # {} /\ ~\E x : S = {x}
  OBVIOUS
<1>5. Cardinality(S) > 1 <=> Cardinality(S) # 0 /\ Cardinality(S) # 1
  BY <1>1
<1> QED BY <1>2, <1>3, <1>4, <1>5

(* The image of a finite set, for the two images the tree is built from.   *)
LEMMA ImageFinite ==
    ASSUME NEW S, IsFiniteSet(S), NEW f, f = [x \in S |-> f[x]]
    PROVE  IsFiniteSet({f[x] : x \in S}) /\ Cardinality({f[x] : x \in S}) <= Cardinality(S)
<1>1. f \in Surjection(S, {f[x] : x \in S})
  BY DEF Surjection
<1> QED BY <1>1, FS_Surjection

(* MultiPod and TorNeedsUplink, by two members of the group.               *)
LEMMA UplinksNeeded ==
    ASSUME NEW ms \in SUBSET Hosts, tiers \in {2, 3}
    PROVE  /\ MultiPod(ms) <=> \E h, m \in ms : HOST_POD(h) # HOST_POD(m)
           /\ TorNeedsUplink(ms) <=>
                \E h, m \in ms : HOST_POD_SWITCH(h) # HOST_POD_SWITCH(m)
<1>1. IsFiniteSet(ms)
  BY MembersFinite
<1>2. IsFiniteSet(MemberPods(ms))
  <2> DEFINE f == [x \in ms |-> HOST_POD(x)]
  <2>1. f = [x \in ms |-> f[x]] /\ MemberPods(ms) = {f[x] : x \in ms}
    BY DEF MemberPods
  <2> HIDE DEF f
  <2> QED BY <1>1, <2>1, ImageFinite
<1>3. IsFiniteSet(MemberTors(ms))
  <2> DEFINE f == [x \in ms |-> HOST_POD_SWITCH(x)]
  <2>1. f = [x \in ms |-> f[x]] /\ MemberTors(ms) = {f[x] : x \in ms}
    BY DEF MemberTors
  <2> HIDE DEF f
  <2> QED BY <1>1, <2>1, ImageFinite
<1>4. MultiPod(ms) <=> \E x, y \in MemberPods(ms) : x # y
  BY <1>2, TwoOrMore DEF MultiPod
<1>5. Cardinality(MemberTors(ms)) > 1 <=> \E x, y \in MemberTors(ms) : x # y
  BY <1>3, TwoOrMore
<1>6. MultiPod(ms) <=> \E h, m \in ms : HOST_POD(h) # HOST_POD(m)
  BY <1>4 DEF MemberPods
<1>7. Cardinality(MemberTors(ms)) > 1 <=>
            \E h, m \in ms : HOST_POD_SWITCH(h) # HOST_POD_SWITCH(m)
  BY <1>5 DEF MemberTors
<1>8. ASSUME NEW h \in ms, NEW m \in ms, HOST_POD(h) # HOST_POD(m)
      PROVE  HOST_POD_SWITCH(h) # HOST_POD_SWITCH(m)
  BY <1>8, HostPlace
<1> QED BY <1>6, <1>7, <1>8 DEF TorNeedsUplink

(* A round of set_up_mcast leaves that tree.                               *)
LEMMA SetUpTree ==
    ASSUME tiers \in {2, 3}, NEW ms \in SUBSET Hosts, NEW i \in Nat,
           UNCHANGED tiers, members' = ms,
           fib' = [n \in DOMAIN build_mcast_tree(ms, i) |->
                        EntryOf(n, build_mcast_tree(ms, i)[n], ms)]
    PROVE  TreeOf(i)'
<1> DEFINE Wide == TorNeedsUplink(ms)
           Far == MultiPod(ms)
<1>1. /\ \A h : HOST_POD(h)' = HOST_POD(h)
      /\ \A h : TorOf(h)' = TorOf(h)
      /\ \A h : AggOf(i, h)' = AggOf(i, h)
      /\ TopOf(i)' = TopOf(i)
  <2>1. \A h : HOST_POD(h)' = HOST_POD(h)
    BY DEF HOST_POD
  <2> QED BY <2>1 DEF TorOf, HOST_POD_SWITCH, AggOf, ChosenAgg,
                      MIN_POD_AGG_SWITCH, PodPos, TopOf, ChosenCore
<1>2. \A h, m \in ms : TorOf(h) # TorOf(m) <=> HOST_POD_SWITCH(h) # HOST_POD_SWITCH(m)
  BY NodeNames DEF TorOf
<1>3. /\ Wide <=> SpansTors'
      /\ Far <=> SpansPods'
  <2>1. /\ Far <=> \E h, m \in ms : HOST_POD(h) # HOST_POD(m)
        /\ Wide <=> \E h, m \in ms : HOST_POD_SWITCH(h) # HOST_POD_SWITCH(m)
    BY UplinksNeeded
  <2>2. SpansTors' <=> \E h, m \in ms : TorOf(h) # TorOf(m)
    BY <1>1 DEF SpansTors
  <2>3. SpansPods' <=> \E h, m \in ms : HOST_POD(h) # HOST_POD(m)
    BY <1>1 DEF SpansPods
  <2> QED BY <1>2, <2>1, <2>2, <2>3
<1>4. Far => tiers = 3
  <2>1. tiers = 2 => \A h \in ms : HOST_POD(h) = 0
    BY HostPlace
  <2>2. Far <=> \E h, m \in ms : HOST_POD(h) # HOST_POD(m)
    BY UplinksNeeded
  <2> QED BY <2>1, <2>2
<1> HIDE DEF Wide, Far
<1>5. TreeSwitches(ms, i) =
             {TorOf(h) : h \in ms} \cup {AggOf(i, h) : h \in ms}
        \cup (IF Far THEN {TopOf(i)} ELSE {})
  <2>1. {Tor(t) : t \in MemberTors(ms)} = {TorOf(h) : h \in ms}
    BY DEF MemberTors, TorOf
  <2>2. {Agg(ChosenAgg(pod, i)) : pod \in MemberPods(ms)} = {AggOf(i, h) : h \in ms}
    BY DEF MemberPods, AggOf
  <2>3. (IF MultiPod(ms) /\ tiers = 3 THEN {Core(ChosenCore(i))} ELSE {})
            = (IF Far THEN {TopOf(i)} ELSE {})
    BY <1>4 DEF Far, TopOf
  <2> QED BY <2>1, <2>2, <2>3 DEF TreeSwitches
<1>6. /\ DOMAIN fib' = TreeSwitches(ms, i)
      /\ \A n \in TreeSwitches(ms, i) :
            fib'[n] = EntryOf(n, CASE n[1] = "tor" -> TorNode(ms, i, n[2])
                                   [] n[1] = "agg" -> AggNode(ms, i, AggPod(n[2]))
                                   [] n[1] = "core" -> CoreNode(ms, i), ms)
  BY DEF build_mcast_tree
<1>7. DOMAIN fib' = Switches(i)'
  BY <1>1, <1>3, <1>5, <1>6 DEF Switches
<1>8. ASSUME NEW h \in ms PROVE fib'[TorOf(h)] = TorEntry(i, h)'
  <2> DEFINE n == TorOf(h)
             node == TorNode(ms, i, HOST_POD_SWITCH(h))
             down == {Host(m) : m \in {x \in ms : TorOf(x) = n}}
  <2>1. n \in TreeSwitches(ms, i) /\ n[1] = "tor" /\ n[2] = HOST_POD_SWITCH(h)
    BY <1>5, NodeNames DEF TorOf
  <2>2. fib'[n] = EntryOf(n, node, ms)
    <3> HIDE DEF n
    <3> QED BY <1>6, <2>1
  <2>3. {Host(x) : x \in {x \in ms : HOST_POD_SWITCH(x) = HOST_POD_SWITCH(h)}} = down
    BY NodeNames DEF TorOf
  <2>4. Agg(ChosenAgg(TorPod(HOST_POD_SWITCH(h)), i)) = AggOf(i, h)
    BY HostPlace DEF AggOf
  <2>5. node.up = IF Wide THEN AggOf(i, h) ELSE NoUplink
    BY <2>4 DEF TorNode, TreeNode, Wide
  <2>6. node.ports = down \cup (IF Wide THEN {AggOf(i, h)} ELSE {})
    <3>1. AggOf(i, h) # NoUplink
      BY NodeNames DEF AggOf
    <3> QED BY <2>3, <2>4, <3>1 DEF TorNode, TreeNode, Wide
  <2>7. {Host(x) : x \in {x \in ms : Tor(HOST_POD_SWITCH(x)) = n}} = down
    BY DEF TorOf
  <2>8. fib'[n] = [mask |-> down \cup (IF Wide THEN {AggOf(i, h)} ELSE {}),
                   root |-> IF Wide THEN AggOf(i, h) ELSE NoUplink,
                   leaf |-> down]
    <3> HIDE DEF n, node, down
    <3> QED BY <2>2, <2>5, <2>6, <2>7 DEF EntryOf
  <2>9. TorEntry(i, h)' = [mask |-> down \cup (IF Wide THEN {AggOf(i, h)} ELSE {}),
                           root |-> IF Wide THEN AggOf(i, h) ELSE NoUplink,
                           leaf |-> down]
    BY <1>1, <1>3 DEF TorEntry, Host, NoUplink
  <2> QED BY <2>8, <2>9
<1>9. ASSUME NEW h \in ms PROVE fib'[AggOf(i, h)] = AggEntry(i, h)'
  <2> DEFINE n == AggOf(i, h)
             node == AggNode(ms, i, HOST_POD(h))
             down == {TorOf(m) : m \in {x \in ms : HOST_POD(x) = HOST_POD(h)}}
  <2>1. n \in TreeSwitches(ms, i) /\ n[1] = "agg" /\ AggPod(n[2]) = HOST_POD(h)
    BY <1>5, NodeNames, HostPlace, ChosenPlace DEF AggOf
  <2>2. fib'[n] = EntryOf(n, node, ms)
    <3> HIDE DEF n
    <3> QED BY <1>6, <2>1
  <2>3. {Tor(t) : t \in {x \in MemberTors(ms) : TorPod(x) = HOST_POD(h)}} = down
    BY HostPlace DEF TorOf, MemberTors
  <2>4. node.up = IF Far THEN TopOf(i) ELSE NoUplink
    BY <1>4 DEF AggNode, TreeNode, Far, TopOf
  <2>5. node.ports = down \cup (IF Far THEN {TopOf(i)} ELSE {})
    <3>1. TopOf(i) # NoUplink
      BY NodeNames DEF TopOf
    <3> QED BY <1>4, <2>3, <3>1 DEF AggNode, TreeNode, Far, TopOf
  <2>6. {Host(x) : x \in {x \in ms : Tor(HOST_POD_SWITCH(x)) = n}} = {}
    BY NodeNames DEF AggOf
  <2>7. fib'[n] = [mask |-> down \cup (IF Far THEN {TopOf(i)} ELSE {}),
                   root |-> IF Far THEN TopOf(i) ELSE NoUplink,
                   leaf |-> {}]
    <3> HIDE DEF n, node, down
    <3> QED BY <2>2, <2>4, <2>5, <2>6 DEF EntryOf
  <2>8. AggEntry(i, h)' = [mask |-> down \cup (IF Far THEN {TopOf(i)} ELSE {}),
                           root |-> IF Far THEN TopOf(i) ELSE NoUplink,
                           leaf |-> {}]
    BY <1>1, <1>3 DEF AggEntry, NoUplink
  <2> QED BY <2>7, <2>8
<1>10. ASSUME Far PROVE fib'[TopOf(i)] = TopEntry(i)'
  <2> DEFINE n == TopOf(i)
             node == CoreNode(ms, i)
             down == {AggOf(i, m) : m \in ms}
  <2>1. n \in TreeSwitches(ms, i) /\ n[1] = "core"
    BY <1>5, <1>10, NodeNames DEF TopOf
  <2>2. fib'[n] = EntryOf(n, node, ms)
    <3> HIDE DEF n
    <3> QED BY <1>6, <2>1
  <2>3. {Agg(ChosenAgg(pod, i)) : pod \in MemberPods(ms)} = down
    BY DEF AggOf, MemberPods
  <2>4. node.up = NoUplink /\ node.ports = down
    BY <2>3 DEF CoreNode, TreeNode
  <2>5. {Host(x) : x \in {x \in ms : Tor(HOST_POD_SWITCH(x)) = n}} = {}
    BY NodeNames DEF TopOf
  <2>6. fib'[n] = [mask |-> down, root |-> NoUplink, leaf |-> {}]
    <3> HIDE DEF n, node, down
    <3> QED BY <2>2, <2>4, <2>5 DEF EntryOf
  <2>7. TopEntry(i)' = [mask |-> down, root |-> NoUplink, leaf |-> {}]
    BY <1>1 DEF TopEntry, NoUplink
  <2> QED BY <2>6, <2>7
<1> QED BY <1>1, <1>3, <1>7, <1>8, <1>9, <1>10 DEF TreeOf

(* Before the first group there is no entry.                               *)
LEMMA InitInv == Init => IInv
BY Sizes DEF Init, IInv, FabricRead

(* A round of set_up_mcast keeps the invariant.                            *)
LEMMA NextInv == IInv /\ [Next]_vars => IInv'
<1> SUFFICES ASSUME IInv, [Next]_vars PROVE IInv'
  OBVIOUS
<1>1. ASSUME NEW ms \in SUBSET Hosts, SetUpGroup(ms) PROVE IInv'
  <2>0. PICK i \in Nat : i = IF pin >= 0 THEN pin ELSE rr
    BY Sizes DEF IInv, FabricRead
  <2>1. /\ rr < MaxGroups /\ Cardinality(ms) > 1 /\ rr' = rr + 1 /\ members' = ms
        /\ fib' = [n \in DOMAIN build_mcast_tree(ms, i) |->
                        EntryOf(n, build_mcast_tree(ms, i)[n], ms)]
        /\ UNCHANGED <<tiers, pin>>
    BY <1>1, <2>0 DEF SetUpGroup
  <2>2. tiers \in {2, 3}
    BY DEF IInv, FabricRead
  <2>3. TreeOf(i)'
    BY <2>1, <2>2, SetUpTree
  <2>4. FabricRead'
    BY <2>1, Sizes DEF IInv, FabricRead, Hosts, Tors
  <2> QED BY <2>1, <2>2, <2>3, <2>4 DEF IInv
<1>2. CASE UNCHANGED vars
  <2>1. FabricRead'
    BY <1>2 DEF vars, IInv, FabricRead, Hosts, Tors
  <2>2. \A i : TreeOf(i)' <=> TreeOf(i)
    BY <1>2 DEF vars, TreeOf, Switches, TorEntry, AggEntry, TopEntry, SpansTors,
                SpansPods, TorOf, AggOf, TopOf, HOST_POD, HOST_POD_SWITCH, ChosenAgg,
                ChosenCore, MIN_POD_AGG_SWITCH, PodPos, Host, Tor, Agg, Core, NoUplink
  <2> QED BY <1>2, <2>1, <2>2 DEF vars, IInv
<1> QED BY <1>1, <1>2 DEF Next

(* What the nodes of a tree have to do with each other.                    *)
LEMMA NodeFacts ==
    ASSUME FabricRead, NEW i \in Nat
    PROVE  /\ \A h : TorOf(h)[1] = "tor" /\ AggOf(i, h)[1] = "agg"
           /\ TopOf(i)[1] = "core"
           /\ \A h, m : Host(h) = Host(m) <=> h = m
           /\ \A h, m \in members : TorOf(h) = TorOf(m) => HOST_POD(h) = HOST_POD(m)
           /\ \A h, m \in members :
                    AggOf(i, h) = AggOf(i, m) <=> HOST_POD(h) = HOST_POD(m)
           /\ SpansPods => SpansTors /\ tiers = 3
<1>1. /\ \A h : TorOf(h)[1] = "tor" /\ AggOf(i, h)[1] = "agg"
      /\ TopOf(i)[1] = "core"
      /\ \A h, m : Host(h) = Host(m) <=> h = m
  BY NodeNames DEF TorOf, AggOf, TopOf
<1>2. ASSUME NEW h \in members, NEW m \in members, TorOf(h) = TorOf(m)
      PROVE  HOST_POD(h) = HOST_POD(m)
  <2>1. HOST_POD_SWITCH(h) = HOST_POD_SWITCH(m)
    BY <1>2, NodeNames DEF TorOf
  <2>2. /\ TorPod(HOST_POD_SWITCH(h)) = HOST_POD(h)
        /\ TorPod(HOST_POD_SWITCH(m)) = HOST_POD(m)
    BY HostPlace DEF FabricRead
  <2> QED BY <2>1, <2>2
<1>3. ASSUME NEW h \in members, NEW m \in members
      PROVE  AggOf(i, h) = AggOf(i, m) <=> HOST_POD(h) = HOST_POD(m)
  <2>1. HOST_POD(h) \in Nat /\ HOST_POD(m) \in Nat
    BY HostPlace DEF FabricRead
  <2>2. /\ AggPod(ChosenAgg(HOST_POD(h), i)) = HOST_POD(h)
        /\ AggPod(ChosenAgg(HOST_POD(m), i)) = HOST_POD(m)
    BY <2>1, ChosenPlace
  <2>3. AggOf(i, h) = AggOf(i, m) => ChosenAgg(HOST_POD(h), i) = ChosenAgg(HOST_POD(m), i)
    BY NodeNames DEF AggOf
  <2>4. HOST_POD(h) = HOST_POD(m) => AggOf(i, h) = AggOf(i, m)
    BY DEF AggOf
  <2> QED BY <2>2, <2>3, <2>4
<1>4. ASSUME SpansPods PROVE SpansTors /\ tiers = 3
  <2>1. PICK h \in members, m \in members : HOST_POD(h) # HOST_POD(m)
    BY <1>4 DEF SpansPods
  <2>2. SpansTors
    BY <1>2, <2>1 DEF SpansTors
  <2>3. tiers = 2 => HOST_POD(h) = 0 /\ HOST_POD(m) = 0
    BY HostPlace DEF FabricRead
  <2> QED BY <2>1, <2>2, <2>3 DEF FabricRead
<1> QED BY <1>1, <1>2, <1>3, <1>4

-----------------------------------------------------------------------------
\* Up the tree.

(* Three steps of the recursion, one by one.                               *)
LEMMA AscentSteps ==
    ASSUME NEW h, NEW A1, NEW A2, NEW A3,
           \A n : n \in A1 <=> n # NoUplink /\ n = RootPort(Host(h)),
           \A n : n \in A2 <=> n # NoUplink /\ \E m \in A1 : n = RootPort(m),
           \A n : n \in A3 <=> n # NoUplink /\ \E m \in A2 : n = RootPort(m)
    PROVE  Ascent(h) = {Host(h)} \cup A1 \cup A2 \cup A3
<1> DEFINE g == [k \in 0..3 |-> IF k = 0 THEN {Host(h)} ELSE IF k = 1 THEN A1
                                ELSE IF k = 2 THEN A2 ELSE A3]
           f[k \in 0..3] == IF k = 0 THEN {Host(h)}
                            ELSE {RootPort(n) : n \in f[k - 1]} \ {NoUplink}
<1>0. /\ A1 = {RootPort(n) : n \in {Host(h)}} \ {NoUplink}
      /\ A2 = {RootPort(n) : n \in A1} \ {NoUplink}
      /\ A3 = {RootPort(n) : n \in A2} \ {NoUplink}
  OBVIOUS
<1>1. g[0] = {Host(h)} /\ g[1] = A1 /\ g[2] = A2 /\ g[3] = A3
  OBVIOUS
<1>2. ASSUME NEW k \in 0..3
      PROVE  g[k] = IF k = 0 THEN {Host(h)}
                    ELSE {RootPort(n) : n \in g[k - 1]} \ {NoUplink}
  <2> HIDE DEF g
  <2>1. CASE k = 0
    BY <1>1, <2>1
  <2>2. CASE k = 1
    BY <1>0, <1>1, <2>2
  <2>3. CASE k = 2
    BY <1>0, <1>1, <2>3
  <2>4. CASE k = 3
    BY <1>0, <1>1, <2>4
  <2> QED BY <2>1, <2>2, <2>3, <2>4
<1>3. g = [k \in 0..3 |-> g[k]]
  OBVIOUS
<1>4. Ascent(h) = UNION {f[k] : k \in 0..3}
  BY DEF Ascent
<1> HIDE DEF g
<1>5. g = [k \in 0..3 |-> IF k = 0 THEN {Host(h)}
                          ELSE {RootPort(n) : n \in g[k - 1]} \ {NoUplink}]
  BY <1>2, <1>3
<1>6. f = [k \in 0..3 |-> IF k = 0 THEN {Host(h)}
                          ELSE {RootPort(n) : n \in f[k - 1]} \ {NoUplink}]
  BY Zenon, <1>5
<1> HIDE DEF f
<1>7. f[0] = {Host(h)}
  BY <1>6
<1>8. f[1] = A1
  BY <1>6, <1>7
<1>9. f[2] = A2
  BY <1>6, <1>8
<1>10. f[3] = A3
  BY <1>6, <1>9
<1>11. 0..3 = {0, 1, 2, 3}
  OBVIOUS
<1> QED BY <1>4, <1>7, <1>8, <1>9, <1>10, <1>11

(* A contribution climbs from its host to the ToR, the aggregation switch  *)
(* and the core, as far as the group reaches.                              *)
LEMMA AscentIs ==
    ASSUME FabricRead, NEW i \in Nat, TreeOf(i), NEW h \in members
    PROVE  Ascent(h) = {Host(h), TorOf(h)}
                \cup (IF SpansTors THEN {AggOf(i, h)} ELSE {})
                \cup (IF SpansPods THEN {TopOf(i)} ELSE {})
<1> DEFINE A1 == {TorOf(h)}
           A2 == IF SpansTors THEN {AggOf(i, h)} ELSE {}
           A3 == IF SpansPods THEN {TopOf(i)} ELSE {}
<1>1. RootPort(Host(h)) = TorOf(h)
  BY NodeNames DEF RootPort, TorOf
<1>2. RootPort(TorOf(h)) = IF SpansTors THEN AggOf(i, h) ELSE NoUplink
  <2>1. TorOf(h)[1] # "host"
    BY NodeFacts
  <2>2. fib[TorOf(h)] = TorEntry(i, h)
    BY DEF TreeOf
  <2> QED BY <2>1, <2>2 DEF RootPort, TorEntry
<1>3. RootPort(AggOf(i, h)) = IF SpansPods THEN TopOf(i) ELSE NoUplink
  <2>1. AggOf(i, h)[1] # "host"
    BY NodeFacts
  <2>2. fib[AggOf(i, h)] = AggEntry(i, h)
    BY DEF TreeOf
  <2> QED BY <2>1, <2>2 DEF RootPort, AggEntry
<1>4. TorOf(h) # NoUplink /\ AggOf(i, h) # NoUplink /\ TopOf(i) # NoUplink
  BY NodeFacts, NodeNames
<1>5. SpansPods => SpansTors
  BY NodeFacts
<1>6. \A n : n \in A1 <=> n # NoUplink /\ n = RootPort(Host(h))
  BY <1>1, <1>4
<1>7. \A n : n \in A2 <=> n # NoUplink /\ \E m \in A1 : n = RootPort(m)
  BY <1>2, <1>4
<1>8. \A n : n \in A3 <=> n # NoUplink /\ \E m \in A2 : n = RootPort(m)
  BY <1>3, <1>4, <1>5
<1> HIDE DEF A1, A2, A3
<1>9. Ascent(h) = {Host(h)} \cup A1 \cup A2 \cup A3
  BY <1>6, <1>7, <1>8, AscentSteps
<1> QED BY <1>9 DEF A1, A2, A3

(* The nodes the contributions pass: hosts, and switches of the tree.      *)
LEMMA OnAscentIs ==
    ASSUME FabricRead, NEW i \in Nat, TreeOf(i), members # {}
    PROVE  /\ OnAscent = {Host(h) : h \in members} \cup TreeSwitch
           /\ TreeSwitch = {TorOf(h) : h \in members}
                \cup (IF SpansTors THEN {AggOf(i, h) : h \in members} ELSE {})
                \cup (IF SpansPods THEN {TopOf(i)} ELSE {})
           /\ TreeSwitch \subseteq DOMAIN fib
<1> DEFINE S == {TorOf(h) : h \in members}
                \cup (IF SpansTors THEN {AggOf(i, h) : h \in members} ELSE {})
                \cup (IF SpansPods THEN {TopOf(i)} ELSE {})
<1>1. OnAscent = {Host(h) : h \in members} \cup S
  <2>1. ASSUME NEW n \in OnAscent PROVE n \in {Host(h) : h \in members} \cup S
    <3>1. PICK h \in members : n \in Ascent(h)
      BY DEF OnAscent
    <3> QED BY <3>1, AscentIs
  <2>2. ASSUME NEW n \in {Host(h) : h \in members} \cup S
        PROVE  \E h \in members : n \in Ascent(h)
    BY AscentIs
  <2> QED BY <2>1, <2>2 DEF OnAscent
<1>2. S \subseteq DOMAIN fib
  BY DEF TreeOf, Switches
<1>3. \A h : Host(h) \notin DOMAIN fib
  BY NodeFacts, NodeNames DEF TreeOf, Switches
<1> HIDE DEF S
<1>4. TreeSwitch = S
  BY <1>1, <1>2, <1>3 DEF TreeSwitch
<1> QED BY <1>1, <1>2, <1>4 DEF S

-----------------------------------------------------------------------------
\* The ports have cables.

(* The switches of the tree hang together by cables init_network lays.     *)
LEMMA TreeCables ==
    ASSUME FabricRead, NEW i \in Nat, NEW h \in members
    PROVE  /\ <<Host(h), TorOf(h)>> \in Cable
           /\ <<TorOf(h), AggOf(i, h)>> \in Cable
           /\ SpansPods => <<AggOf(i, h), TopOf(i)>> \in Cable
<1> DEFINE t == HOST_POD_SWITCH(h)
           pod == HOST_POD(h)
           a == ChosenAgg(pod, i)
           c == ChosenCore(i)
<1>1. /\ h \in Hosts /\ tiers \in {2, 3}
      /\ t \in 0 .. (Tors - 1) /\ pod \in Nat /\ TorPod(t) = pod
      /\ tiers = 3 => pod \in 0 .. (Pods - 1)
      /\ tiers = 2 => pod = 0
  BY HostPlace DEF FabricRead
<1>2. /\ a \in Nat /\ AggPod(a) = pod /\ a % AggsPerPod = i % AggsPerPod
      /\ \A n \in Nat : pod < n => a < n * AggsPerPod
  BY <1>1, ChosenPlace
<1>3. a \in 0 .. (NAGG - 1)
  <2>1. CASE tiers = 3
    <3>1. pod < Pods /\ Pods \in Nat
      BY <1>1, <2>1, Sizes
    <3>2. a < Pods * AggsPerPod
      BY <1>2, <3>1
    <3>3. PICK n \in Nat : n = Pods * AggsPerPod
      BY Sizes
    <3>4. NAGG = n
      BY <2>1, <3>3 DEF NAGG
    <3> HIDE DEF a
    <3> QED BY <1>2, <3>2, <3>3, <3>4
  <2>2. CASE tiers = 2
    <3>1. a < 1 * AggsPerPod
      BY <1>1, <1>2, <2>2
    <3>2. a < AggsPerPod
      BY <3>1, Sizes
    <3>3. NAGG = AggsPerPod
      BY <2>2 DEF NAGG
    <3> HIDE DEF a
    <3> QED BY <1>2, <3>2, <3>3, Sizes
  <2> QED BY <1>1, <2>1, <2>2
<1>4. tiers = 3 => c \in 0 .. (NCORE - 1) /\ c % AggsPerPod = i % AggsPerPod
  <2>1. c \in Nat /\ c % AggsPerPod = i % AggsPerPod /\ c < Uplinks * AggsPerPod
    BY CorePlace
  <2>2. PICK n \in Nat : n = Uplinks * AggsPerPod
    BY Sizes
  <2>3. tiers = 3 => NCORE = n
    BY <2>2 DEF NCORE
  <2> HIDE DEF c
  <2> QED BY <2>1, <2>2, <2>3
<1> HIDE DEF t, pod, a, c
<1>5. TorOf(h) = Tor(t) /\ AggOf(i, h) = Agg(a) /\ TopOf(i) = Core(c)
  BY DEF TorOf, AggOf, TopOf, t, pod, a, c
<1>6. <<Host(h), Tor(t)>> \in Cable
  BY <1>1 DEF Cable, t
<1>7. <<Tor(t), Agg(a)>> \in Cable
  <2>1. <<t, a>> \in {y \in (0..(Tors - 1)) \X (0..(NAGG - 1)) :
                            TorPod(y[1]) = AggPod(y[2])}
    BY <1>1, <1>2, <1>3
  <2>2. <<Tor(t), Agg(a)>> \in {<<Tor(x[1]), Agg(x[2])>> : x \in
            {y \in (0..(Tors - 1)) \X (0..(NAGG - 1)) : TorPod(y[1]) = AggPod(y[2])}}
    BY <2>1
  <2> QED BY <2>2 DEF Cable
<1>8. tiers = 3 => <<Agg(a), Core(c)>> \in Cable
  <2> SUFFICES ASSUME tiers = 3 PROVE <<Agg(a), Core(c)>> \in Cable
    OBVIOUS
  <2>1. <<a, c>> \in {y \in (0..(NAGG - 1)) \X (0..(NCORE - 1)) :
                            y[1] % AggsPerPod = y[2] % AggsPerPod}
    <3>1. a % AggsPerPod = c % AggsPerPod
      BY <1>2, <1>4
    <3> QED BY <1>3, <1>4, <3>1
  <2>2. <<Agg(a), Core(c)>> \in {<<Agg(x[1]), Core(x[2])>> : x \in
            {y \in (0..(NAGG - 1)) \X (0..(NCORE - 1)) :
                y[1] % AggsPerPod = y[2] % AggsPerPod}}
    BY <2>1
  <2> QED BY <2>2 DEF Cable
<1>9. SpansPods => tiers = 3
  BY NodeFacts
<1> QED BY <1>5, <1>6, <1>7, <1>8, <1>9

(* What leads to a tree port: member by member.                            *)
LEMMA Masks ==
    ASSUME FabricRead, NEW i \in Nat, TreeOf(i), NEW h \in members
    PROVE  /\ \A m : m \in fib[TorOf(h)].mask <=>
                \/ \E x \in members : m = Host(x) /\ TorOf(x) = TorOf(h)
                \/ SpansTors /\ m = AggOf(i, h)
           /\ \A m : m \in fib[AggOf(i, h)].mask <=>
                \/ \E x \in members : m = TorOf(x) /\ HOST_POD(x) = HOST_POD(h)
                \/ SpansPods /\ m = TopOf(i)
           /\ SpansPods => \A m : m \in fib[TopOf(i)].mask <=>
                                    \E x \in members : m = AggOf(i, x)
<1>1. /\ fib[TorOf(h)] = TorEntry(i, h)
      /\ fib[AggOf(i, h)] = AggEntry(i, h)
      /\ SpansPods => fib[TopOf(i)] = TopEntry(i)
  BY DEF TreeOf
<1>2. \A m : m \in fib[TorOf(h)].mask <=>
                \/ \E x \in members : m = Host(x) /\ TorOf(x) = TorOf(h)
                \/ SpansTors /\ m = AggOf(i, h)
  BY <1>1 DEF TorEntry
<1>3. \A m : m \in fib[AggOf(i, h)].mask <=>
                \/ \E x \in members : m = TorOf(x) /\ HOST_POD(x) = HOST_POD(h)
                \/ SpansPods /\ m = TopOf(i)
  BY <1>1 DEF AggEntry
<1>4. SpansPods => \A m : m \in fib[TopOf(i)].mask <=>
                                    \E x \in members : m = AggOf(i, x)
  BY <1>1 DEF TopEntry
<1> QED BY <1>2, <1>3, <1>4

(* Wired, of a group that is set up.                                       *)
LEMMA TreeIsWired ==
    ASSUME FabricRead, NEW i \in Nat, TreeOf(i), members # {}
    PROVE  Wired
<1>1. ASSUME NEW n \in DOMAIN fib, NEW m \in fib[n].mask
      PROVE  <<n, m>> \in Cable \/ <<m, n>> \in Cable
  <2>1. CASE \E h \in members : n = TorOf(h)
    <3>1. PICK h \in members : n = TorOf(h)
      BY <2>1
    <3>2. \/ \E x \in members : m = Host(x) /\ TorOf(x) = TorOf(h)
          \/ m = AggOf(i, h)
      BY <1>1, <3>1, Masks
    <3> QED BY <3>1, <3>2, TreeCables
  <2>2. CASE \E h \in members : n = AggOf(i, h)
    <3>1. PICK h \in members : n = AggOf(i, h)
      BY <2>2
    <3>2. \/ \E x \in members : m = TorOf(x) /\ HOST_POD(x) = HOST_POD(h)
          \/ SpansPods /\ m = TopOf(i)
      BY <1>1, <3>1, Masks
    <3>3. CASE SpansPods /\ m = TopOf(i)
      BY <3>1, <3>3, TreeCables
    <3>4. ASSUME NEW x \in members, m = TorOf(x), HOST_POD(x) = HOST_POD(h)
          PROVE  <<m, n>> \in Cable
      <4>1. AggOf(i, x) = AggOf(i, h)
        BY <3>4, NodeFacts
      <4> QED BY <3>1, <3>4, <4>1, TreeCables
    <3> QED BY <3>2, <3>3, <3>4
  <2>3. CASE SpansPods /\ n = TopOf(i)
    <3>1. PICK x \in members : m = AggOf(i, x)
      BY <1>1, <2>3, Masks
    <3> QED BY <2>3, <3>1, TreeCables
  <2> QED BY <1>1, <2>1, <2>2, <2>3 DEF TreeOf, Switches
<1>2. ASSUME NEW n \in TreeSwitch, NEW m \in fib[n].mask \cap DOMAIN fib
      PROVE  n \in fib[m].mask
  <2>0. \A x : m # Host(x)
    BY <1>2, NodeFacts, NodeNames DEF TreeOf, Switches
  <2>1. CASE \E h \in members : n = TorOf(h)
    <3>1. PICK h \in members : n = TorOf(h)
      BY <2>1
    <3>2. m = AggOf(i, h)
      BY <1>2, <2>0, <3>1, Masks
    <3> QED BY <3>1, <3>2, Masks
  <2>2. CASE SpansTors /\ \E h \in members : n = AggOf(i, h)
    <3>1. PICK h \in members : n = AggOf(i, h)
      BY <2>2
    <3>2. \/ \E x \in members : m = TorOf(x) /\ HOST_POD(x) = HOST_POD(h)
          \/ SpansPods /\ m = TopOf(i)
      BY <1>2, <3>1, Masks
    <3>3. CASE SpansPods /\ m = TopOf(i)
      BY <3>1, <3>3, Masks
    <3>4. ASSUME NEW x \in members, m = TorOf(x), HOST_POD(x) = HOST_POD(h)
          PROVE  n \in fib[m].mask
      <4>1. AggOf(i, x) = AggOf(i, h)
        BY <3>4, NodeFacts
      <4> QED BY <2>2, <3>1, <3>4, <4>1, Masks
    <3> QED BY <3>2, <3>3, <3>4
  <2>3. CASE SpansPods /\ n = TopOf(i)
    <3>1. PICK x \in members : m = AggOf(i, x)
      BY <1>2, <2>3, Masks
    <3> QED BY <2>3, <3>1, Masks
  <2> QED BY <1>2, <2>1, <2>2, <2>3, OnAscentIs
<1> QED BY <1>1, <1>2 DEF Wired

-----------------------------------------------------------------------------
\* One apex.

(* The switch at which the tree of a group ends: the lowest that all       *)
(* members have in common.                                                 *)
ApexIs(i, a) ==
    \/ SpansPods /\ a = TopOf(i)
    \/ SpansTors /\ ~SpansPods /\ \A h \in members : a = AggOf(i, h)
    \/ ~SpansTors /\ \A h \in members : a = TorOf(h)

(* One switch of the ascent has no uplink: the highest of the tree.        *)
LEMMA OneApex ==
    ASSUME FabricRead, NEW i \in Nat, TreeOf(i), members # {}
    PROVE  \E a : ApexSwitches = {a} /\ ApexIs(i, a)
<1>0. PICK k \in members : TRUE
  OBVIOUS
<1>1. /\ \A h \in members : fib[TorOf(h)].root = IF SpansTors THEN AggOf(i, h) ELSE NoUplink
      /\ \A h \in members : fib[AggOf(i, h)].root = IF SpansPods THEN TopOf(i) ELSE NoUplink
      /\ SpansPods => fib[TopOf(i)].root = NoUplink
  <2>1. /\ \A h \in members : fib[TorOf(h)] = TorEntry(i, h)
        /\ \A h \in members : fib[AggOf(i, h)] = AggEntry(i, h)
        /\ SpansPods => fib[TopOf(i)] = TopEntry(i)
    BY DEF TreeOf
  <2>2. \A h : TorEntry(i, h).root = IF SpansTors THEN AggOf(i, h) ELSE NoUplink
    BY DEF TorEntry
  <2>3. \A h : AggEntry(i, h).root = IF SpansPods THEN TopOf(i) ELSE NoUplink
    BY DEF AggEntry
  <2>4. TopEntry(i).root = NoUplink
    BY DEF TopEntry
  <2> QED BY <2>1, <2>2, <2>3, <2>4
<1>2. \A h : TorOf(h) # NoUplink /\ AggOf(i, h) # NoUplink /\ TopOf(i) # NoUplink
  BY NodeFacts, NodeNames
<1>3. SpansPods => SpansTors
  BY NodeFacts
<1>4. \A n : n \in TreeSwitch <=>
            \/ \E h \in members : n = TorOf(h)
            \/ SpansTors /\ \E h \in members : n = AggOf(i, h)
            \/ SpansPods /\ n = TopOf(i)
  BY OnAscentIs
<1>5. CASE SpansPods
  <2>1. \A n : n \in ApexSwitches <=> n = TopOf(i)
    BY <1>1, <1>2, <1>3, <1>4, <1>5 DEF ApexSwitches
  <2>2. ApexSwitches = {TopOf(i)}
    BY <2>1
  <2> QED BY <1>5, <2>2 DEF ApexIs
<1>6. CASE SpansTors /\ ~SpansPods
  <2>1. \A h \in members : AggOf(i, h) = AggOf(i, k)
    BY <1>6, NodeFacts DEF SpansPods
  <2>2. \A n : n \in ApexSwitches <=> n = AggOf(i, k)
    BY <1>0, <1>1, <1>2, <1>4, <1>6, <2>1 DEF ApexSwitches
  <2>3. ApexSwitches = {AggOf(i, k)}
    BY <2>2
  <2> QED BY <1>6, <2>1, <2>3 DEF ApexIs
<1>7. CASE ~SpansTors
  <2>1. \A h \in members : TorOf(h) = TorOf(k)
    BY <1>7 DEF SpansTors
  <2>2. \A n : n \in ApexSwitches <=> n = TorOf(k)
    BY <1>0, <1>1, <1>2, <1>3, <1>4, <1>7, <2>1 DEF ApexSwitches
  <2>3. ApexSwitches = {TorOf(k)}
    BY <2>2
  <2> QED BY <1>7, <2>1, <2>3 DEF ApexIs
<1> QED BY <1>5, <1>6, <1>7

(* The nodes that send to a switch are its tree ports but the uplink.      *)
LEMMA SendersAre ==
    ASSUME FabricRead, NEW i \in Nat, TreeOf(i), members # {}, NEW n \in TreeSwitch
    PROVE  /\ {m \in OnAscent : RootPort(m) = n} = fib[n].mask \ {fib[n].root}
           /\ fib[n].root \in fib[n].mask <=> fib[n].root # NoUplink
           /\ IsFiniteSet(fib[n].mask)
<1>1. /\ \A m : m \in OnAscent <=> m \in TreeSwitch \/ \E h \in members : m = Host(h)
      /\ \A m : m \in TreeSwitch <=>
            \/ \E h \in members : m = TorOf(h)
            \/ SpansTors /\ \E h \in members : m = AggOf(i, h)
            \/ SpansPods /\ m = TopOf(i)
  BY OnAscentIs
<1>2. /\ \A h \in members : RootPort(Host(h)) = TorOf(h)
      /\ \A h \in members : RootPort(TorOf(h)) = IF SpansTors THEN AggOf(i, h) ELSE NoUplink
      /\ \A h \in members : RootPort(AggOf(i, h)) = IF SpansPods THEN TopOf(i) ELSE NoUplink
      /\ SpansPods => RootPort(TopOf(i)) = NoUplink
      /\ RootPort(n) = fib[n].root
  <2>1. /\ \A h \in members : fib[TorOf(h)] = TorEntry(i, h)
        /\ \A h \in members : fib[AggOf(i, h)] = AggEntry(i, h)
        /\ SpansPods => fib[TopOf(i)] = TopEntry(i)
    BY DEF TreeOf
  <2>2. /\ \A h : TorEntry(i, h).root = IF SpansTors THEN AggOf(i, h) ELSE NoUplink
        /\ \A h : AggEntry(i, h).root = IF SpansPods THEN TopOf(i) ELSE NoUplink
        /\ TopEntry(i).root = NoUplink
    BY DEF TorEntry, AggEntry, TopEntry
  <2>3. /\ \A h : TorOf(h)[1] # "host" /\ AggOf(i, h)[1] # "host"
        /\ TopOf(i)[1] # "host"
    BY NodeFacts
  <2>4. \A h \in members : RootPort(Host(h)) = TorOf(h)
    BY NodeNames DEF RootPort, TorOf
  <2>5. \A m : m[1] # "host" => RootPort(m) = fib[m].root
    BY DEF RootPort
  <2>6. n[1] # "host"
    BY <1>1, <2>3
  <2> QED BY <2>1, <2>2, <2>3, <2>4, <2>5, <2>6
<1>3. /\ \A h : TorOf(h)[1] = "tor" /\ AggOf(i, h)[1] = "agg"
      /\ TopOf(i)[1] = "core" /\ NoUplink[1] = "none"
      /\ \A h : Host(h)[1] = "host"
      /\ \A h, m \in members : TorOf(h) = TorOf(m) => HOST_POD(h) = HOST_POD(m)
      /\ \A h, m \in members : AggOf(i, h) = AggOf(i, m) <=> HOST_POD(h) = HOST_POD(m)
      /\ SpansPods => SpansTors
  BY NodeFacts, NodeNames
<1>4. IsFiniteSet(members)
  BY MembersFinite DEF FabricRead
<1>5. CASE \E h \in members : n = TorOf(h)
  <2>1. PICK h \in members : n = TorOf(h)
    BY <1>5
  <2>2. \A m : m \in fib[n].mask <=>
                \/ \E x \in members : m = Host(x) /\ TorOf(x) = n
                \/ SpansTors /\ m = AggOf(i, h)
    BY <2>1, Masks
  <2>3. \A m : m \in OnAscent /\ RootPort(m) = n <=> \E x \in members : m = Host(x) /\ TorOf(x) = n
    BY <1>1, <1>2, <1>3, <2>1
  <2>4. {m \in OnAscent : RootPort(m) = n} = fib[n].mask \ {fib[n].root}
    <3>1. fib[n].root = IF SpansTors THEN AggOf(i, h) ELSE NoUplink
      BY <1>2, <2>1
    <3>2. \A m : m \in OnAscent /\ RootPort(m) = n <=> m \in fib[n].mask /\ m # fib[n].root
      BY <1>3, <2>2, <2>3, <3>1
    <3> QED BY <3>2
  <2>5. fib[n].root \in fib[n].mask <=> fib[n].root # NoUplink
    BY <1>2, <1>3, <2>1, <2>2
  <2>6. IsFiniteSet(fib[n].mask)
    <3> DEFINE f == [x \in members |-> Host(x)]
               H == {f[x] : x \in members}
    <3>1. f = [x \in members |-> f[x]]
      OBVIOUS
    <3>2. \A x \in members : Host(x) \in H
      OBVIOUS
    <3>3. IsFiniteSet(H)
      <4> HIDE DEF f
      <4> QED BY <1>4, <3>1, ImageFinite
    <3> HIDE DEF H
    <3>4. IsFiniteSet(H \cup {AggOf(i, h)})
      BY <3>3, FS_AddElement
    <3>5. fib[n].mask \in SUBSET (H \cup {AggOf(i, h)})
      BY <2>2, <3>2
    <3> QED BY <3>4, <3>5, FS_Subset
  <2> QED BY <2>4, <2>5, <2>6
<1>6. CASE SpansTors /\ \E h \in members : n = AggOf(i, h)
  <2>1. PICK h \in members : n = AggOf(i, h)
    BY <1>6
  <2>2. \A m : m \in fib[n].mask <=>
                \/ \E x \in members : m = TorOf(x) /\ HOST_POD(x) = HOST_POD(h)
                \/ SpansPods /\ m = TopOf(i)
    BY <2>1, Masks
  <2>3. \A m : m \in OnAscent /\ RootPort(m) = n <=>
                \E x \in members : m = TorOf(x) /\ HOST_POD(x) = HOST_POD(h)
    <3>1. ASSUME NEW m, m \in OnAscent, RootPort(m) = n
          PROVE  \E x \in members : m = TorOf(x) /\ HOST_POD(x) = HOST_POD(h)
      BY <1>1, <1>2, <1>3, <2>1, <3>1
    <3>2. ASSUME NEW x \in members, HOST_POD(x) = HOST_POD(h)
          PROVE  TorOf(x) \in OnAscent /\ RootPort(TorOf(x)) = n
      BY <1>1, <1>2, <1>3, <1>6, <2>1, <3>2
    <3> QED BY <3>1, <3>2
  <2>4. {m \in OnAscent : RootPort(m) = n} = fib[n].mask \ {fib[n].root}
    <3>1. fib[n].root = IF SpansPods THEN TopOf(i) ELSE NoUplink
      BY <1>2, <2>1
    <3>2. \A m : m \in OnAscent /\ RootPort(m) = n <=> m \in fib[n].mask /\ m # fib[n].root
      BY <1>3, <2>2, <2>3, <3>1
    <3> QED BY <3>2
  <2>5. fib[n].root \in fib[n].mask <=> fib[n].root # NoUplink
    BY <1>2, <1>3, <2>1, <2>2
  <2>6. IsFiniteSet(fib[n].mask)
    <3> DEFINE f == [x \in members |-> TorOf(x)]
               H == {f[x] : x \in members}
    <3>1. f = [x \in members |-> f[x]]
      OBVIOUS
    <3>2. \A x \in members : TorOf(x) \in H
      OBVIOUS
    <3>3. IsFiniteSet(H)
      <4> HIDE DEF f
      <4> QED BY <1>4, <3>1, ImageFinite
    <3> HIDE DEF H
    <3>4. IsFiniteSet(H \cup {TopOf(i)})
      BY <3>3, FS_AddElement
    <3>5. fib[n].mask \in SUBSET (H \cup {TopOf(i)})
      BY <2>2, <3>2
    <3> QED BY <3>4, <3>5, FS_Subset
  <2> QED BY <2>4, <2>5, <2>6
<1>7. CASE SpansPods /\ n = TopOf(i)
  <2>1. \A m : m \in fib[n].mask <=> \E x \in members : m = AggOf(i, x)
    BY <1>7, Masks
  <2>2. \A m : m \in OnAscent /\ RootPort(m) = n <=> \E x \in members : m = AggOf(i, x)
    <3>1. ASSUME NEW m, m \in OnAscent, RootPort(m) = n
          PROVE  \E x \in members : m = AggOf(i, x)
      BY <1>1, <1>2, <1>3, <1>7, <3>1
    <3>2. ASSUME NEW x \in members
          PROVE  AggOf(i, x) \in OnAscent /\ RootPort(AggOf(i, x)) = n
      BY <1>1, <1>2, <1>3, <1>7
    <3> QED BY <3>1, <3>2
  <2>3. fib[n].root = NoUplink
    BY <1>2, <1>7
  <2>4. NoUplink \notin fib[n].mask
    BY <1>3, <2>1
  <2>5. {m \in OnAscent : RootPort(m) = n} = fib[n].mask \ {fib[n].root}
    <3>1. \A m : m \in OnAscent /\ RootPort(m) = n <=> m \in fib[n].mask /\ m # fib[n].root
      BY <2>1, <2>2, <2>3, <2>4
    <3> QED BY <3>1
  <2>6. IsFiniteSet(fib[n].mask)
    <3> DEFINE f == [x \in members |-> AggOf(i, x)]
               H == {f[x] : x \in members}
    <3>1. f = [x \in members |-> f[x]]
      OBVIOUS
    <3>2. \A x \in members : AggOf(i, x) \in H
      OBVIOUS
    <3>3. IsFiniteSet(H)
      <4> HIDE DEF f
      <4> QED BY <1>4, <3>1, ImageFinite
    <3> HIDE DEF H
    <3>4. fib[n].mask \in SUBSET H
      BY <2>1, <3>2
    <3> QED BY <3>3, <3>4, FS_Subset
  <2> QED BY <2>3, <2>4, <2>5, <2>6
<1> QED BY <1>1, <1>5, <1>6, <1>7

(* BarrierMatchesSenders, of a group that is set up.                       *)
LEMMA BarriersMatch ==
    ASSUME FabricRead, NEW i \in Nat, TreeOf(i), members # {}
    PROVE  BarrierMatchesSenders
<1>1. Cardinality(ApexSwitches) = 1
  <2>1. PICK a : ApexSwitches = {a}
    BY OneApex
  <2> QED BY <2>1, FS_Singleton
<1>2. OnAscent \ {Host(h) : h \in members} \subseteq DOMAIN fib
  BY OnAscentIs
<1>3. ASSUME NEW n \in TreeSwitch
      PROVE  expected_children(n) = Cardinality({m \in OnAscent : RootPort(m) = n})
  <2> DEFINE mask == fib[n].mask
             root == fib[n].root
  <2>1. /\ {m \in OnAscent : RootPort(m) = n} = mask \ {root}
        /\ root \in mask <=> root # NoUplink
        /\ IsFiniteSet(mask)
    BY SendersAre
  <2> HIDE DEF mask, root
  <2>2. /\ Cardinality(mask) \in Nat
        /\ Cardinality(mask \ {root}) = IF root \in mask THEN Cardinality(mask) - 1
                                        ELSE Cardinality(mask)
    BY <2>1, FS_CardinalityType, FS_RemoveElement
  <2>3. expected_children(n) = Cardinality(mask) - (IF root # NoUplink THEN 1 ELSE 0)
    BY DEF expected_children, mask, root
  <2> QED BY <2>1, <2>2, <2>3
<1> QED BY <1>1, <1>2, <1>3 DEF BarrierMatchesSenders

-----------------------------------------------------------------------------
\* Down the tree.

DescentIs(a, h, D1, D2, D3) ==
    /\ Descent(a, h)[0] = {a} /\ Descent(a, h)[1] = D1
    /\ Descent(a, h)[2] = D2 /\ Descent(a, h)[3] = D3

(* Three steps of the recursion, one by one.                               *)
LEMMA DescentSteps ==
    ASSUME NEW a, NEW h, NEW D1, NEW D2, NEW D3,
           \A n : n \in D1 <=> n \in NextHops(a, h),
           \A n : n \in D2 <=> \E m \in D1 : n \in NextHops(m, h),
           \A n : n \in D3 <=> \E m \in D2 : n \in NextHops(m, h)
    PROVE  DescentIs(a, h, D1, D2, D3)
<1> DEFINE g == [k \in 0..3 |-> IF k = 0 THEN {a} ELSE IF k = 1 THEN D1
                                ELSE IF k = 2 THEN D2 ELSE D3]
           f[k \in 0..3] == IF k = 0 THEN {a}
                            ELSE UNION {NextHops(n, h) : n \in f[k - 1]}
<1>0. /\ D1 = UNION {NextHops(n, h) : n \in {a}}
      /\ D2 = UNION {NextHops(n, h) : n \in D1}
      /\ D3 = UNION {NextHops(n, h) : n \in D2}
  OBVIOUS
<1>1. g[0] = {a} /\ g[1] = D1 /\ g[2] = D2 /\ g[3] = D3
  OBVIOUS
<1>2. ASSUME NEW k \in 0..3
      PROVE  g[k] = IF k = 0 THEN {a} ELSE UNION {NextHops(n, h) : n \in g[k - 1]}
  <2> HIDE DEF g
  <2>1. CASE k = 0
    BY <1>1, <2>1
  <2>2. CASE k = 1
    BY <1>0, <1>1, <2>2
  <2>3. CASE k = 2
    BY <1>0, <1>1, <2>3
  <2>4. CASE k = 3
    BY <1>0, <1>1, <2>4
  <2> QED BY <2>1, <2>2, <2>3, <2>4
<1>3. g = [k \in 0..3 |-> g[k]]
  OBVIOUS
<1>4. Descent(a, h) = f
  BY DEF Descent
<1> HIDE DEF g
<1>5. g = [k \in 0..3 |-> IF k = 0 THEN {a} ELSE UNION {NextHops(n, h) : n \in g[k - 1]}]
  BY <1>2, <1>3
<1>6. f = [k \in 0..3 |-> IF k = 0 THEN {a} ELSE UNION {NextHops(n, h) : n \in f[k - 1]}]
  BY Zenon, <1>5
<1> HIDE DEF f
<1>7. f[0] = {a}
  BY <1>6
<1>8. f[1] = D1
  BY <1>0, <1>6, <1>7
<1>9. f[2] = D2
  BY <1>0, <1>6, <1>8
<1>10. f[3] = D3
  BY <1>0, <1>6, <1>9
<1> QED BY <1>4, <1>7, <1>8, <1>9, <1>10 DEF DescentIs

(* The routing table leads down by the switches the tree was built from.   *)
LEMMA NextHopsOnTree ==
    ASSUME FabricRead, NEW i \in Nat, NEW h \in members
    PROVE  /\ NextHops(TopOf(i), h) = {AggOf(i, h)}
           /\ NextHops(AggOf(i, h), h) = {TorOf(h)}
           /\ NextHops(TorOf(h), h) = {Host(h)}
           /\ NextHops(Host(h), h) = {}
<1>1. HOST_POD(h) \in Nat
  BY HostPlace DEF FabricRead
<1>2. NextHops(TopOf(i), h) = {AggOf(i, h)}
  <2>1. ChosenCore(i) % AggsPerPod = i % AggsPerPod
    BY CorePlace
  <2>2. CoreDown(ChosenCore(i), h) = ChosenAgg(HOST_POD(h), i)
    BY <2>1 DEF CoreDown, ChosenAgg, PodPos
  <2> QED BY <2>2, NodeNames DEF NextHops, TopOf, AggOf
<1>3. NextHops(AggOf(i, h), h) = {TorOf(h)}
  <2>1. AggPod(ChosenAgg(HOST_POD(h), i)) = HOST_POD(h)
    BY <1>1, ChosenPlace
  <2> QED BY <2>1, NodeNames DEF NextHops, AggOf, TorOf
<1>4. NextHops(TorOf(h), h) = {Host(h)}
  BY NodeNames DEF NextHops, TorOf
<1>5. NextHops(Host(h), h) = {}
  BY NodeNames DEF NextHops
<1> QED BY <1>2, <1>3, <1>4, <1>5

(* DescentOnTree, of a group that is set up.                               *)
LEMMA DescentStaysOnTree ==
    ASSUME FabricRead, NEW i \in Nat, TreeOf(i), members # {}
    PROVE  DescentOnTree
<1> SUFFICES ASSUME NEW a \in ApexSwitches, NEW h \in members
             PROVE  /\ \A k \in 0..3 : Cardinality(Descent(a, h)[k]) <= 1
                    /\ \A k \in 0..2 : \A n \in Descent(a, h)[k] : n[1] # "host" =>
                            n \in DOMAIN fib /\ Descent(a, h)[k + 1] \subseteq fib[n].mask
                    /\ Host(h) \in UNION {Descent(a, h)[k] : k \in 0..3}
  BY DEF DescentOnTree
<1>1. ApexIs(i, a)
  BY OneApex
<1>2. /\ \A x : Cardinality({x}) <= 1
      /\ Cardinality({}) <= 1
  <2>1. \A x : Cardinality({x}) = 1
    BY FS_Singleton
  <2>2. Cardinality({}) = 0
    BY FS_EmptySet
  <2> QED BY <2>1, <2>2
<1>3. /\ NextHops(TopOf(i), h) = {AggOf(i, h)}
      /\ NextHops(AggOf(i, h), h) = {TorOf(h)}
      /\ NextHops(TorOf(h), h) = {Host(h)}
      /\ NextHops(Host(h), h) = {}
  BY NextHopsOnTree
<1>4. /\ TorOf(h) \in DOMAIN fib /\ AggOf(i, h) \in DOMAIN fib
      /\ SpansPods => TopOf(i) \in DOMAIN fib
  BY DEF TreeOf, Switches
<1>5. /\ Host(h) \in fib[TorOf(h)].mask
      /\ TorOf(h) \in fib[AggOf(i, h)].mask
      /\ SpansPods => AggOf(i, h) \in fib[TopOf(i)].mask
  BY Masks
<1>6. Host(h)[1] = "host"
  BY NodeNames
<1> DEFINE d == Descent(a, h)
<1>7. CASE SpansPods /\ a = TopOf(i)
  <2>1. d[0] = {a} /\ d[1] = {AggOf(i, h)} /\ d[2] = {TorOf(h)} /\ d[3] = {Host(h)}
    <3> DEFINE D1 == {AggOf(i, h)}
               D2 == {TorOf(h)}
               D3 == {Host(h)}
    <3>1. \A n : n \in D1 <=> n \in NextHops(a, h)
      BY <1>3, <1>7
    <3>2. \A n : n \in D2 <=> \E m \in D1 : n \in NextHops(m, h)
      BY <1>3
    <3>3. \A n : n \in D3 <=> \E m \in D2 : n \in NextHops(m, h)
      BY <1>3
    <3> HIDE DEF d, D1, D2, D3
    <3>4. DescentIs(a, h, D1, D2, D3)
      BY <3>1, <3>2, <3>3, DescentSteps
    <3> QED BY <3>4 DEF DescentIs, d, D1, D2, D3
  <2> HIDE DEF d
  <2>2. \A k \in 0..3 : k = 0 \/ k = 1 \/ k = 2 \/ k = 3
    OBVIOUS
  <2>3. \A k \in 0..3 : Cardinality(d[k]) <= 1
    BY <1>2, <2>1, <2>2
  <2>4. \A k \in 0..2 : \A n \in d[k] : n[1] # "host" =>
                            n \in DOMAIN fib /\ d[k + 1] \subseteq fib[n].mask
    BY <1>4, <1>5, <1>7, <2>1
  <2>5. Host(h) \in UNION {d[k] : k \in 0..3}
    BY <2>1
  <2> QED BY <2>3, <2>4, <2>5 DEF d
<1>8. CASE a = AggOf(i, h)
  <2>1. d[0] = {a} /\ d[1] = {TorOf(h)} /\ d[2] = {Host(h)} /\ d[3] = {}
    <3> DEFINE D1 == {TorOf(h)}
               D2 == {Host(h)}
               D3 == {}
    <3>1. \A n : n \in D1 <=> n \in NextHops(a, h)
      BY <1>3, <1>8
    <3>2. \A n : n \in D2 <=> \E m \in D1 : n \in NextHops(m, h)
      BY <1>3
    <3>3. \A n : n \in D3 <=> \E m \in D2 : n \in NextHops(m, h)
      BY <1>3
    <3> HIDE DEF d, D1, D2, D3
    <3>4. DescentIs(a, h, D1, D2, D3)
      BY <3>1, <3>2, <3>3, DescentSteps
    <3> QED BY <3>4 DEF DescentIs, d, D1, D2, D3
  <2> HIDE DEF d
  <2>2. \A k \in 0..3 : k = 0 \/ k = 1 \/ k = 2 \/ k = 3
    OBVIOUS
  <2>3. \A k \in 0..3 : Cardinality(d[k]) <= 1
    BY <1>2, <2>1, <2>2
  <2>4. \A k \in 0..2 : \A n \in d[k] : n[1] # "host" =>
                            n \in DOMAIN fib /\ d[k + 1] \subseteq fib[n].mask
    BY <1>4, <1>5, <1>6, <1>8, <2>1
  <2>5. Host(h) \in UNION {d[k] : k \in 0..3}
    BY <2>1
  <2> QED BY <2>3, <2>4, <2>5 DEF d
<1>9. CASE a = TorOf(h)
  <2>1. d[0] = {a} /\ d[1] = {Host(h)} /\ d[2] = {} /\ d[3] = {}
    <3> DEFINE D1 == {Host(h)}
               D2 == {}
               D3 == {}
    <3>1. \A n : n \in D1 <=> n \in NextHops(a, h)
      BY <1>3, <1>9
    <3>2. \A n : n \in D2 <=> \E m \in D1 : n \in NextHops(m, h)
      BY <1>3
    <3>3. \A n : n \in D3 <=> \E m \in D2 : n \in NextHops(m, h)
      BY <1>3
    <3> HIDE DEF d, D1, D2, D3
    <3>4. DescentIs(a, h, D1, D2, D3)
      BY <3>1, <3>2, <3>3, DescentSteps
    <3> QED BY <3>4 DEF DescentIs, d, D1, D2, D3
  <2> HIDE DEF d
  <2>2. \A k \in 0..3 : k = 0 \/ k = 1 \/ k = 2 \/ k = 3
    OBVIOUS
  <2>3. \A k \in 0..3 : Cardinality(d[k]) <= 1
    BY <1>2, <2>1, <2>2
  <2>4. \A k \in 0..2 : \A n \in d[k] : n[1] # "host" =>
                            n \in DOMAIN fib /\ d[k + 1] \subseteq fib[n].mask
    BY <1>4, <1>5, <1>6, <1>9, <2>1
  <2>5. Host(h) \in UNION {d[k] : k \in 0..3}
    BY <2>1
  <2> QED BY <2>3, <2>4, <2>5 DEF d
<1> QED BY <1>1, <1>7, <1>8, <1>9 DEF ApexIs

(* TypeOK of a group that is set up.                                       *)
LEMMA TreeType ==
    ASSUME FabricRead, NEW i \in Nat, TreeOf(i)
    PROVE  TypeOK
<1>1. ASSUME NEW h \in members
      PROVE  /\ Host(h) \in {Host(x) : x \in Hosts}
             /\ TorOf(h) \in {"tor", "agg", "core"} \X Nat
             /\ AggOf(i, h) \in {"tor", "agg", "core"} \X Nat
  <2>1. h \in Hosts /\ HOST_POD_SWITCH(h) \in Nat /\ HOST_POD(h) \in Nat
    BY HostPlace, Sizes DEF FabricRead, Tors
  <2>2. ChosenAgg(HOST_POD(h), i) \in Nat
    BY <2>1, ChosenPlace
  <2> QED BY <2>1, <2>2 DEF TorOf, AggOf, Tor, Agg
<1>2. TopOf(i) \in {"tor", "agg", "core"} \X Nat
  BY CorePlace DEF TopOf, Core
<1> DEFINE All == {Host(h) : h \in Hosts} \cup ({"tor", "agg", "core"} \X Nat)
<1>3. ASSUME NEW n \in DOMAIN fib
      PROVE  fib[n].mask \subseteq All /\ fib[n].leaf \subseteq {Host(h) : h \in members}
  <2>1. CASE \E h \in members : n = TorOf(h)
    <3>1. PICK h \in members : n = TorOf(h)
      BY <2>1
    <3>2. fib[n].leaf = {Host(m) : m \in {x \in members : TorOf(x) = TorOf(h)}}
      <4>1. fib[n] = TorEntry(i, h)
        BY <3>1 DEF TreeOf
      <4> QED BY <4>1 DEF TorEntry
    <3>3. \A m \in fib[n].mask : m \in All
      BY <1>1, <3>1, Masks
    <3> HIDE DEF All
    <3> QED BY <3>2, <3>3
  <2>2. CASE \E h \in members : n = AggOf(i, h)
    <3>1. PICK h \in members : n = AggOf(i, h)
      BY <2>2
    <3>2. fib[n].leaf = {}
      <4>1. fib[n] = AggEntry(i, h)
        BY <3>1 DEF TreeOf
      <4> QED BY <4>1 DEF AggEntry
    <3>3. \A m \in fib[n].mask : m \in All
      BY <1>1, <1>2, <3>1, Masks
    <3> HIDE DEF All
    <3> QED BY <3>2, <3>3
  <2>3. CASE SpansPods /\ n = TopOf(i)
    <3>2. fib[n].leaf = {}
      <4>1. fib[n] = TopEntry(i)
        BY <2>3 DEF TreeOf
      <4> QED BY <4>1 DEF TopEntry
    <3>3. \A m \in fib[n].mask : m \in All
      <4>1. PICK k \in members : TRUE
        BY <2>3 DEF SpansPods
      <4> QED BY <1>1, <2>3, <4>1, Masks
    <3> HIDE DEF All
    <3> QED BY <3>2, <3>3
  <2> QED BY <2>1, <2>2, <2>3 DEF TreeOf, Switches
<1> QED BY <1>3 DEF TypeOK, FabricRead

-----------------------------------------------------------------------------
\* A flood.

(* A walk of a packet over k nodes: where it is and where it came from.    *)
Nodes == {"host", "tor", "agg", "core"} \X Nat
Walk(w, k, from, at) ==
    /\ w \in Seq(Nodes) /\ Len(w) = k /\ k >= 2
    /\ w[k - 1] = from /\ w[k] = at

Longer(v, n) == Append(v, n)

(* A packet starts from a over its first link to b.                        *)
LEMMA FirstHop ==
    ASSUME NEW a \in Nodes, NEW b \in Nodes
    PROVE  Walk(<<a, b>>, 2, a, b)
<1> HIDE DEF Nodes
<1>1. <<a, b>> \in Seq(Nodes)
  OBVIOUS
<1>2. Len(<<a, b>>) = 2 /\ <<a, b>>[1] = a /\ <<a, b>>[2] = b
  OBVIOUS
<1>3. Len(<<a, b>>) - 1 = 1
  BY <1>2
<1> QED BY <1>1, <1>2, <1>3 DEF Walk

(* One link more.                                                          *)
LEMMA Hop ==
    ASSUME NEW v, NEW k \in Nat, NEW x, NEW y, Walk(v, k, x, y), NEW n \in Nodes
    PROVE  Walk(Longer(v, n), k + 1, y, n)
<1>1. v \in Seq(Nodes) /\ Len(v) = k /\ k >= 2 /\ v[k] = y
  BY DEF Walk
<1> PICK w : w = Append(v, n)
  OBVIOUS
<1>2. w \in Seq(Nodes) /\ Len(w) = k + 1
  BY <1>1
<1>3. w[k + 1] = n /\ w[k] = y
  BY <1>1
<1>4. (k + 1) - 1 = k /\ k + 1 >= 2
  BY <1>1
<1> QED BY <1>2, <1>3, <1>4 DEF Walk, Longer

(* The next hops of a copy are the replicas at the switch it is at.        *)
LEMMA Onward ==
    ASSUME NEW v, NEW k \in Nat, NEW x, NEW y, Walk(v, k, x, y)
    PROVE  \A w : w \in Extensions(v) <=>
                        \E n \in Replicas(y, x) : w = Longer(v, n)
BY DEF Extensions, Walk, Longer

(* What a packet is replicated to where it is in the tree.                 *)
LEMMA ReplicasAre ==
    ASSUME FabricRead, NEW i \in Nat, TreeOf(i)
    PROVE  /\ \A h \in members : \A n : n \in Replicas(TorOf(h), Host(h)) <=>
                \/ \E m \in members : n = Host(m) /\ TorOf(m) = TorOf(h) /\ m # h
                \/ SpansTors /\ n = AggOf(i, h)
           /\ \A h, x : Replicas(Host(h), x) = {}
           /\ \A h \in members : \A n : n \in Replicas(AggOf(i, h), TorOf(h)) <=>
                \/ \E m \in members :
                        n = TorOf(m) /\ HOST_POD(m) = HOST_POD(h) /\ TorOf(m) # TorOf(h)
                \/ SpansPods /\ n = TopOf(i)
           /\ \A h, m \in members : HOST_POD(m) = HOST_POD(h) =>
                \A n : n \in Replicas(TorOf(m), AggOf(i, h)) <=>
                            \E x \in members : n = Host(x) /\ TorOf(x) = TorOf(m)
           /\ SpansPods =>
                /\ \A h \in members : \A n : n \in Replicas(TopOf(i), AggOf(i, h)) <=>
                        \E m \in members : n = AggOf(i, m) /\ HOST_POD(m) # HOST_POD(h)
                /\ \A m \in members : \A n : n \in Replicas(AggOf(i, m), TopOf(i)) <=>
                        \E x \in members : n = TorOf(x) /\ HOST_POD(x) = HOST_POD(m)
<1>1. /\ \A h : TorOf(h)[1] = "tor" /\ AggOf(i, h)[1] = "agg"
      /\ TopOf(i)[1] = "core"
      /\ \A h : Host(h)[1] = "host"
      /\ \A h, m : Host(h) = Host(m) <=> h = m
      /\ \A h, m \in members : AggOf(i, h) = AggOf(i, m) <=> HOST_POD(h) = HOST_POD(m)
  BY NodeFacts, NodeNames
<1>2. /\ \A h \in members : TorOf(h) \in DOMAIN fib /\ AggOf(i, h) \in DOMAIN fib
      /\ SpansPods => TopOf(i) \in DOMAIN fib
  BY DEF TreeOf, Switches
<1>3. \A n, from, m : n \in DOMAIN fib =>
            (m \in Replicas(n, from) <=> m \in fib[n].mask /\ m # from)
  BY DEF Replicas
<1>4. ASSUME NEW h \in members, NEW n
      PROVE  n \in Replicas(TorOf(h), Host(h)) <=>
                \/ \E m \in members : n = Host(m) /\ TorOf(m) = TorOf(h) /\ m # h
                \/ SpansTors /\ n = AggOf(i, h)
  <2>1. n \in fib[TorOf(h)].mask <=>
                \/ \E x \in members : n = Host(x) /\ TorOf(x) = TorOf(h)
                \/ SpansTors /\ n = AggOf(i, h)
    BY Masks
  <2> QED BY <1>1, <1>2, <1>3, <2>1
<1>5. ASSUME NEW h, NEW x PROVE Replicas(Host(h), x) = {}
  <2>1. Host(h) \notin DOMAIN fib
    BY <1>1 DEF TreeOf, Switches
  <2> QED BY <2>1 DEF Replicas
<1>6. ASSUME NEW h \in members, NEW n
      PROVE  n \in Replicas(AggOf(i, h), TorOf(h)) <=>
                \/ \E m \in members :
                        n = TorOf(m) /\ HOST_POD(m) = HOST_POD(h) /\ TorOf(m) # TorOf(h)
                \/ SpansPods /\ n = TopOf(i)
  <2>1. n \in fib[AggOf(i, h)].mask <=>
                \/ \E x \in members : n = TorOf(x) /\ HOST_POD(x) = HOST_POD(h)
                \/ SpansPods /\ n = TopOf(i)
    BY Masks
  <2>2. TopOf(i) # TorOf(h)
    BY <1>1
  <2> QED BY <1>2, <1>3, <2>1, <2>2
<1>7. ASSUME NEW h \in members, NEW m \in members, HOST_POD(m) = HOST_POD(h), NEW n
      PROVE  n \in Replicas(TorOf(m), AggOf(i, h)) <=>
                            \E x \in members : n = Host(x) /\ TorOf(x) = TorOf(m)
  <2>1. n \in fib[TorOf(m)].mask <=>
                \/ \E x \in members : n = Host(x) /\ TorOf(x) = TorOf(m)
                \/ SpansTors /\ n = AggOf(i, m)
    BY Masks
  <2>2. AggOf(i, m) = AggOf(i, h)
    BY <1>1, <1>7
  <2>3. \A x : Host(x) # AggOf(i, h)
    BY <1>1
  <2> QED BY <1>2, <1>3, <2>1, <2>2, <2>3
<1>8. ASSUME SpansPods, NEW h \in members, NEW n
      PROVE  n \in Replicas(TopOf(i), AggOf(i, h)) <=>
                        \E m \in members : n = AggOf(i, m) /\ HOST_POD(m) # HOST_POD(h)
  <2>1. n \in fib[TopOf(i)].mask <=> \E x \in members : n = AggOf(i, x)
    BY <1>8, Masks
  <2>2. n \in Replicas(TopOf(i), AggOf(i, h)) <=>
            n # AggOf(i, h) /\ \E x \in members : n = AggOf(i, x)
    BY <1>2, <1>3, <1>8, <2>1
  <2> QED BY <1>1, <2>2
<1>9. ASSUME SpansPods, NEW m \in members, NEW n
      PROVE  n \in Replicas(AggOf(i, m), TopOf(i)) <=>
                        \E x \in members : n = TorOf(x) /\ HOST_POD(x) = HOST_POD(m)
  <2>1. n \in fib[AggOf(i, m)].mask <=>
                \/ \E x \in members : n = TorOf(x) /\ HOST_POD(x) = HOST_POD(m)
                \/ SpansPods /\ n = TopOf(i)
    BY Masks
  <2>2. \A x : TorOf(x) # TopOf(i)
    BY <1>1
  <2> QED BY <1>2, <1>3, <2>1, <2>2
<1> QED BY <1>4, <1>5, <1>6, <1>7, <1>8, <1>9

(* The copies of a chunk from host h after one to five hops more.          *)
Hops(h, F1, F2, F3, F4, F5) ==
    /\ \A w : w \in F1 <=> w \in Extensions(<<Host(h), TorOf(h)>>)
    /\ \A w : w \in F2 <=> \E v \in F1 : w \in Extensions(v)
    /\ \A w : w \in F3 <=> \E v \in F2 : w \in Extensions(v)
    /\ \A w : w \in F4 <=> \E v \in F3 : w \in Extensions(v)
    /\ \A w : w \in F5 <=> \E v \in F4 : w \in Extensions(v)
    /\ \A v \in F5 : Extensions(v) = {}

(* The recursion of a flood that has ended after five hops more.           *)
LEMMA FloodSteps ==
    ASSUME NEW h, NEW F1, NEW F2, NEW F3, NEW F4, NEW F5, Hops(h, F1, F2, F3, F4, F5)
    PROVE  Flood(h) = {<<Host(h), TorOf(h)>>} \cup F1 \cup F2 \cup F3 \cup F4 \cup F5
<1> DEFINE F0 == {<<Host(h), TorOf(h)>>}
           g == [k \in 0..MaxHops |->
                    IF k = 0 THEN F0 ELSE IF k = 1 THEN F1 ELSE IF k = 2 THEN F2
                    ELSE IF k = 3 THEN F3 ELSE IF k = 4 THEN F4 ELSE IF k = 5 THEN F5
                    ELSE {}]
           f[k \in 0..MaxHops] ==
                    IF k = 0 THEN {<<Host(h), Tor(HOST_POD_SWITCH(h))>>}
                    ELSE UNION {Extensions(w) : w \in f[k - 1]}
<1>1. Flood(h) = UNION {f[k] : k \in 0..MaxHops}
  BY DEF Flood
<1>2. F0 = {<<Host(h), Tor(HOST_POD_SWITCH(h))>>}
  BY DEF TorOf
<1>3. /\ F1 = UNION {Extensions(w) : w \in F0}
      /\ F2 = UNION {Extensions(w) : w \in F1}
      /\ F3 = UNION {Extensions(w) : w \in F2}
      /\ F4 = UNION {Extensions(w) : w \in F3}
      /\ F5 = UNION {Extensions(w) : w \in F4}
  BY DEF Hops
<1>3a. UNION {Extensions(w) : w \in F5} = {}
  BY DEF Hops
<1>3b. UNION {Extensions(w) : w \in {}} = {}
  OBVIOUS
<1>4. /\ g[0] = F0 /\ g[1] = F1 /\ g[2] = F2 /\ g[3] = F3 /\ g[4] = F4
      /\ g[5] = F5 /\ g[6] = {} /\ g[7] = {}
  BY DEF MaxHops
<1>5. g = [k \in 0..MaxHops |-> g[k]]
  OBVIOUS
<1> HIDE DEF F0, g
<1>6. ASSUME NEW k \in 0..MaxHops
      PROVE  g[k] = IF k = 0 THEN F0 ELSE UNION {Extensions(w) : w \in g[k - 1]}
  <2>1. CASE k = 0
    BY <1>4, <2>1
  <2>2. CASE k = 1
    BY <1>3, <1>4, <2>2
  <2>3. CASE k = 2
    BY <1>3, <1>4, <2>3
  <2>4. CASE k = 3
    BY <1>3, <1>4, <2>4
  <2>5. CASE k = 4
    BY <1>3, <1>4, <2>5
  <2>6. CASE k = 5
    BY <1>3, <1>4, <2>6
  <2>7. CASE k = 6
    BY <1>4, <1>3a, <2>7
  <2>8. CASE k = 7
    BY <1>4, <1>3b, <2>8
  <2> QED BY <2>1, <2>2, <2>3, <2>4, <2>5, <2>6, <2>7, <2>8 DEF MaxHops
<1>7. g = [k \in 0..MaxHops |-> IF k = 0 THEN {<<Host(h), Tor(HOST_POD_SWITCH(h))>>}
                                ELSE UNION {Extensions(w) : w \in g[k - 1]}]
  BY <1>2, <1>5, <1>6
<1>8. f = [k \in 0..MaxHops |-> IF k = 0 THEN {<<Host(h), Tor(HOST_POD_SWITCH(h))>>}
                                ELSE UNION {Extensions(w) : w \in f[k - 1]}]
  BY Zenon, <1>7
<1> HIDE DEF f
<1>9. 0..MaxHops = {0, 1, 2, 3, 4, 5, 6, 7}
  BY DEF MaxHops
<1>10. f[0] = F0
  BY <1>2, <1>8 DEF MaxHops
<1>11. f[1] = F1
  BY <1>3, <1>8, <1>10 DEF MaxHops
<1>12. f[2] = F2
  BY <1>3, <1>8, <1>11 DEF MaxHops
<1>13. f[3] = F3
  BY <1>3, <1>8, <1>12 DEF MaxHops
<1>14. f[4] = F4
  BY <1>3, <1>8, <1>13 DEF MaxHops
<1>15. f[5] = F5
  BY <1>3, <1>8, <1>14 DEF MaxHops
<1>16. f[6] = {}
  BY <1>3a, <1>8, <1>15 DEF MaxHops
<1>17. f[7] = {}
  BY <1>3b, <1>8, <1>16 DEF MaxHops
<1>18. Flood(h) = F0 \cup F1 \cup F2 \cup F3 \cup F4 \cup F5
  BY <1>1, <1>9, <1>10, <1>11, <1>12, <1>13, <1>14, <1>15, <1>16, <1>17
<1> QED BY <1>18 DEF F0

(* The walks of a chunk from host h: up the tree, and from the top of each *)
(* way down to member m.                                                   *)
Up0(h) == <<Host(h), TorOf(h)>>
Up1(i, h) == Longer(Up0(h), AggOf(i, h))
Up2(i, h) == Longer(Up1(i, h), TopOf(i))
Near(i, h, m) == Longer(Up1(i, h), TorOf(m))
Far1(i, h, m) == Longer(Up2(i, h), AggOf(i, m))
Far2(i, h, m) == Longer(Far1(i, h, m), TorOf(m))

SameTor(h, m) == TorOf(h) = TorOf(m)
SamePod(h, m) == HOST_POD(h) = HOST_POD(m)

Path(i, h, m) ==
    Longer(IF SameTor(h, m) THEN Up0(h)
           ELSE IF SamePod(h, m) THEN Near(i, h, m) ELSE Far2(i, h, m), Host(m))

(* The nodes of the tree are nodes.                                        *)
LEMMA NodesOfTree ==
    ASSUME FabricRead, NEW i \in Nat, NEW h \in members
    PROVE  /\ Host(h) \in Nodes /\ TorOf(h) \in Nodes
           /\ AggOf(i, h) \in Nodes /\ TopOf(i) \in Nodes
<1>1. h \in Nat /\ HOST_POD_SWITCH(h) \in 0 .. (Tors - 1) /\ HOST_POD(h) \in Nat
  BY HostPlace DEF FabricRead
<1>2. HOST_POD_SWITCH(h) \in Nat
  BY <1>1
<1>3. ChosenAgg(HOST_POD(h), i) \in Nat /\ ChosenCore(i) \in Nat
  BY <1>1, ChosenPlace, CorePlace
<1> QED BY <1>1, <1>2, <1>3 DEF Nodes, Host, TorOf, AggOf, TopOf, Tor, Agg, Core

(* Where the walks up are.                                                 *)
LEMMA WalksUp ==
    ASSUME FabricRead, NEW i \in Nat, NEW h \in members
    PROVE  /\ Walk(Up0(h), 2, Host(h), TorOf(h))
           /\ Walk(Up1(i, h), 3, TorOf(h), AggOf(i, h))
           /\ Walk(Up2(i, h), 4, AggOf(i, h), TopOf(i))
<1>0. /\ Host(h) \in Nodes /\ TorOf(h) \in Nodes
      /\ AggOf(i, h) \in Nodes /\ TopOf(i) \in Nodes
  BY NodesOfTree
<1>1. Walk(Up0(h), 2, Host(h), TorOf(h))
  BY <1>0, FirstHop DEF Up0
<1>2. Walk(Up1(i, h), 3, TorOf(h), AggOf(i, h))
  BY <1>1, <1>0, Hop DEF Up1
<1>3. Walk(Up2(i, h), 4, AggOf(i, h), TopOf(i))
  BY <1>2, <1>0, Hop DEF Up2
<1> QED BY <1>1, <1>2, <1>3

(* Where the walks down are.                                               *)
LEMMA WalksDown ==
    ASSUME FabricRead, NEW i \in Nat, NEW h \in members, NEW m \in members
    PROVE  /\ Walk(Near(i, h, m), 4, AggOf(i, h), TorOf(m))
           /\ Walk(Far1(i, h, m), 5, TopOf(i), AggOf(i, m))
           /\ Walk(Far2(i, h, m), 6, AggOf(i, m), TorOf(m))
           /\ \E k \in 3 .. 7 : Walk(Path(i, h, m), k, TorOf(m), Host(m))
<1>0. /\ Host(m) \in Nodes /\ TorOf(m) \in Nodes
      /\ AggOf(i, m) \in Nodes /\ TopOf(i) \in Nodes
  BY NodesOfTree
<1>0a. /\ Walk(Up0(h), 2, Host(h), TorOf(h))
       /\ Walk(Up1(i, h), 3, TorOf(h), AggOf(i, h))
       /\ Walk(Up2(i, h), 4, AggOf(i, h), TopOf(i))
  BY WalksUp
<1>1. Walk(Near(i, h, m), 4, AggOf(i, h), TorOf(m))
  BY <1>0a, <1>0, Hop DEF Near
<1>2. Walk(Far1(i, h, m), 5, TopOf(i), AggOf(i, m))
  BY <1>0a, <1>0, Hop DEF Far1
<1>3. Walk(Far2(i, h, m), 6, AggOf(i, m), TorOf(m))
  BY <1>2, <1>0, Hop DEF Far2
<1>4. CASE SameTor(h, m)
  <2>1. Walk(Up0(h), 2, Host(h), TorOf(m))
    BY <1>4, <1>0a DEF SameTor
  <2>2. Path(i, h, m) = Longer(Up0(h), Host(m))
    BY <1>4 DEF Path
  <2>3. Walk(Path(i, h, m), 3, TorOf(m), Host(m))
    BY <2>1, <2>2, <1>0, Hop
  <2> QED BY <1>1, <1>2, <1>3, <2>3
<1>5. CASE ~SameTor(h, m) /\ SamePod(h, m)
  <2>2. Path(i, h, m) = Longer(Near(i, h, m), Host(m))
    BY <1>5 DEF Path
  <2>3. Walk(Path(i, h, m), 5, TorOf(m), Host(m))
    BY <1>1, <2>2, <1>0, Hop
  <2> QED BY <1>1, <1>2, <1>3, <2>3
<1>6. CASE ~SameTor(h, m) /\ ~SamePod(h, m)
  <2>2. Path(i, h, m) = Longer(Far2(i, h, m), Host(m))
    BY <1>6 DEF Path
  <2>3. Walk(Path(i, h, m), 7, TorOf(m), Host(m))
    BY <1>3, <2>2, <1>0, Hop
  <2> QED BY <1>1, <1>2, <1>3, <2>3
<1> QED BY <1>4, <1>5, <1>6

(* The copies a chunk from member h has on its way.                        *)
Copies(i, h, w) ==
    \/ w = Up0(h)
    \/ SpansTors /\ w = Up1(i, h)
    \/ SpansPods /\ w = Up2(i, h)
    \/ \E m \in members : SamePod(h, m) /\ ~SameTor(h, m) /\ w = Near(i, h, m)
    \/ \E m \in members : ~SamePod(h, m) /\ (w = Far1(i, h, m) \/ w = Far2(i, h, m))
    \/ \E m \in members \ {h} : w = Path(i, h, m)

(* How each of them goes on.                                               *)
LEMMA GoesOn ==
    ASSUME FabricRead, NEW i \in Nat, TreeOf(i), NEW h \in members
    PROVE  /\ \A w : w \in Extensions(Up0(h)) <=>
                \/ \E m \in members \ {h} : SameTor(h, m) /\ w = Path(i, h, m)
                \/ SpansTors /\ w = Up1(i, h)
           /\ \A w : w \in Extensions(Up1(i, h)) <=>
                \/ \E m \in members : SamePod(h, m) /\ ~SameTor(h, m) /\ w = Near(i, h, m)
                \/ SpansPods /\ w = Up2(i, h)
           /\ SpansPods => \A w : w \in Extensions(Up2(i, h)) <=>
                \E m \in members : ~SamePod(h, m) /\ w = Far1(i, h, m)
           /\ \A m \in members : SamePod(h, m) /\ ~SameTor(h, m) =>
                \A w : w \in Extensions(Near(i, h, m)) <=>
                    \E x \in members : SameTor(m, x) /\ w = Path(i, h, x)
           /\ \A m \in members : ~SamePod(h, m) =>
                /\ \A w : w \in Extensions(Far1(i, h, m)) <=>
                    \E x \in members : SamePod(m, x) /\ w = Longer(Far1(i, h, m), TorOf(x))
                /\ \A w : w \in Extensions(Far2(i, h, m)) <=>
                    \E x \in members : SameTor(m, x) /\ w = Path(i, h, x)
           /\ \A m \in members : Extensions(Path(i, h, m)) = {}
<1>1. /\ \A x, m \in members : SameTor(x, m) => SamePod(x, m)
      /\ \A x, m \in members : AggOf(i, x) = AggOf(i, m) <=> SamePod(x, m)
  BY NodeFacts DEF SameTor, SamePod
<1>2. ASSUME NEW w
      PROVE  w \in Extensions(Up0(h)) <=>
                \/ \E m \in members \ {h} : SameTor(h, m) /\ w = Path(i, h, m)
                \/ SpansTors /\ w = Up1(i, h)
  <2>1. w \in Extensions(Up0(h)) <=>
            \E n \in Replicas(TorOf(h), Host(h)) : w = Longer(Up0(h), n)
    BY WalksUp, Onward
  <2>2. \A n : n \in Replicas(TorOf(h), Host(h)) <=>
                \/ \E m \in members : n = Host(m) /\ TorOf(m) = TorOf(h) /\ m # h
                \/ SpansTors /\ n = AggOf(i, h)
    BY ReplicasAre
  <2>3. \A m : SameTor(h, m) => Path(i, h, m) = Longer(Up0(h), Host(m))
    BY DEF Path
  <2>4. Up1(i, h) = Longer(Up0(h), AggOf(i, h))
    BY DEF Up1
  <2> QED BY <2>1, <2>2, <2>3, <2>4 DEF SameTor
<1>3. ASSUME NEW w
      PROVE  w \in Extensions(Up1(i, h)) <=>
                \/ \E m \in members : SamePod(h, m) /\ ~SameTor(h, m) /\ w = Near(i, h, m)
                \/ SpansPods /\ w = Up2(i, h)
  <2>1. w \in Extensions(Up1(i, h)) <=>
            \E n \in Replicas(AggOf(i, h), TorOf(h)) : w = Longer(Up1(i, h), n)
    BY WalksUp, Onward
  <2>2. \A n : n \in Replicas(AggOf(i, h), TorOf(h)) <=>
                \/ \E m \in members :
                        n = TorOf(m) /\ HOST_POD(m) = HOST_POD(h) /\ TorOf(m) # TorOf(h)
                \/ SpansPods /\ n = TopOf(i)
    BY ReplicasAre
  <2>3. /\ \A m : Near(i, h, m) = Longer(Up1(i, h), TorOf(m))
        /\ Up2(i, h) = Longer(Up1(i, h), TopOf(i))
    BY DEF Near, Up2
  <2> QED BY <2>1, <2>2, <2>3 DEF SameTor, SamePod
<1>4. ASSUME SpansPods, NEW w
      PROVE  w \in Extensions(Up2(i, h)) <=>
                \E m \in members : ~SamePod(h, m) /\ w = Far1(i, h, m)
  <2>1. w \in Extensions(Up2(i, h)) <=>
            \E n \in Replicas(TopOf(i), AggOf(i, h)) : w = Longer(Up2(i, h), n)
    BY WalksUp, Onward
  <2>2. \A n : n \in Replicas(TopOf(i), AggOf(i, h)) <=>
                        \E m \in members : n = AggOf(i, m) /\ HOST_POD(m) # HOST_POD(h)
    BY <1>4, ReplicasAre
  <2>3. \A m : Far1(i, h, m) = Longer(Up2(i, h), AggOf(i, m))
    BY DEF Far1
  <2> QED BY <2>1, <2>2, <2>3 DEF SamePod
<1>5. ASSUME NEW m \in members, SamePod(h, m), ~SameTor(h, m), NEW w
      PROVE  w \in Extensions(Near(i, h, m)) <=>
                    \E x \in members : SameTor(m, x) /\ w = Path(i, h, x)
  <2>1. w \in Extensions(Near(i, h, m)) <=>
            \E n \in Replicas(TorOf(m), AggOf(i, h)) : w = Longer(Near(i, h, m), n)
    BY WalksDown, Onward
  <2>2. \A n : n \in Replicas(TorOf(m), AggOf(i, h)) <=>
                            \E x \in members : n = Host(x) /\ TorOf(x) = TorOf(m)
    BY <1>5, ReplicasAre DEF SamePod
  <2>3. \A x \in members : SameTor(m, x) => Path(i, h, x) = Longer(Near(i, h, m), Host(x))
    <3> SUFFICES ASSUME NEW x \in members, SameTor(m, x)
                 PROVE  Path(i, h, x) = Longer(Near(i, h, m), Host(x))
      OBVIOUS
    <3>1. SamePod(h, x) /\ ~SameTor(h, x)
      BY <1>1, <1>5 DEF SamePod, SameTor
    <3>2. Near(i, h, x) = Near(i, h, m)
      BY DEF Near, SameTor
    <3> QED BY <3>1, <3>2 DEF Path
  <2> QED BY <2>1, <2>2, <2>3 DEF SameTor
<1>6. ASSUME NEW m \in members, ~SamePod(h, m), NEW w
      PROVE  /\ w \in Extensions(Far1(i, h, m)) <=>
                    \E x \in members : SamePod(m, x) /\ w = Longer(Far1(i, h, m), TorOf(x))
             /\ w \in Extensions(Far2(i, h, m)) <=>
                    \E x \in members : SameTor(m, x) /\ w = Path(i, h, x)
  <2>1. SpansPods
    BY <1>6 DEF SpansPods, SamePod
  <2>2. w \in Extensions(Far1(i, h, m)) <=>
            \E n \in Replicas(AggOf(i, m), TopOf(i)) : w = Longer(Far1(i, h, m), n)
    BY WalksDown, Onward
  <2>3. \A n : n \in Replicas(AggOf(i, m), TopOf(i)) <=>
                        \E x \in members : n = TorOf(x) /\ HOST_POD(x) = HOST_POD(m)
    BY <2>1, ReplicasAre
  <2>4. w \in Extensions(Far2(i, h, m)) <=>
            \E n \in Replicas(TorOf(m), AggOf(i, m)) : w = Longer(Far2(i, h, m), n)
    BY WalksDown, Onward
  <2>5. \A n : n \in Replicas(TorOf(m), AggOf(i, m)) <=>
                            \E x \in members : n = Host(x) /\ TorOf(x) = TorOf(m)
    BY ReplicasAre
  <2>6. \A x \in members : SameTor(m, x) => Path(i, h, x) = Longer(Far2(i, h, m), Host(x))
    <3> SUFFICES ASSUME NEW x \in members, SameTor(m, x)
                 PROVE  Path(i, h, x) = Longer(Far2(i, h, m), Host(x))
      OBVIOUS
    <3>1. ~SamePod(h, x) /\ ~SameTor(h, x) /\ SamePod(m, x)
      BY <1>1, <1>6 DEF SamePod, SameTor
    <3>2. AggOf(i, x) = AggOf(i, m)
      BY <1>1, <3>1
    <3>3. Far2(i, h, x) = Far2(i, h, m)
      BY <3>2 DEF Far2, Far1, SameTor
    <3> QED BY <3>1, <3>3 DEF Path
  <2>7. w \in Extensions(Far1(i, h, m)) <=>
                    \E x \in members : SamePod(m, x) /\ w = Longer(Far1(i, h, m), TorOf(x))
    BY <2>2, <2>3 DEF SamePod
  <2>8. w \in Extensions(Far2(i, h, m)) <=>
                    \E x \in members : SameTor(m, x) /\ w = Path(i, h, x)
    BY <2>4, <2>5, <2>6 DEF SameTor
  <2> QED BY <2>7, <2>8
<1>7. ASSUME NEW m \in members PROVE Extensions(Path(i, h, m)) = {}
  <2>1. PICK k \in 3 .. 7 : Walk(Path(i, h, m), k, TorOf(m), Host(m))
    BY WalksDown
  <2>2. \A w : w \in Extensions(Path(i, h, m)) <=>
            \E n \in Replicas(Host(m), TorOf(m)) : w = Longer(Path(i, h, m), n)
    BY <2>1, Onward
  <2>3. Replicas(Host(m), TorOf(m)) = {}
    BY ReplicasAre
  <2> QED BY <2>2, <2>3
<1> QED BY <1>2, <1>3, <1>4, <1>5, <1>6, <1>7

(* The copies of a flood are these.                                        *)
LEMMA FloodIs ==
    ASSUME FabricRead, NEW i \in Nat, TreeOf(i), NEW h \in members
    PROVE  \A w : w \in Flood(h) <=> Copies(i, h, w)
<1> DEFINE F1 == Extensions(Up0(h))
           F2 == UNION {Extensions(v) : v \in F1}
           F3 == UNION {Extensions(v) : v \in F2}
           F4 == UNION {Extensions(v) : v \in F3}
           F5 == UNION {Extensions(v) : v \in F4}
<1>1. /\ \A w : w \in F2 <=> \E v \in F1 : w \in Extensions(v)
      /\ \A w : w \in F3 <=> \E v \in F2 : w \in Extensions(v)
      /\ \A w : w \in F4 <=> \E v \in F3 : w \in Extensions(v)
      /\ \A w : w \in F5 <=> \E v \in F4 : w \in Extensions(v)
  OBVIOUS
<1>2. \A w : w \in F1 <=>
                \/ \E m \in members \ {h} : SameTor(h, m) /\ w = Path(i, h, m)
                \/ SpansTors /\ w = Up1(i, h)
  BY GoesOn
<1> HIDE DEF F1, F2, F3, F4, F5
<1>3. /\ \A m \in members : SameTor(h, m) => SamePod(h, m)
      /\ \A m \in members : ~SameTor(h, m) => SpansTors
      /\ \A m \in members : ~SamePod(h, m) => SpansPods
      /\ SpansPods => SpansTors
  BY NodeFacts DEF SameTor, SamePod, SpansTors, SpansPods
<1>4. \A m \in members : Extensions(Path(i, h, m)) = {}
  BY GoesOn
<1>5. \A w : w \in F2 <=>
                \/ \E m \in members : SamePod(h, m) /\ ~SameTor(h, m) /\ w = Near(i, h, m)
                \/ SpansPods /\ w = Up2(i, h)
  <2>1. \A w : w \in Extensions(Up1(i, h)) <=>
                \/ \E m \in members : SamePod(h, m) /\ ~SameTor(h, m) /\ w = Near(i, h, m)
                \/ SpansPods /\ w = Up2(i, h)
    BY GoesOn
  <2> QED BY <1>1, <1>2, <1>3, <1>4, <2>1
<1>6. \A w : w \in F3 <=>
                \/ \E m \in members : SamePod(h, m) /\ ~SameTor(h, m) /\ w = Path(i, h, m)
                \/ \E m \in members : ~SamePod(h, m) /\ w = Far1(i, h, m)
  <2>1. SpansPods => \A w : w \in Extensions(Up2(i, h)) <=>
                \E m \in members : ~SamePod(h, m) /\ w = Far1(i, h, m)
    BY GoesOn
  <2>2. \A m \in members : SamePod(h, m) /\ ~SameTor(h, m) =>
                \A w : w \in Extensions(Near(i, h, m)) <=>
                    \E x \in members : SameTor(m, x) /\ w = Path(i, h, x)
    BY GoesOn
  <2>3. \A m, x \in members : SamePod(h, m) /\ ~SameTor(h, m) /\ SameTor(m, x) =>
                SamePod(h, x) /\ ~SameTor(h, x)
    BY NodeFacts DEF SameTor, SamePod
  <2>4. \A m \in members : SameTor(m, m)
    BY DEF SameTor
  <2>5. ASSUME NEW w, w \in F3
        PROVE  \/ \E m \in members : SamePod(h, m) /\ ~SameTor(h, m) /\ w = Path(i, h, m)
               \/ \E m \in members : ~SamePod(h, m) /\ w = Far1(i, h, m)
    <3>1. PICK v \in F2 : w \in Extensions(v)
      BY <1>1, <2>5
    <3> QED BY <1>5, <2>1, <2>2, <2>3, <3>1
  <2>6. ASSUME NEW m \in members, SamePod(h, m), ~SameTor(h, m)
        PROVE  Path(i, h, m) \in F3
    <3>1. Near(i, h, m) \in F2
      BY <1>5, <2>6
    <3>2. Path(i, h, m) \in Extensions(Near(i, h, m))
      BY <2>2, <2>4, <2>6
    <3> QED BY <1>1, <3>1, <3>2
  <2>7. ASSUME NEW m \in members, ~SamePod(h, m)
        PROVE  Far1(i, h, m) \in F3
    BY <1>1, <1>3, <1>5, <2>1, <2>7
  <2> QED BY <2>5, <2>6, <2>7
<1>7. \A w : w \in F4 <=> \E m \in members : ~SamePod(h, m) /\ w = Far2(i, h, m)
  <2>1. \A m \in members : ~SamePod(h, m) =>
                \A w : w \in Extensions(Far1(i, h, m)) <=>
                    \E x \in members : SamePod(m, x) /\ w = Longer(Far1(i, h, m), TorOf(x))
    BY GoesOn
  <2>2. \A m, x \in members : SamePod(m, x) =>
                Far2(i, h, x) = Longer(Far1(i, h, m), TorOf(x))
    BY NodeFacts DEF Far1, Far2, SamePod
  <2>3. \A m, x \in members : ~SamePod(h, m) /\ SamePod(m, x) => ~SamePod(h, x)
    BY DEF SamePod
  <2>4. \A m \in members : SamePod(m, m)
    BY DEF SamePod
  <2>5. ASSUME NEW w, w \in F4
        PROVE  \E m \in members : ~SamePod(h, m) /\ w = Far2(i, h, m)
    <3>1. PICK v \in F3 : w \in Extensions(v)
      BY <1>1, <2>5
    <3>2. PICK m \in members : ~SamePod(h, m) /\ v = Far1(i, h, m)
      BY <1>4, <1>6, <3>1
    <3>3. PICK x \in members : SamePod(m, x) /\ w = Longer(Far1(i, h, m), TorOf(x))
      BY <2>1, <3>1, <3>2
    <3> QED BY <2>2, <2>3, <3>2, <3>3
  <2>6. ASSUME NEW m \in members, ~SamePod(h, m) PROVE Far2(i, h, m) \in F4
    <3>1. Far1(i, h, m) \in F3
      BY <1>6, <2>6
    <3>2. Far2(i, h, m) \in Extensions(Far1(i, h, m))
      BY <2>1, <2>2, <2>4, <2>6
    <3> QED BY <1>1, <3>1, <3>2
  <2> QED BY <2>5, <2>6
<1>8. \A w : w \in F5 <=> \E m \in members : ~SamePod(h, m) /\ w = Path(i, h, m)
  <2>1. \A m \in members : ~SamePod(h, m) =>
                \A w : w \in Extensions(Far2(i, h, m)) <=>
                    \E x \in members : SameTor(m, x) /\ w = Path(i, h, x)
    BY GoesOn
  <2>2. \A m, x \in members : ~SamePod(h, m) /\ SameTor(m, x) => ~SamePod(h, x)
    BY NodeFacts DEF SamePod, SameTor
  <2>3. \A m \in members : SameTor(m, m)
    BY DEF SameTor
  <2>4. ASSUME NEW w, w \in F5
        PROVE  \E m \in members : ~SamePod(h, m) /\ w = Path(i, h, m)
    BY <1>1, <1>7, <2>1, <2>2, <2>4
  <2>5. ASSUME NEW m \in members, ~SamePod(h, m) PROVE Path(i, h, m) \in F5
    <3>1. Far2(i, h, m) \in F4
      BY <1>7, <2>5
    <3>2. Path(i, h, m) \in Extensions(Far2(i, h, m))
      BY <2>1, <2>3, <2>5
    <3> QED BY <1>1, <3>1, <3>2
  <2> QED BY <2>4, <2>5
<1>9. \A w : w \in F1 <=> w \in Extensions(<<Host(h), TorOf(h)>>)
  BY DEF F1, Up0
<1>10. \A v \in F5 : Extensions(v) = {}
  BY <1>4, <1>8
<1>10a. Hops(h, F1, F2, F3, F4, F5)
  BY <1>1, <1>9, <1>10 DEF Hops
<1>11. Flood(h) = {<<Host(h), TorOf(h)>>} \cup F1 \cup F2 \cup F3 \cup F4 \cup F5
  BY <1>10a, FloodSteps
<1>12. ASSUME NEW w, w \in Flood(h) PROVE Copies(i, h, w)
  <2>1. \/ w = Up0(h) \/ w \in F1 \/ w \in F2 \/ w \in F3 \/ w \in F4 \/ w \in F5
    BY <1>11, <1>12 DEF Up0
  <2>2. SamePod(h, h) /\ SameTor(h, h)
    BY DEF SamePod, SameTor
  <2> QED BY <1>2, <1>5, <1>6, <1>7, <1>8, <2>1, <2>2 DEF Copies
<1>13. ASSUME NEW w, Copies(i, h, w) PROVE w \in Flood(h)
  <2>1. \/ w = Up0(h) \/ w \in F1 \/ w \in F2 \/ w \in F3 \/ w \in F4 \/ w \in F5
    BY <1>2, <1>3, <1>5, <1>6, <1>7, <1>8, <1>13 DEF Copies
  <2> QED BY <1>11, <2>1 DEF Up0
<1> QED BY <1>12, <1>13

(* FloodExact, of a group that is set up.                                  *)
LEMMA FloodIsExact ==
    ASSUME FabricRead, NEW i \in Nat, TreeOf(i), Cardinality(members) > 1
    PROVE  FloodExact
<1> SUFFICES ASSUME NEW h \in members,
                    NEW ends, ends = {w \in Flood(h) : w[Len(w)][1] = "host"}
             PROVE  /\ {w[Len(w)] : w \in ends} = {Host(m) : m \in members \ {h}}
                    /\ Cardinality(ends) = Cardinality(members) - 1
                    /\ \A w \in ends : w[Len(w)] \in fib[w[Len(w) - 1]].leaf
                    /\ \A w \in Flood(h) : Len(w) <= MaxHops
                    /\ \A w \in Flood(h) \ ends : Extensions(w) # {}
  BY DEF FloodExact
<1>1. \A w : w \in Flood(h) <=> Copies(i, h, w)
  BY FloodIs
<1>2. \A w, k, x, y : Walk(w, k, x, y) =>
            /\ Len(w) = k /\ w[Len(w)] = y
            /\ w[Len(w) - 1] = x
  BY DEF Walk
<1>3. /\ Walk(Up0(h), 2, Host(h), TorOf(h))
      /\ Walk(Up1(i, h), 3, TorOf(h), AggOf(i, h))
      /\ Walk(Up2(i, h), 4, AggOf(i, h), TopOf(i))
  BY WalksUp
<1>4. \A m \in members :
        /\ Walk(Near(i, h, m), 4, AggOf(i, h), TorOf(m))
        /\ Walk(Far1(i, h, m), 5, TopOf(i), AggOf(i, m))
        /\ Walk(Far2(i, h, m), 6, AggOf(i, m), TorOf(m))
        /\ \E k \in 3 .. 7 : Walk(Path(i, h, m), k, TorOf(m), Host(m))
  BY WalksDown
<1>5. /\ \A m : TorOf(m)[1] = "tor" /\ AggOf(i, m)[1] = "agg" /\ Host(m)[1] = "host"
      /\ TopOf(i)[1] = "core"
      /\ \A m, x : Host(m) = Host(x) <=> m = x
  BY NodeFacts, NodeNames
<1>6. \A w : w \in ends <=> \E m \in members \ {h} : w = Path(i, h, m)
  <2>1. ASSUME NEW m \in members
        PROVE  Path(i, h, m)[Len(Path(i, h, m))][1] = "host"
    <3>1. PICK k \in 3 .. 7 : Walk(Path(i, h, m), k, TorOf(m), Host(m))
      BY <1>4
    <3>2. Path(i, h, m)[Len(Path(i, h, m))] = Host(m)
      BY <1>2, <3>1
    <3> QED BY <1>5, <3>2
  <2>2. ASSUME NEW w \in ends PROVE \E m \in members \ {h} : w = Path(i, h, m)
    <3>1. Copies(i, h, w) /\ w[Len(w)][1] = "host"
      BY <1>1
    <3>2. /\ Up0(h)[Len(Up0(h))] = TorOf(h)
          /\ Up1(i, h)[Len(Up1(i, h))] = AggOf(i, h)
          /\ Up2(i, h)[Len(Up2(i, h))] = TopOf(i)
      BY <1>2, <1>3
    <3>3. \A m \in members :
            /\ Near(i, h, m)[Len(Near(i, h, m))] = TorOf(m)
            /\ Far1(i, h, m)[Len(Far1(i, h, m))] = AggOf(i, m)
            /\ Far2(i, h, m)[Len(Far2(i, h, m))] = TorOf(m)
      BY <1>2, <1>4
    <3> QED BY <1>5, <3>1, <3>2, <3>3 DEF Copies
  <2>3. ASSUME NEW m \in members \ {h} PROVE Path(i, h, m) \in ends
    <3>1. Copies(i, h, Path(i, h, m))
      BY DEF Copies
    <3> QED BY <1>1, <2>1, <3>1
  <2> QED BY <2>2, <2>3
<1>7. \A m \in members :
        LET w == Path(i, h, m)
        IN w[Len(w)] = Host(m) /\ w[Len(w) - 1] = TorOf(m)
  BY <1>2, <1>4
<1>8. {w[Len(w)] : w \in ends} = {Host(m) : m \in members \ {h}}
  BY <1>6, <1>7
<1>9. Cardinality(ends) = Cardinality(members) - 1
  <2>1. IsFiniteSet(members) /\ Cardinality(members) \in Nat
    BY MembersFinite DEF FabricRead
  <2>2. /\ IsFiniteSet(members \ {h})
        /\ Cardinality(members \ {h}) = Cardinality(members) - 1
    BY <2>1, FS_RemoveElement
  <2> DEFINE p == [m \in members \ {h} |-> Path(i, h, m)]
  <2>3. p \in [members \ {h} -> ends]
    BY <1>6
  <2>4. \A m, x \in members \ {h} : p[m] = p[x] => m = x
    BY <1>5, <1>7
  <2>5. \A w \in ends : \E m \in members \ {h} : p[m] = w
    BY <1>6
  <2> HIDE DEF p
  <2>6. p \in Surjection(members \ {h}, ends) /\ p \in Injection(members \ {h}, ends)
    BY <2>3, <2>4, <2>5 DEF Injection, Surjection, IsInjective
  <2>7. Cardinality(ends) = Cardinality(members \ {h})
    BY <2>2, <2>6, FS_Surjection
  <2> QED BY <2>2, <2>7
<1>10. \A w \in ends : w[Len(w)] \in fib[w[Len(w) - 1]].leaf
  <2> SUFFICES ASSUME NEW m \in members PROVE Host(m) \in fib[TorOf(m)].leaf
    BY <1>6, <1>7
  <2>1. fib[TorOf(m)] = TorEntry(i, m)
    BY DEF TreeOf
  <2> QED BY <2>1 DEF TorEntry
<1>11. \A w \in Flood(h) : Len(w) <= MaxHops
  <2> SUFFICES ASSUME NEW w, Copies(i, h, w) PROVE Len(w) <= 7
    BY <1>1 DEF MaxHops
  <2>0. \A v, k, x, y : Walk(v, k, x, y) => Len(v) = k
    BY <1>2
  <2>1. Len(Up0(h)) = 2 /\ Len(Up1(i, h)) = 3 /\ Len(Up2(i, h)) = 4
    <3>1. Len(Up0(h)) = 2
      BY <2>0, <1>3
    <3>2. Len(Up1(i, h)) = 3
      BY <2>0, <1>3
    <3>3. Len(Up2(i, h)) = 4
      BY <2>0, <1>3
    <3> QED BY <3>1, <3>2, <3>3
  <2>2. ASSUME NEW m \in members
        PROVE  /\ Len(Near(i, h, m)) = 4 /\ Len(Far1(i, h, m)) = 5
               /\ Len(Far2(i, h, m)) = 6 /\ Len(Path(i, h, m)) \in 3 .. 7
    <3>1. PICK k \in 3 .. 7 : Walk(Path(i, h, m), k, TorOf(m), Host(m))
      BY <1>4
    <3>2. Len(Path(i, h, m)) = k
      BY <2>0, <3>1
    <3>3. Len(Near(i, h, m)) = 4 /\ Len(Far1(i, h, m)) = 5 /\ Len(Far2(i, h, m)) = 6
      <4>1. /\ Walk(Near(i, h, m), 4, AggOf(i, h), TorOf(m))
            /\ Walk(Far1(i, h, m), 5, TopOf(i), AggOf(i, m))
            /\ Walk(Far2(i, h, m), 6, AggOf(i, m), TorOf(m))
        BY <1>4
      <4>2. Len(Near(i, h, m)) = 4
        BY <2>0, <4>1
      <4>3. Len(Far1(i, h, m)) = 5
        BY <2>0, <4>1
      <4>4. Len(Far2(i, h, m)) = 6
        BY <2>0, <4>1
      <4> QED BY <4>2, <4>3, <4>4
    <3> QED BY <3>2, <3>3
  <2> DEFINE Short(v) == Len(v) <= 7
  <2>3. Short(Up0(h)) /\ Short(Up1(i, h)) /\ Short(Up2(i, h))
    BY <2>1
  <2>4. ASSUME NEW m \in members
        PROVE  /\ Short(Near(i, h, m)) /\ Short(Far1(i, h, m))
               /\ Short(Far2(i, h, m)) /\ Short(Path(i, h, m))
    <3>1. Len(Near(i, h, m)) = 4 /\ Len(Far1(i, h, m)) = 5 /\ Len(Far2(i, h, m)) = 6
      BY <2>2
    <3>2. PICK l \in 3 .. 7 : l = Len(Path(i, h, m))
      BY <2>2
    <3>3. Short(Path(i, h, m))
      <4>1. l <= 7
        OBVIOUS
      <4> QED BY Zenon, <3>2, <4>1
    <3>4. Short(Near(i, h, m))
      BY <3>1
    <3>5. Short(Far1(i, h, m))
      BY <3>1
    <3>6. Short(Far2(i, h, m))
      BY <3>1
    <3> QED BY <3>3, <3>4, <3>5, <3>6
  <2> HIDE DEF Short
  <2>5. Short(w)
    BY <2>3, <2>4 DEF Copies
  <2> QED BY <2>5 DEF Short
<1>12. ASSUME NEW w \in Flood(h) \ ends PROVE Extensions(w) # {}
  <2>1. /\ Copies(i, h, w) /\ ~\E m \in members \ {h} : w = Path(i, h, m)
    BY <1>1, <1>6
  <2>2. PICK o \in members : o # h
    BY TwoOrMore, MembersFinite DEF FabricRead
  <2>3. /\ \A m \in members : SameTor(m, m) /\ SamePod(m, m)
        /\ \A m \in members : ~SameTor(h, m) => SpansTors
    BY DEF SameTor, SamePod, SpansTors
  <2>4. CASE w = Up0(h)
    <3>1. \A v : v \in Extensions(Up0(h)) <=>
                \/ \E m \in members \ {h} : SameTor(h, m) /\ v = Path(i, h, m)
                \/ SpansTors /\ v = Up1(i, h)
      BY GoesOn
    <3> QED BY <2>2, <2>3, <2>4, <3>1
  <2>5. CASE SpansTors /\ w = Up1(i, h)
    <3>1. \A v : v \in Extensions(Up1(i, h)) <=>
                \/ \E m \in members : SamePod(h, m) /\ ~SameTor(h, m) /\ v = Near(i, h, m)
                \/ SpansPods /\ v = Up2(i, h)
      BY GoesOn
    <3>2. PICK m \in members : ~SameTor(h, m)
      BY <2>5 DEF SpansTors, SameTor
    <3>3. SamePod(h, m) \/ SpansPods
      BY DEF SamePod, SpansPods
    <3> QED BY <2>5, <3>1, <3>2, <3>3
  <2>6. CASE SpansPods /\ w = Up2(i, h)
    <3>1. \A v : v \in Extensions(Up2(i, h)) <=>
                \E m \in members : ~SamePod(h, m) /\ v = Far1(i, h, m)
      BY <2>6, GoesOn
    <3>2. PICK m \in members : ~SamePod(h, m)
      BY <2>6 DEF SpansPods, SamePod
    <3> QED BY <2>6, <3>1, <3>2
  <2>7. ASSUME NEW m \in members, SamePod(h, m), ~SameTor(h, m), w = Near(i, h, m)
        PROVE  Extensions(w) # {}
    <3>1. \A v : v \in Extensions(Near(i, h, m)) <=>
                    \E x \in members : SameTor(m, x) /\ v = Path(i, h, x)
      BY <2>7, GoesOn
    <3> QED BY <2>3, <2>7, <3>1
  <2>8. ASSUME NEW m \in members, ~SamePod(h, m), w = Far1(i, h, m) \/ w = Far2(i, h, m)
        PROVE  Extensions(w) # {}
    <3>1. /\ \A v : v \in Extensions(Far1(i, h, m)) <=>
                    \E x \in members : SamePod(m, x) /\ v = Longer(Far1(i, h, m), TorOf(x))
          /\ \A v : v \in Extensions(Far2(i, h, m)) <=>
                    \E x \in members : SameTor(m, x) /\ v = Path(i, h, x)
      BY <2>8, GoesOn
    <3> QED BY <2>3, <2>8, <3>1
  <2> QED BY <2>1, <2>4, <2>5, <2>6, <2>7, <2>8 DEF Copies
<1> QED BY <1>8, <1>9, <1>10, <1>11, <1>12

-----------------------------------------------------------------------------
(* What set_up_mcast leaves, whatever groups it has set up.                *)
THEOREM Invariance == Spec => []IInv
BY InitInv, NextInv, PTL DEF Spec

(* Before the first group there is nothing to be wrong.                    *)
LEMMA NoTree ==
    ASSUME FabricRead, members = {}, DOMAIN fib = {}
    PROVE  TypeOK /\ RoutesAgree /\ FloodExact /\ BarrierMatchesSenders
<1>1. TreeSwitch = {} /\ ApexSwitches = {}
  BY DEF TreeSwitch, ApexSwitches
<1> QED BY <1>1 DEF FabricRead, TypeOK, RoutesAgree, Wired, DescentOnTree,
                     FloodExact, BarrierMatchesSenders

(* What the invariant gives.                                               *)
LEMMA TreeIsRight ==
    ASSUME IInv
    PROVE  TypeOK /\ RoutesAgree /\ FloodExact /\ BarrierMatchesSenders
<1>1. FabricRead
  BY DEF IInv
<1>2. CASE members = {} /\ DOMAIN fib = {}
  BY <1>1, <1>2, NoTree
<1>3. CASE Cardinality(members) > 1 /\ \E i \in Nat : TreeOf(i)
  <2> PICK i \in Nat : TreeOf(i)
    BY <1>3
  <2>1. members # {}
    <3>1. Cardinality({}) = 0
      BY FS_EmptySet
    <3> QED BY <1>3, <3>1
  <2> QED BY <1>1, <1>3, <2>1, TreeType, TreeIsWired, DescentStaysOnTree,
             FloodIsExact, BarriersMatch DEF RoutesAgree
<1> QED BY <1>2, <1>3 DEF IInv

(* Type correctness: the entries' ports are nodes of the fabric and their   *)
(* leaf routes members of the group.                                       *)
THEOREM TypeCorrect == Spec => []TypeOK
BY Invariance, TreeIsRight, PTL

(* The cables init_network lays, the ports of the trees and the next hops  *)
(* of getNextHop agree: every tree port has a cable, both ends have it,    *)
(* and a result turned around at the apex meets only tree links on the way *)
(* to any member.                                                          *)
THEOREM TreeRoutesAgree == Spec => []RoutesAgree
BY Invariance, TreeIsRight, PTL

(* A chunk flooded from a member reaches every other member over exactly   *)
(* one path, and nobody else: the replication of a switch along the        *)
(* entries' ports makes a tree, with no switch that is a dead end.         *)
THEOREM FloodsExact == Spec => []FloodExact
BY Invariance, TreeIsRight, PTL

(* expected_children of each switch is the number of nodes that send up to *)
(* it, and there is one apex: no barrier waits for one too many or fires   *)
(* with one too few.                                                       *)
THEOREM BarriersMatchSenders == Spec => []BarrierMatchesSenders
BY Invariance, TreeIsRight, PTL
=============================================================================
