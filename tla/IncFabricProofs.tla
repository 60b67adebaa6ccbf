-------------------------- MODULE IncFabricProofs --------------------------
(***************************************************************************)
(* Proofs about IncFabric, for every tree, group, set of operations and    *)
(* every threshold of the flow control: the types, that reductions are     *)
(* whole, that ingress charges are held as long as they must be and no     *)
(* longer, that each piece is delivered once, that nothing is left at      *)
(* rest, and that the fabric implements the promise of Collective.         *)
(*                                                                         *)
(* The invariant, IInv, says what the switches never write down.  Data:    *)
(* the contributions of one chunk are of subtrees that do not meet, and    *)
(* are gone when its result exists; the copies of a result lead to         *)
(* different parts of the tree.  Held and Charges: who holds a packet is   *)
(* who will release it.  FlowSound: the last PAUSE or GO sent tells the    *)
(* state it was sent from.                                                 *)
(***************************************************************************)
EXTENDS IncFabric, Integers, FiniteSetTheorems, FunctionTheorems,
        SequenceTheorems, TLAPS

-----------------------------------------------------------------------------

(* The link a node sends up on.                                             *)
UpOf(n) == <<n, Parent[n]>>

(* Sets of nodes that hold the children of each of theirs.                  *)
ClosedDown == {S \in SUBSET Node : \A y \in S : Children(y) \subseteq S}

(* The subtree of n, as the smallest such set around it: what can be        *)
(* reasoned about, where Below is recursive.                                *)
Desc(n) == {x \in Node : \A S \in ClosedDown : n \in S => x \in S}

(* Any nodes have a highest and a lowest one among them: there is no        *)
(* circle.                                                                  *)
LEMMA Ends ==
    ASSUME NEW S, S \subseteq Node, S # {}
    PROVE  /\ \E n \in S : n = Apex \/ Parent[n] \notin S
           /\ \E n \in S : Children(n) \cap S = {}
  <1>1. S \in (SUBSET Node) \ {{}}
    OBVIOUS
  <1> QED  BY <1>1, TreeAssumption

(* Where every node is in the tree.                                         *)
LEMMA TreeBasics ==
    /\ Apex \in Switch /\ Apex \in Node
    /\ DOMAIN Parent = Node \ {Apex}
    /\ \A n \in Node \ {Apex} : Parent[n] \in Switch /\ Parent[n] \in Node
    /\ \A n \in Node : Children(n) = {m \in Node \ {Apex} : Parent[m] = n}
    /\ \A n \in Member : Children(n) = {} /\ n \in Node \ {Apex}
    /\ \A n \in Node : n \notin Member <=> n \in Switch
  <1>1. PICK s \in Switch : Parent \in [Node \ {s} -> Switch]
    BY TreeAssumption
  <1>2. s \notin DOMAIN Parent
    BY <1>1
  <1>3. Apex \in Switch /\ Apex \notin DOMAIN Parent
    BY <1>2 DEF Apex
  <1>4. Apex \in Node
    BY <1>3 DEF Node
  <1>5. Apex = s
    BY <1>1, <1>3, <1>4
  <1>6. DOMAIN Parent = Node \ {Apex}
    BY <1>1, <1>5
  <1>7. \A n \in Node \ {Apex} : Parent[n] \in Switch /\ Parent[n] \in Node
    BY <1>1, <1>5 DEF Node
  <1>8. \A n \in Node : Children(n) = {m \in Node \ {Apex} : Parent[m] = n}
    BY <1>6 DEF Children
  <1>9. \A n \in Node : n \notin Member <=> n \in Switch
    BY TreeAssumption DEF Node
  <1>10. \A n \in Member : Children(n) = {} /\ n \in Node \ {Apex}
    BY <1>3, <1>7, <1>8, <1>9 DEF Node
  <1> QED  BY <1>3, <1>4, <1>6, <1>7, <1>8, <1>9, <1>10

(* A subtree holds its top, and with every node its children.               *)
LEMMA DescBasics ==
    ASSUME NEW n \in Node
    PROVE  /\ n \in Desc(n)
           /\ Desc(n) \subseteq Node
           /\ \A y \in Desc(n) : Children(y) \subseteq Desc(n)
           /\ \A S \in ClosedDown : n \in S => Desc(n) \subseteq S
  <1>1. \A y \in Desc(n) : Children(y) \subseteq Desc(n)
    <2> SUFFICES ASSUME NEW y \in Desc(n), NEW z \in Children(y)
                 PROVE  z \in Desc(n)
      OBVIOUS
    <2>1. y \in Node /\ z \in Node
      BY TreeBasics DEF Desc
    <2>2. ASSUME NEW S \in ClosedDown, n \in S
          PROVE  z \in S
      BY <2>2, <2>1 DEF Desc, ClosedDown
    <2> QED  BY <2>1, <2>2 DEF Desc
  <1> QED  BY <1>1 DEF Desc

(* The way up from a node of a subtree stays in it until the top.           *)
LEMMA DescUp ==
    ASSUME NEW n \in Node, NEW x \in Desc(n), x # n
    PROVE  x \in Node \ {Apex} /\ Parent[x] \in Desc(n)
  <1> DEFINE S == {n} \cup {y \in Desc(n) : y \in Node \ {Apex} /\ Parent[y] \in Desc(n)}
  <1>1. S \subseteq Desc(n)
    BY DescBasics
  <1>2. S \in ClosedDown
    <2> SUFFICES ASSUME NEW y \in S, NEW z \in Children(y)
                 PROVE  z \in S
      BY <1>1, DescBasics DEF ClosedDown
    <2>1. y \in Desc(n) /\ z \in Desc(n) /\ y \in Node
      BY <1>1, DescBasics
    <2>2. z \in Node \ {Apex} /\ Parent[z] = y
      BY <2>1, TreeBasics
    <2> QED  BY <2>1, <2>2
  <1>3. x \in S
    BY <1>2, DescBasics
  <1> QED  BY <1>3

(* A subtree of a subtree is part of it.                                    *)
LEMMA DescSub ==
    ASSUME NEW n \in Node, NEW m \in Desc(n)
    PROVE  Desc(m) \subseteq Desc(n)
  BY DescBasics DEF ClosedDown

(* Below its top, a subtree is the subtrees of the children.                *)
LEMMA DescSplit ==
    ASSUME NEW n \in Node, NEW x \in Desc(n), x # n
    PROVE  \E m \in Children(n) : x \in Desc(m)
  <1> DEFINE S == {n} \cup {y \in Node : \E m \in Children(n) : y \in Desc(m)}
  <1>1. S \in ClosedDown
    <2> SUFFICES ASSUME NEW y \in S, NEW z \in Children(y)
                 PROVE  z \in S
      BY DEF ClosedDown
    <2>1. y \in Node /\ z \in Node
      BY TreeBasics
    <2>2. CASE y = n
      BY <2>1, <2>2, DescBasics
    <2>3. CASE \E m \in Children(n) : y \in Desc(m)
      <3>1. PICK m \in Children(n) : y \in Desc(m)
        BY <2>3
      <3>2. m \in Node
        BY TreeBasics
      <3> QED  BY <2>1, <3>1, <3>2, DescBasics
    <2> QED  BY <2>2, <2>3
  <1>2. x \in S
    BY <1>1, DescBasics
  <1> QED  BY <1>2

(* Nothing is below itself.                                                 *)
LEMMA NoCycle ==
    ASSUME NEW a \in Node \ {Apex}
    PROVE  Parent[a] \notin Desc(a)
  <1> SUFFICES ASSUME Parent[a] \in Desc(a) PROVE FALSE
    OBVIOUS
  <1> DEFINE S == {y \in Desc(a) : a \in Desc(y)}
  <1>1. a \in S /\ S \subseteq Node
    BY DescBasics
  <1>2. PICK y \in S : y = Apex \/ Parent[y] \notin S
    <2>1. S \subseteq Node /\ S # {}
      BY <1>1
    <2> HIDE DEF S
    <2> QED  BY <2>1, Ends
  <1>3. y \in Node /\ y \in Node \ {Apex} /\ Parent[y] \in Desc(a) /\ Parent[y] \in Node
    <2>1. CASE y = a
      BY <2>1, TreeBasics
    <2>2. CASE y # a
      BY <2>2, <1>1, DescUp, TreeBasics
    <2> QED  BY <2>1, <2>2
  <1>4. a \in Desc(Parent[y])
    <2>1. y \in Children(Parent[y])
      BY <1>3, TreeBasics
    <2>2. y \in Desc(Parent[y])
      BY <2>1, <1>3, DescBasics
    <2> QED  BY <2>2, <1>3, DescSub
  <1> QED  BY <1>2, <1>3, <1>4

(* Everything is below the apex.                                            *)
LEMMA DescApex ==  Desc(Apex) = Node
  <1> DEFINE S == Node \ Desc(Apex)
  <1> SUFFICES ASSUME S # {} PROVE FALSE
    BY DescBasics, TreeBasics
  <1>1. PICK y \in S : y = Apex \/ Parent[y] \notin S
    BY TreeAssumption
  <1>2. y # Apex
    BY DescBasics, TreeBasics
  <1>3. Parent[y] \in Desc(Apex) /\ y \in Children(Parent[y])
    BY <1>1, <1>2, TreeBasics
  <1> QED  BY <1>1, <1>3, TreeBasics, DescBasics

(* Two children of a switch have nothing in common.                         *)
LEMMA Siblings ==
    ASSUME NEW a \in Node \ {Apex}, NEW b \in Node \ {Apex}, a # b, Parent[a] = Parent[b]
    PROVE  Desc(a) \cap Desc(b) = {}
  <1> DEFINE S == Desc(a) \ Desc(b)
  <1>1. a \notin Desc(b)
    BY DescUp, NoCycle
  <1>2. S \in ClosedDown
    <2> SUFFICES ASSUME NEW y \in S, NEW z \in Children(y), z \in Desc(b)
                 PROVE  FALSE
      BY DescBasics DEF ClosedDown
    <2>1. y \in Node /\ z \in Node \ {Apex} /\ Parent[z] = y
      BY DescBasics, TreeBasics
    <2>2. z = b
      BY <2>1, DescUp
    <2> QED  BY <2>1, <2>2, NoCycle
  <1>3. a \in S
    BY <1>1, DescBasics
  <1> QED  BY <1>2, <1>3, DescBasics

(* A member has nothing below it.                                           *)
LEMMA DescMember ==
    ASSUME NEW m \in Member
    PROVE  Desc(m) = {m}
  BY TreeBasics, DescBasics, DescSplit

(* A switch has children.                                                   *)
LEMMA ChildOfSwitch ==
    ASSUME NEW s \in Switch
    PROVE  Children(s) # {}
  <1> SUFFICES ASSUME Children(s) = {} PROVE FALSE
    OBVIOUS
  <1>1. Neighbours(s) = {} \/ Neighbours(s) = {Parent[s]}
    BY DEF Neighbours
  <1>2. Cardinality(Neighbours(s)) \in {0, 1}
    BY <1>1, FS_EmptySet, FS_Singleton
  <1> QED  BY <1>2, TreeAssumption

(* The recursive definition has a solution, and only one. *)
LEMMA BelowIs ==
    ASSUME NEW n \in Node
    PROVE  Below[n] = Desc(n) \cap Member
  <1> DEFINE B(f, i) == IF i \in Member THEN {i} ELSE UNION {f[m] : m \in Children(i)}
             F == [i \in Node |-> Desc(i) \cap Member]
  <1>1. ASSUME NEW i \in Node
        PROVE  F[i] = B(F, i)
    <2>1. CASE i \in Member
      BY <2>1, DescMember
    <2>2. CASE i \notin Member
      <3>1. Children(i) \subseteq Node
        BY TreeBasics
      <3>2. ASSUME NEW h \in F[i] PROVE h \in B(F, i)
        <4>1. PICK m \in Children(i) : h \in Desc(m)
          BY <2>2, <3>2, DescSplit
        <4> QED  BY <2>2, <3>1, <3>2, <4>1
      <3>3. ASSUME NEW h \in B(F, i) PROVE h \in F[i]
        <4>1. PICK m \in Children(i) : h \in F[m]
          BY <2>2, <3>3
        <4>2. h \in Desc(m) /\ h \in Member /\ m \in Desc(i)
          BY <3>1, <4>1, DescBasics
        <4> QED  BY <4>2, DescSub
      <3> QED  BY <3>2, <3>3
    <2> QED  BY <2>1, <2>2
  <1>2. F = [i \in Node |-> B(F, i)]
    BY <1>1
  <1> DEFINE G == CHOOSE f : f = [i \in Node |-> B(f, i)]
  <1>3. G = [i \in Node |-> B(G, i)]
    BY <1>2
  <1>4. Below = G
    BY DEF Below
  <1> HIDE DEF G
  <1>5. \A i \in Node : Below[i] = B(Below, i)
    <2>1. Below = [i \in Node |-> B(Below, i)]
      BY <1>3, <1>4
    <2>2. \A i \in Node : [j \in Node |-> B(Below, j)][i] = B(Below, i)
      OBVIOUS
    <2> QED  BY <2>1, <2>2
  <1> DEFINE S == {i \in Node : Below[i] # Desc(i) \cap Member}
  <1>6. S = {}
    <2> SUFFICES ASSUME S # {} PROVE FALSE
      OBVIOUS
    <2>1. PICK i \in S : Children(i) \cap S = {}
      BY TreeAssumption
    <2>2. \A m \in Children(i) : Below[m] = F[m]
      BY <2>1, TreeBasics
    <2>3. B(Below, i) = B(F, i)
      BY <2>2
    <2> QED  BY <1>1, <1>5, <2>1, <2>3
  <1> QED  BY <1>6

(* A subtree has members in it.                                             *)
LEMMA BelowSome ==
    ASSUME NEW n \in Node
    PROVE  Below[n] # {}
  <1> DEFINE S == {i \in Node : Below[i] = {}}
  <1> SUFFICES ASSUME S # {} PROVE FALSE
    OBVIOUS
  <1>1. PICK i \in S : Children(i) \cap S = {}
    BY TreeAssumption
  <1>2. i \in Switch
    BY <1>1, BelowIs, DescMember, TreeBasics
  <1>3. PICK m \in Children(i) : TRUE
    BY <1>2, ChildOfSwitch
  <1>4. m \in Node /\ m \in Desc(i)
    BY <1>1, <1>3, TreeBasics, DescBasics
  <1>5. Below[m] \subseteq Below[i]
    BY <1>4, BelowIs, DescSub
  <1> QED  BY <1>1, <1>4, <1>5
-----------------------------------------------------------------------------

(* The part of the tree a link leads to: what it would cut off.             *)
Side(l) == IF l \in DownLink THEN Desc(l[2]) ELSE Node \ Desc(l[1])

(* A link joins a node with its parent, one way or the other.               *)
LEMMA LinkShape ==
    ASSUME NEW l \in Link
    PROVE  /\ l = <<l[1], l[2]>>
           /\ l[1] \in Node /\ l[2] \in Node /\ l[1] # l[2]
           /\ l \in UpLink <=> l[1] \in Node \ {Apex} /\ l[2] = Parent[l[1]]
           /\ l \in DownLink <=> l[2] \in Node \ {Apex} /\ l[1] = Parent[l[2]]
           /\ l \in UpLink <=> l \notin DownLink
  <1>1. l \in UpLink \/ l \in DownLink
    BY DEF Link
  <1>2. l = <<l[1], l[2]>> /\ l[1] \in Node /\ l[2] \in Node
    BY <1>1, TreeBasics DEF UpLink, DownLink
  <1>3. l \in UpLink <=> l[1] \in Node \ {Apex} /\ l[2] = Parent[l[1]]
    BY <1>2, TreeBasics DEF UpLink
  <1>4. l \in DownLink <=> l[2] \in Node \ {Apex} /\ l[1] = Parent[l[2]]
    BY <1>2, TreeBasics DEF DownLink
  <1>5. ASSUME NEW a \in Node \ {Apex} PROVE Parent[a] # a
    BY NoCycle, DescBasics
  <1>6. ASSUME NEW a \in Node \ {Apex}, Parent[a] # Apex, Parent[Parent[a]] = a PROVE FALSE
    <2>1. Parent[a] \in Node \ {Apex} /\ Parent[a] \in Children(a)
      BY <1>6, TreeBasics
    <2> QED  BY <2>1, <1>6, NoCycle, DescBasics
  <1> QED  BY <1>1, <1>2, <1>3, <1>4, <1>5, <1>6

(* The kinds of links: where they start and where they end.                 *)
LEMMA LinkKinds ==
    /\ Port \subseteq Link /\ Nic \subseteq Link /\ Ingress \subseteq Link /\ Access \subseteq Link
    /\ \A l \in Link : l \in Nic <=> l \notin Port
    /\ \A l \in Link : l \in Access <=> l \notin Ingress
    /\ \A l \in Nic : l \in UpLink /\ l \in Ingress /\ l[1] \in Member
    /\ \A l \in Access : l \in DownLink /\ l \in Port /\ l[2] \in Member
    /\ \A l \in Port : l[1] \in Switch
    /\ \A l \in Ingress : l[2] \in Switch
    /\ \A n \in Node \ {Apex} : UpOf(n) \in UpLink /\ UpOf(n) \in Link /\ UpOf(n) \in Ingress
    /\ \A l \in UpLink : l = UpOf(l[1]) /\ l \in Link /\ l \in Ingress
  <1>1. Port \subseteq Link /\ Nic \subseteq Link /\ Ingress \subseteq Link /\ Access \subseteq Link
    BY DEF Port, Nic, Ingress, Access
  <1>2. \A l \in Link : l \in Nic <=> l \notin Port
    BY LinkShape, TreeBasics DEF Nic, Port
  <1>3. \A l \in Link : l \in Access <=> l \notin Ingress
    BY LinkShape, TreeBasics DEF Access, Ingress
  <1>4. ASSUME NEW l \in Nic PROVE l \in UpLink /\ l \in Ingress /\ l[1] \in Member
    BY LinkShape, TreeBasics DEF Nic, Ingress
  <1>5. ASSUME NEW l \in Access PROVE l \in DownLink /\ l \in Port /\ l[2] \in Member
    BY LinkShape, TreeBasics DEF Access, Port
  <1>6. ASSUME NEW n \in Node \ {Apex}
        PROVE  UpOf(n) \in UpLink /\ UpOf(n) \in Link /\ UpOf(n) \in Ingress
    BY TreeBasics DEF UpLink, Link, Ingress, UpOf
  <1>7. ASSUME NEW l \in UpLink PROVE l = UpOf(l[1]) /\ l \in Link /\ l \in Ingress
    BY TreeBasics DEF UpLink, Link, Ingress, UpOf
  <1> QED  BY <1>1, <1>2, <1>3, <1>4, <1>5, <1>6, <1>7 DEF Port, Ingress

(* The links of a switch are those to and from its neighbours.              *)
LEMMA NeighbourLinks ==
    ASSUME NEW s \in Switch
    PROVE  /\ s \in Node
           /\ \A b \in Neighbours(s) :
                /\ <<s, b>> \in Link /\ <<s, b>> \in Port
                /\ <<b, s>> \in Link /\ <<b, s>> \in Ingress /\ b \in Node
                /\ b \in Children(s) <=> <<s, b>> \in DownLink
           /\ \A l \in Link : l[1] = s => l[2] \in Neighbours(s)
           /\ \A l \in Link : l[2] = s => l[1] \in Neighbours(s)
           /\ Children(s) \subseteq Neighbours(s)
           /\ s = Apex => Neighbours(s) = Children(s)
           /\ s # Apex => Neighbours(s) = Children(s) \cup {Parent[s]}
           /\ s # Apex => Parent[s] \notin Children(s)
  <1>1. s \in Node
    BY DEF Node
  <1>2. \A b \in Children(s) : <<s, b>> \in DownLink /\ <<b, s>> \in UpLink /\ b \in Node
    BY <1>1, TreeBasics DEF DownLink, UpLink
  <1>3. s # Apex => <<s, Parent[s]>> \in UpLink /\ <<Parent[s], s>> \in DownLink /\ Parent[s] \in Node
    BY <1>1, TreeBasics DEF DownLink, UpLink
  <1>4. \A b \in Neighbours(s) : <<s, b>> \in Link /\ <<b, s>> \in Link /\ b \in Node
    BY <1>2, <1>3 DEF Link, Neighbours
  <1>5. \A b \in Neighbours(s) : <<s, b>> \in Port /\ <<b, s>> \in Ingress
    BY <1>4 DEF Port, Ingress
  <1>6. s # Apex => Parent[s] \notin Children(s)
    BY <1>1, <1>2, <1>3, LinkShape DEF Link
  <1>7. \A b \in Neighbours(s) : b \in Children(s) <=> <<s, b>> \in DownLink
    BY <1>2, <1>3, <1>4, <1>6, LinkShape DEF Neighbours
  <1>8. \A l \in Link : l[1] = s => l[2] \in Neighbours(s)
    BY <1>1, TreeBasics, LinkShape DEF Neighbours
  <1>9. \A l \in Link : l[2] = s => l[1] \in Neighbours(s)
    BY <1>1, TreeBasics, LinkShape DEF Neighbours
  <1> QED  BY <1>1, <1>4, <1>5, <1>6, <1>7, <1>8, <1>9 DEF Neighbours

(* A link leads to its far end and away from its near end.                  *)
LEMMA SideBasics ==
    ASSUME NEW l \in Link
    PROVE  /\ l[2] \in Side(l) /\ l[1] \notin Side(l) /\ Side(l) \subseteq Node
           /\ l \in DownLink => Side(l) = Desc(l[2])
           /\ l \in UpLink => Side(l) = Node \ Desc(l[1])
  <1>1. l \in DownLink => Side(l) = Desc(l[2])
    BY DEF Side
  <1>2. l \in UpLink => Side(l) = Node \ Desc(l[1])
    BY LinkShape DEF Side
  <1>3. CASE l \in DownLink
    BY <1>1, <1>2, <1>3, LinkShape, NoCycle, DescBasics
  <1>4. CASE l \in UpLink
    BY <1>1, <1>2, <1>4, LinkShape, NoCycle, DescBasics
  <1> QED  BY <1>3, <1>4 DEF Link

(* A link into a switch leads to whatever its other links lead to, and no   *)
(* two of those lead to the same.                                           *)
LEMMA SideSplit ==
    ASSUME NEW s \in Switch, NEW a \in Neighbours(s), NEW b \in Neighbours(s), a # b
    PROVE  /\ Side(<<s, b>>) \subseteq Side(<<a, s>>)
           /\ Side(<<s, a>>) \cap Side(<<s, b>>) = {}
  <1>1. /\ s \in Node /\ a \in Node /\ b \in Node
        /\ <<s, a>> \in Link /\ <<s, b>> \in Link /\ <<a, s>> \in Link
    BY NeighbourLinks
  <1>2. ASSUME NEW x \in Children(s)
        PROVE  /\ Side(<<s, x>>) = Desc(x)
               /\ Side(<<x, s>>) = Node \ Desc(x)
               /\ Desc(x) \subseteq Desc(s)
               /\ x \in Node \ {Apex} /\ Parent[x] = s
    <2>1. <<s, x>> \in DownLink /\ <<x, s>> \in UpLink /\ <<s, x>> \in Link /\ <<x, s>> \in Link
      BY <1>1, TreeBasics DEF DownLink, UpLink, Link
    <2> QED  BY <2>1, <1>1, SideBasics, TreeBasics, DescBasics, DescSub
  <1>3. ASSUME s # Apex
        PROVE  /\ Side(<<s, Parent[s]>>) = Node \ Desc(s)
               /\ Side(<<Parent[s], s>>) = Desc(s)
    <2>1. <<s, Parent[s]>> \in UpLink /\ <<Parent[s], s>> \in DownLink
          /\ <<s, Parent[s]>> \in Link /\ <<Parent[s], s>> \in Link
      BY <1>1, <1>3, TreeBasics DEF DownLink, UpLink, Link
    <2> QED  BY <2>1, SideBasics
  <1>4. CASE a \in Children(s) /\ b \in Children(s)
    <2>1. Desc(a) \cap Desc(b) = {}
      BY <1>2, <1>4, Siblings
    <2>2. Desc(b) \subseteq Node
      BY <1>1, DescBasics
    <2> QED  BY <2>1, <2>2, <1>2, <1>4
  <1>5. CASE a \in Children(s) /\ b \notin Children(s)
    <2>1. s # Apex /\ b = Parent[s]
      BY <1>5, NeighbourLinks
    <2> QED  BY <2>1, <1>2, <1>3, <1>5
  <1>6. CASE a \notin Children(s)
    <2>1. s # Apex /\ a = Parent[s] /\ b \in Children(s)
      BY <1>6, NeighbourLinks
    <2> QED  BY <2>1, <1>2, <1>3
  <1> QED  BY <1>4, <1>5, <1>6

(* A link and the one back lead to the two parts of the tree.               *)
LEMMA SideBack ==
    ASSUME NEW l \in Link, NEW k \in Link, k[1] = l[2], k[2] = l[1]
    PROVE  Node \ Side(l) = Side(k)
  <1>1. CASE l \in UpLink
    <2>1. k \in DownLink
      BY <1>1, LinkShape
    <2> QED  BY <1>1, <2>1, SideBasics, LinkShape, DescBasics
  <1>2. CASE l \in DownLink
    <2>1. k \in UpLink
      BY <1>2, LinkShape
    <2> QED  BY <1>2, <2>1, SideBasics, LinkShape, DescBasics
  <1> QED  BY <1>1, <1>2 DEF Link

(* The ordinary route has one next hop. *)
LEMMA NextHopIs ==
    ASSUME NEW s \in Switch, NEW h \in Member, h \in Desc(s)
    PROVE  \E b \in Children(s) : NextHop(s, h) = {b} /\ h \in Desc(b)
  <1>1. s \in Node /\ h # s
    BY TreeBasics DEF Node
  <1>2. PICK b \in Children(s) : h \in Desc(b)
    BY <1>1, DescSplit
  <1>3. ASSUME NEW n \in Children(s)
        PROVE  n \in NextHop(s, h) <=> n = b
    <2>1. n \in Node \ {Apex} /\ b \in Node \ {Apex} /\ Parent[n] = s /\ Parent[b] = s
      BY <1>1, TreeBasics
    <2> QED  BY <2>1, <1>2, Siblings, BelowIs DEF NextHop
  <1>4. NextHop(s, h) \subseteq Children(s)
    BY DEF NextHop
  <1> QED  BY <1>2, <1>3, <1>4
-----------------------------------------------------------------------------

(* Intervals from one, and products with a singleton. *)
LEMMA UpTo ==
    ASSUME NEW n \in Nat
    PROVE  IsFiniteSet(1..n) /\ Cardinality(1..n) = n
  <1>1. 1 \in Int /\ n \in Int
    OBVIOUS
  <1>2. IsFiniteSet(1..n) /\ Cardinality(1..n) = IF 1 > n THEN 0 ELSE n - 1 + 1
    BY <1>1, FS_Interval, Zenon
  <1> QED  BY <1>2

(* The product with a singleton is as large.                                *)
LEMMA TimesOne ==
    ASSUME NEW S, IsFiniteSet(S), NEW x
    PROVE  IsFiniteSet(S \X {x}) /\ Cardinality(S \X {x}) = Cardinality(S)
  <1>1. IsFiniteSet({x}) /\ Cardinality({x}) = 1
    BY FS_Singleton
  <1>2. Cardinality(S) \in Nat
    BY FS_CardinalityType
  <1>3. Cardinality(S \X {x}) = Cardinality(S) * 1 /\ IsFiniteSet(S \X {x})
    BY <1>1, FS_Product, Zenon
  <1> QED  BY <1>2, <1>3

(* Every member has one place in the group.                                 *)
LEMMA MemberCount ==
    /\ IsFiniteSet(Member) /\ Cardinality(Member) = Len(Group)
    /\ Len(Group) \in Nat /\ DOMAIN Group = 1..Len(Group)
    /\ \A i \in DOMAIN Group : Group[i] \in Member
    /\ \A h \in Member : \E i \in DOMAIN Group : h = Group[i]
    /\ \A i, j \in DOMAIN Group : Group[i] = Group[j] => i = j
  <1>1. Group \in Seq(Member) /\ Cardinality(Member) = Len(Group)
    BY OpAssumption
  <1>2. Len(Group) \in Nat /\ DOMAIN Group = 1..Len(Group)
        /\ \A i \in DOMAIN Group : Group[i] \in Member
    BY <1>1
  <1>3. IsFiniteSet(1..Len(Group)) /\ Cardinality(1..Len(Group)) = Len(Group)
    BY <1>2, UpTo
  <1>4. Group \in Surjection(1..Len(Group), Member)
    <2>1. Group \in [1..Len(Group) -> Member]
      BY <1>1, <1>2
    <2>2. \A m \in Member : \E i \in 1..Len(Group) : Group[i] = m
      BY <1>2 DEF Member
    <2> QED  BY <2>1, <2>2, Fun_IsSurj
  <1>5. IsFiniteSet(Member)
    BY <1>3, <1>4, FS_Surjection
  <1>6. Group \in Injection(1..Len(Group), Member)
    BY <1>1, <1>3, <1>4, FS_Surjection
  <1>7. \A i, j \in DOMAIN Group : Group[i] = Group[j] => i = j
    BY <1>2, <1>6, Fun_InjectionProperties
  <1>8. \A h \in Member : \E i \in DOMAIN Group : h = Group[i]
    BY DEF Member
  <1> QED  BY <1>1, <1>2, <1>5, <1>7, <1>8

(* What integer division does.                                              *)
LEMMA Division ==
    ASSUME NEW n \in Nat, NEW b \in Nat \ {0}
    PROVE  /\ n \div b \in Nat
           /\ (n \div b) * b <= n
           /\ n < (n \div b) * b + b
  OBVIOUS

(* The blocks of reduce_scatter and allgather split the operation evenly.   *)
LEMMA BlockSize ==
    ASSUME NEW o \in Op, Kind[o] \in {"reduce_scatter", "allgather"}
    PROVE  Block(o) \in Nat \ {0} /\ Size[o] = Len(Group) * Block(o)
  <1>1. Size[o] \in Nat \ {0} /\ Size[o] % Len(Group) = 0 /\ Len(Group) \in Nat /\ Len(Group) > 1
    BY OpAssumption, MemberCount
  <1> DEFINE n == Len(Group)
             z == Size[o]
  <1>2. z \in Nat \ {0} /\ n \in Nat /\ n > 1 /\ z % n = 0
    BY <1>1
  <1>3. Block(o) = z \div n
    BY DEF Block
  <1> HIDE DEF n, z
  <1>4. z = n * (z \div n) + (z % n)
    BY <1>2
  <1>5. z \div n \in Nat
    BY <1>2, Division
  <1>6. z \div n # 0
    BY <1>2, <1>4
  <1>7. z = n * (z \div n)
    BY <1>2, <1>4, <1>5
  <1>8. z = Size[o] /\ n = Len(Group)
    BY DEF z, n
  <1> QED  BY <1>3, <1>5, <1>6, <1>7, <1>8

(* What main_uec.cpp sets up is never empty: an operation has chunks,       *)
(* emitters, receivers, and as many activations as receivers.               *)
LEMMA OpShape ==
    ASSUME NEW o \in Op
    PROVE  /\ Kind[o] \in Kinds /\ Root[o] \in Member
           /\ Size[o] \in Nat \ {0}
           /\ IsFiniteSet(Chunks(o)) /\ Chunks(o) \subseteq Nat /\ Chunks(o) # {}
           /\ Kind[o] = "allgather" => Cardinality(Chunks(o)) = Block(o) /\ Block(o) \in Nat \ {0}
           /\ Kind[o] # "allgather" => Cardinality(Chunks(o)) = Size[o] /\ Chunks(o) = 1..Size[o]
           /\ Emitters(o) \subseteq Member /\ Emitters(o) # {}
           /\ Receivers(o) \subseteq Member /\ Receivers(o) # {}
           /\ IsFiniteSet(Receivers(o))
           /\ Activations(o) = Cardinality(Receivers(o))
           /\ Activations(o) \in Nat \ {0}
  <1>1. Kind[o] \in Kinds /\ Root[o] \in Member /\ Size[o] \in Nat \ {0}
    BY OpAssumption
  <1>2. /\ IsFiniteSet(Chunks(o)) /\ Chunks(o) \subseteq Nat /\ Chunks(o) # {}
        /\ Kind[o] = "allgather" => Cardinality(Chunks(o)) = Block(o) /\ Block(o) \in Nat \ {0}
        /\ Kind[o] # "allgather" => Cardinality(Chunks(o)) = Size[o] /\ Chunks(o) = 1..Size[o]
    <2>1. CASE Kind[o] = "allgather"
      <3>1. Block(o) \in Nat \ {0}
        BY <2>1, BlockSize
      <3>2. Chunks(o) = 1..Block(o)
        BY <2>1 DEF Chunks
      <3>3. Cardinality(1..Block(o)) = Block(o) /\ IsFiniteSet(1..Block(o))
        BY <3>1, UpTo
      <3>4. 1 \in 1..Block(o) /\ 1..Block(o) \subseteq Nat
        BY <3>1
      <3> QED  BY <2>1, <3>1, <3>2, <3>3, <3>4
    <2>2. CASE Kind[o] # "allgather"
      <3>1. Chunks(o) = 1..Size[o]
        BY <2>2 DEF Chunks
      <3>2. Cardinality(1..Size[o]) = Size[o] /\ IsFiniteSet(1..Size[o])
        BY <1>1, UpTo
      <3>3. 1 \in 1..Size[o] /\ 1..Size[o] \subseteq Nat
        BY <1>1
      <3> QED  BY <2>2, <3>1, <3>2, <3>3
    <2> QED  BY <2>1, <2>2
  <1>3. IsFiniteSet(Member) /\ Cardinality(Member) = Len(Group) /\ Len(Group) > 1 /\ Len(Group) \in Nat
    BY MemberCount, OpAssumption
  <1>4. Cardinality(Member \ {Root[o]}) = Len(Group) - 1 /\ IsFiniteSet(Member \ {Root[o]})
    BY <1>1, <1>3, FS_RemoveElement
  <1>5. Emitters(o) \subseteq Member /\ Emitters(o) # {}
    BY <1>1 DEF Emitters
  <1>6. /\ Receivers(o) \subseteq Member
        /\ IsFiniteSet(Receivers(o))
        /\ Activations(o) = Cardinality(Receivers(o))
        /\ Activations(o) \in Nat \ {0}
    <2>1. CASE Kind[o] = "reduce"
      <3>1. Receivers(o) = {Root[o]} /\ Activations(o) = 1
        BY <2>1 DEF Receivers, Activations
      <3>2. IsFiniteSet({Root[o]}) /\ Cardinality({Root[o]}) = 1
        BY FS_Singleton
      <3> QED  BY <3>1, <3>2, <1>1
    <2>2. CASE Kind[o] = "bcast"
      <3>1. Receivers(o) = Member \ {Root[o]} /\ Activations(o) = Len(Group) - 1
        BY <2>2 DEF Receivers, Activations
      <3>2. Len(Group) - 1 \in Nat \ {0}
        BY <1>3
      <3> QED  BY <3>1, <3>2, <1>4
    <2>3. CASE Kind[o] # "reduce" /\ Kind[o] # "bcast"
      <3>1. Receivers(o) = Member /\ Activations(o) = Len(Group)
        BY <2>3 DEF Receivers, Activations
      <3>2. Len(Group) \in Nat \ {0}
        BY <1>3
      <3> QED  BY <3>1, <3>2, <1>3
    <2> QED  BY <2>1, <2>2, <2>3
  <1>7. Receivers(o) # {}
    BY <1>6, FS_EmptySet
  <1> QED  BY <1>1, <1>2, <1>5, <1>6, <1>7

(* The block a chunk of a reduce_scatter falls in belongs to its root.      *)
LEMMA RootOwns ==
    ASSUME NEW o \in Op, NEW c \in Chunks(o), Kind[o] = "reduce_scatter"
    PROVE  \E i \in DOMAIN Group :
              ReduceRoot(o, c) = Group[i] /\ c \in ((i - 1) * Block(o) + 1)..(i * Block(o))
  <1> DEFINE b == Block(o)
             n == Len(Group)
             q == (c - 1) \div b
  <1>1. b \in Nat \ {0} /\ n \in Nat /\ Size[o] = n * b /\ DOMAIN Group = 1..n
    BY BlockSize, MemberCount
  <1>2. c \in Nat /\ c >= 1 /\ c <= n * b
    BY <1>1, OpShape
  <1>3. ReduceRoot(o, c) = Group[q + 1]
    BY DEF ReduceRoot
  <1>4. Block(o) = b
    OBVIOUS
  <1>5. q \in Nat /\ q * b <= c - 1 /\ c - 1 < q * b + b
    <2>1. c - 1 \in Nat
      BY <1>2
    <2> HIDE DEF b
    <2> QED  BY <2>1, <1>1, Division
  <1> HIDE DEF b, n, q
  <1>6. q < n
    <2> SUFFICES ASSUME q >= n PROVE FALSE
      BY <1>1, <1>5
    <2>1. q * b >= n * b
      BY <1>1, <1>5
    <2> DEFINE x == q * b
               y == n * b
    <2>2. x \in Nat /\ y \in Nat /\ x >= y /\ x <= c - 1 /\ c <= y
      BY <1>1, <1>2, <1>5, <2>1
    <2> HIDE DEF x, y
    <2> QED  BY <2>2, <1>2
  <1>7. ((q + 1) - 1) * b = q * b /\ (q + 1) * b = q * b + b
    BY <1>1, <1>5
  <1>8. c \in (((q + 1) - 1) * b + 1)..((q + 1) * b)
    <2> DEFINE x == q * b
    <2>1. x \in Nat /\ x <= c - 1 /\ c - 1 < x + b
      BY <1>1, <1>5
    <2>2. c \in (x + 1)..(x + b)
      <3> HIDE DEF x
      <3> QED  BY <2>1, <1>1, <1>2
    <2> QED  BY <2>2, <1>7
  <1>9. q + 1 \in DOMAIN Group
    BY <1>1, <1>5, <1>6
  <1> QED  BY <1>3, <1>4, <1>8, <1>9

(* The root of a chunk is owed it, and expects it.                          *)
LEMMA RootIsReceiver ==
    ASSUME NEW o \in Op, NEW c \in Chunks(o), Kind[o] \in {"reduce", "reduce_scatter"}
    PROVE  /\ ReduceRoot(o, c) \in Member
           /\ ReduceRoot(o, c) \in Receivers(o)
           /\ <<c, Member>> \in Due(o, ReduceRoot(o, c))
  <1>1. CASE Kind[o] = "reduce"
    BY <1>1, OpShape DEF ReduceRoot, Receivers, Due
  <1>2. CASE Kind[o] = "reduce_scatter"
    <2>1. PICK i \in DOMAIN Group :
            ReduceRoot(o, c) = Group[i] /\ c \in ((i - 1) * Block(o) + 1)..(i * Block(o))
      BY <1>2, RootOwns
    <2>2. ReduceRoot(o, c) \in Member
      BY <2>1, MemberCount
    <2>3. Receivers(o) = Member
      BY <1>2 DEF Receivers
    <2> DEFINE h == ReduceRoot(o, c)
               C == {d \in Chunks(o) :
                       \E j \in DOMAIN Group :
                          h = Group[j] /\ d \in ((j - 1) * Block(o) + 1)..(j * Block(o))}
    <2>4. Due(o, h) = C \X {Member}
      BY <1>2 DEF Due
    <2>5. c \in C
      BY <2>1
    <2> QED  BY <2>2, <2>3, <2>4, <2>5
  <1> QED  BY <1>1, <1>2

(* A receiver is owed as many pieces as the driver makes it expect, and     *)
(* nobody else is owed any.                                                 *)
LEMMA DueCount ==
    ASSUME NEW o \in Op, NEW h \in Member
    PROVE  /\ IsFiniteSet(Due(o, h))
           /\ h \notin Receivers(o) => Due(o, h) = {}
           /\ h \in Receivers(o) => Cardinality(Due(o, h)) = Expected(o)
           /\ Expected(o) \in Nat \ {0}
  <1>1. Kind[o] \in Kinds /\ Root[o] \in Member /\ Size[o] \in Nat \ {0} /\ IsFiniteSet(Chunks(o))
    BY OpShape
  <1>2. /\ Kind[o] # "allgather" => Cardinality(Chunks(o)) = Size[o]
        /\ \A x : IsFiniteSet(Chunks(o) \X {x})
                  /\ Cardinality(Chunks(o) \X {x}) = Cardinality(Chunks(o))
    BY OpShape, TimesOne, <1>1
  <1>3. IsFiniteSet({}) /\ Cardinality({}) = 0
    BY FS_EmptySet
  <1>4. CASE Kind[o] = "allreduce"
    <2>1. Due(o, h) = Chunks(o) \X {Member} /\ Expected(o) = Size[o] /\ Receivers(o) = Member
      BY <1>4 DEF Due, Expected, Receivers
    <2> QED  BY <2>1, <1>1, <1>2, <1>4
  <1>5. CASE Kind[o] = "reduce"
    <2>1. /\ Due(o, h) = IF h = Root[o] THEN Chunks(o) \X {Member} ELSE {}
          /\ Expected(o) = Size[o] /\ Receivers(o) = {Root[o]}
      BY <1>5 DEF Due, Expected, Receivers
    <2> QED  BY <2>1, <1>1, <1>2, <1>3, <1>5
  <1>6. CASE Kind[o] = "bcast"
    <2>1. /\ Due(o, h) = IF h = Root[o] THEN {} ELSE Chunks(o) \X {{Root[o]}}
          /\ Expected(o) = Size[o] /\ Receivers(o) = Member \ {Root[o]}
      BY <1>6 DEF Due, Expected, Receivers
    <2> QED  BY <2>1, <1>1, <1>2, <1>3, <1>6
  <1>7. CASE Kind[o] = "reduce_scatter"
    <2> DEFINE b == Block(o)
               n == Len(Group)
               C == {c \in Chunks(o) :
                       \E i \in DOMAIN Group :
                          h = Group[i] /\ c \in ((i - 1) * b + 1)..(i * b)}
    <2>1. Due(o, h) = C \X {Member} /\ Expected(o) = b /\ Receivers(o) = Member
      BY <1>7 DEF Due, Expected, Receivers
    <2>2. b \in Nat \ {0} /\ n \in Nat /\ Chunks(o) = 1..(n * b) /\ DOMAIN Group = 1..n
      BY <1>7, BlockSize, MemberCount, OpShape
    <2>3. PICK i \in 1..n : h = Group[i]
      BY <2>2, MemberCount
    <2>4. C = {c \in Chunks(o) : c \in ((i - 1) * b + 1)..(i * b)}
      BY <2>2, <2>3, MemberCount
    <2> HIDE DEF b, n
    <2>5. (i - 1) * b \in Nat /\ i * b = (i - 1) * b + b /\ i * b <= n * b /\ n * b \in Nat
      BY <2>2, <2>3
    <2> DEFINE x == (i - 1) * b
               y == i * b
               z == n * b
    <2>6. x \in Nat /\ y = x + b /\ y <= z /\ z \in Nat
      BY <2>5
    <2>7. C = {c \in 1..z : c \in (x + 1)..y}
      BY <2>2, <2>4
    <2> HIDE DEF x, y, z, C
    <2>8. C = (x + 1)..y
      BY <2>2, <2>6, <2>7
    <2>9. IsFiniteSet((x + 1)..y) /\ Cardinality((x + 1)..y) = b
      <3>1. x + 1 \in Int /\ y \in Int
        BY <2>2, <2>6
      <3> QED  BY <3>1, <2>2, <2>6, FS_Interval
    <2>10. IsFiniteSet(C \X {Member}) /\ Cardinality(C \X {Member}) = b
      BY <2>8, <2>9, TimesOne
    <2> QED  BY <2>1, <2>2, <2>10
  <1>8. CASE Kind[o] = "allgather"
    <2> DEFINE M == Member \ {h}
               S == {{m} : m \in M}
               f == [m \in M |-> {m}]
    <2>1. /\ Due(o, h) = Chunks(o) \X S
          /\ Expected(o) = Block(o) * (Len(Group) - 1) /\ Receivers(o) = Member
      BY <1>8 DEF Due, Expected, Receivers
    <2>2. IsFiniteSet(M) /\ Cardinality(M) = Len(Group) - 1 /\ Len(Group) - 1 \in Nat \ {0}
      <3>1. IsFiniteSet(Member) /\ Cardinality(Member) = Len(Group) /\ Len(Group) > 1 /\ Len(Group) \in Nat
        BY MemberCount, OpAssumption
      <3>2. IsFiniteSet(M) /\ Cardinality(M) = Len(Group) - 1
        BY <3>1, FS_RemoveElement
      <3> QED  BY <3>1, <3>2
    <2>3. f \in Bijection(M, S)
      BY Fun_IsBij
    <2>4. IsFiniteSet(S) /\ Cardinality(S) = Len(Group) - 1
      BY <2>2, <2>3, FS_Bijection DEF ExistsBijection
    <2>5. Cardinality(Chunks(o)) = Block(o) /\ Block(o) \in Nat \ {0}
      BY <1>8, OpShape
    <2>6. IsFiniteSet(Chunks(o) \X S) /\ Cardinality(Chunks(o) \X S) = Block(o) * (Len(Group) - 1)
      BY <1>1, <2>4, <2>5, FS_Product
    <2>7. Block(o) * (Len(Group) - 1) \in Nat \ {0}
      <3> DEFINE x == Block(o)
                 y == Len(Group) - 1
      <3>1. x \in Nat \ {0} /\ y \in Nat \ {0}
        BY <2>2, <2>5
      <3> HIDE DEF x, y
      <3>2. x * y \in Nat /\ x * y # 0
        BY <3>1
      <3> QED  BY <3>2 DEF x, y
    <2> QED  BY <2>1, <2>6, <2>7
  <1> QED  BY <1>1, <1>4, <1>5, <1>6, <1>7, <1>8 DEF Kinds
-----------------------------------------------------------------------------

(* What is in a sequence.                                                   *)
Ran(s) == {s[i] : i \in DOMAIN s}

(* Nothing is in it twice.                                                  *)
Inj(s) == \A i, j \in DOMAIN s : s[i] = s[j] => i = j

(* The packets of a queue.                                                  *)
Pkts(s) == {s[i].pkt : i \in DOMAIN s}

(* What a queue holds.                                                      *)
Slots == [pkt : Packet, key : (Switch \X Packet) \cup {NoKey}]

(* The credit a packet in the queue of link l counts against.               *)
KeyOf(l, p) == IF l \in Port THEN <<l[1], p>> ELSE NoKey

(* A queue and the pipe behind it hold every packet once, with its key.     *)
Good(l, o, w) ==
    /\ o \in Seq(Slots) /\ w \in Seq(Packet)
    /\ Inj(o) /\ Inj(w)
    /\ \A e \in Ran(o) : e = Entry(e.pkt, KeyOf(l, e.pkt))
    /\ Pkts(o) \cap Ran(w) = {}

(* What taking the first of a sequence leaves.                              *)
LEMMA RanTail ==
    ASSUME NEW S, NEW s \in Seq(S), s # <<>>, Inj(s)
    PROVE  /\ Tail(s) \in Seq(S) /\ Inj(Tail(s))
           /\ Head(s) \in Ran(s) /\ Head(s) \in S
           /\ Ran(Tail(s)) = Ran(s) \ {Head(s)}
  <1>1. /\ Len(s) \in Nat /\ Len(s) # 0 /\ DOMAIN s = 1..Len(s) /\ Head(s) = s[1]
        /\ \A i \in 1..Len(s) : s[i] \in S
    OBVIOUS
  <1>2. /\ Tail(s) \in Seq(S) /\ Len(Tail(s)) = Len(s) - 1 /\ DOMAIN Tail(s) = 1..(Len(s) - 1)
        /\ \A i \in 1..(Len(s) - 1) : Tail(s)[i] = s[i + 1]
    BY <1>1
  <1>3. Inj(Tail(s))
    BY <1>1, <1>2 DEF Inj
  <1>4. Head(s) \in Ran(s) /\ Head(s) \in S
    BY <1>1 DEF Ran
  <1>5. ASSUME NEW x \in Ran(Tail(s)) PROVE x \in Ran(s) /\ x # Head(s)
    <2>1. PICK i \in 1..(Len(s) - 1) : x = s[i + 1]
      BY <1>2 DEF Ran
    <2>2. i + 1 \in DOMAIN s /\ i + 1 # 1 /\ 1 \in DOMAIN s
      BY <1>1
    <2> QED  BY <2>1, <2>2, <1>1 DEF Ran, Inj
  <1>6. ASSUME NEW x \in Ran(s), x # Head(s) PROVE x \in Ran(Tail(s))
    <2>1. PICK i \in 1..Len(s) : x = s[i]
      BY <1>1 DEF Ran
    <2>2. i - 1 \in 1..(Len(s) - 1) /\ (i - 1) + 1 = i
      BY <2>1, <1>1, <1>6
    <2> QED  BY <2>1, <2>2, <1>2 DEF Ran
  <1> QED  BY <1>2, <1>3, <1>4, <1>5, <1>6

(* What appending adds.                                                     *)
LEMMA RanAppend ==
    ASSUME NEW S, NEW s \in Seq(S), NEW e \in S
    PROVE  /\ Append(s, e) \in Seq(S)
           /\ Ran(Append(s, e)) = Ran(s) \cup {e}
           /\ Inj(s) /\ e \notin Ran(s) => Inj(Append(s, e))
  <1>1. Len(s) \in Nat /\ DOMAIN s = 1..Len(s)
    OBVIOUS
  <1>2. /\ Append(s, e) \in Seq(S) /\ DOMAIN Append(s, e) = 1..(Len(s) + 1)
        /\ \A i \in 1..Len(s) : Append(s, e)[i] = s[i]
        /\ Append(s, e)[Len(s) + 1] = e
    OBVIOUS
  <1>3. \A i \in 1..(Len(s) + 1) : i \in 1..Len(s) \/ i = Len(s) + 1
    BY <1>1
  <1>3a. \A i \in 1..Len(s) : i \in 1..(Len(s) + 1)
    BY <1>1
  <1>3b. Len(s) + 1 \in 1..(Len(s) + 1)
    BY <1>1
  <1>4. Ran(Append(s, e)) = Ran(s) \cup {e}
    <2>1. ASSUME NEW x \in Ran(Append(s, e)) PROVE x \in Ran(s) \cup {e}
      BY <1>1, <1>2, <1>3 DEF Ran
    <2>2. ASSUME NEW x \in Ran(s) PROVE x \in Ran(Append(s, e))
      <3>1. PICK i \in 1..Len(s) : x = s[i]
        BY <1>1 DEF Ran
      <3> QED  BY <3>1, <1>2, <1>3a DEF Ran
    <2>3. e \in Ran(Append(s, e))
      BY <1>2, <1>3b DEF Ran
    <2> QED  BY <2>1, <2>2, <2>3
  <1>5. ASSUME Inj(s), e \notin Ran(s) PROVE Inj(Append(s, e))
    <2> SUFFICES ASSUME NEW i \in 1..(Len(s) + 1), NEW j \in 1..(Len(s) + 1),
                        Append(s, e)[i] = Append(s, e)[j]
                 PROVE  i = j
      BY <1>2 DEF Inj
    <2>1. CASE i \in 1..Len(s) /\ j \in 1..Len(s)
      BY <2>1, <1>1, <1>2, <1>5 DEF Inj
    <2>2. CASE i \in 1..Len(s) /\ j = Len(s) + 1
      BY <2>2, <1>1, <1>2, <1>5 DEF Ran
    <2>3. CASE i = Len(s) + 1 /\ j \in 1..Len(s)
      BY <2>3, <1>1, <1>2, <1>5 DEF Ran
    <2> QED  BY <2>1, <2>2, <2>3, <1>3
  <1> QED  BY <1>2, <1>4, <1>5

(* What a concatenation holds.                                              *)
LEMMA RanConcat ==
    ASSUME NEW S, NEW s \in Seq(S), NEW t \in Seq(S)
    PROVE  /\ s \o t \in Seq(S)
           /\ Ran(s \o t) = Ran(s) \cup Ran(t)
           /\ Inj(s) /\ Inj(t) /\ Ran(s) \cap Ran(t) = {} => Inj(s \o t)
  <1> DEFINE u == s \o t
             m == Len(s)
             n == Len(t)
  <1>1. m \in Nat /\ DOMAIN s = 1..m /\ n \in Nat /\ DOMAIN t = 1..n
    OBVIOUS
  <1>2. /\ u \in Seq(S) /\ DOMAIN u = 1..(m + n)
        /\ \A i \in 1..m : u[i] = s[i]
        /\ \A i \in 1..(m + n) : i > m => u[i] = t[i - m]
    OBVIOUS
  <1> HIDE DEF u
  <1>3. \A i \in 1..(m + n) : i \in 1..m \/ (i > m /\ i - m \in 1..n)
    BY <1>1
  <1>4. \A i \in 1..m : i \in 1..(m + n)
    BY <1>1
  <1>5. \A i \in 1..n : i + m \in 1..(m + n) /\ i + m > m /\ (i + m) - m = i
    BY <1>1
  <1> HIDE DEF m, n
  <1>6. Ran(u) = Ran(s) \cup Ran(t)
    <2>1. ASSUME NEW x \in Ran(u) PROVE x \in Ran(s) \cup Ran(t)
      <3>1. PICK i \in 1..(m + n) : x = u[i]
        BY <1>2 DEF Ran
      <3>2. CASE i \in 1..m
        BY <3>1, <3>2, <1>1, <1>2 DEF Ran
      <3>3. CASE i > m /\ i - m \in 1..n
        BY <3>1, <3>3, <1>1, <1>2 DEF Ran
      <3> QED  BY <3>2, <3>3, <1>3
    <2>2. ASSUME NEW x \in Ran(s) PROVE x \in Ran(u)
      BY <1>1, <1>2, <1>4 DEF Ran
    <2>3. ASSUME NEW x \in Ran(t) PROVE x \in Ran(u)
      <3>1. PICK i \in 1..n : x = t[i]
        BY <1>1 DEF Ran
      <3>2. u[i + m] = x /\ i + m \in DOMAIN u
        BY <3>1, <1>2, <1>5
      <3> QED  BY <3>2 DEF Ran
    <2> QED  BY <2>1, <2>2, <2>3
  <1>7. ASSUME Inj(s), Inj(t), Ran(s) \cap Ran(t) = {} PROVE Inj(u)
    <2> SUFFICES ASSUME NEW i \in 1..(m + n), NEW j \in 1..(m + n), u[i] = u[j]
                 PROVE  i = j
      BY <1>2 DEF Inj
    <2>1. CASE i \in 1..m /\ j \in 1..m
      BY <2>1, <1>1, <1>2, <1>7 DEF Inj
    <2>2. CASE i \in 1..m /\ j > m /\ j - m \in 1..n
      BY <2>2, <1>1, <1>2, <1>7 DEF Ran
    <2>3. CASE j \in 1..m /\ i > m /\ i - m \in 1..n
      BY <2>3, <1>1, <1>2, <1>7 DEF Ran
    <2>4. CASE i > m /\ i - m \in 1..n /\ j > m /\ j - m \in 1..n
      <3>1. u[i] = t[i - m] /\ u[j] = t[j - m]
        BY <2>4, <1>2
      <3>2. i - m \in DOMAIN t /\ j - m \in DOMAIN t /\ t[i - m] = t[j - m]
        BY <2>4, <3>1, <1>1
      <3>3. i - m = j - m
        BY <3>2, <1>7 DEF Inj
      <3> QED  BY <3>3, <1>1
    <2> QED  BY <2>1, <2>2, <2>3, <2>4, <1>3
  <1> QED  BY <1>2, <1>6, <1>7 DEF u

(* What taking one out of the middle leaves.                                *)
LEMMA RanRemove ==
    ASSUME NEW S, NEW s \in Seq(S), NEW k \in DOMAIN s, Inj(s)
    PROVE  LET t == SubSeq(s, 1, k - 1) \o SubSeq(s, k + 1, Len(s))
           IN  /\ t \in Seq(S) /\ Inj(t)
               /\ Ran(t) = Ran(s) \ {s[k]}
               /\ s[k] \in Ran(s) /\ s[k] \in S
  <1> DEFINE a == SubSeq(s, 1, k - 1)
             b == SubSeq(s, k + 1, Len(s))
             n == Len(s)
  <1>1. n \in Nat /\ DOMAIN s = 1..n /\ k \in 1..n /\ \A i \in 1..n : s[i] \in S
    OBVIOUS
  <1>2. a \in Seq(S) /\ Len(a) = k - 1 /\ DOMAIN a = 1..(k - 1)
        /\ \A i \in 1..(k - 1) : a[i] = s[i]
    BY <1>1
  <1>3. b \in Seq(S) /\ Len(b) = n - k /\ DOMAIN b = 1..(n - k)
        /\ \A i \in 1..(n - k) : b[i] = s[i + k]
    <2>1. k + 1 \in Int /\ n \in Int /\ k + 1 <= n + 1 /\ k + 1 >= 1
      BY <1>1
    <2>2. b \in Seq(S)
      BY <1>1
    <2>3. Len(b) = n - k
      BY <1>1
    <2>4. \A i \in 1..(n - k) : b[i] = s[(k + 1) + i - 1]
      BY <1>1
    <2>5. \A i \in 1..(n - k) : (k + 1) + i - 1 = i + k
      BY <1>1
    <2>6. DOMAIN b = 1..(n - k)
      BY <2>2, <2>3
    <2> QED  BY <2>2, <2>3, <2>4, <2>5, <2>6
  <1> HIDE DEF a, b, n
  <1>4. Inj(a)
    BY <1>1, <1>2 DEF Inj
  <1>5. Inj(b)
    <2> SUFFICES ASSUME NEW i \in 1..(n - k), NEW j \in 1..(n - k), b[i] = b[j] PROVE i = j
      BY <1>3 DEF Inj
    <2>1. i + k \in DOMAIN s /\ j + k \in DOMAIN s
      BY <1>1
    <2>2. i + k = j + k
      BY <2>1, <1>3 DEF Inj
    <2> QED  BY <2>2, <1>1
  <1>6. \A x : x \in Ran(a) <=> \E i \in 1..(k - 1) : x = s[i]
    BY <1>2 DEF Ran
  <1>7. \A x : x \in Ran(b) <=> \E i \in (k + 1)..n : x = s[i]
    <2>1. ASSUME NEW x \in Ran(b) PROVE \E i \in (k + 1)..n : x = s[i]
      <3>1. PICK i \in 1..(n - k) : x = s[i + k]
        BY <1>3 DEF Ran
      <3>2. i + k \in (k + 1)..n
        BY <1>1
      <3> QED  BY <3>1, <3>2
    <2>2. ASSUME NEW i \in (k + 1)..n PROVE s[i] \in Ran(b)
      <3>1. i - k \in 1..(n - k) /\ (i - k) + k = i
        BY <1>1
      <3> QED  BY <3>1, <1>3 DEF Ran
    <2> QED  BY <2>1, <2>2
  <1>8. \A i \in 1..n : i \in 1..(k - 1) \/ i = k \/ i \in (k + 1)..n
    BY <1>1
  <1>9. \A i \in 1..(k - 1) : i \in 1..n /\ i # k
    BY <1>1
  <1>10. \A i \in (k + 1)..n : i \in 1..n /\ i # k
    BY <1>1
  <1>11. \A i \in 1..(k - 1), j \in (k + 1)..n : i # j
    BY <1>1
  <1>12. Ran(a) \cap Ran(b) = {}
    BY <1>1, <1>6, <1>7, <1>9, <1>10, <1>11 DEF Inj
  <1>13. Ran(a) \cup Ran(b) = Ran(s) \ {s[k]}
    <2>1. ASSUME NEW x \in Ran(a) \cup Ran(b) PROVE x \in Ran(s) \ {s[k]}
      <3>1. PICK i \in 1..n : i # k /\ x = s[i]
        BY <2>1, <1>6, <1>7, <1>9, <1>10
      <3>2. x # s[k]
        BY <3>1, <1>1 DEF Inj
      <3> QED  BY <3>1, <3>2, <1>1 DEF Ran
    <2>2. ASSUME NEW x \in Ran(s) \ {s[k]} PROVE x \in Ran(a) \cup Ran(b)
      BY <1>1, <1>6, <1>7, <1>8 DEF Ran
    <2> QED  BY <2>1, <2>2
  <1>14. a \o b \in Seq(S) /\ Ran(a \o b) = Ran(a) \cup Ran(b) /\ Inj(a \o b)
    BY <1>2, <1>3, <1>4, <1>5, <1>12, RanConcat
  <1>15. s[k] \in Ran(s) /\ s[k] \in S
    BY <1>1 DEF Ran
  <1> QED  BY <1>13, <1>14, <1>15 DEF a, b, n

(* The packets of a queue, by its entries.                                  *)
LEMMA PktsRan ==
    ASSUME NEW s
    PROVE  \A p : p \in Pkts(s) <=> \E e \in Ran(s) : p = e.pkt
  BY DEF Pkts, Ran

(* The entries of a queue are what its packets say.                         *)
LEMMA GoodSlots ==
    ASSUME NEW l, NEW o, NEW w, Good(l, o, w)
    PROVE  /\ \A p : p \in Pkts(o) <=> Entry(p, KeyOf(l, p)) \in Ran(o)
           /\ \A e \in Ran(o) : e \in Slots /\ e.pkt \in Packet
           /\ Pkts(o) \subseteq Packet /\ Ran(w) \subseteq Packet
  <1>1. o \in Seq(Slots) /\ w \in Seq(Packet)
    BY DEF Good
  <1>2. \A e \in Ran(o) : e \in Slots
    BY <1>1 DEF Ran
  <1>3. \A e \in Ran(o) : e.pkt \in Packet
    BY <1>2 DEF Slots
  <1>4. Ran(w) \subseteq Packet
    BY <1>1 DEF Ran
  <1>5. ASSUME NEW p, p \in Pkts(o) PROVE Entry(p, KeyOf(l, p)) \in Ran(o) /\ p \in Packet
    BY <1>3, <1>5, PktsRan DEF Good
  <1>6. ASSUME NEW p, Entry(p, KeyOf(l, p)) \in Ran(o) PROVE p \in Pkts(o)
    BY <1>6, PktsRan DEF Entry
  <1> QED  BY <1>2, <1>3, <1>4, <1>5, <1>6

(* An entry with its key is one a queue may hold.                           *)
LEMMA SlotType ==
    ASSUME NEW l \in Link, NEW p \in Packet
    PROVE  Entry(p, KeyOf(l, p)) \in Slots
  BY LinkKinds DEF Slots, KeyOf, Entry

(* One packet goes from the queue into the pipe. *)
LEMMA GoodMove ==
    ASSUME NEW l, NEW o, NEW w, Good(l, o, w), NEW e \in Ran(o), NEW u \in Seq(Slots),
           Inj(u), Ran(u) = Ran(o) \ {e}
    PROVE  /\ Good(l, u, Append(w, e.pkt))
           /\ Pkts(u) = Pkts(o) \ {e.pkt}
           /\ Ran(Append(w, e.pkt)) = Ran(w) \cup {e.pkt}
           /\ e.pkt \in Pkts(o)
  <1>1. e.pkt \in Packet /\ e = Entry(e.pkt, KeyOf(l, e.pkt))
    BY GoodSlots DEF Good
  <1>2. w \in Seq(Packet) /\ Inj(w)
    BY DEF Good
  <1>3. e.pkt \in Pkts(o)
    BY PktsRan
  <1>4. e.pkt \notin Ran(w)
    BY <1>3 DEF Good
  <1>5. Append(w, e.pkt) \in Seq(Packet) /\ Inj(Append(w, e.pkt))
        /\ Ran(Append(w, e.pkt)) = Ran(w) \cup {e.pkt}
    BY <1>1, <1>2, <1>4, RanAppend
  <1>6. \A d \in Ran(o) : d.pkt = e.pkt => d = e
    BY <1>1 DEF Good
  <1>7. Pkts(u) = Pkts(o) \ {e.pkt}
    BY <1>6, PktsRan
  <1>8. Pkts(u) \cap Ran(Append(w, e.pkt)) = {}
    BY <1>5, <1>7 DEF Good
  <1>9. \A d \in Ran(u) : d = Entry(d.pkt, KeyOf(l, d.pkt))
    BY DEF Good
  <1> QED  BY <1>3, <1>5, <1>7, <1>8, <1>9 DEF Good

(* A packet that is not on the link yet enters its queue. *)
LEMMA GoodEnter ==
    ASSUME NEW l \in Link, NEW o, NEW w, Good(l, o, w), NEW p \in Packet, NEW k,
           k = KeyOf(l, p), p \notin Pkts(o), p \notin Ran(w)
    PROVE  /\ Good(l, Append(o, Entry(p, k)), w)
           /\ Pkts(Append(o, Entry(p, k))) = Pkts(o) \cup {p}
  <1> DEFINE e == Entry(p, k)
  <1>1. e \in Slots /\ e.pkt = p /\ e = Entry(p, KeyOf(l, p))
    BY SlotType DEF Entry
  <1>2. o \in Seq(Slots) /\ Inj(o)
    BY DEF Good
  <1> HIDE DEF e
  <1>3. e \notin Ran(o)
    BY <1>1, PktsRan
  <1>4. Append(o, e) \in Seq(Slots) /\ Inj(Append(o, e)) /\ Ran(Append(o, e)) = Ran(o) \cup {e}
    BY <1>1, <1>2, <1>3, RanAppend
  <1>5. Pkts(Append(o, e)) = Pkts(o) \cup {p}
    BY <1>1, <1>4, PktsRan
  <1>6. \A d \in Ran(Append(o, e)) : d = Entry(d.pkt, KeyOf(l, d.pkt))
    BY <1>1, <1>4 DEF Good
  <1>7. Pkts(Append(o, e)) \cap Ran(w) = {}
    BY <1>5 DEF Good
  <1> QED  BY <1>4, <1>5, <1>6, <1>7 DEF Good, e

(* The packet at the far end of the pipe is taken out. *)
LEMMA GoodTake ==
    ASSUME NEW l, NEW o, NEW w, Good(l, o, w), w # <<>>
    PROVE  /\ Good(l, o, Tail(w))
           /\ Ran(Tail(w)) = Ran(w) \ {Head(w)}
           /\ Head(w) \in Ran(w) /\ Head(w) \in Packet /\ Head(w) \notin Pkts(o)
  <1>1. w \in Seq(Packet) /\ Inj(w)
    BY DEF Good
  <1>2. /\ Tail(w) \in Seq(Packet) /\ Inj(Tail(w)) /\ Ran(Tail(w)) = Ran(w) \ {Head(w)}
        /\ Head(w) \in Ran(w) /\ Head(w) \in Packet
    BY <1>1, RanTail
  <1> QED  BY <1>2 DEF Good
-----------------------------------------------------------------------------

(* Every queue and pipe is in order.                                        *)
Queues ==
    /\ out \in [Link -> Seq(Slots)]
    /\ wire \in [Link -> Seq(Packet)]
    /\ \A l \in Link : Good(l, out[l], wire[l])

(* What a barrier holds.                                                    *)
BarrierRec == [arrived : Nat, charges : SUBSET Ingress, of : SUBSET Member]

(* The types, with the finite domain of the live credits.                   *)
Types ==
    /\ listed \in Programs
    /\ started \in [Op -> SUBSET Member]
    /\ st \in [Link -> SendState]
    /\ iq \in [Ingress -> IngressType]
    /\ pwire \in [Ingress -> Seq(Frame)]
    /\ barrier \in [Switch -> [Op -> [AllChunks -> BarrierRec]]]
    /\ DOMAIN credit \subseteq Switch \X Packet
    /\ IsFiniteSet(DOMAIN credit)
    /\ \A k \in DOMAIN credit :
         credit[k] \in [charges : SUBSET Ingress, pending : Nat \ {0}]
    /\ got \in [Op -> [Member -> Nat]]
    /\ seen \in [Op -> [Member -> SUBSET (Nat \X SUBSET Member)]]
    /\ remaining \in [Op -> Nat]

(* What packet p may be on link l: a contribution goes up whole, a result   *)
(* of the apex goes down and carries everyone, towards its root if it has   *)
(* one, and what a source emits leads away from its source.                 *)
Fits(l, p) ==
    /\ p.c \in Chunks(p.op)
    /\ p.t = "REDUCE" =>
         l \in UpLink /\ Kind[p.op] \in Reducing /\ p.of = Below[l[1]]
    /\ p.t = "DOWN" =>
         /\ l \in DownLink /\ Kind[p.op] \in {"reduce", "reduce_scatter"}
         /\ p.of = Member /\ ReduceRoot(p.op, p.c) \in Desc(l[2])
    /\ p.t = "MCAST" =>
         \/ Kind[p.op] = "allreduce" /\ l \in DownLink /\ p.of = Member
         \/ /\ Kind[p.op] \in {"bcast", "allgather"}
            /\ \E h \in Emitters(p.op) \cap started[p.op] : p.of = {h} /\ h \notin Side(l)

(* No packet is where it does not belong.                                   *)
Shaped == \A l \in Link : \A p \in InTransit(l) : Fits(l, p)

(* What node n sends up for chunk c of operation o.                         *)
Contribution(n, o, c) == [t |-> "REDUCE", op |-> o, c |-> c, of |-> Below[n]]

(* It is on its way to the parent.                                          *)
Moving(n, o, c) == Contribution(n, o, c) \in InTransit(UpOf(n))

(* It has been folded there, and waits.                                     *)
Waiting(n, o, c) == UpOf(n) \in barrier[Parent[n]][o][c].charges

(* It is at one place or the other.                                         *)
At(n, o, c) == Moving(n, o, c) \/ Waiting(n, o, c)

(* The chunk has been combined: its result is under way, or delivered.      *)
Resulted(o, c) ==
    \/ \E l \in Link : \E p \in InTransit(l) : p.t # "REDUCE" /\ p.op = o /\ p.c = c
    \/ \E h \in Member : \E x \in seen[o][h] : x[1] = c

(* The contributions of a chunk that exist are of subtrees that do not      *)
(* meet, each of them whole and either moving or waiting, and none exists   *)
(* once the chunk has been combined: then all members have started.         *)
OneContribution(o, c) ==
    /\ \A n \in Node \ {Apex} :
         /\ ~(Moving(n, o, c) /\ Waiting(n, o, c))
         /\ At(n, o, c) => /\ Kind[o] \in Reducing /\ c \in Chunks(o)
                           /\ Below[n] \subseteq started[o] /\ ~Resulted(o, c)
         /\ \A m \in Node \ {Apex} :
              n # m /\ At(n, o, c) /\ At(m, o, c) => Desc(n) \cap Desc(m) = {}
    /\ Kind[o] \in Reducing /\ Resulted(o, c) => started[o] = Member

(* That of every chunk.                                                     *)
Contributions == \A o \in Op, c \in AllChunks : OneContribution(o, c)

(* The children a barrier has heard from.                                   *)
InOf(b) == {l[1] : l \in b.charges}

(* A barrier counts the children whose charges it holds, and lacks one.     *)
SoundAt(s, o, c) ==
    LET b == barrier[s][o][c]
    IN /\ b.charges \subseteq {UpOf(n) : n \in Children(s)}
       /\ b.arrived = Cardinality(b.charges)
       /\ InOf(b) # Children(s)
       /\ b.of = UNION {Below[n] : n \in InOf(b)}

(* Every barrier does.                                                      *)
Barriers == \A s \in Switch, o \in Op, c \in AllChunks : SoundAt(s, o, c)

(* The copies of a result on different links lead to different parts of     *)
(* the tree, where no member has had it: no member gets it twice.           *)
Lone(l, p) ==
    p.t # "REDUCE" =>
      /\ \A k \in Link \ {l} : p \in InTransit(k) => Side(l) \cap Side(k) = {}
      /\ \A h \in Side(l) \cap Member : <<p.c, p.of>> \notin seen[p.op][h]

(* That of every packet, and what has been delivered was due and is from    *)
(* members that have started.                                               *)
Results ==
    /\ \A l \in Link : \A p \in InTransit(l) : Lone(l, p)
    /\ \A o \in Op, h \in Member : \A x \in seen[o][h] : x \in Due(o, h) /\ x[2] \subseteq started[o]

(* What the packets in the fabric and the barriers say.                     *)
Data == Shaped /\ Contributions /\ Barriers /\ Results

(* The receivers that have not all they expect.                             *)
Lacking(o) == {h \in Receivers(o) : got[o][h] < Expected(o)}

(* The books: bytes are pieces, the trigger counts those that lack          *)
(* something, and only what is listed starts.                               *)
Counts ==
    /\ \A o \in Op, h \in Member : got[o][h] = Cardinality(seen[o][h])
    /\ \A o \in Op : remaining[o] = Cardinality(Lacking(o))
    /\ \A o \in Op : started[o] # {} => o \in listed
    /\ \A o \in Op : started[o] \subseteq Emitters(o)

(* The ports of a switch that buffer the packet of a key.                   *)
HoldSet(k) == {l \in Port : l[1] = k[1] /\ k[2] \in Pkts(out[l])}

(* A credit waits for the copies on its ports, and each has one.            *)
Held ==
    /\ \A k \in DOMAIN credit : credit[k].pending = Cardinality(HoldSet(k))
    /\ \A l \in Port : \A p \in Pkts(out[l]) : <<l[1], p>> \in DOMAIN credit

(* An ingress queue counts the charges held at it.                          *)
Charges == \A l \in Ingress : iq[l].occ = Cardinality(Holders(l))

(* The last frame sent from an ingress queue, in flight or arrived, tells   *)
(* its state, and a paused port is not below the low threshold.             *)
FlowOn(l) ==
    /\ iq[l].st = "PAUSED" => iq[l].occ >= Low
    /\ pwire[l] = <<>> => (st[l] = "READY" <=> iq[l].st = "READY")
    /\ pwire[l] # <<>> => (pwire[l][Len(pwire[l])] = "GO" <=> iq[l].st = "READY")

(* That of every link, and a frame in flight is still in its queue.         *)
FlowSound ==
    /\ \A l \in Ingress : FlowOn(l)
    /\ \A l \in Link : st[l] = "PAUSE_RECEIVED" => out[l] # <<>>

(* The inductive invariant.                                                 *)
IInv == Queues /\ Types /\ Data /\ Counts /\ Held /\ Charges /\ FlowSound

(* A packet on a link is in the queue or in the pipe.                       *)
LEMMA TransitRan == \A l : InTransit(l) = Ran(wire[l]) \cup Pkts(out[l])
  BY DEF InTransit, Ran, Pkts

(* What Queues says of one link.                                            *)
LEMMA QueueFacts ==
    ASSUME Queues, NEW l \in Link
    PROVE  /\ Good(l, out[l], wire[l])
           /\ InTransit(l) \subseteq Packet /\ Pkts(out[l]) \subseteq Packet
           /\ DOMAIN out = Link /\ DOMAIN wire = Link
  <1>1. Good(l, out[l], wire[l])
    BY DEF Queues
  <1> QED  BY <1>1, GoodSlots, TransitRan DEF Queues

(* The fields of a packet.                                                  *)
LEMMA PacketShape ==
    ASSUME NEW p \in Packet
    PROVE  /\ p.t \in {"REDUCE", "DOWN", "MCAST"} /\ p.op \in Op /\ p.c \in Nat
           /\ p.of \in SUBSET Member
           /\ p = [t |-> p.t, op |-> p.op, c |-> p.c, of |-> p.of]
  BY DEF Packet

(* A packet is its fields.                                                  *)
LEMMA PacketIs ==
    ASSUME NEW p \in Packet, NEW q \in Packet, p.t = q.t, p.op = q.op, p.c = q.c, p.of = q.of
    PROVE  p = q
  BY DEF Packet

(* A frame that goes from a queue into its pipe stays on its link.          *)
LEMMA SendDelta ==
    ASSUME Queues, NEW l \in Link, NEW e \in Ran(out[l]), NEW u \in Seq(Slots),
           Inj(u), Ran(u) = Ran(out[l]) \ {e},
           out' = [out EXCEPT ![l] = u],
           wire' = [wire EXCEPT ![l] = Append(@, e.pkt)]
    PROVE  /\ Queues'
           /\ \A k \in Link : InTransit(k)' = InTransit(k)
           /\ Pkts(out'[l]) = Pkts(out[l]) \ {e.pkt}
           /\ \A k \in Link \ {l} : out'[k] = out[k]
           /\ e.pkt \in Pkts(out[l])
  <1>1. Good(l, out[l], wire[l]) /\ DOMAIN out = Link /\ DOMAIN wire = Link
    BY QueueFacts
  <1>2. /\ Good(l, u, Append(wire[l], e.pkt))
        /\ Pkts(u) = Pkts(out[l]) \ {e.pkt}
        /\ Ran(Append(wire[l], e.pkt)) = Ran(wire[l]) \cup {e.pkt}
        /\ e.pkt \in Pkts(out[l])
    BY <1>1, GoodMove
  <1>3. /\ out'[l] = u /\ wire'[l] = Append(wire[l], e.pkt)
        /\ \A k \in Link \ {l} : out'[k] = out[k] /\ wire'[k] = wire[k]
        /\ DOMAIN out' = Link /\ DOMAIN wire' = Link
    BY <1>1
  <1>4. \A k \in Link : Good(k, out'[k], wire'[k])
    BY <1>2, <1>3 DEF Queues
  <1>5. \A k \in Link : out'[k] \in Seq(Slots) /\ wire'[k] \in Seq(Packet)
    BY <1>4 DEF Good
  <1>6. out' \in [Link -> Seq(Slots)] /\ wire' \in [Link -> Seq(Packet)]
    <2>1. out' = [k \in Link |-> out'[k]] /\ wire' = [k \in Link |-> wire'[k]]
      BY <1>1
    <2> QED  BY <2>1, <1>5
  <1>7. Queues'
    BY <1>4, <1>6 DEF Queues
  <1>8. ASSUME NEW k \in Link PROVE InTransit(k)' = InTransit(k)
    <2>1. InTransit(k) = Ran(wire[k]) \cup Pkts(out[k])
      BY TransitRan
    <2>2. InTransit(k)' = Ran(wire'[k]) \cup Pkts(out'[k])
      BY DEF InTransit, Ran, Pkts
    <2> QED  BY <2>1, <2>2, <1>2, <1>3
  <1> QED  BY <1>2, <1>3, <1>7, <1>8

(* The pipes without the packet at the far end of one.  *)
Drained(l) == [wire EXCEPT ![l] = Tail(@)]

(* A packet taken at the far end leaves its link, and nothing else moves.   *)
LEMMA TakeDelta ==
    ASSUME Queues, NEW l \in Link, wire[l] # <<>>, out' = out,
           wire' = Drained(l)
    PROVE  /\ Queues'
           /\ InTransit(l)' = InTransit(l) \ {Head(wire[l])}
           /\ \A k \in Link \ {l} : InTransit(k)' = InTransit(k)
           /\ Head(wire[l]) \in InTransit(l) /\ Head(wire[l]) \in Packet
  <1>1. Good(l, out[l], wire[l]) /\ DOMAIN out = Link /\ DOMAIN wire = Link
    BY QueueFacts
  <1>2. /\ Good(l, out[l], Tail(wire[l]))
        /\ Ran(Tail(wire[l])) = Ran(wire[l]) \ {Head(wire[l])}
        /\ Head(wire[l]) \in Ran(wire[l]) /\ Head(wire[l]) \in Packet
        /\ Head(wire[l]) \notin Pkts(out[l])
    BY <1>1, GoodTake
  <1>3. /\ wire'[l] = Tail(wire[l]) /\ DOMAIN wire' = Link
        /\ \A k \in Link \ {l} : wire'[k] = wire[k]
    BY <1>1 DEF Drained
  <1>4. \A k \in Link : Good(k, out'[k], wire'[k])
    BY <1>2, <1>3 DEF Queues
  <1>5. wire' \in [Link -> Seq(Packet)]
    <2>1. wire' = [k \in Link |-> wire'[k]]
      BY <1>1 DEF Drained
    <2> QED  BY <2>1, <1>4 DEF Good
  <1>6. Queues'
    BY <1>4, <1>5 DEF Queues
  <1>7. \A k : InTransit(k)' = Ran(wire'[k]) \cup Pkts(out'[k])
    BY DEF InTransit, Ran, Pkts
  <1> QED  BY <1>2, <1>3, <1>6, <1>7, TransitRan

(* The queues with copies of q for the neighbours T of s. *)
Copied(s, q, T) ==
    [k \in Link |-> IF k[1] = s /\ k[2] \in T
                     THEN Append(out[k], Entry(q, <<s, q>>)) ELSE out[k]]

(* Packet q replaces the one taken from link l on the links of s to T.      *)
Forwarded(l, s, q, T) ==
    /\ Queues'
    /\ InTransit(l)' = InTransit(l) \ {Head(wire[l])}
    /\ \A k \in Link : k[1] = s /\ k[2] \in T =>
         /\ InTransit(k)' = InTransit(k) \cup {q}
         /\ Pkts(out'[k]) = Pkts(out[k]) \cup {q}
         /\ k # l /\ out'[k] # <<>> /\ k \in Port
    /\ \A k \in Link : ~(k[1] = s /\ k[2] \in T) => out'[k] = out[k]
    /\ \A k \in Link : k # l /\ ~(k[1] = s /\ k[2] \in T) =>
         InTransit(k)' = InTransit(k)

(* Forward does that, if q was not there before.                            *)
LEMMA ForwardDelta ==
    ASSUME Queues, NEW l \in Ingress, wire[l] # <<>>, NEW s, s = l[2],
           wire' = Drained(l),
           NEW q \in Packet, NEW T \in SUBSET Neighbours(s),
           \A b \in T : q \notin InTransit(<<s, b>>),
           out' = Copied(s, q, T)
    PROVE  Forwarded(l, s, q, T)
  <1>1. l \in Link /\ s \in Switch
    BY LinkKinds
  <1>2. Good(l, out[l], wire[l]) /\ DOMAIN out = Link /\ DOMAIN wire = Link
    BY <1>1, QueueFacts
  <1>3. /\ Good(l, out[l], Tail(wire[l]))
        /\ Ran(Tail(wire[l])) = Ran(wire[l]) \ {Head(wire[l])}
        /\ Head(wire[l]) \in Ran(wire[l]) /\ Head(wire[l]) \in Packet
        /\ Head(wire[l]) \notin Pkts(out[l])
    BY <1>2, GoodTake
  <1>4. /\ wire'[l] = Tail(wire[l]) /\ DOMAIN wire' = Link
        /\ \A k \in Link \ {l} : wire'[k] = wire[k]
    BY <1>1, <1>2 DEF Drained
  <1>5. ASSUME NEW k \in Link, k[1] = s, k[2] \in T
        PROVE  /\ k # l /\ k \in Port /\ q \notin Pkts(out[k]) /\ q \notin Ran(wire[k])
               /\ KeyOf(k, q) = <<s, q>>
               /\ out'[k] = Append(out[k], Entry(q, <<s, q>>))
    <2>0. out'[k] = Append(out[k], Entry(q, <<s, q>>))
      BY <1>5 DEF Copied
    <2>1. k # l /\ k = <<s, k[2]>>
      BY <1>1, <1>5, LinkShape
    <2>2. k \in Port
      BY <1>1, <1>5 DEF Port
    <2>3. q \notin InTransit(k)
      BY <2>1, <1>5
    <2> QED  BY <2>0, <2>1, <2>2, <2>3, <1>5, TransitRan DEF KeyOf
  <1>6. ASSUME NEW k \in Link, k[1] = s, k[2] \in T
        PROVE  /\ Good(k, out'[k], wire'[k])
               /\ Pkts(out'[k]) = Pkts(out[k]) \cup {q}
               /\ out'[k] # <<>>
    <2>1. Good(k, out[k], wire[k])
      BY QueueFacts
    <2>2. /\ Good(k, Append(out[k], Entry(q, <<s, q>>)), wire[k])
          /\ Pkts(Append(out[k], Entry(q, <<s, q>>))) = Pkts(out[k]) \cup {q}
      <3>1. /\ q \notin Pkts(out[k]) /\ q \notin Ran(wire[k])
            /\ <<s, q>> = KeyOf(k, q)
        BY <1>5, <1>6
      <3> QED  BY <3>1, <2>1, GoodEnter
    <2>3. Pkts(<<>>) = {}
      BY DEF Pkts
    <2> QED  BY <2>2, <2>3, <1>4, <1>5, <1>6
  <1>7. \A k \in Link : ~(k[1] = s /\ k[2] \in T) => out'[k] = out[k]
    BY DEF Copied
  <1>8. ~(l[1] = s /\ l[2] \in T)
    BY <1>1, LinkShape
  <1>9. \A k \in Link : Good(k, out'[k], wire'[k])
    <2> TAKE k \in Link
    <2>1. Good(k, out[k], wire[k])
      BY DEF Queues
    <2>2. CASE k = l
      BY <2>1, <2>2, <1>3, <1>4, <1>7, <1>8
    <2>3. CASE k # l /\ k[1] = s /\ k[2] \in T
      BY <2>3, <1>4, <1>6
    <2>4. CASE k # l /\ ~(k[1] = s /\ k[2] \in T)
      BY <2>1, <2>4, <1>4, <1>7
    <2> QED  BY <2>2, <2>3, <2>4
  <1>10. out' \in [Link -> Seq(Slots)] /\ wire' \in [Link -> Seq(Packet)]
    <2>1. out' = [k \in Link |-> out'[k]] /\ wire' = [k \in Link |-> wire'[k]]
      BY <1>2 DEF Copied, Drained
    <2> QED  BY <2>1, <1>9 DEF Good
  <1>11. Queues'
    BY <1>9, <1>10 DEF Queues
  <1>12. \A k : InTransit(k)' = Ran(wire'[k]) \cup Pkts(out'[k])
    BY DEF InTransit, Ran, Pkts
  <1>13. \A k \in Link : k[1] = s /\ k[2] \in T =>
                /\ InTransit(k)' = InTransit(k) \cup {q}
                /\ Pkts(out'[k]) = Pkts(out[k]) \cup {q}
                /\ k # l /\ out'[k] # <<>> /\ k \in Port
    BY <1>4, <1>5, <1>6, <1>12, TransitRan
  <1>14. InTransit(l)' = InTransit(l) \ {Head(wire[l])} /\ Head(wire[l]) \in InTransit(l)
    BY <1>3, <1>4, <1>7, <1>8, <1>12, <1>1, TransitRan
  <1>15. \A k \in Link : k # l /\ ~(k[1] = s /\ k[2] \in T) => InTransit(k)' = InTransit(k)
    BY <1>4, <1>7, <1>12, TransitRan
  <1> QED  BY <1>7, <1>11, <1>13, <1>14, <1>15 DEF Forwarded

(* A source adds its chunks to the queue of its host.                       *)
LEMMA StartDelta ==
    ASSUME Queues, NEW o \in Op, NEW h \in Member,
           \A c \in Chunks(o) : SourcePacket(o, h, c) \notin InTransit(UpOf(h)),
           out' = [out EXCEPT ![UpOf(h)] =
                     @ \o [c \in Chunks(o) |-> Entry(SourcePacket(o, h, c), NoKey)]],
           wire' = wire
    PROVE  /\ Queues'
           /\ InTransit(UpOf(h))' = InTransit(UpOf(h)) \cup {SourcePacket(o, h, c) : c \in Chunks(o)}
           /\ \A k \in Link \ {UpOf(h)} : InTransit(k)' = InTransit(k) /\ out'[k] = out[k]
           /\ out'[UpOf(h)] # <<>>
  <1> DEFINE l == UpOf(h)
             t == [c \in Chunks(o) |-> Entry(SourcePacket(o, h, c), NoKey)]
             P == {SourcePacket(o, h, c) : c \in Chunks(o)}
  <1>1. l \in Link /\ l \in Nic /\ l \notin Port
    BY TreeBasics, LinkKinds DEF UpOf, Nic
  <1>2. Good(l, out[l], wire[l]) /\ DOMAIN out = Link
    BY <1>1, QueueFacts
  <1>3. \A c \in Chunks(o) : /\ SourcePacket(o, h, c) \in Packet /\ SourcePacket(o, h, c).c = c
                             /\ KeyOf(l, SourcePacket(o, h, c)) = NoKey
    BY <1>1, OpShape DEF SourcePacket, Packet, KeyOf
  <1>4. PICK n \in Nat : Chunks(o) = 1..n /\ n > 0
    <2>1. CASE Kind[o] = "allgather"
      BY <2>1, OpShape DEF Chunks
    <2>2. CASE Kind[o] # "allgather"
      BY <2>2, OpShape DEF Chunks
    <2> QED  BY <2>1, <2>2
  <1>5. \A c \in Chunks(o) : /\ t[c] = Entry(SourcePacket(o, h, c), NoKey)
                             /\ t[c] \in Slots /\ t[c].pkt = SourcePacket(o, h, c)
                             /\ t[c] = Entry(t[c].pkt, KeyOf(l, t[c].pkt))
    <2> TAKE c \in Chunks(o)
    <2>1. t[c] = Entry(SourcePacket(o, h, c), NoKey) /\ t[c].pkt = SourcePacket(o, h, c)
      BY DEF Entry
    <2>2. Entry(SourcePacket(o, h, c), NoKey) \in Slots
      BY <1>1, <1>3, SlotType
    <2> QED  BY <2>1, <2>2, <1>3
  <1>6. t \in Seq(Slots) /\ DOMAIN t = Chunks(o) /\ t # <<>> /\ Len(t) = n
    <2>1. t \in [1..n -> Slots]
      BY <1>4, <1>5
    <2>2. t \in Seq(Slots)
      BY <2>1
    <2> QED  BY <2>1, <2>2, <1>4
  <1> HIDE DEF t
  <1>7. Inj(t)
    BY <1>3, <1>5, <1>6 DEF Inj
  <1>8. \A p : p \in Pkts(t) <=> p \in P
    BY <1>5, <1>6 DEF Pkts
  <1>9. Pkts(t) = P
    BY <1>8
  <1>10. P \cap InTransit(l) = {}
    OBVIOUS
  <1>11. out[l] \in Seq(Slots) /\ Inj(out[l])
    BY <1>2 DEF Good
  <1>12. Ran(t) \cap Ran(out[l]) = {}
    <2> SUFFICES ASSUME NEW e \in Ran(t), e \in Ran(out[l]) PROVE FALSE
      OBVIOUS
    <2>1. e.pkt \in P
      BY <1>9, PktsRan
    <2>2. e.pkt \in Pkts(out[l])
      BY PktsRan
    <2> QED  BY <2>1, <2>2, <1>10, TransitRan
  <1> DEFINE u == out[l] \o t
  <1>13. u \in Seq(Slots) /\ Ran(u) = Ran(out[l]) \cup Ran(t) /\ Inj(u)
    BY <1>6, <1>7, <1>11, <1>12, RanConcat
  <1>14. Pkts(u) = Pkts(out[l]) \cup P
    <2> HIDE DEF u, P
    <2>1. \A p : p \in Pkts(u) <=> \E e \in Ran(u) : p = e.pkt
      BY PktsRan
    <2>2. \A p : p \in Pkts(out[l]) <=> \E e \in Ran(out[l]) : p = e.pkt
      BY PktsRan
    <2>3. \A p : p \in Pkts(t) <=> \E e \in Ran(t) : p = e.pkt
      BY PktsRan
    <2>4. \A p : p \in Pkts(u) <=> p \in Pkts(out[l]) \/ p \in Pkts(t)
      BY <2>1, <2>2, <2>3, <1>13
    <2> QED  BY <2>4, <1>9
  <1>15. \A e \in Ran(u) : e = Entry(e.pkt, KeyOf(l, e.pkt))
    <2>1. \A e \in Ran(t) : e = Entry(e.pkt, KeyOf(l, e.pkt))
      BY <1>5, <1>6 DEF Ran
    <2> QED  BY <2>1, <1>2, <1>13 DEF Good
  <1>16. Pkts(u) \cap Ran(wire[l]) = {}
    BY <1>2, <1>10, <1>14, TransitRan DEF Good
  <1>17. Good(l, u, wire[l])
    BY <1>2, <1>13, <1>15, <1>16 DEF Good
  <1>18. out'[l] = u /\ \A k \in Link \ {l} : out'[k] = out[k]
    BY <1>1, <1>2 DEF t
  <1> HIDE DEF u
  <1>19. \A k \in Link : Good(k, out'[k], wire'[k])
    BY <1>17, <1>18 DEF Queues
  <1>20. out' \in [Link -> Seq(Slots)]
    <2>1. out' = [k \in Link |-> out'[k]]
      BY <1>2
    <2> QED  BY <2>1, <1>19 DEF Good
  <1>21. Queues'
    BY <1>19, <1>20 DEF Queues
  <1>22. \A k : InTransit(k)' = Ran(wire'[k]) \cup Pkts(out'[k])
    BY DEF InTransit, Ran, Pkts
  <1>23. u # <<>>
    <2>1. P # {}
      BY OpShape
    <2>2. Pkts(<<>>) = {}
      BY DEF Pkts
    <2> QED  BY <2>1, <2>2, <1>14
  <1> QED  BY <1>14, <1>18, <1>21, <1>22, <1>23, TransitRan
-----------------------------------------------------------------------------

(* A chunk of an operation is one of all chunks.                            *)
LEMMA ChunkIn ==
    ASSUME NEW o \in Op, NEW c \in Chunks(o)
    PROVE  c \in AllChunks /\ c \in Nat
  BY OpShape DEF AllChunks

(* What Data says of one packet on a link.                                  *)
LEMMA TransitFacts ==
    ASSUME Queues, Data, NEW l \in Link, NEW p \in InTransit(l)
    PROVE  /\ p \in Packet /\ Fits(l, p) /\ Lone(l, p)
           /\ p.op \in Op /\ p.c \in AllChunks /\ p.c \in Chunks(p.op)
           /\ p.t = "REDUCE" =>
                /\ l[1] \in Node \ {Apex} /\ l = UpOf(l[1]) /\ l \in UpLink
                /\ p = Contribution(l[1], p.op, p.c)
                /\ Moving(l[1], p.op, p.c)
           /\ p.t # "REDUCE" => Resulted(p.op, p.c)
  <1>1. p \in Packet /\ Fits(l, p) /\ Lone(l, p)
    BY QueueFacts DEF Data, Shaped, Results
  <1>2. p.op \in Op /\ p.c \in AllChunks /\ p.c \in Chunks(p.op)
    BY <1>1, PacketShape, ChunkIn DEF Fits
  <1>3. ASSUME p.t = "REDUCE"
        PROVE  /\ l[1] \in Node \ {Apex} /\ l = UpOf(l[1]) /\ l \in UpLink
               /\ p = Contribution(l[1], p.op, p.c)
               /\ Moving(l[1], p.op, p.c)
    <2>1. l \in UpLink /\ p.of = Below[l[1]]
      BY <1>1, <1>3 DEF Fits
    <2>2. l[1] \in Node \ {Apex} /\ l = UpOf(l[1])
      BY <2>1, LinkShape, LinkKinds
    <2>3. p = Contribution(l[1], p.op, p.c)
      BY <1>1, <1>3, <2>1, PacketShape DEF Contribution
    <2> QED  BY <2>1, <2>2, <2>3 DEF Moving
  <1>4. p.t # "REDUCE" => Resulted(p.op, p.c)
    BY DEF Resulted
  <1> QED  BY <1>1, <1>2, <1>3, <1>4

(* What a step that moves no packet from link to link, folds none and       *)
(* delivers none leaves as it was.                                          *)
LEMMA DataSame ==
    ASSUME Data, \A k \in Link : InTransit(k)' = InTransit(k),
           UNCHANGED <<barrier, started, seen>>
    PROVE  Data'
  <1>1. Shaped'
    <2> SUFFICES ASSUME NEW l \in Link, NEW p \in InTransit(l)' PROVE Fits(l, p)'
      BY DEF Shaped
    <2>1. Fits(l, p)
      BY DEF Data, Shaped
    <2> QED  BY <2>1 DEF Fits
  <1>2. ASSUME NEW o \in Op, NEW c \in AllChunks
        PROVE  Resulted(o, c)' <=> Resulted(o, c)
    BY DEF Resulted
  <1>3. ASSUME NEW o \in Op, NEW c \in AllChunks, NEW n \in Node \ {Apex}
        PROVE  /\ Moving(n, o, c)' <=> Moving(n, o, c)
               /\ Waiting(n, o, c)' <=> Waiting(n, o, c)
               /\ At(n, o, c)' <=> At(n, o, c)
    <2>1. Moving(n, o, c)' <=> Moving(n, o, c)
      BY LinkKinds DEF Moving
    <2>2. Waiting(n, o, c)' <=> Waiting(n, o, c)
      BY DEF Waiting
    <2> QED  BY <2>1, <2>2 DEF At
  <1>4. Contributions'
    <2> SUFFICES ASSUME NEW o \in Op, NEW c \in AllChunks PROVE OneContribution(o, c)'
      BY DEF Contributions
    <2>1. OneContribution(o, c)
      BY DEF Data, Contributions
    <2> QED  BY <2>1, <1>2, <1>3 DEF OneContribution
  <1>5. Barriers'
    BY DEF Data, Barriers, SoundAt
  <1>6. Results'
    <2>1. ASSUME NEW l \in Link, NEW p \in InTransit(l)' PROVE Lone(l, p)'
      <3>1. Lone(l, p)
        BY <2>1 DEF Data, Results
      <3> QED  BY <3>1 DEF Lone
    <2> QED  BY <2>1 DEF Data, Results
  <1> QED  BY <1>1, <1>4, <1>5, <1>6 DEF Data

(* What a source emits: the contribution of its host, or a packet of its    *)
(* own data.                                                                *)
LEMMA SourceFacts ==
    ASSUME NEW o \in Op, NEW h \in Member, NEW c \in Chunks(o)
    PROVE  /\ SourcePacket(o, h, c).op = o /\ SourcePacket(o, h, c).c = c
           /\ SourcePacket(o, h, c).of = {h}
           /\ Kind[o] \in Reducing => SourcePacket(o, h, c) = Contribution(h, o, c)
           /\ Kind[o] \notin Reducing => SourcePacket(o, h, c).t = "MCAST"
           /\ SourcePacket(o, h, c) \in Packet
           /\ Below[h] = {h} /\ Desc(h) = {h} /\ h \in Node \ {Apex}
  <1>1. Below[h] = {h} /\ Desc(h) = {h} /\ h \in Node \ {Apex}
    BY TreeBasics, DescMember, BelowIs
  <1> QED  BY <1>1, ChunkIn DEF SourcePacket, Contribution, Packet

(* What a member has not emitted yet is nowhere. *)
LEMMA NotYetSent ==
    ASSUME Queues, Types, Data, NEW o \in Op, NEW h \in Member, h \notin started[o],
           NEW c \in Chunks(o)
    PROVE  /\ SourcePacket(o, h, c) \notin InTransit(UpOf(h))
           /\ Kind[o] \notin Reducing =>
                \A k \in Link : SourcePacket(o, h, c) \notin InTransit(k)
           /\ ~At(h, o, c)
           /\ Kind[o] \in Reducing => ~Resulted(o, c)
           /\ \A m \in Member : \A x \in seen[o][m] : x[2] # {h}
           /\ \A m \in Node \ {Apex} : At(m, o, c) => Desc(h) \cap Desc(m) = {}
  <1> DEFINE p == SourcePacket(o, h, c)
  <1>1. h \in Node \ {Apex} /\ c \in AllChunks /\ Below[h] = {h} /\ Desc(h) = {h} /\ UpOf(h) \in Link
    BY SourceFacts, ChunkIn, LinkKinds
  <1>2. OneContribution(o, c)
    BY <1>1 DEF Data, Contributions
  <1>3. ~At(h, o, c)
    BY <1>1, <1>2 DEF OneContribution
  <1>4. \A m \in Member : \A x \in seen[o][m] : x[2] # {h}
    BY DEF Data, Results
  <1>5. Kind[o] \in Reducing => ~Resulted(o, c)
    BY <1>2 DEF OneContribution
  <1>6. \A m \in Node \ {Apex} : At(m, o, c) => Desc(h) \cap Desc(m) = {}
    <2> SUFFICES ASSUME NEW m \in Node \ {Apex}, At(m, o, c) PROVE h \notin Desc(m)
      BY <1>1
    <2>1. Below[m] \subseteq started[o]
      BY <1>2 DEF OneContribution
    <2> QED  BY <2>1, BelowIs
  <1>7. ASSUME Kind[o] \notin Reducing, NEW k \in Link, p \in InTransit(k) PROVE FALSE
    <2>1. Fits(k, p)
      BY <1>7 DEF Data, Shaped
    <2>2. p.t = "MCAST" /\ p.op = o /\ p.of = {h}
      BY <1>7, SourceFacts
    <2>3. \E g \in started[o] : {h} = {g}
      BY <2>1, <2>2, <1>7 DEF Fits, Reducing
    <2> QED  BY <2>3
  <1>8. p \notin InTransit(UpOf(h))
    BY <1>1, <1>3, <1>7, SourceFacts DEF At, Moving
  <1> QED  BY <1>3, <1>4, <1>5, <1>6, <1>7, <1>8

(* A start keeps Data.                                                      *)
LEMMA StartData ==
    ASSUME Queues, Types, Data, NEW o \in Op, NEW h \in Member, Start(o, h)
    PROVE  Data'
  <1> DEFINE l == UpOf(h)
             P == {SourcePacket(o, h, c) : c \in Chunks(o)}
  <1>1. /\ h \in Emitters(o) /\ h \notin started[o]
        /\ started' = [started EXCEPT ![o] = @ \cup {h}]
        /\ UNCHANGED <<barrier, seen>>
        /\ wire' = wire
        /\ out' = [out EXCEPT ![UpOf(h)] =
                     @ \o [c \in Chunks(o) |-> Entry(SourcePacket(o, h, c), NoKey)]]
    BY DEF Start, UpOf, sinks
  <1>2. \A c \in Chunks(o) : SourcePacket(o, h, c) \notin InTransit(UpOf(h))
    BY <1>1, NotYetSent
  <1>3. /\ InTransit(l)' = InTransit(l) \cup P
        /\ \A k \in Link \ {l} : InTransit(k)' = InTransit(k)
    BY <1>1, <1>2, StartDelta
  <1>4. /\ started'[o] = started[o] \cup {h}
        /\ \A q \in Op \ {o} : started'[q] = started[q]
        /\ \A q \in Op : started[q] \subseteq started'[q]
        /\ started[o] \subseteq Member
    BY <1>1 DEF Types
  <1>5. /\ l \in Link /\ l \in UpLink /\ l \notin DownLink /\ l[1] = h /\ h \in Node \ {Apex}
        /\ \A n \in Node \ {Apex} : n # h => UpOf(n) \in Link \ {l}
        /\ h \in Node /\ Below[h] = {h} /\ Desc(h) = {h}
    BY LinkKinds, TreeBasics, LinkShape, SourceFacts, OpShape DEF UpOf
  <1>6. Side(l) = Node \ {h}
    BY <1>5, SideBasics
  <1> HIDE DEF l
  <1>7. ASSUME NEW k \in Link, NEW p \in InTransit(k) PROVE Fits(k, p)'
    <2>1. Fits(k, p) /\ p.op \in Op
      BY TransitFacts
    <2> QED  BY <2>1, <1>4 DEF Fits
  <1>8. ASSUME NEW c \in Chunks(o) PROVE Fits(l, SourcePacket(o, h, c))'
    <2> SUFFICES ASSUME NEW p, p = SourcePacket(o, h, c) PROVE Fits(l, p)'
      OBVIOUS
    <2>1. p.op = o /\ p.c = c /\ p.of = {h} /\ c \in Chunks(o)
      BY SourceFacts
    <2>2. CASE Kind[o] \in Reducing
      <3>1. p.t = "REDUCE"
        BY <2>2, SourceFacts DEF Contribution
      <3> QED  BY <3>1, <2>1, <2>2, <1>5 DEF Fits
    <2>3. CASE Kind[o] \notin Reducing
      <3>1. p.t = "MCAST" /\ Kind[o] \in {"bcast", "allgather"}
        BY <2>3, SourceFacts, OpShape DEF Kinds, Reducing
      <3>2. h \in Emitters(o) \cap started'[o] /\ h \notin Side(l)
        BY <1>1, <1>4, <1>6
      <3> QED  BY <3>1, <3>2, <2>1 DEF Fits
    <2> QED  BY <2>2, <2>3
  <1>9. Shaped'
    <2> SUFFICES ASSUME NEW k \in Link, NEW p \in InTransit(k)' PROVE Fits(k, p)'
      BY DEF Shaped
    <2>1. CASE k = l
      BY <2>1, <1>3, <1>7, <1>8
    <2>2. CASE k # l
      BY <2>2, <1>3, <1>7
    <2> QED  BY <2>1, <2>2
  <1>10. ASSUME NEW q \in Op, NEW d \in AllChunks, NEW n \in Node \ {Apex}, q # o \/ n # h
         PROVE  Moving(n, q, d)' <=> Moving(n, q, d)
    <2>1. CASE n # h
      BY <2>1, <1>3, <1>5 DEF Moving
    <2>2. CASE n = h /\ q # o
      <3>1. \A c \in Chunks(o) : SourcePacket(o, h, c) # Contribution(n, q, d)
        BY <2>2, SourceFacts DEF Contribution
      <3> QED  BY <3>1, <2>2, <1>3 DEF Moving, l
    <2> QED  BY <1>10, <2>1, <2>2
  <1>11. ASSUME NEW d \in AllChunks, Kind[o] \notin Reducing
         PROVE  Moving(h, o, d)' <=> Moving(h, o, d)
    <2>1. \A c \in Chunks(o) : SourcePacket(o, h, c) # Contribution(h, o, d)
      BY <1>11, SourceFacts DEF Contribution
    <2> QED  BY <2>1, <1>3 DEF Moving, l
  <1>12. ASSUME NEW d \in AllChunks, d \notin Chunks(o)
         PROVE  Moving(h, o, d)' <=> Moving(h, o, d)
    <2>1. \A c \in Chunks(o) : SourcePacket(o, h, c) # Contribution(h, o, d)
      BY <1>12, SourceFacts DEF Contribution
    <2> QED  BY <2>1, <1>3 DEF Moving, l
  <1>13. ASSUME NEW q \in Op, NEW d \in AllChunks, NEW n
         PROVE  Waiting(n, q, d)' <=> Waiting(n, q, d)
    BY <1>1 DEF Waiting
  <1>14. ASSUME NEW q \in Op, NEW d \in AllChunks, q # o \/ Kind[q] \in Reducing
         PROVE  Resulted(q, d)' <=> Resulted(q, d)
    <2>1. \A c \in Chunks(o) :
            ~(SourcePacket(o, h, c).t # "REDUCE" /\ SourcePacket(o, h, c).op = q)
      BY <1>14, SourceFacts DEF Contribution
    <2>2. ASSUME NEW k \in Link, NEW p \in InTransit(k)', p.t # "REDUCE", p.op = q
          PROVE  p \in InTransit(k)
      BY <2>1, <2>2, <1>3
    <2>3. ASSUME NEW k \in Link PROVE InTransit(k) \subseteq InTransit(k)'
      BY <1>3
    <2> QED  BY <2>2, <2>3, <1>1 DEF Resulted
  <1>15. Contributions'
    <2> SUFFICES ASSUME NEW q \in Op, NEW d \in AllChunks PROVE OneContribution(q, d)'
      BY DEF Contributions
    <2>1. OneContribution(q, d)
      BY DEF Data, Contributions
    <2>2. CASE q # o
      <3>1. \A n \in Node \ {Apex} : At(n, q, d)' <=> At(n, q, d)
        BY <2>2, <1>10, <1>13 DEF At
      <3> QED  BY <3>1, <2>1, <2>2, <1>4, <1>10, <1>13, <1>14 DEF OneContribution
    <2>3. CASE q = o /\ Kind[o] \notin Reducing
      <3>1. \A n \in Node \ {Apex} : /\ Moving(n, q, d)' <=> Moving(n, q, d)
                                     /\ At(n, q, d)' <=> At(n, q, d)
        BY <2>3, <1>10, <1>11, <1>13 DEF At
      <3> QED  BY <3>1, <2>1, <2>3, <1>13 DEF OneContribution
    <2>4. CASE q = o /\ d \notin Chunks(o) /\ Kind[o] \in Reducing
      <3>1. \A n \in Node \ {Apex} : /\ Moving(n, q, d)' <=> Moving(n, q, d)
                                     /\ At(n, q, d)' <=> At(n, q, d)
        BY <2>4, <1>10, <1>12, <1>13 DEF At
      <3>2. Resulted(q, d) => started[o] = Member
        BY <2>1, <2>4 DEF OneContribution
      <3> QED  BY <3>1, <3>2, <2>1, <2>4, <1>1, <1>4, <1>13, <1>14 DEF OneContribution
    <2>5. CASE q = o /\ d \in Chunks(o) /\ Kind[o] \in Reducing
      <3>1. ~At(h, o, d) /\ ~Resulted(o, d)
            /\ \A m \in Node \ {Apex} : At(m, o, d) => Desc(h) \cap Desc(m) = {}
        BY <2>5, <1>1, NotYetSent
      <3>2. \A n \in Node \ {Apex} : n # h => /\ Moving(n, q, d)' <=> Moving(n, q, d)
                                              /\ At(n, q, d)' <=> At(n, q, d)
        BY <2>5, <1>10, <1>13 DEF At
      <3>3. ~Waiting(h, o, d)' /\ ~Resulted(o, d)'
        BY <3>1, <2>5, <1>13, <1>14 DEF At
      <3>4. Below[h] \subseteq started'[o]
        BY <1>4, <1>5
      <3>5. \A n \in Node \ {Apex} : n # h /\ At(n, o, d) =>
               /\ Below[n] \subseteq started'[o] /\ Desc(h) \cap Desc(n) = {}
        BY <2>1, <2>5, <3>1, <1>4 DEF OneContribution
      <3>6. \A n, m \in Node \ {Apex} : n # m /\ At(n, o, d)' /\ At(m, o, d)' =>
               Desc(n) \cap Desc(m) = {}
        <4> SUFFICES ASSUME NEW n \in Node \ {Apex}, NEW m \in Node \ {Apex},
                            n # m, At(n, o, d)', At(m, o, d)'
                     PROVE  Desc(n) \cap Desc(m) = {}
          OBVIOUS
        <4>1. CASE n = h
          BY <4>1, <3>2, <3>5, <2>5
        <4>2. CASE m = h
          BY <4>2, <3>2, <3>5, <2>5
        <4>3. CASE n # h /\ m # h
          BY <4>3, <3>2, <2>1, <2>5 DEF OneContribution
        <4> QED  BY <4>1, <4>2, <4>3
      <3>7. \A n \in Node \ {Apex} : ~(Moving(n, o, d)' /\ Waiting(n, o, d)')
        BY <3>2, <3>3, <2>1, <2>5, <1>13 DEF OneContribution
      <3>8. \A n \in Node \ {Apex} : At(n, o, d)' => Below[n] \subseteq started'[o]
        BY <3>2, <3>4, <3>5, <2>5
      <3> QED  BY <3>3, <3>6, <3>7, <3>8, <2>5 DEF OneContribution
    <2> QED  BY <2>2, <2>3, <2>4, <2>5
  <1>16. Barriers'
    BY <1>1 DEF Data, Barriers, SoundAt
  <1>17. ASSUME NEW k \in Link, NEW p \in InTransit(k) PROVE Lone(k, p)'
    <2>1. Lone(k, p)
      BY DEF Data, Results
    <2>2. p.t # "REDUCE" => \A c \in Chunks(o) : p # SourcePacket(o, h, c)
      <3> SUFFICES ASSUME NEW c \in Chunks(o), p = SourcePacket(o, h, c), p.t # "REDUCE" PROVE FALSE
        OBVIOUS
      <3>1. Kind[o] \notin Reducing
        BY SourceFacts DEF Contribution
      <3> QED  BY <3>1, <1>1, NotYetSent
    <2>3. \A j \in Link : p.t # "REDUCE" /\ p \in InTransit(j)' => p \in InTransit(j)
      BY <2>2, <1>3
    <2> QED  BY <2>1, <2>3, <1>1 DEF Lone
  <1>18. ASSUME NEW c \in Chunks(o) PROVE Lone(l, SourcePacket(o, h, c))'
    <2> SUFFICES ASSUME NEW p, p = SourcePacket(o, h, c) PROVE Lone(l, p)'
      OBVIOUS
    <2>1. CASE Kind[o] \in Reducing
      <3>1. p.t = "REDUCE"
        BY <2>1, SourceFacts DEF Contribution
      <3> QED  BY <3>1 DEF Lone
    <2>2. CASE Kind[o] \notin Reducing
      <3>1. \A k \in Link \ {l} : p \notin InTransit(k)'
        BY <2>2, <1>1, <1>3, NotYetSent
      <3>2. \A m \in Member : \A x \in seen[o][m] : x[2] # {h}
        BY <1>1, NotYetSent
      <3>3. p.op = o /\ p.of = {h}
        BY SourceFacts
      <3>4. \A m \in Member : <<p.c, p.of>> \notin seen'[p.op][m]
        BY <3>2, <3>3, <1>1
      <3> QED  BY <3>1, <3>4 DEF Lone
    <2> QED  BY <2>1, <2>2
  <1>19. Results'
    <2>1. ASSUME NEW k \in Link, NEW p \in InTransit(k)' PROVE Lone(k, p)'
      <3>1. CASE k = l
        BY <3>1, <1>3, <1>17, <1>18
      <3>2. CASE k # l
        BY <3>2, <1>3, <1>17
      <3> QED  BY <3>1, <3>2
    <2>2. ASSUME NEW q \in Op, NEW m \in Member, NEW x \in seen'[q][m]
          PROVE  x \in Due(q, m) /\ x[2] \subseteq started'[q]
      BY <1>1, <1>4 DEF Data, Results
    <2> QED  BY <2>1, <2>2 DEF Results
  <1> QED  BY <1>9, <1>15, <1>16, <1>19 DEF Data

(* What leaves a pipe was on the link.                                      *)
LEMMA HeadInTransit ==
    ASSUME Queues, NEW l \in Link, wire[l] # <<>>
    PROVE  Head(wire[l]) \in InTransit(l) /\ Head(wire[l]) \in Packet
  BY QueueFacts, GoodTake, TransitRan

(* The copies of a result go where the packet has not been. *)
LEMMA PassFresh ==
    ASSUME Queues, Data, NEW l \in Ingress, NEW s, s = l[2], NEW p \in InTransit(l),
           p.t # "REDUCE", NEW b \in Neighbours(s), b # l[1]
    PROVE  /\ s \in Switch /\ l \in Link /\ l[1] \in Neighbours(s) /\ l = <<l[1], s>>
           /\ <<s, b>> \in Link /\ <<s, b>> # l
           /\ Side(<<s, b>>) \subseteq Side(l)
           /\ p \notin InTransit(<<s, b>>)
  <1>1. s \in Switch /\ l \in Link /\ l[1] \in Neighbours(s) /\ l = <<l[1], s>>
    BY LinkKinds, LinkShape, NeighbourLinks
  <1>2. <<s, b>> \in Link /\ <<s, b>> # l
    BY <1>1, NeighbourLinks, LinkShape
  <1>3. Side(<<s, b>>) \subseteq Side(l)
    BY <1>1, SideSplit
  <1>4. b \in Side(<<s, b>>)
    <2>1. <<s, b>>[2] = b
      OBVIOUS
    <2> QED  BY <2>1, <1>2, SideBasics
  <1>5. Lone(l, p)
    BY <1>1, TransitFacts
  <1> QED  BY <1>1, <1>2, <1>3, <1>4, <1>5 DEF Lone

(* A step that passes on a result keeps Data.                               *)
LEMMA PassData ==
    ASSUME Queues, Data, NEW l \in Ingress, NEW s, s = l[2],
           NEW p \in InTransit(l), p = Head(wire[l]), p.t # "REDUCE",
           NEW T \in SUBSET Neighbours(s), l[1] \notin T,
           \A b \in T : Fits(<<s, b>>, p),
           Forwarded(l, s, p, T),
           UNCHANGED <<barrier, started, seen>>
    PROVE  Data'
  <1>0. /\ InTransit(l)' = InTransit(l) \ {p}
        /\ \A k \in Link : k[1] = s /\ k[2] \in T => InTransit(k)' = InTransit(k) \cup {p}
        /\ \A k \in Link : k # l /\ ~(k[1] = s /\ k[2] \in T) => InTransit(k)' = InTransit(k)
    BY DEF Forwarded
  <1> DEFINE New(k) == k[1] = s /\ k[2] \in T
  <1>1. s \in Switch /\ l \in Link /\ l[1] \in Neighbours(s) /\ l = <<l[1], s>>
    BY LinkKinds, LinkShape, NeighbourLinks
  <1>2. ASSUME NEW k \in Link, New(k)
        PROVE  /\ k = <<s, k[2]>> /\ k # l /\ k[2] \in T
               /\ Side(k) \subseteq Side(l) /\ p \notin InTransit(k)
               /\ Fits(k, p)
               /\ InTransit(k)' = InTransit(k) \cup {p}
    <2>1. k = <<s, k[2]>>
      BY <1>2, LinkShape
    <2>2. k[2] \in Neighbours(s) /\ k[2] # l[1]
      BY <1>2
    <2>3. InTransit(k)' = InTransit(k) \cup {p}
      BY <1>0, <1>2
    <2> QED  BY <2>1, <2>2, <2>3, <1>2, PassFresh
  <1>3. ~New(l)
    BY <1>2
  <1>4. ASSUME NEW k \in Link, NEW j \in Link, k # j, New(k), New(j)
        PROVE  Side(k) \cap Side(j) = {}
    <2>1. k = <<s, k[2]>> /\ j = <<s, j[2]>> /\ k[2] # j[2]
      BY <1>2, <1>4
    <2>2. k[2] \in Neighbours(s) /\ j[2] \in Neighbours(s)
      BY <1>4
    <2>3. Side(<<s, k[2]>>) \cap Side(<<s, j[2]>>) = {}
      <3>1. \A a, b \in Neighbours(s) : a # b => Side(<<s, a>>) \cap Side(<<s, b>>) = {}
        BY <1>1, SideSplit
      <3> QED  BY <2>1, <2>2, <3>1
    <2> QED  BY <2>1, <2>3
  <1>5. \A k \in Link : \A q : q # p => (q \in InTransit(k)' <=> q \in InTransit(k))
    <2> SUFFICES ASSUME NEW k \in Link, NEW q, q # p
                 PROVE  q \in InTransit(k)' <=> q \in InTransit(k)
      OBVIOUS
    <2>1. CASE k = l
      BY <2>1, <1>0
    <2>2. CASE k # l /\ New(k)
      BY <2>2, <1>0
    <2>3. CASE k # l /\ ~New(k)
      BY <2>3, <1>0
    <2> QED  BY <2>1, <2>2, <2>3
  <1>6. \A k \in Link : p \in InTransit(k)' => New(k) \/ (k # l /\ p \in InTransit(k))
    BY <1>0, <1>1
  <1> HIDE DEF New
  <1>7. Shaped'
    <2> SUFFICES ASSUME NEW k \in Link, NEW q \in InTransit(k)' PROVE Fits(k, q)'
      BY DEF Shaped
    <2>1. Fits(k, q)
      BY <1>2, <1>5, <1>6 DEF Data, Shaped
    <2> QED  BY <2>1 DEF Fits
  <1>8. ASSUME NEW o \in Op, NEW c \in AllChunks, Resulted(o, c)'
        PROVE  Resulted(o, c)
    <2>1. CASE \E h \in Member : \E x \in seen'[o][h] : x[1] = c
      BY <2>1 DEF Resulted
    <2>2. CASE \E k \in Link : \E q \in InTransit(k)' : q.t # "REDUCE" /\ q.op = o /\ q.c = c
      <3>0. PICK k \in Link : \E q \in InTransit(k)' : q.t # "REDUCE" /\ q.op = o /\ q.c = c
        BY <2>2
      <3>1. PICK q \in InTransit(k)' : q.t # "REDUCE" /\ q.op = o /\ q.c = c
        BY <3>0
      <3>2. CASE q = p
        BY <3>1, <3>2, <1>1 DEF Resulted
      <3>3. CASE q # p
        BY <3>1, <3>3, <1>5 DEF Resulted
      <3> QED  BY <3>2, <3>3
    <2> QED  BY <1>8, <2>1, <2>2 DEF Resulted
  <1>9. ASSUME NEW o \in Op, NEW c \in AllChunks, NEW n \in Node \ {Apex}
        PROVE  /\ Moving(n, o, c)' <=> Moving(n, o, c)
               /\ Waiting(n, o, c)' <=> Waiting(n, o, c)
               /\ At(n, o, c)' <=> At(n, o, c)
    <2>1. Moving(n, o, c)' <=> Moving(n, o, c)
      <3>1. Contribution(n, o, c) # p /\ UpOf(n) \in Link
        BY LinkKinds DEF Contribution
      <3> QED  BY <3>1, <1>5 DEF Moving
    <2>2. Waiting(n, o, c)' <=> Waiting(n, o, c)
      BY DEF Waiting
    <2> QED  BY <2>1, <2>2 DEF At
  <1>10. Contributions'
    <2> SUFFICES ASSUME NEW o \in Op, NEW c \in AllChunks PROVE OneContribution(o, c)'
      BY DEF Contributions
    <2>1. OneContribution(o, c)
      BY DEF Data, Contributions
    <2> QED  BY <2>1, <1>8, <1>9 DEF OneContribution
  <1>11. Barriers'
    BY DEF Data, Barriers, SoundAt
  <1>12. Lone(l, p)
    BY <1>1 DEF Data, Results
  <1>13. ASSUME NEW k \in Link, p \in InTransit(k)' PROVE Lone(k, p)'
    <2>1. \A h \in Side(k) \cap Member : <<p.c, p.of>> \notin seen'[p.op][h]
      <3>1. CASE New(k)
        BY <3>1, <1>2, <1>12 DEF Lone
      <3>2. CASE k # l /\ p \in InTransit(k)
        <4>1. Lone(k, p)
          BY <3>2 DEF Data, Results
        <4> QED  BY <4>1 DEF Lone
      <3> QED  BY <3>1, <3>2, <1>6, <1>13
    <2>2. ASSUME NEW j \in Link \ {k}, p \in InTransit(j)' PROVE Side(k) \cap Side(j) = {}
      <3>1. CASE New(k) /\ New(j)
        BY <3>1, <1>4
      <3>2. CASE New(k) /\ j # l /\ p \in InTransit(j)
        BY <3>2, <1>2, <1>12 DEF Lone
      <3>3. CASE New(j) /\ k # l /\ p \in InTransit(k)
        BY <3>3, <1>2, <1>12 DEF Lone
      <3>4. CASE k # l /\ p \in InTransit(k) /\ j # l /\ p \in InTransit(j)
        <4>1. Lone(k, p)
          BY <3>4 DEF Data, Results
        <4> QED  BY <4>1, <3>4 DEF Lone
      <3> QED  BY <3>1, <3>2, <3>3, <3>4, <1>6, <1>13, <2>2
    <2> QED  BY <2>1, <2>2 DEF Lone
  <1>14. ASSUME NEW k \in Link, NEW q \in InTransit(k)', q # p PROVE Lone(k, q)'
    <2>1. Lone(k, q)
      BY <1>5, <1>14 DEF Data, Results
    <2> QED  BY <2>1, <1>5, <1>14 DEF Lone
  <1>15. Results'
    BY <1>13, <1>14 DEF Data, Results
  <1> QED  BY <1>7, <1>10, <1>11, <1>15 DEF Data

(* A multicast copy belongs on every other link of the switch.              *)
LEMMA ReplicateFits ==
    ASSUME Queues, Data, NEW l \in Ingress, NEW s, s = l[2], NEW p \in InTransit(l),
           p.t = "MCAST", NEW b \in Neighbours(s), b # l[1]
    PROVE  Fits(<<s, b>>, p)
  <1>1. /\ s \in Switch /\ l \in Link /\ l[1] \in Neighbours(s) /\ l = <<l[1], s>>
        /\ <<s, b>> \in Link /\ Side(<<s, b>>) \subseteq Side(l)
    BY PassFresh
  <1>2. Fits(l, p)
    BY <1>1, TransitFacts
  <1>3. CASE Kind[p.op] = "allreduce" /\ l \in DownLink /\ p.of = Member
    <2>1. l[1] = Parent[s] /\ s \in Node \ {Apex}
      BY <1>1, <1>3, LinkShape
    <2>2. b \in Children(s)
      BY <1>1, <2>1, NeighbourLinks
    <2>3. <<s, b>> \in DownLink
      BY <1>1, <2>2, NeighbourLinks
    <2> QED  BY <2>3, <1>2, <1>3 DEF Fits
  <1>4. CASE /\ Kind[p.op] \in {"bcast", "allgather"}
             /\ \E h \in Emitters(p.op) \cap started[p.op] : p.of = {h} /\ h \notin Side(l)
    BY <1>1, <1>2, <1>4 DEF Fits
  <1> QED  BY <1>2, <1>3, <1>4 DEF Fits

(* A replication takes a packet and puts it where it has not been.          *)
LEMMA ReplicateDelta ==
    ASSUME Queues, Data, NEW l \in Ingress, NEW s, s = l[2], NEW p, p = Head(wire[l]),
           NEW T, T = Neighbours(s) \ {l[1]}, Replicate(l)
    PROVE  /\ wire[l] # <<>> /\ p \in InTransit(l) /\ p \in Packet /\ p.t = "MCAST"
           /\ \A b \in T : p \notin InTransit(<<s, b>>)
           /\ T \in SUBSET Neighbours(s)
           /\ Forwarded(l, s, p, T)
  <1>1. /\ wire[l] # <<>> /\ wire' = Drained(l)
        /\ p.t = "MCAST"
        /\ out' = Copied(s, p, T)
    BY DEF Replicate, Accept, Forward, Copied, Drained
  <1>2. p \in InTransit(l) /\ p \in Packet
    BY <1>1, HeadInTransit, LinkKinds
  <1>3. \A b \in T : p \notin InTransit(<<s, b>>)
    BY <1>1, <1>2, PassFresh
  <1>4. T \in SUBSET Neighbours(s)
    OBVIOUS
  <1>5. Forwarded(l, s, p, T)
    BY <1>1, <1>2, <1>3, <1>4, ForwardDelta
  <1> QED  BY <1>1, <1>2, <1>3, <1>4, <1>5

(* A replication keeps Data.                                                *)
LEMMA ReplicateData ==
    ASSUME Queues, Data, NEW l \in Ingress, Replicate(l)
    PROVE  Data'
  <1> SUFFICES ASSUME NEW s, s = l[2], NEW p, p = Head(wire[l]),
                      NEW T, T = Neighbours(s) \ {l[1]}
               PROVE  Data'
    OBVIOUS
  <1>1. /\ p \in InTransit(l) /\ p.t = "MCAST" /\ Forwarded(l, s, p, T)
        /\ T \in SUBSET Neighbours(s) /\ l[1] \notin T
    BY ReplicateDelta
  <1>2. \A b \in T : Fits(<<s, b>>, p)
    BY <1>1, ReplicateFits
  <1>3. UNCHANGED <<barrier, started, seen>>
    BY DEF Replicate, sinks
  <1>4. p.t # "REDUCE"
    BY <1>1
  <1> QED  BY <1>1, <1>2, <1>3, <1>4, PassData

(* A descent takes a packet and puts it on the one link to its root.        *)
LEMMA DescendDelta ==
    ASSUME Queues, Data, NEW l \in Ingress, NEW s, s = l[2], NEW p, p = Head(wire[l]),
           NEW T, T = NextHop(s, ReduceRoot(p.op, p.c)), Descend(l)
    PROVE  /\ wire[l] # <<>> /\ p \in InTransit(l) /\ p \in Packet /\ p.t = "DOWN"
           /\ \A b \in T : p \notin InTransit(<<s, b>>) /\ Fits(<<s, b>>, p)
           /\ T \in SUBSET Neighbours(s) /\ l[1] \notin T
           /\ T # {} /\ IsFiniteSet(T)
           /\ Forwarded(l, s, p, T)
  <1>1. /\ wire[l] # <<>> /\ wire' = Drained(l)
        /\ p.t = "DOWN"
        /\ out' = Copied(s, p, T)
    BY DEF Descend, Accept, Forward, Copied, Drained
  <1>2. p \in InTransit(l) /\ p \in Packet
    BY <1>1, HeadInTransit, LinkKinds
  <1>3. l \in Link /\ s \in Switch /\ s \in Node
    BY LinkKinds DEF Node
  <1>4. Fits(l, p) /\ p.op \in Op
    BY <1>2, <1>3, TransitFacts
  <1>5. /\ l \in DownLink /\ Kind[p.op] \in {"reduce", "reduce_scatter"} /\ p.c \in Chunks(p.op)
        /\ ReduceRoot(p.op, p.c) \in Desc(s)
    BY <1>1, <1>4 DEF Fits
  <1>6. ReduceRoot(p.op, p.c) \in Member
    BY <1>4, <1>5, RootIsReceiver
  <1>7. PICK b \in Children(s) : T = {b} /\ ReduceRoot(p.op, p.c) \in Desc(b)
    BY <1>3, <1>5, <1>6, NextHopIs
  <1>8. s # Apex /\ l[1] = Parent[s]
    BY <1>3, <1>5, LinkShape
  <1>9. b \in Neighbours(s) /\ b # l[1] /\ <<s, b>> \in DownLink
    <2>1. /\ Children(s) \subseteq Neighbours(s) /\ Parent[s] \notin Children(s)
          /\ \A x \in Neighbours(s) : (x \in Children(s)) <=> (<<s, x>> \in DownLink)
      BY <1>3, <1>8, NeighbourLinks
    <2> QED  BY <1>7, <1>8, <2>1
  <1>10. p \notin InTransit(<<s, b>>)
    BY <1>1, <1>2, <1>9, PassFresh
  <1>11. Fits(<<s, b>>, p)
    BY <1>1, <1>4, <1>7, <1>9 DEF Fits
  <1>12. T \in SUBSET Neighbours(s) /\ l[1] \notin T /\ T # {} /\ IsFiniteSet(T)
    BY <1>7, <1>9, FS_Singleton
  <1>13. \A d \in T : p \notin InTransit(<<s, d>>) /\ Fits(<<s, d>>, p)
    BY <1>7, <1>10, <1>11
  <1>14. Forwarded(l, s, p, T)
    BY <1>1, <1>2, <1>12, <1>13, ForwardDelta
  <1> QED  BY <1>1, <1>2, <1>12, <1>13, <1>14

(* A descent keeps Data.                                                    *)
LEMMA DescendData ==
    ASSUME Queues, Data, NEW l \in Ingress, Descend(l)
    PROVE  Data'
  <1> SUFFICES ASSUME NEW s, s = l[2], NEW p, p = Head(wire[l]),
                      NEW T, T = NextHop(s, ReduceRoot(p.op, p.c))
               PROVE  Data'
    OBVIOUS
  <1>1. /\ p \in InTransit(l) /\ p.t = "DOWN" /\ Forwarded(l, s, p, T)
        /\ T \in SUBSET Neighbours(s) /\ l[1] \notin T
    BY DescendDelta
  <1>2. \A b \in T : Fits(<<s, b>>, p)
    BY DescendDelta
  <1>3. UNCHANGED <<barrier, started, seen>>
    BY DEF Descend, sinks
  <1>4. p.t # "REDUCE"
    BY <1>1
  <1> QED  BY <1>1, <1>2, <1>3, <1>4, PassData

(* There are finitely many nodes.                                           *)
LEMMA NodeFinite == IsFiniteSet(Node) /\ \A s \in Node : IsFiniteSet(Children(s))
  <1>1. IsFiniteSet(Node)
    BY MemberCount, TreeAssumption, FS_Union DEF Node
  <1>2. ASSUME NEW s \in Node PROVE IsFiniteSet(Children(s))
    <2>1. Children(s) \in SUBSET Node
      BY TreeBasics
    <2> QED  BY <2>1, <1>1, FS_Subset
  <1> QED  BY <1>1, <1>2

(* The charges of a barrier count its children.                             *)
LEMMA InCount ==
    ASSUME NEW s \in Switch, NEW C, C \subseteq {UpOf(n) : n \in Children(s)}
    PROVE  /\ IsFiniteSet(C)
           /\ {l[1] : l \in C} \subseteq Children(s)
           /\ Cardinality(C) = Cardinality({l[1] : l \in C})
           /\ Cardinality(C) = Cardinality(Children(s)) => {l[1] : l \in C} = Children(s)
           /\ {l[1] : l \in C} = Children(s) => C = {UpOf(n) : n \in Children(s)}
           /\ \A n \in Children(s) : n \in {l[1] : l \in C} <=> UpOf(n) \in C
  <1> DEFINE D == {l[1] : l \in C}
             f == [n \in D |-> UpOf(n)]
  <1>1. \A n : UpOf(n)[1] = n
    BY DEF UpOf
  <1>2. D \subseteq Children(s)
    BY <1>1
  <1>3. IsFiniteSet(Children(s)) /\ s \in Node
    BY NodeFinite DEF Node
  <1>4. \A n \in Children(s) : n \in D <=> UpOf(n) \in C
    BY <1>1
  <1>5. f \in Bijection(D, C)
    <2>1. f \in [D -> C]
      BY <1>2, <1>4
    <2>2. \A a, b \in D : f[a] = f[b] => a = b
      BY <1>1
    <2>3. \A l \in C : \E n \in D : f[n] = l
      BY <1>1
    <2> QED  BY <2>1, <2>2, <2>3, Fun_IsBij
  <1>6. D \in SUBSET Children(s)
    BY <1>2
  <1>7. IsFiniteSet(D) /\ (Cardinality(Children(s)) = Cardinality(D) => Children(s) = D)
    BY <1>3, <1>6, FS_Subset
  <1>8. IsFiniteSet(C) /\ Cardinality(C) = Cardinality(D)
    BY <1>5, <1>7, FS_Bijection DEF ExistsBijection
  <1>9. D = Children(s) => C = {UpOf(n) : n \in Children(s)}
    BY <1>4
  <1> QED  BY <1>2, <1>4, <1>7, <1>8, <1>9

(* The contribution p of n for chunk c of o is at its parent s, on link l.  *)
Arrived(l, p, n, s, o, c) ==
    /\ p \in InTransit(l) /\ p \in Packet
    /\ n \in Node \ {Apex} /\ s = Parent[n] /\ s \in Switch /\ n \in Children(s)
    /\ l = UpOf(n) /\ l \in Link
    /\ o \in Op /\ c \in AllChunks /\ c \in Chunks(o) /\ Kind[o] \in Reducing
    /\ p = Contribution(n, o, c) /\ Moving(n, o, c) /\ ~Waiting(n, o, c)
    /\ l \notin barrier[s][o][c].charges
    /\ OneContribution(o, c) /\ SoundAt(s, o, c)
    /\ ~Resulted(o, c)
    /\ barrier[s][o][c] \in BarrierRec

(* What the contribution at the far end of a pipe says.                     *)
LEMMA ArrivalFacts ==
    ASSUME Queues, Types, Data, NEW l \in Ingress, wire[l] # <<>>,
           NEW p, p = Head(wire[l]), p.t = "REDUCE",
           NEW n, n = l[1], NEW s, s = l[2], NEW o, o = p.op, NEW c, c = p.c
    PROVE  Arrived(l, p, n, s, o, c)
  <1>1. l \in Link /\ s \in Switch /\ s \in Node
    BY LinkKinds DEF Node
  <1>2. p \in InTransit(l) /\ p \in Packet
    BY <1>1, HeadInTransit
  <1>3. /\ n \in Node \ {Apex} /\ l = UpOf(n) /\ l \in UpLink
        /\ p = Contribution(n, o, c) /\ Moving(n, o, c)
        /\ o \in Op /\ c \in AllChunks /\ c \in Chunks(o)
    BY <1>1, <1>2, TransitFacts
  <1>4. s = Parent[n]
    BY <1>1, <1>3, LinkShape
  <1>5. n \in Children(s)
    BY <1>1, <1>3, <1>4, TreeBasics
  <1>6. OneContribution(o, c) /\ SoundAt(s, o, c)
    BY <1>1, <1>3 DEF Data, Contributions, Barriers
  <1>7. ~Waiting(n, o, c) /\ Kind[o] \in Reducing /\ ~Resulted(o, c)
    BY <1>3, <1>6 DEF OneContribution, At
  <1>8. l \notin barrier[s][o][c].charges
    BY <1>3, <1>4, <1>7 DEF Waiting
  <1>9. barrier[s][o][c] \in BarrierRec
    <2>1. barrier \in [Switch -> [Op -> [AllChunks -> BarrierRec]]]
      BY DEF Types
    <2>2. barrier[s] \in [Op -> [AllChunks -> BarrierRec]]
      BY <2>1, <1>1
    <2>3. barrier[s][o] \in [AllChunks -> BarrierRec]
      BY <2>2, <1>3
    <2> QED  BY <2>3, <1>3
  <1> QED  BY <1>1, <1>2, <1>3, <1>4, <1>5, <1>6, <1>7, <1>8, <1>9 DEF Arrived

(* Barrier b with arrival p on link l.                                      *)
WithIt(l, p, b) ==
    [arrived |-> b.arrived + 1, charges |-> b.charges \cup {l}, of |-> b.of \cup p.of]

(* One barrier becomes b, the others stay.                                  *)
BarrierSet(s, o, c, b) ==
    /\ barrier'[s][o][c] = b
    /\ \A r \in Switch, q \in Op, d \in AllChunks :
         r # s \/ q # o \/ d # c => barrier'[r][q][d] = barrier[r][q][d]
    /\ barrier' \in [Switch -> [Op -> [AllChunks -> BarrierRec]]]

(* SetBarrier does that.                                                    *)
LEMMA SetDelta ==
    ASSUME Types, NEW s \in Switch, NEW o \in Op, NEW c \in AllChunks,
           NEW b \in BarrierRec, SetBarrier(s, o, c, b)
    PROVE  BarrierSet(s, o, c, b)
  <1>1. barrier \in [Switch -> [Op -> [AllChunks -> BarrierRec]]]
    BY DEF Types
  <1>2. barrier' = [barrier EXCEPT ![s][o][c] = b]
    BY DEF SetBarrier
  <1>3. barrier'[s][o][c] = b
    BY <1>1, <1>2
  <1>4. \A r \in Switch, q \in Op, d \in AllChunks :
                r # s \/ q # o \/ d # c => barrier'[r][q][d] = barrier[r][q][d]
    BY <1>1, <1>2
  <1>5. barrier' \in [Switch -> [Op -> [AllChunks -> BarrierRec]]]
    BY <1>1, <1>2
  <1> QED  BY <1>3, <1>4, <1>5 DEF BarrierSet

(* A barrier with one more arrival has the type.                            *)
LEMMA WithItType ==
    ASSUME NEW l \in Ingress, NEW p \in Packet, NEW b \in BarrierRec
    PROVE  WithIt(l, p, b) \in BarrierRec
  <1>1. b.arrived \in Nat /\ b.charges \in SUBSET Ingress /\ b.of \in SUBSET Member
    BY DEF BarrierRec
  <1>2. p.of \in SUBSET Member
    BY PacketShape
  <1>3. b.arrived + 1 \in Nat /\ b.charges \cup {l} \in SUBSET Ingress /\ b.of \cup p.of \in SUBSET Member
    BY <1>1, <1>2
  <1> QED  BY <1>3 DEF BarrierRec, WithIt

(* The arrival p on link l is folded into barrier b of s.                   *)
Folded(l, p, s, o, c, b) ==
    /\ b = barrier[s][o][c]
    /\ wire[l] # <<>> /\ p.t = "REDUCE" /\ out' = out
    /\ Queues'
    /\ InTransit(l)' = InTransit(l) \ {p}
    /\ \A k \in Link \ {l} : InTransit(k)' = InTransit(k)
    /\ b.arrived + 1 < Cardinality(Children(s))
    /\ BarrierSet(s, o, c, WithIt(l, p, b))

(* A fold does that.                                                        *)
LEMMA FoldDelta ==
    ASSUME Queues, Types, Data, NEW l \in Ingress, NEW p, p = Head(wire[l]),
           NEW n, n = l[1], NEW s, s = l[2], NEW o, o = p.op, NEW c, c = p.c,
           NEW b, b = barrier[s][o][c], Fold(l)
    PROVE  Folded(l, p, s, o, c, b) /\ Arrived(l, p, n, s, o, c)
  <1>1. /\ wire[l] # <<>> /\ p.t = "REDUCE" /\ wire' = Drained(l) /\ out' = out
        /\ b.arrived + 1 < Cardinality(Children(s))
        /\ SetBarrier(s, o, c, WithIt(l, p, b))
    BY DEF Fold, Accept, Drained, WithArrival, WithIt, Awaited
  <1>2. Arrived(l, p, n, s, o, c)
    BY <1>1, ArrivalFacts
  <1>3. /\ s \in Switch /\ o \in Op /\ c \in AllChunks /\ l \in Link
        /\ b \in BarrierRec /\ p \in Packet
    BY <1>2 DEF Arrived
  <1>4. Queues' /\ InTransit(l)' = InTransit(l) \ {p}
        /\ \A k \in Link \ {l} : InTransit(k)' = InTransit(k)
    BY <1>1, <1>3, TakeDelta
  <1>5. WithIt(l, p, b) \in BarrierRec
    BY <1>3, WithItType
  <1>6. BarrierSet(s, o, c, WithIt(l, p, b))
    BY <1>1, <1>3, <1>5, SetDelta
  <1> QED  BY <1>1, <1>2, <1>4, <1>6 DEF Folded

(* It leaves every barrier sound.                                           *)
LEMMA FoldSound ==
    ASSUME Queues, Types, Data, NEW l, NEW p, NEW n, NEW s, NEW o, NEW c, NEW b,
           Folded(l, p, s, o, c, b), Arrived(l, p, n, s, o, c),
           UNCHANGED <<started, seen>>
    PROVE  Barriers'
  <1>1. /\ b.arrived + 1 < Cardinality(Children(s))
        /\ BarrierSet(s, o, c, WithIt(l, p, b))
    BY DEF Folded
  <1>2. /\ s \in Switch /\ o \in Op /\ c \in AllChunks /\ b \in BarrierRec
        /\ n \in Children(s) /\ l = UpOf(n) /\ l \notin b.charges /\ SoundAt(s, o, c)
        /\ p = Contribution(n, o, c) /\ b = barrier[s][o][c]
    BY DEF Arrived, Folded
  <1> DEFINE C == b.charges \cup {l}
             b2 == WithIt(l, p, b)
  <1>3. b.charges \subseteq {UpOf(m) : m \in Children(s)} /\ b.arrived = Cardinality(b.charges)
        /\ b.of = UNION {Below[m] : m \in InOf(b)}
    BY <1>2 DEF SoundAt
  <1>4. C \subseteq {UpOf(m) : m \in Children(s)}
    BY <1>2, <1>3
  <1>5. Cardinality(C) = b.arrived + 1 /\ b.arrived \in Nat
    <2>1. IsFiniteSet(b.charges)
      BY <1>2, <1>3, InCount
    <2>2. b.arrived \in Nat
      BY <1>2 DEF BarrierRec
    <2>3. Cardinality(b.charges \cup {l}) = Cardinality(b.charges) + 1
      BY <2>1, <1>2, FS_AddElement
    <2> QED  BY <2>2, <2>3, <1>3
  <1>6. b2.arrived = b.arrived + 1 /\ b2.charges = C /\ b2.of = b.of \cup p.of
    BY DEF WithIt
  <1>7. InOf(b2) = InOf(b) \cup {n}
    <2>1. l[1] = n
      BY <1>2 DEF UpOf
    <2> QED  BY <2>1, <1>6 DEF InOf
  <1>8. InOf(b2) # Children(s)
    <2>1. Cardinality(C) = Cardinality({k[1] : k \in C})
      BY <1>2, <1>4, InCount
    <2>2. Cardinality({k[1] : k \in C}) # Cardinality(Children(s))
      <3>1. IsFiniteSet(Children(s)) /\ Cardinality(Children(s)) \in Nat
        BY <1>2, NodeFinite, FS_CardinalityType DEF Node
      <3> QED  BY <2>1, <3>1, <1>1, <1>5
    <2> QED  BY <2>2, <1>6 DEF InOf
  <1>9. p.of = Below[n]
    BY <1>2 DEF Contribution
  <1>10. b2.of = UNION {Below[m] : m \in InOf(b2)}
    BY <1>3, <1>6, <1>7, <1>9
  <1> HIDE DEF b2, C
  <1>11. SoundAt(s, o, c)'
    <2>1. barrier'[s][o][c] = b2
      BY <1>1 DEF BarrierSet, b2
    <2>2. InOf(b2)' = InOf(b2)
      BY DEF InOf, b2, WithIt
    <2> QED  BY <2>1, <1>4, <1>5, <1>6, <1>8, <1>10 DEF SoundAt, InOf
  <1> SUFFICES ASSUME NEW r \in Switch, NEW q \in Op, NEW d \in AllChunks PROVE SoundAt(r, q, d)'
    BY DEF Barriers
  <1>12. CASE r = s /\ q = o /\ d = c
    BY <1>11, <1>12
  <1>13. CASE ~(r = s /\ q = o /\ d = c)
    <2>1. barrier'[r][q][d] = barrier[r][q][d]
      BY <1>1, <1>13 DEF BarrierSet
    <2>2. SoundAt(r, q, d)
      BY DEF Data, Barriers
    <2> QED  BY <2>1, <2>2 DEF SoundAt
  <1> QED  BY <1>12, <1>13

(* A contribution that was moving waits: Data is kept.                      *)
LEMMA FoldStep ==
    ASSUME Queues, Types, Data, NEW l, NEW p, NEW n, NEW s, NEW o, NEW c, NEW b,
           Folded(l, p, s, o, c, b), Arrived(l, p, n, s, o, c),
           UNCHANGED <<started, seen>>
    PROVE  Data'
  <1>1. /\ InTransit(l)' = InTransit(l) \ {p}
        /\ \A k \in Link \ {l} : InTransit(k)' = InTransit(k)
        /\ barrier'[s][o][c].charges = b.charges \cup {l}
        /\ \A r \in Switch, q \in Op, d \in AllChunks :
                r # s \/ q # o \/ d # c => barrier'[r][q][d] = barrier[r][q][d]
    BY DEF Folded, BarrierSet, WithIt
  <1>2. /\ s \in Switch /\ o \in Op /\ c \in AllChunks /\ l \in Link /\ s = Parent[n]
        /\ n \in Node \ {Apex} /\ l = UpOf(n) /\ p = Contribution(n, o, c)
        /\ Moving(n, o, c) /\ ~Waiting(n, o, c) /\ p.t = "REDUCE" /\ b = barrier[s][o][c]
    BY DEF Arrived, Contribution, Folded
  <1>3. started' = started /\ seen' = seen
    OBVIOUS
  <1>4. \A k \in Link : \A q : q # p => (q \in InTransit(k)' <=> q \in InTransit(k))
    <2> SUFFICES ASSUME NEW k \in Link, NEW q, q # p
                 PROVE  q \in InTransit(k)' <=> q \in InTransit(k)
      OBVIOUS
    <2> QED  BY <1>1
  <1>5. \A k \in Link : InTransit(k)' \subseteq InTransit(k)
    BY <1>1
  <1>6. Shaped'
    <2> SUFFICES ASSUME NEW k \in Link, NEW q \in InTransit(k)' PROVE Fits(k, q)'
      BY DEF Shaped
    <2>1. Fits(k, q)
      BY <1>5 DEF Data, Shaped
    <2> QED  BY <2>1, <1>3 DEF Fits
  <1>7. ASSUME NEW q \in Op, NEW d \in AllChunks PROVE Resulted(q, d)' <=> Resulted(q, d)
    <2>1. \A k \in Link : \A x : x.t # "REDUCE" => (x \in InTransit(k)' <=> x \in InTransit(k))
      BY <1>2, <1>4
    <2> QED  BY <2>1, <1>3 DEF Resulted
  <1>8. ASSUME NEW q \in Op, NEW d \in AllChunks, NEW m \in Node \ {Apex}
        PROVE  /\ Moving(m, q, d)' <=> Moving(m, q, d) /\ ~(m = n /\ q = o /\ d = c)
               /\ Waiting(m, q, d)' <=> Waiting(m, q, d) \/ (m = n /\ q = o /\ d = c)
               /\ At(m, q, d)' <=> At(m, q, d)
    <2>1. UpOf(m) \in Link /\ (UpOf(m) = l => m = n) /\ Parent[m] \in Switch
      BY <1>2, LinkKinds, TreeBasics DEF UpOf
    <2>2. Moving(m, q, d)' <=> Moving(m, q, d) /\ ~(m = n /\ q = o /\ d = c)
      <3>1. CASE m = n /\ q = o /\ d = c
        BY <3>1, <1>1, <1>2 DEF Moving
      <3>2. CASE m # n
        BY <3>2, <2>1, <1>1 DEF Moving
      <3>3. CASE m = n /\ ~(q = o /\ d = c)
        <4>1. Contribution(m, q, d) # p
          BY <3>3, <1>2 DEF Contribution
        <4> QED  BY <4>1, <3>3, <2>1, <1>4 DEF Moving
      <3> QED  BY <3>1, <3>2, <3>3
    <2>3. Waiting(m, q, d)' <=> Waiting(m, q, d) \/ (m = n /\ q = o /\ d = c)
      <3>1. CASE Parent[m] = s /\ q = o /\ d = c
        BY <3>1, <2>1, <1>1, <1>2 DEF Waiting
      <3>2. CASE ~(Parent[m] = s /\ q = o /\ d = c)
        <4>1. barrier'[Parent[m]][q][d] = barrier[Parent[m]][q][d]
          BY <3>2, <2>1, <1>1
        <4> QED  BY <4>1, <3>2, <1>2 DEF Waiting
      <3> QED  BY <3>1, <3>2
    <2>4. At(m, q, d)' <=> Moving(m, q, d)' \/ Waiting(m, q, d)'
      BY DEF At
    <2> QED  BY <2>2, <2>3, <2>4, <1>2 DEF At
  <1>9. Contributions'
    <2> SUFFICES ASSUME NEW q \in Op, NEW d \in AllChunks PROVE OneContribution(q, d)'
      BY DEF Contributions
    <2>1. OneContribution(q, d)
      BY DEF Data, Contributions
    <2>2. \A m \in Node \ {Apex} : ~(Moving(m, q, d)' /\ Waiting(m, q, d)')
      <3> SUFFICES ASSUME NEW m \in Node \ {Apex} PROVE ~(Moving(m, q, d)' /\ Waiting(m, q, d)')
        OBVIOUS
      <3>1. ~(Moving(m, q, d) /\ Waiting(m, q, d))
        BY <2>1 DEF OneContribution
      <3> QED  BY <3>1, <1>8
    <2>3. \A m \in Node \ {Apex} : At(m, q, d)' <=> At(m, q, d)
      BY <1>8
    <2> HIDE DEF OneContribution
    <2> QED  BY <2>1, <2>2, <2>3, <1>3, <1>7 DEF OneContribution
  <1>10. Barriers'
    BY FoldSound
  <1>11. Results'
    <2>1. ASSUME NEW k \in Link, NEW q \in InTransit(k)' PROVE Lone(k, q)'
      <3>1. Lone(k, q)
        BY <2>1, <1>5 DEF Data, Results
      <3> QED  BY <3>1, <1>3, <1>5 DEF Lone
    <2> QED  BY <2>1, <1>3 DEF Data, Results
  <1> QED  BY <1>6, <1>9, <1>10, <1>11 DEF Data

(* A fold keeps Data.                                                       *)
LEMMA FoldData ==
    ASSUME Queues, Types, Data, NEW l \in Ingress, Fold(l)
    PROVE  Data'
  <1> SUFFICES ASSUME NEW p, p = Head(wire[l]),
           NEW n, n = l[1], NEW s, s = l[2], NEW o, o = p.op, NEW c, c = p.c,
           NEW b, b = barrier[s][o][c]
               PROVE  Data'
    OBVIOUS
  <1>1. Folded(l, p, s, o, c, b) /\ Arrived(l, p, n, s, o, c)
    BY FoldDelta
  <1>2. UNCHANGED <<started, seen>>
    BY DEF Fold, sinks
  <1> QED  BY <1>1, <1>2, FoldStep

(* The members below a switch are those below its children.                 *)
LEMMA BelowSwitch ==
    ASSUME NEW s \in Switch
    PROVE  Below[s] = UNION {Below[m] : m \in Children(s)}
  <1>1. s \in Node /\ s \notin Member /\ \A m \in Children(s) : m \in Node
    BY TreeBasics, TreeAssumption DEF Node
  <1>2. Below[s] = Desc(s) \cap Member /\ \A m \in Children(s) : Below[m] = Desc(m) \cap Member
    BY <1>1, BelowIs
  <1>3. ASSUME NEW m \in Children(s) PROVE Desc(m) \subseteq Desc(s)
    <2>1. m \in Desc(s)
      BY <1>1, DescBasics
    <2> QED  BY <2>1, <1>1, DescSub
  <1>4. ASSUME NEW x \in Below[s] PROVE \E m \in Children(s) : x \in Below[m]
    <2>1. x \in Desc(s) /\ x # s /\ x \in Member
      BY <1>1, <1>2
    <2>2. PICK m \in Children(s) : x \in Desc(m)
      BY <1>1, <2>1, DescSplit
    <2> QED  BY <2>1, <2>2, <1>2
  <1> QED  BY <1>2, <1>3, <1>4

(* The barrier of switch s is complete with the arrival from n: every child *)
(* of s has come, none of them twice, and with them all of its subtree.     *)
Full(s, o, c, n, b) ==
    /\ b.charges \cup {UpOf(n)} = {UpOf(m) : m \in Children(s)}
    /\ b.of \cup Below[n] = Below[s]
    /\ Below[s] \subseteq started[o]
    /\ \A m \in Children(s) : m # n => Waiting(m, o, c) /\ ~Moving(m, o, c)
    /\ \A m \in Node \ {Apex} :
         At(m, o, c) => m \in Children(s) \/ Desc(m) \cap Desc(s) = {}
    /\ s # Apex => ~At(s, o, c)

(* A barrier that one arrival completes is full with it.                    *)
LEMMA FullFacts ==
    ASSUME NEW l, NEW p, NEW n, NEW s, NEW o, NEW c, NEW b,
           Arrived(l, p, n, s, o, c), b = barrier[s][o][c],
           b.arrived + 1 = Cardinality(Children(s))
    PROVE  Full(s, o, c, n, b)
  <1>1. /\ s \in Switch /\ o \in Op /\ c \in AllChunks /\ b \in BarrierRec
        /\ n \in Children(s) /\ n \in Node \ {Apex} /\ l = UpOf(n) /\ l \notin b.charges
        /\ SoundAt(s, o, c) /\ OneContribution(o, c)
        /\ Moving(n, o, c) /\ s \in Node
    BY DEF Arrived, Node
  <1> DEFINE C == b.charges \cup {l}
  <1>2. b.charges \subseteq {UpOf(m) : m \in Children(s)} /\ b.arrived = Cardinality(b.charges)
        /\ b.of = UNION {Below[m] : m \in InOf(b)}
    BY <1>1 DEF SoundAt
  <1>3. C \subseteq {UpOf(m) : m \in Children(s)}
    BY <1>1, <1>2
  <1>4. Cardinality(C) = Cardinality(Children(s))
    <2>1. IsFiniteSet(b.charges)
      BY <1>1, <1>2, InCount
    <2>2. Cardinality(b.charges \cup {l}) = Cardinality(b.charges) + 1
      BY <2>1, <1>1, FS_AddElement
    <2> QED  BY <2>2, <1>2
  <1>5. {k[1] : k \in C} = Children(s) /\ C = {UpOf(m) : m \in Children(s)}
    <2> HIDE DEF C
    <2> QED  BY <1>1, <1>3, <1>4, InCount
  <1>6. InOf(b) \cup {n} = Children(s)
    <2>1. l[1] = n
      BY <1>1 DEF UpOf
    <2> QED  BY <2>1, <1>5 DEF InOf
  <1>7. b.of \cup Below[n] = Below[s]
    <2>1. Below[s] = UNION {Below[m] : m \in InOf(b) \cup {n}}
      BY <1>1, <1>6, BelowSwitch
    <2> QED  BY <2>1, <1>2
  <1>8. ASSUME NEW m \in Children(s)
        PROVE  /\ m \in Node \ {Apex} /\ Parent[m] = s /\ At(m, o, c)
               /\ m # n => Waiting(m, o, c) /\ ~Moving(m, o, c)
    <2>1. m \in Node \ {Apex} /\ Parent[m] = s
      BY <1>1, TreeBasics
    <2>2. m # n => UpOf(m) \in b.charges
      <3>1. UpOf(m) \in C
        BY <1>5
      <3> QED  BY <3>1, <1>1 DEF UpOf
    <2>3. m # n => Waiting(m, o, c)
      BY <2>1, <2>2 DEF Waiting
    <2>4. ~(Moving(m, o, c) /\ Waiting(m, o, c))
      BY <2>1, <1>1 DEF OneContribution
    <2> QED  BY <2>1, <2>3, <2>4, <1>1 DEF At
  <1>9. Below[s] \subseteq started[o]
    <2>1. \A m \in Children(s) : Below[m] \subseteq started[o]
      BY <1>1, <1>8 DEF OneContribution
    <2> QED  BY <2>1, <1>1, BelowSwitch
  <1>10. ASSUME NEW m \in Node \ {Apex}, At(m, o, c), m \notin Children(s)
         PROVE  Desc(m) \cap Desc(s) = {}
    <2>0. \A k \in Children(s) : Desc(k) \cap Desc(m) = {}
      BY <1>1, <1>8, <1>10 DEF OneContribution
    <2>1. n \in Desc(n)
      BY <1>1, DescBasics
    <2>2. s \notin Desc(m)
      <3>1. s \in Desc(m) => n \in Desc(m)
        BY <1>1, DescBasics
      <3> QED  BY <3>1, <2>0, <2>1, <1>1
    <2>3. ASSUME NEW x \in Desc(s), x # s PROVE x \notin Desc(m)
      <3>1. PICK k \in Children(s) : x \in Desc(k)
        BY <1>1, <2>3, DescSplit
      <3> QED  BY <3>1, <2>0
    <2> QED  BY <2>2, <2>3
  <1>11. s # Apex => ~At(s, o, c)
    <2> SUFFICES ASSUME s # Apex, At(s, o, c) PROVE FALSE
      OBVIOUS
    <2>1. s \in Desc(s)
      BY <1>1, DescBasics
    <2>2. s \in Children(s)
      BY <2>1, <1>1, <1>10
    <2>3. Parent[s] = s
      BY <2>2, <1>1, TreeBasics
    <2> QED  BY <2>1, <2>3, <1>1, NoCycle
  <1> QED  BY <1>1, <1>5, <1>7, <1>8, <1>9, <1>10, <1>11 DEF Full

(* The packet q of a complete barrier and the ports T it leaves by. *)
Sent(s, o, c, q, T) ==
    /\ q \in Packet /\ q.op = o /\ q.c = c /\ q.of = Below[s]
    /\ T \in SUBSET Neighbours(s) /\ T # {} /\ IsFiniteSet(T)
    /\ \A b \in T : Fits(<<s, b>>, q) /\ q \notin InTransit(<<s, b>>)
    /\ s # Apex => q = Contribution(s, o, c) /\ T = {Parent[s]}
    /\ s = Apex => q.t # "REDUCE" /\ q.of = Member /\ T \subseteq Children(s)

(* What a combined packet says.                                             *)
LEMMA ResultIs ==
    ASSUME NEW s \in Switch, NEW p \in Packet, NEW f \in SUBSET Member,
           NEW q, q = Result(s, p, f)
    PROVE  /\ q \in Packet /\ q.op = p.op /\ q.c = p.c /\ q.of = f
           /\ s # Apex => q.t = "REDUCE"
           /\ s = Apex => q.t = IF Kind[p.op] = "allreduce" THEN "MCAST" ELSE "DOWN"
  <1>1. q = [t |-> IF s # Apex THEN "REDUCE"
                   ELSE IF Kind[p.op] = "allreduce" THEN "MCAST" ELSE "DOWN",
             op |-> p.op, c |-> p.c, of |-> f]
    BY DEF Result, Packet
  <1>2. p.op \in Op /\ p.c \in Nat
    BY PacketShape
  <1>3. q.t \in {"REDUCE", "DOWN", "MCAST"}
    BY <1>1
  <1>4. q.op = p.op /\ q.c = p.c /\ q.of = f
    BY <1>1
  <1>5. q \in Packet
    BY <1>1, <1>2, <1>3 DEF Packet
  <1> QED  BY <1>1, <1>4, <1>5

(* A switch other than the apex sends its contribution to its parent.       *)
LEMMA SentUp ==
    ASSUME NEW s \in Switch, s # Apex, NEW o \in Op, NEW c \in Chunks(o),
           Kind[o] \in Reducing, ~At(s, o, c),
           NEW q \in Packet, q.op = o, q.c = c, q.of = Below[s], q.t = "REDUCE",
           NEW T, T = {Parent[s]}
    PROVE  Sent(s, o, c, q, T)
  <1>1. s \in Node \ {Apex} /\ s \in Node
    BY TreeBasics DEF Node
  <1>2. Contribution(s, o, c) \in Packet
    <2>1. Below[s] \in SUBSET Member
      BY <1>1, BelowIs
    <2> QED  BY <2>1, ChunkIn DEF Contribution, Packet
  <1>3. q = Contribution(s, o, c)
    BY <1>2, PacketIs DEF Contribution
  <1>4. UpOf(s) = <<s, Parent[s]>> /\ UpOf(s) \in UpLink
    BY <1>1, LinkKinds DEF UpOf
  <1>5. q \notin InTransit(<<s, Parent[s]>>)
    BY <1>3, <1>4 DEF At, Moving
  <1>6. Fits(<<s, Parent[s]>>, q)
    BY <1>4 DEF Fits, UpOf
  <1>7. Parent[s] \in Neighbours(s)
    BY DEF Neighbours
  <1>8. IsFiniteSet(T)
    BY FS_Singleton
  <1> QED  BY <1>3, <1>5, <1>6, <1>7, <1>8 DEF Sent

(* The apex sends the result to those it is for.                            *)
LEMMA SentDown ==
    ASSUME NEW s \in Switch, s = Apex, NEW o \in Op, NEW c \in Chunks(o),
           Kind[o] \in Reducing, ~Resulted(o, c),
           NEW q \in Packet, q.op = o, q.c = c, q.of = Below[s],
           q.t = IF Kind[o] = "allreduce" THEN "MCAST" ELSE "DOWN",
           NEW T, T = IF Kind[o] = "allreduce" THEN Neighbours(s)
                      ELSE NextHop(s, ReduceRoot(o, c))
    PROVE  Sent(s, o, c, q, T)
  <1>1. /\ s \in Node /\ Neighbours(s) = Children(s)
        /\ Desc(s) = Node /\ Below[s] = Member
    <2>1. s \in Node /\ Neighbours(s) = Children(s)
      BY DEF Neighbours, Node
    <2>2. Desc(s) = Node
      BY DescApex
    <2>3. Below[s] = Desc(s) \cap Member
      BY <2>1, BelowIs
    <2> QED  BY <2>1, <2>2, <2>3 DEF Node
  <1>2. ASSUME NEW b \in Neighbours(s)
        PROVE  <<s, b>> \in Link /\ <<s, b>> \in DownLink /\ q \notin InTransit(<<s, b>>)
    <2>1. <<s, b>> \in Link /\ <<s, b>> \in DownLink
      <3>1. \A x \in Neighbours(s) :
              <<s, x>> \in Link /\ ((x \in Children(s)) <=> (<<s, x>> \in DownLink))
        BY NeighbourLinks
      <3> QED  BY <3>1, <1>1, <1>2
    <2>2. q.t # "REDUCE"
      OBVIOUS
    <2> QED  BY <2>1, <2>2 DEF Resulted
  <1>3. /\ T \subseteq Children(s) /\ T # {} /\ IsFiniteSet(T)
        /\ \A b \in T : Kind[o] # "allreduce" => ReduceRoot(o, c) \in Desc(b)
    <2>1. CASE Kind[o] = "allreduce"
      BY <2>1, <1>1, ChildOfSwitch, NodeFinite
    <2>2. CASE Kind[o] # "allreduce"
      <3>1. ReduceRoot(o, c) \in Member
        BY <2>2, RootIsReceiver DEF Reducing
      <3>2. ReduceRoot(o, c) \in Desc(s)
        BY <3>1, <1>1 DEF Node
      <3>3. PICK b \in Children(s) : T = {b} /\ ReduceRoot(o, c) \in Desc(b)
        BY <3>1, <3>2, <2>2, NextHopIs
      <3> QED  BY <3>3, FS_Singleton
    <2> QED  BY <2>1, <2>2
  <1>4. ASSUME NEW b \in T PROVE Fits(<<s, b>>, q)
    <2>1. <<s, b>> \in DownLink /\ <<s, b>>[2] = b
      BY <1>1, <1>2, <1>3
    <2>2. CASE Kind[o] = "allreduce"
      BY <2>1, <2>2, <1>1 DEF Fits
    <2>3. CASE Kind[o] # "allreduce"
      <3>1. q.t = "DOWN" /\ Kind[o] \in {"reduce", "reduce_scatter"}
        BY <2>3 DEF Reducing
      <3>2. ReduceRoot(o, c) \in Desc(b)
        BY <2>3, <1>3
      <3> QED  BY <3>1, <3>2, <2>1, <1>1 DEF Fits
    <2> QED  BY <2>2, <2>3
  <1>5. q.t # "REDUCE"
    OBVIOUS
  <1>6. \A b \in T : q \notin InTransit(<<s, b>>)
    BY <1>1, <1>2, <1>3
  <1> QED  BY <1>1, <1>3, <1>4, <1>5, <1>6 DEF Sent

(* One of the two is what a complete barrier sends.                         *)
LEMMA ResultSent ==
    ASSUME NEW l, NEW p, NEW n, NEW s, NEW o, NEW c, NEW b,
           Arrived(l, p, n, s, o, c), Full(s, o, c, n, b),
           NEW q, q = Result(s, p, Below[s]), NEW T, T = ResultPorts(s, p)
    PROVE  Sent(s, o, c, q, T)
  <1>1. /\ s \in Switch /\ s \in Node /\ o \in Op /\ c \in Chunks(o) /\ Kind[o] \in Reducing
        /\ ~Resulted(o, c) /\ p \in Packet /\ p.op = o /\ p.c = c
    BY DEF Arrived, Contribution, Node
  <1>2. Below[s] \in SUBSET Member
    BY <1>1, BelowIs
  <1>3. /\ q \in Packet /\ q.op = o /\ q.c = c /\ q.of = Below[s]
        /\ s # Apex => q.t = "REDUCE"
        /\ s = Apex => q.t = IF Kind[o] = "allreduce" THEN "MCAST" ELSE "DOWN"
    BY <1>1, <1>2, ResultIs
  <1>4. s # Apex => ~At(s, o, c)
    BY DEF Full
  <1>5. CASE s # Apex
    <2>1. T = {Parent[s]}
      BY <1>5 DEF ResultPorts
    <2> QED  BY <2>1, <1>1, <1>3, <1>4, <1>5, SentUp
  <1>6. CASE s = Apex
    <2>1. T = IF Kind[o] = "allreduce" THEN Neighbours(s) ELSE NextHop(s, ReduceRoot(o, c))
      BY <1>1, <1>6 DEF ResultPorts
    <2> QED  BY <2>1, <1>1, <1>3, <1>6, SentDown
  <1> QED  BY <1>5, <1>6

(* The last arrival p on link l, and q goes out to T in its place.          *)
Combined(l, p, n, s, o, c, b, q, T) ==
    /\ Arrived(l, p, n, s, o, c)
    /\ b = barrier[s][o][c] /\ Full(s, o, c, n, b)
    /\ Sent(s, o, c, q, T)
    /\ wire[l] # <<>> /\ p = Head(wire[l]) /\ Forwarded(l, s, q, T)
    /\ BarrierSet(s, o, c, NoBarrier)

(* What Arrived says in short.                                              *)
LEMMA ArrivedOf ==
    ASSUME NEW l, NEW p, NEW n, NEW s, NEW o, NEW c, Arrived(l, p, n, s, o, c)
    PROVE  s \in Switch /\ o \in Op /\ c \in AllChunks /\ p.of = Below[n]
  BY DEF Arrived, Contribution

(* The empty barrier has the type.                                          *)
LEMMA NoBarrierType == NoBarrier \in BarrierRec
  BY DEF NoBarrier, BarrierRec

(* A combine does that.                                                     *)
LEMMA CombineDelta ==
    ASSUME Queues, Types, Data, NEW l \in Ingress, NEW p, p = Head(wire[l]),
           NEW n, n = l[1], NEW s, s = l[2], NEW o, o = p.op, NEW c, c = p.c,
           NEW b, b = barrier[s][o][c],
           NEW q, q = Result(s, p, Below[s]), NEW T, T = ResultPorts(s, p), Combine(l)
    PROVE  Combined(l, p, n, s, o, c, b, q, T)
  <1>1. /\ wire[l] # <<>> /\ p.t = "REDUCE" /\ wire' = Drained(l)
        /\ b.arrived + 1 = Cardinality(Children(s))
        /\ SetBarrier(s, o, c, NoBarrier)
        /\ out' = Copied(s, Result(s, p, b.of \cup p.of), T)
    BY DEF Combine, Accept, Drained, WithArrival, Awaited, Forward, Copied
  <1>2. Arrived(l, p, n, s, o, c)
    BY <1>1, ArrivalFacts
  <1>3. s \in Switch /\ o \in Op /\ c \in AllChunks /\ p.of = Below[n]
    BY <1>2, ArrivedOf
  <1>4. Full(s, o, c, n, b)
    BY <1>1, <1>2, FullFacts
  <1>5. b.of \cup p.of = Below[s]
    BY <1>3, <1>4 DEF Full
  <1>6. out' = Copied(s, q, T)
    BY <1>1, <1>5
  <1>7. Sent(s, o, c, q, T)
    BY <1>2, <1>4, ResultSent
  <1>8. q \in Packet /\ T \in SUBSET Neighbours(s) /\ \A d \in T : q \notin InTransit(<<s, d>>)
    BY <1>7 DEF Sent
  <1>9. Forwarded(l, s, q, T)
    BY <1>1, <1>6, <1>8, ForwardDelta
  <1>10. BarrierSet(s, o, c, NoBarrier)
    BY <1>1, <1>3, NoBarrierType, SetDelta
  <1> QED  BY <1>1, <1>2, <1>4, <1>7, <1>9, <1>10 DEF Combined

(* It leaves every barrier sound.                                           *)
LEMMA CombineSound ==
    ASSUME Data, NEW l, NEW p, NEW n, NEW s, NEW o, NEW c, NEW b, NEW q, NEW T,
           Combined(l, p, n, s, o, c, b, q, T)
    PROVE  Barriers'
  <1>1. BarrierSet(s, o, c, NoBarrier) /\ s \in Switch
    BY DEF Combined, Arrived
  <1>2. SoundAt(s, o, c)'
    <2>1. barrier'[s][o][c] = NoBarrier
      BY <1>1 DEF BarrierSet
    <2>2. NoBarrier.charges = {} /\ NoBarrier.arrived = 0 /\ NoBarrier.of = {}
      BY DEF NoBarrier
    <2>3. InOf(NoBarrier) = {}
      BY <2>2 DEF InOf
    <2>4. Cardinality({}) = 0 /\ Children(s) # {} /\ UNION {Below[m] : m \in {}} = {}
      BY <1>1, FS_EmptySet, ChildOfSwitch
    <2>5. UNION {Below[m] : m \in InOf(NoBarrier)} = {}
      BY <2>3
    <2> QED  BY <2>1, <2>2, <2>3, <2>4, <2>5 DEF SoundAt
  <1> SUFFICES ASSUME NEW r \in Switch, NEW x \in Op, NEW d \in AllChunks PROVE SoundAt(r, x, d)'
    BY DEF Barriers
  <1>3. CASE r = s /\ x = o /\ d = c
    BY <1>2, <1>3
  <1>4. CASE ~(r = s /\ x = o /\ d = c)
    <2>1. barrier'[r][x][d] = barrier[r][x][d]
      BY <1>1, <1>4 DEF BarrierSet
    <2>2. SoundAt(r, x, d)
      BY DEF Data, Barriers
    <2> QED  BY <2>1, <2>2 DEF SoundAt
  <1> QED  BY <1>3, <1>4

(* The contribution that a complete barrier sends up takes the place of the *)
(* ones it has folded.                                                      *)
LEMMA CombineAt ==
    ASSUME Data, NEW l, NEW p, NEW n, NEW s, NEW o, NEW c, NEW b, NEW q, NEW T,
           Combined(l, p, n, s, o, c, b, q, T),
           NEW x \in Op, NEW d \in AllChunks, NEW m \in Node \ {Apex}
    PROVE  /\ x # o \/ d # c => /\ Moving(m, x, d)' <=> Moving(m, x, d)
                                /\ Waiting(m, x, d)' <=> Waiting(m, x, d)
           /\ x = o /\ d = c /\ m = s => Moving(m, x, d)' /\ ~Waiting(m, x, d)'
           /\ x = o /\ d = c /\ m \in Children(s) => ~At(m, x, d)'
           /\ x = o /\ d = c /\ m # s /\ m \notin Children(s) =>
                /\ Moving(m, x, d)' <=> Moving(m, x, d)
                /\ Waiting(m, x, d)' <=> Waiting(m, x, d)
  <1>1. /\ s \in Switch /\ s \in Node /\ o \in Op /\ c \in AllChunks
        /\ n \in Children(s) /\ n \in Node \ {Apex}
        /\ l = UpOf(n) /\ l \in Link /\ p = Contribution(n, o, c)
        /\ T \in SUBSET Neighbours(s)
        /\ s # Apex => q = Contribution(s, o, c) /\ T = {Parent[s]} /\ ~At(s, o, c)
        /\ s = Apex => T \subseteq Children(s)
        /\ \A k \in Children(s) : k # n => ~Moving(k, o, c)
    BY DEF Combined, Arrived, Sent, Full, Node
  <1>2. /\ InTransit(l)' = InTransit(l) \ {p}
        /\ \A k \in Link : k[1] = s /\ k[2] \in T =>
             InTransit(k)' = InTransit(k) \cup {q}
        /\ \A k \in Link : k # l /\ ~(k[1] = s /\ k[2] \in T) =>
             InTransit(k)' = InTransit(k)
    BY DEF Combined, Forwarded
  <1>3. /\ barrier'[s][o][c].charges = {}
        /\ \A r \in Switch, y \in Op, e \in AllChunks :
             r # s \/ y # o \/ e # c => barrier'[r][y][e] = barrier[r][y][e]
    BY DEF Combined, BarrierSet, NoBarrier
  <1>4. /\ UpOf(m) \in Link /\ UpOf(m)[1] = m /\ UpOf(m)[2] = Parent[m]
        /\ UpOf(m) = l <=> m = n
        /\ Parent[m] \in Switch /\ (m \in Children(s) <=> Parent[m] = s)
        /\ n # s /\ s \notin Children(s)
    <2>1. /\ UpOf(m) \in Link /\ UpOf(m)[1] = m /\ UpOf(m)[2] = Parent[m]
          /\ Parent[m] \in Switch
          /\ \A k \in Node : Children(k) = {j \in Node \ {Apex} : Parent[j] = k}
      BY LinkKinds, TreeBasics DEF UpOf
    <2>2. UpOf(m) = l <=> m = n
      BY <1>1, <2>1 DEF UpOf
    <2>3. s \notin Children(s)
      <3>1. s \in Node \ {Apex} => Parent[s] # s
        BY <1>1, NoCycle, DescBasics
      <3> QED  BY <3>1, <2>1, <1>1
    <2> QED  BY <2>1, <2>2, <2>3, <1>1
  <1>5. ~(l[1] = s /\ l[2] \in T)
    BY <1>1, <1>4 DEF UpOf
  <1>6. m # s => ~(UpOf(m)[1] = s /\ UpOf(m)[2] \in T)
    BY <1>4
  <1>7. m # s /\ m # n => (Moving(m, x, d)' <=> Moving(m, x, d))
    BY <1>2, <1>4, <1>6 DEF Moving
  <1>8. m = n => (Moving(m, x, d)' <=> Moving(m, x, d) /\ ~(x = o /\ d = c))
    <2> SUFFICES ASSUME m = n PROVE Moving(m, x, d)' <=> Moving(m, x, d) /\ ~(x = o /\ d = c)
      OBVIOUS
    <2>1. Contribution(m, x, d) = p <=> x = o /\ d = c
      BY <1>1 DEF Contribution
    <2> QED  BY <2>1, <1>2, <1>4 DEF Moving
  <1>9. m = s => (Moving(m, x, d)' <=> Moving(m, x, d) \/ (x = o /\ d = c))
    <2> SUFFICES ASSUME m = s PROVE Moving(m, x, d)' <=> Moving(m, x, d) \/ (x = o /\ d = c)
      OBVIOUS
    <2>1. s # Apex
      OBVIOUS
    <2>2. Contribution(m, x, d) = q <=> x = o /\ d = c
      BY <1>1, <2>1 DEF Contribution
    <2>3. UpOf(m)[1] = s /\ UpOf(m)[2] \in T
      BY <1>1, <1>4, <2>1
    <2>4. InTransit(UpOf(m))' = InTransit(UpOf(m)) \cup {q}
      BY <2>3, <1>2, <1>4
    <2> QED  BY <2>2, <2>4 DEF Moving
  <1>10. x # o \/ d # c \/ m \notin Children(s) => (Waiting(m, x, d)' <=> Waiting(m, x, d))
    BY <1>3, <1>4 DEF Waiting
  <1>11. x = o /\ d = c /\ m \in Children(s) => ~Waiting(m, x, d)'
    BY <1>3, <1>4 DEF Waiting
  <1>12. x # o \/ d # c => (Moving(m, x, d)' <=> Moving(m, x, d))
    BY <1>7, <1>8, <1>9
  <1>13. x = o /\ d = c /\ m = s => Moving(m, x, d)' /\ ~Waiting(m, x, d)'
    BY <1>1, <1>4, <1>9, <1>10 DEF At
  <1>14. x = o /\ d = c /\ m \in Children(s) => ~At(m, x, d)'
    BY <1>1, <1>4, <1>7, <1>8, <1>11 DEF At
  <1>15. x = o /\ d = c /\ m # s /\ m \notin Children(s) => (Moving(m, x, d)' <=> Moving(m, x, d))
    BY <1>1, <1>7
  <1> QED  BY <1>10, <1>12, <1>13, <1>14, <1>15

(* One contribution, or the result, takes the place of those of all         *)
(* children: Data is kept.                                                  *)
LEMMA CombineStep ==
    ASSUME Types, Data, NEW l, NEW p, NEW n, NEW s, NEW o, NEW c, NEW b, NEW q, NEW T,
           Combined(l, p, n, s, o, c, b, q, T), UNCHANGED <<started, seen>>
    PROVE  Data'
  <1>1. /\ s \in Switch /\ s \in Node /\ o \in Op /\ c \in AllChunks /\ c \in Chunks(o)
        /\ Kind[o] \in Reducing /\ ~Resulted(o, c) /\ OneContribution(o, c)
        /\ l \in Link /\ p.t = "REDUCE"
        /\ \A m \in Node \ {Apex} :
             At(m, o, c) => m \in Children(s) \/ Desc(m) \cap Desc(s) = {}
        /\ Below[s] \subseteq started[o]
    BY DEF Combined, Arrived, Full, Node, Contribution
  <1>2. /\ q.op = o /\ q.c = c /\ q.of = Below[s]
        /\ T \in SUBSET Neighbours(s) /\ T # {}
        /\ \A a \in T : Fits(<<s, a>>, q)
        /\ s # Apex => q.t = "REDUCE"
        /\ s = Apex => q.t # "REDUCE" /\ q.of = Member /\ T \subseteq Children(s)
    BY DEF Combined, Sent, Contribution
  <1>3. /\ InTransit(l)' = InTransit(l) \ {p}
        /\ \A k \in Link : k[1] = s /\ k[2] \in T =>
             InTransit(k)' = InTransit(k) \cup {q}
        /\ \A k \in Link : k # l /\ ~(k[1] = s /\ k[2] \in T) =>
             InTransit(k)' = InTransit(k)
    BY DEF Combined, Forwarded
  <1>4. \A k \in Link : \A x : x \in InTransit(k)' =>
          x \in InTransit(k) \/ (x = q /\ k[1] = s /\ k[2] \in T)
    <2> SUFFICES ASSUME NEW k \in Link, NEW x, x \in InTransit(k)', x \notin InTransit(k)
                 PROVE  x = q /\ k[1] = s /\ k[2] \in T
      OBVIOUS
    <2> QED  BY <1>3
  <1>5. \A k \in Link : \A x : x \in InTransit(k) /\ x.t # "REDUCE" => x \in InTransit(k)'
    <2> SUFFICES ASSUME NEW k \in Link, NEW x, x \in InTransit(k), x.t # "REDUCE"
                 PROVE  x \in InTransit(k)'
      OBVIOUS
    <2>1. x # p
      BY <1>1
    <2> QED  BY <2>1, <1>3
  <1>6. \A k \in Link : k[1] = s /\ k[2] \in T => k = <<s, k[2]>>
    BY LinkShape
  <1>7. Shaped'
    <2> SUFFICES ASSUME NEW k \in Link, NEW x \in InTransit(k)' PROVE Fits(k, x)'
      BY DEF Shaped
    <2>1. Fits(k, x)
      <3>1. CASE x \in InTransit(k)
        BY <3>1 DEF Data, Shaped
      <3>2. CASE x = q /\ k[1] = s /\ k[2] \in T
        BY <3>2, <1>2, <1>6
      <3> QED  BY <3>1, <3>2, <1>4
    <2> QED  BY <2>1 DEF Fits
  <1>8. ASSUME NEW x \in Op, NEW d \in AllChunks, s # Apex \/ x # o \/ d # c
        PROVE  Resulted(x, d)' => Resulted(x, d)
    <2> SUFFICES ASSUME Resulted(x, d)' PROVE Resulted(x, d)
      OBVIOUS
    <2>1. CASE \E h \in Member : \E y \in seen'[x][h] : y[1] = d
      BY <2>1 DEF Resulted
    <2>2. CASE \E k \in Link : \E y \in InTransit(k)' : y.t # "REDUCE" /\ y.op = x /\ y.c = d
      <3>1. PICK k \in Link : \E y \in InTransit(k)' : y.t # "REDUCE" /\ y.op = x /\ y.c = d
        BY <2>2
      <3>2. PICK y \in InTransit(k)' : y.t # "REDUCE" /\ y.op = x /\ y.c = d
        BY <3>1
      <3>3. y \in InTransit(k)
        BY <3>2, <1>2, <1>4, <1>8
      <3> QED  BY <3>2, <3>3 DEF Resulted
    <2> QED  BY <2>1, <2>2 DEF Resulted
  <1>9. Contributions'
    <2> SUFFICES ASSUME NEW x \in Op, NEW d \in AllChunks PROVE OneContribution(x, d)'
      BY DEF Contributions
    <2>1. OneContribution(x, d)
      BY DEF Data, Contributions
    <2>2. CASE x # o \/ d # c
      <3>1. \A m \in Node \ {Apex} : /\ Moving(m, x, d)' <=> Moving(m, x, d)
                                     /\ Waiting(m, x, d)' <=> Waiting(m, x, d)
        BY <2>2, CombineAt
      <3>2. \A m \in Node \ {Apex} : At(m, x, d)' <=> At(m, x, d)
        BY <3>1 DEF At
      <3> QED  BY <3>1, <3>2, <2>1, <2>2, <1>8 DEF OneContribution
    <2>3. CASE x = o /\ d = c
      <3>1. ASSUME NEW m \in Node \ {Apex}, At(m, o, c)'
            PROVE  /\ m # s => /\ At(m, o, c) /\ m \notin Children(s)
                               /\ Desc(m) \cap Desc(s) = {}
                   /\ Below[m] \subseteq started[o]
                   /\ ~(Moving(m, o, c)' /\ Waiting(m, o, c)')
        <4>1. m \notin Children(s)
          BY <3>1, <1>1, CombineAt
        <4>2. CASE m = s
          <5>1. Moving(m, o, c)' /\ ~Waiting(m, o, c)'
            BY <4>2, <1>1, CombineAt
          <5> QED  BY <5>1, <4>2, <1>1
        <4>3. CASE m # s
          <5>1. /\ Moving(m, o, c)' <=> Moving(m, o, c)
                /\ Waiting(m, o, c)' <=> Waiting(m, o, c)
            BY <4>1, <4>3, <1>1, CombineAt
          <5>2. At(m, o, c)
            BY <5>1, <3>1 DEF At
          <5>3. Below[m] \subseteq started[o] /\ ~(Moving(m, o, c) /\ Waiting(m, o, c))
            BY <5>2, <1>1 DEF OneContribution
          <5> QED  BY <5>1, <5>2, <5>3, <4>1, <4>3, <1>1
        <4> QED  BY <4>2, <4>3
      <3>2. ASSUME s = Apex, NEW m \in Node \ {Apex}, At(m, o, c)' PROVE FALSE
        <4>1. Desc(m) \cap Desc(s) = {}
          BY <3>1, <3>2
        <4>2. m \in Desc(m) /\ Desc(s) = Node
          BY <3>2, DescBasics, DescApex
        <4> QED  BY <4>1, <4>2
      <3>3. \A m \in Node \ {Apex} : At(m, o, c)' => ~Resulted(o, c)'
        BY <3>2, <1>1, <1>8
      <3>4. \A m, k \in Node \ {Apex} : m # k /\ At(m, o, c)' /\ At(k, o, c)' =>
              Desc(m) \cap Desc(k) = {}
        <4> SUFFICES ASSUME NEW m \in Node \ {Apex}, NEW k \in Node \ {Apex},
                            m # k, At(m, o, c)', At(k, o, c)'
                     PROVE  Desc(m) \cap Desc(k) = {}
          OBVIOUS
        <4>1. CASE m = s
          BY <4>1, <3>1
        <4>2. CASE k = s
          BY <4>2, <3>1
        <4>3. CASE m # s /\ k # s
          <5>1. At(m, o, c) /\ At(k, o, c)
            BY <4>3, <3>1
          <5> QED  BY <5>1, <1>1 DEF OneContribution
        <4> QED  BY <4>1, <4>2, <4>3
      <3>5. Resulted(o, c)' => started[o] = Member
        <4>1. s # Apex => ~Resulted(o, c)'
          BY <1>1, <1>8
        <4>2. started[o] \subseteq Member
          BY <1>1 DEF Types
        <4>3. s = Apex => Member \subseteq started[o]
          BY <1>1, <1>2
        <4> QED  BY <4>1, <4>2, <4>3
      <3>6. \A m \in Node \ {Apex} : ~(Moving(m, o, c)' /\ Waiting(m, o, c)')
        BY <3>1 DEF At
      <3>7. started' = started
        OBVIOUS
      <3>8. OneContribution(o, c)'
        BY <3>1, <3>3, <3>4, <3>5, <3>6, <3>7, <1>1 DEF OneContribution
      <3> QED  BY <3>8, <2>3
    <2> QED  BY <2>2, <2>3
  <1>10. Barriers'
    BY CombineSound
  <1>11. \A k \in Link : \A x : x \in InTransit(k) /\ x.t # "REDUCE" => x # q
    BY <1>1, <1>2 DEF Resulted
  <1>12. ASSUME NEW k \in Link, NEW x \in InTransit(k), x.t # "REDUCE" PROVE Lone(k, x)'
    <2>1. Lone(k, x)
      BY DEF Data, Results
    <2>2. \A j \in Link : x \in InTransit(j)' => x \in InTransit(j)
      BY <1>4, <1>11, <1>12
    <2> QED  BY <2>1, <2>2 DEF Lone
  <1>13. ASSUME NEW k \in Link, k[1] = s, k[2] \in T, q.t # "REDUCE" PROVE Lone(k, q)'
    <2>1. s = Apex
      BY <1>2, <1>13
    <2>2. \A h \in Side(k) \cap Member : <<q.c, q.of>> \notin seen[q.op][h]
      <3>1. \A h \in Member : \A y \in seen[o][h] : y[1] # c
        BY <1>1 DEF Resulted
      <3> QED  BY <3>1, <1>2
    <2>3. ASSUME NEW j \in Link \ {k}, q \in InTransit(j)'
          PROVE  Side(k) \cap Side(j) = {}
      <3>1. j[1] = s /\ j[2] \in T
        BY <2>3, <1>4, <1>11, <1>13
      <3>2. k = <<s, k[2]>> /\ j = <<s, j[2]>> /\ k[2] # j[2]
        BY <1>6, <1>13, <2>3, <3>1
      <3>3. k[2] \in Neighbours(s) /\ j[2] \in Neighbours(s)
        BY <1>2, <1>13, <3>1
      <3>4. \A u, v \in Neighbours(s) : u # v => Side(<<s, u>>) \cap Side(<<s, v>>) = {}
        BY <1>1, SideSplit
      <3> QED  BY <3>2, <3>3, <3>4
    <2> QED  BY <2>2, <2>3 DEF Lone
  <1>14. Results'
    <2>1. ASSUME NEW k \in Link, NEW x \in InTransit(k)' PROVE Lone(k, x)'
      <3>1. CASE x.t = "REDUCE"
        BY <3>1 DEF Lone
      <3>2. CASE x.t # "REDUCE" /\ x \in InTransit(k)
        BY <3>2, <1>12
      <3>3. CASE x.t # "REDUCE" /\ x = q /\ k[1] = s /\ k[2] \in T
        BY <3>3, <1>13
      <3> QED  BY <3>1, <3>2, <3>3, <1>4
    <2> QED  BY <2>1 DEF Data, Results
  <1> QED  BY <1>7, <1>9, <1>10, <1>14 DEF Data

(* A combine keeps Data.                                                    *)
LEMMA CombineData ==
    ASSUME Queues, Types, Data, NEW l \in Ingress, Combine(l)
    PROVE  Data'
  <1> SUFFICES ASSUME NEW p, p = Head(wire[l]),
           NEW n, n = l[1], NEW s, s = l[2], NEW o, o = p.op, NEW c, c = p.c,
           NEW b, b = barrier[s][o][c],
           NEW q, q = Result(s, p, Below[s]), NEW T, T = ResultPorts(s, p)
               PROVE  Data'
    OBVIOUS
  <1>1. Combined(l, p, n, s, o, c, b, q, T)
    BY CombineDelta
  <1>2. UNCHANGED <<started, seen>>
    BY DEF Combine, sinks
  <1> QED  BY <1>1, <1>2, CombineStep

(* A packet p at the end of the access link l of member h: it is one of the *)
(* pieces operation o owes h, and h has not had it.                         *)
Owed(l, p, h, o) ==
    /\ l \in Link /\ h \in Member /\ Side(l) = {h}
    /\ p \in Packet /\ p \in InTransit(l) /\ p.op = o /\ o \in Op /\ p.c \in Chunks(o)
    /\ p.t # "REDUCE" /\ Fits(l, p) /\ Lone(l, p) /\ Resulted(o, p.c)
    /\ h \in Receivers(o) /\ <<p.c, p.of>> \in Due(o, h)
    /\ <<p.c, p.of>> \notin seen[o][h]
    /\ p.of \subseteq started[o]

(* What belongs on an access link is owed to the member behind it.          *)
LEMMA DueFits ==
    ASSUME NEW l \in Link, NEW h \in Member, NEW p, NEW o \in Op, p.op = o,
           l \in DownLink, l[2] = h, Side(l) = {h}, Fits(l, p)
    PROVE  /\ p.t # "REDUCE"
           /\ p.t \in {"DOWN", "MCAST"} =>
                h \in Receivers(o) /\ <<p.c, p.of>> \in Due(o, h)
  <1>1. p.c \in Chunks(o)
    BY DEF Fits
  <1>2. p.t # "REDUCE"
    BY LinkShape DEF Fits
  <1>3. CASE p.t = "DOWN"
    <2>1. /\ Kind[o] \in {"reduce", "reduce_scatter"} /\ p.of = Member
          /\ ReduceRoot(o, p.c) \in Desc(h)
      BY <1>3 DEF Fits
    <2>2. ReduceRoot(o, p.c) = h
      BY <2>1, DescMember
    <2> QED  BY <2>1, <2>2, <1>1, <1>2, RootIsReceiver
  <1>4. CASE p.t = "MCAST"
    <2>1. CASE Kind[o] = "allreduce" /\ p.of = Member
      <3>1. h \in Receivers(o)
        BY <2>1 DEF Receivers
      <3>2. Due(o, h) = Chunks(o) \X {Member}
        BY <2>1 DEF Due
      <3> QED  BY <3>1, <3>2, <2>1, <1>1, <1>2
    <2>2. ASSUME NEW m \in Emitters(o) \cap started[o], p.of = {m}, m \notin Side(l),
                 Kind[o] = "bcast"
          PROVE  h \in Receivers(o) /\ <<p.c, p.of>> \in Due(o, h)
      <3>1. m = Root[o] /\ h # Root[o]
        BY <2>2 DEF Emitters
      <3>2. h \in Receivers(o)
        BY <3>1, <2>2 DEF Receivers
      <3>3. Due(o, h) = Chunks(o) \X {{Root[o]}}
        BY <3>1, <2>2 DEF Due
      <3> QED  BY <3>1, <3>2, <3>3, <2>2, <1>1
    <2>3. ASSUME NEW m \in Emitters(o) \cap started[o], p.of = {m}, m \notin Side(l),
                 Kind[o] = "allgather"
          PROVE  h \in Receivers(o) /\ <<p.c, p.of>> \in Due(o, h)
      <3>1. m \in Member /\ h # m
        BY <2>3, OpShape
      <3>2. h \in Receivers(o)
        BY <2>3 DEF Receivers
      <3>3. Due(o, h) = Chunks(o) \X {{k} : k \in Member \ {h}}
        BY <2>3 DEF Due
      <3> QED  BY <3>1, <3>2, <3>3, <2>3, <1>1
    <2>4. \/ Kind[o] = "allreduce" /\ p.of = Member
          \/ /\ Kind[o] \in {"bcast", "allgather"}
             /\ \E m \in Emitters(o) \cap started[o] : p.of = {m} /\ m \notin Side(l)
      BY <1>4 DEF Fits
    <2> QED  BY <2>1, <2>2, <2>3, <2>4, <1>2
  <1> QED  BY <1>2, <1>3, <1>4

(* What leaves an access link is owed, and not delivered yet.               *)
LEMMA OwedFacts ==
    ASSUME Queues, Types, Data, NEW l \in Access, wire[l] # <<>>,
           NEW p, p = Head(wire[l]), NEW h, h = l[2], NEW o, o = p.op
    PROVE  Owed(l, p, h, o)
  <1>1. l \in Link /\ l \in DownLink /\ h \in Member
    BY LinkKinds
  <1>2. p \in InTransit(l) /\ p \in Packet
    BY <1>1, HeadInTransit
  <1>3. /\ Fits(l, p) /\ Lone(l, p) /\ o \in Op /\ p.c \in AllChunks /\ p.c \in Chunks(o)
        /\ p.t # "REDUCE" => Resulted(o, p.c)
    BY <1>1, <1>2, TransitFacts
  <1>4. Side(l) = {h}
    BY <1>1, SideBasics, DescMember
  <1>5. p.t \in {"REDUCE", "DOWN", "MCAST"}
    BY <1>2, PacketShape
  <1>6. p.t # "REDUCE" /\ h \in Receivers(o) /\ <<p.c, p.of>> \in Due(o, h)
    BY <1>1, <1>3, <1>4, <1>5, DueFits
  <1>7. <<p.c, p.of>> \notin seen[o][h]
    BY <1>1, <1>3, <1>4, <1>6 DEF Lone
  <1>8. p.of \subseteq started[o]
    <2>1. CASE p.t = "DOWN"
      <3>1. Kind[o] \in Reducing /\ p.of = Member
        BY <2>1, <1>3 DEF Fits, Reducing
      <3>2. OneContribution(o, p.c)
        BY <1>3 DEF Data, Contributions
      <3> QED  BY <3>1, <3>2, <1>3, <1>6 DEF OneContribution
    <2>2. CASE p.t = "MCAST"
      <3>1. CASE Kind[o] = "allreduce" /\ p.of = Member
        <4>1. Kind[o] \in Reducing
          BY <3>1 DEF Reducing
        <4>2. OneContribution(o, p.c)
          BY <1>3 DEF Data, Contributions
        <4> QED  BY <3>1, <4>1, <4>2, <1>3, <1>6 DEF OneContribution
      <3>2. CASE \E m \in Emitters(o) \cap started[o] : p.of = {m}
        BY <3>2
      <3>3. \/ Kind[o] = "allreduce" /\ p.of = Member
            \/ \E m \in Emitters(o) \cap started[o] : p.of = {m}
        BY <2>2, <1>3 DEF Fits
      <3> QED  BY <3>1, <3>2, <3>3
    <2> QED  BY <2>1, <2>2, <1>5, <1>6
  <1> QED  BY <1>1, <1>2, <1>3, <1>4, <1>6, <1>7, <1>8 DEF Owed

(* Piece x counted at the sink of member h.                                  *)
CountPiece(o, h, x) ==
    /\ got' = [got EXCEPT ![o][h] = @ + 1]
    /\ seen' = [seen EXCEPT ![o][h] = @ \cup {x}]

(* What counting a piece changes.                                           *)
PieceCounted(o, h, x) ==
    /\ got' \in [Op -> [Member -> Nat]]
    /\ seen' \in [Op -> [Member -> SUBSET (Nat \X SUBSET Member)]]
    /\ got'[o][h] = got[o][h] + 1
    /\ seen'[o][h] = seen[o][h] \cup {x}
    /\ \A q \in Op, g \in Member : q # o \/ g # h =>
         got'[q][g] = got[q][g] /\ seen'[q][g] = seen[q][g]

(* Packet p is delivered to h.                                              *)
Delivered(l, p, h, o) ==
    /\ Owed(l, p, h, o) /\ Queues' /\ out' = out
    /\ InTransit(l)' = InTransit(l) \ {p}
    /\ \A k \in Link \ {l} : InTransit(k)' = InTransit(k)
    /\ PieceCounted(o, h, <<p.c, p.of>>)
    /\ remaining' = IF got[o][h] + 1 = Expected(o)
                    THEN [remaining EXCEPT ![o] = @ - 1] ELSE remaining

(* CountPiece counts the piece of one sink.                                 *)
LEMMA SinkDelta ==
    ASSUME Types, NEW o \in Op, NEW h \in Member, NEW x \in Nat \X SUBSET Member,
           CountPiece(o, h, x)
    PROVE  PieceCounted(o, h, x)
  <1> DEFINE X == Nat \X SUBSET Member
  <1>1. got \in [Op -> [Member -> Nat]] /\ seen \in [Op -> [Member -> SUBSET X]]
    BY DEF Types
  <1>2. x \in X
    OBVIOUS
  <1>2a. /\ got' = [got EXCEPT ![o][h] = @ + 1]
         /\ seen' = [seen EXCEPT ![o][h] = @ \cup {x}]
    BY DEF CountPiece
  <1> HIDE DEF X
  <1>3. got' \in [Op -> [Member -> Nat]] /\ got'[o][h] = got[o][h] + 1
    BY <1>1, <1>2a
  <1>4. seen'[o][h] = seen[o][h] \cup {x}
    BY <1>1, <1>2a
  <1>5. seen' \in [Op -> [Member -> SUBSET X]]
    <2>1. seen[o][h] \cup {x} \in SUBSET X
      BY <1>1, <1>2
    <2> DEFINE y == seen[o][h] \cup {x}
    <2>2. seen' = [seen EXCEPT ![o][h] = y]
      BY <1>1, <1>2a
    <2> HIDE DEF y
    <2> QED  BY <2>1, <2>2, <1>1 DEF y
  <1>6. \A q \in Op, g \in Member : q # o \/ g # h =>
                got'[q][g] = got[q][g] /\ seen'[q][g] = seen[q][g]
    BY <1>1, <1>2a
  <1> QED  BY <1>3, <1>4, <1>5, <1>6 DEF X, PieceCounted

(* What Owed says in short.                                                 *)
LEMMA OwedPiece ==
    ASSUME NEW l, NEW p, NEW h, NEW o, Owed(l, p, h, o)
    PROVE  /\ l \in Link /\ h \in Member /\ o \in Op /\ h \in Receivers(o)
           /\ <<p.c, p.of>> \in Nat \X SUBSET Member
  <1>1. p \in Packet /\ l \in Link /\ h \in Member /\ o \in Op /\ h \in Receivers(o)
    BY DEF Owed
  <1> QED  BY <1>1, PacketShape

(* A delivery is one of a piece that is owed.                               *)
LEMMA DeliverDelta ==
    ASSUME Queues, Types, Data, NEW l \in Access,
           NEW p, p = Head(wire[l]), NEW h, h = l[2], NEW o, o = p.op, Deliver(l)
    PROVE  Delivered(l, p, h, o)
  <1>1. wire[l] # <<>> /\ wire' = Drained(l) /\ out' = out
    BY DEF Deliver, Drained
  <1>2. Owed(l, p, h, o)
    BY <1>1, OwedFacts
  <1>3. /\ l \in Link /\ h \in Member /\ o \in Op /\ h \in Receivers(o)
        /\ <<p.c, p.of>> \in Nat \X SUBSET Member
    BY <1>2, OwedPiece
  <1>4. /\ CountPiece(o, h, <<p.c, p.of>>)
        /\ remaining' = IF got[o][h] + 1 = Expected(o)
                        THEN [remaining EXCEPT ![o] = @ - 1] ELSE remaining
    BY <1>3 DEF Deliver, CountPiece
  <1>5. PieceCounted(o, h, <<p.c, p.of>>)
    BY <1>3, <1>4, SinkDelta
  <1>6. Queues' /\ InTransit(l)' = InTransit(l) \ {p}
        /\ \A k \in Link \ {l} : InTransit(k)' = InTransit(k)
    BY <1>1, <1>3, TakeDelta
  <1> QED  BY <1>1, <1>2, <1>4, <1>5, <1>6 DEF Delivered

(* A result packet is told by its chunk and its contributors. *)
LEMMA SamePiece ==
    ASSUME NEW l, NEW k, NEW p \in Packet, NEW q \in Packet, Fits(l, p), Fits(k, q),
           p.t # "REDUCE", q.t # "REDUCE", p.op = q.op, p.c = q.c, p.of = q.of
    PROVE  p = q
  <1>1. p.t \in {"DOWN", "MCAST"} /\ q.t \in {"DOWN", "MCAST"}
    BY PacketShape
  <1>2. p.t = "DOWN" <=> Kind[p.op] \in {"reduce", "reduce_scatter"}
    BY <1>1 DEF Fits
  <1>3. q.t = "DOWN" <=> Kind[q.op] \in {"reduce", "reduce_scatter"}
    BY <1>1 DEF Fits
  <1> QED  BY <1>1, <1>2, <1>3, PacketIs

(* The piece leaves its link and enters seen: Data is kept.                 *)
LEMMA DeliverStep ==
    ASSUME Queues, Types, Data, NEW l, NEW p, NEW h, NEW o, Delivered(l, p, h, o),
           UNCHANGED <<started, barrier>>
    PROVE  Data'
  <1>1. /\ l \in Link /\ h \in Member /\ Side(l) = {h} /\ p \in Packet /\ p \in InTransit(l)
        /\ p.op = o /\ o \in Op /\ p.t # "REDUCE" /\ Fits(l, p) /\ Lone(l, p)
        /\ Resulted(o, p.c) /\ <<p.c, p.of>> \in Due(o, h) /\ p.of \subseteq started[o]
    BY DEF Delivered, Owed
  <1>2. /\ InTransit(l)' = InTransit(l) \ {p}
        /\ \A k \in Link \ {l} : InTransit(k)' = InTransit(k)
        /\ seen'[o][h] = seen[o][h] \cup {<<p.c, p.of>>}
        /\ \A q \in Op, g \in Member : q # o \/ g # h => seen'[q][g] = seen[q][g]
    BY DEF Delivered, PieceCounted
  <1>3. \A k \in Link : InTransit(k)' \subseteq InTransit(k)
    BY <1>2
  <1>4. \A q \in Op, g \in Member : \A x \in seen'[q][g] :
          x \in seen[q][g] \/ (q = o /\ g = h /\ x = <<p.c, p.of>>)
    BY <1>2
  <1>5. Shaped'
    <2> SUFFICES ASSUME NEW k \in Link, NEW x \in InTransit(k)' PROVE Fits(k, x)'
      BY DEF Shaped
    <2>1. Fits(k, x)
      BY <1>3 DEF Data, Shaped
    <2> QED  BY <2>1 DEF Fits
  <1>6. ASSUME NEW x \in Op, NEW d \in AllChunks, Resulted(x, d)' PROVE Resulted(x, d)
    <2>1. CASE \E k \in Link : \E y \in InTransit(k)' : y.t # "REDUCE" /\ y.op = x /\ y.c = d
      BY <2>1, <1>3 DEF Resulted
    <2>2. CASE \E g \in Member : \E y \in seen'[x][g] : y[1] = d
      <3>1. PICK g \in Member : \E y \in seen'[x][g] : y[1] = d
        BY <2>2
      <3>2. PICK y \in seen'[x][g] : y[1] = d
        BY <3>1
      <3>3. CASE y \in seen[x][g]
        BY <3>2, <3>3 DEF Resulted
      <3>4. CASE x = o /\ y = <<p.c, p.of>>
        BY <3>2, <3>4, <1>1
      <3> QED  BY <3>3, <3>4, <1>4
    <2> QED  BY <1>6, <2>1, <2>2 DEF Resulted
  <1>7. ASSUME NEW x \in Op, NEW d \in AllChunks, NEW m \in Node \ {Apex}
        PROVE  /\ Moving(m, x, d)' <=> Moving(m, x, d)
               /\ Waiting(m, x, d)' <=> Waiting(m, x, d)
               /\ At(m, x, d)' <=> At(m, x, d)
    <2>1. Moving(m, x, d)' <=> Moving(m, x, d)
      <3>1. Contribution(m, x, d) # p /\ UpOf(m) \in Link
        BY <1>1, LinkKinds DEF Contribution
      <3> QED  BY <3>1, <1>2 DEF Moving
    <2>2. Waiting(m, x, d)' <=> Waiting(m, x, d)
      BY DEF Waiting
    <2> QED  BY <2>1, <2>2 DEF At
  <1>8. Contributions'
    <2> SUFFICES ASSUME NEW x \in Op, NEW d \in AllChunks PROVE OneContribution(x, d)'
      BY DEF Contributions
    <2>1. OneContribution(x, d)
      BY DEF Data, Contributions
    <2> QED  BY <2>1, <1>6, <1>7 DEF OneContribution
  <1>9. Barriers'
    BY DEF Data, Barriers, SoundAt
  <1>10. ASSUME NEW k \in Link, NEW x \in InTransit(k)' PROVE Lone(k, x)'
    <2>1. Lone(k, x) /\ x \in InTransit(k)
      BY <1>3, <1>10 DEF Data, Results
    <2> SUFFICES ASSUME x.t # "REDUCE" PROVE Lone(k, x)'
      BY DEF Lone
    <2>2. \A j \in Link \ {k} : x \in InTransit(j)' => Side(k) \cap Side(j) = {}
      BY <2>1, <1>3 DEF Lone
    <2>3. ASSUME NEW g \in Side(k) \cap Member, <<x.c, x.of>> \in seen'[x.op][g] PROVE FALSE
      <3>1. <<x.c, x.of>> \notin seen[x.op][g] /\ x.op \in Op /\ x \in Packet /\ Fits(k, x)
        BY <2>1, TransitFacts DEF Lone
      <3>2. x.op = o /\ g = h /\ <<x.c, x.of>> = <<p.c, p.of>>
        BY <3>1, <2>3, <1>4
      <3>3. x = p
        BY <3>1, <3>2, <1>1, SamePiece
      <3>4. k # l
        BY <3>3, <1>2, <1>10
      <3>5. Side(l) \cap Side(k) = {}
        BY <3>3, <3>4, <2>1, <1>1 DEF Lone
      <3> QED  BY <3>2, <3>5, <2>3, <1>1
    <2> QED  BY <2>2, <2>3 DEF Lone
  <1>11. ASSUME NEW q \in Op, NEW g \in Member, NEW x \in seen'[q][g]
         PROVE  x \in Due(q, g) /\ x[2] \subseteq started[q]
    <2>1. CASE x \in seen[q][g]
      BY <2>1 DEF Data, Results
    <2>2. CASE q = o /\ g = h /\ x = <<p.c, p.of>>
      BY <2>2, <1>1
    <2> QED  BY <2>1, <2>2, <1>4
  <1>12. Results'
    BY <1>10, <1>11 DEF Results
  <1> QED  BY <1>5, <1>8, <1>9, <1>12 DEF Data

(* A delivery keeps Data.                                                   *)
LEMMA DeliverData ==
    ASSUME Queues, Types, Data, NEW l \in Access, Deliver(l)
    PROVE  Data'
  <1> SUFFICES ASSUME NEW p, p = Head(wire[l]), NEW h, h = l[2], NEW o, o = p.op
               PROVE  Data'
    OBVIOUS
  <1>1. Delivered(l, p, h, o)
    BY DeliverDelta
  <1>2. UNCHANGED <<started, barrier>>
    BY DEF Deliver
  <1> QED  BY <1>1, <1>2, DeliverStep
-----------------------------------------------------------------------------

(* A frame e of the queue of link l goes into its pipe. *)
SentOut(l, e) ==
    /\ e \in Ran(out[l]) /\ e.pkt \in Packet /\ e.pkt \in Pkts(out[l])
    /\ l \in Port => e.key = <<l[1], e.pkt>>
    /\ Queues'
    /\ \A k \in Link : InTransit(k)' = InTransit(k)
    /\ Pkts(out'[l]) = Pkts(out[l]) \ {e.pkt}
    /\ \A k \in Link \ {l} : out'[k] = out[k]

(* SendDelta, packed.                                                       *)
LEMMA SentOutFacts ==
    ASSUME Queues, NEW l \in Link, NEW e \in Ran(out[l]), NEW u \in Seq(Slots),
           Inj(u), Ran(u) = Ran(out[l]) \ {e},
           out' = [out EXCEPT ![l] = u],
           wire' = [wire EXCEPT ![l] = Append(@, e.pkt)]
    PROVE  SentOut(l, e)
  <1>1. /\ Queues'
        /\ \A k \in Link : InTransit(k)' = InTransit(k)
        /\ Pkts(out'[l]) = Pkts(out[l]) \ {e.pkt}
        /\ \A k \in Link \ {l} : out'[k] = out[k]
        /\ e.pkt \in Pkts(out[l])
    BY SendDelta
  <1>2. Good(l, out[l], wire[l])
    BY QueueFacts
  <1>3. e.pkt \in Packet /\ e = Entry(e.pkt, KeyOf(l, e.pkt))
    <2>1. e.pkt \in Packet
      BY <1>2, GoodSlots
    <2> QED  BY <2>1, <1>2 DEF Good
  <1>4. l \in Port => e.key = <<l[1], e.pkt>>
    BY <1>3 DEF Entry, KeyOf
  <1> QED  BY <1>1, <1>3, <1>4 DEF SentOut

(* A host sends one of the frames in its queue.                             *)
LEMMA NicSendDelta ==
    ASSUME Queues, NEW l \in Nic, NicSend(l)
    PROVE  \E e \in Ran(out[l]) : SentOut(l, e)
  <1>1. l \in Link
    BY LinkKinds
  <1>2. PICK i \in DOMAIN out[l] :
          /\ Launch(l, out[l][i].pkt)
          /\ out' = [out EXCEPT ![l] = SubSeq(@, 1, i - 1) \o SubSeq(@, i + 1, Len(@))]
    BY DEF NicSend
  <1> DEFINE u == SubSeq(out[l], 1, i - 1) \o SubSeq(out[l], i + 1, Len(out[l]))
             e == out[l][i]
  <1>3. Good(l, out[l], wire[l]) /\ DOMAIN out = Link /\ DOMAIN wire = Link
    BY <1>1, QueueFacts
  <1>4. /\ u \in Seq(Slots) /\ Inj(u) /\ Ran(u) = Ran(out[l]) \ {e}
        /\ e \in Ran(out[l])
    BY <1>3, RanRemove DEF Good
  <1>5. out' = [out EXCEPT ![l] = u] /\ wire' = [wire EXCEPT ![l] = Append(@, e.pkt)]
    BY <1>2 DEF Launch
  <1> HIDE DEF u, e
  <1> QED  BY <1>1, <1>4, <1>5, SentOutFacts

(* A port sends the first frame of its queue, which is not empty.           *)
LEMMA PortSendDelta ==
    ASSUME Queues, FlowSound, NEW l \in Port, PortSend(l)
    PROVE  /\ SentOut(l, Head(out[l]))
           /\ Head(out[l]) \in Ran(out[l]) /\ l \in Link
  <1>1. l \in Link
    BY LinkKinds
  <1>2. out[l] # <<>>
    BY <1>1 DEF PortSend, Sending, FlowSound
  <1> DEFINE e == Head(out[l])
             u == Tail(out[l])
  <1>3. Good(l, out[l], wire[l]) /\ DOMAIN out = Link /\ DOMAIN wire = Link
    BY <1>1, QueueFacts
  <1>4. /\ u \in Seq(Slots) /\ Inj(u) /\ Ran(u) = Ran(out[l]) \ {e}
        /\ e \in Ran(out[l])
    BY <1>2, <1>3, RanTail DEF Good
  <1>5. out' = [out EXCEPT ![l] = u] /\ wire' = [wire EXCEPT ![l] = Append(@, e.pkt)]
    BY DEF PortSend, Launch
  <1> HIDE DEF u, e
  <1>6. SentOut(l, e)
    BY <1>1, <1>4, <1>5, SentOutFacts
  <1> QED  BY <1>1, <1>4, <1>6 DEF e

(* Sending keeps Data.                                                      *)
LEMMA SendData ==
    ASSUME Data, NEW l, NEW e, SentOut(l, e), UNCHANGED <<barrier, started, seen>>
    PROVE  Data'
  <1>1. \A k \in Link : InTransit(k)' = InTransit(k)
    BY DEF SentOut
  <1> QED  BY <1>1, DataSame

(* Flow control of one link.                                                *)
FlowType(l) == iq[l] \in IngressType /\ pwire[l] \in Seq(Frame) /\ st[l] \in SendState

(* Flow control of an untouched link.                                       *)
LEMMA FlowSame ==
    ASSUME NEW l, FlowOn(l), iq'[l] = iq[l], pwire'[l] = pwire[l],
           st'[l] = "READY" <=> st[l] = "READY"
    PROVE  FlowOn(l)'
  BY DEF FlowOn

(* A charge keeps the flow control of its link sound.                       *)
LEMMA FlowCharge ==
    ASSUME NEW l, FlowType(l), FlowOn(l), iq'[l] = Charge(iq[l]),
           pwire'[l] = pwire[l] \o FramesOnCharge(iq[l]), st'[l] = st[l]
    PROVE  FlowOn(l)' /\ FlowType(l)' /\ iq'[l].occ = iq[l].occ + 1
  <1>1. /\ iq[l].occ \in Nat /\ iq[l].st \in {"READY", "PAUSED"}
        /\ iq[l] = [occ |-> iq[l].occ, st |-> iq[l].st]
    BY DEF FlowType, IngressType
  <1>2. /\ iq'[l].occ = iq[l].occ + 1
        /\ iq'[l].st = IF CrossesHigh(iq[l]) THEN "PAUSED" ELSE iq[l].st
        /\ iq'[l] \in IngressType
    BY <1>1 DEF Charge, IngressType
  <1>3. CASE CrossesHigh(iq[l])
    <2>1. pwire'[l] = pwire[l] \o <<"PAUSE">> /\ "PAUSE" \in Frame /\ pwire[l] \in Seq(Frame)
      BY <1>3 DEF FramesOnCharge, Frame, FlowType
    <2>2. /\ pwire'[l] \in Seq(Frame) /\ pwire'[l] # <<>>
          /\ pwire'[l][Len(pwire'[l])] = "PAUSE"
      BY <2>1
    <2>3. iq'[l].occ >= Low /\ iq'[l].st = "PAUSED"
      BY <1>1, <1>2, <1>3, ThresholdAssumption DEF CrossesHigh
    <2> QED  BY <2>2, <2>3, <1>2 DEF FlowOn, FlowType
  <1>4. CASE ~CrossesHigh(iq[l])
    <2>1. pwire'[l] = pwire[l] /\ pwire[l] \in Seq(Frame)
      BY <1>4 DEF FramesOnCharge, FlowType
    <2>2. iq'[l].st = iq[l].st
      BY <1>2, <1>4
    <2>3. iq'[l].st = "PAUSED" => iq'[l].occ >= Low
      BY <2>2, <1>1, <1>2, ThresholdAssumption DEF FlowOn
    <2> QED  BY <2>1, <2>2, <2>3, <1>2 DEF FlowOn, FlowType
  <1> QED  BY <1>2, <1>3, <1>4

(* So does a release.                                                       *)
LEMMA FlowRelease ==
    ASSUME NEW l, FlowType(l), FlowOn(l), iq[l].occ > 0, iq'[l] = Release(iq[l]),
           pwire'[l] = pwire[l] \o FramesOnRelease(iq[l]), st'[l] \in SendState,
           st'[l] = "READY" <=> st[l] = "READY"
    PROVE  FlowOn(l)' /\ FlowType(l)' /\ iq'[l].occ = iq[l].occ - 1
  <1>1. /\ iq[l].occ \in Nat /\ iq[l].st \in {"READY", "PAUSED"}
        /\ iq[l] = [occ |-> iq[l].occ, st |-> iq[l].st]
    BY DEF FlowType, IngressType
  <1>2. /\ iq'[l].occ = iq[l].occ - 1
        /\ iq'[l].st = IF CrossesLow(iq[l]) THEN "READY" ELSE iq[l].st
        /\ iq'[l] \in IngressType
    BY <1>1 DEF Release, IngressType
  <1>3. CASE CrossesLow(iq[l])
    <2>1. pwire'[l] = pwire[l] \o <<"GO">> /\ "GO" \in Frame /\ pwire[l] \in Seq(Frame)
      BY <1>3 DEF FramesOnRelease, Frame, FlowType
    <2>2. /\ pwire'[l] \in Seq(Frame) /\ pwire'[l] # <<>>
          /\ pwire'[l][Len(pwire'[l])] = "GO"
      BY <2>1
    <2>3. iq'[l].st = "READY"
      BY <1>2, <1>3
    <2> QED  BY <2>2, <2>3, <1>2 DEF FlowOn, FlowType
  <1>4. CASE ~CrossesLow(iq[l])
    <2>1. pwire'[l] = pwire[l] /\ pwire[l] \in Seq(Frame)
      BY <1>4 DEF FramesOnRelease, FlowType
    <2>2. iq'[l].st = iq[l].st
      BY <1>2, <1>4
    <2>3. iq'[l].st = "PAUSED" => iq'[l].occ >= Low
      BY <2>2, <1>1, <1>2, <1>4, ThresholdAssumption DEF CrossesLow
    <2> QED  BY <2>1, <2>2, <2>3, <1>2 DEF FlowOn, FlowType
  <1> QED  BY <1>2, <1>3, <1>4

(* The last of a sequence is the last of its tail.                          *)
LEMMA TailOf ==
    ASSUME NEW S, NEW s \in Seq(S), s # <<>>
    PROVE  /\ Len(s) \in Nat \ {0} /\ Head(s) = s[1]
           /\ Tail(s) \in Seq(S)
           /\ Len(s) = 1 => Tail(s) = <<>>
           /\ Len(s) # 1 => Tail(s) # <<>> /\ Tail(s)[Len(Tail(s))] = s[Len(s)]
  <1>1. /\ Len(s) \in Nat \ {0} /\ Head(s) = s[1]
        /\ Tail(s) \in Seq(S)
        /\ Len(Tail(s)) = Len(s) - 1
        /\ \A i \in 1 .. Len(Tail(s)) : Tail(s)[i] = s[i+1]
    BY EmptySeq, HeadTailProperties
  <1> SUFFICES ASSUME NEW t, t = Tail(s), NEW n \in Nat \ {0}, n = Len(s)
               PROVE  /\ n = 1 => t = <<>>
                      /\ n # 1 => t # <<>> /\ t[Len(t)] = s[n]
    BY <1>1
  <1>2. n = 1 => t = <<>>
    <2>1. n = 1 => Len(t) = 0
      BY <1>1
    <2> QED  BY <2>1, <1>1, EmptySeq
  <1>3. n # 1 => t # <<>>
    <2>1. Len(<<>>) = 0
      BY EmptySeq
    <2>2. n # 1 => Len(t) # 0
      BY <1>1
    <2> QED  BY <2>1, <2>2
  <1>4. n # 1 => t[Len(t)] = s[n]
    <2>1. Len(t) = n - 1
      BY <1>1
    <2>2. n # 1 => n - 1 \in 1..(n - 1) /\ (n - 1) + 1 = n
      OBVIOUS
    <2> QED  BY <2>1, <2>2, <1>1
  <1> QED  BY <1>2, <1>3, <1>4

(* The arrival of a frame keeps the flow control of its link sound.         *)
LEMMA FlowFrame ==
    ASSUME NEW l, FlowType(l), FlowOn(l), pwire[l] # <<>>, NEW g \in BOOLEAN,
           iq'[l] = iq[l], st'[l] = OnFrame(Head(pwire[l]), g),
           pwire'[l] = Tail(pwire[l])
    PROVE  FlowOn(l)' /\ FlowType(l)'
  <1>1. /\ pwire[l] \in Seq(Frame) /\ iq[l] \in IngressType
    BY DEF FlowType
  <1>1a. /\ Len(pwire[l]) \in Nat \ {0} /\ Head(pwire[l]) = pwire[l][1]
         /\ Tail(pwire[l]) \in Seq(Frame)
         /\ Len(pwire[l]) = 1 => Tail(pwire[l]) = <<>>
         /\ Len(pwire[l]) # 1 =>
              Tail(pwire[l]) # <<>> /\ Tail(pwire[l])[Len(Tail(pwire[l]))] = pwire[l][Len(pwire[l])]
    BY <1>1, TailOf
  <1>2. st'[l] \in SendState
    BY DEF OnFrame, SendState
  <1>3. CASE Len(pwire[l]) = 1
    <2>1. Tail(pwire[l]) = <<>>
      BY <1>1a, <1>3
    <2>2. Head(pwire[l]) = "GO" <=> iq[l].st = "READY"
      BY <1>1a, <1>3 DEF FlowOn
    <2>3. st'[l] = "READY" <=> Head(pwire[l]) = "GO"
      BY DEF OnFrame
    <2> QED  BY <2>1, <2>2, <2>3, <1>1, <1>1a, <1>2 DEF FlowOn, FlowType
  <1>4. CASE Len(pwire[l]) # 1
    <2>1. Tail(pwire[l]) # <<>>
      BY <1>1a, <1>4
    <2>2. Tail(pwire[l])[Len(Tail(pwire[l]))] = pwire[l][Len(pwire[l])]
      BY <1>1a, <1>4
    <2> QED  BY <2>1, <2>2, <1>1, <1>1a, <1>2 DEF FlowOn, FlowType
  <1> QED  BY <1>3, <1>4
-----------------------------------------------------------------------------

(* The names of all barriers.                                               *)
Folds == Switch \X Op \X AllChunks

(* The live credits that hold a charge at l.                                *)
ByCredit(l) == {k \in DOMAIN credit : l \in credit[k].charges}

(* The barriers that hold one.                                              *)
ByBarrier(l) == {x \in Folds : l \in barrier[x[1]][x[2]][x[3]].charges}

(* There are finitely many barriers.                                        *)
LEMMA FoldsFinite == IsFiniteSet(Folds)
  <1> DEFINE D == {Chunks(o) : o \in Op}
             f == [o \in Op |-> Chunks(o)]
             E == (Switch \X Op) \X AllChunks
             g == [y \in E |-> <<y[1][1], y[1][2], y[2]>>]
  <1>1. IsFiniteSet(Op) /\ IsFiniteSet(Switch)
    BY OpAssumption, TreeAssumption
  <1>2. f \in Surjection(Op, D)
    <2>1. f \in [Op -> D]
      OBVIOUS
    <2>2. \A t \in D : \E o \in Op : f[o] = t
      OBVIOUS
    <2> QED  BY <2>1, <2>2, Fun_IsSurj
  <1>3. IsFiniteSet(D)
    BY <1>1, <1>2, FS_Surjection
  <1>4. \A t \in D : IsFiniteSet(t)
    BY OpShape
  <1>5. IsFiniteSet(AllChunks)
    BY <1>3, <1>4, FS_UNION DEF AllChunks
  <1>6. IsFiniteSet(Switch \X Op)
    BY <1>1, FS_Product
  <1>7. IsFiniteSet(E)
    BY <1>5, <1>6, FS_Product
  <1>8. g \in Surjection(E, Folds)
    <2>1. g \in [E -> Folds]
      BY DEF Folds
    <2>2. ASSUME NEW x \in Folds PROVE \E y \in E : g[y] = x
      <3>1. PICK s \in Switch, o \in Op, c \in AllChunks : x = <<s, o, c>>
        BY DEF Folds
      <3>2. <<<<s, o>>, c>> \in E
        OBVIOUS
      <3>3. g[<<<<s, o>>, c>>] = x
        BY <3>1, <3>2
      <3> QED  BY <3>2, <3>3
    <2> QED  BY <2>1, <2>2, Fun_IsSurj
  <1> QED  BY <1>7, <1>8, FS_Surjection

(* A key is no name of a barrier.                                           *)
LEMMA PairNotFold ==
    ASSUME NEW k \in Switch \X Packet
    PROVE  k \notin Folds
  <1> SUFFICES ASSUME k \in Folds PROVE FALSE
    OBVIOUS
  <1>1. PICK s \in Switch, o \in Op, c \in AllChunks : k = <<s, o, c>>
    BY DEF Folds
  <1>2. PICK r \in Switch, p \in Packet : k = <<r, p>>
    OBVIOUS
  <1>3. Len(<<s, o, c>>) = 3 /\ Len(<<r, p>>) = 2
    OBVIOUS
  <1> QED  BY <1>1, <1>2, <1>3

(* The holders at a link are finitely many, credits and barriers apart.     *)
LEMMA HolderFacts ==
    ASSUME Types, NEW l
    PROVE  /\ Holders(l) = ByCredit(l) \cup ByBarrier(l)
           /\ IsFiniteSet(Holders(l)) /\ Cardinality(Holders(l)) \in Nat
           /\ ByCredit(l) \cap Folds = {} /\ ByBarrier(l) \subseteq Folds
           /\ Holders(l) \cap (Switch \X Packet) = ByCredit(l)
  <1>1. Holders(l) = ByCredit(l) \cup ByBarrier(l)
    BY DEF Holders, ByCredit, ByBarrier, Folds
  <1>2. ByBarrier(l) \in SUBSET Folds /\ ByCredit(l) \in SUBSET (DOMAIN credit)
    BY DEF ByBarrier, ByCredit
  <1>3. IsFiniteSet(ByBarrier(l)) /\ IsFiniteSet(ByCredit(l))
    BY <1>2, FoldsFinite, FS_Subset DEF Types
  <1>4. IsFiniteSet(Holders(l))
    BY <1>1, <1>3, FS_Union
  <1>5. Cardinality(Holders(l)) \in Nat
    BY <1>4, FS_CardinalityType
  <1>6. ByCredit(l) \subseteq Switch \X Packet
    BY <1>2 DEF Types
  <1>7. ByCredit(l) \cap Folds = {} /\ ByBarrier(l) \cap (Switch \X Packet) = {}
    BY <1>2, <1>6, PairNotFold
  <1> QED  BY <1>1, <1>2, <1>4, <1>5, <1>6, <1>7

(* The same after a step.                                                   *)
LEMMA HoldersNext ==
    ASSUME NEW l
    PROVE  Holders(l)' = ByCredit(l)' \cup ByBarrier(l)'
  BY DEF Holders, ByCredit, ByBarrier, Folds

(* What setting a barrier does to the holders.                              *)
LEMMA BarrierHolders ==
    ASSUME NEW l, NEW s \in Switch, NEW o \in Op, NEW c \in AllChunks, NEW b,
           BarrierSet(s, o, c, b)
    PROVE  /\ l \in b.charges => ByBarrier(l)' = ByBarrier(l) \cup {<<s, o, c>>}
           /\ l \notin b.charges => ByBarrier(l)' = ByBarrier(l) \ {<<s, o, c>>}
           /\ <<s, o, c>> \in ByBarrier(l) <=> l \in barrier[s][o][c].charges
           /\ <<s, o, c>> \in Folds
  <1>0. <<s, o, c>> \in Folds
    BY DEF Folds
  <1>1. barrier'[s][o][c] = b
    BY DEF BarrierSet
  <1>2. ASSUME NEW x \in Folds, x # <<s, o, c>>
        PROVE  x \in ByBarrier(l)' <=> x \in ByBarrier(l)
    <2>1. PICK r \in Switch, q \in Op, d \in AllChunks : x = <<r, q, d>>
      BY DEF Folds
    <2>2. x[1] = r /\ x[2] = q /\ x[3] = d
      BY <2>1
    <2>3. barrier'[r][q][d] = barrier[r][q][d]
      BY <1>2, <2>1 DEF BarrierSet
    <2> QED  BY <2>2, <2>3 DEF ByBarrier
  <1>3. <<s, o, c>> \in ByBarrier(l)' <=> l \in b.charges
    BY <1>0, <1>1 DEF ByBarrier
  <1>4. <<s, o, c>> \in ByBarrier(l) <=> l \in barrier[s][o][c].charges
    BY <1>0 DEF ByBarrier
  <1>5. ByBarrier(l) \subseteq Folds /\ ByBarrier(l)' \subseteq Folds
    BY DEF ByBarrier
  <1> QED  BY <1>0, <1>2, <1>3, <1>4, <1>5

(* A credit k is made for n copies, with the charges C.                     *)
Opened(k, C, n) ==
    /\ DOMAIN credit' = DOMAIN credit \cup {k}
    /\ credit'[k] = [charges |-> C, pending |-> n]
    /\ \A j \in DOMAIN credit : j # k => credit'[j] = credit[j]

(* NewCredit does that.                                                     *)
LEMMA OpenDelta ==
    ASSUME NEW k, NEW C, NEW n, NewCredit(k, C, n)
    PROVE  Opened(k, C, n)
  BY DEF NewCredit, Opened

(* What a new credit does to the holders.                                   *)
LEMMA OpenHolders ==
    ASSUME NEW k, NEW C, NEW n, Opened(k, C, n), k \notin DOMAIN credit, NEW l
    PROVE  /\ l \in C => ByCredit(l)' = ByCredit(l) \cup {k}
           /\ l \notin C => ByCredit(l)' = ByCredit(l)
           /\ k \notin ByCredit(l)
  BY DEF Opened, ByCredit

(* The credits keep their types.                                            *)
LEMMA OpenTypes ==
    ASSUME Types, NEW k \in Switch \X Packet, NEW C \in SUBSET Ingress, NEW n \in Nat \ {0},
           Opened(k, C, n)
    PROVE  /\ DOMAIN credit' \subseteq Switch \X Packet
           /\ IsFiniteSet(DOMAIN credit')
           /\ \A j \in DOMAIN credit' :
                credit'[j] \in [charges : SUBSET Ingress, pending : Nat \ {0}]
  <1>1. DOMAIN credit' = DOMAIN credit \cup {k}
    BY DEF Opened
  <1>2. IsFiniteSet(DOMAIN credit')
    <2>1. IsFiniteSet(DOMAIN credit)
      BY DEF Types
    <2>2. IsFiniteSet(DOMAIN credit \cup {k})
      BY <2>1, FS_AddElement
    <2> QED  BY <2>2, <1>1
  <1>3. [charges |-> C, pending |-> n] \in [charges : SUBSET Ingress, pending : Nat \ {0}]
    OBVIOUS
  <1>4. \A j \in DOMAIN credit' :
                credit'[j] \in [charges : SUBSET Ingress, pending : Nat \ {0}]
    BY <1>1, <1>3 DEF Opened, Types
  <1> QED  BY <1>1, <1>2, <1>4 DEF Types

(* One packet more is charged at l, and nothing changes elsewhere.          *)
Entered(l) ==
    /\ iq'[l].occ = iq[l].occ + 1
    /\ \A j \in Ingress \ {l} : iq'[j].occ = iq[j].occ

(* The flow control state of every link, typed. *)
FlowTypes ==
    /\ st \in [Link -> SendState]
    /\ iq \in [Ingress -> IngressType]
    /\ pwire \in [Ingress -> Seq(Frame)]

(* An accepted packet keeps flow control sound.                             *)
LEMMA AcceptFlow ==
    ASSUME Types, FlowSound, NEW l \in Ingress, Accept(l), st' = st,
           \A k \in Link : out[k] # <<>> => out'[k] # <<>>
    PROVE  FlowSound' /\ FlowTypes' /\ Entered(l)
  <1>1. /\ iq' = [iq EXCEPT ![l] = Charge(@)]
        /\ pwire' = [pwire EXCEPT ![l] = @ \o FramesOnCharge(iq[l])]
    BY DEF Accept
  <1>2. /\ DOMAIN iq = Ingress /\ DOMAIN pwire = Ingress
        /\ \A j \in Ingress : FlowType(j) /\ FlowOn(j) /\ j \in Link
    BY LinkKinds DEF Types, FlowType, FlowSound
  <1>3. /\ iq'[l] = Charge(iq[l]) /\ pwire'[l] = pwire[l] \o FramesOnCharge(iq[l])
        /\ \A j \in Ingress \ {l} : iq'[j] = iq[j] /\ pwire'[j] = pwire[j]
    BY <1>1, <1>2
  <1>4. FlowOn(l)' /\ FlowType(l)' /\ iq'[l].occ = iq[l].occ + 1
    BY <1>2, <1>3, FlowCharge
  <1>5. \A j \in Ingress \ {l} : FlowOn(j)' /\ FlowType(j)'
    <2> TAKE j \in Ingress \ {l}
    <2>1. FlowOn(j)'
      BY <1>2, <1>3, FlowSame
    <2> QED  BY <2>1, <1>2, <1>3 DEF FlowType
  <1>6. \A j \in Ingress : FlowOn(j)' /\ FlowType(j)'
    BY <1>4, <1>5
  <1>7. FlowSound'
    BY <1>6 DEF FlowSound
  <1>8. iq' = [j \in Ingress |-> iq'[j]] /\ pwire' = [j \in Ingress |-> pwire'[j]]
    BY <1>1, <1>2
  <1>9. FlowTypes'
    <2>1. \A j \in Ingress : iq'[j] \in IngressType /\ pwire'[j] \in Seq(Frame)
      BY <1>6 DEF FlowType
    <2>2. iq' \in [Ingress -> IngressType] /\ pwire' \in [Ingress -> Seq(Frame)]
      BY <1>8, <2>1
    <2> QED  BY <2>2 DEF Types, FlowTypes
  <1> QED  BY <1>3, <1>4, <1>7, <1>9 DEF Entered

(* One holder more.                                                         *)
LEMMA AddHolder ==
    ASSUME Types, NEW l, NEW k, k \notin Holders(l), Holders(l)' = Holders(l) \cup {k}
    PROVE  Cardinality(Holders(l)') = Cardinality(Holders(l)) + 1
  <1>1. IsFiniteSet(Holders(l))
    BY HolderFacts
  <1>2. Cardinality(Holders(l) \cup {k}) = Cardinality(Holders(l)) + 1
    BY <1>1, FS_AddElement
  <1> QED  BY <1>2

(* A packet passed on is charged once, at the credit of its copies.         *)
LEMMA PassCharges ==
    ASSUME Types, Charges, NEW l \in Ingress, Entered(l), NEW k \in Switch \X Packet,
           k \notin DOMAIN credit, NEW n, Opened(k, {l}, n), barrier' = barrier
    PROVE  Charges'
  <1> SUFFICES ASSUME NEW j \in Ingress PROVE iq'[j].occ = Cardinality(Holders(j)')
    BY DEF Charges
  <1>1. iq[j].occ = Cardinality(Holders(j))
    BY DEF Charges
  <1>2. ByBarrier(j)' = ByBarrier(j)
    BY DEF ByBarrier
  <1>3. /\ Holders(j) = ByCredit(j) \cup ByBarrier(j)
        /\ Holders(j)' = ByCredit(j)' \cup ByBarrier(j)'
        /\ ByBarrier(j) \subseteq Folds /\ k \notin Folds
    BY HolderFacts, HoldersNext, PairNotFold
  <1>4. /\ j = l => ByCredit(j)' = ByCredit(j) \cup {k}
        /\ j # l => ByCredit(j)' = ByCredit(j)
        /\ k \notin ByCredit(j)
    BY OpenHolders
  <1>5. CASE j = l
    <2>1. Holders(j)' = Holders(j) \cup {k} /\ k \notin Holders(j)
      BY <1>2, <1>3, <1>4, <1>5
    <2>2. Cardinality(Holders(j)') = Cardinality(Holders(j)) + 1
      BY <2>1, AddHolder
    <2> QED  BY <2>2, <1>1, <1>5 DEF Entered
  <1>6. CASE j # l
    <2>1. Holders(j)' = Holders(j)
      BY <1>2, <1>3, <1>4, <1>6
    <2> QED  BY <2>1, <1>1, <1>6 DEF Entered
  <1> QED  BY <1>5, <1>6

(* A packet folded is charged once, at its barrier.                         *)
LEMMA FoldCharges ==
    ASSUME Types, Charges, NEW l \in Ingress, Entered(l), credit' = credit,
           NEW s \in Switch, NEW o \in Op, NEW c \in AllChunks, NEW b,
           BarrierSet(s, o, c, b), b.charges = barrier[s][o][c].charges \cup {l},
           l \notin barrier[s][o][c].charges
    PROVE  Charges'
  <1> SUFFICES ASSUME NEW j \in Ingress PROVE iq'[j].occ = Cardinality(Holders(j)')
    BY DEF Charges
  <1> DEFINE x == <<s, o, c>>
  <1>1. iq[j].occ = Cardinality(Holders(j))
    BY DEF Charges
  <1>2. ByCredit(j)' = ByCredit(j)
    BY DEF ByCredit
  <1>3. /\ Holders(j) = ByCredit(j) \cup ByBarrier(j)
        /\ Holders(j)' = ByCredit(j)' \cup ByBarrier(j)'
        /\ ByCredit(j) \cap Folds = {}
    BY HolderFacts, HoldersNext
  <1>4. /\ j \in b.charges => ByBarrier(j)' = ByBarrier(j) \cup {x}
        /\ j \notin b.charges => ByBarrier(j)' = ByBarrier(j) \ {x}
        /\ x \in ByBarrier(j) <=> j \in barrier[s][o][c].charges
        /\ x \in Folds
    BY BarrierHolders
  <1> HIDE DEF x
  <1>5. CASE j = l
    <2>1. Holders(j)' = Holders(j) \cup {x} /\ x \notin Holders(j)
      BY <1>2, <1>3, <1>4, <1>5
    <2>2. Cardinality(Holders(j)') = Cardinality(Holders(j)) + 1
      BY <2>1, AddHolder
    <2> QED  BY <2>2, <1>1, <1>5 DEF Entered
  <1>6. CASE j # l
    <2>1. ByBarrier(j)' = ByBarrier(j)
      BY <1>4, <1>6
    <2>2. Holders(j)' = Holders(j)
      BY <2>1, <1>2, <1>3
    <2> QED  BY <2>2, <1>1, <1>6 DEF Entered
  <1> QED  BY <1>5, <1>6

(* The charges of a complete barrier, and of its last arrival, go to the    *)
(* credit of the combined packet.                                           *)
LEMMA CombineCharges ==
    ASSUME Types, Charges, NEW l \in Ingress, Entered(l), NEW k \in Switch \X Packet,
           k \notin DOMAIN credit, NEW n,
           NEW s \in Switch, NEW o \in Op, NEW c \in AllChunks, NEW b,
           b = barrier[s][o][c], l \notin b.charges,
           Opened(k, b.charges \cup {l}, n),
           BarrierSet(s, o, c, NoBarrier)
    PROVE  Charges'
  <1> SUFFICES ASSUME NEW j \in Ingress PROVE iq'[j].occ = Cardinality(Holders(j)')
    BY DEF Charges
  <1> DEFINE x == <<s, o, c>>
  <1>1. iq[j].occ = Cardinality(Holders(j))
    BY DEF Charges
  <1>2. /\ j \in b.charges \cup {l} => ByCredit(j)' = ByCredit(j) \cup {k}
        /\ j \notin b.charges \cup {l} => ByCredit(j)' = ByCredit(j)
        /\ k \notin ByCredit(j)
    BY OpenHolders
  <1>3. /\ Holders(j) = ByCredit(j) \cup ByBarrier(j) /\ IsFiniteSet(Holders(j))
        /\ Holders(j)' = ByCredit(j)' \cup ByBarrier(j)'
        /\ ByCredit(j) \cap Folds = {} /\ ByBarrier(j) \subseteq Folds
        /\ k \notin Folds
    BY HolderFacts, HoldersNext, PairNotFold
  <1>4. /\ ByBarrier(j)' = ByBarrier(j) \ {x}
        /\ x \in ByBarrier(j) <=> j \in b.charges
        /\ x \in Folds
    <2>1. j \notin NoBarrier.charges
      BY DEF NoBarrier
    <2> QED  BY <2>1, BarrierHolders
  <1> HIDE DEF x
  <1>5. CASE j = l
    <2>1. ByBarrier(j)' = ByBarrier(j)
      BY <1>4, <1>5
    <2>2. Holders(j)' = Holders(j) \cup {k} /\ k \notin Holders(j)
      BY <2>1, <1>2, <1>3, <1>5
    <2>3. Cardinality(Holders(j)') = Cardinality(Holders(j)) + 1
      BY <2>2, AddHolder
    <2> QED  BY <2>3, <1>1, <1>5 DEF Entered
  <1>6. CASE j # l /\ j \in b.charges
    <2>1. /\ Holders(j)' = (Holders(j) \ {x}) \cup {k}
          /\ k \notin Holders(j) /\ x \in Holders(j)
      BY <1>2, <1>3, <1>4, <1>6
    <2> SUFFICES ASSUME NEW H, H = Holders(j), NEW G, G = Holders(j)'
                 PROVE  Cardinality(G) = Cardinality(H)
      BY <1>1, <1>6 DEF Entered
    <2>2. IsFiniteSet(H) /\ Cardinality(H) \in Nat
      BY <1>3, FS_CardinalityType
    <2>3. IsFiniteSet(H \ {x}) /\ Cardinality(H \ {x}) = Cardinality(H) - 1
      BY <2>1, <2>2, FS_RemoveElement
    <2>4. Cardinality((H \ {x}) \cup {k}) = Cardinality(H \ {x}) + 1
      BY <2>1, <2>3, FS_AddElement
    <2>5. Cardinality((H \ {x}) \cup {k}) = Cardinality(H)
      BY <2>2, <2>3, <2>4
    <2> QED  BY <2>1, <2>5
  <1>7. CASE j # l /\ j \notin b.charges
    <2>1. ByBarrier(j)' = ByBarrier(j) /\ ByCredit(j)' = ByCredit(j)
      BY <1>2, <1>4, <1>7
    <2>2. Holders(j)' = Holders(j)
      BY <2>1, <1>3
    <2> QED  BY <2>2, <1>1, <1>7 DEF Entered
  <1> QED  BY <1>5, <1>6, <1>7

(* There are finitely many ports.                                           *)
LEMMA PortsFinite == IsFiniteSet(Port)
  <1>1. IsFiniteSet(Node \X Node)
    BY NodeFinite, FS_Product
  <1>2. Port \in SUBSET (Node \X Node)
    <2>1. \A l \in Port : l \in Link
      BY LinkKinds
    <2>2. \A l \in Link : l = <<l[1], l[2]>> /\ l[1] \in Node /\ l[2] \in Node
      BY LinkShape
    <2> QED  BY <2>1, <2>2
  <1> QED  BY <1>1, <1>2, FS_Subset

(* The ports that hold copies of a packet are finitely many.                *)
LEMMA HoldFacts ==
    ASSUME NEW k
    PROVE  /\ HoldSet(k) \subseteq Port /\ IsFiniteSet(HoldSet(k))
           /\ Cardinality(HoldSet(k)) \in Nat
           /\ \A j \in Port : Pkts(out[j]) \subseteq InTransit(j)
  <1>1. HoldSet(k) \in SUBSET Port
    BY DEF HoldSet
  <1>2. IsFiniteSet(HoldSet(k))
    BY <1>1, PortsFinite, FS_Subset
  <1> QED  BY <1>1, <1>2, FS_CardinalityType, TransitRan

(* A packet that is on no port of its switch has no live credit there.      *)
LEMMA FreshKey ==
    ASSUME Types, Held, NEW s \in Switch, NEW q,
           \A b \in Neighbours(s) : q \notin InTransit(<<s, b>>)
    PROVE  <<s, q>> \notin DOMAIN credit
  <1> SUFFICES ASSUME <<s, q>> \in DOMAIN credit PROVE FALSE
    OBVIOUS
  <1> DEFINE k == <<s, q>>
  <1>1. credit[k].pending = Cardinality(HoldSet(k)) /\ credit[k].pending \in Nat \ {0}
    BY DEF Held, Types
  <1>2. ASSUME NEW j \in HoldSet(k) PROVE FALSE
    <2>1. j \in Port /\ j \in Link /\ j[1] = s /\ q \in Pkts(out[j])
      BY <1>2, LinkKinds DEF HoldSet
    <2>2. j = <<s, j[2]>> /\ j[2] \in Neighbours(s)
      BY <2>1, LinkShape, NeighbourLinks
    <2>3. q \in InTransit(j)
      BY <2>1, HoldFacts
    <2> QED  BY <2>2, <2>3
  <1>3. HoldSet(k) = {}
    BY <1>2
  <1> QED  BY <1>1, <1>3, FS_EmptySet

(* As many links as neighbours.                                             *)
LEMMA SpokeCount ==
    ASSUME NEW T, IsFiniteSet(T), NEW s
    PROVE  Cardinality({<<s, b>> : b \in T}) = Cardinality(T)
  <1> DEFINE D == {<<s, b>> : b \in T}
             f == [b \in T |-> <<s, b>>]
  <1>1. f \in [T -> D]
    OBVIOUS
  <1>2. \A a, b \in T : f[a] = f[b] => a = b
    OBVIOUS
  <1>3. \A x \in D : \E b \in T : f[b] = x
    OBVIOUS
  <1>4. f \in Bijection(T, D)
    BY <1>1, <1>2, <1>3, Fun_IsBij
  <1> QED  BY <1>4, FS_Bijection DEF ExistsBijection

(* A new credit waits for as many copies as are made.                       *)
LEMMA OpenHeld ==
    ASSUME Types, Held, NEW l, NEW s \in Switch, NEW q \in Packet,
           NEW T \in SUBSET Neighbours(s), IsFiniteSet(T),
           \A b \in Neighbours(s) : q \notin InTransit(<<s, b>>),
           Forwarded(l, s, q, T),
           NEW C, Opened(<<s, q>>, C, Cardinality(T))
    PROVE  Held'
  <1> DEFINE key == <<s, q>>
  <1>1. /\ \A j \in Link : j[1] = s /\ j[2] \in T => Pkts(out'[j]) = Pkts(out[j]) \cup {q}
        /\ \A j \in Link : ~(j[1] = s /\ j[2] \in T) => out'[j] = out[j]
    BY DEF Forwarded
  <1>2. /\ DOMAIN credit' = DOMAIN credit \cup {key}
        /\ credit'[key].pending = Cardinality(T)
        /\ \A j \in DOMAIN credit : j # key => credit'[j] = credit[j]
    BY DEF Opened
  <1>3. \A j \in Port : j \in Link
    BY LinkKinds
  <1>4. \A j \in Port : j[1] = s => q \notin Pkts(out[j])
    <2> SUFFICES ASSUME NEW j \in Port, j[1] = s PROVE q \notin Pkts(out[j])
      OBVIOUS
    <2>1. j = <<s, j[2]>> /\ j[2] \in Neighbours(s)
      BY <1>3, LinkShape, NeighbourLinks
    <2> QED  BY <2>1, HoldFacts
  <1>5. HoldSet(key)' = {<<s, b>> : b \in T}
    <2>1. ASSUME NEW j \in HoldSet(key)' PROVE j \in {<<s, b>> : b \in T}
      <3>1. j \in Port /\ j \in Link /\ j[1] = s /\ q \in Pkts(out'[j])
        BY <2>1, <1>3 DEF HoldSet
      <3>2. j[2] \in T
        BY <3>1, <1>1, <1>4
      <3>3. j = <<s, j[2]>>
        BY <3>1, LinkShape
      <3> QED  BY <3>2, <3>3
    <2>2. ASSUME NEW b \in T PROVE <<s, b>> \in HoldSet(key)'
      <3>1. <<s, b>> \in Port /\ <<s, b>> \in Link
        BY NeighbourLinks
      <3>2. q \in Pkts(out'[<<s, b>>])
        BY <3>1, <1>1
      <3> QED  BY <3>1, <3>2 DEF HoldSet
    <2> QED  BY <2>1, <2>2
  <1>6. credit'[key].pending = Cardinality(HoldSet(key)')
    BY <1>2, <1>5, SpokeCount
  <1>7. ASSUME NEW k \in DOMAIN credit, k # key
        PROVE  credit'[k].pending = Cardinality(HoldSet(k)')
    <2>1. k = <<k[1], k[2]>>
      BY DEF Types
    <2>2. \A j \in Port : j[1] = k[1] =>
            (k[2] \in Pkts(out'[j]) <=> k[2] \in Pkts(out[j]))
      <3> SUFFICES ASSUME NEW j \in Port, j[1] = k[1]
                   PROVE  k[2] \in Pkts(out'[j]) <=> k[2] \in Pkts(out[j])
        OBVIOUS
      <3>1. CASE j[1] = s /\ j[2] \in T
        BY <3>1, <2>1, <1>1, <1>3, <1>7
      <3>2. CASE ~(j[1] = s /\ j[2] \in T)
        BY <3>2, <1>1, <1>3
      <3> QED  BY <3>1, <3>2
    <2>3. HoldSet(k)' = HoldSet(k)
      BY <2>2 DEF HoldSet
    <2>4. credit[k].pending = Cardinality(HoldSet(k))
      BY DEF Held
    <2> QED  BY <2>3, <2>4, <1>2, <1>7
  <1>8. ASSUME NEW j \in Port, NEW p \in Pkts(out'[j]) PROVE <<j[1], p>> \in DOMAIN credit'
    <2>1. CASE p \in Pkts(out[j])
      BY <2>1, <1>2 DEF Held
    <2>2. CASE p \notin Pkts(out[j])
      <3>1. p = q /\ j[1] = s
        BY <2>2, <1>1, <1>3, <1>8
      <3> QED  BY <3>1, <1>2
    <2> QED  BY <2>1, <2>2
  <1>9. \A k \in DOMAIN credit' : credit'[k].pending = Cardinality(HoldSet(k)')
    BY <1>2, <1>6, <1>7
  <1> QED  BY <1>8, <1>9 DEF Held

(* The copy of a packet has left port l of its switch.                      *)
LEMMA SettleHeld ==
    ASSUME Types, Held, NEW l \in Port, NEW e, SentOut(l, e), NEW k, k = e.key, Settle(k)
    PROVE  /\ Held' /\ k \in DOMAIN credit
           /\ \A j \in DOMAIN credit' : j \in DOMAIN credit /\ credit'[j].charges = credit[j].charges
           /\ DOMAIN credit' \subseteq Switch \X Packet
           /\ IsFiniteSet(DOMAIN credit')
           /\ \A j \in DOMAIN credit' :
                credit'[j] \in [charges : SUBSET Ingress, pending : Nat \ {0}]
  <1>1. /\ k = <<l[1], e.pkt>> /\ e.pkt \in Pkts(out[l]) /\ e.pkt \in Packet
        /\ Pkts(out'[l]) = Pkts(out[l]) \ {e.pkt}
        /\ \A j \in Link \ {l} : out'[j] = out[j]
    BY DEF SentOut
  <1>2. \A j \in Port : j \in Link
    BY LinkKinds
  <1>3. k \in DOMAIN credit
    BY <1>1 DEF Held
  <1>4. /\ credit[k].pending = Cardinality(HoldSet(k))
        /\ credit[k] \in [charges : SUBSET Ingress, pending : Nat \ {0}]
        /\ credit[k].pending \in Nat \ {0}
        /\ credit[k].charges \in SUBSET Ingress
    BY <1>3 DEF Held, Types
  <1>5. l \in HoldSet(k)
    BY <1>1 DEF HoldSet
  <1>6. HoldSet(k)' = HoldSet(k) \ {l}
    <2>1. ASSUME NEW j \in Port, j # l
          PROVE  j \in HoldSet(k)' <=> j \in HoldSet(k)
      BY <2>1, <1>1, <1>2 DEF HoldSet
    <2>2. l \notin HoldSet(k)'
      BY <1>1 DEF HoldSet
    <2>3. HoldSet(k) \subseteq Port /\ HoldSet(k)' \subseteq Port
      BY DEF HoldSet
    <2> QED  BY <2>1, <2>2, <2>3
  <1>7. Cardinality(HoldSet(k)') = Cardinality(HoldSet(k)) - 1 /\ IsFiniteSet(HoldSet(k)')
    BY <1>5, <1>6, HoldFacts, FS_RemoveElement
  <1>8. ASSUME NEW x \in DOMAIN credit, x # k PROVE HoldSet(x)' = HoldSet(x)
    <2>1. x = <<x[1], x[2]>>
      BY DEF Types
    <2>2. ASSUME NEW j \in Port PROVE j \in HoldSet(x)' <=> j \in HoldSet(x)
      <3>1. CASE j = l
        BY <3>1, <2>1, <1>1, <1>8 DEF HoldSet
      <3>2. CASE j # l
        BY <3>2, <1>1, <1>2 DEF HoldSet
      <3> QED  BY <3>1, <3>2
    <2>3. HoldSet(x) \subseteq Port /\ HoldSet(x)' \subseteq Port
      BY DEF HoldSet
    <2> QED  BY <2>2, <2>3
  <1>9. CASE credit[k].pending = 1
    <2>1. credit' = [j \in DOMAIN credit \ {k} |-> credit[j]]
      BY <1>9 DEF Settle, ReleaseAll
    <2>2. DOMAIN credit' = DOMAIN credit \ {k} /\ \A j \in DOMAIN credit' : credit'[j] = credit[j]
      BY <2>1
    <2>3. HoldSet(k)' = {}
      <3>1. Cardinality(HoldSet(k)') = 0
        BY <1>4, <1>7, <1>9
      <3> QED  BY <3>1, <1>7, FS_EmptySet
    <2>4. ASSUME NEW j \in Port, NEW p \in Pkts(out'[j]) PROVE <<j[1], p>> \in DOMAIN credit'
      <3>1. p \in Pkts(out[j])
        BY <2>4, <1>1, <1>2
      <3>2. <<j[1], p>> \in DOMAIN credit
        BY <3>1 DEF Held
      <3>3. <<j[1], p>> # k
        <4> SUFFICES ASSUME <<j[1], p>> = k PROVE FALSE
          OBVIOUS
        <4>1. j \in HoldSet(k)'
          BY <2>4, <1>1 DEF HoldSet
        <4> QED  BY <4>1, <2>3
      <3> QED  BY <3>2, <3>3, <2>2
    <2>5. \A x \in DOMAIN credit' : credit'[x].pending = Cardinality(HoldSet(x)')
      <3> TAKE x \in DOMAIN credit'
      <3>1. x \in DOMAIN credit /\ x # k /\ credit'[x] = credit[x]
        BY <2>2
      <3>2. HoldSet(x)' = HoldSet(x)
        BY <3>1, <1>8
      <3> QED  BY <3>1, <3>2 DEF Held
    <2>6. Held'
      BY <2>4, <2>5 DEF Held
    <2>7. DOMAIN credit' \subseteq Switch \X Packet
      BY <2>2 DEF Types
    <2>8. IsFiniteSet(DOMAIN credit')
      <3>1. IsFiniteSet(DOMAIN credit) /\ DOMAIN credit' \in SUBSET (DOMAIN credit)
        BY <2>2 DEF Types
      <3> QED  BY <3>1, FS_Subset
    <2>9. \A j \in DOMAIN credit' :
                credit'[j] \in [charges : SUBSET Ingress, pending : Nat \ {0}]
      BY <2>2 DEF Types
    <2> QED  BY <2>2, <2>6, <2>7, <2>8, <2>9, <1>3
  <1>10. CASE credit[k].pending # 1
    <2>1. credit' = [credit EXCEPT ![k].pending = @ - 1]
      BY <1>10 DEF Settle
    <2>2. /\ DOMAIN credit' = DOMAIN credit
          /\ \A j \in DOMAIN credit : j # k => credit'[j] = credit[j]
          /\ credit'[k] = [charges |-> credit[k].charges, pending |-> credit[k].pending - 1]
      BY <2>1, <1>3, <1>4
    <2>3. credit[k].pending - 1 \in Nat \ {0}
      BY <1>4, <1>10
    <2>4. \A x \in DOMAIN credit' : credit'[x].pending = Cardinality(HoldSet(x)')
      <3> TAKE x \in DOMAIN credit'
      <3>1. CASE x = k
        BY <3>1, <2>2, <1>4, <1>7
      <3>2. CASE x # k
        <4>1. HoldSet(x)' = HoldSet(x)
          BY <3>2, <2>2, <1>8
        <4> QED  BY <4>1, <3>2, <2>2 DEF Held
      <3> QED  BY <3>1, <3>2
    <2>5. ASSUME NEW j \in Port, NEW p \in Pkts(out'[j]) PROVE <<j[1], p>> \in DOMAIN credit'
      <3>1. p \in Pkts(out[j])
        BY <2>5, <1>1, <1>2
      <3> QED  BY <3>1, <2>2 DEF Held
    <2>6. Held'
      BY <2>4, <2>5 DEF Held
    <2>7. \A j \in DOMAIN credit' :
                credit'[j] \in [charges : SUBSET Ingress, pending : Nat \ {0}]
      <3>1. credit'[k] \in [charges : SUBSET Ingress, pending : Nat \ {0}]
        <4>1. [charges |-> credit[k].charges, pending |-> credit[k].pending - 1]
                \in [charges : SUBSET Ingress, pending : Nat \ {0}]
          BY <2>3, <1>4
        <4> QED  BY <4>1, <2>2
      <3>2. \A j \in DOMAIN credit :
                credit[j] \in [charges : SUBSET Ingress, pending : Nat \ {0}]
        BY DEF Types
      <3> QED  BY <3>1, <3>2, <2>2
    <2>8. \A j \in DOMAIN credit' : credit'[j].charges = credit[j].charges
      BY <2>2
    <2> QED  BY <2>2, <2>6, <2>7, <2>8, <1>3 DEF Types
  <1> QED  BY <1>9, <1>10

(* The frame in flight on link l is done. *)
Served(l) ==
    /\ st' = [st EXCEPT ![l] = AfterService(@)]
    /\ \A k \in Link \ {l} : out'[k] = out[k]

(* The end of a service leaves who is stopped as it was.                    *)
LEMMA ServedFacts ==
    ASSUME Types, FlowSound, NEW l \in Link, Served(l)
    PROVE  /\ st' \in [Link -> SendState]
           /\ \A j \in Link : st'[j] = "READY" <=> st[j] = "READY"
           /\ \A j \in Link : st'[j] = "PAUSE_RECEIVED" => out'[j] # <<>>
  <1>1. st \in [Link -> SendState] /\ st' = [st EXCEPT ![l] = AfterService(@)]
    BY DEF Types, Served
  <1>2. /\ \A j \in Link : j # l => st'[j] = st[j]
        /\ st'[l] = AfterService(st[l])
    BY <1>1
  <1>3. /\ AfterService(st[l]) \in SendState
        /\ AfterService(st[l]) = "READY" <=> st[l] = "READY"
        /\ AfterService(st[l]) # "PAUSE_RECEIVED"
    BY <1>1 DEF AfterService, SendState
  <1>4. st' \in [Link -> SendState]
    BY <1>1, <1>3
  <1>5. \A j \in Link : st'[j] = "PAUSE_RECEIVED" => out'[j] # <<>>
    BY <1>2, <1>3 DEF Served, FlowSound
  <1> QED  BY <1>2, <1>3, <1>4, <1>5

(* It keeps flow control sound.                                             *)
LEMMA ServedFlow ==
    ASSUME Types, FlowSound, NEW l \in Link, Served(l), UNCHANGED <<iq, pwire>>
    PROVE  FlowSound' /\ FlowTypes'
  <1>1. /\ st' \in [Link -> SendState]
        /\ \A j \in Link : st'[j] = "READY" <=> st[j] = "READY"
        /\ \A j \in Link : st'[j] = "PAUSE_RECEIVED" => out'[j] # <<>>
    BY ServedFacts
  <1>2. ASSUME NEW j \in Ingress PROVE FlowOn(j)'
    <2>1. FlowOn(j) /\ j \in Link
      BY LinkKinds DEF FlowSound
    <2> QED  BY <2>1, <1>1, FlowSame
  <1> QED  BY <1>1, <1>2 DEF FlowSound, FlowTypes, Types

(* Charges that nobody touches.                                             *)
LEMMA OccSame ==
    ASSUME Charges, iq' = iq, barrier' = barrier,
           \A l \in Ingress : ByCredit(l)' = ByCredit(l)
    PROVE  Charges'
  <1> SUFFICES ASSUME NEW j \in Ingress PROVE iq'[j].occ = Cardinality(Holders(j)')
    BY DEF Charges
  <1>1. Holders(j)' = Holders(j)
    <2>1. ByBarrier(j)' = ByBarrier(j)
      BY DEF ByBarrier
    <2>2. Holders(j) = ByCredit(j) \cup ByBarrier(j)
      BY DEF Holders, ByCredit, ByBarrier, Folds
    <2> QED  BY <2>1, <2>2, HoldersNext
  <1> QED  BY <1>1 DEF Charges

(* The last copy of a packet has gone, and its charges with it.             *)
LEMMA ReleaseFlow ==
    ASSUME Types, FlowSound, Charges, NEW l \in Link, Served(l),
           NEW k \in DOMAIN credit, ReleaseAll(k), barrier' = barrier
    PROVE  FlowSound' /\ FlowTypes' /\ Charges'
  <1>1. /\ st' \in [Link -> SendState]
        /\ \A j \in Link : st'[j] = "READY" <=> st[j] = "READY"
        /\ \A j \in Link : st'[j] = "PAUSE_RECEIVED" => out'[j] # <<>>
    BY ServedFacts
  <1>2. /\ DOMAIN credit' = DOMAIN credit \ {k} /\ \A j \in DOMAIN credit' : credit'[j] = credit[j]
        /\ \A j \in Ingress : j \in credit[k].charges =>
             iq'[j] = Release(iq[j]) /\ pwire'[j] = pwire[j] \o FramesOnRelease(iq[j])
        /\ \A j \in Ingress : j \notin credit[k].charges =>
             iq'[j] = iq[j] /\ pwire'[j] = pwire[j]
        /\ iq' = [j \in Ingress |-> iq'[j]] /\ pwire' = [j \in Ingress |-> pwire'[j]]
    BY DEF ReleaseAll
  <1>3. k \in Switch \X Packet
    BY DEF Types
  <1>4. ASSUME NEW j \in Ingress
        PROVE  /\ FlowOn(j) /\ FlowType(j) /\ j \in Link
               /\ iq[j].occ = Cardinality(Holders(j)) /\ IsFiniteSet(Holders(j))
               /\ k \in Holders(j) <=> j \in credit[k].charges
               /\ Holders(j)' = Holders(j) \ {k}
    <2>1. FlowOn(j) /\ FlowType(j) /\ j \in Link
      BY LinkKinds DEF Types, FlowType, FlowSound
    <2>2. /\ iq[j].occ = Cardinality(Holders(j)) /\ IsFiniteSet(Holders(j))
          /\ Holders(j) = ByCredit(j) \cup ByBarrier(j) /\ ByBarrier(j) \subseteq Folds
      BY HolderFacts DEF Charges
    <2>3. k \notin Folds
      BY <1>3, PairNotFold
    <2>4. k \in ByCredit(j) <=> j \in credit[k].charges
      BY DEF ByCredit
    <2>5. ByCredit(j)' = ByCredit(j) \ {k}
      BY <1>2 DEF ByCredit
    <2>6. ByBarrier(j)' = ByBarrier(j)
      BY DEF ByBarrier
    <2>7. Holders(j)' = ByCredit(j)' \cup ByBarrier(j)'
      BY HoldersNext
    <2> QED  BY <2>1, <2>2, <2>3, <2>4, <2>5, <2>6, <2>7
  <1>5. ASSUME NEW j \in Ingress, j \in credit[k].charges
        PROVE  FlowOn(j)' /\ FlowType(j)' /\ iq'[j].occ = Cardinality(Holders(j)')
    <2>1. /\ Cardinality(Holders(j)') = Cardinality(Holders(j)) - 1
          /\ Cardinality(Holders(j)) \in Nat /\ Cardinality(Holders(j)) # 0
      <3>1. Cardinality(Holders(j) \ {k}) = Cardinality(Holders(j)) - 1
        BY <1>4, <1>5, FS_RemoveElement
      <3>2. Cardinality(Holders(j)) \in Nat /\ Cardinality(Holders(j)) # 0
        BY <1>4, <1>5, FS_CardinalityType, FS_EmptySet
      <3> QED  BY <3>1, <3>2, <1>4
    <2>2. iq[j].occ > 0
      BY <2>1, <1>4
    <2>3. /\ iq'[j] = Release(iq[j]) /\ pwire'[j] = pwire[j] \o FramesOnRelease(iq[j])
          /\ st'[j] \in SendState /\ (st'[j] = "READY" <=> st[j] = "READY")
      BY <1>1, <1>2, <1>4, <1>5
    <2>4. FlowOn(j)' /\ FlowType(j)' /\ iq'[j].occ = iq[j].occ - 1
      BY <2>2, <2>3, <1>4, FlowRelease
    <2> QED  BY <2>1, <2>4, <1>4
  <1>6. ASSUME NEW j \in Ingress, j \notin credit[k].charges
        PROVE  FlowOn(j)' /\ FlowType(j)' /\ iq'[j].occ = Cardinality(Holders(j)')
    <2>1. /\ iq'[j] = iq[j] /\ pwire'[j] = pwire[j]
          /\ st'[j] \in SendState /\ (st'[j] = "READY" <=> st[j] = "READY")
      BY <1>1, <1>2, <1>4, <1>6
    <2>2. FlowOn(j)'
      BY <2>1, <1>4, FlowSame
    <2>3. FlowType(j)'
      BY <2>1, <1>4 DEF FlowType
    <2>4. Holders(j)' = Holders(j)
      BY <1>4, <1>6
    <2> QED  BY <2>1, <2>2, <2>3, <2>4, <1>4
  <1>7. \A j \in Ingress : FlowOn(j)' /\ FlowType(j)' /\ iq'[j].occ = Cardinality(Holders(j)')
    BY <1>5, <1>6
  <1>8. FlowSound' /\ Charges'
    BY <1>1, <1>7 DEF FlowSound, Charges
  <1>9. FlowTypes'
    <2>1. \A j \in Ingress : iq'[j] \in IngressType /\ pwire'[j] \in Seq(Frame)
      BY <1>7 DEF FlowType
    <2>2. iq' \in [Ingress -> IngressType] /\ pwire' \in [Ingress -> Seq(Frame)]
      BY <1>2, <2>1
    <2> QED  BY <2>2, <1>1 DEF FlowTypes
  <1> QED  BY <1>8, <1>9

(* A drained copy, the last or not, keeps flow control and the charges.     *)
LEMMA SettleFlow ==
    ASSUME Types, FlowSound, Charges, NEW l \in Link, Served(l),
           NEW k \in DOMAIN credit, Settle(k), barrier' = barrier
    PROVE  FlowSound' /\ FlowTypes' /\ Charges'
  <1>1. CASE credit[k].pending = 1
    <2>1. ReleaseAll(k)
      BY <1>1 DEF Settle
    <2> QED  BY <2>1, ReleaseFlow
  <1>2. CASE credit[k].pending # 1
    <2>1. credit' = [credit EXCEPT ![k].pending = @ - 1] /\ UNCHANGED <<iq, pwire>>
      BY <1>2 DEF Settle
    <2>2. credit[k] \in [charges : SUBSET Ingress, pending : Nat \ {0}]
      BY DEF Types
    <2>3. /\ DOMAIN credit' = DOMAIN credit
          /\ \A j \in DOMAIN credit : credit'[j].charges = credit[j].charges
      BY <2>1, <2>2
    <2>4. \A j \in Ingress : ByCredit(j)' = ByCredit(j)
      BY <2>3 DEF ByCredit
    <2> QED  BY <2>1, <2>4, OccSame, ServedFlow
  <1> QED  BY <1>1, <1>2

(* The arrival of a frame keeps flow control sound.                         *)
LEMMA FrameFlow ==
    ASSUME Types, FlowSound, NEW l \in Ingress, ReceiveFrame(l)
    PROVE  FlowSound' /\ FlowTypes'
  <1>1. /\ pwire[l] # <<>> /\ UNCHANGED <<iq, out>>
        /\ st' = [st EXCEPT ![l] = OnFrame(Head(pwire[l]), Sending(l))]
        /\ pwire' = [pwire EXCEPT ![l] = Tail(@)]
    BY DEF ReceiveFrame
  <1>2. /\ l \in Link /\ st \in [Link -> SendState] /\ pwire \in [Ingress -> Seq(Frame)]
        /\ \A j \in Ingress : FlowType(j) /\ FlowOn(j) /\ j \in Link
    BY LinkKinds DEF Types, FlowType, FlowSound
  <1>3. /\ st'[l] = OnFrame(Head(pwire[l]), Sending(l)) /\ pwire'[l] = Tail(pwire[l])
        /\ \A j \in Link : j # l => st'[j] = st[j]
        /\ \A j \in Ingress : j # l => pwire'[j] = pwire[j]
    BY <1>1, <1>2
  <1>4. Sending(l) \in BOOLEAN
    BY DEF Sending
  <1>5. FlowOn(l)' /\ FlowType(l)'
    <2> SUFFICES ASSUME NEW g \in BOOLEAN, g = Sending(l) PROVE FlowOn(l)' /\ FlowType(l)'
      BY <1>4
    <2>1. st'[l] = OnFrame(Head(pwire[l]), g) /\ iq'[l] = iq[l]
      BY <1>1, <1>3
    <2> QED  BY <2>1, <1>1, <1>2, <1>3, FlowFrame
  <1>6. \A j \in Ingress : FlowOn(j)' /\ FlowType(j)'
    <2> TAKE j \in Ingress
    <2>1. CASE j = l
      BY <2>1, <1>5
    <2>2. CASE j # l
      <3>1. iq'[j] = iq[j] /\ pwire'[j] = pwire[j] /\ st'[j] = st[j]
        BY <2>2, <1>1, <1>2, <1>3
      <3>2. FlowOn(j)'
        BY <3>1, <1>2, FlowSame
      <3> QED  BY <3>1, <3>2, <1>2 DEF FlowType
    <2> QED  BY <2>1, <2>2
  <1>7. \A j \in Link : st'[j] = "PAUSE_RECEIVED" => out'[j] # <<>>
    <2> TAKE j \in Link
    <2>1. CASE j = l
      <3>1. st'[l] = "PAUSE_RECEIVED" => Sending(l)
        BY <1>3 DEF OnFrame
      <3>2. Sending(l) => out[l] # <<>>
        BY <1>2 DEF Sending, FlowSound
      <3> QED  BY <3>1, <3>2, <2>1, <1>1
    <2>2. CASE j # l
      BY <2>2, <1>1, <1>3 DEF FlowSound
    <2> QED  BY <2>1, <2>2
  <1>8. FlowTypes'
    <2>1. st'[l] \in SendState /\ pwire'[l] \in Seq(Frame)
      BY <1>5 DEF FlowType
    <2>2. st' \in [Link -> SendState] /\ pwire' \in [Ingress -> Seq(Frame)]
      BY <2>1, <1>1, <1>2, <1>3
    <2>3. iq' \in [Ingress -> IngressType]
      BY <1>1 DEF Types
    <2> QED  BY <2>2, <2>3 DEF FlowTypes
  <1> QED  BY <1>6, <1>7, <1>8 DEF FlowSound
-----------------------------------------------------------------------------

(* What a member has is part of what it is owed.                            *)
LEMMA SeenFacts ==
    ASSUME Data, NEW o \in Op, NEW h \in Member
    PROVE  /\ seen[o][h] \subseteq Due(o, h) /\ IsFiniteSet(seen[o][h])
           /\ Cardinality(seen[o][h]) \in Nat
           /\ Cardinality(seen[o][h]) <= Cardinality(Due(o, h))
           /\ Cardinality(seen[o][h]) = Cardinality(Due(o, h)) => seen[o][h] = Due(o, h)
  <1>1. seen[o][h] \in SUBSET Due(o, h)
    BY DEF Data, Results
  <1>2. IsFiniteSet(Due(o, h))
    BY DueCount
  <1> QED  BY <1>1, <1>2, FS_Subset, FS_CardinalityType

(* Those that lack something are finitely many.                             *)
LEMMA LackingFacts ==
    ASSUME NEW o \in Op
    PROVE  Lacking(o) \subseteq Member /\ IsFiniteSet(Lacking(o))
           /\ Cardinality(Lacking(o)) \in Nat
  <1>1. Lacking(o) \in SUBSET Member
    BY OpShape DEF Lacking
  <1> QED  BY <1>1, MemberCount, FS_Subset, FS_CardinalityType

(* A delivery counts a piece the member has not had; the one that completes *)
(* the sink, and no other, activates the trigger.                           *)
LEMMA DeliverCounts ==
    ASSUME Types, Data, Counts, NEW l, NEW p, NEW h, NEW o, Delivered(l, p, h, o),
           UNCHANGED <<listed, started>>
    PROVE  Counts' /\ remaining' \in [Op -> Nat]
  <1> DEFINE x == <<p.c, p.of>>
  <1>1. /\ h \in Member /\ o \in Op /\ h \in Receivers(o)
        /\ x \in Due(o, h) /\ x \notin seen[o][h]
    BY DEF Delivered, Owed
  <1>2. /\ got'[o][h] = got[o][h] + 1
        /\ seen'[o][h] = seen[o][h] \cup {x}
        /\ \A q \in Op, g \in Member : q # o \/ g # h =>
             got'[q][g] = got[q][g] /\ seen'[q][g] = seen[q][g]
        /\ remaining' = IF got[o][h] + 1 = Expected(o)
                        THEN [remaining EXCEPT ![o] = @ - 1] ELSE remaining
    BY DEF Delivered, PieceCounted
  <1> HIDE DEF x
  <1>3. /\ got[o][h] = Cardinality(seen[o][h]) /\ remaining \in [Op -> Nat]
        /\ \A q \in Op : remaining[q] = Cardinality(Lacking(q))
    BY <1>1 DEF Counts, Types
  <1>4. /\ seen[o][h] \subseteq Due(o, h) /\ IsFiniteSet(seen[o][h])
        /\ Cardinality(seen[o][h]) \in Nat
        /\ Cardinality(seen[o][h]) <= Cardinality(Due(o, h))
        /\ seen[o][h] # Due(o, h) => Cardinality(seen[o][h]) # Cardinality(Due(o, h))
    BY <1>1, SeenFacts
  <1>5. Cardinality(seen'[o][h]) = got'[o][h]
    <2>1. Cardinality(seen[o][h] \cup {x}) = Cardinality(seen[o][h]) + 1
      BY <1>1, <1>4, FS_AddElement
    <2> QED  BY <2>1, <1>2, <1>3
  <1>6. got[o][h] < Expected(o) /\ Expected(o) \in Nat
    <2>1. Cardinality(Due(o, h)) = Expected(o) /\ Expected(o) \in Nat
      BY <1>1, DueCount
    <2>2. Cardinality(seen[o][h]) # Cardinality(Due(o, h))
      BY <1>1, <1>4
    <2> QED  BY <2>1, <2>2, <1>3, <1>4
  <1>7. \A q \in Op : Lacking(q) \subseteq Member /\ IsFiniteSet(Lacking(q))
                      /\ Cardinality(Lacking(q)) \in Nat
    BY LackingFacts
  <1>8. \A q \in Op : Receivers(q) \subseteq Member
    BY OpShape
  <1>9. ASSUME NEW q \in Op, q # o
        PROVE  remaining'[q] = Cardinality(Lacking(q)') /\ remaining'[q] \in Nat
    <2>1. Lacking(q)' = Lacking(q)
      BY <1>2, <1>8, <1>9 DEF Lacking
    <2>2. remaining'[q] = remaining[q]
      BY <1>2, <1>3, <1>9
    <2> QED  BY <2>1, <2>2, <1>3
  <1>10. h \in Lacking(o)
    BY <1>1, <1>6 DEF Lacking
  <1>11. remaining'[o] = Cardinality(Lacking(o)') /\ remaining'[o] \in Nat
    <2>1. CASE got[o][h] + 1 = Expected(o)
      <3>1. Lacking(o)' = Lacking(o) \ {h}
        <4>1. ~(got'[o][h] < Expected(o))
          BY <2>1, <1>2, <1>6
        <4>2. \A g \in Receivers(o) : g # h => got'[o][g] = got[o][g]
          BY <1>1, <1>2, <1>8
        <4> QED  BY <4>1, <4>2 DEF Lacking
      <3>2. remaining'[o] = remaining[o] - 1
        BY <2>1, <1>1, <1>2, <1>3
      <3>3. Cardinality(Lacking(o) \ {h}) = Cardinality(Lacking(o)) - 1
        BY <1>1, <1>7, <1>10, FS_RemoveElement
      <3>4. IsFiniteSet(Lacking(o) \ {h}) /\ Cardinality(Lacking(o) \ {h}) \in Nat
        BY <1>1, <1>7, FS_RemoveElement, FS_CardinalityType
      <3> QED  BY <3>1, <3>2, <3>3, <3>4, <1>1, <1>3
    <2>2. CASE got[o][h] + 1 # Expected(o)
      <3>1. Lacking(o)' = Lacking(o)
        <4>1. got'[o][h] < Expected(o)
          BY <2>2, <1>2, <1>3, <1>4, <1>6
        <4>2. \A g \in Receivers(o) : g # h => got'[o][g] = got[o][g]
          BY <1>1, <1>2, <1>8
        <4> QED  BY <4>1, <4>2, <1>6 DEF Lacking
      <3>2. remaining'[o] = remaining[o]
        BY <2>2, <1>2
      <3> QED  BY <3>1, <3>2, <1>1, <1>3
    <2> QED  BY <2>1, <2>2
  <1>12. \A q \in Op : remaining'[q] = Cardinality(Lacking(q)') /\ remaining'[q] \in Nat
    BY <1>9, <1>11
  <1>13. \A q \in Op, g \in Member : got'[q][g] = Cardinality(seen'[q][g])
    <2> TAKE q \in Op, g \in Member
    <2>1. CASE q = o /\ g = h
      BY <2>1, <1>5
    <2>2. CASE q # o \/ g # h
      BY <2>2, <1>2 DEF Counts
    <2> QED  BY <2>1, <2>2
  <1>14. Counts'
    BY <1>12, <1>13 DEF Counts
  <1>15. remaining' \in [Op -> Nat]
    <2>1. remaining' = [q \in Op |-> remaining'[q]]
      BY <1>2, <1>3
    <2> QED  BY <2>1, <1>12
  <1> QED  BY <1>14, <1>15

(* Books that nobody touches.                                               *)
LEMMA CountsSame ==
    ASSUME Counts, UNCHANGED <<listed, started, sinks>>
    PROVE  Counts'
  BY DEF Counts, Lacking, sinks

(* A start is of an operation that is listed, by one of its emitters.       *)
LEMMA StartCounts ==
    ASSUME Types, Counts, NEW o \in Op, NEW h \in Member, Start(o, h)
    PROVE  Counts' /\ started' \in [Op -> SUBSET Member]
  <1>1. /\ started' = [started EXCEPT ![o] = @ \cup {h}] /\ UNCHANGED <<got, seen, remaining, listed>>
        /\ o \in listed /\ h \in Emitters(o)
    BY DEF Start, sinks
  <1>2. started \in [Op -> SUBSET Member]
    BY DEF Types
  <1>3. started' \in [Op -> SUBSET Member]
    BY <1>1, <1>2
  <1>4. /\ \A q \in Op : started'[q] # {} => q \in listed
        /\ \A q \in Op : started'[q] \subseteq Emitters(q)
    BY <1>1, <1>2 DEF Counts
  <1>5. /\ \A q \in Op, g \in Member : got'[q][g] = Cardinality(seen'[q][g])
        /\ \A q \in Op : remaining'[q] = Cardinality(Lacking(q)')
    BY <1>1 DEF Counts, Lacking
  <1> QED  BY <1>1, <1>3, <1>4, <1>5 DEF Counts

(* The invariant holds at first.                                            *)
LEMMA InitInv == Init => IInv
  <1> SUFFICES ASSUME Init PROVE IInv
    OBVIOUS
  <1>1. /\ \A l \in Link : out[l] = <<>> /\ wire[l] = <<>> /\ st[l] = "READY"
        /\ \A l \in Ingress : iq[l] = IngressInit /\ pwire[l] = <<>>
        /\ DOMAIN credit = {}
        /\ \A s \in Switch, o \in Op, c \in AllChunks : barrier[s][o][c] = NoBarrier
        /\ \A o \in Op : started[o] = {} /\ remaining[o] = Activations(o)
        /\ \A o \in Op, h \in Member : got[o][h] = 0 /\ seen[o][h] = {}
    BY DEF Init
  <1>2. Queues
    <2>1. \A l \in Link : Good(l, <<>>, <<>>)
      <3>1. Ran(<<>>) = {} /\ Pkts(<<>>) = {} /\ Inj(<<>>)
        BY DEF Ran, Pkts, Inj
      <3> QED  BY <3>1 DEF Good
    <2>2. \A l \in Link : Good(l, out[l], wire[l])
      BY <2>1, <1>1
    <2>3. out \in [Link -> Seq(Slots)] /\ wire \in [Link -> Seq(Packet)]
      BY DEF Init
    <2> QED  BY <2>2, <2>3 DEF Queues
  <1>3. Types
    <2>1. \A o \in Op : Activations(o) \in Nat
      BY OpShape, MemberCount DEF Activations, Kinds
    <2>2. IngressInit \in IngressType /\ "READY" \in SendState
      BY DEF IngressInit, IngressType, SendState
    <2>3. remaining \in [Op -> Nat]
      BY <2>1 DEF Init
    <2>4. barrier \in [Switch -> [Op -> [AllChunks -> BarrierRec]]]
      BY NoBarrierType DEF Init
    <2>5. IsFiniteSet(DOMAIN credit)
      BY <1>1, FS_EmptySet
    <2>6. iq \in [Ingress -> IngressType] /\ pwire \in [Ingress -> Seq(Frame)] /\ st \in [Link -> SendState]
      BY <2>2 DEF Init
    <2>7. /\ listed \in Programs /\ started \in [Op -> SUBSET Member]
          /\ got \in [Op -> [Member -> Nat]]
          /\ seen \in [Op -> [Member -> SUBSET (Nat \X SUBSET Member)]]
      BY DEF Init
    <2> QED  BY <2>3, <2>4, <2>5, <2>6, <2>7, <1>1 DEF Types
  <1>4. \A l \in Link : InTransit(l) = {}
    BY <1>1 DEF InTransit
  <1>5. \A s \in Switch, o \in Op, c \in AllChunks :
          barrier[s][o][c].charges = {} /\ barrier[s][o][c].arrived = 0 /\ barrier[s][o][c].of = {}
    BY <1>1 DEF NoBarrier
  <1>6. Data
    <2>1. Shaped
      BY <1>4 DEF Shaped
    <2>2. Contributions
      <3> SUFFICES ASSUME NEW o \in Op, NEW c \in AllChunks PROVE OneContribution(o, c)
        BY DEF Contributions
      <3>1. ~Resulted(o, c)
        BY <1>1, <1>4 DEF Resulted
      <3>2. \A n \in Node \ {Apex} : ~Moving(n, o, c) /\ ~Waiting(n, o, c) /\ ~At(n, o, c)
        <4> TAKE n \in Node \ {Apex}
        <4>1. UpOf(n) \in Link /\ Parent[n] \in Switch
          BY LinkKinds, TreeBasics
        <4> QED  BY <4>1, <1>4, <1>5 DEF Moving, Waiting, At
      <3> QED  BY <3>1, <3>2 DEF OneContribution
    <2>3. Barriers
      <3> SUFFICES ASSUME NEW s \in Switch, NEW o \in Op, NEW c \in AllChunks
                   PROVE  SoundAt(s, o, c)
        BY DEF Barriers
      <3>1. Cardinality({}) = 0 /\ Children(s) # {} /\ UNION {Below[m] : m \in {}} = {}
        BY FS_EmptySet, ChildOfSwitch
      <3>2. InOf(barrier[s][o][c]) = {}
        BY <1>5 DEF InOf
      <3>3. UNION {Below[m] : m \in InOf(barrier[s][o][c])} = {}
        BY <3>2
      <3>4. /\ barrier[s][o][c].charges = {} /\ barrier[s][o][c].arrived = 0
            /\ barrier[s][o][c].of = {}
        BY <1>5
      <3>5. /\ barrier[s][o][c].charges \subseteq {UpOf(n) : n \in Children(s)}
            /\ barrier[s][o][c].arrived = Cardinality(barrier[s][o][c].charges)
        BY <3>1, <3>4
      <3>6. InOf(barrier[s][o][c]) # Children(s)
        BY <3>1, <3>2
      <3> QED  BY <3>3, <3>4, <3>5, <3>6 DEF SoundAt
    <2>4. Results
      BY <1>1, <1>4 DEF Results
    <2> QED  BY <2>1, <2>2, <2>3, <2>4 DEF Data
  <1>7. Counts
    <2>1. ASSUME NEW o \in Op PROVE remaining[o] = Cardinality(Lacking(o))
      <3>1. Receivers(o) \subseteq Member /\ Expected(o) \in Nat \ {0}
        BY OpShape, DueCount, MemberCount
      <3>2. Lacking(o) = Receivers(o)
        BY <3>1, <1>1 DEF Lacking
      <3>3. Cardinality(Receivers(o)) = Activations(o)
        BY OpShape
      <3> QED  BY <3>2, <3>3, <1>1
    <2> QED  BY <2>1, <1>1, FS_EmptySet DEF Counts
  <1>8. Held
    <2>1. \A l \in Port : Pkts(out[l]) = {}
      BY <1>1, LinkKinds DEF Pkts
    <2> QED  BY <2>1, <1>1 DEF Held
  <1>9. Charges
    <2> SUFFICES ASSUME NEW l \in Ingress PROVE iq[l].occ = Cardinality(Holders(l))
      BY DEF Charges
    <2>1. Holders(l) = ByCredit(l) \cup ByBarrier(l)
      BY DEF Holders, ByCredit, ByBarrier, Folds
    <2>2. ByCredit(l) = {}
      BY <1>1 DEF ByCredit
    <2>3. ByBarrier(l) = {}
      <3> SUFFICES ASSUME NEW x \in ByBarrier(l) PROVE FALSE
        OBVIOUS
      <3>1. PICK s \in Switch, o \in Op, c \in AllChunks : x = <<s, o, c>>
        BY DEF ByBarrier, Folds
      <3>2. l \in barrier[s][o][c].charges
        BY <3>1 DEF ByBarrier
      <3> QED  BY <3>2, <1>5
    <2> QED  BY <2>1, <2>2, <2>3, <1>1, FS_EmptySet DEF IngressInit
  <1>10. FlowSound
    BY <1>1, LinkKinds DEF FlowSound, FlowOn, IngressInit
  <1> QED  BY <1>2, <1>3, <1>6, <1>7, <1>8, <1>9, <1>10 DEF IInv
-----------------------------------------------------------------------------

(* The types of the live credits.                                           *)
CreditTypes ==
    /\ DOMAIN credit \subseteq Switch \X Packet
    /\ IsFiniteSet(DOMAIN credit)
    /\ \A k \in DOMAIN credit :
         credit[k] \in [charges : SUBSET Ingress, pending : Nat \ {0}]

(* Credits that nobody touches.                                             *)
LEMMA CreditSame ==
    ASSUME Types, credit' = credit
    PROVE  CreditTypes' /\ \A l \in Ingress : ByCredit(l)' = ByCredit(l)
  BY DEF Types, CreditTypes, ByCredit

(* The types after a step, put together.                                    *)
LEMMA TypesNext ==
    ASSUME FlowTypes', CreditTypes',
           listed' \in Programs,
           started' \in [Op -> SUBSET Member],
           barrier' \in [Switch -> [Op -> [AllChunks -> BarrierRec]]],
           got' \in [Op -> [Member -> Nat]],
           seen' \in [Op -> [Member -> SUBSET (Nat \X SUBSET Member)]],
           remaining' \in [Op -> Nat]
    PROVE  Types'
  BY DEF Types, FlowTypes, CreditTypes

(* Copies that nobody touches.                                              *)
LEMMA HeldSame ==
    ASSUME Held, credit' = credit, \A l \in Port : out'[l] = out[l]
    PROVE  Held'
  <1>1. \A l \in Port : Pkts(out[l])' = Pkts(out[l])
    BY DEF Pkts
  <1>2. \A k : HoldSet(k)' = HoldSet(k)
    BY <1>1 DEF HoldSet
  <1> QED  BY <1>1, <1>2 DEF Held

(* Flow control that nobody touches.                                        *)
LEMMA FlowQuiet ==
    ASSUME Types, FlowSound, UNCHANGED <<st, iq, pwire>>,
           \A l \in Link : out[l] # <<>> => out'[l] # <<>>
    PROVE  FlowSound' /\ FlowTypes'
  <1>1. \A l \in Ingress : FlowOn(l)'
    BY FlowSame DEF FlowSound
  <1> QED  BY <1>1 DEF FlowSound, FlowTypes, Types

(* Start keeps the invariant.                                               *)
LEMMA StartInv ==
    ASSUME IInv, NEW o \in Op, NEW h \in Member, Start(o, h)
    PROVE  IInv'
  <1> USE DEF IInv
  <1>1. /\ h \notin started[o]
        /\ out' = [out EXCEPT ![UpOf(h)] =
                     @ \o [c \in Chunks(o) |-> Entry(SourcePacket(o, h, c), NoKey)]]
        /\ UNCHANGED <<listed, st, wire, iq, pwire, credit, barrier, got, seen, remaining>>
    BY DEF Start, UpOf, sinks
  <1>2. \A c \in Chunks(o) : SourcePacket(o, h, c) \notin InTransit(UpOf(h))
    BY <1>1, NotYetSent
  <1>3. /\ Queues' /\ out'[UpOf(h)] # <<>>
        /\ \A k \in Link \ {UpOf(h)} : out'[k] = out[k]
    BY <1>1, <1>2, StartDelta
  <1>4. UpOf(h) \in Nic /\ UpOf(h) \notin Port /\ Port \subseteq Link
    BY TreeBasics, LinkKinds DEF UpOf, Nic
  <1>5. Data'
    BY StartData
  <1>6. Counts' /\ started' \in [Op -> SUBSET Member]
    BY StartCounts
  <1>7. Held'
    BY <1>1, <1>3, <1>4, HeldSame
  <1>8. CreditTypes' /\ Charges'
    BY <1>1, CreditSame, OccSame
  <1>9. FlowSound' /\ FlowTypes'
    BY <1>1, <1>3, FlowQuiet
  <1>10. Types'
    BY <1>1, <1>6, <1>8, <1>9, TypesNext DEF Types
  <1> QED  BY <1>3, <1>5, <1>6, <1>7, <1>8, <1>9, <1>10

(* So does NicSend.                                                         *)
LEMMA NicSendInv ==
    ASSUME IInv, NEW l \in Nic, NicSend(l)
    PROVE  IInv'
  <1> USE DEF IInv
  <1>1. UNCHANGED <<listed, started, iq, pwire, credit, barrier, got, seen, remaining>>
        /\ st' = [st EXCEPT ![l] = AfterService(@)]
    BY DEF NicSend, Launch, sinks
  <1>2. PICK e \in Ran(out[l]) : SentOut(l, e)
    BY NicSendDelta
  <1>3. Queues' /\ \A k \in Link \ {l} : out'[k] = out[k]
    BY <1>2 DEF SentOut
  <1>4. l \in Link /\ l \notin Port /\ Port \subseteq Link
    BY LinkKinds
  <1>5. Data'
    BY <1>1, <1>2, SendData
  <1>6. Counts'
    BY <1>1, CountsSame DEF sinks
  <1>7. Held'
    BY <1>1, <1>3, <1>4, HeldSame
  <1>8. CreditTypes' /\ Charges'
    BY <1>1, CreditSame, OccSame
  <1>9. FlowSound' /\ FlowTypes'
    BY <1>1, <1>3, <1>4, ServedFlow DEF Served
  <1>10. Types'
    BY <1>1, <1>8, <1>9, TypesNext DEF Types
  <1> QED  BY <1>3, <1>5, <1>6, <1>7, <1>8, <1>9, <1>10

(* So does PortSend.                                                        *)
LEMMA PortSendInv ==
    ASSUME IInv, NEW l \in Port, PortSend(l)
    PROVE  IInv'
  <1> USE DEF IInv
  <1> DEFINE e == Head(out[l])
             k == Head(out[l]).key
  <1>1. /\ UNCHANGED <<listed, started, barrier, got, seen, remaining>>
        /\ st' = [st EXCEPT ![l] = AfterService(@)] /\ Settle(k)
    BY DEF PortSend, Launch, sinks
  <1>2. SentOut(l, e) /\ l \in Link
    BY PortSendDelta
  <1>3. Queues' /\ \A j \in Link \ {l} : out'[j] = out[j]
    BY <1>2 DEF SentOut
  <1>5. Data'
    BY <1>1, <1>2, SendData
  <1>6. Counts'
    BY <1>1, CountsSame DEF sinks
  <1> HIDE DEF e, k
  <1>7a. k = e.key
    BY DEF e, k
  <1>7. Held' /\ k \in DOMAIN credit /\ CreditTypes'
    BY <1>1, <1>2, <1>7a, SettleHeld DEF CreditTypes
  <1>9. FlowSound' /\ FlowTypes' /\ Charges'
    BY <1>1, <1>2, <1>3, <1>7, SettleFlow DEF Served
  <1>10. Types'
    BY <1>1, <1>7, <1>9, TypesNext DEF Types
  <1> QED  BY <1>3, <1>5, <1>6, <1>7, <1>9, <1>10

(* So does ReceiveFrame.                                                    *)
LEMMA ReceiveFrameInv ==
    ASSUME IInv, NEW l \in Ingress, ReceiveFrame(l)
    PROVE  IInv'
  <1> USE DEF IInv
  <1>1. UNCHANGED <<listed, started, out, wire, iq, credit, barrier, got, seen, remaining>>
    BY DEF ReceiveFrame, sinks
  <1>2. Queues'
    BY <1>1 DEF Queues
  <1>3. \A k \in Link : InTransit(k)' = InTransit(k)
    BY <1>1 DEF InTransit
  <1>5. Data'
    BY <1>1, <1>3, DataSame
  <1>6. Counts'
    BY <1>1, CountsSame DEF sinks
  <1>7. Held'
    BY <1>1, HeldSame
  <1>8. CreditTypes' /\ Charges'
    BY <1>1, CreditSame, OccSame
  <1>9. FlowSound' /\ FlowTypes'
    BY FrameFlow
  <1>10. Types'
    BY <1>1, <1>8, <1>9, TypesNext DEF Types
  <1> QED  BY <1>2, <1>5, <1>6, <1>7, <1>8, <1>9, <1>10

(* So does Deliver.                                                         *)
LEMMA DeliverInv ==
    ASSUME IInv, NEW l \in Access, Deliver(l)
    PROVE  IInv'
  <1> USE DEF IInv
  <1>1. UNCHANGED <<listed, started, out, st, iq, pwire, credit, barrier>>
    BY DEF Deliver
  <1>2. Delivered(l, Head(wire[l]), l[2], Head(wire[l]).op)
    BY DeliverDelta
  <1>3. /\ Queues'
        /\ got' \in [Op -> [Member -> Nat]]
        /\ seen' \in [Op -> [Member -> SUBSET (Nat \X SUBSET Member)]]
    BY <1>2 DEF Delivered, PieceCounted
  <1>5. Data'
    BY DeliverData
  <1>6. Counts' /\ remaining' \in [Op -> Nat]
    BY <1>1, <1>2, DeliverCounts
  <1>7. Held'
    BY <1>1, HeldSame
  <1>8. CreditTypes' /\ Charges'
    BY <1>1, CreditSame, OccSame
  <1>9. FlowSound' /\ FlowTypes'
    BY <1>1, FlowQuiet
  <1>10. Types'
    BY <1>1, <1>3, <1>6, <1>8, <1>9, TypesNext DEF Types
  <1> QED  BY <1>3, <1>5, <1>6, <1>7, <1>8, <1>9, <1>10

(* So does Fold.                                                            *)
LEMMA FoldInv ==
    ASSUME IInv, NEW l \in Ingress, Fold(l)
    PROVE  IInv'
  <1> USE DEF IInv
  <1> DEFINE p == Head(wire[l])
             s == l[2]
             b == barrier[s][p.op][p.c]
  <1>1. /\ UNCHANGED <<listed, started, out, st, credit, got, seen, remaining>>
        /\ Accept(l)
    BY DEF Fold, sinks
  <1>2. /\ Folded(l, p, s, p.op, p.c, b) /\ Arrived(l, p, l[1], s, p.op, p.c)
    BY FoldDelta
  <1> HIDE DEF p, s, b
  <1>3. /\ Queues' /\ b = barrier[s][p.op][p.c]
        /\ BarrierSet(s, p.op, p.c, WithIt(l, p, b))
        /\ barrier' \in [Switch -> [Op -> [AllChunks -> BarrierRec]]]
    BY <1>2 DEF Folded, BarrierSet
  <1>4. /\ s \in Switch /\ p.op \in Op /\ p.c \in AllChunks
        /\ l \notin barrier[s][p.op][p.c].charges
    BY <1>2 DEF Arrived
  <1>5. Data'
    BY FoldData
  <1>6. Counts'
    BY <1>1, CountsSame DEF sinks
  <1>7. Held'
    BY <1>1, HeldSame
  <1>8. CreditTypes'
    BY <1>1, CreditSame
  <1>9. FlowSound' /\ FlowTypes' /\ Entered(l)
    BY <1>1, AcceptFlow
  <1>11. WithIt(l, p, b).charges = barrier[s][p.op][p.c].charges \cup {l}
    BY <1>3 DEF WithIt
  <1>12. Charges'
    BY <1>1, <1>3, <1>4, <1>9, <1>11, FoldCharges
  <1>10. Types'
    BY <1>1, <1>3, <1>8, <1>9, TypesNext DEF Types
  <1> QED  BY <1>3, <1>5, <1>6, <1>7, <1>12, <1>9, <1>10

(* A result never is on a link and on the one back.                         *)
LEMMA OneWay ==
    ASSUME Queues, Data, NEW l \in Link, NEW k \in Link, k[1] = l[2], k[2] = l[1],
           NEW p \in InTransit(l), p.t # "REDUCE"
    PROVE  p \notin InTransit(k)
  <1> SUFFICES ASSUME p \in InTransit(k) PROVE FALSE
    OBVIOUS
  <1>1. p \in Packet /\ p.op \in Op /\ Fits(l, p) /\ Fits(k, p)
    BY TransitFacts
  <1>2. ~(l \in DownLink /\ k \in DownLink)
    BY LinkShape
  <1>3. p.t = "MCAST" /\ Kind[p.op] # "allreduce"
    BY <1>1, <1>2, PacketShape DEF Fits
  <1>4. PICK h \in Emitters(p.op) : p.of = {h} /\ h \notin Side(l)
    BY <1>1, <1>3 DEF Fits
  <1>5. PICK g \in Emitters(p.op) : p.of = {g} /\ g \notin Side(k)
    BY <1>1, <1>3 DEF Fits
  <1>6. g = h /\ h \in Node
    BY <1>1, <1>4, <1>5, OpShape DEF Node
  <1> QED  BY <1>4, <1>5, <1>6, SideBack

(* A result is on no link out of the switch it arrives at.                  *)
LEMMA PassFreshAll ==
    ASSUME Queues, Data, NEW l \in Ingress, NEW s, s = l[2], NEW p \in InTransit(l),
           p.t # "REDUCE"
    PROVE  /\ s \in Switch /\ l[1] \in Neighbours(s) /\ l \in Link
           /\ \A b \in Neighbours(s) : p \notin InTransit(<<s, b>>)
  <1>1. s \in Switch /\ l \in Link
    BY LinkKinds
  <1>2. l[1] \in Neighbours(s) /\ <<s, l[1]>> \in Link
    BY <1>1, NeighbourLinks
  <1>3. p \notin InTransit(<<s, l[1]>>)
    BY <1>1, <1>2, OneWay
  <1>4. \A b \in Neighbours(s) : b # l[1] => p \notin InTransit(<<s, b>>)
    BY PassFresh
  <1> QED  BY <1>1, <1>2, <1>3, <1>4

(* A set that is not empty counts.                                          *)
LEMMA TargetCount ==
    ASSUME NEW T, T # {}, IsFiniteSet(T)
    PROVE  Cardinality(T) \in Nat \ {0}
  BY FS_CardinalityType, FS_EmptySet

(* A switch has a port besides the one a packet came in by.                 *)
LEMMA OtherPorts ==
    ASSUME NEW s \in Switch, NEW a \in Neighbours(s)
    PROVE  IsFiniteSet(Neighbours(s) \ {a}) /\ Neighbours(s) \ {a} # {}
  <1>1. IsFiniteSet(Neighbours(s)) /\ Neighbours(s) \subseteq Node
    BY NodeFinite, NeighbourLinks, FS_Subset
  <1>2. IsFiniteSet(Neighbours(s) \ {a})
    BY <1>1, FS_Subset
  <1>3. Cardinality(Neighbours(s)) > 1
    BY TreeAssumption
  <1>4. ASSUME Neighbours(s) \ {a} = {} PROVE FALSE
    <2>1. Neighbours(s) = {a}
      BY <1>4
    <2>2. Cardinality({a}) = 1
      BY FS_Singleton
    <2> HIDE DEF Neighbours
    <2> QED  BY <2>1, <2>2, <1>3
  <1> QED  BY <1>2, <1>4

(* A result p that came on link l goes on from s to T.                      *)
Passed(l, s, p, T) ==
    /\ p \in InTransit(l) /\ p \in Packet /\ p.t # "REDUCE"
    /\ T \in SUBSET Neighbours(s) /\ T # {} /\ IsFiniteSet(T)
    /\ Forwarded(l, s, p, T)
    /\ Opened(<<s, p>>, {l}, Cardinality(T))
    /\ Accept(l)
    /\ UNCHANGED <<listed, started, st, barrier, sinks>>

(* Passing on keeps the invariant.                                          *)
LEMMA PassInv ==
    ASSUME IInv, Data', NEW l \in Ingress, NEW s, s = l[2], NEW p, NEW T,
           Passed(l, s, p, T)
    PROVE  IInv'
  <1> USE DEF IInv
  <1>0. /\ p \in InTransit(l) /\ p \in Packet /\ p.t # "REDUCE"
        /\ T \in SUBSET Neighbours(s) /\ T # {} /\ IsFiniteSet(T)
        /\ Forwarded(l, s, p, T) /\ Accept(l)
        /\ Opened(<<s, p>>, {l}, Cardinality(T))
        /\ UNCHANGED <<listed, started, st, barrier, got, seen, remaining>>
    BY DEF Passed, sinks
  <1>1. /\ s \in Switch /\ l \in Link
        /\ \A b \in Neighbours(s) : p \notin InTransit(<<s, b>>)
    BY <1>0, PassFreshAll
  <1>2. /\ Queues'
        /\ \A k \in Link : out[k] # <<>> => out'[k] # <<>>
    BY <1>0 DEF Forwarded
  <1>3. <<s, p>> \notin DOMAIN credit
    BY <1>1, FreshKey
  <1>4. Cardinality(T) \in Nat \ {0}
    BY <1>0, TargetCount
  <1>6. Counts'
    BY <1>0, CountsSame DEF sinks
  <1>7. Held'
    BY <1>0, <1>1, OpenHeld
  <1>8. CreditTypes'
    <2>1. <<s, p>> \in Switch \X Packet /\ {l} \in SUBSET Ingress
      BY <1>0, <1>1
    <2> QED  BY <2>1, <1>0, <1>4, OpenTypes DEF CreditTypes
  <1>9. FlowSound' /\ FlowTypes' /\ Entered(l)
    BY <1>0, <1>2, AcceptFlow
  <1>12. Charges'
    <2>1. <<s, p>> \in Switch \X Packet
      BY <1>0, <1>1
    <2> QED  BY <2>1, <1>0, <1>3, <1>9, PassCharges
  <1>10. Types'
    BY <1>0, <1>8, <1>9, TypesNext DEF Types
  <1> QED  BY <1>2, <1>6, <1>7, <1>12, <1>9, <1>10

(* So Replicate does.                                                       *)
LEMMA ReplicateInv ==
    ASSUME IInv, NEW l \in Ingress, Replicate(l)
    PROVE  IInv'
  <1> USE DEF IInv
  <1> DEFINE p == Head(wire[l])
             s == l[2]
             T == Neighbours(s) \ {l[1]}
  <1>1. /\ Accept(l) /\ NewCredit(<<s, p>>, {l}, Cardinality(T))
        /\ UNCHANGED <<listed, started, st, barrier, sinks>>
    BY DEF Replicate, Forward
  <1>2. Data'
    BY ReplicateData
  <1>3. /\ p \in InTransit(l) /\ p \in Packet /\ p.t = "MCAST"
        /\ T \in SUBSET Neighbours(s) /\ Forwarded(l, s, p, T)
    BY ReplicateDelta
  <1>4. s \in Switch /\ l[1] \in Neighbours(s)
    BY LinkKinds, NeighbourLinks
  <1>5. T # {} /\ IsFiniteSet(T)
    BY <1>4, OtherPorts
  <1> HIDE DEF T, p
  <1>6. Opened(<<s, p>>, {l}, Cardinality(T))
    BY <1>1, OpenDelta
  <1>7. Passed(l, s, p, T)
    BY <1>1, <1>3, <1>5, <1>6 DEF Passed
  <1> QED  BY <1>2, <1>7, PassInv

(* And Descend.                                                             *)
LEMMA DescendInv ==
    ASSUME IInv, NEW l \in Ingress, Descend(l)
    PROVE  IInv'
  <1> USE DEF IInv
  <1>0. PICK p, s, T : p = Head(wire[l]) /\ s = l[2] /\ T = NextHop(s, ReduceRoot(p.op, p.c))
    OBVIOUS
  <1>1. /\ Accept(l) /\ NewCredit(<<s, p>>, {l}, Cardinality(T))
        /\ UNCHANGED <<listed, started, st, barrier, sinks>>
    BY <1>0 DEF Descend, Forward
  <1>2. Data'
    BY DescendData
  <1>3. /\ p \in InTransit(l) /\ p \in Packet /\ p.t = "DOWN"
        /\ T \in SUBSET Neighbours(s) /\ Forwarded(l, s, p, T)
        /\ T # {} /\ IsFiniteSet(T)
    <2>1. Queues /\ Data
      OBVIOUS
    <2> HIDE DEF IInv
    <2> QED  BY <1>0, <2>1, DescendDelta
  <1>6. Opened(<<s, p>>, {l}, Cardinality(T))
    BY <1>1, OpenDelta
  <1>7. Passed(l, s, p, T)
    BY <1>1, <1>3, <1>6 DEF Passed
  <1> HIDE DEF IInv
  <1> QED  BY <1>0, <1>2, <1>7, PassInv

(* A combined packet is on no link of its switch yet.                       *)
LEMMA ResultFresh ==
    ASSUME Queues, Data, NEW l, NEW p, NEW n, NEW s, NEW o, NEW c,
           Arrived(l, p, n, s, o, c), NEW q, NEW T, Sent(s, o, c, q, T)
    PROVE  \A b \in Neighbours(s) : q \notin InTransit(<<s, b>>)
  <1> SUFFICES ASSUME NEW b \in Neighbours(s), q \in InTransit(<<s, b>>) PROVE FALSE
    OBVIOUS
  <1>1. s \in Switch /\ ~Resulted(o, c)
    BY DEF Arrived
  <1>2. <<s, b>> \in Link
    BY <1>1, NeighbourLinks
  <1>3. /\ q.op = o /\ q.c = c /\ b \notin T
        /\ s # Apex => q = Contribution(s, o, c) /\ T = {Parent[s]}
        /\ s = Apex => q.t # "REDUCE"
    BY DEF Sent
  <1>4. CASE s = Apex
    BY <1>1, <1>2, <1>3, <1>4 DEF Resulted
  <1>5. CASE s # Apex
    <2>1. q.t = "REDUCE" /\ b # Parent[s]
      BY <1>3, <1>5 DEF Contribution
    <2>2. <<s, b>>  = UpOf(<<s, b>>[1])
      BY <1>2, <2>1, TransitFacts
    <2> QED  BY <2>1, <2>2 DEF UpOf
  <1> QED  BY <1>4, <1>5

(* A complete barrier sent on keeps the invariant.                          *)
LEMMA CombineInvStep ==
    ASSUME IInv, Data', NEW l \in Ingress, NEW p, NEW n, NEW s, NEW o, NEW c, NEW b,
           NEW q, NEW T, Combined(l, p, n, s, o, c, b, q, T),
           Accept(l), Opened(<<s, q>>, b.charges \cup {l}, Cardinality(T)),
           UNCHANGED <<listed, started, st, sinks>>
    PROVE  IInv'
  <1> USE DEF IInv
  <1>0. /\ Arrived(l, p, n, s, o, c) /\ b = barrier[s][o][c]
        /\ Sent(s, o, c, q, T) /\ Forwarded(l, s, q, T)
        /\ BarrierSet(s, o, c, NoBarrier)
    BY DEF Combined
  <1>1. /\ s \in Switch /\ o \in Op /\ c \in AllChunks /\ l \notin b.charges
        /\ b.charges \subseteq Ingress
    BY <1>0 DEF Arrived, BarrierRec
  <1>2. /\ Queues'
        /\ \A k \in Link : out[k] # <<>> => out'[k] # <<>>
    BY <1>0 DEF Forwarded
  <1>3. \A a \in Neighbours(s) : q \notin InTransit(<<s, a>>)
    BY <1>0, ResultFresh
  <1>4. q \in Packet /\ T \in SUBSET Neighbours(s) /\ T # {} /\ IsFiniteSet(T)
    BY <1>0 DEF Sent
  <1>5. <<s, q>> \notin DOMAIN credit /\ Cardinality(T) \in Nat \ {0}
    BY <1>1, <1>3, <1>4, FreshKey, TargetCount
  <1>6. Counts'
    BY CountsSame
  <1>7. Held'
    BY <1>0, <1>1, <1>3, <1>4, OpenHeld
  <1>7a. <<s, q>> \in Switch \X Packet /\ b.charges \cup {l} \in SUBSET Ingress
    BY <1>1, <1>4
  <1>8. CreditTypes'
    BY <1>5, <1>7a, OpenTypes DEF CreditTypes
  <1>9. FlowSound' /\ FlowTypes' /\ Entered(l)
    BY <1>2, AcceptFlow
  <1>12. Charges'
    BY <1>0, <1>1, <1>5, <1>7a, <1>9, CombineCharges
  <1>13. barrier' \in [Switch -> [Op -> [AllChunks -> BarrierRec]]]
    BY <1>0 DEF BarrierSet
  <1>10. Types'
    BY <1>8, <1>9, <1>13, TypesNext DEF Types, sinks
  <1> QED  BY <1>2, <1>6, <1>7, <1>12, <1>9, <1>10

(* So Combine keeps it.                                                     *)
LEMMA CombineInv ==
    ASSUME IInv, NEW l \in Ingress, Combine(l)
    PROVE  IInv'
  <1> USE DEF IInv
  <1> DEFINE p == Head(wire[l])
             n == l[1]
             s == l[2]
             o == p.op
             c == p.c
             b == barrier[s][o][c]
             q == Result(s, p, Below[s])
             T == ResultPorts(s, p)
  <1>1. Combined(l, p, n, s, o, c, b, q, T)
    BY CombineDelta
  <1>2. Data'
    BY CombineData
  <1>3. /\ Accept(l)
        /\ NewCredit(<<s, Result(s, p, b.of \cup p.of)>>, b.charges \cup {l}, Cardinality(T))
        /\ UNCHANGED <<listed, started, st, sinks>>
    BY DEF Combine, Forward, WithArrival
  <1>4. b.of \cup p.of = Below[s]
    <2> HIDE DEF p, n, s, o, c, b, q, T
    <2>1. p.of = Below[n]
      BY <1>1, ArrivedOf DEF Combined
    <2> QED  BY <2>1, <1>1 DEF Combined, Full
  <1>5. NewCredit(<<s, q>>, b.charges \cup {l}, Cardinality(T))
    BY <1>3, <1>4
  <1> HIDE DEF p, n, s, o, c, b, q, T
  <1>6. Opened(<<s, q>>, b.charges \cup {l}, Cardinality(T))
    BY <1>5, OpenDelta
  <1> QED  BY <1>1, <1>2, <1>3, <1>6, CombineInvStep

(* And a step that changes nothing.                                         *)
LEMMA StutterInv ==
    ASSUME IInv, UNCHANGED vars
    PROVE  IInv'
  <1> USE DEF IInv
  <1>1. UNCHANGED <<listed, started, out, st, wire, iq, pwire, credit, barrier,
                    got, seen, remaining>>
    BY DEF vars, flow, sinks
  <1>2. Queues'
    BY <1>1 DEF Queues
  <1>3. \A k \in Link : InTransit(k)' = InTransit(k)
    BY <1>1 DEF InTransit
  <1>5. Data'
    BY <1>1, <1>3, DataSame
  <1>6. Counts'
    BY <1>1, CountsSame DEF sinks
  <1>7. Held'
    BY <1>1, HeldSame
  <1>8. CreditTypes' /\ Charges'
    BY <1>1, CreditSame, OccSame
  <1>9. FlowSound' /\ FlowTypes'
    BY <1>1, FlowQuiet
  <1>10. Types'
    BY <1>1, <1>8, <1>9, TypesNext DEF Types
  <1> QED  BY <1>2, <1>5, <1>6, <1>7, <1>8, <1>9, <1>10

(* The invariant is inductive: every step of a switch, a host, a link or a  *)
(* sink keeps it.                                                           *)
THEOREM NextInv == IInv /\ [Next]_vars => IInv'
  <1> SUFFICES ASSUME IInv, [Next]_vars PROVE IInv'
    OBVIOUS
  <1>1. CASE \E o \in Op, h \in Member : Start(o, h)
    BY <1>1, StartInv
  <1>2. CASE \E l \in Nic : NicSend(l)
    BY <1>2, NicSendInv
  <1>3. CASE \E l \in Port : PortSend(l)
    BY <1>3, PortSendInv
  <1>4. ASSUME NEW l \in Ingress, ReceiveFrame(l) PROVE IInv'
    BY <1>4, ReceiveFrameInv
  <1>5. ASSUME NEW l \in Ingress, Replicate(l) PROVE IInv'
    BY <1>5, ReplicateInv
  <1>6. ASSUME NEW l \in Ingress, Descend(l) PROVE IInv'
    BY <1>6, DescendInv
  <1>7. ASSUME NEW l \in Ingress, Fold(l) PROVE IInv'
    BY <1>7, FoldInv
  <1>8. ASSUME NEW l \in Ingress, Combine(l) PROVE IInv'
    BY <1>8, CombineInv
  <1>9. CASE \E l \in Access : Deliver(l)
    BY <1>9, DeliverInv
  <1>10. CASE UNCHANGED vars
    BY <1>10, StutterInv
  <1> QED  BY <1>1, <1>2, <1>3, <1>4, <1>5, <1>6, <1>7, <1>8, <1>9, <1>10 DEF Next

(* The invariant holds in every state the fabric reaches, for every tree,   *)
(* group and set of operations.                                             *)
THEOREM Invariance == Spec => []IInv
  <1>1. Init => IInv
    BY InitInv
  <1>2. IInv /\ [Next]_vars => IInv'
    BY NextInv
  <1> QED  BY <1>1, <1>2, PTL DEF Spec
-----------------------------------------------------------------------------

(* The state of the fabric has its types.                                   *)
THEOREM TypeCorrect == Spec => []TypeOK
  <1>1. ASSUME IInv PROVE TypeOK
    <2> USE DEF IInv
    <2>1. ASSUME NEW l \in Link
          PROVE  /\ \A i \in DOMAIN out[l] : out[l][i].pkt \in Packet
                 /\ wire[l] \in Seq(Packet)
                 /\ st[l] \in SendState
      <3>1. Pkts(out[l]) \subseteq Packet
        BY <1>1, QueueFacts
      <3> QED  BY <3>1, <1>1 DEF Pkts, Queues, Types
    <2>2. \A k \in DOMAIN credit : /\ credit[k].charges \in SUBSET Ingress
                                   /\ credit[k].pending \in Nat \ {0}
      BY <1>1 DEF Types
    <2> QED  BY <2>1, <2>2, <1>1 DEF Types, TypeOK
  <1> QED  BY <1>1, Invariance, PTL

(* handle_reduce folds every child once and whole: no over-arrival, no      *)
(* contribution counted for another chunk or operation, and no partial      *)
(* result leaves a switch.                                                  *)
THEOREM WholeContributions == Spec => []ContributionsWhole
  <1>1. ASSUME IInv PROVE BarrierSound
    <2> SUFFICES ASSUME NEW s \in Switch, NEW o \in Op, NEW c \in AllChunks
                 PROVE  LET b == barrier[s][o][c]
                            in == {l[1] : l \in b.charges}
                        IN /\ b.arrived = Cardinality(b.charges)
                           /\ in \subseteq Children(s) /\ in # Children(s)
                           /\ b.of = UNION {Below[n] : n \in in}
      BY DEF BarrierSound
    <2> DEFINE b == barrier[s][o][c]
    <2>1. SoundAt(s, o, c)
      BY <1>1 DEF IInv, Data, Barriers
    <2>2. b.charges \subseteq {UpOf(n) : n \in Children(s)}
      BY <2>1 DEF SoundAt
    <2> HIDE DEF b
    <2>3. {l[1] : l \in b.charges} \subseteq Children(s)
      BY <2>2, InCount
    <2> QED  BY <2>1, <2>3 DEF SoundAt, InOf, b
  <1>2. ASSUME IInv PROVE ResultsWhole
    <2> SUFFICES ASSUME NEW l \in Link, NEW p \in InTransit(l), Kind[p.op] \in Reducing
                 PROVE  p.of = IF p.t = "REDUCE" THEN Below[l[1]] ELSE Member
      BY DEF ResultsWhole
    <2>1. Fits(l, p) /\ p \in Packet
      BY <1>2, TransitFacts DEF IInv
    <2>2. p.t \in {"REDUCE", "DOWN", "MCAST"}
      BY <2>1, PacketShape
    <2> QED  BY <2>1, <2>2 DEF Fits, Reducing
  <1>3. IInv => ContributionsWhole
    BY <1>1, <1>2 DEF ContributionsWhole
  <1> QED  BY <1>3, Invariance, PTL

(* The copies of a packet are counted by the ports that hold one.           *)
LEMMA CopyCount ==
    ASSUME Queues, NEW k \in Switch \X Packet
    PROVE  Cardinality(Copies(k)) = Cardinality(HoldSet(k))
  <1> DEFINE H == HoldSet(k)
             C == Copies(k)
             f == [l \in H |-> <<l, CHOOSE i \in DOMAIN out[l] : out[l][i].key = k>>]
  <1>1. H \subseteq Port /\ IsFiniteSet(H) /\ Port \subseteq Link
    BY HoldFacts, LinkKinds
  <1>2. ASSUME NEW l \in Port, NEW i \in DOMAIN out[l]
        PROVE  out[l][i].key = <<l[1], out[l][i].pkt>>
    <2>1. Good(l, out[l], wire[l]) /\ out[l][i] \in Ran(out[l])
      BY <1>1, QueueFacts DEF Ran
    <2>2. out[l][i] = Entry(out[l][i].pkt, KeyOf(l, out[l][i].pkt))
      BY <2>1 DEF Good
    <2>3. \A p, q : Entry(p, q).key = q
      BY DEF Entry
    <2> QED  BY <2>2, <2>3 DEF KeyOf
  <1>3. ASSUME NEW l \in Port
        PROVE  l \in H <=> \E i \in DOMAIN out[l] : out[l][i].key = k
    <2>1. l \in H <=> l[1] = k[1] /\ \E i \in DOMAIN out[l] : k[2] = out[l][i].pkt
      BY DEF HoldSet, Pkts
    <2> QED  BY <2>1, <1>2
  <1>4. ASSUME NEW l \in Port, NEW i \in DOMAIN out[l], NEW j \in DOMAIN out[l],
               out[l][i].key = k, out[l][j].key = k
        PROVE  i = j
    <2>1. Good(l, out[l], wire[l])
      BY <1>1, QueueFacts
    <2>2. \A x \in DOMAIN out[l] : out[l][x] = Entry(out[l][x].pkt, KeyOf(l, out[l][x].pkt))
      BY <2>1 DEF Good, Ran
    <2>3. out[l][i].pkt = out[l][j].pkt
      BY <1>2, <1>4
    <2>4. out[l][i] = out[l][j]
      BY <2>2, <2>3
    <2> QED  BY <2>1, <2>4 DEF Good, Inj
  <1>5. \A x : x \in C <=> \E l \in Port : \E i \in DOMAIN out[l] : out[l][i].key = k /\ x = <<l, i>>
    BY DEF Copies
  <1> HIDE DEF C, H
  <1>6. ASSUME NEW l \in H PROVE f[l] \in C /\ f[l][1] = l
    <2>1. \E i \in DOMAIN out[l] : out[l][i].key = k
      BY <1>1, <1>3
    <2> QED  BY <2>1, <1>1, <1>5
  <1>7. ASSUME NEW x \in C PROVE \E l \in H : f[l] = x
    <2>1. PICK l \in Port : \E i \in DOMAIN out[l] : out[l][i].key = k /\ x = <<l, i>>
      BY <1>5
    <2>2. PICK i \in DOMAIN out[l] : out[l][i].key = k /\ x = <<l, i>>
      BY <2>1
    <2>3. l \in H
      BY <2>2, <1>3
    <2>4. (CHOOSE j \in DOMAIN out[l] : out[l][j].key = k) = i
      <3> DEFINE j == CHOOSE j \in DOMAIN out[l] : out[l][j].key = k
      <3>1. j \in DOMAIN out[l] /\ out[l][j].key = k
        BY <2>2
      <3> HIDE DEF j
      <3>2. j = i
        BY <3>1, <2>2, <1>4
      <3> QED  BY <3>2 DEF j
    <2> QED  BY <2>2, <2>3, <2>4
  <1>8. f \in [H -> C]
    BY <1>6
  <1>9. \A a, b \in H : f[a] = f[b] => a = b
    <2> HIDE DEF f
    <2> QED  BY <1>6
  <1> HIDE DEF f
  <1>10. f \in Bijection(H, C)
    BY <1>7, <1>8, <1>9, Fun_IsBij
  <1>11. Cardinality(C) = Cardinality(H)
    BY <1>1, <1>10, FS_Bijection DEF ExistsBijection
  <1> QED  BY <1>11 DEF C, H

(* The ingress charge of a packet persists exactly as long as a barrier     *)
(* waits with it or a replica of it is buffered: none leaks, and none is    *)
(* released twice.                                                          *)
THEOREM HeldCharges == Spec => []ChargesHeld
  <1>1. ASSUME IInv PROVE ChargesHeld
    <2> USE DEF IInv
    <2>1. ChargesConserved
      BY <1>1 DEF Charges, ChargesConserved
    <2>2. \A k \in DOMAIN credit : credit[k].pending = Cardinality(Copies(k))
      <3> TAKE k \in DOMAIN credit
      <3>1. k \in Switch \X Packet
        BY <1>1 DEF Types
      <3> QED  BY <3>1, <1>1, CopyCount DEF Held
    <2>3. ASSUME NEW l \in Port, NEW i \in DOMAIN out[l]
          PROVE  out[l][i].key \in DOMAIN credit
      <3>1. Good(l, out[l], wire[l]) /\ out[l][i] \in Ran(out[l])
        BY <1>1, LinkKinds, QueueFacts DEF Ran
      <3>2. out[l][i] = Entry(out[l][i].pkt, KeyOf(l, out[l][i].pkt))
        BY <3>1 DEF Good
      <3>3. \A p, q : Entry(p, q).key = q
        BY DEF Entry
      <3>4. out[l][i].key = <<l[1], out[l][i].pkt>>
        BY <3>2, <3>3 DEF KeyOf
      <3>5. out[l][i].pkt \in Pkts(out[l])
        BY DEF Pkts
      <3> QED  BY <3>4, <3>5, <1>1 DEF Held
    <2> QED  BY <2>1, <2>2, <2>3 DEF ChargesHeld, HeldWhileBuffered
  <1> QED  BY <1>1, Invariance, PTL

(* Bytes, pieces and what is due at one sink.                               *)
LEMMA AllSeen ==
    ASSUME IInv, NEW o \in Op, NEW h \in Member
    PROVE  /\ got[o][h] \in Nat /\ Expected(o) \in Nat \ {0}
           /\ got[o][h] >= Expected(o) /\ h \in Receivers(o) => seen[o][h] = Due(o, h)
           /\ seen[o][h] = Due(o, h) /\ h \in Receivers(o) => got[o][h] >= Expected(o)
           /\ h \notin Receivers(o) => Due(o, h) = {}
           /\ seen[o][h] \subseteq Due(o, h)
           /\ got[o][h] = Cardinality(seen[o][h])
  <1>1. /\ seen[o][h] \subseteq Due(o, h)
        /\ Cardinality(seen[o][h]) \in Nat
        /\ Cardinality(seen[o][h]) <= Cardinality(Due(o, h))
        /\ Cardinality(seen[o][h]) = Cardinality(Due(o, h)) => seen[o][h] = Due(o, h)
    BY SeenFacts DEF IInv
  <1>2. /\ h \notin Receivers(o) => Due(o, h) = {}
        /\ h \in Receivers(o) => Cardinality(Due(o, h)) = Expected(o)
        /\ Expected(o) \in Nat \ {0}
    BY DueCount
  <1>3. got[o][h] = Cardinality(seen[o][h])
    BY DEF IInv, Counts
  <1> QED  BY <1>1, <1>2, <1>3

(* A sink gets no piece twice and none that is not its own, and the byte    *)
(* count of receivePacket completes it when it has them all.                *)
THEOREM PiecesOnce == Spec => []ExactlyOnce
  <1>1. ASSUME IInv PROVE ExactlyOnce
    BY <1>1, AllSeen DEF ExactlyOnce
  <1> QED  BY <1>1, Invariance, PTL

(* An operation is complete when every member has all it is due.            *)
LEMMA CompleteIs ==
    ASSUME IInv, NEW o \in Op
    PROVE  o \in Complete <=> \A h \in Member : Due(o, h) \subseteq seen[o][h]
  <1>1. /\ remaining[o] = Cardinality(Lacking(o)) /\ IsFiniteSet(Lacking(o))
        /\ Receivers(o) \subseteq Member
    BY LackingFacts, OpShape DEF IInv, Counts
  <1>2. o \in Complete <=> Lacking(o) = {}
    BY <1>1, FS_EmptySet DEF Complete
  <1>3. Lacking(o) = {} <=> \A h \in Receivers(o) : got[o][h] >= Expected(o)
    BY <1>1, AllSeen DEF Lacking
  <1>4. ASSUME NEW h \in Member
        PROVE  Due(o, h) \subseteq seen[o][h] <=> h \notin Receivers(o) \/ got[o][h] >= Expected(o)
    BY AllSeen
  <1> QED  BY <1>1, <1>2, <1>3, <1>4

(* Every chunk of a reduction is owed to someone.                           *)
LEMMA ChunkDue ==
    ASSUME NEW o \in Op, NEW c \in Chunks(o), Kind[o] \in Reducing
    PROVE  \E h \in Member : <<c, Member>> \in Due(o, h)
  <1>1. CASE Kind[o] = "allreduce"
    BY <1>1, OpShape DEF Due
  <1>2. CASE Kind[o] \in {"reduce", "reduce_scatter"}
    BY <1>2, RootIsReceiver
  <1> QED  BY <1>1, <1>2 DEF Reducing

(* When the operations are complete and the queues and pipes empty, no      *)
(* port is charged or paused, no credit is live, and no sender is stopped   *)
(* unless its restart is under way.                                         *)
THEOREM RestClean == Spec => []CleanAtRest
  <1>1. ASSUME IInv, Idle, Complete = listed
        PROVE  /\ \A l \in Ingress : iq[l] = IngressInit
               /\ DOMAIN credit = {}
               /\ \A l \in Ingress : pwire[l] = <<>> => st[l] = "READY"
    <2>0. Types /\ Held /\ Charges /\ FlowSound /\ Data /\ Counts
      BY <1>1 DEF IInv
    <2>1. DOMAIN credit = {}
      <3> SUFFICES ASSUME NEW k \in DOMAIN credit PROVE FALSE
        OBVIOUS
      <3>1. \A l \in Port : Pkts(out[l]) = {}
        BY <1>1, LinkKinds DEF Idle, Pkts
      <3>2. HoldSet(k) = {}
        BY <3>1 DEF HoldSet
      <3>3. credit[k].pending = Cardinality(HoldSet(k)) /\ credit[k].pending \in Nat \ {0}
        BY <2>0 DEF Held, Types
      <3> QED  BY <3>2, <3>3, FS_EmptySet
    <2>2. ASSUME NEW s \in Switch, NEW o \in Op, NEW c \in AllChunks,
                 NEW l \in barrier[s][o][c].charges
          PROVE  FALSE
      <3>1. PICK n \in Children(s) : l = UpOf(n)
        BY <2>0 DEF Data, Barriers, SoundAt
      <3>2. n \in Node \ {Apex} /\ Parent[n] = s
        BY <3>1, TreeBasics DEF Node
      <3>3. At(n, o, c)
        BY <3>1, <3>2 DEF At, Waiting
      <3>4. /\ Kind[o] \in Reducing /\ c \in Chunks(o)
            /\ Below[n] \subseteq started[o] /\ ~Resulted(o, c)
        BY <2>0, <3>2, <3>3 DEF Data, Contributions, OneContribution
      <3>5. started[o] # {}
        BY <3>2, <3>4, BelowSome
      <3>6. o \in Complete
        BY <1>1, <2>0, <3>5 DEF Counts
      <3>7. PICK h \in Member : <<c, Member>> \in Due(o, h)
        BY <3>4, ChunkDue
      <3>8. <<c, Member>> \in seen[o][h]
        BY <1>1, <3>6, <3>7, CompleteIs
      <3>9. <<c, Member>>[1] = c
        OBVIOUS
      <3> QED  BY <3>4, <3>8, <3>9 DEF Resulted
    <2>3. ASSUME NEW l \in Ingress PROVE iq[l].occ = 0
      <3>1. Holders(l) = {}
        BY <2>1, <2>2 DEF Holders
      <3> QED  BY <3>1, <2>0, FS_EmptySet DEF Charges
    <2>4. ASSUME NEW l \in Ingress
          PROVE  iq[l] = IngressInit /\ (pwire[l] = <<>> => st[l] = "READY")
      <3>1. iq[l] \in IngressType /\ FlowOn(l)
        BY <2>0 DEF Types, FlowSound
      <3>2. iq[l].st = "READY"
        BY <3>1, <2>3, ThresholdAssumption DEF FlowOn, IngressType
      <3> QED  BY <3>1, <3>2, <2>3 DEF FlowOn, IngressType, IngressInit
    <2> QED  BY <2>1, <2>4
  <1>2. IInv => CleanAtRest
    BY <1>1 DEF CleanAtRest
  <1> QED  BY <1>2, Invariance, PTL

(* The promise is about the same operations.                                *)
LEMMA SameOps ==
    /\ Promised!Member = Member
    /\ \A o : Promised!Emitters(o) = Emitters(o)
    /\ \A o, h : Promised!Due(o, h) = Due(o, h)
  <1>1. Promised!Member = Member
    BY DEF Promised!Member, Member
  <1>2. \A o : Promised!Emitters(o) = Emitters(o)
    BY <1>1 DEF Promised!Emitters, Emitters
  <1>3. \A o : Promised!Chunks(o) = Chunks(o) /\ Promised!Block(o) = Block(o)
    BY DEF Promised!Chunks, Promised!Block, Chunks, Block
  <1>4. \A o, h : Promised!Due(o, h) = Due(o, h)
    <2> TAKE o, h
    <2>1. /\ Promised!Member = Member
          /\ Promised!Chunks(o) = Chunks(o) /\ Promised!Block(o) = Block(o)
      BY <1>1, <1>3
    <2> QED  BY <2>1, Zenon DEF Promised!Due, Due
  <1> QED  BY <1>1, <1>2, <1>4

(* CompleteIs, for all operations.                                          *)
LEMMA CompleteMeans ==
    IInv => \A o \in Op :
              o \in Complete <=> \A h \in Member : Due(o, h) \subseteq seen[o][h]
  BY CompleteIs

(* The same in the next state.                                              *)
LEMMA CompleteNext ==
    IInv' => (\A o \in Op :
                o \in Complete <=> \A h \in Member : Due(o, h) \subseteq seen[o][h])'
  BY CompleteMeans, PTL

(* A delivery of the fabric is one of the promise.                          *)
LEMMA DeliverPromised ==
    ASSUME IInv, IInv', NEW l, NEW p, NEW h, NEW o, Delivered(l, p, h, o),
           started' = started, seen' = [seen EXCEPT ![o][h] = @ \cup {<<p.c, p.of>>}]
    PROVE  Promised!Next
  <1> DEFINE x == <<p.c, p.of>>
  <1>1. /\ o \in Op /\ h \in Member /\ x \in Due(o, h) \ seen[o][h]
        /\ x[2] \subseteq started[o]
    BY DEF Delivered, Owed
  <1>2. /\ seen'[o][h] = seen[o][h] \cup {x}
        /\ \A q \in Op, g \in Member : q # o \/ g # h => seen'[q][g] = seen[q][g]
    BY DEF Delivered, PieceCounted
  <1>3. \A q \in Op : q \in Complete <=> \A g \in Member : Due(q, g) \subseteq seen[q][g]
    BY CompleteIs
  <1>4. \A q \in Op : q \in Complete' <=> \A g \in Member : Due(q, g) \subseteq seen'[q][g]
    BY CompleteNext
  <1> HIDE DEF x
  <1>5. o \notin Complete
    BY <1>1, <1>3
  <1>6. \A q \in Op : q # o => (q \in Complete' <=> q \in Complete)
    BY <1>2, <1>3, <1>4
  <1>7. Complete \subseteq Op /\ Complete' \subseteq Op
    BY DEF Complete
  <1>8. Complete' = IF \A m \in Member : Due(o, m) \subseteq seen'[o][m]
                    THEN Complete \cup {o} ELSE Complete
    BY <1>1, <1>4, <1>5, <1>6, <1>7
  <1>9. seen' = [seen EXCEPT ![o][h] = @ \cup {x}]
    BY DEF x
  <1>10. Promised!Deliver(o, h)
    BY <1>1, <1>8, <1>9, SameOps DEF Promised!Deliver, Promised!HasAll
  <1> QED  BY <1>1, <1>10, SameOps DEF Promised!Next

(* A step of the fabric is one of the promise, or none that it sees.        *)
LEMMA StepPromised ==
    ASSUME IInv, IInv', [Next]_vars
    PROVE  [Promised!Next]_(Promised!vars)
  <1>1. ASSUME UNCHANGED <<started, sinks>> PROVE UNCHANGED Promised!vars
    BY <1>1 DEF Promised!vars, sinks, Complete
  <1>2. ASSUME NEW o \in Op, NEW h \in Member, Start(o, h) PROVE Promised!Next
    <2>1. Promised!Contribute(o, h)
      BY <1>2, SameOps DEF Start, Promised!Contribute, sinks, Complete
    <2> QED  BY <2>1, SameOps DEF Promised!Next
  <1>3. ASSUME NEW l \in Access, Deliver(l) PROVE Promised!Next
    <2> DEFINE p == Head(wire[l])
               h == l[2]
               o == p.op
    <2>1. Delivered(l, p, h, o)
      BY <1>3, DeliverDelta DEF IInv
    <2>2. h \in Receivers(o)
      <3> HIDE DEF p, h, o
      <3> QED  BY <2>1 DEF Delivered, Owed
    <2>3. started' = started /\ seen' = [seen EXCEPT ![o][h] = @ \cup {<<p.c, p.of>>}]
      BY <1>3, <2>2 DEF Deliver
    <2> HIDE DEF p, h, o
    <2> QED  BY <2>1, <2>3, DeliverPromised
  <1>4. ASSUME NEW l, NicSend(l) \/ PortSend(l) \/ ReceiveFrame(l) \/ Replicate(l)
                      \/ Descend(l) \/ Fold(l) \/ Combine(l)
        PROVE  UNCHANGED <<started, sinks>>
    BY <1>4 DEF NicSend, PortSend, ReceiveFrame, Replicate, Descend, Fold, Combine
  <1>5. UNCHANGED vars => UNCHANGED <<started, sinks>>
    BY DEF vars
  <1> QED  BY <1>1, <1>2, <1>3, <1>4, <1>5 DEF Next

(* The fabric keeps the promise made of a collective: members contribute    *)
(* in any order once the triggers allow, a piece arrives once those it      *)
(* comes from have contributed, at most once, and an operation is complete  *)
(* with its last piece.                                                     *)
THEOREM Refinement == Spec => ImplementsCollective
  <1>1. Init => Promised!Init
    <2> SUFFICES ASSUME Init PROVE Promised!Init
      OBVIOUS
    <2>1. Complete = {}
      <3> SUFFICES ASSUME NEW o \in Op, remaining[o] = 0 PROVE FALSE
        BY DEF Complete
      <3>1. remaining[o] = Activations(o)
        BY DEF Init
      <3> QED  BY <3>1, OpShape
    <2> QED  BY <2>1, SameOps DEF Init, Promised!Init
  <1>2. IInv /\ IInv' /\ [Next]_vars => [Promised!Next]_(Promised!vars)
    BY StepPromised
  <1> QED  BY <1>1, <1>2, Invariance, PTL DEF Spec, ImplementsCollective, Promised!Spec
=============================================================================
