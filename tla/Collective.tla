----------------------------- MODULE Collective -----------------------------
(***************************************************************************)
(* What the fabric promises of a collective operation, with no network in  *)
(* it: members contribute in any order, a piece reaches a member once the  *)
(* members whose data it carries have contributed, each piece reaches it   *)
(* at most once, and the operation completes with the last piece.          *)
(***************************************************************************)
EXTENDS CollectiveOps

VARIABLES
    contributed,  \* the members that have emitted their part of each operation
    delivered,    \* the pieces each member has received, per operation
    complete      \* the operations whose BarrierTrigger has fired

vars == <<contributed, delivered, complete>>

Init ==
    /\ contributed = [o \in Op |-> {}]
    /\ delivered = [o \in Op |-> [h \in Member |-> {}]]
    /\ complete = {}

Contribute(o, h) ==
    /\ Needs[o] \subseteq complete
    /\ h \in Emitters(o) \ contributed[o]
    /\ contributed' = [contributed EXCEPT ![o] = @ \cup {h}]
    /\ UNCHANGED <<delivered, complete>>

HasAll(o, h, got) == Due(o, h) \subseteq got

Deliver(o, h) ==
    \E p \in Due(o, h) \ delivered[o][h] :
        /\ p[2] \subseteq contributed[o]
        /\ delivered' = [delivered EXCEPT ![o][h] = @ \cup {p}]
        /\ complete' =
             IF \A m \in Member : HasAll(o, m, delivered'[o][m])
             THEN complete \cup {o}
             ELSE complete
        /\ UNCHANGED contributed

Next == \E o \in Op, h \in Member : Contribute(o, h) \/ Deliver(o, h)

Spec == Init /\ [][Next]_vars

-----------------------------------------------------------------------------
Pieces == UNION {Due(o, h) : o \in Op, h \in Member}

TypeOK ==
    /\ contributed \in [Op -> SUBSET Member]
    /\ delivered \in [Op -> [Member -> SUBSET Pieces]]
    /\ complete \subseteq Op

(* Nothing is delivered before everyone it came from has contributed.       *)
NothingFromNowhere ==
    \A o \in Op, h \in Member : \A p \in delivered[o][h] :
        p[2] \subseteq contributed[o]

(* A completed operation has given every member all it is due.              *)
CompleteMeansDelivered ==
    \A o \in complete, h \in Member : HasAll(o, h, delivered[o][h])

(* An operation that waits for others starts after they have completed.     *)
TriggersRespected ==
    \A o \in Op : contributed[o] # {} => Needs[o] \subseteq complete
=============================================================================
