------------------------- MODULE MCGoalCollectives -------------------------
(* An instance of GoalCollectives for TLC: a broadcast and a reduction of   *)
(* three ranks, with messages between two of them.                          *)
EXTENDS GoalCollectives

TrioGroup == <<"h1", "h2", "h3">>
TwoOps == {"bcast", "reduce"}
KindOf == [o \in TwoOps |-> o]
RootOf == [o \in TwoOps |-> IF o = "reduce" THEN "h2" ELSE "h1"]
SizeOf == [o \in TwoOps |-> 1]
Apart == [o \in TwoOps |-> {}]

(* h1 computes, broadcasts, and has gone on to the reduction before that.   *)
(* h2 and h3 send to each other.  h3 sends a message before the broadcast   *)
(* and two of one tag after it, the second as soon as its NIC is free, and  *)
(* goes on to the reduction when the first is on its way.  So h3 may reach  *)
(* the broadcast before, during or after it, two messages or two receives   *)
(* of a kind may wait, and whoever receives may find its own NIC busy.  h2  *)
(* computes from its broadcast on, and receives and sends after that.       *)
Nodes == {"c1", "b1", "r1",
          "x2", "b2", "c2", "y2", "z2", "w2", "r2",
          "x3", "b3", "y3", "z3", "w3", "r3"}

RankOf ==
    [n \in Nodes |->
        CASE n \in {"c1", "b1", "r1"} -> "h1"
          [] n \in {"x2", "b2", "c2", "y2", "z2", "w2", "r2"} -> "h2"
          [] OTHER -> "h3"]

TaskOf ==
    [n \in Nodes |->
        CASE n \in {"b1", "b2", "b3"} -> "bcast"
          [] n \in {"r1", "r2", "r3"} -> "reduce"
          [] n \in {"w3", "x2", "y2", "z2"} -> "recv"
          [] n \in {"w2", "x3", "y3", "z3"} -> "send"
          [] OTHER -> "calc"]

PeerOf == [n \in Nodes |-> IF RankOf[n] = "h3" THEN "h2" ELSE "h3"]
TagOf == [n \in Nodes |-> IF n \in {"y2", "y3", "z2", "z3"} THEN 2 ELSE 1]

RequiresOf ==
    [n \in Nodes |->
        CASE n = "b1" -> {"c1"}
          [] n = "b2" -> {"x2"} [] n = "r2" -> {"b2"}
          [] n \in {"y2", "z2", "w2"} -> {"c2"}
          [] n = "b3" -> {"x3"} [] n \in {"y3", "w3"} -> {"b3"}
          [] OTHER -> {}]

IRequiresOf ==
    [n \in Nodes |->
        CASE n = "r1" -> {"c1"} [] n = "c2" -> {"b2"}
          [] n \in {"z3", "r3"} -> {"y3"}
          [] OTHER -> {}]

(* The order is one: the ranks never wait for each other in a circle, and   *)
(* every message is received.                                               *)
ASSUME NoCircle == NothingNeedsItself /\ AsManySendsAsReceives
=============================================================================
