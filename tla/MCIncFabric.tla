---------------------------- MODULE MCIncFabric ----------------------------
(* Instances of IncFabric for TLC: trees of one and of two levels, and the  *)
(* operations each run puts on them.                                        *)
EXTENDS IncFabric

\* Two members on one ToR, which is then the apex.
PairGroup == <<"h1", "h2">>
TrioGroup == <<"h1", "h2", "h3">>
OneTor == {"tor1"}
PairParent == [h \in {"h1", "h2"} |-> "tor1"]

\* Two ToRs under an aggregation switch, the first with two members.
TwoTors == {"tor1", "tor2", "agg1"}
TwoTorParent ==
    [n \in {"h1", "h2", "h3", "tor1", "tor2"} |->
        CASE n \in {"h1", "h2"} -> "tor1"
          [] n = "h3" -> "tor2"
          [] OTHER -> "agg1"]

(* What the runs may find in a connection matrix: an allreduce beside a    *)
(* reduction, a reduction whose completion triggers a broadcast from its   *)
(* root, and a reduce_scatter, an allgather and a longer allreduce alone.  *)
SevenOps == 1 .. 7
KindOfSeven ==
    <<"allreduce", "reduce", "reduce", "bcast",
      "reduce_scatter", "allgather", "allreduce">>
SizeOfSeven == <<1, 1, 2, 3, 3, 3, 2>>
RootOfSeven == [o \in SevenOps |-> "h1"]
NeedsOfSeven == [o \in SevenOps |-> IF o = 4 THEN {3} ELSE {}]
FivePrograms == {{1, 2}, {3, 4}, {5}, {6}, {7}}

\* Two allreduces at once.
TwoOps == {1, 2}
BothAllreduce == [o \in TwoOps |-> "allreduce"]
BothThree == [o \in TwoOps |-> 3]
RootTwo == [o \in TwoOps |-> "h1"]
Concurrent == [o \in TwoOps |-> {}]
BothListed == {TwoOps}

(* Members that start an operation only once their NIC has sent everything  *)
(* of the one before: the order in which it serves flows plays no part.     *)
OneFlowAtATime ==
    \A h \in Member :
        out[<<h, Parent[h]>>] # <<>> =>
            \A o \in Op : (h \in started'[o]) <=> (h \in started[o])

OneFlowSpec ==
    Init /\ [][Next /\ OneFlowAtATime]_vars /\ WF_vars(Next /\ OneFlowAtATime)
=============================================================================
