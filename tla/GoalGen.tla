------------------------------ MODULE GoalGen ------------------------------
(***************************************************************************)
(* What the generated schedules do when they are executed.  A case is a    *)
(* pattern of Schedgen or a set of traces for TraceToGoal; LogGops         *)
(* executes its schedule.  The properties are about which operations ran   *)
(* before which.                                                           *)
(***************************************************************************)
EXTENDS TraceToGoal, LogGops

CONSTANTS Cases,                \* the patterns and traces to be generated
          MaxInterleaved        \* the largest job whose ranks run at different paces

VARIABLE case                   \* the case at hand

vars == <<case, sched, eager, execution>>

Schedule(c) == IF c.kind = "trace" THEN TraceSchedule(c) ELSE PatternSchedule(c)

Init ==
    /\ case \in Cases
    /\ sched = Schedule(case)
    /\ Fresh

(* Small jobs interleave rank by rank; in large ones all ranks move at     *)
(* once.                                                                   *)
Turns == IF Cardinality(Nodes) <= MaxInterleaved THEN {{r} : r \in Nodes} ELSE {Nodes}

Next == UNCHANGED case /\ (Overrun \/ \E R \in Turns : Launch(R) \/ Arrive(R))
Spec == Init /\ [][Next]_vars

\* -------------------------------------------------------------- properties
(* The schedules that can be run to their end.  The marker of chained      *)
(* disseminations is no host of any job; a halving and doubling has a      *)
(* partner for each rank only in jobs of a power of two; a binary tree     *)
(* with another root than 0 renumbers the peers but not the rank at hand.  *)
(* The ranks of a trace have to meet their communicators in one order (the *)
(* trace with persistent requests has but one), and none may receive from  *)
(* just anybody.                                                           *)
Communicators(t) ==
    LET Tagged(e) ==
          \/ e.f \in MessageKinds \union {"Sendrecv"}
          \/ e.f \in CollectiveKinds \ {"Iallreduce"} /\ e.p = case.hosts
        Enter(seen, e) ==
          IF Tagged(e) /\ e.comm \notin ToSet(seen) THEN Append(seen, e.comm) ELSE seen
    IN FoldLeft(Enter, <<>>, t)

MetInOneOrder(s, t) == \A i \in DOMAIN s, j \in DOMAIN t : s[i] = t[j] => i = j

TraceRuns ==
    \A r, q \in Ranks(case.hosts) :
      /\ MetInOneOrder(Communicators(case.trace[r]), Communicators(case.trace[q]))
      /\ \A k \in DOMAIN case.trace[r] : case.trace[r][k].peer # mpi_any_source

Runs ==
    CASE case.kind = "chained"                      -> FALSE
      [] case.kind \in {"recdoub", "recdoub_gap"} -> Pow2(FloorLog2(case.n)) = case.n
      [] case.kind = "binary_bcast"                 -> case.root = 0
      [] case.kind = "trace"                        -> TraceRuns
      [] OTHER                                      -> TRUE

(* Dependencies point to operations of the schedule, the queues hold what  *)
(* has started and not met its partner, never a pair that fits, and every  *)
(* past is of operations that ended.                                       *)
TypeOK ==
    LET Ended == UNION {{<<r, i>> : i \in DOMAIN past[r]} : r \in Nodes}
    IN /\ case \in Cases
       /\ \A r \in Nodes :
            /\ sched[r].req \union sched[r].ireq \subseteq Ops(r) \X Ops(r)
            /\ \A i \in Ops(r) : sched[r].ops[i].kind # "calc" => sched[r].ops[i].peer \in Nodes \/ ~Runs
            /\ DOMAIN past[r] \subseteq DOMAIN begun[r] /\ DOMAIN begun[r] \subseteq Ops(r)
            /\ \A i \in DOMAIN begun[r] : begun[r][i] \subseteq Ended
            /\ \A i \in DOMAIN past[r] : past[r][i] \subseteq Ended /\ <<r, i>> \in past[r][i]
            /\ {rq[r][k].off : k \in DOMAIN rq[r]}
                 = {i \in DOMAIN begun[r] \ DOMAIN past[r] : Op(r, i).kind = "recv"}
            /\ \A k \in DOMAIN uq[r] : Match(rq[r], uq[r][k]) = 0

(* These schedules, and no others, run to their end: there is no cycle of  *)
(* dependencies and messages between the ranks, with eager sends or when   *)
(* every send waits for its receive; every receive finds a message of its  *)
(* source and tag, and no message is left in an unexpected queue.          *)
EndsWell == Finished /\ \A r \in Nodes : uq[r] = <<>>

RunsToTheEnd == Stuck => (EndsWell <=> Runs)

(* Which ranks must hear from which in a collective over n ranks.          *)
Reach(kind, n, root) ==
    CASE kind \in {"binomial_bcast", "binary_bcast", "ring", "ring_dep", "scatter", "Bcast"} -> {root} \X Ranks(n)
      [] kind \in {"binomial_reduce", "gather", "Reduce"} -> Ranks(n) \X {root}
      [] OTHER -> Ranks(n) \X Ranks(n)

AllHeard ==
    \A p \in Reach(case.kind, case.n, case.root) :
      p[1] = p[2] \/ \E i \in Ops(p[2]), k \in Ops(p[1]) : <<p[1], k>> \in past[p[2]][i]

(* The job sizes, up to eight ranks, for which the dependencies carry all  *)
(* the data.  The third exchange waits for the receive of the second only, *)
(* not for that of the first: what comes from four ranks away may lack     *)
(* what that rank got from one away, the data of the fifth.  Of several    *)
(* sends of a round only the last waits for all receives of the round      *)
(* before, the others for the first of them.                               *)
Carries(c) ==
    CASE c.kind = "dissemination"           -> c.n <= 5
      [] c.kind = "nway"                    -> c.n <= 5 \/ c.k = 3
      [] c.kind \in {"recdoub", "allreduce"} -> c.n <= 4
      [] OTHER                              -> TRUE

(* At the end of a pattern of these sizes, and no others, every rank has   *)
(* heard, directly or through others, from every rank whose data the       *)
(* pattern promises it: a send that passes data on waits for the receive   *)
(* that brought them.  Bisections promise pairs only, a fixed gap gives    *)
(* the dependency up on purpose.                                           *)
DataArrives ==
    EndsWell /\ case.kind \notin {"trace", "bisect", "bisect_fd", "recdoub_gap"} =>
      (AllHeard <=> Carries(case))

\* ------------------------------------------------------------ traces
Entries(r) == case.trace[r % case.hosts]
Call(r, i) == sched[r].ops[i].call
Communication(r) == {i \in Ops(r) : sched[r].ops[i].kind # "calc"}
BegunComm(r) == Communication(r) \intersect DOMAIN begun[r]

Posts == {"Isend", "Irecv", "Start", "Iallreduce"}
Awaits(e, req) ==
    \/ e.f = "Wait" /\ e.req = req
    \/ e.f = "Waitall" /\ \E i \in 0..(e.count - 1) : req = e.req + i * ReqSize

(* Entry a of rank r must have ended before entry b starts: it blocks, or  *)
(* its request was awaited in between.                                     *)
EndsBefore(r, a, b) ==
    \/ Entries(r)[a].f \notin Posts
    \/ \E w \in (a + 1)..(b - 1) : Awaits(Entries(r)[w], Entries(r)[a].req)

(* No operation of an entry starts before those of an earlier entry ended, *)
(* when the earlier one blocks or was awaited, and before they started,    *)
(* when it was only posted.                                                *)
ProgramOrder ==
    \A r \in Nodes : \A k \in BegunComm(r), i \in Communication(r) :
      Call(r, i) < Call(r, k) =>
        /\ i \in DOMAIN begun[r]
        /\ <<r, i>> \in begun[r][k] \/ ~EndsBefore(r, Call(r, i), Call(r, k))

(* The c-th counted collective of a trace.                                 *)
Collectives(r) == {k \in DOMAIN Entries(r) : Entries(r)[k].f \in CollectiveKinds /\ Entries(r)[k].p = case.hosts}
Nth(r, c) == CHOOSE k \in Collectives(r) : Cardinality({j \in Collectives(r) : j < k}) = c - 1

(* What a rank does after a blocking collective comes after what the ranks *)
(* it must hear from had finished before they entered the collective.      *)
CollectiveSeparates ==
    \A r \in Nodes : \A c \in 1..Cardinality(Collectives(r)) :
      LET e == Entries(r)[Nth(r, c)]
          Hears == {q \in Nodes \ {r} : <<q, r>> \in Reach(e.f, Cardinality(Nodes), e.root)}
          After == {k \in BegunComm(r) : Call(r, k) > Nth(r, c)}
          Prior(q) == {i \in Communication(q) : Call(q, i) < Nth(q, c) /\ EndsBefore(q, Call(q, i), Nth(q, c))}
      IN (e.f # "Iallreduce" /\ After # {}) =>
           \A q \in Hears : \A i \in Prior(q), k \in After : <<q, i>> \in begun[r][k]

(* The schedule of a trace keeps the order the MPI calls had.              *)
TraceOrderKept == case.kind = "trace" => ProgramOrder /\ CollectiveSeparates
=============================================================================
