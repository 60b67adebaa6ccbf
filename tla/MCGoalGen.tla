----------------------------- MODULE MCGoalGen -----------------------------
(* Every pattern for every job size up to MaxRanks, for the first three    *)
(* ranks as roots and one to three ways, and a set of short traces that    *)
(* use every translated call.  The four-rank bisections stand for those of *)
(* other sizes.                                                            *)
EXTENDS GoalGen

CONSTANT MaxRanks

Sizes(from) == from..MaxRanks
Pattern(kind, n, root, k) == [kind |-> kind, n |-> n, root |-> root, k |-> k]
Roots(n) == {r \in {0, 1, 2} : r < n}

Rooted == UNION {{Pattern(kind, n, root, 2) : root \in Roots(n)} :
                   kind \in {"binomial_bcast", "binomial_reduce", "binary_bcast", "scatter", "gather",
                            "ring", "ring_dep"},
                   n \in Sizes(2)}
Unrooted == {Pattern(kind, n, 0, 2) :
               kind \in {"double_ring", "linbarrier", "alltoall", "dissemination", "chained", "recdoub",
                        "recdoub_gap", "allreduce", "allreduce_ring"},
               n \in Sizes(2)}
Ways == {Pattern("nway", n, 0, k) : n \in Sizes(2), k \in 1..3}
Pairings(n) == {p \in [Ranks(n) -> Ranks(n)] : \A i, j \in Ranks(n) : p[i] = p[j] => i = j}
Bisections == {[kind |-> kind, n |-> 4, root |-> 0, k |-> 0, peer |-> p] :
                 kind \in {"bisect", "bisect_fd"}, p \in {q \in Pairings(4) : q[0] < 2}}

\* ------------------------------------------------------------------ traces
Entry(f) == [f |-> f, peer |-> 0, from |-> 0, tag |-> 0, comm |-> 7, req |-> 0, count |-> 0, root |-> 0, p |-> 0]
P2P(f, peer, tag) == [Entry(f) EXCEPT !.peer = peer, !.from = peer, !.tag = tag]
Post(f, peer, tag, req) == [P2P(f, peer, tag) EXCEPT !.req = req]
On(f, req) == [Entry(f) EXCEPT !.req = req]
All(req, count) == [On("Waitall", req) EXCEPT !.count = count]
Coll(f, p, root) == [Entry(f) EXCEPT !.p = p, !.root = root]
In(e, comm) == [e EXCEPT !.comm = comm]

Trace(hosts, extr, nbcify, trace) ==
    [kind |-> "trace", hosts |-> hosts, extr |-> extr, nbcify |-> nbcify,
     trace |-> [r \in Ranks(hosts) |-> <<Entry("Init")>> \o trace[r + 1] \o <<Entry("Finalize")>>]]

(* Blocking and nonblocking calls around a barrier, a wait on a request    *)
(* that is no longer open.                                                 *)
Simple == Trace(2, 1, FALSE,
  << <<P2P("Send", 1, 1), Post("Irecv", 1, 2, 100), On("Wait", 100), Coll("Barrier", 2, 0), P2P("Rsend", 1, 3)>>,
     <<P2P("Recv", 0, 1), Post("Isend", 0, 2, 200), Coll("Barrier", 2, 0), On("Wait", 200), On("Wait", 200), P2P("Recv", 0, 3)>> >>)

(* Arrays of requests, answered out of order; a request is used again, and *)
(* one that has been answered is waited for once more.                     *)
Arrays == Trace(2, 1, TRUE,
  << <<Post("Irecv", 1, 1, 100), Post("Irecv", 1, 2, 104), Post("Isend", 1, 3, 108), All(100, 3),
       Post("Irecv", 1, 4, 100), Coll("Allreduce", 2, 0), On("Wait", 104), On("Wait", 100), P2P("Send", 1, 5)>>,
     <<Post("Isend", 0, 2, 50), Post("Isend", 0, 1, 54), All(50, 2), P2P("Recv", 0, 3),
       Coll("Allreduce", 2, 0), P2P("Send", 0, 4), On("Wait", 54), P2P("Recv", 0, 5)>> >>)

(* Every collective, one of them on a part of the hosts.                   *)
Colls(more) == more \o <<Coll("Bcast", 3, 1), Coll("Reduce", 3, 2), [Coll("Iallreduce", 3, 0) EXCEPT !.req = 40],
                         Coll("Alltoall", 3, 0), On("Wait", 40), Coll("Allgather", 3, 0)>>
Collectives3 == Trace(3, 1, FALSE,
  << Colls(<<Coll("Barrier", 2, 0), P2P("Send", 1, 9)>>), Colls(<<Coll("Barrier", 2, 0), P2P("Recv", 0, 9)>>), Colls(<<>>) >>)

(* Persistent requests, started twice, and once more after they were freed. *)
Twice(req) == <<On("Start", req), On("Wait", req), On("Start", req), All(req, 1), On("Request_free", req), On("Start", req)>>
PersistentPair == Trace(2, 1, FALSE,
  << <<Post("Send_init", 1, 5, 300)>> \o Twice(300) \o <<Coll("Barrier", 2, 0)>>,
     <<Post("Recv_init", 0, 5, 400)>> \o Twice(400) \o <<Coll("Barrier", 2, 0)>> >>)

(* A ring of exchanges in two communicators, the job written twice.        *)
Shift(to, from, comm) == In([P2P("Sendrecv", to, 6) EXCEPT !.from = from], comm)
Replicated == Trace(2, 2, FALSE,
  << <<Shift(1, 1, 8), Shift(1, 1, 9), Coll("Allreduce", 2, 0), P2P("Send", 1, 7)>>,
     <<Shift(0, 0, 8), Shift(0, 0, 9), Coll("Allreduce", 2, 0), P2P("Recv", 0, 7)>> >>)

(* Two ranks that meet two communicators in opposite orders.               *)
Crossed == Trace(2, 1, FALSE,
  << <<In(Post("Isend", 1, 1, 100), 8), In(Post("Isend", 1, 2, 104), 9), All(100, 2)>>,
     <<In(Post("Irecv", 0, 2, 100), 9), In(Post("Irecv", 0, 1, 104), 8), All(100, 2)>> >>)

(* Receives from anybody: blocking, nonblocking, persistent.               *)
AnySource(call) == Trace(2, 2, FALSE,
  << <<P2P("Send", 1, 1)>>,
     CASE call = "Recv"      -> <<P2P(call, mpi_any_source, 1)>>
       [] call = "Irecv"     -> <<Post(call, mpi_any_source, 1, 100), On("Wait", 100)>>
       [] call = "Recv_init" -> <<Post(call, mpi_any_source, 1, 100), On("Start", 100), On("Wait", 100)>> >>)

AllCases == Rooted \union Unrooted \union Ways \union Bisections
              \union {Simple, Arrays, Collectives3, PersistentPair, Replicated, Crossed}
              \union {AnySource(call) : call \in {"Recv", "Irecv", "Recv_init"}}

(* The training step with two of its ten buckets on two ranks.             *)
ResnetCase == {Pattern("resnet", 2, 0, 2)}
=============================================================================
