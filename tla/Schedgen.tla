------------------------------ MODULE Schedgen ------------------------------
(***************************************************************************)
(* The schedule generator (Schedgen/schedgen.cpp): for one rank it writes  *)
(* a list of labelled operations (send, recv, calc) and the dependencies   *)
(* between them ("requires": after the other has ended, "irequires": after *)
(* the other has started).  The class Goal is a builder; the value g below *)
(* is what it has built so far for the current rank, and every pattern is  *)
(* a function from a builder to a builder.                                 *)
(*                                                                         *)
(* Message sizes and computation times are left out: no dependency is      *)
(* chosen by them.  A tag is a pair of a communicator number and a tag.    *)
(***************************************************************************)
EXTENDS Integers, Sequences, FiniteSets, SequencesExt

NoId == 0                       \* labels are counted from 1
CollsBase == 1000000            \* tags of collectives start here
Marker == 9999999               \* chained_dissem sends its empty messages there

\* ----------------------------------------------------------- the builder
\* "call" is a ghost: the trace entry an operation is written for.
StartRank == [ops |-> <<>>, req |-> {}, ireq |-> {}, start |-> {}, end |-> {},
              tag |-> <<0, 0>>, call |-> 0]

NewId(g) == Len(g.ops) + 1

Emit(g, kind, peer) ==
    [g EXCEPT !.ops = Append(@, [kind |-> kind, peer |-> peer, tag |-> g.tag, call |-> g.call,
                                 empty |-> peer = Marker])]

Independent(g, id) == [g EXCEPT !.start = @ \union {id}, !.end = @ \union {id}]

Send(g, dest) == Independent(Emit(g, "send", dest), NewId(g))
Recv(g, src)  == Independent(Emit(g, "recv", src), NewId(g))
Exec(g)       == Emit(g, "calc", -1)

Requires(g, tail, head) ==
    [g EXCEPT !.req = @ \union {<<tail, head>>}, !.start = @ \ {tail}, !.end = @ \ {head}]

Irequires(g, tail, head) ==
    [g EXCEPT !.ireq = @ \union {<<tail, head>>}, !.start = @ \ {tail}, !.end = @ \ {head}]

SetTag(g, tag) == [g EXCEPT !.tag = tag]
StartOp(g)     == [g EXCEPT !.start = {}, !.end = {}]

RequiresAll(g, tails, heads) ==
    [g EXCEPT !.req = @ \union (tails \X heads), !.start = @ \ tails, !.end = @ \ heads]

\* ------------------------------------------------- arithmetic of the ranks
Pow2(k) == 2 ^ k
FloorLog2(n) == CHOOSE k \in 0..n : Pow2(k) <= n /\ n < Pow2(k + 1)
CeilLog(base, n) == CHOOSE k \in 0..n : base ^ k >= n /\ \A j \in 0..(k - 1) : base ^ j < n
Xor(rank, mask) == IF (rank \div mask) % 2 = 0 THEN rank + mask ELSE rank - mask
Ranks(n) == 0..(n - 1)

\* RANK2VRANK and VRANK2RANK are the same exchange of 0 and the root.
Renumber(rank, root) == CASE rank = root -> 0 [] rank = 0 -> root [] OTHER -> rank

\* ----------------------------------------------------------- pattern steps
(* The local variables of a pattern: the builder, and the labels of the    *)
(* last send and the last receive.                                         *)
Local(g) == [g |-> g, send |-> NoId, recv |-> NoId]

SendIf(s, cond, dest) ==
    IF cond THEN [s EXCEPT !.g = Send(s.g, dest), !.send = NewId(s.g)] ELSE s
RecvIf(s, cond, src) ==
    IF cond THEN [s EXCEPT !.g = Recv(s.g, src), !.recv = NewId(s.g)] ELSE s
SendAfterRecv(s) ==
    IF s.send # NoId /\ s.recv # NoId THEN [s EXCEPT !.g = Requires(@, s.send, s.recv)] ELSE s

(* One round of an exchange: the send waits for the last receive only.     *)
(* (Wrong variant: it does not wait.)                                      *)
ExchangeAtOnce(s, dest, src) == RecvIf(SendIf(s, TRUE, dest), TRUE, src)
Exchange(s, dest, src) == RecvIf(SendAfterRecv(SendIf(s, TRUE, dest)), TRUE, src)

Loop(Body(_, _), s, from, to) == FoldLeft(Body, s, [i \in 1..(to - from + 1) |-> from + i - 1])

\* ---------------------------------------------------------------- patterns
BinomialBcast(g, rank, n, root) ==
    LET v == Renumber(rank, root)
        Round(s, r) ==
          RecvIf(SendAfterRecv(SendIf(s, v + Pow2(r) < n /\ v < Pow2(r),
                                      Renumber(v + Pow2(r), root))),
                 v >= Pow2(r) /\ v < Pow2(r + 1), Renumber(v - Pow2(r), root))
    IN Loop(Round, Local(g), 0, CeilLog(2, n) - 1).g

BinomialReduce(g, rank, n, root) ==
    LET v == Renumber(rank, root)
        Round(s, r) ==
          SendIf(SendAfterRecv(RecvIf(s, v + Pow2(r) < n /\ v < Pow2(r),
                                      Renumber(v + Pow2(r), root))),
                 v >= Pow2(r) /\ v < Pow2(r + 1), Renumber(v - Pow2(r), root))
    IN Loop(Round, Local(g), 0, CeilLog(2, n) - 1).g

(* The children of src are 2 src + 1 and 2 src + 2.  Peers are renumbered  *)
(* for the root, the rank at hand is not.                                  *)
BinaryBcast(g, rank, n, root) ==
    LET Child(s, tgt) ==
          LET src == (tgt - 1) \div 2
          IN RecvIf(SendIf(s, rank = src, Renumber(tgt, root)), rank = tgt, Renumber(src, root))
        s == Loop(Child, Local(g), 1, n - 1)
        sends == {i \in 1..Len(s.g.ops) : s.g.ops[i].kind = "send"}
    IN IF rank > 0 /\ s.recv # NoId THEN RequiresAll(s.g, sends, {s.recv}) ELSE s.g

(* (Wrong variant: peers beyond the last rank are not wrapped.)            *)
DisseminationUnwrapped(g, rank, n) ==
    LET Round(s, r) == Exchange(s, rank + Pow2(r), rank - Pow2(r))
    IN Loop(Round, Local(g), 0, CeilLog(2, n) - 1).g

Dissemination(g, rank, n) ==
    LET Round(s, r) == Exchange(s, (rank + Pow2(r)) % n, (rank - Pow2(r)) % n)
    IN Loop(Round, Local(g), 0, CeilLog(2, n) - 1).g

NwayDissemination(g, rank, n, ways) ==
    LET Peer(r, w) == w * (ways + 1) ^ r
        SendAll(s, r) ==
          [s EXCEPT !.g = FoldLeft(LAMBDA h, w : Send(h, (rank + Peer(r, w)) % n), @, [w \in 1..ways |-> w]),
                    !.send = [w \in 1..ways |-> Len(s.g.ops) + w]]
        RecvAll(s, r) ==
          [s EXCEPT !.g = FoldLeft(LAMBDA h, w : Recv(h, (rank - Peer(r, w)) % n), @, [w \in 1..ways |-> w]),
                    !.recv = [w \in 1..ways |-> Len(s.g.ops) + w]]
        Chain(c, w) ==
          [g |-> RequiresAll(Exec(c.g), {NewId(c.g)}, {c.recv[w], c.prev}),
           prev |-> NewId(c.g), recv |-> c.recv]
        Reduce(s) ==
          LET c == Loop(Chain, [g |-> s.g, prev |-> s.recv[1], recv |-> s.recv], 2, ways)
              red == NewId(c.g)
              h == Requires(Requires(Exec(c.g), red, s.recv[1]), s.send[ways], c.prev)
          IN [s EXCEPT !.g = RequiresAll(h, {s.send[w] : w \in 1..ways}, {red})]
        Round(s, r) == RecvAll(IF r > 0 THEN Reduce(SendAll(s, r)) ELSE SendAll(s, r), r)
    IN Loop(Round, Local(g), 0, CeilLog(ways + 1, n) - 1).g

(* "dep" is pipelined_ring_dep: round r is received after round r - 1 was sent. *)
PipelinedRing(g, rank, n, root, segments, dep) ==
    LET v == Renumber(rank, root)
        Round(s, r) ==
          LET t == SendIf(RecvIf([s EXCEPT !.send = NoId, !.recv = NoId],
                                 v - 1 >= 0, Renumber(v - 1, root)),
                          v + 1 < n, Renumber(v + 1, root))
              u == SendAfterRecv(t)
          IN IF dep /\ s.send # NoId /\ t.recv # NoId
             THEN [u EXCEPT !.g = Requires(@, t.recv, s.send)] ELSE u
    IN Loop(Round, Local(g), 1, segments).g

Others(n, root) == [i \in 1..(n - 1) |-> Renumber(i, root)]

Scatter(g, rank, n, root) ==
    IF rank = root THEN FoldLeft(Send, g, Others(n, root)) ELSE Recv(g, root)

Gather(g, rank, n, root) ==
    IF rank = root THEN FoldLeft(Recv, g, Others(n, root)) ELSE Send(g, root)

DoubleRing(g, rank, n) ==
    LET Turn(h, to, from) ==
          LET s == RecvIf(SendIf(Local(h), TRUE, to), TRUE, from)
          IN IF rank > 0 THEN SendAfterRecv(s).g ELSE s.g
        next == (rank + 1) % n
        prev == (rank - 1) % n
    IN Turn(Turn(g, next, prev), prev, next)

LinearBarrier(g, rank, n) ==
    LET dummy == NewId(g)
        Serve(h, i) == Requires(Requires(Send(Recv(h, i), i), dummy, NewId(h)), NewId(h) + 1, dummy)
    IN IF rank = 0 THEN Loop(Serve, Exec(g), 1, n - 1) ELSE Recv(Send(g, 0), 0)

(* A random pairing "peer" of an even number of hosts: the hosts that hold *)
(* the first half of the places send to those of the second half; "both"   *)
(* is the full-duplex variant, in which the partner answers.               *)
RandomBisect(g, rank, n, peer, both) ==
    LET half == n \div 2
        place == CHOOSE i \in Ranks(n) : peer[i] = rank
        partner == IF place < half THEN peer[place + half] ELSE peer[place - half]
        first == IF place < half THEN Send(g, partner) ELSE Recv(g, partner)
    IN IF ~both THEN first ELSE IF place < half THEN Recv(first, partner) ELSE Send(first, partner)

LinearAlltoall(g, rank, n) ==
    LET Step(h, k) == Recv(Send(h, (rank + k) % n), (rank - k) % n)
    IN Loop(Step, g, 1, n - 1)

(* Recursive doubling.  With rem ranks beyond a power of two, the first    *)
(* 2 rem ranks pair up: the even one hands its data over and gets the      *)
(* result at the end.                                                      *)
RecdoubAllreduce(g, rank, n) ==
    LET pof2 == Pow2(FloorLog2(n))
        rem == n - pof2
        paired == rank < 2 * rem
        even == rank % 2 = 0
        new == IF paired THEN rank \div 2 ELSE rank - rem
        Old(v) == IF v < rem THEN v * 2 + 1 ELSE v + rem
        Round(s, k) == LET dst == Old(Xor(new, Pow2(k))) IN Exchange(s, dst, dst)
        fold == RecvIf(SendIf(Local(g), paired /\ even, rank + 1), paired /\ ~even, rank - 1)
        mid == IF paired /\ even THEN fold ELSE Loop(Round, fold, 0, FloorLog2(n) - 1)
    IN IF ~paired THEN mid.g
       ELSE IF even THEN RecvIf(mid, TRUE, rank + 1).g
       ELSE SendAfterRecv(SendIf(mid, TRUE, rank - 1)).g

(* Reduce-scatter with doubling distance, then allgather with halving      *)
(* distance.  With "gap" the next send waits for a fixed computation       *)
(* instead of the receive.                                                 *)
ReduceScatterAllgather(g, rank, n, gap) ==
    LET m == FloorLog2(n)
        Round(s, k) ==
          LET dst == Xor(rank, Pow2(IF k < m THEN k ELSE 2 * m - 1 - k))
              t == Exchange(s, dst, dst)
          IN IF gap /\ k # 2 * m - 1 THEN [t EXCEPT !.g = Exec(@), !.recv = NewId(t.g)] ELSE t
    IN Loop(Round, Local(g), 0, 2 * m - 1).g

RingAllreduce(g, rank, n) ==
    LET Round(s, k) == Exchange(s, (rank + 1) % n, (rank - 1) % n)
    IN Loop(Round, Local(g), 1, 2 * (n - 1)).g

(* Allreduces of a training step, each after its piece of the backward     *)
(* pass.  nops is declared outside the loop over the ranks, so a rank goes *)
(* on with the number at which the previous one stopped.                   *)
Resnet(g, rank, n, buckets) ==
    LET fwd == NewId(g)
        Bucket(h, i) ==
          LET bkw == NewId(h)
              dummy == bkw + 1
              h1 == Requires(Exec(Requires(Exec(h), bkw, fwd)), dummy, bkw)
              nops == rank * buckets + i
              coll == Dissemination(StartOp(SetTag(h1, <<0, CollsBase + nops>>)), rank, n)
          IN RequiresAll(coll, coll.end, {dummy})
    IN Loop(Bucket, Exec(g), 0, buckets - 1)

(* Disseminations one after the other: the marker of a run waits for its   *)
(* last operations, the first operations of the next run for the marker.   *)
ChainedDissemination(g, rank, n, runs) ==
    LET Run(s, i) ==
          LET coll == Dissemination(StartOp(SetTag(s.g, <<0, CollsBase + i>>)), rank, n)
              marker == NewId(coll)
              h == Send(coll, Marker)
              after == IF s.send # NoId THEN RequiresAll(h, coll.start, {s.send}) ELSE h
          IN [s EXCEPT !.g = RequiresAll(after, {marker}, coll.end), !.send = marker]
    IN Loop(Run, Local(g), 0, runs - 1).g

\* --------------------------------------------------------------- schedules
RankSchedule(c, r) ==
    CASE c.kind = "binomial_bcast"  -> BinomialBcast(StartRank, r, c.n, c.root)
      [] c.kind = "binomial_reduce" -> BinomialReduce(StartRank, r, c.n, c.root)
      [] c.kind = "binary_bcast"    -> BinaryBcast(StartRank, r, c.n, c.root)
      [] c.kind = "dissemination"   -> Dissemination(StartRank, r, c.n)
      [] c.kind = "nway"            -> NwayDissemination(StartRank, r, c.n, c.k)
      [] c.kind = "ring"            -> PipelinedRing(StartRank, r, c.n, c.root, c.k, FALSE)
      [] c.kind = "ring_dep"        -> PipelinedRing(StartRank, r, c.n, c.root, c.k, TRUE)
      [] c.kind = "scatter"         -> Scatter(StartRank, r, c.n, c.root)
      [] c.kind = "gather"          -> Gather(StartRank, r, c.n, c.root)
      [] c.kind = "double_ring"     -> DoubleRing(StartRank, r, c.n)
      [] c.kind = "linbarrier"      -> LinearBarrier(StartRank, r, c.n)
      [] c.kind = "bisect"          -> RandomBisect(StartRank, r, c.n, c.peer, FALSE)
      [] c.kind = "bisect_fd"       -> RandomBisect(StartRank, r, c.n, c.peer, TRUE)
      [] c.kind = "alltoall"        -> LinearAlltoall(StartRank, r, c.n)
      [] c.kind = "recdoub"         -> ReduceScatterAllgather(StartRank, r, c.n, FALSE)
      [] c.kind = "recdoub_gap"     -> ReduceScatterAllgather(StartRank, r, c.n, TRUE)
      [] c.kind = "allreduce"       -> RecdoubAllreduce(StartRank, r, c.n)
      [] c.kind = "allreduce_ring"  -> RingAllreduce(StartRank, r, c.n)
      [] c.kind = "resnet"          -> Resnet(StartRank, r, c.n, c.k)
      [] c.kind = "chained"         -> ChainedDissemination(StartRank, r, c.n, c.k)

PatternSchedule(c) == [r \in Ranks(c.n) |-> RankSchedule(c, r)]
=============================================================================
