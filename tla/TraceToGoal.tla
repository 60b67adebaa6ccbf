---------------------------- MODULE TraceToGoal ----------------------------
(***************************************************************************)
(* The translator of MPI traces (Schedgen/process_trace.cpp): every rank's *)
(* trace is read entry by entry; an entry is turned into operations of the *)
(* rank's GOAL schedule, and the time between two entries into a           *)
(* computation (LocOp) that orders them.  Point-to-point entries are       *)
(* translated one to one, collectives by the patterns of Schedgen.         *)
(*                                                                         *)
(* Times, sizes and the parsing of the lines are left out.  A trace entry  *)
(* is a record with the fields f (the MPI function), peer, from, tag, comm,*)
(* req, count, root and p (the size of the communicator).                  *)
(***************************************************************************)
EXTENDS Schedgen

ReqSize == 4                    \* bytes between two requests of an array
mpi_any_source == -2

Requ  == "requ"
Irequ == "irequ"

(* The variables of process_trace for one rank: the builder, the local     *)
(* operation's dependencies (curlocop.prev and .next as pairs of a label   *)
(* and a type), the open requests, the persistent requests, comm_map and   *)
(* the count of collectives.                                               *)
StartFile == [g |-> StartRank, prev |-> {}, next |-> {},
              reqs |-> <<>>, preqs |-> <<>>, comms |-> <<>>, nops |-> 0]

Set(map, key, value) == [k \in DOMAIN map \union {key} |-> IF k = key THEN value ELSE map[k]]
Erase(map, key) == [k \in DOMAIN map \ {key} |-> map[k]]

(* Communicators are numbered in the order in which this rank's trace      *)
(* mentions them.                                                          *)
WithTag(s, comm, tag) ==
    LET comms == IF comm \in DOMAIN s.comms THEN s.comms
                 ELSE Set(s.comms, comm, Cardinality(DOMAIN s.comms))
    IN [s EXCEPT !.comms = comms, !.g = SetTag(@, <<comms[comm], tag>>)]

(* The computation since the last entry: what comes next waits for it, it  *)
(* waits for what came before.                                             *)
NextOp(s) ==
    LET op == NewId(s.g)
        After(kind) == {d[1] : d \in {e \in s.next : e[2] = kind}}
        Before(kind) == {d[1] : d \in {e \in s.prev : e[2] = kind}}
        g == Exec(s.g)
        add == After(Requ) \X {op} \union {op} \X Before(Requ)
        iadd == After(Irequ) \X {op} \union {op} \X Before(Irequ)
    IN [s EXCEPT !.g = [g EXCEPT !.req = @ \union add, !.ireq = @ \union iadd,
                                 !.start = @ \ ({op} \union After(Requ) \union After(Irequ)),
                                 !.end = @ \ ({op} \union Before(Requ) \union Before(Irequ))],
                 !.prev = {}, !.next = {}]

(* next := the label; NextOp; prev := the label.                           *)
Around(s, id, kind) ==
    [NextOp([s EXCEPT !.next = {<<id, Requ>>}]) EXCEPT !.prev = {<<id, kind>>}]

Blocking(s, g)         == Around([s EXCEPT !.g = g], NewId(s.g), Requ)
Nonblocking(s, g, req) ==
    Around([s EXCEPT !.g = g, !.reqs = Set(@, req, NewId(s.g))], NewId(s.g), Irequ)

\* ---------------------------------------------------------- point to point
(* "base" moves the peers into the replica of the job that is written; the *)
(* wildcard stays as it is.                                                *)
MessageKinds == {"Send", "Rsend", "Recv", "Isend", "Irecv"}

InReplica(peer, base) == IF peer = mpi_any_source THEN peer ELSE peer + base

PointToPoint(s, e, base) ==
    LET t == WithTag(s, e.comm, e.tag)
    IN CASE e.f \in {"Send", "Rsend"} -> Blocking(t, Send(t.g, e.peer + base))
         [] e.f = "Recv"  -> Blocking(t, Recv(t.g, InReplica(e.peer, base)))
         [] e.f = "Isend" -> Nonblocking(t, Send(t.g, e.peer + base), e.req)
         [] e.f = "Irecv" -> Nonblocking(t, Recv(t.g, InReplica(e.peer, base)), e.req)

(* Both halves use the send's tag.                                         *)
Sendrecv(s, e, base) ==
    LET t == WithTag(s, e.comm, e.tag)
        sid == NewId(t.g)
        both == {<<sid, Requ>>, <<sid + 1, Requ>>}
        g == Recv(Send(t.g, e.peer + base), e.from + base)
    IN [NextOp([t EXCEPT !.g = g, !.next = @ \union both]) EXCEPT !.prev = both]

(* A wait on a request that is not open writes nothing.                    *)
Wait(s, e) ==
    IF e.req \notin DOMAIN s.reqs THEN s
    ELSE Blocking([s EXCEPT !.reqs = Erase(@, e.req)],
                  Requires(Exec(s.g), NewId(s.g), s.reqs[e.req]))

(* The requests of an array lie ReqSize apart; only the first is erased.   *)
(* (Wrong variant: the last one is forgotten.)                             *)
WaitallButLast(s, e) ==
    LET open == {e.req + i * ReqSize : i \in 0..(e.count - 2)} \intersect DOMAIN s.reqs
        heads == {s.reqs[r] : r \in open}
    IN Blocking([s EXCEPT !.reqs = Erase(@, e.req)], RequiresAll(Exec(s.g), {NewId(s.g)}, heads))

Waitall(s, e) ==
    LET open == {e.req + i * ReqSize : i \in 0..(e.count - 1)} \intersect DOMAIN s.reqs
        heads == {s.reqs[r] : r \in open}
    IN Blocking([s EXCEPT !.reqs = Erase(@, e.req)], RequiresAll(Exec(s.g), {NewId(s.g)}, heads))

(* Persistent requests: described once, started many times.                *)
Persistent(s, e, base) ==
    [s EXCEPT !.preqs = Set(@, e.req, [send |-> e.f = "Send_init",
                                       peer |-> InReplica(e.peer, base),
                                       tag |-> e.tag, comm |-> e.comm])]

Start(s, e) ==
    IF e.req \notin DOMAIN s.preqs THEN s
    ELSE LET q == s.preqs[e.req]
             t == WithTag(s, q.comm, q.tag)
         IN Nonblocking(t, IF q.send THEN Send(t.g, q.peer) ELSE Recv(t.g, q.peer), e.req)

RequestFree(s, e) == [s EXCEPT !.preqs = Erase(@, e.req)]

\* -------------------------------------------------------------- collectives
(* The operation that stands for the whole collective waits for the last   *)
(* of its operations; the first of them wait for the computation before,   *)
(* the computation after waits for the whole.                              *)
FinishColl(s, g, nbcify) ==
    LET collop == NewId(g)
        whole == RequiresAll(Exec(g), {collop}, g.end)
        h == IF nbcify THEN Irequires(Exec(whole), NewId(whole), collop) ELSE whole
        t == NextOp([s EXCEPT !.g = h, !.next = @ \union {<<i, Requ>> : i \in g.start}])
    IN [t EXCEPT !.prev = {<<collop, Requ>>}, !.nops = @ + 1]

CollectiveKinds == {"Barrier", "Allreduce", "Iallreduce", "Bcast", "Allgather", "Reduce", "Alltoall"}

CollPattern(g, e, rank, n) ==
    CASE e.f \in {"Barrier", "Iallreduce", "Allgather"} -> Dissemination(g, rank, n)
      [] e.f = "Allreduce" -> RecdoubAllreduce(g, rank, n)
      [] e.f = "Bcast"     -> BinomialBcast(g, rank, n, e.root)
      [] e.f = "Reduce"    -> BinomialReduce(g, rank, n, e.root)
      [] e.f = "Alltoall"  -> LinearAlltoall(g, rank, n)

(* A collective on a part of the hosts is skipped and not counted.  An     *)
(* Iallreduce does not number its communicator; its request stands for the *)
(* whole.  (Wrong variant: skipped ones are counted.)                      *)
CollectiveCountingAll(s, e, rank, c) ==
    IF e.p # c.hosts THEN [s EXCEPT !.nops = @ + 1]
    ELSE LET t == WithTag(s, e.comm, CollsBase + s.nops)
         IN FinishColl(t, CollPattern(StartOp(t.g), e, rank, c.hosts * c.extr), c.nbcify)

Collective(s, e, rank, c) ==
    IF e.p # c.hosts THEN s
    ELSE LET tag == CollsBase + s.nops
             t == IF e.f = "Iallreduce" THEN [s EXCEPT !.g = SetTag(@, <<0, tag>>)]
                  ELSE WithTag(s, e.comm, tag)
             g == CollPattern(StartOp(t.g), e, rank, c.hosts * c.extr)
             u == FinishColl(t, g, c.nbcify)
         IN IF e.f = "Iallreduce" THEN [u EXCEPT !.reqs = Set(@, e.req, NewId(g))] ELSE u

\* --------------------------------------------------------------- a rank
Translate(s, e, rank, c) ==
    LET base == (rank \div c.hosts) * c.hosts
    IN CASE e.f \in MessageKinds              -> PointToPoint(s, e, base)
         [] e.f = "Sendrecv"                 -> Sendrecv(s, e, base)
         [] e.f = "Wait"                     -> Wait(s, e)
         [] e.f = "Waitall"                  -> Waitall(s, e)
         [] e.f \in {"Send_init", "Recv_init"} -> Persistent(s, e, base)
         [] e.f = "Start"                    -> Start(s, e)
         [] e.f = "Request_free"             -> RequestFree(s, e)
         [] e.f \in CollectiveKinds          -> Collective(s, e, rank, c)
         [] e.f = "Finalize"                 -> NextOp(s)
         [] OTHER                            -> s

(* The schedule of a rank: the trace of host rank % hosts.                 *)
TraceRank(c, rank) ==
    LET entries == c.trace[rank % c.hosts]
        Step(s, k) == Translate([s EXCEPT !.g.call = k], entries[k], rank, c)
    IN FoldLeft(Step, StartFile, [k \in 1..Len(entries) |-> k]).g

TraceSchedule(c) == [r \in Ranks(c.hosts * c.extr) |-> TraceRank(c, r)]
=============================================================================
