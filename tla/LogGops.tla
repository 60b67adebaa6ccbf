------------------------------ MODULE LogGops ------------------------------
(***************************************************************************)
(* The LogGOPS simulator executing a GOAL schedule: dependency counters,   *)
(* the receive queue and the unexpected queue of each host, eager and      *)
(* rendezvous messages.  An operation is executable when what it requires  *)
(* has ended and what it irequires has started.  An eager send ends when   *)
(* it starts; a rendezvous send, and every send of the bridge to htsim,    *)
(* when its message is matched.                                            *)
(*                                                                         *)
(* A host's turn starts everything that is executable, in the order of     *)
(* labels, or takes in everything that has arrived; the turns come in any  *)
(* order.  Clocks are left out, and with them the waiting for a CPU or a   *)
(* NIC; the messages between two hosts arrive in order.                    *)
(*                                                                         *)
(* A schedule the converter cannot read is not executed, and a message to  *)
(* a host that is not there makes the program overrun its queues: in both  *)
(* cases it has halted, and nothing more is said of it.                    *)
(*                                                                         *)
(* begun and past are about order: an operation's past are the operations  *)
(* that must have ended before it did, along dependencies and messages.    *)
(***************************************************************************)
EXTENDS Integers, Sequences, FiniteSets, SequencesExt, TLC

VARIABLES sched,                \* host -> [ops, req, ireq]
          eager,                \* whether messages are no longer than S
          begun,                \* host -> started operations -> what ended before
          past,                 \* host -> ended operations -> what ended before, and itself
          rq,                   \* host -> receives that wait for their message
          uq,                   \* host -> messages that wait for their receive
          wire,                 \* where messages go -> messages under way
          halted                \* refused by the converter, or out of bounds

execution == <<begun, past, rq, uq, wire, halted>>

Nodes == DOMAIN sched
Ops(r) == DOMAIN sched[r].ops
Op(r, i) == sched[r].ops[i]
Heads(deps, i) == {d[2] : d \in {e \in deps : e[1] = i}}

Ready(r) == {i \in Ops(r) \ DOMAIN begun[r] :
               /\ Heads(sched[r].req, i) \subseteq DOMAIN past[r]
               /\ Heads(sched[r].ireq, i) \subseteq DOMAIN begun[r]}

(* What has ended when operation i of host r starts.                       *)
Before(r, i) ==
    IF i \in DOMAIN begun[r] THEN begun[r][i]
    ELSE UNION {past[r][h] : h \in Heads(sched[r].req, i)}
           \union UNION {begun[r][h] : h \in Heads(sched[r].ireq, i)}

(* The ready operations among those of S, in the order of labels.          *)
ReadyOnes(r, S) ==
    LET ready == Ready(r) \intersect S IN SelectSeq([i \in Ops(r) |-> i], LAMBDA i : i \in ready)

Message(r, i) == [src |-> r, tag |-> Op(r, i).tag, off |-> i, past |-> Before(r, i) \union {<<r, i>>}]
Request(r, i) == [src |-> Op(r, i).peer, tag |-> Op(r, i).tag, off |-> i]

Sent(r, d) ==
    LET sends == ReadyOnes(r, {i \in Ops(r) : Op(r, i).kind = "send" /\ Op(r, i).peer = d})
    IN [k \in DOMAIN sends |-> Message(r, sends[k])]
Requests(r) ==
    LET recvs == ReadyOnes(r, {i \in Ops(r) : Op(r, i).kind = "recv"})
    IN [k \in DOMAIN recvs |-> Request(r, recvs[k])]

(* Where in queue q the element is that the source and tag of elem match,  *)
(* 0 if there is none: the queues are kept per tag and source, in order.   *)
Match(q, elem) ==
    LET fits == {k \in DOMAIN q : q[k].src = elem.src /\ q[k].tag = elem.tag}
    IN IF fits = {} THEN 0 ELSE CHOOSE k \in fits : \A l \in fits : k <= l

(* New elements, one after another, against the elements of the other      *)
(* queue: who met whom, who was missed, what is left of the queue.         *)
RECURSIVE Meet(_, _)
Meet(new, q) ==
    IF new = <<>> THEN [met |-> {}, missed |-> <<>>, left |-> q]
    ELSE LET k == Match(q, new[1])
         IN IF k = 0
            THEN LET rest == Meet(Tail(new), q) IN [rest EXCEPT !.missed = <<new[1]>> \o @]
            ELSE LET rest == Meet(Tail(new), RemoveAt(q, k))
                 IN [rest EXCEPT !.met = @ \union {<<new[1], q[k]>>}]

(* The operations that end: those in atOnce, the receives that met a       *)
(* message, and the rendezvous sends of those messages.  met is a set of   *)
(* <<host, request, message>>.                                             *)
MarkDone(atOnce, met) ==
    past' = [r \in Nodes |->
      LET received == {m \in met : m[1] = r}
          acknowledged == {m[3].off : m \in {n \in met : ~eager /\ n[3].src = r}}
          Ended(i) == Before(r, i) \union {<<r, i>>}
      IN [i \in {m[2].off : m \in received} |->
            Ended(i) \union UNION {m[3].past : m \in {n \in received : n[2].off = i}}]
         @@ [i \in atOnce[r] \union acknowledged |-> Ended(i)]
         @@ past[r]]

(* An empty message is always eager: it is sent as one byte.               *)
EndsAtOnce(r, i) ==
    \/ Op(r, i).kind = "calc"
    \/ Op(r, i).kind = "send" /\ (eager \/ Op(r, i).empty)

Launch(R) ==
    /\ ~halted
    /\ \E r \in R : Ready(r) # {}
    /\ LET posted == [r \in R |-> Meet(Requests(r), uq[r])]
       IN /\ begun' = [r \in Nodes |->
                         IF r \in R THEN [i \in Ready(r) |-> Before(r, i)] @@ begun[r] ELSE begun[r]]
          /\ rq' = [r \in Nodes |-> IF r \in R THEN rq[r] \o posted[r].missed ELSE rq[r]]
          /\ uq' = [r \in Nodes |-> IF r \in R THEN posted[r].left ELSE uq[r]]
          /\ MarkDone([r \in Nodes |-> {i \in IF r \in R THEN Ready(r) ELSE {} : EndsAtOnce(r, i)}],
                      UNION {{<<r, p[1], p[2]>> : p \in posted[r].met} : r \in R})
    /\ wire' = [d \in DOMAIN wire |->
                  wire[d] \o FlattenSeq([k \in 1..Cardinality(Nodes) |->
                                           IF k - 1 \in R THEN Sent(k - 1, d) ELSE <<>>])]
    /\ UNCHANGED <<sched, eager, halted>>

Arrive(R) ==
    /\ ~halted
    /\ \E r \in R : wire[r] # <<>>
    /\ LET arrived == [r \in R |-> Meet(wire[r], rq[r])]
       IN /\ rq' = [r \in Nodes |-> IF r \in R THEN arrived[r].left ELSE rq[r]]
          /\ uq' = [r \in Nodes |-> IF r \in R THEN uq[r] \o arrived[r].missed ELSE uq[r]]
          /\ MarkDone([r \in Nodes |-> {}], UNION {{<<r, p[2], p[1]>> : p \in arrived[r].met} : r \in R})
    /\ wire' = [d \in DOMAIN wire |-> IF d \in R THEN <<>> ELSE wire[d]]
    /\ UNCHANGED <<sched, eager, begun, halted>>

(* The queues are a vector, with an element for each host.                 *)
Overrun ==
    /\ ~halted
    /\ \E d \in DOMAIN wire \ Nodes : wire[d] # <<>>
    /\ halted' = TRUE
    /\ UNCHANGED <<sched, eager, begun, past, rq, uq, wire>>

(* The converter to the binary form reads a peer without a sign, and for a *)
(* receive its own wildcard, -1.                                           *)
Readable ==
    \A r \in Nodes : \A i \in Ops(r) :
      CASE Op(r, i).kind = "calc" -> TRUE
        [] Op(r, i).kind = "send" -> Op(r, i).peer >= 0
        [] Op(r, i).kind = "recv" -> Op(r, i).peer >= -1

Targets == UNION {{Op(r, i).peer : i \in {j \in Ops(r) : Op(r, j).kind = "send"}} : r \in Nodes}

(* Nothing has run yet.                                                    *)
Fresh ==
    /\ eager \in BOOLEAN
    /\ begun = [r \in Nodes |-> <<>>]
    /\ past = [r \in Nodes |-> <<>>]
    /\ rq = [r \in Nodes |-> <<>>]
    /\ uq = [r \in Nodes |-> <<>>]
    /\ wire = [d \in Nodes \union Targets |-> <<>>]
    /\ halted = ~Readable

Finished == ~halted /\ \A r \in Nodes : DOMAIN past[r] = Ops(r)
Stuck == halted \/ ((\A r \in Nodes : Ready(r) = {}) /\ (\A d \in DOMAIN wire : wire[d] = <<>>))
=============================================================================
