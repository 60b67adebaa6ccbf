------------------------------ MODULE UecQueue ------------------------------
(***************************************************************************)
(* A UEC flow through a trimming queue: UecFlow with the bottleneck of its *)
(* path, a CompositeQueue of                                               *)
(* src/sim/htsim-backend/sim/compositequeue.cpp, made explicit.  Packets   *)
(* take many paths to it and reach it in any order; behind it there is one *)
(* pipe, which keeps their order, so that a packet that leaves the queue   *)
(* is received at once.  Acknowledgements come back by many paths.         *)
(***************************************************************************)
EXTENDS UecFlow, Sequences, SequencesExt

CONSTANTS
    MaxSize,    \* _maxsize of the low-priority queue, in packets
    RatioHigh,  \* _ratio_high and _ratio_low: how many headers are served
    RatioLow    \* for how many packets while both wait

ASSUME QueueAssumption ==
    /\ MaxSize \in Nat \ {0}
    /\ RatioHigh \in Nat \ {0}
    /\ RatioLow \in Nat \ {0}

VARIABLES
    low,   \* _enqueued_low, oldest first: whole packets
    high,  \* _enqueued_high, oldest first: headers
    serv,  \* _serv: the queue being served
    crt    \* _crt

queue == <<low, high, serv, crt>>
vars == <<flowVars, queue>>

Copies(s, p) == Cardinality({i \in DOMAIN s : s[i] = p})

\* Packets still on their way to the queue.
OnWire(p) == data[p] > Copies(low, p)

Init ==
    /\ FlowInit
    /\ low = <<>>
    /\ high = <<>>
    /\ serv = "none"
    /\ crt = 0

(* beginService, with l and h waiting: headers first, but packets get      *)
(* their share.  (Wrong variant: they get none.)                           *)
ServeHeadersFirst(l, h) ==
    /\ serv' = IF h # <<>> THEN "high" ELSE IF l # <<>> THEN "low" ELSE "none"
    /\ UNCHANGED crt

Serve(l, h) ==
    IF l # <<>> /\ h # <<>>
    THEN LET next == (crt + 1) % (RatioHigh + RatioLow)
         IN  /\ crt' = next
             /\ serv' = IF next < RatioHigh THEN "high" ELSE "low"
    ELSE /\ serv' = IF h # <<>> THEN "high" ELSE IF l # <<>> THEN "low" ELSE "none"
         /\ UNCHANGED crt

ServeIfIdle(l, h) ==
    IF serv = "none" THEN Serve(l, h) ELSE UNCHANGED <<serv, crt>>

Fits == Len(low) < MaxSize

\* receivePacket with room in the low-priority queue.
Accept(p) ==
    /\ OnWire(p)
    /\ Fits
    /\ low' = Append(low, p)
    /\ ServeIfIdle(low', high)
    /\ UNCHANGED <<flowVars, high>>

\* receivePacket, full: the arriving packet is trimmed ...
TrimArriving(p) ==
    /\ OnWire(p)
    /\ ~Fits
    /\ Trim(p)
    /\ high' = Append(high, p)
    /\ ServeIfIdle(low, high')
    /\ UNCHANGED low

(* ... or the newest packet of the queue is, and the arriving one stored.  *)
(* (Wrong variant: the oldest.)                                            *)
TrimOldest(p) ==
    /\ OnWire(p)
    /\ ~Fits
    /\ Trim(Head(low))
    /\ high' = Append(high, Head(low))
    /\ low' = Append(Tail(low), p)
    /\ ServeIfIdle(low', high')

TrimNewest(p) ==
    /\ OnWire(p)
    /\ ~Fits
    /\ Trim(Last(low))
    /\ high' = Append(high, Last(low))
    /\ low' = Append(Front(low), p)
    /\ ServeIfIdle(low', high')

\* completeService of a whole packet, and its arrival at the sink.
DepartLow ==
    /\ serv = "low"
    /\ RecvData(Head(low))
    /\ low' = Tail(low)
    /\ Serve(low', high)
    /\ UNCHANGED high

\* completeService of a header, and its arrival at the sink.
DepartHigh ==
    /\ serv = "high"
    /\ RecvHeader(Head(high))
    /\ high' = Tail(high)
    /\ Serve(low, high')
    /\ UNCHANGED low

AtSource ==
    /\ \/ Start
       \/ \E k \in Packet : RecvCumAck(k)
       \/ \E p \in Packet : RecvOneAck(p)
       \/ \E p \in Packet : RecvNack(p)
    /\ UNCHANGED queue

Next ==
    \/ AtSource
    \/ \E p \in Packet : Accept(p)
    \/ \E p \in Packet : TrimArriving(p)
    \/ \E p \in Packet : TrimNewest(p)
    \/ DepartLow
    \/ DepartHigh

(* The event list runs until it is empty: something pending happens.       *)
Spec == Init /\ [][Next]_vars /\ WF_vars(Next)

-----------------------------------------------------------------------------
\* Properties.

QueueTypeOK ==
    /\ low \in Seq(Packet)
    /\ high \in Seq(Packet)
    /\ serv \in {"none", "low", "high"}
    /\ crt \in 0 .. RatioHigh + RatioLow - 1
    /\ serv = "low" => low # <<>>
    /\ serv = "high" => high # <<>>
    /\ serv = "none" => low = <<>> /\ high = <<>>

(* Type invariant, and the asserts of completeService: the queue being     *)
(* served is not empty, and one is being served whenever a packet waits.   *)
TypeOK == FlowTypeOK /\ QueueTypeOK

(* A queue of two packets or more never trims the packet it is sending:    *)
(* what leaves is what the service began with.                             *)
ServiceKept ==
    [][ /\ serv = "low" /\ serv' = "low" /\ Len(low') >= Len(low) =>
            Head(low') = Head(low)
        /\ Len(low') <= MaxSize ]_vars

(* The flow completes, however often its packets are trimmed: packets      *)
(* that were trimmed and sent again do not shut the waiting ones out.      *)
Completes == <>finished
=============================================================================
