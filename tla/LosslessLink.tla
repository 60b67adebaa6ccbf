---------------------------- MODULE LosslessLink ----------------------------
(***************************************************************************)
(* One lossless link between two switches, with its timing: the egress     *)
(* LosslessOutputQueue of the upstream switch, the Pipe that carries its   *)
(* packets, the LosslessInputQueue of the downstream switch, and the       *)
(* CallbackPipe that carries PAUSE and GO frames back to the egress queue. *)
(*                                                                         *)
(* Time advances in ticks.  A packet is serialised in Service ticks and    *)
(* crosses the pipe in DataDelay ticks; a frame crosses back in PauseDelay *)
(* ticks.  (The two delays differ in the program: init_network gives the   *)
(* pipe the tier's latency and the ingress queue _hop_latency, which is    *)
(* zero when the topology file states latencies per tier.)  Events due at  *)
(* the same instant happen in any order.                                   *)
(*                                                                         *)
(* The rest of the two switches is the environment: Enqueue offers a       *)
(* packet to the egress queue, Drain is a downstream egress queue telling  *)
(* the ingress queue that a packet charged to it has left.                 *)
(***************************************************************************)
EXTENDS Pfc

CONSTANTS
    Service,     \* ticks to serialise one packet (drainTime)
    DataDelay,   \* latency of the data Pipe
    PauseDelay,  \* latency of the pause CallbackPipe
    MaxBacklog   \* bound: the environment never queues more packets than this

ASSUME TimingAssumption ==
    /\ Service \in Nat \ {0}
    /\ DataDelay \in Nat
    /\ PauseDelay \in Nat
    /\ MaxBacklog \in Nat \ {0}

VARIABLES
    txq,      \* packets in the egress queue, the one in service included
    st,       \* _state_send of the egress queue
    sending,  \* _sending: a service completion is scheduled
    left,     \* ticks until that completion
    wire,     \* ticks left of each packet in the data pipe, in order
    iq,       \* the ingress queue: occupancy and announced state
    pwire     \* frames in the pause pipe, in order, with the ticks left

vars == <<txq, st, sending, left, wire, iq, pwire>>

Init ==
    /\ txq = 0
    /\ st = "READY"
    /\ sending = FALSE
    /\ left = 0
    /\ wire = <<>>
    /\ iq = IngressInit
    /\ pwire = <<>>

(* A frame on its way back, with the ticks it still has to go.              *)
Signal == [f : Frame, age : Nat]

Aged(p) == [i \in DOMAIN p |-> [f |-> p[i].f, age |-> p[i].age - 1]]

InFlight(fs) == [i \in DOMAIN fs |-> [f |-> fs[i], age |-> PauseDelay]]

DataDue == wire # <<>> /\ Head(wire) = 0
FrameDue == pwire # <<>> /\ Head(pwire).age = 0
ServiceDue == sending /\ left = 0

-----------------------------------------------------------------------------
BeginService == sending' = TRUE /\ left' = Service

(* LosslessOutputQueue::receivePacket on a data packet.                     *)
Enqueue ==
    /\ txq < MaxBacklog
    /\ txq' = txq + 1
    /\ IF txq = 0 /\ st = "READY"
       THEN BeginService
       ELSE UNCHANGED <<sending, left>>
    /\ UNCHANGED <<st, wire, iq, pwire>>

(* LosslessOutputQueue::completeService.                                    *)
CompleteService ==
    /\ ServiceDue
    /\ txq' = txq - 1
    /\ wire' = Append(wire, DataDelay)
    /\ st' = AfterService(st)
    /\ IF txq' > 0 /\ st' = "READY"
       THEN BeginService
       ELSE sending' = FALSE /\ left' = 0
    /\ UNCHANGED <<iq, pwire>>

(* LosslessOutputQueue::receivePacket on an ETH_PAUSE frame.                *)
ReceiveFrame ==
    /\ FrameDue
    /\ st' = OnFrame(Head(pwire).f, sending)
    /\ pwire' = Tail(pwire)
    /\ IF st' = "READY" /\ txq > 0 /\ ~sending
       THEN BeginService
       ELSE UNCHANGED <<sending, left>>
    /\ UNCHANGED <<txq, wire, iq>>

(* LosslessInputQueue::receivePacket.                                       *)
ReceiveData ==
    /\ DataDue
    /\ wire' = Tail(wire)
    /\ iq' = Charge(iq)
    /\ pwire' = pwire \o InFlight(FramesOnCharge(iq))
    /\ UNCHANGED <<txq, st, sending, left>>

(* LosslessInputQueue::completedService and release_bytes, called by any    *)
(* downstream egress queue.                                                 *)
Drain ==
    /\ iq.occ > 0
    /\ iq' = Release(iq)
    /\ pwire' = pwire \o InFlight(FramesOnRelease(iq))
    /\ UNCHANGED <<txq, st, sending, left, wire>>

(* The event list moves to the next instant once nothing is due now.        *)
Tick ==
    /\ ~DataDue /\ ~FrameDue /\ ~ServiceDue
    /\ sending \/ wire # <<>> \/ pwire # <<>>
    /\ left' = IF sending THEN left - 1 ELSE left
    /\ wire' = [i \in DOMAIN wire |-> wire[i] - 1]
    /\ pwire' = Aged(pwire)
    /\ UNCHANGED <<txq, st, sending, iq>>

Next ==
    \/ Enqueue
    \/ CompleteService
    \/ ReceiveFrame
    \/ ReceiveData
    \/ Drain
    \/ Tick

(* The event list runs every scheduled event; the downstream egress queues  *)
(* drain.  Nothing obliges the upstream switch to offer packets.            *)
Fairness ==
    /\ WF_vars(CompleteService)
    /\ WF_vars(ReceiveFrame)
    /\ WF_vars(ReceiveData)
    /\ WF_vars(Drain)
    /\ WF_vars(Tick)

Safety == Init /\ [][Next]_vars

Spec == Safety /\ Fairness

-----------------------------------------------------------------------------
TypeOK ==
    /\ txq \in Nat
    /\ st \in SendState
    /\ sending \in BOOLEAN
    /\ left \in Nat
    /\ wire \in Seq(Nat)
    /\ iq \in IngressType
    /\ pwire \in Seq(Signal)

(* A transmission is scheduled exactly when the queue may send and has      *)
(* something to send, or when a pause found one under way.  This is what    *)
(* the asserts of beginService (READY and not sending) and completeService  *)
(* (queue not empty) rest on, and what makes the queue work-conserving:     *)
(* no packet waits in a READY queue that is not transmitting.               *)
SenderConsistent ==
    /\ sending <=> (st = "PAUSE_RECEIVED" \/ (st = "READY" /\ txq > 0))
    /\ sending => txq > 0

(* What the sender will believe once every frame in flight has arrived is   *)
(* what the ingress queue last announced.  A pause or a restart that is     *)
(* lost, swapped or announced twice leaves the two apart: a sender paused   *)
(* for ever, or one that ignores a full port.                               *)
PauseAgreement ==
    IF pwire = <<>>
    THEN (st = "READY") <=> (iq.st = "READY")
    ELSE pwire[Len(pwire)].f = IF iq.st = "PAUSED" THEN "PAUSE" ELSE "GO"

(* The frames of a link alternate, so the sender never sees two pauses with *)
(* no restart between them (the commented-out assert of receivePacket).     *)
FramesAlternate ==
    /\ \A i \in 1..(Len(pwire) - 1) : pwire[i].f # pwire[i + 1].f
    /\ pwire # <<>> => ((st = "READY") <=> (Head(pwire).f = "PAUSE"))

(* The two thresholds do what they are for: a paused port holds at least    *)
(* Low packets and a READY one at most High.                                *)
ThresholdsHold ==
    /\ iq.st = "PAUSED" => iq.occ >= Low
    /\ iq.st = "READY" => iq.occ <= High

(* The two ends of a link agree, however many frames are between them.      *)
FlowControl == PauseAgreement /\ FramesAlternate /\ ThresholdsHold

(* Losslessness of one hop.  The packet that crosses the threshold, the     *)
(* packets launched while it and then its pause frame are in flight, and    *)
(* the one in service when the frame arrives: no more ever pile up above    *)
(* the high threshold, however the downstream drains.  The buffer (maxsize) *)
(* minus High has to be at least this headroom for nothing to be dropped.   *)
Headroom == 2 + ((DataDelay + PauseDelay) \div Service)

BoundedOccupancy == iq.occ <= High + Headroom

(* A paused sender is always restarted: no resume is lost.                  *)
NoLostResume == (st # "READY") ~> (st = "READY")
=============================================================================
