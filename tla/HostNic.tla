------------------------------- MODULE HostNic -------------------------------
(***************************************************************************)
(* The first hop of a lossless fabric: the send queue of a host            *)
(* (FairPriorityQueue, queue.cpp) and the LosslessInputQueue of its ToR.   *)
(*                                                                         *)
(* The host queue keeps the frame it is transmitting in _sending, apart    *)
(* from the queued ones; queuesize() still counts it.  One priority level  *)
(* is modelled (every source of the program sends at one priority), and    *)
(* the flows the FairPullQueue takes turns between are one count, since a  *)
(* count is all beginService looks at.                                     *)
(*                                                                         *)
(* Unlike LosslessOutputQueue, a GO starts a transmission without looking  *)
(* whether one is under way.  Whether that can happen depends on how fast  *)
(* the ToR drains: DrainGap is the least time between two packets leaving  *)
(* the ToR, one serialisation time when a single egress port carries this  *)
(* host's traffic, and next to nothing when many do.                       *)
(***************************************************************************)
EXTENDS Pfc

CONSTANTS
    Service,     \* ticks to serialise one frame
    DataDelay,   \* latency of the data Pipe
    PauseDelay,  \* latency of the pause CallbackPipe
    DrainGap,    \* least number of ticks between two drains at the ToR
    MaxBacklog   \* bound: the sources never queue more frames than this

ASSUME NicTimingAssumption ==
    /\ Service \in Nat \ {0}
    /\ DataDelay \in Nat
    /\ PauseDelay \in Nat
    /\ DrainGap \in Nat
    /\ MaxBacklog \in Nat \ {0}

VARIABLES
    bytes,    \* queuesize(), in frames: the one being sent included
    queued,   \* frames in the FairPullQueue
    sending,  \* _sending # NULL
    events,   \* ticks left of each scheduled completion, oldest first
    st,       \* _state_send
    aborted,  \* an assert has stopped the program
    wire,     \* ticks left of each frame in the data pipe
    iq,       \* the ToR's ingress queue
    pwire,    \* PAUSE and GO frames on their way back
    gap       \* ticks until the ToR may drain again

nic == <<bytes, queued, sending, events, st, aborted>>
vars == <<nic, wire, iq, pwire, gap>>

Init ==
    /\ bytes = 0 /\ queued = 0 /\ sending = FALSE
    /\ events = <<>> /\ st = "READY" /\ aborted = FALSE
    /\ wire = <<>> /\ iq = IngressInit /\ pwire = <<>> /\ gap = 0

Aged(p) == [i \in DOMAIN p |-> [f |-> p[i].f, age |-> p[i].age - 1]]

InFlight(fs) == [i \in DOMAIN fs |-> [f |-> fs[i], age |-> PauseDelay]]

DataDue == wire # <<>> /\ Head(wire) = 0
FrameDue == pwire # <<>> /\ Head(pwire).age = 0
ServiceDue == events # <<>> /\ Head(events) = 0

-----------------------------------------------------------------------------
(* FairPriorityQueue::beginService on a queue of q frames, of which f are   *)
(* still in the FairPullQueue, and evs completions scheduled: it takes the  *)
(* next frame and schedules its completion, whatever _sending held.  The    *)
(* dequeue of an empty FairPullQueue is NULL, which an assert refuses.      *)
BeginService(f, evs) ==
    /\ sending' = TRUE
    /\ queued' = IF f > 0 THEN f - 1 ELSE 0
    /\ events' = Append(evs, Service)
    /\ aborted' = (f = 0)

(* FairPriorityQueue::receivePacket on a data packet.  (Wrong variant: a    *)
(* service begins whether or not one is under way.)                         *)
EnqueueAlwaysBegins ==
    /\ ~aborted
    /\ queued < MaxBacklog
    /\ bytes' = bytes + 1
    /\ IF st = "READY"
       THEN BeginService(queued + 1, events)
       ELSE queued' = queued + 1 /\ UNCHANGED <<sending, events, aborted>>
    /\ UNCHANGED <<st, wire, iq, pwire, gap>>

Enqueue ==
    /\ ~aborted
    /\ queued < MaxBacklog
    /\ bytes' = bytes + 1
    /\ IF bytes = 0 /\ st = "READY"
       THEN BeginService(queued + 1, events)
       ELSE queued' = queued + 1 /\ UNCHANGED <<sending, events, aborted>>
    /\ UNCHANGED <<st, wire, iq, pwire, gap>>

(* FairPriorityQueue::receivePacket on an ETH_PAUSE frame.                  *)
ReceivePause ==
    /\ ~aborted
    /\ FrameDue /\ Head(pwire).f = "PAUSE"
    /\ st' = IF bytes > 0 THEN "PAUSE_RECEIVED" ELSE "PAUSED"
    /\ pwire' = Tail(pwire)
    /\ UNCHANGED <<bytes, queued, sending, events, aborted, wire, iq, gap>>

(* Wrong variants of the next action: a GO that does not look whether there *)
(* is anything to send, and one that does not restart the queue.            *)
ReceiveGoBlindly ==
    /\ ~aborted
    /\ FrameDue /\ Head(pwire).f = "GO"
    /\ st' = "READY"
    /\ pwire' = Tail(pwire)
    /\ BeginService(queued, events)
    /\ UNCHANGED <<bytes, wire, iq, gap>>

ReceiveGoIdly ==
    /\ ~aborted
    /\ FrameDue /\ Head(pwire).f = "GO"
    /\ st' = "READY"
    /\ pwire' = Tail(pwire)
    /\ UNCHANGED <<bytes, queued, sending, events, aborted, wire, iq, gap>>

ReceiveGo ==
    /\ ~aborted
    /\ FrameDue /\ Head(pwire).f = "GO"
    /\ st' = "READY"
    /\ pwire' = Tail(pwire)
    /\ IF bytes > 0
       THEN BeginService(queued, events)
       ELSE UNCHANGED <<queued, sending, events, aborted>>
    /\ UNCHANGED <<bytes, wire, iq, gap>>

(* FairPriorityQueue::completeService: the early return in PAUSED, the      *)
(* complaint when there is nothing to send, and the frame that leaves.      *)
CompleteService ==
    /\ ~aborted
    /\ ServiceDue
    /\ IF st = "PAUSED"
       THEN /\ events' = Tail(events)
            /\ UNCHANGED <<bytes, queued, sending, st, aborted, wire>>
       ELSE /\ bytes' = IF sending THEN bytes - 1 ELSE bytes
            /\ wire' = IF sending THEN Append(wire, DataDelay) ELSE wire
            /\ st' = AfterService(st)
            /\ IF bytes' > 0 /\ st' = "READY"
               THEN BeginService(queued, Tail(events))
               ELSE /\ sending' = FALSE
                    /\ events' = Tail(events)
                    /\ UNCHANGED <<queued, aborted>>
    /\ UNCHANGED <<iq, pwire, gap>>

(* LosslessInputQueue::receivePacket at the ToR.                            *)
ReceiveData ==
    /\ ~aborted
    /\ DataDue
    /\ wire' = Tail(wire)
    /\ iq' = Charge(iq)
    /\ pwire' = pwire \o InFlight(FramesOnCharge(iq))
    /\ UNCHANGED <<nic, gap>>

(* A packet of this host leaves the ToR: LosslessInputQueue::release_bytes. *)
Drain ==
    /\ ~aborted
    /\ iq.occ > 0 /\ gap = 0
    /\ iq' = Release(iq)
    /\ pwire' = pwire \o InFlight(FramesOnRelease(iq))
    /\ gap' = DrainGap
    /\ UNCHANGED <<nic, wire>>

Earlier(s) == [i \in DOMAIN s |-> s[i] - 1]

Tick ==
    /\ ~aborted
    /\ ~DataDue /\ ~FrameDue /\ ~ServiceDue
    /\ events # <<>> \/ wire # <<>> \/ pwire # <<>> \/ gap > 0
    /\ events' = Earlier(events)
    /\ wire' = Earlier(wire)
    /\ pwire' = Aged(pwire)
    /\ gap' = IF gap > 0 THEN gap - 1 ELSE 0
    /\ UNCHANGED <<bytes, queued, sending, st, aborted, iq>>

Next ==
    \/ Enqueue
    \/ ReceivePause
    \/ ReceiveGo
    \/ CompleteService
    \/ ReceiveData
    \/ Drain
    \/ Tick

Fairness ==
    /\ WF_vars(ReceivePause)
    /\ WF_vars(ReceiveGo)
    /\ WF_vars(CompleteService)
    /\ WF_vars(ReceiveData)
    /\ WF_vars(Drain)
    /\ WF_vars(Tick)

Spec == Init /\ [][Next]_vars /\ Fairness

-----------------------------------------------------------------------------
TypeOK ==
    /\ bytes \in Nat /\ queued \in Nat /\ sending \in BOOLEAN
    /\ events \in Seq(Nat) /\ st \in SendState /\ aborted \in BOOLEAN
    /\ wire \in Seq(Nat) /\ iq \in IngressType
    /\ pwire \in Seq([f : Frame, age : Nat])
    /\ gap \in Nat

(* No frame is overwritten: queuesize() counts exactly the frames that are  *)
(* still queued and the one being transmitted.  A frame lost from _sending  *)
(* stays in queuesize() for ever.                                           *)
NoFrameLost == bytes = queued + (IF sending THEN 1 ELSE 0)

(* One frame at a time is serialised: a completion is scheduled exactly     *)
(* while a frame is being sent.  Two of them would double the link's rate.  *)
OneTransmission == Len(events) = IF sending THEN 1 ELSE 0

(* No frame is overwritten in _sending and none is sent twice.              *)
FramesKept == NoFrameLost /\ OneTransmission

(* The assert of beginService: a queue whose queuesize() is not zero has a  *)
(* frame to send.                                                           *)
NeverDequeuesNull == ~aborted

(* A host the ToR paused is restarted, and one that has frames to send and  *)
(* is not paused is sending: no resume is lost on the first hop.            *)
HostResumes == (bytes > 0 /\ ~sending) ~> (sending \/ bytes = 0)
=============================================================================
