---------------------------- MODULE HostNicProofs ----------------------------
(***************************************************************************)
(* Proofs about HostNic, for every pair of thresholds and every timing in  *)
(* which the ToR cannot restart a host it has just paused: the time it     *)
(* takes to drain from above the high threshold to below the low one is    *)
(* longer than the transmission of a frame (RestartIsLate).  Without it a  *)
(* GO meets a transmission that is under way and FairPriorityQueue begins  *)
(* another: the run over many ports shows that.                            *)
(*                                                                         *)
(* The invariant carries that bound from the ingress queue through the     *)
(* pause pipe to the host: how long until a GO can be sent (ToGo), then    *)
(* how far a GO is behind its PAUSE, then that the transmission a paused   *)
(* host is finishing ends before the GO is there.                          *)
(***************************************************************************)
EXTENDS HostNic, SequenceTheorems, TLAPS

RestartIsLate == (High - Low + 1) * DrainGap > Service

Signal == [f : Frame, age : Nat]

(* Entries leave a pipe in the order they entered it.                       *)
PipesOrdered ==
    /\ \A i, j \in 1..Len(wire) : i < j => wire[i] <= wire[j]
    /\ \A i \in 1..Len(wire) : wire[i] <= DataDelay
    /\ \A i, j \in 1..Len(pwire) : i < j => pwire[i].age <= pwire[j].age
    /\ \A i \in 1..Len(pwire) : pwire[i].age <= PauseDelay

(* The state of the sender, whatever it has been told.                      *)
Transmission ==
    /\ FramesKept
    /\ \A i \in 1..Len(events) : events[i] <= Service
    /\ st = "READY" => (sending <=> bytes > 0)
    /\ st = "PAUSE_RECEIVED" => sending
    /\ st = "PAUSED" => ~sending

(* The frames in flight alternate, the first contradicts what the host      *)
(* believes and the last is what the ToR has said.                          *)
FramesAlternate ==
    /\ \A i \in 1..Len(pwire) : i + 1 \in 1..Len(pwire) =>
         pwire[i].f # pwire[i + 1].f
    /\ pwire # <<>> =>
         /\ pwire[1].f = "PAUSE" <=> st = "READY"
         /\ pwire[Len(pwire)].f = "PAUSE" <=> iq.st = "PAUSED"
    /\ pwire = <<>> => (st = "READY" <=> iq.st = "READY")

(* The least time before the ToR, being paused, sends a GO.                 *)
ToGo == gap + (iq.occ - Low) * DrainGap

(* A restart comes after the transmission that was under way when the pause *)
(* came: the ToR will not send it too soon, has not, and the host has less  *)
(* to wait for the end of its transmission than for the GO.                 *)
RestartsLate ==
    /\ iq.st = "PAUSED" => iq.occ >= Low
    /\ pwire # <<>> /\ iq.st = "PAUSED" =>
         pwire[Len(pwire)].age + Service < PauseDelay + ToGo
    /\ \A i \in 1..Len(pwire) : i + 1 \in 1..Len(pwire) /\ pwire[i].f = "PAUSE" =>
         pwire[i].age + Service < pwire[i + 1].age
    /\ st = "PAUSE_RECEIVED" /\ pwire # <<>> => events[1] < pwire[1].age
    /\ st = "PAUSE_RECEIVED" /\ pwire = <<>> => events[1] < PauseDelay + ToGo

IInv ==
    /\ TypeOK /\ PipesOrdered /\ Transmission /\ FramesAlternate /\ RestartsLate
    /\ ~aborted

-----------------------------------------------------------------------------
(* The two pipes and the ingress queue                                      *)

Sent(fr) == [f |-> fr, age |-> PauseDelay]

LEMMA Types ==
    ASSUME TypeOK
    PROVE  /\ pwire \in Seq(Signal) /\ Len(pwire) \in Nat
           /\ \A i \in 1..Len(pwire) : pwire[i].f \in Frame /\ pwire[i].age \in Nat
           /\ wire \in Seq(Nat) /\ Len(wire) \in Nat
           /\ \A i \in 1..Len(wire) : wire[i] \in Nat
           /\ events \in Seq(Nat) /\ Len(events) \in Nat
           /\ \A i \in 1..Len(events) : events[i] \in Nat
           /\ iq.occ \in Nat /\ iq.st \in {"READY", "PAUSED"}
  <1>1. pwire \in Seq(Signal)
    BY DEF TypeOK, Signal
  <1>2. \A i \in 1..Len(pwire) : pwire[i] \in Signal
    BY <1>1, ElementOfSeq
  <1> QED  BY <1>1, <1>2, LenProperties, ElementOfSeq DEF TypeOK, Signal, IngressType

(* Frames leave for the host one at a time.                                 *)
LEMMA Announced ==
    ASSUME TypeOK, NEW fr \in Frame
    PROVE  /\ pwire \o InFlight(<<>>) = pwire
           /\ pwire \o InFlight(<<fr>>) = Append(pwire, Sent(fr))
  <1>1. InFlight(<<>>) = <<>> /\ InFlight(<<fr>>) = <<Sent(fr)>>
    BY DEF InFlight, Sent
  <1>2. Sent(fr) \in Signal /\ pwire \in Seq(Signal)
    BY Types, NicTimingAssumption DEF Sent, Signal
  <1> QED  BY <1>1, <1>2, ConcatEmptySeq, AppendIsConcat

(* The pause pipe after a frame has been announced.                         *)
LEMMA AfterAnnouncing ==
    ASSUME TypeOK, NEW fr \in Frame, pwire' = Append(pwire, Sent(fr))
    PROVE  /\ pwire' \in Seq([f : Frame, age : Nat])
           /\ Len(pwire') = Len(pwire) + 1 /\ pwire' # <<>>
           /\ \A i \in 1..Len(pwire) : pwire'[i] = pwire[i]
           /\ pwire'[Len(pwire')].f = fr /\ pwire'[Len(pwire')].age = PauseDelay
  <1>1. Sent(fr) \in Signal /\ Sent(fr).f = fr /\ Sent(fr).age = PauseDelay
    BY NicTimingAssumption DEF Sent, Signal
  <1>2. pwire \in Seq(Signal) /\ Len(pwire) \in Nat
    BY Types
  <1>3. /\ pwire' \in Seq(Signal) /\ pwire' # <<>> /\ Len(pwire') = Len(pwire) + 1
        /\ \A i \in 1..Len(pwire) : pwire'[i] = pwire[i]
        /\ pwire'[Len(pwire) + 1] = Sent(fr)
    BY <1>1, <1>2, AppendProperties
  <1> QED  BY <1>1, <1>2, <1>3 DEF Signal

LEMMA ChargeFacts ==
    ASSUME iq \in IngressType
    PROVE  /\ Charge(iq) \in IngressType
           /\ Charge(iq).occ = iq.occ + 1
           /\ CrossesHigh(iq) => /\ iq.st = "READY" /\ Charge(iq).st = "PAUSED"
                                 /\ iq.occ + 1 > High
                                 /\ FramesOnCharge(iq) = <<"PAUSE">>
           /\ ~CrossesHigh(iq) => /\ Charge(iq).st = iq.st
                                  /\ FramesOnCharge(iq) = <<>>
  BY ThresholdAssumption DEF IngressType, Charge, CrossesHigh, FramesOnCharge

LEMMA ReleaseFacts ==
    ASSUME iq \in IngressType, iq.occ > 0
    PROVE  /\ Release(iq) \in IngressType
           /\ Release(iq).occ = iq.occ - 1
           /\ CrossesLow(iq) => /\ iq.st = "PAUSED" /\ Release(iq).st = "READY"
                                /\ iq.occ <= Low
                                /\ FramesOnRelease(iq) = <<"GO">>
           /\ ~CrossesLow(iq) => /\ Release(iq).st = iq.st
                                 /\ iq.st = "PAUSED" => iq.occ > Low
                                 /\ FramesOnRelease(iq) = <<>>
  BY ThresholdAssumption DEF IngressType, Release, CrossesLow, FramesOnRelease

(* The time to drain k frames.                                              *)
LEMMA DrainTimes ==
    ASSUME NEW j \in Nat, NEW k \in Nat
    PROVE  /\ k * DrainGap \in Nat
           /\ (k + 1) * DrainGap = k * DrainGap + DrainGap
           /\ k <= j => k * DrainGap <= j * DrainGap
  <1>1. DrainGap \in Nat
    BY NicTimingAssumption
  <1>2. k * DrainGap \in Nat /\ (k + 1) * DrainGap = k * DrainGap + DrainGap
    BY <1>1
  <1>3. ASSUME k <= j PROVE k * DrainGap <= j * DrainGap
    <2>1. j - k \in Nat
      BY <1>3
    <2>2. (j - k) * DrainGap \in Nat
      BY <1>1, <2>1
    <2>3. j * DrainGap = k * DrainGap + (j - k) * DrainGap
      BY <1>1
    <2> QED  BY <1>2, <2>2, <2>3
  <1> QED  BY <1>2, <1>3

LEMMA NothingDue ==
    ASSUME TypeOK, PipesOrdered, ~DataDue, ~FrameDue
    PROVE  /\ \A i \in 1..Len(wire) : wire[i] > 0
           /\ \A i \in 1..Len(pwire) : pwire[i].age > 0
  <1>1. ASSUME NEW i \in 1..Len(wire) PROVE wire[i] > 0
    <2>1. wire # <<>> /\ Head(wire) = wire[1] /\ 1 \in 1..Len(wire)
      BY <1>1 DEF TypeOK
    <2>2. wire[1] \in Nat /\ wire[i] \in Nat /\ wire[1] # 0
      BY <2>1, Types DEF DataDue
    <2>3. wire[1] <= wire[i]
      BY <2>1, <2>2 DEF PipesOrdered
    <2> QED  BY <2>2, <2>3
  <1>2. ASSUME NEW i \in 1..Len(pwire) PROVE pwire[i].age > 0
    <2>1. pwire # <<>> /\ Head(pwire) = pwire[1] /\ 1 \in 1..Len(pwire)
      BY <1>2, Types
    <2>2. pwire[1].age \in Nat /\ pwire[i].age \in Nat /\ pwire[1].age # 0
      BY <2>1, Types DEF FrameDue
    <2>3. pwire[1].age <= pwire[i].age
      BY <2>1, <2>2 DEF PipesOrdered
    <2> QED  BY <2>2, <2>3
  <1> QED  BY <1>1, <1>2

(* One completion at most is scheduled, and when it is due the frame it is  *)
(* for is there.                                                            *)
LEMMA Completions ==
    ASSUME TypeOK, Transmission
    PROVE  /\ events = <<>> <=> ~sending
           /\ sending => /\ Len(events) = 1 /\ Head(events) = events[1]
                         /\ Tail(events) = <<>> /\ events[1] \in Nat
                         /\ events[1] <= Service
           /\ sending => bytes = queued + 1
           /\ ~sending => bytes = queued
  <1>1. Len(events) = IF sending THEN 1 ELSE 0
    BY DEF Transmission, FramesKept, OneTransmission
  <1>2. events \in Seq(Nat)
    BY DEF TypeOK
  <1>3. sending => /\ Head(events) = events[1] /\ events[1] \in Nat
                   /\ Tail(events) = <<>> /\ events # <<>>
    <2> SUFFICES ASSUME sending
                 PROVE  /\ Head(events) = events[1] /\ events[1] \in Nat
                        /\ Tail(events) = <<>> /\ events # <<>>
      OBVIOUS
    <2>1. Len(events) = 1
      BY <1>1
    <2>2. events # <<>>
      BY <2>1
    <2>3. Tail(events) \in Seq(Nat) /\ Len(Tail(events)) = 0
      BY <1>2, <2>1, <2>2, HeadTailProperties
    <2>4. Tail(events) = <<>>
      BY <2>3, EmptySeq
    <2> QED  BY <1>2, <2>1, <2>2, <2>4, ElementOfSeq
  <1>4. ~sending => events = <<>>
    BY <1>1, <1>2, EmptySeq
  <1> QED  BY <1>1, <1>3, <1>4 DEF Transmission, FramesKept, NoFrameLost, TypeOK

(* A service begins when none is under way.                                 *)
LEMMA ServiceBegins ==
    ASSUME NEW f \in Nat, f > 0, BeginService(f, <<>>)
    PROVE  /\ sending' = TRUE /\ queued' = f - 1 /\ queued' \in Nat
           /\ events' \in Seq(Nat) /\ Len(events') = 1
           /\ \A i \in 1..Len(events') : events'[i] = Service
           /\ aborted' = FALSE
  <1>1. events' = <<Service>> /\ Service \in Nat
    BY NicTimingAssumption DEF BeginService
  <1>2. <<Service>> \in Seq(Nat) /\ Len(<<Service>>) = 1 /\ <<Service>>[1] = Service
    BY <1>1
  <1>3. sending' = TRUE /\ queued' = f - 1 /\ aborted' = FALSE
    <2>1. sending' = TRUE /\ queued' = f - 1 /\ (aborted' <=> f = 0) /\ aborted' \in BOOLEAN
      BY DEF BeginService
    <2> QED  BY <2>1
  <1>4. \A i \in 1..1 : i = 1
    OBVIOUS
  <1> QED  BY <1>1, <1>2, <1>3, <1>4

-----------------------------------------------------------------------------
(* The host                                                                 *)

LEMMA EnqueueStep ==
    ASSUME IInv, Enqueue
    PROVE  IInv'
  <1>1. /\ bytes' = bytes + 1
        /\ UNCHANGED <<st, wire, iq, pwire, gap>>
        /\ bytes \in Nat /\ queued \in Nat /\ ~aborted
    BY DEF Enqueue, IInv, TypeOK
  <1>2. PipesOrdered' /\ FramesAlternate'
    BY <1>1 DEF IInv, PipesOrdered, FramesAlternate
  <1>3. TypeOK /\ Transmission
    BY DEF IInv
  <1>4. CASE bytes = 0 /\ st = "READY"
    <2>1. ~sending /\ queued = 0 /\ events = <<>>
      BY <1>1, <1>3, <1>4, Completions DEF TypeOK
    <2>2. BeginService(queued + 1, <<>>)
      BY <1>4, <2>1 DEF Enqueue
    <2>3. /\ sending' = TRUE /\ queued' = queued /\ queued' \in Nat
          /\ events' \in Seq(Nat) /\ Len(events') = 1
          /\ \A i \in 1..Len(events') : events'[i] = Service
          /\ aborted' = FALSE
      <3>1. queued + 1 \in Nat /\ queued + 1 > 0
        BY <1>1
      <3> DEFINE n == queued + 1
      <3>2. n \in Nat /\ n > 0 /\ BeginService(n, <<>>)
        BY <2>2, <3>1
      <3> HIDE DEF n
      <3>3. /\ sending' = TRUE /\ queued' = n - 1 /\ queued' \in Nat
            /\ events' \in Seq(Nat) /\ Len(events') = 1
            /\ \A i \in 1..Len(events') : events'[i] = Service
            /\ aborted' = FALSE
        BY <3>2, ServiceBegins
      <3>4. queued' = queued
        BY <1>1, <3>3 DEF n
      <3> QED  BY <1>1, <3>3, <3>4
    <2>4. TypeOK'
      <3>1. sending' \in BOOLEAN /\ aborted' \in BOOLEAN
        BY <2>3, Zenon
      <3>2. bytes' \in Nat
        BY <1>1
      <3> QED  BY <1>1, <2>3, <3>1, <3>2 DEF IInv, TypeOK
    <2>5. Transmission'
      BY <1>1, <1>4, <2>1, <2>3, NicTimingAssumption
      DEF Transmission, FramesKept, NoFrameLost, OneTransmission
    <2>6. RestartsLate'
      BY <1>1, <1>4 DEF IInv, RestartsLate, ToGo
    <2> QED  BY <1>2, <2>3, <2>4, <2>5, <2>6 DEF IInv
  <1>5. CASE ~(bytes = 0 /\ st = "READY")
    <2>1. queued' = queued + 1 /\ UNCHANGED <<sending, events, aborted>>
      BY <1>5 DEF Enqueue
    <2>2. TypeOK'
      BY <1>1, <2>1 DEF IInv, TypeOK
    <2>3. Transmission'
      <3>1. st = "READY" => bytes > 0
        BY <1>1, <1>5
      <3> QED  BY <1>1, <1>3, <2>1, <3>1
          DEF TypeOK, Transmission, FramesKept, NoFrameLost, OneTransmission
    <2>4. RestartsLate'
      BY <1>1, <2>1 DEF IInv, RestartsLate, ToGo
    <2> QED  BY <1>1, <1>2, <2>1, <2>2, <2>3, <2>4 DEF IInv
  <1> QED  BY <1>4, <1>5

(* A frame leaves the pause pipe.                                           *)
LEMMA Received ==
    ASSUME TypeOK, FrameDue, pwire' = Tail(pwire)
    PROVE  /\ pwire # <<>> /\ 1 \in 1..Len(pwire) /\ pwire[Len(pwire)].f \in Frame
           /\ Head(pwire) = pwire[1] /\ pwire[1].age = 0
           /\ pwire' \in Seq([f : Frame, age : Nat])
           /\ Len(pwire') = Len(pwire) - 1 /\ Len(pwire) > 0
           /\ \A i \in 1..Len(pwire') : pwire'[i] = pwire[i + 1] /\ i + 1 \in 1..Len(pwire)
           /\ pwire' # <<>> => /\ 1 \in 1..Len(pwire') /\ pwire'[1] = pwire[2]
                               /\ 2 \in 1..Len(pwire)
                               /\ pwire'[Len(pwire')] = pwire[Len(pwire)]
           /\ pwire' = <<>> => Len(pwire) = 1
  <1>1. pwire \in Seq(Signal) /\ pwire # <<>> /\ Len(pwire) \in Nat
    BY Types DEF FrameDue
  <1>2. Len(pwire) > 0
    BY <1>1, EmptySeq
  <1>3. Head(pwire) = pwire[1] /\ pwire[1].age = 0
    BY <1>1 DEF FrameDue
  <1>4. /\ pwire' \in Seq(Signal) /\ Len(pwire') = Len(pwire) - 1
        /\ \A i \in 1..Len(pwire') : pwire'[i] = pwire[i + 1]
    BY <1>1, HeadTailProperties
  <1>5. pwire' = <<>> => Len(pwire') = 0
    BY EmptySeq
  <1>6. pwire' # <<>> => Len(pwire') > 0
    BY <1>4, EmptySeq
  <1>7. pwire' # <<>> => /\ 1 \in 1..Len(pwire') /\ pwire'[1] = pwire[2]
                         /\ 2 \in 1..Len(pwire)
                         /\ pwire'[Len(pwire')] = pwire[Len(pwire)]
    <2> SUFFICES ASSUME pwire' # <<>>
                 PROVE  /\ 1 \in 1..Len(pwire') /\ pwire'[1] = pwire[1 + 1]
                        /\ 2 \in 1..Len(pwire)
                        /\ pwire'[Len(pwire')] = pwire[Len(pwire') + 1]
      BY <1>1, <1>4
    <2> QED  BY <1>1, <1>4, <1>6
  <1>8. pwire' \in Seq([f : Frame, age : Nat])
    BY <1>4 DEF Signal
  <1>9. 1 \in 1..Len(pwire) /\ Len(pwire) \in 1..Len(pwire)
    BY <1>1, <1>2
  <1>10. pwire[Len(pwire)].f \in Frame
    BY <1>9, Types
  <1>11. \A i \in 1..Len(pwire') : i + 1 \in 1..Len(pwire)
    BY <1>1, <1>4
  <1>12. pwire' = <<>> => Len(pwire) = 1
    BY <1>1, <1>4, <1>5
  <1> QED  BY <1>1, <1>2, <1>3, <1>4, <1>7, <1>8, <1>9, <1>10, <1>11, <1>12

LEMMA OrderedAfterReceiving ==
    ASSUME IInv, FrameDue, pwire' = Tail(pwire), wire' = wire
    PROVE  PipesOrdered'
  BY Received DEF IInv, PipesOrdered

LEMMA ReceivePauseStep ==
    ASSUME IInv, ReceivePause
    PROVE  IInv'
  <1>1. /\ FrameDue /\ Head(pwire).f = "PAUSE" /\ ~aborted
        /\ st' = IF bytes > 0 THEN "PAUSE_RECEIVED" ELSE "PAUSED"
        /\ pwire' = Tail(pwire)
        /\ UNCHANGED <<bytes, queued, sending, events, aborted, wire, iq, gap>>
    BY DEF ReceivePause
  <1>2. /\ pwire # <<>> /\ 1 \in 1..Len(pwire) /\ pwire[Len(pwire)].f \in Frame
        /\ Head(pwire) = pwire[1] /\ pwire[1].age = 0
        /\ pwire' \in Seq([f : Frame, age : Nat])
        /\ Len(pwire') = Len(pwire) - 1 /\ Len(pwire) > 0
        /\ \A i \in 1..Len(pwire') : pwire'[i] = pwire[i + 1] /\ i + 1 \in 1..Len(pwire)
        /\ pwire' # <<>> => /\ 1 \in 1..Len(pwire') /\ pwire'[1] = pwire[2]
                            /\ 2 \in 1..Len(pwire)
                            /\ pwire'[Len(pwire')] = pwire[Len(pwire)]
        /\ pwire' = <<>> => Len(pwire) = 1
    BY <1>1, Received DEF IInv
  <1>3. st = "READY" /\ (sending <=> bytes > 0)
    BY <1>1, <1>2 DEF IInv, FramesAlternate, Transmission
  <1>4. TypeOK'
    BY <1>1, <1>2 DEF IInv, TypeOK, SendState
  <1>5. PipesOrdered'
    BY <1>1, OrderedAfterReceiving DEF IInv
  <1>6. Transmission'
    BY <1>1, <1>3 DEF IInv, Transmission, FramesKept, NoFrameLost, OneTransmission
  <1>7. Len(pwire) \in Nat /\ \A i \in 1..Len(pwire) :
          pwire[i].f \in {"PAUSE", "GO"} /\ pwire[i].age \in Nat
    BY Types DEF IInv, Frame
  <1>8. FramesAlternate'
    <2>1. \A i \in 1..Len(pwire') : i + 1 \in 1..Len(pwire') =>
             pwire'[i].f # pwire'[i + 1].f
      BY <1>2, <1>7 DEF IInv, FramesAlternate
    <2>2. pwire' # <<>> => pwire'[1].f = "GO"
      <3>1. 2 \in 1..Len(pwire) => pwire[1].f # pwire[1 + 1].f
        BY <1>2, <1>7 DEF IInv, FramesAlternate
      <3> QED  BY <1>1, <1>2, <1>7, <3>1
    <2>3. pwire[Len(pwire)].f = "PAUSE" <=> iq.st = "PAUSED"
      BY <1>2 DEF IInv, FramesAlternate
    <2>4. iq.st # "READY" <=> iq.st = "PAUSED"
      BY Types DEF IInv
    <2>5. st' # "READY"
      BY <1>1
    <2>6. pwire' = <<>> => pwire[Len(pwire)].f = "PAUSE"
      BY <1>1, <1>2
    <2> QED  BY <1>1, <1>2, <2>1, <2>2, <2>3, <2>4, <2>5, <2>6 DEF FramesAlternate
  <1>9. RestartsLate'
    <2>1. st' = "PAUSE_RECEIVED" => events[1] \in Nat /\ events[1] <= Service
      BY <1>1, <1>3, Completions DEF IInv
    <2>2. pwire' # <<>> => 0 + Service < pwire'[1].age
      <3>1. 2 \in 1..Len(pwire) => pwire[1].age + Service < pwire[1 + 1].age
        BY <1>1, <1>2, <1>7 DEF IInv, RestartsLate
      <3> QED  BY <1>2, <3>1
    <2>3. pwire' = <<>> => 0 + Service < PauseDelay + ToGo
      <3> SUFFICES ASSUME pwire' = <<>> PROVE 0 + Service < PauseDelay + ToGo
        OBVIOUS
      <3>1. Len(pwire) = 1 /\ pwire[1].f = "PAUSE"
        BY <1>1, <1>2
      <3>2. iq.st = "PAUSED"
        BY <1>2, <3>1 DEF IInv, FramesAlternate
      <3> QED  BY <1>2, <3>1, <3>2 DEF IInv, RestartsLate
    <2>4. ToGo' = ToGo
      BY <1>1 DEF ToGo
    <2>5. iq.st = "PAUSED" => iq.occ >= Low
      BY DEF IInv, RestartsLate
    <2>6. pwire' # <<>> /\ iq.st = "PAUSED" =>
            pwire'[Len(pwire')].age + Service < PauseDelay + ToGo
      BY <1>2 DEF IInv, RestartsLate
    <2>7. \A i \in 1..Len(pwire') : i + 1 \in 1..Len(pwire') /\ pwire'[i].f = "PAUSE" =>
            pwire'[i].age + Service < pwire'[i + 1].age
      BY <1>2, <1>7 DEF IInv, RestartsLate
    <2>8. /\ st' = "PAUSE_RECEIVED" /\ pwire' # <<>> => events[1] < pwire'[1].age
          /\ st' = "PAUSE_RECEIVED" /\ pwire' = <<>> => events[1] < PauseDelay + ToGo
      <3>1. ToGo \in Int
        <4>1. Len(pwire) = 1 => (iq.st = "PAUSED" => (iq.occ - Low) \in Nat)
          BY <2>5, Types, ThresholdAssumption DEF IInv
        <4> QED  BY Types, ThresholdAssumption, NicTimingAssumption DEF ToGo, IInv, TypeOK
      <3>2. pwire' # <<>> => pwire'[1].age \in Nat
        BY <1>2, <1>7
      <3> QED  BY <2>1, <2>2, <2>3, <3>1, <3>2, NicTimingAssumption
    <2> QED  BY <1>1, <2>4, <2>5, <2>6, <2>7, <2>8 DEF RestartsLate
  <1> QED  BY <1>1, <1>4, <1>5, <1>6, <1>8, <1>9 DEF IInv

LEMMA ReceiveGoStep ==
    ASSUME IInv, ReceiveGo
    PROVE  IInv'
  <1>1. /\ FrameDue /\ Head(pwire).f = "GO" /\ ~aborted
        /\ st' = "READY" /\ pwire' = Tail(pwire)
        /\ UNCHANGED <<bytes, wire, iq, gap>>
    BY DEF ReceiveGo
  <1>2. /\ pwire # <<>> /\ 1 \in 1..Len(pwire) /\ pwire[Len(pwire)].f \in Frame
        /\ Head(pwire) = pwire[1] /\ pwire[1].age = 0
        /\ pwire' \in Seq([f : Frame, age : Nat])
        /\ Len(pwire') = Len(pwire) - 1 /\ Len(pwire) > 0
        /\ \A i \in 1..Len(pwire') : pwire'[i] = pwire[i + 1] /\ i + 1 \in 1..Len(pwire)
        /\ pwire' # <<>> => /\ 1 \in 1..Len(pwire') /\ pwire'[1] = pwire[2]
                            /\ 2 \in 1..Len(pwire)
                            /\ pwire'[Len(pwire')] = pwire[Len(pwire)]
        /\ pwire' = <<>> => Len(pwire) = 1
    BY <1>1, Received DEF IInv
  <1>3. Len(pwire) \in Nat /\ \A i \in 1..Len(pwire) :
          pwire[i].f \in {"PAUSE", "GO"} /\ pwire[i].age \in Nat
    BY Types DEF IInv, Frame
  <1>4. TypeOK /\ Transmission
    BY DEF IInv
  (* The transmission that was under way when the pause came has ended.     *)
  <1>5. st = "PAUSED"
    <2>1. st # "READY"
      BY <1>1, <1>2 DEF IInv, FramesAlternate
    <2>2. ASSUME st = "PAUSE_RECEIVED" PROVE FALSE
      <3>1. events[1] < pwire[1].age
        BY <1>2, <2>2 DEF IInv, RestartsLate
      <3>2. events[1] \in Nat
        BY <1>4, <2>2, Completions DEF Transmission
      <3> QED  BY <1>2, <3>1, <3>2
    <2> QED  BY <1>4, <2>1, <2>2 DEF TypeOK, SendState
  <1>6. ~sending /\ events = <<>> /\ bytes = queued /\ bytes \in Nat
    BY <1>4, <1>5, Completions DEF Transmission, TypeOK
  <1>7. PipesOrdered'
    BY <1>1, OrderedAfterReceiving DEF IInv
  <1>8. FramesAlternate'
    <2>1. \A i \in 1..Len(pwire') : i + 1 \in 1..Len(pwire') =>
             pwire'[i].f # pwire'[i + 1].f
      BY <1>2, <1>3 DEF IInv, FramesAlternate
    <2>2. pwire' # <<>> => pwire'[1].f = "PAUSE"
      <3>1. 2 \in 1..Len(pwire) => pwire[1].f # pwire[1 + 1].f
        BY <1>2, <1>3 DEF IInv, FramesAlternate
      <3> QED  BY <1>1, <1>2, <1>3, <3>1
    <2>3. pwire[Len(pwire)].f = "PAUSE" <=> iq.st = "PAUSED"
      BY <1>2 DEF IInv, FramesAlternate
    <2>4. iq.st # "PAUSED" <=> iq.st = "READY"
      BY <1>4, Types
    <2>5. pwire' = <<>> => pwire[Len(pwire)].f = "GO"
      BY <1>1, <1>2
    <2> QED  BY <1>1, <1>2, <2>1, <2>2, <2>3, <2>4, <2>5 DEF FramesAlternate
  <1>9. RestartsLate'
    <2>1. ToGo' = ToGo
      BY <1>1 DEF ToGo
    <2>2. iq.st = "PAUSED" => iq.occ >= Low
      BY DEF IInv, RestartsLate
    <2>3. pwire' # <<>> /\ iq.st = "PAUSED" =>
            pwire'[Len(pwire')].age + Service < PauseDelay + ToGo
      BY <1>2 DEF IInv, RestartsLate
    <2>4. \A i \in 1..Len(pwire') : i + 1 \in 1..Len(pwire') /\ pwire'[i].f = "PAUSE" =>
            pwire'[i].age + Service < pwire'[i + 1].age
      BY <1>2, <1>3 DEF IInv, RestartsLate
    <2> QED  BY <1>1, <2>1, <2>2, <2>3, <2>4 DEF RestartsLate
  <1>10. CASE bytes > 0
    <2>1. BeginService(queued, <<>>) /\ queued \in Nat /\ queued > 0
      BY <1>1, <1>6, <1>10 DEF ReceiveGo
    <2>2. /\ sending' = TRUE /\ queued' = queued - 1 /\ queued' \in Nat
          /\ events' \in Seq(Nat) /\ Len(events') = 1
          /\ \A i \in 1..Len(events') : events'[i] = Service
          /\ aborted' = FALSE
      BY <2>1, ServiceBegins
    <2>3. TypeOK'
      <3>1. sending' \in BOOLEAN /\ aborted' \in BOOLEAN
        BY <2>2, Zenon
      <3> QED  BY <1>1, <1>2, <1>4, <2>2, <3>1 DEF TypeOK, SendState
    <2>4. Transmission'
      <3>1. FramesKept'
        BY <1>1, <1>6, <2>1, <2>2 DEF FramesKept, NoFrameLost, OneTransmission
      <3> QED  BY <1>1, <1>6, <1>10, <2>2, <3>1, NicTimingAssumption DEF Transmission
    <2> QED  BY <1>7, <1>8, <1>9, <2>2, <2>3, <2>4 DEF IInv
  <1>11. CASE ~(bytes > 0)
    <2>1. UNCHANGED <<queued, sending, events, aborted>>
      BY <1>11 DEF ReceiveGo
    <2>2. TypeOK'
      BY <1>1, <1>2, <1>4, <2>1 DEF TypeOK, SendState
    <2>3. Transmission'
      BY <1>1, <1>4, <1>5, <1>6, <1>11, <2>1
      DEF Transmission, FramesKept, NoFrameLost, OneTransmission
    <2> QED  BY <1>1, <1>7, <1>8, <1>9, <2>1, <2>2, <2>3 DEF IInv
  <1> QED  BY <1>10, <1>11

LEMMA CompleteServiceStep ==
    ASSUME IInv, CompleteService
    PROVE  IInv'
  <1>1. /\ ServiceDue /\ ~aborted /\ UNCHANGED <<iq, pwire, gap>>
        /\ TypeOK /\ Transmission
    BY DEF CompleteService, IInv
  <1>2. sending /\ st # "PAUSED" /\ bytes = queued + 1 /\ Tail(events) = <<>>
        /\ bytes \in Nat /\ queued \in Nat
    BY <1>1, Completions DEF ServiceDue, Transmission, TypeOK
  <1>3. /\ bytes' = bytes - 1 /\ wire' = Append(wire, DataDelay)
        /\ st' = AfterService(st)
        /\ IF bytes' > 0 /\ st' = "READY"
           THEN BeginService(queued, Tail(events))
           ELSE /\ sending' = FALSE
                /\ events' = Tail(events)
                /\ UNCHANGED <<queued, aborted>>
    BY <1>2 DEF CompleteService
  <1>4. bytes' = queued /\ bytes' \in Nat /\ bytes > 0
    BY <1>2, <1>3
  <1>5. \/ st = "READY" /\ st' = "READY"
        \/ st = "PAUSE_RECEIVED" /\ st' = "PAUSED"
    BY <1>1, <1>2, <1>3 DEF AfterService, TypeOK, SendState
  <1>6. /\ wire' \in Seq(Nat) /\ Len(wire') = Len(wire) + 1
        /\ \A i \in 1..Len(wire) : wire'[i] = wire[i]
        /\ wire'[Len(wire) + 1] = DataDelay
        /\ Len(wire) \in Nat /\ DataDelay \in Nat
        /\ \A i \in 1..Len(wire) : wire[i] \in Nat
    BY <1>1, <1>3, NicTimingAssumption, Types, AppendProperties
  <1>7. PipesOrdered'
    <2>1. \A i \in 1..Len(wire') : i \in 1..Len(wire) \/ i = Len(wire) + 1
      BY <1>6
    <2>2. \A i \in 1..Len(wire') : wire'[i] <= DataDelay
      BY <1>6, <2>1 DEF IInv, PipesOrdered
    <2>3. \A i, j \in 1..Len(wire') : i < j => i \in 1..Len(wire)
      BY <1>6
    <2>4. \A i, j \in 1..Len(wire') : i < j => wire'[i] <= wire'[j]
      BY <1>6, <2>1, <2>2, <2>3 DEF IInv, PipesOrdered
    <2> QED  BY <1>1, <2>2, <2>4 DEF IInv, PipesOrdered
  <1>8. FramesAlternate'
    BY <1>1, <1>5 DEF IInv, FramesAlternate
  <1>9. RestartsLate'
    <2>1. st' # "PAUSE_RECEIVED" /\ ToGo' = ToGo
      BY <1>1, <1>5 DEF ToGo
    <2> QED  BY <1>1, <2>1 DEF IInv, RestartsLate
  <1>10. CASE queued > 0 /\ st = "READY"
    <2>1. BeginService(queued, <<>>)
      BY <1>2, <1>3, <1>4, <1>5, <1>10
    <2>2. /\ sending' = TRUE /\ queued' = queued - 1 /\ queued' \in Nat
          /\ events' \in Seq(Nat) /\ Len(events') = 1
          /\ \A i \in 1..Len(events') : events'[i] = Service
          /\ aborted' = FALSE
      BY <1>2, <1>10, <2>1, ServiceBegins
    <2>3. TypeOK'
      <3>1. sending' \in BOOLEAN /\ aborted' \in BOOLEAN
        BY <2>2, Zenon
      <3> QED  BY <1>1, <1>4, <1>5, <1>6, <2>2, <3>1 DEF TypeOK, SendState
    <2>4. Transmission'
      <3>1. FramesKept'
        BY <1>2, <1>4, <2>2 DEF FramesKept, NoFrameLost, OneTransmission
      <3>2. st' = "READY"
        BY <1>5, <1>10
      <3> QED  BY <1>4, <1>10, <2>2, <3>1, <3>2, NicTimingAssumption DEF Transmission
    <2> QED  BY <1>7, <1>8, <1>9, <2>2, <2>3, <2>4 DEF IInv
  <1>11. CASE ~(queued > 0 /\ st = "READY")
    <2>1. sending' = FALSE /\ events' = <<>> /\ UNCHANGED <<queued, aborted>>
      BY <1>2, <1>3, <1>4, <1>5, <1>11
    <2>2. TypeOK'
      <3>1. sending' \in BOOLEAN
        BY <2>1, Zenon
      <3> QED  BY <1>1, <1>4, <1>5, <1>6, <2>1, <3>1 DEF TypeOK, SendState
    <2>3. Transmission'
      <3>1. Len(events') = 0 /\ ~sending'
        BY <2>1
      <3>2. FramesKept'
        BY <1>2, <1>4, <2>1, <3>1 DEF FramesKept, NoFrameLost, OneTransmission
      <3>3. st' = "READY" => ~(bytes' > 0)
        BY <1>2, <1>4, <1>5, <1>11
      <3>4. st' # "PAUSE_RECEIVED"
        BY <1>5
      <3> QED  BY <3>1, <3>2, <3>3, <3>4 DEF Transmission
    <2> QED  BY <1>1, <1>7, <1>8, <1>9, <2>1, <2>2, <2>3 DEF IInv
  <1> QED  BY <1>10, <1>11

-----------------------------------------------------------------------------
(* The ToR                                                                  *)

(* What the pipe shows of the ToR and of the host after the ToR has changed *)
(* its mind and said so.                                                    *)
LEMMA AnnouncementsAlternate ==
    ASSUME IInv, NEW fr \in Frame, pwire' = Append(pwire, Sent(fr)), st' = st,
           iq'.st \in {"READY", "PAUSED"}, iq'.st # iq.st,
           fr = "PAUSE" <=> iq'.st = "PAUSED"
    PROVE  /\ FramesAlternate'
           /\ \A i, j \in 1..Len(pwire') : i < j => pwire'[i].age <= pwire'[j].age
           /\ \A i \in 1..Len(pwire') : pwire'[i].age <= PauseDelay
  <1>1. /\ pwire' \in Seq([f : Frame, age : Nat])
        /\ Len(pwire') = Len(pwire) + 1 /\ pwire' # <<>>
        /\ \A i \in 1..Len(pwire) : pwire'[i] = pwire[i]
        /\ pwire'[Len(pwire')].f = fr /\ pwire'[Len(pwire')].age = PauseDelay
    BY AfterAnnouncing DEF IInv
  <1>2. /\ Len(pwire) \in Nat /\ PauseDelay \in Nat /\ iq.st \in {"READY", "PAUSED"}
        /\ \A i \in 1..Len(pwire) : pwire[i].f \in Frame /\ pwire[i].age \in Nat
    BY Types, NicTimingAssumption DEF IInv
  <1>3. \A i \in 1..Len(pwire') : i \in 1..Len(pwire) \/ i = Len(pwire')
    BY <1>1, <1>2
  <1>4. pwire # <<>> => Len(pwire) > 0 /\ 1 \in 1..Len(pwire)
    <2>1. pwire \in Seq(Signal)
      BY Types DEF IInv
    <2> QED  BY <1>2, <2>1, EmptySeq
  <1>5. pwire = <<>> => Len(pwire') = 1
    BY <1>1, EmptySeq
  <1>6. \A i \in 1..Len(pwire') : pwire'[i].age <= PauseDelay
    BY <1>1, <1>2, <1>3 DEF IInv, PipesOrdered
  <1>7. \A i, j \in 1..Len(pwire') : i < j => pwire'[i].age <= pwire'[j].age
    <2>1. \A i, j \in 1..Len(pwire') : i < j => i \in 1..Len(pwire)
      BY <1>1, <1>2
    <2> QED  BY <1>1, <1>2, <1>3, <2>1 DEF IInv, PipesOrdered
  <1>8. fr \in {"PAUSE", "GO"}
    BY DEF Frame
  <1>9. pwire'[1].f = "PAUSE" <=> st = "READY"
    BY <1>1, <1>2, <1>4, <1>5, <1>8 DEF IInv, FramesAlternate
  <1>10. \A i \in 1..Len(pwire') : i + 1 \in 1..Len(pwire') =>
           pwire'[i].f # pwire'[i + 1].f
    <2> SUFFICES ASSUME NEW i \in 1..Len(pwire'), i + 1 \in 1..Len(pwire')
                 PROVE  pwire'[i].f # pwire'[i + 1].f
      OBVIOUS
    <2>1. i \in 1..Len(pwire) /\ pwire'[i] = pwire[i]
      BY <1>1, <1>2
    <2>2. CASE i + 1 \in 1..Len(pwire)
      BY <1>1, <2>1, <2>2 DEF IInv, FramesAlternate
    <2>3. CASE i + 1 = Len(pwire')
      <3>1. i = Len(pwire) /\ pwire # <<>>
        BY <1>1, <1>2, <2>1, <2>3
      <3>2. pwire[Len(pwire)].f = "PAUSE" <=> iq.st = "PAUSED"
        BY <3>1 DEF IInv, FramesAlternate
      <3> QED  BY <1>1, <1>2, <1>8, <2>1, <2>3, <3>1, <3>2
    <2> QED  BY <1>3, <2>2, <2>3
  <1>11. FramesAlternate'
    BY <1>1, <1>9, <1>10 DEF FramesAlternate
  <1> QED  BY <1>6, <1>7, <1>11

LEMMA DataLeaves ==
    ASSUME TypeOK, DataDue, wire' = Tail(wire)
    PROVE  /\ wire' \in Seq(Nat) /\ Len(wire') \in Nat
           /\ \A i \in 1..Len(wire') : wire'[i] = wire[i + 1] /\ i + 1 \in 1..Len(wire)
  <1>1. wire \in Seq(Nat) /\ wire # <<>> /\ Len(wire) \in Nat
    BY Types DEF DataDue
  <1> QED  BY <1>1, HeadTailProperties, LenProperties

(* The drain of a queue above the low threshold.                            *)
LEMMA ToGoFacts ==
    ASSUME TypeOK, iq.occ >= Low
    PROVE  /\ iq.occ - Low \in Nat /\ ToGo \in Nat
           /\ (iq.occ - Low) * DrainGap \in Nat
           /\ (iq.occ + 1 - Low) * DrainGap = (iq.occ - Low) * DrainGap + DrainGap
           /\ iq.occ > Low =>
                (iq.occ - Low) * DrainGap = (iq.occ - 1 - Low) * DrainGap + DrainGap
  <1>1. iq.occ \in Nat /\ Low \in Nat /\ gap \in Nat /\ DrainGap \in Nat
    BY Types, ThresholdAssumption, NicTimingAssumption DEF TypeOK
  <1> DEFINE k == iq.occ - Low
  <1>2. k \in Nat
    BY <1>1
  <1>3. k * DrainGap \in Nat /\ (k + 1) * DrainGap = k * DrainGap + DrainGap
    BY <1>2, DrainTimes
  <1>4. iq.occ + 1 - Low = k + 1
    BY <1>1
  <1>5. ASSUME iq.occ > Low
        PROVE  (iq.occ - Low) * DrainGap = (iq.occ - 1 - Low) * DrainGap + DrainGap
    <2>1. k - 1 \in Nat /\ iq.occ - 1 - Low = k - 1 /\ (k - 1) + 1 = k
      BY <1>1, <1>5
    <2>2. ((k - 1) + 1) * DrainGap = (k - 1) * DrainGap + DrainGap
      BY <2>1, DrainTimes
    <2> QED  BY <2>1, <2>2
  <1>6. ToGo \in Nat
    BY <1>1, <1>3 DEF ToGo
  <1> QED  BY <1>2, <1>3, <1>4, <1>5, <1>6

LEMMA ReceiveDataStep ==
    ASSUME RestartIsLate, IInv, ReceiveData
    PROVE  IInv'
  <1>1. /\ DataDue /\ ~aborted /\ wire' = Tail(wire)
        /\ iq' = Charge(iq) /\ pwire' = pwire \o InFlight(FramesOnCharge(iq))
        /\ UNCHANGED <<bytes, queued, sending, events, st, aborted, gap>>
        /\ TypeOK /\ iq \in IngressType
    BY DEF ReceiveData, nic, IInv, TypeOK
  <1>2. /\ wire' \in Seq(Nat) /\ Len(wire') \in Nat
        /\ \A i \in 1..Len(wire') : wire'[i] = wire[i + 1] /\ i + 1 \in 1..Len(wire)
    BY <1>1, DataLeaves
  <1>3. iq' \in IngressType /\ iq'.occ = iq.occ + 1
    BY <1>1, ChargeFacts
  <1>4. /\ \A i, j \in 1..Len(wire') : i < j => wire'[i] <= wire'[j]
        /\ \A i \in 1..Len(wire') : wire'[i] <= DataDelay
    <2>1. ASSUME NEW i \in 1..Len(wire'), NEW j \in 1..Len(wire'), i < j
          PROVE  wire'[i] <= wire'[j]
      <3>1. i + 1 \in 1..Len(wire) /\ j + 1 \in 1..Len(wire) /\ i + 1 < j + 1
        BY <1>2, <2>1
      <3>2. wire[i + 1] <= wire[j + 1]
        BY <3>1 DEF IInv, PipesOrdered
      <3> QED  BY <1>2, <3>2
    <2>2. ASSUME NEW i \in 1..Len(wire') PROVE wire'[i] <= DataDelay
      <3>1. wire[i + 1] <= DataDelay
        BY <1>2 DEF IInv, PipesOrdered
      <3> QED  BY <1>2, <3>1
    <2> QED  BY <2>1, <2>2
  <1>5. Transmission'
    BY <1>1 DEF IInv, Transmission, FramesKept, NoFrameLost, OneTransmission
  <1>6. iq.occ \in Nat /\ iq.st \in {"READY", "PAUSED"} /\ Len(pwire) \in Nat
    BY <1>1, Types
  <1>7. CASE CrossesHigh(iq)
    <2>1. pwire' = Append(pwire, Sent("PAUSE")) /\ "PAUSE" \in Frame
      <3>1. "PAUSE" \in Frame
        BY DEF Frame
      <3> QED  BY <1>1, <1>7, <3>1, ChargeFacts, Announced
    <2>2. iq.st = "READY" /\ iq'.st = "PAUSED" /\ iq.occ + 1 > High
      BY <1>1, <1>7, ChargeFacts
    <2>3. /\ pwire' \in Seq([f : Frame, age : Nat])
          /\ Len(pwire') = Len(pwire) + 1 /\ pwire' # <<>>
          /\ \A i \in 1..Len(pwire) : pwire'[i] = pwire[i]
          /\ pwire'[Len(pwire')].f = "PAUSE" /\ pwire'[Len(pwire')].age = PauseDelay
      BY <1>1, <2>1, AfterAnnouncing
    <2>4. /\ FramesAlternate'
          /\ \A i, j \in 1..Len(pwire') : i < j => pwire'[i].age <= pwire'[j].age
          /\ \A i \in 1..Len(pwire') : pwire'[i].age <= PauseDelay
      BY <1>1, <2>1, <2>2, AnnouncementsAlternate
    <2>5. PipesOrdered'
      BY <1>4, <2>4 DEF PipesOrdered
    <2>6. TypeOK'
      BY <1>1, <1>2, <1>3, <2>3 DEF TypeOK
    <2>7. iq'.occ >= Low /\ PauseDelay + Service < PauseDelay + ToGo'
      <3> DEFINE k == iq.occ + 1 - Low
      <3>1. /\ High - Low + 1 \in Nat /\ k \in Nat /\ High - Low + 1 <= k
            /\ iq'.occ >= Low
        BY <1>3, <1>6, <2>2, ThresholdAssumption
      <3>2. k * DrainGap \in Nat /\ (High - Low + 1) * DrainGap <= k * DrainGap
            /\ (High - Low + 1) * DrainGap \in Nat
        BY <3>1, DrainTimes
      <3>3. ToGo' = gap + k * DrainGap
        <4>1. gap' = gap
          BY <1>1
        <4>2. iq'.occ - Low = k
          BY <1>3, <1>6, ThresholdAssumption
        <4>3. ToGo' = gap' + (iq'.occ - Low) * DrainGap
          BY DEF ToGo
        <4> QED  BY <4>1, <4>2, <4>3, Zenon
      <3> HIDE DEF k
      <3>4. gap \in Nat /\ Service \in Nat /\ PauseDelay \in Nat
        BY <1>1, NicTimingAssumption DEF TypeOK
      <3>5. Service < (High - Low + 1) * DrainGap
        BY <3>2, <3>4 DEF RestartIsLate
      <3> QED  BY <3>1, <3>2, <3>3, <3>4, <3>5
    <2>8. \A i \in 1..Len(pwire') :
            i + 1 \in 1..Len(pwire') /\ pwire'[i].f = "PAUSE" =>
              pwire'[i].age + Service < pwire'[i + 1].age
      <3> SUFFICES ASSUME NEW i \in 1..Len(pwire'), i + 1 \in 1..Len(pwire'),
                          pwire'[i].f = "PAUSE"
                   PROVE  pwire'[i].age + Service < pwire'[i + 1].age
        OBVIOUS
      <3>1. i \in 1..Len(pwire) /\ pwire'[i] = pwire[i]
        BY <1>6, <2>3
      <3>2. i # Len(pwire)
        <4>1. pwire # <<>>
          BY <3>1
        <4>2. ~(pwire[Len(pwire)].f = "PAUSE")
          BY <2>2, <4>1 DEF IInv, FramesAlternate
        <4> QED  BY <3>1, <4>2
      <3>3. i + 1 \in 1..Len(pwire)
        BY <1>6, <3>1, <3>2
      <3> QED  BY <2>3, <3>1, <3>3 DEF IInv, RestartsLate
    <2>9. st = "PAUSE_RECEIVED" => pwire # <<>> /\ events[1] < pwire'[1].age
      <3> SUFFICES ASSUME st = "PAUSE_RECEIVED"
                   PROVE  pwire # <<>> /\ events[1] < pwire'[1].age
        OBVIOUS
      <3>1. pwire # <<>>
        BY <2>2 DEF IInv, FramesAlternate
      <3>2. 1 \in 1..Len(pwire)
        <4>1. pwire \in Seq(Signal)
          BY <1>1, Types
        <4> QED  BY <1>6, <3>1, <4>1, EmptySeq
      <3> QED  BY <2>3, <3>1, <3>2 DEF IInv, RestartsLate
    <2>10. RestartsLate'
      BY <1>1, <2>3, <2>7, <2>8, <2>9 DEF RestartsLate
    <2> QED  BY <1>1, <1>5, <2>4, <2>5, <2>6, <2>10 DEF IInv
  <1>8. CASE ~CrossesHigh(iq)
    <2>1. pwire' = pwire /\ iq'.st = iq.st
      <3>1. "PAUSE" \in Frame
        BY DEF Frame
      <3> QED  BY <1>1, <1>8, <3>1, ChargeFacts, Announced
    <2>2. PipesOrdered' /\ FramesAlternate'
      BY <1>1, <1>4, <2>1 DEF IInv, PipesOrdered, FramesAlternate
    <2>3. TypeOK'
      BY <1>1, <1>2, <1>3, <2>1 DEF TypeOK
    <2>4. iq.st = "PAUSED" => iq'.occ >= Low /\ ToGo <= ToGo' /\ ToGo \in Nat /\ ToGo' \in Nat
      <3> SUFFICES ASSUME iq.st = "PAUSED"
                   PROVE  iq'.occ >= Low /\ ToGo <= ToGo' /\ ToGo \in Nat /\ ToGo' \in Nat
        OBVIOUS
      <3>1. iq.occ >= Low /\ Low \in Nat /\ gap \in Nat /\ DrainGap \in Nat
        BY <1>1, ThresholdAssumption, NicTimingAssumption DEF IInv, RestartsLate, TypeOK
      <3>2. /\ (iq.occ - Low) * DrainGap \in Nat /\ ToGo \in Nat
            /\ (iq.occ + 1 - Low) * DrainGap = (iq.occ - Low) * DrainGap + DrainGap
        BY <1>1, <3>1, ToGoFacts
      <3> DEFINE k == (iq.occ - Low) * DrainGap
      <3>3. ToGo' = gap + (k + DrainGap)
        <4>1. gap' = gap
          BY <1>1
        <4>2. iq'.occ - Low = iq.occ + 1 - Low
          BY <1>3, <1>6, ThresholdAssumption
        <4>3. ToGo' = gap' + (iq'.occ - Low) * DrainGap
          BY DEF ToGo
        <4> QED  BY <3>2, <4>1, <4>2, <4>3, Zenon
      <3>4. ToGo = gap + k /\ k \in Nat
        BY <3>2 DEF ToGo
      <3> HIDE DEF k
      <3>5. iq'.occ >= Low
        BY <1>3, <1>6, <3>1, ThresholdAssumption
      <3> QED  BY <3>1, <3>3, <3>4, <3>5
    <2>5. st = "PAUSE_RECEIVED" /\ pwire = <<>> => iq.st = "PAUSED" /\ events[1] \in Nat
      <3>1. st = "PAUSE_RECEIVED" => sending
        BY DEF IInv, Transmission
      <3> QED  BY <1>1, <1>6, <3>1, Completions DEF IInv, FramesAlternate
    <2>6. pwire # <<>> => pwire[Len(pwire)].age \in Nat
      <3>1. pwire \in Seq(Signal)
        BY <1>1, Types
      <3>2. pwire # <<>> => Len(pwire) \in 1..Len(pwire)
        BY <1>6, <3>1, EmptySeq
      <3> QED  BY <1>1, <3>2, Types
    <2>7. RestartsLate'
      <3>1. pwire # <<>> /\ iq.st = "PAUSED" =>
              pwire[Len(pwire)].age + Service < PauseDelay + ToGo'
        BY <2>4, <2>6, NicTimingAssumption DEF IInv, RestartsLate
      <3>2. st = "PAUSE_RECEIVED" /\ pwire = <<>> => events[1] < PauseDelay + ToGo'
        BY <2>4, <2>5, NicTimingAssumption DEF IInv, RestartsLate
      <3> QED  BY <1>1, <2>1, <2>4, <3>1, <3>2 DEF IInv, RestartsLate
    <2> QED  BY <1>1, <1>5, <2>2, <2>3, <2>7 DEF IInv
  <1> QED  BY <1>7, <1>8

LEMMA DrainStep ==
    ASSUME IInv, Drain
    PROVE  IInv'
  <1>1. /\ iq.occ > 0 /\ gap = 0 /\ ~aborted
        /\ iq' = Release(iq) /\ pwire' = pwire \o InFlight(FramesOnRelease(iq))
        /\ gap' = DrainGap /\ DrainGap \in Nat
        /\ UNCHANGED <<bytes, queued, sending, events, st, aborted, wire>>
        /\ TypeOK /\ iq \in IngressType
    BY NicTimingAssumption DEF Drain, nic, IInv, TypeOK
  <1>2. iq' \in IngressType /\ iq'.occ = iq.occ - 1
    BY <1>1, ReleaseFacts
  <1>3. Transmission'
    BY <1>1 DEF IInv, Transmission, FramesKept, NoFrameLost, OneTransmission
  <1>4. iq.occ \in Nat /\ iq.st \in {"READY", "PAUSED"} /\ Len(pwire) \in Nat
    BY <1>1, Types
  <1>5. pwire # <<>> => 1 \in 1..Len(pwire) /\ Len(pwire) \in 1..Len(pwire)
    <2>1. pwire \in Seq(Signal)
      BY <1>1, Types
    <2> QED  BY <1>4, <2>1, EmptySeq
  <1>6. CASE CrossesLow(iq)
    <2>1. pwire' = Append(pwire, Sent("GO")) /\ "GO" \in Frame
      <3>1. "GO" \in Frame
        BY DEF Frame
      <3> QED  BY <1>1, <1>6, <3>1, ReleaseFacts, Announced
    <2>2. iq.st = "PAUSED" /\ iq'.st = "READY" /\ iq.occ <= Low
      BY <1>1, <1>6, ReleaseFacts
    <2>3. /\ pwire' \in Seq([f : Frame, age : Nat])
          /\ Len(pwire') = Len(pwire) + 1 /\ pwire' # <<>>
          /\ \A i \in 1..Len(pwire) : pwire'[i] = pwire[i]
          /\ pwire'[Len(pwire')].f = "GO" /\ pwire'[Len(pwire')].age = PauseDelay
      BY <1>1, <2>1, AfterAnnouncing
    <2>4. /\ FramesAlternate'
          /\ \A i, j \in 1..Len(pwire') : i < j => pwire'[i].age <= pwire'[j].age
          /\ \A i \in 1..Len(pwire') : pwire'[i].age <= PauseDelay
      BY <1>1, <2>1, <2>2, AnnouncementsAlternate
    <2>5. PipesOrdered'
      BY <1>1, <2>4 DEF IInv, PipesOrdered
    <2>6. TypeOK'
      BY <1>1, <1>2, <2>3 DEF TypeOK
    <2>7. ToGo = 0
      <3>1. iq.occ - Low = 0 /\ 0 * DrainGap = 0
        BY <1>1, <1>4, <2>2, ThresholdAssumption DEF IInv, RestartsLate
      <3> QED  BY <1>1, <3>1 DEF ToGo
    <2>8. PauseDelay \in Nat /\ PauseDelay + ToGo = PauseDelay
      BY <2>7, NicTimingAssumption
    <2>9. \A i \in 1..Len(pwire') :
            i + 1 \in 1..Len(pwire') /\ pwire'[i].f = "PAUSE" =>
              pwire'[i].age + Service < pwire'[i + 1].age
      <3> SUFFICES ASSUME NEW i \in 1..Len(pwire'), i + 1 \in 1..Len(pwire'),
                          pwire'[i].f = "PAUSE"
                   PROVE  pwire'[i].age + Service < pwire'[i + 1].age
        OBVIOUS
      <3>1. i \in 1..Len(pwire) /\ pwire'[i] = pwire[i]
        BY <1>4, <2>3
      <3>2. CASE i = Len(pwire)
        <4>1. pwire # <<>> /\ pwire'[i + 1].age = PauseDelay
          BY <2>3, <3>1, <3>2
        <4>2. pwire[i].age + Service < PauseDelay + ToGo
          BY <2>2, <3>2, <4>1 DEF IInv, RestartsLate
        <4> QED  BY <2>8, <3>1, <4>1, <4>2
      <3>3. CASE i # Len(pwire)
        <4>1. i + 1 \in 1..Len(pwire)
          BY <1>4, <3>1, <3>3
        <4> QED  BY <2>3, <3>1, <4>1 DEF IInv, RestartsLate
      <3> QED  BY <3>2, <3>3
    <2>10. st = "PAUSE_RECEIVED" => events[1] < pwire'[1].age
      <3>1. CASE pwire # <<>>
        BY <1>5, <2>3, <3>1 DEF IInv, RestartsLate
      <3>2. CASE pwire = <<>>
        <4>1. Len(pwire') = 1
          BY <2>3, <3>2, EmptySeq
        <4>2. pwire'[1].age = PauseDelay
          BY <2>3, <4>1
        <4> QED  BY <2>8, <3>2, <4>2 DEF IInv, RestartsLate
      <3> QED  BY <3>1, <3>2
    <2>11. RestartsLate'
      BY <1>1, <2>2, <2>3, <2>9, <2>10 DEF RestartsLate
    <2> QED  BY <1>1, <1>3, <2>4, <2>5, <2>6, <2>11 DEF IInv
  <1>7. CASE ~CrossesLow(iq)
    <2>1. pwire' = pwire /\ iq'.st = iq.st /\ (iq.st = "PAUSED" => iq.occ > Low)
      <3>1. "GO" \in Frame
        BY DEF Frame
      <3> QED  BY <1>1, <1>7, <3>1, ReleaseFacts, Announced
    <2>2. PipesOrdered' /\ FramesAlternate'
      BY <1>1, <2>1 DEF IInv, PipesOrdered, FramesAlternate
    <2>3. TypeOK'
      BY <1>1, <1>2, <2>1 DEF TypeOK
    <2>4. iq.st = "PAUSED" => iq'.occ >= Low /\ ToGo' = ToGo
      <3> SUFFICES ASSUME iq.st = "PAUSED"
                   PROVE  iq'.occ >= Low /\ ToGo' = ToGo
        OBVIOUS
      <3>1. iq.occ >= Low /\ iq.occ > Low /\ iq'.occ >= Low
        BY <1>2, <1>4, <2>1, ThresholdAssumption
      <3> DEFINE k == (iq.occ - 1 - Low) * DrainGap
      <3>2. (iq.occ - Low) * DrainGap = k + DrainGap
        BY <1>1, <3>1, ToGoFacts
      <3>3. ToGo' = DrainGap + k
        <4>1. gap' = DrainGap /\ iq'.occ - Low = iq.occ - 1 - Low
          BY <1>1, <1>2
        <4>2. ToGo' = gap' + (iq'.occ - Low) * DrainGap
          BY DEF ToGo
        <4> QED  BY <4>1, <4>2, Zenon
      <3>4. ToGo = 0 + (k + DrainGap)
        BY <1>1, <3>2, Zenon DEF ToGo
      <3>5. k \in Nat
        <4>1. iq.occ - 1 - Low \in Nat
          BY <1>4, <3>1, ThresholdAssumption
        <4> QED  BY <4>1, DrainTimes
      <3> HIDE DEF k
      <3> QED  BY <1>1, <3>1, <3>3, <3>4, <3>5
    <2>5. st = "PAUSE_RECEIVED" /\ pwire = <<>> => iq.st = "PAUSED"
      BY <1>4 DEF IInv, FramesAlternate
    <2>6. RestartsLate'
      BY <1>1, <2>1, <2>4, <2>5 DEF IInv, RestartsLate
    <2> QED  BY <1>1, <1>3, <2>2, <2>3, <2>6 DEF IInv
  <1> QED  BY <1>6, <1>7

-----------------------------------------------------------------------------
(* Time                                                                     *)

LEMMA TickPipes ==
    ASSUME TypeOK, PipesOrdered, Tick
    PROVE  /\ wire' \in Seq(Nat) /\ Len(wire') = Len(wire)
           /\ \A i \in 1..Len(wire) : wire'[i] = wire[i] - 1
           /\ pwire' \in Seq(Signal) /\ Len(pwire') = Len(pwire)
           /\ \A i \in 1..Len(pwire) :
                pwire'[i].f = pwire[i].f /\ pwire'[i].age = pwire[i].age - 1
  <1>1. /\ \A i \in 1..Len(wire) : wire[i] > 0 /\ wire[i] \in Nat
        /\ \A i \in 1..Len(pwire) : pwire[i].age > 0 /\ pwire[i].f \in Frame
                                    /\ pwire[i].age \in Nat
        /\ Len(wire) \in Nat /\ Len(pwire) \in Nat
    BY NothingDue, Types DEF Tick
  <1>2. wire' = [i \in 1..Len(wire) |-> wire[i] - 1]
    BY DEF Tick, Earlier, TypeOK
  <1>3. pwire' = [i \in 1..Len(pwire) |->
                     [f |-> pwire[i].f, age |-> pwire[i].age - 1]]
    BY DEF Tick, Aged, TypeOK
  <1>4. \A i \in 1..Len(wire) : wire[i] - 1 \in Nat
    BY <1>1
  <1>5. \A i \in 1..Len(pwire) :
          [f |-> pwire[i].f, age |-> pwire[i].age - 1] \in Signal
    BY <1>1 DEF Signal
  <1>6. wire' \in Seq(Nat) /\ Len(wire') = Len(wire)
    BY <1>1, <1>2, <1>4, IsASeq, LenProperties
  <1>7. pwire' \in Seq(Signal) /\ Len(pwire') = Len(pwire)
    BY <1>1, <1>3, <1>5, IsASeq, LenProperties
  <1> QED  BY <1>2, <1>3, <1>5, <1>6, <1>7

LEMMA TickEvents ==
    ASSUME TypeOK, Transmission, Tick
    PROVE  /\ events' \in Seq(Nat) /\ Len(events') = Len(events)
           /\ \A i \in 1..Len(events) : events'[i] = events[i] - 1
           /\ sending => 1 \in 1..Len(events)
  <1>1. events \in Seq(Nat) /\ Len(events) \in Nat /\ ~ServiceDue
        /\ \A i \in 1..Len(events) : events[i] \in Nat
    BY Types DEF Tick
  <1>2. events' = [i \in 1..Len(events) |-> events[i] - 1]
    BY DEF Tick, Earlier, TypeOK
  <1>3. ASSUME NEW i \in 1..Len(events) PROVE events[i] - 1 \in Nat
    <2>1. sending /\ i = 1 /\ events # <<>> /\ Head(events) = events[1]
      <3>1. events # <<>>
        BY <1>3
      <3>2. sending
        BY <3>1, Completions
      <3>3. Len(events) = 1 /\ Head(events) = events[1]
        BY <3>2, Completions
      <3> QED  BY <1>3, <3>1, <3>2, <3>3
    <2> QED  BY <1>1, <2>1 DEF ServiceDue
  <1>4. sending => Len(events) = 1
    BY Completions
  <1>5. events' \in Seq(Nat) /\ Len(events') = Len(events)
    BY <1>1, <1>2, <1>3, IsASeq, LenProperties
  <1>6. \A i \in 1..Len(events) : events'[i] = events[i] - 1
    BY <1>2
  <1>7. sending => 1 \in 1..Len(events)
    BY <1>4
  <1> QED  BY <1>5, <1>6, <1>7

LEMMA TickStep ==
    ASSUME IInv, Tick
    PROVE  IInv'
  <1>1. /\ ~aborted /\ gap' = (IF gap > 0 THEN gap - 1 ELSE 0)
        /\ UNCHANGED <<bytes, queued, sending, st, aborted, iq>>
        /\ TypeOK /\ Transmission /\ PipesOrdered /\ gap \in Nat
    BY DEF Tick, IInv, TypeOK
  <1>2. /\ wire' \in Seq(Nat) /\ Len(wire') = Len(wire)
        /\ \A i \in 1..Len(wire) : wire'[i] = wire[i] - 1
        /\ pwire' \in Seq([f : Frame, age : Nat]) /\ Len(pwire') = Len(pwire)
        /\ \A i \in 1..Len(pwire) :
             pwire'[i].f = pwire[i].f /\ pwire'[i].age = pwire[i].age - 1
    BY <1>1, TickPipes DEF Signal
  <1>3. /\ events' \in Seq(Nat) /\ Len(events') = Len(events)
        /\ \A i \in 1..Len(events) : events'[i] = events[i] - 1
        /\ sending => 1 \in 1..Len(events)
    BY <1>1, TickEvents
  <1>4. gap' \in Nat /\ gap' >= gap - 1
    BY <1>1
  <1>5. /\ Len(wire) \in Nat /\ \A i \in 1..Len(wire) : wire[i] \in Nat
        /\ Len(pwire) \in Nat /\ \A i \in 1..Len(pwire) : pwire[i].age \in Nat
        /\ \A i \in 1..Len(events) : events[i] \in Nat
        /\ Service \in Nat /\ PauseDelay \in Nat /\ DataDelay \in Nat
        /\ pwire \in Seq(Signal)
    BY <1>1, Types, NicTimingAssumption
  <1>6. TypeOK'
    BY <1>1, <1>2, <1>3, <1>4 DEF TypeOK
  <1>7. PipesOrdered'
    <2>1. \A i, j \in 1..Len(wire') : i < j => wire'[i] <= wire'[j]
      <3> SUFFICES ASSUME NEW i \in 1..Len(wire), NEW j \in 1..Len(wire), i < j
                   PROVE  wire'[i] <= wire'[j]
        BY <1>2
      <3>1. wire[i] <= wire[j] /\ wire[i] \in Nat /\ wire[j] \in Nat
        BY <1>1, <1>5 DEF PipesOrdered
      <3> QED  BY <1>2, <3>1
    <2>2. \A i \in 1..Len(wire') : wire'[i] <= DataDelay
      <3> SUFFICES ASSUME NEW i \in 1..Len(wire) PROVE wire'[i] <= DataDelay
        BY <1>2
      <3>1. wire[i] <= DataDelay /\ wire[i] \in Nat
        BY <1>1, <1>5 DEF PipesOrdered
      <3> QED  BY <1>2, <1>5, <3>1
    <2>3. \A i, j \in 1..Len(pwire') : i < j => pwire'[i].age <= pwire'[j].age
      <3> SUFFICES ASSUME NEW i \in 1..Len(pwire), NEW j \in 1..Len(pwire), i < j
                   PROVE  pwire'[i].age <= pwire'[j].age
        BY <1>2
      <3>1. pwire[i].age <= pwire[j].age /\ pwire[i].age \in Nat /\ pwire[j].age \in Nat
        BY <1>1, <1>5 DEF PipesOrdered
      <3>2. pwire'[i].age = pwire[i].age - 1 /\ pwire'[j].age = pwire[j].age - 1
        BY <1>2
      <3> QED  BY <3>1, <3>2
    <2>4. \A i \in 1..Len(pwire') : pwire'[i].age <= PauseDelay
      <3> SUFFICES ASSUME NEW i \in 1..Len(pwire) PROVE pwire'[i].age <= PauseDelay
        BY <1>2
      <3>1. pwire[i].age <= PauseDelay /\ pwire[i].age \in Nat
        BY <1>1, <1>5 DEF PipesOrdered
      <3> QED  BY <1>2, <1>5, <3>1
    <2> QED  BY <2>1, <2>2, <2>3, <2>4 DEF PipesOrdered
  <1>8. Transmission'
    <2>1. FramesKept'
      BY <1>1, <1>3 DEF Transmission, FramesKept, NoFrameLost, OneTransmission
    <2>2. \A i \in 1..Len(events') : events'[i] <= Service
      <3> SUFFICES ASSUME NEW i \in 1..Len(events) PROVE events'[i] <= Service
        BY <1>3
      <3>1. events[i] <= Service /\ events[i] \in Nat
        BY <1>1, <1>5 DEF Transmission
      <3>2. events'[i] = events[i] - 1 /\ Service \in Nat
        BY <1>3, <1>5
      <3> QED  BY <3>1, <3>2
    <2> QED  BY <1>1, <2>1, <2>2 DEF Transmission
  <1>9. /\ pwire # <<>> => 1 \in 1..Len(pwire) /\ Len(pwire) \in 1..Len(pwire)
        /\ pwire' = <<>> <=> pwire = <<>>
    BY <1>2, <1>5, EmptySeq
  <1>10. FramesAlternate'
    BY <1>1, <1>2, <1>9 DEF IInv, FramesAlternate
  <1>11. RestartsLate'
    <2>1. iq.st = "PAUSED" => iq.occ >= Low /\ ToGo \in Nat /\ ToGo' \in Nat /\ ToGo' >= ToGo - 1
      <3> SUFFICES ASSUME iq.st = "PAUSED"
                   PROVE  iq.occ >= Low /\ ToGo \in Nat /\ ToGo' \in Nat /\ ToGo' >= ToGo - 1
        OBVIOUS
      <3>1. iq.occ >= Low
        BY DEF IInv, RestartsLate
      <3> DEFINE k == (iq.occ - Low) * DrainGap
      <3>2. k \in Nat
        BY <1>1, <3>1, ToGoFacts
      <3>3. ToGo = gap + k /\ ToGo' = gap' + k
        BY <1>1 DEF ToGo
      <3> HIDE DEF k
      <3> QED  BY <1>1, <1>4, <3>1, <3>2, <3>3
    <2>2. pwire' # <<>> /\ iq.st = "PAUSED" =>
            pwire'[Len(pwire')].age + Service < PauseDelay + ToGo'
      <3> SUFFICES ASSUME pwire' # <<>>, iq.st = "PAUSED"
                   PROVE  pwire'[Len(pwire')].age + Service < PauseDelay + ToGo'
        OBVIOUS
      <3>1. PICK n \in 1..Len(pwire) : n = Len(pwire)
        BY <1>9
      <3>2. pwire[n].age + Service < PauseDelay + ToGo
        BY <1>9, <3>1 DEF IInv, RestartsLate
      <3>3. pwire'[n].age = pwire[n].age - 1 /\ pwire[n].age \in Nat /\ n = Len(pwire')
        BY <1>2, <1>5, <3>1
      <3>4. pwire'[n].age + Service < PauseDelay + ToGo'
        BY <1>5, <2>1, <3>2, <3>3
      <3> QED  BY <3>3, <3>4
    <2>3. \A i \in 1..Len(pwire') : i + 1 \in 1..Len(pwire') /\ pwire'[i].f = "PAUSE" =>
            pwire'[i].age + Service < pwire'[i + 1].age
      <3> SUFFICES ASSUME NEW i \in 1..Len(pwire), i + 1 \in 1..Len(pwire),
                          pwire[i].f = "PAUSE"
                   PROVE  pwire'[i].age + Service < pwire'[i + 1].age
        BY <1>2
      <3>1. pwire[i].age + Service < pwire[i + 1].age
        BY DEF IInv, RestartsLate
      <3>2. /\ pwire'[i].age = pwire[i].age - 1 /\ pwire'[i + 1].age = pwire[i + 1].age - 1
            /\ pwire[i].age \in Nat /\ pwire[i + 1].age \in Nat
        BY <1>2, <1>5
      <3> QED  BY <1>5, <3>1, <3>2
    <2>4. st = "PAUSE_RECEIVED" => events'[1] = events[1] - 1 /\ events[1] \in Nat
      BY <1>1, <1>3, <1>5 DEF Transmission
    <2>5. st = "PAUSE_RECEIVED" /\ pwire' # <<>> => events'[1] < pwire'[1].age
      BY <1>2, <1>5, <1>9, <2>4 DEF IInv, RestartsLate
    <2>6. st = "PAUSE_RECEIVED" /\ pwire' = <<>> => events'[1] < PauseDelay + ToGo'
      <3>1. st = "PAUSE_RECEIVED" /\ pwire = <<>> => iq.st = "PAUSED"
        BY <1>1, Types DEF IInv, FramesAlternate
      <3> QED  BY <1>5, <1>9, <2>1, <2>4, <3>1 DEF IInv, RestartsLate
    <2> QED  BY <1>1, <2>1, <2>2, <2>3, <2>5, <2>6 DEF RestartsLate
  <1> QED  BY <1>1, <1>6, <1>7, <1>8, <1>10, <1>11 DEF IInv

-----------------------------------------------------------------------------
(* The invariant                                                            *)

LEMMA InitIInv ==
    ASSUME Init
    PROVE  IInv
  <1>1. Len(<<>>) = 0
    OBVIOUS
  <1>2. sending \in BOOLEAN /\ aborted \in BOOLEAN /\ ~sending /\ ~aborted
    BY Zenon DEF Init
  <1>3. TypeOK
    BY <1>2, ThresholdAssumption DEF Init, TypeOK, IngressInit, IngressType, SendState
  <1>4. PipesOrdered
    BY <1>1 DEF Init, PipesOrdered
  <1>5. Transmission
    BY <1>1, <1>2 DEF Init, Transmission, FramesKept, NoFrameLost, OneTransmission
  <1>6. FramesAlternate /\ RestartsLate
    BY <1>1 DEF Init, FramesAlternate, RestartsLate, IngressInit
  <1> QED  BY <1>2, <1>3, <1>4, <1>5, <1>6 DEF IInv

(* The invariant the three theorems follow from.                            *)
THEOREM NicInvariant ==
    ASSUME RestartIsLate
    PROVE  Spec => []IInv
  <1>1. Init => IInv
    BY InitIInv
  <1>2. IInv /\ [Next]_vars => IInv'
    <2> SUFFICES ASSUME IInv, [Next]_vars PROVE IInv'
      OBVIOUS
    <2>1. CASE Enqueue
      BY <2>1, EnqueueStep
    <2>2. CASE ReceivePause
      BY <2>2, ReceivePauseStep
    <2>3. CASE ReceiveGo
      BY <2>3, ReceiveGoStep
    <2>4. CASE CompleteService
      BY <2>4, CompleteServiceStep
    <2>5. CASE ReceiveData
      BY <2>5, ReceiveDataStep
    <2>6. CASE Drain
      BY <2>6, DrainStep
    <2>7. CASE Tick
      BY <2>7, TickStep
    <2>8. CASE UNCHANGED vars
      BY <2>8 DEF vars, nic, IInv, TypeOK, PipesOrdered, Transmission, FramesKept,
                  NoFrameLost, OneTransmission, FramesAlternate, RestartsLate, ToGo
    <2> QED  BY <2>1, <2>2, <2>3, <2>4, <2>5, <2>6, <2>7, <2>8 DEF Next
  <1> QED  BY <1>1, <1>2, PTL DEF Spec

(* The queue, the two pipes and the ingress queue keep their types: no      *)
(* counter of FairPriorityQueue or LosslessInputQueue falls below zero.     *)
THEOREM NicTypeCorrect ==
    ASSUME RestartIsLate
    PROVE  Spec => []TypeOK
  <1>1. IInv => TypeOK
    BY DEF IInv
  <1> QED  BY <1>1, NicInvariant, PTL

(* No frame of the host is overwritten in _sending and none has two         *)
(* completions scheduled, though beginService looks at neither.             *)
THEOREM HostKeepsFrames ==
    ASSUME RestartIsLate
    PROVE  Spec => []FramesKept
  <1>1. IInv => FramesKept
    BY DEF IInv, Transmission
  <1> QED  BY <1>1, NicInvariant, PTL

(* The assert of beginService holds: no restart finds queuesize() without a *)
(* queued frame behind it.                                                  *)
THEOREM DequeuesAreSafe ==
    ASSUME RestartIsLate
    PROVE  Spec => []NeverDequeuesNull
  <1>1. IInv => NeverDequeuesNull
    BY DEF IInv, NeverDequeuesNull
  <1> QED  BY <1>1, NicInvariant, PTL

(* When one egress port carries the traffic of the host, at the rate of its *)
(* own link, a pause lasts longer than a frame whatever the thresholds: the *)
(* host then needs no check that a transmission is under way.               *)
THEOREM OnePortKeepsFrames ==
    ASSUME DrainGap >= Service
    PROVE  Spec => [](FramesKept /\ NeverDequeuesNull)
  <1>1. RestartIsLate
    <2> DEFINE k == High - Low
    <2>1. k \in Nat /\ k >= 1 /\ Service \in Nat /\ Service > 0
          /\ DrainGap \in Nat /\ DrainGap >= Service
      BY ThresholdAssumption, NicTimingAssumption
    <2>2. (k + 1) * DrainGap = k * DrainGap + DrainGap /\ 1 * DrainGap <= k * DrainGap
          /\ k * DrainGap \in Nat
      BY <2>1, DrainTimes
    <2>3. 1 * DrainGap = DrainGap
      BY <2>1
    <2> HIDE DEF k
    <2>4. (k + 1) * DrainGap > Service
      BY <2>1, <2>2, <2>3
    <2> QED  BY <2>4 DEF RestartIsLate, k
  <1>2. IInv => FramesKept /\ NeverDequeuesNull
    BY DEF IInv, Transmission, NeverDequeuesNull
  <1> QED  BY <1>1, <1>2, NicInvariant, PTL
=============================================================================
