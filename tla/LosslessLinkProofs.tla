------------------------- MODULE LosslessLinkProofs -------------------------
(***************************************************************************)
(* Proofs about LosslessLink, for every pair of thresholds and every       *)
(* timing: its type invariant, the state of the sender, the agreement of   *)
(* the two ends of the link about whether it is paused, and the headroom   *)
(* an ingress queue needs.                                                 *)
(*                                                                         *)
(* The invariant is inductive once the order of the pipes is added to it:  *)
(* Tick takes one off every age, and only the oldest entry of a pipe is    *)
(* known not to be due.                                                    *)
(***************************************************************************)
EXTENDS LosslessLink, SequenceTheorems, TLAPS

(* Entries leave a pipe in the order they entered it.                       *)
PipesOrdered ==
    /\ \A i, j \in 1..Len(wire) : i < j => wire[i] <= wire[j]
    /\ \A i \in 1..Len(wire) : wire[i] <= DataDelay
    /\ \A i, j \in 1..Len(pwire) : i < j => pwire[i].age <= pwire[j].age
    /\ \A i \in 1..Len(pwire) : pwire[i].age <= PauseDelay

IInv ==
    /\ TypeOK
    /\ PipesOrdered
    /\ SenderConsistent
    /\ PauseAgreement
    /\ FramesAlternate
    /\ ThresholdsHold

-----------------------------------------------------------------------------
(* What the two sides do to the pause pipe                                  *)

Sent(fr) == [f |-> fr, age |-> PauseDelay]

(* A crossing of a threshold appends one frame to the pause pipe, and any   *)
(* other charge or release leaves it alone.                                 *)
LEMMA PipeAppend ==
    ASSUME NEW p \in Seq(Signal), NEW fr \in Frame
    PROVE  /\ p \o InFlight(<<>>) = p
           /\ p \o InFlight(<<fr>>) = Append(p, Sent(fr))
  <1>1. InFlight(<<>>) = <<>>
    BY DEF InFlight
  <1>2. InFlight(<<fr>>) = <<Sent(fr)>>
    BY DEF InFlight, Sent
  <1>3. Sent(fr) \in Signal
    BY TimingAssumption DEF Sent, Signal
  <1>4. p \o <<>> = p
    BY ConcatEmptySeq
  <1>5. p \o <<Sent(fr)>> = Append(p, Sent(fr))
    BY <1>3, AppendIsConcat
  <1> QED  BY <1>1, <1>2, <1>4, <1>5

(* Charging a packet: the port stays within its thresholds, and it is       *)
(* paused by this packet exactly when a PAUSE is sent.                      *)
LEMMA ChargeFacts ==
    ASSUME iq \in IngressType
    PROVE  /\ Charge(iq) \in IngressType
           /\ Charge(iq).occ = iq.occ + 1
           /\ CrossesHigh(iq) =>
                /\ iq.st = "READY" /\ Charge(iq).st = "PAUSED"
                /\ Charge(iq).occ > High
                /\ FramesOnCharge(iq) = <<"PAUSE">>
           /\ ~CrossesHigh(iq) =>
                /\ Charge(iq).st = iq.st
                /\ iq.st = "READY" => Charge(iq).occ <= High
                /\ FramesOnCharge(iq) = <<>>
  BY ThresholdAssumption DEF IngressType, Charge, CrossesHigh, FramesOnCharge

(* Releasing one: the port is restarted exactly when a GO is sent.          *)
LEMMA ReleaseFacts ==
    ASSUME iq \in IngressType, iq.occ > 0
    PROVE  /\ Release(iq) \in IngressType
           /\ Release(iq).occ = iq.occ - 1
           /\ CrossesLow(iq) =>
                /\ iq.st = "PAUSED" /\ Release(iq).st = "READY"
                /\ Release(iq).occ < Low
                /\ FramesOnRelease(iq) = <<"GO">>
           /\ ~CrossesLow(iq) =>
                /\ Release(iq).st = iq.st
                /\ iq.st = "PAUSED" => Release(iq).occ >= Low
                /\ FramesOnRelease(iq) = <<>>
  BY ThresholdAssumption DEF IngressType, Release, CrossesLow, FramesOnRelease

(* The pause pipe after a packet is charged, and after one is released.     *)
LEMMA PipeOnCharge ==
    ASSUME TypeOK, ReceiveData
    PROVE  /\ CrossesHigh(iq) => pwire' = Append(pwire, Sent("PAUSE"))
           /\ ~CrossesHigh(iq) => pwire' = pwire
  BY ChargeFacts, PipeAppend DEF TypeOK, ReceiveData, Signal, Frame

LEMMA PipeOnRelease ==
    ASSUME TypeOK, Drain
    PROVE  /\ CrossesLow(iq) => pwire' = Append(pwire, Sent("GO"))
           /\ ~CrossesLow(iq) => pwire' = pwire
  BY ReleaseFacts, PipeAppend DEF TypeOK, Drain, Signal, Frame

-----------------------------------------------------------------------------
(* Each action keeps the types                                              *)

LEMMA PipeElements ==
    ASSUME TypeOK
    PROVE  /\ \A i \in 1..Len(wire) : wire[i] \in Nat
           /\ \A i \in 1..Len(pwire) :
                pwire[i].f \in Frame /\ pwire[i].age \in Nat
  <1>1. \A i \in 1..Len(wire) : wire[i] \in Nat
    BY ElementOfSeq DEF TypeOK
  <1>2. \A i \in 1..Len(pwire) : pwire[i] \in Signal
    BY ElementOfSeq DEF TypeOK
  <1> QED  BY <1>1, <1>2 DEF Signal

(* Nothing is due when time moves, so in an ordered pipe every age is       *)
(* positive and stays natural.                                              *)
LEMMA AgesPositive ==
    ASSUME TypeOK, PipesOrdered, ~DataDue, ~FrameDue
    PROVE  /\ \A i \in 1..Len(wire) : wire[i] > 0
           /\ \A i \in 1..Len(pwire) : pwire[i].age > 0
  <1>1. ASSUME NEW i \in 1..Len(wire) PROVE wire[i] > 0
    <2>1. wire # <<>> /\ Head(wire) = wire[1] /\ 1 \in 1..Len(wire)
      BY <1>1 DEF TypeOK
    <2>2. wire[1] \in Nat /\ wire[i] \in Nat
      BY <2>1 DEF TypeOK
    <2>3. wire[1] # 0
      BY <2>1 DEF DataDue
    <2>4. wire[1] <= wire[i]
      BY <2>1, <2>2 DEF PipesOrdered
    <2> QED  BY <2>2, <2>3, <2>4
  <1>2. ASSUME NEW i \in 1..Len(pwire) PROVE pwire[i].age > 0
    <2>1. pwire # <<>> /\ Head(pwire) = pwire[1] /\ 1 \in 1..Len(pwire)
      BY <1>2 DEF TypeOK
    <2>2. pwire[1].age \in Nat /\ pwire[i].age \in Nat
      BY <2>1, PipeElements
    <2>3. pwire[1].age # 0
      BY <2>1 DEF FrameDue
    <2>4. pwire[1].age <= pwire[i].age
      BY <2>1, <2>2 DEF PipesOrdered
    <2> QED  BY <2>2, <2>3, <2>4
  <1> QED  BY <1>1, <1>2

LEMMA TickPipes ==
    ASSUME TypeOK, PipesOrdered, Tick
    PROVE  /\ wire' \in Seq(Nat)
           /\ Len(wire') = Len(wire)
           /\ \A i \in 1..Len(wire) : wire'[i] = wire[i] - 1
           /\ pwire' \in Seq(Signal)
           /\ Len(pwire') = Len(pwire)
           /\ \A i \in 1..Len(pwire) :
                pwire'[i].f = pwire[i].f /\ pwire'[i].age = pwire[i].age - 1
  <1>1. /\ \A i \in 1..Len(wire) : wire[i] > 0
        /\ \A i \in 1..Len(pwire) : pwire[i].age > 0
    BY AgesPositive DEF Tick
  <1>2. wire' = [i \in 1..Len(wire) |-> wire[i] - 1]
    BY DEF Tick, TypeOK
  <1>3. pwire' = [i \in 1..Len(pwire) |->
                     [f |-> pwire[i].f, age |-> pwire[i].age - 1]]
    BY DEF Tick, Aged, TypeOK
  <1>4. \A i \in 1..Len(wire) : wire[i] - 1 \in Nat
    BY <1>1 DEF TypeOK
  <1>5. \A i \in 1..Len(pwire) :
          [f |-> pwire[i].f, age |-> pwire[i].age - 1] \in Signal
    BY <1>1, PipeElements DEF Signal
  <1>6. wire' \in Seq(Nat) /\ Len(wire') = Len(wire)
    BY <1>2, <1>4, IsASeq, LenProperties DEF TypeOK
  <1>7. pwire' \in Seq(Signal) /\ Len(pwire') = Len(pwire)
    BY <1>3, <1>5, IsASeq, LenProperties DEF TypeOK
  <1> QED  BY <1>2, <1>3, <1>5, <1>6, <1>7

LEMMA TypeStep ==
    ASSUME TypeOK, PipesOrdered, SenderConsistent, [Next]_vars
    PROVE  TypeOK'
  <1>1. CASE Enqueue
    <2>1. sending' \in BOOLEAN
      BY <1>1 DEF Enqueue, BeginService, TypeOK
    <2>2. left' \in Nat /\ txq' \in Nat
      BY <1>1, TimingAssumption DEF Enqueue, BeginService, TypeOK
    <2> QED  BY <1>1, <2>1, <2>2 DEF Enqueue, TypeOK
  <1>2. CASE CompleteService
    <2>1. wire' \in Seq(Nat)
      BY <1>2, TimingAssumption, AppendProperties DEF CompleteService, TypeOK
    <2>2. txq' \in Nat
      BY <1>2 DEF CompleteService, ServiceDue, SenderConsistent, TypeOK
    <2>3. st' \in SendState
      BY <1>2 DEF CompleteService, AfterService, SendState, TypeOK
    <2>4. sending' \in BOOLEAN
      BY <1>2 DEF CompleteService, BeginService, TypeOK
    <2>5. left' \in Nat
      BY <1>2, TimingAssumption DEF CompleteService, BeginService, TypeOK
    <2> QED  BY <1>2, <2>1, <2>2, <2>3, <2>4, <2>5 DEF CompleteService, TypeOK
  <1>3. CASE ReceiveFrame
    <2>1. pwire' \in Seq(Signal)
      BY <1>3, HeadTailProperties DEF ReceiveFrame, FrameDue, TypeOK
    <2>2. st' \in SendState
      BY <1>3 DEF ReceiveFrame, OnFrame, SendState
    <2>3. sending' \in BOOLEAN /\ left' \in Nat
      BY <1>3, TimingAssumption DEF ReceiveFrame, BeginService, TypeOK
    <2> QED  BY <1>3, <2>1, <2>2, <2>3 DEF ReceiveFrame, TypeOK
  <1>4. CASE ReceiveData
    <2>1. wire' \in Seq(Nat)
      BY <1>4, HeadTailProperties DEF ReceiveData, DataDue, TypeOK
    <2>2. iq' \in IngressType
      BY <1>4, ChargeFacts DEF ReceiveData, TypeOK
    <2>3. pwire' \in Seq(Signal)
      <3>1. Sent("PAUSE") \in Signal
        BY TimingAssumption DEF Sent, Signal, Frame
      <3>2. pwire' = pwire \/ pwire' = Append(pwire, Sent("PAUSE"))
        BY <1>4, PipeOnCharge
      <3>3. pwire \in Seq(Signal)
        BY DEF TypeOK
      <3> QED  BY <3>1, <3>2, <3>3, AppendProperties
    <2> QED  BY <1>4, <2>1, <2>2, <2>3 DEF ReceiveData, TypeOK
  <1>5. CASE Drain
    <2>1. iq' \in IngressType
      BY <1>5, ReleaseFacts DEF Drain, TypeOK
    <2>2. pwire' \in Seq(Signal)
      <3>1. Sent("GO") \in Signal
        BY TimingAssumption DEF Sent, Signal, Frame
      <3>2. pwire' = pwire \/ pwire' = Append(pwire, Sent("GO"))
        BY <1>5, PipeOnRelease
      <3>3. pwire \in Seq(Signal)
        BY DEF TypeOK
      <3> QED  BY <3>1, <3>2, <3>3, AppendProperties
    <2> QED  BY <1>5, <2>1, <2>2 DEF Drain, TypeOK
  <1>6. CASE Tick
    <2>1. wire' \in Seq(Nat) /\ pwire' \in Seq(Signal)
      BY <1>6, TickPipes
    <2>2. left' \in Nat
      BY <1>6 DEF Tick, ServiceDue, TypeOK
    <2> QED  BY <1>6, <2>1, <2>2 DEF Tick, TypeOK
  <1>7. CASE UNCHANGED vars
    BY <1>7 DEF vars, TypeOK
  <1> QED  BY <1>1, <1>2, <1>3, <1>4, <1>5, <1>6, <1>7 DEF Next
-----------------------------------------------------------------------------
(* Each action keeps the order of the pipes                                 *)

LEMMA OrderedOnAppend ==
    ASSUME TypeOK, PipesOrdered,
           NEW fr \in Frame,
           NEW w \in {wire, Append(wire, DataDelay)},
           NEW p \in {pwire, Append(pwire, Sent(fr))}
    PROVE  /\ \A i, j \in 1..Len(w) : i < j => w[i] <= w[j]
           /\ \A i \in 1..Len(w) : w[i] <= DataDelay
           /\ \A i, j \in 1..Len(p) : i < j => p[i].age <= p[j].age
           /\ \A i \in 1..Len(p) : p[i].age <= PauseDelay
  <1>1. CASE w = wire /\ p = pwire
    BY <1>1 DEF PipesOrdered
  <1>2. Sent(fr) \in Signal /\ Sent(fr).age = PauseDelay
    BY TimingAssumption DEF Sent, Signal
  <1>3. wire \in Seq(Nat) /\ pwire \in Seq(Signal) /\ DataDelay \in Nat
        /\ PauseDelay \in Nat
    BY TimingAssumption DEF TypeOK
  <1>4. /\ \A i, j \in 1..Len(w) : i < j => w[i] <= w[j]
        /\ \A i \in 1..Len(w) : w[i] <= DataDelay
    <2>1. CASE w = wire
      BY <2>1 DEF PipesOrdered
    <2>2. CASE w = Append(wire, DataDelay)
      <3>1. /\ Len(w) = Len(wire) + 1 /\ Len(wire) \in Nat
            /\ \A i \in 1..Len(wire) : w[i] = wire[i]
            /\ w[Len(wire) + 1] = DataDelay
        BY <2>2, <1>3, AppendProperties, LenProperties
      <3>2. \A i \in 1..Len(w) : i \in 1..Len(wire) \/ i = Len(wire) + 1
        BY <3>1
      <3>3. \A i \in 1..Len(w) : w[i] <= DataDelay
        BY <3>1, <3>2, <1>3, PipeElements DEF PipesOrdered
      <3>4. ASSUME NEW i \in 1..Len(w), NEW j \in 1..Len(w), i < j
            PROVE  w[i] <= w[j]
        <4>1. i \in 1..Len(wire)
          BY <3>1, <3>4
        <4>2. CASE j \in 1..Len(wire)
          BY <4>1, <4>2, <3>1, <3>4 DEF PipesOrdered
        <4>3. CASE j = Len(wire) + 1
          BY <4>3, <3>1, <3>3
        <4> QED  BY <4>2, <4>3, <3>2
      <3> QED  BY <3>3, <3>4
    <2> QED  BY <2>1, <2>2
  <1>5. /\ \A i, j \in 1..Len(p) : i < j => p[i].age <= p[j].age
        /\ \A i \in 1..Len(p) : p[i].age <= PauseDelay
    <2>1. CASE p = pwire
      BY <2>1 DEF PipesOrdered
    <2>2. CASE p = Append(pwire, Sent(fr))
      <3>1. /\ Len(p) = Len(pwire) + 1 /\ Len(pwire) \in Nat
            /\ \A i \in 1..Len(pwire) : p[i] = pwire[i]
            /\ p[Len(pwire) + 1].age = PauseDelay
        BY <2>2, <1>2, <1>3, AppendProperties, LenProperties
      <3>2. \A i \in 1..Len(p) : i \in 1..Len(pwire) \/ i = Len(pwire) + 1
        BY <3>1
      <3>3. \A i \in 1..Len(p) : p[i].age <= PauseDelay
        BY <3>1, <3>2, <1>3, PipeElements DEF PipesOrdered
      <3>4. ASSUME NEW i \in 1..Len(p), NEW j \in 1..Len(p), i < j
            PROVE  p[i].age <= p[j].age
        <4>1. i \in 1..Len(pwire)
          BY <3>1, <3>4
        <4>2. CASE j \in 1..Len(pwire)
          BY <4>1, <4>2, <3>1, <3>4 DEF PipesOrdered
        <4>3. CASE j = Len(pwire) + 1
          BY <4>3, <3>1, <3>3
        <4> QED  BY <4>2, <4>3, <3>2
      <3> QED  BY <3>3, <3>4
    <2> QED  BY <2>1, <2>2
  <1> QED  BY <1>4, <1>5

LEMMA OrderedStep ==
    ASSUME TypeOK, PipesOrdered, [Next]_vars
    PROVE  PipesOrdered'
  <1> USE DEF Frame
  <1>1. CASE Enqueue
    BY <1>1 DEF Enqueue, PipesOrdered
  <1>2. CASE CompleteService
    BY <1>2, OrderedOnAppend DEF CompleteService, PipesOrdered
  <1>3. CASE ReceiveFrame
    <2>1. /\ Len(pwire') = Len(pwire) - 1 /\ Len(pwire) \in Nat
          /\ \A i \in 1..Len(pwire') : pwire'[i] = pwire[i + 1]
          /\ wire' = wire
      BY <1>3, HeadTailProperties, LenProperties
         DEF ReceiveFrame, FrameDue, TypeOK
    <2>2. /\ \A i, j \in 1..Len(pwire') : i < j => pwire'[i].age <= pwire'[j].age
          /\ \A i \in 1..Len(pwire') : pwire'[i].age <= PauseDelay
      <3>1. ASSUME NEW i \in 1..Len(pwire')
            PROVE  /\ i + 1 \in 1..Len(pwire) /\ pwire'[i] = pwire[i + 1]
                   /\ pwire'[i].age <= PauseDelay
        BY <2>1, <3>1 DEF PipesOrdered
      <3>2. ASSUME NEW i \in 1..Len(pwire'), NEW j \in 1..Len(pwire'), i < j
            PROVE  pwire'[i].age <= pwire'[j].age
        <4>1. pwire[i + 1].age <= pwire[j + 1].age
          BY <3>1, <3>2 DEF PipesOrdered
        <4> QED  BY <3>1, <4>1
      <3> QED  BY <3>1, <3>2
    <2>3. /\ \A i, j \in 1..Len(wire') : i < j => wire'[i] <= wire'[j]
          /\ \A i \in 1..Len(wire') : wire'[i] <= DataDelay
      BY <2>1 DEF PipesOrdered
    <2> QED  BY <2>2, <2>3 DEF PipesOrdered
  <1>4. CASE ReceiveData
    <2>1. /\ Len(wire') = Len(wire) - 1 /\ Len(wire) \in Nat
          /\ \A i \in 1..Len(wire') : wire'[i] = wire[i + 1]
      BY <1>4, HeadTailProperties, LenProperties
         DEF ReceiveData, DataDue, TypeOK
    <2>2. pwire' = pwire \/ pwire' = Append(pwire, Sent("PAUSE"))
      BY <1>4, PipeOnCharge
    <2>3. /\ \A i, j \in 1..Len(wire') : i < j => wire'[i] <= wire'[j]
          /\ \A i \in 1..Len(wire') : wire'[i] <= DataDelay
      <3>1. ASSUME NEW i \in 1..Len(wire')
            PROVE  /\ i + 1 \in 1..Len(wire) /\ wire'[i] = wire[i + 1]
                   /\ wire'[i] <= DataDelay
        BY <2>1, <3>1 DEF PipesOrdered
      <3>2. ASSUME NEW i \in 1..Len(wire'), NEW j \in 1..Len(wire'), i < j
            PROVE  wire'[i] <= wire'[j]
        <4>1. wire[i + 1] <= wire[j + 1]
          BY <3>1, <3>2 DEF PipesOrdered
        <4> QED  BY <3>1, <4>1
      <3> QED  BY <3>1, <3>2
    <2>4. /\ \A i, j \in 1..Len(pwire') : i < j => pwire'[i].age <= pwire'[j].age
          /\ \A i \in 1..Len(pwire') : pwire'[i].age <= PauseDelay
      BY <2>2, OrderedOnAppend
    <2> QED  BY <2>3, <2>4 DEF PipesOrdered
  <1>5. CASE Drain
    <2>1. pwire' = pwire \/ pwire' = Append(pwire, Sent("GO"))
      BY <1>5, PipeOnRelease
    <2>2. wire' = wire
      BY <1>5 DEF Drain
    <2>3. /\ \A i, j \in 1..Len(pwire') : i < j => pwire'[i].age <= pwire'[j].age
          /\ \A i \in 1..Len(pwire') : pwire'[i].age <= PauseDelay
      BY <2>1, OrderedOnAppend
    <2> QED  BY <2>2, <2>3 DEF PipesOrdered
  <1>6. CASE Tick
    <2>1. /\ \A i, j \in 1..Len(wire) : i < j => wire[i] - 1 <= wire[j] - 1
          /\ \A i \in 1..Len(wire) : wire[i] - 1 <= DataDelay
      BY PipeElements, TimingAssumption DEF PipesOrdered
    <2>2. /\ \A i, j \in 1..Len(pwire) :
               i < j => pwire[i].age - 1 <= pwire[j].age - 1
          /\ \A i \in 1..Len(pwire) : pwire[i].age - 1 <= PauseDelay
      BY PipeElements, TimingAssumption DEF PipesOrdered
    <2>3. /\ Len(wire') = Len(wire)
          /\ \A i \in 1..Len(wire) : wire'[i] = wire[i] - 1
          /\ Len(pwire') = Len(pwire)
          /\ \A i \in 1..Len(pwire) : pwire'[i].age = pwire[i].age - 1
      BY <1>6, TickPipes
    <2> QED  BY <2>1, <2>2, <2>3 DEF PipesOrdered
  <1>7. CASE UNCHANGED vars
    BY <1>7 DEF vars, PipesOrdered
  <1> QED  BY <1>1, <1>2, <1>3, <1>4, <1>5, <1>6, <1>7 DEF Next
-----------------------------------------------------------------------------
(* The sender transmits exactly when it should                              *)

LEMMA SenderStep ==
    ASSUME TypeOK, SenderConsistent, [Next]_vars
    PROVE  SenderConsistent'
  <1>1. CASE Enqueue
    <2>1. txq' = txq + 1 /\ txq' > 0 /\ st' = st
      BY <1>1 DEF Enqueue, TypeOK
    <2>2. CASE txq = 0 /\ st = "READY"
      BY <1>1, <2>1, <2>2 DEF Enqueue, BeginService, SenderConsistent
    <2>3. CASE ~(txq = 0 /\ st = "READY")
      <3>1. sending' = sending
        BY <1>1, <2>3 DEF Enqueue
      <3>2. st = "READY" => txq > 0
        BY <2>3 DEF TypeOK
      <3> QED  BY <2>1, <3>1, <3>2 DEF SenderConsistent
    <2> QED  BY <2>2, <2>3
  <1>2. CASE CompleteService
    <2>1. st \in {"READY", "PAUSE_RECEIVED"}
      BY <1>2 DEF CompleteService, ServiceDue, SenderConsistent
    <2>2. st' \in {"READY", "PAUSED"}
      BY <1>2, <2>1 DEF CompleteService, AfterService
    <2>3. CASE txq' > 0 /\ st' = "READY"
      BY <1>2, <2>3 DEF CompleteService, BeginService, SenderConsistent
    <2>4. CASE ~(txq' > 0 /\ st' = "READY")
      <3>1. sending' = FALSE
        BY <1>2, <2>4 DEF CompleteService
      <3> QED  BY <3>1, <2>2, <2>4 DEF SenderConsistent
    <2> QED  BY <2>3, <2>4
  <1>3. CASE ReceiveFrame
    <2>1. txq' = txq
      BY <1>3 DEF ReceiveFrame
    <2>2. CASE Head(pwire).f = "GO"
      <3>1. st' = "READY"
        BY <1>3, <2>2 DEF ReceiveFrame, OnFrame
      <3>2. CASE txq > 0 /\ ~sending
        BY <1>3, <2>1, <3>1, <3>2
           DEF ReceiveFrame, BeginService, SenderConsistent
      <3>3. CASE ~(txq > 0 /\ ~sending)
        <4>1. sending' = sending
          BY <1>3, <3>3 DEF ReceiveFrame
        <4> QED  BY <2>1, <3>1, <3>3, <4>1 DEF SenderConsistent
      <3> QED  BY <3>2, <3>3
    <2>3. CASE Head(pwire).f # "GO"
      <3>1. st' = IF sending THEN "PAUSE_RECEIVED" ELSE "PAUSED"
        BY <1>3, <2>3 DEF ReceiveFrame, OnFrame
      <3>2. sending' = sending
        BY <1>3, <3>1 DEF ReceiveFrame
      <3> QED  BY <2>1, <3>1, <3>2 DEF SenderConsistent
    <2> QED  BY <2>2, <2>3
  <1>4. CASE ReceiveData
    BY <1>4 DEF ReceiveData, SenderConsistent
  <1>5. CASE Drain
    BY <1>5 DEF Drain, SenderConsistent
  <1>6. CASE Tick
    BY <1>6 DEF Tick, SenderConsistent
  <1>7. CASE UNCHANGED vars
    BY <1>7 DEF vars, SenderConsistent
  <1> QED  BY <1>1, <1>2, <1>3, <1>4, <1>5, <1>6, <1>7 DEF Next

-----------------------------------------------------------------------------
(* The two ends of the link agree                                           *)

(* Only three kinds of step change what the agreement is about: a frame     *)
(* joins the pause pipe as the port changes state, a frame leaves it and    *)
(* sets the sender, or neither happens.                                     *)
Quiet ==
    /\ Len(pwire') = Len(pwire)
    /\ \A i \in 1..Len(pwire) : pwire'[i].f = pwire[i].f
    /\ pwire' \in Seq(Signal)
    /\ iq'.st = iq.st
    /\ (st' = "READY") <=> (st = "READY")

Announces(fr) ==
    /\ pwire' = Append(pwire, Sent(fr))
    /\ iq.st = (IF fr = "PAUSE" THEN "READY" ELSE "PAUSED")
    /\ iq'.st = (IF fr = "PAUSE" THEN "PAUSED" ELSE "READY")
    /\ st' = st

LEMMA StepKinds ==
    ASSUME TypeOK, PipesOrdered, [Next]_vars
    PROVE  Quiet \/ ReceiveFrame \/ \E fr \in Frame : Announces(fr)
  <1>1. pwire \in Seq(Signal)
    BY DEF TypeOK
  <1>2. CASE Enqueue \/ UNCHANGED vars
    BY <1>1, <1>2 DEF Enqueue, vars, Quiet
  <1>3. CASE CompleteService
    BY <1>1, <1>3 DEF CompleteService, AfterService, Quiet
  <1>4. CASE ReceiveData
    <2>1. CASE CrossesHigh(iq)
      <3>1. Announces("PAUSE")
        BY <1>4, <2>1, ChargeFacts, PipeOnCharge
           DEF ReceiveData, Announces, TypeOK
      <3> QED  BY <3>1 DEF Frame
    <2>2. CASE ~CrossesHigh(iq)
      BY <1>1, <1>4, <2>2, ChargeFacts, PipeOnCharge
         DEF ReceiveData, Quiet, TypeOK
    <2> QED  BY <2>1, <2>2
  <1>5. CASE Drain
    <2>0. iq \in IngressType /\ iq.occ > 0
      BY <1>5 DEF Drain, TypeOK
    <2>1. CASE CrossesLow(iq)
      <3>1. Announces("GO")
        BY <1>5, <2>0, <2>1, ReleaseFacts, PipeOnRelease DEF Drain, Announces
      <3> QED  BY <3>1 DEF Frame
    <2>2. CASE ~CrossesLow(iq)
      BY <1>1, <1>5, <2>0, <2>2, ReleaseFacts, PipeOnRelease DEF Drain, Quiet
    <2> QED  BY <2>1, <2>2
  <1>6. CASE Tick
    BY <1>6, TickPipes DEF Tick, Quiet
  <1> QED  BY <1>2, <1>3, <1>4, <1>5, <1>6 DEF Next

LEMMA AgreementStep ==
    ASSUME TypeOK, PipesOrdered, PauseAgreement, FramesAlternate, [Next]_vars
    PROVE  PauseAgreement' /\ FramesAlternate'
  <1>1. pwire \in Seq(Signal) /\ Len(pwire) \in Nat
        /\ (pwire = <<>> <=> Len(pwire) = 0)
        /\ (pwire # <<>> => Head(pwire) = pwire[1])
    BY LenProperties, EmptySeq DEF TypeOK
  <1>2. iq.st \in {"READY", "PAUSED"}
    BY DEF TypeOK, IngressType
  <1>3. \A i \in 1..Len(pwire) : pwire[i].f \in {"PAUSE", "GO"}
    BY PipeElements DEF Frame
  <1>4. CASE Quiet
    <2>1. /\ pwire' = <<>> <=> Len(pwire') = 0
          /\ pwire' # <<>> => Head(pwire') = pwire'[1]
      BY <1>4, EmptySeq DEF Quiet
    <2> QED  BY <1>1, <1>4, <2>1 DEF Quiet, PauseAgreement, FramesAlternate
  <1>5. CASE ReceiveFrame
    <2>1. /\ pwire # <<>> /\ pwire' = Tail(pwire) /\ iq' = iq
          /\ (st' = "READY") <=> (pwire[1].f = "GO")
      BY <1>1, <1>5 DEF ReceiveFrame, FrameDue, OnFrame
    <2>2. /\ pwire' \in Seq(Signal)
          /\ Len(pwire') = Len(pwire) - 1
          /\ \A i \in 1..Len(pwire') : pwire'[i] = pwire[i + 1]
      BY <1>1, <2>1, HeadTailProperties
    <2>3. /\ pwire' = <<>> <=> Len(pwire') = 0
          /\ pwire' # <<>> => Head(pwire') = pwire'[1]
      BY <2>2, EmptySeq
    <2>4. CASE pwire' = <<>>
      <3>1. Len(pwire) = 1
        BY <1>1, <2>2, <2>3, <2>4
      <3>2. PauseAgreement'
        BY <1>2, <1>3, <2>1, <2>4, <3>1 DEF PauseAgreement
      <3>3. FramesAlternate'
        BY <2>3, <2>4 DEF FramesAlternate
      <3> QED  BY <3>2, <3>3
    <2>5. CASE pwire' # <<>>
      <3>1. Len(pwire) > 1
        BY <1>1, <2>2, <2>3, <2>5
      <3>2. pwire'[Len(pwire')] = pwire[Len(pwire)]
        BY <1>1, <2>2, <3>1
      <3>3. PauseAgreement'
        BY <2>1, <2>5, <3>2 DEF PauseAgreement
      <3>4. pwire'[1] = pwire[2] /\ pwire[1].f # pwire[2].f
        BY <1>1, <2>2, <3>1 DEF FramesAlternate
      <3>5. (st' = "READY") <=> (Head(pwire').f = "PAUSE")
        BY <1>3, <2>1, <2>3, <2>5, <3>1, <3>4
      <3>6. \A i \in 1..(Len(pwire') - 1) : pwire'[i].f # pwire'[i + 1].f
        BY <1>1, <2>2 DEF FramesAlternate
      <3> QED  BY <3>3, <3>5, <3>6 DEF FramesAlternate
    <2> QED  BY <2>4, <2>5
  <1>6. ASSUME NEW fr \in Frame, Announces(fr)
        PROVE  PauseAgreement' /\ FramesAlternate'
    <2>1. Sent(fr) \in Signal /\ Sent(fr).f = fr /\ fr \in {"PAUSE", "GO"}
      BY TimingAssumption DEF Sent, Signal, Frame
    <2>2. /\ Len(pwire') = Len(pwire) + 1
          /\ \A i \in 1..Len(pwire) : pwire'[i] = pwire[i]
          /\ pwire'[Len(pwire) + 1].f = fr
          /\ pwire' # <<>> /\ pwire' \in Seq(Signal)
      BY <1>1, <1>6, <2>1, AppendProperties DEF Announces
    <2>3. Head(pwire') = pwire'[1]
      BY <2>2
    <2>4. PauseAgreement'
      BY <1>6, <2>1, <2>2 DEF Announces, PauseAgreement
    <2>5. CASE pwire = <<>>
      <3>1. Len(pwire') = 1 /\ pwire'[1].f = fr
        BY <1>1, <2>2, <2>5
      <3>2. (st' = "READY") <=> (fr = "PAUSE")
        BY <1>6, <2>1, <2>5 DEF Announces, PauseAgreement
      <3> QED  BY <2>3, <2>4, <3>1, <3>2 DEF FramesAlternate
    <2>6. CASE pwire # <<>>
      <3>1. Len(pwire) > 0 /\ pwire[Len(pwire)].f # fr
        BY <1>1, <1>6, <2>1, <2>6 DEF Announces, PauseAgreement
      <3>2. ASSUME NEW i \in 1..(Len(pwire') - 1)
            PROVE  pwire'[i].f # pwire'[i + 1].f
        <4>1. CASE i = Len(pwire)
          BY <4>1, <1>1, <2>2, <3>1
        <4>2. CASE i # Len(pwire)
          BY <4>2, <1>1, <2>2 DEF FramesAlternate
        <4> QED  BY <4>1, <4>2
      <3>3. Head(pwire').f = Head(pwire).f /\ st' = st
        BY <1>1, <1>6, <2>2, <2>3, <2>6, <3>1 DEF Announces
      <3> QED  BY <2>4, <2>6, <3>2, <3>3 DEF FramesAlternate
    <2> QED  BY <2>5, <2>6
  <1> QED  BY <1>4, <1>5, <1>6, StepKinds

-----------------------------------------------------------------------------
(* The thresholds hold                                                      *)

LEMMA ThresholdStep ==
    ASSUME TypeOK, ThresholdsHold, [Next]_vars
    PROVE  ThresholdsHold'
  <1>1. iq \in IngressType
    BY DEF TypeOK
  <1>2. CASE ReceiveData
    <2>1. iq' = Charge(iq)
      BY <1>2 DEF ReceiveData
    <2> QED  BY <1>1, <2>1, ChargeFacts, ThresholdAssumption
             DEF ThresholdsHold, IngressType
  <1>3. CASE Drain
    <2>1. iq' = Release(iq) /\ iq.occ > 0
      BY <1>3 DEF Drain
    <2> QED  BY <1>1, <2>1, ReleaseFacts, ThresholdAssumption
             DEF ThresholdsHold, IngressType
  <1>4. CASE iq' = iq
    BY <1>4 DEF ThresholdsHold
  <1> QED  BY <1>2, <1>3, <1>4
           DEF Next, Enqueue, CompleteService, ReceiveFrame, Tick, vars

-----------------------------------------------------------------------------
(* The theorems                                                             *)

LEMMA IInvInit == Init => IInv
  <1> SUFFICES ASSUME Init PROVE IInv
    OBVIOUS
  <1>1. wire = <<>> /\ pwire = <<>> /\ Len(wire) = 0 /\ Len(pwire) = 0
    BY DEF Init
  <1>2. TypeOK
    BY <1>1, EmptySeq DEF Init, TypeOK, IngressInit, IngressType, SendState
  <1>3. PipesOrdered
    BY <1>1 DEF PipesOrdered
  <1>4. SenderConsistent
    BY DEF Init, SenderConsistent
  <1>5. PauseAgreement /\ FramesAlternate
    BY <1>1 DEF Init, PauseAgreement, FramesAlternate, IngressInit
  <1>6. ThresholdsHold
    BY ThresholdAssumption DEF Init, ThresholdsHold, IngressInit
  <1> QED  BY <1>2, <1>3, <1>4, <1>5, <1>6 DEF IInv

LEMMA IInvStep == IInv /\ [Next]_vars => IInv'
  BY TypeStep, OrderedStep, SenderStep, AgreementStep, ThresholdStep DEF IInv

(* The inductive invariant holds of every behaviour of the link.            *)
THEOREM Invariance == Safety => []IInv
  BY IInvInit, IInvStep, PTL DEF Safety

(* Occupancies, ages and states stay in their types: no counter of the link *)
(* ever goes below zero.                                                    *)
THEOREM TypeCorrect == Safety => []TypeOK
  <1>1. IInv => TypeOK
    BY DEF IInv
  <1> QED  BY <1>1, Invariance, PTL

(* The egress queue transmits exactly when it is allowed to and has a       *)
(* packet, so its asserts never fire and no packet waits for nothing.       *)
THEOREM SenderCorrect == Safety => []SenderConsistent
  <1>1. IInv => SenderConsistent
    BY DEF IInv
  <1> QED  BY <1>1, Invariance, PTL

(* Whatever the delays, the sender ends up in the state the ingress queue   *)
(* announced last.                                                          *)
THEOREM AgreementCorrect == Safety => []PauseAgreement
  <1>1. IInv => PauseAgreement
    BY DEF IInv
  <1> QED  BY <1>1, Invariance, PTL

(* Pauses and restarts alternate on the way back, and the first of them is  *)
(* always news to the sender.                                               *)
THEOREM AlternationCorrect == Safety => []FramesAlternate
  <1>1. IInv => FramesAlternate
    BY DEF IInv
  <1> QED  BY <1>1, Invariance, PTL

(* A READY port is never above the high threshold, a paused one never below *)
(* the low one.                                                             *)
THEOREM ThresholdsCorrect == Safety => []ThresholdsHold
  <1>1. IInv => ThresholdsHold
    BY DEF IInv
  <1> QED  BY <1>1, Invariance, PTL

(* The two ends of a link agree, for all thresholds, latencies and service  *)
(* times.                                                                   *)
THEOREM FlowControlCorrect == Safety => []FlowControl
  <1>1. PauseAgreement /\ FramesAlternate /\ ThresholdsHold => FlowControl
    BY DEF FlowControl
  <1> QED  BY <1>1, AgreementCorrect, AlternationCorrect, ThresholdsCorrect, PTL

-----------------------------------------------------------------------------
(* One hop is lossless, for every timing: the occupancy of an ingress queue *)
(* never exceeds the high threshold by more than the headroom that the      *)
(* delays of the link call for.                                             *)
(*                                                                          *)
(* The argument counts arrivals.  Packets leave the egress queue one        *)
(* serialisation time apart, so they stay that far apart in the pipe, and   *)
(* the k-th arrival after the one that crossed the threshold comes at least *)
(* k serialisation times after it.  The pause frame takes PauseDelay to     *)
(* reach the sender, and what the sender had completed by then arrives      *)
(* within another DataDelay: at most (DataDelay + PauseDelay) \div Service  *)
(* packets.  The one in service when the frame arrives is the last.         *)

(* The time it takes to serialise k packets.                                *)
Span(k) == k * Service

LEMMA SpanFacts ==
    /\ Span(0) = 0 /\ Span(1) = Service
    /\ \A k \in Nat : Span(k) \in Nat /\ Span(k + 1) = Span(k) + Service
    /\ \A k, m \in Nat : Span(k + m) = Span(k) + Span(m)
    /\ \A k, m \in Nat : k <= m => Span(k) <= Span(m)
  <1>1. Service \in Nat
    BY TimingAssumption
  <1>2. ASSUME NEW k \in Nat PROVE Span(k) \in Nat /\ Span(k + 1) = Span(k) + Service
    BY <1>1 DEF Span
  <1>3. ASSUME NEW k \in Nat, NEW m \in Nat PROVE Span(k + m) = Span(k) + Span(m)
    BY <1>1 DEF Span
  <1>4. ASSUME NEW k \in Nat, NEW m \in Nat, k <= m PROVE Span(k) <= Span(m)
    <2>1. m - k \in Nat /\ m = k + (m - k)
      BY <1>4
    <2>2. Span(m) = Span(k) + Span(m - k)
      BY <1>3, <2>1
    <2> QED  BY <1>2, <2>1, <2>2
  <1>5. Span(0) = 0 /\ Span(1) = Service
    BY <1>1 DEF Span
  <1> QED  BY <1>2, <1>3, <1>4, <1>5

(* How many packets fit in a stretch of time.                               *)
LEMMA SpanFits ==
    ASSUME NEW k \in Nat, NEW m \in Nat, NEW x \in Nat,
           Span(k) <= Span(m) + x
    PROVE  k <= m + (x \div Service)
  <1> DEFINE q == x \div Service
  <1>1. q \in Nat /\ x < Span(q) + Service
    BY TimingAssumption DEF Span
  <1> HIDE DEF q
  <1>2. m + q \in Nat /\ m + q + 1 \in Nat
    BY <1>1
  <1>3. Span(m + q + 1) = Span(m) + Span(q) + Service
    BY <1>1, <1>2, SpanFacts
  <1>4. /\ Span(m) \in Nat /\ Span(q) \in Nat /\ Span(k) \in Nat
        /\ Service \in Nat
    BY <1>1, SpanFacts, TimingAssumption
  <1>5. Span(k) < Span(m + q + 1)
    BY <1>1, <1>3, <1>4
  <1>6. m + q + 1 <= k => Span(m + q + 1) <= Span(k)
    BY <1>2, SpanFacts
  <1>7. k <= m + q
    BY <1>1, <1>2, <1>3, <1>4, <1>5, <1>6
  <1> QED  BY <1>7 DEF q

-----------------------------------------------------------------------------
(* The invariant                                                            *)

(* Packets in the pipe are a serialisation time apart, and so is the one    *)
(* that enters it next.                                                     *)
Spaced ==
    /\ \A i, j \in 1..Len(wire) : i < j => wire[i] + Span(j - i) <= wire[j]
    /\ sending /\ wire # <<>> => wire[Len(wire)] + Service <= left + DataDelay

(* While a pause is on its way, the packets that arrived since it was sent, *)
(* those in the pipe and the one in service come no faster than that.       *)
Room == Span(High + 1) + (PauseDelay - pwire[Len(pwire)].age)

PauseOnItsWay ==
    iq.st = "PAUSED" /\ pwire # <<>> =>
        /\ Span(iq.occ) <= Room
        /\ \A i \in 1..Len(wire) : Span(iq.occ + i) <= Room + wire[i]
        /\ sending => Span(iq.occ + Len(wire) + 1) <= Room + left + DataDelay

(* Once it has arrived nothing new is sent.                                 *)
PauseTaken ==
    iq.st = "PAUSED" /\ pwire = <<>> =>
        iq.occ + Len(wire) + (IF sending THEN 1 ELSE 0) <= High + Headroom

Budget == Spaced /\ PauseOnItsWay /\ PauseTaken
-----------------------------------------------------------------------------
(* Each action keeps it                                                     *)

LEMMA LinkTypes ==
    ASSUME TypeOK, PipesOrdered
    PROVE  /\ iq.occ \in Nat /\ iq.st \in {"READY", "PAUSED"}
           /\ wire \in Seq(Nat) /\ Len(wire) \in Nat
           /\ pwire \in Seq(Signal) /\ Len(pwire) \in Nat
           /\ (wire = <<>> <=> Len(wire) = 0)
           /\ (pwire = <<>> <=> Len(pwire) = 0)
           /\ left \in Nat /\ txq \in Nat
           /\ \A i \in 1..Len(wire) : wire[i] \in Nat /\ wire[i] <= DataDelay
           /\ \A i \in 1..Len(pwire) :
                pwire[i].age \in Nat /\ pwire[i].age <= PauseDelay
           /\ pwire # <<>> => Len(pwire) \in 1..Len(pwire) /\ Room \in Nat
           /\ wire # <<>> => Len(wire) \in 1..Len(wire)
           /\ High \in Nat /\ Service \in Nat /\ Service > 0
           /\ DataDelay \in Nat /\ PauseDelay \in Nat
  <1>1. /\ iq.occ \in Nat /\ iq.st \in {"READY", "PAUSED"}
        /\ wire \in Seq(Nat) /\ pwire \in Seq(Signal)
        /\ left \in Nat /\ txq \in Nat
    BY DEF TypeOK, IngressType
  <1>2. /\ Len(wire) \in Nat /\ Len(pwire) \in Nat
        /\ (wire = <<>> <=> Len(wire) = 0)
        /\ (pwire = <<>> <=> Len(pwire) = 0)
    BY <1>1, LenProperties, EmptySeq
  <1>3. /\ High \in Nat /\ Service \in Nat /\ Service > 0
        /\ DataDelay \in Nat /\ PauseDelay \in Nat
    BY ThresholdAssumption, TimingAssumption
  <1>4. /\ \A i \in 1..Len(wire) : wire[i] \in Nat /\ wire[i] <= DataDelay
        /\ \A i \in 1..Len(pwire) :
             pwire[i].age \in Nat /\ pwire[i].age <= PauseDelay
    BY PipeElements DEF PipesOrdered
  <1>5. /\ pwire # <<>> => Len(pwire) \in 1..Len(pwire)
        /\ wire # <<>> => Len(wire) \in 1..Len(wire)
    BY <1>2
  <1>6. pwire # <<>> => Room \in Nat
    <2>1. High + 1 \in Nat
      BY <1>3
    <2>2. Span(High + 1) \in Nat
      BY <2>1, SpanFacts
    <2> QED  BY <1>3, <1>4, <1>5, <2>2 DEF Room
  <1> QED  BY <1>1, <1>2, <1>3, <1>4, <1>5, <1>6

(* There is room for the packets in the pipe, and for one service more.     *)
LEMMA NextFits ==
    ASSUME TypeOK, PipesOrdered, PauseOnItsWay,
           iq.st = "PAUSED", pwire # <<>>
    PROVE  /\ Span(iq.occ + Len(wire)) <= Room + DataDelay
           /\ Span(iq.occ + Len(wire) + 1) <= Room + Service + DataDelay
  <1>0. iq.occ + Len(wire) \in Nat
    BY LinkTypes
  <1>1. Span(iq.occ + Len(wire)) <= Room + DataDelay
    <2>1. CASE wire = <<>>
      <3>1. iq.occ + Len(wire) = iq.occ
        BY <2>1, LinkTypes
      <3>2. Span(iq.occ) <= Room /\ Span(iq.occ) \in Nat
        BY LinkTypes, SpanFacts DEF PauseOnItsWay
      <3> QED  BY <3>1, <3>2, LinkTypes
    <2>2. CASE wire # <<>>
      <3>1. /\ Span(iq.occ + Len(wire)) <= Room + wire[Len(wire)]
            /\ wire[Len(wire)] <= DataDelay /\ wire[Len(wire)] \in Nat
        BY <2>2, LinkTypes DEF PauseOnItsWay
      <3>2. Span(iq.occ + Len(wire)) \in Nat
        BY <1>0, SpanFacts
      <3> QED  BY <3>1, <3>2, LinkTypes
    <2> QED  BY <2>1, <2>2
  <1>2. /\ Span(iq.occ + Len(wire) + 1) = Span(iq.occ + Len(wire)) + Service
        /\ Span(iq.occ + Len(wire)) \in Nat
    BY <1>0, SpanFacts
  <1> QED  BY <1>1, <1>2, LinkTypes

(* Starting a service breaks nothing: it ends a whole service from now.     *)
LEMMA BeginFits ==
    ASSUME TypeOK, PipesOrdered, Spaced, PauseOnItsWay,
           BeginService, UNCHANGED <<wire, iq, pwire>>
    PROVE  Spaced' /\ PauseOnItsWay'
  <1>1. sending' = TRUE /\ left' = Service /\ wire' = wire /\ iq' = iq
        /\ pwire' = pwire
    BY DEF BeginService
  <1>2. Spaced'
    <2>1. ASSUME wire # <<>>
          PROVE  wire[Len(wire)] + Service <= Service + DataDelay
      <3>1. /\ wire[Len(wire)] \in Nat /\ wire[Len(wire)] <= DataDelay
            /\ Service \in Nat /\ DataDelay \in Nat
        BY <2>1, LinkTypes
      <3> QED  BY <3>1
    <2> QED  BY <1>1, <2>1 DEF Spaced
  <1>3. PauseOnItsWay'
    BY <1>1, NextFits DEF PauseOnItsWay, Room
  <1> QED  BY <1>2, <1>3

LEMMA EnqueueBudget ==
    ASSUME IInv, Budget, Enqueue
    PROVE  Budget'
  <1>1. TypeOK /\ PipesOrdered /\ SenderConsistent /\ PauseAgreement
    BY DEF IInv
  <1>2. UNCHANGED <<st, wire, iq, pwire>>
    BY DEF Enqueue
  <1>3. CASE txq = 0 /\ st = "READY"
    <2>1. BeginService
      BY <1>3 DEF Enqueue
    <2>2. Spaced' /\ PauseOnItsWay'
      BY <1>1, <1>2, <2>1, BeginFits DEF Budget
    <2>3. PauseTaken'
      BY <1>1, <1>2, <1>3 DEF PauseTaken, PauseAgreement
    <2> QED  BY <2>2, <2>3 DEF Budget
  <1>4. CASE ~(txq = 0 /\ st = "READY")
    <2>1. sending' = sending /\ left' = left
      BY <1>4 DEF Enqueue
    <2> QED  BY <1>2, <2>1 DEF Budget, Spaced, PauseOnItsWay, PauseTaken, Room
  <1> QED  BY <1>3, <1>4
(* The packet that completes service enters the pipe where it was counted.  *)
LEMMA CompleteBudget ==
    ASSUME IInv, Budget, CompleteService
    PROVE  Budget'
  <1> DEFINE n == Len(wire)
  <1>1. TypeOK /\ PipesOrdered /\ SenderConsistent /\ PauseAgreement
        /\ Spaced /\ PauseOnItsWay /\ PauseTaken
    BY DEF IInv, Budget
  <1>2. n \in Nat /\ DataDelay \in Nat /\ Service \in Nat /\ wire \in Seq(Nat)
        /\ iq.occ \in Nat
    BY <1>1, LinkTypes
  <1>3. sending /\ left = 0 /\ iq' = iq /\ pwire' = pwire
        /\ wire' = Append(wire, DataDelay)
    BY DEF CompleteService, ServiceDue
  <1>4. /\ Len(wire') = n + 1 /\ wire'[n + 1] = DataDelay
        /\ \A i \in 1..n : wire'[i] = wire[i]
        /\ wire' # <<>>
    BY <1>2, <1>3, AppendProperties
  <1>5. \A i \in 1..(n + 1) : i \in 1..n \/ i = n + 1
    BY <1>2
  <1>6. sending' => left' = Service
    BY DEF CompleteService, BeginService
  <1>7. Spaced'
    <2>1. ASSUME NEW i \in 1..(n + 1), NEW j \in 1..(n + 1), i < j
          PROVE  wire'[i] + Span(j - i) <= wire'[j]
      <3>1. i \in 1..n
        BY <1>2, <2>1
      <3>2. CASE j \in 1..n
        BY <1>1, <1>4, <2>1, <3>1, <3>2 DEF Spaced
      <3>3. CASE j = n + 1
        <4>1. wire # <<>> /\ n \in 1..n /\ wire[n] \in Nat /\ wire[i] \in Nat
          <5>1. wire # <<>> /\ n \in 1..n
            BY <1>1, <1>2, <3>1, LinkTypes
          <5>2. wire[n] \in Nat /\ wire[i] \in Nat
            BY <1>1, <3>1, <5>1, PipeElements
          <5> QED  BY <5>1, <5>2
        <4>2. wire[n] + Service <= DataDelay
          BY <1>1, <1>2, <1>3, <4>1 DEF Spaced
        <4>3. n - i \in Nat /\ (n + 1) - i = (n - i) + 1
          BY <1>2, <3>1
        <4>4. Span((n + 1) - i) = Span(n - i) + Service /\ Span(n - i) \in Nat
          BY <4>3, SpanFacts
        <4>5. wire[i] + Span(n - i) <= wire[n]
          <5>1. CASE i = n
            <6>1. n - i = 0
              BY <1>2, <5>1
            <6>2. Span(n - i) = 0
              BY <6>1, SpanFacts
            <6> QED  BY <4>1, <5>1, <6>2
          <5>2. CASE i # n
            BY <1>1, <1>2, <3>1, <4>1, <5>2 DEF Spaced
          <5> QED  BY <5>1, <5>2
        <4>6. wire[i] + Span((n + 1) - i) <= DataDelay
          <5>1. ASSUME NEW a \in Nat, NEW b \in Nat, NEW c \in Nat,
                       a + b <= c, c + Service <= DataDelay
                PROVE  a + (b + Service) <= DataDelay
            BY <5>1, TimingAssumption
          <5>2. wire[i] + (Span(n - i) + Service) <= DataDelay
            BY <4>1, <4>2, <4>4, <4>5, <5>1
          <5> QED  BY <4>4, <5>2
        <4>7. wire'[i] = wire[i] /\ wire'[j] = DataDelay
          BY <1>4, <3>1, <3>3
        <4> QED  BY <3>3, <4>6, <4>7
      <3> QED  BY <1>5, <3>2, <3>3
    <2>2. sending' => wire'[n + 1] + Service <= left' + DataDelay
      BY <1>2, <1>4, <1>6
    <2> QED  BY <1>4, <2>1, <2>2 DEF Spaced
  <1>8. PauseOnItsWay'
    <2> SUFFICES ASSUME iq.st = "PAUSED", pwire # <<>>
                 PROVE  /\ Span(iq.occ) <= Room
                        /\ \A i \in 1..(n + 1) :
                             Span(iq.occ + i) <= Room + wire'[i]
                        /\ sending' => Span(iq.occ + (n + 1) + 1)
                                          <= Room + left' + DataDelay
      BY <1>3, <1>4 DEF PauseOnItsWay, Room
    <2>1. /\ Span(iq.occ) <= Room /\ Room \in Nat
          /\ \A i \in 1..n : Span(iq.occ + i) <= Room + wire[i]
          /\ Span(iq.occ + n + 1) <= Room + left + DataDelay
      BY <1>1, <1>3, LinkTypes DEF PauseOnItsWay
    <2>2. iq.occ + (n + 1) = iq.occ + n + 1
      BY <1>2
    <2>3. Span(iq.occ + (n + 1)) <= Room + DataDelay
      BY <1>2, <1>3, <2>1, <2>2
    <2>4. /\ Span(iq.occ + (n + 1) + 1) = Span(iq.occ + (n + 1)) + Service
          /\ Span(iq.occ + (n + 1)) \in Nat
      <3>1. iq.occ + (n + 1) \in Nat
        BY <1>2
      <3> QED  BY <3>1, SpanFacts
    <2>5. sending' => Span(iq.occ + (n + 1) + 1) <= Room + left' + DataDelay
      BY <1>2, <1>6, <2>1, <2>3, <2>4
    <2>6. \A i \in 1..(n + 1) : Span(iq.occ + i) <= Room + wire'[i]
      BY <1>4, <1>5, <2>1, <2>3
    <2> QED  BY <2>1, <2>5, <2>6
  <1>9. PauseTaken'
    <2> SUFFICES ASSUME iq.st = "PAUSED", pwire = <<>>
                 PROVE  iq.occ + (n + 1) + (IF sending' THEN 1 ELSE 0)
                          <= High + Headroom
      BY <1>3, <1>4 DEF PauseTaken, Headroom
    <2>1. st # "READY"
      BY <1>1 DEF PauseAgreement
    <2>2. ~sending'
      BY <2>1 DEF CompleteService, AfterService
    <2>3. iq.occ + n + 1 <= High + Headroom
      BY <1>1, <1>3 DEF PauseTaken
    <2>4. iq.occ + (n + 1) + 0 = iq.occ + n + 1
      BY <1>2
    <2> QED  BY <2>2, <2>3, <2>4
  <1> QED  BY <1>7, <1>8, <1>9 DEF Budget
(* A frame reaches the sender.  When it is the last one and a pause, the    *)
(* room left is what the headroom was chosen for.                           *)
LEMMA FrameBudget ==
    ASSUME IInv, Budget, ReceiveFrame
    PROVE  Budget'
  <1> DEFINE n == Len(wire)
  <1>1. TypeOK /\ PipesOrdered /\ SenderConsistent /\ PauseAgreement
        /\ FramesAlternate /\ Spaced /\ PauseOnItsWay /\ PauseTaken
    BY DEF IInv, Budget
  <1>2. /\ pwire # <<>> /\ pwire[1].age = 0 /\ pwire' = Tail(pwire)
        /\ txq' = txq /\ wire' = wire /\ iq' = iq
        /\ (st' = "READY") <=> (pwire[1].f = "GO")
    BY <1>1 DEF ReceiveFrame, FrameDue, OnFrame, TypeOK
  <1>3. /\ pwire' \in Seq(Signal) /\ Len(pwire') = Len(pwire) - 1
        /\ \A i \in 1..Len(pwire') : pwire'[i] = pwire[i + 1]
        /\ Len(pwire) \in Nat
        /\ (pwire' = <<>> <=> Len(pwire') = 0)
    BY <1>1, <1>2, HeadTailProperties, LenProperties, EmptySeq DEF TypeOK
  <1>4. pwire' # <<>> => pwire'[Len(pwire')] = pwire[Len(pwire)]
    BY <1>3
  <1>5. (sending' = TRUE /\ left' = Service /\ st' = "READY")
        \/ (sending' = sending /\ left' = left)
    BY DEF ReceiveFrame, BeginService
  <1>6. Spaced'
    <2>1. CASE sending' = TRUE /\ left' = Service
      <3>1. wire # <<>> => wire[n] \in Nat /\ wire[n] <= DataDelay
        BY <1>1, LinkTypes
      <3>2. Service \in Nat /\ DataDelay \in Nat
        BY TimingAssumption
      <3>3. wire # <<>> => wire[n] + Service <= Service + DataDelay
        BY <3>1, <3>2
      <3> QED  BY <1>1, <1>2, <2>1, <3>3 DEF Spaced
    <2>2. CASE sending' = sending /\ left' = left
      BY <1>1, <1>2, <2>2 DEF Spaced
    <2> QED  BY <1>5, <2>1, <2>2
  <1>7. PauseOnItsWay'
    <2> SUFFICES ASSUME iq.st = "PAUSED", pwire' # <<>>
                 PROVE  /\ Span(iq.occ) <= Room
                        /\ \A i \in 1..n : Span(iq.occ + i) <= Room + wire[i]
                        /\ sending' => Span(iq.occ + n + 1)
                                          <= Room + left' + DataDelay
      BY <1>2, <1>4 DEF PauseOnItsWay, Room
    <2>1. /\ Span(iq.occ) <= Room
          /\ \A i \in 1..n : Span(iq.occ + i) <= Room + wire[i]
          /\ sending => Span(iq.occ + n + 1) <= Room + left + DataDelay
      BY <1>1, <1>2 DEF PauseOnItsWay
    <2>2. Span(iq.occ + n + 1) <= Room + Service + DataDelay
      BY <1>1, <1>2, NextFits
    <2> QED  BY <1>5, <2>1, <2>2
  <1>8. PauseTaken'
    <2> SUFFICES ASSUME iq.st = "PAUSED", pwire' = <<>>
                 PROVE  iq.occ + n + (IF sending' THEN 1 ELSE 0)
                          <= High + Headroom
      BY <1>2 DEF PauseTaken, Headroom
    <2> DEFINE q == (DataDelay + PauseDelay) \div Service
    <2>1. Len(pwire) = 1
      BY <1>3
    <2>2. Room = Span(High + 1) + PauseDelay
      <3>1. PauseDelay - 0 = PauseDelay
        BY TimingAssumption
      <3> QED  BY <1>2, <2>1, <3>1 DEF Room
    <2>3. Span(iq.occ + n) <= Span(High + 1) + (DataDelay + PauseDelay)
      <3>1. Span(iq.occ + n) <= Room + DataDelay
        BY <1>1, <1>2, NextFits
      <3>2. High + 1 \in Nat
        BY ThresholdAssumption
      <3>3. Span(High + 1) \in Nat
        BY <3>2, SpanFacts
      <3> QED  BY <2>2, <3>1, <3>3, TimingAssumption
    <2>4. iq.occ + n \in Nat /\ High + 1 \in Nat /\ High \in Nat
          /\ DataDelay + PauseDelay \in Nat
      <3>1. iq.occ + n \in Nat
        BY <1>1, LinkTypes
      <3>2. High + 1 \in Nat /\ High \in Nat
        BY ThresholdAssumption
      <3>3. DataDelay + PauseDelay \in Nat
        BY TimingAssumption
      <3> QED  BY <3>1, <3>2, <3>3
    <2>5. iq.occ + n <= High + 1 + q
      BY <2>3, <2>4, SpanFits
    <2>6. q \in Nat
      BY <2>4, TimingAssumption
    <2> HIDE DEF q
    <2>7. High + 1 + q + 1 = High + (2 + q)
      BY <2>4, <2>6
    <2>8. iq.occ + n + 1 <= High + (2 + q)
      BY <2>4, <2>5, <2>6
    <2>9. iq.occ + n + 0 <= High + (2 + q)
      BY <2>4, <2>5, <2>6
    <2>10. Headroom = 2 + q
      BY DEF Headroom, q
    <2> QED  BY <2>8, <2>9, <2>10
  <1> QED  BY <1>6, <1>7, <1>8 DEF Budget
(* A packet arrives: it moves from the pipe to the port in the count.  The  *)
(* one that crosses the threshold starts the count at zero, and the pipe    *)
(* behind it is a service apart from it on.                                 *)
LEMMA ArrivalBudget ==
    ASSUME IInv, Budget, ReceiveData
    PROVE  Budget'
  <1> DEFINE n == Len(wire)
  <1>1. TypeOK /\ PipesOrdered /\ ThresholdsHold
        /\ Spaced /\ PauseOnItsWay /\ PauseTaken
    BY DEF IInv, Budget
  <1>2. /\ wire # <<>> /\ wire[1] = 0 /\ wire' = Tail(wire)
        /\ iq' = Charge(iq) /\ sending' = sending /\ left' = left
    BY <1>1 DEF ReceiveData, DataDue, TypeOK
  <1>3. /\ wire' \in Seq(Nat) /\ Len(wire') = n - 1 /\ n \in Nat /\ n > 0
        /\ \A i \in 1..(n - 1) : wire'[i] = wire[i + 1]
        /\ (wire' = <<>> <=> n = 1)
    <2>1. n \in Nat /\ n > 0 /\ wire \in Seq(Nat)
      BY <1>1, <1>2, LinkTypes
    <2>2. /\ wire' \in Seq(Nat) /\ Len(wire') = n - 1
          /\ \A i \in 1..(n - 1) : wire'[i] = wire[i + 1]
      BY <1>2, <2>1, HeadTailProperties
    <2>3. wire' = <<>> <=> Len(wire') = 0
      BY <2>2, EmptySeq
    <2> QED  BY <2>1, <2>2, <2>3
  <1>4. /\ iq.occ \in Nat /\ iq'.occ = iq.occ + 1 /\ High \in Nat
        /\ DataDelay \in Nat /\ PauseDelay \in Nat /\ left \in Nat
        /\ Service \in Nat
    BY <1>1, <1>2, ChargeFacts, LinkTypes DEF TypeOK
  <1>5. Spaced'
    <2>1. ASSUME NEW i \in 1..(n - 1), NEW j \in 1..(n - 1), i < j
          PROVE  wire'[i] + Span(j - i) <= wire'[j]
      <3>1. i + 1 \in 1..n /\ j + 1 \in 1..n /\ i + 1 < j + 1
            /\ (j + 1) - (i + 1) = j - i
        BY <1>3, <2>1
      <3>2. wire[i + 1] + Span((j + 1) - (i + 1)) <= wire[j + 1]
        BY <1>1, <3>1 DEF Spaced
      <3> QED  BY <1>3, <3>1, <3>2
    <2>2. sending /\ wire' # <<>> => wire'[n - 1] + Service <= left + DataDelay
      <3>1. wire' # <<>> => n - 1 \in 1..(n - 1) /\ (n - 1) + 1 = n
        BY <1>3
      <3>2. wire' # <<>> => wire'[n - 1] = wire[n]
        BY <1>3, <3>1
      <3> QED  BY <1>1, <1>2, <3>2 DEF Spaced
    <2> QED  BY <1>2, <1>3, <2>1, <2>2 DEF Spaced
  <1>6. CASE CrossesHigh(iq)
    <2>1. /\ iq'.st = "PAUSED" /\ iq'.occ = High + 1
          /\ pwire' = Append(pwire, Sent("PAUSE"))
      <3>1. iq.st = "READY" /\ iq'.st = "PAUSED" /\ iq'.occ > High
        BY <1>1, <1>2, <1>6, ChargeFacts DEF TypeOK
      <3>2. iq.occ <= High
        BY <1>1, <3>1 DEF ThresholdsHold
      <3> QED  BY <1>1, <1>4, <1>6, <3>1, <3>2, PipeOnCharge
    <2>2. pwire' # <<>> /\ pwire'[Len(pwire')].age = PauseDelay
      <3>1. Sent("PAUSE") \in Signal /\ Sent("PAUSE").age = PauseDelay
        BY TimingAssumption DEF Sent, Signal, Frame
      <3> QED  BY <1>1, <2>1, <3>1, AppendProperties DEF TypeOK
    <2>3. High + 1 \in Nat /\ Span(High + 1) \in Nat
      <3>1. High + 1 \in Nat
        BY <1>4
      <3> QED  BY <3>1, SpanFacts
    <2>4. Room' = Span(High + 1)
      <3>1. Room' = Span(High + 1) + (PauseDelay - PauseDelay)
        BY <2>2 DEF Room, Span
      <3> QED  BY <1>4, <2>3, <3>1
    <2>5. ASSUME NEW i \in 1..n PROVE Span(i - 1) <= wire[i]
      <3>1. CASE i = 1
        <4>1. i - 1 = 0
          BY <3>1
        <4>2. Span(i - 1) = 0
          BY <4>1, SpanFacts
        <4> QED  BY <1>2, <3>1, <4>2
      <3>2. CASE i # 1
        <4>1. 1 \in 1..n /\ 1 < i /\ i - 1 \in Nat
          BY <1>3, <3>2
        <4>2. wire[1] + Span(i - 1) <= wire[i]
          BY <1>1, <4>1 DEF Spaced
        <4>3. Span(i - 1) \in Nat
          BY <4>1, SpanFacts
        <4> QED  BY <1>2, <4>2, <4>3
      <3> QED  BY <3>1, <3>2
    <2>6. ASSUME NEW i \in 1..(n - 1)
          PROVE  Span(High + 1 + i) <= Span(High + 1) + wire'[i]
      <3>1. i + 1 \in 1..n /\ (i + 1) - 1 = i /\ i \in Nat
        BY <1>3
      <3>2. Span(i) <= wire[i + 1] /\ wire[i + 1] \in Nat
        BY <1>1, <2>5, <3>1, PipeElements
      <3>3. Span(High + 1 + i) = Span(High + 1) + Span(i) /\ Span(i) \in Nat
        BY <2>3, <3>1, SpanFacts
      <3> QED  BY <1>3, <2>3, <3>2, <3>3
    <2>7. sending => Span(High + 1 + (n - 1) + 1)
                       <= Span(High + 1) + left + DataDelay
      <3>1. n \in 1..n /\ n - 1 \in Nat /\ High + 1 + (n - 1) + 1 = High + 1 + n
        BY <1>3, <1>4
      <3>2. Span(n - 1) <= wire[n] /\ wire[n] \in Nat
        BY <1>1, <2>5, <3>1, PipeElements
      <3>3. Span(High + 1 + n) = Span(High + 1) + Span(n)
        BY <1>3, <2>3, SpanFacts
      <3>4. Span(n) = Span(n - 1) + Service /\ Span(n - 1) \in Nat
        <4>1. (n - 1) + 1 = n
          BY <1>3
        <4>2. Span((n - 1) + 1) = Span(n - 1) + Service /\ Span(n - 1) \in Nat
          BY <3>1, SpanFacts
        <4> QED  BY <4>1, <4>2
      <3>5. sending => wire[n] + Service <= left + DataDelay
        BY <1>1, <1>2 DEF Spaced
      <3>6. sending => Span(n) <= left + DataDelay
        BY <1>4, <3>2, <3>4, <3>5
      <3>7. Span(n) \in Nat
        BY <1>4, <3>4
      <3> QED  BY <1>4, <2>3, <3>1, <3>3, <3>6, <3>7
    <2>8. PauseOnItsWay'
      <3>1. Span(High + 1) <= Span(High + 1)
        BY <2>3
      <3> QED  BY <1>2, <1>3, <2>1, <2>4, <2>6, <2>7, <3>1
               DEF PauseOnItsWay, Span
    <2>9. PauseTaken'
      BY <2>2 DEF PauseTaken
    <2> QED  BY <1>5, <2>8, <2>9 DEF Budget
  <1>7. CASE ~CrossesHigh(iq)
    <2>1. iq'.st = iq.st /\ pwire' = pwire
      BY <1>1, <1>2, <1>7, ChargeFacts, PipeOnCharge DEF TypeOK
    <2>2. /\ iq'.occ + (n - 1) = iq.occ + n
          /\ iq'.occ + (n - 1) + 1 = iq.occ + n + 1
          /\ \A i \in 1..(n - 1) : iq'.occ + i = iq.occ + (i + 1)
                                    /\ i + 1 \in 1..n
          /\ 1 \in 1..n
      <3>1. 1 \in 1..n /\ \A i \in 1..(n - 1) : i + 1 \in 1..n
        BY <1>3
      <3>2. ASSUME NEW a \in Nat, NEW k \in Nat
            PROVE  /\ (a + 1) + (k - 1) = a + k
                   /\ (a + 1) + (k - 1) + 1 = a + k + 1
                   /\ (a + 1) + k = a + (k + 1)
        OBVIOUS
      <3>3. /\ (iq.occ + 1) + (n - 1) = iq.occ + n
            /\ (iq.occ + 1) + (n - 1) + 1 = iq.occ + n + 1
        BY <1>3, <1>4, <3>2
      <3>4. ASSUME NEW i \in 1..(n - 1)
            PROVE  (iq.occ + 1) + i = iq.occ + (i + 1)
        <4>1. i \in Nat /\ iq.occ \in Nat
          BY <1>3, <1>4
        <4> HIDE DEF n
        <4> QED  BY <3>2, <4>1
      <3> QED  BY <1>4, <3>1, <3>3, <3>4
    <2>3. PauseOnItsWay'
      <3> SUFFICES ASSUME iq.st = "PAUSED", pwire # <<>>
                   PROVE  /\ Span(iq'.occ) <= Room
                          /\ \A i \in 1..(n - 1) :
                               Span(iq'.occ + i) <= Room + wire'[i]
                          /\ sending => Span(iq'.occ + (n - 1) + 1)
                                           <= Room + left + DataDelay
        BY <1>2, <1>3, <2>1 DEF PauseOnItsWay, Room
      <3>1. /\ \A i \in 1..n : Span(iq.occ + i) <= Room + wire[i]
            /\ sending => Span(iq.occ + n + 1) <= Room + left + DataDelay
            /\ Room \in Nat
        BY <1>1, LinkTypes DEF PauseOnItsWay
      <3>2. Span(iq.occ + 1) <= Room
        BY <1>2, <2>2, <3>1
      <3>3. ASSUME NEW i \in 1..(n - 1)
            PROVE  Span(iq'.occ + i) <= Room + wire'[i]
        BY <1>3, <2>2, <3>1
      <3> QED  BY <1>4, <2>2, <3>1, <3>2, <3>3
    <2>4. PauseTaken'
      <3> SUFFICES ASSUME iq.st = "PAUSED", pwire = <<>>
                   PROVE  iq'.occ + (n - 1) + (IF sending THEN 1 ELSE 0)
                            <= High + Headroom
        BY <1>2, <1>3, <2>1 DEF PauseTaken, Headroom
      <3> QED  BY <1>1, <2>2 DEF PauseTaken
    <2> QED  BY <1>5, <2>3, <2>4 DEF Budget
  <1> QED  BY <1>6, <1>7

(* A release makes room, or restarts the sender and ends the count.         *)
LEMMA DrainBudget ==
    ASSUME IInv, Budget, Drain
    PROVE  Budget'
  <1> DEFINE n == Len(wire)
  <1>1. TypeOK /\ PipesOrdered /\ Spaced /\ PauseOnItsWay /\ PauseTaken
    BY DEF IInv, Budget
  <1>2. /\ iq' = Release(iq) /\ iq.occ > 0 /\ wire' = wire
        /\ sending' = sending /\ left' = left
    BY DEF Drain
  <1>3. /\ iq.occ \in Nat /\ iq'.occ = iq.occ - 1 /\ iq'.occ \in Nat
        /\ n \in Nat
    BY <1>1, <1>2, ReleaseFacts, LinkTypes DEF TypeOK
  <1>4. Spaced'
    BY <1>1, <1>2 DEF Spaced
  <1>5. CASE iq'.st # "PAUSED"
    BY <1>4, <1>5 DEF Budget, PauseOnItsWay, PauseTaken
  <1>6. CASE iq'.st = "PAUSED"
    <2>1. ~CrossesLow(iq) /\ iq.st = "PAUSED" /\ pwire' = pwire
      BY <1>1, <1>2, <1>6, ReleaseFacts, PipeOnRelease DEF TypeOK
    <2>2. PauseOnItsWay'
      <3> SUFFICES ASSUME pwire # <<>>
                   PROVE  /\ Span(iq'.occ) <= Room
                          /\ \A i \in 1..n : Span(iq'.occ + i) <= Room + wire[i]
                          /\ sending => Span(iq'.occ + n + 1)
                                           <= Room + left + DataDelay
        BY <1>2, <2>1 DEF PauseOnItsWay, Room
      <3>1. /\ Span(iq.occ) <= Room
            /\ \A i \in 1..n : Span(iq.occ + i) <= Room + wire[i]
            /\ sending => Span(iq.occ + n + 1) <= Room + left + DataDelay
        BY <1>1, <2>1 DEF PauseOnItsWay
      <3>2. ASSUME NEW k \in Nat
            PROVE  /\ Span(iq'.occ + k) <= Span(iq.occ + k)
                   /\ Span(iq'.occ + k) \in Nat /\ Span(iq.occ + k) \in Nat
        <4>1. iq'.occ + k \in Nat /\ iq.occ + k \in Nat
              /\ iq'.occ + k <= iq.occ + k
          BY <1>3
        <4> QED  BY <4>1, SpanFacts
      <3>3. /\ Room \in Nat /\ left \in Nat /\ DataDelay \in Nat
            /\ \A i \in 1..n : wire[i] \in Nat /\ i \in Nat
        BY <1>1, LinkTypes
      <3>4. Span(iq'.occ) <= Room
        <4>1. iq.occ + 0 = iq.occ /\ iq'.occ + 0 = iq'.occ
          BY <1>3
        <4>2. Span(iq'.occ + 0) <= Span(iq.occ + 0)
              /\ Span(iq'.occ + 0) \in Nat /\ Span(iq.occ + 0) \in Nat
          BY <3>2
        <4> QED  BY <3>1, <3>3, <4>1, <4>2
      <3>5. ASSUME NEW i \in 1..n PROVE Span(iq'.occ + i) <= Room + wire[i]
        <4>1. Span(iq.occ + i) <= Room + wire[i] /\ wire[i] \in Nat /\ i \in Nat
          BY <3>1, <3>3
        <4>2. /\ Span(iq'.occ + i) <= Span(iq.occ + i)
              /\ Span(iq'.occ + i) \in Nat /\ Span(iq.occ + i) \in Nat
          BY <3>2, <4>1
        <4> QED  BY <3>3, <4>1, <4>2
      <3>6. sending => Span(iq'.occ + n + 1) <= Room + left + DataDelay
        <4>1. n + 1 \in Nat /\ iq.occ + (n + 1) = iq.occ + n + 1
              /\ iq'.occ + (n + 1) = iq'.occ + n + 1
          BY <1>3
        <4>2. Span(iq'.occ + (n + 1)) <= Span(iq.occ + (n + 1))
              /\ Span(iq'.occ + (n + 1)) \in Nat /\ Span(iq.occ + (n + 1)) \in Nat
          BY <3>2, <4>1
        <4> QED  BY <3>1, <3>3, <4>1, <4>2
      <3> QED  BY <3>4, <3>5, <3>6
    <2>3. PauseTaken'
      <3> SUFFICES ASSUME pwire = <<>>
                   PROVE  iq'.occ + n + (IF sending THEN 1 ELSE 0)
                            <= High + Headroom
        BY <1>2, <2>1 DEF PauseTaken, Headroom
      <3>1. iq.occ + n + (IF sending THEN 1 ELSE 0) <= High + Headroom
        BY <1>1, <2>1 DEF PauseTaken
      <3>2. High + Headroom \in Nat
        BY ThresholdAssumption, TimingAssumption DEF Headroom
      <3> QED  BY <1>3, <3>1, <3>2
    <2> QED  BY <1>4, <2>2, <2>3 DEF Budget
  <1> QED  BY <1>5, <1>6

(* Time takes from the ages what it adds to the room.                       *)
LEMMA TickBudget ==
    ASSUME IInv, Budget, Tick
    PROVE  Budget'
  <1> DEFINE n == Len(wire)
  <1>1. TypeOK /\ PipesOrdered /\ Spaced /\ PauseOnItsWay /\ PauseTaken
    BY DEF IInv, Budget
  <1>2. /\ Len(wire') = n /\ Len(pwire') = Len(pwire)
        /\ \A i \in 1..n : wire'[i] = wire[i] - 1
        /\ \A i \in 1..Len(pwire) : pwire'[i].age = pwire[i].age - 1
        /\ wire' \in Seq(Nat) /\ pwire' \in Seq(Signal)
    BY <1>1, TickPipes
  <1>3. /\ iq' = iq /\ sending' = sending
        /\ sending => left' = left - 1
    BY DEF Tick
  <1>4. /\ (wire' = <<>>) <=> (wire = <<>>)
        /\ (pwire' = <<>>) <=> (pwire = <<>>)
    BY <1>1, <1>2, LinkTypes, EmptySeq
  <1>5. Spaced'
    <2>1. ASSUME NEW i \in 1..n, NEW j \in 1..n, i < j
          PROVE  wire'[i] + Span(j - i) <= wire'[j]
      <3>1. wire[i] + Span(j - i) <= wire[j]
        BY <1>1, <2>1 DEF Spaced
      <3>2. j - i \in Nat
        BY <1>1, <2>1, LinkTypes
      <3>3. Span(j - i) \in Nat /\ wire[i] \in Nat /\ wire[j] \in Nat
        BY <1>1, <3>2, SpanFacts, PipeElements
      <3> QED  BY <1>2, <3>1, <3>3
    <2>2. sending /\ wire # <<>> => wire'[n] + Service <= left' + DataDelay
      <3>1. wire # <<>> => n \in 1..n /\ wire[n] \in Nat
        BY <1>1, LinkTypes
      <3>2. left \in Nat /\ DataDelay \in Nat /\ Service \in Nat
        BY <1>1, LinkTypes
      <3>3. sending /\ wire # <<>> => wire[n] + Service <= left + DataDelay
        BY <1>1 DEF Spaced
      <3> QED  BY <1>2, <1>3, <3>1, <3>2, <3>3
    <2> QED  BY <1>2, <1>3, <1>4, <2>1, <2>2 DEF Spaced
  <1>6. PauseOnItsWay'
    <2> SUFFICES ASSUME iq.st = "PAUSED", pwire # <<>>
                 PROVE  /\ Span(iq.occ) <= Room'
                        /\ \A i \in 1..n : Span(iq.occ + i) <= Room' + wire'[i]
                        /\ sending => Span(iq.occ + n + 1)
                                         <= Room' + left' + DataDelay
      BY <1>2, <1>3, <1>4 DEF PauseOnItsWay, Span
    <2>1. /\ Span(iq.occ) <= Room
          /\ \A i \in 1..n : Span(iq.occ + i) <= Room + wire[i]
          /\ sending => Span(iq.occ + n + 1) <= Room + left + DataDelay
      BY <1>1 DEF PauseOnItsWay
    <2>2. Room' = Room + 1 /\ Room \in Nat
      <3>1. /\ Len(pwire) \in 1..Len(pwire) /\ Room \in Nat
            /\ pwire[Len(pwire)].age \in Nat /\ PauseDelay \in Nat
        BY <1>1, LinkTypes
      <3>2. pwire'[Len(pwire')].age = pwire[Len(pwire)].age - 1
        BY <1>2, <3>1
      <3>3. Room' = Span(High + 1) + (PauseDelay - (pwire[Len(pwire)].age - 1))
        BY <3>2 DEF Room, Span
      <3>4. High + 1 \in Nat
        BY ThresholdAssumption
      <3>5. Span(High + 1) \in Nat
        BY <3>4, SpanFacts
      <3> QED  BY <3>1, <3>3, <3>5 DEF Room
    <2>3. /\ iq.occ \in Nat /\ n \in Nat /\ left \in Nat /\ DataDelay \in Nat
          /\ \A i \in 1..n : wire[i] \in Nat /\ i \in Nat
      BY <1>1, LinkTypes
    <2>4. ASSUME NEW k \in Nat PROVE Span(iq.occ + k) \in Nat
      <3>1. iq.occ + k \in Nat
        BY <2>3
      <3> QED  BY <3>1, SpanFacts
    <2>5. Span(iq.occ) <= Room'
      <3>1. Span(iq.occ) \in Nat
        BY <2>3, SpanFacts
      <3> QED  BY <2>1, <2>2, <3>1
    <2>6. ASSUME NEW i \in 1..n PROVE Span(iq.occ + i) <= Room' + wire'[i]
      <3>1. Span(iq.occ + i) <= Room + wire[i] /\ wire[i] \in Nat /\ i \in Nat
        BY <2>1, <2>3
      <3>2. wire'[i] = wire[i] - 1
        BY <1>2
      <3>3. Span(iq.occ + i) \in Nat
        BY <2>4, <3>1
      <3> QED  BY <2>2, <3>1, <3>2, <3>3
    <2>7. sending => Span(iq.occ + n + 1) <= Room' + left' + DataDelay
      <3>1. iq.occ + n + 1 \in Nat
        BY <2>3
      <3>2. Span(iq.occ + n + 1) \in Nat
        BY <3>1, SpanFacts
      <3> QED  BY <1>3, <2>1, <2>2, <2>3, <3>2
    <2> QED  BY <2>5, <2>6, <2>7
  <1>7. PauseTaken'
    BY <1>1, <1>2, <1>3, <1>4 DEF PauseTaken, Headroom
  <1> QED  BY <1>5, <1>6, <1>7 DEF Budget

-----------------------------------------------------------------------------
(* The theorem                                                              *)

LEMMA BudgetInit == Init => Budget
  <1> SUFFICES ASSUME Init PROVE Budget
    OBVIOUS
  <1>1. wire = <<>> /\ Len(wire) = 0 /\ iq.st = "READY"
    BY DEF Init, IngressInit
  <1> QED  BY <1>1 DEF Budget, Spaced, PauseOnItsWay, PauseTaken

LEMMA BudgetStep == IInv /\ Budget /\ [Next]_vars => Budget'
  <1> SUFFICES ASSUME IInv, Budget, [Next]_vars PROVE Budget'
    OBVIOUS
  <1>1. CASE UNCHANGED vars
    BY <1>1 DEF vars, Budget, Spaced, PauseOnItsWay, PauseTaken, Room, Span,
                Headroom
  <1> QED
    BY <1>1, EnqueueBudget, CompleteBudget, FrameBudget, ArrivalBudget,
       DrainBudget, TickBudget DEF Next

LEMMA BudgetBounds == IInv /\ Budget => BoundedOccupancy
  <1> SUFFICES ASSUME IInv, Budget PROVE BoundedOccupancy
    OBVIOUS
  <1> DEFINE q == (DataDelay + PauseDelay) \div Service
  <1>1. TypeOK /\ PipesOrdered /\ ThresholdsHold /\ PauseOnItsWay /\ PauseTaken
    BY DEF IInv, Budget
  <1>2. /\ iq.occ \in Nat /\ iq.st \in {"READY", "PAUSED"} /\ High \in Nat
        /\ Len(wire) \in Nat /\ DataDelay \in Nat /\ PauseDelay \in Nat
        /\ High + 1 \in Nat /\ DataDelay + PauseDelay \in Nat
    BY <1>1, LinkTypes
  <1>3. q \in Nat /\ Headroom = 2 + q
    BY <1>2, TimingAssumption DEF Headroom
  <1> HIDE DEF q
  <1>4. CASE iq.st = "READY"
    BY <1>1, <1>2, <1>3, <1>4 DEF ThresholdsHold, BoundedOccupancy
  <1>5. CASE iq.st = "PAUSED" /\ pwire = <<>>
    BY <1>1, <1>2, <1>3, <1>5 DEF PauseTaken, BoundedOccupancy
  <1>6. CASE iq.st = "PAUSED" /\ pwire # <<>>
    <2>1. Span(iq.occ) <= Room
      BY <1>1, <1>6 DEF PauseOnItsWay
    <2>2. /\ Len(pwire) \in 1..Len(pwire)
          /\ pwire[Len(pwire)].age \in Nat
          /\ pwire[Len(pwire)].age <= PauseDelay
      BY <1>1, <1>6, LinkTypes
    <2>3. Span(High + 1) \in Nat /\ Span(iq.occ) \in Nat
      BY <1>2, SpanFacts
    <2>4. Span(iq.occ) <= Span(High + 1) + (DataDelay + PauseDelay)
      BY <1>2, <2>1, <2>2, <2>3 DEF Room
    <2>5. iq.occ <= (High + 1) + q
      BY <1>2, <2>4, SpanFits DEF q
    <2> QED  BY <1>2, <1>3, <2>5 DEF BoundedOccupancy
  <1> QED  BY <1>2, <1>4, <1>5, <1>6

(* One hop is lossless: with a buffer of Headroom packets above the high    *)
(* threshold an ingress queue never overflows, whatever the two delays, the *)
(* service time, the thresholds, the load and the rate it drains at.        *)
THEOREM Lossless == Safety => []BoundedOccupancy
  BY IInvInit, IInvStep, BudgetInit, BudgetStep, BudgetBounds, PTL DEF Safety
=============================================================================
