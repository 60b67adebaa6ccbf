-------------------------------- MODULE Pfc --------------------------------
(***************************************************************************)
(* Per-port flow control of the simulator's lossless mode: the two pieces  *)
(* of bookkeeping every lossless link shares.                              *)
(*                                                                         *)
(* The receiving half is LosslessInputQueue (queue_lossless_input.cpp): a  *)
(* counter of the bytes that entered through this port and have not left   *)
(* the switch, and the READY / PAUSED state it last announced upstream.    *)
(* The sending half is the _state_send of the egress queue that the        *)
(* announcements stop and restart.  Packets of the modelled traffic all    *)
(* have one size (one MTU of payload and the header), so occupancy is      *)
(* counted in packets.                                                     *)
(***************************************************************************)
EXTENDS Naturals, Sequences

CONSTANTS
    High,   \* LosslessInputQueue::_high_threshold, in packets
    Low     \* LosslessInputQueue::_low_threshold, in packets

(* The constructor asserts High > 0 and High > Low; main_uec.cpp replaces  *)
(* a zero threshold by its default, so that Low is never zero either.      *)
ASSUME ThresholdAssumption ==
    /\ High \in Nat
    /\ Low \in Nat
    /\ 0 < Low
    /\ Low < High

Frame == {"PAUSE", "GO"}
SendState == {"READY", "PAUSE_RECEIVED", "PAUSED"}
IngressType == [occ : Nat, st : {"READY", "PAUSED"}]

IngressInit == [occ |-> 0, st |-> "READY"]

-----------------------------------------------------------------------------
(* receivePacket: charge the packet, and announce a pause the first time    *)
(* the occupancy is above the high threshold.  (Wrong variant:              *)
(* announced every time.)                                                   *)
CrossesHighAgain(iq) == iq.occ + 1 > High

CrossesHigh(iq) == iq.occ + 1 > High /\ iq.st # "PAUSED"

Charge(iq) ==
    [occ |-> iq.occ + 1, st |-> IF CrossesHigh(iq) THEN "PAUSED" ELSE iq.st]

FramesOnCharge(iq) == IF CrossesHigh(iq) THEN <<"PAUSE">> ELSE <<>>

(* release_bytes: take the packet off, and announce a restart when a paused *)
(* port falls below the low threshold.  (Wrong variants: the packet taken   *)
(* off twice; a restart never announced.)                                   *)
CrossesLow(iq) == iq.occ - 1 < Low /\ iq.st = "PAUSED"

ReleaseTwice(iq) ==
    [occ |-> iq.occ - 2, st |-> IF CrossesLow(iq) THEN "READY" ELSE iq.st]

Release(iq) ==
    [occ |-> iq.occ - 1, st |-> IF CrossesLow(iq) THEN "READY" ELSE iq.st]

FramesNever(iq) == <<>>

FramesOnRelease(iq) == IF CrossesLow(iq) THEN <<"GO">> ELSE <<>>

-----------------------------------------------------------------------------
(* The sender on a frame: a frame in flight finishes before the pause takes *)
(* hold, which is what PAUSE_RECEIVED remembers.  (Wrong variants: a pause  *)
(* lost on a busy sender, and one still remembered after the frame.)        *)
OnFrameBusy(f, sending) ==
    IF f = "GO" \/ sending THEN "READY" ELSE "PAUSED"

OnFrame(f, sending) ==
    IF f = "GO" THEN "READY" ELSE IF sending THEN "PAUSE_RECEIVED" ELSE "PAUSED"

AfterServiceSame(st) == st

AfterService(st) == IF st = "PAUSE_RECEIVED" THEN "PAUSED" ELSE st
=============================================================================
