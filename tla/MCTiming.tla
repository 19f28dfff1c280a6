-------------------------------- MODULE MCTiming --------------------------------
(***************************************************************************)
(* The system counter's users for TLC: the calls of timer.c (SystemTimer),  *)
(* or the check of the firmware (KeepAlive), which one PD never makes at a   *)
(* time.  The word has 24 values, so that loads, delays and checks start at  *)
(* every distance from the wrap of the lower half and from the change of    *)
(* sign of the int.  A check takes two looks, two ticks apart, at a counter *)
(* of the firmware that may come round meanwhile; the PD may miss a tick.   *)
(***************************************************************************)
EXTENDS FirmwareCheck

MCDelays == {-1, 0, 1, 3}
MCNoDelay == -1

VARIABLE part

ASSUME CheckAssumption == Check!ConstantsFit

callVars == <<pc, ret, getTicks, frame_delay, in_frame, timerUse, msDelay, timed>>
all == <<vars, part, checkVars>>

EitherInit == part \in {"calls", "check"} /\ Init /\ Check!Init

CallTick == part = "calls" /\ Tick /\ UNCHANGED <<part, checkVars>>
CallPD == part = "calls" /\ PD /\ UNCHANGED <<part, checkVars>>
CheckTick == part = "check" /\ Check!Tick /\ UNCHANGED <<part, callVars>>
CheckFirmware == part = "check" /\ Check!FirmwareMoves /\ UNCHANGED <<part, callVars>>
CheckPD == part = "check" /\ Check!PD /\ UNCHANGED <<part, callVars>>

EitherSpec ==
    /\ EitherInit /\ [][CallTick \/ CallPD \/ CheckTick \/ CheckFirmware \/ CheckPD]_all
    /\ WF_all(CheckTick) /\ WF_all(CheckPD)

(* The calls alone, with SystemTimer's fairness.                            *)
CallsSpec ==
    /\ EitherInit /\ part = "calls" /\ [][CallTick \/ CallPD]_all
    /\ WF_all(CallTick) /\ WF_all(CallPD)

(* KeepAlive's: short of a wrap of the counter, a check ends.               *)
CheckEnds == Check!CheckEnds

=============================================================================
