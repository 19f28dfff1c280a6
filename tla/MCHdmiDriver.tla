----------------------------- MODULE MCHdmiDriver -----------------------------
(***************************************************************************)
(* HdmiDriver for TLC.  The PD priorities are those of sel4-hdmi.system;    *)
(* MAX_FRAME_COUNT is small, and enough for both contexts to come round    *)
(* twice after the pre-written frame.                                      *)
(***************************************************************************)
EXTENDS HdmiDriverInv
=============================================================================
