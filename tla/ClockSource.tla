------------------------------ MODULE ClockSource ------------------------------
(***************************************************************************)
(* What the transmitter PHY promises the rest of the driver: a pixel clock  *)
(* that goes off the moment a new frequency is asked for, and runs at the   *)
(* frequency last asked for or not at all.  It never glides from one        *)
(* frequency to the next and never comes up at the old one.                 *)
(***************************************************************************)
EXTENDS Naturals

CONSTANTS
    Frequencies,    \* what may be asked for, in kHz
    Known           \* those the source has settings for

VARIABLES
    wanted,         \* the frequency last asked for, 0 before the first
    clock           \* the frequency delivered, 0 while the clock is off

Off == 0

Init == wanted = Off /\ clock = Off

Ask(f) == wanted' = f /\ clock' = Off

(* A frequency without settings leaves what comes out, if anything, open.   *)
Run ==
    /\ wanted # Off /\ clock = Off
    /\ clock' \in IF wanted \in Known THEN {wanted} ELSE Nat
    /\ UNCHANGED wanted

(* It may go off again before it has settled.                              *)
Pause == clock # Off /\ clock' = Off /\ UNCHANGED wanted

Next == (\E f \in Frequencies : Ask(f)) \/ Run \/ Pause

Spec == Init /\ [][Next]_<<wanted, clock>>

=============================================================================
