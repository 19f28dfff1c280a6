---------------------------- MODULE RegisterService ----------------------------
(***************************************************************************)
(* What the HDMI driver expects of the calls of API_General.h: registers   *)
(* that are written and read one call at a time, and an echo.  The code    *)
(* that configures the transmitter is written against this.               *)
(***************************************************************************)
EXTENDS Integers, Sequences

CONSTANTS Addr, Val, Echoes

VARIABLES
    regs,       \* the registers as the driver's calls have left them
    response    \* what the last call returned

OK(value) == [status |-> "CDN_OK", value |-> value]

Init ==
    /\ regs \in [Addr -> Val]
    /\ response = OK(<<>>)

WriteRegister(a, v) ==
    /\ regs' = [regs EXCEPT ![a] = v]
    /\ response' = OK(<<>>)

ReadRegister(a) ==
    /\ response' = OK(<<a, regs[a]>>)
    /\ UNCHANGED regs

Echo(msg) ==
    /\ response' = OK(msg)
    /\ UNCHANGED regs

Next ==
    \/ \E a \in Addr, v \in Val : WriteRegister(a, v)
    \/ \E a \in Addr : ReadRegister(a)
    \/ \E msg \in Echoes : Echo(msg)

Spec == Init /\ [][Next]_<<regs, response>>

=============================================================================
