--------------------------------- MODULE MCPhy ---------------------------------
(***************************************************************************)
(* The PHY for TLC: either the driver brings it up for its images           *)
(* (HdmiPhy), or phy_cfg_t28hpc() computes for any arguments (PhySetup).     *)
(* The driver's clocks are those of vic_table and one the tables lack       *)
(* (25175 kHz, 640x480); the function is asked for every clock of the       *)
(* tables too, for every depth its switch names and one it does not name.   *)
(***************************************************************************)
EXTENDS HdmiPhy, PhySetup

MCPixelFreqs == {25175, 27000, 74250, 148500, 297000, 594000}
MCAskedFreqs == MCPixelFreqs \union {54000, 99000, 198000}
MCDepths == {6, 8, 10, 12, 16}
MCStackValues == {0, 1}
MCResetValues == {0, 65535}

VARIABLE part

EitherInit ==
    part \in {"driver", "function"} /\ Init /\ SetupInit /\ computed = fields

EitherNext ==
    \/ part = "driver" /\ Next /\ UNCHANGED <<part, setupVars>>
    \/ part = "function" /\ SetupNext /\ UNCHANGED <<part, vars>>

EitherSpec == EitherInit /\ [][EitherNext]_<<vars, part, setupVars>> /\ Fairness

=============================================================================
