-------------------------------- MODULE HdmiPhy --------------------------------
(***************************************************************************)
(* Bringing up the transmitter PHY: phy_cfg_t28hpc() and                    *)
(* hdmi_tx_t28hpc_power_config_seq() (API_AFE_t28hpc_hdmitx.c), called one  *)
(* after the other by init_hdmi() for every image, with four lanes, 8-bit   *)
(* RGB and the PHY as the source of the pixel clock.                        *)
(*                                                                         *)
(* A step is a stretch of code between two points where the PHY can react:  *)
(* the writes that hold it in reset, the writes of the settings, the        *)
(* release, and each polling loop.  afe_write() and afe_read() are taken as *)
(* done (module Mailbox shows what they rest on).  Registers hold the       *)
(* numbers written, so that a read-modify-write keeps what it keeps and the *)
(* PHY decodes what was really programmed; registers written with a         *)
(* constant that nothing here decodes are left out.                         *)
(*                                                                         *)
(* The PHY itself is external.  It acknowledges the macro power, becomes    *)
(* ready when its PLL locks, and acknowledges a power state, each in its    *)
(* own time; the reset clears all three at once.                            *)
(***************************************************************************)
EXTENDS PhyConfig

CONSTANTS
    PixelFreqs,     \* pixel clocks an image may ask for, in kHz
    StackValues,    \* what uninitialised locals may hold
    ResetValues     \* what registers may hold at power-on

ASSUME PhyAssumption ==
    /\ PixelFreqs \subseteq Nat \ {0}
    /\ StackValues \subseteq Nat
    /\ ResetValues \subseteq 0..2^16 - 1

VARIABLES
    pc,             \* where the driver is
    pixel_freq,     \* pixel_clock_frequency of the last call, 0 before it
    fields,         \* the locals of phy_cfg_t28hpc()
    regs,           \* the common registers
    lane,           \* the registers each lane has
    pwr_ack,        \* PHY_PMA_ISO_CMN_CTRL bit 5: cmn_macro_pwr_en_ack
    cmn_ready,      \* PHY_PMA_CMN_CTRL1 bit 0
    power_ack       \* PHY_HDP_MODE_CTL bits 7..4: the power state reached

driverVars == <<pc, pixel_freq, fields>>
registerVars == <<regs, lane>>
statusVars == <<pwr_ack, cmn_ready, power_ack>>
vars == <<driverVars, registerVars, statusVars>>

num_lanes == 4
Lanes == 0..num_lanes - 1
clk_ratio == ClkRatio("PXL_RGB", 8)

CommonRegisters ==
    {"PHY_PMA_ISO_CMN_CTRL", "PHY_PMA_CMN_CTRL1", "PHY_HDP_MODE_CTL",
     "CMN_DIAG_PLL0_INCLK_CTRL", "CMN_DIAG_PLL0_FBH_OVRD",
     "CMN_DIAG_PLL0_FBL_OVRD", "CMN_DIAG_PLL0_PXL_DIVL",
     "CMN_DIAG_PLL0_PXL_DIVH", "CMN_CDIAG_REFCLK_CTRL",
     "CMN_DIAG_HSCLK_SEL", "CMN_PLLSM0_USER_DEF_CTRL",
     "CMN_DIAG_PLL0_V2I_TUNE", "CMN_DIAG_PLL0_PTATIS_TUNE1",
     "CMN_DIAG_PLL0_PTATIS_TUNE2", "CMN_PLL0_VCOCAL_START",
     "CMN_DIAG_PLL0_CP_TUNE"}
LaneRegisters == {"TX_DIAG_TX_CTRL", "XCVR_DIAG_HSCLK_SEL", "XCVR_PSM_RCTRL"}

(* The settings of the PLL and of the serialisers.                         *)
TuningRegisters ==
    CommonRegisters \ {"PHY_PMA_ISO_CMN_CTRL", "PHY_PMA_CMN_CTRL1", "PHY_HDP_MODE_CTL"}

Bits(value, lsb, width) == (value \div 2^lsb) % 2^width

(* reg_val &= ~mask; reg_val |= v << lsb                                   *)
Put(value, lsb, width, v) == value + (v - Bits(value, lsb, width)) * 2^lsb

Value(f) == set_reg_value(f, fields)

-----------------------------------------------------------------------------
(* The driver.                                                             *)

Init ==
    /\ pc = "idle" /\ pixel_freq = 0
    /\ fields \in {Uninitialised(v) : v \in StackValues}
    /\ \E v \in ResetValues :
        /\ regs = [r \in CommonRegisters |->
                    IF r \in {"PHY_PMA_ISO_CMN_CTRL", "PHY_HDP_MODE_CTL"} THEN 0 ELSE v]
        /\ lane = [k \in Lanes |-> [r \in LaneRegisters |-> v]]
    /\ pwr_ack = FALSE /\ cmn_ready = FALSE /\ power_ack = "none"

(* The isolation reset left out.                                           *)
AssertReset_NoReset(freq) ==
    /\ pc = "idle"
    /\ pixel_freq' = freq
    /\ fields' \in {Uninitialised(v) : v \in StackValues}
    /\ pc' = "select_pll"
    /\ UNCHANGED <<registerVars, statusVars>>

(* The reset released again before the settings are written.               *)
AssertReset_Early(freq) ==
    /\ pc = "idle"
    /\ pixel_freq' = freq
    /\ fields' \in {Uninitialised(v) : v \in StackValues}
    /\ regs' = [regs EXCEPT !["PHY_PMA_ISO_CMN_CTRL"] = 3]
    /\ pwr_ack' = FALSE /\ cmn_ready' = FALSE /\ power_ack' = "none"
    /\ pc' = "select_pll"
    /\ UNCHANGED lane

(* phy_cfg_t28hpc() is entered and holds the PHY in reset, which stops all  *)
(* it was doing.                                                           *)
AssertReset(freq) ==
    /\ pc = "idle"
    /\ pixel_freq' = freq
    /\ fields' \in {Uninitialised(v) : v \in StackValues}
    /\ regs' = [regs EXCEPT !["PHY_PMA_ISO_CMN_CTRL"] = 0,
                            !["PHY_PMA_CMN_CTRL1"] = Put(@, 3, 1, 1)]
    /\ pwr_ack' = FALSE /\ cmn_ready' = FALSE /\ power_ack' = "none"
    /\ pc' = "select_pll"
    /\ UNCHANGED lane

(* The case of the clock and the ratio, then that of the VCO frequency its  *)
(* dividers make.                                                          *)
SelectPll ==
    /\ pc = "select_pll"
    /\ fields' = PllFields(fields, pixel_freq, clk_ratio[1], TRUE)
    /\ pc' = "select_vco"
    /\ UNCHANGED <<pixel_freq, registerVars, statusVars>>

SelectVco ==
    /\ pc = "select_vco"
    /\ fields' = VcoFields(fields, pixel_freq, TRUE)
    /\ pc' = "program"
    /\ UNCHANGED <<pixel_freq, registerVars, statusVars>>

ProgramDividers(r) ==
    [r EXCEPT
        !["CMN_DIAG_PLL0_INCLK_CTRL"] =
            Value("cmnda_pll0_ip_div") + Value("cmnda_pll0_hs_sym_div_sel"),
        !["CMN_DIAG_PLL0_FBH_OVRD"] = Value("cmnda_pll0_fb_div_high") + 2^15,
        !["CMN_DIAG_PLL0_FBL_OVRD"] = Value("cmnda_pll0_fb_div_low") + 2^15,
        !["CMN_DIAG_PLL0_PXL_DIVL"] = Value("cmnda_pll0_pxdiv_low"),
        !["CMN_DIAG_PLL0_PXL_DIVH"] = Value("cmnda_pll0_pxdiv_high") + 2^15,
        !["PHY_PMA_CMN_CTRL1"] = Put(@, 12, 2, fields.cmn_ref_clk_dig_div),
        !["CMN_CDIAG_REFCLK_CTRL"] =
            Put(Put(@, 12, 3, fields.divider_scaler), 6, 2, 3),
        !["CMN_DIAG_HSCLK_SEL"] =
            Put(Put(@, 0, 8, 0), 0, 8, (fields.cmnda_hs_clk_0_sel \div 2)
                                        + 16 * (fields.cmnda_hs_clk_1_sel \div 2)),
        !["CMN_PLLSM0_USER_DEF_CTRL"] = Value("vco_ring_select")]

ProgramAnalogue(r) ==
    [r EXCEPT
        !["CMN_DIAG_PLL0_V2I_TUNE"] =
            Value("voltage_to_current_coarse") + Value("voltage_to_current"),
        !["CMN_DIAG_PLL0_PTATIS_TUNE1"] = Value("pmos_ctrl") + Value("ndac_ctrl"),
        !["CMN_DIAG_PLL0_PTATIS_TUNE2"] = Value("ptat_ndac_ctrl"),
        !["CMN_PLL0_VCOCAL_START"] = Put(@, 0, 9, fields.vco_cal_code),
        !["CMN_DIAG_PLL0_CP_TUNE"] = Value("charge_pump_gain")]

(* tx_subrate.value << 6, the >> 1 forgotten.                              *)
ProgramLane_NoShift(l) ==
    [l EXCEPT
        !["TX_DIAG_TX_CTRL"] = Put(@, 6, 2, fields.tx_subrate % 4),
        !["XCVR_DIAG_HSCLK_SEL"] = Put(@, 12, 2, fields.cmnda_hs_clk_0_sel \div 2)]

ProgramLane(l) ==
    [l EXCEPT
        !["TX_DIAG_TX_CTRL"] = Put(@, 6, 2, fields.tx_subrate \div 2),
        !["XCVR_DIAG_HSCLK_SEL"] = Put(@, 12, 2, fields.cmnda_hs_clk_0_sel \div 2)]

ProgramPll ==
    /\ pc = "program"
    /\ regs' = [ProgramAnalogue(ProgramDividers(regs)) EXCEPT
                    !["PHY_PMA_CMN_CTRL1"] = Put(@, 4, 3, 0)]
    /\ lane' = [k \in Lanes |-> ProgramLane(lane[k])]
    /\ pc' = "release"
    /\ UNCHANGED <<pixel_freq, fields, statusVars>>

(* The macro power enable left out of the last write of the release.        *)
ReleaseReset_NoPower ==
    /\ pc = "release"
    /\ lane' = [k \in Lanes |-> [lane[k] EXCEPT !["XCVR_PSM_RCTRL"] = 65276]]
    /\ regs' = [regs EXCEPT !["PHY_PMA_ISO_CMN_CTRL"] = 3]
    /\ pc' = "wait_pwr_ack"
    /\ UNCHANGED <<pixel_freq, fields, statusVars>>

(* Out of reset, the lanes' power states enabled, the macro power asked for. *)
ReleaseReset ==
    /\ pc = "release"
    /\ lane' = [k \in Lanes |-> [lane[k] EXCEPT !["XCVR_PSM_RCTRL"] = 65276]]
    /\ regs' = [regs EXCEPT !["PHY_PMA_ISO_CMN_CTRL"] = 19]
    /\ pc' = "wait_pwr_ack"
    /\ UNCHANGED <<pixel_freq, fields, statusVars>>

(* while (!(read16(0xC810) & (1 << 5))) and while (!(read16(0xC800) & 1))   *)
SeePowerAck ==
    /\ pc = "wait_pwr_ack" /\ pwr_ack
    /\ pc' = "wait_ready"
    /\ UNCHANGED <<pixel_freq, fields, registerVars, statusVars>>

SeeReady ==
    /\ pc = "wait_ready" /\ cmn_ready
    /\ pc' = "mode"
    /\ UNCHANGED <<pixel_freq, fields, registerVars, statusVars>>

(* The rest of phy_cfg_t28hpc(): PHY_HDP_MODE_CTL asks for power state A2;  *)
(* then power_config_seq() starts.                                         *)
AskA2 ==
    /\ pc = "mode"
    /\ regs' = [regs EXCEPT !["PHY_HDP_MODE_CTL"] = 4]
    /\ pc' = "wait_A2"
    /\ UNCHANGED <<pixel_freq, fields, lane, statusVars>>

(* while (!(read16(0xC008) & (1 << 6))), then the lanes not in use are      *)
(* disabled and A0 is asked for.                                           *)
AskA0 ==
    /\ pc = "wait_A2" /\ power_ack = "A2"
    /\ regs' = [regs EXCEPT !["PHY_HDP_MODE_CTL"] =
                    Bits(15 * 2^num_lanes, 0, 4) * 2^12 + 257]
    /\ pc' = "wait_A0"
    /\ UNCHANGED <<pixel_freq, fields, lane, statusVars>>

SeeA0 ==
    /\ pc = "wait_A0" /\ power_ack = "A0"
    /\ pc' = "idle"
    /\ UNCHANGED <<pixel_freq, fields, registerVars, statusVars>>

Driver ==
    \/ \E freq \in PixelFreqs : AssertReset(freq)
    \/ SelectPll \/ SelectVco \/ ProgramPll \/ ReleaseReset \/ SeePowerAck \/ SeeReady
    \/ AskA2 \/ AskA0 \/ SeeA0

-----------------------------------------------------------------------------
(* The PHY, decoding its registers.                                        *)

InReset == Bits(regs["PHY_PMA_ISO_CMN_CTRL"], 0, 2) # 3

VcoFrequency ==
    LET ip == Bits(regs["CMN_DIAG_PLL0_INCLK_CTRL"], 0, 8)
        fb == Bits(regs["CMN_DIAG_PLL0_FBL_OVRD"], 0, 10)
                + Bits(regs["CMN_DIAG_PLL0_FBH_OVRD"], 0, 10) + 4
    IN IF ip = 0 THEN 0 ELSE (27000 * fb) \div ip

PixelClock ==
    VcoFrequency \div (Bits(regs["CMN_DIAG_PLL0_PXL_DIVL"], 0, 10)
                        + Bits(regs["CMN_DIAG_PLL0_PXL_DIVH"], 0, 10) + 4)

(* Ten bits a character, after the high-speed and the sub-rate divider.     *)
CharacterClock(k) ==
    VcoFrequency \div (10 * 2^Bits(lane[k]["XCVR_DIAG_HSCLK_SEL"], 12, 2)
                          * 2^Bits(lane[k]["TX_DIAG_TX_CTRL"], 6, 2))

(* The VCO locks in the range the tables of the driver span.               *)
Lockable == inside(VcoFrequency, 1700000, 6000000)

AckPower ==
    /\ ~pwr_ack /\ ~InReset /\ Bits(regs["PHY_PMA_ISO_CMN_CTRL"], 4, 1) = 1
    /\ pwr_ack' = TRUE
    /\ UNCHANGED <<driverVars, registerVars, cmn_ready, power_ack>>

LockPll ==
    /\ pwr_ack /\ ~cmn_ready /\ Lockable
    /\ cmn_ready' = TRUE
    /\ UNCHANGED <<driverVars, registerVars, pwr_ack, power_ack>>

PowerStateAsked ==
    CASE Bits(regs["PHY_HDP_MODE_CTL"], 0, 4) = 4 -> "A2"
      [] Bits(regs["PHY_HDP_MODE_CTL"], 0, 4) = 1 -> "A0"
      [] OTHER -> "none"

AckPowerState ==
    /\ cmn_ready /\ PowerStateAsked \notin {"none", power_ack}
    /\ power_ack' = PowerStateAsked
    /\ UNCHANGED <<driverVars, registerVars, pwr_ack, cmn_ready>>

Phy == AckPower \/ LockPll \/ AckPowerState

Next == Driver \/ Phy

Spec == Init /\ [][Next]_vars

(* The driver's steps all end (its loops only wait for the PHY), and so do  *)
(* the PHY's: it acknowledges what it is asked for.                         *)
Fairness ==
    /\ WF_vars(SelectPll \/ SelectVco \/ ProgramPll \/ ReleaseReset \/ SeePowerAck
               \/ SeeReady \/ AskA2 \/ AskA0 \/ SeeA0)
    /\ WF_vars(AckPower) /\ WF_vars(LockPll) /\ WF_vars(AckPowerState)

FairSpec == Spec /\ Fairness

-----------------------------------------------------------------------------
SupportedFreqs == {f \in PixelFreqs : Supported(f, clk_ratio[1], TRUE)}

(* The PLL and the serialisers are retuned only while the PHY is held in    *)
(* reset, whatever image came before (phy_reset_workaround,                *)
(* API_AFE_t28hpc_hdmitx.c 205-219 and 1676-1799).                         *)
RetunedInReset ==
    [][(\/ \E r \in TuningRegisters : regs'[r] # regs[r]
        \/ \E k \in Lanes, r \in {"TX_DIAG_TX_CTRL", "XCVR_DIAG_HSCLK_SEL"} :
                lane'[k][r] # lane[k][r])
        => InReset /\ InReset']_vars

(* When init_hdmi() goes on to the transmitter, the PHY is in A0 and really *)
(* delivers what the code believes: the pixel clock of this image and, on   *)
(* every lane, the character rate that phy_cfg_t28hpc() returned and        *)
(* Set_Mode is given, although every register was built from a table row by *)
(* field positions and most by read-modify-write over the last image's.     *)
ClocksAsReturned ==
    (pc = "idle" /\ pixel_freq \in SupportedFreqs) =>
        /\ cmn_ready /\ power_ack = "A0"
        /\ PixelClock = pixel_freq
        /\ \A k \in Lanes : CharacterClock(k) = character_freq_khz(pixel_freq, clk_ratio)

(* The pixel clock the rest of the driver sees: it runs in A0.             *)
ClockDelivered == IF cmn_ready /\ power_ack = "A0" THEN PixelClock ELSE 0

Abstract == INSTANCE ClockSource
    WITH Frequencies <- PixelFreqs, Known <- SupportedFreqs,
         wanted <- pixel_freq, clock <- ClockDelivered

(* The bring-up implements a clock that goes off when the next image asks   *)
(* for its frequency and then runs at that frequency only: no step of the   *)
(* re-tune lets the clock glide, and no stale ready or power-state bit, nor *)
(* the power state still asked for by the last image, lets the old one out. *)
ImplementsClockSource == Abstract!Spec

(* The four polling loops end for every clock the tables have: init_hdmi()  *)
(* is not stuck in the PHY.                                                *)
PollsEnd == (pixel_freq \in SupportedFreqs) ~> (pc = "idle")

=============================================================================
