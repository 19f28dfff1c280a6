------------------------------ MODULE HdmiPhyProofs ------------------------------
(***************************************************************************)
(* The PHY, in two parts.  Its tables: for every clock, ratio and source    *)
(* they have a case for, the rows are found, fit their fields and agree,    *)
(* whatever the stack held (PhySetup).  And its bring-up, for every set of  *)
(* pixel clocks asked for, whatever the stack and the registers held: a     *)
(* re-tune happens in reset, and then the clocks are those of the image and *)
(* no others (HdmiPhy).                                                     *)
(***************************************************************************)
EXTENDS HdmiPhy, PhySetup, TLAPS

-----------------------------------------------------------------------------
(* The inductive invariant.                                                *)

Points ==
    {"idle", "select_pll", "select_vco", "program", "release", "wait_pwr_ack",
     "wait_ready", "mode", "wait_A2", "wait_A0"}

(* What the PHY decodes of the driver's locals and of the registers.       *)
ClockFields ==
    {"cmnda_pll0_ip_div", "cmnda_pll0_hs_sym_div_sel", "cmnda_pll0_fb_div_low",
     "cmnda_pll0_fb_div_high", "cmnda_pll0_pxdiv_low", "cmnda_pll0_pxdiv_high",
     "cmnda_hs_clk_0_sel", "tx_subrate"}
DividerRegisters ==
    {"CMN_DIAG_PLL0_INCLK_CTRL", "CMN_DIAG_PLL0_FBH_OVRD", "CMN_DIAG_PLL0_FBL_OVRD",
     "CMN_DIAG_PLL0_PXL_DIVL", "CMN_DIAG_PLL0_PXL_DIVH"}
SerialiserRegisters == {"TX_DIAG_TX_CTRL", "XCVR_DIAG_HSCLK_SEL"}

Types ==
    /\ pc \in Points /\ pixel_freq \in PixelFreqs \union {0}
    /\ pixel_freq = 0 => pc = "idle"
    /\ \A f \in ClockFields : fields[f] \in Nat
    /\ DOMAIN regs = CommonRegisters /\ \A r \in DividerRegisters : regs[r] \in Int
    /\ DOMAIN lane = Lanes
    /\ \A k \in Lanes : DOMAIN lane[k] = LaneRegisters
                        /\ \A r \in SerialiserRegisters : lane[k][r] \in Int
    /\ pwr_ack \in BOOLEAN /\ cmn_ready \in BOOLEAN /\ power_ack \in {"none", "A2", "A0"}

(* A setting of the dividers that makes the pixel clock f from 27 MHz, and  *)
(* on the lanes the ten bits of a character.                               *)
Divides(s, f) ==
    LET fb == s["cmnda_pll0_fb_div_low"] + s["cmnda_pll0_fb_div_high"] + 4
        px == s["cmnda_pll0_pxdiv_low"] + s["cmnda_pll0_pxdiv_high"] + 4
    IN /\ s["cmnda_pll0_ip_div"] \in 1 .. 255 /\ s["cmnda_pll0_hs_sym_div_sel"] \in 0 .. 3
       /\ s["cmnda_pll0_fb_div_low"] \in 0 .. 1023 /\ s["cmnda_pll0_fb_div_high"] \in 0 .. 1023
       /\ s["cmnda_pll0_pxdiv_low"] \in 0 .. 1023 /\ s["cmnda_pll0_pxdiv_high"] \in 0 .. 1023
       /\ s["cmnda_hs_clk_0_sel"] \in 0 .. 3 /\ s["tx_subrate"] \in 0 .. 7
       /\ (27000 * fb) \div s["cmnda_pll0_ip_div"] = px * f
       /\ px = 10 * 2^(s["cmnda_hs_clk_0_sel"] \div 2) * 2^(s["tx_subrate"] \div 2)

Tuned ==
    /\ PixelClock = pixel_freq
    /\ \A k \in Lanes : CharacterClock(k) = character_freq_khz(pixel_freq, clk_ratio)

(* A frequency with a case in the tables is the one its fields make, from   *)
(* when they are chosen, and the one the registers make, from when they     *)
(* are written.                                                            *)
Settings ==
    pixel_freq \in SupportedFreqs =>
        /\ pc \in {"select_vco", "program"} => Divides(fields, pixel_freq)
        /\ pc \notin {"select_pll", "select_vco", "program"} => Tuned

(* From its reset to its release, and before the first image, the PHY is    *)
(* held and gives no sign of life.                                         *)
Held ==
    pc \in {"select_pll", "select_vco", "program", "release"} \/ pixel_freq = 0 =>
        regs["PHY_PMA_ISO_CMN_CTRL"] = 0 /\ ~pwr_ack /\ ~cmn_ready

(* What a polling loop has waited for still holds after it.                 *)
Waited ==
    /\ ~cmn_ready => power_ack = "none"
    /\ pc \in {"mode", "wait_A2", "wait_A0"} \/ (pc = "idle" /\ pixel_freq # 0) => cmn_ready
    /\ pc = "wait_A0" \/ (pc = "idle" /\ pixel_freq # 0) => regs["PHY_HDP_MODE_CTL"] = 257
    /\ pc = "idle" /\ pixel_freq # 0 => power_ack = "A0"

PhyInv == Types /\ Settings /\ Held /\ Waited

-----------------------------------------------------------------------------
(* The tables.                                                             *)

LEMMA Ratio == clk_ratio = <<"1_1", 1, 1>>
  <1>1. "PXL_RGB" # "YCBCR_4_2_2" /\ "PXL_RGB" # "YCBCR_4_2_0" OBVIOUS
  <1>2. 8 # 10 /\ 8 # 12 /\ 8 # 16 OBVIOUS
  <1> QED BY <1>1, <1>2, Zenon DEF clk_ratio, ClkRatio

(* What is found in a switch.                                              *)
LEMMA CaseOfIn ==
  ASSUME NEW cases, NEW x, NEW y
  PROVE  y \in CaseOf(cases, x) <=> \E c \in cases : c[1] = x /\ c[2] = y
  BY DEF CaseOf

(* The frequencies of the outer switch.                                    *)
LEMMA OuterCase ==
  /\ CaseOf(OutputTable, 27000) = {Output27000}
  /\ CaseOf(OutputTable, 54000) = {Output54000}
  /\ CaseOf(OutputTable, 74250) = {Output74250}
  /\ CaseOf(OutputTable, 99000) = {Output99000}
  /\ CaseOf(OutputTable, 148500) = {Output148500}
  /\ CaseOf(OutputTable, 198000) = {Output198000}
  /\ CaseOf(OutputTable, 297000) = {Output297000}
  /\ CaseOf(OutputTable, 594000) = {Output594000}
  <1> DEFINE p1 == <<27000, Output27000>>
             p2 == <<54000, Output54000>>
             p3 == <<74250, Output74250>>
             p4 == <<99000, Output99000>>
             p5 == <<148500, Output148500>>
             p6 == <<198000, Output198000>>
             p7 == <<297000, Output297000>>
             p8 == <<594000, Output594000>>
  <1>1. /\ p1[1] = 27000 /\ p1[2] = Output27000
        /\ p2[1] = 54000 /\ p2[2] = Output54000
        /\ p3[1] = 74250 /\ p3[2] = Output74250
        /\ p4[1] = 99000 /\ p4[2] = Output99000
        /\ p5[1] = 148500 /\ p5[2] = Output148500
        /\ p6[1] = 198000 /\ p6[2] = Output198000
        /\ p7[1] = 297000 /\ p7[2] = Output297000
        /\ p8[1] = 594000 /\ p8[2] = Output594000
    OBVIOUS
  <1>2. OutputTable = {p1, p2, p3, p4, p5, p6, p7, p8} BY DEF OutputTable
  <1> HIDE DEF p1, p2, p3, p4, p5, p6, p7, p8
  <1>3. CaseOf(OutputTable, 27000) = {Output27000}
    <2>1. ASSUME NEW y PROVE y \in CaseOf(OutputTable, 27000) <=> y = Output27000 BY <1>1, <1>2, CaseOfIn
    <2> QED BY <2>1
  <1>4. CaseOf(OutputTable, 54000) = {Output54000}
    <2>1. ASSUME NEW y PROVE y \in CaseOf(OutputTable, 54000) <=> y = Output54000 BY <1>1, <1>2, CaseOfIn
    <2> QED BY <2>1
  <1>5. CaseOf(OutputTable, 74250) = {Output74250}
    <2>1. ASSUME NEW y PROVE y \in CaseOf(OutputTable, 74250) <=> y = Output74250 BY <1>1, <1>2, CaseOfIn
    <2> QED BY <2>1
  <1>6. CaseOf(OutputTable, 99000) = {Output99000}
    <2>1. ASSUME NEW y PROVE y \in CaseOf(OutputTable, 99000) <=> y = Output99000 BY <1>1, <1>2, CaseOfIn
    <2> QED BY <2>1
  <1>7. CaseOf(OutputTable, 148500) = {Output148500}
    <2>1. ASSUME NEW y PROVE y \in CaseOf(OutputTable, 148500) <=> y = Output148500 BY <1>1, <1>2, CaseOfIn
    <2> QED BY <2>1
  <1>8. CaseOf(OutputTable, 198000) = {Output198000}
    <2>1. ASSUME NEW y PROVE y \in CaseOf(OutputTable, 198000) <=> y = Output198000 BY <1>1, <1>2, CaseOfIn
    <2> QED BY <2>1
  <1>9. CaseOf(OutputTable, 297000) = {Output297000}
    <2>1. ASSUME NEW y PROVE y \in CaseOf(OutputTable, 297000) <=> y = Output297000 BY <1>1, <1>2, CaseOfIn
    <2> QED BY <2>1
  <1>10. CaseOf(OutputTable, 594000) = {Output594000}
    <2>1. ASSUME NEW y PROVE y \in CaseOf(OutputTable, 594000) <=> y = Output594000 BY <1>1, <1>2, CaseOfIn
    <2> QED BY <2>1
  <1> QED BY <1>3, <1>4, <1>5, <1>6, <1>7, <1>8, <1>9, <1>10

LEMMA OuterCases ==
  ASSUME NEW f, CaseOf(OutputTable, f) # {}
  PROVE  f \in {27000, 54000, 74250, 99000, 148500, 198000, 297000, 594000}
  <1> DEFINE p1 == <<27000, Output27000>>
             p2 == <<54000, Output54000>>
             p3 == <<74250, Output74250>>
             p4 == <<99000, Output99000>>
             p5 == <<148500, Output148500>>
             p6 == <<198000, Output198000>>
             p7 == <<297000, Output297000>>
             p8 == <<594000, Output594000>>
  <1>1. /\ p1[1] = 27000 /\ p1[2] = Output27000
        /\ p2[1] = 54000 /\ p2[2] = Output54000
        /\ p3[1] = 74250 /\ p3[2] = Output74250
        /\ p4[1] = 99000 /\ p4[2] = Output99000
        /\ p5[1] = 148500 /\ p5[2] = Output148500
        /\ p6[1] = 198000 /\ p6[2] = Output198000
        /\ p7[1] = 297000 /\ p7[2] = Output297000
        /\ p8[1] = 594000 /\ p8[2] = Output594000
    OBVIOUS
  <1>2. OutputTable = {p1, p2, p3, p4, p5, p6, p7, p8} BY DEF OutputTable
  <1> HIDE DEF p1, p2, p3, p4, p5, p6, p7, p8
  <1>3. PICK y : y \in CaseOf(OutputTable, f) OBVIOUS
  <1> QED BY <1>1, <1>2, <1>3, CaseOfIn

(* Powers of two, as literals.                                             *)
LEMMA Powers ==
  /\ 2^0 = 1 /\ 2^1 = 2 /\ 2^2 = 4 /\ 2^3 = 8 /\ 2^4 = 16 /\ 2^5 = 32 /\ 2^6 = 64
  /\ 2^7 = 128 /\ 2^8 = 256 /\ 2^9 = 512 /\ 2^10 = 1024 /\ 2^12 = 4096 /\ 2^15 = 32768
  BY SMT

(* Division undoes a multiplication.                                       *)
LEMMA DivideProduct ==
  ASSUME NEW m \in Nat \ {0}, NEW f \in Nat
  PROVE  (m * f) \div m = f
  <1> DEFINE q == (m * f) \div m
             d == (m * f) % m
  <1>1. q \in Int /\ d \in 0 .. m - 1 /\ m * f = m * q + d OBVIOUS
  <1> HIDE DEF q, d
  <1>2. m * (f - q) = d BY <1>1
  <1>3. CASE f > q
    <2>1. m * (f - q) >= m BY <1>1, <1>3
    <2> QED BY <1>1, <1>2, <2>1
  <1>4. CASE f < q
    <2>1. m * (f - q) <= -m BY <1>1, <1>4
    <2> QED BY <1>1, <1>2, <2>1
  <1> QED BY <1>1, <1>3, <1>4 DEF q

-----------------------------------------------------------------------------
(* The rows of the PLL.  A ratio has its own numerator and denominator, a   *)
(* value fits its field, and the numbers of a row agree with each other.    *)

IsRatio(t) ==
    /\ t[1] = "1_1" => t[2] = 1 /\ t[3] = 1
    /\ t[1] = "1_2" => t[2] = 1 /\ t[3] = 2
    /\ t[1] = "5_8" => t[2] = 5 /\ t[3] = 8
    /\ t[1] = "3_4" => t[2] = 3 /\ t[3] = 4
    /\ t[1] = "5_4" => t[2] = 5 /\ t[3] = 4
    /\ t[1] = "3_2" => t[2] = 3 /\ t[3] = 2
    /\ t[1] = "2_1" => t[2] = 2 /\ t[3] = 1

(* The largest value that fits each field.                                 *)
Largest ==
    [cmnda_pll0_hs_sym_div_sel |-> 3, cmnda_pll0_ip_div |-> 255,
     cmnda_pll0_fb_div_low |-> 1023, cmnda_pll0_fb_div_high |-> 1023,
     cmn_ref_clk_dig_div |-> 3, divider_scaler |-> 7,
     cmnda_hs_clk_0_sel |-> 3, cmnda_hs_clk_1_sel |-> 3,
     tx_subrate |-> 7, voltage_to_current_coarse |-> 7,
     voltage_to_current |-> 3, ndac_ctrl |-> 15,
     pmos_ctrl |-> 255, ptat_ndac_ctrl |-> 63,
     charge_pump_gain |-> 511, vco_ring_select |-> 1,
     pll_feedback_divider_total |-> 1023,
     cmnda_pll0_pxdiv_high |-> 1023, cmnda_pll0_pxdiv_low |-> 1023,
     coarse_code |-> 255, v2i_code |-> 15, vco_cal_code |-> 511]

InputFields ==
    {"cmnda_pll0_ip_div", "cmn_ref_clk_dig_div", "divider_scaler",
     "pll_feedback_divider_total", "cmnda_pll0_fb_div_low", "vco_ring_select",
     "cmnda_hs_clk_0_sel", "cmnda_hs_clk_1_sel", "tx_subrate",
     "cmnda_pll0_hs_sym_div_sel"}
OutputFields ==
    InputFields \union
    {"cmnda_pll0_fb_div_high", "cmnda_pll0_pxdiv_low", "cmnda_pll0_pxdiv_high"}

(* The frequencies of the VCO that have a row, and a gain for the divider.  *)
OutputVcoKnown(fb, vco) ==
    \/ vco \in {1980000, 2160000, 2475000, 2970000, 3712500, 3960000, 4320000,
                4950000, 5940000}
    \/ vco = 2700000 /\ fb \in {300, 400}
    \/ vco = 3240000 /\ fb \in {360, 480}
    \/ vco = 4455000 /\ fb \in {495, 660}

OutputSound(ip, fb, fbl, fbh, pxl, pxh, ring, hs, sub, sym, f, t) ==
    LET vco == (27000 * fb) \div ip
    IN /\ ip \in 1 .. 255 /\ fb \in 0 .. 1023 /\ fbl \in 0 .. 1023 /\ fbh \in 0 .. 1023
       /\ pxl \in 0 .. 1023 /\ pxh \in 0 .. 1023 /\ ring \in 0 .. 1
       /\ hs \in 0 .. 3 /\ sub \in 0 .. 7 /\ sym \in 0 .. 3
       /\ fb = fbl + fbh + 4
       /\ vco * t[3] = 10 * 2^sym * f * t[2]
       /\ 2^sym = 2^(hs \div 2) * 2^(sub \div 2)
       /\ t[1] \notin {"5_8", "3_4"} => vco = (pxl + pxh + 4) * f
       /\ OutputVcoKnown(fb, vco)

SoundOutput(r, f, t) ==
    /\ DOMAIN r = OutputFields /\ \A x \in OutputFields : r[x] \in 0 .. Largest[x]
    /\ OutputSound(r["cmnda_pll0_ip_div"], r["pll_feedback_divider_total"],
                   r["cmnda_pll0_fb_div_low"], r["cmnda_pll0_fb_div_high"],
                   r["cmnda_pll0_pxdiv_low"], r["cmnda_pll0_pxdiv_high"],
                   r["vco_ring_select"], r["cmnda_hs_clk_0_sel"], r["tx_subrate"],
                   r["cmnda_pll0_hs_sym_div_sel"], f, t)

(* What a sound row says, a part at a time.                                *)
LEMMA OutputAgrees ==
  ASSUME NEW ip, NEW fb, NEW fbl, NEW fbh, NEW pxl, NEW pxh, NEW ring, NEW hs, NEW sub, NEW sym,
         NEW f, NEW t,
         OutputSound(ip, fb, fbl, fbh, pxl, pxh, ring, hs, sub, sym, f, t)
  PROVE  /\ ip \in 1 .. 255 /\ ip # 0
         /\ fbl + fbh + 4 = fb
         /\ ((27000 * fb) \div ip) * t[3] = 10 * 2^sym * f * t[2]
         /\ 2^sym = 2^(hs \div 2) * 2^(sub \div 2)
         /\ t[1] \notin {"5_8", "3_4"} => (27000 * fb) \div ip = (pxl + pxh + 4) * f
         /\ OutputVcoKnown(fb, (27000 * fb) \div ip)
  <1>1. ip \in 1 .. 255 BY DEF OutputSound
  <1>2. ip # 0 BY <1>1
  <1>3. /\ fbl + fbh + 4 = fb
        /\ ((27000 * fb) \div ip) * t[3] = 10 * 2^sym * f * t[2]
        /\ 2^sym = 2^(hs \div 2) * 2^(sub \div 2)
        /\ t[1] \notin {"5_8", "3_4"} => (27000 * fb) \div ip = (pxl + pxh + 4) * f
        /\ OutputVcoKnown(fb, (27000 * fb) \div ip)
    BY DEF OutputSound
  <1> QED BY <1>1, <1>2, <1>3

LEMMA LargestValues ==
  /\ Largest["cmnda_pll0_hs_sym_div_sel"] = 3 /\ Largest["cmnda_pll0_ip_div"] = 255
  /\ Largest["cmnda_pll0_fb_div_low"] = 1023 /\ Largest["cmnda_pll0_fb_div_high"] = 1023
  /\ Largest["cmn_ref_clk_dig_div"] = 3 /\ Largest["divider_scaler"] = 7
  /\ Largest["cmnda_hs_clk_0_sel"] = 3 /\ Largest["cmnda_hs_clk_1_sel"] = 3
  /\ Largest["tx_subrate"] = 7 /\ Largest["vco_ring_select"] = 1
  /\ Largest["pll_feedback_divider_total"] = 1023
  /\ Largest["cmnda_pll0_pxdiv_high"] = 1023 /\ Largest["cmnda_pll0_pxdiv_low"] = 1023
  BY DEF Largest

LEMMA Halves == 1 \div 2 = 0 /\ 2 \div 2 = 1 /\ 4 \div 2 = 2
  OBVIOUS

LEMMA OutputRowSound ==
  ASSUME NEW ip, NEW fb, NEW fbl, NEW fbh, NEW pxl, NEW pxh, NEW ring, NEW hs, NEW sub, NEW sym,
         NEW f, NEW t,
         OutputSound(ip, fb, fbl, fbh, pxl, pxh, ring, hs, sub, sym, f, t)
  PROVE  SoundOutput(OutputRow(ip, fb, fbl, fbh, pxl, pxh, ring, hs, sub, sym), f, t)
  <1> DEFINE r == OutputRow(ip, fb, fbl, fbh, pxl, pxh, ring, hs, sub, sym)
  <1>1. DOMAIN r = OutputFields BY DEF OutputRow, OutputFields, InputFields
  <1>2. /\ r["cmnda_pll0_ip_div"] = ip /\ r["pll_feedback_divider_total"] = fb
        /\ r["cmnda_pll0_fb_div_low"] = fbl /\ r["cmnda_pll0_fb_div_high"] = fbh
        /\ r["cmnda_pll0_pxdiv_low"] = pxl /\ r["cmnda_pll0_pxdiv_high"] = pxh
        /\ r["vco_ring_select"] = ring /\ r["cmnda_hs_clk_0_sel"] = hs
        /\ r["cmnda_hs_clk_1_sel"] = hs /\ r["tx_subrate"] = sub
        /\ r["cmnda_pll0_hs_sym_div_sel"] = sym
        /\ r["cmn_ref_clk_dig_div"] = 1 /\ r["divider_scaler"] = 1
    BY DEF OutputRow
  <1> HIDE DEF r
  <1>3. /\ ip \in 0 .. 255 /\ fb \in 0 .. 1023 /\ fbl \in 0 .. 1023 /\ fbh \in 0 .. 1023
        /\ pxl \in 0 .. 1023 /\ pxh \in 0 .. 1023 /\ ring \in 0 .. 1
        /\ hs \in 0 .. 3 /\ sub \in 0 .. 7 /\ sym \in 0 .. 3 /\ 1 \in 0 .. 3 /\ 1 \in 0 .. 7
    BY DEF OutputSound
  <1>4. \A x \in OutputFields : r[x] \in 0 .. Largest[x]
    <2>1. /\ r["cmnda_pll0_ip_div"] \in 0 .. Largest["cmnda_pll0_ip_div"]
          /\ r["pll_feedback_divider_total"] \in 0 .. Largest["pll_feedback_divider_total"]
          /\ r["cmnda_pll0_fb_div_low"] \in 0 .. Largest["cmnda_pll0_fb_div_low"]
          /\ r["cmnda_pll0_fb_div_high"] \in 0 .. Largest["cmnda_pll0_fb_div_high"]
          /\ r["cmnda_pll0_pxdiv_low"] \in 0 .. Largest["cmnda_pll0_pxdiv_low"]
          /\ r["cmnda_pll0_pxdiv_high"] \in 0 .. Largest["cmnda_pll0_pxdiv_high"]
      BY <1>2, <1>3, LargestValues
    <2>2. /\ r["vco_ring_select"] \in 0 .. Largest["vco_ring_select"]
          /\ r["cmnda_hs_clk_0_sel"] \in 0 .. Largest["cmnda_hs_clk_0_sel"]
          /\ r["cmnda_hs_clk_1_sel"] \in 0 .. Largest["cmnda_hs_clk_1_sel"]
          /\ r["tx_subrate"] \in 0 .. Largest["tx_subrate"]
          /\ r["cmnda_pll0_hs_sym_div_sel"] \in 0 .. Largest["cmnda_pll0_hs_sym_div_sel"]
          /\ r["cmn_ref_clk_dig_div"] \in 0 .. Largest["cmn_ref_clk_dig_div"]
          /\ r["divider_scaler"] \in 0 .. Largest["divider_scaler"]
      BY <1>2, <1>3, LargestValues
    <2> QED BY <2>1, <2>2, Zenon DEF OutputFields, InputFields
  <1>5. OutputSound(r["cmnda_pll0_ip_div"], r["pll_feedback_divider_total"],
                    r["cmnda_pll0_fb_div_low"], r["cmnda_pll0_fb_div_high"],
                    r["cmnda_pll0_pxdiv_low"], r["cmnda_pll0_pxdiv_high"],
                    r["vco_ring_select"], r["cmnda_hs_clk_0_sel"], r["tx_subrate"],
                    r["cmnda_pll0_hs_sym_div_sel"], f, t)
    BY <1>2, Zenon
  <1>6. SoundOutput(r, f, t) BY <1>1, <1>4, <1>5, Zenon DEF SoundOutput
  <1> QED BY <1>6 DEF r

LEMMA Output27000Rows ==
  ASSUME NEW c \in Output27000, NEW t, IsRatio(t), t[1] = c[1]
  PROVE  SoundOutput(c[2], 27000, t) /\ \A d \in Output27000 : d[1] = c[1] => d[2] = c[2]
  <1> DEFINE p1 == <<"1_1", OutputRow(3, 240, 188, 48, 38, 38, 0, 2, 4, 3)>>
             p2 == <<"5_4", OutputRow(3, 300, 236, 60, 48, 48, 0, 2, 4, 3)>>
             p3 == <<"3_2", OutputRow(3, 360, 284, 72, 58, 58, 0, 2, 4, 3)>>
             p4 == <<"2_1", OutputRow(3, 240, 188, 48, 38, 38, 0, 2, 2, 2)>>
  <1>1. /\ p1[1] = "1_1" /\ p1[2] = OutputRow(3, 240, 188, 48, 38, 38, 0, 2, 4, 3)
        /\ p2[1] = "5_4" /\ p2[2] = OutputRow(3, 300, 236, 60, 48, 48, 0, 2, 4, 3)
        /\ p3[1] = "3_2" /\ p3[2] = OutputRow(3, 360, 284, 72, 58, 58, 0, 2, 4, 3)
        /\ p4[1] = "2_1" /\ p4[2] = OutputRow(3, 240, 188, 48, 38, 38, 0, 2, 2, 2)
    OBVIOUS
  <1>2. Output27000 = {p1, p2, p3, p4} BY DEF Output27000
  <1> HIDE DEF p1, p2, p3, p4
  <1>3. CASE c = p1
    <2>1. t[2] = 1 /\ t[3] = 1 BY <1>1, <1>3 DEF IsRatio
    <2>2. OutputSound(3, 240, 188, 48, 38, 38, 0, 2, 4, 3, 27000, t)
      BY <1>1, <1>3, <2>1, Powers, Halves DEF OutputSound, OutputVcoKnown
    <2>3. SoundOutput(c[2], 27000, t) BY <1>1, <1>3, <2>2, OutputRowSound
    <2> QED BY <1>1, <1>2, <1>3, <2>3
  <1>4. CASE c = p2
    <2>1. t[2] = 5 /\ t[3] = 4 BY <1>1, <1>4 DEF IsRatio
    <2>2. OutputSound(3, 300, 236, 60, 48, 48, 0, 2, 4, 3, 27000, t)
      BY <1>1, <1>4, <2>1, Powers, Halves DEF OutputSound, OutputVcoKnown
    <2>3. SoundOutput(c[2], 27000, t) BY <1>1, <1>4, <2>2, OutputRowSound
    <2> QED BY <1>1, <1>2, <1>4, <2>3
  <1>5. CASE c = p3
    <2>1. t[2] = 3 /\ t[3] = 2 BY <1>1, <1>5 DEF IsRatio
    <2>2. OutputSound(3, 360, 284, 72, 58, 58, 0, 2, 4, 3, 27000, t)
      BY <1>1, <1>5, <2>1, Powers, Halves DEF OutputSound, OutputVcoKnown
    <2>3. SoundOutput(c[2], 27000, t) BY <1>1, <1>5, <2>2, OutputRowSound
    <2> QED BY <1>1, <1>2, <1>5, <2>3
  <1>6. CASE c = p4
    <2>1. t[2] = 2 /\ t[3] = 1 BY <1>1, <1>6 DEF IsRatio
    <2>2. OutputSound(3, 240, 188, 48, 38, 38, 0, 2, 2, 2, 27000, t)
      BY <1>1, <1>6, <2>1, Powers, Halves DEF OutputSound, OutputVcoKnown
    <2>3. SoundOutput(c[2], 27000, t) BY <1>1, <1>6, <2>2, OutputRowSound
    <2> QED BY <1>1, <1>2, <1>6, <2>3
  <1> QED BY <1>2, <1>3, <1>4, <1>5, <1>6

LEMMA Output54000Rows ==
  ASSUME NEW c \in Output54000, NEW t, IsRatio(t), t[1] = c[1]
  PROVE  SoundOutput(c[2], 54000, t) /\ \A d \in Output54000 : d[1] = c[1] => d[2] = c[2]
  <1> DEFINE p1 == <<"1_1", OutputRow(3, 480, 380, 96, 38, 38, 1, 2, 4, 3)>>
             p2 == <<"5_4", OutputRow(4, 400, 316, 80, 23, 23, 0, 1, 4, 2)>>
             p3 == <<"3_2", OutputRow(4, 480, 380, 96, 28, 28, 0, 2, 2, 2)>>
             p4 == <<"2_1", OutputRow(3, 240, 188, 48, 18, 18, 0, 2, 1, 1)>>
  <1>1. /\ p1[1] = "1_1" /\ p1[2] = OutputRow(3, 480, 380, 96, 38, 38, 1, 2, 4, 3)
        /\ p2[1] = "5_4" /\ p2[2] = OutputRow(4, 400, 316, 80, 23, 23, 0, 1, 4, 2)
        /\ p3[1] = "3_2" /\ p3[2] = OutputRow(4, 480, 380, 96, 28, 28, 0, 2, 2, 2)
        /\ p4[1] = "2_1" /\ p4[2] = OutputRow(3, 240, 188, 48, 18, 18, 0, 2, 1, 1)
    OBVIOUS
  <1>2. Output54000 = {p1, p2, p3, p4} BY DEF Output54000
  <1> HIDE DEF p1, p2, p3, p4
  <1>3. CASE c = p1
    <2>1. t[2] = 1 /\ t[3] = 1 BY <1>1, <1>3 DEF IsRatio
    <2>2. OutputSound(3, 480, 380, 96, 38, 38, 1, 2, 4, 3, 54000, t)
      BY <1>1, <1>3, <2>1, Powers, Halves DEF OutputSound, OutputVcoKnown
    <2>3. SoundOutput(c[2], 54000, t) BY <1>1, <1>3, <2>2, OutputRowSound
    <2> QED BY <1>1, <1>2, <1>3, <2>3
  <1>4. CASE c = p2
    <2>1. t[2] = 5 /\ t[3] = 4 BY <1>1, <1>4 DEF IsRatio
    <2>2. OutputSound(4, 400, 316, 80, 23, 23, 0, 1, 4, 2, 54000, t)
      BY <1>1, <1>4, <2>1, Powers, Halves DEF OutputSound, OutputVcoKnown
    <2>3. SoundOutput(c[2], 54000, t) BY <1>1, <1>4, <2>2, OutputRowSound
    <2> QED BY <1>1, <1>2, <1>4, <2>3
  <1>5. CASE c = p3
    <2>1. t[2] = 3 /\ t[3] = 2 BY <1>1, <1>5 DEF IsRatio
    <2>2. OutputSound(4, 480, 380, 96, 28, 28, 0, 2, 2, 2, 54000, t)
      BY <1>1, <1>5, <2>1, Powers, Halves DEF OutputSound, OutputVcoKnown
    <2>3. SoundOutput(c[2], 54000, t) BY <1>1, <1>5, <2>2, OutputRowSound
    <2> QED BY <1>1, <1>2, <1>5, <2>3
  <1>6. CASE c = p4
    <2>1. t[2] = 2 /\ t[3] = 1 BY <1>1, <1>6 DEF IsRatio
    <2>2. OutputSound(3, 240, 188, 48, 18, 18, 0, 2, 1, 1, 54000, t)
      BY <1>1, <1>6, <2>1, Powers, Halves DEF OutputSound, OutputVcoKnown
    <2>3. SoundOutput(c[2], 54000, t) BY <1>1, <1>6, <2>2, OutputRowSound
    <2> QED BY <1>1, <1>2, <1>6, <2>3
  <1> QED BY <1>2, <1>3, <1>4, <1>5, <1>6

LEMMA Output74250Rows ==
  ASSUME NEW c \in Output74250, NEW t, IsRatio(t), t[1] = c[1]
  PROVE  SoundOutput(c[2], 74250, t) /\ \A d \in Output74250 : d[1] = c[1] => d[2] = c[2]
  <1> DEFINE p1 == <<"1_1", OutputRow(3, 660, 524, 132, 38, 38, 1, 2, 4, 3)>>
             p2 == <<"5_4", OutputRow(4, 550, 436, 110, 23, 23, 1, 1, 4, 2)>>
             p3 == <<"3_2", OutputRow(4, 660, 524, 132, 28, 28, 1, 2, 2, 2)>>
             p4 == <<"2_1", OutputRow(3, 330, 260, 66, 18, 18, 0, 2, 1, 1)>>
  <1>1. /\ p1[1] = "1_1" /\ p1[2] = OutputRow(3, 660, 524, 132, 38, 38, 1, 2, 4, 3)
        /\ p2[1] = "5_4" /\ p2[2] = OutputRow(4, 550, 436, 110, 23, 23, 1, 1, 4, 2)
        /\ p3[1] = "3_2" /\ p3[2] = OutputRow(4, 660, 524, 132, 28, 28, 1, 2, 2, 2)
        /\ p4[1] = "2_1" /\ p4[2] = OutputRow(3, 330, 260, 66, 18, 18, 0, 2, 1, 1)
    OBVIOUS
  <1>2. Output74250 = {p1, p2, p3, p4} BY DEF Output74250
  <1> HIDE DEF p1, p2, p3, p4
  <1>3. CASE c = p1
    <2>1. t[2] = 1 /\ t[3] = 1 BY <1>1, <1>3 DEF IsRatio
    <2>2. OutputSound(3, 660, 524, 132, 38, 38, 1, 2, 4, 3, 74250, t)
      BY <1>1, <1>3, <2>1, Powers, Halves DEF OutputSound, OutputVcoKnown
    <2>3. SoundOutput(c[2], 74250, t) BY <1>1, <1>3, <2>2, OutputRowSound
    <2> QED BY <1>1, <1>2, <1>3, <2>3
  <1>4. CASE c = p2
    <2>1. t[2] = 5 /\ t[3] = 4 BY <1>1, <1>4 DEF IsRatio
    <2>2. OutputSound(4, 550, 436, 110, 23, 23, 1, 1, 4, 2, 74250, t)
      BY <1>1, <1>4, <2>1, Powers, Halves DEF OutputSound, OutputVcoKnown
    <2>3. SoundOutput(c[2], 74250, t) BY <1>1, <1>4, <2>2, OutputRowSound
    <2> QED BY <1>1, <1>2, <1>4, <2>3
  <1>5. CASE c = p3
    <2>1. t[2] = 3 /\ t[3] = 2 BY <1>1, <1>5 DEF IsRatio
    <2>2. OutputSound(4, 660, 524, 132, 28, 28, 1, 2, 2, 2, 74250, t)
      BY <1>1, <1>5, <2>1, Powers, Halves DEF OutputSound, OutputVcoKnown
    <2>3. SoundOutput(c[2], 74250, t) BY <1>1, <1>5, <2>2, OutputRowSound
    <2> QED BY <1>1, <1>2, <1>5, <2>3
  <1>6. CASE c = p4
    <2>1. t[2] = 2 /\ t[3] = 1 BY <1>1, <1>6 DEF IsRatio
    <2>2. OutputSound(3, 330, 260, 66, 18, 18, 0, 2, 1, 1, 74250, t)
      BY <1>1, <1>6, <2>1, Powers, Halves DEF OutputSound, OutputVcoKnown
    <2>3. SoundOutput(c[2], 74250, t) BY <1>1, <1>6, <2>2, OutputRowSound
    <2> QED BY <1>1, <1>2, <1>6, <2>3
  <1> QED BY <1>2, <1>3, <1>4, <1>5, <1>6

LEMMA Output99000Rows ==
  ASSUME NEW c \in Output99000, NEW t, IsRatio(t), t[1] = c[1]
  PROVE  SoundOutput(c[2], 99000, t) /\ \A d \in Output99000 : d[1] = c[1] => d[2] = c[2]
  <1> DEFINE p1 == <<"1_1", OutputRow(3, 440, 348, 88, 18, 18, 1, 2, 2, 2)>>
             p2 == <<"5_4", OutputRow(3, 275, 216, 55, 11, 10, 0, 1, 2, 1)>>
             p3 == <<"3_2", OutputRow(3, 330, 260, 66, 13, 13, 0, 2, 1, 1)>>
             p4 == <<"2_1", OutputRow(3, 440, 348, 88, 18, 18, 1, 2, 1, 1)>>
  <1>1. /\ p1[1] = "1_1" /\ p1[2] = OutputRow(3, 440, 348, 88, 18, 18, 1, 2, 2, 2)
        /\ p2[1] = "5_4" /\ p2[2] = OutputRow(3, 275, 216, 55, 11, 10, 0, 1, 2, 1)
        /\ p3[1] = "3_2" /\ p3[2] = OutputRow(3, 330, 260, 66, 13, 13, 0, 2, 1, 1)
        /\ p4[1] = "2_1" /\ p4[2] = OutputRow(3, 440, 348, 88, 18, 18, 1, 2, 1, 1)
    OBVIOUS
  <1>2. Output99000 = {p1, p2, p3, p4} BY DEF Output99000
  <1> HIDE DEF p1, p2, p3, p4
  <1>3. CASE c = p1
    <2>1. t[2] = 1 /\ t[3] = 1 BY <1>1, <1>3 DEF IsRatio
    <2>2. OutputSound(3, 440, 348, 88, 18, 18, 1, 2, 2, 2, 99000, t)
      BY <1>1, <1>3, <2>1, Powers, Halves DEF OutputSound, OutputVcoKnown
    <2>3. SoundOutput(c[2], 99000, t) BY <1>1, <1>3, <2>2, OutputRowSound
    <2> QED BY <1>1, <1>2, <1>3, <2>3
  <1>4. CASE c = p2
    <2>1. t[2] = 5 /\ t[3] = 4 BY <1>1, <1>4 DEF IsRatio
    <2>2. OutputSound(3, 275, 216, 55, 11, 10, 0, 1, 2, 1, 99000, t)
      BY <1>1, <1>4, <2>1, Powers, Halves DEF OutputSound, OutputVcoKnown
    <2>3. SoundOutput(c[2], 99000, t) BY <1>1, <1>4, <2>2, OutputRowSound
    <2> QED BY <1>1, <1>2, <1>4, <2>3
  <1>5. CASE c = p3
    <2>1. t[2] = 3 /\ t[3] = 2 BY <1>1, <1>5 DEF IsRatio
    <2>2. OutputSound(3, 330, 260, 66, 13, 13, 0, 2, 1, 1, 99000, t)
      BY <1>1, <1>5, <2>1, Powers, Halves DEF OutputSound, OutputVcoKnown
    <2>3. SoundOutput(c[2], 99000, t) BY <1>1, <1>5, <2>2, OutputRowSound
    <2> QED BY <1>1, <1>2, <1>5, <2>3
  <1>6. CASE c = p4
    <2>1. t[2] = 2 /\ t[3] = 1 BY <1>1, <1>6 DEF IsRatio
    <2>2. OutputSound(3, 440, 348, 88, 18, 18, 1, 2, 1, 1, 99000, t)
      BY <1>1, <1>6, <2>1, Powers, Halves DEF OutputSound, OutputVcoKnown
    <2>3. SoundOutput(c[2], 99000, t) BY <1>1, <1>6, <2>2, OutputRowSound
    <2> QED BY <1>1, <1>2, <1>6, <2>3
  <1> QED BY <1>2, <1>3, <1>4, <1>5, <1>6

LEMMA Output148500Rows ==
  ASSUME NEW c \in Output148500, NEW t, IsRatio(t), t[1] = c[1]
  PROVE  SoundOutput(c[2], 148500, t) /\ \A d \in Output148500 : d[1] = c[1] => d[2] = c[2]
  <1> DEFINE p1 == <<"1_1", OutputRow(3, 660, 524, 132, 18, 18, 1, 2, 2, 2)>>
             p2 == <<"5_4", OutputRow(4, 550, 436, 110, 11, 10, 1, 1, 2, 1)>>
             p3 == <<"3_2", OutputRow(3, 495, 392, 99, 13, 13, 1, 1, 2, 1)>>
             p4 == <<"2_1", OutputRow(3, 660, 524, 132, 18, 18, 1, 2, 1, 1)>>
  <1>1. /\ p1[1] = "1_1" /\ p1[2] = OutputRow(3, 660, 524, 132, 18, 18, 1, 2, 2, 2)
        /\ p2[1] = "5_4" /\ p2[2] = OutputRow(4, 550, 436, 110, 11, 10, 1, 1, 2, 1)
        /\ p3[1] = "3_2" /\ p3[2] = OutputRow(3, 495, 392, 99, 13, 13, 1, 1, 2, 1)
        /\ p4[1] = "2_1" /\ p4[2] = OutputRow(3, 660, 524, 132, 18, 18, 1, 2, 1, 1)
    OBVIOUS
  <1>2. Output148500 = {p1, p2, p3, p4} BY DEF Output148500
  <1> HIDE DEF p1, p2, p3, p4
  <1>3. CASE c = p1
    <2>1. t[2] = 1 /\ t[3] = 1 BY <1>1, <1>3 DEF IsRatio
    <2>2. OutputSound(3, 660, 524, 132, 18, 18, 1, 2, 2, 2, 148500, t)
      BY <1>1, <1>3, <2>1, Powers, Halves DEF OutputSound, OutputVcoKnown
    <2>3. SoundOutput(c[2], 148500, t) BY <1>1, <1>3, <2>2, OutputRowSound
    <2> QED BY <1>1, <1>2, <1>3, <2>3
  <1>4. CASE c = p2
    <2>1. t[2] = 5 /\ t[3] = 4 BY <1>1, <1>4 DEF IsRatio
    <2>2. OutputSound(4, 550, 436, 110, 11, 10, 1, 1, 2, 1, 148500, t)
      BY <1>1, <1>4, <2>1, Powers, Halves DEF OutputSound, OutputVcoKnown
    <2>3. SoundOutput(c[2], 148500, t) BY <1>1, <1>4, <2>2, OutputRowSound
    <2> QED BY <1>1, <1>2, <1>4, <2>3
  <1>5. CASE c = p3
    <2>1. t[2] = 3 /\ t[3] = 2 BY <1>1, <1>5 DEF IsRatio
    <2>2. OutputSound(3, 495, 392, 99, 13, 13, 1, 1, 2, 1, 148500, t)
      BY <1>1, <1>5, <2>1, Powers, Halves DEF OutputSound, OutputVcoKnown
    <2>3. SoundOutput(c[2], 148500, t) BY <1>1, <1>5, <2>2, OutputRowSound
    <2> QED BY <1>1, <1>2, <1>5, <2>3
  <1>6. CASE c = p4
    <2>1. t[2] = 2 /\ t[3] = 1 BY <1>1, <1>6 DEF IsRatio
    <2>2. OutputSound(3, 660, 524, 132, 18, 18, 1, 2, 1, 1, 148500, t)
      BY <1>1, <1>6, <2>1, Powers, Halves DEF OutputSound, OutputVcoKnown
    <2>3. SoundOutput(c[2], 148500, t) BY <1>1, <1>6, <2>2, OutputRowSound
    <2> QED BY <1>1, <1>2, <1>6, <2>3
  <1> QED BY <1>2, <1>3, <1>4, <1>5, <1>6

LEMMA Output198000Rows ==
  ASSUME NEW c \in Output198000, NEW t, IsRatio(t), t[1] = c[1]
  PROVE  SoundOutput(c[2], 198000, t) /\ \A d \in Output198000 : d[1] = c[1] => d[2] = c[2]
  <1> DEFINE p1 == <<"1_1", OutputRow(3, 220, 172, 44, 3, 3, 0, 1, 1, 0)>>
             p2 == <<"5_4", OutputRow(3, 550, 436, 110, 11, 10, 1, 1, 2, 1)>>
             p3 == <<"3_2", OutputRow(3, 330, 260, 66, 6, 5, 0, 1, 1, 0)>>
             p4 == <<"2_1", OutputRow(3, 440, 348, 88, 8, 8, 1, 1, 1, 0)>>
  <1>1. /\ p1[1] = "1_1" /\ p1[2] = OutputRow(3, 220, 172, 44, 3, 3, 0, 1, 1, 0)
        /\ p2[1] = "5_4" /\ p2[2] = OutputRow(3, 550, 436, 110, 11, 10, 1, 1, 2, 1)
        /\ p3[1] = "3_2" /\ p3[2] = OutputRow(3, 330, 260, 66, 6, 5, 0, 1, 1, 0)
        /\ p4[1] = "2_1" /\ p4[2] = OutputRow(3, 440, 348, 88, 8, 8, 1, 1, 1, 0)
    OBVIOUS
  <1>2. Output198000 = {p1, p2, p3, p4} BY DEF Output198000
  <1> HIDE DEF p1, p2, p3, p4
  <1>3. CASE c = p1
    <2>1. t[2] = 1 /\ t[3] = 1 BY <1>1, <1>3 DEF IsRatio
    <2>2. OutputSound(3, 220, 172, 44, 3, 3, 0, 1, 1, 0, 198000, t)
      BY <1>1, <1>3, <2>1, Powers, Halves DEF OutputSound, OutputVcoKnown
    <2>3. SoundOutput(c[2], 198000, t) BY <1>1, <1>3, <2>2, OutputRowSound
    <2> QED BY <1>1, <1>2, <1>3, <2>3
  <1>4. CASE c = p2
    <2>1. t[2] = 5 /\ t[3] = 4 BY <1>1, <1>4 DEF IsRatio
    <2>2. OutputSound(3, 550, 436, 110, 11, 10, 1, 1, 2, 1, 198000, t)
      BY <1>1, <1>4, <2>1, Powers, Halves DEF OutputSound, OutputVcoKnown
    <2>3. SoundOutput(c[2], 198000, t) BY <1>1, <1>4, <2>2, OutputRowSound
    <2> QED BY <1>1, <1>2, <1>4, <2>3
  <1>5. CASE c = p3
    <2>1. t[2] = 3 /\ t[3] = 2 BY <1>1, <1>5 DEF IsRatio
    <2>2. OutputSound(3, 330, 260, 66, 6, 5, 0, 1, 1, 0, 198000, t)
      BY <1>1, <1>5, <2>1, Powers, Halves DEF OutputSound, OutputVcoKnown
    <2>3. SoundOutput(c[2], 198000, t) BY <1>1, <1>5, <2>2, OutputRowSound
    <2> QED BY <1>1, <1>2, <1>5, <2>3
  <1>6. CASE c = p4
    <2>1. t[2] = 2 /\ t[3] = 1 BY <1>1, <1>6 DEF IsRatio
    <2>2. OutputSound(3, 440, 348, 88, 8, 8, 1, 1, 1, 0, 198000, t)
      BY <1>1, <1>6, <2>1, Powers, Halves DEF OutputSound, OutputVcoKnown
    <2>3. SoundOutput(c[2], 198000, t) BY <1>1, <1>6, <2>2, OutputRowSound
    <2> QED BY <1>1, <1>2, <1>6, <2>3
  <1> QED BY <1>2, <1>3, <1>4, <1>5, <1>6

LEMMA Output297000Rows ==
  ASSUME NEW c \in Output297000, NEW t, IsRatio(t), t[1] = c[1]
  PROVE  SoundOutput(c[2], 297000, t) /\ \A d \in Output297000 : d[1] = c[1] => d[2] = c[2]
  <1> DEFINE p1 == <<"1_1", OutputRow(3, 330, 260, 66, 3, 3, 0, 1, 1, 0)>>
             p2 == <<"3_2", OutputRow(3, 495, 392, 99, 6, 5, 1, 1, 1, 0)>>
             p3 == <<"2_1", OutputRow(3, 660, 524, 132, 8, 8, 1, 1, 1, 0)>>
  <1>1. /\ p1[1] = "1_1" /\ p1[2] = OutputRow(3, 330, 260, 66, 3, 3, 0, 1, 1, 0)
        /\ p2[1] = "3_2" /\ p2[2] = OutputRow(3, 495, 392, 99, 6, 5, 1, 1, 1, 0)
        /\ p3[1] = "2_1" /\ p3[2] = OutputRow(3, 660, 524, 132, 8, 8, 1, 1, 1, 0)
    OBVIOUS
  <1>2. Output297000 = {p1, p2, p3} BY DEF Output297000
  <1> HIDE DEF p1, p2, p3
  <1>3. CASE c = p1
    <2>1. t[2] = 1 /\ t[3] = 1 BY <1>1, <1>3 DEF IsRatio
    <2>2. OutputSound(3, 330, 260, 66, 3, 3, 0, 1, 1, 0, 297000, t)
      BY <1>1, <1>3, <2>1, Powers, Halves DEF OutputSound, OutputVcoKnown
    <2>3. SoundOutput(c[2], 297000, t) BY <1>1, <1>3, <2>2, OutputRowSound
    <2> QED BY <1>1, <1>2, <1>3, <2>3
  <1>4. CASE c = p2
    <2>1. t[2] = 3 /\ t[3] = 2 BY <1>1, <1>4 DEF IsRatio
    <2>2. OutputSound(3, 495, 392, 99, 6, 5, 1, 1, 1, 0, 297000, t)
      BY <1>1, <1>4, <2>1, Powers, Halves DEF OutputSound, OutputVcoKnown
    <2>3. SoundOutput(c[2], 297000, t) BY <1>1, <1>4, <2>2, OutputRowSound
    <2> QED BY <1>1, <1>2, <1>4, <2>3
  <1>5. CASE c = p3
    <2>1. t[2] = 2 /\ t[3] = 1 BY <1>1, <1>5 DEF IsRatio
    <2>2. OutputSound(3, 660, 524, 132, 8, 8, 1, 1, 1, 0, 297000, t)
      BY <1>1, <1>5, <2>1, Powers, Halves DEF OutputSound, OutputVcoKnown
    <2>3. SoundOutput(c[2], 297000, t) BY <1>1, <1>5, <2>2, OutputRowSound
    <2> QED BY <1>1, <1>2, <1>5, <2>3
  <1> QED BY <1>2, <1>3, <1>4, <1>5

LEMMA Output594000Rows ==
  ASSUME NEW c \in Output594000, NEW t, IsRatio(t), t[1] = c[1]
  PROVE  SoundOutput(c[2], 594000, t) /\ \A d \in Output594000 : d[1] = c[1] => d[2] = c[2]
  <1> DEFINE p1 == <<"1_1", OutputRow(3, 660, 524, 132, 3, 3, 1, 1, 1, 0)>>
             p2 == <<"1_2", OutputRow(3, 660, 524, 132, 3, 3, 1, 1, 2, 1)>>
             p3 == <<"5_8", OutputRow(4, 550, 436, 110, 3, 3, 1, 1, 1, 0)>>
             p4 == <<"3_4", OutputRow(3, 495, 392, 99, 3, 3, 1, 1, 1, 0)>>
  <1>1. /\ p1[1] = "1_1" /\ p1[2] = OutputRow(3, 660, 524, 132, 3, 3, 1, 1, 1, 0)
        /\ p2[1] = "1_2" /\ p2[2] = OutputRow(3, 660, 524, 132, 3, 3, 1, 1, 2, 1)
        /\ p3[1] = "5_8" /\ p3[2] = OutputRow(4, 550, 436, 110, 3, 3, 1, 1, 1, 0)
        /\ p4[1] = "3_4" /\ p4[2] = OutputRow(3, 495, 392, 99, 3, 3, 1, 1, 1, 0)
    OBVIOUS
  <1>2. Output594000 = {p1, p2, p3, p4} BY DEF Output594000
  <1> HIDE DEF p1, p2, p3, p4
  <1>3. CASE c = p1
    <2>1. t[2] = 1 /\ t[3] = 1 BY <1>1, <1>3 DEF IsRatio
    <2>2. OutputSound(3, 660, 524, 132, 3, 3, 1, 1, 1, 0, 594000, t)
      BY <1>1, <1>3, <2>1, Powers, Halves DEF OutputSound, OutputVcoKnown
    <2>3. SoundOutput(c[2], 594000, t) BY <1>1, <1>3, <2>2, OutputRowSound
    <2> QED BY <1>1, <1>2, <1>3, <2>3
  <1>4. CASE c = p2
    <2>1. t[2] = 1 /\ t[3] = 2 BY <1>1, <1>4 DEF IsRatio
    <2>2. OutputSound(3, 660, 524, 132, 3, 3, 1, 1, 2, 1, 594000, t)
      BY <1>1, <1>4, <2>1, Powers, Halves DEF OutputSound, OutputVcoKnown
    <2>3. SoundOutput(c[2], 594000, t) BY <1>1, <1>4, <2>2, OutputRowSound
    <2> QED BY <1>1, <1>2, <1>4, <2>3
  <1>5. CASE c = p3
    <2>1. t[2] = 5 /\ t[3] = 8 BY <1>1, <1>5 DEF IsRatio
    <2>2. OutputSound(4, 550, 436, 110, 3, 3, 1, 1, 1, 0, 594000, t)
      BY <1>1, <1>5, <2>1, Powers, Halves DEF OutputSound, OutputVcoKnown
    <2>3. SoundOutput(c[2], 594000, t) BY <1>1, <1>5, <2>2, OutputRowSound
    <2> QED BY <1>1, <1>2, <1>5, <2>3
  <1>6. CASE c = p4
    <2>1. t[2] = 3 /\ t[3] = 4 BY <1>1, <1>6 DEF IsRatio
    <2>2. OutputSound(3, 495, 392, 99, 3, 3, 1, 1, 1, 0, 594000, t)
      BY <1>1, <1>6, <2>1, Powers, Halves DEF OutputSound, OutputVcoKnown
    <2>3. SoundOutput(c[2], 594000, t) BY <1>1, <1>6, <2>2, OutputRowSound
    <2> QED BY <1>1, <1>2, <1>6, <2>3
  <1> QED BY <1>2, <1>3, <1>4, <1>5, <1>6

StandardFreqs == {27000, 54000, 74250, 99000, 148500, 198000, 297000, 594000}

(* Both switches, given the table the outer one finds.                      *)
LEMMA OneOutputRow ==
  ASSUME NEW f, NEW t, NEW table, CaseOf(OutputTable, f) = {table},
         \A c \in table : t[1] = c[1] =>
            SoundOutput(c[2], f, t) /\ \A d \in table : d[1] = c[1] => d[2] = c[2],
         NEW r \in PllRows(f, t[1], TRUE)
  PROVE  PllRows(f, t[1], TRUE) = {r} /\ SoundOutput(r, f, t)
  <1>1. PllRows(f, t[1], TRUE) = CaseOf(table, t[1]) BY DEF PllRows
  <1>2. PICK c \in table : c[1] = t[1] /\ c[2] = r BY <1>1 DEF CaseOf
  <1>3. ASSUME NEW q \in PllRows(f, t[1], TRUE) PROVE q = r BY <1>1, <1>2 DEF CaseOf
  <1> QED BY <1>2, <1>3

LEMMA OutputRows ==
  ASSUME NEW f, NEW t, IsRatio(t), NEW r \in PllRows(f, t[1], TRUE)
  PROVE  /\ f \in StandardFreqs
         /\ PllRows(f, t[1], TRUE) = {r} /\ SoundOutput(r, f, t)
  <1>1. f \in StandardFreqs
    <2>1. CaseOf(OutputTable, f) # {} BY DEF PllRows
    <2> QED BY <2>1, OuterCases DEF StandardFreqs
  <1> DEFINE Found == PllRows(f, t[1], TRUE) = {r} /\ SoundOutput(r, f, t)
  <1>2. Found
    <2>1. CASE f = 27000
      <3>1. CaseOf(OutputTable, f) = {Output27000} BY <2>1, OuterCase
      <3>2. ASSUME NEW c \in Output27000, t[1] = c[1]
            PROVE  SoundOutput(c[2], f, t) /\ \A d \in Output27000 : d[1] = c[1] => d[2] = c[2]
        BY <2>1, <3>2, Output27000Rows
      <3> QED BY <3>1, <3>2, OneOutputRow
    <2>2. CASE f = 54000
      <3>1. CaseOf(OutputTable, f) = {Output54000} BY <2>2, OuterCase
      <3>2. ASSUME NEW c \in Output54000, t[1] = c[1]
            PROVE  SoundOutput(c[2], f, t) /\ \A d \in Output54000 : d[1] = c[1] => d[2] = c[2]
        BY <2>2, <3>2, Output54000Rows
      <3> QED BY <3>1, <3>2, OneOutputRow
    <2>3. CASE f = 74250
      <3>1. CaseOf(OutputTable, f) = {Output74250} BY <2>3, OuterCase
      <3>2. ASSUME NEW c \in Output74250, t[1] = c[1]
            PROVE  SoundOutput(c[2], f, t) /\ \A d \in Output74250 : d[1] = c[1] => d[2] = c[2]
        BY <2>3, <3>2, Output74250Rows
      <3> QED BY <3>1, <3>2, OneOutputRow
    <2>4. CASE f = 99000
      <3>1. CaseOf(OutputTable, f) = {Output99000} BY <2>4, OuterCase
      <3>2. ASSUME NEW c \in Output99000, t[1] = c[1]
            PROVE  SoundOutput(c[2], f, t) /\ \A d \in Output99000 : d[1] = c[1] => d[2] = c[2]
        BY <2>4, <3>2, Output99000Rows
      <3> QED BY <3>1, <3>2, OneOutputRow
    <2>5. CASE f = 148500
      <3>1. CaseOf(OutputTable, f) = {Output148500} BY <2>5, OuterCase
      <3>2. ASSUME NEW c \in Output148500, t[1] = c[1]
            PROVE  SoundOutput(c[2], f, t) /\ \A d \in Output148500 : d[1] = c[1] => d[2] = c[2]
        BY <2>5, <3>2, Output148500Rows
      <3> QED BY <3>1, <3>2, OneOutputRow
    <2>6. CASE f = 198000
      <3>1. CaseOf(OutputTable, f) = {Output198000} BY <2>6, OuterCase
      <3>2. ASSUME NEW c \in Output198000, t[1] = c[1]
            PROVE  SoundOutput(c[2], f, t) /\ \A d \in Output198000 : d[1] = c[1] => d[2] = c[2]
        BY <2>6, <3>2, Output198000Rows
      <3> QED BY <3>1, <3>2, OneOutputRow
    <2>7. CASE f = 297000
      <3>1. CaseOf(OutputTable, f) = {Output297000} BY <2>7, OuterCase
      <3>2. ASSUME NEW c \in Output297000, t[1] = c[1]
            PROVE  SoundOutput(c[2], f, t) /\ \A d \in Output297000 : d[1] = c[1] => d[2] = c[2]
        BY <2>7, <3>2, Output297000Rows
      <3> QED BY <3>1, <3>2, OneOutputRow
    <2>8. CASE f = 594000
      <3>1. CaseOf(OutputTable, f) = {Output594000} BY <2>8, OuterCase
      <3>2. ASSUME NEW c \in Output594000, t[1] = c[1]
            PROVE  SoundOutput(c[2], f, t) /\ \A d \in Output594000 : d[1] = c[1] => d[2] = c[2]
        BY <2>8, <3>2, Output594000Rows
      <3> QED BY <3>1, <3>2, OneOutputRow
    <2> HIDE DEF Found
    <2>9. f = 27000 \/ f = 54000 \/ f = 74250 \/ f = 99000
          \/ f = 148500 \/ f = 198000 \/ f = 297000 \/ f = 594000
      BY <1>1 DEF StandardFreqs
    <2> QED BY <2>9, <2>1, <2>2, <2>3, <2>4, <2>5, <2>6, <2>7, <2>8
  <1> QED BY <1>1, <1>2

(* The row of the driver's ratio divides to its frequency.                  *)
LEMMA SoundDivides ==
  ASSUME NEW f \in Nat \ {0}, NEW t, t[1] = "1_1", IsRatio(t), NEW r, SoundOutput(r, f, t)
  PROVE  Divides(r, f)
  <1> DEFINE ip == r["cmnda_pll0_ip_div"]
             fb == r["pll_feedback_divider_total"]
             fbl == r["cmnda_pll0_fb_div_low"]
             fbh == r["cmnda_pll0_fb_div_high"]
             pxl == r["cmnda_pll0_pxdiv_low"]
             pxh == r["cmnda_pll0_pxdiv_high"]
             ring == r["vco_ring_select"]
             hs == r["cmnda_hs_clk_0_sel"]
             sub == r["tx_subrate"]
             sym == r["cmnda_pll0_hs_sym_div_sel"]
  <1>0. OutputSound(ip, fb, fbl, fbh, pxl, pxh, ring, hs, sub, sym, f, t)
    BY DEF SoundOutput
  <1> HIDE DEF ip, fb, fbl, fbh, pxl, pxh, ring, hs, sub, sym
  <1> DEFINE px == pxl + pxh + 4
             vco == (27000 * fb) \div ip
             tenfold == 10 * 2^sym
  <1>1. /\ ip \in 1 .. 255 /\ sym \in 0 .. 3 /\ fbl \in 0 .. 1023 /\ fbh \in 0 .. 1023
        /\ pxl \in 0 .. 1023 /\ pxh \in 0 .. 1023 /\ hs \in 0 .. 3 /\ sub \in 0 .. 7
        /\ fb = fbl + fbh + 4 /\ fb \in 0 .. 1023
    BY <1>0 DEF OutputSound
  <1>2. px \in Nat /\ vco \in Int BY <1>1
  <1>3. tenfold \in Nat
    <2>1. sym = 0 \/ sym = 1 \/ sym = 2 \/ sym = 3 BY <1>1
    <2>2. 2^0 \in Nat /\ 2^1 \in Nat /\ 2^2 \in Nat /\ 2^3 \in Nat BY Powers
    <2>3. 2^sym \in Nat BY <2>1, <2>2, Zenon
    <2> QED BY <2>3
  <1>4. t[2] = 1 /\ t[3] = 1 BY DEF IsRatio
  <1>5. vco = px * f /\ 2^sym = 2^(hs \div 2) * 2^(sub \div 2) BY <1>0 DEF OutputSound
  <1>6. vco * 1 = tenfold * f * 1 BY <1>0, <1>4 DEF OutputSound
  <1> HIDE DEF px, vco
  <1>7. px = tenfold
    <2> HIDE DEF tenfold
    <2>1. f * px = f * tenfold BY <1>2, <1>3, <1>5, <1>6
    <2>2. (f * px) \div f = px BY <1>2, DivideProduct
    <2>3. (f * tenfold) \div f = tenfold BY <1>3, DivideProduct
    <2> QED BY <2>1, <2>2, <2>3
  <1>8. px = 10 * 2^(hs \div 2) * 2^(sub \div 2)
    <2> DEFINE a == 2^(hs \div 2)
               b == 2^(sub \div 2)
    <2>1. a \in Int /\ b \in Int
      <3> DEFINE m == hs \div 2
                 n == sub \div 2
      <3>1. (m = 0 \/ m = 1) /\ (n = 0 \/ n = 1 \/ n = 2 \/ n = 3) BY <1>1
      <3> HIDE DEF m, n
      <3>2. 2^0 \in Int /\ 2^1 \in Int /\ 2^2 \in Int /\ 2^3 \in Int BY Powers
      <3>3. 2^m \in Int /\ 2^n \in Int BY <3>1, <3>2, Zenon
      <3> QED BY <3>3 DEF m, n
    <2>2. px = 10 * (a * b) BY <1>5, <1>7
    <2> HIDE DEF a, b
    <2>3. px = 10 * a * b BY <2>1, <2>2
    <2> QED BY <2>3 DEF a, b
  <1>9. /\ (27000 * (fbl + fbh + 4)) \div ip = (pxl + pxh + 4) * f
        /\ pxl + pxh + 4 = 10 * 2^(hs \div 2) * 2^(sub \div 2)
    BY <1>1, <1>5, <1>8 DEF px, vco
  <1> QED BY <1>1, <1>9, SMTT(30) DEF Divides, ip, fbl, fbh, pxl, pxh, hs, sub, sym

(* The driver's: its ratio, and the PHY as the source.                      *)
RowsOf(f) == PllRows(f, "1_1", TRUE)

LEMMA RowDivides ==
  ASSUME NEW f, RowsOf(f) # {}
  PROVE  \E r : /\ RowsOf(f) = {r}
                /\ ClockFields \subseteq DOMAIN r /\ Divides(r, f)
  <1>1. PICK r : r \in RowsOf(f) OBVIOUS
  <1>2. clk_ratio[1] = "1_1" /\ clk_ratio[2] = 1 /\ clk_ratio[3] = 1 BY Ratio
  <1>3. IsRatio(clk_ratio) BY <1>2 DEF IsRatio
  <1>4. f \in StandardFreqs /\ RowsOf(f) = {r} /\ SoundOutput(r, f, clk_ratio)
    <2>1. r \in PllRows(f, clk_ratio[1], TRUE) /\ RowsOf(f) = PllRows(f, clk_ratio[1], TRUE)
      BY <1>1, <1>2 DEF RowsOf
    <2> QED BY <1>3, <2>1, OutputRows
  <1>5. ClockFields \subseteq DOMAIN r
    BY <1>4 DEF SoundOutput, ClockFields, OutputFields, InputFields
  <1>6. f \in Nat \ {0} BY <1>4 DEF StandardFreqs
  <1>7. Divides(r, f) BY <1>2, <1>3, <1>4, <1>6, SoundDivides
  <1> QED BY <1>4, <1>5, <1>7

-----------------------------------------------------------------------------
(* The rows with the pixel clock as the source: the high half of the        *)
(* feedback divider is the one initialised local, 10.                       *)

InputVcoKnown(fb, vco) ==
    \/ /\ \/ 1700000 < vco /\ vco < 2000000
          \/ 2000000 < vco /\ vco < 2400000
          \/ 2400000 < vco /\ vco < 2800000
          \/ 2800000 < vco /\ vco < 3400000
       /\ fb \in {300, 320, 325, 330, 340, 360, 400}
    \/ 3400000 < vco /\ vco < 3900000 /\ fb \in {375, 600, 680}
    \/ 3900000 < vco /\ vco < 4500000 /\ fb \in {450, 600, 680}
    \/ 4500000 < vco /\ vco < 5200000 /\ fb \in {600, 680}
    \/ 5200000 < vco /\ vco < 6000000 /\ fb \in {600, 680}

InputSound(ip, fb, fbl, ref, scaler, ring, hs, sub, sym, f, t) ==
    LET vco == (f * fb) \div ip
    IN /\ ip \in 1 .. 255 /\ fb \in 0 .. 1023 /\ fbl \in 0 .. 1023
       /\ ref \in 0 .. 3 /\ scaler \in 0 .. 7 /\ ring \in 0 .. 1
       /\ hs \in 0 .. 3 /\ sub \in 0 .. 7 /\ sym \in 0 .. 3
       /\ fb = fbl + 10 + 4
       /\ vco * t[3] = 10 * 2^sym * f * t[2]
       /\ 2^sym = 2^(hs \div 2) * 2^(sub \div 2)
       /\ InputVcoKnown(fb, vco)

SoundInput(r, f, t) ==
    /\ DOMAIN r = InputFields /\ \A x \in InputFields : r[x] \in 0 .. Largest[x]
    /\ InputSound(r["cmnda_pll0_ip_div"], r["pll_feedback_divider_total"],
                  r["cmnda_pll0_fb_div_low"], r["cmn_ref_clk_dig_div"],
                  r["divider_scaler"], r["vco_ring_select"], r["cmnda_hs_clk_0_sel"],
                  r["tx_subrate"], r["cmnda_pll0_hs_sym_div_sel"], f, t)

LEMMA InputAgrees ==
  ASSUME NEW ip, NEW fb, NEW fbl, NEW ref, NEW scaler, NEW ring, NEW hs, NEW sub, NEW sym,
         NEW f, NEW t, InputSound(ip, fb, fbl, ref, scaler, ring, hs, sub, sym, f, t)
  PROVE  /\ ip \in 1 .. 255 /\ ip # 0 /\ fb \in 0 .. 1023
         /\ fbl + 10 + 4 = fb
         /\ ((f * fb) \div ip) * t[3] = 10 * 2^sym * f * t[2]
         /\ 2^sym = 2^(hs \div 2) * 2^(sub \div 2)
         /\ InputVcoKnown(fb, (f * fb) \div ip)
  <1>1. ip \in 1 .. 255 /\ fb \in 0 .. 1023 BY Zenon DEF InputSound
  <1>2. ip # 0 BY <1>1
  <1>3. /\ fbl + 10 + 4 = fb
        /\ ((f * fb) \div ip) * t[3] = 10 * 2^sym * f * t[2]
        /\ 2^sym = 2^(hs \div 2) * 2^(sub \div 2)
        /\ InputVcoKnown(fb, (f * fb) \div ip)
    BY DEF InputSound
  <1> QED BY <1>1, <1>2, <1>3

LEMMA InputRowSound ==
  ASSUME NEW ip, NEW fb, NEW fbl, NEW ref, NEW scaler, NEW ring, NEW hs, NEW sub, NEW sym,
         NEW f, NEW t, InputSound(ip, fb, fbl, ref, scaler, ring, hs, sub, sym, f, t)
  PROVE  SoundInput(InputRow(ip, fb, fbl, ref, scaler, ring, hs, sub, sym), f, t)
  <1> DEFINE r == InputRow(ip, fb, fbl, ref, scaler, ring, hs, sub, sym)
  <1>1. DOMAIN r = InputFields BY DEF InputRow, InputFields
  <1>2. /\ r["cmnda_pll0_ip_div"] = ip /\ r["pll_feedback_divider_total"] = fb
        /\ r["cmnda_pll0_fb_div_low"] = fbl /\ r["cmn_ref_clk_dig_div"] = ref
        /\ r["divider_scaler"] = scaler
        /\ r["vco_ring_select"] = ring /\ r["cmnda_hs_clk_0_sel"] = hs
        /\ r["cmnda_hs_clk_1_sel"] = hs /\ r["tx_subrate"] = sub
        /\ r["cmnda_pll0_hs_sym_div_sel"] = sym
    BY DEF InputRow
  <1> HIDE DEF r
  <1>3. /\ ip \in 0 .. 255 /\ fb \in 0 .. 1023 /\ fbl \in 0 .. 1023
        /\ ref \in 0 .. 3 /\ scaler \in 0 .. 7 /\ ring \in 0 .. 1
        /\ hs \in 0 .. 3 /\ sub \in 0 .. 7 /\ sym \in 0 .. 3
    BY DEF InputSound
  <1>4. \A x \in InputFields : r[x] \in 0 .. Largest[x]
    <2>1. /\ r["cmnda_pll0_ip_div"] \in 0 .. Largest["cmnda_pll0_ip_div"]
          /\ r["pll_feedback_divider_total"] \in 0 .. Largest["pll_feedback_divider_total"]
          /\ r["cmnda_pll0_fb_div_low"] \in 0 .. Largest["cmnda_pll0_fb_div_low"]
          /\ r["cmn_ref_clk_dig_div"] \in 0 .. Largest["cmn_ref_clk_dig_div"]
          /\ r["divider_scaler"] \in 0 .. Largest["divider_scaler"]
      BY <1>2, <1>3, LargestValues
    <2>2. /\ r["vco_ring_select"] \in 0 .. Largest["vco_ring_select"]
          /\ r["cmnda_hs_clk_0_sel"] \in 0 .. Largest["cmnda_hs_clk_0_sel"]
          /\ r["cmnda_hs_clk_1_sel"] \in 0 .. Largest["cmnda_hs_clk_1_sel"]
          /\ r["tx_subrate"] \in 0 .. Largest["tx_subrate"]
          /\ r["cmnda_pll0_hs_sym_div_sel"] \in 0 .. Largest["cmnda_pll0_hs_sym_div_sel"]
      BY <1>2, <1>3, LargestValues
    <2> QED BY <2>1, <2>2, Zenon DEF InputFields
  <1>5. InputSound(r["cmnda_pll0_ip_div"], r["pll_feedback_divider_total"],
                   r["cmnda_pll0_fb_div_low"], r["cmn_ref_clk_dig_div"],
                   r["divider_scaler"], r["vco_ring_select"], r["cmnda_hs_clk_0_sel"],
                   r["tx_subrate"], r["cmnda_pll0_hs_sym_div_sel"], f, t)
    BY <1>2, Zenon
  <1>6. SoundInput(r, f, t) BY <1>1, <1>4, <1>5, Zenon DEF SoundInput
  <1> QED BY <1>6 DEF r

(* A chain of inside() tests finds one row, and finds it in its range.      *)
LEMMA FirstRangeIs ==
  ASSUME NEW table, DOMAIN table \subseteq Int, NEW v, NEW c \in FirstRange(table, v)
  PROVE  /\ FirstRange(table, v) = {c}
         /\ \E i \in DOMAIN table : c = table[i] /\ inside(v, table[i][1], table[i][2])
  <1> DEFINE hits == {i \in DOMAIN table : inside(v, table[i][1], table[i][2])}
             least == {i \in hits : \A j \in hits : i <= j}
  <1>1. FirstRange(table, v) = {table[i] : i \in least} BY DEF FirstRange
  <1>2. hits \subseteq DOMAIN table /\ \A i \in hits : inside(v, table[i][1], table[i][2])
    OBVIOUS
  <1> HIDE DEF hits
  <1>3. ASSUME NEW i \in least, NEW j \in least PROVE i = j
    <2>1. i \in Int /\ j \in Int /\ i <= j /\ j <= i BY <1>2
    <2> QED BY <2>1
  <1>4. PICK i \in least : c = table[i] BY <1>1
  <1>5. ASSUME NEW d \in FirstRange(table, v) PROVE d = c
    <2>1. PICK j \in least : d = table[j] BY <1>1
    <2> QED BY <1>3, <1>4, <2>1
  <1> QED BY <1>2, <1>4, <1>5

(* The switch on the ratio, then the chain it finds.                        *)
LEMMA OneInputRow ==
  ASSUME NEW f, NEW t, NEW table, DOMAIN table \subseteq Int, CaseOf(InputTable, t[1]) = {table},
         \A i \in DOMAIN table :
            inside(f, table[i][1], table[i][2]) => SoundInput(table[i][3], f, t),
         NEW r \in PllRows(f, t[1], FALSE)
  PROVE  PllRows(f, t[1], FALSE) = {r} /\ SoundInput(r, f, t)
  <1>1. PllRows(f, t[1], FALSE) = {c[3] : c \in FirstRange(table, f)} BY DEF PllRows
  <1>2. PICK c \in FirstRange(table, f) : r = c[3] BY <1>1
  <1>3. FirstRange(table, f) = {c}
        /\ \E i \in DOMAIN table : c = table[i] /\ inside(f, table[i][1], table[i][2])
    BY FirstRangeIs
  <1>4. SoundInput(r, f, t) BY <1>2, <1>3
  <1>5. PllRows(f, t[1], FALSE) = {r} BY <1>1, <1>2, <1>3
  <1> QED BY <1>4, <1>5

LEMMA Input11Rows ==
  ASSUME NEW f \in StandardFreqs, NEW t, IsRatio(t), t[1] = "1_1", NEW i \in DOMAIN Input_1_1,
         inside(f, Input_1_1[i][1], Input_1_1[i][2])
  PROVE  SoundInput(Input_1_1[i][3], f, t)
  <1> DEFINE p1 == <<340000, 600000, InputRow(60, 600, 586, 3, 6, 1, 1, 1, 0)>>
             p2 == <<170000, 340000, InputRow(34, 340, 326, 1, 7, 0, 1, 1, 0)>>
             p3 == <<85000, 170000, InputRow(17, 340, 326, 0, 7, 0, 1, 2, 1)>>
             p4 == <<42500, 85000, InputRow(8, 320, 306, 3, 1, 0, 1, 4, 2)>>
             p5 == <<25000, 42500, InputRow(5, 400, 386, 1, 1, 0, 2, 4, 3)>>
  <1>1. /\ p1[1] = 340000 /\ p1[2] = 600000 /\ p1[3] = InputRow(60, 600, 586, 3, 6, 1, 1, 1, 0)
        /\ p2[1] = 170000 /\ p2[2] = 340000 /\ p2[3] = InputRow(34, 340, 326, 1, 7, 0, 1, 1, 0)
        /\ p3[1] = 85000 /\ p3[2] = 170000 /\ p3[3] = InputRow(17, 340, 326, 0, 7, 0, 1, 2, 1)
        /\ p4[1] = 42500 /\ p4[2] = 85000 /\ p4[3] = InputRow(8, 320, 306, 3, 1, 0, 1, 4, 2)
        /\ p5[1] = 25000 /\ p5[2] = 42500 /\ p5[3] = InputRow(5, 400, 386, 1, 1, 0, 2, 4, 3)
    OBVIOUS
  <1>2. /\ DOMAIN Input_1_1 = 1 .. 5
        /\ Input_1_1[1] = p1
        /\ Input_1_1[2] = p2
        /\ Input_1_1[3] = p3
        /\ Input_1_1[4] = p4
        /\ Input_1_1[5] = p5
    BY DEF Input_1_1
  <1> HIDE DEF p1, p2, p3, p4, p5
  <1>3. t[2] = 1 /\ t[3] = 1 BY DEF IsRatio
  <1>4. CASE i = 1
    <2>1. inside(f, 340000, 600000) BY <1>1, <1>2, <1>4
    <2>2. f \in {594000} BY <2>1 DEF inside, StandardFreqs
    <2>3. InputSound(60, 600, 586, 3, 6, 1, 1, 1, 0, 594000, t)
      BY <1>3, Powers, Halves DEF InputSound, InputVcoKnown
    <2>4. SoundInput(InputRow(60, 600, 586, 3, 6, 1, 1, 1, 0), f, t)
      BY <2>2, <2>3, InputRowSound
    <2> QED BY <1>1, <1>2, <1>4, <2>4
  <1>5. CASE i = 2
    <2>1. inside(f, 170000, 340000) BY <1>1, <1>2, <1>5
    <2>2. f \in {198000, 297000} BY <2>1 DEF inside, StandardFreqs
    <2>3. InputSound(34, 340, 326, 1, 7, 0, 1, 1, 0, 198000, t)
      BY <1>3, Powers, Halves DEF InputSound, InputVcoKnown
    <2>4. InputSound(34, 340, 326, 1, 7, 0, 1, 1, 0, 297000, t)
      BY <1>3, Powers, Halves DEF InputSound, InputVcoKnown
    <2>5. SoundInput(InputRow(34, 340, 326, 1, 7, 0, 1, 1, 0), f, t)
      BY <2>2, <2>3, <2>4, InputRowSound
    <2> QED BY <1>1, <1>2, <1>5, <2>5
  <1>6. CASE i = 3
    <2>1. inside(f, 85000, 170000) BY <1>1, <1>2, <1>6
    <2>2. f \in {99000, 148500} BY <2>1 DEF inside, StandardFreqs
    <2>3. InputSound(17, 340, 326, 0, 7, 0, 1, 2, 1, 99000, t)
      BY <1>3, Powers, Halves DEF InputSound, InputVcoKnown
    <2>4. InputSound(17, 340, 326, 0, 7, 0, 1, 2, 1, 148500, t)
      BY <1>3, Powers, Halves DEF InputSound, InputVcoKnown
    <2>5. SoundInput(InputRow(17, 340, 326, 0, 7, 0, 1, 2, 1), f, t)
      BY <2>2, <2>3, <2>4, InputRowSound
    <2> QED BY <1>1, <1>2, <1>6, <2>5
  <1>7. CASE i = 4
    <2>1. inside(f, 42500, 85000) BY <1>1, <1>2, <1>7
    <2>2. f \in {54000, 74250} BY <2>1 DEF inside, StandardFreqs
    <2>3. InputSound(8, 320, 306, 3, 1, 0, 1, 4, 2, 54000, t)
      BY <1>3, Powers, Halves DEF InputSound, InputVcoKnown
    <2>4. InputSound(8, 320, 306, 3, 1, 0, 1, 4, 2, 74250, t)
      BY <1>3, Powers, Halves DEF InputSound, InputVcoKnown
    <2>5. SoundInput(InputRow(8, 320, 306, 3, 1, 0, 1, 4, 2), f, t)
      BY <2>2, <2>3, <2>4, InputRowSound
    <2> QED BY <1>1, <1>2, <1>7, <2>5
  <1>8. CASE i = 5
    <2>1. inside(f, 25000, 42500) BY <1>1, <1>2, <1>8
    <2>2. f \in {27000} BY <2>1 DEF inside, StandardFreqs
    <2>3. InputSound(5, 400, 386, 1, 1, 0, 2, 4, 3, 27000, t)
      BY <1>3, Powers, Halves DEF InputSound, InputVcoKnown
    <2>4. SoundInput(InputRow(5, 400, 386, 1, 1, 0, 2, 4, 3), f, t)
      BY <2>2, <2>3, InputRowSound
    <2> QED BY <1>1, <1>2, <1>8, <2>4
  <1>9. i = 1 \/ i = 2 \/ i = 3 \/ i = 4 \/ i = 5 BY <1>2
  <1> QED BY <1>9, <1>4, <1>5, <1>6, <1>7, <1>8

LEMMA Input54Rows ==
  ASSUME NEW f \in StandardFreqs, NEW t, IsRatio(t), t[1] = "5_4", NEW i \in DOMAIN Input_5_4,
         inside(f, Input_5_4[i][1], Input_5_4[i][2])
  PROVE  SoundInput(Input_5_4[i][3], f, t)
  <1> DEFINE p1 == <<272000, 480000, InputRow(48, 600, 586, 3, 5, 1, 1, 1, 0)>>
             p2 == <<136000, 272000, InputRow(26, 325, 311, 2, 4, 0, 1, 1, 0)>>
             p3 == <<68000, 136000, InputRow(13, 325, 311, 2, 2, 0, 1, 2, 1)>>
             p4 == <<34000, 68000, InputRow(6, 300, 286, 2, 1, 0, 1, 4, 2)>>
             p5 == <<25000, 34000, InputRow(4, 400, 386, 1, 1, 0, 2, 4, 3)>>
  <1>1. /\ p1[1] = 272000 /\ p1[2] = 480000 /\ p1[3] = InputRow(48, 600, 586, 3, 5, 1, 1, 1, 0)
        /\ p2[1] = 136000 /\ p2[2] = 272000 /\ p2[3] = InputRow(26, 325, 311, 2, 4, 0, 1, 1, 0)
        /\ p3[1] = 68000 /\ p3[2] = 136000 /\ p3[3] = InputRow(13, 325, 311, 2, 2, 0, 1, 2, 1)
        /\ p4[1] = 34000 /\ p4[2] = 68000 /\ p4[3] = InputRow(6, 300, 286, 2, 1, 0, 1, 4, 2)
        /\ p5[1] = 25000 /\ p5[2] = 34000 /\ p5[3] = InputRow(4, 400, 386, 1, 1, 0, 2, 4, 3)
    OBVIOUS
  <1>2. /\ DOMAIN Input_5_4 = 1 .. 5
        /\ Input_5_4[1] = p1
        /\ Input_5_4[2] = p2
        /\ Input_5_4[3] = p3
        /\ Input_5_4[4] = p4
        /\ Input_5_4[5] = p5
    BY DEF Input_5_4
  <1> HIDE DEF p1, p2, p3, p4, p5
  <1>3. t[2] = 5 /\ t[3] = 4 BY DEF IsRatio
  <1>4. CASE i = 1
    <2>1. inside(f, 272000, 480000) BY <1>1, <1>2, <1>4
    <2>2. f \in {297000} BY <2>1 DEF inside, StandardFreqs
    <2>3. InputSound(48, 600, 586, 3, 5, 1, 1, 1, 0, 297000, t)
      BY <1>3, Powers, Halves DEF InputSound, InputVcoKnown
    <2>4. SoundInput(InputRow(48, 600, 586, 3, 5, 1, 1, 1, 0), f, t)
      BY <2>2, <2>3, InputRowSound
    <2> QED BY <1>1, <1>2, <1>4, <2>4
  <1>5. CASE i = 2
    <2>1. inside(f, 136000, 272000) BY <1>1, <1>2, <1>5
    <2>2. f \in {148500, 198000} BY <2>1 DEF inside, StandardFreqs
    <2>3. InputSound(26, 325, 311, 2, 4, 0, 1, 1, 0, 148500, t)
      BY <1>3, Powers, Halves DEF InputSound, InputVcoKnown
    <2>4. InputSound(26, 325, 311, 2, 4, 0, 1, 1, 0, 198000, t)
      BY <1>3, Powers, Halves DEF InputSound, InputVcoKnown
    <2>5. SoundInput(InputRow(26, 325, 311, 2, 4, 0, 1, 1, 0), f, t)
      BY <2>2, <2>3, <2>4, InputRowSound
    <2> QED BY <1>1, <1>2, <1>5, <2>5
  <1>6. CASE i = 3
    <2>1. inside(f, 68000, 136000) BY <1>1, <1>2, <1>6
    <2>2. f \in {74250, 99000} BY <2>1 DEF inside, StandardFreqs
    <2>3. InputSound(13, 325, 311, 2, 2, 0, 1, 2, 1, 74250, t)
      BY <1>3, Powers, Halves DEF InputSound, InputVcoKnown
    <2>4. InputSound(13, 325, 311, 2, 2, 0, 1, 2, 1, 99000, t)
      BY <1>3, Powers, Halves DEF InputSound, InputVcoKnown
    <2>5. SoundInput(InputRow(13, 325, 311, 2, 2, 0, 1, 2, 1), f, t)
      BY <2>2, <2>3, <2>4, InputRowSound
    <2> QED BY <1>1, <1>2, <1>6, <2>5
  <1>7. CASE i = 4
    <2>1. inside(f, 34000, 68000) BY <1>1, <1>2, <1>7
    <2>2. f \in {54000} BY <2>1 DEF inside, StandardFreqs
    <2>3. InputSound(6, 300, 286, 2, 1, 0, 1, 4, 2, 54000, t)
      BY <1>3, Powers, Halves DEF InputSound, InputVcoKnown
    <2>4. SoundInput(InputRow(6, 300, 286, 2, 1, 0, 1, 4, 2), f, t)
      BY <2>2, <2>3, InputRowSound
    <2> QED BY <1>1, <1>2, <1>7, <2>4
  <1>8. CASE i = 5
    <2>1. inside(f, 25000, 34000) BY <1>1, <1>2, <1>8
    <2>2. f \in {27000} BY <2>1 DEF inside, StandardFreqs
    <2>3. InputSound(4, 400, 386, 1, 1, 0, 2, 4, 3, 27000, t)
      BY <1>3, Powers, Halves DEF InputSound, InputVcoKnown
    <2>4. SoundInput(InputRow(4, 400, 386, 1, 1, 0, 2, 4, 3), f, t)
      BY <2>2, <2>3, InputRowSound
    <2> QED BY <1>1, <1>2, <1>8, <2>4
  <1>9. i = 1 \/ i = 2 \/ i = 3 \/ i = 4 \/ i = 5 BY <1>2
  <1> QED BY <1>9, <1>4, <1>5, <1>6, <1>7, <1>8

LEMMA Input32Rows ==
  ASSUME NEW f \in StandardFreqs, NEW t, IsRatio(t), t[1] = "3_2", NEW i \in DOMAIN Input_3_2,
         inside(f, Input_3_2[i][1], Input_3_2[i][2])
  PROVE  SoundInput(Input_3_2[i][3], f, t)
  <1> DEFINE p1 == <<226000, 400000, InputRow(40, 600, 586, 3, 4, 1, 1, 1, 0)>>
             p2 == <<113000, 226000, InputRow(22, 330, 316, 1, 5, 0, 1, 1, 0)>>
             p3 == <<56000, 113000, InputRow(11, 330, 316, 0, 5, 0, 1, 2, 1)>>
             p4 == <<28000, 56000, InputRow(6, 360, 346, 2, 1, 0, 1, 4, 2)>>
             p5 == <<25000, 28000, InputRow(3, 360, 346, 1, 1, 0, 2, 4, 3)>>
  <1>1. /\ p1[1] = 226000 /\ p1[2] = 400000 /\ p1[3] = InputRow(40, 600, 586, 3, 4, 1, 1, 1, 0)
        /\ p2[1] = 113000 /\ p2[2] = 226000 /\ p2[3] = InputRow(22, 330, 316, 1, 5, 0, 1, 1, 0)
        /\ p3[1] = 56000 /\ p3[2] = 113000 /\ p3[3] = InputRow(11, 330, 316, 0, 5, 0, 1, 2, 1)
        /\ p4[1] = 28000 /\ p4[2] = 56000 /\ p4[3] = InputRow(6, 360, 346, 2, 1, 0, 1, 4, 2)
        /\ p5[1] = 25000 /\ p5[2] = 28000 /\ p5[3] = InputRow(3, 360, 346, 1, 1, 0, 2, 4, 3)
    OBVIOUS
  <1>2. /\ DOMAIN Input_3_2 = 1 .. 5
        /\ Input_3_2[1] = p1
        /\ Input_3_2[2] = p2
        /\ Input_3_2[3] = p3
        /\ Input_3_2[4] = p4
        /\ Input_3_2[5] = p5
    BY DEF Input_3_2
  <1> HIDE DEF p1, p2, p3, p4, p5
  <1>3. t[2] = 3 /\ t[3] = 2 BY DEF IsRatio
  <1>4. CASE i = 1
    <2>1. inside(f, 226000, 400000) BY <1>1, <1>2, <1>4
    <2>2. f \in {297000} BY <2>1 DEF inside, StandardFreqs
    <2>3. InputSound(40, 600, 586, 3, 4, 1, 1, 1, 0, 297000, t)
      BY <1>3, Powers, Halves DEF InputSound, InputVcoKnown
    <2>4. SoundInput(InputRow(40, 600, 586, 3, 4, 1, 1, 1, 0), f, t)
      BY <2>2, <2>3, InputRowSound
    <2> QED BY <1>1, <1>2, <1>4, <2>4
  <1>5. CASE i = 2
    <2>1. inside(f, 113000, 226000) BY <1>1, <1>2, <1>5
    <2>2. f \in {148500, 198000} BY <2>1 DEF inside, StandardFreqs
    <2>3. InputSound(22, 330, 316, 1, 5, 0, 1, 1, 0, 148500, t)
      BY <1>3, Powers, Halves DEF InputSound, InputVcoKnown
    <2>4. InputSound(22, 330, 316, 1, 5, 0, 1, 1, 0, 198000, t)
      BY <1>3, Powers, Halves DEF InputSound, InputVcoKnown
    <2>5. SoundInput(InputRow(22, 330, 316, 1, 5, 0, 1, 1, 0), f, t)
      BY <2>2, <2>3, <2>4, InputRowSound
    <2> QED BY <1>1, <1>2, <1>5, <2>5
  <1>6. CASE i = 3
    <2>1. inside(f, 56000, 113000) BY <1>1, <1>2, <1>6
    <2>2. f \in {74250, 99000} BY <2>1 DEF inside, StandardFreqs
    <2>3. InputSound(11, 330, 316, 0, 5, 0, 1, 2, 1, 74250, t)
      BY <1>3, Powers, Halves DEF InputSound, InputVcoKnown
    <2>4. InputSound(11, 330, 316, 0, 5, 0, 1, 2, 1, 99000, t)
      BY <1>3, Powers, Halves DEF InputSound, InputVcoKnown
    <2>5. SoundInput(InputRow(11, 330, 316, 0, 5, 0, 1, 2, 1), f, t)
      BY <2>2, <2>3, <2>4, InputRowSound
    <2> QED BY <1>1, <1>2, <1>6, <2>5
  <1>7. CASE i = 4
    <2>1. inside(f, 28000, 56000) BY <1>1, <1>2, <1>7
    <2>2. f \in {54000} BY <2>1 DEF inside, StandardFreqs
    <2>3. InputSound(6, 360, 346, 2, 1, 0, 1, 4, 2, 54000, t)
      BY <1>3, Powers, Halves DEF InputSound, InputVcoKnown
    <2>4. SoundInput(InputRow(6, 360, 346, 2, 1, 0, 1, 4, 2), f, t)
      BY <2>2, <2>3, InputRowSound
    <2> QED BY <1>1, <1>2, <1>7, <2>4
  <1>8. CASE i = 5
    <2>1. inside(f, 25000, 28000) BY <1>1, <1>2, <1>8
    <2>2. f \in {27000} BY <2>1 DEF inside, StandardFreqs
    <2>3. InputSound(3, 360, 346, 1, 1, 0, 2, 4, 3, 27000, t)
      BY <1>3, Powers, Halves DEF InputSound, InputVcoKnown
    <2>4. SoundInput(InputRow(3, 360, 346, 1, 1, 0, 2, 4, 3), f, t)
      BY <2>2, <2>3, InputRowSound
    <2> QED BY <1>1, <1>2, <1>8, <2>4
  <1>9. i = 1 \/ i = 2 \/ i = 3 \/ i = 4 \/ i = 5 BY <1>2
  <1> QED BY <1>9, <1>4, <1>5, <1>6, <1>7, <1>8

LEMMA Input21Rows ==
  ASSUME NEW f \in StandardFreqs, NEW t, IsRatio(t), t[1] = "2_1", NEW i \in DOMAIN Input_2_1,
         inside(f, Input_2_1[i][1], Input_2_1[i][2])
  PROVE  SoundInput(Input_2_1[i][3], f, t)
  <1> DEFINE p1 == <<170000, 300000, InputRow(34, 680, 666, 1, 6, 1, 1, 1, 0)>>
             p2 == <<85000, 170000, InputRow(17, 340, 326, 0, 7, 0, 1, 1, 0)>>
             p3 == <<42500, 85000, InputRow(8, 320, 306, 3, 1, 0, 1, 2, 1)>>
             p4 == <<25000, 42500, InputRow(5, 400, 386, 1, 1, 0, 1, 4, 2)>>
  <1>1. /\ p1[1] = 170000 /\ p1[2] = 300000 /\ p1[3] = InputRow(34, 680, 666, 1, 6, 1, 1, 1, 0)
        /\ p2[1] = 85000 /\ p2[2] = 170000 /\ p2[3] = InputRow(17, 340, 326, 0, 7, 0, 1, 1, 0)
        /\ p3[1] = 42500 /\ p3[2] = 85000 /\ p3[3] = InputRow(8, 320, 306, 3, 1, 0, 1, 2, 1)
        /\ p4[1] = 25000 /\ p4[2] = 42500 /\ p4[3] = InputRow(5, 400, 386, 1, 1, 0, 1, 4, 2)
    OBVIOUS
  <1>2. /\ DOMAIN Input_2_1 = 1 .. 4
        /\ Input_2_1[1] = p1
        /\ Input_2_1[2] = p2
        /\ Input_2_1[3] = p3
        /\ Input_2_1[4] = p4
    BY DEF Input_2_1
  <1> HIDE DEF p1, p2, p3, p4
  <1>3. t[2] = 2 /\ t[3] = 1 BY DEF IsRatio
  <1>4. CASE i = 1
    <2>1. inside(f, 170000, 300000) BY <1>1, <1>2, <1>4
    <2>2. f \in {198000, 297000} BY <2>1 DEF inside, StandardFreqs
    <2>3. InputSound(34, 680, 666, 1, 6, 1, 1, 1, 0, 198000, t)
      BY <1>3, Powers, Halves DEF InputSound, InputVcoKnown
    <2>4. InputSound(34, 680, 666, 1, 6, 1, 1, 1, 0, 297000, t)
      BY <1>3, Powers, Halves DEF InputSound, InputVcoKnown
    <2>5. SoundInput(InputRow(34, 680, 666, 1, 6, 1, 1, 1, 0), f, t)
      BY <2>2, <2>3, <2>4, InputRowSound
    <2> QED BY <1>1, <1>2, <1>4, <2>5
  <1>5. CASE i = 2
    <2>1. inside(f, 85000, 170000) BY <1>1, <1>2, <1>5
    <2>2. f \in {99000, 148500} BY <2>1 DEF inside, StandardFreqs
    <2>3. InputSound(17, 340, 326, 0, 7, 0, 1, 1, 0, 99000, t)
      BY <1>3, Powers, Halves DEF InputSound, InputVcoKnown
    <2>4. InputSound(17, 340, 326, 0, 7, 0, 1, 1, 0, 148500, t)
      BY <1>3, Powers, Halves DEF InputSound, InputVcoKnown
    <2>5. SoundInput(InputRow(17, 340, 326, 0, 7, 0, 1, 1, 0), f, t)
      BY <2>2, <2>3, <2>4, InputRowSound
    <2> QED BY <1>1, <1>2, <1>5, <2>5
  <1>6. CASE i = 3
    <2>1. inside(f, 42500, 85000) BY <1>1, <1>2, <1>6
    <2>2. f \in {54000, 74250} BY <2>1 DEF inside, StandardFreqs
    <2>3. InputSound(8, 320, 306, 3, 1, 0, 1, 2, 1, 54000, t)
      BY <1>3, Powers, Halves DEF InputSound, InputVcoKnown
    <2>4. InputSound(8, 320, 306, 3, 1, 0, 1, 2, 1, 74250, t)
      BY <1>3, Powers, Halves DEF InputSound, InputVcoKnown
    <2>5. SoundInput(InputRow(8, 320, 306, 3, 1, 0, 1, 2, 1), f, t)
      BY <2>2, <2>3, <2>4, InputRowSound
    <2> QED BY <1>1, <1>2, <1>6, <2>5
  <1>7. CASE i = 4
    <2>1. inside(f, 25000, 42500) BY <1>1, <1>2, <1>7
    <2>2. f \in {27000} BY <2>1 DEF inside, StandardFreqs
    <2>3. InputSound(5, 400, 386, 1, 1, 0, 1, 4, 2, 27000, t)
      BY <1>3, Powers, Halves DEF InputSound, InputVcoKnown
    <2>4. SoundInput(InputRow(5, 400, 386, 1, 1, 0, 1, 4, 2), f, t)
      BY <2>2, <2>3, InputRowSound
    <2> QED BY <1>1, <1>2, <1>7, <2>4
  <1>8. i = 1 \/ i = 2 \/ i = 3 \/ i = 4 BY <1>2
  <1> QED BY <1>8, <1>4, <1>5, <1>6, <1>7

LEMMA Input12Rows ==
  ASSUME NEW f \in StandardFreqs, NEW t, IsRatio(t), t[1] = "1_2", NEW i \in DOMAIN Input594000(600, 586, 2, 1),
         inside(f, Input594000(600, 586, 2, 1)[i][1], Input594000(600, 586, 2, 1)[i][2])
  PROVE  SoundInput(Input594000(600, 586, 2, 1)[i][3], f, t)
  <1> DEFINE p1 == <<594000, 594000, InputRow(60, 600, 586, 3, 6, 1, 1, 2, 1)>>
  <1>1. /\ p1[1] = 594000 /\ p1[2] = 594000 /\ p1[3] = InputRow(60, 600, 586, 3, 6, 1, 1, 2, 1)
    OBVIOUS
  <1>2. /\ DOMAIN Input594000(600, 586, 2, 1) = 1 .. 1
        /\ Input594000(600, 586, 2, 1)[1] = p1
    BY DEF Input594000
  <1> HIDE DEF p1
  <1>3. t[2] = 1 /\ t[3] = 2 BY DEF IsRatio
  <1>4. CASE i = 1
    <2>1. inside(f, 594000, 594000) BY <1>1, <1>2, <1>4
    <2>2. f \in {594000} BY <2>1 DEF inside, StandardFreqs
    <2>3. InputSound(60, 600, 586, 3, 6, 1, 1, 2, 1, 594000, t)
      BY <1>3, Powers, Halves DEF InputSound, InputVcoKnown
    <2>4. SoundInput(InputRow(60, 600, 586, 3, 6, 1, 1, 2, 1), f, t)
      BY <2>2, <2>3, InputRowSound
    <2> QED BY <1>1, <1>2, <1>4, <2>4
  <1>5. i = 1 BY <1>2
  <1> QED BY <1>5, <1>4

LEMMA Input58Rows ==
  ASSUME NEW f \in StandardFreqs, NEW t, IsRatio(t), t[1] = "5_8", NEW i \in DOMAIN Input594000(375, 361, 1, 0),
         inside(f, Input594000(375, 361, 1, 0)[i][1], Input594000(375, 361, 1, 0)[i][2])
  PROVE  SoundInput(Input594000(375, 361, 1, 0)[i][3], f, t)
  <1> DEFINE p1 == <<594000, 594000, InputRow(60, 375, 361, 3, 6, 1, 1, 1, 0)>>
  <1>1. /\ p1[1] = 594000 /\ p1[2] = 594000 /\ p1[3] = InputRow(60, 375, 361, 3, 6, 1, 1, 1, 0)
    OBVIOUS
  <1>2. /\ DOMAIN Input594000(375, 361, 1, 0) = 1 .. 1
        /\ Input594000(375, 361, 1, 0)[1] = p1
    BY DEF Input594000
  <1> HIDE DEF p1
  <1>3. t[2] = 5 /\ t[3] = 8 BY DEF IsRatio
  <1>4. CASE i = 1
    <2>1. inside(f, 594000, 594000) BY <1>1, <1>2, <1>4
    <2>2. f \in {594000} BY <2>1 DEF inside, StandardFreqs
    <2>3. InputSound(60, 375, 361, 3, 6, 1, 1, 1, 0, 594000, t)
      BY <1>3, Powers, Halves DEF InputSound, InputVcoKnown
    <2>4. SoundInput(InputRow(60, 375, 361, 3, 6, 1, 1, 1, 0), f, t)
      BY <2>2, <2>3, InputRowSound
    <2> QED BY <1>1, <1>2, <1>4, <2>4
  <1>5. i = 1 BY <1>2
  <1> QED BY <1>5, <1>4

LEMMA Input34Rows ==
  ASSUME NEW f \in StandardFreqs, NEW t, IsRatio(t), t[1] = "3_4", NEW i \in DOMAIN Input594000(450, 436, 1, 0),
         inside(f, Input594000(450, 436, 1, 0)[i][1], Input594000(450, 436, 1, 0)[i][2])
  PROVE  SoundInput(Input594000(450, 436, 1, 0)[i][3], f, t)
  <1> DEFINE p1 == <<594000, 594000, InputRow(60, 450, 436, 3, 6, 1, 1, 1, 0)>>
  <1>1. /\ p1[1] = 594000 /\ p1[2] = 594000 /\ p1[3] = InputRow(60, 450, 436, 3, 6, 1, 1, 1, 0)
    OBVIOUS
  <1>2. /\ DOMAIN Input594000(450, 436, 1, 0) = 1 .. 1
        /\ Input594000(450, 436, 1, 0)[1] = p1
    BY DEF Input594000
  <1> HIDE DEF p1
  <1>3. t[2] = 3 /\ t[3] = 4 BY DEF IsRatio
  <1>4. CASE i = 1
    <2>1. inside(f, 594000, 594000) BY <1>1, <1>2, <1>4
    <2>2. f \in {594000} BY <2>1 DEF inside, StandardFreqs
    <2>3. InputSound(60, 450, 436, 3, 6, 1, 1, 1, 0, 594000, t)
      BY <1>3, Powers, Halves DEF InputSound, InputVcoKnown
    <2>4. SoundInput(InputRow(60, 450, 436, 3, 6, 1, 1, 1, 0), f, t)
      BY <2>2, <2>3, InputRowSound
    <2> QED BY <1>1, <1>2, <1>4, <2>4
  <1>5. i = 1 BY <1>2
  <1> QED BY <1>5, <1>4

LEMMA InputCase ==
  /\ CaseOf(InputTable, "1_1") = {Input_1_1}
  /\ CaseOf(InputTable, "5_4") = {Input_5_4}
  /\ CaseOf(InputTable, "3_2") = {Input_3_2}
  /\ CaseOf(InputTable, "2_1") = {Input_2_1}
  /\ CaseOf(InputTable, "1_2") = {Input594000(600, 586, 2, 1)}
  /\ CaseOf(InputTable, "5_8") = {Input594000(375, 361, 1, 0)}
  /\ CaseOf(InputTable, "3_4") = {Input594000(450, 436, 1, 0)}
  /\ \A x : CaseOf(InputTable, x) # {} => x \in {"1_1", "5_4", "3_2", "2_1", "1_2", "5_8", "3_4"}
  <1> DEFINE q5 == Input594000(600, 586, 2, 1)
             q6 == Input594000(375, 361, 1, 0)
             q7 == Input594000(450, 436, 1, 0)
             p1 == <<"1_1", Input_1_1>>
             p2 == <<"5_4", Input_5_4>>
             p3 == <<"3_2", Input_3_2>>
             p4 == <<"2_1", Input_2_1>>
             p5 == <<"1_2", q5>>
             p6 == <<"5_8", q6>>
             p7 == <<"3_4", q7>>
  <1>1. /\ p1[1] = "1_1" /\ p1[2] = Input_1_1
        /\ p2[1] = "5_4" /\ p2[2] = Input_5_4
        /\ p3[1] = "3_2" /\ p3[2] = Input_3_2
        /\ p4[1] = "2_1" /\ p4[2] = Input_2_1
        /\ p5[1] = "1_2" /\ p5[2] = q5
        /\ p6[1] = "5_8" /\ p6[2] = q6
        /\ p7[1] = "3_4" /\ p7[2] = q7
    OBVIOUS
  <1>2. InputTable = {p1, p2, p3, p4, p5, p6, p7} BY DEF InputTable
  <1> HIDE DEF p1, p2, p3, p4, p5, p6, p7, q5, q6, q7
  <1>3. \A y : y \in CaseOf(InputTable, "1_1") <=> y = Input_1_1 BY <1>1, <1>2, CaseOfIn
  <1>4. \A y : y \in CaseOf(InputTable, "5_4") <=> y = Input_5_4 BY <1>1, <1>2, CaseOfIn
  <1>5. \A y : y \in CaseOf(InputTable, "3_2") <=> y = Input_3_2 BY <1>1, <1>2, CaseOfIn
  <1>6. \A y : y \in CaseOf(InputTable, "2_1") <=> y = Input_2_1 BY <1>1, <1>2, CaseOfIn
  <1>7. \A y : y \in CaseOf(InputTable, "1_2") <=> y = q5 BY <1>1, <1>2, CaseOfIn
  <1>8. \A y : y \in CaseOf(InputTable, "5_8") <=> y = q6 BY <1>1, <1>2, CaseOfIn
  <1>9. \A y : y \in CaseOf(InputTable, "3_4") <=> y = q7 BY <1>1, <1>2, CaseOfIn
  <1>10. ASSUME NEW x, CaseOf(InputTable, x) # {}
         PROVE  x \in {"1_1", "5_4", "3_2", "2_1", "1_2", "5_8", "3_4"}
    <2>1. PICK y : y \in CaseOf(InputTable, x) BY <1>10
    <2> QED BY <1>1, <1>2, <2>1, CaseOfIn
  <1>11. /\ CaseOf(InputTable, "1_1") = {Input_1_1} /\ CaseOf(InputTable, "5_4") = {Input_5_4}
         /\ CaseOf(InputTable, "3_2") = {Input_3_2} /\ CaseOf(InputTable, "2_1") = {Input_2_1}
         /\ CaseOf(InputTable, "1_2") = {q5} /\ CaseOf(InputTable, "5_8") = {q6}
         /\ CaseOf(InputTable, "3_4") = {q7}
    BY <1>3, <1>4, <1>5, <1>6, <1>7, <1>8, <1>9
  <1> QED BY <1>10, <1>11 DEF q5, q6, q7

LEMMA InputRows ==
  ASSUME NEW f \in StandardFreqs, NEW t, IsRatio(t), NEW r \in PllRows(f, t[1], FALSE)
  PROVE  PllRows(f, t[1], FALSE) = {r} /\ SoundInput(r, f, t)
  <1> DEFINE Found == PllRows(f, t[1], FALSE) = {r} /\ SoundInput(r, f, t)
  <1>1. t[1] \in {"1_1", "5_4", "3_2", "2_1", "1_2", "5_8", "3_4"}
    <2>1. CaseOf(InputTable, t[1]) # {} BY DEF PllRows
    <2> QED BY <2>1, InputCase
  <1>2. Found
    <2>1. CASE t[1] = "1_1"
      <3>1. DOMAIN Input_1_1 \subseteq Int BY DEF Input_1_1
      <3>2. CaseOf(InputTable, t[1]) = {Input_1_1} BY <2>1, InputCase
      <3>3. ASSUME NEW i \in DOMAIN Input_1_1, inside(f, Input_1_1[i][1], Input_1_1[i][2])
            PROVE  SoundInput(Input_1_1[i][3], f, t)
        BY <2>1, <3>3, Input11Rows
      <3> QED BY <3>1, <3>2, <3>3, OneInputRow
    <2>2. CASE t[1] = "5_4"
      <3>1. DOMAIN Input_5_4 \subseteq Int BY DEF Input_5_4
      <3>2. CaseOf(InputTable, t[1]) = {Input_5_4} BY <2>2, InputCase
      <3>3. ASSUME NEW i \in DOMAIN Input_5_4, inside(f, Input_5_4[i][1], Input_5_4[i][2])
            PROVE  SoundInput(Input_5_4[i][3], f, t)
        BY <2>2, <3>3, Input54Rows
      <3> QED BY <3>1, <3>2, <3>3, OneInputRow
    <2>3. CASE t[1] = "3_2"
      <3>1. DOMAIN Input_3_2 \subseteq Int BY DEF Input_3_2
      <3>2. CaseOf(InputTable, t[1]) = {Input_3_2} BY <2>3, InputCase
      <3>3. ASSUME NEW i \in DOMAIN Input_3_2, inside(f, Input_3_2[i][1], Input_3_2[i][2])
            PROVE  SoundInput(Input_3_2[i][3], f, t)
        BY <2>3, <3>3, Input32Rows
      <3> QED BY <3>1, <3>2, <3>3, OneInputRow
    <2>4. CASE t[1] = "2_1"
      <3>1. DOMAIN Input_2_1 \subseteq Int BY DEF Input_2_1
      <3>2. CaseOf(InputTable, t[1]) = {Input_2_1} BY <2>4, InputCase
      <3>3. ASSUME NEW i \in DOMAIN Input_2_1, inside(f, Input_2_1[i][1], Input_2_1[i][2])
            PROVE  SoundInput(Input_2_1[i][3], f, t)
        BY <2>4, <3>3, Input21Rows
      <3> QED BY <3>1, <3>2, <3>3, OneInputRow
    <2>5. CASE t[1] = "1_2"
      <3> DEFINE table == Input594000(600, 586, 2, 1)
      <3>1. DOMAIN table \subseteq Int BY DEF Input594000
      <3>2. CaseOf(InputTable, t[1]) = {table} BY <2>5, InputCase
      <3>3. ASSUME NEW i \in DOMAIN table, inside(f, table[i][1], table[i][2])
            PROVE  SoundInput(table[i][3], f, t)
        BY <2>5, <3>3, Input12Rows
      <3> HIDE DEF table
      <3> QED BY <3>1, <3>2, <3>3, OneInputRow
    <2>6. CASE t[1] = "5_8"
      <3> DEFINE table == Input594000(375, 361, 1, 0)
      <3>1. DOMAIN table \subseteq Int BY DEF Input594000
      <3>2. CaseOf(InputTable, t[1]) = {table} BY <2>6, InputCase
      <3>3. ASSUME NEW i \in DOMAIN table, inside(f, table[i][1], table[i][2])
            PROVE  SoundInput(table[i][3], f, t)
        BY <2>6, <3>3, Input58Rows
      <3> HIDE DEF table
      <3> QED BY <3>1, <3>2, <3>3, OneInputRow
    <2>7. CASE t[1] = "3_4"
      <3> DEFINE table == Input594000(450, 436, 1, 0)
      <3>1. DOMAIN table \subseteq Int BY DEF Input594000
      <3>2. CaseOf(InputTable, t[1]) = {table} BY <2>7, InputCase
      <3>3. ASSUME NEW i \in DOMAIN table, inside(f, table[i][1], table[i][2])
            PROVE  SoundInput(table[i][3], f, t)
        BY <2>7, <3>3, Input34Rows
      <3> HIDE DEF table
      <3> QED BY <3>1, <3>2, <3>3, OneInputRow
    <2> HIDE DEF Found
    <2> QED BY <1>1, <2>1, <2>2, <2>3, <2>4, <2>5, <2>6, <2>7
  <1> QED BY <1>2

-----------------------------------------------------------------------------
(* Setting fields: a value that fits is what the field then holds.          *)

LEMMA FieldLimit ==
  ASSUME NEW x \in Fields
  PROVE  /\ Largest[x] \in Nat
         /\ 2^(FieldPosition[x][1] - FieldPosition[x][2] + 1) - 1 = Largest[x]
  <1> DEFINE Limit(y, m, l, v) ==
                 Largest[y] = v /\ FieldPosition[y][1] = m /\ FieldPosition[y][2] = l
  <1>1. /\ Limit("cmnda_pll0_hs_sym_div_sel", 9, 8, 3)
        /\ Limit("cmnda_pll0_ip_div", 7, 0, 255)
        /\ Limit("cmnda_pll0_fb_div_low", 9, 0, 1023)
        /\ Limit("cmnda_pll0_fb_div_high", 9, 0, 1023)
        /\ Limit("cmn_ref_clk_dig_div", 13, 12, 3)
        /\ Limit("divider_scaler", 14, 12, 7)
        /\ Limit("cmnda_hs_clk_0_sel", 1, 0, 3)
        /\ Limit("cmnda_hs_clk_1_sel", 1, 0, 3)
        /\ Limit("tx_subrate", 2, 0, 7)
        /\ Limit("voltage_to_current_coarse", 2, 0, 7)
        /\ Limit("voltage_to_current", 5, 4, 3)
        /\ Limit("ndac_ctrl", 11, 8, 15)
        /\ Limit("pmos_ctrl", 7, 0, 255)
        /\ Limit("ptat_ndac_ctrl", 5, 0, 63)
        /\ Limit("charge_pump_gain", 8, 0, 511)
        /\ Limit("vco_ring_select", 12, 12, 1)
        /\ Limit("pll_feedback_divider_total", 9, 0, 1023)
        /\ Limit("cmnda_pll0_pxdiv_high", 9, 0, 1023)
        /\ Limit("cmnda_pll0_pxdiv_low", 9, 0, 1023)
        /\ Limit("coarse_code", 7, 0, 255)
        /\ Limit("v2i_code", 3, 0, 15)
        /\ Limit("vco_cal_code", 8, 0, 511)
    BY DEF Largest, FieldPosition
  <1> HIDE DEF Limit
  <1>2. ASSUME Limit(x, 1, 0, 3) PROVE Largest[x] \in Nat
        /\ 2^(FieldPosition[x][1] - FieldPosition[x][2] + 1) - 1 = Largest[x]
    <2>1. 1 - 0 + 1 = 2 OBVIOUS
    <2> QED BY <1>2, <2>1, Powers DEF Limit
  <1>3. ASSUME Limit(x, 2, 0, 7) PROVE Largest[x] \in Nat
        /\ 2^(FieldPosition[x][1] - FieldPosition[x][2] + 1) - 1 = Largest[x]
    <2>1. 2 - 0 + 1 = 3 OBVIOUS
    <2> QED BY <1>3, <2>1, Powers DEF Limit
  <1>4. ASSUME Limit(x, 3, 0, 15) PROVE Largest[x] \in Nat
        /\ 2^(FieldPosition[x][1] - FieldPosition[x][2] + 1) - 1 = Largest[x]
    <2>1. 3 - 0 + 1 = 4 OBVIOUS
    <2> QED BY <1>4, <2>1, Powers DEF Limit
  <1>5. ASSUME Limit(x, 5, 0, 63) PROVE Largest[x] \in Nat
        /\ 2^(FieldPosition[x][1] - FieldPosition[x][2] + 1) - 1 = Largest[x]
    <2>1. 5 - 0 + 1 = 6 OBVIOUS
    <2> QED BY <1>5, <2>1, Powers DEF Limit
  <1>6. ASSUME Limit(x, 5, 4, 3) PROVE Largest[x] \in Nat
        /\ 2^(FieldPosition[x][1] - FieldPosition[x][2] + 1) - 1 = Largest[x]
    <2>1. 5 - 4 + 1 = 2 OBVIOUS
    <2> QED BY <1>6, <2>1, Powers DEF Limit
  <1>7. ASSUME Limit(x, 7, 0, 255) PROVE Largest[x] \in Nat
        /\ 2^(FieldPosition[x][1] - FieldPosition[x][2] + 1) - 1 = Largest[x]
    <2>1. 7 - 0 + 1 = 8 OBVIOUS
    <2> QED BY <1>7, <2>1, Powers DEF Limit
  <1>8. ASSUME Limit(x, 8, 0, 511) PROVE Largest[x] \in Nat
        /\ 2^(FieldPosition[x][1] - FieldPosition[x][2] + 1) - 1 = Largest[x]
    <2>1. 8 - 0 + 1 = 9 OBVIOUS
    <2> QED BY <1>8, <2>1, Powers DEF Limit
  <1>9. ASSUME Limit(x, 9, 0, 1023) PROVE Largest[x] \in Nat
        /\ 2^(FieldPosition[x][1] - FieldPosition[x][2] + 1) - 1 = Largest[x]
    <2>1. 9 - 0 + 1 = 10 OBVIOUS
    <2> QED BY <1>9, <2>1, Powers DEF Limit
  <1>10. ASSUME Limit(x, 9, 8, 3) PROVE Largest[x] \in Nat
        /\ 2^(FieldPosition[x][1] - FieldPosition[x][2] + 1) - 1 = Largest[x]
    <2>1. 9 - 8 + 1 = 2 OBVIOUS
    <2> QED BY <1>10, <2>1, Powers DEF Limit
  <1>11. ASSUME Limit(x, 11, 8, 15) PROVE Largest[x] \in Nat
        /\ 2^(FieldPosition[x][1] - FieldPosition[x][2] + 1) - 1 = Largest[x]
    <2>1. 11 - 8 + 1 = 4 OBVIOUS
    <2> QED BY <1>11, <2>1, Powers DEF Limit
  <1>12. ASSUME Limit(x, 12, 12, 1) PROVE Largest[x] \in Nat
        /\ 2^(FieldPosition[x][1] - FieldPosition[x][2] + 1) - 1 = Largest[x]
    <2>1. 12 - 12 + 1 = 1 OBVIOUS
    <2> QED BY <1>12, <2>1, Powers DEF Limit
  <1>13. ASSUME Limit(x, 13, 12, 3) PROVE Largest[x] \in Nat
        /\ 2^(FieldPosition[x][1] - FieldPosition[x][2] + 1) - 1 = Largest[x]
    <2>1. 13 - 12 + 1 = 2 OBVIOUS
    <2> QED BY <1>13, <2>1, Powers DEF Limit
  <1>14. ASSUME Limit(x, 14, 12, 7) PROVE Largest[x] \in Nat
        /\ 2^(FieldPosition[x][1] - FieldPosition[x][2] + 1) - 1 = Largest[x]
    <2>1. 14 - 12 + 1 = 3 OBVIOUS
    <2> QED BY <1>14, <2>1, Powers DEF Limit
  <1>15. \/ Limit(x, 1, 0, 3)
        \/ Limit(x, 2, 0, 7)
        \/ Limit(x, 3, 0, 15)
        \/ Limit(x, 5, 0, 63)
        \/ Limit(x, 5, 4, 3)
        \/ Limit(x, 7, 0, 255)
        \/ Limit(x, 8, 0, 511)
        \/ Limit(x, 9, 0, 1023)
        \/ Limit(x, 9, 8, 3)
        \/ Limit(x, 11, 8, 15)
        \/ Limit(x, 12, 12, 1)
        \/ Limit(x, 13, 12, 3)
        \/ Limit(x, 14, 12, 7)
    <2>1. x \in {"cmnda_pll0_hs_sym_div_sel", "cmnda_pll0_ip_div", "cmnda_pll0_fb_div_low",
               "cmnda_pll0_fb_div_high", "cmn_ref_clk_dig_div", "divider_scaler",
               "cmnda_hs_clk_0_sel", "cmnda_hs_clk_1_sel", "tx_subrate",
               "voltage_to_current_coarse", "voltage_to_current", "ndac_ctrl",
               "pmos_ctrl", "ptat_ndac_ctrl", "charge_pump_gain",
               "vco_ring_select", "pll_feedback_divider_total", "cmnda_pll0_pxdiv_high",
               "cmnda_pll0_pxdiv_low", "coarse_code", "v2i_code",
               "vco_cal_code"}
      BY DEF Fields, FieldPosition
    <2> QED BY <1>1, <2>1
  <1> QED BY <1>15, <1>2, <1>3, <1>4, <1>5, <1>6, <1>7, <1>8, <1>9, <1>10, <1>11, <1>12, <1>13, <1>14

LEMMA FitsIn ==
  ASSUME NEW x \in Fields, NEW old, NEW v \in 0 .. Largest[x]
  PROVE  set_field_value(x, old, v) = v
  <1> DEFINE top == 2^(FieldPosition[x][1] - FieldPosition[x][2] + 1) - 1
  <1>1. top \in Nat /\ v \in 0 .. top BY FieldLimit
  <1>2. set_field_value(x, old, v) = IF v > top THEN old ELSE v BY DEF set_field_value
  <1> HIDE DEF top
  <1> QED BY <1>1, <1>2

(* A field some row sets, and every row that sets it to a value that fits.  *)
Settled(rows, x) ==
    /\ \E r \in rows : x \in DOMAIN r
    /\ \A r \in rows : x \in DOMAIN r => r[x] \in 0 .. Largest[x]

LEMMA SetSettled ==
  ASSUME NEW x \in Fields, NEW s, NEW rows, Settled(rows, x)
  PROVE  SetFields(s, rows)[x] = (CHOOSE r \in rows : x \in DOMAIN r)[x]
  <1> DEFINE c == CHOOSE r \in rows : x \in DOMAIN r
  <1>1. c \in rows /\ x \in DOMAIN c BY DEF Settled
  <1>2. SetFields(s, rows)[x] = set_field_value(x, s[x], c[x]) BY DEF Settled, SetFields
  <1> HIDE DEF c
  <1>3. c[x] \in 0 .. Largest[x] BY <1>1 DEF Settled
  <1>4. SetFields(s, rows)[x] = c[x] BY <1>2, <1>3, FitsIn
  <1> QED BY <1>4 DEF c

LEMMA SetOne ==
  ASSUME NEW x \in Fields, NEW s, NEW r, x \in DOMAIN r, r[x] \in 0 .. Largest[x]
  PROVE  SetFields(s, {r})[x] = r[x]
  <1>1. SetFields(s, {r})[x] = set_field_value(x, s[x], r[x]) BY DEF SetFields
  <1> QED BY <1>1, FitsIn

LEMMA SetApart ==
  ASSUME NEW x \in Fields, NEW s, NEW rows, \A r \in rows : x \notin DOMAIN r
  PROVE  SetFields(s, rows)[x] = s[x]
  BY DEF SetFields

-----------------------------------------------------------------------------
(* The rows of the VCO: they set the analogue fields and nothing else, to   *)
(* values that fit, and where a frequency is known they set all of them.    *)

AnalogueFields ==
    {"voltage_to_current_coarse", "voltage_to_current", "ndac_ctrl", "pmos_ctrl",
     "ptat_ndac_ctrl", "charge_pump_gain"}
CodeFields == {"coarse_code", "v2i_code", "vco_cal_code"}
VcoFieldsOut == AnalogueFields \union CodeFields

VcoRow(r) ==
    /\ DOMAIN r \subseteq AnalogueFields \union CodeFields
    /\ \A x \in DOMAIN r : r[x] \in 0 .. Largest[x]

LEMMA AnalogueRow ==
  ASSUME NEW v2ic \in 0 .. 7, NEW ndac \in 0 .. 15, NEW pmos \in 0 .. 255, NEW ptat \in 0 .. 63
  PROVE  /\ VcoRow(Analogue(v2ic, ndac, pmos, ptat))
         /\ DOMAIN Analogue(v2ic, ndac, pmos, ptat) = AnalogueFields \ {"charge_pump_gain"}
  <1> DEFINE r == Analogue(v2ic, ndac, pmos, ptat)
  <1>1. DOMAIN r = AnalogueFields \ {"charge_pump_gain"} BY DEF Analogue, AnalogueFields
  <1>2. /\ r["voltage_to_current_coarse"] = v2ic /\ r["voltage_to_current"] = 3
        /\ r["ndac_ctrl"] = ndac /\ r["pmos_ctrl"] = pmos /\ r["ptat_ndac_ctrl"] = ptat
    BY DEF Analogue
  <1>3. /\ Largest["voltage_to_current_coarse"] = 7 /\ Largest["voltage_to_current"] = 3
        /\ Largest["ndac_ctrl"] = 15 /\ Largest["pmos_ctrl"] = 255
        /\ Largest["ptat_ndac_ctrl"] = 63
    BY DEF Largest
  <1> HIDE DEF r
  <1>4. /\ r["voltage_to_current_coarse"] \in 0 .. Largest["voltage_to_current_coarse"]
        /\ r["voltage_to_current"] \in 0 .. Largest["voltage_to_current"]
        /\ r["ndac_ctrl"] \in 0 .. Largest["ndac_ctrl"]
        /\ r["pmos_ctrl"] \in 0 .. Largest["pmos_ctrl"]
        /\ r["ptat_ndac_ctrl"] \in 0 .. Largest["ptat_ndac_ctrl"]
    BY <1>2, <1>3
  <1>5. \A x \in DOMAIN r : r[x] \in 0 .. Largest[x]
    BY <1>1, <1>4, Zenon DEF AnalogueFields
  <1> QED BY <1>1, <1>5 DEF r, VcoRow

LEMMA CodesRow ==
  ASSUME NEW coarse \in 0 .. 255, NEW v2i \in 0 .. 15, NEW cal \in 0 .. 511, NEW r,
         r = [coarse_code |-> coarse, v2i_code |-> v2i, vco_cal_code |-> cal]
  PROVE  VcoRow(r) /\ DOMAIN r = CodeFields
  <1>1. DOMAIN r = CodeFields BY DEF CodeFields
  <1>2. r["coarse_code"] = coarse /\ r["v2i_code"] = v2i /\ r["vco_cal_code"] = cal OBVIOUS
  <1>3. Largest["coarse_code"] = 255 /\ Largest["v2i_code"] = 15 /\ Largest["vco_cal_code"] = 511
    BY DEF Largest
  <1>4. /\ r["coarse_code"] \in 0 .. Largest["coarse_code"]
        /\ r["v2i_code"] \in 0 .. Largest["v2i_code"]
        /\ r["vco_cal_code"] \in 0 .. Largest["vco_cal_code"]
    BY <1>2, <1>3
  <1>5. \A x \in DOMAIN r : r[x] \in 0 .. Largest[x] BY <1>1, <1>4, Zenon DEF CodeFields
  <1> QED BY <1>1, <1>5 DEF VcoRow

LEMMA GainRow ==
  ASSUME NEW g \in 0 .. 511
  PROVE  \A r \in Gain(g) : VcoRow(r) /\ DOMAIN r = {"charge_pump_gain"}
  <1>1. Largest["charge_pump_gain"] = 511 BY DEF Largest
  <1> QED BY <1>1 DEF Gain, VcoRow, AnalogueFields

LEMMA GainsRows ==
  ASSUME NEW gains, NEW fb, \A c \in gains : c[2] \in 0 .. 511
  PROVE  /\ \A r \in GainOf(gains, fb) : VcoRow(r)
         /\ (\E c \in gains : c[1] = fb) =>
                \E r \in GainOf(gains, fb) : "charge_pump_gain" \in DOMAIN r
  <1>1. ASSUME NEW r \in GainOf(gains, fb) PROVE VcoRow(r)
    <2>1. PICK g \in CaseOf(gains, fb) : r \in Gain(g) BY DEF GainOf
    <2>2. g \in 0 .. 511 BY <2>1 DEF CaseOf
    <2> QED BY <2>1, <2>2, GainRow
  <1>2. ASSUME NEW c \in gains, c[1] = fb
        PROVE  \E r \in GainOf(gains, fb) : "charge_pump_gain" \in DOMAIN r
    <2>1. c[2] \in CaseOf(gains, fb) BY <1>2 DEF CaseOf
    <2> DEFINE r == [charge_pump_gain |-> c[2]]
    <2>2. r \in GainOf(gains, fb) BY <2>1 DEF GainOf, Gain
    <2>3. "charge_pump_gain" \in DOMAIN r OBVIOUS
    <2> QED BY <2>2, <2>3
  <1> QED BY <1>1, <1>2

(* The rows one case of the VCO stands for.                                 *)
VcoSet(q) == \A r \in q : VcoRow(r)
Covers(q, fs) == \A x \in fs : \E r \in q : x \in DOMAIN r

VcoFits(v2ic, ndac, pmos, ptat, coarse, v2i, cal) ==
    /\ v2ic \in 0 .. 7 /\ ndac \in 0 .. 15 /\ pmos \in 0 .. 255 /\ ptat \in 0 .. 63
    /\ coarse \in 0 .. 255 /\ v2i \in 0 .. 15 /\ cal \in 0 .. 511

LEMMA OutputVcoRow ==
  ASSUME NEW v2ic, NEW ndac, NEW pmos, NEW ptat, NEW coarse, NEW v2i, NEW cal,
         VcoFits(v2ic, ndac, pmos, ptat, coarse, v2i, cal),
         NEW gains, VcoSet(gains)
  PROVE  LET q == OutputVco(v2ic, ndac, pmos, ptat, coarse, v2i, cal) \union gains
         IN  /\ VcoSet(q)
             /\ (\E r \in gains : "charge_pump_gain" \in DOMAIN r) => Covers(q, VcoFieldsOut)
  <1> DEFINE a == Analogue(v2ic, ndac, pmos, ptat)
             b == [coarse_code |-> coarse, v2i_code |-> v2i, vco_cal_code |-> cal]
             q == OutputVco(v2ic, ndac, pmos, ptat, coarse, v2i, cal) \union gains
  <1>1. q = {a, b} \union gains BY DEF OutputVco
  <1>2. VcoRow(a) /\ DOMAIN a = AnalogueFields \ {"charge_pump_gain"}
    BY AnalogueRow DEF VcoFits
  <1>3. VcoRow(b) /\ DOMAIN b = CodeFields BY CodesRow DEF VcoFits
  <1> HIDE DEF a, b, q
  <1>4. VcoSet(q) BY <1>1, <1>2, <1>3 DEF VcoSet
  <1>5. (\E r \in gains : "charge_pump_gain" \in DOMAIN r) => Covers(q, VcoFieldsOut)
    BY <1>1, <1>2, <1>3 DEF Covers, VcoFieldsOut
  <1> QED BY <1>4, <1>5 DEF q

LEMMA FixedGain ==
  ASSUME NEW v2ic, NEW ndac, NEW pmos, NEW ptat, NEW coarse, NEW v2i, NEW cal,
         VcoFits(v2ic, ndac, pmos, ptat, coarse, v2i, cal), NEW g \in 0 .. 511,
         NEW q, q = OutputVco(v2ic, ndac, pmos, ptat, coarse, v2i, cal) \union Gain(g)
  PROVE  VcoSet(q) /\ Covers(q, VcoFieldsOut)
  <1>1. VcoSet(Gain(g)) BY GainRow DEF VcoSet
  <1>2. \E r \in Gain(g) : "charge_pump_gain" \in DOMAIN r BY DEF Gain
  <1> QED BY <1>1, <1>2, OutputVcoRow

LEMMA SwitchedGain ==
  ASSUME NEW v2ic, NEW ndac, NEW pmos, NEW ptat, NEW coarse, NEW v2i, NEW cal,
         VcoFits(v2ic, ndac, pmos, ptat, coarse, v2i, cal),
         NEW gains, \A c \in gains : c[2] \in 0 .. 511, NEW fb,
         NEW q, q = OutputVco(v2ic, ndac, pmos, ptat, coarse, v2i, cal) \union GainOf(gains, fb)
  PROVE  VcoSet(q) /\ ((\E c \in gains : c[1] = fb) => Covers(q, VcoFieldsOut))
  <1>1. VcoSet(GainOf(gains, fb)) BY GainsRows DEF VcoSet
  <1>2. (\E c \in gains : c[1] = fb) =>
            \E r \in GainOf(gains, fb) : "charge_pump_gain" \in DOMAIN r
    BY GainsRows
  <1> QED BY <1>1, <1>2, OutputVcoRow

LEMMA OutputVcoSettles ==
  ASSUME NEW fb, NEW c \in OutputVcoTable(fb)
  PROVE  VcoSet(c[2]) /\ (OutputVcoKnown(fb, c[1]) => Covers(c[2], VcoFieldsOut))
  <1> DEFINE q1 == OutputVco(4, 0, 9, 9, 160, 5, 183) \union Gain(66)
             q2 == OutputVco(4, 0, 9, 9, 166, 6, 208) \union Gain(66)
             q3 == OutputVco(5, 1, 0, 7, 167, 6, 209) \union Gain(66)
             q4 == OutputVco(5, 1, 0, 7, 188, 6, 225) \union GainOf({<<300, 66>>, <<400, 76>>}, fb)
             q5 == OutputVco(6, 1, 0, 7, 183, 6, 225) \union Gain(66)
             q6 == OutputVco(5, 1, 0, 7, 203, 7, 256) \union GainOf({<<360, 66>>, <<480, 76>>}, fb)
             q7 == OutputVco(4, 0, 7, 15, 212, 7, 257) \union Gain(76)
             q8 == OutputVco(5, 0, 7, 15, 184, 6, 226) \union Gain(66)
             q9 == OutputVco(5, 1, 7, 15, 205, 7, 258) \union Gain(66)
             q10 == OutputVco(5, 0, 7, 15, 219, 7, 272) \union GainOf({<<495, 66>>, <<660, 76>>}, fb)
             q11 == OutputVco(6, 1, 0, 7, 213, 7, 258) \union Gain(66)
             q12 == OutputVco(7, 1, 0, 7, 244, 8, 292) \union Gain(66)
             p1 == <<1980000, q1>>
             p2 == <<2160000, q2>>
             p3 == <<2475000, q3>>
             p4 == <<2700000, q4>>
             p5 == <<2970000, q5>>
             p6 == <<3240000, q6>>
             p7 == <<3712500, q7>>
             p8 == <<3960000, q8>>
             p9 == <<4320000, q9>>
             p10 == <<4455000, q10>>
             p11 == <<4950000, q11>>
             p12 == <<5940000, q12>>
  <1>1. /\ p1[1] = 1980000 /\ p1[2] = q1
        /\ p2[1] = 2160000 /\ p2[2] = q2
        /\ p3[1] = 2475000 /\ p3[2] = q3
        /\ p4[1] = 2700000 /\ p4[2] = q4
        /\ p5[1] = 2970000 /\ p5[2] = q5
        /\ p6[1] = 3240000 /\ p6[2] = q6
        /\ p7[1] = 3712500 /\ p7[2] = q7
        /\ p8[1] = 3960000 /\ p8[2] = q8
        /\ p9[1] = 4320000 /\ p9[2] = q9
        /\ p10[1] = 4455000 /\ p10[2] = q10
        /\ p11[1] = 4950000 /\ p11[2] = q11
        /\ p12[1] = 5940000 /\ p12[2] = q12
    OBVIOUS
  <1>2. OutputVcoTable(fb) = {p1, p2, p3, p4, p5, p6, p7, p8, p9, p10, p11, p12}
    BY DEF OutputVcoTable
  <1> HIDE DEF p1, p2, p3, p4, p5, p6, p7, p8, p9, p10, p11, p12
  <1>3. VcoSet(q1) /\ Covers(q1, VcoFieldsOut)
    <2>1. VcoFits(4, 0, 9, 9, 160, 5, 183) BY DEF VcoFits
    <2>2. q1 = OutputVco(4, 0, 9, 9, 160, 5, 183) \union Gain(66) OBVIOUS
    <2> HIDE DEF q1
    <2> QED BY <2>1, <2>2, FixedGain
  <1>4. VcoSet(q2) /\ Covers(q2, VcoFieldsOut)
    <2>1. VcoFits(4, 0, 9, 9, 166, 6, 208) BY DEF VcoFits
    <2>2. q2 = OutputVco(4, 0, 9, 9, 166, 6, 208) \union Gain(66) OBVIOUS
    <2> HIDE DEF q2
    <2> QED BY <2>1, <2>2, FixedGain
  <1>5. VcoSet(q3) /\ Covers(q3, VcoFieldsOut)
    <2>1. VcoFits(5, 1, 0, 7, 167, 6, 209) BY DEF VcoFits
    <2>2. q3 = OutputVco(5, 1, 0, 7, 167, 6, 209) \union Gain(66) OBVIOUS
    <2> HIDE DEF q3
    <2> QED BY <2>1, <2>2, FixedGain
  <1>6. VcoSet(q4) /\ (fb \in {300, 400} => Covers(q4, VcoFieldsOut))
    <2> DEFINE d1 == <<300, 66>>
               d2 == <<400, 76>>
               gains == {d1, d2}
    <2>1. d1[1] = 300 /\ d1[2] = 66 /\ d2[1] = 400 /\ d2[2] = 76 OBVIOUS
    <2>2. q4 = OutputVco(5, 1, 0, 7, 188, 6, 225) \union GainOf(gains, fb) OBVIOUS
    <2> HIDE DEF d1, d2, q4
    <2>3. \A d \in gains : d[2] \in 0 .. 511 BY <2>1
    <2>4. fb \in {300, 400} => \E d \in gains : d[1] = fb BY <2>1
    <2> HIDE DEF gains
    <2>5. VcoFits(5, 1, 0, 7, 188, 6, 225) BY DEF VcoFits
    <2> QED BY <2>2, <2>3, <2>4, <2>5, SwitchedGain
  <1>7. VcoSet(q5) /\ Covers(q5, VcoFieldsOut)
    <2>1. VcoFits(6, 1, 0, 7, 183, 6, 225) BY DEF VcoFits
    <2>2. q5 = OutputVco(6, 1, 0, 7, 183, 6, 225) \union Gain(66) OBVIOUS
    <2> HIDE DEF q5
    <2> QED BY <2>1, <2>2, FixedGain
  <1>8. VcoSet(q6) /\ (fb \in {360, 480} => Covers(q6, VcoFieldsOut))
    <2> DEFINE d1 == <<360, 66>>
               d2 == <<480, 76>>
               gains == {d1, d2}
    <2>1. d1[1] = 360 /\ d1[2] = 66 /\ d2[1] = 480 /\ d2[2] = 76 OBVIOUS
    <2>2. q6 = OutputVco(5, 1, 0, 7, 203, 7, 256) \union GainOf(gains, fb) OBVIOUS
    <2> HIDE DEF d1, d2, q6
    <2>3. \A d \in gains : d[2] \in 0 .. 511 BY <2>1
    <2>4. fb \in {360, 480} => \E d \in gains : d[1] = fb BY <2>1
    <2> HIDE DEF gains
    <2>5. VcoFits(5, 1, 0, 7, 203, 7, 256) BY DEF VcoFits
    <2> QED BY <2>2, <2>3, <2>4, <2>5, SwitchedGain
  <1>9. VcoSet(q7) /\ Covers(q7, VcoFieldsOut)
    <2>1. VcoFits(4, 0, 7, 15, 212, 7, 257) BY DEF VcoFits
    <2>2. q7 = OutputVco(4, 0, 7, 15, 212, 7, 257) \union Gain(76) OBVIOUS
    <2> HIDE DEF q7
    <2> QED BY <2>1, <2>2, FixedGain
  <1>10. VcoSet(q8) /\ Covers(q8, VcoFieldsOut)
    <2>1. VcoFits(5, 0, 7, 15, 184, 6, 226) BY DEF VcoFits
    <2>2. q8 = OutputVco(5, 0, 7, 15, 184, 6, 226) \union Gain(66) OBVIOUS
    <2> HIDE DEF q8
    <2> QED BY <2>1, <2>2, FixedGain
  <1>11. VcoSet(q9) /\ Covers(q9, VcoFieldsOut)
    <2>1. VcoFits(5, 1, 7, 15, 205, 7, 258) BY DEF VcoFits
    <2>2. q9 = OutputVco(5, 1, 7, 15, 205, 7, 258) \union Gain(66) OBVIOUS
    <2> HIDE DEF q9
    <2> QED BY <2>1, <2>2, FixedGain
  <1>12. VcoSet(q10) /\ (fb \in {495, 660} => Covers(q10, VcoFieldsOut))
    <2> DEFINE d1 == <<495, 66>>
               d2 == <<660, 76>>
               gains == {d1, d2}
    <2>1. d1[1] = 495 /\ d1[2] = 66 /\ d2[1] = 660 /\ d2[2] = 76 OBVIOUS
    <2>2. q10 = OutputVco(5, 0, 7, 15, 219, 7, 272) \union GainOf(gains, fb) OBVIOUS
    <2> HIDE DEF d1, d2, q10
    <2>3. \A d \in gains : d[2] \in 0 .. 511 BY <2>1
    <2>4. fb \in {495, 660} => \E d \in gains : d[1] = fb BY <2>1
    <2> HIDE DEF gains
    <2>5. VcoFits(5, 0, 7, 15, 219, 7, 272) BY DEF VcoFits
    <2> QED BY <2>2, <2>3, <2>4, <2>5, SwitchedGain
  <1>13. VcoSet(q11) /\ Covers(q11, VcoFieldsOut)
    <2>1. VcoFits(6, 1, 0, 7, 213, 7, 258) BY DEF VcoFits
    <2>2. q11 = OutputVco(6, 1, 0, 7, 213, 7, 258) \union Gain(66) OBVIOUS
    <2> HIDE DEF q11
    <2> QED BY <2>1, <2>2, FixedGain
  <1>14. VcoSet(q12) /\ Covers(q12, VcoFieldsOut)
    <2>1. VcoFits(7, 1, 0, 7, 244, 8, 292) BY DEF VcoFits
    <2>2. q12 = OutputVco(7, 1, 0, 7, 244, 8, 292) \union Gain(66) OBVIOUS
    <2> HIDE DEF q12
    <2> QED BY <2>1, <2>2, FixedGain
  <1> HIDE DEF q1, q2, q3, q4, q5, q6, q7, q8, q9, q10, q11, q12
  <1>15. CASE c = p1 BY <1>1, <1>3, <1>15
  <1>16. CASE c = p2 BY <1>1, <1>4, <1>16
  <1>17. CASE c = p3 BY <1>1, <1>5, <1>17
  <1>18. CASE c = p4 BY <1>1, <1>6, <1>18 DEF OutputVcoKnown
  <1>19. CASE c = p5 BY <1>1, <1>7, <1>19
  <1>20. CASE c = p6 BY <1>1, <1>8, <1>20 DEF OutputVcoKnown
  <1>21. CASE c = p7 BY <1>1, <1>9, <1>21
  <1>22. CASE c = p8 BY <1>1, <1>10, <1>22
  <1>23. CASE c = p9 BY <1>1, <1>11, <1>23
  <1>24. CASE c = p10 BY <1>1, <1>12, <1>24 DEF OutputVcoKnown
  <1>25. CASE c = p11 BY <1>1, <1>13, <1>25
  <1>26. CASE c = p12 BY <1>1, <1>14, <1>26
  <1> QED BY <1>2, <1>15, <1>16, <1>17, <1>18, <1>19, <1>20, <1>21, <1>22, <1>23, <1>24, <1>25, <1>26

LEMMA OutputVcoFound ==
  ASSUME NEW fb, NEW vco, OutputVcoKnown(fb, vco)
  PROVE  \E c \in OutputVcoTable(fb) : c[1] = vco
  <1> DEFINE q1 == OutputVco(4, 0, 9, 9, 160, 5, 183) \union Gain(66)
             q2 == OutputVco(4, 0, 9, 9, 166, 6, 208) \union Gain(66)
             q3 == OutputVco(5, 1, 0, 7, 167, 6, 209) \union Gain(66)
             q4 == OutputVco(5, 1, 0, 7, 188, 6, 225) \union GainOf({<<300, 66>>, <<400, 76>>}, fb)
             q5 == OutputVco(6, 1, 0, 7, 183, 6, 225) \union Gain(66)
             q6 == OutputVco(5, 1, 0, 7, 203, 7, 256) \union GainOf({<<360, 66>>, <<480, 76>>}, fb)
             q7 == OutputVco(4, 0, 7, 15, 212, 7, 257) \union Gain(76)
             q8 == OutputVco(5, 0, 7, 15, 184, 6, 226) \union Gain(66)
             q9 == OutputVco(5, 1, 7, 15, 205, 7, 258) \union Gain(66)
             q10 == OutputVco(5, 0, 7, 15, 219, 7, 272) \union GainOf({<<495, 66>>, <<660, 76>>}, fb)
             q11 == OutputVco(6, 1, 0, 7, 213, 7, 258) \union Gain(66)
             q12 == OutputVco(7, 1, 0, 7, 244, 8, 292) \union Gain(66)
             p1 == <<1980000, q1>>
             p2 == <<2160000, q2>>
             p3 == <<2475000, q3>>
             p4 == <<2700000, q4>>
             p5 == <<2970000, q5>>
             p6 == <<3240000, q6>>
             p7 == <<3712500, q7>>
             p8 == <<3960000, q8>>
             p9 == <<4320000, q9>>
             p10 == <<4455000, q10>>
             p11 == <<4950000, q11>>
             p12 == <<5940000, q12>>
  <1>1. /\ p1[1] = 1980000
        /\ p2[1] = 2160000
        /\ p3[1] = 2475000
        /\ p4[1] = 2700000
        /\ p5[1] = 2970000
        /\ p6[1] = 3240000
        /\ p7[1] = 3712500
        /\ p8[1] = 3960000
        /\ p9[1] = 4320000
        /\ p10[1] = 4455000
        /\ p11[1] = 4950000
        /\ p12[1] = 5940000
    OBVIOUS
  <1>2. OutputVcoTable(fb) = {p1, p2, p3, p4, p5, p6, p7, p8, p9, p10, p11, p12}
    BY DEF OutputVcoTable
  <1> HIDE DEF p1, p2, p3, p4, p5, p6, p7, p8, p9, p10, p11, p12
  <1> QED BY <1>1, <1>2 DEF OutputVcoKnown

LEMMA OutputVcoSettled ==
  ASSUME NEW fb, NEW vco
  PROVE  /\ VcoSet(VcoRows(vco, fb, TRUE))
         /\ OutputVcoKnown(fb, vco) => Covers(VcoRows(vco, fb, TRUE), VcoFieldsOut)
  <1> DEFINE rows == UNION {c[2] : c \in {c \in OutputVcoTable(fb) : c[1] = vco}}
  <1>1. VcoRows(vco, fb, TRUE) = rows BY DEF VcoRows, CaseOf
  <1>2. VcoSet(rows) BY OutputVcoSettles DEF VcoSet
  <1>3. ASSUME OutputVcoKnown(fb, vco) PROVE Covers(rows, VcoFieldsOut)
    <2>1. PICK c \in OutputVcoTable(fb) : c[1] = vco BY <1>3, OutputVcoFound
    <2>2. Covers(c[2], VcoFieldsOut) BY <1>3, <2>1, OutputVcoSettles
    <2>3. c[2] \subseteq rows BY <2>1
    <2> HIDE DEF rows
    <2> QED BY <2>2, <2>3 DEF Covers
  <1> QED BY <1>1, <1>2, <1>3

(* The same for the ranges of the VCO.                                      *)
KnownAt(i, fb) ==
    CASE i \in 1 .. 4 -> fb \in {300, 320, 325, 330, 340, 360, 400}
      [] i = 5 -> fb \in {375, 600, 680}
      [] i = 6 -> fb \in {450, 600, 680}
      [] OTHER -> fb \in {600, 680}

AnalogueFits(v2ic, ndac, pmos, ptat) ==
    v2ic \in 0 .. 7 /\ ndac \in 0 .. 15 /\ pmos \in 0 .. 255 /\ ptat \in 0 .. 63

LEMMA InputVcoRow ==
  ASSUME NEW v2ic, NEW ndac, NEW pmos, NEW ptat, AnalogueFits(v2ic, ndac, pmos, ptat),
         NEW gains, \A c \in gains : c[2] \in 0 .. 511, NEW fb,
         NEW q, q = {Analogue(v2ic, ndac, pmos, ptat)} \union GainOf(gains, fb)
  PROVE  VcoSet(q) /\ ((\E c \in gains : c[1] = fb) => Covers(q, AnalogueFields))
  <1> DEFINE a == Analogue(v2ic, ndac, pmos, ptat)
  <1>1. VcoRow(a) /\ DOMAIN a = AnalogueFields \ {"charge_pump_gain"}
    BY AnalogueRow DEF AnalogueFits
  <1> HIDE DEF a
  <1>2. q = {a} \union GainOf(gains, fb) BY DEF a
  <1>3. VcoSet(q) BY <1>1, <1>2, GainsRows DEF VcoSet
  <1>4. ASSUME NEW c \in gains, c[1] = fb PROVE Covers(q, AnalogueFields)
    <2>1. \E r \in GainOf(gains, fb) : "charge_pump_gain" \in DOMAIN r BY <1>4, GainsRows
    <2> QED BY <1>1, <1>2, <2>1 DEF Covers
  <1> QED BY <1>3, <1>4

LEMMA InputVcoSettles ==
  ASSUME NEW fb, NEW i \in DOMAIN InputVcoTable,
         NEW q, q = {InputVcoTable[i][3]} \union GainOf(InputVcoTable[i][4], fb)
  PROVE  VcoSet(q) /\ (KnownAt(i, fb) => Covers(q, AnalogueFields))
  <1> DEFINE g1 == LowGains(130, 131, 131, 132, 132, 134, 162)
             g2 == LowGains(71, 75, 76, 128, 129, 130, 132)
             g3 == LowGains(67, 69, 69, 69, 134, 74, 129)
             g4 == LowGains(61, 65, 65, 65, 66, 67, 70)
             g5 == HighGains(375, 65, 130, 133)
             g6 == HighGains(450, 65, 75, 130)
             g7 == {<<600, 69>>, <<680, 74>>}
             g8 == {<<600, 66>>, <<680, 69>>}
             p1 == <<1700000, 2000000, Analogue(4, 0, 9, 9), g1>>
             p2 == <<2000000, 2400000, Analogue(4, 0, 9, 9), g2>>
             p3 == <<2400000, 2800000, Analogue(5, 1, 0, 7), g3>>
             p4 == <<2800000, 3400000, Analogue(6, 1, 0, 7), g4>>
             p5 == <<3400000, 3900000, Analogue(4, 0, 7, 15), g5>>
             p6 == <<3900000, 4500000, Analogue(5, 0, 7, 15), g6>>
             p7 == <<4500000, 5200000, Analogue(6, 1, 0, 7), g7>>
             p8 == <<5200000, 6000000, Analogue(7, 1, 0, 7), g8>>
  <1>1. /\ p1[3] = Analogue(4, 0, 9, 9) /\ p1[4] = g1
        /\ p2[3] = Analogue(4, 0, 9, 9) /\ p2[4] = g2
        /\ p3[3] = Analogue(5, 1, 0, 7) /\ p3[4] = g3
        /\ p4[3] = Analogue(6, 1, 0, 7) /\ p4[4] = g4
        /\ p5[3] = Analogue(4, 0, 7, 15) /\ p5[4] = g5
        /\ p6[3] = Analogue(5, 0, 7, 15) /\ p6[4] = g6
        /\ p7[3] = Analogue(6, 1, 0, 7) /\ p7[4] = g7
        /\ p8[3] = Analogue(7, 1, 0, 7) /\ p8[4] = g8
    OBVIOUS
  <1>2. /\ DOMAIN InputVcoTable = 1 .. 8
        /\ InputVcoTable[1] = p1
        /\ InputVcoTable[2] = p2
        /\ InputVcoTable[3] = p3
        /\ InputVcoTable[4] = p4
        /\ InputVcoTable[5] = p5
        /\ InputVcoTable[6] = p6
        /\ InputVcoTable[7] = p7
        /\ InputVcoTable[8] = p8
    BY DEF InputVcoTable
  <1> HIDE DEF p1, p2, p3, p4, p5, p6, p7, p8
  <1>3. CASE i = 1
    <2> DEFINE d1 == <<300, 130>>
               d2 == <<320, 131>>
               d3 == <<325, 131>>
               d4 == <<330, 132>>
               d5 == <<340, 132>>
               d6 == <<360, 134>>
               d7 == <<400, 162>>
    <2>1. /\ d1[1] = 300 /\ d1[2] = 130
          /\ d2[1] = 320 /\ d2[2] = 131
          /\ d3[1] = 325 /\ d3[2] = 131
          /\ d4[1] = 330 /\ d4[2] = 132
          /\ d5[1] = 340 /\ d5[2] = 132
          /\ d6[1] = 360 /\ d6[2] = 134
          /\ d7[1] = 400 /\ d7[2] = 162
      OBVIOUS
    <2>2. g1 = {d1, d2, d3, d4, d5, d6, d7} BY DEF LowGains
    <2> HIDE DEF d1, d2, d3, d4, d5, d6, d7, g1
    <2>3. \A c \in g1 : c[2] \in 0 .. 511 BY <2>1, <2>2
    <2>4. KnownAt(i, fb) => \E c \in g1 : c[1] = fb
      <3>1. KnownAt(i, fb) => fb \in {300, 320, 325, 330, 340, 360, 400} BY <1>3 DEF KnownAt
      <3> QED BY <2>1, <2>2, <3>1
    <2>5. q = {Analogue(4, 0, 9, 9)} \union GainOf(g1, fb) BY <1>1, <1>2, <1>3
    <2>6. AnalogueFits(4, 0, 9, 9) BY DEF AnalogueFits
    <2> QED BY <2>3, <2>4, <2>5, <2>6, InputVcoRow
  <1>4. CASE i = 2
    <2> DEFINE d1 == <<300, 71>>
               d2 == <<320, 75>>
               d3 == <<325, 76>>
               d4 == <<330, 128>>
               d5 == <<340, 129>>
               d6 == <<360, 130>>
               d7 == <<400, 132>>
    <2>1. /\ d1[1] = 300 /\ d1[2] = 71
          /\ d2[1] = 320 /\ d2[2] = 75
          /\ d3[1] = 325 /\ d3[2] = 76
          /\ d4[1] = 330 /\ d4[2] = 128
          /\ d5[1] = 340 /\ d5[2] = 129
          /\ d6[1] = 360 /\ d6[2] = 130
          /\ d7[1] = 400 /\ d7[2] = 132
      OBVIOUS
    <2>2. g2 = {d1, d2, d3, d4, d5, d6, d7} BY DEF LowGains
    <2> HIDE DEF d1, d2, d3, d4, d5, d6, d7, g2
    <2>3. \A c \in g2 : c[2] \in 0 .. 511 BY <2>1, <2>2
    <2>4. KnownAt(i, fb) => \E c \in g2 : c[1] = fb
      <3>1. KnownAt(i, fb) => fb \in {300, 320, 325, 330, 340, 360, 400} BY <1>4 DEF KnownAt
      <3> QED BY <2>1, <2>2, <3>1
    <2>5. q = {Analogue(4, 0, 9, 9)} \union GainOf(g2, fb) BY <1>1, <1>2, <1>4
    <2>6. AnalogueFits(4, 0, 9, 9) BY DEF AnalogueFits
    <2> QED BY <2>3, <2>4, <2>5, <2>6, InputVcoRow
  <1>5. CASE i = 3
    <2> DEFINE d1 == <<300, 67>>
               d2 == <<320, 69>>
               d3 == <<325, 69>>
               d4 == <<330, 69>>
               d5 == <<340, 134>>
               d6 == <<360, 74>>
               d7 == <<400, 129>>
    <2>1. /\ d1[1] = 300 /\ d1[2] = 67
          /\ d2[1] = 320 /\ d2[2] = 69
          /\ d3[1] = 325 /\ d3[2] = 69
          /\ d4[1] = 330 /\ d4[2] = 69
          /\ d5[1] = 340 /\ d5[2] = 134
          /\ d6[1] = 360 /\ d6[2] = 74
          /\ d7[1] = 400 /\ d7[2] = 129
      OBVIOUS
    <2>2. g3 = {d1, d2, d3, d4, d5, d6, d7} BY DEF LowGains
    <2> HIDE DEF d1, d2, d3, d4, d5, d6, d7, g3
    <2>3. \A c \in g3 : c[2] \in 0 .. 511 BY <2>1, <2>2
    <2>4. KnownAt(i, fb) => \E c \in g3 : c[1] = fb
      <3>1. KnownAt(i, fb) => fb \in {300, 320, 325, 330, 340, 360, 400} BY <1>5 DEF KnownAt
      <3> QED BY <2>1, <2>2, <3>1
    <2>5. q = {Analogue(5, 1, 0, 7)} \union GainOf(g3, fb) BY <1>1, <1>2, <1>5
    <2>6. AnalogueFits(5, 1, 0, 7) BY DEF AnalogueFits
    <2> QED BY <2>3, <2>4, <2>5, <2>6, InputVcoRow
  <1>6. CASE i = 4
    <2> DEFINE d1 == <<300, 61>>
               d2 == <<320, 65>>
               d3 == <<325, 65>>
               d4 == <<330, 65>>
               d5 == <<340, 66>>
               d6 == <<360, 67>>
               d7 == <<400, 70>>
    <2>1. /\ d1[1] = 300 /\ d1[2] = 61
          /\ d2[1] = 320 /\ d2[2] = 65
          /\ d3[1] = 325 /\ d3[2] = 65
          /\ d4[1] = 330 /\ d4[2] = 65
          /\ d5[1] = 340 /\ d5[2] = 66
          /\ d6[1] = 360 /\ d6[2] = 67
          /\ d7[1] = 400 /\ d7[2] = 70
      OBVIOUS
    <2>2. g4 = {d1, d2, d3, d4, d5, d6, d7} BY DEF LowGains
    <2> HIDE DEF d1, d2, d3, d4, d5, d6, d7, g4
    <2>3. \A c \in g4 : c[2] \in 0 .. 511 BY <2>1, <2>2
    <2>4. KnownAt(i, fb) => \E c \in g4 : c[1] = fb
      <3>1. KnownAt(i, fb) => fb \in {300, 320, 325, 330, 340, 360, 400} BY <1>6 DEF KnownAt
      <3> QED BY <2>1, <2>2, <3>1
    <2>5. q = {Analogue(6, 1, 0, 7)} \union GainOf(g4, fb) BY <1>1, <1>2, <1>6
    <2>6. AnalogueFits(6, 1, 0, 7) BY DEF AnalogueFits
    <2> QED BY <2>3, <2>4, <2>5, <2>6, InputVcoRow
  <1>7. CASE i = 5
    <2> DEFINE d1 == <<375, 65>>
               d2 == <<600, 130>>
               d3 == <<680, 133>>
    <2>1. /\ d1[1] = 375 /\ d1[2] = 65
          /\ d2[1] = 600 /\ d2[2] = 130
          /\ d3[1] = 680 /\ d3[2] = 133
      OBVIOUS
    <2>2. g5 = {d1, d2, d3} BY DEF HighGains
    <2> HIDE DEF d1, d2, d3, g5
    <2>3. \A c \in g5 : c[2] \in 0 .. 511 BY <2>1, <2>2
    <2>4. KnownAt(i, fb) => \E c \in g5 : c[1] = fb
      <3>1. KnownAt(i, fb) => fb \in {375, 600, 680} BY <1>7 DEF KnownAt
      <3> QED BY <2>1, <2>2, <3>1
    <2>5. q = {Analogue(4, 0, 7, 15)} \union GainOf(g5, fb) BY <1>1, <1>2, <1>7
    <2>6. AnalogueFits(4, 0, 7, 15) BY DEF AnalogueFits
    <2> QED BY <2>3, <2>4, <2>5, <2>6, InputVcoRow, SMTT(30)
  <1>8. CASE i = 6
    <2> DEFINE d1 == <<450, 65>>
               d2 == <<600, 75>>
               d3 == <<680, 130>>
    <2>1. /\ d1[1] = 450 /\ d1[2] = 65
          /\ d2[1] = 600 /\ d2[2] = 75
          /\ d3[1] = 680 /\ d3[2] = 130
      OBVIOUS
    <2>2. g6 = {d1, d2, d3} BY DEF HighGains
    <2> HIDE DEF d1, d2, d3, g6
    <2>3. \A c \in g6 : c[2] \in 0 .. 511 BY <2>1, <2>2
    <2>4. KnownAt(i, fb) => \E c \in g6 : c[1] = fb
      <3>1. KnownAt(i, fb) => fb \in {450, 600, 680} BY <1>8 DEF KnownAt
      <3> QED BY <2>1, <2>2, <3>1
    <2>5. q = {Analogue(5, 0, 7, 15)} \union GainOf(g6, fb) BY <1>1, <1>2, <1>8
    <2>6. AnalogueFits(5, 0, 7, 15) BY DEF AnalogueFits
    <2> QED BY <2>3, <2>4, <2>5, <2>6, InputVcoRow, SMTT(30)
  <1>9. CASE i = 7
    <2> DEFINE d1 == <<600, 69>>
               d2 == <<680, 74>>
    <2>1. /\ d1[1] = 600 /\ d1[2] = 69
          /\ d2[1] = 680 /\ d2[2] = 74
      OBVIOUS
    <2>2. g7 = {d1, d2} OBVIOUS
    <2> HIDE DEF d1, d2, g7
    <2>3. \A c \in g7 : c[2] \in 0 .. 511 BY <2>1, <2>2
    <2>4. KnownAt(i, fb) => \E c \in g7 : c[1] = fb
      <3>1. KnownAt(i, fb) => fb \in {600, 680} BY <1>9 DEF KnownAt
      <3> QED BY <2>1, <2>2, <3>1
    <2>5. q = {Analogue(6, 1, 0, 7)} \union GainOf(g7, fb) BY <1>1, <1>2, <1>9
    <2>6. AnalogueFits(6, 1, 0, 7) BY DEF AnalogueFits
    <2> QED BY <2>3, <2>4, <2>5, <2>6, InputVcoRow
  <1>10. CASE i = 8
    <2> DEFINE d1 == <<600, 66>>
               d2 == <<680, 69>>
    <2>1. /\ d1[1] = 600 /\ d1[2] = 66
          /\ d2[1] = 680 /\ d2[2] = 69
      OBVIOUS
    <2>2. g8 = {d1, d2} OBVIOUS
    <2> HIDE DEF d1, d2, g8
    <2>3. \A c \in g8 : c[2] \in 0 .. 511 BY <2>1, <2>2
    <2>4. KnownAt(i, fb) => \E c \in g8 : c[1] = fb
      <3>1. KnownAt(i, fb) => fb \in {600, 680} BY <1>10 DEF KnownAt
      <3> QED BY <2>1, <2>2, <3>1
    <2>5. q = {Analogue(7, 1, 0, 7)} \union GainOf(g8, fb) BY <1>1, <1>2, <1>10
    <2>6. AnalogueFits(7, 1, 0, 7) BY DEF AnalogueFits
    <2> QED BY <2>3, <2>4, <2>5, <2>6, InputVcoRow
  <1>11. i = 1 \/ i = 2 \/ i = 3 \/ i = 4 \/ i = 5 \/ i = 6 \/ i = 7 \/ i = 8 BY <1>2
  <1> QED BY <1>11, <1>3, <1>4, <1>5, <1>6, <1>7, <1>8, <1>9, <1>10

LEMMA RangeFound ==
  ASSUME NEW table, DOMAIN table \subseteq Int, NEW v, NEW i \in DOMAIN table,
         \A j \in DOMAIN table : inside(v, table[j][1], table[j][2]) <=> j = i
  PROVE  table[i] \in FirstRange(table, v)
  <1> DEFINE hits == {j \in DOMAIN table : inside(v, table[j][1], table[j][2])}
  <1>1. hits = {i} OBVIOUS
  <1>2. FirstRange(table, v) = {table[j] : j \in {j \in hits : \A k \in hits : j <= k}}
    BY DEF FirstRange
  <1> HIDE DEF hits
  <1>3. i <= i OBVIOUS
  <1> QED BY <1>1, <1>2, <1>3

LEMMA InputVcoFound ==
  ASSUME NEW fb, NEW vco \in Int, InputVcoKnown(fb, vco)
  PROVE  \E i \in DOMAIN InputVcoTable :
            KnownAt(i, fb) /\ InputVcoTable[i] \in FirstRange(InputVcoTable, vco)
  <1> DEFINE g1 == LowGains(130, 131, 131, 132, 132, 134, 162)
             g2 == LowGains(71, 75, 76, 128, 129, 130, 132)
             g3 == LowGains(67, 69, 69, 69, 134, 74, 129)
             g4 == LowGains(61, 65, 65, 65, 66, 67, 70)
             g5 == HighGains(375, 65, 130, 133)
             g6 == HighGains(450, 65, 75, 130)
             g7 == {<<600, 69>>, <<680, 74>>}
             g8 == {<<600, 66>>, <<680, 69>>}
             p1 == <<1700000, 2000000, Analogue(4, 0, 9, 9), g1>>
             p2 == <<2000000, 2400000, Analogue(4, 0, 9, 9), g2>>
             p3 == <<2400000, 2800000, Analogue(5, 1, 0, 7), g3>>
             p4 == <<2800000, 3400000, Analogue(6, 1, 0, 7), g4>>
             p5 == <<3400000, 3900000, Analogue(4, 0, 7, 15), g5>>
             p6 == <<3900000, 4500000, Analogue(5, 0, 7, 15), g6>>
             p7 == <<4500000, 5200000, Analogue(6, 1, 0, 7), g7>>
             p8 == <<5200000, 6000000, Analogue(7, 1, 0, 7), g8>>
  <1>1. /\ p1[1] = 1700000 /\ p1[2] = 2000000
        /\ p2[1] = 2000000 /\ p2[2] = 2400000
        /\ p3[1] = 2400000 /\ p3[2] = 2800000
        /\ p4[1] = 2800000 /\ p4[2] = 3400000
        /\ p5[1] = 3400000 /\ p5[2] = 3900000
        /\ p6[1] = 3900000 /\ p6[2] = 4500000
        /\ p7[1] = 4500000 /\ p7[2] = 5200000
        /\ p8[1] = 5200000 /\ p8[2] = 6000000
    OBVIOUS
  <1>2. /\ DOMAIN InputVcoTable = 1 .. 8
        /\ InputVcoTable[1] = p1
        /\ InputVcoTable[2] = p2
        /\ InputVcoTable[3] = p3
        /\ InputVcoTable[4] = p4
        /\ InputVcoTable[5] = p5
        /\ InputVcoTable[6] = p6
        /\ InputVcoTable[7] = p7
        /\ InputVcoTable[8] = p8
    BY DEF InputVcoTable
  <1> HIDE DEF p1, p2, p3, p4, p5, p6, p7, p8
  <1>3. DOMAIN InputVcoTable \subseteq Int BY <1>2
  <1>4. \A j \in DOMAIN InputVcoTable : j = 1 \/ j = 2 \/ j = 3 \/ j = 4 \/ j = 5 \/ j = 6 \/ j = 7 \/ j = 8 BY <1>2
  <1>5. CASE 1700000 < vco /\ vco < 2000000 /\ KnownAt(1, fb)
    <2>1. \A j \in DOMAIN InputVcoTable :
              inside(vco, InputVcoTable[j][1], InputVcoTable[j][2]) <=> j = 1
      BY <1>1, <1>2, <1>4, <1>5 DEF inside
    <2>2. 1 \in DOMAIN InputVcoTable BY <1>2
    <2> QED BY <1>3, <1>5, <2>1, <2>2, RangeFound
  <1>6. CASE 2000000 < vco /\ vco < 2400000 /\ KnownAt(2, fb)
    <2>1. \A j \in DOMAIN InputVcoTable :
              inside(vco, InputVcoTable[j][1], InputVcoTable[j][2]) <=> j = 2
      BY <1>1, <1>2, <1>4, <1>6 DEF inside
    <2>2. 2 \in DOMAIN InputVcoTable BY <1>2
    <2> QED BY <1>3, <1>6, <2>1, <2>2, RangeFound
  <1>7. CASE 2400000 < vco /\ vco < 2800000 /\ KnownAt(3, fb)
    <2>1. \A j \in DOMAIN InputVcoTable :
              inside(vco, InputVcoTable[j][1], InputVcoTable[j][2]) <=> j = 3
      BY <1>1, <1>2, <1>4, <1>7 DEF inside
    <2>2. 3 \in DOMAIN InputVcoTable BY <1>2
    <2> QED BY <1>3, <1>7, <2>1, <2>2, RangeFound
  <1>8. CASE 2800000 < vco /\ vco < 3400000 /\ KnownAt(4, fb)
    <2>1. \A j \in DOMAIN InputVcoTable :
              inside(vco, InputVcoTable[j][1], InputVcoTable[j][2]) <=> j = 4
      BY <1>1, <1>2, <1>4, <1>8 DEF inside
    <2>2. 4 \in DOMAIN InputVcoTable BY <1>2
    <2> QED BY <1>3, <1>8, <2>1, <2>2, RangeFound
  <1>9. CASE 3400000 < vco /\ vco < 3900000 /\ KnownAt(5, fb)
    <2>1. \A j \in DOMAIN InputVcoTable :
              inside(vco, InputVcoTable[j][1], InputVcoTable[j][2]) <=> j = 5
      BY <1>1, <1>2, <1>4, <1>9 DEF inside
    <2>2. 5 \in DOMAIN InputVcoTable BY <1>2
    <2> QED BY <1>3, <1>9, <2>1, <2>2, RangeFound
  <1>10. CASE 3900000 < vco /\ vco < 4500000 /\ KnownAt(6, fb)
    <2>1. \A j \in DOMAIN InputVcoTable :
              inside(vco, InputVcoTable[j][1], InputVcoTable[j][2]) <=> j = 6
      BY <1>1, <1>2, <1>4, <1>10 DEF inside
    <2>2. 6 \in DOMAIN InputVcoTable BY <1>2
    <2> QED BY <1>3, <1>10, <2>1, <2>2, RangeFound
  <1>11. CASE 4500000 < vco /\ vco < 5200000 /\ KnownAt(7, fb)
    <2>1. \A j \in DOMAIN InputVcoTable :
              inside(vco, InputVcoTable[j][1], InputVcoTable[j][2]) <=> j = 7
      BY <1>1, <1>2, <1>4, <1>11 DEF inside
    <2>2. 7 \in DOMAIN InputVcoTable BY <1>2
    <2> QED BY <1>3, <1>11, <2>1, <2>2, RangeFound
  <1>12. CASE 5200000 < vco /\ vco < 6000000 /\ KnownAt(8, fb)
    <2>1. \A j \in DOMAIN InputVcoTable :
              inside(vco, InputVcoTable[j][1], InputVcoTable[j][2]) <=> j = 8
      BY <1>1, <1>2, <1>4, <1>12 DEF inside
    <2>2. 8 \in DOMAIN InputVcoTable BY <1>2
    <2> QED BY <1>3, <1>12, <2>1, <2>2, RangeFound
  <1>13. \/ 1700000 < vco /\ vco < 2000000 /\ KnownAt(1, fb)
         \/ 2000000 < vco /\ vco < 2400000 /\ KnownAt(2, fb)
         \/ 2400000 < vco /\ vco < 2800000 /\ KnownAt(3, fb)
         \/ 2800000 < vco /\ vco < 3400000 /\ KnownAt(4, fb)
         \/ 3400000 < vco /\ vco < 3900000 /\ KnownAt(5, fb)
         \/ 3900000 < vco /\ vco < 4500000 /\ KnownAt(6, fb)
         \/ 4500000 < vco /\ vco < 5200000 /\ KnownAt(7, fb)
         \/ 5200000 < vco /\ vco < 6000000 /\ KnownAt(8, fb)
    BY DEF InputVcoKnown, KnownAt
  <1> QED BY <1>13, <1>5, <1>6, <1>7, <1>8, <1>9, <1>10, <1>11, <1>12

LEMMA InputVcoSettled ==
  ASSUME NEW fb, NEW vco \in Int
  PROVE  /\ VcoSet(VcoRows(vco, fb, FALSE))
         /\ InputVcoKnown(fb, vco) => Covers(VcoRows(vco, fb, FALSE), AnalogueFields)
  <1> DEFINE Set(i) == {InputVcoTable[i][3]} \union GainOf(InputVcoTable[i][4], fb)
             rows == UNION {{r[3]} \union GainOf(r[4], fb) : r \in FirstRange(InputVcoTable, vco)}
  <1>1. VcoRows(vco, fb, FALSE) = rows BY DEF VcoRows
  <1>2. \A i \in DOMAIN InputVcoTable :
            VcoSet(Set(i)) /\ (KnownAt(i, fb) => Covers(Set(i), AnalogueFields))
    BY InputVcoSettles
  <1>3. VcoSet(rows)
    <2>1. DOMAIN InputVcoTable \subseteq Int BY DEF InputVcoTable
    <2>2. ASSUME NEW r \in FirstRange(InputVcoTable, vco)
          PROVE  \E i \in DOMAIN InputVcoTable : r = InputVcoTable[i]
      BY <2>1, FirstRangeIs
    <2>3. ASSUME NEW x \in rows PROVE VcoRow(x)
      <3>1. PICK r \in FirstRange(InputVcoTable, vco) : x \in {r[3]} \union GainOf(r[4], fb)
        OBVIOUS
      <3>2. PICK i \in DOMAIN InputVcoTable : x \in Set(i) BY <2>2, <3>1
      <3> QED BY <1>2, <3>2 DEF VcoSet
    <2> QED BY <2>3 DEF VcoSet
  <1>4. ASSUME InputVcoKnown(fb, vco) PROVE Covers(rows, AnalogueFields)
    <2>1. PICK i \in DOMAIN InputVcoTable :
              KnownAt(i, fb) /\ InputVcoTable[i] \in FirstRange(InputVcoTable, vco)
      BY <1>4, InputVcoFound
    <2>2. Set(i) \subseteq rows BY <2>1
    <2>3. Covers(Set(i), AnalogueFields) BY <1>2, <2>1
    <2> HIDE DEF rows, Set
    <2> QED BY <2>2, <2>3 DEF Covers
  <1> QED BY <1>1, <1>3, <1>4

-----------------------------------------------------------------------------
(* The computation: the fields of the PLL row, then those of the VCO rows   *)
(* it leads to, whatever was there before.                                  *)

LEMMA FieldSets ==
  /\ OutputFields \subseteq Fields /\ VcoFieldsOut \subseteq Fields
  /\ OutputFields \intersect VcoFieldsOut = {}
  /\ InputFields \subseteq OutputFields /\ AnalogueFields \subseteq VcoFieldsOut
  /\ OutputFields = InputFields \union
        {"cmnda_pll0_fb_div_high", "cmnda_pll0_pxdiv_low", "cmnda_pll0_pxdiv_high"}
  /\ ProgrammedFields(TRUE) \subseteq OutputFields \union VcoFieldsOut
  /\ ProgrammedFields(FALSE)
        \subseteq InputFields \union {"cmnda_pll0_fb_div_high"} \union AnalogueFields
  <1>1. Fields \subseteq OutputFields \union VcoFieldsOut
    BY DEF Fields, FieldPosition, OutputFields, InputFields, VcoFieldsOut, AnalogueFields,
           CodeFields
  <1>2. OutputFields \subseteq Fields /\ VcoFieldsOut \subseteq Fields
    BY DEF Fields, FieldPosition, OutputFields, InputFields, VcoFieldsOut, AnalogueFields,
           CodeFields
  <1>3. OutputFields \intersect VcoFieldsOut = {}
    BY DEF OutputFields, InputFields, VcoFieldsOut, AnalogueFields, CodeFields
  <1>4. ProgrammedFields(TRUE) \subseteq OutputFields \union VcoFieldsOut
    BY <1>1 DEF ProgrammedFields
  <1>5. ProgrammedFields(FALSE)
            \subseteq InputFields \union {"cmnda_pll0_fb_div_high"} \union AnalogueFields
    BY <1>1 DEF ProgrammedFields, OutputFields, VcoFieldsOut, CodeFields
  <1> QED BY <1>2, <1>3, <1>4, <1>5 DEF OutputFields, VcoFieldsOut

(* A PLL row, the VCO rows it leads to and the fields these cover.          *)
RowAndRows(f, ratio, phy, r, rows, fs) ==
    /\ PllRows(f, ratio, phy) = {r}
    /\ DOMAIN r \subseteq OutputFields /\ \A x \in DOMAIN r : r[x] \in 0 .. Largest[x]
    /\ {"cmnda_pll0_ip_div", "pll_feedback_divider_total"} \subseteq DOMAIN r
    /\ r["cmnda_pll0_ip_div"] # 0
    /\ rows = VcoRows((refclk_freq_khz(f, phy) * r["pll_feedback_divider_total"])
                           \div r["cmnda_pll0_ip_div"],
                      r["pll_feedback_divider_total"], phy)
    /\ VcoSet(rows) /\ Covers(rows, fs) /\ fs \subseteq VcoFieldsOut

(* They settle the fields: only what no row sets is left as it was.         *)
SettlesOn(f, ratio, phy, r, rows, fs) ==
    \A s :
        /\ \A x \in DOMAIN r : PhyFields(s, f, ratio, phy)[x] = r[x]
        /\ \A x \in OutputFields \ DOMAIN r : PhyFields(s, f, ratio, phy)[x] = s[x]
        /\ \A x \in fs : PhyFields(s, f, ratio, phy)[x]
                            = (CHOOSE q \in rows : x \in DOMAIN q)[x]

LEMMA Computed ==
  ASSUME NEW f, NEW ratio, NEW phy, NEW r, NEW rows, NEW fs,
         RowAndRows(f, ratio, phy, r, rows, fs)
  PROVE  SettlesOn(f, ratio, phy, r, rows, fs)
  <1>0. SUFFICES ASSUME NEW s
                 PROVE  /\ \A x \in DOMAIN r : PhyFields(s, f, ratio, phy)[x] = r[x]
                        /\ \A x \in OutputFields \ DOMAIN r :
                               PhyFields(s, f, ratio, phy)[x] = s[x]
                        /\ \A x \in fs : PhyFields(s, f, ratio, phy)[x]
                                             = (CHOOSE q \in rows : x \in DOMAIN q)[x]
    BY DEF SettlesOn
  <1> /\ PllRows(f, ratio, phy) = {r}
      /\ DOMAIN r \subseteq OutputFields /\ \A x \in DOMAIN r : r[x] \in 0 .. Largest[x]
      /\ {"cmnda_pll0_ip_div", "pll_feedback_divider_total"} \subseteq DOMAIN r
      /\ r["cmnda_pll0_ip_div"] # 0
      /\ rows = VcoRows((refclk_freq_khz(f, phy) * r["pll_feedback_divider_total"])
                             \div r["cmnda_pll0_ip_div"],
                        r["pll_feedback_divider_total"], phy)
      /\ VcoSet(rows) /\ Covers(rows, fs) /\ fs \subseteq VcoFieldsOut
    BY DEF RowAndRows
  <1> DEFINE pll == SetFields(s, {r})
             F == PhyFields(s, f, ratio, phy)
  <1>1. \A x \in DOMAIN r : pll[x] = r[x] BY FieldSets, SetOne
  <1>2. \A x \in OutputFields \ DOMAIN r : pll[x] = s[x] BY FieldSets DEF SetFields
  <1>3. F = SetFields(pll, rows)
    <2>1. F = VcoFields(pll, f, phy) BY DEF PhyFields, PllFields
    <2> HIDE DEF F, pll
    <2>2. pll["cmnda_pll0_ip_div"] = r["cmnda_pll0_ip_div"]
          /\ pll["pll_feedback_divider_total"] = r["pll_feedback_divider_total"]
      BY <1>1
    <2>3. vco_freq(pll, refclk_freq_khz(f, phy))
            = (refclk_freq_khz(f, phy) * r["pll_feedback_divider_total"])
                \div r["cmnda_pll0_ip_div"]
      BY <2>2 DEF vco_freq
    <2> QED BY <2>1, <2>2, <2>3 DEF VcoFields
  <1> HIDE DEF pll, F
  <1>4. \A x \in OutputFields : F[x] = pll[x]
    <2>1. ASSUME NEW x \in OutputFields, NEW q \in rows PROVE x \notin DOMAIN q
      BY FieldSets DEF VcoSet, VcoRow, VcoFieldsOut
    <2> QED BY <1>3, <2>1, FieldSets, SetApart
  <1>5. ASSUME NEW x \in fs PROVE F[x] = (CHOOSE q \in rows : x \in DOMAIN q)[x]
    <2>1. Settled(rows, x) BY <1>5 DEF Settled, VcoSet, VcoRow, Covers
    <2> QED BY <1>3, <2>1, FieldSets, SetSettled
  <1>6. /\ \A x \in DOMAIN r : F[x] = r[x]
        /\ \A x \in OutputFields \ DOMAIN r : F[x] = s[x]
    BY <1>1, <1>2, <1>4
  <1> QED BY <1>5, <1>6 DEF F

VcoFieldsBy(phy) == IF phy THEN VcoFieldsOut ELSE AnalogueFields

(* A row and the rows of its VCO settle the fields of a standard request,   *)
(* in either branch.                                                       *)
SettledBy(r, rows, f, t, phy) ==
    /\ IF phy THEN SoundOutput(r, f, t) ELSE SoundInput(r, f, t)
    /\ SettlesOn(f, t[1], phy, r, rows, VcoFieldsBy(phy))

LEMMA OutputSettles ==
  ASSUME NEW f, NEW t, IsRatio(t), Supported(f, t[1], TRUE)
  PROVE  \E r, rows : SettledBy(r, rows, f, t, TRUE)
  <1>1. PICK r : r \in PllRows(f, t[1], TRUE) BY DEF Supported
  <1>2. PllRows(f, t[1], TRUE) = {r} /\ SoundOutput(r, f, t) BY <1>1, OutputRows
  <1> DEFINE ip == r["cmnda_pll0_ip_div"]
             fb == r["pll_feedback_divider_total"]
             vco == (27000 * fb) \div ip
             rows == VcoRows(vco, fb, TRUE)
  <1>3. DOMAIN r = OutputFields /\ \A x \in DOMAIN r : r[x] \in 0 .. Largest[x]
    BY <1>2 DEF SoundOutput
  <1>4. ip \in 1 .. 255 /\ OutputVcoKnown(fb, vco) BY <1>2, OutputAgrees DEF SoundOutput
  <1>5. ip # 0 BY <1>4
  <1>6. {"cmnda_pll0_ip_div", "pll_feedback_divider_total"} \subseteq DOMAIN r
    BY <1>3 DEF OutputFields, InputFields
  <1>7. VcoSet(rows) /\ Covers(rows, VcoFieldsOut)
    <2> HIDE DEF vco, ip, fb
    <2> QED BY <1>4, OutputVcoSettled
  <1>8. rows = VcoRows((refclk_freq_khz(f, TRUE) * fb) \div ip, fb, TRUE)
    BY DEF refclk_freq_khz
  <1> HIDE DEF rows, vco
  <1>9. RowAndRows(f, t[1], TRUE, r, rows, VcoFieldsOut)
    BY <1>2, <1>3, <1>5, <1>6, <1>7, <1>8 DEF RowAndRows
  <1>10. SettlesOn(f, t[1], TRUE, r, rows, VcoFieldsOut) BY <1>9, Computed
  <1>11. SettledBy(r, rows, f, t, TRUE) BY <1>2, <1>10 DEF SettledBy, VcoFieldsBy
  <1> QED BY <1>11

LEMMA InputSettles ==
  ASSUME NEW f \in StandardFreqs, NEW t, IsRatio(t), Supported(f, t[1], FALSE)
  PROVE  \E r, rows : SettledBy(r, rows, f, t, FALSE)
  <1>1. PICK r : r \in PllRows(f, t[1], FALSE) BY DEF Supported
  <1>2. PllRows(f, t[1], FALSE) = {r} /\ SoundInput(r, f, t) BY <1>1, InputRows
  <1> DEFINE ip == r["cmnda_pll0_ip_div"]
             fb == r["pll_feedback_divider_total"]
             vco == (f * fb) \div ip
             rows == VcoRows(vco, fb, FALSE)
  <1>3. DOMAIN r = InputFields /\ \A x \in DOMAIN r : r[x] \in 0 .. Largest[x]
    BY <1>2 DEF SoundInput
  <1>4. ip \in 1 .. 255 /\ fb \in 0 .. 1023 /\ InputVcoKnown(fb, vco)
    BY <1>2 DEF SoundInput, InputSound
  <1>5. ip # 0 BY <1>4
  <1>6. {"cmnda_pll0_ip_div", "pll_feedback_divider_total"} \subseteq DOMAIN r
    BY <1>3 DEF InputFields
  <1>7. VcoSet(rows) /\ Covers(rows, AnalogueFields)
    <2>1. f \in Int BY DEF StandardFreqs
    <2> HIDE DEF ip, fb
    <2>2. vco \in Int BY <1>4, <2>1
    <2> HIDE DEF vco
    <2> QED BY <1>4, <2>2, InputVcoSettled
  <1>8. rows = VcoRows((refclk_freq_khz(f, FALSE) * fb) \div ip, fb, FALSE)
    BY DEF refclk_freq_khz
  <1>9. DOMAIN r \subseteq OutputFields /\ AnalogueFields \subseteq VcoFieldsOut
    BY <1>3, FieldSets
  <1> HIDE DEF rows, vco
  <1>10. RowAndRows(f, t[1], FALSE, r, rows, AnalogueFields)
    BY <1>2, <1>3, <1>5, <1>6, <1>7, <1>8, <1>9 DEF RowAndRows
  <1>11. SettlesOn(f, t[1], FALSE, r, rows, AnalogueFields) BY <1>10, Computed
  <1>12. SettledBy(r, rows, f, t, FALSE) BY <1>2, <1>11 DEF SettledBy, VcoFieldsBy
  <1> QED BY <1>12

-----------------------------------------------------------------------------
(* The fields: the dividers are those of the row, and the row of the VCO    *)
(* leaves them alone.                                                      *)

LEMMA PllFieldsAre ==
  ASSUME NEW s, NEW f, NEW r, RowsOf(f) = {r}, ClockFields \subseteq DOMAIN r, Divides(r, f),
         NEW x \in ClockFields
  PROVE  PllFields(s, f, clk_ratio[1], TRUE)[x] = r[x]
  <1>1. PllFields(s, f, clk_ratio[1], TRUE) = SetFields(s, RowsOf(f))
    BY Ratio DEF RowsOf, PllFields
  <1>2. x \in Fields BY DEF ClockFields, Fields, FieldPosition
  <1>3. SetFields(s, {r})[x] = set_field_value(x, s[x], r[x]) BY <1>2 DEF SetFields
  <1>4. r[x] \in 0 .. Largest[x]
    <2>1. /\ r["cmnda_pll0_ip_div"] \in 0 .. Largest["cmnda_pll0_ip_div"]
          /\ r["cmnda_pll0_hs_sym_div_sel"] \in 0 .. Largest["cmnda_pll0_hs_sym_div_sel"]
          /\ r["cmnda_pll0_fb_div_low"] \in 0 .. Largest["cmnda_pll0_fb_div_low"]
          /\ r["cmnda_pll0_fb_div_high"] \in 0 .. Largest["cmnda_pll0_fb_div_high"]
      BY LargestValues DEF Divides
    <2>2. /\ r["cmnda_pll0_pxdiv_low"] \in 0 .. Largest["cmnda_pll0_pxdiv_low"]
          /\ r["cmnda_pll0_pxdiv_high"] \in 0 .. Largest["cmnda_pll0_pxdiv_high"]
          /\ r["cmnda_hs_clk_0_sel"] \in 0 .. Largest["cmnda_hs_clk_0_sel"]
          /\ r["tx_subrate"] \in 0 .. Largest["tx_subrate"]
      BY LargestValues DEF Divides
    <2> QED BY <2>1, <2>2, Zenon DEF ClockFields
  <1> QED BY <1>1, <1>2, <1>3, <1>4, FitsIn

LEMMA VcoFieldsKeep ==
  ASSUME NEW s, NEW f, NEW x \in ClockFields
  PROVE  VcoFields(s, f, TRUE)[x] = s[x]
  <1> DEFINE fb == s.pll_feedback_divider_total
             vco == vco_freq(s, refclk_freq_khz(f, TRUE))
  <1>1. VcoFields(s, f, TRUE) = SetFields(s, VcoRows(vco, fb, TRUE)) BY DEF VcoFields
  <1> HIDE DEF fb, vco
  <1>2. x \in OutputFields BY DEF ClockFields, OutputFields, InputFields
  <1>3. ASSUME NEW r \in VcoRows(vco, fb, TRUE) PROVE x \notin DOMAIN r
    <2>1. DOMAIN r \subseteq VcoFieldsOut BY OutputVcoSettled DEF VcoSet, VcoRow, VcoFieldsOut
    <2> QED BY <1>2, <2>1, FieldSets
  <1>4. x \in Fields BY <1>2, FieldSets
  <1> QED BY <1>1, <1>3, <1>4, SetApart

-----------------------------------------------------------------------------
(* The registers: what the PHY decodes is what was written.                 *)

(* A read-modify-write of two bits, read back.                             *)
LEMMA PutBack ==
  ASSUME NEW v \in Int, NEW x \in 0 .. 3
  PROVE  /\ Bits(Put(v, 6, 2, x), 6, 2) = x /\ Bits(Put(v, 12, 2, x), 12, 2) = x
  <1>1. (v + (x - ((v \div 64) % 4)) * 64) \div 64 = (v \div 64) + (x - ((v \div 64) % 4)) OBVIOUS
  <1>2. ((v \div 64) + (x - ((v \div 64) % 4))) % 4 = x OBVIOUS
  <1>3. (v + (x - ((v \div 4096) % 4)) * 4096) \div 4096
            = (v \div 4096) + (x - ((v \div 4096) % 4)) OBVIOUS
  <1>4. ((v \div 4096) + (x - ((v \div 4096) % 4))) % 4 = x OBVIOUS
  <1> QED BY <1>1, <1>2, <1>3, <1>4, Powers DEF Bits, Put

LEMMA PutInt ==
  ASSUME NEW v \in Int, NEW x \in Int
  PROVE  Put(v, 6, 2, x) \in Int /\ Put(v, 12, 2, x) \in Int
  BY Powers DEF Bits, Put

LEMMA DividersWritten ==
  ASSUME NEW r, DOMAIN r = CommonRegisters
  PROVE  LET d == ProgramDividers(r)
         IN  /\ DOMAIN d = CommonRegisters
             /\ d["CMN_DIAG_PLL0_INCLK_CTRL"]
                    = Value("cmnda_pll0_ip_div") + Value("cmnda_pll0_hs_sym_div_sel")
             /\ d["CMN_DIAG_PLL0_FBH_OVRD"] = Value("cmnda_pll0_fb_div_high") + 2^15
             /\ d["CMN_DIAG_PLL0_FBL_OVRD"] = Value("cmnda_pll0_fb_div_low") + 2^15
             /\ d["CMN_DIAG_PLL0_PXL_DIVL"] = Value("cmnda_pll0_pxdiv_low")
             /\ d["CMN_DIAG_PLL0_PXL_DIVH"] = Value("cmnda_pll0_pxdiv_high") + 2^15
             /\ d["PHY_PMA_ISO_CMN_CTRL"] = r["PHY_PMA_ISO_CMN_CTRL"]
             /\ d["PHY_HDP_MODE_CTL"] = r["PHY_HDP_MODE_CTL"]
  BY DEF CommonRegisters, ProgramDividers

(* The rest of the writes leave the divider registers alone.                *)
LEMMA RestWritten ==
  ASSUME NEW r, DOMAIN r = CommonRegisters, NEW v,
         NEW x \in DividerRegisters \union {"PHY_PMA_ISO_CMN_CTRL", "PHY_HDP_MODE_CTL"}
  PROVE  LET d == [ProgramAnalogue(r) EXCEPT !["PHY_PMA_CMN_CTRL1"] = v]
         IN  DOMAIN d = CommonRegisters /\ d[x] = r[x]
  BY DEF CommonRegisters, DividerRegisters, ProgramAnalogue

(* The words of the divider registers.                                     *)
LEMMA ProgramWrites ==
  ASSUME Types, ProgramPll
  PROVE  /\ regs'["CMN_DIAG_PLL0_INCLK_CTRL"]
                = fields["cmnda_pll0_ip_div"] + 256 * fields["cmnda_pll0_hs_sym_div_sel"]
         /\ regs'["CMN_DIAG_PLL0_FBH_OVRD"] = fields["cmnda_pll0_fb_div_high"] + 32768
         /\ regs'["CMN_DIAG_PLL0_FBL_OVRD"] = fields["cmnda_pll0_fb_div_low"] + 32768
         /\ regs'["CMN_DIAG_PLL0_PXL_DIVL"] = fields["cmnda_pll0_pxdiv_low"]
         /\ regs'["CMN_DIAG_PLL0_PXL_DIVH"] = fields["cmnda_pll0_pxdiv_high"] + 32768
         /\ DOMAIN regs' = CommonRegisters
         /\ regs'["PHY_PMA_ISO_CMN_CTRL"] = regs["PHY_PMA_ISO_CMN_CTRL"]
         /\ regs'["PHY_HDP_MODE_CTL"] = regs["PHY_HDP_MODE_CTL"]
  <1>1. \A f \in ClockFields : fields[f] \in Nat BY DEF Types
  <1>2. /\ Value("cmnda_pll0_ip_div") = fields["cmnda_pll0_ip_div"]
        /\ Value("cmnda_pll0_hs_sym_div_sel") = 256 * fields["cmnda_pll0_hs_sym_div_sel"]
        /\ Value("cmnda_pll0_fb_div_high") = fields["cmnda_pll0_fb_div_high"]
        /\ Value("cmnda_pll0_fb_div_low") = fields["cmnda_pll0_fb_div_low"]
        /\ Value("cmnda_pll0_pxdiv_low") = fields["cmnda_pll0_pxdiv_low"]
        /\ Value("cmnda_pll0_pxdiv_high") = fields["cmnda_pll0_pxdiv_high"]
    BY <1>1, Powers DEF ClockFields, Value, set_reg_value, FieldPosition
  <1> HIDE DEF Value
  <1>3. DOMAIN regs = CommonRegisters BY DEF Types
  <1> DEFINE d == ProgramDividers(regs)
             v == Put(ProgramAnalogue(d)["PHY_PMA_CMN_CTRL1"], 4, 3, 0)
  <1>4. regs' = [ProgramAnalogue(d) EXCEPT !["PHY_PMA_CMN_CTRL1"] = v] BY DEF ProgramPll
  <1>5. /\ DOMAIN d = CommonRegisters
        /\ d["CMN_DIAG_PLL0_INCLK_CTRL"]
                = fields["cmnda_pll0_ip_div"] + 256 * fields["cmnda_pll0_hs_sym_div_sel"]
        /\ d["CMN_DIAG_PLL0_FBH_OVRD"] = fields["cmnda_pll0_fb_div_high"] + 32768
        /\ d["CMN_DIAG_PLL0_FBL_OVRD"] = fields["cmnda_pll0_fb_div_low"] + 32768
        /\ d["CMN_DIAG_PLL0_PXL_DIVL"] = fields["cmnda_pll0_pxdiv_low"]
        /\ d["CMN_DIAG_PLL0_PXL_DIVH"] = fields["cmnda_pll0_pxdiv_high"] + 32768
        /\ d["PHY_PMA_ISO_CMN_CTRL"] = regs["PHY_PMA_ISO_CMN_CTRL"]
        /\ d["PHY_HDP_MODE_CTL"] = regs["PHY_HDP_MODE_CTL"]
    BY <1>2, <1>3, DividersWritten, Powers
  <1> HIDE DEF d, v
  <1>6. DOMAIN regs' = CommonRegisters /\ \A x \in DividerRegisters \union
            {"PHY_PMA_ISO_CMN_CTRL", "PHY_HDP_MODE_CTL"} : regs'[x] = d[x]
    <2>1. "PHY_HDP_MODE_CTL" \in DividerRegisters \union
            {"PHY_PMA_ISO_CMN_CTRL", "PHY_HDP_MODE_CTL"} OBVIOUS
    <2> QED BY <1>4, <1>5, <2>1, RestWritten
  <1> QED BY <1>5, <1>6 DEF DividerRegisters

(* The fields of the serialisers.                                          *)
LEMMA ProgramSerialises ==
  ASSUME Types, ProgramPll, NEW k \in Lanes
  PROVE  /\ DOMAIN lane' = Lanes /\ DOMAIN lane'[k] = LaneRegisters
         /\ lane'[k]["TX_DIAG_TX_CTRL"]
                = Put(lane[k]["TX_DIAG_TX_CTRL"], 6, 2, fields["tx_subrate"] \div 2)
         /\ lane'[k]["XCVR_DIAG_HSCLK_SEL"]
                = Put(lane[k]["XCVR_DIAG_HSCLK_SEL"], 12, 2, fields["cmnda_hs_clk_0_sel"] \div 2)
  BY DEF Types, ProgramPll, ProgramLane, LaneRegisters

(* The divider settings written are those the PHY makes its clocks from.    *)
LEMMA ProgramTunes ==
  ASSUME Types, ProgramPll, pixel_freq \in Nat, Divides(fields, pixel_freq)
  PROVE  Tuned'
  <1> DEFINE ip == fields["cmnda_pll0_ip_div"]
             fb == fields["cmnda_pll0_fb_div_low"] + fields["cmnda_pll0_fb_div_high"] + 4
             px == fields["cmnda_pll0_pxdiv_low"] + fields["cmnda_pll0_pxdiv_high"] + 4
             hs == fields["cmnda_hs_clk_0_sel"] \div 2
             sub == fields["tx_subrate"] \div 2
  <1>0. /\ ip \in 1 .. 255 /\ fields["cmnda_pll0_hs_sym_div_sel"] \in 0 .. 3
        /\ fields["cmnda_pll0_fb_div_low"] \in 0 .. 1023
        /\ fields["cmnda_pll0_fb_div_high"] \in 0 .. 1023
        /\ fields["cmnda_pll0_pxdiv_low"] \in 0 .. 1023
        /\ fields["cmnda_pll0_pxdiv_high"] \in 0 .. 1023
        /\ fields["cmnda_hs_clk_0_sel"] \in 0 .. 3 /\ fields["tx_subrate"] \in 0 .. 7
    BY DEF Divides
  <1>1. /\ Bits(regs'["CMN_DIAG_PLL0_INCLK_CTRL"], 0, 8) = ip
        /\ Bits(regs'["CMN_DIAG_PLL0_FBL_OVRD"], 0, 10) = fields["cmnda_pll0_fb_div_low"]
        /\ Bits(regs'["CMN_DIAG_PLL0_FBH_OVRD"], 0, 10) = fields["cmnda_pll0_fb_div_high"]
        /\ Bits(regs'["CMN_DIAG_PLL0_PXL_DIVL"], 0, 10) = fields["cmnda_pll0_pxdiv_low"]
        /\ Bits(regs'["CMN_DIAG_PLL0_PXL_DIVH"], 0, 10) = fields["cmnda_pll0_pxdiv_high"]
    <2> DEFINE sym == fields["cmnda_pll0_hs_sym_div_sel"]
               fbl == fields["cmnda_pll0_fb_div_low"]
               fbh == fields["cmnda_pll0_fb_div_high"]
               pxl == fields["cmnda_pll0_pxdiv_low"]
               pxh == fields["cmnda_pll0_pxdiv_high"]
    <2>1. /\ regs'["CMN_DIAG_PLL0_INCLK_CTRL"] = ip + 256 * sym
          /\ regs'["CMN_DIAG_PLL0_FBH_OVRD"] = fbh + 32768
          /\ regs'["CMN_DIAG_PLL0_FBL_OVRD"] = fbl + 32768
          /\ regs'["CMN_DIAG_PLL0_PXL_DIVL"] = pxl
          /\ regs'["CMN_DIAG_PLL0_PXL_DIVH"] = pxh + 32768
      BY ProgramWrites
    <2>2. /\ ip \in 1 .. 255 /\ sym \in 0 .. 3 /\ fbl \in 0 .. 1023 /\ fbh \in 0 .. 1023
          /\ pxl \in 0 .. 1023 /\ pxh \in 0 .. 1023
      BY <1>0
    <2> HIDE DEF ip, sym, fbl, fbh, pxl, pxh
    <2>3. (ip + 256 * sym) % 256 = ip /\ (fbh + 32768) % 1024 = fbh /\ (fbl + 32768) % 1024 = fbl
          /\ pxl % 1024 = pxl /\ (pxh + 32768) % 1024 = pxh
      BY <2>2
    <2>4. \A n \in Int : Bits(n, 0, 8) = (n % 256) /\ Bits(n, 0, 10) = (n % 1024)
      BY Powers DEF Bits
    <2>5. /\ ip + 256 * sym \in Int /\ fbh + 32768 \in Int /\ fbl + 32768 \in Int
          /\ pxl \in Int /\ pxh + 32768 \in Int
      BY <2>2
    <2> QED BY <2>1, <2>3, <2>4, <2>5 DEF fbl, fbh, pxl, pxh
  <1>2. ip # 0 /\ px \in Nat \ {0} /\ hs \in 0 .. 3 /\ sub \in 0 .. 3
    <2>1. \A n \in 0 .. 7 : n \div 2 \in 0 .. 3 OBVIOUS
    <2>2. hs \in 0 .. 3 /\ sub \in 0 .. 3
      <3>1. fields["cmnda_hs_clk_0_sel"] \in 0 .. 7 /\ fields["tx_subrate"] \in 0 .. 7 BY <1>0
      <3> QED BY <3>1, <2>1
    <2>3. ip # 0 BY <1>0
    <2>4. px \in Nat \ {0}
      <3> DEFINE pxl == fields["cmnda_pll0_pxdiv_low"]
                 pxh == fields["cmnda_pll0_pxdiv_high"]
      <3>1. pxl \in 0 .. 1023 /\ pxh \in 0 .. 1023 BY <1>0
      <3>2. px = pxl + pxh + 4 OBVIOUS
      <3> HIDE DEF pxl, pxh, px
      <3>3. pxl + pxh + 4 \in Nat /\ pxl + pxh + 4 > 0 BY <3>1
      <3> QED BY <3>2, <3>3
    <2> QED BY <2>2, <2>3, <2>4
  <1>3. (27000 * fb) \div ip = px * pixel_freq /\ px = 10 * 2^hs * 2^sub BY DEF Divides
  <1>4. VcoFrequency' = px * pixel_freq BY <1>1, <1>2, <1>3 DEF VcoFrequency
  <1>5. PixelClock' = (px * pixel_freq) \div px BY <1>1, <1>4 DEF PixelClock
  <1>6. ASSUME NEW k \in Lanes PROVE CharacterClock(k)' = (px * pixel_freq) \div px
    <2>1. /\ Bits(lane'[k]["XCVR_DIAG_HSCLK_SEL"], 12, 2) = hs
          /\ Bits(lane'[k]["TX_DIAG_TX_CTRL"], 6, 2) = sub
      BY <1>2, PutBack, ProgramSerialises DEF Types, SerialiserRegisters
    <2>2. CharacterClock(k)' = (px * pixel_freq) \div (10 * 2^hs * 2^sub)
      <3> HIDE DEF hs, sub, px
      <3> QED BY <2>1, <1>4 DEF CharacterClock
    <2> QED BY <2>2, <1>3
  <1>7. (px * pixel_freq) \div px = pixel_freq
    <2> HIDE DEF px
    <2> QED BY <1>2, DivideProduct
  <1>8. pixel_freq' = pixel_freq BY DEF ProgramPll
  <1>9. character_freq_khz(pixel_freq, clk_ratio) = pixel_freq
    BY Ratio DEF character_freq_khz
  <1> QED BY <1>5, <1>6, <1>7, <1>8, <1>9 DEF Tuned

-----------------------------------------------------------------------------
(* The invariant is kept.                                                  *)

LEMMA Inputs == PixelFreqs \subseteq Nat \ {0} /\ StackValues \subseteq Nat
  BY PhyAssumption, Zenon DEF PhyAssumption

LEMMA StackNat ==
  ASSUME NEW s \in {Uninitialised(v) : v \in StackValues}, NEW f \in ClockFields
  PROVE  s[f] \in Nat
  <1>1. f \in Fields BY DEF ClockFields, Fields, FieldPosition
  <1>2. PICK v \in StackValues : s = Uninitialised(v) OBVIOUS
  <1>3. v \in Nat BY Inputs, Zenon
  <1>4. Uninitialised(v)[f] = IF f = "cmnda_pll0_fb_div_high" THEN 10 ELSE v
    BY <1>1, Zenon DEF Uninitialised
  <1> QED BY <1>2, <1>3, <1>4

LEMMA InitInv == Init => PhyInv
  <1> SUFFICES ASSUME Init PROVE PhyInv OBVIOUS
  <1>1. \A f \in ClockFields : fields[f] \in Nat
    BY StackNat DEF Init
  <1>2. PICK v \in ResetValues :
            /\ regs = [r \in CommonRegisters |->
                    IF r \in {"PHY_PMA_ISO_CMN_CTRL", "PHY_HDP_MODE_CTL"} THEN 0 ELSE v]
            /\ lane = [k \in Lanes |-> [r \in LaneRegisters |-> v]]
    BY DEF Init
  <1>3. v \in Int
    <2>1. v \in 0 .. 2 ^ 16 - 1 BY PhyAssumption, Zenon DEF PhyAssumption
    <2> QED BY <2>1
  <1>4. DOMAIN regs = CommonRegisters /\ \A r \in DividerRegisters : regs[r] \in Int
    BY <1>2, <1>3 DEF CommonRegisters, DividerRegisters
  <1>5. /\ DOMAIN lane = Lanes
        /\ \A k \in Lanes : DOMAIN lane[k] = LaneRegisters
                            /\ \A r \in SerialiserRegisters : lane[k][r] \in Int
    BY <1>2, <1>3 DEF LaneRegisters, SerialiserRegisters
  <1>6. Types BY <1>1, <1>4, <1>5 DEF Types, Init, Points
  <1>7. Settings BY PhyAssumption DEF Init, Settings, SupportedFreqs
  <1>8. Held BY <1>2 DEF Init, Held, CommonRegisters
  <1>9. Waited BY DEF Init, Waited
  <1> QED BY <1>6, <1>7, <1>8, <1>9 DEF PhyInv

(* Where the dividers' registers are left alone, so are the clocks.         *)
LEMMA ClocksUntouched ==
  ASSUME pixel_freq' = pixel_freq,
         \A r \in DividerRegisters : regs'[r] = regs[r],
         \A k \in Lanes, r \in SerialiserRegisters : lane'[k][r] = lane[k][r]
  PROVE  PixelClock' = PixelClock /\ (Tuned => Tuned')
  <1>1. VcoFrequency' = VcoFrequency BY DEF VcoFrequency, DividerRegisters
  <1>2. PixelClock' = PixelClock BY <1>1 DEF PixelClock, DividerRegisters
  <1>3. ASSUME NEW k \in Lanes PROVE CharacterClock(k)' = CharacterClock(k)
    BY <1>1 DEF CharacterClock, SerialiserRegisters
  <1> QED BY <1>2, <1>3 DEF Tuned

(* A step that touches neither the settings nor the clocks.                 *)
LEMMA Bystander ==
  ASSUME Types, Settings,
         pixel_freq' = pixel_freq, fields' = fields,
         pc \notin {"select_pll", "select_vco", "program"},
         pc' \in Points \ {"select_pll", "select_vco", "program"},
         pixel_freq = 0 => pc' = "idle",
         DOMAIN regs' = CommonRegisters,
         \A r \in DividerRegisters : regs'[r] = regs[r],
         DOMAIN lane' = Lanes,
         \A k \in Lanes : DOMAIN lane'[k] = LaneRegisters,
         \A k \in Lanes, r \in SerialiserRegisters : lane'[k][r] = lane[k][r],
         pwr_ack' \in BOOLEAN, cmn_ready' \in BOOLEAN, power_ack' \in {"none", "A2", "A0"}
  PROVE  Types' /\ Settings'
  <1>1. Types' BY DEF Types
  <1>2. Tuned => Tuned' BY ClocksUntouched
  <1>3. Settings' BY <1>2 DEF Settings
  <1> QED BY <1>1, <1>3

(* What the words written to the control registers ask for.                 *)
LEMMA Words ==
  /\ Bits(0, 0, 2) = 0 /\ Bits(19, 0, 2) = 3
  /\ Bits(4, 0, 4) = 4 /\ Bits(257, 0, 4) = 1
  /\ Bits(15 * 2^num_lanes, 0, 4) * 2^12 + 257 = 257
  BY Powers DEF Bits, num_lanes

LEMMA AssertResetKeeps ==
  ASSUME PhyInv, NEW freq \in PixelFreqs, AssertReset(freq)
  PROVE  PhyInv'
  <1>1. \A f \in ClockFields : fields'[f] \in Nat
    BY StackNat DEF AssertReset
  <1>2. /\ DOMAIN regs' = CommonRegisters /\ regs'["PHY_PMA_ISO_CMN_CTRL"] = 0
        /\ \A r \in DividerRegisters : regs'[r] = regs[r]
    BY DEF PhyInv, Types, AssertReset, CommonRegisters, DividerRegisters
  <1>3. Types'
    <2>1. freq # 0 /\ freq \in PixelFreqs BY PhyAssumption
    <2>2. \A r \in DividerRegisters : regs'[r] \in Int BY <1>2 DEF PhyInv, Types
    <2>3. pc' = "select_pll" /\ pixel_freq' = freq /\ lane' = lane BY DEF AssertReset
    <2>4. pwr_ack' = FALSE /\ cmn_ready' = FALSE /\ power_ack' = "none" BY DEF AssertReset
    <2> QED BY <1>1, <1>2, <2>1, <2>2, <2>3, <2>4 DEF PhyInv, Types, Points
  <1>4. Settings' BY DEF Settings, AssertReset
  <1>5. Held' BY <1>2 DEF Held, AssertReset
  <1>6. Waited' BY DEF Waited, AssertReset
  <1> QED BY <1>3, <1>4, <1>5, <1>6 DEF PhyInv

(* A frequency the tables know has the one row of its dividers.             *)
LEMMA KnownDivides ==
  ASSUME NEW f \in SupportedFreqs
  PROVE  \E r : RowsOf(f) = {r} /\ ClockFields \subseteq DOMAIN r /\ Divides(r, f)
  <1>1. RowsOf(f) # {} BY Ratio DEF SupportedFreqs, Supported, RowsOf
  <1> QED BY <1>1, RowDivides

(* The fields stay numbers, known row or not.                              *)
LEMMA PllFieldsNat ==
  ASSUME NEW s, NEW f, NEW x \in ClockFields, s[x] \in Nat
  PROVE  PllFields(s, f, clk_ratio[1], TRUE)[x] \in Nat
  <1>1. CASE RowsOf(f) = {}
    <2>1. PllFields(s, f, clk_ratio[1], TRUE) = SetFields(s, RowsOf(f))
      BY Ratio DEF RowsOf, PllFields
    <2>2. x \in Fields BY DEF ClockFields, Fields, FieldPosition
    <2> QED BY <1>1, <2>1, <2>2 DEF SetFields
  <1>2. CASE RowsOf(f) # {}
    <2>1. PICK r : RowsOf(f) = {r} /\ ClockFields \subseteq DOMAIN r /\ Divides(r, f)
      BY <1>2, RowDivides
    <2>2. PllFields(s, f, clk_ratio[1], TRUE)[x] = r[x] BY <2>1, PllFieldsAre
    <2>3. r[x] \in Nat
      <3>1. /\ r["cmnda_pll0_ip_div"] \in 1 .. 255 /\ r["cmnda_pll0_hs_sym_div_sel"] \in 0 .. 3
            /\ r["cmnda_pll0_fb_div_low"] \in 0 .. 1023
            /\ r["cmnda_pll0_fb_div_high"] \in 0 .. 1023
            /\ r["cmnda_pll0_pxdiv_low"] \in 0 .. 1023
            /\ r["cmnda_pll0_pxdiv_high"] \in 0 .. 1023
            /\ r["cmnda_hs_clk_0_sel"] \in 0 .. 3 /\ r["tx_subrate"] \in 0 .. 7
        BY <2>1 DEF Divides
      <3>2. /\ r["cmnda_pll0_ip_div"] \in Nat /\ r["cmnda_pll0_hs_sym_div_sel"] \in Nat
            /\ r["cmnda_pll0_fb_div_low"] \in Nat /\ r["cmnda_pll0_fb_div_high"] \in Nat
            /\ r["cmnda_pll0_pxdiv_low"] \in Nat /\ r["cmnda_pll0_pxdiv_high"] \in Nat
            /\ r["cmnda_hs_clk_0_sel"] \in Nat /\ r["tx_subrate"] \in Nat
        <4>1. \A n : n \in 1 .. 255 \/ n \in 0 .. 3 \/ n \in 0 .. 1023 \/ n \in 0 .. 7 => n \in Nat
          OBVIOUS
        <4> QED BY <3>1, <4>1
      <3> QED BY <3>2, Zenon DEF ClockFields
    <2> QED BY <2>2, <2>3
  <1> QED BY <1>1, <1>2

(* The dividers read the fields they divide by, and no others.              *)
LEMMA DividesSame ==
  ASSUME NEW s, NEW t, NEW f, \A x \in ClockFields : t[x] = s[x], Divides(s, f)
  PROVE  Divides(t, f)
  <1>1. /\ t["cmnda_pll0_ip_div"] = s["cmnda_pll0_ip_div"]
        /\ t["cmnda_pll0_hs_sym_div_sel"] = s["cmnda_pll0_hs_sym_div_sel"]
        /\ t["cmnda_pll0_fb_div_low"] = s["cmnda_pll0_fb_div_low"]
        /\ t["cmnda_pll0_fb_div_high"] = s["cmnda_pll0_fb_div_high"]
        /\ t["cmnda_pll0_pxdiv_low"] = s["cmnda_pll0_pxdiv_low"]
        /\ t["cmnda_pll0_pxdiv_high"] = s["cmnda_pll0_pxdiv_high"]
        /\ t["cmnda_hs_clk_0_sel"] = s["cmnda_hs_clk_0_sel"]
        /\ t["tx_subrate"] = s["tx_subrate"]
    BY DEF ClockFields
  <1> DEFINE By(ip, sym, fl, fh, pl, ph, hs, tx) ==
                 /\ ip \in 1 .. 255 /\ sym \in 0 .. 3
                 /\ fl \in 0 .. 1023 /\ fh \in 0 .. 1023
                 /\ pl \in 0 .. 1023 /\ ph \in 0 .. 1023
                 /\ hs \in 0 .. 3 /\ tx \in 0 .. 7
                 /\ (27000 * (fl + fh + 4)) \div ip = (pl + ph + 4) * f
                 /\ pl + ph + 4 = 10 * 2^(hs \div 2) * 2^(tx \div 2)
             Of(x) == By(x["cmnda_pll0_ip_div"], x["cmnda_pll0_hs_sym_div_sel"],
                         x["cmnda_pll0_fb_div_low"], x["cmnda_pll0_fb_div_high"],
                         x["cmnda_pll0_pxdiv_low"], x["cmnda_pll0_pxdiv_high"],
                         x["cmnda_hs_clk_0_sel"], x["tx_subrate"])
  <1>2. \A x : Divides(x, f) = Of(x) BY DEF Divides
  <1> HIDE DEF By
  <1>3. Of(s) = Of(t) BY <1>1, Zenon
  <1> QED BY <1>2, <1>3

LEMMA SelectPllKeeps ==
  ASSUME PhyInv, SelectPll
  PROVE  PhyInv'
  <1> DEFINE new == PllFields(fields, pixel_freq, clk_ratio[1], TRUE)
  <1>1. fields' = new /\ pc = "select_pll" /\ pc' = "select_vco"
        /\ UNCHANGED <<pixel_freq, regs, lane, pwr_ack, cmn_ready, power_ack>>
    BY DEF SelectPll, registerVars, statusVars
  <1>2. \A x \in ClockFields : new[x] \in Nat BY PllFieldsNat DEF PhyInv, Types
  <1>3. ASSUME pixel_freq \in SupportedFreqs PROVE Divides(new, pixel_freq)
    <2>1. PICK r : RowsOf(pixel_freq) = {r} /\ ClockFields \subseteq DOMAIN r
                   /\ Divides(r, pixel_freq)
      BY <1>3, KnownDivides
    <2>2. \A x \in ClockFields : new[x] = r[x] BY <2>1, PllFieldsAre
    <2> HIDE DEF new
    <2> QED BY <2>1, <2>2, DividesSame
  <1> HIDE DEF new
  <1>4. Types'
    <2>1. \A x \in ClockFields : fields'[x] \in Nat BY <1>1, <1>2
    <2> QED BY <1>1, <2>1 DEF PhyInv, Types, Points
  <1>5. Settings' BY <1>1, <1>3 DEF Settings
  <1>6. Held' BY <1>1 DEF PhyInv, Held
  <1>7. Waited' BY <1>1 DEF PhyInv, Waited
  <1> QED BY <1>4, <1>5, <1>6, <1>7 DEF PhyInv

LEMMA SelectVcoKeeps ==
  ASSUME PhyInv, SelectVco
  PROVE  PhyInv'
  <1>1. /\ pc = "select_vco" /\ pc' = "program"
        /\ UNCHANGED <<pixel_freq, regs, lane, pwr_ack, cmn_ready, power_ack>>
    BY DEF SelectVco, registerVars, statusVars
  <1>2. \A x \in ClockFields : fields'[x] = fields[x] BY VcoFieldsKeep DEF SelectVco
  <1>3. Types' BY <1>1, <1>2 DEF PhyInv, Types, Points
  <1>4. Settings' BY <1>1, <1>2, DividesSame DEF PhyInv, Settings
  <1>5. Held' BY <1>1 DEF PhyInv, Held
  <1>6. Waited' BY <1>1 DEF PhyInv, Waited
  <1> QED BY <1>3, <1>4, <1>5, <1>6 DEF PhyInv

LEMMA ProgramPllKeeps ==
  ASSUME PhyInv, ProgramPll
  PROVE  PhyInv'
  <1>1. /\ pc = "program" /\ pc' = "release"
        /\ UNCHANGED <<pixel_freq, fields, pwr_ack, cmn_ready, power_ack>>
    BY DEF ProgramPll, statusVars
  <1>2. Types BY DEF PhyInv
  <1>3. /\ DOMAIN regs' = CommonRegisters
        /\ regs'["PHY_PMA_ISO_CMN_CTRL"] = regs["PHY_PMA_ISO_CMN_CTRL"]
        /\ regs'["PHY_HDP_MODE_CTL"] = regs["PHY_HDP_MODE_CTL"]
    BY <1>2, ProgramWrites
  <1>4. \A r \in DividerRegisters : regs'[r] \in Int
    BY <1>2, ProgramWrites DEF Types, DividerRegisters, ClockFields
  <1>5. ASSUME NEW k \in Lanes
        PROVE  /\ DOMAIN lane' = Lanes /\ DOMAIN lane'[k] = LaneRegisters
               /\ \A r \in SerialiserRegisters : lane'[k][r] \in Int
    <2>1. lane[k]["TX_DIAG_TX_CTRL"] \in Int /\ lane[k]["XCVR_DIAG_HSCLK_SEL"] \in Int
      BY <1>2 DEF Types, SerialiserRegisters
    <2>2. fields["tx_subrate"] \div 2 \in Int /\ fields["cmnda_hs_clk_0_sel"] \div 2 \in Int
      BY <1>2 DEF Types, ClockFields
    <2> QED BY <1>2, <2>1, <2>2, ProgramSerialises, PutInt DEF SerialiserRegisters
  <1>6. DOMAIN lane' = Lanes BY DEF ProgramPll
  <1>7. Types' BY <1>1, <1>2, <1>3, <1>4, <1>5, <1>6 DEF Types, Points
  <1>8. Settings'
    <2>1. ASSUME pixel_freq \in SupportedFreqs PROVE Tuned'
      <3>1. Divides(fields, pixel_freq) BY <1>1, <2>1 DEF PhyInv, Settings
      <3>2. pixel_freq \in Nat BY <2>1, Inputs DEF SupportedFreqs
      <3> QED BY <1>2, <3>1, <3>2, ProgramTunes
    <2> QED BY <1>1, <2>1 DEF Settings
  <1>9. Held' BY <1>1, <1>3 DEF PhyInv, Held
  <1>10. Waited' BY <1>1 DEF PhyInv, Waited
  <1> QED BY <1>7, <1>8, <1>9, <1>10 DEF PhyInv

LEMMA ReleaseResetKeeps ==
  ASSUME PhyInv, ReleaseReset
  PROVE  PhyInv'
  <1>1. /\ pc = "release" /\ pc' = "wait_pwr_ack"
        /\ UNCHANGED <<pixel_freq, fields, pwr_ack, cmn_ready, power_ack>>
    BY DEF ReleaseReset, statusVars
  <1>2. Types /\ Settings BY DEF PhyInv
  <1>3. DOMAIN regs' = CommonRegisters /\ \A r \in DividerRegisters : regs'[r] = regs[r]
    BY <1>2 DEF Types, ReleaseReset, CommonRegisters, DividerRegisters
  <1>4. DOMAIN lane' = Lanes BY DEF ReleaseReset
  <1>5. ASSUME NEW k \in Lanes
        PROVE  /\ DOMAIN lane'[k] = LaneRegisters
               /\ \A r \in SerialiserRegisters : lane'[k][r] = lane[k][r]
    BY <1>2 DEF Types, ReleaseReset, SerialiserRegisters, LaneRegisters
  <1>6. Types' /\ Settings'
    <2>1. pixel_freq # 0 BY <1>1, <1>2 DEF Types
    <2>2. /\ pc \notin {"select_pll", "select_vco", "program"}
          /\ pc' \in Points \ {"select_pll", "select_vco", "program"}
      BY <1>1 DEF Points
    <2>3. pwr_ack' \in BOOLEAN /\ cmn_ready' \in BOOLEAN /\ power_ack' \in {"none", "A2", "A0"}
      BY <1>1, <1>2 DEF Types
    <2> QED BY <1>1, <1>2, <1>3, <1>4, <1>5, <2>1, <2>2, <2>3, Bystander
  <1>7. Held' BY <1>1, <1>2 DEF Held, Types
  <1>8. Waited' BY <1>1 DEF PhyInv, Waited
  <1> QED BY <1>6, <1>7, <1>8 DEF PhyInv

(* The steps of the driver that write no register.                          *)
LEMMA SeeKeeps ==
  ASSUME PhyInv, SeePowerAck \/ SeeReady \/ SeeA0
  PROVE  PhyInv'
  <1>1. /\ pc \in {"wait_pwr_ack", "wait_ready", "wait_A0"}
        /\ pc' \in {"wait_ready", "mode", "idle"}
        /\ pc' = "mode" => cmn_ready
        /\ pc' = "idle" => pc = "wait_A0" /\ power_ack = "A0"
        /\ UNCHANGED <<pixel_freq, fields, regs, lane, pwr_ack, cmn_ready, power_ack>>
    BY DEF SeePowerAck, SeeReady, SeeA0, registerVars, statusVars
  <1>2. Types /\ Settings BY DEF PhyInv
  <1>3. pixel_freq # 0 BY <1>1, <1>2 DEF Types
  <1>4. Types' BY <1>1, <1>2, <1>3 DEF Types, Points
  <1>5. Settings'
    <2>1. Tuned => Tuned' BY <1>1, ClocksUntouched
    <2> QED BY <1>1, <1>2, <2>1 DEF Settings
  <1>6. Held' BY <1>1, <1>3 DEF Held
  <1>7. Waited' BY <1>1, <1>3 DEF PhyInv, Waited
  <1> QED BY <1>4, <1>5, <1>6, <1>7 DEF PhyInv

(* The steps of the driver that ask for a power state.                      *)
LEMMA AskKeeps ==
  ASSUME PhyInv, AskA2 \/ AskA0
  PROVE  PhyInv'
  <1>1. /\ pc \in {"mode", "wait_A2"} /\ pc' \in {"wait_A2", "wait_A0"}
        /\ UNCHANGED <<pixel_freq, fields, lane, pwr_ack, cmn_ready, power_ack>>
    BY DEF AskA2, AskA0, statusVars
  <1>2. Types /\ Settings BY DEF PhyInv
  <1>3. pixel_freq # 0 BY <1>1, <1>2 DEF Types
  <1>4. /\ DOMAIN regs' = CommonRegisters /\ \A r \in DividerRegisters : regs'[r] = regs[r]
        /\ pc' = "wait_A0" => regs'["PHY_HDP_MODE_CTL"] = 257
    <2>1. CASE AskA2
      BY <1>2, <2>1 DEF Types, AskA2, CommonRegisters, DividerRegisters
    <2>2. CASE AskA0
      <3>1. regs' = [regs EXCEPT !["PHY_HDP_MODE_CTL"] = 257] BY <2>2, Words, Zenon DEF AskA0
      <3> QED BY <1>2, <3>1 DEF Types, CommonRegisters, DividerRegisters
    <2> QED BY <2>1, <2>2
  <1>5. Types' /\ Settings'
    <2>1. /\ DOMAIN lane' = Lanes /\ \A k \in Lanes : DOMAIN lane'[k] = LaneRegisters
          /\ \A k \in Lanes, r \in SerialiserRegisters : lane'[k][r] = lane[k][r]
      BY <1>1, <1>2 DEF Types
    <2>2. /\ pc \notin {"select_pll", "select_vco", "program"}
          /\ pc' \in Points \ {"select_pll", "select_vco", "program"}
      BY <1>1 DEF Points
    <2>3. pwr_ack' \in BOOLEAN /\ cmn_ready' \in BOOLEAN /\ power_ack' \in {"none", "A2", "A0"}
      BY <1>1, <1>2 DEF Types
    <2> QED BY <1>1, <1>2, <1>3, <1>4, <2>1, <2>2, <2>3, Bystander
  <1>6. Held' BY <1>1, <1>3 DEF Held
  <1>7. Waited' BY <1>1, <1>4 DEF PhyInv, Waited
  <1> QED BY <1>5, <1>6, <1>7 DEF PhyInv

(* What the PHY acknowledges, it acknowledges out of reset.                 *)
LEMMA PhyKeeps ==
  ASSUME PhyInv, Phy
  PROVE  PhyInv'
  <1>1. UNCHANGED <<pc, pixel_freq, fields, regs, lane>>
    BY DEF Phy, AckPower, LockPll, AckPowerState, driverVars, registerVars
  <1>2. Types /\ Settings /\ Held /\ Waited BY DEF PhyInv
  <1>3. regs["PHY_PMA_ISO_CMN_CTRL"] # 0 \/ pwr_ack \/ cmn_ready
    BY Words DEF Phy, AckPower, LockPll, AckPowerState, InReset
  <1>4. pc \notin {"select_pll", "select_vco", "program", "release"} /\ pixel_freq # 0
    BY <1>2, <1>3 DEF Held
  <1>5. regs["PHY_HDP_MODE_CTL"] = 257 => PowerStateAsked = "A0"
    BY Words DEF PowerStateAsked
  <1>6. PowerStateAsked \in {"none", "A2", "A0"} BY Zenon DEF PowerStateAsked
  <1>7. /\ pwr_ack' \in BOOLEAN /\ cmn_ready' \in BOOLEAN
        /\ power_ack' \in {"none", "A2", "A0"}
        /\ cmn_ready => cmn_ready'
        /\ ~cmn_ready' => power_ack' = "none"
        /\ power_ack' # power_ack => power_ack' = PowerStateAsked
    <2>1. CASE AckPower BY <1>2, <2>1 DEF Types, Waited, AckPower
    <2>2. CASE LockPll BY <1>2, <2>2 DEF Types, Waited, LockPll
    <2>3. CASE AckPowerState BY <1>2, <1>6, <2>3 DEF Types, Waited, AckPowerState
    <2> QED BY <2>1, <2>2, <2>3 DEF Phy
  <1>8. Types' BY <1>1, <1>2, <1>7 DEF Types
  <1>9. Settings'
    <2>1. Tuned => Tuned' BY <1>1, ClocksUntouched
    <2> QED BY <1>1, <1>2, <2>1 DEF Settings
  <1>10. Held' BY <1>1, <1>4 DEF Held
  <1>11. Waited' BY <1>1, <1>2, <1>5, <1>7 DEF Waited
  <1> QED BY <1>8, <1>9, <1>10, <1>11 DEF PhyInv

LEMMA StepKeeps ==
  ASSUME PhyInv, [Next]_vars
  PROVE  PhyInv'
  <1>1. CASE Next
    BY <1>1, AssertResetKeeps, SelectPllKeeps, SelectVcoKeeps, ProgramPllKeeps, ReleaseResetKeeps,
       SeeKeeps, AskKeeps, PhyKeeps
    DEF Next, Driver
  <1>2. CASE UNCHANGED vars
    <2>1. UNCHANGED <<pc, pixel_freq, fields, regs, lane, pwr_ack, cmn_ready, power_ack>>
      BY <1>2 DEF vars, driverVars, registerVars, statusVars
    <2>2. Types' /\ Held' /\ Waited' BY <2>1 DEF PhyInv, Types, Held, Waited
    <2>3. Tuned => Tuned' BY <2>1, ClocksUntouched
    <2>4. Settings' BY <2>1, <2>3 DEF PhyInv, Settings
    <2> QED BY <2>2, <2>4 DEF PhyInv
  <1> QED BY <1>1, <1>2

LEMMA Invariance == Spec => []PhyInv
  <1>1. Init => PhyInv BY InitInv
  <1>2. PhyInv /\ [Next]_vars => PhyInv' BY StepKeeps
  <1> QED BY <1>1, <1>2, PTL DEF Spec

-----------------------------------------------------------------------------
(* When init_hdmi() goes on to the transmitter, the PHY gives the pixel     *)
(* clock of this image and, on every lane, the character rate that          *)
(* phy_cfg_t28hpc() returned (API_AFE_t28hpc_hdmitx.c 205-219), whatever    *)
(* images came before and whatever the stack and the registers held.        *)
THEOREM ClocksDelivered == Spec => []ClocksAsReturned
  <1>1. PhyInv => ClocksAsReturned
    <2> SUFFICES ASSUME PhyInv, pc = "idle", pixel_freq \in SupportedFreqs
                 PROVE  cmn_ready /\ power_ack = "A0" /\ Tuned
      BY DEF ClocksAsReturned, Tuned
    <2>1. pixel_freq # 0 BY Inputs DEF SupportedFreqs
    <2>2. cmn_ready /\ power_ack = "A0" BY <2>1 DEF PhyInv, Waited
    <2>3. Tuned BY DEF PhyInv, Settings
    <2> QED BY <2>2, <2>3
  <1> QED BY <1>1, Invariance, PTL

(* A step of the driver that moves a setting of the PLL or of a serialiser  *)
(* starts and ends with the PHY in reset (phy_reset_workaround,             *)
(* API_AFE_t28hpc_hdmitx.c 1676-1799).                                      *)
THEOREM SettingsMoveInReset == Spec => RetunedInReset
  <1> DEFINE Moved == \/ \E r \in TuningRegisters : regs'[r] # regs[r]
                      \/ \E k \in Lanes, r \in {"TX_DIAG_TX_CTRL", "XCVR_DIAG_HSCLK_SEL"} :
                            lane'[k][r] # lane[k][r]
  <1>1. ASSUME PhyInv, Next PROVE Moved => InReset /\ InReset'
    <2>1. CASE ProgramPll
      <3>1. PhyInv' BY <1>1, <2>1, ProgramPllKeeps
      <3>2. pc = "program" /\ pc' = "release" BY <2>1 DEF ProgramPll
      <3>3. regs["PHY_PMA_ISO_CMN_CTRL"] = 0 /\ regs'["PHY_PMA_ISO_CMN_CTRL"] = 0
        BY <1>1, <3>1, <3>2 DEF PhyInv, Held
      <3> QED BY <3>3, Words DEF InReset
    <2>2. CASE ~ProgramPll
      <3>1. /\ \A r \in TuningRegisters : regs'[r] = regs[r]
            /\ \A k \in Lanes, r \in SerialiserRegisters : lane'[k][r] = lane[k][r]
        <4>1. DOMAIN regs = CommonRegisters /\ \A k \in Lanes : DOMAIN lane[k] = LaneRegisters
          BY <1>1 DEF PhyInv, Types
        <4>2. CASE \E freq \in PixelFreqs : AssertReset(freq)
          BY <4>1, <4>2 DEF AssertReset, TuningRegisters, CommonRegisters
        <4>3. CASE ReleaseReset
          BY <4>1, <4>3
          DEF ReleaseReset, TuningRegisters, CommonRegisters, SerialiserRegisters, LaneRegisters
        <4>4. CASE AskA2
          BY <4>1, <4>4 DEF AskA2, TuningRegisters, CommonRegisters
        <4>5. CASE AskA0
          BY <4>1, <4>5 DEF AskA0, TuningRegisters, CommonRegisters
        <4>6. CASE SelectPll \/ SelectVco \/ SeePowerAck \/ SeeReady \/ SeeA0 \/ Phy
          BY <4>6 DEF SelectPll, SelectVco, SeePowerAck, SeeReady, SeeA0, Phy, AckPower, LockPll,
                      AckPowerState, registerVars
        <4> QED BY <1>1, <2>2, <4>2, <4>3, <4>4, <4>5, <4>6 DEF Next, Driver
      <3> QED BY <3>1 DEF SerialiserRegisters
    <2> QED BY <2>1, <2>2
  <1>2. PhyInv /\ [Next]_vars => [Moved => InReset /\ InReset']_vars BY <1>1
  <1> QED BY <1>2, Invariance, PTL DEF Spec, RetunedInReset

(* What the PHY decodes is a frequency, settings in the tables or not.      *)
LEMMA ClockNat == Types => PixelClock \in Nat
  <1> SUFFICES ASSUME Types PROVE PixelClock \in Nat OBVIOUS
  <1>1. \A n \in Int : Bits(n, 0, 8) \in Nat /\ Bits(n, 0, 10) \in Nat BY Powers DEF Bits
  <1> DEFINE ip == Bits(regs["CMN_DIAG_PLL0_INCLK_CTRL"], 0, 8)
             fbl == Bits(regs["CMN_DIAG_PLL0_FBL_OVRD"], 0, 10)
             fbh == Bits(regs["CMN_DIAG_PLL0_FBH_OVRD"], 0, 10)
             pxl == Bits(regs["CMN_DIAG_PLL0_PXL_DIVL"], 0, 10)
             pxh == Bits(regs["CMN_DIAG_PLL0_PXL_DIVH"], 0, 10)
  <1>2. ip \in Nat /\ fbl \in Nat /\ fbh \in Nat /\ pxl \in Nat /\ pxh \in Nat
    BY <1>1 DEF Types, DividerRegisters
  <1>3. VcoFrequency = IF ip = 0 THEN 0 ELSE (27000 * (fbl + fbh + 4)) \div ip BY DEF VcoFrequency
  <1>4. PixelClock = VcoFrequency \div (pxl + pxh + 4) BY DEF PixelClock
  <1> HIDE DEF ip, fbl, fbh, pxl, pxh
  <1>5. ASSUME NEW m \in Nat, NEW n \in Nat, n # 0 PROVE m \div n \in Nat BY <1>5
  <1>6. VcoFrequency \in Nat BY <1>2, <1>3, <1>5
  <1>7. pxl + pxh + 4 \in Nat /\ pxl + pxh + 4 # 0 BY <1>2
  <1> QED BY <1>4, <1>5, <1>6, <1>7

(* The bring-up implements a clock that goes off when the next image asks   *)
(* for its frequency and then runs at that frequency only: a request maps   *)
(* to the reset, coming up to the acknowledgement of A0, and every other    *)
(* step of the driver and of the PHY to no step of the clock at all.        *)
THEOREM ImplementsClock == Spec => ImplementsClockSource
  <1>1. Init => Abstract!Init BY DEF Init, Abstract!Init, Abstract!Off, ClockDelivered
  <1>2. ASSUME PhyInv, PhyInv', Next
        PROVE  Abstract!Next \/ UNCHANGED <<pixel_freq, ClockDelivered>>
    <2>1. CASE \E freq \in PixelFreqs : AssertReset(freq)
      <3>1. PICK freq \in PixelFreqs : AssertReset(freq) BY <2>1
      <3>2. pixel_freq' = freq /\ ClockDelivered' = 0 BY <3>1 DEF AssertReset, ClockDelivered
      <3> QED BY <3>2 DEF Abstract!Next, Abstract!Ask, Abstract!Off
    <2>2. CASE ProgramPll
      <3>1. pixel_freq' = pixel_freq /\ ~cmn_ready /\ ~cmn_ready'
        BY <1>2, <2>2 DEF PhyInv, Held, ProgramPll, statusVars
      <3> QED BY <3>1 DEF ClockDelivered
    <2>3. CASE ReleaseReset \/ AskA2 \/ AskA0
      <3>1. UNCHANGED <<pixel_freq, cmn_ready, power_ack>>
        BY <2>3 DEF ReleaseReset, AskA2, AskA0, statusVars
      <3>2. DOMAIN regs = CommonRegisters BY <1>2 DEF PhyInv, Types
      <3>3. \A r \in DividerRegisters : regs'[r] = regs[r]
        BY <2>3, <3>2 DEF ReleaseReset, AskA2, AskA0, CommonRegisters, DividerRegisters
      <3>4. VcoFrequency' = VcoFrequency BY <3>3 DEF VcoFrequency, DividerRegisters
      <3>5. PixelClock' = PixelClock BY <3>3, <3>4 DEF PixelClock, DividerRegisters
      <3> QED BY <3>1, <3>5 DEF ClockDelivered
    <2>4. CASE SelectPll \/ SelectVco \/ SeePowerAck \/ SeeReady \/ SeeA0 \/ AckPower
      <3>1. UNCHANGED <<pixel_freq, cmn_ready, power_ack, regs, lane>>
        BY <2>4 DEF SelectPll, SelectVco, SeePowerAck, SeeReady, SeeA0, AckPower, driverVars,
                    registerVars, statusVars
      <3>2. PixelClock' = PixelClock BY <3>1, ClocksUntouched
      <3> QED BY <3>1, <3>2 DEF ClockDelivered
    <2>5. CASE LockPll
      <3>1. pixel_freq' = pixel_freq /\ ~cmn_ready /\ power_ack' = power_ack
        BY <2>5 DEF LockPll, driverVars
      <3>2. power_ack = "none" BY <1>2, <3>1 DEF PhyInv, Waited
      <3> QED BY <3>1, <3>2 DEF ClockDelivered
    <2>6. CASE AckPowerState
      <3>1. /\ cmn_ready /\ cmn_ready' /\ power_ack' # power_ack
            /\ UNCHANGED <<pc, pixel_freq, regs, lane>>
        BY <2>6 DEF AckPowerState, driverVars, registerVars
      <3>2. pixel_freq # 0 /\ pc \notin {"select_pll", "select_vco", "program"}
        BY <1>2, <3>1 DEF PhyInv, Held
      <3>3. PixelClock' = PixelClock BY <3>1, ClocksUntouched
      <3>4. PixelClock \in Nat BY <1>2, ClockNat DEF PhyInv
      <3>5. pixel_freq \in SupportedFreqs => PixelClock = pixel_freq
        BY <1>2, <3>2 DEF PhyInv, Settings, Tuned
      <3>6. CASE power_ack' = "A0"
        <4>1. ClockDelivered = 0 /\ ClockDelivered' = PixelClock
          BY <3>1, <3>3, <3>6 DEF ClockDelivered
        <4> QED BY <3>1, <3>2, <3>4, <3>5, <4>1 DEF Abstract!Next, Abstract!Run, Abstract!Off
      <3>7. CASE power_ack' # "A0"
        <4>1. ClockDelivered' = 0 BY <3>7 DEF ClockDelivered
        <4> QED BY <3>1, <4>1 DEF Abstract!Next, Abstract!Pause, Abstract!Off
      <3> QED BY <3>6, <3>7
    <2> QED BY <1>2, <2>1, <2>2, <2>3, <2>4, <2>5, <2>6 DEF Next, Driver, Phy
  <1>3. ASSUME PhyInv, UNCHANGED vars PROVE UNCHANGED <<pixel_freq, ClockDelivered>>
    <2>1. UNCHANGED <<pixel_freq, cmn_ready, power_ack, regs, lane>>
      BY <1>3 DEF vars, driverVars, registerVars, statusVars
    <2>2. PixelClock' = PixelClock BY <2>1, ClocksUntouched
    <2> QED BY <2>1, <2>2 DEF ClockDelivered
  <1>4. PhyInv /\ PhyInv' /\ [Next]_vars => [Abstract!Next]_<<pixel_freq, ClockDelivered>>
    BY <1>2, <1>3
  <1> QED BY <1>1, <1>4, Invariance, PTL DEF Spec, ImplementsClockSource, Abstract!Spec
-----------------------------------------------------------------------------
(* phy_cfg_t28hpc() asked for anything.                                     *)

(* What it left is what it computes from the request, for some stack.       *)
SetupInv ==
    \/ request = NoRequest
    \/ /\ IsRatio(request.ratio) /\ request.from_phy \in BOOLEAN
       /\ \E v : computed = PhyFields(Uninitialised(v), request.pixel_freq, request.ratio[1],
                                      request.from_phy)

LEMMA RatioParts ==
  ASSUME NEW format, NEW bpp
  PROVE  IsRatio(ClkRatio(format, bpp))
  <1> DEFINE t11 == <<"1_1", 1, 1>>
             t12 == <<"1_2", 1, 2>>
             t58 == <<"5_8", 5, 8>>
             t34 == <<"3_4", 3, 4>>
             t54 == <<"5_4", 5, 4>>
             t32 == <<"3_2", 3, 2>>
             t21 == <<"2_1", 2, 1>>
  <1>1. /\ IsRatio(t11) /\ IsRatio(t12) /\ IsRatio(t58) /\ IsRatio(t34)
        /\ IsRatio(t54) /\ IsRatio(t32) /\ IsRatio(t21)
    BY DEF IsRatio
  <1>2. ClkRatio(format, bpp) =
            CASE format = "YCBCR_4_2_2" -> t11
              [] format = "YCBCR_4_2_0" /\ bpp = 8 -> t12
              [] format = "YCBCR_4_2_0" /\ bpp = 10 -> t58
              [] format = "YCBCR_4_2_0" /\ bpp = 12 -> t34
              [] format \notin {"YCBCR_4_2_2", "YCBCR_4_2_0"} /\ bpp = 10 -> t54
              [] format \notin {"YCBCR_4_2_2", "YCBCR_4_2_0"} /\ bpp = 12 -> t32
              [] format \notin {"YCBCR_4_2_2", "YCBCR_4_2_0"} /\ bpp = 16 -> t21
              [] OTHER -> t11
    BY Zenon DEF ClkRatio
  <1> HIDE DEF t11, t12, t58, t34, t54, t32, t21
  <1>3. ClkRatio(format, bpp) \in {t11, t12, t58, t34, t54, t32, t21}
    BY <1>2
  <1> QED BY <1>1, <1>3

LEMMA StandardRequest ==
  ASSUME NEW r, Standard(r)
  PROVE  r.pixel_freq \in StandardFreqs
  <1>1. PICK c \in OutputTable : r.pixel_freq = c[1] BY DEF Standard
  <1>2. c[2] \in CaseOf(OutputTable, c[1]) BY CaseOfIn
  <1> QED BY <1>1, <1>2, OuterCases DEF StandardFreqs

LEMMA SetupInvariant == SetupSpec => []SetupInv
  <1>1. SetupInit => SetupInv BY DEF SetupInit, SetupInv
  <1>2. SetupInv /\ [SetupNext]_setupVars => SetupInv'
    <2>1. ASSUME SetupInv, UNCHANGED setupVars PROVE SetupInv'
      BY <2>1 DEF SetupInv, setupVars
    <2>2. ASSUME NEW freq, NEW bpp, NEW from_phy \in BOOLEAN, NEW format, NEW v,
                 phy_cfg_t28hpc(freq, bpp, format, from_phy, Uninitialised(v))
          PROVE  SetupInv'
      <3> DEFINE ratio == ClkRatio(format, bpp)
      <3>1. /\ request' = [pixel_freq |-> freq, ratio |-> ratio, from_phy |-> from_phy]
            /\ computed' = PhyFields(Uninitialised(v), freq, ratio[1], from_phy)
        BY <2>2 DEF phy_cfg_t28hpc
      <3>2. IsRatio(ratio) BY RatioParts
      <3> HIDE DEF ratio
      <3>3. request'.pixel_freq = freq /\ request'.ratio = ratio /\ request'.from_phy = from_phy
        BY <3>1
      <3> QED BY <3>1, <3>2, <3>3 DEF SetupInv
    <2> QED BY <2>1, <2>2 DEF SetupNext
  <1> QED BY <1>1, <1>2, PTL DEF SetupSpec

(* What a standard request left behind.                                     *)
LEMMA RequestSettled ==
  ASSUME SetupInv, Standard(request)
  PROVE  \E r, rows, v :
            /\ IsRatio(request.ratio) /\ request.from_phy \in BOOLEAN
            /\ SettledBy(r, rows, request.pixel_freq, request.ratio, request.from_phy)
            /\ computed = PhyFields(Uninitialised(v), request.pixel_freq, request.ratio[1],
                                    request.from_phy)
  <1>1. request.pixel_freq \in StandardFreqs BY StandardRequest
  <1>2. request # NoRequest
    <2>1. NoRequest.pixel_freq = 0 BY DEF NoRequest
    <2>2. 0 \notin StandardFreqs BY DEF StandardFreqs
    <2> QED BY <1>1, <2>1, <2>2
  <1>3. PICK v : /\ IsRatio(request.ratio) /\ request.from_phy \in BOOLEAN
                 /\ computed = PhyFields(Uninitialised(v), request.pixel_freq,
                                         request.ratio[1], request.from_phy)
    BY <1>2 DEF SetupInv
  <1>4. Supported(request.pixel_freq, request.ratio[1], request.from_phy) BY DEF Standard
  <1>5. \E r, rows : SettledBy(r, rows, request.pixel_freq, request.ratio, request.from_phy)
    <2>1. CASE request.from_phy = TRUE BY <1>3, <1>4, <2>1, OutputSettles
    <2>2. CASE request.from_phy = FALSE BY <1>1, <1>3, <1>4, <2>2, InputSettles
    <2> QED BY <1>3, <2>1, <2>2
  <1> QED BY <1>3, <1>5


(* The rows of a standard request agree with each other, so do the fields.  *)
LEMMA Agree ==
  ASSUME SetupInv PROVE RowsConsistent
  <1>1. SUFFICES ASSUME Standard(request) PROVE RowsConsistent BY DEF RowsConsistent
  <1>2. PICK r, rows, v :
            /\ IsRatio(request.ratio) /\ request.from_phy \in BOOLEAN
            /\ SettledBy(r, rows, request.pixel_freq, request.ratio, request.from_phy)
            /\ computed = PhyFields(Uninitialised(v), request.pixel_freq, request.ratio[1],
                                    request.from_phy)
    BY <1>1, RequestSettled
  <1> DEFINE f == request.pixel_freq
             t == request.ratio
             ip == computed["cmnda_pll0_ip_div"]
             fb == computed["pll_feedback_divider_total"]
             fbl == computed["cmnda_pll0_fb_div_low"]
             fbh == computed["cmnda_pll0_fb_div_high"]
             pxl == computed["cmnda_pll0_pxdiv_low"]
             pxh == computed["cmnda_pll0_pxdiv_high"]
             ring == computed["vco_ring_select"]
             hs == computed["cmnda_hs_clk_0_sel"]
             sub == computed["tx_subrate"]
             sym == computed["cmnda_pll0_hs_sym_div_sel"]
  <1>3. /\ \A x \in DOMAIN r : computed[x] = r[x]
        /\ \A x \in OutputFields \ DOMAIN r : computed[x] = Uninitialised(v)[x]
    BY <1>2 DEF SettledBy, SettlesOn
  <1>4. CASE request.from_phy = TRUE
    <2>1. SoundOutput(r, f, t) BY <1>2, <1>4 DEF SettledBy
    <2>2. /\ ip = r["cmnda_pll0_ip_div"] /\ fb = r["pll_feedback_divider_total"]
          /\ fbl = r["cmnda_pll0_fb_div_low"] /\ fbh = r["cmnda_pll0_fb_div_high"]
          /\ pxl = r["cmnda_pll0_pxdiv_low"] /\ pxh = r["cmnda_pll0_pxdiv_high"]
          /\ ring = r["vco_ring_select"] /\ hs = r["cmnda_hs_clk_0_sel"]
          /\ sub = r["tx_subrate"] /\ sym = r["cmnda_pll0_hs_sym_div_sel"]
      BY <1>3, <2>1, Zenon DEF SoundOutput, OutputFields, InputFields
    <2>3. OutputSound(ip, fb, fbl, fbh, pxl, pxh, ring, hs, sub, sym, f, t)
      BY <2>1, <2>2, Zenon DEF SoundOutput
    <2>4. vco_freq(computed, refclk_freq_khz(f, request.from_phy)) = (27000 * fb) \div ip
      <3>1. ip # 0 BY <2>3, OutputAgrees
      <3>2. refclk_freq_khz(f, request.from_phy) = 27000 BY <1>4 DEF refclk_freq_khz
      <3> QED BY <3>1, <3>2 DEF vco_freq
    <2>5. /\ fbl + fbh + 4 = fb
          /\ ((27000 * fb) \div ip) * t[3] = 10 * 2^sym * f * t[2]
          /\ 2^sym = 2^(hs \div 2) * 2^(sub \div 2)
          /\ t[1] \notin {"5_8", "3_4"} => (27000 * fb) \div ip = (pxl + pxh + 4) * f
      BY <2>3, OutputAgrees
    <2> QED BY <2>4, <2>5 DEF RowsConsistent
  <1>5. CASE request.from_phy = FALSE
    <2>1. SoundInput(r, f, t) BY <1>2, <1>5 DEF SettledBy
    <2>2. /\ ip = r["cmnda_pll0_ip_div"] /\ fb = r["pll_feedback_divider_total"]
          /\ fbl = r["cmnda_pll0_fb_div_low"] /\ hs = r["cmnda_hs_clk_0_sel"]
          /\ sub = r["tx_subrate"] /\ sym = r["cmnda_pll0_hs_sym_div_sel"]
      BY <1>3, <2>1, Zenon DEF SoundInput, InputFields
    <2>3. fbh = 10
      <3>1. "cmnda_pll0_fb_div_high" \in OutputFields \ DOMAIN r
        BY <2>1 DEF SoundInput, OutputFields, InputFields
      <3>2. Uninitialised(v)["cmnda_pll0_fb_div_high"] = 10
        BY <3>1, FieldSets DEF Uninitialised
      <3> QED BY <1>3, <3>1, <3>2
    <2>4. PICK ref, scaler, i :
              InputSound(ip, fb, fbl, ref, scaler, i, hs, sub, sym, f, t)
      BY <2>1, <2>2 DEF SoundInput
    <2>5. vco_freq(computed, refclk_freq_khz(f, request.from_phy)) = (f * fb) \div ip
      <3>1. ip # 0 BY <2>4, InputAgrees
      <3>2. refclk_freq_khz(f, request.from_phy) = f BY <1>5 DEF refclk_freq_khz
      <3> QED BY <3>1, <3>2, Zenon DEF vco_freq
    <2>6. /\ fbl + fbh + 4 = fb
          /\ ((f * fb) \div ip) * t[3] = 10 * 2^sym * f * t[2]
          /\ 2^sym = 2^(hs \div 2) * 2^(sub \div 2)
      BY <2>3, <2>4, InputAgrees
    <2> QED BY <1>5, <2>5, <2>6 DEF RowsConsistent
  <1> QED BY <1>2, <1>4, <1>5

(* Nothing that is programmed depends on the stack: another stack leaves    *)
(* the same rows, and the one field no row sets is initialised.             *)
LEMMA Defined ==
  ASSUME SetupInv PROVE FieldsDefined
  <1>1. SUFFICES ASSUME Standard(request), NEW w \in LocalValues,
                        NEW x \in ProgrammedFields(request.from_phy)
                 PROVE  computed[x] = PhyFields(Uninitialised(w), request.pixel_freq,
                                                request.ratio[1], request.from_phy)[x]
    BY DEF FieldsDefined
  <1>2. PICK r, rows, v :
            /\ IsRatio(request.ratio) /\ request.from_phy \in BOOLEAN
            /\ SettledBy(r, rows, request.pixel_freq, request.ratio, request.from_phy)
            /\ computed = PhyFields(Uninitialised(v), request.pixel_freq, request.ratio[1],
                                    request.from_phy)
    BY <1>1, RequestSettled
  <1> DEFINE F(s) == PhyFields(s, request.pixel_freq, request.ratio[1], request.from_phy)
  <1>3. ASSUME NEW s
        PROVE  /\ x \in DOMAIN r => F(s)[x] = r[x]
               /\ x \in OutputFields \ DOMAIN r => F(s)[x] = s[x]
               /\ x \in VcoFieldsBy(request.from_phy) =>
                      F(s)[x] = (CHOOSE q \in rows : x \in DOMAIN q)[x]
    BY <1>2 DEF SettledBy, SettlesOn
  <1>4. computed = F(Uninitialised(v)) BY <1>2
  <1> HIDE DEF F
  <1>5. \/ x \in DOMAIN r \union VcoFieldsBy(request.from_phy)
        \/ x = "cmnda_pll0_fb_div_high"
    <2>1. CASE request.from_phy = TRUE
      <3>1. DOMAIN r = OutputFields BY <1>2, <2>1 DEF SettledBy, SoundOutput
      <3>2. x \in OutputFields \union VcoFieldsOut BY <2>1, FieldSets
      <3> QED BY <2>1, <3>1, <3>2 DEF VcoFieldsBy
    <2>2. CASE request.from_phy = FALSE
      <3>1. DOMAIN r = InputFields BY <1>2, <2>2 DEF SettledBy, SoundInput
      <3>2. x \in InputFields \union {"cmnda_pll0_fb_div_high"} \union AnalogueFields
        BY <2>2, FieldSets
      <3> QED BY <2>2, <3>1, <3>2 DEF VcoFieldsBy
    <2> QED BY <1>2, <2>1, <2>2
  <1>6. CASE x \in DOMAIN r \union VcoFieldsBy(request.from_phy)
    BY <1>3, <1>4, <1>6 DEF F
  <1>7. CASE x = "cmnda_pll0_fb_div_high" /\ x \notin DOMAIN r
    <2>1. x \in OutputFields /\ x \in Fields BY <1>7, FieldSets
    <2>2. Uninitialised(v)[x] = 10 /\ Uninitialised(w)[x] = 10
      BY <1>7, <2>1 DEF Uninitialised
    <2>3. F(Uninitialised(v))[x] = Uninitialised(v)[x]
          /\ F(Uninitialised(w))[x] = Uninitialised(w)[x]
      BY <1>3, <1>7, <2>1
    <2> QED BY <1>4, <2>2, <2>3 DEF F
  <1> QED BY <1>5, <1>6, <1>7

(* For a clock and a ratio with a case, whatever the depth and the source,  *)
(* every field phy_cfg_t28hpc() programs has the same value whatever its    *)
(* locals held on entry (API_AFE_t28hpc_hdmitx.c 149-199, 312-830,         *)
(* 939-1674): each is set by one row, to a value its width holds.           *)
THEOREM FieldsFromTables == SetupSpec => []FieldsDefined
  BY SetupInvariant, Defined, PTL

(* And the fields agree with each other: the feedback divider is the sum    *)
(* its halves stand for, the VCO runs at the bit rate of the character      *)
(* clock, the serialisers divide as the PLL does, and the PHY as the source *)
(* gives the pixel clock asked for (API_AFE_t28hpc_hdmitx.c 312-830).      *)
THEOREM RowsAgree == SetupSpec => []RowsConsistent
  BY SetupInvariant, Agree, PTL


=============================================================================
