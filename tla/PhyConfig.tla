------------------------------- MODULE PhyConfig -------------------------------
(***************************************************************************)
(* How phy_cfg_t28hpc() gets from a request to the values it will program:  *)
(* the clock ratio of the encoding and depth, the fields of the PLL row,    *)
(* the VCO frequency those give, and the analogue fields of that VCO.       *)
(*                                                                         *)
(* The fields are locals of the C function and start uninitialised, all but *)
(* fb_div_high; set_field_value() leaves a field alone when the value does  *)
(* not fit.  So "was this field ever set?" is a real question, and the      *)
(* operators take the uninitialised fields as a parameter.                  *)
(***************************************************************************)
EXTENDS PhyTables

VIC_PXL_ENCODING_FORMAT ==
    {"PXL_RGB", "YCBCR_4_4_4", "YCBCR_4_2_2", "YCBCR_4_2_0", "Y_ONLY"}

(* The position of each field in its register: <<msb, lsb>>.               *)
FieldPosition ==
    [cmnda_pll0_hs_sym_div_sel |-> <<9, 8>>, cmnda_pll0_ip_div |-> <<7, 0>>,
     cmnda_pll0_fb_div_low |-> <<9, 0>>, cmnda_pll0_fb_div_high |-> <<9, 0>>,
     cmn_ref_clk_dig_div |-> <<13, 12>>, divider_scaler |-> <<14, 12>>,
     cmnda_hs_clk_0_sel |-> <<1, 0>>, cmnda_hs_clk_1_sel |-> <<1, 0>>,
     tx_subrate |-> <<2, 0>>, voltage_to_current_coarse |-> <<2, 0>>,
     voltage_to_current |-> <<5, 4>>, ndac_ctrl |-> <<11, 8>>,
     pmos_ctrl |-> <<7, 0>>, ptat_ndac_ctrl |-> <<5, 0>>,
     charge_pump_gain |-> <<8, 0>>, vco_ring_select |-> <<12, 12>>,
     pll_feedback_divider_total |-> <<9, 0>>,
     cmnda_pll0_pxdiv_high |-> <<9, 0>>, cmnda_pll0_pxdiv_low |-> <<9, 0>>,
     coarse_code |-> <<7, 0>>, v2i_code |-> <<3, 0>>, vco_cal_code |-> <<8, 0>>]

Fields == DOMAIN FieldPosition

(* The locals on entry: whatever the stack holds (abstracted to one value v *)
(* in every field), but for the one that is initialised.                    *)
Uninitialised(v) ==
    [f \in Fields |-> IF f = "cmnda_pll0_fb_div_high" THEN 10 ELSE v]

(* A value too big for its field leaves the field as it was.               *)
set_field_value(f, old, value) ==
    LET length == FieldPosition[f][1] - FieldPosition[f][2] + 1
    IN IF value > 2^length - 1 THEN old ELSE value

set_reg_value(f, fields) == fields[f] * 2^FieldPosition[f][2]

(* The calls of the rows, which have no field in common.                   *)
SetFields(fields, rows) ==
    [f \in Fields |->
        IF \E r \in rows : f \in DOMAIN r
        THEN set_field_value(f, fields[f], (CHOOSE r \in rows : f \in DOMAIN r)[f])
        ELSE fields[f]]

(* clk_ratio, and the character clock as a fraction of the pixel clock.    *)
ClkRatio(format, bpp) ==
    CASE format = "YCBCR_4_2_2" -> <<"1_1", 1, 1>>
      [] format = "YCBCR_4_2_0" /\ bpp = 8 -> <<"1_2", 1, 2>>
      [] format = "YCBCR_4_2_0" /\ bpp = 10 -> <<"5_8", 5, 8>>
      [] format = "YCBCR_4_2_0" /\ bpp = 12 -> <<"3_4", 3, 4>>
      [] format \notin {"YCBCR_4_2_2", "YCBCR_4_2_0"} /\ bpp = 10 -> <<"5_4", 5, 4>>
      [] format \notin {"YCBCR_4_2_2", "YCBCR_4_2_0"} /\ bpp = 12 -> <<"3_2", 3, 2>>
      [] format \notin {"YCBCR_4_2_2", "YCBCR_4_2_0"} /\ bpp = 16 -> <<"2_1", 2, 1>>
      [] OTHER -> <<"1_1", 1, 1>>

character_freq_khz(pixel_freq_khz, ratio) ==
    (pixel_freq_khz * ratio[2]) \div ratio[3]

refclk_freq_khz(pixel_freq_khz, pixel_clk_from_phy) ==
    IF pixel_clk_from_phy THEN 27000 ELSE pixel_freq_khz

(* The case the two nested switches reach, as a set of at most one row, and *)
(* the rows of the VCO.                                                    *)
PllRows(pixel_freq_khz, clk_ratio, pixel_clk_from_phy) ==
    IF pixel_clk_from_phy
    THEN UNION {CaseOf(ratios, clk_ratio) : ratios \in CaseOf(OutputTable, pixel_freq_khz)}
    ELSE {r[3] : r \in UNION {FirstRange(ranges, pixel_freq_khz) :
                                ranges \in CaseOf(InputTable, clk_ratio)}}

(* An unsigned division by an uninitialised zero gives zero on AArch64.    *)
vco_freq(fields, refclk) ==
    IF fields.cmnda_pll0_ip_div = 0 THEN 0
    ELSE (refclk * fields.pll_feedback_divider_total) \div fields.cmnda_pll0_ip_div

VcoRows(vco, fb, pixel_clk_from_phy) ==
    IF pixel_clk_from_phy
    THEN UNION CaseOf(OutputVcoTable(fb), vco)
    ELSE UNION {{r[3]} \union GainOf(r[4], fb) : r \in FirstRange(InputVcoTable, vco)}

PllFields(locals, pixel_freq_khz, clk_ratio, pixel_clk_from_phy) ==
    SetFields(locals, PllRows(pixel_freq_khz, clk_ratio, pixel_clk_from_phy))

VcoFields(pll, pixel_freq_khz, pixel_clk_from_phy) ==
    SetFields(pll, VcoRows(vco_freq(pll, refclk_freq_khz(pixel_freq_khz, pixel_clk_from_phy)),
                           pll.pll_feedback_divider_total, pixel_clk_from_phy))

PhyFields(locals, pixel_freq_khz, clk_ratio, pixel_clk_from_phy) ==
    VcoFields(PllFields(locals, pixel_freq_khz, clk_ratio, pixel_clk_from_phy),
              pixel_freq_khz, pixel_clk_from_phy)

(* The fields that reach a register in each branch: the clock-input branch  *)
(* programs neither the pixel divider nor the calibration start.            *)
ProgrammedFields(pixel_clk_from_phy) ==
    Fields \ ({"pll_feedback_divider_total", "coarse_code", "v2i_code"}
              \union IF pixel_clk_from_phy THEN {} ELSE
                {"cmnda_pll0_pxdiv_low", "cmnda_pll0_pxdiv_high", "vco_cal_code"})

Supported(pixel_freq_khz, clk_ratio, pixel_clk_from_phy) ==
    PllRows(pixel_freq_khz, clk_ratio, pixel_clk_from_phy) # {}

=============================================================================
