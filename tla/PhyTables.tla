------------------------------- MODULE PhyTables -------------------------------
(***************************************************************************)
(* The numbers of phy_cfg_t28hpc() (API_AFE_t28hpc_hdmitx.c): the divider   *)
(* settings of the PLL for each supported clock, and the analogue settings  *)
(* for each frequency of its oscillator (VCO).  A row is the list of the    *)
(* set_field_value() calls of one case, as a function from field to value;  *)
(* a field a case does not set is not in its domain.  A switch, or a chain  *)
(* of inside() tests for a single value, is the set of its cases, each a    *)
(* pair of the value and what the case does.                               *)
(*                                                                         *)
(* Frequencies are in kHz, as in the code; a ratio "n_d" is CLK_RATIO_n_d,  *)
(* the character clock over the pixel clock.                                *)
(***************************************************************************)
EXTENDS Integers

(* inside()                                                                *)
inside(value, left, right) == left <= value /\ value <= right

(* What the case of the value does, as a set: empty if there is no case.    *)
CaseOf(cases, value) == {c[2] : c \in {c \in cases : c[1] = value}}

-----------------------------------------------------------------------------
(* "Clock is OUTPUT": the PHY makes the pixel clock from its 27 MHz         *)
(* reference (pixel_clk_from_phy = 1, what the driver asks for).            *)
(* ip_div, feedback total, low, high, pixel divider low, high, VCO ring,    *)
(* high-speed clock selection, sub-rate, symbol divider selection.          *)
OutputRow(ip, fb, fbl, fbh, pxl, pxh, ring, hs, subrate, sym) ==
    [cmnda_pll0_ip_div |-> ip, cmn_ref_clk_dig_div |-> 1, divider_scaler |-> 1,
     pll_feedback_divider_total |-> fb, cmnda_pll0_fb_div_low |-> fbl,
     cmnda_pll0_fb_div_high |-> fbh, cmnda_pll0_pxdiv_low |-> pxl,
     cmnda_pll0_pxdiv_high |-> pxh, vco_ring_select |-> ring,
     cmnda_hs_clk_0_sel |-> hs, cmnda_hs_clk_1_sel |-> hs,
     tx_subrate |-> subrate, cmnda_pll0_hs_sym_div_sel |-> sym]

Output27000 ==
    {<<"1_1", OutputRow(3, 240, 188, 48, 38, 38, 0, 2, 4, 3)>>,
     <<"5_4", OutputRow(3, 300, 236, 60, 48, 48, 0, 2, 4, 3)>>,
     <<"3_2", OutputRow(3, 360, 284, 72, 58, 58, 0, 2, 4, 3)>>,
     <<"2_1", OutputRow(3, 240, 188, 48, 38, 38, 0, 2, 2, 2)>>}

Output54000 ==
    {<<"1_1", OutputRow(3, 480, 380, 96, 38, 38, 1, 2, 4, 3)>>,
     <<"5_4", OutputRow(4, 400, 316, 80, 23, 23, 0, 1, 4, 2)>>,
     <<"3_2", OutputRow(4, 480, 380, 96, 28, 28, 0, 2, 2, 2)>>,
     <<"2_1", OutputRow(3, 240, 188, 48, 18, 18, 0, 2, 1, 1)>>}

Output74250 ==
    {<<"1_1", OutputRow(3, 660, 524, 132, 38, 38, 1, 2, 4, 3)>>,
     <<"5_4", OutputRow(4, 550, 436, 110, 23, 23, 1, 1, 4, 2)>>,
     <<"3_2", OutputRow(4, 660, 524, 132, 28, 28, 1, 2, 2, 2)>>,
     <<"2_1", OutputRow(3, 330, 260, 66, 18, 18, 0, 2, 1, 1)>>}

(* A pixel divider half entered as its neighbour.                          *)
Output99000_EvenDivider ==
    {<<"1_1", OutputRow(3, 440, 348, 88, 18, 18, 1, 2, 2, 2)>>,
     <<"5_4", OutputRow(3, 275, 216, 55, 11, 11, 0, 1, 2, 1)>>,
     <<"3_2", OutputRow(3, 330, 260, 66, 13, 13, 0, 2, 1, 1)>>,
     <<"2_1", OutputRow(3, 440, 348, 88, 18, 18, 1, 2, 1, 1)>>}

Output99000 ==
    {<<"1_1", OutputRow(3, 440, 348, 88, 18, 18, 1, 2, 2, 2)>>,
     <<"5_4", OutputRow(3, 275, 216, 55, 11, 10, 0, 1, 2, 1)>>,
     <<"3_2", OutputRow(3, 330, 260, 66, 13, 13, 0, 2, 1, 1)>>,
     <<"2_1", OutputRow(3, 440, 348, 88, 18, 18, 1, 2, 1, 1)>>}

Output148500 ==
    {<<"1_1", OutputRow(3, 660, 524, 132, 18, 18, 1, 2, 2, 2)>>,
     <<"5_4", OutputRow(4, 550, 436, 110, 11, 10, 1, 1, 2, 1)>>,
     <<"3_2", OutputRow(3, 495, 392, 99, 13, 13, 1, 1, 2, 1)>>,
     <<"2_1", OutputRow(3, 660, 524, 132, 18, 18, 1, 2, 1, 1)>>}

Output198000 ==
    {<<"1_1", OutputRow(3, 220, 172, 44, 3, 3, 0, 1, 1, 0)>>,
     <<"5_4", OutputRow(3, 550, 436, 110, 11, 10, 1, 1, 2, 1)>>,
     <<"3_2", OutputRow(3, 330, 260, 66, 6, 5, 0, 1, 1, 0)>>,
     <<"2_1", OutputRow(3, 440, 348, 88, 8, 8, 1, 1, 1, 0)>>}

Output297000 ==
    {<<"1_1", OutputRow(3, 330, 260, 66, 3, 3, 0, 1, 1, 0)>>,
     <<"3_2", OutputRow(3, 495, 392, 99, 6, 5, 1, 1, 1, 0)>>,
     <<"2_1", OutputRow(3, 660, 524, 132, 8, 8, 1, 1, 1, 0)>>}

Output594000 ==
    {<<"1_1", OutputRow(3, 660, 524, 132, 3, 3, 1, 1, 1, 0)>>,
     <<"1_2", OutputRow(3, 660, 524, 132, 3, 3, 1, 1, 2, 1)>>,
     <<"5_8", OutputRow(4, 550, 436, 110, 3, 3, 1, 1, 1, 0)>>,
     <<"3_4", OutputRow(3, 495, 392, 99, 3, 3, 1, 1, 1, 0)>>}

OutputTable ==
    {<<27000, Output27000>>, <<54000, Output54000>>, <<74250, Output74250>>,
     <<99000, Output99000>>, <<148500, Output148500>>, <<198000, Output198000>>,
     <<297000, Output297000>>, <<594000, Output594000>>}

(* voltage_to_current_coarse and _to_current, ndac, pmos, ptat, gain, and   *)
(* the calibration code the VCO starts its search from; the gain is a set   *)
(* of pairs where the code switches on the feedback divider.                *)
Analogue(v2ic, ndac, pmos, ptat) ==
    [voltage_to_current_coarse |-> v2ic, voltage_to_current |-> 3,
     ndac_ctrl |-> ndac, pmos_ctrl |-> pmos, ptat_ndac_ctrl |-> ptat]

Gain(g) == {[charge_pump_gain |-> g]}
(* A gain switch without the case for a feedback divider of 480.           *)
GainOf_No480(gains, fb) == UNION {Gain(g) : g \in CaseOf({c \in gains : c[1] # 480}, fb)}
GainOf(gains, fb) == UNION {Gain(g) : g \in CaseOf(gains, fb)}

OutputVco(v2ic, ndac, pmos, ptat, coarse, v2i, cal) ==
    {Analogue(v2ic, ndac, pmos, ptat),
     [coarse_code |-> coarse, v2i_code |-> v2i, vco_cal_code |-> cal]}

OutputVcoTable(fb) ==
    {<<1980000, OutputVco(4, 0, 9, 9, 160, 5, 183) \union Gain(66)>>,
     <<2160000, OutputVco(4, 0, 9, 9, 166, 6, 208) \union Gain(66)>>,
     <<2475000, OutputVco(5, 1, 0, 7, 167, 6, 209) \union Gain(66)>>,
     <<2700000, OutputVco(5, 1, 0, 7, 188, 6, 225)
                \union GainOf({<<300, 66>>, <<400, 76>>}, fb)>>,
     <<2970000, OutputVco(6, 1, 0, 7, 183, 6, 225) \union Gain(66)>>,
     <<3240000, OutputVco(5, 1, 0, 7, 203, 7, 256)
                \union GainOf({<<360, 66>>, <<480, 76>>}, fb)>>,
     <<3712500, OutputVco(4, 0, 7, 15, 212, 7, 257) \union Gain(76)>>,
     <<3960000, OutputVco(5, 0, 7, 15, 184, 6, 226) \union Gain(66)>>,
     <<4320000, OutputVco(5, 1, 7, 15, 205, 7, 258) \union Gain(66)>>,
     <<4455000, OutputVco(5, 0, 7, 15, 219, 7, 272)
                \union GainOf({<<495, 66>>, <<660, 76>>}, fb)>>,
     <<4950000, OutputVco(6, 1, 0, 7, 213, 7, 258) \union Gain(66)>>,
     <<5940000, OutputVco(7, 1, 0, 7, 244, 8, 292) \union Gain(66)>>}

-----------------------------------------------------------------------------
(* "Clock is input": the PHY is given the pixel clock (pixel_clk_from_phy = *)
(* 0).  Each ratio has ranges of the pixel clock, tried in the order given. *)
(* ip_div, feedback total, low, reference divider, scaler, VCO ring, high-  *)
(* speed clock selection, sub-rate, symbol divider selection.               *)
InputRow(ip, fb, fbl, ref, scaler, ring, hs, subrate, sym) ==
    [cmnda_pll0_ip_div |-> ip, cmn_ref_clk_dig_div |-> ref,
     divider_scaler |-> scaler, pll_feedback_divider_total |-> fb,
     cmnda_pll0_fb_div_low |-> fbl, vco_ring_select |-> ring,
     cmnda_hs_clk_0_sel |-> hs, cmnda_hs_clk_1_sel |-> hs,
     tx_subrate |-> subrate, cmnda_pll0_hs_sym_div_sel |-> sym]

Input_1_1 ==
    << <<340000, 600000, InputRow(60, 600, 586, 3, 6, 1, 1, 1, 0)>>,
       <<170000, 340000, InputRow(34, 340, 326, 1, 7, 0, 1, 1, 0)>>,
       <<85000, 170000, InputRow(17, 340, 326, 0, 7, 0, 1, 2, 1)>>,
       <<42500, 85000, InputRow(8, 320, 306, 3, 1, 0, 1, 4, 2)>>,
       <<25000, 42500, InputRow(5, 400, 386, 1, 1, 0, 2, 4, 3)>> >>

Input_5_4 ==
    << <<272000, 480000, InputRow(48, 600, 586, 3, 5, 1, 1, 1, 0)>>,
       <<136000, 272000, InputRow(26, 325, 311, 2, 4, 0, 1, 1, 0)>>,
       <<68000, 136000, InputRow(13, 325, 311, 2, 2, 0, 1, 2, 1)>>,
       <<34000, 68000, InputRow(6, 300, 286, 2, 1, 0, 1, 4, 2)>>,
       <<25000, 34000, InputRow(4, 400, 386, 1, 1, 0, 2, 4, 3)>> >>

Input_3_2 ==
    << <<226000, 400000, InputRow(40, 600, 586, 3, 4, 1, 1, 1, 0)>>,
       <<113000, 226000, InputRow(22, 330, 316, 1, 5, 0, 1, 1, 0)>>,
       <<56000, 113000, InputRow(11, 330, 316, 0, 5, 0, 1, 2, 1)>>,
       <<28000, 56000, InputRow(6, 360, 346, 2, 1, 0, 1, 4, 2)>>,
       <<25000, 28000, InputRow(3, 360, 346, 1, 1, 0, 2, 4, 3)>> >>

Input_2_1 ==
    << <<170000, 300000, InputRow(34, 680, 666, 1, 6, 1, 1, 1, 0)>>,
       <<85000, 170000, InputRow(17, 340, 326, 0, 7, 0, 1, 1, 0)>>,
       <<42500, 85000, InputRow(8, 320, 306, 3, 1, 0, 1, 2, 1)>>,
       <<25000, 42500, InputRow(5, 400, 386, 1, 1, 0, 1, 4, 2)>> >>

Input594000(fb, fbl, subrate, sym) ==
    << <<594000, 594000, InputRow(60, fb, fbl, 3, 6, 1, 1, subrate, sym)>> >>

InputTable ==
    {<<"1_1", Input_1_1>>, <<"5_4", Input_5_4>>, <<"3_2", Input_3_2>>,
     <<"2_1", Input_2_1>>, <<"1_2", Input594000(600, 586, 2, 1)>>,
     <<"5_8", Input594000(375, 361, 1, 0)>>, <<"3_4", Input594000(450, 436, 1, 0)>>}

(* The charge-pump gain of each VCO range, by feedback divider.            *)
LowGains(g300, g320, g325, g330, g340, g360, g400) ==
    {<<300, g300>>, <<320, g320>>, <<325, g325>>, <<330, g330>>, <<340, g340>>,
     <<360, g360>>, <<400, g400>>}
HighGains(fb, g, g600, g680) == {<<fb, g>>, <<600, g600>>, <<680, g680>>}

InputVcoTable ==
    << <<1700000, 2000000, Analogue(4, 0, 9, 9),
         LowGains(130, 131, 131, 132, 132, 134, 162)>>,
       <<2000000, 2400000, Analogue(4, 0, 9, 9),
         LowGains(71, 75, 76, 128, 129, 130, 132)>>,
       <<2400000, 2800000, Analogue(5, 1, 0, 7),
         LowGains(67, 69, 69, 69, 134, 74, 129)>>,
       <<2800000, 3400000, Analogue(6, 1, 0, 7),
         LowGains(61, 65, 65, 65, 66, 67, 70)>>,
       <<3400000, 3900000, Analogue(4, 0, 7, 15), HighGains(375, 65, 130, 133)>>,
       <<3900000, 4500000, Analogue(5, 0, 7, 15), HighGains(450, 65, 75, 130)>>,
       <<4500000, 5200000, Analogue(6, 1, 0, 7), {<<600, 69>>, <<680, 74>>}>>,
       <<5200000, 6000000, Analogue(7, 1, 0, 7), {<<600, 66>>, <<680, 69>>}>> >>

(* The rows an if-else chain of inside() tests reaches: the first range     *)
(* that holds the value, or none.                                          *)
FirstRange(table, value) ==
    LET hits == {i \in DOMAIN table : inside(value, table[i][1], table[i][2])}
    IN {table[i] : i \in {i \in hits : \A j \in hits : i <= j}}

=============================================================================
