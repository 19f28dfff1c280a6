-------------------------------- MODULE PhySetup --------------------------------
(***************************************************************************)
(* The computation of PhyConfig over its inputs: one call at a time, each   *)
(* with the locals it finds on the stack.  The driver itself always asks    *)
(* for 8-bit RGB with the PHY as the clock's source; the function offers    *)
(* more, and the tables are checked for all it offers.                      *)
(***************************************************************************)
EXTENDS PhyConfig

CONSTANTS
    AskedFreqs,     \* pixel clocks asked for, in kHz
    Depths,         \* bits per component
    LocalValues     \* what uninitialised locals may hold

VARIABLES
    request,        \* the arguments of the last call
    computed        \* the fields as it left them

setupVars == <<request, computed>>

NoRequest == [pixel_freq |-> 0, ratio |-> <<"1_1", 1, 1>>, from_phy |-> TRUE]

SetupInit ==
    /\ request = NoRequest
    /\ computed \in {Uninitialised(v) : v \in LocalValues}

phy_cfg_t28hpc(freq, bpp, format, from_phy, locals) ==
    LET ratio == ClkRatio(format, bpp)
    IN /\ request' = [pixel_freq |-> freq, ratio |-> ratio, from_phy |-> from_phy]
       /\ computed' = PhyFields(locals, freq, ratio[1], from_phy)

SetupNext ==
    \E freq \in AskedFreqs, bpp \in Depths, from_phy \in BOOLEAN,
       format \in VIC_PXL_ENCODING_FORMAT, v \in LocalValues :
        phy_cfg_t28hpc(freq, bpp, format, from_phy, Uninitialised(v))

SetupSpec == SetupInit /\ [][SetupNext]_setupVars

-----------------------------------------------------------------------------
(* A request the function is meant for: one of the standard clocks with a   *)
(* case for its ratio.                                                      *)
Standard(r) ==
    /\ r.pixel_freq \in {c[1] : c \in OutputTable}
    /\ Supported(r.pixel_freq, r.ratio[1], r.from_phy)

(* Every value programmed comes from a table and never from the stack: for  *)
(* a standard clock, no field that reaches a register depends on what the   *)
(* locals held on entry (API_AFE_t28hpc_hdmitx.c 149-199, 312-830,         *)
(* 939-1674).  A value too wide for its field, a VCO frequency the second   *)
(* table lacks or a divider its gain switch lacks would all break it.       *)
FieldsDefined ==
    Standard(request) =>
        \A v \in LocalValues, f \in ProgrammedFields(request.from_phy) :
            computed[f] = PhyFields(Uninitialised(v), request.pixel_freq,
                                  request.ratio[1], request.from_phy)[f]

(* The rows are consistent: the two feedback divider halves make the total  *)
(* the VCO row was chosen by; the VCO runs at ten bit times of the character *)
(* clock, times the symbol divider; the lanes' serialiser divides by as     *)
(* much as the symbol divider; and, as the clock's source, the PHY divides  *)
(* the VCO to exactly the pixel clock asked for, save in the two cases      *)
(* whose comment says the pixel clock does not matter.                      *)
RowsConsistent ==
    Standard(request) =>
        LET fb == computed.cmnda_pll0_fb_div_low + computed.cmnda_pll0_fb_div_high + 4
            vco == vco_freq(computed, refclk_freq_khz(request.pixel_freq, request.from_phy))
            symbol == 2^computed.cmnda_pll0_hs_sym_div_sel
            px == computed.cmnda_pll0_pxdiv_low + computed.cmnda_pll0_pxdiv_high + 4
        IN /\ fb = computed.pll_feedback_divider_total
           /\ vco * request.ratio[3] = 10 * symbol * request.pixel_freq * request.ratio[2]
           /\ symbol = 2^(computed.cmnda_hs_clk_0_sel \div 2) * 2^(computed.tx_subrate \div 2)
           /\ request.from_phy /\ request.ratio[1] \notin {"5_8", "3_4"} =>
                vco = px * request.pixel_freq

=============================================================================
