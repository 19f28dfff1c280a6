------------------------------ MODULE DcssRegisters ------------------------------
(***************************************************************************)
(* The display controller: reset_dcss() and write_dcss_memory_registers()   *)
(* (dcss.c), which programs the prefetcher (dpr.c), the scaler, the         *)
(* sub-sampler and the timing generator (dtg.c), in that order.  Each file  *)
(* writes its geometry first and its run bit last; the timing generator's   *)
(* TC_GO starts the raster and with it everything else.                     *)
(*                                                                         *)
(* Nothing is assumed of the geometry registers across reset_dcss(): they   *)
(* keep the last image's values, the worst the code has to live with.       *)
(* Coefficients, formats, clip values and the frame buffer's address are    *)
(* constants or the subject of DcssPD, and left out.                        *)
(***************************************************************************)
EXTENDS VicTable

VARIABLES
    dc_pc,      \* where write_dcss_memory_registers() is
    dpr,        \* PIX_X, PIX_Y, pitch in bytes, RUN_EN
    scaler,     \* the four resolutions <<v - 1, h - 1>>, RUN_EN
    subsam,     \* display, hsync, vsync, display-enable corners, enable
    dtg         \* lower right corner, display and channel windows, control bits

dcssRegs == <<dpr, scaler, subsam, dtg>>

Zero == <<0, 0>>

DcssRegsInit ==
    /\ dc_pc = "idle"
    /\ dpr = [pix_x |-> 0, pix_y |-> 0, pitch |-> 0, run |-> FALSE]
    /\ scaler = [src_luma |-> Zero, src_chroma |-> Zero, dst_luma |-> Zero,
                 dst_chroma |-> Zero, run |-> FALSE]
    /\ subsam = [display |-> Zero, hsync |-> Zero, vsync |-> Zero,
                 de_ulc |-> Zero, de_lrc |-> Zero, enable |-> FALSE]
    /\ dtg = [lrc |-> Zero, display_ulc |-> Zero, display_lrc |-> Zero,
              ch1_ulc |-> Zero, ch1_lrc |-> Zero, control |-> {}]

DcGoto(from, to) == dc_pc = from /\ dc_pc' = to

(* reset_dcss() without the write that stops the timing generator.          *)
reset_dcss_RasterLeft ==
    /\ dpr' = [dpr EXCEPT !.run = FALSE]
    /\ scaler' = [scaler EXCEPT !.run = FALSE]
    /\ subsam' = [subsam EXCEPT !.enable = FALSE]
    /\ UNCHANGED dtg

reset_dcss ==
    /\ dtg' = [dtg EXCEPT !.control = {}]
    /\ scaler' = [scaler EXCEPT !.run = FALSE]
    /\ dpr' = [dpr EXCEPT !.run = FALSE]
    /\ subsam' = [subsam EXCEPT !.enable = FALSE]

(* The pitch of a whole scan line, blanking included.                       *)
DprGeometry_TotalPitch(hd) ==
    /\ DcGoto("dpr", "dpr_run")
    /\ dpr' = [pix_x |-> hd.h_active, pix_y |-> hd.v_active,
               pitch |-> hd.h_total * 4, run |-> dpr.run]
    /\ UNCHANGED <<scaler, subsam, dtg>>

DprGeometry(hd) ==
    /\ DcGoto("dpr", "dpr_run")
    /\ dpr' = [pix_x |-> hd.h_active, pix_y |-> hd.v_active,
               pitch |-> hd.h_active * 4, run |-> dpr.run]
    /\ UNCHANGED <<scaler, subsam, dtg>>

DprRun ==
    /\ DcGoto("dpr_run", "scaler")
    /\ dpr' = [dpr EXCEPT !.run = TRUE]
    /\ UNCHANGED <<scaler, subsam, dtg>>

ScalerGeometry(hd) ==
    /\ DcGoto("scaler", "scaler_run")
    /\ LET res == <<hd.v_active - 1, hd.h_active - 1>>
       IN scaler' = [src_luma |-> res, src_chroma |-> res, dst_luma |-> res,
                     dst_chroma |-> res, run |-> scaler.run]
    /\ UNCHANGED <<dpr, subsam, dtg>>

ScalerRun ==
    /\ DcGoto("scaler_run", "subsam")
    /\ scaler' = [scaler EXCEPT !.run = TRUE]
    /\ UNCHANGED <<dpr, subsam, dtg>>

SubSamGeometry(hd) ==
    /\ DcGoto("subsam", "subsam_run")
    /\ subsam' =
        [display |-> <<hd.v_total - 1, hd.h_total - 1>>,
         hsync |-> <<hd.hsync - 1, hd.h_total - 1>>,
         vsync |-> <<hd.v_front_porch + hd.vsync - 1, hd.v_front_porch - 1>>,
         de_ulc |-> <<hd.v_back_porch + hd.v_front_porch + hd.vsync,
                      hd.hsync + hd.h_back_porch - 1>>,
         de_lrc |-> <<hd.v_total - 1, hd.hsync + hd.h_back_porch + hd.h_active - 1>>,
         enable |-> subsam.enable]
    /\ UNCHANGED <<dpr, scaler, dtg>>

SubSamRun ==
    /\ DcGoto("subsam_run", "dtg")
    /\ subsam' = [subsam EXCEPT !.enable = TRUE]
    /\ UNCHANGED <<dpr, scaler, dtg>>

(* The front porch taken for the back porch.                               *)
DtgGeometry_FrontPorch(hd) ==
    LET top == hd.vsync + hd.v_front_porch + hd.v_back_porch - 1
        left == hd.hsync + hd.h_front_porch - 1
        right == hd.hsync + hd.h_back_porch + hd.h_active - 1
    IN /\ DcGoto("dtg", "dtg_alpha")
       /\ dtg' = [lrc |-> <<hd.v_total - 1, hd.h_total - 1>>,
                  display_ulc |-> <<top, left>>, ch1_ulc |-> <<top, left>>,
                  display_lrc |-> <<hd.v_total - 1, right>>,
                  ch1_lrc |-> <<hd.v_total - 1, right>>, control |-> dtg.control]
       /\ UNCHANGED <<dpr, scaler, subsam>>

DtgGeometry(hd) ==
    LET top == hd.vsync + hd.v_front_porch + hd.v_back_porch - 1
        left == hd.hsync + hd.h_back_porch - 1
        right == hd.hsync + hd.h_back_porch + hd.h_active - 1
    IN /\ DcGoto("dtg", "dtg_alpha")
       /\ dtg' = [lrc |-> <<hd.v_total - 1, hd.h_total - 1>>,
                  display_ulc |-> <<top, left>>, ch1_ulc |-> <<top, left>>,
                  display_lrc |-> <<hd.v_total - 1, right>>,
                  ch1_lrc |-> <<hd.v_total - 1, right>>, control |-> dtg.control]
       /\ UNCHANGED <<dpr, scaler, subsam>>

DtgSet(bits) == dtg' = [dtg EXCEPT !.control = @ \union bits]

DtgAlpha ==
    /\ DcGoto("dtg_alpha", "dtg_go")
    /\ DtgSet({"DEFAULT_OVERLAY_ALPHA", "CSS_PIX_COMP_SWAP"})
    /\ UNCHANGED <<dpr, scaler, subsam>>

DtgGo ==
    /\ DcGoto("dtg_go", "dtg_blend")
    /\ DtgSet({"GO"})
    /\ UNCHANGED <<dpr, scaler, subsam>>

(* The last bits written over the control register instead of into it.      *)
DtgBlend_Overwrite(alpha_on) ==
    /\ DcGoto("dtg_blend", "done")
    /\ dtg' = [dtg EXCEPT !.control = {"OVERLAY_PATH_ENABLE", "BLENDER_VIDEO_ALPHA_SELECT"}]
    /\ UNCHANGED <<dpr, scaler, subsam>>

(* alpha_on: hdmi_config->alpha_enable == ALPHA_ON                         *)
DtgBlend(alpha_on) ==
    /\ DcGoto("dtg_blend", "done")
    /\ DtgSet({"OVERLAY_PATH_ENABLE", "BLENDER_VIDEO_ALPHA_SELECT"}
              \union IF alpha_on THEN {"CH1_PER_PEL_ALPHA_SEL"} ELSE {})
    /\ UNCHANGED <<dpr, scaler, subsam>>

write_dcss_memory_registers(hd, alpha_on) ==
    \/ DprGeometry(hd) \/ DprRun \/ ScalerGeometry(hd) \/ ScalerRun
    \/ SubSamGeometry(hd) \/ SubSamRun
    \/ DtgGeometry(hd) \/ DtgAlpha \/ DtgGo \/ DtgBlend(alpha_on)

Raster == "GO" \in dtg.control

=============================================================================
