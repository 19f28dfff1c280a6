------------------------------ MODULE VideoPathInv ------------------------------
(***************************************************************************)
(* The inductive invariant of VideoPath: what each unit is known to hold    *)
(* at each step of init_dcss().  A unit that has been programmed stays so   *)
(* until the raster is stopped, so each part holds from its step on and     *)
(* whenever the raster runs.                                               *)
(***************************************************************************)
EXTENDS VideoPath

(* The transmitter is touched in its phase only, the register files in      *)
(* theirs.                                                                 *)
OnePhase ==
    /\ (tx_pc # "idle") <=> (pc = "tx")
    /\ (dc_pc # "idle") <=> (pc = "dcss")

(* The raster is off from reset_dcss() to TC_GO, and on from there.         *)
DarkUntilGo ==
    /\ Raster => pc = "recv" \/ dc_pc \in {"dtg_blend", "done"}
    /\ dc_pc \in {"dtg_blend", "done"} => Raster

ClockTuned ==
    /\ pc = "phy_wait" => wanted = hdmi_config.pixel_frequency_khz
    /\ pc \in {"tx", "dcss"} \/ Raster => clock = hdmi_config.pixel_frequency_khz

Past(at, steps) == Raster \/ at \in steps

vblank(hd) == hd.vsync + hd.v_front_porch + hd.v_back_porch

TxHolds ==
    LET hd == hdmi_config
        Late == pc = "dcss" \/ Raster
    IN /\ Late \/ tx_pc \in {"mode_off", "mode_set", "mode_on", "vic_sizes", "vic_off",
                             "vic_format", "vic_on", "done"}
            => tx.cars
       /\ Late \/ tx_pc \in {"mode_on", "vic_sizes", "vic_off", "vic_format", "vic_on", "done"}
            => tx.controller.HDMI_MODE = HDMI_TX_MODE_HDMI_1_4
       /\ Late \/ tx_pc \in {"vic_off", "vic_format", "vic_on", "done"}
            => /\ tx.h_size = <<hd.h_total - hd.h_blank, hd.h_blank>>
               /\ tx.v_size = <<hd.v_total - vblank(hd), vblank(hd)>>
               /\ tx.front = <<hd.v_front_porch, hd.h_front_porch>>
               /\ tx.sync = <<hd.vsync, hd.h_blank - hd.h_front_porch - hd.h_back_porch>>
               /\ tx.back = <<hd.v_back_porch, hd.h_back_porch>>
       /\ Late \/ tx_pc = "done" => tx.controller.DATA_EN = 1

AfterDpr == {"dpr_run", "scaler", "scaler_run", "subsam", "subsam_run", "dtg",
             "dtg_alpha", "dtg_go", "dtg_blend", "done"}
AfterScaler == AfterDpr \ {"dpr_run", "scaler"}
AfterSubSam == AfterScaler \ {"scaler_run", "subsam"}
AfterDtg == AfterSubSam \ {"subsam_run", "dtg"}

DprHolds ==
    /\ Past(dc_pc, AfterDpr) =>
        /\ dpr.pix_x = hdmi_config.h_active /\ dpr.pix_y = hdmi_config.v_active
        /\ dpr.pitch = hdmi_config.h_active * 4
    /\ dpr.run <=> Past(dc_pc, AfterDpr \ {"dpr_run"})

ScalerHolds ==
    LET res == <<hdmi_config.v_active - 1, hdmi_config.h_active - 1>>
    IN /\ Past(dc_pc, AfterScaler) =>
            /\ scaler.src_luma = res /\ scaler.src_chroma = res
            /\ scaler.dst_luma = res /\ scaler.dst_chroma = res
       /\ Past(dc_pc, AfterScaler \ {"scaler_run"}) => scaler.run

SubSamHolds ==
    LET hd == hdmi_config
    IN /\ Past(dc_pc, AfterSubSam) =>
            /\ subsam.display = <<hd.v_total - 1, hd.h_total - 1>>
            /\ subsam.hsync = <<hd.hsync - 1, hd.h_total - 1>>
            /\ subsam.vsync = <<hd.v_front_porch + hd.vsync - 1, hd.v_front_porch - 1>>
            /\ subsam.de_ulc = <<vblank(hd), hd.hsync + hd.h_back_porch - 1>>
            /\ subsam.de_lrc = <<hd.v_total - 1, hd.hsync + hd.h_back_porch + hd.h_active - 1>>
       /\ Past(dc_pc, AfterSubSam \ {"subsam_run"}) => subsam.enable

DtgHolds ==
    LET hd == hdmi_config
        ulc == <<vblank(hd) - 1, hd.hsync + hd.h_back_porch - 1>>
        lrc == <<hd.v_total - 1, hd.hsync + hd.h_back_porch + hd.h_active - 1>>
    IN Past(dc_pc, AfterDtg) =>
        /\ dtg.lrc = <<hd.v_total - 1, hd.h_total - 1>>
        /\ dtg.display_ulc = ulc /\ dtg.ch1_ulc = ulc
        /\ dtg.display_lrc = lrc /\ dtg.ch1_lrc = lrc

(* Every unit holds the current mode's values from its own step on and as   *)
(* long as the picture is shown.                                           *)
IInv ==
    /\ TypeOK /\ OnePhase /\ DarkUntilGo /\ ClockTuned
    /\ TxHolds /\ DprHolds /\ ScalerHolds /\ SubSamHolds /\ DtgHolds

=============================================================================
