-------------------------------- MODULE VideoPath --------------------------------
(***************************************************************************)
(* The video path from a frame buffer to the cable: init_dcss() (dcss.c)    *)
(* for one image after another.  Each call resets the display controller,   *)
(* has the PHY re-tuned to the mode's pixel clock, programs the transmitter *)
(* (HdmiTx) and the display controller (DcssRegisters), and leaves the      *)
(* raster running until the client's reset notification or the next call.   *)
(*                                                                         *)
(* The PHY is ClockSource, which HdmiPhy is shown to implement.             *)
(***************************************************************************)
EXTENDS HdmiTx, DcssRegisters

CONSTANTS
    Modes,              \* the modes clients ask for
    FRAME_BUFFER_SIZE   \* dma_offsets.h, in bytes

ASSUME ModesAssumption == \A m \in Modes : Consistent(m)
ASSUME FrameBufferAssumption == FRAME_BUFFER_SIZE \in Nat

VARIABLES
    pc,             \* where the dcss PD is
    hdmi_config,    \* the configuration init_dcss() works from
    alpha_on,       \* its alpha_enable
    wanted, clock   \* the PHY

phyVars == <<wanted, clock>>
txVars == <<tx_pc, tx>>
dcVars == <<dc_pc, dcssRegs>>
vars == <<pc, hdmi_config, alpha_on, phyVars, txVars, dcVars>>

Frequencies == {m.pixel_frequency_khz : m \in Modes}
Phy == INSTANCE ClockSource WITH Known <- Frequencies

Init ==
    /\ pc = "recv"
    /\ hdmi_config \in Modes /\ alpha_on \in BOOLEAN
    /\ Phy!Init /\ TxInit /\ DcssRegsInit

(* protected(): the client's configuration; init_dcss() resets first.       *)
InitDcss(hd, alpha) ==
    /\ pc = "recv"
    /\ hdmi_config' = hd /\ alpha_on' = alpha
    /\ reset_dcss
    /\ pc' = "phy"
    /\ UNCHANGED <<phyVars, txVars, dc_pc>>

(* init_hdmi(): phy_cfg_t28hpc() and the power-up, which return when the    *)
(* clock runs, then call_api().                                            *)
TunePhy ==
    /\ pc = "phy"
    /\ Phy!Ask(hdmi_config.pixel_frequency_khz)
    /\ pc' = "phy_wait"
    /\ UNCHANGED <<hdmi_config, alpha_on, txVars, dcVars>>

PhyRuns ==
    /\ pc = "phy_wait"
    /\ Phy!Run \/ Phy!Pause
    /\ UNCHANGED <<pc, hdmi_config, alpha_on, txVars, dcVars>>

PhyDone ==
    /\ pc = "phy_wait" /\ clock # Phy!Off
    /\ pc' = "tx" /\ tx_pc' = "init"
    /\ UNCHANGED <<hdmi_config, alpha_on, phyVars, tx, dcVars>>

ProgramTx ==
    /\ pc = "tx"
    /\ call_api(hdmi_config)
    /\ UNCHANGED <<pc, hdmi_config, alpha_on, phyVars, dcVars>>

TxDone ==
    /\ pc = "tx" /\ tx_pc = "done"
    /\ pc' = "dcss" /\ tx_pc' = "idle" /\ dc_pc' = "dpr"
    /\ UNCHANGED <<hdmi_config, alpha_on, phyVars, tx, dcssRegs>>

ProgramDcss ==
    /\ pc = "dcss"
    /\ write_dcss_memory_registers(hdmi_config, alpha_on)
    /\ UNCHANGED <<pc, hdmi_config, alpha_on, phyVars, txVars>>

DcssDone ==
    /\ pc = "dcss" /\ dc_pc = "done"
    /\ pc' = "recv" /\ dc_pc' = "idle"
    /\ UNCHANGED <<hdmi_config, alpha_on, phyVars, txVars, dcssRegs>>

(* handle_api_status(): the transmitter's firmware did not answer           *)
(* init_api(), or refused a call of call_api(); the PD ends.                *)
Abort ==
    /\ pc \in {"phy", "tx"}
    /\ pc' = "aborted" /\ tx_pc' = "idle"
    /\ UNCHANGED <<hdmi_config, alpha_on, phyVars, tx, dcVars>>

(* notified(55)                                                            *)
ResetNotified ==
    /\ pc = "recv"
    /\ reset_dcss
    /\ UNCHANGED <<pc, hdmi_config, alpha_on, phyVars, txVars, dc_pc>>

Step == TunePhy \/ PhyDone \/ ProgramTx \/ TxDone \/ ProgramDcss \/ DcssDone

Next ==
    \/ \E hd \in Modes, alpha \in BOOLEAN : InitDcss(hd, alpha)
    \/ Step \/ PhyRuns \/ ResetNotified \/ Abort

Spec == Init /\ [][Next]_vars

(* init_dcss() runs to its end once called, and the PHY's clock comes up    *)
(* and in the end stays up (PollsEnd of HdmiPhy).                          *)
FairSpec ==
    /\ Spec /\ WF_vars(Step) /\ SF_vars(PhyDone) /\ WF_vars(PhyRuns)

-----------------------------------------------------------------------------
Pair == Int \X Int

ControlBits ==
    {"DEFAULT_OVERLAY_ALPHA", "CSS_PIX_COMP_SWAP", "GO",
     "OVERLAY_PATH_ENABLE", "BLENDER_VIDEO_ALPHA_SELECT", "CH1_PER_PEL_ALPHA_SEL"}

ControllerType ==
    [HDMI_MODE : 0..3, VIF_DATA_WIDTH : 0..3, HDMI_ENCODING : 0..3,
     HDMI2_PREAMBLE_EN : 0..1, DATA_EN : 0..1]

TxType ==
    [controller : ControllerType, cars : BOOLEAN, h_size : Pair, v_size : Pair,
     front : Pair, sync : Pair, back : Pair, polarity : 0..3]

TypeOK ==
    /\ pc \in {"recv", "phy", "phy_wait", "tx", "dcss", "aborted"}
    /\ hdmi_config \in Modes /\ alpha_on \in BOOLEAN
    /\ wanted \in Frequencies \union {Phy!Off} /\ clock \in {wanted, Phy!Off}
    /\ tx_pc \in {"idle", "init", "cars", "mode_off", "mode_set", "mode_on",
                  "vic_sizes", "vic_off", "vic_format", "vic_on", "done"}
    /\ tx \in TxType
    /\ dc_pc \in {"idle", "dpr", "dpr_run", "scaler", "scaler_run", "subsam",
                  "subsam_run", "dtg", "dtg_alpha", "dtg_go", "dtg_blend", "done"}
    /\ dpr \in [pix_x : Int, pix_y : Int, pitch : Int, run : BOOLEAN]
    /\ scaler \in [src_luma : Pair, src_chroma : Pair, dst_luma : Pair,
                   dst_chroma : Pair, run : BOOLEAN]
    /\ subsam \in [display : Pair, hsync : Pair, vsync : Pair,
                   de_ulc : Pair, de_lrc : Pair, enable : BOOLEAN]
    /\ dtg \in [lrc : Pair, display_ulc : Pair, display_lrc : Pair,
                ch1_ulc : Pair, ch1_lrc : Pair, control : SUBSET ControlBits]

(* The units on the path, each compared with what the prefetcher fetches,   *)
(* W by H, and with the raster of the timing generator.                    *)
W == dpr.pix_x
H == dpr.pix_y

UnitsRun ==
    /\ dpr.run /\ scaler.run /\ subsam.enable
    /\ tx.cars /\ tx.controller.DATA_EN = 1
    /\ tx.controller.HDMI_MODE = HDMI_TX_MODE_HDMI_1_4

WindowsAgree ==
    /\ scaler.src_luma = <<H - 1, W - 1>> /\ scaler.src_chroma = scaler.src_luma
    /\ scaler.dst_luma = scaler.src_luma /\ scaler.dst_chroma = scaler.src_luma
    /\ dtg.display_lrc[1] - dtg.display_ulc[1] = H
    /\ dtg.display_lrc[2] - dtg.display_ulc[2] = W
    /\ dtg.ch1_ulc = dtg.display_ulc /\ dtg.ch1_lrc = dtg.display_lrc
    /\ subsam.de_lrc[1] - subsam.de_ulc[1] + 1 = H
    /\ subsam.de_lrc[2] - subsam.de_ulc[2] = W
    /\ subsam.de_ulc[2] = dtg.display_ulc[2]

TotalsAgree ==
    /\ subsam.display = dtg.lrc
    /\ tx.v_size[1] = H /\ tx.v_size[1] + tx.v_size[2] = dtg.lrc[1] + 1
    /\ tx.h_size[1] = W /\ tx.h_size[1] + tx.h_size[2] = dtg.lrc[2] + 1

SyncsAgree ==
    /\ tx.v_size[2] = tx.front[1] + tx.sync[1] + tx.back[1]
    /\ tx.h_size[2] = tx.front[2] + tx.sync[2] + tx.back[2]
    /\ tx.sync[1] = subsam.vsync[1] - subsam.vsync[2]
    /\ tx.sync[2] = subsam.hsync[1] + 1

(* Whenever the raster runs, every unit from the frame buffer to the cable  *)
(* is running and set up for one and the same picture: the formulas of five *)
(* files (dpr.c, scaler.c, sub_sampler.c, dtg.c, API_HDMITX.c), each with   *)
(* its own conventions of porches and off-by-ones, agree with each other    *)
(* and with the pixel clock, whatever image was shown before.               *)
PathAgrees ==
    Raster => /\ UnitsRun /\ WindowsAgree /\ TotalsAgree /\ SyncsAgree
              /\ clock = hdmi_config.pixel_frequency_khz

Geometry ==
    <<dpr.pix_x, dpr.pix_y, dpr.pitch,
      [scaler EXCEPT !.run = FALSE], [subsam EXCEPT !.enable = FALSE],
      [dtg EXCEPT !.control = {}],
      [tx EXCEPT !.controller = <<>>], clock>>

(* No unit is re-programmed and the clock is not touched under a running    *)
(* raster: the reset at the head of init_dcss() (dcss.c:85) covers all of   *)
(* init_hdmi() and the register files.                                     *)
RewiredInTheDark == [][Geometry' # Geometry => ~Raster /\ ~Raster']_vars

(* What the prefetcher reads for a frame lies in one frame buffer           *)
(* (dma_offsets.h:6), so that showing one never shows, or races with, the   *)
(* other one or the words behind it.                                       *)
FetchFits == dpr.run => dpr.pitch * dpr.pix_y <= FRAME_BUFFER_SIZE

(* Unless a call failed, the client's call returns, and with its picture on *)
(* the raster: the last bits of dtg.c are set in the register that started  *)
(* the picture, not over it.                                               *)
EndsShown == (pc = "phy") ~> (pc = "aborted" \/ (pc = "recv" /\ Raster))

=============================================================================
