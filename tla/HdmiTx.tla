--------------------------------- MODULE HdmiTx ---------------------------------
(***************************************************************************)
(* Programming the HDMI transmitter: call_api() (hdmi_tx.c) and the three   *)
(* calls it makes (API_HDMITX.c), CDN_API_HDMITX_Init, Set_Mode and SetVic. *)
(* Every register access is a mailbox call; that a call does what it says   *)
(* is the subject of module Mailbox, so here a register is written in one   *)
(* step, and a read-modify-write keeps the other fields of HDTX_CONTROLLER. *)
(*                                                                         *)
(* A register packed as (hi << 16) + lo is the pair <<hi, lo>>.             *)
(***************************************************************************)
EXTENDS VicTable

VARIABLES
    tx_pc,          \* where call_api() is
    tx              \* the transmitter's registers

HDMI_TX_MODE_HDMI_1_4 == 1      \* protocol_type of call_api()
EncodingRGB == 0                \* F_HDMI_ENCODING of PXL_RGB
Width8 == 0                     \* F_VIF_DATA_WIDTH of 8 bits per pixel

TxInit ==
    /\ tx_pc = "idle"
    /\ tx = [controller |-> [HDMI_MODE |-> 0, VIF_DATA_WIDTH |-> 0,
                             HDMI_ENCODING |-> 0, HDMI2_PREAMBLE_EN |-> 0,
                             DATA_EN |-> 0],
             cars |-> FALSE,
             h_size |-> <<0, 0>>, v_size |-> <<0, 0>>, front |-> <<0, 0>>,
             sync |-> <<0, 0>>, back |-> <<0, 0>>, polarity |-> 0]

TxGoto(from, to) == tx_pc = from /\ tx_pc' = to

(* CDN_API_HDMITX_Init_blocking(): the whole controller word in one write,  *)
(* then the clocks of the transmitter's blocks.                            *)
CDN_API_HDMITX_Init ==
    /\ TxGoto("init", "cars")
    /\ tx' = [tx EXCEPT !.controller =
                [HDMI_MODE |-> HDMI_TX_MODE_HDMI_1_4, VIF_DATA_WIDTH |-> 0,
                 HDMI_ENCODING |-> 0, HDMI2_PREAMBLE_EN |-> 1, DATA_EN |-> 1]]

OpenCars ==
    /\ TxGoto("cars", "mode_off")
    /\ tx' = [tx EXCEPT !.cars = TRUE]

(* CDN_API_HDMITX_Set_Mode_blocking().  With HDMI_TX_MODE_HDMI_1_4 neither  *)
(* the scrambler nor the TMDS clock ratio is touched.                      *)
SetMode_DataOff ==
    /\ TxGoto("mode_off", "mode_set")
    /\ tx' = [tx EXCEPT !.controller.DATA_EN = 0]

SetMode_Mode ==
    /\ TxGoto("mode_set", "mode_on")
    /\ tx' = [tx EXCEPT !.controller.HDMI_MODE = HDMI_TX_MODE_HDMI_1_4,
                        !.controller.HDMI2_PREAMBLE_EN = 1]

SetMode_DataOn ==
    /\ TxGoto("mode_on", "vic_sizes")
    /\ tx' = [tx EXCEPT !.controller.DATA_EN = 1]

(* CDN_API_HDMITX_SetVic_blocking().                                       *)

v_h_polarity(hd) ==
    (IF hd.hsync_pol = ACTIVE_LOW THEN 0 ELSE 1)
    + (IF hd.vsync_pol = ACTIVE_LOW THEN 0 ELSE 2)

SetVic_Sizes(hd) ==
    LET vblank == hd.vsync + hd.v_front_porch + hd.v_back_porch
    IN /\ TxGoto("vic_sizes", "vic_off")
       /\ tx' = [controller |-> tx.controller, cars |-> tx.cars,
                 h_size |-> <<hd.h_total - hd.h_blank, hd.h_blank>>,
                 v_size |-> <<hd.v_total - vblank, vblank>>,
                 front |-> <<hd.v_front_porch, hd.h_front_porch>>,
                 sync |-> <<hd.vsync, hd.h_blank - hd.h_front_porch - hd.h_back_porch>>,
                 back |-> <<hd.v_back_porch, hd.h_back_porch>>,
                 polarity |-> v_h_polarity(hd)]

SetVic_DataOff ==
    /\ TxGoto("vic_off", "vic_format")
    /\ tx' = [tx EXCEPT !.controller.DATA_EN = 0]

SetVic_Format ==
    /\ TxGoto("vic_format", "vic_on")
    /\ tx' = [tx EXCEPT !.controller.VIF_DATA_WIDTH = Width8,
                        !.controller.HDMI_ENCODING = EncodingRGB]

SetVic_DataOn ==
    /\ TxGoto("vic_on", "done")
    /\ tx' = [tx EXCEPT !.controller.DATA_EN = 1]

call_api(hd) ==
    \/ CDN_API_HDMITX_Init \/ OpenCars
    \/ SetMode_DataOff \/ SetMode_Mode \/ SetMode_DataOn
    \/ SetVic_Sizes(hd) \/ SetVic_DataOff \/ SetVic_Format \/ SetVic_DataOn

=============================================================================
