-------------------------------- MODULE VicTable --------------------------------
(***************************************************************************)
(* The display modes: the rows of vic_table.c, under the names of the       *)
(* fields of hdmi_data that clients copy them to and the dcss PD configures *)
(* the display by.  Two numbers of a row reach no hdmi_data: V_FREQ_HZ,     *)
(* kept to say what the others are meant to add up to, and the vic, which   *)
(* no example copies (three leave hd.vic unset; rotating_bars writes 23     *)
(* beside the numbers of VIC 4).                                           *)
(***************************************************************************)
EXTENDS Integers, Sequences

(* Fields in the order of MSA_PARAM (vic_table.h).                         *)
Mode(h_total, h_active, h_blank, hsync, h_front, h_back, v_total, v_active, v_blank, vsync, eof, sof, hz, khz, hpol, vpol, vic, r3, pr) ==
    [h_total |-> h_total, h_active |-> h_active, h_blank |-> h_blank,
     hsync |-> hsync, h_front_porch |-> h_front, h_back_porch |-> h_back,
     v_total |-> v_total, v_active |-> v_active, vsync |-> vsync,
     v_front_porch |-> eof, v_back_porch |-> sof,
     pixel_frequency_khz |-> khz, hsync_pol |-> hpol, vsync_pol |-> vpol,
     vic |-> vic, vic_r3 |-> r3, vic_pr |-> pr,
     V_FREQ_HZ |-> hz]

ACTIVE_LOW == 0
ACTIVE_HIGH == 1

VIC_3 == Mode(858, 720, 138, 62, 16, 60, 525, 480, 45, 6, 9, 30, 59, 27000, 0, 0, 3, 8, 0)
VIC_4 == Mode(1650, 1280, 370, 40, 110, 220, 750, 720, 30, 5, 5, 20, 60, 74250, 1, 1, 4, 8, 0)
VIC_16 == Mode(2200, 1920, 280, 44, 88, 148, 1125, 1080, 45, 5, 4, 36, 60, 148500, 1, 1, 16, 8, 0)
VIC_97 == Mode(4400, 3840, 560, 88, 176, 296, 2250, 2160, 90, 10, 8, 72, 60, 594000, 1, 1, 97, 8, 0)
VIC_95 == Mode(4400, 3840, 560, 88, 176, 296, 2250, 2160, 90, 10, 8, 72, 30, 297000, 1, 1, 95, 8, 0)

vic_table == <<VIC_3, VIC_4, VIC_16, VIC_97, VIC_95>>

ModeType ==
    [h_total : Nat, h_active : Nat, h_blank : Nat, hsync : Nat,
     h_front_porch : Nat, h_back_porch : Nat, v_total : Nat, v_active : Nat,
     vsync : Nat, v_front_porch : Nat, v_back_porch : Nat,
     pixel_frequency_khz : Nat, hsync_pol : Nat, vsync_pol : Nat,
     vic : Nat, vic_r3 : Nat, vic_pr : Nat, V_FREQ_HZ : Nat]

(* A mode whose parts make its wholes, in both directions.                 *)
Consistent(m) ==
    /\ m \in ModeType
    /\ m.h_total = m.h_active + m.h_blank
    /\ m.h_blank = m.hsync + m.h_front_porch + m.h_back_porch
    /\ m.v_total = m.v_active + m.vsync + m.v_front_porch + m.v_back_porch

=============================================================================
