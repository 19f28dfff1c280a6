---------------------------- MODULE VideoPathProofs ----------------------------
(***************************************************************************)
(* Proofs about VideoPath, for every set of consistent modes: IInv is an    *)
(* invariant, and with it the agreement of the units (PathAgrees), the rule *)
(* that nothing is re-programmed under a running raster (RewiredInTheDark)  *)
(* and, for modes whose picture fits a frame buffer, FetchFits.             *)
(***************************************************************************)
EXTENDS VideoPathInv, TLAPS

(* What ModesAssumption says of one mode.                                  *)
LEMMA ModeFacts ==
  ASSUME NEW hd \in Modes
  PROVE  /\ hd \in ModeType /\ Consistent(hd)
         /\ hd.pixel_frequency_khz \in Frequencies
  BY ModesAssumption DEF Consistent, Frequencies

(* Before the first call nothing is programmed and the raster is off.       *)
LEMMA InitInv == Init => IInv
  <1> SUFFICES ASSUME Init PROVE IInv OBVIOUS
  <1> USE DEF Init, Phy!Init, Phy!Off, TxInit, DcssRegsInit, Zero, Raster, Past
  <1>1. tx \in TxType BY DEF TxType, ControllerType, Pair
  <1>2. TypeOK BY <1>1 DEF TypeOK, Pair
  <1>3. OnePhase /\ DarkUntilGo /\ ClockTuned BY DEF OnePhase, DarkUntilGo, ClockTuned
  <1>4. TxHolds BY DEF TxHolds
  <1>5. DprHolds /\ ScalerHolds /\ SubSamHolds /\ DtgHolds
    BY DEF DprHolds, ScalerHolds, SubSamHolds, DtgHolds, AfterDpr, AfterScaler,
           AfterSubSam, AfterDtg
  <1> QED BY <1>2, <1>3, <1>4, <1>5 DEF IInv

(* What the units hold is about their registers, the mode and the step of   *)
(* write_dcss_memory_registers(): any other step leaves it as it is.        *)
LEMMA RegistersKept ==
  ASSUME DprHolds, ScalerHolds, SubSamHolds, DtgHolds,
         UNCHANGED <<hdmi_config, dcVars>>
  PROVE  (DprHolds /\ ScalerHolds /\ SubSamHolds /\ DtgHolds)'
  BY DEF DprHolds, ScalerHolds, SubSamHolds, DtgHolds, Past, Raster, vblank,
         dcVars, dcssRegs

(* After reset_dcss(), outside the register files, nothing is held and      *)
(* nothing is claimed.                                                     *)
LEMMA RegistersReset ==
  ASSUME TypeOK, reset_dcss, dc_pc' = "idle"
  PROVE  ~Raster' /\ (DprHolds /\ ScalerHolds /\ SubSamHolds /\ DtgHolds)'
  <1>1. ~Raster' BY DEF reset_dcss, Raster, TypeOK
  <1>2. ~dpr'.run BY DEF reset_dcss, TypeOK
  <1> QED
    BY <1>1, <1>2 DEF DprHolds, ScalerHolds, SubSamHolds, DtgHolds, Past, AfterDpr,
       AfterScaler, AfterSubSam, AfterDtg

(* A new image: the reset comes before everything else.                    *)
LEMMA InitDcssInv ==
  ASSUME IInv, NEW hd \in Modes, NEW alpha \in BOOLEAN, InitDcss(hd, alpha)
  PROVE  IInv'
  <1> USE DEF IInv
  <1>1. dc_pc = "idle" /\ tx_pc = "idle" BY DEF InitDcss, OnePhase
  <1>2. ~Raster' /\ (DprHolds /\ ScalerHolds /\ SubSamHolds /\ DtgHolds)'
    BY <1>1, RegistersReset DEF InitDcss
  <1>3. TypeOK' BY ZenonT(60) DEF InitDcss, reset_dcss, TypeOK, phyVars, txVars
  <1>4. (OnePhase /\ DarkUntilGo /\ ClockTuned /\ TxHolds)'
    BY <1>1, <1>2 DEF InitDcss, OnePhase, DarkUntilGo, ClockTuned, TxHolds, txVars
  <1> QED BY <1>2, <1>3, <1>4

(* The client's reset notification.                                        *)
LEMMA ResetNotifiedInv == IInv /\ ResetNotified => IInv'
  <1> SUFFICES ASSUME IInv, ResetNotified PROVE IInv' OBVIOUS
  <1> USE DEF IInv
  <1>1. dc_pc' = "idle" /\ tx_pc' = "idle" BY DEF ResetNotified, OnePhase, txVars
  <1>2. ~Raster' /\ (DprHolds /\ ScalerHolds /\ SubSamHolds /\ DtgHolds)'
    BY <1>1, RegistersReset DEF ResetNotified
  <1>3. TypeOK' BY ZenonT(60) DEF ResetNotified, reset_dcss, TypeOK, phyVars, txVars
  <1>4. (OnePhase /\ DarkUntilGo /\ ClockTuned /\ TxHolds)'
    BY <1>1, <1>2 DEF ResetNotified, OnePhase, DarkUntilGo, ClockTuned, TxHolds
  <1> QED BY <1>2, <1>3, <1>4

(* The PHY and the hand-overs between the phases.                          *)
LEMMA PhaseInv ==
  IInv /\ (TunePhy \/ PhyRuns \/ PhyDone \/ TxDone \/ DcssDone \/ Abort) => IInv'
  <1> SUFFICES ASSUME IInv, TunePhy \/ PhyRuns \/ PhyDone \/ TxDone \/ DcssDone \/ Abort
               PROVE  IInv'
    OBVIOUS
  <1> USE DEF IInv, phyVars, txVars, dcVars, dcssRegs, Raster
  <1>0. hdmi_config.pixel_frequency_khz \in Frequencies BY ModeFacts DEF TypeOK
  <1>1. CASE TunePhy
    <2> USE <1>1 DEF TunePhy, Phy!Ask, Phy!Off
    <2>1. TypeOK' BY <1>0 DEF TypeOK
    <2>2. (OnePhase /\ DarkUntilGo)' BY DEF OnePhase, DarkUntilGo, TypeOK
    <2>3. ClockTuned' BY DEF ClockTuned, TypeOK, OnePhase, DarkUntilGo
    <2>4. TxHolds' BY DEF TxHolds, OnePhase, DarkUntilGo, vblank
    <2>5. (DprHolds /\ ScalerHolds /\ SubSamHolds /\ DtgHolds)' BY RegistersKept
    <2> QED BY <2>1, <2>2, <2>3, <2>4, <2>5
  <1>2. CASE PhyRuns
    <2> USE <1>2 DEF PhyRuns, Phy!Run, Phy!Pause, Phy!Off
    <2>1. TypeOK' BY <1>0 DEF TypeOK
    <2>2. (OnePhase /\ DarkUntilGo)' BY DEF OnePhase, DarkUntilGo, TypeOK
    <2>3. ClockTuned' BY DEF ClockTuned, TypeOK, OnePhase, DarkUntilGo
    <2>4. TxHolds' BY DEF TxHolds, OnePhase, DarkUntilGo, vblank
    <2>5. (DprHolds /\ ScalerHolds /\ SubSamHolds /\ DtgHolds)' BY RegistersKept
    <2> QED BY <2>1, <2>2, <2>3, <2>4, <2>5
  <1>3. CASE PhyDone
    <2> USE <1>3 DEF PhyDone, Phy!Off
    <2>1. TypeOK' BY <1>0 DEF TypeOK
    <2>2. (OnePhase /\ DarkUntilGo)' BY DEF OnePhase, DarkUntilGo, TypeOK
    <2>3. ClockTuned' BY DEF ClockTuned, TypeOK, OnePhase, DarkUntilGo
    <2>4. TxHolds' BY DEF TxHolds, OnePhase, DarkUntilGo, vblank
    <2>5. (DprHolds /\ ScalerHolds /\ SubSamHolds /\ DtgHolds)' BY RegistersKept
    <2> QED BY <2>1, <2>2, <2>3, <2>4, <2>5
  <1>4. CASE TxDone
    <2> USE <1>4 DEF TxDone
    <2>1. TypeOK' BY <1>0 DEF TypeOK
    <2>2. (OnePhase /\ DarkUntilGo)' BY DEF OnePhase, DarkUntilGo, TypeOK
    <2>3. ClockTuned' BY DEF ClockTuned, TypeOK, OnePhase, DarkUntilGo
    <2>4. TxHolds' BY DEF TxHolds, OnePhase, DarkUntilGo, vblank
    <2>5. (DprHolds /\ ScalerHolds /\ SubSamHolds /\ DtgHolds)'
      BY DEF DprHolds, ScalerHolds, SubSamHolds, DtgHolds, Past, vblank, AfterDpr,
             AfterScaler, AfterSubSam, AfterDtg, OnePhase, DarkUntilGo
    <2> QED BY <2>1, <2>2, <2>3, <2>4, <2>5
  <1>5. CASE DcssDone
    <2> USE <1>5 DEF DcssDone
    <2>1. TypeOK' BY <1>0 DEF TypeOK
    <2>2. (OnePhase /\ DarkUntilGo)' BY DEF OnePhase, DarkUntilGo, TypeOK
    <2>3. ClockTuned' BY DEF ClockTuned, TypeOK, OnePhase, DarkUntilGo
    <2>4. TxHolds' BY DEF TxHolds, OnePhase, DarkUntilGo, vblank
    <2>5. (DprHolds /\ ScalerHolds /\ SubSamHolds /\ DtgHolds)'
      BY DEF DprHolds, ScalerHolds, SubSamHolds, DtgHolds, Past, vblank, AfterDpr,
             AfterScaler, AfterSubSam, AfterDtg, OnePhase, DarkUntilGo
    <2> QED BY <2>1, <2>2, <2>3, <2>4, <2>5
  <1>6. CASE Abort
    <2> USE <1>6 DEF Abort
    <2>1. TypeOK' BY DEF TypeOK
    <2>2. (OnePhase /\ DarkUntilGo)' BY DEF OnePhase, DarkUntilGo
    <2>3. ClockTuned' BY DEF ClockTuned, OnePhase, DarkUntilGo
    <2>4. TxHolds' BY DEF TxHolds, OnePhase, DarkUntilGo, vblank
    <2>5. (DprHolds /\ ScalerHolds /\ SubSamHolds /\ DtgHolds)' BY RegistersKept
    <2> QED BY <2>1, <2>2, <2>3, <2>4, <2>5
  <1> QED BY <1>1, <1>2, <1>3, <1>4, <1>5, <1>6

(* call_api(): the raster is off, and each call leaves its registers set.   *)
LEMMA ProgramTxInv == IInv /\ ProgramTx => IInv'
  <1> SUFFICES ASSUME IInv, ProgramTx PROVE IInv' OBVIOUS
  <1> USE DEF IInv, ProgramTx
  <1>1. hdmi_config \in ModeType BY ModeFacts DEF TypeOK
  <1>2. ~Raster /\ ~Raster' /\ dc_pc = "idle"
    BY DEF DarkUntilGo, OnePhase, Raster, dcVars, dcssRegs
  <1>3. tx_pc' # "idle" BY DEF call_api, TxGoto, CDN_API_HDMITX_Init, OpenCars,
      SetMode_DataOff, SetMode_Mode, SetMode_DataOn, SetVic_Sizes, SetVic_DataOff,
      SetVic_Format, SetVic_DataOn
  <1>4. (OnePhase /\ DarkUntilGo /\ ClockTuned)'
    BY <1>2, <1>3 DEF OnePhase, DarkUntilGo, ClockTuned, phyVars, dcVars, dcssRegs
  <1>5. (DprHolds /\ ScalerHolds /\ SubSamHolds /\ DtgHolds)' BY RegistersKept
  <1>6. tx' \in TxType /\ TxHolds'
    <2> USE <1>2 DEF TxGoto, HDMI_TX_MODE_HDMI_1_4, Width8, EncodingRGB
    <2>1. CASE CDN_API_HDMITX_Init
      <3> DEFINE c == [HDMI_MODE |-> HDMI_TX_MODE_HDMI_1_4, VIF_DATA_WIDTH |-> 0,
                     HDMI_ENCODING |-> 0, HDMI2_PREAMBLE_EN |-> 1, DATA_EN |-> 1]
      <3>1. tx.controller \in ControllerType BY DEF TypeOK, TxType
      <3>2. c \in ControllerType BY <3>1 DEF ControllerType
      <3>3. tx' = [tx EXCEPT !.controller = c] BY <2>1 DEF CDN_API_HDMITX_Init
      <3> HIDE DEF c
      <3>4. tx' \in TxType BY <3>2, <3>3 DEF TypeOK, TxType
      <3> USE DEF c
      <3>5. tx'.controller = c /\ UNCHANGED <<tx.cars, tx.h_size, tx.v_size, tx.front, tx.sync, tx.back>>
        BY <3>3 DEF TypeOK, TxType
      <3>6. TxHolds' BY <2>1, <3>1, <3>3, <3>5 DEF CDN_API_HDMITX_Init, TxHolds, TypeOK, TxType, ControllerType, vblank
      <3> QED BY <3>4, <3>6
    <2>2. CASE SetMode_DataOff
      <3> DEFINE c == [tx.controller EXCEPT !.DATA_EN = 0]
      <3>1. tx.controller \in ControllerType BY DEF TypeOK, TxType
      <3>2. c \in ControllerType BY <3>1 DEF ControllerType
      <3>3. tx' = [tx EXCEPT !.controller = c] BY <2>2 DEF SetMode_DataOff
      <3> HIDE DEF c
      <3>4. tx' \in TxType BY <3>2, <3>3 DEF TypeOK, TxType
      <3> USE DEF c
      <3>5. tx'.controller = c /\ UNCHANGED <<tx.cars, tx.h_size, tx.v_size, tx.front, tx.sync, tx.back>>
        BY <3>3 DEF TypeOK, TxType
      <3>6. TxHolds' BY <2>2, <3>1, <3>3, <3>5 DEF SetMode_DataOff, TxHolds, TypeOK, TxType, ControllerType, vblank
      <3> QED BY <3>4, <3>6
    <2>3. CASE SetMode_Mode
      <3> DEFINE c == [tx.controller EXCEPT !.HDMI_MODE = 1, !.HDMI2_PREAMBLE_EN = 1]
      <3>1. tx.controller \in ControllerType BY DEF TypeOK, TxType
      <3> DEFINE d == [tx.controller EXCEPT !.HDMI_MODE = 1]
      <3>2. d \in ControllerType BY <3>1 DEF ControllerType
      <3>3. c = [d EXCEPT !.HDMI2_PREAMBLE_EN = 1] OBVIOUS
      <3> HIDE DEF c, d
      <3>4. c \in ControllerType BY <3>2, <3>3 DEF ControllerType
      <3>5. c.HDMI_MODE = d.HDMI_MODE BY <3>2, <3>3 DEF ControllerType
      <3> USE DEF c, d
      <3>6. tx' = [tx EXCEPT !.controller = c] BY <2>3 DEF SetMode_Mode
      <3> HIDE DEF c
      <3>7. tx' \in TxType BY <3>4, <3>6 DEF TypeOK, TxType
      <3> USE DEF c
      <3>8. tx'.controller = c /\ UNCHANGED <<tx.cars, tx.h_size, tx.v_size, tx.front, tx.sync, tx.back>>
        BY <3>6 DEF TypeOK, TxType
      <3>9. TxHolds' BY <2>3, <3>1, <3>6, <3>8 DEF SetMode_Mode, TxHolds, TypeOK, TxType, ControllerType, vblank
      <3> QED BY <3>7, <3>9
    <2>4. CASE SetMode_DataOn
      <3> DEFINE c == [tx.controller EXCEPT !.DATA_EN = 1]
      <3>1. tx.controller \in ControllerType BY DEF TypeOK, TxType
      <3>2. c \in ControllerType BY <3>1 DEF ControllerType
      <3>3. tx' = [tx EXCEPT !.controller = c] BY <2>4 DEF SetMode_DataOn
      <3> HIDE DEF c
      <3>4. tx' \in TxType BY <3>2, <3>3 DEF TypeOK, TxType
      <3> USE DEF c
      <3>5. tx'.controller = c /\ UNCHANGED <<tx.cars, tx.h_size, tx.v_size, tx.front, tx.sync, tx.back>>
        BY <3>3 DEF TypeOK, TxType
      <3>6. TxHolds' BY <2>4, <3>1, <3>3, <3>5 DEF SetMode_DataOn, TxHolds, TypeOK, TxType, ControllerType, vblank
      <3> QED BY <3>4, <3>6
    <2>5. CASE SetVic_DataOff
      <3> DEFINE c == [tx.controller EXCEPT !.DATA_EN = 0]
      <3>1. tx.controller \in ControllerType BY DEF TypeOK, TxType
      <3>2. c \in ControllerType BY <3>1 DEF ControllerType
      <3>3. tx' = [tx EXCEPT !.controller = c] BY <2>5 DEF SetVic_DataOff
      <3> HIDE DEF c
      <3>4. tx' \in TxType BY <3>2, <3>3 DEF TypeOK, TxType
      <3> USE DEF c
      <3>5. tx'.controller = c /\ UNCHANGED <<tx.cars, tx.h_size, tx.v_size, tx.front, tx.sync, tx.back>>
        BY <3>3 DEF TypeOK, TxType
      <3>6. TxHolds' BY <2>5, <3>1, <3>3, <3>5 DEF SetVic_DataOff, TxHolds, TypeOK, TxType, ControllerType, vblank
      <3> QED BY <3>4, <3>6
    <2>6. CASE SetVic_Format
      <3> DEFINE c == [tx.controller EXCEPT !.VIF_DATA_WIDTH = 0, !.HDMI_ENCODING = 0]
      <3>1. tx.controller \in ControllerType BY DEF TypeOK, TxType
      <3> DEFINE d == [tx.controller EXCEPT !.VIF_DATA_WIDTH = 0]
      <3>2. d \in ControllerType BY <3>1 DEF ControllerType
      <3>3. c = [d EXCEPT !.HDMI_ENCODING = 0] OBVIOUS
      <3> HIDE DEF c, d
      <3>4. c \in ControllerType BY <3>2, <3>3 DEF ControllerType
      <3>5. c.HDMI_MODE = d.HDMI_MODE BY <3>2, <3>3 DEF ControllerType
      <3> USE DEF c, d
      <3>6. tx' = [tx EXCEPT !.controller = c] BY <2>6 DEF SetVic_Format
      <3> HIDE DEF c
      <3>7. tx' \in TxType BY <3>4, <3>6 DEF TypeOK, TxType
      <3> USE DEF c
      <3>8. tx'.controller = c /\ UNCHANGED <<tx.cars, tx.h_size, tx.v_size, tx.front, tx.sync, tx.back>>
        BY <3>6 DEF TypeOK, TxType
      <3>9. TxHolds' BY <2>6, <3>1, <3>6, <3>8 DEF SetVic_Format, TxHolds, TypeOK, TxType, ControllerType, vblank
      <3> QED BY <3>7, <3>9
    <2>7. CASE SetVic_DataOn
      <3> DEFINE c == [tx.controller EXCEPT !.DATA_EN = 1]
      <3>1. tx.controller \in ControllerType BY DEF TypeOK, TxType
      <3>2. c \in ControllerType BY <3>1 DEF ControllerType
      <3>3. tx' = [tx EXCEPT !.controller = c] BY <2>7 DEF SetVic_DataOn
      <3> HIDE DEF c
      <3>4. tx' \in TxType BY <3>2, <3>3 DEF TypeOK, TxType
      <3> USE DEF c
      <3>5. tx'.controller = c /\ UNCHANGED <<tx.cars, tx.h_size, tx.v_size, tx.front, tx.sync, tx.back>>
        BY <3>3 DEF TypeOK, TxType
      <3>6. TxHolds' BY <2>7, <3>1, <3>3, <3>5 DEF SetVic_DataOn, TxHolds, TypeOK, TxType, ControllerType, vblank
      <3> QED BY <3>4, <3>6
    <2>8. CASE OpenCars
      <3>1. tx' \in TxType BY <1>1, <2>8 DEF OpenCars, TypeOK, TxType
      <3>2. TxHolds' BY <2>8 DEF OpenCars, TxHolds, TypeOK, TxType, vblank
      <3> QED BY <3>1, <3>2
    <2>9. CASE SetVic_Sizes(hdmi_config)
      <3>1. tx' \in TxType BY <1>1, <2>9 DEF SetVic_Sizes, v_h_polarity, Pair, ModeType, TypeOK, TxType
      <3>2. TxHolds' BY <2>9 DEF SetVic_Sizes, TxHolds, TypeOK, TxType, vblank
      <3> QED BY <3>1, <3>2
    <2> QED BY <2>1, <2>2, <2>3, <2>4, <2>5, <2>6, <2>7, <2>8, <2>9 DEF call_api
  <1>7. TypeOK'
    <2>1. tx_pc' \in {"cars", "mode_off", "mode_set", "mode_on", "vic_sizes", "vic_off",
                     "vic_format", "vic_on", "done"}
      BY DEF call_api, TxGoto, CDN_API_HDMITX_Init, OpenCars, SetMode_DataOff,
             SetMode_Mode, SetMode_DataOn, SetVic_Sizes, SetVic_DataOff,
             SetVic_Format, SetVic_DataOn
    <2> QED BY <1>6, <2>1 DEF TypeOK, phyVars, dcVars, dcssRegs
  <1> QED BY <1>4, <1>5, <1>6, <1>7

(* The register files: each unit is set up in its own step, and the raster  *)
(* is started when all of them are.                                        *)
LEMMA ProgramDcssInv == IInv /\ ProgramDcss => IInv'
  <1> SUFFICES ASSUME IInv, ProgramDcss PROVE IInv' OBVIOUS
  <1> USE DEF IInv, ProgramDcss, phyVars, txVars, DcGoto, DtgSet, Raster
  <1>0. hdmi_config \in ModeType BY ModeFacts DEF TypeOK
  <1>1. tx_pc = "idle" /\ dc_pc # "idle" BY DEF OnePhase
  <1>2. (ClockTuned /\ TxHolds)' BY <1>1 DEF ClockTuned, TxHolds, vblank
  <1>3. CASE DprGeometry(hdmi_config)
    <2> USE <1>3 DEF DprGeometry
    <2>1. TypeOK' BY <1>0 DEF TypeOK, Pair, ControlBits, ModeType
    <2>2. (OnePhase /\ DarkUntilGo)' BY <1>1 DEF OnePhase, DarkUntilGo, TypeOK
    <2>3. (DprHolds /\ ScalerHolds)'
      BY DEF DprHolds, ScalerHolds, Past, AfterDpr, AfterScaler, TypeOK, DarkUntilGo
    <2>4. (SubSamHolds /\ DtgHolds)'
      BY <1>0 DEF SubSamHolds, DtgHolds, Past, AfterDpr, AfterScaler, AfterSubSam,
             AfterDtg, TypeOK, DarkUntilGo, vblank, ModeType
    <2> QED BY <1>2, <2>1, <2>2, <2>3, <2>4
  <1>4. CASE DprRun
    <2> USE <1>4 DEF DprRun
    <2>1. TypeOK' BY <1>0 DEF TypeOK, Pair, ControlBits, ModeType
    <2>2. (OnePhase /\ DarkUntilGo)' BY <1>1 DEF OnePhase, DarkUntilGo, TypeOK
    <2>3. (DprHolds /\ ScalerHolds)'
      BY DEF DprHolds, ScalerHolds, Past, AfterDpr, AfterScaler, TypeOK, DarkUntilGo
    <2>4. (SubSamHolds /\ DtgHolds)'
      BY <1>0 DEF SubSamHolds, DtgHolds, Past, AfterDpr, AfterScaler, AfterSubSam,
             AfterDtg, TypeOK, DarkUntilGo, vblank, ModeType
    <2> QED BY <1>2, <2>1, <2>2, <2>3, <2>4
  <1>5. CASE ScalerGeometry(hdmi_config)
    <2> USE <1>5 DEF ScalerGeometry
    <2>1. TypeOK' BY <1>0 DEF TypeOK, Pair, ControlBits, ModeType
    <2>2. (OnePhase /\ DarkUntilGo)' BY <1>1 DEF OnePhase, DarkUntilGo, TypeOK
    <2>3. (DprHolds /\ ScalerHolds)'
      BY DEF DprHolds, ScalerHolds, Past, AfterDpr, AfterScaler, TypeOK, DarkUntilGo
    <2>4. (SubSamHolds /\ DtgHolds)'
      BY <1>0 DEF SubSamHolds, DtgHolds, Past, AfterDpr, AfterScaler, AfterSubSam,
             AfterDtg, TypeOK, DarkUntilGo, vblank, ModeType
    <2> QED BY <1>2, <2>1, <2>2, <2>3, <2>4
  <1>6. CASE ScalerRun
    <2> USE <1>6 DEF ScalerRun
    <2>1. TypeOK' BY <1>0 DEF TypeOK, Pair, ControlBits, ModeType
    <2>2. (OnePhase /\ DarkUntilGo)' BY <1>1 DEF OnePhase, DarkUntilGo, TypeOK
    <2>3. (DprHolds /\ ScalerHolds)'
      BY DEF DprHolds, ScalerHolds, Past, AfterDpr, AfterScaler, TypeOK, DarkUntilGo
    <2>4. (SubSamHolds /\ DtgHolds)'
      BY <1>0 DEF SubSamHolds, DtgHolds, Past, AfterDpr, AfterScaler, AfterSubSam,
             AfterDtg, TypeOK, DarkUntilGo, vblank, ModeType
    <2> QED BY <1>2, <2>1, <2>2, <2>3, <2>4
  <1>7. CASE SubSamGeometry(hdmi_config)
    <2> USE <1>7 DEF SubSamGeometry
    <2>1. TypeOK' BY <1>0 DEF TypeOK, Pair, ControlBits, ModeType
    <2>2. (OnePhase /\ DarkUntilGo)' BY <1>1 DEF OnePhase, DarkUntilGo, TypeOK
    <2>3. (DprHolds /\ ScalerHolds)'
      BY DEF DprHolds, ScalerHolds, Past, AfterDpr, AfterScaler, TypeOK, DarkUntilGo
    <2>4. (SubSamHolds /\ DtgHolds)'
      BY <1>0 DEF SubSamHolds, DtgHolds, Past, AfterDpr, AfterScaler, AfterSubSam,
             AfterDtg, TypeOK, DarkUntilGo, vblank, ModeType
    <2> QED BY <1>2, <2>1, <2>2, <2>3, <2>4
  <1>8. CASE SubSamRun
    <2> USE <1>8 DEF SubSamRun
    <2>1. TypeOK' BY <1>0 DEF TypeOK, Pair, ControlBits, ModeType
    <2>2. (OnePhase /\ DarkUntilGo)' BY <1>1 DEF OnePhase, DarkUntilGo, TypeOK
    <2>3. (DprHolds /\ ScalerHolds)'
      BY DEF DprHolds, ScalerHolds, Past, AfterDpr, AfterScaler, TypeOK, DarkUntilGo
    <2>4. (SubSamHolds /\ DtgHolds)'
      BY <1>0 DEF SubSamHolds, DtgHolds, Past, AfterDpr, AfterScaler, AfterSubSam,
             AfterDtg, TypeOK, DarkUntilGo, vblank, ModeType
    <2> QED BY <1>2, <2>1, <2>2, <2>3, <2>4
  <1>9. CASE DtgGeometry(hdmi_config)
    <2> USE <1>9 DEF DtgGeometry
    <2>1. TypeOK' BY <1>0 DEF TypeOK, Pair, ControlBits, ModeType
    <2>2. (OnePhase /\ DarkUntilGo)' BY <1>1 DEF OnePhase, DarkUntilGo, TypeOK
    <2>3. (DprHolds /\ ScalerHolds)'
      BY DEF DprHolds, ScalerHolds, Past, AfterDpr, AfterScaler, TypeOK, DarkUntilGo
    <2>4. (SubSamHolds /\ DtgHolds)'
      BY <1>0 DEF SubSamHolds, DtgHolds, Past, AfterDpr, AfterScaler, AfterSubSam,
             AfterDtg, TypeOK, DarkUntilGo, vblank, ModeType
    <2> QED BY <1>2, <2>1, <2>2, <2>3, <2>4
  <1>10. CASE DtgAlpha
    <2> USE <1>10 DEF DtgAlpha
    <2>1. TypeOK' BY <1>0 DEF TypeOK, Pair, ControlBits, ModeType
    <2>2. (OnePhase /\ DarkUntilGo)' BY <1>1 DEF OnePhase, DarkUntilGo, TypeOK
    <2>3. (DprHolds /\ ScalerHolds)'
      BY DEF DprHolds, ScalerHolds, Past, AfterDpr, AfterScaler, TypeOK, DarkUntilGo
    <2>4. (SubSamHolds /\ DtgHolds)'
      BY <1>0 DEF SubSamHolds, DtgHolds, Past, AfterDpr, AfterScaler, AfterSubSam,
             AfterDtg, TypeOK, DarkUntilGo, vblank, ModeType
    <2> QED BY <1>2, <2>1, <2>2, <2>3, <2>4
  <1>11. CASE DtgGo
    <2> USE <1>11 DEF DtgGo
    <2>1. TypeOK' BY <1>0 DEF TypeOK, Pair, ControlBits, ModeType
    <2>2. (OnePhase /\ DarkUntilGo)' BY <1>1 DEF OnePhase, DarkUntilGo, TypeOK
    <2>3. (DprHolds /\ ScalerHolds)'
      BY DEF DprHolds, ScalerHolds, Past, AfterDpr, AfterScaler, TypeOK, DarkUntilGo
    <2>4. (SubSamHolds /\ DtgHolds)'
      BY <1>0 DEF SubSamHolds, DtgHolds, Past, AfterDpr, AfterScaler, AfterSubSam,
             AfterDtg, TypeOK, DarkUntilGo, vblank, ModeType
    <2> QED BY <1>2, <2>1, <2>2, <2>3, <2>4
  <1>12. CASE DtgBlend(alpha_on)
    <2> USE <1>12 DEF DtgBlend
    <2>1. TypeOK' BY <1>0 DEF TypeOK, Pair, ControlBits, ModeType
    <2>2. (OnePhase /\ DarkUntilGo)' BY <1>1 DEF OnePhase, DarkUntilGo, TypeOK
    <2>3. (DprHolds /\ ScalerHolds)'
      BY DEF DprHolds, ScalerHolds, Past, AfterDpr, AfterScaler, TypeOK, DarkUntilGo
    <2>4. (SubSamHolds /\ DtgHolds)'
      BY <1>0 DEF SubSamHolds, DtgHolds, Past, AfterDpr, AfterScaler, AfterSubSam,
             AfterDtg, TypeOK, DarkUntilGo, vblank, ModeType
    <2> QED BY <1>2, <2>1, <2>2, <2>3, <2>4
  <1> QED BY <1>2, <1>3, <1>4, <1>5, <1>6, <1>7, <1>8, <1>9, <1>10, <1>11, <1>12 DEF write_dcss_memory_registers

(* Every step of the dcss PD and of the PHY, and stuttering, preserves IInv. *)
LEMMA StepInv == IInv /\ [Next]_vars => IInv'
  <1> SUFFICES ASSUME IInv, [Next]_vars PROVE IInv' OBVIOUS
  <1>1. CASE UNCHANGED vars
    <2> USE <1>1 DEF vars, phyVars, txVars, dcVars, dcssRegs, Raster
    <2>1. TypeOK' BY DEF IInv, TypeOK
    <2>2. (OnePhase /\ DarkUntilGo /\ ClockTuned /\ TxHolds)'
      BY DEF IInv, OnePhase, DarkUntilGo, ClockTuned, TxHolds, vblank
    <2>3. (DprHolds /\ ScalerHolds /\ SubSamHolds /\ DtgHolds)'
      BY RegistersKept DEF IInv
    <2> QED BY <2>1, <2>2, <2>3 DEF IInv
  <1> QED
    BY <1>1, InitDcssInv, ResetNotifiedInv, PhaseInv, ProgramTxInv, ProgramDcssInv
    DEF Next, Step

(* Whatever images are shown one after another, the values of a mode are in *)
(* a unit's registers from its own step on and as long as the raster runs.  *)
THEOREM InvCorrect == Spec => []IInv
  BY InitInv, StepInv, PTL DEF Spec

(* Every register keeps its type: bit fields their width, the clock one of  *)
(* the frequencies asked for.                                              *)
THEOREM TypeCorrect == Spec => []TypeOK
  <1>1. IInv => TypeOK BY DEF IInv
  <1> QED BY <1>1, InvCorrect, PTL

(* PathAgrees: the geometry computed by dpr.c, scaler.c, sub_sampler.c,     *)
(* dtg.c and API_HDMITX.c is the same picture for every consistent mode.    *)
THEOREM PathAgreesCorrect == Spec => []PathAgrees
  <1>1. ASSUME IInv, Raster PROVE UnitsRun /\ WindowsAgree /\ TotalsAgree /\ SyncsAgree
    <2> USE <1>1 DEF IInv
    <2> DEFINE hd == hdmi_config
               left == hd.hsync + hd.h_back_porch - 1
               right == hd.hsync + hd.h_back_porch + hd.h_active - 1
    <2>1. hd \in ModeType /\ Consistent(hd) BY ModeFacts DEF TypeOK
    <2>2. /\ hd.h_total \in Int /\ hd.h_active \in Int /\ hd.h_blank \in Int
          /\ hd.hsync \in Int /\ hd.h_front_porch \in Int /\ hd.h_back_porch \in Int
          /\ hd.v_total \in Int /\ hd.v_active \in Int /\ hd.vsync \in Int
          /\ hd.v_front_porch \in Int /\ hd.v_back_porch \in Int
      BY <2>1 DEF ModeType
    <2>3. /\ hd.h_total = hd.h_active + hd.h_blank
          /\ hd.h_blank = hd.hsync + hd.h_front_porch + hd.h_back_porch
          /\ hd.v_total = hd.v_active + hd.vsync + hd.v_front_porch + hd.v_back_porch
      BY <2>1 DEF Consistent
    <2>4. UnitsRun
      BY DEF UnitsRun, TxHolds, DprHolds, ScalerHolds, SubSamHolds, Past
    <2>5. dpr.pix_x = hd.h_active /\ dpr.pix_y = hd.v_active BY DEF DprHolds, Past
    <2>6. /\ scaler.src_luma = <<hd.v_active - 1, hd.h_active - 1>>
          /\ scaler.src_chroma = scaler.src_luma /\ scaler.dst_luma = scaler.src_luma
          /\ scaler.dst_chroma = scaler.src_luma
      BY DEF ScalerHolds, Past
    <2>7. /\ subsam.display = <<hd.v_total - 1, hd.h_total - 1>>
          /\ subsam.hsync[1] = hd.hsync - 1
          /\ subsam.vsync[1] = hd.v_front_porch + hd.vsync - 1
          /\ subsam.vsync[2] = hd.v_front_porch - 1
          /\ subsam.de_ulc[1] = vblank(hd) /\ subsam.de_ulc[2] = left
          /\ subsam.de_lrc[1] = hd.v_total - 1 /\ subsam.de_lrc[2] = right
      BY DEF SubSamHolds, Past
    <2>8. /\ dtg.lrc = <<hd.v_total - 1, hd.h_total - 1>>
          /\ dtg.display_ulc = <<vblank(hd) - 1, left>>
          /\ dtg.display_lrc = <<hd.v_total - 1, right>>
          /\ dtg.ch1_ulc = dtg.display_ulc /\ dtg.ch1_lrc = dtg.display_lrc
      BY DEF DtgHolds, Past
    <2>9. /\ tx.h_size[1] = hd.h_total - hd.h_blank /\ tx.h_size[2] = hd.h_blank
          /\ tx.v_size[1] = hd.v_total - vblank(hd) /\ tx.v_size[2] = vblank(hd)
          /\ tx.front[1] = hd.v_front_porch /\ tx.front[2] = hd.h_front_porch
          /\ tx.sync[1] = hd.vsync
          /\ tx.sync[2] = hd.h_blank - hd.h_front_porch - hd.h_back_porch
          /\ tx.back[1] = hd.v_back_porch /\ tx.back[2] = hd.h_back_porch
      BY DEF TxHolds
    <2> HIDE <1>1 DEF hd
    <2>10. WindowsAgree
      BY <2>2, <2>3, <2>5, <2>6, <2>7, <2>8 DEF WindowsAgree, W, H, vblank
    <2>11. TotalsAgree
      BY <2>2, <2>3, <2>5, <2>7, <2>8, <2>9 DEF TotalsAgree, W, H, vblank
    <2>12. SyncsAgree
      <3>1. tx.v_size[2] = tx.front[1] + tx.sync[1] + tx.back[1] BY <2>2, <2>9 DEF vblank
      <3>2. tx.h_size[2] = tx.front[2] + tx.sync[2] + tx.back[2] BY <2>2, <2>9
      <3>3. tx.sync[1] = subsam.vsync[1] - subsam.vsync[2]
        <4>1. hd.vsync = (hd.v_front_porch + hd.vsync - 1) - (hd.v_front_porch - 1) BY <2>2
        <4> QED BY <2>7, <2>9, <4>1
      <3>4. tx.sync[2] = subsam.hsync[1] + 1 BY <2>2, <2>3, <2>7, <2>9
      <3> QED BY <3>1, <3>2, <3>3, <3>4 DEF SyncsAgree
    <2> QED BY <2>4, <2>10, <2>11, <2>12
  <1>2. IInv => PathAgrees BY <1>1 DEF PathAgrees, IInv, ClockTuned
  <1> QED BY <1>2, InvCorrect, PTL

(* RewiredInTheDark: a step that changes a geometry register or the clock   *)
(* is one of init_dcss() between its reset and TC_GO.                      *)
THEOREM RewiredCorrect == Spec => RewiredInTheDark
  <1> DEFINE Dark == Geometry' # Geometry => ~Raster /\ ~Raster'
  <1>1. IInv /\ [Next]_vars => [Dark]_vars
    <2> SUFFICES ASSUME IInv, Next PROVE Dark OBVIOUS
    <2> USE DEF IInv, phyVars, txVars, dcVars, dcssRegs
    <2>1. CASE \E hd \in Modes, alpha \in BOOLEAN : InitDcss(hd, alpha)
      BY <2>1 DEF InitDcss, reset_dcss, Geometry, TypeOK
    <2>2. CASE ResetNotified
      BY <2>2 DEF ResetNotified, reset_dcss, Geometry, TypeOK
    <2>3. CASE PhyDone \/ TxDone \/ DcssDone \/ Abort
      BY <2>3 DEF PhyDone, TxDone, DcssDone, Abort, Geometry
    <2>4. CASE TunePhy \/ PhyRuns \/ ProgramTx
      BY <2>4 DEF TunePhy, PhyRuns, ProgramTx, DarkUntilGo, OnePhase, Raster
    <2>5. CASE ProgramDcss
      <3>1. CASE DtgAlpha \/ DtgGo \/ DtgBlend(alpha_on)
        <4>1. [dtg' EXCEPT !.control = {}] = [dtg EXCEPT !.control = {}]
          BY <3>1 DEF DtgAlpha, DtgGo, DtgBlend, DtgSet, TypeOK
        <4> QED BY <2>5, <3>1, <4>1 DEF ProgramDcss, DtgAlpha, DtgGo, DtgBlend, Geometry
      <3>2. CASE ~(DtgAlpha \/ DtgGo \/ DtgBlend(alpha_on))
        <4>1. ~Raster
          BY <2>5, <3>2 DEF ProgramDcss, write_dcss_memory_registers, DprGeometry,
             DprRun, ScalerGeometry, ScalerRun, SubSamGeometry, SubSamRun,
             DtgGeometry, DcGoto, DarkUntilGo
        <4>2. dtg'.control = dtg.control
          BY <2>5, <3>2 DEF ProgramDcss, write_dcss_memory_registers, DprGeometry,
             DprRun, ScalerGeometry, ScalerRun, SubSamGeometry, SubSamRun,
             DtgGeometry, TypeOK
        <4> QED BY <4>1, <4>2 DEF Raster
      <3> QED BY <3>1, <3>2
    <2> QED BY <2>1, <2>2, <2>3, <2>4, <2>5 DEF Next, Step
  <1> QED BY <1>1, InvCorrect, PTL DEF Spec, RewiredInTheDark

(* FetchFits needs no more than that each mode's own picture fits, which    *)
(* rows 3 and 4 of vic_table do not: the code never checks it.             *)
THEOREM FetchFitsCorrect ==
  ASSUME \A m \in Modes : (m.h_active * 4) * m.v_active <= FRAME_BUFFER_SIZE
  PROVE  Spec => []FetchFits
  <1>1. IInv => FetchFits
    <2> SUFFICES ASSUME IInv, dpr.run PROVE dpr.pitch * dpr.pix_y <= FRAME_BUFFER_SIZE
      BY DEF FetchFits
    <2>1. /\ hdmi_config \in Modes
          /\ dpr.pitch = hdmi_config.h_active * 4 /\ dpr.pix_y = hdmi_config.v_active
      BY DEF IInv, TypeOK, DprHolds, Past
    <2> QED BY <2>1
  <1> QED BY <1>1, InvCorrect, PTL

=============================================================================
