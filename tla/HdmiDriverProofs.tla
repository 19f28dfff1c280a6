--------------------------- MODULE HdmiDriverProofs ---------------------------
EXTENDS HdmiDriverInv, TLAPS

(* The priorities of sel4-hdmi.system: a client step means that the dcss PD *)
(* is blocked, which is what keeps it out of write_fb().                   *)
LEMMA ClientRuns == ClientMayRun => ~DcssReady
  BY PriorityAssumption DEF ClientMayRun

(* The boot state is in the phase Booting.                                 *)
LEMMA InitInv == Init => IInv
  <1> SUFFICES ASSUME Init PROVE IInv OBVIOUS
  <1>1. TypeOK
    <2>1. 0 \in 0 .. MAX_FRAME_COUNT BY FrameCountAssumption
    <2>2. ctx_entry \in [Contexts -> FrameBuffers \union {NoBuffer}] BY DEF Init
    <2>3. fb \in [FrameBuffers -> {Torn} \union 0 .. MAX_FRAME_COUNT] BY <2>1 DEF Init, Black
    <2> QED BY <2>1, <2>2, <2>3 DEF Init, TypeOK, ClientPoints, DcssPoints, FrameBuffers, NoBuffer, Contexts
  <1>2. BufferInv BY DEF Init, BufferInv
  <1>3. Phase BY DEF Init, Phase, Booting
  <1> QED BY <1>1, <1>2, <1>3 DEF IInv

(* The phase is known from where either PD is.                             *)
LEMMA PhaseAt ==
  ASSUME IInv
  PROVE  /\ cpc = "init_api" => Booting
         /\ cpc = "init" => BetweenCalls
         /\ cpc \in {"prewrite", "prewriting", "ppcall"} => Prewriting
         /\ cpc = "ppwait" => Calling
         /\ cpc \in {"ms_delay", "reset_static", "reset_static_cache",
                     "reset_static_notify"} => ShowingStatic
         /\ ClientHolds => DrawingFrame
         /\ cpc = "recv" => LoadingFrame \/ Finished
         /\ cpc \in {"reset_api", "reset_api_cache", "reset_api_free"} => Resetting
         /\ dpc = "init" => Booting
         /\ dpc \in InitPoints \union {"reply", "aborted"} => Calling
         /\ dpc \in LoaderPoints => Calling \/ LoadingFrame
         /\ dpc = "dispatch" => BetweenCalls \/ LoadingFrame
         /\ dcss_pending # {} => BetweenCalls \/ LoadingFrame
         /\ ppc \in {"sent", "serving", "replied"} => Calling
  BY DEF IInv, Phase, Booting, BetweenCalls, Prewriting, Calling, ShowingStatic,
         DrawingFrame, LoadingFrame, Resetting, Finished, ClientHolds, Silent,
         DcssIdle, InitPoints, LoaderPoints

(* Every step of the client PD (api.c, frame_buffer.c) preserves IInv.     *)
LEMMA ClientInv == IInv /\ Client => IInv'
  <1> SUFFICES ASSUME IInv, Client PROVE IInv' OBVIOUS
  <1> USE DEF IInv, ClientAt, Goto,
        imageVars, dcssVars, poolVars, kernelVars, hwVars
  <1>1. CASE InitApi
    <2>1. ~DcssReady BY <1>1, ClientRuns DEF InitApi
    <2>2. Booting
      BY <1>1, PhaseAt DEF InitApi, InitPoints, LoaderPoints
    <2>3. TypeOK'
      BY <1>1, FrameCountAssumption DEF InitApi, TypeOK, FrameBuffers,
         Contexts, ClientPoints, DcssPoints, InitPoints, LoaderPoints
    <2>4. BufferInv'
      BY <1>1, <2>1, <2>2 DEF InitApi, BufferInv, TypeOK, Contexts,
         FrameBuffers, DcssReady, LoaderPoints, EntryOf, Booting
    <2>5. (BetweenCalls)'
      BY <1>1, <2>1, <2>2, FrameCountAssumption DEF InitApi, BufferInv,
         TypeOK, FrameBuffers, Contexts, DcssReady, InitPoints, LoaderPoints,
         Booting, BetweenCalls, DcssIdle
    <2> QED BY <2>3, <2>4, <2>5 DEF IInv, Phase
  <1>2. CASE StaticImage
    <2>1. ~DcssReady BY <1>2, ClientRuns DEF StaticImage, StartImage
    <2>2. BetweenCalls
      BY <1>2, PhaseAt DEF StaticImage, StartImage, InitPoints, LoaderPoints
    <2>3. TypeOK'
      BY <1>2, FrameCountAssumption DEF StaticImage, StartImage,
         STATIC_IMAGE, TypeOK, FrameBuffers, Contexts, ClientPoints,
         DcssPoints, InitPoints, LoaderPoints
    <2>4. BufferInv'
      BY <1>2, <2>1, <2>2 DEF StaticImage, StartImage, STATIC_IMAGE,
         BufferInv, TypeOK, Contexts, FrameBuffers, DcssReady, LoaderPoints,
         EntryOf, BetweenCalls
    <2>5. (Prewriting)'
      BY <1>2, <2>1, <2>2, FrameCountAssumption DEF StaticImage, StartImage,
         STATIC_IMAGE, BufferInv, TypeOK, FrameBuffers, Contexts, DcssReady,
         InitPoints, LoaderPoints, BetweenCalls, Prewriting, Silent, DcssIdle
    <2> QED BY <2>3, <2>4, <2>5 DEF IInv, Phase
  <1>3. CASE MovingImage
    <2>1. ~DcssReady BY <1>3, ClientRuns DEF MovingImage, StartImage
    <2>2. BetweenCalls
      BY <1>3, PhaseAt DEF MovingImage, StartImage, InitPoints, LoaderPoints
    <2>3. TypeOK'
      BY <1>3, FrameCountAssumption DEF MovingImage, StartImage,
         MOVING_IMAGE, TypeOK, FrameBuffers, Contexts, ClientPoints,
         DcssPoints, InitPoints, LoaderPoints
    <2>4. BufferInv'
      BY <1>3, <2>1, <2>2 DEF MovingImage, StartImage, MOVING_IMAGE,
         BufferInv, TypeOK, Contexts, FrameBuffers, DcssReady, LoaderPoints,
         EntryOf, BetweenCalls
    <2>5. (Prewriting)'
      BY <1>3, <2>1, <2>2, FrameCountAssumption DEF MovingImage, StartImage,
         MOVING_IMAGE, BufferInv, TypeOK, FrameBuffers, Contexts, DcssReady,
         InitPoints, LoaderPoints, BetweenCalls, Prewriting, Silent, DcssIdle
    <2> QED BY <2>3, <2>4, <2>5 DEF IInv, Phase
  <1>4. CASE ResetApi
    <2>1. ~DcssReady BY <1>4, ClientRuns DEF ResetApi
    <2>2. BetweenCalls
      BY <1>4, PhaseAt DEF ResetApi, InitPoints, LoaderPoints
    <2>3. TypeOK'
      BY <1>4, FrameCountAssumption DEF ResetApi, TypeOK, FrameBuffers,
         Contexts, ClientPoints, DcssPoints, InitPoints, LoaderPoints
    <2>4. BufferInv'
      BY <1>4, <2>1, <2>2 DEF ResetApi, BufferInv, TypeOK, Contexts,
         FrameBuffers, DcssReady, LoaderPoints, EntryOf, BetweenCalls
    <2>5. (Resetting)'
      BY <1>4, <2>1, <2>2, FrameCountAssumption DEF ResetApi, BufferInv,
         TypeOK, FrameBuffers, Contexts, DcssReady, InitPoints, LoaderPoints,
         BetweenCalls, Resetting, Silent, DcssIdle
    <2> QED BY <2>3, <2>4, <2>5 DEF IInv, Phase
  <1>5. CASE ReturnFromInit
    <2>1. ~DcssReady BY <1>5, ClientRuns DEF ReturnFromInit
    <2>2. BetweenCalls
      BY <1>5, PhaseAt DEF ReturnFromInit, InitPoints, LoaderPoints
    <2>3. TypeOK'
      BY <1>5, FrameCountAssumption DEF ReturnFromInit, TypeOK,
         FrameBuffers, Contexts, ClientPoints, DcssPoints, InitPoints,
         LoaderPoints
    <2>4. BufferInv'
      BY <1>5, <2>1, <2>2 DEF ReturnFromInit, BufferInv, TypeOK, Contexts,
         FrameBuffers, DcssReady, LoaderPoints, EntryOf, BetweenCalls
    <2>5. (Finished)'
      BY <1>5, <2>1, <2>2, FrameCountAssumption DEF ReturnFromInit,
         BufferInv, TypeOK, FrameBuffers, Contexts, DcssReady, InitPoints,
         LoaderPoints, BetweenCalls, Finished, Silent, DcssIdle
    <2> QED BY <2>3, <2>4, <2>5 DEF IInv, Phase
  <1>6. CASE WriteFbBegin
    <2>1. ~DcssReady BY <1>6, ClientRuns DEF WriteFbBegin
    <2>2. Prewriting \/ DrawingFrame
      BY <1>6, PhaseAt DEF WriteFbBegin, InitPoints, LoaderPoints,
         ClientHolds
    <2>3. TypeOK'
      BY <1>6, FrameCountAssumption DEF WriteFbBegin, ActiveFrameBuffer,
         Torn, TypeOK, FrameBuffers, Contexts, ClientPoints, DcssPoints,
         InitPoints, LoaderPoints
    <2>4. BufferInv'
      BY <1>6, <2>1, <2>2 DEF WriteFbBegin, ActiveFrameBuffer, Torn,
         BufferInv, TypeOK, Contexts, FrameBuffers, DcssReady, LoaderPoints,
         EntryOf, Prewriting, DrawingFrame, ClientHolds, Moving
    <2>5. (Prewriting \/ DrawingFrame)'
      BY <1>6, <2>1, <2>2, FrameCountAssumption DEF WriteFbBegin,
         ActiveFrameBuffer, Torn, BufferInv, TypeOK, FrameBuffers, Contexts,
         DcssReady, InitPoints, LoaderPoints, Prewriting, DrawingFrame,
         ClientHolds, Moving, Silent, DcssIdle, EntriesWritten
    <2> QED BY <2>3, <2>4, <2>5 DEF IInv, Phase
  <1>7. CASE WriteFbEnd
    <2>1. ~DcssReady BY <1>7, ClientRuns DEF WriteFbEnd
    <2>2. Prewriting \/ DrawingFrame
      BY <1>7, PhaseAt DEF WriteFbEnd, InitPoints, LoaderPoints, ClientHolds
    <2>3. TypeOK'
      BY <1>7, <2>2, FrameCountAssumption DEF WriteFbEnd, ActiveFrameBuffer,
         TypeOK, FrameBuffers, Contexts, ClientPoints, DcssPoints, InitPoints,
         LoaderPoints, Prewriting, DrawingFrame, ClientHolds, Moving
    <2>4. BufferInv'
      BY <1>7, <2>1, <2>2 DEF WriteFbEnd, ActiveFrameBuffer, BufferInv,
         TypeOK, Contexts, FrameBuffers, DcssReady, LoaderPoints, EntryOf,
         Prewriting, DrawingFrame, ClientHolds, Moving
    <2>5. (Prewriting \/ DrawingFrame)'
      BY <1>7, <2>1, <2>2, FrameCountAssumption DEF WriteFbEnd,
         ActiveFrameBuffer, BufferInv, TypeOK, FrameBuffers, Contexts,
         DcssReady, InitPoints, LoaderPoints, Prewriting, DrawingFrame,
         ClientHolds, Moving, Silent, DcssIdle, EntriesWritten, MOVING_IMAGE,
         STATIC_IMAGE
    <2> QED BY <2>3, <2>4, <2>5 DEF IInv, Phase
  <1>8. CASE PpCall
    <2>1. ~DcssReady BY <1>8, ClientRuns DEF PpCall
    <2>2. Prewriting
      BY <1>8, PhaseAt DEF PpCall, InitPoints, LoaderPoints
    <2>3. TypeOK'
      BY <1>8, FrameCountAssumption DEF PpCall, TypeOK, FrameBuffers,
         Contexts, ClientPoints, DcssPoints, InitPoints, LoaderPoints
    <2>4. BufferInv'
      BY <1>8, <2>1, <2>2 DEF PpCall, BufferInv, TypeOK, Contexts,
         FrameBuffers, DcssReady, LoaderPoints, EntryOf, Prewriting
    <2>5. (Calling)'
      BY <1>8, <2>1, <2>2, FrameCountAssumption DEF PpCall, BufferInv,
         TypeOK, FrameBuffers, Contexts, DcssReady, InitPoints, LoaderPoints,
         Prewriting, Calling, Silent, DcssIdle
    <2> QED BY <2>3, <2>4, <2>5 DEF IInv, Phase
  <1>9. CASE PpReturn
    <2>1. ~DcssReady BY <1>9, ClientRuns DEF PpReturn
    <2>2. Calling
      BY <1>9, PhaseAt DEF PpReturn, InitPoints, LoaderPoints
    <2>3. TypeOK'
      BY <1>9, FrameCountAssumption DEF PpReturn, STATIC_IMAGE,
         MOVING_IMAGE, TypeOK, FrameBuffers, Contexts, ClientPoints,
         DcssPoints, InitPoints, LoaderPoints
    <2>4. BufferInv'
      BY <1>9, <2>1, <2>2 DEF PpReturn, STATIC_IMAGE, MOVING_IMAGE,
         BufferInv, TypeOK, Contexts, FrameBuffers, DcssReady, LoaderPoints,
         EntryOf, Calling, CallServed
    <2>5. (ShowingStatic \/ LoadingFrame)'
      BY <1>9, <2>1, <2>2, FrameCountAssumption DEF PpReturn, STATIC_IMAGE,
         MOVING_IMAGE, BufferInv, TypeOK, FrameBuffers, Contexts, DcssReady,
         InitPoints, LoaderPoints, Calling, CallServed, ShowingStatic,
         LoadingFrame, Silent, DcssIdle, Moving, Waiting, FrameOnDisplay,
         HandedOver, EntriesWritten
    <2> QED BY <2>3, <2>4, <2>5 DEF IInv, Phase
  <1>10. CASE StaticDelay
    <2>1. ~DcssReady BY <1>10, ClientRuns DEF StaticDelay
    <2>2. ShowingStatic
      BY <1>10, PhaseAt DEF StaticDelay, InitPoints, LoaderPoints
    <2>3. TypeOK'
      BY <1>10, FrameCountAssumption DEF StaticDelay, TypeOK, FrameBuffers,
         Contexts, ClientPoints, DcssPoints, InitPoints, LoaderPoints
    <2>4. BufferInv'
      BY <1>10, <2>1, <2>2 DEF StaticDelay, BufferInv, TypeOK, Contexts,
         FrameBuffers, DcssReady, LoaderPoints, EntryOf, ShowingStatic
    <2>5. (ShowingStatic)'
      BY <1>10, <2>1, <2>2, FrameCountAssumption DEF StaticDelay, BufferInv,
         TypeOK, FrameBuffers, Contexts, DcssReady, InitPoints, LoaderPoints,
         ShowingStatic, Silent, DcssIdle
    <2> QED BY <2>3, <2>4, <2>5 DEF IInv, Phase
  <1>11. CASE ClearCurrentFrameBuffer
    <2>1. ~DcssReady BY <1>11, ClientRuns DEF ClearCurrentFrameBuffer
    <2>2. ShowingStatic \/ Resetting
      BY <1>11, PhaseAt DEF ClearCurrentFrameBuffer, InitPoints,
         LoaderPoints
    <2>3. TypeOK'
      BY <1>11, FrameCountAssumption DEF ClearCurrentFrameBuffer,
         ClearBuffer, Black, TypeOK, FrameBuffers, Contexts, ClientPoints,
         DcssPoints, InitPoints, LoaderPoints
    <2>4. BufferInv'
      BY <1>11, <2>1, <2>2 DEF ClearCurrentFrameBuffer, ClearBuffer, Black,
         BufferInv, TypeOK, Contexts, FrameBuffers, DcssReady, LoaderPoints,
         EntryOf, ShowingStatic, Resetting
    <2>5. (ShowingStatic \/ Resetting)'
      BY <1>11, <2>1, <2>2, FrameCountAssumption DEF
         ClearCurrentFrameBuffer, ClearBuffer, Black, BufferInv, TypeOK,
         FrameBuffers, Contexts, DcssReady, InitPoints, LoaderPoints,
         ShowingStatic, Resetting, Silent, DcssIdle
    <2> QED BY <2>3, <2>4, <2>5 DEF IInv, Phase
  <1>12. CASE ClearCurrentCacheBuffer
    <2>1. ~DcssReady BY <1>12, ClientRuns DEF ClearCurrentCacheBuffer
    <2>2. ShowingStatic \/ Resetting
      BY <1>12, PhaseAt DEF ClearCurrentCacheBuffer, InitPoints,
         LoaderPoints
    <2>3. TypeOK'
      BY <1>12, FrameCountAssumption DEF ClearCurrentCacheBuffer,
         ClearBuffer, Black, TypeOK, FrameBuffers, Contexts, ClientPoints,
         DcssPoints, InitPoints, LoaderPoints
    <2>4. BufferInv'
      BY <1>12, <2>1, <2>2 DEF ClearCurrentCacheBuffer, ClearBuffer, Black,
         BufferInv, TypeOK, Contexts, FrameBuffers, DcssReady, LoaderPoints,
         EntryOf, ShowingStatic, Resetting
    <2>5. (ShowingStatic \/ Resetting)'
      BY <1>12, <2>1, <2>2, FrameCountAssumption DEF
         ClearCurrentCacheBuffer, ClearBuffer, Black, BufferInv, TypeOK,
         FrameBuffers, Contexts, DcssReady, InitPoints, LoaderPoints,
         ShowingStatic, Resetting, Silent, DcssIdle
    <2> QED BY <2>3, <2>4, <2>5 DEF IInv, Phase
  <1>13. CASE NotifyReset
    <2>1. ~DcssReady BY <1>13, ClientRuns DEF NotifyReset
    <2>2. ShowingStatic
      BY <1>13, PhaseAt DEF NotifyReset, InitPoints, LoaderPoints
    <2>3. TypeOK'
      BY <1>13, FrameCountAssumption DEF NotifyReset, NotifyDcss, TypeOK,
         FrameBuffers, Contexts, ClientPoints, DcssPoints, InitPoints,
         LoaderPoints
    <2>4. BufferInv'
      BY <1>13, <2>1, <2>2 DEF NotifyReset, NotifyDcss, BufferInv, TypeOK,
         Contexts, FrameBuffers, DcssReady, LoaderPoints, EntryOf,
         ShowingStatic
    <2>5. (BetweenCalls)'
      BY <1>13, <2>1, <2>2, FrameCountAssumption DEF NotifyReset,
         NotifyDcss, BufferInv, TypeOK, FrameBuffers, Contexts, DcssReady,
         InitPoints, LoaderPoints, ShowingStatic, BetweenCalls, Silent,
         DcssIdle
    <2> QED BY <2>3, <2>4, <2>5 DEF IInv, Phase
  <1>14. CASE FreeHd
    <2>1. ~DcssReady BY <1>14, ClientRuns DEF FreeHd
    <2>2. Resetting
      BY <1>14, PhaseAt DEF FreeHd, InitPoints, LoaderPoints
    <2>3. TypeOK'
      BY <1>14, FrameCountAssumption DEF FreeHd, TypeOK, FrameBuffers,
         Contexts, ClientPoints, DcssPoints, InitPoints, LoaderPoints
    <2>4. BufferInv'
      BY <1>14, <2>1, <2>2 DEF FreeHd, BufferInv, TypeOK, Contexts,
         FrameBuffers, DcssReady, LoaderPoints, EntryOf, Resetting
    <2>5. (Finished)'
      BY <1>14, <2>1, <2>2, FrameCountAssumption DEF FreeHd, BufferInv,
         TypeOK, FrameBuffers, Contexts, DcssReady, InitPoints, LoaderPoints,
         Resetting, Finished, Silent, DcssIdle
    <2> QED BY <2>3, <2>4, <2>5 DEF IInv, Phase
  <1>15. CASE ClientRecv
    <2>1. ~DcssReady BY <1>15, ClientRuns DEF ClientRecv
    <2>2. LoadingFrame
      BY <1>15, PhaseAt DEF ClientRecv, InitPoints, LoaderPoints,
         LoadingFrame, Finished, Silent, DcssIdle
    <2>3. TypeOK'
      BY <1>15, FrameCountAssumption DEF ClientRecv, TypeOK, FrameBuffers,
         Contexts, ClientPoints, DcssPoints, InitPoints, LoaderPoints
    <2>4. BufferInv'
      BY <1>15, <2>1, <2>2 DEF ClientRecv, BufferInv, TypeOK, Contexts,
         FrameBuffers, DcssReady, LoaderPoints, EntryOf, LoadingFrame, Finished
    <2>5. (DrawingFrame)'
      BY <1>15, <2>1, <2>2, FrameCountAssumption DEF ClientRecv, BufferInv,
         TypeOK, FrameBuffers, Contexts, DcssReady, InitPoints, LoaderPoints,
         LoadingFrame, Finished, DrawingFrame, ClientHolds, Silent, DcssIdle,
         Moving, Waiting, FrameOnDisplay, HandedOver, EntriesWritten
    <2> QED BY <2>3, <2>4, <2>5 DEF IInv, Phase
  <1>16. CASE Notified52
    <2>1. ~DcssReady BY <1>16, ClientRuns DEF Notified52
    <2>2. DrawingFrame
      BY <1>16, PhaseAt DEF Notified52, InitPoints, LoaderPoints,
         ClientHolds
    <2>3. TypeOK'
      BY <1>16, <2>2, FrameCountAssumption DEF Notified52, MoreFrames,
         TypeOK, FrameBuffers, Contexts, ClientPoints, DcssPoints, InitPoints,
         LoaderPoints, DrawingFrame, ClientHolds
    <2>4. BufferInv'
      BY <1>16, <2>1, <2>2 DEF Notified52, MoreFrames, BufferInv, TypeOK,
         Contexts, FrameBuffers, DcssReady, LoaderPoints, EntryOf,
         DrawingFrame, ClientHolds
    <2>5. (DrawingFrame \/ Resetting)'
      BY <1>16, <2>1, <2>2, FrameCountAssumption DEF Notified52, MoreFrames,
         BufferInv, TypeOK, FrameBuffers, Contexts, DcssReady, InitPoints,
         LoaderPoints, DrawingFrame, ClientHolds, Resetting, Moving, Silent,
         DcssIdle, EntriesWritten
    <2> QED BY <2>3, <2>4, <2>5 DEF IInv, Phase
  <1>17. CASE Notify52
    <2>1. ~DcssReady BY <1>17, ClientRuns DEF Notify52
    <2>2. DrawingFrame
      BY <1>17, PhaseAt DEF Notify52, InitPoints, LoaderPoints, ClientHolds
    <2>3. TypeOK'
      BY <1>17, FrameCountAssumption DEF Notify52, NotifyDcss, TypeOK,
         FrameBuffers, Contexts, ClientPoints, DcssPoints, InitPoints,
         LoaderPoints
    <2>4. BufferInv'
      BY <1>17, <2>1, <2>2 DEF Notify52, NotifyDcss, BufferInv, TypeOK,
         Contexts, FrameBuffers, DcssReady, LoaderPoints, EntryOf,
         DrawingFrame, ClientHolds
    <2>5. (LoadingFrame)'
      BY <1>17, <2>1, <2>2, FrameCountAssumption DEF Notify52, NotifyDcss,
         BufferInv, TypeOK, FrameBuffers, Contexts, DcssReady, InitPoints,
         LoaderPoints, DrawingFrame, ClientHolds, LoadingFrame, Silent,
         DcssIdle, Moving, Waiting, FrameOnDisplay, HandedOver, EntriesWritten
    <2> QED BY <2>3, <2>4, <2>5 DEF IInv, Phase
  <1> QED BY <1>1, <1>2, <1>3, <1>4, <1>5, <1>6, <1>7, <1>8, <1>9, <1>10, <1>11, <1>12, <1>13, <1>14, <1>15, <1>16, <1>17 DEF Client

(* Every step of the dcss PD (dcss.c, context_loader.c) preserves IInv.    *)
LEMMA DcssInv == IInv /\ Dcss => IInv'
  <1> SUFFICES ASSUME IInv, Dcss PROVE IInv' OBVIOUS
  <1> USE DEF IInv, DcssAt, DcssGoto,
        clientVars, imageVars, poolVars, kernelVars, hwVars
  <1>1. CASE DcssInit
    <2>1. Booting
      BY <1>1, PhaseAt DEF DcssInit, InitPoints, LoaderPoints
    <2>2. TypeOK'
      BY <1>1, FrameCountAssumption DEF DcssInit, EntryOf, TypeOK,
         FrameBuffers, Contexts, ClientPoints, DcssPoints, InitPoints,
         LoaderPoints
    <2>3. BufferInv'
      BY <1>1, <2>1 DEF DcssInit, EntryOf, BufferInv, TypeOK, Contexts,
         FrameBuffers, DcssReady, LoaderPoints, Booting
    <2>4. (Booting)'
      BY <1>1, <2>1, FrameCountAssumption DEF DcssInit, EntryOf, BufferInv,
         TypeOK, FrameBuffers, Contexts, InitPoints, LoaderPoints, Booting
    <2> QED BY <2>2, <2>3, <2>4 DEF IInv, Phase
  <1>2. CASE DcssRecvNotification
    <2>1. BetweenCalls \/ LoadingFrame
      BY <1>2, PhaseAt DEF DcssRecvNotification, InitPoints, LoaderPoints
    <2>2. TypeOK'
      BY <1>2, FrameCountAssumption DEF DcssRecvNotification, TypeOK,
         FrameBuffers, Contexts, ClientPoints, DcssPoints, InitPoints,
         LoaderPoints
    <2>3. BufferInv'
      BY <1>2, <2>1 DEF DcssRecvNotification, BufferInv, TypeOK, Contexts,
         FrameBuffers, DcssReady, LoaderPoints, EntryOf, BetweenCalls,
         LoadingFrame
    <2>4. (BetweenCalls \/ LoadingFrame)'
      BY <1>2, <2>1, FrameCountAssumption DEF DcssRecvNotification,
         BufferInv, TypeOK, FrameBuffers, Contexts, InitPoints, LoaderPoints,
         BetweenCalls, LoadingFrame, Moving, Waiting, FrameOnDisplay,
         HandedOver, EntriesWritten, Silent, DcssIdle
    <2> QED BY <2>2, <2>3, <2>4 DEF IInv, Phase
  <1>3. CASE DcssRecvPpc
    <2>1. Calling
      BY <1>3, PhaseAt DEF DcssRecvPpc, InitPoints, LoaderPoints
    <2>2. TypeOK'
      BY <1>3, FrameCountAssumption DEF DcssRecvPpc, TypeOK, FrameBuffers,
         Contexts, ClientPoints, DcssPoints, InitPoints, LoaderPoints
    <2>3. BufferInv'
      BY <1>3, <2>1 DEF DcssRecvPpc, BufferInv, TypeOK, Contexts,
         FrameBuffers, DcssReady, LoaderPoints, EntryOf, Calling
    <2>4. (Calling)'
      BY <1>3, <2>1, FrameCountAssumption DEF DcssRecvPpc, BufferInv,
         TypeOK, FrameBuffers, Contexts, InitPoints, LoaderPoints, Calling,
         Silent, DcssIdle
    <2> QED BY <2>2, <2>3, <2>4 DEF IInv, Phase
  <1>4. CASE DcssReply
    <2>1. Calling
      BY <1>4, PhaseAt DEF DcssReply, InitPoints, LoaderPoints
    <2>2. TypeOK'
      BY <1>4, FrameCountAssumption DEF DcssReply, TypeOK, FrameBuffers,
         Contexts, ClientPoints, DcssPoints, InitPoints, LoaderPoints
    <2>3. BufferInv'
      BY <1>4, <2>1 DEF DcssReply, BufferInv, TypeOK, Contexts,
         FrameBuffers, DcssReady, LoaderPoints, EntryOf, Calling
    <2>4. (Calling)'
      BY <1>4, <2>1, FrameCountAssumption DEF DcssReply, BufferInv, TypeOK,
         FrameBuffers, Contexts, InitPoints, LoaderPoints, Calling, CallServed,
         Moving, Waiting, FrameOnDisplay, HandedOver, EntriesWritten
    <2> QED BY <2>2, <2>3, <2>4 DEF IInv, Phase
  <1>5. CASE DispatchLoad
    <2>1. LoadingFrame
      BY <1>5, PhaseAt DEF DispatchLoad, InitPoints, LoaderPoints,
         BetweenCalls, DcssIdle
    <2>2. TypeOK'
      BY <1>5, FrameCountAssumption DEF DispatchLoad, TypeOK, FrameBuffers,
         Contexts, ClientPoints, DcssPoints, InitPoints, LoaderPoints
    <2>3. BufferInv'
      BY <1>5, <2>1 DEF DispatchLoad, BufferInv, TypeOK, Contexts,
         FrameBuffers, DcssReady, LoaderPoints, EntryOf, LoadingFrame
    <2>4. (LoadingFrame)'
      BY <1>5, <2>1, FrameCountAssumption DEF DispatchLoad, BufferInv,
         TypeOK, FrameBuffers, Contexts, InitPoints, LoaderPoints,
         LoadingFrame, LoaderInv, Moving, Waiting, FrameOnDisplay, HandedOver,
         EntriesWritten
    <2> QED BY <2>2, <2>3, <2>4 DEF IInv, Phase
  <1>6. CASE DispatchReset
    <2>1. BetweenCalls
      BY <1>6, PhaseAt DEF DispatchReset, InitPoints, LoaderPoints,
         LoadingFrame, LoaderInv
    <2>2. TypeOK'
      <3>1. display_on' \in BOOLEAN BY <1>6 DEF DispatchReset
      <3> QED BY <1>6, <3>1 DEF DispatchReset, TypeOK, DcssPoints, InitPoints
    <2>3. BufferInv'
      BY <1>6, <2>1 DEF DispatchReset, BufferInv, TypeOK, Contexts,
         FrameBuffers, DcssReady, LoaderPoints, EntryOf, BetweenCalls
    <2>4. (BetweenCalls)'
      BY <1>6, <2>1, FrameCountAssumption DEF DispatchReset, BufferInv,
         TypeOK, FrameBuffers, Contexts, InitPoints, LoaderPoints,
         BetweenCalls, Silent, DcssIdle
    <2> QED BY <2>2, <2>3, <2>4 DEF IInv, Phase
  <1>7. CASE DispatchDone
    <2>1. BetweenCalls \/ LoadingFrame
      BY <1>7, PhaseAt DEF DispatchDone, InitPoints, LoaderPoints
    <2>2. TypeOK'
      BY <1>7, FrameCountAssumption DEF DispatchDone, TypeOK, FrameBuffers,
         Contexts, ClientPoints, DcssPoints, InitPoints, LoaderPoints
    <2>3. BufferInv'
      BY <1>7, <2>1 DEF DispatchDone, BufferInv, TypeOK, Contexts,
         FrameBuffers, DcssReady, LoaderPoints, EntryOf, BetweenCalls,
         LoadingFrame
    <2>4. (BetweenCalls \/ LoadingFrame)'
      BY <1>7, <2>1, FrameCountAssumption DEF DispatchDone, BufferInv,
         TypeOK, FrameBuffers, Contexts, InitPoints, LoaderPoints,
         BetweenCalls, LoadingFrame, Silent, DcssIdle, Moving, Waiting,
         FrameOnDisplay, HandedOver, EntriesWritten
    <2> QED BY <2>2, <2>3, <2>4 DEF IInv, Phase
  <1>8. CASE InitCcmAndReset
    <2>1. Calling
      BY <1>8, PhaseAt DEF InitCcmAndReset, InitPoints, LoaderPoints
    <2>2. TypeOK'
      <3>1. display_on' \in BOOLEAN BY <1>8 DEF InitCcmAndReset
      <3> QED BY <1>8, <3>1 DEF InitCcmAndReset, TypeOK, DcssPoints, InitPoints
    <2>3. BufferInv'
      BY <1>8, <2>1 DEF InitCcmAndReset, BufferInv, TypeOK, Contexts,
         FrameBuffers, DcssReady, LoaderPoints, EntryOf, Calling
    <2>4. (Calling)'
      BY <1>8, <2>1, FrameCountAssumption DEF InitCcmAndReset, BufferInv,
         TypeOK, FrameBuffers, Contexts, InitPoints, LoaderPoints, Calling
    <2> QED BY <2>2, <2>3, <2>4 DEF IInv, Phase
  <1>9. CASE InitHdmi
    <2>1. Calling
      BY <1>9, PhaseAt DEF InitHdmi, InitPoints, LoaderPoints
    <2>2. TypeOK'
      BY <1>9, FrameCountAssumption DEF InitHdmi, TypeOK, FrameBuffers,
         Contexts, ClientPoints, DcssPoints, InitPoints, LoaderPoints
    <2>3. BufferInv'
      BY <1>9, <2>1 DEF InitHdmi, BufferInv, TypeOK, Contexts, FrameBuffers,
         DcssReady, LoaderPoints, EntryOf, Calling
    <2>4. (Calling)'
      BY <1>9, <2>1, FrameCountAssumption DEF InitHdmi, BufferInv, TypeOK,
         FrameBuffers, Contexts, InitPoints, LoaderPoints, Calling
    <2> QED BY <2>2, <2>3, <2>4 DEF IInv, Phase
  <1>10. CASE WriteDcssMemoryRegisters
    <2>1. Calling
      BY <1>10, PhaseAt DEF WriteDcssMemoryRegisters, InitPoints,
         LoaderPoints
    <2>2. TypeOK'
      BY <1>10, FrameCountAssumption DEF WriteDcssMemoryRegisters,
         MOVING_IMAGE, STATIC_IMAGE, TypeOK, FrameBuffers, Contexts,
         ClientPoints, DcssPoints, InitPoints, LoaderPoints
    <2>3. BufferInv'
      BY <1>10, <2>1 DEF WriteDcssMemoryRegisters, MOVING_IMAGE,
         STATIC_IMAGE, BufferInv, TypeOK, Contexts, FrameBuffers, DcssReady,
         LoaderPoints, EntryOf, Calling
    <2>4. Calling'
      <3>1. /\ cpc' = "ppwait" /\ hd' = "live" /\ frame_count' = 0 /\ drawn' = 1
            /\ batch' = {} /\ dcss_pending' = {} /\ ppc' = "serving"
            /\ client_pending' = {} /\ hdmi_config' /\ display_on'
        BY <1>10, <2>1 DEF WriteDcssMemoryRegisters, Calling, InitPoints, LoaderPoints
      <3>2. (write_fb = (mode = MOVING_IMAGE))' /\ (fb[active] = 1)'
        BY <1>10, <2>1 DEF WriteDcssMemoryRegisters, Calling, LoaderPoints, CallServed
      <3>3. CASE mode = MOVING_IMAGE
        <4>1. dpc' = "init_context_loader" BY <1>10, <3>3 DEF WriteDcssMemoryRegisters
        <4>2. write_fb' /\ mode' = MOVING_IMAGE
          BY <1>10, <3>2, <3>3 DEF WriteDcssMemoryRegisters
        <4>3. Waiting' BY <3>1, <3>2, <4>2 DEF Waiting, Moving
        <4> QED BY <3>1, <3>2, <4>1, <4>3 DEF Calling
      <3>4. CASE mode # MOVING_IMAGE
        <4>1. dpc' = "reply" /\ mode' # MOVING_IMAGE
          BY <1>10, <3>4 DEF WriteDcssMemoryRegisters
        <4> QED BY <3>1, <3>2, <4>1 DEF Calling, CallServed
      <3> QED BY <3>3, <3>4
    <2> QED BY <2>2, <2>3, <2>4 DEF IInv, Phase
  <1>11. CASE InitContextLoader
    <2>1. Calling
      BY <1>11, PhaseAt DEF InitContextLoader, InitPoints, LoaderPoints
    <2>2. TypeOK'
      BY <1>11, FrameCountAssumption DEF InitContextLoader, EntryOf,
         NoBuffer, TypeOK, FrameBuffers, Contexts, ClientPoints, DcssPoints,
         InitPoints, LoaderPoints
    <2>3. BufferInv'
      BY <1>11, <2>1 DEF InitContextLoader, EntryOf, NoBuffer, BufferInv,
         TypeOK, Contexts, FrameBuffers, DcssReady, LoaderPoints, Calling
    <2>4. (Calling)'
      BY <1>11, <2>1, FrameCountAssumption DEF InitContextLoader, EntryOf,
         NoBuffer, BufferInv, TypeOK, FrameBuffers, Contexts, InitPoints,
         LoaderPoints, Calling, LoaderInv, Moving, Waiting, FrameOnDisplay,
         HandedOver, EntriesWritten
    <2> QED BY <2>2, <2>3, <2>4 DEF IInv, Phase
  <1>12. CASE LoaderIdle
    <2>1. Calling \/ LoadingFrame
      BY <1>12, PhaseAt DEF LoaderIdle, InitPoints, LoaderPoints
    <2>2. TypeOK'
      BY <1>12, FrameCountAssumption DEF LoaderIdle, TypeOK, FrameBuffers,
         Contexts, ClientPoints, DcssPoints, InitPoints, LoaderPoints
    <2>3. BufferInv'
      BY <1>12, <2>1 DEF LoaderIdle, BufferInv, TypeOK, Contexts,
         FrameBuffers, DcssReady, LoaderPoints, EntryOf, Calling, LoadingFrame
    <2>4. (Calling \/ LoadingFrame)'
      BY <1>12, <2>1, FrameCountAssumption DEF LoaderIdle, BufferInv,
         TypeOK, FrameBuffers, Contexts, InitPoints, LoaderPoints, Calling,
         LoadingFrame, LoaderInv, Moving, Waiting, FrameOnDisplay, HandedOver,
         EntriesWritten
    <2> QED BY <2>2, <2>3, <2>4 DEF IInv, Phase
  <1>13. CASE ProgramLoader
    <2>1. Calling \/ LoadingFrame
      BY <1>13, PhaseAt DEF ProgramLoader, InitPoints, LoaderPoints
    <2>2. TypeOK'
      BY <1>13, FrameCountAssumption DEF ProgramLoader, TypeOK,
         FrameBuffers, Contexts, ClientPoints, DcssPoints, InitPoints,
         LoaderPoints
    <2>3. BufferInv'
      BY <1>13, <2>1 DEF ProgramLoader, BufferInv, TypeOK, Contexts,
         FrameBuffers, DcssReady, LoaderPoints, EntryOf, Calling, LoadingFrame
    <2>4. (Calling \/ LoadingFrame)'
      BY <1>13, <2>1, FrameCountAssumption DEF ProgramLoader, BufferInv,
         TypeOK, FrameBuffers, Contexts, InitPoints, LoaderPoints, Calling,
         LoadingFrame, LoaderInv, Moving, Waiting, FrameOnDisplay, HandedOver,
         EntriesWritten
    <2> QED BY <2>2, <2>3, <2>4 DEF IInv, Phase
  <1>14. CASE LoaderDone
    <2>1. Calling \/ LoadingFrame
      BY <1>14, PhaseAt DEF LoaderDone, InitPoints, LoaderPoints
    <2>2. TypeOK'
      BY <1>14, FrameCountAssumption DEF LoaderDone, TypeOK, FrameBuffers,
         Contexts, ClientPoints, DcssPoints, InitPoints, LoaderPoints
    <2>3. BufferInv'
      BY <1>14, <2>1 DEF LoaderDone, BufferInv, TypeOK, Contexts,
         FrameBuffers, DcssReady, LoaderPoints, EntryOf, Calling, LoadingFrame
    <2>4. (Calling \/ LoadingFrame)'
      BY <1>14, <2>1, FrameCountAssumption DEF LoaderDone, BufferInv,
         TypeOK, FrameBuffers, Contexts, InitPoints, LoaderPoints, Calling,
         LoadingFrame, LoaderInv, Moving, Waiting, FrameOnDisplay, HandedOver,
         EntriesWritten
    <2> QED BY <2>2, <2>3, <2>4 DEF IInv, Phase
  <1>15. CASE SetActive
    <2>1. Calling \/ LoadingFrame
      BY <1>15, PhaseAt DEF SetActive, InitPoints, LoaderPoints
    <2>2. TypeOK'
      BY <1>15, FrameCountAssumption DEF SetActive, BufferToDraw, TypeOK,
         FrameBuffers, Contexts, ClientPoints, DcssPoints, InitPoints,
         LoaderPoints
    <2>3. BufferInv'
      BY <1>15, <2>1 DEF SetActive, BufferToDraw, BufferInv, TypeOK,
         Contexts, FrameBuffers, DcssReady, LoaderPoints, EntryOf, Calling,
         LoadingFrame
    <2>4. (Calling \/ LoadingFrame)'
      BY <1>15, <2>1, FrameCountAssumption DEF SetActive, BufferToDraw,
         BufferInv, TypeOK, FrameBuffers, Contexts, InitPoints, LoaderPoints,
         Calling, LoadingFrame, LoaderInv, Moving, Waiting, FrameOnDisplay,
         HandedOver, EntriesWritten, EntryOf
    <2> QED BY <2>2, <2>3, <2>4 DEF IInv, Phase
  <1>16. CASE SetCacheAndContext
    <2>1. Calling \/ LoadingFrame
      BY <1>16, PhaseAt DEF SetCacheAndContext, InitPoints, LoaderPoints
    <2>2. TypeOK'
      BY <1>16, FrameCountAssumption DEF SetCacheAndContext, EntryOf,
         TypeOK, FrameBuffers, Contexts, ClientPoints, DcssPoints, InitPoints,
         LoaderPoints
    <2>3. BufferInv'
      BY <1>16, <2>1 DEF SetCacheAndContext, EntryOf, BufferInv, TypeOK,
         Contexts, FrameBuffers, DcssReady, LoaderPoints, Calling,
         LoadingFrame, LoaderInv, Moving
    <2>4. (Calling \/ LoadingFrame)'
      BY <1>16, <2>1, FrameCountAssumption DEF SetCacheAndContext, EntryOf,
         BufferInv, TypeOK, FrameBuffers, Contexts, InitPoints, LoaderPoints,
         Calling, LoadingFrame, LoaderInv, Moving, Waiting, FrameOnDisplay,
         HandedOver, EntriesWritten
    <2> QED BY <2>2, <2>3, <2>4 DEF IInv, Phase
  <1>17. CASE NotifyDraw
    <2>1. Calling \/ LoadingFrame
      BY <1>17, PhaseAt DEF NotifyDraw, InitPoints, LoaderPoints
    <2>2. TypeOK'
      BY <1>17, FrameCountAssumption DEF NotifyDraw, NotifyClient, TypeOK,
         FrameBuffers, Contexts, ClientPoints, DcssPoints, InitPoints,
         LoaderPoints
    <2>3. BufferInv'
      BY <1>17, <2>1 DEF NotifyDraw, NotifyClient, BufferInv, TypeOK,
         Contexts, FrameBuffers, DcssReady, LoaderPoints, EntryOf, Calling,
         LoadingFrame
    <2>4. (Calling \/ LoadingFrame)'
      BY <1>17, <2>1, FrameCountAssumption DEF NotifyDraw, NotifyClient,
         BufferInv, TypeOK, FrameBuffers, Contexts, InitPoints, LoaderPoints,
         Calling, LoadingFrame, LoaderInv, Moving, Waiting, FrameOnDisplay,
         HandedOver, EntriesWritten
    <2> QED BY <2>2, <2>3, <2>4 DEF IInv, Phase
  <1>18. CASE ReadDelay
    <2>1. Calling \/ LoadingFrame
      BY <1>18, PhaseAt DEF ReadDelay, InitPoints, LoaderPoints
    <2>2. TypeOK'
      BY <1>18, FrameCountAssumption DEF ReadDelay, Return, TypeOK,
         FrameBuffers, Contexts, ClientPoints, DcssPoints, InitPoints,
         LoaderPoints
    <2>3. BufferInv'
      BY <1>18, <2>1 DEF ReadDelay, Return, BufferInv, TypeOK, Contexts,
         FrameBuffers, DcssReady, LoaderPoints, EntryOf, Calling, LoadingFrame
    <2>4. (Calling \/ LoadingFrame)'
      BY <1>18, <2>1, FrameCountAssumption DEF ReadDelay, Return, BufferInv,
         TypeOK, FrameBuffers, Contexts, InitPoints, LoaderPoints, Calling,
         LoadingFrame, LoaderInv, Moving, Waiting, FrameOnDisplay, HandedOver,
         EntriesWritten, CallServed
    <2> QED BY <2>2, <2>3, <2>4 DEF IInv, Phase
  <1>19. CASE FrameDelay
    <2>1. Calling \/ LoadingFrame
      BY <1>19, PhaseAt DEF FrameDelay, InitPoints, LoaderPoints
    <2>2. TypeOK'
      BY <1>19, FrameCountAssumption DEF FrameDelay, Return, TypeOK,
         FrameBuffers, Contexts, ClientPoints, DcssPoints, InitPoints,
         LoaderPoints
    <2>3. BufferInv'
      BY <1>19, <2>1 DEF FrameDelay, Return, BufferInv, TypeOK, Contexts,
         FrameBuffers, DcssReady, LoaderPoints, EntryOf, Calling, LoadingFrame
    <2>4. (Calling \/ LoadingFrame)'
      BY <1>19, <2>1, FrameCountAssumption DEF FrameDelay, Return,
         BufferInv, TypeOK, FrameBuffers, Contexts, InitPoints, LoaderPoints,
         Calling, LoadingFrame, LoaderInv, Moving, Waiting, FrameOnDisplay,
         HandedOver, EntriesWritten, CallServed
    <2> QED BY <2>2, <2>3, <2>4 DEF IInv, Phase
  <1> QED BY <1>1, <1>2, <1>3, <1>4, <1>5, <1>6, <1>7, <1>8, <1>9, <1>10, <1>11, <1>12, <1>13, <1>14, <1>15, <1>16, <1>17, <1>18, <1>19 DEF Dcss

(* A load and a raster frame preserve IInv, whenever they happen.          *)
LEMMA HardwareInv == IInv /\ Hardware => IInv'
  <1> SUFFICES ASSUME IInv, Hardware PROVE IInv' OBVIOUS
  <1> USE DEF IInv, clientVars, imageVars, dcssVars, poolVars, kernelVars
  <1>1. CASE ContextLoad
    <2>1. dpc = "wait_loaded" /\ db_base = context /\ (Calling \/ LoadingFrame)
      BY <1>1, PhaseAt DEF ContextLoad, BufferInv, LoaderPoints
    <2>2. LoaderInv
      BY <2>1 DEF Calling, LoadingFrame, InitPoints
    <2>3. ctx_entry[db_base] = active
      BY <2>1, <2>2 DEF LoaderInv, EntriesWritten, BufferInv, TypeOK
    <2>4. TypeOK'
      BY <1>1, <2>3, ZenonT(60) DEF ContextLoad, TypeOK
    <2>5. BufferInv'
      BY <1>1 DEF ContextLoad, BufferInv
    <2>6. LoaderInv'
      BY <1>1, <2>1, <2>2, <2>3 DEF ContextLoad, LoaderInv, EntriesWritten, Waiting, Moving
    <2>7. (Calling \/ LoadingFrame)'
      <3>1. CASE Calling
        <4>1. dpc' \in LoaderPoints /\ cpc' = "ppwait" /\ ppc' = "serving"
          BY <1>1, <2>1, <3>1 DEF ContextLoad, Calling, LoaderPoints, InitPoints
        <4> QED BY <1>1, <2>1, <2>6, <3>1, <4>1 DEF ContextLoad, Calling, LoaderPoints, InitPoints
      <3>2. CASE LoadingFrame
        BY <1>1, <2>1, <2>6, <3>2 DEF ContextLoad, LoadingFrame, LoaderPoints, LoaderInv
      <3> QED BY <2>1, <3>1, <3>2
    <2> QED BY <2>4, <2>5, <2>7 DEF Phase
  <1>2. CASE RasterFrame
    <2>1. TypeOK' BY <1>2 DEF RasterFrame, TypeOK
    <2>2. BufferInv' BY <1>2 DEF RasterFrame, BufferInv
    <2>3. Phase'
      BY <1>2 DEF RasterFrame, Phase, Booting, BetweenCalls, Prewriting, Calling,
         ShowingStatic, DrawingFrame, LoadingFrame, Resetting, Finished, CallServed,
         LoaderInv, FrameOnDisplay, HandedOver, Waiting, Moving, EntriesWritten,
         Silent, DcssIdle, ClientHolds
    <2> QED BY <2>1, <2>2, <2>3
  <1> QED BY <1>1, <1>2 DEF Hardware

(* IInv is an invariant of the driver: it holds initially, and each PD's    *)
(* and the hardware's steps preserve it.                                   *)
THEOREM Invariance == Spec => []IInv
  <1>1. IInv /\ UNCHANGED vars => IInv'
    BY DEF vars, clientVars, imageVars, dcssVars, poolVars, kernelVars, hwVars,
       IInv, TypeOK, BufferInv, Phase, Booting, BetweenCalls, Prewriting, Calling,
       ShowingStatic, DrawingFrame, LoadingFrame, Resetting, Finished, CallServed,
       LoaderInv, FrameOnDisplay, HandedOver, Waiting, Moving, EntriesWritten,
       Silent, DcssIdle, ClientHolds
  <1>2. IInv /\ [Next]_vars => IInv'
    BY <1>1, ClientInv, DcssInv, HardwareInv DEF Next
  <1> QED BY InitInv, <1>2, PTL DEF Spec

(* Type correctness; that frame_count and drawn never pass MAX_FRAME_COUNT  *)
(* is the part a wrong comparison in notified() would break.               *)
THEOREM TypeCorrectness == Spec => []TypeOK
  <1>1. IInv => TypeOK BY DEF IInv
  <1> QED BY Invariance, <1>1, PTL

(* write_fb() never draws in the buffer the DPR is programmed to fetch.     *)
THEOREM DoubleBuffering == Spec => []NoDrawOnProgrammed
  <1>1. IInv => NoDrawOnProgrammed
    <2> SUFFICES ASSUME IInv, cpc \in Drawing, display_on PROVE fb_addr # dpr_base
      BY DEF NoDrawOnProgrammed
    <2>1. Prewriting \/ DrawingFrame BY PhaseAt DEF Drawing, ClientHolds
    <2>2. CASE Prewriting BY <2>2 DEF Prewriting
    <2>3. CASE DrawingFrame
      BY <2>3 DEF DrawingFrame, ClientHolds, Drawing
    <2> QED BY <2>1, <2>2, <2>3
  <1> QED BY Invariance, <1>1, PTL

(* One 52-notification circulates.                                         *)
THEOREM TokenUniqueness == Spec => []SingleToken
  <1>1. IInv => SingleToken
    <2> SUFFICES ASSUME IInv PROVE SingleToken OBVIOUS
    <2> USE DEF SingleToken, ClientHolds, DcssHolds
    <2>1. CASE Booting BY <2>1 DEF Booting, LoaderPoints
    <2>2. CASE BetweenCalls BY <2>2 DEF BetweenCalls, DcssIdle, LoaderPoints
    <2>3. CASE Prewriting \/ ShowingStatic \/ Resetting \/ Finished
      BY <2>3 DEF Prewriting, ShowingStatic, Resetting, Finished, Silent, DcssIdle,
         LoaderPoints
    <2>4. CASE DrawingFrame BY <2>4 DEF DrawingFrame, Silent, DcssIdle, LoaderPoints
    <2>5. CASE Calling BY <2>5 DEF Calling, LoaderInv, LoaderPoints, CallServed
    <2>6. CASE LoadingFrame BY <2>6 DEF LoadingFrame, LoaderInv, LoaderPoints
    <2> QED BY <2>1, <2>2, <2>3, <2>4, <2>5, <2>6 DEF IInv, Phase
  <1> QED BY Invariance, <1>1, PTL

(* The dcss PD never follows a NULL or freed hd.                           *)
THEOREM HeapSafety == Spec => []NoUseAfterFree
  <1>1. IInv => NoUseAfterFree
    <2> SUFFICES ASSUME IInv,
                        dpc \in {"init_hdmi", "write_registers",
                                 "init_context_loader", "read_delay"}
                 PROVE  hdmi_config /\ hd = "live"
      BY DEF NoUseAfterFree
    <2>1. Calling \/ LoadingFrame BY PhaseAt DEF InitPoints, LoaderPoints
    <2> QED
      BY <2>1 DEF Calling, LoadingFrame, LoaderInv, LoaderPoints, Waiting,
         FrameOnDisplay, HandedOver, Moving
  <1> QED BY Invariance, <1>1, PTL

(* A started load has a running raster and a written entry to finish with.  *)
THEOREM LoadsFinish == Spec => []LoadCanFinish
  <1>1. IInv => LoadCanFinish
    <2> SUFFICES ASSUME IInv, ctxld_enable
                 PROVE  display_on /\ ctx_entry[db_base] \in FrameBuffers
      BY DEF LoadCanFinish
    <2>1. dpc = "wait_loaded" /\ db_base \in Contexts
      BY DEF IInv, BufferInv, TypeOK
    <2>2. LoaderInv
      BY <2>1, PhaseAt DEF Calling, LoadingFrame, LoaderPoints, InitPoints
    <2> QED
      BY <2>1, <2>2 DEF LoaderInv, EntriesWritten, Waiting, Moving, EntryOf, FrameBuffers
  <1> QED BY Invariance, <1>1, PTL

(* The loop of a moving image never loses its notification.                *)
THEOREM NotificationKept == Spec => []NoLostNotification
  <1>1. IInv => NoLostNotification
    <2> SUFFICES ASSUME IInv, Quiet, dpc # "aborted", hd # "freed"
                 PROVE  cpc = "recv" /\ ~write_fb
      BY DEF NoLostNotification
    <2>1. /\ cpc \in {"recv", "ppwait"} /\ dpc = "recv"
          /\ dcss_pending = {} /\ ppc # "sent"
          /\ cpc = "recv" => client_pending = {}
          /\ cpc = "ppwait" => ppc # "replied"
      BY DEF Quiet, ClientReady, DcssReady
    <2>2. cpc = "recv"
      BY <2>1, PhaseAt DEF Calling, InitPoints, LoaderPoints
    <2> QED
      BY <2>1, <2>2, PhaseAt DEF LoadingFrame, Finished, LoaderPoints
  <1> QED BY Invariance, <1>1, PTL

(* A moving image has MAX_FRAME_COUNT frames, and the last is displayed     *)
(* before reset_api() clears the buffers.                                  *)
THEOREM FrameCount == Spec => []FrameBudget
  <1>1. IInv => FrameBudget
    <2> SUFFICES ASSUME IInv PROVE FrameBudget OBVIOUS
    <2>1. drawn <= MAX_FRAME_COUNT BY FrameCountAssumption DEF IInv, TypeOK
    <2>2. ASSUME write_fb, cpc \in {"reset_api", "reset_api_cache"}
          PROVE  drawn = MAX_FRAME_COUNT /\ fb[dpr_base] \in {drawn, Black}
      BY <2>2, PhaseAt DEF Resetting
    <2> QED BY <2>1, <2>2 DEF FrameBudget
  <1> QED BY Invariance, <1>1, PTL

-----------------------------------------------------------------------------
(* The refinement: what each step does to the pair <<drawn, shown>>.        *)
LEMMA ClientSimulates ==
  IInv /\ Client => Pipeline!Next \/ UNCHANGED <<drawn, shown>>
  <1> SUFFICES ASSUME IInv, Client
               PROVE  Pipeline!Next \/ UNCHANGED <<drawn, shown>>
    OBVIOUS
  <1> USE DEF IInv, ClientAt, Goto, shown,
        imageVars, dcssVars, poolVars, kernelVars, hwVars
  <1>1. CASE StaticImage \/ MovingImage
    <2>1. BetweenCalls /\ ~DcssReady
      BY <1>1, PhaseAt, ClientRuns DEF StaticImage, MovingImage, StartImage
    <2>2. ~display_on BY <2>1 DEF BetweenCalls, DcssIdle, DcssReady
    <2> QED
      BY <1>1, <2>2 DEF StaticImage, MovingImage, StartImage, Pipeline!Next,
         Pipeline!NewImage, Black
  <1>2. CASE WriteFbBegin
    <2>1. Prewriting \/ DrawingFrame
      BY <1>2, PhaseAt DEF WriteFbBegin, ClientHolds
    <2>2. display_on => dpr_base # active
      BY <2>1 DEF Prewriting, DrawingFrame
    <2> QED
      BY <1>2, <2>2 DEF WriteFbBegin, ActiveFrameBuffer, TypeOK
  <1>3. CASE WriteFbEnd
    <2>1. Prewriting \/ DrawingFrame
      BY <1>3, PhaseAt DEF WriteFbEnd, ClientHolds
    <2>2. fb_addr = active /\ (display_on => dpr_base # active)
      BY <1>3, <2>1 DEF WriteFbEnd, Prewriting, DrawingFrame, ClientHolds
    <2>3. drawn < MAX_FRAME_COUNT /\ shown \in {0, drawn}
      <3>1. CASE Prewriting
        BY <1>3, <3>1, FrameCountAssumption DEF WriteFbEnd, Prewriting, Black
      <3>2. CASE DrawingFrame
        <4>1. cpc = "redrawing"
          BY <1>3, <3>2 DEF WriteFbEnd, DrawingFrame, ClientHolds
        <4>2. dpr_base = cache
          BY <3>2 DEF DrawingFrame, Silent, DcssIdle, BufferInv, TypeOK, FrameBuffers
        <4> QED
          BY <3>2, <4>1, <4>2, FrameCountAssumption DEF DrawingFrame, Moving
      <3> QED BY <2>1, <3>1, <3>2
    <2>4. drawn' = drawn + 1 /\ shown' = shown
      BY <1>3, <2>2 DEF WriteFbEnd, ActiveFrameBuffer, TypeOK
    <2> QED BY <2>3, <2>4 DEF Pipeline!Next, Pipeline!Finish
  <1>4. CASE ClearCurrentFrameBuffer \/ ClearCurrentCacheBuffer
    BY <1>4 DEF ClearCurrentFrameBuffer, ClearCurrentCacheBuffer, ClearBuffer,
       TypeOK, Black, Pipeline!Next, Pipeline!Blank
  <1>5. CASE \/ InitApi \/ ResetApi \/ ReturnFromInit \/ PpCall \/ PpReturn
             \/ StaticDelay \/ NotifyReset \/ FreeHd \/ ClientRecv
             \/ Notified52 \/ Notify52
    BY <1>5 DEF InitApi, ResetApi, ReturnFromInit, PpCall, PpReturn, StaticDelay,
       NotifyReset, FreeHd, ClientRecv, Notified52, Notify52
  <1> QED BY <1>1, <1>2, <1>3, <1>4, <1>5 DEF Client

(* Of the dcss PD only the register writes and the reset change what is    *)
(* shown: the first frame of an image, or black.                           *)
LEMMA DcssSimulates ==
  IInv /\ Dcss => Pipeline!Next \/ UNCHANGED <<drawn, shown>>
  <1> SUFFICES ASSUME IInv, Dcss
               PROVE  Pipeline!Next \/ UNCHANGED <<drawn, shown>>
    OBVIOUS
  <1> USE DEF IInv, DcssAt, DcssGoto, shown,
        clientVars, imageVars, poolVars, kernelVars, hwVars
  <1>1. CASE DispatchReset \/ InitCcmAndReset
    <2>1. ~display_on' /\ UNCHANGED drawn BY <1>1 DEF DispatchReset, InitCcmAndReset
    <2> QED BY <2>1 DEF Pipeline!Next, Pipeline!Blank, Black
  <1>2. CASE WriteDcssMemoryRegisters
    <2>1. Calling BY <1>2, PhaseAt DEF WriteDcssMemoryRegisters, InitPoints
    <2>2. fb["FRAME_BUFFER_ONE"] = drawn
      BY <1>2, <2>1 DEF WriteDcssMemoryRegisters, Calling, LoaderPoints, BufferInv,
         EntryOf
    <2>3. shown' = fb["FRAME_BUFFER_ONE"] /\ UNCHANGED drawn
      BY <1>2 DEF WriteDcssMemoryRegisters
    <2> QED BY <2>2, <2>3 DEF Pipeline!Next, Pipeline!Show
  <1>3. CASE \/ DcssInit \/ DcssRecvNotification \/ DcssRecvPpc \/ DcssReply
             \/ DispatchLoad \/ DispatchDone \/ InitHdmi \/ InitContextLoader
             \/ LoaderIdle \/ ProgramLoader \/ LoaderDone \/ SetActive
             \/ SetCacheAndContext \/ NotifyDraw \/ ReadDelay \/ FrameDelay
    BY <1>3 DEF DcssInit, DcssRecvNotification, DcssRecvPpc, DcssReply,
       DispatchLoad, DispatchDone, InitHdmi, InitContextLoader, LoaderIdle,
       ProgramLoader, LoaderDone, SetActive, SetCacheAndContext, NotifyDraw,
       ReadDelay, FrameDelay
  <1> QED BY <1>1, <1>2, <1>3 DEF Dcss

(* A finished load is Show; a raster frame changes nothing abstract.       *)
LEMMA HardwareSimulates ==
  IInv /\ Hardware => Pipeline!Next \/ UNCHANGED <<drawn, shown>>
  <1> SUFFICES ASSUME IInv, Hardware
               PROVE  Pipeline!Next \/ UNCHANGED <<drawn, shown>>
    OBVIOUS
  <1> USE DEF IInv, shown, clientVars, imageVars, dcssVars, poolVars, kernelVars
  <1>1. CASE ContextLoad
    <2>1. dpc = "wait_loaded" /\ db_base = context /\ (Calling \/ LoadingFrame)
      BY <1>1, PhaseAt DEF ContextLoad, BufferInv, LoaderPoints
    <2>2. LoaderInv BY <2>1 DEF Calling, LoadingFrame, InitPoints
    <2>3. ctx_entry[db_base] = active /\ fb[active] = drawn
      BY <2>1, <2>2 DEF LoaderInv, EntriesWritten, BufferInv, TypeOK, Waiting
    <2>4. shown' = drawn /\ UNCHANGED drawn BY <1>1, <2>3 DEF ContextLoad
    <2> QED BY <2>4 DEF Pipeline!Next, Pipeline!Show
  <1>2. CASE RasterFrame BY <1>2 DEF RasterFrame
  <1> QED BY <1>1, <1>2 DEF Hardware

(* The driver implements FramePipeline: the display advances frame by       *)
(* frame, in the order they were drawn and without skipping one, and never *)
(* shows one half drawn.                                                   *)
THEOREM Refinement == Spec => ImplementsPipeline
  <1>1. Init => Pipeline!Init BY DEF Init, Pipeline!Init, shown, Black
  <1>2. IInv /\ [Next]_vars => [Pipeline!Next]_<<drawn, shown>>
    <2>1. UNCHANGED vars => UNCHANGED <<drawn, shown>>
      BY DEF vars, clientVars, imageVars, poolVars, hwVars, shown
    <2> QED
      BY <2>1, ClientSimulates, DcssSimulates, HardwareSimulates DEF Next
  <1> QED BY Invariance, <1>1, <1>2, PTL DEF Spec, ImplementsPipeline, Pipeline!Spec

=============================================================================
