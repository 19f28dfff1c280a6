------------------------------ MODULE HdmiDriver ------------------------------
(***************************************************************************)
(* The driver: the client PD, the dcss PD and the display hardware running *)
(* together, and what makes their double buffering correct.                *)
(***************************************************************************)
EXTENDS ClientPD, DcssPD

Init ==
    /\ cpc = "init_api" /\ hd = "null"
    /\ mode = STATIC_IMAGE /\ ms_delay = FALSE
    /\ frame_count = 0 /\ write_fb = FALSE
    /\ fb_addr = NoBuffer /\ drawn = 0
    /\ dpc = "init" /\ batch = {} /\ caller = "notified"
    /\ hdmi_config = FALSE /\ context = 0
    /\ active = "FRAME_BUFFER_ONE" /\ cache = "FRAME_BUFFER_ONE"
    /\ ctx_entry = [c \in Contexts |-> NoBuffer]
    /\ fb = [b \in FrameBuffers |-> Black]
    /\ client_pending = {} /\ dcss_pending = {} /\ ppc = "idle"
    /\ ctxld_enable = FALSE /\ db_base = 0
    /\ dpr_base = "FRAME_BUFFER_ONE" /\ display_on = FALSE
    /\ scanout = "FRAME_BUFFER_ONE"

Next == Client \/ Dcss \/ Hardware

(* The scheduler runs a ready PD that nothing outranks, and the hardware    *)
(* keeps refreshing and loading.                                           *)
Fairness == WF_vars(Client) /\ WF_vars(Dcss) /\ WF_vars(ContextLoad) /\ WF_vars(RasterFrame)

Spec == Init /\ [][Next]_vars
FairSpec == Spec /\ Fairness

-----------------------------------------------------------------------------
ClientPoints ==
    {"init_api", "init", "prewrite", "prewriting", "ppcall", "ppwait", "ms_delay",
     "reset_static", "reset_static_cache", "reset_static_notify",
     "reset_api", "reset_api_cache", "reset_api_free",
     "recv", "notified", "redraw", "redrawing", "notify"}

LoaderPoints ==
    {"wait_idle", "program", "wait_loaded", "set_active", "set_cache",
     "notify", "read_delay", "delay"}

InitPoints == {"init_dcss", "init_hdmi", "write_registers", "init_context_loader"}

DcssPoints ==
    {"init", "recv", "dispatch", "reply", "aborted"} \union InitPoints \union LoaderPoints

(* Every variable has its type.                                            *)
TypeOK ==
    /\ cpc \in ClientPoints /\ hd \in {"null", "live", "freed"}
    /\ mode \in {STATIC_IMAGE, MOVING_IMAGE} /\ ms_delay \in BOOLEAN
    /\ frame_count \in 0 .. MAX_FRAME_COUNT /\ write_fb \in BOOLEAN
    /\ fb_addr \in FrameBuffers \union {NoBuffer}
    /\ drawn \in 0 .. MAX_FRAME_COUNT
    /\ dpc \in DcssPoints /\ batch \in SUBSET {52, 55}
    /\ caller \in {"notified", "init_dcss"}
    /\ hdmi_config \in BOOLEAN /\ context \in Contexts
    /\ active \in FrameBuffers /\ cache \in FrameBuffers
    /\ ctx_entry \in [Contexts -> FrameBuffers \union {NoBuffer}]
    /\ fb \in [FrameBuffers -> {Torn} \union 0 .. MAX_FRAME_COUNT]
    /\ client_pending \in SUBSET {52} /\ dcss_pending \in SUBSET {52, 55}
    /\ ppc \in {"idle", "sent", "serving", "replied"}
    /\ ctxld_enable \in BOOLEAN /\ db_base \in Contexts
    /\ dpr_base \in FrameBuffers /\ display_on \in BOOLEAN
    /\ scanout \in FrameBuffers

-----------------------------------------------------------------------------
(* Double buffering: write_fb() never draws in the buffer the DPR is        *)
(* programmed to fetch while the display is on.                            *)
NoDrawOnProgrammed ==
    cpc \in Drawing /\ display_on => fb_addr # dpr_base

(* README:3, word for word: the frame being displayed is not the one being  *)
(* written to.                                                             *)
NoDrawOnDisplayed ==
    cpc \in Drawing /\ display_on => fb_addr # scanout

(* One 52 circulates between the PDs: it is pending on one side, or one     *)
(* side is handling it, never two of these; so no signal coalesces with an *)
(* earlier one, and run_context_loader() never runs beside write_fb().     *)
ClientHolds == cpc \in {"notified", "redraw", "redrawing", "notify"}
DcssHolds == \/ 52 \in batch
             \/ dpc \in LoaderPoints \ {"read_delay", "delay"}
             \/ dpc = "init_context_loader"
SingleToken ==
    /\ 52 \in client_pending => ~ClientHolds /\ ~DcssHolds /\ 52 \notin dcss_pending
    /\ 52 \in dcss_pending => ~ClientHolds /\ ~DcssHolds
    /\ ~(ClientHolds /\ DcssHolds)

(* The dcss PD follows its copy of the client's pointer in init_dcss() and, *)
(* after it has notified the client, in run_context_loader(): never once   *)
(* reset_api() has freed the block.                                        *)
NoUseAfterFree ==
    dpc \in {"init_hdmi", "write_registers", "init_context_loader", "read_delay"} =>
        hdmi_config /\ hd = "live"

(* The dcss PD waits for a load only while the raster runs and the selected *)
(* entry has been written; otherwise its polling loop would never end.     *)
LoadCanFinish ==
    ctxld_enable => display_on /\ ctx_entry[db_base] \in FrameBuffers

(* When both PDs are blocked with nothing to receive, no moving image is    *)
(* waiting for its next frame: the loop never loses its notification.      *)
Quiet == ~ClientReady /\ ~DcssReady
NoLostNotification ==
    Quiet => \/ dpc = "aborted"
             \/ hd = "freed"
             \/ cpc = "recv" /\ ~write_fb

(* api.c:20: a moving image displays at most MAX_FRAME_COUNT frames, and    *)
(* when reset_api() takes over, that many have been displayed.             *)
FrameBudget ==
    /\ write_fb => drawn <= MAX_FRAME_COUNT
    /\ write_fb /\ cpc \in {"reset_api", "reset_api_cache"} =>
          drawn = MAX_FRAME_COUNT /\ fb[dpr_base] \in {drawn, Black}

-----------------------------------------------------------------------------
(* The picture the DPR is programmed to fetch.                             *)
shown == IF display_on THEN fb[dpr_base] ELSE Black

Pipeline == INSTANCE FramePipeline WITH MaxFrames <- MAX_FRAME_COUNT

(* The driver implements FramePipeline: frames are displayed whole, in the  *)
(* order they are drawn, and none is drawn before its predecessor is shown.*)
ImplementsPipeline == Pipeline!Spec

-----------------------------------------------------------------------------
(* Every frame write_fb() has finished is displayed, unless init_hdmi()     *)
(* aborts.                                                                 *)
EveryFrameShown ==
    \A n \in 1 .. MAX_FRAME_COUNT :
        cpc \in {"ppcall", "notify"} /\ drawn = n ~> shown = n \/ dpc = "aborted"

(* A protected call returns, unless init_hdmi() aborts.                    *)
CallReturns == cpc = "ppwait" ~> cpc # "ppwait" \/ dpc = "aborted"

(* A moving image ends, with hd freed, unless init_hdmi() aborts.          *)
MovingImageEnds == write_fb ~> hd = "freed" \/ dpc = "aborted"

=============================================================================
