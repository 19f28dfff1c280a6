-------------------------------- MODULE DcssPD --------------------------------
(***************************************************************************)
(* The dcss protection domain: the entry points of dcss.c, the double      *)
(* buffering of context_loader.c, and what the register files dpr.c and    *)
(* dtg.c do to the buffer being displayed.  init_hdmi() is one step here,  *)
(* which succeeds or aborts (hdmi_tx.c: handle_api_status()).              *)
(***************************************************************************)
EXTENDS Platform

DcssAt(pc) == dpc = pc /\ DcssMayRun
DcssGoto(pc) == dpc' = pc

-----------------------------------------------------------------------------
(* init(), and Microkit's event loop: the bound notification is looked at   *)
(* before the endpoint, and notified() is called for the channels of the    *)
(* word in ascending order.                                                *)

DcssInit ==
    /\ DcssAt("init")
    /\ active' = "FRAME_BUFFER_ONE"
    /\ cache' = "FRAME_BUFFER_TWO"
    /\ DcssGoto("recv")
    /\ UNCHANGED <<clientVars, batch, caller, hdmi_config, context,
                   ctx_entry, fb, kernelVars, hwVars>>

DcssRecvNotification ==
    /\ DcssAt("recv")
    /\ dcss_pending # {}
    /\ batch' = dcss_pending
    /\ dcss_pending' = {}
    /\ DcssGoto("dispatch")
    /\ UNCHANGED <<clientVars, caller, hdmi_config, context,
                   poolVars, client_pending, ppc, hwVars>>

DispatchLoad ==
    /\ DcssAt("dispatch") /\ 52 \in batch
    /\ batch' = batch \ {52}
    /\ caller' = "notified"
    /\ DcssGoto("wait_idle")
    /\ UNCHANGED <<clientVars, hdmi_config, context, poolVars, kernelVars, hwVars>>

(* reset_dcss(): RUN_EN of the DPR and TC_GO of the DTG are cleared.        *)
DispatchReset ==
    /\ DcssAt("dispatch") /\ 52 \notin batch /\ 55 \in batch
    /\ batch' = batch \ {55}
    /\ display_on' = FALSE
    /\ UNCHANGED <<clientVars, dpc, caller, hdmi_config, context,
                   poolVars, kernelVars, ctxld_enable, db_base, dpr_base, scanout>>

DispatchDone ==
    /\ DcssAt("dispatch") /\ batch = {}
    /\ DcssGoto("recv")
    /\ UNCHANGED <<clientVars, batch, caller, hdmi_config, context,
                   poolVars, kernelVars, hwVars>>

(* protected(): the label carries the client's hd.                         *)
DcssRecvPpc ==
    /\ DcssAt("recv")
    /\ dcss_pending = {} /\ ppc = "sent"
    /\ hdmi_config' = (hd # "null")
    /\ ppc' = "serving"
    /\ DcssGoto(IF hd # "null" THEN "init_dcss" ELSE "reply")
    /\ UNCHANGED <<clientVars, batch, caller, context,
                   poolVars, client_pending, dcss_pending, hwVars>>

DcssReply ==
    /\ DcssAt("reply")
    /\ ppc' = "replied"
    /\ DcssGoto("recv")
    /\ UNCHANGED <<clientVars, batch, caller, hdmi_config, context,
                   poolVars, client_pending, dcss_pending, hwVars>>

-----------------------------------------------------------------------------
(* init_dcss().                                                            *)

(* init_ccm() and reset_dcss().                                            *)
InitCcmAndReset ==
    /\ DcssAt("init_dcss")
    /\ display_on' = FALSE
    /\ DcssGoto("init_hdmi")
    /\ UNCHANGED <<clientVars, batch, caller, hdmi_config, context,
                   poolVars, kernelVars, ctxld_enable, db_base, dpr_base, scanout>>

InitHdmi ==
    /\ DcssAt("init_hdmi")
    /\ \/ DcssGoto("write_registers")
       \/ DcssGoto("aborted")
    /\ UNCHANGED <<clientVars, batch, caller, hdmi_config, context,
                   poolVars, kernelVars, hwVars>>

(* TC_GO never set.                                                        *)
WriteDcssMemoryRegisters_NoGo ==
    /\ DcssAt("write_registers")
    /\ dpr_base' = "FRAME_BUFFER_ONE"
    /\ DcssGoto(IF mode = MOVING_IMAGE THEN "init_context_loader" ELSE "reply")
    /\ UNCHANGED <<clientVars, batch, caller, hdmi_config, context,
                   poolVars, kernelVars, ctxld_enable, db_base, display_on, scanout>>

(* write_dcss_memory_registers(): the DPR is given the first frame buffer   *)
(* and, like the DTG, set running; then hdmi_config->mode decides.         *)
WriteDcssMemoryRegisters ==
    /\ DcssAt("write_registers")
    /\ dpr_base' = "FRAME_BUFFER_ONE"
    /\ display_on' = TRUE
    /\ DcssGoto(IF mode = MOVING_IMAGE THEN "init_context_loader" ELSE "reply")
    /\ UNCHANGED <<clientVars, batch, caller, hdmi_config, context,
                   poolVars, kernelVars, ctxld_enable, db_base, scanout>>

InitContextLoader ==
    /\ DcssAt("init_context_loader")
    /\ ctx_entry' = [c \in Contexts |-> EntryOf(c)]
    /\ caller' = "init_dcss"
    /\ DcssGoto("wait_idle")
    /\ UNCHANGED <<clientVars, batch, hdmi_config, context,
                   active, cache, fb, kernelVars, hwVars>>

-----------------------------------------------------------------------------
(* run_context_loader(), one action per stretch another party could see.    *)

(* Polling for the opposite value.                                         *)
LoaderIdle_Inverted ==
    /\ DcssAt("wait_idle")
    /\ ctxld_enable
    /\ DcssGoto("program")
    /\ UNCHANGED <<clientVars, batch, caller, hdmi_config, context,
                   poolVars, kernelVars, hwVars>>

(* Step 3: poll until ENABLE is clear.                                     *)
LoaderIdle ==
    /\ DcssAt("wait_idle")
    /\ ~ctxld_enable
    /\ DcssGoto("program")
    /\ UNCHANGED <<clientVars, batch, caller, hdmi_config, context,
                   poolVars, kernelVars, hwVars>>

(* Steps 4 and 5: select the entry of the context and set ENABLE.          *)
ProgramLoader ==
    /\ DcssAt("program")
    /\ db_base' = context
    /\ ctxld_enable' = TRUE
    /\ DcssGoto("wait_loaded")
    /\ UNCHANGED <<clientVars, batch, caller, hdmi_config, context,
                   poolVars, kernelVars, dpr_base, display_on, scanout>>

(* Not waiting for the load before handing the buffer out.                 *)
LoaderDone_NoPoll ==
    /\ DcssAt("wait_loaded")
    /\ DcssGoto("set_active")
    /\ UNCHANGED <<clientVars, batch, caller, hdmi_config, context,
                   poolVars, kernelVars, hwVars>>

LoaderDone ==
    /\ DcssAt("wait_loaded")
    /\ ~ctxld_enable
    /\ DcssGoto("set_active")
    /\ UNCHANGED <<clientVars, batch, caller, hdmi_config, context,
                   poolVars, kernelVars, hwVars>>

(* The buffer handed out for drawing is the one the context did not load.  *)
BufferToDraw == IF context = 0 THEN "FRAME_BUFFER_TWO" ELSE "FRAME_BUFFER_ONE"

SetActive ==
    /\ DcssAt("set_active")
    /\ active' = BufferToDraw
    /\ DcssGoto("set_cache")
    /\ UNCHANGED <<clientVars, batch, caller, hdmi_config, context,
                   cache, ctx_entry, fb, kernelVars, hwVars>>

SetCacheAndContext ==
    /\ DcssAt("set_cache")
    /\ cache' = EntryOf(context)
    /\ context' = IF context = 1 THEN 0 ELSE 1
    /\ DcssGoto("notify")
    /\ UNCHANGED <<clientVars, batch, caller, hdmi_config,
                   active, ctx_entry, fb, kernelVars, hwVars>>

NotifyDraw ==
    /\ DcssAt("notify")
    /\ NotifyClient(52)
    /\ DcssGoto("read_delay")
    /\ UNCHANGED <<clientVars, batch, caller, hdmi_config, context,
                   poolVars, dcss_pending, ppc, hwVars>>

Return == DcssGoto(IF caller = "notified" THEN "dispatch" ELSE "reply")

(* After the notification: hdmi_config->ms_delay is read, and what the load *)
(* has left of it is waited for.                                           *)
ReadDelay ==
    /\ DcssAt("read_delay")
    /\ \/ ms_delay /\ DcssGoto("delay")
       \/ Return
    /\ UNCHANGED <<clientVars, batch, caller, hdmi_config, context,
                   poolVars, kernelVars, hwVars>>

FrameDelay ==
    /\ DcssAt("delay")
    /\ Return
    /\ UNCHANGED <<clientVars, batch, caller, hdmi_config, context,
                   poolVars, kernelVars, hwVars>>

Dcss ==
    \/ DcssInit \/ DcssRecvNotification \/ DcssRecvPpc \/ DcssReply
    \/ DispatchLoad \/ DispatchReset \/ DispatchDone
    \/ InitCcmAndReset \/ InitHdmi \/ WriteDcssMemoryRegisters
    \/ InitContextLoader \/ LoaderIdle \/ ProgramLoader \/ LoaderDone
    \/ SetActive \/ SetCacheAndContext \/ NotifyDraw \/ ReadDelay \/ FrameDelay

=============================================================================
