------------------------------- MODULE Platform -------------------------------
(***************************************************************************)
(* The ground the two protection domains (PDs) of the HDMI driver stand on: *)
(* the state they share, and the parts of Microkit, of seL4 scheduling and *)
(* of the display hardware that their code relies on.                      *)
(*                                                                         *)
(*   - sel4-hdmi.system gives the PDs their priorities and their channels: *)
(*     52 (draw / load), 55 (reset) and the protected procedure 0.         *)
(*   - A notification is one bit per channel: signalling a channel whose   *)
(*     bit is set already changes nothing (signals coalesce).              *)
(*   - The DMA pool holds the two frame buffers, the two context-loader    *)
(*     entries and the two words naming the active and the cache buffer.   *)
(*                                                                         *)
(* A picture is abstracted to a number: Black, the ordinal of the frame    *)
(* write_fb() drew since the current image was started, or Torn while      *)
(* write_fb() has erased the old picture and not finished the new one.     *)
(***************************************************************************)
EXTENDS Integers, FiniteSets

CONSTANTS
    DcssPriority,      \* priority of the dcss PD   (sel4-hdmi.system)
    ClientPriority,    \* priority of the client PD (sel4-hdmi.system)
    MAX_FRAME_COUNT    \* bound of a moving image   (api.c)

(* Nothing else is needed of the numbers: which PD preempts the other, and  *)
(* that a moving image has a last frame.                                   *)
ASSUME PriorityAssumption ==
    /\ DcssPriority \in Nat
    /\ ClientPriority \in Nat
    /\ DcssPriority > ClientPriority
ASSUME FrameCountAssumption == MAX_FRAME_COUNT \in Nat \ {0}

VARIABLES
    \* client PD (api.c, frame_buffer.c, the example)
    cpc,            \* where the client is
    hd,             \* the heap block behind hd: "null", "live" or "freed"
    mode,           \* hd->mode
    ms_delay,       \* hd->ms_delay, as "is a delay asked for?"
    frame_count,    \* number of 52-notifications handled
    write_fb,       \* has moving_image() set the function pointer?
    fb_addr,        \* the buffer the running write_fb() resolved
    drawn,          \* ordinal of the last frame finished (history)
    \* dcss PD (dcss.c, context_loader.c, hdmi_tx.c, dpr.c)
    dpc,            \* where the dcss PD is
    batch,          \* channels of the notification word being dispatched
    caller,         \* who run_context_loader() returns to
    hdmi_config,    \* has the pointer been received?
    context,        \* context_loader.c's context
    \* DMA pool
    active, cache,  \* the buffers the two offset words name
    ctx_entry,      \* the frame buffer each context-loader entry names
    fb,             \* the picture in each frame buffer
    \* kernel objects
    client_pending, dcss_pending,   \* notification words
    ppc,                            \* the call through endpoint 0
    \* display hardware
    ctxld_enable,   \* CTXLD_CTRL_STATUS.ENABLE
    db_base,        \* the entry DB_BASE_ADDR selects
    dpr_base,       \* DPR_1_FRAME_1P_BASE_ADDR_CTRL0
    display_on,     \* RUN_EN of the DPR and TC_GO of the DTG
    scanout         \* the buffer the panel is being refreshed from

imageVars == <<mode, ms_delay, frame_count, write_fb, fb_addr, drawn>>
clientVars == <<cpc, hd, imageVars>>
dcssVars == <<dpc, batch, caller, hdmi_config, context>>
poolVars == <<active, cache, ctx_entry, fb>>
kernelVars == <<client_pending, dcss_pending, ppc>>
hwVars == <<ctxld_enable, db_base, dpr_base, display_on, scanout>>
vars == <<clientVars, dcssVars, poolVars, kernelVars, hwVars>>

-----------------------------------------------------------------------------

FrameBuffers == {"FRAME_BUFFER_ONE", "FRAME_BUFFER_TWO"}
NoBuffer == "unset"
Black == 0
Torn == -1

STATIC_IMAGE == "STATIC_IMAGE"
MOVING_IMAGE == "MOVING_IMAGE"

(* The contexts of context_loader.c, and the buffer each one's entry in the *)
(* DMA pool is given by init_context_loader().                             *)
Contexts == {0, 1}
EntryOf(c) == IF c = 0 THEN "FRAME_BUFFER_ONE" ELSE "FRAME_BUFFER_TWO"

-----------------------------------------------------------------------------
(* Scheduling.  The dcss PD is ready unless it is blocked in its event loop *)
(* with nothing to receive, or has aborted; a polling loop or a delay keeps *)
(* it ready, for seL4_Yield() gives way to equal priorities only.           *)

DcssReady == \/ dpc \notin {"recv", "aborted"}
             \/ dpc = "recv" /\ (dcss_pending # {} \/ ppc = "sent")

ClientReady == \/ cpc \notin {"recv", "ppwait"}
               \/ cpc = "recv" /\ client_pending # {}
               \/ cpc = "ppwait" /\ ppc = "replied"

(* The .system file giving both PDs the same priority.                     *)
ClientMayRun_EqualPriorities == TRUE

ClientMayRun == DcssReady => ClientPriority >= DcssPriority
DcssMayRun == ClientReady => DcssPriority >= ClientPriority

(* microkit_notify(ch) from each side.                                     *)
NotifyClient(ch) == client_pending' = client_pending \union {ch}
NotifyDcss(ch) == dcss_pending' = dcss_pending \union {ch}

-----------------------------------------------------------------------------
(* The hardware.  Once ENABLE is set and the raster runs, the context       *)
(* loader copies the selected entry into the DPR base address and clears    *)
(* ENABLE.  The DPR is programmed with shadow loading (SHADOW_LOAD_EN), so  *)
(* a new base address is used from the next frame of the raster on.         *)

ContextLoad ==
    /\ ctxld_enable /\ display_on
    /\ dpr_base' = ctx_entry[db_base]
    /\ ctxld_enable' = FALSE
    /\ UNCHANGED <<clientVars, dcssVars, poolVars, kernelVars,
                   db_base, display_on, scanout>>

RasterFrame ==
    /\ display_on /\ scanout # dpr_base
    /\ scanout' = dpr_base
    /\ UNCHANGED <<clientVars, dcssVars, poolVars, kernelVars,
                   ctxld_enable, db_base, dpr_base, display_on>>

Hardware == ContextLoad \/ RasterFrame

=============================================================================
