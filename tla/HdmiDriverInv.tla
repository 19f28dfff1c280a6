---------------------------- MODULE HdmiDriverInv ----------------------------
(***************************************************************************)
(* The inductive invariant of HdmiDriver.  The safety properties are not    *)
(* inductive by themselves: why the client never draws beside the loader   *)
(* depends on where the one 52-notification is, on which PD outranks which *)
(* and on context, active, cache and the DPR advancing together.  IInv     *)
(* says all of that, one named phase of the driver's life after another.   *)
(***************************************************************************)
EXTENDS HdmiDriver

(* The dcss PD is blocked in its event loop and nothing is under way.      *)
DcssIdle == dpc = "recv" /\ batch = {} /\ dcss_pending = {}
Silent == DcssIdle /\ client_pending = {} /\ ppc = "idle"

(* The buffers: the next context to load is the one of the active buffer.  *)
BufferInv ==
    /\ dpc \notin {"init", "set_cache"} => active = EntryOf(context) /\ cache # active
    /\ dpc = "set_cache" => active # EntryOf(context)
    /\ ctxld_enable => dpc = "wait_loaded" /\ db_base = context
    /\ ~write_fb => context = 0

EntriesWritten == ctx_entry = [c \in Contexts |-> EntryOf(c)]

(* A moving image whose last frame waits, in the active buffer, to be       *)
(* loaded, and one whose last frame has been loaded and handed over.       *)
Moving == write_fb /\ mode = MOVING_IMAGE /\ hd = "live" /\ hdmi_config /\ display_on
Waiting == Moving /\ drawn = frame_count + 1 /\ fb[active] = drawn
HandedOver == Moving /\ EntriesWritten /\ dpr_base = cache /\ fb[cache] = drawn
FrameOnDisplay == HandedOver /\ drawn = frame_count + 1

(* Inside run_context_loader().                                            *)
LoaderInv ==
    /\ EntriesWritten /\ batch = {} /\ dcss_pending = {}
    /\ dpc \in {"wait_idle", "program"} => Waiting
    /\ dpc = "wait_loaded" =>
          Waiting /\ (~ctxld_enable => dpr_base = active)
    /\ dpc = "set_active" => Waiting /\ dpr_base = active
    /\ dpc = "set_cache" =>
          /\ Moving /\ drawn = frame_count + 1
          /\ dpr_base = EntryOf(context) /\ fb[dpr_base] = drawn
    /\ dpc \in {"notify", "read_delay", "delay"} => FrameOnDisplay
    /\ client_pending = IF dpc \in {"read_delay", "delay"} THEN {52} ELSE {}

-----------------------------------------------------------------------------
(* The phases.                                                             *)

Booting ==
    /\ cpc = "init_api" /\ hd = "null"
    /\ dpc \in {"init", "recv"} /\ batch = {} /\ dcss_pending = {}
    /\ client_pending = {} /\ ppc = "idle"
    /\ ~display_on /\ ~write_fb /\ frame_count = 0

(* In init(), between two API calls; a reset may be under way.             *)
BetweenCalls ==
    /\ cpc = "init" /\ hd = "live" /\ ~write_fb /\ frame_count = 0
    /\ client_pending = {} /\ ppc = "idle"
    /\ \/ DcssIdle /\ ~display_on
       \/ dpc = "recv" /\ batch = {} /\ dcss_pending = {55}
       \/ dpc = "dispatch" /\ batch = {55} /\ dcss_pending = {}
       \/ dpc = "dispatch" /\ batch = {} /\ dcss_pending = {} /\ ~display_on

Prewriting ==
    /\ cpc \in {"prewrite", "prewriting", "ppcall"}
    /\ hd = "live" /\ frame_count = 0 /\ Silent /\ ~display_on /\ context = 0
    /\ IF cpc = "ppcall"
       THEN drawn = 1 /\ fb[active] = 1 /\ write_fb = (mode = MOVING_IMAGE)
       ELSE drawn = 0 /\ ~write_fb
    /\ cpc = "prewriting" => fb_addr = active

(* The protected call: before, during and after run_context_loader().      *)
CallServed ==
    IF mode = MOVING_IMAGE THEN FrameOnDisplay /\ client_pending = {52}
                           ELSE client_pending = {}
Calling ==
    /\ cpc = "ppwait" /\ hd = "live" /\ frame_count = 0 /\ drawn = 1
    /\ write_fb = (mode = MOVING_IMAGE) /\ batch = {} /\ dcss_pending = {}
    /\ \/ /\ dpc = "recv" /\ ppc = "sent" /\ client_pending = {}
          /\ ~display_on /\ fb[active] = 1 /\ context = 0
       \/ /\ dpc \in {"init_dcss", "init_hdmi", "write_registers", "aborted"}
          /\ ppc = "serving" /\ hdmi_config /\ client_pending = {}
          /\ ~display_on /\ fb[active] = 1 /\ context = 0
       \/ /\ dpc = "init_context_loader"
          /\ ppc = "serving" /\ client_pending = {} /\ Waiting
       \/ /\ dpc \in LoaderPoints /\ LoaderInv
          /\ ppc = "serving" /\ caller = "init_dcss"
       \/ dpc = "reply" /\ ppc = "serving" /\ CallServed
       \/ dpc = "recv" /\ ppc = "replied" /\ CallServed

ShowingStatic ==
    /\ cpc \in {"ms_delay", "reset_static", "reset_static_cache", "reset_static_notify"}
    /\ hd = "live" /\ ~write_fb /\ frame_count = 0 /\ Silent

(* The token at the client, and at the dcss PD.                            *)
DrawingFrame ==
    /\ ClientHolds /\ Silent /\ Moving /\ dpr_base # active /\ EntriesWritten
    /\ cpc # "notify" => fb[cache] = drawn
    /\ cpc = "notify" => fb[active] = drawn
    /\ cpc = "redrawing" => fb_addr = active
    /\ drawn = frame_count + (IF cpc \in {"notified", "notify"} THEN 1 ELSE 0)
    /\ cpc \in {"notified", "notify"} => frame_count < MAX_FRAME_COUNT
    /\ cpc \in {"redraw", "redrawing"} => frame_count \in 1 .. MAX_FRAME_COUNT - 1

LoadingFrame ==
    /\ cpc = "recv" /\ ppc = "idle" /\ EntriesWritten
    /\ \/ /\ dpc = "recv" /\ dcss_pending = {52} /\ batch = {} /\ client_pending = {}
          /\ Waiting
       \/ /\ dpc = "dispatch" /\ dcss_pending = {} /\ batch = {52} /\ client_pending = {}
          /\ Waiting
       \/ /\ dpc \in LoaderPoints /\ LoaderInv /\ caller = "notified"
       \/ /\ dpc \in {"dispatch", "recv"} /\ dcss_pending = {} /\ batch = {}
          /\ client_pending = {52} /\ FrameOnDisplay

Resetting ==
    /\ cpc \in {"reset_api", "reset_api_cache", "reset_api_free"}
    /\ hd = "live" /\ Silent
    /\ IF write_fb
       THEN /\ drawn = MAX_FRAME_COUNT /\ display_on /\ dpr_base = cache
            /\ cpc # "reset_api_free" => fb[cache] = drawn
       ELSE ~display_on

Finished == cpc = "recv" /\ Silent /\ (hd = "freed" \/ (hd = "live" /\ ~write_fb))

Phase ==
    \/ Booting \/ BetweenCalls \/ Prewriting \/ Calling \/ ShowingStatic
    \/ DrawingFrame \/ LoadingFrame \/ Resetting \/ Finished

IInv == TypeOK /\ BufferInv /\ Phase

=============================================================================
