------------------------------- MODULE ClientPD -------------------------------
(***************************************************************************)
(* The client protection domain: the API of api.c, the buffer operations   *)
(* of frame_buffer.c, and an application that calls the API from init() in *)
(* the orders the examples do: any number of static_image() calls, each    *)
(* followed by reset_static_image(), and then moving_image(), reset_api()  *)
(* or nothing.  write_fb() is not atomic: it resolves the active buffer    *)
(* and erases the old picture in one step and draws the new one in another.*)
(***************************************************************************)
EXTENDS Platform

(* A client step: the client is at pc and no higher-priority PD is ready.   *)
ClientAt(pc) == cpc = pc /\ ClientMayRun

Goto(pc) == cpc' = pc

-----------------------------------------------------------------------------
(* init() and the API calls it makes.                                      *)

InitApi ==
    /\ ClientAt("init_api")
    /\ hd' = "live"
    /\ Goto("init")
    /\ UNCHANGED <<imageVars, dcssVars, poolVars, kernelVars, hwVars>>

(* static_image() and moving_image() up to the pre-write: the application's *)
(* display_config is copied into *hd.                                      *)
StartImage(m) ==
    /\ ClientAt("init")
    /\ mode' = m
    /\ ms_delay' \in BOOLEAN
    /\ drawn' = 0
    /\ Goto("prewrite")
    /\ UNCHANGED <<hd, frame_count, write_fb, fb_addr,
                   dcssVars, poolVars, kernelVars, hwVars>>

StaticImage == StartImage(STATIC_IMAGE)
MovingImage == StartImage(MOVING_IMAGE)

ResetApi ==
    /\ ClientAt("init")
    /\ Goto("reset_api")
    /\ UNCHANGED <<hd, imageVars, dcssVars, poolVars, kernelVars, hwVars>>

ReturnFromInit ==
    /\ ClientAt("init")
    /\ Goto("recv")
    /\ UNCHANGED <<hd, imageVars, dcssVars, poolVars, kernelVars, hwVars>>

-----------------------------------------------------------------------------
(* write_fb(), called to pre-write the first frame ("prewrite") and from    *)
(* notified() ("redraw").                                                  *)

Drawing == {"prewriting", "redrawing"}


(* get_active_frame_buffer_uintN(): the offset word is read at every call.  *)
ActiveFrameBuffer == active

WriteFbBegin ==
    /\ \/ ClientAt("prewrite") /\ Goto("prewriting")
       \/ ClientAt("redraw") /\ Goto("redrawing")
    /\ fb_addr' = ActiveFrameBuffer
    /\ fb' = [fb EXCEPT ![ActiveFrameBuffer] = Torn]
    /\ UNCHANGED <<hd, mode, ms_delay, frame_count, write_fb, drawn,
                   dcssVars, active, cache, ctx_entry, kernelVars, hwVars>>

(* The new picture goes through the pointer resolved before or, as in the   *)
(* moving square, through one resolved again.                              *)
WriteFbEnd ==
    /\ \/ ClientAt("prewriting") /\ Goto("ppcall")
       \/ ClientAt("redrawing") /\ Goto("notify")
    /\ \E b \in {fb_addr, ActiveFrameBuffer} : fb' = [fb EXCEPT ![b] = drawn + 1]
    /\ drawn' = drawn + 1
    /\ write_fb' = (write_fb \/ (cpc = "prewriting" /\ mode = MOVING_IMAGE))
    /\ UNCHANGED <<hd, mode, ms_delay, frame_count, fb_addr,
                   dcssVars, active, cache, ctx_entry, kernelVars, hwVars>>

-----------------------------------------------------------------------------
(* The protected procedure call, and what follows its return.              *)

PpCall ==
    /\ ClientAt("ppcall")
    /\ ppc' = "sent"
    /\ Goto("ppwait")
    /\ UNCHANGED <<hd, imageVars, dcssVars, poolVars,
                   client_pending, dcss_pending, hwVars>>

(* moving_image() starting the loop itself, with a 52 of its own.          *)
PpReturn_KickStart ==
    /\ ClientAt("ppwait") /\ ppc = "replied"
    /\ ppc' = "idle"
    /\ Goto(IF mode = STATIC_IMAGE THEN "ms_delay" ELSE "recv")
    /\ IF mode = STATIC_IMAGE THEN UNCHANGED dcss_pending ELSE NotifyDcss(52)
    /\ UNCHANGED <<hd, imageVars, dcssVars, poolVars, client_pending, hwVars>>

PpReturn ==
    /\ ClientAt("ppwait") /\ ppc = "replied"
    /\ ppc' = "idle"
    /\ Goto(IF mode = STATIC_IMAGE THEN "ms_delay" ELSE "recv")
    /\ UNCHANGED <<hd, imageVars, dcssVars, poolVars,
                   client_pending, dcss_pending, hwVars>>

StaticDelay ==
    /\ ClientAt("ms_delay")
    /\ Goto("reset_static")
    /\ UNCHANGED <<hd, imageVars, dcssVars, poolVars, kernelVars, hwVars>>

-----------------------------------------------------------------------------
(* reset_static_image() and reset_api(): clear the active buffer, then the  *)
(* cache buffer, then notify the dcss PD or free hd.  Both clears are       *)
(* no-ops on a NULL hd.                                                    *)

ClearBuffer(b) == fb' = IF hd = "null" THEN fb ELSE [fb EXCEPT ![b] = Black]

ClearCurrentFrameBuffer ==
    /\ \/ ClientAt("reset_static") /\ Goto("reset_static_cache")
       \/ ClientAt("reset_api") /\ Goto("reset_api_cache")
    /\ ClearBuffer(active)
    /\ UNCHANGED <<hd, imageVars, dcssVars, active, cache, ctx_entry,
                   kernelVars, hwVars>>

ClearCurrentCacheBuffer ==
    /\ \/ ClientAt("reset_static_cache") /\ Goto("reset_static_notify")
       \/ ClientAt("reset_api_cache") /\ Goto("reset_api_free")
    /\ ClearBuffer(cache)
    /\ UNCHANGED <<hd, imageVars, dcssVars, active, cache, ctx_entry,
                   kernelVars, hwVars>>

(* reset_static_image() leaving the display on.                            *)
NotifyReset_Dropped ==
    /\ ClientAt("reset_static_notify")
    /\ Goto("init")
    /\ UNCHANGED <<hd, imageVars, dcssVars, poolVars, kernelVars, hwVars>>

NotifyReset ==
    /\ ClientAt("reset_static_notify")
    /\ NotifyDcss(55)
    /\ Goto("init")
    /\ UNCHANGED <<hd, imageVars, dcssVars, poolVars,
                   client_pending, ppc, hwVars>>

FreeHd ==
    /\ ClientAt("reset_api_free")
    /\ hd' = "freed"
    /\ Goto("recv")
    /\ UNCHANGED <<imageVars, dcssVars, poolVars, kernelVars, hwVars>>

-----------------------------------------------------------------------------
(* The event loop and notified().                                          *)

ClientRecv ==
    /\ ClientAt("recv")
    /\ client_pending # {}
    /\ client_pending' = {}
    /\ Goto("notified")
    /\ UNCHANGED <<hd, imageVars, dcssVars, poolVars, dcss_pending, ppc, hwVars>>

MoreFrames_Inclusive(n) == n <= MAX_FRAME_COUNT
MoreFrames(n) == n < MAX_FRAME_COUNT

Notified52 ==
    /\ ClientAt("notified")
    /\ frame_count' = frame_count + 1
    /\ Goto(IF MoreFrames(frame_count') THEN "redraw" ELSE "reset_api")
    /\ UNCHANGED <<hd, mode, ms_delay, write_fb, fb_addr, drawn,
                   dcssVars, poolVars, kernelVars, hwVars>>

(* The notification skipped after a frame.                                 *)
Notify52_Dropped ==
    /\ ClientAt("notify")
    /\ Goto("recv")
    /\ UNCHANGED <<hd, imageVars, dcssVars, poolVars, kernelVars, hwVars>>

Notify52 ==
    /\ ClientAt("notify")
    /\ NotifyDcss(52)
    /\ Goto("recv")
    /\ UNCHANGED <<hd, imageVars, dcssVars, poolVars, client_pending, ppc, hwVars>>

Client ==
    \/ InitApi \/ StaticImage \/ MovingImage \/ ResetApi \/ ReturnFromInit
    \/ WriteFbBegin \/ WriteFbEnd
    \/ PpCall \/ PpReturn \/ StaticDelay
    \/ ClearCurrentFrameBuffer \/ ClearCurrentCacheBuffer \/ NotifyReset \/ FreeHd
    \/ ClientRecv \/ Notified52 \/ Notify52

=============================================================================
