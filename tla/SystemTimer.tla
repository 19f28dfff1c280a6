------------------------------ MODULE SystemTimer ------------------------------
(***************************************************************************)
(* timer.c, and the two ways the PDs use it: run_context_loader() measures *)
(* a load and waits for what is left of a frame's ms_delay, static_image() *)
(* waits for all of it.                                                    *)
(*                                                                         *)
(* A machine word has Word values (2^32 in the code), so an int lies in     *)
(* -Word/2 .. Word/2 - 1 and a uint64_t in 0 .. Word^2 - 1.  The counter     *)
(* runs while the PD reads it register by register.  get_ticks() takes its  *)
(* upper half from offset 0x00, which is the control register CNTCR; the   *)
(* upper half of the counter, CNTCV1 at offset 0x0C, is never read and has *)
(* no variable here.                                                       *)
(***************************************************************************)
EXTENDS Integers

CONSTANTS
    Word,          \* values of a 32-bit word
    CNTCR,         \* what CNTCR reads back, once started (0x1000b)
    TicksPerMs,    \* tick_frequency / 1000
    Delays,        \* the ms_delay values asked for
    NO_DELAY,      \* hdmi_data.h
    MaxLoadTicks,  \* bound on what is timed: a context load
    MaxPollTicks   \* bound on the ticks between two reads of the counter

ASSUME WordAssumption == Word \in Nat \ {0} /\ Word % 2 = 0
ASSUME CntcrAssumption == CNTCR \in 1 .. Word - 2
ASSUME TicksAssumption == TicksPerMs \in Nat \ {0}
ASSUME FrequencyAssumption == TicksPerMs < Word
ASSUME DelaysAssumption ==
    /\ NO_DELAY = -1
    /\ \A d \in Delays : d \in Int /\ d >= NO_DELAY /\ d * TicksPerMs < Word
ASSUME LoadAssumption == MaxLoadTicks \in Nat /\ MaxLoadTicks + 2 * MaxPollTicks < Word \div 2
ASSUME PollAssumption == MaxPollTicks \in Nat \ {0}

VARIABLES
    cntcv0,             \* the lower half of the counter
    pc, ret,            \* where the PD is; where get_ticks() returns to
    initial_high, low, ticks,           \* get_ticks()
    frame_delay,        \* the caller's hdmi_config->ms_delay
    in_frame,           \* called by run_context_loader(), not static_image()?
    start_time_ticks, start_timer_in_use,  \* start_timer()
    delay, timer_count_init, delay_ticks,  \* ms_delay()
    \* history: ticks since start_timer(), since ms_delay(), since a read
    since_start, since_init, unpolled

timed == <<since_start, since_init, unpolled>>
getTicks == <<initial_high, low, ticks>>
timerUse == <<start_time_ticks, start_timer_in_use>>
msDelay == <<delay, timer_count_init, delay_ticks>>
vars == <<cntcv0, pc, ret, getTicks, frame_delay, in_frame, timerUse,
          msDelay, timed>>

-----------------------------------------------------------------------------
(* C's conversions.                                                        *)

Long == Word * Word
ToLong(n) == n % Long
ToInt(n) == LET m == n % Word IN IF m < Word \div 2 THEN m ELSE m - Word

(* readl().                                                                *)
readl(offset) == IF offset = 0 THEN CNTCR ELSE cntcv0

-----------------------------------------------------------------------------
(* get_ticks(), in its three reads; a caller "calls" it by giving ret.      *)

CallGetTicks(r) == pc' = "initial_high" /\ ret' = r

ReadInitialHigh ==
    /\ pc = "initial_high"
    /\ initial_high' = readl(0)
    /\ pc' = "low"
    /\ UNCHANGED <<cntcv0, ret, low, ticks, frame_delay, in_frame,
                   timerUse, msDelay, timed>>

ReadLow ==
    /\ pc = "low"
    /\ low' = readl(8)
    /\ unpolled' = 0
    /\ since_start' = IF ret = "start_timer" THEN 0 ELSE since_start
    /\ since_init' = IF ret = "ms_delay" THEN 0 ELSE since_init
    /\ pc' = "high"
    /\ UNCHANGED <<cntcv0, ret, initial_high, ticks, frame_delay, in_frame,
                   timerUse, msDelay>>

ReadHigh ==
    /\ pc = "high"
    /\ LET high == readl(0)
       IN ticks' = high * Word + (IF high # initial_high THEN readl(8) ELSE low)
    /\ pc' = ret
    /\ UNCHANGED <<cntcv0, ret, initial_high, low, frame_delay, in_frame,
                   timerUse, msDelay, timed>>

-----------------------------------------------------------------------------
(* The callers, and ms_delay().                                            *)

CallMsDelay(d) == delay' = d /\ CallGetTicks("ms_delay")

RunContextLoader ==
    /\ pc = "idle"
    /\ frame_delay' \in Delays
    /\ in_frame' = TRUE
    /\ CallGetTicks("start_timer")
    /\ UNCHANGED <<cntcv0, getTicks, timerUse, msDelay, timed>>

StaticImageDelay ==
    /\ pc = "idle"
    /\ \E d \in Delays : frame_delay' = d /\ CallMsDelay(d)
    /\ in_frame' = FALSE
    /\ UNCHANGED <<cntcv0, getTicks, timerUse,
                   timer_count_init, delay_ticks, timed>>

StartTimer ==
    /\ pc = "start_timer"
    /\ start_time_ticks' = ToInt(ticks)
    /\ start_timer_in_use' = 1
    /\ pc' = "load"
    /\ UNCHANGED <<cntcv0, ret, getTicks, frame_delay, in_frame, msDelay, timed>>

LoadFinished ==
    /\ pc = "load"
    /\ CallGetTicks("stop_timer")
    /\ UNCHANGED <<cntcv0, getTicks, frame_delay, in_frame, timerUse,
                   msDelay, timed>>

(* The int difference is divided as a uint64_t and returned as an int.      *)
Measured_Long == ToInt(ToLong(ticks - start_time_ticks) \div TicksPerMs)
Measured == ToInt(ToLong(ToInt(ToInt(ticks) - start_time_ticks)) \div TicksPerMs)
TimeInMs == IF start_timer_in_use = 1 THEN Measured ELSE -1

DelayTime_RoundedUp == frame_delay - (TimeInMs + 1)
DelayTime == frame_delay - TimeInMs

StopTimer ==
    /\ pc = "stop_timer"
    /\ IF frame_delay # NO_DELAY /\ DelayTime > 0
       THEN CallMsDelay(DelayTime)
       ELSE pc' = "done" /\ UNCHANGED <<delay, ret>>
    /\ start_timer_in_use' = 0
    /\ UNCHANGED <<cntcv0, getTicks, frame_delay, in_frame, start_time_ticks,
                   timer_count_init, delay_ticks, timed>>

(* delay*(tick_frequency/1000) is a product of uint64_t.                   *)
DelayTicks == ToLong(delay * TicksPerMs)

StartMsDelay ==
    /\ pc = "ms_delay"
    /\ timer_count_init' = ticks
    /\ delay_ticks' = DelayTicks
    /\ CallGetTicks("poll")
    /\ UNCHANGED <<cntcv0, getTicks, frame_delay, in_frame, timerUse,
                   delay, timed>>

(* The sum is a uint64_t: for a negative delay it lies before the start.    *)
Deadline_Wide == timer_count_init + delay_ticks
Deadline == ToLong(timer_count_init + delay_ticks)

StillWaiting_Below == ticks < Deadline - 1
StillWaiting == ticks < Deadline

PollMsDelay ==
    /\ pc = "poll"
    /\ IF StillWaiting THEN CallGetTicks("poll") ELSE pc' = "done" /\ UNCHANGED ret
    /\ UNCHANGED <<cntcv0, getTicks, frame_delay, in_frame, timerUse,
                   msDelay, timed>>

(* Back in the PD's event loop: of timer.c only the static variables live. *)
Return ==
    /\ pc = "done"
    /\ pc' = "idle" /\ ret' = "idle"
    /\ initial_high' = 0 /\ low' = 0 /\ ticks' = 0
    /\ frame_delay' = 0 /\ in_frame' = FALSE
    /\ delay' = 0 /\ timer_count_init' = 0 /\ delay_ticks' = 0
    /\ since_start' = 0 /\ since_init' = 0 /\ unpolled' = 0
    /\ UNCHANGED <<cntcv0, timerUse>>

-----------------------------------------------------------------------------
(* The counter.  A load lasts at most MaxLoadTicks, and a PD that is doing  *)
(* nothing but reading the counter reads it every MaxPollTicks: no ready PD *)
(* outranks it while it waits.  The history variables saturate at Word.     *)

Saturated(n) == IF n < Word THEN n + 1 ELSE n

Tick ==
    /\ pc = "load" => since_start < MaxLoadTicks
    /\ pc \notin {"idle", "load"} => unpolled < MaxPollTicks
    /\ cntcv0' = IF cntcv0 = Word - 1 THEN 0 ELSE cntcv0 + 1
    /\ IF pc = "idle" THEN UNCHANGED timed ELSE
          /\ since_start' = Saturated(since_start)
          /\ since_init' = Saturated(since_init)
          /\ unpolled' = IF pc = "load" THEN 0 ELSE unpolled + 1
    /\ UNCHANGED <<pc, ret, getTicks, frame_delay, in_frame, timerUse, msDelay>>

-----------------------------------------------------------------------------

Init ==
    /\ cntcv0 \in 0 .. Word - 1
    /\ pc = "idle" /\ ret = "idle"
    /\ initial_high = 0 /\ low = 0 /\ ticks = 0
    /\ frame_delay = 0 /\ in_frame = FALSE
    /\ start_time_ticks = 0 /\ start_timer_in_use = 0
    /\ delay = 0 /\ timer_count_init = 0 /\ delay_ticks = 0
    /\ since_start = 0 /\ since_init = 0 /\ unpolled = 0

PD ==
    \/ RunContextLoader \/ StaticImageDelay \/ Return
    \/ ReadInitialHigh \/ ReadLow \/ ReadHigh
    \/ StartTimer \/ LoadFinished \/ StopTimer \/ StartMsDelay \/ PollMsDelay

Next == PD \/ Tick

Spec == Init /\ [][Next]_vars

(* The counter never stops, and a PD in a polling loop is not starved.     *)
FairSpec == Spec /\ WF_vars(Tick) /\ WF_vars(PD)

-----------------------------------------------------------------------------
Returns == {"start_timer", "stop_timer", "ms_delay", "poll"}
Points == {"idle", "load", "done", "initial_high", "low", "high"} \union Returns

(* Every variable has its C type.                                          *)
TypeOK ==
    /\ cntcv0 \in 0 .. Word - 1
    /\ pc \in Points /\ ret \in Returns \union {"idle"}
    /\ initial_high \in {0, CNTCR} /\ low \in 0 .. Word - 1 /\ ticks \in 0 .. Long - 1
    /\ frame_delay \in Int /\ in_frame \in BOOLEAN
    /\ start_time_ticks \in -(Word \div 2) .. Word \div 2 - 1
    /\ start_timer_in_use \in {0, 1}
    /\ delay \in Int /\ timer_count_init \in 0 .. Long - 1 /\ delay_ticks \in 0 .. Long - 1
    /\ since_start \in 0 .. Word /\ since_init \in 0 .. Word
    /\ unpolled \in 0 .. MaxPollTicks

(* In the loop of ms_delay(), or just out of it.                           *)
Polling == ret = "poll"
WaitedFor == Polling /\ pc = "done"

(* ms_delay() never returns before the delay has passed, whatever the      *)
(* counter read when it was called.                                        *)
NeverEarly == WaitedFor => since_init >= delay * TicksPerMs

(* A frame lasts its ms_delay: what stop_timer() measured of the load and   *)
(* what ms_delay() adds never fall short of it together.                   *)
FrameLasts == pc = "done" /\ in_frame => since_start >= frame_delay * TicksPerMs

(* stop_timer() measures the load in full milliseconds even when the int    *)
(* that holds the ticks changes sign or the lower half wraps meanwhile.    *)
MeasuredExactly ==
    pc = "stop_timer" => TimeInMs = (since_start - unpolled) \div TicksPerMs

(* A delay that ends before the lower half of the counter wraps is noticed  *)
(* at the next read, and NO_DELAY does not wait at all.                    *)
Ahead == IF delay > 0 THEN delay * TicksPerMs ELSE 0
BeforeWrap == (timer_count_init % Word) + Ahead + MaxPollTicks < Word
OnTime ==
    Polling /\ BeforeWrap => since_init <= Ahead + 2 * MaxPollTicks

(* ms_delay() returns.                                                     *)
DelayEnds == pc = "ms_delay" ~> pc = "done"

=============================================================================
