---------------------------- MODULE SystemTimerInv ----------------------------
(***************************************************************************)
(* The inductive invariant of SystemTimer: at each point of the calls, how  *)
(* far the history of the counter and the words that were read of it are   *)
(* apart.  All comparisons are linear in cntcv0, so that a wrap is one case *)
(* among others.                                                           *)
(***************************************************************************)
EXTENDS SystemTimer

Base == CNTCR * Word

(* get_ticks(): what it returns is the constant CNTCR above the low read.   *)
ReadInv ==
    /\ pc \in {"initial_high", "low", "high"} => ret \in Returns
    /\ pc \in {"low", "high"} => initial_high = CNTCR
    /\ pc \in Returns => ret = pc /\ ticks = Base + low

(* Which call the PD is in, and for whom.                                  *)
CallInv ==
    /\ pc = "load" => ret = "start_timer"
    /\ pc # "idle" => frame_delay \in Delays
    /\ pc # "idle" /\ ret \in {"start_timer", "stop_timer"} => in_frame
    /\ pc = "done" => ret \in {"stop_timer", "poll"}

(* start_timer() to stop_timer(): the words differ by the ticks between the *)
(* two reads, up to a wrap.                                                *)
Wraps == {-Word, 0, Word}
LoadInv ==
    /\ pc \in {"high", "start_timer"} /\ ret = "start_timer" =>
          since_start = unpolled /\ low + since_start - cntcv0 \in {0, Word}
    /\ pc = "load" \/ (ret = "stop_timer" /\ pc \in {"initial_high", "low"}) =>
          /\ start_timer_in_use = 1
          /\ start_time_ticks + since_start - cntcv0 \in Wraps
          /\ since_start <= MaxLoadTicks + unpolled
    /\ ret = "stop_timer" /\ pc \in {"high", "stop_timer"} =>
          /\ start_timer_in_use = 1
          /\ since_start - unpolled \in 0 .. MaxLoadTicks + MaxPollTicks
          /\ start_time_ticks + (since_start - unpolled) - low \in Wraps

(* ms_delay(): what is still to be waited for, and what has been.          *)
InMsDelay == pc # "idle" /\ ret \in {"ms_delay", "poll"}
Spent == (frame_delay - delay) * TicksPerMs
InitLow == timer_count_init - Base
DelayInv ==
    /\ InMsDelay => delay \in NO_DELAY .. frame_delay
    /\ InMsDelay /\ in_frame =>
          IF ret = "ms_delay" /\ pc \in {"initial_high", "low"}
          THEN since_start >= Spent \/ since_start = Word
          ELSE since_start >= Spent + since_init \/ since_start = Word
    /\ ret = "ms_delay" /\ pc \in {"high", "ms_delay"} => since_init >= cntcv0 - low
    /\ InMsDelay /\ ret = "poll" =>
          /\ InitLow \in 0 .. Word - 1
          /\ delay_ticks = DelayTicks
          /\ since_init >= cntcv0 - InitLow
          /\ pc \in {"high", "poll"} => since_init >= low - InitLow

TimerInv == TypeOK /\ ReadInv /\ CallInv /\ LoadInv /\ DelayInv /\ NeverEarly /\ FrameLasts

(* The other bound on a delay: up to the wrap the counter tells the time    *)
(* since ms_delay() was called, and while that is so the last low word read *)
(* is no older than the last poll.                                         *)
CounterFollows ==
    /\ ret = "ms_delay" /\ pc \in {"high", "ms_delay"} =>
          /\ since_init <= unpolled
          /\ low + since_init < Word => cntcv0 = low + since_init
    /\ Polling => pc \in {"initial_high", "low", "high", "poll", "done"}
    /\ Polling /\ InitLow + since_init < Word => cntcv0 = InitLow + since_init

PollsFollow ==
    Polling /\ InitLow + Ahead + MaxPollTicks < Word =>
        /\ pc \in {"initial_high", "low"} => since_init <= Ahead + unpolled
        /\ pc \in {"high", "poll", "done"} =>
              /\ since_init <= (low - InitLow) + unpolled
              /\ low - InitLow <= Ahead + MaxPollTicks

OnTimeInv == CounterFollows /\ PollsFollow

=============================================================================
