------------------------------- MODULE KeepAlive -------------------------------
(***************************************************************************)
(* cdn_api_checkalive() of API_general.c: ten looks, a u_delay(1) apart, at *)
(* the counter the firmware moves, and an abort for good (hdmi_tx.c) if it  *)
(* never moved.  Time passes in ticks of the system counter, read as in     *)
(* SystemTimer: one read, for its upper half never changes there.  The      *)
(* firmware moves its counter when it likes, as often as it likes, or never. *)
(***************************************************************************)
EXTENDS Integers

CONSTANTS
    Word,           \* values of the counter's lower half
    CNTCR,          \* what get_ticks() has in its upper half
    UsTicks,        \* tick_frequency / 1000000
    Retries,        \* retries_left at first
    CntValues,      \* values of F_KEEP_ALIVE_CNT (apb_cfg.h)
    MaxPollTicks    \* bound on the ticks between two reads of the PD

ConstantsFit ==
    /\ Word \in Nat \ {0} /\ CNTCR \in Nat
    /\ Retries \in Nat \ {0} /\ UsTicks \in Nat \ {0} /\ MaxPollTicks \in Nat \ {0}
    /\ CntValues \in Nat \ {0}

VARIABLES
    cntcv0, keep_alive,             \* the two counters
    pc, alive, retries_left,        \* cdn_api_checkalive()
    timer_count_init,               \* u_delay()
    unpolled,                       \* history: ticks since the PD's last read
    elapsed, moves                  \* history: ticks and moves since alive was read

history == <<elapsed, moves>>
vars == <<cntcv0, keep_alive, pc, alive, retries_left, timer_count_init, unpolled, history>>

get_ticks == CNTCR * Word + cntcv0

Init ==
    /\ cntcv0 \in 0 .. Word - 1 /\ keep_alive \in 0 .. CntValues - 1
    /\ pc = "idle" /\ alive = 0 /\ retries_left = Retries
    /\ timer_count_init = 0
    /\ unpolled = 0 /\ elapsed = 0 /\ moves = 0

ReadAlive ==
    /\ pc = "idle"
    /\ alive' = keep_alive /\ retries_left' = Retries
    /\ pc' = "loop"
    /\ unpolled' = 0 /\ elapsed' = 0 /\ moves' = 0
    /\ UNCHANGED <<cntcv0, keep_alive, timer_count_init>>

(* The looks never counted.                                                 *)
RetriesAfter_Kept == retries_left
RetriesAfter == retries_left - 1

(* The counter tested after it was taken down.                              *)
GivesUp_Early == retries_left = 1
GivesUp == retries_left = 0

(* while (retries_left--) udelay(1): the delay's first read of the counter. *)
StartDelay ==
    /\ pc = "loop" /\ ~GivesUp
    /\ retries_left' = RetriesAfter
    /\ timer_count_init' = get_ticks
    /\ pc' = "delay"
    /\ unpolled' = 0
    /\ UNCHANGED <<cntcv0, keep_alive, alive, history>>

PollDelay ==
    /\ pc = "delay"
    /\ pc' = IF get_ticks < timer_count_init + UsTicks THEN "delay" ELSE "look"
    /\ unpolled' = 0
    /\ UNCHANGED <<cntcv0, keep_alive, alive, retries_left, timer_count_init, history>>

Moved == keep_alive # alive

Look ==
    /\ pc = "look"
    /\ pc' = IF Moved THEN "ok" ELSE "loop"
    /\ unpolled' = 0
    /\ UNCHANGED <<cntcv0, keep_alive, alive, retries_left, timer_count_init, history>>

(* CDN_BSY: handle_api_status() aborts.                                     *)
Abort ==
    /\ pc = "loop" /\ GivesUp
    /\ pc' = "aborted"
    /\ UNCHANGED <<cntcv0, keep_alive, alive, retries_left, timer_count_init, unpolled, history>>

(* The driver goes on, to the next image's check in the end.                *)
NextImage ==
    /\ pc = "ok"
    /\ pc' = "idle"
    /\ alive' = 0 /\ timer_count_init' = 0 /\ unpolled' = 0
    /\ elapsed' = 0 /\ moves' = 0
    /\ UNCHANGED <<cntcv0, keep_alive, retries_left>>

PD == ReadAlive \/ StartDelay \/ PollDelay \/ Look \/ Abort \/ NextImage

(* The history stops at the last look, and saturates: the ticks at what the *)
(* delays ask for, the moves at a whole turn.                              *)
Checking == pc \in {"delay", "look"} \/ (pc = "loop" /\ retries_left > 0)
Asked == Retries * UsTicks
UpTo(n, top) == IF n < top THEN n + 1 ELSE n

Tick ==
    /\ Checking => unpolled < MaxPollTicks
    /\ cntcv0' = IF cntcv0 = Word - 1 THEN 0 ELSE cntcv0 + 1
    /\ IF Checking
       THEN unpolled' = unpolled + 1 /\ elapsed' = UpTo(elapsed, Asked)
       ELSE UNCHANGED <<unpolled, elapsed>>
    /\ UNCHANGED <<keep_alive, pc, alive, retries_left, timer_count_init, moves>>

FirmwareMoves ==
    /\ keep_alive' = (keep_alive + 1) % CntValues
    /\ moves' = IF Checking THEN UpTo(moves, CntValues) ELSE moves
    /\ UNCHANGED <<cntcv0, pc, alive, retries_left, timer_count_init, unpolled, elapsed>>

Next == PD \/ Tick \/ FirmwareMoves

Spec == Init /\ [][Next]_vars

(* The counter never stops, and a PD that polls is not starved.             *)
FairSpec == Spec /\ WF_vars(Tick) /\ WF_vars(PD)

-----------------------------------------------------------------------------

(* A firmware is given up only if, at the last look, its counter had stood  *)
(* still for as long as all ten delays ask for, or had come round: any      *)
(* number of moves short of a whole turn, however late, saves the driver.   *)
(* (A delay is UsTicks, short of a microsecond where the frequency is not a *)
(* multiple of a megahertz.)                                               *)
GivenUpOnlyIfStill ==
    pc = "aborted" => moves \in {0, CntValues} /\ elapsed >= Asked

(* The longest a check takes: a delay is over at the first read behind its  *)
(* deadline.                                                                *)
Window == Retries * (UsTicks + 3 * MaxPollTicks) + MaxPollTicks

(* A check ends, whatever the firmware does, unless the lower half of the   *)
(* counter wraps within it: get_ticks() then never reaches the deadline.    *)
CheckEnds ==
    (pc = "loop" /\ retries_left = Retries /\ cntcv0 + Window < Word)
        ~> pc \in {"ok", "aborted"}

-----------------------------------------------------------------------------
(* The inductive invariant.  A delay whose deadline lies behind the wrap is *)
(* never over, however long it lasts (Stuck).  Of any other, either as much *)
(* time has gone by as it asks for, or the counter tells how much has.      *)

Looks == Retries - retries_left
InitLow == timer_count_init - CNTCR * Word
Stuck == InitLow + UsTicks >= Word

TypeOK ==
    /\ cntcv0 \in 0 .. Word - 1
    /\ keep_alive \in 0 .. CntValues - 1 /\ alive \in 0 .. CntValues - 1
    /\ pc \in {"idle", "loop", "delay", "look", "ok", "aborted"}
    /\ retries_left \in 0 .. Retries
    /\ timer_count_init \in Nat
    /\ unpolled \in 0 .. MaxPollTicks
    /\ elapsed \in 0 .. Asked /\ moves \in 0 .. CntValues

(* The firmware's counter is ahead of alive by its moves.                   *)
MovesFollow ==
    Checking /\ moves < CntValues => keep_alive \in {alive + moves, alive + moves - CntValues}

Lasted(n) == elapsed >= n * UsTicks

InLoop == pc = "loop" /\ retries_left > 0 => Lasted(Looks)

InDelay ==
    pc = "delay" =>
        /\ InitLow \in 0 .. Word - 1
        /\ retries_left < Retries
        /\ \/ Stuck
           \/ Lasted(Looks)
           \/ /\ cntcv0 - InitLow \in 0 .. UsTicks - 1
              /\ elapsed >= (Looks - 1) * UsTicks + (cntcv0 - InitLow)

InLook == pc = "look" => retries_left < Retries /\ Lasted(Looks)

GivingUp == (pc = "loop" /\ retries_left = 0) \/ pc = "aborted"

StillInv ==
    /\ TypeOK /\ MovesFollow /\ InLoop /\ InDelay /\ InLook
    /\ GivingUp => moves \in {0, CntValues} /\ elapsed >= Asked

=============================================================================
