----------------------------- MODULE FirmwareCheck -----------------------------
(***************************************************************************)
(* The check of the firmware (KeepAlive) on the system counter that timer.c  *)
(* reads too: the one counter and what bounds its reads are SystemTimer's,  *)
(* the rest of its state is its own.                                       *)
(***************************************************************************)
EXTENDS SystemTimerInv

CONSTANTS UsTicks, Retries, CntValues
VARIABLES keep_alive, at, alive, retries_left, u_delay_init, unread, elapsed, moves

checkVars == <<keep_alive, at, alive, retries_left, u_delay_init, unread, elapsed, moves>>

Check == INSTANCE KeepAlive
    WITH pc <- at, timer_count_init <- u_delay_init, unpolled <- unread

(* KeepAlive's: only a firmware that stood still, or came round, is given   *)
(* up.                                                                     *)
GivenUpOnlyIfStill == Check!GivenUpOnlyIfStill

=============================================================================
