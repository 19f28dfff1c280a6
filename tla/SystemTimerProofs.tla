--------------------------- MODULE SystemTimerProofs ---------------------------
(***************************************************************************)
(* ms_delay() and the frame time, for every word size, tick frequency and   *)
(* set of delays: the arithmetic of C's conversions first, then one lemma  *)
(* per group of actions.                                                   *)
(***************************************************************************)
EXTENDS FirmwareCheck, TLAPS

-----------------------------------------------------------------------------
(* What \div and % return, for divisors that are no literals.               *)

(* Quotient and remainder are unique.                                      *)
LEMMA QuotientUnique ==
  ASSUME NEW m \in Nat \ {0}, NEW q \in Int, NEW r \in 0 .. m - 1,
         NEW p \in Int, NEW s \in 0 .. m - 1, m * q + r = m * p + s
  PROVE  q = p /\ r = s
  <1>1. m * (q - p) = s - r OBVIOUS
  <1>2. CASE q > p
    <2>1. m * (q - p) >= m BY <1>2
    <2> QED BY <1>1, <2>1
  <1>3. CASE q < p
    <2>1. m * (q - p) <= -m BY <1>3
    <2> QED BY <1>1, <2>1
  <1>4. CASE q = p BY <1>4, <1>1
  <1> QED BY <1>2, <1>3, <1>4

(* What the operators \div and % return.                                   *)
LEMMA DivMod ==
  ASSUME NEW m \in Nat \ {0}, NEW n \in Int
  PROVE  /\ n \div m \in Int /\ n % m \in 0 .. m - 1
         /\ n = m * (n \div m) + (n % m)
  OBVIOUS

(* A number written as a multiple of m and a rest has that rest for remainder. *)
LEMMA RemainderOf ==
  ASSUME NEW m \in Nat \ {0}, NEW q \in Int, NEW r \in 0 .. m - 1
  PROVE  (m * q + r) % m = r
  <1> DEFINE n == m * q + r
  <1>1. n \in Int OBVIOUS
  <1>2. n \div m \in Int /\ n % m \in 0 .. m - 1 /\ n = m * (n \div m) + (n % m)
    BY <1>1, DivMod
  <1>3. m * q + r = m * (n \div m) + (n % m) BY <1>2
  <1> HIDE DEF n
  <1>4. n % m = r BY <1>2, <1>3, QuotientUnique
  <1> QED BY <1>4 DEF n

(* The quotient of a natural number is one, and no larger.                 *)
LEMMA QuotientBounds ==
  ASSUME NEW m \in Nat \ {0}, NEW n \in Nat
  PROVE  n \div m \in 0 .. n /\ (n \div m) * m <= n
  <1> DEFINE q == n \div m
  <1>1. q \in Int /\ n % m \in 0 .. m - 1 /\ n = m * q + (n % m) BY DivMod
  <1> HIDE DEF q
  <1>2. q >= 0
    <2>1. CASE q < 0
      <3>1. m * q <= -m BY <1>1, <2>1
      <3> QED BY <1>1, <3>1
    <2> QED BY <1>1, <2>1
  <1>3. m * q <= n BY <1>1
  <1>4. q <= m * q BY <1>1, <1>2
  <1> QED BY <1>1, <1>2, <1>3, <1>4 DEF q

-----------------------------------------------------------------------------
(* C's conversions.                                                        *)

(* The half word of the int range is an integer.                           *)
LEMMA HalfWord ==
  /\ Word \in Nat \ {0} /\ Word \div 2 \in Nat /\ Word = 2 * (Word \div 2)
  /\ Long \in Nat \ {0} /\ Word <= Long
  <1>1. Word \in Nat \ {0} /\ Word % 2 = 0 BY WordAssumption
  <1>2. Word \div 2 \in Int /\ Word = 2 * (Word \div 2) + (Word % 2) BY <1>1, DivMod
  <1>3. Word * Word \in Nat \ {0} /\ Word <= Word * Word BY <1>1
  <1> QED BY <1>1, <1>2, <1>3 DEF Long

(* An int holds its value modulo Word.                                     *)
LEMMA IntRange ==
  ASSUME NEW n \in Int
  PROVE  /\ ToInt(n) \in -(Word \div 2) .. Word \div 2 - 1
         /\ ToInt(n) \in {n % Word, (n % Word) - Word}
         /\ n % Word \in 0 .. Word - 1
  <1>1. n % Word \in 0 .. Word - 1 BY HalfWord, DivMod
  <1> QED BY <1>1, HalfWord DEF ToInt

(* A number below half a word survives the conversion to int.              *)
LEMMA IntOf ==
  ASSUME NEW n \in 0 .. Word \div 2 - 1, NEW k \in Int
  PROVE  ToInt(Word * k + n) = n
  <1>1. n \in 0 .. Word - 1 BY HalfWord
  <1>2. (Word * k + n) % Word = n BY <1>1, HalfWord, RemainderOf
  <1> QED BY <1>2, HalfWord DEF ToInt

(* An unsigned 64-bit value is one of Long values...                        *)
LEMMA LongRange ==
  ASSUME NEW n \in Int
  PROVE  ToLong(n) \in 0 .. Long - 1
  BY HalfWord, DivMod DEF ToLong

(* ... and those are kept as they are.                                     *)
LEMMA LongOf ==
  ASSUME NEW n \in 0 .. Long - 1
  PROVE  ToLong(n) = n
  <1>1. (Long * 0 + n) % Long = n BY HalfWord, RemainderOf
  <1>2. Long * 0 + n = n BY HalfWord
  <1> QED BY <1>1, <1>2 DEF ToLong

(* The upper half get_ticks() takes from CNTCR leaves room above it.       *)
LEMMA BaseFits ==
  /\ Base \in Nat /\ Base + 2 * Word <= Long
  /\ \A l \in 0 .. Word - 1 : Base + l \in 0 .. Long - 1 /\ (Base + l) % Word = l
  <1>1. CNTCR \in Nat /\ CNTCR <= Word - 2 BY CntcrAssumption, HalfWord
  <1>2. Base \in Nat BY <1>1, HalfWord DEF Base
  <1>3. (CNTCR + 2) * Word <= Word * Word BY <1>1, HalfWord
  <1>4. Base + 2 * Word <= Long BY <1>1, <1>3, HalfWord DEF Base, Long
  <1>5. ASSUME NEW l \in 0 .. Word - 1 PROVE (Base + l) % Word = l
    <2>1. Base + l = Word * CNTCR + l BY <1>1, HalfWord DEF Base
    <2> QED BY <2>1, <1>1, HalfWord, RemainderOf
  <1> QED BY <1>2, <1>4, <1>5, HalfWord, SMTT(60)

(* Every delay asked for is an int, NO_DELAY or more, and its ticks fit in  *)
(* a word; so do those of what is left of it.                              *)
LEMMA DelayFits ==
  ASSUME NEW f \in Delays, NEW d \in NO_DELAY .. f
  PROVE  /\ f \in Int /\ f >= -1 /\ f * TicksPerMs \in Int /\ f * TicksPerMs < Word
         /\ d \in Int /\ d >= -1 /\ d * TicksPerMs \in Int /\ d * TicksPerMs < Word
         /\ d >= 0 => d * TicksPerMs >= 0
         /\ d < 0 => d * TicksPerMs < 0
  <1>1. f \in Int /\ f >= -1 /\ f * TicksPerMs < Word BY DelaysAssumption
  <1>2. d \in Int /\ d >= -1 /\ d <= f BY <1>1, DelaysAssumption
  <1>3. (f - d) * TicksPerMs >= 0 BY <1>1, <1>2, TicksAssumption
  <1>4. f * TicksPerMs - d * TicksPerMs = (f - d) * TicksPerMs
    BY <1>1, <1>2, TicksAssumption
  <1>5. d * TicksPerMs \in Int /\ f * TicksPerMs \in Int BY <1>1, <1>2, TicksAssumption
  <1>6. d >= 0 => d * TicksPerMs >= 0 BY <1>2, TicksAssumption
  <1>7. d < 0 => d * TicksPerMs < 0 BY <1>2, TicksAssumption
  <1> QED BY <1>1, <1>2, <1>3, <1>4, <1>5, <1>6, <1>7, HalfWord

-----------------------------------------------------------------------------
(* The invariant.  Whatever the counter reads at the start, no delay and no *)
(* measurement is under way.                                               *)
LEMMA TimerInit == Init => TimerInv
  <1> SUFFICES ASSUME Init PROVE TimerInv OBVIOUS
  <1>1. TypeOK
    <2>1. /\ 0 \in 0 .. Word - 1 /\ 0 \in -(Word \div 2) .. Word \div 2 - 1
          /\ 0 \in 0 .. Long - 1 /\ 0 \in 0 .. Word /\ 0 \in 0 .. MaxPollTicks
      BY HalfWord, PollAssumption
    <2>2. /\ low = 0 /\ ticks = 0 /\ start_time_ticks = 0 /\ timer_count_init = 0
          /\ delay_ticks = 0 /\ since_start = 0 /\ since_init = 0 /\ unpolled = 0
          /\ initial_high = 0 /\ frame_delay = 0 /\ delay = 0 /\ start_timer_in_use = 0
          /\ cntcv0 \in 0 .. Word - 1 /\ in_frame = FALSE /\ pc = "idle" /\ ret = "idle"
      BY DEF Init
    <2>3. pc \in Points /\ ret \in Returns \union {"idle"} BY <2>2 DEF Points
    <2>4. in_frame \in BOOLEAN BY <2>2
    <2> QED BY <2>1, <2>2, <2>3, <2>4 DEF TypeOK
  <1>2. ReadInv /\ CallInv /\ LoadInv /\ DelayInv /\ NeverEarly /\ FrameLasts
    BY DEF Init, ReadInv, CallInv, LoadInv, DelayInv, NeverEarly, FrameLasts,
           InMsDelay, WaitedFor, Polling, Returns
  <1> QED BY <1>1, <1>2 DEF TimerInv

(* A tick keeps the differences between the counter and the histories.     *)
LEMMA TickInv == TimerInv /\ Tick => TimerInv'
  <1> SUFFICES ASSUME TimerInv, Tick PROVE TimerInv' OBVIOUS
  <1> USE DEF TimerInv, getTicks, timerUse, msDelay, timed, Saturated
  <1>1. TypeOK' BY HalfWord, PollAssumption DEF Tick, TypeOK, Points, Returns
  <1>2. ReadInv' /\ CallInv' BY DEF Tick, ReadInv, CallInv, Returns
  <1>3. LoadInv'
    BY HalfWord, LoadAssumption, PollAssumption DEF Tick, LoadInv, TypeOK, Wraps, ReadInv, Returns
  <1>4. DelayInv'
    <2>1. /\ Spent' = Spent /\ InitLow' = InitLow /\ DelayTicks' = DelayTicks
          /\ InMsDelay' = InMsDelay
      BY DEF Tick, Spent, InitLow, DelayTicks, InMsDelay
    <2>2. Spent \in Int /\ InitLow \in Int
      BY TicksAssumption, BaseFits, HalfWord DEF Spent, InitLow, TypeOK
    <2> QED BY <2>1, <2>2, HalfWord DEF Tick, DelayInv, TypeOK, InMsDelay
  <1>5. NeverEarly' /\ FrameLasts'
    <2>1. delay * TicksPerMs \in Int /\ frame_delay * TicksPerMs \in Int
      BY TicksAssumption DEF TypeOK
    <2>2. /\ since_start' >= since_start /\ since_start \in Nat /\ since_start' \in Nat
          /\ since_init' >= since_init /\ since_init \in Nat /\ since_init' \in Nat
      BY HalfWord DEF Tick, TypeOK
    <2>3. NeverEarly' BY <2>1, <2>2 DEF Tick, NeverEarly, WaitedFor, Polling
    <2>4. FrameLasts' BY <2>1, <2>2 DEF Tick, FrameLasts
    <2> QED BY <2>3, <2>4
  <1> QED BY <1>1, <1>2, <1>3, <1>4, <1>5

(* The three reads of get_ticks().                                         *)
LEMMA ReadsInv == TimerInv /\ (ReadInitialHigh \/ ReadLow \/ ReadHigh) => TimerInv'
  <1> SUFFICES ASSUME TimerInv, ReadInitialHigh \/ ReadLow \/ ReadHigh PROVE TimerInv' OBVIOUS
  <1> USE DEF TimerInv, getTicks, timerUse, msDelay, timed, readl
  <1>1. CASE ReadInitialHigh
    <2>1. TypeOK' BY <1>1 DEF ReadInitialHigh, TypeOK, Points, Returns
    <2>2. ReadInv' /\ CallInv' BY <1>1 DEF ReadInitialHigh, ReadInv, CallInv, Returns
    <2>3. LoadInv' BY <1>1 DEF ReadInitialHigh, LoadInv
    <2>4. DelayInv' BY <1>1 DEF ReadInitialHigh, DelayInv, InMsDelay, Spent, InitLow, DelayTicks
    <2>5. NeverEarly' /\ FrameLasts'
      BY <1>1 DEF ReadInitialHigh, NeverEarly, FrameLasts, WaitedFor, Polling
    <2> QED BY <2>1, <2>2, <2>3, <2>4, <2>5
  <1>2. CASE ReadLow
    <2>1. TypeOK' BY <1>2, HalfWord, PollAssumption DEF ReadLow, TypeOK, Points, Returns
    <2>2. ReadInv' /\ CallInv' BY <1>2 DEF ReadLow, ReadInv, CallInv, Returns
    <2>3. LoadInv'
      BY <1>2, HalfWord, LoadAssumption, PollAssumption DEF ReadLow, LoadInv, TypeOK, Wraps
    <2>4. DelayInv'
      <3>1. /\ Spent' = Spent /\ InitLow' = InitLow /\ DelayTicks' = DelayTicks
            /\ InMsDelay' = InMsDelay
        BY <1>2 DEF ReadLow, Spent, InitLow, DelayTicks, InMsDelay
      <3>2. Spent \in Int /\ InitLow \in Int
        BY TicksAssumption, BaseFits, HalfWord DEF Spent, InitLow, TypeOK
      <3> QED BY <1>2, <3>1, <3>2 DEF ReadLow, DelayInv, TypeOK, InMsDelay
    <2>5. NeverEarly' /\ FrameLasts'
      BY <1>2 DEF ReadLow, NeverEarly, FrameLasts, WaitedFor, Polling
    <2> QED BY <2>1, <2>2, <2>3, <2>4, <2>5
  <1>3. CASE ReadHigh
    <2>1. ticks' = Base + low BY <1>3 DEF ReadHigh, ReadInv, Base
    <2>2. TypeOK' BY <1>3, <2>1, BaseFits DEF ReadHigh, TypeOK, Points, Returns, ReadInv
    <2>3. ReadInv' /\ CallInv' BY <1>3, <2>1 DEF ReadHigh, ReadInv, CallInv, Returns
    <2>4. LoadInv' BY <1>3 DEF ReadHigh, LoadInv, ReadInv, Returns
    <2>5. DelayInv'
      BY <1>3 DEF ReadHigh, DelayInv, InMsDelay, Spent, InitLow, DelayTicks, ReadInv, Returns
    <2>6. NeverEarly' /\ FrameLasts'
      BY <1>3 DEF ReadHigh, NeverEarly, FrameLasts, WaitedFor, Polling, ReadInv, Returns
    <2> QED BY <2>2, <2>3, <2>4, <2>5, <2>6
  <1> QED BY <1>1, <1>2, <1>3

(* The calls and returns that only hand a value on.                        *)
LEMMA CallsInv ==
  TimerInv /\ (RunContextLoader \/ StaticImageDelay \/ StartTimer \/ LoadFinished \/ Return)
    => TimerInv'
  <1> SUFFICES ASSUME TimerInv,
                      RunContextLoader \/ StaticImageDelay \/ StartTimer \/ LoadFinished \/ Return
               PROVE  TimerInv'
    OBVIOUS
  <1> USE DEF TimerInv, getTicks, timerUse, msDelay, timed, CallGetTicks, CallMsDelay
  <1>1. CASE RunContextLoader
    <2>1. frame_delay' \in Int BY <1>1, DelaysAssumption DEF RunContextLoader
    <2>2. TypeOK' BY <1>1, <2>1 DEF RunContextLoader, TypeOK, Points, Returns
    <2>3. ReadInv' /\ CallInv' BY <1>1 DEF RunContextLoader, ReadInv, CallInv, Returns
    <2>4. LoadInv' BY <1>1 DEF RunContextLoader, LoadInv
    <2>5. DelayInv' BY <1>1 DEF RunContextLoader, DelayInv, InMsDelay
    <2>6. NeverEarly' /\ FrameLasts'
      BY <1>1 DEF RunContextLoader, NeverEarly, FrameLasts, WaitedFor, Polling
    <2> QED BY <2>2, <2>3, <2>4, <2>5, <2>6
  <1>2. CASE StaticImageDelay
    <2>1. frame_delay' \in Delays /\ delay' = frame_delay' /\ in_frame' = FALSE
      BY <1>2 DEF StaticImageDelay
    <2>2. delay' \in Int /\ frame_delay' \in Int /\ delay' \in NO_DELAY .. frame_delay'
      BY <2>1, DelaysAssumption
    <2>3. TypeOK' BY <1>2, <2>1, <2>2 DEF StaticImageDelay, TypeOK, Points, Returns
    <2>4. ReadInv' /\ CallInv' BY <1>2, <2>1 DEF StaticImageDelay, ReadInv, CallInv, Returns
    <2>5. LoadInv' BY <1>2 DEF StaticImageDelay, LoadInv
    <2>6. DelayInv' BY <1>2, <2>1, <2>2 DEF StaticImageDelay, DelayInv, InMsDelay
    <2>7. NeverEarly' /\ FrameLasts'
      BY <1>2 DEF StaticImageDelay, NeverEarly, FrameLasts, WaitedFor, Polling
    <2> QED BY <2>3, <2>4, <2>5, <2>6, <2>7
  <1>3. CASE StartTimer
    <2>1. ticks = Base + low /\ low \in 0 .. Word - 1 BY <1>3 DEF StartTimer, ReadInv, Returns, TypeOK
    <2>2. ticks \in Int /\ ticks % Word = low BY <2>1, BaseFits
    <2>3. /\ start_time_ticks' \in -(Word \div 2) .. Word \div 2 - 1
          /\ start_time_ticks' \in {low, low - Word}
      BY <1>3, <2>2, IntRange DEF StartTimer
    <2>4. TypeOK' BY <1>3, <2>3 DEF StartTimer, TypeOK, Points, Returns
    <2>5. ReadInv' /\ CallInv' BY <1>3 DEF StartTimer, ReadInv, CallInv, Returns
    <2>6. LoadInv'
      <3>1. since_start = unpolled /\ low + since_start - cntcv0 \in {0, Word} /\ ret = "start_timer"
        BY <1>3 DEF StartTimer, LoadInv, ReadInv, Returns
      <3>2. start_time_ticks' + since_start - cntcv0 \in Wraps
        <4>1. since_start \in Int /\ cntcv0 \in Int /\ low \in Int /\ Word \in Int
          BY HalfWord DEF TypeOK
        <4>2. CASE start_time_ticks' = low BY <3>1, <4>1, <4>2 DEF Wraps
        <4>3. CASE start_time_ticks' = low - Word BY <3>1, <4>1, <4>3 DEF Wraps
        <4> QED BY <2>3, <4>2, <4>3
      <3>3. since_start <= MaxLoadTicks + unpolled BY <3>1, LoadAssumption DEF TypeOK
      <3> QED BY <1>3, <3>1, <3>2, <3>3 DEF StartTimer, LoadInv, Wraps
    <2>7. DelayInv' BY <1>3 DEF StartTimer, DelayInv, InMsDelay, ReadInv, Returns
    <2>8. NeverEarly' /\ FrameLasts'
      BY <1>3 DEF StartTimer, NeverEarly, FrameLasts, WaitedFor, Polling
    <2> QED BY <2>4, <2>5, <2>6, <2>7, <2>8
  <1>4. CASE LoadFinished
    <2>1. TypeOK' BY <1>4 DEF LoadFinished, TypeOK, Points, Returns
    <2>2. ReadInv' /\ CallInv' BY <1>4 DEF LoadFinished, ReadInv, CallInv, Returns
    <2>3. LoadInv' BY <1>4 DEF LoadFinished, LoadInv, Wraps
    <2>4. DelayInv' BY <1>4 DEF LoadFinished, DelayInv, InMsDelay
    <2>5. NeverEarly' /\ FrameLasts'
      BY <1>4 DEF LoadFinished, NeverEarly, FrameLasts, WaitedFor, Polling
    <2> QED BY <2>1, <2>2, <2>3, <2>4, <2>5
  <1>5. CASE Return
    <2>1. 0 \in 0 .. Word - 1 /\ 0 \in 0 .. Long - 1 /\ 0 \in 0 .. Word /\ 0 \in 0 .. MaxPollTicks
      BY HalfWord, PollAssumption
    <2>2. TypeOK'
      <3>1. in_frame' = FALSE /\ pc' = "idle" /\ ret' = "idle" BY <1>5 DEF Return
      <3>2. in_frame' \in BOOLEAN BY <3>1
      <3>3. pc' \in Points /\ ret' \in Returns \union {"idle"} BY <3>1 DEF Points
      <3> QED BY <1>5, <2>1, <3>2, <3>3 DEF Return, TypeOK
    <2>3. ReadInv' /\ CallInv' BY <1>5 DEF Return, ReadInv, CallInv, Returns
    <2>4. LoadInv' BY <1>5 DEF Return, LoadInv
    <2>5. DelayInv' BY <1>5 DEF Return, DelayInv, InMsDelay
    <2>6. NeverEarly' /\ FrameLasts' BY <1>5 DEF Return, NeverEarly, FrameLasts, WaitedFor, Polling
    <2> QED BY <2>2, <2>3, <2>4, <2>5, <2>6
  <1> QED BY <1>1, <1>2, <1>3, <1>4, <1>5

(* What stop_timer() returns.                                              *)
LEMMA StopTimerMeasures ==
  ASSUME TimerInv, pc = "stop_timer"
  PROVE  /\ TimeInMs = (since_start - unpolled) \div TicksPerMs
         /\ TimeInMs \in Nat /\ TimeInMs * TicksPerMs <= since_start
  <1> DEFINE e == since_start - unpolled
  <1>1. /\ ticks = Base + low /\ ret = "stop_timer" /\ start_timer_in_use = 1
        /\ e \in 0 .. MaxLoadTicks + MaxPollTicks
        /\ start_time_ticks + e - low \in Wraps
    BY DEF TimerInv, ReadInv, LoadInv, Returns
  <1>2. /\ low \in 0 .. Word - 1 /\ start_time_ticks \in Int
        /\ since_start \in Nat /\ unpolled \in Nat
    BY HalfWord, PollAssumption DEF TimerInv, TypeOK
  <1>3. e \in 0 .. Word \div 2 - 1 /\ e <= since_start
    BY <1>1, <1>2, LoadAssumption, PollAssumption, HalfWord
  <1> HIDE DEF e
  <1>4. ToInt(ticks) \in {low, low - Word}
    <2>1. ticks \in Int /\ ticks % Word = low BY <1>1, <1>2, BaseFits
    <2> QED BY <2>1, IntRange
  <1>5. PICK k \in {-2, -1, 0, 1, 2} : ToInt(ticks) - start_time_ticks = Word * k + e
    <2>1. \E j \in {-1, 0, 1} : start_time_ticks = low - e + Word * j
      BY <1>1, <1>2, <1>3, HalfWord DEF Wraps
    <2>2. PICK j \in {-1, 0, 1} : start_time_ticks = low - e + Word * j BY <2>1
    <2>3. \E i \in {-1, 0} : ToInt(ticks) = low + Word * i BY <1>2, <1>4, HalfWord
    <2>4. PICK i \in {-1, 0} : ToInt(ticks) = low + Word * i BY <2>3
    <2>5. i - j \in {-2, -1, 0, 1, 2} OBVIOUS
    <2>6. ToInt(ticks) - start_time_ticks = Word * (i - j) + e
      BY <1>2, <1>3, <2>2, <2>4, HalfWord
    <2> QED BY <2>5, <2>6
  <1>6. ToInt(ToInt(ticks) - start_time_ticks) = e BY <1>3, <1>5, IntOf
  <1>7. ToLong(e) = e BY <1>3, HalfWord, LongOf
  <1>8. e \div TicksPerMs \in 0 .. e /\ (e \div TicksPerMs) * TicksPerMs <= e
    BY <1>3, HalfWord, TicksAssumption, QuotientBounds
  <1>9. ToInt(e \div TicksPerMs) = e \div TicksPerMs
    <2> DEFINE q == e \div TicksPerMs
    <2>1. q \in 0 .. Word \div 2 - 1 /\ Word * 0 + q = q BY <1>3, <1>8, HalfWord
    <2> HIDE DEF q
    <2>2. ToInt(Word * 0 + q) = q BY <2>1, IntOf
    <2> QED BY <2>1, <2>2 DEF q
  <1>10. TimeInMs = e \div TicksPerMs
    BY <1>1, <1>6, <1>7, <1>9 DEF TimeInMs, Measured
  <1> QED
    <2>1. TicksPerMs \in Nat BY TicksAssumption
    <2>2. (e \div TicksPerMs) \in Nat /\ (e \div TicksPerMs) * TicksPerMs <= since_start
      BY <1>2, <1>3, <1>8, <2>1
    <2> QED BY <1>10, <2>2 DEF e

(* stop_timer(): the frame is over, or the rest of it is ms_delay()'s.     *)
LEMMA StopTimerInv == TimerInv /\ StopTimer => TimerInv'
  <1> SUFFICES ASSUME TimerInv, StopTimer PROVE TimerInv' OBVIOUS
  <1> USE DEF TimerInv, getTicks, timerUse, msDelay, timed, CallGetTicks, CallMsDelay
  <1> DEFINE m == TimeInMs
  <1>1. m \in Nat /\ m * TicksPerMs <= since_start BY StopTimerMeasures DEF StopTimer
  <1>2. /\ pc = "stop_timer" /\ ret = "stop_timer" /\ in_frame /\ frame_delay \in Delays
        /\ since_start \in Nat /\ start_timer_in_use' = 0
    BY HalfWord DEF StopTimer, ReadInv, CallInv, Returns, TypeOK
  <1>3. frame_delay \in Int /\ NO_DELAY = -1 /\ frame_delay >= -1 /\ TicksPerMs \in Nat \ {0}
    BY <1>2, DelaysAssumption, TicksAssumption
  <1>4. DelayTime = frame_delay - m BY DEF DelayTime
  <1> HIDE DEF m
  <1>5. CASE frame_delay # NO_DELAY /\ DelayTime > 0
    <2>1. delay' = frame_delay - m /\ pc' = "initial_high" /\ ret' = "ms_delay"
      BY <1>4, <1>5 DEF StopTimer
    <2>2. delay' \in Int /\ delay' \in NO_DELAY .. frame_delay
      BY <1>1, <1>3, <1>4, <1>5, <2>1
    <2>3. Spent' = m * TicksPerMs
      <3>1. frame_delay - (frame_delay - m) = m BY <1>1, <1>3
      <3> QED BY <2>1, <3>1 DEF StopTimer, Spent
    <2>4. TypeOK' BY <1>5, <1>2, <2>1, <2>2 DEF StopTimer, TypeOK, Points, Returns
    <2>5. ReadInv' /\ CallInv' BY <1>5, <1>2, <2>1 DEF StopTimer, ReadInv, CallInv, Returns
    <2>6. LoadInv' BY <2>1 DEF LoadInv
    <2>7. DelayInv' BY <1>1, <1>5, <2>1, <2>2, <2>3 DEF StopTimer, DelayInv, InMsDelay
    <2>8. NeverEarly' /\ FrameLasts' BY <2>1 DEF NeverEarly, FrameLasts, WaitedFor, Polling
    <2> QED BY <2>4, <2>5, <2>6, <2>7, <2>8
  <1>6. CASE ~(frame_delay # NO_DELAY /\ DelayTime > 0)
    <2>1. pc' = "done" /\ ret' = "stop_timer" BY <1>2, <1>6 DEF StopTimer
    <2>2. since_start >= frame_delay * TicksPerMs
      <3>1. CASE frame_delay = NO_DELAY BY <1>2, <1>3, <3>1
      <3>2. CASE frame_delay <= m
        <4>1. frame_delay * TicksPerMs <= m * TicksPerMs BY <1>1, <1>3, <3>2
        <4>2. m * TicksPerMs \in Int /\ frame_delay * TicksPerMs \in Int BY <1>1, <1>3
        <4> QED BY <1>1, <1>2, <4>1, <4>2
      <3> QED BY <1>1, <1>3, <1>4, <1>6, <3>1, <3>2
    <2>3. TypeOK' BY <1>6, <1>2, <2>1 DEF StopTimer, TypeOK, Points, Returns
    <2>4. ReadInv' /\ CallInv' BY <1>6, <1>2, <2>1 DEF StopTimer, ReadInv, CallInv, Returns
    <2>5. LoadInv' BY <2>1 DEF LoadInv
    <2>6. DelayInv' BY <2>1 DEF DelayInv, InMsDelay
    <2>7. NeverEarly' BY <2>1 DEF NeverEarly, WaitedFor, Polling
    <2>8. FrameLasts' BY <2>2 DEF StopTimer, FrameLasts
    <2> QED BY <2>3, <2>4, <2>5, <2>6, <2>7, <2>8
  <1> QED BY <1>5, <1>6

(* ms_delay(): its deadline lies Base above the word it started from.      *)
LEMMA StartMsDelayInv == TimerInv /\ StartMsDelay => TimerInv'
  <1> SUFFICES ASSUME TimerInv, StartMsDelay PROVE TimerInv' OBVIOUS
  <1> USE DEF TimerInv, getTicks, timerUse, msDelay, timed, CallGetTicks
  <1>1. ticks = Base + low /\ ret = "ms_delay" /\ pc = "ms_delay" /\ low \in 0 .. Word - 1
    BY DEF StartMsDelay, ReadInv, Returns, TypeOK
  <1>2. timer_count_init' = Base + low /\ Base \in Nat /\ Base + low \in 0 .. Long - 1
    BY <1>1, BaseFits DEF StartMsDelay
  <1>3. InitLow' = low BY <1>1, <1>2, HalfWord DEF InitLow, Base
  <1>4. delay \in Int /\ delay * TicksPerMs \in Int BY TicksAssumption DEF TypeOK
  <1>5. delay_ticks' = DelayTicks' /\ delay_ticks' \in 0 .. Long - 1
    BY <1>4, LongRange DEF StartMsDelay, DelayTicks
  <1>6. pc' = "initial_high" /\ ret' = "poll" BY DEF StartMsDelay
  <1>7. TypeOK' BY <1>2, <1>5, <1>6 DEF StartMsDelay, TypeOK, Points, Returns
  <1>8. ReadInv' /\ CallInv' BY <1>1, <1>6 DEF StartMsDelay, ReadInv, CallInv, Returns
  <1>9. LoadInv' BY <1>6 DEF LoadInv
  <1>10. DelayInv'
    <2>1. Spent' = Spent BY DEF StartMsDelay, Spent
    <2> QED BY <1>1, <1>3, <1>5, <1>6, <2>1 DEF StartMsDelay, DelayInv, InMsDelay
  <1>11. NeverEarly' /\ FrameLasts' BY <1>6 DEF NeverEarly, FrameLasts, WaitedFor, Polling
  <1> QED BY <1>7, <1>8, <1>9, <1>10, <1>11

(* The loop of ms_delay() ends when the deadline has been reached, and not  *)
(* because the sum of start and delay wrapped.                             *)
LEMMA PollInv == TimerInv /\ PollMsDelay => TimerInv'
  <1> SUFFICES ASSUME TimerInv, PollMsDelay PROVE TimerInv' OBVIOUS
  <1> USE DEF TimerInv, getTicks, timerUse, msDelay, timed, CallGetTicks
  <1>1. pc = "poll" /\ ret = "poll" /\ ret' = "poll" BY DEF PollMsDelay, ReadInv, Returns
  <1>2. TypeOK'
    <2>1. pc' \in {"initial_high", "done"} BY DEF PollMsDelay
    <2> QED BY <1>1, <2>1 DEF PollMsDelay, TypeOK, Points, Returns
  <1>3. ReadInv' /\ CallInv' BY <1>1 DEF PollMsDelay, ReadInv, CallInv, Returns
  <1>4. LoadInv' BY <1>1 DEF PollMsDelay, LoadInv
  <1>5. DelayInv'
    <2>1. Spent' = Spent /\ InitLow' = InitLow /\ DelayTicks' = DelayTicks
      BY DEF PollMsDelay, Spent, InitLow, DelayTicks
    <2> QED BY <1>1, <2>1 DEF PollMsDelay, DelayInv, InMsDelay
  <1>6. ~StillWaiting => since_init >= delay * TicksPerMs
    <2> SUFFICES ASSUME ~StillWaiting PROVE since_init >= delay * TicksPerMs OBVIOUS
    <2>1. /\ delay \in Int /\ delay * TicksPerMs \in Int /\ delay * TicksPerMs < Word
          /\ delay >= 0 => delay * TicksPerMs >= 0
          /\ delay < 0 => delay * TicksPerMs < 0
      BY <1>1, DelayFits DEF CallInv, DelayInv, InMsDelay
    <2>2. since_init \in Nat BY HalfWord DEF TypeOK
    <2>3. CASE delay < 0 BY <2>1, <2>2, <2>3
    <2>4. CASE delay >= 0
      <3> DEFINE d == delay * TicksPerMs
      <3>1. d \in 0 .. Word - 1 BY <2>1, <2>4, HalfWord
      <3> HIDE DEF d
      <3>2. DelayTicks = d BY <3>1, HalfWord, LongOf DEF DelayTicks, d
      <3>3. InitLow \in 0 .. Word - 1 /\ delay_ticks = d /\ since_init >= low - InitLow
        BY <1>1, <3>2 DEF DelayInv, InMsDelay
      <3>4. timer_count_init = Base + InitLow BY BaseFits, HalfWord DEF InitLow, TypeOK
      <3>5. timer_count_init + delay_ticks \in 0 .. Long - 1
        BY <3>1, <3>3, <3>4, BaseFits, HalfWord
      <3>6. Deadline = Base + InitLow + d
        <4>1. Deadline = timer_count_init + delay_ticks BY <3>5, LongOf DEF Deadline
        <4> QED BY <3>3, <3>4, <4>1
      <3>7. ticks = Base + low /\ low \in 0 .. Word - 1 BY <1>1 DEF ReadInv, Returns, TypeOK
      <3>8. low - InitLow >= d
        BY <3>1, <3>3, <3>6, <3>7, BaseFits, HalfWord DEF StillWaiting
      <3> QED BY <2>2, <3>1, <3>3, <3>7, <3>8, HalfWord DEF d
    <2> QED BY <2>1, <2>3, <2>4
  <1>7. NeverEarly' BY <1>6 DEF PollMsDelay, NeverEarly, WaitedFor, Polling
  <1>8. FrameLasts'
    <2> SUFFICES ASSUME ~StillWaiting, in_frame
                 PROVE  since_start >= frame_delay * TicksPerMs
      BY DEF PollMsDelay, FrameLasts
    <2>1. frame_delay \in Delays /\ delay \in NO_DELAY .. frame_delay
      BY <1>1 DEF CallInv, DelayInv, InMsDelay
    <2>2. /\ delay * TicksPerMs \in Int /\ delay \in Int /\ frame_delay \in Int
          /\ frame_delay * TicksPerMs \in Int /\ frame_delay * TicksPerMs < Word
      BY <2>1, DelayFits
    <2>3. since_start \in Nat /\ since_init \in Nat BY HalfWord DEF TypeOK
    <2>4. Spent = frame_delay * TicksPerMs - delay * TicksPerMs
      BY <2>2, TicksAssumption DEF Spent
    <2>5. since_start >= Spent + since_init \/ since_start = Word
      BY <1>1 DEF DelayInv, InMsDelay
    <2> QED BY <1>6, <2>2, <2>3, <2>4, <2>5, HalfWord
  <1> QED BY <1>2, <1>3, <1>4, <1>5, <1>7, <1>8

(* TimerInv is an invariant, for every size of word and every delay.       *)
THEOREM TimerInvariance == Spec => []TimerInv
  <1>1. TimerInv /\ UNCHANGED vars => TimerInv'
    BY DEF vars, getTicks, timerUse, msDelay, timed, TimerInv, TypeOK, ReadInv, CallInv, LoadInv,
           DelayInv, NeverEarly, FrameLasts, InMsDelay, Spent, InitLow, DelayTicks,
           WaitedFor, Polling
  <1>2. TimerInv /\ [Next]_vars => TimerInv'
    BY <1>1, TickInv, ReadsInv, CallsInv, StopTimerInv, StartMsDelayInv, PollInv DEF Next, PD
  <1> QED BY TimerInit, <1>2, PTL DEF Spec

-----------------------------------------------------------------------------
(* The bound from above.                                                   *)

LEMMA PollRange ==
  ASSUME TimerInv, CounterFollows, Polling
  PROVE  /\ Ahead \in 0 .. Word - 1 /\ InitLow \in 0 .. Word - 1
         /\ timer_count_init = Base + InitLow /\ delay_ticks = DelayTicks
         /\ delay \in Int /\ delay >= -1 /\ delay * TicksPerMs \in Int
         /\ delay >= 0 => Ahead = delay * TicksPerMs
         /\ delay < 0 => Ahead = 0
  <1> USE DEF TimerInv
  <1>1. pc # "idle" /\ InMsDelay BY DEF CounterFollows, Polling, InMsDelay
  <1>2. /\ delay \in NO_DELAY .. frame_delay /\ frame_delay \in Delays
        /\ InitLow \in 0 .. Word - 1 /\ delay_ticks = DelayTicks
    BY <1>1 DEF DelayInv, CallInv, Polling
  <1>3. /\ delay \in Int /\ delay >= -1 /\ delay * TicksPerMs \in Int
        /\ delay * TicksPerMs < Word
        /\ delay >= 0 => delay * TicksPerMs >= 0
    BY <1>2, DelayFits
  <1>4. timer_count_init = Base + InitLow BY <1>2, BaseFits, HalfWord DEF InitLow, TypeOK
  <1>5. CASE delay > 0 BY <1>2, <1>3, <1>4, <1>5, HalfWord DEF Ahead
  <1>6. CASE delay = 0
    <2>1. delay * TicksPerMs = 0 BY <1>6, TicksAssumption
    <2> QED BY <1>2, <1>3, <1>4, <1>6, <2>1, HalfWord DEF Ahead
  <1>7. CASE delay < 0 BY <1>2, <1>3, <1>4, <1>7, HalfWord DEF Ahead
  <1> QED BY <1>3, <1>5, <1>6, <1>7

(* The deadline is Ahead ticks behind the start, or in front of it.         *)
LEMMA DeadlineNear ==
  ASSUME TimerInv, CounterFollows, Polling
  PROVE  Deadline \in Int /\ Deadline <= Base + InitLow + Ahead
  <1>1. /\ Ahead \in 0 .. Word - 1 /\ InitLow \in 0 .. Word - 1
        /\ timer_count_init = Base + InitLow /\ delay_ticks = DelayTicks
        /\ delay \in Int /\ delay >= -1 /\ delay * TicksPerMs \in Int
        /\ delay >= 0 => Ahead = delay * TicksPerMs
        /\ delay < 0 => Ahead = 0
    BY PollRange
  <1>2. CASE delay >= 0
    <2> DEFINE d == delay * TicksPerMs
    <2>1. d = Ahead /\ d \in 0 .. Long - 1 BY <1>1, <1>2, HalfWord
    <2> HIDE DEF d
    <2>2. DelayTicks = d BY <2>1, LongOf DEF DelayTicks, d
    <2>3. timer_count_init + delay_ticks = Base + InitLow + Ahead
      BY <1>1, <2>1, <2>2, BaseFits, HalfWord
    <2>4. timer_count_init + delay_ticks \in 0 .. Long - 1
      BY <1>1, <2>3, BaseFits, HalfWord
    <2>5. Deadline = timer_count_init + delay_ticks BY <2>4, LongOf DEF Deadline
    <2> QED BY <1>1, <2>3, <2>5, BaseFits, HalfWord
  <1>3. CASE delay < 0
    <2>1. delay * TicksPerMs = -TicksPerMs
      <3>1. delay = -1 BY <1>1, <1>3
      <3> QED BY <3>1, TicksAssumption
    <2> DEFINE r == Long - TicksPerMs
    <2>2. Base >= Word
      <3>1. CNTCR \in Nat /\ CNTCR >= 1 BY CntcrAssumption, HalfWord
      <3>2. (CNTCR - 1) * Word >= 0 BY <3>1, HalfWord
      <3> QED BY <3>1, <3>2, HalfWord DEF Base
    <2>3. r \in 0 .. Long - 1 /\ Long * (-1) + r = -TicksPerMs
      BY HalfWord, TicksAssumption, FrequencyAssumption
    <2>4. DelayTicks = r
      <3> HIDE DEF r
      <3>1. (Long * (-1) + r) % Long = r BY <2>3, HalfWord, RemainderOf
      <3> QED BY <2>1, <2>3, <3>1 DEF DelayTicks, ToLong
    <2> DEFINE e == Base + InitLow - TicksPerMs
    <2>5. e \in 0 .. Long - 1 /\ e \in Int
      BY <1>1, <2>2, BaseFits, HalfWord, TicksAssumption, FrequencyAssumption
    <2>6. timer_count_init + delay_ticks = Long * 1 + e
      BY <1>1, <2>4, BaseFits, HalfWord, TicksAssumption
    <2>7. e <= Base + InitLow BY <1>1, BaseFits, HalfWord, TicksAssumption
    <2> HIDE DEF e
    <2>8. (Long * 1 + e) % Long = e BY <2>5, HalfWord, RemainderOf
    <2>9. Deadline = e BY <2>6, <2>8 DEF Deadline, ToLong
    <2> QED BY <1>1, <1>3, <2>5, <2>7, <2>9, BaseFits, HalfWord
  <1> QED BY <1>1, <1>2, <1>3

LEMMA TickOnTime == TimerInv /\ OnTimeInv /\ Tick => OnTimeInv'
  <1> SUFFICES ASSUME TimerInv, OnTimeInv, Tick PROVE OnTimeInv' OBVIOUS
  <1> USE DEF getTicks, timerUse, msDelay, timed, OnTimeInv
  <1>1. /\ cntcv0 \in 0 .. Word - 1 /\ low \in 0 .. Word - 1
        /\ since_init \in 0 .. Word /\ unpolled \in 0 .. MaxPollTicks
        /\ Word \in Nat /\ MaxPollTicks \in Nat
    BY HalfWord, PollAssumption DEF TimerInv, TypeOK
  <1>2. /\ pc' = pc /\ ret' = ret /\ low' = low /\ InitLow' = InitLow /\ Ahead' = Ahead
        /\ Polling' = Polling
    BY DEF Tick, InitLow, Ahead, Polling
  <1>3. cntcv0' = IF cntcv0 = Word - 1 THEN 0 ELSE cntcv0 + 1 BY DEF Tick
  <1>4. pc \notin {"idle", "load"} =>
           /\ since_init' = IF since_init < Word THEN since_init + 1 ELSE since_init
           /\ unpolled' = unpolled + 1
    BY DEF Tick, Saturated
  <1>5. Polling => Ahead \in 0 .. Word - 1 /\ InitLow \in 0 .. Word - 1 BY PollRange
  <1>6. CounterFollows' BY <1>1, <1>2, <1>3, <1>4, <1>5 DEF CounterFollows
  <1>7. PollsFollow' BY <1>1, <1>2, <1>4, <1>5 DEF CounterFollows, PollsFollow
  <1> QED BY <1>6, <1>7

LEMMA ReadLowOnTime == TimerInv /\ OnTimeInv /\ ReadLow => OnTimeInv'
  <1> SUFFICES ASSUME TimerInv, OnTimeInv, ReadLow PROVE OnTimeInv' OBVIOUS
  <1> USE DEF getTicks, timerUse, msDelay, timed, OnTimeInv
  <1>1. /\ cntcv0 \in 0 .. Word - 1 /\ since_init \in 0 .. Word
        /\ unpolled \in 0 .. MaxPollTicks /\ Word \in Nat /\ MaxPollTicks \in Nat
    BY HalfWord, PollAssumption DEF TimerInv, TypeOK
  <1>2. /\ pc = "low" /\ pc' = "high" /\ ret' = ret /\ low' = cntcv0 /\ cntcv0' = cntcv0
        /\ InitLow' = InitLow /\ Ahead' = Ahead /\ Polling' = Polling /\ unpolled' = 0
        /\ since_init' = IF ret = "ms_delay" THEN 0 ELSE since_init
    BY DEF ReadLow, readl, InitLow, Ahead, Polling
  <1>3. Polling => Ahead \in 0 .. Word - 1 /\ InitLow \in 0 .. Word - 1 BY PollRange
  <1>4. CounterFollows' BY <1>1, <1>2, <1>3 DEF CounterFollows, Polling
  <1>5. PollsFollow'
    <2> SUFFICES ASSUME Polling, InitLow + Ahead + MaxPollTicks < Word
                 PROVE  /\ since_init <= cntcv0 - InitLow
                        /\ cntcv0 - InitLow <= Ahead + MaxPollTicks
      BY <1>1, <1>2, <1>3 DEF PollsFollow, Polling
    <2>1. since_init <= Ahead + unpolled BY <1>2 DEF PollsFollow
    <2>2. InitLow + since_init < Word BY <1>1, <1>3, <2>1
    <2>3. cntcv0 = InitLow + since_init BY <2>2 DEF CounterFollows
    <2> QED BY <1>1, <1>3, <2>1, <2>3
  <1> QED BY <1>4, <1>5

LEMMA StartMsDelayOnTime == TimerInv /\ OnTimeInv /\ StartMsDelay => OnTimeInv'
  <1> SUFFICES ASSUME TimerInv, OnTimeInv, StartMsDelay PROVE OnTimeInv' OBVIOUS
  <1> USE DEF getTicks, timerUse, msDelay, timed, CallGetTicks, OnTimeInv
  <1>1. /\ ret = "ms_delay" /\ pc = "ms_delay" /\ ticks = Base + low /\ low \in 0 .. Word - 1
        /\ Base \in Nat /\ since_init \in 0 .. Word /\ unpolled \in 0 .. MaxPollTicks
        /\ MaxPollTicks \in Nat /\ Word \in Nat
    BY BaseFits, HalfWord, PollAssumption DEF TimerInv, StartMsDelay, ReadInv, Returns, TypeOK
  <1>2. /\ pc' = "initial_high" /\ ret' = "poll" /\ InitLow' = low
        /\ cntcv0' = cntcv0 /\ since_init' = since_init /\ unpolled' = unpolled
    BY <1>1, HalfWord DEF StartMsDelay, InitLow, Base
  <1>3. since_init <= unpolled /\ (low + since_init < Word => cntcv0 = low + since_init)
    BY <1>1 DEF CounterFollows
  <1>4. CounterFollows' BY <1>1, <1>2, <1>3 DEF CounterFollows, Polling
  <1>5. Ahead' = Ahead /\ Ahead \in Int /\ Ahead >= 0
    <2>1. delay' = delay /\ delay \in Int BY DEF StartMsDelay, TimerInv, TypeOK
    <2>2. delay * TicksPerMs \in Int /\ (delay > 0 => delay * TicksPerMs >= 0)
      BY <2>1, TicksAssumption
    <2> QED BY <2>1, <2>2 DEF Ahead
  <1>6. PollsFollow'
    <2>1. Ahead \in Int /\ Ahead >= 0 BY <1>5
    <2>2. since_init \in Int /\ unpolled \in Int /\ since_init <= unpolled
      BY <1>1, <1>3
    <2>3. since_init <= Ahead + unpolled BY <2>1, <2>2
    <2>4. since_init' <= Ahead' + unpolled' BY <1>2, <1>5, <2>3
    <2> QED BY <1>2, <2>4 DEF PollsFollow
  <1> QED BY <1>4, <1>6

LEMMA PollOnTime == TimerInv /\ OnTimeInv /\ PollMsDelay => OnTimeInv'
  <1> SUFFICES ASSUME TimerInv, OnTimeInv, PollMsDelay PROVE OnTimeInv' OBVIOUS
  <1> USE DEF getTicks, timerUse, msDelay, timed, CallGetTicks, OnTimeInv
  <1>1. pc = "poll" /\ ret = "poll" /\ ret' = "poll" /\ ticks = Base + low /\ Polling
    BY DEF TimerInv, PollMsDelay, ReadInv, Returns, Polling
  <1>2. /\ low \in 0 .. Word - 1 /\ since_init \in 0 .. Word /\ unpolled \in 0 .. MaxPollTicks
        /\ Base \in Nat /\ MaxPollTicks \in Nat /\ Word \in Nat
    BY BaseFits, HalfWord, PollAssumption DEF TimerInv, TypeOK
  <1>3. /\ low' = low /\ InitLow' = InitLow /\ Ahead' = Ahead /\ cntcv0' = cntcv0
        /\ since_init' = since_init /\ unpolled' = unpolled
        /\ pc' = IF StillWaiting THEN "initial_high" ELSE "done"
    BY DEF PollMsDelay, InitLow, Ahead
  <1>4. Ahead \in 0 .. Word - 1 /\ InitLow \in 0 .. Word - 1 BY <1>1, PollRange
  <1>5. CounterFollows' BY <1>1, <1>3 DEF CounterFollows, Polling
  <1>6. StillWaiting => low - InitLow < Ahead
    <2>1. Deadline \in Int /\ Deadline <= Base + InitLow + Ahead BY <1>1, DeadlineNear
    <2> QED BY <1>1, <1>2, <1>4, <2>1 DEF StillWaiting
  <1>7. PollsFollow' BY <1>1, <1>2, <1>3, <1>4, <1>6 DEF PollsFollow
  <1> QED BY <1>5, <1>7

LEMMA OtherOnTime ==
  ASSUME TimerInv, OnTimeInv,
         \/ RunContextLoader \/ StaticImageDelay \/ Return \/ ReadInitialHigh \/ ReadHigh
         \/ StartTimer \/ LoadFinished \/ StopTimer \/ UNCHANGED vars
  PROVE  OnTimeInv'
  <1> USE DEF getTicks, timerUse, msDelay, timed, CallGetTicks, CallMsDelay, OnTimeInv,
              CounterFollows, PollsFollow, Polling, InitLow, Ahead
  <1>1. CASE RunContextLoader BY <1>1 DEF RunContextLoader
  <1>2. CASE StaticImageDelay BY <1>2 DEF StaticImageDelay
  <1>3. CASE Return BY <1>3 DEF Return
  <1>4. CASE ReadInitialHigh BY <1>4 DEF ReadInitialHigh
  <1>5. CASE ReadHigh BY <1>5 DEF ReadHigh, TimerInv, ReadInv, Returns
  <1>6. CASE StartTimer BY <1>6 DEF StartTimer, TimerInv, ReadInv, Returns
  <1>7. CASE LoadFinished BY <1>7 DEF LoadFinished, TimerInv, CallInv
  <1>8. CASE StopTimer BY <1>8 DEF StopTimer, TimerInv, ReadInv, Returns
  <1>9. CASE UNCHANGED vars BY <1>9 DEF vars
  <1> QED BY <1>1, <1>2, <1>3, <1>4, <1>5, <1>6, <1>7, <1>8, <1>9

LEMMA OnTimeInvariance == Spec => []OnTimeInv
  <1>1. Init => OnTimeInv
    BY DEF Init, OnTimeInv, CounterFollows, PollsFollow, Polling
  <1>2. TimerInv /\ OnTimeInv /\ [Next]_vars => OnTimeInv'
    BY TickOnTime, ReadLowOnTime, StartMsDelayOnTime, PollOnTime, OtherOnTime DEF Next, PD
  <1> QED BY <1>1, <1>2, TimerInvariance, PTL DEF Spec

(* ms_delay() notices the end of a delay at the next read, if the lower     *)
(* half of the counter does not wrap before.                               *)
THEOREM DelaysEndOnTime == Spec => []OnTime
  <1>1. TimerInv /\ OnTimeInv => OnTime
    <2> SUFFICES ASSUME TimerInv, OnTimeInv, Polling, BeforeWrap
                 PROVE  since_init <= Ahead + 2 * MaxPollTicks
      BY DEF OnTime
    <2>1. /\ Ahead \in 0 .. Word - 1 /\ InitLow \in 0 .. Word - 1
          /\ timer_count_init = Base + InitLow
      BY PollRange DEF OnTimeInv
    <2>2. timer_count_init % Word = InitLow BY <2>1, BaseFits
    <2>3. /\ low \in 0 .. Word - 1 /\ since_init \in 0 .. Word /\ unpolled \in 0 .. MaxPollTicks
          /\ MaxPollTicks \in Nat /\ Word \in Nat
      BY HalfWord, PollAssumption DEF TimerInv, TypeOK
    <2>4. InitLow + Ahead + MaxPollTicks < Word BY <2>2 DEF BeforeWrap
    <2> QED BY <2>1, <2>3, <2>4 DEF OnTimeInv, CounterFollows, PollsFollow
  <1> QED BY <1>1, TimerInvariance, OnTimeInvariance, PTL

(* Every variable of timer.c keeps within its C type.                      *)
THEOREM TimerTypes == Spec => []TypeOK
  <1>1. TimerInv => TypeOK BY DEF TimerInv
  <1> QED BY <1>1, TimerInvariance, PTL

(* ms_delay() never returns early.                                         *)
THEOREM DelaysAreKept == Spec => []NeverEarly
  <1>1. TimerInv => NeverEarly BY DEF TimerInv
  <1> QED BY TimerInvariance, <1>1, PTL

(* A frame of a moving image lasts its ms_delay.                           *)
THEOREM FramesLast == Spec => []FrameLasts
  <1>1. TimerInv => FrameLasts BY DEF TimerInv
  <1> QED BY TimerInvariance, <1>1, PTL

(* stop_timer() is exact across the wrap of the lower half.                *)
THEOREM LoadsAreMeasured == Spec => []MeasuredExactly
  <1>1. TimerInv => MeasuredExactly BY StopTimerMeasures DEF MeasuredExactly
  <1> QED BY TimerInvariance, <1>1, PTL

-----------------------------------------------------------------------------
(* KeepAlive: the firmware given up stood still.                           *)

(* What the looks of a check ask for together.                              *)
LEMMA LooksAddUp ==
  ASSUME Check!ConstantsFit, NEW n \in 0 .. Retries
  PROVE  /\ n * UsTicks \in Nat /\ Check!Asked \in Nat /\ n * UsTicks <= Check!Asked
         /\ n = Retries => n * UsTicks = Check!Asked
         /\ n > 0 => (n - 1) * UsTicks \in Nat /\ n * UsTicks = (n - 1) * UsTicks + UsTicks
  <1>1. Retries \in Nat /\ UsTicks \in Nat BY DEF Check!ConstantsFit
  <1>2. n * UsTicks \in Nat /\ Retries * UsTicks \in Nat BY <1>1
  <1>3. (Retries - n) * UsTicks >= 0 BY <1>1
  <1>4. n * UsTicks <= Retries * UsTicks BY <1>1, <1>3
  <1>5. ASSUME n > 0
        PROVE  (n - 1) * UsTicks \in Nat /\ n * UsTicks = (n - 1) * UsTicks + UsTicks
    BY <1>1, <1>5
  <1> QED BY <1>2, <1>4, <1>5 DEF Check!Asked

(* No check has begun.                                                     *)
LEMMA StillInit == ASSUME Check!ConstantsFit PROVE Check!Init => Check!StillInv
  <1> SUFFICES ASSUME Check!Init PROVE Check!StillInv OBVIOUS
  <1>1. /\ Retries \in Nat \ {0} /\ MaxPollTicks \in Nat \ {0} /\ CntValues \in Nat \ {0}
        /\ Check!Asked \in Nat
    BY DEF Check!ConstantsFit, Check!Asked
  <1>2. /\ retries_left = Retries /\ unread = 0 /\ elapsed = 0 /\ u_delay_init = 0 /\ moves = 0
        /\ keep_alive \in 0 .. CntValues - 1 /\ alive = 0 /\ at = "idle"
        /\ cntcv0 \in 0 .. Word - 1
    BY DEF Check!Init
  <1>3. Check!TypeOK BY <1>1, <1>2 DEF Check!TypeOK
  <1> QED
    BY <1>2, <1>3 DEF Check!StillInv, Check!MovesFollow, Check!Checking, Check!InLoop,
                      Check!InDelay, Check!InLook, Check!GivingUp

(* The firmware's counter goes up by one, or round.                        *)
LEMMA KeepAliveMoves ==
  ASSUME CntValues \in Nat \ {0}, keep_alive \in 0 .. CntValues - 1
  PROVE  (keep_alive + 1) % CntValues =
            IF keep_alive = CntValues - 1 THEN 0 ELSE keep_alive + 1
  <1>1. CASE keep_alive = CntValues - 1
    <2>1. CntValues * 1 + 0 = keep_alive + 1 /\ 0 \in 0 .. CntValues - 1 BY <1>1
    <2>2. (CntValues * 1 + 0) % CntValues = 0 BY <2>1, RemainderOf
    <2> QED BY <1>1, <2>1, <2>2
  <1>2. CASE keep_alive # CntValues - 1
    <2>1. CntValues * 0 + (keep_alive + 1) = keep_alive + 1 /\ keep_alive + 1 \in 0 .. CntValues - 1
      BY <1>2
    <2>2. (CntValues * 0 + (keep_alive + 1)) % CntValues = keep_alive + 1 BY <2>1, RemainderOf
    <2> QED BY <1>2, <2>1, <2>2
  <1> QED BY <1>1, <1>2

LEMMA StillStep ==
  ASSUME Check!ConstantsFit
  PROVE  Check!StillInv /\ [Check!Next]_(Check!vars) => Check!StillInv'
  <1> SUFFICES ASSUME Check!StillInv, [Check!Next]_(Check!vars) PROVE Check!StillInv'
    OBVIOUS
  <1> USE DEF Check!TypeOK
  <1>c. /\ Word \in Nat \ {0} /\ CNTCR \in Nat /\ Retries \in Nat \ {0} /\ UsTicks \in Nat \ {0}
        /\ MaxPollTicks \in Nat \ {0} /\ CntValues \in Nat \ {0} /\ CNTCR * Word \in Nat
    BY DEF Check!ConstantsFit
  <1> DEFINE n == Check!Looks
             d == cntcv0 - Check!InitLow
             A == Check!Asked
  <1>n. n \in 0 .. Retries BY <1>c DEF Check!StillInv, Check!Looks
  <1>p. /\ n * UsTicks \in Nat /\ A \in Nat /\ n * UsTicks <= A
        /\ n = Retries => n * UsTicks = A
        /\ n > 0 => (n - 1) * UsTicks \in Nat /\ n * UsTicks = (n - 1) * UsTicks + UsTicks
    <2> HIDE DEF n
    <2> QED BY <1>n, LooksAddUp
  <1>a. Check!Asked' = A BY DEF Check!Asked
  <1>1. CASE Check!ReadAlive
    <2>1. /\ alive' = keep_alive /\ retries_left' = Retries /\ at' = "loop" /\ unread' = 0
          /\ elapsed' = 0 /\ moves' = 0 /\ UNCHANGED <<cntcv0, keep_alive, u_delay_init>>
      BY <1>1 DEF Check!ReadAlive
    <2>2. Check!TypeOK' BY <1>c, <1>p, <1>a, <2>1 DEF Check!StillInv
    <2>3. Check!Looks' = 0 BY <1>c, <2>1 DEF Check!Looks
    <2>4. Check!InLoop' BY <1>c, <2>1, <2>3 DEF Check!InLoop, Check!Lasted
    <2>5. Check!MovesFollow' BY <1>c, <2>1 DEF Check!StillInv, Check!MovesFollow
    <2> QED
      BY <1>c, <2>1, <2>2, <2>4, <2>5 DEF Check!StillInv, Check!InDelay, Check!InLook,
                                          Check!GivingUp
  <1>2. CASE Check!StartDelay
    <2>1. /\ at = "loop" /\ retries_left > 0 /\ retries_left' = retries_left - 1
          /\ u_delay_init' = CNTCR * Word + cntcv0 /\ at' = "delay" /\ unread' = 0
          /\ UNCHANGED <<cntcv0, keep_alive, alive, elapsed, moves>>
      BY <1>2 DEF Check!StillInv, Check!StartDelay, Check!GivesUp, Check!RetriesAfter,
                  Check!get_ticks, Check!history
    <2>2. Check!TypeOK' BY <2>1, <1>c, <1>a DEF Check!StillInv
    <2>3. Check!InitLow' = cntcv0 BY <2>1, <1>c DEF Check!StillInv, Check!InitLow
    <2>4. (Check!Looks - 1)' = n BY <2>1, <1>c DEF Check!StillInv, Check!Looks
    <2>5. elapsed >= n * UsTicks BY <2>1 DEF Check!StillInv, Check!InLoop, Check!Lasted
    <2>6. Check!MovesFollow' BY <2>1 DEF Check!StillInv, Check!MovesFollow, Check!Checking
    <2>7. Check!InDelay'
      <3>1. cntcv0' - Check!InitLow' = 0 BY <2>1, <2>3 DEF Check!StillInv
      <3>2. 0 \in 0 .. UsTicks - 1 BY <1>c
      <3>3. elapsed' >= (Check!Looks - 1)' * UsTicks + 0
        <4> HIDE DEF n
        <4> QED BY <2>1, <2>4, <2>5, <1>p
      <3>4. retries_left' < Retries BY <2>1, <1>c DEF Check!StillInv
      <3>5. Check!InitLow' \in 0 .. Word - 1 BY <2>3 DEF Check!StillInv
      <3> QED BY <3>1, <3>2, <3>3, <3>4, <3>5 DEF Check!InDelay
    <2> QED BY <2>1, <2>2, <2>6, <2>7 DEF Check!StillInv, Check!InLoop, Check!InLook, Check!GivingUp
  <1>3. CASE Check!PollDelay
    <2>1. /\ at = "delay" /\ unread' = 0
          /\ at' = IF d < UsTicks THEN "delay" ELSE "look"
          /\ UNCHANGED <<cntcv0, keep_alive, alive, retries_left, u_delay_init, elapsed, moves>>
      BY <1>3, <1>c DEF Check!StillInv, Check!PollDelay, Check!get_ticks, Check!InitLow,
                        Check!history
    <2>2. Check!TypeOK' BY <2>1, <1>c, <1>a DEF Check!StillInv
    <2>3. Check!MovesFollow' BY <2>1 DEF Check!StillInv, Check!MovesFollow, Check!Checking
    <2>4. /\ Check!InitLow' = Check!InitLow /\ Check!Looks' = n /\ (Check!Stuck <=> Check!Stuck')
      BY <2>1 DEF Check!InitLow, Check!Looks, Check!Stuck
    <2>5. Check!InitLow \in 0 .. Word - 1 /\ retries_left < Retries /\ d \in Int
      BY <2>1, <1>c DEF Check!StillInv, Check!InDelay
    <2>6. CASE d < UsTicks
      <3>1. at' = "delay" BY <2>1, <2>6
      <3>2. Check!InDelay' BY <2>1, <2>4 DEF Check!StillInv, Check!InDelay, Check!Lasted
      <3> QED BY <3>1, <3>2, <2>2, <2>3 DEF Check!StillInv, Check!InLoop, Check!InLook, Check!GivingUp
    <2>7. CASE ~(d < UsTicks)
      <3>1. at' = "look" BY <2>1, <2>7
      <3>2. ~Check!Stuck BY <2>5, <2>7, <1>c DEF Check!StillInv, Check!Stuck
      <3>3. ~(d \in 0 .. UsTicks - 1) BY <2>7, <1>c
      <3>4. Check!Lasted(n) BY <2>1, <3>2, <3>3 DEF Check!StillInv, Check!InDelay
      <3>5. Check!InLook' BY <2>1, <2>4, <2>5, <3>4 DEF Check!InLook, Check!Lasted
      <3> QED BY <3>1, <3>5, <2>2, <2>3 DEF Check!StillInv, Check!InLoop, Check!InDelay, Check!GivingUp
    <2> QED BY <2>6, <2>7
  <1>4. CASE Check!Look
    <2>1. /\ at = "look" /\ unread' = 0
          /\ at' = IF keep_alive # alive THEN "ok" ELSE "loop"
          /\ UNCHANGED <<cntcv0, keep_alive, alive, retries_left, u_delay_init, elapsed, moves>>
      BY <1>4 DEF Check!Look, Check!Moved, Check!history
    <2>2. Check!TypeOK' BY <2>1, <1>c, <1>a DEF Check!StillInv
    <2>3. CASE keep_alive # alive
      BY <2>1, <2>2, <2>3 DEF Check!StillInv, Check!MovesFollow, Check!Checking, Check!InLoop,
                              Check!InDelay, Check!InLook, Check!GivingUp
    <2>4. CASE keep_alive = alive
      <3>1. at' = "loop" BY <2>1, <2>4
      <3>2. /\ elapsed >= n * UsTicks /\ Check!Looks' = n
            /\ moves < CntValues => keep_alive \in {alive + moves, alive + moves - CntValues}
        BY <2>1 DEF Check!StillInv, Check!InLook, Check!Lasted, Check!Looks, Check!MovesFollow,
                    Check!Checking
      <3>3. moves \in {0, CntValues} BY <2>4, <3>2, <1>c DEF Check!StillInv
      <3>4. Check!MovesFollow'
        BY <2>1, <3>2 DEF Check!StillInv, Check!MovesFollow
      <3>5. Check!InLoop' BY <2>1, <3>2 DEF Check!InLoop, Check!Lasted
      <3>6. retries_left' = 0 => moves' \in {0, CntValues} /\ elapsed' >= A
        <4>1. retries_left = 0 => n = Retries BY <1>c DEF Check!Looks
        <4> HIDE DEF n
        <4> QED BY <2>1, <3>2, <3>3, <4>1, <1>p
      <3> QED
        BY <2>2, <3>1, <3>4, <3>5, <3>6, <1>a DEF Check!StillInv, Check!InDelay, Check!InLook,
                                                  Check!GivingUp
    <2> QED BY <2>3, <2>4
  <1>5. CASE Check!Abort
    BY <1>5 DEF Check!StillInv, Check!Abort, Check!GivesUp, Check!MovesFollow, Check!Checking,
                Check!InLoop, Check!InDelay, Check!InLook, Check!GivingUp, Check!history,
                Check!Asked
  <1>6. CASE Check!NextImage
    <2>1. /\ at' = "idle" /\ alive' = 0 /\ u_delay_init' = 0 /\ unread' = 0 /\ elapsed' = 0
          /\ moves' = 0 /\ UNCHANGED <<cntcv0, keep_alive, retries_left>>
      BY <1>6 DEF Check!NextImage
    <2>2. Check!TypeOK' BY <2>1, <1>c, <1>p, <1>a DEF Check!StillInv
    <2> QED
      BY <2>1, <2>2 DEF Check!StillInv, Check!MovesFollow, Check!Checking, Check!InLoop,
                        Check!InDelay, Check!InLook, Check!GivingUp
  <1>7. CASE Check!Tick
    <2>1. /\ Check!Checking => unread < MaxPollTicks
          /\ cntcv0' = IF cntcv0 = Word - 1 THEN 0 ELSE cntcv0 + 1
          /\ Check!Checking => unread' = unread + 1
          /\ Check!Checking => elapsed' = IF elapsed < A THEN elapsed + 1 ELSE elapsed
          /\ ~Check!Checking => unread' = unread /\ elapsed' = elapsed
          /\ UNCHANGED <<keep_alive, at, alive, retries_left, u_delay_init, moves>>
      BY <1>7 DEF Check!Tick, Check!UpTo
    <2>2. Check!TypeOK'
      <3>1. elapsed' \in 0 .. A
        <4> HIDE DEF A
        <4> QED BY <2>1, <1>p DEF Check!StillInv, Check!TypeOK, A
      <3>2. unread' \in 0 .. MaxPollTicks BY <2>1, <1>c DEF Check!StillInv
      <3>3. cntcv0' \in 0 .. Word - 1 BY <2>1, <1>c DEF Check!StillInv
      <3> QED BY <2>1, <3>1, <3>2, <3>3, <1>a DEF Check!StillInv
    <2>3. /\ Check!Looks' = n /\ Check!InitLow' = Check!InitLow /\ (Check!Stuck' <=> Check!Stuck)
          /\ (Check!Checking' <=> Check!Checking)
      BY <2>1 DEF Check!Looks, Check!InitLow, Check!Stuck, Check!Checking
    <2>4. Check!MovesFollow' BY <2>1, <2>3 DEF Check!StillInv, Check!MovesFollow
    <2>5. elapsed \in Nat /\ elapsed' \in Nat /\ elapsed' >= elapsed
      <3>1. elapsed \in 0 .. A BY DEF Check!StillInv
      <3> HIDE DEF A
      <3> QED BY <2>1, <3>1, <1>p
    <2>6. Check!Lasted(n) => Check!Lasted(Check!Looks)'
      <3> HIDE DEF n
      <3> QED BY <2>3, <2>5, <1>p DEF Check!Lasted
    <2>7. Check!InLoop' /\ Check!InLook'
      BY <2>1, <2>6 DEF Check!StillInv, Check!InLoop, Check!InLook
    <2>8. Check!InDelay'
      <3> SUFFICES ASSUME at = "delay" PROVE Check!InDelay' BY <2>1 DEF Check!InDelay
      <3>1. Check!InitLow \in 0 .. Word - 1 /\ retries_left < Retries
        BY DEF Check!StillInv, Check!InDelay
      <3>2. n > 0 BY <3>1, <1>c DEF Check!StillInv, Check!Looks
      <3>3. ASSUME ~Check!Stuck, ~Check!Lasted(n)
            PROVE  \/ Check!Lasted(Check!Looks)'
                   \/ /\ d' \in 0 .. UsTicks - 1
                      /\ elapsed' >= (Check!Looks - 1)' * UsTicks + d'
        <4>1. d \in 0 .. UsTicks - 1 /\ elapsed >= (n - 1) * UsTicks + d
          BY <3>3 DEF Check!StillInv, Check!InDelay
        <4>2. cntcv0 # Word - 1 /\ cntcv0 \in 0 .. Word - 1
          BY <3>1, <3>3, <4>1, <1>c DEF Check!StillInv, Check!Stuck
        <4>3. d' = d + 1 BY <2>1, <2>3, <3>1, <4>2, <1>c
        <4>4. elapsed' = elapsed + 1
          <5>1. Check!Checking BY DEF Check!Checking
          <5>2. elapsed < n * UsTicks
            <6> HIDE DEF n
            <6> QED BY <3>3, <2>5, <1>p DEF Check!Lasted
          <5> HIDE DEF n, A
          <5> QED BY <2>1, <2>5, <5>1, <5>2, <1>p
        <4>5. elapsed' >= (n - 1) * UsTicks + d'
          <5> HIDE DEF n, d
          <5> QED BY <4>1, <4>3, <4>4, <3>2, <2>5, <1>p
        <4>6. CASE d + 1 < UsTicks
          <5>1. d' \in 0 .. UsTicks - 1
            <6> HIDE DEF d
            <6> QED BY <4>1, <4>3, <4>6, <1>c
          <5> QED BY <4>5, <5>1, <2>3
        <4>7. CASE ~(d + 1 < UsTicks)
          <5>1. elapsed' >= n * UsTicks
            <6> HIDE DEF n, d
            <6> QED BY <4>1, <4>3, <4>5, <4>7, <3>2, <2>5, <1>p, <1>c
          <5> QED BY <5>1, <2>3 DEF Check!Lasted
        <4> QED BY <4>6, <4>7
      <3>4. Check!InitLow' \in 0 .. Word - 1 /\ retries_left' < Retries BY <2>1, <2>3, <3>1
      <3> QED BY <2>3, <2>6, <3>3, <3>4 DEF Check!InDelay
    <2>9. Check!GivingUp' => moves' \in {0, CntValues} /\ elapsed' >= A
      BY <2>1 DEF Check!StillInv, Check!GivingUp, Check!Checking
    <2> QED BY <2>2, <2>4, <2>7, <2>8, <2>9, <1>a DEF Check!StillInv
  <1>8. CASE Check!FirmwareMoves
    <2>1. /\ keep_alive' = IF keep_alive = CntValues - 1 THEN 0 ELSE keep_alive + 1
          /\ Check!Checking => moves' = IF moves < CntValues THEN moves + 1 ELSE moves
          /\ ~Check!Checking => moves' = moves
          /\ UNCHANGED <<cntcv0, at, alive, retries_left, u_delay_init, unread, elapsed>>
      BY <1>8, <1>c, KeepAliveMoves DEF Check!StillInv, Check!FirmwareMoves, Check!UpTo
    <2>2. Check!TypeOK' BY <2>1, <1>c, <1>a DEF Check!StillInv
    <2>3. Check!MovesFollow'
      <3> SUFFICES ASSUME Check!Checking, moves' < CntValues
                   PROVE  keep_alive' \in {alive + moves', alive + moves' - CntValues}
        BY <2>1 DEF Check!MovesFollow, Check!Checking
      <3>1. moves < CntValues /\ moves' = moves + 1 BY <2>1, <1>c DEF Check!StillInv
      <3>2. keep_alive \in {alive + moves, alive + moves - CntValues}
        BY <3>1 DEF Check!StillInv, Check!MovesFollow
      <3> QED BY <2>1, <3>1, <3>2, <1>c DEF Check!StillInv
    <2>4. /\ Check!Looks' = Check!Looks /\ Check!InitLow' = Check!InitLow
          /\ (Check!Stuck' <=> Check!Stuck)
      BY <2>1 DEF Check!Looks, Check!InitLow, Check!Stuck
    <2>5. Check!InLoop' /\ Check!InDelay' /\ Check!InLook'
      BY <2>1, <2>4 DEF Check!StillInv, Check!InLoop, Check!InDelay, Check!InLook, Check!Lasted
    <2>6. Check!GivingUp' => moves' \in {0, CntValues} /\ elapsed' >= A
      BY <2>1 DEF Check!StillInv, Check!GivingUp, Check!Checking
    <2> QED BY <2>2, <2>3, <2>5, <2>6, <1>a DEF Check!StillInv
  <1>9. CASE UNCHANGED Check!vars
    BY <1>9 DEF Check!vars, Check!history, Check!StillInv, Check!MovesFollow, Check!Checking,
                Check!InLoop, Check!InDelay, Check!InLook, Check!GivingUp, Check!Looks,
                Check!InitLow, Check!Stuck, Check!Lasted, Check!Asked
  <1> QED BY <1>1, <1>2, <1>3, <1>4, <1>5, <1>6, <1>7, <1>8, <1>9 DEF Check!Next, Check!PD

(* cdn_api_checkalive() returns CDN_BSY, for which the driver is aborted,   *)
(* only when the firmware's counter has not moved since it was first read,  *)
(* or has come round, and only when all the delays have passed: for every   *)
(* number of looks, length of a delay and width of either counter, however  *)
(* fast the firmware counts, wherever the system counter wraps, and however *)
(* far apart the PD's reads of it lie.                                     *)
THEOREM AbortedOnlyIfStill ==
  ASSUME Check!ConstantsFit
  PROVE  Check!Spec => []GivenUpOnlyIfStill
  <1>1. Check!Init => Check!StillInv BY StillInit
  <1>2. Check!StillInv /\ [Check!Next]_(Check!vars) => Check!StillInv' BY StillStep
  <1>3. Check!StillInv => GivenUpOnlyIfStill
    BY DEF Check!StillInv, Check!GivingUp, Check!GivenUpOnlyIfStill, GivenUpOnlyIfStill
  <1> QED BY <1>1, <1>2, <1>3, PTL DEF Check!Spec

=============================================================================
