--------------------------------- MODULE Clock ---------------------------------
(***************************************************************************)
(* Time on the board: sys_tick_handler() and _times() of l4/init.c, the    *)
(* delays that the runners of benchmarks.c print, and the timers that wamr *)
(* and wasm3 offer to the benchmark (start_time, stop_time, get_time and   *)
(* get_milsecs of main.c and benchmarks.c).                                *)
(*                                                                         *)
(* All readings are of type clock_t, an unsigned integer of Word values;   *)
(* they are multiplied by 1000 before they are divided by CLOCKS_PER_SEC.  *)
(***************************************************************************)
EXTENDS Integers

CONSTANTS
  Word,          (* Values of uint32_t and of clock_t: 2^32.               *)
  Second,        (* Milliseconds of a second: 1000.                        *)
  ClocksPerSec,  (* CLOCKS_PER_SEC of the C library: 100.                  *)
  MaxNow         (* Bound: milliseconds of a behaviour.                    *)

ASSUME ClockAssumption ==
  /\ Word \in Nat \ {0} /\ Word % 2 = 0
  /\ ClocksPerSec \in Nat \ {0, 1}
  /\ Second \in Nat \ {0} /\ Second % ClocksPerSec = 0
  /\ MaxNow \in Nat

VARIABLES
  now,            (* History: the milliseconds that have passed.           *)
  ms_since_boot,  (* uint32_t.                                             *)
  second,         (* What the second delay of this firmware is.            *)
  at,             (* Where the runner is.                                  *)
  start,          (* clock_t start of the runner.                          *)
  startAt,        (* History: when it was read.                            *)
  printed,        (* The last line with a delay, and the times it is of.   *)
  timer,          (* start_msecs and stop_msecs, both int32_t.             *)
  timerAt         (* History: when they were read.                         *)

runner == <<second, at, start, startAt, printed>>
guest  == <<timer, timerAt>>
vars   == <<now, ms_since_boot, runner, guest>>

Never == -1      (* Of a reading that has not been made.                   *)

NoLine == [of |-> "none", delay |-> 0, from |-> 0, to |-> 0]

(* Mutant of Times: milliseconds are taken for clock ticks.                *)
TimesInMilliseconds == ms_since_boot

(* _times(), whose only nonzero field clock() returns.                     *)
Times == ms_since_boot \div (Second \div ClocksPerSec)

(* Mutant of Milliseconds: the division by CLOCKS_PER_SEC is missing.      *)
MillisecondsUndivided(ticks) == (ticks * Second) % Word

(* (uint64_t)(clock() * 1000) / CLOCKS_PER_SEC: the product has 32 bits.   *)
Milliseconds(ticks) == ((ticks * Second) % Word) \div ClocksPerSec

(* The value that an int32_t takes.                                        *)
Int32(n) == IF n % Word < Word \div 2 THEN n % Word ELSE (n % Word) - Word

Init ==
  /\ now = 0
  /\ ms_since_boot = 0
  /\ second \in {"none", "measured", "copied"}
  /\ at = "main"
  /\ start = 0
  /\ startAt = Never
  /\ printed = NoLine
  /\ timer = [start |-> 0, stop |-> 0]
  /\ timerAt = [start |-> Never, stop |-> Never]

(* sys_tick_handler(), every millisecond.                                  *)
SysTick ==
  /\ now < MaxNow
  /\ now' = now + 1
  /\ ms_since_boot' = (ms_since_boot + 1) % Word
  /\ UNCHANGED <<runner, guest>>

(* start = clock()                                                         *)
ReadStart == start' = Times /\ startAt' = now

BeginFirst ==
  /\ at = "main"
  /\ ReadStart
  /\ at' = "first"
  /\ UNCHANGED <<now, ms_since_boot, second, printed, guest>>

(* printf(... delay: %ldms, (end - start) * 1000 / CLOCKS_PER_SEC)         *)
PrintDelay(of) ==
  printed' = [of |-> of, delay |-> Int32(Milliseconds((Times - start) % Word)),
              from |-> startAt, to |-> now]

EndFirst ==
  /\ at = "first"
  /\ PrintDelay("first")
  /\ at' = CASE second = "measured" -> "between"
             [] second = "copied"   -> "copy"
             [] second = "none"     -> "done"
  /\ UNCHANGED <<now, ms_since_boot, second, start, startAt, guest>>

(* Mutant of BeginSecond: start is not read again.                         *)
BeginSecondKeepsStart ==
  /\ at = "between"
  /\ startAt' = now
  /\ at' = "second"
  /\ printed' = NoLine
  /\ UNCHANGED <<now, ms_since_boot, second, start, guest>>

(* wamr and wasm3, unless the heap is traced: a second call.               *)
BeginSecond ==
  /\ at = "between"
  /\ ReadStart
  /\ at' = "second"
  /\ printed' = NoLine
  /\ UNCHANGED <<now, ms_since_boot, second, guest>>

EndSecond ==
  /\ at = "second"
  /\ PrintDelay("second")
  /\ at' = "done"
  /\ UNCHANGED <<now, ms_since_boot, second, start, startAt, guest>>

(* wasmi prints the one delay it has measured under both names.            *)
CopyFirst ==
  /\ at = "copy"
  /\ printed' = [printed EXCEPT !.of = "second"]
  /\ at' = "done"
  /\ UNCHANGED <<now, ms_since_boot, second, start, startAt, guest>>

(* Only the benchmark calls the timers, and wasmi has none.                *)
Running == at \in {"first", "second"} /\ second # "copied"

SetTimer(which) ==
  /\ Running
  /\ timer' = [timer EXCEPT ![which] = Int32(Milliseconds(Times))]
  /\ timerAt' = [timerAt EXCEPT ![which] = now]
  /\ UNCHANGED <<now, ms_since_boot, runner>>

start_time == SetTimer("start")

(* Mutant of stop_time: a second stop_time keeps the first reading.        *)
stop_time_once ==
  /\ Running
  /\ timer' = [timer EXCEPT !.stop = IF @ = 0 THEN Int32(Milliseconds(Times)) ELSE @]
  /\ timerAt' = [timerAt EXCEPT !.stop = now]
  /\ UNCHANGED <<now, ms_since_boot, runner>>

stop_time == SetTimer("stop")

(* Mutant of get_time: the stop reading alone.                             *)
get_time_absolute == timer.stop

(* What get_time() returns, at any moment.                                 *)
get_time == Int32(timer.stop - timer.start)

(* What get_milsecs() returns, as an unsigned number.                      *)
get_milsecs == Milliseconds(Times) % Word

Next ==
  \/ SysTick
  \/ BeginFirst \/ EndFirst \/ BeginSecond \/ EndSecond \/ CopyFirst
  \/ start_time \/ stop_time

Spec == Init /\ [][Next]_vars
-------------------------------------------------------------------------------
(* The types.  A delay and a timer are int32_t: after the division by      *)
(* CLOCKS_PER_SEC no product is large enough to make one negative.         *)
TypeOK ==
  /\ now \in 0 .. MaxNow
  /\ ms_since_boot \in 0 .. Word - 1
  /\ second \in {"none", "measured", "copied"}
  /\ at \in {"main", "first", "between", "second", "copy", "done"}
  /\ start \in 0 .. Word - 1
  /\ startAt \in 0 .. MaxNow \cup {Never}
  /\ printed \in [of : {"none", "first", "second"}, delay : 0 .. Word \div 2 - 1,
                  from : 0 .. MaxNow, to : 0 .. MaxNow]
  /\ timer \in [{"start", "stop"} -> 0 .. Word \div 2 - 1]
  /\ timerAt \in [{"start", "stop"} -> 0 .. MaxNow \cup {Never}]

(* The resolution of clock(), in milliseconds.                             *)
Resolution == Second \div ClocksPerSec

Near(value, exact) == value - exact \in -Resolution + 1 .. Resolution - 1

(* ms_since_boot has not wrapped between the two times (49.7 days).        *)
SameCount(from, to) == from \div Word = to \div Word

(* Nor has the product of a reading with 1000 (11.9 hours).                *)
SameProduct(from, to) ==
  LET ticks(t) == (t % Word) \div Resolution
  IN  /\ SameCount(from, to)
      /\ (ticks(from) * Second) \div Word = (ticks(to) * Second) \div Word

(* A printed delay is the time that has passed, to within the resolution   *)
(* of the clock, if the count has not wrapped meanwhile and the time is    *)
(* shorter than the wrap of the product: wherever the product of the       *)
(* single readings would have wrapped.                                     *)
DelayAccurate ==
  printed.of # "none" /\ SameCount(printed.from, printed.to)
      /\ (printed.to - printed.from + Resolution) * ClocksPerSec <= Word =>
    Near(printed.delay, printed.to - printed.from)

(* get_time() after start_time() and stop_time(), in this order, is the    *)
(* time between them, if no product has wrapped between them; it is not    *)
(* enough that the time between them is short.                             *)
TimerAccurate ==
  timerAt.start # Never /\ timerAt.stop >= timerAt.start
      /\ SameProduct(timerAt.start, timerAt.stop) =>
    Near(get_time, timerAt.stop - timerAt.start)

(* What the benchmark measures of itself inside a run is never longer than *)
(* the delay printed for this run.                                         *)
TimerWithinDelay ==
  printed.of # "none" /\ timerAt.start >= printed.from /\ timerAt.stop >= timerAt.start
      /\ timerAt.stop <= printed.to /\ SameProduct(printed.from, printed.to) =>
    get_time <= printed.delay

(* get_milsecs() goes forward except where the product, or the count,      *)
(* wraps.                                                                  *)
MilsecsMonotonic ==
  [][get_milsecs' >= get_milsecs \/ ~SameProduct(now, now')]_vars
===============================================================================
