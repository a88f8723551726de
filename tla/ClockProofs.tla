------------------------------ MODULE ClockProofs ------------------------------
(***************************************************************************)
(* Proofs about module Clock, for every width of the counter, every        *)
(* resolution of clock() and behaviours of any length: types, the printed  *)
(* delays and the timers of the benchmark.                                 *)
(***************************************************************************)
EXTENDS Clock, TLAPS

(* clock() at a time.                                                      *)
Ticks(t) == (t % Word) \div Resolution

(* The shape of the records, for behaviours of any length.                 *)
ClockShape ==
  /\ at \in {"main", "first", "between", "second", "copy", "done"}
  /\ second \in {"none", "measured", "copied"}
  /\ printed \in [of : {"none", "first", "second"}, delay : 0 .. (Word \div 2) - 1,
                  from : Nat, to : Nat]
  /\ timer \in [{"start", "stop"} -> 0 .. (Word \div 2) - 1]
  /\ timerAt \in [{"start", "stop"} -> Nat \cup {Never}]

(* ms_since_boot is the time; start, a printed delay and the two readings  *)
(* of the timer are what the clock gives at the times in the histories.    *)
ClockInv ==
  /\ now \in Nat
  /\ ms_since_boot = now % Word
  /\ at \in {"first", "second"} => startAt \in 0 .. now /\ start = Ticks(startAt)
  /\ at = "copy" => printed.of # "none"
  /\ printed.of # "none" =>
       /\ printed.from <= printed.to
       /\ printed.delay = Int32(Milliseconds((Ticks(printed.to) - Ticks(printed.from)) % Word))
  /\ \A which \in {"start", "stop"} : timerAt[which] # Never =>
       timer[which] = Int32(Milliseconds(Ticks(timerAt[which])))
-------------------------------------------------------------------------------
(* Arithmetic.                                                             *)

LEMMA DivMod ==
  ASSUME NEW a \in Nat, NEW b \in Nat \ {0}
  PROVE  /\ a \div b \in Nat /\ a % b \in 0 .. b - 1
         /\ a = b * (a \div b) + (a % b)
OBVIOUS

LEMMA DivUnique ==
  ASSUME NEW b \in Nat \ {0}, NEW q \in Nat, NEW r \in 0 .. b - 1
  PROVE  (b * q + r) \div b = q /\ (b * q + r) % b = r
OBVIOUS

LEMMA ModSucc ==
  ASSUME NEW a \in Nat, NEW b \in Nat \ {0}
  PROVE  ((a % b) + 1) % b = (a + 1) % b
<1> DEFINE q == a \div b
           r == a % b
<1>1. q \in Nat /\ r \in 0 .. b - 1 /\ a = b * q + r
  BY DivMod
<1> HIDE DEF q, r
<1>2. CASE r + 1 < b
  <2>1. a + 1 = b * q + (r + 1) /\ r + 1 \in 0 .. b - 1
    BY <1>1, <1>2
  <2>2. (b * q + (r + 1)) % b = r + 1
    BY <1>1, <2>1, DivUnique
  <2>3. (r + 1) % b = r + 1
    BY <1>1, <1>2
  <2> QED  BY <2>1, <2>2, <2>3 DEF r
<1>3. CASE r + 1 = b
  <2>1. a + 1 = b * (q + 1) + 0
    BY <1>1, <1>3
  <2>2. (b * (q + 1) + 0) % b = 0
    BY <1>1, DivUnique
  <2>3. (r + 1) % b = 0
    BY <1>1, <1>3
  <2> QED  BY <2>1, <2>2, <2>3 DEF r
<1> QED  BY <1>1, <1>2, <1>3

LEMMA TimesMono ==
  ASSUME NEW a \in Int, NEW b \in Int, NEW c \in Nat, a <= b
  PROVE  a * c <= b * c
OBVIOUS

(* A second is a whole number of the steps of clock().                     *)
LEMMA SecondIs ==
  /\ Resolution \in Nat \ {0}
  /\ Second = Resolution * ClocksPerSec
<1> USE ClockAssumption
<1>1. Second = ClocksPerSec * (Second \div ClocksPerSec) + (Second % ClocksPerSec)
  BY DivMod
<1>2. Second = ClocksPerSec * Resolution /\ Resolution \in Nat
  BY <1>1, DivMod DEF Resolution
<1>3. Resolution # 0
  BY <1>2
<1> QED  BY <1>2, <1>3

(* A reading is a number of the type clock_t.                              *)
LEMMA TicksType ==
  ASSUME NEW t \in Nat
  PROVE  Ticks(t) \in 0 .. Word - 1
<1> USE ClockAssumption
<1> DEFINE m == t % Word
<1>1. m \in Nat /\ m <= Word - 1
  BY DivMod
<1> DEFINE R == Resolution
           q == m \div R
<1>2. R \in Nat \ {0}
  BY SecondIs
<1> HIDE DEF m, R
<1>3. q \in Nat /\ m % R \in 0 .. R - 1 /\ m = R * q + (m % R)
  BY <1>1, <1>2, DivMod
<1> HIDE DEF q
<1>4. 1 * q <= R * q
  BY <1>2, <1>3, TimesMono
<1>5. q \in 0 .. Word - 1
  BY <1>1, <1>2, <1>3, <1>4
<1> QED  BY <1>5 DEF Ticks, m, q, R

(* Milliseconds are never negative as an int32_t.                          *)
LEMMA MillisecondsType ==
  ASSUME NEW n \in Nat
  PROVE  /\ Milliseconds(n) \in 0 .. (Word \div 2) - 1
         /\ Int32(Milliseconds(n)) = Milliseconds(n)
<1> USE ClockAssumption
<1> DEFINE p == (n * Second) % Word
           m == Milliseconds(n)
<1>1. p \in Nat /\ p <= Word - 1
  <2>1. Second \in Nat /\ n * Second \in Nat
    OBVIOUS
  <2> QED  BY <2>1, DivMod
<1>2. m = p \div ClocksPerSec
  BY DEF Milliseconds
<1> HIDE DEF p, m
<1>3. /\ m \in Nat
      /\ p = ClocksPerSec * m + (p % ClocksPerSec)
      /\ p % ClocksPerSec \in 0 .. ClocksPerSec - 1
  BY <1>1, <1>2, DivMod
<1>4. 2 * m <= ClocksPerSec * m
  <2>1. 2 <= ClocksPerSec /\ ClocksPerSec \in Int
    OBVIOUS
  <2> QED  BY <1>3, <2>1, TimesMono
<1>5. 2 * m < Word
  BY <1>1, <1>3, <1>4
<1>6. Word = 2 * (Word \div 2) /\ Word \div 2 \in Nat
  BY DivMod
<1>7. m \in 0 .. (Word \div 2) - 1
  BY <1>3, <1>5, <1>6
<1>8. m % Word = m
  BY <1>3, <1>5
<1> QED  BY <1>7, <1>8 DEF m, Int32

(* Between two times with the same count, d ticks are d steps of the clock *)
(* and differ from the time by less than one step.                         *)
LEMMA TicksApart ==
  ASSUME NEW from \in Nat, NEW to \in Nat, from <= to, SameCount(from, to)
  PROVE  /\ Ticks(to) - Ticks(from) \in Nat
         /\ Near((Ticks(to) - Ticks(from)) * Resolution, to - from)
<1> USE ClockAssumption
<1> DEFINE a == from % Word
           b == to % Word
           R == Resolution
           x == Ticks(from)
           y == Ticks(to)
<1>1. from = Word * (from \div Word) + a /\ a \in Nat
  BY DivMod
<1>2. to = Word * (to \div Word) + b /\ b \in Nat
  BY DivMod
<1>3. b - a = to - from
  BY <1>1, <1>2 DEF SameCount
<1>4. R \in Nat \ {0}
  BY SecondIs
<1>5. x = a \div R /\ y = b \div R
  BY DEF Ticks
<1> HIDE DEF a, b, R, x, y
<1>6. x \in Nat /\ a = R * x + (a % R) /\ a % R \in 0 .. R - 1
  BY <1>1, <1>4, <1>5, DivMod
<1>7. y \in Nat /\ b = R * y + (b % R) /\ b % R \in 0 .. R - 1
  BY <1>2, <1>4, <1>5, DivMod
<1>8. x <= y
  <2> SUFFICES ASSUME y < x PROVE FALSE
    BY <1>6, <1>7
  <2>1. (y + 1) * R <= x * R
    BY <1>4, <1>6, <1>7, TimesMono
  <2> QED  BY <2>1, <1>1, <1>2, <1>3, <1>4, <1>6, <1>7
<1>9. (y - x) * R = R * y - R * x
  BY <1>4, <1>6, <1>7
<1>10. (y - x) * R - (to - from) \in -R + 1 .. R - 1
  BY <1>3, <1>4, <1>6, <1>7, <1>9
<1> QED  BY <1>6, <1>7, <1>8, <1>10 DEF Near, x, y, R

(* The product of d ticks with 1000 gives d steps of the clock, if it does *)
(* not wrap.                                                               *)
LEMMA StepsOf ==
  ASSUME NEW d \in Nat, d * Second < Word
  PROVE  d % Word = d /\ Milliseconds(d) = d * Resolution
<1> USE ClockAssumption
<1>1. d * 1 <= d * Second /\ Second \in Nat
  BY TimesMono
<1>2. d % Word = d
  BY <1>1
<1>3. d * Second \in Nat /\ (d * Second) % Word = d * Second
  BY <1>1
<1>4. d * Second = ClocksPerSec * (d * Resolution) + 0 /\ d * Resolution \in Nat
  BY SecondIs
<1>5. 0 \in 0 .. ClocksPerSec - 1
  OBVIOUS
<1>6. (ClocksPerSec * (d * Resolution) + 0) \div ClocksPerSec = d * Resolution
  BY <1>4, <1>5, DivUnique
<1> QED  BY <1>2, <1>3, <1>4, <1>6 DEF Milliseconds

(* The value that is printed for the time between two readings.            *)
LEMMA DelayOf ==
  ASSUME NEW from \in Nat, NEW to \in Nat, from <= to, SameCount(from, to),
         (to - from + Resolution) * ClocksPerSec <= Word
  PROVE  Near(Int32(Milliseconds((Ticks(to) - Ticks(from)) % Word)), to - from)
<1> USE ClockAssumption
<1> DEFINE d == Ticks(to) - Ticks(from)
           R == Resolution
           C == ClocksPerSec
<1>1. d \in Nat /\ Near(d * R, to - from)
  BY TicksApart
<1>2. R \in Nat \ {0} /\ Second = R * C
  BY SecondIs
<1>3. C \in Nat \ {0}
  OBVIOUS
<1> HIDE DEF d, C
<1>4. d * R + 1 <= to - from + R
  BY <1>1, <1>2 DEF Near
<1>5. (d * R + 1) * C <= (to - from + R) * C
  BY <1>1, <1>2, <1>3, <1>4, TimesMono
<1>6. (d * R + 1) * C = d * Second + C
  BY <1>1, <1>2, <1>3
<1>7. d * Second < Word
  <2>1. (to - from + R) * C <= Word
    BY DEF C
  <2>2. d * Second \in Int /\ (to - from + R) * C \in Int
    BY <1>1, <1>2, <1>3
  <2> QED  BY <1>3, <1>5, <1>6, <2>1, <2>2
<1>8. d % Word = d /\ Milliseconds(d) = d * R
  BY <1>1, <1>7, StepsOf
<1>9. Int32(Milliseconds(d)) = d * R
  BY <1>1, <1>8, MillisecondsType
<1> QED  BY <1>1, <1>8, <1>9 DEF d

(* The difference of two products that have not wrapped between them.      *)
LEMMA ProductsApart ==
  ASSUME NEW m \in Nat, NEW n \in Nat, m <= n,
         (m * Second) \div Word = (n * Second) \div Word
  PROVE  Milliseconds(n) - Milliseconds(m) = (n - m) * Resolution
<1> USE ClockAssumption
<1> DEFINE R == Resolution
           C == ClocksPerSec
           p == (m * Second) % Word
           q == (n * Second) % Word
           k == p \div C
<1>1. R \in Nat \ {0} /\ Second = R * C /\ C \in Nat \ {0}
  BY SecondIs
<1>2. m * Second \in Nat /\ n * Second \in Nat
  OBVIOUS
<1>3. /\ m * Second = Word * ((m * Second) \div Word) + p /\ p \in Nat
      /\ n * Second = Word * ((n * Second) \div Word) + q /\ q \in Nat
  BY <1>2, DivMod
<1>4. q - p = n * Second - m * Second
  BY <1>2, <1>3
<1>5. n * Second - m * Second = C * ((n - m) * R)
  BY <1>1
<1>6. Milliseconds(m) = k /\ Milliseconds(n) = q \div C
  BY DEF Milliseconds
<1> HIDE DEF C, p, q
<1>7. k \in Nat /\ p % C \in 0 .. C - 1 /\ p = C * k + (p % C)
  BY <1>1, <1>3, DivMod
<1> DEFINE s == (n - m) * R
           r == p % C
<1>8. s \in Nat
  BY <1>1
<1>9. q = C * s + C * k + r
  BY <1>1, <1>2, <1>3, <1>4, <1>5, <1>7
<1> HIDE DEF k, s, r
<1>10. C * s + C * k = C * (k + s)
  BY <1>1, <1>7, <1>8
<1>11. q = C * (k + s) + r /\ k + s \in Nat /\ r \in 0 .. C - 1
  BY <1>7, <1>8, <1>9, <1>10 DEF r
<1>12. q \div C = k + s
  BY <1>1, <1>11, DivUnique
<1> QED  BY <1>6, <1>7, <1>8, <1>12 DEF s
-------------------------------------------------------------------------------
(* The invariant.                                                          *)

Inv == ClockShape /\ ClockInv

LEMMA InitInv == Init => Inv
<1> SUFFICES ASSUME Init PROVE Inv
  OBVIOUS
<1> USE ClockAssumption DEF Init
<1>1. 0 \in 0 .. (Word \div 2) - 1
  <2>1. Word = 2 * (Word \div 2) + (Word % 2) /\ Word \div 2 \in Nat
    BY DivMod
  <2> QED  BY <2>1
<1>2. ClockShape
  BY <1>1 DEF ClockShape, NoLine, Never
<1>3. 0 % Word = 0
  OBVIOUS
<1>4. ClockInv
  BY <1>3 DEF ClockInv, NoLine, Never
<1> QED  BY <1>2, <1>4 DEF Inv

(* What _times() gives is the reading of now.                              *)
LEMMA TimesIsTicks ==
  ASSUME Inv
  PROVE  Times = Ticks(now) /\ Times \in 0 .. Word - 1 /\ now \in Nat
BY TicksType DEF Inv, ClockInv, Times, Ticks, Resolution

LEMMA ReadKeeps ==
  ASSUME Inv, ReadStart, UNCHANGED <<now, ms_since_boot, second, guest>>,
         at' \in {"first", "second"}, UNCHANGED printed \/ printed' = NoLine
  PROVE  Inv'
<1> USE ClockAssumption
<1>1. start' = Ticks(now) /\ startAt' = now /\ now \in Nat
  BY TimesIsTicks DEF ReadStart
<1>2. NoLine \in [of : {"none", "first", "second"}, delay : 0 .. (Word \div 2) - 1,
                  from : Nat, to : Nat]
  <2>1. Word = 2 * (Word \div 2) + (Word % 2) /\ Word \div 2 \in Nat
    BY DivMod
  <2> QED  BY <2>1 DEF NoLine
<1>3. ClockShape'
  BY <1>2 DEF Inv, ClockShape, guest
<1>4. now' \in Nat /\ (ms_since_boot = now % Word)'
  BY <1>1 DEF Inv, ClockInv
<1>5. (startAt \in 0 .. now /\ start = Ticks(startAt))'
  BY <1>1 DEF Ticks
<1>6. (printed.of # "none" =>
         /\ printed.from <= printed.to
         /\ printed.delay = Int32(Milliseconds((Ticks(printed.to) - Ticks(printed.from)) % Word)))'
  BY DEF Inv, ClockInv, NoLine
<1>7. (\A which \in {"start", "stop"} : timerAt[which] # Never =>
         timer[which] = Int32(Milliseconds(Ticks(timerAt[which]))))'
  BY DEF Inv, ClockInv, guest
<1>8. ClockInv'
  BY <1>4, <1>5, <1>6, <1>7 DEF ClockInv
<1> QED  BY <1>3, <1>8 DEF Inv

LEMMA PrintKeeps ==
  ASSUME Inv, NEW of \in {"first", "second"}, at = of, PrintDelay(of),
         at' \in {"between", "copy", "done"},
         UNCHANGED <<now, ms_since_boot, second, start, startAt, guest>>
  PROVE  Inv'
<1> USE ClockAssumption
<1>1. start = Ticks(startAt) /\ startAt \in 0 .. now /\ startAt \in Nat
  BY DEF Inv, ClockInv
<1>2. Times = Ticks(now) /\ now \in Nat
  BY TimesIsTicks
<1> DEFINE n == (Ticks(now) - Ticks(startAt)) % Word
<1>3. n \in Nat
  <2>1. Ticks(now) \in Int /\ Ticks(startAt) \in Int
    BY <1>1, <1>2, TicksType
  <2> QED  BY <2>1
<1>4. Int32(Milliseconds(n)) \in 0 .. (Word \div 2) - 1
  BY <1>3, MillisecondsType
<1>5. printed' = [of |-> of, delay |-> Int32(Milliseconds(n)), from |-> startAt, to |-> now]
  BY <1>1, <1>2 DEF PrintDelay
<1> HIDE DEF n
<1>6. ClockShape'
  BY <1>1, <1>2, <1>4, <1>5 DEF Inv, ClockShape, guest
<1>7. now' \in Nat /\ (ms_since_boot = now % Word)'
  BY DEF Inv, ClockInv
<1>8. printed'.from = startAt /\ printed'.to = now
      /\ printed'.delay = Int32(Milliseconds(n))
  BY <1>5
<1>9. (printed.from <= printed.to
       /\ printed.delay = Int32(Milliseconds((Ticks(printed.to) - Ticks(printed.from)) % Word)))'
  BY <1>1, <1>2, <1>8 DEF n
<1>10. (\A which \in {"start", "stop"} : timerAt[which] # Never =>
         timer[which] = Int32(Milliseconds(Ticks(timerAt[which]))))'
  BY DEF Inv, ClockInv, guest
<1>11. at' \notin {"first", "second"} /\ printed'.of # "none"
  BY <1>5
<1>12. ClockInv'
  BY <1>7, <1>9, <1>10, <1>11 DEF ClockInv
<1> QED  BY <1>6, <1>12 DEF Inv

LEMMA TimerKeeps ==
  ASSUME Inv, NEW which \in {"start", "stop"}, SetTimer(which)
  PROVE  Inv'
<1> USE ClockAssumption
<1> USE DEF SetTimer, runner
<1>1. Times = Ticks(now) /\ now \in Nat /\ Times \in Nat
  BY TimesIsTicks
<1> DEFINE v == Int32(Milliseconds(Ticks(now)))
<1>2. v \in 0 .. (Word \div 2) - 1
  BY <1>1, MillisecondsType
<1>3. timer' = [timer EXCEPT ![which] = v] /\ timerAt' = [timerAt EXCEPT ![which] = now]
  BY <1>1
<1>4. ClockShape'
  <2> HIDE DEF v
  <2> QED  BY <1>1, <1>2, <1>3 DEF Inv, ClockShape
<1>5. (now \in Nat /\ ms_since_boot = now % Word)'
  BY DEF Inv, ClockInv
<1>6. (at \in {"first", "second"} => startAt \in 0 .. now /\ start = Ticks(startAt))'
  BY DEF Inv, ClockInv
<1>7. (printed.of # "none" =>
         /\ printed.from <= printed.to
         /\ printed.delay = Int32(Milliseconds((Ticks(printed.to) - Ticks(printed.from)) % Word)))'
  BY DEF Inv, ClockInv
<1>7a. (at = "copy" => printed.of # "none")'
  BY DEF Inv, ClockInv
<1>8. ASSUME NEW w \in {"start", "stop"}, timerAt'[w] # Never
      PROVE  timer'[w] = Int32(Milliseconds(Ticks(timerAt'[w])))
  <2>1. CASE w = which
    <3>1. timer'[w] = v /\ timerAt'[w] = now
      <4> HIDE DEF v
      <4> QED  BY <1>3, <2>1 DEF Inv, ClockShape
    <3> QED  BY <3>1
  <2>2. CASE w # which
    <3>1. timer'[w] = timer[w] /\ timerAt'[w] = timerAt[w]
      BY <1>3, <2>2 DEF Inv, ClockShape
    <3> QED  BY <1>8, <3>1 DEF Inv, ClockInv
  <2> QED  BY <2>1, <2>2
<1>9. ClockInv'
  BY <1>5, <1>6, <1>7, <1>7a, <1>8 DEF ClockInv
<1> QED  BY <1>4, <1>9 DEF Inv

LEMMA NextInv == Inv /\ [Next]_vars => Inv'
<1> SUFFICES ASSUME Inv, [Next]_vars PROVE Inv'
  OBVIOUS
<1> USE ClockAssumption
<1>1. CASE SysTick
  <2>1. now' = now + 1 /\ now \in Nat /\ ms_since_boot' = ((now % Word) + 1) % Word
    BY <1>1 DEF SysTick, Inv, ClockInv
  <2>2. ((now % Word) + 1) % Word = (now + 1) % Word
    BY <2>1, ModSucc
  <2>3. ClockShape'
    BY <1>1 DEF SysTick, Inv, ClockShape, runner, guest
  <2>4. ClockInv'
    BY <1>1, <2>1, <2>2 DEF SysTick, Inv, ClockInv, runner, guest
  <2> QED  BY <2>3, <2>4 DEF Inv
<1>2. CASE BeginFirst
  BY <1>2, ReadKeeps DEF BeginFirst
<1>3. CASE EndFirst
  <2>1. at' \in {"between", "copy", "done"}
    BY <1>3 DEF EndFirst, Inv, ClockShape
  <2> QED  BY <1>3, <2>1, PrintKeeps DEF EndFirst
<1>4. CASE BeginSecond
  BY <1>4, ReadKeeps DEF BeginSecond
<1>5. CASE EndSecond
  BY <1>5, PrintKeeps DEF EndSecond
<1>6. CASE CopyFirst
  <2>1. printed' = [printed EXCEPT !.of = "second"] /\ at' = "done"
        /\ UNCHANGED <<now, ms_since_boot, second, start, startAt, guest>>
    BY <1>6 DEF CopyFirst
  <2>2. printed'.of = "second" /\ printed.of # "none" /\ printed'.from = printed.from
        /\ printed'.to = printed.to /\ printed'.delay = printed.delay
    BY <1>6, <2>1 DEF CopyFirst, Inv, ClockShape, ClockInv
  <2>3. ClockShape'
    BY <2>1 DEF Inv, ClockShape, guest
  <2>4. ClockInv'
    BY <2>1, <2>2 DEF Inv, ClockInv, guest, Ticks
  <2> QED  BY <2>3, <2>4 DEF Inv
<1>7. CASE start_time
  BY <1>7, TimerKeeps DEF start_time
<1>8. CASE stop_time
  BY <1>8, TimerKeeps DEF stop_time
<1>9. CASE UNCHANGED vars
  BY <1>9 DEF vars, runner, guest, Inv, ClockShape, ClockInv, Ticks
<1> QED  BY <1>1, <1>2, <1>3, <1>4, <1>5, <1>6, <1>7, <1>8, <1>9 DEF Next

LEMMA Invariance == Spec => []Inv
<1>1. Init => Inv
  BY InitInv
<1>2. Inv /\ [Next]_vars => Inv'
  BY NextInv
<1> QED  BY <1>1, <1>2, PTL DEF Spec

(* The rest of the types, which only a behaviour without bound lacks.      *)
Bounded ==
  /\ now <= MaxNow
  /\ start \in 0 .. Word - 1
  /\ startAt \in 0 .. now \cup {Never}
  /\ printed.from <= now /\ printed.to <= now
  /\ \A which \in {"start", "stop"} : timerAt[which] <= now

LEMMA Boundedness == Spec => []Bounded
<1> USE ClockAssumption
<1>1. Init => Bounded
  BY DEF Init, Bounded, NoLine, Never
<1>2. Inv /\ Bounded /\ [Next]_vars => Bounded'
  <2> SUFFICES ASSUME Inv, Bounded, [Next]_vars PROVE Bounded'
    OBVIOUS
  <2>1. Times \in 0 .. Word - 1 /\ now \in Nat
    BY TimesIsTicks
  <2>2. CASE SysTick
    BY <2>1, <2>2 DEF SysTick, Bounded, Inv, ClockShape, runner, guest, Never
  <2>3. CASE BeginFirst \/ BeginSecond
    BY <2>1, <2>3 DEF BeginFirst, BeginSecond, ReadStart, Bounded, guest, NoLine, Never
  <2>4. CASE EndFirst \/ EndSecond
    <3>1. startAt \in 0 .. now
      BY <2>4 DEF EndFirst, EndSecond, Inv, ClockInv
    <3>2. printed'.from = startAt /\ printed'.to = now
      BY <2>4 DEF EndFirst, EndSecond, PrintDelay
    <3> QED  BY <2>1, <2>4, <3>1, <3>2 DEF EndFirst, EndSecond, Bounded, guest
  <2>5. CASE CopyFirst
    <3>1. printed'.from = printed.from /\ printed'.to = printed.to
      BY <2>5 DEF CopyFirst, Inv, ClockShape
    <3> QED  BY <2>5, <3>1 DEF CopyFirst, Bounded, guest
  <2>6. ASSUME NEW w \in {"start", "stop"}, SetTimer(w)
        PROVE  Bounded'
    <3>1. \A x \in {"start", "stop"} : timerAt'[x] = IF x = w THEN now ELSE timerAt[x]
      BY <2>6 DEF SetTimer, Inv, ClockShape
    <3> QED  BY <2>1, <2>6, <3>1 DEF SetTimer, Bounded, runner
  <2>7. CASE UNCHANGED vars
    BY <2>7 DEF vars, runner, guest, Bounded
  <2> QED  BY <2>2, <2>3, <2>4, <2>5, <2>6, <2>7 DEF Next, start_time, stop_time
<1> QED  BY <1>1, <1>2, Invariance, PTL DEF Spec
-------------------------------------------------------------------------------
(* Every variable of the clock, of the runner and of the timers keeps its  *)
(* type: the count its 32 bits, delays and timers the nonnegative half of  *)
(* an int32_t.                                                             *)
THEOREM TypeCorrect == Spec => []TypeOK
<1> USE ClockAssumption
<1>1. Inv /\ Bounded => TypeOK
  <2> SUFFICES ASSUME Inv, Bounded PROVE TypeOK
    OBVIOUS
  <2>1. now \in 0 .. MaxNow
    BY DEF Inv, ClockInv, Bounded
  <2>2. ms_since_boot \in 0 .. Word - 1
    BY <2>1, DivMod DEF Inv, ClockInv
  <2>3. printed \in [of : {"none", "first", "second"}, delay : 0 .. (Word \div 2) - 1,
                     from : 0 .. MaxNow, to : 0 .. MaxNow]
    BY <2>1 DEF Inv, ClockShape, Bounded
  <2>4. timerAt \in [{"start", "stop"} -> 0 .. MaxNow \cup {Never}]
    <3>1. \A w \in {"start", "stop"} : timerAt[w] \in 0 .. MaxNow \cup {Never}
      BY <2>1 DEF Inv, ClockShape, Bounded, Never
    <3> QED  BY <3>1 DEF Inv, ClockShape
  <2>5. startAt \in 0 .. MaxNow \cup {Never}
    BY <2>1 DEF Bounded
  <2> QED  BY <2>1, <2>2, <2>3, <2>4, <2>5 DEF TypeOK, Inv, ClockShape, Bounded
<1> QED  BY <1>1, Invariance, Boundedness, PTL

(* A printed delay is the time that has passed, to within the resolution   *)
(* of clock(), as long as the count has not wrapped meanwhile and the time *)
(* itself is shorter than the wrap of the product.                         *)
THEOREM DelayCorrect == Spec => []DelayAccurate
<1>1. Inv => DelayAccurate
  <2> SUFFICES ASSUME Inv, printed.of # "none", SameCount(printed.from, printed.to),
                      (printed.to - printed.from + Resolution) * ClocksPerSec <= Word
               PROVE  Near(printed.delay, printed.to - printed.from)
    BY DEF DelayAccurate
  <2>1. printed.from \in Nat /\ printed.to \in Nat
    BY DEF Inv, ClockShape
  <2>2. printed.from <= printed.to
        /\ printed.delay = Int32(Milliseconds((Ticks(printed.to) - Ticks(printed.from)) % Word))
    BY DEF Inv, ClockInv
  <2> QED  BY <2>1, <2>2, DelayOf
<1> QED  BY <1>1, Invariance, PTL

(* Two readings between which no product has wrapped: their difference in  *)
(* milliseconds, as the timers compute it.                                 *)
LEMMA ReadingsApart ==
  ASSUME NEW from \in Nat, NEW to \in Nat, from <= to, SameProduct(from, to)
  PROVE  /\ Ticks(to) - Ticks(from) \in Nat
         /\ Milliseconds(Ticks(to)) - Milliseconds(Ticks(from))
              = (Ticks(to) - Ticks(from)) * Resolution
         /\ Near((Ticks(to) - Ticks(from)) * Resolution, to - from)
<1>1. SameCount(from, to)
      /\ (Ticks(from) * Second) \div Word = (Ticks(to) * Second) \div Word
  BY DEF SameProduct, Ticks
<1> DEFINE m == Ticks(from)
           n == Ticks(to)
<1>2. m \in Nat /\ n \in Nat
  BY TicksType
<1>3. n - m \in Nat /\ Near((n - m) * Resolution, to - from)
  BY <1>1, TicksApart
<1>4. (m * Second) \div Word = (n * Second) \div Word
  BY <1>1
<1> HIDE DEF m, n
<1>5. m <= n
  BY <1>2, <1>3
<1>6. Milliseconds(n) - Milliseconds(m) = (n - m) * Resolution
  BY <1>2, <1>4, <1>5, ProductsApart
<1> QED  BY <1>3, <1>6 DEF m, n

(* What get_time() returns of two such readings.                           *)
LEMMA TimeOf ==
  ASSUME Inv, timerAt.start # Never, timerAt.stop >= timerAt.start,
         SameProduct(timerAt.start, timerAt.stop)
  PROVE  /\ timerAt.start \in Nat /\ timerAt.stop \in Nat
         /\ get_time = (Ticks(timerAt.stop) - Ticks(timerAt.start)) * Resolution
<1> USE ClockAssumption
<1> DEFINE from == timerAt.start
           to == timerAt.stop
<1>1. from \in Nat /\ to \in Nat /\ to # Never
  BY DEF Inv, ClockShape, Never
<1>2. timer.start = Int32(Milliseconds(Ticks(from)))
      /\ timer.stop = Int32(Milliseconds(Ticks(to)))
  BY <1>1 DEF Inv, ClockInv
<1>3. SameProduct(from, to) /\ from <= to
  BY <1>1
<1> HIDE DEF from, to
<1> DEFINE m == Ticks(from)
           n == Ticks(to)
<1>4. m \in Nat /\ n \in Nat
  BY <1>1, TicksType
<1>5. timer.start = Milliseconds(m) /\ timer.stop = Milliseconds(n)
      /\ Milliseconds(m) \in 0 .. (Word \div 2) - 1
      /\ Milliseconds(n) \in 0 .. (Word \div 2) - 1
  BY <1>2, <1>4, MillisecondsType
<1>6. n - m \in Nat /\ Milliseconds(n) - Milliseconds(m) = (n - m) * Resolution
  BY <1>1, <1>3, ReadingsApart
<1> HIDE DEF m, n
<1> DEFINE g == Milliseconds(n) - Milliseconds(m)
<1>7. g \in 0 .. (Word \div 2) - 1
  <2>1. (n - m) * Resolution \in Nat
    BY <1>6, SecondIs
  <2> QED  BY <1>5, <1>6, <2>1
<1>8. Int32(g) = g
  <2>1. Word = 2 * (Word \div 2) + (Word % 2) /\ Word \div 2 \in Nat
    BY DivMod
  <2> HIDE DEF g
  <2>2. g % Word = g
    BY <1>7, <2>1
  <2> QED  BY <1>7, <2>2 DEF Int32
<1>9. get_time = g
  BY <1>5, <1>8 DEF get_time
<1> QED  BY <1>1, <1>6, <1>9 DEF m, n, from, to

(* get_time() is the time between start_time() and stop_time(), to within  *)
(* the resolution of clock(), if no product has wrapped between them.      *)
THEOREM TimerCorrect == Spec => []TimerAccurate
<1>1. Inv => TimerAccurate
  <2> SUFFICES ASSUME Inv, timerAt.start # Never, timerAt.stop >= timerAt.start,
                      SameProduct(timerAt.start, timerAt.stop)
               PROVE  Near(get_time, timerAt.stop - timerAt.start)
    BY DEF TimerAccurate
  <2>1. /\ timerAt.start \in Nat /\ timerAt.stop \in Nat
        /\ get_time = (Ticks(timerAt.stop) - Ticks(timerAt.start)) * Resolution
    BY TimeOf
  <2> QED  BY <2>1, ReadingsApart
<1> QED  BY <1>1, Invariance, PTL

(* A quotient grows with its dividend.                                     *)
LEMMA DivMono ==
  ASSUME NEW a \in Nat, NEW b \in Nat, a <= b, NEW c \in Nat \ {0}
  PROVE  a \div c <= b \div c
<1> DEFINE x == a \div c
           y == b \div c
<1>1. x \in Nat /\ a % c \in 0 .. c - 1 /\ a = c * x + (a % c)
  BY DivMod
<1>2. y \in Nat /\ b % c \in 0 .. c - 1 /\ b = c * y + (b % c)
  BY DivMod
<1> HIDE DEF x, y
<1>3. ASSUME y < x PROVE FALSE
  <2>1. (y + 1) * c <= x * c
    BY <1>1, <1>2, <1>3, TimesMono
  <2> QED  BY <1>1, <1>2, <2>1
<1>4. x <= y
  BY <1>1, <1>2, <1>3
<1> QED  BY <1>4 DEF x, y

(* What does not wrap in a time does not wrap in a part of it.             *)
LEMMA PartOf ==
  ASSUME NEW a \in Nat, NEW b \in Nat, NEW c \in Nat, NEW d \in Nat,
         a <= b, b <= c, c <= d, SameProduct(a, d)
  PROVE  /\ SameProduct(b, c)
         /\ Ticks(a) <= Ticks(b) /\ Ticks(c) <= Ticks(d)
<1> USE ClockAssumption
<1>1. SameCount(a, d)
      /\ (Ticks(a) * Second) \div Word = (Ticks(d) * Second) \div Word
  BY DEF SameProduct, Ticks
<1>2. ASSUME NEW t \in Nat PROVE t \div Word \in Nat /\ Ticks(t) \in Nat
  <2>1. t \div Word \in Nat
    BY DivMod
  <2>2. Ticks(t) \in 0 .. Word - 1
    BY TicksType
  <2> QED  BY <2>1, <2>2
<1>3. a \div Word <= b \div Word /\ b \div Word <= c \div Word /\ c \div Word <= d \div Word
  <2>1. Word \in Nat \ {0}
    OBVIOUS
  <2>2. a \div Word <= b \div Word
    BY <2>1, DivMono
  <2>3. b \div Word <= c \div Word
    BY <2>1, DivMono
  <2>4. c \div Word <= d \div Word
    BY <2>1, DivMono
  <2> QED  BY <2>2, <2>3, <2>4
<1>4. SameCount(a, b) /\ SameCount(b, c) /\ SameCount(c, d)
  <2> DEFINE v == a \div Word
             w == b \div Word
             x == c \div Word
             y == d \div Word
  <2>1. v \in Nat /\ w \in Nat /\ x \in Nat /\ y \in Nat
    BY <1>2
  <2>2. v = y /\ v <= w /\ w <= x /\ x <= y
    BY <1>1, <1>3 DEF SameCount
  <2> HIDE DEF v, w, x, y
  <2>3. v = w /\ w = x /\ x = y
    BY <2>1, <2>2
  <2> QED  BY <2>3 DEF SameCount, v, w, x, y
<1>5. Ticks(b) - Ticks(a) \in Nat /\ Ticks(c) - Ticks(b) \in Nat /\ Ticks(d) - Ticks(c) \in Nat
  BY <1>4, TicksApart
<1>6. Ticks(a) <= Ticks(b) /\ Ticks(b) <= Ticks(c) /\ Ticks(c) <= Ticks(d)
  BY <1>2, <1>5
<1> DEFINE p(t) == Ticks(t) * Second
<1>7. p(a) <= p(b) /\ p(b) <= p(c) /\ p(c) <= p(d)
  BY <1>2, <1>6, TimesMono
<1>8. p(a) \in Nat /\ p(b) \in Nat /\ p(c) \in Nat /\ p(d) \in Nat
  BY <1>2
<1>9. /\ p(a) \div Word <= p(b) \div Word /\ p(b) \div Word <= p(c) \div Word
      /\ p(c) \div Word <= p(d) \div Word
  <2> HIDE DEF p
  <2> QED  BY <1>7, <1>8, DivMono
<1>10. p(a) \div Word \in Nat /\ p(b) \div Word \in Nat /\ p(c) \div Word \in Nat
  <2> HIDE DEF p
  <2> QED  BY <1>8, DivMod
<1>11. p(b) \div Word = p(c) \div Word
  BY <1>1, <1>9, <1>10
<1> QED  BY <1>4, <1>6, <1>11 DEF SameProduct, Ticks

(* The time a benchmark measures inside a run is never longer than the     *)
(* delay that is printed for the run.                                      *)
THEOREM TimerInside == Spec => []TimerWithinDelay
<1> USE ClockAssumption
<1>1. Inv => TimerWithinDelay
  <2> DEFINE a == printed.from
             b == timerAt.start
             c == timerAt.stop
             d == printed.to
             R == Resolution
  <2> SUFFICES ASSUME Inv, printed.of # "none", b >= a, c >= b, c <= d, SameProduct(a, d)
               PROVE  get_time <= printed.delay
    BY DEF TimerWithinDelay
  <2>1. a \in Nat /\ d \in Nat /\ b \in Nat /\ c \in Nat /\ b # Never
    BY DEF Inv, ClockShape, Never
  <2>2. SameProduct(b, c) /\ Ticks(a) <= Ticks(b) /\ Ticks(c) <= Ticks(d)
    BY <2>1, PartOf
  <2>3. get_time = (Ticks(c) - Ticks(b)) * R
    BY <2>1, <2>2, TimeOf
  <2>4. printed.delay = Int32(Milliseconds((Ticks(d) - Ticks(a)) % Word))
    BY DEF Inv, ClockInv
  <2>5. a <= d /\ (Ticks(a) * Second) \div Word = (Ticks(d) * Second) \div Word
    BY <2>1 DEF SameProduct, Ticks
  <2>6. R \in Nat \ {0}
    BY SecondIs
  <2>7. Ticks(a) \in Nat /\ Ticks(b) \in Nat /\ Ticks(c) \in Nat /\ Ticks(d) \in Nat
        /\ Ticks(d) - Ticks(a) \in Nat
    BY <2>1, <2>5, TicksType, ReadingsApart
  <2> HIDE DEF a, b, c, d, R
  <2> DEFINE n == Ticks(d) - Ticks(a)
             p == Ticks(a) * Second
             q == Ticks(d) * Second
  <2>8. n * Second < Word
    <3>1. p \in Nat /\ q \in Nat /\ p \div Word = q \div Word /\ n * Second = q - p
      BY <2>5, <2>7
    <3> HIDE DEF n, p, q
    <3>2. p = Word * (p \div Word) + (p % Word) /\ p % Word \in 0 .. Word - 1
          /\ q = Word * (q \div Word) + (q % Word) /\ q % Word \in 0 .. Word - 1
          /\ p \div Word \in Nat
      BY <3>1, DivMod
    <3> QED  BY <3>1, <3>2
  <2>9. n % Word = n /\ Milliseconds(n) = n * R /\ Int32(Milliseconds(n)) = Milliseconds(n)
    BY <2>7, <2>8, StepsOf, MillisecondsType DEF R
  <2>10. printed.delay = n * R
    BY <2>4, <2>9
  <2>11. (Ticks(c) - Ticks(b)) * R <= n * R
    BY <2>2, <2>6, <2>7, TimesMono
  <2> QED  BY <2>3, <2>10, <2>11
<1> QED  BY <1>1, Invariance, PTL

(* get_milsecs() goes forward from step to step, except where the product, *)
(* or the count, wraps.                                                    *)
THEOREM MilsecsForward == Spec => MilsecsMonotonic
<1> USE ClockAssumption
<1>1. ASSUME Inv, Inv', [Next]_vars
      PROVE  [get_milsecs' >= get_milsecs \/ ~SameProduct(now, now')]_vars
  <2> SUFFICES ASSUME SameProduct(now, now') PROVE get_milsecs' >= get_milsecs
    OBVIOUS
  <2>1. now \in Nat /\ now' \in Nat
    BY <1>1 DEF Inv, ClockInv
  <2>2. now <= now'
    BY <1>1, <2>1 DEF Next, vars, SysTick, BeginFirst, EndFirst, BeginSecond, EndSecond,
                      CopyFirst, start_time, stop_time, SetTimer
  <2> DEFINE m == Milliseconds(Ticks(now))
             n == Milliseconds(Ticks(now'))
  <2>3. n - m = (Ticks(now') - Ticks(now)) * Resolution /\ Ticks(now') - Ticks(now) \in Nat
    BY <2>1, <2>2, ReadingsApart
  <2>4. m \in 0 .. (Word \div 2) - 1 /\ n \in 0 .. (Word \div 2) - 1
    BY <2>1, TicksType, MillisecondsType
  <2>5. Times = Ticks(now) /\ Times' = Ticks(now')
    BY <1>1 DEF Inv, ClockInv, Times, Ticks, Resolution
  <2>6. get_milsecs = m % Word /\ get_milsecs' = n % Word
    BY <2>5 DEF get_milsecs, Milliseconds
  <2> HIDE DEF m, n
  <2>7. Word = 2 * (Word \div 2) + (Word % 2) /\ Word \div 2 \in Nat
    BY DivMod
  <2>8. m % Word = m /\ n % Word = n
    BY <2>4, <2>7
  <2>9. n >= m
    <3>1. (Ticks(now') - Ticks(now)) * Resolution \in Nat
      BY <2>3, SecondIs
    <3> QED  BY <2>3, <2>4, <3>1
  <2> QED  BY <2>6, <2>8, <2>9
<1> QED  BY <1>1, Invariance, PTL DEF Spec, MilsecsMonotonic
===============================================================================
