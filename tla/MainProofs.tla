------------------------------ MODULE MainProofs ------------------------------
(***************************************************************************)
(* Proofs about the two modules of main.c.                                 *)
(*                                                                         *)
(* StackMark, for every size of the stack, every number of skipped words   *)
(* and of markers, and any initial contents of RAM: types, and when the    *)
(* reported depth is right.                                                *)
(*                                                                         *)
(* Firmware, and that it implements Board.  The argument does not follow   *)
(* the three lists step by step.  Orderly says what a list of steps must   *)
(* be like, and that is all the invariant needs to know of it; that the    *)
(* lists of the three interpreters, of either build, with and without a    *)
(* hook, are orderly is the only place where their steps are looked at.    *)
(***************************************************************************)
EXTENDS StackMark, Firmware, TLAPS


(* What the benchmark leaves alone: the marked words between the heap and  *)
(* the deepest the stack has been.  The deepest word itself is written.    *)
MarkInv ==
  /\ base > Skip
  /\ low \notin marked
  /\ pc = "mark" => /\ sp = base /\ low = base /\ ptr = base - Skip
                    /\ brk = 0 /\ consec_markers = 0 /\ result = 0
  /\ pc = "run" => consec_markers = 0 /\ result = 0
  /\ pc # "mark" =>
       \A w \in Word : 1 <= w /\ brk <= w /\ w < low /\ w <= base - Skip => w \in marked

(* Consec words from w on that all hold a marker.                          *)
Full(w) == \A v \in Word : w <= v /\ v < w + Consec => v \in marked

(* The words counted so far: the last consec_markers of them are markers,  *)
(* the one above is none, and no Consec above that were markers in a row.  *)
CountInv ==
  pc \in {"count", "done"} =>
    /\ ptr + consec_markers <= Top
    /\ \A w \in Word : ptr < w /\ w <= ptr + consec_markers => w \in marked
    /\ ptr + consec_markers + 1 \notin marked
    /\ \A w \in Word : ptr + 1 < w /\ w + Consec <= Top + 1 => ~Full(w)
    /\ pc = "count" => result = Top - ptr
    /\ pc = "done" => result = Top - ptr - Consec /\ ~Looking

StackInv == StackTypeOK /\ MarkInv /\ CountInv
-------------------------------------------------------------------------------
LEMMA StackNumbers ==
  /\ Top \in Nat /\ Skip \in Nat \ {0} /\ Consec \in Nat \ {0} /\ MaxCalls \in Nat
  /\ Skip + Consec < Top
BY StackAssumption

LEMMA StackTypes ==
  ASSUME StackTypeOK
  PROVE  /\ sp \in 0 .. Top /\ base \in 0 .. Top /\ low \in 0 .. Top
         /\ low <= sp /\ sp <= base
         /\ brk \in 0 .. sp /\ ptr \in 0 .. Top
         /\ consec_markers \in 0 .. Consec /\ result \in 0 .. Top /\ calls \in 0 .. MaxCalls
BY DEF StackTypeOK, Word

LEMMA StackInitEstablishes == StackInit => StackInv
<1> SUFFICES ASSUME StackInit PROVE StackInv OBVIOUS
<1> USE StackNumbers DEF StackInit
<1>1. sp \in 1 .. Top /\ sp - Skip \in 0 .. Top OBVIOUS
<1>2. StackTypeOK BY <1>1 DEF StackTypeOK, Word
<1>3. MarkInv BY <1>1 DEF MarkInv
<1>4. CountInv BY DEF CountInv
<1> QED BY <1>2, <1>3, <1>4 DEF StackInv

LEMMA MarkPreserves ==
  ASSUME StackInv, Mark PROVE StackInv'
<1> USE StackNumbers, StackTypes DEF StackInv, Mark
<1>1. StackTypeOK' BY DEF StackTypeOK, Word, MarkInv
<1>2. MarkInv'
  <2>1. ptr = base - Skip /\ low = base /\ low \notin 1 .. ptr BY DEF MarkInv
  <2>2. low \notin marked' BY <2>1 DEF MarkInv
  <2> QED BY <2>1, <2>2 DEF MarkInv, Word
<1>3. CountInv' BY DEF CountInv
<1> QED BY <1>1, <1>2, <1>3

LEMMA CallPreserves ==
  ASSUME StackInv, NEW n \in 1 .. Top, Call(n) PROVE StackInv'
<1> USE StackNumbers, StackTypes DEF StackInv
<1>1. PICK written \in SUBSET (sp' .. sp - 1) : sp' \in written /\ marked' = marked \ written
  BY DEF Call
<1>2. /\ pc = "run" /\ pc' = "run" /\ sp' = sp - n /\ sp' >= brk /\ sp' > 0
      /\ calls < MaxCalls /\ calls' = calls + 1
      /\ low' = IF sp' < low THEN sp' ELSE low
      /\ UNCHANGED <<brk, ptr, consec_markers, result, base>>
  BY DEF Call
<1>3. /\ sp' \in 0 .. Top /\ low' \in 0 .. Top /\ low' <= sp' /\ sp' <= base
      /\ brk \in 0 .. sp' /\ low' <= low
  BY <1>2
<1>4. StackTypeOK' BY <1>1, <1>2, <1>3 DEF StackTypeOK, Word
<1>5. MarkInv'
  <2>1. low' \notin marked' BY <1>1, <1>2 DEF MarkInv
  <2>2. \A w \in Word : w < low' /\ w \in marked => w \in marked' BY <1>1, <1>3 DEF Word
  <2> QED BY <1>2, <1>3, <2>1, <2>2 DEF MarkInv, Word
<1>6. CountInv' BY <1>2 DEF CountInv
<1> QED BY <1>4, <1>5, <1>6

LEMMA SbrkPreserves ==
  ASSUME StackInv, NEW n \in 1 .. Top, Sbrk(n) PROVE StackInv'
<1> USE StackNumbers, StackTypes DEF StackInv, Sbrk
<1>1. brk' \in 0 .. sp BY DEF StackTypeOK
<1>2. StackTypeOK' BY <1>1 DEF StackTypeOK, Word
<1>3. MarkInv'
  <2>1. \A w \in Word : brk' <= w /\ w \in marked => w \in marked' BY <1>1 DEF Word
  <2> QED BY <1>1, <2>1 DEF MarkInv, Word
<1>4. CountInv' BY DEF CountInv
<1> QED BY <1>2, <1>3, <1>4

LEMMA ReturnPreserves ==
  ASSUME StackInv, Return PROVE StackInv'
BY StackNumbers, StackTypes DEF StackInv, Return, StackTypeOK, MarkInv, CountInv, Word

LEMMA StartCountPreserves ==
  ASSUME StackInv, StartCount PROVE StackInv'
<1> USE StackNumbers, StackTypes DEF StackInv, StartCount
<1>1. StackTypeOK' BY DEF StackTypeOK, Word
<1>2. MarkInv' BY DEF MarkInv
<1>3. Top + 1 \notin marked BY DEF StackTypeOK, Word
<1>4. CountInv' BY <1>3 DEF CountInv, MarkInv, Word
<1> QED BY <1>1, <1>2, <1>4

(* The step of the count: the word at ptr is the next of the run, or ends  *)
(* it; either way no full row of markers is passed.                        *)
LEMMA CountWordPreserves ==
  ASSUME StackInv, CountWord PROVE StackInv'
<1> USE StackNumbers, StackTypes DEF StackInv
<1>1. /\ pc = "count" /\ pc' = "count" /\ ptr > 0 /\ consec_markers < Consec
      /\ consec_markers' = IF ptr \in marked THEN consec_markers + 1 ELSE 0
      /\ result' = result + 1 /\ ptr' = ptr - 1
      /\ UNCHANGED <<marked, sp, brk, base, low, calls>>
  BY DEF CountWord, Looking
<1>2. result = Top - ptr BY <1>1 DEF CountInv
<1>3. StackTypeOK' BY <1>1, <1>2 DEF StackTypeOK, Word
<1>4. MarkInv' BY <1>1 DEF MarkInv
<1>5. CountInv'
  <2>1. /\ ptr + consec_markers <= Top
        /\ \A w \in Word : ptr < w /\ w <= ptr + consec_markers => w \in marked
        /\ ptr + consec_markers + 1 \notin marked
        /\ \A w \in Word : ptr + 1 < w /\ w + Consec <= Top + 1 => ~Full(w)
    BY <1>1 DEF CountInv
  <2>2. ASSUME NEW w \in Word, ptr < w, w + Consec <= Top + 1
        PROVE  ~Full(w)
    <3>1. CASE ptr + 1 < w BY <2>1, <2>2, <3>1
    <3>2. CASE w = ptr + 1
      <4>1. ptr + consec_markers + 1 \in Word
        BY <1>1, <2>2, <3>2 DEF Word
      <4> QED BY <1>1, <2>1, <3>2, <4>1 DEF Full
    <3> QED BY <2>2, <3>1, <3>2 DEF Word
  <2>3. \A w \in Word : Full(w)' <=> Full(w) BY <1>1 DEF Full
  <2>4. /\ ptr' + consec_markers' <= Top
        /\ ptr' + consec_markers' + 1 \notin marked'
    BY <1>1, <2>1
  <2>5. \A w \in Word : ptr' < w /\ w <= ptr' + consec_markers' => w \in marked'
    BY <1>1, <2>1 DEF Word
  <2>6. \A w \in Word : ptr' + 1 < w /\ w + Consec <= Top + 1 => ~Full(w)'
    BY <1>1, <2>2, <2>3
  <2> QED BY <1>1, <1>2, <2>4, <2>5, <2>6 DEF CountInv
<1> QED BY <1>3, <1>4, <1>5

LEMMA FinishPreserves ==
  ASSUME StackInv, Finish PROVE StackInv'
<1> USE StackNumbers, StackTypes DEF StackInv, Finish
<1>1. /\ result = Top - ptr /\ ptr + consec_markers <= Top
      /\ ptr = 0 \/ consec_markers = Consec
  BY DEF CountInv, Looking
<1>2. result - Consec \in 0 .. Top BY <1>1
<1>3. StackTypeOK' BY <1>2 DEF StackTypeOK, Word
<1>4. MarkInv' BY DEF MarkInv
<1>5. CountInv' BY <1>1 DEF CountInv, Looking, Full
<1> QED BY <1>3, <1>4, <1>5

LEMMA StackNextPreserves == StackInv /\ [StackNext]_stackVars => StackInv'
<1> SUFFICES ASSUME StackInv, [StackNext]_stackVars PROVE StackInv' OBVIOUS
<1>1. CASE UNCHANGED stackVars
  BY <1>1 DEF stackVars, StackInv, StackTypeOK, MarkInv, CountInv, Looking, Full
<1> QED BY <1>1, MarkPreserves, CallPreserves, SbrkPreserves, ReturnPreserves,
           StartCountPreserves, CountWordPreserves, FinishPreserves DEF StackNext

LEMMA StackInvariance == StackSpec => []StackInv
BY StackInitEstablishes, StackNextPreserves, PTL DEF StackSpec
-------------------------------------------------------------------------------
(* Every reachable state has its type: no pointer leaves the stack, and    *)
(* the count is never negative.                                            *)
THEOREM StackTypeCorrect == StackSpec => []StackTypeOK
<1>1. StackInv => StackTypeOK BY DEF StackInv
<1> QED BY <1>1, StackInvariance, PTL

(* The stack is not reported larger than it has been, nor than what is     *)
(* left out by mark_stack(), while enough markers are left below it.       *)
THEOREM NotTooMuch == StackSpec => []NeverTooMuch
<1>1. StackInv => NeverTooMuch
  <2> SUFFICES ASSUME StackInv, pc = "done", brk + Consec < low, Consec <= base - Skip - brk
               PROVE  result <= IF Used > Floor THEN Used ELSE Floor
    BY DEF NeverTooMuch
  <2> USE StackNumbers, StackTypes DEF StackInv
  <2> DEFINE highest == IF low - 1 < base - Skip THEN low - 1 ELSE base - Skip
             w == highest - Consec + 1
  <2>1. w \in Word /\ 1 <= w /\ brk <= w /\ w + Consec <= Top + 1 BY DEF Word
  <2>2. Full(w) BY <2>1 DEF Full, MarkInv, Word
  <2>3. w <= ptr + 1
    BY <2>1, <2>2 DEF CountInv, Word
  <2>4. result = Top - ptr - Consec BY DEF CountInv
  <2> QED BY <2>3, <2>4 DEF Used, Floor
<1> QED BY <1>1, StackInvariance, PTL

(* A stack without a gap of Consec unwritten words is not reported smaller *)
(* than it has been, as long as Consec words are left below it.            *)
THEOREM NotTooLittle == StackSpec => []NeverTooLittle
<1>1. StackInv => NeverTooLittle
  <2> SUFFICES ASSUME StackInv, pc = "done", Dense, low > Consec PROVE result >= Used
    BY DEF NeverTooLittle
  <2> USE StackNumbers, StackTypes DEF StackInv
  <2>1. result = Top - ptr - Consec /\ (ptr = 0 \/ consec_markers = Consec)
    BY DEF CountInv, Looking
  <2>2. CASE ptr = 0 BY <2>1, <2>2 DEF Used
  <2>3. CASE consec_markers = Consec
    <3>1. \A w \in Word : ptr < w /\ w <= ptr + Consec => w \in marked
      BY <2>3 DEF CountInv
    <3>2. ptr + Consec <= Top BY <2>3 DEF CountInv
    <3>3. ~(ptr + 1 <= low /\ low <= ptr + Consec)
      BY <3>1 DEF MarkInv, Word
    <3>4. ~(low <= ptr + 1)
      <4>1. SUFFICES ASSUME low <= ptr + 1 PROVE FALSE OBVIOUS
      <4>2. ptr + 1 \in Words(low, Top) BY <3>2, <4>1 DEF Words, Word
      <4>3. Words(ptr + 1, (ptr + 1) + Consec - 1) \subseteq marked
        BY <3>1 DEF Words, Word
      <4> QED BY <3>2, <4>2, <4>3 DEF Dense
    <3> QED BY <2>1, <3>3, <3>4 DEF Used
  <2> QED BY <2>1, <2>2, <2>3
<1> QED BY <1>1, StackInvariance, PTL
-------------------------------------------------------------------------------
(* Firmware: what is said of a step of the list.                           *)
Steps == 1 .. Len(List)

Makes(k)    == List[k].op = "make"
Releases(k) == List[k].op = "release"
Fatal(k)    == List[k].onFailure = "fatal"
Says(k, line) == List[k].op = "print" /\ line \in List[k].what

Things == Wasmi \cup {"environment", "runtime", "exec_env"}

StepRecord ==
  [op        : {"make", "check", "copy", "print", "release"},
   what      : SUBSET (Things \cup {"First", "Second", "block"}),
   onFailure : {"fatal", "ignored", "never"}]

(* A failure that is ignored is caught by a later check.                   *)
FailuresCaught ==
  \A k \in Steps : List[k].onFailure = "ignored" => \E j \in Steps : j > k /\ Fatal(j)

(* Everything is made before anything is released.                         *)
MadeFirst == \A k, r \in Steps : Makes(k) /\ Releases(r) => k < r

(* All that was made later is released earlier, or in the same step.       *)
LastInFirstOut ==
  \A j, k, r \in Steps :
    /\ Makes(j) /\ Makes(k) /\ j < k
    /\ Releases(r) /\ List[r].what \cap List[j].what # {}
    => \E s \in 1 .. r : Releases(s) /\ List[k].what \subseteq List[s].what

AllReleased ==
  \A k \in Steps : Makes(k) =>
    \E r \in Steps : Releases(r) /\ List[k].what \subseteq List[r].what

KnownThings ==
  /\ \A k \in Steps : Makes(k) => List[k].what \subseteq Things
  /\ \A k \in Steps : List[k].op = "print" => List[k].what \subseteq {"First", "Second"}
  /\ \A k \in Steps : List[k].op = "copy" => List[k].what = {"block"}

(* Nothing that can fail follows the second delay.                         *)
SecondIsLast == \A k, j \in Steps : Says(k, "Second") /\ k <= j => ~Fatal(j)

InputCopied == hooked => \E k \in Steps : List[k].op = "copy"

Orderly ==
  /\ Len(List) \in Nat \ {0}
  /\ \A k \in Steps : List[k] \in StepRecord
  /\ FailuresCaught /\ MadeFirst /\ LastInFirstOut /\ AllReleased
  /\ KnownThings /\ SecondIsLast /\ InputCopied

Configured ==
  /\ build \in {"wamr", "wasm3", "wasmi"}
  /\ traced \in BOOLEAN /\ hooked \in BOOLEAN
  /\ hooked => build = "wamr"

(* What the library has after the first n steps.                           *)
Made(n)     == UNION {List[k].what : k \in {j \in 1 .. n : Makes(j)}}
Released(n) == UNION {List[k].what : k \in {j \in 1 .. n : Releases(j)}}
LiveAt(n)   == Made(n) \ Released(n)

Over == {"post", "ended", "finished"}

LiveInv ==
  \/ ~ok /\ live = {"message"}
  \/ \E n \in 0 .. step :
       live = LiveAt(n) /\ (ok /\ at \in {"entry", "bench"} => n = step)

(* Once a step has failed the list does not reach its end.                 *)
FailedInv ==
  /\ at = "entry" => ok /\ step = 0
  /\ at = "bench" /\ ~ok => \E k \in Steps : k > step /\ Fatal(k)
  /\ at \in Over /\ ok => step = Len(List) /\ live = {}
  /\ at \in Over /\ ~ok => step < Len(List) /\ Fatal(step + 1) /\ err

LinesInv ==
  /\ "Stack" \in printed => at \in {"ended", "finished"} /\ (build = "wasm3" \/ ~err)
  /\ build = "wasm3" /\ "Second" \in printed => \E k \in 1 .. step : Says(k, "Second")

InputInv ==
  ok /\ (\E k \in 1 .. step : List[k].op = "copy") =>
    input = [copy |-> "block", argument |-> "block"]

Ready   == <<Token("READY")>>
Packets == Append(Ready, Token("PACKETS"))

(* What the ITM port has sent when.                                        *)
PortInv ==
  /\ at = "entry" => swo = <<>>
  /\ at = "bench" => swo = IF traced /\ step > 0 THEN Packets ELSE Ready
  /\ at \in {"post", "ended"} => swo = IF traced THEN Packets ELSE Ready

FirmwareInv == Configured /\ TypeOK /\ LiveInv /\ FailedInv /\ LinesInv /\ InputInv /\ PortInv
-------------------------------------------------------------------------------
(* The lists of wamr, of wasm3 and of wasmi, one by one.                   *)
LEMMA WamrListIsOrderlyTracedHooked ==
  ASSUME build = "wamr", traced, hooked
  PROVE  Orderly
<1>1. /\ Len(List) = 13
      /\ List[1] = Make("runtime", "ignored") /\ List[2] = Check("fatal")
      /\ List[3] = Make("module", "ignored")
      /\ List[4] = Make("instance", "ignored")
      /\ List[5] = Copy({"block"}, "fatal")
      /\ List[6] = Make("exec_env", "ignored")
      /\ List[7] = Check("ignored") /\ List[8] = Check("fatal")
      /\ List[9] = Say("First") /\ List[10] = Release({"exec_env"})
      /\ List[11] = Release({"instance"})
      /\ List[12] = Release({"module"}) /\ List[13] = Release({"runtime"})
  BY DEF List, WamrList, WamrHook, RegisterWasi
<1>2. \A k \in Steps :
        /\ Makes(k) <=> k \in {1, 3, 4, 6}
        /\ Releases(k) <=> k \in {10, 11, 12, 13}
        /\ List[k].op = "print" <=> k \in {9}
        /\ List[k].op = "copy" <=> k \in {5}
        /\ Fatal(k) <=> k \in {2, 5, 8}
        /\ List[k].onFailure = "ignored" <=> k \in {1, 3, 4, 6, 7}
  BY <1>1 DEF Steps, Makes, Releases, Fatal, Make, Check, Copy, Say, Release
<1>3. /\ List[1].what = {"runtime"} /\ List[3].what = {"module"}
      /\ List[4].what = {"instance"} /\ List[5].what = {"block"}
      /\ List[6].what = {"exec_env"} /\ List[9].what = {"First"}
      /\ List[10].what = {"exec_env"} /\ List[11].what = {"instance"}
      /\ List[12].what = {"module"} /\ List[13].what = {"runtime"}
  BY <1>1 DEF Make, Check, Copy, Say, Release
<1>4. \A k \in Steps : List[k] \in StepRecord
  BY <1>1 DEF Steps, StepRecord, Make, Check, Copy, Say, Release, Things, Wasmi
<1>5. FailuresCaught /\ MadeFirst
  BY <1>1, <1>2 DEF FailuresCaught, MadeFirst, Steps
<1>6. LastInFirstOut
  BY <1>1, <1>2, <1>3 DEF LastInFirstOut, Steps, Wasmi
<1>7. AllReleased
  BY <1>1, <1>2, <1>3 DEF AllReleased, Steps, Wasmi
<1>8. KnownThings
  BY <1>1, <1>2, <1>3 DEF KnownThings, Steps, Things, Wasmi
<1>9. SecondIsLast /\ InputCopied
  BY <1>1, <1>2, <1>3 DEF SecondIsLast, InputCopied, Says, Steps
<1> QED
  BY <1>1, <1>4, <1>5, <1>6, <1>7, <1>8, <1>9 DEF Orderly

LEMMA WamrListIsOrderlyPlainHooked ==
  ASSUME build = "wamr", ~traced, hooked
  PROVE  Orderly
<1>1. /\ Len(List) = 15
      /\ List[1] = Make("runtime", "ignored") /\ List[2] = Check("fatal")
      /\ List[3] = Make("module", "ignored")
      /\ List[4] = Make("instance", "ignored")
      /\ List[5] = Copy({"block"}, "fatal")
      /\ List[6] = Make("exec_env", "ignored")
      /\ List[7] = Check("ignored") /\ List[8] = Check("fatal")
      /\ List[9] = Say("First") /\ List[10] = Check("fatal")
      /\ List[11] = Say("Second") /\ List[12] = Release({"exec_env"})
      /\ List[13] = Release({"instance"})
      /\ List[14] = Release({"module"}) /\ List[15] = Release({"runtime"})
  BY DEF List, WamrList, WamrHook, RegisterWasi
<1>2. \A k \in Steps :
        /\ Makes(k) <=> k \in {1, 3, 4, 6}
        /\ Releases(k) <=> k \in {12, 13, 14, 15}
        /\ List[k].op = "print" <=> k \in {9, 11}
        /\ List[k].op = "copy" <=> k \in {5}
        /\ Fatal(k) <=> k \in {2, 5, 8, 10}
        /\ List[k].onFailure = "ignored" <=> k \in {1, 3, 4, 6, 7}
  BY <1>1 DEF Steps, Makes, Releases, Fatal, Make, Check, Copy, Say, Release
<1>3. /\ List[1].what = {"runtime"} /\ List[3].what = {"module"}
      /\ List[4].what = {"instance"} /\ List[5].what = {"block"}
      /\ List[6].what = {"exec_env"} /\ List[9].what = {"First"}
      /\ List[11].what = {"Second"} /\ List[12].what = {"exec_env"}
      /\ List[13].what = {"instance"} /\ List[14].what = {"module"}
      /\ List[15].what = {"runtime"}
  BY <1>1 DEF Make, Check, Copy, Say, Release
<1>4. \A k \in Steps : List[k] \in StepRecord
  BY <1>1 DEF Steps, StepRecord, Make, Check, Copy, Say, Release, Things, Wasmi
<1>5. FailuresCaught /\ MadeFirst
  BY <1>1, <1>2 DEF FailuresCaught, MadeFirst, Steps
<1>6. LastInFirstOut
  BY <1>1, <1>2, <1>3 DEF LastInFirstOut, Steps, Wasmi
<1>7. AllReleased
  BY <1>1, <1>2, <1>3 DEF AllReleased, Steps, Wasmi
<1>8. KnownThings
  BY <1>1, <1>2, <1>3 DEF KnownThings, Steps, Things, Wasmi
<1>9. SecondIsLast /\ InputCopied
  BY <1>1, <1>2, <1>3 DEF SecondIsLast, InputCopied, Says, Steps
<1> QED
  BY <1>1, <1>4, <1>5, <1>6, <1>7, <1>8, <1>9 DEF Orderly

LEMMA WamrListIsOrderlyTraced ==
  ASSUME build = "wamr", traced, ~hooked
  PROVE  Orderly
<1>1. /\ Len(List) = 12
      /\ List[1] = Make("runtime", "ignored") /\ List[2] = Check("fatal")
      /\ List[3] = Make("module", "ignored")
      /\ List[4] = Make("instance", "ignored")
      /\ List[5] = Make("exec_env", "ignored")
      /\ List[6] = Check("ignored") /\ List[7] = Check("fatal")
      /\ List[8] = Say("First") /\ List[9] = Release({"exec_env"})
      /\ List[10] = Release({"instance"})
      /\ List[11] = Release({"module"}) /\ List[12] = Release({"runtime"})
  BY DEF List, WamrList, WamrHook, RegisterWasi
<1>2. \A k \in Steps :
        /\ Makes(k) <=> k \in {1, 3, 4, 5}
        /\ Releases(k) <=> k \in {9, 10, 11, 12}
        /\ List[k].op = "print" <=> k \in {8}
        /\ List[k].op = "copy" <=> k \in {}
        /\ Fatal(k) <=> k \in {2, 7}
        /\ List[k].onFailure = "ignored" <=> k \in {1, 3, 4, 5, 6}
  BY <1>1 DEF Steps, Makes, Releases, Fatal, Make, Check, Copy, Say, Release
<1>3. /\ List[1].what = {"runtime"} /\ List[3].what = {"module"}
      /\ List[4].what = {"instance"} /\ List[5].what = {"exec_env"}
      /\ List[8].what = {"First"} /\ List[9].what = {"exec_env"}
      /\ List[10].what = {"instance"} /\ List[11].what = {"module"}
      /\ List[12].what = {"runtime"}
  BY <1>1 DEF Make, Check, Copy, Say, Release
<1>4. \A k \in Steps : List[k] \in StepRecord
  BY <1>1 DEF Steps, StepRecord, Make, Check, Copy, Say, Release, Things, Wasmi
<1>5. FailuresCaught /\ MadeFirst
  BY <1>1, <1>2 DEF FailuresCaught, MadeFirst, Steps
<1>6. LastInFirstOut
  BY <1>1, <1>2, <1>3 DEF LastInFirstOut, Steps, Wasmi
<1>7. AllReleased
  BY <1>1, <1>2, <1>3 DEF AllReleased, Steps, Wasmi
<1>8. KnownThings
  BY <1>1, <1>2, <1>3 DEF KnownThings, Steps, Things, Wasmi
<1>9. SecondIsLast /\ InputCopied
  BY <1>1, <1>2, <1>3 DEF SecondIsLast, InputCopied, Says, Steps
<1> QED
  BY <1>1, <1>4, <1>5, <1>6, <1>7, <1>8, <1>9 DEF Orderly

LEMMA WamrListIsOrderlyPlain ==
  ASSUME build = "wamr", ~traced, ~hooked
  PROVE  Orderly
<1>1. /\ Len(List) = 14
      /\ List[1] = Make("runtime", "ignored") /\ List[2] = Check("fatal")
      /\ List[3] = Make("module", "ignored")
      /\ List[4] = Make("instance", "ignored")
      /\ List[5] = Make("exec_env", "ignored")
      /\ List[6] = Check("ignored") /\ List[7] = Check("fatal")
      /\ List[8] = Say("First") /\ List[9] = Check("fatal")
      /\ List[10] = Say("Second") /\ List[11] = Release({"exec_env"})
      /\ List[12] = Release({"instance"})
      /\ List[13] = Release({"module"}) /\ List[14] = Release({"runtime"})
  BY DEF List, WamrList, WamrHook, RegisterWasi
<1>2. \A k \in Steps :
        /\ Makes(k) <=> k \in {1, 3, 4, 5}
        /\ Releases(k) <=> k \in {11, 12, 13, 14}
        /\ List[k].op = "print" <=> k \in {8, 10}
        /\ List[k].op = "copy" <=> k \in {}
        /\ Fatal(k) <=> k \in {2, 7, 9}
        /\ List[k].onFailure = "ignored" <=> k \in {1, 3, 4, 5, 6}
  BY <1>1 DEF Steps, Makes, Releases, Fatal, Make, Check, Copy, Say, Release
<1>3. /\ List[1].what = {"runtime"} /\ List[3].what = {"module"}
      /\ List[4].what = {"instance"} /\ List[5].what = {"exec_env"}
      /\ List[8].what = {"First"} /\ List[10].what = {"Second"}
      /\ List[11].what = {"exec_env"} /\ List[12].what = {"instance"}
      /\ List[13].what = {"module"} /\ List[14].what = {"runtime"}
  BY <1>1 DEF Make, Check, Copy, Say, Release
<1>4. \A k \in Steps : List[k] \in StepRecord
  BY <1>1 DEF Steps, StepRecord, Make, Check, Copy, Say, Release, Things, Wasmi
<1>5. FailuresCaught /\ MadeFirst
  BY <1>1, <1>2 DEF FailuresCaught, MadeFirst, Steps
<1>6. LastInFirstOut
  BY <1>1, <1>2, <1>3 DEF LastInFirstOut, Steps, Wasmi
<1>7. AllReleased
  BY <1>1, <1>2, <1>3 DEF AllReleased, Steps, Wasmi
<1>8. KnownThings
  BY <1>1, <1>2, <1>3 DEF KnownThings, Steps, Things, Wasmi
<1>9. SecondIsLast /\ InputCopied
  BY <1>1, <1>2, <1>3 DEF SecondIsLast, InputCopied, Says, Steps
<1> QED
  BY <1>1, <1>4, <1>5, <1>6, <1>7, <1>8, <1>9 DEF Orderly

LEMMA Wasm3ListIsOrderlyTraced ==
  ASSUME build = "wasm3", traced, ~hooked
  PROVE  Orderly
<1>1. /\ Len(List) = 12
      /\ List[1] = Make("environment", "fatal")
      /\ List[2] = Make("runtime", "fatal")
      /\ List[3] = Make("module", "fatal") /\ List[4] = Check("fatal")
      /\ List[5] = Check("fatal") /\ List[6] = Check("never")
      /\ List[7] = Check("fatal")
      /\ List[8] = Check("fatal") /\ List[9] = Check("fatal")
      /\ List[10] = Say("First")
      /\ List[11] = Release({"runtime", "module"})
      /\ List[12] = Release({"environment"})
  BY DEF List, Wasm3List
<1>2. \A k \in Steps :
        /\ Makes(k) <=> k \in {1, 2, 3}
        /\ Releases(k) <=> k \in {11, 12}
        /\ List[k].op = "print" <=> k \in {10}
        /\ List[k].op = "copy" <=> k \in {}
        /\ Fatal(k) <=> k \in {1, 2, 3, 4, 5, 7, 8, 9}
        /\ List[k].onFailure = "ignored" <=> k \in {}
  BY <1>1 DEF Steps, Makes, Releases, Fatal, Make, Check, Copy, Say, Release
<1>3. /\ List[1].what = {"environment"} /\ List[2].what = {"runtime"}
      /\ List[3].what = {"module"} /\ List[10].what = {"First"}
      /\ List[11].what = {"runtime", "module"}
      /\ List[12].what = {"environment"}
  BY <1>1 DEF Make, Check, Copy, Say, Release
<1>4. \A k \in Steps : List[k] \in StepRecord
  BY <1>1 DEF Steps, StepRecord, Make, Check, Copy, Say, Release, Things, Wasmi
<1>5. FailuresCaught /\ MadeFirst
  BY <1>1, <1>2 DEF FailuresCaught, MadeFirst, Steps
<1>6. LastInFirstOut
  BY <1>1, <1>2, <1>3 DEF LastInFirstOut, Steps, Wasmi
<1>7. AllReleased
  BY <1>1, <1>2, <1>3 DEF AllReleased, Steps, Wasmi
<1>8. KnownThings
  BY <1>1, <1>2, <1>3 DEF KnownThings, Steps, Things, Wasmi
<1>9. SecondIsLast /\ InputCopied
  BY <1>1, <1>2, <1>3 DEF SecondIsLast, InputCopied, Says, Steps
<1> QED
  BY <1>1, <1>4, <1>5, <1>6, <1>7, <1>8, <1>9 DEF Orderly

LEMMA Wasm3ListIsOrderlyPlain ==
  ASSUME build = "wasm3", ~traced, ~hooked
  PROVE  Orderly
<1>1. /\ Len(List) = 15
      /\ List[1] = Make("environment", "fatal")
      /\ List[2] = Make("runtime", "fatal")
      /\ List[3] = Make("module", "fatal") /\ List[4] = Check("fatal")
      /\ List[5] = Check("fatal") /\ List[6] = Check("never")
      /\ List[7] = Check("fatal")
      /\ List[8] = Check("fatal") /\ List[9] = Check("fatal")
      /\ List[10] = Say("First") /\ List[11] = Check("fatal")
      /\ List[12] = Check("fatal") /\ List[13] = Say("Second")
      /\ List[14] = Release({"runtime", "module"})
      /\ List[15] = Release({"environment"})
  BY DEF List, Wasm3List
<1>2. \A k \in Steps :
        /\ Makes(k) <=> k \in {1, 2, 3}
        /\ Releases(k) <=> k \in {14, 15}
        /\ List[k].op = "print" <=> k \in {10, 13}
        /\ List[k].op = "copy" <=> k \in {}
        /\ Fatal(k) <=> k \in {1, 2, 3, 4, 5, 7, 8, 9, 11, 12}
        /\ List[k].onFailure = "ignored" <=> k \in {}
  BY <1>1 DEF Steps, Makes, Releases, Fatal, Make, Check, Copy, Say, Release
<1>3. /\ List[1].what = {"environment"} /\ List[2].what = {"runtime"}
      /\ List[3].what = {"module"} /\ List[10].what = {"First"}
      /\ List[13].what = {"Second"}
      /\ List[14].what = {"runtime", "module"}
      /\ List[15].what = {"environment"}
  BY <1>1 DEF Make, Check, Copy, Say, Release
<1>4. \A k \in Steps : List[k] \in StepRecord
  BY <1>1 DEF Steps, StepRecord, Make, Check, Copy, Say, Release, Things, Wasmi
<1>5. FailuresCaught /\ MadeFirst
  BY <1>1, <1>2 DEF FailuresCaught, MadeFirst, Steps
<1>6. LastInFirstOut
  BY <1>1, <1>2, <1>3 DEF LastInFirstOut, Steps, Wasmi
<1>7. AllReleased
  BY <1>1, <1>2, <1>3 DEF AllReleased, Steps, Wasmi
<1>8. KnownThings
  BY <1>1, <1>2, <1>3 DEF KnownThings, Steps, Things, Wasmi
<1>9. SecondIsLast /\ InputCopied
  BY <1>1, <1>2, <1>3 DEF SecondIsLast, InputCopied, Says, Steps
<1> QED
  BY <1>1, <1>4, <1>5, <1>6, <1>7, <1>8, <1>9 DEF Orderly

LEMMA WasmiListIsOrderly ==
  ASSUME build = "wasmi", ~hooked
  PROVE  Orderly
<1>1. /\ Len(List) = 8
      /\ List[1] = Make("engine", "never")
      /\ List[2] = Make("module", "fatal")
      /\ List[3] = Make("store", "never")
      /\ List[4] = Make("linker", "never")
      /\ List[5] = Make("instance", "fatal") /\ List[6] = Check("fatal")
      /\ List[7] = Check("fatal") /\ List[8] = Release(Wasmi)
  BY DEF List, WasmiList
<1>2. \A k \in Steps :
        /\ Makes(k) <=> k \in {1, 2, 3, 4, 5}
        /\ Releases(k) <=> k \in {8}
        /\ List[k].op = "print" <=> k \in {}
        /\ List[k].op = "copy" <=> k \in {}
        /\ Fatal(k) <=> k \in {2, 5, 6, 7}
        /\ List[k].onFailure = "ignored" <=> k \in {}
  BY <1>1 DEF Steps, Makes, Releases, Fatal, Make, Check, Copy, Say, Release
<1>3. /\ List[1].what = {"engine"} /\ List[2].what = {"module"}
      /\ List[3].what = {"store"} /\ List[4].what = {"linker"}
      /\ List[5].what = {"instance"} /\ List[8].what = Wasmi
  BY <1>1 DEF Make, Check, Copy, Say, Release
<1>4. \A k \in Steps : List[k] \in StepRecord
  BY <1>1 DEF Steps, StepRecord, Make, Check, Copy, Say, Release, Things, Wasmi
<1>5. FailuresCaught /\ MadeFirst
  BY <1>1, <1>2 DEF FailuresCaught, MadeFirst, Steps
<1>6. LastInFirstOut
  BY <1>1, <1>2, <1>3 DEF LastInFirstOut, Steps, Wasmi
<1>7. AllReleased
  BY <1>1, <1>2, <1>3 DEF AllReleased, Steps, Wasmi
<1>8. KnownThings
  BY <1>1, <1>2, <1>3 DEF KnownThings, Steps, Things, Wasmi
<1>9. SecondIsLast /\ InputCopied
  BY <1>1, <1>2, <1>3 DEF SecondIsLast, InputCopied, Says, Steps
<1> QED
  BY <1>1, <1>4, <1>5, <1>6, <1>7, <1>8, <1>9 DEF Orderly

(* So all of them are orderly.                                             *)
LEMMA ListIsOrderly ==
  ASSUME Configured
  PROVE  Orderly
<1>1. CASE build = "wamr"
  BY <1>1, WamrListIsOrderlyTracedHooked, WamrListIsOrderlyPlainHooked,
    WamrListIsOrderlyTraced, WamrListIsOrderlyPlain DEF Configured
<1>2. CASE build = "wasm3"
  BY <1>2, Wasm3ListIsOrderlyTraced, Wasm3ListIsOrderlyPlain DEF Configured
<1>3. CASE build = "wasmi"
  BY <1>3, WasmiListIsOrderly DEF Configured
<1> QED
  BY <1>1, <1>2, <1>3 DEF Configured
-------------------------------------------------------------------------------
(* Nothing is live before the first step.                                  *)
LEMMA NothingAtFirst ==
  LiveAt(0) = {}
BY DEF LiveAt, Made, Released

(* What a step does to what is live.                                       *)
LEMMA LiveAfterStep ==
  ASSUME Orderly, NEW n \in Nat, n + 1 \in Steps
  PROVE  /\ Makes(n + 1) => LiveAt(n + 1) = LiveAt(n) \cup List[n + 1].what
         /\ Releases(n + 1) => LiveAt(n + 1) = LiveAt(n) \ List[n + 1].what
         /\ ~Makes(n + 1) /\ ~Releases(n + 1) => LiveAt(n + 1) = LiveAt(n)
<1>1. \A j : j \in 1 .. n + 1 <=> j \in 1 .. n \/ j = n + 1
  OBVIOUS
<1>2. Made(n + 1) = IF Makes(n + 1) THEN Made(n) \cup List[n + 1].what ELSE Made(n)
  BY <1>1 DEF Made
<1>3. Released(n + 1) =
        IF Releases(n + 1) THEN Released(n) \cup List[n + 1].what ELSE Released(n)
  BY <1>1 DEF Released
<1>4. ~(Makes(n + 1) /\ Releases(n + 1))
  BY DEF Makes, Releases
<1>5. Makes(n + 1) => Released(n) = {}
  <2>1. SUFFICES ASSUME Makes(n + 1), NEW r \in 1 .. n, Releases(r)
                 PROVE  FALSE
    BY DEF Released
  <2>2. Len(List) \in Nat
    BY DEF Orderly
  <2>3. r \in Steps /\ r < n + 1
    BY <2>2 DEF Steps
  <2> QED
    BY <2>1, <2>3 DEF Orderly, MadeFirst, Steps
<1> QED
  BY <1>2, <1>3, <1>4, <1>5 DEF LiveAt

(* Nothing is live after the last step.                                    *)
LEMMA NothingAtLast ==
  ASSUME Orderly
  PROVE  LiveAt(Len(List)) = {}
<1>1. SUFFICES ASSUME NEW thing \in Made(Len(List))
               PROVE  thing \in Released(Len(List))
  BY DEF LiveAt
<1>2. PICK k \in Steps : Makes(k) /\ thing \in List[k].what
  BY DEF Made, Steps
<1>3. PICK r \in Steps : Releases(r) /\ List[k].what \subseteq List[r].what
  BY <1>2 DEF Orderly, AllReleased
<1> QED
  BY <1>2, <1>3 DEF Released, Steps

(* Wherever a list stops, what is live was made in an order that has no    *)
(* gap.                                                                    *)
LEMMA LiveHasNoGap ==
  ASSUME Orderly, NEW n \in 0 .. Len(List), NEW thing \in LiveAt(n)
  PROVE  \E k \in Steps :
           /\ Makes(k) /\ thing \in List[k].what
           /\ \A j \in 1 .. k - 1 : Makes(j) => List[j].what \subseteq LiveAt(n)
<1>1. Len(List) \in Nat
  BY DEF Orderly
<1>2. PICK k \in 1 .. n : Makes(k) /\ thing \in List[k].what
  BY DEF LiveAt, Made
<1>3. \A m \in 1 .. n : m \in Steps
  BY <1>1 DEF Steps
<1>4. ASSUME NEW j \in 1 .. k - 1, Makes(j)
      PROVE  List[j].what \subseteq LiveAt(n)
  <2>1. j \in 1 .. n /\ j < k
    BY <1>2
  <2>2. List[j].what \subseteq Made(n)
    BY <1>4, <2>1 DEF Made
  <2>3. ASSUME NEW r \in 1 .. n, Releases(r), List[r].what \cap List[j].what # {}
        PROVE  FALSE
    <3>1. PICK s \in 1 .. r : Releases(s) /\ List[k].what \subseteq List[s].what
      BY <1>2, <1>3, <1>4, <2>1, <2>3 DEF Orderly, LastInFirstOut
    <3>2. s \in 1 .. n
      OBVIOUS
    <3> QED
      BY <1>2, <3>1, <3>2 DEF LiveAt, Released
  <2> QED
    BY <2>2, <2>3 DEF LiveAt, Released
<1> QED
  BY <1>2, <1>3, <1>4
-------------------------------------------------------------------------------
(* The configuration is fixed, and with it the list and all that is said   *)
(* of it.                                                                  *)
LEMMA SameList ==
  ASSUME UNCHANGED <<build, traced, hooked>>
  PROVE  /\ List' = List
         /\ Steps' = Steps
         /\ \A n : LiveAt(n)' = LiveAt(n)
         /\ \A k : Fatal(k)' <=> Fatal(k)
         /\ \A k, line : Says(k, line)' <=> Says(k, line)
         /\ \A kind : Token(kind)' = Token(kind)
         /\ Configured => Configured'
<1>1. List' = List
  BY DEF List, WamrList, WamrHook, Wasm3List, WasmiList
<1> QED
  BY <1>1 DEF Steps, LiveAt, Made, Released, Makes, Releases, Fatal, Says, Token,
    Configured

(* The step that is at hand.                                               *)
LEMMA StepAtHand ==
  ASSUME FirmwareInv, NEW ops, InList(ops)
  PROVE  /\ step \in Nat /\ step + 1 \in Steps
         /\ Cur = List[step + 1] /\ Cur \in StepRecord
         /\ Orderly
<1>1. Orderly
  BY ListIsOrderly DEF FirmwareInv
<1>2. Len(List) \in Nat
  BY <1>1 DEF Orderly
<1>3. step \in 0 .. Len(List)
  BY DEF FirmwareInv, TypeOK
<1>4. step + 1 \in Steps /\ step \in Nat
  BY <1>2, <1>3 DEF InList, Steps
<1> QED
  BY <1>1, <1>4 DEF Cur, Orderly
-------------------------------------------------------------------------------
LEMMA FirmwareInitHolds ==
  ASSUME Init
  PROVE  FirmwareInv
<1>1. Configured
  BY DEF Init, Configured
<1>2. Orderly
  BY <1>1, ListIsOrderly
<1>3. TypeOK
  <2>1. Len(List) \in Nat
    BY <1>2 DEF Orderly
  <2>2. step \in 0 .. Len(List)
    BY <2>1 DEF Init
  <2>3. ok \in BOOLEAN /\ err \in BOOLEAN /\ (err => at \notin {"entry", "bench"})
    BY DEF Init
  <2>4. input \in [copy     : {"nowhere", "block", "elsewhere"},
                  argument : {"unset", "block", "elsewhere"}]
    BY DEF Init
  <2>5. swo \in Seq([kind : {"READY", "PACKETS", "DONE"}, run : [traced : BOOLEAN]])
    BY DEF Init
  <2> QED
    BY <2>2, <2>3, <2>4, <2>5 DEF Init, TypeOK
<1>4. LiveInv
  BY NothingAtFirst DEF Init, LiveInv
<1>5. FailedInv /\ LinesInv /\ PortInv
  BY DEF Init, FailedInv, LinesInv, PortInv, Over
<1>6. InputInv
  BY DEF Init, InputInv
<1> QED
  BY <1>1, <1>3, <1>4, <1>5, <1>6 DEF FirmwareInv

(* What the first step of a list sends.                                    *)
LEMMA PortKept ==
  ASSUME FirmwareInv, at = "bench", Allocations, UNCHANGED <<build, traced, hooked>>
  PROVE  /\ swo' \in Seq([kind : {"READY", "PACKETS", "DONE"}, run : [traced : BOOLEAN]])
         /\ swo' = IF traced THEN Packets' ELSE Ready'
<1>1. Packets' = Packets /\ Ready' = Ready
  BY SameList DEF Packets, Ready, Token
<1>2. CASE traced /\ step = 0
  <2>1. swo' = Append(Ready, Token("PACKETS"))
    BY <1>2 DEF FirmwareInv, PortInv, Allocations
  <2>2. swo' = Packets
    BY <2>1 DEF Ready, Packets
  <2>3. swo' \in Seq([kind : {"READY", "PACKETS", "DONE"}, run : [traced : BOOLEAN]])
    BY <2>2 DEF Packets, Ready, Token, FirmwareInv, Configured
  <2> QED
    BY <1>1, <1>2, <2>2, <2>3
<1>3. CASE ~(traced /\ step = 0)
  <2>1. step \in Nat
    BY ListIsOrderly DEF FirmwareInv, TypeOK, Orderly
  <2> QED
    BY <1>1, <1>3, <2>1 DEF FirmwareInv, PortInv, TypeOK, Allocations
<1> QED
  BY <1>2, <1>3

LEMMA TraceReadyKeeps ==
  ASSUME FirmwareInv, TraceReady
  PROVE  FirmwareInv'
<1>1. UNCHANGED <<build, traced, hooked>>
  BY DEF TraceReady
<1>2. Configured' /\ Len(List) \in Nat \ {0}
  BY <1>1, SameList, ListIsOrderly DEF FirmwareInv, Orderly
<1>3. TypeOK'
  BY <1>1, SameList DEF FirmwareInv, TypeOK, TraceReady, Token
<1>4. LiveInv'
  BY <1>1, SameList DEF FirmwareInv, LiveInv, TraceReady
<1>5. FailedInv'
  BY <1>1, SameList DEF FirmwareInv, FailedInv, TraceReady, Over
<1>6. LinesInv'
  BY <1>1, SameList DEF FirmwareInv, LinesInv, TraceReady
<1>7. InputInv'
  BY <1>1, SameList DEF FirmwareInv, InputInv, TraceReady
<1>8. PortInv'
  BY <1>1, SameList DEF FirmwareInv, PortInv, FailedInv, TraceReady, Ready, Packets
<1> QED
  BY <1>2, <1>3, <1>4, <1>5, <1>6, <1>7, <1>8 DEF FirmwareInv

LEMMA SucceedKeeps ==
  ASSUME FirmwareInv, Succeed
  PROVE  FirmwareInv'
<1> DEFINE Ops == {"make", "check", "copy", "print", "release"}
<1>1. UNCHANGED <<build, traced, hooked>> /\ InList(Ops) /\ at = "bench" /\ ok
  BY DEF Succeed, InList
<1>2. /\ step \in Nat /\ step + 1 \in Steps /\ Cur = List[step + 1]
      /\ Cur \in StepRecord /\ Orderly
  BY <1>1, StepAtHand
<1>3. Configured' /\ List' = List
  BY <1>1, SameList DEF FirmwareInv
<1>4. step' = step + 1 /\ step' \in 0 .. Len(List)
  BY <1>2 DEF Succeed, Steps, Orderly
<1>5. live' = LiveAt(step + 1)
  <2>1. live = LiveAt(step)
    BY <1>1 DEF FirmwareInv, LiveInv
  <2>2. CASE Cur.op = "make"
    BY <1>2, <2>1, <2>2, LiveAfterStep DEF Succeed, Makes
  <2>3. CASE Cur.op = "release"
    BY <1>2, <2>1, <2>3, LiveAfterStep DEF Succeed, Releases
  <2>4. CASE Cur.op \notin {"make", "release"}
    BY <1>2, <2>1, <2>4, LiveAfterStep DEF Succeed, Makes, Releases
  <2> QED
    BY <2>2, <2>3, <2>4
<1>6. input' \in [copy     : {"nowhere", "block", "elsewhere"},
                  argument : {"unset", "block", "elsewhere"}]
      /\ (Cur.op = "copy" => input' = [copy |-> "block", argument |-> "block"])
      /\ (Cur.op # "copy" => input' = input)
  BY <1>2 DEF Succeed, FirmwareInv, TypeOK, Orderly, KnownThings
<1>7. TypeOK'
  <2>1. live' \subseteq Wasmi \cup {"environment", "runtime", "exec_env", "message"}
    BY <1>2 DEF Succeed, FirmwareInv, TypeOK, Orderly, KnownThings, Makes, Things
  <2>2. printed' \subseteq {"First", "Second", "Result", "Stack", "Error"}
    BY <1>2 DEF Succeed, FirmwareInv, TypeOK, Orderly, KnownThings
  <2>3. swo' \in Seq([kind : {"READY", "PACKETS", "DONE"}, run : [traced : BOOLEAN]])
    BY <1>1, PortKept DEF Succeed
  <2> QED
    BY <1>1, <1>3, <1>4, <1>6, <2>1, <2>2, <2>3 DEF Succeed, FirmwareInv, TypeOK
<1>8. LiveInv'
  <2>1. PICK n : n = step'
    OBVIOUS
  <2>2. live' = LiveAt(n)' /\ n \in 0 .. step'
    BY <1>1, <1>2, <1>4, <1>5, <2>1, SameList
  <2> QED
    BY <2>1, <2>2 DEF LiveInv
<1>9. FailedInv'
  BY <1>1 DEF Succeed, FailedInv, Over
<1>10. LinesInv'
  <2>1. \A k \in 1 .. step : k \in 1 .. step'
    BY <1>2, <1>4
  <2>2. step' \in 1 .. step'
    BY <1>2, <1>4
  <2>3. "Second" \in printed' => "Second" \in printed \/ Says(step', "Second")
    BY <1>2, <1>4 DEF Succeed, Says
  <2>4. "Stack" \notin printed'
    BY <1>1, <1>2 DEF Succeed, FirmwareInv, LinesInv, Orderly, KnownThings
  <2>5. build' = "wasm3" /\ "Second" \in printed' => \E k \in 1 .. step' : Says(k, "Second")
    BY <1>1, <2>1, <2>2, <2>3 DEF FirmwareInv, LinesInv
  <2> QED
    BY <1>1, <2>4, <2>5, SameList DEF LinesInv
<1>11. InputInv'
  <2>1. \A k \in 1 .. step' : k \in 1 .. step \/ k = step + 1
    BY <1>2, <1>4
  <2> QED
    BY <1>1, <1>2, <1>3, <1>6, <2>1 DEF FirmwareInv, InputInv
<1>12. PortInv'
  <2>1. step' > 0
    BY <1>2, <1>4
  <2> QED
    BY <1>1, <2>1, PortKept DEF Succeed, PortInv
<1> QED
  BY <1>3, <1>7, <1>8, <1>9, <1>10, <1>11, <1>12 DEF FirmwareInv

LEMMA FailFatallyKeeps ==
  ASSUME FirmwareInv, FailFatally
  PROVE  FirmwareInv'
<1>1. /\ UNCHANGED <<build, traced, hooked, step, input>> /\ at = "bench" /\ ~ok'
      /\ InList({"make", "check", "copy"})
  BY DEF FailFatally, InList
<1>2. step \in Nat /\ step + 1 \in Steps /\ Cur = List[step + 1] /\ Orderly
  BY <1>1, StepAtHand
<1>3. Configured' /\ List' = List
  BY <1>1, SameList DEF FirmwareInv
<1>4. TypeOK'
  <2>1. live' \subseteq Wasmi \cup {"environment", "runtime", "exec_env", "message"}
    BY DEF FailFatally, FirmwareInv, TypeOK
  <2>2. printed' \subseteq {"First", "Second", "Result", "Stack", "Error"}
    BY DEF FailFatally, Delays, FirmwareInv, TypeOK
  <2>3. swo' \in Seq([kind : {"READY", "PACKETS", "DONE"}, run : [traced : BOOLEAN]])
    BY <1>1, PortKept DEF FailFatally
  <2> QED
    BY <1>1, <1>3, <2>1, <2>2, <2>3 DEF FailFatally, FirmwareInv, TypeOK
<1>5. LiveInv'
  BY <1>1, SameList DEF FailFatally, FirmwareInv, LiveInv
<1>6. FailedInv'
  <2>1. step < Len(List) /\ Fatal(step + 1)
    BY <1>2 DEF FailFatally, Fatal, Orderly, Steps
  <2> QED
    BY <1>1, <1>3, <2>1 DEF FailFatally, FailedInv, Fatal, Over
<1>7. LinesInv'
  BY <1>1, SameList DEF FailFatally, Delays, FirmwareInv, LinesInv
<1>8. InputInv'
  BY <1>1 DEF InputInv
<1>9. PortInv'
  BY <1>1, PortKept DEF FailFatally, PortInv
<1> QED
  BY <1>3, <1>4, <1>5, <1>6, <1>7, <1>8, <1>9 DEF FirmwareInv

LEMMA FailIgnoredKeeps ==
  ASSUME FirmwareInv, FailIgnored
  PROVE  FirmwareInv'
<1>1. /\ UNCHANGED <<build, traced, hooked, at, live, input, err, printed>>
      /\ at = "bench" /\ ~ok' /\ InList({"make", "check"})
  BY DEF FailIgnored, InList
<1>2. step \in Nat /\ step + 1 \in Steps /\ Cur = List[step + 1] /\ Orderly
  BY <1>1, StepAtHand
<1>3. Configured' /\ List' = List
  BY <1>1, SameList DEF FirmwareInv
<1>4. step' = step + 1 /\ step' \in 0 .. Len(List)
  BY <1>2 DEF FailIgnored, Steps, Orderly
<1>5. TypeOK'
  <2>1. swo' \in Seq([kind : {"READY", "PACKETS", "DONE"}, run : [traced : BOOLEAN]])
    BY <1>1, PortKept DEF FailIgnored
  <2>2. ok' \in BOOLEAN
    BY DEF FailIgnored
  <2> QED
    BY <1>1, <1>3, <1>4, <2>1, <2>2 DEF FirmwareInv, TypeOK
<1>6. LiveInv'
  <2>1. \A n \in 0 .. step : n \in 0 .. step'
    BY <1>2, <1>4
  <2> QED
    BY <1>1, <2>1, SameList DEF FirmwareInv, LiveInv
<1>7. FailedInv'
  <2>1. PICK k \in Steps : k > step + 1 /\ Fatal(k)
    BY <1>2 DEF FailIgnored, Orderly, FailuresCaught
  <2> QED
    BY <1>1, <1>4, <2>1, SameList DEF FailedInv, Over
<1>8. LinesInv'
  <2>1. \A k \in 1 .. step : k \in 1 .. step'
    BY <1>2, <1>4
  <2> QED
    BY <1>1, <2>1, SameList DEF FirmwareInv, LinesInv
<1>9. InputInv'
  BY <1>1 DEF InputInv
<1>10. PortInv'
  <2>1. step' > 0
    BY <1>2, <1>4
  <2> QED
    BY <1>1, <2>1, PortKept DEF FailIgnored, PortInv
<1> QED
  BY <1>3, <1>5, <1>6, <1>7, <1>8, <1>9, <1>10 DEF FirmwareInv

LEMMA HangKeeps ==
  ASSUME FirmwareInv, Hang
  PROVE  FirmwareInv'
<1>1. /\ UNCHANGED <<build, traced, hooked, step, ok, live, input, err, printed, swo>>
      /\ at = "bench" /\ at' = "hung"
  BY DEF Hang, InList
<1>2. Configured' /\ List' = List
  BY <1>1, SameList DEF FirmwareInv
<1>3. TypeOK'
  BY <1>1, <1>2 DEF FirmwareInv, TypeOK
<1>4. LiveInv'
  BY <1>1, SameList DEF FirmwareInv, LiveInv
<1>5. FailedInv'
  BY <1>1 DEF FailedInv, Over
<1>6. LinesInv'
  BY <1>1, SameList DEF FirmwareInv, LinesInv
<1>7. InputInv'
  BY <1>1, <1>2 DEF FirmwareInv, InputInv
<1>8. PortInv'
  BY <1>1 DEF PortInv
<1> QED
  BY <1>2, <1>3, <1>4, <1>5, <1>6, <1>7, <1>8 DEF FirmwareInv

(* A list that is done has not failed.                                     *)
LEMMA ReturnZeroKeeps ==
  ASSUME FirmwareInv, ReturnZero
  PROVE  FirmwareInv'
<1>1. /\ UNCHANGED <<build, traced, hooked, step, ok, live, input, swo>>
      /\ at = "bench" /\ at' = "post" /\ step = Len(List) /\ err' \in BOOLEAN
  BY DEF ReturnZero, RunnerErrors, WamrErrors
<1>2. Configured' /\ List' = List /\ Orderly
  BY <1>1, SameList, ListIsOrderly DEF FirmwareInv
<1>3. Len(List) \in Nat /\ Len(List) > 0
  BY <1>2 DEF Orderly
<1>4. ok
  BY <1>1, <1>3 DEF FirmwareInv, FailedInv, Steps
<1>5. TypeOK'
  <2>1. printed' \subseteq {"First", "Second", "Result", "Stack", "Error"}
    BY DEF ReturnZero, Delays, FirmwareInv, TypeOK
  <2> QED
    BY <1>1, <1>2, <2>1 DEF FirmwareInv, TypeOK
<1>6. live = {}
  BY <1>1, <1>2, <1>4, NothingAtLast DEF FirmwareInv, LiveInv
<1>7. LiveInv'
  BY <1>1, SameList DEF FirmwareInv, LiveInv
<1>8. FailedInv'
  BY <1>1, <1>2, <1>4, <1>6 DEF FailedInv, Over
<1>9. LinesInv'
  BY <1>1, SameList DEF ReturnZero, Delays, FirmwareInv, LinesInv
<1>10. InputInv'
  BY <1>1, <1>2 DEF FirmwareInv, InputInv
<1>11. PortInv'
  BY <1>1, <1>3, SameList DEF FirmwareInv, PortInv, Ready, Packets
<1> QED
  BY <1>2, <1>5, <1>7, <1>8, <1>9, <1>10, <1>11 DEF FirmwareInv

LEMMA EndOfTestKeeps ==
  ASSUME FirmwareInv, EndOfTest
  PROVE  FirmwareInv'
<1>1. /\ UNCHANGED <<build, traced, hooked, step, ok, live, input, err, swo>>
      /\ at = "post" /\ at' = "ended"
  BY DEF EndOfTest
<1>2. Configured' /\ List' = List
  BY <1>1, SameList DEF FirmwareInv
<1>3. TypeOK'
  <2>1. printed' \subseteq {"First", "Second", "Result", "Stack", "Error"}
    BY DEF EndOfTest, FirmwareInv, TypeOK
  <2> QED
    BY <1>1, <1>2, <2>1 DEF FirmwareInv, TypeOK
<1>4. LiveInv'
  BY <1>1, SameList DEF FirmwareInv, LiveInv
<1>5. FailedInv'
  BY <1>1, <1>2 DEF FirmwareInv, FailedInv, Fatal, Over
<1>6. LinesInv'
  BY <1>1, SameList DEF EndOfTest, FirmwareInv, LinesInv
<1>7. InputInv'
  BY <1>1, <1>2 DEF FirmwareInv, InputInv
<1>8. PortInv'
  BY <1>1, SameList DEF FirmwareInv, PortInv, Ready, Packets
<1> QED
  BY <1>2, <1>3, <1>4, <1>5, <1>6, <1>7, <1>8 DEF FirmwareInv

LEMMA TraceDoneKeeps ==
  ASSUME FirmwareInv, TraceDone
  PROVE  FirmwareInv'
<1>1. /\ UNCHANGED <<build, traced, hooked, step, ok, live, input, err, printed>>
      /\ at = "ended" /\ at' = "finished"
  BY DEF TraceDone
<1>2. Configured' /\ List' = List
  BY <1>1, SameList DEF FirmwareInv
<1>3. TypeOK'
  BY <1>1, <1>2 DEF TraceDone, Token, FirmwareInv, TypeOK
<1>4. LiveInv'
  BY <1>1, SameList DEF FirmwareInv, LiveInv
<1>5. FailedInv'
  BY <1>1, <1>2 DEF FirmwareInv, FailedInv, Fatal, Over
<1>6. LinesInv'
  BY <1>1, SameList DEF FirmwareInv, LinesInv
<1>7. InputInv'
  BY <1>1, <1>2 DEF FirmwareInv, InputInv
<1>8. PortInv'
  BY <1>1 DEF PortInv
<1> QED
  BY <1>2, <1>3, <1>4, <1>5, <1>6, <1>7, <1>8 DEF FirmwareInv

LEMMA StutterKeeps ==
  ASSUME FirmwareInv, UNCHANGED vars
  PROVE  FirmwareInv'
<1>1. UNCHANGED <<build, traced, hooked>>
  BY DEF vars
<1>2. Configured' /\ List' = List
  BY <1>1, SameList DEF FirmwareInv
<1>3. TypeOK'
  BY <1>2 DEF vars, FirmwareInv, TypeOK
<1>4. LiveInv'
  BY <1>1, SameList DEF vars, FirmwareInv, LiveInv
<1>5. FailedInv'
  BY <1>1, <1>2, SameList DEF vars, FirmwareInv, FailedInv, Fatal, Over
<1>6. LinesInv'
  BY <1>1, SameList DEF vars, FirmwareInv, LinesInv
<1>7. InputInv'
  BY <1>1, <1>2 DEF vars, FirmwareInv, InputInv
<1>8. PortInv'
  BY <1>1, SameList DEF vars, FirmwareInv, PortInv, Ready, Packets
<1> QED
  BY <1>2, <1>3, <1>4, <1>5, <1>6, <1>7, <1>8 DEF FirmwareInv
-------------------------------------------------------------------------------
LEMMA FirmwareInvariance ==
  Spec => []FirmwareInv
<1>1. ASSUME FirmwareInv, [Next]_vars
      PROVE  FirmwareInv'
  <2>1. CASE TraceReady  BY <1>1, <2>1, TraceReadyKeeps
  <2>2. CASE Succeed     BY <1>1, <2>2, SucceedKeeps
  <2>3. CASE FailFatally BY <1>1, <2>3, FailFatallyKeeps
  <2>4. CASE FailIgnored BY <1>1, <2>4, FailIgnoredKeeps
  <2>5. CASE Hang        BY <1>1, <2>5, HangKeeps
  <2>6. CASE ReturnZero  BY <1>1, <2>6, ReturnZeroKeeps
  <2>7. CASE EndOfTest   BY <1>1, <2>7, EndOfTestKeeps
  <2>8. CASE TraceDone   BY <1>1, <2>8, TraceDoneKeeps
  <2>9. CASE UNCHANGED vars BY <1>1, <2>9, StutterKeeps
  <2> QED
    BY <1>1, <2>1, <2>2, <2>3, <2>4, <2>5, <2>6, <2>7, <2>8, <2>9 DEF Next
<1> QED
  BY <1>1, FirmwareInitHolds, PTL DEF Spec

(* The type invariant of Firmware.                                         *)
THEOREM FirmwareTypeCorrect ==
  Spec => []TypeOK
<1>1. FirmwareInv => TypeOK
  BY DEF FirmwareInv
<1> QED
  BY <1>1, FirmwareInvariance, PTL

(* post_main(), get_measurements(): a plain build that leaves a row for    *)
(* the csv has not failed, but for a second call of wasm3, and a hooked    *)
(* benchmark has had its input.                                            *)
THEOREM RowsMeanSuccess ==
  Spec => []RowMeansSuccess
<1>1. ASSUME FirmwareInv
      PROVE  RowMeansSuccess
  <2>1. SUFFICES ASSUME at \in {"ended", "finished"}, ~traced, RowParses
                 PROVE  /\ ok \/ (build = "wasm3" /\ "Second" \notin printed)
                        /\ hooked => input = [copy |-> "block", argument |-> "block"]
    BY DEF RowMeansSuccess
  <2>2. Orderly
    BY <1>1, ListIsOrderly DEF FirmwareInv
  <2>3. Len(List) \in Nat
    BY <2>2 DEF Orderly
  <2>4. step \in 0 .. Len(List)
    BY <1>1 DEF FirmwareInv, TypeOK
  <2>5. build = "wasm3" \/ ~err
    BY <1>1, <2>1 DEF FirmwareInv, LinesInv, RowParses
  <2>6. ASSUME ~ok
        PROVE  build = "wasm3" /\ "Second" \notin printed
    <3>1. step < Len(List) /\ Fatal(step + 1) /\ err
      BY <1>1, <2>1, <2>6 DEF FirmwareInv, FailedInv, Over
    <3>2. step + 1 \in Steps
      BY <2>3, <2>4, <3>1 DEF Steps
    <3>3. \A k \in 1 .. step : k \in Steps /\ k <= step + 1
      BY <2>3, <2>4 DEF Steps
    <3>4. \A k \in 1 .. step : ~Says(k, "Second")
      BY <2>2, <3>1, <3>2, <3>3 DEF Orderly, SecondIsLast
    <3> QED
      BY <1>1, <2>5, <3>1, <3>4 DEF FirmwareInv, LinesInv
  <2>7. ASSUME hooked
        PROVE  input = [copy |-> "block", argument |-> "block"]
    <3>1. ok
      BY <1>1, <2>6, <2>7 DEF FirmwareInv, Configured
    <3>2. step = Len(List)
      BY <1>1, <2>1, <3>1 DEF FirmwareInv, FailedInv, Over
    <3>3. \E k \in 1 .. step : List[k].op = "copy"
      BY <2>2, <2>7, <3>2 DEF Orderly, InputCopied, Steps
    <3> QED
      BY <1>1, <3>1, <3>3 DEF FirmwareInv, InputInv
  <2> QED
    BY <2>6, <2>7
<1> QED
  BY <1>1, FirmwareInvariance, PTL

(* run_bench(), wasm_interp(): wherever a run stops, nothing has been      *)
(* released before what depends on it.                                     *)
THEOREM ReleasesInOrder ==
  Spec => []ReleasedInOrder
<1>1. ASSUME FirmwareInv
      PROVE  ReleasedInOrder
  <2>1. Orderly
    BY <1>1, ListIsOrderly DEF FirmwareInv
  <2>2. SUFFICES ASSUME live # {"message"}, NEW thing \in live
                 PROVE  \E k \in Steps :
                          /\ List[k].op = "make" /\ thing \in List[k].what
                          /\ \A j \in 1 .. k - 1 :
                               List[j].op = "make" => List[j].what \subseteq live
    BY DEF ReleasedInOrder, Steps
  <2>3. PICK n \in 0 .. step : live = LiveAt(n)
    BY <1>1, <2>2 DEF FirmwareInv, LiveInv
  <2>4. n \in 0 .. Len(List)
    BY <1>1, <2>1 DEF FirmwareInv, TypeOK, Orderly
  <2> QED
    BY <2>1, <2>2, <2>3, <2>4, LiveHasNoGap DEF Makes
<1> QED
  BY <1>1, FirmwareInvariance, PTL

(* A run leaves nothing behind exactly if all its steps have succeeded.    *)
THEOREM SuccessLeavesNothing ==
  Spec => []SuccessReleasesAll
<1>1. ASSUME FirmwareInv
      PROVE  SuccessReleasesAll
  <2>1. Len(List) \in Nat /\ step \in 0 .. Len(List)
    BY <1>1, ListIsOrderly DEF FirmwareInv, Orderly, TypeOK
  <2> QED
    BY <1>1, <2>1 DEF FirmwareInv, FailedInv, Over, SuccessReleasesAll
<1> QED
  BY <1>1, FirmwareInvariance, PTL
-------------------------------------------------------------------------------
(* How the host sees a run of which the port has sent so much.             *)
LEMMA KindsSent ==
  ASSUME NEW sent
  PROVE  /\ sent = Ready => "PACKETS" \notin {sent[k].kind : k \in DOMAIN sent}
         /\ sent = Packets => "PACKETS" \in {sent[k].kind : k \in DOMAIN sent}
<1>1. ASSUME sent = Ready
      PROVE  "PACKETS" \notin {sent[k].kind : k \in DOMAIN sent}
  BY <1>1 DEF Ready, Token
<1>2. ASSUME sent = Packets
      PROVE  "PACKETS" \in {sent[k].kind : k \in DOMAIN sent}
  <2>1. Len(Ready) = 1
    BY DEF Ready
  <2>2. 2 \in DOMAIN sent /\ sent[2].kind = "PACKETS"
    BY <1>2, <2>1 DEF Packets, Ready, Token
  <2> QED
    BY <2>2
<1> QED
  BY <1>1, <1>2

LEMMA FirmwareStarts ==
  ASSUME Init
  PROVE  Seen!RunStarts
<1>1. Phase = "started" /\ Text = <<>>
  BY DEF Init, Phase, Text
<1> QED
  BY <1>1 DEF Init, Seen!RunStarts

(* A step of the list: its first one is where a tracing build sends.       *)
LEMMA ListStepIsBoardStep ==
  ASSUME FirmwareInv, FirmwareInv', Succeed \/ FailFatally \/ FailIgnored
  PROVE  Seen!BoardNext \/ UNCHANGED Seen!boardVars
<1>1. /\ UNCHANGED <<build, traced, hooked>> /\ Allocations
      /\ at = "bench" /\ at' \in {"bench", "post"}
      /\ at' = "bench" => step' = step + 1
  BY DEF Succeed, FailFatally, FailIgnored, InList
<1>2. step \in Nat
  BY ListIsOrderly DEF FirmwareInv, TypeOK, Orderly
<1>3. Text = <<>> /\ Text' = <<>>
  BY <1>1 DEF Text
<1>4. Phase = IF traced /\ step > 0 THEN "traced" ELSE "running"
  BY <1>1, KindsSent DEF Phase, FirmwareInv, PortInv
<1>5. Ready' = Ready /\ Packets' = Packets
  BY <1>1 DEF Ready, Packets, Token
<1>6. Phase' = IF traced THEN "traced" ELSE "running"
  <2>1. swo' = IF traced THEN Packets ELSE Ready
    BY <1>1, <1>5, PortKept
  <2> QED
    BY <1>1, <2>1, KindsSent DEF Phase
<1>7. CASE traced /\ step = 0
  <2>1. Phase = "running" /\ Phase' = "traced"
    BY <1>4, <1>6, <1>7
  <2>2. Seen!SendSwo("PACKETS")
    BY <1>1, <1>7 DEF Allocations, Token, Seen!SendSwo
  <2>3. Seen!BoardGoes("traced")
    BY <1>1, <2>1 DEF Seen!BoardGoes
  <2>4. Seen!TracePackets
    BY <1>3, <1>7, <2>1, <2>2, <2>3 DEF Seen!TracePackets
  <2> QED
    BY <2>4 DEF Seen!BoardNext
<1>8. CASE ~(traced /\ step = 0)
  BY <1>1, <1>2, <1>3, <1>4, <1>6, <1>8 DEF Allocations, Seen!boardVars
<1> QED
  BY <1>7, <1>8

LEMMA OtherStepIsBoardStep ==
  ASSUME FirmwareInv, FirmwareInv', TraceReady \/ Hang \/ ReturnZero \/ EndOfTest \/ TraceDone
  PROVE  Seen!BoardNext \/ UNCHANGED Seen!boardVars
<1>1. UNCHANGED <<build, traced, hooked>>
  BY DEF TraceReady, Hang, ReturnZero, EndOfTest, TraceDone
<1>2. Ready' = Ready /\ Packets' = Packets
  BY <1>1 DEF Ready, Packets, Token
<1>3. step \in Nat /\ Len(List) > 0
  BY ListIsOrderly DEF FirmwareInv, TypeOK, Orderly
<1>4. CASE TraceReady
  <2>1. Phase = "started" /\ Text = <<>> /\ Text' = <<>>
    BY <1>4 DEF TraceReady, Phase, Text
  <2>2. swo' = Ready
    BY <1>4 DEF TraceReady, FirmwareInv, PortInv, Ready
  <2>3. Phase' = "running"
    BY <1>4, <2>2, KindsSent DEF TraceReady, Phase
  <2> QED
    BY <1>1, <1>4, <2>1, <2>3
    DEF TraceReady, Token, Seen!BoardNext, Seen!TraceReady, Seen!SendSwo, Seen!BoardGoes
<1>5. CASE Hang
  <2>1. at = "bench" /\ at' = "hung" /\ swo' = swo
    BY <1>5 DEF Hang, InList
  <2>2. Phase \in {"running", "traced"} /\ Phase' = "hung" /\ Text' = Text
    BY <2>1 DEF Phase, Text
  <2> QED
    BY <1>1, <2>1, <2>2 DEF Seen!BoardNext, Seen!Hang, Seen!BoardGoes
<1>6. CASE ReturnZero
  <2>1. at = "bench" /\ at' = "post" /\ swo' = swo
    BY <1>6 DEF ReturnZero
  <2>2. Phase' = Phase /\ Text' = Text
    BY <2>1 DEF Phase, Text
  <2> QED
    BY <1>1, <2>1, <2>2 DEF Seen!boardVars
<1>7. CASE EndOfTest
  <2>1. at = "post" /\ at' = "ended" /\ swo' = swo
    BY <1>7 DEF EndOfTest
  <2>2. Phase = IF traced THEN "traced" ELSE "running"
    BY <2>1, KindsSent DEF Phase, FirmwareInv, PortInv
  <2>3. Phase' = "ended" /\ Text = <<>>
    BY <2>1 DEF Phase, Text
  <2>4. Text' = << [run |-> [traced |-> traced], ok |-> RowParses'] >>
    BY <1>1, <2>1 DEF Text
  <2>5. Text' = Append(Text, [run |-> [traced |-> traced], ok |-> RowParses'])
    BY <2>3, <2>4
  <2>6. RowParses' \in BOOLEAN
    BY DEF RowParses
  <2>7. \E ok_ \in BOOLEAN : Text' = Append(Text, [run |-> [traced |-> traced], ok |-> ok_])
    BY <2>5, <2>6
  <2>8. Seen!BoardGoes("ended")
    BY <1>1, <2>3 DEF Seen!BoardGoes
  <2>9. Seen!EndOfTest
    BY <2>1, <2>2, <2>7, <2>8 DEF Seen!EndOfTest
  <2> QED
    BY <2>9 DEF Seen!BoardNext
<1>8. CASE TraceDone
  <2>1. at = "ended" /\ at' = "finished" /\ printed' = printed
    BY <1>8 DEF TraceDone
  <2>2. Phase = "ended" /\ Phase' = "finished" /\ Text' = Text
    BY <1>1, <2>1 DEF Phase, Text, RowParses
  <2> QED
    BY <1>1, <1>8, <2>2
    DEF TraceDone, Token, Seen!BoardNext, Seen!TraceDone, Seen!SendSwo, Seen!BoardGoes
<1> QED
  BY <1>4, <1>5, <1>6, <1>7, <1>8

(* Seen from its two ports, a run of any build of any interpreter is a run *)
(* of the board of the campaign (ImplementsBoard but for its fairness).    *)
THEOREM BoardImplemented ==
  Spec => Seen!RunStarts /\ [][Seen!BoardNext]_(Seen!boardVars)
<1>1. Init => Seen!RunStarts
  BY FirmwareStarts
<1>2. ASSUME FirmwareInv, FirmwareInv', [Next]_vars
      PROVE  Seen!BoardNext \/ UNCHANGED Seen!boardVars
  <2>1. CASE UNCHANGED vars
    BY <2>1 DEF vars, Seen!boardVars, Phase, Text, RowParses
  <2> QED
    BY <1>2, <2>1, ListStepIsBoardStep, OtherStepIsBoardStep DEF Next
<1> QED
  BY <1>1, <1>2, FirmwareInvariance, PTL DEF Spec
===============================================================================
