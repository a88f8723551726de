------------------------------- MODULE StackMark -------------------------------
(***************************************************************************)
(* The measurement of the stack: mark_stack() and count_stack() of main.c, *)
(* which is the same in wamr, wasm3 and wasmi.  RAM above the variables is *)
(* a row of words, &__bss_end__ = 0 and &_stack - 1 = Top; the heap grows  *)
(* up from 0 and the stack down from Top.  mark_stack() fills what lies    *)
(* below the stack pointer with markers and count_stack() walks down from  *)
(* the top until it has seen Consec of them in a row.                      *)
(*                                                                         *)
(* Sizes are in words: the sizeof(uintptr_t) of the code is left out.  A   *)
(* word is either a marker or not, and at reset RAM may hold markers of an *)
(* earlier run.  _sbrk() is external: it stops at the stack pointer.       *)
(***************************************************************************)
EXTENDS Integers

CONSTANTS
  Top,      (* The highest word of the stack.                              *)
  Skip,     (* Words below sp that are not marked, 0x100 in the code.      *)
  Consec,   (* Markers in a row that end the count, 8 in the code.         *)
  MaxCalls  (* Bound: calls in a run.                                      *)

ASSUME StackAssumption ==
  /\ Top \in Nat /\ {Skip, Consec} \subseteq Nat \ {0} /\ MaxCalls \in Nat
  /\ Skip + Consec < Top

Word == 0 .. Top

VARIABLES
  pc,        (* mark, run, count or done.                                  *)
  marked,    (* The words that hold a marker.                              *)
  sp,        (* The lowest word of the stack.                              *)
  brk,       (* The lowest word above the heap.                            *)
  ptr,       (* The pointer of the loops.                                  *)
  consec_markers,
  result,
  base,      (* sp in mark_stack().                                        *)
  low,       (* History: the lowest value of sp.                           *)
  calls      (* Calls so far.                                              *)

stackVars == <<pc, marked, sp, brk, ptr, consec_markers, result, base, low, calls>>

StackInit ==
  /\ pc = "mark"
  /\ marked \in SUBSET Word
  /\ sp \in (Skip + 1) .. Top
  /\ sp \notin marked                        \* The frame of main() is in use.
  /\ brk = 0
  /\ ptr = sp - Skip
  /\ consec_markers = 0
  /\ result = 0
  /\ base = sp
  /\ low = sp
  /\ calls = 0

(* The loop of mark_stack(); what an interrupt pushes meanwhile falls into *)
(* the words that are skipped.                                             *)
Mark ==
  /\ pc = "mark"
  /\ marked' = marked \cup 1 .. ptr
  /\ ptr' = 0
  /\ pc' = "run"
  /\ UNCHANGED <<sp, brk, consec_markers, result, base, low, calls>>
-------------------------------------------------------------------------------
(* The benchmark, and post_main() around it (external).                    *)

(* A call opens a frame of n words, of which it writes some, the lowest    *)
(* among them.                                                             *)
Call(n) ==
  /\ pc = "run"
  /\ calls < MaxCalls
  /\ sp - n >= brk /\ sp - n > 0
  /\ sp' = sp - n
  /\ \E written \in SUBSET (sp' .. sp - 1) :
       sp' \in written /\ marked' = marked \ written
  /\ low' = IF sp' < low THEN sp' ELSE low
  /\ calls' = calls + 1
  /\ UNCHANGED <<pc, brk, ptr, consec_markers, result, base>>

(* All frames down to main() are left.                                     *)
Return ==
  /\ pc = "run"
  /\ sp' = base
  /\ UNCHANGED <<pc, marked, brk, ptr, consec_markers, result, base, low, calls>>

(* The heap grows by n words, which are all written.                       *)
Sbrk(n) ==
  /\ pc = "run"
  /\ brk + n <= sp
  /\ brk' = brk + n
  /\ marked' = marked \ (brk .. brk' - 1)
  /\ UNCHANGED <<pc, sp, ptr, consec_markers, result, base, low, calls>>
-------------------------------------------------------------------------------
(* count_stack(), called when the benchmark has returned.                  *)
StartCount ==
  /\ pc = "run"
  /\ sp = base
  /\ pc' = "count"
  /\ ptr' = Top
  /\ UNCHANGED <<marked, sp, brk, consec_markers, result, base, low, calls>>

(* Mutant of Looking: the loop does not stop at the end of the region.     *)
LookingPastEnd == consec_markers < Consec

Looking == ptr > 0 /\ consec_markers < Consec

(* Mutant of CountWord: the markers need not be in a row.                  *)
CountWordNoReset ==
  /\ pc = "count"
  /\ Looking
  /\ consec_markers' = IF ptr \in marked THEN consec_markers + 1 ELSE consec_markers
  /\ result' = result + 1
  /\ ptr' = ptr - 1
  /\ UNCHANGED <<pc, marked, sp, brk, base, low, calls>>

CountWord ==
  /\ pc = "count"
  /\ Looking
  /\ consec_markers' = IF ptr \in marked THEN consec_markers + 1 ELSE 0
  /\ result' = result + 1
  /\ ptr' = ptr - 1
  /\ UNCHANGED <<pc, marked, sp, brk, base, low, calls>>

(* Mutant of Finish: the markers are counted as stack.                     *)
FinishKeepsMarkers ==
  /\ pc = "count"
  /\ ~Looking
  /\ result' = result
  /\ pc' = "done"
  /\ UNCHANGED <<marked, sp, brk, ptr, consec_markers, base, low, calls>>

(* return result - 8 * sizeof(uintptr_t)                                   *)
Finish ==
  /\ pc = "count"
  /\ ~Looking
  /\ result' = result - Consec
  /\ pc' = "done"
  /\ UNCHANGED <<marked, sp, brk, ptr, consec_markers, base, low, calls>>

StackNext ==
  \/ Mark
  \/ \E n \in 1 .. Top : Call(n) \/ Sbrk(n)
  \/ Return \/ StartCount \/ CountWord \/ Finish

StackSpec == StackInit /\ [][StackNext]_stackVars
-------------------------------------------------------------------------------
StackTypeOK ==
  /\ pc \in {"mark", "run", "count", "done"}
  /\ marked \subseteq Word
  /\ {sp, base, low} \subseteq Word /\ low <= sp /\ sp <= base
  /\ brk \in 0 .. sp
  /\ ptr \in Word
  /\ consec_markers \in 0 .. Consec
  /\ result \in 0 .. Top
  /\ calls \in 0 .. MaxCalls

(* The deepest the stack has been, and the least count_stack() can find:   *)
(* what mark_stack() has skipped counts as used.                           *)
Used == Top - low + 1

Floor == Top - (base - Skip)

(* While enough markers are left between the heap and the stack, the stack *)
(* is never reported larger than it has been, nor than what mark_stack()   *)
(* has left out.                                                           *)
NeverTooMuch ==
  pc = "done" /\ brk + Consec < low /\ Consec <= base - Skip - brk =>
    result <= IF Used > Floor THEN Used ELSE Floor

Words(low_, high) == {w \in Word : low_ <= w /\ w <= high}

(* A stack without Consec unwritten words in a row is never reported       *)
(* smaller than it has been, as long as Consec words are left below it.    *)
Dense ==
  \A w \in Words(low, Top) :
    w + Consec - 1 <= Top => ~(Words(w, w + Consec - 1) \subseteq marked)

NeverTooLittle ==
  pc = "done" /\ Dense /\ low > Consec => result >= Used
===============================================================================
