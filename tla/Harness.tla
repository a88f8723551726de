-------------------------------- MODULE Harness --------------------------------
(***************************************************************************)
(* A whole measurement campaign: main() of wamr/stm32/run-benches.py (the  *)
(* wasm3 and the wasmi scripts have the same loop), the two worker         *)
(* processes it starts for every run, and the board.                       *)
(*                                                                         *)
(* Every benchmark is run twice, first built with the heap tracing         *)
(* wrappers, then plainly.  One worker (get_heap) reads the ITM bytes from *)
(* the socket of OpenOCD, which stays open during the whole campaign; the  *)
(* other (get_measurements) opens the serial port anew for every run.      *)
(*                                                                         *)
(* Abstractions: what the board sends is cut into tokens that name the run *)
(* they come from, so that a result can be compared with the run it is     *)
(* filed under.  Letters of any token of a trace may be lost on the way,   *)
(* or the whole rest of it, when the socket is closed.  OpenOCD, the       *)
(* serial driver (opening the port discards old input) and multiprocessing *)
(* are external, and so is gdb: the write() of pygdbmi raises an exception *)
(* only when gdb does not answer in time.  An answer that is an error is   *)
(* returned to the script, which does not look at it.                      *)
(***************************************************************************)
EXTENDS Board

CONSTANTS
  NBench,     (* The number of benchmarks.                                 *)
  MaxRefused  (* Bound: the last benchmark for which gdb refuses commands. *)

ASSUME HarnessAssumption == NBench \in Nat \ {0} /\ MaxRefused \in Nat

Bench == 1 .. NBench

(* A run: a benchmark and the trace_flag its firmware was built with.      *)
Run == [bench : Bench, traced : BOOLEAN]

(* A firmware: that of a run, or what an earlier campaign has left.        *)
Image == [bench : {0} \cup Bench, traced : BOOLEAN]

VARIABLES
  at,        (* Where main() is.                                           *)
  run,       (* name and trace_flag of its two loops.                      *)
  row,       (* heap, delay1/delay2/stack and text/data of this benchmark. *)
  results,   (* measurements and sizes: the benchmarks that have a row.    *)
  csv,       (* What write_csv() has written, if anything.                  *)
  heapJob,   (* The worker in get_heap().                                  *)
  measJob,   (* The worker in get_measurements().                          *)
  debuggers, (* gdb processes alive.                                       *)
  torn,      (* History: a pool was torn down too early (see TearDown).    *)
  refused,   (* History: the benchmarks for which gdb has refused a        *)
             (* command of flash_bin() or start_bin().                     *)
  lost       (* History: the line that this get_heap() was waiting for has *)
             (* come damaged or not at all.                                *)

vars == <<at, run, row, results, csv, heapJob, measJob, debuggers, board, swo,
          uart, torn, refused, lost>>

None == [none |-> TRUE]                         (* The -1 of the script.   *)

(* The heap of a capture, by the run whose "trace ready!" precedes it and  *)
(* by its packets: without any the peak is 0, and anything if what follows *)
(* the "trace ready!" is damaged.                                          *)
HeapValue == [run : Image, packets : {"none", "whole", "damaged"}]

(* How a worker ends: multiprocessing keeps its result or its exception.   *)
Got(result) == [state |-> "returned", result |-> result]

Raise(exception) == [state |-> exception]

Raised == {Raise("ValueError"), Raise("OtherError")}

NoRow == [heap |-> None, times |-> None, sizes |-> None]

NoHeapJob == [state |-> "none"]

NoMeasJob == [state |-> "none"]

Init ==
  /\ at = "build"
  /\ run = [bench |-> 1, traced |-> TRUE]
  /\ row = NoRow
  /\ results = <<>>
  /\ csv = <<>>
  /\ heapJob = NoHeapJob
  /\ measJob = NoMeasJob
  /\ debuggers = 0
  /\ board \in [run : [bench : {0}, traced : BOOLEAN], phase : {"finished"}]
  /\ swo = <<>>
  /\ uart = <<>>
  /\ torn = FALSE
  /\ refused = {}
  /\ lost = FALSE
-------------------------------------------------------------------------------
(* The board (see Board): swo is the socket of OpenOCD, uart the buffer of *)
(* the serial driver.                                                      *)

BoardStep ==
  /\ BoardNext
  /\ UNCHANGED <<at, run, row, results, csv, heapJob, measJob, debuggers, torn,
                 refused, lost>>
-------------------------------------------------------------------------------
(* The workers.                                                            *)

(* First loop of get_heap(): lines are read until one is "trace ready!".   *)
(* Damaged, or cut off by the end of the socket, it is not recognised.     *)
SeekReady ==
  /\ heapJob.state = "seeking"
  /\ swo # <<>>
  /\ swo' = Tail(swo)
  /\ \/ /\ Head(swo).kind = "READY"
        /\ heapJob' = [state |-> "capturing", run |-> Head(swo).run, packets |-> "none"]
        /\ UNCHANGED lost
     \/ /\ lost' = (lost \/ Head(swo).kind = "READY")
        /\ UNCHANGED heapJob

Captured(packets) == heapJob' = [heapJob EXCEPT !.packets = packets]

(* What lies between the last "trace ready!" and "TRACE_DONE" is replayed  *)
(* (HeapReplay); only damaged packets make that fail.                      *)
Replayed ==
  heapJob' \in {Got([run |-> heapJob.run, packets |-> heapJob.packets])}
               \cup (IF heapJob.packets = "damaged" THEN Raised ELSE {})

(* Mutant of Capture: another "trace ready!" starts the search anew.       *)
CaptureSeeksAgain ==
  /\ heapJob.state = "capturing"
  /\ swo # <<>>
  /\ swo' = Tail(swo)
  /\ \/ Head(swo).kind = "READY" /\ heapJob' = [state |-> "seeking"] /\ UNCHANGED lost
     \/ Head(swo).kind = "PACKETS" /\ Captured("whole") /\ UNCHANGED lost
     \/ Head(swo).kind = "DONE" /\ Replayed /\ UNCHANGED lost
     \/ Captured("damaged") /\ lost' = (lost \/ Head(swo).kind = "DONE")

(* Second loop: lines are read until one ends in "TRACE_DONE".  Any of     *)
(* them may be damaged, or be cut off by the end of the socket.            *)
Capture ==
  /\ heapJob.state = "capturing"
  /\ swo # <<>>
  /\ swo' = Tail(swo)
  /\ \/ /\ Head(swo).kind = "READY"
        /\ heapJob' = [heapJob EXCEPT !.run = Head(swo).run, !.packets = "none"]
        /\ UNCHANGED lost
     \/ /\ Head(swo).kind = "PACKETS"
        /\ Captured(IF heapJob.packets = "none" THEN "whole" ELSE "damaged")
        /\ UNCHANGED lost
     \/ Head(swo).kind = "DONE" /\ Replayed /\ UNCHANGED lost
     \/ Captured("damaged") /\ lost' = (lost \/ Head(swo).kind = "DONE")

HeapJobStep ==
  /\ SeekReady \/ Capture
  /\ UNCHANGED <<at, run, row, results, csv, measJob, debuggers, board, uart, torn,
                 refused>>

(* Mutant of OpenSerial: what an earlier run has printed is not discarded. *)
OpenSerialKeepsOld ==
  /\ measJob.state = "opening"
  /\ uart' = uart
  /\ measJob' = [state |-> "reading"]

OpenSerial ==
  /\ measJob.state = "opening"
  /\ uart' = <<>>
  /\ measJob' = [state |-> "reading"]

(* The text up to "END OF TEST" has the numbers, or cannot be decoded (a   *)
(* UnicodeDecodeError is a ValueError), or lacks one: .group() of None.    *)
ReadEndOfTest ==
  /\ measJob.state = "reading"
  /\ uart # <<>>
  /\ uart' = Tail(uart)
  /\ measJob' \in (IF Head(uart).ok THEN {Got(Head(uart).run)} ELSE {}) \cup Raised

(* Mutant of SerialTimeout: Serial() without a timeout.                    *)
NoSerialTimeout == FALSE /\ UNCHANGED <<measJob, uart>>

(* 120 s after the port was opened what has come is taken for the text: it *)
(* lacks a number, cannot be decoded, or just misses "END OF TEST".        *)
SerialTimeout ==
  /\ measJob.state = "reading"
  /\ measJob' \in Raised \cup (IF board.phase \in {"running", "traced"}
                              THEN {Got(board.run)} ELSE {})
  /\ UNCHANGED uart

MeasJobStep ==
  /\ OpenSerial \/ ReadEndOfTest \/ SerialTimeout
  /\ UNCHANGED <<at, run, row, results, csv, heapJob, debuggers, board, swo, torn,
                 refused, lost>>
-------------------------------------------------------------------------------
(* main()                                                                  *)

(* Leaving the `with Pool` block terminates the workers.  The history      *)
(* records whether that happened while the board, then in this phase, had  *)
(* still something to tell that the next run could take for its own: the   *)
(* test not ended, or "trace ready!" sent and not yet read.                *)
TearDown(phase) ==
  /\ heapJob' = NoHeapJob
  /\ measJob' = NoMeasJob
  /\ torn' = (torn \/ phase \in {"started", "running", "traced", "hung"}
                   \/ \E i \in DOMAIN swo : swo[i].kind = "READY")

(* Mutant of NextRun: the -1 of the next benchmark are not set.            *)
NextRunKeepsRow(newRow) ==
  /\ at' = IF ~run.traced /\ run.bench = NBench THEN "write" ELSE "build"
  /\ row' = newRow
  /\ IF run.traced
     THEN run' = [run EXCEPT !.traced = FALSE] /\ UNCHANGED results
     ELSE /\ run' = IF run.bench = NBench THEN run
                    ELSE [bench |-> run.bench + 1, traced |-> TRUE]
          /\ results' = IF newRow.times = None THEN results
                        ELSE Append(results, [bench |-> run.bench, row |-> newRow])

(* Mutant of NextRun: a plain run without a result is run again.           *)
NextRunRetries(newRow) ==
  /\ at' = IF ~run.traced /\ run.bench = NBench THEN "write" ELSE "build"
  /\ row' = IF run.traced THEN newRow ELSE NoRow
  /\ run' = IF run.traced THEN [run EXCEPT !.traced = FALSE]
            ELSE IF run.bench = NBench \/ newRow.times = None THEN run
            ELSE [bench |-> run.bench + 1, traced |-> TRUE]
  /\ results' = IF run.traced \/ newRow.times = None THEN results
                ELSE Append(results, [bench |-> run.bench, row |-> newRow])

(* The next trace_flag, or the row of this benchmark and the next name.    *)
NextRun(newRow) ==
  /\ at' = IF ~run.traced /\ run.bench = NBench THEN "write" ELSE "build"
  /\ IF run.traced
     THEN /\ run' = [run EXCEPT !.traced = FALSE]
          /\ row' = newRow
          /\ UNCHANGED results
     ELSE /\ run' = IF run.bench = NBench THEN run
                    ELSE [bench |-> run.bench + 1, traced |-> TRUE]
          /\ row' = NoRow
          /\ results' = IF newRow.times = None THEN results
                        ELSE Append(results, [bench |-> run.bench, row |-> newRow])

(* The end of a run that goes on with the loop, after a success or through *)
(* the ValueError handler: finally, gdbc.exit().                           *)
EndRun(newRow) ==
  /\ TearDown(board'.phase)
  /\ debuggers' = debuggers - 1
  /\ NextRun(newRow)

(* Any other exception ends main(), and so does the finally clause itself  *)
(* when it calls None.exit().  Nothing has been written then.  gdbDelta is *)
(* the change in the number of gdb processes.                              *)
Abort(gdbDelta) ==
  /\ at' = "aborted"
  /\ TearDown(board'.phase)
  /\ debuggers' = debuggers + gdbDelta
  /\ UNCHANGED <<run, row, results>>

(* Mutant of Build: gdbc is not reset, and the old controller exits again. *)
BuildKeepsController ==
  /\ at = "build"
  /\ UNCHANGED <<csv, board, swo, uart, refused, lost>>
  /\ \/ /\ at' = "pool"
        /\ row' = [row EXCEPT !.sizes = run]
        /\ UNCHANGED <<run, results, heapJob, measJob, debuggers, torn>>
     \/ Abort(-1)

(* build_bin() and get_size().                                             *)
Build ==
  /\ at = "build"
  /\ UNCHANGED <<csv, board, swo, uart, refused, lost>>
  /\ \/ /\ at' = "pool"
        /\ row' = [row EXCEPT !.sizes = run]
        /\ UNCHANGED <<run, results, heapJob, measJob, debuggers, torn>>
     \/ Abort(0)

StartWorkers ==
  /\ at = "pool"
  /\ at' = "flash"
  /\ heapJob' = [state |-> "seeking"]
  /\ measJob' = [state |-> "opening"]
  /\ lost' = FALSE
  /\ UNCHANGED <<run, row, results, csv, debuggers, board, swo, uart, torn, refused>>

Stopped == [run |-> run, phase |-> "stopped"]

(* gdb answers a command with an error, and the script goes on.            *)
Refuses ==
  /\ run.bench <= MaxRefused
  /\ refused' = refused \cup {run.bench}

(* Where flash_bin() may leave the board when gdb does not do as it is     *)
(* told: untouched, or with the old or the new firmware stopped, running   *)
(* because there is no breakpoint, or dead (halted, programmed in part).   *)
Mishaps ==
  ({board} \cup [run : {board.run, run}, phase : {"stopped", "started", "hung"}])
    \ {Stopped}

(* Mutant of Flash: a timeout of gdb goes on with the next run.            *)
FlashFailureContinues ==
  /\ at = "flash"
  /\ UNCHANGED <<csv, swo, uart, lost, refused>>
  /\ \/ /\ at' = "start"
        /\ board' = Stopped
        /\ debuggers' = debuggers + 1
        /\ UNCHANGED <<run, row, results, heapJob, measJob, torn>>
     \/ /\ board' \in Mishaps \cup {Stopped}
        /\ TearDown(board'.phase)
        /\ debuggers' = debuggers + 1
        /\ NextRun(row)

(* flash_bin(): the board is reset, programmed and stopped at post_main(), *)
(* unless gdb has refused one of the commands, which nobody notices.  When *)
(* it does not answer in time the assignment to gdbc is not reached, and   *)
(* gdb stays.                                                              *)
Flash ==
  /\ at = "flash"
  /\ UNCHANGED <<csv, swo, uart, lost>>
  /\ \/ /\ at' = "start"
        /\ \/ board' = Stopped /\ UNCHANGED refused
           \/ board' \in Mishaps /\ Refuses
        /\ debuggers' = debuggers + 1
        /\ UNCHANGED <<run, row, results, heapJob, measJob, torn>>
     \/ board' \in Mishaps \cup {Stopped} /\ Abort(1) /\ UNCHANGED refused

(* -exec-continue                                                          *)
Continue == IF board.phase = "stopped" THEN BoardGoes("started") ELSE UNCHANGED board

(* start_bin(): a command that gdb has refused goes unnoticed; a timeout   *)
(* is a ValueError, whether or not the board runs.                         *)
Start ==
  /\ at = "start"
  /\ UNCHANGED <<csv, swo, uart, lost>>
  /\ \/ /\ at' = "await"
        /\ \/ Continue /\ UNCHANGED refused
           \/ UNCHANGED board /\ Refuses
        /\ UNCHANGED <<run, row, results, heapJob, measJob, debuggers, torn>>
     \/ (UNCHANGED board \/ Continue) /\ EndRun(row) /\ UNCHANGED refused

(* heap = measure2.get()[0]                                                *)
GetHeap ==
  /\ at = "await" /\ run.traced
  /\ UNCHANGED <<csv, board, swo, uart, refused, lost>>
  /\ \/ /\ heapJob.state = "returned"
        /\ at' = "wait"
        /\ row' = [row EXCEPT !.heap = heapJob.result]
        /\ UNCHANGED <<run, results, heapJob, measJob, debuggers, torn>>
     \/ heapJob.state = "ValueError" /\ EndRun(row)
     \/ heapJob.state = "OtherError" /\ Abort(-1)

(* measure1.wait(): the result is not asked for.                           *)
WaitMeasurements ==
  /\ at = "wait"
  /\ measJob.state \in {"returned", "ValueError", "OtherError"}
  /\ UNCHANGED <<csv, board, swo, uart, refused, lost>>
  /\ EndRun(row)

(* delay1, delay2, stack = measure1.get()[0]                               *)
GetMeasurements ==
  /\ at = "await" /\ ~run.traced
  /\ UNCHANGED <<csv, board, swo, uart, refused, lost>>
  /\ \/ measJob.state = "returned" /\ EndRun([row EXCEPT !.times = measJob.result])
     \/ measJob.state = "ValueError" /\ EndRun(row)
     \/ measJob.state = "OtherError" /\ Abort(-1)

WriteCsv ==
  /\ at = "write"
  /\ at' = "written"
  /\ csv' = results
  /\ UNCHANGED <<run, row, results, heapJob, measJob, debuggers, board, swo, uart, torn,
                 refused, lost>>

MainStep ==
  \/ Build \/ StartWorkers \/ Flash \/ Start
  \/ GetHeap \/ WaitMeasurements \/ GetMeasurements \/ WriteCsv

Next == BoardStep \/ HeapJobStep \/ MeasJobStep \/ MainStep

(* The processes of the host are scheduled and the board, unless it hangs, *)
(* goes on: when something can be done, something is done.                 *)
Spec == Init /\ [][Next]_vars /\ WF_vars(Next)
-------------------------------------------------------------------------------
Own(bench, traced) == [bench |-> bench, traced |-> traced]

(* The heap of the own tracing run, if its packets have come whole.        *)
OwnHeap(bench) == [run : {Own(bench, TRUE)}, packets : {"whole", "damaged"}]

Token(kinds) == [kind : kinds, run : Image]

Row == [heap : HeapValue \cup {None}, times : Image \cup {None}, sizes : Run \cup {None}]

TypeOK ==
  /\ at \in {"build", "pool", "flash", "start", "await", "wait", "write", "written", "aborted"}
  /\ run \in Run
  /\ row \in Row
  /\ results \in Seq([bench : Bench, row : Row])
  /\ csv = IF at = "written" THEN results ELSE <<>>
  /\ heapJob \in {NoHeapJob, [state |-> "seeking"]}
                 \cup [state : {"capturing"}, run : Image, packets : {"none", "whole", "damaged"}]
                 \cup [state : {"returned"}, result : HeapValue] \cup Raised
  /\ measJob \in {NoMeasJob, [state |-> "opening"], [state |-> "reading"]}
                 \cup [state : {"returned"}, result : Image] \cup Raised
  /\ debuggers \in Nat
  /\ board \in [run : Image, phase : Phases]
  /\ swo \in Seq(Token({"READY", "PACKETS", "DONE"}))
  /\ uart \in Seq([run : Image, ok : BOOLEAN])
  /\ torn \in BOOLEAN
  /\ refused \subseteq Bench
  /\ lost \in BOOLEAN

(* Unless a pool was torn down too early, every row of a benchmark for     *)
(* which gdb has refused nothing has the measurements of its own           *)
(* benchmark: the times and the size from the plain build, the heap from   *)
(* the tracing build, whatever exceptions, timeouts, damaged lines and     *)
(* late bytes of earlier runs there were, and whatever firmware earlier    *)
(* benchmarks were measured with.                                          *)
RowsFaithful ==
  ~torn => \A i \in DOMAIN results :
    LET r == results[i] IN
    /\ r.row.sizes = Own(r.bench, FALSE)
    /\ r.bench \notin refused =>
         /\ r.row.times = Own(r.bench, FALSE)
         /\ r.row.heap \in {None} \cup OwnHeap(r.bench)

(* Even after a teardown the times are those of some build of the row's    *)
(* benchmark, if gdb has not refused to program it: a firmware that was    *)
(* not replaced is never measured beyond the benchmark it happened in.     *)
TimesOfOwnBenchmark ==
  \A i \in DOMAIN results :
    results[i].bench \notin refused => results[i].row.times.bench = results[i].bench

(* No two gdb processes ever fight over the board: a gdb that flash_bin()  *)
(* has left behind is never followed by another run.                       *)
OneDebugger == debuggers <= 1 /\ (at \in {"build", "pool", "flash"} => debuggers = 0)

(* get_heap() waits for lines that will not come only if gdb has refused a *)
(* command, if the board hangs, or if the very line it was waiting for was *)
(* lost: otherwise the board has still to send it, or it has been sent and *)
(* not read.  No other loss, and nothing of an earlier run, makes it wait. *)
NeverWaitsInVain ==
  at = "await" /\ run.bench \notin refused /\ ~lost =>
    /\ board.phase # "stopped"
    /\ heapJob.state = "seeking" =>
         board.phase = "started" \/ \E k \in DOMAIN swo : swo[k].kind = "READY"
    /\ heapJob.state = "seeking" /\ board.phase = "finished" =>
         \E j, k \in DOMAIN swo : j < k /\ swo[j].kind = "READY" /\ swo[k].kind = "DONE"
    /\ heapJob.state = "capturing" /\ board.phase = "finished" =>
         \E k \in DOMAIN swo : swo[k].kind = "DONE"

(* What is left to be done: the runs to come and the steps of this one     *)
(* (each may make the board or a worker start anew), what the board has to *)
(* send, and what the workers have to read.                                *)
RunsLeft ==
  IF at \in {"write", "written", "aborted"} THEN 0
  ELSE 2 * (NBench - run.bench) + IF run.traced THEN 2 ELSE 1

StepsLeft ==
  CASE at = "build" -> 6 [] at = "pool" -> 5 [] at = "flash" -> 4 [] at = "start" -> 3
    [] at = "await" -> 2 [] at \in {"wait", "write"} -> 1 [] OTHER -> 0

BoardLeft ==
  CASE board.phase = "started" -> 4 [] board.phase = "running" -> 3
    [] board.phase = "traced" -> 2 [] board.phase = "ended" -> 1 [] OTHER -> 0

MeasLeft ==
  CASE measJob.state = "opening" -> 2 [] measJob.state = "reading" -> 1 [] OTHER -> 0

Left == 12 * (7 * RunsLeft + StepsLeft) + 2 * BoardLeft + Len(swo) + MeasLeft

(* Nothing is done for nothing: no loop of main(), of the workers or       *)
(* between them and the board goes round without bringing the campaign     *)
(* closer to its end, whatever fails or times out.                         *)
AlwaysLessLeft == [][Left' < Left]_vars

(* The campaign comes to a stop nowhere but at its end, with a file or an  *)
(* exception, or where it waits in a tracing run for get_heap(), which has *)
(* no timeout (get_measurements() has), when the board hangs, gdb has      *)
(* refused a command, or the line get_heap() needs was lost.  As it cannot *)
(* go on for ever (AlwaysLessLeft), it gets there.                         *)
StopsAtEnd ==
  \/ ENABLED Next
  \/ at \in {"written", "aborted"}
  \/ /\ at = "await" /\ run.traced
     /\ heapJob.state \in {"seeking", "capturing"}
     /\ board.phase = "hung" \/ run.bench \in refused \/ lost
===============================================================================
