----------------------------- MODULE HarnessProofs -----------------------------
(***************************************************************************)
(* Proofs about module Harness, for every number of benchmarks: types, the *)
(* debuggers, and whose numbers are in a row.                              *)
(***************************************************************************)
EXTENDS Harness, SequenceTheorems, TLAPS

(* main() has no pool of workers, a pool, and a board it has programmed.   *)
Alone == {"build", "pool", "write", "written", "aborted"}

Programmed == {"start", "await", "wait"}

(* A board in this phase has printed all it has to print.                  *)
Quiet == {"stopped", "ended", "finished"}

(* gdb has refused nothing for this benchmark.                             *)
Obeyed == run.bench \notin refused

Of(kind) == {k \in DOMAIN swo : swo[k].kind = kind}

(* Jobs live in a pool; there is one gdb from a completed flash_bin() on.  *)
ProcessInv ==
  /\ at \in Alone => heapJob = NoHeapJob /\ measJob = NoMeasJob
  /\ debuggers \in {0, 1}
  /\ at \in {"build", "pool", "flash", "write", "written"} => debuggers = 0
  /\ at \in Programmed => debuggers = 1

(* As far as gdb has done what it was told, the firmware is that of the    *)
(* run, and at least that of its benchmark when the tracing run has        *)
(* already been programmed; so are the numbers that get_measurements()     *)
(* finds, and what is recorded.                                            *)
BenchInv ==
  /\ Obeyed =>
       /\ at \in Programmed => board.run = run
       /\ at = "start" => board.phase = "stopped"
       /\ ~run.traced => board.run.bench = run.bench
       /\ ~run.traced /\ measJob.state = "reading" =>
            \A k \in DOMAIN uart : uart[k].run.bench = run.bench
       /\ ~run.traced /\ measJob.state = "returned" => measJob.result.bench = run.bench
  /\ row.times = None
  /\ at \in {"pool", "flash"} \cup Programmed => row.sizes = run
  /\ TimesOfOwnBenchmark

(* As long as no pool was torn down early, an old board is silent until    *)
(* the new one starts, but for the rest of its trace, which nobody takes   *)
(* for the new one.                                                        *)
SilenceInv ==
  ~torn =>
    /\ at \in {"build", "pool", "flash"} \/ (at = "start" /\ Obeyed) => board.phase \in Quiet
    /\ at \in {"build", "pool", "flash"}
       \/ (Obeyed /\ (at = "start" \/ board.phase = "started")) =>
         \/ at \in {"write", "written", "aborted"}
         \/ Of("READY") = {} /\ heapJob.state \notin {"capturing", "returned"}
    /\ Obeyed /\ measJob.state = "reading" => \A k \in DOMAIN uart : uart[k].run = run
    /\ Obeyed /\ measJob.state = "returned" => measJob.result = run

(* Then also the trace that get_heap() finds is that of its own run: there *)
(* is one "trace ready!", and packets between it and any later end, of     *)
(* which get_heap() has at least seen that they were damaged.              *)
TraceInv ==
  ~torn /\ Obeyed /\ run.traced /\ at \in {"flash"} \cup Programmed =>
    /\ \A k, l \in Of("READY") : k = l
    /\ \A k \in Of("READY") : swo[k].run = run
    /\ \A k \in Of("READY"), j \in Of("DONE") :
         k < j => \E p \in Of("PACKETS") : k < p /\ p < j
    /\ heapJob.state = "capturing" =>
         /\ Of("READY") = {}
         /\ heapJob.run = run
         /\ \A j \in Of("DONE") : heapJob.packets # "none" \/ \E p \in Of("PACKETS") : p < j
    /\ heapJob.state = "returned" => heapJob.result \in OwnHeap(run.bench)
    /\ at \in {"await", "wait"} /\ board.phase \in {"traced", "ended"} =>
         /\ \A k \in Of("READY") : \E p \in Of("PACKETS") : k < p
         /\ heapJob.state = "capturing" => heapJob.packets # "none" \/ Of("PACKETS") # {}

RowInv ==
  ~torn =>
    /\ Obeyed => row.heap \in {None} \cup OwnHeap(run.bench)
    /\ RowsFaithful

IInv == TypeOK /\ ProcessInv /\ BenchInv /\ SilenceInv /\ TraceInv /\ RowInv
-------------------------------------------------------------------------------
(* Types.                                                                  *)

SwoToken == Token({"READY", "PACKETS", "DONE"})

UartToken == [run : Image, ok : BOOLEAN]

Boards == [run : Image, phase : Phases]

Capturing == [state : {"capturing"}, run : Image, packets : {"none", "whole", "damaged"}]

LEMMA RunsAreImages == Run \subseteq Image
BY DEF Run, Image

LEMMA InitTypes == Init => TypeOK
<1> SUFFICES ASSUME Init PROVE TypeOK OBVIOUS
<1>1. [bench |-> 1, traced |-> TRUE] \in Run BY HarnessAssumption DEF Run, Bench
<1>2. run \in Run /\ board \in Boards BY <1>1 DEF Init, Phases, Boards, Image
<1>3. row \in Row BY DEF Init, Row, NoRow
<1>4. /\ <<>> \in Seq([bench : Bench, row : Row])
      /\ <<>> \in Seq(SwoToken)
      /\ <<>> \in Seq(UartToken)
  BY EmptySeq
<1> QED BY <1>2, <1>3, <1>4 DEF Init, TypeOK, SwoToken, UartToken, Boards

LEMMA BoardTypes ==
  ASSUME TypeOK, BoardStep PROVE TypeOK'
<1> USE DEF TypeOK, BoardStep, BoardGoes, SendSwo
<1>1. \A kind \in {"READY", "PACKETS", "DONE"} :
        SendSwo(kind) => swo' \in Seq(SwoToken)
  BY AppendProperties DEF SwoToken, Token
<1>2. ASSUME NEW phase \in Phases, BoardGoes(phase)
      PROVE  board' \in [run : Image, phase : Phases]
  BY <1>2
<1>3. CASE TraceReady BY <1>1, <1>2, <1>3 DEF TraceReady, SwoToken, Phases
<1>4. CASE TracePackets BY <1>1, <1>2, <1>4 DEF TracePackets, SwoToken, Phases
<1>5. CASE Hang BY <1>2, <1>5 DEF Hang, Phases
<1>6. CASE EndOfTest
  <2>1. uart' \in Seq([run : Image, ok : BOOLEAN])
    BY <1>6, AppendProperties DEF EndOfTest
  <2> QED BY <1>2, <1>6, <2>1 DEF EndOfTest, Phases
<1>7. CASE TraceDone BY <1>1, <1>2, <1>7 DEF TraceDone, SwoToken, Phases
<1> QED BY <1>3, <1>4, <1>5, <1>6, <1>7 DEF BoardNext

(* What get_heap() makes of the next token.                                *)
LEMMA CaptureStep ==
  ASSUME TypeOK, Capture
  PROVE  /\ heapJob \in Capturing
         /\ \/ /\ Head(swo).kind = "READY" /\ lost' = lost
               /\ heapJob' = [state |-> "capturing", run |-> Head(swo).run, packets |-> "none"]
            \/ /\ Head(swo).kind = "DONE" /\ lost' = lost
               /\ heapJob' \in {Got([run |-> heapJob.run, packets |-> heapJob.packets])}
                               \cup Raised
            \/ /\ lost' \in {lost, TRUE} /\ (Head(swo).kind = "DONE" => lost')
               /\ \E packets \in {"whole", "damaged"} :
                    /\ heapJob' = [state |-> "capturing", run |-> heapJob.run,
                                   packets |-> packets]
                    /\ packets = "whole" => Head(swo).kind = "PACKETS"
<1>1. heapJob \in Capturing
  BY DEF Capture, TypeOK, Capturing, NoHeapJob, Raised, Raise
<1>2. ASSUME NEW packets, Captured(packets)
      PROVE  heapJob' = [state |-> "capturing", run |-> heapJob.run, packets |-> packets]
  BY <1>1, <1>2 DEF Captured, Capturing
<1>3. CASE Head(swo).kind = "READY" /\ UNCHANGED lost
           /\ heapJob' = [heapJob EXCEPT !.run = Head(swo).run, !.packets = "none"]
  BY <1>1, <1>3 DEF Capturing
<1>4. CASE /\ Head(swo).kind = "PACKETS" /\ UNCHANGED lost
           /\ Captured(IF heapJob.packets = "none" THEN "whole" ELSE "damaged")
  BY <1>1, <1>2, <1>4
<1>5. CASE Head(swo).kind = "DONE" /\ Replayed /\ UNCHANGED lost
  BY <1>1, <1>5 DEF Replayed
<1>6. CASE Captured("damaged") /\ lost' = (lost \/ Head(swo).kind = "DONE")
  BY <1>1, <1>2, <1>6 DEF TypeOK
<1> QED BY <1>1, <1>3, <1>4, <1>5, <1>6 DEF Capture

LEMMA HeapJobTypes ==
  ASSUME TypeOK, HeapJobStep PROVE TypeOK'
<1> USE DEF TypeOK, HeapJobStep
<1>1. swo # <<>> /\ swo' = Tail(swo) BY DEF SeekReady, Capture
<1>2. Head(swo) \in SwoToken /\ swo' \in Seq(SwoToken)
  BY <1>1, HeadTailProperties DEF SwoToken
<1>3. Head(swo).run \in Image BY <1>2 DEF SwoToken, Token
<1>4. CASE SeekReady
  <2>1. lost' \in BOOLEAN BY <1>4 DEF SeekReady
  <2>2. heapJob' = heapJob \/ heapJob' \in Capturing
    BY <1>3, <1>4 DEF SeekReady, Capturing
  <2> QED BY <1>2, <2>1, <2>2 DEF SwoToken, Capturing
<1>5. CASE Capture
  <2>1. lost' \in BOOLEAN BY <1>5, CaptureStep
  <2>2. heapJob \in Capturing BY <1>5, CaptureStep
  <2>3. CASE heapJob' \in {Got([run |-> heapJob.run, packets |-> heapJob.packets])} \cup Raised
    <3>1. [run |-> heapJob.run, packets |-> heapJob.packets] \in HeapValue
      BY <2>2 DEF Capturing, HeapValue
    <3> QED BY <1>2, <2>1, <2>3, <3>1 DEF Got, SwoToken
  <2>4. CASE heapJob' \in Capturing BY <1>2, <2>1, <2>4 DEF SwoToken, Capturing
  <2>5. ASSUME NEW packets \in {"none", "whole", "damaged"}, NEW image \in Image
        PROVE  [state |-> "capturing", run |-> image, packets |-> packets] \in Capturing
    BY DEF Capturing
  <2>6. heapJob.run \in Image BY <2>2 DEF Capturing
  <2> QED BY <1>3, <1>5, <2>3, <2>4, <2>5, <2>6, CaptureStep
<1> QED BY <1>4, <1>5

LEMMA MeasJobTypes ==
  ASSUME TypeOK, MeasJobStep PROVE TypeOK'
<1> USE DEF TypeOK, MeasJobStep
<1>1. CASE OpenSerial BY <1>1, EmptySeq DEF OpenSerial
<1>2. CASE ReadEndOfTest
  <2>1. Head(uart) \in UartToken /\ uart' \in Seq(UartToken)
    BY <1>2, HeadTailProperties DEF ReadEndOfTest, UartToken
  <2> QED BY <1>2, <2>1 DEF ReadEndOfTest, UartToken, Got, Raised, Raise
<1>3. CASE SerialTimeout BY <1>3 DEF SerialTimeout, Got, Raised, Raise
<1> QED BY <1>1, <1>2, <1>3

(* What a run may file: the row as it is, or with the times of its worker. *)
LEMMA NextRunTypes ==
  ASSUME TypeOK, NEW newRow \in Row, NextRun(newRow)
  PROVE  /\ at' \in {"build", "write"}
         /\ run' \in Run /\ row' \in Row
         /\ results' \in Seq([bench : Bench, row : Row])
<1>1. run \in Run /\ results \in Seq([bench : Bench, row : Row]) BY DEF TypeOK
<1>2. NoRow \in Row BY DEF NoRow, Row
<1>3. CASE run.traced
  BY <1>1, <1>3 DEF NextRun, Run
<1>4. CASE ~run.traced
  <2>1. run.bench \in Bench BY <1>1 DEF Run
  <2>2. run.bench # NBench => run.bench + 1 \in Bench BY <2>1, HarnessAssumption DEF Bench
  <2>3. run.bench # NBench => [bench |-> run.bench + 1, traced |-> TRUE] \in Run
    BY <2>2 DEF Run
  <2>4. run' \in Run BY <1>1, <1>4, <2>3 DEF NextRun
  <2>5. [bench |-> run.bench, row |-> newRow] \in [bench : Bench, row : Row] BY <2>1
  <2>6. Append(results, [bench |-> run.bench, row |-> newRow]) \in Seq([bench : Bench, row : Row])
    BY <1>1, <2>5, AppendProperties
  <2>7. results' \in Seq([bench : Bench, row : Row]) BY <1>1, <1>4, <2>6 DEF NextRun
  <2> QED BY <1>2, <1>4, <2>4, <2>7 DEF NextRun
<1> QED BY <1>3, <1>4

(* EndRun, with the row as it is or with the times of this run.            *)
LEMMA EndRunTypes ==
  ASSUME TypeOK, NEW newRow \in Row, EndRun(newRow), debuggers = 1, at # "written",
         UNCHANGED <<csv, swo, uart, refused, lost>>, board' \in [run : Image, phase : Phases]
  PROVE  TypeOK'
<1>1. /\ at' \in {"build", "write"}
      /\ run' \in Run /\ row' \in Row
      /\ results' \in Seq([bench : Bench, row : Row])
  BY NextRunTypes DEF EndRun
<1>2. csv' = <<>> BY DEF TypeOK
<1>3. torn' \in BOOLEAN BY DEF EndRun, TearDown
<1> QED BY <1>1, <1>2, <1>3 DEF EndRun, TearDown, TypeOK

LEMMA AbortTypes ==
  ASSUME TypeOK, NEW delta \in {-1, 0, 1}, Abort(delta), debuggers + delta \in Nat,
         UNCHANGED <<csv, swo, uart, refused, lost>>,
         board' \in [run : Image, phase : Phases], at # "written"
  PROVE  TypeOK'
<1>1. csv' = <<>> BY DEF TypeOK
<1>2. debuggers' \in Nat BY DEF Abort
<1>3. torn' \in BOOLEAN BY DEF Abort, TearDown
<1> QED BY <1>1, <1>2, <1>3 DEF Abort, TearDown, TypeOK

LEMMA MishapRuns ==
  ASSUME TypeOK, NEW b \in Mishaps \cup {Stopped, board}
  PROVE  b \in [run : Image, phase : Phases] /\ b.run \in {board.run, run}
<1>1. board \in [run : Image, phase : Phases] /\ run \in Image
  BY RunsAreImages DEF TypeOK
<1> QED BY <1>1 DEF Mishaps, Stopped, Phases

LEMMA RefusesTypes ==
  ASSUME TypeOK, Refuses PROVE refused' \subseteq Bench
BY DEF TypeOK, Refuses, Run

LEMMA MainTypes ==
  ASSUME TypeOK, ProcessInv, MainStep PROVE TypeOK'
<1>1. /\ run \in Run /\ row \in Row
      /\ board \in [run : Image, phase : Phases]
  BY DEF TypeOK
<1>3. CASE Build
  <2>1. at = "build" /\ debuggers = 0 /\ UNCHANGED <<csv, board, swo, uart, refused, lost>>
    BY <1>3 DEF Build, ProcessInv
  <2>2. CASE Abort(0) BY <2>1, <2>2, <1>1, AbortTypes
  <2>3. CASE at' = "pool" /\ row' = [row EXCEPT !.sizes = run]
             /\ UNCHANGED <<run, results, heapJob, measJob, debuggers, torn>>
    <3>1. row' \in Row BY <1>1, <2>3 DEF Row
    <3> QED BY <2>1, <2>3, <3>1 DEF TypeOK
  <2> QED BY <1>3, <2>2, <2>3 DEF Build
<1>4. CASE StartWorkers BY <1>4 DEF StartWorkers, TypeOK
<1>5. CASE Flash
  <2>1. at = "flash" /\ debuggers = 0 /\ UNCHANGED <<csv, swo, uart, lost>>
    BY <1>5 DEF Flash, ProcessInv
  <2>2. board' \in [run : Image, phase : Phases] BY <1>5, MishapRuns DEF Flash
  <2>3. CASE Abort(1) /\ UNCHANGED refused
    BY <2>1, <2>2, <2>3, AbortTypes
  <2>4. CASE at' = "start" /\ (UNCHANGED refused \/ Refuses) /\ debuggers' = debuggers + 1
             /\ UNCHANGED <<run, row, results, heapJob, measJob, torn>>
    BY <2>1, <2>2, <2>4, RefusesTypes DEF TypeOK
  <2> QED BY <1>5, <2>3, <2>4 DEF Flash
<1>6. CASE Start
  <2>1. at = "start" /\ debuggers = 1 /\ UNCHANGED <<csv, swo, uart, lost>>
    BY <1>6 DEF Start, ProcessInv, Programmed
  <2>2. board' \in [run : Image, phase : Phases]
    BY <1>6, <1>1 DEF Start, Continue, BoardGoes, Phases
  <2>3. CASE EndRun(row) /\ UNCHANGED refused BY <2>1, <2>2, <2>3, <1>1, EndRunTypes
  <2>4. CASE at' = "await" /\ (UNCHANGED refused \/ Refuses)
             /\ UNCHANGED <<run, row, results, heapJob, measJob, debuggers, torn>>
    BY <2>1, <2>2, <2>4, RefusesTypes DEF TypeOK
  <2> QED BY <1>6, <2>3, <2>4 DEF Start
<1>7. CASE GetHeap
  <2>1. at = "await" /\ debuggers = 1 /\ UNCHANGED <<csv, board, swo, uart, refused, lost>>
    BY <1>7 DEF GetHeap, ProcessInv, Programmed
  <2>2. CASE EndRun(row) BY <2>1, <2>2, <1>1, EndRunTypes
  <2>3. CASE Abort(-1) BY <2>1, <2>3, <1>1, AbortTypes
  <2>4. CASE /\ heapJob.state = "returned" /\ at' = "wait"
             /\ row' = [row EXCEPT !.heap = heapJob.result]
             /\ UNCHANGED <<run, results, heapJob, measJob, debuggers, torn>>
    <3>1. heapJob.result \in HeapValue
      BY <2>4 DEF TypeOK, NoHeapJob, Raised, Raise
    <3>2. row' \in Row BY <1>1, <2>4, <3>1 DEF Row
    <3> QED BY <2>1, <2>4, <3>2 DEF TypeOK
  <2> QED BY <1>7, <2>2, <2>3, <2>4 DEF GetHeap
<1>8. CASE WaitMeasurements
  <2>1. at = "wait" /\ debuggers = 1 /\ UNCHANGED <<csv, board, swo, uart, refused, lost>>
    BY <1>8 DEF WaitMeasurements, ProcessInv, Programmed
  <2> QED BY <1>8, <2>1, <1>1, EndRunTypes DEF WaitMeasurements
<1>9. CASE GetMeasurements
  <2>1. at = "await" /\ debuggers = 1 /\ UNCHANGED <<csv, board, swo, uart, refused, lost>>
    BY <1>9 DEF GetMeasurements, ProcessInv, Programmed
  <2>2. CASE EndRun(row) BY <2>1, <2>2, <1>1, EndRunTypes
  <2>3. CASE Abort(-1) BY <2>1, <2>3, <1>1, AbortTypes
  <2>4. CASE measJob.state = "returned" /\ EndRun([row EXCEPT !.times = measJob.result])
    <3>1. measJob.result \in Image BY <2>4 DEF TypeOK, NoMeasJob, Raised, Raise
    <3>2. [row EXCEPT !.times = measJob.result] \in Row BY <1>1, <3>1 DEF Row
    <3> QED BY <2>1, <2>4, <3>2, <1>1, EndRunTypes
  <2> QED BY <1>9, <2>2, <2>3, <2>4 DEF GetMeasurements
<1>10. CASE WriteCsv BY <1>10 DEF WriteCsv, TypeOK
<1> QED BY <1>3, <1>4, <1>5, <1>6, <1>7, <1>8, <1>9, <1>10 DEF MainStep

LEMMA NextTypes ==
  ASSUME TypeOK, ProcessInv, [Next]_vars PROVE TypeOK'
<1>1. CASE UNCHANGED vars BY <1>1 DEF vars, TypeOK
<1> QED BY <1>1, BoardTypes, HeapJobTypes, MeasJobTypes, MainTypes DEF Next
-------------------------------------------------------------------------------
(* Processes.                                                              *)

(* How a step of main() ends: it goes on with the same run, it goes on     *)
(* with the next one, or it ends the campaign.                             *)
Filed == {row, [row EXCEPT !.times = measJob.result]}

EndsRun ==
  /\ at \in Programmed
  /\ UNCHANGED <<csv, swo, uart, refused, lost>>
  /\ board' = board \/ (at = "start" /\ BoardGoes("started"))
  /\ \E newRow \in Filed :
       /\ EndRun(newRow)
       /\ newRow # row => at = "await" /\ ~run.traced /\ measJob.state = "returned"

Aborts ==
  /\ \/ at = "build" /\ Abort(0)
     \/ at = "flash" /\ Abort(1)
     \/ at \in Programmed /\ Abort(-1)
  /\ board' \in Mishaps \cup {Stopped, board}
  /\ UNCHANGED <<csv, swo, uart, refused, lost>>

(* The steps that go on with the same run.                                 *)
Built ==
  /\ at = "build" /\ at' = "pool"
  /\ row' = [row EXCEPT !.sizes = run]
  /\ UNCHANGED <<run, results, heapJob, measJob, debuggers, torn, csv, board, swo, uart,
                 refused, lost>>

Flashed ==
  /\ at = "flash" /\ at' = "start"
  /\ \/ board' = Stopped /\ UNCHANGED refused
     \/ board' \in Mishaps /\ Refuses
  /\ debuggers' = debuggers + 1
  /\ UNCHANGED <<run, row, results, heapJob, measJob, torn, csv, swo, uart, lost>>

Started ==
  /\ at = "start" /\ at' = "await"
  /\ \/ Continue /\ UNCHANGED refused
     \/ UNCHANGED board /\ Refuses
  /\ UNCHANGED <<run, row, results, heapJob, measJob, debuggers, torn, csv, swo, uart, lost>>

HeapFiled ==
  /\ at = "await" /\ at' = "wait" /\ run.traced
  /\ heapJob.state = "returned"
  /\ row' = [row EXCEPT !.heap = heapJob.result]
  /\ UNCHANGED <<run, results, heapJob, measJob, debuggers, torn, csv, board, swo, uart,
                 refused, lost>>

GoesOn == Built \/ StartWorkers \/ Flashed \/ Started \/ HeapFiled \/ WriteCsv

LEMMA MainCases ==
  ASSUME MainStep PROVE GoesOn \/ EndsRun \/ Aborts
<1> USE DEF GoesOn
<1>1. CASE Build BY <1>1 DEF Build, Built, Aborts
<1>2. CASE StartWorkers BY <1>2
<1>3. CASE Flash BY <1>3 DEF Flash, Flashed, Aborts
<1>4. CASE Start
  BY <1>4 DEF Start, Started, Continue, EndsRun, Filed, Programmed
<1>5. CASE GetHeap BY <1>5 DEF GetHeap, HeapFiled, EndsRun, Aborts, Filed, Programmed
<1>6. CASE WaitMeasurements BY <1>6 DEF WaitMeasurements, EndsRun, Filed, Programmed
<1>7. CASE GetMeasurements BY <1>7 DEF GetMeasurements, EndsRun, Aborts, Filed, Programmed
<1>8. CASE WriteCsv BY <1>8
<1> QED BY <1>1, <1>2, <1>3, <1>4, <1>5, <1>6, <1>7, <1>8 DEF MainStep

LEMMA NextProcesses ==
  ASSUME TypeOK, ProcessInv, [Next]_vars PROVE ProcessInv'
<1> USE DEF ProcessInv, Alone, Programmed
<1>1. CASE BoardStep BY <1>1 DEF BoardStep
<1>2. CASE HeapJobStep
  <2>1. at \notin Alone BY <1>2 DEF HeapJobStep, SeekReady, Capture, NoHeapJob
  <2> QED BY <1>2, <2>1 DEF HeapJobStep
<1>3. CASE MeasJobStep
  <2>1. at \notin Alone
    BY <1>3 DEF MeasJobStep, OpenSerial, ReadEndOfTest, SerialTimeout, NoMeasJob
  <2> QED BY <1>3, <2>1 DEF MeasJobStep
<1>4. CASE GoesOn
  BY <1>4 DEF GoesOn, Built, StartWorkers, Flashed, Started, HeapFiled, WriteCsv
<1>5. CASE EndsRun
  BY <1>5 DEF EndsRun, EndRun, TearDown, NextRun
<1>6. CASE Aborts
  BY <1>6 DEF Aborts, Abort, TearDown
<1>7. CASE UNCHANGED vars BY <1>7 DEF vars
<1> QED BY <1>1, <1>2, <1>3, <1>4, <1>5, <1>6, <1>7, MainCases DEF Next
-------------------------------------------------------------------------------
(* The two channels: what a step does to their tokens.                     *)

LEMMA SwoSent ==
  ASSUME TypeOK, NEW kind \in {"READY", "PACKETS", "DONE"}, SendSwo(kind)
  PROVE  /\ \A other \in {"READY", "PACKETS", "DONE"} \ {kind} : Of(other)' = Of(other)
         /\ Of(kind)' = Of(kind) \cup {Len(swo) + 1}
         /\ Len(swo) \in Nat
         /\ \A k \in DOMAIN swo : k \in 1 .. Len(swo) /\ swo'[k] = swo[k]
         /\ swo'[Len(swo) + 1].run = board.run
<1> DEFINE token == [kind |-> kind, run |-> board.run]
<1>1. swo \in Seq(SwoToken) /\ token \in SwoToken BY DEF TypeOK, SwoToken, Token
<1>2. swo' = Append(swo, token) BY DEF SendSwo
<1>3. /\ Len(swo) \in Nat /\ DOMAIN swo = 1 .. Len(swo)
      /\ swo' \in Seq(SwoToken) /\ Len(swo') = Len(swo) + 1
      /\ DOMAIN swo' = 1 .. Len(swo')
  BY <1>1, <1>2, AppendProperties, LenProperties
<1>4. (\A k \in 1 .. Len(swo) : swo'[k] = swo[k]) /\ swo'[Len(swo) + 1] = token
  BY <1>1, <1>2, AppendProperties
<1> QED BY <1>3, <1>4 DEF Of

LEMMA SwoRead ==
  ASSUME TypeOK, swo # <<>>, swo' = Tail(swo)
  PROVE  /\ \A kind \in {"READY", "PACKETS", "DONE"} :
              \A k : k \in Of(kind)' <=> k \in Nat \ {0} /\ k + 1 \in Of(kind)
         /\ 1 \in Of(Head(swo).kind)
         /\ Head(swo).kind \in {"READY", "PACKETS", "DONE"}
         /\ \A k \in DOMAIN swo' : swo'[k] = swo[k + 1]
         /\ \A k \in DOMAIN swo : k \in Nat \ {0}
         /\ \A k \in DOMAIN swo' : k \in Nat \ {0}
         /\ swo[1] = Head(swo)
<1>1. swo \in Seq(SwoToken) BY DEF TypeOK, SwoToken
<1>2. /\ Len(swo) \in Nat \ {0} /\ DOMAIN swo = 1 .. Len(swo)
      /\ swo' \in Seq(SwoToken) /\ Len(swo') = Len(swo) - 1 /\ DOMAIN swo' = 1 .. Len(swo')
      /\ Head(swo) \in SwoToken
  BY <1>1, HeadTailProperties, LenProperties, EmptySeq
<1>3. \A k \in 1 .. Len(swo') : swo'[k] = swo[k + 1] BY <1>1, HeadTailProperties
<1>4. Head(swo) = swo[1] BY <1>1, <1>2
<1> QED BY <1>2, <1>3, <1>4 DEF Of, SwoToken, Token

LEMMA UartPrinted ==
  ASSUME TypeOK, NEW ok \in BOOLEAN, uart' = Append(uart, [run |-> board.run, ok |-> ok])
  PROVE  \A k \in DOMAIN uart' :
           uart'[k].run = board.run \/ (k \in DOMAIN uart /\ uart'[k] = uart[k])
<1> DEFINE token == [run |-> board.run, ok |-> ok]
<1>1. uart \in Seq(UartToken) /\ token \in UartToken BY DEF TypeOK, UartToken
<1>2. /\ Len(uart) \in Nat /\ DOMAIN uart = 1 .. Len(uart)
      /\ uart' \in Seq(UartToken) /\ Len(uart') = Len(uart) + 1 /\ DOMAIN uart' = 1 .. Len(uart')
  BY <1>1, AppendProperties, LenProperties
<1>3. (\A k \in 1 .. Len(uart) : uart'[k] = uart[k]) /\ uart'[Len(uart) + 1] = token
  BY <1>1, AppendProperties
<1> QED BY <1>2, <1>3

LEMMA UartRead ==
  ASSUME TypeOK, uart # <<>>, uart' = Tail(uart)
  PROVE  /\ \A k \in DOMAIN uart' : k + 1 \in DOMAIN uart /\ uart'[k] = uart[k + 1]
         /\ 1 \in DOMAIN uart /\ Head(uart) = uart[1]
<1>1. uart \in Seq(UartToken) BY DEF TypeOK, UartToken
<1>2. /\ Len(uart) \in Nat \ {0} /\ DOMAIN uart = 1 .. Len(uart)
      /\ uart' \in Seq(UartToken) /\ Len(uart') = Len(uart) - 1 /\ DOMAIN uart' = 1 .. Len(uart')
  BY <1>1, HeadTailProperties, LenProperties, EmptySeq
<1>3. \A k \in 1 .. Len(uart') : uart'[k] = uart[k + 1] BY <1>1, HeadTailProperties
<1>4. Head(uart) = uart[1] BY <1>1, <1>2
<1> QED BY <1>2, <1>3, <1>4
-------------------------------------------------------------------------------
(* Which benchmark the firmware, the times and the rows belong to.         *)

LEMMA FiledRow ==
  ASSUME TypeOK, BenchInv, EndsRun
  PROVE  \E newRow \in Row :
           /\ EndRun(newRow)
           /\ newRow.heap = row.heap /\ newRow.sizes = row.sizes
           /\ run.traced => newRow = row
           /\ newRow.times # None =>
                measJob.state = "returned" /\ newRow.times = measJob.result
<1>1. row \in Row /\ row.times = None BY DEF TypeOK, BenchInv
<1>2. CASE EndRun(row) BY <1>1, <1>2
<1>3. CASE EndRun([row EXCEPT !.times = measJob.result]) /\ ~EndRun(row)
  <2>1. at = "await" /\ ~run.traced /\ measJob.state = "returned"
    BY <1>3 DEF EndsRun, Filed
  <2>2. measJob.result \in Image BY <2>1 DEF TypeOK, NoMeasJob, Raised, Raise
  <2>3. [row EXCEPT !.times = measJob.result] \in Row BY <1>1, <2>2 DEF Row
  <2>4. /\ [row EXCEPT !.times = measJob.result].times = measJob.result
        /\ [row EXCEPT !.times = measJob.result].heap = row.heap
        /\ [row EXCEPT !.times = measJob.result].sizes = row.sizes
    BY <1>1 DEF Row
  <2> QED BY <1>3, <2>1, <2>3, <2>4
<1> QED BY <1>2, <1>3 DEF EndsRun, Filed

LEMMA FiledResults ==
  ASSUME TypeOK, NEW newRow \in Row, NextRun(newRow)
  PROVE  \A k \in DOMAIN results' :
           \/ k \in DOMAIN results /\ results'[k] = results[k]
           \/ /\ ~run.traced /\ newRow.times # None
              /\ results'[k].bench = run.bench /\ results'[k].row = newRow
<1> DEFINE filed == [bench |-> run.bench, row |-> newRow]
<1>1. run \in Run /\ results \in Seq([bench : Bench, row : Row]) BY DEF TypeOK
<1>2. filed \in [bench : Bench, row : Row] BY <1>1 DEF Run
<1>3. CASE results' = results BY <1>3
<1>4. CASE ~run.traced /\ newRow.times # None /\ results' = Append(results, filed)
  <2>1. /\ Len(results) \in Nat /\ DOMAIN results = 1 .. Len(results)
        /\ results' \in Seq([bench : Bench, row : Row])
        /\ Len(results') = Len(results) + 1 /\ DOMAIN results' = 1 .. Len(results')
        /\ \A k \in 1 .. Len(results) : results'[k] = results[k]
        /\ results'[Len(results) + 1] = filed
    BY <1>1, <1>2, <1>4, AppendProperties, LenProperties
  <2> QED BY <1>4, <2>1
<1> QED BY <1>3, <1>4 DEF NextRun

LEMMA BoardKeepsBench ==
  ASSUME TypeOK, ProcessInv, BenchInv, BoardStep PROVE BenchInv'
<1>1. board'.run = board.run
  BY DEF BoardStep, BoardNext, TraceReady, TracePackets, Hang, EndOfTest, TraceDone,
         BoardGoes, TypeOK
<1>2. \/ uart' = uart
      \/ \E ok \in BOOLEAN : uart' = Append(uart, [run |-> board.run, ok |-> ok])
  BY DEF BoardStep, BoardNext, TraceReady, TracePackets, Hang, EndOfTest, TraceDone
<1>3. \A k \in DOMAIN uart' :
        uart'[k].run = board.run \/ (k \in DOMAIN uart /\ uart'[k] = uart[k])
  BY <1>2, UartPrinted
<1>4. board.phase # "stopped"
  BY DEF BoardStep, BoardNext, TraceReady, TracePackets, Hang, EndOfTest, TraceDone
<1> QED BY <1>1, <1>3, <1>4 DEF BoardStep, BenchInv, TimesOfOwnBenchmark, Obeyed

LEMMA WorkersKeepBench ==
  ASSUME TypeOK, ProcessInv, BenchInv, HeapJobStep \/ MeasJobStep PROVE BenchInv'
<1> USE DEF BenchInv, TimesOfOwnBenchmark, Obeyed
<1>1. CASE HeapJobStep BY <1>1 DEF HeapJobStep
<1>2. CASE MeasJobStep
  <2>1. CASE OpenSerial
    BY <1>2, <2>1 DEF MeasJobStep, OpenSerial
  <2>2. CASE ReadEndOfTest
    <3>1. Head(uart).run = uart[1].run /\ 1 \in DOMAIN uart
      BY <2>2, UartRead DEF ReadEndOfTest
    <3>2. measJob'.state = "returned" => measJob'.result = Head(uart).run
      BY <2>2 DEF ReadEndOfTest, Got, Raised, Raise
    <3>3. measJob'.state # "reading" /\ measJob.state = "reading"
      BY <2>2 DEF ReadEndOfTest, Got, Raised, Raise
    <3> QED BY <1>2, <3>1, <3>2, <3>3 DEF MeasJobStep
  <2>3. CASE SerialTimeout
    <3>1. measJob'.state = "returned" => measJob'.result = board.run
      BY <2>3 DEF SerialTimeout, Got, Raised, Raise
    <3>2. measJob'.state # "reading" BY <2>3 DEF SerialTimeout, Got, Raised, Raise
    <3> QED BY <1>2, <3>1, <3>2 DEF MeasJobStep
  <2> QED BY <1>2, <2>1, <2>2, <2>3 DEF MeasJobStep
<1> QED BY <1>1, <1>2

LEMMA GoingOnKeepsBench ==
  ASSUME TypeOK, ProcessInv, BenchInv, GoesOn PROVE BenchInv'
<1> USE DEF BenchInv, TimesOfOwnBenchmark, Programmed, Obeyed
<1>1. row \in Row /\ board \in [run : Image, phase : Phases] BY DEF TypeOK
<1>2. CASE Built BY <1>1, <1>2 DEF Built, ProcessInv, Alone, Row
<1>3. CASE StartWorkers BY <1>3 DEF StartWorkers
<1>4. CASE Flashed BY <1>1, <1>4 DEF Flashed, Stopped, Refuses
<1>5. CASE Started BY <1>1, <1>5 DEF Started, BoardGoes, Continue, Refuses
<1>6. CASE HeapFiled BY <1>1, <1>6 DEF HeapFiled, Row
<1>7. CASE WriteCsv BY <1>7 DEF WriteCsv
<1> QED BY <1>2, <1>3, <1>4, <1>5, <1>6, <1>7 DEF GoesOn

LEMMA EndingKeepsBench ==
  ASSUME TypeOK, ProcessInv, BenchInv, EndsRun \/ Aborts PROVE BenchInv'
<1> USE DEF TimesOfOwnBenchmark
<1>1. CASE EndsRun
  <2>1. PICK newRow \in Row :
          /\ EndRun(newRow)
          /\ newRow.heap = row.heap /\ newRow.sizes = row.sizes
          /\ run.traced => newRow = row
          /\ newRow.times # None =>
               measJob.state = "returned" /\ newRow.times = measJob.result
    BY <1>1, FiledRow
  <2>2. board'.run = board.run /\ refused' = refused /\ (Obeyed => board.run = run)
    BY <1>1 DEF EndsRun, BoardGoes, TypeOK, BenchInv, Programmed
  <2>3. at' \in {"build", "write"} /\ measJob' = NoMeasJob
    BY <2>1 DEF EndRun, NextRun, TearDown
  <2>4. row'.times = None BY <2>1 DEF EndRun, NextRun, NoRow, BenchInv
  <2>5. ~run'.traced => run'.bench = run.bench BY <2>1 DEF EndRun, NextRun, TypeOK, Run
  <2>6. \A k \in DOMAIN results' :
          results'[k].bench \notin refused => results'[k].row.times.bench = results'[k].bench
    <3>1. NextRun(newRow) BY <2>1 DEF EndRun
    <3> QED BY <2>1, <3>1, FiledResults DEF BenchInv, Obeyed
  <2> QED BY <2>2, <2>3, <2>4, <2>5, <2>6 DEF BenchInv, NoMeasJob, Programmed, Obeyed
<1>2. CASE Aborts
  <2>1. measJob' = NoMeasJob /\ at' = "aborted" /\ UNCHANGED <<run, row, results>>
    BY <1>2 DEF Aborts, Abort, TearDown
  <2>2. refused' = refused /\ (Obeyed /\ ~run.traced => board'.run.bench = run.bench)
    BY <1>2, MishapRuns DEF Aborts, BenchInv
  <2> QED BY <2>1, <2>2 DEF BenchInv, NoMeasJob, Programmed, Obeyed
<1> QED BY <1>1, <1>2
-------------------------------------------------------------------------------
(* Silence between two runs, as long as nothing is torn.                   *)

LEMMA BoardKeepsSilence ==
  ASSUME TypeOK, ProcessInv, BenchInv, SilenceInv, BoardStep PROVE SilenceInv'
<1> USE DEF SilenceInv, BoardStep, Quiet, BenchInv, Programmed, Obeyed
<1>1. SUFFICES ASSUME ~torn PROVE SilenceInv' OBVIOUS
<1>2. /\ board \in [run : Image, phase : Phases]
      /\ at \notin Alone => at \in {"flash"} \cup Programmed
      /\ at \in Alone => measJob.state = "none" /\ heapJob.state = "none"
  BY DEF TypeOK, Alone, ProcessInv, NoMeasJob, NoHeapJob
<1>3. CASE TraceReady
  <2>1. at \notin {"build", "pool", "flash"} /\ (Obeyed => at # "start")
    BY <1>1, <1>3 DEF TraceReady
  <2> QED BY <1>1, <1>2, <1>3, <2>1 DEF TraceReady, BoardGoes
<1>4. CASE TracePackets
  <2>1. at \notin {"build", "pool", "flash"} /\ (Obeyed => at # "start")
    BY <1>1, <1>4 DEF TracePackets
  <2> QED BY <1>1, <1>2, <1>4, <2>1 DEF TracePackets, BoardGoes
<1>5. CASE Hang BY <1>1, <1>2, <1>5 DEF Hang, BoardGoes
<1>6. CASE EndOfTest
  <2>1. at \notin {"build", "pool", "flash"} /\ (Obeyed => at # "start")
    BY <1>1, <1>6 DEF EndOfTest
  <2>2. PICK ok \in BOOLEAN : uart' = Append(uart, [run |-> board.run, ok |-> ok])
    BY <1>6 DEF EndOfTest
  <2>3. \A k \in DOMAIN uart' :
          uart'[k].run = board.run \/ (k \in DOMAIN uart /\ uart'[k] = uart[k])
    BY <2>2, UartPrinted
  <2>4. Obeyed /\ measJob.state = "reading" => board.run = run
    BY <1>2, <2>1 DEF Alone
  <2> QED BY <1>1, <1>2, <1>6, <2>1, <2>3, <2>4 DEF EndOfTest, BoardGoes
<1>7. CASE TraceDone
  <2>1. Of("READY")' = Of("READY") BY <1>7, SwoSent DEF TraceDone
  <2> QED BY <1>1, <1>2, <1>7, <2>1 DEF TraceDone, BoardGoes
<1> QED BY <1>3, <1>4, <1>5, <1>6, <1>7 DEF BoardNext

LEMMA WorkersKeepSilence ==
  ASSUME TypeOK, ProcessInv, BenchInv, SilenceInv, HeapJobStep \/ MeasJobStep PROVE SilenceInv'
<1> USE DEF SilenceInv, Quiet, Obeyed
<1>1. CASE HeapJobStep
  <2>1. swo # <<>> /\ swo' = Tail(swo) BY <1>1 DEF HeapJobStep, SeekReady, Capture
  <2>2. Of("READY") = {} => Of("READY")' = {} /\ Head(swo).kind # "READY"
    BY <2>1, SwoRead
  <2>3. Of("READY") = {} /\ heapJob.state \notin {"capturing", "returned"} =>
          heapJob'.state \notin {"capturing", "returned"}
    BY <1>1, <2>2 DEF HeapJobStep, SeekReady, Capture
  <2> QED BY <1>1, <2>2, <2>3 DEF HeapJobStep
<1>2. CASE MeasJobStep
  <2>1. UNCHANGED Of("READY") BY <1>2 DEF MeasJobStep, Of
  <2>2. CASE OpenSerial
    BY <1>2, <2>1, <2>2 DEF MeasJobStep, OpenSerial
  <2>3. CASE ReadEndOfTest
    <3>1. Head(uart).run = uart[1].run /\ 1 \in DOMAIN uart
      BY <2>3, UartRead DEF ReadEndOfTest
    <3>2. measJob'.state = "returned" => measJob'.result = Head(uart).run
      BY <2>3 DEF ReadEndOfTest, Got, Raised, Raise
    <3>3. measJob'.state # "reading" /\ measJob.state = "reading"
      BY <2>3 DEF ReadEndOfTest, Got, Raised, Raise
    <3> QED BY <1>2, <2>1, <3>1, <3>2, <3>3 DEF MeasJobStep
  <2>4. CASE SerialTimeout
    <3>1. measJob'.state = "returned" =>
            measJob'.result = board.run /\ board.phase \in {"running", "traced"}
      BY <2>4 DEF SerialTimeout, Got, Raised, Raise
    <3>2. measJob'.state # "reading" BY <2>4 DEF SerialTimeout, Got, Raised, Raise
    <3>3. at \in {"flash"} \cup Programmed
      BY <2>4 DEF SerialTimeout, TypeOK, ProcessInv, Alone, Programmed, NoMeasJob
    <3> QED BY <1>2, <2>1, <3>1, <3>2, <3>3 DEF MeasJobStep, Programmed, BenchInv
  <2> QED BY <1>2, <2>2, <2>3, <2>4 DEF MeasJobStep
<1> QED BY <1>1, <1>2

LEMMA GoingOnKeepsSilence ==
  ASSUME TypeOK, ProcessInv, BenchInv, SilenceInv, GoesOn PROVE SilenceInv'
<1> USE DEF SilenceInv, Quiet, Obeyed
<1>1. board \in [run : Image, phase : Phases] BY DEF TypeOK
<1>2. UNCHANGED Of("READY")
  BY DEF GoesOn, Built, StartWorkers, Flashed, Started, HeapFiled, WriteCsv, Of
<1>3. CASE Built BY <1>2, <1>3 DEF Built, ProcessInv, Alone, NoHeapJob, NoMeasJob
<1>4. CASE StartWorkers BY <1>2, <1>4 DEF StartWorkers
<1>5. CASE Flashed BY <1>1, <1>2, <1>5 DEF Flashed, Stopped, Refuses
<1>6. CASE Started BY <1>1, <1>2, <1>6 DEF Started, Continue, BoardGoes, Refuses, BenchInv
<1>7. CASE HeapFiled BY <1>2, <1>7 DEF HeapFiled
<1>8. CASE WriteCsv BY <1>2, <1>8 DEF WriteCsv
<1> QED BY <1>3, <1>4, <1>5, <1>6, <1>7, <1>8 DEF GoesOn

LEMMA EndingKeepsSilence ==
  ASSUME TypeOK, ProcessInv, BenchInv, SilenceInv, EndsRun \/ Aborts PROVE SilenceInv'
<1> USE DEF SilenceInv, Quiet, Obeyed
<1>1. UNCHANGED Of("READY") BY DEF EndsRun, Aborts, Of
<1>2. board' \in [run : Image, phase : Phases] /\ refused' = refused
  BY MishapRuns DEF TypeOK, EndsRun, Aborts, BoardGoes, Phases
<1>3. /\ heapJob' = NoHeapJob /\ measJob' = NoMeasJob
      /\ ~torn' => board'.phase \in Quiet /\ Of("READY") = {}
  BY <1>2 DEF EndsRun, Aborts, EndRun, Abort, TearDown, Phases, Of
<1>4. at' \in {"build", "write", "aborted"}
  BY DEF EndsRun, Aborts, EndRun, Abort, NextRun
<1> QED BY <1>1, <1>3, <1>4 DEF NoHeapJob, NoMeasJob
-------------------------------------------------------------------------------
(* The trace of a tracing run.                                             *)

LEMMA SwoPositions ==
  ASSUME TypeOK, NEW kind, NEW k \in Of(kind)
  PROVE  k \in 1 .. Len(swo) /\ Len(swo) \in Nat
BY LenProperties DEF Of, TypeOK

LEMMA BoardKeepsTrace ==
  ASSUME TypeOK, ProcessInv, BenchInv, SilenceInv, TraceInv, BoardStep PROVE TraceInv'
<1>1. SUFFICES ASSUME ~torn, Obeyed, run.traced, at \in {"flash"} \cup Programmed
               PROVE  TraceInv'
  BY DEF BoardStep, TraceInv, Obeyed
<1>2. /\ UNCHANGED <<at, run, heapJob, torn, refused>>
      /\ board \in [run : Image, phase : Phases]
      /\ at \in Programmed => board.run = run
  BY <1>1 DEF BoardStep, TypeOK, BenchInv
<1>3. \A kind \in {"READY", "PACKETS", "DONE"} : \A k \in Of(kind) :
        k \in 1 .. Len(swo) /\ Len(swo) \in Nat /\ k \in DOMAIN swo
  BY SwoPositions DEF Of
<1>4. CASE TraceReady
  <2>1. at \in {"await", "wait"} /\ Of("READY") = {} /\ heapJob.state \notin {"capturing", "returned"}
    BY <1>1, <1>4 DEF TraceReady, SilenceInv, Quiet, Programmed
  <2>2. /\ Of("READY")' = {Len(swo) + 1} /\ Of("PACKETS")' = Of("PACKETS")
        /\ Of("DONE")' = Of("DONE") /\ swo'[Len(swo) + 1].run = board.run
    BY <1>4, <2>1, SwoSent DEF TraceReady
  <2>3. board'.phase = "running" BY <1>2, <1>4 DEF TraceReady, BoardGoes
  <2> QED BY <1>2, <1>3, <2>1, <2>2, <2>3 DEF TraceInv, Programmed
<1>5. CASE TracePackets
  <2>1. /\ Of("PACKETS")' = Of("PACKETS") \cup {Len(swo) + 1} /\ Of("READY")' = Of("READY")
        /\ Of("DONE")' = Of("DONE")
        /\ \A k \in Of("READY") : swo'[k] = swo[k]
    BY <1>3, <1>5, SwoSent DEF TracePackets
  <2> QED BY <1>1, <1>2, <1>3, <2>1 DEF TraceInv
<1>6. CASE Hang
  <2>1. \A kind \in {"READY", "PACKETS", "DONE"} : Of(kind)' = Of(kind)
    BY <1>6 DEF Hang, Of
  <2>2. swo' = swo /\ board'.phase = "hung" BY <1>2, <1>6 DEF Hang, BoardGoes
  <2> QED BY <1>1, <1>2, <2>1, <2>2 DEF TraceInv
<1>7. CASE EndOfTest
  <2>1. \A kind \in {"READY", "PACKETS", "DONE"} : Of(kind)' = Of(kind)
    BY <1>7 DEF EndOfTest, Of
  <2>2. swo' = swo /\ board.phase \in {"traced", "running"} BY <1>7 DEF EndOfTest
  <2>3. at \in {"await", "wait"} => board.phase = "traced"
    BY <1>1, <1>2, <1>7 DEF EndOfTest, Programmed
  <2> QED BY <1>1, <1>2, <2>1, <2>2, <2>3 DEF TraceInv
<1>8. CASE TraceDone
  <2>1. /\ Of("DONE")' = Of("DONE") \cup {Len(swo) + 1} /\ Of("READY")' = Of("READY")
        /\ Of("PACKETS")' = Of("PACKETS")
        /\ \A k \in Of("READY") : swo'[k] = swo[k]
    BY <1>3, <1>8, SwoSent DEF TraceDone
  <2>2. board.phase = "ended" /\ board'.phase = "finished"
    BY <1>2, <1>8 DEF TraceDone, BoardGoes
  <2>3. CASE at \in {"await", "wait"}
    <3>1. /\ \A k \in Of("READY") : \E p \in Of("PACKETS") : k < p
          /\ heapJob.state = "capturing" => heapJob.packets # "none" \/ Of("PACKETS") # {}
      BY <1>1, <2>2, <2>3 DEF TraceInv
    <3> QED BY <1>1, <1>2, <1>3, <2>1, <2>2, <2>3, <3>1 DEF TraceInv
  <2>4. CASE at \notin {"await", "wait"}
    <3>1. Of("READY") = {} /\ heapJob.state \notin {"capturing", "returned"}
      BY <1>1, <2>4 DEF SilenceInv, Programmed
    <3> QED BY <1>1, <1>2, <2>1, <2>4, <3>1 DEF TraceInv
  <2> QED BY <2>3, <2>4
<1> QED BY <1>4, <1>5, <1>6, <1>7, <1>8 DEF BoardStep, BoardNext

LEMMA WorkersKeepTrace ==
  ASSUME TypeOK, ProcessInv, BenchInv, SilenceInv, TraceInv, HeapJobStep \/ MeasJobStep
  PROVE  TraceInv'
<1>1. SUFFICES ASSUME ~torn, Obeyed, run.traced, at \in {"flash"} \cup Programmed
               PROVE  TraceInv'
  BY DEF HeapJobStep, MeasJobStep, TraceInv, Obeyed
<1>2. UNCHANGED <<at, run, board, torn, refused>> BY DEF HeapJobStep, MeasJobStep
<1>3. CASE MeasJobStep
  <2>1. \A kind \in {"READY", "PACKETS", "DONE"} : Of(kind)' = Of(kind)
    BY <1>3 DEF MeasJobStep, Of
  <2> QED BY <1>1, <1>2, <1>3, <2>1 DEF MeasJobStep, TraceInv
<1>4. CASE HeapJobStep
  <2>1. swo # <<>> /\ swo' = Tail(swo) BY <1>4 DEF HeapJobStep, SeekReady, Capture
  <2>2. /\ \A kind \in {"READY", "PACKETS", "DONE"} :
              \A k : k \in Of(kind)' <=> k \in Nat \ {0} /\ k + 1 \in Of(kind)
        /\ 1 \in Of(Head(swo).kind)
        /\ Head(swo).kind \in {"READY", "PACKETS", "DONE"}
        /\ \A k \in Of("READY")' : swo'[k] = swo[k + 1]
        /\ \A kind \in {"READY", "PACKETS", "DONE"} : \A k \in Of(kind) : k \in Nat \ {0}
        /\ swo[1] = Head(swo)
    BY <2>1, SwoRead DEF Of
  <2>3. /\ \A k, l \in Of("READY") : k = l
        /\ \A k \in Of("READY") : swo[k].run = run
        /\ \A k \in Of("READY"), j \in Of("DONE") :
             k < j => \E p \in Of("PACKETS") : k < p /\ p < j
        /\ at \in {"await", "wait"} /\ board.phase \in {"traced", "ended"} =>
             \A k \in Of("READY") : \E p \in Of("PACKETS") : k < p
    BY <1>1 DEF TraceInv
  <2>4. /\ \A k, l \in Of("READY")' : k = l
        /\ \A k \in Of("READY")' : swo'[k].run = run
    BY <2>2, <2>3
  <2>5. ASSUME NEW k \in Of("READY")', NEW j \in Of("DONE")', k < j
        PROVE  \E p \in Of("PACKETS")' : k < p /\ p < j
    <3>1. PICK p \in Of("PACKETS") : k + 1 < p /\ p < j + 1 BY <2>2, <2>3, <2>5
    <3>2. p - 1 \in Of("PACKETS")' /\ k < p - 1 /\ p - 1 < j BY <2>2, <2>5, <3>1
    <3> QED BY <3>2
  <2>6. ASSUME at \in {"await", "wait"}, board.phase \in {"traced", "ended"},
               NEW k \in Of("READY")'
        PROVE  \E p \in Of("PACKETS")' : k < p
    <3>1. PICK p \in Of("PACKETS") : k + 1 < p BY <2>2, <2>3, <2>6
    <3>2. p - 1 \in Of("PACKETS")' /\ k < p - 1 BY <2>2, <2>6, <3>1
    <3> QED BY <3>2
  <2>7. \A p \in Of("PACKETS") : p # 1 => p - 1 \in Of("PACKETS")' BY <2>2
  <2>8. CASE SeekReady
    <3>1. CASE heapJob' = heapJob
      <4>1. heapJob.state = "seeking" BY <2>8 DEF SeekReady
      <4> QED BY <1>1, <1>2, <2>4, <2>5, <2>6, <3>1, <4>1 DEF TraceInv
    <3>2. CASE Head(swo).kind = "READY" /\ heapJob' # heapJob
      <4>1. heapJob' = [state |-> "capturing", run |-> run, packets |-> "none"]
        BY <2>2, <2>3, <2>8, <3>2 DEF SeekReady
      <4>2. Of("READY")' = {} BY <2>2, <2>3, <3>2
      <4>3. ASSUME NEW j \in Of("DONE")'
            PROVE  \E p \in Of("PACKETS")' : p < j
        <5>1. PICK p \in Of("PACKETS") : 1 < p /\ p < j + 1 BY <2>2, <2>3, <3>2
        <5> QED BY <2>2, <2>7, <5>1
      <4>4. ASSUME at \in {"await", "wait"}, board.phase \in {"traced", "ended"}
            PROVE  Of("PACKETS")' # {}
        <5>1. PICK p \in Of("PACKETS") : 1 < p BY <2>2, <2>3, <3>2, <4>4
        <5> QED BY <2>2, <2>7, <5>1
      <4> QED BY <1>2, <4>1, <4>2, <4>3, <4>4 DEF TraceInv
    <3> QED BY <2>8, <3>1, <3>2 DEF SeekReady
  <2>9. CASE Capture
    <3>1. /\ heapJob \in Capturing
          /\ heapJob.run = run /\ Of("READY") = {}
          /\ \A j \in Of("DONE") : heapJob.packets # "none" \/ \E p \in Of("PACKETS") : p < j
      BY <1>1, <2>9, CaptureStep DEF Capturing, TraceInv
    <3>2. Of("READY")' = {} /\ Head(swo).kind # "READY" BY <2>2, <3>1
    <3>3. ASSUME NEW packets \in {"whole", "damaged"},
                 heapJob' = [state |-> "capturing", run |-> heapJob.run, packets |-> packets]
          PROVE  TraceInv'
      BY <1>2, <3>1, <3>2, <3>3 DEF TraceInv
    <3>4. CASE Head(swo).kind = "DONE"
               /\ heapJob' \in {Got([run |-> heapJob.run, packets |-> heapJob.packets])}
                               \cup Raised
      <4>1. heapJob.packets \in {"whole", "damaged"} BY <2>2, <3>1, <3>4 DEF Capturing
      <4>2. run = Own(run.bench, TRUE) BY <1>1 DEF TypeOK, Run, Own
      <4>3. [run |-> run, packets |-> heapJob.packets] \in OwnHeap(run.bench)
        BY <4>1, <4>2 DEF OwnHeap
      <4>4. /\ heapJob'.state # "capturing"
            /\ heapJob'.state = "returned" => heapJob'.result \in OwnHeap(run.bench)
        <5>1. CASE heapJob' = Got([run |-> run, packets |-> heapJob.packets])
          BY <4>3, <5>1 DEF Got
        <5>2. CASE heapJob' \in Raised BY <5>2 DEF Raised, Raise
        <5> QED BY <3>1, <3>4, <5>1, <5>2
      <4> QED BY <1>2, <3>2, <4>4 DEF TraceInv
    <3> QED BY <2>9, <3>2, <3>3, <3>4, CaptureStep
  <2> QED BY <1>4, <2>8, <2>9 DEF HeapJobStep
<1> QED BY <1>3, <1>4

LEMMA MainKeepsTrace ==
  ASSUME TypeOK, ProcessInv, BenchInv, SilenceInv, TraceInv, GoesOn \/ EndsRun \/ Aborts
  PROVE  TraceInv'
<1>1. board \in [run : Image, phase : Phases] BY DEF TypeOK
<1>2. \A kind \in {"READY", "PACKETS", "DONE"} : Of(kind)' = Of(kind)
  BY DEF GoesOn, Built, StartWorkers, Flashed, Started, HeapFiled, WriteCsv, EndsRun, Aborts, Of
<1>3. CASE Built BY <1>3 DEF Built, TraceInv, Programmed
<1>4. CASE StartWorkers
  <2>1. ~torn => Of("READY") = {} BY <1>4 DEF StartWorkers, SilenceInv
  <2> QED BY <1>2, <1>4, <2>1 DEF StartWorkers, TraceInv, Obeyed
<1>5. CASE Flashed
  BY <1>1, <1>2, <1>5 DEF Flashed, Stopped, TraceInv, Programmed, Obeyed, Refuses
<1>6. CASE Started
  BY <1>1, <1>2, <1>6 DEF Started, Continue, BoardGoes, BenchInv, TraceInv, Programmed,
                         Obeyed, Refuses
<1>7. CASE HeapFiled
  BY <1>2, <1>7 DEF HeapFiled, TraceInv, Programmed, Obeyed
<1>8. CASE WriteCsv BY <1>8 DEF WriteCsv, TraceInv, Programmed
<1>9. CASE EndsRun \/ Aborts
  <2>1. at' \in {"build", "write", "aborted"}
    BY <1>9 DEF EndsRun, Aborts, EndRun, Abort, NextRun
  <2> QED BY <2>1 DEF TraceInv, Programmed
<1> QED BY <1>3, <1>4, <1>5, <1>6, <1>7, <1>8, <1>9 DEF GoesOn
-------------------------------------------------------------------------------
(* The rows.                                                               *)

LEMMA NextRow ==
  ASSUME TypeOK, ProcessInv, BenchInv, SilenceInv, TraceInv, RowInv, [Next]_vars
  PROVE  RowInv'
<1> USE DEF RowInv, RowsFaithful, Obeyed
<1>1. CASE BoardStep BY <1>1 DEF BoardStep
<1>2. CASE HeapJobStep BY <1>2 DEF HeapJobStep
<1>3. CASE MeasJobStep BY <1>3 DEF MeasJobStep
<1>4. CASE GoesOn
  <2>1. row \in Row BY DEF TypeOK
  <2>2. CASE Built BY <2>1, <2>2 DEF Built, Row
  <2>3. CASE HeapFiled
    <3>1. ~torn /\ Obeyed => heapJob.result \in OwnHeap(run.bench)
      BY <2>3 DEF HeapFiled, TraceInv, Programmed
    <3> QED BY <2>1, <2>3, <3>1 DEF HeapFiled, Row
  <2>4. CASE StartWorkers \/ Flashed \/ Started \/ WriteCsv
    <3>1. UNCHANGED <<run, row, results, torn>> /\ refused \subseteq refused'
      BY <2>4 DEF StartWorkers, Flashed, Started, Refuses, WriteCsv
    <3> QED BY <3>1
  <2> QED BY <1>4, <2>2, <2>3, <2>4 DEF GoesOn
<1>5. CASE EndsRun
  <2>1. PICK newRow \in Row :
          /\ EndRun(newRow)
          /\ newRow.heap = row.heap /\ newRow.sizes = row.sizes
          /\ run.traced => newRow = row
          /\ newRow.times # None =>
               measJob.state = "returned" /\ newRow.times = measJob.result
    BY <1>5, FiledRow
  <2>2. SUFFICES ASSUME ~torn'
                 PROVE  /\ Obeyed' => row'.heap \in {None} \cup OwnHeap(run'.bench)
                        /\ RowsFaithful'
    OBVIOUS
  <2>3. ~torn /\ refused' = refused BY <1>5, <2>1, <2>2 DEF EndsRun, EndRun, TearDown
  <2>4. Obeyed' => row'.heap \in {None} \cup OwnHeap(run'.bench)
    BY <2>1, <2>3 DEF EndRun, NextRun, NoRow, TypeOK, Run
  <2>5. ~run.traced => run = Own(run.bench, FALSE) BY DEF TypeOK, Run, Own
  <2>6. row.sizes = run /\ (Obeyed /\ measJob.state = "returned" => measJob.result = run)
    BY <1>5, <2>3 DEF EndsRun, BenchInv, SilenceInv
  <2>7. RowsFaithful'
    <3>1. NextRun(newRow) BY <2>1 DEF EndRun
    <3>2. \A k \in DOMAIN results' :
            \/ k \in DOMAIN results /\ results'[k] = results[k]
            \/ /\ ~run.traced /\ newRow.times # None
               /\ results'[k].bench = run.bench /\ results'[k].row = newRow
      BY <3>1, FiledResults
    <3>3. ASSUME NEW k \in DOMAIN results', ~run.traced, newRow.times # None,
                 results'[k].bench = run.bench, results'[k].row = newRow
          PROVE  /\ results'[k].row.sizes = Own(run.bench, FALSE)
                 /\ Obeyed => /\ results'[k].row.times = Own(run.bench, FALSE)
                              /\ results'[k].row.heap \in {None} \cup OwnHeap(run.bench)
      BY <2>1, <2>3, <2>5, <2>6, <3>3
    <3> QED BY <2>3, <3>2, <3>3
  <2> QED BY <2>4, <2>7
<1>6. CASE Aborts BY <1>6 DEF Aborts, Abort, TearDown
<1>7. CASE UNCHANGED vars BY <1>7 DEF vars
<1> QED BY <1>1, <1>2, <1>3, <1>4, <1>5, <1>6, <1>7, MainCases DEF Next
-------------------------------------------------------------------------------
LEMMA InitEstablishesIInv == Init => IInv
<1> SUFFICES ASSUME Init PROVE IInv OBVIOUS
<1>1. TypeOK BY InitTypes
<1>2. ProcessInv BY DEF Init, ProcessInv, Programmed
<1>3. swo = <<>> /\ uart = <<>> /\ results = <<>> BY DEF Init
<1>4. Of("READY") = {} BY <1>3 DEF Of
<1>5. BenchInv /\ RowInv
  BY <1>3 DEF Init, BenchInv, RowInv, NoRow, TimesOfOwnBenchmark, RowsFaithful, Programmed, NoMeasJob
<1>6. SilenceInv BY <1>4 DEF Init, SilenceInv, Quiet, NoHeapJob, NoMeasJob
<1>7. TraceInv BY DEF Init, TraceInv, Programmed
<1> QED BY <1>1, <1>2, <1>5, <1>6, <1>7 DEF IInv

LEMMA NextPreservesIInv == IInv /\ [Next]_vars => IInv'
<1> SUFFICES ASSUME IInv, [Next]_vars PROVE IInv' OBVIOUS
<1> USE DEF IInv
<1>1. TypeOK' /\ ProcessInv' /\ RowInv' BY NextTypes, NextProcesses, NextRow
<1>2. CASE UNCHANGED vars
  BY <1>1, <1>2 DEF vars, BenchInv, SilenceInv, TraceInv, TimesOfOwnBenchmark, Of, Obeyed
<1>3. CASE BoardStep
  BY <1>1, <1>3, BoardKeepsBench, BoardKeepsSilence, BoardKeepsTrace
<1>4. CASE HeapJobStep \/ MeasJobStep
  BY <1>1, <1>4, WorkersKeepBench, WorkersKeepSilence, WorkersKeepTrace
<1>5. CASE MainStep
  <2>1. GoesOn \/ EndsRun \/ Aborts BY <1>5, MainCases
  <2> QED BY <1>1, <2>1, GoingOnKeepsBench, EndingKeepsBench, GoingOnKeepsSilence,
             EndingKeepsSilence, MainKeepsTrace
<1> QED BY <1>2, <1>3, <1>4, <1>5 DEF Next

LEMMA Invariance == Spec => []IInv
BY InitEstablishesIInv, NextPreservesIInv, PTL DEF Spec

(* Every reachable state of the campaign has its type: a worker's result   *)
(* is never read before there is one, and gdbc.exit() is never called      *)
(* more often than there are debuggers.                                    *)
THEOREM TypeCorrect == Spec => []TypeOK
<1>1. IInv => TypeOK BY DEF IInv
<1> QED BY <1>1, Invariance, PTL

(* However many benchmarks fail or time out, there is at most one gdb, and *)
(* none when the next one is started.                                      *)
THEOREM DebuggersCorrect == Spec => []OneDebugger
<1>1. IInv => OneDebugger BY DEF IInv, ProcessInv, OneDebugger
<1> QED BY <1>1, Invariance, PTL

(* The times in a row were measured on a build of its benchmark, even when *)
(* pools were torn down early, if gdb has refused no command for it: a     *)
(* firmware that was not replaced is not measured for a later benchmark.   *)
THEOREM TimesCorrect == Spec => []TimesOfOwnBenchmark
<1>1. IInv => TimesOfOwnBenchmark BY DEF IInv, BenchInv
<1> QED BY <1>1, Invariance, PTL

(* Every row has the times and the heap of its own benchmark and build,    *)
(* unless gdb has refused a command for this benchmark or a pool was torn  *)
(* down while its board still had something to say; lost or damaged lines  *)
(* of any trace may falsify the heap of their own row but no other number. *)
THEOREM RowsCorrect == Spec => []RowsFaithful
<1>1. IInv => RowsFaithful
  <2> SUFFICES ASSUME IInv PROVE RowsFaithful OBVIOUS
  <2>1. CASE torn BY <2>1 DEF RowsFaithful
  <2>2. CASE ~torn BY <2>2 DEF IInv, RowInv
  <2> QED BY <2>1, <2>2
<1> QED BY <1>1, Invariance, PTL
-------------------------------------------------------------------------------
(* get_heap() does not wait for lines that will not come.                  *)
WaitInv ==
  at = "await" /\ Obeyed /\ ~lost =>
    /\ board.phase # "stopped"
    /\ heapJob.state = "seeking" => board.phase = "started" \/ Of("READY") # {}
    /\ heapJob.state = "seeking" /\ board.phase = "finished" =>
         \E j \in Of("READY"), k \in Of("DONE") : j < k
    /\ heapJob.state = "capturing" /\ board.phase = "finished" => Of("DONE") # {}

LEMMA BoardKeepsWait ==
  ASSUME TypeOK, WaitInv, BoardStep PROVE WaitInv'
<1> USE DEF WaitInv, BoardStep, Obeyed
<1>1. board \in [run : Image, phase : Phases] BY DEF TypeOK
<1>2. CASE TraceReady
  <2>1. Of("READY")' # {} BY <1>2, SwoSent DEF TraceReady
  <2> QED BY <1>1, <1>2, <2>1 DEF TraceReady, BoardGoes
<1>3. CASE TracePackets
  <2>1. Of("READY")' = Of("READY") BY <1>3, SwoSent DEF TracePackets
  <2> QED BY <1>1, <1>3, <2>1 DEF TracePackets, BoardGoes
<1>4. UNCHANGED swo => UNCHANGED Of("READY") BY DEF Of
<1>5. CASE Hang BY <1>1, <1>4, <1>5 DEF Hang, BoardGoes
<1>6. CASE EndOfTest BY <1>1, <1>4, <1>6 DEF EndOfTest, BoardGoes
<1>7. CASE TraceDone
  <2>1. /\ Of("READY")' = Of("READY") /\ Of("DONE")' = Of("DONE") \cup {Len(swo) + 1}
        /\ Len(swo) \in Nat
    BY <1>7, SwoSent DEF TraceDone
  <2>2. \A j \in Of("READY") : j \in 1 .. Len(swo)
    BY <1>7, SwoSent DEF TraceDone, Of
  <2>3. \A j \in Of("READY") : j < Len(swo) + 1 BY <2>1, <2>2
  <2> QED BY <1>1, <1>7, <2>1, <2>3 DEF TraceDone, BoardGoes
<1> QED BY <1>2, <1>3, <1>5, <1>6, <1>7 DEF BoardNext

LEMMA LostStaysLost ==
  ASSUME TypeOK, SeekReady \/ Capture, lost PROVE lost'
BY DEF TypeOK, SeekReady, Capture

LEMMA HeapJobKeepsWait ==
  ASSUME TypeOK, WaitInv, HeapJobStep PROVE WaitInv'
<1> USE DEF WaitInv, HeapJobStep, Obeyed
<1>1. swo # <<>> /\ swo' = Tail(swo) BY DEF SeekReady, Capture
<1>2. /\ \A kind \in {"READY", "DONE"} :
           \A k : k \in Of(kind)' <=> k \in Nat \ {0} /\ k + 1 \in Of(kind)
      /\ \A k \in DOMAIN swo : k \in Nat \ {0}
      /\ 1 \in Of(Head(swo).kind) /\ swo[1] = Head(swo)
  BY <1>1, SwoRead
<1>3. \A kind \in {"READY", "DONE"} : \A k \in Of(kind) :
        k # 1 => k - 1 \in Of(kind)'
  <2> SUFFICES ASSUME NEW kind \in {"READY", "DONE"}, NEW k \in Of(kind), k # 1
               PROVE  k - 1 \in Of(kind)'
    OBVIOUS
  <2>1. k \in Nat \ {0} BY <1>2 DEF Of
  <2>2. k - 1 \in Nat \ {0} /\ (k - 1) + 1 = k BY <2>1
  <2> QED BY <1>2, <2>2
<1>4. \A kind \in {"READY", "DONE"} : 1 \in Of(kind) <=> Head(swo).kind = kind
  BY <1>2 DEF Of
<1>5. CASE SeekReady /\ Head(swo).kind # "READY" /\ heapJob' = heapJob
  <2>1. /\ heapJob.state = "seeking"
        /\ ~lost' => ~lost
    BY <1>5 DEF SeekReady, TypeOK
  <2>2. Of("READY") # {} => Of("READY")' # {} BY <1>3, <1>4, <1>5
  <2>3. ASSUME NEW j \in Of("READY"), NEW k \in Of("DONE"), j < k
        PROVE  \E m \in Of("READY")', n \in Of("DONE")' : m < n
    <3>1. j \in Nat \ {0, 1} /\ k \in Nat \ {0} BY <1>2, <1>4, <1>5 DEF Of
    <3>2. j # 1 /\ k # 1 /\ j - 1 < k - 1 BY <2>3, <3>1
    <3> QED BY <1>3, <3>2
  <2> QED BY <1>5, <2>1, <2>2, <2>3
<1>6. CASE SeekReady /\ Head(swo).kind = "READY" /\ ~lost'
  <2>1. heapJob'.state = "capturing" /\ heapJob.state = "seeking" /\ ~lost
    <3>1. ~lost BY <1>6, LostStaysLost
    <3>2. (lost \/ Head(swo).kind = "READY") = TRUE BY <1>6
    <3>3. lost' # TRUE BY <1>6
    <3>4. heapJob' = [state |-> "capturing", run |-> Head(swo).run, packets |-> "none"]
      BY <1>6, <3>2, <3>3, Zenon DEF SeekReady
    <3> QED BY <1>6, <3>1, <3>4 DEF SeekReady
  <2>2. ASSUME NEW j \in Of("READY"), NEW k \in Of("DONE"), j < k
        PROVE  Of("DONE")' # {}
    <3>1. j \in Nat \ {0} /\ k \in Nat \ {0} BY <1>2 DEF Of
    <3>2. k # 1 BY <2>2, <3>1
    <3> QED BY <1>3, <3>2
  <2> QED BY <2>1, <2>2
<1>7. CASE Capture
  <2>1. heapJob.state = "capturing" /\ (lost => lost')
    BY <1>7, LostStaysLost DEF Capture
  <2>2. CASE heapJob' \in {Got([run |-> heapJob.run, packets |-> heapJob.packets])} \cup Raised
    <3>1. heapJob'.state \notin {"seeking", "capturing"} BY <2>2 DEF Got, Raised, Raise
    <3> QED BY <2>1, <3>1
  <2>3. CASE heapJob'.state = "capturing" /\ Head(swo).kind # "DONE"
    <3>1. Of("DONE") # {} => Of("DONE")' # {} BY <1>3, <1>4, <2>3
    <3> QED BY <2>1, <2>3, <3>1
  <2>4. CASE heapJob'.state = "capturing" /\ lost' BY <2>4
  <2>5. \/ heapJob' \in {Got([run |-> heapJob.run, packets |-> heapJob.packets])} \cup Raised
        \/ /\ \E image, packets :
                heapJob' = [state |-> "capturing", run |-> image, packets |-> packets]
           /\ Head(swo).kind # "DONE" \/ lost'
    BY <1>7, CaptureStep
  <2> QED BY <2>2, <2>3, <2>4, <2>5
<1> QED BY <1>5, <1>6, <1>7 DEF SeekReady

LEMMA MainKeepsWait ==
  ASSUME TypeOK, BenchInv, MainStep PROVE WaitInv'
<1> USE DEF WaitInv, Obeyed
<1>1. board \in [run : Image, phase : Phases] BY DEF TypeOK
<1>2. CASE Started
  <2>1. Obeyed' => board'.phase = "started"
    BY <1>1, <1>2 DEF Started, Continue, BoardGoes, Refuses, BenchInv
  <2> QED BY <1>2, <2>1 DEF Started
<1>3. CASE Built BY <1>3 DEF Built
<1>4. CASE StartWorkers BY <1>4 DEF StartWorkers
<1>5. CASE Flashed BY <1>5 DEF Flashed
<1>6. CASE HeapFiled BY <1>6 DEF HeapFiled
<1>7. CASE WriteCsv BY <1>7 DEF WriteCsv
<1>8. CASE EndsRun \/ Aborts
  BY <1>8 DEF EndsRun, Aborts, EndRun, Abort, NextRun
<1> QED BY <1>2, <1>3, <1>4, <1>5, <1>6, <1>7, <1>8, MainCases DEF GoesOn

LEMMA NextKeepsWait ==
  ASSUME TypeOK, BenchInv, WaitInv, [Next]_vars PROVE WaitInv'
<1>1. CASE MeasJobStep BY <1>1 DEF MeasJobStep, WaitInv, Of, Obeyed
<1>2. CASE UNCHANGED vars BY <1>2 DEF vars, WaitInv, Of, Obeyed
<1> QED BY <1>1, <1>2, BoardKeepsWait, HeapJobKeepsWait, MainKeepsWait DEF Next

(* While main() waits for the result of get_heap(), the lines get_heap()   *)
(* waits for are in the socket or the board has still to send them, unless *)
(* the board hangs, gdb has refused a command, or just these lines were    *)
(* lost.                                                                   *)
THEOREM NoVainWait == Spec => []NeverWaitsInVain
<1>1. Init => WaitInv BY DEF Init, WaitInv
<1>2. IInv /\ WaitInv /\ [Next]_vars => WaitInv' BY NextKeepsWait DEF IInv
<1>3. TypeOK /\ WaitInv => NeverWaitsInVain BY DEF WaitInv, NeverWaitsInVain, Of, Obeyed
<1>4. IInv => TypeOK BY DEF IInv
<1> QED BY <1>1, <1>2, <1>3, <1>4, Invariance, PTL DEF Spec
-------------------------------------------------------------------------------
(* What is left gets less.                                                 *)
LEMMA LeftIsNatural ==
  ASSUME TypeOK
  PROVE  /\ RunsLeft \in Nat /\ StepsLeft \in Nat /\ Len(swo) \in Nat
         /\ BoardLeft \in 0 .. 4 /\ MeasLeft \in 0 .. 2
         /\ at \notin {"write", "written", "aborted"} => RunsLeft > 0
<1>1. run.bench \in 1 .. NBench /\ NBench \in Nat
  BY HarnessAssumption DEF TypeOK, Run, Bench
<1>2. NBench - run.bench \in Nat BY <1>1
<1>3. RunsLeft \in Nat /\ (at \notin {"write", "written", "aborted"} => RunsLeft > 0)
  BY <1>2 DEF RunsLeft
<1>4. StepsLeft \in Nat BY DEF TypeOK, StepsLeft
<1>5. BoardLeft \in 0 .. 4 BY DEF BoardLeft
<1>6. MeasLeft \in 0 .. 2 BY DEF MeasLeft
<1>7. Len(swo) \in Nat BY LenProperties DEF TypeOK
<1> QED BY <1>3, <1>4, <1>5, <1>6, <1>7

LEMMA LeftIsNaturalNext ==
  ASSUME TypeOK'
  PROVE  /\ RunsLeft' \in Nat /\ StepsLeft' \in Nat /\ Len(swo') \in Nat
         /\ BoardLeft' \in 0 .. 4 /\ MeasLeft' \in 0 .. 2
<1>1. run'.bench \in 1 .. NBench /\ NBench \in Nat
  BY HarnessAssumption DEF TypeOK, Run, Bench
<1>2. NBench - run'.bench \in Nat BY <1>1
<1>3. RunsLeft' \in Nat BY <1>2 DEF RunsLeft
<1>4. StepsLeft' \in Nat BY DEF TypeOK, StepsLeft
<1>5. BoardLeft' \in 0 .. 4 BY DEF BoardLeft
<1>6. MeasLeft' \in 0 .. 2 BY DEF MeasLeft
<1>7. Len(swo') \in Nat BY LenProperties DEF TypeOK
<1> QED BY <1>3, <1>4, <1>5, <1>6, <1>7

(* The weights: a step of main() outweighs all it starts anew.             *)
LEMMA Weights ==
  ASSUME NEW r \in Nat, NEW s \in Nat, NEW b \in 0 .. 4, NEW l \in Nat, NEW m \in 0 .. 2,
         NEW r_ \in Nat, NEW s_ \in Nat, NEW b_ \in 0 .. 4, NEW l_ \in Nat, NEW m_ \in 0 .. 2,
         \/ r_ = r /\ s_ = s /\ 2 * b_ + l_ + m_ < 2 * b + l + m
         \/ 7 * r_ + s_ < 7 * r + s /\ l_ = l
  PROVE  12 * (7 * r_ + s_) + 2 * b_ + l_ + m_ < 12 * (7 * r + s) + 2 * b + l + m
OBVIOUS

LEMMA BoardLeftLess ==
  ASSUME TypeOK, BoardStep
  PROVE  2 * BoardLeft' + Len(swo') < 2 * BoardLeft + Len(swo)
<1> USE DEF BoardStep, BoardLeft
<1>1. board \in [run : Image, phase : Phases] /\ Len(swo) \in Nat
  BY LenProperties DEF TypeOK
<1>2. \A kind \in {"READY", "PACKETS", "DONE"} :
        SendSwo(kind) => Len(swo') = Len(swo) + 1
  <2> SUFFICES ASSUME NEW kind \in {"READY", "PACKETS", "DONE"}, SendSwo(kind)
               PROVE  Len(swo') = Len(swo) + 1
    OBVIOUS
  <2>1. swo \in Seq(SwoToken) /\ [kind |-> kind, run |-> board.run] \in SwoToken
    BY <1>1 DEF TypeOK, SwoToken, Token
  <2> QED BY <2>1, AppendProperties DEF SendSwo
<1>3. CASE TraceReady BY <1>1, <1>2, <1>3 DEF TraceReady, BoardGoes
<1>4. CASE TracePackets BY <1>1, <1>2, <1>4 DEF TracePackets, BoardGoes
<1>5. CASE Hang BY <1>1, <1>5 DEF Hang, BoardGoes
<1>6. CASE EndOfTest BY <1>1, <1>6 DEF EndOfTest, BoardGoes
<1>7. CASE TraceDone BY <1>1, <1>2, <1>7 DEF TraceDone, BoardGoes
<1> QED BY <1>3, <1>4, <1>5, <1>6, <1>7 DEF BoardNext

LEMMA MainLeftLess ==
  ASSUME TypeOK, TypeOK', MainStep
  PROVE  7 * RunsLeft' + StepsLeft' < 7 * RunsLeft + StepsLeft /\ swo' = swo
<1>1. RunsLeft \in Nat /\ (at \notin {"write", "written", "aborted"} => RunsLeft > 0)
  BY LeftIsNatural
<1>2. CASE GoesOn
  <2>1. run' = run /\ swo' = swo
        /\ <<at, at'>> \in {<<"build", "pool">>, <<"pool", "flash">>, <<"flash", "start">>,
                           <<"start", "await">>, <<"await", "wait">>, <<"write", "written">>}
    BY <1>2 DEF GoesOn, Built, StartWorkers, Flashed, Started, HeapFiled, WriteCsv
  <2>2. RunsLeft' = RunsLeft BY <2>1 DEF RunsLeft
  <2> QED BY <1>1, <2>1, <2>2 DEF StepsLeft
<1>3. CASE EndsRun
  <2>1. PICK newRow : EndRun(newRow) BY <1>3 DEF EndsRun
  <2>2. /\ at \in {"start", "await", "wait"} /\ swo' = swo
        /\ at' = IF ~run.traced /\ run.bench = NBench THEN "write" ELSE "build"
    BY <1>3, <2>1 DEF EndsRun, Programmed, EndRun, NextRun
  <2>3. run \in Run /\ NBench \in Nat /\ run.bench \in Nat /\ run.bench <= NBench
    BY HarnessAssumption DEF TypeOK, Run, Bench
  <2>4. RunsLeft' = RunsLeft - 1
    <3>1. CASE run.traced
      <4>1. run'.bench = run.bench /\ ~run'.traced /\ at' = "build"
        BY <2>1, <2>2, <2>3, <3>1 DEF EndRun, NextRun, Run
      <4> QED BY <2>2, <2>3, <3>1, <4>1 DEF RunsLeft
    <3>2. CASE ~run.traced /\ run.bench = NBench
      BY <2>2, <2>3, <3>2 DEF RunsLeft
    <3>3. CASE ~run.traced /\ run.bench # NBench
      <4>1. run'.bench = run.bench + 1 /\ run'.traced /\ at' = "build"
        BY <2>1, <2>2, <3>3 DEF EndRun, NextRun
      <4> QED BY <2>2, <2>3, <3>3, <4>1 DEF RunsLeft
    <3> QED BY <3>1, <3>2, <3>3
  <2>5. StepsLeft >= 1 /\ StepsLeft' <= 6 BY <2>2 DEF StepsLeft
  <2>6. StepsLeft \in Nat /\ StepsLeft' \in Nat BY <2>2 DEF StepsLeft
  <2>7. \A r, s, s_ \in Nat : s >= 1 /\ s_ <= 6 => 7 * (r - 1) + s_ < 7 * r + s
    OBVIOUS
  <2> QED BY <1>1, <2>2, <2>4, <2>5, <2>6, <2>7
<1>4. CASE Aborts
  <2>1. at' = "aborted" /\ swo' = swo /\ at \notin {"write", "written", "aborted"}
    BY <1>4 DEF Aborts, Abort, Programmed
  <2>2. RunsLeft' = 0 /\ StepsLeft' = 0 BY <2>1 DEF RunsLeft, StepsLeft
  <2>3. StepsLeft \in Nat BY LeftIsNatural
  <2> QED BY <1>1, <2>1, <2>2, <2>3
<1> QED BY <1>2, <1>3, <1>4, MainCases

LEMMA StepLeavesLess ==
  ASSUME TypeOK, TypeOK', Next
  PROVE  Left' < Left
<1>1. /\ RunsLeft \in Nat /\ StepsLeft \in Nat /\ Len(swo) \in Nat
      /\ BoardLeft \in 0 .. 4 /\ MeasLeft \in 0 .. 2
  BY LeftIsNatural
<1>2. /\ RunsLeft' \in Nat /\ StepsLeft' \in Nat /\ Len(swo') \in Nat
      /\ BoardLeft' \in 0 .. 4 /\ MeasLeft' \in 0 .. 2
  BY LeftIsNaturalNext
<1>3. \/ /\ RunsLeft' = RunsLeft /\ StepsLeft' = StepsLeft
         /\ 2 * BoardLeft' + Len(swo') + MeasLeft' < 2 * BoardLeft + Len(swo) + MeasLeft
      \/ 7 * RunsLeft' + StepsLeft' < 7 * RunsLeft + StepsLeft /\ Len(swo') = Len(swo)
  <2>1. CASE BoardStep
    <3>1. MeasLeft' = MeasLeft /\ RunsLeft' = RunsLeft /\ StepsLeft' = StepsLeft
      BY <2>1 DEF BoardStep, MeasLeft, RunsLeft, StepsLeft
    <3> QED BY <1>1, <1>2, <2>1, <3>1, BoardLeftLess
  <2>2. CASE HeapJobStep
    <3>1. /\ MeasLeft' = MeasLeft /\ RunsLeft' = RunsLeft /\ StepsLeft' = StepsLeft
          /\ BoardLeft' = BoardLeft
      BY <2>2 DEF HeapJobStep, MeasLeft, RunsLeft, StepsLeft, BoardLeft
    <3>2. swo # <<>> /\ swo' = Tail(swo) BY <2>2 DEF HeapJobStep, SeekReady, Capture
    <3>3. Len(swo') = Len(swo) - 1
      BY <3>2, HeadTailProperties, EmptySeq DEF TypeOK
    <3> QED BY <1>1, <1>2, <3>1, <3>3
  <2>3. CASE MeasJobStep
    <3>1. /\ swo' = swo /\ RunsLeft' = RunsLeft /\ StepsLeft' = StepsLeft
          /\ BoardLeft' = BoardLeft
      BY <2>3 DEF MeasJobStep, RunsLeft, StepsLeft, BoardLeft
    <3>2. MeasLeft' < MeasLeft
      <4>1. CASE OpenSerial BY <4>1 DEF OpenSerial, MeasLeft
      <4>2. CASE ReadEndOfTest BY <4>2 DEF ReadEndOfTest, MeasLeft, Got, Raised, Raise
      <4>3. CASE SerialTimeout BY <4>3 DEF SerialTimeout, MeasLeft, Got, Raised, Raise
      <4> QED BY <2>3, <4>1, <4>2, <4>3 DEF MeasJobStep
    <3> QED BY <1>1, <1>2, <3>1, <3>2
  <2>4. CASE MainStep BY <2>4, MainLeftLess
  <2> QED BY <2>1, <2>2, <2>3, <2>4 DEF Next
<1> QED BY <1>1, <1>2, <1>3, Weights DEF Left

(* No loop of main(), of its workers or between them and the board goes    *)
(* round for ever: every step, whatever fails or times out, leaves less to *)
(* be done, for any number of benchmarks.                                  *)
THEOREM LeftDecreases == Spec => AlwaysLessLeft
<1>1. IInv /\ IInv' /\ [Next]_vars => [Left' < Left]_vars
  BY StepLeavesLess DEF IInv
<1> QED BY <1>1, Invariance, PTL DEF Spec, AlwaysLessLeft
===============================================================================
