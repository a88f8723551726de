--------------------------------- MODULE Board ---------------------------------
(***************************************************************************)
(* What the host can tell of the firmware while it runs one benchmark:     *)
(* post_main() of main.c, seen from the ITM port (swo) and the serial port *)
(* (uart).  The modules that compose the whole campaign use it as the      *)
(* board; Firmware is shown to implement it for the three interpreters.    *)
(***************************************************************************)
EXTENDS Integers, Sequences

VARIABLES
  board,  (* The firmware on the board and how far it has got.             *)
  swo,    (* What the ITM port has sent and nobody has read, as tokens.    *)
  uart    (* What the serial port has sent and nobody has read: a token    *)
          (* for the text up to "END OF TEST", whose ok says whether the   *)
          (* first delay and the stack usage are in it.                    *)

boardVars == <<board, swo, uart>>

Phases == {"stopped", "started", "running", "traced", "hung", "ended", "finished"}

SendSwo(kind) == swo' = Append(swo, [kind |-> kind, run |-> board.run])

BoardGoes(phase) == board' = [board EXCEPT !.phase = phase]

(* trace_buffer("trace ready!\n", 13)                                      *)
TraceReady ==
  /\ board.phase = "started"
  /\ SendSwo("READY")
  /\ BoardGoes("running")
  /\ UNCHANGED uart

(* run_active_bench() in a HEAP_TRACE build.                               *)
TracePackets ==
  /\ board.phase = "running" /\ board.run.traced
  /\ SendSwo("PACKETS")
  /\ BoardGoes("traced")
  /\ UNCHANGED uart

(* The benchmark, or the interpreter, does not come back.                  *)
Hang ==
  /\ board.phase \in {"running", "traced"}
  /\ BoardGoes("hung")
  /\ UNCHANGED <<swo, uart>>

(* Which lines come before it depends on the interpreter and its errors;   *)
(* "END OF TEST" is always printed.                                        *)
EndOfTest ==
  /\ board.phase = IF board.run.traced THEN "traced" ELSE "running"
  /\ \E ok \in BOOLEAN : uart' = Append(uart, [run |-> board.run, ok |-> ok])
  /\ BoardGoes("ended")
  /\ UNCHANGED swo

TraceDone ==
  /\ board.phase = "ended"
  /\ SendSwo("DONE")
  /\ BoardGoes("finished")
  /\ UNCHANGED uart

BoardNext == TraceReady \/ TracePackets \/ Hang \/ EndOfTest \/ TraceDone

(* One run of the firmware, from the breakpoint at post_main() on.         *)
RunStarts ==
  /\ \E traced \in BOOLEAN : board = [run |-> [traced |-> traced], phase |-> "started"]
  /\ swo = <<>>
  /\ uart = <<>>

OneRun ==
  /\ RunStarts
  /\ [][BoardNext]_boardVars
  /\ WF_boardVars(BoardNext)
===============================================================================
