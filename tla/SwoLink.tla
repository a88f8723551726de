-------------------------------- MODULE SwoLink --------------------------------
(***************************************************************************)
(* The ITM link at the level of bytes: trace_send_blocking() of l4/init.c, *)
(* the socket of OpenOCD, SWOReader.readinto() and the first half of       *)
(* get_heap() of run-benches.py, which looks for the two lines between     *)
(* which the packets of the heap trace are.                                *)
(*                                                                         *)
(* Every byte the firmware sends travels as a frame of two: a header and   *)
(* the byte.  The socket outlives the pools of workers: a worker may be    *)
(* torn down between two bytes, and the board is reset some time after its *)
(* successor has begun to read.                                            *)
(***************************************************************************)
EXTENDS Integers, Sequences, SequencesExt

CONSTANTS
  MaxData,  (* Bound: bytes of heap trace in one run.                      *)
  MaxRuns,  (* Bound: runs of the campaign.                                *)
  MaxLost,  (* Bound: bytes lost between the board and the socket.         *)
  MaxWire   (* Bound: bytes between the board and the worker.              *)

ASSUME SwoLinkAssumption == {MaxData, MaxLost, MaxWire} \subseteq Nat /\ MaxRuns \in Nat \ {0}

(* Bytes.  Header is that of a one-byte write to stimulus port 0; readinto *)
(* takes 1, 2 and 3 for headers, and any other byte for itself.            *)
Header == 1
IsHeader(byte) == byte \in 1 .. 3

(* Letters of "trace ready!" and of "TRACE_DONE", and the newline, which   *)
(* also stands for the other bytes of a heap trace that are no headers.    *)
R == 114
D == 68
Newline == 10

READY == <<R, Newline>>
DONE  == <<D, Newline>>

DataBytes == 1 .. 3 \cup {Newline}

VARIABLES
  data,       (* History: the heap trace of each run, as far as it goes.   *)
  boardRun,   (* The run whose firmware is on the board.                   *)
  at,         (* Where its post_main() is.                                 *)
  todo,       (* What is left of the text it is sending.                   *)
  halfSent,   (* Has the header of the next byte been sent?                *)
  wire,       (* Sent and not yet received, marked as header or payload.   *)
  lost,       (* How many bytes have been lost.                            *)
  closed,     (* Has the socket been closed by OpenOCD?                    *)
  workerRun,  (* The run whose get_heap() is reading.                      *)
  need,       (* Bytes of payload that readinto() still waits for.         *)
  payload,    (* Bytes of payload it has.                                  *)
  heap,       (* get_heap(): its mode, the line it is reading and total.   *)
  fooled      (* History: a payload byte 3 has been taken for a header.    *)

board  == <<data, boardRun, at, todo, halfSent>>
worker == <<workerRun, need, payload, heap>>
vars   == <<board, wire, lost, closed, worker, fooled>>

Seeking == [mode |-> "seek", line |-> <<>>, total |-> <<>>]

Init ==
  /\ data = [r \in 1 .. MaxRuns |-> <<>>]
  /\ boardRun = 1
  /\ at = "bench"
  /\ todo = READY
  /\ halfSent = FALSE
  /\ wire = <<>>
  /\ lost = 0
  /\ closed = FALSE
  /\ workerRun = 1
  /\ need = 0
  /\ payload = <<>>
  /\ heap = Seeking
  /\ fooled = FALSE
-------------------------------------------------------------------------------
(* The board and the link.                                                 *)

(* The benchmark allocates, which sends bytes, or it ends.                 *)
Trace ==
  /\ at = "bench" /\ todo = <<>>
  /\ \/ /\ Len(data[boardRun]) < MaxData
        /\ \E byte \in DataBytes :
             /\ data' = [data EXCEPT ![boardRun] = Append(@, byte)]
             /\ todo' = <<byte>>
        /\ UNCHANGED at
     \/ at' = "ended" /\ todo' = DONE /\ UNCHANGED data
  /\ UNCHANGED <<boardRun, halfSent, wire, lost, closed, worker, fooled>>

(* What the current run has sent or is sending.                            *)
Text == READY \o data[boardRun] \o (IF at = "ended" THEN DONE ELSE <<>>)

(* The next half of a frame, with its place in the text of its run.        *)
NextItem == [byte     |-> IF halfSent THEN Head(todo) ELSE Header,
             isHeader |-> ~halfSent,
             run      |-> boardRun,
             index    |-> Len(Text) - Len(todo) + 1]

(* trace_send_blocking(): the hardware turns one write into a frame.       *)
Send ==
  /\ todo # <<>> /\ Len(wire) < MaxWire /\ ~closed
  /\ \/ wire' = Append(wire, NextItem) /\ UNCHANGED lost
     \/ lost < MaxLost /\ lost' = lost + 1 /\ UNCHANGED wire
  /\ halfSent' = ~halfSent
  /\ todo' = IF halfSent THEN Tail(todo) ELSE todo
  /\ UNCHANGED <<data, boardRun, at, closed, worker, fooled>>

(* flash_bin() of the next run resets the board, in the middle of anything.*)
Reset ==
  /\ boardRun < workerRun
  /\ boardRun' = boardRun + 1
  /\ at' = "bench"
  /\ todo' = READY
  /\ halfSent' = FALSE
  /\ UNCHANGED <<data, wire, lost, closed, worker, fooled>>

(* OpenOCD ends.  recv() then returns nothing, at once, and is called      *)
(* again for ever: the worker does not notice.  (Nor does the board, whose *)
(* further bytes reach nobody.)                                            *)
Close ==
  /\ ~closed
  /\ closed' = TRUE
  /\ UNCHANGED <<board, wire, lost, worker, fooled>>
-------------------------------------------------------------------------------
(* get_heap(), one byte of a line at a time.                               *)

(* Mutant of LineRead: the line must be the text, not only end with it.    *)
LineReadExact(h) ==
  CASE h.mode = "seek" /\ h.line = READY -> [mode |-> "capture", line |-> <<>>, total |-> <<>>]
    [] h.mode = "capture" /\ IsSuffix(DONE, h.line) ->
         [mode |-> "done", line |-> <<>>,
          total |-> h.total \o SubSeq(h.line, 1, Len(h.line) - Len(DONE))]
    [] h.mode = "capture" /\ IsSuffix(READY, h.line) ->
         [mode |-> "capture", line |-> <<>>, total |-> <<>>]
    [] h.mode = "capture" /\ ~IsSuffix(DONE, h.line) /\ ~IsSuffix(READY, h.line) ->
         [mode |-> "capture", line |-> <<>>, total |-> h.total \o h.line]
    [] OTHER -> [h EXCEPT !.line = <<>>]

(* Mutant of LineRead: the data begin at the first "trace ready!".         *)
LineReadFirstReady(h) ==
  CASE h.mode = "seek" /\ IsSuffix(READY, h.line) ->
         [mode |-> "capture", line |-> <<>>, total |-> <<>>]
    [] h.mode = "capture" /\ IsSuffix(DONE, h.line) ->
         [mode |-> "done", line |-> <<>>,
          total |-> h.total \o SubSeq(h.line, 1, Len(h.line) - Len(DONE))]
    [] h.mode = "capture" /\ ~IsSuffix(DONE, h.line) ->
         [mode |-> "capture", line |-> <<>>, total |-> h.total \o h.line]
    [] OTHER -> [h EXCEPT !.line = <<>>]

(* A line is complete.  The regular expression that cuts the data out of   *)
(* total is greedy: they begin after the last "trace ready!".              *)
LineRead(h) ==
  CASE h.mode \in {"seek", "capture"} /\ IsSuffix(READY, h.line) ->
         [mode |-> "capture", line |-> <<>>, total |-> <<>>]
    [] h.mode = "capture" /\ IsSuffix(DONE, h.line) ->
         [mode |-> "done", line |-> <<>>,
          total |-> h.total \o SubSeq(h.line, 1, Len(h.line) - Len(DONE))]
    [] h.mode = "capture" /\ ~IsSuffix(READY, h.line) /\ ~IsSuffix(DONE, h.line) ->
         [mode |-> "capture", line |-> <<>>, total |-> h.total \o h.line]
    [] OTHER -> [h EXCEPT !.line = <<>>]

(* readline() gets one more byte.                                          *)
Byte(h, byte) ==
  LET longer == [h EXCEPT !.line = Append(@, byte)] IN
  IF h.mode = "done" THEN h ELSE IF byte = Newline THEN LineRead(longer) ELSE longer

(* readinto() returns: its bytes go through the BufferedReader.            *)
Deliver(bytes) == heap' = FoldLeft(Byte, heap, bytes)

(* Mutant of SizeOf: 3 is taken for the size, not for its code.            *)
SizeOfCode(header) == header

(* Sizes of the payload: [0, 1, 2, 4].                                     *)
SizeOf(header) == <<1, 2, 4>>[header]

(* Mutant of ReceiveHeader: a byte that is no header is dropped.           *)
ReceiveHeaderDropping ==
  /\ heap.mode # "done" /\ wire # <<>> /\ need = 0
  /\ LET byte == Head(wire).byte IN
     /\ need' = IF IsHeader(byte) THEN SizeOf(byte) ELSE 0
     /\ fooled' = (fooled \/ (byte = 3 /\ ~Head(wire).isHeader))
  /\ wire' = Tail(wire)
  /\ UNCHANGED <<board, lost, closed, workerRun, payload, heap>>

(* recv(1) of readinto(): a header, or a byte that is returned as it is,   *)
(* with a warning.                                                         *)
ReceiveHeader ==
  /\ heap.mode # "done" /\ wire # <<>> /\ need = 0
  /\ LET byte == Head(wire).byte IN
     /\ IF IsHeader(byte)
        THEN need' = SizeOf(byte) /\ UNCHANGED heap
        ELSE Deliver(<<byte>>) /\ UNCHANGED need
     /\ fooled' = (fooled \/ (byte = 3 /\ ~Head(wire).isHeader))
  /\ wire' = Tail(wire)
  /\ UNCHANGED <<board, lost, closed, workerRun, payload>>

(* Mutant of ReceivePayload: the first byte of a payload is enough.        *)
ReceivePayloadOnce ==
  /\ heap.mode # "done" /\ wire # <<>> /\ need > 0
  /\ need' = 0
  /\ Deliver(<<Head(wire).byte>>)
  /\ wire' = Tail(wire)
  /\ UNCHANGED <<board, lost, closed, workerRun, payload, fooled>>

(* The other recv() of readinto(), in a loop until the payload is whole.   *)
ReceivePayload ==
  /\ heap.mode # "done" /\ wire # <<>> /\ need > 0
  /\ need' = need - 1
  /\ LET bytes == Append(payload, Head(wire).byte) IN
     IF need = 1 THEN Deliver(bytes) /\ payload' = <<>>
                 ELSE payload' = bytes /\ UNCHANGED heap
  /\ wire' = Tail(wire)
  /\ UNCHANGED <<board, lost, closed, workerRun, fooled>>

(* The pool of a run is torn down, whatever its worker is doing, and the   *)
(* next one starts with an empty buffer at the next byte of the socket.    *)
NewWorker ==
  /\ workerRun < MaxRuns /\ workerRun = boardRun
  /\ workerRun' = workerRun + 1
  /\ need' = 0
  /\ payload' = <<>>
  /\ heap' = Seeking
  /\ UNCHANGED <<board, wire, lost, closed, fooled>>

Receive == ReceiveHeader \/ ReceivePayload

Next == Trace \/ Send \/ Reset \/ Close \/ Receive \/ NewWorker

(* The firmware and the worker run; nothing forces a reset or a teardown.  *)
Spec == Init /\ [][Next]_vars /\ WF_vars(Trace \/ Send) /\ WF_vars(Receive)
-------------------------------------------------------------------------------
TypeOK ==
  /\ boardRun \in 1 .. MaxRuns /\ workerRun \in boardRun .. boardRun + 1
  /\ data \in [1 .. MaxRuns -> BoundedSeq(DataBytes, MaxData)]
  /\ at \in {"bench", "ended"}
  /\ todo \in Seq(DataBytes \cup {R, D})
  /\ halfSent \in BOOLEAN /\ closed \in BOOLEAN /\ fooled \in BOOLEAN
  /\ Len(wire) <= MaxWire /\ wire \in Seq([byte : DataBytes \cup {R, D}, isHeader : BOOLEAN, run : 1 .. MaxRuns, index : Nat])
  /\ lost \in 0 .. MaxLost
  /\ need \in 0 .. 4 /\ (need = 0 => payload = <<>>)
  /\ need + Len(payload) \in {0, 1, 2, 4}
  /\ heap.mode \in {"seek", "capture", "done"}

(* Without losses, what get_heap() replays is the whole trace of one run,  *)
(* not a part and not a mixture, although its worker may have begun in the *)
(* middle of a frame, in the middle of the trace of an earlier run, and    *)
(* the board may have been reset in the middle of a frame.                 *)
OneWholeCapture ==
  heap.mode = "done" /\ lost = 0 => \E r \in 1 .. boardRun : heap.total = data[r]

(* One lost byte does not misalign the packets: a trace is never shorter   *)
(* than it was sent, and it is longer, by one byte, only if a payload byte *)
(* 3 was taken for a header.                                               *)
LengthKept ==
  heap.mode = "done" /\ workerRun = 1 /\ lost <= 1 =>
    Len(heap.total) = Len(data[1]) + (IF fooled THEN 1 ELSE 0)

(* get_heap() ends if its board runs to the end, unless bytes were lost,   *)
(* the socket was closed, or a payload byte 3 was taken for a header: its  *)
(* false payload of four bytes may swallow a letter of "trace ready!".     *)
CaptureEnds ==
  boardRun = workerRun ~>
    heap.mode = "done" \/ lost > 0 \/ closed \/ fooled \/ boardRun # workerRun
===============================================================================
