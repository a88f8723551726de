------------------------------- MODULE WasiWrite -------------------------------
(***************************************************************************)
(* The WASI call fd_write of the WAMR firmware: fd_write() and             *)
(* wasmtime_ssp_fd_write() of wamr/stm32/src/main.c, down to _write() of   *)
(* l4/init.c, which sends characters to the serial port.                   *)
(*                                                                         *)
(* A buffer is a sequence of kinds of characters: "nul" ends a C string,   *)
(* "nl" is followed by a carriage return on the wire, "chr" is any other.  *)
(* The checks of guest addresses, the allocation and the USART are         *)
(* external.                                                               *)
(***************************************************************************)
EXTENDS Integers, Sequences, SequencesExt

CONSTANTS
  MaxIov,   (* Bound: buffers in one call.                                 *)
  MaxLen    (* Bound: characters in one buffer.                            *)

ASSUME WasiWriteAssumption == MaxIov \in Nat /\ MaxLen \in Nat

Char == {"chr", "nl", "nul"}

Buffer == BoundedSeq(Char, MaxLen)

(* What the guest passes: the descriptor, the buffers, whether the address *)
(* of the count and of the table are in its memory, and of each buffer.    *)
Call == [fd : 0 .. 3, table : BOOLEAN, bufs : BoundedSeq([ok : BOOLEAN, buf : Buffer], MaxIov)]

VARIABLES
  pc,         (* Where the call is.                                        *)
  call,       (* Its arguments.                                            *)
  i,          (* The buffers that have been converted, or written.         *)
  written,    (* int written, for the current buffer.                      *)
  len,        (* ssize_t len.                                              *)
  ciovecs,    (* Converted tables that have been allocated and not freed.  *)
  err,        (* The return value, a uint16_t.                             *)
  nwritten,   (* *nwritten_app, -1 while it has not been assigned.         *)
  wire        (* What the USART has sent since the call.                   *)

vars == <<pc, call, i, written, len, ciovecs, err, nwritten, wire>>

MinusOne == 2^16 - 1       (* (uint16_t)-1                                *)

(* _write(): characters up to len or the first NUL, whichever is first.    *)
Sendable(buf) == SelectInSeq(buf, LAMBDA c : c = "nul")

(* Mutant of WriteCount: _write() runs while i < len - 1, so that a buffer *)
(* of one character is never written.                                      *)
WriteCountOneShort(fd, buf) ==
  IF fd > 2 THEN -1 ELSE IF Sendable(buf) = 0 THEN Len(buf) - 1
  ELSE Sendable(buf) - 1

WriteCount(fd, buf) ==
  IF fd > 2 THEN -1 ELSE IF Sendable(buf) = 0 THEN Len(buf) ELSE Sendable(buf) - 1

OnWire(c) == IF c = "nl" THEN <<"nl", "cr">> ELSE <<c>>

Sent(buf) == FlattenSeq([k \in 1 .. WriteCount(1, buf) |-> OnWire(buf[k])])

Entered ==
  /\ i = 0
  /\ written = 0
  /\ len = 0
  /\ ciovecs = 0
  /\ err = 0
  /\ nwritten = -1
  /\ wire = <<>>

Init == pc = "check" /\ call \in Call /\ Entered

Return(e) == pc' = "returned" /\ err' = e

(* Mutant of Check: goto fail before there is a table.                     *)
CheckGoesToFail ==
  /\ pc = "check"
  /\ \/ /\ ~call.table
        /\ pc' = "fail" /\ err' = MinusOne
        /\ UNCHANGED ciovecs
     \/ /\ call.table
        /\ \/ Return(MinusOne) /\ UNCHANGED ciovecs
           \/ pc' = "convert" /\ ciovecs' = ciovecs + 1 /\ UNCHANGED err
  /\ UNCHANGED <<call, i, written, len, nwritten, wire>>

(* The address of the count and the table are checked, and a table for the *)
(* converted buffers is allocated.                                         *)
Check ==
  /\ pc = "check"
  /\ \/ /\ ~call.table
        /\ Return(MinusOne)
        /\ UNCHANGED ciovecs
     \/ /\ call.table
        /\ \/ Return(MinusOne) /\ UNCHANGED ciovecs          \* No memory.
           \/ pc' = "convert" /\ ciovecs' = ciovecs + 1 /\ UNCHANGED err
  /\ UNCHANGED <<call, i, written, len, nwritten, wire>>

(* Mutant of Convert: a bad buffer returns without passing fail:.          *)
ConvertReturns ==
  /\ pc = "convert"
  /\ i < Len(call.bufs)
  /\ IF call.bufs[i + 1].ok
     THEN i' = i + 1 /\ UNCHANGED <<pc, err>>
     ELSE Return(MinusOne) /\ UNCHANGED i
  /\ UNCHANGED <<call, written, len, ciovecs, nwritten, wire>>

(* Mutant of Convert: every buffer is sent as soon as it is converted.     *)
ConvertSends ==
  /\ pc = "convert"
  /\ i < Len(call.bufs)
  /\ IF call.bufs[i + 1].ok
     THEN /\ i' = i + 1
          /\ wire' = wire \o Sent(call.bufs[i + 1].buf)
          /\ UNCHANGED <<pc, err>>
     ELSE pc' = "fail" /\ err' = MinusOne /\ UNCHANGED <<i, wire>>
  /\ UNCHANGED <<call, written, len, ciovecs, nwritten>>

(* One buffer: its address is checked and converted; goto fail if it is    *)
(* not in the memory of the guest.                                         *)
Convert ==
  /\ pc = "convert"
  /\ i < Len(call.bufs)
  /\ IF call.bufs[i + 1].ok
     THEN i' = i + 1 /\ UNCHANGED <<pc, err>>
     ELSE pc' = "fail" /\ err' = MinusOne /\ UNCHANGED i
  /\ UNCHANGED <<call, written, len, ciovecs, nwritten, wire>>

(* wasmtime_ssp_fd_write() serves stdout and stderr only.                  *)
SspFdWrite ==
  /\ pc = "convert"
  /\ i = Len(call.bufs)
  /\ IF call.fd \in {1, 2}
     THEN pc' = "write" /\ UNCHANGED err
     ELSE pc' = "fail" /\ err' = MinusOne
  /\ i' = 0
  /\ UNCHANGED <<call, written, len, ciovecs, nwritten, wire>>

Buf == call.bufs[i + 1].buf

(* written += write(fd, base, len): every turn starts again at the base.   *)
Write ==
  /\ pc = "write"
  /\ i < Len(call.bufs)
  /\ written # -1 /\ written < Len(Buf)
  /\ written' = written + WriteCount(call.fd, Buf)
  /\ wire' = wire \o Sent(Buf)
  /\ UNCHANGED <<pc, call, i, len, ciovecs, err, nwritten>>

(* Mutant of NextBuffer: written is not reset.                             *)
NextBufferKeepsWritten ==
  /\ pc = "write"
  /\ i < Len(call.bufs)
  /\ written = -1 \/ written >= Len(Buf)
  /\ i' = i + 1
  /\ len' = len + written
  /\ UNCHANGED <<pc, call, written, ciovecs, err, nwritten, wire>>

(* The next buffer; an empty one is passed over.                           *)
NextBuffer ==
  /\ pc = "write"
  /\ i < Len(call.bufs)
  /\ written = -1 \/ written >= Len(Buf)
  /\ i' = i + 1
  /\ len' = len + written
  /\ written' = 0
  /\ UNCHANGED <<pc, call, ciovecs, err, nwritten, wire>>

Succeed ==
  /\ pc = "write"
  /\ i = Len(call.bufs)
  /\ nwritten' = len
  /\ pc' = "fail"               \* The label is reached on success as well.
  /\ UNCHANGED <<call, i, written, len, ciovecs, err, wire>>

(* fail: wasm_runtime_free(ciovec_begin)                                   *)
FreeAndReturn ==
  /\ pc = "fail"
  /\ ciovecs' = ciovecs - 1
  /\ pc' = "returned"
  /\ UNCHANGED <<call, i, written, len, err, nwritten, wire>>

Next ==
  \/ Check \/ Convert \/ SspFdWrite \/ Write \/ NextBuffer \/ Succeed \/ FreeAndReturn

(* The call runs on the only thread of the firmware.                       *)
Spec == Init /\ [][Next]_vars /\ WF_vars(Next)
-------------------------------------------------------------------------------
TypesOK ==
  /\ call \in Call
  /\ i \in 0 .. Len(call.bufs)
  /\ written \in Nat /\ len \in Nat
  /\ ciovecs \in {0, 1}
  /\ nwritten \in Nat \cup {-1}
  /\ wire \in Seq({"chr", "nl", "cr", "line"})

Bufs == [k \in DOMAIN call.bufs |-> call.bufs[k].buf]

HasNul == \E k \in DOMAIN Bufs : "nul" \in ToSet(Bufs[k])

(* Output without NUL characters reaches the serial port once, in order    *)
(* and completely, and its length is reported.                             *)
OutputFaithful ==
  pc = "returned" /\ nwritten # -1 /\ ~HasNul =>
    /\ wire = FlattenSeq([k \in DOMAIN Bufs |-> Sent(Bufs[k])])
    /\ nwritten = Len(FlattenSeq(Bufs))

(* A call that returns an error has sent nothing of the benchmark's and    *)
(* reported nothing: all buffers are checked before the first is written.  *)
FailsCleanly ==
  pc = "returned" /\ err # 0 => ToSet(wire) \subseteq {"line"} /\ nwritten = -1

(* The converted table is freed exactly once, on every way out.            *)
TableFreed == ciovecs = IF pc \in {"convert", "write", "fail"} THEN 1 ELSE 0

(* A call returns, unless it is given a buffer that begins with NUL, for   *)
(* which _write() keeps returning 0.                                       *)
Returns ==
  <>(pc = "returned") \/ \E k \in DOMAIN Bufs : Bufs[k] # <<>> /\ Bufs[k][1] = "nul"

(* The comment on _write(), l4/init.c:241: Write "len" of char from "ptr". *)
WritesLen ==
  pc = "write" /\ i < Len(call.bufs) => WriteCount(call.fd, Buf) = Len(Buf)
===============================================================================
