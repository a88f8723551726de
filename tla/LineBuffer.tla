------------------------------ MODULE LineBuffer ------------------------------
(***************************************************************************)
(* Standard input of the firmware: _read() and get_buffered_line() of      *)
(* l4/init.c (the same file in wamr, wasm3 and wasmi), a ring buffer with  *)
(* line editing.  start_ndx is where _read() takes characters, end_ndx     *)
(* where typed ones are put.                                               *)
(*                                                                         *)
(* Received characters are cut to those the code tells apart: "cr", "bs"   *)
(* (^H and DEL), "^W", "^U", "sp" (a space) and "chr" (anything else).     *)
(* The terminal at the other end shows what is echoed; `screen` is its     *)
(* current line.                                                           *)
(***************************************************************************)
EXTENDS Integers, Sequences

CONSTANTS
  BUFLEN,    (* 127 in the code.                                           *)
  MaxTyped   (* Bound: characters typed in a session.                      *)

ASSUME LineBufferAssumption == BUFLEN \in Nat \ {0, 1} /\ MaxTyped \in Nat

Typed == {"chr", "sp", "bs", "^W", "^U", "cr"}

Index == 0 .. BUFLEN - 1

VARIABLES
  start_ndx, end_ndx,
  buf,        (* The bytes of the ring, "nul" at first.                    *)
  pc,         (* idle, get_buffered_line() (line) or the copy loop (copy). *)
  want,       (* int len, decreasing.                                      *)
  got,        (* What this _read() has copied to ptr.                      *)
  typed,      (* Characters typed so far.                                  *)
  screen,     (* History: the line on the terminal.                        *)
  entered,    (* History: characters of finished lines not yet read.       *)
  wrapped     (* History: has end_ndx gone round the end of the ring?      *)

vars == <<start_ndx, end_ndx, buf, pc, want, got, typed, screen, entered, wrapped>>

(* Mutant of IncNdx: the slot for the final '\0' is used as well.          *)
IncNdxTooFar(n) == (n + 1) % (BUFLEN + 1)

IncNdx(n) == (n + 1) % BUFLEN

(* buf_len: the operands are promoted to int and % takes the sign of the   *)
(* difference, whose absolute value is below BUFLEN.                       *)
BufLen == end_ndx - start_ndx

Init ==
  /\ start_ndx = 0 /\ end_ndx = 0
  /\ buf = [n \in 0 .. BUFLEN |-> "nul"]
  /\ pc = "idle"
  /\ want = 0 /\ got = <<>>
  /\ typed = 0
  /\ screen = <<>> /\ entered = <<>>
  /\ wrapped = FALSE

(* _read(): get_buffered_line() returns at once when the ring is not empty.*)
Read(fd, n) ==
  /\ pc = "idle"
  /\ fd <= 2
  /\ want' = n
  /\ got' = <<>>
  /\ pc' = IF start_ndx # end_ndx THEN "copy" ELSE "line"
  /\ UNCHANGED <<start_ndx, end_ndx, buf, typed, screen, entered, wrapped>>

Receive ==
  /\ pc = "line"
  /\ typed < MaxTyped
  /\ typed' = typed + 1

(* end_ndx = inc_ndx(end_ndx)                                              *)
Advance ==
  /\ end_ndx' = IncNdx(end_ndx)
  /\ wrapped' = (wrapped \/ end_ndx' = 0)

CarriageReturn ==
  /\ Receive
  /\ Advance
  /\ buf' = [buf EXCEPT ![end_ndx] = "nl", ![IncNdx(end_ndx)] = "nul"]
  /\ pc' = "copy"
  /\ entered' = entered \o Append(screen, "nl")
  /\ screen' = <<>>
  /\ UNCHANGED <<start_ndx, want, got>>

(* back_up(), n times, each wiping out one character of the terminal.      *)
BackUp(n) ==
  /\ end_ndx' = (end_ndx - n) % BUFLEN
  /\ screen' = SubSeq(screen, 1, Len(screen) - n)

Erase ==
  /\ Receive
  /\ IF BufLen = 0 THEN UNCHANGED <<end_ndx, screen>> ELSE BackUp(1)
  /\ UNCHANGED <<start_ndx, buf, pc, want, got, entered, wrapped>>

(* ^W backs up while characters are left and the one AT end_ndx, the slot  *)
(* after the last character, is no space.                                  *)
EraseWord ==
  /\ Receive
  /\ \E n \in 0 .. BUFLEN :
       /\ \A k \in 0 .. n - 1 : BufLen - k > 0 /\ buf[end_ndx - k] \notin {"sp", "nl"}
       /\ BufLen - n <= 0 \/ buf[end_ndx - n] \in {"sp", "nl"}
       /\ BackUp(n)
  /\ UNCHANGED <<start_ndx, buf, pc, want, got, entered, wrapped>>

(* Mutant of EraseLine: back to the beginning of the ring.                 *)
EraseRing ==
  /\ Receive
  /\ BackUp(IF BufLen > 0 THEN end_ndx ELSE 0)
  /\ UNCHANGED <<start_ndx, buf, pc, want, got, entered, wrapped>>

EraseLine ==
  /\ Receive
  /\ BackUp(IF BufLen > 0 THEN BufLen ELSE 0)
  /\ UNCHANGED <<start_ndx, buf, pc, want, got, entered, wrapped>>

Insert(c) ==
  /\ Receive
  /\ IF BufLen = BUFLEN - 1
     THEN UNCHANGED <<end_ndx, buf, screen, wrapped>>
     ELSE /\ buf' = [buf EXCEPT ![end_ndx] = c]
          /\ Advance
          /\ screen' = Append(screen, c)
  /\ UNCHANGED <<start_ndx, pc, want, got, entered>>

(* Mutant of Copy: the index is incremented first.                         *)
CopyFromNext ==
  /\ pc = "copy"
  /\ BufLen > 0 /\ want > 0
  /\ got' = Append(got, buf[IncNdx(start_ndx)])
  /\ start_ndx' = IncNdx(start_ndx)
  /\ want' = want - 1
  /\ UNCHANGED <<end_ndx, buf, pc, typed, screen, entered, wrapped>>

Copy ==
  /\ pc = "copy"
  /\ BufLen > 0 /\ want > 0
  /\ got' = Append(got, buf[start_ndx])
  /\ start_ndx' = IncNdx(start_ndx)
  /\ want' = want - 1
  /\ UNCHANGED <<end_ndx, buf, pc, typed, screen, entered, wrapped>>

(* return my_len                                                           *)
Return ==
  /\ pc = "copy"
  /\ BufLen <= 0 \/ want = 0
  /\ pc' = "idle"
  /\ entered' = SubSeq(entered, Len(got) + 1, Len(entered))
  /\ UNCHANGED <<start_ndx, end_ndx, buf, want, got, typed, screen, wrapped>>

Next ==
  \/ \E fd \in 0 .. 3, n \in 0 .. 2 : Read(fd, n)
  \/ CarriageReturn \/ Erase \/ EraseWord \/ EraseLine
  \/ \E c \in {"chr", "sp"} : Insert(c)
  \/ Copy \/ Return

Spec == Init /\ [][Next]_vars
-------------------------------------------------------------------------------
TypeOK ==
  /\ start_ndx \in Index /\ end_ndx \in Index
  /\ buf \in [0 .. BUFLEN -> {"nul", "chr", "sp", "nl"}]
  /\ pc \in {"idle", "line", "copy"}
  /\ want \in Nat
  /\ typed \in 0 .. MaxTyped
  /\ wrapped \in BOOLEAN

(* The characters between the indices.                                     *)
Ring == [k \in 1 .. (IF BufLen > 0 THEN BufLen ELSE 0) |-> buf[start_ndx + k - 1]]

(* Until the indices go round the end of the ring, what is in the ring is  *)
(* what the terminal shows after the lines that have been entered.         *)
RingIsWhatYouSee ==
  ~wrapped /\ pc # "copy" => Ring = entered \o screen

(* Until then _read() hands over the characters of entered lines in order, *)
(* once each, with the line editing done.                                  *)
ReadsWhatWasEntered ==
  ~wrapped /\ pc = "copy" =>
    got = SubSeq(entered, 1, Len(got)) /\ Len(got) <= Len(entered)

(* l4/init.c:266, "Implements a buffered read with line editing": a read   *)
(* of at least one character returns some of what is in the ring, which    *)
(* get_buffered_line() takes to be so when the indices differ.  (A ring    *)
(* filled to the last slot, where they are equal, is not what this is      *)
(* about.)                                                                 *)
ReadReturnsSomething ==
  [][pc = "copy" /\ pc' = "idle" => got # <<>> \/ want = 0 \/ start_ndx = end_ndx]_vars

(* l4/init.c:198, "^W erases a word": on a line that ends in a word, ^W    *)
(* takes at least the last letter of that word away.                       *)
WordErased ==
  [][EraseWord /\ screen # <<>> /\ screen[Len(screen)] = "chr" =>
       Len(screen') < Len(screen)]_vars
===============================================================================
