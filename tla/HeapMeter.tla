------------------------------- MODULE HeapMeter -------------------------------
(***************************************************************************)
(* What the heap measurement promises, without wrappers, packets or        *)
(* replay: a program allocates, resizes and releases blocks, and at the    *)
(* end one number is reported, the largest number of requested bytes that  *)
(* were live at one time.                                                  *)
(***************************************************************************)
EXTENDS Integers

CONSTANTS
  Block,   (* The places a block can be at.                                *)
  Bytes,   (* The sizes a block can have.                                  *)
  Absent   (* No block at a place; no number reported yet.                 *)

VARIABLES
  blocks,   (* Live blocks and their sizes.                                *)
  inUse,    (* The bytes of all live blocks.                               *)
  highest,  (* The largest value inUse has had.                            *)
  reported  (* The reported number, Absent before the report.              *)

meterVars == <<blocks, inUse, highest, reported>>

MeterInit ==
  /\ blocks = [b \in Block |-> Absent]
  /\ inUse = 0
  /\ highest = 0
  /\ reported = Absent

(* The bytes in use become n.                                              *)
Now(n) ==
  /\ inUse' = n
  /\ highest' = IF n > highest THEN n ELSE highest
  /\ UNCHANGED reported

Allocate(b, n) ==
  /\ blocks[b] = Absent
  /\ blocks' = [blocks EXCEPT ![b] = n]
  /\ Now(inUse + n)

Resize(b, c, n) ==
  /\ blocks[b] # Absent
  /\ b = c \/ blocks[c] = Absent
  /\ blocks' = [blocks EXCEPT ![b] = Absent, ![c] = n]
  /\ Now(inUse + n - blocks[b])

Release(b) ==
  /\ blocks[b] # Absent
  /\ blocks' = [blocks EXCEPT ![b] = Absent]
  /\ Now(inUse - blocks[b])

Report ==
  /\ reported = Absent
  /\ reported' = highest
  /\ UNCHANGED <<blocks, inUse, highest>>

MeterNext ==
  \/ \E b \in Block, n \in Bytes : Allocate(b, n)
  \/ \E b, c \in Block, n \in Bytes : Resize(b, c, n)
  \/ \E b \in Block : Release(b)
  \/ Report

MeterSpec == MeterInit /\ [][MeterNext]_meterVars
===============================================================================
