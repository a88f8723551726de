------------------------------ MODULE HeapReplay ------------------------------
(***************************************************************************)
(* The host side of the heap measurement: the second half of get_heap() in *)
(* wamr/stm32/run-benches.py, which cuts the bytes captured between the    *)
(* markers into 13-byte M3HeapTrace packets and replays them over a Python *)
(* dict to find the peak number of requested bytes.  get_heap() is the     *)
(* same text in the wasm3 and the wasmi copies of the script.              *)
(*                                                                         *)
(* The union of the packet is one record with every field: the fields that *)
(* the C code leaves unset carry Null or 0 and are never read.             *)
(***************************************************************************)
EXTENDS Integers, Sequences

CONSTANTS
  Addr,   (* The non-null addresses a packet can carry.                    *)
  Null,   (* Address 0.                                                    *)
  None    (* dict.get(ptr, None): the address is not a key of the dict.    *)

ASSUME HeapNames == Null \notin Addr /\ None \notin Int

(* The tag byte: 0, 1, 2, or any other value after corruption.             *)
Tags == {"Malloc", "Realloc", "Free", "other"}

Packet == [tag : Tags, old : Addr \cup {Null}, new : Addr \cup {Null}, size : Nat]

VARIABLES
  packets,  (* The packets of the capture, in order.                       *)
  partial,  (* Does the capture end in the middle of a packet?             *)
  status,   (* Where get_heap() is, or the exception that ended it.        *)
  pos,      (* How many packets have been consumed.                        *)
  memmap,   (* The dict: address -> size, None for a missing key.          *)
  total,    (* Bytes currently accounted for.                              *)
  peak      (* The largest total seen, and the value returned.             *)

hostVars == <<status, pos, memmap, total, peak>>

Exceptions == {"AssertionError", "KeyError", "ValueError"}

HostInit ==
  /\ status = "parsing"
  /\ pos = 0
  /\ memmap = [a \in Addr |-> None]
  /\ total = 0
  /\ peak = 0

(* from_buffer_copy(data, i) raises ValueError on a truncated last packet, *)
(* before the first packet is replayed.                                    *)
Parse ==
  /\ status = "parsing"
  /\ status' = IF partial THEN "ValueError" ELSE "replaying"
  /\ UNCHANGED <<pos, memmap, total, peak>>

Pending(tag) ==
  /\ status = "replaying"
  /\ pos < Len(packets)
  /\ packets[pos + 1].tag = tag

Cur == packets[pos + 1]

(* `continue`: the packet is consumed and the peak is not looked at.       *)
Skip ==
  /\ pos' = pos + 1
  /\ UNCHANGED <<status, memmap, total, peak>>

Fail(exception) ==
  /\ status' = exception
  /\ UNCHANGED <<pos, memmap, total, peak>>

(* Mutant of Account: the last total is returned, not the largest.         *)
AccountWithoutMax(newMap, newTotal) ==
  /\ pos' = pos + 1
  /\ memmap' = newMap
  /\ total' = newTotal
  /\ peak' = newTotal
  /\ UNCHANGED status

(* The end of the loop body: total is updated and peak = max(peak, total). *)
Account(newMap, newTotal) ==
  /\ pos' = pos + 1
  /\ memmap' = newMap
  /\ total' = newTotal
  /\ peak' = IF newTotal > peak THEN newTotal ELSE peak
  /\ UNCHANGED status

(* Mutant of ReplayMalloc: a failed malloc is not skipped.                 *)
ReplayMallocFilesNull ==
  /\ Pending("Malloc")
  /\ \/ /\ Cur.new \in DOMAIN memmap /\ memmap[Cur.new] # None
        /\ Fail("AssertionError")
     \/ /\ Cur.new \in DOMAIN memmap => memmap[Cur.new] = None
        /\ Account([a \in DOMAIN memmap \cup {Cur.new} |->
                      IF a = Cur.new THEN Cur.size ELSE memmap[a]],
                   total + Cur.size)

(* A failed malloc is skipped, and the dict never has a key NULL.          *)
ReplayMalloc ==
  /\ Pending("Malloc")
  /\ \/ Cur.new = Null /\ Skip
     \/ Cur.new # Null /\ memmap[Cur.new] # None /\ Fail("AssertionError")
     \/ /\ Cur.new # Null /\ memmap[Cur.new] = None
        /\ Account([memmap EXCEPT ![Cur.new] = Cur.size], total + Cur.size)

(* Mutant of ReplayRealloc: del(memmap[old]) is missing.                   *)
ReplayReallocKeepsOld ==
  /\ Pending("Realloc")
  /\ \/ Cur.new = Null /\ Skip
     \/ /\ Cur.new # Null
        /\ Account([memmap EXCEPT ![Cur.new] = Cur.size],
                   total + Cur.size - (IF Cur.old = Null THEN 0 ELSE memmap[Cur.old]))

(* Mutant of ReplayRealloc: a failed realloc is taken for a free.          *)
ReplayReallocFailureFrees ==
  /\ Pending("Realloc")
  /\ \/ /\ Cur.old # Null /\ memmap[Cur.old] # None
        /\ Account([a \in Addr |-> IF a = Cur.new THEN Cur.size
                                   ELSE IF a = Cur.old THEN None ELSE memmap[a]],
                   total + Cur.size - memmap[Cur.old])
     \/ Cur.new = Null /\ Cur.old = Null /\ Skip
     \/ /\ Cur.new # Null /\ Cur.old = Null
        /\ Account([memmap EXCEPT ![Cur.new] = Cur.size], total + Cur.size)

(* A failed realloc is skipped; realloc(NULL, n) counts like malloc; the   *)
(* size a moved block had is taken off, and a missing key is a KeyError.   *)
(* Unlike malloc there is no assertion that the new address is unused.     *)
ReplayRealloc ==
  /\ Pending("Realloc")
  /\ \/ Cur.new = Null /\ Skip
     \/ /\ Cur.new # Null /\ Cur.old = Null
        /\ Account([memmap EXCEPT ![Cur.new] = Cur.size], total + Cur.size)
     \/ /\ Cur.new # Null /\ Cur.old # Null /\ memmap[Cur.old] = None
        /\ Fail("KeyError")
     \/ /\ Cur.new # Null /\ Cur.old # Null /\ memmap[Cur.old] # None
        /\ Account([memmap EXCEPT ![Cur.old] = None, ![Cur.new] = Cur.size],
                   total + (Cur.size - memmap[Cur.old]))

(* Mutant of ReplayFree: del(memmap[old]) is missing.                      *)
ReplayFreeKeepsBlock ==
  /\ Pending("Free")
  /\ \/ Cur.old = Null /\ Skip
     \/ /\ Cur.old # Null /\ memmap[Cur.old] # None
        /\ Account(memmap, total - memmap[Cur.old])

(* free(NULL) and a free of an unknown block ("potential double free") are *)
(* skipped.                                                                *)
ReplayFree ==
  /\ Pending("Free")
  /\ \/ Cur.old = Null /\ Skip
     \/ Cur.old # Null /\ memmap[Cur.old] = None /\ Skip
     \/ /\ Cur.old # Null /\ memmap[Cur.old] # None
        /\ Account([memmap EXCEPT ![Cur.old] = None], total - memmap[Cur.old])

ReplayUnknown == Pending("other") /\ Fail("ValueError")

Return ==
  /\ status = "replaying"
  /\ pos = Len(packets)
  /\ status' = "returned"
  /\ UNCHANGED <<pos, memmap, total, peak>>

HostNext ==
  Parse \/ ReplayMalloc \/ ReplayRealloc \/ ReplayFree \/ ReplayUnknown \/ Return

HostTypeOK ==
  /\ status \in {"parsing", "replaying", "returned"} \cup Exceptions
  /\ pos \in 0 .. Len(packets)
  /\ memmap \in [Addr -> Nat \cup {None}]
  /\ total \in Int
  /\ peak \in Nat
===============================================================================
