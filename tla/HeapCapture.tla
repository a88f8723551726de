------------------------------ MODULE HeapCapture ------------------------------
(***************************************************************************)
(* The replay of get_heap() (HeapReplay) on any capture at all: packets    *)
(* that were lost, repeated, reordered or corrupted on the way, and a      *)
(* capture that ends inside a packet.                                      *)
(***************************************************************************)
EXTENDS HeapReplay, Functions, SequencesExt

CONSTANTS
  MaxCapture,  (* Bound: packets in a capture.                             *)
  Sizes        (* The sizes they carry.                                    *)

ASSUME CaptureAssumption == MaxCapture \in Nat /\ Sizes \subseteq Nat

Place == Addr \cup {Null}

AnyPacket ==
       [tag : {"Malloc"}, old : {Null}, new : Place, size : Sizes]
  \cup [tag : {"Realloc"}, old : Place, new : Place, size : Sizes]
  \cup [tag : {"Free"}, old : Place, new : {Null}, size : {0}]
  \cup [tag : {"other"}, old : {Null}, new : {Null}, size : {0}]

vars == <<packets, partial, hostVars>>

Init ==
  /\ packets \in BoundedSeq(AnyPacket, MaxCapture)
  /\ partial \in BOOLEAN
  /\ HostInit

Next == HostNext /\ UNCHANGED <<packets, partial>>

Spec == Init /\ [][Next]_vars
-------------------------------------------------------------------------------
BytesOf(f) == SumFunction([a \in {x \in Addr : f[x] # None} |-> f[a]])

(* Whatever the capture, the running total is never below the bytes of the *)
(* blocks in the dict, nor the peak below the total; the total exceeds     *)
(* them only after a realloc to another address, the one case where        *)
(* get_heap() does not check that the new address is unused.               *)
TotalCoversDict ==
  /\ BytesOf(memmap) <= total
  /\ total <= peak
  /\ total > BytesOf(memmap) =>
       \E j \in 1 .. pos : /\ packets[j].tag = "Realloc"
                           /\ packets[j].new \notin {Null, packets[j].old}
===============================================================================
