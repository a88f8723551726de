------------------------------ MODULE AllocTrace ------------------------------
(***************************************************************************)
(* The device side of the heap measurement (a HEAP_TRACE build): the       *)
(* linker redirects malloc, realloc and free, and in the wasm3 build also  *)
(* calloc, to the __wrap_ functions of main.c, which call the C library    *)
(* and send one TraceData packet per call over the ITM port.               *)
(*                                                                         *)
(* The C library is external.  It returns NULL or memory that overlaps no  *)
(* live block; realloc returns NULL only when it fails, and calloc fails   *)
(* when the product of its arguments does not fit size_t.                  *)
(***************************************************************************)
EXTENDS Integers, Sequences

CONSTANTS
  Addr,        (* The non-null addresses the C library can return.         *)
  Null,        (* Address 0.                                               *)
  None,        (* The heap holds no block at an address.                   *)
  SizeLimit,   (* 2^32 on the device: one more than the largest size_t.    *)
  MaxPackets   (* Bound: packets sent between the two markers.             *)

ASSUME AllocAssumption ==
  /\ Null \notin Addr
  /\ None \notin Int
  /\ SizeLimit \in Nat \ {0}
  /\ MaxPackets \in Nat

Size == 0 .. SizeLimit - 1

Place == Addr \cup {Null}

Builds == {"wamr", "wasm3", "wasmi"}

VARIABLES
  build,    (* The interpreter the firmware was built with.                *)
  heap,     (* Live blocks: address -> requested size, None when free.     *)
  packets,  (* What has been sent between "trace ready!" and "TRACE_DONE". *)
  running,  (* Is the benchmark still running?                             *)
  used,     (* History: requested bytes of all live blocks.                *)
  high,     (* History: the largest value of used.                         *)
  seen      (* History: heap, used and high after each packet.             *)

deviceVars == <<build, heap, packets, running, used, high, seen>>

Live == {a \in Addr : heap[a] # None}

SizeAt(a) == IF a \in Live THEN heap[a] ELSE 0

NoBlock == [a \in Addr |-> None]

DeviceInit ==
  /\ build \in Builds
  /\ heap = NoBlock
  /\ packets = <<>>
  /\ running = TRUE
  /\ used = 0
  /\ high = 0
  /\ seen = <<[blocks |-> NoBlock, bytes |-> 0, peak |-> 0]>>

(* The C library has replaced the block at old, if any, by one of n bytes  *)
(* at new, if any.  Both may be Null, and they may be equal.               *)
Moved(old, new, n) ==
  [a \in Addr |-> IF a = new THEN n ELSE IF a = old THEN None ELSE heap[a]]

PacketOf(tag, old, new, n) == [tag |-> tag, old |-> old, new |-> new, size |-> n]

(* trace_buffer(&trace, sizeof(trace)).                                    *)
Send(packet) ==
  /\ Len(packets) < MaxPackets
  /\ packets' = Append(packets, packet)

(* The heap has changed to newHeap, and the histories with it.             *)
SetHeap(newHeap, newUsed) ==
  /\ heap' = newHeap
  /\ used' = newUsed
  /\ high' = IF newUsed > high THEN newUsed ELSE high
  /\ seen' = Append(seen, [blocks |-> heap', bytes |-> used', peak |-> high'])
  /\ UNCHANGED <<build, running>>

(* One call of malloc or calloc that asks for n bytes; it can succeed only *)
(* where the request is possible, and may fail at any time.                *)
Allocate(n, possible) ==
  \E p \in (IF possible THEN Addr \ Live ELSE {}) \cup {Null} :
    /\ SetHeap(Moved(Null, p, n), IF p = Null THEN used ELSE used + n)
    /\ Send(PacketOf("Malloc", Null, p, n))

(* __wrap_malloc                                                           *)
Malloc(n) == running /\ Allocate(n, TRUE)

(* __wrap_calloc: the packet has the tag of malloc and carries             *)
(* __size * __num in size_t arithmetic, also when the call has failed.     *)
Calloc(num, size) ==
  /\ running
  /\ Allocate((size * num) % SizeLimit, num * size < SizeLimit)

(* __wrap_realloc: on failure the old block stays; otherwise it is gone or *)
(* resized in place.                                                       *)
Realloc(old, n) ==
  /\ running
  /\ old \in Live \cup {Null}
  /\ \/ /\ SetHeap(heap, used)
        /\ Send(PacketOf("Realloc", old, Null, n))
     \/ \E p \in (Addr \ Live) \cup ({old} \ {Null}) :
          /\ SetHeap(Moved(old, p, n), used + n - SizeAt(old))
          /\ Send(PacketOf("Realloc", old, p, n))

(* __wrap_free: the packet leaves before the block is given back; nothing  *)
(* else runs between the two.                                              *)
Free(old) ==
  /\ running
  /\ old \in Live \cup {Null}
  /\ SetHeap(Moved(old, Null, 0), used - SizeAt(old))
  /\ Send(PacketOf("Free", old, Null, 0))

(* run_active_bench() has returned and "TRACE_DONE" is sent.               *)
EndOfTrace ==
  /\ running
  /\ running' = FALSE
  /\ UNCHANGED <<build, heap, packets, used, high, seen>>
-------------------------------------------------------------------------------
(* How each interpreter reaches the wrappers.  WAMR goes through its       *)
(* platform layer, platform_api_vmcore.c: os_malloc, os_realloc, os_free   *)
(* and os_munmap pass their arguments on.                                  *)

(* os_mmap: refused without a call to malloc at UINT32_MAX.                *)
OsMmap(n) == n < SizeLimit - 1 /\ Malloc(n)

(* os_mremap: without an old address or an old size a fresh mapping is     *)
(* made, and an old block is left as it is.                                *)
OsMremap(old, oldSize, n) ==
  IF old = Null \/ oldSize = 0 THEN OsMmap(n) ELSE Realloc(old, n)

WamrNext ==
  \/ \E n \in Size : Malloc(n) \/ OsMmap(n)
  \/ \E old \in Place, n \in Size : Realloc(old, n)
  \/ \E old \in Place, oldSize, n \in Size : OsMremap(old, oldSize, n)
  \/ \E old \in Place : Free(old)

Wasm3Next ==
  \/ \E n \in Size : Malloc(n)
  \/ \E num, n \in Size : Calloc(num, n)
  \/ \E old \in Place, n \in Size : Realloc(old, n)
  \/ \E old \in Place : Free(old)

(* wasmi allocates through CAllocator (lib.rs) only.  Rust never asks it   *)
(* for zero bytes and never passes NULL; its mutex is free at every call   *)
(* because one thread runs and the section does not re-enter it.           *)
WasmiNext ==
  \/ \E n \in Size \ {0} : Malloc(n)
  \/ \E old \in Addr, n \in Size \ {0} : Realloc(old, n)
  \/ \E old \in Addr : Free(old)

DeviceNext ==
  \/ build = "wamr" /\ WamrNext
  \/ build = "wasm3" /\ Wasm3Next
  \/ build = "wasmi" /\ WasmiNext
  \/ EndOfTrace

Snapshot == [blocks : [Addr -> Size \cup {None}], bytes : Int, peak : Nat]

DeviceTypeOK ==
  /\ build \in Builds
  /\ heap \in [Addr -> Size \cup {None}]
  /\ packets \in Seq([tag : {"Malloc", "Realloc", "Free"}, old : Place,
                      new : Place, size : Size])
  /\ running \in BOOLEAN
  /\ used \in Int
  /\ high \in Nat
  /\ seen \in Seq(Snapshot)
===============================================================================
