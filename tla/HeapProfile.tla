------------------------------ MODULE HeapProfile ------------------------------
(***************************************************************************)
(* One heap measurement, end to end: the firmware runs with the wrappers   *)
(* of AllocTrace and sends packets; when it has sent "TRACE_DONE" the host *)
(* replays them (HeapReplay) and returns the peak.  The stream between the *)
(* two is a reliable FIFO here; run-benches.py has no answer to a lost     *)
(* byte other than the exceptions HeapReplay models for arbitrary packets. *)
(***************************************************************************)
EXTENDS AllocTrace

VARIABLES status, pos, memmap, total, peak

(* The device sends whole packets, so the capture never ends inside one.   *)
Host == INSTANCE HeapReplay WITH partial <- FALSE

hostState == <<status, pos, memmap, total, peak>>

vars == <<deviceVars, hostState>>

Init == DeviceInit /\ Host!HostInit

DeviceStep == DeviceNext /\ UNCHANGED hostState

(* get_heap() reads until the TRACE_DONE line before it parses anything.   *)
HostStep ==
  /\ ~running
  /\ \/ Host!Parse
     \/ Host!ReplayMalloc
     \/ Host!ReplayRealloc
     \/ Host!ReplayFree
     \/ Host!Return
  /\ UNCHANGED deviceVars

Next == DeviceStep \/ HostStep

Spec == Init /\ [][Next]_vars
-------------------------------------------------------------------------------
(* The types.  The dict of get_heap() has no key but the addresses of      *)
(* blocks: no failed call leaves an entry for NULL.                        *)
TypeOK == DeviceTypeOK /\ Host!HostTypeOK

(* After any number of packets the dict of get_heap() holds exactly the    *)
(* blocks the device had after sending that packet, its total is the bytes *)
(* in use then and its peak the most there had been: moved, failed, NULL   *)
(* and zero-sized calls of malloc, calloc, realloc and free included.      *)
ReplayFollowsDevice ==
  LET then == seen[pos + 1] IN
  /\ memmap = then.blocks
  /\ total = then.bytes
  /\ peak = then.peak

(* The number get_heap() returns is the true peak of the bytes the program *)
(* had requested and not yet released.                                     *)
PeakExact == status = "returned" => peak = high

(* No exception ends the replay of what the wrappers sent: malloc never    *)
(* returned an address in use, and every block that is reallocated was     *)
(* announced before.                                                       *)
ReplaySucceeds == status \notin Host!Exceptions

(* The measurement implements the abstract meter: every call of a wrapper  *)
(* is one of its operations or changes nothing, and returning from         *)
(* get_heap() reports its highest value.                                   *)
Meter == INSTANCE HeapMeter WITH
  Block <- Addr, Bytes <- Size, Absent <- None,
  blocks <- heap, inUse <- used, highest <- high,
  reported <- IF status = "returned" THEN peak ELSE None

ImplementsMeter == Meter!MeterSpec
===============================================================================
