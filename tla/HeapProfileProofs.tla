--------------------------- MODULE HeapProfileProofs ---------------------------
(***************************************************************************)
(* Proofs about HeapProfile, for every set of addresses, every size_t and  *)
(* every number of packets.  The inductive invariant relates each packet   *)
(* to the snapshots of the heap before and after it (Tells), and the state *)
(* of the replay to the snapshot after the packets consumed so far.        *)
(***************************************************************************)
EXTENDS HeapProfile, TLAPS

BlockMap == [Addr -> Size \cup {None}]

DevicePacket == [tag : {"Malloc", "Realloc", "Free"}, old : Place, new : Place, size : Size]

SnapshotOf(h, b, p) == [blocks |-> h, bytes |-> b, peak |-> p]

(* Packet k says how snapshot t came about from snapshot s.                *)
TellsMalloc(k, s, t) ==
  /\ k.tag = "Malloc"
  /\ \/ k.new = Null /\ t = s
     \/ /\ k.new \in Addr
        /\ s.blocks[k.new] = None
        /\ t.blocks = [s.blocks EXCEPT ![k.new] = k.size]
        /\ t.bytes = s.bytes + k.size

TellsRealloc(k, s, t) ==
  /\ k.tag = "Realloc"
  /\ \/ k.new = Null /\ t = s
     \/ /\ k.new \in Addr /\ k.old = Null
        /\ t.blocks = [s.blocks EXCEPT ![k.new] = k.size]
        /\ t.bytes = s.bytes + k.size
     \/ /\ k.new \in Addr /\ k.old \in Addr
        /\ s.blocks[k.old] # None
        /\ t.blocks = [s.blocks EXCEPT ![k.old] = None, ![k.new] = k.size]
        /\ t.bytes = s.bytes + k.size - s.blocks[k.old]

TellsFree(k, s, t) ==
  /\ k.tag = "Free"
  /\ \/ k.old = Null /\ t = s
     \/ /\ k.old \in Addr
        /\ s.blocks[k.old] # None
        /\ t.blocks = [s.blocks EXCEPT ![k.old] = None]
        /\ t.bytes = s.bytes - s.blocks[k.old]

Tells(k, s, t) ==
  /\ TellsMalloc(k, s, t) \/ TellsRealloc(k, s, t) \/ TellsFree(k, s, t)
  /\ t.peak = IF t.bytes > s.peak THEN t.bytes ELSE s.peak

(* The history of the device.                                              *)
HistoryInv ==
  /\ Len(seen) = Len(packets) + 1
  /\ seen[Len(seen)] = SnapshotOf(heap, used, high)
  /\ used <= high
  /\ \A i \in 1 .. Len(packets) : Tells(packets[i], seen[i], seen[i + 1])

(* The replay starts after the device has stopped, and follows it.         *)
ReplayInv ==
  /\ status # "parsing" => ~running
  /\ status = "returned" => pos = Len(packets)
  /\ ReplaySucceeds
  /\ ReplayFollowsDevice

IInv == TypeOK /\ HistoryInv /\ ReplayInv
-------------------------------------------------------------------------------
(* Facts about the device.                                                 *)

(* Every step of the device is a call of one of the wrappers or the end of *)
(* the trace, whichever interpreter was built.                             *)
LEMMA DeviceCalls ==
  ASSUME DeviceNext
  PROVE  \/ \E n \in Size : Malloc(n)
         \/ \E num, n \in Size : Calloc(num, n)
         \/ \E old \in Place, n \in Size : Realloc(old, n)
         \/ \E old \in Place : Free(old)
         \/ EndOfTrace
<1>1. CASE WamrNext BY <1>1 DEF WamrNext, OsMmap, OsMremap
<1>2. CASE Wasm3Next BY <1>2 DEF Wasm3Next
<1>3. CASE WasmiNext BY <1>3 DEF WasmiNext, Place
<1> QED BY <1>1, <1>2, <1>3 DEF DeviceNext

(* The product of calloc stays a size_t.                                   *)
LEMMA ModuloInRange ==
  ASSUME NEW num \in Size, NEW size \in Size
  PROVE  /\ (size * num) % SizeLimit \in Size
         /\ num * size < SizeLimit => (size * num) % SizeLimit = num * size
<1>1. size * num \in Nat /\ num * size \in Nat /\ size * num = num * size
  BY AllocAssumption, SMT DEF Size
<1> DEFINE product == size * num
<1>2. product \in Nat BY <1>1
<1> HIDE DEF product
<1>3. product % SizeLimit \in 0 .. SizeLimit - 1 /\ (product < SizeLimit => product % SizeLimit = product)
  BY <1>2, AllocAssumption, SMT
<1> QED BY <1>1, <1>3 DEF product, Size

(* A wrapper that changes the heap to newHeap and sends a packet that      *)
(* tells of this change extends the history by one consistent step.        *)
LEMMA CallPreservesIInv ==
  ASSUME IInv, UNCHANGED hostState, running,
         NEW newHeap \in BlockMap, NEW newUsed \in Int, NEW k \in DevicePacket,
         SetHeap(newHeap, newUsed), Send(k),
         Tells(k, SnapshotOf(heap, used, high),
                  SnapshotOf(newHeap, newUsed, IF newUsed > high THEN newUsed ELSE high))
  PROVE  IInv'
<1> DEFINE new == SnapshotOf(newHeap, newUsed, IF newUsed > high THEN newUsed ELSE high)
<1>1. /\ seen' = Append(seen, new) /\ packets' = Append(packets, k)
      /\ heap' = newHeap /\ used' = newUsed
      /\ high' = IF newUsed > high THEN newUsed ELSE high
      /\ build' = build /\ running' = running
  BY DEF SetHeap, Send, SnapshotOf
<1>2. /\ seen \in Seq(Snapshot) /\ packets \in Seq(DevicePacket)
      /\ used \in Int /\ high \in Nat
  BY DEF IInv, TypeOK, DeviceTypeOK, DevicePacket
<1>3. new \in Snapshot
  BY <1>2 DEF SnapshotOf, Snapshot, BlockMap
<1> HIDE DEF new
<1>4. seen' \in Seq(Snapshot) /\ packets' \in Seq(DevicePacket)
  BY <1>1, <1>2, <1>3
<1>5. /\ Len(seen') = Len(seen) + 1 /\ seen'[Len(seen) + 1] = new
      /\ \A i \in 1 .. Len(seen) : seen'[i] = seen[i]
  BY <1>1, <1>2, <1>3
<1>6. /\ Len(packets') = Len(packets) + 1 /\ packets'[Len(packets) + 1] = k
      /\ \A i \in 1 .. Len(packets) : packets'[i] = packets[i]
  BY <1>1, <1>2
<1>7. /\ Len(seen) = Len(packets) + 1
      /\ Len(seen) \in Nat /\ Len(packets) \in Nat
      /\ seen[Len(seen)] = SnapshotOf(heap, used, high)
  BY <1>2 DEF IInv, HistoryInv
<1>8. pos \in 0 .. Len(packets) /\ status = "parsing"
  BY DEF IInv, TypeOK, Host!HostTypeOK, ReplayInv
<1>9. TypeOK'
  BY <1>1, <1>2, <1>4, <1>6, <1>7
     DEF IInv, TypeOK, DeviceTypeOK, Host!HostTypeOK, Host!Exceptions, DevicePacket, BlockMap, hostState
<1>10. HistoryInv'
  <2>1. (Len(seen) = Len(packets) + 1)' BY <1>5, <1>6, <1>7
  <2>2. (seen[Len(seen)] = SnapshotOf(heap, used, high))'
    BY <1>1, <1>5 DEF SnapshotOf, new
  <2>3. (used <= high)' BY <1>1, <1>2
  <2>4. ASSUME NEW i \in 1 .. Len(packets')
        PROVE  Tells(packets'[i], seen'[i], seen'[i + 1])
    <3>1. CASE i \in 1 .. Len(packets)
      <4>1. Tells(packets[i], seen[i], seen[i + 1]) BY <3>1 DEF IInv, HistoryInv
      <4> QED BY <4>1, <3>1, <1>5, <1>6, <1>7
    <3>2. CASE i = Len(packets) + 1
      <4>1. packets'[i] = k /\ seen'[i] = SnapshotOf(heap, used, high) /\ seen'[i + 1] = new
        BY <3>2, <1>5, <1>6, <1>7
      <4> QED BY <4>1 DEF new
    <3> QED BY <3>1, <3>2, <1>6, <1>7
  <2> QED BY <2>1, <2>2, <2>3, <2>4 DEF HistoryInv
<1>11. ReplayInv'
  <2>1. seen'[pos + 1] = seen[pos + 1] BY <1>5, <1>7, <1>8
  <2> QED BY <2>1, <1>1, <1>8
          DEF IInv, ReplayInv, ReplaySucceeds, ReplayFollowsDevice, Host!Exceptions, hostState
<1> QED BY <1>9, <1>10, <1>11 DEF IInv

LEMMA MallocPreserves ==
  ASSUME IInv, UNCHANGED hostState, running,
         NEW n \in Size, NEW ok \in BOOLEAN, Allocate(n, ok)
  PROVE  IInv'
<1>1. PICK p \in (Addr \ Live) \cup {Null} :
        /\ SetHeap(Moved(Null, p, n), IF p = Null THEN used ELSE used + n)
        /\ Send(PacketOf("Malloc", Null, p, n))
  BY DEF Allocate
<1> DEFINE newUsed == IF p = Null THEN used ELSE used + n
           newHeap == Moved(Null, p, n)
           newHigh == IF newUsed > high THEN newUsed ELSE high
           k == PacketOf("Malloc", Null, p, n)
<1>2. heap \in BlockMap /\ used \in Int /\ high \in Nat /\ used <= high
  BY DEF IInv, TypeOK, DeviceTypeOK, HistoryInv, BlockMap
<1>3. newHeap \in BlockMap /\ newUsed \in Int /\ k \in DevicePacket
  BY <1>2 DEF Moved, BlockMap, PacketOf, DevicePacket, Place, Size
<1>4. TellsMalloc(k, SnapshotOf(heap, used, high), SnapshotOf(newHeap, newUsed, newHigh))
  <2>1. CASE p = Null
    <3>1. newHeap = heap BY <2>1, <1>2, AllocAssumption DEF Moved, BlockMap
    <3> QED BY <3>1, <2>1, <1>2 DEF TellsMalloc, SnapshotOf, PacketOf
  <2>2. CASE p \in Addr \ Live
    <3>1. newHeap = [heap EXCEPT ![p] = n]
      BY <2>2, <1>2, AllocAssumption DEF Moved, BlockMap
    <3>2. heap[p] = None /\ p # Null BY <2>2, AllocAssumption DEF Live
    <3> QED BY <3>1, <3>2, <2>2, <1>2 DEF TellsMalloc, SnapshotOf, PacketOf
  <2> QED BY <2>1, <2>2
<1>5. Tells(k, SnapshotOf(heap, used, high), SnapshotOf(newHeap, newUsed, newHigh))
  BY <1>4 DEF Tells, SnapshotOf
<1> HIDE DEF newUsed, newHeap, k
<1>6. SetHeap(newHeap, newUsed) /\ Send(k) BY <1>1 DEF newUsed, newHeap, k
<1> QED BY <1>3, <1>5, <1>6, CallPreservesIInv

LEMMA ReallocPreserves ==
  ASSUME IInv, UNCHANGED hostState, NEW old \in Place, NEW n \in Size, Realloc(old, n)
  PROVE  IInv'
<1>1. running /\ old \in Live \cup {Null} BY DEF Realloc
<1>2. heap \in BlockMap /\ used \in Int /\ high \in Nat /\ used <= high
  BY DEF IInv, TypeOK, DeviceTypeOK, HistoryInv, BlockMap
<1>3. CASE SetHeap(heap, used) /\ Send(PacketOf("Realloc", old, Null, n))
  <2> DEFINE k == PacketOf("Realloc", old, Null, n)
             newHigh == IF used > high THEN used ELSE high
  <2>1. k \in DevicePacket BY DEF PacketOf, DevicePacket, Place
  <2>2. Tells(k, SnapshotOf(heap, used, high), SnapshotOf(heap, used, newHigh))
    BY <1>2 DEF Tells, TellsRealloc, SnapshotOf, PacketOf
  <2> HIDE DEF k
  <2>3. Send(k) BY <1>3 DEF k
  <2> QED BY <1>1, <1>2, <1>3, <2>1, <2>2, <2>3, CallPreservesIInv
<1>4. ASSUME NEW p \in (Addr \ Live) \cup ({old} \ {Null}),
             SetHeap(Moved(old, p, n), used + n - SizeAt(old)),
             Send(PacketOf("Realloc", old, p, n))
      PROVE  IInv'
  <2> DEFINE newHeap == Moved(old, p, n)
             newUsed == used + n - SizeAt(old)
             newHigh == IF newUsed > high THEN newUsed ELSE high
             k == PacketOf("Realloc", old, p, n)
  <2>1. p \in Addr /\ p # Null /\ Live \subseteq Addr
    BY <1>1, AllocAssumption DEF Live
  <2>2. SizeAt(old) \in Int
    BY <1>2, AllocAssumption DEF SizeAt, Live, BlockMap, Size
  <2>3. newHeap \in BlockMap /\ newUsed \in Int /\ k \in DevicePacket
    BY <1>2, <2>1, <2>2 DEF Moved, BlockMap, PacketOf, DevicePacket, Place, Size
  <2>4. TellsRealloc(k, SnapshotOf(heap, used, high), SnapshotOf(newHeap, newUsed, newHigh))
    <3>1. CASE old = Null
      <4>1. old \notin Live BY <3>1, <2>1, AllocAssumption
      <4>2. newHeap = [heap EXCEPT ![p] = n]
        BY <3>1, <1>2, <2>1, AllocAssumption DEF Moved, BlockMap
      <4>3. newUsed = used + n BY <4>1, <1>2 DEF SizeAt, Size
      <4> QED BY <4>2, <4>3, <3>1, <2>1 DEF TellsRealloc, SnapshotOf, PacketOf
    <3>2. CASE old \in Live
      <4>1. newHeap = [heap EXCEPT ![old] = None, ![p] = n]
        BY <3>2, <1>2, <2>1 DEF Moved, BlockMap
      <4>2. newUsed = used + n - heap[old] BY <3>2 DEF SizeAt
      <4>3. heap[old] # None /\ old \in Addr BY <3>2 DEF Live
      <4> QED BY <4>1, <4>2, <4>3, <2>1 DEF TellsRealloc, SnapshotOf, PacketOf
    <3> QED BY <3>1, <3>2, <1>1
  <2>5. Tells(k, SnapshotOf(heap, used, high), SnapshotOf(newHeap, newUsed, newHigh))
    BY <2>4 DEF Tells, SnapshotOf
  <2> HIDE DEF newUsed, newHeap, k
  <2>6. SetHeap(newHeap, newUsed) /\ Send(k) BY <1>4 DEF newUsed, newHeap, k
  <2> QED BY <1>1, <2>3, <2>5, <2>6, CallPreservesIInv
<1> QED BY <1>3, <1>4 DEF Realloc

LEMMA FreePreserves ==
  ASSUME IInv, UNCHANGED hostState, NEW old \in Place, Free(old)
  PROVE  IInv'
<1> DEFINE newHeap == Moved(old, Null, 0)
           newUsed == used - SizeAt(old)
           newHigh == IF newUsed > high THEN newUsed ELSE high
           k == PacketOf("Free", old, Null, 0)
<1>1. running /\ old \in Live \cup {Null} /\ Live \subseteq Addr BY DEF Free, Live
<1>2. heap \in BlockMap /\ used \in Int /\ high \in Nat /\ used <= high
  BY DEF IInv, TypeOK, DeviceTypeOK, HistoryInv, BlockMap
<1>3. SizeAt(old) \in Int
  BY <1>2, AllocAssumption DEF SizeAt, Live, BlockMap, Size
<1>4. newHeap \in BlockMap /\ newUsed \in Int /\ k \in DevicePacket
  BY <1>2, <1>3, AllocAssumption DEF Moved, BlockMap, PacketOf, DevicePacket, Place, Size
<1>5. TellsFree(k, SnapshotOf(heap, used, high), SnapshotOf(newHeap, newUsed, newHigh))
  <2>1. CASE old = Null
    <3>1. old \notin Live BY <2>1, <1>1, AllocAssumption
    <3>2. newHeap = heap BY <2>1, <1>2, AllocAssumption DEF Moved, BlockMap
    <3>3. newUsed = used BY <3>1, <1>2 DEF SizeAt
    <3> QED BY <3>2, <3>3, <2>1, <1>2 DEF TellsFree, SnapshotOf, PacketOf
  <2>2. CASE old \in Live
    <3>1. newHeap = [heap EXCEPT ![old] = None]
      BY <2>2, <1>1, <1>2, AllocAssumption DEF Moved, BlockMap
    <3>2. newUsed = used - heap[old] BY <2>2 DEF SizeAt
    <3>3. heap[old] # None /\ old \in Addr BY <2>2 DEF Live
    <3> QED BY <3>1, <3>2, <3>3 DEF TellsFree, SnapshotOf, PacketOf
  <2> QED BY <2>1, <2>2, <1>1
<1>6. Tells(k, SnapshotOf(heap, used, high), SnapshotOf(newHeap, newUsed, newHigh))
  BY <1>5 DEF Tells, SnapshotOf
<1> HIDE DEF newUsed, newHeap, k
<1>7. SetHeap(newHeap, newUsed) /\ Send(k) BY DEF Free, newUsed, newHeap, k
<1> QED BY <1>1, <1>4, <1>6, <1>7, CallPreservesIInv

LEMMA DevicePreservesIInv ==
  ASSUME IInv, DeviceStep
  PROVE  IInv'
<1>1. DeviceNext /\ UNCHANGED hostState BY DEF DeviceStep
<1>2. ASSUME NEW n \in Size, Malloc(n) PROVE IInv'
  BY <1>1, <1>2, MallocPreserves DEF Malloc
<1>3. ASSUME NEW num \in Size, NEW n \in Size, Calloc(num, n) PROVE IInv'
  <2>1. (n * num) % SizeLimit \in Size BY ModuloInRange
  <2>2. (num * n < SizeLimit) \in BOOLEAN OBVIOUS
  <2> QED BY <1>1, <1>3, <2>1, <2>2, MallocPreserves DEF Calloc
<1>4. ASSUME NEW old \in Place, NEW n \in Size, Realloc(old, n) PROVE IInv'
  BY <1>1, <1>4, ReallocPreserves
<1>5. ASSUME NEW old \in Place, Free(old) PROVE IInv'
  BY <1>1, <1>5, FreePreserves
<1>6. CASE EndOfTrace
  BY <1>1, <1>6
     DEF EndOfTrace, hostState, IInv, TypeOK, DeviceTypeOK, Host!HostTypeOK, Live, HistoryInv,
         ReplayInv, ReplaySucceeds, ReplayFollowsDevice, Host!Exceptions
<1> QED BY <1>1, <1>2, <1>3, <1>4, <1>5, <1>6, DeviceCalls
-------------------------------------------------------------------------------
(* Facts about the replay.                                                 *)

(* What the replay knows when it looks at its next packet.                 *)
LEMMA NextPacket ==
  ASSUME IInv, status = "replaying", pos < Len(packets)
  PROVE  /\ pos \in Nat /\ pos + 1 \in 1 .. Len(packets)
         /\ Tells(packets[pos + 1], seen[pos + 1], seen[pos + 2])
         /\ packets[pos + 1] \in DevicePacket
         /\ seen[pos + 1] \in Snapshot /\ seen[pos + 2] \in Snapshot
         /\ seen[pos + 1] = SnapshotOf(memmap, total, peak)
<1>1. /\ seen \in Seq(Snapshot) /\ packets \in Seq(DevicePacket)
      /\ pos \in 0 .. Len(packets) /\ Len(seen) = Len(packets) + 1
      /\ \A i \in 1 .. Len(packets) : Tells(packets[i], seen[i], seen[i + 1])
  BY DEF IInv, TypeOK, DeviceTypeOK, Host!HostTypeOK, HistoryInv, DevicePacket
<1>2. pos \in Nat /\ pos + 1 \in 1 .. Len(packets) /\ (pos + 1) + 1 = pos + 2 BY <1>1
<1>3. Tells(packets[pos + 1], seen[pos + 1], seen[pos + 2]) BY <1>1, <1>2
<1>4. seen[pos + 1] \in Snapshot /\ seen[pos + 2] \in Snapshot /\ packets[pos + 1] \in DevicePacket
  BY <1>1, <1>2
<1>5. seen[pos + 1] = SnapshotOf(memmap, total, peak)
  BY <1>4 DEF IInv, ReplayInv, ReplayFollowsDevice, Snapshot, SnapshotOf
<1> QED BY <1>2, <1>3, <1>4, <1>5

(* Consuming one packet so that the dict, the total and the peak become    *)
(* those of the next snapshot preserves the invariant.                     *)
LEMMA AdvancePreservesIInv ==
  ASSUME IInv, ~running, status = "replaying", pos < Len(packets),
         UNCHANGED deviceVars, status' = status, pos' = pos + 1,
         memmap' = seen[pos + 2].blocks, total' = seen[pos + 2].bytes,
         peak' = seen[pos + 2].peak
  PROVE  IInv'
<1>1. pos \in Nat /\ pos + 1 \in 1 .. Len(packets) /\ seen[pos + 2] \in Snapshot
  BY NextPacket
<1>2. DeviceTypeOK' /\ HistoryInv'
  BY DEF IInv, TypeOK, deviceVars, DeviceTypeOK, HistoryInv, Live
<1>3. memmap' \in [Addr -> Nat \cup {None}] /\ total' \in Int /\ peak' \in Nat
  BY <1>1 DEF Snapshot, Size
<1>4. (pos \in 0 .. Len(packets))' /\ pos' + 1 = pos + 2
  BY <1>1 DEF deviceVars, IInv, TypeOK, DeviceTypeOK
<1>5. Host!HostTypeOK'
  BY <1>3, <1>4 DEF IInv, TypeOK, Host!HostTypeOK, Host!Exceptions
<1>6. ReplayInv'
  BY <1>4 DEF deviceVars, ReplayInv, ReplaySucceeds, ReplayFollowsDevice, Host!Exceptions
<1> QED BY <1>2, <1>5, <1>6 DEF IInv, TypeOK

LEMMA HostPreservesIInv ==
  ASSUME IInv, HostStep
  PROVE  IInv'
<1> DEFINE s == seen[pos + 1]
           t == seen[pos + 2]
           k == packets[pos + 1]
<1>1. ~running /\ UNCHANGED deviceVars BY DEF HostStep
<1>2. CASE Host!Parse
  <2>1. status = "parsing" /\ status' = "replaying" /\ UNCHANGED <<pos, memmap, total, peak>>
    BY <1>2 DEF Host!Parse
  <2> QED BY <1>1, <2>1
          DEF IInv, TypeOK, DeviceTypeOK, Host!HostTypeOK, Host!Exceptions, HistoryInv, ReplayInv,
              ReplaySucceeds, ReplayFollowsDevice, deviceVars, Live
<1>3. CASE Host!ReplayMalloc
  <2>1. status = "replaying" /\ pos < Len(packets) /\ k.tag = "Malloc"
    BY <1>3 DEF Host!ReplayMalloc, Host!Pending
  <2>2. TellsMalloc(k, s, t) /\ t.peak = (IF t.bytes > s.peak THEN t.bytes ELSE s.peak)
    BY <2>1, NextPacket DEF Tells, TellsRealloc, TellsFree
  <2>3. s \in Snapshot /\ s = SnapshotOf(memmap, total, peak) BY <2>1, NextPacket
  <2>4. CASE k.new = Null
    <3>1. t = s BY <2>2, <2>4, AllocAssumption DEF TellsMalloc
    <3>2. status' = status /\ pos' = pos + 1 /\ UNCHANGED <<memmap, total, peak>>
      BY <1>3, <2>4 DEF Host!ReplayMalloc, Host!Skip, Host!Cur
    <3> QED BY <3>1, <3>2, <2>1, <2>3, <1>1, AdvancePreservesIInv DEF SnapshotOf
  <2>5. CASE k.new \in Addr
    <3>1. memmap[k.new] = None /\ k.new # Null
      BY <2>2, <2>3, <2>5, AllocAssumption DEF TellsMalloc, SnapshotOf
    <3>2. Host!Account([memmap EXCEPT ![k.new] = k.size], total + k.size)
      BY <1>3, <3>1 DEF Host!ReplayMalloc, Host!Cur
    <3>3. t.blocks = [memmap EXCEPT ![k.new] = k.size] /\ t.bytes = total + k.size
      BY <2>2, <2>3, <3>1 DEF TellsMalloc, SnapshotOf
    <3>4. t.peak = IF total + k.size > peak THEN total + k.size ELSE peak
      BY <2>2, <2>3, <3>3 DEF SnapshotOf
    <3> QED BY <3>2, <3>3, <3>4, <2>1, <1>1, AdvancePreservesIInv DEF Host!Account
  <2> QED BY <2>4, <2>5, <2>2 DEF TellsMalloc
<1>4. CASE Host!ReplayRealloc
  <2>1. status = "replaying" /\ pos < Len(packets) /\ k.tag = "Realloc"
    BY <1>4 DEF Host!ReplayRealloc, Host!Pending
  <2>2. TellsRealloc(k, s, t) /\ t.peak = (IF t.bytes > s.peak THEN t.bytes ELSE s.peak)
    BY <2>1, NextPacket DEF Tells, TellsMalloc, TellsFree
  <2>3. s \in Snapshot /\ s = SnapshotOf(memmap, total, peak) BY <2>1, NextPacket
  <2>4. CASE k.new = Null
    <3>1. t = s BY <2>2, <2>4, AllocAssumption DEF TellsRealloc
    <3>2. status' = status /\ pos' = pos + 1 /\ UNCHANGED <<memmap, total, peak>>
      BY <1>4, <2>4 DEF Host!ReplayRealloc, Host!Skip, Host!Cur
    <3> QED BY <3>1, <3>2, <2>1, <2>3, <1>1, AdvancePreservesIInv DEF SnapshotOf
  <2>5. CASE k.new \in Addr /\ k.old = Null
    <3>1. k.new # Null /\ k.old \notin Addr BY <2>5, AllocAssumption
    <3>2. Host!Account([memmap EXCEPT ![k.new] = k.size], total + k.size)
      BY <1>4, <3>1, <2>5 DEF Host!ReplayRealloc, Host!Cur
    <3>3. t.blocks = [memmap EXCEPT ![k.new] = k.size] /\ t.bytes = total + k.size
      BY <2>2, <2>3, <3>1 DEF TellsRealloc, SnapshotOf
    <3>4. t.peak = IF total + k.size > peak THEN total + k.size ELSE peak
      BY <2>2, <2>3, <3>3 DEF SnapshotOf
    <3> QED BY <3>2, <3>3, <3>4, <2>1, <1>1, AdvancePreservesIInv DEF Host!Account
  <2>6. CASE k.new \in Addr /\ k.old \in Addr
    <3> DEFINE newTotal == total + (k.size - memmap[k.old])
    <3>1. k.new # Null /\ k.old # Null BY <2>6, AllocAssumption
    <3>2. memmap[k.old] # None BY <2>2, <2>3, <3>1 DEF TellsRealloc, SnapshotOf
    <3>3. Host!Account([memmap EXCEPT ![k.old] = None, ![k.new] = k.size], newTotal)
      BY <1>4, <3>1, <3>2 DEF Host!ReplayRealloc, Host!Cur
    <3>4. total \in Int /\ memmap[k.old] \in Int /\ k.size \in Int
      BY <2>1, <2>3, <2>6, <3>2, NextPacket DEF Snapshot, SnapshotOf, Size, DevicePacket
    <3>5. t.blocks = [memmap EXCEPT ![k.old] = None, ![k.new] = k.size]
      BY <2>2, <2>3, <3>1 DEF TellsRealloc, SnapshotOf
    <3>6. t.bytes = newTotal
      BY <2>2, <2>3, <3>1, <3>4 DEF TellsRealloc, SnapshotOf
    <3>7. t.peak = IF newTotal > peak THEN newTotal ELSE peak
      BY <2>2, <2>3, <3>6 DEF SnapshotOf
    <3> QED BY <3>3, <3>5, <3>6, <3>7, <2>1, <1>1, AdvancePreservesIInv DEF Host!Account
  <2> QED BY <2>4, <2>5, <2>6, <2>2 DEF TellsRealloc
<1>5. CASE Host!ReplayFree
  <2>1. status = "replaying" /\ pos < Len(packets) /\ k.tag = "Free"
    BY <1>5 DEF Host!ReplayFree, Host!Pending
  <2>2. TellsFree(k, s, t) /\ t.peak = (IF t.bytes > s.peak THEN t.bytes ELSE s.peak)
    BY <2>1, NextPacket DEF Tells, TellsMalloc, TellsRealloc
  <2>3. s \in Snapshot /\ s = SnapshotOf(memmap, total, peak) BY <2>1, NextPacket
  <2>4. CASE k.old = Null
    <3>1. t = s BY <2>2, <2>4, AllocAssumption DEF TellsFree
    <3>2. status' = status /\ pos' = pos + 1 /\ UNCHANGED <<memmap, total, peak>>
      BY <1>5, <2>4 DEF Host!ReplayFree, Host!Skip, Host!Cur
    <3> QED BY <3>1, <3>2, <2>1, <2>3, <1>1, AdvancePreservesIInv DEF SnapshotOf
  <2>5. CASE k.old \in Addr
    <3>1. k.old # Null BY <2>5, AllocAssumption
    <3>2. memmap[k.old] # None BY <2>2, <2>3, <3>1 DEF TellsFree, SnapshotOf
    <3>3. Host!Account([memmap EXCEPT ![k.old] = None], total - memmap[k.old])
      BY <1>5, <3>1, <3>2 DEF Host!ReplayFree, Host!Cur
    <3>4. t.blocks = [memmap EXCEPT ![k.old] = None] /\ t.bytes = total - memmap[k.old]
      BY <2>2, <2>3, <3>1 DEF TellsFree, SnapshotOf
    <3>5. t.peak = IF total - memmap[k.old] > peak THEN total - memmap[k.old] ELSE peak
      BY <2>2, <2>3, <3>4 DEF SnapshotOf
    <3> QED BY <3>3, <3>4, <3>5, <2>1, <1>1, AdvancePreservesIInv DEF Host!Account
  <2> QED BY <2>4, <2>5, <2>2 DEF TellsFree
<1>6. CASE Host!Return
  <2>1. /\ status = "replaying" /\ pos = Len(packets) /\ status' = "returned"
        /\ UNCHANGED <<pos, memmap, total, peak>>
    BY <1>6 DEF Host!Return
  <2> QED BY <1>1, <2>1
          DEF IInv, TypeOK, DeviceTypeOK, Host!HostTypeOK, Host!Exceptions, HistoryInv, ReplayInv,
              ReplaySucceeds, ReplayFollowsDevice, deviceVars, Live
<1> QED BY <1>2, <1>3, <1>4, <1>5, <1>6 DEF HostStep
-------------------------------------------------------------------------------
LEMMA InitEstablishesIInv == Init => IInv
<1> SUFFICES ASSUME Init PROVE IInv OBVIOUS
<1> USE DEF Init, DeviceInit, Host!HostInit, NoBlock
<1>1. seen[1] = SnapshotOf([a \in Addr |-> None], 0, 0) /\ Len(seen) = 1 /\ Len(packets) = 0
  BY DEF SnapshotOf
<1>2. seen[1] \in Snapshot BY <1>1 DEF SnapshotOf, Snapshot
<1>3. TypeOK BY <1>1, <1>2 DEF TypeOK, DeviceTypeOK, Host!HostTypeOK
<1>4. HistoryInv BY <1>1 DEF HistoryInv
<1>5. ReplayInv
  BY <1>1 DEF ReplayInv, ReplaySucceeds, ReplayFollowsDevice, SnapshotOf, Host!Exceptions
<1> QED BY <1>3, <1>4, <1>5 DEF IInv

LEMMA NextPreservesIInv == IInv /\ [Next]_vars => IInv'
<1> SUFFICES ASSUME IInv, [Next]_vars PROVE IInv' OBVIOUS
<1>1. CASE DeviceStep BY <1>1, DevicePreservesIInv
<1>2. CASE HostStep BY <1>2, HostPreservesIInv
<1>3. CASE UNCHANGED vars
  BY <1>3 DEF vars, deviceVars, hostState, IInv, TypeOK, DeviceTypeOK, Host!HostTypeOK,
              Host!Exceptions, Live, HistoryInv, ReplayInv, ReplaySucceeds, ReplayFollowsDevice
<1> QED BY <1>1, <1>2, <1>3 DEF Next

LEMMA Invariance == Spec => []IInv
BY InitEstablishesIInv, NextPreservesIInv, PTL DEF Spec

(* Every reachable state of the wrappers and of the replay has its type:   *)
(* the sizes sent are size_t values, also for an overflowing calloc, and   *)
(* the peak is a natural number.                                           *)
THEOREM TypeCorrect == Spec => []TypeOK
<1>1. IInv => TypeOK BY DEF IInv
<1> QED BY <1>1, Invariance, PTL

(* The dict of get_heap() follows the heap of the device packet by packet. *)
THEOREM ReplayCorrect == Spec => []ReplayFollowsDevice
<1>1. IInv => ReplayFollowsDevice BY DEF IInv, ReplayInv
<1> QED BY <1>1, Invariance, PTL

(* get_heap() raises no exception on what the wrappers send.               *)
THEOREM ReplayNeverFails == Spec => []ReplaySucceeds
<1>1. IInv => ReplaySucceeds BY DEF IInv, ReplayInv
<1> QED BY <1>1, Invariance, PTL

(* get_heap() returns the true peak of the requested bytes.                *)
THEOREM PeakCorrect == Spec => []PeakExact
<1>1. ASSUME IInv PROVE PeakExact
  <2>1. SUFFICES ASSUME status = "returned" PROVE peak = high BY DEF PeakExact
  <2>2. pos = Len(packets) /\ peak = seen[pos + 1].peak
    BY <2>1, <1>1 DEF IInv, ReplayInv, ReplayFollowsDevice
  <2>3. seen[pos + 1] = SnapshotOf(heap, used, high)
    BY <2>2, <1>1 DEF IInv, HistoryInv
  <2> QED BY <2>2, <2>3 DEF SnapshotOf
<1> QED BY <1>1, Invariance, PTL
-------------------------------------------------------------------------------
(* The refinement: calls of the wrappers are the operations of the meter,  *)
(* the replay stutters, and returning from get_heap() is the report.       *)
LEMMA CallImplementsMeter ==
  ASSUME IInv, DeviceStep
  PROVE  [Meter!MeterNext]_(Meter!meterVars)
<1>1. DeviceNext /\ UNCHANGED hostState BY DEF DeviceStep
<1>2. heap \in BlockMap /\ used \in Int /\ high \in Nat /\ used <= high
  BY DEF IInv, TypeOK, DeviceTypeOK, HistoryInv, BlockMap
<1> DEFINE number == IF status = "returned" THEN peak ELSE None
<1>3. number' = number BY <1>1 DEF hostState
<1>4. ASSUME NEW n \in Size, NEW ok \in BOOLEAN, Allocate(n, ok)
      PROVE  [Meter!MeterNext]_(Meter!meterVars)
  <2>1. PICK p \in (Addr \ Live) \cup {Null} :
          SetHeap(Moved(Null, p, n), IF p = Null THEN used ELSE used + n)
    BY <1>4 DEF Allocate
  <2>2. CASE p = Null
    <3>1. heap' = heap /\ used' = used /\ high' = high
      BY <2>1, <2>2, <1>2, AllocAssumption DEF SetHeap, Moved, BlockMap
    <3> QED BY <3>1, <1>3 DEF Meter!meterVars
  <2>3. CASE p \in Addr \ Live
    <3>1. heap[p] = None /\ p # Null BY <2>3, AllocAssumption DEF Live
    <3>2. heap' = [heap EXCEPT ![p] = n]
      BY <2>1, <2>3, <1>2, AllocAssumption DEF SetHeap, Moved, BlockMap
    <3>3. used' = used + n /\ high' = IF used + n > high THEN used + n ELSE high
      BY <2>1, <3>1 DEF SetHeap
    <3>4. Meter!Allocate(p, n)
      BY <3>1, <3>2, <3>3, <1>3 DEF Meter!Allocate, Meter!Now
    <3> QED BY <3>4, <2>3 DEF Meter!MeterNext
  <2> QED BY <2>1, <2>2, <2>3
<1>5. ASSUME NEW old \in Place, NEW n \in Size, Realloc(old, n)
      PROVE  [Meter!MeterNext]_(Meter!meterVars)
  <2>1. CASE SetHeap(heap, used)
    <3>1. heap' = heap /\ used' = used /\ high' = high BY <2>1, <1>2 DEF SetHeap
    <3> QED BY <3>1, <1>3 DEF Meter!meterVars
  <2>2. ASSUME NEW p \in (Addr \ Live) \cup ({old} \ {Null}),
               old \in Live \cup {Null},
               SetHeap(Moved(old, p, n), used + n - SizeAt(old))
        PROVE  Meter!MeterNext
    <3>1. p \in Addr /\ p # Null BY <2>2, AllocAssumption DEF Live
    <3>2. CASE old = Null
      <4>1. old \notin Live /\ heap[p] = None BY <3>2, <2>2, AllocAssumption DEF Live
      <4>2. heap' = [heap EXCEPT ![p] = n]
        BY <2>2, <3>1, <3>2, <1>2, AllocAssumption DEF SetHeap, Moved, BlockMap
      <4>3. used' = used + n /\ high' = IF used + n > high THEN used + n ELSE high
        BY <2>2, <4>1, <1>2 DEF SetHeap, SizeAt, Size
      <4>4. Meter!Allocate(p, n)
        BY <4>1, <4>2, <4>3, <1>3 DEF Meter!Allocate, Meter!Now
      <4> QED BY <4>4, <3>1 DEF Meter!MeterNext
    <3>3. CASE old \in Live
      <4>1. old \in Addr /\ heap[old] # None /\ (p = old \/ heap[p] = None)
        BY <3>3, <2>2 DEF Live
      <4>2. heap' = [heap EXCEPT ![old] = None, ![p] = n]
        BY <2>2, <3>1, <4>1, <1>2 DEF SetHeap, Moved, BlockMap
      <4>3. /\ used' = used + n - heap[old]
            /\ high' = IF used + n - heap[old] > high THEN used + n - heap[old] ELSE high
        BY <2>2, <3>3 DEF SetHeap, SizeAt
      <4>4. Meter!Resize(old, p, n)
        BY <4>1, <4>2, <4>3, <1>3 DEF Meter!Resize, Meter!Now
      <4> QED BY <4>4, <4>1, <3>1 DEF Meter!MeterNext
    <3> QED BY <3>2, <3>3, <2>2
  <2> QED BY <2>1, <2>2, <1>5 DEF Realloc
<1>6. ASSUME NEW old \in Place, Free(old)
      PROVE  [Meter!MeterNext]_(Meter!meterVars)
  <2>1. SetHeap(Moved(old, Null, 0), used - SizeAt(old)) /\ old \in Live \cup {Null}
    BY <1>6 DEF Free
  <2>2. CASE old = Null
    <3>1. old \notin Live BY <2>2, AllocAssumption DEF Live
    <3>2. heap' = heap /\ used' = used /\ high' = high
      BY <2>1, <2>2, <3>1, <1>2, AllocAssumption DEF SetHeap, Moved, SizeAt, BlockMap
    <3> QED BY <3>2, <1>3 DEF Meter!meterVars
  <2>3. CASE old \in Live
    <3>1. old \in Addr /\ heap[old] # None BY <2>3 DEF Live
    <3>2. heap' = [heap EXCEPT ![old] = None]
      BY <2>1, <3>1, <1>2, AllocAssumption DEF SetHeap, Moved, BlockMap
    <3>3. /\ used' = used - heap[old]
          /\ high' = IF used - heap[old] > high THEN used - heap[old] ELSE high
      BY <2>1, <2>3 DEF SetHeap, SizeAt
    <3>4. Meter!Release(old) BY <3>1, <3>2, <3>3, <1>3 DEF Meter!Release, Meter!Now
    <3> QED BY <3>4, <3>1 DEF Meter!MeterNext
  <2> QED BY <2>1, <2>2, <2>3
<1>7. CASE EndOfTrace
  BY <1>7, <1>3 DEF EndOfTrace, Meter!meterVars
<1>8. ASSUME NEW n \in Size, Malloc(n) PROVE [Meter!MeterNext]_(Meter!meterVars)
  BY <1>8, <1>4 DEF Malloc
<1>9. ASSUME NEW num \in Size, NEW n \in Size, Calloc(num, n)
      PROVE  [Meter!MeterNext]_(Meter!meterVars)
  <2>1. (n * num) % SizeLimit \in Size BY ModuloInRange
  <2>2. (num * n < SizeLimit) \in BOOLEAN OBVIOUS
  <2> QED BY <1>4, <1>9, <2>1, <2>2 DEF Calloc
<1> QED BY <1>1, <1>5, <1>6, <1>7, <1>8, <1>9, DeviceCalls

LEMMA ReplayImplementsMeter ==
  ASSUME IInv, IInv', HostStep
  PROVE  [Meter!MeterNext]_(Meter!meterVars)
<1> DEFINE number == IF status = "returned" THEN peak ELSE None
<1>1. heap' = heap /\ used' = used /\ high' = high BY DEF HostStep, deviceVars
<1>2. status # "returned"
  BY DEF HostStep, Host!Parse, Host!ReplayMalloc, Host!ReplayRealloc, Host!ReplayFree,
         Host!Return, Host!Pending
<1>3. CASE Host!Return
  <2>1. status' = "returned" /\ peak' = high
    BY <1>1, <1>3 DEF Host!Return, IInv, ReplayInv, ReplayFollowsDevice, HistoryInv, SnapshotOf
  <2>2. Meter!Report BY <1>1, <1>2, <2>1 DEF Meter!Report
  <2> QED BY <2>2 DEF Meter!MeterNext
<1>4. CASE ~Host!Return
  <2>1. status' # "returned"
    BY <1>2, <1>4 DEF HostStep, Host!Parse, Host!ReplayMalloc, Host!ReplayRealloc, Host!ReplayFree,
         Host!Skip, Host!Fail, Host!Account
  <2> QED BY <2>1, <1>1, <1>2 DEF Meter!meterVars
<1> QED BY <1>3, <1>4

LEMMA StepImplementsMeter ==
  ASSUME IInv, IInv', [Next]_vars
  PROVE  [Meter!MeterNext]_(Meter!meterVars)
<1>1. CASE DeviceStep BY <1>1, CallImplementsMeter
<1>2. CASE HostStep BY <1>2, ReplayImplementsMeter
<1>3. CASE UNCHANGED vars BY <1>3 DEF vars, deviceVars, hostState, Meter!meterVars
<1> QED BY <1>1, <1>2, <1>3 DEF Next

(* A heap measurement implements the meter of HeapMeter.                   *)
THEOREM MeterImplemented == Spec => ImplementsMeter
<1>1. Init => Meter!MeterInit
  BY DEF Init, DeviceInit, Host!HostInit, NoBlock, Meter!MeterInit
<1>2. IInv /\ IInv' /\ [Next]_vars => [Meter!MeterNext]_(Meter!meterVars)
  BY StepImplementsMeter
<1> QED BY <1>1, <1>2, Invariance, PTL DEF Spec, ImplementsMeter, Meter!MeterSpec
===============================================================================
