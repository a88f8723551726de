----------------------------- MODULE SwoLinkProofs -----------------------------
(***************************************************************************)
(* Proofs about SwoLink, for any number of runs, any traces, any depth of  *)
(* the link and any number of lost bytes: the types, that without a loss   *)
(* get_heap() replays the whole trace of one run, that one lost byte does  *)
(* not shift the packets that follow it, and that the link comes to rest,  *)
(* with get_heap() done.                                                   *)
(*                                                                         *)
(* The invariant follows the bytes from one end to the other.  BoardInv:   *)
(* what is left of a text is its end.  WireInv: every item on the wire is  *)
(* the half of a frame that its place says it is.  WireWhole: if nothing   *)
(* is lost, each item is the one that may come next.  HeapInv: what the    *)
(* worker has read, with respect to the place of the item it gets next.    *)
(* A worker that captures is aligned with the frames, and what it has got  *)
(* is the text up to there, or the board has been reset and its next byte  *)
(* is a header, which ends what it has got with the next "trace ready!".   *)
(*                                                                         *)
(* After a loss the reader counts.  GapInv: the places of the items on the *)
(* wire tell how many are missing, never more than were lost.  CountInv:   *)
(* the bytes a reader has got are those before the next item, up to the    *)
(* difference its way of standing in the frames makes (Stands), and every  *)
(* way ends with the same length when the trace does.                      *)
(*                                                                         *)
(* EndInv: the two texts that end the seeking and the capture are still    *)
(* ahead of a worker that waits for them.  Left: what is still to be done. *)
(***************************************************************************)
EXTENDS SwoLink, FiniteSetTheorems, SequenceTheorems, TLAPS
-------------------------------------------------------------------------------
(* FoldLeft() of the community modules, of the operator Byte: what happens *)
(* to get_heap() when readinto() returns several bytes is what happens if  *)
(* they come one at a time.                                                *)

LEMMA LeastNumber ==
  ASSUME NEW T \in SUBSET Nat, T # {}
  PROVE  \E m \in T : \A n \in T : m <= n
<1> DEFINE Less == OpToRel(<, Nat)
<1>1. IsWellFoundedOn(Less, Nat)
  BY NatLessThanWellFounded
<1> HIDE DEF Less
<1>2. PICK m \in T : \A n \in T : ~(<<n, m>> \in Less)
  BY <1>1, WFMin
<1>3. ASSUME NEW n \in T, n < m PROVE FALSE
  <2>1. <<n, m>> \in Less
    BY <1>3 DEF Less, OpToRel
  <2> QED BY <2>1, <1>2
<1> QED BY <1>2, <1>3

LEMMA SmallestSet ==
  ASSUME NEW U, IsFiniteSet(U), NEW T \in SUBSET SUBSET U, T # {}
  PROVE  \E s \in T : \A t \in T : Cardinality(s) <= Cardinality(t)
<1> DEFINE N == {Cardinality(s) : s \in T}
<1>1. N \in SUBSET Nat /\ N # {}
  BY FS_Subset, FS_CardinalityType
<1>2. PICK m \in N : \A n \in N : m <= n
  BY <1>1, LeastNumber
<1> QED BY <1>2

LEMMA OneLess ==
  ASSUME NEW U, IsFiniteSet(U), NEW s \in SUBSET U, NEW x \in s
  PROVE  /\ s \ {x} \in SUBSET U /\ Cardinality(s) \in Nat \ {0} /\ Cardinality(s \ {x}) \in Nat
         /\ Cardinality(s \ {x}) = Cardinality(s) - 1
<1>1. IsFiniteSet(s)
  BY FS_Subset
<1>2. Cardinality(s) \in Nat /\ Cardinality(s) # 0
  BY <1>1, FS_CardinalityType, FS_EmptySet
<1>3. Cardinality(s \ {x}) = Cardinality(s) - 1
  BY <1>1, FS_RemoveElement
<1> QED BY <1>2, <1>3

(* g says what the bytes of q at the places in a set s make of h, the one  *)
(* at the largest place being read last.                                   *)
FedOf(g, h, q, s) == IF s = {} THEN h ELSE Byte(g[s \ {Max(s)}], q[Max(s)])

Feeds(g, h, q, P) == g = [s \in P |-> FedOf(g, h, q, s)]

AllFeeds(g, h, q, n) == Feeds(g, h, q, SUBSET (1 .. n))

Fed(h, q) == FoldLeft(Byte, h, q)

LEMMA MaxIn ==
  ASSUME NEW n \in Nat, NEW s \in SUBSET (1 .. n), s # {}
  PROVE  Max(s) \in s /\ \A x \in s : x <= Max(s)
<1> DEFINE T == {n - x : x \in s}
<1>1. T \in SUBSET Nat /\ T # {}
  <2>1. \A x \in s : n - x \in Nat
    OBVIOUS
  <2>2. PICK x \in s : TRUE
    OBVIOUS
  <2>3. n - x \in T
    OBVIOUS
  <2> QED BY <2>1, <2>3
<1>2. PICK m \in T : \A k \in T : m <= k
  BY <1>1, LeastNumber
<1>3. PICK x \in s : m = n - x
  BY <1>2
<1>4. \A y \in s : x >= y
  <2> TAKE y \in s
  <2>1. n - x <= n - y
    BY <1>2, <1>3
  <2> QED BY <2>1
<1>5. Max(s) \in s /\ \A y \in s : Max(s) >= y
  BY <1>4 DEF Max
<1> QED BY <1>5

LEMMA FeedsValue ==
  ASSUME NEW g, NEW h, NEW q, NEW P, Feeds(g, h, q, P), NEW s \in P
  PROVE  g[s] = FedOf(g, h, q, s)
BY DEF Feeds

LEMMA AllFeedsValue ==
  ASSUME NEW g, NEW h, NEW q, NEW n, AllFeeds(g, h, q, n), NEW s \in SUBSET (1 .. n)
  PROVE  g[s] = FedOf(g, h, q, s)
<1> DEFINE P == SUBSET (1 .. n)
<1>1. s \in P /\ Feeds(g, h, q, P)
  BY DEF AllFeeds
<1> HIDE DEF P
<1> QED BY <1>1, FeedsValue

LEMMA FeedsExist ==
  ASSUME NEW h, NEW q, NEW n \in Nat
  PROVE  \E g : AllFeeds(g, h, q, n)
<1> DEFINE U == 1 .. n
           Upto(k) == {s \in SUBSET U : Cardinality(s) <= k}
           T       == {k \in Nat : ~ \E g : Feeds(g, h, q, Upto(k))}
<1>0. IsFiniteSet(U)
  BY FS_Interval
<1>1. SUFFICES ASSUME T # {} PROVE FALSE
  <2>1. Cardinality(U) \in Nat /\ Upto(Cardinality(U)) = SUBSET U
    BY <1>0, FS_CardinalityType, FS_Subset
  <2>2. \E g : Feeds(g, h, q, Upto(Cardinality(U)))
    <3> HIDE DEF Upto
    <3> QED BY <1>1, <2>1
  <2> QED BY <2>1, <2>2 DEF AllFeeds
<1>2. PICK m \in T : \A k \in T : m <= k
  BY <1>1, LeastNumber
<1>3. m # 0
  <2>1. \A s \in Upto(0) : s = {}
    <3> TAKE s \in Upto(0)
    <3>1. IsFiniteSet(s) /\ Cardinality(s) <= 0
      BY <1>0, FS_Subset
    <3>2. Cardinality(s) \in Nat
      BY <3>1, FS_CardinalityType
    <3> QED BY <3>1, <3>2, FS_EmptySet
  <2> DEFINE P == Upto(0)
             g == [s \in P |-> h]
  <2>2. \A s \in P : s = {}
    BY <2>1
  <2> HIDE DEF P
  <2>3. Feeds(g, h, q, P)
    BY <2>2 DEF Feeds, FedOf
  <2> QED BY <2>3, <1>2 DEF P
<1>4. m \in Nat /\ m - 1 \in Nat /\ m - 1 \notin T
  <2>1. m \in Nat
    BY <1>2
  <2>2. m - 1 \in Nat /\ ~(m <= m - 1)
    BY <2>1, <1>3
  <2>3. m - 1 \in T => m <= m - 1
    <3> HIDE DEF T
    <3> QED BY <1>2
  <2> QED BY <2>1, <2>2, <2>3
<1>5. PICK f : Feeds(f, h, q, Upto(m - 1))
  BY <1>4
<1> DEFINE P       == Upto(m)
           Q       == Upto(m - 1)
           e(k, s) == FedOf(k, h, q, s)
           g       == [s \in P |-> IF s \in Q THEN f[s] ELSE e(f, s)]
<1>6. \A s \in P : s # {} => s \ {Max(s)} \in Q
  <2> TAKE s \in P
  <2> HAVE s # {}
  <2>1. Max(s) \in s
    BY MaxIn
  <2>2. /\ s \ {Max(s)} \in SUBSET U /\ Cardinality(s) \in Nat
        /\ Cardinality(s \ {Max(s)}) = Cardinality(s) - 1
    <3>1. s \in SUBSET U /\ Max(s) \in s
      BY <2>1
    <3> HIDE DEF U
    <3> QED BY <1>0, <3>1, OneLess
  <2> QED BY <2>2, <1>4
<1>7. Q \subseteq P
  <2> SUFFICES ASSUME NEW s \in Q PROVE s \in P
    OBVIOUS
  <2>1. Cardinality(s) \in Nat
    BY <1>0, FS_Subset, FS_CardinalityType
  <2> QED BY <2>1, <1>4
<1>8. Feeds(f, h, q, Q)
  BY <1>5
<1> HIDE DEF P, Q
<1>9. ASSUME NEW s \in P PROVE g[s] = e(g, s)
  <2>1. s # {} => g[s \ {Max(s)}] = f[s \ {Max(s)}]
    BY <1>6, <1>7
  <2>2. e(g, s) = e(f, s)
    BY <2>1 DEF FedOf
  <2>3. g[s] = e(f, s)
    <3>1. CASE s \in Q
      BY <1>8, <3>1, FeedsValue
    <3>2. CASE s \notin Q
      BY <3>2
    <3> QED BY <3>1, <3>2
  <2> QED BY <2>2, <2>3
<1>10. Feeds(g, h, q, P)
  <2>1. g = [s \in P |-> g[s]]
    OBVIOUS
  <2> HIDE DEF g
  <2>2. g = [s \in P |-> e(g, s)]
    <3> HIDE DEF e
    <3> QED BY <2>1, <1>9
  <2> QED BY <2>2 DEF Feeds
<1> QED BY <1>10, <1>2 DEF P

LEMMA FedIs ==
  ASSUME NEW h, NEW q, NEW n \in Nat, DOMAIN q = 1 .. n
  PROVE  \E g : AllFeeds(g, h, q, n) /\ Fed(h, q) = g[1 .. n]
<1> DEFINE g == CHOOSE f : AllFeeds(f, h, q, n)
<1>1. AllFeeds(g, h, q, n)
  BY FeedsExist
<1>2. Fed(h, q) = g[1 .. n]
  BY DEF Fed, FoldLeft, MapThenFoldSet, AllFeeds, Feeds, FedOf
<1> QED BY <1>1, <1>2

LEMMA FedNothing ==
  ASSUME NEW h
  PROVE  Fed(h, <<>>) = h
<1> DEFINE q == <<>>
<1>1. DOMAIN q = 1 .. 0
  OBVIOUS
<1> HIDE DEF q
<1>2. PICK g : AllFeeds(g, h, q, 0) /\ Fed(h, q) = g[1 .. 0]
  BY <1>1, FedIs
<1>3. g[1 .. 0] = FedOf(g, h, q, 1 .. 0)
  BY <1>2, AllFeedsValue
<1> QED BY <1>2, <1>3 DEF FedOf, q

LEMMA FedOneMore ==
  ASSUME NEW S, NEW h, NEW q \in Seq(S), NEW b \in S
  PROVE  Fed(h, Append(q, b)) = Byte(Fed(h, q), b)
<1> DEFINE n == Len(q)
           r == Append(q, b)
<1>1. /\ n \in Nat /\ n + 1 \in Nat /\ DOMAIN q = 1 .. n /\ DOMAIN r = 1 .. n + 1
      /\ r[n + 1] = b /\ \A i \in 1 .. n : r[i] = q[i]
  OBVIOUS
<1> HIDE DEF n, r
<1>2. PICK f : AllFeeds(f, h, q, n) /\ Fed(h, q) = f[1 .. n]
  BY <1>1, FedIs
<1>3. PICK g : AllFeeds(g, h, r, n + 1) /\ Fed(h, r) = g[1 .. n + 1]
  BY <1>1, FedIs
<1>4. \A s \in SUBSET (1 .. n) : f[s] = g[s]
  <2> DEFINE T == {s \in SUBSET (1 .. n) : f[s] # g[s]}
             U == 1 .. n
  <2>1. SUFFICES ASSUME T # {} PROVE FALSE
    OBVIOUS
  <2>2. IsFiniteSet(U) /\ T \in SUBSET SUBSET U
    BY <1>1, FS_Interval
  <2>3. PICK s \in T : \A t \in T : Cardinality(s) <= Cardinality(t)
    <3> HIDE DEF T, U
    <3> QED BY <2>1, <2>2, SmallestSet
  <2>4. s \in SUBSET (1 .. n) /\ s \in SUBSET (1 .. n + 1) /\ f[s] # g[s]
    BY <2>3, <1>1
  <2>5. f[s] = FedOf(f, h, q, s) /\ g[s] = FedOf(g, h, r, s)
    BY <2>4, <1>2, <1>3, AllFeedsValue
  <2>6. s # {}
    BY <2>4, <2>5 DEF FedOf
  <2>7. Max(s) \in s
    BY <1>1, <2>4, <2>6, MaxIn
  <2>8. /\ s \ {Max(s)} \in SUBSET U /\ Cardinality(s) \in Nat
        /\ Cardinality(s \ {Max(s)}) = Cardinality(s) - 1
    <3> DEFINE m == Max(s)
    <3>1. s \in SUBSET U /\ m \in s /\ IsFiniteSet(U)
      BY <2>2, <2>4, <2>7
    <3> HIDE DEF T, U, m
    <3>2. /\ s \ {m} \in SUBSET U /\ Cardinality(s) \in Nat
          /\ Cardinality(s \ {m}) = Cardinality(s) - 1
      BY <3>1, OneLess
    <3> QED BY <3>2 DEF m
  <2>9. s \ {Max(s)} \notin T
    <3> HIDE DEF T
    <3> QED BY <2>3, <2>8
  <2>10. f[s \ {Max(s)}] = g[s \ {Max(s)}]
    BY <2>8, <2>9
  <2>11. q[Max(s)] = r[Max(s)]
    BY <1>1, <2>4, <2>7
  <2> QED BY <2>4, <2>5, <2>6, <2>10, <2>11 DEF FedOf
<1>5. Max(1 .. n + 1) = n + 1
  <2> DEFINE s == 1 .. n + 1
  <2>1. s # {} /\ s \in SUBSET (1 .. n + 1) /\ n + 1 \in s
    <3>1. n \in Nat
      BY <1>1
    <3>2. n + 1 \in s
      BY <3>1
    <3> QED BY <3>2
  <2>2. Max(s) \in s /\ \A x \in s : x <= Max(s)
    BY <1>1, <2>1, MaxIn
  <2>3. n + 1 <= Max(s) /\ Max(s) <= n + 1 /\ Max(s) \in Int
    BY <1>1, <2>1, <2>2
  <2> QED BY <1>1, <2>3
<1>6. g[1 .. n + 1] = FedOf(g, h, r, 1 .. n + 1)
  BY <1>3, AllFeedsValue
<1>7. (1 .. n + 1) \ {n + 1} = 1 .. n /\ 1 .. n + 1 # {}
  BY <1>1
<1>8. g[1 .. n + 1] = Byte(g[1 .. n], b)
  BY <1>1, <1>5, <1>6, <1>7 DEF FedOf
<1> QED BY <1>2, <1>3, <1>4, <1>8 DEF r
-------------------------------------------------------------------------------
(* The reader of get_heap(), byte by byte.                                 *)
Letters == DataBytes \cup {R, D}

Reader == [mode : {"seek", "capture", "done"}, line : Seq(Letters), total : Seq(Letters)]

Ends(l, c) == l # <<>> /\ l[Len(l)] = c

LEMMA SuffixOfTwo ==
  ASSUME NEW S, NEW l \in Seq(S), NEW a, NEW b, NEW c \in S
  PROVE  IsSuffix(<<a, b>>, Append(l, c)) <=> Ends(l, a) /\ c = b
<1> DEFINE m == Append(l, c)
           s == <<a, b>>
<1>1. /\ Len(l) \in Nat /\ Len(m) = Len(l) + 1 /\ m[Len(m)] = c
      /\ Len(l) # 0 => m[Len(m) - 1] = l[Len(l)]
      /\ l = <<>> <=> Len(l) = 0
  OBVIOUS
<1>2. Len(s) = 2 /\ s[1] = a /\ s[2] = b
  OBVIOUS
<1> HIDE DEF m, s
<1>3. Reverse(s) = [i \in 1 .. 2 |-> s[(2 - i) + 1]]
  BY <1>2 DEF Reverse
<1>4. Len(Reverse(s)) = 2 /\ Reverse(s)[1] = b /\ Reverse(s)[2] = a
  BY <1>2, <1>3
<1>5. Reverse(m) = [i \in 1 .. Len(m) |-> m[(Len(m) - i) + 1]]
  BY DEF Reverse
<1>6. Len(Reverse(m)) = Len(m)
  BY <1>1, <1>5
<1>7. SubSeq(Reverse(s), 1, 2) = [i \in 1 .. 2 |-> Reverse(s)[i]]
  BY <1>4
<1>8. SubSeq(Reverse(m), 1, 2) = [i \in 1 .. 2 |-> Reverse(m)[i]]
  BY <1>6
<1>9. IsSuffix(s, m) <=> 2 <= Len(m) /\ SubSeq(Reverse(s), 1, 2) = SubSeq(Reverse(m), 1, 2)
  BY <1>4, <1>6 DEF IsSuffix, IsPrefix
<1>10. 2 <= Len(m) => Reverse(m)[1] = c /\ Reverse(m)[2] = l[Len(l)]
  BY <1>1, <1>5
<1>11. SubSeq(Reverse(s), 1, 2) = SubSeq(Reverse(m), 1, 2)
         <=> Reverse(s)[1] = Reverse(m)[1] /\ Reverse(s)[2] = Reverse(m)[2]
  BY <1>7, <1>8
<1> QED BY <1>1, <1>4, <1>9, <1>10, <1>11 DEF Ends, m, s

LEMMA ByteIs ==
  ASSUME NEW h \in Reader, NEW b \in Letters
  PROVE  /\ Byte(h, b) \in Reader
         /\ h.mode = "done" => Byte(h, b) = h
         /\ h.mode # "done" /\ b # Newline => Byte(h, b) = [h EXCEPT !.line = Append(@, b)]
         /\ h.mode # "done" /\ b = Newline /\ Ends(h.line, R) =>
              Byte(h, b) = [mode |-> "capture", line |-> <<>>, total |-> <<>>]
         /\ h.mode = "capture" /\ b = Newline /\ Ends(h.line, D) =>
              Byte(h, b) = [mode |-> "done", line |-> <<>>,
                            total |-> h.total \o SubSeq(h.line, 1, Len(h.line) - 1)]
         /\ h.mode = "capture" /\ b = Newline /\ ~Ends(h.line, R) /\ ~Ends(h.line, D) =>
              Byte(h, b) = [mode |-> "capture", line |-> <<>>,
                            total |-> h.total \o Append(h.line, b)]
         /\ h.mode = "seek" /\ b = Newline /\ ~Ends(h.line, R) =>
              Byte(h, b) = [h EXCEPT !.line = <<>>]
<1> DEFINE longer == [h EXCEPT !.line = Append(@, b)]
<1>1. /\ h.mode \in {"seek", "capture", "done"} /\ h.line \in Seq(Letters)
      /\ h.total \in Seq(Letters)
  BY DEF Reader
<1> DEFINE l == Append(h.line, b)
<1>2. l \in Seq(Letters) /\ Len(l) = Len(h.line) + 1 /\ Len(h.line) \in Nat
  BY <1>1
<1>3. IsSuffix(READY, l) <=> Ends(h.line, R) /\ b = Newline
  BY <1>1, SuffixOfTwo DEF READY
<1>4. IsSuffix(DONE, l) <=> Ends(h.line, D) /\ b = Newline
  BY <1>1, SuffixOfTwo DEF DONE
<1>5. SubSeq(l, 1, Len(l) - 2) = SubSeq(h.line, 1, Len(h.line) - 1) /\ Len(DONE) = 2
  <2>1. Len(l) - 2 = Len(h.line) - 1
    BY <1>2
  <2>2. \A k \in 1 .. Len(h.line) - 1 : l[k] = h.line[k]
    BY <1>1
  <2> HIDE DEF l
  <2>3. SubSeq(l, 1, Len(h.line) - 1) = SubSeq(h.line, 1, Len(h.line) - 1)
    BY <1>1, <1>2, <2>2
  <2> QED BY <2>1, <2>3 DEF DONE
<1> HIDE DEF l
<1>6. /\ longer \in Reader /\ longer.mode = h.mode /\ longer.line = l
      /\ longer.total = h.total
  BY <1>1, <1>2 DEF Reader, l
<1>7. longer = [h EXCEPT !.line = Append(@, b)]
  OBVIOUS
<1>8. Byte(h, b) = IF h.mode = "done" THEN h ELSE IF b = Newline THEN LineRead(longer) ELSE longer
  BY DEF Byte
<1> HIDE DEF longer
<1>9. R # D
  BY DEF R, D
<1>10. CASE h.mode = "done"
  BY <1>8, <1>10
<1>11. CASE h.mode # "done" /\ b # Newline
  BY <1>6, <1>7, <1>8, <1>11
<1>12. CASE h.mode # "done" /\ b = Newline /\ Ends(h.line, R)
  <2>1. ~Ends(h.line, D)
    BY <1>9, <1>12 DEF Ends
  <2>2. LineRead(longer) = [mode |-> "capture", line |-> <<>>, total |-> <<>>]
    BY <2>1, <1>1, <1>3, <1>4, <1>6, <1>12 DEF LineRead
  <2>3. Byte(h, b) = [mode |-> "capture", line |-> <<>>, total |-> <<>>]
    BY <2>2, <1>8, <1>12
  <2> QED BY <1>12, <2>1, <2>3 DEF Reader
<1>13. CASE h.mode = "capture" /\ b = Newline /\ Ends(h.line, D)
  <2>1. ~Ends(h.line, R)
    BY <1>9, <1>13 DEF Ends
  <2> DEFINE newTotal == h.total \o SubSeq(h.line, 1, Len(h.line) - 1)
  <2>2. LineRead(longer) = [mode |-> "done", line |-> <<>>,
                            total |-> longer.total \o SubSeq(longer.line, 1, Len(longer.line) - Len(DONE))]
    BY <2>1, <1>3, <1>4, <1>6, <1>13 DEF LineRead
  <2>3. Byte(h, b) = [mode |-> "done", line |-> <<>>, total |-> newTotal]
    BY <2>2, <1>5, <1>6, <1>8, <1>13
  <2>4. newTotal \in Seq(Letters)
    <3>1. SubSeq(h.line, 1, Len(h.line) - 1) \in Seq(Letters)
      BY <1>1, <1>2
    <3> QED BY <1>1, <3>1
  <2> HIDE DEF newTotal
  <2>5. Byte(h, b) \in Reader
    BY <2>3, <2>4 DEF Reader
  <2> QED BY <1>13, <2>1, <2>3, <2>5 DEF newTotal
<1>14. CASE h.mode = "capture" /\ b = Newline /\ ~Ends(h.line, R) /\ ~Ends(h.line, D)
  <2>1. LineRead(longer) = [mode |-> "capture", line |-> <<>>, total |-> h.total \o l]
    BY <1>3, <1>4, <1>6, <1>14 DEF LineRead
  <2>2. Byte(h, b) = [mode |-> "capture", line |-> <<>>, total |-> h.total \o l]
    BY <2>1, <1>8, <1>14
  <2>3. h.total \o l \in Seq(Letters)
    BY <1>1, <1>2
  <2>4. Byte(h, b) \in Reader
    BY <2>2, <2>3 DEF Reader
  <2> QED BY <1>14, <2>2, <2>4 DEF l
<1>15. CASE h.mode = "seek" /\ b = Newline /\ ~Ends(h.line, R)
  <2>1. LineRead(longer) = [longer EXCEPT !.line = <<>>]
    BY <1>3, <1>6, <1>15 DEF LineRead
  <2>2. [longer EXCEPT !.line = <<>>] = [h EXCEPT !.line = <<>>]
    BY <1>7 DEF Reader
  <2>3. Byte(h, b) = [h EXCEPT !.line = <<>>]
    BY <2>1, <2>2, <1>8, <1>15
  <2>4. Byte(h, b) \in Reader
    <3>1. <<>> \in Seq(Letters)
      OBVIOUS
    <3> QED BY <2>3, <3>1 DEF Reader
  <2> QED BY <1>15, <2>3, <2>4
<1> QED BY <1>1, <1>10, <1>11, <1>12, <1>13, <1>14, <1>15
-------------------------------------------------------------------------------
(* The inductive invariant.                                                *)
Whole(d) == READY \o d \o DONE

TextOf(d, place) == READY \o d \o (IF place = "ended" THEN DONE ELSE <<>>)

Full(r) == Whole(data[r])

Items == [byte : Letters, isHeader : BOOLEAN, run : 1 .. MaxRuns, index : Nat]

(* What get_heap() has read when readinto() has returned what it has.      *)
Reading == Fed(heap, payload)

ReaderInv ==
  /\ heap \in Reader /\ payload \in Seq(Letters) /\ Reading \in Reader
  /\ heap.mode = "done" => payload = <<>>

(* What is left of the text is its end.                                    *)
BoardInv ==
  /\ Len(todo) <= Len(Text)
  /\ \A k \in 1 .. Len(todo) : todo[k] = Text[Len(Text) - Len(todo) + k]
  /\ halfSent => todo # <<>>
  /\ workerRun <= MaxRuns
  /\ \A r \in 1 .. MaxRuns : r > boardRun => data[r] = <<>>

(* Every item is the half of a frame that its place says it is.            *)
GenuineIn(x, texts, run, place) ==
  /\ x.run <= run
  /\ x.index \in 1 .. Len(Whole(texts[x.run]))
  /\ x.run = run => x.index <= Len(TextOf(texts[run], place))
  /\ x.byte = IF x.isHeader THEN Header ELSE Whole(texts[x.run])[x.index]

Genuine(x) == GenuineIn(x, data, boardRun, at)

WireInv == \A k \in 1 .. Len(wire) : Genuine(wire[k])

(* The item that the worker gets next.                                     *)
First == IF wire = <<>> THEN NextItem ELSE Head(wire)

(* y may be the next item after x if nothing is lost: the other half, the  *)
(* next frame, or the first frame of a later run.                          *)
Follows(x, y) ==
  \/ x.isHeader /\ ~y.isHeader /\ y.run = x.run /\ y.index = x.index
  \/ ~x.isHeader /\ y.isHeader /\ y.run = x.run /\ y.index = x.index + 1
  \/ y.isHeader /\ y.run > x.run /\ y.index = 1

WireWhole ==
  /\ \A k \in 1 .. Len(wire) - 1 : Follows(wire[k], wire[k + 1])
  /\ wire # <<>> => Follows(wire[Len(wire)], NextItem)

InPhase == need <= 1 /\ payload = <<>> /\ (First.isHeader <=> need = 0)

(* While it seeks, the worker may be out of phase: it can take a letter R  *)
(* for the end of "trace ready!" only if the newline will be a header away *)
(* or is the next byte of a frame of one.                                  *)
SeekInv ==
  Ends(Reading.line, R) =>
    \/ First.index = 1
    \/ First.index = 2 /\ (First.isHeader \/ InPhase)

Got == Reading.total \o Reading.line

Aligned ==
  /\ InPhase
  /\ First.index = 3 + Len(Got)
  /\ \A k \in 1 .. Len(Got) : Got[k] = Full(First.run)[2 + k]

Restarting ==
  /\ need <= 1 /\ payload = <<>>
  /\ First.index = 1 \/ (First.index = 2 /\ InPhase /\ Ends(Reading.line, R))

CaptureInv == Aligned \/ Restarting

DoneInv == \E r \in 1 .. boardRun : Reading.total = data[r] /\ (r < boardRun \/ at = "ended")

HeapInv ==
  /\ Reading.mode = "seek" => SeekInv
  /\ Reading.mode = "capture" => CaptureInv
  /\ Reading.mode = "done" => DoneInv

NoLossInv == lost = 0 => WireWhole /\ HeapInv

BaseInv == TypeOK /\ ReaderInv /\ BoardInv /\ WireInv

IInv == BaseInv /\ NoLossInv
-------------------------------------------------------------------------------
(* The texts.                                                              *)
Joins(c, a, b) ==
  /\ Len(c) = Len(a) + Len(b)
  /\ \A k \in 1 .. Len(a) : c[k] = a[k]
  /\ \A k \in 1 .. Len(b) : c[Len(a) + k] = b[k]

LEMMA Joined ==
  ASSUME NEW S, NEW a \in Seq(S), NEW b \in Seq(S)
  PROVE  a \o b \in Seq(S) /\ Joins(a \o b, a, b)
<1> DEFINE c == a \o b
           m == Len(a)
           n == Len(b)
<1>1. /\ c \in Seq(S) /\ Len(c) = m + n /\ m \in Nat /\ n \in Nat
      /\ \A i \in 1 .. m + n : c[i] = IF i <= m THEN a[i] ELSE b[i - m]
  BY ConcatProperties
<1> HIDE DEF c, m, n
<1>2. \A k \in 1 .. m : k \in 1 .. m + n /\ k <= m
  BY <1>1
<1>3. \A k \in 1 .. n : m + k \in 1 .. m + n /\ ~(m + k <= m) /\ (m + k) - m = k
  BY <1>1
<1>4. \A k \in 1 .. m : c[k] = a[k]
  BY <1>1, <1>2
<1>5. \A k \in 1 .. n : c[m + k] = b[k]
  BY <1>1, <1>3
<1> QED BY <1>1, <1>4, <1>5 DEF Joins, c, m, n

LEMMA WholeText ==
  ASSUME NEW d \in Seq(DataBytes)
  PROVE  /\ Len(d) \in Nat
         /\ Whole(d) \in Seq(Letters) /\ Len(Whole(d)) = Len(d) + 4
         /\ Whole(d)[1] = R /\ Whole(d)[2] = Newline
         /\ \A k \in 1 .. Len(d) : Whole(d)[2 + k] = d[k]
         /\ Whole(d)[Len(d) + 3] = D /\ Whole(d)[Len(d) + 4] = Newline
         /\ READY \o d \in Seq(Letters) /\ Len(READY \o d) = Len(d) + 2
         /\ \A k \in 1 .. Len(d) + 2 : (READY \o d)[k] = Whole(d)[k]
<1>1. /\ READY \in Seq(Letters) /\ Len(READY) = 2 /\ READY[1] = R /\ READY[2] = Newline
      /\ DONE \in Seq(Letters) /\ Len(DONE) = 2 /\ DONE[1] = D /\ DONE[2] = Newline
  BY DEF READY, DONE, Letters, DataBytes
<1>2. d \in Seq(Letters) /\ Len(d) \in Nat
  BY DEF Letters
<1> DEFINE c == READY \o d
           f == c \o DONE
<1>3. /\ c \in Seq(Letters) /\ Len(c) = 2 + Len(d)
      /\ \A k \in 1 .. 2 : c[k] = READY[k]
      /\ \A k \in 1 .. Len(d) : c[2 + k] = d[k]
  <2>1. c \in Seq(Letters) /\ Joins(c, READY, d)
    BY <1>1, <1>2, Joined
  <2> HIDE DEF c
  <2> QED BY <1>1, <2>1 DEF Joins
<1>4. /\ f \in Seq(Letters) /\ Len(f) = 2 + Len(d) + 2
      /\ \A k \in 1 .. 2 + Len(d) : f[k] = c[k]
      /\ \A k \in 1 .. 2 : f[2 + Len(d) + k] = DONE[k]
  <2> HIDE DEF c
  <2>1. f \in Seq(Letters) /\ Joins(f, c, DONE)
    BY <1>1, <1>3, Joined
  <2> HIDE DEF f
  <2> QED BY <1>1, <1>3, <2>1 DEF Joins
<1> HIDE DEF c, f
<1>5. f[1] = R /\ f[2] = Newline /\ f[Len(d) + 3] = D /\ f[Len(d) + 4] = Newline
  <2>1. 1 \in 1 .. 2 /\ 2 \in 1 .. 2 /\ 1 \in 1 .. 2 + Len(d) /\ 2 \in 1 .. 2 + Len(d)
    BY <1>2
  <2>2. Len(d) + 3 = 2 + Len(d) + 1 /\ Len(d) + 4 = 2 + Len(d) + 2
    BY <1>2
  <2> QED BY <1>1, <1>3, <1>4, <2>1, <2>2
<1>6. \A k \in 1 .. Len(d) : f[2 + k] = d[k]
  <2>1. \A k \in 1 .. Len(d) : 2 + k \in 1 .. 2 + Len(d)
    BY <1>2
  <2> QED BY <1>3, <1>4, <2>1
<1>7. 2 + Len(d) = Len(d) + 2 /\ 2 + Len(d) + 2 = Len(d) + 4
  BY <1>2
<1>8. f = Whole(d) /\ c = READY \o d
  BY DEF c, f, Whole
<1> QED BY <1>2, <1>3, <1>4, <1>5, <1>6, <1>7, <1>8

LEMMA TextSoFar ==
  ASSUME NEW d \in Seq(DataBytes), NEW place
  PROVE  /\ TextOf(d, place) \in Seq(Letters)
         /\ Len(TextOf(d, place)) = Len(d) + (IF place = "ended" THEN 4 ELSE 2)
         /\ \A k \in 1 .. Len(TextOf(d, place)) : TextOf(d, place)[k] = Whole(d)[k]
<1>1. CASE place = "ended"
  <2>1. TextOf(d, place) = Whole(d)
    BY <1>1 DEF TextOf, Whole
  <2> QED BY <1>1, <2>1, WholeText
<1>2. CASE place # "ended"
  <2> DEFINE c == READY \o d
  <2>1. /\ c \in Seq(Letters) /\ Len(c) = Len(d) + 2
        /\ \A k \in 1 .. Len(d) + 2 : c[k] = Whole(d)[k]
    BY WholeText
  <2>2. TextOf(d, place) = c \o <<>>
    BY <1>2 DEF TextOf
  <2> HIDE DEF c
  <2>3. c \o <<>> = c
    BY <2>1
  <2> QED BY <1>2, <2>1, <2>2, <2>3
<1> QED BY <1>1, <1>2

LEMMA PlacesOfLetters ==
  ASSUME NEW d \in Seq(DataBytes), NEW k \in 1 .. Len(Whole(d))
  PROVE  /\ Len(d) \in Nat /\ Len(Whole(d)) = Len(d) + 4
         /\ Whole(d)[k] \in Letters
         /\ Whole(d)[k] = R <=> k = 1
         /\ Whole(d)[k] = D <=> k = Len(Whole(d)) - 1
         /\ k = 2 => Whole(d)[k] = Newline
         /\ k = Len(Whole(d)) => Whole(d)[k] = Newline
<1>1. /\ Len(d) \in Nat
      /\ Whole(d) \in Seq(Letters) /\ Len(Whole(d)) = Len(d) + 4
      /\ Whole(d)[1] = R /\ Whole(d)[2] = Newline
      /\ \A j \in 1 .. Len(d) : Whole(d)[2 + j] = d[j]
      /\ Whole(d)[Len(d) + 3] = D /\ Whole(d)[Len(d) + 4] = Newline
  BY WholeText
<1>2. R \notin DataBytes /\ D \notin DataBytes /\ R # D /\ R # Newline /\ D # Newline
  BY DEF R, D, DataBytes, Newline
<1>3. Whole(d)[k] \in Letters
  BY <1>1
<1>4. k = 1 \/ k = 2 \/ k \in 3 .. Len(d) + 2 \/ k = Len(d) + 3 \/ k = Len(d) + 4
  BY <1>1
<1>5. k \in 3 .. Len(d) + 2 => Whole(d)[k] \in DataBytes
  <2> HAVE k \in 3 .. Len(d) + 2
  <2>1. k - 2 \in 1 .. Len(d) /\ 2 + (k - 2) = k
    BY <1>1
  <2>2. Whole(d)[k] = d[k - 2]
    BY <1>1, <2>1
  <2> QED BY <1>1, <2>1, <2>2
<1>6. Whole(d)[k] = R <=> k = 1
  BY <1>1, <1>2, <1>4, <1>5
<1>7. Whole(d)[k] = D <=> k = Len(Whole(d)) - 1
  BY <1>1, <1>2, <1>4, <1>5
<1> QED BY <1>1, <1>3, <1>6, <1>7

LEMMA DataTyped ==
  ASSUME NEW d \in BoundedSeq(DataBytes, MaxData)
  PROVE  d \in Seq(DataBytes) /\ Len(d) \in 0 .. MaxData
<1>1. PICK m \in 0 .. MaxData : d \in [1 .. m -> DataBytes]
  BY DEF BoundedSeq, SeqOf
<1>2. m \in Nat /\ Len(d) = m
  BY <1>1
<1> QED BY <1>1, <1>2

LEMMA DataBounded ==
  ASSUME NEW d \in Seq(DataBytes), Len(d) <= MaxData
  PROVE  d \in BoundedSeq(DataBytes, MaxData)
<1>1. Len(d) \in 0 .. MaxData /\ d \in [1 .. Len(d) -> DataBytes]
  BY SwoLinkAssumption
<1> QED BY <1>1 DEF BoundedSeq, SeqOf

LEMMA Texts ==
  ASSUME TypeOK
  PROVE  /\ boardRun \in 1 .. MaxRuns /\ MaxRuns \in Nat /\ MaxData \in Nat
         /\ \A r \in 1 .. MaxRuns : data[r] \in Seq(DataBytes) /\ Len(data[r]) \in 0 .. MaxData
         /\ Text = TextOf(data[boardRun], at)
         /\ Text \in Seq(Letters)
         /\ Len(Text) = Len(data[boardRun]) + (IF at = "ended" THEN 4 ELSE 2)
         /\ Len(Text) <= Len(Full(boardRun))
         /\ \A k \in 1 .. Len(Text) : Text[k] = Full(boardRun)[k]
<1>1. boardRun \in 1 .. MaxRuns /\ MaxRuns \in Nat /\ MaxData \in Nat
  BY SwoLinkAssumption DEF TypeOK
<1>2. \A r \in 1 .. MaxRuns : data[r] \in Seq(DataBytes) /\ Len(data[r]) \in 0 .. MaxData
  BY DataTyped DEF TypeOK
<1> DEFINE d     == data[boardRun]
           place == at
<1>3. d \in Seq(DataBytes) /\ Len(d) \in Nat
  BY <1>1, <1>2
<1>4. Text = TextOf(d, place) /\ Full(boardRun) = Whole(d)
  BY DEF Text, TextOf, Full
<1> HIDE DEF d, place
<1>5. /\ TextOf(d, place) \in Seq(Letters)
      /\ Len(TextOf(d, place)) = Len(d) + (IF place = "ended" THEN 4 ELSE 2)
      /\ \A k \in 1 .. Len(TextOf(d, place)) : TextOf(d, place)[k] = Whole(d)[k]
      /\ Len(Whole(d)) = Len(d) + 4
  BY <1>3, TextSoFar, WholeText
<1>6. Len(TextOf(d, place)) <= Len(Whole(d))
  BY <1>3, <1>5
<1> QED BY <1>1, <1>2, <1>4, <1>5, <1>6 DEF d, place

LEMMA WholeGrows ==
  ASSUME NEW d \in Seq(DataBytes), NEW byte \in DataBytes
  PROVE  /\ Append(d, byte) \in Seq(DataBytes) /\ Len(Append(d, byte)) = Len(d) + 1
         /\ Len(Whole(Append(d, byte))) = Len(Whole(d)) + 1
         /\ \A k \in 1 .. Len(d) + 2 : Whole(Append(d, byte))[k] = Whole(d)[k]
         /\ Whole(Append(d, byte))[Len(d) + 3] = byte
<1> DEFINE e == Append(d, byte)
<1>1. /\ e \in Seq(DataBytes) /\ Len(e) = Len(d) + 1 /\ Len(d) \in Nat
      /\ \A k \in 1 .. Len(d) : e[k] = d[k]
      /\ e[Len(d) + 1] = byte
  OBVIOUS
<1> HIDE DEF e
<1>2. /\ Len(Whole(d)) = Len(d) + 4 /\ Len(Whole(e)) = Len(e) + 4
      /\ Whole(d)[1] = R /\ Whole(d)[2] = Newline
      /\ Whole(e)[1] = R /\ Whole(e)[2] = Newline
      /\ \A k \in 1 .. Len(d) : Whole(d)[2 + k] = d[k]
      /\ \A k \in 1 .. Len(e) : Whole(e)[2 + k] = e[k]
  BY <1>1, WholeText
<1>3. ASSUME NEW k \in 1 .. Len(d) + 2 PROVE Whole(e)[k] = Whole(d)[k]
  <2>1. CASE k <= 2
    BY <1>1, <1>2, <2>1
  <2>2. CASE k > 2
    <3>1. k - 2 \in 1 .. Len(d) /\ k - 2 \in 1 .. Len(e) /\ 2 + (k - 2) = k
      BY <1>1, <2>2
    <3> QED BY <1>1, <1>2, <3>1
  <2> QED BY <1>1, <2>1, <2>2
<1>4. Whole(e)[Len(d) + 3] = byte
  <2>1. Len(d) + 1 \in 1 .. Len(e) /\ 2 + (Len(d) + 1) = Len(d) + 3
    BY <1>1
  <2> QED BY <1>1, <1>2, <2>1
<1> QED BY <1>1, <1>2, <1>3, <1>4 DEF e

LEMMA NextItemIs ==
  ASSUME TypeOK, BoardInv
  PROVE  /\ NextItem \in Items
         /\ NextItem.run = boardRun /\ NextItem.isHeader = ~halfSent
         /\ NextItem.index = Len(Text) - Len(todo) + 1
         /\ NextItem.index \in 1 .. Len(Text) + 1
         /\ todo # <<>> => Genuine(NextItem)
<1>1. /\ boardRun \in 1 .. MaxRuns /\ Len(Text) \in Nat /\ Len(todo) \in Nat
      /\ Len(todo) <= Len(Text) /\ todo \in Seq(Letters) /\ halfSent \in BOOLEAN
  BY Texts DEF TypeOK, BoardInv, Letters
<1> DEFINE i == Len(Text) - Len(todo) + 1
           b == IF halfSent THEN Head(todo) ELSE Header
<1>2. i \in 1 .. Len(Text) + 1 /\ i \in Nat /\ (todo # <<>> => i <= Len(Text))
  BY <1>1
<1>3. todo # <<>> => Head(todo) \in Letters /\ Head(todo) = Full(boardRun)[i] /\ i <= Len(Full(boardRun))
  <2> HAVE todo # <<>>
  <2>1. Len(todo) >= 1 /\ Head(todo) = todo[1] /\ todo[1] \in Letters
    BY <1>1
  <2>2. 1 \in 1 .. Len(todo) /\ Len(Text) - Len(todo) + 1 = i
    BY <1>1, <2>1
  <2>3. Head(todo) = Text[i]
    BY <2>1, <2>2 DEF BoardInv
  <2>4. i \in 1 .. Len(Text)
    BY <1>1, <1>2
  <2>5. /\ \A k \in 1 .. Len(Text) : Text[k] = Full(boardRun)[k]
        /\ Len(Text) <= Len(Full(boardRun)) /\ Len(Full(boardRun)) \in Nat
    BY Texts, WholeText DEF Full
  <2> HIDE DEF i
  <2> QED BY <1>1, <2>1, <2>3, <2>4, <2>5
<1>4. b \in Letters
  <2>1. Header \in Letters
    BY DEF Header, Letters, DataBytes
  <2> QED BY <1>3, <2>1 DEF BoardInv
<1>5. /\ NextItem.run = boardRun /\ NextItem.isHeader = ~halfSent /\ NextItem.index = i
      /\ NextItem.byte = b
      /\ NextItem = [byte |-> b, isHeader |-> ~halfSent, run |-> boardRun, index |-> i]
  BY DEF NextItem
<1> HIDE DEF i, b
<1>6. NextItem \in Items
  BY <1>1, <1>2, <1>4, <1>5 DEF Items
<1>7. todo # <<>> => Genuine(NextItem)
  <2> HAVE todo # <<>>
  <2>1. Len(Full(boardRun)) \in Nat
    BY <1>1, Texts, WholeText DEF Full
  <2>2. i \in 1 .. Len(Full(boardRun)) /\ i <= Len(Text)
    BY <1>1, <1>2, <1>3, <2>1
  <2>3. b = IF ~halfSent THEN Header ELSE Full(boardRun)[i]
    BY <1>3 DEF b
  <2>4. boardRun <= boardRun
    BY <1>1
  <2>5. Len(Text) = Len(TextOf(data[boardRun], at))
    BY Texts
  <2> QED BY <1>5, <2>2, <2>3, <2>4, <2>5 DEF Genuine, GenuineIn, Full
<1> QED BY <1>2, <1>5, <1>6, <1>7 DEF i


LEMMA TraceKeepsBoard ==
  ASSUME TypeOK, BoardInv, Trace
  PROVE  /\ TypeOK' /\ BoardInv' /\ NextItem' = NextItem
         /\ Len(Text) <= Len(Text')
         /\ \A r \in 1 .. MaxRuns : r # boardRun => data'[r] = data[r]
         /\ \A k \in 1 .. Len(Text) : Full(boardRun)'[k] = Full(boardRun)[k]
         /\ Len(Full(boardRun)) <= Len(Full(boardRun)')
<1> DEFINE d == data[boardRun]
<1>1. /\ boardRun \in 1 .. MaxRuns /\ d \in Seq(DataBytes) /\ Len(d) \in Nat
      /\ at = "bench" /\ todo = <<>> /\ Len(todo) = 0
      /\ Len(Text) = Len(d) + 2 /\ Len(Whole(d)) = Len(d) + 4 /\ MaxData \in Nat
  <2>1. at = "bench" /\ todo = <<>>
    BY DEF Trace
  <2> QED BY <2>1, Texts, WholeText
<1>2. halfSent = FALSE /\ boardRun' = boardRun /\ halfSent' = FALSE
  BY <1>1 DEF BoardInv, Trace, TypeOK
<1>3. NextItem = [byte |-> Header, isHeader |-> TRUE, run |-> boardRun, index |-> Len(d) + 3]
  <2>1. Len(Text) - Len(todo) + 1 = Len(d) + 3
    BY <1>1
  <2> QED BY <1>2, <2>1 DEF NextItem
<1>4. Text' = TextOf(data'[boardRun], at')
  BY <1>2 DEF Text, TextOf
<1>5. Full(boardRun) = Whole(d) /\ \A r : Full(r)' = Whole(data'[r])
  BY DEF Full
<1> DEFINE t == Text'
<1>9. d = data[boardRun] /\ t = Text'
  OBVIOUS
<1> HIDE DEF d, t
<1>6. CASE /\ Len(d) < MaxData
           /\ \E byte \in DataBytes : data' = [data EXCEPT ![boardRun] = Append(@, byte)] /\ todo' = <<byte>>
           /\ at' = at
  <2>1. PICK byte \in DataBytes : data' = [data EXCEPT ![boardRun] = Append(@, byte)] /\ todo' = <<byte>>
    BY <1>6
  <2> DEFINE e == Append(d, byte)
  <2>2. /\ e \in Seq(DataBytes) /\ Len(e) = Len(d) + 1
        /\ Len(Whole(e)) = Len(Whole(d)) + 1
        /\ \A k \in 1 .. Len(d) + 2 : Whole(e)[k] = Whole(d)[k]
        /\ Whole(e)[Len(d) + 3] = byte
    BY <1>1, WholeGrows
  <2>3. /\ data \in [1 .. MaxRuns -> BoundedSeq(DataBytes, MaxData)]
        /\ data'[boardRun] = e /\ \A r \in 1 .. MaxRuns : r # boardRun => data'[r] = data[r]
    BY <1>1, <1>9, <2>1 DEF TypeOK
  <2>4. data' \in [1 .. MaxRuns -> BoundedSeq(DataBytes, MaxData)]
    <3>1. e \in BoundedSeq(DataBytes, MaxData)
      <4>1. e \in Seq(DataBytes) /\ Len(e) <= MaxData
        BY <1>1, <1>6, <2>2
      <4> HIDE DEF e
      <4> QED BY <4>1, DataBounded
    <3> HIDE DEF e
    <3> QED BY <2>1, <2>3, <3>1
  <2>5. at' = "bench"
    BY <1>1, <1>6
  <2>6. /\ t = TextOf(e, "bench")
        /\ Len(t) = Len(d) + 3
        /\ \A k \in 1 .. Len(t) : t[k] = Whole(e)[k]
    <3>1. t = TextOf(e, "bench")
      <4> HIDE DEF e
      <4> QED BY <1>4, <1>9, <2>3, <2>5
    <3>2. /\ Len(TextOf(e, "bench")) = Len(e) + 2
          /\ \A k \in 1 .. Len(TextOf(e, "bench")) : TextOf(e, "bench")[k] = Whole(e)[k]
      <4> HIDE DEF e
      <4> QED BY <2>2, TextSoFar
    <3> HIDE DEF e
    <3> QED BY <1>1, <2>2, <3>1, <3>2
  <2> HIDE DEF e
  <2>7. Len(todo') = 1 /\ todo'[1] = byte /\ todo' \in Seq(Letters)
    BY <2>1 DEF Letters
  <2>8. TypeOK'
    <3>1. /\ UNCHANGED <<boardRun, halfSent, wire, lost, closed, workerRun, need, payload, heap, fooled>>
          /\ at' = at
      BY <1>6 DEF Trace, worker
    <3>2. todo' \in Seq(DataBytes \cup {R, D})
      BY <2>7 DEF Letters
    <3> QED BY <2>4, <3>1, <3>2 DEF TypeOK
  <2>9. BoardInv'
    <3>1. Len(todo') <= Len(t)
      BY <1>1, <2>6, <2>7
    <3>2. \A k \in 1 .. Len(todo') : todo'[k] = t[Len(t) - Len(todo') + k]
      <4>1. t[Len(d) + 3] = byte
        BY <1>1, <2>2, <2>6
      <4>2. Len(t) - Len(todo') + 1 = Len(d) + 3
        BY <1>1, <2>6, <2>7
      <4> QED BY <2>7, <4>1, <4>2
    <3>3. \A r \in 1 .. MaxRuns : r > boardRun' => data'[r] = <<>>
      BY <1>1, <1>2, <2>3 DEF BoardInv
    <3>4. workerRun' <= MaxRuns
      BY DEF BoardInv, Trace, worker
    <3> QED BY <1>2, <1>9, <3>1, <3>2, <3>3, <3>4 DEF BoardInv
  <2>10. NextItem' = NextItem
    <3>1. Len(t) - Len(todo') + 1 = Len(d) + 3
      BY <1>1, <2>6, <2>7
    <3>2. NextItem' = [byte |-> Header, isHeader |-> TRUE, run |-> boardRun, index |-> Len(d) + 3]
      BY <1>2, <1>9, <3>1 DEF NextItem
    <3> QED BY <1>3, <3>2
  <2> QED BY <1>1, <1>2, <1>5, <1>9, <2>2, <2>3, <2>6, <2>8, <2>9, <2>10
<1>7. CASE at' = "ended" /\ todo' = DONE /\ data' = data
  <2>1. /\ t = TextOf(d, "ended") /\ Len(t) = Len(d) + 4
        /\ \A k \in 1 .. Len(t) : t[k] = Whole(d)[k]
    <3>1. t = TextOf(d, "ended")
      BY <1>4, <1>7, <1>9
    <3>2. /\ Len(TextOf(d, "ended")) = Len(d) + 4
          /\ \A k \in 1 .. Len(TextOf(d, "ended")) : TextOf(d, "ended")[k] = Whole(d)[k]
      <4> QED BY <1>1, TextSoFar
    <3> QED BY <3>1, <3>2
  <2>2. Len(todo') = 2 /\ todo'[1] = D /\ todo'[2] = Newline /\ todo' \in Seq(Letters)
    BY <1>7 DEF DONE, Letters, DataBytes
  <2>3. TypeOK'
    <3>1. UNCHANGED <<boardRun, halfSent, wire, lost, closed, workerRun, need, payload, heap, fooled>>
      BY DEF Trace, worker
    <3>2. todo' \in Seq(DataBytes \cup {R, D})
      BY <2>2 DEF Letters
    <3> QED BY <1>7, <3>1, <3>2 DEF TypeOK
  <2>4. BoardInv'
    <3>1. Len(todo') <= Len(t)
      BY <1>1, <2>1, <2>2
    <3>2. \A k \in 1 .. Len(todo') : todo'[k] = t[Len(t) - Len(todo') + k]
      <4>1. Whole(d)[Len(d) + 3] = D /\ Whole(d)[Len(d) + 4] = Newline
        BY <1>1, WholeText
      <4>2. t[Len(d) + 3] = D /\ t[Len(d) + 4] = Newline
        BY <1>1, <2>1, <4>1
      <4>3. Len(t) - Len(todo') + 1 = Len(d) + 3 /\ Len(t) - Len(todo') + 2 = Len(d) + 4
        BY <1>1, <2>1, <2>2
      <4>4. \A k \in 1 .. Len(todo') : k = 1 \/ k = 2
        BY <2>2
      <4> QED BY <2>2, <4>2, <4>3, <4>4
    <3>3. \A r \in 1 .. MaxRuns : r > boardRun' => data'[r] = <<>>
      BY <1>2, <1>7 DEF BoardInv
    <3>4. workerRun' <= MaxRuns
      BY DEF BoardInv, Trace, worker
    <3> QED BY <1>2, <1>9, <3>1, <3>2, <3>3, <3>4 DEF BoardInv
  <2>5. NextItem' = NextItem
    <3>1. Len(t) - Len(todo') + 1 = Len(d) + 3
      BY <1>1, <2>1, <2>2
    <3>2. NextItem' = [byte |-> Header, isHeader |-> TRUE, run |-> boardRun, index |-> Len(d) + 3]
      BY <1>2, <1>9, <3>1 DEF NextItem
    <3> QED BY <1>3, <3>2
  <2>6. Len(Text) <= Len(t)
    BY <1>1, <2>1
  <2>7. Full(boardRun)' = Full(boardRun)
    BY <1>2, <1>5, <1>7, <1>9
  <2> QED BY <1>1, <1>2, <1>5, <1>7, <1>9, <2>1, <2>3, <2>4, <2>5, <2>7
<1> QED BY <1>6, <1>7, <1>9 DEF Trace

LEMMA GenuineMeans ==
  ASSUME TypeOK, NEW x \in Items, Genuine(x)
  PROVE  /\ x.run \in 1 .. boardRun /\ x.run \in 1 .. MaxRuns
         /\ x.index \in 1 .. Len(Full(x.run))
         /\ x.run = boardRun => x.index <= Len(Text)
         /\ x.byte = IF x.isHeader THEN Header ELSE Full(x.run)[x.index]
         /\ boardRun \in Nat /\ Len(Text) \in Nat
<1>1. x.run \in 1 .. MaxRuns
  BY DEF Items
<1>2. boardRun \in 1 .. MaxRuns /\ MaxRuns \in Nat /\ Text = TextOf(data[boardRun], at) /\ Len(Text) \in Nat
  BY Texts
<1>3. /\ x.run <= boardRun
      /\ x.index \in 1 .. Len(Full(x.run))
      /\ x.run = boardRun => x.index <= Len(TextOf(data[boardRun], at))
      /\ x.byte = IF x.isHeader THEN Header ELSE Full(x.run)[x.index]
  BY DEF Genuine, GenuineIn, Full
<1> QED BY <1>1, <1>2, <1>3

(* What keeps an item genuine, and the wire with it.                       *)
LEMMA GenuineKept ==
  ASSUME TypeOK, NEW x \in Items, Genuine(x),
         boardRun' >= boardRun, boardRun' \in Nat,
         \A r \in 1 .. boardRun :
           /\ Len(Full(r)) <= Len(Full(r)') /\ Len(Full(r)') \in Nat
           /\ \A k \in 1 .. Len(Full(r)) :
                (r = boardRun => k <= Len(Text)) => Full(r)'[k] = Full(r)[k],
         boardRun' = boardRun => Len(Text) <= Len(Text') /\ Len(Text') \in Nat
  PROVE  GenuineIn(x, data', boardRun', at')
<1>1. /\ x.run \in 1 .. boardRun /\ x.index \in 1 .. Len(Full(x.run))
      /\ x.run = boardRun => x.index <= Len(Text)
      /\ x.byte = IF x.isHeader THEN Header ELSE Full(x.run)[x.index]
      /\ boardRun \in Nat /\ Len(Text) \in Nat
  BY GenuineMeans
<1>2. Full(x.run)'[x.index] = Full(x.run)[x.index]
  BY <1>1
<1>3. x.index \in 1 .. Len(Full(x.run)')
  BY <1>1
<1>4. x.run = boardRun' => boardRun' = boardRun /\ x.index <= Len(Text')
  BY <1>1
<1>5. x.run <= boardRun'
  BY <1>1
<1>6. Text' = TextOf(data'[boardRun'], at') /\ \A r : Full(r)' = Whole(data'[r])
  BY DEF Text, TextOf, Full
<1> QED BY <1>1, <1>2, <1>3, <1>4, <1>5, <1>6 DEF GenuineIn

LEMMA WireTyped ==
  ASSUME TypeOK
  PROVE  /\ wire \in Seq(Items) /\ Len(wire) \in Nat /\ todo \in Seq(Letters)
         /\ \A k \in 1 .. Len(wire) : wire[k] \in Items
<1>1. wire \in Seq(Items) /\ todo \in Seq(Letters)
  BY DEF TypeOK, Items, Letters
<1> QED BY <1>1

LEMMA TraceKeepsBase ==
  ASSUME BaseInv, Trace
  PROVE  BaseInv'
<1>1. TypeOK /\ BoardInv /\ ReaderInv /\ WireInv
  BY DEF BaseInv
<1>2. /\ TypeOK' /\ BoardInv' /\ Len(Text) <= Len(Text')
      /\ \A r \in 1 .. MaxRuns : r # boardRun => data'[r] = data[r]
      /\ \A k \in 1 .. Len(Text) : Full(boardRun)'[k] = Full(boardRun)[k]
      /\ Len(Full(boardRun)) <= Len(Full(boardRun)')
  BY <1>1, TraceKeepsBoard
<1>3. /\ boardRun' = boardRun /\ wire' = wire /\ heap' = heap /\ payload' = payload
      /\ boardRun \in 1 .. MaxRuns /\ MaxRuns \in Nat /\ boardRun \in Nat
  BY <1>1, Texts DEF Trace, worker
<1>4. ReaderInv'
  BY <1>1, <1>3 DEF ReaderInv, Reading
<1>5. \A r \in 1 .. MaxRuns : Len(Full(r)) \in Nat
  BY <1>1, Texts, WholeText DEF Full
<1>6. \A r \in 1 .. MaxRuns : data'[r] \in Seq(DataBytes)
  BY <1>2, DataTyped DEF TypeOK
<1>7. \A r \in 1 .. MaxRuns : Len(Full(r)') \in Nat
  <2> TAKE r \in 1 .. MaxRuns
  <2>1. Full(r)' = Whole(data'[r])
    BY DEF Full
  <2> QED BY <1>6, <2>1, WholeText
<1>8. \A r \in 1 .. MaxRuns : r # boardRun => Full(r)' = Full(r)
  BY <1>2 DEF Full
<1>9. ASSUME NEW r \in 1 .. boardRun
      PROVE  /\ Len(Full(r)) <= Len(Full(r)') /\ Len(Full(r)') \in Nat
             /\ \A k \in 1 .. Len(Full(r)) :
                  (r = boardRun => k <= Len(Text)) => Full(r)'[k] = Full(r)[k]
  <2>1. r \in 1 .. MaxRuns
    BY <1>3
  <2>2. CASE r # boardRun
    BY <1>5, <1>8, <2>1, <2>2
  <2>3. CASE r = boardRun
    <3>1. Len(Full(r)') \in Nat
      BY <1>7, <2>1
    <3>2. Full(r)' = Full(boardRun)'
      BY <1>3, <2>3 DEF Full
    <3> QED BY <1>2, <1>3, <2>3, <3>1, <3>2
  <2> QED BY <2>2, <2>3
<1>10. Len(Text') \in Nat
  <2>1. boardRun \in 1 .. MaxRuns /\ data'[boardRun] \in Seq(DataBytes) /\ Text' = TextOf(data'[boardRun], at')
    BY <1>3, <1>6 DEF Text, TextOf
  <2> QED BY <2>1, TextSoFar
<1>11. WireInv'
  <2>1. \A k \in 1 .. Len(wire) : wire[k] \in Items /\ Genuine(wire[k])
    BY <1>1, WireTyped DEF WireInv
  <2>2. boardRun' >= boardRun /\ boardRun' \in Nat
    BY <1>3
  <2>3. Len(Text) <= Len(Text') /\ Len(Text') \in Nat
    BY <1>2, <1>10
  <2>4. ASSUME NEW x \in Items, Genuine(x) PROVE GenuineIn(x, data', boardRun', at')
    BY <1>1, <1>9, <2>2, <2>3, <2>4, GenuineKept
  <2> QED BY <1>3, <2>1, <2>4 DEF WireInv, Genuine
<1> QED BY <1>2, <1>4, <1>11 DEF BaseInv

(* Nothing happens to the text.                                            *)
LEMMA SameTexts ==
  ASSUME UNCHANGED <<data, boardRun, at>>
  PROVE  /\ Text' = Text /\ \A r : Full(r)' = Full(r)
         /\ \A x : Genuine(x) => GenuineIn(x, data', boardRun', at')
<1>1. Text' = Text
  BY DEF Text
<1>2. \A r : Full(r)' = Full(r)
  BY DEF Full
<1> QED BY <1>1, <1>2 DEF Genuine

LEMMA SendKeepsBase ==
  ASSUME BaseInv, Send
  PROVE  BaseInv'
<1>1. TypeOK /\ BoardInv /\ ReaderInv /\ WireInv
  BY DEF BaseInv
<1>2. /\ todo # <<>> /\ Len(wire) < MaxWire /\ halfSent \in BOOLEAN
      /\ UNCHANGED <<data, boardRun, at, closed, workerRun, need, payload, heap, fooled>>
      /\ halfSent' = ~halfSent
      /\ todo' = IF halfSent THEN Tail(todo) ELSE todo
  BY <1>1 DEF Send, worker, TypeOK
<1>3. /\ NextItem \in Items /\ Genuine(NextItem) /\ wire \in Seq(Items) /\ Len(wire) \in Nat
      /\ todo \in Seq(Letters) /\ MaxWire \in Nat /\ MaxLost \in Nat
  BY <1>1, <1>2, NextItemIs, WireTyped, SwoLinkAssumption
<1>4. /\ Text' = Text /\ \A r : Full(r)' = Full(r)
      /\ \A x : Genuine(x) => GenuineIn(x, data', boardRun', at')
  BY <1>2, SameTexts
<1> DEFINE n == NextItem
<1>5. n \in Items /\ GenuineIn(n, data', boardRun', at')
  BY <1>3, <1>4
<1> HIDE DEF n
<1>6. \/ wire' = Append(wire, n) /\ lost' = lost
      \/ lost < MaxLost /\ lost' = lost + 1 /\ wire' = wire
  BY DEF Send, n
<1>7. wire' \in Seq(Items) /\ Len(wire') <= MaxWire /\ lost' \in 0 .. MaxLost
  <2>1. CASE wire' = Append(wire, n) /\ lost' = lost
    <3>1. Append(wire, n) \in Seq(Items) /\ Len(Append(wire, n)) = Len(wire) + 1
      BY <1>3, <1>5
    <3> QED BY <1>1, <1>2, <1>3, <2>1, <3>1 DEF TypeOK
  <2>2. CASE lost < MaxLost /\ lost' = lost + 1 /\ wire' = wire
    BY <1>1, <1>2, <1>3, <2>2 DEF TypeOK
  <2> QED BY <1>6, <2>1, <2>2
<1>8. /\ todo' \in Seq(Letters)
      /\ halfSent => /\ Len(todo') = Len(todo) - 1
                     /\ \A k \in 1 .. Len(todo') : todo'[k] = todo[k + 1]
  BY <1>2, <1>3
<1>9. TypeOK'
  <2>1. todo' \in Seq(DataBytes \cup {R, D})
    BY <1>8 DEF Letters
  <2>2. wire' \in Seq([byte : DataBytes \cup {R, D}, isHeader : BOOLEAN, run : 1 .. MaxRuns, index : Nat])
    BY <1>7 DEF Items, Letters
  <2> QED BY <1>1, <1>2, <1>7, <2>1, <2>2 DEF TypeOK
<1>10. BoardInv'
  <2>1. Len(Text) \in Nat /\ Len(todo) \in Nat /\ Len(todo) <= Len(Text)
    BY <1>1, <1>3, Texts DEF BoardInv
  <2>2. /\ Len(todo') <= Len(Text)
        /\ \A k \in 1 .. Len(todo') : todo'[k] = Text[Len(Text) - Len(todo') + k]
    <3>1. CASE halfSent
      <4> SUFFICES ASSUME NEW k \in 1 .. Len(todo')
                   PROVE  todo'[k] = Text[Len(Text) - Len(todo') + k]
        BY <1>8, <2>1, <3>1
      <4>0. Len(todo') \in Nat /\ Len(todo') = Len(todo) - 1
        BY <1>8, <3>1
      <4>1. k + 1 \in 1 .. Len(todo) /\ Len(Text) - Len(todo) + (k + 1) = Len(Text) - Len(todo') + k
        BY <2>1, <4>0
      <4>2. todo[k + 1] = Text[Len(Text) - Len(todo) + (k + 1)]
        BY <1>1, <4>1 DEF BoardInv
      <4> QED BY <1>8, <3>1, <4>1, <4>2
    <3>2. CASE ~halfSent
      <4>1. todo' = todo
        BY <1>2, <3>2
      <4> QED BY <1>1, <4>1 DEF BoardInv
    <3> QED BY <3>1, <3>2
  <2>3. halfSent' => todo' # <<>>
    BY <1>2
  <2>4. workerRun' <= MaxRuns /\ \A r \in 1 .. MaxRuns : r > boardRun' => data'[r] = <<>>
    BY <1>1, <1>2 DEF BoardInv
  <2> QED BY <1>4, <2>2, <2>3, <2>4 DEF BoardInv
<1>11. ReaderInv'
  BY <1>1, <1>2 DEF ReaderInv, Reading
<1>12. WireInv'
  <2> SUFFICES ASSUME NEW k \in 1 .. Len(wire') PROVE GenuineIn(wire'[k], data', boardRun', at')
    BY DEF WireInv, Genuine
  <2>1. \A i \in 1 .. Len(wire) : GenuineIn(wire[i], data', boardRun', at')
    BY <1>1, <1>4 DEF WireInv
  <2>2. CASE wire' = Append(wire, n)
    <3>1. CASE k \in 1 .. Len(wire)
      <4>1. wire'[k] = wire[k]
        BY <1>3, <2>2, <3>1
      <4> QED BY <2>1, <3>1, <4>1
    <3>2. CASE k = Len(wire) + 1
      <4>1. wire'[k] = n
        BY <1>3, <1>5, <2>2, <3>2
      <4> QED BY <1>5, <4>1
    <3>3. Len(wire') = Len(wire) + 1
      BY <1>3, <1>5, <2>2
    <3> QED BY <1>3, <3>1, <3>2, <3>3
  <2>3. CASE wire' = wire
    BY <2>1, <2>3
  <2> QED BY <1>6, <2>2, <2>3
<1> QED BY <1>9, <1>10, <1>11, <1>12 DEF BaseInv

LEMMA ResetKeepsBase ==
  ASSUME BaseInv, Reset
  PROVE  /\ BaseInv' /\ boardRun' = boardRun + 1 /\ workerRun = boardRun + 1
         /\ NextItem'.isHeader /\ NextItem'.run = boardRun + 1 /\ NextItem'.index = 1
<1>1. TypeOK /\ BoardInv /\ ReaderInv /\ WireInv
  BY DEF BaseInv
<1>2. /\ boardRun' = boardRun + 1 /\ at' = "bench" /\ todo' = READY /\ halfSent' = FALSE
      /\ boardRun < workerRun
      /\ UNCHANGED <<data, wire, lost, closed, workerRun, need, payload, heap, fooled>>
  BY DEF Reset, worker
<1>3. /\ boardRun \in 1 .. MaxRuns /\ MaxRuns \in Nat /\ boardRun' \in 1 .. MaxRuns /\ boardRun' > boardRun
      /\ workerRun = boardRun + 1 /\ workerRun \in boardRun' .. boardRun' + 1
  BY <1>1, <1>2, Texts DEF TypeOK, BoardInv
<1>4. /\ Len(READY) = 2 /\ READY \in Seq(Letters) /\ READY \in Seq(DataBytes \cup {R, D})
      /\ READY[1] = R /\ READY[2] = Newline
  BY DEF READY, Letters, DataBytes
<1>5. TypeOK'
  BY <1>1, <1>2, <1>3, <1>4 DEF TypeOK
<1>6. data[boardRun + 1] = <<>>
  BY <1>1, <1>2, <1>3 DEF BoardInv
<1>7. Text' = READY
  <2>1. Text' = READY \o <<>> \o <<>>
    BY <1>2, <1>6 DEF Text
  <2> QED BY <1>4, <2>1
<1>8. BoardInv'
  <2>0. Text' = todo' /\ Len(todo') = 2
    BY <1>2, <1>4, <1>7
  <2>1. \A k \in 1 .. Len(todo') : todo'[k] = Text'[Len(Text') - Len(todo') + k]
    <3>1. \A k \in 1 .. 2 : 2 - 2 + k = k
      OBVIOUS
    <3> QED BY <2>0, <3>1
  <2>2. \A r \in 1 .. MaxRuns : r > boardRun' => data'[r] = <<>>
    BY <1>1, <1>2, <1>3 DEF BoardInv
  <2>3. Len(todo') <= Len(Text')
    BY <2>0
  <2>4. halfSent' = FALSE /\ workerRun' <= MaxRuns
    BY <1>1, <1>2 DEF BoardInv
  <2> QED BY <2>1, <2>2, <2>3, <2>4 DEF BoardInv
<1>9. NextItem'.isHeader /\ NextItem'.run = boardRun + 1 /\ NextItem'.index = 1
  <2>1. Len(Text') - Len(todo') + 1 = 1
    BY <1>2, <1>4, <1>7
  <2> QED BY <1>2, <2>1 DEF NextItem
<1>10. ReaderInv'
  BY <1>1, <1>2 DEF ReaderInv, Reading
<1>11. WireInv'
  <2>1. ASSUME NEW x \in Items, Genuine(x) PROVE GenuineIn(x, data', boardRun', at')
    BY <1>1, <1>2, <1>3, <2>1, GenuineMeans DEF GenuineIn, Full
  <2> QED BY <1>1, <1>2, <2>1, WireTyped DEF WireInv, Genuine
<1> QED BY <1>2, <1>3, <1>5, <1>8, <1>9, <1>10, <1>11 DEF BaseInv

LEMMA OthersKeepBase ==
  ASSUME BaseInv, Close \/ NewWorker \/ UNCHANGED vars
  PROVE  BaseInv'
<1>1. TypeOK /\ BoardInv /\ ReaderInv /\ WireInv
  BY DEF BaseInv
<1>2. UNCHANGED <<data, boardRun, at, todo, halfSent, wire, lost, fooled>>
  BY DEF Close, NewWorker, vars, board, worker
<1>3. /\ Text' = Text /\ \A x : Genuine(x) => GenuineIn(x, data', boardRun', at')
  BY <1>2, SameTexts
<1>4. WireInv'
  BY <1>1, <1>2, <1>3 DEF WireInv, Genuine
<1>5. CASE NewWorker
  <2>1. /\ workerRun < MaxRuns /\ workerRun = boardRun /\ workerRun' = workerRun + 1
        /\ need' = 0 /\ payload' = <<>> /\ heap' = Seeking /\ closed' = closed
        /\ boardRun \in 1 .. MaxRuns /\ MaxRuns \in Nat
    BY <1>1, <1>5, Texts DEF NewWorker
  <2>2. Len(payload') = 0 /\ Seeking.mode = "seek"
    BY <2>1 DEF Seeking
  <2>3. TypeOK'
    <3>1. workerRun' \in boardRun' .. boardRun' + 1
      BY <1>2, <2>1
    <3> QED BY <1>1, <1>2, <2>1, <2>2, <3>1 DEF TypeOK
  <2>4. BoardInv'
    BY <1>1, <1>2, <1>3, <2>1 DEF BoardInv
  <2>5. ReaderInv'
    <3>1. Seeking \in Reader
      BY DEF Seeking, Reader
    <3>2. Reading' = Seeking
      BY <2>1, FedNothing DEF Reading
    <3> QED BY <2>1, <2>2, <3>1, <3>2 DEF ReaderInv
  <2> QED BY <1>4, <2>3, <2>4, <2>5 DEF BaseInv
<1>6. CASE Close \/ UNCHANGED vars
  <2>1. UNCHANGED <<workerRun, need, payload, heap>> /\ closed' \in BOOLEAN
    BY <1>1, <1>6 DEF Close, vars, worker, TypeOK
  <2>2. TypeOK'
    BY <1>1, <1>2, <2>1 DEF TypeOK
  <2>3. BoardInv'
    BY <1>1, <1>2, <1>3, <2>1 DEF BoardInv
  <2>4. ReaderInv'
    BY <1>1, <2>1 DEF ReaderInv, Reading
  <2> QED BY <1>4, <2>2, <2>3, <2>4 DEF BaseInv
<1> QED BY <1>5, <1>6

(* What readinto() and get_heap() make of one item: a header is remembered *)
(* and any other byte is read.                                             *)
Taken(x) ==
  \/ /\ need = 0 /\ IsHeader(x.byte)
     /\ need' = SizeOf(x.byte) /\ payload' = <<>> /\ Reading' = Reading
  \/ /\ need = 0 /\ ~IsHeader(x.byte)
     /\ need' = 0 /\ payload' = <<>> /\ Reading' = Byte(Reading, x.byte)
  \/ /\ need > 0
     /\ need' = need - 1
     /\ payload' = IF need = 1 THEN <<>> ELSE Append(payload, x.byte)
     /\ Reading' = Byte(Reading, x.byte)

LEMMA ReceiveTakes ==
  ASSUME BaseInv, Receive
  PROVE  /\ BaseInv'
         /\ wire # <<>> /\ wire' = Tail(wire) /\ Head(wire) \in Items /\ Genuine(Head(wire))
         /\ Taken(Head(wire))
         /\ UNCHANGED <<data, boardRun, at, todo, halfSent, lost, workerRun>>
<1>1. TypeOK /\ BoardInv /\ ReaderInv /\ WireInv
  BY DEF BaseInv
<1>2. /\ UNCHANGED <<data, boardRun, at, todo, halfSent, lost, closed, workerRun>>
      /\ wire # <<>> /\ wire' = Tail(wire) /\ heap.mode # "done"
  BY DEF Receive, ReceiveHeader, ReceivePayload, board
<1>3. /\ Text' = Text /\ \A x : Genuine(x) => GenuineIn(x, data', boardRun', at')
  BY <1>2, SameTexts
<1>4. /\ wire \in Seq(Items) /\ Len(wire) \in Nat \ {0}
      /\ Head(wire) = wire[1] /\ Head(wire) \in Items /\ 1 \in 1 .. Len(wire)
      /\ wire' \in Seq(Items) /\ Len(wire') = Len(wire) - 1
      /\ \A k \in 1 .. Len(wire') : wire'[k] = wire[k + 1]
  BY <1>1, <1>2, WireTyped
<1>5. Genuine(Head(wire))
  BY <1>1, <1>4 DEF WireInv
<1>6. WireInv'
  <2>1. \A k \in 1 .. Len(wire') : k + 1 \in 1 .. Len(wire)
    BY <1>4
  <2> QED BY <1>1, <1>3, <1>4, <2>1 DEF WireInv, Genuine
<1>7. BoardInv'
  BY <1>1, <1>2, <1>3 DEF BoardInv
<1> DEFINE b == Head(wire).byte
<1>8. b \in Letters
  BY <1>4 DEF Items
<1>9. /\ heap \in Reader /\ payload \in Seq(Letters) /\ Reading \in Reader
      /\ need \in 0 .. 4 /\ (need = 0 => payload = <<>>)
      /\ need + Len(payload) \in {0, 1, 2, 4} /\ fooled \in BOOLEAN
      /\ Len(payload) \in Nat /\ (payload = <<>> => Reading = heap)
  BY <1>1, FedNothing DEF TypeOK, ReaderInv, Reading
<1>10. /\ Byte(Reading, b) \in Reader /\ Append(payload, b) \in Seq(Letters)
       /\ Len(Append(payload, b)) = Len(payload) + 1
       /\ Fed(heap, Append(payload, b)) = Byte(Reading, b)
  <2> HIDE DEF b
  <2>1. Byte(Reading, b) \in Reader
    BY <1>8, <1>9, ByteIs
  <2>2. Fed(heap, Append(payload, b)) = Byte(Reading, b)
    BY <1>8, <1>9, FedOneMore DEF Reading
  <2>3. Append(payload, b) \in Seq(Letters) /\ Len(Append(payload, b)) = Len(payload) + 1
    BY <1>8, <1>9
  <2> QED BY <2>1, <2>2, <2>3
<1>11. \A bytes : Deliver(bytes) <=> heap' = Fed(heap, bytes)
  BY DEF Deliver, Fed
<1> HIDE DEF b
<1>12. /\ Taken(Head(wire)) /\ ReaderInv' /\ need' \in 0 .. 4 /\ (need' = 0 => payload' = <<>>)
       /\ need' + Len(payload') \in {0, 1, 2, 4} /\ fooled' \in BOOLEAN
  <2>1. CASE ReceiveHeader /\ IsHeader(b)
    <3>1. need = 0 /\ need' = SizeOf(b) /\ heap' = heap /\ payload' = payload /\ fooled' \in BOOLEAN
      BY <1>9, <2>1 DEF ReceiveHeader, b
    <3>2. SizeOf(b) \in {1, 2, 4}
      BY <2>1 DEF IsHeader, SizeOf
    <3>3. payload' = <<>> /\ Reading' = Reading /\ Len(payload') = 0
      BY <1>9, <3>1, FedNothing DEF Reading
    <3>4. Taken(Head(wire))
      BY <2>1, <3>1, <3>3 DEF Taken, b
    <3>5. ReaderInv'
      BY <1>9, <3>1, <3>3 DEF ReaderInv
    <3> QED BY <3>1, <3>2, <3>3, <3>4, <3>5
  <2>2. CASE ReceiveHeader /\ ~IsHeader(b)
    <3>1. need = 0 /\ need' = need /\ Deliver(<<b>>) /\ payload' = payload /\ fooled' \in BOOLEAN
      BY <1>9, <2>2 DEF ReceiveHeader, b
    <3>2. <<b>> = Append(payload, b) /\ payload = <<>>
      BY <1>9, <3>1
    <3>3. heap' = Byte(Reading, b)
      BY <1>10, <1>11, <3>1, <3>2
    <3>4. payload' = <<>> /\ Len(payload') = 0 /\ Reading' = heap'
      BY <3>1, <3>2, FedNothing DEF Reading
    <3>5. Taken(Head(wire))
      BY <2>2, <3>1, <3>3, <3>4 DEF Taken, b
    <3>6. ReaderInv'
      BY <1>10, <3>3, <3>4 DEF ReaderInv
    <3> QED BY <3>1, <3>4, <3>5, <3>6
  <2>3. CASE ReceivePayload /\ need = 1
    <3>1. need' = 0 /\ Deliver(Append(payload, b)) /\ payload' = <<>> /\ fooled' \in BOOLEAN
      BY <1>9, <2>3 DEF ReceivePayload, b
    <3>2. heap' = Byte(Reading, b)
      BY <1>10, <1>11, <3>1
    <3>3. Len(payload') = 0 /\ Reading' = heap'
      BY <3>1, FedNothing DEF Reading
    <3>4. Taken(Head(wire))
      BY <2>3, <3>1, <3>2, <3>3 DEF Taken, b
    <3>5. ReaderInv'
      BY <1>10, <3>1, <3>2, <3>3 DEF ReaderInv
    <3> QED BY <3>1, <3>3, <3>4, <3>5
  <2>4. CASE ReceivePayload /\ need # 1
    <3>1. /\ need > 0 /\ need' = need - 1 /\ payload' = Append(payload, b) /\ heap' = heap
          /\ fooled' \in BOOLEAN
      BY <1>9, <2>4 DEF ReceivePayload, b
    <3>2. Reading' = Byte(Reading, b)
      BY <1>10, <3>1 DEF Reading
    <3>3. need' + Len(payload') = need + Len(payload) /\ need' \in 0 .. 4 /\ need' # 0
      BY <1>9, <1>10, <2>4, <3>1
    <3>4. Taken(Head(wire))
      BY <2>4, <3>1, <3>2 DEF Taken, b
    <3>5. ReaderInv'
      BY <1>2, <1>9, <1>10, <3>1, <3>2 DEF ReaderInv
    <3> QED BY <1>9, <3>1, <3>3, <3>4, <3>5
  <2> QED BY <2>1, <2>2, <2>3, <2>4 DEF Receive
<1>13. TypeOK'
  <2>1. heap'.mode \in {"seek", "capture", "done"}
    BY <1>12 DEF ReaderInv, Reader
  <2>2. wire' \in Seq([byte : DataBytes \cup {R, D}, isHeader : BOOLEAN, run : 1 .. MaxRuns, index : Nat])
    BY <1>4 DEF Items, Letters
  <2>3. Len(wire') <= MaxWire
    BY <1>1, <1>4, SwoLinkAssumption DEF TypeOK
  <2> QED BY <1>1, <1>2, <1>12, <2>1, <2>2, <2>3 DEF TypeOK
<1> QED BY <1>2, <1>4, <1>5, <1>6, <1>7, <1>12, <1>13 DEF BaseInv

-------------------------------------------------------------------------------
(* The wire while nothing is lost.                                         *)
LEMMA SendFollows ==
  ASSUME BaseInv, Send
  PROVE  Follows(NextItem, NextItem')
<1>1. TypeOK /\ BoardInv /\ halfSent \in BOOLEAN
  BY DEF BaseInv, TypeOK
<1>2. /\ halfSent' = ~halfSent /\ boardRun' = boardRun /\ Text' = Text
      /\ todo' = IF halfSent THEN Tail(todo) ELSE todo
  BY SameTexts DEF Send
<1>3. /\ NextItem.isHeader = ~halfSent /\ NextItem.run = boardRun
      /\ NextItem.index = Len(Text) - Len(todo) + 1
  BY <1>1, NextItemIs
<1>4. /\ NextItem'.isHeader = ~halfSent' /\ NextItem'.run = boardRun'
      /\ NextItem'.index = Len(Text') - Len(todo') + 1
  BY DEF NextItem
<1>5. Len(Text) \in Nat /\ Len(todo) \in Nat /\ todo # <<>> /\ (halfSent => Len(todo') = Len(todo) - 1)
  <2>1. todo \in Seq(Letters) /\ todo # <<>> /\ Len(Text) \in Nat
    BY <1>1, WireTyped, Texts DEF Send
  <2> QED BY <1>2, <2>1
<1> DEFINE a == Len(Text)
           c == Len(todo)
           d == Len(todo')
<1>6. a \in Nat /\ c \in Nat /\ (halfSent => d = c - 1) /\ (~halfSent => d = c)
  BY <1>2, <1>5
<1>7. NextItem.index = a - c + 1 /\ NextItem'.index = a - d + 1
  BY <1>2, <1>3, <1>4
<1> HIDE DEF a, c, d
<1>8. CASE halfSent
  <2>1. a - d + 1 = (a - c + 1) + 1
    BY <1>6, <1>8
  <2> QED BY <1>2, <1>3, <1>4, <1>7, <1>8, <2>1 DEF Follows
<1>9. CASE ~halfSent
  <2>1. a - d + 1 = a - c + 1
    BY <1>6, <1>9
  <2> QED BY <1>2, <1>3, <1>4, <1>7, <1>9, <2>1 DEF Follows
<1> QED BY <1>8, <1>9

LEMMA TraceKeepsWire ==
  ASSUME BaseInv, WireWhole, Trace
  PROVE  WireWhole' /\ First' = First
<1>1. NextItem' = NextItem /\ wire' = wire
  BY TraceKeepsBoard DEF BaseInv, Trace
<1> QED BY <1>1 DEF WireWhole, First

LEMMA SendKeepsWire ==
  ASSUME BaseInv, WireWhole, Send, lost' = lost
  PROVE  WireWhole' /\ First' = First
<1> DEFINE n == NextItem
           m == NextItem'
<1>1. wire \in Seq(Items) /\ Len(wire) \in Nat /\ n \in Items /\ lost \in Nat
  BY WireTyped, NextItemIs, SwoLinkAssumption DEF BaseInv, TypeOK
<1>2. wire' = Append(wire, n)
  BY <1>1 DEF Send
<1>3. Follows(n, m)
  BY SendFollows
<1>4. /\ \A k \in 1 .. Len(wire) - 1 : Follows(wire[k], wire[k + 1])
      /\ wire # <<>> => Follows(wire[Len(wire)], n)
      /\ First = IF wire = <<>> THEN n ELSE Head(wire)
  BY DEF WireWhole, First
<1>5. m = NextItem'
  OBVIOUS
<1> HIDE DEF n, m
<1>6. /\ Len(wire') = Len(wire) + 1 /\ wire' # <<>> /\ wire'[Len(wire')] = n
      /\ \A k \in 1 .. Len(wire) : wire'[k] = wire[k]
      /\ Head(wire') = IF wire = <<>> THEN n ELSE Head(wire)
  BY <1>1, <1>2
<1>7. ASSUME NEW k \in 1 .. Len(wire') - 1 PROVE Follows(wire'[k], wire'[k + 1])
  <2>1. k \in 1 .. Len(wire)
    BY <1>1, <1>6
  <2>2. CASE k = Len(wire)
    BY <1>1, <1>4, <1>6, <2>1, <2>2
  <2>3. CASE k # Len(wire)
    <3>1. k \in 1 .. Len(wire) - 1 /\ k + 1 \in 1 .. Len(wire)
      BY <1>1, <2>1, <2>3
    <3> QED BY <1>4, <1>6, <2>1, <3>1
  <2> QED BY <2>2, <2>3
<1>8. WireWhole'
  BY <1>3, <1>5, <1>6, <1>7 DEF WireWhole
<1>9. First' = First
  BY <1>4, <1>6 DEF First
<1> QED BY <1>8, <1>9

LEMMA ResetKeepsWire ==
  ASSUME BaseInv, WireWhole, Reset
  PROVE  /\ WireWhole'
         /\ \/ First' = First /\ First \in Items /\ Genuine(First)
            \/ First'.isHeader /\ First'.index = 1 /\ First'.run = boardRun + 1
<1>1. /\ NextItem'.isHeader /\ NextItem'.run = boardRun + 1 /\ NextItem'.index = 1
  BY ResetKeepsBase
<1>2. /\ wire' = wire /\ wire \in Seq(Items) /\ Len(wire) \in Nat /\ boardRun \in Nat
      /\ \A k \in 1 .. Len(wire) : wire[k] \in Items /\ Genuine(wire[k])
  BY WireTyped, Texts DEF BaseInv, Reset, WireInv
<1>3. wire # <<>> => /\ wire[Len(wire)] \in Items /\ Genuine(wire[Len(wire)])
                     /\ Head(wire) \in Items /\ Genuine(Head(wire))
  BY <1>2
<1>4. wire # <<>> => wire[Len(wire)].run <= boardRun /\ wire[Len(wire)].run \in Int
  BY <1>3, GenuineMeans DEF BaseInv
<1>5. wire # <<>> => Follows(wire[Len(wire)], NextItem')
  BY <1>1, <1>2, <1>4 DEF Follows
<1>6. WireWhole'
  BY <1>2, <1>5 DEF WireWhole
<1> QED BY <1>1, <1>2, <1>3, <1>6 DEF First

LEMMA HeadIs ==
  ASSUME NEW S, NEW s \in Seq(S)
  PROVE  (s = <<>> <=> Len(s) = 0) /\ (s # <<>> => Head(s) = s[1])
<1>1. s = <<>> <=> Len(s) = 0
  OBVIOUS
<1>2. s # <<>> => Head(s) = s[1]
  OBVIOUS
<1> QED BY <1>1, <1>2

LEMMA ReceiveKeepsWire ==
  ASSUME BaseInv, WireWhole, Receive
  PROVE  WireWhole' /\ First = Head(wire) /\ Follows(First, First')
<1>1. /\ wire # <<>> /\ wire' = Tail(wire)
      /\ UNCHANGED <<data, boardRun, at, todo, halfSent>>
  BY ReceiveTakes
<1>2. NextItem' = NextItem
  BY <1>1, SameTexts DEF NextItem
<1>3. wire \in Seq(Items)
  BY WireTyped DEF BaseInv
<1>4. /\ Len(wire) \in Nat \ {0} /\ Len(wire') = Len(wire) - 1
      /\ \A k \in 1 .. Len(wire') : wire'[k] = wire[k + 1]
      /\ Head(wire) = wire[1] /\ (wire' = <<>> <=> Len(wire) = 1)
      /\ wire' # <<>> => Head(wire') = wire'[1]
  <2> DEFINE t == wire'
  <2>1. t \in Seq(Items) /\ Len(t) = Len(wire) - 1 /\ Len(wire) \in Nat \ {0}
    BY <1>1, <1>3
  <2>2. \A k \in 1 .. Len(t) : t[k] = wire[k + 1]
    BY <1>1, <1>3
  <2>3. Head(wire) = wire[1]
    BY <1>1, <1>3
  <2> HIDE DEF t
  <2>4. (t = <<>> <=> Len(t) = 0) /\ (t # <<>> => Head(t) = t[1])
    BY <2>1, HeadIs
  <2>5. t = <<>> <=> Len(wire) = 1
    BY <2>1, <2>4
  <2> QED BY <2>1, <2>2, <2>3, <2>4, <2>5 DEF t
<1>5. ASSUME NEW k \in 1 .. Len(wire') - 1 PROVE Follows(wire'[k], wire'[k + 1])
  <2>1. k \in 1 .. Len(wire') /\ k + 1 \in 1 .. Len(wire') /\ k + 1 \in 1 .. Len(wire) - 1
    BY <1>4
  <2> QED BY <1>4, <2>1 DEF WireWhole
<1>6. wire' # <<>> => wire'[Len(wire')] = wire[Len(wire)]
  <2> HAVE wire' # <<>>
  <2>1. Len(wire') \in 1 .. Len(wire') /\ Len(wire') + 1 = Len(wire)
    BY <1>4
  <2> QED BY <1>4, <2>1
<1>7. WireWhole'
  BY <1>1, <1>2, <1>5, <1>6 DEF WireWhole
<1>8. Follows(Head(wire), First')
  <2>1. CASE wire' = <<>>
    BY <1>1, <1>2, <1>4, <2>1 DEF WireWhole, First
  <2>2. CASE wire' # <<>>
    <3>1. 1 \in 1 .. Len(wire') /\ 1 \in 1 .. Len(wire) - 1 /\ 1 + 1 = 2
      BY <1>4, <2>2
    <3> QED BY <1>4, <2>2, <3>1 DEF WireWhole, First
  <2> QED BY <2>1, <2>2
<1> QED BY <1>1, <1>7, <1>8 DEF First

-------------------------------------------------------------------------------
(* The reader while nothing is lost.                                       *)
LEMMA FirstIs ==
  ASSUME BaseInv
  PROVE  /\ First \in Items /\ First.run <= boardRun
         /\ First.run = boardRun => First.index <= Len(Text) + 1
<1>1. TypeOK /\ BoardInv /\ WireInv
  BY DEF BaseInv
<1>2. CASE wire = <<>>
  <2>1. /\ NextItem \in Items /\ NextItem.run = boardRun /\ NextItem.index <= Len(Text) + 1
        /\ boardRun \in Nat
    BY <1>1, NextItemIs, Texts
  <2> QED BY <1>2, <2>1 DEF First
<1>3. CASE wire # <<>>
  <2>1. wire \in Seq(Items)
    BY <1>1, WireTyped
  <2>2. Head(wire) = wire[1] /\ wire[1] \in Items /\ 1 \in 1 .. Len(wire)
    BY <1>3, <2>1
  <2>3. Genuine(Head(wire)) /\ Head(wire) \in Items
    BY <1>1, <2>2 DEF WireInv
  <2>4. /\ Head(wire).run \in 1 .. boardRun /\ Len(Text) \in Nat /\ Head(wire).index \in Nat
        /\ Head(wire).run = boardRun => Head(wire).index <= Len(Text)
    BY <1>1, <2>3, GenuineMeans DEF Items
  <2> QED BY <1>3, <2>3, <2>4 DEF First
<1> QED BY <1>2, <1>3

LEMMA GenuineByte ==
  ASSUME TypeOK, NEW x \in Items, Genuine(x)
  PROVE  /\ x.byte \in Letters /\ x.index \in Nat /\ x.index >= 1
         /\ x.isHeader => x.byte = Header
         /\ ~x.isHeader => /\ x.byte = R <=> x.index = 1
                           /\ x.byte = D <=> x.index = Len(Full(x.run)) - 1
                           /\ x.index = 2 => x.byte = Newline
                           /\ x.byte = Full(x.run)[x.index]
<1>1. /\ x.run \in 1 .. MaxRuns /\ x.index \in 1 .. Len(Full(x.run))
      /\ x.byte = IF x.isHeader THEN Header ELSE Full(x.run)[x.index]
  BY GenuineMeans
<1>2. data[x.run] \in Seq(DataBytes) /\ Full(x.run) = Whole(data[x.run])
  BY <1>1, Texts DEF Full
<1>3. /\ Full(x.run)[x.index] = R <=> x.index = 1
      /\ Full(x.run)[x.index] = D <=> x.index = Len(Full(x.run)) - 1
      /\ x.index = 2 => Full(x.run)[x.index] = Newline
  BY <1>1, <1>2, PlacesOfLetters
<1>4. x.byte \in Letters /\ x.index \in Nat
  BY DEF Items
<1> QED BY <1>1, <1>3, <1>4

LEMMA Bytes ==
  /\ IsHeader(Header) /\ SizeOf(Header) = 1 /\ ~IsHeader(R) /\ ~IsHeader(D) /\ ~IsHeader(Newline)
  /\ Header # R /\ Header # D /\ Header # Newline /\ R # D /\ R # Newline /\ D # Newline
BY DEF IsHeader, SizeOf, Header, R, D, Newline

LEMMA EndsAppended ==
  ASSUME NEW l \in Seq(Letters), NEW b \in Letters, NEW c
  PROVE  (Ends(Append(l, b), c) <=> b = c) /\ ~Ends(<<>>, c)
<1>1. Append(l, b) # <<>> /\ Append(l, b)[Len(Append(l, b))] = b
  BY AppendProperties
<1> QED BY <1>1 DEF Ends

LEMMA ReceiveSeeking ==
  ASSUME BaseInv, WireWhole, Receive, Reading.mode = "seek", SeekInv
  PROVE  HeapInv'
<1> DEFINE x == First
           y == First'
           h == Reading
           b == x.byte
<1>1. /\ x \in Items /\ Genuine(x) /\ Taken(x) /\ Follows(x, y) /\ y = First'
      /\ h \in Reader /\ h.mode = "seek" /\ h = Reading /\ x = First
  BY ReceiveTakes, ReceiveKeepsWire DEF BaseInv, ReaderInv
<1>2. /\ b \in Letters /\ x.index \in Nat /\ x.index >= 1
      /\ x.isHeader => b = Header
      /\ ~x.isHeader => (b = R <=> x.index = 1) /\ (x.index = 2 => b = Newline)
  BY <1>1, GenuineByte DEF BaseInv
<1>3. Ends(h.line, R) => x.index = 1 \/ (x.index = 2 /\ (x.isHeader \/ InPhase))
  BY DEF SeekInv
<1>4. InPhase <=> need <= 1 /\ payload = <<>> /\ (x.isHeader <=> need = 0)
  BY DEF InPhase
<1>5. InPhase' <=> need' <= 1 /\ payload' = <<>> /\ (y.isHeader <=> need' = 0)
  BY DEF InPhase
<1>6. b = x.byte /\ h.line \in Seq(Letters) /\ need \in 0 .. 4
  BY <1>1 DEF Reader, BaseInv, TypeOK
<1> HIDE DEF x, y, h, b
<1>7. CASE need = 0 /\ IsHeader(b)
  <2>1. need' = SizeOf(b) /\ payload' = <<>> /\ Reading' = h
    BY <1>1, <1>6, <1>7 DEF Taken
  <2>2. ASSUME Ends(h.line, R)
        PROVE  y.index = 1 \/ (y.index = 2 /\ (y.isHeader \/ InPhase'))
    <3>1. x.isHeader /\ x.index \in {1, 2}
      BY <1>2, <1>3, <1>4, <1>7, <2>2, Bytes
    <3>2. need' = 1
      BY <1>2, <2>1, <3>1, Bytes
    <3> QED BY <1>1, <1>5, <2>1, <3>1, <3>2 DEF Follows
  <2>3. SeekInv'
    BY <1>1, <2>1, <2>2 DEF SeekInv
  <2> QED BY <1>1, <2>1, <2>3 DEF HeapInv
<1>8. CASE ~(need = 0 /\ IsHeader(b))
  <2>1. /\ Reading' = Byte(h, b)
        /\ need <= 1 => need' = 0 /\ payload' = <<>>
    BY <1>1, <1>6, <1>8 DEF Taken
  <2>2. CASE b # Newline
    <3>1. /\ Byte(h, b) = [h EXCEPT !.line = Append(@, b)] /\ Byte(h, b) \in Reader
      BY <1>1, <1>2, <2>2, ByteIs
    <3>2. Reading'.mode = "seek" /\ Reading'.line = Append(h.line, b)
      BY <1>1, <2>1, <3>1 DEF Reader
    <3>3. Ends(Reading'.line, R) => b = R
      BY <1>2, <1>6, <3>2, EndsAppended
    <3>4. b = R => ~x.isHeader /\ x.index = 1
      BY <1>2, Bytes
    <3>5. b = R => y.isHeader /\ y.index \in {1, 2}
      BY <1>1, <3>4 DEF Follows
    <3>6. SeekInv'
      BY <1>1, <3>3, <3>5 DEF SeekInv
    <3> QED BY <3>2, <3>6 DEF HeapInv
  <2>3. CASE b = Newline /\ Ends(h.line, R)
    <3>1. Byte(h, b) = [mode |-> "capture", line |-> <<>>, total |-> <<>>]
      BY <1>1, <1>2, <2>3, ByteIs
    <3>2. ~x.isHeader /\ x.index = 2 /\ need = 1
      BY <1>2, <1>3, <1>4, <1>6, <2>3, Bytes
    <3>3. need' = 0 /\ payload' = <<>>
      BY <2>1, <3>2
    <3>4. /\ Reading'.mode = "capture" /\ Reading'.line = <<>> /\ Reading'.total = <<>>
      BY <2>1, <3>1
    <3>5. Got' = <<>> /\ Len(<<>>) = 0
      BY <3>4 DEF Got
    <3>6. y.isHeader /\ (y.index = 3 \/ y.index = 1)
      BY <1>1, <3>2 DEF Follows
    <3>7. y.index = 1 => Restarting'
      BY <1>1, <3>3 DEF Restarting
    <3>8. y.index = 3 => Aligned'
      <4> HAVE y.index = 3
      <4>1. InPhase'
        BY <1>5, <3>3, <3>6
      <4>2. Len(Got') = 0 /\ First'.index = 3 + 0
        BY <1>1, <3>5
      <4> QED BY <4>1, <4>2 DEF Aligned
    <3> QED BY <3>4, <3>6, <3>7, <3>8 DEF HeapInv, CaptureInv
  <2>4. CASE b = Newline /\ ~Ends(h.line, R)
    <3>1. Byte(h, b) = [h EXCEPT !.line = <<>>]
      BY <1>1, <1>2, <2>4, ByteIs
    <3>2. Reading'.mode = "seek" /\ Reading'.line = <<>>
      BY <1>1, <2>1, <3>1 DEF Reader
    <3>3. SeekInv'
      BY <3>2 DEF SeekInv, Ends
    <3> QED BY <3>2, <3>3 DEF HeapInv
  <2> QED BY <2>2, <2>3, <2>4
<1> QED BY <1>7, <1>8

EndsWith(g, l) == \A c : Ends(l, c) => Len(g) >= 1 /\ g[Len(g)] = c

OneLonger(f, g, b) ==
  /\ f \in Seq(Letters) /\ f \o <<>> = f
  /\ Len(f) = Len(g) + 1 /\ f[Len(g) + 1] = b
  /\ \A k \in 1 .. Len(g) : f[k] = g[k]

OneShorter(f, g) ==
  /\ f \in Seq(Letters) /\ Len(f) = Len(g) - 1
  /\ \A k \in 1 .. Len(g) - 1 : f[k] = g[k]

LEMMA GotSoFar ==
  ASSUME NEW t \in Seq(Letters), NEW l \in Seq(Letters)
  PROVE  t \o l \in Seq(Letters) /\ Len(t \o l) \in Nat /\ EndsWith(t \o l, l)
<1> DEFINE g == t \o l
<1>1. /\ g \in Seq(Letters) /\ Joins(g, t, l) /\ Len(t) \in Nat /\ Len(l) \in Nat
      /\ (l # <<>> => Len(l) >= 1)
  BY Joined
<1> HIDE DEF g
<1>2. ASSUME NEW c, Ends(l, c) PROVE Len(g) >= 1 /\ g[Len(g)] = c
  <2>1. Len(l) \in 1 .. Len(l) /\ l[Len(l)] = c
    BY <1>1, <1>2 DEF Ends
  <2>2. Len(g) = Len(t) + Len(l) /\ g[Len(t) + Len(l)] = l[Len(l)]
    BY <1>1, <2>1 DEF Joins
  <2> QED BY <1>1, <2>1, <2>2
<1>3. Len(g) \in Nat
  BY <1>1
<1> QED BY <1>1, <1>2, <1>3 DEF EndsWith, g

LEMMA GotOneMore ==
  ASSUME NEW t \in Seq(Letters), NEW l \in Seq(Letters), NEW b \in Letters
  PROVE  OneLonger(t \o Append(l, b), t \o l, b)
<1> DEFINE g == t \o l
           m == Append(l, b)
           f == t \o m
<1>1. /\ m \in Seq(Letters) /\ Len(m) = Len(l) + 1 /\ Len(l) \in Nat /\ Len(t) \in Nat
      /\ m[Len(l) + 1] = b /\ \A k \in 1 .. Len(l) : m[k] = l[k]
  BY AppendProperties
<1> HIDE DEF m
<1>2. g \in Seq(Letters) /\ Joins(g, t, l) /\ f \in Seq(Letters) /\ Joins(f, t, m)
  BY <1>1, Joined
<1>3. f \o <<>> = f
  BY <1>2, ConcatEmptySeq
<1> HIDE DEF f, g
<1>4. Len(g) = Len(t) + Len(l) /\ Len(f) = Len(g) + 1
  BY <1>1, <1>2 DEF Joins
<1>5. ASSUME NEW k \in 1 .. Len(g) PROVE f[k] = g[k]
  <2>1. CASE k \in 1 .. Len(t)
    BY <1>2, <2>1 DEF Joins
  <2>2. CASE k \notin 1 .. Len(t)
    <3> DEFINE j == k - Len(t)
    <3>1. j \in 1 .. Len(l) /\ j \in 1 .. Len(m) /\ Len(t) + j = k
      BY <1>1, <1>4, <2>2
    <3> HIDE DEF j
    <3>2. f[k] = m[j] /\ g[k] = l[j]
      BY <1>2, <3>1 DEF Joins
    <3> QED BY <1>1, <3>1, <3>2
  <2> QED BY <2>1, <2>2
<1>6. f[Len(g) + 1] = b
  <2>1. Len(m) \in 1 .. Len(m) /\ Len(t) + Len(m) = Len(g) + 1
    BY <1>1, <1>4
  <2> QED BY <1>1, <1>2, <2>1 DEF Joins
<1> QED BY <1>2, <1>3, <1>4, <1>5, <1>6 DEF OneLonger, f, g, m

LEMMA GotWithoutLast ==
  ASSUME NEW t \in Seq(Letters), NEW l \in Seq(Letters), l # <<>>
  PROVE  OneShorter(t \o SubSeq(l, 1, Len(l) - 1), t \o l)
<1> DEFINE g == t \o l
           m == SubSeq(l, 1, Len(l) - 1)
           f == t \o m
<1>1. /\ m \in Seq(Letters) /\ Len(m) = Len(l) - 1 /\ Len(l) \in Nat \ {0} /\ Len(t) \in Nat
      /\ \A k \in 1 .. Len(l) - 1 : m[k] = l[k]
  <2>1. Len(l) \in Nat \ {0} /\ Len(l) - 1 \in 0 .. Len(l) /\ Len(t) \in Nat
    OBVIOUS
  <2>2. m = [k \in 1 .. Len(l) - 1 |-> l[k]]
    BY <2>1
  <2>3. \A k \in 1 .. Len(l) - 1 : l[k] \in Letters
    BY <2>1
  <2>4. m \in [1 .. Len(l) - 1 -> Letters] /\ Len(l) - 1 \in Nat
    <3> HIDE DEF m
    <3> QED BY <2>1, <2>2, <2>3
  <2> HIDE DEF m
  <2> QED BY <2>1, <2>2, <2>4
<1> HIDE DEF m
<1>2. g \in Seq(Letters) /\ Joins(g, t, l) /\ f \in Seq(Letters) /\ Joins(f, t, m)
  BY <1>1, Joined
<1> HIDE DEF f, g
<1>3. Len(g) = Len(t) + Len(l) /\ Len(f) = Len(g) - 1
  BY <1>1, <1>2 DEF Joins
<1>4. ASSUME NEW k \in 1 .. Len(g) - 1 PROVE f[k] = g[k]
  <2>1. CASE k \in 1 .. Len(t)
    BY <1>2, <2>1 DEF Joins
  <2>2. CASE k \notin 1 .. Len(t)
    <3> DEFINE j == k - Len(t)
    <3>1. j \in 1 .. Len(l) /\ j \in 1 .. Len(m) /\ j \in 1 .. Len(l) - 1 /\ Len(t) + j = k
      BY <1>1, <1>3, <2>2
    <3> HIDE DEF j
    <3>2. f[k] = m[j] /\ g[k] = l[j]
      BY <1>2, <3>1 DEF Joins
    <3> QED BY <1>1, <3>1, <3>2
  <2> QED BY <2>1, <2>2
<1> QED BY <1>2, <1>3, <1>4 DEF OneShorter, f, g, m

(* A sequence that agrees with the data all along is the data.             *)
LEMMA SameText ==
  ASSUME NEW d \in Seq(DataBytes), NEW g \in Seq(Letters), Len(g) = Len(d),
         \A k \in 1 .. Len(g) : g[k] = Whole(d)[2 + k]
  PROVE  g = d
<1>1. \A k \in 1 .. Len(d) : Whole(d)[2 + k] = d[k]
  BY WholeText
<1>2. d \in Seq(Letters) /\ \A k \in 1 .. Len(d) : g[k] = d[k]
  BY <1>1 DEF Letters
<1> QED BY <1>2, SeqEqual

LEMMA ReceiveAligned ==
  ASSUME BaseInv, WireWhole, Receive, Reading.mode = "capture", Aligned
  PROVE  HeapInv'
<1> DEFINE x == First
           y == First'
           h == Reading
           b == x.byte
           g == Got
           f == Full(x.run)
<1>1. /\ x \in Items /\ Genuine(x) /\ Taken(x) /\ Follows(x, y) /\ y = First'
      /\ h \in Reader /\ h.mode = "capture" /\ h = Reading /\ x = First
      /\ UNCHANGED <<data, boardRun, at>>
  BY ReceiveTakes, ReceiveKeepsWire DEF BaseInv, ReaderInv
<1>2. /\ b \in Letters /\ x.index \in Nat /\ x.index >= 1
      /\ x.isHeader => b = Header
      /\ ~x.isHeader => b = f[x.index]
  BY <1>1, GenuineByte DEF BaseInv
<1>3. /\ need <= 1 /\ payload = <<>> /\ (x.isHeader <=> need = 0) /\ need \in 0 .. 4
      /\ x.index = 3 + Len(g)
      /\ \A k \in 1 .. Len(g) : g[k] = f[2 + k]
  BY DEF Aligned, InPhase, BaseInv, TypeOK
<1>4. InPhase' <=> need' <= 1 /\ payload' = <<>> /\ (y.isHeader <=> need' = 0)
  BY DEF InPhase
<1>5. /\ b = x.byte /\ h.line \in Seq(Letters) /\ h.total \in Seq(Letters)
      /\ g \in Seq(Letters) /\ Len(g) \in Nat /\ EndsWith(g, h.line)
  BY <1>1, GotSoFar DEF Reader, Got
<1>6. /\ x.run \in 1 .. boardRun /\ x.run \in 1 .. MaxRuns /\ x.index \in 1 .. Len(f)
      /\ x.run = boardRun => x.index <= Len(Text)
      /\ f = Whole(data[x.run]) /\ data[x.run] \in Seq(DataBytes)
      /\ Len(data[x.run]) \in Nat /\ Len(f) = Len(data[x.run]) + 4
      /\ boardRun \in Nat /\ Len(Text) \in Nat
  <2>1. x.run \in 1 .. MaxRuns /\ data[x.run] \in Seq(DataBytes) /\ f = Whole(data[x.run])
    BY <1>1, GenuineMeans, Texts DEF BaseInv, Full
  <2>2. Len(f) = Len(data[x.run]) + 4 /\ Len(data[x.run]) \in Nat
    BY <2>1, WholeText
  <2> QED BY <1>1, <2>1, <2>2, GenuineMeans, Texts DEF BaseInv
<1>7. Len(Text) = Len(data[boardRun]) + (IF at = "ended" THEN 4 ELSE 2)
  BY Texts DEF BaseInv
<1>8. \A r : Full(r)' = Full(r)
  BY <1>1 DEF Full
<1>9. f = Full(x.run)
  OBVIOUS
<1>10. Got' = Reading'.total \o Reading'.line
  BY DEF Got
<1>11. \A k \in 1 .. Len(f) : (f[k] = R => k = 1) /\ (f[k] = D => k = Len(f) - 1)
  BY <1>6, PlacesOfLetters
<1> DEFINE e == h.total \o Append(h.line, b)
           t == h.total \o SubSeq(h.line, 1, Len(h.line) - 1)
<1>12. g = h.total \o h.line /\ e = h.total \o Append(h.line, b)
  BY DEF Got
<1>13. OneLonger(e, g, b)
  BY <1>2, <1>5, <1>12, GotOneMore
<1>14. h.line # <<>> => OneShorter(t, g)
  BY <1>5, <1>12, GotWithoutLast
<1>15. /\ Len(e) = Len(g) + 1 /\ e[Len(g) + 1] = b /\ e \o <<>> = e
       /\ \A k \in 1 .. Len(g) : e[k] = g[k]
  <2> HIDE DEF e, g
  <2> QED BY <1>13 DEF OneLonger
<1>16. t = h.total \o SubSeq(h.line, 1, Len(h.line) - 1)
  OBVIOUS
<1> HIDE DEF x, y, h, b, g, f, e, t
(* The item is a header: its payload is next, or the first header of a     *)
(* later run.                                                              *)
<1>17. CASE need = 0
  <2>1. x.isHeader /\ b = Header
    BY <1>2, <1>3, <1>17
  <2>2. need' = 1 /\ payload' = <<>> /\ Reading' = h
    BY <1>1, <1>5, <1>17, <2>1, Bytes DEF Taken
  <2>3. Got' = g
    BY <1>10, <1>12, <2>2
  <2>4. CASE ~y.isHeader /\ y.run = x.run /\ y.index = x.index
    <3>1. Full(First.run)' = f
      BY <1>1, <1>8, <1>9, <2>4
    <3>2. InPhase'
      BY <1>4, <2>2, <2>4
    <3>3. Aligned'
      <4>1. First'.index = 3 + Len(Got')
        BY <1>1, <1>3, <2>3, <2>4
      <4>2. \A k \in 1 .. Len(Got') : Got'[k] = Full(First.run)'[2 + k]
        BY <1>3, <2>3, <3>1
      <4> QED BY <3>2, <4>1, <4>2 DEF Aligned
    <3> QED BY <1>1, <2>2, <3>3 DEF HeapInv, CaptureInv
  <2>5. CASE y.isHeader /\ y.index = 1
    <3>1. Restarting'
      BY <1>1, <2>2, <2>5 DEF Restarting
    <3> QED BY <1>1, <2>2, <3>1 DEF HeapInv, CaptureInv
  <2> QED BY <1>1, <2>1, <2>4, <2>5 DEF Follows
(* It is a payload.                                                        *)
<1>18. CASE need = 1
  <2>1. ~x.isHeader /\ b = f[x.index]
    BY <1>2, <1>3, <1>18
  <2>2. need' = 0 /\ payload' = <<>> /\ Reading' = Byte(h, b)
    BY <1>1, <1>5, <1>18 DEF Taken
  <2>3. \A c : Ends(h.line, c) => Len(g) >= 1 /\ g[Len(g)] = c
    BY <1>5 DEF EndsWith
  <2>4. \A c : Ends(h.line, c) => f[2 + Len(g)] = c /\ Len(g) >= 1 /\ 2 + Len(g) \in 1 .. Len(f)
    <3> SUFFICES ASSUME NEW c, Ends(h.line, c)
                 PROVE  f[2 + Len(g)] = c /\ Len(g) >= 1 /\ 2 + Len(g) \in 1 .. Len(f)
      OBVIOUS
    <3>1. Len(g) >= 1 /\ g[Len(g)] = c /\ Len(g) \in 1 .. Len(g)
      BY <1>5, <2>3
    <3>2. 2 + Len(g) \in 1 .. Len(f)
      BY <1>3, <1>5, <1>6
    <3> QED BY <1>3, <3>1, <3>2
  <2>5. ~Ends(h.line, R)
    <3> SUFFICES ASSUME Ends(h.line, R) PROVE FALSE
      OBVIOUS
    <3>1. 2 + Len(g) = 1 /\ Len(g) >= 1
      BY <1>11, <2>4
    <3> QED BY <3>1, <1>5
  <2>6. CASE b = Newline /\ Ends(h.line, D)
    <3>1. Byte(h, b) = [mode |-> "done", line |-> <<>>, total |-> t]
      BY <1>1, <1>2, <1>16, <2>6, ByteIs
    <3>2. 2 + Len(g) = Len(f) - 1 /\ Len(g) >= 1
      BY <1>11, <2>4, <2>6
    <3>3. h.line # <<>>
      BY <2>6 DEF Ends
    <3>4. /\ t \in Seq(Letters) /\ Len(t) = Len(g) - 1
          /\ \A k \in 1 .. Len(g) - 1 : t[k] = g[k]
      BY <1>14, <3>3 DEF OneShorter
    <3>5. Len(t) = Len(data[x.run])
      BY <1>5, <1>6, <3>2, <3>4
    <3>6. \A k \in 1 .. Len(t) : t[k] = Whole(data[x.run])[2 + k]
      <4>1. \A k \in 1 .. Len(t) : k \in 1 .. Len(g) - 1 /\ k \in 1 .. Len(g)
        BY <1>5, <3>4
      <4> QED BY <1>3, <1>6, <3>4, <4>1
    <3>7. t = data[x.run]
      BY <1>6, <3>4, <3>5, <3>6, SameText
    <3>8. x.run < boardRun \/ at = "ended"
      <4> SUFFICES ASSUME x.run = boardRun PROVE at = "ended"
        BY <1>6
      <4>1. x.index = Len(f)
        BY <1>3, <1>5, <1>6, <3>2
      <4>2. Len(data[x.run]) + 4 <= Len(Text)
        BY <1>6, <4>1
      <4> QED BY <1>6, <1>7, <4>2
    <3>9. Reading'.mode = "done" /\ Reading'.total = t
      BY <2>2, <3>1
    <3>10. DoneInv'
      BY <1>1, <1>6, <3>7, <3>8, <3>9 DEF DoneInv
    <3> QED BY <3>9, <3>10 DEF HeapInv
  <2>7. CASE ~(b = Newline /\ Ends(h.line, D))
    <3>2. Reading'.mode = "capture" /\ Got' = e
      <4>1. CASE b # Newline
        <5>1. Byte(h, b) = [h EXCEPT !.line = Append(@, b)]
          BY <1>1, <1>2, <4>1, ByteIs
        <5>2. /\ Reading'.mode = "capture" /\ Reading'.total = h.total
              /\ Reading'.line = Append(h.line, b)
          BY <1>1, <2>2, <5>1 DEF Reader
        <5> QED BY <1>10, <1>12, <5>2
      <4>2. CASE b = Newline
        <5>1. ~Ends(h.line, D)
          BY <2>7, <4>2
        <5>2. Byte(h, b) = [mode |-> "capture", line |-> <<>>, total |-> e]
          BY <1>1, <1>2, <1>12, <2>5, <4>2, <5>1, ByteIs
        <5>3. Reading'.mode = "capture" /\ Reading'.total = e /\ Reading'.line = <<>>
          BY <2>2, <5>2
        <5> QED BY <1>10, <1>15, <5>3
      <4> QED BY <4>1, <4>2
    <3>3. CASE y.isHeader /\ y.run = x.run /\ y.index = x.index + 1
      <4>1. Full(First.run)' = f
        BY <1>1, <1>8, <1>9, <3>3
      <4>2. InPhase'
        BY <1>4, <2>2, <3>3
      <4>3. First'.index = 3 + Len(Got')
        BY <1>1, <1>3, <1>5, <1>15, <3>2, <3>3
      <4>4. ASSUME NEW k \in 1 .. Len(e) PROVE e[k] = f[2 + k]
        <5>1. CASE k \in 1 .. Len(g)
          BY <1>3, <1>15, <5>1
        <5>2. CASE k = Len(g) + 1
          <6>1. 2 + k = x.index
            BY <1>3, <1>5, <5>2
          <6> QED BY <2>1, <1>15, <5>2, <6>1
        <5> QED BY <1>5, <1>15, <5>1, <5>2
      <4>5. Aligned'
        BY <3>2, <4>1, <4>2, <4>3, <4>4 DEF Aligned
      <4> QED BY <3>2, <4>5 DEF HeapInv, CaptureInv
    <3>4. CASE y.isHeader /\ y.index = 1
      <4>1. Restarting'
        BY <1>1, <2>2, <3>4 DEF Restarting
      <4> QED BY <3>2, <4>1 DEF HeapInv, CaptureInv
    <3> QED BY <1>1, <2>1, <3>3, <3>4 DEF Follows
  <2> QED BY <2>6, <2>7
<1> QED BY <1>3, <1>17, <1>18

LEMMA ReceiveRestarting ==
  ASSUME BaseInv, WireWhole, Receive, Reading.mode = "capture", Restarting
  PROVE  HeapInv'
<1> DEFINE x == First
           y == First'
           h == Reading
           b == x.byte
<1>1. /\ x \in Items /\ Genuine(x) /\ Taken(x) /\ Follows(x, y) /\ y = First'
      /\ h \in Reader /\ h.mode = "capture" /\ h = Reading /\ x = First
  BY ReceiveTakes, ReceiveKeepsWire DEF BaseInv, ReaderInv
<1>2. /\ b \in Letters /\ x.index \in Nat /\ x.index >= 1
      /\ x.isHeader => b = Header
      /\ ~x.isHeader => (b = R <=> x.index = 1) /\ (x.index = 2 => b = Newline)
  BY <1>1, GenuineByte DEF BaseInv
<1>3. /\ need <= 1 /\ payload = <<>> /\ need \in 0 .. 4
      /\ \/ x.index = 1
         \/ x.index = 2 /\ (x.isHeader <=> need = 0) /\ Ends(h.line, R)
  BY DEF Restarting, InPhase, BaseInv, TypeOK
<1>4. InPhase' <=> need' <= 1 /\ payload' = <<>> /\ (y.isHeader <=> need' = 0)
  BY DEF InPhase
<1>5. b = x.byte /\ h.line \in Seq(Letters) /\ h.total \in Seq(Letters)
  BY <1>1 DEF Reader
<1> HIDE DEF x, y, h, b
<1>6. need' \in {0, 1} /\ payload' = <<>>
  <2>1. need = 0 /\ IsHeader(b) => x.isHeader
    BY <1>2, <1>3, Bytes
  <2>2. need = 0 /\ IsHeader(b) => need' = 1
    BY <1>1, <1>2, <1>5, <2>1, Bytes DEF Taken
  <2> QED BY <1>1, <1>3, <1>5, <2>2 DEF Taken
<1>7. y.index = 1 /\ Reading'.mode = "capture" => HeapInv'
  BY <1>1, <1>6 DEF HeapInv, CaptureInv, Restarting
(* The letter R: its newline is next.                                      *)
<1>8. CASE ~x.isHeader /\ x.index = 1
  <2>1. b = R /\ Byte(h, b) = [h EXCEPT !.line = Append(@, b)]
    BY <1>1, <1>2, <1>8, ByteIs, Bytes
  <2>2. Reading' = Byte(h, b) /\ need' = 0
    BY <1>1, <1>3, <1>5, <2>1, Bytes DEF Taken
  <2>3. Reading'.mode = "capture" /\ Reading'.line = Append(h.line, b)
    BY <1>1, <2>1, <2>2 DEF Reader
  <2>4. Ends(Reading'.line, R)
    BY <1>2, <1>5, <2>1, <2>3, EndsAppended
  <2>5. y.index = 2 => Restarting'
    BY <1>1, <1>4, <1>6, <1>8, <2>2, <2>4 DEF Follows, Restarting
  <2>6. y.index = 2 \/ y.index = 1
    BY <1>1, <1>8 DEF Follows
  <2> QED BY <1>7, <2>3, <2>5, <2>6 DEF HeapInv, CaptureInv
(* Its newline: the data are next.                                         *)
<1>9. CASE ~x.isHeader /\ x.index = 2
  <2>1. b = Newline /\ need = 1 /\ Ends(h.line, R)
    BY <1>2, <1>3, <1>9
  <2>2. Byte(h, b) = [mode |-> "capture", line |-> <<>>, total |-> <<>>]
    BY <1>1, <1>2, <2>1, ByteIs
  <2>3. Reading' = Byte(h, b) /\ need' = 0
    BY <1>1, <1>5, <2>1 DEF Taken
  <2>4. Reading'.mode = "capture" /\ Reading'.line = <<>> /\ Reading'.total = <<>>
    BY <2>2, <2>3
  <2>5. Got' = <<>> /\ Len(<<>>) = 0
    BY <2>4 DEF Got
  <2>6. y.isHeader /\ (y.index = 3 \/ y.index = 1)
    BY <1>1, <1>9 DEF Follows
  <2>7. y.index = 3 => Aligned'
    <3> HAVE y.index = 3
    <3>1. InPhase'
      BY <1>4, <1>6, <2>3, <2>6
    <3>2. Len(Got') = 0 /\ First'.index = 3 + 0
      BY <1>1, <2>5
    <3> QED BY <3>1, <3>2 DEF Aligned
  <2> QED BY <1>7, <2>4, <2>6, <2>7 DEF HeapInv, CaptureInv
(* A header.                                                               *)
<1>10. CASE x.isHeader
  <2>1. b = Header
    BY <1>2, <1>10
  <2>2. CASE need = 0
    <3>1. Reading' = h /\ need' = 1
      BY <1>1, <1>5, <2>1, <2>2, Bytes DEF Taken
    <3>2. y.index = 2 => Restarting'
      <4> HAVE y.index = 2
      <4>1. ~y.isHeader /\ Ends(h.line, R)
        BY <1>1, <1>3, <1>10 DEF Follows
      <4>2. InPhase'
        BY <1>4, <1>6, <3>1, <4>1
      <4> QED BY <1>1, <1>6, <3>1, <4>1, <4>2 DEF Restarting
    <3>3. y.index = 2 \/ y.index = 1
      BY <1>1, <1>3, <1>10 DEF Follows
    <3> QED BY <1>1, <1>7, <3>1, <3>2, <3>3 DEF HeapInv, CaptureInv
  <2>3. CASE need # 0
    <3>1. x.index = 1 /\ Reading' = Byte(h, b)
      BY <1>1, <1>3, <1>5, <1>10, <2>3 DEF Taken
    <3>2. y.index = 1
      BY <1>1, <1>10, <3>1 DEF Follows
    <3>3. Byte(h, b) = [h EXCEPT !.line = Append(@, b)]
      BY <1>1, <1>2, <2>1, ByteIs, Bytes
    <3>4. Reading'.mode = "capture"
      BY <1>1, <3>1, <3>3 DEF Reader
    <3> QED BY <1>7, <3>2, <3>4
  <2> QED BY <2>2, <2>3
<1> QED BY <1>3, <1>8, <1>9, <1>10

LEMMA ReceiveDone ==
  ASSUME BaseInv, Receive, Reading.mode = "done", DoneInv
  PROVE  HeapInv'
<1>1. /\ Head(wire) \in Items /\ Taken(Head(wire)) /\ Reading \in Reader
      /\ UNCHANGED <<data, boardRun, at>>
  BY ReceiveTakes DEF BaseInv, ReaderInv
<1>2. Head(wire).byte \in Letters
  BY <1>1 DEF Items
<1>3. Byte(Reading, Head(wire).byte) = Reading
  BY <1>1, <1>2, ByteIs
<1>4. Reading' = Reading
  BY <1>1, <1>3 DEF Taken
<1> QED BY <1>1, <1>4 DEF HeapInv, DoneInv

LEMMA ReceiveKeepsHeap ==
  ASSUME BaseInv, WireWhole, HeapInv, Receive
  PROVE  HeapInv'
<1>1. Reading.mode \in {"seek", "capture", "done"}
  BY DEF BaseInv, ReaderInv, Reader
<1> QED BY <1>1, ReceiveSeeking, ReceiveAligned, ReceiveRestarting, ReceiveDone DEF HeapInv, CaptureInv

LEMMA ResetKeepsHeap ==
  ASSUME BaseInv, WireWhole, HeapInv, Reset
  PROVE  HeapInv'
<1>1. /\ UNCHANGED <<data, need, payload>> /\ Reading' = Reading /\ boardRun' = boardRun + 1
      /\ boardRun \in Nat
  BY Texts DEF BaseInv, Reset, worker, Reading
<1>2. First' = First \/ (First'.isHeader /\ First'.index = 1)
  BY ResetKeepsWire
<1>3. Reading.mode = "seek" => SeekInv'
  BY <1>1, <1>2 DEF HeapInv, SeekInv, InPhase
<1>4. Reading.mode = "capture" => CaptureInv'
  <2> HAVE Reading.mode = "capture"
  <2>1. need <= 1 /\ payload = <<>>
    BY DEF HeapInv, CaptureInv, Aligned, Restarting, InPhase
  <2>2. CASE First' = First
    <3>1. InPhase' <=> InPhase
      BY <1>1, <2>2 DEF InPhase
    <3>2. Got' = Got /\ \A r : Full(r)' = Full(r)
      BY <1>1 DEF Got, Full
    <3>3. Aligned => Aligned'
      BY <2>2, <3>1, <3>2 DEF Aligned, Full
    <3>4. Restarting => Restarting'
      BY <1>1, <2>2, <3>1 DEF Restarting
    <3> QED BY <3>3, <3>4 DEF HeapInv, CaptureInv
  <2>3. CASE First'.isHeader /\ First'.index = 1
    BY <1>1, <2>1, <2>3 DEF CaptureInv, Restarting
  <2> QED BY <1>2, <2>2, <2>3
<1>5. Reading.mode = "done" => DoneInv'
  <2> HAVE Reading.mode = "done"
  <2>1. PICK r \in 1 .. boardRun : Reading.total = data[r]
    BY DEF HeapInv, DoneInv
  <2>2. r \in 1 .. boardRun' /\ r < boardRun'
    BY <1>1, <2>1
  <2> QED BY <1>1, <2>1, <2>2 DEF DoneInv
<1> QED BY <1>1, <1>3, <1>4, <1>5 DEF HeapInv

LEMMA BoardKeepsHeap ==
  ASSUME BaseInv, HeapInv, Trace \/ Send, First' = First
  PROVE  HeapInv'
<1>1. /\ UNCHANGED <<boardRun, need, payload>> /\ Reading' = Reading
      /\ (at = "ended" => data' = data /\ at' = at)
  BY DEF Trace, Send, worker, Reading
<1>2. InPhase' <=> InPhase
  BY <1>1 DEF InPhase
<1>3. SeekInv => SeekInv'
  BY <1>1, <1>2 DEF SeekInv
<1>4. Restarting => Restarting'
  BY <1>1, <1>2 DEF Restarting
<1>5. /\ \A r \in 1 .. MaxRuns : r # boardRun => data'[r] = data[r]
      /\ \A k \in 1 .. Len(Text) : Full(boardRun)'[k] = Full(boardRun)[k]
  <2>1. CASE Trace
    BY <2>1, TraceKeepsBoard DEF BaseInv
  <2>2. CASE Send
    <3>1. data' = data /\ boardRun' = boardRun
      BY <2>2 DEF Send
    <3> QED BY <3>1 DEF Full
  <2> QED BY <2>1, <2>2
<1>6. boardRun \in 1 .. MaxRuns /\ MaxRuns \in Nat /\ Len(Text) \in Nat
  BY Texts DEF BaseInv
<1>7. Aligned => Aligned'
  <2> HAVE Aligned
  <2> DEFINE g == Got
             x == First
  <2>1. /\ x \in Items /\ x.run <= boardRun /\ x.index = 3 + Len(g) /\ Len(g) \in Nat
        /\ x.run = boardRun => x.index <= Len(Text) + 1
        /\ \A k \in 1 .. Len(g) : g[k] = Full(x.run)[2 + k]
    BY FirstIs, GotSoFar DEF Aligned, Got, BaseInv, ReaderInv, Reader
  <2>2. x.run \in 1 .. MaxRuns
    BY <2>1 DEF Items
  <2>3. ASSUME NEW k \in 1 .. Len(g) PROVE Whole(data'[x.run])[2 + k] = Whole(data[x.run])[2 + k]
    <3>1. CASE x.run = boardRun
      <4>1. 2 + k \in 1 .. Len(Text)
        BY <1>6, <2>1, <3>1
      <4>2. Whole(data'[boardRun])[2 + k] = Whole(data[boardRun])[2 + k]
        BY <1>1, <1>5, <4>1 DEF Full
      <4> QED BY <3>1, <4>2
    <3>2. CASE x.run # boardRun
      BY <1>5, <2>2, <3>2
    <3> QED BY <3>1, <3>2
  <2>4. \A k \in 1 .. Len(g) : g[k] = Whole(data'[x.run])[2 + k]
    BY <2>1, <2>3 DEF Full
  <2>5. Got' = Got /\ First' = First
    BY <1>1 DEF Got
  <2>6. /\ First'.index = 3 + Len(Got')
        /\ \A k \in 1 .. Len(Got') : Got'[k] = Whole(data'[First'.run])[2 + k]
    BY <2>1, <2>4, <2>5
  <2> HIDE DEF g, x
  <2> QED BY <1>1, <1>2, <2>5, <2>6 DEF Aligned, Full
<1>8. DoneInv => DoneInv'
  <2> HAVE DoneInv
  <2>1. PICK r \in 1 .. boardRun : Reading.total = data[r] /\ (r < boardRun \/ at = "ended")
    BY DEF DoneInv
  <2>2. data'[r] = data[r] /\ (r < boardRun' \/ at' = "ended")
    BY <1>1, <1>5, <1>6, <2>1
  <2> QED BY <1>1, <2>1, <2>2 DEF DoneInv
<1> QED BY <1>1, <1>3, <1>4, <1>7, <1>8 DEF HeapInv, CaptureInv

(* A new worker has nothing to seek in yet; it may be out of phase.        *)
LEMMA OthersKeepNoLoss ==
  ASSUME BaseInv, NoLossInv, Close \/ NewWorker \/ UNCHANGED vars
  PROVE  NoLossInv'
<1>1. /\ UNCHANGED <<data, boardRun, at, todo, halfSent, wire, lost>>
  BY DEF Close, NewWorker, vars, board, worker
<1>2. Text' = Text /\ \A r : Full(r)' = Full(r)
  BY <1>1, SameTexts
<1>3. NextItem' = NextItem
  BY <1>1, <1>2 DEF NextItem
<1>4. First' = First
  BY <1>1, <1>3 DEF First
<1>5. WireWhole => WireWhole'
  BY <1>1, <1>3 DEF WireWhole
<1>6. CASE NewWorker
  <2>1. heap' = Seeking /\ payload' = <<>>
    BY <1>6 DEF NewWorker
  <2>2. Reading' = Seeking
    BY <2>1, FedNothing DEF Reading
  <2>3. Reading'.mode = "seek" /\ Reading'.line = <<>>
    BY <2>2 DEF Seeking
  <2>4. SeekInv'
    BY <2>3 DEF SeekInv, Ends
  <2>5. HeapInv'
    BY <2>3, <2>4 DEF HeapInv
  <2> QED BY <1>1, <1>5, <2>5 DEF NoLossInv
<1>7. CASE Close \/ UNCHANGED vars
  <2>1. UNCHANGED <<need, payload, heap>>
    BY <1>7 DEF Close, vars, worker
  <2>2. Reading' = Reading
    BY <2>1 DEF Reading
  <2>3. (InPhase <=> InPhase') /\ Got' = Got
    BY <1>4, <2>1, <2>2 DEF InPhase, Got
  <2>4. SeekInv => SeekInv'
    BY <1>4, <2>2, <2>3 DEF SeekInv
  <2>5. Aligned => Aligned'
    BY <1>1, <1>4, <2>3 DEF Aligned, Full
  <2>6. Restarting => Restarting'
    BY <1>4, <2>1, <2>2, <2>3 DEF Restarting
  <2>7. DoneInv => DoneInv'
    BY <1>1, <2>2 DEF DoneInv
  <2>8. HeapInv => HeapInv'
    BY <2>2, <2>4, <2>5, <2>6, <2>7 DEF HeapInv, CaptureInv
  <2> QED BY <1>1, <1>5, <2>8 DEF NoLossInv
<1> QED BY <1>6, <1>7

LEMMA InitIsFine == Init => IInv
<1> SUFFICES ASSUME Init PROVE IInv
  OBVIOUS
<1>1. /\ data = [r \in 1 .. MaxRuns |-> <<>>] /\ boardRun = 1 /\ at = "bench" /\ todo = READY
      /\ halfSent = FALSE /\ wire = <<>> /\ lost = 0 /\ closed = FALSE /\ workerRun = 1
      /\ need = 0 /\ payload = <<>> /\ heap = Seeking /\ fooled = FALSE
      /\ 1 \in 1 .. MaxRuns /\ {MaxRuns, MaxData, MaxWire, MaxLost} \subseteq Nat
  BY SwoLinkAssumption DEF Init
<1>2. READY \in Seq(DataBytes \cup {R, D}) /\ READY \o <<>> = READY
  BY DEF READY, DataBytes, Newline
<1>3. Text = READY
  <2>1. data[boardRun] = <<>>
    BY <1>1
  <2> QED BY <1>1, <1>2, <2>1 DEF Text
<1>4. TypeOK
  <2>1. data \in [1 .. MaxRuns -> BoundedSeq(DataBytes, MaxData)]
    <3>1. <<>> \in BoundedSeq(DataBytes, MaxData)
      BY <1>1 DEF BoundedSeq, SeqOf
    <3> QED BY <1>1, <3>1
  <2>2. wire \in Seq([byte : DataBytes \cup {R, D}, isHeader : BOOLEAN, run : 1 .. MaxRuns, index : Nat])
    BY <1>1
  <2>3. Len(payload) = 0 /\ Len(wire) = 0 /\ heap.mode = "seek"
    BY <1>1 DEF Seeking
  <2>4. need + Len(payload) \in {0, 1, 2, 4} /\ need \in 0 .. 4
    BY <1>1, <2>3
  <2>5. /\ boardRun \in 1 .. MaxRuns /\ workerRun \in boardRun .. boardRun + 1
        /\ lost \in 0 .. MaxLost /\ Len(wire) <= MaxWire
    BY <1>1, <2>3
  <2>6. todo \in Seq(DataBytes \cup {R, D})
    BY <1>1, <1>2
  <2>7. halfSent \in BOOLEAN /\ closed \in BOOLEAN /\ fooled \in BOOLEAN /\ at \in {"bench", "ended"}
    BY <1>1
  <2> QED BY <1>1, <2>1, <2>2, <2>3, <2>4, <2>5, <2>6, <2>7 DEF TypeOK
<1>5. Reading = Seeking /\ Seeking \in Reader
  BY <1>1, FedNothing DEF Reading, Seeking, Reader
<1>6. ReaderInv
  BY <1>1, <1>5 DEF ReaderInv
<1>7. BoardInv
  <2>1. Len(READY) = 2
    BY DEF READY
  <2>2. todo = READY /\ Text = READY /\ Len(todo) = 2 /\ Len(Text) = 2
    BY <1>1, <1>3, <2>1
  <2>3. \A k \in 1 .. Len(todo) : todo[k] = Text[Len(Text) - Len(todo) + k]
    BY <2>2
  <2> QED BY <1>1, <2>2, <2>3 DEF BoardInv
<1>8. WireInv
  BY <1>1 DEF WireInv
<1>9. WireWhole
  BY <1>1 DEF WireWhole
<1>10. HeapInv
  <2>1. Reading.mode = "seek" /\ Reading.line = <<>>
    BY <1>5 DEF Seeking
  <2> QED BY <2>1 DEF HeapInv, SeekInv, Ends
<1> QED BY <1>4, <1>6, <1>7, <1>8, <1>9, <1>10 DEF IInv, BaseInv, NoLossInv

LEMMA StepIsFine == IInv /\ [Next]_vars => IInv'
<1> SUFFICES ASSUME IInv, [Next]_vars PROVE IInv'
  OBVIOUS
<1>1. BaseInv /\ NoLossInv
  BY DEF IInv
<1>2. CASE Trace
  <2>1. BaseInv'
    BY <1>1, <1>2, TraceKeepsBase
  <2>2. lost' = lost
    BY <1>2 DEF Trace
  <2>3. ASSUME lost = 0 PROVE WireWhole' /\ HeapInv'
    BY <1>1, <1>2, <2>3, TraceKeepsWire, BoardKeepsHeap DEF NoLossInv
  <2> QED BY <2>1, <2>2, <2>3 DEF IInv, NoLossInv
<1>3. CASE Send
  <2>1. BaseInv'
    BY <1>1, <1>3, SendKeepsBase
  <2>2. lost' = lost \/ lost' = lost + 1
    BY <1>3 DEF Send
  <2>3. lost \in Nat
    BY <1>1, SwoLinkAssumption DEF BaseInv, TypeOK
  <2>4. ASSUME lost' = 0 PROVE WireWhole' /\ HeapInv'
    <3>1. lost' = lost /\ lost = 0
      BY <2>2, <2>3, <2>4
    <3>2. WireWhole /\ HeapInv
      BY <1>1, <3>1 DEF NoLossInv
    <3>3. WireWhole' /\ First' = First
      BY <1>1, <1>3, <3>1, <3>2, SendKeepsWire
    <3> QED BY <1>1, <1>3, <3>2, <3>3, BoardKeepsHeap
  <2> QED BY <2>1, <2>4 DEF IInv, NoLossInv
<1>4. CASE Reset
  <2>1. BaseInv'
    BY <1>1, <1>4, ResetKeepsBase
  <2>2. lost' = lost
    BY <1>4 DEF Reset
  <2>3. ASSUME lost = 0 PROVE WireWhole' /\ HeapInv'
    BY <1>1, <1>4, <2>3, ResetKeepsWire, ResetKeepsHeap DEF NoLossInv
  <2> QED BY <2>1, <2>2, <2>3 DEF IInv, NoLossInv
<1>5. CASE Receive
  <2>1. BaseInv' /\ lost' = lost
    BY <1>1, <1>5, ReceiveTakes
  <2>2. ASSUME lost = 0 PROVE WireWhole' /\ HeapInv'
    BY <1>1, <1>5, <2>2, ReceiveKeepsWire, ReceiveKeepsHeap DEF NoLossInv
  <2> QED BY <2>1, <2>2 DEF IInv, NoLossInv
<1>6. CASE Close \/ NewWorker \/ UNCHANGED vars
  BY <1>1, <1>6, OthersKeepBase, OthersKeepNoLoss DEF IInv
<1> QED BY <1>2, <1>3, <1>4, <1>5, <1>6 DEF Next

LEMMA Invariant == Spec => []IInv
BY InitIsFine, StepIsFine, PTL DEF Spec
-------------------------------------------------------------------------------
(* One lost byte.  In what follows the first worker has not been replaced  *)
(* yet, so there is one run and no reset.                                  *)

(* The items of a run, in the order in which they are sent.                *)
Ord(x) == 2 * x.index - (IF x.isHeader THEN 1 ELSE 0)

NextHalf(x, y) ==
  \/ x.isHeader /\ ~y.isHeader /\ y.index = x.index
  \/ ~x.isHeader /\ y.isHeader /\ y.index = x.index + 1

SkipsOne(x, y) == (x.isHeader <=> y.isHeader) /\ y.index = x.index + 1

(* How many items are missing between the k-th on the wire and the next.   *)
MissingIn(next, items, k) == Ord(next) - Ord(items[k]) - (Len(items) - k + 1)

Missing(k) == MissingIn(NextItem, wire, k)

GapInv ==
  /\ \A k \in 1 .. Len(wire) : Missing(k) \in 0 .. lost
  /\ \A k \in 1 .. Len(wire) - 1 : Ord(wire[k]) < Ord(wire[k + 1])

(* Has everything that was lost been lost before the first item?           *)
Before == wire = <<>> \/ Missing(1) = 0

Extra == IF fooled THEN 1 ELSE 0

(* Where the reader may stand, before item x and with n bytes of payload   *)
(* to come, when it has got c bytes of data: with the frames, or after the *)
(* loss one byte behind them, or in a payload of two or four bytes that it *)
(* believes in.                                                            *)
Stands(c, x, n, e) ==
  \/ n = 0 /\ x.isHeader  /\ c = x.index - 3 + e
  \/ n = 1 /\ ~x.isHeader /\ c = x.index - 3 + e
  \/ n = 0 /\ ~x.isHeader /\ c = x.index - 3 /\ e = 0
  \/ n = 1 /\ x.isHeader  /\ c = x.index - 4 /\ e = 0
  \/ n = 2 /\ x.isHeader  /\ c = x.index - 4 + e
  \/ n = 3 /\ ~x.isHeader /\ c = x.index - 3 /\ e = 1
  \/ n = 4 /\ x.isHeader  /\ c = x.index - 4 /\ e = 1

InStep(x, n, e) == e = 0 /\ n = IF x.isHeader THEN 0 ELSE 1

Counted(c) ==
  /\ Stands(c, First, need, Extra)
  /\ lost = 0 \/ ~Before => InStep(First, need, Extra)

(* "trace ready!" counts as the two bytes before the data.                 *)
SeekCount ==
  \/ First.index = 1 /\ Reading.line = <<>> /\ Extra = 0 /\ Counted(-2)
  \/ First.index > 1 /\ (Ends(Reading.line, R) => Counted(-1))

CaptureCount ==
  /\ Counted(Len(Got))
  /\ ~Ends(Reading.line, R)
  /\ Ends(Reading.line, D) => First.index >= Len(data[1]) + 4 /\ need # 3

DoneCount ==
  need = 0 /\ at = "ended" /\ Len(Reading.total) = Len(data[1]) + Extra

CountInv ==
  /\ Reading.mode = "seek" => SeekCount
  /\ Reading.mode = "capture" => CaptureCount
  /\ Reading.mode = "done" => DoneCount

LengthInv == workerRun = 1 /\ lost <= 1 => GapInv /\ CountInv
-------------------------------------------------------------------------------
LEMMA Ords ==
  ASSUME NEW x \in Items, NEW y \in Items
  PROVE  /\ Ord(x) \in Int
         /\ Ord(y) = Ord(x) + 1 => NextHalf(x, y)
         /\ Ord(y) = Ord(x) + 2 => SkipsOne(x, y)
         /\ NextHalf(x, y) => Ord(y) = Ord(x) + 1
<1>1. x.index \in Nat /\ y.index \in Nat /\ x.isHeader \in BOOLEAN /\ y.isHeader \in BOOLEAN
  BY DEF Items
<1>2. \A i, j \in Nat : /\ 2 * i - 1 \in Int /\ 2 * i \in Int
                        /\ 2 * j - 1 # 2 * i /\ 2 * j # 2 * i - 1 + 2 /\ 2 * j - 1 # 2 * i + 2
                        /\ 2 * j = 2 * i - 1 + 1 <=> j = i
                        /\ 2 * j - 1 = 2 * i + 1 <=> j = i + 1
                        /\ 2 * j = 2 * i + 2 <=> j = i + 1
                        /\ 2 * j - 1 = 2 * i - 1 + 2 <=> j = i + 1
                        /\ 2 * j - 1 # 2 * i - 1 + 1 /\ 2 * j # 2 * i + 1
  OBVIOUS
<1>3. /\ Ord(x) = IF x.isHeader THEN 2 * x.index - 1 ELSE 2 * x.index
      /\ Ord(y) = IF y.isHeader THEN 2 * y.index - 1 ELSE 2 * y.index
  BY <1>1 DEF Ord
<1>4. CASE x.isHeader
  <2>1. CASE y.isHeader
    BY <1>1, <1>2, <1>3, <1>4, <2>1 DEF NextHalf, SkipsOne
  <2>2. CASE ~y.isHeader
    BY <1>1, <1>2, <1>3, <1>4, <2>2 DEF NextHalf, SkipsOne
  <2> QED BY <2>1, <2>2
<1>5. CASE ~x.isHeader
  <2>1. CASE y.isHeader
    BY <1>1, <1>2, <1>3, <1>5, <2>1 DEF NextHalf, SkipsOne
  <2>2. CASE ~y.isHeader
    BY <1>1, <1>2, <1>3, <1>5, <2>2 DEF NextHalf, SkipsOne
  <2> QED BY <2>1, <2>2
<1> QED BY <1>4, <1>5

(* What one item does to the place of the reader, if the next is y.  The   *)
(* only loss may lie between the two.                                      *)
LEMMA StandsOn ==
  ASSUME NEW x \in Items, NEW y \in Items, NEW n \in 0 .. 4, NEW e \in {0, 1},
         NEW c \in Int, Stands(c, x, n, e),
         NextHalf(x, y) \/ (SkipsOne(x, y) /\ InStep(x, n, e)),
         NEW m, NEW d, NEW f,
         \/ /\ n = 0 /\ IsHeader(x.byte) /\ m = SizeOf(x.byte) /\ d = c
            /\ f = IF x.byte = 3 /\ ~x.isHeader THEN 1 ELSE e
         \/ n = 0 /\ ~IsHeader(x.byte) /\ m = 0 /\ d = c + 1 /\ f = e
         \/ n > 0 /\ m = n - 1 /\ d = c + 1 /\ f = e,
         x.isHeader => x.byte = Header
  PROVE  /\ Stands(d, y, m, f)
         /\ NextHalf(x, y) /\ InStep(x, n, e) => InStep(y, m, f)
<1>1. /\ x.index \in Nat /\ y.index \in Nat
      /\ IsHeader(x.byte) => \/ x.byte = 1 /\ SizeOf(x.byte) = 1
                             \/ x.byte = 2 /\ SizeOf(x.byte) = 2
                             \/ x.byte = 3 /\ SizeOf(x.byte) = 4
      /\ Header = 1 /\ IsHeader(Header)
  BY DEF Items, IsHeader, SizeOf, Header
<1>2. CASE x.isHeader
  BY <1>1, <1>2 DEF Stands, NextHalf, SkipsOne, InStep
<1>3. CASE ~x.isHeader
  BY <1>1, <1>3 DEF Stands, NextHalf, SkipsOne, InStep
<1> QED BY <1>2, <1>3

(* The wire and the losses.                                                *)
LEMMA GapsTyped ==
  ASSUME BaseInv
  PROVE  /\ NextItem \in Items /\ Ord(NextItem) \in Int /\ lost \in Nat
         /\ wire \in Seq(Items) /\ Len(wire) \in Nat
         /\ \A k \in 1 .. Len(wire) : wire[k] \in Items /\ Ord(wire[k]) \in Int
<1>1. NextItem \in Items
  BY NextItemIs DEF BaseInv
<1>2. lost \in Nat
  BY SwoLinkAssumption DEF BaseInv, TypeOK
<1>3. wire \in Seq(Items) /\ Len(wire) \in Nat /\ \A k \in 1 .. Len(wire) : wire[k] \in Items
  BY WireTyped DEF BaseInv
<1> QED BY <1>1, <1>2, <1>3, Ords

LEMMA SendOneMore ==
  ASSUME BaseInv, Send
  PROVE  NextHalf(NextItem, NextItem') /\ Ord(NextItem') = Ord(NextItem) + 1
<1>1. Follows(NextItem, NextItem')
  BY SendFollows
<1>2. NextItem \in Items /\ NextItem.run = boardRun /\ boardRun \in Nat
  BY NextItemIs, Texts DEF BaseInv
<1>3. NextItem'.run = boardRun
  BY DEF Send, NextItem
<1> DEFINE x == NextItem
           y == NextItem'
<1>4. x.index \in Nat /\ x.isHeader \in BOOLEAN
  BY <1>2 DEF Items
<1>5. x.run \in Nat /\ y.run = x.run /\ Follows(x, y) /\ NextItem' = y
  BY <1>1, <1>2, <1>3
<1> HIDE DEF x, y
<1>6. NextHalf(x, y)
  BY <1>5 DEF Follows, NextHalf
<1>7. Ord(y) = Ord(x) + 1
  BY <1>4, <1>6 DEF Ord, NextHalf
<1> QED BY <1>5, <1>6, <1>7 DEF x

LEMMA SendKeepsGaps ==
  ASSUME BaseInv, GapInv, Send
  PROVE  /\ GapInv'
         /\ \/ lost' = lost /\ First' = First /\ (Before' <=> Before)
            \/ lost' = lost + 1 /\ First' = First /\ ~Before'
            \/ lost' = lost + 1 /\ Before' /\ NextHalf(First, First')
<1> DEFINE n == NextItem
           m == NextItem'
           w == wire
           v == wire'
<1>1. /\ n \in Items /\ Ord(n) \in Int /\ lost \in Nat /\ w \in Seq(Items) /\ Len(w) \in Nat
      /\ \A k \in 1 .. Len(w) : w[k] \in Items /\ Ord(w[k]) \in Int
  BY GapsTyped
<1>2. NextHalf(n, m) /\ Ord(m) = Ord(n) + 1
  BY SendOneMore
<1>3. /\ \A k \in 1 .. Len(w) : MissingIn(n, w, k) \in 0 .. lost
      /\ \A k \in 1 .. Len(w) - 1 : Ord(w[k]) < Ord(w[k + 1])
  BY DEF GapInv, Missing
<1>4. \/ v = Append(w, n) /\ lost' = lost
      \/ v = w /\ lost' = lost + 1
  BY DEF Send
<1>5. /\ First = IF w = <<>> THEN n ELSE Head(w)
      /\ First' = IF v = <<>> THEN m ELSE Head(v)
      /\ Before <=> w = <<>> \/ MissingIn(n, w, 1) = 0
      /\ Before' <=> v = <<>> \/ MissingIn(m, v, 1) = 0
      /\ (\A k \in 1 .. Len(v) : MissingIn(m, v, k) \in 0 .. lost')
         /\ (\A k \in 1 .. Len(v) - 1 : Ord(v[k]) < Ord(v[k + 1]))
         => GapInv'
  BY DEF First, Before, GapInv, Missing
<1> HIDE DEF n, m, w, v
<1>6. CASE v = Append(w, n) /\ lost' = lost
  <2>1. /\ Len(v) = Len(w) + 1 /\ v # <<>> /\ v[Len(w) + 1] = n
        /\ \A k \in 1 .. Len(w) : v[k] = w[k]
        /\ Head(v) = IF w = <<>> THEN n ELSE Head(w)
    BY <1>1, <1>6
  <2>2. ASSUME NEW k \in 1 .. Len(w) PROVE MissingIn(m, v, k) = MissingIn(n, w, k)
    <3>1. v[k] = w[k] /\ Ord(w[k]) \in Int
      BY <1>1, <2>1
    <3>2. \A a, b \in Int : a + 1 - b - (Len(w) + 1 - k + 1) = a - b - (Len(w) - k + 1)
      BY <1>1
    <3>3. Len(v) = Len(w) + 1 /\ Ord(m) = Ord(n) + 1 /\ Ord(n) \in Int
      BY <1>1, <1>2, <2>1
    <3>4. MissingIn(m, v, k) = Ord(n) + 1 - Ord(w[k]) - (Len(w) + 1 - k + 1)
      BY <3>1, <3>3 DEF MissingIn
    <3>5. MissingIn(n, w, k) = Ord(n) - Ord(w[k]) - (Len(w) - k + 1)
      BY DEF MissingIn
    <3> QED BY <3>1, <3>2, <3>3, <3>4, <3>5
  <2>3. MissingIn(m, v, Len(w) + 1) = 0
    BY <1>1, <1>2, <2>1 DEF MissingIn
  <2>4. ASSUME NEW k \in 1 .. Len(v) PROVE MissingIn(m, v, k) \in 0 .. lost'
    <3>1. k \in 1 .. Len(w) \/ k = Len(w) + 1
      BY <1>1, <2>1
    <3> QED BY <1>1, <1>3, <1>6, <2>2, <2>3, <3>1
  <2>5. ASSUME NEW k \in 1 .. Len(v) - 1 PROVE Ord(v[k]) < Ord(v[k + 1])
    <3>1. k \in 1 .. Len(w)
      BY <1>1, <2>1
    <3>2. CASE k = Len(w)
      <4>1. MissingIn(n, w, k) >= 0 /\ Ord(w[k]) \in Int
        BY <1>1, <1>3, <3>1
      <4>2. Ord(w[k]) < Ord(n)
        BY <1>1, <3>2, <4>1 DEF MissingIn
      <4> QED BY <2>1, <3>1, <3>2, <4>2
    <3>3. CASE k # Len(w)
      <4>1. k \in 1 .. Len(w) - 1 /\ k + 1 \in 1 .. Len(w)
        BY <1>1, <3>1, <3>3
      <4> QED BY <1>3, <2>1, <3>1, <4>1
    <3> QED BY <3>2, <3>3
  <2>6. MissingIn(m, v, 1) = 0 <=> (w = <<>> \/ MissingIn(n, w, 1) = 0)
    <3>1. CASE w = <<>>
      BY <1>1, <2>3, <3>1
    <3>2. CASE w # <<>>
      <4>1. 1 \in 1 .. Len(w)
        BY <1>1, <3>2
      <4> QED BY <2>2, <3>2, <4>1
    <3> QED BY <3>1, <3>2
  <2> QED BY <1>5, <1>6, <2>1, <2>4, <2>5, <2>6
<1>7. CASE v = w /\ lost' = lost + 1
  <2>1. ASSUME NEW k \in 1 .. Len(w) PROVE MissingIn(m, v, k) = MissingIn(n, w, k) + 1
    BY <1>1, <1>2, <1>7 DEF MissingIn
  <2>2. \A k \in 1 .. Len(v) : MissingIn(m, v, k) \in 0 .. lost'
    BY <1>1, <1>3, <1>7, <2>1
  <2>3. GapInv'
    BY <1>3, <1>5, <1>7, <2>2
  <2>4. CASE w = <<>>
    BY <1>2, <1>5, <1>7, <2>3, <2>4
  <2>5. CASE w # <<>>
    <3>1. 1 \in 1 .. Len(w)
      BY <1>1, <2>5
    <3>2. MissingIn(n, w, 1) >= 0 /\ MissingIn(n, w, 1) \in Int
      BY <1>1, <1>3, <3>1
    <3>3. MissingIn(m, v, 1) # 0
      BY <2>1, <3>1, <3>2
    <3> QED BY <1>5, <1>7, <2>3, <2>5, <3>3
  <2> QED BY <2>4, <2>5
<1> QED BY <1>4, <1>6, <1>7

LEMMA ReceiveKeepsGaps ==
  ASSUME BaseInv, GapInv, Receive, lost <= 1
  PROVE  /\ GapInv' /\ lost' = lost /\ First = Head(wire) /\ First' \in Items
         /\ \/ NextHalf(First, First') /\ (Before' <=> Before)
            \/ SkipsOne(First, First') /\ ~Before /\ Before' /\ lost = 1
<1> DEFINE n == NextItem
           w == wire
           v == wire'
<1>1. /\ n \in Items /\ Ord(n) \in Int /\ lost \in Nat /\ w \in Seq(Items) /\ Len(w) \in Nat
      /\ \A k \in 1 .. Len(w) : w[k] \in Items /\ Ord(w[k]) \in Int
  BY GapsTyped
<1>2. /\ w # <<>> /\ v = Tail(w) /\ lost' = lost
      /\ UNCHANGED <<data, boardRun, at, todo, halfSent>>
  BY ReceiveTakes
<1>3. NextItem' = n
  BY <1>2, SameTexts DEF NextItem
<1>4. /\ \A k \in 1 .. Len(w) : MissingIn(n, w, k) \in 0 .. lost
      /\ \A k \in 1 .. Len(w) - 1 : Ord(w[k]) < Ord(w[k + 1])
  BY DEF GapInv, Missing
<1>5. /\ First = Head(w)
      /\ First' = IF v = <<>> THEN n ELSE Head(v)
      /\ Before <=> MissingIn(n, w, 1) = 0
      /\ Before' <=> v = <<>> \/ MissingIn(n, v, 1) = 0
      /\ (\A k \in 1 .. Len(v) : MissingIn(n, v, k) \in 0 .. lost)
         /\ (\A k \in 1 .. Len(v) - 1 : Ord(v[k]) < Ord(v[k + 1]))
         => GapInv'
  BY <1>2, <1>3 DEF First, Before, GapInv, Missing
<1>6. w = wire
  OBVIOUS
<1> HIDE DEF n, w, v
<1>7. /\ Len(w) \in Nat \ {0} /\ v \in Seq(Items) /\ Len(v) = Len(w) - 1 /\ Head(w) = w[1]
      /\ \A k \in 1 .. Len(v) : v[k] = w[k + 1]
  BY <1>1, <1>2
<1>8. (v = <<>> <=> Len(v) = 0) /\ (v # <<>> => Head(v) = v[1])
  BY <1>7, HeadIs
<1>9. ASSUME NEW k \in 1 .. Len(v) PROVE MissingIn(n, v, k) = MissingIn(n, w, k + 1)
  <2>1. v[k] = w[k + 1] /\ Len(v) - k + 1 = Len(w) - (k + 1) + 1
    BY <1>7
  <2> QED BY <2>1 DEF MissingIn
<1>10. ASSUME NEW k \in 1 .. Len(v) PROVE MissingIn(n, v, k) \in 0 .. lost
  <2>1. k + 1 \in 1 .. Len(w)
    BY <1>7
  <2> QED BY <1>4, <1>9, <2>1
<1>11. ASSUME NEW k \in 1 .. Len(v) - 1 PROVE Ord(v[k]) < Ord(v[k + 1])
  <2>1. k + 1 \in 1 .. Len(w) - 1 /\ k \in 1 .. Len(v) /\ k + 1 \in 1 .. Len(v)
    BY <1>7
  <2> QED BY <1>4, <1>7, <2>1
<1>12. GapInv'
  BY <1>5, <1>10, <1>11
<1>13. 1 \in 1 .. Len(w) /\ w[1] \in Items /\ Ord(w[1]) \in Int /\ MissingIn(n, w, 1) \in 0 .. lost
  BY <1>1, <1>4, <1>7
<1>14. CASE v = <<>>
  <2>1. Len(w) = 1 /\ First' = n /\ Before'
    BY <1>5, <1>7, <1>8, <1>14
  <2>2. Ord(n) = Ord(w[1]) + 1 + MissingIn(n, w, 1)
    BY <1>1, <1>13, <2>1 DEF MissingIn
  <2>3. CASE MissingIn(n, w, 1) = 0
    <3>1. NextHalf(w[1], n)
      BY <1>1, <1>13, <2>2, <2>3, Ords
    <3> QED BY <1>1, <1>2, <1>5, <1>6, <1>7, <1>12, <2>1, <2>3, <3>1
  <2>4. CASE MissingIn(n, w, 1) # 0
    <3>1. MissingIn(n, w, 1) = 1 /\ lost = 1
      BY <1>1, <1>13, <2>4
    <3>2. SkipsOne(w[1], n)
      BY <1>1, <1>13, <2>2, <3>1, Ords
    <3> QED BY <1>1, <1>2, <1>5, <1>6, <1>7, <1>12, <2>1, <2>4, <3>1, <3>2
  <2> QED BY <2>3, <2>4
<1>15. CASE v # <<>>
  <2>1. 1 \in 1 .. Len(v) /\ 1 \in 1 .. Len(w) - 1 /\ 2 \in 1 .. Len(w) /\ 1 + 1 = 2
    BY <1>7, <1>8, <1>15
  <2>2. /\ First' = w[2] /\ w[2] \in Items /\ Ord(w[2]) \in Int /\ Ord(w[1]) < Ord(w[2])
        /\ MissingIn(n, v, 1) = MissingIn(n, w, 2) /\ MissingIn(n, v, 1) \in 0 .. lost
    BY <1>1, <1>4, <1>5, <1>7, <1>8, <1>9, <1>10, <1>15, <2>1
  <2>3. /\ MissingIn(n, w, 1) = Ord(n) - Ord(w[1]) - Len(w)
        /\ MissingIn(n, w, 2) = Ord(n) - Ord(w[2]) - (Len(w) - 1)
    BY <1>1, <1>7, <1>13, <2>2 DEF MissingIn
  <2>4. Ord(w[2]) - Ord(w[1]) - 1 = MissingIn(n, w, 1) - MissingIn(n, w, 2)
    BY <1>1, <1>7, <1>13, <2>2, <2>3
  <2>5. CASE MissingIn(n, w, 1) = MissingIn(n, w, 2)
    <3>1. Ord(w[2]) = Ord(w[1]) + 1
      BY <1>13, <2>2, <2>4, <2>5
    <3>2. NextHalf(w[1], w[2])
      BY <1>13, <2>2, <3>1, Ords
    <3> QED BY <1>2, <1>5, <1>6, <1>7, <1>12, <1>15, <2>2, <2>5, <3>2
  <2>6. CASE MissingIn(n, w, 1) # MissingIn(n, w, 2)
    <3>1. MissingIn(n, w, 1) = 1 /\ MissingIn(n, w, 2) = 0 /\ lost = 1 /\ Ord(w[2]) = Ord(w[1]) + 2
      BY <1>1, <1>13, <2>2, <2>4, <2>6
    <3>2. SkipsOne(w[1], w[2])
      BY <1>13, <2>2, <3>1, Ords
    <3> QED BY <1>2, <1>5, <1>6, <1>7, <1>12, <2>2, <3>1, <3>2
  <2> QED BY <2>5, <2>6
<1> QED BY <1>14, <1>15

(* The count of the reader.                                                *)
LEMMA TraceKeepsLength ==
  ASSUME BaseInv, GapInv, CountInv, Trace, boardRun = 1
  PROVE  GapInv' /\ CountInv'
<1>1. /\ UNCHANGED <<boardRun, wire, lost, need, payload, heap, fooled>> /\ at = "bench"
      /\ NextItem' = NextItem
  BY TraceKeepsBoard DEF BaseInv, Trace, worker
<1>2. GapInv'
  BY <1>1 DEF GapInv, Missing
<1>3. First' = First /\ (Before' <=> Before) /\ Reading' = Reading /\ Got' = Got /\ Extra' = Extra
  BY <1>1 DEF First, Before, Missing, Reading, Got, Extra
<1>4. \A c : Counted(c) => Stands(c, First', need', Extra')
                           /\ (lost' = 0 \/ ~Before' => InStep(First', need', Extra'))
  BY <1>1, <1>3 DEF Counted
<1>5. SeekCount => SeekCount'
  BY <1>3, <1>4 DEF SeekCount, Counted
<1>6. CaptureCount => CaptureCount'
  <2> HAVE CaptureCount
  <2>1. First.index <= Len(data[1]) + 3
    <3>1. /\ First \in Items /\ First.run <= boardRun
          /\ First.run = boardRun => First.index <= Len(Text) + 1
      BY FirstIs
    <3>2. First.run \in 1 .. MaxRuns /\ First.run \in Nat /\ First.index \in Nat
      BY <3>1 DEF Items
    <3>3. Len(Text) = Len(data[1]) + 2 /\ Len(data[1]) \in Nat
      BY <1>1, Texts DEF BaseInv
    <3> QED BY <3>1, <3>2, <3>3
  <2>2. ~Ends(Reading.line, D)
    <3>1. First \in Items /\ Len(data[1]) \in Nat
      BY FirstIs, Texts DEF BaseInv
    <3>2. First.index \in Nat
      BY <3>1 DEF Items
    <3> QED BY <2>1, <3>1, <3>2 DEF CaptureCount
  <2> QED BY <1>3, <1>4, <2>2 DEF CaptureCount, Counted
<1>7. Reading.mode # "done"
  BY <1>1 DEF CountInv, DoneCount
<1> QED BY <1>2, <1>3, <1>5, <1>6, <1>7 DEF CountInv

LEMMA SendKeepsLength ==
  ASSUME BaseInv, GapInv, CountInv, Send, boardRun = 1, lost' <= 1
  PROVE  GapInv' /\ CountInv'
<1>1. UNCHANGED <<data, at, boardRun, need, payload, heap, fooled>>
  BY DEF Send, worker
<1>2. Reading' = Reading /\ Got' = Got /\ Extra' = Extra
  BY <1>1 DEF Reading, Got, Extra
<1>3. lost \in Nat /\ First \in Items
  BY GapsTyped, FirstIs
<1>4. /\ GapInv'
      /\ \/ lost' = lost /\ First' = First /\ (Before' <=> Before)
         \/ lost' = 1 /\ lost = 0 /\ First' = First /\ ~Before'
         \/ lost' = 1 /\ lost = 0 /\ Before' /\ NextHalf(First, First')
  BY <1>3, SendKeepsGaps
<1>5. First.index \in Nat /\ First.isHeader \in BOOLEAN
  BY <1>3 DEF Items
<1>6. ASSUME NEW c \in Int, Counted(c)
      PROVE  /\ Stands(c, First', need, Extra)
             /\ lost' = 0 \/ ~Before' => InStep(First', need, Extra)
  <2>1. CASE First' = First
    BY <1>3, <1>4, <1>6, <2>1 DEF Counted
  <2>2. CASE lost' = 1 /\ lost = 0 /\ Before' /\ NextHalf(First, First')
    <3>1. InStep(First, need, Extra) /\ Stands(c, First, need, Extra)
      BY <1>6, <2>2 DEF Counted
    <3>2. Stands(c, First', need, Extra)
      BY <1>5, <2>2, <3>1 DEF Stands, InStep, NextHalf
    <3> QED BY <2>2, <3>2
  <2> QED BY <1>4, <2>1, <2>2
<1>7. First'.index >= First.index /\ (First.index > 1 => First'.index > 1)
  BY <1>4, <1>5 DEF NextHalf
<1>8. SeekCount => SeekCount'
  <2>1. CASE First.index = 1 /\ Reading.line = <<>> /\ Extra = 0 /\ Counted(-2)
    <3>1. Counted(-2)'
      BY <1>1, <1>2, <1>6, <2>1 DEF Counted
    <3>2. First'.index = 1 \/ First'.index > 1
      BY <1>7, <2>1, <1>4, <1>5 DEF NextHalf
    <3> QED BY <1>2, <2>1, <3>1, <3>2 DEF SeekCount, Ends
  <2>2. CASE First.index > 1 /\ (Ends(Reading.line, R) => Counted(-1))
    <3>1. Counted(-1) => Counted(-1)'
      BY <1>1, <1>2, <1>6 DEF Counted
    <3> QED BY <1>2, <1>7, <2>2, <3>1 DEF SeekCount
  <2> QED BY <2>1, <2>2 DEF SeekCount
<1>9. Reading.mode = "capture" /\ CaptureCount => CaptureCount'
  <2> HAVE CaptureCount
  <2>1. Len(Got) \in Int /\ Len(data[1]) \in Nat
    <3>1. Reading.total \in Seq(Letters) /\ Reading.line \in Seq(Letters)
      BY DEF BaseInv, ReaderInv, Reader
    <3> QED BY <1>1, <3>1, GotSoFar, Texts DEF Got, BaseInv
  <2>2. Counted(Len(Got))'
    BY <1>1, <1>2, <1>6, <2>1 DEF Counted, CaptureCount
  <2>3. First.index >= Len(data[1]) + 4 => First'.index >= Len(data'[1]) + 4
    BY <1>1, <1>4, <1>5, <2>1 DEF NextHalf
  <2> QED BY <1>1, <1>2, <2>2, <2>3 DEF CaptureCount
<1>10. DoneCount => DoneCount'
  BY <1>1, <1>2 DEF DoneCount
<1> QED BY <1>2, <1>4, <1>8, <1>9, <1>10 DEF CountInv

(* What there is to know of the item taken and of the one after it.         *)
LEMMA ReceiveNext ==
  ASSUME BaseInv, GapInv, Receive, lost <= 1, boardRun = 1
  PROVE  /\ GapInv' /\ Len(data[1]) \in Nat /\ data' = data /\ at' = at
         /\ Taken(First) /\ First.byte \in Letters /\ need \in 0 .. 4
         /\ First.index \in 1 .. Len(data[1]) + 4 /\ First.isHeader \in BOOLEAN
         /\ First.isHeader => First.byte = Header
         /\ ~First.isHeader => /\ First.byte = R <=> First.index = 1
                               /\ First.byte = D <=> First.index = Len(data[1]) + 3
         /\ First.index = Len(data[1]) + 4 => at = "ended"
         /\ First'.index \in Nat
         /\ First'.index = First.index \/ First'.index = First.index + 1
         /\ ~First.isHeader => First'.index = First.index + 1
         /\ (Extra \in {0, 1})
         /\ Extra' = IF need = 0 /\ First.byte = 3 /\ ~First.isHeader THEN 1 ELSE Extra
<1> DEFINE x == First
           y == First'
           n == Len(data[1])
<1>1. /\ GapInv' /\ x = Head(wire) /\ y \in Items
      /\ NextHalf(x, y) \/ SkipsOne(x, y)
  BY ReceiveKeepsGaps
<1>2. /\ x \in Items /\ Genuine(x) /\ Taken(x) /\ data' = data /\ at' = at
  BY <1>1, ReceiveTakes
<1>3. /\ n \in Nat /\ Len(Text) = n + (IF at = "ended" THEN 4 ELSE 2) /\ 1 \in 1 .. MaxRuns
      /\ data[1] \in Seq(DataBytes)
  <2>1. TypeOK /\ boardRun = 1
    BY DEF BaseInv
  <2>2. 1 \in 1 .. MaxRuns /\ Len(Text) = Len(data[1]) + (IF at = "ended" THEN 4 ELSE 2)
    BY <2>1, Texts
  <2>3. data[1] \in Seq(DataBytes) /\ Len(data[1]) \in 0 .. MaxData /\ MaxData \in Nat
    BY <2>1, <2>2, Texts
  <2>4. Len(data[1]) \in Nat
    BY <2>3
  <2> QED BY <2>2, <2>3, <2>4
<1>4. x.run = 1 /\ x.index \in 1 .. Len(Full(1)) /\ x.index <= Len(Text)
  BY <1>2, GenuineMeans DEF BaseInv
<1>5. Len(Full(1)) = n + 4
  <2>1. Full(1) = Whole(data[1])
    BY DEF Full
  <2> QED BY <1>3, <2>1, WholeText
<1>6. /\ x.byte \in Letters
      /\ x.isHeader => x.byte = Header
      /\ ~x.isHeader => (x.byte = R <=> x.index = 1) /\ (x.byte = D <=> x.index = Len(Full(1)) - 1)
  BY <1>2, <1>4, GenuineByte DEF BaseInv
<1>7. need \in 0 .. 4 /\ Extra \in {0, 1} /\ x.isHeader \in BOOLEAN /\ y.index \in Nat /\ x.index \in Nat
  BY <1>1, <1>2 DEF BaseInv, TypeOK, Extra, Items
<1>8. Extra' = IF need = 0 /\ x.byte = 3 /\ ~x.isHeader THEN 1 ELSE Extra
  <2>1. /\ need = 0 => fooled' = (fooled \/ (x.byte = 3 /\ ~x.isHeader))
        /\ need > 0 => fooled' = fooled
    BY <1>1, <1>7 DEF Receive, ReceiveHeader, ReceivePayload
  <2>2. CASE need = 0
    BY <2>1, <2>2 DEF Extra
  <2>3. CASE need # 0
    <3>1. fooled' = fooled
      BY <1>7, <2>1, <2>3
    <3> QED BY <2>3, <3>1 DEF Extra
  <2> QED BY <2>2, <2>3
<1>9. x.index = n + 4 => at = "ended"
  BY <1>3, <1>4, <1>7
<1>10. (y.index = x.index \/ y.index = x.index + 1) /\ (~x.isHeader => y.index = x.index + 1)
  BY <1>1, <1>7 DEF NextHalf, SkipsOne
<1>11. (x.index = Len(Full(1)) - 1 <=> x.index = n + 3) /\ x.index \in 1 .. n + 4
  BY <1>3, <1>4, <1>5
<1> QED BY <1>1, <1>2, <1>3, <1>6, <1>7, <1>8, <1>9, <1>10, <1>11

LEMMA ReceiveCounts ==
  ASSUME BaseInv, GapInv, Receive, lost <= 1, boardRun = 1, NEW c \in Int, Counted(c)
  PROVE  IF need = 0 /\ IsHeader(First.byte) THEN Counted(c)' ELSE Counted(c + 1)'
<1> DEFINE x == First
           y == First'
           e == Extra
           f == Extra'
           m == need'
<1>1. /\ x \in Items /\ y \in Items /\ Taken(x) /\ lost' = lost
      /\ \/ NextHalf(x, y) /\ (Before' <=> Before)
         \/ SkipsOne(x, y) /\ ~Before /\ Before' /\ lost = 1
      /\ x.isHeader => x.byte = Header
  <2>1. /\ lost' = lost /\ x = Head(wire) /\ y \in Items
        /\ \/ NextHalf(x, y) /\ (Before' <=> Before)
           \/ SkipsOne(x, y) /\ ~Before /\ Before' /\ lost = 1
    BY ReceiveKeepsGaps
  <2>2. x \in Items /\ Genuine(x) /\ Taken(x)
    BY <2>1, ReceiveTakes
  <2>3. x.isHeader => x.byte = Header
    BY <2>2, GenuineByte DEF BaseInv
  <2> QED BY <2>1, <2>2, <2>3
<1>2. need \in 0 .. 4 /\ e \in {0, 1} /\ f = IF need = 0 /\ x.byte = 3 /\ ~x.isHeader THEN 1 ELSE e
  BY ReceiveNext
<1>3. /\ Stands(c, x, need, e)
      /\ lost = 0 \/ ~Before => InStep(x, need, e)
  BY DEF Counted
<1>4. ASSUME NEW d \in {c, c + 1},
             IF need = 0 /\ IsHeader(x.byte) THEN d = c ELSE d = c + 1
      PROVE  Counted(d)'
  <2>1. /\ \/ need = 0 /\ IsHeader(x.byte) /\ m = SizeOf(x.byte) /\ d = c
              /\ f = IF x.byte = 3 /\ ~x.isHeader THEN 1 ELSE e
           \/ need = 0 /\ ~IsHeader(x.byte) /\ m = 0 /\ d = c + 1 /\ f = e
           \/ need > 0 /\ m = need - 1 /\ d = c + 1 /\ f = e
    <3>1. ~IsHeader(x.byte) => x.byte # 3
      BY DEF IsHeader
    <3> QED BY <1>1, <1>2, <1>4, <3>1 DEF Taken
  <2>2. /\ Stands(d, y, m, f) /\ (lost' = 0 \/ ~Before' => InStep(y, m, f))
        => Counted(d)'
    BY DEF Counted
  <2> HIDE DEF x, y, e, f, m
  <2>3. NextHalf(x, y) \/ (SkipsOne(x, y) /\ InStep(x, need, e))
    BY <1>1, <1>3
  <2>4. /\ Stands(d, y, m, f)
        /\ NextHalf(x, y) /\ InStep(x, need, e) => InStep(y, m, f)
    BY <1>1, <1>2, <1>3, <2>1, <2>3, StandsOn
  <2>5. lost' = 0 \/ ~Before' => InStep(y, m, f)
    BY <1>1, <1>3, <2>4
  <2> QED BY <2>2, <2>4, <2>5
<1>5. CASE need = 0 /\ IsHeader(x.byte)
  BY <1>4, <1>5
<1>6. CASE ~(need = 0 /\ IsHeader(x.byte))
  BY <1>4, <1>6
<1> QED BY <1>5, <1>6

LEMMA ReceiveKeepsLength ==
  ASSUME BaseInv, GapInv, CountInv, Receive, lost <= 1, boardRun = 1
  PROVE  GapInv' /\ CountInv'
<1> DEFINE x == First
           y == First'
           h == Reading
           b == x.byte
           n == Len(data[1])
           k == Reading'
           read == ~(need = 0 /\ IsHeader(b))
<1>1. /\ GapInv' /\ n \in Nat /\ data' = data /\ at' = at
      /\ Taken(x) /\ b \in Letters /\ need \in 0 .. 4
      /\ x.index \in 1 .. n + 4 /\ x.isHeader \in BOOLEAN
      /\ x.isHeader => b = Header
      /\ ~x.isHeader => (b = R <=> x.index = 1) /\ (b = D <=> x.index = n + 3)
      /\ x.index = n + 4 => at = "ended"
      /\ y.index \in Nat /\ (y.index = x.index \/ y.index = x.index + 1)
      /\ ~x.isHeader => y.index = x.index + 1
      /\ Extra \in {0, 1}
      /\ Extra' = IF need = 0 /\ b = 3 /\ ~x.isHeader THEN 1 ELSE Extra
  BY ReceiveNext
<1>2. /\ h \in Reader /\ h.line \in Seq(Letters) /\ h.total \in Seq(Letters)
      /\ h.mode \in {"seek", "capture", "done"}
  BY DEF BaseInv, ReaderInv, Reader
<1>3. /\ read => k = Byte(h, b) /\ need' = IF need = 0 THEN 0 ELSE need - 1
      /\ ~read => k = h /\ need' = SizeOf(b)
  BY <1>1 DEF Taken
<1>4. SizeOf(b) # 3 \/ read
  BY DEF SizeOf, IsHeader
<1>5. ASSUME NEW c \in Int, Counted(c)
      PROVE  /\ read => Counted(c + 1)'
             /\ ~read => Counted(c)'
             /\ Stands(c, x, need, Extra)
  <2>1. Stands(c, First, need, Extra)
    BY <1>5 DEF Counted
  <2> QED BY <1>5, <2>1, ReceiveCounts
<1>6. h.mode # "done"
  <2>1. h.mode = "done" => need = 0
    BY DEF CountInv, DoneCount
  <2>2. need = 0 => payload = <<>>
    BY DEF BaseInv, TypeOK
  <2>3. payload = <<>> => h = heap
    BY FedNothing DEF Reading
  <2>4. heap.mode # "done"
    BY DEF Receive, ReceiveHeader, ReceivePayload
  <2> QED BY <2>1, <2>2, <2>3, <2>4
<1>7. /\ h = Reading /\ x = First /\ y = First' /\ k = Reading' /\ n = Len(data[1])
      /\ ~Ends(<<>>, R) /\ ~Ends(<<>>, D)
  BY DEF Ends
<1>8. /\ b = Newline => read /\ ~x.isHeader
      /\ b = R \/ b = D => read /\ ~x.isHeader
  BY <1>1, Bytes
<1> HIDE DEF x, y, h, b, n, k, read
<1>9. CASE h.mode = "seek" /\ x.index = 1
  <2>1. h.line = <<>> /\ Extra = 0 /\ Counted(-2)
    BY <1>7, <1>9 DEF CountInv, SeekCount
  <2>2. CASE ~read
    <3>1. k = h /\ Counted(-2)'
      BY <1>3, <1>5, <2>1, <2>2
    <3>2. x.isHeader
      BY <1>1, <1>8, <1>9, <2>2
    <3>3. Extra' = 0
      BY <1>1, <2>1, <3>2
    <3>4. y.index = 1 \/ y.index > 1
      BY <1>1, <1>9
    <3>5. SeekCount'
      BY <1>7, <2>1, <3>1, <3>3, <3>4 DEF SeekCount
    <3> QED BY <1>1, <1>7, <1>9, <3>1, <3>5 DEF CountInv
  <2>3. CASE read
    <3>1. Stands(-2, x, need, 0) /\ Counted(-2 + 1)'
      BY <1>5, <2>1, <2>3
    <3>2. ~x.isHeader
      <4>1. x.isHeader => need = 0
        BY <1>9, <3>1 DEF Stands
      <4>2. x.isHeader => IsHeader(b)
        BY <1>1, Bytes
      <4> QED BY <2>3, <4>1, <4>2 DEF read
    <3>3. b = R /\ y.index = 2
      BY <1>1, <1>9, <3>2
    <3>4. k = [h EXCEPT !.line = Append(@, b)]
      BY <1>1, <1>2, <1>3, <1>9, <2>3, <3>3, ByteIs, Bytes
    <3>5. k.mode = "seek"
      BY <1>2, <1>9, <3>4 DEF Reader
    <3>6. SeekCount'
      <4>1. Counted(-1)'
        BY <3>1
      <4> QED BY <1>7, <3>3, <4>1 DEF SeekCount
    <3> QED BY <1>1, <1>7, <3>5, <3>6 DEF CountInv
  <2> QED BY <2>2, <2>3
<1>10. CASE h.mode = "seek" /\ x.index # 1
  <2>1. /\ Ends(h.line, R) => Counted(-1)
        /\ b # R /\ y.index > 1
    <3>1. SeekCount
      BY <1>7, <1>10 DEF CountInv
    <3>2. b # R
      BY <1>1, <1>8, <1>10
    <3>3. y.index > 1
      BY <1>1, <1>10
    <3> QED BY <1>7, <1>10, <3>1, <3>2, <3>3 DEF SeekCount
  <2>2. k.mode = "seek" /\ (Ends(k.line, R) => Counted(-1)') => CountInv'
    BY <1>7, <2>1 DEF CountInv, SeekCount
  <2>3. CASE ~read
    BY <1>1, <1>3, <1>5, <1>10, <2>1, <2>2, <2>3
  <2>4. CASE read /\ b # Newline
    <3>1. k = [h EXCEPT !.line = Append(@, b)]
      BY <1>1, <1>2, <1>3, <1>10, <2>4, ByteIs
    <3>2. k.mode = "seek" /\ k.line = Append(h.line, b)
      BY <1>2, <1>10, <3>1 DEF Reader
    <3>3. ~Ends(k.line, R)
      BY <1>1, <1>2, <2>1, <3>2, EndsAppended
    <3> QED BY <1>1, <2>2, <3>2, <3>3
  <2>5. CASE read /\ b = Newline /\ Ends(h.line, R)
    <3>1. k = [mode |-> "capture", line |-> <<>>, total |-> <<>>]
      BY <1>1, <1>2, <1>3, <1>10, <2>5, ByteIs
    <3>2. Counted(0)'
      <4>1. Counted(-1 + 1)'
        BY <1>5, <2>1, <2>5
      <4> QED BY <4>1
    <3>3. k.mode = "capture" /\ k.line = <<>> /\ k.total \o k.line = <<>>
      BY <3>1
    <3>4. Got' = <<>>
      BY <1>7, <3>3 DEF Got
    <3>5. Counted(Len(Got))'
      <4>1. Len(Got') = 0
        BY <3>4
      <4> QED BY <3>2, <4>1 DEF Counted
    <3>6. CaptureCount'
      BY <1>7, <3>3, <3>5 DEF CaptureCount
    <3> QED BY <1>1, <1>7, <3>3, <3>6 DEF CountInv
  <2>6. CASE read /\ b = Newline /\ ~Ends(h.line, R)
    <3>1. k = [h EXCEPT !.line = <<>>]
      BY <1>1, <1>2, <1>3, <1>10, <2>6, ByteIs
    <3>2. k.mode = "seek" /\ k.line = <<>>
      BY <1>2, <1>10, <3>1 DEF Reader
    <3> QED BY <1>1, <1>7, <2>2, <3>2
  <2> QED BY <1>1, <2>3, <2>4, <2>5, <2>6
<1>11. CASE h.mode = "capture"
  <2> DEFINE g == h.total \o h.line
             e == h.total \o Append(h.line, b)
  <2>1. /\ Counted(Len(g)) /\ ~Ends(h.line, R)
        /\ Ends(h.line, D) => x.index >= n + 4 /\ need # 3
    BY <1>7, <1>11 DEF CountInv, CaptureCount, Got
  <2>2. Len(g) \in Nat /\ OneLonger(e, g, b)
    BY <1>1, <1>2, GotSoFar, GotOneMore
  <2>3. Len(e) = Len(g) + 1 /\ e \o <<>> = e
    BY <2>2 DEF OneLonger
  <2>4. Got' = k.total \o k.line
    BY <1>7 DEF Got
  <2>5. Ends(h.line, D) => OneShorter(h.total \o SubSeq(h.line, 1, Len(h.line) - 1), g)
    BY <1>2, GotWithoutLast DEF Ends
  <2>6. ASSUME Ends(h.line, D)
        PROVE  Len(h.total \o SubSeq(h.line, 1, Len(h.line) - 1)) = Len(g) - 1
    BY <2>5, <2>6 DEF OneShorter
  <2> HIDE DEF g, e
  <2>7. Stands(Len(g), x, need, Extra)
    BY <1>5, <2>1, <2>2
  <2>8. x.index > 1
    BY <1>1, <2>2, <2>7 DEF Stands
  <2>9. b # R
    BY <1>1, <1>8, <2>8
  <2>10. PICK c \in Nat : c = Len(g)
    BY <2>2
  <2>11. ASSUME NEW d, d = Len(Got'), Counted(d)', k.mode = "capture", ~Ends(k.line, R),
                Ends(k.line, D) => y.index >= n + 4 /\ need' # 3
         PROVE  CountInv'
    <3>1. Counted(Len(Got))'
      BY <2>11 DEF Counted
    <3>2. CaptureCount'
      BY <1>1, <1>7, <2>11, <3>1 DEF CaptureCount
    <3> QED BY <1>7, <2>11, <3>2 DEF CountInv
  <2>12. CASE ~read
    <3>1. k = h /\ Counted(c)' /\ need' # 3 /\ Got' = g
      <4>1. k = h /\ need' # 3
        BY <1>3, <1>4, <2>12
      <4>2. Got' = g
        BY <2>4, <4>1 DEF g
      <4>3. Counted(c)'
        BY <1>5, <2>1, <2>10, <2>12
      <4> QED BY <4>1, <4>2, <4>3
    <3>2. y.index >= x.index
      BY <1>1
    <3>3. Ends(k.line, D) => y.index >= n + 4
      BY <1>1, <2>1, <3>1, <3>2
    <3> QED BY <1>1, <1>11, <2>1, <2>10, <2>11, <3>1, <3>3
  <2>13. CASE read /\ b # Newline
    <3>1. k = [h EXCEPT !.line = Append(@, b)]
      BY <1>1, <1>2, <1>3, <1>11, <2>13, ByteIs
    <3>2. k.mode = "capture" /\ k.line = Append(h.line, b) /\ k.total = h.total
      BY <1>2, <1>11, <3>1 DEF Reader
    <3>3. Got' = e
      BY <2>4, <3>2 DEF e
    <3>4. (Ends(k.line, R) <=> b = R) /\ (Ends(k.line, D) <=> b = D)
      BY <1>1, <1>2, <3>2, EndsAppended
    <3>5. b = D => y.index = n + 4 /\ ~x.isHeader
      BY <1>1, <1>8
    <3>6. ~x.isHeader => need' # 3
      BY <1>1, <1>3, <2>7, <2>13 DEF Stands
    <3>7. Counted(c + 1)'
      BY <1>5, <2>1, <2>10, <2>13
    <3>8. Ends(k.line, D) => y.index >= n + 4 /\ need' # 3
      BY <1>1, <3>4, <3>5, <3>6
    <3> QED BY <1>1, <2>3, <2>9, <2>10, <2>11, <3>2, <3>3, <3>4, <3>7, <3>8
  <2>14. CASE read /\ b = Newline /\ Ends(h.line, D)
    <3>1. k = [mode |-> "done", line |-> <<>>,
               total |-> h.total \o SubSeq(h.line, 1, Len(h.line) - 1)]
      BY <1>1, <1>2, <1>3, <1>11, <2>14, ByteIs
    <3>2. k.mode = "done" /\ Len(k.total) = Len(g) - 1
      BY <2>6, <2>14, <3>1
    <3>3. ~x.isHeader /\ x.index = n + 4 /\ at' = "ended" /\ need # 3
      BY <1>1, <1>8, <2>1, <2>14
    <3>4. Extra' = Extra
      BY <1>1, <2>14 DEF Newline
    <3>5. Len(g) = n + 1 + Extra /\ need \in {0, 1}
      BY <1>1, <2>7, <3>3 DEF Stands
    <3>6. need' = 0 /\ Len(g) - 1 = n + Extra
      BY <1>1, <1>3, <2>14, <3>5
    <3>7. DoneCount'
      BY <1>1, <1>7, <3>2, <3>3, <3>4, <3>6 DEF DoneCount
    <3> QED BY <1>1, <1>7, <3>2, <3>7 DEF CountInv
  <2>15. CASE read /\ b = Newline /\ ~Ends(h.line, D)
    <3>1. k = [mode |-> "capture", line |-> <<>>, total |-> h.total \o Append(h.line, b)]
      BY <1>1, <1>2, <1>3, <1>11, <2>1, <2>15, ByteIs
    <3>2. k.mode = "capture" /\ k.line = <<>> /\ k.total = e
      BY <3>1 DEF e
    <3>3. Got' = e
      BY <2>3, <2>4, <3>2
    <3>4. Counted(c + 1)'
      BY <1>5, <2>1, <2>10, <2>15
    <3> QED BY <1>1, <1>7, <2>3, <2>10, <2>11, <3>2, <3>3, <3>4
  <2> QED BY <1>1, <2>12, <2>13, <2>14, <2>15
<1> QED BY <1>2, <1>6, <1>9, <1>10, <1>11

LEMMA LengthInit == Init => LengthInv
<1> SUFFICES ASSUME Init PROVE GapInv /\ CountInv
  BY DEF LengthInv
<1>1. /\ wire = <<>> /\ lost = 0 /\ fooled = FALSE /\ need = 0 /\ halfSent = FALSE
      /\ todo = READY /\ payload = <<>> /\ heap = Seeking
  BY DEF Init
<1>2. GapInv
  BY <1>1 DEF GapInv
<1>3. Text = READY
  <2>1. data[boardRun] = <<>> /\ at = "bench"
    BY SwoLinkAssumption DEF Init
  <2>2. READY \in Seq(Letters) /\ READY \o <<>> = READY
    BY DEF READY, Letters, DataBytes, Newline
  <2> QED BY <2>1, <2>2 DEF Text
<1>4. First.isHeader /\ First.index = 1
  <2>1. Len(READY) = 2
    BY DEF READY
  <2>2. todo = READY /\ Text = READY
    BY <1>1, <1>3
  <2>3. Len(Text) = 2 /\ Len(todo) = 2
    BY <2>1, <2>2
  <2>4. NextItem.isHeader = ~halfSent /\ NextItem.index = Len(Text) - Len(todo) + 1
    BY DEF NextItem
  <2>5. Len(Text) - Len(todo) + 1 = 1
    BY <2>3
  <2>6. NextItem.isHeader /\ NextItem.index = 1
    BY <1>1, <2>4, <2>5
  <2>7. First = NextItem
    BY <1>1 DEF First
  <2> QED BY <2>6, <2>7
<1>5. Reading = Seeking
  BY <1>1, FedNothing DEF Reading
<1>6. Extra = 0
  BY <1>1 DEF Extra
<1>7. Counted(-2)
  BY <1>1, <1>4, <1>6 DEF Counted, Stands, InStep
<1>8. Reading.mode = "seek" /\ Reading.line = <<>>
  BY <1>5 DEF Seeking
<1> QED BY <1>2, <1>4, <1>6, <1>7, <1>8 DEF CountInv, SeekCount

LEMMA LengthStep == IInv /\ LengthInv /\ [Next]_vars => LengthInv'
<1> SUFFICES ASSUME BaseInv, LengthInv, [Next]_vars, workerRun' = 1, lost' <= 1
             PROVE  GapInv' /\ CountInv'
  BY DEF IInv, LengthInv
<1>1. boardRun \in Nat \ {0} /\ workerRun \in boardRun .. boardRun + 1 /\ lost \in Nat
  BY Texts, SwoLinkAssumption DEF BaseInv, TypeOK
<1>2. ~NewWorker
  BY <1>1 DEF NewWorker
<1>3. workerRun' = workerRun /\ (lost' = lost \/ lost' = lost + 1)
  <2>1. CASE Receive
    BY <1>1, <2>1, ReceiveTakes
  <2>2. CASE Trace \/ Send \/ Reset \/ Close \/ UNCHANGED vars
    BY <1>1, <2>2 DEF Trace, Send, Reset, Close, vars, worker
  <2> QED BY <1>2, <2>1, <2>2 DEF Next
<1>4. boardRun = 1 /\ lost <= 1 /\ workerRun = 1
  <2>1. workerRun = 1
    BY <1>3
  <2>2. boardRun = 1
    BY <1>1, <2>1
  <2>3. lost <= 1
    BY <1>1, <1>3
  <2> QED BY <2>1, <2>2, <2>3
<1>5. GapInv /\ CountInv
  BY <1>4 DEF LengthInv
<1>6. CASE Trace
  BY <1>4, <1>5, <1>6, TraceKeepsLength
<1>7. CASE Send
  BY <1>4, <1>5, <1>7, SendKeepsLength
<1>8. CASE Reset
  BY <1>4, <1>8 DEF Reset
<1>9. CASE Receive
  BY <1>4, <1>5, <1>9, ReceiveKeepsLength
<1>10. CASE Close \/ UNCHANGED vars
  <2>1. UNCHANGED <<data, boardRun, at, todo, halfSent, wire, lost, need, payload, heap, fooled>>
    BY <1>10 DEF Close, vars, board, worker
  <2>2. NextItem' = NextItem
    BY <2>1, SameTexts DEF NextItem
  <2>3. First' = First /\ (Before' <=> Before) /\ Reading' = Reading /\ Got' = Got /\ Extra' = Extra
    BY <2>1, <2>2 DEF First, Before, Missing, Reading, Got, Extra
  <2>4. GapInv'
    BY <1>5, <2>1, <2>2 DEF GapInv, Missing
  <2>5. SeekCount => SeekCount'
    BY <2>1, <2>3 DEF SeekCount, Counted
  <2>6. CaptureCount => CaptureCount'
    BY <2>1, <2>3 DEF CaptureCount, Counted
  <2>7. DoneCount => DoneCount'
    BY <2>1, <2>3 DEF DoneCount
  <2> QED BY <1>5, <2>3, <2>4, <2>5, <2>6, <2>7 DEF CountInv
<1> QED BY <1>2, <1>6, <1>7, <1>8, <1>9, <1>10 DEF Next

LEMMA LengthInvariant == Spec => [](IInv /\ LengthInv)
BY InitIsFine, StepIsFine, LengthInit, LengthStep, PTL DEF Spec

(* The bytes on the link, the places of the board in its text and what the *)
(* two readers keep are always of their types; the payload is never longer *)
(* than a header said and the worker is at most one run ahead of the board.*)
THEOREM TypeCorrect == Spec => []TypeOK
<1>1. IInv => TypeOK
  BY DEF IInv, BaseInv
<1> QED BY <1>1, Invariant, PTL

(* If no byte is lost, what get_heap() replays is the whole trace of one   *)
(* run, wherever in a frame its worker began to read and wherever resets   *)
(* cut a trace off: any number of runs, of bytes, and any depth of link.   *)
THEOREM CaptureCorrect == Spec => []OneWholeCapture
<1>1. ASSUME IInv PROVE OneWholeCapture
  <2> SUFFICES ASSUME heap.mode = "done", lost = 0
               PROVE  \E r \in 1 .. boardRun : heap.total = data[r]
    BY DEF OneWholeCapture
  <2>1. ReaderInv /\ HeapInv
    BY <1>1 DEF IInv, BaseInv, NoLossInv
  <2>2. Reading = heap
    BY <2>1, FedNothing DEF ReaderInv, Reading
  <2>3. DoneInv
    BY <2>1, <2>2 DEF HeapInv
  <2> QED BY <2>2, <2>3 DEF DoneInv
<1> QED BY <1>1, Invariant, PTL

(* If one byte is lost, wherever on the link and at whatever time, a trace *)
(* of any length that get_heap() accepts has the length of the trace that  *)
(* was sent: the packets after the loss keep their places.  The exception  *)
(* is a payload byte 3 that was taken for a header.                        *)
THEOREM LengthCorrect == Spec => []LengthKept
<1>1. ASSUME IInv, LengthInv PROVE LengthKept
  <2> SUFFICES ASSUME heap.mode = "done", workerRun = 1, lost <= 1
               PROVE  Len(heap.total) = Len(data[1]) + (IF fooled THEN 1 ELSE 0)
    BY DEF LengthKept
  <2>1. ReaderInv /\ CountInv
    BY <1>1 DEF IInv, BaseInv, LengthInv
  <2>2. Reading = heap
    BY <2>1, FedNothing DEF ReaderInv, Reading
  <2> QED BY <2>1, <2>2 DEF CountInv, DoneCount, Extra
<1> QED BY <1>1, LengthInvariant, PTL
-------------------------------------------------------------------------------
(* The end of a capture.  Nothing is lost, and no payload byte 3 has been  *)
(* taken for a header.                                                     *)

(* "trace ready!" of the run on the board has not gone by: the next item   *)
(* is of an earlier run, or of the first letter, which is not going to be  *)
(* taken for a part of something else, or of the newline that ends it.     *)
StillAhead ==
  \/ First.run # boardRun
  \/ First.index = 1 /\ (First.isHeader \/ need <= 1)
  \/ First.index = 2 /\ InPhase /\ Ends(Reading.line, R)

(* Nor has "trace done!": its newline is not read before its D is.         *)
EndAhead ==
  \/ First.index < Len(Full(First.run))
  \/ First.index = Len(Full(First.run)) /\ Ends(Reading.line, D)

ShortPayload == ~fooled => need <= 2

EndInv ==
  /\ Reading.mode = "seek" /\ ~fooled /\ boardRun = workerRun => StillAhead
  /\ Reading.mode = "capture" /\ Aligned => EndAhead
  /\ Reading.mode = "done" => payload = <<>>

LEMMA AlignedIndex ==
  ASSUME ReaderInv', Aligned'
  PROVE  First'.index >= 3
<1>1. Reading'.total \in Seq(Letters) /\ Reading'.line \in Seq(Letters)
  BY DEF ReaderInv, Reader
<1>2. Len(Reading'.total \o Reading'.line) \in Nat
  BY <1>1, GotSoFar
<1>3. Got' = Reading'.total \o Reading'.line
  BY DEF Got
<1>4. First'.index = 3 + Len(Got')
  BY DEF Aligned
<1>5. Len(Got') \in Nat
  BY <1>2, <1>3
<1> QED BY <1>4, <1>5

(* A genuine header is never a 3.                                          *)
LEMMA ReceiveShort ==
  ASSUME BaseInv, Receive, ShortPayload, ~fooled'
  PROVE  ~fooled /\ need' <= 2
<1>1. Taken(Head(wire)) /\ Head(wire) \in Items /\ Genuine(Head(wire)) /\ need \in 0 .. 4
  BY ReceiveTakes DEF BaseInv, TypeOK
<1>2. fooled \in BOOLEAN /\ fooled' \in BOOLEAN
  BY ReceiveTakes DEF BaseInv, TypeOK
<1>3. CASE ReceivePayload
  <2>1. fooled' = fooled /\ need > 0
    BY <1>3 DEF ReceivePayload
  <2>2. need' = need - 1
    BY <1>1, <2>1 DEF Taken
  <2> QED BY <1>1, <2>1, <2>2 DEF ShortPayload
<1>4. CASE ReceiveHeader
  <2>1. need = 0 /\ ~fooled /\ ~(Head(wire).byte = 3 /\ ~Head(wire).isHeader)
    BY <1>2, <1>4 DEF ReceiveHeader
  <2>2. Head(wire).isHeader => Head(wire).byte = 1
    BY <1>1, GenuineByte DEF BaseInv, Header
  <2>3. Head(wire).byte # 3
    BY <2>1, <2>2
  <2>4. IsHeader(Head(wire).byte) => SizeOf(Head(wire).byte) <= 2
    BY <2>3 DEF IsHeader, SizeOf
  <2>5. need' = 0 \/ (IsHeader(Head(wire).byte) /\ need' = SizeOf(Head(wire).byte))
    BY <1>1, <2>1 DEF Taken
  <2> QED BY <2>1, <2>4, <2>5
<1> QED BY <1>3, <1>4 DEF Receive

(* What a reader that does not seek any more reads does not make it seek.  *)
LEMMA ReceiveSeeks ==
  ASSUME BaseInv, Receive
  PROVE  /\ Reading'.mode = "seek" => Reading.mode = "seek"
         /\ Reading'.mode = "done" => Reading.mode # "seek"
         /\ Reading.mode = "done" => Reading'.mode = "done"
         /\ Reading.mode = "seek" /\ Reading'.mode = "capture" => Ends(Reading.line, R)
<1> DEFINE h == Reading
           b == Head(wire).byte
<1>1. /\ Taken(Head(wire)) /\ Head(wire) \in Items /\ h \in Reader /\ h = Reading
  BY ReceiveTakes DEF BaseInv, ReaderInv
<1>2. b \in Letters /\ b = Head(wire).byte /\ h.mode \in {"seek", "capture", "done"}
  BY <1>1 DEF Items, Reader
<1>3. Reading' = h \/ Reading' = Byte(h, b)
  BY <1>1, <1>2 DEF Taken
<1> HIDE DEF h, b
<1>4. CASE h.mode = "done"
  BY <1>1, <1>2, <1>3, <1>4, ByteIs
<1>5. CASE h.mode # "done" /\ b # Newline
  <2>1. Byte(h, b) = [h EXCEPT !.line = Append(@, b)]
    BY <1>1, <1>2, <1>5, ByteIs
  <2> QED BY <1>1, <1>3, <1>5, <2>1 DEF Reader
<1>6. CASE h.mode = "seek" /\ b = Newline /\ ~Ends(h.line, R)
  <2>1. Byte(h, b) = [h EXCEPT !.line = <<>>]
    BY <1>1, <1>2, <1>6, ByteIs
  <2> QED BY <1>1, <1>3, <1>6, <2>1 DEF Reader
<1>7. CASE h.mode # "done" /\ b = Newline /\ Ends(h.line, R)
  <2>1. Byte(h, b) = [mode |-> "capture", line |-> <<>>, total |-> <<>>]
    BY <1>1, <1>2, <1>7, ByteIs
  <2> QED BY <1>1, <1>3, <1>7, <2>1
<1>8. CASE h.mode = "capture" /\ b = Newline /\ ~Ends(h.line, R) /\ Ends(h.line, D)
  <2>1. Byte(h, b) = [mode |-> "done", line |-> <<>>,
                      total |-> h.total \o SubSeq(h.line, 1, Len(h.line) - 1)]
    BY <1>1, <1>2, <1>8, ByteIs
  <2>2. Byte(h, b).mode = "done"
    BY <2>1
  <2> QED BY <1>1, <1>3, <1>8, <2>2
<1>9. CASE h.mode = "capture" /\ b = Newline /\ ~Ends(h.line, R) /\ ~Ends(h.line, D)
  <2>1. Byte(h, b) = [mode |-> "capture", line |-> <<>>, total |-> h.total \o Append(h.line, b)]
    BY <1>1, <1>2, <1>9, ByteIs
  <2>2. Byte(h, b).mode = "capture"
    BY <2>1
  <2> QED BY <1>1, <1>3, <1>9, <2>2
<1> QED BY <1>2, <1>4, <1>5, <1>6, <1>7, <1>8, <1>9

LEMMA ReceiveStillAhead ==
  ASSUME BaseInv, WireWhole, Receive, need <= 2,
         Reading.mode = "seek", StillAhead, Reading'.mode = "seek"
  PROVE  StillAhead'
<1> DEFINE x == First
           y == First'
           h == Reading
           b == x.byte
<1>1. /\ x \in Items /\ Genuine(x) /\ Taken(x) /\ Follows(x, y) /\ y = First' /\ x = First
      /\ h \in Reader /\ h.mode = "seek" /\ h = Reading /\ boardRun' = boardRun
  BY ReceiveTakes, ReceiveKeepsWire DEF BaseInv, ReaderInv
<1>2. /\ b \in Letters /\ x.index \in Nat /\ x.index >= 1
      /\ x.isHeader => b = Header
      /\ ~x.isHeader => (b = R <=> x.index = 1) /\ (x.index = 2 => b = Newline)
  BY <1>1, GenuineByte DEF BaseInv
<1>3. \/ x.run # boardRun
      \/ x.index = 1 /\ (x.isHeader \/ need <= 1)
      \/ /\ x.index = 2 /\ need <= 1 /\ payload = <<>> /\ (x.isHeader <=> need = 0)
         /\ Ends(h.line, R)
  BY DEF StillAhead, InPhase
<1>4. /\ y.run # boardRun => StillAhead'
      /\ y.index = 1 /\ (y.isHeader \/ need' <= 1) => StillAhead'
      /\ /\ y.index = 2 /\ need' <= 1 /\ payload' = <<>> /\ (y.isHeader <=> need' = 0)
         /\ Ends(Reading'.line, R)
         => StillAhead'
  BY <1>1 DEF StillAhead, InPhase
<1>5. b = x.byte /\ h.line \in Seq(Letters) /\ need \in 0 .. 2
  BY <1>1 DEF Reader, BaseInv, TypeOK
<1> HIDE DEF x, y, h, b
<1>6. CASE x.run # boardRun
  BY <1>1, <1>4, <1>6 DEF Follows
<1>7. CASE x.index = 1 /\ x.isHeader
  <2>1. need' <= 1
    BY <1>1, <1>2, <1>5, <1>7, Bytes DEF Taken
  <2>2. y.index = 1
    BY <1>1, <1>7 DEF Follows
  <2> QED BY <1>4, <2>1, <2>2
<1>8. CASE x.index = 1 /\ ~x.isHeader /\ need <= 1
  <2>1. b = R /\ Byte(h, b) = [h EXCEPT !.line = Append(@, b)]
    BY <1>1, <1>2, <1>8, ByteIs, Bytes
  <2>2. Reading' = Byte(h, b) /\ need' = 0 /\ payload' = <<>>
    BY <1>1, <1>5, <1>8, <2>1, Bytes DEF Taken
  <2>3. Reading'.line = Append(h.line, b)
    BY <1>1, <2>1, <2>2 DEF Reader
  <2>4. Ends(Reading'.line, R)
    BY <1>2, <1>5, <2>1, <2>3, EndsAppended
  <2>5. y.isHeader /\ y.index \in {1, 2}
    BY <1>1, <1>8 DEF Follows
  <2> QED BY <1>4, <2>2, <2>4, <2>5
<1>9. CASE x.index = 2 /\ x.isHeader /\ need = 0 /\ Ends(h.line, R)
  <2>1. need' = 1 /\ payload' = <<>> /\ Reading' = h
    BY <1>1, <1>2, <1>5, <1>9, Bytes DEF Taken
  <2>2. (~y.isHeader /\ y.index = 2) \/ (y.isHeader /\ y.index = 1)
    BY <1>1, <1>9 DEF Follows
  <2> QED BY <1>4, <1>9, <2>1, <2>2
<1>10. CASE x.index = 2 /\ ~x.isHeader /\ need = 1 /\ Ends(h.line, R)
  <2>1. b = Newline /\ Reading' = Byte(h, b)
    BY <1>1, <1>2, <1>5, <1>10 DEF Taken
  <2>2. Byte(h, b) = [mode |-> "capture", line |-> <<>>, total |-> <<>>]
    BY <1>1, <1>2, <1>10, <2>1, ByteIs
  <2> QED BY <2>1, <2>2
<1> QED BY <1>3, <1>5, <1>6, <1>7, <1>8, <1>9, <1>10

LEMMA ReceiveEndAhead ==
  ASSUME BaseInv, WireWhole, Receive, HeapInv, EndInv,
         Reading'.mode = "capture", Aligned'
  PROVE  EndAhead'
<1> DEFINE x == First
           y == First'
           h == Reading
           b == x.byte
           f == Full(x.run)
<1>1. /\ x \in Items /\ Genuine(x) /\ Taken(x) /\ Follows(x, y) /\ y = First' /\ x = First
      /\ h \in Reader /\ h = Reading
      /\ data' = data /\ BaseInv'
  BY ReceiveTakes, ReceiveKeepsWire DEF BaseInv, ReaderInv
<1>2. /\ b \in Letters /\ x.index \in Nat /\ x.index >= 1
      /\ x.isHeader => b = Header
      /\ ~x.isHeader => b = f[x.index]
  BY <1>1, GenuineByte DEF BaseInv
<1>3. /\ x.index \in 1 .. Len(f) /\ Len(f) \in Nat /\ Len(f) >= 4
      /\ x.index = Len(f) => f[x.index] = Newline
      /\ f[x.index] = D <=> x.index = Len(f) - 1
  <2>1. /\ x.run \in 1 .. MaxRuns /\ data[x.run] \in Seq(DataBytes) /\ f = Whole(data[x.run])
        /\ x.index \in 1 .. Len(f)
    BY <1>1, GenuineMeans, Texts DEF BaseInv, Full
  <2> HIDE DEF f, x
  <2> QED BY <2>1, PlacesOfLetters
<1>4. y.index >= 3
  BY <1>1, AlignedIndex DEF BaseInv
<1>5. y.run = x.run
  BY <1>1, <1>4 DEF Follows
<1>6. Full(First.run)' = f
  BY <1>1, <1>5 DEF Full
<1>7. /\ y.index < Len(f) => EndAhead'
      /\ y.index = Len(f) /\ Ends(Reading'.line, D) => EndAhead'
  BY <1>1, <1>6 DEF EndAhead
<1>8. h.line \in Seq(Letters) /\ b = x.byte /\ need \in 0 .. 4
  BY <1>1 DEF Reader, BaseInv, TypeOK
<1>9. h.mode \in {"seek", "capture", "done"}
  BY <1>1 DEF Reader
<1>10. /\ h.mode = "seek" => SeekInv
       /\ h.mode = "capture" => Aligned \/ Restarting
       /\ SeekInv => (Ends(h.line, R) => x.index \in {1, 2})
       /\ Restarting => x.index \in {1, 2}
       /\ Aligned => need <= 1 /\ (x.isHeader <=> need = 0)
       /\ h.mode = "capture" /\ Aligned =>
            \/ x.index < Len(f)
            \/ x.index = Len(f) /\ Ends(h.line, D)
  BY DEF HeapInv, CaptureInv, SeekInv, Restarting, Aligned, InPhase, EndInv, EndAhead
<1>12. h.mode # "done" /\ (h.mode = "seek" => Ends(h.line, R))
  BY <1>9, ReceiveSeeks
<1> HIDE DEF x, y, h, b, f
<1>11. CASE x.index \in {1, 2}
  <2>1. y.index = 3
    BY <1>1, <1>4, <1>11 DEF Follows
  <2> QED BY <1>3, <1>7, <2>1
<1>14. CASE h.mode = "capture" /\ Aligned /\ need = 0
  <2>1. x.isHeader /\ Reading' = h
    BY <1>1, <1>2, <1>8, <1>10, <1>14, Bytes DEF Taken
  <2>2. y.index = x.index
    BY <1>1, <1>4, <2>1 DEF Follows
  <2> QED BY <1>7, <1>10, <1>14, <2>1, <2>2
<1>15. CASE h.mode = "capture" /\ Aligned /\ need = 1
  <2>1. ~x.isHeader /\ b = f[x.index] /\ Reading' = Byte(h, b)
    BY <1>1, <1>2, <1>8, <1>10, <1>15 DEF Taken
  <2>2. y.index = x.index + 1
    BY <1>1, <1>4, <2>1 DEF Follows
  <2>3. CASE x.index = Len(f)
    <3>1. b = Newline /\ Ends(h.line, D)
      BY <1>3, <1>10, <1>15, <2>1, <2>3
    <3>2. Byte(h, b) = [mode |-> "done", line |-> <<>>,
                        total |-> h.total \o SubSeq(h.line, 1, Len(h.line) - 1)]
      BY <1>1, <1>2, <1>15, <3>1, ByteIs
    <3> QED BY <2>1, <3>2
  <2>4. CASE x.index = Len(f) - 1
    <3>1. b = D
      BY <1>3, <2>1, <2>4
    <3>2. Byte(h, b) = [h EXCEPT !.line = Append(@, b)]
      BY <1>1, <1>2, <1>15, <3>1, ByteIs, Bytes
    <3>3. Reading'.line = Append(h.line, b)
      BY <1>1, <2>1, <3>2 DEF Reader
    <3>4. Ends(Reading'.line, D)
      BY <1>2, <1>8, <3>1, <3>3, EndsAppended
    <3>5. y.index = Len(f)
      BY <1>3, <2>2, <2>4
    <3> QED BY <1>7, <3>4, <3>5
  <2>5. CASE x.index < Len(f) - 1
    BY <1>3, <1>7, <2>2, <2>5
  <2> QED BY <1>3, <2>3, <2>4, <2>5
<1> QED BY <1>8, <1>9, <1>10, <1>11, <1>12, <1>14, <1>15

LEMMA ReceiveEnds ==
  ASSUME BaseInv, Receive, HeapInv, EndInv, Reading'.mode = "done"
  PROVE  payload' = <<>>
<1> DEFINE h == Reading
           b == Head(wire).byte
<1>1. /\ Taken(Head(wire)) /\ Head(wire) \in Items /\ h \in Reader /\ h = Reading
      /\ heap.mode # "done" /\ need \in 0 .. 4
  BY ReceiveTakes DEF BaseInv, ReaderInv, TypeOK, Receive, ReceiveHeader, ReceivePayload
<1>2. b \in Letters /\ b = Head(wire).byte /\ h.mode \in {"seek", "capture", "done"}
  BY <1>1 DEF Items, Reader
<1>3. h.mode # "done"
  <2>1. payload = <<>> => Reading = heap
    BY FedNothing DEF Reading
  <2> QED BY <1>1, <2>1 DEF EndInv
<1>4. h.mode = "capture" => need <= 1
  BY DEF HeapInv, CaptureInv, Aligned, Restarting, InPhase
<1> HIDE DEF h, b
<1>5. CASE h.mode = "capture"
  BY <1>1, <1>4, <1>5 DEF Taken
<1>6. h.mode # "seek"
  BY ReceiveSeeks DEF h
<1> QED BY <1>2, <1>3, <1>5, <1>6

LEMMA ResetKeepsEnd ==
  ASSUME BaseInv, BaseInv', WireWhole, EndInv, Reset
  PROVE  EndInv'
<1>1. /\ UNCHANGED <<data, need, payload, fooled>> /\ Reading' = Reading
      /\ boardRun' = boardRun + 1 /\ boardRun \in Nat
  BY Texts DEF BaseInv, Reset, worker, Reading
<1>2. CASE First' = First /\ First \in Items /\ Genuine(First)
  <2>1. First.run \in 1 .. boardRun
    BY <1>2, GenuineMeans DEF BaseInv
  <2>2. StillAhead'
    BY <1>1, <1>2, <2>1 DEF StillAhead
  <2>3. (InPhase' <=> InPhase) /\ Got' = Got /\ \A r : Full(r)' = Full(r)
    BY <1>1, <1>2 DEF InPhase, Got, Full
  <2>4. Aligned' => Aligned
    BY <1>1, <1>2, <2>3 DEF Aligned, Full
  <2>5. EndAhead => EndAhead'
    BY <1>1, <1>2, <2>3 DEF EndAhead, Full
  <2> QED BY <1>1, <2>2, <2>4, <2>5 DEF EndInv
<1>3. CASE First'.isHeader /\ First'.index = 1
  <2>1. StillAhead'
    BY <1>3 DEF StillAhead
  <2>2. ~Aligned'
    BY <1>3, AlignedIndex DEF BaseInv
  <2> QED BY <1>1, <2>1, <2>2 DEF EndInv
<1> QED BY <1>2, <1>3, ResetKeepsWire

LEMMA BoardKeepsEnd ==
  ASSUME BaseInv, BaseInv', HeapInv, EndInv, Trace \/ Send, First' = First
  PROVE  EndInv'
<1>1. /\ UNCHANGED <<boardRun, workerRun, need, payload, fooled>> /\ Reading' = Reading
  BY DEF Trace, Send, worker, Reading
<1>2. InPhase' <=> InPhase
  BY <1>1 DEF InPhase
<1>3. StillAhead => StillAhead'
  BY <1>1, <1>2 DEF StillAhead
<1>4. First \in Items /\ First.run \in 1 .. MaxRuns /\ First.index \in Nat
  BY FirstIs DEF Items
<1>5. \A r \in 1 .. MaxRuns : /\ Len(Full(r)) <= Len(Full(r)')
                              /\ Len(Full(r)) \in Nat /\ Len(Full(r)') \in Nat
  <2>1. \A r \in 1 .. MaxRuns : data[r] \in Seq(DataBytes) /\ data'[r] \in Seq(DataBytes)
    BY DataTyped DEF BaseInv, TypeOK
  <2>2. \A r \in 1 .. MaxRuns : Len(Whole(data[r])) \in Nat /\ Len(Whole(data'[r])) \in Nat
    BY <2>1, WholeText
  <2>3. \A r : Full(r) = Whole(data[r]) /\ Full(r)' = Whole(data'[r])
    BY DEF Full
  <2>4. CASE Trace
    <3>1. /\ \A r \in 1 .. MaxRuns : r # boardRun => data'[r] = data[r]
          /\ Len(Full(boardRun)) <= Len(Full(boardRun)')
      BY <2>4, TraceKeepsBoard DEF BaseInv
    <3> QED BY <1>1, <2>2, <2>3, <3>1
  <2>5. CASE Send
    <3>1. data' = data
      BY <2>5 DEF Send
    <3> QED BY <2>2, <2>3, <3>1
  <2> QED BY <2>4, <2>5
<1>6. ASSUME Reading.mode = "capture", Aligned' PROVE EndAhead'
  <2>1. First.index >= 3
    BY <1>6, AlignedIndex DEF BaseInv
  <2>2. Aligned
    BY <1>6, <2>1 DEF HeapInv, CaptureInv, Restarting
  <2>3. EndAhead
    BY <1>6, <2>2 DEF EndInv
  <2>4. Full(First.run)' = Full(First.run)' /\ First'.index = First.index /\ First'.run = First.run
    OBVIOUS
  <2> DEFINE n == Len(Full(First.run))
             m == Len(Whole(data'[First.run]))
             i == First.index
  <2>5. n <= m /\ n \in Nat /\ m \in Nat /\ i \in Nat
    BY <1>4, <1>5 DEF Full
  <2>6. i < n \/ (i = n /\ Ends(Reading.line, D))
    BY <2>3 DEF EndAhead
  <2>7. /\ i < m => EndAhead'
        /\ i = m /\ Ends(Reading.line, D) => EndAhead'
    BY <1>1 DEF EndAhead, Full
  <2> HIDE DEF n, m, i
  <2> QED BY <2>5, <2>6, <2>7
<1> QED BY <1>1, <1>3, <1>6 DEF EndInv

LEMMA OthersKeepEnd ==
  ASSUME EndInv, Close \/ NewWorker \/ UNCHANGED vars, BaseInv
  PROVE  EndInv'
<1>1. /\ UNCHANGED <<data, boardRun, at, todo, halfSent, wire, lost, fooled>>
  BY DEF Close, NewWorker, vars, board, worker
<1>2. NextItem' = NextItem
  BY <1>1, SameTexts DEF NextItem
<1>3. First' = First
  BY <1>1, <1>2 DEF First
<1>4. CASE NewWorker
  <2>1. heap' = Seeking /\ payload' = <<>> /\ workerRun' # boardRun
    BY <1>4, Texts DEF NewWorker, BaseInv
  <2>2. Reading' = Seeking
    BY <2>1, FedNothing DEF Reading
  <2>3. Reading'.mode = "seek"
    BY <2>2 DEF Seeking
  <2> QED BY <1>1, <2>1, <2>3 DEF EndInv
<1>5. CASE Close \/ UNCHANGED vars
  <2>1. UNCHANGED <<need, payload, heap, workerRun>>
    BY <1>5 DEF Close, vars, worker
  <2>2. Reading' = Reading
    BY <2>1 DEF Reading
  <2>3. (InPhase <=> InPhase') /\ Got' = Got
    BY <1>3, <2>1, <2>2 DEF InPhase, Got
  <2>4. Aligned' => Aligned
    BY <1>1, <1>3, <2>3 DEF Aligned, Full
  <2>5. EndAhead => EndAhead'
    BY <1>1, <1>3, <2>2 DEF EndAhead, Full
  <2>6. StillAhead => StillAhead'
    BY <1>1, <1>3, <2>1, <2>2, <2>3 DEF StillAhead
  <2> QED BY <1>1, <2>1, <2>2, <2>4, <2>5, <2>6 DEF EndInv
<1> QED BY <1>4, <1>5

NeverMissed == ShortPayload /\ (lost = 0 => EndInv)

LEMMA EndInit == Init => NeverMissed
<1> SUFFICES ASSUME Init PROVE ShortPayload /\ EndInv
  BY DEF NeverMissed
<1>1. /\ wire = <<>> /\ need = 0 /\ halfSent = FALSE /\ payload = <<>> /\ heap = Seeking
      /\ todo = READY
  BY DEF Init
<1>2. Text = READY
  <2>1. data[boardRun] = <<>> /\ at = "bench"
    BY SwoLinkAssumption DEF Init
  <2>2. READY \in Seq(Letters) /\ READY \o <<>> = READY
    BY DEF READY, Letters, DataBytes, Newline
  <2> QED BY <2>1, <2>2 DEF Text
<1>3. First.isHeader /\ First.index = 1
  <2>1. Len(READY) = 2
    BY DEF READY
  <2>2. NextItem.isHeader = ~halfSent /\ NextItem.index = Len(Text) - Len(todo) + 1
    BY DEF NextItem
  <2>3. Len(Text) - Len(todo) + 1 = 1
    BY <1>1, <1>2, <2>1
  <2>4. NextItem.isHeader /\ NextItem.index = 1
    BY <1>1, <2>2, <2>3
  <2> QED BY <1>1, <2>4 DEF First
<1>4. Reading = Seeking /\ Seeking.mode = "seek"
  BY <1>1, FedNothing DEF Reading, Seeking
<1> QED BY <1>1, <1>3, <1>4 DEF ShortPayload, EndInv, StillAhead

LEMMA EndStep == IInv /\ IInv' /\ NeverMissed /\ [Next]_vars => NeverMissed'
<1> SUFFICES ASSUME IInv, IInv', NeverMissed, [Next]_vars PROVE NeverMissed'
  OBVIOUS
<1>1. BaseInv /\ NoLossInv /\ BaseInv' /\ ShortPayload /\ lost \in Nat
  <2>1. BaseInv /\ NoLossInv /\ BaseInv' /\ ShortPayload
    BY DEF IInv, NeverMissed
  <2>2. lost \in Nat
    BY <2>1, SwoLinkAssumption DEF BaseInv, TypeOK
  <2> QED BY <2>1, <2>2
<1>2. CASE Receive
  <2>1. lost' = lost /\ boardRun' = boardRun /\ workerRun' = workerRun
    BY <1>1, <1>2, ReceiveTakes
  <2>2. ShortPayload'
    BY <1>1, <1>2, ReceiveShort DEF ShortPayload
  <2>3. ASSUME lost = 0 PROVE EndInv'
    <3>1. WireWhole /\ HeapInv /\ EndInv
      BY <1>1, <2>3 DEF NoLossInv, NeverMissed
    <3>2. ASSUME Reading'.mode = "seek", ~fooled', boardRun = workerRun PROVE StillAhead'
      <4>1. ~fooled /\ need <= 2
        BY <1>1, <1>2, <3>2, ReceiveShort DEF ShortPayload
      <4>2. Reading.mode = "seek"
        BY <1>1, <1>2, <3>2, ReceiveSeeks
      <4>3. StillAhead
        BY <3>1, <3>2, <4>1, <4>2 DEF EndInv
      <4> QED BY <1>1, <1>2, <3>1, <3>2, <4>1, <4>2, <4>3, ReceiveStillAhead
    <3> QED BY <1>1, <1>2, <2>1, <3>1, <3>2, ReceiveEndAhead, ReceiveEnds DEF EndInv
  <2> QED BY <2>1, <2>2, <2>3 DEF NeverMissed
<1>3. CASE Trace \/ Send
  <2>1. need' = need /\ fooled' = fooled /\ (lost' = lost \/ lost' = lost + 1)
    BY <1>3 DEF Trace, Send, worker
  <2>2. ASSUME lost' = 0 PROVE EndInv'
    <3>1. lost' = lost /\ lost = 0
      BY <1>1, <2>1, <2>2
    <3>2. WireWhole /\ HeapInv /\ EndInv
      BY <1>1, <3>1 DEF NoLossInv, NeverMissed
    <3>3. First' = First
      BY <1>1, <1>3, <3>1, <3>2, TraceKeepsWire, SendKeepsWire
    <3> QED BY <1>1, <1>3, <3>2, <3>3, BoardKeepsEnd
  <2> QED BY <1>1, <2>1, <2>2 DEF NeverMissed, ShortPayload
<1>4. CASE Reset
  <2>1. UNCHANGED <<lost, need, fooled>>
    BY <1>4 DEF Reset, worker
  <2> QED BY <1>1, <1>4, <2>1, ResetKeepsEnd DEF NeverMissed, ShortPayload, NoLossInv
<1>5. CASE Close \/ NewWorker \/ UNCHANGED vars
  <2>1. UNCHANGED <<lost, fooled>> /\ (need' = need \/ need' = 0)
    BY <1>5 DEF Close, NewWorker, vars, worker
  <2> QED BY <1>1, <1>5, <2>1, OthersKeepEnd DEF NeverMissed, ShortPayload
<1> QED BY <1>2, <1>3, <1>4, <1>5 DEF Next

(* The board, the link and the worker rest: none of the actions that Spec  *)
(* is fair to can be taken.                                                *)
Resting ==
  /\ at = "ended" \/ todo # <<>>
  /\ todo = <<>> \/ Len(wire) >= MaxWire \/ closed
  /\ wire = <<>> \/ heap.mode = "done"

NeverStuck ==
  Resting /\ boardRun = workerRun /\ MaxWire # 0 =>
    heap.mode = "done" \/ lost > 0 \/ closed \/ fooled

(* get_heap() is never left waiting for a board that has sent everything,  *)
(* for any number of runs, any traces and any depth of the link, wherever  *)
(* its worker began to read and whatever was cut off by resets: this is    *)
(* what CaptureEnds says of the states in which nothing moves any more.    *)
THEOREM NotStuck == Spec => []NeverStuck
<1>1. ASSUME IInv, NeverMissed PROVE NeverStuck
  <2> SUFFICES ASSUME Resting, boardRun = workerRun, MaxWire # 0,
                      heap.mode # "done", ~(lost > 0), ~closed, ~fooled
               PROVE  FALSE
    BY DEF NeverStuck
  <2>1. /\ BaseInv /\ lost = 0
    BY <1>1, SwoLinkAssumption DEF IInv, BaseInv, TypeOK
  <2>2. HeapInv /\ EndInv
    BY <1>1, <2>1 DEF IInv, NoLossInv, NeverMissed
  <2>3. wire = <<>> /\ todo = <<>> /\ at = "ended"
    <3>1. wire = <<>> /\ Len(wire) = 0
      BY DEF Resting
    <3>2. MaxWire \in Nat /\ ~(Len(wire) >= MaxWire)
      BY <3>1, SwoLinkAssumption
    <3> QED BY <3>1, <3>2 DEF Resting
  <2>4. /\ First.run = boardRun /\ First.index = Len(Text) + 1
        /\ Len(Text) = Len(Full(boardRun)) /\ Len(Text) \in Nat /\ Len(Text) >= 4
    <3>1. First = NextItem /\ Len(todo) = 0
      BY <2>3 DEF First
    <3>2. NextItem.run = boardRun /\ NextItem.index = Len(Text) - Len(todo) + 1
      BY DEF NextItem
    <3>3. /\ data[boardRun] \in Seq(DataBytes) /\ Len(data[boardRun]) \in Nat
          /\ Len(Text) = Len(data[boardRun]) + 4
      BY <2>1, <2>3, Texts DEF BaseInv
    <3>4. Len(Full(boardRun)) = Len(data[boardRun]) + 4
      BY <3>3, WholeText DEF Full
    <3> QED BY <3>1, <3>2, <3>3, <3>4
  <2>5. Reading.mode # "seek"
    BY <2>2, <2>4 DEF EndInv, StillAhead
  <2>6. Reading.mode # "capture"
    <3> SUFFICES ASSUME Reading.mode = "capture" PROVE FALSE
      OBVIOUS
    <3>1. Aligned
      BY <2>2, <2>4 DEF HeapInv, CaptureInv, Restarting
    <3> QED BY <2>2, <2>4, <3>1 DEF EndInv, EndAhead
  <2>7. Reading.mode # "done"
    <3>1. payload = <<>> => Reading = heap
      BY FedNothing DEF Reading
    <3> QED BY <2>2, <3>1 DEF EndInv
  <2> QED BY <2>1, <2>5, <2>6, <2>7 DEF BaseInv, ReaderInv, Reader
<1> QED BY <1>1, InitIsFine, StepIsFine, EndInit, EndStep, PTL DEF Spec

(* What is still to be done: bytes of heap trace and the end of the trace, *)
(* the halves of frames of the text that is being sent, the items on the   *)
(* wire, and the runs, workers and the socket that are left.               *)
HalvesLeft == 2 * Len(todo) - (IF halfSent THEN 1 ELSE 0)

RunLeft == 5 * (MaxData - Len(data[boardRun])) + (IF at = "bench" THEN 9 ELSE 0)

RunWeight == 5 * MaxData + 18

Left == RunLeft + 2 * HalvesLeft + Len(wire) + RunWeight * (MaxRuns - boardRun)
          + (MaxRuns - workerRun) + (IF closed THEN 0 ELSE 1)

Shrinks == [][Left' < Left]_vars

LEMMA WeightOfRun ==
  ASSUME NEW w \in Nat, NEW n \in Nat, n >= 1
  PROVE  w * n \in Nat /\ w * (n - 1) \in Nat /\ w * (n - 1) = w * n - w
OBVIOUS

LEMMA HalvesOf ==
  ASSUME NEW n \in Nat, NEW half \in BOOLEAN, half => n >= 1
  PROVE  /\ 2 * n - (IF half THEN 1 ELSE 0) \in Nat
         /\ 2 * (IF half THEN n - 1 ELSE n) - (IF ~half THEN 1 ELSE 0)
              = (2 * n - (IF half THEN 1 ELSE 0)) - 1
<1>1. CASE half
  <2>1. /\ 2 * (IF half THEN n - 1 ELSE n) - (IF ~half THEN 1 ELSE 0) = 2 * (n - 1)
        /\ 2 * n - (IF half THEN 1 ELSE 0) = 2 * n - 1
    BY <1>1
  <2>2. 2 * (n - 1) = (2 * n - 1) - 1 /\ 2 * n - 1 \in Nat
    BY <1>1
  <2> QED BY <2>1, <2>2
<1>2. CASE ~half
  <2>1. /\ 2 * (IF half THEN n - 1 ELSE n) - (IF ~half THEN 1 ELSE 0) = 2 * n - 1
        /\ 2 * n - (IF half THEN 1 ELSE 0) = 2 * n
    BY <1>2
  <2> QED BY <2>1
<1> QED BY <1>1, <1>2

LEMMA RunOf ==
  ASSUME NEW m \in Nat, NEW n \in 0 .. m, NEW bench \in BOOLEAN
  PROVE  /\ 5 * (m - n) + (IF bench THEN 9 ELSE 0) \in Nat
         /\ 5 * (m - n) + (IF bench THEN 9 ELSE 0) <= 5 * m + 9
<1>1. 5 * (m - n) \in Nat /\ 5 * (m - n) <= 5 * m
  OBVIOUS
<1> QED BY <1>1

LEMMA LeftIs ==
  ASSUME BaseInv
  PROVE  /\ Len(todo) \in Nat /\ Len(wire) \in Nat /\ halfSent \in BOOLEAN
         /\ halfSent => Len(todo) >= 1
         /\ Len(data[boardRun]) \in 0 .. MaxData /\ MaxData \in Nat
         /\ boardRun \in 1 .. MaxRuns /\ workerRun \in boardRun .. MaxRuns /\ MaxRuns \in Nat
         /\ at \in {"bench", "ended"} /\ closed \in BOOLEAN
         /\ HalvesLeft \in Nat /\ RunLeft \in Nat /\ RunWeight * (MaxRuns - boardRun) \in Nat
         /\ Left \in Nat
<1>1. /\ boardRun \in 1 .. MaxRuns /\ MaxRuns \in Nat /\ MaxData \in Nat
      /\ Len(data[boardRun]) \in 0 .. MaxData
  BY Texts DEF BaseInv
<1>2. Len(todo) \in Nat /\ Len(wire) \in Nat /\ (todo # <<>> => Len(todo) >= 1)
  BY WireTyped DEF BaseInv
<1>3. /\ halfSent \in BOOLEAN /\ closed \in BOOLEAN /\ at \in {"bench", "ended"}
      /\ workerRun \in boardRun .. boardRun + 1 /\ workerRun <= MaxRuns
      /\ halfSent => todo # <<>>
  BY DEF BaseInv, TypeOK, BoardInv
<1>4. HalvesLeft \in Nat /\ RunLeft \in Nat
  BY <1>1, <1>2, <1>3, HalvesOf, RunOf DEF HalvesLeft, RunLeft
<1>5. RunWeight * (MaxRuns - boardRun) \in Nat
  <2>1. RunWeight \in Nat /\ MaxRuns - boardRun \in Nat
    BY <1>1 DEF RunWeight
  <2> HIDE DEF RunWeight
  <2> QED BY <2>1
<1>6. Left \in Nat
  BY <1>1, <1>2, <1>3, <1>4, <1>5 DEF Left
<1> QED BY <1>1, <1>2, <1>3, <1>4, <1>5, <1>6

(* Whatever is interleaved, nothing on the link goes on for ever: every    *)
(* step of board, socket, worker and campaign leaves less to be done, for  *)
(* any number of runs and traces of any length.  What is done may only be  *)
(* nothing, which NotStuck is about.                                       *)
THEOREM LinkRunsDown == Spec => Shrinks
<1>1. ASSUME BaseInv, Next PROVE Left' < Left
  <2>1. /\ Len(todo) \in Nat /\ Len(wire) \in Nat /\ halfSent \in BOOLEAN
        /\ halfSent => Len(todo) >= 1
        /\ Len(data[boardRun]) \in 0 .. MaxData /\ MaxData \in Nat
        /\ boardRun \in 1 .. MaxRuns /\ workerRun \in boardRun .. MaxRuns /\ MaxRuns \in Nat
        /\ at \in {"bench", "ended"} /\ closed \in BOOLEAN
        /\ HalvesLeft \in Nat /\ RunLeft \in Nat /\ RunWeight * (MaxRuns - boardRun) \in Nat
    BY <1>1, LeftIs
  <2>2. CASE Trace
    <3>1. /\ UNCHANGED <<boardRun, halfSent, wire, closed, workerRun>>
          /\ at = "bench" /\ todo = <<>> /\ Len(todo) = 0
      BY <2>2 DEF Trace, worker
    <3>2. CASE at' = "ended" /\ todo' = DONE /\ data' = data
      <4>1. Len(todo') = 2 /\ HalvesLeft' = 4 + HalvesLeft /\ RunLeft' = RunLeft - 9
        BY <2>1, <3>1, <3>2 DEF DONE, HalvesLeft, RunLeft
      <4> QED BY <2>1, <3>1, <4>1 DEF Left, RunWeight
    <3>3. CASE \E byte \in DataBytes : /\ data' = [data EXCEPT ![boardRun] = Append(@, byte)]
                                       /\ todo' = <<byte>> /\ at' = at
      <4>1. PICK byte \in DataBytes : /\ data' = [data EXCEPT ![boardRun] = Append(@, byte)]
                                      /\ todo' = <<byte>> /\ at' = at
        BY <3>3
      <4>2. Len(todo') = 1 /\ Len(data'[boardRun]) = Len(data[boardRun]) + 1
        <5>1. boardRun \in DOMAIN data /\ data[boardRun] \in Seq(DataBytes)
          BY <1>1, Texts DEF BaseInv, TypeOK
        <5> QED BY <4>1, <5>1
      <4>3. HalvesLeft' = 2 + HalvesLeft /\ RunLeft' = RunLeft - 5
        BY <2>1, <3>1, <4>1, <4>2 DEF HalvesLeft, RunLeft
      <4> QED BY <2>1, <3>1, <4>3 DEF Left, RunWeight
    <3> QED BY <2>2, <3>2, <3>3 DEF Trace
  <2>3. CASE Send
    <3>1. /\ UNCHANGED <<data, boardRun, at, closed, workerRun>>
          /\ todo # <<>> /\ halfSent' = ~halfSent
          /\ todo' = IF halfSent THEN Tail(todo) ELSE todo
          /\ wire' = Append(wire, NextItem) \/ wire' = wire
      BY <2>3 DEF Send, worker
    <3>2. Len(wire') <= Len(wire) + 1 /\ Len(wire') \in Nat
      <4>1. wire \in Seq(Items) /\ NextItem \in Items
        BY <1>1, WireTyped, NextItemIs DEF BaseInv
      <4> QED BY <3>1, <4>1
    <3>3. Len(todo') = IF halfSent THEN Len(todo) - 1 ELSE Len(todo)
      <4>1. todo \in Seq(Letters)
        BY <1>1, WireTyped DEF BaseInv
      <4> QED BY <3>1, <4>1
    <3>4. HalvesLeft' = HalvesLeft - 1
      <4>1. /\ HalvesLeft = 2 * Len(todo) - (IF halfSent THEN 1 ELSE 0)
            /\ HalvesLeft' = 2 * (IF halfSent THEN Len(todo) - 1 ELSE Len(todo))
                               - (IF ~halfSent THEN 1 ELSE 0)
        BY <3>1, <3>3 DEF HalvesLeft
      <4> QED BY <2>1, <4>1, HalvesOf
    <3>5. RunLeft' = RunLeft /\ RunWeight' = RunWeight
      BY <3>1 DEF RunLeft, RunWeight
    <3> QED BY <2>1, <3>1, <3>2, <3>4, <3>5 DEF Left, RunWeight
  <2>4. CASE Reset
    <3>1. /\ UNCHANGED <<data, wire, closed, workerRun>> /\ boardRun < workerRun
          /\ boardRun' = boardRun + 1 /\ at' = "bench" /\ todo' = READY /\ halfSent' = FALSE
      BY <2>4 DEF Reset, worker
    <3>2. HalvesLeft' = 4
      BY <3>1 DEF HalvesLeft, READY
    <3>3. Len(data'[boardRun']) \in 0 .. MaxData
      BY <1>1, <2>1, <3>1, Texts DEF BaseInv
    <3>4. RunLeft' \in Nat /\ RunLeft' <= 5 * MaxData + 9
      BY <2>1, <3>1, <3>3, RunOf DEF RunLeft
    <3>5. RunWeight * (MaxRuns - boardRun') = RunWeight * (MaxRuns - boardRun) - RunWeight
      <4>1. RunWeight \in Nat /\ MaxRuns - boardRun \in Nat /\ MaxRuns - boardRun >= 1
            /\ MaxRuns - boardRun' = (MaxRuns - boardRun) - 1
        BY <2>1, <3>1 DEF RunWeight
      <4> HIDE DEF RunWeight
      <4> QED BY <4>1, WeightOfRun
    <3>6. RunWeight = 5 * MaxData + 18 /\ RunWeight' = RunWeight
      BY DEF RunWeight
    <3> DEFINE old == RunWeight * (MaxRuns - boardRun)
               new == RunWeight * (MaxRuns - boardRun')
               rest == Len(wire) + (MaxRuns - workerRun) + (IF closed THEN 0 ELSE 1)
    <3>7. old \in Nat /\ rest \in Nat /\ new = old - (5 * MaxData + 18) /\ new \in Int
      BY <2>1, <3>5, <3>6
    <3>8. /\ Left = RunLeft + 2 * HalvesLeft + Len(wire) + old
                      + (MaxRuns - workerRun) + (IF closed THEN 0 ELSE 1)
          /\ Left' = RunLeft' + 2 * HalvesLeft' + Len(wire) + new
                      + (MaxRuns - workerRun) + (IF closed THEN 0 ELSE 1)
      BY <3>1, <3>6 DEF Left, RunWeight
    <3>9. /\ old \in Nat /\ rest \in Nat /\ new = old - (5 * MaxData + 18) /\ new \in Int
          /\ RunLeft \in Nat /\ HalvesLeft \in Nat /\ MaxData \in Nat /\ RunLeft' \in Nat
          /\ RunLeft' <= 5 * MaxData + 9
          /\ Left = RunLeft + 2 * HalvesLeft + old + rest
          /\ Left' = RunLeft' + 2 * 4 + new + rest
      <4> HIDE DEF old, new
      <4> DEFINE w == Len(wire)
                 k == MaxRuns - workerRun
                 c == IF closed THEN 0 ELSE 1
      <4>1. w \in Nat /\ k \in Nat /\ c \in Nat /\ rest = w + k + c
        BY <2>1
      <4>2. /\ Left = RunLeft + 2 * HalvesLeft + w + old + k + c
            /\ Left' = RunLeft' + 2 * 4 + w + new + k + c
        BY <3>2, <3>8
      <4> HIDE DEF w, k, c, rest
      <4>3. \A l, h, o \in Int : l + h + w + o + k + c = l + h + o + (w + k + c)
        BY <4>1
      <4>4. 2 * HalvesLeft \in Int
        BY <2>1
      <4>5. Left = RunLeft + 2 * HalvesLeft + old + rest
        BY <2>1, <3>7, <4>1, <4>2, <4>3, <4>4
      <4>6. Left' = RunLeft' + 2 * 4 + new + rest
        BY <3>4, <3>7, <4>1, <4>2, <4>3
      <4> QED BY <2>1, <3>4, <3>7, <4>5, <4>6
    <3> HIDE DEF old, new, rest
    <3>10. \A l, h, o, r, m, n \in Nat :
             n <= 5 * m + 9 => n + 2 * 4 + (o - (5 * m + 18)) + r < l + 2 * h + o + r
      OBVIOUS
    <3> QED BY <3>9, <3>10
  <2>5. CASE Receive
    <3>1. /\ UNCHANGED <<data, boardRun, at, todo, halfSent, closed, workerRun>>
          /\ wire # <<>> /\ wire' = Tail(wire)
      BY <2>5 DEF Receive, ReceiveHeader, ReceivePayload, board
    <3>2. Len(wire') = Len(wire) - 1
      <4>1. wire \in Seq(Items)
        BY <1>1, WireTyped DEF BaseInv
      <4> QED BY <3>1, <4>1
    <3>3. UNCHANGED <<HalvesLeft, RunLeft>>
      BY <3>1 DEF HalvesLeft, RunLeft
    <3> QED BY <2>1, <3>1, <3>2, <3>3 DEF Left, RunWeight
  <2>6. CASE Close
    <3>1. UNCHANGED <<HalvesLeft, RunLeft, wire, boardRun, workerRun>> /\ ~closed /\ closed'
      BY <2>6 DEF Close, board, worker, HalvesLeft, RunLeft
    <3> QED BY <2>1, <3>1 DEF Left, RunWeight
  <2>7. CASE NewWorker
    <3>1. UNCHANGED <<HalvesLeft, RunLeft, wire, boardRun, closed>> /\ workerRun' = workerRun + 1
      BY <2>7 DEF NewWorker, board, HalvesLeft, RunLeft
    <3> QED BY <2>1, <3>1 DEF Left, RunWeight
  <2> QED BY <1>1, <2>2, <2>3, <2>4, <2>5, <2>6, <2>7 DEF Next
<1>2. IInv /\ [Next]_vars => [Left' < Left]_vars
  BY <1>1 DEF IInv
<1> QED BY <1>2, Invariant, PTL DEF Spec, Shrinks
===============================================================================
