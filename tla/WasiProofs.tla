------------------------------- MODULE WasiProofs -------------------------------
(***************************************************************************)
(* Theorems about module WasiCalls, for every number of buffers and every  *)
(* length of a buffer: the state has its type, the converted table is      *)
(* freed, an error has neither output nor a count, and output without NUL  *)
(* characters arrives completely and in order.                             *)
(*                                                                         *)
(* FlattenSeq() is recursive.  What it does is proved from the fact that a *)
(* non-empty set of natural numbers has a least element: the first place   *)
(* where a claim about the recursion fails is a contradiction.             *)
(***************************************************************************)
EXTENDS WasiCalls, SequenceTheorems, WellFoundedInduction, TLAPS

(* What can appear on the wire.                                            *)
Wire == {"chr", "nl", "cr", "line"}

(* f is the table of partial results of flattening the first n of s.       *)
Partial(f, s, n) ==
  f = [k \in 1 .. n |-> IF k = 1 THEN s[k] ELSE f[k - 1] \o s[k]]

(* What the first n buffers are on the wire, and what they contain.        *)
SentOf(n)  == FlattenSeq([k \in 1 .. n |-> Sent(Bufs[k])])
GivenOf(n) == FlattenSeq([k \in 1 .. n |-> Bufs[k]])

(* The stages of a call.  Nothing is sent, counted or reported before all  *)
(* buffers have been checked.                                              *)
StageInv ==
  /\ fn = "fd_write" => pc # "enter"
  /\ fn # "fd_write" => pc \in {"enter", "returned"} /\ nwritten = -1
  /\ fn = "fd_write" => told = Undefined /\ ~exception
  /\ pc \in {"enter", "check", "convert", "write"} => err = 0 /\ nwritten = -1
  /\ pc \in {"enter", "check", "convert"} =>
       wire = <<>> /\ written = 0 /\ len = 0 /\ told = Undefined /\ ~exception
  /\ pc = "write" => call.fd \in {1, 2}
  /\ fn = "fd_write" /\ pc \in {"fail", "returned"} =>
       (err = 0 <=> nwritten # -1) /\ (err # 0 => wire = <<>>)
  /\ fn # "fd_write" /\ pc = "returned" =>
       /\ wire \in {<<>>, <<"line">>}
       /\ ~exception => (err = 0 <=> told # Undefined)
  /\ TableFreed

(* Without NUL characters, the wire holds the buffers before the current   *)
(* one, and the current one from the moment it is counted in `written'.    *)
OutputInv ==
  ~HasNul =>
    /\ pc = "write" =>
         /\ len = Len(GivenOf(i))
         /\ written = 0 => wire = SentOf(i)
         /\ written # 0 =>
              i < Len(call.bufs) /\ written = Len(Buf) /\ wire = SentOf(i) \o Sent(Buf)
    /\ fn = "fd_write" /\ pc \in {"fail", "returned"} /\ nwritten # -1 =>
         /\ wire = SentOf(Len(call.bufs))
         /\ nwritten = Len(GivenOf(Len(call.bufs)))

IInv == CallsTypeOK /\ StageInv /\ OutputInv
-------------------------------------------------------------------------------
(* Numbers.                                                                *)

LEMMA LeastNumber ==
  ASSUME NEW T \in SUBSET Nat, T # {}
  PROVE  \E m \in T : \A n \in T : m <= n
<1> DEFINE R == OpToRel(<, Nat)
<1>1. IsWellFoundedOn(R, Nat)
  BY NatLessThanWellFounded
<1> HIDE DEF R
<1>2. PICK m \in T : \A n \in T : ~(<<n, m>> \in R)
  BY <1>1, WFMin
<1>3. ASSUME NEW n \in T, n < m PROVE FALSE
  <2>1. <<n, m>> \in R
    BY <1>3 DEF R, OpToRel
  <2> QED BY <2>1, <1>2
<1> QED BY <1>2, <1>3

LEMMA MinIsLeast ==
  ASSUME NEW T \in SUBSET Nat, T # {}
  PROVE  Min(T) \in T /\ \A n \in T : Min(T) <= n
BY LeastNumber DEF Min

LEMMA NoMultiple ==
  ASSUME NEW n \in Nat, NEW q \in Int, NEW r \in Int, 0 <= r, r < n, n * q + r = 0 - 1
  PROVE  r = n - 1
<1>1. q < 0
  OBVIOUS
<1>2. q >= 0 - 1
  OBVIOUS
<1> QED BY <1>1, <1>2

LEMMA ModMinusOne ==
  ASSUME NEW n \in Nat \ {0}, NEW x \in Int, x = 0 - 1
  PROVE  x % n = n - 1
<1> DEFINE r == x % n
           q == x \div n
<1>1. r \in Int /\ q \in Int /\ 0 <= r /\ r < n /\ n * q + r = 0 - 1
  OBVIOUS
<1> HIDE DEF q, r
<1> QED BY <1>1, NoMultiple DEF r

(* The only error of lseek(), as a uint16_t.                               *)
LEMMA ErrorOfSeek ==
  ASSUME NEW offset \in Offsets, offset < 0
  PROVE  offset % 2^16 = MinusOne
<1>1. offset \in Int /\ offset = 0 - 1
  BY DEF Offsets
<1> DEFINE n == 2^16
<1>2. n \in Nat \ {0}
  OBVIOUS
<1> HIDE DEF n
<1>3. offset % n = n - 1
  BY <1>1, <1>2, ModMinusOne
<1> QED BY <1>3 DEF n, MinusOne

LEMMA Words == MinusOne \in Nat /\ MinusOne # 0 /\ EINVAL # 0
<1>1. 2^16 = 65536
  OBVIOUS
<1> QED BY <1>1 DEF MinusOne, EINVAL
-------------------------------------------------------------------------------
(* FlattenSeq().                                                           *)

LEMMA PartialExists ==
  ASSUME NEW s, NEW n \in Nat
  PROVE  \E f : Partial(f, s, n)
<1> DEFINE T == {m \in Nat : ~ \E f : Partial(f, s, m)}
<1>1. SUFFICES ASSUME T # {} PROVE FALSE
  OBVIOUS
<1>2. PICK m \in T : \A k \in T : m <= k
  BY <1>1, LeastNumber
<1>3. m # 0
  <2>1. Partial(<<>>, s, 0)
    BY DEF Partial
  <2> QED BY <2>1, <1>2
<1>4. m \in Nat /\ m - 1 \in Nat /\ m - 1 \notin T
  BY <1>2, <1>3
<1>5. PICK f : Partial(f, s, m - 1)
  BY <1>4
<1> DEFINE g       == [k \in 1 .. m |-> IF k < m THEN f[k] ELSE IF k = 1 THEN s[k] ELSE f[k - 1] \o s[k]]
           e(h, k) == IF k = 1 THEN s[k] ELSE h[k - 1] \o s[k]
<1>6. ASSUME NEW k \in 1 .. m PROVE g[k] = e(g, k)
  <2>1. CASE k < m
    <3>1. k \in 1 .. (m - 1)
      BY <1>4, <2>1
    <3>2. g[k] = f[k]
      BY <2>1
    <3>3. f[k] = e(f, k)
      BY <3>1, <1>5 DEF Partial
    <3>4. k # 1 => g[k - 1] = f[k - 1]
      BY <2>1, <1>4
    <3> QED BY <3>2, <3>3, <3>4
  <2>2. CASE k = m
    <3>1. k # 1 => k - 1 \in 1 .. m /\ g[k - 1] = f[k - 1]
      BY <2>2, <1>4
    <3>2. g[k] = e(f, k)
      BY <2>2, <1>4
    <3> QED BY <3>1, <3>2
  <2> QED BY <2>1, <2>2, <1>4
<1>7. Partial(g, s, m)
  <2>1. g = [k \in 1 .. m |-> g[k]]
    OBVIOUS
  <2> HIDE DEF g
  <2>2. g = [k \in 1 .. m |-> e(g, k)]
    <3> HIDE DEF e
    <3> QED BY <2>1, <1>6
  <2> QED BY <2>2 DEF Partial
<1> QED BY <1>7, <1>2

LEMMA PartialValue ==
  ASSUME NEW f, NEW s, NEW n, Partial(f, s, n), NEW k \in 1 .. n
  PROVE  f[k] = IF k = 1 THEN s[k] ELSE f[k - 1] \o s[k]
<1> DEFINE e(l) == IF l = 1 THEN s[l] ELSE f[l - 1] \o s[l]
<1>1. f = [l \in 1 .. n |-> e(l)]
  BY DEF Partial
<1> HIDE DEF e
<1>2. f[k] = e(k)
  BY <1>1
<1> QED BY <1>2 DEF e

LEMMA PartialUnique ==
  ASSUME NEW f, NEW g, NEW s, NEW t, NEW m \in Nat, NEW n \in Nat, m <= n,
         Partial(f, s, m), Partial(g, t, n), \A k \in 1 .. m : s[k] = t[k]
  PROVE  \A k \in 1 .. m : f[k] = g[k]
<1> DEFINE T == {k \in 1 .. m : f[k] # g[k]}
<1>1. SUFFICES ASSUME T # {} PROVE FALSE
  OBVIOUS
<1>2. PICK k \in T : \A l \in T : k <= l
  <2>1. T \in SUBSET Nat
    OBVIOUS
  <2> QED BY <2>1, <1>1, LeastNumber
<1>3. /\ f[k] = IF k = 1 THEN s[k] ELSE f[k - 1] \o s[k]
      /\ g[k] = IF k = 1 THEN t[k] ELSE g[k - 1] \o t[k]
  <2>1. k \in 1 .. m /\ k \in 1 .. n
    OBVIOUS
  <2> QED BY <2>1, PartialValue
<1>4. k # 1 => f[k - 1] = g[k - 1]
  <2>1. k \in Nat /\ ~(k <= k - 1) /\ (k # 1 => k - 1 \in 1 .. m)
    OBVIOUS
  <2>2. k - 1 \notin T
    BY <1>2, <2>1
  <2> QED BY <2>1, <2>2
<1> QED BY <1>3, <1>4

LEMMA FlattenIsPartial ==
  ASSUME NEW s, Len(s) \in Nat \ {0}
  PROVE  \E f : Partial(f, s, Len(s)) /\ FlattenSeq(s) = f[Len(s)]
<1> DEFINE n    == Len(s)
           flat == CHOOSE f : Partial(f, s, n)
<1>1. Partial(flat, s, n)
  BY PartialExists
<1>2. FlattenSeq(s) = flat[n]
  BY DEF FlattenSeq, Partial
<1> QED BY <1>1, <1>2

LEMMA FlattenNone == FlattenSeq(<<>>) = <<>>
BY DEF FlattenSeq

LEMMA FlattenTyped ==
  ASSUME NEW S, NEW s \in Seq(Seq(S))
  PROVE  FlattenSeq(s) \in Seq(S)
<1> DEFINE n == Len(s)
<1>1. CASE n = 0
  <2>1. s = <<>>
    BY <1>1, EmptySeq
  <2>2. <<>> \in Seq(S)
    OBVIOUS
  <2> QED BY <2>1, <2>2, FlattenNone
<1>2. CASE n # 0
  <2>1. n \in Nat \ {0}
    BY <1>2
  <2>2. PICK f : Partial(f, s, n) /\ FlattenSeq(s) = f[n]
    BY <2>1, FlattenIsPartial
  <2> DEFINE T == {k \in 1 .. n : f[k] \notin Seq(S)}
  <2>3. SUFFICES ASSUME T # {} PROVE FALSE
    <3>1. T = {} => f[n] \in Seq(S)
      BY <2>1
    <3> QED BY <3>1, <2>2
  <2>4. PICK k \in T : \A l \in T : k <= l
    <3>1. T \in SUBSET Nat
      OBVIOUS
    <3> QED BY <3>1, <2>3, LeastNumber
  <2>5. f[k] = IF k = 1 THEN s[k] ELSE f[k - 1] \o s[k]
    BY <2>2, PartialValue
  <2>6. s[k] \in Seq(S) /\ k \in 1 .. n /\ n \in Nat
    BY <2>1
  <2>7. k # 1 => f[k - 1] \in Seq(S)
    BY <2>4, <2>6
  <2> QED BY <2>5, <2>6, <2>7, ConcatProperties
<1> QED BY <1>1, <1>2

LEMMA FlattenAppend ==
  ASSUME NEW S, NEW s \in Seq(Seq(S)), NEW e \in Seq(S)
  PROVE  FlattenSeq(Append(s, e)) = FlattenSeq(s) \o e
<1> DEFINE n == Len(s)
           t == Append(s, e)
<1>1. n \in Nat /\ Len(t) = n + 1 /\ t[n + 1] = e /\ \A k \in 1 .. n : s[k] = t[k]
  OBVIOUS
<1> HIDE DEF t
<1>2. PICK g : Partial(g, t, n + 1) /\ FlattenSeq(t) = g[n + 1]
  BY <1>1, FlattenIsPartial
<1>3. g[n + 1] = IF n + 1 = 1 THEN t[n + 1] ELSE g[n] \o t[n + 1]
  <2>1. n + 1 \in 1 .. n + 1 /\ (n + 1) - 1 = n
    BY <1>1
  <2> HIDE DEF n
  <2> QED BY <2>1, <1>2, PartialValue
<1>4. CASE n = 0
  <2>1. FlattenSeq(s) = <<>>
    <3>1. s = <<>>
      BY <1>4, EmptySeq
    <3> QED BY <3>1, FlattenNone
  <2>2. <<>> \o e = e
    OBVIOUS
  <2> QED BY <2>1, <2>2, <1>1, <1>2, <1>3, <1>4 DEF t
<1>5. CASE n # 0
  <2>1. PICK f : Partial(f, s, n) /\ FlattenSeq(s) = f[n]
    BY <1>1, <1>5, FlattenIsPartial
  <2>2. \A k \in 1 .. n : f[k] = g[k]
    <3> HIDE DEF n
    <3>1. n \in Nat /\ n + 1 \in Nat /\ n <= n + 1
      BY <1>1
    <3> QED BY <3>1, <1>1, <1>2, <2>1, PartialUnique
  <2>3. f[n] = g[n]
    BY <1>1, <1>5, <2>2
  <2> QED BY <2>1, <2>3, <1>1, <1>2, <1>3, <1>5 DEF t
<1> QED BY <1>4, <1>5

LEMMA FlattenNext ==
  ASSUME NEW S, NEW m \in Nat, NEW n \in 0 .. m - 1, NEW h \in [1 .. m -> Seq(S)]
  PROVE  /\ FlattenSeq([k \in 1 .. n |-> h[k]]) \in Seq(S)
         /\ FlattenSeq([k \in 1 .. n + 1 |-> h[k]]) = FlattenSeq([k \in 1 .. n |-> h[k]]) \o h[n + 1]
<1> DEFINE s == [k \in 1 .. n |-> h[k]]
<1>1. s \in Seq(Seq(S)) /\ h[n + 1] \in Seq(S)
  OBVIOUS
<1>2. [k \in 1 .. n + 1 |-> h[k]] = Append(s, h[n + 1])
  OBVIOUS
<1> HIDE DEF s
<1> QED BY <1>1, <1>2, FlattenAppend, FlattenTyped DEF s
-------------------------------------------------------------------------------
(* What _write() sends of a buffer.                                        *)

LEMMA SendableOf ==
  ASSUME NEW buf \in Seq(Char)
  PROVE  /\ Sendable(buf) \in 0 .. Len(buf)
         /\ (\A k \in 1 .. Len(buf) : buf[k] # "nul") <=> Sendable(buf) = 0
         /\ \A k \in 1 .. Sendable(buf) - 1 : buf[k] # "nul"
<1> DEFINE I == {k \in 1 .. Len(buf) : buf[k] = "nul"}
<1>1. Sendable(buf) = IF I # {} THEN Min(I) ELSE 0
  BY DEF Sendable, SelectInSeq
<1>2. I \in SUBSET Nat /\ Len(buf) \in Nat
  OBVIOUS
<1>3. CASE I = {}
  BY <1>1, <1>2, <1>3
<1>4. CASE I # {}
  <2>1. Min(I) \in I /\ \A n \in I : Min(I) <= n
    BY <1>2, <1>4, MinIsLeast
  <2> HIDE DEF I
  <2>2. Sendable(buf) = Min(I)
    BY <1>1, <1>4
  <2>3. Sendable(buf) \in 1 .. Len(buf) /\ buf[Sendable(buf)] = "nul"
    BY <2>1, <2>2 DEF I
  <2>4. ASSUME NEW k \in 1 .. Sendable(buf) - 1 PROVE buf[k] # "nul"
    <3>1. k \in 1 .. Len(buf) /\ k < Sendable(buf)
      BY <2>3, <1>2
    <3>2. k \notin I
      BY <3>1, <2>1, <2>2, <2>3
    <3> QED BY <3>1, <3>2 DEF I
  <2> QED BY <2>3, <2>4
<1> QED BY <1>3, <1>4

LEMMA WriteCountOf ==
  ASSUME NEW buf \in Seq(Char), NEW fd \in {1, 2}
  PROVE  /\ WriteCount(fd, buf) = WriteCount(1, buf)
         /\ WriteCount(1, buf) \in 0 .. Len(buf)
         /\ \A k \in 1 .. WriteCount(1, buf) : buf[k] # "nul"
         /\ (\A k \in 1 .. Len(buf) : buf[k] # "nul") => WriteCount(1, buf) = Len(buf)
<1>1. Len(buf) \in Nat
  OBVIOUS
<1> QED BY <1>1, SendableOf DEF WriteCount

LEMMA SentTyped ==
  ASSUME NEW buf \in Seq(Char)
  PROVE  Sent(buf) \in Seq(Wire)
<1> DEFINE n == WriteCount(1, buf)
           s == [k \in 1 .. n |-> OnWire(buf[k])]
<1>1. n \in Nat /\ \A k \in 1 .. n : buf[k] \in Char \ {"nul"}
  <2>1. n \in 0 .. Len(buf) /\ \A k \in 1 .. n : buf[k] # "nul"
    BY WriteCountOf
  <2> QED BY <2>1
<1> HIDE DEF n
<1>2. ASSUME NEW k \in 1 .. n PROVE OnWire(buf[k]) \in Seq(Wire)
  <2>1. CASE buf[k] = "nl"
    <3>1. <<"nl", "cr">> \in Seq(Wire)
      BY DEF Wire
    <3> QED BY <3>1, <2>1 DEF OnWire
  <2>2. CASE buf[k] = "chr"
    <3>1. <<"chr">> \in Seq(Wire)
      BY DEF Wire
    <3> QED BY <3>1, <2>2 DEF OnWire
  <2> QED BY <2>1, <2>2, <1>1 DEF Char
<1>3. s \in Seq(Seq(Wire))
  <2> DEFINE o(k) == OnWire(buf[k])
  <2>1. \A k \in 1 .. n : o(k) \in Seq(Wire)
    BY <1>2
  <2> HIDE DEF o
  <2>2. [k \in 1 .. n |-> o(k)] \in Seq(Seq(Wire))
    BY <1>1, <2>1
  <2> QED BY <2>2 DEF o
<1>4. FlattenSeq(s) \in Seq(Wire)
  BY <1>3, FlattenTyped
<1> QED BY <1>4 DEF Sent, n
-------------------------------------------------------------------------------
(* The buffers of a call.                                                  *)

LEMMA BuffersTyped ==
  ASSUME NEW c \in Call
  PROVE  /\ c.bufs \in Seq([ok : BOOLEAN, buf : Buffer])
         /\ \A k \in DOMAIN c.bufs : c.bufs[k].buf \in Seq(Char)
         /\ DOMAIN c.bufs = 1 .. Len(c.bufs) /\ Len(c.bufs) \in Nat
<1> DEFINE B == [ok : BOOLEAN, buf : Buffer]
<1>1. PICK m \in 0 .. MaxIov : c.bufs \in [1 .. m -> B]
  BY DEF Call, BoundedSeq, SeqOf
<1> HIDE DEF B
<1>2. c.bufs \in Seq(B)
  BY <1>1
<1>3. \A b \in B : b.buf \in Seq(Char)
  BY DEF B, Buffer, BoundedSeq, SeqOf
<1>4. ASSUME NEW k \in DOMAIN c.bufs PROVE c.bufs[k].buf \in Seq(Char)
  <2>1. c.bufs[k] \in B
    BY <1>2
  <2> QED BY <2>1, <1>3
<1>5. DOMAIN c.bufs = 1 .. Len(c.bufs) /\ Len(c.bufs) \in Nat
  BY <1>2
<1> QED BY <1>2, <1>4, <1>5 DEF B

LEMMA BufsTyped ==
  ASSUME call \in Call
  PROVE  /\ Len(call.bufs) \in Nat /\ DOMAIN call.bufs = 1 .. Len(call.bufs)
         /\ DOMAIN Bufs = 1 .. Len(call.bufs)
         /\ \A k \in 1 .. Len(call.bufs) : Bufs[k] = call.bufs[k].buf /\ Bufs[k] \in Seq(Char)
         /\ ~HasNul => \A k \in 1 .. Len(call.bufs) : \A l \in 1 .. Len(Bufs[k]) : Bufs[k][l] # "nul"
<1>1. /\ Len(call.bufs) \in Nat /\ DOMAIN call.bufs = 1 .. Len(call.bufs)
      /\ \A k \in DOMAIN call.bufs : call.bufs[k].buf \in Seq(Char)
  BY BuffersTyped
<1>2. /\ DOMAIN Bufs = 1 .. Len(call.bufs)
      /\ \A k \in 1 .. Len(call.bufs) : Bufs[k] = call.bufs[k].buf /\ Bufs[k] \in Seq(Char)
  BY <1>1 DEF Bufs
<1>3. ASSUME ~HasNul, NEW k \in 1 .. Len(call.bufs), NEW l \in 1 .. Len(Bufs[k])
      PROVE  Bufs[k][l] # "nul"
  <2>1. "nul" \notin ToSet(Bufs[k]) /\ Bufs[k] \in Seq(Char)
    BY <1>2, <1>3 DEF HasNul
  <2> QED BY <2>1 DEF ToSet
<1> QED BY <1>1, <1>2, <1>3

(* One buffer more.                                                        *)
LEMMA OneMore ==
  ASSUME call \in Call, NEW n \in 0 .. Len(call.bufs) - 1
  PROVE  /\ SentOf(n + 1) = SentOf(n) \o Sent(Bufs[n + 1])
         /\ GivenOf(n + 1) = GivenOf(n) \o Bufs[n + 1]
         /\ SentOf(n) \in Seq(Wire) /\ GivenOf(n) \in Seq(Char)
<1> DEFINE m == Len(call.bufs)
<1>1. m \in Nat /\ n \in Nat /\ n + 1 <= m /\ \A k \in 1 .. m : Bufs[k] \in Seq(Char)
  BY BufsTyped
<1> HIDE DEF m
<1>2. \A k \in 1 .. m : Sent(Bufs[k]) \in Seq(Wire)
  BY <1>1, SentTyped
<1> DEFINE f == [k \in 1 .. m |-> Sent(Bufs[k])]
           g == [k \in 1 .. m |-> Bufs[k]]
<1>3. /\ f \in [1 .. m -> Seq(Wire)] /\ f[n + 1] = Sent(Bufs[n + 1])
      /\ [k \in 1 .. n + 1 |-> f[k]] = [k \in 1 .. n + 1 |-> Sent(Bufs[k])]
      /\ [k \in 1 .. n |-> f[k]] = [k \in 1 .. n |-> Sent(Bufs[k])]
  BY <1>1, <1>2
<1>4. /\ g \in [1 .. m -> Seq(Char)] /\ g[n + 1] = Bufs[n + 1]
      /\ [k \in 1 .. n + 1 |-> g[k]] = [k \in 1 .. n + 1 |-> Bufs[k]]
      /\ [k \in 1 .. n |-> g[k]] = [k \in 1 .. n |-> Bufs[k]]
  BY <1>1
<1> HIDE DEF f, g
<1>5. n \in 0 .. m - 1
  BY DEF m
<1>6. SentOf(n + 1) = SentOf(n) \o Sent(Bufs[n + 1]) /\ SentOf(n) \in Seq(Wire)
  <2>1. /\ FlattenSeq([k \in 1 .. n |-> f[k]]) \in Seq(Wire)
        /\ FlattenSeq([k \in 1 .. n + 1 |-> f[k]]) = FlattenSeq([k \in 1 .. n |-> f[k]]) \o f[n + 1]
    BY <1>1, <1>3, <1>5, FlattenNext
  <2> QED BY <2>1, <1>3 DEF SentOf
<1>7. GivenOf(n + 1) = GivenOf(n) \o Bufs[n + 1] /\ GivenOf(n) \in Seq(Char)
  <2>1. /\ FlattenSeq([k \in 1 .. n |-> g[k]]) \in Seq(Char)
        /\ FlattenSeq([k \in 1 .. n + 1 |-> g[k]]) = FlattenSeq([k \in 1 .. n |-> g[k]]) \o g[n + 1]
    BY <1>1, <1>4, <1>5, FlattenNext
  <2> QED BY <2>1, <1>4 DEF GivenOf
<1> QED BY <1>6, <1>7
-------------------------------------------------------------------------------
(* The inductive invariant.                                                *)

LEMMA AtStart == CallsInit => IInv
<1> SUFFICES ASSUME CallsInit PROVE IInv
  OBVIOUS
<1>1. /\ i = 0 /\ written = 0 /\ len = 0 /\ ciovecs = 0 /\ err = 0 /\ nwritten = -1 /\ wire = <<>>
      /\ told = Undefined /\ exception = FALSE /\ fn \in Functions
      /\ fn = "fd_write" => pc = "check" /\ call \in Call /\ args = [fd |-> 0, address |-> FALSE, whence |-> 0]
      /\ fn # "fd_write" => pc = "enter" /\ call = [fd |-> 0, table |-> FALSE, bufs |-> <<>>] /\ args \in Args
  BY DEF CallsInit, Entered
<1>2. call \in Call
  <2>1. <<>> \in BoundedSeq([ok : BOOLEAN, buf : Buffer], MaxIov)
    <3>1. 0 \in 0 .. MaxIov /\ <<>> \in [1 .. 0 -> [ok : BOOLEAN, buf : Buffer]]
      BY WasiWriteAssumption
    <3> QED BY <3>1 DEF BoundedSeq, SeqOf
  <2>2. [fd |-> 0, table |-> FALSE, bufs |-> <<>>] \in Call
    BY <2>1 DEF Call
  <2>3. CASE fn = "fd_write"
    BY <1>1, <2>3
  <2>4. CASE fn # "fd_write"
    BY <1>1, <2>2, <2>4
  <2> QED BY <2>3, <2>4
<1>3. [fd |-> 0, address |-> FALSE, whence |-> 0] \in Args
  BY DEF Args, Whence
<1>4. CallsTypeOK
  <2>1. 0 \in 0 .. Len(call.bufs)
    BY <1>2, BufsTyped
  <2>2. TypesOK
    BY <1>1, <1>2, <2>1 DEF TypesOK
  <2>3. pc \in {"check", "enter"} /\ args \in Args
    BY <1>1, <1>3
  <2> QED BY <1>1, <2>2, <2>3 DEF CallsTypeOK
<1>5. StageInv
  BY <1>1 DEF StageInv, TableFreed
<1>6. OutputInv
  BY <1>1 DEF OutputInv
<1> QED BY <1>4, <1>5, <1>6 DEF IInv

(* The buffer that is being written.                                       *)
LEMMA CurrentBuffer ==
  ASSUME CallsTypeOK, i < Len(call.bufs)
  PROVE  /\ i \in 0 .. Len(call.bufs) - 1
         /\ Buf = Bufs[i + 1] /\ Buf \in Seq(Char) /\ Len(Buf) \in Nat
         /\ call.fd \in {1, 2} => WriteCount(call.fd, Buf) \in 0 .. Len(Buf)
         /\ call.fd \in {1, 2} /\ ~HasNul => WriteCount(call.fd, Buf) = Len(Buf)
         /\ Sent(Buf) \in Seq(Wire)
<1>1. call \in Call /\ i \in 0 .. Len(call.bufs)
  BY DEF CallsTypeOK, TypesOK
<1>2. i \in 0 .. Len(call.bufs) - 1 /\ i + 1 \in 1 .. Len(call.bufs)
  BY <1>1, BufsTyped
<1>3. Buf = Bufs[i + 1] /\ Buf \in Seq(Char) /\ Len(Buf) \in Nat
  BY <1>1, <1>2, BufsTyped DEF Buf
<1>4. ~HasNul => \A l \in 1 .. Len(Buf) : Buf[l] # "nul"
  BY <1>1, <1>2, <1>3, BufsTyped
<1>5. Sent(Buf) \in Seq(Wire)
  BY <1>3, SentTyped
<1>6. call.fd \in {1, 2} => /\ WriteCount(call.fd, Buf) \in 0 .. Len(Buf)
                            /\ ~HasNul => WriteCount(call.fd, Buf) = Len(Buf)
  BY <1>3, <1>4, WriteCountOf
<1> QED BY <1>2, <1>3, <1>5, <1>6

LEMMA CallKept ==
  ASSUME CallsTypeOK, CallsNext
  PROVE  call' = call /\ Bufs' = Bufs /\ HasNul' = HasNul /\ fn' = fn /\ args' = args
<1>1. call' = call /\ fn' = fn /\ args' = args
  BY DEF CallsNext, FdWrite, Next, Check, Convert, SspFdWrite, Write, NextBuffer, Succeed, FreeAndReturn,
         FdSeek, FdFdstatGet, FdClose, ProcExit, Answer, other
<1> QED BY <1>1 DEF Bufs, HasNul

(* A handler that is one step answers with an error exactly if it leaves   *)
(* the result parameter alone.                                             *)
Answers ==
  /\ pc = "enter" /\ fn # "fd_write"
  /\ \E e \in {0, EINVAL, MinusOne}, line \in {<<>>, <<"line">>}, value \in {Undefined, "offset", "fdstat"} :
       Answer(e, line, value) /\ (e = 0 <=> value # Undefined)

LEMMA OneStep == FdSeek \/ FdFdstatGet \/ FdClose => Answers
<1> USE Words
<1>1. ASSUME FdSeek PROVE Answers
  <2>1. pc = "enter" /\ fn = "fd_seek"
    BY <1>1 DEF FdSeek, Enter
  <2>2. CASE Answer(MinusOne, <<>>, Undefined)
    BY <2>1, <2>2 DEF Answers
  <2>3. CASE Answer(EINVAL, <<>>, Undefined)
    BY <2>1, <2>3 DEF Answers
  <2>4. ASSUME NEW offset \in Offsets, offset < 0, Answer(offset % 2^16, <<"line">>, Undefined)
        PROVE  Answers
    <3>1. Answer(MinusOne, <<"line">>, Undefined)
      BY <2>4, ErrorOfSeek
    <3> QED BY <2>1, <3>1 DEF Answers
  <2>5. CASE Answer(0, <<"line">>, "offset")
    BY <2>1, <2>5 DEF Answers, Undefined
  <2> QED BY <1>1, <2>2, <2>3, <2>4, <2>5 DEF FdSeek
<1>2. ASSUME FdFdstatGet PROVE Answers
  <2>1. pc = "enter" /\ fn = "fd_fdstat_get"
    BY <1>2 DEF FdFdstatGet, Enter
  <2>2. CASE Answer(0, <<>>, "fdstat")
    BY <2>1, <2>2 DEF Answers, Undefined
  <2>3. CASE Answer(MinusOne, <<>>, Undefined)
    BY <2>1, <2>3 DEF Answers
  <2> QED BY <1>2, <2>2, <2>3 DEF FdFdstatGet
<1>3. ASSUME FdClose PROVE Answers
  BY <1>3 DEF FdClose, Enter, Answers
<1> QED BY <1>1, <1>2, <1>3

LEMMA TypeStep ==
  ASSUME IInv, CallsNext
  PROVE  CallsTypeOK'
<1>1. CallsTypeOK /\ StageInv
  BY DEF IInv
<1>2. call' = call /\ fn' = fn /\ args' = args
  BY <1>1, CallKept
<1>3. call \in Call /\ Len(call.bufs) \in Nat /\ 0 \in 0 .. Len(call.bufs)
  BY <1>1, BufsTyped DEF CallsTypeOK, TypesOK
<1> USE <1>1, <1>2, <1>3, Words DEF CallsTypeOK, TypesOK
<1>4. CASE Check /\ UNCHANGED other
  BY <1>4 DEF Check, Return, other, StageInv, TableFreed
<1>5. CASE Convert /\ UNCHANGED other
  BY <1>5 DEF Convert, other
<1>6. CASE SspFdWrite /\ UNCHANGED other
  BY <1>6 DEF SspFdWrite, other
<1>7. CASE Write /\ UNCHANGED other
  <2>1. i < Len(call.bufs) /\ call.fd \in {1, 2}
    BY <1>7 DEF Write, StageInv
  <2>2. WriteCount(call.fd, Buf) \in Nat /\ Sent(Buf) \in Seq(Wire)
    BY <2>1, CurrentBuffer
  <2>3. wire \o Sent(Buf) \in Seq(Wire)
    BY <2>2, ConcatProperties DEF Wire
  <2> QED BY <1>7, <2>2, <2>3 DEF Write, other, Wire
<1>8. CASE NextBuffer /\ UNCHANGED other
  BY <1>8 DEF NextBuffer, other
<1>9. CASE Succeed /\ UNCHANGED other
  BY <1>9 DEF Succeed, other
<1>10. CASE FreeAndReturn /\ UNCHANGED other
  BY <1>10 DEF FreeAndReturn, other, StageInv, TableFreed
<1>11. CASE Answers
  <2>1. PICK e \in {0, EINVAL, MinusOne}, line \in {<<>>, <<"line">>},
             value \in {Undefined, "offset", "fdstat"} : Answer(e, line, value)
    BY <1>11 DEF Answers
  <2>2. line \in Seq(Wire)
    <3>1. <<"line">> \in Seq(Wire) /\ <<>> \in Seq(Wire)
      BY DEF Wire
    <3> QED BY <3>1
  <2>3. wire \o line \in Seq(Wire)
    BY <2>2, ConcatProperties DEF Wire
  <2> QED BY <2>1, <2>3 DEF Answer, Return, Wire
<1>12. CASE ProcExit
  BY <1>12 DEF ProcExit
<1> QED BY <1>4, <1>5, <1>6, <1>7, <1>8, <1>9, <1>10, <1>11, <1>12, OneStep DEF CallsNext, FdWrite, Next

LEMMA StageStep ==
  ASSUME IInv, CallsNext
  PROVE  StageInv'
<1>1. CallsTypeOK /\ StageInv
  BY DEF IInv
<1>2. call' = call /\ fn' = fn
  BY <1>1, CallKept
<1> USE <1>1, <1>2, Words DEF StageInv, TableFreed
<1>3. CASE Check /\ fn = "fd_write" /\ UNCHANGED other
  BY <1>3 DEF Check, Return, other
<1>4. CASE Convert /\ fn = "fd_write" /\ UNCHANGED other
  BY <1>4 DEF Convert, other
<1>5. CASE SspFdWrite /\ fn = "fd_write" /\ UNCHANGED other
  BY <1>5 DEF SspFdWrite, other
<1>6. CASE Write /\ fn = "fd_write" /\ UNCHANGED other
  BY <1>6 DEF Write, other
<1>7. CASE NextBuffer /\ fn = "fd_write" /\ UNCHANGED other
  BY <1>7 DEF NextBuffer, other
<1>8. CASE Succeed /\ fn = "fd_write" /\ UNCHANGED other
  <2>1. len # -1
    BY DEF CallsTypeOK, TypesOK
  <2> QED BY <1>8, <2>1 DEF Succeed, other
<1>9. CASE FreeAndReturn /\ fn = "fd_write" /\ UNCHANGED other
  BY <1>9 DEF FreeAndReturn, other
<1>10. CASE Answers
  <2>1. PICK e \in {0, EINVAL, MinusOne}, line \in {<<>>, <<"line">>},
             value \in {Undefined, "offset", "fdstat"} :
               Answer(e, line, value) /\ (e = 0 <=> value # Undefined)
    BY <1>10 DEF Answers
  <2>2. wire' \in {<<>>, <<"line">>}
    <3>1. wire = <<>> /\ wire' = wire \o line
      BY <1>10, <2>1 DEF Answers, Answer
    <3>2. <<>> \o line = line
      OBVIOUS
    <3> QED BY <3>1, <3>2
  <2> QED BY <1>10, <2>1, <2>2 DEF Answers, Answer, Return
<1>11. CASE ProcExit
  BY <1>11 DEF ProcExit, Enter
<1> QED BY <1>3, <1>4, <1>5, <1>6, <1>7, <1>8, <1>9, <1>10, <1>11, OneStep DEF CallsNext, FdWrite, Next

LEMMA OutputStep ==
  ASSUME IInv, CallsNext
  PROVE  OutputInv'
<1>1. CallsTypeOK /\ StageInv /\ OutputInv
  BY DEF IInv
<1>2. call' = call /\ fn' = fn /\ Bufs' = Bufs /\ HasNul' = HasNul
  BY <1>1, CallKept
<1>3. call \in Call /\ Len(call.bufs) \in Nat /\ i \in 0 .. Len(call.bufs) /\ written \in Nat /\ len \in Nat
  BY <1>1, BufsTyped DEF CallsTypeOK, TypesOK
<1>4. SUFFICES ASSUME ~HasNul PROVE OutputInv'
  BY <1>2 DEF OutputInv
<1>5. SUFFICES /\ pc' = "write" =>
                    /\ len' = Len(GivenOf(i'))
                    /\ written' = 0 => wire' = SentOf(i')
                    /\ written' # 0 => /\ i' < Len(call.bufs) /\ written' = Len(Buf')
                                       /\ wire' = SentOf(i') \o Sent(Buf')
               /\ fn = "fd_write" /\ pc' \in {"fail", "returned"} /\ nwritten' # -1 =>
                    wire' = SentOf(Len(call.bufs)) /\ nwritten' = Len(GivenOf(Len(call.bufs)))
  BY <1>2 DEF OutputInv, SentOf, GivenOf
<1>6. /\ pc = "write" =>
           /\ len = Len(GivenOf(i))
           /\ written = 0 => wire = SentOf(i)
           /\ written # 0 => i < Len(call.bufs) /\ written = Len(Buf) /\ wire = SentOf(i) \o Sent(Buf)
      /\ fn = "fd_write" /\ pc \in {"fail", "returned"} /\ nwritten # -1 =>
           wire = SentOf(Len(call.bufs)) /\ nwritten = Len(GivenOf(Len(call.bufs)))
  BY <1>1, <1>4 DEF OutputInv
<1>7. SentOf(0) = <<>> /\ GivenOf(0) = <<>>
  BY FlattenNone DEF SentOf, GivenOf
<1>8. CASE Check /\ UNCHANGED other
  BY <1>1, <1>8 DEF Check, Return, StageInv
<1>9. CASE Convert /\ UNCHANGED other
  BY <1>1, <1>9 DEF Convert, StageInv
<1>10. CASE SspFdWrite /\ UNCHANGED other
  BY <1>1, <1>7, <1>10 DEF SspFdWrite, StageInv
<1>11. CASE Write /\ UNCHANGED other
  <2>1. /\ pc = "write" /\ i < Len(call.bufs) /\ written < Len(Buf)
        /\ written' = written + WriteCount(call.fd, Buf) /\ wire' = wire \o Sent(Buf)
        /\ pc' = pc /\ i' = i /\ len' = len /\ nwritten' = nwritten
    BY <1>11 DEF Write
  <2>2. WriteCount(call.fd, Buf) = Len(Buf) /\ Len(Buf) \in Nat
    BY <1>1, <1>4, <2>1, CurrentBuffer DEF StageInv
  <2>3. Buf' = Buf
    BY <1>2, <2>1 DEF Buf
  <2>4. written = 0 /\ written' = Len(Buf) /\ written' # 0
    BY <1>3, <1>6, <2>1, <2>2
  <2> QED BY <1>6, <2>1, <2>3, <2>4
<1>12. CASE NextBuffer /\ UNCHANGED other
  <2>1. /\ pc = "write" /\ i < Len(call.bufs) /\ written >= Len(Buf)
        /\ i' = i + 1 /\ len' = len + written /\ written' = 0
        /\ pc' = pc /\ wire' = wire /\ nwritten' = nwritten
    BY <1>3, <1>12 DEF NextBuffer
  <2>2. /\ i \in 0 .. Len(call.bufs) - 1 /\ Buf = Bufs[i + 1] /\ Buf \in Seq(Char) /\ Len(Buf) \in Nat
    BY <1>1, <2>1, CurrentBuffer
  <2>3. /\ SentOf(i + 1) = SentOf(i) \o Sent(Buf) /\ GivenOf(i + 1) = GivenOf(i) \o Buf
        /\ SentOf(i) \in Seq(Wire) /\ GivenOf(i) \in Seq(Char)
    BY <1>3, <2>2, OneMore
  <2>4. written = Len(Buf)
    BY <1>3, <1>6, <2>1, <2>2
  <2>5. len' = Len(GivenOf(i'))
    BY <1>6, <2>1, <2>2, <2>3, <2>4, ConcatProperties
  <2>6. wire' = SentOf(i')
    <3>1. CASE written = 0
      <4>1. Buf = <<>>
        BY <2>2, <2>4, <3>1, EmptySeq
      <4>2. Sent(Buf) = <<>>
        <5>1. WriteCount(1, Buf) \in 0 .. Len(Buf)
          BY <2>2, WriteCountOf
        <5>2. WriteCount(1, Buf) = 0
          BY <2>4, <3>1, <5>1
        <5> QED BY <5>2, FlattenNone DEF Sent
      <4> QED BY <1>6, <2>1, <2>3, <3>1, <4>2
    <3>2. CASE written # 0
      BY <1>6, <2>1, <2>3, <3>2
    <3> QED BY <3>1, <3>2
  <2> QED BY <2>1, <2>5, <2>6
<1>13. CASE Succeed /\ UNCHANGED other
  <2>1. /\ pc = "write" /\ i = Len(call.bufs) /\ nwritten' = len /\ pc' = "fail" /\ wire' = wire
    BY <1>13 DEF Succeed
  <2> QED BY <1>3, <1>6, <2>1
<1>14. CASE FreeAndReturn /\ UNCHANGED other
  BY <1>6, <1>14 DEF FreeAndReturn
<1>15. CASE Answers
  BY <1>15 DEF Answers, Answer, Return
<1>16. CASE ProcExit
  BY <1>16 DEF ProcExit, Enter
<1> QED BY <1>8, <1>9, <1>10, <1>11, <1>12, <1>13, <1>14, <1>15, <1>16, OneStep DEF CallsNext, FdWrite, Next

LEMMA Stutter ==
  ASSUME IInv, UNCHANGED allVars
  PROVE  IInv'
<1>1. /\ pc' = pc /\ call' = call /\ i' = i /\ written' = written /\ len' = len /\ ciovecs' = ciovecs
      /\ err' = err /\ nwritten' = nwritten /\ wire' = wire
      /\ fn' = fn /\ args' = args /\ told' = told /\ exception' = exception
  BY DEF allVars, vars, other
<1>2. CallsTypeOK'
  BY <1>1 DEF IInv, CallsTypeOK, TypesOK
<1>3. StageInv'
  BY <1>1 DEF IInv, StageInv, TableFreed
<1>4. OutputInv'
  <2>1. Bufs' = Bufs /\ HasNul' = HasNul /\ Buf' = Buf
    BY <1>1 DEF Bufs, HasNul, Buf
  <2> QED BY <1>1, <2>1 DEF IInv, OutputInv, SentOf, GivenOf
<1> QED BY <1>2, <1>3, <1>4 DEF IInv

LEMMA Inductive == CallsSpec => []IInv
<1>1. CallsInit => IInv
  BY AtStart
<1>2. IInv /\ [CallsNext]_allVars => IInv'
  BY TypeStep, StageStep, OutputStep, Stutter DEF IInv
<1> QED BY <1>1, <1>2, PTL DEF CallsSpec
-------------------------------------------------------------------------------
(* The theorems.                                                           *)

(* The state of a call always has its type: what is counted is a natural   *)
(* number, whatever the buffers hold.                                      *)
THEOREM TypeCorrect == CallsSpec => []CallsTypeOK
<1>1. IInv => CallsTypeOK
  BY DEF IInv
<1> QED BY <1>1, Inductive, PTL

(* Every way out of fd_write() passes the one place that frees the table   *)
(* of converted buffers, and only after it has been allocated.             *)
THEOREM TableIsFreed == CallsSpec => []TableFreed
<1>1. IInv => TableFreed
  BY DEF IInv, StageInv
<1> QED BY <1>1, Inductive, PTL

(* Output without NUL characters reaches the serial port once, in order    *)
(* and completely, whatever the number and the length of the buffers, and  *)
(* the reported count is the number of characters given.                   *)
THEOREM OutputArrives == CallsSpec => []OutputFaithful
<1>1. IInv => OutputFaithful
  <2> SUFFICES ASSUME IInv, pc = "returned", nwritten # -1, ~HasNul
               PROVE  /\ wire = FlattenSeq([k \in DOMAIN Bufs |-> Sent(Bufs[k])])
                      /\ nwritten = Len(FlattenSeq(Bufs))
    BY DEF OutputFaithful
  <2>1. wire = SentOf(Len(call.bufs)) /\ nwritten = Len(GivenOf(Len(call.bufs)))
    BY DEF IInv, StageInv, OutputInv
  <2>2. DOMAIN Bufs = 1 .. Len(call.bufs)
    BY BufsTyped DEF IInv, CallsTypeOK, TypesOK
  <2>3. Bufs = [k \in DOMAIN Bufs |-> Bufs[k]]
    BY DEF Bufs
  <2> QED BY <2>1, <2>2, <2>3 DEF SentOf, GivenOf
<1> QED BY <1>1, Inductive, PTL

(* A call that returns an error has sent nothing of the benchmark's and    *)
(* has assigned no count.                                                  *)
THEOREM ErrorsAreClean == CallsSpec => []FailsCleanly
<1>1. IInv => FailsCleanly
  <2> SUFFICES ASSUME IInv, pc = "returned", err # 0
               PROVE  ToSet(wire) \subseteq {"line"} /\ nwritten = -1
    BY DEF FailsCleanly
  <2>1. wire \in {<<>>, <<"line">>} /\ nwritten = -1
    BY DEF IInv, StageInv
  <2> QED BY <2>1 DEF ToSet
<1> QED BY <1>1, Inductive, PTL

(* A call that returns to the benchmark returns 0 exactly if it has        *)
(* assigned the result the benchmark will then read.                       *)
THEOREM ErrorsAreTold == CallsSpec => []ToldWhatHappened
<1>1. IInv => ToldWhatHappened
  BY DEF IInv, StageInv, ToldWhatHappened
<1> QED BY <1>1, Inductive, PTL

Stage ==
  CASE pc \in {"enter", "check"} -> 0 [] pc = "convert" -> 1 [] pc = "write" -> 2
    [] pc = "fail" -> 3 [] pc = "returned" -> 4

(* No loop of a call runs on the spot: a step reaches the next stage, the  *)
(* next buffer, or has written more of a buffer that is not yet written.   *)
(* (Once a buffer begins with NUL, Write changes nothing at all.)          *)
GoesForward ==
  [][ \/ Stage' > Stage
      \/ Stage' = Stage /\ i' > i /\ i' <= Len(call.bufs)
      \/ Stage' = Stage /\ i' = i /\ written < Len(Buf) /\ written' > written ]_allVars

(* No loop of a call runs on the spot, for any number of buffers of any    *)
(* length.                                                                 *)
THEOREM CallsGoForward == CallsSpec => GoesForward
<1> DEFINE Forward ==
      \/ Stage' > Stage
      \/ Stage' = Stage /\ i' > i /\ i' <= Len(call.bufs)
      \/ Stage' = Stage /\ i' = i /\ written < Len(Buf) /\ written' > written
<1>1. ASSUME IInv, CallsNext PROVE Forward \/ UNCHANGED allVars
  <2>1. /\ i \in Nat /\ written \in Nat /\ Len(call.bufs) \in Nat /\ i <= Len(call.bufs)
    <3>1. call \in Call /\ i \in 0 .. Len(call.bufs) /\ written \in Nat
      BY <1>1 DEF IInv, CallsTypeOK, TypesOK
    <3> QED BY <3>1, BufsTyped
  <2>2. CASE FdSeek \/ FdFdstatGet \/ FdClose \/ ProcExit
    <3>1. pc = "enter" /\ pc' = "returned"
      BY <2>2 DEF FdSeek, FdFdstatGet, FdClose, ProcExit, Enter, Answer, Return
    <3> QED BY <3>1 DEF Stage
  <2>3. CASE FdWrite
    <3>1. CASE Check BY <3>1 DEF Check, Return, Stage
    <3>2. CASE Convert
      <4>1. CASE i' = i + 1 /\ pc' = pc
        BY <2>1, <3>2, <4>1 DEF Convert, Stage
      <4>2. CASE pc' = "fail" BY <3>2, <4>2 DEF Convert, Stage
      <4> QED BY <3>2, <4>1, <4>2 DEF Convert
    <3>3. CASE SspFdWrite BY <3>3 DEF SspFdWrite, Stage
    <3>4. CASE Write
      <4>1. /\ pc' = pc /\ i' = i /\ written < Len(Buf)
            /\ written' = written + WriteCount(call.fd, Buf)
            /\ wire' = wire \o Sent(Buf)
            /\ i < Len(call.bufs) /\ pc = "write"
            /\ UNCHANGED <<pc, call, i, len, ciovecs, err, nwritten>>
        BY <2>1, <3>4 DEF Write
      <4>2. call.fd \in {1, 2} BY <1>1, <4>1 DEF IInv, StageInv
      <4>3. /\ WriteCount(call.fd, Buf) \in Nat
            /\ WriteCount(call.fd, Buf) = WriteCount(1, Buf)
        BY <1>1, <4>1, <4>2, CurrentBuffer, WriteCountOf DEF IInv
      <4>4. CASE WriteCount(call.fd, Buf) > 0
        <5>1. written' > written BY <2>1, <4>1, <4>3, <4>4
        <5> QED BY <4>1, <5>1 DEF Stage
      <4>5. CASE WriteCount(call.fd, Buf) = 0
        <5>1. Sent(Buf) = <<>> BY <4>3, <4>5, FlattenNone DEF Sent
        <5>2. wire \in Seq(Wire)
          BY <1>1 DEF IInv, CallsTypeOK, TypesOK, Wire
        <5>3. wire' = wire /\ written' = written BY <2>1, <4>1, <4>5, <5>1, <5>2
        <5> QED BY <2>3, <4>1, <5>3 DEF FdWrite, allVars, vars
      <4> QED BY <4>3, <4>4, <4>5
    <3>5. CASE NextBuffer
      BY <2>1, <3>5 DEF NextBuffer, Stage
    <3>6. CASE Succeed BY <3>6 DEF Succeed, Stage
    <3>7. CASE FreeAndReturn BY <3>7 DEF FreeAndReturn, Stage
    <3> QED BY <2>3, <3>1, <3>2, <3>3, <3>4, <3>5, <3>6, <3>7 DEF FdWrite, Next
  <2> QED BY <1>1, <2>2, <2>3 DEF CallsNext
<1>2. IInv /\ [CallsNext]_allVars => [Forward]_allVars
  BY <1>1
<1> QED BY <1>2, Inductive, PTL DEF CallsSpec, GoesForward
===============================================================================
