---------------------------- MODULE LineBufferProofs ----------------------------
(***************************************************************************)
(* Theorems about module LineBuffer, for every size of the ring and every  *)
(* number of typed characters: the indices stay in the ring, and until     *)
(* they go round its end the ring holds what the terminal shows and        *)
(* _read() hands over what was entered.                                    *)
(*                                                                         *)
(* The invariant behind it: in each place where _read() can be, the ring   *)
(* is the part of the input that place is about, the entered line that is  *)
(* not yet copied or the line on the screen, and the other is empty.       *)
(***************************************************************************)
EXTENDS LineBuffer, SequenceTheorems, TLAPS

Chars == {"nul", "chr", "sp", "nl"}

HistoryInv ==
  /\ screen \in Seq(Chars) /\ entered \in Seq(Chars) /\ got \in Seq(Chars)

RingInv ==
  ~wrapped =>
    /\ start_ndx <= end_ndx
    /\ pc = "idle" => screen = <<>> /\ Ring = entered
    /\ pc = "line" => entered = <<>> /\ got = <<>> /\ Ring = screen
    /\ pc = "copy" => screen = <<>> /\ got \o Ring = entered

IInv == TypeOK /\ HistoryInv /\ RingInv
-------------------------------------------------------------------------------
(* Indices.                                                                *)

LEMMA ModIndex ==
  ASSUME NEW n \in Nat \ {0}, NEW x \in Int
  PROVE  /\ x % n \in 0 .. n - 1
         /\ x \in 0 .. n - 1 => x % n = x
         /\ x = n => x % n = 0
<1>1. x % n \in 0 .. n - 1
  OBVIOUS
<1>2. ASSUME x \in 0 .. n - 1 PROVE x % n = x
  BY <1>2
<1>3. ASSUME x = n PROVE x % n = 0
  BY <1>3
<1> QED BY <1>1, <1>2, <1>3

LEMMA IncOf ==
  ASSUME NEW n \in Index
  PROVE  /\ IncNdx(n) \in Index
         /\ IncNdx(n) = IF n = BUFLEN - 1 THEN 0 ELSE n + 1
<1>1. BUFLEN \in Nat \ {0} /\ n + 1 \in Int /\ n \in 0 .. BUFLEN - 1
  BY LineBufferAssumption DEF Index
<1>2. /\ (n + 1) % BUFLEN \in 0 .. BUFLEN - 1
      /\ n + 1 \in 0 .. BUFLEN - 1 => (n + 1) % BUFLEN = n + 1
      /\ n + 1 = BUFLEN => (n + 1) % BUFLEN = 0
  BY <1>1, ModIndex
<1> QED BY <1>1, <1>2 DEF IncNdx, Index

LEMMA BackOf ==
  ASSUME TypeOK, NEW n \in Nat
  PROVE  /\ (end_ndx - n) % BUFLEN \in Index
         /\ n <= BufLen => (end_ndx - n) % BUFLEN = end_ndx - n
<1>1. BUFLEN \in Nat \ {0} /\ end_ndx \in 0 .. BUFLEN - 1 /\ start_ndx \in Nat /\ end_ndx - n \in Int
  BY LineBufferAssumption DEF TypeOK, Index
<1>2. n <= BufLen => end_ndx - n \in 0 .. BUFLEN - 1
  BY <1>1 DEF BufLen
<1> QED BY <1>1, <1>2, ModIndex DEF Index
-------------------------------------------------------------------------------
(* The ring while the indices have not gone round.                         *)

LEMMA RingOf ==
  ASSUME TypeOK, start_ndx <= end_ndx
  PROVE  /\ BufLen \in Nat /\ Len(Ring) = BufLen
         /\ Ring \in Seq(Chars)
         /\ \A k \in 1 .. BufLen : Ring[k] = buf[start_ndx + k - 1]
<1>1. start_ndx \in 0 .. BUFLEN - 1 /\ end_ndx \in 0 .. BUFLEN - 1 /\ BUFLEN \in Nat
      /\ buf \in [0 .. BUFLEN -> Chars]
  BY LineBufferAssumption DEF TypeOK, Index, Chars
<1>2. BufLen \in Nat /\ start_ndx + BufLen = end_ndx
  BY <1>1 DEF BufLen
<1> DEFINE n == BufLen
<1>3. Ring = [k \in 1 .. n |-> buf[start_ndx + k - 1]]
  BY <1>2 DEF Ring
<1>4. \A k \in 1 .. n : start_ndx + k - 1 \in 0 .. BUFLEN
  BY <1>1, <1>2
<1> HIDE DEF n
<1>5. \A k \in 1 .. n : buf[start_ndx + k - 1] \in Chars
  BY <1>1, <1>4
<1>6. n \in Nat
  BY <1>2 DEF n
<1> QED BY <1>3, <1>5, <1>6, <1>2 DEF n

(* A character more at the end.                                            *)
LEMMA RingLonger ==
  ASSUME TypeOK, TypeOK', start_ndx <= end_ndx, NEW c \in Chars,
         start_ndx' = start_ndx, end_ndx' = end_ndx + 1,
         buf'[end_ndx] = c, \A k \in 0 .. end_ndx - 1 : buf'[k] = buf[k]
  PROVE  Ring' = Append(Ring, c)
<1>1. /\ BufLen \in Nat /\ Len(Ring) = BufLen /\ Ring \in Seq(Chars)
      /\ \A k \in 1 .. BufLen : Ring[k] = buf[start_ndx + k - 1]
  BY RingOf
<1>2. start_ndx \in Nat /\ end_ndx \in Nat /\ BufLen = end_ndx - start_ndx /\ BufLen' = BufLen + 1
  BY DEF TypeOK, Index, BufLen
<1>3. Ring' = [k \in 1 .. BufLen + 1 |-> buf'[start_ndx + k - 1]]
  BY <1>1, <1>2 DEF Ring
<1>4. /\ Append(Ring, c) \in Seq(Chars) /\ Len(Append(Ring, c)) = BufLen + 1
      /\ \A k \in 1 .. BufLen : Append(Ring, c)[k] = Ring[k]
      /\ Append(Ring, c)[BufLen + 1] = c
  BY <1>1, AppendProperties
<1> DEFINE longer == Append(Ring, c)
           n      == BufLen
<1>5. longer = [k \in 1 .. n + 1 |-> longer[k]]
  <2>1. longer \in Seq(Chars) /\ Len(longer) = n + 1
    BY <1>4
  <2> HIDE DEF longer, n
  <2> QED BY <2>1
<1>6. ASSUME NEW k \in 1 .. n + 1 PROVE longer[k] = buf'[start_ndx + k - 1]
  <2>1. CASE k \in 1 .. n
    <3>1. start_ndx + k - 1 \in 0 .. end_ndx - 1
      BY <1>1, <1>2, <2>1
    <3> QED BY <3>1, <1>1, <1>4, <2>1
  <2>2. CASE k = n + 1
    <3>1. start_ndx + k - 1 = end_ndx
      BY <1>1, <1>2, <2>2
    <3> QED BY <3>1, <1>4, <2>2
  <2> QED BY <2>1, <2>2, <1>1
<1> HIDE DEF longer, n
<1>7. longer = [k \in 1 .. n + 1 |-> buf'[start_ndx + k - 1]]
  BY <1>5, <1>6
<1> QED BY <1>3, <1>7 DEF longer, n

(* n characters less at the end.                                           *)
LEMMA RingShorter ==
  ASSUME TypeOK, start_ndx <= end_ndx, NEW n \in 0 .. BufLen,
         start_ndx' = start_ndx, end_ndx' = end_ndx - n, buf' = buf
  PROVE  Ring' = SubSeq(Ring, 1, Len(Ring) - n)
<1>1. /\ BufLen \in Nat /\ Len(Ring) = BufLen /\ Ring \in Seq(Chars)
      /\ \A k \in 1 .. BufLen : Ring[k] = buf[start_ndx + k - 1]
  BY RingOf
<1>2. start_ndx \in Nat /\ end_ndx \in Nat /\ BufLen' = BufLen - n
  BY DEF TypeOK, Index, BufLen
<1> DEFINE m == BufLen - n
<1>3. m \in 0 .. BufLen
  BY <1>1
<1>4. Ring' = [k \in 1 .. m |-> buf[start_ndx + k - 1]]
  BY <1>1, <1>2 DEF Ring
<1>5. SubSeq(Ring, 1, m) = [k \in 1 .. m |-> Ring[k]]
  BY <1>1, <1>3
<1>6. \A k \in 1 .. m : Ring[k] = buf[start_ndx + k - 1]
  BY <1>1, <1>3
<1> HIDE DEF m
<1>7. SubSeq(Ring, 1, m) = Ring'
  BY <1>4, <1>5, <1>6
<1> QED BY <1>1, <1>7 DEF m

(* The first character is taken.                                           *)
LEMMA RingTaken ==
  ASSUME TypeOK, start_ndx < end_ndx,
         start_ndx' = start_ndx + 1, end_ndx' = end_ndx, buf' = buf
  PROVE  Ring # <<>> /\ Ring \in Seq(Chars) /\ Head(Ring) = buf[start_ndx] /\ Ring' = Tail(Ring)
<1>1. start_ndx \in Nat /\ end_ndx \in Nat /\ BufLen' = BufLen - 1 /\ BufLen \in Nat \ {0}
  BY DEF TypeOK, Index, BufLen
<1>2. /\ Len(Ring) = BufLen /\ Ring \in Seq(Chars)
      /\ \A k \in 1 .. BufLen : Ring[k] = buf[start_ndx + k - 1]
  BY RingOf, <1>1
<1>3. Ring # <<>> /\ Head(Ring) = Ring[1] /\ Tail(Ring) = [k \in 1 .. BufLen - 1 |-> Ring[k + 1]]
  <2> DEFINE r == Ring
             n == BufLen
  <2>1. r \in Seq(Chars) /\ Len(r) = n /\ n \in Nat \ {0}
    BY <1>1, <1>2
  <2> HIDE DEF r, n
  <2>2. r # <<>> /\ Head(r) = r[1]
    BY <2>1, EmptySeq
  <2>3. /\ Tail(r) \in Seq(Chars) /\ Len(Tail(r)) = n - 1
        /\ \A k \in 1 .. n - 1 : Tail(r)[k] = r[k + 1]
    BY <2>1, <2>2, HeadTailProperties
  <2>4. Tail(r) = [k \in 1 .. n - 1 |-> r[k + 1]]
    <3> DEFINE u == Tail(r)
    <3>1. u \in Seq(Chars) /\ Len(u) = n - 1 /\ \A k \in 1 .. n - 1 : u[k] = r[k + 1]
      BY <2>3
    <3> HIDE DEF u
    <3>2. u = [k \in 1 .. n - 1 |-> u[k]]
      BY <3>1
    <3> QED BY <3>1, <3>2 DEF u
  <2> QED BY <2>2, <2>4 DEF r, n
<1>4. Ring[1] = buf[start_ndx]
  BY <1>1, <1>2
<1> DEFINE m == BufLen - 1
<1>5. Ring' = [k \in 1 .. m |-> buf[start_ndx + 1 + k - 1]]
  BY <1>1 DEF Ring
<1>6. \A k \in 1 .. m : Ring[k + 1] = buf[start_ndx + 1 + k - 1]
  BY <1>1, <1>2
<1> HIDE DEF m
<1>7. [k \in 1 .. m |-> Ring[k + 1]] = Ring'
  BY <1>5, <1>6
<1> QED BY <1>2, <1>3, <1>4, <1>7 DEF m
-------------------------------------------------------------------------------
(* The inductive invariant.                                                *)

LEMMA AtStart == Init => IInv
<1> SUFFICES ASSUME Init PROVE IInv
  OBVIOUS
<1>1. start_ndx = 0 /\ end_ndx = 0 /\ buf = [n \in 0 .. BUFLEN |-> "nul"] /\ pc = "idle" /\ want = 0
      /\ got = <<>> /\ typed = 0 /\ screen = <<>> /\ entered = <<>> /\ wrapped = FALSE
  BY DEF Init
<1>2. TypeOK
  BY <1>1, LineBufferAssumption DEF TypeOK, Index
<1>3. HistoryInv
  BY <1>1 DEF HistoryInv
<1>4. Len(Ring) = 0 /\ Ring \in Seq(Chars)
  BY <1>1, <1>2, RingOf DEF BufLen
<1>5. Ring = <<>>
  BY <1>4, EmptySeq
<1>6. RingInv
  BY <1>1, <1>5 DEF RingInv
<1> QED BY <1>2, <1>3, <1>6 DEF IInv

(* Every way to take characters away at the end backs up by some number of *)
(* characters, and by no more than there are, unless the indices have gone *)
(* round and their difference is negative.                                 *)
Backs ==
  /\ pc = "line"
  /\ \E n \in Nat : (n = 0 \/ n <= BufLen \/ BufLen < 0) /\ BackUp(n)
  /\ typed < MaxTyped /\ typed' = typed + 1
  /\ UNCHANGED <<start_ndx, buf, pc, want, got, entered, wrapped>>

LEMMA BackUpNone ==
  ASSUME TypeOK, HistoryInv, UNCHANGED <<end_ndx, screen>>
  PROVE  BackUp(0)
<1>1. (end_ndx - 0) % BUFLEN = end_ndx
  <2>1. BUFLEN \in Nat \ {0} /\ end_ndx \in 0 .. BUFLEN - 1 /\ end_ndx - 0 = end_ndx
    BY LineBufferAssumption DEF TypeOK, Index
  <2> QED BY <2>1, ModIndex
<1>2. SubSeq(screen, 1, Len(screen) - 0) = screen
  <2>1. screen \in Seq(Chars)
    BY DEF HistoryInv
  <2> QED BY <2>1
<1> QED BY <1>1, <1>2 DEF BackUp

LEMMA EditingBacks ==
  ASSUME TypeOK, HistoryInv, Erase \/ EraseWord \/ EraseLine
  PROVE  Backs
<1>1. start_ndx \in Int /\ end_ndx \in Int /\ BUFLEN \in Nat /\ BufLen \in Int
  BY LineBufferAssumption DEF TypeOK, Index, BufLen
<1>2. BufLen # 0 => BufLen < 0 \/ 1 <= BufLen
  BY <1>1
<1>3. ASSUME Erase PROVE Backs
  <2>1. CASE BufLen = 0
    <3>1. BackUp(0)
      BY <1>3, <2>1, BackUpNone DEF Erase
    <3> QED BY <1>3, <3>1 DEF Erase, Receive, Backs
  <2>2. CASE BufLen > 0
    BY <1>1, <1>3, <2>2 DEF Erase, Receive, Backs
  <2>3. CASE BufLen < 0
    BY <1>1, <1>3, <2>3 DEF Erase, Receive, Backs
  <2> QED BY <1>1, <2>1, <2>2, <2>3
<1>4. ASSUME EraseWord PROVE Backs
  <2>1. PICK n \in 0 .. BUFLEN :
          (\A k \in 0 .. n - 1 : BufLen - k > 0) /\ BackUp(n)
    BY <1>4 DEF EraseWord
  <2>2. n \in Nat /\ (n = 0 \/ n <= BufLen)
    <3>1. n # 0 => BufLen - (n - 1) > 0
      BY <1>1, <2>1
    <3> QED BY <1>1, <3>1
  <2> QED BY <1>4, <2>1, <2>2 DEF EraseWord, Receive, Backs
<1>5. ASSUME EraseLine PROVE Backs
  <2>1. BackUp(IF BufLen > 0 THEN BufLen ELSE 0)
    BY <1>5 DEF EraseLine
  <2>2. \E n \in Nat : (n = 0 \/ n <= BufLen \/ BufLen < 0) /\ BackUp(n)
    BY <1>1, <2>1
  <2> QED BY <1>5, <2>2 DEF EraseLine, Receive, Backs
<1> QED BY <1>3, <1>4, <1>5

LEMMA TypeStep ==
  ASSUME TypeOK, HistoryInv, Next
  PROVE  TypeOK'
<1>1. BUFLEN \in Nat \ {0, 1} /\ MaxTyped \in Nat
  BY LineBufferAssumption
<1>2. start_ndx \in Index /\ end_ndx \in Index /\ end_ndx \in 0 .. BUFLEN /\ IncNdx(end_ndx) \in 0 .. BUFLEN
  BY <1>1, IncOf DEF TypeOK, Index
<1>3. IncNdx(start_ndx) \in Index /\ IncNdx(end_ndx) \in Index
  BY <1>2, IncOf
<1>4. ASSUME NEW fd \in 0 .. 3, NEW n \in 0 .. 2, Read(fd, n) PROVE TypeOK'
  BY <1>4 DEF Read, TypeOK
<1>5. CASE CarriageReturn
  BY <1>1, <1>2, <1>3, <1>5 DEF CarriageReturn, Receive, Advance, TypeOK
<1>6. CASE Backs
  <2>1. PICK n \in Nat : BackUp(n)
    BY <1>6 DEF Backs
  <2>2. end_ndx' \in Index
    BY <2>1, BackOf DEF BackUp
  <2>3. typed' \in 0 .. MaxTyped
    BY <1>1, <1>6 DEF Backs, TypeOK
  <2> QED BY <1>6, <2>2, <2>3 DEF Backs, TypeOK
<1>7. ASSUME NEW c \in {"chr", "sp"}, Insert(c) PROVE TypeOK'
  <2>1. typed' \in 0 .. MaxTyped
    BY <1>1, <1>7 DEF Insert, Receive, TypeOK
  <2>2. buf' \in [0 .. BUFLEN -> {"nul", "chr", "sp", "nl"}] /\ end_ndx' \in Index /\ wrapped' \in BOOLEAN
    BY <1>2, <1>3, <1>7 DEF Insert, Advance, TypeOK
  <2> QED BY <1>7, <2>1, <2>2 DEF Insert, TypeOK
<1>8. CASE Copy
  BY <1>3, <1>8 DEF Copy, TypeOK
<1>9. CASE Return
  BY <1>9 DEF Return, TypeOK
<1> QED BY <1>4, <1>5, <1>6, <1>7, <1>8, <1>9, EditingBacks DEF Next

LEMMA HistoryStep ==
  ASSUME TypeOK, HistoryInv, Next
  PROVE  HistoryInv'
<1>1. screen \in Seq(Chars) /\ entered \in Seq(Chars) /\ got \in Seq(Chars)
  BY DEF HistoryInv
<1>2. "nl" \in Chars /\ "chr" \in Chars /\ "sp" \in Chars /\ <<>> \in Seq(Chars)
  BY DEF Chars
<1>3. ASSUME NEW fd \in 0 .. 3, NEW n \in 0 .. 2, Read(fd, n) PROVE HistoryInv'
  BY <1>1, <1>2, <1>3 DEF Read, HistoryInv
<1>4. CASE CarriageReturn
  <2>1. Append(screen, "nl") \in Seq(Chars)
    BY <1>1, <1>2, AppendProperties
  <2>2. entered \o Append(screen, "nl") \in Seq(Chars)
    BY <1>1, <2>1, ConcatProperties
  <2> QED BY <1>1, <1>2, <1>4, <2>2 DEF CarriageReturn, HistoryInv
<1>5. CASE Backs
  <2>1. PICK n \in Nat : BackUp(n)
    BY <1>5 DEF Backs
  <2>2. SubSeq(screen, 1, Len(screen) - n) \in Seq(Chars)
    BY <1>1
  <2> QED BY <1>1, <1>5, <2>1, <2>2 DEF Backs, BackUp, HistoryInv
<1>6. ASSUME NEW c \in {"chr", "sp"}, Insert(c) PROVE HistoryInv'
  <2>1. Append(screen, c) \in Seq(Chars)
    BY <1>1, <1>2, AppendProperties
  <2> QED BY <1>1, <1>6, <2>1 DEF Insert, HistoryInv
<1>7. CASE Copy
  <2>1. buf[start_ndx] \in Chars
    BY LineBufferAssumption DEF TypeOK, Index, Chars
  <2>2. Append(got, buf[start_ndx]) \in Seq(Chars)
    BY <1>1, <2>1, AppendProperties
  <2> QED BY <1>1, <1>7, <2>2 DEF Copy, HistoryInv
<1>8. CASE Return
  <2>1. SubSeq(entered, Len(got) + 1, Len(entered)) \in Seq(Chars)
    BY <1>1
  <2> QED BY <1>1, <1>8, <2>1 DEF Return, HistoryInv
<1> QED BY <1>3, <1>4, <1>5, <1>6, <1>7, <1>8, EditingBacks DEF Next

(* A character is put at the end, where there is room for it.              *)
LEMMA Advances ==
  ASSUME TypeOK, TypeOK', RingInv, Advance, ~wrapped', start_ndx' = start_ndx,
         NEW c \in Chars, buf'[end_ndx] = c, \A k \in 0 .. end_ndx - 1 : buf'[k] = buf[k]
  PROVE  ~wrapped /\ start_ndx' <= end_ndx' /\ Ring' = Append(Ring, c)
<1>1. ~wrapped /\ end_ndx' # 0 /\ end_ndx' = IncNdx(end_ndx)
  BY DEF Advance, TypeOK
<1>2. end_ndx \in Index /\ start_ndx \in Nat /\ end_ndx \in Nat
  BY LineBufferAssumption DEF TypeOK, Index
<1>3. end_ndx' = end_ndx + 1
  BY <1>1, <1>2, IncOf
<1>4. start_ndx <= end_ndx
  BY <1>1 DEF RingInv
<1>5. start_ndx' <= end_ndx'
  BY <1>2, <1>3, <1>4
<1> QED BY <1>1, <1>3, <1>4, <1>5, RingLonger

LEMMA RingStep ==
  ASSUME TypeOK, TypeOK', HistoryInv, RingInv, Next
  PROVE  RingInv'
<1>1. SUFFICES ASSUME ~wrapped' PROVE RingInv'
  BY DEF RingInv
<1>2. ~wrapped
  BY <1>1 DEF Next, Read, CarriageReturn, Erase, EraseWord, EraseLine, Insert, Copy, Return, Advance
<1>3. /\ start_ndx <= end_ndx
      /\ pc = "idle" => screen = <<>> /\ Ring = entered
      /\ pc = "line" => entered = <<>> /\ got = <<>> /\ Ring = screen
      /\ pc = "copy" => screen = <<>> /\ got \o Ring = entered
  BY <1>2 DEF RingInv
<1>4. screen \in Seq(Chars) /\ entered \in Seq(Chars) /\ got \in Seq(Chars)
  BY DEF HistoryInv
<1>5. start_ndx \in Index /\ end_ndx \in Index /\ start_ndx \in Nat /\ end_ndx \in Nat
      /\ BUFLEN \in Nat /\ start_ndx < BUFLEN /\ end_ndx < BUFLEN
  BY LineBufferAssumption DEF TypeOK, Index
<1>6. BufLen \in Nat /\ Len(Ring) = BufLen /\ Ring \in Seq(Chars)
  BY <1>3, RingOf
<1>7. UNCHANGED <<start_ndx, end_ndx, buf>> => Ring' = Ring
  BY DEF Ring, BufLen
<1>8. ASSUME NEW fd \in 0 .. 3, NEW n \in 0 .. 2, Read(fd, n) PROVE RingInv'
  <2>1. Ring' = Ring /\ pc = "idle" /\ got' = <<>>
    BY <1>7, <1>8 DEF Read
  <2>2. CASE start_ndx # end_ndx
    <3>1. <<>> \o entered = entered
      BY <1>4
    <3> QED BY <1>3, <1>8, <2>1, <2>2, <3>1 DEF Read, RingInv
  <2>3. CASE start_ndx = end_ndx
    <3>1. Ring = <<>>
      BY <1>5, <1>6, <2>3, EmptySeq DEF BufLen
    <3> QED BY <1>3, <1>8, <2>1, <2>3, <3>1 DEF Read, RingInv
  <2> QED BY <2>2, <2>3
<1>9. CASE CarriageReturn
  <2>1. pc = "line" /\ pc' = "copy" /\ screen' = <<>> /\ entered' = entered \o Append(screen, "nl") /\ got' = got
        /\ start_ndx' = start_ndx /\ Advance
    BY <1>9 DEF CarriageReturn, Receive
  <2>2. "nl" \in Chars /\ buf'[end_ndx] = "nl" /\ \A k \in 0 .. end_ndx - 1 : buf'[k] = buf[k]
    <3>1. buf' = [buf EXCEPT ![end_ndx] = "nl", ![IncNdx(end_ndx)] = "nul"]
      BY <1>9 DEF CarriageReturn
    <3>2. IncNdx(end_ndx) = end_ndx + 1
      BY <1>1, <1>5, <2>1, IncOf DEF Advance
    <3> QED BY <1>5, <3>1, <3>2 DEF TypeOK, Chars
  <2>3. start_ndx' <= end_ndx' /\ Ring' = Append(Ring, "nl")
    BY <1>1, <2>1, <2>2, Advances
  <2>4. got' \o Ring' = entered'
    <3>1. entered' = Append(screen, "nl")
      <4>1. Append(screen, "nl") \in Seq(Chars)
        BY <1>4, <2>2, AppendProperties
      <4> QED BY <1>3, <2>1, <4>1
    <3>2. <<>> \o Append(screen, "nl") = Append(screen, "nl")
      BY <1>4, <2>2, AppendProperties
    <3> QED BY <1>3, <2>1, <2>3, <3>1, <3>2
  <2> QED BY <2>1, <2>3, <2>4 DEF RingInv
<1>10. CASE Backs
  <2>1. PICK n \in Nat : (n = 0 \/ n <= BufLen \/ BufLen < 0) /\ BackUp(n)
    BY <1>10 DEF Backs
  <2>2. n \in 0 .. BufLen
    BY <1>6, <2>1
  <2>3. end_ndx' = end_ndx - n /\ screen' = SubSeq(screen, 1, Len(screen) - n)
    BY <2>1, <2>2, BackOf DEF BackUp
  <2>4. Ring' = SubSeq(Ring, 1, Len(Ring) - n)
    BY <1>3, <1>10, <2>2, <2>3, RingShorter DEF Backs
  <2>5. start_ndx' <= end_ndx'
    BY <1>5, <1>10, <2>2, <2>3 DEF Backs, BufLen
  <2> QED BY <1>3, <1>10, <2>3, <2>4, <2>5 DEF Backs, RingInv
<1>11. ASSUME NEW c \in {"chr", "sp"}, Insert(c) PROVE RingInv'
  <2>1. pc = "line" /\ pc' = pc /\ start_ndx' = start_ndx /\ entered' = entered /\ got' = got
    BY <1>11 DEF Insert, Receive
  <2>2. CASE UNCHANGED <<end_ndx, buf, screen, wrapped>>
    BY <1>3, <1>7, <2>1, <2>2 DEF RingInv
  <2>3. CASE buf' = [buf EXCEPT ![end_ndx] = c] /\ Advance /\ screen' = Append(screen, c)
    <3>1. c \in Chars /\ buf'[end_ndx] = c /\ \A k \in 0 .. end_ndx - 1 : buf'[k] = buf[k]
      BY <1>5, <2>3 DEF TypeOK, Chars
    <3>2. start_ndx' <= end_ndx' /\ Ring' = Append(Ring, c)
      BY <1>1, <2>1, <2>3, <3>1, Advances
    <3> QED BY <1>3, <2>1, <2>3, <3>2 DEF RingInv
  <2> QED BY <1>11, <2>2, <2>3 DEF Insert
<1>12. CASE Copy
  <2>1. /\ pc = "copy" /\ pc' = pc /\ BufLen > 0 /\ got' = Append(got, buf[start_ndx])
        /\ start_ndx' = IncNdx(start_ndx) /\ end_ndx' = end_ndx /\ buf' = buf
        /\ screen' = screen /\ entered' = entered
    BY <1>12 DEF Copy
  <2>2. start_ndx < end_ndx
    BY <1>5, <2>1 DEF BufLen
  <2>3. start_ndx' = start_ndx + 1 /\ start_ndx' <= end_ndx'
    BY <1>5, <2>1, <2>2, IncOf
  <2>4. Ring # <<>> /\ Head(Ring) = buf[start_ndx] /\ Ring' = Tail(Ring)
    BY <2>1, <2>2, <2>3, RingTaken
  <2>5. got' \o Ring' = got \o Ring
    <3> DEFINE r == Ring
    <3>1. r \in Seq(Chars) /\ r # <<>>
      BY <1>6, <2>4
    <3> HIDE DEF r
    <3>2. Append(got, Head(r)) \o Tail(r) = got \o r
      BY <1>4, <3>1
    <3> QED BY <2>1, <2>4, <3>2 DEF r
  <2> QED BY <1>3, <2>1, <2>3, <2>5 DEF RingInv
<1>13. CASE Return
  <2>1. pc = "copy" /\ pc' = "idle" /\ entered' = SubSeq(entered, Len(got) + 1, Len(entered))
        /\ screen' = screen /\ Ring' = Ring /\ start_ndx' = start_ndx /\ end_ndx' = end_ndx
    BY <1>7, <1>13 DEF Return
  <2>2. entered' = Ring
    <3> DEFINE r == Ring
    <3>1. r \in Seq(Chars) /\ entered = got \o r
      BY <1>3, <1>6, <2>1
    <3> HIDE DEF r
    <3>2. SubSeq(got \o r, Len(got) + 1, Len(got \o r)) = r
      BY <1>4, <3>1
    <3> QED BY <2>1, <3>1, <3>2 DEF r
  <2> QED BY <1>3, <2>1, <2>2 DEF RingInv
<1> QED BY <1>8, <1>9, <1>10, <1>11, <1>12, <1>13, EditingBacks DEF Next

LEMMA Inductive == Spec => []IInv
<1>1. Init => IInv
  BY AtStart
<1>2. IInv /\ Next => IInv'
  BY TypeStep, HistoryStep, RingStep DEF IInv
<1>3. ASSUME IInv, UNCHANGED vars PROVE IInv'
  <2>1. /\ start_ndx' = start_ndx /\ end_ndx' = end_ndx /\ buf' = buf /\ pc' = pc /\ want' = want /\ got' = got
        /\ typed' = typed /\ screen' = screen /\ entered' = entered /\ wrapped' = wrapped
    BY <1>3 DEF vars
  <2>2. TypeOK' /\ HistoryInv'
    BY <1>3, <2>1 DEF IInv, TypeOK, HistoryInv
  <2>3. Ring' = Ring
    BY <2>1 DEF Ring, BufLen
  <2> QED BY <1>3, <2>1, <2>2, <2>3 DEF IInv, RingInv
<1> QED BY <1>1, <1>2, <1>3, PTL DEF Spec
-------------------------------------------------------------------------------
(* The theorems.                                                           *)

(* The indices of the ring never leave it, whatever is typed, however much *)
(* of it, and however often they go round its end.                         *)
THEOREM TypeCorrect == Spec => []TypeOK
<1>1. IInv => TypeOK
  BY DEF IInv
<1> QED BY <1>1, Inductive, PTL

(* Until the indices go round the end of the ring, what is in the ring is  *)
(* what the terminal shows after the lines that have been entered.         *)
THEOREM RingCorrect == Spec => []RingIsWhatYouSee
<1>1. IInv => RingIsWhatYouSee
  <2> SUFFICES ASSUME IInv, ~wrapped, pc # "copy" PROVE Ring = entered \o screen
    BY DEF RingIsWhatYouSee
  <2>1. screen \in Seq(Chars) /\ entered \in Seq(Chars)
    BY DEF IInv, HistoryInv
  <2>2. <<>> \o screen = screen /\ entered \o <<>> = entered
    BY <2>1
  <2>3. pc = "idle" \/ pc = "line"
    BY DEF IInv, TypeOK
  <2> QED BY <2>2, <2>3 DEF IInv, RingInv
<1> QED BY <1>1, Inductive, PTL

(* Until then _read() hands over the characters of entered lines in order, *)
(* once each, with the line editing done.                                  *)
THEOREM ReadsCorrect == Spec => []ReadsWhatWasEntered
<1>1. IInv => ReadsWhatWasEntered
  <2> SUFFICES ASSUME IInv, ~wrapped, pc = "copy"
               PROVE  got = SubSeq(entered, 1, Len(got)) /\ Len(got) <= Len(entered)
    BY DEF ReadsWhatWasEntered
  <2> DEFINE r == Ring
  <2>1. got \in Seq(Chars) /\ r \in Seq(Chars) /\ entered = got \o r
    BY RingOf DEF IInv, HistoryInv, RingInv
  <2> HIDE DEF r
  <2>2. SubSeq(got \o r, 1, Len(got)) = got /\ Len(got) <= Len(got \o r)
    BY <2>1
  <2> QED BY <2>1, <2>2
<1> QED BY <1>1, Inductive, PTL
===============================================================================
