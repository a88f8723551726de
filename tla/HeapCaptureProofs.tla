--------------------------- MODULE HeapCaptureProofs ---------------------------
(***************************************************************************)
(* Proofs about HeapCapture, for every capture of every length over every  *)
(* set of addresses and sizes: packets that no device would send included. *)
(* The module begins with what the community modules' SumFunction() sums,  *)
(* which HeapProfileProofs needs as well.                                  *)
(***************************************************************************)
EXTENDS HeapCapture, FiniteSetTheorems, TLAPS
-------------------------------------------------------------------------------
(* Sums.  SumFunction() folds over the domain of a function, taking its    *)
(* elements in an order that CHOOSE picks.  That the order is irrelevant,  *)
(* and that the fold is defined at all, is shown with a smallest           *)
(* counterexample: a non-empty set of numbers has a least element.         *)

LEMMA LeastNumber ==
  ASSUME NEW T \in SUBSET Nat, T # {}
  PROVE  \E m \in T : \A n \in T : m <= n
<1> DEFINE R == OpToRel(<, Nat)
<1>1. IsWellFoundedOn(R, Nat)
  BY NatLessThanWellFounded
<1> HIDE DEF R
<1>2. PICK m \in T : \A n \in T : ~(<<n, m>> \in R)
  BY <1>1, WFMin
<1>3. ASSUME NEW n \in T, n < m PROVE FALSE
  <2>1. <<n, m>> \in R
    BY <1>3 DEF R, OpToRel
  <2> QED BY <2>1, <1>2
<1> QED BY <1>2, <1>3

LEMMA SmallestSet ==
  ASSUME NEW D, IsFiniteSet(D), NEW T \in SUBSET SUBSET D, T # {}
  PROVE  \E s \in T : \A t \in T : Cardinality(s) <= Cardinality(t)
<1> DEFINE N == {Cardinality(s) : s \in T}
<1>1. N \in SUBSET Nat /\ N # {}
  BY FS_Subset, FS_CardinalityType
<1>2. PICK m \in N : \A n \in N : m <= n
  BY <1>1, LeastNumber
<1> QED BY <1>2

LEMMA OneLess ==
  ASSUME NEW D, IsFiniteSet(D), NEW s \in SUBSET D, NEW x \in s
  PROVE  /\ s \ {x} \in SUBSET D /\ Cardinality(s) \in Nat \ {0} /\ Cardinality(s \ {x}) \in Nat
         /\ Cardinality(s \ {x}) = Cardinality(s) - 1
<1>1. IsFiniteSet(s)
  BY FS_Subset
<1>2. Cardinality(s) \in Nat /\ Cardinality(s) # 0
  BY <1>1, FS_CardinalityType, FS_EmptySet
<1>3. Cardinality(s \ {x}) = Cardinality(s) - 1
  BY <1>1, FS_RemoveElement
<1> QED BY <1>2, <1>3

Taken(s) == CHOOSE x \in s : TRUE

(* g gives the sums of f over the sets in P, a set of finite sets.         *)
SumOf(g, f, s) == IF s = {} THEN 0 ELSE f[Taken(s)] + g[s \ {Taken(s)}]

Sums(g, f, P) == g = [s \in P |-> SumOf(g, f, s)]

AllSums(g, f, D) == Sums(g, f, SUBSET D)

(* Taking a out of s first gives the same sum.                             *)
TakenOut(g, f, s, a) == g[s] = f[a] + g[s \ {a}]

LEMMA SumsValue ==
  ASSUME NEW g, NEW f, NEW P, Sums(g, f, P), NEW s \in P
  PROVE  g[s] = SumOf(g, f, s)
BY DEF Sums

LEMMA AllSumsValue ==
  ASSUME NEW g, NEW f, NEW D, AllSums(g, f, D), NEW s \in SUBSET D
  PROVE  g[s] = SumOf(g, f, s)
<1> DEFINE P == SUBSET D
<1>1. s \in P /\ Sums(g, f, P)
  BY DEF AllSums
<1> HIDE DEF P
<1> QED BY <1>1, SumsValue

LEMMA AnyIn ==
  ASSUME NEW s, s # {}
  PROVE  Taken(s) \in s
BY DEF Taken

LEMMA SumsExist ==
  ASSUME NEW f, NEW D, IsFiniteSet(D)
  PROVE  \E g : AllSums(g, f, D)
<1> DEFINE Upto(n) == {s \in SUBSET D : Cardinality(s) <= n}
           T       == {n \in Nat : ~ \E g : Sums(g, f, Upto(n))}
<1>1. SUFFICES ASSUME T # {} PROVE FALSE
  <2>1. Cardinality(D) \in Nat /\ Upto(Cardinality(D)) = SUBSET D
    BY FS_CardinalityType, FS_Subset
  <2> HIDE DEF Upto
  <2> QED BY <2>1 DEF AllSums
<1>2. PICK m \in T : \A n \in T : m <= n
  BY <1>1, LeastNumber
<1>3. m # 0
  <2>1. \A s \in Upto(0) : s = {}
    <3> TAKE s \in Upto(0)
    <3>1. IsFiniteSet(s) /\ Cardinality(s) <= 0
      BY FS_Subset
    <3>2. Cardinality(s) \in Nat
      BY <3>1, FS_CardinalityType
    <3> QED BY <3>1, <3>2, FS_EmptySet
  <2> DEFINE P == Upto(0)
             g == [s \in P |-> 0]
  <2>2. \A s \in P : s = {}
    BY <2>1
  <2> HIDE DEF P
  <2>3. Sums(g, f, P)
    BY <2>2 DEF Sums, SumOf
  <2> QED BY <2>3, <1>2 DEF P
<1>4. m \in Nat /\ m - 1 \in Nat /\ m - 1 \notin T
  <2>1. m \in Nat
    BY <1>2
  <2>2. m - 1 \in Nat /\ ~(m <= m - 1)
    BY <2>1, <1>3
  <2>3. m - 1 \in T => m <= m - 1
    <3> HIDE DEF T
    <3> QED BY <1>2
  <2> QED BY <2>1, <2>2, <2>3
<1>5. PICK h : Sums(h, f, Upto(m - 1))
  BY <1>4
<1> DEFINE P        == Upto(m)
           Q        == Upto(m - 1)
           e(k, s)  == SumOf(k, f, s)
           g        == [s \in P |-> IF s \in Q THEN h[s] ELSE e(h, s)]
<1>6. \A s \in P : s # {} => s \ {Taken(s)} \in Q
  <2> TAKE s \in P
  <2> HAVE s # {}
  <2>1. Taken(s) \in s
    BY AnyIn
  <2>2. s \ {Taken(s)} \in SUBSET D /\ Cardinality(s \ {Taken(s)}) = Cardinality(s) - 1 /\ Cardinality(s) \in Nat
    BY <2>1, OneLess
  <2> QED BY <2>2, <1>4
<1>7. Q \subseteq P
  <2> SUFFICES ASSUME NEW s \in Q PROVE s \in P
    OBVIOUS
  <2>1. Cardinality(s) \in Nat
    BY FS_Subset, FS_CardinalityType
  <2> QED BY <2>1, <1>4
<1>8. Sums(h, f, Q)
  BY <1>5
<1> HIDE DEF P, Q
<1>9. ASSUME NEW s \in P PROVE g[s] = e(g, s)
  <2>1. s # {} => g[s \ {Taken(s)}] = h[s \ {Taken(s)}]
    BY <1>6, <1>7
  <2>2. e(g, s) = e(h, s)
    BY <2>1 DEF SumOf
  <2>3. g[s] = e(h, s)
    <3>1. CASE s \in Q
      BY <1>8, <3>1, SumsValue
    <3>2. CASE s \notin Q
      BY <3>2
    <3> QED BY <3>1, <3>2
  <2> QED BY <2>2, <2>3
<1>10. Sums(g, f, P)
  <2>1. g = [s \in P |-> g[s]]
    OBVIOUS
  <2> HIDE DEF g
  <2>2. g = [s \in P |-> e(g, s)]
    <3> HIDE DEF e
    <3> QED BY <2>1, <1>9
  <2> QED BY <2>2 DEF Sums, SumOf
<1> QED BY <1>10, <1>2 DEF P

(* Any element may be taken first.                                         *)
LEMMA SumsOf ==
  ASSUME NEW D, IsFiniteSet(D), NEW f \in [D -> Int], NEW g, AllSums(g, f, D)
  PROVE  /\ \A s \in SUBSET D : g[s] \in Int
         /\ \A s \in SUBSET D : \A a \in s : TakenOut(g, f, s, a)
<1>1. \A s \in SUBSET D : g[s] \in Int
  <2> DEFINE T == {s \in SUBSET D : g[s] \notin Int}
  <2>1. SUFFICES ASSUME T # {} PROVE FALSE
    OBVIOUS
  <2>2. PICK s \in T : \A t \in T : Cardinality(s) <= Cardinality(t)
    BY <2>1, SmallestSet
  <2>3. s # {}
    <3>1. s \in SUBSET D /\ g[s] \notin Int
      BY <2>2
    <3> HIDE DEF T
    <3>2. g[s] = SumOf(g, f, s)
      BY <3>1, AllSumsValue
    <3> QED BY <3>1, <3>2 DEF SumOf
  <2>4. Taken(s) \in s
    BY <2>3, AnyIn
  <2>5. /\ s \ {Taken(s)} \in SUBSET D /\ Cardinality(s) \in Nat
        /\ Cardinality(s \ {Taken(s)}) = Cardinality(s) - 1
    BY <2>4, OneLess
  <2>6. g[s \ {Taken(s)}] \in Int
    BY <2>2, <2>5
  <2>7. g[s] = f[Taken(s)] + g[s \ {Taken(s)}]
    BY <2>3, AllSumsValue DEF SumOf
  <2> QED BY <2>4, <2>6, <2>7
<1>2. \A s \in SUBSET D : \A a \in s : TakenOut(g, f, s, a)
  <2> DEFINE T == {s \in SUBSET D : \E a \in s : g[s] # f[a] + g[s \ {a}]}
  <2>1. SUFFICES ASSUME T # {} PROVE FALSE
    BY DEF TakenOut
  <2>2. PICK s \in T : \A t \in T : Cardinality(s) <= Cardinality(t)
    BY <2>1, SmallestSet
  <2>3. PICK a \in s : g[s] # f[a] + g[s \ {a}]
    OBVIOUS
  <2> DEFINE c == Taken(s)
  <2>4. c \in s /\ g[s] = f[c] + g[s \ {c}]
    <3>1. Taken(s) \in s
      BY AnyIn
    <3> QED BY <3>1, AllSumsValue DEF SumOf
  <2> HIDE DEF c
  <2>5. a # c
    BY <2>3, <2>4
  <2>6. /\ s \ {c} \in SUBSET D /\ Cardinality(s) \in Nat /\ Cardinality(s \ {c}) = Cardinality(s) - 1
        /\ s \ {a} \in SUBSET D /\ Cardinality(s \ {a}) = Cardinality(s) - 1
    BY <2>4, OneLess
  <2>7. s \ {c} \notin T /\ s \ {a} \notin T
    BY <2>2, <2>6
  <2>8. g[s \ {c}] = f[a] + g[(s \ {c}) \ {a}] /\ g[s \ {a}] = f[c] + g[(s \ {a}) \ {c}]
    BY <2>3, <2>4, <2>5, <2>6, <2>7
  <2>9. (s \ {c}) \ {a} = (s \ {a}) \ {c} /\ (s \ {c}) \ {a} \in SUBSET D
    OBVIOUS
  <2>10. g[(s \ {c}) \ {a}] \in Int /\ f[a] \in Int /\ f[c] \in Int
    BY <1>1, <2>4, <2>9
  <2>11. g[s] = f[a] + g[s \ {a}]
    <3> DEFINE y == g[(s \ {c}) \ {a}]
               fa == f[a]
               fc == f[c]
    <3>1. y \in Int /\ fa \in Int /\ fc \in Int
      BY <2>10
    <3>2. g[s \ {c}] = fa + y /\ g[s] = fc + g[s \ {c}]
      BY <2>4, <2>8
    <3>3. g[s \ {a}] = fc + y
      BY <2>8, <2>9
    <3> HIDE DEF y, fa, fc
    <3>4. g[s] = fa + (fc + y)
      BY <3>1, <3>2
    <3> QED BY <3>3, <3>4 DEF fa
  <2> QED BY <2>3, <2>11
<1> QED BY <1>1, <1>2

AgreeOn(f, e, E) == \A x \in E : f[x] = e[x]

LEMMA SumsAgree ==
  ASSUME NEW D, IsFiniteSet(D), NEW E \in SUBSET D, NEW f, NEW e, AgreeOn(f, e, E),
         NEW g, NEW h, AllSums(g, f, D), AllSums(h, e, E)
  PROVE  AgreeOn(g, h, SUBSET E)
<1> DEFINE T == {s \in SUBSET E : g[s] # h[s]}
<1>1. SUFFICES ASSUME T # {} PROVE FALSE
  BY DEF AgreeOn
<1>2. T \in SUBSET SUBSET D
  OBVIOUS
<1>3. PICK s \in T : \A t \in T : Cardinality(s) <= Cardinality(t)
  BY <1>1, <1>2, SmallestSet
<1>4. s \in SUBSET D /\ s \in SUBSET E
  OBVIOUS
<1> HIDE DEF T
<1>5. g[s] = SumOf(g, f, s)
  BY <1>4, AllSumsValue
<1>6. h[s] = SumOf(h, e, s)
  BY <1>4, AllSumsValue
<1>7. s # {}
  BY <1>3, <1>5, <1>6 DEF T, SumOf
<1>8. Taken(s) \in s
  BY <1>7, AnyIn
<1>9. /\ s \ {Taken(s)} \in SUBSET D /\ Cardinality(s) \in Nat
      /\ Cardinality(s \ {Taken(s)}) = Cardinality(s) - 1
  BY <1>4, <1>8, OneLess
<1>10. s \ {Taken(s)} \notin T
  BY <1>3, <1>9
<1>11. g[s \ {Taken(s)}] = h[s \ {Taken(s)}]
  BY <1>4, <1>10 DEF T
<1> QED BY <1>3, <1>4, <1>5, <1>6, <1>7, <1>8, <1>11 DEF T, SumOf, AgreeOn

LEMMA SumFunctionIs ==
  ASSUME NEW D, IsFiniteSet(D), NEW f \in [D -> Int]
  PROVE  \E g : AllSums(g, f, D) /\ SumFunction(f) = g[D]
<1> DEFINE g == CHOOSE h : AllSums(h, f, D)
<1>1. AllSums(g, f, D)
  BY SumsExist
<1>2. SumFunction(f) = g[D]
  BY DEF SumFunction, SumFunctionOnSet, FoldFunctionOnSet, MapThenFoldSet, AllSums, Sums, SumOf, Taken
<1> QED BY <1>1, <1>2

LEMMA SumWithout ==
  ASSUME NEW D, IsFiniteSet(D), NEW f \in [D -> Int]
  PROVE  /\ SumFunction(f) \in Int
         /\ D = {} => SumFunction(f) = 0
         /\ \A a \in D : SumFunction(f) = f[a] + SumFunction([x \in D \ {a} |-> f[x]])
<1>1. PICK g : AllSums(g, f, D) /\ SumFunction(f) = g[D]
  BY SumFunctionIs
<1>2. D \in SUBSET D
  OBVIOUS
<1>3. SumFunction(f) \in Int
  BY <1>1, <1>2, SumsOf
<1>4. D = {} => SumFunction(f) = 0
  BY <1>1, <1>2, AllSumsValue DEF SumOf
<1>5. ASSUME NEW a \in D PROVE SumFunction(f) = f[a] + SumFunction([x \in D \ {a} |-> f[x]])
  <2> DEFINE E == D \ {a}
             e == [x \in E |-> f[x]]
  <2>1. IsFiniteSet(E)
    BY FS_RemoveElement
  <2>2. e \in [E -> Int] /\ E \in SUBSET D /\ \A x \in E : f[x] = e[x]
    OBVIOUS
  <2> HIDE DEF e
  <2>3. PICK h : AllSums(h, e, E) /\ SumFunction(e) = h[E]
    BY <2>1, <2>2, SumFunctionIs
  <2>4. AgreeOn(g, h, SUBSET E)
    <3>1. E \in SUBSET D /\ AgreeOn(f, e, E)
      BY <2>2 DEF AgreeOn
    <3>2. AllSums(g, f, D) /\ AllSums(h, e, E)
      BY <1>1, <2>3
    <3> HIDE DEF E
    <3> QED BY <3>1, <3>2, SumsAgree
  <2>5. g[E] = h[E]
    BY <2>4 DEF AgreeOn
  <2>6. g[D] = f[a] + g[E]
    <3> DEFINE All == \A s \in SUBSET D : \A b \in s : TakenOut(g, f, s, b)
    <3>0. AllSums(g, f, D)
      BY <1>1
    <3>1. All
      BY <3>0, SumsOf
    <3> QED BY <3>1, <1>2 DEF TakenOut
  <2> QED BY <1>1, <2>3, <2>5, <2>6 DEF e
<1> QED BY <1>3, <1>4, <1>5
-------------------------------------------------------------------------------
(* The bytes of a map from addresses to sizes.                             *)
Keys(f) == {x \in Addr : f[x] # None}

Map(f) == f \in [Addr -> Nat \cup {None}] /\ IsFiniteSet(Keys(f))

SizeIn(f, a) == IF f[a] = None THEN 0 ELSE f[a]

LEMMA BytesWithout ==
  ASSUME NEW f, Map(f), NEW a \in Keys(f)
  PROVE  /\ BytesOf(f) \in Int /\ BytesOf([f EXCEPT ![a] = None]) \in Int
         /\ BytesOf(f) = f[a] + BytesOf([f EXCEPT ![a] = None])
         /\ Map([f EXCEPT ![a] = None])
<1> DEFINE D == Keys(f)
           E == Keys([f EXCEPT ![a] = None])
           sizes == [x \in D |-> f[x]]
           left  == [x \in D \ {a} |-> sizes[x]]
<1>1. IsFiniteSet(D) /\ sizes \in [D -> Int] /\ a \in D
  BY DEF Map, Keys
<1>2. E = D \ {a}
  BY DEF Map, Keys
<1>3. BytesOf(f) = SumFunction(sizes)
  BY DEF BytesOf, Keys
<1>4. BytesOf([f EXCEPT ![a] = None]) = SumFunction(left)
  <2>1. [x \in E |-> [f EXCEPT ![a] = None][x]] = left
    <3>1. \A x \in E : [f EXCEPT ![a] = None][x] = left[x]
      BY <1>2 DEF Map, Keys
    <3> QED BY <1>2, <3>1
  <2> HIDE DEF left
  <2> QED BY <2>1 DEF BytesOf, Keys
<1>5. SumFunction(sizes) \in Int /\ SumFunction(sizes) = sizes[a] + SumFunction(left)
  <2> HIDE DEF D
  <2> HIDE DEF sizes
  <2> QED BY <1>1, SumWithout
<1>6. IsFiniteSet(D \ {a}) /\ left \in [D \ {a} -> Int]
  <2>1. left \in [D \ {a} -> Int]
    BY <1>1
  <2> QED BY <1>1, <2>1, FS_RemoveElement
<1>7. SumFunction(left) \in Int
  <2> DEFINE F == D \ {a}
  <2>1. IsFiniteSet(F) /\ left \in [F -> Int]
    BY <1>6
  <2> HIDE DEF left, F
  <2> QED BY <2>1, SumWithout
<1>8. Map([f EXCEPT ![a] = None])
  BY <1>2, <1>6 DEF Map
<1> QED BY <1>1, <1>3, <1>4, <1>5, <1>7, <1>8

LEMMA BytesOfNothing ==
  /\ Map([a \in Addr |-> None])
  /\ BytesOf([a \in Addr |-> None]) = 0
<1> DEFINE f == [a \in Addr |-> None]
           D == {}
           sizes == [x \in D |-> f[x]]
<1>1. Keys(f) = {}
  BY DEF Keys
<1>2. IsFiniteSet(D) /\ sizes \in [D -> Int] /\ D = {}
  BY FS_EmptySet
<1>3. SumFunction(sizes) = 0
  <2> HIDE DEF D, sizes
  <2> QED BY <1>2, SumWithout
<1>4. BytesOf(f) = SumFunction(sizes)
  BY <1>1 DEF BytesOf, Keys
<1> QED BY <1>1, <1>2, <1>3, <1>4 DEF Map

LEMMA BytesDropped ==
  ASSUME NEW f, Map(f), NEW a \in Addr
  PROVE  /\ Map([f EXCEPT ![a] = None])
         /\ SizeIn(f, a) \in Nat /\ BytesOf(f) \in Int
         /\ BytesOf([f EXCEPT ![a] = None]) = BytesOf(f) - SizeIn(f, a)
<1>1. f \in [Addr -> Nat \cup {None}]
  BY DEF Map
<1>2. BytesOf(f) \in Int
  <2>1. CASE Keys(f) = {}
    <3>1. f = [x \in Addr |-> None]
      BY <1>1, <2>1 DEF Keys
    <3> QED BY <3>1, BytesOfNothing
  <2>2. CASE Keys(f) # {}
    BY <2>2, BytesWithout
  <2> QED BY <2>1, <2>2
<1>3. CASE f[a] = None
  <2>1. [f EXCEPT ![a] = None] = f /\ SizeIn(f, a) = 0
    BY <1>1, <1>3 DEF SizeIn
  <2> QED BY <1>2, <2>1
<1>4. CASE f[a] # None
  <2>1. a \in Keys(f) /\ SizeIn(f, a) = f[a] /\ f[a] \in Nat
    BY <1>1, <1>4 DEF SizeIn, Keys
  <2> DEFINE g == [f EXCEPT ![a] = None]
  <2>2. /\ Map(g) /\ BytesOf(g) \in Int
        /\ BytesOf(f) = f[a] + BytesOf(g)
    BY <2>1, BytesWithout
  <2> HIDE DEF g
  <2>3. BytesOf(g) = BytesOf(f) - SizeIn(f, a)
    BY <1>2, <2>1, <2>2
  <2> QED BY <1>2, <2>1, <2>2, <2>3 DEF g
<1> QED BY <1>3, <1>4

LEMMA BytesPut ==
  ASSUME NEW f, Map(f), NEW a \in Addr, NEW n \in Nat
  PROVE  /\ Map([f EXCEPT ![a] = n])
         /\ BytesOf([f EXCEPT ![a] = n]) = BytesOf(f) + n - SizeIn(f, a)
<1> DEFINE g == [f EXCEPT ![a] = None]
           h == [f EXCEPT ![a] = n]
<1>1. f \in [Addr -> Nat \cup {None}]
  BY DEF Map
<1>2. /\ Map(g) /\ SizeIn(f, a) \in Nat /\ BytesOf(f) \in Int
      /\ BytesOf(g) = BytesOf(f) - SizeIn(f, a)
  BY BytesDropped
<1>3. [h EXCEPT ![a] = None] = g /\ h[a] = n /\ a \in Keys(h)
  <2>1. [h EXCEPT ![a] = None] = g
    BY <1>1
  <2>2. h[a] = n
    BY <1>1
  <2>3. n # None
    BY HeapNames
  <2> HIDE DEF h, g
  <2> QED BY <2>1, <2>2, <2>3 DEF Keys
<1>4. Map(h)
  <2>1. Keys(h) = Keys(f) \cup {a}
    BY <1>1, HeapNames DEF Keys
  <2>2. IsFiniteSet(Keys(f) \cup {a})
    BY FS_AddElement DEF Map
  <2>3. h \in [Addr -> Nat \cup {None}]
    BY <1>1
  <2> QED BY <2>1, <2>2, <2>3 DEF Map
<1> HIDE DEF g, h
<1>5. BytesOf(h) = h[a] + BytesOf([h EXCEPT ![a] = None]) /\ BytesOf(h) \in Int
  BY <1>3, <1>4, BytesWithout
<1>6. BytesOf(h) = n + BytesOf(g)
  BY <1>3, <1>5
<1>7. BytesOf(h) = BytesOf(f) + n - SizeIn(f, a)
  BY <1>2, <1>6
<1> QED BY <1>4, <1>7 DEF h
-------------------------------------------------------------------------------
(* The inductive invariant adds to the property the type of the state and  *)
(* that the dict stays finite: a sum over infinitely many blocks is none.  *)
TypesOK ==
  /\ packets \in Seq(AnyPacket)
  /\ pos \in 0 .. Len(packets)
  /\ total \in Int /\ peak \in Int

IInv == TypesOK /\ Map(memmap) /\ TotalCoversDict

(* A moved or reallocated block may have replaced another one.             *)
MayReplace(k) == k.tag = "Realloc" /\ k.new \notin {Null, k.old}

(* What the body of the loop does with a packet: the dict becomes m and    *)
(* the total n, which exceeds the bytes of m by at least as much as before *)
(* and by more only if the packet may have replaced a block.               *)
LEMMA AccountPreserves ==
  ASSUME IInv, UNCHANGED <<packets, partial>>, pos < Len(packets),
         NEW m, NEW n \in Int, Account(m, n), Map(m), BytesOf(m) \in Int,
         total - BytesOf(memmap) <= n - BytesOf(m),
         \/ total - BytesOf(memmap) = n - BytesOf(m)
         \/ MayReplace(packets[pos + 1])
  PROVE  IInv'
<1>1. /\ pos' = pos + 1 /\ memmap' = m /\ total' = n /\ packets' = packets
      /\ peak' = IF n > peak THEN n ELSE peak
  BY DEF Account
<1>2. /\ packets \in Seq(AnyPacket) /\ pos \in 0 .. Len(packets) /\ Len(packets) \in Nat
      /\ total \in Int /\ peak \in Int
  BY DEF IInv, TypesOK
<1>3. TypesOK'
  BY <1>1, <1>2 DEF TypesOK
<1>4. Map(memmap')
  BY <1>1
<1> DEFINE b  == BytesOf(memmap)
           c  == BytesOf(m)
           Over(q) == \E j \in 1 .. q : MayReplace(packets[j])
<1>5. b \in Int /\ c \in Int /\ b <= total /\ total <= peak /\ (total > b => Over(pos))
  <2>1. b \in Int
    <3>1. CASE Addr = {}
      <4>1. memmap = [a \in Addr |-> None]
        BY <3>1 DEF IInv, Map
      <4> QED BY <4>1, BytesOfNothing
    <3>2. CASE Addr # {}
      BY <3>2, BytesDropped DEF IInv
    <3> QED BY <3>1, <3>2
  <2> QED BY <2>1 DEF IInv, TotalCoversDict, MayReplace
<1>6. Over(pos) => Over(pos + 1)
  BY <1>2
<1>7. MayReplace(packets[pos + 1]) => Over(pos + 1)
  BY <1>2
<1> HIDE DEF b, c, Over
<1>8. c <= n /\ n <= peak' /\ (n > c => Over(pos + 1))
  <2>1. total - b <= n - c /\ (total - b = n - c \/ MayReplace(packets[pos + 1]))
    BY DEF b, c
  <2>2. c <= n /\ n <= peak'
    BY <2>1, <1>1, <1>2, <1>5
  <2>3. n > c => Over(pos + 1)
    BY <2>1, <1>2, <1>5, <1>6, <1>7
  <2> QED BY <2>2, <2>3
<1>9. TotalCoversDict'
  <2>1. BytesOf(memmap') = c
    BY <1>1 DEF c
  <2> QED BY <2>1, <1>1, <1>8 DEF TotalCoversDict, Over, MayReplace
<1> QED BY <1>3, <1>4, <1>9 DEF IInv

(* A packet that is skipped, and the steps between packets.                *)
LEMMA OtherPreserves ==
  ASSUME IInv, UNCHANGED <<packets, partial, memmap, total, peak>>,
         pos' \in {pos, pos + 1}, pos' <= Len(packets)
  PROVE  IInv'
<1>1. packets' = packets /\ memmap' = memmap /\ total' = total /\ peak' = peak
  OBVIOUS
<1>2. TypesOK'
  BY <1>1 DEF IInv, TypesOK
<1>3. Map(memmap)'
  BY <1>1 DEF IInv, Map, Keys
<1>4. 1 .. pos \subseteq 1 .. pos'
  BY DEF IInv, TypesOK
<1>5. TotalCoversDict'
  BY <1>1, <1>4 DEF IInv, TotalCoversDict, BytesOf
<1> QED BY <1>2, <1>3, <1>5 DEF IInv

(* The packet to be replayed.                                              *)
LEMMA NextPacket ==
  ASSUME IInv, pos < Len(packets)
  PROVE  /\ Cur \in AnyPacket
         /\ Cur.old \in Addr \cup {Null} /\ Cur.new \in Addr \cup {Null} /\ Cur.size \in Nat
         /\ pos + 1 \in {pos, pos + 1} /\ pos + 1 <= Len(packets)
<1>1. pos + 1 \in 1 .. Len(packets) /\ packets \in Seq(AnyPacket)
  BY DEF IInv, TypesOK
<1>2. packets[pos + 1] \in AnyPacket
  BY <1>1
<1> DEFINE k == packets[pos + 1]
<1>3. Sizes \subseteq Nat
  BY CaptureAssumption
<1> HIDE DEF k
<1>4. k \in AnyPacket
  BY <1>2 DEF k
<1>5. k.old \in Place /\ k.new \in Place /\ k.size \in Nat
  <2>1. CASE k \in [tag : {"Malloc"}, old : {Null}, new : Place, size : Sizes]
    BY <1>3, <2>1 DEF Place
  <2>2. CASE k \in [tag : {"Realloc"}, old : Place, new : Place, size : Sizes]
    BY <1>3, <2>2
  <2>3. CASE k \in [tag : {"Free"}, old : Place, new : {Null}, size : {0}]
    BY <2>3 DEF Place
  <2>4. CASE k \in [tag : {"other"}, old : {Null}, new : {Null}, size : {0}]
    BY <2>4 DEF Place
  <2> QED BY <1>4, <2>1, <2>2, <2>3, <2>4 DEF AnyPacket
<1> QED BY <1>1, <1>4, <1>5 DEF k, Cur, Place

(* A block of n bytes is put at a, where there may be one.                 *)
LEMMA PutPreserves ==
  ASSUME IInv, UNCHANGED <<packets, partial>>, pos < Len(packets),
         NEW a \in Addr, NEW n \in Nat,
         Account([memmap EXCEPT ![a] = n], total + n),
         memmap[a] = None \/ MayReplace(packets[pos + 1])
  PROVE  IInv'
<1> DEFINE m == [memmap EXCEPT ![a] = n]
<1>1. Map(memmap) /\ total \in Int
  BY DEF IInv, TypesOK
<1>2. SizeIn(memmap, a) \in Nat /\ BytesOf(memmap) \in Int
  BY <1>1, BytesDropped
<1>3. Map(m) /\ BytesOf(m) = BytesOf(memmap) + n - SizeIn(memmap, a)
  BY <1>1, BytesPut
<1> DEFINE b == BytesOf(memmap)
           s == SizeIn(memmap, a)
           c == BytesOf(m)
<1>4. memmap[a] = None => s = 0
  BY DEF SizeIn
<1>5. Account(m, total + n) /\ total + n \in Int
  BY <1>1
<1>6. s \in Nat /\ b \in Int /\ c = b + n - s
  BY <1>2, <1>3
<1> HIDE DEF b, s, c
<1>7. c \in Int /\ total - b <= (total + n) - c /\ (s = 0 => total - b = (total + n) - c)
  BY <1>1, <1>6
<1> HIDE DEF m
<1> QED BY <1>3, <1>4, <1>5, <1>7, AccountPreserves DEF b, c

(* The block at a is taken out of the dict.                                *)
LEMMA DropPreserves ==
  ASSUME IInv, UNCHANGED <<packets, partial>>, pos < Len(packets),
         NEW a \in Addr, memmap[a] # None,
         Account([memmap EXCEPT ![a] = None], total - memmap[a])
  PROVE  IInv'
<1> DEFINE m == [memmap EXCEPT ![a] = None]
           b == BytesOf(memmap)
           s == memmap[a]
           c == BytesOf(m)
<1>1. Map(memmap) /\ total \in Int
  BY DEF IInv, TypesOK
<1>2. s \in Nat /\ b \in Int /\ c = b - s /\ Map(m)
  BY <1>1, BytesDropped DEF SizeIn
<1>3. Account(m, total - s)
  OBVIOUS
<1> HIDE DEF b, s, c
<1>4. total - s \in Int /\ c \in Int /\ total - b <= (total - s) - c /\ total - b = (total - s) - c
  BY <1>1, <1>2
<1> HIDE DEF m
<1> QED BY <1>2, <1>3, <1>4, AccountPreserves DEF b, c

(* The block at a becomes one of n bytes at p, where there may be one.     *)
LEMMA MovePreserves ==
  ASSUME IInv, UNCHANGED <<packets, partial>>, pos < Len(packets),
         NEW a \in Addr, NEW p \in Addr, NEW n \in Nat, memmap[a] # None,
         Account([memmap EXCEPT ![a] = None, ![p] = n], total + (n - memmap[a])),
         a = p \/ MayReplace(packets[pos + 1])
  PROVE  IInv'
<1> DEFINE l == [memmap EXCEPT ![a] = None]
           m == [l EXCEPT ![p] = n]
           b == BytesOf(memmap)
           s == memmap[a]
           d == BytesOf(l)
           r == SizeIn(l, p)
           c == BytesOf(m)
<1>1. Map(memmap) /\ total \in Int
  BY DEF IInv, TypesOK
<1>2. s \in Nat /\ b \in Int /\ d = b - s /\ Map(l)
  BY <1>1, BytesDropped DEF SizeIn
<1>3. a = p => r = 0
  BY <1>1 DEF SizeIn, Map
<1>4. Account(m, total + (n - s))
  OBVIOUS
<1>5. Map(m) /\ c = d + n - r /\ r \in Nat
  <2> HIDE DEF l
  <2> QED BY <1>2, BytesDropped, BytesPut
<1> HIDE DEF b, s, c, d, r
<1>6. /\ total + (n - s) \in Int /\ c \in Int /\ total - b <= (total + (n - s)) - c
      /\ r = 0 => total - b = (total + (n - s)) - c
  BY <1>1, <1>2, <1>5
<1> HIDE DEF m
<1> QED BY <1>3, <1>4, <1>5, <1>6, AccountPreserves DEF b, c

LEMMA MallocPreserves ==
  ASSUME IInv, UNCHANGED <<packets, partial>>, ReplayMalloc
  PROVE  IInv'
<1>1. pos < Len(packets) /\ pos + 1 <= Len(packets)
  BY NextPacket DEF ReplayMalloc, Pending
<1>2. CASE Skip
  BY <1>1, <1>2, OtherPreserves DEF Skip
<1>3. CASE Fail("AssertionError")
  BY <1>1, <1>3, OtherPreserves DEF Fail, IInv, TypesOK
<1>4. CASE /\ Cur.new # Null /\ memmap[Cur.new] = None
           /\ Account([memmap EXCEPT ![Cur.new] = Cur.size], total + Cur.size)
  BY <1>1, <1>4, NextPacket, PutPreserves
<1> QED BY <1>2, <1>3, <1>4 DEF ReplayMalloc

LEMMA ReallocPreserves ==
  ASSUME IInv, UNCHANGED <<packets, partial>>, ReplayRealloc
  PROVE  IInv'
<1>1. pos < Len(packets) /\ pos + 1 <= Len(packets) /\ packets[pos + 1].tag = "Realloc"
  BY NextPacket DEF ReplayRealloc, Pending
<1>2. CASE Skip
  BY <1>1, <1>2, OtherPreserves DEF Skip
<1>3. CASE Fail("KeyError")
  BY <1>1, <1>3, OtherPreserves DEF Fail, IInv, TypesOK
<1>4. CASE /\ Cur.new # Null /\ Cur.old = Null
           /\ Account([memmap EXCEPT ![Cur.new] = Cur.size], total + Cur.size)
  <2>1. Cur.new \in Addr /\ Cur.size \in Nat
    BY <1>1, <1>4, NextPacket
  <2>2. MayReplace(packets[pos + 1])
    BY <1>1, <1>4 DEF MayReplace, Cur
  <2> QED BY <1>1, <1>4, <2>1, <2>2, PutPreserves
<1>5. CASE /\ Cur.new # Null /\ Cur.old # Null /\ memmap[Cur.old] # None
           /\ Account([memmap EXCEPT ![Cur.old] = None, ![Cur.new] = Cur.size],
                      total + (Cur.size - memmap[Cur.old]))
  <2>1. Cur.old \in Addr /\ Cur.new \in Addr /\ Cur.size \in Nat
    BY <1>1, <1>5, NextPacket
  <2>2. Cur.old = Cur.new \/ MayReplace(packets[pos + 1])
    BY <1>1, <1>5 DEF MayReplace, Cur
  <2> QED BY <1>1, <1>5, <2>1, <2>2, MovePreserves
<1> QED BY <1>2, <1>3, <1>4, <1>5 DEF ReplayRealloc

LEMMA FreePreserves ==
  ASSUME IInv, UNCHANGED <<packets, partial>>, ReplayFree
  PROVE  IInv'
<1>1. pos < Len(packets) /\ pos + 1 <= Len(packets)
  BY NextPacket DEF ReplayFree, Pending
<1>2. CASE Skip
  BY <1>1, <1>2, OtherPreserves DEF Skip
<1>3. CASE /\ Cur.old # Null /\ memmap[Cur.old] # None
           /\ Account([memmap EXCEPT ![Cur.old] = None], total - memmap[Cur.old])
  <2>1. Cur.old \in Addr
    BY <1>1, <1>3, NextPacket
  <2> QED BY <1>1, <1>3, <2>1, DropPreserves
<1> QED BY <1>2, <1>3 DEF ReplayFree

LEMMA InitEstablishesIInv == Init => IInv
<1> SUFFICES ASSUME Init PROVE IInv
  OBVIOUS
<1>1. packets \in Seq(AnyPacket)
  <2>1. PICK m \in 0 .. MaxCapture : packets \in [1 .. m -> AnyPacket]
    BY DEF Init, BoundedSeq, SeqOf
  <2> QED BY <2>1, CaptureAssumption
<1>2. pos = 0 /\ total = 0 /\ peak = 0 /\ memmap = [a \in Addr |-> None]
  BY DEF Init, HostInit
<1>3. TypesOK
  BY <1>1, <1>2 DEF TypesOK
<1>4. Map(memmap) /\ BytesOf(memmap) = 0
  BY <1>2, BytesOfNothing
<1> QED BY <1>2, <1>3, <1>4 DEF IInv, TotalCoversDict

LEMMA NextPreservesIInv == IInv /\ [Next]_vars => IInv'
<1> SUFFICES ASSUME IInv, [Next]_vars PROVE IInv'
  OBVIOUS
<1>1. pos \in Nat /\ pos <= Len(packets)
  BY DEF IInv, TypesOK
<1>2. CASE Next
  <2>1. UNCHANGED <<packets, partial>>
    BY <1>2 DEF Next
  <2>2. CASE Parse \/ Return
    BY <1>1, <2>1, <2>2, OtherPreserves DEF Parse, Return
  <2>3. CASE ReplayUnknown
    BY <1>1, <2>1, <2>3, OtherPreserves DEF ReplayUnknown, Fail
  <2> QED BY <1>2, <2>1, <2>2, <2>3, MallocPreserves, ReallocPreserves, FreePreserves
          DEF Next, HostNext
<1>3. CASE UNCHANGED vars
  BY <1>1, <1>3, OtherPreserves DEF vars, hostVars
<1> QED BY <1>2, <1>3

LEMMA Invariance == Spec => []IInv
BY InitEstablishesIInv, NextPreservesIInv, PTL DEF Spec

(* Whatever get_heap() is given to replay, its total covers the blocks in  *)
(* the dict, its peak covers the total, and only a realloc that may have   *)
(* replaced a block makes the total too high.                              *)
THEOREM TotalCorrect == Spec => []TotalCoversDict
<1>1. IInv => TotalCoversDict BY DEF IInv
<1> QED BY <1>1, Invariance, PTL
===============================================================================
