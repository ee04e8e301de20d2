---------------------------- MODULE PacketProofs ----------------------------
(***************************************************************************)
(* Proofs about packets: in memory, for pools of any size, any lengths,    *)
(* headers and callers (Pbuf), and on their way to the line, for a buffer  *)
(* memory and a receive ring of any size, pbuf chains of any shape and any *)
(* number of frames (TxPath).                                              *)
(***************************************************************************)
EXTENDS PbufCopy, TxPath, SequenceTheorems, FunctionTheorems, FiniteSetTheorems,
        WellFoundedInduction, TLAPS

-----------------------------------------------------------------------------
(* The inductive invariant.  Its parts speak of any memory pb, lists mp, *)
(* handles hs, pbufs fr to be freed and allocation al. *)

PbufRecord == [ref : Nat, next : Pbufs \union {NULL}, original : Pbufs \union {NULL},
               len : 0..U16 - 1, tot_len : 0..U16 - 1, off : Nat, cap : Nat]

PbufTyped(pb, mp, hs, fr, al) ==
  /\ pb \in [Pbufs -> PbufRecord]
  /\ mp \in [Pools -> Seq(Pbufs)]
  /\ hs \in [Pbufs -> Nat]
  /\ fr \in Seq(Pbufs)
  /\ al = NULL \/ al \in Allocs

\* No pbuf has two before it, and none is behind itself.
NextOnce(pb) ==
  \A p, q \in Pbufs : pb[p].next = pb[q].next /\ pb[p].next # NULL => p = q

Downhill(pb, K, rank) ==
  /\ rank \in [Pbufs -> 0..K]
  /\ \A p \in Pbufs : pb[p].next # NULL => rank[pb[p].next] < rank[p]

Acyclic(pb) == \E K \in Nat : \E rank : Downhill(pb, K, rank)

\* The references there are.
LinkCount(pb, p) == Cardinality({q \in Pbufs : pb[q].next = p})
OrigCount(pb, p) == Cardinality({q \in Pbufs : pb[q].original = p})

Exact(pb, hs, fr) ==
  \A p \in Pbufs :
    pb[p].ref = hs[p] + Times(fr, p) + LinkCount(pb, p) + OrigCount(pb, p)

Listed(pb, mp) ==
  \A S \in Pools :
    /\ mp[S] \in Seq(S)
    /\ \A p \in S : Times(mp[S], p) = IF pb[p].ref = 0 THEN 1 ELSE 0

Blanks(pb) == \A p \in Pbufs : pb[p].ref = 0 => pb[p] = Blank

InMemory(pb) == \A p \in Pbufs : pb[p].off + pb[p].len <= pb[p].cap

Agree(pb, p) ==
  pb[p].tot_len = pb[p].len
                  + IF pb[p].next = NULL THEN 0 ELSE pb[pb[p].next].tot_len

\* What begins a packet that is being freed or made.
Root(fr, al, p) ==
  \/ \E i \in DOMAIN fr : fr[i] = p
  \/ al # NULL /\ p = al.first

\* The lengths agree except in D, whose pbufs are all about to be freed, or
\* the beginning of a packet that is being made.
Loose(pb, fr, al, D) ==
  /\ \A p \in D : /\ pb[p].ref = 1
                  /\ Root(fr, al, p) \/ \E q \in D : pb[q].next = p
  /\ \A p \in Pbufs \ D : Agree(pb, p)

\* Only the last pbuf of a packet that is being made lacks what follows.
Making(pb, hs, fr, al, D) ==
  al # NULL =>
    /\ fr = <<>> /\ hs[al.first] = 1
    /\ al.last \in D /\ pb[al.last].next = NULL
    /\ pb[al.last].tot_len = pb[al.last].len + al.rem_len
    /\ \A p \in D \ {al.last} : Agree(pb, p)

LengthsKept(pb, hs, fr, al) ==
  \E D \in SUBSET Pbufs : Loose(pb, fr, al, D) /\ Making(pb, hs, fr, al, D)

Good(pb, mp, hs, fr, al) ==
  /\ PbufTyped(pb, mp, hs, fr, al)
  /\ NextOnce(pb) /\ Acyclic(pb)
  /\ Exact(pb, hs, fr) /\ Listed(pb, mp) /\ Blanks(pb)
  /\ InMemory(pb) /\ LengthsKept(pb, hs, fr, al)

PbufInv == Good(pbuf, memp, handles, freeing, alloc)

------------------------------
(* Numbers. *)

\* Every inhabited set of naturals has a least element.
LEMMA LeastOf ==
  ASSUME NEW S, S \subseteq Nat, S # {}
  PROVE  \E x \in S : \A y \in S : x <= y
<1>1. PICK x \in S : \A y \in S : ~(<<y, x>> \in OpToRel(<, Nat))
  BY WFMin, NatLessThanWellFounded, Zenon
<1>2. \A y \in S : ~(y < x)
  BY <1>1 DEF OpToRel
<1> QED
  BY <1>2

\* A set that has 0 and with a number the next has all.
LEMMA UpTo ==
  ASSUME NEW L \in Nat, NEW B, 0 \in B, \A n \in 1..L : n - 1 \in B => n \in B
  PROVE  \A n \in 0..L : n \in B
<1> SUFFICES ASSUME NEW m \in 0..L, m \notin B PROVE FALSE
  OBVIOUS
<1> DEFINE S == {n \in 0..L : n \notin B}
<1>1. PICK x \in S : \A y \in S : x <= y
  <2>1. S \subseteq Nat /\ S # {}
    OBVIOUS
  <2> HIDE DEF S
  <2> QED
    BY <2>1, LeastOf
<1>2. x \in 1..L
  OBVIOUS
<1>3. x - 1 \in 0..L /\ x - 1 \notin S
  BY <1>1, <1>2
<1> QED
  BY <1>2, <1>3

\* A sum that has not wrapped is not below its second part.
LEMMA NoWrap ==
  ASSUME NEW a \in 0..U16 - 1, NEW b \in Nat, (a + b) % U16 >= b
  PROVE  (a + b) % U16 = a + b /\ a + b < U16
<1>1. PICK u \in Nat : u = U16 /\ u > 0
  BY PbufAssumption
<1>2. PICK x \in Nat : x = a + b
  BY <1>1
<1>3. PICK k \in Int : k = x \div u
  BY <1>1
<1>4. PICK r \in 0..u - 1 : r = x % u
  BY <1>1
<1>5. x = u * k + r
  BY <1>1, <1>3, <1>4
<1>6. k = 0
  <2>1. k < 1
    <3> SUFFICES ASSUME k >= 1 PROVE FALSE
      BY <1>3
    <3>1. u * k >= u
      BY <1>1, <1>3
    <3>2. u * k \in Int
      BY <1>1
    <3>3. r <= x - u
      BY <1>1, <1>4, <1>5, <3>1, <3>2
    <3>4. r >= b /\ a < u
      BY <1>1, <1>2, <1>4
    <3> QED
      BY <1>1, <1>2, <1>4, <3>3, <3>4
  <2>2. k >= 0
    <3> SUFFICES ASSUME k <= -1 PROVE FALSE
      BY <1>3
    <3>1. u * k <= -u
      BY <1>1, <1>3
    <3>2. u * k \in Int
      BY <1>1
    <3> QED
      BY <1>1, <1>2, <1>4, <1>5, <3>1, <3>2
  <2> QED
    BY <1>3, <2>1, <2>2
<1>7. x = r
  BY <1>1, <1>2, <1>4, <1>5, <1>6
<1> QED
  BY <1>1, <1>2, <1>4, <1>7

\* LWIP_MEM_ALIGN_SIZE never rounds a size down.
LEMMA AlignIs ==
  ASSUME NEW n \in Nat
  PROVE  Align(n) \in Nat /\ n <= Align(n)
<1>1. PICK m \in Nat : m = MEM_ALIGNMENT /\ m > 0
  BY PbufAssumption
<1>2. PICK x \in Nat : x = n + m - 1
  BY <1>1
<1>3. PICK k \in Int : k = x \div m
  BY <1>1
<1>4. PICK r \in 0..m - 1 : r = x % m
  BY <1>1
<1>5. x = m * k + r /\ m * k \in Int
  BY <1>1, <1>3, <1>4
<1>6. m * k >= n
  BY <1>1, <1>2, <1>4, <1>5
<1>7. Align(n) = k * m
  BY <1>1, <1>2, <1>3 DEF Align
<1>8. k * m = m * k
  BY <1>1, <1>3
<1> QED
  BY <1>5, <1>6, <1>7, <1>8

LEMMA AlignZero == Align(0) = 0
<1>1. PICK m \in Nat : m = MEM_ALIGNMENT /\ m > 0
  BY PbufAssumption
<1>2. (0 + m - 1) \div m = 0
  BY <1>1
<1> QED
  BY <1>1, <1>2 DEF Align

------------------------------
(* Counting. *)

\* There are finitely many pbufs, and their names are numbers.
LEMMA FinitePbufs == IsFiniteSet(Pbufs) /\ Pbufs \subseteq Nat
<1>1. /\ IsFiniteSet(PoolPbufs) /\ IsFiniteSet(RefPbufs)
      /\ IsFiniteSet(CustomPbufs) /\ IsFiniteSet(HeapPbufs)
      /\ PoolPbufs \subseteq Nat /\ RefPbufs \subseteq Nat
      /\ CustomPbufs \subseteq Nat /\ HeapPbufs \subseteq Nat
  BY PbufAssumption DEF Pools
<1>2. IsFiniteSet(PoolPbufs \union RefPbufs)
  BY <1>1, FS_Union
<1>3. IsFiniteSet(PoolPbufs \union RefPbufs \union CustomPbufs)
  BY <1>1, <1>2, FS_Union
<1>4. IsFiniteSet(Pbufs)
  BY <1>1, <1>3, FS_Union DEF Pbufs
<1> QED
  BY <1>1, <1>4 DEF Pbufs

\* A set whose elements are all equal counts zero or one.
LEMMA AtMostOne ==
  ASSUME NEW S, \A x, y \in S : x = y
  PROVE  Cardinality(S) = IF S = {} THEN 0 ELSE 1
<1>1. CASE S = {}
  BY <1>1, FS_EmptySet
<1>2. CASE S # {}
  <2>1. PICK x \in S : TRUE
    BY <1>2
  <2>2. S = {x}
    BY <2>1
  <2>3. Cardinality({x}) = 1
    BY FS_Singleton
  <2> QED
    BY <1>2, <2>2, <2>3
<1> QED
  BY <1>1, <1>2

\* Counts of the pbufs that satisfy something.
LEMMA CountIs ==
  ASSUME NEW S, S \subseteq Pbufs
  PROVE  /\ Cardinality(S) \in Nat
         /\ Cardinality(S) = 0 <=> S = {}
         /\ \A x : x \notin S => Cardinality(S \union {x}) = Cardinality(S) + 1
         /\ \A x : x \in S => Cardinality(S \ {x}) = Cardinality(S) - 1
<1>1. IsFiniteSet(S)
  BY FinitePbufs, FS_Subset
<1>2. Cardinality(S) \in Nat
  BY <1>1, FS_CardinalityType
<1>3. Cardinality(S) = 0 <=> S = {}
  BY <1>1, FS_EmptySet
<1>4. \A x : x \notin S => Cardinality(S \union {x}) = Cardinality(S) + 1
  BY <1>1, FS_AddElement
<1>5. \A x : x \in S => Cardinality(S \ {x}) = Cardinality(S) - 1
  BY <1>1, FS_RemoveElement
<1> QED
  BY <1>2, <1>3, <1>4, <1>5

\* How often a pbuf occurs in a sequence is a number, zero if it does not.
LEMMA TimesIs ==
  ASSUME NEW X, NEW s \in Seq(X), NEW p
  PROVE  /\ Times(s, p) \in Nat
         /\ Times(s, p) = 0 <=> \A i \in DOMAIN s : s[i] # p
<1> DEFINE S == {i \in DOMAIN s : s[i] = p}
<1>1. DOMAIN s = 1..Len(s) /\ Len(s) \in Nat
  BY LenProperties
<1>2. IsFiniteSet(1..Len(s))
  BY <1>1, FS_Interval
<1>3. IsFiniteSet(S)
  BY <1>1, <1>2, FS_Subset
<1>4. Times(s, p) = Cardinality(S)
  BY DEF Times
<1>5. Cardinality(S) \in Nat
  BY <1>3, FS_CardinalityType
<1>6. Cardinality(S) = 0 <=> S = {}
  BY <1>3, FS_EmptySet
<1> QED
  BY <1>4, <1>5, <1>6

\* Occurrences add up over a concatenation.
LEMMA TimesConcat ==
  ASSUME NEW X, NEW s \in Seq(X), NEW t \in Seq(X), NEW p
  PROVE  Times(s \o t, p) = Times(s, p) + Times(t, p)
<1> DEFINE m == Len(s)
           n == Len(t)
           S == {i \in 1..m : s[i] = p}
           T == {i \in 1..n : t[i] = p}
           U == {i \in m + 1..m + n : t[i - m] = p}
           f == [i \in T |-> m + i]
<1>1. m \in Nat /\ n \in Nat /\ DOMAIN s = 1..m /\ DOMAIN t = 1..n
  BY LenProperties
<1>2. /\ DOMAIN (s \o t) = 1..m + n
      /\ \A i \in 1..m + n : (s \o t)[i] = IF i <= m THEN s[i] ELSE t[i - m]
  BY ConcatProperties, LenProperties
<1> HIDE DEF m, n
<1>3. {i \in DOMAIN (s \o t) : (s \o t)[i] = p} = S \union U
  BY <1>1, <1>2
<1>4. S \intersect U = {}
  BY <1>1
<1>5. IsFiniteSet(S) /\ IsFiniteSet(T)
  <2>1. IsFiniteSet(1..m) /\ IsFiniteSet(1..n)
    BY <1>1, FS_Interval
  <2> QED
    BY <2>1, FS_Subset
<1>6. f \in Bijection(T, U)
  <2>1. f \in [T -> U]
    BY <1>1
  <2>2. \A i, j \in T : f[i] = f[j] => i = j
    BY <1>1
  <2>3. \A u \in U : \E i \in T : f[i] = u
    <3> SUFFICES ASSUME NEW u \in U PROVE \E i \in T : f[i] = u
      OBVIOUS
    <3>1. u - m \in T /\ m + (u - m) = u
      BY <1>1
    <3> QED
      BY <3>1
  <2> HIDE DEF f, T, U
  <2> QED
    BY <2>1, <2>2, <2>3, Fun_IsBij
<1>7. IsFiniteSet(U) /\ Cardinality(U) = Cardinality(T)
  <2>1. ExistsBijection(T, U)
    BY <1>6 DEF ExistsBijection
  <2> HIDE DEF T, U
  <2> QED
    BY <1>5, <2>1, FS_Bijection
<1>8. Cardinality(S \union U) = Cardinality(S) + Cardinality(U)
  <2> HIDE DEF S, U
  <2>1. Cardinality(S \union U) = Cardinality(S) + Cardinality(U) - Cardinality({})
    BY <1>4, <1>5, <1>7, FS_Union
  <2>2. Cardinality(S) \in Nat /\ Cardinality(U) \in Nat /\ Cardinality({}) = 0
    BY <1>5, <1>7, FS_CardinalityType, FS_EmptySet
  <2> QED
    BY <2>1, <2>2
<1>9. /\ Times(s, p) = Cardinality(S) /\ Times(t, p) = Cardinality(T)
      /\ Times(s \o t, p) = Cardinality(S \union U)
  BY <1>1, <1>3 DEF Times
<1> QED
  BY <1>7, <1>8, <1>9

\* A sequence of one pbuf holds that pbuf once.
LEMMA TimesOne ==
  ASSUME NEW q, NEW p
  PROVE  /\ Times(<<q>>, p) = IF p = q THEN 1 ELSE 0
         /\ Times(<<>>, p) = 0
<1>1. {i \in DOMAIN <<>> : <<>>[i] = p} = {}
  OBVIOUS
<1>2. {i \in DOMAIN <<q>> : <<q>>[i] = p} = IF p = q THEN {1} ELSE {}
  OBVIOUS
<1>3. Cardinality({1}) = 1 /\ Cardinality({}) = 0
  BY FS_Singleton, FS_EmptySet
<1>4. Times(<<>>, p) = 0
  BY <1>1, <1>3 DEF Times
<1>5. CASE p = q
  BY <1>2, <1>3, <1>4, <1>5 DEF Times
<1>6. CASE p # q
  BY <1>2, <1>3, <1>4, <1>6 DEF Times
<1> QED
  BY <1>5, <1>6

\* Taking the head off a sequence takes one occurrence of it.
LEMMA TimesHead ==
  ASSUME NEW X, NEW s \in Seq(X), s # <<>>, NEW p
  PROVE  /\ Head(s) \in X /\ Tail(s) \in Seq(X)
         /\ Times(s, p) = Times(Tail(s), p) + IF p = Head(s) THEN 1 ELSE 0
<1>1. Head(s) \in X /\ Tail(s) \in Seq(X) /\ s = <<Head(s)>> \o Tail(s)
  BY HeadTailProperties
<1>2. <<Head(s)>> \in Seq(X)
  BY <1>1
<1>3. Times(s, p) = Times(<<Head(s)>>, p) + Times(Tail(s), p)
  <2>1. PICK a \in Seq(X) : a = <<Head(s)>>
    BY <1>2
  <2>2. PICK t \in Seq(X) : t = Tail(s)
    BY <1>1
  <2>3. Times(a \o t, p) = Times(a, p) + Times(t, p)
    BY TimesConcat
  <2>4. s = a \o t
    BY <1>1, <2>1, <2>2
  <2> QED
    BY <2>1, <2>2, <2>3, <2>4
<1>4. Times(Tail(s), p) \in Nat
  BY <1>1, TimesIs
<1> QED
  BY <1>1, <1>3, <1>4, TimesOne

\* A sequence without repetitions.
LEMMA TimesOnce ==
  ASSUME NEW X, NEW s \in Seq(X), \A i, j \in DOMAIN s : s[i] = s[j] => i = j, NEW p
  PROVE  Times(s, p) = IF \E i \in DOMAIN s : s[i] = p THEN 1 ELSE 0
<1> DEFINE S == {i \in DOMAIN s : s[i] = p}
<1>1. \A i, j \in S : i = j
  OBVIOUS
<1>2. Cardinality(S) = IF S = {} THEN 0 ELSE 1
  BY <1>1, AtMostOne
<1> QED
  BY <1>2 DEF Times

------------------------------
(* Following the links. *)

LinksOf(pb) ==
  /\ \A p \in Pbufs : pb[p].next \in Pbufs \union {NULL}
  /\ Acyclic(pb)

\* What holds of a pbuf if it does of the one behind it holds of all.
LEMMA Climb ==
  ASSUME NEW pb, LinksOf(pb), NEW B,
         \A p \in Pbufs : pb[p].next = NULL \/ pb[p].next \in B => p \in B
  PROVE  Pbufs \subseteq B
<1>1. PICK K \in Nat : \E rank : Downhill(pb, K, rank)
  BY DEF LinksOf, Acyclic
<1>2. PICK rank : Downhill(pb, K, rank)
  BY <1>1
<1> SUFFICES ASSUME NEW x \in Pbufs, x \notin B PROVE FALSE
  OBVIOUS
<1> DEFINE S == {n \in 0..K : \E p \in Pbufs : p \notin B /\ rank[p] = n}
<1>3. \A p \in Pbufs : rank[p] \in 0..K
  BY <1>2 DEF Downhill
<1>4. S \subseteq Nat /\ S # {}
  <2>1. rank[x] \in S
    BY <1>3
  <2> QED
    BY <2>1
<1>5. PICK n \in S : \A m \in S : n <= m
  <2> HIDE DEF S
  <2> QED
    BY <1>4, LeastOf
<1>6. PICK p \in Pbufs : p \notin B /\ rank[p] = n
  OBVIOUS
<1>7. pb[p].next # NULL /\ pb[p].next \notin B /\ pb[p].next \in Pbufs
  BY <1>6 DEF LinksOf
<1>8. rank[pb[p].next] < rank[p]
  BY <1>2, <1>7 DEF Downhill
<1>9. rank[pb[p].next] \in S
  BY <1>3, <1>7
<1> QED
  BY <1>3, <1>5, <1>6, <1>7, <1>8, <1>9

\* Nor does every pbuf of a set have another of them before it.
LEMMA Topmost ==
  ASSUME NEW pb, Acyclic(pb), NULL \notin Pbufs,
         NEW D, D \subseteq Pbufs, \A p \in D : \E q \in D : pb[q].next = p
  PROVE  D = {}
<1>1. PICK K \in Nat : \E rank : Downhill(pb, K, rank)
  BY DEF Acyclic
<1>2. PICK rank : Downhill(pb, K, rank)
  BY <1>1
<1> SUFFICES ASSUME NEW x \in D PROVE FALSE
  OBVIOUS
<1> DEFINE S == {n \in 0..K : \E p \in D : rank[p] = K - n}
<1>3. \A p \in D : rank[p] \in 0..K /\ K - rank[p] \in S
  BY <1>2 DEF Downhill
<1>4. S \subseteq Nat /\ S # {}
  BY <1>3
<1>5. PICK n \in S : \A m \in S : n <= m
  <2> HIDE DEF S
  <2> QED
    BY <1>4, LeastOf
<1>6. PICK p \in D : rank[p] = K - n
  OBVIOUS
<1>7. PICK q \in D : pb[q].next = p
  BY <1>6
<1>8. rank[p] < rank[q]
  BY <1>2, <1>6, <1>7 DEF Downhill
<1>9. n <= K - rank[q]
  BY <1>3, <1>5, <1>7
<1> QED
  BY <1>3, <1>6, <1>7, <1>8, <1>9

\* A function is defined by what it is of NULL and the step from each pbuf to
\* the one before it.
DefinedBy(pb, X, x, G) ==
  \E f \in [Pbufs \union {NULL} -> X] :
    f[NULL] = x /\ \A p \in Pbufs : f[p] = G[p][f[pb[p].next]]

\* What recurs along the next pointers is defined for every pbuf, since no
\* chain comes back to itself.
LEMMA Defined ==
  ASSUME NEW pb, LinksOf(pb), NEW X, NEW x \in X, NEW G \in [Pbufs -> [X -> X]]
  PROVE  DefinedBy(pb, X, x, G)
<1>1. PICK K \in Nat : \E rank : Downhill(pb, K, rank)
  BY DEF LinksOf, Acyclic
<1>2. PICK rank : Downhill(pb, K, rank)
  BY <1>1
<1>3. \A p \in Pbufs : rank[p] \in 0..K /\ pb[p].next \in Pbufs \union {NULL}
  BY <1>2 DEF Downhill, LinksOf
<1> DEFINE Fits(f, k) ==
             /\ f \in [Pbufs \union {NULL} -> X] /\ f[NULL] = x
             /\ \A p \in Pbufs : rank[p] < k => f[p] = G[p][f[pb[p].next]]
           B == {k \in 0..K + 1 : \E f : Fits(f, k)}
<1>4. 0 \in B
  <2> DEFINE f == [p \in Pbufs \union {NULL} |-> x]
  <2>1. Fits(f, 0)
    BY <1>3
  <2> HIDE DEF f, Fits
  <2> QED
    BY <2>1
<1>5. ASSUME NEW k \in 1..K + 1, k - 1 \in B
      PROVE  k \in B
  <2>1. PICK f : Fits(f, k - 1)
    BY <1>5
  <2> DEFINE g == [p \in Pbufs \union {NULL} |->
                     IF p \in Pbufs /\ p # NULL /\ rank[p] = k - 1
                     THEN G[p][f[pb[p].next]] ELSE f[p]]
  <2>2. \A p \in Pbufs : f[pb[p].next] \in X /\ G[p][f[pb[p].next]] \in X
    BY <1>3, <2>1
  <2>3. g \in [Pbufs \union {NULL} -> X]
    BY <2>1, <2>2
  <2>4. g[NULL] = x
    BY <2>1
  <2>5. ASSUME NEW p \in Pbufs, rank[p] < k
        PROVE  g[p] = G[p][g[pb[p].next]]
    <3>1. NULL \notin Pbufs
      BY PbufAssumption
    <3>2. pb[p].next # NULL => pb[p].next \in Pbufs /\ rank[pb[p].next] < k - 1
      BY <1>2, <1>3, <2>5 DEF Downhill
    <3>3. g[pb[p].next] = f[pb[p].next]
      BY <1>3, <3>1, <3>2
    <3>4. CASE rank[p] = k - 1
      BY <3>1, <3>3, <3>4
    <3>5. CASE rank[p] # k - 1
      <4>1. rank[p] < k - 1
        BY <1>3, <2>5, <3>5
      <4> QED
        BY <2>1, <3>3, <3>5, <4>1
    <3> QED
      BY <3>4, <3>5
  <2>6. Fits(g, k)
    <3> HIDE DEF g
    <3> QED
      BY <2>3, <2>4, <2>5
  <2> HIDE DEF g, Fits
  <2> QED
    BY <2>6
<1>6. K + 1 \in B
  <2> HIDE DEF B
  <2> QED
    BY <1>4, <1>5, UpTo
<1>7. PICK f : Fits(f, K + 1)
  BY <1>6
<1>8. \A p \in Pbufs : f[p] = G[p][f[pb[p].next]]
  BY <1>3, <1>7
<1> QED
  BY <1>7, <1>8 DEF DefinedBy

\* The sequence of pbufs s begins with p and follows the links to the end.
Follows(s, p) ==
  /\ s \in Seq(Pbufs) /\ Len(s) \in Nat /\ Len(s) >= 1 /\ s[1] = p
  /\ \A i \in 1..Len(s) : s[i] \in Pbufs
  /\ \A i \in 1..Len(s) - 1 : pbuf[s[i]].next = s[i + 1]
  /\ pbuf[s[Len(s)]].next = NULL

\* A chain is its first pbuf followed by the chain of its next pointer.
LEMMA ChainDef ==
  ASSUME LinksOf(pbuf)
  PROVE  \A p \in Pbufs :
           /\ Chain[p] \in Seq(Pbufs)
           /\ Chain[p] = <<p>> \o IF pbuf[p].next = NULL THEN <<>>
                                  ELSE Chain[pbuf[p].next]
<1> DEFINE X == Seq(Pbufs)
           G == [p \in Pbufs |-> [s \in X |-> <<p>> \o s]]
           Step(c, p) == <<p>> \o IF pbuf[p].next = NULL THEN <<>>
                                  ELSE c[pbuf[p].next]
<1>1. <<>> \in X /\ G \in [Pbufs -> [X -> X]]
  <2>1. \A p \in Pbufs, s \in X : <<p>> \o s \in X
    OBVIOUS
  <2> HIDE DEF X
  <2> QED
    BY <2>1, EmptySeq DEF X
<1> HIDE DEF X
<1>2. PICK f \in [Pbufs \union {NULL} -> X] :
        f[NULL] = <<>> /\ \A p \in Pbufs : f[p] = G[p][f[pbuf[p].next]]
  <2> HIDE DEF G
  <2>1. DefinedBy(pbuf, X, <<>>, G)
    BY <1>1, Defined
  <2> QED
    BY <2>1 DEF DefinedBy
<1>3. \A p \in Pbufs : f[p] = Step(f, p)
  <2> SUFFICES ASSUME NEW p \in Pbufs PROVE f[p] = Step(f, p)
    OBVIOUS
  <2>1. f[pbuf[p].next] \in X
    BY <1>2 DEF LinksOf
  <2>2. f[p] = <<p>> \o f[pbuf[p].next]
    BY <1>2, <2>1
  <2> QED
    BY <1>2, <2>2
<1> DEFINE c == [p \in Pbufs |-> f[p]]
<1>4. c = [p \in Pbufs |-> <<p>> \o IF pbuf[p].next = NULL THEN <<>>
                                    ELSE c[pbuf[p].next]]
  <2>1. \A p \in Pbufs : c[p] = Step(c, p)
    <3> SUFFICES ASSUME NEW p \in Pbufs PROVE c[p] = Step(c, p)
      OBVIOUS
    <3>1. CASE pbuf[p].next = NULL
      BY <1>3, <3>1
    <3>2. CASE pbuf[p].next # NULL
      <4>1. pbuf[p].next \in Pbufs
        BY <3>2 DEF LinksOf
      <4>2. c[pbuf[p].next] = f[pbuf[p].next] /\ c[p] = f[p]
        BY <4>1
      <4> QED
        BY <1>3, <3>2, <4>2
    <3> QED
      BY <3>1, <3>2
  <2>2. c = [p \in Pbufs |-> c[p]]
    OBVIOUS
  <2> HIDE DEF c
  <2> QED
    BY <2>1, <2>2, Zenon
<1> HIDE DEF c
<1>5. Chain = [p \in Pbufs |-> <<p>> \o IF pbuf[p].next = NULL THEN <<>>
                                        ELSE Chain[pbuf[p].next]]
  BY <1>4, Zenon DEF Chain
<1>6. \A p \in Pbufs : Chain[p] = Step(Chain, p)
  BY <1>5, Zenon
<1> DEFINE B == {p \in Pbufs : Chain[p] \in X}
<1>7. \A p \in Pbufs : pbuf[p].next = NULL \/ pbuf[p].next \in B => p \in B
  <2> SUFFICES ASSUME NEW p \in Pbufs, pbuf[p].next = NULL \/ pbuf[p].next \in B
               PROVE  p \in B
    OBVIOUS
  <2>1. PICK t \in X : Chain[p] = <<p>> \o t
    BY <1>1, <1>6
  <2>2. t \in Seq(Pbufs) /\ <<p>> \in Seq(Pbufs)
    BY <2>1 DEF X
  <2>3. <<p>> \o t \in Seq(Pbufs)
    BY <2>2, ConcatProperties
  <2> QED
    BY <2>1, <2>3 DEF X
<1>8. Pbufs \subseteq B
  <2> HIDE DEF B
  <2> QED
    BY <1>7, Climb
<1> QED
  BY <1>6, <1>8 DEF X

\* The links go downhill along a chain, so no pbuf is in it twice.
LEMMA ChainIs ==
  ASSUME LinksOf(pbuf), NEW p \in Pbufs
  PROVE  /\ Follows(Chain[p], p)
         /\ \A i, j \in 1..Len(Chain[p]) : Chain[p][i] = Chain[p][j] => i = j
<1>1. PICK K \in Nat : \E rank : Downhill(pbuf, K, rank)
  BY DEF LinksOf, Acyclic
<1>2. PICK rank : Downhill(pbuf, K, rank)
  BY <1>1
<1>3. \A q \in Pbufs : rank[q] \in 0..K
  BY <1>2 DEF Downhill
<1> DEFINE Falls(s) == \A i, j \in 1..Len(s) : i < j => rank[s[j]] < rank[s[i]]
           B == {q \in Pbufs : Follows(Chain[q], q) /\ Falls(Chain[q])}
<1>4. ASSUME NEW q \in Pbufs, pbuf[q].next = NULL \/ pbuf[q].next \in B
      PROVE  q \in B
  <2>1. CASE pbuf[q].next = NULL
    <3>1. Chain[q] = <<q>> \o <<>>
      BY <2>1, ChainDef
    <3>2. Chain[q] = <<q>>
      BY <3>1
    <3>3. Follows(<<q>>, q)
      BY <2>1 DEF Follows
    <3>4. Falls(<<q>>)
      OBVIOUS
    <3> QED
      BY <3>2, <3>3, <3>4
  <2>2. CASE pbuf[q].next # NULL /\ pbuf[q].next \in B
    <3> DEFINE n == pbuf[q].next
    <3>1. PICK t : t = Chain[n]
      OBVIOUS
    <3>2. PICK s : s = Chain[q]
      OBVIOUS
    <3>3. s = <<q>> \o t
      BY <2>2, <3>1, <3>2, ChainDef
    <3>4. Follows(t, n) /\ Falls(t) /\ n \in Pbufs
      BY <2>2, <3>1
    <3>5. PICK m \in Nat : m = Len(t) /\ m >= 1
      BY <3>4 DEF Follows
    <3>6. t \in Seq(Pbufs) /\ t[1] = n
      BY <3>4 DEF Follows
    <3>7. /\ s \in Seq(Pbufs) /\ Len(s) = m + 1 /\ s[1] = q
          /\ \A i \in 2..m + 1 : s[i] = t[i - 1]
      BY <3>3, <3>5, <3>6
    <3>8. \A i \in 1..m : t[i] \in Pbufs /\ rank[t[i]] \in Nat
      BY <1>3, <3>4, <3>5 DEF Follows
    <3>9. Follows(s, q)
      <4>1. \A i \in 1..m + 1 : s[i] \in Pbufs
        <5> SUFFICES ASSUME NEW i \in 1..m + 1 PROVE s[i] \in Pbufs
          OBVIOUS
        <5>1. CASE i = 1
          BY <3>7, <5>1
        <5>2. CASE i # 1
          <6>1. i \in 2..m + 1 /\ i - 1 \in 1..m
            BY <5>2
          <6> QED
            BY <3>7, <3>8, <6>1
        <5> QED
          BY <5>1, <5>2
      <4>2. ASSUME NEW i \in 1..m
            PROVE  pbuf[s[i]].next = s[i + 1]
        <5>1. i + 1 \in 2..m + 1 /\ i + 1 - 1 = i
          OBVIOUS
        <5>2. s[i + 1] = t[i]
          BY <3>7, <5>1
        <5>3. CASE i = 1
          BY <3>6, <3>7, <5>2, <5>3
        <5>4. CASE i # 1
          <6>1. i \in 2..m + 1 /\ i - 1 \in 1..m - 1 /\ i - 1 + 1 = i
            BY <5>4
          <6>2. pbuf[t[i - 1]].next = t[i]
            BY <3>4, <3>5, <6>1 DEF Follows
          <6> QED
            BY <3>7, <5>2, <6>1, <6>2
        <5> QED
          BY <5>3, <5>4
      <4>3. pbuf[s[m + 1]].next = NULL
        <5>1. m + 1 \in 2..m + 1 /\ m + 1 - 1 = m
          BY <3>5
        <5>2. s[m + 1] = t[m]
          BY <3>7, <5>1
        <5> QED
          BY <3>4, <3>5, <5>2 DEF Follows
      <4>4. m + 1 - 1 = m
        BY <3>5
      <4> QED
        BY <3>5, <3>7, <4>1, <4>2, <4>3, <4>4 DEF Follows
    <3>10. Falls(s)
      <4> SUFFICES ASSUME NEW i \in 1..m + 1, NEW j \in 1..m + 1, i < j
                   PROVE  rank[s[j]] < rank[s[i]]
        BY <3>7
      <4>1. j \in 2..m + 1 /\ j - 1 \in 1..m
        OBVIOUS
      <4>2. s[j] = t[j - 1]
        BY <3>7, <4>1
      <4>3. CASE i = 1
        <5>1. rank[n] < rank[q] /\ rank[n] \in Nat /\ rank[q] \in Nat
          BY <1>2, <1>3, <2>2, <3>4 DEF Downhill
        <5>2. rank[t[j - 1]] <= rank[n]
          <6>1. CASE j - 1 = 1
            BY <3>6, <5>1, <6>1
          <6>2. CASE j - 1 # 1
            <7>1. 1 \in 1..m /\ 1 < j - 1
              BY <4>1, <6>2
            <7>2. rank[t[j - 1]] < rank[t[1]]
              BY <3>4, <3>5, <4>1, <7>1
            <7> QED
              BY <3>6, <3>8, <4>1, <5>1, <7>2
          <6> QED
            BY <6>1, <6>2
        <5> QED
          BY <3>7, <3>8, <4>1, <4>2, <4>3, <5>1, <5>2
      <4>4. CASE i # 1
        <5>1. i \in 2..m + 1 /\ i - 1 \in 1..m /\ i - 1 < j - 1
          BY <4>4
        <5> QED
          BY <3>4, <3>5, <3>7, <4>1, <4>2, <5>1
      <4> QED
        BY <4>3, <4>4
    <3> QED
      BY <3>2, <3>9, <3>10
  <2> QED
    BY <1>4, <2>1, <2>2
<1>5. Pbufs \subseteq B
  <2> HIDE DEF B
  <2> QED
    BY <1>4, Climb
<1>6. Follows(Chain[p], p) /\ Falls(Chain[p])
  BY <1>5
<1>7. \A i \in 1..Len(Chain[p]) : rank[Chain[p][i]] \in Nat
  BY <1>3, <1>6 DEF Follows
<1>8. Len(Chain[p]) \in Nat
  BY <1>6 DEF Follows
<1> QED
  BY <1>6, <1>7, <1>8

\* The pbufs of a packet: what is behind one of them, and before it.
LEMMA InChainIs ==
  ASSUME LinksOf(pbuf), NextOnce(pbuf), NULL \notin Pbufs, NEW p \in Pbufs
  PROVE  /\ p \in InChain(p) /\ InChain(p) \subseteq Pbufs
         /\ \A r \in InChain(p) : pbuf[r].next = NULL \/ pbuf[r].next \in InChain(p)
         /\ \A r \in Pbufs : pbuf[r].next \in InChain(p) =>
              r \in InChain(p) \/ pbuf[r].next = p
         /\ \E e \in InChain(p) :
              pbuf[e].next = NULL /\ \A r \in InChain(p) : pbuf[r].next = NULL => r = e
<1>1. PICK s : s = Chain[p]
  OBVIOUS
<1>2. Follows(s, p)
  BY <1>1, ChainIs
<1>3. PICK n \in Nat : n = Len(s) /\ n >= 1
  BY <1>2 DEF Follows
<1>4. /\ s[1] = p /\ pbuf[s[n]].next = NULL /\ DOMAIN s = 1..n
      /\ \A i \in 1..n : s[i] \in Pbufs
      /\ \A i \in 1..n - 1 : pbuf[s[i]].next = s[i + 1]
  BY <1>2, <1>3, LenProperties DEF Follows
<1>5. InChain(p) = {s[i] : i \in 1..n}
  BY <1>1, <1>4 DEF InChain
<1>6. p \in InChain(p) /\ InChain(p) \subseteq Pbufs
  <2>1. 1 \in 1..n
    BY <1>3
  <2> QED
    BY <1>4, <1>5, <2>1
<1>7. ASSUME NEW r \in InChain(p), pbuf[r].next # NULL
      PROVE  pbuf[r].next \in InChain(p)
  <2>1. PICK i \in 1..n : r = s[i]
    BY <1>5
  <2>2. i # n
    BY <1>4, <1>7, <2>1
  <2>3. i \in 1..n - 1 /\ i + 1 \in 1..n
    BY <1>3, <2>2
  <2> QED
    BY <1>4, <1>5, <2>1, <2>3
<1>8. ASSUME NEW r \in Pbufs, pbuf[r].next \in InChain(p), pbuf[r].next # p
      PROVE  r \in InChain(p)
  <2>1. PICK i \in 1..n : pbuf[r].next = s[i]
    BY <1>5, <1>8
  <2>2. i # 1
    BY <1>4, <1>8, <2>1
  <2>3. i - 1 \in 1..n - 1 /\ i - 1 \in 1..n /\ i - 1 + 1 = i
    BY <1>3, <2>2
  <2>4. pbuf[s[i - 1]].next = s[i] /\ s[i - 1] \in Pbufs /\ s[i] # NULL
    BY <1>4, <2>3
  <2>5. r = s[i - 1]
    BY <2>1, <2>4 DEF NextOnce
  <2> QED
    BY <1>5, <2>3, <2>5
<1>9. \E e \in InChain(p) :
        pbuf[e].next = NULL /\ \A r \in InChain(p) : pbuf[r].next = NULL => r = e
  <2>1. n \in 1..n
    BY <1>3
  <2>2. s[n] \in InChain(p)
    BY <1>5, <2>1
  <2>3. ASSUME NEW r \in InChain(p), pbuf[r].next = NULL
        PROVE  r = s[n]
    <3>1. PICK i \in 1..n : r = s[i]
      BY <1>5
    <3>2. i = n
      <4> SUFFICES ASSUME i # n PROVE FALSE
        OBVIOUS
      <4>1. i \in 1..n - 1 /\ i + 1 \in 1..n
        BY <1>3
      <4>2. s[i + 1] = NULL /\ s[i + 1] \in Pbufs
        BY <1>4, <2>3, <3>1, <4>1
      <4> QED
        BY <4>2
    <3> QED
      BY <3>1, <3>2
  <2> QED
    BY <1>4, <2>2, <2>3
<1> QED
  BY <1>6, <1>7, <1>8, <1>9

\* A chain is its first pbuf and the chain behind it.
LEMMA InChainStep ==
  ASSUME LinksOf(pbuf), NEW p \in Pbufs
  PROVE  InChain(p) = {p} \union IF pbuf[p].next = NULL THEN {}
                                 ELSE InChain(pbuf[p].next)
<1>1. CASE pbuf[p].next = NULL
  <2>1. Chain[p] = <<p>>
    <3>1. Chain[p] = <<p>> \o <<>>
      BY <1>1, ChainDef
    <3> QED
      BY <3>1
  <2>2. DOMAIN <<p>> = {1} /\ <<p>>[1] = p
    OBVIOUS
  <2> QED
    BY <1>1, <2>1, <2>2 DEF InChain
<1>2. CASE pbuf[p].next # NULL
  <2> DEFINE n == pbuf[p].next
  <2>1. n \in Pbufs
    BY <1>2 DEF LinksOf
  <2>2. PICK t : t = Chain[n]
    OBVIOUS
  <2>3. PICK s : s = Chain[p]
    OBVIOUS
  <2>4. t \in Seq(Pbufs) /\ s = <<p>> \o t
    BY <1>2, <2>1, <2>2, <2>3, ChainDef
  <2>5. PICK m \in Nat : m = Len(t)
    BY <2>4
  <2>6. /\ DOMAIN t = 1..m /\ DOMAIN s = 1..m + 1 /\ s[1] = p
        /\ \A i \in 1..m : s[i + 1] = t[i]
    BY <2>4, <2>5
  <2>7. InChain(p) = {s[i] : i \in 1..m + 1} /\ InChain(n) = {t[i] : i \in 1..m}
    BY <2>2, <2>3, <2>6 DEF InChain
  <2>8. ASSUME NEW i \in 1..m + 1
        PROVE  s[i] = p \/ \E j \in 1..m : s[i] = t[j]
    <3>1. CASE i = 1
      BY <2>6, <3>1
    <3>2. CASE i # 1
      <4>1. i - 1 \in 1..m /\ i - 1 + 1 = i
        BY <3>2
      <4> QED
        BY <2>6, <4>1
    <3> QED
      BY <3>1, <3>2
  <2>9. ASSUME NEW i \in 1..m
        PROVE  \E j \in 1..m + 1 : t[i] = s[j]
    <3>1. i + 1 \in 1..m + 1
      OBVIOUS
    <3> QED
      BY <2>6, <3>1
  <2>10. \E j \in 1..m + 1 : p = s[j]
    <3>1. 1 \in 1..m + 1
      BY <2>5
    <3> QED
      BY <2>6, <3>1
  <2>11. InChain(p) = {p} \union InChain(n)
    BY <2>7, <2>8, <2>9, <2>10
  <2> QED
    BY <1>2, <2>11
<1> QED
  BY <1>1, <1>2

\* It is in every set that keeps to the links and has its first.
LEMMA InChainLeast ==
  ASSUME LinksOf(pbuf), NEW S,
         \A r \in S \intersect Pbufs : pbuf[r].next = NULL \/ pbuf[r].next \in S,
         NEW p \in Pbufs, p \in S
  PROVE  InChain(p) \subseteq S
<1> DEFINE B == {r \in Pbufs : r \in S => InChain(r) \subseteq S}
<1>1. ASSUME NEW r \in Pbufs, pbuf[r].next = NULL \/ pbuf[r].next \in B
      PROVE  r \in B
  <2> SUFFICES ASSUME r \in S PROVE InChain(r) \subseteq S
    OBVIOUS
  <2>1. InChain(r) = {r} \union IF pbuf[r].next = NULL THEN {}
                                ELSE InChain(pbuf[r].next)
    BY InChainStep
  <2>2. pbuf[r].next = NULL \/ pbuf[r].next \in S
    OBVIOUS
  <2> QED
    BY <1>1, <2>1, <2>2
<1>2. Pbufs \subseteq B
  <2> HIDE DEF B
  <2> QED
    BY <1>1, Climb
<1> QED
  BY <1>2

\* Every pbuf of a chain but the first has another before it.
LEMMA InChainBefore ==
  ASSUME LinksOf(pbuf), NEW p \in Pbufs, NEW r \in InChain(p), r # p
  PROVE  \E q \in InChain(p) : pbuf[q].next = r
<1>1. PICK s : s = Chain[p]
  OBVIOUS
<1>2. Follows(s, p)
  BY <1>1, ChainIs
<1>3. PICK n \in Nat : n = Len(s) /\ n >= 1
  BY <1>2 DEF Follows
<1>4. s[1] = p /\ DOMAIN s = 1..n /\ \A i \in 1..n - 1 : pbuf[s[i]].next = s[i + 1]
  BY <1>2, <1>3, LenProperties DEF Follows
<1>5. InChain(p) = {s[i] : i \in 1..n}
  BY <1>1, <1>4 DEF InChain
<1>6. PICK i \in 1..n : r = s[i]
  BY <1>5
<1>7. i # 1
  BY <1>4, <1>6
<1>8. i - 1 \in 1..n - 1 /\ i - 1 \in 1..n /\ i - 1 + 1 = i
  BY <1>3, <1>7
<1>9. s[i - 1] \in InChain(p)
  BY <1>5, <1>8
<1> QED
  BY <1>4, <1>6, <1>8, <1>9

------------------------------
(* Walking along a packet. *)

Sizes(pb) == \A p \in Pbufs : pb[p].len \in Nat /\ pb[p].tot_len \in Nat

\* What pbuf_realloc's walk computes, one pbuf at a time.
LEMMA WalkDef ==
  ASSUME LinksOf(pbuf), Sizes(pbuf)
  PROVE  /\ \A n \in Nat : WalkTo[NULL][n] = [at |-> NULL, left |-> n]
         /\ \A p \in Pbufs, n \in Nat :
              WalkTo[p][n] = IF n > pbuf[p].len
                             THEN WalkTo[pbuf[p].next][n - pbuf[p].len]
                             ELSE [at |-> p, left |-> n]
<1> DEFINE Y == [at : Pbufs \union {NULL}, left : Nat]
           X == [Nat -> Y]
           x == [n \in Nat |-> [at |-> NULL, left |-> n]]
           G == [p \in Pbufs |-> [w \in X |-> [n \in Nat |->
                   IF n > pbuf[p].len THEN w[n - pbuf[p].len]
                   ELSE [at |-> p, left |-> n]]]]
           N == Pbufs \union {NULL}
<1>1. NULL \notin Pbufs /\ \A p \in Pbufs : pbuf[p].len \in Nat /\ pbuf[p].next \in N
  BY PbufAssumption DEF LinksOf, Sizes
<1>2. x \in X
  OBVIOUS
<1>3. G \in [Pbufs -> [X -> X]]
  <2>1. ASSUME NEW p \in Pbufs, NEW w \in X, NEW n \in Nat
        PROVE  (IF n > pbuf[p].len THEN w[n - pbuf[p].len]
                ELSE [at |-> p, left |-> n]) \in Y
    <3>1. CASE n > pbuf[p].len
      <4>1. n - pbuf[p].len \in Nat
        BY <1>1, <3>1
      <4>2. w[n - pbuf[p].len] \in Y
        <5> HIDE DEF Y
        <5> QED
          BY <4>1
      <4> QED
        BY <3>1, <4>2
    <3>2. CASE ~(n > pbuf[p].len)
      BY <3>2
    <3> QED
      BY <3>1, <3>2
  <2>2. ASSUME NEW p \in Pbufs, NEW w \in X
        PROVE  [n \in Nat |-> IF n > pbuf[p].len THEN w[n - pbuf[p].len]
                              ELSE [at |-> p, left |-> n]] \in X
    <3> HIDE DEF Y
    <3> QED
      BY <2>1
  <2> HIDE DEF X
  <2> QED
    BY <2>2
<1>4. PICK f \in [N -> X] : f[NULL] = x /\ \A p \in Pbufs : f[p] = G[p][f[pbuf[p].next]]
  <2> HIDE DEF X, x, G
  <2>1. DefinedBy(pbuf, X, x, G)
    BY <1>2, <1>3, Defined
  <2> QED
    BY <2>1 DEF DefinedBy
<1> DEFINE At(w, p, n) == IF p # NULL /\ n > pbuf[p].len
                          THEN w[pbuf[p].next][n - pbuf[p].len]
                          ELSE [at |-> p, left |-> n]
<1>5. \A p \in N : f[p] = [n \in Nat |-> At(f, p, n)]
  <2> SUFFICES ASSUME NEW p \in N PROVE f[p] = [n \in Nat |-> At(f, p, n)]
    OBVIOUS
  <2>1. CASE p = NULL
    BY <1>4, <2>1
  <2>2. CASE p # NULL
    <3>1. p \in Pbufs /\ f[pbuf[p].next] \in X
      BY <1>1, <1>4, <2>2
    <3>2. f[p] = G[p][f[pbuf[p].next]]
      BY <1>4, <3>1
    <3>3. G[p][f[pbuf[p].next]] = [n \in Nat |->
            IF n > pbuf[p].len THEN f[pbuf[p].next][n - pbuf[p].len]
            ELSE [at |-> p, left |-> n]]
      <4> HIDE DEF X
      <4> QED
        BY <3>1
    <3> QED
      BY <2>2, <3>2, <3>3
  <2> QED
    BY <2>1, <2>2
<1>6. f = [p \in N |-> [n \in Nat |-> At(f, p, n)]]
  <2>1. f = [p \in N |-> f[p]]
    BY <1>4
  <2> HIDE DEF At, N
  <2> QED
    BY <1>5, <2>1
<1>7. WalkTo = [p \in N |-> [n \in Nat |-> At(WalkTo, p, n)]]
  BY <1>6, Zenon DEF WalkTo
<1>8. \A p \in N : WalkTo[p] = [n \in Nat |-> At(WalkTo, p, n)]
  BY <1>7, Zenon
<1>9. \A p \in N, n \in Nat : WalkTo[p][n] = At(WalkTo, p, n)
  <2> SUFFICES ASSUME NEW p \in N, NEW n \in Nat
               PROVE  WalkTo[p][n] = At(WalkTo, p, n)
    OBVIOUS
  <2> HIDE DEF At, N
  <2>1. WalkTo[p] = [m \in Nat |-> At(WalkTo, p, m)]
    BY <1>8
  <2> QED
    BY <2>1
<1> HIDE DEF Y, X, x, G
<1>10. \A n \in Nat : WalkTo[NULL][n] = [at |-> NULL, left |-> n]
  BY <1>9
<1> QED
  BY <1>1, <1>9, <1>10

\* In a packet whose lengths agree, byte n is in the pbuf that WalkTo finds.
LEMMA WalkIs ==
  ASSUME LinksOf(pbuf), Sizes(pbuf), \A p \in Pbufs : Agree(pbuf, p),
         NEW p \in Pbufs, NEW n \in Nat, n <= pbuf[p].tot_len,
         NEW q, q = WalkTo[p][n].at, NEW k, k = WalkTo[p][n].left
  PROVE  /\ q \in InChain(p) /\ k \in Nat /\ k <= pbuf[q].len
         /\ pbuf[p].tot_len - n = pbuf[q].tot_len - k
<1> DEFINE Fits(r, m, w) ==
             /\ w.at \in InChain(r) /\ w.left \in Nat /\ w.left <= pbuf[w.at].len
             /\ pbuf[r].tot_len - m = pbuf[w.at].tot_len - w.left
           B == {r \in Pbufs :
                   \A m \in Nat : m <= pbuf[r].tot_len => Fits(r, m, WalkTo[r][m])}
<1>1. ASSUME NEW r \in Pbufs, pbuf[r].next = NULL \/ pbuf[r].next \in B
      PROVE  r \in B
  <2> SUFFICES ASSUME NEW m \in Nat, m <= pbuf[r].tot_len
               PROVE  Fits(r, m, WalkTo[r][m])
    OBVIOUS
  <2>1. /\ pbuf[r].len \in Nat /\ pbuf[r].tot_len \in Nat
        /\ pbuf[r].tot_len = pbuf[r].len
             + IF pbuf[r].next = NULL THEN 0 ELSE pbuf[pbuf[r].next].tot_len
    BY DEF Sizes, Agree
  <2>2. InChain(r) = {r} \union IF pbuf[r].next = NULL THEN {}
                                ELSE InChain(pbuf[r].next)
    BY InChainStep
  <2>3. WalkTo[r][m] = IF m > pbuf[r].len
                       THEN WalkTo[pbuf[r].next][m - pbuf[r].len]
                       ELSE [at |-> r, left |-> m]
    BY WalkDef
  <2>4. CASE m > pbuf[r].len
    <3>1. pbuf[r].next # NULL /\ pbuf[r].next \in B
      <4>1. pbuf[r].next # NULL
        <5> HIDE DEF B
        <5> QED
          BY <2>1, <2>4
      <4> HIDE DEF B
      <4> QED
        BY <1>1, <4>1
    <3> DEFINE t == pbuf[r].next
               d == m - pbuf[r].len
    <3>2. t \in Pbufs /\ pbuf[t].tot_len \in Nat
      BY <3>1 DEF Sizes
    <3>3. d \in Nat /\ d <= pbuf[t].tot_len
      BY <2>1, <2>4, <3>1, <3>2
    <3>4. PICK w : w = WalkTo[t][d]
      OBVIOUS
    <3>5. Fits(t, d, w)
      BY <3>1, <3>3, <3>4
    <3>6. WalkTo[r][m] = w
      BY <2>3, <2>4, <3>4
    <3>7. w.at \in InChain(r)
      BY <2>2, <3>1, <3>5
    <3>8. pbuf[r].tot_len - m = pbuf[t].tot_len - d
      BY <2>1, <3>1, <3>2
    <3> QED
      BY <3>5, <3>6, <3>7, <3>8
  <2>5. CASE ~(m > pbuf[r].len)
    <3>1. PICK w : w = [at |-> r, left |-> m]
      OBVIOUS
    <3>2. w.at = r /\ w.left = m /\ WalkTo[r][m] = w
      BY <2>3, <2>5, <3>1
    <3>3. r \in InChain(r)
      BY <2>2
    <3> QED
      BY <2>1, <2>5, <3>2, <3>3
  <2> QED
    BY <2>4, <2>5
<1>2. Pbufs \subseteq B
  <2> HIDE DEF B
  <2> QED
    BY <1>1, Climb
<1>3. Fits(p, n, WalkTo[p][n])
  BY <1>2
<1> QED
  BY <1>3

\* What pbuf_free_header's walk computes, one pbuf at a time.
LEMMA FreeToDef ==
  ASSUME LinksOf(pbuf), Sizes(pbuf)
  PROVE  /\ \A n \in Nat : FreeTo[NULL][n] = [at |-> NULL, left |-> 0]
         /\ \A p \in Pbufs, n \in Nat :
              FreeTo[p][n] = IF n = 0 THEN [at |-> p, left |-> 0]
                             ELSE IF n >= pbuf[p].len
                             THEN FreeTo[pbuf[p].next][n - pbuf[p].len]
                             ELSE [at |-> p, left |-> n]
<1> DEFINE Y == [at : Pbufs \union {NULL}, left : Nat]
           X == [Nat -> Y]
           x == [n \in Nat |-> [at |-> NULL, left |-> 0]]
           G == [p \in Pbufs |-> [w \in X |-> [n \in Nat |->
                   IF n = 0 THEN [at |-> p, left |-> 0]
                   ELSE IF n >= pbuf[p].len THEN w[n - pbuf[p].len]
                   ELSE [at |-> p, left |-> n]]]]
           N == Pbufs \union {NULL}
<1>1. NULL \notin Pbufs /\ \A p \in Pbufs : pbuf[p].len \in Nat /\ pbuf[p].next \in N
  BY PbufAssumption DEF LinksOf, Sizes
<1>2. x \in X
  OBVIOUS
<1>3. G \in [Pbufs -> [X -> X]]
  <2>1. ASSUME NEW p \in Pbufs, NEW w \in X, NEW n \in Nat
        PROVE  (IF n = 0 THEN [at |-> p, left |-> 0]
                ELSE IF n >= pbuf[p].len THEN w[n - pbuf[p].len]
                ELSE [at |-> p, left |-> n]) \in Y
    <3>1. CASE n >= pbuf[p].len /\ n # 0
      <4>1. n - pbuf[p].len \in Nat
        BY <1>1, <3>1
      <4>2. w[n - pbuf[p].len] \in Y
        <5> HIDE DEF Y
        <5> QED
          BY <4>1
      <4> QED
        BY <3>1, <4>2
    <3>2. CASE ~(n >= pbuf[p].len) \/ n = 0
      BY <3>2
    <3> QED
      BY <3>1, <3>2
  <2>2. ASSUME NEW p \in Pbufs, NEW w \in X
        PROVE  [n \in Nat |-> IF n = 0 THEN [at |-> p, left |-> 0]
                              ELSE IF n >= pbuf[p].len THEN w[n - pbuf[p].len]
                              ELSE [at |-> p, left |-> n]] \in X
    <3> HIDE DEF Y
    <3> QED
      BY <2>1
  <2> HIDE DEF X
  <2> QED
    BY <2>2
<1>4. PICK f \in [N -> X] : f[NULL] = x /\ \A p \in Pbufs : f[p] = G[p][f[pbuf[p].next]]
  <2> HIDE DEF X, x, G
  <2>1. DefinedBy(pbuf, X, x, G)
    BY <1>2, <1>3, Defined
  <2> QED
    BY <2>1 DEF DefinedBy
<1> DEFINE At(w, p, n) == IF p = NULL \/ n = 0 THEN [at |-> p, left |-> 0]
                          ELSE IF n >= pbuf[p].len
                          THEN w[pbuf[p].next][n - pbuf[p].len]
                          ELSE [at |-> p, left |-> n]
<1>5. \A p \in N : f[p] = [n \in Nat |-> At(f, p, n)]
  <2> SUFFICES ASSUME NEW p \in N PROVE f[p] = [n \in Nat |-> At(f, p, n)]
    OBVIOUS
  <2>1. CASE p = NULL
    BY <1>4, <2>1
  <2>2. CASE p # NULL
    <3>1. p \in Pbufs /\ f[pbuf[p].next] \in X
      BY <1>1, <1>4, <2>2
    <3>2. f[p] = G[p][f[pbuf[p].next]]
      BY <1>4, <3>1
    <3>3. G[p][f[pbuf[p].next]] = [n \in Nat |->
            IF n = 0 THEN [at |-> p, left |-> 0]
            ELSE IF n >= pbuf[p].len THEN f[pbuf[p].next][n - pbuf[p].len]
            ELSE [at |-> p, left |-> n]]
      <4> HIDE DEF X
      <4> QED
        BY <3>1
    <3> QED
      BY <2>2, <3>2, <3>3
  <2> QED
    BY <2>1, <2>2
<1>6. f = [p \in N |-> [n \in Nat |-> At(f, p, n)]]
  <2>1. f = [p \in N |-> f[p]]
    BY <1>4
  <2> HIDE DEF At, N
  <2> QED
    BY <1>5, <2>1
<1>7. FreeTo = [p \in N |-> [n \in Nat |-> At(FreeTo, p, n)]]
  BY <1>6, Zenon DEF FreeTo
<1>8. \A p \in N : FreeTo[p] = [n \in Nat |-> At(FreeTo, p, n)]
  BY <1>7, Zenon
<1>9. \A p \in N, n \in Nat : FreeTo[p][n] = At(FreeTo, p, n)
  <2> SUFFICES ASSUME NEW p \in N, NEW n \in Nat
               PROVE  FreeTo[p][n] = At(FreeTo, p, n)
    OBVIOUS
  <2> HIDE DEF At, N
  <2>1. FreeTo[p] = [m \in Nat |-> At(FreeTo, p, m)]
    BY <1>8
  <2> QED
    BY <2>1
<1> HIDE DEF Y, X, x, G
<1>10. \A n \in Nat : FreeTo[NULL][n] = [at |-> NULL, left |-> 0]
  BY <1>9
<1> QED
  BY <1>1, <1>9, <1>10

\* What is left of a packet begins in a pbuf that has that many bytes.
LEMMA FreeToIs ==
  ASSUME LinksOf(pbuf), Sizes(pbuf), NEW p \in Pbufs, NEW n \in Nat,
         NEW q, q = FreeTo[p][n].at, NEW k, k = FreeTo[p][n].left
  PROVE  q # NULL => q \in InChain(p) /\ k \in Nat /\ k <= pbuf[q].len
<1> DEFINE Fits(r, w) ==
             w.at # NULL =>
               /\ w.at \in InChain(r)
               /\ w.left \in Nat /\ w.left <= pbuf[w.at].len
           B == {r \in Pbufs : \A m \in Nat : Fits(r, FreeTo[r][m])}
<1>1. ASSUME NEW r \in Pbufs, pbuf[r].next = NULL \/ pbuf[r].next \in B
      PROVE  r \in B
  <2> SUFFICES ASSUME NEW m \in Nat PROVE Fits(r, FreeTo[r][m])
    OBVIOUS
  <2>1. pbuf[r].len \in Nat
    BY DEF Sizes
  <2>2. InChain(r) = {r} \union IF pbuf[r].next = NULL THEN {}
                                ELSE InChain(pbuf[r].next)
    BY InChainStep
  <2>3. FreeTo[r][m] = IF m = 0 THEN [at |-> r, left |-> 0]
                       ELSE IF m >= pbuf[r].len
                       THEN FreeTo[pbuf[r].next][m - pbuf[r].len]
                       ELSE [at |-> r, left |-> m]
    BY FreeToDef
  <2>4. CASE m # 0 /\ m >= pbuf[r].len
    <3> DEFINE t == pbuf[r].next
               d == m - pbuf[r].len
    <3>1. d \in Nat
      BY <2>1, <2>4
    <3>2. PICK w : w = FreeTo[t][d]
      OBVIOUS
    <3>3. FreeTo[r][m] = w
      BY <2>3, <2>4, <3>2
    <3>4. CASE t = NULL
      <4>1. FreeTo[NULL][d] = [at |-> NULL, left |-> 0]
        BY <3>1, FreeToDef
      <4>2. w.at = NULL
        BY <3>2, <3>4, <4>1
      <4>3. Fits(r, w)
        BY <4>2
      <4> QED
        BY <3>3, <4>3
    <3>5. CASE t # NULL
      <4>1. t \in B
        BY <1>1, <3>5
      <4>2. Fits(t, w)
        BY <3>1, <3>2, <4>1
      <4> QED
        BY <2>2, <3>3, <3>5, <4>2
    <3> QED
      BY <3>4, <3>5
  <2>5. CASE m = 0 \/ ~(m >= pbuf[r].len)
    <3>1. PICK w : w = [at |-> r, left |-> m]
      OBVIOUS
    <3>2. w.at = r /\ w.left = m /\ FreeTo[r][m] = w
      BY <2>3, <2>5, <3>1
    <3> QED
      BY <2>1, <2>2, <2>5, <3>2
  <2> QED
    BY <2>4, <2>5
<1>2. Pbufs \subseteq B
  <2> HIDE DEF B
  <2> QED
    BY <1>1, Climb
<1>3. Fits(p, FreeTo[p][n])
  BY <1>2
<1> QED
  BY <1>3

\* No pbuf of a packet whose lengths agree has more to come than its first.
LEMMA TotFalls ==
  ASSUME LinksOf(pbuf), Sizes(pbuf), \A p \in Pbufs : Agree(pbuf, p),
         NEW p \in Pbufs, NEW r \in InChain(p)
  PROVE  pbuf[r].tot_len <= pbuf[p].tot_len
<1> DEFINE B == {q \in Pbufs :
                   \A x \in InChain(q) \intersect Pbufs :
                     pbuf[x].tot_len <= pbuf[q].tot_len}
<1>1. ASSUME NEW q \in Pbufs, pbuf[q].next = NULL \/ pbuf[q].next \in B
      PROVE  q \in B
  <2> SUFFICES ASSUME NEW x \in InChain(q), x \in Pbufs
               PROVE  pbuf[x].tot_len <= pbuf[q].tot_len
    OBVIOUS
  <2>1. /\ pbuf[q].len \in Nat /\ pbuf[q].tot_len \in Nat /\ pbuf[x].tot_len \in Nat
        /\ pbuf[q].tot_len = pbuf[q].len
             + IF pbuf[q].next = NULL THEN 0 ELSE pbuf[pbuf[q].next].tot_len
    BY DEF Sizes, Agree
  <2>2. InChain(q) = {q} \union IF pbuf[q].next = NULL THEN {}
                                ELSE InChain(pbuf[q].next)
    BY InChainStep
  <2>3. CASE x = q
    BY <2>1, <2>3
  <2>4. CASE x # q
    <3>1. pbuf[q].next # NULL /\ x \in InChain(pbuf[q].next)
      BY <2>2, <2>4
    <3>2. pbuf[q].next \in B
      BY <1>1, <3>1
    <3>3. pbuf[x].tot_len <= pbuf[pbuf[q].next].tot_len
      BY <3>1, <3>2
    <3>4. pbuf[pbuf[q].next].tot_len \in Nat
      BY <3>2 DEF Sizes
    <3> QED
      BY <2>1, <3>1, <3>3, <3>4
  <2> QED
    BY <2>3, <2>4
<1>2. Pbufs \subseteq B
  <2> HIDE DEF B
  <2> QED
    BY <1>1, Climb
<1>3. r \in Pbufs
  <2>1. InChain(p) \subseteq Pbufs
    <3>1. \A x \in Pbufs \intersect Pbufs : pbuf[x].next = NULL \/ pbuf[x].next \in Pbufs
      BY DEF LinksOf
    <3> QED
      BY <3>1, InChainLeast
  <2> QED
    BY <2>1
<1> QED
  BY <1>2, <1>3

------------------------------
(* What changes of the shape of memory, and what it does to the counts. *)

\* NULL is no pbuf and no call of pbuf_alloc.
LEMMA NullIs == NULL \notin Pbufs /\ NULL \notin Allocs
  BY PbufAssumption

LEMMA RecordIs ==
  ASSUME NEW pb \in [Pbufs -> PbufRecord]
  PROVE  /\ Sizes(pb)
         /\ \A p \in Pbufs :
              /\ pb[p].ref \in Nat /\ pb[p].off \in Nat /\ pb[p].cap \in Nat
              /\ pb[p].next \in Pbufs \union {NULL}
              /\ pb[p].original \in Pbufs \union {NULL}
              /\ pb[p].len \in 0..U16 - 1 /\ pb[p].tot_len \in 0..U16 - 1
<1>1. \A p \in Pbufs : pb[p] \in PbufRecord
  OBVIOUS
<1>2. U16 \in Nat
  BY PbufAssumption
<1> QED
  BY <1>1, <1>2 DEF PbufRecord, Sizes

\* At most one next pointer leads to a pbuf, so they count zero or one.
LEMMA LinkCountIs ==
  ASSUME NEW pb, NextOnce(pb), NEW p \in Pbufs
  PROVE  LinkCount(pb, p) = IF \E q \in Pbufs : pb[q].next = p THEN 1 ELSE 0
<1> DEFINE S == {q \in Pbufs : pb[q].next = p}
<1>1. \A x, y \in S : x = y
  BY NullIs DEF NextOnce
<1>2. Cardinality(S) = IF S = {} THEN 0 ELSE 1
  BY <1>1, AtMostOne
<1> QED
  BY <1>2 DEF LinkCount

\* A step that writes no next pointer keeps the shape of every chain.
LEMMA SameLinks ==
  ASSUME NEW pb, NEW pb2, \A p \in Pbufs : pb2[p].next = pb[p].next
  PROVE  /\ NextOnce(pb) => NextOnce(pb2)
         /\ Acyclic(pb) => Acyclic(pb2)
         /\ \A p \in Pbufs : LinkCount(pb2, p) = LinkCount(pb, p)
<1>1. NextOnce(pb) => NextOnce(pb2)
  BY DEF NextOnce
<1>2. Acyclic(pb) => Acyclic(pb2)
  <2> SUFFICES ASSUME NEW K \in Nat, NEW rank, Downhill(pb, K, rank)
               PROVE  Downhill(pb2, K, rank)
    BY DEF Acyclic
  <2> QED
    BY DEF Downhill
<1>3. ASSUME NEW p \in Pbufs
      PROVE  LinkCount(pb2, p) = LinkCount(pb, p)
  <2>1. {q \in Pbufs : pb2[q].next = p} = {q \in Pbufs : pb[q].next = p}
    OBVIOUS
  <2> QED
    BY <2>1 DEF LinkCount
<1> QED
  BY <1>1, <1>2, <1>3

\* A step that writes no original keeps the count of those who name a pbuf.
LEMMA SameOriginals ==
  ASSUME NEW pb, NEW pb2, \A p \in Pbufs : pb2[p].original = pb[p].original
  PROVE  \A p \in Pbufs : OrigCount(pb2, p) = OrigCount(pb, p)
<1> SUFFICES ASSUME NEW p \in Pbufs PROVE OrigCount(pb2, p) = OrigCount(pb, p)
  OBVIOUS
<1>1. {q \in Pbufs : pb2[q].original = p} = {q \in Pbufs : pb[q].original = p}
  OBVIOUS
<1> QED
  BY <1>1 DEF OrigCount

\* A pbuf is given an original, or loses it.
Adopts(pb, pb2, x, o) ==
  /\ x \in Pbufs /\ pb[x].original = NULL /\ pb2[x].original = o
  /\ \A p \in Pbufs \ {x} : pb2[p].original = pb[p].original

\* A custom pbuf that adopts an original counts once more for it alone.
LEMMA OriginalOf ==
  ASSUME NEW pb, NEW pb2, NEW x, NEW o, Adopts(pb, pb2, x, o),
         NEW p \in Pbufs
  PROVE  /\ OrigCount(pb2, p) = OrigCount(pb, p) + IF p = o THEN 1 ELSE 0
         /\ OrigCount(pb, p) \in Nat
<1> DEFINE S == {q \in Pbufs : pb[q].original = p}
           T == {q \in Pbufs : pb2[q].original = p}
<1>1. x \notin S
  BY NullIs DEF Adopts
<1>2. T = IF p = o THEN S \union {x} ELSE S
  BY <1>1 DEF Adopts
<1>3. OrigCount(pb, p) = Cardinality(S) /\ OrigCount(pb2, p) = Cardinality(T)
  BY DEF OrigCount
<1>4. S \subseteq Pbufs
  OBVIOUS
<1> HIDE DEF S, T
<1>5. Cardinality(S) \in Nat /\ Cardinality(S \union {x}) = Cardinality(S) + 1
  BY <1>1, <1>4, CountIs
<1> QED
  BY <1>2, <1>3, <1>5

\* Links are cut.
LEMMA LinksCut ==
  ASSUME NEW pb, NEW pb2, \A p \in Pbufs : pb2[p].next \in {pb[p].next, NULL}
  PROVE  /\ NextOnce(pb) => NextOnce(pb2)
         /\ Acyclic(pb) => Acyclic(pb2)
<1>1. NextOnce(pb) => NextOnce(pb2)
  BY DEF NextOnce
<1>2. Acyclic(pb) => Acyclic(pb2)
  <2> SUFFICES ASSUME NEW K \in Nat, NEW rank, Downhill(pb, K, rank)
               PROVE  Downhill(pb2, K, rank)
    BY DEF Acyclic
  <2> QED
    BY DEF Downhill
<1> QED
  BY <1>1, <1>2

\* One link is cut.
LEMMA LinkCut ==
  ASSUME NEW pb, NEW pb2, NextOnce(pb), Acyclic(pb), NEW x \in Pbufs,
         pb2[x].next = NULL,
         \A p \in Pbufs \ {x} : pb2[p].next = pb[p].next
  PROVE  /\ NextOnce(pb2) /\ Acyclic(pb2)
         /\ \A p \in Pbufs :
              /\ LinkCount(pb, p) \in Nat
              /\ LinkCount(pb, p) = LinkCount(pb2, p)
                                    + IF p = pb[x].next THEN 1 ELSE 0
<1>1. \A p \in Pbufs : pb2[p].next \in {pb[p].next, NULL}
  OBVIOUS
<1>2. NextOnce(pb2) /\ Acyclic(pb2)
  BY <1>1, LinksCut
<1>3. ASSUME NEW p \in Pbufs
      PROVE  /\ LinkCount(pb, p) \in Nat
             /\ LinkCount(pb, p) = LinkCount(pb2, p) + IF p = pb[x].next THEN 1 ELSE 0
  <2>1. LinkCount(pb, p) = IF \E q \in Pbufs : pb[q].next = p THEN 1 ELSE 0
    BY LinkCountIs
  <2>2. LinkCount(pb2, p) = IF \E q \in Pbufs : pb2[q].next = p THEN 1 ELSE 0
    BY <1>2, LinkCountIs
  <2>3. p # NULL
    BY NullIs
  <2>4. CASE p = pb[x].next
    <3>1. \A q \in Pbufs : pb2[q].next # p
      BY <2>3, <2>4 DEF NextOnce
    <3> QED
      BY <2>1, <2>2, <2>4, <3>1
  <2>5. CASE p # pb[x].next
    <3>1. \A q \in Pbufs : pb2[q].next = p <=> pb[q].next = p
      BY <2>3, <2>5
    <3> QED
      BY <2>1, <2>2, <2>5, <3>1
  <2> QED
    BY <2>4, <2>5
<1> QED
  BY <1>2, <1>3

\* A link is made from the last pbuf e of a packet to t.  A has what is before e.
LEMMA LinkMade ==
  ASSUME NEW pb, NEW pb2, NextOnce(pb), LinksOf(pb),
         NEW e \in Pbufs, pb[e].next = NULL,
         NEW t \in Pbufs, \A q \in Pbufs : pb[q].next # t,
         NEW A, e \in A, t \notin A, A \subseteq Pbufs,
         \A q \in Pbufs : pb[q].next \in A => q \in A,
         pb2[e].next = t,
         \A p \in Pbufs \ {e} : pb2[p].next = pb[p].next
  PROVE  /\ NextOnce(pb2) /\ Acyclic(pb2)
         /\ \A p \in Pbufs :
              /\ LinkCount(pb, p) \in Nat
              /\ LinkCount(pb2, p) = LinkCount(pb, p) + IF p = t THEN 1 ELSE 0
<1>1. NextOnce(pb2)
  BY DEF NextOnce
<1>2. Acyclic(pb2)
  <2>1. PICK K \in Nat : \E rank : Downhill(pb, K, rank)
    BY DEF Acyclic, LinksOf
  <2>2. PICK rank : Downhill(pb, K, rank)
    BY <2>1
  <2>3. \A p \in Pbufs : rank[p] \in 0..K
    BY <2>2 DEF Downhill
  <2> DEFINE r2 == [p \in Pbufs |-> IF p \in A THEN rank[p] + (rank[t] + 1) ELSE rank[p]]
  <2>4. r2 \in [Pbufs -> 0..K + K + 1]
    <3> SUFFICES ASSUME NEW p \in Pbufs
                 PROVE  (IF p \in A THEN rank[p] + (rank[t] + 1) ELSE rank[p])
                          \in 0..K + K + 1
      OBVIOUS
    <3>1. rank[p] \in 0..K /\ rank[t] \in 0..K
      BY <2>3
    <3> QED
      BY <3>1
  <2>5. ASSUME NEW p \in Pbufs, pb2[p].next # NULL
        PROVE  r2[pb2[p].next] < r2[p]
    <3>1. CASE p = e
      <4>1. r2[t] = rank[t] /\ r2[e] = rank[e] + (rank[t] + 1)
        OBVIOUS
      <4>2. rank[e] \in 0..K /\ rank[t] \in 0..K
        BY <2>3
      <4> QED
        BY <3>1, <4>1, <4>2
    <3>2. CASE p # e
      <4> DEFINE n == pb[p].next
      <4>1. pb2[p].next = n /\ n # NULL
        BY <2>5, <3>2
      <4>2. rank[n] < rank[p]
        BY <2>2, <4>1 DEF Downhill
      <4>3. rank[p] \in 0..K /\ rank[t] \in 0..K
        BY <2>3
      <4>4. CASE n \in Pbufs
        <5>1. rank[n] \in 0..K
          BY <2>3, <4>4
        <5>2. n \in A => p \in A
          OBVIOUS
        <5>3. r2[n] = (IF n \in A THEN rank[n] + (rank[t] + 1) ELSE rank[n])
          BY <4>4
        <5>4. r2[p] = (IF p \in A THEN rank[p] + (rank[t] + 1) ELSE rank[p])
          OBVIOUS
        <5> HIDE DEF r2
        <5> QED
          BY <4>1, <4>2, <4>3, <5>1, <5>2, <5>3, <5>4
      <4> QED
        BY <4>1, <4>4 DEF LinksOf
    <3> QED
      BY <3>1, <3>2
  <2>6. Downhill(pb2, K + K + 1, r2)
    <3> HIDE DEF r2
    <3> QED
      BY <2>4, <2>5 DEF Downhill
  <2>7. K + K + 1 \in Nat
    OBVIOUS
  <2> HIDE DEF r2
  <2> QED
    BY <2>6, <2>7 DEF Acyclic
<1>3. ASSUME NEW p \in Pbufs
      PROVE  /\ LinkCount(pb, p) \in Nat
             /\ LinkCount(pb2, p) = LinkCount(pb, p) + IF p = t THEN 1 ELSE 0
  <2>1. LinkCount(pb, p) = IF \E q \in Pbufs : pb[q].next = p THEN 1 ELSE 0
    BY LinkCountIs
  <2>2. LinkCount(pb2, p) = IF \E q \in Pbufs : pb2[q].next = p THEN 1 ELSE 0
    BY <1>1, LinkCountIs
  <2>3. p # NULL
    BY NullIs
  <2>4. CASE p = t
    BY <2>1, <2>2, <2>4
  <2>5. CASE p # t
    <3>1. \A q \in Pbufs : pb2[q].next = p <=> pb[q].next = p
      BY <2>3, <2>5
    <3> QED
      BY <2>1, <2>2, <2>5, <3>1
  <2> QED
    BY <2>4, <2>5
<1> QED
  BY <1>1, <1>2, <1>3

------------------------------
(* What the invariant says of one pbuf. *)

\* What the invariant says of each pbuf, its reference count above all.
LEMMA GoodIs ==
  ASSUME NEW pb, NEW mp, NEW hs, NEW fr, NEW al, Good(pb, mp, hs, fr, al)
  PROVE  /\ LinksOf(pb) /\ Sizes(pb) /\ NextOnce(pb)
         /\ \A p \in Pbufs :
              /\ hs[p] \in Nat /\ Times(fr, p) \in Nat
              /\ LinkCount(pb, p) \in 0..1 /\ OrigCount(pb, p) \in Nat
              /\ pb[p].ref = hs[p] + Times(fr, p) + LinkCount(pb, p) + OrigCount(pb, p)
              /\ LinkCount(pb, p) = 0 <=> \A q \in Pbufs : pb[q].next # p
              /\ OrigCount(pb, p) = 0 <=> \A q \in Pbufs : pb[q].original # p
<1>1. /\ pb \in [Pbufs -> PbufRecord] /\ hs \in [Pbufs -> Nat] /\ fr \in Seq(Pbufs)
      /\ NextOnce(pb) /\ Acyclic(pb) /\ Exact(pb, hs, fr)
  BY DEF Good, PbufTyped
<1>2. LinksOf(pb) /\ Sizes(pb)
  BY <1>1, RecordIs DEF LinksOf
<1>3. ASSUME NEW p \in Pbufs
      PROVE  /\ hs[p] \in Nat /\ Times(fr, p) \in Nat
             /\ LinkCount(pb, p) \in 0..1 /\ OrigCount(pb, p) \in Nat
             /\ pb[p].ref = hs[p] + Times(fr, p) + LinkCount(pb, p) + OrigCount(pb, p)
             /\ LinkCount(pb, p) = 0 <=> \A q \in Pbufs : pb[q].next # p
             /\ OrigCount(pb, p) = 0 <=> \A q \in Pbufs : pb[q].original # p
  <2>1. Times(fr, p) \in Nat
    BY <1>1, TimesIs
  <2>2. LinkCount(pb, p) = IF \E q \in Pbufs : pb[q].next = p THEN 1 ELSE 0
    BY <1>1, LinkCountIs
  <2> DEFINE S == {q \in Pbufs : pb[q].original = p}
  <2>3. Cardinality(S) \in Nat /\ (Cardinality(S) = 0 <=> S = {})
    <3>1. S \subseteq Pbufs
      OBVIOUS
    <3> HIDE DEF S
    <3> QED
      BY <3>1, CountIs
  <2>4. OrigCount(pb, p) = Cardinality(S)
    BY DEF OrigCount
  <2>5. OrigCount(pb, p) \in Nat
    BY <2>3, <2>4
  <2>6. OrigCount(pb, p) = 0 <=> \A q \in Pbufs : pb[q].original # p
    BY <2>3, <2>4
  <2>7. LinkCount(pb, p) \in 0..1
    BY <2>2
  <2>8. LinkCount(pb, p) = 0 <=> \A q \in Pbufs : pb[q].next # p
    BY <2>2
  <2> QED
    BY <1>1, <2>1, <2>5, <2>6, <2>7, <2>8 DEF Exact
<1> QED
  BY <1>1, <1>2, <1>3

\* A pbuf whose count is zero is blank, and nothing points at it.
LEMMA UnusedIs ==
  ASSUME NEW pb, NEW mp, NEW hs, NEW fr, NEW al, Good(pb, mp, hs, fr, al),
         NEW x \in Pbufs, pb[x].ref = 0
  PROVE  /\ pb[x] = Blank /\ hs[x] = 0 /\ Times(fr, x) = 0
         /\ LinkCount(pb, x) = 0 /\ OrigCount(pb, x) = 0
         /\ \A q \in Pbufs : pb[q].next # x /\ pb[q].original # x
<1>1. /\ hs[x] \in Nat /\ Times(fr, x) \in Nat
      /\ LinkCount(pb, x) \in 0..1 /\ OrigCount(pb, x) \in Nat
      /\ pb[x].ref = hs[x] + Times(fr, x) + LinkCount(pb, x) + OrigCount(pb, x)
      /\ LinkCount(pb, x) = 0 <=> \A q \in Pbufs : pb[q].next # x
      /\ OrigCount(pb, x) = 0 <=> \A q \in Pbufs : pb[q].original # x
  BY GoodIs
<1>2. pb[x] = Blank
  BY DEF Good, Blanks
<1>3. hs[x] = 0 /\ Times(fr, x) = 0 /\ LinkCount(pb, x) = 0 /\ OrigCount(pb, x) = 0
  BY <1>1
<1> QED
  BY <1>1, <1>2, <1>3

\* Between calls every tot_len is the sum of the lengths behind it.
LEMMA IdleAgrees ==
  ASSUME NEW pb, NEW mp, NEW hs, Good(pb, mp, hs, <<>>, NULL)
  PROVE  \A p \in Pbufs : Agree(pb, p)
<1>1. PICK D \in SUBSET Pbufs : Loose(pb, <<>>, NULL, D)
  BY DEF Good, LengthsKept
<1>2. \A p \in D : \E q \in D : pb[q].next = p
  BY <1>1 DEF Loose, Root
<1>3. D = {}
  BY <1>2, Topmost, NullIs DEF Good
<1> QED
  BY <1>1, <1>3 DEF Loose

\* Lengths that agree everywhere agree wherever the invariant asks for it.
LEMMA LengthsAgree ==
  ASSUME NEW pb, NEW hs, NEW fr, \A p \in Pbufs : Agree(pb, p)
  PROVE  LengthsKept(pb, hs, fr, NULL)
<1>1. Loose(pb, fr, NULL, {})
  BY DEF Loose
<1>2. Making(pb, hs, fr, NULL, {})
  BY DEF Making
<1> QED
  BY <1>1, <1>2 DEF LengthsKept

LEMMA BlankIs ==
  /\ Blank \in PbufRecord
  /\ Blank.ref = 0 /\ Blank.next = NULL /\ Blank.original = NULL
  /\ Blank.len = 0 /\ Blank.tot_len = 0 /\ Blank.off = 0 /\ Blank.cap = 0
<1>1. 0 \in 0..U16 - 1
  BY PbufAssumption
<1> QED
  BY <1>1 DEF Blank, PbufRecord

\* R is made by pbuf_init_alloced_pbuf.
Inits(off, cap, tot, len, R) ==
  /\ off \in Nat /\ cap \in Nat /\ tot \in 0..U16 - 1 /\ len \in 0..U16 - 1
  /\ R = pbuf_init_alloced_pbuf(off, cap, tot, len)

\* The fields that pbuf_init_alloced_pbuf leaves behind.
LEMMA InitedIs ==
  ASSUME NEW off, NEW cap, NEW tot, NEW len, NEW R, Inits(off, cap, tot, len, R)
  PROVE  /\ R \in PbufRecord
         /\ R.ref = 1 /\ R.next = NULL /\ R.original = NULL
         /\ R.off = off /\ R.cap = cap /\ R.tot_len = tot /\ R.len = len
BY DEF Inits, pbuf_init_alloced_pbuf, Blank, PbufRecord

\* A pbuf comes into use.
Begins(pb, hs, x, R, pb2, hs2) ==
  /\ x \in Pbufs /\ pb[x].ref = 0
  /\ R \in PbufRecord /\ R.ref = 1 /\ R.next = NULL /\ R.original = NULL
  /\ R.off + R.len <= R.cap
  /\ pb2 = [pb EXCEPT ![x] = R]
  /\ hs2 = [hs EXCEPT ![x] = 1]

\* A pbuf taken into use, with one handle and no neighbour, keeps every part
\* of the invariant but those about the pool it came from.
LEMMA FreshPbuf ==
  ASSUME NEW pb, NEW mp, NEW hs, NEW fr, NEW al, Good(pb, mp, hs, fr, al),
         NEW x, NEW R, NEW pb2, NEW hs2, Begins(pb, hs, x, R, pb2, hs2)
  PROVE  /\ pb2 \in [Pbufs -> PbufRecord] /\ hs2 \in [Pbufs -> Nat]
         /\ NextOnce(pb2) /\ Acyclic(pb2) /\ Exact(pb2, hs2, fr)
         /\ Blanks(pb2) /\ InMemory(pb2)
         /\ pb2[x] = R
         /\ \A p \in Pbufs \ {x} : /\ pb2[p] = pb[p] /\ hs2[p] = hs[p]
                                   /\ Agree(pb, p) => Agree(pb2, p)
         /\ \A p \in Pbufs : pb2[p].next # x
<1> USE DEF Begins
<1>1. pb \in [Pbufs -> PbufRecord] /\ hs \in [Pbufs -> Nat]
  BY DEF Good, PbufTyped
<1>2. /\ pb[x] = Blank /\ hs[x] = 0 /\ Times(fr, x) = 0
      /\ LinkCount(pb, x) = 0 /\ OrigCount(pb, x) = 0
      /\ \A q \in Pbufs : pb[q].next # x /\ pb[q].original # x
  BY UnusedIs
<1>3. pb2[x] = R /\ \A p \in Pbufs \ {x} : pb2[p] = pb[p]
  BY <1>1
<1>4. hs2[x] = 1 /\ \A p \in Pbufs \ {x} : hs2[p] = hs[p]
  BY <1>1
<1>5. pb2 \in [Pbufs -> PbufRecord] /\ hs2 \in [Pbufs -> Nat]
  BY <1>1
<1>6. \A p \in Pbufs : pb2[p].next = pb[p].next /\ pb2[p].original = pb[p].original
  BY <1>2, <1>3, BlankIs
<1>7. NextOnce(pb) /\ Acyclic(pb) /\ Exact(pb, hs, fr) /\ Blanks(pb) /\ InMemory(pb)
  BY DEF Good
<1>8. /\ NextOnce(pb2) /\ Acyclic(pb2)
      /\ \A p \in Pbufs : LinkCount(pb2, p) = LinkCount(pb, p)
  BY <1>6, <1>7, SameLinks
<1>9. \A p \in Pbufs : OrigCount(pb2, p) = OrigCount(pb, p)
  BY <1>6, SameOriginals
<1>10. Exact(pb2, hs2, fr)
  <2> SUFFICES ASSUME NEW p \in Pbufs
               PROVE  pb2[p].ref = hs2[p] + Times(fr, p) + LinkCount(pb, p)
                                   + OrigCount(pb, p)
    BY <1>8, <1>9 DEF Exact
  <2>1. CASE p = x
    BY <1>2, <1>3, <1>4, <2>1
  <2>2. CASE p # x
    BY <1>3, <1>4, <1>7, <2>2 DEF Exact
  <2> QED
    BY <2>1, <2>2
<1>11. Blanks(pb2) /\ InMemory(pb2)
  <2>1. \A p \in Pbufs : pb2[p].ref = 0 => p # x
    BY <1>3
  <2>2. Blanks(pb2)
    BY <1>3, <1>7, <2>1 DEF Blanks
  <2>3. InMemory(pb2)
    BY <1>3, <1>7 DEF InMemory
  <2> QED
    BY <2>2, <2>3
<1>12. ASSUME NEW p \in Pbufs \ {x}, Agree(pb, p)
       PROVE  Agree(pb2, p)
  <2>1. pb2[p] = pb[p] /\ pb[p].next # x /\ pb[p].next \in Pbufs \union {NULL}
    BY <1>1, <1>2, <1>3, RecordIs
  <2>2. pb[p].next # NULL => pb2[pb[p].next] = pb[pb[p].next]
    BY <1>3, <2>1
  <2> QED
    BY <1>12, <2>1, <2>2 DEF Agree
<1>13. \A p \in Pbufs : pb2[p].next # x
  BY <1>2, <1>6
<1> QED
  BY <1>3, <1>4, <1>5, <1>8, <1>10, <1>11, <1>12, <1>13

\* The pools share no pbuf with each other or with the heap.
LEMMA PoolsIs ==
  /\ \A S \in Pools : S \subseteq Pbufs /\ S \intersect HeapPbufs = {}
  /\ \A S, T \in Pools : S # T => S \intersect T = {}
  /\ \A p \in Pbufs : p \in HeapPbufs \/ \E S \in Pools : p \in S
BY PbufAssumption DEF Pools, Pbufs

\* A step that frees or takes no pool element keeps the pools' free lists.
LEMMA ListedKept ==
  ASSUME NEW pb, NEW mp, Listed(pb, mp), NEW pb2,
         \A p \in Pbufs \ HeapPbufs : pb2[p].ref = 0 <=> pb[p].ref = 0
  PROVE  Listed(pb2, mp)
<1> SUFFICES ASSUME NEW S \in Pools, NEW p \in S
             PROVE  pb2[p].ref = 0 <=> pb[p].ref = 0
  BY DEF Listed
<1> QED
  BY PoolsIs

\* The first pbuf of a pool is not in use; it is taken.
LEMMA FirstIs ==
  ASSUME NEW pb, NEW mp, NEW hs, NEW fr, NEW al, Good(pb, mp, hs, fr, al),
         NEW S \in Pools, mp[S] # <<>>
  PROVE  /\ Head(mp[S]) \in Pbufs /\ Head(mp[S]) \in S
         /\ pb[Head(mp[S])].ref = 0
<1> DEFINE x == Head(mp[S])
<1>1. mp[S] \in Seq(S) /\ \A p \in S : Times(mp[S], p) = IF pb[p].ref = 0 THEN 1 ELSE 0
  BY DEF Good, Listed
<1>2. x \in S /\ Tail(mp[S]) \in Seq(S)
      /\ Times(mp[S], x) = Times(Tail(mp[S]), x) + 1
  BY <1>1, TimesHead
<1>3. Times(Tail(mp[S]), x) \in Nat
  BY <1>2, TimesIs
<1>4. pb[x].ref = 0
  <2> HIDE DEF x
  <2> QED
    BY <1>1, <1>2, <1>3
<1> QED
  BY <1>2, <1>4, PoolsIs

Takes(pb, mp, S, x, pb2, mp2) ==
  /\ S \in Pools /\ mp[S] # <<>> /\ x = Head(mp[S])
  /\ pb2[x].ref # 0 /\ \A p \in Pbufs \ {x} : pb2[p].ref = 0 <=> pb[p].ref = 0
  /\ mp2 = [mp EXCEPT ![S] = Tail(@)]

\* memp_malloc takes the first of a pool's free list, and the list stays the
\* pool's unused elements.
LEMMA FirstTaken ==
  ASSUME NEW pb, NEW mp, NEW hs, NEW fr, NEW al, Good(pb, mp, hs, fr, al),
         NEW S, NEW x, NEW pb2, NEW mp2, Takes(pb, mp, S, x, pb2, mp2)
  PROVE  mp2 \in [Pools -> Seq(Pbufs)] /\ Listed(pb2, mp2)
<1> USE DEF Takes
<1>1. x = Head(mp[S])
  OBVIOUS
<1>2. mp \in [Pools -> Seq(Pbufs)] /\ Listed(pb, mp)
  BY DEF Good, PbufTyped
<1>3. mp[S] \in Seq(S) /\ \A p \in S : Times(mp[S], p) = IF pb[p].ref = 0 THEN 1 ELSE 0
  BY <1>2 DEF Listed
<1>4. mp[S] \in Seq(Pbufs)
  BY <1>2
<1>5. PICK t : t = Tail(mp[S])
  OBVIOUS
<1>6. /\ x \in S /\ t \in Seq(S)
      /\ \A p : Times(mp[S], p) = Times(t, p) + IF p = x THEN 1 ELSE 0
  BY <1>1, <1>3, <1>5, TimesHead
<1>7. t \in Seq(Pbufs)
  BY <1>4, <1>5, TimesHead
<1>8. mp2[S] = t /\ \A T \in Pools \ {S} : mp2[T] = mp[T]
  BY <1>2, <1>5
<1>9. mp2 \in [Pools -> Seq(Pbufs)]
  BY <1>2, <1>5, <1>7
<1>10. ASSUME NEW p \in S
       PROVE  Times(t, p) = IF pb2[p].ref = 0 THEN 1 ELSE 0
  <2>1. Times(t, p) \in Nat
    BY <1>6, TimesIs
  <2>2. Times(mp[S], p) = Times(t, p) + IF p = x THEN 1 ELSE 0
    BY <1>6
  <2>3. Times(mp[S], p) = IF pb[p].ref = 0 THEN 1 ELSE 0
    BY <1>3
  <2>4. p \in Pbufs
    BY PoolsIs
  <2>5. CASE p = x
    <3>1. pb2[p].ref # 0
      BY <1>1, <2>5
    <3> QED
      BY <2>1, <2>2, <2>3, <2>5, <3>1
  <2>6. CASE p # x
    <3>1. pb2[p].ref = 0 <=> pb[p].ref = 0
      BY <1>1, <2>4, <2>6
    <3> QED
      BY <2>1, <2>2, <2>3, <2>6, <3>1
  <2> QED
    BY <2>5, <2>6
<1>11. ASSUME NEW T \in Pools, T # S
       PROVE  /\ mp[T] \in Seq(T)
              /\ \A p \in T : Times(mp[T], p) = IF pb2[p].ref = 0 THEN 1 ELSE 0
  <2>1. \A p \in T : p \in Pbufs \ {x}
    BY <1>6, <1>11, PoolsIs
  <2>2. \A p \in T : pb2[p].ref = 0 <=> pb[p].ref = 0
    BY <1>1, <2>1
  <2> QED
    BY <1>2, <2>2 DEF Listed
<1>12. Listed(pb2, mp2)
  <2> SUFFICES ASSUME NEW T \in Pools
               PROVE  /\ mp2[T] \in Seq(T)
                      /\ \A p \in T : Times(mp2[T], p) = IF pb2[p].ref = 0 THEN 1 ELSE 0
    BY DEF Listed
  <2>1. CASE T = S
    BY <1>6, <1>8, <1>10, <2>1
  <2>2. CASE T # S
    <3>1. mp2[T] = mp[T]
      BY <1>8, <2>2
    <3> QED
      BY <1>11, <2>2, <3>1
  <2> QED
    BY <2>1, <2>2
<1> QED
  BY <1>9, <1>12

------------------------------
(* pbuf_alloc. *)

LEMMA PoolPbufsIn == PoolPbufs \in Pools /\ RefPbufs \in Pools /\ CustomPbufs \in Pools
  BY DEF Pools

LEMMA AllocPoolKeeps ==
  ASSUME PbufInv, AllocPool
  PROVE  PbufInv'
<1>1. Idle
  BY DEF AllocPool, MayAlloc
<1>2. PICK layer \in Layers, length \in Lengths : TakeBuffer(NULL, length, layer)
  BY DEF AllocPool
<1>3. PICK x : x = Head(memp[PoolPbufs])
  OBVIOUS
<1>4. PICK off : off = Align(layer)
  OBVIOUS
<1>5. PICK room : room = BUFSIZE - off
  OBVIOUS
<1>6. PICK n : n = IF length < room THEN length ELSE room
  OBVIOUS
<1>7. PICK R : R = pbuf_init_alloced_pbuf(off, BUFSIZE, length, n)
  OBVIOUS
<1>8. /\ memp[PoolPbufs] # <<>>
      /\ memp' = [memp EXCEPT ![PoolPbufs] = Tail(@)]
      /\ pbuf' = [pbuf EXCEPT ![x] = R]
      /\ handles' = [handles EXCEPT ![x] = 1]
      /\ alloc' = IF length = n THEN NULL
                  ELSE [first |-> x, last |-> x, rem_len |-> length - n]
      /\ freeing' = freeing
  BY <1>2, <1>3, <1>4, <1>5, <1>6, <1>7 DEF TakeBuffer, memp_malloc
<1>9. layer \in Nat /\ off \in Nat /\ off < BUFSIZE
  BY <1>4, AlignIs, PbufAssumption
<1>10. BUFSIZE \in Nat /\ BUFSIZE <= U16 - 1 /\ U16 \in Nat /\ length \in 0..U16 - 1
  BY PbufAssumption
<1>11. room \in Nat /\ off + room = BUFSIZE
  BY <1>5, <1>9, <1>10
<1>12. n \in 0..U16 - 1 /\ length - n \in Nat /\ off + n <= BUFSIZE
  BY <1>6, <1>9, <1>10, <1>11
<1>13. /\ R \in PbufRecord
       /\ R.ref = 1 /\ R.next = NULL /\ R.original = NULL
       /\ R.off = off /\ R.cap = BUFSIZE /\ R.tot_len = length /\ R.len = n
  <2>1. Inits(off, BUFSIZE, length, n, R)
    BY <1>7, <1>9, <1>10, <1>12 DEF Inits
  <2> QED
    BY <2>1, InitedIs
<1>14. Good(pbuf, memp, handles, freeing, alloc)
  BY DEF PbufInv
<1>15. x \in Pbufs /\ pbuf[x].ref = 0
  BY <1>3, <1>8, <1>14, FirstIs, PoolPbufsIn
<1>16. R.off + R.len <= R.cap
  BY <1>12, <1>13
<1>17. /\ pbuf' \in [Pbufs -> PbufRecord] /\ handles' \in [Pbufs -> Nat]
       /\ NextOnce(pbuf') /\ Acyclic(pbuf') /\ Exact(pbuf', handles', freeing)
       /\ Blanks(pbuf') /\ InMemory(pbuf')
       /\ pbuf'[x] = R
       /\ \A p \in Pbufs \ {x} : /\ pbuf'[p] = pbuf[p] /\ handles'[p] = handles[p]
                                 /\ Agree(pbuf, p) => Agree(pbuf', p)
  <2>1. Begins(pbuf, handles, x, R, pbuf', handles')
    BY <1>8, <1>13, <1>15, <1>16 DEF Begins
  <2> QED
    BY <1>14, <2>1, FreshPbuf
<1>18. memp' \in [Pools -> Seq(Pbufs)] /\ Listed(pbuf', memp')
  <2>1. pbuf'[x].ref # 0 /\ \A p \in Pbufs \ {x} : pbuf'[p].ref = 0 <=> pbuf[p].ref = 0
    BY <1>13, <1>17
  <2>2. Takes(pbuf, memp, PoolPbufs, x, pbuf', memp')
    BY <1>3, <1>8, <2>1, PoolPbufsIn DEF Takes
  <2> QED
    BY <1>14, <2>2, FirstTaken
<1>19. \A p \in Pbufs : Agree(pbuf, p)
  BY <1>1, <1>14, IdleAgrees DEF Idle
<1>20. freeing' = <<>> /\ freeing = <<>>
  BY <1>1, <1>8 DEF Idle
<1>21. handles'[x] = 1
  BY <1>8, <1>14, <1>15 DEF Good, PbufTyped
<1>22. LengthsKept(pbuf', handles', freeing', alloc')
  <2>1. CASE length = n
    <3>1. Agree(pbuf', x)
      BY <1>10, <1>13, <1>17, <2>1 DEF Agree
    <3>2. \A p \in Pbufs : Agree(pbuf', p)
      BY <1>17, <1>19, <3>1
    <3>3. alloc' = NULL
      BY <1>8, <2>1
    <3> QED
      BY <3>2, <3>3, LengthsAgree
  <2>2. CASE length # n
    <3>1. PICK al : al = alloc'
      OBVIOUS
    <3>2. al.first = x /\ al.last = x /\ al.rem_len = length - n
      BY <1>8, <2>2, <3>1
    <3>3. al \in Allocs /\ al # NULL
      BY <1>8, <1>12, <1>15, <2>2, <3>1, NullIs DEF Allocs
    <3>4. Loose(pbuf', freeing', al, {x})
      BY <1>13, <1>17, <1>19, <3>2, <3>3 DEF Loose, Root
    <3>5. Making(pbuf', handles', freeing', al, {x})
      <4>1. length = n + (length - n)
        BY <1>10, <1>12
      <4> QED
        BY <1>13, <1>17, <1>20, <1>21, <3>2, <4>1 DEF Making
    <3> QED
      BY <1>15, <3>1, <3>4, <3>5 DEF LengthsKept
  <2> QED
    BY <2>1, <2>2
<1>23. alloc' = NULL \/ alloc' \in Allocs
  BY <1>8, <1>12, <1>15 DEF Allocs
<1>24. freeing' \in Seq(Pbufs)
  BY <1>20
<1> QED
  BY <1>8, <1>17, <1>18, <1>22, <1>23, <1>24 DEF PbufInv, Good, PbufTyped

LEMMA AllocPoolMoreKeeps ==
  ASSUME PbufInv, AllocPoolMore
  PROVE  PbufInv'
<1> DEFINE e == alloc.last
           rem == alloc.rem_len
<1>1. alloc # NULL /\ TakeBuffer(e, rem, 0)
  BY DEF AllocPoolMore
<1>2. Good(pbuf, memp, handles, freeing, alloc)
  BY DEF PbufInv
<1>3. alloc \in Allocs /\ pbuf \in [Pbufs -> PbufRecord] /\ handles \in [Pbufs -> Nat]
  BY <1>1, <1>2 DEF Good, PbufTyped
<1>4. e \in Pbufs /\ alloc.first \in Pbufs /\ rem \in Nat /\ e # NULL
  BY <1>3, NullIs DEF Allocs
<1>5. PICK D \in SUBSET Pbufs :
        Loose(pbuf, freeing, alloc, D) /\ Making(pbuf, handles, freeing, alloc, D)
  BY <1>2 DEF Good, LengthsKept
<1>6. /\ freeing = <<>> /\ handles[alloc.first] = 1
      /\ e \in D /\ pbuf[e].next = NULL /\ pbuf[e].tot_len = pbuf[e].len + rem
      /\ \A p \in D \ {e} : Agree(pbuf, p)
      /\ \A p \in D : /\ pbuf[p].ref = 1
                      /\ p = alloc.first \/ \E q \in D : pbuf[q].next = p
      /\ \A p \in Pbufs \ D : Agree(pbuf, p)
  BY <1>1, <1>5 DEF Making, Loose, Root
<1>7. BUFSIZE \in Nat /\ BUFSIZE <= U16 - 1 /\ U16 \in Nat /\ rem \in 0..U16 - 1
  <2>1. pbuf[e].len \in 0..U16 - 1 /\ pbuf[e].tot_len \in 0..U16 - 1
    BY <1>3, <1>4, RecordIs
  <2>2. U16 \in Nat /\ BUFSIZE \in 0..U16 - 1
    BY PbufAssumption
  <2> QED
    BY <1>4, <1>6, <2>1, <2>2
<1>8. PICK x : x = Head(memp[PoolPbufs])
  OBVIOUS
<1>9. PICK n : n = IF rem < BUFSIZE THEN rem ELSE BUFSIZE
  OBVIOUS
<1>10. PICK R : R = pbuf_init_alloced_pbuf(0, BUFSIZE, rem, n)
  OBVIOUS
<1>11. PICK new : new = [pbuf EXCEPT ![x] = R]
  OBVIOUS
<1>12. BUFSIZE - Align(0) = BUFSIZE
  BY <1>7, AlignZero
<1>13. /\ memp[PoolPbufs] # <<>>
       /\ memp' = [memp EXCEPT ![PoolPbufs] = Tail(@)]
       /\ pbuf' = [new EXCEPT ![e].next = x]
       /\ handles' = handles
       /\ alloc' = IF rem = n THEN NULL
                   ELSE [first |-> alloc.first, last |-> x, rem_len |-> rem - n]
       /\ freeing' = freeing
  <2>1. R = pbuf_init_alloced_pbuf(Align(0), BUFSIZE, rem, n)
    BY <1>10, AlignZero
  <2> QED
    BY <1>1, <1>4, <1>8, <1>9, <1>11, <1>12, <2>1 DEF TakeBuffer, memp_malloc
<1>14. n \in 0..U16 - 1 /\ rem - n \in Nat /\ 0 + n <= BUFSIZE
  BY <1>7, <1>9
<1>15. /\ R \in PbufRecord
       /\ R.ref = 1 /\ R.next = NULL /\ R.original = NULL
       /\ R.off = 0 /\ R.cap = BUFSIZE /\ R.tot_len = rem /\ R.len = n
  <2>1. PICK off \in Nat : off = 0
    OBVIOUS
  <2>2. R = pbuf_init_alloced_pbuf(off, BUFSIZE, rem, n)
    BY <1>10, <2>1
  <2>3. /\ R \in PbufRecord
        /\ R.ref = 1 /\ R.next = NULL /\ R.original = NULL
        /\ R.off = off /\ R.cap = BUFSIZE /\ R.tot_len = rem /\ R.len = n
    <3>1. Inits(off, BUFSIZE, rem, n, R)
      BY <1>7, <1>14, <2>2 DEF Inits
    <3> QED
      BY <3>1, InitedIs
  <2> QED
    BY <2>1, <2>3
<1>16. x \in Pbufs /\ pbuf[x].ref = 0
  BY <1>2, <1>8, <1>13, FirstIs, PoolPbufsIn
<1>17. R.off + R.len <= R.cap
  BY <1>14, <1>15
<1>18. PICK h : h = [handles EXCEPT ![x] = 1]
  OBVIOUS
<1>19. /\ new \in [Pbufs -> PbufRecord] /\ h \in [Pbufs -> Nat]
       /\ NextOnce(new) /\ Acyclic(new) /\ Exact(new, h, freeing)
       /\ Blanks(new) /\ InMemory(new)
       /\ new[x] = R
       /\ \A p \in Pbufs \ {x} : /\ new[p] = pbuf[p] /\ h[p] = handles[p]
                                 /\ Agree(pbuf, p) => Agree(new, p)
       /\ \A p \in Pbufs : new[p].next # x
  <2>1. Begins(pbuf, handles, x, R, new, h)
    BY <1>11, <1>15, <1>16, <1>17, <1>18 DEF Begins
  <2> QED
    BY <1>2, <2>1, FreshPbuf
<1>20. x # e /\ x \notin D /\ handles[x] = 0
  <2>1. handles[x] = 0
    BY <1>2, <1>16, UnusedIs
  <2>2. x \notin D
    BY <1>6, <1>16
  <2> QED
    BY <1>6, <2>1, <2>2
<1>21. /\ pbuf'[e] = [new[e] EXCEPT !.next = x]
       /\ \A p \in Pbufs \ {e} : pbuf'[p] = new[p]
  BY <1>4, <1>13, <1>19
<1>22. /\ pbuf'[e].next = x /\ pbuf'[e].ref = new[e].ref
       /\ pbuf'[e].original = new[e].original
       /\ pbuf'[e].len = new[e].len /\ pbuf'[e].tot_len = new[e].tot_len
       /\ pbuf'[e].off = new[e].off /\ pbuf'[e].cap = new[e].cap
  <2>1. new[e] \in PbufRecord
    BY <1>4, <1>19
  <2> QED
    BY <1>21, <2>1 DEF PbufRecord
<1>23. pbuf' \in [Pbufs -> PbufRecord]
  <2>1. [new[e] EXCEPT !.next = x] \in PbufRecord
    <3>1. new[e] \in PbufRecord
      BY <1>4, <1>19
    <3> QED
      BY <1>16, <3>1 DEF PbufRecord
  <2> QED
    BY <1>13, <1>19, <2>1
<1>24. /\ NextOnce(pbuf') /\ Acyclic(pbuf')
       /\ \A p \in Pbufs :
            /\ LinkCount(new, p) \in Nat
            /\ LinkCount(pbuf', p) = LinkCount(new, p) + IF p = x THEN 1 ELSE 0
  <2> DEFINE A == Pbufs \ {x}
  <2>1. LinksOf(new)
    BY <1>19, RecordIs DEF LinksOf
  <2>2. new[e].next = NULL
    BY <1>4, <1>6, <1>19, <1>20
  <2>3. \A q \in Pbufs : new[q].next \in A => q \in A
    BY <1>15, <1>19, NullIs
  <2>4. e \in A /\ x \notin A /\ A \subseteq Pbufs
    BY <1>4, <1>20
  <2>5. \A p \in Pbufs \ {e} : pbuf'[p].next = new[p].next
    BY <1>21
  <2> HIDE DEF A
  <2> QED
    BY <1>4, <1>16, <1>19, <1>22, <2>1, <2>2, <2>3, <2>4, <2>5, LinkMade
<1>25. \A p \in Pbufs : pbuf'[p].original = new[p].original /\ pbuf'[p].ref = new[p].ref
  BY <1>21, <1>22
<1>26. Exact(pbuf', handles', freeing')
  <2>1. \A p \in Pbufs : OrigCount(pbuf', p) = OrigCount(new, p)
    BY <1>25, SameOriginals
  <2> SUFFICES ASSUME NEW p \in Pbufs
               PROVE  pbuf'[p].ref = handles[p] + Times(freeing, p)
                                     + LinkCount(pbuf', p) + OrigCount(pbuf', p)
    BY <1>13 DEF Exact
  <2>2. /\ new[p].ref = h[p] + Times(freeing, p) + LinkCount(new, p) + OrigCount(new, p)
        /\ LinkCount(new, p) \in Nat
        /\ LinkCount(pbuf', p) = LinkCount(new, p) + IF p = x THEN 1 ELSE 0
    BY <1>19, <1>24 DEF Exact
  <2>3. Times(freeing, p) \in Nat /\ OrigCount(new, p) \in Nat
    <3>1. Times(freeing, p) \in Nat
      BY <1>2, GoodIs
    <3>2. {q \in Pbufs : new[q].original = p} \subseteq Pbufs
      OBVIOUS
    <3> QED
      BY <3>1, <3>2, CountIs DEF OrigCount
  <2>4. CASE p = x
    <3>1. h[p] = 1 /\ handles[p] = 0
      BY <1>3, <1>16, <1>18, <1>20, <2>4
    <3> QED
      BY <1>25, <2>1, <2>2, <2>3, <2>4, <3>1
  <2>5. CASE p # x
    <3>1. h[p] = handles[p] /\ handles[p] \in Nat
      BY <1>3, <1>19, <2>5
    <3> QED
      BY <1>25, <2>1, <2>2, <2>3, <2>5, <3>1
  <2> QED
    BY <2>4, <2>5
<1>27. Blanks(pbuf')
  <2>1. new[e].ref = 1
    BY <1>4, <1>6, <1>19, <1>20
  <2> SUFFICES ASSUME NEW p \in Pbufs, pbuf'[p].ref = 0
               PROVE  pbuf'[p] = Blank
    BY DEF Blanks
  <2>2. p # e
    BY <1>22, <2>1
  <2>3. pbuf'[p] = new[p]
    BY <1>21, <2>2
  <2> QED
    BY <1>19, <2>3 DEF Blanks
<1>28. InMemory(pbuf')
  BY <1>19, <1>21, <1>22 DEF InMemory
<1>29. memp' \in [Pools -> Seq(Pbufs)] /\ Listed(pbuf', memp')
  <2>1. pbuf'[x].ref # 0 /\ \A p \in Pbufs \ {x} : pbuf'[p].ref = 0 <=> pbuf[p].ref = 0
    BY <1>15, <1>16, <1>19, <1>25
  <2>2. Takes(pbuf, memp, PoolPbufs, x, pbuf', memp')
    BY <1>8, <1>13, <2>1, PoolPbufsIn DEF Takes
  <2> QED
    BY <1>2, <2>2, FirstTaken
<1>30. /\ pbuf'[x] = R
       /\ \A p \in Pbufs \ {x, e} : pbuf'[p] = pbuf[p]
       /\ pbuf'[e].len = pbuf[e].len /\ pbuf'[e].tot_len = pbuf[e].tot_len
       /\ pbuf'[e].ref = 1
  BY <1>4, <1>6, <1>16, <1>19, <1>20, <1>21, <1>22
<1>31. \A p \in Pbufs \ {x} : Agree(pbuf', p)
  <2> SUFFICES ASSUME NEW p \in Pbufs \ {x} PROVE Agree(pbuf', p)
    OBVIOUS
  <2>1. CASE p = e
    BY <1>6, <1>15, <1>16, <1>22, <1>30, <2>1, NullIs DEF Agree
  <2>2. CASE p # e
    <3>1. Agree(pbuf, p) /\ pbuf'[p] = pbuf[p]
      BY <1>6, <1>30, <2>2
    <3>2. pbuf[p].next # x /\ pbuf[p].next \in Pbufs \union {NULL}
      BY <1>3, <1>19, RecordIs
    <3>3. pbuf[p].next # NULL => pbuf'[pbuf[p].next].tot_len = pbuf[pbuf[p].next].tot_len
      <4>1. CASE pbuf[p].next = e
        BY <1>30, <4>1
      <4>2. CASE pbuf[p].next # e
        BY <1>30, <3>2, <4>2
      <4> QED
        BY <4>1, <4>2
    <3> QED
      BY <3>1, <3>3 DEF Agree
  <2> QED
    BY <2>1, <2>2
<1>32. LengthsKept(pbuf', handles', freeing', alloc')
  <2>1. CASE rem = n
    <3>1. Agree(pbuf', x)
      BY <1>7, <1>15, <1>30, <2>1 DEF Agree
    <3>2. \A p \in Pbufs : Agree(pbuf', p)
      BY <1>31, <3>1
    <3>3. alloc' = NULL
      BY <1>13, <2>1
    <3> QED
      BY <3>2, <3>3, LengthsAgree
  <2>2. CASE rem # n
    <3>1. PICK al : al = alloc'
      OBVIOUS
    <3>2. al.first = alloc.first /\ al.last = x /\ al.rem_len = rem - n
      BY <1>13, <2>2, <3>1
    <3>3. al \in Allocs /\ al # NULL
      BY <1>4, <1>13, <1>14, <1>16, <2>2, <3>1, NullIs DEF Allocs
    <3> DEFINE E == D \union {x}
    <3>4. ASSUME NEW p \in E
          PROVE  /\ pbuf'[p].ref = 1
                 /\ p = al.first \/ \E q \in E : pbuf'[q].next = p
      <4>1. CASE p = x
        <5>1. pbuf'[e].next = p /\ e \in E
          BY <1>6, <1>22, <4>1
        <5> QED
          BY <1>15, <1>30, <4>1, <5>1
      <4>2. CASE p # x
        <5>1. p \in D /\ pbuf[p].ref = 1
          BY <1>6, <4>2
        <5>2. pbuf'[p].ref = 1
          BY <1>30, <4>2, <5>1
        <5>3. p \in Pbufs /\ p # NULL
          BY <5>1, NullIs
        <5>4. ASSUME NEW q \in D, pbuf[q].next = p
              PROVE  pbuf'[q].next = p
          <6>1. q # e /\ q # x
            BY <1>6, <1>20, <5>3, <5>4
          <6> QED
            BY <1>30, <5>4, <6>1
        <5> QED
          BY <1>6, <3>2, <5>1, <5>2, <5>4
      <4> QED
        BY <4>1, <4>2
    <3>5. Loose(pbuf', freeing', al, E)
      <4>1. \A p \in Pbufs \ E : Agree(pbuf', p)
        BY <1>31
      <4> QED
        BY <3>3, <3>4, <4>1 DEF Loose, Root
    <3>6. Making(pbuf', handles', freeing', al, E)
      <4>1. rem = n + (rem - n)
        BY <1>7, <1>14
      <4>2. freeing' = <<>> /\ handles'[al.first] = 1
        BY <1>6, <1>13, <3>2
      <4>3. x \in E /\ pbuf'[x].next = NULL
        BY <1>15, <1>30
      <4>4. pbuf'[x].tot_len = pbuf'[x].len + al.rem_len
        BY <1>15, <1>30, <3>2, <4>1
      <4>5. \A p \in E \ {x} : Agree(pbuf', p)
        BY <1>31
      <4> QED
        BY <3>2, <4>2, <4>3, <4>4, <4>5 DEF Making
    <3>7. E \in SUBSET Pbufs
      BY <1>16
    <3> HIDE DEF E
    <3> QED
      BY <3>1, <3>5, <3>6, <3>7 DEF LengthsKept
  <2> QED
    BY <2>1, <2>2
<1>33. alloc' = NULL \/ alloc' \in Allocs
  BY <1>4, <1>13, <1>14, <1>16 DEF Allocs
<1>34. freeing' \in Seq(Pbufs) /\ handles' \in [Pbufs -> Nat]
  BY <1>3, <1>6, <1>13
<1> QED
  BY <1>23, <1>24, <1>26, <1>27, <1>28, <1>29, <1>32, <1>33, <1>34 DEF PbufInv, Good, PbufTyped

\* A pool that runs dry in the loop hands what was linked so far to
\* pbuf_free, and the invariant is kept.
LEMMA AllocPoolFailsKeeps ==
  ASSUME PbufInv, AllocPoolFails
  PROVE  PbufInv'
<1> DEFINE x == alloc.first
<1>1. /\ alloc # NULL /\ freeing' = <<x>> /\ pbuf' = pbuf /\ alloc' = NULL
      /\ handles' = [handles EXCEPT ![x] = 0] /\ memp' = memp
  BY DEF AllocPoolFails, AllocFreed
<1>2. Good(pbuf, memp, handles, freeing, alloc)
  BY DEF PbufInv
<1>3. /\ pbuf \in [Pbufs -> PbufRecord] /\ memp \in [Pools -> Seq(Pbufs)]
      /\ handles \in [Pbufs -> Nat] /\ x \in Pbufs
  BY <1>1, <1>2 DEF Good, PbufTyped, Allocs
<1>4. PICK D \in SUBSET Pbufs :
        Loose(pbuf, freeing, alloc, D) /\ Making(pbuf, handles, freeing, alloc, D)
  BY <1>2 DEF Good, LengthsKept
<1>5. freeing = <<>> /\ handles[x] = 1
  BY <1>1, <1>4 DEF Making
<1>6. freeing' \in Seq(Pbufs) /\ handles' \in [Pbufs -> Nat]
  BY <1>1, <1>3
<1>7. Exact(pbuf, handles', freeing')
  <2> SUFFICES ASSUME NEW p \in Pbufs
               PROVE  pbuf[p].ref = handles'[p] + Times(freeing', p)
                                    + LinkCount(pbuf, p) + OrigCount(pbuf, p)
    BY DEF Exact
  <2>1. pbuf[p].ref = handles[p] + Times(freeing, p)
                      + LinkCount(pbuf, p) + OrigCount(pbuf, p)
    BY <1>2, GoodIs
  <2>2. Times(freeing, p) = 0
    BY <1>5, TimesOne
  <2>3. Times(freeing', p) = IF p = x THEN 1 ELSE 0
    BY <1>1, TimesOne
  <2>4. /\ handles[p] \in Nat /\ LinkCount(pbuf, p) \in 0..1
        /\ OrigCount(pbuf, p) \in Nat
    BY <1>2, GoodIs
  <2>5. CASE p = x
    <3>1. handles'[p] = 0
      BY <1>1, <1>3, <2>5
    <3> QED
      BY <1>5, <2>1, <2>2, <2>3, <2>4, <2>5, <3>1
  <2>6. CASE p # x
    <3>1. handles'[p] = handles[p]
      BY <1>1, <1>3, <2>6
    <3> QED
      BY <2>1, <2>2, <2>3, <2>4, <2>6, <3>1
  <2> QED
    BY <2>5, <2>6
<1>8. LengthsKept(pbuf, handles', freeing', NULL)
  <2>1. Making(pbuf, handles', freeing', NULL, D)
    BY DEF Making
  <2>2. \A p \in D : Root(freeing, alloc, p) => Root(freeing', NULL, p)
    <3>1. 1 \in DOMAIN freeing' /\ freeing'[1] = x
      BY <1>1
    <3> QED
      BY <1>5, <3>1 DEF Root
  <2>3. Loose(pbuf, freeing', NULL, D)
    BY <1>4, <2>2 DEF Loose
  <2> QED
    BY <2>1, <2>3 DEF LengthsKept
<1>9. /\ NextOnce(pbuf) /\ Acyclic(pbuf) /\ Listed(pbuf, memp) /\ Blanks(pbuf)
      /\ InMemory(pbuf)
  BY <1>2 DEF Good
<1>10. Good(pbuf, memp, handles', freeing', NULL)
  BY <1>3, <1>6, <1>7, <1>8, <1>9 DEF Good, PbufTyped
<1> QED
  BY <1>1, <1>10 DEF PbufInv

\* A pbuf that is a packet by itself.
LEMMA FreshGood ==
  ASSUME NEW pb, NEW mp, NEW hs, Good(pb, mp, hs, <<>>, NULL),
         NEW x, NEW R, NEW pb2, NEW hs2, Begins(pb, hs, x, R, pb2, hs2),
         R.tot_len = R.len,
         NEW mp2 \in [Pools -> Seq(Pbufs)], Listed(pb2, mp2)
  PROVE  Good(pb2, mp2, hs2, <<>>, NULL)
<1>1. /\ pb2 \in [Pbufs -> PbufRecord] /\ hs2 \in [Pbufs -> Nat]
      /\ NextOnce(pb2) /\ Acyclic(pb2) /\ Exact(pb2, hs2, <<>>)
      /\ Blanks(pb2) /\ InMemory(pb2)
      /\ pb2[x] = R
      /\ \A p \in Pbufs \ {x} : Agree(pb, p) => Agree(pb2, p)
  BY FreshPbuf
<1>2. x \in Pbufs /\ R.next = NULL /\ R \in PbufRecord
  BY DEF Begins
<1>3. Agree(pb2, x)
  <2>1. R.len \in Nat
    BY <1>1, <1>2, RecordIs DEF Sizes
  <2> QED
    BY <1>1, <1>2, <2>1 DEF Agree
<1>4. \A p \in Pbufs : Agree(pb2, p)
  BY <1>1, <1>3, IdleAgrees
<1>5. LengthsKept(pb2, hs2, <<>>, NULL)
  BY <1>4, LengthsAgree
<1>6. <<>> \in Seq(Pbufs)
  BY EmptySeq
<1> QED
  BY <1>1, <1>5, <1>6 DEF Good, PbufTyped

\* A caller's reference becomes one that is given back.
LEMMA ReleasedGood ==
  ASSUME NEW pb, NEW mp, NEW hs, Good(pb, mp, hs, <<>>, NULL),
         NEW x \in Pbufs, hs[x] > 0,
         NEW hs2, hs2 = [hs EXCEPT ![x] = @ - 1]
  PROVE  Good(pb, mp, hs2, <<x>>, NULL)
<1>1. /\ pb \in [Pbufs -> PbufRecord] /\ mp \in [Pools -> Seq(Pbufs)]
      /\ hs \in [Pbufs -> Nat]
  BY DEF Good, PbufTyped
<1>2. hs[x] \in Nat /\ hs[x] - 1 \in Nat
  BY <1>1
<1>3. hs2 \in [Pbufs -> Nat] /\ <<x>> \in Seq(Pbufs)
  BY <1>1, <1>2
<1>4. Exact(pb, hs2, <<x>>)
  <2> SUFFICES ASSUME NEW p \in Pbufs
               PROVE  pb[p].ref = hs2[p] + Times(<<x>>, p)
                                  + LinkCount(pb, p) + OrigCount(pb, p)
    BY DEF Exact
  <2>1. pb[p].ref = hs[p] + Times(<<>>, p) + LinkCount(pb, p) + OrigCount(pb, p)
    BY GoodIs
  <2>2. Times(<<>>, p) = 0 /\ Times(<<x>>, p) = IF p = x THEN 1 ELSE 0
    BY TimesOne
  <2>3. hs[p] \in Nat /\ LinkCount(pb, p) \in 0..1 /\ OrigCount(pb, p) \in Nat
    BY GoodIs
  <2>4. CASE p = x
    <3>1. hs2[p] = hs[p] - 1
      BY <1>1, <2>4
    <3> QED
      BY <2>1, <2>2, <2>3, <2>4, <3>1
  <2>5. CASE p # x
    <3>1. hs2[p] = hs[p]
      BY <1>1, <2>5
    <3> QED
      BY <2>1, <2>2, <2>3, <2>5, <3>1
  <2> QED
    BY <2>4, <2>5
<1>5. LengthsKept(pb, hs2, <<x>>, NULL)
  BY IdleAgrees, LengthsAgree
<1>6. /\ NextOnce(pb) /\ Acyclic(pb) /\ Listed(pb, mp) /\ Blanks(pb) /\ InMemory(pb)
  BY DEF Good
<1> QED
  BY <1>1, <1>3, <1>4, <1>5, <1>6 DEF Good, PbufTyped

\* What begins with memory for a packet in the heap.
LEMMA LowestIs ==
  ASSUME NEW S, S \subseteq Pbufs, S # {}
  PROVE  Lowest(S) \in S
<1>1. S \subseteq Nat
  BY FinitePbufs
<1>2. \E p \in S : \A q \in S : p <= q
  BY <1>1, LeastOf
<1> QED
  BY <1>2, Zenon DEF Lowest

\* A PBUF_RAM pbuf placed in the heap keeps the invariant.
LEMMA NewInHeapIs ==
  ASSUME PbufInv, Idle, FreeHeap # {}, NEW layer \in Layers,
         NEW length \in 0..U16 - 1, NewInHeap(Lowest(FreeHeap), layer, length),
         NEW hs2, hs2 = [handles EXCEPT ![Lowest(FreeHeap)] = 1]
  PROVE  /\ Good(pbuf', memp, hs2, <<>>, NULL)
         /\ Lowest(FreeHeap) \in Pbufs /\ pbuf[Lowest(FreeHeap)].ref = 0
<1>1. PICK x : x = Lowest(FreeHeap)
  OBVIOUS
<1>2. Good(pbuf, memp, handles, <<>>, NULL)
  BY DEF PbufInv, Idle
<1>3. pbuf \in [Pbufs -> PbufRecord] /\ memp \in [Pools -> Seq(Pbufs)]
  BY <1>2 DEF Good, PbufTyped
<1>4. FreeHeap \subseteq Pbufs
  BY DEF FreeHeap, Pbufs
<1>5. x \in FreeHeap
  BY <1>1, <1>4, LowestIs
<1>6. x \in HeapPbufs /\ x \in Pbufs /\ pbuf[x].ref = 0
  <2>1. x \in HeapPbufs /\ x \in Pbufs /\ ~(pbuf[x].ref > 0)
    BY <1>4, <1>5 DEF FreeHeap, Used
  <2>2. pbuf[x].ref \in Nat
    BY <1>3, <2>1, RecordIs
  <2> QED
    BY <2>1, <2>2
<1>7. PICK n \in HeapLen(layer, length) :
        pbuf' = [pbuf EXCEPT ![x] = pbuf_init_alloced_pbuf(Align(layer), n, length, length)]
  BY <1>1 DEF NewInHeap
<1>8. PICK off : off = Align(layer)
  OBVIOUS
<1>9. PICK b : b = Align(length)
  OBVIOUS
<1>10. layer \in Nat /\ off \in Nat /\ off < BUFSIZE /\ U16 \in Nat /\ BUFSIZE \in 0..U16 - 1
  BY <1>8, AlignIs, PbufAssumption
<1>11. length \in Nat /\ b \in Nat /\ length <= b
  BY <1>9, <1>10, AlignIs
<1>12. n = (off + b) % U16 /\ n >= b
  BY <1>7, <1>8, <1>9 DEF HeapLen
<1>13. off \in 0..U16 - 1
  BY <1>10
<1>14. n = off + b
  BY <1>11, <1>12, <1>13, NoWrap
<1>15. n \in Nat /\ off + length <= n
  BY <1>10, <1>11, <1>14
<1>16. PICK R : R = pbuf_init_alloced_pbuf(off, n, length, length)
  OBVIOUS
<1>17. /\ R \in PbufRecord
       /\ R.ref = 1 /\ R.next = NULL /\ R.original = NULL
       /\ R.off = off /\ R.cap = n /\ R.tot_len = length /\ R.len = length
  <2>1. Inits(off, n, length, length, R)
    BY <1>10, <1>15, <1>16 DEF Inits
  <2> QED
    BY <2>1, InitedIs
<1>18. Begins(pbuf, handles, x, R, pbuf', hs2)
  BY <1>1, <1>6, <1>7, <1>8, <1>15, <1>16, <1>17 DEF Begins
<1>19. Listed(pbuf', memp)
  <2>1. \A p \in Pbufs \ HeapPbufs : pbuf'[p] = pbuf[p]
    BY <1>3, <1>6, <1>7
  <2> QED
    BY <1>2, <2>1, ListedKept DEF Good
<1>20. Good(pbuf', memp, hs2, <<>>, NULL)
  BY <1>2, <1>3, <1>17, <1>18, <1>19, FreshGood
<1> QED
  BY <1>1, <1>6, <1>20

LEMMA AllocRamKeeps ==
  ASSUME PbufInv, AllocRam
  PROVE  PbufInv'
<1>1. PICK layer \in Layers, length \in Lengths :
        NewInHeap(Lowest(FreeHeap), layer, length)
  BY DEF AllocRam
<1>2. /\ Idle /\ FreeHeap # {}
      /\ handles' = [handles EXCEPT ![Lowest(FreeHeap)] = 1]
      /\ memp' = memp /\ freeing' = freeing /\ alloc' = alloc
  BY DEF AllocRam, MayAlloc
<1>3. length \in 0..U16 - 1
  BY PbufAssumption
<1>4. Good(pbuf', memp, handles', <<>>, NULL)
  BY <1>1, <1>2, <1>3, NewInHeapIs
<1> QED
  BY <1>2, <1>4 DEF PbufInv, Idle

LEMMA CloneKeeps ==
  ASSUME PbufInv, NEW p \in Pbufs, NEW layer \in Layers, Clone(p, layer)
  PROVE  PbufInv'
<1>1. /\ Idle /\ FreeHeap # {}
      /\ NewInHeap(Lowest(FreeHeap), layer, pbuf[p].tot_len)
      /\ handles' = [handles EXCEPT ![Lowest(FreeHeap)] = 1]
      /\ memp' = memp /\ freeing' = freeing /\ alloc' = alloc
  BY DEF Clone, pbuf_clone
<1>2. pbuf[p].tot_len \in 0..U16 - 1
  BY RecordIs DEF PbufInv, Good, PbufTyped
<1>3. Good(pbuf', memp, handles', <<>>, NULL)
  BY <1>1, <1>2, NewInHeapIs
<1> QED
  BY <1>1, <1>3 DEF PbufInv, Idle

LEMMA CoalesceKeeps ==
  ASSUME PbufInv, NEW p \in Pbufs, NEW layer \in Layers, Coalesce(p, layer)
  PROVE  PbufInv'
<1>1. PICK x : x = Lowest(FreeHeap)
  OBVIOUS
<1>2. /\ Idle /\ FreeHeap # {} /\ handles[p] > 0
      /\ NewInHeap(x, layer, pbuf[p].tot_len)
      /\ handles' = [handles EXCEPT ![x] = 1, ![p] = @ - 1]
      /\ memp' = memp /\ freeing' = <<p>> /\ alloc' = alloc
  BY <1>1 DEF Coalesce, pbuf_clone, Heads, Held
<1>3. pbuf[p].tot_len \in 0..U16 - 1 /\ handles \in [Pbufs -> Nat]
  BY RecordIs DEF PbufInv, Good, PbufTyped
<1>4. PICK hs2 : hs2 = [handles EXCEPT ![x] = 1]
  OBVIOUS
<1>5. Good(pbuf', memp, hs2, <<>>, NULL) /\ x \in Pbufs /\ pbuf[x].ref = 0
  BY <1>1, <1>2, <1>3, <1>4, NewInHeapIs
<1>6. x # p
  <2>1. handles[x] = 0
    BY <1>5, UnusedIs DEF PbufInv
  <2> QED
    BY <1>2, <2>1
<1>7. hs2[p] > 0 /\ handles' = [hs2 EXCEPT ![p] = @ - 1]
  BY <1>2, <1>3, <1>4, <1>6
<1>8. Good(pbuf', memp, handles', <<p>>, NULL)
  BY <1>5, <1>7, ReleasedGood
<1> QED
  BY <1>2, <1>8 DEF PbufInv, Idle

LEMMA pbuf_freeKeeps ==
  ASSUME PbufInv, NEW p \in Pbufs, pbuf_free(p)
  PROVE  PbufInv'
<1>1. /\ Idle /\ handles[p] > 0
      /\ freeing' = <<p>> /\ handles' = [handles EXCEPT ![p] = @ - 1]
      /\ pbuf' = pbuf /\ memp' = memp /\ alloc' = alloc
  BY DEF pbuf_free, Held
<1>2. Good(pbuf, memp, handles, <<>>, NULL)
  BY <1>1 DEF PbufInv, Idle
<1>3. Good(pbuf, memp, handles', <<p>>, NULL)
  BY <1>1, <1>2, ReleasedGood
<1> QED
  BY <1>1, <1>3 DEF PbufInv, Idle

LEMMA pbuf_refKeeps ==
  ASSUME PbufInv, NEW x \in Pbufs, pbuf_ref(x)
  PROVE  PbufInv'
<1>1. /\ Idle /\ handles[x] > 0
      /\ pbuf' = [pbuf EXCEPT ![x].ref = @ + 1]
      /\ handles' = [handles EXCEPT ![x] = @ + 1]
      /\ memp' = memp /\ freeing' = freeing /\ alloc' = alloc
  BY DEF pbuf_ref, Held
<1>2. Good(pbuf, memp, handles, <<>>, NULL)
  BY <1>1 DEF PbufInv, Idle
<1>3. /\ pbuf \in [Pbufs -> PbufRecord] /\ memp \in [Pools -> Seq(Pbufs)]
      /\ handles \in [Pbufs -> Nat]
  BY <1>2 DEF Good, PbufTyped
<1>4. /\ pbuf[x].ref > 0 /\ pbuf[x].ref \in Nat /\ handles[x] \in Nat
  BY <1>1, <1>2, GoodIs
<1>5. /\ pbuf'[x].ref = pbuf[x].ref + 1 /\ handles'[x] = handles[x] + 1
      /\ pbuf'[x] \in PbufRecord
      /\ \A p \in Pbufs \ {x} : pbuf'[p] = pbuf[p] /\ handles'[p] = handles[p]
      /\ \A p \in Pbufs : /\ pbuf'[p].next = pbuf[p].next
                          /\ pbuf'[p].original = pbuf[p].original
                          /\ pbuf'[p].len = pbuf[p].len
                          /\ pbuf'[p].tot_len = pbuf[p].tot_len
                          /\ pbuf'[p].off = pbuf[p].off
                          /\ pbuf'[p].cap = pbuf[p].cap
  <2>1. pbuf[x] \in PbufRecord
    BY <1>3
  <2>2. pbuf'[x] = [pbuf[x] EXCEPT !.ref = @ + 1]
    BY <1>1, <1>3
  <2> QED
    <3>1. /\ pbuf'[x].ref = pbuf[x].ref + 1 /\ pbuf'[x] \in PbufRecord
          /\ pbuf'[x].next = pbuf[x].next /\ pbuf'[x].original = pbuf[x].original
          /\ pbuf'[x].len = pbuf[x].len /\ pbuf'[x].tot_len = pbuf[x].tot_len
          /\ pbuf'[x].off = pbuf[x].off /\ pbuf'[x].cap = pbuf[x].cap
      BY <1>4, <2>1, <2>2 DEF PbufRecord
    <3>2. \A p \in Pbufs \ {x} : pbuf'[p] = pbuf[p] /\ handles'[p] = handles[p]
      BY <1>1, <1>3
    <3>3. handles'[x] = handles[x] + 1
      BY <1>1, <1>3
    <3> QED
      BY <3>1, <3>2, <3>3
<1>6. pbuf' \in [Pbufs -> PbufRecord] /\ handles' \in [Pbufs -> Nat]
  BY <1>1, <1>3, <1>4, <1>5
<1>7. /\ NextOnce(pbuf) /\ Acyclic(pbuf) /\ Listed(pbuf, memp) /\ Blanks(pbuf)
      /\ InMemory(pbuf)
  BY <1>2 DEF Good
<1>8. /\ NextOnce(pbuf') /\ Acyclic(pbuf')
      /\ \A p \in Pbufs : LinkCount(pbuf', p) = LinkCount(pbuf, p)
  BY <1>5, <1>7, SameLinks
<1>9. \A p \in Pbufs : OrigCount(pbuf', p) = OrigCount(pbuf, p)
  BY <1>5, SameOriginals
<1>10. Exact(pbuf', handles', <<>>)
  <2> SUFFICES ASSUME NEW p \in Pbufs
               PROVE  pbuf'[p].ref = handles'[p] + Times(<<>>, p)
                                     + LinkCount(pbuf, p) + OrigCount(pbuf, p)
    BY <1>8, <1>9 DEF Exact
  <2>1. /\ pbuf[p].ref = handles[p] + Times(<<>>, p)
                         + LinkCount(pbuf, p) + OrigCount(pbuf, p)
        /\ Times(<<>>, p) \in Nat /\ LinkCount(pbuf, p) \in 0..1
        /\ OrigCount(pbuf, p) \in Nat
    BY <1>2, GoodIs
  <2>2. CASE p = x
    <3>1. /\ pbuf'[p].ref = pbuf[p].ref + 1 /\ handles'[p] = handles[p] + 1
          /\ handles[p] \in Nat
      BY <1>4, <1>5, <2>2
    <3> QED
      BY <2>1, <3>1
  <2>3. CASE p # x
    BY <1>5, <2>1, <2>3
  <2> QED
    BY <2>2, <2>3
<1>11. Blanks(pbuf')
  <2> SUFFICES ASSUME NEW p \in Pbufs, pbuf'[p].ref = 0 PROVE pbuf'[p] = Blank
    BY DEF Blanks
  <2>1. p # x
    BY <1>4, <1>5
  <2> QED
    BY <1>5, <1>7, <2>1 DEF Blanks
<1>12. Listed(pbuf', memp)
  <2>1. \A p \in Pbufs \ HeapPbufs : pbuf'[p].ref = 0 <=> pbuf[p].ref = 0
    BY <1>4, <1>5
  <2> QED
    BY <1>7, <2>1, ListedKept
<1>13. InMemory(pbuf')
  BY <1>5, <1>7 DEF InMemory
<1>14. \A p \in Pbufs : Agree(pbuf', p)
  <2> SUFFICES ASSUME NEW p \in Pbufs PROVE Agree(pbuf', p)
    OBVIOUS
  <2>1. Agree(pbuf, p) /\ pbuf[p].next \in Pbufs \union {NULL}
    BY <1>2, <1>3, IdleAgrees, RecordIs
  <2> QED
    BY <1>5, <2>1 DEF Agree
<1>15. LengthsKept(pbuf', handles', <<>>, NULL)
  BY <1>14, LengthsAgree
<1>16. <<>> \in Seq(Pbufs)
  BY EmptySeq
<1>17. Good(pbuf', memp, handles', <<>>, NULL)
  BY <1>3, <1>6, <1>8, <1>10, <1>11, <1>12, <1>13, <1>15, <1>16 DEF Good, PbufTyped
<1> QED
  BY <1>1, <1>17 DEF PbufInv, Idle

\* A pbuf of a pool for memory of its caller's.
FromPool(pb, mp, hs, S, length, x, pb2, mp2, hs2) ==
  /\ S \in Pools /\ mp[S] # <<>> /\ x = Head(mp[S]) /\ length \in Lengths
  /\ pb2 = [pb EXCEPT ![x] = pbuf_init_alloced_pbuf(0, length, length, length)]
  /\ mp2 = [mp EXCEPT ![S] = Tail(@)]
  /\ hs2 = [hs EXCEPT ![x] = 1]

\* A single pbuf taken from a pool keeps the invariant.
LEMMA FromPoolIs ==
  ASSUME NEW pb, NEW mp, NEW hs, Good(pb, mp, hs, <<>>, NULL),
         NEW S, NEW length, NEW x, NEW pb2, NEW mp2, NEW hs2,
         FromPool(pb, mp, hs, S, length, x, pb2, mp2, hs2)
  PROVE  /\ Good(pb2, mp2, hs2, <<>>, NULL)
         /\ x \in Pbufs /\ pb[x].ref = 0
         /\ pb2[x].ref = 1 /\ pb2[x].original = NULL
<1>1. pb \in [Pbufs -> PbufRecord] /\ mp \in [Pools -> Seq(Pbufs)]
  BY DEF Good, PbufTyped
<1>2. x \in Pbufs /\ pb[x].ref = 0
  BY FirstIs DEF FromPool
<1>3. length \in 0..U16 - 1 /\ length \in Nat
  BY PbufAssumption DEF FromPool
<1>4. PICK off \in Nat : off = 0
  OBVIOUS
<1>5. PICK R : R = pbuf_init_alloced_pbuf(off, length, length, length)
  OBVIOUS
<1>6. /\ R \in PbufRecord
      /\ R.ref = 1 /\ R.next = NULL /\ R.original = NULL
      /\ R.off = off /\ R.cap = length /\ R.tot_len = length /\ R.len = length
  <2>1. Inits(off, length, length, length, R)
    BY <1>3, <1>5 DEF Inits
  <2> QED
    BY <2>1, InitedIs
<1>7. pb2 = [pb EXCEPT ![x] = R] /\ hs2 = [hs EXCEPT ![x] = 1]
  BY <1>4, <1>5 DEF FromPool
<1>8. Begins(pb, hs, x, R, pb2, hs2)
  BY <1>2, <1>3, <1>4, <1>6, <1>7 DEF Begins
<1>9. pb2[x] = R /\ \A p \in Pbufs \ {x} : pb2[p] = pb[p]
  BY <1>1, <1>2, <1>7
<1>10. Takes(pb, mp, S, x, pb2, mp2)
  BY <1>6, <1>9 DEF Takes, FromPool
<1>11. mp2 \in [Pools -> Seq(Pbufs)] /\ Listed(pb2, mp2)
  BY <1>10, FirstTaken
<1>12. Good(pb2, mp2, hs2, <<>>, NULL)
  BY <1>6, <1>8, <1>11, FreshGood
<1> QED
  BY <1>2, <1>6, <1>9, <1>12

LEMMA pbuf_alloc_referenceKeeps ==
  ASSUME PbufInv, NEW length \in Lengths, pbuf_alloc_reference(length)
  PROVE  PbufInv'
<1>1. PICK x : x = Head(memp[RefPbufs])
  OBVIOUS
<1>2. /\ Idle /\ memp[RefPbufs] # <<>>
      /\ memp' = [memp EXCEPT ![RefPbufs] = Tail(@)]
      /\ pbuf' = [pbuf EXCEPT ![x] = pbuf_init_alloced_pbuf(0, length, length, length)]
      /\ handles' = [handles EXCEPT ![x] = 1]
      /\ freeing' = freeing /\ alloc' = alloc
  BY <1>1 DEF pbuf_alloc_reference, MayAlloc, memp_malloc
<1>3. Good(pbuf, memp, handles, <<>>, NULL)
  BY <1>2 DEF PbufInv, Idle
<1>4. Good(pbuf', memp', handles', <<>>, NULL)
  <2>1. FromPool(pbuf, memp, handles, RefPbufs, length, x, pbuf', memp', handles')
    BY <1>1, <1>2, PoolPbufsIn DEF FromPool
  <2> QED
    BY <1>3, <2>1, FromPoolIs
<1> QED
  BY <1>2, <1>4 DEF PbufInv, Idle

LEMMA pbuf_alloced_customKeeps ==
  ASSUME PbufInv, NEW o \in Pbufs, NEW length \in Lengths,
         pbuf_alloced_custom(o, length)
  PROVE  PbufInv'
<1>1. PICK x : x = Head(memp[CustomPbufs])
  OBVIOUS
<1>2. /\ Idle /\ memp[CustomPbufs] # <<>> /\ handles[o] > 0
      /\ memp' = [memp EXCEPT ![CustomPbufs] = Tail(@)]
      /\ pbuf' = [pbuf EXCEPT ![x] = [pbuf_init_alloced_pbuf(0, length, length, length)
                                        EXCEPT !.original = o],
                              ![o].ref = @ + 1]
      /\ handles' = [handles EXCEPT ![x] = 1]
      /\ freeing' = freeing /\ alloc' = alloc
  BY <1>1 DEF pbuf_alloced_custom, MayAlloc, memp_malloc, CustomOf, Held
<1>3. Good(pbuf, memp, handles, <<>>, NULL)
  BY <1>2 DEF PbufInv, Idle
<1>4. PICK R : R = pbuf_init_alloced_pbuf(0, length, length, length)
  OBVIOUS
<1>5. PICK new : new = [pbuf EXCEPT ![x] = R]
  OBVIOUS
<1>6. /\ Good(new, memp', handles', <<>>, NULL)
      /\ x \in Pbufs /\ pbuf[x].ref = 0
      /\ new[x].ref = 1 /\ new[x].original = NULL
  <2>1. FromPool(pbuf, memp, handles, CustomPbufs, length, x, new, memp', handles')
    BY <1>1, <1>2, <1>4, <1>5, PoolPbufsIn DEF FromPool
  <2> QED
    BY <1>3, <2>1, FromPoolIs
<1>7. pbuf \in [Pbufs -> PbufRecord]
  BY <1>3 DEF Good, PbufTyped
<1>8. x # o /\ pbuf[o].ref > 0
  <2>1. pbuf[o].ref > 0
    <3>1. /\ pbuf[o].ref = handles[o] + Times(<<>>, o)
                           + LinkCount(pbuf, o) + OrigCount(pbuf, o)
          /\ Times(<<>>, o) \in Nat /\ LinkCount(pbuf, o) \in 0..1
          /\ OrigCount(pbuf, o) \in Nat /\ handles[o] \in Nat
      BY <1>3, GoodIs
    <3> QED
      BY <1>2, <3>1
  <2> QED
    BY <1>6, <2>1
<1>9. /\ new \in [Pbufs -> PbufRecord] /\ memp' \in [Pools -> Seq(Pbufs)]
      /\ handles' \in [Pbufs -> Nat]
  BY <1>6 DEF Good, PbufTyped
<1>10. new[x] = R /\ \A p \in Pbufs \ {x} : new[p] = pbuf[p]
  BY <1>5, <1>6, <1>7
<1>11. /\ pbuf'[x] = [new[x] EXCEPT !.original = o]
       /\ pbuf'[o] = [new[o] EXCEPT !.ref = @ + 1]
       /\ \A p \in Pbufs \ {x, o} : pbuf'[p] = new[p]
  BY <1>2, <1>4, <1>6, <1>7, <1>8, <1>10
<1>12. /\ pbuf'[x].original = o /\ pbuf'[x].ref = 1
       /\ pbuf'[o].ref = new[o].ref + 1 /\ new[o].ref > 0 /\ new[o].ref \in Nat
       /\ \A p \in Pbufs \ {x} : pbuf'[p].original = new[p].original
       /\ \A p \in Pbufs \ {o} : pbuf'[p].ref = new[p].ref
       /\ \A p \in Pbufs : /\ pbuf'[p] \in PbufRecord
                           /\ pbuf'[p].next = new[p].next
                           /\ pbuf'[p].len = new[p].len
                           /\ pbuf'[p].tot_len = new[p].tot_len
                           /\ pbuf'[p].off = new[p].off
                           /\ pbuf'[p].cap = new[p].cap
  <2>1. \A p \in Pbufs : new[p] \in PbufRecord
    BY <1>9
  <2>2. new[o].ref > 0
    BY <1>8, <1>10
  <2>3. /\ pbuf'[x] \in PbufRecord
        /\ pbuf'[x].original = o /\ pbuf'[x].ref = 1
        /\ pbuf'[x].next = new[x].next /\ pbuf'[x].len = new[x].len
        /\ pbuf'[x].tot_len = new[x].tot_len /\ pbuf'[x].off = new[x].off
        /\ pbuf'[x].cap = new[x].cap
    <3>1. PICK a : a = pbuf'[x]
      OBVIOUS
    <3>2. PICK b \in PbufRecord : b = new[x]
      BY <1>6, <2>1
    <3>3. a = [b EXCEPT !.original = o] /\ b.ref = 1
      BY <1>6, <1>11, <3>1, <3>2
    <3>4. /\ a \in PbufRecord /\ a.original = o /\ a.ref = 1 /\ a.next = b.next
          /\ a.len = b.len /\ a.tot_len = b.tot_len /\ a.off = b.off /\ a.cap = b.cap
      BY <3>2, <3>3 DEF PbufRecord
    <3> QED
      BY <3>1, <3>2, <3>4
  <2>4. /\ pbuf'[o] \in PbufRecord /\ new[o].ref \in Nat
        /\ pbuf'[o].ref = new[o].ref + 1
        /\ pbuf'[o].original = new[o].original
        /\ pbuf'[o].next = new[o].next /\ pbuf'[o].len = new[o].len
        /\ pbuf'[o].tot_len = new[o].tot_len /\ pbuf'[o].off = new[o].off
        /\ pbuf'[o].cap = new[o].cap
    BY <1>11, <2>1 DEF PbufRecord
  <2>5. ASSUME NEW p \in Pbufs
        PROVE  /\ p # x => pbuf'[p].original = new[p].original
               /\ p # o => pbuf'[p].ref = new[p].ref
               /\ pbuf'[p] \in PbufRecord
               /\ pbuf'[p].next = new[p].next /\ pbuf'[p].len = new[p].len
               /\ pbuf'[p].tot_len = new[p].tot_len
               /\ pbuf'[p].off = new[p].off /\ pbuf'[p].cap = new[p].cap
    <3>1. CASE p = x
      BY <1>6, <2>3, <3>1
    <3>2. CASE p = o
      BY <2>4, <3>2
    <3>3. CASE p # x /\ p # o
      <4>1. pbuf'[p] = new[p]
        BY <1>11, <3>3
      <4> QED
        BY <2>1, <4>1
    <3> QED
      BY <3>1, <3>2, <3>3
  <2> QED
    BY <2>2, <2>3, <2>4, <2>5
<1>13. pbuf' \in [Pbufs -> PbufRecord]
  <2>1. pbuf' = [p \in Pbufs |-> pbuf'[p]]
    BY <1>2, <1>7
  <2> QED
    BY <1>12, <2>1
<1>14. /\ NextOnce(new) /\ Acyclic(new) /\ Listed(new, memp') /\ Blanks(new)
       /\ InMemory(new)
  BY <1>6 DEF Good
<1>15. /\ NextOnce(pbuf') /\ Acyclic(pbuf')
       /\ \A p \in Pbufs : LinkCount(pbuf', p) = LinkCount(new, p)
  BY <1>12, <1>14, SameLinks
<1>16. \A p \in Pbufs : /\ OrigCount(new, p) \in Nat
                        /\ OrigCount(pbuf', p) = OrigCount(new, p) + IF p = o THEN 1 ELSE 0
  <2> SUFFICES ASSUME NEW p \in Pbufs
               PROVE  /\ OrigCount(new, p) \in Nat
                      /\ OrigCount(pbuf', p) = OrigCount(new, p) + IF p = o THEN 1 ELSE 0
    OBVIOUS
  <2>1. Adopts(new, pbuf', x, o)
    BY <1>6, <1>12 DEF Adopts
  <2> QED
    BY <2>1, OriginalOf
<1>17. Exact(pbuf', handles', <<>>)
  <2> SUFFICES ASSUME NEW p \in Pbufs
               PROVE  pbuf'[p].ref = handles'[p] + Times(<<>>, p)
                                     + LinkCount(new, p) + OrigCount(pbuf', p)
    BY <1>15 DEF Exact
  <2>1. /\ new[p].ref = handles'[p] + Times(<<>>, p)
                        + LinkCount(new, p) + OrigCount(new, p)
        /\ Times(<<>>, p) \in Nat /\ LinkCount(new, p) \in 0..1
        /\ OrigCount(new, p) \in Nat /\ handles'[p] \in Nat
    BY <1>6, GoodIs
  <2>2. OrigCount(pbuf', p) = OrigCount(new, p) + IF p = o THEN 1 ELSE 0
    BY <1>16
  <2>3. CASE p = o
    <3>1. pbuf'[p].ref = new[p].ref + 1 /\ new[p].ref \in Nat
      BY <1>12, <2>3
    <3>2. OrigCount(pbuf', p) = OrigCount(new, p) + 1
      BY <2>2, <2>3
    <3>3. PICK a \in Nat : a = OrigCount(new, p)
      BY <2>1
    <3>4. PICK b \in Nat : b = LinkCount(new, p)
      BY <2>1
    <3>5. new[p].ref = handles'[p] + Times(<<>>, p) + b + a
      BY <2>1, <3>3, <3>4
    <3>6. ASSUME NEW n \in Nat, NEW h \in Nat, NEW t \in Nat, n = h + t + b + a
          PROVE  n + 1 = h + t + b + (a + 1)
      BY <3>6, <3>3, <3>4
    <3>7. new[p].ref + 1 = handles'[p] + Times(<<>>, p) + b + (a + 1)
      BY <2>1, <3>1, <3>5, <3>6
    <3> QED
      BY <3>1, <3>2, <3>3, <3>4, <3>7
  <2>4. CASE p # o
    BY <1>12, <2>1, <2>2, <2>4
  <2> QED
    BY <2>3, <2>4
<1>18. Blanks(pbuf')
  <2> SUFFICES ASSUME NEW p \in Pbufs, pbuf'[p].ref = 0 PROVE pbuf'[p] = Blank
    BY DEF Blanks
  <2>1. p # x /\ p # o
    BY <1>12
  <2> QED
    BY <1>11, <1>14, <2>1 DEF Blanks
<1>19. Listed(pbuf', memp')
  <2>1. \A p \in Pbufs \ HeapPbufs : pbuf'[p].ref = 0 <=> new[p].ref = 0
    BY <1>12
  <2> QED
    BY <1>14, <2>1, ListedKept
<1>20. InMemory(pbuf')
  BY <1>12, <1>14 DEF InMemory
<1>21. \A p \in Pbufs : Agree(pbuf', p)
  <2> SUFFICES ASSUME NEW p \in Pbufs PROVE Agree(pbuf', p)
    OBVIOUS
  <2>1. Agree(new, p) /\ new[p].next \in Pbufs \union {NULL}
    BY <1>6, <1>9, IdleAgrees, RecordIs
  <2> QED
    BY <1>12, <2>1 DEF Agree
<1>22. LengthsKept(pbuf', handles', <<>>, NULL)
  BY <1>21, LengthsAgree
<1>23. <<>> \in Seq(Pbufs)
  BY EmptySeq
<1>24. Good(pbuf', memp', handles', <<>>, NULL)
  BY <1>9, <1>13, <1>15, <1>17, <1>18, <1>19, <1>20, <1>22, <1>23 DEF Good, PbufTyped
<1> QED
  BY <1>2, <1>24 DEF PbufInv, Idle

------------------------------
(* Headers. *)

\* The head of a packet is in use, held by a handle, and no pbuf's next.
LEMMA HeadIs ==
  ASSUME PbufInv, NEW x \in Heads
  PROVE  /\ x \in Pbufs /\ handles[x] > 0 /\ pbuf[x].ref > 0
         /\ \A q \in Pbufs : pbuf[q].next # x
<1>1. x \in Pbufs /\ handles[x] > 0 /\ \A q \in Pbufs : pbuf[q].next # x
  BY DEF Heads, Held, Linked
<1>2. pbuf[x].ref > 0
  BY <1>1, GoodIs DEF PbufInv
<1> QED
  BY <1>1, <1>2

\* The first pbuf of a packet begins elsewhere in its memory.
Moved(x, off, len, tot) ==
  /\ Idle /\ x \in Heads
  /\ off \in Nat /\ len \in 0..U16 - 1 /\ tot \in 0..U16 - 1
  /\ off + len = pbuf[x].off + pbuf[x].len
  /\ tot - len = pbuf[x].tot_len - pbuf[x].len
  /\ pbuf' = [pbuf EXCEPT ![x] = [@ EXCEPT !.off = off, !.len = len, !.tot_len = tot]]
  /\ memp' = memp /\ handles' = handles /\ freeing' = freeing /\ alloc' = alloc

\* Moving the payload of a head and both its lengths alike keeps the invariant.
LEMMA MovedKeeps ==
  ASSUME PbufInv, NEW x, NEW off, NEW len, NEW tot, Moved(x, off, len, tot)
  PROVE  PbufInv'
<1>1. /\ Idle /\ x \in Heads
      /\ off \in Nat /\ len \in 0..U16 - 1 /\ tot \in 0..U16 - 1
      /\ off + len = pbuf[x].off + pbuf[x].len
      /\ tot - len = pbuf[x].tot_len - pbuf[x].len
      /\ memp' = memp /\ handles' = handles /\ freeing' = freeing /\ alloc' = alloc
  BY DEF Moved
<1>2. Good(pbuf, memp, handles, <<>>, NULL)
  BY <1>1 DEF PbufInv, Idle
<1>3. /\ pbuf \in [Pbufs -> PbufRecord] /\ memp \in [Pools -> Seq(Pbufs)]
      /\ handles \in [Pbufs -> Nat]
  BY <1>2 DEF Good, PbufTyped
<1>4. x \in Pbufs /\ pbuf[x].ref > 0 /\ \A q \in Pbufs : pbuf[q].next # x
  BY <1>1, HeadIs
<1>5. /\ pbuf[x].len \in Nat /\ pbuf[x].tot_len \in Nat /\ pbuf[x].off \in Nat
      /\ pbuf[x].cap \in Nat /\ U16 \in Nat
  BY <1>3, <1>4, RecordIs, PbufAssumption DEF Sizes
<1>6. PICK R : R = [pbuf[x] EXCEPT !.off = off, !.len = len, !.tot_len = tot]
  OBVIOUS
<1>7. /\ R \in PbufRecord
      /\ R.ref = pbuf[x].ref /\ R.next = pbuf[x].next /\ R.original = pbuf[x].original
      /\ R.cap = pbuf[x].cap /\ R.off = off /\ R.len = len /\ R.tot_len = tot
  <2>1. pbuf[x] \in PbufRecord
    BY <1>3, <1>4
  <2> QED
    BY <1>1, <1>6, <2>1 DEF PbufRecord
<1>8. pbuf' = [pbuf EXCEPT ![x] = R]
  BY <1>6 DEF Moved
<1>9. /\ pbuf' \in [Pbufs -> PbufRecord] /\ pbuf'[x] = R
      /\ \A p \in Pbufs \ {x} : pbuf'[p] = pbuf[p]
  BY <1>3, <1>4, <1>7, <1>8
<1>10. \A p \in Pbufs : /\ pbuf'[p].ref = pbuf[p].ref
                        /\ pbuf'[p].next = pbuf[p].next
                        /\ pbuf'[p].original = pbuf[p].original
  BY <1>7, <1>9
<1>11. /\ NextOnce(pbuf) /\ Acyclic(pbuf) /\ Listed(pbuf, memp) /\ Blanks(pbuf)
       /\ InMemory(pbuf) /\ Exact(pbuf, handles, <<>>)
  BY <1>2 DEF Good
<1>12. /\ NextOnce(pbuf') /\ Acyclic(pbuf')
       /\ \A p \in Pbufs : LinkCount(pbuf', p) = LinkCount(pbuf, p)
  BY <1>10, <1>11, SameLinks
<1>13. \A p \in Pbufs : OrigCount(pbuf', p) = OrigCount(pbuf, p)
  BY <1>10, SameOriginals
<1>14. Exact(pbuf', handles, <<>>)
  BY <1>10, <1>11, <1>12, <1>13 DEF Exact
<1>15. Blanks(pbuf')
  <2> SUFFICES ASSUME NEW p \in Pbufs, pbuf'[p].ref = 0 PROVE pbuf'[p] = Blank
    BY DEF Blanks
  <2>1. p # x
    BY <1>4, <1>10
  <2> QED
    BY <1>9, <1>10, <1>11, <2>1 DEF Blanks
<1>16. Listed(pbuf', memp)
  <2>1. \A p \in Pbufs \ HeapPbufs : pbuf'[p].ref = 0 <=> pbuf[p].ref = 0
    BY <1>10
  <2> QED
    BY <1>11, <2>1, ListedKept
<1>17. InMemory(pbuf')
  <2>1. R.off + R.len <= R.cap
    <3>1. off + len <= pbuf[x].cap
      BY <1>1, <1>4, <1>11 DEF InMemory
    <3> QED
      BY <1>7, <3>1
  <2> QED
    BY <1>9, <1>11, <2>1 DEF InMemory
<1>18. \A p \in Pbufs : Agree(pbuf', p)
  <2> SUFFICES ASSUME NEW p \in Pbufs PROVE Agree(pbuf', p)
    OBVIOUS
  <2> DEFINE q == pbuf[p].next
  <2>1. Agree(pbuf, p) /\ q \in Pbufs \union {NULL} /\ q # x
    BY <1>2, <1>3, <1>4, IdleAgrees, RecordIs
  <2>2. pbuf'[p].next = q /\ (q # NULL => pbuf'[q] = pbuf[q])
    BY <1>9, <1>10, <2>1
  <2>3. CASE p = x
    <3>1. pbuf'[p].len = len /\ pbuf'[p].tot_len = tot
      BY <1>7, <1>9, <2>3
    <3>2. tot \in Int /\ len \in Int /\ tot - len = pbuf[p].tot_len - pbuf[p].len
      BY <1>1, <1>5, <2>3
    <3>3. CASE q = NULL
      <4>1. pbuf[p].tot_len = pbuf[p].len + 0
        BY <2>1, <3>3 DEF Agree
      <4>2. tot = len + 0
        BY <1>5, <2>3, <3>2, <4>1
      <4> QED
        BY <2>2, <3>1, <3>3, <4>2 DEF Agree
    <3>4. CASE q # NULL
      <4>1. pbuf[q].tot_len \in Nat
        BY <1>3, <2>1, <3>4, RecordIs DEF Sizes
      <4>2. pbuf[p].tot_len = pbuf[p].len + pbuf[q].tot_len
        BY <2>1, <3>4 DEF Agree
      <4>3. tot = len + pbuf[q].tot_len
        BY <1>5, <2>3, <3>2, <4>1, <4>2
      <4> QED
        BY <2>2, <3>1, <3>4, <4>3 DEF Agree
    <3> QED
      BY <3>3, <3>4
  <2>4. CASE p # x
    <3>1. pbuf'[p] = pbuf[p]
      BY <1>9, <2>4
    <3> QED
      BY <2>1, <2>2, <3>1 DEF Agree
  <2> QED
    BY <2>3, <2>4
<1>19. LengthsKept(pbuf', handles, <<>>, NULL)
  BY <1>18, LengthsAgree
<1>20. <<>> \in Seq(Pbufs)
  BY EmptySeq
<1>21. Good(pbuf', memp, handles, <<>>, NULL)
  BY <1>3, <1>9, <1>12, <1>14, <1>15, <1>16, <1>17, <1>19, <1>20 DEF Good, PbufTyped
<1> QED
  BY <1>1, <1>21 DEF PbufInv, Idle

\* Of a packet between calls.
LEMMA LenIs ==
  ASSUME PbufInv, Idle, NEW p \in Pbufs
  PROVE  /\ pbuf[p].len \in Nat /\ pbuf[p].tot_len \in Nat /\ pbuf[p].off \in Nat
         /\ pbuf[p].len <= pbuf[p].tot_len /\ pbuf[p].tot_len < U16 /\ U16 \in Nat
<1>1. Good(pbuf, memp, handles, <<>>, NULL)
  BY DEF PbufInv, Idle
<1>2. pbuf \in [Pbufs -> PbufRecord]
  BY <1>1 DEF Good, PbufTyped
<1>3. U16 \in Nat
  BY PbufAssumption
<1>4. /\ pbuf[p].len \in Nat /\ pbuf[p].tot_len \in Nat /\ pbuf[p].off \in Nat
      /\ pbuf[p].tot_len < U16 /\ pbuf[p].next \in Pbufs \union {NULL}
  BY <1>2, <1>3, RecordIs DEF Sizes
<1>5. Agree(pbuf, p)
  BY <1>1, IdleAgrees
<1>6. CASE pbuf[p].next = NULL
  BY <1>3, <1>4, <1>5, <1>6 DEF Agree
<1>7. CASE pbuf[p].next # NULL
  <2>1. pbuf[pbuf[p].next].tot_len \in Nat
    BY <1>2, <1>4, <1>7, RecordIs DEF Sizes
  <2> QED
    BY <1>3, <1>4, <1>5, <1>7, <2>1 DEF Agree
<1> QED
  BY <1>6, <1>7

LEMMA pbuf_remove_headerKeeps ==
  ASSUME PbufInv, NEW x \in Pbufs, NEW n \in Headers, pbuf_remove_header(x, n)
  PROVE  PbufInv'
<1>1. /\ Idle /\ x \in Heads /\ n <= pbuf[x].len
      /\ pbuf' = [pbuf EXCEPT ![x] = HeaderRemoved(@, n)]
      /\ memp' = memp /\ handles' = handles /\ freeing' = freeing /\ alloc' = alloc
  BY DEF pbuf_remove_header
<1>2. n \in Nat
  BY PbufAssumption
<1>3. /\ pbuf[x].len \in Nat /\ pbuf[x].tot_len \in Nat /\ pbuf[x].off \in Nat
      /\ pbuf[x].len <= pbuf[x].tot_len /\ pbuf[x].tot_len < U16 /\ U16 \in Nat
  BY <1>1, LenIs
<1>4. PICK off : off = pbuf[x].off + n
  OBVIOUS
<1>5. PICK len : len = pbuf[x].len - n
  OBVIOUS
<1>6. PICK tot : tot = pbuf[x].tot_len - n
  OBVIOUS
<1>7. off \in Nat /\ len \in 0..U16 - 1 /\ tot \in 0..U16 - 1
  BY <1>1, <1>2, <1>3, <1>4, <1>5, <1>6
<1>8. /\ off + len = pbuf[x].off + pbuf[x].len
      /\ tot - len = pbuf[x].tot_len - pbuf[x].len
  BY <1>2, <1>3, <1>4, <1>5, <1>6
<1>9. pbuf' = [pbuf EXCEPT ![x] = [@ EXCEPT !.off = off, !.len = len, !.tot_len = tot]]
  <2>1. pbuf \in [Pbufs -> PbufRecord]
    BY DEF PbufInv, Good, PbufTyped
  <2>2. HeaderRemoved(pbuf[x], n)
          = [pbuf[x] EXCEPT !.off = off, !.len = len, !.tot_len = tot]
    BY <1>4, <1>5, <1>6 DEF HeaderRemoved
  <2> QED
    BY <1>1, <2>1, <2>2
<1>10. Moved(x, off, len, tot)
  BY <1>1, <1>7, <1>8, <1>9 DEF Moved
<1> QED
  BY <1>10, MovedKeeps

LEMMA pbuf_add_header_implKeeps ==
  ASSUME PbufInv, NEW x \in Pbufs, NEW n \in Headers, NEW force \in BOOLEAN,
         pbuf_add_header_impl(x, n, force)
  PROVE  PbufInv'
<1>1. /\ Idle /\ x \in Heads
      /\ pbuf' = [pbuf EXCEPT ![x].off = @ - n, ![x].len = @ + n, ![x].tot_len = @ + n]
      /\ memp' = memp /\ handles' = handles /\ freeing' = freeing /\ alloc' = alloc
      /\ (n + pbuf[x].tot_len) % U16 >= n
  BY DEF pbuf_add_header_impl
<1>2. n \in Nat
  BY PbufAssumption
<1>3. /\ pbuf[x].len \in Nat /\ pbuf[x].tot_len \in Nat /\ pbuf[x].off \in Nat
      /\ pbuf[x].len <= pbuf[x].tot_len /\ pbuf[x].tot_len < U16 /\ U16 \in Nat
  BY <1>1, LenIs
<1>4. n <= pbuf[x].off
  BY DEF pbuf_add_header_impl, HasRoom
<1>5. n + pbuf[x].tot_len < U16
  <2>1. PICK t \in 0..U16 - 1 : t = pbuf[x].tot_len
    BY <1>3
  <2>2. t + n = n + t
    BY <1>2, <1>3, <2>1
  <2>3. (t + n) % U16 >= n
    BY <1>1, <2>1, <2>2
  <2>4. t + n < U16
    BY <1>2, <2>1, <2>3, NoWrap
  <2> QED
    BY <2>1, <2>2, <2>4
<1>6. PICK off : off = pbuf[x].off - n
  OBVIOUS
<1>7. PICK len : len = pbuf[x].len + n
  OBVIOUS
<1>8. PICK tot : tot = pbuf[x].tot_len + n
  OBVIOUS
<1>9. off \in Nat /\ len \in 0..U16 - 1 /\ tot \in 0..U16 - 1
  BY <1>2, <1>3, <1>4, <1>5, <1>6, <1>7, <1>8
<1>10. /\ off + len = pbuf[x].off + pbuf[x].len
       /\ tot - len = pbuf[x].tot_len - pbuf[x].len
  <2>1. PICK o \in Nat : o = pbuf[x].off
    BY <1>3
  <2>2. PICK l \in Nat : l = pbuf[x].len
    BY <1>3
  <2>3. PICK t \in Nat : t = pbuf[x].tot_len
    BY <1>3
  <2>4. off = o - n /\ len = l + n /\ tot = t + n
    BY <1>6, <1>7, <1>8, <2>1, <2>2, <2>3
  <2>5. off + len = o + l /\ tot - len = t - l
    BY <1>2, <2>1, <2>2, <2>3, <2>4
  <2> QED
    BY <2>1, <2>2, <2>3, <2>5
<1>11. pbuf' = [pbuf EXCEPT ![x] = [@ EXCEPT !.off = off, !.len = len, !.tot_len = tot]]
  <2>1. pbuf \in [Pbufs -> PbufRecord]
    BY DEF PbufInv, Good, PbufTyped
  <2>2. pbuf[x] \in PbufRecord
    BY <2>1
  <2> QED
    BY <1>1, <1>6, <1>7, <1>8, <2>1, <2>2 DEF PbufRecord
<1>12. Moved(x, off, len, tot)
  BY <1>1, <1>9, <1>10, <1>11 DEF Moved
<1> QED
  BY <1>12, MovedKeeps

------------------------------
(* pbuf_free. *)

\* The memory of a pbuf that nobody refers to any more.
Returns(pb, mp, x, pb2, mp2) ==
  /\ x \in Pbufs /\ pb[x].ref # 0
  /\ pb2[x].ref = 0 /\ \A p \in Pbufs \ {x} : pb2[p].ref = pb[p].ref
  /\ mp2 = IF x \in HeapPbufs THEN mp
           ELSE [mp EXCEPT ![PoolOf(x)] = <<x>> \o @]

\* memp_free puts an element in front of its pool's free list, and the list stays
\* the pool's unused elements.
LEMMA PutBack ==
  ASSUME NEW pb, NEW mp, NEW hs, NEW fr, NEW al, Good(pb, mp, hs, fr, al),
         NEW x, NEW pb2, NEW mp2, Returns(pb, mp, x, pb2, mp2)
  PROVE  mp2 \in [Pools -> Seq(Pbufs)] /\ Listed(pb2, mp2)
<1> USE DEF Returns
<1>1. mp \in [Pools -> Seq(Pbufs)] /\ Listed(pb, mp)
  BY DEF Good, PbufTyped
<1>2. CASE x \in HeapPbufs
  <2>1. \A p \in Pbufs \ HeapPbufs : pb2[p].ref = 0 <=> pb[p].ref = 0
    BY <1>2
  <2> QED
    BY <1>1, <1>2, <2>1, ListedKept
<1>3. CASE x \notin HeapPbufs
  <2>1. PICK S : S = PoolOf(x)
    OBVIOUS
  <2>2. S \in Pools /\ x \in S
    <3>1. \E T \in Pools : x \in T
      BY <1>3, PoolsIs
    <3> QED
      BY <2>1, <3>1, Zenon DEF PoolOf
  <2>3. PICK s : s = <<x>> \o mp[S]
    OBVIOUS
  <2>4. mp2[S] = s /\ \A T \in Pools \ {S} : mp2[T] = mp[T]
    BY <1>1, <1>3, <2>1, <2>2, <2>3
  <2>5. mp[S] \in Seq(S) /\ mp[S] \in Seq(Pbufs)
        /\ \A p \in S : Times(mp[S], p) = IF pb[p].ref = 0 THEN 1 ELSE 0
    BY <1>1, <2>2 DEF Listed
  <2>6. <<x>> \in Seq(S) /\ <<x>> \in Seq(Pbufs)
    BY <2>2
  <2>7. s \in Seq(S) /\ s \in Seq(Pbufs)
    BY <2>3, <2>5, <2>6, ConcatProperties
  <2>8. mp2 \in [Pools -> Seq(Pbufs)]
    BY <1>1, <1>3, <2>1, <2>2, <2>3, <2>7
  <2>9. ASSUME NEW p \in S
        PROVE  Times(s, p) = IF pb2[p].ref = 0 THEN 1 ELSE 0
    <3>1. Times(s, p) = Times(<<x>>, p) + Times(mp[S], p)
      <4>1. PICK a : a = <<x>>
        OBVIOUS
      <4>2. PICK b : b = mp[S]
        OBVIOUS
      <4>3. s = a \o b /\ a \in Seq(S) /\ b \in Seq(S)
        BY <2>3, <2>5, <2>6, <4>1, <4>2
      <4>4. Times(a \o b, p) = Times(a, p) + Times(b, p)
        BY <4>3, TimesConcat
      <4> QED
        BY <4>1, <4>2, <4>3, <4>4
    <3>2. Times(<<x>>, p) = IF p = x THEN 1 ELSE 0
      BY TimesOne
    <3>3. Times(mp[S], p) = IF pb[p].ref = 0 THEN 1 ELSE 0
      BY <2>5
    <3>4. p \in Pbufs
      BY <2>2, PoolsIs
    <3>5. CASE p = x
      BY <3>1, <3>2, <3>3, <3>5
    <3>6. CASE p # x
      <4>1. pb2[p].ref = pb[p].ref
        BY <3>4, <3>6
      <4> QED
        BY <3>1, <3>2, <3>3, <3>6, <4>1
    <3> QED
      BY <3>5, <3>6
  <2>10. ASSUME NEW T \in Pools, T # S
         PROVE  /\ mp[T] \in Seq(T)
                /\ \A p \in T : Times(mp[T], p) = IF pb2[p].ref = 0 THEN 1 ELSE 0
    <3>1. \A p \in T : p \in Pbufs \ {x}
      BY <2>2, <2>10, PoolsIs
    <3>2. \A p \in T : pb2[p].ref = pb[p].ref
      BY <3>1
    <3> QED
      BY <1>1, <3>2 DEF Listed
  <2>11. Listed(pb2, mp2)
    <3> SUFFICES ASSUME NEW T \in Pools
                 PROVE  /\ mp2[T] \in Seq(T)
                        /\ \A p \in T : Times(mp2[T], p) = IF pb2[p].ref = 0 THEN 1 ELSE 0
      BY DEF Listed
    <3>1. CASE T = S
      BY <2>4, <2>7, <2>9, <3>1
    <3>2. CASE T # S
      <4>1. mp2[T] = mp[T]
        BY <2>4, <3>2
      <4>2. /\ mp[T] \in Seq(T)
            /\ \A p \in T : Times(mp[T], p) = IF pb2[p].ref = 0 THEN 1 ELSE 0
        BY <2>10, <3>2
      <4> QED
        BY <4>1, <4>2
    <3> QED
      BY <3>1, <3>2
  <2> QED
    BY <2>8, <2>11
<1> QED
  BY <1>2, <1>3

LEMMA SeqOfIs ==
  ASSUME NEW q \in Pbufs \union {NULL}, NEW p \in Pbufs
  PROVE  SeqOf(q) \in Seq(Pbufs) /\ Times(SeqOf(q), p) = IF p = q THEN 1 ELSE 0
<1>1. CASE q = NULL
  <2>1. SeqOf(q) = <<>> /\ p # q
    BY <1>1, NullIs DEF SeqOf
  <2> QED
    BY <2>1, TimesOne, EmptySeq
<1>2. CASE q # NULL
  <2>1. SeqOf(q) = <<q>> /\ q \in Pbufs
    BY <1>2 DEF SeqOf
  <2>2. <<q>> \in Seq(Pbufs)
    BY <2>1
  <2> QED
    BY <2>1, <2>2, TimesOne
<1> QED
  BY <1>1, <1>2

\* A sequence has the pbufs that occur in it.
LEMMA TimesPositive ==
  ASSUME NEW s \in Seq(Pbufs), NEW p
  PROVE  Times(s, p) > 0 <=> \E i \in DOMAIN s : s[i] = p
<1>1. Times(s, p) \in Nat /\ (Times(s, p) = 0 <=> \A i \in DOMAIN s : s[i] # p)
  BY TimesIs
<1>2. Times(s, p) > 0 <=> Times(s, p) # 0
  BY <1>1
<1> QED
  BY <1>1, <1>2

\* One reference of several.
LEMMA FreeStepLess ==
  ASSUME PbufInv, FreeStep, pbuf[Head(freeing)].ref # 1
  PROVE  PbufInv'
<1>1. PICK x : x = Head(freeing)
  OBVIOUS
<1>2. PICK t : t = Tail(freeing)
  OBVIOUS
<1>3. Good(pbuf, memp, handles, freeing, alloc)
  BY DEF PbufInv
<1>4. /\ pbuf \in [Pbufs -> PbufRecord] /\ memp \in [Pools -> Seq(Pbufs)]
      /\ handles \in [Pbufs -> Nat] /\ freeing \in Seq(Pbufs)
  BY <1>3 DEF Good, PbufTyped
<1>5. /\ freeing # <<>>
      /\ pbuf' = [pbuf EXCEPT ![x].ref = @ - 1] /\ memp' = memp
      /\ handles' = handles /\ alloc' = alloc
  BY <1>1 DEF FreeStep
<1>6. /\ x \in Pbufs /\ t \in Seq(Pbufs)
      /\ \A p : Times(freeing, p) = Times(t, p) + IF p = x THEN 1 ELSE 0
  BY <1>1, <1>2, <1>4, <1>5, TimesHead
<1>7. freeing' = t
  <2>1. freeing' = <<>> \o t
    BY <1>2 DEF FreeStep, FreeNext
  <2> QED
    BY <1>6, <2>1
<1>8. pbuf[x].ref \in Nat /\ pbuf[x].ref > 1 /\ \A p : Times(t, p) \in Nat
  <2>1. \A p : Times(t, p) \in Nat
    BY <1>6, TimesIs
  <2>2. /\ pbuf[x].ref = handles[x] + Times(freeing, x)
                         + LinkCount(pbuf, x) + OrigCount(pbuf, x)
        /\ handles[x] \in Nat /\ LinkCount(pbuf, x) \in 0..1 /\ OrigCount(pbuf, x) \in Nat
    BY <1>3, <1>6, GoodIs
  <2>3. Times(freeing, x) = Times(t, x) + 1
    BY <1>6
  <2>4. Times(t, x) \in Nat
    BY <2>1
  <2>5. pbuf[x].ref >= 1 /\ pbuf[x].ref \in Nat
    BY <2>2, <2>3, <2>4
  <2>6. pbuf[x].ref # 1
    BY <1>1
  <2> QED
    BY <2>1, <2>5, <2>6
<1>9. alloc = NULL
  BY <1>3, <1>5 DEF Good, LengthsKept, Making
<1>10. PICK D \in SUBSET Pbufs : Loose(pbuf, freeing, alloc, D)
  BY <1>3 DEF Good, LengthsKept
<1>11. PICK R : R = [pbuf[x] EXCEPT !.ref = @ - 1]
  OBVIOUS
<1>12. /\ R \in PbufRecord /\ R.ref = pbuf[x].ref - 1
       /\ R.next = pbuf[x].next /\ R.original = pbuf[x].original
       /\ R.len = pbuf[x].len /\ R.tot_len = pbuf[x].tot_len
       /\ R.off = pbuf[x].off /\ R.cap = pbuf[x].cap
  <2>1. pbuf[x] \in PbufRecord
    BY <1>4, <1>6
  <2> QED
    BY <1>8, <1>11, <2>1 DEF PbufRecord
<1>13. pbuf' = [pbuf EXCEPT ![x] = R]
  BY <1>5, <1>11
<1>14. /\ pbuf' \in [Pbufs -> PbufRecord] /\ pbuf'[x] = R
       /\ \A p \in Pbufs \ {x} : pbuf'[p] = pbuf[p]
  BY <1>4, <1>6, <1>12, <1>13
<1>15. \A p \in Pbufs : /\ pbuf'[p].next = pbuf[p].next
                        /\ pbuf'[p].original = pbuf[p].original
                        /\ pbuf'[p].len = pbuf[p].len
                        /\ pbuf'[p].tot_len = pbuf[p].tot_len
                        /\ pbuf'[p].off = pbuf[p].off
                        /\ pbuf'[p].cap = pbuf[p].cap
  BY <1>12, <1>14
<1>16. /\ NextOnce(pbuf) /\ Acyclic(pbuf) /\ Listed(pbuf, memp) /\ Blanks(pbuf)
       /\ InMemory(pbuf)
  BY <1>3 DEF Good
<1>17. /\ NextOnce(pbuf') /\ Acyclic(pbuf')
       /\ \A p \in Pbufs : LinkCount(pbuf', p) = LinkCount(pbuf, p)
  BY <1>15, <1>16, SameLinks
<1>18. \A p \in Pbufs : OrigCount(pbuf', p) = OrigCount(pbuf, p)
  BY <1>15, SameOriginals
<1>19. Exact(pbuf', handles, t)
  <2> SUFFICES ASSUME NEW p \in Pbufs
               PROVE  pbuf'[p].ref = handles[p] + Times(t, p)
                                     + LinkCount(pbuf, p) + OrigCount(pbuf, p)
    BY <1>17, <1>18 DEF Exact
  <2>1. /\ pbuf[p].ref = handles[p] + Times(freeing, p)
                         + LinkCount(pbuf, p) + OrigCount(pbuf, p)
        /\ handles[p] \in Nat /\ LinkCount(pbuf, p) \in 0..1
        /\ OrigCount(pbuf, p) \in Nat
    BY <1>3, GoodIs
  <2>2. Times(t, p) \in Nat
    BY <1>8
  <2>3. Times(freeing, p) = Times(t, p) + IF p = x THEN 1 ELSE 0
    BY <1>6
  <2>4. CASE p = x
    <3>1. pbuf'[p].ref = pbuf[p].ref - 1 /\ pbuf[p].ref \in Nat
      BY <1>8, <1>12, <1>14, <2>4
    <3>2. Times(freeing, p) = Times(t, p) + 1
      BY <2>3, <2>4
    <3> QED
      BY <2>1, <2>2, <3>1, <3>2
  <2>5. CASE p # x
    <3>1. pbuf'[p] = pbuf[p] /\ Times(freeing, p) = Times(t, p)
      BY <1>14, <2>2, <2>3, <2>5
    <3> QED
      BY <2>1, <3>1
  <2> QED
    BY <2>4, <2>5
<1>20. Blanks(pbuf')
  <2> SUFFICES ASSUME NEW p \in Pbufs, pbuf'[p].ref = 0 PROVE pbuf'[p] = Blank
    BY DEF Blanks
  <2>1. p # x
    BY <1>8, <1>12, <1>14
  <2> QED
    BY <1>14, <1>16, <2>1 DEF Blanks
<1>21. Listed(pbuf', memp)
  <2>1. \A p \in Pbufs \ HeapPbufs : pbuf'[p].ref = 0 <=> pbuf[p].ref = 0
    BY <1>8, <1>12, <1>14
  <2> QED
    BY <1>16, <2>1, ListedKept
<1>22. InMemory(pbuf')
  BY <1>15, <1>16 DEF InMemory
<1>23. LengthsKept(pbuf', handles, t, NULL)
  <2>1. Making(pbuf', handles, t, NULL, D)
    BY DEF Making
  <2>2. ASSUME NEW p \in D
        PROVE  /\ pbuf'[p].ref = 1
               /\ Root(t, NULL, p) \/ \E q \in D : pbuf'[q].next = p
    <3>1. pbuf[p].ref = 1 /\ (Root(freeing, alloc, p) \/ \E q \in D : pbuf[q].next = p)
      BY <1>10 DEF Loose
    <3>2. p # x /\ pbuf'[p] = pbuf[p]
      BY <1>8, <1>14, <3>1
    <3>3. Root(freeing, alloc, p) => Root(t, NULL, p)
      <4>1. Times(freeing, p) = Times(t, p)
        BY <1>6, <1>8, <3>2
      <4>2. /\ Times(t, p) > 0 <=> \E i \in DOMAIN t : t[i] = p
            /\ Times(freeing, p) > 0 <=> \E i \in DOMAIN freeing : freeing[i] = p
        BY <1>4, <1>6, TimesPositive
      <4> QED
        BY <1>9, <4>1, <4>2 DEF Root
    <3> QED
      BY <1>15, <3>1, <3>2, <3>3
  <2>3. ASSUME NEW p \in Pbufs \ D
        PROVE  Agree(pbuf', p)
    <3>1. Agree(pbuf, p) /\ pbuf[p].next \in Pbufs \union {NULL}
      BY <1>4, <1>10, RecordIs DEF Loose
    <3> QED
      BY <1>15, <3>1 DEF Agree
  <2>4. Loose(pbuf', t, NULL, D)
    BY <2>2, <2>3 DEF Loose
  <2> QED
    BY <2>1, <2>4 DEF LengthsKept
<1>24. Good(pbuf', memp, handles, t, NULL)
  BY <1>4, <1>6, <1>14, <1>17, <1>19, <1>20, <1>21, <1>22, <1>23 DEF Good, PbufTyped
<1> QED
  BY <1>5, <1>7, <1>9, <1>24 DEF PbufInv

\* The last reference: the pbuf's memory is free, and what it kept is freed.
LEMMA FreeStepLast ==
  ASSUME PbufInv, FreeStep, pbuf[Head(freeing)].ref = 1
  PROVE  PbufInv'
<1>1. PICK x : x = Head(freeing)
  OBVIOUS
<1>2. PICK t : t = Tail(freeing)
  OBVIOUS
<1>3. Good(pbuf, memp, handles, freeing, alloc)
  BY DEF PbufInv
<1>4. /\ pbuf \in [Pbufs -> PbufRecord] /\ memp \in [Pools -> Seq(Pbufs)]
      /\ handles \in [Pbufs -> Nat] /\ freeing \in Seq(Pbufs)
  BY <1>3 DEF Good, PbufTyped
<1>5. /\ freeing # <<>> /\ pbuf[x].ref = 1
      /\ pbuf' = [pbuf EXCEPT ![x] = Blank] /\ memp' = MempFree(x)
      /\ handles' = handles /\ alloc' = alloc
  BY <1>1 DEF FreeStep
<1>6. /\ x \in Pbufs /\ t \in Seq(Pbufs)
      /\ \A p : Times(freeing, p) = Times(t, p) + IF p = x THEN 1 ELSE 0
  BY <1>1, <1>2, <1>4, <1>5, TimesHead
<1>7. PICK n \in Pbufs \union {NULL} : n = pbuf[x].next
  BY <1>4, <1>6, RecordIs
<1>8. PICK o \in Pbufs \union {NULL} : o = pbuf[x].original
  BY <1>4, <1>6, RecordIs
<1>9. freeing' = SeqOf(o) \o SeqOf(n) \o t
  BY <1>1, <1>2, <1>5, <1>7, <1>8 DEF FreeStep, FreeNext
<1>10. /\ freeing' \in Seq(Pbufs)
       /\ \A p \in Pbufs : Times(freeing', p) = (IF p = o THEN 1 ELSE 0)
                             + (IF p = n THEN 1 ELSE 0) + Times(t, p)
  <2>1. SeqOf(o) \in Seq(Pbufs) /\ SeqOf(n) \in Seq(Pbufs)
    BY <1>6, <1>7, <1>8, SeqOfIs
  <2>2. SeqOf(o) \o SeqOf(n) \in Seq(Pbufs)
    BY <2>1, ConcatProperties
  <2>3. SeqOf(o) \o SeqOf(n) \o t \in Seq(Pbufs)
    BY <1>6, <2>2, ConcatProperties
  <2>4. ASSUME NEW p \in Pbufs
        PROVE  Times(freeing', p) = (IF p = o THEN 1 ELSE 0)
                                    + (IF p = n THEN 1 ELSE 0) + Times(t, p)
    <3>1. Times(freeing', p) = Times(SeqOf(o) \o SeqOf(n), p) + Times(t, p)
      <4>1. PICK a \in Seq(Pbufs) : a = SeqOf(o) \o SeqOf(n)
        BY <2>2
      <4>2. Times(a \o t, p) = Times(a, p) + Times(t, p)
        BY <1>6, TimesConcat
      <4> QED
        BY <1>9, <4>1, <4>2
    <3>2. Times(SeqOf(o) \o SeqOf(n), p) = Times(SeqOf(o), p) + Times(SeqOf(n), p)
      BY <2>1, TimesConcat
    <3>3. /\ Times(SeqOf(o), p) = IF p = o THEN 1 ELSE 0
          /\ Times(SeqOf(n), p) = IF p = n THEN 1 ELSE 0
      BY <1>7, <1>8, SeqOfIs
    <3> QED
      BY <3>1, <3>2, <3>3
  <2> QED
    BY <1>9, <2>3, <2>4
<1>11. \A p : Times(t, p) \in Nat
  BY <1>6, TimesIs
<1>12. /\ handles[x] = 0 /\ Times(t, x) = 0
       /\ LinkCount(pbuf, x) = 0 /\ OrigCount(pbuf, x) = 0
       /\ \A q \in Pbufs : pbuf[q].next # x /\ pbuf[q].original # x
  <2>1. /\ pbuf[x].ref = handles[x] + Times(freeing, x)
                         + LinkCount(pbuf, x) + OrigCount(pbuf, x)
        /\ handles[x] \in Nat /\ LinkCount(pbuf, x) \in 0..1 /\ OrigCount(pbuf, x) \in Nat
        /\ LinkCount(pbuf, x) = 0 <=> \A q \in Pbufs : pbuf[q].next # x
        /\ OrigCount(pbuf, x) = 0 <=> \A q \in Pbufs : pbuf[q].original # x
    BY <1>3, <1>6, GoodIs
  <2>2. Times(freeing, x) = Times(t, x) + 1
    BY <1>6
  <2>3. Times(t, x) \in Nat
    BY <1>11
  <2>4. /\ handles[x] = 0 /\ Times(t, x) = 0
        /\ LinkCount(pbuf, x) = 0 /\ OrigCount(pbuf, x) = 0
    BY <1>5, <2>1, <2>2, <2>3
  <2> QED
    BY <2>1, <2>4
<1>13. x # n /\ x # o
  BY <1>6, <1>7, <1>8, <1>12
<1>14. alloc = NULL
  BY <1>3, <1>5 DEF Good, LengthsKept, Making
<1>15. PICK D \in SUBSET Pbufs : Loose(pbuf, freeing, alloc, D)
  BY <1>3 DEF Good, LengthsKept
<1>16. /\ pbuf' \in [Pbufs -> PbufRecord] /\ pbuf'[x] = Blank
       /\ \A p \in Pbufs \ {x} : pbuf'[p] = pbuf[p]
  BY <1>4, <1>5, <1>6, BlankIs
<1>17. /\ NextOnce(pbuf) /\ Acyclic(pbuf) /\ Blanks(pbuf) /\ InMemory(pbuf)
  BY <1>3 DEF Good
<1>18. /\ NextOnce(pbuf') /\ Acyclic(pbuf')
       /\ \A p \in Pbufs : /\ LinkCount(pbuf, p) \in Nat
                           /\ LinkCount(pbuf, p) = LinkCount(pbuf', p)
                                                   + IF p = n THEN 1 ELSE 0
  <2>1. pbuf'[x].next = NULL /\ \A p \in Pbufs \ {x} : pbuf'[p].next = pbuf[p].next
    BY <1>16, BlankIs
  <2> QED
    BY <1>6, <1>7, <1>17, <2>1, LinkCut
<1>19. ASSUME NEW p \in Pbufs
       PROVE  /\ OrigCount(pbuf', p) \in Nat
              /\ OrigCount(pbuf, p) = OrigCount(pbuf', p) + IF p = o THEN 1 ELSE 0
  <2>1. Adopts(pbuf', pbuf, x, o)
    BY <1>6, <1>8, <1>16, BlankIs DEF Adopts
  <2> QED
    BY <2>1, OriginalOf
<1>20. Exact(pbuf', handles, freeing')
  <2> SUFFICES ASSUME NEW p \in Pbufs
               PROVE  pbuf'[p].ref = handles[p] + Times(freeing', p)
                                     + LinkCount(pbuf', p) + OrigCount(pbuf', p)
    BY DEF Exact
  <2>1. /\ pbuf[p].ref = handles[p] + Times(freeing, p)
                         + LinkCount(pbuf, p) + OrigCount(pbuf, p)
        /\ handles[p] \in Nat /\ LinkCount(pbuf, p) \in 0..1
        /\ OrigCount(pbuf, p) \in Nat
    BY <1>3, GoodIs
  <2>2. PICK a \in 0..1 : a = IF p = o THEN 1 ELSE 0
    OBVIOUS
  <2>3. PICK b \in 0..1 : b = IF p = n THEN 1 ELSE 0
    OBVIOUS
  <2>4. PICK c \in Nat : c = Times(t, p)
    BY <1>11
  <2>5. Times(freeing', p) = a + b + c
    BY <1>10, <2>2, <2>3, <2>4
  <2>6. OrigCount(pbuf', p) \in Nat /\ OrigCount(pbuf, p) = OrigCount(pbuf', p) + a
    BY <1>19, <2>2
  <2>7. PICK m : m = LinkCount(pbuf', p)
    OBVIOUS
  <2>8. LinkCount(pbuf, p) = m + b /\ m \in Nat
    <3>1. LinkCount(pbuf, p) = m + b
      BY <1>18, <2>3, <2>7
    <3>2. LinkCount(pbuf', p) = IF \E q \in Pbufs : pbuf'[q].next = p THEN 1 ELSE 0
      BY <1>18, LinkCountIs
    <3> QED
      BY <2>7, <3>1, <3>2
  <2>9. CASE p = x
    <3>1. a = 0 /\ b = 0 /\ c = 0 /\ handles[p] = 0
      BY <1>12, <1>13, <2>2, <2>3, <2>4, <2>9
    <3>2. OrigCount(pbuf', p) = 0 /\ m = 0
      BY <1>12, <2>6, <2>8, <2>9, <3>1
    <3>3. pbuf'[p].ref = 0
      BY <1>16, <2>9, BlankIs
    <3> QED
      BY <2>5, <2>7, <3>1, <3>2, <3>3
  <2>10. CASE p # x
    <3>1. pbuf'[p].ref = pbuf[p].ref
      BY <1>16, <2>10
    <3>2. Times(freeing, p) = c
      BY <1>6, <2>4, <2>10
    <3>3. pbuf[p].ref = handles[p] + c + (m + b) + (OrigCount(pbuf', p) + a)
      BY <2>1, <2>6, <2>8, <3>2
    <3>4. pbuf[p].ref = handles[p] + (a + b + c) + m + OrigCount(pbuf', p)
      BY <2>1, <2>2, <2>3, <2>4, <2>6, <2>8, <3>3
    <3> QED
      BY <2>5, <2>7, <3>1, <3>4
  <2> QED
    BY <2>9, <2>10
<1>21. Blanks(pbuf') /\ InMemory(pbuf')
  <2>1. Blanks(pbuf')
    BY <1>16, <1>17 DEF Blanks
  <2>2. Blank.off + Blank.len <= Blank.cap
    BY BlankIs
  <2> QED
    BY <1>16, <1>17, <2>1, <2>2 DEF InMemory
<1>22. memp' \in [Pools -> Seq(Pbufs)] /\ Listed(pbuf', memp')
  <2>1. pbuf'[x].ref = 0 /\ \A p \in Pbufs \ {x} : pbuf'[p].ref = pbuf[p].ref
    BY <1>16, BlankIs
  <2>2. memp' = IF x \in HeapPbufs THEN memp
                ELSE [memp EXCEPT ![PoolOf(x)] = <<x>> \o @]
    BY <1>5 DEF MempFree
  <2>3. pbuf[x].ref # 0
    BY <1>5
  <2> QED
    <3>1. Returns(pbuf, memp, x, pbuf', memp')
      BY <1>6, <2>1, <2>2, <2>3 DEF Returns
    <3> QED
      BY <1>3, <3>1, PutBack
<1>23. LengthsKept(pbuf', handles, freeing', NULL)
  <2> DEFINE E == D \ {x}
  <2>1. Making(pbuf', handles, freeing', NULL, E)
    BY DEF Making
  <2>2. ASSUME NEW p \in E
        PROVE  /\ pbuf'[p].ref = 1
               /\ Root(freeing', NULL, p) \/ \E q \in E : pbuf'[q].next = p
    <3>1. pbuf[p].ref = 1 /\ (Root(freeing, alloc, p) \/ \E q \in D : pbuf[q].next = p)
      BY <1>15 DEF Loose
    <3>2. p # x /\ p \in Pbufs /\ pbuf'[p] = pbuf[p]
      BY <1>16
    <3>3. Times(freeing', p) > 0 => Root(freeing', NULL, p)
      BY <1>10, TimesPositive DEF Root
    <3>4. Times(t, p) \in Nat
      BY <1>11
    <3>5. CASE Root(freeing, alloc, p)
      <4>1. Times(freeing, p) > 0
        BY <1>4, <1>14, <3>5, TimesPositive DEF Root
      <4>2. Times(freeing, p) = Times(t, p)
        BY <1>6, <3>2, <3>4
      <4>3. Times(freeing', p) > 0
        BY <1>10, <3>2, <3>4, <4>1, <4>2
      <4> QED
        BY <3>1, <3>2, <3>3, <4>3
    <3>6. ASSUME NEW q \in D, pbuf[q].next = p
          PROVE  Root(freeing', NULL, p) \/ \E r \in E : pbuf'[r].next = p
      <4>1. CASE q = x
        <5>1. p = n
          BY <1>7, <3>6, <4>1
        <5>2. Times(freeing', p) > 0
          BY <1>10, <3>2, <3>4, <5>1
        <5> QED
          BY <3>3, <5>2
      <4>2. CASE q # x
        <5>1. q \in E /\ pbuf'[q].next = p
          BY <1>16, <3>6, <4>2
        <5> QED
          BY <5>1
      <4> QED
        BY <4>1, <4>2
    <3> QED
      BY <3>1, <3>2, <3>5, <3>6
  <2>3. ASSUME NEW p \in Pbufs \ E
        PROVE  Agree(pbuf', p)
    <3>1. CASE p = x
      BY <1>16, <3>1, BlankIs DEF Agree
    <3>2. CASE p # x
      <4>1. Agree(pbuf, p) /\ pbuf[p].next \in Pbufs \union {NULL} /\ pbuf[p].next # x
        BY <1>4, <1>12, <1>15, <3>2, RecordIs DEF Loose
      <4>2. pbuf'[p] = pbuf[p] /\ (pbuf[p].next # NULL => pbuf'[pbuf[p].next] = pbuf[pbuf[p].next])
        BY <1>16, <3>2, <4>1
      <4> QED
        BY <4>1, <4>2 DEF Agree
    <3> QED
      BY <3>1, <3>2
  <2>4. Loose(pbuf', freeing', NULL, E)
    <3> HIDE DEF E
    <3>1. E \subseteq Pbufs
      BY DEF E
    <3> QED
      BY <2>2, <2>3, <3>1 DEF Loose
  <2>5. E \in SUBSET Pbufs
    OBVIOUS
  <2> HIDE DEF E
  <2> QED
    BY <2>1, <2>4, <2>5 DEF LengthsKept
<1>24. Good(pbuf', memp', handles, freeing', NULL)
  BY <1>4, <1>10, <1>16, <1>18, <1>20, <1>21, <1>22, <1>23 DEF Good, PbufTyped
<1> QED
  BY <1>5, <1>14, <1>24 DEF PbufInv

\* One turn of pbuf_free's loop keeps the invariant: it lowers the count, and at
\* zero frees the pbuf, goes on with its next and lets go of its original.
LEMMA FreeStepKeeps ==
  ASSUME PbufInv, FreeStep
  PROVE  PbufInv'
BY FreeStepLess, FreeStepLast

------------------------------
(* Packets are cut. *)

\* A chain does not come back to its first pbuf.
LEMMA NoReturn ==
  ASSUME LinksOf(pbuf), NEW q \in Pbufs, NEW p \in InChain(q)
  PROVE  pbuf[p].next # q
<1>1. PICK s : s = Chain[q]
  OBVIOUS
<1>2. Follows(s, q) /\ \A i, j \in 1..Len(s) : s[i] = s[j] => i = j
  BY <1>1, ChainIs
<1>3. PICK n \in Nat : n = Len(s) /\ n >= 1
  BY <1>2 DEF Follows
<1>4. /\ s[1] = q /\ pbuf[s[n]].next = NULL /\ DOMAIN s = 1..n
      /\ \A i \in 1..n - 1 : pbuf[s[i]].next = s[i + 1]
  BY <1>2, <1>3, LenProperties DEF Follows
<1>5. PICK i \in 1..n : p = s[i]
  BY <1>1, <1>4 DEF InChain
<1>6. CASE i = n
  BY <1>4, <1>5, <1>6, NullIs
<1>7. CASE i # n
  <2>1. i \in 1..n - 1 /\ i + 1 \in 1..n /\ 1 \in 1..n /\ i + 1 # 1
    BY <1>3, <1>7
  <2>2. s[i + 1] # s[1]
    BY <1>2, <1>3, <2>1
  <2> QED
    BY <1>4, <1>5, <2>1, <2>2
<1> QED
  BY <1>6, <1>7

\* What is before a pbuf of a packet leads to it.
LEMMA BeforeIs ==
  ASSUME LinksOf(pbuf), NextOnce(pbuf), NEW x \in Pbufs, NEW q \in InChain(x)
  PROVE  /\ q \in Pbufs /\ InChain(q) \subseteq InChain(x)
         /\ \A r \in InChain(x) \ InChain(q) :
              pbuf[r].next = q \/ pbuf[r].next \in InChain(x) \ InChain(q)
<1>1. /\ x \in InChain(x) /\ InChain(x) \subseteq Pbufs
      /\ \A r \in InChain(x) : pbuf[r].next = NULL \/ pbuf[r].next \in InChain(x)
  BY InChainIs, NullIs
<1>2. q \in Pbufs
  BY <1>1
<1>3. InChain(q) \subseteq InChain(x)
  BY <1>1, <1>2, InChainLeast
<1>4. PICK e \in InChain(x) :
        pbuf[e].next = NULL /\ \A r \in InChain(x) : pbuf[r].next = NULL => r = e
  BY InChainIs, NullIs
<1>5. e \in InChain(q)
  <2>1. PICK d \in InChain(q) : pbuf[d].next = NULL
    BY <1>2, InChainIs, NullIs
  <2> QED
    BY <1>3, <1>4, <2>1
<1>6. ASSUME NEW r \in InChain(x), r \notin InChain(q), pbuf[r].next # q
      PROVE  pbuf[r].next \in InChain(x) \ InChain(q)
  <2>1. pbuf[r].next # NULL
    BY <1>4, <1>5, <1>6
  <2>2. pbuf[r].next \in InChain(x) /\ r \in Pbufs
    BY <1>1, <2>1
  <2>3. \A y \in Pbufs : pbuf[y].next \in InChain(q) => y \in InChain(q) \/ pbuf[y].next = q
    BY <1>2, InChainIs, NullIs
  <2> QED
    BY <1>6, <2>2, <2>3
<1> QED
  BY <1>2, <1>3, <1>6

\* Of the packet x, and of any other pbuf that leads into it.
LEMMA InPacket ==
  ASSUME PbufInv, NEW x \in Heads
  PROVE  /\ \A r \in InChain(x) : r \in Pbufs /\ pbuf[r].ref > 0
         /\ \A r \in Pbufs : pbuf[r].next \in InChain(x) => r \in InChain(x)
<1>1. Good(pbuf, memp, handles, freeing, alloc)
  BY DEF PbufInv
<1>2. LinksOf(pbuf) /\ NextOnce(pbuf)
  BY <1>1, GoodIs
<1>3. x \in Pbufs /\ pbuf[x].ref > 0 /\ \A q \in Pbufs : pbuf[q].next # x
  BY HeadIs
<1>4. /\ InChain(x) \subseteq Pbufs
      /\ \A r \in Pbufs : pbuf[r].next \in InChain(x) =>
           r \in InChain(x) \/ pbuf[r].next = x
  BY <1>2, <1>3, InChainIs, NullIs
<1>5. ASSUME NEW r \in InChain(x)
      PROVE  pbuf[r].ref > 0
  <2>1. CASE r = x
    BY <1>3, <2>1
  <2>2. CASE r # x
    <3>1. PICK q \in Pbufs : pbuf[q].next = r
      BY <1>2, <1>3, <1>4, <2>2, InChainBefore
    <3>2. r \in Pbufs
      BY <1>4
    <3>3. /\ pbuf[r].ref = handles[r] + Times(freeing, r)
                           + LinkCount(pbuf, r) + OrigCount(pbuf, r)
          /\ handles[r] \in Nat /\ Times(freeing, r) \in Nat
          /\ LinkCount(pbuf, r) \in 0..1 /\ OrigCount(pbuf, r) \in Nat
          /\ LinkCount(pbuf, r) = 0 <=> \A y \in Pbufs : pbuf[y].next # r
      BY <1>1, <3>2, GoodIs
    <3>4. LinkCount(pbuf, r) = 1
      BY <3>1, <3>3
    <3> QED
      BY <3>3, <3>4
  <2> QED
    BY <2>1, <2>2
<1> QED
  BY <1>3, <1>4, <1>5

\* The link behind e is cut, and the reference that it was is given back.
Cuts(e) ==
  /\ Idle /\ e \in Pbufs
  /\ pbuf' \in [Pbufs -> PbufRecord]
  /\ pbuf'[e].next = NULL
  /\ \A p \in Pbufs \ {e} : pbuf'[p].next = pbuf[p].next
  /\ \A p \in Pbufs : /\ pbuf'[p].ref = pbuf[p].ref
                      /\ pbuf'[p].original = pbuf[p].original
                      /\ pbuf[p].ref = 0 => pbuf'[p] = pbuf[p]
                      /\ pbuf'[p].off + pbuf'[p].len <= pbuf'[p].cap
                      /\ Agree(pbuf', p)
  /\ freeing' = SeqOf(pbuf[e].next)
  /\ memp' = memp /\ handles' = handles /\ alloc' = alloc

\* Cutting a chain behind a pbuf keeps the invariant, with the rest left to free.
LEMMA CutsKeeps ==
  ASSUME PbufInv, NEW e, Cuts(e)
  PROVE  PbufInv'
<1> USE DEF Cuts
<1>1. Good(pbuf, memp, handles, <<>>, NULL)
  BY DEF PbufInv, Idle
<1>2. /\ pbuf \in [Pbufs -> PbufRecord] /\ memp \in [Pools -> Seq(Pbufs)]
      /\ handles \in [Pbufs -> Nat]
      /\ NextOnce(pbuf) /\ Acyclic(pbuf) /\ Listed(pbuf, memp) /\ Blanks(pbuf)
  BY <1>1 DEF Good, PbufTyped
<1>3. PICK n \in Pbufs \union {NULL} : n = pbuf[e].next
  BY <1>2, RecordIs
<1>4. /\ freeing' \in Seq(Pbufs)
      /\ \A p \in Pbufs : Times(freeing', p) = IF p = n THEN 1 ELSE 0
  <2>1. freeing' = SeqOf(n)
    BY <1>3
  <2>2. SeqOf(n) \in Seq(Pbufs)
    <3>1. CASE n = NULL
      BY <3>1, EmptySeq DEF SeqOf
    <3>2. CASE n # NULL
      BY <1>3, <3>2 DEF SeqOf
    <3> QED
      BY <3>1, <3>2
  <2> QED
    BY <1>3, <2>1, <2>2, SeqOfIs
<1>5. /\ NextOnce(pbuf') /\ Acyclic(pbuf')
      /\ \A p \in Pbufs : /\ LinkCount(pbuf, p) \in Nat
                          /\ LinkCount(pbuf, p) = LinkCount(pbuf', p)
                                                  + IF p = n THEN 1 ELSE 0
  BY <1>2, <1>3, LinkCut
<1>6. \A p \in Pbufs : OrigCount(pbuf', p) = OrigCount(pbuf, p)
  BY SameOriginals
<1>7. Exact(pbuf', handles, freeing')
  <2> SUFFICES ASSUME NEW p \in Pbufs
               PROVE  pbuf'[p].ref = handles[p] + Times(freeing', p)
                                     + LinkCount(pbuf', p) + OrigCount(pbuf, p)
    BY <1>6 DEF Exact
  <2>1. /\ pbuf[p].ref = handles[p] + Times(<<>>, p)
                         + LinkCount(pbuf, p) + OrigCount(pbuf, p)
        /\ handles[p] \in Nat /\ LinkCount(pbuf, p) \in 0..1
        /\ OrigCount(pbuf, p) \in Nat
    BY <1>1, GoodIs
  <2>2. Times(<<>>, p) = 0
    BY TimesOne
  <2>3. PICK b \in 0..1 : b = IF p = n THEN 1 ELSE 0
    OBVIOUS
  <2>4. PICK m : m = LinkCount(pbuf', p)
    OBVIOUS
  <2>5. m \in Nat
    <3>1. LinkCount(pbuf', p) = IF \E q \in Pbufs : pbuf'[q].next = p THEN 1 ELSE 0
      BY <1>5, LinkCountIs
    <3> QED
      BY <2>4, <3>1
  <2>6. Times(freeing', p) = b /\ LinkCount(pbuf, p) = m + b
    BY <1>4, <1>5, <2>3, <2>4
  <2>7. pbuf'[p].ref = pbuf[p].ref
    OBVIOUS
  <2> QED
    BY <2>1, <2>2, <2>3, <2>4, <2>5, <2>6, <2>7
<1>8. Blanks(pbuf') /\ InMemory(pbuf')
  BY <1>2 DEF Blanks, InMemory
<1>9. Listed(pbuf', memp)
  <2>1. \A p \in Pbufs \ HeapPbufs : pbuf'[p].ref = 0 <=> pbuf[p].ref = 0
    OBVIOUS
  <2> QED
    BY <1>2, <2>1, ListedKept
<1>10. LengthsKept(pbuf', handles, freeing', NULL)
  BY LengthsAgree
<1>11. Good(pbuf', memp, handles, freeing', NULL)
  BY <1>2, <1>4, <1>5, <1>7, <1>8, <1>9, <1>10 DEF Good, PbufTyped
<1> QED
  BY <1>11 DEF PbufInv, Idle

LEMMA pbuf_dechainKeeps ==
  ASSUME PbufInv, NEW x \in Pbufs, pbuf_dechain(x)
  PROVE  PbufInv'
<1>1. PICK q : q = pbuf[x].next
  OBVIOUS
<1>2. /\ Idle /\ x \in Heads /\ q # NULL
      /\ pbuf' = [pbuf EXCEPT ![q].tot_len = pbuf[x].tot_len - pbuf[x].len,
                              ![x].next = NULL, ![x].tot_len = pbuf[x].len]
      /\ freeing' = <<q>>
      /\ memp' = memp /\ handles' = handles /\ alloc' = alloc
  BY <1>1 DEF pbuf_dechain
<1>3. Good(pbuf, memp, handles, <<>>, NULL)
  BY <1>2 DEF PbufInv, Idle
<1>4. pbuf \in [Pbufs -> PbufRecord] /\ LinksOf(pbuf) /\ InMemory(pbuf)
  BY <1>3, GoodIs DEF Good, PbufTyped
<1>5. q \in Pbufs
  BY <1>1, <1>2, <1>4 DEF LinksOf
<1>6. /\ x # q /\ pbuf[x].ref > 0
      /\ \A p \in Pbufs : pbuf[p].next # x
  BY <1>1, <1>2, HeadIs
<1>7. Agree(pbuf, x) /\ \A p \in Pbufs : Agree(pbuf, p)
  BY <1>3, IdleAgrees
<1>8. \A p \in Pbufs : pbuf[p].len \in Nat /\ pbuf[p].tot_len \in Nat
  BY <1>4, RecordIs DEF Sizes
<1>9. pbuf[x].tot_len - pbuf[x].len = pbuf[q].tot_len
  <2>1. pbuf[x].tot_len = pbuf[x].len + pbuf[q].tot_len
    BY <1>1, <1>2, <1>7 DEF Agree
  <2> QED
    BY <1>5, <1>8, <2>1
<1>10. PICK R : R = [pbuf[x] EXCEPT !.next = NULL, !.tot_len = pbuf[x].len]
  OBVIOUS
<1>11. /\ R \in PbufRecord /\ R.ref = pbuf[x].ref /\ R.original = pbuf[x].original
       /\ R.next = NULL /\ R.len = pbuf[x].len /\ R.tot_len = pbuf[x].len
       /\ R.off = pbuf[x].off /\ R.cap = pbuf[x].cap
  <2>1. pbuf[x] \in PbufRecord
    BY <1>4
  <2> QED
    BY <1>10, <2>1 DEF PbufRecord
<1>12. pbuf'[x] = R /\ \A p \in Pbufs \ {x} : pbuf'[p] = pbuf[p]
  <2>1. pbuf'[x] = R
    BY <1>2, <1>4, <1>5, <1>6, <1>10
  <2>2. pbuf'[q] = [pbuf[q] EXCEPT !.tot_len = pbuf[q].tot_len]
    BY <1>2, <1>4, <1>5, <1>6, <1>9
  <2>3. pbuf'[q] = pbuf[q]
    <3>1. pbuf[q] \in PbufRecord
      BY <1>4, <1>5
    <3> QED
      BY <2>2, <3>1 DEF PbufRecord
  <2>4. \A p \in Pbufs \ {x, q} : pbuf'[p] = pbuf[p]
    BY <1>2, <1>4, <1>5
  <2> QED
    BY <2>1, <2>3, <2>4
<1>13. pbuf' \in [Pbufs -> PbufRecord]
  <2>1. pbuf' = [p \in Pbufs |-> pbuf'[p]]
    BY <1>2, <1>4
  <2>2. \A p \in Pbufs : pbuf'[p] \in PbufRecord
    BY <1>4, <1>11, <1>12
  <2> QED
    BY <2>1, <2>2
<1>14. ASSUME NEW p \in Pbufs
       PROVE  Agree(pbuf', p)
  <2>1. CASE p = x
    <3>1. pbuf[x].len = pbuf[x].len + 0
      BY <1>8
    <3> QED
      BY <1>11, <1>12, <2>1, <3>1 DEF Agree
  <2>2. CASE p # x
    <3>1. pbuf'[p] = pbuf[p] /\ pbuf[p].next # x /\ pbuf[p].next \in Pbufs \union {NULL}
      BY <1>4, <1>6, <1>12, <2>2 DEF LinksOf
    <3>2. pbuf[p].next # NULL => pbuf'[pbuf[p].next] = pbuf[pbuf[p].next]
      BY <1>12, <3>1
    <3> QED
      BY <1>7, <3>1, <3>2 DEF Agree
  <2> QED
    BY <2>1, <2>2
<1>15. freeing' = SeqOf(pbuf[x].next)
  BY <1>1, <1>2 DEF SeqOf
<1>16. \A p \in Pbufs : /\ pbuf'[p].ref = pbuf[p].ref
                        /\ pbuf'[p].original = pbuf[p].original
                        /\ pbuf[p].ref = 0 => pbuf'[p] = pbuf[p]
                        /\ pbuf'[p].off + pbuf'[p].len <= pbuf'[p].cap
  BY <1>4, <1>6, <1>11, <1>12 DEF InMemory
<1>17. Cuts(x)
  BY <1>2, <1>11, <1>12, <1>13, <1>14, <1>15, <1>16 DEF Cuts
<1> QED
  BY <1>17, CutsKeeps

LEMMA pbuf_reallocKeeps ==
  ASSUME PbufInv, NEW x \in Pbufs, NEW new_len \in Lengths, pbuf_realloc(x, new_len)
  PROVE  PbufInv'
<1>1. PICK q : q = WalkTo[x][new_len].at
  OBVIOUS
<1>2. PICK k : k = WalkTo[x][new_len].left
  OBVIOUS
<1>3. PICK shrink : shrink = pbuf[x].tot_len - new_len
  OBVIOUS
<1>4. PICK A : A = InChain(x) \ InChain(q)
  OBVIOUS
<1>5. /\ Idle /\ x \in Heads /\ new_len < pbuf[x].tot_len
      /\ pbuf' = [r \in Pbufs |-> IF r = q THEN CutAt(q, k)
                                  ELSE IF r \in A THEN CutBefore(pbuf[r], shrink)
                                  ELSE pbuf[r]]
      /\ freeing' = SeqOf(pbuf[q].next)
      /\ memp' = memp /\ handles' = handles /\ alloc' = alloc
  BY <1>1, <1>2, <1>3, <1>4 DEF pbuf_realloc
<1>6. Good(pbuf, memp, handles, <<>>, NULL)
  BY <1>5 DEF PbufInv, Idle
<1>7. /\ pbuf \in [Pbufs -> PbufRecord] /\ LinksOf(pbuf) /\ NextOnce(pbuf)
      /\ Sizes(pbuf) /\ InMemory(pbuf)
  BY <1>6, GoodIs DEF Good, PbufTyped
<1>8. \A p \in Pbufs : Agree(pbuf, p)
  BY <1>6, IdleAgrees
<1>9. \A p \in Pbufs :
        /\ pbuf[p].len \in Nat /\ pbuf[p].tot_len \in Nat /\ pbuf[p].off \in Nat
        /\ pbuf[p].cap \in Nat /\ pbuf[p].tot_len < U16 /\ U16 \in Nat
        /\ pbuf[p].len <= pbuf[p].tot_len /\ pbuf[p].next \in Pbufs \union {NULL}
  BY <1>5, <1>7, LenIs, RecordIs
<1>10. new_len \in Nat
  BY PbufAssumption
<1>11. /\ q \in InChain(x) /\ k \in Nat /\ k <= pbuf[q].len
       /\ shrink = pbuf[q].tot_len - k
  <2>1. new_len <= pbuf[x].tot_len
    BY <1>5, <1>9, <1>10
  <2> QED
    BY <1>1, <1>2, <1>3, <1>7, <1>8, <1>10, <2>1, WalkIs
<1>12. /\ q \in Pbufs /\ InChain(q) \subseteq InChain(x) /\ A \subseteq Pbufs
       /\ \A r \in A : pbuf[r].next = q \/ pbuf[r].next \in A
       /\ q \in InChain(q) /\ q \notin A
  <2>1. InChain(x) \subseteq Pbufs
    BY <1>7, InChainIs, NullIs
  <2>2. q \in InChain(q)
    BY <1>7, <1>11, <2>1, InChainIs, NullIs
  <2> QED
    BY <1>4, <1>7, <1>11, <2>1, <2>2, BeforeIs
<1>13. shrink \in Nat
  BY <1>3, <1>5, <1>9, <1>10
<1>14. \A r \in A : pbuf[r].tot_len >= shrink
  <2> DEFINE C == {r \in Pbufs : r \in A => pbuf[r].tot_len >= shrink}
  <2>1. ASSUME NEW r \in Pbufs, pbuf[r].next = NULL \/ pbuf[r].next \in C
        PROVE  r \in C
    <3> SUFFICES ASSUME r \in A PROVE pbuf[r].tot_len >= shrink
      OBVIOUS
    <3> DEFINE n == pbuf[r].next
    <3>1. n \in Pbufs /\ pbuf[n].tot_len >= shrink
      <4>1. CASE n = q
        BY <1>9, <1>11, <1>12, <1>13, <4>1
      <4>2. CASE n \in A
        <5>1. n \in Pbufs /\ n # NULL
          BY <1>12, <4>2, NullIs
        <5> QED
          BY <2>1, <4>2, <5>1
      <4> QED
        BY <1>12, <4>1, <4>2
    <3>2. pbuf[r].tot_len = pbuf[r].len + pbuf[n].tot_len
      <4>1. n # NULL
        BY <3>1, NullIs
      <4> QED
        BY <1>8, <4>1 DEF Agree
    <3> QED
      BY <1>9, <1>13, <3>1, <3>2
  <2>2. Pbufs \subseteq C
    <3> HIDE DEF C
    <3> QED
      BY <1>7, <2>1, Climb
  <2> QED
    BY <1>12, <2>2
<1>15. PICK R : R = CutAt(q, k)
  OBVIOUS
<1>16. /\ R \in PbufRecord /\ R.ref = pbuf[q].ref /\ R.original = pbuf[q].original
       /\ R.next = NULL /\ R.len = k /\ R.tot_len = k
       /\ R.off + R.len <= R.cap
  <2>1. k \in 0..U16 - 1
    BY <1>9, <1>11, <1>12
  <2>2. PICK c : c = IF q \in HeapPbufs /\ k # pbuf[q].len
                     THEN Align(pbuf[q].off + k) ELSE pbuf[q].cap
    OBVIOUS
  <2>3. c \in Nat /\ pbuf[q].off + k <= c
    <3>1. pbuf[q].off + k \in Nat
      BY <1>9, <1>11, <1>12
    <3>2. CASE q \in HeapPbufs /\ k # pbuf[q].len
      <4>1. c = Align(pbuf[q].off + k)
        BY <2>2, <3>2
      <4> QED
        BY <3>1, <4>1, AlignIs
    <3>3. CASE ~(q \in HeapPbufs /\ k # pbuf[q].len)
      <4>1. c = pbuf[q].cap
        BY <2>2, <3>3
      <4>2. pbuf[q].off + pbuf[q].len <= pbuf[q].cap
        BY <1>7, <1>12 DEF InMemory
      <4> QED
        BY <1>9, <1>11, <1>12, <4>1, <4>2
    <3> QED
      BY <3>2, <3>3
  <2>4. pbuf[q] \in PbufRecord
    BY <1>7, <1>12
  <2>5. R = [pbuf[q] EXCEPT !.len = k, !.tot_len = k, !.next = NULL, !.cap = c]
    BY <1>15, <2>2, <2>4 DEF CutAt, PbufRecord
  <2>6. /\ R \in PbufRecord /\ R.ref = pbuf[q].ref /\ R.original = pbuf[q].original
        /\ R.next = NULL /\ R.len = k /\ R.tot_len = k
        /\ R.off = pbuf[q].off /\ R.cap = c
    BY <2>1, <2>3, <2>4, <2>5 DEF PbufRecord
  <2> QED
    BY <2>3, <2>6
<1>17. pbuf'[q] = R
  BY <1>5, <1>12, <1>15
<1>18. ASSUME NEW r \in A
       PROVE  /\ pbuf'[r] \in PbufRecord /\ pbuf'[r].ref = pbuf[r].ref
              /\ pbuf'[r].original = pbuf[r].original /\ pbuf'[r].next = pbuf[r].next
              /\ pbuf'[r].len = pbuf[r].len /\ pbuf'[r].off = pbuf[r].off
              /\ pbuf'[r].cap = pbuf[r].cap
              /\ pbuf'[r].tot_len = pbuf[r].tot_len - shrink
  <2>1. r \in Pbufs /\ r # q /\ pbuf[r] \in PbufRecord
    BY <1>7, <1>12
  <2>2. pbuf'[r] = [pbuf[r] EXCEPT !.tot_len = @ - shrink]
    BY <1>5, <2>1 DEF CutBefore
  <2>3. pbuf[r].tot_len - shrink \in 0..U16 - 1
    BY <1>9, <1>13, <1>14, <2>1
  <2> QED
    BY <2>1, <2>2, <2>3 DEF PbufRecord
<1>19. \A r \in Pbufs : r \notin A /\ r # q => pbuf'[r] = pbuf[r]
  BY <1>5
<1>20. pbuf' \in [Pbufs -> PbufRecord]
  <2>1. \A r \in Pbufs : pbuf'[r] \in PbufRecord
    BY <1>7, <1>16, <1>17, <1>18, <1>19
  <2>2. pbuf' = [r \in Pbufs |-> pbuf'[r]]
    BY <1>5
  <2> QED
    BY <2>1, <2>2
<1>21. \A r \in Pbufs : pbuf[r].ref = 0 => r \notin A /\ r # q
  <2>1. \A r \in InChain(x) : pbuf[r].ref > 0
    BY <1>5, InPacket
  <2> QED
    BY <1>4, <1>11, <2>1
<1>22. ASSUME NEW p \in Pbufs
       PROVE  /\ pbuf'[p].ref = pbuf[p].ref
              /\ pbuf'[p].original = pbuf[p].original
              /\ pbuf[p].ref = 0 => pbuf'[p] = pbuf[p]
              /\ pbuf'[p].off + pbuf'[p].len <= pbuf'[p].cap
  <2>1. pbuf[p].off + pbuf[p].len <= pbuf[p].cap
    BY <1>7 DEF InMemory
  <2>2. CASE p = q
    BY <1>16, <1>17, <1>21, <2>2
  <2>3. CASE p \in A
    BY <1>18, <1>21, <2>1, <2>3
  <2>4. CASE p \notin A /\ p # q
    BY <1>19, <2>1, <2>4
  <2> QED
    BY <2>2, <2>3, <2>4
<1>23. ASSUME NEW p \in Pbufs
       PROVE  Agree(pbuf', p)
  <2> DEFINE n == pbuf[p].next
  <2>1. Agree(pbuf, p)
    BY <1>8
  <2>2. CASE p = q
    <3>1. k = k + 0
      BY <1>11
    <3> QED
      BY <1>16, <1>17, <2>2, <3>1 DEF Agree
  <2>3. CASE p \in A
    <3>1. pbuf'[p].len = pbuf[p].len /\ pbuf'[p].next = n
          /\ pbuf'[p].tot_len = pbuf[p].tot_len - shrink
      BY <1>18, <2>3
    <3>2. n \in Pbufs /\ pbuf'[n].tot_len = pbuf[n].tot_len - shrink
      <4>1. CASE n = q
        BY <1>9, <1>11, <1>12, <1>16, <1>17, <4>1
      <4>2. CASE n \in A
        BY <1>12, <1>18, <4>2
      <4> QED
        BY <1>12, <2>3, <4>1, <4>2
    <3>3. n # NULL
      BY <3>2, NullIs
    <3>4. pbuf[p].tot_len = pbuf[p].len + pbuf[n].tot_len
      BY <2>1, <3>3 DEF Agree
    <3>5. pbuf[p].tot_len - shrink = pbuf[p].len + (pbuf[n].tot_len - shrink)
      BY <1>9, <1>13, <3>2, <3>4
    <3> QED
      BY <3>1, <3>2, <3>3, <3>5 DEF Agree
  <2>4. CASE p \notin A /\ p # q
    <3>1. pbuf'[p] = pbuf[p]
      BY <1>19, <2>4
    <3>2. n \notin A /\ n # q
      <4> SUFFICES ASSUME n \in A \/ n = q PROVE FALSE
        OBVIOUS
      <4>1. n \in InChain(x)
        BY <1>4, <1>11
      <4>2. p \in InChain(q)
        <5>1. p \in InChain(x)
          BY <1>5, <4>1, InPacket
        <5> QED
          BY <1>4, <2>4, <5>1
      <4>3. n # q
        BY <1>7, <1>12, <4>2, NoReturn
      <4>4. n = NULL \/ n \in InChain(q)
        BY <1>7, <1>12, <4>2, InChainIs, NullIs
      <4> QED
        BY <1>4, <1>12, <4>3, <4>4, NullIs
    <3>3. n # NULL => pbuf'[n] = pbuf[n]
      BY <1>9, <1>19, <3>2
    <3> QED
      BY <2>1, <3>1, <3>3 DEF Agree
  <2> QED
    BY <2>2, <2>3, <2>4
<1>24. \A p \in Pbufs \ {q} : pbuf'[p].next = pbuf[p].next
  BY <1>18, <1>19
<1>25. Cuts(q)
  BY <1>5, <1>12, <1>16, <1>17, <1>20, <1>22, <1>23, <1>24 DEF Cuts
<1> QED
  BY <1>25, CutsKeeps

------------------------------
(* Packets are joined. *)

\* Memory after the packets h and t are joined, all counts as they were.
JoinedWell(J, h, t) ==
  /\ J \in [Pbufs -> PbufRecord]
  /\ NextOnce(J) /\ Acyclic(J) /\ Blanks(J) /\ InMemory(J)
  /\ \A p \in Pbufs : /\ J[p].ref = pbuf[p].ref
                      /\ LinkCount(pbuf, p) \in Nat
                      /\ LinkCount(J, p) = LinkCount(pbuf, p) + IF p = t THEN 1 ELSE 0
                      /\ OrigCount(J, p) = OrigCount(pbuf, p)
                      /\ Agree(J, p)

\* A chain joined to another is again a chain, with the lengths raised in front.
LEMMA JoinedIs ==
  ASSUME PbufInv, NEW h \in Pbufs, NEW t \in Pbufs, Joinable(h, t),
         NEW J, J = Joined(h, t)
  PROVE  JoinedWell(J, h, t)
<1>1. /\ Idle /\ h \in Heads /\ t \in Heads /\ h # t
      /\ pbuf[h].tot_len + pbuf[t].tot_len < U16
  BY DEF Joinable
<1>2. Good(pbuf, memp, handles, <<>>, NULL)
  BY <1>1 DEF PbufInv, Idle
<1>3. /\ pbuf \in [Pbufs -> PbufRecord] /\ LinksOf(pbuf) /\ NextOnce(pbuf)
      /\ Acyclic(pbuf) /\ Sizes(pbuf) /\ InMemory(pbuf) /\ Blanks(pbuf)
  BY <1>2, GoodIs DEF Good, PbufTyped
<1>4. \A p \in Pbufs : Agree(pbuf, p)
  BY <1>2, IdleAgrees
<1>5. PICK A : A = InChain(h)
  OBVIOUS
<1>6. /\ h \in A /\ A \subseteq Pbufs
      /\ \A r \in A : pbuf[r].next = NULL \/ pbuf[r].next \in A
  BY <1>3, <1>5, InChainIs, NullIs
<1>7. /\ \A r \in A : pbuf[r].ref > 0
      /\ \A r \in Pbufs : pbuf[r].next \in A => r \in A
  BY <1>1, <1>5, InPacket
<1>8. \A q \in Pbufs : pbuf[q].next # t
  BY <1>1, HeadIs
<1>9. t \notin A
  <2> SUFFICES ASSUME t \in A PROVE FALSE
    OBVIOUS
  <2>1. \E q \in A : pbuf[q].next = t
    BY <1>1, <1>3, <1>5, InChainBefore
  <2> QED
    BY <1>6, <1>8, <2>1
<1>10. PICK e \in A :
         pbuf[e].next = NULL /\ \A r \in A : pbuf[r].next = NULL => r = e
  BY <1>3, <1>5, InChainIs, NullIs
<1>11. J = [p \in Pbufs |->
              IF p \notin A THEN pbuf[p]
              ELSE [pbuf[p] EXCEPT !.tot_len = @ + pbuf[t].tot_len,
                                   !.next = IF @ = NULL THEN t ELSE @]]
  BY <1>5 DEF Joined
<1>12. \A p \in Pbufs :
         /\ pbuf[p].len \in Nat /\ pbuf[p].tot_len \in Nat
         /\ pbuf[p].next \in Pbufs \union {NULL}
  BY <1>3, RecordIs DEF Sizes
<1>13. ASSUME NEW p \in A
       PROVE  /\ J[p] \in PbufRecord /\ J[p].ref = pbuf[p].ref
              /\ J[p].original = pbuf[p].original
              /\ J[p].next = IF p = e THEN t ELSE pbuf[p].next
              /\ J[p].len = pbuf[p].len /\ J[p].off = pbuf[p].off
              /\ J[p].cap = pbuf[p].cap
              /\ J[p].tot_len = pbuf[p].tot_len + pbuf[t].tot_len
  <2>1. p \in Pbufs /\ pbuf[p] \in PbufRecord
    BY <1>3, <1>6
  <2>2. J[p] = [pbuf[p] EXCEPT !.tot_len = @ + pbuf[t].tot_len,
                               !.next = IF @ = NULL THEN t ELSE @]
    BY <1>11, <2>1
  <2>3. PICK n : n = IF pbuf[p].next = NULL THEN t ELSE pbuf[p].next
    OBVIOUS
  <2>4. n = (IF p = e THEN t ELSE pbuf[p].next) /\ n \in Pbufs
    BY <1>10, <1>12, <2>1, <2>3
  <2>5. PICK l : l = pbuf[p].tot_len + pbuf[t].tot_len
    OBVIOUS
  <2>6. l \in 0..U16 - 1
    <3>1. pbuf[p].tot_len <= pbuf[h].tot_len
      BY <1>3, <1>4, <1>5, TotFalls
    <3>2. U16 \in Nat
      BY PbufAssumption
    <3> QED
      BY <1>1, <1>12, <2>1, <2>5, <3>1, <3>2
  <2>7. J[p] = [pbuf[p] EXCEPT !.tot_len = l, !.next = n]
    BY <2>1, <2>2, <2>3, <2>5 DEF PbufRecord
  <2>8. /\ J[p] \in PbufRecord /\ J[p].ref = pbuf[p].ref
        /\ J[p].original = pbuf[p].original /\ J[p].next = n
        /\ J[p].len = pbuf[p].len /\ J[p].off = pbuf[p].off
        /\ J[p].cap = pbuf[p].cap /\ J[p].tot_len = l
    BY <2>1, <2>4, <2>6, <2>7 DEF PbufRecord
  <2> QED
    BY <2>4, <2>5, <2>8
<1>14. \A p \in Pbufs : p \notin A => J[p] = pbuf[p]
  BY <1>11
<1>15. J \in [Pbufs -> PbufRecord]
  <2>1. \A p \in Pbufs : J[p] \in PbufRecord
    BY <1>3, <1>13, <1>14
  <2>2. J = [p \in Pbufs |-> J[p]]
    BY <1>11
  <2> QED
    BY <2>1, <2>2
<1>16. \A p \in Pbufs : /\ J[p].ref = pbuf[p].ref
                        /\ J[p].original = pbuf[p].original
                        /\ pbuf[p].ref = 0 => J[p] = pbuf[p]
  BY <1>7, <1>13, <1>14
<1>17. J[e].next = t /\ \A p \in Pbufs \ {e} : J[p].next = pbuf[p].next
  BY <1>6, <1>13, <1>14
<1>18. /\ NextOnce(J) /\ Acyclic(J)
       /\ \A p \in Pbufs : /\ LinkCount(pbuf, p) \in Nat
                           /\ LinkCount(J, p) = LinkCount(pbuf, p)
                                                + IF p = t THEN 1 ELSE 0
  BY <1>3, <1>6, <1>7, <1>8, <1>9, <1>10, <1>17, LinkMade
<1>19. \A p \in Pbufs : OrigCount(J, p) = OrigCount(pbuf, p)
  BY <1>16, SameOriginals
<1>20. Blanks(J)
  BY <1>3, <1>16 DEF Blanks
<1>21. InMemory(J)
  <2> SUFFICES ASSUME NEW p \in Pbufs PROVE J[p].off + J[p].len <= J[p].cap
    BY DEF InMemory
  <2>1. pbuf[p].off + pbuf[p].len <= pbuf[p].cap
    BY <1>3 DEF InMemory
  <2>2. CASE p \in A
    BY <1>13, <2>1, <2>2
  <2>3. CASE p \notin A
    BY <1>14, <2>1, <2>3
  <2> QED
    BY <2>2, <2>3
<1>22. ASSUME NEW p \in Pbufs
       PROVE  Agree(J, p)
  <2> DEFINE n == pbuf[p].next
  <2>1. Agree(pbuf, p)
    BY <1>4
  <2>2. CASE p = e
    <3>1. pbuf[e].tot_len = pbuf[e].len + 0
      BY <1>10, <2>1, <2>2 DEF Agree
    <3>2. pbuf[e].tot_len + pbuf[t].tot_len = pbuf[e].len + pbuf[t].tot_len
      BY <1>6, <1>12, <3>1
    <3>3. J[t] = pbuf[t] /\ t # NULL
      BY <1>9, <1>14, NullIs
    <3> QED
      BY <1>13, <2>2, <3>2, <3>3 DEF Agree
  <2>3. CASE p \in A /\ p # e
    <3>1. n \in A /\ n \in Pbufs /\ n # NULL
      BY <1>6, <1>10, <2>3, NullIs
    <3>2. J[p].tot_len = pbuf[p].tot_len + pbuf[t].tot_len
          /\ J[n].tot_len = pbuf[n].tot_len + pbuf[t].tot_len
          /\ J[p].len = pbuf[p].len /\ J[p].next = n
      BY <1>13, <2>3, <3>1
    <3>3. pbuf[p].tot_len = pbuf[p].len + pbuf[n].tot_len
      BY <2>1, <3>1 DEF Agree
    <3>4. pbuf[p].tot_len + pbuf[t].tot_len
            = pbuf[p].len + (pbuf[n].tot_len + pbuf[t].tot_len)
      BY <1>12, <3>1, <3>3
    <3> QED
      BY <3>1, <3>2, <3>4 DEF Agree
  <2>4. CASE p \notin A
    <3>1. J[p] = pbuf[p] /\ n \notin A
      BY <1>7, <1>14, <2>4
    <3>2. n # NULL => J[n] = pbuf[n]
      BY <1>12, <1>14, <3>1
    <3> QED
      BY <2>1, <3>1, <3>2 DEF Agree
  <2> QED
    BY <2>2, <2>3, <2>4
<1> QED
  BY <1>15, <1>16, <1>18, <1>19, <1>20, <1>21, <1>22 DEF JoinedWell

LEMMA pbuf_catKeeps ==
  ASSUME PbufInv, NEW h \in Pbufs, NEW t \in Pbufs, pbuf_cat(h, t)
  PROVE  PbufInv'
<1>1. /\ Joinable(h, t) /\ pbuf' = Joined(h, t)
      /\ handles' = [handles EXCEPT ![t] = @ - 1]
      /\ memp' = memp /\ freeing' = freeing /\ alloc' = alloc
  BY DEF pbuf_cat
<1>2. Idle /\ t \in Heads
  BY <1>1 DEF Joinable
<1>3. Good(pbuf, memp, handles, <<>>, NULL)
  BY <1>2 DEF PbufInv, Idle
<1>4. /\ memp \in [Pools -> Seq(Pbufs)] /\ handles \in [Pbufs -> Nat]
      /\ Listed(pbuf, memp)
  BY <1>3 DEF Good, PbufTyped
<1>5. JoinedWell(pbuf', h, t)
  BY <1>1, JoinedIs
<1> USE DEF JoinedWell
<1>6. handles[t] > 0 /\ handles[t] \in Nat
  BY <1>2, <1>4, HeadIs
<1>7. /\ handles' \in [Pbufs -> Nat] /\ handles'[t] = handles[t] - 1
      /\ \A p \in Pbufs \ {t} : handles'[p] = handles[p]
  BY <1>1, <1>4, <1>6
<1>8. Exact(pbuf', handles', <<>>)
  <2> SUFFICES ASSUME NEW p \in Pbufs
               PROVE  pbuf[p].ref = handles'[p] + Times(<<>>, p)
                                    + LinkCount(pbuf', p) + OrigCount(pbuf, p)
    BY <1>5 DEF Exact
  <2>1. /\ pbuf[p].ref = handles[p] + Times(<<>>, p)
                         + LinkCount(pbuf, p) + OrigCount(pbuf, p)
        /\ handles[p] \in Nat /\ LinkCount(pbuf, p) \in 0..1
        /\ OrigCount(pbuf, p) \in Nat
    BY <1>3, GoodIs
  <2>2. Times(<<>>, p) = 0
    BY TimesOne
  <2>3. LinkCount(pbuf', p) = LinkCount(pbuf, p) + IF p = t THEN 1 ELSE 0
    BY <1>5
  <2>4. CASE p = t
    <3>1. handles'[p] = handles[p] - 1 /\ LinkCount(pbuf', p) = LinkCount(pbuf, p) + 1
      BY <1>7, <2>3, <2>4
    <3> QED
      BY <2>1, <2>2, <3>1
  <2>5. CASE p # t
    <3>1. handles'[p] = handles[p] /\ LinkCount(pbuf', p) = LinkCount(pbuf, p) + 0
      BY <1>7, <2>3, <2>5
    <3> QED
      BY <2>1, <2>2, <3>1
  <2> QED
    BY <2>4, <2>5
<1>9. Listed(pbuf', memp)
  <2>1. \A p \in Pbufs \ HeapPbufs : pbuf'[p].ref = 0 <=> pbuf[p].ref = 0
    BY <1>5
  <2> QED
    BY <1>4, <2>1, ListedKept
<1>10. LengthsKept(pbuf', handles', <<>>, NULL)
  BY <1>5, LengthsAgree
<1>11. <<>> \in Seq(Pbufs)
  BY EmptySeq
<1>12. Good(pbuf', memp, handles', <<>>, NULL)
  BY <1>4, <1>5, <1>7, <1>8, <1>9, <1>10, <1>11 DEF Good, PbufTyped
<1> QED
  BY <1>1, <1>2, <1>12 DEF PbufInv, Idle

LEMMA pbuf_chainKeeps ==
  ASSUME PbufInv, NEW h \in Pbufs, NEW t \in Pbufs, pbuf_chain(h, t)
  PROVE  PbufInv'
<1>1. PICK J : J = Joined(h, t)
  OBVIOUS
<1>2. /\ Joinable(h, t) /\ pbuf' = [J EXCEPT ![t].ref = @ + 1]
      /\ handles' = handles
      /\ memp' = memp /\ freeing' = freeing /\ alloc' = alloc
  BY <1>1 DEF pbuf_chain
<1>3. Idle /\ t \in Heads
  BY <1>2 DEF Joinable
<1>4. Good(pbuf, memp, handles, <<>>, NULL)
  BY <1>3 DEF PbufInv, Idle
<1>5. /\ memp \in [Pools -> Seq(Pbufs)] /\ handles \in [Pbufs -> Nat]
      /\ Listed(pbuf, memp)
  BY <1>4 DEF Good, PbufTyped
<1>6. JoinedWell(J, h, t)
  BY <1>1, <1>2, JoinedIs
<1> USE DEF JoinedWell
<1>7. J[t].ref > 0 /\ J[t].ref \in Nat
  <2>1. pbuf[t].ref > 0
    BY <1>3, HeadIs
  <2>2. J[t].ref \in Nat
    BY <1>6, RecordIs
  <2> QED
    BY <1>6, <2>1, <2>2
<1>8. PICK R : R = [J[t] EXCEPT !.ref = @ + 1]
  OBVIOUS
<1>9. /\ R \in PbufRecord /\ R.ref = J[t].ref + 1 /\ R.original = J[t].original
      /\ R.next = J[t].next /\ R.len = J[t].len /\ R.tot_len = J[t].tot_len
      /\ R.off = J[t].off /\ R.cap = J[t].cap
  <2>1. J[t] \in PbufRecord
    BY <1>6
  <2> QED
    BY <1>7, <1>8, <2>1 DEF PbufRecord
<1>10. pbuf' = [J EXCEPT ![t] = R]
  BY <1>2, <1>8
<1>11. /\ pbuf' \in [Pbufs -> PbufRecord] /\ pbuf'[t] = R
       /\ \A p \in Pbufs \ {t} : pbuf'[p] = J[p]
  BY <1>6, <1>9, <1>10
<1>12. \A p \in Pbufs : /\ pbuf'[p].next = J[p].next
                        /\ pbuf'[p].original = J[p].original
                        /\ pbuf'[p].len = J[p].len
                        /\ pbuf'[p].tot_len = J[p].tot_len
                        /\ pbuf'[p].off = J[p].off
                        /\ pbuf'[p].cap = J[p].cap
  BY <1>9, <1>11
<1>13. /\ NextOnce(pbuf') /\ Acyclic(pbuf')
       /\ \A p \in Pbufs : LinkCount(pbuf', p) = LinkCount(J, p)
  BY <1>6, <1>12, SameLinks
<1>14. \A p \in Pbufs : OrigCount(pbuf', p) = OrigCount(J, p)
  BY <1>12, SameOriginals
<1>15. Exact(pbuf', handles, <<>>)
  <2> SUFFICES ASSUME NEW p \in Pbufs
               PROVE  pbuf'[p].ref = handles[p] + Times(<<>>, p)
                                     + LinkCount(J, p) + OrigCount(pbuf, p)
    BY <1>6, <1>13, <1>14 DEF Exact
  <2>1. /\ pbuf[p].ref = handles[p] + Times(<<>>, p)
                         + LinkCount(pbuf, p) + OrigCount(pbuf, p)
        /\ handles[p] \in Nat /\ LinkCount(pbuf, p) \in 0..1
        /\ OrigCount(pbuf, p) \in Nat
    BY <1>4, GoodIs
  <2>2. Times(<<>>, p) = 0
    BY TimesOne
  <2>3. LinkCount(J, p) = LinkCount(pbuf, p) + IF p = t THEN 1 ELSE 0
    BY <1>6
  <2>4. CASE p = t
    <3>1. pbuf'[p].ref = J[p].ref + 1 /\ J[p].ref = pbuf[p].ref
      BY <1>6, <1>9, <1>11, <2>4
    <3>2. pbuf'[p].ref = pbuf[p].ref + 1
      BY <3>1
    <3>3. LinkCount(J, p) = LinkCount(pbuf, p) + 1
      BY <2>3, <2>4
    <3> QED
      BY <2>1, <2>2, <3>2, <3>3
  <2>5. CASE p # t
    <3>1. pbuf'[p].ref = pbuf[p].ref /\ LinkCount(J, p) = LinkCount(pbuf, p) + 0
      BY <1>6, <1>11, <2>3, <2>5
    <3> QED
      BY <2>1, <2>2, <3>1
  <2> QED
    BY <2>4, <2>5
<1>16. Blanks(pbuf')
  <2> SUFFICES ASSUME NEW p \in Pbufs, pbuf'[p].ref = 0 PROVE pbuf'[p] = Blank
    BY DEF Blanks
  <2>1. p # t
    BY <1>7, <1>9, <1>11
  <2>2. pbuf'[p] = J[p]
    BY <1>11, <2>1
  <2> QED
    BY <1>6, <2>2 DEF Blanks
<1>17. InMemory(pbuf')
  BY <1>6, <1>12 DEF InMemory
<1>18. Listed(pbuf', memp)
  <2>1. \A p \in Pbufs \ HeapPbufs : pbuf'[p].ref = 0 <=> pbuf[p].ref = 0
    BY <1>6, <1>7, <1>9, <1>11
  <2> QED
    BY <1>5, <2>1, ListedKept
<1>19. \A p \in Pbufs : Agree(pbuf', p)
  <2> SUFFICES ASSUME NEW p \in Pbufs PROVE Agree(pbuf', p)
    OBVIOUS
  <2>1. Agree(J, p) /\ J[p].next \in Pbufs \union {NULL}
    BY <1>6, RecordIs
  <2> QED
    BY <1>12, <2>1 DEF Agree
<1>20. LengthsKept(pbuf', handles, <<>>, NULL)
  BY <1>19, LengthsAgree
<1>21. <<>> \in Seq(Pbufs)
  BY EmptySeq
<1>22. Good(pbuf', memp, handles, <<>>, NULL)
  BY <1>5, <1>11, <1>13, <1>15, <1>16, <1>17, <1>18, <1>20, <1>21 DEF Good, PbufTyped
<1> QED
  BY <1>2, <1>3, <1>22 DEF PbufInv, Idle

------------------------------
(* Packets lose their front. *)

\* The references to a packet that nobody shares.
LEMMA AloneIs ==
  ASSUME PbufInv, Idle, NEW x \in Heads, \A r \in InChain(x) : pbuf[r].ref = 1,
         NEW r \in InChain(x)
  PROVE  /\ handles[r] = IF r = x THEN 1 ELSE 0
         /\ OrigCount(pbuf, r) = 0
<1>1. Good(pbuf, memp, handles, <<>>, NULL)
  BY DEF PbufInv, Idle
<1>2. LinksOf(pbuf) /\ NextOnce(pbuf)
  BY <1>1, GoodIs
<1>3. x \in Pbufs /\ handles[x] > 0 /\ \A q \in Pbufs : pbuf[q].next # x
  BY HeadIs
<1>4. r \in Pbufs /\ pbuf[r].ref = 1
  BY InPacket
<1>5. /\ pbuf[r].ref = handles[r] + Times(<<>>, r)
                       + LinkCount(pbuf, r) + OrigCount(pbuf, r)
      /\ handles[r] \in Nat /\ LinkCount(pbuf, r) \in 0..1
      /\ OrigCount(pbuf, r) \in Nat
      /\ LinkCount(pbuf, r) = 0 <=> \A q \in Pbufs : pbuf[q].next # r
  BY <1>1, <1>4, GoodIs
<1>6. Times(<<>>, r) = 0
  BY TimesOne
<1>7. CASE r = x
  BY <1>3, <1>4, <1>5, <1>6, <1>7
<1>8. CASE r # x
  <2>1. \E q \in Pbufs : pbuf[q].next = r
    <3>1. InChain(x) \subseteq Pbufs
      BY InPacket
    <3> QED
      BY <1>2, <1>3, <1>8, <3>1, InChainBefore
  <2>2. LinkCount(pbuf, r) = 1
    BY <1>5, <2>1
  <2> QED
    BY <1>4, <1>5, <1>6, <1>8, <2>2
<1> QED
  BY <1>7, <1>8

\* s has the pbufs of the packet q that are before at, or all if at is NULL;
\* F is their set.
Front(q, at, s, F) ==
  /\ s \in Seq(Pbufs) /\ \A i, j \in DOMAIN s : s[i] = s[j] => i = j
  /\ F = {s[i] : i \in DOMAIN s} /\ F \subseteq InChain(q)
  /\ at \notin F /\ (q \in F \/ q = at)
  /\ \A r \in F : pbuf[r].next \in F \union {NULL, at}
  /\ \A r \in Pbufs : pbuf[r].next \in F \/ (pbuf[r].next = at /\ at # NULL) =>
       r \in F \/ pbuf[r].next = q

\* The pbufs in front of a place in a chain are the chain's first ones.
LEMMA FrontIs ==
  ASSUME LinksOf(pbuf), NextOnce(pbuf), NEW q \in Pbufs,
         NEW at, at = NULL \/ at \in InChain(q),
         NEW gone, gone = {i \in DOMAIN Chain[q] : \A j \in 1..i : Chain[q][j] # at},
         NEW s, s = SubSeq(Chain[q], 1, Cardinality(gone))
  PROVE  Front(q, at, s, {Chain[q][i] : i \in gone})
<1>1. PICK c : c = Chain[q]
  OBVIOUS
<1>2. Follows(c, q) /\ \A i, j \in 1..Len(c) : c[i] = c[j] => i = j
  BY <1>1, ChainIs
<1>3. PICK n \in Nat : n = Len(c) /\ n >= 1
  BY <1>2 DEF Follows
<1>4. /\ c \in Seq(Pbufs) /\ c[1] = q /\ pbuf[c[n]].next = NULL /\ DOMAIN c = 1..n
      /\ \A i \in 1..n : c[i] \in Pbufs
      /\ \A i \in 1..n - 1 : pbuf[c[i]].next = c[i + 1]
      /\ \A i, j \in 1..n : c[i] = c[j] => i = j
  BY <1>2, <1>3, LenProperties DEF Follows
<1>5. InChain(q) = {c[i] : i \in 1..n}
  BY <1>1, <1>4 DEF InChain
<1>6. PICK m \in 0..n : /\ gone = 1..m
                        /\ m = n => at = NULL
                        /\ m < n => m + 1 \in 1..n /\ at = c[m + 1]
  <2>1. CASE at = NULL
    <3>1. gone = 1..n
      BY <1>1, <1>4, <2>1, NullIs
    <3> QED
      BY <1>3, <2>1, <3>1
  <2>2. CASE at # NULL
    <3>1. PICK k \in 1..n : at = c[k]
      BY <1>5, <2>2
    <3>2. \A j \in 1..n : c[j] # at <=> j # k
      BY <1>4, <3>1
    <3>3. gone = {i \in 1..n : \A j \in 1..i : c[j] # at}
      BY <1>1, <1>4
    <3>4. gone = 1..k - 1
      <4>1. ASSUME NEW i \in 1..n PROVE (\A j \in 1..i : c[j] # at) <=> i < k
        <5>1. \A j \in 1..i : j \in 1..n
          BY <1>3
        <5>2. CASE i < k
          BY <1>3, <3>2, <5>1, <5>2
        <5>3. CASE i >= k
          <6>1. k \in 1..i
            BY <1>3, <5>3
          <6> QED
            BY <3>1, <5>3, <6>1
        <5> QED
          BY <1>3, <5>2, <5>3
      <4>2. gone = {i \in 1..n : i < k}
        BY <3>3, <4>1
      <4> QED
        BY <1>3, <4>2
    <3>5. k - 1 \in 0..n /\ k - 1 < n /\ (k - 1) + 1 = k
      BY <1>3
    <3> QED
      BY <1>3, <3>1, <3>4, <3>5
  <2> QED
    BY <2>1, <2>2
<1>7. Cardinality(gone) = m
  <2>1. PICK one \in Int : one = 1
    OBVIOUS
  <2>2. m \in Int
    BY <1>6
  <2>3. Cardinality(one..m) = IF one > m THEN 0 ELSE m - one + 1
    BY <2>1, <2>2, FS_Interval
  <2>4. (IF one > m THEN 0 ELSE m - one + 1) = m
    BY <1>3, <1>6, <2>1
  <2>5. gone = one..m
    BY <1>6, <2>1
  <2> QED
    BY <2>3, <2>4, <2>5
<1>8. /\ s \in Seq(Pbufs) /\ DOMAIN s = 1..m /\ \A i \in 1..m : s[i] = c[i]
  <2>1. PICK one \in Int : one = 1
    OBVIOUS
  <2>2. s = SubSeq(c, one, m)
    BY <1>1, <1>7, <2>1, Zenon
  <2> m \in Int
    BY <1>6
  <2>3. \A i \in one..m : c[i] \in Pbufs
    BY <1>3, <1>4, <1>6, <2>1
  <2>4. /\ s \in Seq(Pbufs) /\ Len(s) = (IF one <= m THEN m - one + 1 ELSE 0)
        /\ \A i \in 1..m - one + 1 : s[i] = c[one + i - 1]
    <3>1. /\ SubSeq(c, one, m) \in Seq(Pbufs)
          /\ Len(SubSeq(c, one, m)) = (IF one <= m THEN m - one + 1 ELSE 0)
          /\ \A i \in 1..m - one + 1 : SubSeq(c, one, m)[i] = c[one + i - 1]
      BY <2>3, SubSeqProperties
    <3> QED
      BY <2>2, <3>1, Zenon
  <2>5. Len(s) = m
    BY <1>3, <1>6, <2>1, <2>4
  <2>6. \A i \in 1..m : s[i] = c[i]
    <3>1. \A i \in 1..m : i \in 1..m - one + 1 /\ one + i - 1 = i
      BY <1>3, <1>6, <2>1
    <3> QED
      BY <2>4, <3>1
  <2>7. DOMAIN s = 1..m
    BY <2>4, <2>5, LenProperties
  <2> QED
    BY <2>4, <2>6, <2>7
<1>9. PICK F : F = {c[i] : i \in 1..m}
  OBVIOUS
<1>10. {Chain[q][i] : i \in gone} = F
  BY <1>1, <1>6, <1>9
<1>11. F = {s[i] : i \in DOMAIN s}
  BY <1>8, <1>9
<1>12. \A i \in 1..m : i \in 1..n
  BY <1>3, <1>6
<1>13. \A i, j \in DOMAIN s : s[i] = s[j] => i = j
  <2> SUFFICES ASSUME NEW i \in DOMAIN s, NEW j \in DOMAIN s, s[i] = s[j]
               PROVE  i = j
    OBVIOUS
  <2>1. i \in 1..m /\ j \in 1..m
    BY <1>8, Zenon
  <2>2. s[i] = c[i] /\ s[j] = c[j]
    BY <1>8, <2>1, Zenon
  <2>3. i \in 1..n /\ j \in 1..n /\ c[i] = c[j]
    BY <1>12, <2>1, <2>2
  <2> QED
    BY <1>4, <2>3
<1>14. F \subseteq InChain(q)
  BY <1>5, <1>9, <1>12
<1>15. at \notin F
  <2>1. CASE m = n
    BY <1>4, <1>6, <1>9, <1>12, <2>1, NullIs
  <2>2. CASE m < n
    <3>1. \A i \in 1..m : i # m + 1
      BY <1>6
    <3> QED
      BY <1>4, <1>6, <1>9, <1>12, <2>2, <3>1
  <2> QED
    BY <1>3, <1>6, <2>1, <2>2
<1>16. q \in F \/ q = at
  <2>1. CASE m = 0
    <3>1. m < n /\ m + 1 = 1
      BY <1>3, <2>1
    <3> QED
      BY <1>4, <1>6, <3>1
  <2>2. CASE m # 0
    <3>1. 1 \in 1..m
      BY <1>3, <1>6, <2>2
    <3> QED
      BY <1>4, <1>9, <3>1
  <2> QED
    BY <2>1, <2>2
<1>17. ASSUME NEW r \in F
       PROVE  pbuf[r].next \in F \union {NULL, at}
  <2>1. PICK i \in 1..m : r = c[i]
    BY <1>9
  <2>2. CASE i = n
    BY <1>4, <2>1, <2>2
  <2>3. CASE i # n /\ i = m
    <3>1. m < n /\ i \in 1..n - 1
      BY <1>3, <1>6, <2>3
    <3> QED
      BY <1>4, <1>6, <2>1, <2>3, <3>1
  <2>4. CASE i # n /\ i # m
    <3>1. i \in 1..n - 1 /\ i + 1 \in 1..m
      BY <1>3, <1>6, <2>4
    <3> QED
      BY <1>4, <1>9, <2>1, <3>1
  <2> QED
    BY <2>2, <2>3, <2>4
<1>18. ASSUME NEW r \in Pbufs, pbuf[r].next \in F \/ (pbuf[r].next = at /\ at # NULL)
       PROVE  r \in F \/ pbuf[r].next = q
  <2>1. PICK i \in 1..n : pbuf[r].next = c[i] /\ i <= m + 1
    <3>1. CASE pbuf[r].next \in F
      <4>1. PICK i \in 1..m : pbuf[r].next = c[i]
        BY <1>9, <3>1
      <4>2. i \in 1..n /\ i <= m + 1
        BY <1>6, <1>12
      <4> QED
        BY <4>1, <4>2
    <3>2. CASE pbuf[r].next = at /\ at # NULL
      <4>1. m < n
        BY <1>3, <1>6, <3>2
      <4>2. m + 1 \in 1..n /\ at = c[m + 1] /\ m + 1 <= m + 1
        BY <1>6, <4>1
      <4> QED
        BY <3>2, <4>2
    <3> QED
      BY <1>18, <3>1, <3>2
  <2>2. CASE i = 1
    BY <1>4, <2>1, <2>2
  <2>3. CASE i # 1
    <3>1. i - 1 \in 1..n - 1 /\ i - 1 \in 1..m /\ i - 1 \in 1..n /\ (i - 1) + 1 = i
      BY <1>3, <1>6, <2>1, <2>3
    <3>2. pbuf[c[i - 1]].next = c[i] /\ c[i - 1] \in Pbufs
      BY <1>4, <3>1
    <3>3. c[i] # NULL
      BY <1>4, <2>1, NullIs
    <3>4. r = c[i - 1]
      BY <2>1, <3>2, <3>3 DEF NextOnce
    <3> QED
      BY <1>9, <3>1, <3>4
  <2> QED
    BY <2>2, <2>3
<1>19. Front(q, at, s, F)
  BY <1>8, <1>11, <1>13, <1>14, <1>15, <1>16, <1>17, <1>18 DEF Front
<1> QED
  BY <1>10, <1>19

LEMMA pbuf_free_headerKeeps ==
  ASSUME PbufInv, NEW x \in Pbufs, NEW size \in Lengths, pbuf_free_header(x, size)
  PROVE  PbufInv'
<1>1. PICK at : at = FreeTo[x][size].at
  OBVIOUS
<1>2. PICK left : left = FreeTo[x][size].left
  OBVIOUS
<1>3. PICK gone : gone = {i \in DOMAIN Chain[x] : \A j \in 1..i : Chain[x][j] # at}
  OBVIOUS
<1>4. PICK F : F = {Chain[x][i] : i \in gone}
  OBVIOUS
<1>5. /\ Idle /\ x \in Heads
      /\ \A r \in InChain(x) : pbuf[r].ref = 1
      /\ pbuf' = [r \in Pbufs |-> IF r = at THEN HeaderRemoved(pbuf[r], left)
                                  ELSE IF \E i \in gone : Chain[x][i] = r
                                  THEN [pbuf[r] EXCEPT !.next = NULL] ELSE pbuf[r]]
      /\ freeing' = SubSeq(Chain[x], 1, Cardinality(gone))
      /\ handles' = [r \in Pbufs |-> IF r = at THEN 1 ELSE IF r = x THEN 0 ELSE handles[r]]
      /\ memp' = memp /\ alloc' = alloc
  BY <1>1, <1>2, <1>3 DEF pbuf_free_header
<1>6. Good(pbuf, memp, handles, <<>>, NULL)
  BY <1>5 DEF PbufInv, Idle
<1>7. /\ pbuf \in [Pbufs -> PbufRecord] /\ LinksOf(pbuf) /\ NextOnce(pbuf)
      /\ Acyclic(pbuf) /\ Sizes(pbuf) /\ InMemory(pbuf) /\ Listed(pbuf, memp)
      /\ Blanks(pbuf) /\ memp \in [Pools -> Seq(Pbufs)] /\ handles \in [Pbufs -> Nat]
  BY <1>6, GoodIs DEF Good, PbufTyped
<1>8. \A p \in Pbufs : Agree(pbuf, p)
  BY <1>6, IdleAgrees
<1>9. at # NULL => at \in InChain(x) /\ left \in Nat /\ left <= pbuf[at].len
  <2>1. size \in Nat
    BY PbufAssumption
  <2> QED
    BY <1>1, <1>2, <1>7, <2>1, FreeToIs
<1>10. Front(x, at, freeing', F)
  BY <1>3, <1>4, <1>5, <1>7, <1>9, FrontIs
<1>11. /\ freeing' \in Seq(Pbufs)
       /\ \A i, j \in DOMAIN freeing' : freeing'[i] = freeing'[j] => i = j
       /\ F = {freeing'[i] : i \in DOMAIN freeing'}
       /\ F \subseteq InChain(x) /\ at \notin F /\ (x \in F \/ x = at)
       /\ \A r \in F : pbuf[r].next \in F \union {NULL, at}
  BY <1>10 DEF Front
<1>12. \A r \in InChain(x) : r \in Pbufs /\ pbuf[r].ref = 1
  BY <1>5, InPacket
<1>13. F \subseteq Pbufs /\ (at # NULL => at \in Pbufs)
  BY <1>9, <1>11, <1>12
<1>14. \A r \in Pbufs : pbuf[r].next \in F \/ (pbuf[r].next = at /\ at # NULL) => r \in F
  <2>1. \A r \in Pbufs : pbuf[r].next # x
    BY <1>5, HeadIs
  <2>2. \A r \in Pbufs : pbuf[r].next \in F \/ (pbuf[r].next = at /\ at # NULL) =>
          r \in F \/ pbuf[r].next = x
    BY <1>10 DEF Front
  <2> QED
    BY <2>1, <2>2
<1>15. \A r \in InChain(x) : handles[r] = (IF r = x THEN 1 ELSE 0) /\ OrigCount(pbuf, r) = 0
  BY <1>5, AloneIs
<1>16. \A r \in F : pbuf'[r] = [pbuf[r] EXCEPT !.next = NULL]
  <2>1. \A r \in F : \E i \in gone : Chain[x][i] = r
    BY <1>4
  <2> QED
    BY <1>5, <1>11, <1>13, <2>1
<1>17. \A r \in Pbufs : r \notin F /\ r # at => pbuf'[r] = pbuf[r]
  <2>1. \A r : r \notin F => ~(\E i \in gone : Chain[x][i] = r)
    BY <1>4
  <2> QED
    BY <1>5, <2>1
<1>18. ASSUME NEW r \in F
       PROVE  /\ pbuf'[r] \in PbufRecord /\ pbuf'[r].ref = 1 /\ pbuf'[r].next = NULL
              /\ pbuf'[r].original = pbuf[r].original /\ pbuf'[r].len = pbuf[r].len
              /\ pbuf'[r].tot_len = pbuf[r].tot_len
              /\ pbuf'[r].off = pbuf[r].off /\ pbuf'[r].cap = pbuf[r].cap
  <2>1. pbuf[r] \in PbufRecord /\ pbuf[r].ref = 1
    BY <1>7, <1>11, <1>12
  <2>2. pbuf'[r] = [pbuf[r] EXCEPT !.next = NULL]
    BY <1>16
  <2> QED
    BY <2>1, <2>2 DEF PbufRecord
<1>19. at # NULL => /\ pbuf'[at] \in PbufRecord /\ pbuf'[at].ref = 1
                    /\ pbuf'[at].next = pbuf[at].next
                    /\ pbuf'[at].original = pbuf[at].original
                    /\ pbuf'[at].len = pbuf[at].len - left
                    /\ pbuf'[at].tot_len = pbuf[at].tot_len - left
                    /\ pbuf'[at].off = pbuf[at].off + left
                    /\ pbuf'[at].cap = pbuf[at].cap
  <2> SUFFICES ASSUME at # NULL
               PROVE  /\ pbuf'[at] \in PbufRecord /\ pbuf'[at].ref = 1
                      /\ pbuf'[at].next = pbuf[at].next
                      /\ pbuf'[at].original = pbuf[at].original
                      /\ pbuf'[at].len = pbuf[at].len - left
                      /\ pbuf'[at].tot_len = pbuf[at].tot_len - left
                      /\ pbuf'[at].off = pbuf[at].off + left
                      /\ pbuf'[at].cap = pbuf[at].cap
    OBVIOUS
  <2>1. at \in Pbufs /\ pbuf[at] \in PbufRecord /\ pbuf[at].ref = 1
        /\ left \in Nat /\ left <= pbuf[at].len
    BY <1>7, <1>9, <1>12
  <2>2. pbuf'[at] = [pbuf[at] EXCEPT !.off = @ + left, !.len = @ - left,
                                     !.tot_len = @ - left]
    BY <1>5, <2>1 DEF HeaderRemoved
  <2>3. /\ pbuf[at].len \in Nat /\ pbuf[at].tot_len \in Nat /\ pbuf[at].off \in Nat
        /\ pbuf[at].len <= pbuf[at].tot_len /\ pbuf[at].tot_len < U16 /\ U16 \in Nat
    BY <1>5, <2>1, LenIs
  <2>4. /\ pbuf[at].len - left \in 0..U16 - 1 /\ pbuf[at].tot_len - left \in 0..U16 - 1
        /\ pbuf[at].off + left \in Nat
    BY <2>1, <2>3
  <2> QED
    BY <2>1, <2>2, <2>4 DEF PbufRecord
<1>20. pbuf' \in [Pbufs -> PbufRecord]
  <2>1. \A r \in Pbufs : pbuf'[r] \in PbufRecord
    <3> SUFFICES ASSUME NEW r \in Pbufs PROVE pbuf'[r] \in PbufRecord
      OBVIOUS
    <3>1. CASE r \in F
      BY <1>18, <3>1
    <3>2. CASE r = at
      BY <1>19, <3>2, NullIs
    <3>3. CASE r \notin F /\ r # at
      BY <1>7, <1>17, <3>3
    <3> QED
      BY <3>1, <3>2, <3>3
  <2>2. pbuf' = [r \in Pbufs |-> pbuf'[r]]
    BY <1>5
  <2> QED
    BY <2>1, <2>2
<1>21. ASSUME NEW p \in Pbufs
       PROVE  /\ pbuf'[p].ref = pbuf[p].ref
              /\ pbuf'[p].original = pbuf[p].original
              /\ pbuf'[p].next = IF p \in F THEN NULL ELSE pbuf[p].next
              /\ p # at => pbuf'[p].tot_len = pbuf[p].tot_len /\ pbuf'[p].len = pbuf[p].len
              /\ pbuf[p].ref = 0 => pbuf'[p] = pbuf[p]
              /\ pbuf'[p].off + pbuf'[p].len <= pbuf'[p].cap
  <2>1. pbuf[p].off + pbuf[p].len <= pbuf[p].cap
    BY <1>7 DEF InMemory
  <2>2. CASE p \in F
    <3>1. pbuf[p].ref = 1
      BY <1>11, <1>12, <2>2
    <3> QED
      BY <1>18, <2>1, <2>2, <3>1
  <2>3. CASE p = at
    <3>1. p # NULL /\ pbuf[p].ref = 1 /\ p \notin F
      BY <1>9, <1>11, <1>12, <2>3, NullIs
    <3>2. pbuf[p].off \in Nat /\ pbuf[p].len \in Nat /\ pbuf[p].cap \in Nat /\ left \in Nat
      BY <1>7, <1>9, <2>3, <3>1, RecordIs DEF Sizes
    <3>3. (pbuf[p].off + left) + (pbuf[p].len - left) <= pbuf[p].cap
      BY <2>1, <3>2
    <3> QED
      BY <1>19, <2>3, <3>1, <3>3
  <2>4. CASE p \notin F /\ p # at
    BY <1>17, <2>1, <2>4
  <2> QED
    BY <2>2, <2>3, <2>4
<1>22. NextOnce(pbuf') /\ Acyclic(pbuf')
  <2>1. \A p \in Pbufs : pbuf'[p].next \in {pbuf[p].next, NULL}
    BY <1>21
  <2> QED
    BY <1>7, <2>1, LinksCut
<1>23. \A p \in Pbufs : OrigCount(pbuf', p) = OrigCount(pbuf, p)
  BY <1>21, SameOriginals
<1>24. handles' \in [Pbufs -> Nat]
  BY <1>5, <1>7
<1>25. \A p \in Pbufs : Times(freeing', p) = IF p \in F THEN 1 ELSE 0
  <2> SUFFICES ASSUME NEW p \in Pbufs
               PROVE  Times(freeing', p) = IF p \in F THEN 1 ELSE 0
    OBVIOUS
  <2>1. Times(freeing', p) = IF \E i \in DOMAIN freeing' : freeing'[i] = p THEN 1 ELSE 0
    BY <1>11, TimesOnce
  <2> QED
    BY <1>11, <2>1
<1>26. Exact(pbuf', handles', freeing')
  <2> SUFFICES ASSUME NEW p \in Pbufs
               PROVE  pbuf'[p].ref = handles'[p] + Times(freeing', p)
                                     + LinkCount(pbuf', p) + OrigCount(pbuf, p)
    BY <1>23 DEF Exact
  <2>1. /\ pbuf[p].ref = handles[p] + Times(<<>>, p)
                         + LinkCount(pbuf, p) + OrigCount(pbuf, p)
        /\ handles[p] \in Nat /\ LinkCount(pbuf, p) \in 0..1
        /\ OrigCount(pbuf, p) \in Nat
    BY <1>6, GoodIs
  <2>2. Times(<<>>, p) = 0
    BY TimesOne
  <2>3. LinkCount(pbuf', p) = IF \E r \in Pbufs : pbuf'[r].next = p THEN 1 ELSE 0
    BY <1>22, LinkCountIs
  <2>4. LinkCount(pbuf, p) = IF \E r \in Pbufs : pbuf[r].next = p THEN 1 ELSE 0
    BY <1>7, LinkCountIs
  <2>5. p # NULL
    BY NullIs
  <2>6. CASE p \in F
    <3>1. \A r \in Pbufs : pbuf'[r].next # p
      BY <1>14, <1>21, <2>5, <2>6
    <3>2. LinkCount(pbuf', p) = 0
      BY <2>3, <3>1
    <3>3. handles'[p] = 0
      BY <1>5, <1>11, <1>15, <2>6
    <3>4. pbuf'[p].ref = 1 /\ Times(freeing', p) = 1 /\ OrigCount(pbuf, p) = 0
      BY <1>11, <1>15, <1>18, <1>25, <2>6
    <3> QED
      BY <3>2, <3>3, <3>4
  <2>7. CASE p = at
    <3>1. \A r \in Pbufs : pbuf'[r].next # p
      BY <1>14, <1>21, <2>5, <2>7
    <3>2. LinkCount(pbuf', p) = 0
      BY <2>3, <3>1
    <3>3. handles'[p] = 1
      BY <1>5, <2>7
    <3>4. pbuf'[p].ref = 1 /\ Times(freeing', p) = 0 /\ OrigCount(pbuf, p) = 0
      BY <1>9, <1>11, <1>15, <1>19, <1>25, <2>5, <2>7
    <3> QED
      BY <3>2, <3>3, <3>4
  <2>8. CASE p \notin F /\ p # at
    <3>1. \A r \in Pbufs : pbuf'[r].next = p <=> pbuf[r].next = p
      BY <1>11, <1>21, <2>5, <2>8
    <3>2. LinkCount(pbuf', p) = LinkCount(pbuf, p)
      BY <2>3, <2>4, <3>1
    <3>3. handles'[p] = handles[p]
      BY <1>5, <1>11, <2>8
    <3>4. pbuf'[p].ref = pbuf[p].ref /\ Times(freeing', p) = 0
      BY <1>21, <1>25, <2>8
    <3> QED
      BY <2>1, <2>2, <3>2, <3>3, <3>4
  <2> QED
    BY <2>6, <2>7, <2>8
<1>27. Blanks(pbuf') /\ InMemory(pbuf')
  BY <1>7, <1>21 DEF Blanks, InMemory
<1>28. Listed(pbuf', memp)
  <2>1. \A p \in Pbufs \ HeapPbufs : pbuf'[p].ref = 0 <=> pbuf[p].ref = 0
    BY <1>21
  <2> QED
    BY <1>7, <2>1, ListedKept
<1>29. ASSUME NEW p \in Pbufs \ F
       PROVE  Agree(pbuf', p)
  <2> DEFINE n == pbuf[p].next
  <2>1. Agree(pbuf, p) /\ p \in Pbufs /\ pbuf'[p].next = n /\ n \in Pbufs \union {NULL}
    BY <1>7, <1>8, <1>21 DEF LinksOf
  <2>2. n # NULL => n # at
    BY <1>14, <1>29
  <2>3. n # NULL => pbuf'[n].tot_len = pbuf[n].tot_len
    BY <1>21, <2>1, <2>2
  <2>4. CASE p = at
    <3>1. /\ pbuf'[p].len = pbuf[p].len - left
          /\ pbuf'[p].tot_len = pbuf[p].tot_len - left
          /\ left \in Nat /\ left <= pbuf[p].len
      BY <1>9, <1>19, <2>1, <2>4, NullIs
    <3>2. pbuf[p].len \in Nat /\ pbuf[p].tot_len \in Nat
      BY <1>7, <2>1 DEF Sizes
    <3>3. CASE n = NULL
      <4>1. pbuf[p].tot_len = pbuf[p].len + 0
        BY <2>1, <3>3 DEF Agree
      <4>2. pbuf[p].tot_len - left = pbuf[p].len - left + 0
        BY <3>1, <3>2, <4>1
      <4> QED
        BY <2>1, <3>1, <3>3, <4>2 DEF Agree
    <3>4. CASE n # NULL
      <4>1. pbuf[p].tot_len = pbuf[p].len + pbuf[n].tot_len /\ pbuf[n].tot_len \in Nat
        BY <1>7, <2>1, <3>4 DEF Agree, Sizes
      <4>2. pbuf[p].tot_len - left = pbuf[p].len - left + pbuf[n].tot_len
        BY <3>1, <3>2, <4>1
      <4> QED
        BY <2>1, <2>3, <3>1, <3>4, <4>2 DEF Agree
    <3> QED
      BY <3>3, <3>4
  <2>5. CASE p # at
    <3>1. pbuf'[p].len = pbuf[p].len /\ pbuf'[p].tot_len = pbuf[p].tot_len
      BY <1>21, <2>1, <2>5
    <3> QED
      BY <2>1, <2>3, <3>1 DEF Agree
  <2> QED
    BY <2>4, <2>5
<1>30. LengthsKept(pbuf', handles', freeing', NULL)
  <2>1. \A p \in F : pbuf'[p].ref = 1 /\ Root(freeing', NULL, p)
    BY <1>11, <1>18 DEF Root
  <2>2. Loose(pbuf', freeing', NULL, F)
    BY <1>29, <2>1 DEF Loose
  <2>3. Making(pbuf', handles', freeing', NULL, F)
    BY DEF Making
  <2>4. F \in SUBSET Pbufs
    BY <1>13
  <2> QED
    BY <2>2, <2>3, <2>4 DEF LengthsKept
<1>31. Good(pbuf', memp, handles', freeing', NULL)
  BY <1>7, <1>11, <1>20, <1>22, <1>24, <1>26, <1>27, <1>28, <1>30 DEF Good, PbufTyped
<1> QED
  BY <1>5, <1>31 DEF PbufInv, Idle

------------------------------
(* The beginning, and every step. *)

\* A pool's first list has each of its elements once.
LEMMA InitListIs ==
  ASSUME NEW S \in Pools
  PROVE  InitList(S) \in Seq(S) /\ \A p \in S : Times(InitList(S), p) = 1
<1>1. IsFiniteSet(S) /\ S \subseteq Nat
  BY PbufAssumption
<1>2. PICK C \in Nat : C = Cardinality(S)
  BY <1>1, FS_CardinalityType
<1> DEFINE Above(p) == {q \in S : q > p}
           f == [p \in S |-> Cardinality(Above(p)) + 1]
<1>3. \A p \in S : IsFiniteSet(Above(p)) /\ Cardinality(Above(p)) \in Nat
  BY <1>1, FS_Subset, FS_CardinalityType
<1>4. ASSUME NEW p \in S, NEW r \in S, p < r
      PROVE  Cardinality(Above(r)) < Cardinality(Above(p))
  <2>1. PICK A : A = Above(p)
    OBVIOUS
  <2>2. PICK B : B = Above(r)
    OBVIOUS
  <2>3. B \in SUBSET A /\ B # A
    <3>1. p \in Nat /\ r \in Nat /\ \A q \in S : q \in Nat
      BY <1>1
    <3>2. \A q \in S : q > r => q > p
      BY <1>4, <3>1
    <3>3. B \subseteq A
      BY <2>1, <2>2, <3>2
    <3>4. r \in A /\ r \notin B
      BY <1>4, <2>1, <2>2, <3>1
    <3> QED
      BY <3>3, <3>4
  <2>4. IsFiniteSet(A) /\ Cardinality(A) \in Nat /\ Cardinality(B) \in Nat
    BY <1>3, <2>1, <2>2
  <2>5. Cardinality(B) <= Cardinality(A) /\ Cardinality(B) # Cardinality(A)
    BY <2>3, <2>4, FS_Subset
  <2> QED
    BY <2>1, <2>2, <2>4, <2>5
<1>5. \A p \in S : f[p] \in 1..C
  <2> SUFFICES ASSUME NEW p \in S PROVE Cardinality(Above(p)) + 1 \in 1..C
    OBVIOUS
  <2>1. PICK A : A = Above(p)
    OBVIOUS
  <2>2. A \in SUBSET S /\ A # S
    BY <1>1, <2>1
  <2>3. Cardinality(A) <= C /\ Cardinality(A) # C
    BY <1>1, <1>2, <2>2, FS_Subset
  <2> QED
    BY <1>2, <1>3, <2>1, <2>3
<1>6. f \in Injection(S, 1..C)
  <2>1. f \in [S -> 1..C]
    BY <1>5
  <2>2. \A p, r \in S : f[p] = f[r] => p = r
    <3> SUFFICES ASSUME NEW p \in S, NEW r \in S, p # r
                 PROVE  Cardinality(Above(p)) + 1 # Cardinality(Above(r)) + 1
      OBVIOUS
    <3>1. p < r \/ r < p
      BY <1>1
    <3>2. Cardinality(Above(p)) # Cardinality(Above(r))
      <4> HIDE DEF Above
      <4> QED
        BY <1>3, <1>4, <3>1
    <3> HIDE DEF Above
    <3> QED
      BY <1>3, <3>2
  <2> HIDE DEF f
  <2> QED
    BY <2>1, <2>2, Fun_IsInj
<1>7. IsFiniteSet(1..C) /\ Cardinality(1..C) = C
  <2>1. PICK one \in Int : one = 1
    OBVIOUS
  <2>2. C \in Int
    OBVIOUS
  <2>3. IsFiniteSet(one..C) /\ Cardinality(one..C) = IF one > C THEN 0 ELSE C - one + 1
    BY <2>2, FS_Interval
  <2>4. (IF one > C THEN 0 ELSE C - one + 1) = C
    BY <1>2, <2>1
  <2> QED
    BY <2>1, <2>3, <2>4
<1>8. f \in Surjection(S, 1..C)
  <2> HIDE DEF f
  <2> QED
    BY <1>2, <1>6, <1>7, FS_Injection
<1>9. /\ \A p, r \in S : f[p] = f[r] => p = r
      /\ \A i \in 1..C : \E p \in S : f[p] = i
  <2> HIDE DEF f
  <2>1. \A p, r \in S : f[p] = f[r] => p = r
    BY <1>6, Fun_InjectionProperties
  <2>2. \A i \in 1..C : \E p \in S : f[p] = i
    BY <1>8, Fun_SurjectionProperties
  <2> QED
    BY <2>1, <2>2
<1>10. PICK s : s = InitList(S)
  OBVIOUS
<1>11. s = [i \in 1..C |-> CHOOSE p \in S : Cardinality(Above(p)) = i - 1]
  BY <1>2, <1>10 DEF InitList
<1>12. ASSUME NEW i \in 1..C
       PROVE  s[i] \in S /\ f[s[i]] = i
  <2>1. PICK p \in S : f[p] = i
    BY <1>9
  <2>2. Cardinality(Above(p)) = i - 1
    <3>1. Cardinality(Above(p)) + 1 = i
      BY <2>1
    <3> HIDE DEF Above
    <3> QED
      BY <1>3, <3>1
  <2>3. s[i] = CHOOSE r \in S : Cardinality(Above(r)) = i - 1
    BY <1>11
  <2>4. s[i] \in S /\ Cardinality(Above(s[i])) = i - 1
    <3> HIDE DEF Above
    <3> QED
      BY <2>2, <2>3
  <2>5. i - 1 + 1 = i
    OBVIOUS
  <2> QED
    BY <2>4, <2>5
<1>13. s \in Seq(S)
  <2>1. s \in [1..C -> S]
    <3>1. \A i \in 1..C : s[i] \in S
      BY <1>12
    <3>2. s = [i \in 1..C |-> s[i]]
      <4> HIDE DEF Above
      <4> QED
        BY <1>11
    <3> QED
      BY <3>1, <3>2
  <2> QED
    BY <1>2, <2>1, SeqDef
<1>14. DOMAIN s = 1..C
  BY <1>11
<1> HIDE DEF f
<1>15. \A i, j \in DOMAIN s : s[i] = s[j] => i = j
  BY <1>12, <1>14
<1>16. ASSUME NEW p \in S
       PROVE  Times(s, p) = 1
  <2>1. Times(s, p) = IF \E i \in DOMAIN s : s[i] = p THEN 1 ELSE 0
    BY <1>13, <1>15, TimesOnce
  <2>2. f[p] \in 1..C
    BY <1>5
  <2>3. s[f[p]] = p
    BY <1>9, <1>12, <2>2
  <2> QED
    BY <1>14, <2>1, <2>2, <2>3
<1> QED
  BY <1>10, <1>13, <1>16

LEMMA PbufInitInv ==
  ASSUME PbufInit
  PROVE  PbufInv
<1>1. /\ pbuf = [p \in Pbufs |-> Blank]
      /\ memp = [S \in Pools |-> InitList(S)]
      /\ handles = [p \in Pbufs |-> 0] /\ freeing = <<>> /\ alloc = NULL
  BY DEF PbufInit
<1>2. \A p \in Pbufs : pbuf[p] = Blank
  BY <1>1
<1>3. PbufTyped(pbuf, memp, handles, freeing, alloc)
  <2>1. pbuf \in [Pbufs -> PbufRecord]
    BY <1>1, BlankIs
  <2>2. memp \in [Pools -> Seq(Pbufs)]
    <3>1. \A S \in Pools : InitList(S) \in Seq(Pbufs)
      <4> SUFFICES ASSUME NEW S \in Pools PROVE InitList(S) \in Seq(Pbufs)
        OBVIOUS
      <4>1. InitList(S) \in Seq(S) /\ S \subseteq Pbufs
        BY InitListIs, PoolsIs
      <4> QED
        BY <4>1
    <3> QED
      BY <1>1, <3>1
  <2>3. handles \in [Pbufs -> Nat]
    BY <1>1
  <2>4. freeing \in Seq(Pbufs)
    BY <1>1, EmptySeq
  <2> QED
    BY <1>1, <2>1, <2>2, <2>3, <2>4 DEF PbufTyped
<1>4. NextOnce(pbuf)
  BY <1>2, BlankIs DEF NextOnce
<1>5. Acyclic(pbuf)
  <2>1. PICK K \in Nat : K = 0
    OBVIOUS
  <2>2. Downhill(pbuf, K, [p \in Pbufs |-> 0])
    BY <1>2, <2>1, BlankIs DEF Downhill
  <2> QED
    BY <2>2 DEF Acyclic
<1>6. Exact(pbuf, handles, freeing)
  <2> SUFFICES ASSUME NEW p \in Pbufs
               PROVE  pbuf[p].ref = handles[p] + Times(freeing, p)
                                    + LinkCount(pbuf, p) + OrigCount(pbuf, p)
    BY DEF Exact
  <2>1. {q \in Pbufs : pbuf[q].next = p} = {} /\ {q \in Pbufs : pbuf[q].original = p} = {}
    BY <1>2, BlankIs, NullIs
  <2>2. LinkCount(pbuf, p) = 0 /\ OrigCount(pbuf, p) = 0
    BY <2>1, FS_EmptySet DEF LinkCount, OrigCount
  <2>3. Times(freeing, p) = 0
    BY <1>1, TimesOne
  <2>4. handles[p] = 0 /\ pbuf[p].ref = 0
    BY <1>1, BlankIs
  <2> QED
    BY <2>2, <2>3, <2>4
<1>7. Listed(pbuf, memp)
  <2> SUFFICES ASSUME NEW S \in Pools
               PROVE  /\ memp[S] \in Seq(S)
                      /\ \A p \in S : Times(memp[S], p) = IF pbuf[p].ref = 0 THEN 1 ELSE 0
    BY DEF Listed
  <2>1. memp[S] = InitList(S)
    BY <1>1
  <2>2. \A p \in S : pbuf[p].ref = 0
    BY <1>2, BlankIs, PoolsIs
  <2> QED
    BY <2>1, <2>2, InitListIs
<1>8. Blanks(pbuf)
  BY <1>2 DEF Blanks
<1>9. InMemory(pbuf)
  BY <1>2, BlankIs DEF InMemory
<1>10. LengthsKept(pbuf, handles, freeing, alloc)
  <2>1. \A p \in Pbufs : Agree(pbuf, p)
    BY <1>2, BlankIs DEF Agree
  <2> QED
    BY <1>1, <2>1, LengthsAgree
<1> QED
  BY <1>3, <1>4, <1>5, <1>6, <1>7, <1>8, <1>9, <1>10 DEF PbufInv, Good

\* Every call, and every turn of a loop, keeps the invariant.
LEMMA PbufNextInv ==
  ASSUME PbufInv, [PbufNext]_pbufVars
  PROVE  PbufInv'
<1>1. CASE AllocPool
  BY <1>1, AllocPoolKeeps
<1>2. CASE AllocPoolMore
  BY <1>2, AllocPoolMoreKeeps
<1>3. CASE AllocPoolFails
  BY <1>3, AllocPoolFailsKeeps
<1>4. CASE AllocRam
  BY <1>4, AllocRamKeeps
<1>5. CASE \E n \in Lengths : pbuf_alloc_reference(n)
  BY <1>5, pbuf_alloc_referenceKeeps
<1>6. CASE \E o \in Pbufs, n \in Lengths : pbuf_alloced_custom(o, n)
  BY <1>6, pbuf_alloced_customKeeps
<1>7. CASE FreeStep
  BY <1>7, FreeStepKeeps
<1>8. CASE \E p \in Pbufs : pbuf_free(p) \/ pbuf_ref(p) \/ pbuf_dechain(p)
  BY <1>8, pbuf_freeKeeps, pbuf_refKeeps, pbuf_dechainKeeps
<1>9. CASE \E p \in Pbufs, n \in Lengths : pbuf_realloc(p, n) \/ pbuf_free_header(p, n)
  BY <1>9, pbuf_reallocKeeps, pbuf_free_headerKeeps
<1>10. CASE \E p \in Pbufs, n \in Headers :
              \/ pbuf_remove_header(p, n)
              \/ \E force \in BOOLEAN : pbuf_add_header_impl(p, n, force)
  BY <1>10, pbuf_remove_headerKeeps, pbuf_add_header_implKeeps
<1>11. CASE \E h, t \in Pbufs : pbuf_cat(h, t) \/ pbuf_chain(h, t)
  BY <1>11, pbuf_catKeeps, pbuf_chainKeeps
<1>12. CASE \E p \in Pbufs, layer \in Layers : Coalesce(p, layer) \/ Clone(p, layer)
  BY <1>12, CoalesceKeeps, CloneKeeps
<1>13. CASE UNCHANGED pbufVars
  <2>1. /\ pbuf' = pbuf /\ memp' = memp /\ handles' = handles
        /\ freeing' = freeing /\ alloc' = alloc
    BY <1>13 DEF pbufVars
  <2> QED
    BY <2>1 DEF PbufInv
<1> QED
  BY <1>1, <1>2, <1>3, <1>4, <1>5, <1>6, <1>7, <1>8, <1>9, <1>10, <1>11, <1>12,
     <1>13 DEF PbufNext

------------------------------
(* The theorems. *)

\* Packets are well formed, in memory, counted and listed, whatever calls of
\* pbuf.c the callers make.
THEOREM PbufInvariant == PbufSpec => []PbufInv
<1>1. PbufInit => PbufInv
  BY PbufInitInv
<1>2. PbufInv /\ [PbufNext]_pbufVars => PbufInv'
  BY PbufNextInv
<1> QED
  BY <1>1, <1>2, PTL DEF PbufSpec

\* Every pbuf's count is the number of references to it, and a pbuf is in its
\* pool, once, exactly if nobody refers to it.
THEOREM PbufCounted == PbufSpec => []ReferencesExact
<1>1. ASSUME PbufInv PROVE ReferencesExact
  <2>1. Exact(pbuf, handles, freeing) /\ Listed(pbuf, memp)
    BY <1>1 DEF PbufInv, Good
  <2> QED
    BY <2>1 DEF ReferencesExact, Exact, Listed, LinkCount, OrigCount
<1> QED
  BY <1>1, PbufInvariant, PTL

\* Between calls the lengths of every packet agree, and payloads are in the
\* memory of their pbufs.
THEOREM PbufLengths == PbufSpec => []ChainLengths
<1>1. ASSUME PbufInv PROVE ChainLengths
  <2> SUFFICES ASSUME Idle, NEW p \in Pbufs
               PROVE  /\ pbuf[p].tot_len = pbuf[p].len
                           + IF pbuf[p].next = NULL THEN 0 ELSE pbuf[pbuf[p].next].tot_len
                      /\ pbuf[p].off >= 0 /\ pbuf[p].off + pbuf[p].len <= pbuf[p].cap
    BY DEF ChainLengths, Used
  <2>1. Good(pbuf, memp, handles, <<>>, NULL)
    BY <1>1 DEF PbufInv, Idle
  <2>2. Agree(pbuf, p)
    BY <2>1, IdleAgrees
  <2>3. pbuf \in [Pbufs -> PbufRecord] /\ InMemory(pbuf)
    BY <2>1 DEF Good, PbufTyped
  <2>4. pbuf[p].off \in Nat
    BY <2>3, RecordIs
  <2> QED
    BY <2>2, <2>3, <2>4 DEF Agree, InMemory
<1> QED
  BY <1>1, PbufInvariant, PTL

\* The lengths of a packet, as low_level_output is given them.
LengthsOf(p) == [i \in DOMAIN Chain[p] |->
                   [len |-> pbuf[Chain[p][i]].len, tot_len |-> pbuf[Chain[p][i]].tot_len]]

\* What the transmit path assumes of the chains it is given is what pbuf.c
\* keeps between calls, however a packet was cut, joined and shared: copying
\* pbuf by pbuf, low_level_output puts exactly tot_len bytes behind the control
\* byte (main.c:43-47).
THEOREM PacketsAreChains ==
  PbufSpec => [](Idle => \A p \in Pbufs : IsChain(LengthsOf(p)))
<1>1. ASSUME PbufInv, Idle, NEW p \in Pbufs
      PROVE  IsChain(LengthsOf(p))
  <2>1. Good(pbuf, memp, handles, <<>>, NULL)
    BY <1>1 DEF PbufInv, Idle
  <2>2. LinksOf(pbuf) /\ Sizes(pbuf) /\ \A q \in Pbufs : Agree(pbuf, q)
    BY <2>1, GoodIs, IdleAgrees
  <2>3. PICK s : s = Chain[p]
    OBVIOUS
  <2>4. Follows(s, p)
    BY <2>2, <2>3, ChainIs
  <2>5. PICK n \in Nat : n = Len(s) /\ n >= 1
    BY <2>4 DEF Follows
  <2>6. /\ DOMAIN s = 1..n /\ pbuf[s[n]].next = NULL
        /\ \A i \in 1..n : s[i] \in Pbufs
        /\ \A i \in 1..n - 1 : pbuf[s[i]].next = s[i + 1]
    BY <2>4, <2>5, LenProperties DEF Follows
  <2>7. PICK c : c = [i \in 1..n |-> [len |-> pbuf[s[i]].len,
                                      tot_len |-> pbuf[s[i]].tot_len]]
    OBVIOUS
  <2>8. c = LengthsOf(p)
    BY <2>3, <2>6, <2>7 DEF LengthsOf
  <2>9. c \in Seq([len : Nat, tot_len : Nat]) /\ Len(c) = n
    <3> PICK T : T = [len : Nat, tot_len : Nat]
      OBVIOUS
    <3>1. c \in [1..n -> T]
      BY <2>2, <2>6, <2>7 DEF Sizes
    <3>2. c \in Seq(T)
      BY <2>5, <3>1, SeqDef
    <3>3. DOMAIN c = 1..Len(c) /\ Len(c) \in Nat
      BY <3>2, LenProperties
    <3>4. DOMAIN c = 1..n
      BY <3>1
    <3>5. Len(c) = n
      <4>1. n \in 1..Len(c)
        BY <2>5, <3>3, <3>4
      <4>2. Len(c) \in 1..n
        BY <3>3, <3>4, <4>1
      <4> QED
        BY <2>5, <4>1, <4>2
    <3> QED
      BY <3>2, <3>5
  <2>10. c # <<>>
    BY <2>5, <2>9
  <2>11. ASSUME NEW j \in 1..n
         PROVE  c[j].tot_len = c[j].len + IF j < n THEN c[j + 1].tot_len ELSE 0
    <3>1. s[j] \in Pbufs /\ Agree(pbuf, s[j])
      BY <2>2, <2>6
    <3>2. c[j].len = pbuf[s[j]].len /\ c[j].tot_len = pbuf[s[j]].tot_len
      BY <2>7
    <3>3. CASE j < n
      <4>1. j \in 1..n - 1 /\ j + 1 \in 1..n
        BY <2>5, <3>3
      <4>2. pbuf[s[j]].next = s[j + 1] /\ s[j + 1] # NULL
        BY <2>6, <4>1, NullIs
      <4>3. c[j + 1].tot_len = pbuf[s[j + 1]].tot_len
        BY <2>7, <4>1
      <4>4. pbuf[s[j]].tot_len = pbuf[s[j]].len + pbuf[s[j + 1]].tot_len
        BY <3>1, <4>2 DEF Agree
      <4> QED
        BY <3>2, <3>3, <4>3, <4>4
    <3>4. CASE j = n
      <4>1. pbuf[s[j]].next = NULL
        BY <2>6, <3>4
      <4>2. pbuf[s[j]].tot_len = pbuf[s[j]].len + 0
        BY <3>1, <4>1 DEF Agree
      <4>3. ~(j < n)
        BY <2>5, <3>4
      <4> QED
        BY <3>2, <4>2, <4>3
    <3> QED
      BY <2>5, <3>3, <3>4
  <2>12. IsChain(c)
    BY <2>9, <2>10, <2>11 DEF IsChain
  <2> QED
    BY <2>8, <2>12
<1>2. PbufInv => (Idle => \A p \in Pbufs : IsChain(LengthsOf(p)))
  BY <1>1
<1> QED
  BY <1>2, PbufInvariant, PTL

------------------------------
(* The bytes of a packet. *)

\* What holds of the pbufs between calls, as far as it matters here.
Sound ==
  /\ LinksOf(pbuf) /\ Sizes(pbuf) /\ \A p \in Pbufs : Agree(pbuf, p)
  /\ \A p \in Pbufs : pbuf[p].off \in Nat

Places == Pbufs \X Nat
TotOf(p) == IF p = NULL THEN 0 ELSE pbuf[p].tot_len

\* What the lengths and links of sound chains say of each pbuf.
LEMMA SoundIs ==
  ASSUME Sound
  PROVE  /\ NULL \notin Pbufs
         /\ TotOf(NULL) = 0
         /\ \A p \in Pbufs :
              /\ pbuf[p].len \in Nat /\ pbuf[p].off \in Nat /\ pbuf[p].tot_len \in Nat
              /\ pbuf[p].next \in Pbufs \union {NULL}
              /\ TotOf(p) = pbuf[p].tot_len /\ TotOf(pbuf[p].next) \in Nat
              /\ pbuf[p].tot_len = pbuf[p].len + TotOf(pbuf[p].next)
              /\ pbuf[p].next # p
<1>1. NULL \notin Pbufs
  BY NullIs
<1>2. TotOf(NULL) = 0
  BY DEF TotOf
<1>3. PICK K \in Nat : \E rank : Downhill(pbuf, K, rank)
  BY DEF Sound, LinksOf, Acyclic
<1>4. PICK rank : Downhill(pbuf, K, rank)
  BY <1>3
<1>5. ASSUME NEW p \in Pbufs
      PROVE  /\ pbuf[p].len \in Nat /\ pbuf[p].off \in Nat /\ pbuf[p].tot_len \in Nat
             /\ pbuf[p].next \in Pbufs \union {NULL}
             /\ TotOf(p) = pbuf[p].tot_len /\ TotOf(pbuf[p].next) \in Nat
             /\ pbuf[p].tot_len = pbuf[p].len + TotOf(pbuf[p].next)
             /\ pbuf[p].next # p
  <2>1. /\ pbuf[p].len \in Nat /\ pbuf[p].off \in Nat /\ pbuf[p].tot_len \in Nat
        /\ pbuf[p].next \in Pbufs \union {NULL}
    BY DEF Sound, Sizes, LinksOf
  <2>2. TotOf(p) = pbuf[p].tot_len
    BY <1>1 DEF TotOf
  <2>3. TotOf(pbuf[p].next) \in Nat
    BY <2>1 DEF TotOf, Sound, Sizes
  <2>4. Agree(pbuf, p)
    BY DEF Sound
  <2>5. pbuf[p].tot_len = pbuf[p].len + TotOf(pbuf[p].next)
    BY <2>4 DEF Agree, TotOf
  <2>6. ASSUME pbuf[p].next = p PROVE FALSE
    <3>1. rank[p] \in Nat /\ rank[p] < rank[p]
      BY <1>1, <1>4, <2>6 DEF Downhill
    <3> QED
      BY <3>1
  <2> QED
    BY <2>1, <2>2, <2>3, <2>5, <2>6
<1> QED
  BY <1>1, <1>2, <1>5

\* The places of a piece of one payload.
LEMMA SpanIs ==
  ASSUME NEW p \in Pbufs, pbuf[p].off \in Nat, NEW i \in Nat, NEW n \in Nat
  PROVE  /\ Span(p, i, n) \in Seq(Places) /\ Len(Span(p, i, n)) = n
         /\ \A k \in 1..n : Span(p, i, n)[k] = <<p, pbuf[p].off + i + k - 1>>
<1>1. PICK o \in Nat : o = pbuf[p].off
  OBVIOUS
<1>2. \A k \in 1..n : <<p, o + i + k - 1>> \in Places
  BY DEF Places
<1>3. PICK s : s = Span(p, i, n)
  OBVIOUS
<1>4. s = [k \in 1..n |-> <<p, o + i + k - 1>>]
  BY <1>1, <1>3 DEF Span
<1>5. s \in [1..n -> Places]
  <2> HIDE DEF Places
  <2> QED
    BY <1>2, <1>4
<1>6. s \in Seq(Places) /\ Len(s) = n
  <2> HIDE DEF Places
  <2> QED
    BY <1>5
<1>7. \A k \in 1..n : s[k] = <<p, o + i + k - 1>>
  BY <1>4
<1> QED
  BY <1>1, <1>3, <1>6, <1>7

\* The bytes of a chain are those of its first pbuf and then of the rest.
LEMMA BytesDef ==
  ASSUME Sound
  PROVE  /\ Bytes[NULL] = <<>>
         /\ \A p \in Pbufs : /\ Bytes[p] = Span(p, 0, pbuf[p].len) \o Bytes[pbuf[p].next]
                             /\ Bytes[p] \in Seq(Places)
<1> DEFINE X == Seq(Places)
           G == [p \in Pbufs |-> [s \in X |-> Span(p, 0, pbuf[p].len) \o s]]
           N == Pbufs \union {NULL}
           At(b, p) == IF p = NULL THEN <<>>
                       ELSE Span(p, 0, pbuf[p].len) \o b[pbuf[p].next]
<1>1. NULL \notin Pbufs /\ \A p \in Pbufs : pbuf[p].next \in N
  BY SoundIs
<1>2. <<>> \in X /\ G \in [Pbufs -> [X -> X]]
  <2>1. ASSUME NEW p \in Pbufs, NEW s \in X
        PROVE  Span(p, 0, pbuf[p].len) \o s \in X
    <3>1. Span(p, 0, pbuf[p].len) \in Seq(Places)
      BY SoundIs, SpanIs
    <3> QED
      BY <3>1, ConcatProperties
  <2> HIDE DEF X
  <2> QED
    BY <2>1, EmptySeq DEF X
<1> HIDE DEF X
<1>3. PICK f \in [N -> X] : f[NULL] = <<>> /\ \A p \in Pbufs : f[p] = G[p][f[pbuf[p].next]]
  <2> HIDE DEF G
  <2>1. DefinedBy(pbuf, X, <<>>, G)
    BY <1>2, SoundIs, Defined DEF Sound
  <2> QED
    BY <2>1 DEF DefinedBy
<1>4. \A p \in N : f[p] = At(f, p)
  <2> SUFFICES ASSUME NEW p \in N PROVE f[p] = At(f, p)
    OBVIOUS
  <2>1. CASE p = NULL
    BY <1>3, <2>1
  <2>2. CASE p # NULL
    <3>1. p \in Pbufs /\ f[pbuf[p].next] \in X
      BY <1>1, <1>3, <2>2
    <3>2. f[p] = G[p][f[pbuf[p].next]]
      BY <1>3, <3>1
    <3> QED
      BY <2>2, <3>1, <3>2
  <2> QED
    BY <2>1, <2>2
<1>5. f = [p \in N |-> At(f, p)]
  <2>1. f = [p \in N |-> f[p]]
    BY <1>3
  <2> HIDE DEF At, N
  <2> QED
    BY <1>4, <2>1
<1>6. Bytes = [p \in N |-> At(Bytes, p)]
  BY <1>5, Zenon DEF Bytes
<1>7. \A p \in N : Bytes[p] = At(Bytes, p)
  BY <1>6, Zenon
<1>8. Bytes[NULL] = <<>>
  BY <1>7
<1>9. ASSUME NEW p \in Pbufs
      PROVE  Bytes[p] = Span(p, 0, pbuf[p].len) \o Bytes[pbuf[p].next]
  BY <1>1, <1>7
<1> DEFINE B == {p \in Pbufs : Bytes[p] \in X}
<1>10. ASSUME NEW p \in Pbufs, pbuf[p].next = NULL \/ pbuf[p].next \in B
       PROVE  p \in B
  <2>1. Bytes[pbuf[p].next] \in X
    BY <1>2, <1>8, <1>10
  <2>2. Span(p, 0, pbuf[p].len) \in Seq(Places)
    BY SoundIs, SpanIs
  <2>3. PICK s : s = Span(p, 0, pbuf[p].len)
    OBVIOUS
  <2>4. PICK t : t = Bytes[pbuf[p].next]
    OBVIOUS
  <2>5. s \in Seq(Places) /\ t \in Seq(Places)
    BY <2>1, <2>2, <2>3, <2>4 DEF X
  <2>6. s \o t \in Seq(Places)
    BY <2>5, ConcatProperties
  <2> QED
    BY <1>9, <2>3, <2>4, <2>6 DEF X
<1>11. Pbufs \subseteq B
  <2> HIDE DEF B
  <2> QED
    BY <1>10, Climb DEF Sound
<1> QED
  BY <1>8, <1>9, <1>11 DEF X

\* A packet has tot_len bytes: those of its first pbuf, then the others.
LEMMA BytesAre ==
  ASSUME Sound
  PROVE  /\ \A p \in Pbufs \union {NULL} :
              Bytes[p] \in Seq(Places) /\ Len(Bytes[p]) = TotOf(p)
         /\ \A p \in Pbufs, k \in Nat :
              1 <= k /\ k <= TotOf(p) =>
                Bytes[p][k] = IF k <= pbuf[p].len THEN <<p, pbuf[p].off + k - 1>>
                              ELSE Bytes[pbuf[p].next][k - pbuf[p].len]
<1> DEFINE B == {p \in Pbufs : Len(Bytes[p]) = TotOf(p)}
<1>1. Bytes[NULL] \in Seq(Places) /\ Len(Bytes[NULL]) = TotOf(NULL)
  <2>1. <<>> \in Seq(Places) /\ Len(<<>>) = 0
    OBVIOUS
  <2> QED
    BY <2>1, BytesDef, SoundIs
<1>2. ASSUME NEW p \in Pbufs, Len(Bytes[pbuf[p].next]) = TotOf(pbuf[p].next)
      PROVE  /\ Len(Bytes[p]) = TotOf(p)
             /\ \A k \in Nat : 1 <= k /\ k <= TotOf(p) =>
                  Bytes[p][k] = IF k <= pbuf[p].len THEN <<p, pbuf[p].off + k - 1>>
                                ELSE Bytes[pbuf[p].next][k - pbuf[p].len]
  <2>1. PICK n \in Nat : n = pbuf[p].len
    BY SoundIs
  <2>2. PICK o \in Nat : o = pbuf[p].off
    BY SoundIs
  <2>3. PICK s : s = Span(p, 0, pbuf[p].len)
    OBVIOUS
  <2>4. /\ s \in Seq(Places) /\ Len(s) = n
        /\ \A k \in 1..n : s[k] = <<p, o + 0 + k - 1>>
    BY <2>1, <2>2, <2>3, SpanIs
  <2>5. PICK t : t = Bytes[pbuf[p].next]
    OBVIOUS
  <2>6. t \in Seq(Places) /\ Len(t) = TotOf(pbuf[p].next)
    BY <1>1, <1>2, <2>5, BytesDef, SoundIs
  <2>7. PICK m \in Nat : m = TotOf(pbuf[p].next)
    BY SoundIs
  <2>8. Bytes[p] = s \o t /\ TotOf(p) = n + m
    BY <2>1, <2>3, <2>5, <2>7, BytesDef, SoundIs
  <2>9. /\ Len(s \o t) = n + m
        /\ \A k \in 1..n + m : (s \o t)[k] = IF k <= n THEN s[k] ELSE t[k - n]
    <3>1. Len(s) = n /\ Len(t) = m
      BY <2>4, <2>6, <2>7
    <3>2. /\ Len(s \o t) = Len(s) + Len(t)
          /\ \A k \in 1..Len(s) + Len(t) :
               (s \o t)[k] = IF k <= Len(s) THEN s[k] ELSE t[k - Len(s)]
      BY <2>4, <2>6, ConcatProperties
    <3> QED
      BY <3>1, <3>2
  <2>10. ASSUME NEW k \in Nat, 1 <= k, k <= TotOf(p)
         PROVE  Bytes[p][k] = IF k <= n THEN <<p, o + k - 1>> ELSE t[k - n]
    <3>1. k \in 1..n + m
      BY <2>8, <2>10
    <3>2. CASE k <= n
      <4>1. k \in 1..n /\ o + 0 + k - 1 = o + k - 1
        BY <2>10, <3>2
      <4>2. (s \o t)[k] = s[k]
        BY <2>9, <3>1, <3>2
      <4> QED
        BY <2>4, <2>8, <3>2, <4>1, <4>2
    <3>3. CASE ~(k <= n)
      BY <2>8, <2>9, <3>1, <3>3
    <3> QED
      BY <3>2, <3>3
  <2> QED
    BY <2>1, <2>2, <2>5, <2>8, <2>9, <2>10
<1>3. ASSUME NEW p \in Pbufs, pbuf[p].next = NULL \/ pbuf[p].next \in B
      PROVE  p \in B
  BY <1>1, <1>2, <1>3
<1>4. Pbufs \subseteq B
  <2> HIDE DEF B
  <2> QED
    BY <1>3, Climb DEF Sound
<1>5. \A p \in Pbufs : Len(Bytes[pbuf[p].next]) = TotOf(pbuf[p].next)
  BY <1>1, <1>4, SoundIs
<1> QED
  BY <1>1, <1>2, <1>4, <1>5, BytesDef

\* s is the n bytes of b behind the first o.
CutOf(s, b, o, n) ==
  /\ s \in Seq(Places) /\ Len(s) = n
  /\ \A k \in 1..n : s[k] = b[o + k]

\* A cut of a sequence is a subsequence of it.
LEMMA CutSub ==
  ASSUME NEW b \in Seq(Places), NEW o \in Nat, NEW n \in Nat, o + n <= Len(b),
         NEW s, CutOf(s, b, o, n)
  PROVE  s = SubSeq(b, o + 1, o + n)
<1>1. PICK m \in Nat : m = Len(b)
  BY LenProperties
<1>2. o + 1 \in Int /\ o + n \in Int /\ o + n <= m
  BY <1>1
<1>3. \A i \in (o + 1)..(o + n) : b[i] \in Places
  <2>1. \A i \in 1..m : b[i] \in Places
    BY <1>1, ElementOfSeq
  <2>2. \A i \in (o + 1)..(o + n) : i \in 1..m
    BY <1>2
  <2> QED
    BY <2>1, <2>2
<1>4. PICK t : t = SubSeq(b, o + 1, o + n)
  OBVIOUS
<1>5. /\ t \in Seq(Places)
      /\ Len(t) = IF o + 1 <= o + n THEN (o + n) - (o + 1) + 1 ELSE 0
      /\ \A k \in 1..(o + n) - (o + 1) + 1 : t[k] = b[(o + 1) + k - 1]
  BY <1>2, <1>3, <1>4, SubSeqProperties
<1>6. (o + n) - (o + 1) + 1 = n /\ (IF o + 1 <= o + n THEN n ELSE 0) = n
  OBVIOUS
<1>7. Len(t) = n
  BY <1>5, <1>6
<1>8. ASSUME NEW k \in 1..n PROVE t[k] = s[k]
  <2>1. (o + 1) + k - 1 = o + k
    OBVIOUS
  <2>2. t[k] = b[o + k]
    BY <1>5, <1>6, <2>1
  <2> QED
    BY <2>2 DEF CutOf
<1>9. s \in Seq(Places) /\ Len(s) = Len(t) /\ \A k \in 1..Len(s) : s[k] = t[k]
  BY <1>7, <1>8 DEF CutOf
<1> QED
  BY <1>4, <1>5, <1>9, SeqEqual

\* Two cuts that meet make one.
LEMMA CutConcat ==
  ASSUME NEW b, NEW o \in Nat, NEW n \in Nat, NEW m \in Nat,
         NEW s, CutOf(s, b, o, n), NEW t, CutOf(t, b, o + n, m)
  PROVE  CutOf(s \o t, b, o, n + m)
<1>1. s \in Seq(Places) /\ Len(s) = n /\ t \in Seq(Places) /\ Len(t) = m
  BY DEF CutOf
<1>2. PICK r : r = s \o t
  OBVIOUS
<1>3. /\ r \in Seq(Places) /\ Len(r) = Len(s) + Len(t)
      /\ \A k \in 1..Len(s) + Len(t) : r[k] = IF k <= Len(s) THEN s[k] ELSE t[k - Len(s)]
  BY <1>1, <1>2, ConcatProperties
<1>4. /\ Len(r) = n + m
      /\ \A k \in 1..n + m : r[k] = IF k <= n THEN s[k] ELSE t[k - n]
  BY <1>1, <1>3
<1>5. ASSUME NEW k \in 1..n + m PROVE r[k] = b[o + k]
  <2>1. CASE k <= n
    <3>1. k \in 1..n
      BY <2>1
    <3> QED
      BY <1>4, <2>1, <3>1 DEF CutOf
  <2>2. CASE ~(k <= n)
    <3>1. k - n \in 1..m /\ (o + n) + (k - n) = o + k
      BY <2>2
    <3>2. t[k - n] = b[(o + n) + (k - n)]
      BY <3>1 DEF CutOf
    <3> QED
      BY <1>4, <2>2, <3>1, <3>2
  <2> QED
    BY <2>1, <2>2
<1> QED
  BY <1>2, <1>3, <1>4, <1>5 DEF CutOf

LEMMA CutNone == \A b, o : CutOf(<<>>, b, o, 0)
<1>1. <<>> \in Seq(Places) /\ Len(<<>>) = 0
  OBVIOUS
<1> QED
  BY <1>1 DEF CutOf

\* A piece of a pbuf's payload is a cut of the bytes of its chain.
LEMMA SpanCut ==
  ASSUME Sound, NEW p \in Pbufs, NEW i \in Nat, NEW n \in Nat, i + n <= pbuf[p].len
  PROVE  CutOf(Span(p, i, n), Bytes[p], i, n)
<1>1. PICK s : s = Span(p, i, n)
  OBVIOUS
<1>2. PICK o \in Nat : o = pbuf[p].off
  BY SoundIs
<1>3. PICK l \in Nat : l = pbuf[p].len
  BY SoundIs
<1>4. /\ s \in Seq(Places) /\ Len(s) = n
      /\ \A k \in 1..n : s[k] = <<p, o + i + k - 1>>
  BY <1>1, <1>2, SpanIs
<1>5. ASSUME NEW k \in 1..n PROVE s[k] = Bytes[p][i + k]
  <2>1. i + k \in Nat /\ 1 <= i + k /\ i + k <= l /\ o + i + k - 1 = o + (i + k) - 1
    BY <1>3
  <2>2. i + k <= TotOf(p)
    <3>1. TotOf(p) = l + TotOf(pbuf[p].next) /\ TotOf(pbuf[p].next) \in Nat
      BY <1>3, SoundIs
    <3> QED
      BY <2>1, <3>1
  <2>3. Bytes[p][i + k] = <<p, o + (i + k) - 1>>
    BY <1>2, <1>3, <2>1, <2>2, BytesAre
  <2> QED
    BY <1>4, <2>1, <2>3
<1> QED
  BY <1>1, <1>4, <1>5 DEF CutOf

\* What is cut from the rest of a packet is cut from the packet.
LEMMA CutRest ==
  ASSUME Sound, NEW p \in Pbufs, NEW o \in Nat, NEW n \in Nat,
         o + n <= TotOf(pbuf[p].next),
         NEW s, CutOf(s, Bytes[pbuf[p].next], o, n)
  PROVE  CutOf(s, Bytes[p], pbuf[p].len + o, n)
<1>1. PICK l \in Nat : l = pbuf[p].len
  BY SoundIs
<1>2. PICK r \in Nat : r = TotOf(pbuf[p].next) /\ TotOf(p) = l + r
  BY <1>1, SoundIs
<1>3. ASSUME NEW k \in 1..n PROVE s[k] = Bytes[p][l + o + k]
  <2>1. /\ l + o + k \in Nat /\ 1 <= l + o + k /\ l + o + k <= l + r
        /\ ~(l + o + k <= l) /\ (l + o + k) - l = o + k
    BY <1>2
  <2>2. Bytes[p][l + o + k] = Bytes[pbuf[p].next][o + k]
    BY <1>1, <1>2, <2>1, BytesAre
  <2> QED
    BY <2>2 DEF CutOf
<1>4. \A k \in 1..n : s[k] = Bytes[p][(l + o) + k]
  BY <1>3
<1> QED
  BY <1>1, <1>4 DEF CutOf

------------------------------
(* Finding a byte. *)

\* What pbuf_skip's loop computes, one pbuf at a time.
LEMMA SkipDef ==
  ASSUME Sound
  PROVE  /\ \A n \in Nat : SkipFrom[NULL][n] = [at |-> NULL, left |-> n]
         /\ \A p \in Pbufs, n \in Nat :
              SkipFrom[p][n] = IF pbuf[p].len <= n
                               THEN SkipFrom[pbuf[p].next][n - pbuf[p].len]
                               ELSE [at |-> p, left |-> n]
<1> DEFINE Y == [at : Pbufs \union {NULL}, left : Nat]
           X == [Nat -> Y]
           x == [n \in Nat |-> [at |-> NULL, left |-> n]]
           G == [p \in Pbufs |-> [w \in X |-> [n \in Nat |->
                   IF pbuf[p].len <= n THEN w[n - pbuf[p].len]
                   ELSE [at |-> p, left |-> n]]]]
           N == Pbufs \union {NULL}
<1>1. NULL \notin Pbufs /\ \A p \in Pbufs : pbuf[p].len \in Nat /\ pbuf[p].next \in N
  BY SoundIs
<1>2. x \in X
  OBVIOUS
<1>3. G \in [Pbufs -> [X -> X]]
  <2>1. ASSUME NEW p \in Pbufs, NEW w \in X, NEW n \in Nat
        PROVE  (IF pbuf[p].len <= n THEN w[n - pbuf[p].len]
                ELSE [at |-> p, left |-> n]) \in Y
    <3>1. CASE pbuf[p].len <= n
      <4>1. n - pbuf[p].len \in Nat
        BY <1>1, <3>1
      <4>2. w[n - pbuf[p].len] \in Y
        <5> HIDE DEF Y
        <5> QED
          BY <4>1
      <4> QED
        BY <3>1, <4>2
    <3>2. CASE ~(pbuf[p].len <= n)
      BY <3>2
    <3> QED
      BY <3>1, <3>2
  <2>2. ASSUME NEW p \in Pbufs, NEW w \in X
        PROVE  [n \in Nat |-> IF pbuf[p].len <= n THEN w[n - pbuf[p].len]
                              ELSE [at |-> p, left |-> n]] \in X
    <3> HIDE DEF Y
    <3> QED
      BY <2>1
  <2> HIDE DEF X
  <2> QED
    BY <2>2
<1>4. PICK f \in [N -> X] : f[NULL] = x /\ \A p \in Pbufs : f[p] = G[p][f[pbuf[p].next]]
  <2> HIDE DEF X, x, G
  <2>1. DefinedBy(pbuf, X, x, G)
    BY <1>2, <1>3, Defined DEF Sound
  <2> QED
    BY <2>1 DEF DefinedBy
<1> DEFINE At(w, p, n) == IF p # NULL /\ pbuf[p].len <= n
                          THEN w[pbuf[p].next][n - pbuf[p].len]
                          ELSE [at |-> p, left |-> n]
<1>5. \A p \in N : f[p] = [n \in Nat |-> At(f, p, n)]
  <2> SUFFICES ASSUME NEW p \in N PROVE f[p] = [n \in Nat |-> At(f, p, n)]
    OBVIOUS
  <2>1. CASE p = NULL
    BY <1>4, <2>1
  <2>2. CASE p # NULL
    <3>1. p \in Pbufs /\ f[pbuf[p].next] \in X
      BY <1>1, <1>4, <2>2
    <3>2. f[p] = G[p][f[pbuf[p].next]]
      BY <1>4, <3>1
    <3>3. G[p][f[pbuf[p].next]] = [n \in Nat |->
            IF pbuf[p].len <= n THEN f[pbuf[p].next][n - pbuf[p].len]
            ELSE [at |-> p, left |-> n]]
      <4> HIDE DEF X
      <4> QED
        BY <3>1
    <3> QED
      BY <2>2, <3>2, <3>3
  <2> QED
    BY <2>1, <2>2
<1>6. f = [p \in N |-> [n \in Nat |-> At(f, p, n)]]
  <2>1. f = [p \in N |-> f[p]]
    BY <1>4
  <2> HIDE DEF At, N
  <2> QED
    BY <1>5, <2>1
<1>7. SkipFrom = [p \in N |-> [n \in Nat |-> At(SkipFrom, p, n)]]
  BY <1>6, Zenon DEF SkipFrom
<1>8. \A p \in N : SkipFrom[p] = [n \in Nat |-> At(SkipFrom, p, n)]
  BY <1>7, Zenon
<1>9. \A p \in N, n \in Nat : SkipFrom[p][n] = At(SkipFrom, p, n)
  <2> SUFFICES ASSUME NEW p \in N, NEW n \in Nat
               PROVE  SkipFrom[p][n] = At(SkipFrom, p, n)
    OBVIOUS
  <2> HIDE DEF At, N
  <2>1. SkipFrom[p] = [m \in Nat |-> At(SkipFrom, p, m)]
    BY <1>8
  <2> QED
    BY <2>1
<1> HIDE DEF Y, X, x, G
<1>10. \A n \in Nat : SkipFrom[NULL][n] = [at |-> NULL, left |-> n]
  BY <1>9
<1> QED
  BY <1>1, <1>9, <1>10

\* The bytes of q from byte k on are those of p from byte n on.
Meets(p, n, q, k) ==
  /\ TotOf(p) - n = TotOf(q) - k
  /\ \A i \in 1..TotOf(p) - n : Bytes[p][n + i] = Bytes[q][k + i]

LEMMA MeetsSelf == \A p, n : Meets(p, n, p, n)
BY DEF Meets

\* The end of a pbuf's payload is the start of its next.
LEMMA MeetsNext ==
  ASSUME Sound, NEW p \in Pbufs
  PROVE  Meets(p, pbuf[p].len, pbuf[p].next, 0)
<1>1. PICK l \in Nat : l = pbuf[p].len
  BY SoundIs
<1>2. PICK r \in Nat : r = TotOf(pbuf[p].next) /\ TotOf(p) = l + r
  BY <1>1, SoundIs
<1>3. (l + r) - l = r - 0
  OBVIOUS
<1>4. ASSUME NEW i \in 1..r PROVE Bytes[p][l + i] = Bytes[pbuf[p].next][0 + i]
  <2>1. /\ l + i \in Nat /\ 1 <= l + i /\ l + i <= l + r
        /\ ~(l + i <= l) /\ (l + i) - l = 0 + i
    OBVIOUS
  <2> QED
    BY <1>1, <1>2, <2>1, BytesAre
<1> QED
  BY <1>1, <1>2, <1>3, <1>4 DEF Meets

\* Places that meet can be followed from chain to chain.
LEMMA MeetsOn ==
  ASSUME NEW p, NEW q, NEW r, TotOf(p) \in Nat, TotOf(q) \in Nat, TotOf(r) \in Nat,
         NEW n \in Nat, NEW k \in Nat, NEW d \in Nat, NEW j \in Nat,
         Meets(p, n, q, k), Meets(q, k + d, r, j)
  PROVE  Meets(p, n + d, r, j)
<1>1. PICK tp \in Nat : tp = TotOf(p)
  OBVIOUS
<1>2. PICK tq \in Nat : tq = TotOf(q)
  OBVIOUS
<1>3. PICK tr \in Nat : tr = TotOf(r)
  OBVIOUS
<1>4. /\ tp - n = tq - k
      /\ \A i \in 1..tp - n : Bytes[p][n + i] = Bytes[q][k + i]
  BY <1>1, <1>2 DEF Meets
<1>5. /\ tq - (k + d) = tr - j
      /\ \A i \in 1..tq - (k + d) : Bytes[q][(k + d) + i] = Bytes[r][j + i]
  BY <1>2, <1>3 DEF Meets
<1>6. tp - (n + d) = tr - j /\ tp - (n + d) = tq - (k + d)
  BY <1>4, <1>5
<1>7. ASSUME NEW i \in 1..tp - (n + d)
      PROVE  Bytes[p][(n + d) + i] = Bytes[r][j + i]
  <2>1. d + i \in 1..tp - n /\ n + (d + i) = (n + d) + i /\ k + (d + i) = (k + d) + i
    OBVIOUS
  <2>2. Bytes[p][(n + d) + i] = Bytes[q][(k + d) + i]
    BY <1>4, <2>1
  <2>3. i \in 1..tq - (k + d)
    BY <1>6
  <2> QED
    BY <1>5, <2>2, <2>3
<1> QED
  BY <1>1, <1>3, <1>6, <1>7 DEF Meets

\* A cut of the rest of a chain is a cut of the chain.
LEMMA CutMeets ==
  ASSUME NEW p, NEW q, TotOf(p) \in Nat, TotOf(q) \in Nat,
         NEW n \in Nat, NEW k \in Nat, NEW m \in Nat,
         Meets(p, n, q, k), k + m <= TotOf(q), NEW s, CutOf(s, Bytes[q], k, m)
  PROVE  CutOf(s, Bytes[p], n, m)
<1>1. TotOf(p) - n = TotOf(q) - k
  BY DEF Meets
<1>2. \A i \in 1..m : i \in 1..TotOf(p) - n
  BY <1>1
<1>3. \A i \in 1..m : Bytes[p][n + i] = Bytes[q][k + i]
  BY <1>2 DEF Meets
<1> QED
  BY <1>3 DEF CutOf

\* Byte n of a packet is in the pbuf that pbuf_skip finds, or there is none.
LEMMA SkipIs ==
  ASSUME Sound, NEW p \in Pbufs, NEW n \in Nat,
         NEW q, q = SkipFrom[p][n].at, NEW k, k = SkipFrom[p][n].left
  PROVE  /\ n < TotOf(p) => /\ q \in Pbufs /\ k \in Nat /\ k < pbuf[q].len
                            /\ Meets(p, n, q, k)
         /\ n >= TotOf(p) => q = NULL
<1> DEFINE Finds(r, m, w) ==
             /\ m < TotOf(r) => /\ w.at \in Pbufs /\ w.left \in Nat
                                /\ w.left < pbuf[w.at].len
                                /\ Meets(r, m, w.at, w.left)
             /\ m >= TotOf(r) => w.at = NULL
           B == {r \in Pbufs : \A m \in Nat : Finds(r, m, SkipFrom[r][m])}
<1>1. ASSUME NEW r \in Pbufs, pbuf[r].next = NULL \/ pbuf[r].next \in B
      PROVE  r \in B
  <2> SUFFICES ASSUME NEW m \in Nat PROVE Finds(r, m, SkipFrom[r][m])
    OBVIOUS
  <2>1. PICK l \in Nat : l = pbuf[r].len
    BY SoundIs
  <2>2. PICK t : t = pbuf[r].next
    OBVIOUS
  <2>3. PICK a \in Nat : a = TotOf(t) /\ TotOf(r) = l + a
    BY <2>1, <2>2, SoundIs
  <2>4. PICK w : w = SkipFrom[r][m]
    OBVIOUS
  <2>5. CASE l <= m
    <3>1. m - l \in Nat /\ w = SkipFrom[t][m - l]
      <4>1. pbuf[r].len <= m
        BY <2>1, <2>5
      <4>2. SkipFrom[r][m] = SkipFrom[pbuf[r].next][m - pbuf[r].len]
        BY <4>1, SkipDef
      <4>3. m - l \in Nat
        BY <2>5
      <4> QED
        BY <2>1, <2>2, <2>4, <4>2, <4>3
    <3>2. m < l + a <=> m - l < a
      OBVIOUS
    <3>4. CASE t = NULL
      <4>1. a = 0 /\ w = [at |-> NULL, left |-> m - l]
        BY <2>3, <3>1, <3>4, SkipDef, SoundIs
      <4>2. ~(m < l + a) /\ w.at = NULL
        BY <2>5, <4>1
      <4> QED
        BY <2>3, <2>4, <4>2
    <3>5. CASE t # NULL
      <4>1. t \in Pbufs /\ Finds(t, m - l, w)
        BY <1>1, <2>2, <3>1, <3>5
      <4>2. CASE m < l + a
        <5>1. /\ w.at \in Pbufs /\ w.left \in Nat /\ w.left < pbuf[w.at].len
              /\ Meets(t, m - l, w.at, w.left)
          BY <2>3, <3>2, <4>1, <4>2
        <5>2. Meets(r, l, t, 0)
          BY <2>1, <2>2, MeetsNext
        <5>3. TotOf(r) \in Nat /\ TotOf(t) \in Nat /\ TotOf(w.at) \in Nat
          BY <4>1, <5>1, SoundIs
        <5>4. 0 + (m - l) = m - l /\ l + (m - l) = m /\ 0 \in Nat
          OBVIOUS
        <5>5. Meets(r, l + (m - l), w.at, w.left)
          BY <3>1, <5>1, <5>2, <5>3, <5>4, MeetsOn
        <5>6. Meets(r, m, w.at, w.left)
          BY <5>4, <5>5
        <5>7. ~(m >= l + a)
          BY <4>2
        <5> QED
          BY <2>3, <2>4, <5>1, <5>6, <5>7
      <4>3. CASE ~(m < l + a)
        <5>1. m - l >= a
          BY <4>3
        <5> QED
          BY <2>3, <2>4, <4>1, <4>3, <5>1
      <4> QED
        BY <4>2, <4>3
    <3> QED
      BY <3>4, <3>5
  <2>6. CASE ~(l <= m)
    <3>1. w = [at |-> r, left |-> m]
      BY <2>1, <2>4, <2>6, SkipDef
    <3>2. w.at = r /\ w.left = m
      BY <3>1
    <3>3. m < l /\ ~(m >= l + a)
      BY <2>6
    <3> QED
      BY <2>1, <2>3, <2>4, <3>2, <3>3, MeetsSelf
  <2> QED
    BY <2>5, <2>6
<1>2. Pbufs \subseteq B
  <2> HIDE DEF B
  <2> QED
    BY <1>1, Climb DEF Sound
<1>3. Finds(p, n, SkipFrom[p][n])
  BY <1>2
<1> QED
  BY <1>3

------------------------------
(* Reading and writing. *)

\* The part of pbuf p that pbuf_copy_partial copies, behind which w goes on.
CopyStep(p, w, len, offset) ==
  IF len = 0 THEN <<>>
  ELSE IF offset # 0 /\ offset >= pbuf[p].len
  THEN w[len][offset - pbuf[p].len]
  ELSE LET n == Least(pbuf[p].len - offset, len)
       IN  Span(p, offset, n) \o w[len - n][0]

\* One turn of pbuf_copy_partial copies a sequence of places.
LEMMA CopyStepIs ==
  ASSUME Sound, NEW p \in Pbufs, NEW w \in [Nat -> [Nat -> Seq(Places)]],
         NEW len \in Nat, NEW offset \in Nat
  PROVE  CopyStep(p, w, len, offset) \in Seq(Places)
<1> DEFINE Q == Seq(Places)
<1>1. <<>> \in Q
  OBVIOUS
<1>2. ASSUME NEW a \in Nat, NEW b \in Nat PROVE w[a][b] \in Q
  <2> HIDE DEF Q
  <2>1. w \in [Nat -> [Nat -> Q]]
    BY DEF Q
  <2>2. w[a] \in [Nat -> Q]
    BY <2>1
  <2> QED
    BY <2>2
<1>3. PICK l \in Nat : l = pbuf[p].len
  BY SoundIs
<1> HIDE DEF Q
<1>4. CASE len = 0
  BY <1>1, <1>4 DEF CopyStep, Q
<1>5. CASE len # 0 /\ offset # 0 /\ offset >= l
  <2>1. offset - l \in Nat
    BY <1>5
  <2>2. CopyStep(p, w, len, offset) = w[len][offset - l]
    BY <1>3, <1>5 DEF CopyStep
  <2> QED
    BY <1>2, <2>1, <2>2 DEF Q
<1>6. CASE len # 0 /\ ~(offset # 0 /\ offset >= l)
  <2>1. PICK n : n = Least(l - offset, len)
    OBVIOUS
  <2>2. n \in Nat /\ len - n \in Nat
    <3>1. l - offset \in Nat
      BY <1>6
    <3>2. PICK m \in Nat : m = l - offset
      BY <3>1
    <3>3. n = Least(m, len)
      BY <2>1, <3>2
    <3> QED
      BY <3>3 DEF Least
  <2>3. Span(p, offset, n) \in Q /\ w[len - n][0] \in Q
    BY <1>2, <2>2, SpanIs, SoundIs DEF Q
  <2>4. CopyStep(p, w, len, offset) = Span(p, offset, n) \o w[len - n][0]
    BY <1>3, <1>6, <2>1 DEF CopyStep
  <2> QED
    BY <2>3, <2>4, ConcatProperties DEF Q
<1> QED
  BY <1>3, <1>4, <1>5, <1>6

\* What pbuf_copy_partial's loop computes, one pbuf at a time.
LEMMA CopyDef ==
  ASSUME Sound
  PROVE  /\ \A len, offset \in Nat : CopyFrom[NULL][len][offset] = <<>>
         /\ \A p \in Pbufs, len, offset \in Nat :
              CopyFrom[p][len][offset] = CopyStep(p, CopyFrom[pbuf[p].next], len, offset)
<1> DEFINE Q == Seq(Places)
           X == [Nat -> [Nat -> Q]]
           x == [len \in Nat |-> [offset \in Nat |-> <<>>]]
           G == [p \in Pbufs |-> [w \in X |-> [len \in Nat |-> [offset \in Nat |->
                   CopyStep(p, w, len, offset)]]]]
           N == Pbufs \union {NULL}
<1>1. NULL \notin Pbufs /\ \A p \in Pbufs : pbuf[p].next \in N
  BY SoundIs
<1>2. x \in X
  <2>1. <<>> \in Q
    OBVIOUS
  <2> HIDE DEF Q
  <2> QED
    BY <2>1
<1>3. G \in [Pbufs -> [X -> X]]
  <2>1. ASSUME NEW p \in Pbufs, NEW w \in X, NEW len \in Nat, NEW offset \in Nat
        PROVE  CopyStep(p, w, len, offset) \in Q
    BY CopyStepIs
  <2> HIDE DEF Q
  <2>2. ASSUME NEW p \in Pbufs, NEW w \in X
        PROVE  [len \in Nat |-> [offset \in Nat |-> CopyStep(p, w, len, offset)]] \in X
    <3>1. \A len \in Nat :
            [offset \in Nat |-> CopyStep(p, w, len, offset)] \in [Nat -> Q]
      BY <2>1
    <3> QED
      BY <3>1
  <2> HIDE DEF X
  <2> QED
    BY <2>2
<1> HIDE DEF Q
<1>4. PICK f \in [N -> X] : f[NULL] = x /\ \A p \in Pbufs : f[p] = G[p][f[pbuf[p].next]]
  <2> HIDE DEF X, x, G
  <2>1. DefinedBy(pbuf, X, x, G)
    BY <1>2, <1>3, Defined DEF Sound
  <2> QED
    BY <2>1 DEF DefinedBy
<1> DEFINE At(w, p, len, offset) ==
             IF len = 0 \/ p = NULL THEN <<>>
             ELSE IF offset # 0 /\ offset >= pbuf[p].len
             THEN w[pbuf[p].next][len][offset - pbuf[p].len]
             ELSE LET n == Least(pbuf[p].len - offset, len)
                  IN  Span(p, offset, n) \o w[pbuf[p].next][len - n][0]
<1>5. \A w, len, offset : At(w, NULL, len, offset) = <<>>
  OBVIOUS
<1>6. \A p \in Pbufs : \A w, len, offset :
        At(w, p, len, offset) = CopyStep(p, w[pbuf[p].next], len, offset)
  BY <1>1 DEF CopyStep
<1> HIDE DEF At
<1>7. \A p \in N : f[p] = [len \in Nat |-> [offset \in Nat |-> At(f, p, len, offset)]]
  <2> SUFFICES ASSUME NEW p \in N
               PROVE  f[p] = [len \in Nat |-> [offset \in Nat |-> At(f, p, len, offset)]]
    OBVIOUS
  <2>1. CASE p = NULL
    <3>1. x = [len \in Nat |-> [offset \in Nat |-> At(f, p, len, offset)]]
      BY <1>5, <2>1
    <3> QED
      BY <1>4, <2>1, <3>1
  <2>2. CASE p # NULL
    <3>1. p \in Pbufs /\ f[pbuf[p].next] \in X
      BY <1>1, <1>4, <2>2
    <3>2. f[p] = G[p][f[pbuf[p].next]]
      BY <1>4, <3>1
    <3>3. G[p][f[pbuf[p].next]] =
            [len \in Nat |-> [offset \in Nat |-> CopyStep(p, f[pbuf[p].next], len, offset)]]
      <4> HIDE DEF X
      <4> QED
        BY <3>1
    <3>4. \A len, offset : At(f, p, len, offset) = CopyStep(p, f[pbuf[p].next], len, offset)
      BY <1>6, <3>1
    <3> QED
      BY <3>2, <3>3, <3>4
  <2> QED
    BY <2>1, <2>2
<1>8. f = [p \in N |-> [len \in Nat |-> [offset \in Nat |-> At(f, p, len, offset)]]]
  <2>1. f = [p \in N |-> f[p]]
    BY <1>4
  <2> HIDE DEF N
  <2> QED
    BY <1>7, <2>1
<1>9. CopyFrom =
        [p \in N |-> [len \in Nat |-> [offset \in Nat |-> At(CopyFrom, p, len, offset)]]]
  BY <1>8, Zenon DEF CopyFrom, At
<1>10. ASSUME NEW p \in N, NEW len \in Nat, NEW offset \in Nat
       PROVE  CopyFrom[p][len][offset] = At(CopyFrom, p, len, offset)
  <2> HIDE DEF N
  <2>1. CopyFrom[p] = [l \in Nat |-> [o \in Nat |-> At(CopyFrom, p, l, o)]]
    BY <1>9, Zenon
  <2>2. CopyFrom[p][len] = [o \in Nat |-> At(CopyFrom, p, len, o)]
    BY <2>1
  <2> QED
    BY <2>2
<1>11. \A len, offset \in Nat : CopyFrom[NULL][len][offset] = <<>>
  BY <1>5, <1>10
<1>12. ASSUME NEW p \in Pbufs, NEW len \in Nat, NEW offset \in Nat
       PROVE  CopyFrom[p][len][offset] = CopyStep(p, CopyFrom[pbuf[p].next], len, offset)
  BY <1>6, <1>10
<1> QED
  BY <1>11, <1>12

\* How many bytes there are from offset on, if len are asked for.
Available(p, len, offset) ==
  IF offset <= TotOf(p) THEN Least(len, TotOf(p) - offset) ELSE 0

\* pbuf_copy_partial copies the bytes from the offset on, as many as there are.
LEMMA CopyIs ==
  ASSUME Sound, NEW p \in Pbufs \union {NULL}, NEW len \in Nat, NEW offset \in Nat
  PROVE  CutOf(CopyFrom[p][len][offset], Bytes[p], offset, Available(p, len, offset))
<1> DEFINE Copies(r) == \A n, o \in Nat :
                          CutOf(CopyFrom[r][n][o], Bytes[r], o, Available(r, n, o))
           B == {r \in Pbufs : Copies(r)}
<1>1. Copies(NULL)
  <2> SUFFICES ASSUME NEW n \in Nat, NEW o \in Nat
               PROVE  CutOf(CopyFrom[NULL][n][o], Bytes[NULL], o, Available(NULL, n, o))
    OBVIOUS
  <2>1. Available(NULL, n, o) = 0
    <3>1. TotOf(NULL) = 0
      BY SoundIs
    <3> QED
      BY <3>1 DEF Available, Least
  <2> QED
    BY <2>1, CopyDef, CutNone
<1>2. ASSUME NEW r \in Pbufs, Copies(pbuf[r].next)
      PROVE  Copies(r)
  <2> SUFFICES ASSUME NEW n \in Nat, NEW o \in Nat
               PROVE  CutOf(CopyFrom[r][n][o], Bytes[r], o, Available(r, n, o))
    OBVIOUS
  <2>1. PICK l \in Nat : l = pbuf[r].len
    BY SoundIs
  <2>2. PICK t : t = pbuf[r].next
    OBVIOUS
  <2>3. PICK a \in Nat : a = TotOf(t) /\ TotOf(r) = l + a
    BY <2>1, <2>2, SoundIs
  <2>4. PICK c : c = CopyFrom[r][n][o]
    OBVIOUS
  <2>5. c = CopyStep(r, CopyFrom[t], n, o)
    BY <2>2, <2>4, CopyDef
  <2>6. ASSUME NEW m \in Nat, NEW d \in Nat
        PROVE  CutOf(CopyFrom[t][m][d], Bytes[t], d, Available(t, m, d))
    BY <1>2, <2>2
  <2> HIDE DEF Copies
  <2>7. CASE n = 0
    <3>1. c = <<>>
      BY <2>5, <2>7 DEF CopyStep
    <3>2. Available(r, n, o) = 0
      BY <2>3, <2>7 DEF Available, Least
    <3> QED
      BY <2>4, <3>1, <3>2, CutNone
  <2>8. CASE n # 0 /\ o # 0 /\ o >= l
    <3>1. o - l \in Nat /\ l + (o - l) = o
      BY <2>8
    <3>2. c = CopyFrom[t][n][o - l]
      BY <2>1, <2>5, <2>8 DEF CopyStep
    <3>3. PICK m : m = Available(t, n, o - l)
      OBVIOUS
    <3>4. m \in Nat /\ m = Available(r, n, o)
      BY <2>3, <3>1, <3>3 DEF Available, Least
    <3>5. CutOf(c, Bytes[t], o - l, m)
      BY <2>6, <3>1, <3>2, <3>3
    <3>6. CASE (o - l) + m <= a
      BY <2>1, <2>2, <2>3, <2>4, <3>1, <3>4, <3>5, <3>6, CutRest
    <3>7. CASE ~((o - l) + m <= a)
      <4>1. m = 0
        BY <2>3, <3>1, <3>3, <3>7 DEF Available, Least
      <4>2. c \in Seq(Places) /\ Len(c) = 0
        BY <3>5, <4>1 DEF CutOf
      <4>3. c = <<>>
        BY <4>2
      <4> QED
        BY <2>4, <3>4, <4>1, <4>3, CutNone
    <3> QED
      BY <3>6, <3>7
  <2>9. CASE n # 0 /\ ~(o # 0 /\ o >= l)
    <3>1. o <= l /\ l - o \in Nat
      BY <2>9
    <3>2. PICK k : k = Least(l - o, n)
      OBVIOUS
    <3>3. k \in Nat /\ n - k \in Nat /\ o + k <= l /\ (k = l - o \/ k = n)
      BY <3>1, <3>2 DEF Least
    <3>4. PICK s : s = Span(r, o, k)
      OBVIOUS
    <3>5. PICK u : u = CopyFrom[t][n - k][0]
      OBVIOUS
    <3>6. c = s \o u
      BY <2>1, <2>5, <2>9, <3>2, <3>4, <3>5 DEF CopyStep
    <3>7. PICK m : m = Available(t, n - k, 0)
      OBVIOUS
    <3>8. m \in Nat /\ 0 + m <= a /\ k + m = Available(r, n, o) /\ (k = l - o \/ m = 0)
      BY <2>3, <3>1, <3>3, <3>7 DEF Available, Least
    <3>9. CutOf(s, Bytes[r], o, k)
      BY <2>1, <3>3, <3>4, SpanCut
    <3>10. CutOf(u, Bytes[t], 0, m)
      BY <2>6, <3>3, <3>5, <3>7
    <3>11. CutOf(u, Bytes[r], o + k, m)
      <4>1. CASE k = l - o
        <5>1. l + 0 = o + k
          BY <3>1, <4>1
        <5>2. CutOf(u, Bytes[r], l + 0, m)
          BY <2>1, <2>2, <2>3, <3>8, <3>10, CutRest
        <5> QED
          BY <5>1, <5>2
      <4>2. CASE m = 0
        <5>1. u \in Seq(Places) /\ Len(u) = 0
          BY <3>10, <4>2 DEF CutOf
        <5>2. u = <<>>
          BY <5>1
        <5> QED
          BY <4>2, <5>2, CutNone
      <4> QED
        BY <3>8, <4>1, <4>2
    <3>12. CutOf(s \o u, Bytes[r], o, k + m)
      BY <3>3, <3>8, <3>9, <3>11, CutConcat
    <3> QED
      BY <2>4, <3>6, <3>8, <3>12
  <2> QED
    BY <2>7, <2>8, <2>9
<1>3. ASSUME NEW r \in Pbufs, pbuf[r].next = NULL \/ pbuf[r].next \in B
      PROVE  r \in B
  <2>1. Copies(pbuf[r].next)
    BY <1>1, <1>3
  <2>2. Copies(r)
    BY <1>2, <2>1
  <2> QED
    BY <2>2
<1>4. Pbufs \subseteq B
  <2> HIDE DEF B
  <2> QED
    BY <1>3, Climb DEF Sound
<1>5. Copies(p)
  BY <1>1, <1>4
<1> QED
  BY <1>5

\* The part of pbuf p that pbuf_take writes, behind which w goes on.
TakeStep(p, w, len) ==
  IF len = 0 THEN <<>>
  ELSE LET n == Least(len, pbuf[p].len) IN Span(p, 0, n) \o w[len - n]

\* What pbuf_take's loop computes, one pbuf at a time.
LEMMA TakeDef ==
  ASSUME Sound
  PROVE  /\ \A len \in Nat : TakeTo[NULL][len] = <<>>
         /\ \A p \in Pbufs, len \in Nat :
              TakeTo[p][len] = TakeStep(p, TakeTo[pbuf[p].next], len)
<1> DEFINE Q == Seq(Places)
           X == [Nat -> Q]
           x == [len \in Nat |-> <<>>]
           G == [p \in Pbufs |-> [w \in X |-> [len \in Nat |-> TakeStep(p, w, len)]]]
           N == Pbufs \union {NULL}
<1>1. NULL \notin Pbufs /\ \A p \in Pbufs : pbuf[p].next \in N
  BY SoundIs
<1>2. <<>> \in Q
  OBVIOUS
<1>3. ASSUME NEW p \in Pbufs, NEW w \in X, NEW len \in Nat
      PROVE  TakeStep(p, w, len) \in Q
  <2>1. PICK l \in Nat : l = pbuf[p].len
    BY SoundIs
  <2>2. PICK n : n = Least(len, l)
    OBVIOUS
  <2>3. n \in Nat /\ len - n \in Nat
    BY <2>2 DEF Least
  <2>4. w[len - n] \in Q
    <3> HIDE DEF Q
    <3> QED
      BY <2>3
  <2>5. Span(p, 0, n) \in Q
    BY <2>3, SpanIs, SoundIs
  <2>6. CASE len = 0
    <3>1. TakeStep(p, w, len) = <<>>
      BY <2>6 DEF TakeStep
    <3> QED
      BY <1>2, <3>1
  <2>7. CASE len # 0
    <3>1. TakeStep(p, w, len) = Span(p, 0, n) \o w[len - n]
      BY <2>1, <2>2, <2>7 DEF TakeStep
    <3> QED
      BY <2>4, <2>5, <3>1, ConcatProperties
  <2> QED
    BY <2>6, <2>7
<1> HIDE DEF Q
<1>4. x \in X
  BY <1>2
<1>5. G \in [Pbufs -> [X -> X]]
  <2>1. ASSUME NEW p \in Pbufs, NEW w \in X
        PROVE  [len \in Nat |-> TakeStep(p, w, len)] \in X
    BY <1>3
  <2> HIDE DEF X
  <2> QED
    BY <2>1
<1>6. PICK f \in [N -> X] : f[NULL] = x /\ \A p \in Pbufs : f[p] = G[p][f[pbuf[p].next]]
  <2> HIDE DEF X, x, G
  <2>1. DefinedBy(pbuf, X, x, G)
    BY <1>4, <1>5, Defined DEF Sound
  <2> QED
    BY <2>1 DEF DefinedBy
<1> DEFINE At(w, p, len) ==
             IF len = 0 \/ p = NULL THEN <<>>
             ELSE LET n == Least(len, pbuf[p].len)
                  IN  Span(p, 0, n) \o w[pbuf[p].next][len - n]
<1>7. \A w, len : At(w, NULL, len) = <<>>
  OBVIOUS
<1>8. \A p \in Pbufs : \A w, len : At(w, p, len) = TakeStep(p, w[pbuf[p].next], len)
  BY <1>1 DEF TakeStep
<1> HIDE DEF At
<1>9. \A p \in N : f[p] = [len \in Nat |-> At(f, p, len)]
  <2> SUFFICES ASSUME NEW p \in N PROVE f[p] = [len \in Nat |-> At(f, p, len)]
    OBVIOUS
  <2>1. CASE p = NULL
    <3>1. x = [len \in Nat |-> At(f, p, len)]
      BY <1>7, <2>1
    <3> QED
      BY <1>6, <2>1, <3>1
  <2>2. CASE p # NULL
    <3>1. p \in Pbufs /\ f[pbuf[p].next] \in X
      BY <1>1, <1>6, <2>2
    <3>2. f[p] = G[p][f[pbuf[p].next]]
      BY <1>6, <3>1
    <3>3. G[p][f[pbuf[p].next]] = [len \in Nat |-> TakeStep(p, f[pbuf[p].next], len)]
      <4> HIDE DEF X
      <4> QED
        BY <3>1
    <3>4. \A len : At(f, p, len) = TakeStep(p, f[pbuf[p].next], len)
      BY <1>8, <3>1
    <3> QED
      BY <3>2, <3>3, <3>4
  <2> QED
    BY <2>1, <2>2
<1>10. f = [p \in N |-> [len \in Nat |-> At(f, p, len)]]
  <2>1. f = [p \in N |-> f[p]]
    BY <1>6
  <2> HIDE DEF N
  <2> QED
    BY <1>9, <2>1
<1>11. TakeTo = [p \in N |-> [len \in Nat |-> At(TakeTo, p, len)]]
  BY <1>10, Zenon DEF TakeTo, At
<1>12. ASSUME NEW p \in N, NEW len \in Nat
       PROVE  TakeTo[p][len] = At(TakeTo, p, len)
  <2> HIDE DEF N
  <2>1. TakeTo[p] = [l \in Nat |-> At(TakeTo, p, l)]
    BY <1>11, Zenon
  <2> QED
    BY <2>1
<1>13. \A len \in Nat : TakeTo[NULL][len] = <<>>
  BY <1>7, <1>12
<1>14. ASSUME NEW p \in Pbufs, NEW len \in Nat
       PROVE  TakeTo[p][len] = TakeStep(p, TakeTo[pbuf[p].next], len)
  BY <1>8, <1>12
<1> QED
  BY <1>13, <1>14

\* pbuf_take writes the first bytes of the chain, in order.
LEMMA TakeIs ==
  ASSUME Sound, NEW p \in Pbufs \union {NULL}, NEW len \in Nat, len <= TotOf(p)
  PROVE  CutOf(TakeTo[p][len], Bytes[p], 0, len)
<1> DEFINE Writes(r) == \A n \in Nat : n <= TotOf(r) =>
                         CutOf(TakeTo[r][n], Bytes[r], 0, n)
           B == {r \in Pbufs : Writes(r)}
<1>1. Writes(NULL)
  <2> SUFFICES ASSUME NEW n \in Nat, n <= TotOf(NULL)
               PROVE  CutOf(TakeTo[NULL][n], Bytes[NULL], 0, n)
    OBVIOUS
  <2>1. n = 0
    <3>1. TotOf(NULL) = 0
      BY SoundIs
    <3> QED
      BY <3>1
  <2> QED
    BY <2>1, TakeDef, CutNone
<1>2. ASSUME NEW r \in Pbufs, Writes(pbuf[r].next)
      PROVE  Writes(r)
  <2> SUFFICES ASSUME NEW n \in Nat, n <= TotOf(r)
               PROVE  CutOf(TakeTo[r][n], Bytes[r], 0, n)
    OBVIOUS
  <2>1. PICK l \in Nat : l = pbuf[r].len
    BY SoundIs
  <2>2. PICK t : t = pbuf[r].next
    OBVIOUS
  <2>3. PICK a \in Nat : a = TotOf(t) /\ TotOf(r) = l + a
    BY <2>1, <2>2, SoundIs
  <2>4. PICK c : c = TakeTo[r][n]
    OBVIOUS
  <2>5. c = TakeStep(r, TakeTo[t], n)
    BY <2>2, <2>4, TakeDef
  <2>6. ASSUME NEW m \in Nat, m <= a
        PROVE  CutOf(TakeTo[t][m], Bytes[t], 0, m)
    BY <1>2, <2>2, <2>3, <2>6
  <2> HIDE DEF Takes
  <2>7. CASE n = 0
    <3>1. c = <<>>
      BY <2>5, <2>7 DEF TakeStep
    <3> QED
      BY <2>4, <2>7, <3>1, CutNone
  <2>8. CASE n # 0
    <3>1. PICK k : k = Least(n, l)
      OBVIOUS
    <3>2. /\ k \in Nat /\ n - k \in Nat /\ 0 + k <= l /\ n - k <= a
          /\ k + (n - k) = n /\ (k = l \/ n - k = 0)
      BY <2>3, <3>1 DEF Least
    <3>3. PICK s : s = Span(r, 0, k)
      OBVIOUS
    <3>4. PICK u : u = TakeTo[t][n - k]
      OBVIOUS
    <3>5. c = s \o u
      BY <2>1, <2>5, <2>8, <3>1, <3>3, <3>4 DEF TakeStep
    <3>6. CutOf(s, Bytes[r], 0, k)
      BY <2>1, <3>2, <3>3, SpanCut
    <3>7. CutOf(u, Bytes[t], 0, n - k)
      BY <2>6, <3>2, <3>4
    <3>8. CutOf(u, Bytes[r], 0 + k, n - k)
      <4>1. CASE k = l
        <5>1. l + 0 = 0 + k /\ 0 + (n - k) <= TotOf(pbuf[r].next)
          BY <2>2, <2>3, <3>2, <4>1
        <5>2. CutOf(u, Bytes[r], l + 0, n - k)
          BY <2>1, <2>2, <3>2, <3>7, <5>1, CutRest
        <5> QED
          BY <5>1, <5>2
      <4>2. CASE n - k = 0
        <5>1. u \in Seq(Places) /\ Len(u) = 0
          BY <3>7, <4>2 DEF CutOf
        <5>2. u = <<>>
          BY <5>1
        <5> QED
          BY <4>2, <5>2, CutNone
      <4> QED
        BY <3>2, <4>1, <4>2
    <3>9. CutOf(s \o u, Bytes[r], 0, k + (n - k))
      BY <3>2, <3>6, <3>8, CutConcat
    <3> QED
      BY <2>4, <3>2, <3>5, <3>9
  <2> QED
    BY <2>7, <2>8
<1>3. ASSUME NEW r \in Pbufs, pbuf[r].next = NULL \/ pbuf[r].next \in B
      PROVE  r \in B
  <2>1. Writes(pbuf[r].next)
    BY <1>1, <1>3
  <2>2. Writes(r)
    BY <1>2, <2>1
  <2> QED
    BY <2>2
<1>4. Pbufs \subseteq B
  <2> HIDE DEF B
  <2> QED
    BY <1>3, Climb DEF Sound
<1>5. Writes(p)
  BY <1>1, <1>4
<1> QED
  BY <1>5

\* A byte is in a packet once.
LEMMA PlacesApart ==
  ASSUME Sound, NEW p \in Pbufs
  PROVE  \A i, j \in 1..TotOf(p) : Bytes[p][i] = Bytes[p][j] => i = j
<1>1. PICK K \in Nat : \E rank : Downhill(pbuf, K, rank)
  BY DEF Sound, LinksOf, Acyclic
<1>2. PICK rank : Downhill(pbuf, K, rank)
  BY <1>1
<1>3. \A q \in Pbufs : rank[q] \in Nat
  BY <1>2 DEF Downhill
<1> DEFINE Down(q) == \A i \in 1..TotOf(q) : /\ Bytes[q][i][1] \in Pbufs
                                             /\ rank[Bytes[q][i][1]] <= rank[q]
           Apart(q) == \A i, j \in 1..TotOf(q) : Bytes[q][i] = Bytes[q][j] => i = j
           B == {q \in Pbufs : Down(q) /\ Apart(q)}
<1>4. ASSUME NEW q \in Pbufs, pbuf[q].next = NULL \/ pbuf[q].next \in B
      PROVE  q \in B
  <2>1. PICK l \in Nat : l = pbuf[q].len
    BY SoundIs
  <2>2. PICK o \in Nat : o = pbuf[q].off
    BY SoundIs
  <2>3. PICK t : t = pbuf[q].next
    OBVIOUS
  <2>4. PICK a \in Nat : a = TotOf(t) /\ TotOf(q) = l + a
    BY <2>1, <2>3, SoundIs
  <2>5. \A k \in 1..l : k \in 1..l + a /\ Bytes[q][k] = <<q, o + k - 1>>
    <3> SUFFICES ASSUME NEW k \in 1..l
                 PROVE  k \in 1..l + a /\ Bytes[q][k] = <<q, o + k - 1>>
      OBVIOUS
    <3>1. k \in Nat /\ 1 <= k /\ k <= l /\ k <= l + a
      OBVIOUS
    <3>2. k <= TotOf(q) /\ k <= pbuf[q].len
      BY <2>1, <2>4, <3>1
    <3>3. Bytes[q][k] = <<q, pbuf[q].off + k - 1>>
      BY <3>1, <3>2, BytesAre
    <3> QED
      BY <2>2, <3>1, <3>3
  <2>6. \A k \in 1..l + a : k > l => k - l \in 1..a /\ Bytes[q][k] = Bytes[t][k - l]
    <3> SUFFICES ASSUME NEW k \in 1..l + a, k > l
                 PROVE  k - l \in 1..a /\ Bytes[q][k] = Bytes[t][k - l]
      OBVIOUS
    <3>1. k \in Nat /\ 1 <= k /\ k <= l + a /\ ~(k <= l) /\ k - l \in 1..a
      OBVIOUS
    <3> QED
      BY <2>1, <2>3, <2>4, <3>1, BytesAre
  <2>7. a > 0 => t \in Pbufs /\ Down(t) /\ Apart(t) /\ rank[t] < rank[q]
    <3> SUFFICES ASSUME a > 0
                 PROVE  t \in Pbufs /\ Down(t) /\ Apart(t) /\ rank[t] < rank[q]
      OBVIOUS
    <3>1. t # NULL
      BY <2>4, SoundIs
    <3>2. t \in Pbufs /\ Down(t) /\ Apart(t)
      BY <1>4, <2>3, <3>1
    <3> QED
      BY <1>2, <2>3, <3>1, <3>2 DEF Downhill
  <2>8. ASSUME NEW k \in 1..l + a, k > l
        PROVE  /\ Bytes[q][k][1] \in Pbufs /\ rank[Bytes[q][k][1]] < rank[q]
               /\ t \in Pbufs /\ Apart(t)
    <3>1. k - l \in 1..a /\ Bytes[q][k] = Bytes[t][k - l]
      BY <2>6, <2>8
    <3>2. t \in Pbufs /\ Down(t) /\ Apart(t) /\ rank[t] < rank[q]
      BY <2>7, <3>1
    <3>3. Bytes[t][k - l][1] \in Pbufs /\ rank[Bytes[t][k - l][1]] <= rank[t]
      BY <2>4, <3>1, <3>2
    <3>4. rank[Bytes[q][k][1]] < rank[q]
      BY <1>3, <3>1, <3>2, <3>3
    <3> QED
      BY <3>1, <3>2, <3>3, <3>4
  <2>9. Down(q)
    <3> SUFFICES ASSUME NEW k \in 1..l + a
                 PROVE  Bytes[q][k][1] \in Pbufs /\ rank[Bytes[q][k][1]] <= rank[q]
      BY <2>4
    <3>1. CASE k <= l
      <4>1. Bytes[q][k] = <<q, o + k - 1>>
        BY <2>5, <3>1
      <4>2. Bytes[q][k][1] = q
        BY <4>1
      <4> QED
        BY <1>3, <4>2
    <3>2. CASE k > l
      <4>1. Bytes[q][k][1] \in Pbufs /\ rank[Bytes[q][k][1]] < rank[q]
        BY <2>8, <3>2
      <4> QED
        BY <1>3, <4>1
    <3> QED
      BY <3>1, <3>2
  <2>10. ASSUME NEW i \in 1..l + a, NEW j \in 1..l + a, i <= l, j > l
         PROVE  Bytes[q][i] # Bytes[q][j]
    <3>1. Bytes[q][i] = <<q, o + i - 1>>
      BY <2>5, <2>10
    <3>2. Bytes[q][i][1] = q
      BY <3>1
    <3>3. rank[Bytes[q][j][1]] < rank[q]
      BY <2>8, <2>10
    <3>4. Bytes[q][j][1] # q
      BY <1>3, <3>3
    <3> QED
      BY <3>2, <3>4
  <2>11. Apart(q)
    <3> SUFFICES ASSUME NEW i \in 1..l + a, NEW j \in 1..l + a, Bytes[q][i] = Bytes[q][j]
                 PROVE  i = j
      BY <2>4
    <3>1. CASE i <= l /\ j <= l
      <4>1. <<q, o + i - 1>> = <<q, o + j - 1>>
        BY <2>5, <3>1
      <4>2. o + i - 1 = o + j - 1
        BY <4>1
      <4> QED
        BY <4>2
    <3>2. CASE i > l /\ j > l
      <4>1. /\ i - l \in 1..a /\ Bytes[q][i] = Bytes[t][i - l]
            /\ j - l \in 1..a /\ Bytes[q][j] = Bytes[t][j - l]
        BY <2>6, <3>2
      <4>2. Apart(t)
        BY <2>8, <3>2
      <4>3. i - l = j - l
        BY <2>4, <4>1, <4>2
      <4> QED
        BY <4>3
    <3>3. CASE i <= l /\ j > l
      BY <2>10, <3>3
    <3>4. CASE i > l /\ j <= l
      BY <2>10, <3>4
    <3> QED
      BY <3>1, <3>2, <3>3, <3>4
  <2> QED
    BY <2>9, <2>11
<1>5. Pbufs \subseteq B
  <2> HIDE DEF B
  <2> QED
    BY <1>4, Climb DEF Sound
<1> QED
  BY <1>5

\* The lowest of an inhabited set of pbufs is one of them.
LEMMA LowestOf ==
  ASSUME NEW S, S \subseteq Nat, S # {}
  PROVE  Lowest(S) \in S
<1>1. \E n \in S : \A m \in S : n <= m
  BY LeastOf
<1> QED
  BY <1>1, Zenon DEF Lowest

\* Where byte n is, and how much there is from there on.
LEMMA FoundIs ==
  ASSUME Sound, NEW p \in Pbufs, NEW n \in Nat, n < TotOf(p)
  PROVE  \E q \in Pbufs, k, l, a \in Nat :
           /\ pbuf_skip(p, n) = SkipFrom[p][n]
           /\ pbuf_skip(p, n).at = q /\ pbuf_skip(p, n).left = k
           /\ q # NULL /\ l = pbuf[q].len /\ k < l /\ a = TotOf(q) /\ a = pbuf[q].tot_len
           /\ l <= a /\ TotOf(p) - n = a - k /\ Meets(p, n, q, k)
<1>1. PICK s : s = SkipFrom[p][n]
  OBVIOUS
<1>2. pbuf_skip(p, n) = s
  BY <1>1 DEF pbuf_skip
<1>3. /\ s.at \in Pbufs /\ s.left \in Nat /\ s.left < pbuf[s.at].len
      /\ Meets(p, n, s.at, s.left)
  BY <1>1, SkipIs
<1>4. PICK q \in Pbufs : q = s.at
  BY <1>3
<1>5. PICK k \in Nat : k = s.left
  BY <1>3
<1>6. PICK l \in Nat : l = pbuf[q].len
  BY SoundIs
<1>7. PICK a \in Nat : a = TotOf(q) /\ a = pbuf[q].tot_len
  BY SoundIs
<1>8. l <= a
  <2>1. a = l + TotOf(pbuf[q].next) /\ TotOf(pbuf[q].next) \in Nat
    BY <1>6, <1>7, SoundIs
  <2> QED
    BY <2>1
<1>9. q # NULL
  BY SoundIs
<1>10. Meets(p, n, q, k) /\ k < l
  BY <1>3, <1>4, <1>5, <1>6
<1>11. TotOf(p) - n = a - k
  BY <1>7, <1>10 DEF Meets
<1> QED
  BY <1>1, <1>2, <1>4, <1>5, <1>6, <1>7, <1>8, <1>9, <1>10, <1>11

\* pbuf_skip beyond the end finds no pbuf.
LEMMA BeyondIs ==
  ASSUME Sound, NEW p \in Pbufs, NEW n \in Nat, n >= TotOf(p)
  PROVE  pbuf_skip(p, n).at = NULL
<1>1. SkipFrom[p][n].at = NULL
  BY SkipIs
<1> QED
  BY <1>1 DEF pbuf_skip

\* What is cut out of a packet is the part asked for.
LEMMA CutPart ==
  ASSUME Sound, NEW p \in Pbufs, NEW o \in Nat, NEW n \in Nat, o + n <= TotOf(p),
         NEW s, CutOf(s, Bytes[p], o, n)
  PROVE  s = Part(p, o, n)
<1>1. Bytes[p] \in Seq(Places) /\ Len(Bytes[p]) = TotOf(p)
  BY BytesAre
<1>2. PICK b \in Seq(Places) : b = Bytes[p]
  BY <1>1
<1>3. CutOf(s, b, o, n) /\ o + n <= Len(b)
  BY <1>1, <1>2
<1>4. s = SubSeq(b, o + 1, o + n)
  BY <1>3, CutSub
<1> QED
  BY <1>2, <1>4 DEF Part

\* pbuf_copy_partial as a subsequence of the packet's bytes.
LEMMA CopyPartialIs ==
  ASSUME Sound, NEW p \in Pbufs, NEW offset \in Nat, NEW len \in Nat
  PROVE  pbuf_copy_partial(p, len, offset)
           = SubSeq(Bytes[p], offset + 1, Least(offset + len, TotOf(p)))
<1>1. PICK a \in Nat : a = TotOf(p)
  BY SoundIs
<1>2. PICK c : c = CopyFrom[p][len][offset]
  OBVIOUS
<1>3. CutOf(c, Bytes[p], offset, Available(p, len, offset))
  BY <1>2, CopyIs
<1>4. CASE offset <= a
  <2>1. PICK n : n = Available(p, len, offset)
    OBVIOUS
  <2>2. n \in Nat /\ offset + n <= a /\ offset + n = Least(offset + len, a)
    BY <1>1, <1>4, <2>1 DEF Available, Least
  <2>3. c = Part(p, offset, n)
    BY <1>1, <1>3, <2>1, <2>2, CutPart
  <2> QED
    BY <1>1, <1>2, <2>2, <2>3 DEF Part, pbuf_copy_partial
<1>5. CASE ~(offset <= a)
  <2>1. Available(p, len, offset) = 0
    BY <1>1, <1>5 DEF Available
  <2>2. c \in Seq(Places) /\ Len(c) = 0
    BY <1>3, <2>1 DEF CutOf
  <2>3. c = <<>>
    BY <2>2
  <2>4. PICK m : m = Least(offset + len, a)
    OBVIOUS
  <2>5. m \in Nat /\ m < offset + 1
    BY <1>5, <2>4 DEF Least
  <2>6. PICK b \in Seq(Places) : b = Bytes[p]
    BY BytesAre
  <2>7. SubSeq(b, offset + 1, m) = <<>>
    <3>1. \A i \in offset + 1..m : b[i] \in Places
      BY <2>5
    <3>2. PICK t : t = SubSeq(b, offset + 1, m)
      OBVIOUS
    <3>3. t \in Seq(Places) /\ Len(t) = IF offset + 1 <= m THEN m - (offset + 1) + 1 ELSE 0
      BY <2>5, <3>1, <3>2, SubSeqProperties
    <3>4. Len(t) = 0
      BY <2>5, <3>3
    <3> QED
      BY <3>2, <3>3, <3>4
  <2> QED
    BY <1>1, <1>2, <2>3, <2>4, <2>6, <2>7 DEF pbuf_copy_partial
<1> QED
  BY <1>4, <1>5

\* The bytes of a packet from n on, in the pbuf that has byte n.
LEMMA SpanPart ==
  ASSUME Sound, NEW p \in Pbufs, NEW n \in Nat, NEW q \in Pbufs, NEW k \in Nat,
         Meets(p, n, q, k), NEW m \in Nat, k + m <= pbuf[q].len
  PROVE  CutOf(Span(q, k, m), Bytes[p], n, m)
<1>1. CutOf(Span(q, k, m), Bytes[q], k, m)
  BY SpanCut
<1>2. TotOf(p) \in Nat /\ TotOf(q) \in Nat /\ k + m <= TotOf(q)
  <2>1. PICK l \in Nat : l = pbuf[q].len
    BY SoundIs
  <2>2. PICK a \in Nat : a = TotOf(pbuf[q].next) /\ TotOf(q) = l + a
    BY <2>1, SoundIs
  <2>3. k + m <= l + a
    BY <2>1
  <2>4. TotOf(p) \in Nat
    BY SoundIs
  <2> QED
    BY <2>2, <2>3, <2>4
<1> QED
  BY <1>1, <1>2, CutMeets

\* pbuf_try_get_at reads the byte it is asked for, and nothing beyond the end.
LEMMA ByteIs ==
  ASSUME Sound, NEW p \in Pbufs, NEW n \in Nat
  PROVE  /\ n < TotOf(p) => CutOf(ByteAt(p, n), Bytes[p], n, 1)
         /\ n >= TotOf(p) => ByteAt(p, n) = <<>>
<1>1. ASSUME n < TotOf(p) PROVE CutOf(ByteAt(p, n), Bytes[p], n, 1)
  <2>1. PICK q \in Pbufs, k, l, a \in Nat :
           /\ pbuf_skip(p, n).at = q /\ pbuf_skip(p, n).left = k
           /\ q # NULL /\ l = pbuf[q].len /\ k < l /\ Meets(p, n, q, k)
    BY <1>1, FoundIs
  <2>2. ByteAt(p, n) = Span(q, k, 1)
    BY <2>1 DEF ByteAt
  <2>3. k + 1 <= pbuf[q].len
    BY <2>1
  <2> QED
    BY <2>1, <2>2, <2>3, SpanPart
<1>2. ASSUME n >= TotOf(p) PROVE ByteAt(p, n) = <<>>
  BY <1>2, BeyondIs DEF ByteAt
<1> QED
  BY <1>1, <1>2

\* pbuf_take_at writes the places the offset names, or nothing at all.
LEMMA TakeAtIs ==
  ASSUME Sound, NEW p \in Pbufs, NEW offset \in Nat, NEW len \in Nat
  PROVE  pbuf_take_at(p, len, offset)
           = IF offset + len <= TotOf(p) /\ offset < TotOf(p)
             THEN {Part(p, offset, len)} ELSE {}
<1>1. PICK b \in Nat : b = TotOf(p)
  BY SoundIs
<1>2. CASE ~(offset < b)
  <2>1. pbuf_skip(p, offset).at = NULL
    BY <1>1, <1>2, BeyondIs
  <2> QED
    BY <1>1, <1>2, <2>1 DEF pbuf_take_at
<1>3. CASE offset < b
  <2>1. PICK q \in Pbufs, k, l, a \in Nat :
           /\ pbuf_skip(p, offset).at = q /\ pbuf_skip(p, offset).left = k
           /\ q # NULL /\ l = pbuf[q].len /\ k < l /\ a = TotOf(q) /\ a = pbuf[q].tot_len
           /\ l <= a /\ TotOf(p) - offset = a - k /\ Meets(p, offset, q, k)
    BY <1>1, <1>3, FoundIs
  <2>2. b - offset = a - k
    BY <1>1, <2>1
  <2>3. PICK n : n = Least(l - k, len)
    OBVIOUS
  <2>4. PICK t : t = pbuf_take_at(p, len, offset)
    OBVIOUS
  <2>5. t = IF a < k + len THEN {}
            ELSE IF len = n THEN {Span(q, k, n)}
            ELSE {Span(q, k, n) \o r : r \in pbuf_take(pbuf[q].next, len - n)}
    BY <2>1, <2>3, <2>4 DEF pbuf_take_at
  <2>6. CASE a < k + len
    <3>1. ~(offset + len <= b)
      BY <2>2, <2>6
    <3> QED
      BY <1>1, <2>4, <2>5, <2>6, <3>1
  <2>7. CASE ~(a < k + len)
    <3>1. offset + len <= b
      BY <2>2, <2>7
    <3>2. /\ n \in Nat /\ k + n <= l /\ n + (len - n) = len
          /\ len # n => /\ n = l - k /\ len - n \in Nat /\ len - n > 0
                        /\ l + (len - n) <= a /\ l + 0 = k + n
      BY <2>1, <2>3, <2>7 DEF Least
    <3>3. k + n <= pbuf[q].len
      BY <2>1, <3>2
    <3>4. CutOf(Span(q, k, n), Bytes[p], offset, n)
      BY <2>1, <3>2, <3>3, SpanPart
    <3>5. PICK r : t = {r} /\ CutOf(r, Bytes[p], offset, len)
      <4>1. CASE len = n
        <5>1. t = {Span(q, k, n)}
          BY <2>5, <2>7, <4>1
        <5> QED
          BY <3>4, <4>1, <5>1
      <4>2. CASE len # n
        <5>1. PICK x : x = pbuf[q].next
          OBVIOUS
        <5>2. PICK m \in Nat : m = len - n
          BY <3>2, <4>2
        <5>3. TotOf(x) \in Nat /\ a = l + TotOf(x)
          BY <2>1, <5>1, SoundIs
        <5>4. m <= TotOf(x)
          BY <3>2, <4>2, <5>2, <5>3
        <5>5. x \in Pbufs /\ TotOf(x) = pbuf[x].tot_len
          <6>1. x # NULL
            BY <3>2, <4>2, <5>2, <5>3, <5>4, SoundIs
          <6> QED
            BY <5>1, <6>1, SoundIs
        <5>6. PICK y : y = TakeTo[x][m]
          OBVIOUS
        <5>7. pbuf_take(x, m) = {y}
          BY <5>3, <5>4, <5>5, <5>6 DEF pbuf_take
        <5>8. t = {Span(q, k, n) \o y}
          BY <2>5, <2>7, <4>2, <5>1, <5>2, <5>7
        <5>9. CutOf(y, Bytes[x], 0, m)
          BY <5>4, <5>5, <5>6, TakeIs
        <5>10. 0 + m <= TotOf(pbuf[q].next)
          BY <5>1, <5>3, <5>4
        <5>11. CutOf(y, Bytes[q], l + 0, m)
          BY <2>1, <5>1, <5>9, <5>10, CutRest
        <5>12. CutOf(y, Bytes[q], k + n, m)
          BY <3>2, <4>2, <5>11
        <5>13. CutOf(Span(q, k, n), Bytes[q], k, n)
          BY <3>2, <3>3, SpanCut
        <5>14. CutOf(Span(q, k, n) \o y, Bytes[q], k, n + m)
          BY <3>2, <5>12, <5>13, CutConcat
        <5>15. n + m = len /\ k + len <= TotOf(q) /\ TotOf(p) \in Nat /\ TotOf(q) \in Nat
          BY <1>1, <2>1, <2>7, <3>2, <5>2
        <5>16. CutOf(Span(q, k, n) \o y, Bytes[p], offset, len)
          BY <2>1, <5>14, <5>15, CutMeets
        <5> QED
          BY <5>8, <5>16
      <4> QED
        BY <4>1, <4>2
    <3>6. r = Part(p, offset, len)
      BY <1>1, <3>1, <3>5, CutPart
    <3> QED
      BY <1>1, <1>3, <2>4, <3>1, <3>5, <3>6
  <2> QED
    BY <2>6, <2>7
<1> QED
  BY <1>2, <1>3

\* pbuf_get_contiguous returns the bytes asked for, or fails when the packet
\* is too short.
LEMMA ContiguousIs ==
  ASSUME Sound, NEW p \in Pbufs, NEW offset \in Nat, NEW len \in Nat
  PROVE  pbuf_get_contiguous(p, TRUE, len, offset)
           = IF offset + len <= TotOf(p) /\ offset < TotOf(p)
             THEN {Part(p, offset, len)} ELSE {}
<1>1. PICK b \in Nat : b = TotOf(p)
  BY SoundIs
<1>2. CASE ~(offset < b)
  <2>1. pbuf_skip(p, offset).at = NULL
    BY <1>1, <1>2, BeyondIs
  <2> QED
    BY <1>1, <1>2, <2>1 DEF pbuf_get_contiguous
<1>3. CASE offset < b
  <2>1. PICK q \in Pbufs, k, l, a \in Nat :
           /\ pbuf_skip(p, offset).at = q /\ pbuf_skip(p, offset).left = k
           /\ q # NULL /\ l = pbuf[q].len /\ k < l /\ a = TotOf(q) /\ a = pbuf[q].tot_len
           /\ l <= a /\ TotOf(p) - offset = a - k /\ Meets(p, offset, q, k)
    BY <1>1, <1>3, FoundIs
  <2>2. b - offset = a - k
    BY <1>1, <2>1
  <2>3. PICK c : c = pbuf_copy_partial(q, len, k)
    OBVIOUS
  <2>4. PICK t : t = pbuf_get_contiguous(p, TRUE, len, offset)
    OBVIOUS
  <2>5. t = IF l >= k + len THEN {Span(q, k, len)} ELSE {r \in {c} : Len(r) = len}
    BY <2>1, <2>3, <2>4 DEF pbuf_get_contiguous
  <2>6. CASE l >= k + len
    <3>1. offset + len <= b /\ k + len <= l
      BY <2>1, <2>2, <2>6
    <3>2. CutOf(Span(q, k, len), Bytes[p], offset, len)
      BY <2>1, <3>1, SpanPart
    <3>3. Span(q, k, len) = Part(p, offset, len)
      BY <1>1, <3>1, <3>2, CutPart
    <3> QED
      BY <1>1, <1>3, <2>4, <2>5, <2>6, <3>1, <3>3
  <2>7. CASE ~(l >= k + len)
    <3>1. PICK n : n = Available(q, len, k)
      OBVIOUS
    <3>2. n \in Nat /\ k + n <= a /\ (n = len <=> offset + len <= b)
      <4>1. n = IF k <= a THEN IF len < a - k THEN len ELSE a - k ELSE 0
        BY <2>1, <3>1 DEF Available, Least
      <4>2. k <= a
        BY <2>1
      <4> QED
        BY <2>2, <4>1, <4>2
    <3>3. CutOf(c, Bytes[q], k, n)
      BY <2>3, <3>1, CopyIs DEF pbuf_copy_partial
    <3>4. Len(c) = n
      BY <3>3 DEF CutOf
    <3>5. TotOf(p) \in Nat /\ TotOf(q) \in Nat /\ k + n <= TotOf(q)
      BY <1>1, <2>1, <3>2
    <3>6. CutOf(c, Bytes[p], offset, n)
      <4>1. Meets(p, offset, q, k) /\ n \in Nat
        BY <2>1, <3>2
      <4> QED
        BY <3>3, <3>5, <4>1, CutMeets
    <3>7. CASE n = len
      <4>1. c = Part(p, offset, len)
        BY <1>1, <3>2, <3>6, <3>7, CutPart
      <4>2. t = {c}
        BY <2>5, <2>7, <3>4, <3>7
      <4> QED
        BY <1>1, <1>3, <2>4, <3>2, <3>7, <4>1, <4>2
    <3>8. CASE n # len
      <4>1. t = {}
        BY <2>5, <2>7, <3>4, <3>8
      <4> QED
        BY <1>1, <2>4, <3>2, <3>8, <4>1
    <3> QED
      BY <3>7, <3>8
  <2> QED
    BY <2>6, <2>7
<1> QED
  BY <1>2, <1>3

\* pbuf_memcmp compares the bytes from byte i on, which a packet has only there.
LEMMA CompareIs ==
  ASSUME Sound, NEW p \in Pbufs, NEW offset \in Nat, NEW len \in Nat, len > 0,
         offset + len <= TotOf(p), NEW i \in Nat, i + len <= TotOf(p)
  PROVE  pbuf_memcmp(p, i, Part(p, offset, len)) = 0 <=> i = offset
<1>1. PICK b \in Nat : b = TotOf(p)
  BY SoundIs
<1>2. i < TotOf(p)
  BY <1>1
<1>3. PICK q \in Pbufs, k, l, a \in Nat :
         /\ pbuf_skip(p, i).at = q /\ pbuf_skip(p, i).left = k
         /\ a = TotOf(q) /\ TotOf(p) - i = a - k /\ Meets(p, i, q, k)
  BY <1>2, FoundIs
<1>4. PICK s2 : s2 = Part(p, offset, len)
  OBVIOUS
<1>5. Len(s2) = len /\ \A j \in 1..len : s2[j] = Bytes[p][offset + j]
  <2>1. PICK s : s = SubSeq(Bytes[p], offset + 1, Least(offset + len, TotOf(p)))
    OBVIOUS
  <2>2. s = pbuf_copy_partial(p, len, offset)
    BY <2>1, CopyPartialIs
  <2>3. Least(offset + len, TotOf(p)) = offset + len /\ Available(p, len, offset) = len
    BY <1>1 DEF Least, Available
  <2>4. s = s2
    BY <1>4, <2>1, <2>3 DEF Part
  <2>5. CutOf(s, Bytes[p], offset, len)
    BY <2>2, <2>3, CopyIs DEF pbuf_copy_partial
  <2> QED
    BY <2>4, <2>5 DEF CutOf
<1>6. ASSUME NEW j \in 1..len
      PROVE  ByteAt(q, k + j - 1) = <<Bytes[p][i + j]>>
  <2>1. /\ k + j - 1 \in Nat /\ k + j - 1 < TotOf(q) /\ (k + j - 1) + 1 = k + j
        /\ j \in 1..TotOf(p) - i
    BY <1>1, <1>3
  <2>2. PICK s : s = ByteAt(q, k + j - 1)
    OBVIOUS
  <2>3. CutOf(s, Bytes[q], k + j - 1, 1)
    BY <2>1, <2>2, ByteIs
  <2>4. s \in Seq(Places) /\ Len(s) = 1 /\ s[1] = Bytes[q][k + j]
    <3>1. s[1] = Bytes[q][(k + j - 1) + 1]
      BY <2>3 DEF CutOf
    <3> QED
      BY <2>1, <2>3, <3>1 DEF CutOf
  <2>5. s = <<Bytes[q][k + j]>>
    BY <2>4
  <2>6. Bytes[p][i + j] = Bytes[q][k + j]
    BY <1>3, <2>1 DEF Meets
  <2> QED
    BY <2>2, <2>5, <2>6
<1> DEFINE differ == {j \in 1..Len(s2) : ByteAt(q, k + j - 1) # <<s2[j]>>}
<1>7. pbuf_memcmp(p, i, s2) = IF differ = {} THEN 0 ELSE Lowest(differ)
  <2>1. ~(pbuf[p].tot_len < i + Len(s2))
    <3>1. pbuf[p].tot_len = b
      BY <1>1, SoundIs
    <3> QED
      BY <1>1, <1>5, <3>1
  <2> QED
    BY <1>3, <2>1 DEF pbuf_memcmp
<1>8. differ # {} => Lowest(differ) # 0
  <2>1. differ \subseteq 1..len /\ differ \subseteq Nat
    BY <1>5
  <2> HIDE DEF differ
  <2>2. differ # {} => Lowest(differ) \in differ
    BY <2>1, LowestOf
  <2> QED
    BY <2>1, <2>2
<1>9. CASE i = offset
  <2>1. \A j \in 1..Len(s2) : ByteAt(q, k + j - 1) = <<s2[j]>>
    BY <1>5, <1>6, <1>9
  <2>2. differ = {}
    BY <2>1
  <2> QED
    BY <1>4, <1>7, <1>9, <2>2
<1>10. CASE i # offset
  <2>1. 1 \in 1..len /\ i + 1 \in 1..TotOf(p) /\ offset + 1 \in 1..TotOf(p)
    BY <1>1
  <2>2. Bytes[p][i + 1] # Bytes[p][offset + 1]
    <3>1. i + 1 # offset + 1
      BY <1>10
    <3> QED
      BY <2>1, <3>1, PlacesApart
  <2>3. ByteAt(q, k + 1 - 1) = <<Bytes[p][i + 1]>> /\ s2[1] = Bytes[p][offset + 1]
    BY <1>5, <1>6, <2>1
  <2>4. ByteAt(q, k + 1 - 1) # <<s2[1]>>
    <3>1. \A x, y : <<x>> = <<y>> => x = y
      OBVIOUS
    <3> QED
      BY <2>2, <2>3, <3>1
  <2>5. differ # {}
    BY <1>5, <2>1, <2>4
  <2> HIDE DEF differ
  <2> QED
    BY <1>4, <1>7, <1>8, <1>10, <2>5
<1> QED
  BY <1>9, <1>10

\* pbuf_memfind finds a part of the packet where it was taken from.
LEMMA FindIs ==
  ASSUME Sound, NEW p \in Pbufs, NEW offset \in Nat, NEW len \in Nat, len > 0,
         offset + len <= TotOf(p)
  PROVE  pbuf_memfind(p, Part(p, offset, len), 0) = offset
<1>1. PICK b \in Nat : b = TotOf(p) /\ b = pbuf[p].tot_len
  BY SoundIs
<1>2. PICK s2 : s2 = Part(p, offset, len)
  OBVIOUS
<1>3. Len(s2) = len
  <2>1. PICK s : s = pbuf_copy_partial(p, len, offset)
    OBVIOUS
  <2>2. Available(p, len, offset) = len
    BY <1>1 DEF Least, Available
  <2>3. CutOf(s, Bytes[p], offset, len)
    BY <2>1, <2>2, CopyIs DEF pbuf_copy_partial
  <2>4. s = s2
    BY <1>2, <2>3, CutPart
  <2> QED
    BY <2>3, <2>4 DEF CutOf
<1> DEFINE found == {i \in 0..b - len : pbuf_memcmp(p, i, s2) = 0}
<1>4. \A i \in 0..b - len : pbuf_memcmp(p, i, s2) = 0 <=> i = offset
  <2> SUFFICES ASSUME NEW i \in 0..b - len
               PROVE  pbuf_memcmp(p, i, s2) = 0 <=> i = offset
    OBVIOUS
  <2>1. i \in Nat /\ i + len <= TotOf(p)
    BY <1>1
  <2> QED
    BY <1>2, <2>1, CompareIs
<1>5. found = {offset}
  <2>1. offset \in 0..b - len
    BY <1>1
  <2> QED
    BY <1>4, <2>1
<1>6. pbuf_memfind(p, s2, 0) = IF found = {} THEN U16 - 1 ELSE Lowest(found)
  BY <1>1, <1>3 DEF pbuf_memfind
<1>7. Lowest(found) \in found
  <2>1. found \subseteq Nat /\ found # {}
    BY <1>5
  <2> HIDE DEF found
  <2> QED
    BY <2>1, LowestOf
<1> HIDE DEF found
<1> QED
  BY <1>2, <1>5, <1>6, <1>7

\* Between calls the lengths and links of every chain are sound.
LEMMA SoundBetween == PbufInv /\ Idle => Sound
<1> SUFFICES ASSUME PbufInv, Idle PROVE Sound
  OBVIOUS
<1>1. Good(pbuf, memp, handles, <<>>, NULL)
  BY DEF PbufInv, Idle
<1>2. pbuf \in [Pbufs -> PbufRecord]
  BY <1>1 DEF Good, PbufTyped
<1> QED
  BY <1>1, <1>2, GoodIs, IdleAgrees, RecordIs DEF Sound

LEMMA HeadsIn == Heads \subseteq Pbufs
BY DEF Heads, Held

\* Whatever packets were cut and joined to, the functions that walk them read
\* and write the bytes asked for, in order, and refuse just where the packet
\* is too short (pbuf.c:1060-1138, 1191-1302, 1410-1529).
THEOREM PbufReads == PbufSpec => []ReadsTrue
<1>1. ASSUME PbufInv PROVE ReadsTrue
  <2> SUFFICES ASSUME Idle, NEW p \in Heads, NEW offset \in 0..U16 - 1,
                      NEW len \in 0..U16 - 1
               PROVE
    LET fits == offset + len <= Len(Bytes[p])
        here == offset < Len(Bytes[p])
        part == Part(p, offset, len)
    IN  /\ pbuf_copy_partial(p, len, offset)
             = SubSeq(Bytes[p], offset + 1, Least(offset + len, Len(Bytes[p])))
        /\ pbuf_take_at(p, len, offset) = IF fits /\ here THEN {part} ELSE {}
        /\ ByteAt(p, offset) = IF here THEN Part(p, offset, 1) ELSE <<>>
        /\ pbuf_get_contiguous(p, TRUE, len, offset)
             = IF fits /\ here THEN {part} ELSE {}
        /\ fits /\ len > 0 => pbuf_memfind(p, part, 0) = offset
    BY DEF ReadsTrue, Unshared
  <2>1. Sound
    BY <1>1, SoundBetween
  <2>2. p \in Pbufs /\ offset \in Nat /\ len \in Nat
    BY HeadsIn
  <2>3. Len(Bytes[p]) = TotOf(p) /\ TotOf(p) \in Nat
    BY <2>1, <2>2, BytesAre, SoundIs
  <2>4. ByteAt(p, offset) = IF offset < TotOf(p) THEN Part(p, offset, 1) ELSE <<>>
    <3>1. CASE offset < TotOf(p)
      <4>1. offset + 1 <= TotOf(p)
        BY <2>2, <2>3, <3>1
      <4>2. CutOf(ByteAt(p, offset), Bytes[p], offset, 1)
        BY <2>1, <2>2, <3>1, ByteIs
      <4> QED
        BY <2>1, <2>2, <3>1, <4>1, <4>2, CutPart
    <3>2. CASE ~(offset < TotOf(p))
      <4>1. offset >= TotOf(p)
        BY <2>2, <2>3, <3>2
      <4> QED
        BY <2>1, <2>2, <3>2, <4>1, ByteIs
    <3> QED
      BY <3>1, <3>2
  <2>5. pbuf_copy_partial(p, len, offset)
          = SubSeq(Bytes[p], offset + 1, Least(offset + len, TotOf(p)))
    BY <2>1, <2>2, CopyPartialIs
  <2>6. pbuf_take_at(p, len, offset)
          = IF offset + len <= TotOf(p) /\ offset < TotOf(p)
            THEN {Part(p, offset, len)} ELSE {}
    BY <2>1, <2>2, TakeAtIs
  <2>7. pbuf_get_contiguous(p, TRUE, len, offset)
          = IF offset + len <= TotOf(p) /\ offset < TotOf(p)
            THEN {Part(p, offset, len)} ELSE {}
    BY <2>1, <2>2, ContiguousIs
  <2>8. offset + len <= TotOf(p) /\ len > 0 =>
          pbuf_memfind(p, Part(p, offset, len), 0) = offset
    BY <2>1, <2>2, FindIs
  <2> QED
    BY <2>3, <2>4, <2>5, <2>6, <2>7, <2>8
<1> QED
  BY <1>1, PbufInvariant, PTL

\* b pairs the n bytes of to behind offset with the first n of from.
Paired(b, to, from, offset, n) ==
  /\ b \in Seq(Places \X Places) /\ Len(b) = n
  /\ \A k \in 1..n : b[k] = <<Bytes[to][offset + k], Bytes[from][k]>>

\* The copy is under way after k turns, in pbuf x of one packet, y of the other.
Going(c, k, to, from, offset, len) ==
  \E x \in 1..Len(Chain[to]), y \in 1..Len(Chain[from]), done \in Nat :
    /\ c.err = "none yet" /\ c.i \in Nat /\ c.j \in Nat /\ c.left \in Nat
    /\ c.to = Chain[to][x] /\ c.i <= pbuf[c.to].len
    /\ c.from = Chain[from][y] /\ c.j <= pbuf[c.from].len
    /\ x + y >= k + 2 /\ done + c.left = len
    /\ Meets(to, offset + done, c.to, c.i) /\ Meets(from, done, c.from, c.j)
    /\ Paired(c.bytes, to, from, offset, done)

\* It is over: all was copied, or a pbuf ends its packet too early.
Over(c, to, from, offset, len) ==
  \/ c.err = "ERR_OK" /\ Paired(c.bytes, to, from, offset, len)
  \/ c.err = "ERR_VAL" /\ \E r \in InChain(to) \union InChain(from) : Queue(r)

Pairs(s, t, n) == [k \in 1..n |-> <<s[k], t[k]>>]

\* A copy followed by the copy of what comes next is one copy.
LEMMA PairedConcat ==
  ASSUME NEW to, NEW from, NEW offset \in Nat, NEW n \in Nat, NEW m \in Nat,
         NEW b, Paired(b, to, from, offset, n),
         NEW s, CutOf(s, Bytes[to], offset + n, m),
         NEW t, CutOf(t, Bytes[from], n, m)
  PROVE  Paired(b \o Pairs(s, t, m), to, from, offset, n + m)
<1> DEFINE PP == Places \X Places
           d == Pairs(s, t, m)
<1>1. d \in Seq(PP) /\ Len(d) = m
  <2>1. ASSUME NEW k \in 1..m PROVE s[k] \in Places /\ t[k] \in Places
    <3>1. s \in Seq(Places) /\ Len(s) = m /\ t \in Seq(Places) /\ Len(t) = m
      BY DEF CutOf
    <3> QED
      BY <3>1, ElementOfSeq
  <2>2. \A k \in 1..m : <<s[k], t[k]>> \in PP
    BY <2>1
  <2> HIDE DEF PP
  <2>3. d \in [1..m -> PP]
    BY <2>2 DEF Pairs
  <2> HIDE DEF d
  <2> QED
    BY <2>3
<1>2. b \in Seq(PP) /\ Len(b) = n
  BY DEF Paired
<1>3. \A k \in 1..m : d[k] = <<s[k], t[k]>>
  BY DEF Pairs
<1> HIDE DEF PP, d
<1>4. PICK r : r = b \o d
  OBVIOUS
<1>5. /\ r \in Seq(PP) /\ Len(r) = Len(b) + Len(d)
      /\ \A k \in 1..Len(b) + Len(d) : r[k] = IF k <= Len(b) THEN b[k] ELSE d[k - Len(b)]
  BY <1>1, <1>2, <1>4, ConcatProperties
<1>6. Len(r) = n + m /\ \A k \in 1..n + m : r[k] = IF k <= n THEN b[k] ELSE d[k - n]
  BY <1>1, <1>2, <1>5
<1>7. ASSUME NEW k \in 1..n + m
      PROVE  r[k] = <<Bytes[to][offset + k], Bytes[from][k]>>
  <2>1. CASE k <= n
    <3>1. k \in 1..n /\ r[k] = b[k]
      BY <1>6, <2>1
    <3> QED
      BY <3>1 DEF Paired
  <2>2. CASE ~(k <= n)
    <3>1. k - n \in 1..m /\ (offset + n) + (k - n) = offset + k /\ n + (k - n) = k
      BY <2>2
    <3>2. r[k] = <<s[k - n], t[k - n]>>
      BY <1>3, <1>6, <2>2, <3>1
    <3>3. s[k - n] = Bytes[to][(offset + n) + (k - n)]
      BY <3>1 DEF CutOf
    <3>4. t[k - n] = Bytes[from][n + (k - n)]
      BY <3>1 DEF CutOf
    <3> QED
      BY <3>1, <3>2, <3>3, <3>4
  <2> QED
    BY <2>1, <2>2
<1> QED
  BY <1>4, <1>5, <1>6, <1>7 DEF Paired, PP, d

\* Behind n more bytes the copy is still in the pbuf, or at the start of the
\* next, or at the end of the packet.
MovedOn(p, x, q, i, n, d, r) ==
  /\ q \in Pbufs
  /\ r = q <=> i + n # pbuf[q].len
  /\ Offset(r = q, i + n) \in Nat
  /\ Meets(p, d + n, r, Offset(r = q, i + n))
  /\ CutOf(Span(q, i, n), Bytes[p], d, n)
  /\ r = NULL => TotOf(p) = d + n
  /\ r # NULL =>
       /\ r \in InChain(p) /\ Offset(r = q, i + n) <= pbuf[r].len
       /\ \E y \in 1..Len(Chain[p]) :
            r = Chain[p][y] /\ y = IF r = q THEN x ELSE x + 1

\* One side of pbuf_copy's loop: advancing by what was copied leads to the
\* place behind it, in the same pbuf or at the start of the next.
LEMMA SideMoves ==
  ASSUME Sound, NEW p \in Pbufs, NEW x \in 1..Len(Chain[p]),
         NEW q, q = Chain[p][x], NEW i \in Nat, NEW n \in Nat, NEW d \in Nat,
         i + n <= pbuf[q].len, Meets(p, d, q, i),
         NEW r, r = IF i + n = pbuf[q].len THEN pbuf[q].next ELSE q
  PROVE  MovedOn(p, x, q, i, n, d, r)
<1>1. PICK s : s = Chain[p]
  OBVIOUS
<1>2. Follows(s, p)
  BY <1>1, ChainIs DEF Sound
<1>3. PICK m \in Nat : m = Len(s) /\ m >= 1
  BY <1>2 DEF Follows
<1>4. /\ DOMAIN s = 1..m /\ pbuf[s[m]].next = NULL
      /\ \A k \in 1..m : s[k] \in Pbufs
      /\ \A k \in 1..m - 1 : pbuf[s[k]].next = s[k + 1]
  BY <1>2, <1>3, LenProperties DEF Follows
<1>5. x \in 1..m /\ q = s[x] /\ q \in Pbufs
  BY <1>1, <1>3, <1>4
<1>6. PICK l \in Nat : l = pbuf[q].len
  BY <1>5, SoundIs
<1>7. PICK t : t = pbuf[q].next
  OBVIOUS
<1>8. t # q /\ TotOf(t) \in Nat /\ TotOf(p) \in Nat /\ TotOf(q) \in Nat
  BY <1>5, <1>7, SoundIs
<1>9. PICK o : o = Offset(r = q, i + n)
  OBVIOUS
<1>10. CutOf(Span(q, i, n), Bytes[p], d, n)
  BY <1>5, SpanPart
<1>11. CASE i + n = l
  <2>1. r = t /\ r # q /\ o = 0
    BY <1>6, <1>7, <1>8, <1>9, <1>11 DEF Offset
  <2>2. Meets(q, l, t, 0)
    BY <1>5, <1>6, <1>7, MeetsNext
  <2>3. Meets(p, d + n, t, 0)
    BY <1>8, <1>11, <2>2, MeetsOn
  <2>4. ASSUME r = NULL PROVE TotOf(p) = d + n
    <3>1. TotOf(p) - (d + n) = TotOf(t) - 0 /\ TotOf(t) = 0
      BY <2>1, <2>3, <2>4, SoundIs DEF Meets
    <3> QED
      BY <1>8, <3>1
  <2>5. ASSUME r # NULL PROVE x + 1 \in 1..m /\ r = s[x + 1] /\ r \in Pbufs
    <3>1. x # m
      BY <1>4, <1>5, <1>7, <2>1, <2>5
    <3>2. x \in 1..m - 1 /\ x + 1 \in 1..m
      BY <1>3, <1>5, <3>1
    <3> QED
      BY <1>4, <1>5, <1>7, <2>1, <3>2
  <2>6. ASSUME r # NULL
        PROVE  /\ r \in InChain(p) /\ 0 <= pbuf[r].len
               /\ \E y \in 1..Len(Chain[p]) :
                    r = Chain[p][y] /\ y = IF r = q THEN x ELSE x + 1
    <3>1. r \in InChain(p)
      BY <1>1, <1>4, <2>5, <2>6 DEF InChain
    <3>2. 0 <= pbuf[r].len
      <4>1. pbuf[r].len \in Nat
        BY <2>5, <2>6, SoundIs
      <4> QED
        BY <4>1
    <3> QED
      BY <1>1, <1>3, <2>1, <2>5, <2>6, <3>1, <3>2
  <2> QED
    BY <1>5, <1>6, <1>9, <1>10, <1>11, <2>1, <2>3, <2>4, <2>6 DEF MovedOn
<1>12. CASE i + n # l
  <2>1. r = q /\ o = i + n
    BY <1>6, <1>9, <1>12 DEF Offset
  <2>2. Meets(q, i + n, q, i + n)
    BY MeetsSelf
  <2>3. Meets(p, d + n, q, i + n)
    <3>1. i + n \in Nat
      OBVIOUS
    <3> QED
      BY <1>8, <2>2, <3>1, MeetsOn
  <2>4. q # NULL /\ q \in InChain(p)
    <3>1. q # NULL
      BY <1>5, SoundIs
    <3> QED
      BY <1>1, <1>4, <1>5, <3>1 DEF InChain
  <2> QED
    BY <1>1, <1>3, <1>5, <1>6, <1>9, <1>10, <1>12, <2>1, <2>3, <2>4 DEF MovedOn
<1> QED
  BY <1>11, <1>12

\* A turn copies what both pbufs have of what is left, and ends one of them or
\* the copy.
LEMMA CopyPartIs ==
  ASSUME Sound, NEW to \in Pbufs, NEW from \in Pbufs, NEW offset \in Nat, NEW len \in Nat,
         offset + len <= TotOf(to), len <= TotOf(from),
         NEW k \in Nat, NEW c, Going(c, k, to, from, offset, len)
  PROVE  LET e == CopyPart(c)
         IN  Going(e, k + 1, to, from, offset, len) \/ Over(e, to, from, offset, len)
<1>1. PICK x \in 1..Len(Chain[to]), y \in 1..Len(Chain[from]), done \in Nat :
        /\ c.err = "none yet" /\ c.i \in Nat /\ c.j \in Nat /\ c.left \in Nat
        /\ c.to = Chain[to][x] /\ c.i <= pbuf[c.to].len
        /\ c.from = Chain[from][y] /\ c.j <= pbuf[c.from].len
        /\ x + y >= k + 2 /\ done + c.left = len
        /\ Meets(to, offset + done, c.to, c.i) /\ Meets(from, done, c.from, c.j)
        /\ Paired(c.bytes, to, from, offset, done)
  BY DEF Going
<1>2. PICK i \in Nat : i = c.i
  BY <1>1
<1>3. PICK j \in Nat : j = c.j
  BY <1>1
<1>4. PICK left \in Nat : left = c.left
  BY <1>1
<1>5. PICK q : q = c.to
  OBVIOUS
<1>6. PICK r : r = c.from
  OBVIOUS
<1>7. q \in Pbufs /\ r \in Pbufs
  <2>1. \A p \in Pbufs : \A z \in 1..Len(Chain[p]) : Chain[p][z] \in Pbufs
    BY ChainIs, LenProperties DEF Sound, Follows
  <2> QED
    BY <1>1, <1>5, <1>6, <2>1
<1>8. PICK lq \in Nat : lq = pbuf[q].len
  BY <1>7, SoundIs
<1>9. PICK lr \in Nat : lr = pbuf[r].len
  BY <1>7, SoundIs
<1>10. i <= lq /\ j <= lr /\ done + left = len /\ x + y >= k + 2
  BY <1>1, <1>2, <1>3, <1>4, <1>5, <1>6, <1>8, <1>9
<1> PICK d \in Nat : d = offset + done
  OBVIOUS
<1>26. q = Chain[to][x] /\ r = Chain[from][y]
  BY <1>1, <1>5, <1>6
<1>27. Meets(to, d, q, i) /\ Meets(from, done, r, j)
  BY <1>1, <1>2, <1>3, <1>5, <1>6
<1>11. PICK n : n = Least(left, Least(lq - i, lr - j))
  OBVIOUS
<1>12. /\ n \in Nat /\ n <= left /\ i + n <= lq /\ j + n <= lr
       /\ left - n \in Nat /\ (left = n \/ i + n = lq \/ j + n = lr)
  BY <1>10, <1>11 DEF Least
<1>13. PICK t2 : t2 = IF i + n = lq THEN pbuf[q].next ELSE q
  OBVIOUS
<1>14. PICK f2 : f2 = IF j + n = lr THEN pbuf[r].next ELSE r
  OBVIOUS
<1>15. f2 = IF j + n >= lr THEN pbuf[r].next ELSE r
  BY <1>12, <1>14
<1>16. PICK b : b = c.bytes \o Pairs(Span(q, i, n), Span(r, j, n), n)
  OBVIOUS
<1>17. PICK e : e = CopyPart(c)
  OBVIOUS
<1>18. e = [to |-> t2, i |-> Offset(t2 = q, i + n),
            from |-> f2, j |-> Offset(f2 = r, j + n),
            left |-> left - n, bytes |-> b,
            err |-> IF (t2 = NULL \/ f2 = NULL) /\ left # n THEN "ERR_ARG"
                    ELSE IF Queue(f2) \/ Queue(t2) THEN "ERR_VAL"
                    ELSE IF left = n THEN "ERR_OK" ELSE "none yet"]
  BY <1>2, <1>3, <1>4, <1>5, <1>6, <1>8, <1>9, <1>11, <1>13, <1>15, <1>16, <1>17
     DEF CopyPart, Pairs
<1>19. /\ Offset(t2 = q, i + n) \in Nat
       /\ Meets(to, d + n, t2, Offset(t2 = q, i + n))
       /\ CutOf(Span(q, i, n), Bytes[to], d, n)
       /\ t2 = NULL => TotOf(to) = d + n
       /\ t2 # NULL =>
            /\ t2 \in InChain(to) /\ Offset(t2 = q, i + n) <= pbuf[t2].len
            /\ \E z \in 1..Len(Chain[to]) :
                 t2 = Chain[to][z] /\ z = IF t2 = q THEN x ELSE x + 1
       /\ t2 = q <=> i + n # lq
  <2>1. i + n <= pbuf[q].len /\ n \in Nat
    BY <1>8, <1>12
  <2>2. t2 = IF i + n = pbuf[q].len THEN pbuf[q].next ELSE q
    BY <1>8, <1>13
  <2>3. MovedOn(to, x, q, i, n, d, t2)
    BY <1>26, <1>27, <2>1, <2>2, SideMoves
  <2> QED
    BY <1>8, <2>3 DEF MovedOn
<1>20. /\ Offset(f2 = r, j + n) \in Nat
       /\ Meets(from, done + n, f2, Offset(f2 = r, j + n))
       /\ CutOf(Span(r, j, n), Bytes[from], done, n)
       /\ f2 = NULL => TotOf(from) = done + n
       /\ f2 # NULL =>
            /\ f2 \in InChain(from) /\ Offset(f2 = r, j + n) <= pbuf[f2].len
            /\ \E z \in 1..Len(Chain[from]) :
                 f2 = Chain[from][z] /\ z = IF f2 = r THEN y ELSE y + 1
       /\ f2 = r <=> j + n # lr
  <2>1. j + n <= pbuf[r].len /\ n \in Nat
    BY <1>9, <1>12
  <2>2. f2 = IF j + n = pbuf[r].len THEN pbuf[r].next ELSE r
    BY <1>9, <1>14
  <2>3. MovedOn(from, y, r, j, n, done, f2)
    BY <1>26, <1>27, <2>1, <2>2, SideMoves
  <2> QED
    BY <1>9, <2>3 DEF MovedOn
<1>21. Paired(b, to, from, offset, done + n)
  <2>1. Paired(c.bytes, to, from, offset, done) /\ n \in Nat
    BY <1>1, <1>12
  <2>2. CutOf(Span(q, i, n), Bytes[to], offset + done, n)
    BY <1>19
  <2>3. CutOf(Span(r, j, n), Bytes[from], done, n)
    BY <1>20
  <2> QED
    <3>1. PICK s : s = Span(q, i, n)
      OBVIOUS
    <3>2. PICK t : t = Span(r, j, n)
      OBVIOUS
    <3>3. CutOf(s, Bytes[to], offset + done, n) /\ CutOf(t, Bytes[from], done, n)
      BY <2>2, <2>3, <3>1, <3>2
    <3>4. Paired(c.bytes \o Pairs(s, t, n), to, from, offset, done + n)
      BY <2>1, <3>3, PairedConcat
    <3> QED
      BY <1>16, <3>1, <3>2, <3>4
<1>22. ~((t2 = NULL \/ f2 = NULL) /\ left # n)
  <2>1. TotOf(to) \in Nat /\ TotOf(from) \in Nat
    BY SoundIs
  <2>2. left # n => d + n < TotOf(to) /\ done + n < TotOf(from)
    BY <1>10, <1>12, <2>1
  <2> QED
    BY <1>19, <1>20, <2>1, <2>2
<1>23. CASE Queue(f2) \/ Queue(t2)
  <2>1. e.err = "ERR_VAL"
    BY <1>18, <1>22, <1>23
  <2>2. \E z \in InChain(to) \union InChain(from) : Queue(z)
    BY <1>19, <1>20, <1>23 DEF Queue
  <2> QED
    BY <1>17, <2>1, <2>2 DEF Over
<1>24. CASE ~(Queue(f2) \/ Queue(t2)) /\ left = n
  <2>1. e.err = "ERR_OK" /\ e.bytes = b
    BY <1>18, <1>22, <1>24
  <2>2. done + n = len
    BY <1>10, <1>24
  <2> QED
    BY <1>17, <1>21, <2>1, <2>2 DEF Over
<1>25. CASE ~(Queue(f2) \/ Queue(t2)) /\ left # n
  <2>1. /\ e.err = "none yet" /\ e.to = t2 /\ e.i = Offset(t2 = q, i + n)
        /\ e.from = f2 /\ e.j = Offset(f2 = r, j + n) /\ e.left = left - n /\ e.bytes = b
    BY <1>18, <1>22, <1>25
  <2>2. t2 # NULL /\ f2 # NULL
    BY <1>22, <1>25
  <2>3. PICK x2 \in 1..Len(Chain[to]) : t2 = Chain[to][x2] /\ x2 = IF t2 = q THEN x ELSE x + 1
    BY <1>19, <2>2
  <2>4. PICK y2 \in 1..Len(Chain[from]) : f2 = Chain[from][y2] /\ y2 = IF f2 = r THEN y ELSE y + 1
    BY <1>20, <2>2
  <2>5. t2 # q \/ f2 # r
    BY <1>12, <1>19, <1>20, <1>25
  <2>6. x2 + y2 >= (k + 1) + 2
    <3>1. (x2 = x + 1 \/ y2 = y + 1) /\ x2 >= x /\ y2 >= y
      <4>1. x \in Nat /\ y \in Nat
        OBVIOUS
      <4>2. x2 = x \/ x2 = x + 1
        BY <2>3
      <4>3. y2 = y \/ y2 = y + 1
        BY <2>4
      <4>4. x2 = x + 1 \/ y2 = y + 1
        BY <2>3, <2>4, <2>5
      <4> QED
        BY <4>1, <4>2, <4>3, <4>4
    <3> QED
      BY <1>10, <3>1
  <2>7. done + n \in Nat /\ (done + n) + e.left = len /\ offset + (done + n) = d + n
    <3>1. (done + n) + (left - n) = len /\ offset + (done + n) = d + n /\ done + n \in Nat
      BY <1>10, <1>12
    <3> QED
      BY <2>1, <3>1
  <2>8. /\ e.i \in Nat /\ e.j \in Nat /\ e.left \in Nat
        /\ e.i <= pbuf[e.to].len /\ e.j <= pbuf[e.from].len
        /\ Meets(to, offset + (done + n), e.to, e.i) /\ Meets(from, done + n, e.from, e.j)
    BY <1>12, <1>19, <1>20, <2>1, <2>2, <2>7
  <2>9. Going(e, k + 1, to, from, offset, len)
    <3>1. Paired(e.bytes, to, from, offset, done + n)
      BY <1>21, <2>1
    <3>2. e.to = Chain[to][x2] /\ e.from = Chain[from][y2] /\ e.err = "none yet"
      BY <2>1, <2>3, <2>4
    <3> QED
      BY <2>6, <2>7, <2>8, <3>1, <3>2 DEF Going
  <2> QED
    BY <1>17, <2>9
<1> QED
  BY <1>23, <1>24, <1>25

\* What a function of the turns has after turn k.
Turn(a, start, k) ==
  IF k = 0 THEN start
  ELSE IF a[k - 1].err = "none yet" THEN CopyPart(a[k - 1]) ELSE a[k - 1]

Turns(a, start, K) == a = [k \in 0..K |-> Turn(a, start, k)]

\* The turns of pbuf_copy's loop from a start can be written as a function.
LEMMA TurnsExist == \A K \in Nat : \A start : \E a : Turns(a, start, K)
<1> SUFFICES ASSUME NEW K \in Nat, NEW start PROVE \E a : Turns(a, start, K)
  OBVIOUS
<1> DEFINE Has(n) == \E a : Turns(a, start, n)
           B == {n \in 0..K : Has(n)}
<1>1. 0 \in B
  <2>1. PICK a : a = [k \in 0..0 |-> start]
    OBVIOUS
  <2>2. \A k \in 0..0 : Turn(a, start, k) = start
    BY DEF Turn
  <2>3. a = [k \in 0..0 |-> Turn(a, start, k)]
    BY <2>1, <2>2
  <2>4. Has(0)
    BY <2>3 DEF Turns
  <2> QED
    BY <2>4
<1>2. ASSUME NEW n \in 1..K, n - 1 \in B PROVE n \in B
  <2>0. PICK a : Turns(a, start, n - 1)
    BY <1>2
  <2>1. a = [k \in 0..n - 1 |-> Turn(a, start, k)]
    BY <2>0 DEF Turns
  <2>2. PICK b : b = [k \in 0..n |-> IF k = n THEN Turn(a, start, n) ELSE a[k]]
    OBVIOUS
  <2>3. n - 1 \in 0..n /\ n - 1 # n /\ \A k \in 0..n - 1 : k \in 0..n /\ k # n
    OBVIOUS
  <2>4. \A k \in 0..n - 1 : b[k] = a[k]
    BY <2>2, <2>3
  <2>5. ASSUME NEW k \in 0..n PROVE b[k] = Turn(b, start, k)
    <3>1. CASE k = 0
      <4>1. k \in 0..n - 1
        BY <3>1
      <4>2. b[k] = Turn(a, start, k)
        BY <2>1, <2>4, <4>1
      <4> QED
        BY <3>1, <4>2 DEF Turn
    <3>2. CASE k # 0
      <4>1. k - 1 \in 0..n - 1
        BY <3>2
      <4>2. b[k - 1] = a[k - 1]
        BY <2>4, <4>1
      <4>3. Turn(b, start, k) = Turn(a, start, k)
        BY <3>2, <4>2 DEF Turn
      <4>4. b[k] = Turn(a, start, k)
        <5>1. CASE k = n
          BY <2>2, <5>1
        <5>2. CASE k # n
          <6>1. k \in 0..n - 1
            BY <5>2
          <6>2. a[k] = Turn(a, start, k)
            BY <2>1, <6>1
          <6> QED
            BY <2>4, <6>1, <6>2
        <5> QED
          BY <5>1, <5>2
      <4> QED
        BY <4>3, <4>4
    <3> QED
      BY <3>1, <3>2
  <2>6. b = [k \in 0..n |-> Turn(b, start, k)]
    <3>1. b = [k \in 0..n |-> b[k]]
      BY <2>2
    <3> QED
      BY <2>5, <3>1
  <2>7. Has(n)
    BY <2>6 DEF Turns
  <2> QED
    BY <2>7
<1>3. \A n \in 0..K : n \in B
  <2> HIDE DEF B
  <2> QED
    BY <1>1, <1>2, UpTo
<1> QED
  BY <1>3

Begun(t, f, offset, left) ==
  [to |-> t, i |-> offset, from |-> f, j |-> 0, left |-> left,
   bytes |-> <<>>, err |-> "none yet"]

\* a leads to s, turn by turn.
LeadsTo(a, start, K, s) == s = a[K] /\ \A k \in 0..K : a[k] = Turn(a, start, k)

\* pbuf_copy's loop ends in the state that its turns lead to.
LEMMA CopyLoopDef ==
  ASSUME NEW t, NEW f, NEW offset, NEW left,
         NEW K \in Nat, K = Len(Chain[t]) + Len(Chain[f])
  PROVE  \E a : LeadsTo(a, Begun(t, f, offset, left), K, CopyLoop(t, f, offset, left))
<1> DEFINE start == Begun(t, f, offset, left)
           a == CHOOSE h : h = [k \in 0..K |-> Turn(h, start, k)]
<1>1. \E g : g = [k \in 0..K |-> Turn(g, start, k)]
  <2> HIDE DEF start
  <2>1. PICK g : Turns(g, start, K)
    BY TurnsExist
  <2> QED
    BY <2>1 DEF Turns
<1>2. a = [k \in 0..K |-> Turn(a, start, k)]
  BY <1>1, Zenon
<1>3. CopyLoop(t, f, offset, left) = a[K]
  BY Zenon DEF CopyLoop, Turn, Begun
<1> HIDE DEF a
<1>4. \A k \in 0..K : a[k] = Turn(a, start, k)
  BY <1>2
<1> QED
  BY <1>3, <1>4 DEF LeadsTo

\* The loop ends, with everything copied or at a pbuf that ends its packet too
\* early.
LEMMA CopyLoopIs ==
  ASSUME Sound, NEW to \in Pbufs, NEW from \in Pbufs, NEW offset \in Nat, NEW len \in Nat,
         offset <= pbuf[to].len, offset + len <= TotOf(to), len <= TotOf(from)
  PROVE  Over(CopyLoop(to, from, offset, len), to, from, offset, len)
<1>1. PICK n \in Nat : n = Len(Chain[to]) /\ n >= 1 /\ Chain[to][1] = to
  BY ChainIs DEF Sound, Follows
<1>2. PICK m \in Nat : m = Len(Chain[from]) /\ m >= 1 /\ Chain[from][1] = from
  BY ChainIs DEF Sound, Follows
<1>3. PICK K \in Nat : K = n + m
  OBVIOUS
<1>4. PICK start : start = Begun(to, from, offset, len)
  OBVIOUS
<1>5. PICK a : /\ CopyLoop(to, from, offset, len) = a[K]
               /\ \A k \in 0..K : a[k] = Turn(a, start, k)
  <2>1. K = Len(Chain[to]) + Len(Chain[from])
    BY <1>1, <1>2, <1>3
  <2>2. PICK a : LeadsTo(a, start, K, CopyLoop(to, from, offset, len))
    BY <1>4, <2>1, CopyLoopDef
  <2> QED
    BY <2>2 DEF LeadsTo
<1> DEFINE OnTheWay(k) == \/ Going(a[k], k, to, from, offset, len)
                          \/ Over(a[k], to, from, offset, len)
           B == {k \in 0..K : OnTheWay(k)}
<1>6. 0 \in B
  <2>1. a[0] = start
    <3>1. 0 \in 0..K
      OBVIOUS
    <3>2. a[0] = Turn(a, start, 0)
      BY <1>5, <3>1
    <3> QED
      BY <3>2 DEF Turn
  <2>2. Paired(<<>>, to, from, offset, 0)
    <3>1. <<>> \in Seq(Places \X Places) /\ Len(<<>>) = 0
      OBVIOUS
    <3> QED
      BY <3>1 DEF Paired
  <2>3. Meets(to, offset + 0, to, offset) /\ Meets(from, 0, from, 0)
    BY MeetsSelf
  <2>4. pbuf[from].len \in Nat
    BY SoundIs
  <2>5. Going(start, 0, to, from, offset, len)
    <3>1. 1 \in 1..Len(Chain[to]) /\ 1 \in 1..Len(Chain[from])
      BY <1>1, <1>2
    <3>2. /\ start.err = "none yet" /\ start.i = offset /\ start.j = 0 /\ start.left = len
          /\ start.to = to /\ start.from = from /\ start.bytes = <<>>
      BY <1>4 DEF Begun
    <3>3. start.to = Chain[to][1] /\ start.from = Chain[from][1]
      BY <1>1, <1>2, <3>2
    <3>4. 1 + 1 >= 0 + 2 /\ 0 + start.left = len /\ start.j <= pbuf[start.from].len
      <4>1. 1 + 1 >= 0 + 2 /\ 0 + len = len
        OBVIOUS
      <4>2. 0 <= pbuf[from].len
        BY <2>4
      <4> QED
        BY <3>2, <4>1, <4>2
    <3> QED
      <4>1. /\ start.i \in Nat /\ start.j \in Nat /\ start.left \in Nat
            /\ start.i <= pbuf[start.to].len
        <5>1. offset \in Nat /\ 0 \in Nat /\ len \in Nat /\ offset <= pbuf[to].len
          OBVIOUS
        <5> QED
          BY <3>2, <5>1, Zenon
      <4>2. Paired(start.bytes, to, from, offset, 0)
        BY <2>2, <3>2
      <4>3. Meets(to, offset + 0, start.to, start.i) /\ Meets(from, 0, start.from, start.j)
        BY <2>3, <3>2
      <4>4. 0 \in Nat
        OBVIOUS
      <4> QED
        BY <3>1, <3>2, <3>3, <3>4, <4>1, <4>2, <4>3, <4>4 DEF Going
  <2> QED
    BY <2>1, <2>5
<1>7. ASSUME NEW k \in 1..K, k - 1 \in B PROVE k \in B
  <2>1. a[k] = IF a[k - 1].err = "none yet" THEN CopyPart(a[k - 1]) ELSE a[k - 1]
    <3>1. k \in 0..K /\ k # 0
      OBVIOUS
    <3>2. a[k] = Turn(a, start, k)
      BY <1>5, <3>1
    <3> QED
      BY <3>1, <3>2 DEF Turn
  <2>2. CASE Going(a[k - 1], k - 1, to, from, offset, len)
    <3>1. a[k - 1].err = "none yet"
      BY <2>2 DEF Going
    <3>2. k - 1 \in Nat /\ (k - 1) + 1 = k
      OBVIOUS
    <3>3. LET e == CopyPart(a[k - 1])
          IN  Going(e, (k - 1) + 1, to, from, offset, len) \/ Over(e, to, from, offset, len)
      BY <2>2, <3>2, CopyPartIs
    <3>4. OnTheWay(k)
      BY <2>1, <3>1, <3>2, <3>3
    <3> QED
      BY <3>4
  <2>3. CASE Over(a[k - 1], to, from, offset, len)
    <3>1. a[k - 1].err # "none yet"
      BY <2>3 DEF Over
    <3>2. OnTheWay(k)
      BY <2>1, <2>3, <3>1
    <3> QED
      BY <3>2
  <2> QED
    BY <1>7, <2>2, <2>3
<1>8. K \in B
  <2> HIDE DEF B
  <2>1. \A k \in 0..K : k \in B
    BY <1>6, <1>7, UpTo
  <2> QED
    BY <2>1
<1>9. ASSUME Going(a[K], K, to, from, offset, len) PROVE FALSE
  <2>1. PICK x \in 1..Len(Chain[to]), y \in 1..Len(Chain[from]) : x + y >= K + 2
    BY <1>9 DEF Going
  <2>2. x \in 1..n /\ y \in 1..m
    BY <1>1, <1>2
  <2> QED
    BY <1>3, <2>1, <2>2
<1> QED
  BY <1>5, <1>8, <1>9

\* A part of a packet is a cut of its bytes.
LEMMA PartIs ==
  ASSUME Sound, NEW p \in Pbufs, NEW o \in Nat, NEW n \in Nat, o + n <= TotOf(p)
  PROVE  CutOf(Part(p, o, n), Bytes[p], o, n)
<1>1. PICK b \in Nat : b = TotOf(p)
  BY SoundIs
<1>2. Available(p, n, o) = n
  BY <1>1 DEF Least, Available
<1>3. PICK s : s = pbuf_copy_partial(p, n, o)
  OBVIOUS
<1>4. CutOf(s, Bytes[p], o, n)
  BY <1>2, <1>3, CopyIs DEF pbuf_copy_partial
<1>5. s = Part(p, o, n)
  BY <1>4, CutPart
<1> QED
  BY <1>4, <1>5

\* A copy that succeeds is byte for byte the original, in the place asked for;
\* it succeeds if both are long enough and neither ends with empty pbufs
\* (pbuf.c:988-1046).
THEOREM PbufCopies == PbufSpec => []CopiesTrue
<1>1. ASSUME PbufInv PROVE CopiesTrue
  <2> SUFFICES ASSUME Idle, NEW to \in Heads, NEW from \in Heads, to # from,
                      NEW len \in 0..pbuf[from].tot_len, NEW offset \in 0..pbuf[to].len
               PROVE
      LET c == pbuf_copy_partial_pbuf(to, from, len, offset)
      IN  /\ c.err = "ERR_OK" =>
               c.bytes = [k \in 1..len |-> <<Part(to, offset, len)[k],
                                            Part(from, 0, len)[k]>>]
          /\ NoQueue(to) /\ NoQueue(from) =>
               (c.err = "ERR_OK" <=> offset + len <= pbuf[to].tot_len)
    BY DEF CopiesTrue, Unshared
  <2> PICK c : c = pbuf_copy_partial_pbuf(to, from, len, offset)
    OBVIOUS
  <2>1. Sound
    BY <1>1, SoundBetween
  <2>2. to \in Pbufs /\ from \in Pbufs
    BY HeadsIn
  <2>3. PICK lt \in Nat : lt = TotOf(to) /\ lt = pbuf[to].tot_len
    BY <2>1, <2>2, SoundIs
  <2>4. PICK lf \in Nat : lf = TotOf(from) /\ lf = pbuf[from].tot_len
    BY <2>1, <2>2, SoundIs
  <2>5. len \in Nat /\ len <= lf
    BY <2>4
  <2>6. offset \in Nat /\ offset <= pbuf[to].len
    <3>1. pbuf[to].len \in Nat
      BY <2>1, <2>2, SoundIs
    <3> QED
      BY <3>1
  <2>7. CASE lt < offset + len
    <3>1. c = [err |-> "ERR_ARG", bytes |-> <<>>]
      BY <2>3, <2>7 DEF pbuf_copy_partial_pbuf
    <3>2. c.err # "ERR_OK"
      BY <3>1
    <3>3. ~(offset + len <= lt)
      BY <2>5, <2>6, <2>7
    <3> QED
      BY <2>3, <3>2, <3>3
  <2>8. CASE ~(lt < offset + len)
    <3>1. offset + len <= lt
      BY <2>5, <2>6, <2>8
    <3>2. c = CopyLoop(to, from, offset, len)
      <4>1. ~(pbuf[from].tot_len < len) /\ ~(pbuf[to].tot_len < offset + len)
        BY <2>3, <2>4, <2>5, <2>8
      <4> QED
        BY <4>1 DEF pbuf_copy_partial_pbuf
    <3>3. Over(c, to, from, offset, len)
      BY <2>1, <2>2, <2>3, <2>4, <2>5, <2>6, <3>1, <3>2, CopyLoopIs
    <3>4. NoQueue(to) /\ NoQueue(from) => c.err = "ERR_OK"
      BY <3>3 DEF Over, NoQueue
    <3>5. ASSUME c.err = "ERR_OK"
          PROVE  c.bytes = [k \in 1..len |-> <<Part(to, offset, len)[k],
                                               Part(from, 0, len)[k]>>]
      <4>1. Paired(c.bytes, to, from, offset, len)
        BY <3>3, <3>5 DEF Over
      <4>2. CutOf(Part(to, offset, len), Bytes[to], offset, len)
        BY <2>1, <2>2, <2>3, <2>5, <2>6, <3>1, PartIs
      <4>3. CutOf(Part(from, 0, len), Bytes[from], 0, len)
        <5>1. 0 + len <= TotOf(from)
          BY <2>4, <2>5
        <5> QED
          BY <2>1, <2>2, <2>5, <5>1, PartIs
      <4>4. \A k \in 1..len : c.bytes[k] = <<Part(to, offset, len)[k], Part(from, 0, len)[k]>>
        <5> SUFFICES ASSUME NEW k \in 1..len
                     PROVE  c.bytes[k] = <<Part(to, offset, len)[k], Part(from, 0, len)[k]>>
          OBVIOUS
        <5>1. c.bytes[k] = <<Bytes[to][offset + k], Bytes[from][k]>>
          BY <4>1 DEF Paired
        <5>2. Part(to, offset, len)[k] = Bytes[to][offset + k]
          BY <4>2 DEF CutOf
        <5>3. Part(from, 0, len)[k] = Bytes[from][0 + k]
          BY <4>3 DEF CutOf
        <5>4. 0 + k = k
          OBVIOUS
        <5> QED
          BY <5>1, <5>2, <5>3, <5>4
      <4>5. c.bytes = [k \in 1..len |-> c.bytes[k]]
        <5> DEFINE PP == Places \X Places
        <5>1. c.bytes \in Seq(PP) /\ Len(c.bytes) = len
          BY <4>1 DEF Paired
        <5> HIDE DEF PP
        <5>2. c.bytes \in [1..len -> PP]
          BY <5>1, LenProperties
        <5> QED
          BY <5>2
      <4> QED
        BY <4>4, <4>5
    <3> QED
      BY <2>3, <3>1, <3>4, <3>5
  <2> QED
    BY <2>7, <2>8
<1> QED
  BY <1>1, PbufInvariant, PTL

------------------------------
(* Checksums. *)

\* The biggest word, which counts for nothing in one's complement.
Ones == WORD - 1

\* The same in one's complement arithmetic.
Alike(a, b) == \E k \in Int : a = b + k * Ones

Octets == 0..BASE - 1

\* The sizes of a word, and of the largest sum that fits one.
LEMMA WordIs ==
  /\ BASE \in Nat /\ BASE >= 2
  /\ WORD \in Nat /\ WORD = BASE * BASE /\ WORD >= 2 * BASE
  /\ Ones \in Nat /\ Ones = WORD - 1 /\ Ones >= 3
<1>1. PICK b \in Nat : b = BASE /\ b >= 2
  BY ChksumAssumption
<1>2. PICK w \in Int : w = b * b
  OBVIOUS
<1>3. b * b >= 2 * b
  BY <1>1
<1>4. w >= 4 /\ w >= 2 * b
  BY <1>1, <1>2, <1>3
<1>5. WORD = w
  BY <1>1, <1>2 DEF WORD
<1>6. Ones = w - 1
  BY <1>5 DEF Ones
<1> QED
  BY <1>1, <1>2, <1>4, <1>5, <1>6

\* Division with remainder.
LEMMA Division ==
  ASSUME NEW a \in Nat, a > 0, NEW x \in Int
  PROVE  x = a * (x \div a) + (x % a) /\ x % a \in 0..a - 1 /\ x \div a \in Int
  OBVIOUS

\* Quotient and remainder of what is written as a multiple and a rest.
LEMMA DivisionIs ==
  ASSUME NEW a \in Nat, a > 0, NEW q \in Int, NEW r \in 0..a - 1
  PROVE  (a * q + r) \div a = q /\ (a * q + r) % a = r
<1>1. PICK x \in Int : x = a * q + r
  OBVIOUS
<1>2. PICK k \in Int : k = x \div a
  BY Division
<1>3. PICK s \in 0..a - 1 : s = x % a
  BY Division
<1>4. x = a * k + s
  BY <1>2, <1>3, Division
<1>5. a * (q - k) = s - r
  BY <1>1, <1>4
<1>6. PICK d \in Int : d = q - k
  OBVIOUS
<1>7. a * d = s - r
  BY <1>5, <1>6
<1>8. d >= 1 => a * d >= a
  OBVIOUS
<1>9. d <= -1 => a * d <= -a
  OBVIOUS
<1>10. d = 0
  BY <1>7, <1>8, <1>9
<1>11. k = q /\ s = r
  BY <1>6, <1>7, <1>10
<1> QED
  BY <1>1, <1>2, <1>3, <1>11

------------------------------
(* One's complement arithmetic. *)

LEMMA AlikeSelf == \A a \in Int : Alike(a, a)
<1>1. \A a \in Int : a = a + 0 * Ones
  BY WordIs
<1> QED
  BY <1>1 DEF Alike

LEMMA AlikeSum ==
  ASSUME NEW a \in Int, NEW b \in Int, NEW c \in Int, NEW d \in Int,
         Alike(a, b), Alike(c, d)
  PROVE  Alike(a + c, b + d)
<1>1. PICK m \in Int : m = Ones
  BY WordIs
<1>2. PICK k \in Int : a = b + k * m
  BY <1>1 DEF Alike
<1>3. PICK l \in Int : c = d + l * m
  BY <1>1 DEF Alike
<1>4. a + c = (b + d) + (k + l) * m
  BY <1>2, <1>3
<1>5. k + l \in Int
  OBVIOUS
<1> QED
  BY <1>1, <1>4, <1>5 DEF Alike

LEMMA AlikeBack ==
  ASSUME NEW a \in Int, NEW b \in Int, Alike(a, b)
  PROVE  Alike(b, a)
<1>1. PICK m \in Int : m = Ones
  BY WordIs
<1>2. PICK k \in Int : a = b + k * m
  BY <1>1 DEF Alike
<1>3. b = a + (-k) * m /\ -k \in Int
  BY <1>2
<1> QED
  BY <1>1, <1>3 DEF Alike

LEMMA AlikeOn ==
  ASSUME NEW a \in Int, NEW b \in Int, NEW c \in Int, Alike(a, b), Alike(b, c)
  PROVE  Alike(a, c)
<1>1. PICK m \in Int : m = Ones
  BY WordIs
<1>2. PICK k \in Int : a = b + k * m
  BY <1>1 DEF Alike
<1>3. PICK l \in Int : b = c + l * m
  BY <1>1 DEF Alike
<1>4. a = c + (k + l) * m /\ k + l \in Int
  BY <1>2, <1>3
<1> QED
  BY <1>1, <1>4 DEF Alike

LEMMA AlikeTimes ==
  ASSUME NEW a \in Int, NEW b \in Int, NEW x \in Int, Alike(a, b)
  PROVE  Alike(x * a, x * b)
<1>1. PICK m \in Int : m = Ones
  BY WordIs
<1>2. PICK k \in Int : a = b + k * m
  BY <1>1 DEF Alike
<1>3. PICK l \in Int : l = x * k
  OBVIOUS
<1>4. x * a = x * b + l * m
  <2>1. x * (k * m) = (x * k) * m
    OBVIOUS
  <2>2. x * (b + k * m) = x * b + x * (k * m)
    OBVIOUS
  <2> QED
    BY <1>2, <1>3, <2>1, <2>2
<1> QED
  BY <1>1, <1>4 DEF Alike

\* Exchanging bytes twice.
LEMMA Twice == \A x \in Int : Alike(BASE * (BASE * x), x)
<1> SUFFICES ASSUME NEW x \in Int PROVE Alike(BASE * (BASE * x), x)
  OBVIOUS
<1>1. PICK b \in Nat : b = BASE
  BY WordIs
<1>2. PICK w \in Nat : w = WORD /\ w = b * b /\ Ones = w - 1
  BY <1>1, WordIs
<1>3. b * (b * x) = (b * b) * x
  OBVIOUS
<1>4. b * (b * x) = x + x * (w - 1)
  BY <1>2, <1>3
<1> QED
  BY <1>1, <1>2, <1>4 DEF Alike

\* The same, and zero only together: in one's complement zero and Ones are
\* alike, but a sum is zero only if everything in it is.
Same(a, b) == Alike(a, b) /\ (a = 0 <=> b = 0)

LEMMA SameSelf == \A a \in Int : Same(a, a)
BY AlikeSelf DEF Same

LEMMA SameSum ==
  ASSUME NEW a \in Nat, NEW b \in Nat, NEW c \in Nat, NEW d \in Nat,
         Same(a, b), Same(c, d)
  PROVE  Same(a + c, b + d)
<1>1. Alike(a + c, b + d)
  BY AlikeSum DEF Same
<1>2. a + c = 0 <=> b + d = 0
  BY DEF Same
<1> QED
  BY <1>1, <1>2 DEF Same

LEMMA SameBack ==
  ASSUME NEW a \in Int, NEW b \in Int, Same(a, b)
  PROVE  Same(b, a)
BY AlikeBack DEF Same

LEMMA SameOn ==
  ASSUME NEW a \in Int, NEW b \in Int, NEW c \in Int, Same(a, b), Same(b, c)
  PROVE  Same(a, c)
BY AlikeOn DEF Same

LEMMA SameTimes ==
  ASSUME NEW a \in Int, NEW b \in Int, NEW x \in Nat, x > 0, Same(a, b)
  PROVE  Same(x * a, x * b)
<1>1. Alike(x * a, x * b)
  BY AlikeTimes DEF Same
<1>2. \A y \in Int : x * y = 0 <=> y = 0
  OBVIOUS
<1> QED
  BY <1>1, <1>2 DEF Same

\* Weighing by BASE twice changes nothing, as BASE * BASE is one more than Ones.
LEMMA SameTwice == \A x \in Int : Same(BASE * (BASE * x), x)
<1> SUFFICES ASSUME NEW x \in Int PROVE Same(BASE * (BASE * x), x)
  OBVIOUS
<1>1. PICK b \in Nat : b = BASE /\ b > 0
  BY WordIs
<1>2. \A y \in Int : b * y \in Int /\ (b * y = 0 <=> y = 0)
  BY <1>1
<1> QED
  BY <1>1, <1>2, Twice DEF Same

\* What a sum is that fits a word.
LEMMA SameIs ==
  ASSUME NEW x \in 0..WORD - 1, NEW n \in Nat, Same(x, n)
  PROVE  x = IF n = 0 THEN 0 ELSE ((n - 1) % (WORD - 1)) + 1
<1>1. PICK m \in Nat : m = Ones /\ m = WORD - 1 /\ m > 0
  BY WordIs
<1>2. PICK k \in Int : x = n + k * m
  BY <1>1 DEF Same, Alike
<1>3. x \in 0..m /\ (x = 0 <=> n = 0)
  BY <1>1 DEF Same
<1>4. CASE n # 0
  <2>1. x - 1 \in 0..m - 1
    BY <1>3, <1>4
  <2>2. PICK q \in Int : q = -k
    OBVIOUS
  <2>3. n - 1 = m * q + (x - 1)
    BY <1>2, <2>2
  <2>4. (m * q + (x - 1)) % m = x - 1
    BY <1>1, <2>1, DivisionIs
  <2>5. (n - 1) % m = x - 1
    BY <2>3, <2>4
  <2> QED
    BY <1>1, <1>3, <1>4, <2>5
<1> QED
  BY <1>3, <1>4

\* Folding keeps a sum; twice is enough for all that fits 32 bits.
LEMMA FoldIs ==
  ASSUME NEW u \in Nat
  PROVE  /\ FOLD_U32T(u) \in Nat /\ Same(FOLD_U32T(u), u)
         /\ u < WORD * WORD => FOLD_U32T(u) <= 2 * WORD - 2
         /\ u <= 2 * WORD - 2 => FOLD_U32T(u) < WORD
<1>1. PICK w \in Nat : w = WORD /\ w > 0 /\ Ones = w - 1
  BY WordIs
<1>2. PICK q \in Int : q = u \div w
  BY <1>1, Division
<1>3. PICK r \in 0..w - 1 : r = u % w
  BY <1>1, Division
<1>4. u = w * q + r
  BY <1>1, <1>2, <1>3, Division
<1>5. FOLD_U32T(u) = q + r
  BY <1>1, <1>2, <1>3 DEF FOLD_U32T
<1>6. q >= 0
  <2>1. q <= -1 => w * q <= -w
    OBVIOUS
  <2> QED
    BY <1>4, <2>1
<1>7. q + r = u + (-q) * (w - 1) /\ -q \in Int
  BY <1>4
<1>8. u < w * w => q <= w - 1
  <2>1. q >= w => w * q >= w * w
    BY <1>6
  <2> QED
    BY <1>4, <1>6, <2>1
<1>9. u <= 2 * w - 2 => q + r < w
  <2>1. q >= 2 => w * q >= 2 * w
    OBVIOUS
  <2>2. q = 1 => w * q = w
    OBVIOUS
  <2> QED
    BY <1>4, <1>6, <2>1, <2>2
<1>10. q + r = 0 <=> u = 0
  <2>1. q >= 1 => w * q >= w
    OBVIOUS
  <2>2. q = 0 => w * q = 0
    OBVIOUS
  <2> QED
    BY <1>1, <1>4, <1>6, <2>1, <2>2
<1>11. Alike(q + r, u)
  BY <1>1, <1>7 DEF Alike
<1> QED
  BY <1>1, <1>5, <1>6, <1>8, <1>9, <1>10, <1>11 DEF Same

\* SWAP_BYTES_IN_WORD exchanges the two bytes of a word.
LEMMA SwapIs ==
  ASSUME NEW h \in Octets, NEW l \in Octets
  PROVE  /\ BASE * h + l \in 0..WORD - 1
         /\ SWAP_BYTES_IN_WORD(BASE * h + l) = BASE * l + h
<1>1. PICK b \in Nat : b = BASE /\ b >= 2
  BY WordIs
<1>2. h \in 0..b - 1 /\ l \in 0..b - 1 /\ h \in Int
  BY <1>1 DEF Octets
<1>3. PICK x \in Int : x = b * h + l
  BY <1>2
<1>4. x \div b = h /\ x % b = l
  BY <1>1, <1>2, <1>3, DivisionIs
<1>5. h % b = h
  BY <1>2
<1>6. SWAP_BYTES_IN_WORD(x) = l * b + h
  BY <1>1, <1>4, <1>5 DEF SWAP_BYTES_IN_WORD
<1>7. b * h <= b * (b - 1)
  BY <1>2
<1>8. x \in 0..b * b - 1
  BY <1>2, <1>3, <1>7
<1> QED
  BY <1>1, <1>2, <1>3, <1>6, <1>8 DEF WORD

\* A word is made of its high byte and its low byte.
LEMMA WordHas ==
  ASSUME NEW w \in 0..WORD - 1
  PROVE  w % BASE \in Octets /\ w \div BASE \in Octets
         /\ w = BASE * (w \div BASE) + (w % BASE)
<1>1. PICK b \in Nat : b = BASE /\ b >= 2
  BY WordIs
<1>2. WORD = b * b /\ WORD \in Nat
  BY <1>1, WordIs
<1>3. w \in Nat /\ w < b * b
  BY <1>2
<1>4. PICK q \in Int : q = w \div b
  BY <1>1, <1>3, Division
<1>5. PICK r \in 0..b - 1 : r = w % b
  BY <1>1, <1>3, Division
<1>6. w = b * q + r
  BY <1>1, <1>3, <1>4, <1>5, Division
<1>7. q >= 0
  <2>1. q <= -1 => b * q <= -b
    OBVIOUS
  <2> QED
    BY <1>3, <1>6, <2>1
<1>8. q <= b - 1
  <2>1. q >= b => b * q >= b * b
    BY <1>7
  <2> QED
    BY <1>3, <1>6, <1>7, <2>1
<1>9. q \in 0..b - 1
  BY <1>7, <1>8
<1>10. /\ w % b \in 0..b - 1 /\ w \div b \in 0..b - 1
       /\ w = b * (w \div b) + (w % b)
  <2>2. w = b * (w \div b) + (w % b)
    BY <1>1, <1>3, Division
  <2>3. w % b \in 0..b - 1
    BY <1>5
  <2>4. w \div b \in 0..b - 1
    BY <1>4, <1>9
  <2> QED
    BY <2>2, <2>3, <2>4
<1> QED
  BY <1>1, <1>10 DEF Octets

\* To swap the bytes of a word is to weigh it by BASE.
LEMMA SwapSame ==
  ASSUME NEW w \in 0..WORD - 1
  PROVE  /\ SWAP_BYTES_IN_WORD(w) \in 0..WORD - 1
         /\ Same(SWAP_BYTES_IN_WORD(w), BASE * w)
<1>1. PICK b \in Nat : b = BASE
  BY WordIs
<1>2. PICK h \in Octets, l \in Octets : w = b * h + l
  <2>1. w \div BASE \in Octets /\ w % BASE \in Octets
    BY WordHas
  <2>2. w = BASE * (w \div BASE) + (w % BASE)
    BY WordHas
  <2> QED
    BY <1>1, <2>1, <2>2, Zenon
<1>3. h \in Int /\ l \in Int
  BY <1>1, <1>2 DEF Octets
<1>4. SWAP_BYTES_IN_WORD(w) = b * l + h /\ SWAP_BYTES_IN_WORD(w) \in 0..WORD - 1
  BY <1>1, <1>2, SwapIs
<1>5. PICK x \in Int : x = b * l
  BY <1>3
<1>6. PICK y \in Int : y = b * (b * h)
  BY <1>3
<1>7. b * w = y + x
  <2>1. b * (b * h + l) = b * (b * h) + b * l
    BY <1>3
  <2> QED
    BY <1>2, <1>5, <1>6, <2>1
<1>8. Alike(y, h) /\ Alike(x, x)
  BY <1>1, <1>3, <1>5, <1>6, Twice, AlikeSelf
<1>9. Alike(y + x, h + x)
  BY <1>3, <1>8, AlikeSum
<1>10. Alike(h + x, y + x)
  BY <1>3, <1>9, AlikeBack
<1>11. h + x = SWAP_BYTES_IN_WORD(w)
  BY <1>3, <1>4, <1>5
<1>12. Alike(SWAP_BYTES_IN_WORD(w), BASE * w)
  BY <1>1, <1>7, <1>10, <1>11
<1>13. SWAP_BYTES_IN_WORD(w) = 0 <=> BASE * w = 0
  <2>1. b > 0 /\ h \in Nat /\ l \in Nat
    BY <1>1, <1>2, WordIs DEF Octets
  <2>2. b * l + h = 0 <=> l = 0 /\ h = 0
    BY <2>1
  <2>3. b * h + l = 0 <=> l = 0 /\ h = 0
    BY <2>1
  <2>4. w \in Nat /\ (b * w = 0 <=> w = 0)
    <3>1. w \in Nat
      BY WordIs
    <3> QED
      BY <2>1, <3>1
  <2> QED
    BY <1>1, <1>2, <1>4, <2>2, <2>3, <2>4
<1> QED
  BY <1>4, <1>12, <1>13 DEF Same

\* f is what G makes of x, step by step.
Recurs(f, X, x, L, G) ==
  /\ f \in [0..L -> X]
  /\ f = [n \in 0..L |-> IF n = 0 THEN x ELSE G[n][f[n - 1]]]

\* What recurs over the numbers up to L is a function.
LEMMA RecursExist ==
  ASSUME NEW X, NEW x \in X, NEW L \in Nat, NEW G \in [1..L -> [X -> X]]
  PROVE  \E f : Recurs(f, X, x, L, G)
<1> DEFINE Reaches(f, m) ==
             /\ f \in [0..m -> X] /\ f[0] = x
             /\ \A n \in 1..m : f[n] = G[n][f[n - 1]]
           B == {m \in 0..L : \E f : Reaches(f, m)}
<1>1. 0 \in B
  <2> DEFINE f == [n \in 0..0 |-> x]
  <2>1. Reaches(f, 0)
    OBVIOUS
  <2> HIDE DEF f, Reaches
  <2> QED
    BY <2>1
<1>2. ASSUME NEW m \in 1..L, m - 1 \in B
      PROVE  m \in B
  <2>1. PICK f : Reaches(f, m - 1)
    BY <1>2
  <2> DEFINE y == G[m][f[m - 1]]
             g == [n \in 0..m |-> IF n = m THEN y ELSE f[n]]
  <2>2. m - 1 \in 0..m - 1 /\ f[m - 1] \in X
    BY <2>1
  <2>3. y \in X
    BY <2>2
  <2>4. g \in [0..m -> X]
    BY <2>1, <2>3
  <2>5. g[0] = x
    BY <2>1
  <2>6. ASSUME NEW n \in 1..m PROVE g[n] = G[n][g[n - 1]]
    <3>1. g[n - 1] = f[n - 1]
      OBVIOUS
    <3>2. CASE n = m
      BY <3>1, <3>2
    <3>3. CASE n # m
      <4>1. g[n] = f[n] /\ n \in 1..m - 1
        BY <3>3
      <4> QED
        BY <4>1, <3>1, <2>1
    <3> QED
      BY <3>2, <3>3
  <2> HIDE DEF g
  <2> QED
    BY <2>4, <2>5, <2>6
<1>3. L \in B
  <2>1. \A n \in 1..L : n - 1 \in B => n \in B
    BY <1>2
  <2>2. L \in 0..L
    OBVIOUS
  <2> HIDE DEF B
  <2> QED
    BY <1>1, <2>1, <2>2, UpTo
<1>4. PICK f : Reaches(f, L)
  BY <1>3
<1>5. f = [n \in 0..L |-> IF n = 0 THEN x ELSE G[n][f[n - 1]]]
  <2>1. \A n \in 0..L : f[n] = IF n = 0 THEN x ELSE G[n][f[n - 1]]
    BY <1>4
  <2> QED
    BY <1>4, <2>1
<1> QED
  BY <1>4, <1>5 DEF Recurs

------------------------------
(* Sums of bytes. *)

Weight(i) == IF i % 2 = 1 THEN 1 ELSE BASE

\* f has the sums of the first bytes of s.
SumsOf(f, s) ==
  /\ f \in [0..Len(s) -> Nat] /\ f[0] = 0
  /\ \A i \in 1..Len(s) : f[i] = f[i - 1] + Weight(i) * s[i]

\* One byte, weighed by its place, fits a word.
LEMMA WeighedIs ==
  ASSUME NEW i \in Int, NEW b \in Octets
  PROVE  Weight(i) * b \in 0..Ones
<1>1. PICK n \in Nat : n = BASE /\ n >= 2
  BY WordIs
<1>2. b \in 0..n - 1
  BY <1>1 DEF Octets
<1>3. n * b <= n * (n - 1) /\ n * b \in Nat
  BY <1>2
<1>4. n * (n - 1) <= n * n - 1
  BY <1>1
<1>5. Ones = n * n - 1
  BY <1>1, WordIs
<1>6. CASE i % 2 = 1
  <2>1. Weight(i) * b = b
    BY <1>2, <1>6 DEF Weight
  <2>2. b <= n * (n - 1)
    <3>1. 1 * (n - 1) <= n * (n - 1)
      BY <1>1
    <3> QED
      BY <1>2, <3>1
  <2> QED
    BY <1>2, <1>4, <1>5, <2>1, <2>2
<1>7. CASE i % 2 # 1
  <2>1. Weight(i) * b = n * b
    BY <1>1, <1>7 DEF Weight
  <2> QED
    BY <1>3, <1>4, <1>5, <2>1
<1> QED
  BY <1>6, <1>7

\* Octets are naturals, and so are those of a sequence.
LEMMA OctetsCount ==
  /\ Octets \subseteq Nat
  /\ \A s \in Seq(Octets) : s \in Seq(Nat)
<1>1. Octets \subseteq Nat
  BY WordIs DEF Octets
<1>2. ASSUME NEW s \in Seq(Octets) PROVE s \in Seq(Nat)
  <2>1. PICK n \in Nat : n = Len(s)
    BY LenProperties
  <2>2. \A i \in 1..n : s[i] \in Nat
    BY <1>1, <2>1, ElementOfSeq
  <2>3. s = [i \in 1..n |-> s[i]]
    BY <2>1, LenProperties
  <2>4. [i \in 1..n |-> s[i]] \in Seq(Nat)
    BY <2>2
  <2> QED
    BY <2>3, <2>4
<1> QED
  BY <1>1, <1>2

\* A weight is not zero.
LEMMA WeightIs ==
  ASSUME NEW i, NEW x \in Nat
  PROVE  Weight(i) * x \in Nat /\ (Weight(i) * x = 0 <=> x = 0)
<1>1. PICK y \in Nat : y = Weight(i) /\ y > 0
  BY WordIs DEF Weight
<1>2. y * x \in Nat /\ (y * x = 0 <=> x = 0)
  BY <1>1
<1> QED
  BY <1>1, <1>2

\* The sums of a sequence's first bytes, each weighed by its place, exist.
LEMMA SumsExist ==
  ASSUME NEW s \in Seq(Nat)
  PROVE  \E f : SumsOf(f, s)
<1>1. PICK L \in Nat : L = Len(s)
  BY LenProperties
<1>2. \A i \in 1..L : Weight(i) * s[i] \in Nat
  <2>1. \A i \in 1..L : s[i] \in Nat
    BY <1>1, ElementOfSeq
  <2> QED
    BY <2>1, WeightIs
<1> DEFINE G == [i \in 1..L |-> [n \in Nat |-> n + Weight(i) * s[i]]]
<1>3. G \in [1..L -> [Nat -> Nat]]
  <2>1. \A i \in 1..L : \A n \in Nat : n + Weight(i) * s[i] \in Nat
    BY <1>2
  <2> QED
    BY <2>1
<1>4. PICK f : Recurs(f, Nat, 0, L, G)
  <2> HIDE DEF G
  <2> QED
    BY <1>3, RecursExist
<1>5. \A i \in 1..L : f[i - 1] \in Nat /\ i \in 0..L /\ i - 1 \in 0..L /\ i # 0
  <2>1. f \in [0..L -> Nat]
    <3> HIDE DEF G
    <3> QED
      BY <1>4 DEF Recurs
  <2> QED
    BY <2>1
<1>6. \A i \in 1..L : G[i][f[i - 1]] = f[i - 1] + Weight(i) * s[i]
  BY <1>5
<1>7. f \in [0..L -> Nat] /\ f[0] = 0 /\ \A i \in 1..L : f[i] = G[i][f[i - 1]]
  <2> HIDE DEF G
  <2>1. f = [n \in 0..L |-> IF n = 0 THEN 0 ELSE G[n][f[n - 1]]] /\ f \in [0..L -> Nat]
    BY <1>4 DEF Recurs
  <2>2. \A n \in 0..L : f[n] = IF n = 0 THEN 0 ELSE G[n][f[n - 1]]
    BY <2>1
  <2> QED
    BY <2>1, <2>2, <1>5
<1> QED
  <2> HIDE DEF G
  <2>1. \A i \in 1..L : f[i] = f[i - 1] + Weight(i) * s[i]
    BY <1>6, <1>7
  <2>2. SumsOf(f, s)
    BY <1>1, <1>7, <2>1, Zenon DEF SumsOf
  <2> QED
    BY <2>2

\* The sum of words is that of bytes.
LEMMA WordsAre ==
  ASSUME NEW s \in Seq(Nat), NEW f, SumsOf(f, s)
  PROVE  /\ WordsTo(s) \in Nat
         /\ WordsTo(s) + (IF Len(s) % 2 = 1 THEN s[Len(s)] ELSE 0) = f[Len(s)]
<1>1. PICK L \in Nat : L = Len(s)
  BY LenProperties
<1>2. PICK b \in Nat : b = BASE
  BY WordIs
<1>3. \A i \in 1..L : s[i] \in Nat /\ b * s[i] \in Nat
  <2>1. \A i \in 1..L : s[i] \in Nat
    BY <1>1, ElementOfSeq
  <2>2. \A x \in Nat : b * x \in Nat
    OBVIOUS
  <2> QED
    BY <2>1, <2>2
<1> DEFINE Word(i) == s[i] + b * s[i + 1]
           P(w) == w = [i \in 0..L |-> IF i < 2 THEN 0 ELSE w[i - 2] + Word(i - 1)]
<1>4. \E w : P(w)
  <2> DEFINE X == Nat \X Nat
             New(n, x) == IF n < 2 THEN 0 ELSE x[2] + Word(n - 1)
             G == [n \in 1..L |-> [x \in X |-> <<New(n, x), x[1]>>]]
  <2>1. \A n \in 1..L : \A x \in X : <<New(n, x), x[1]>> \in X
    <3> SUFFICES ASSUME NEW n \in 1..L, NEW x \in X
                 PROVE  New(n, x) \in Nat /\ x[1] \in Nat
      OBVIOUS
    <3>1. n >= 2 => Word(n - 1) \in Nat
      <4>1. n >= 2 => n - 1 \in 1..L /\ (n - 1) + 1 \in 1..L
        OBVIOUS
      <4>2. n >= 2 => s[n - 1] \in Nat /\ b * s[(n - 1) + 1] \in Nat
        BY <1>3, <4>1
      <4>3. \A c, d \in Nat : c + d \in Nat
        OBVIOUS
      <4> HIDE DEF G, X, New
      <4> QED
        BY <4>2, <4>3
    <3> QED
      BY <3>1
  <2>2. G \in [1..L -> [X -> X]]
    BY <2>1
  <2>3. <<0, 0>> \in X
    OBVIOUS
  <2>4. PICK g : Recurs(g, X, <<0, 0>>, L, G)
    <3> HIDE DEF G, X
    <3> QED
      BY <2>2, <2>3, RecursExist
  <2>5. /\ g[0] = <<0, 0>>
        /\ \A n \in 1..L : g[n - 1] \in X /\ g[n] = <<New(n, g[n - 1]), g[n - 1][1]>>
    <3>1. /\ g \in [0..L -> X]
          /\ \A n \in 0..L : g[n] = IF n = 0 THEN <<0, 0>> ELSE G[n][g[n - 1]]
      <4> HIDE DEF G, X
      <4>1. /\ g \in [0..L -> X]
            /\ g = [n \in 0..L |-> IF n = 0 THEN <<0, 0>> ELSE G[n][g[n - 1]]]
        BY <2>4 DEF Recurs
      <4> QED
        BY <4>1
    <3>2. \A n \in 1..L : n \in 0..L /\ n - 1 \in 0..L /\ n # 0
      OBVIOUS
    <3>3. \A n \in 1..L : g[n - 1] \in X /\ g[n] = G[n][g[n - 1]]
      <4> HIDE DEF G, X
      <4> QED
        BY <3>1, <3>2
    <3>4. \A n \in 1..L : \A x \in X : G[n][x] = <<New(n, x), x[1]>>
      BY DEF G
    <3>5. g[0] = <<0, 0>>
      <4>1. 0 \in 0..L
        OBVIOUS
      <4> HIDE DEF G, X
      <4> QED
        BY <3>1, <4>1
    <3> HIDE DEF New, G, X
    <3> QED
      BY <3>3, <3>4, <3>5
  <2> DEFINE w == [n \in 0..L |-> g[n][1]]
  <2>6. \A n \in 1..L : g[n][2] = w[n - 1]
    BY <2>5
  <2>7. ASSUME NEW n \in 0..L
        PROVE  w[n] = IF n < 2 THEN 0 ELSE w[n - 2] + Word(n - 1)
    <3>1. CASE n = 0
      BY <2>5, <3>1
    <3>2. CASE n # 0
      <4>1. w[n] = New(n, g[n - 1])
        <5>1. n \in 1..L
          BY <3>2
        <5>2. g[n] = <<New(n, g[n - 1]), g[n - 1][1]>>
          BY <2>5, <5>1
        <5> HIDE DEF New, G, X
        <5>3. g[n][1] = New(n, g[n - 1])
          BY <5>2
        <5> QED
          BY <5>3
      <4>2. n >= 2 => n - 1 \in 1..L /\ g[n - 1][2] = w[n - 2]
        <5>1. n >= 2 => n - 1 \in 1..L /\ (n - 1) - 1 = n - 2
          OBVIOUS
        <5> HIDE DEF w
        <5> QED
          BY <2>6, <5>1
      <4> HIDE DEF w
      <4> QED
        BY <3>2, <4>1, <4>2
    <3> QED
      BY <3>1, <3>2
  <2>8. P(w)
    <3>1. w = [n \in 0..L |-> w[n]]
      OBVIOUS
    <3> HIDE DEF w
    <3> QED
      BY <2>7, <3>1
  <2> HIDE DEF w, P
  <2> QED
    BY <2>8
<1> DEFINE w == CHOOSE x : P(x)
<1>5. WordsTo(s) = w[L - (L % 2)]
  BY <1>1, <1>2 DEF WordsTo, WordAt
<1>6. P(w)
  <2> HIDE DEF P
  <2> QED
    BY <1>4
<1>7. \A i \in 0..L : w[i] = IF i < 2 THEN 0 ELSE w[i - 2] + Word(i - 1)
  <2> HIDE DEF w, Word
  <2> QED
    BY <1>6
<1> HIDE DEF w, P
<1>8. /\ f[0] = 0 /\ \A i \in 0..L : f[i] \in Nat
      /\ \A i \in 1..L : f[i] = f[i - 1] + Weight(i) * s[i]
  BY <1>1 DEF SumsOf
<1> DEFINE B == {n \in 0..L : w[n - (n % 2)] = f[n - (n % 2)]}
<1>9. 0 \in B
  BY <1>7, <1>8
<1>10. ASSUME NEW n \in 1..L, n - 1 \in B
       PROVE  n \in B
  <2>1. n - 1 \in Nat /\ n \in Nat /\ w[(n - 1) - ((n - 1) % 2)] = f[(n - 1) - ((n - 1) % 2)]
    BY <1>10
  <2>2. CASE n % 2 = 1
    <3>1. (n - 1) % 2 = 0
      BY <2>2
    <3>2. n - (n % 2) = (n - 1) - ((n - 1) % 2)
      BY <2>2, <3>1
    <3> QED
      BY <2>1, <3>2
  <2>3. CASE n % 2 # 1
    <3>1. n % 2 = 0 /\ (n - 1) % 2 = 1 /\ n >= 2
      BY <2>3
    <3>2. w[n - 2] = f[n - 2]
      <4>1. (n - 1) - ((n - 1) % 2) = n - 2
        BY <3>1
      <4> QED
        BY <2>1, <4>1
    <3>3. w[n] = f[n - 2] + (s[n - 1] + b * s[n])
      <4>1. n \in 0..L /\ ~(n < 2) /\ (n - 1) + 1 = n
        BY <3>1
      <4>2. Word(n - 1) = s[n - 1] + b * s[n]
        BY <4>1
      <4> HIDE DEF Word
      <4> QED
        BY <1>7, <3>2, <4>1, <4>2
    <3>4. f[n - 1] = f[n - 2] + s[n - 1]
      <4>1. n - 1 \in 1..L /\ (n - 1) - 1 = n - 2
        BY <3>1
      <4>2. Weight(n - 1) = 1
        BY <3>1 DEF Weight
      <4>3. f[n - 1] = f[n - 2] + Weight(n - 1) * s[n - 1]
        BY <1>8, <4>1
      <4>4. s[n - 1] \in Nat
        BY <1>3, <4>1
      <4> QED
        BY <4>2, <4>3, <4>4
    <3>5. f[n] = f[n - 1] + b * s[n]
      <4>1. Weight(n) = b
        BY <1>2, <2>3 DEF Weight
      <4> QED
        BY <1>8, <4>1
    <3>6. /\ n - 2 \in 0..L /\ f[n - 2] \in Nat /\ s[n - 1] \in Nat
          /\ b * s[n] \in Nat /\ n - 1 \in 1..L
      <4>1. n - 2 \in 0..L /\ n - 1 \in 1..L
        BY <3>1
      <4> QED
        BY <1>3, <1>8, <4>1
    <3>7. w[n] = f[n]
      <4>1. PICK x \in Nat, y \in Nat, z \in Nat :
              x = f[n - 2] /\ y = s[n - 1] /\ z = b * s[n]
        BY <3>6
      <4>2. w[n] = x + (y + z)
        BY <3>3, <4>1, Zenon
      <4>3. f[n] = (x + y) + z
        BY <3>4, <3>5, <4>1, Zenon
      <4>4. x + (y + z) = (x + y) + z
        OBVIOUS
      <4> QED
        BY <4>2, <4>3, <4>4, Zenon
    <3>8. n - (n % 2) = n
      BY <3>1
    <3> QED
      BY <3>7, <3>8
  <2> QED
    BY <2>2, <2>3
<1>11. w[L - (L % 2)] = f[L - (L % 2)]
  <2>1. \A n \in 0..L : n \in B
    <3> HIDE DEF B
    <3> QED
      BY <1>9, <1>10, UpTo
  <2>2. L \in 0..L
    OBVIOUS
  <2> QED
    BY <2>1, <2>2
<1>12. L - (L % 2) \in 0..L
  <2>1. L % 2 \in {0, 1} /\ (L % 2 = 1 => L >= 1)
    OBVIOUS
  <2> QED
    BY <2>1
<1>13. L % 2 = 1 => f[L] = f[L - 1] + s[L]
  <2>1. L % 2 = 1 => L \in 1..L /\ Weight(L) = 1
    BY DEF Weight
  <2>2. L % 2 = 1 => f[L] = f[L - 1] + 1 * s[L] /\ s[L] \in Nat
    BY <1>3, <1>8, <2>1
  <2> QED
    BY <2>2
<1>14. L % 2 \in {0, 1}
  OBVIOUS
<1> HIDE DEF B
<1>15. WordsTo(s) = f[L - (L % 2)] /\ f[L - (L % 2)] \in Nat
  BY <1>5, <1>8, <1>11, <1>12
<1>16. CASE L % 2 = 0
  <2>1. L - (L % 2) = L
    BY <1>16
  <2> QED
    BY <1>1, <1>15, <1>16, <2>1
<1>17. CASE L % 2 = 1
  <2>1. L - (L % 2) = L - 1
    BY <1>17
  <2> QED
    BY <1>1, <1>13, <1>15, <1>17, <2>1
<1> QED
  BY <1>14, <1>15, <1>16, <1>17

\* Sums do not get beyond 32 bits if lengths fit 16.
LEMMA SumsSmall ==
  ASSUME NEW s \in Seq(Octets), NEW f, SumsOf(f, s), Len(s) < WORD
  PROVE  /\ f[Len(s)] \in Nat /\ f[Len(s)] <= Len(s) * Ones
         /\ f[Len(s)] < WORD * WORD
<1>1. PICK L \in Nat : L = Len(s)
  BY LenProperties
<1>2. PICK m \in Nat : m = Ones /\ WORD = m + 1
  BY WordIs
<1>3. /\ f[0] = 0 /\ \A i \in 0..L : f[i] \in Nat
      /\ \A i \in 1..L : f[i] = f[i - 1] + Weight(i) * s[i]
  BY <1>1 DEF SumsOf
<1> DEFINE B == {n \in 0..L : f[n] <= n * m}
<1>4. 0 \in B
  BY <1>3
<1>5. ASSUME NEW n \in 1..L, n - 1 \in B PROVE n \in B
  <2>1. Weight(n) * s[n] \in 0..m
    <3>1. s[n] \in Octets
      BY <1>1, ElementOfSeq
    <3> QED
      BY <1>2, <3>1, WeighedIs
  <2>2. f[n - 1] <= (n - 1) * m /\ f[n - 1] \in Nat /\ f[n] = f[n - 1] + Weight(n) * s[n]
    BY <1>3, <1>5
  <2>3. (n - 1) * m + m = n * m
    OBVIOUS
  <2>4. PICK x \in 0..m : x = Weight(n) * s[n]
    BY <2>1
  <2>5. f[n] <= n * m
    BY <2>2, <2>3, <2>4
  <2> QED
    BY <2>5
<1>6. f[L] <= L * m
  <2>1. \A n \in 0..L : n \in B
    <3> HIDE DEF B
    <3> QED
      BY <1>4, <1>5, UpTo
  <2> QED
    BY <2>1
<1>7. L <= m
  BY <1>1, <1>2
<1>8. L * m <= m * m
  BY <1>7
<1>9. m * m < (m + 1) * (m + 1)
  OBVIOUS
<1>10. PICK x \in Nat : x = f[L]
  BY <1>3
<1>11. x < (m + 1) * (m + 1)
  <2>1. PICK y \in Nat, z \in Nat, v \in Nat :
          y = L * m /\ z = m * m /\ v = (m + 1) * (m + 1)
    OBVIOUS
  <2> QED
    BY <1>6, <1>8, <1>9, <1>10, <2>1
<1> QED
  BY <1>1, <1>2, <1>6, <1>10, <1>11

\* By what a sum counts that begins behind n bytes.
Shift(n) == IF n % 2 = 1 THEN BASE ELSE 1

\* An even number of bytes does not change sides.
LEMMA ShiftEven == \A n, m \in Nat : m % 2 = 0 => Shift(n + m) = Shift(n)
<1>1. \A n, m \in Nat : m % 2 = 0 => ((n + m) % 2 = 1 <=> n % 2 = 1)
  OBVIOUS
<1> QED
  BY <1>1 DEF Shift

\* Shifting twice changes nothing, and an odd number of bytes changes sides.
LEMMA ShiftIs ==
  ASSUME NEW n \in Nat, NEW x \in Int
  PROVE  /\ Shift(n) \in Nat /\ Same(Shift(n) * (Shift(n) * x), x)
         /\ \A m \in Nat : m % 2 = 1 => Same(Shift(n + m) * x, BASE * (Shift(n) * x))
<1>1. PICK b \in Nat : b = BASE
  BY WordIs
<1>2. CASE n % 2 = 1
  <2>1. Shift(n) = b
    BY <1>1, <1>2 DEF Shift
  <2>2. \A m \in Nat : (m % 2 = 0 => (n + m) % 2 = 1) /\ (m % 2 = 1 => (n + m) % 2 = 0)
    BY <1>2
  <2>3. \A m \in Nat : (m % 2 = 0 => Shift(n + m) = b) /\ (m % 2 = 1 => Shift(n + m) = 1)
    BY <1>1, <2>2 DEF Shift
  <2>4. Same(b * (b * x), x)
    BY <1>1, SameTwice
  <2>5. Same(x, b * (b * x))
    <3>1. b * (b * x) \in Int
      OBVIOUS
    <3> QED
      BY <2>4, <3>1, SameBack
  <2>6. 1 * x = x
    OBVIOUS
  <2> QED
    BY <1>1, <2>1, <2>3, <2>4, <2>5, <2>6
<1>3. CASE n % 2 # 1
  <2>1. Shift(n) = 1 /\ n % 2 = 0
    BY <1>3 DEF Shift
  <2>2. \A m \in Nat : (m % 2 = 0 => (n + m) % 2 = 0) /\ (m % 2 = 1 => (n + m) % 2 = 1)
    BY <2>1
  <2>3. \A m \in Nat : (m % 2 = 0 => Shift(n + m) = 1) /\ (m % 2 = 1 => Shift(n + m) = b)
    BY <1>1, <2>2 DEF Shift
  <2>4. 1 * x = x /\ 1 * (1 * x) = x /\ b * x \in Int
    OBVIOUS
  <2>5. Same(x, x) /\ Same(b * x, b * x)
    BY <2>4, SameSelf
  <2>6. Same(Shift(n) * (Shift(n) * x), x)
    BY <2>1, <2>4, <2>5
  <2>7. \A m \in Nat : m % 2 = 1 => Same(Shift(n + m) * x, BASE * (Shift(n) * x))
    <3> SUFFICES ASSUME NEW m \in Nat, m % 2 = 1
                 PROVE  Same(Shift(n + m) * x, BASE * (Shift(n) * x))
      OBVIOUS
    <3>1. Shift(n + m) * x = b * x /\ BASE * (Shift(n) * x) = b * x
      BY <1>1, <2>1, <2>3, <2>4
    <3> QED
      BY <2>5, <3>1
  <2> QED
    BY <2>1, <2>3, <2>6, <2>7
<1> QED
  BY <1>2, <1>3

\* A byte counts by its place in the packet as it does by that in its part.
LEMMA PlaceCounts ==
  ASSUME NEW n \in Nat, NEW j \in Nat, NEW x \in Nat
  PROVE  Same(Weight(n + j) * x, Shift(n) * (Weight(j) * x))
<1>1. PICK b \in Nat : b = BASE
  BY WordIs
<1>2. Same(x, b * (b * x)) /\ Same(x, x) /\ Same(b * x, b * x) /\ b * x \in Int
  <2>1. b * x \in Int /\ b * (b * x) \in Int
    OBVIOUS
  <2>2. Same(b * (b * x), x)
    BY <1>1, SameTwice
  <2> QED
    BY <2>1, <2>2, SameBack, SameSelf
<1>3. 1 * x = x /\ 1 * (1 * x) = x /\ 1 * (b * x) = b * x /\ b * (1 * x) = b * x
  BY <1>2
<1>4. CASE n % 2 = 1 /\ j % 2 = 1
  <2>1. (n + j) % 2 = 0
    BY <1>4
  <2> QED
    BY <1>1, <1>2, <1>3, <1>4, <2>1 DEF Weight, Shift
<1>5. CASE n % 2 = 1 /\ j % 2 # 1
  <2>1. (n + j) % 2 = 1
    BY <1>5
  <2> QED
    BY <1>1, <1>2, <1>3, <1>5, <2>1 DEF Weight, Shift
<1>6. CASE n % 2 # 1 /\ j % 2 = 1
  <2>1. (n + j) % 2 = 1
    BY <1>6
  <2> QED
    BY <1>1, <1>2, <1>3, <1>6, <2>1 DEF Weight, Shift
<1>7. CASE n % 2 # 1 /\ j % 2 # 1
  <2>1. (n + j) % 2 = 0
    BY <1>7
  <2> QED
    BY <1>1, <1>2, <1>3, <1>7, <2>1 DEF Weight, Shift
<1> QED
  BY <1>4, <1>5, <1>6, <1>7

\* What a part adds to the sum of a packet.
LEMMA PartCounts ==
  ASSUME NEW u \in Seq(Nat), NEW F, SumsOf(F, u),
         NEW s \in Seq(Nat), NEW f, SumsOf(f, s),
         NEW n \in Nat, n + Len(s) <= Len(u),
         \A j \in 1..Len(s) : u[n + j] = s[j]
  PROVE  Same(F[n + Len(s)], F[n] + Shift(n) * f[Len(s)])
<1>1. PICK L \in Nat : L = Len(s)
  BY LenProperties
<1>2. PICK K \in Nat : K = Len(u) /\ n + L <= K
  BY <1>1, LenProperties
<1>3. PICK t \in Nat : t = Shift(n)
  BY ShiftIs
<1>4. /\ f[0] = 0 /\ \A i \in 0..L : f[i] \in Nat
      /\ \A i \in 1..L : f[i] = f[i - 1] + Weight(i) * s[i]
  BY <1>1 DEF SumsOf
<1>5. /\ \A i \in 0..K : F[i] \in Nat
      /\ \A i \in 1..K : F[i] = F[i - 1] + Weight(i) * u[i]
  BY <1>2 DEF SumsOf
<1> DEFINE B == {j \in 0..L : Same(F[n + j], F[n] + t * f[j])}
<1>6. 0 \in B
  <2>1. F[n] \in Nat /\ n + 0 = n /\ F[n] + t * f[0] = F[n]
    BY <1>2, <1>4, <1>5
  <2>2. Same(F[n + 0], F[n] + t * f[0])
    BY <2>1, SameSelf
  <2> QED
    BY <2>2
<1>7. ASSUME NEW j \in 1..L, j - 1 \in B PROVE j \in B
  <2>1. PICK x \in Nat : x = s[j]
    <3>1. s[j] \in Nat
      BY <1>1, ElementOfSeq
    <3> QED
      BY <3>1
  <2>2. PICK y \in Nat : y = Weight(n + j) * x
    BY WeightIs
  <2>3. PICK z \in Nat : z = Weight(j) * x
    BY WeightIs
  <2>4. Same(y, t * z)
    <3>1. j \in Nat
      OBVIOUS
    <3>2. Same(Weight(n + j) * x, Shift(n) * (Weight(j) * x))
      BY <3>1, PlaceCounts
    <3> QED
      BY <1>3, <2>2, <2>3, <3>2
  <2>5. n + j \in 1..K /\ n + (j - 1) \in 0..K /\ (n + j) - 1 = n + (j - 1) /\ n \in 0..K
    BY <1>2
  <2>6. F[n + j] = F[n + (j - 1)] + y
    <3>1. F[n + j] = F[(n + j) - 1] + Weight(n + j) * u[n + j]
      BY <1>5, <2>5
    <3>2. u[n + j] = x
      BY <1>1, <2>1
    <3> QED
      BY <2>2, <2>5, <3>1, <3>2
  <2>7. f[j] = f[j - 1] + z /\ j - 1 \in 0..L
    BY <1>4, <2>1, <2>3
  <2>8. PICK g \in Nat, G \in Nat, a \in Nat :
          g = f[j - 1] /\ G = F[n + (j - 1)] /\ a = F[n]
    BY <1>4, <1>5, <2>5, <2>7
  <2>9. Same(G, a + t * g)
    BY <1>7, <2>8
  <2>10. Same(G + y, (a + t * g) + t * z)
    <3>1. a + t * g \in Nat /\ t * z \in Nat
      OBVIOUS
    <3> QED
      BY <2>4, <2>9, <3>1, SameSum
  <2>11. (a + t * g) + t * z = a + t * (g + z)
    OBVIOUS
  <2>12. Same(F[n + j], F[n] + t * f[j])
    BY <2>6, <2>7, <2>8, <2>10, <2>11
  <2> QED
    BY <2>12
<1>8. \A j \in 0..L : j \in B
  <2> HIDE DEF B
  <2> QED
    BY <1>6, <1>7, UpTo
<1>9. L \in 0..L
  OBVIOUS
<1> QED
  BY <1>1, <1>3, <1>8, <1>9

\* Two folds make a word of it.
LEMMA FoldedIs ==
  ASSUME NEW u \in Nat, u < WORD * WORD
  PROVE  /\ FOLD_U32T(FOLD_U32T(u)) \in 0..WORD - 1
         /\ Same(FOLD_U32T(FOLD_U32T(u)), u)
<1>1. PICK w \in Nat : w = WORD /\ w >= 4
  BY WordIs
<1>2. PICK x \in Nat : x = FOLD_U32T(u) /\ Same(x, u) /\ x <= 2 * w - 2
  BY <1>1, FoldIs
<1>3. PICK y \in Nat : y = FOLD_U32T(x) /\ Same(y, x) /\ y < w
  BY <1>1, <1>2, FoldIs
<1>4. Same(y, u)
  BY <1>2, <1>3, SameOn
<1>5. y \in 0..w - 1
  BY <1>3
<1> QED
  BY <1>1, <1>2, <1>3, <1>4, <1>5

\* The last byte of an odd number of them.
Last(s) == IF Len(s) % 2 = 1 THEN s[Len(s)] ELSE 0

LEMMA LastIs == \A s \in Seq(Nat) : Last(s) \in Nat
<1> SUFFICES ASSUME NEW s \in Seq(Nat) PROVE Last(s) \in Nat
  OBVIOUS
<1>1. PICK n \in Nat : n = Len(s)
  BY LenProperties
<1>2. CASE n % 2 = 1
  <2>1. n \in 1..n
    BY <1>2
  <2>2. s[n] \in Nat
    BY <1>1, <2>1, ElementOfSeq
  <2> QED
    BY <1>1, <1>2, <2>2 DEF Last
<1>3. CASE n % 2 # 1
  BY <1>1, <1>3 DEF Last
<1> QED
  BY <1>2, <1>3

\* The sum of a part of a packet at an even address.
LEMMA EvenStandard ==
  ASSUME NEW s \in Seq(Octets), NEW f, SumsOf(f, s), Len(s) < WORD
  PROVE  /\ lwip_standard_chksum(s, FALSE) \in 0..WORD - 1
         /\ Same(lwip_standard_chksum(s, FALSE), f[Len(s)])
<1>1. PICK w \in Nat : w = WORD /\ w >= 4
  BY WordIs
<1>2. PICK u \in Nat : u = f[Len(s)] /\ u < w * w
  BY <1>1, SumsSmall
<1>3. PICK last \in Nat : last = Last(s)
  BY OctetsCount, LastIs
<1>4. WordsTo(s) + (0 + last) = u
  <2>1. WordsTo(s) \in Nat /\ WordsTo(s) + last = u
    BY <1>2, <1>3, OctetsCount, WordsAre DEF Last
  <2> QED
    BY <2>1
<1>5. PICK y \in 0..WORD - 1 : y = FOLD_U32T(FOLD_U32T(u)) /\ Same(y, u)
  BY <1>1, <1>2, FoldedIs
<1>6. lwip_standard_chksum(s, FALSE) = y % w
  BY <1>1, <1>3, <1>4, <1>5 DEF lwip_standard_chksum, Last
<1>7. y % w = y
  <2>1. y \in 0..w - 1
    BY <1>1, <1>5
  <2> QED
    BY <1>1, <2>1
<1>8. lwip_standard_chksum(s, FALSE) = y
  BY <1>6, <1>7, Zenon
<1> QED
  BY <1>2, <1>5, <1>8

\* Behind its first byte, a part at an odd address is at an even one.
LEMMA OddSum ==
  ASSUME NEW s \in Seq(Octets), NEW f, SumsOf(f, s), Len(s) < WORD, s # <<>>
  PROVE  \E u \in Nat : /\ u = WordsTo(Tail(s)) + (BASE * s[1] + Last(Tail(s)))
                        /\ u < WORD * WORD /\ Same(BASE * u, f[Len(s)])
<1>1. PICK L \in Nat : L = Len(s) /\ L >= 1
  BY EmptySeq
<1>2. PICK r : r = Tail(s)
  OBVIOUS
<1>3. r \in Seq(Octets) /\ Len(r) = L - 1 /\ \A j \in 1..L - 1 : s[1 + j] = r[j]
  BY <1>1, <1>2, HeadTailProperties
<1>4. PICK g : SumsOf(g, r)
  BY <1>3, OctetsCount, SumsExist
<1>5. PICK b \in Nat, m \in Nat : b = BASE /\ m = Ones /\ b > 0 /\ WORD = m + 1
  BY WordIs
<1>6. PICK x \in Nat : x = s[1] /\ x \in Octets
  <2>1. 1 \in 1..Len(s)
    BY <1>1
  <2>2. s[1] \in Octets
    BY <2>1, ElementOfSeq
  <2> QED
    BY <2>2, OctetsCount
<1>7. PICK last \in Nat, words \in Nat, e \in Nat :
        /\ last = Last(r) /\ words = WordsTo(r) /\ e = g[Len(r)] /\ words + last = e
  <2>1. Last(r) \in Nat /\ WordsTo(r) \in Nat /\ WordsTo(r) + Last(r) = g[Len(r)]
    BY <1>3, <1>4, OctetsCount, LastIs, WordsAre DEF Last
  <2> QED
    BY <2>1
<1>8. PICK h \in Nat : h = b * x /\ h <= m
  <2>1. b * x \in 0..m
    <3>1. Weight(2) * x \in 0..Ones
      <4>1. 2 \in Int
        OBVIOUS
      <4> QED
        BY <1>6, <4>1, WeighedIs, Zenon
    <3>2. Weight(2) = b
      BY <1>5 DEF Weight
    <3> QED
      BY <1>5, <3>1, <3>2
  <2> QED
    BY <2>1
<1>9. PICK u \in Nat : u = words + (h + last) /\ u = e + h
  <2>1. words + last = e
    BY <1>7
  <2>2. e + h \in Nat /\ e + h = words + (h + last)
    BY <2>1
  <2> QED
    BY <2>2
<1>10. u < WORD * WORD
  <2>1. e <= (L - 1) * m
    <3>1. Len(r) < WORD
      BY <1>1, <1>3, <1>5
    <3>2. g[Len(r)] <= Len(r) * Ones
      BY <1>3, <1>4, <3>1, SumsSmall
    <3> QED
      BY <1>3, <1>5, <1>7, <3>2
  <2>2. (L - 1) * m + m = L * m
    OBVIOUS
  <2>3. L * m <= m * m
    <3>1. L <= m
      BY <1>1, <1>5
    <3> QED
      BY <3>1
  <2>4. m * m < (m + 1) * (m + 1)
    OBVIOUS
  <2>5. PICK y \in Int, z \in Int, v \in Int, t \in Int :
          y = (L - 1) * m /\ z = L * m /\ v = m * m /\ t = (m + 1) * (m + 1)
    OBVIOUS
  <2>6. u < t
    BY <1>8, <1>9, <2>1, <2>2, <2>3, <2>4, <2>5
  <2> QED
    BY <1>5, <2>5, <2>6
<1>11. Same(b * u, f[L])
  <2>1. PICK y \in Nat : y = f[L]
    BY <1>1 DEF SumsOf
  <2>2. f[1] = x
    <3>1. 1 \in 1..L /\ f[0] = 0 /\ f[1] = f[1 - 1] + Weight(1) * s[1]
      BY <1>1 DEF SumsOf
    <3>2. Weight(1) = 1
      BY DEF Weight
    <3> QED
      BY <1>6, <3>1, <3>2
  <2>3. Shift(1) = b
    BY <1>5 DEF Shift
  <2>4. Same(y, x + b * e)
    <3>1. 1 + Len(r) = L /\ 1 + Len(r) <= Len(s)
      BY <1>1, <1>3
    <3>2. \A j \in 1..Len(r) : s[1 + j] = r[j]
      BY <1>3
    <3>3. Same(f[1 + Len(r)], f[1] + Shift(1) * g[Len(r)])
      BY <1>3, <1>4, <3>1, <3>2, OctetsCount, PartCounts
    <3> QED
      BY <1>7, <2>1, <2>2, <2>3, <3>1, <3>3
  <2>5. PICK p \in Nat, q \in Nat : p = b * e /\ q = b * h
    OBVIOUS
  <2>6. Same(q, x)
    BY <1>5, <1>8, <2>5, SameTwice
  <2>7. Same(q + p, x + p)
    <3>1. Same(p, p)
      BY SameSelf
    <3> QED
      BY <2>6, <3>1, SameSum
  <2>8. Same(x + p, y)
    BY <2>1, <2>4, <2>5, SameBack
  <2>9. b * u = q + p
    <3>1. b * (e + h) = b * e + b * h
      OBVIOUS
    <3> QED
      BY <1>9, <2>5, <3>1
  <2> QED
    BY <2>1, <2>7, <2>8, <2>9, SameOn
<1> QED
  BY <1>1, <1>2, <1>5, <1>6, <1>7, <1>8, <1>9, <1>10, <1>11

\* lwip_standard_chksum of bytes at an odd address, which adds the first one
\* apart and swaps at the end, is the sum of the bytes by their places.
LEMMA OddStandard ==
  ASSUME NEW s \in Seq(Octets), NEW f, SumsOf(f, s), Len(s) < WORD
  PROVE  /\ lwip_standard_chksum(s, TRUE) \in 0..WORD - 1
         /\ Same(lwip_standard_chksum(s, TRUE), f[Len(s)])
<1>1. PICK w \in Nat : w = WORD /\ w >= 4
  BY WordIs
<1>2. PICK v \in Nat : v = f[Len(s)]
  BY SumsSmall
<1>3. PICK b \in Nat : b = BASE /\ b > 0
  BY WordIs
<1>4. PICK u \in Nat :
        /\ u < WORD * WORD /\ Same(b * u, v)
        /\ lwip_standard_chksum(s, TRUE)
             = SWAP_BYTES_IN_WORD(FOLD_U32T(FOLD_U32T(u))) % WORD
  <2>1. CASE s = <<>>
    <3>1. Len(s) = 0
      BY <2>1
    <3>2. v = 0
      BY <1>2, <3>1 DEF SumsOf
    <3>3. WordsTo(s) = 0
      <4>1. WordsTo(s) \in Nat /\ WordsTo(s) + (IF Len(s) % 2 = 1 THEN s[Len(s)] ELSE 0) = 0
        BY <1>2, <3>2, OctetsCount, WordsAre
      <4> QED
        BY <3>1, <4>1
    <3>4. WordsTo(s) + (0 + 0) = 0
      BY <3>3
    <3>5. lwip_standard_chksum(s, TRUE) = SWAP_BYTES_IN_WORD(FOLD_U32T(FOLD_U32T(0))) % WORD
      BY <2>1, <3>1, <3>4 DEF lwip_standard_chksum
    <3>6. 0 < WORD * WORD /\ b * 0 = 0
      <4>1. 0 < w * w
        BY <1>1
      <4> QED
        BY <1>1, <4>1
    <3>7. Same(b * 0, v)
      BY <3>2, <3>6, SameSelf
    <3> QED
      BY <3>5, <3>6, <3>7
  <2>2. CASE s # <<>>
    <3>1. PICK u \in Nat : /\ u = WordsTo(Tail(s)) + (BASE * s[1] + Last(Tail(s)))
                           /\ u < WORD * WORD /\ Same(BASE * u, v)
      BY <1>2, <2>2, OddSum
    <3>2. lwip_standard_chksum(s, TRUE) = SWAP_BYTES_IN_WORD(FOLD_U32T(FOLD_U32T(u))) % WORD
      BY <2>2, <3>1 DEF lwip_standard_chksum, Last
    <3> QED
      BY <1>3, <3>1, <3>2
  <2> QED
    BY <2>1, <2>2
<1>5. PICK y \in 0..WORD - 1 : y = FOLD_U32T(FOLD_U32T(u)) /\ Same(y, u)
  BY <1>4, FoldedIs
<1>6. PICK z \in 0..WORD - 1 : z = SWAP_BYTES_IN_WORD(y) /\ Same(z, b * y)
  BY <1>3, SwapSame
<1>7. y \in Nat /\ z \in Nat /\ z % w = z
  <2>1. y \in 0..w - 1 /\ z \in 0..w - 1
    BY <1>1
  <2> QED
    BY <1>1, <2>1
<1>8. Same(z, v)
  <2>1. b * y \in Int /\ b * u \in Int
    BY <1>7
  <2>2. Same(b * y, b * u)
    BY <1>3, <1>5, <1>7, SameTimes
  <2>3. Same(z, b * u)
    BY <1>6, <1>7, <2>1, <2>2, SameOn
  <2> QED
    BY <1>4, <1>7, <2>1, <2>3, SameOn
<1>9. lwip_standard_chksum(s, TRUE) = z
  BY <1>1, <1>4, <1>5, <1>6, <1>7, Zenon
<1> QED
  BY <1>2, <1>8, <1>9

\* lwip_standard_chksum sums the bytes by their places, wherever they lie.
LEMMA StandardIs ==
  ASSUME NEW s \in Seq(Octets), NEW f, SumsOf(f, s), Len(s) < WORD, NEW odd \in BOOLEAN
  PROVE  /\ lwip_standard_chksum(s, odd) \in 0..WORD - 1
         /\ Same(lwip_standard_chksum(s, odd), f[Len(s)])
<1>1. CASE odd = TRUE
  BY <1>1, OddStandard, Zenon
<1>2. CASE odd = FALSE
  BY <1>2, EvenStandard, Zenon
<1> QED
  BY <1>1, <1>2, Zenon

------------------------------
(* Sums over the parts of a packet. *)

\* segs are the parts of a packet with bytes u; part k ends behind byte at[k].
Cut(segs, u, at) ==
  /\ u \in Seq(Octets) /\ Len(segs) \in Nat /\ at \in [0..Len(segs) -> Nat]
  /\ at[0] = 0 /\ at[Len(segs)] = Len(u)
  /\ \A k \in 1..Len(segs) :
       /\ segs[k].bytes \in Seq(Octets) /\ segs[k].odd \in BOOLEAN
       /\ at[k] = at[k - 1] + Len(segs[k].bytes)
       /\ \A j \in 1..Len(segs[k].bytes) : segs[k].bytes[j] = u[at[k - 1] + j]

\* A cut into segments ends within the bytes it cuts.
LEMMA CutEnds ==
  ASSUME NEW segs, NEW u, NEW at, Cut(segs, u, at)
  PROVE  \A k \in 0..Len(segs) : at[k] <= Len(u)
<1>1. PICK n \in Nat : n = Len(segs)
  BY DEF Cut
<1>2. /\ \A k \in 0..n : at[k] \in Nat
      /\ at[n] = Len(u)
      /\ \A k \in 1..n : at[k - 1] <= at[k]
  <2>1. \A k \in 1..n : Len(segs[k].bytes) \in Nat
    BY <1>1, LenProperties DEF Cut
  <2>2. \A k \in 0..n : at[k] \in Nat
    BY <1>1 DEF Cut
  <2>3. at[n] = Len(u) /\ \A k \in 1..n : at[k] = at[k - 1] + Len(segs[k].bytes)
    BY <1>1 DEF Cut
  <2>4. ASSUME NEW k \in 1..n PROVE at[k - 1] <= at[k]
    <3>1. k - 1 \in 0..n /\ at[k] = at[k - 1] + Len(segs[k].bytes)
      BY <2>3
    <3>2. at[k - 1] \in Nat /\ Len(segs[k].bytes) \in Nat
      BY <2>1, <2>2, <3>1
    <3> QED
      BY <3>1, <3>2
  <2> QED
    BY <2>2, <2>3, <2>4
<1> DEFINE B == {i \in 0..n : at[n - i] <= Len(u)}
<1>3. 0 \in B
  BY <1>2
<1>4. ASSUME NEW i \in 1..n, i - 1 \in B PROVE i \in B
  <2>1. n - (i - 1) \in 1..n /\ (n - (i - 1)) - 1 = n - i /\ n - i \in 0..n
    OBVIOUS
  <2>2. at[n - i] <= at[n - (i - 1)] /\ at[n - (i - 1)] <= at[n]
    BY <1>2, <1>4, <2>1
  <2>3. at[n - i] <= at[n]
    <3>1. at[n - i] \in Nat /\ at[n - (i - 1)] \in Nat /\ at[n] \in Nat
      BY <1>2, <2>1
    <3> QED
      BY <2>2, <3>1
  <2> QED
    BY <1>2, <2>3
<1>5. \A i \in 0..n : i \in B
  <2> HIDE DEF B
  <2> QED
    BY <1>3, <1>4, UpTo
<1>6. ASSUME NEW k \in 0..n PROVE at[k] <= Len(u)
  <2>1. n - k \in 0..n /\ n - (n - k) = k
    OBVIOUS
  <2>2. n - k \in B
    BY <1>5, <2>1
  <2> QED
    BY <2>1, <2>2
<1> QED
  BY <1>1, <1>6

\* The segments of a packet are as long together as its bytes.
LEMMA TotalLengthIs ==
  ASSUME NEW segs, NEW u, NEW at, Cut(segs, u, at)
  PROVE  TotalLength(segs) = Len(u)
<1>1. PICK n \in Nat : n = Len(segs)
  BY DEF Cut
<1>2. /\ at \in [0..n -> Nat] /\ at[0] = 0 /\ at[n] = Len(u)
      /\ \A k \in 1..n : at[k] = at[k - 1] + Len(segs[k].bytes)
      /\ \A k \in 1..n : Len(segs[k].bytes) \in Nat
  <2>1. \A k \in 1..n : Len(segs[k].bytes) \in Nat
    BY <1>1, LenProperties DEF Cut
  <2> QED
    BY <1>1, <2>1 DEF Cut
<1> DEFINE P(g) == g = [k \in 0..n |-> IF k = 0 THEN 0 ELSE g[k - 1] + Len(segs[k].bytes)]
           g == CHOOSE x : P(x)
<1>3. P(at)
  <2>1. \A k \in 0..n : at[k] = IF k = 0 THEN 0 ELSE at[k - 1] + Len(segs[k].bytes)
    BY <1>2
  <2>2. at = [k \in 0..n |-> at[k]]
    BY <1>2
  <2> QED
    BY <2>1, <2>2
<1>4. P(g)
  <2> HIDE DEF P
  <2> QED
    BY <1>3
<1>5. TotalLength(segs) = g[n]
  BY <1>1 DEF TotalLength
<1>6. \A k \in 0..n : g[k] = IF k = 0 THEN 0 ELSE g[k - 1] + Len(segs[k].bytes)
  <2> HIDE DEF g
  <2> QED
    BY <1>4
<1> HIDE DEF g
<1> DEFINE B == {k \in 0..n : g[k] = at[k]}
<1>7. 0 \in B
  BY <1>2, <1>6
<1>8. \A k \in 1..n : k - 1 \in B => k \in B
  BY <1>2, <1>6
<1>9. \A k \in 0..n : k \in B
  <2> HIDE DEF B
  <2> QED
    BY <1>7, <1>8, UpTo
<1> QED
  BY <1>2, <1>5, <1>9

\* The other side of a word.
Other(z) == IF z = 1 THEN BASE ELSE 1

\* A part with sum g joins the sum e of what is before it, whose bytes are on
\* side z of their words.
LEMMA PartJoins ==
  ASSUME NEW e \in 0..WORD - 1, NEW c \in 0..WORD - 1, NEW L \in Nat,
         NEW x \in Nat, NEW y \in Nat, NEW g \in Nat, NEW z \in {1, BASE},
         Same(e, z * x), Same(c, g), Same(y, x + z * g),
         NEW v, v = Swap(FOLD_U32T(e + c), L)
  PROVE  /\ v \in 0..WORD - 1
         /\ Same(v, (IF L % 2 = 0 THEN z ELSE Other(z)) * y)
<1>1. PICK b \in Nat : b = BASE /\ b > 1
  BY WordIs
<1>2. PICK w \in Nat : w = WORD /\ w >= 4
  BY WordIs
<1>3. /\ e \in Nat /\ c \in Nat /\ z \in Nat /\ z > 0 /\ e + c \in Nat
      /\ e + c <= 2 * w - 2
  <2>1. e \in 0..w - 1 /\ c \in 0..w - 1 /\ z \in {1, b}
    BY <1>1, <1>2
  <2> QED
    BY <1>1, <1>2, <2>1
<1>4. PICK p \in Nat, q \in Nat, r \in Nat : p = z * x /\ q = z * (z * g) /\ r = z * y
  BY <1>3
<1>5. Same(r, p + g)
  <2>1. Same(q, g)
    <3>1. CASE z = 1
      <4>1. z * (z * g) = g
        BY <3>1
      <4> QED
        BY <1>4, <4>1, SameSelf
    <3>2. CASE z = BASE
      BY <1>4, <3>2, SameTwice
    <3> QED
      BY <3>1, <3>2
  <2>2. z * (x + z * g) = p + q
    <3>1. z * (x + z * g) = z * x + z * (z * g)
      BY <1>3
    <3> QED
      BY <1>4, <3>1
  <2>3. Same(r, p + q)
    <3>1. x + z * g \in Int /\ y \in Int
      BY <1>3
    <3>2. Same(z * y, z * (x + z * g))
      BY <1>3, <3>1, SameTimes
    <3> QED
      BY <1>4, <2>2, <3>2
  <2>4. Same(p + q, p + g)
    <3>1. Same(p, p)
      BY SameSelf
    <3> QED
      BY <2>1, <3>1, SameSum
  <2> QED
    BY <2>3, <2>4, SameOn
<1>6. PICK t \in Nat : t = FOLD_U32T(e + c) /\ t < w /\ Same(t, e + c)
  BY <1>2, <1>3, FoldIs
<1>7. Same(t, r)
  <2>1. Same(e + c, p + g)
    BY <1>3, <1>4, SameSum
  <2>2. Same(t, p + g)
    BY <1>3, <1>6, <2>1, SameOn
  <2>3. Same(p + g, r)
    BY <1>5, SameBack
  <2> QED
    BY <2>2, <2>3, SameOn
<1>8. v = Swap(t, L)
  BY <1>6
<1>9. t \in 0..WORD - 1
  BY <1>2, <1>6
<1>10. CASE L % 2 = 0
  <2>1. v = t
    BY <1>8, <1>10 DEF Swap
  <2> QED
    BY <1>4, <1>7, <1>9, <1>10, <2>1
<1>11. CASE L % 2 # 0
  <2>1. v = SWAP_BYTES_IN_WORD(t)
    BY <1>8, <1>11 DEF Swap
  <2>2. v \in 0..WORD - 1 /\ Same(v, b * t)
    BY <1>1, <1>9, <2>1, SwapSame
  <2>3. b * t \in Int /\ b * r \in Int /\ v \in Int
    <3>1. v \in 0..w - 1
      BY <1>2, <2>2
    <3> QED
      BY <3>1
  <2>4. Same(b * t, b * r)
    BY <1>1, <1>7, SameTimes
  <2>5. Same(v, b * r)
    BY <2>2, <2>3, <2>4, SameOn
  <2>6. Same(b * r, Other(z) * y) /\ Other(z) * y \in Int
    <3>1. CASE z = 1
      <4>1. Other(z) = b /\ r = y
        BY <1>1, <1>4, <3>1 DEF Other
      <4> QED
        BY <2>3, <4>1, SameSelf
    <3>2. CASE z = BASE
      <4>1. Other(z) * y = y
        BY <1>1, <3>2 DEF Other
      <4>2. r = BASE * y
        BY <1>4, <3>2
      <4> QED
        BY <1>1, <4>1, <4>2, SameTwice
    <3> QED
      BY <3>1, <3>2
  <2>7. Same(v, Other(z) * y)
    BY <2>3, <2>5, <2>6, SameOn
  <2> QED
    BY <1>11, <2>2, <2>7
<1> QED
  BY <1>10, <1>11

\* By what the sum counts.
Side(swapped) == IF swapped THEN BASE ELSE 1

\* The two sides of a word, and how an odd number of bytes exchanges them.
LEMMA SideIs ==
  /\ \A s \in BOOLEAN : Side(s) \in {1, BASE} /\ Side(s) \in Nat /\ Side(~s) = Other(Side(s))
  /\ \A n : Shift(n) \in {1, BASE} /\ Shift(n) \in Nat
  /\ \A n, m \in Nat : m % 2 # 0 => Shift(n + m) = Other(Shift(n))
<1>1. BASE \in Nat /\ BASE # 1
  BY WordIs
<1>2. \A s \in BOOLEAN : Side(s) \in {1, BASE} /\ Side(s) \in Nat /\ Side(~s) = Other(Side(s))
  BY <1>1 DEF Side, Other
<1>3. \A n : Shift(n) \in {1, BASE} /\ Shift(n) \in Nat
  BY <1>1 DEF Shift
<1>4. ASSUME NEW n \in Nat, NEW m \in Nat, m % 2 # 0
      PROVE  Shift(n + m) = Other(Shift(n))
  <2>1. (n + m) % 2 = 1 <=> n % 2 # 1
    BY <1>4
  <2> QED
    BY <1>1, <2>1 DEF Shift, Other
<1> QED
  BY <1>2, <1>3, <1>4

Low(l, m) == IF l < m THEN l ELSE m

\* The sum of the first n bytes of a packet of which count bytes are summed,
\* from base on; F are the sums of the packet.
Summed(a, base, F, count, n) ==
  LET m == Low(n, count)
  IN  /\ a.left = count - m
      /\ Same(a.acc, Side(a.swapped) * (base + F[m]))
      /\ n < count => Side(a.swapped) = Shift(n)

States == [acc : 0..WORD - 1, left : Nat, swapped : BOOLEAN]

\* What the loop makes of the state a, of a part of L bytes whose sum is c.
Added(a, c, L) ==
  [acc |-> Swap(FOLD_U32T(a.acc + c), L), left |-> a.left - Low(L, a.left),
   swapped |-> a.swapped # (L % 2 # 0)]

\* Adding the sum of a segment to the accumulated one leaves a sum and a side.
LEMMA AddedType ==
  ASSUME NEW a \in States, NEW c \in 0..WORD - 1, NEW L \in Nat
  PROVE  Added(a, c, L) \in States
<1>1. PICK w \in Nat : w = WORD /\ w >= 4
  BY WordIs
<1>2. PICK e \in Nat : e = a.acc /\ e <= w - 1
  BY <1>1 DEF States
<1>3. c \in Nat /\ c <= w - 1
  BY <1>1
<1>4. PICK v \in Nat : v = FOLD_U32T(e + c) /\ v < w
  <2>1. e + c \in Nat /\ e + c <= 2 * w - 2
    BY <1>2, <1>3
  <2> QED
    BY <1>1, <2>1, FoldIs
<1>5. v \in 0..WORD - 1
  BY <1>1, <1>4
<1>6. PICK x \in 0..WORD - 1 : x = Swap(FOLD_U32T(a.acc + c), L)
  BY <1>2, <1>4, <1>5, SwapSame DEF Swap
<1>7. PICK y \in Nat : y = a.left - Low(L, a.left)
  <2>1. a.left \in Nat
    BY DEF States
  <2> QED
    BY <2>1 DEF Low
<1>8. PICK z \in BOOLEAN : z = (a.swapped # (L % 2 # 0))
  OBVIOUS
<1>9. Added(a, c, L) = [acc |-> x, left |-> y, swapped |-> z]
  BY <1>6, <1>7, <1>8, Zenon DEF Added
<1>10. [acc |-> x, left |-> y, swapped |-> z] \in States
  BY DEF States
<1> QED
  BY <1>9, <1>10

\* The loop goes on behind byte n over a part s of the packet.
LEMMA PartSummed ==
  ASSUME NEW u \in Seq(Octets), NEW F, SumsOf(F, u), Len(u) < WORD,
         NEW count \in Nat, count <= Len(u), NEW base \in Nat,
         NEW s \in Seq(Octets), NEW n \in Nat, n + Len(s) <= Len(u),
         \A j \in 1..Len(s) : u[n + j] = s[j],
         NEW a \in States, Summed(a, base, F, count, n), a.left # 0,
         NEW t, t = SubSeq(s, 1, Low(Len(s), a.left)),
         NEW f, SumsOf(f, t), NEW c \in 0..WORD - 1, Same(c, f[Len(t)])
  PROVE  Summed(Added(a, c, Len(s)), base, F, count, n + Len(s))
<1>1. PICK L \in Nat, K \in Nat : L = Len(s) /\ K = Len(u) /\ n + L <= K
  BY LenProperties
<1>2. PICK left \in Nat, l \in Nat : left = a.left /\ l = Low(L, left) /\ l <= L /\ l <= left
  <2>1. PICK left \in Nat : left = a.left
    BY DEF States
  <2>2. PICK l \in Nat : l = Low(L, left) /\ l <= L /\ l <= left
    BY DEF Low
  <2> QED
    BY <2>1, <2>2
<1>3. n < count /\ left = count - n /\ Low(n, count) = n
  <2>1. left = count - Low(n, count)
    BY <1>2 DEF Summed
  <2> QED
    BY <1>2, <2>1 DEF Low
<1>4. t \in Seq(Octets) /\ Len(t) = l /\ \A j \in 1..l : t[j] = s[j]
  <2>1. t = SubSeq(s, 1, l) /\ l <= Len(s)
    BY <1>1, <1>2
  <2>3. /\ t \in Seq(Octets) /\ Len(t) = IF 1 <= l THEN l - 1 + 1 ELSE 0
        /\ \A j \in 1..l - 1 + 1 : t[j] = s[1 + j - 1]
    BY <2>1, <1>1, <1>2, SubSeqProperties
  <2>4. Len(t) = l
    BY <2>3
  <2>5. \A j \in 1..l : j \in 1..l - 1 + 1 /\ 1 + j - 1 = j
    OBVIOUS
  <2>6. \A j \in 1..l : t[j] = s[j]
    BY <2>3, <2>5
  <2> QED
    BY <2>3, <2>4, <2>6
<1>5. PICK g \in Nat : g = f[l]
  BY <1>4 DEF SumsOf
<1>6. PICK z \in {1, BASE} : z = Side(a.swapped) /\ z = Shift(n)
  <2>1. Side(a.swapped) = Shift(n)
    BY <1>3 DEF Summed
  <2> QED
    BY <2>1, SideIs
<1>7. PICK x \in Nat, y \in Nat : x = base + F[n] /\ y = base + F[n + l]
  <2>1. n \in 0..Len(u) /\ n + l \in 0..Len(u)
    BY <1>1, <1>2
  <2>2. F[n] \in Nat /\ F[n + l] \in Nat
    BY <2>1 DEF SumsOf
  <2>3. \A k \in Nat : base + k \in Nat
    OBVIOUS
  <2> QED
    BY <2>2, <2>3
<1>8. Same(y, x + z * g)
  <2>1. Same(F[n + Len(t)], F[n] + Shift(n) * f[Len(t)])
    <3>1. n + Len(t) <= Len(u) /\ \A j \in 1..Len(t) : u[n + j] = t[j]
      <4>1. \A j \in 1..l : j \in 1..Len(s)
        BY <1>1, <1>2
      <4>2. \A j \in 1..l : u[n + j] = t[j]
        BY <1>4, <4>1
      <4>3. n + l <= Len(u)
        BY <1>1, <1>2
      <4> QED
        BY <1>4, <4>2, <4>3, Zenon
    <3> QED
      BY <1>4, <3>1, OctetsCount, PartCounts
  <2>2. PICK p \in Nat, q \in Nat, r \in Nat : p = F[n] /\ q = F[n + l] /\ r = z * g
    <3>1. n \in 0..Len(u) /\ n + l \in 0..Len(u)
      BY <1>1, <1>2
    <3>2. F[n] \in Nat /\ F[n + l] \in Nat
      BY <3>1 DEF SumsOf
    <3>3. z * g \in Nat
      <4>1. z \in Nat
        BY <1>6, SideIs
      <4> QED
        BY <4>1
    <3> QED
      BY <3>2, <3>3
  <2>3. Same(q, p + r)
    BY <1>4, <1>5, <1>6, <2>1, <2>2
  <2>4. Same(base + q, base + (p + r))
    <3>1. Same(base, base)
      BY SameSelf
    <3> QED
      BY <2>3, <3>1, SameSum
  <2>5. y = base + q /\ x + r = base + (p + r)
    <3>1. y = base + q /\ x = base + p
      BY <1>7, <2>2, Zenon
    <3>2. (base + p) + r = base + (p + r)
      OBVIOUS
    <3> QED
      BY <3>1, <3>2, Zenon
  <2> QED
    BY <2>2, <2>4, <2>5
<1>9. PICK e \in 0..WORD - 1 : e = a.acc /\ Same(e, z * x)
  <2>1. Same(a.acc, z * x)
    BY <1>3, <1>6, <1>7 DEF Summed
  <2>2. a.acc \in 0..WORD - 1
    BY DEF States
  <2> QED
    BY <2>1, <2>2
<1>10. PICK v : v = Swap(FOLD_U32T(e + c), L)
  OBVIOUS
<1>11. Same(v, (IF L % 2 = 0 THEN z ELSE Other(z)) * y)
  <2>1. Same(c, g)
    BY <1>4, <1>5
  <2> QED
    BY <1>8, <1>9, <1>10, <2>1, PartJoins
<1>12. PICK d : d = Added(a, c, L)
  OBVIOUS
<1>13. d.acc = v /\ d.left = left - l
  BY <1>2, <1>9, <1>10, <1>12 DEF Added
<1>14. Side(d.swapped) = IF L % 2 = 0 THEN z ELSE Other(z)
  <2>1. a.swapped \in BOOLEAN
    BY DEF States
  <2>2. d.swapped = (a.swapped # (L % 2 # 0))
    BY <1>12 DEF Added
  <2>3. CASE L % 2 = 0
    <3>1. d.swapped = a.swapped
      BY <2>1, <2>2, <2>3
    <3> QED
      BY <1>6, <2>3, <3>1
  <2>4. CASE L % 2 # 0
    <3>1. d.swapped = ~a.swapped
      BY <2>1, <2>2, <2>4
    <3> QED
      BY <1>6, <2>1, <2>4, <3>1, SideIs
  <2> QED
    BY <2>3, <2>4
<1>15. Low(n + L, count) = n + l /\ left - l = count - (n + l)
  BY <1>2, <1>3 DEF Low
<1>16. n + L < count => Side(d.swapped) = Shift(n + L)
  <2>1. L % 2 = 0 => Shift(n + L) = z
    BY <1>6, ShiftEven
  <2>2. L % 2 # 0 => Shift(n + L) = Other(z)
    BY <1>6, SideIs
  <2> QED
    BY <1>14, <2>1, <2>2
<1>17. Same(d.acc, Side(d.swapped) * (base + F[Low(n + L, count)]))
  BY <1>7, <1>11, <1>13, <1>14, <1>15
<1> QED
  BY <1>1, <1>12, <1>13, <1>15, <1>16, <1>17 DEF Summed

\* The loop over the parts makes the sum of the bytes that count.
LEMMA AccumulateIs ==
  ASSUME NEW segs, NEW u, NEW at, Cut(segs, u, at), Len(u) < WORD,
         NEW F, SumsOf(F, u), NEW base \in 0..WORD - 1, NEW count \in 0..Len(u)
  PROVE  /\ Accumulate(segs, count, base) \in 0..WORD - 1
         /\ Same(Accumulate(segs, count, base), base + F[count])
<1>1. PICK n \in Nat : n = Len(segs)
  BY DEF Cut
<1>2. PICK K \in Nat : K = Len(u) /\ count \in Nat /\ count <= K
  BY LenProperties DEF Cut
<1>3. /\ u \in Seq(Octets) /\ at \in [0..n -> Nat] /\ at[0] = 0 /\ at[n] = K
      /\ \A k \in 1..n : /\ segs[k].bytes \in Seq(Octets) /\ segs[k].odd \in BOOLEAN
                         /\ at[k] = at[k - 1] + Len(segs[k].bytes)
                         /\ \A j \in 1..Len(segs[k].bytes) :
                              segs[k].bytes[j] = u[at[k - 1] + j]
  BY <1>1, <1>2 DEF Cut
<1>4. \A k \in 0..n : at[k] \in Nat /\ at[k] <= K
  <2>1. \A k \in 0..n : at[k] <= Len(u)
    BY <1>1, CutEnds
  <2> QED
    BY <1>2, <1>3, <2>1
<1>5. base \in Nat
  BY WordIs
<1> DEFINE Bs(k) == segs[k].bytes
           Taken(a, k) == SubSeq(Bs(k), 1, Low(Len(Bs(k)), a.left))
           Chk(a, k) == lwip_standard_chksum(Taken(a, k), segs[k].odd)
           Step(a, k) == IF a.left = 0 THEN a ELSE Added(a, Chk(a, k), Len(Bs(k)))
           first == [acc |-> base, left |-> count, swapped |-> FALSE]
           P(g) == g = [k \in 0..n |-> IF k = 0 THEN first ELSE Step(g[k - 1], k)]
           g == CHOOSE x : P(x)
<1>6. Accumulate(segs, count, base)
        = IF g[n].swapped THEN SWAP_BYTES_IN_WORD(g[n].acc) ELSE g[n].acc
  BY <1>1 DEF Accumulate, Added, Low
<1>7. \A k \in 1..n : Len(Bs(k)) \in Nat /\ Len(Bs(k)) <= K
  <2> SUFFICES ASSUME NEW k \in 1..n PROVE Len(Bs(k)) \in Nat /\ Len(Bs(k)) <= K
    OBVIOUS
  <2>1. Len(Bs(k)) \in Nat
    BY <1>3, LenProperties
  <2>2. k - 1 \in 0..n /\ k \in 0..n
    OBVIOUS
  <2>3. at[k] = at[k - 1] + Len(Bs(k))
    BY <1>3
  <2> HIDE DEF Bs
  <2> QED
    BY <1>4, <2>1, <2>2, <2>3
<1>8. ASSUME NEW a \in States, NEW k \in 1..n
      PROVE  /\ Chk(a, k) \in 0..WORD - 1
             /\ \E f : SumsOf(f, Taken(a, k)) /\ Same(Chk(a, k), f[Len(Taken(a, k))])
  <2>1. PICK l \in Nat : l = Low(Len(Bs(k)), a.left) /\ l <= Len(Bs(k))
    <3>1. a.left \in Nat
      BY DEF States
    <3> HIDE DEF Bs
    <3> QED
      BY <1>7, <3>1 DEF Low
  <2>2. PICK s : s = Taken(a, k)
    OBVIOUS
  <2>3. s \in Seq(Octets) /\ Len(s) = l
    <3>1. PICK q : q = Bs(k)
      OBVIOUS
    <3>2. q \in Seq(Octets) /\ Len(q) \in Nat /\ l <= Len(q) /\ s = SubSeq(q, 1, l)
      BY <1>3, <1>7, <2>1, <2>2, <3>1
    <3>3. /\ SubSeq(q, 1, l) \in Seq(Octets)
          /\ Len(SubSeq(q, 1, l)) = IF 1 <= l THEN l - 1 + 1 ELSE 0
      BY <3>2, SubSeqProperties
    <3> QED
      BY <3>2, <3>3
  <2>4. Len(s) < WORD
    <3>1. PICK w \in Nat : w = WORD
      BY WordIs
    <3> HIDE DEF Bs
    <3> QED
      BY <1>2, <1>7, <2>1, <2>3, <3>1
  <2>5. PICK odd \in BOOLEAN : odd = segs[k].odd
    BY <1>3
  <2>6. PICK f : SumsOf(f, s)
    BY <2>3, OctetsCount, SumsExist
  <2>7. /\ lwip_standard_chksum(s, odd) \in 0..WORD - 1
        /\ Same(lwip_standard_chksum(s, odd), f[Len(s)])
    BY <2>3, <2>4, <2>6, StandardIs
  <2>8. Chk(a, k) = lwip_standard_chksum(s, odd)
    BY <2>2, <2>5, Zenon
  <2> HIDE DEF Taken, Chk
  <2> QED
    BY <2>2, <2>6, <2>7, <2>8, Zenon
<1>9. ASSUME NEW a \in States, NEW k \in 1..n
      PROVE  Step(a, k) \in States
  <2>1. Chk(a, k) \in 0..WORD - 1 /\ Len(Bs(k)) \in Nat
    BY <1>7, <1>8
  <2> HIDE DEF Chk, Bs
  <2> QED
    BY <2>1, AddedType
<1>10. first \in States
  <2>1. base \in 0..WORD - 1 /\ count \in Nat
    BY <1>2
  <2> QED
    BY <2>1 DEF States
<1>11. \E x : P(x)
  <2> DEFINE G == [k \in 1..n |-> [a \in States |-> Step(a, k)]]
  <2>1. G \in [1..n -> [States -> States]]
    <3> HIDE DEF Step
    <3> QED
      BY <1>9
  <2>2. PICK x : Recurs(x, States, first, n, G)
    <3> HIDE DEF G, first
    <3> QED
      BY <1>10, <2>1, RecursExist
  <2> HIDE DEF first, Step
  <2>3. /\ x \in [0..n -> States]
        /\ x = [k \in 0..n |-> IF k = 0 THEN first ELSE G[k][x[k - 1]]]
    <3> HIDE DEF G
    <3> QED
      BY <2>2 DEF Recurs
  <2>4. \A k \in 0..n : k # 0 => k \in 1..n /\ x[k - 1] \in States
    <3>1. \A k \in 0..n : k # 0 => k \in 1..n /\ k - 1 \in 0..n
      OBVIOUS
    <3>2. \A k \in 0..n : x[k] \in States
      BY <2>3, Zenon
    <3> QED
      BY <3>1, <3>2
  <2>5. \A k \in 0..n : k # 0 => G[k][x[k - 1]] = Step(x[k - 1], k)
    BY <2>4
  <2>6. x = [k \in 0..n |-> IF k = 0 THEN first ELSE Step(x[k - 1], k)]
    <3> HIDE DEF G
    <3> QED
      BY <2>3, <2>5
  <2> QED
    BY <2>6
<1>12. P(g)
  <2> HIDE DEF P
  <2> QED
    BY <1>11
<1>13. \A k \in 0..n : g[k] = IF k = 0 THEN first ELSE Step(g[k - 1], k)
  <2> HIDE DEF g, Step, first
  <2> QED
    BY <1>12
<1> HIDE DEF g
<1> DEFINE Right(k) == g[k] \in States /\ Summed(g[k], base, F, count, at[k])
           B == {k \in 0..n : Right(k)}
<1>14. 0 \in B
  <2>1. g[0] = first
    <3>1. 0 \in 0..n
      OBVIOUS
    <3> HIDE DEF Step, first
    <3> QED
      BY <1>13, <3>1
  <2>2. Summed(first, base, F, count, 0)
    <3>1. Low(0, count) = 0
      BY <1>2 DEF Low
    <3>2. PICK e \in Nat : e = base
      BY <1>5
    <3>3. 1 * (e + 0) = e /\ count - 0 = count
      BY <1>2
    <3>4. F[0] = 0 /\ Same(e, e)
      BY SameSelf DEF SumsOf
    <3>5. Side(FALSE) = 1 /\ Shift(0) = 1
      BY DEF Side, Shift
    <3>6. first.acc = base /\ first.left = count /\ Side(first.swapped) = 1
      BY <3>5
    <3> HIDE DEF first
    <3> QED
      BY <3>1, <3>2, <3>3, <3>4, <3>5, <3>6 DEF Summed
  <2> HIDE DEF first
  <2> QED
    BY <1>3, <1>10, <2>1, <2>2
<1>15. ASSUME NEW k \in 1..n, k - 1 \in B PROVE k \in B
  <2>1. PICK a \in States : a = g[k - 1]
    BY <1>15
  <2>2. PICK m \in Nat : m = at[k - 1] /\ m <= K
    <3>1. k - 1 \in 0..n
      OBVIOUS
    <3> QED
      BY <1>4, <3>1
  <2>3. Summed(a, base, F, count, m)
    BY <1>15, <2>1, <2>2
  <2>4. PICK s : s = Bs(k)
    OBVIOUS
  <2>5. PICK L \in Nat : L = Len(s)
    BY <1>7, <2>4
  <2>6. /\ s \in Seq(Octets) /\ m + L <= K /\ at[k] = m + L
        /\ \A j \in 1..L : u[m + j] = s[j]
    <3>1. at[k] = m + L /\ s \in Seq(Octets) /\ \A j \in 1..L : u[m + j] = s[j]
      BY <1>3, <2>2, <2>4, <2>5
    <3>2. at[k] <= K
      BY <1>4
    <3> QED
      BY <3>1, <3>2
  <2>7. g[k] = Step(a, k)
    <3>1. k \in 0..n /\ k # 0
      OBVIOUS
    <3> HIDE DEF Step
    <3> QED
      BY <1>13, <2>1, <3>1
  <2>8. g[k] \in States
    <3> HIDE DEF Step
    <3> QED
      BY <1>9, <2>1, <2>7
  <2>9. CASE a.left = 0
    <3>1. g[k] = a
      BY <2>7, <2>9
    <3>2. Low(m, count) = count /\ ~(m < count)
      <4>1. a.left = count - Low(m, count)
        BY <2>3 DEF Summed
      <4> QED
        BY <1>2, <2>9, <4>1 DEF Low
    <3>3. Low(m + L, count) = count /\ ~(m + L < count)
      BY <1>2, <3>2 DEF Low
    <3>4. Summed(a, base, F, count, m + L)
      BY <2>3, <3>2, <3>3 DEF Summed
    <3> QED
      BY <2>6, <2>8, <3>1, <3>4
  <2>10. CASE a.left # 0
    <3>1. PICK t : t = Taken(a, k)
      OBVIOUS
    <3>2. PICK c \in 0..WORD - 1 :
            c = Chk(a, k) /\ \E f : SumsOf(f, t) /\ Same(c, f[Len(t)])
      <4> HIDE DEF Chk, Taken
      <4> QED
        BY <1>8, <3>1
    <3>3. PICK f : SumsOf(f, t) /\ Same(c, f[Len(t)])
      BY <3>2
    <3>4. t = SubSeq(s, 1, Low(Len(s), a.left))
      BY <2>4, <3>1
    <3>5. Summed(Added(a, c, Len(s)), base, F, count, m + Len(s))
      <4>1. count \in Nat /\ count <= Len(u) /\ m + Len(s) <= Len(u)
        BY <1>2, <2>5, <2>6
      <4>2. \A j \in 1..Len(s) : u[m + j] = s[j]
        BY <2>5, <2>6
      <4> QED
        BY <1>3, <1>5, <2>3, <2>6, <2>10, <3>4, <3>3, <4>1, <4>2, PartSummed
    <3>6. g[k] = Added(a, c, Len(s))
      <4> HIDE DEF Chk
      <4> QED
        BY <2>4, <2>7, <2>10, <3>2
    <3> QED
      BY <2>5, <2>6, <2>8, <3>5, <3>6
  <2> QED
    BY <2>9, <2>10
<1>16. \A k \in 0..n : k \in B
  <2> HIDE DEF B
  <2> QED
    BY <1>14, <1>15, UpTo
<1>17. PICK e \in States : e = g[n] /\ Summed(e, base, F, count, K)
  <2>1. n \in B
    BY <1>16
  <2> QED
    BY <1>3, <2>1
<1>18. PICK y \in Nat : y = base + F[count]
  <2>1. F[count] \in Nat
    BY DEF SumsOf
  <2>2. \A i \in Nat : base + i \in Nat
    BY <1>5
  <2> QED
    BY <2>1, <2>2
<1>19. Same(e.acc, Side(e.swapped) * y)
  <2>1. Low(K, count) = count
    BY <1>2 DEF Low
  <2> QED
    BY <1>17, <1>18, <2>1 DEF Summed
<1>20. e.acc \in 0..WORD - 1 /\ e.acc \in Nat
  <2>1. e.acc \in 0..WORD - 1
    BY DEF States
  <2>2. PICK w \in Nat : w = WORD
    BY WordIs
  <2> QED
    BY <2>1, <2>2
<1>21. CASE e.swapped
  <2>1. PICK z : z = SWAP_BYTES_IN_WORD(e.acc)
    OBVIOUS
  <2>2. Accumulate(segs, count, base) = z
    BY <1>6, <1>17, <1>21, <2>1
  <2>3. PICK b \in Nat : b = BASE /\ b > 0
    BY WordIs
  <2>4. z \in 0..WORD - 1 /\ Same(z, b * e.acc)
    BY <1>20, <2>1, <2>3, SwapSame
  <2>5. Same(e.acc, b * y)
    BY <1>19, <1>21, <2>3 DEF Side
  <2>6. b * e.acc \in Int /\ b * (b * y) \in Int /\ b * y \in Int /\ z \in Int
    <3>1. z \in Int
      BY <2>4, WordIs
    <3> QED
      BY <1>20, <3>1
  <2>7. Same(b * e.acc, b * (b * y))
    <3>1. PICK v \in Nat, p \in Nat : v = e.acc /\ p = b * y
      BY <1>20
    <3>2. Same(v, p)
      BY <2>5, <3>1
    <3>3. Same(b * v, b * p)
      BY <2>3, <3>2, SameTimes
    <3> QED
      BY <3>1, <3>3
  <2>8. Same(b * (b * y), y)
    BY <2>3, SameTwice
  <2>9. Same(z, b * (b * y))
    BY <2>4, <2>6, <2>7, SameOn
  <2>10. Same(z, y)
    BY <2>6, <2>8, <2>9, SameOn
  <2> QED
    BY <1>18, <2>2, <2>4, <2>10
<1>22. CASE ~e.swapped
  <2>1. Accumulate(segs, count, base) = e.acc
    BY <1>6, <1>17, <1>22
  <2>2. Side(e.swapped) * y = y
    BY <1>22 DEF Side
  <2> QED
    BY <1>18, <1>19, <1>20, <2>1, <2>2
<1> QED
  BY <1>21, <1>22

------------------------------
(* The checksums are the reference. *)

\* The complement of what is the same as the sum is the reference checksum.
LEMMA ReferenceIs ==
  ASSUME NEW s \in Seq(Nat), NEW f, SumsOf(f, s),
         NEW x \in 0..WORD - 1, Same(x, f[Len(s)])
  PROVE  WORD - 1 - x = Reference(s)
<1>1. PICK n \in Nat : n = f[Len(s)]
  <2>1. Len(s) \in Nat
    BY LenProperties
  <2> QED
    BY <2>1 DEF SumsOf
<1>2. WordsTo(s) + (IF Len(s) % 2 = 1 THEN s[Len(s)] ELSE 0) = n
  BY <1>1, WordsAre
<1>3. x = IF n = 0 THEN 0 ELSE ((n - 1) % (WORD - 1)) + 1
  BY <1>1, SameIs
<1>4. OnesSum(s) = x
  BY <1>2, <1>3, Zenon DEF OnesSum
<1> QED
  BY <1>4, Zenon DEF Reference

LEMMA WordRest == \A x \in 0..WORD - 1 : x % WORD = x
<1>1. PICK w \in Nat : w = WORD /\ w > 0
  BY WordIs
<1>2. \A x \in 0..w - 1 : x % w = x
  BY <1>1
<1> QED
  BY <1>1, <1>2

\* inet_chksum_pbuf computes the reference checksum of the packet's bytes.
LEMMA PacketSum ==
  ASSUME NEW segs, NEW u, NEW at, Cut(segs, u, at), Len(u) < WORD
  PROVE  inet_chksum_pbuf(segs) = Reference(u)
<1>1. u \in Seq(Octets)
  BY DEF Cut
<1>2. PICK F : SumsOf(F, u)
  BY <1>1, OctetsCount, SumsExist
<1>3. PICK K \in Nat : K = Len(u)
  BY <1>1, LenProperties
<1>4. PICK y \in Nat : y = F[K]
  BY <1>2, <1>3 DEF SumsOf
<1>5. PICK x \in 0..WORD - 1 : x = Accumulate(segs, K, 0) /\ Same(x, y)
  <2>1. K \in 0..Len(u) /\ 0 \in 0..WORD - 1 /\ 0 + y = y
    BY <1>3, WordIs
  <2>2. /\ Accumulate(segs, K, 0) \in 0..WORD - 1
        /\ Same(Accumulate(segs, K, 0), 0 + F[K])
    BY <1>2, <2>1, AccumulateIs
  <2> QED
    BY <1>4, <2>1, <2>2
<1>6. inet_chksum_pbuf(segs) = WORD - 1 - x
  <2>1. TotalLength(segs) = K
    BY <1>3, TotalLengthIs
  <2>2. x % WORD = x
    BY WordRest
  <2> QED
    BY <1>5, <2>1, <2>2, Zenon DEF inet_chksum_pbuf
<1>7. WORD - 1 - x = Reference(u)
  BY <1>1, <1>2, <1>3, <1>4, <1>5, OctetsCount, ReferenceIs
<1> QED
  BY <1>6, <1>7, Zenon

\* Behind an even number of bytes the rest counts as it does by itself.
LEMMA EvenJoined ==
  ASSUME NEW h \in Seq(Nat), NEW s \in Seq(Nat), Len(h) % 2 = 0,
         NEW e, SumsOf(e, h), NEW f, SumsOf(f, s), NEW g, SumsOf(g, h \o s)
  PROVE  Same(g[Len(h \o s)], e[Len(h)] + f[Len(s)])
<1>1. PICK m \in Nat, n \in Nat : m = Len(h) /\ n = Len(s)
  BY LenProperties
<1>2. PICK w \in Seq(Nat) : /\ w = h \o s /\ Len(w) = m + n
                            /\ \A i \in 1..m : w[i] = h[i]
                            /\ \A i \in 1..n : w[m + i] = s[i]
  <2>1. PICK w : w = h \o s
    OBVIOUS
  <2>2. w \in Seq(Nat) /\ Len(w) = m + n
    BY <1>1, <2>1, ConcatProperties
  <2>3. \A i \in 1..m + n : w[i] = IF i <= m THEN h[i] ELSE s[i - m]
    BY <1>1, <2>1, <2>2, ConcatProperties
  <2>4. \A i \in 1..m : i \in 1..m + n /\ i <= m
    OBVIOUS
  <2>5. \A i \in 1..n : m + i \in 1..m + n /\ ~(m + i <= m) /\ (m + i) - m = i
    OBVIOUS
  <2>6. \A i \in 1..m : w[i] = h[i]
    BY <2>3, <2>4
  <2>7. \A i \in 1..n : w[m + i] = s[i]
    BY <2>3, <2>5
  <2> QED
    BY <2>1, <2>2, <2>6, <2>7
<1>3. PICK a \in Nat, b \in Nat, c \in Nat, d \in Nat :
        a = e[m] /\ b = f[n] /\ c = g[m] /\ d = g[m + n]
  <2>1. m \in 0..Len(h) /\ n \in 0..Len(s) /\ m \in 0..Len(w) /\ m + n \in 0..Len(w)
    BY <1>1, <1>2
  <2>2. e[m] \in Nat /\ f[n] \in Nat /\ g[m] \in Nat /\ g[m + n] \in Nat
    BY <1>2, <2>1 DEF SumsOf
  <2> QED
    BY <2>2
<1>4. SumsOf(g, w) /\ g[0] = 0
  BY <1>2 DEF SumsOf
<1>5. Shift(0) = 1 /\ Shift(m) = 1
  BY <1>1 DEF Shift
<1>6. Same(c, a)
  <2>1. 0 + Len(h) = m /\ 0 + Len(h) <= Len(w)
    BY <1>1, <1>2
  <2>2. \A i \in 1..Len(h) : w[0 + i] = h[i]
    <3>1. \A i \in 1..m : 0 + i = i
      OBVIOUS
    <3> QED
      BY <1>1, <1>2, <3>1
  <2>3. Same(g[0 + Len(h)], g[0] + Shift(0) * e[Len(h)])
    BY <1>4, <2>1, <2>2, PartCounts
  <2>4. 0 + 1 * a = a
    OBVIOUS
  <2> QED
    BY <1>1, <1>3, <1>4, <1>5, <2>1, <2>3, <2>4
<1>7. Same(d, c + b)
  <2>1. m + Len(s) <= Len(w) /\ \A i \in 1..Len(s) : w[m + i] = s[i]
    BY <1>1, <1>2
  <2>2. Same(g[m + Len(s)], g[m] + Shift(m) * f[Len(s)])
    BY <1>4, <2>1, PartCounts
  <2>3. 1 * b = b
    OBVIOUS
  <2> QED
    BY <1>1, <1>3, <1>5, <2>2, <2>3
<1>8. Same(c + b, a + b)
  <2>1. Same(b, b)
    BY SameSelf
  <2> QED
    BY <1>6, <2>1, SameSum
<1>9. Same(d, a + b)
  BY <1>7, <1>8, SameOn
<1> QED
  BY <1>1, <1>2, <1>3, <1>9

\* The protocol and the length in a pseudo header.
LEMMA FieldsSum ==
  ASSUME NEW p \in Nat, NEW q \in Nat
  PROVE  LET h == <<0, p, 0, q>>
         IN  /\ h \in Seq(Nat) /\ Len(h) = 4
             /\ \A e : SumsOf(e, h) => e[4] = BASE * p + BASE * q
<1>1. PICK h : h = <<0, p, 0, q>>
  OBVIOUS
<1>2. h \in Seq(Nat) /\ Len(h) = 4 /\ h[1] = 0 /\ h[2] = p /\ h[3] = 0 /\ h[4] = q
  BY <1>1
<1>3. ASSUME NEW e, SumsOf(e, h) PROVE e[4] = BASE * p + BASE * q
  <2>1. PICK b \in Nat, x \in Nat, y \in Nat : b = BASE /\ x = b * p /\ y = b * q
    BY WordIs
  <2>2. Weight(1) = 1 /\ Weight(2) = b /\ Weight(3) = 1 /\ Weight(4) = b
    BY <2>1 DEF Weight
  <2>3. /\ e[0] = 0 /\ e[1] = e[0] + Weight(1) * h[1]
        /\ e[2] = e[1] + Weight(2) * h[2] /\ e[3] = e[2] + Weight(3) * h[3]
        /\ e[4] = e[3] + Weight(4) * h[4]
    <3>1. /\ e[0] = 0
          /\ \A i \in 1..4 : e[i] = e[i - 1] + Weight(i) * h[i]
      BY <1>2, <1>3 DEF SumsOf
    <3>2. /\ 1 \in 1..4 /\ 2 \in 1..4 /\ 3 \in 1..4 /\ 4 \in 1..4
          /\ 1 - 1 = 0 /\ 2 - 1 = 1 /\ 3 - 1 = 2 /\ 4 - 1 = 3
      OBVIOUS
    <3> QED
      BY <3>1, <3>2
  <2>4. e[1] = 0 /\ e[2] = x
    BY <1>2, <2>1, <2>2, <2>3
  <2>5. e[3] = x
    BY <1>2, <2>2, <2>3, <2>4
  <2>6. e[4] = x + y
    BY <1>2, <2>1, <2>2, <2>3, <2>5
  <2> QED
    BY <2>1, <2>6
<1> QED
  BY <1>1, <1>2, <1>3

\* A checksum with a pseudo header: addr, then a protocol and a length.
LEMMA PseudoSum ==
  ASSUME NEW segs, NEW u, NEW at, Cut(segs, u, at), Len(u) < WORD,
         NEW n \in 0..Len(u), NEW p \in 0..WORD - 1, NEW q \in 0..WORD - 1,
         NEW addr \in Seq(Octets), Len(addr) < WORD, Len(addr) % 2 = 0
  PROVE  inet_chksum_pseudo_partial(segs, p, q, n, addr)
           = Reference((addr \o <<0, p, 0, q>>) \o SubSeq(u, 1, n))
<1>1. u \in Seq(Octets) /\ u \in Seq(Nat) /\ addr \in Seq(Nat)
  BY OctetsCount DEF Cut
<1>2. PICK w \in Nat, b \in Nat : w = WORD /\ w >= 4 /\ b = BASE
  BY WordIs
<1>3. n \in Nat /\ n <= Len(u) /\ p \in Nat /\ q \in Nat
  <2>1. p \in 0..w - 1 /\ q \in 0..w - 1
    BY <1>2
  <2> QED
    BY <1>1, <2>1, LenProperties
<1>4. PICK F : SumsOf(F, u)
  BY <1>1, SumsExist
<1>5. PICK A : SumsOf(A, addr)
  BY <1>1, SumsExist
<1>6. PICK a \in Nat : a = A[Len(addr)]
  BY <1>5, SumsSmall
<1>7. PICK base \in 0..WORD - 1 : base = FOLD_U32T(FOLD_U32T(WordsTo(addr))) /\ Same(base, a)
  <2>1. WordsTo(addr) = a
    <3>1. /\ WordsTo(addr) \in Nat
          /\ WordsTo(addr) + (IF Len(addr) % 2 = 1 THEN addr[Len(addr)] ELSE 0) = a
      BY <1>1, <1>5, <1>6, WordsAre
    <3> QED
      BY <3>1
  <2>2. a < WORD * WORD
    BY <1>5, <1>6, SumsSmall
  <2> QED
    BY <2>1, <2>2, FoldedIs
<1>8. PICK f \in Nat : f = F[n]
  BY <1>4 DEF SumsOf
<1>9. PICK c \in 0..WORD - 1 : c = Accumulate(segs, n, base) /\ Same(c, base + f)
  BY <1>4, <1>8, AccumulateIs
<1>10. PICK x \in 0..WORD - 1 : x = lwip_htons(p) /\ Same(x, b * p)
  BY <1>2, SwapSame DEF lwip_htons
<1>11. PICK y \in 0..WORD - 1 : y = lwip_htons(q) /\ Same(y, b * q)
  BY <1>2, SwapSame DEF lwip_htons
<1>12. PICK bp \in Nat, bq \in Nat : bp = b * p /\ bq = b * q
  BY <1>3
<1>13. base \in Nat /\ c \in Nat /\ x \in Nat /\ y \in Nat /\ (c + x) + y < WORD * WORD
  <2>1. base \in 0..w - 1 /\ c \in 0..w - 1 /\ x \in 0..w - 1 /\ y \in 0..w - 1
    BY <1>2
  <2>2. 4 * w <= w * w
    BY <1>2
  <2>3. PICK v \in Nat : v = w * w
    OBVIOUS
  <2>4. (c + x) + y < v
    BY <2>1, <2>2, <2>3
  <2> QED
    BY <1>2, <2>1, <2>3, <2>4
<1>14. Same((c + x) + y, (a + (bp + bq)) + f)
  <2>1. Same(base + f, a + f)
    <3>1. Same(f, f)
      BY SameSelf
    <3> QED
      BY <1>7, <1>13, <3>1, SameSum
  <2>2. Same(c, a + f)
    BY <1>9, <1>13, <2>1, SameOn
  <2>3. Same(c + x, (a + f) + bp)
    BY <1>10, <1>12, <1>13, <2>2, SameSum
  <2>4. Same((c + x) + y, ((a + f) + bp) + bq)
    <3>1. PICK i \in Nat, j \in Nat : i = c + x /\ j = (a + f) + bp
      BY <1>13
    <3>2. Same(i + y, j + bq)
      BY <1>11, <1>12, <1>13, <2>3, <3>1, SameSum
    <3> QED
      BY <3>1, <3>2
  <2>5. ((a + f) + bp) + bq = (a + (bp + bq)) + f
    OBVIOUS
  <2> QED
    BY <2>4, <2>5
<1>15. PICK z \in 0..WORD - 1 :
         z = FOLD_U32T(FOLD_U32T((c + x) + y)) /\ Same(z, (c + x) + y)
  BY <1>13, FoldedIs
<1>16. inet_chksum_pseudo_partial(segs, p, q, n, addr) = WORD - 1 - z
  <2>1. z % WORD = z
    BY WordRest
  <2> QED
    BY <1>7, <1>9, <1>10, <1>11, <1>15, <2>1, Zenon DEF inet_chksum_pseudo_partial
\* The sum of what the reference is of.
<1>17. PICK h : h = <<0, p, 0, q>>
  OBVIOUS
<1>18. h \in Seq(Nat) /\ Len(h) = 4
  BY <1>3, <1>17, FieldsSum
<1>19. PICK e : SumsOf(e, h) /\ e[4] = bp + bq
  <2>1. PICK e : SumsOf(e, h)
    BY <1>18, SumsExist
  <2>2. e[4] = BASE * p + BASE * q
    BY <1>3, <1>17, <2>1, FieldsSum
  <2> QED
    BY <1>2, <1>12, <2>1, <2>2
<1>20. PICK t : t = SubSeq(u, 1, n)
  OBVIOUS
<1>21. t \in Seq(Nat) /\ Len(t) = n /\ \A i \in 1..n : t[i] = u[i]
  <2>1. /\ t \in Seq(Nat) /\ Len(t) = IF 1 <= n THEN n - 1 + 1 ELSE 0
        /\ \A i \in 1..n - 1 + 1 : t[i] = u[1 + i - 1]
    BY <1>1, <1>3, <1>20, SubSeqProperties
  <2>2. \A i \in 1..n : i \in 1..n - 1 + 1 /\ 1 + i - 1 = i
    BY <1>3
  <2>3. Len(t) = n
    BY <1>3, <2>1
  <2> QED
    BY <2>1, <2>2, <2>3
<1>22. PICK T : SumsOf(T, t)
  BY <1>21, SumsExist
<1>23. PICK k \in Nat : k = T[n] /\ Same(f, k)
  <2>1. T[n] \in Nat
    BY <1>3, <1>21, <1>22 DEF SumsOf
  <2>2. 0 + Len(t) <= Len(u) /\ \A i \in 1..Len(t) : u[0 + i] = t[i]
    <3>1. \A i \in 1..n : 0 + i = i
      OBVIOUS
    <3>2. 0 + Len(t) = n
      BY <1>3, <1>21
    <3> QED
      BY <1>3, <1>21, <3>1, <3>2
  <2>3. Same(F[0 + Len(t)], F[0] + Shift(0) * T[Len(t)])
    BY <1>1, <1>4, <1>21, <1>22, <2>2, PartCounts
  <2>4. Shift(0) = 1 /\ F[0] = 0 /\ 0 + Len(t) = n
    BY <1>3, <1>4, <1>21 DEF Shift, SumsOf
  <2>5. PICK k \in Nat : k = T[n] /\ 0 + 1 * k = k
    BY <2>1
  <2> QED
    BY <1>8, <1>21, <2>3, <2>4, <2>5
<1>24. PICK r \in Seq(Nat) : r = addr \o h /\ Len(r) % 2 = 0
  <2>1. addr \o h \in Seq(Nat) /\ Len(addr \o h) = Len(addr) + 4 /\ Len(addr) \in Nat
    <3>1. addr \o h \in Seq(Nat) /\ Len(addr \o h) = Len(addr) + Len(h)
      BY <1>1, <1>18, ConcatProperties
    <3>2. Len(addr) \in Nat
      BY <1>1, LenProperties
    <3> QED
      BY <1>18, <3>1, <3>2
  <2>2. (Len(addr) + 4) % 2 = 0
    BY <2>1
  <2> QED
    BY <2>1, <2>2
<1>25. PICK R : SumsOf(R, r)
  BY <1>24, SumsExist
<1>26. PICK l \in Nat : l = R[Len(r)] /\ Same(l, a + (bp + bq))
  <2>1. R[Len(r)] \in Nat
    <3>1. Len(r) \in 0..Len(r)
      <4>1. Len(r) \in Nat
        BY LenProperties
      <4> QED
        BY <4>1
    <3> QED
      BY <1>25, <3>1 DEF SumsOf
  <2>2. Same(R[Len(r)], A[Len(addr)] + e[Len(h)])
    BY <1>1, <1>5, <1>18, <1>19, <1>24, <1>25, EvenJoined
  <2> QED
    BY <1>6, <1>18, <1>19, <2>1, <2>2
<1>27. PICK v \in Seq(Nat) : v = r \o t
  BY <1>21, <1>24, ConcatProperties
<1>28. PICK V : SumsOf(V, v)
  BY <1>27, SumsExist
<1>29. PICK d \in Nat : d = V[Len(v)] /\ Same(d, l + k)
  <2>1. V[Len(v)] \in Nat
    <3>1. Len(v) \in 0..Len(v)
      BY <1>27, LenProperties
    <3> QED
      BY <1>28, <3>1 DEF SumsOf
  <2>2. Same(V[Len(v)], R[Len(r)] + T[Len(t)])
    BY <1>21, <1>22, <1>24, <1>25, <1>27, <1>28, EvenJoined
  <2> QED
    BY <1>21, <1>23, <1>26, <2>1, <2>2
<1>30. Same(z, d)
  <2>1. Same(l + k, (a + (bp + bq)) + f)
    <3>1. Same(k, f)
      BY <1>23, SameBack
    <3> QED
      <4>1. PICK i \in Nat : i = a + (bp + bq)
        OBVIOUS
      <4>2. Same(l + k, i + f)
        BY <1>26, <3>1, <4>1, SameSum
      <4> QED
        BY <4>1, <4>2
  <2>2. Same(d, (a + (bp + bq)) + f)
    BY <1>29, <2>1, SameOn
  <2>3. Same((a + (bp + bq)) + f, d)
    BY <2>2, SameBack
  <2>4. z \in Nat
    <3>1. z \in 0..w - 1
      BY <1>2
    <3> QED
      BY <3>1
  <2>5. Same(z, (a + (bp + bq)) + f)
    BY <1>13, <1>14, <1>15, <2>4, SameOn
  <2> QED
    BY <2>3, <2>4, <2>5, SameOn
<1>31. WORD - 1 - z = Reference(v)
  BY <1>27, <1>28, <1>29, <1>30, ReferenceIs
<1> QED
  BY <1>16, <1>17, <1>20, <1>24, <1>27, <1>31, Zenon

\* ip4_output_if_src folds once and adds the carry of that.
LEMMA HeaderSum ==
  ASSUME NEW s \in Seq(Octets), Len(s) < WORD, Len(s) % 2 = 0
  PROVE  HeaderChksum(s) = Reference(s)
<1>1. PICK f : SumsOf(f, s)
  BY OctetsCount, SumsExist
<1>2. PICK w \in Nat : w = WORD /\ w >= 4
  BY WordIs
<1>3. PICK n \in Nat : n = f[Len(s)] /\ n < WORD * WORD /\ WordsTo(s) = n
  <2>1. PICK n \in Nat : n = f[Len(s)] /\ n < WORD * WORD
    BY <1>1, SumsSmall
  <2>2. /\ WordsTo(s) \in Nat
        /\ WordsTo(s) + (IF Len(s) % 2 = 1 THEN s[Len(s)] ELSE 0) = n
    BY <1>1, <2>1, OctetsCount, WordsAre
  <2>3. WordsTo(s) = n
    BY <2>2
  <2> QED
    BY <2>1, <2>3
<1>4. PICK once \in Nat : once = FOLD_U32T(n) /\ once <= 2 * w - 2
  BY <1>2, <1>3, FoldIs
<1>5. PICK x \in 0..WORD - 1 : x = FOLD_U32T(once) /\ Same(x, n)
  BY <1>3, <1>4, FoldedIs
<1>6. ((once \div w) + once) % w = x
  <2>1. PICK q \in Int : q = once \div w
    BY <1>2, Division
  <2>2. PICK r \in 0..w - 1 : r = once % w
    BY <1>2, Division
  <2>3. once = w * q + r
    BY <1>2, <2>1, <2>2, Division
  <2>4. x = q + r
    BY <1>2, <1>5, <2>1, <2>2 DEF FOLD_U32T
  <2>5. q + once = w * q + (q + r)
    BY <2>3
  <2>6. q + r \in 0..w - 1
    BY <1>2, <2>4
  <2>7. (w * q + (q + r)) % w = q + r
    <3>1. PICK i \in 0..w - 1 : i = q + r
      BY <2>6
    <3>2. (w * q + i) % w = i
      BY <1>2, DivisionIs
    <3> QED
      BY <3>1, <3>2
  <2> QED
    BY <2>1, <2>4, <2>5, <2>7
<1>7. HeaderChksum(s) = WORD - 1 - x
  BY <1>2, <1>3, <1>4, <1>6 DEF HeaderChksum
<1>8. WORD - 1 - x = Reference(s)
  BY <1>1, <1>3, <1>5, OctetsCount, ReferenceIs
<1> QED
  BY <1>7, <1>8, Zenon

\* The parts of a packet make up its bytes.
LEMMA SegmentsCut ==
  ASSUME Sound, NEW p \in Pbufs, NEW v \in [1..Len(Bytes[p]) -> ByteValues]
  PROVE  /\ v \in Seq(Octets) /\ Len(v) = TotOf(p)
         /\ \E at : Cut(Segments(p, v), v, at)
<1>1. PICK s : s = Chain[p]
  OBVIOUS
<1>2. Follows(s, p)
  BY <1>1, ChainIs DEF Sound
<1>3. PICK m \in Nat : m = Len(s) /\ m >= 1
  BY <1>2 DEF Follows
<1>4. /\ DOMAIN s = 1..m /\ s[1] = p /\ pbuf[s[m]].next = NULL
      /\ \A k \in 1..m : s[k] \in Pbufs
      /\ \A k \in 1..m - 1 : pbuf[s[k]].next = s[k + 1]
  BY <1>2, <1>3, LenProperties DEF Follows
<1>5. PICK K \in Nat : K = Len(Bytes[p]) /\ K = TotOf(p)
  BY BytesAre, SoundIs
<1>6. v \in [1..K -> Octets]
  <2>1. ByteValues \subseteq Octets
    BY PbufCopyAssumption DEF Octets
  <2>2. v \in [1..K -> ByteValues]
    BY <1>5
  <2> QED
    BY <2>1, <2>2
<1>7. v \in Seq(Octets) /\ Len(v) = K
  BY <1>6
<1> DEFINE tot == [k \in 1..m + 1 |-> IF k = m + 1 THEN 0 ELSE pbuf[s[k]].tot_len]
           ln == [k \in 1..m |-> pbuf[s[k]].len]
           at == [k \in 0..m |-> K - tot[k + 1]]
<1>8. /\ \A k \in 1..m + 1 : tot[k] \in Nat
      /\ \A k \in 1..m : ln[k] \in Nat /\ tot[k] = ln[k] + tot[k + 1]
      /\ tot[1] = K /\ tot[m + 1] = 0
  <2>1. \A k \in 1..m : /\ s[k] \in Pbufs /\ pbuf[s[k]].len \in Nat /\ pbuf[s[k]].tot_len \in Nat
                        /\ pbuf[s[k]].tot_len = pbuf[s[k]].len + TotOf(pbuf[s[k]].next)
                        /\ TotOf(s[k]) = pbuf[s[k]].tot_len
    BY <1>4, SoundIs
  <2>2. ASSUME NEW k \in 1..m PROVE TotOf(pbuf[s[k]].next) = tot[k + 1]
    <3>1. CASE k = m
      BY <1>4, <3>1, SoundIs
    <3>2. CASE k # m
      <4>1. k \in 1..m - 1 /\ k + 1 \in 1..m /\ k + 1 # m + 1 /\ k + 1 \in 1..m + 1
        BY <3>2
      <4> QED
        BY <1>4, <2>1, <4>1
    <3> QED
      BY <3>1, <3>2
  <2>3. \A k \in 1..m : k \in 1..m + 1 /\ k # m + 1
    OBVIOUS
  <2>4. \A k \in 1..m + 1 : tot[k] \in Nat
    <3>1. \A k \in 1..m + 1 : k # m + 1 => k \in 1..m
      OBVIOUS
    <3> QED
      BY <2>1, <3>1
  <2>5. \A k \in 1..m : tot[k] = pbuf[s[k]].tot_len /\ ln[k] = pbuf[s[k]].len
    BY <2>3
  <2>6. 1 \in 1..m /\ m + 1 \in 1..m + 1
    BY <1>3
  <2>7. tot[1] = K
    BY <1>4, <1>5, <2>1, <2>5, <2>6
  <2>8. tot[m + 1] = 0
    BY <2>6
  <2> HIDE DEF tot, ln
  <2> QED
    BY <2>1, <2>2, <2>4, <2>5, <2>7, <2>8
<1> DEFINE B == {i \in 0..m : tot[i + 1] <= K}
<1>9. \A k \in 1..m + 1 : tot[k] <= K
  <2>1. 0 \in B
    <3> HIDE DEF tot
    <3> QED
      BY <1>8
  <2>2. ASSUME NEW i \in 1..m, i - 1 \in B PROVE i \in B
    <3>1. (i - 1) + 1 = i /\ i + 1 \in 1..m + 1 /\ i \in 1..m + 1
      OBVIOUS
    <3>2. tot[i] <= K
      <4> HIDE DEF tot
      <4> QED
        BY <2>2, <3>1
    <3>3. tot[i] = ln[i] + tot[i + 1] /\ ln[i] \in Nat /\ tot[i + 1] \in Nat
      BY <1>8, <3>1
    <3> HIDE DEF tot, ln
    <3> QED
      BY <3>2, <3>3
  <2>3. \A i \in 0..m : i \in B
    <3> HIDE DEF B
    <3> QED
      BY <2>1, <2>2, UpTo
  <2>4. \A k \in 1..m + 1 : k - 1 \in 0..m /\ (k - 1) + 1 = k
    OBVIOUS
  <2> HIDE DEF tot
  <2> QED
    BY <2>3, <2>4
<1> DEFINE part(k) == [n \in 1..ln[k] |-> v[(K - tot[k]) + n]]
<1>10. PICK segs : segs = Segments(p, v)
  OBVIOUS
<1>11. segs = [k \in 1..m |-> [odd |-> pbuf[s[k]].off % 2 = 1, bytes |-> part(k)]]
  <2>1. \A k \in 1..m : k \in 1..m + 1 /\ k # m + 1
    OBVIOUS
  <2>2. \A k \in 1..m : tot[k] = pbuf[s[k]].tot_len /\ ln[k] = pbuf[s[k]].len
    BY <2>1
  <2>3. segs = [k \in 1..m |->
                 [odd |-> pbuf[s[k]].off % 2 = 1,
                  bytes |-> [n \in 1..pbuf[s[k]].len |-> v[(K - pbuf[s[k]].tot_len) + n]]]]
    BY <1>1, <1>4, <1>5, <1>10 DEF Segments
  <2> HIDE DEF tot, ln
  <2> QED
    BY <2>2, <2>3
<1> HIDE DEF tot, ln
<1>12. ASSUME NEW k \in 1..m
       PROVE  part(k) \in Seq(Octets) /\ Len(part(k)) = ln[k]
  <2>1. ln[k] \in Nat /\ tot[k] = ln[k] + tot[k + 1] /\ tot[k] <= K /\ tot[k] \in Nat
        /\ tot[k + 1] \in Nat
    <3>1. k \in 1..m + 1 /\ k + 1 \in 1..m + 1
      OBVIOUS
    <3> QED
      BY <1>8, <1>9, <3>1
  <2>2. \A n \in 1..ln[k] : (K - tot[k]) + n \in 1..K
    BY <2>1
  <2>3. \A n \in 1..ln[k] : v[(K - tot[k]) + n] \in Octets
    BY <1>6, <2>2
  <2>4. part(k) \in [1..ln[k] -> Octets]
    BY <2>3
  <2> HIDE DEF part
  <2>5. \A h : h \in [1..ln[k] -> Octets] => h \in Seq(Octets) /\ Len(h) = ln[k]
    <3>1. PICK l \in Nat : l = ln[k]
      BY <2>1
    <3>2. \A h : h \in [1..l -> Octets] => h \in Seq(Octets) /\ Len(h) = l
      OBVIOUS
    <3> QED
      BY <3>1, <3>2, Zenon
  <2> QED
    BY <2>4, <2>5, Zenon
<1>13. ASSUME NEW k \in 1..m
       PROVE  /\ at[k] = at[k - 1] + Len(part(k))
              /\ \A j \in 1..Len(part(k)) : part(k)[j] = v[at[k - 1] + j]
  <2>1. k - 1 \in 0..m /\ k \in 0..m /\ (k - 1) + 1 = k /\ k \in 1..m + 1 /\ k + 1 \in 1..m + 1
    OBVIOUS
  <2>2. at[k - 1] = K - tot[k] /\ at[k] = K - tot[k + 1]
    BY <2>1
  <2>3. Len(part(k)) = ln[k]
    BY <1>12
  <2>4. \A j \in 1..ln[k] : part(k)[j] = v[(K - tot[k]) + j]
    OBVIOUS
  <2> HIDE DEF at, part
  <2>5. at[k] = at[k - 1] + ln[k]
    BY <1>8, <2>1, <2>2
  <2> QED
    BY <2>2, <2>3, <2>4, <2>5
<1>14. at \in [0..m -> Nat] /\ at[0] = 0 /\ at[m] = K
  <2>1. \A k \in 0..m : k + 1 \in 1..m + 1
    OBVIOUS
  <2>2. \A k \in 0..m : K - tot[k + 1] \in Nat
    BY <1>8, <1>9, <2>1
  <2>3. at[0] = K - tot[1] /\ at[m] = K - tot[m + 1]
    OBVIOUS
  <2>4. at \in [0..m -> Nat]
    BY <2>2
  <2> HIDE DEF at
  <2> QED
    BY <1>8, <2>3, <2>4
<1>15. Len(segs) = m
  BY <1>3, <1>11
<1>16. \A k \in 1..m : segs[k].bytes = part(k) /\ segs[k].odd \in BOOLEAN
  <2> HIDE DEF part
  <2> QED
    BY <1>11
<1>17. Cut(segs, v, at)
  <2> HIDE DEF at, part
  <2>1. /\ v \in Seq(Octets) /\ Len(segs) = m /\ m \in Nat /\ at \in [0..m -> Nat]
        /\ at[0] = 0 /\ at[m] = Len(v)
    BY <1>7, <1>14, <1>15
  <2>2. ASSUME NEW k \in 1..m
        PROVE  /\ segs[k].bytes \in Seq(Octets) /\ segs[k].odd \in BOOLEAN
               /\ at[k] = at[k - 1] + Len(segs[k].bytes)
               /\ \A j \in 1..Len(segs[k].bytes) : segs[k].bytes[j] = v[at[k - 1] + j]
    <3>1. segs[k].bytes = part(k) /\ segs[k].odd \in BOOLEAN
      BY <1>16
    <3> QED
      BY <1>12, <1>13, <3>1, Zenon
  <2> QED
    BY <2>1, <2>2, Zenon DEF Cut
<1> HIDE DEF at
<1> QED
  BY <1>5, <1>7, <1>10, <1>17

\* The pseudo header of two words.
LEMMA SixIs ==
  ASSUME NEW a \in Nat, NEW b \in Nat, NEW c \in Nat, NEW d \in Nat
  PROVE  <<a, b>> \o <<0, c, 0, d>> = <<a, b, 0, c, 0, d>>
<1>1. PICK s : s = <<a, b>>
  OBVIOUS
<1>2. s \in Seq(Nat) /\ Len(s) = 2 /\ s[1] = a /\ s[2] = b
  BY <1>1
<1>3. PICK t : t = <<0, c, 0, d>>
  OBVIOUS
<1>4. t \in Seq(Nat) /\ Len(t) = 4 /\ t[1] = 0 /\ t[2] = c /\ t[3] = 0 /\ t[4] = d
  BY <1>3
<1>5. PICK v : v = <<a, b, 0, c, 0, d>>
  OBVIOUS
<1>6. /\ v \in Seq(Nat) /\ Len(v) = 6 /\ v[1] = a /\ v[2] = b
      /\ v[3] = 0 /\ v[4] = c /\ v[5] = 0 /\ v[6] = d
  BY <1>5
<1>7. PICK u : u = s \o t
  OBVIOUS
<1>8. u \in Seq(Nat) /\ Len(u) = 6
  <2>1. s \o t \in Seq(Nat) /\ Len(s \o t) = Len(s) + Len(t)
    BY <1>2, <1>4, ConcatProperties
  <2> QED
    BY <1>2, <1>4, <1>7, <2>1
<1>9. \A i \in 1..6 : u[i] = IF i <= 2 THEN s[i] ELSE t[i - 2]
  <2>1. Len(s) = 2 /\ Len(s) + Len(t) = 6
    BY <1>2, <1>4
  <2>2. \A i \in 1..Len(s) + Len(t) : u[i] = IF i <= Len(s) THEN s[i] ELSE t[i - Len(s)]
    BY <1>2, <1>4, <1>7, ConcatProperties
  <2> QED
    BY <2>1, <2>2
<1>10. u[1] = a /\ u[2] = b /\ u[3] = 0 /\ u[4] = c /\ u[5] = 0 /\ u[6] = d
  BY <1>2, <1>4, <1>9
<1>11. \A i \in 1..6 : u[i] = v[i]
  <2>1. \A i \in 1..6 : i \in {1, 2, 3, 4, 5, 6}
    OBVIOUS
  <2> QED
    BY <1>6, <1>10, <2>1
<1>12. u = v
  BY <1>6, <1>8, <1>11, SeqEqual
<1> QED
  BY <1>1, <1>3, <1>5, <1>7, <1>12

\* The checksum of a packet does not depend on how it is cut into pbufs, odd
\* lengths and odd addresses included, and carries are not lost (inet_chksum.c:
\* 132-173, 259-473, 567-588; ip4.c:944-982).
THEOREM PbufChecksums == PbufSpec => []ChecksumTrue
<1>1. ASSUME PbufInv PROVE ChecksumTrue
  <2> SUFFICES ASSUME Idle, NEW p \in Heads, NEW v \in [1..Len(Bytes[p]) -> ByteValues]
               PROVE
    LET segs == Segments(p, v)
    IN  /\ inet_chksum_pbuf(segs) = Reference(v)
        /\ inet_chksum_pseudo(segs, BASE - 1, Len(v), <<BASE - 1, BASE - 1>>)
             = Reference(<<BASE - 1, BASE - 1, 0, BASE - 1, 0, Len(v)>> \o v)
        /\ \A n \in 0..Len(v) :
             inet_chksum_pseudo_partial(segs, BASE - 1, n, n, <<>>)
               = Reference(<<0, BASE - 1, 0, n>> \o SubSeq(v, 1, n))
        /\ Len(v) % 2 = 0 => HeaderChksum(v) = Reference(v)
    BY DEF ChecksumTrue, Unshared
  <2>1. Sound /\ p \in Pbufs
    BY <1>1, SoundBetween, HeadsIn
  <2>2. PICK segs, at : segs = Segments(p, v) /\ Cut(segs, v, at)
    BY <2>1, SegmentsCut
  <2>3. PICK w \in Nat : w = WORD /\ w >= 4
    BY WordIs
  <2>4. PICK K \in Nat : K = Len(v) /\ K < w
    <3>1. Len(v) = TotOf(p) /\ TotOf(p) = pbuf[p].tot_len
      BY <2>1, SegmentsCut, SoundIs
    <3>2. pbuf[p].tot_len \in 0..U16 - 1
      <4>1. pbuf \in [Pbufs -> PbufRecord]
        BY <1>1 DEF PbufInv, Good, PbufTyped
      <4> QED
        BY <2>1, <4>1 DEF PbufRecord
    <3>3. U16 \in Nat /\ U16 <= w
      BY <2>3, PbufAssumption, PbufCopyAssumption DEF WORD
    <3> QED
      BY <3>1, <3>2, <3>3
  <2>5. v \in Seq(Octets) /\ Len(v) < WORD
    BY <2>1, <2>3, <2>4, SegmentsCut
  <2>6. PICK o \in Octets : o = BASE - 1 /\ o \in 0..WORD - 1
    <3>1. PICK b \in Nat : b = BASE /\ b >= 2 /\ w >= 2 * b
      BY <2>3, WordIs
    <3>2. b - 1 \in 0..b - 1 /\ b - 1 \in 0..w - 1
      BY <3>1
    <3> QED
      BY <2>3, <3>1, <3>2 DEF Octets
  <2>7. inet_chksum_pbuf(segs) = Reference(v)
    BY <2>2, <2>5, PacketSum
  <2>8. \A n \in 0..Len(v) : \A x, y \in 0..WORD - 1 : \A a \in Seq(Octets) :
          Len(a) < WORD /\ Len(a) % 2 = 0 =>
            inet_chksum_pseudo_partial(segs, x, y, n, a)
              = Reference((a \o <<0, x, 0, y>>) \o SubSeq(v, 1, n))
    BY <2>2, <2>5, PseudoSum
  <2>9. inet_chksum_pseudo(segs, o, K, <<o, o>>) = Reference(<<o, o, 0, o, 0, K>> \o v)
    <3>1. K \in 0..Len(v) /\ K \in 0..WORD - 1
      BY <2>3, <2>4
    <3>2. PICK a : a = <<o, o>>
      OBVIOUS
    <3>3. a \in Seq(Octets) /\ Len(a) = 2
      BY <3>2
    <3>4. Len(a) < WORD /\ Len(a) % 2 = 0
      BY <2>3, <3>3
    <3>5. inet_chksum_pseudo_partial(segs, o, K, K, a)
            = Reference((a \o <<0, o, 0, K>>) \o SubSeq(v, 1, K))
      BY <2>6, <2>8, <3>1, <3>4, <3>3, Zenon
    <3>6. SubSeq(v, 1, K) = v
      BY <2>4, <2>5, SubSeqFull
    <3>7. a \o <<0, o, 0, K>> = <<o, o, 0, o, 0, K>>
      <4>1. o \in Nat /\ K \in Nat
        BY <2>6, OctetsCount
      <4> QED
        BY <3>2, <4>1, SixIs
    <3>8. TotalLength(segs) = K
      BY <2>2, <2>4, TotalLengthIs
    <3> QED
      BY <3>2, <3>5, <3>6, <3>7, <3>8, Zenon DEF inet_chksum_pseudo
  <2>10. ASSUME NEW n \in 0..K
        PROVE  inet_chksum_pseudo_partial(segs, o, n, n, <<>>)
                 = Reference(<<0, o, 0, n>> \o SubSeq(v, 1, n))
    <3>1. n \in 0..Len(v) /\ n \in 0..WORD - 1
      BY <2>3, <2>4
    <3>2. PICK a : a = <<>>
      OBVIOUS
    <3>3. a \in Seq(Octets) /\ Len(a) = 0
      BY <3>2
    <3>4. a \in Seq(Octets) /\ Len(a) < WORD /\ Len(a) % 2 = 0
      BY <2>3, <3>3
    <3>5. inet_chksum_pseudo_partial(segs, o, n, n, a)
            = Reference((a \o <<0, o, 0, n>>) \o SubSeq(v, 1, n))
      <4>1. \A x, y \in 0..WORD - 1 :
              inet_chksum_pseudo_partial(segs, x, y, n, a)
                = Reference((a \o <<0, x, 0, y>>) \o SubSeq(v, 1, n))
        BY <2>8, <3>1, <3>4, Zenon
      <4>2. o \in 0..WORD - 1 /\ n \in 0..WORD - 1
        BY <2>6, <3>1, Zenon
      <4> QED
        BY <4>1, <4>2, Zenon
    <3>6. a \o <<0, o, 0, n>> = <<0, o, 0, n>>
      BY <3>2
    <3> QED
      BY <3>2, <3>5, <3>6, Zenon
  <2>11. K % 2 = 0 => HeaderChksum(v) = Reference(v)
    BY <2>4, <2>5, HeaderSum
  <2> QED
    BY <2>2, <2>4, <2>6, <2>7, <2>9, <2>10, <2>11, Zenon
<1> QED
  BY <1>1, PbufInvariant, PTL

------------------------------
(* The inductive invariant.  It follows the frame of the current call, *)
(* which starts with the control byte at TX_BUFFER_START_ADDR: how much of *)
(* it is in the memory, and how much of it is on the line. *)

\* The number of the current call, the length of its frame, and how many
\* bytes of it, the control byte included, are in the memory.
Call   == Len(requested)
Total  == chain[1].tot_len
Filled == tx_buff_ptr - TX_BUFFER_START_ADDR

Filling == pc \in {"point", "write"}
Busy    == pc # "idle"
OnLine  == pc = "await_end" /\ TXRTS

\* The call is known by its number and the length of its frame.
Counted ==
  /\ Call <= MaxFrames
  /\ Busy => Call # 0 /\ requested[Call] = Total

\* tx_buff_ptr is where the next pbuf belongs, in the end behind the frame.
Cursor ==
  /\ seg # 0 => chain[seg].tot_len <= Total
  /\ Filling => Filled = First
  /\ Busy /\ ~Filling => Filled = 1 + Total
  /\ pc = "write" => EWRPT = tx_buff_ptr

\* Until it is sent the frame is in the memory.
FrameInMemory ==
  Busy /\ (pc = "await_end" => TXRTS) =>
    \A n \in 0..Filled - 1 : mem[TX_BUFFER_START_ADDR + n] = <<Call, n>>

\* The transmitter is told where the frame begins and ends.
FrameBounds ==
  /\ pc \in {"start", "request"} \/ OnLine =>
       ETXND = TX_BUFFER_START_ADDR + Total
  /\ pc = "request" \/ OnLine => ETXST = TX_BUFFER_START_ADDR

\* The transmitter runs only while the driver awaits its end; what is on the
\* line is the beginning of the frame.
FrameOnLine ==
  /\ TXRTS => pc = "await_end"
  /\ ~TXRTS => out = <<>>
  /\ Len(out) <= Total
  /\ out = [k \in 1..Len(out) |-> <<Call, k>>]

IInv == /\ TypeOK
        /\ Counted
        /\ Cursor
        /\ FrameInMemory
        /\ FrameBounds
        /\ FrameOnLine
        /\ ReceiveRingUntouched

------------------------------
(* Addresses and chains. *)

\* The addresses the transmit path uses lie before the end of the memory,
\* where Plus and Ahead would wrap.
LEMMA Addresses ==
  ASSUME NEW a \in Nat, NEW n \in Nat, a + n <= MEM_END_ADDR
  PROVE  Plus(a, n) = a + n /\ Ahead(a, a + n) = n
<1>1. MEM_END_ADDR \in Nat
  BY TxAssumption
<1>2. (a + n) % (MEM_END_ADDR + 1) = a + n
  BY <1>1, SMT
<1>3. n % (MEM_END_ADDR + 1) = n
  BY <1>1, SMT
<1>4. (a + n) - a = n
  BY SMT
<1> QED
  BY <1>2, <1>3, <1>4 DEF Plus, Ahead

\* The halves of the memory.
LEMMA Halves ==
  /\ TX_BUFFER_START_ADDR \in Nat /\ MEM_END_ADDR \in Nat
  /\ RX_BUFFER_END_ADDR \in Nat
  /\ TX_BUFFER_START_ADDR = RX_BUFFER_END_ADDR + 1
  /\ TX_BUFFER_START_ADDR <= MEM_END_ADDR
  BY TxAssumption DEF TX_BUFFER_START_ADDR

\* What is assumed of a chain, pbuf by pbuf.
LEMMA ChainFacts ==
  ASSUME NEW c \in Chains
  PROVE  /\ Len(c) \in Nat \ {0}
         /\ \A j \in 1..Len(c) : c[j].len \in Nat /\ c[j].tot_len \in Nat
         /\ \A j \in 1..Len(c) :
              c[j].tot_len = c[j].len + (IF j < Len(c) THEN c[j + 1].tot_len
                                                       ELSE 0)
         /\ c[1].tot_len \in Nat \ {0}
         /\ TX_BUFFER_START_ADDR + c[1].tot_len + STATUS_SIZE <= MEM_END_ADDR
<1>1. /\ IsChain(c)
      /\ c[1].tot_len > 0
      /\ TX_BUFFER_START_ADDR + c[1].tot_len + STATUS_SIZE <= MEM_END_ADDR
  BY TxAssumption
<1>2. c \in Seq([len : Nat, tot_len : Nat]) /\ c # <<>>
  BY <1>1 DEF IsChain
<1>3. Len(c) \in Nat \ {0}
  BY <1>2, EmptySeq, LenProperties
<1>4. \A j \in 1..Len(c) : c[j] \in [len : Nat, tot_len : Nat]
  BY <1>2, ElementOfSeq
<1> QED
  BY <1>1, <1>3, <1>4 DEF IsChain

\* What is written next ends inside the frame, and the frame and its status
\* vector end inside the memory.
LEMMA WriteFits ==
  ASSUME TypeOK, Cursor, Filling
  PROVE  /\ First \in Nat /\ Length \in Nat
         /\ First + Length <= 1 + Total
         /\ seg = Len(chain) => First + Length = 1 + Total
         /\ seg # Len(chain) =>
              /\ seg + 1 \in 1..Len(chain)
              /\ chain[seg + 1].tot_len <= Total
              /\ First + Length = 1 + Total - chain[seg + 1].tot_len
         /\ tx_buff_ptr = TX_BUFFER_START_ADDR + First
         /\ tx_buff_ptr \in Nat
         /\ tx_buff_ptr + Length <= MEM_END_ADDR
<1>1. chain \in Chains /\ seg \in 0..Len(chain) /\ tx_buff_ptr \in TxAddr
  BY DEF TypeOK
<1>2. /\ Len(chain) \in Nat \ {0}
      /\ \A j \in 1..Len(chain) :
           chain[j].len \in Nat /\ chain[j].tot_len \in Nat
      /\ \A j \in 1..Len(chain) :
           chain[j].tot_len = chain[j].len +
             (IF j < Len(chain) THEN chain[j + 1].tot_len ELSE 0)
      /\ Total \in Nat \ {0}
      /\ TX_BUFFER_START_ADDR + Total + STATUS_SIZE <= MEM_END_ADDR
  BY <1>1, ChainFacts DEF Total
<1>3. STATUS_SIZE \in Nat \ {0}
  BY TxAssumption
<1>4. tx_buff_ptr \in Nat /\ tx_buff_ptr - TX_BUFFER_START_ADDR = First
  BY <1>1, Halves DEF Cursor, Filled, TxAddr
<1>5. CASE seg = 0
  <2>1. First = 0 /\ Length = 1
    BY <1>5 DEF First, Length
  <2>2. 1 \in 1..Len(chain) /\ seg # Len(chain)
    BY <1>2, <1>5
  <2> QED
    BY <1>2, <1>3, <1>4, <1>5, <2>1, <2>2, Halves DEF Total
<1>6. CASE seg # 0
  <2>1. seg \in 1..Len(chain) /\ chain[seg].tot_len <= Total
    BY <1>1, <1>2, <1>6 DEF Cursor
  <2>2. First = 1 + Total - chain[seg].tot_len /\ Length = chain[seg].len
    BY <1>6 DEF First, Length, Total
  <2>3. chain[seg].len \in Nat /\ chain[seg].tot_len \in Nat
    BY <1>2, <2>1
  <2>4. chain[seg].tot_len = chain[seg].len +
          (IF seg < Len(chain) THEN chain[seg + 1].tot_len ELSE 0)
    BY <1>2, <2>1
  <2>5. CASE seg = Len(chain)
    BY <1>2, <1>3, <1>4, <2>1, <2>2, <2>3, <2>4, <2>5, Halves
  <2>6. CASE seg # Len(chain)
    <3>1. seg + 1 \in 1..Len(chain) /\ seg < Len(chain)
      BY <1>2, <2>1, <2>6
    <3>2. chain[seg + 1].tot_len \in Nat
      BY <1>2, <3>1
    <3> QED
      <4>1. chain[seg].tot_len = chain[seg].len + chain[seg + 1].tot_len
        BY <2>4, <3>1
      <4>2. First + Length = 1 + Total - chain[seg + 1].tot_len
        <5>1. \A t, l, r \in Int : (1 + t - (l + r)) + l = 1 + t - r
          OBVIOUS
        <5>2. Total \in Int /\ chain[seg].len \in Int /\ chain[seg + 1].tot_len \in Int
          BY <1>2, <2>3, <3>2
        <5>3. First + Length
                = (1 + Total - (chain[seg].len + chain[seg + 1].tot_len))
                  + chain[seg].len
          BY <2>2, <4>1
        <5> QED
          BY <5>1, <5>2, <5>3
      <4>3. First \in Nat /\ Length \in Nat
        BY <1>2, <2>1, <2>2, <2>3
      <4>4. chain[seg + 1].tot_len <= Total
        BY <1>2, <2>1, <2>3, <3>2, <4>1
      <4>5. First + Length <= 1 + Total
        BY <1>2, <3>2, <4>2, <4>3
      <4>6. tx_buff_ptr + Length <= MEM_END_ADDR
        BY <1>2, <1>3, <1>4, <4>3, <4>5, Halves
      <4> QED
        BY <1>4, <2>6, <3>1, <4>2, <4>3, <4>4, <4>5, <4>6, Halves
  <2> QED
    BY <2>5, <2>6
<1> QED
  BY <1>5, <1>6

------------------------------
(* The invariant holds at the start and is preserved by every step. *)

LEMMA InitInvariant == Init => IInv
<1> SUFFICES ASSUME Init PROVE IInv
  OBVIOUS
<1>1. chain \in Chains
  BY DEF Init
<1>2. Len(chain) \in Nat \ {0} /\ Total \in Nat \ {0}
  BY <1>1, ChainFacts DEF Total
<1>3. MaxFrames \in Nat
  BY TxAssumption
<1>4. mem \in [Addr -> Byte]
  BY <1>3 DEF Init, Byte, Unwritten
<1>5. TypeOK
  <2>1. TX_BUFFER_START_ADDR \in TxAddr
    BY Halves DEF TxAddr
  <2>2. out \in Seq(Byte) /\ line \in Seq(Seq(Byte)) /\ requested \in Seq(Nat)
    BY EmptySeq DEF Init
  <2>3. seg \in 0..Len(chain)
    BY <1>2 DEF Init
  <2>4. EWRPT \in Pointer /\ ETXST \in Pointer /\ ETXND \in Pointer
    BY DEF Init, Pointer
  <2> QED
    BY <1>1, <1>4, <2>1, <2>2, <2>3, <2>4 DEF Init, TypeOK
<1>6. requested = <<>> /\ Len(requested) = 0 /\ Len(out) = 0 /\ pc = "idle"
  BY DEF Init
<1>7. Counted
  BY <1>3, <1>6 DEF Counted, Call, Busy
<1>8. Cursor
  BY <1>6 DEF Init, Cursor, Filling, Busy
<1>9. FrameInMemory /\ FrameBounds
  BY <1>6 DEF FrameInMemory, FrameBounds, Busy, OnLine
<1>10. FrameOnLine
  BY <1>2, <1>6 DEF Init, FrameOnLine
<1>11. ReceiveRingUntouched
  BY Halves DEF Init, ReceiveRingUntouched, Addr, RxAddr
<1> QED
  BY <1>5, <1>7, <1>8, <1>9, <1>10, <1>11 DEF IInv

\* A call begins.
LEMMA OutputInvariant == IInv /\ Output => IInv'
<1> SUFFICES ASSUME IInv, Output PROVE IInv'
  OBVIOUS
<1>1. PICK c \in Chains : /\ chain' = c
                          /\ requested' = Append(requested, c[1].tot_len)
  BY DEF Output
<1>2. requested \in Seq(Nat) /\ Len(requested) < MaxFrames
  BY DEF IInv, TypeOK, Output
<1>3. c[1].tot_len \in Nat \ {0} /\ Len(c) \in Nat \ {0}
  BY ChainFacts
<1>4. /\ requested' \in Seq(Nat)
      /\ Len(requested') = Len(requested) + 1
      /\ requested'[Len(requested')] = c[1].tot_len
      /\ Len(requested) \in Nat
  BY <1>1, <1>2, <1>3, AppendProperties, LenProperties
<1>5. TX_BUFFER_START_ADDR \in TxAddr
  BY Halves DEF TxAddr
<1>6. TypeOK'
  BY <1>1, <1>3, <1>4, <1>5 DEF IInv, TypeOK, Output, chipVars
<1>7. Counted'
  <2>1. MaxFrames \in Nat
    BY TxAssumption
  <2> QED
    BY <1>1, <1>2, <1>4, <2>1 DEF Counted, Call, Total, Busy
<1>8. Cursor'
  BY <1>5, Halves DEF Output, Cursor, Filling, Busy, Filled, First
<1>9. FrameInMemory'
  BY Halves DEF Output, FrameInMemory, Filled
<1>10. FrameBounds'
  BY DEF Output, FrameBounds, OnLine
<1>11. FrameOnLine'
  <2>1. ~TXRTS /\ out = <<>>
    BY DEF IInv, FrameOnLine, Output
  <2>2. UNCHANGED <<TXRTS, out>>
    BY DEF Output, chipVars
  <2>3. Len(out') = 0
    BY <2>1, <2>2
  <2> QED
    BY <1>1, <1>3, <2>1, <2>2, <2>3 DEF FrameOnLine, Total
<1>12. ReceiveRingUntouched'
  BY DEF IInv, Output, ReceiveRingUntouched
<1> QED
  BY <1>6, <1>7, <1>8, <1>9, <1>10, <1>11, <1>12 DEF IInv

\* EWRPT is set.
LEMMA PointWriteInvariant == IInv /\ PointWrite => IInv'
<1> SUFFICES ASSUME IInv, PointWrite PROVE IInv'
  OBVIOUS
<1> USE DEF IInv, PointWrite, chipVars
<1>2. TypeOK'
  BY DEF TypeOK, Pointer
<1>3. Counted'
  BY DEF Counted, Call, Total, Busy
<1>4. Cursor'
  BY DEF Cursor, Filling, Busy, Filled, First, Total
<1>5. FrameInMemory'
  BY DEF FrameInMemory, Filled, Call, Busy
<1>6. FrameBounds'
  BY DEF FrameBounds, OnLine, Total
<1>7. FrameOnLine'
  BY DEF FrameOnLine, Call, Total
<1>8. ReceiveRingUntouched'
  BY DEF ReceiveRingUntouched
<1> QED
  BY <1>2, <1>3, <1>4, <1>5, <1>6, <1>7, <1>8

\* The control byte or a pbuf is written: the frame in the memory grows by
\* it, and nothing else changes.
LEMMA WriteBufInvariant == IInv /\ WriteBuf => IInv'
<1> SUFFICES ASSUME IInv, WriteBuf PROVE IInv'
  OBVIOUS
<1>1. TypeOK /\ Cursor /\ Filling /\ pc = "write"
  BY DEF IInv, WriteBuf, Filling
<1>2. /\ First \in Nat /\ Length \in Nat
      /\ First + Length <= 1 + Total
      /\ seg = Len(chain) => First + Length = 1 + Total
      /\ seg # Len(chain) =>
           /\ seg + 1 \in 1..Len(chain)
           /\ chain[seg + 1].tot_len <= Total
           /\ First + Length = 1 + Total - chain[seg + 1].tot_len
      /\ EWRPT = TX_BUFFER_START_ADDR + First
      /\ tx_buff_ptr = TX_BUFFER_START_ADDR + First
      /\ EWRPT + Length <= MEM_END_ADDR
  BY <1>1, WriteFits DEF Cursor
<1>3. /\ Total \in Nat \ {0} /\ Len(chain) \in Nat \ {0}
      /\ \A j \in 1..Len(chain) : chain[j].tot_len \in Nat
  BY <1>1, ChainFacts DEF TypeOK, Total
<1>4. EWRPT \in Nat
  BY <1>2, Halves
<1>5. ASSUME NEW n \in 0..Length
      PROVE  Plus(EWRPT, n) = EWRPT + n /\ Ahead(EWRPT, EWRPT + n) = n
  BY <1>2, <1>4, Addresses, Halves
<1>6. ASSUME NEW n \in 0..Length - 1
      PROVE  /\ EWRPT + n \in Addr
             /\ mem'[EWRPT + n] = <<Call, First + n>>
  <2>1. EWRPT + n \in Addr
    BY <1>2, <1>4, Halves DEF Addr, RX_BUFFER_START_ADDR
  <2>2. EWRPT + n = Plus(EWRPT, n) /\ Ahead(EWRPT, EWRPT + n) = n
    BY <1>2, <1>5
  <2> QED
    BY <1>2, <2>1, <2>2 DEF WriteBuf, Call
<1>7. ASSUME NEW a \in Addr, a \notin EWRPT..EWRPT + Length - 1
      PROVE  mem'[a] = mem[a]
  <2>1. \A n \in 0..Length - 1 : a # Plus(EWRPT, n)
    BY <1>2, <1>4, <1>5, <1>7
  <2> QED
    BY <2>1 DEF WriteBuf
<1>8. seg' \in 0..Len(chain) /\ seg' = (IF seg = Len(chain) THEN seg
                                                           ELSE seg + 1)
  BY <1>1, <1>2, <1>3 DEF WriteBuf, TypeOK
<1>9. TypeOK'
  <2>1. Call \in 0..MaxFrames
    BY <1>1, TxAssumption, LenProperties DEF IInv, Counted, Call, TypeOK
  <2>2. ASSUME NEW a \in Addr PROVE mem'[a] \in Byte
    <3>1. CASE a \in EWRPT..EWRPT + Length - 1
      <4>1. PICK n \in 0..Length - 1 : a = EWRPT + n
        <5>1. a - EWRPT \in 0..Length - 1 /\ a = EWRPT + (a - EWRPT)
          BY <1>2, <1>4, <3>1
        <5> QED
          BY <5>1
      <4>2. First + n \in Nat
        BY <1>2, <4>1
      <4>3. mem'[a] = <<Call, First + n>>
        BY <1>6, <4>1
      <4>4. <<Call, First + n>> \in (0..MaxFrames) \X Nat
        BY <2>1, <4>2
      <4> QED
        BY <4>3, <4>4 DEF Byte
    <3>2. CASE a \notin EWRPT..EWRPT + Length - 1
      BY <1>1, <1>7, <3>2 DEF TypeOK
    <3> QED
      BY <3>1, <3>2
  <2>3. mem' \in [Addr -> Byte]
    BY <2>2 DEF WriteBuf
  <2>4. EWRPT' = EWRPT + Length /\ tx_buff_ptr' = EWRPT + Length
    <3>1. Length \in 0..Length
      BY <1>2
    <3> QED
      BY <1>2, <1>5, <3>1 DEF WriteBuf
  <2>5. EWRPT' \in Pointer /\ tx_buff_ptr' \in TxAddr
    BY <1>2, <1>4, <2>4, Halves DEF TxAddr, Pointer
  <2> QED
    BY <1>1, <1>8, <2>3, <2>5 DEF WriteBuf, TypeOK, chipVars
<1>10. Counted'
  BY <1>1 DEF IInv, WriteBuf, Counted, Call, Total, Busy
<1>11. Filled' = First + Length
  BY <1>2, Halves DEF WriteBuf, Filled
<1>12. Cursor'
  <2>1. CASE seg = Len(chain)
    <3>1. pc' = "await_free" /\ seg' = seg /\ chain' = chain
      BY <2>1 DEF WriteBuf
    <3> QED
      BY <1>1, <1>2, <1>11, <2>1, <3>1 DEF Cursor, Filling, Busy, Total
  <2>2. CASE seg # Len(chain)
    <3>1. pc' = "point" /\ seg' = seg + 1 /\ chain' = chain
      BY <2>2 DEF WriteBuf
    <3>2. seg' # 0 /\ First' = 1 + Total - chain[seg + 1].tot_len
      BY <1>2, <2>2, <3>1 DEF First, Total
    <3> QED
      BY <1>2, <1>11, <2>2, <3>1, <3>2 DEF Cursor, Filling, Busy, Total
  <2> QED
    BY <2>1, <2>2
<1>13. FrameInMemory'
  <2>1. ASSUME NEW n \in 0..First + Length - 1
        PROVE  mem'[TX_BUFFER_START_ADDR + n] = <<Call, n>>
    <3>1. CASE n < First
      <4>1. n \in 0..Filled - 1
        BY <1>2, <3>1, Halves DEF Filled
      <4>2. mem[TX_BUFFER_START_ADDR + n] = <<Call, n>>
        BY <1>1, <4>1 DEF IInv, FrameInMemory, Busy
      <4>3. /\ TX_BUFFER_START_ADDR + n \in Addr
            /\ TX_BUFFER_START_ADDR + n \notin EWRPT..EWRPT + Length - 1
        BY <1>2, <3>1, Halves DEF Addr, RX_BUFFER_START_ADDR
      <4> QED
        BY <1>7, <4>2, <4>3
    <3>2. CASE n >= First
      <4>1. /\ n - First \in 0..Length - 1
            /\ EWRPT + (n - First) = TX_BUFFER_START_ADDR + n
            /\ First + (n - First) = n
        BY <1>2, <3>2, Halves
      <4> QED
        BY <1>6, <4>1
    <3> QED
      BY <1>2, <3>1, <3>2
  <2>2. requested' = requested
    BY DEF WriteBuf
  <2>3. tx_buff_ptr' = TX_BUFFER_START_ADDR + First + Length
    BY <1>2, Halves DEF WriteBuf
  <2>4. \A n \in 0..tx_buff_ptr' - TX_BUFFER_START_ADDR - 1 :
          mem'[TX_BUFFER_START_ADDR + n] = <<Len(requested'), n>>
    <3> SUFFICES
          ASSUME NEW n \in 0..tx_buff_ptr' - TX_BUFFER_START_ADDR - 1
          PROVE  mem'[TX_BUFFER_START_ADDR + n] = <<Len(requested'), n>>
      OBVIOUS
    <3>1. n \in 0..First + Length - 1
      BY <1>2, <2>3, Halves
    <3>2. mem'[TX_BUFFER_START_ADDR + n] = <<Call, n>>
      BY <2>1, <3>1
    <3> QED
      BY <2>2, <3>2 DEF Call
  <2> QED
    BY <2>4 DEF FrameInMemory, Filled, Call
<1>14. FrameBounds'
  BY DEF WriteBuf, FrameBounds, OnLine
<1>15. FrameOnLine'
  BY <1>1 DEF IInv, WriteBuf, chipVars, FrameOnLine, Call, Total
<1>16. ReceiveRingUntouched'
  <2>1. ASSUME NEW a \in RxAddr
        PROVE  a \in Addr /\ a \notin EWRPT..EWRPT + Length - 1
    BY <1>2, Halves DEF RxAddr, Addr, RX_BUFFER_START_ADDR
  <2> QED
    BY <1>7, <2>1 DEF IInv, ReceiveRingUntouched
<1> QED
  BY <1>9, <1>10, <1>12, <1>13, <1>14, <1>15, <1>16 DEF IInv

\* The driver's steps up to the request, the end of the call, and the idle
\* rounds of main's loop.
LEMMA AwaitFreeInvariant == IInv /\ AwaitFree => IInv'
<1> SUFFICES ASSUME IInv, AwaitFree PROVE IInv'
  OBVIOUS
<1> USE DEF IInv, AwaitFree, chipVars
<1>1. TypeOK' /\ Counted' /\ ReceiveRingUntouched'
  BY DEF TypeOK, Counted, Call, Total, Busy, ReceiveRingUntouched
<1>2. Cursor' /\ FrameInMemory'
  BY DEF Cursor, Filling, Busy, Filled, First, Total, FrameInMemory, Call
<1>3. FrameBounds' /\ FrameOnLine'
  BY DEF FrameBounds, OnLine, FrameOnLine, Total, Call
<1> QED
  BY <1>1, <1>2, <1>3

\* ETXND is set to the last byte of the frame.
LEMMA SetEndInvariant == IInv /\ SetEnd => IInv'
<1> SUFFICES ASSUME IInv, SetEnd PROVE IInv'
  OBVIOUS
<1> USE DEF IInv, SetEnd
<1>1. /\ Total \in Nat \ {0}
      /\ TX_BUFFER_START_ADDR + Total + STATUS_SIZE <= MEM_END_ADDR
  BY ChainFacts DEF TypeOK, Total
<1>2. tx_buff_ptr - 1 = TX_BUFFER_START_ADDR + Total
  <2>1. Filled = 1 + Total
    BY DEF Cursor, Busy, Filling
  <2>2. tx_buff_ptr \in Nat /\ TX_BUFFER_START_ADDR \in Nat
    BY Halves DEF TypeOK, TxAddr
  <2> QED
    BY <1>1, <2>1, <2>2 DEF Filled
<1>3. tx_buff_ptr - 1 \in Pointer
  BY <1>1, <1>2, Halves, TxAssumption DEF TxAddr, Pointer
<1>4. TypeOK' /\ Counted' /\ ReceiveRingUntouched'
  BY <1>3 DEF TypeOK, Counted, Call, Total, Busy, ReceiveRingUntouched
<1>5. Cursor' /\ FrameInMemory'
  BY DEF Cursor, Filling, Busy, Filled, First, Total, FrameInMemory, Call
<1>6. FrameBounds' /\ FrameOnLine'
  BY <1>2 DEF FrameBounds, OnLine, FrameOnLine, Total, Call
<1> QED
  BY <1>4, <1>5, <1>6

\* ETXST is set to the control byte.
LEMMA SetStartInvariant == IInv /\ SetStart => IInv'
<1> SUFFICES ASSUME IInv, SetStart PROVE IInv'
  OBVIOUS
<1> USE DEF IInv, SetStart
<1>1. TX_BUFFER_START_ADDR \in Pointer
  BY Halves DEF TxAddr, Pointer
<1>2. TypeOK' /\ Counted' /\ ReceiveRingUntouched'
  BY <1>1 DEF TypeOK, Counted, Call, Total, Busy, ReceiveRingUntouched
<1>3. Cursor' /\ FrameInMemory'
  BY DEF Cursor, Filling, Busy, Filled, First, Total, FrameInMemory, Call
<1>4. FrameBounds' /\ FrameOnLine'
  BY DEF FrameBounds, OnLine, FrameOnLine, Total, Call
<1> QED
  BY <1>2, <1>3, <1>4

\* The transmission is requested.
LEMMA RequestInvariant == IInv /\ Request => IInv'
<1> SUFFICES ASSUME IInv, Request PROVE IInv'
  OBVIOUS
<1> USE DEF IInv, Request
<1>1. TypeOK' /\ Counted' /\ ReceiveRingUntouched'
  BY DEF TypeOK, Counted, Call, Total, Busy, ReceiveRingUntouched
<1>2. Cursor' /\ FrameInMemory'
  BY DEF Cursor, Filling, Busy, Filled, First, Total, FrameInMemory, Call
<1>3. FrameBounds' /\ FrameOnLine'
  BY DEF FrameBounds, OnLine, FrameOnLine, Total, Call
<1> QED
  BY <1>1, <1>2, <1>3

\* The call returns.
LEMMA AwaitEndInvariant == IInv /\ AwaitEnd => IInv'
<1> SUFFICES ASSUME IInv, AwaitEnd PROVE IInv'
  OBVIOUS
<1> USE DEF IInv, AwaitEnd, chipVars
<1>1. TX_BUFFER_START_ADDR \in TxAddr
  BY Halves DEF TxAddr
<1>2. TypeOK' /\ Counted' /\ ReceiveRingUntouched'
  BY <1>1 DEF TypeOK, Counted, Call, Total, Busy, ReceiveRingUntouched
<1>3. Cursor' /\ FrameInMemory'
  BY DEF Cursor, Filling, Busy, Total, FrameInMemory
<1>4. FrameBounds' /\ FrameOnLine'
  BY DEF FrameBounds, OnLine, FrameOnLine, Total, Call
<1> QED
  BY <1>2, <1>3, <1>4

------------------------------
(* The transmitter. *)

\* What the transmitter finds while it runs.
LEMMA WhileSending ==
  ASSUME IInv, TXRTS
  PROVE  /\ OnLine /\ Filled = 1 + Total
         /\ Total \in Nat \ {0} /\ Len(out) \in Nat
         /\ ETXST = TX_BUFFER_START_ADDR
         /\ ETXND = TX_BUFFER_START_ADDR + Total
         /\ TX_BUFFER_START_ADDR + Total + STATUS_SIZE <= MEM_END_ADDR
         /\ STATUS_SIZE \in Nat
         /\ \A n \in 0..Total : mem[TX_BUFFER_START_ADDR + n] = <<Call, n>>
<1>1. OnLine /\ Filled = 1 + Total
  BY DEF IInv, FrameOnLine, OnLine, Cursor, Busy, Filling
<1>2. /\ Total \in Nat \ {0} /\ STATUS_SIZE \in Nat
      /\ TX_BUFFER_START_ADDR + Total + STATUS_SIZE <= MEM_END_ADDR
  BY ChainFacts, TxAssumption DEF IInv, TypeOK, Total
<1>3. \A n \in 0..Filled - 1 : mem[TX_BUFFER_START_ADDR + n] = <<Call, n>>
  BY <1>1 DEF IInv, FrameInMemory, OnLine, Busy
<1>4. Len(out) \in Nat
  BY LenProperties DEF IInv, TypeOK
<1> QED
  BY <1>1, <1>2, <1>3, <1>4 DEF IInv, FrameBounds

\* A byte goes out: it is the next one of the frame.
LEMMA TxByteInvariant == IInv /\ TxByte => IInv'
<1> SUFFICES ASSUME IInv, TxByte PROVE IInv'
  OBVIOUS
<1>1. /\ OnLine /\ Total \in Nat \ {0} /\ Len(out) \in Nat
      /\ ETXST = TX_BUFFER_START_ADDR
      /\ ETXND = TX_BUFFER_START_ADDR + Total
      /\ TX_BUFFER_START_ADDR + Total + STATUS_SIZE <= MEM_END_ADDR
      /\ STATUS_SIZE \in Nat
      /\ \A n \in 0..Total : mem[TX_BUFFER_START_ADDR + n] = <<Call, n>>
  BY WhileSending DEF TxByte
<1> DEFINE k == 1 + Len(out)
<1>2. k \in 1..Total
  BY <1>1, Halves DEF TxByte
<1>3. mem[Plus(ETXST, k)] = <<Call, k>>
  <2>1. Plus(ETXST, k) = TX_BUFFER_START_ADDR + k
    BY <1>1, <1>2, Addresses, Halves
  <2> QED
    BY <1>1, <1>2, <2>1
<1>4. out' = Append(out, <<Call, k>>)
  BY <1>3 DEF TxByte
<1>5. <<Call, k>> \in Byte
  BY <1>2, TxAssumption, LenProperties
     DEF IInv, TypeOK, Counted, Call, Byte
<1>6. out \in Seq(Byte) /\ out = [i \in 1..Len(out) |-> <<Call, i>>]
  BY DEF IInv, TypeOK, FrameOnLine
<1>7. /\ out' \in Seq(Byte) /\ Len(out') = k
      /\ \A i \in 1..Len(out) : out'[i] = out[i]
      /\ out'[k] = <<Call, k>>
  BY <1>4, <1>5, <1>6, AppendProperties
<1>8. out' = [i \in 1..k |-> <<Call, i>>]
  <2>1. ASSUME NEW i \in 1..k PROVE out'[i] = <<Call, i>>
    <3>1. CASE i \in 1..Len(out)
      BY <1>6, <1>7, <3>1
    <3>2. CASE i = k
      BY <1>7, <3>2
    <3> QED
      BY <1>1, <3>1, <3>2
  <2>2. out' = [i \in 1..Len(out') |-> out'[i]]
    BY <1>7
  <2> QED
    BY <1>7, <2>1, <2>2
<1>9. TypeOK'
  BY <1>7 DEF IInv, TxByte, TypeOK
<1>10. Counted' /\ Cursor' /\ ReceiveRingUntouched'
  BY DEF IInv, TxByte, Counted, Call, Total, Busy, Cursor, Filling, Filled,
         First, ReceiveRingUntouched
<1>11. FrameInMemory' /\ FrameBounds'
  BY DEF IInv, TxByte, FrameInMemory, Filled, Call, Busy, FrameBounds,
         OnLine, Total
<1>12. FrameOnLine'
  <2>1. TXRTS' /\ pc' = "await_end" /\ Call' = Call /\ Total' = Total
    BY <1>1 DEF TxByte, OnLine, Call, Total
  <2> QED
    BY <1>2, <1>7, <1>8, <2>1 DEF FrameOnLine
<1> QED
  BY <1>9, <1>10, <1>11, <1>12 DEF IInv

\* The frame is out; its status vector is written behind it.
LEMMA TxEndInvariant == IInv /\ TxEnd => IInv'
<1> SUFFICES ASSUME IInv, TxEnd PROVE IInv'
  OBVIOUS
<1>1. /\ OnLine /\ Total \in Nat \ {0}
      /\ ETXND = TX_BUFFER_START_ADDR + Total
      /\ TX_BUFFER_START_ADDR + Total + STATUS_SIZE <= MEM_END_ADDR
      /\ STATUS_SIZE \in Nat
  BY WhileSending DEF TxEnd
<1>2. pc' = "await_end" /\ ~TXRTS' /\ out' = <<>> /\ Len(out') = 0
  BY <1>1 DEF TxEnd, OnLine
<1>3. ASSUME NEW n \in 1..STATUS_SIZE PROVE Plus(ETXND, n) = ETXND + n
  BY <1>1, Addresses, Halves
<1>4. ReceiveRingUntouched'
  <2>1. ASSUME NEW a \in RxAddr PROVE mem'[a] = Unwritten
    <3>1. \A n \in 1..STATUS_SIZE : a # Plus(ETXND, n)
      BY <1>1, <1>3, Halves DEF RxAddr, RX_BUFFER_START_ADDR
    <3>2. a \in Addr
      BY Halves DEF RxAddr, Addr, RX_BUFFER_START_ADDR
    <3> QED
      BY <3>1, <3>2 DEF IInv, TxEnd, ReceiveRingUntouched
  <2> QED
    BY <2>1 DEF ReceiveRingUntouched
<1>5. TypeOK'
  <2>1. Status \in Byte
    BY TxAssumption DEF Status, Byte
  <2>2. mem' \in [Addr -> Byte]
    BY <2>1 DEF IInv, TypeOK, TxEnd
  <2>3. line' \in Seq(Seq(Byte)) /\ out' \in Seq(Byte)
    BY <1>2, AppendProperties, EmptySeq DEF IInv, TypeOK, TxEnd
  <2> QED
    BY <2>2, <2>3 DEF IInv, TypeOK, TxEnd
<1>6. Counted' /\ Cursor'
  BY DEF IInv, TxEnd, Counted, Call, Total, Busy, Cursor, Filling, Filled,
         First
<1>7. FrameInMemory' /\ FrameBounds'
  BY <1>2 DEF FrameInMemory, FrameBounds, OnLine
<1>8. FrameOnLine'
  <2>1. Total' = Total
    BY DEF TxEnd, Total
  <2> QED
    BY <1>1, <1>2, <2>1 DEF FrameOnLine
<1> QED
  BY <1>4, <1>5, <1>6, <1>7, <1>8 DEF IInv

\* The frame is given up.
LEMMA TxAbortInvariant == IInv /\ TxAbort => IInv'
<1> SUFFICES ASSUME IInv, TxAbort PROVE IInv'
  OBVIOUS
<1>1. OnLine /\ Total \in Nat \ {0}
  BY WhileSending DEF TxAbort
<1>2. pc' = "await_end" /\ ~TXRTS' /\ out' = <<>> /\ Len(out') = 0
  BY <1>1 DEF TxAbort, OnLine
<1>3. TypeOK' /\ ReceiveRingUntouched'
  BY EmptySeq DEF IInv, TxAbort, TypeOK, ReceiveRingUntouched
<1>4. Counted' /\ Cursor'
  BY DEF IInv, TxAbort, Counted, Call, Total, Busy, Cursor, Filling, Filled,
         First
<1>5. FrameInMemory' /\ FrameBounds'
  BY <1>2 DEF FrameInMemory, FrameBounds, OnLine
<1>6. FrameOnLine'
  <2>1. Total' = Total
    BY DEF TxAbort, Total
  <2> QED
    BY <1>1, <1>2, <2>1 DEF FrameOnLine
<1> QED
  BY <1>3, <1>4, <1>5, <1>6 DEF IInv

------------------------------
(* The theorems. *)

\* Every step of the transmit path keeps the invariant.
LEMMA NextInvariant == IInv /\ [Next]_vars => IInv'
<1> SUFFICES ASSUME IInv, [Next]_vars PROVE IInv'
  OBVIOUS
<1>1. CASE Output
  BY <1>1, OutputInvariant
<1>2. CASE Writer
  BY <1>2, PointWriteInvariant, WriteBufInvariant, AwaitFreeInvariant,
     SetEndInvariant, SetStartInvariant, RequestInvariant, AwaitEndInvariant
     DEF Writer
<1>3. CASE Transmitter
  BY <1>3, TxByteInvariant, TxEndInvariant, TxAbortInvariant DEF Transmitter
<1>4. CASE UNCHANGED vars
  <2> USE <1>4 DEF IInv, vars
  <2>1. TypeOK' /\ Counted' /\ ReceiveRingUntouched'
    BY DEF TypeOK, Counted, Call, Total, Busy, ReceiveRingUntouched
  <2>2. Cursor' /\ FrameInMemory'
    BY DEF Cursor, Filling, Busy, Filled, First, Total, FrameInMemory, Call
  <2>3. FrameBounds' /\ FrameOnLine'
    BY DEF FrameBounds, OnLine, FrameOnLine, Total, Call
  <2> QED
    BY <2>1, <2>2, <2>3
<1> QED
  BY <1>1, <1>2, <1>3, <1>4 DEF Next, Quiet

\* The inductive invariant holds throughout, wherever between two SPI
\* transactions of low_level_output the transmitter takes its steps.
THEOREM Invariance == Spec => []IInv
<1>1. Init => IInv
  BY InitInvariant
<1>2. IInv /\ [Next]_vars => IInv'
  BY NextInvariant
<1> QED
  BY <1>1, <1>2, PTL DEF Spec

\* Whatever is written or sent is in the transmit half, status vector included
\* (enc28j60.c:105-138).
THEOREM PointersStayInHalf == Spec => []PointersInHalf
<1>1. ASSUME IInv, pc = "write"
      PROVE  EWRPT..EWRPT + Length - 1 \subseteq TxAddr
  BY <1>1, WriteFits, Halves DEF IInv, Cursor, Filling, TxAddr
<1>2. ASSUME IInv, TXRTS
      PROVE  /\ ETXST \in TxAddr /\ ETXST < ETXND
             /\ ETXND + STATUS_SIZE \in TxAddr
  BY <1>2, WhileSending, Halves DEF TxAddr
<1>3. IInv => PointersInHalf
  BY <1>1, <1>2 DEF PointersInHalf
<1> QED
  BY <1>3, Invariance, PTL

\* Nothing is ever written into the receive ring (enc28j60.c:105-124).
THEOREM ReceiveRingSafe == Spec => []ReceiveRingUntouched
<1>1. IInv => ReceiveRingUntouched
  BY DEF IInv
<1> QED
  BY <1>1, Invariance, PTL

------------------------------
(* Refinement: low_level_output implements the line of module TxLine. *)

\* The phase of the current call, as the line sees it.
Phase == CASE pc = "idle" -> "idle"
           [] pc = "await_end" /\ ~TXRTS -> "ended"
           [] OTHER -> "queued"

\* Every step is a step of the line, or changes nothing there: a call is
\* submitted, the end of the transmission transmits it whole or gives it up,
\* and the call returns.
LEMMA LineStep == IInv /\ [Next]_vars => [Line!Next]_(Line!vars)
<1> SUFFICES ASSUME IInv, [Next]_vars
             PROVE  Line!Next \/ UNCHANGED <<requested, line, Phase>>
  BY DEF Line!vars, Phase
<1>1. ASSUME Output
      PROVE  \E n \in {c[1].tot_len : c \in Chains} : Line!Submit(n)
  <2>1. PICK c \in Chains : requested' = Append(requested, c[1].tot_len)
    BY <1>1 DEF Output
  <2>2. pc = "idle" /\ pc' = "point" /\ UNCHANGED line
    BY <1>1 DEF Output, chipVars
  <2>3. Phase = "idle" /\ Phase' = "queued"
    BY <2>2 DEF Phase
  <2>4. Line!Submit(c[1].tot_len)
    BY <1>1, <2>1, <2>2, <2>3 DEF Line!Submit, Output, Phase
  <2> QED
    BY <2>4
<1>2. ASSUME TxEnd
      PROVE  Line!Transmit
  <2>1. /\ OnLine /\ Total \in Nat \ {0} /\ Len(out) \in Nat
        /\ ETXST = TX_BUFFER_START_ADDR
        /\ ETXND = TX_BUFFER_START_ADDR + Total
    BY <1>2, WhileSending DEF TxEnd
  <2>2. Len(out) = Total
    <3>1. Len(out) <= Total
      BY DEF IInv, FrameOnLine
    <3>2. ETXST + 1 + Len(out) > ETXND
      BY <1>2 DEF TxEnd
    <3> QED
      BY <2>1, <3>1, <3>2, Halves
  <2>3. Total = requested[Call]
    BY <2>1 DEF IInv, Counted, OnLine, Busy
  <2>4. out = Line!Bytes(Call, requested[Call])
    BY <2>2, <2>3 DEF IInv, FrameOnLine, Line!Bytes
  <2>5. Phase = "queued" /\ Phase' = "ended"
    BY <1>2, <2>1 DEF Phase, OnLine, TxEnd
  <2> QED
    BY <1>2, <2>4, <2>5 DEF Line!Transmit, TxEnd, Call, Phase
<1>3. ASSUME TxAbort
      PROVE  Line!GiveUp
  <2>1. OnLine
    BY <1>3, WhileSending DEF TxAbort
  <2>2. Phase = "queued" /\ Phase' = "ended"
    BY <1>3, <2>1 DEF Phase, OnLine, TxAbort
  <2> QED
    BY <1>3, <2>2 DEF Line!GiveUp, TxAbort, Phase
<1>4. ASSUME AwaitEnd
      PROVE  Line!Return
  <2>1. Phase = "ended" /\ Phase' = "idle"
    BY <1>4 DEF Phase, AwaitEnd
  <2> QED
    BY <1>4, <2>1 DEF Line!Return, AwaitEnd, chipVars, Phase
<1>5. ASSUME \/ PointWrite \/ WriteBuf \/ AwaitFree \/ SetEnd \/ SetStart
             \/ Request \/ TxByte \/ UNCHANGED vars
      PROVE  UNCHANGED <<requested, line, Phase>>
  <2>1. UNCHANGED <<requested, line>>
    BY <1>5 DEF PointWrite, WriteBuf, AwaitFree, SetEnd, SetStart, Request,
       TxByte, chipVars, vars
  <2>2. UNCHANGED Phase
    <3>1. CASE UNCHANGED <<pc, TXRTS>>
      BY <3>1 DEF Phase
    <3>2. CASE Request
      BY <3>2 DEF Phase, Request
    <3>3. CASE PointWrite \/ WriteBuf \/ AwaitFree \/ SetEnd \/ SetStart
      <4>1. /\ pc \notin {"idle", "await_end"}
            /\ pc' \notin {"idle", "await_end"}
        BY <3>3 DEF PointWrite, WriteBuf, AwaitFree, SetEnd, SetStart
      <4> QED
        BY <4>1 DEF Phase
    <3> QED
      BY <1>5, <3>1, <3>2, <3>3 DEF TxByte, vars
  <2> QED
    BY <2>1, <2>2
<1> QED
  BY <1>1, <1>2, <1>3, <1>4, <1>5
     DEF Next, Quiet, Writer, Transmitter, Line!Next

\* Every frame given to low_level_output goes out at most once, complete and
\* in order, and the call returns only after that.
THEOREM ImplementsLine == Spec => LineSpec
<1>1. Init => Line!Init
  BY DEF Init, Line!Init
<1> QED
  BY <1>1, LineStep, Invariance, PTL DEF Spec, LineSpec, Line!Spec

=============================================================================
