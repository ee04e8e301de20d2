----------------------------- MODULE ReassProofs -----------------------------
(***************************************************************************)
(* Proofs about reassembly (Reass), for any datagrams, lengths, sizes of   *)
(* links, pbufs and limits: no pbuf is lost or queued twice, and what is   *)
(* in the list is what its fragments say.                                  *)
(***************************************************************************)
EXTENDS Reass, FiniteSetTheorems, SequenceTheorems, WellFoundedInduction, TLAPS

-----------------------------------------------------------------------------
(* The inductive invariant.                                                *)

Parts == [start : Nat, end : Nat, pbuf : FragPbufs, of : Datagrams]
Entries == [id : Datagrams, timer : 0..IP_REASS_MAXAGE, p : Seq(Parts),
            datagram_len : Nat, hdr : Nat]

\* The fragments of a datagram: its own, in order and apart, each in a pbuf of
\* its own.
GoodParts(p, id) ==
  /\ \A k \in 1..Len(p) :
       p[k].of = id /\ p[k].start < p[k].end /\ p[k].end <= DataLen
  /\ \A k, l \in 1..Len(p) : k < l => p[k].end <= p[l].start
  /\ \A k, l \in 1..Len(p) : p[k].pbuf = p[l].pbuf => k = l

\* Its length is known if the last fragment is there, its header is the first
\* fragment's if that is.
GoodEntry(r) ==
  /\ GoodParts(r.p, r.id)
  /\ r.datagram_len =
       IF \E k \in 1..Len(r.p) : r.p[k].end = DataLen THEN DataLen ELSE 0
  /\ (\E k \in 1..Len(r.p) : r.p[k].start = 0) => r.hdr = 0

\* A datagram has one entry, a pbuf is in one of them.
OpenList(list) ==
  /\ list \in Seq(Entries)
  /\ \A i \in 1..Len(list) : GoodEntry(list[i])
  /\ \A i, j \in 1..Len(list) :
       i # j => /\ list[i].id # list[j].id
                /\ PbufsOf(list[i]) \cap PbufsOf(list[j]) = {}

GoodList(list) ==
  OpenList(list) /\ \A i \in 1..Len(list) : list[i].p # <<>>

Members(list) == {list[i] : i \in 1..Len(list)}
Queued(list) == UNION {PbufsOf(r) : r \in Members(list)}

IInv ==
  /\ GoodList(reassdatagrams)
  /\ busy = Queued(reassdatagrams) /\ IsFiniteSet(busy)
  /\ ip_reass_pbufcount = Clen(busy)
  /\ ip_reass_pbufcount <= IP_REASS_MAX_PBUFS
  /\ Len(reassdatagrams) <= MEMP_NUM_REASSDATA

-----------------------------------------------------------------------------
(* Numbers and recursion.                                                  *)

\* Every inhabited set of naturals has a least element.
LEMMA LeastOf ==
  ASSUME NEW S, S \subseteq Nat, S # {}
  PROVE  \E x \in S : \A y \in S : x <= y
<1>1. PICK x \in S : \A y \in S : ~(<<y, x>> \in OpToRel(<, Nat))
  BY WFMin, NatLessThanWellFounded, Zenon
<1>2. \A y \in S : ~(y < x)
  BY <1>1 DEF OpToRel
<1> QED
  BY <1>2

\* A set that has 0 and with a number the next has all.
LEMMA UpTo ==
  ASSUME NEW L \in Nat, NEW B, 0 \in B, \A n \in 1..L : n - 1 \in B => n \in B
  PROVE  \A n \in 0..L : n \in B
<1> SUFFICES ASSUME NEW m \in 0..L, m \notin B PROVE FALSE
  OBVIOUS
<1> DEFINE S == {n \in 0..L : n \notin B}
<1>1. PICK x \in S : \A y \in S : x <= y
  <2>1. S \subseteq Nat /\ S # {}
    OBVIOUS
  <2> HIDE DEF S
  <2> QED
    BY <2>1, LeastOf
<1>2. x \in 1..L
  OBVIOUS
<1>3. x - 1 \in 0..L /\ x - 1 \notin S
  BY <1>1, <1>2
<1> QED
  BY <1>2, <1>3

\* A function is defined by its first value and the step from each to the
\* next.
Follows(f, X, x, L, G) ==
  /\ f \in [0..L -> X]
  /\ f = [n \in 0..L |-> IF n = 0 THEN x ELSE G[n][f[n - 1]]]

\* What recurs over the numbers up to L is defined.
LEMMA Defined ==
  ASSUME NEW X, NEW x \in X, NEW L \in Nat, NEW G \in [1..L -> [X -> X]]
  PROVE  \E f : Follows(f, X, x, L, G)
<1> DEFINE Good(f, m) ==
             /\ f \in [0..m -> X] /\ f[0] = x
             /\ \A n \in 1..m : f[n] = G[n][f[n - 1]]
           B == {m \in 0..L : \E f : Good(f, m)}
<1>1. 0 \in B
  <2> DEFINE f == [n \in 0..0 |-> x]
  <2>1. Good(f, 0)
    OBVIOUS
  <2> HIDE DEF f, Good
  <2> QED
    BY <2>1
<1>2. ASSUME NEW m \in 1..L, m - 1 \in B
      PROVE  m \in B
  <2>1. PICK f : Good(f, m - 1)
    BY <1>2
  <2> DEFINE y == G[m][f[m - 1]]
             g == [n \in 0..m |-> IF n = m THEN y ELSE f[n]]
  <2>2. m - 1 \in 0..m - 1 /\ f[m - 1] \in X
    BY <2>1
  <2>3. y \in X
    BY <2>2
  <2>4. g \in [0..m -> X]
    BY <2>1, <2>3
  <2>5. g[0] = x
    BY <2>1
  <2>6. ASSUME NEW n \in 1..m PROVE g[n] = G[n][g[n - 1]]
    <3>1. g[n - 1] = f[n - 1]
      OBVIOUS
    <3>2. CASE n = m
      BY <3>1, <3>2
    <3>3. CASE n # m
      <4>1. g[n] = f[n] /\ n \in 1..m - 1
        BY <3>3
      <4> QED
        BY <4>1, <3>1, <2>1
    <3> QED
      BY <3>2, <3>3
  <2> HIDE DEF g
  <2> QED
    BY <2>4, <2>5, <2>6
<1>3. L \in B
  <2>1. \A n \in 1..L : n - 1 \in B => n \in B
    BY <1>2
  <2>2. L \in 0..L
    OBVIOUS
  <2> HIDE DEF B
  <2> QED
    BY <1>1, <2>1, <2>2, UpTo
<1>4. PICK f : Good(f, L)
  BY <1>3
<1>5. f = [n \in 0..L |-> IF n = 0 THEN x ELSE G[n][f[n - 1]]]
  <2>1. \A n \in 0..L : f[n] = IF n = 0 THEN x ELSE G[n][f[n - 1]]
    BY <1>4
  <2> QED
    BY <1>4, <2>1
<1> QED
  BY <1>4, <1>5 DEF Follows

-----------------------------------------------------------------------------
(* Sequences.                                                              *)

\* A list without its k-th element.
LEMMA WithoutIs ==
  ASSUME NEW X, NEW list \in Seq(X), NEW k \in 1..Len(list)
  PROVE  /\ Without(list, k) \in Seq(X)
         /\ Len(Without(list, k)) = Len(list) - 1
         /\ \A i \in 1..Len(list) - 1 :
              Without(list, k)[i] = IF i < k THEN list[i] ELSE list[i + 1]
<1> DEFINE a == SubSeq(list, 1, k - 1)
           b == SubSeq(list, k + 1, Len(list))
           new == a \o b
<1>1. /\ Len(list) \in Nat /\ k \in Nat /\ 1 <= k /\ k <= Len(list)
      /\ \A i \in 1..Len(list) : list[i] \in X
  BY LenProperties, ElementOfSeq
<1>2. /\ a \in Seq(X) /\ Len(a) = k - 1
      /\ \A i \in 1..k - 1 : a[i] = list[i]
  BY <1>1, SubSeqProperties
<1>3. /\ b \in Seq(X) /\ Len(b) = Len(list) - k
      /\ \A i \in 1..Len(b) : b[i] = list[k + i]
  BY <1>1, SubSeqProperties
<1>q. Without(list, k) = new
  BY DEF Without
<1> HIDE DEF a, b
<1>4. /\ new \in Seq(X) /\ Len(new) = Len(a) + Len(b)
      /\ \A i \in 1..Len(a) + Len(b) :
           new[i] = IF i <= Len(a) THEN a[i] ELSE b[i - Len(a)]
  BY <1>2, <1>3, ConcatProperties
<1> HIDE DEF new
<1>5. ASSUME NEW i \in 1..Len(list) - 1
      PROVE  new[i] = IF i < k THEN list[i] ELSE list[i + 1]
  <2>1. CASE i < k
    BY <1>1, <1>2, <1>3, <1>4, <2>1
  <2>2. CASE i >= k
    <3>1. i - (k - 1) \in 1..Len(b) /\ k + (i - (k - 1)) = i + 1
      BY <1>1, <1>2, <1>3, <1>4, <2>2
    <3>2. i \in 1..Len(a) + Len(b) /\ ~(i <= Len(a)) /\ i - Len(a) = i - (k - 1)
      BY <1>1, <1>2, <1>3, <2>2
    <3>3. new[i] = b[i - (k - 1)]
      BY <1>4, <3>2
    <3> QED
      BY <1>1, <1>3, <2>2, <3>1, <3>3
  <2> QED
    BY <1>1, <2>1, <2>2
<1>6. Len(new) = Len(list) - 1
  BY <1>1, <1>2, <1>3, <1>4
<1> QED
  BY <1>4, <1>5, <1>6, <1>q

\* new is list with e in place k.
PutAt(list, e, new, k) ==
  /\ Len(new) = Len(list) + 1
  /\ \A i \in 1..Len(list) + 1 : new[i] = IF i < k THEN list[i]
                                          ELSE IF i = k THEN e ELSE list[i - 1]

\* A list with an element put in its place.
LEMMA InsertedIs ==
  ASSUME NEW X, NEW list \in Seq(X), NEW e \in X,
         NEW k \in 1..Len(list) + 1, k = Place(list, e)
  PROVE  Inserted(list, e) \in Seq(X) /\ PutAt(list, e, Inserted(list, e), k)
<1> DEFINE a == SubSeq(list, 1, k - 1)
           b == SubSeq(list, k, Len(list))
           ae == a \o <<e>>
           new == ae \o b
<1>1. /\ Len(list) \in Nat /\ k \in Nat /\ 1 <= k /\ k <= Len(list) + 1
      /\ \A i \in 1..Len(list) : list[i] \in X
  BY LenProperties, ElementOfSeq
<1>2. /\ a \in Seq(X) /\ Len(a) = k - 1
      /\ \A i \in 1..k - 1 : a[i] = list[i]
  BY <1>1, SubSeqProperties
<1>3. /\ b \in Seq(X) /\ Len(b) = Len(list) - (k - 1)
      /\ \A i \in 1..Len(b) : b[i] = list[k + i - 1]
  BY <1>1, SubSeqProperties
<1>4. Inserted(list, e) = new
  BY DEF Inserted
<1> HIDE DEF a, b
<1>5. /\ ae \in Seq(X) /\ Len(ae) = k
      /\ \A i \in 1..k - 1 : ae[i] = list[i]
      /\ ae[k] = e
  BY <1>1, <1>2
<1> HIDE DEF ae
<1>6. /\ new \in Seq(X) /\ Len(new) = Len(ae) + Len(b)
      /\ \A i \in 1..Len(ae) + Len(b) :
           new[i] = IF i <= Len(ae) THEN ae[i] ELSE b[i - Len(ae)]
  BY <1>3, <1>5, ConcatProperties
<1> HIDE DEF new
<1>7. ASSUME NEW i \in 1..Len(list) + 1
      PROVE  new[i] = IF i < k THEN list[i] ELSE IF i = k THEN e ELSE list[i - 1]
  <2>1. new[i] = IF i <= k THEN ae[i] ELSE b[i - k]
    BY <1>1, <1>3, <1>5, <1>6
  <2>2. CASE i <= k
    BY <1>1, <1>5, <2>1, <2>2
  <2>3. CASE i > k
    <3>1. i - k \in 1..Len(b) /\ k + (i - k) - 1 = i - 1
      BY <1>1, <1>3, <2>3
    <3>2. new[i] = b[i - k]
      BY <1>1, <2>1, <2>3
    <3>3. b[i - k] = list[k + (i - k) - 1]
      BY <1>3, <3>1
    <3>4. k + (i - k) - 1 = i - 1 /\ ~(i < k) /\ i # k
      BY <1>1, <2>3
    <3>5. list[k + (i - k) - 1] = list[i - 1]
      BY <3>4
    <3> QED
      BY <3>2, <3>3, <3>4, <3>5
  <2> QED
    BY <1>1, <2>2, <2>3
<1>8. Len(new) = Len(list) + 1
  BY <1>1, <1>3, <1>5, <1>6
<1> QED
  BY <1>4, <1>6, <1>7, <1>8 DEF PutAt

\* An entry that is changed in its place.
LEMMA ReplacedIs ==
  ASSUME NEW X, NEW list \in Seq(X), NEW k \in 1..Len(list), NEW e \in X
  PROVE  /\ [list EXCEPT ![k] = e] \in Seq(X)
         /\ Len([list EXCEPT ![k] = e]) = Len(list)
         /\ \A i \in 1..Len(list) :
              [list EXCEPT ![k] = e][i] = IF i = k THEN e ELSE list[i]
  BY LenProperties, ElementOfSeq, ExceptSeq

\* A list with an element in front.
LEMMA InFrontIs ==
  ASSUME NEW X, NEW list \in Seq(X), NEW e \in X
  PROVE  /\ <<e>> \o list \in Seq(X)
         /\ Len(<<e>> \o list) = Len(list) + 1
         /\ \A i \in 1..Len(list) + 1 :
              (<<e>> \o list)[i] = IF i = 1 THEN e ELSE list[i - 1]
<1>1. Len(list) \in Nat
  BY LenProperties
<1>2. PICK s \in Seq(X) : s = <<e>> /\ Len(s) = 1 /\ s[1] = e
  <2>1. <<e>> \in Seq(X) /\ Len(<<e>>) = 1 /\ <<e>>[1] = e
    OBVIOUS
  <2> QED
    BY <2>1
<1>3. /\ s \o list \in Seq(X)
      /\ Len(s \o list) = Len(s) + Len(list)
      /\ \A i \in 1..Len(s) + Len(list) :
           (s \o list)[i] = IF i <= Len(s) THEN s[i] ELSE list[i - Len(s)]
  BY ConcatProperties
<1> QED
  BY <1>1, <1>2, <1>3

-----------------------------------------------------------------------------
(* The length of pbufs.                                                    *)

\* The pbufs of a set are counted by a number, zero only for none.
LEMMA ClenType ==
  ASSUME NEW S, IsFiniteSet(S)
  PROVE  Clen(S) \in Nat /\ (S # {} => Clen(S) > 0) /\ (S = {} => Clen(S) = 0)
<1>1. Cardinality(S) \in Nat /\ (Cardinality(S) = 0 <=> S = {})
  BY FS_CardinalityType, FS_EmptySet
<1>2. IsFiniteSet(S \cap Chained) /\ Cardinality(S \cap Chained) <= Cardinality(S)
  BY FS_Intersection
<1>3. Cardinality(S \cap Chained) \in Nat
  BY <1>2, FS_CardinalityType
<1> QED
  BY <1>1, <1>2, <1>3 DEF Clen

\* The counts of disjoint sets add up.
LEMMA ClenAdd ==
  ASSUME NEW S, NEW T, IsFiniteSet(S), IsFiniteSet(T), S \cap T = {}
  PROVE  IsFiniteSet(S \union T) /\ Clen(S \union T) = Clen(S) + Clen(T)
<1> DEFINE C1 == S \cap Chained
           C2 == T \cap Chained
<1>1. IsFiniteSet(C1) /\ IsFiniteSet(C2)
  BY FS_Intersection
<1>2. /\ Cardinality(S) \in Nat /\ Cardinality(T) \in Nat
      /\ Cardinality(C1) \in Nat /\ Cardinality(C2) \in Nat
  BY <1>1, FS_CardinalityType
<1>3. Cardinality({}) = 0 /\ C1 \cap C2 = {}
  BY FS_EmptySet
<1>4. /\ IsFiniteSet(S \union T)
      /\ Cardinality(S \union T) = Cardinality(S) + Cardinality(T)
  <2>1. /\ IsFiniteSet(S \union T)
        /\ Cardinality(S \union T) =
             Cardinality(S) + Cardinality(T) - Cardinality(S \cap T)
    BY FS_Union
  <2>2. Cardinality(S \cap T) = 0
    BY <1>3
  <2>3. \A x, y \in Nat : x + y - 0 = x + y
    OBVIOUS
  <2> QED
    BY <1>2, <2>1, <2>2, <2>3
<1>5. Cardinality(C1 \union C2) = Cardinality(C1) + Cardinality(C2)
  <2> HIDE DEF C1, C2
  <2>1. Cardinality(C1 \union C2) =
          Cardinality(C1) + Cardinality(C2) - Cardinality(C1 \cap C2)
    BY <1>1, FS_Union
  <2>2. Cardinality(C1 \cap C2) = 0
    BY <1>3
  <2>3. \A x, y \in Nat : x + y - 0 = x + y
    OBVIOUS
  <2> QED
    BY <1>2, <2>1, <2>2, <2>3
<1>6. (S \union T) \cap Chained = C1 \union C2
  OBVIOUS
<1>7. /\ Clen(S) = Cardinality(S) + Cardinality(C1)
      /\ Clen(T) = Cardinality(T) + Cardinality(C2)
      /\ Clen(S \union T) = Cardinality(S \union T) + Cardinality(C1 \union C2)
  BY <1>6 DEF Clen
<1> HIDE DEF C1, C2
<1> QED
  BY <1>2, <1>4, <1>5, <1>7

\* Taking pbufs out of a set takes their count from its count.
LEMMA ClenLess ==
  ASSUME NEW S, NEW T, IsFiniteSet(S), T \subseteq S
  PROVE  /\ IsFiniteSet(S \ T) /\ IsFiniteSet(T)
         /\ Clen(S \ T) = Clen(S) - Clen(T)
         /\ Clen(S \ T) \in Nat /\ Clen(S) \in Nat /\ Clen(T) \in Nat
<1>1. IsFiniteSet(S \ T) /\ IsFiniteSet(T)
  BY FS_Subset, FS_Difference
<1>2. Clen(S \ T) \in Nat /\ Clen(T) \in Nat
  BY <1>1, ClenType
<1>3. PICK D : D = S \ T
  OBVIOUS
<1>4. D \union T = S /\ D \cap T = {}
  BY <1>3
<1>5. Clen(D \union T) = Clen(D) + Clen(T)
  BY <1>1, <1>3, <1>4, ClenAdd
<1>6. Clen(S) = Clen(S \ T) + Clen(T)
  BY <1>3, <1>4, <1>5
<1>7. \A x, y \in Nat : \A z : z = x + y => x = z - y /\ z \in Nat
  OBVIOUS
<1> QED
  BY <1>1, <1>2, <1>6, <1>7

\* A single fragment counts its own chain.
LEMMA ClenOne ==
  ASSUME NEW p
  PROVE  /\ IsFiniteSet({p}) /\ Clen({p}) = pbuf_clen(p)
         /\ pbuf_clen(p) \in 1..2
<1>1. IsFiniteSet({p}) /\ Cardinality({p}) = 1 /\ Cardinality({}) = 0
  BY FS_Singleton, FS_EmptySet
<1>2. {p} \cap Chained = IF p \in Chained THEN {p} ELSE {}
  OBVIOUS
<1> QED
  BY <1>1, <1>2 DEF Clen, pbuf_clen

-----------------------------------------------------------------------------
(* The list and its entries.                                               *)

\* The fields of a datagram under reassembly.
LEMMA EntryHas ==
  ASSUME NEW r \in Entries
  PROVE  /\ r.id \in Datagrams /\ r.timer \in 0..IP_REASS_MAXAGE /\ r.timer \in Nat
         /\ r.p \in Seq(Parts) /\ r.datagram_len \in Nat /\ r.hdr \in Nat
         /\ Len(r.p) \in Nat /\ DOMAIN r.p = 1..Len(r.p)
         /\ PbufsOf(r) = {r.p[k].pbuf : k \in 1..Len(r.p)}
         /\ \A k \in 1..Len(r.p) :
              /\ r.p[k] \in Parts /\ r.p[k].pbuf \in FragPbufs
              /\ r.p[k].start \in Nat /\ r.p[k].end \in Nat
<1>1. /\ r.id \in Datagrams /\ r.timer \in 0..IP_REASS_MAXAGE
      /\ r.p \in Seq(Parts) /\ r.datagram_len \in Nat /\ r.hdr \in Nat
  BY DEF Entries
<1>2. Len(r.p) \in Nat /\ DOMAIN r.p = 1..Len(r.p)
  BY <1>1, LenProperties
<1>3. \A k \in 1..Len(r.p) : r.p[k] \in Parts
  BY <1>1, <1>2, ElementOfSeq
<1>4. IP_REASS_MAXAGE \in Nat
  BY ReassAssumption
<1>5. r.timer \in Nat
  BY <1>1, <1>4
<1>6. PbufsOf(r) = {r.p[k].pbuf : k \in 1..Len(r.p)}
  BY <1>2 DEF PbufsOf
<1> QED
  BY <1>1, <1>2, <1>3, <1>5, <1>6 DEF Parts

\* What a well-formed list of datagrams holds.
LEMMA ListHas ==
  ASSUME NEW list, OpenList(list)
  PROVE  /\ list \in Seq(Entries) /\ Len(list) \in Nat
         /\ DOMAIN list = 1..Len(list)
         /\ \A i \in 1..Len(list) : list[i] \in Entries /\ GoodEntry(list[i])
         /\ Queued(list) \subseteq FragPbufs
<1>1. list \in Seq(Entries) /\ Len(list) \in Nat /\ DOMAIN list = 1..Len(list)
  BY LenProperties DEF OpenList
<1>2. \A i \in 1..Len(list) : list[i] \in Entries /\ GoodEntry(list[i])
  BY <1>1, ElementOfSeq DEF OpenList
<1>3. \A i \in 1..Len(list) : PbufsOf(list[i]) \subseteq FragPbufs
  <2>1. \A r \in Entries : PbufsOf(r) \subseteq FragPbufs
    <3> SUFFICES ASSUME NEW r \in Entries PROVE PbufsOf(r) \subseteq FragPbufs
      OBVIOUS
    <3> QED
      BY EntryHas
  <2> QED
    BY <1>2, <2>1
<1>4. Queued(list) \subseteq FragPbufs
  BY <1>3 DEF Queued, Members
<1> QED
  BY <1>1, <1>2, <1>4

\* A fragment goes before those that start behind it.
LEMMA PlaceIs ==
  ASSUME NEW p \in Seq(Parts), NEW id, GoodParts(p, id), NEW e \in Parts
  PROVE  /\ Place(p, e) \in 1..Len(p) + 1
         /\ \A j \in 1..Len(p) : p[j].start <= e.start <=> j < Place(p, e)
<1>1. Len(p) \in Nat /\ DOMAIN p = 1..Len(p)
  BY LenProperties
<1>2. \A k \in 1..Len(p) : p[k].start \in Nat /\ p[k].end \in Nat
  <2>1. \A k \in 1..Len(p) : p[k] \in Parts
    BY ElementOfSeq
  <2> QED
    BY <2>1 DEF Parts
<1>3. e.start \in Nat
  BY DEF Parts
<1>4. \A k, l \in 1..Len(p) : k < l => p[k].start < p[l].start
  BY <1>2 DEF GoodParts
<1> DEFINE D == {k \in 1..Len(p) : p[k].start <= e.start}
           N == {k \in 1..Len(p) : ~(p[k].start <= e.start)}
<1>5. \E m \in 0..Len(p) : \A j \in 1..Len(p) : p[j].start <= e.start <=> j <= m
  <2>1. CASE N = {}
    <3>1. \A j \in 1..Len(p) : p[j].start <= e.start /\ j <= Len(p)
      BY <2>1
    <3>2. Len(p) \in 0..Len(p)
      BY <1>1
    <3> QED
      BY <3>1, <3>2
  <2>2. CASE N # {}
    <3>1. N \subseteq Nat
      OBVIOUS
    <3> HIDE DEF N
    <3>2. PICK x \in N : \A y \in N : x <= y
      BY <2>2, <3>1, LeastOf
    <3> USE DEF N
    <3>3. x \in 1..Len(p) /\ e.start < p[x].start
      BY <1>2, <1>3, <3>2
    <3>4. \A j \in 1..Len(p) : j < x => p[j].start <= e.start
      BY <3>2
    <3>5. \A j \in 1..Len(p) : j >= x => ~(p[j].start <= e.start)
      BY <1>2, <1>3, <1>4, <3>3
    <3>6. x - 1 \in 0..Len(p) /\ \A j \in 1..Len(p) : j <= x - 1 <=> j < x
      BY <1>1, <3>3
    <3>7. \A j \in 1..Len(p) : p[j].start <= e.start <=> j <= x - 1
      BY <3>3, <3>4, <3>5, <3>6
    <3> QED
      BY <3>6, <3>7
  <2> QED
    BY <2>1, <2>2
<1>6. PICK m \in 0..Len(p) : \A j \in 1..Len(p) : p[j].start <= e.start <=> j <= m
  BY <1>5
<1>7. D = 1..m
  BY <1>1, <1>6
<1>8. Cardinality(1..m) = m
  <2>1. Cardinality(1..m) = IF 1 > m THEN 0 ELSE m - 1 + 1
    BY FS_Interval
  <2> QED
    BY <2>1
<1>9. Place(p, e) = m + 1
  BY <1>1, <1>7, <1>8 DEF Place
<1> QED
  BY <1>1, <1>6, <1>9

-----------------------------------------------------------------------------
(* Datagrams that are given up.                                            *)

GoodStates ==
  {S \in [list : Seq(Entries), count : Nat, freed : SUBSET FragPbufs,
          told : SUBSET Datagrams] :
     /\ GoodList(S.list) /\ IsFiniteSet(Queued(S.list))
     /\ S.count = Clen(Queued(S.list))}

Given(S, G) == {r \in Members(S.list) : r.id \in G}
Lost(S, G)  == UNION {PbufsOf(r) : r \in Given(S, G)}
Told(S, G)  == {r.id : r \in {r \in Given(S, G) : r.p[1].start = 0}}

\* T is S after the datagrams G were given up.
Gone(S, T, G) ==
  /\ T \in GoodStates
  /\ G \subseteq {r.id : r \in Members(S.list)}
  /\ Members(T.list) = {r \in Members(S.list) : r.id \notin G}
  /\ Len(T.list) <= Len(S.list) /\ (G # {} => Len(T.list) < Len(S.list))
  /\ T.freed = S.freed \union Lost(S, G)
  /\ T.told = S.told \union Told(S, G)
  /\ Queued(T.list) = Queued(S.list) \ Lost(S, G)

\* What a good state of ip4_reass holds.
LEMMA StateHas ==
  ASSUME NEW S \in GoodStates
  PROVE  /\ GoodList(S.list) /\ OpenList(S.list) /\ IsFiniteSet(Queued(S.list))
         /\ S.count = Clen(Queued(S.list)) /\ S.count \in Nat
         /\ S.freed \subseteq FragPbufs /\ S.told \subseteq Datagrams
         /\ S = [list |-> S.list, count |-> S.count, freed |-> S.freed,
                 told |-> S.told]
  BY DEF GoodStates, GoodList

\* A state put together from good parts is good.
LEMMA MakeState ==
  ASSUME NEW list, NEW count, NEW freed \in SUBSET FragPbufs,
         NEW told \in SUBSET Datagrams, GoodList(list),
         IsFiniteSet(Queued(list)), count = Clen(Queued(list))
  PROVE  [list |-> list, count |-> count, freed |-> freed, told |-> told]
           \in GoodStates
<1>1. count \in Nat
  BY ClenType
<1>2. list \in Seq(Entries)
  BY DEF GoodList, OpenList
<1> QED
  BY <1>1, <1>2 DEF GoodStates

\* Two members of a list with the same name are one.
LEMMA MemberIs ==
  ASSUME NEW list, OpenList(list)
  PROVE  /\ \A i \in 1..Len(list) : list[i] \in Members(list)
         /\ \A r \in Members(list) :
              /\ r \in Entries /\ GoodEntry(r)
              /\ \E i \in 1..Len(list) : r = list[i]
         /\ \A r, s \in Members(list) :
              /\ r.id = s.id => r = s
              /\ r # s => PbufsOf(r) \cap PbufsOf(s) = {}
<1>1. \A i \in 1..Len(list) : list[i] \in Entries /\ GoodEntry(list[i])
  BY ListHas
<1>2. ASSUME NEW r \in Members(list), NEW s \in Members(list)
      PROVE  /\ r.id = s.id => r = s
             /\ r # s => PbufsOf(r) \cap PbufsOf(s) = {}
  <2>1. PICK i \in 1..Len(list) : r = list[i]
    BY DEF Members
  <2>2. PICK j \in 1..Len(list) : s = list[j]
    BY DEF Members
  <2>3. i # j => /\ list[i].id # list[j].id
                 /\ PbufsOf(list[i]) \cap PbufsOf(list[j]) = {}
    BY DEF OpenList
  <2> QED
    BY <2>1, <2>2, <2>3
<1> QED
  BY <1>1, <1>2 DEF Members

\* A datagram leaves the list.
LEMMA WithoutKeeps ==
  ASSUME NEW list, OpenList(list), NEW k \in 1..Len(list)
  PROVE  /\ OpenList(Without(list, k))
         /\ (\A i \in 1..Len(list) : i # k => list[i].p # <<>>)
              => GoodList(Without(list, k))
         /\ Len(Without(list, k)) = Len(list) - 1
         /\ Members(Without(list, k)) = Members(list) \ {list[k]}
         /\ Members(Without(list, k)) =
              {r \in Members(list) : r.id # list[k].id}
         /\ Queued(Without(list, k)) = Queued(list) \ PbufsOf(list[k])
<1> DEFINE new == Without(list, k)
           At(i) == IF i < k THEN i ELSE i + 1
<1>1. list \in Seq(Entries) /\ Len(list) \in Nat
  BY ListHas
<1>2. /\ new \in Seq(Entries) /\ Len(new) = Len(list) - 1
      /\ \A i \in 1..Len(new) : new[i] = list[At(i)]
  BY <1>1, WithoutIs
<1>3. /\ \A i \in 1..Len(new) : At(i) \in 1..Len(list) /\ At(i) # k
      /\ \A i, j \in 1..Len(new) : i # j => At(i) # At(j)
      /\ \A j \in 1..Len(list) : j # k => \E i \in 1..Len(new) : At(i) = j
  <2>1. \A i \in 1..Len(new) : At(i) \in 1..Len(list) /\ At(i) # k
    BY <1>1, <1>2
  <2>2. \A i, j \in 1..Len(new) : i # j => At(i) # At(j)
    BY <1>1, <1>2
  <2>3. ASSUME NEW j \in 1..Len(list), j # k
        PROVE  \E i \in 1..Len(new) : At(i) = j
    <3>1. CASE j < k
      BY <1>1, <1>2, <3>1
    <3>2. CASE j > k
      <4>1. j - 1 \in 1..Len(new) /\ At(j - 1) = j
        BY <1>1, <1>2, <3>2
      <4> QED
        BY <4>1
    <3> QED
      BY <2>3, <3>1, <3>2
  <2> QED
    BY <2>1, <2>2, <2>3
<1> HIDE DEF new, At
<1>4. OpenList(new)
  <2>1. \A i \in 1..Len(new) : GoodEntry(new[i])
    BY <1>2, <1>3 DEF OpenList
  <2>2. \A i, j \in 1..Len(new) :
          i # j => /\ new[i].id # new[j].id
                   /\ PbufsOf(new[i]) \cap PbufsOf(new[j]) = {}
    <3> SUFFICES ASSUME NEW i \in 1..Len(new), NEW j \in 1..Len(new), i # j
                 PROVE  /\ new[i].id # new[j].id
                        /\ PbufsOf(new[i]) \cap PbufsOf(new[j]) = {}
      OBVIOUS
    <3>1. PICK x \in 1..Len(list), y \in 1..Len(list) :
            x # y /\ new[i] = list[x] /\ new[j] = list[y]
      BY <1>2, <1>3
    <3>2. /\ list[x].id # list[y].id
          /\ PbufsOf(list[x]) \cap PbufsOf(list[y]) = {}
      BY <3>1 DEF OpenList
    <3> QED
      BY <3>1, <3>2
  <2> QED
    BY <1>2, <2>1, <2>2 DEF OpenList
<1>5. (\A i \in 1..Len(list) : i # k => list[i].p # <<>>) => GoodList(new)
  BY <1>2, <1>3, <1>4 DEF GoodList
<1>6. \A j \in 1..Len(list) : j # k => list[j] # list[k]
  BY DEF OpenList
<1>7. Members(new) = Members(list) \ {list[k]}
  <2>1. \A i \in 1..Len(new) : new[i] \in Members(list) /\ new[i] # list[k]
    BY <1>2, <1>3, <1>6 DEF Members
  <2>2. ASSUME NEW j \in 1..Len(list), list[j] # list[k]
        PROVE  \E i \in 1..Len(new) : new[i] = list[j]
    BY <1>2, <1>3, <2>2
  <2> QED
    BY <2>1, <2>2 DEF Members
<1>8. Members(new) = {r \in Members(list) : r.id # list[k].id}
  BY <1>7, MemberIs
<1>9. Queued(new) = Queued(list) \ PbufsOf(list[k])
  <2>1. \A r \in Members(list) : r # list[k] => PbufsOf(r) \cap PbufsOf(list[k]) = {}
    BY MemberIs
  <2> QED
    BY <1>7, <2>1 DEF Queued
<1> QED
  BY <1>2, <1>4, <1>5, <1>7, <1>8, <1>9 DEF new

\* One datagram is given up.
LEMMA FreeGone ==
  ASSUME NEW S \in GoodStates, NEW i \in 1..Len(S.list)
  PROVE  Gone(S, ip_reass_free_complete_datagram(S, i), {S.list[i].id})
<1> DEFINE r == S.list[i]
           new == Without(S.list, i)
           told == IF r.p[1].start = 0 THEN S.told \union {r.id} ELSE S.told
           T == [list |-> new, count |-> S.count - Clen(PbufsOf(r)),
                 freed |-> S.freed \union PbufsOf(r), told |-> told]
<1>1. T = ip_reass_free_complete_datagram(S, i)
  BY DEF ip_reass_free_complete_datagram
<1>2. /\ GoodList(S.list) /\ OpenList(S.list) /\ IsFiniteSet(Queued(S.list))
      /\ S.count = Clen(Queued(S.list))
      /\ S.freed \subseteq FragPbufs /\ S.told \subseteq Datagrams
  BY StateHas
<1>3. r \in Members(S.list) /\ r \in Entries /\ Len(S.list) \in Nat
  BY <1>2, ListHas, MemberIs
<1>4. /\ GoodList(new) /\ Len(new) = Len(S.list) - 1
      /\ Members(new) = {s \in Members(S.list) : s.id # r.id}
      /\ Queued(new) = Queued(S.list) \ PbufsOf(r)
  <2>1. PICK list : list = S.list
    OBVIOUS
  <2>2. \A j \in 1..Len(list) : list[j].p # <<>>
    BY <1>2, <2>1 DEF GoodList
  <2>3. OpenList(list) /\ i \in 1..Len(list)
    BY <1>2, <2>1
  <2>4. /\ GoodList(Without(list, i))
        /\ Len(Without(list, i)) = Len(list) - 1
        /\ Members(Without(list, i)) = {s \in Members(list) : s.id # list[i].id}
        /\ Queued(Without(list, i)) = Queued(list) \ PbufsOf(list[i])
    BY <2>2, <2>3, WithoutKeeps
  <2> QED
    BY <2>1, <2>4
<1>5. PbufsOf(r) \subseteq Queued(S.list) /\ Queued(S.list) \subseteq FragPbufs
  BY <1>2, <1>3, ListHas DEF Queued
<1>6. /\ IsFiniteSet(Queued(new))
      /\ S.count - Clen(PbufsOf(r)) = Clen(Queued(new))
  BY <1>2, <1>4, <1>5, ClenLess
<1>7. r.id \in Datagrams
  BY <1>3, EntryHas
<1>8. Given(S, {r.id}) = {r}
  BY <1>2, <1>3, MemberIs DEF Given
<1>9. Lost(S, {r.id}) = PbufsOf(r)
  BY <1>8 DEF Lost
<1>10. told = S.told \union Told(S, {r.id})
  BY <1>8 DEF Told
<1>11. T \in GoodStates
  <2>1. S.freed \union PbufsOf(r) \in SUBSET FragPbufs
    BY <1>2, <1>5
  <2>2. told \in SUBSET Datagrams
    BY <1>2, <1>7
  <2> HIDE DEF new, told, r
  <2> QED
    BY <1>4, <1>6, <2>1, <2>2, MakeState
<1>12. Members(T.list) = {s \in Members(S.list) : s.id \notin {r.id}}
  BY <1>4
<1>13. Len(T.list) < Len(S.list) /\ Len(T.list) <= Len(S.list)
  BY <1>3, <1>4
<1>14. Gone(S, T, {r.id})
  <2> HIDE DEF new, told, r
  <2> QED
    BY <1>3, <1>4, <1>9, <1>10, <1>11, <1>12, <1>13 DEF Gone
<1> QED
  BY <1>1, <1>14

\* Dropping nothing leaves the state alone.
LEMMA GoneNone ==
  ASSUME NEW S \in GoodStates
  PROVE  Gone(S, S, {})
<1>1. Given(S, {}) = {}
  BY DEF Given
<1>2. Lost(S, {}) = {} /\ Told(S, {}) = {}
  BY <1>1 DEF Lost, Told
<1>3. Len(S.list) \in Nat
  BY StateHas, ListHas
<1> QED
  BY <1>2, <1>3 DEF Gone

\* Some are given up, then others.
LEMMA GoneMore ==
  ASSUME NEW S, NEW T, NEW U, NEW G, NEW H,
         S \in GoodStates, Gone(S, T, G), Gone(T, U, H)
  PROVE  Gone(S, U, G \union H) /\ G \cap H = {}
<1>1. /\ Members(T.list) = {r \in Members(S.list) : r.id \notin G}
      /\ T \in GoodStates /\ U \in GoodStates
  BY DEF Gone
<1>2. G \cap H = {}
  BY <1>1 DEF Gone
<1>3. Given(S, G \union H) = Given(S, G) \union Given(T, H)
  BY <1>1, <1>2 DEF Given
<1>4. Lost(S, G \union H) = Lost(S, G) \union Lost(T, H)
  BY <1>3 DEF Lost
<1>5. Told(S, G \union H) = Told(S, G) \union Told(T, H)
  BY <1>3 DEF Told
<1>6. G \union H \subseteq {r.id : r \in Members(S.list)}
  BY <1>1 DEF Gone
<1>7. Members(U.list) = {r \in Members(S.list) : r.id \notin G \union H}
  BY <1>1 DEF Gone
<1>8. /\ Len(U.list) <= Len(S.list)
      /\ G \union H # {} => Len(U.list) < Len(S.list)
  <2>1. Len(S.list) \in Nat /\ Len(T.list) \in Nat /\ Len(U.list) \in Nat
    BY <1>1, StateHas, ListHas
  <2>2. /\ Len(T.list) <= Len(S.list) /\ (G # {} => Len(T.list) < Len(S.list))
        /\ Len(U.list) <= Len(T.list) /\ (H # {} => Len(U.list) < Len(T.list))
    BY DEF Gone
  <2> QED
    BY <2>1, <2>2
<1>9. /\ U.freed = S.freed \union Lost(S, G \union H)
      /\ U.told = S.told \union Told(S, G \union H)
      /\ Queued(U.list) = Queued(S.list) \ Lost(S, G \union H)
  <2>1. /\ T.freed = S.freed \union Lost(S, G) /\ U.freed = T.freed \union Lost(T, H)
        /\ T.told = S.told \union Told(S, G) /\ U.told = T.told \union Told(T, H)
        /\ Queued(T.list) = Queued(S.list) \ Lost(S, G)
        /\ Queued(U.list) = Queued(T.list) \ Lost(T, H)
    BY DEF Gone
  <2> QED
    BY <1>4, <1>5, <2>1
<1> QED
  BY <1>1, <1>2, <1>6, <1>7, <1>8, <1>9 DEF Gone

\* IP_ADDRESSES_AND_ID_MATCH tells datagrams apart.
LEMMA MatchesIs ==
  ASSUME NEW a \in Datagrams, NEW b \in Datagrams
  PROVE  Matches(a, b) <=> a = b
<1>1. a \in Nat \X Nat /\ b \in Nat \X Nat
  BY ReassAssumption
<1> QED
  BY <1>1 DEF Matches

\* What is given up for room is another datagram, and none has less time.
LEMMA OldestIs ==
  ASSUME NEW S \in GoodStates, NEW id \in Datagrams, Others(S, id) # {}
  PROVE  /\ Oldest(S, id) \in 1..Len(S.list)
         /\ S.list[Oldest(S, id)].id # id
         /\ \A r \in Members(S.list) :
              r.id # id => S.list[Oldest(S, id)].timer <= r.timer
<1>1. /\ DOMAIN S.list = 1..Len(S.list) /\ Len(S.list) \in Nat
      /\ \A i \in 1..Len(S.list) : S.list[i].id \in Datagrams /\ S.list[i].timer \in Nat
  BY StateHas, ListHas, EntryHas
<1>2. Others(S, id) = {i \in 1..Len(S.list) : S.list[i].id # id}
  BY <1>1, MatchesIs DEF Others
<1> DEFINE O == Others(S, id)
           D == {S.list[i].timer : i \in O}
<1>3. PICK t \in D : \A u \in D : t <= u
  <2>1. D \subseteq Nat /\ D # {}
    BY <1>1, <1>2
  <2> HIDE DEF D
  <2> QED
    BY <2>1, LeastOf
<1>4. \A i \in O : S.list[i].timer \in Nat /\ t \in Nat /\ t <= S.list[i].timer
  BY <1>1, <1>2, <1>3
<1> DEFINE E == {i \in O : S.list[i].timer = t}
           F == {Len(S.list) - i : i \in E}
<1>5. PICK d \in F : \A y \in F : d <= y
  <2>1. \A i \in E : i \in 1..Len(S.list)
    BY <1>2
  <2>2. E # {}
    BY <1>3
  <2>3. \A i \in 1..Len(S.list) : Len(S.list) - i \in Nat
    BY <1>1
  <2>4. F \subseteq Nat /\ F # {}
    <3> HIDE DEF E
    <3> QED
      BY <2>1, <2>2, <2>3
  <2> HIDE DEF F
  <2> QED
    BY <2>4, LeastOf
<1>6. PICK i \in E : d = Len(S.list) - i
  BY <1>5
<1>7. ASSUME NEW j \in E PROVE j <= i
  <2>1. Len(S.list) - j \in F
    OBVIOUS
  <2>2. Len(S.list) - i <= Len(S.list) - j
    BY <1>5, <1>6, <2>1
  <2>3. i \in 1..Len(S.list) /\ j \in 1..Len(S.list)
    BY <1>2
  <2> QED
    BY <1>1, <2>2, <2>3
<1>8. i \in O /\ S.list[i].timer = t
  BY <1>6
<1>9. \A j \in O : \/ S.list[i].timer < S.list[j].timer
                   \/ S.list[i].timer = S.list[j].timer /\ j <= i
  BY <1>4, <1>7, <1>8
<1>10. /\ Oldest(S, id) \in O
       /\ \A j \in O : \/ S.list[Oldest(S, id)].timer < S.list[j].timer
                       \/ S.list[Oldest(S, id)].timer = S.list[j].timer
                            /\ j <= Oldest(S, id)
  BY <1>8, <1>9 DEF Oldest
<1>11. \A j \in O : S.list[Oldest(S, id)].timer <= S.list[j].timer
  BY <1>4, <1>10
<1> QED
  BY <1>2, <1>10, <1>11 DEF Members

\* Those in G may be given up for id: none of the others is older.
Spent(S, G, id) ==
  /\ id \notin G
  /\ \A r, s \in Members(S.list) :
       r.id \in G /\ s.id \notin G /\ s.id # id => r.timer <= s.timer

\* One turn of ip_reass_remove_oldest_datagram drops a datagram, or leaves off.
LEMMA GiveUpIs ==
  ASSUME NEW S \in GoodStates, NEW T, NEW G, NEW id \in Datagrams, NEW need,
         Gone(S, T, G), Spent(S, G, id)
  PROVE  LET U == GiveUp(T, id, need)
         IN  \/ U = T
             \/ \E H : H # {} /\ Gone(S, U, G \union H) /\ Spent(S, G \union H, id)
<1> DEFINE U == GiveUp(T, id, need)
<1>1. CASE Clen(T.freed) >= need \/ Others(T, id) = {}
  BY <1>1 DEF GiveUp
<1>2. CASE ~(Clen(T.freed) >= need \/ Others(T, id) = {})
  <2>1. T \in GoodStates /\ Members(T.list) = {r \in Members(S.list) : r.id \notin G}
    BY DEF Gone
  <2>2. PICK i : i = Oldest(T, id)
    OBVIOUS
  <2>3. U = ip_reass_free_complete_datagram(T, i)
    BY <1>2, <2>2 DEF GiveUp
  <2>4. /\ i \in 1..Len(T.list) /\ T.list[i].id # id
        /\ \A r \in Members(T.list) : r.id # id => T.list[i].timer <= r.timer
    BY <1>2, <2>1, <2>2, OldestIs
  <2>5. Gone(T, U, {T.list[i].id})
    BY <2>1, <2>3, <2>4, FreeGone
  <2>6. PICK H : H = {T.list[i].id}
    OBVIOUS
  <2>7. H # {} /\ Gone(S, U, G \union H)
    BY <2>5, <2>6, GoneMore
  <2>8. T.list[i] \in Members(T.list)
    BY <2>4 DEF Members
  <2>9. \A r \in Members(S.list) : r.id = T.list[i].id => r = T.list[i]
    <3>1. OpenList(S.list)
      BY StateHas
    <3> QED
      BY <2>1, <2>8, <3>1, MemberIs
  <2>10. Spent(S, G \union H, id)
    <3>1. ASSUME NEW r \in Members(S.list), NEW s \in Members(S.list),
                 r.id \in G \union H, s.id \notin G \union H, s.id # id
          PROVE  r.timer <= s.timer
      <4>1. s \in Members(T.list)
        BY <2>1, <3>1
      <4>2. CASE r.id \in G
        BY <3>1, <4>2 DEF Spent
      <4>3. CASE r.id \in H
        BY <2>4, <2>6, <2>9, <3>1, <4>1, <4>3
      <4> QED
        BY <3>1, <4>2, <4>3
    <3>2. id \notin G \union H
      BY <2>4, <2>6 DEF Spent
    <3> QED
      BY <3>1, <3>2 DEF Spent
  <2> QED
    BY <2>7, <2>10
<1> QED
  BY <1>1, <1>2

\* What ip_reass_remove_oldest_datagram gives up; something if it can.
LEMMA RemoveOldestIs ==
  ASSUME NEW S \in GoodStates, NEW id \in Datagrams, NEW need \in 1..2
  PROVE  \E G : /\ Gone(S, ip_reass_remove_oldest_datagram(S, id, need), G)
                /\ Spent(S, G, id)
                /\ S.freed = {} /\ (\E r \in Members(S.list) : r.id # id)
                     => G # {}
<1> DEFINE X == {T \in GoodStates : \E G : Gone(S, T, G) /\ Spent(S, G, id)}
           L == Len(S.list)
<1>1. L \in Nat
  BY StateHas, ListHas
<1>2. S \in X
  <2>1. Gone(S, S, {}) /\ Spent(S, {}, id)
    BY GoneNone DEF Spent
  <2> QED
    BY <2>1
<1>3. ASSUME NEW T \in X PROVE GiveUp(T, id, need) \in X
  <2>1. PICK G : Gone(S, T, G) /\ Spent(S, G, id)
    OBVIOUS
  <2>2. PICK U : U = GiveUp(T, id, need)
    OBVIOUS
  <2>3. \/ U = T
        \/ \E H : H # {} /\ Gone(S, U, G \union H) /\ Spent(S, G \union H, id)
    BY <2>1, <2>2, GiveUpIs
  <2>4. CASE U = T
    BY <2>2, <2>4
  <2>5. CASE U # T
    <3>1. PICK H : Gone(S, U, G \union H) /\ Spent(S, G \union H, id)
      BY <2>3, <2>5
    <3>2. U \in GoodStates
      BY <3>1 DEF Gone
    <3> QED
      BY <2>2, <3>1, <3>2
  <2> QED
    BY <2>4, <2>5
<1> HIDE DEF X, L
<1>4. \E f : f = [n \in 0..L |-> IF n = 0 THEN S ELSE GiveUp(f[n - 1], id, need)]
  <2> DEFINE G == [n \in 1..L |-> [T \in X |-> GiveUp(T, id, need)]]
  <2>1. G \in [1..L -> [X -> X]]
    BY <1>3
  <2>2. \A n \in 1..L, T \in X : G[n][T] = GiveUp(T, id, need)
    OBVIOUS
  <2> HIDE DEF G
  <2>3. PICK f : Follows(f, X, S, L, G)
    BY <1>1, <1>2, <2>1, Defined
  <2>4. \A n \in 0..L : n # 0 => n \in 1..L /\ f[n - 1] \in X
    BY <1>1, <2>3 DEF Follows
  <2>5. f = [n \in 0..L |-> IF n = 0 THEN S ELSE GiveUp(f[n - 1], id, need)]
    BY <2>2, <2>3, <2>4 DEF Follows
  <2> QED
    BY <2>5
<1> DEFINE after == CHOOSE f : f = [n \in 0..L |-> IF n = 0 THEN S
                                                   ELSE GiveUp(f[n - 1], id, need)]
<1>5. after = [n \in 0..L |-> IF n = 0 THEN S ELSE GiveUp(after[n - 1], id, need)]
  BY <1>4
<1>6. ip_reass_remove_oldest_datagram(S, id, need) = after[L]
  BY DEF ip_reass_remove_oldest_datagram, L
<1> HIDE DEF after
<1>7. after[0] = S /\ \A n \in 1..L : after[n] = GiveUp(after[n - 1], id, need)
  BY <1>1, <1>5
<1> DEFINE Can == S.freed = {} /\ \E r \in Members(S.list) : r.id # id
           Has(T, n) == \E G : /\ Gone(S, T, G) /\ Spent(S, G, id)
                               /\ n # 0 /\ Can => G # {}
           B == {n \in 0..L : Has(after[n], n)}
<1>8. 0 \in B
  <2>1. Gone(S, S, {}) /\ Spent(S, {}, id)
    BY GoneNone DEF Spent
  <2> QED
    BY <1>1, <1>7, <2>1
<1>9. ASSUME Can PROVE ~(Clen(S.freed) >= need \/ Others(S, id) = {})
  <2>1. Clen(S.freed) = 0
    BY <1>9, ClenType, FS_EmptySet
  <2>2. PICK i \in 1..Len(S.list) : S.list[i].id # id
    BY <1>9 DEF Members
  <2>3. /\ DOMAIN S.list = 1..Len(S.list)
        /\ S.list[i].id \in Datagrams
    BY StateHas, ListHas, EntryHas
  <2>4. i \in Others(S, id)
    BY <2>2, <2>3, MatchesIs DEF Others
  <2> QED
    BY <2>1, <2>4
<1>10. ASSUME NEW n \in 1..L, n - 1 \in B
       PROVE  n \in B
  <2>1. PICK T, U : T = after[n - 1] /\ U = after[n]
    OBVIOUS
  <2>2. PICK G : /\ Gone(S, T, G) /\ Spent(S, G, id)
                 /\ n - 1 # 0 /\ Can => G # {}
    BY <1>10, <2>1
  <2>3. U = GiveUp(T, id, need)
    BY <1>7, <2>1
  <2>4. \/ U = T
        \/ \E H : H # {} /\ Gone(S, U, G \union H) /\ Spent(S, G \union H, id)
    BY <2>2, <2>3, GiveUpIs
  <2>5. CASE U = T
    <3>1. n = 1 /\ Can => G # {}
      <4> SUFFICES ASSUME n = 1, Can PROVE G # {}
        OBVIOUS
      <4>1. T = S
        BY <1>7, <2>1
      <4>2. U = ip_reass_free_complete_datagram(S, Oldest(S, id))
        BY <1>9, <2>3, <4>1 DEF GiveUp
      <4>3. Oldest(S, id) \in 1..Len(S.list)
        BY <1>9, OldestIs
      <4>4. Gone(S, U, {S.list[Oldest(S, id)].id})
        BY <4>2, <4>3, FreeGone
      <4>5. Len(S.list) < Len(S.list)
        BY <2>5, <4>1, <4>4 DEF Gone
      <4> QED
        BY <1>1, <4>5
    <3>2. n - 1 # 0 \/ n = 1
      OBVIOUS
    <3>3. Has(U, n)
      BY <2>2, <2>5, <3>1, <3>2
    <3> QED
      BY <2>1, <3>3
  <2>6. CASE U # T
    <3>1. PICK H : H # {} /\ Gone(S, U, G \union H) /\ Spent(S, G \union H, id)
      BY <2>4, <2>6
    <3>2. PICK K : K = G \union H
      OBVIOUS
    <3>3. Gone(S, U, K) /\ Spent(S, K, id) /\ K # {}
      BY <3>1, <3>2
    <3>4. Has(U, n)
      BY <3>3
    <3> QED
      BY <2>1, <3>4
  <2> QED
    BY <2>5, <2>6
<1>11. Has(after[L], L)
  <2>1. \A n \in 1..L : n - 1 \in B => n \in B
    BY <1>10
  <2>2. L \in B
    <3> HIDE DEF B
    <3>1. \A n \in 0..L : n \in B
      BY <1>1, <1>8, <2>1, UpTo
    <3> QED
      BY <1>1, <3>1
  <2> QED
    BY <2>2
<1>12. Can => L # 0
  BY <1>1 DEF Members, L
<1> QED
  BY <1>6, <1>11, <1>12

-----------------------------------------------------------------------------
(* A fragment that is taken.                                               *)

\* What ip4_frag makes, once or twice, of a datagram.
Piece(f) ==
  /\ f.id \in Datagrams /\ f.start \in Nat /\ f.end \in Nat
  /\ f.start < f.end /\ f.end <= DataLen
  /\ f.mf <=> f.end # DataLen

PartOf(f, p) == [start |-> f.start, end |-> f.end, pbuf |-> p, of |-> f.id]

\* A fragment cut again is a fragment of the same datagram.
LEMMA CutIs ==
  ASSUME NEW f, NEW size \in LinkSizes, Piece(f), NEW g \in ip4_frag(f, size)
  PROVE  Piece(g) /\ g.id = f.id
<1>1. /\ size \in Nat /\ UNIT \in Nat \ {0} /\ size % UNIT = 0 /\ size # 0
      /\ DataLen \in Nat
  BY ReassAssumption
<1>2. f.start \in Nat /\ f.end \in Nat
  BY DEF Piece
<1> DEFINE n == (size \div UNIT) * UNIT
<1>3. n = size
  <2>1. \A u \in Nat \ {0}, s \in Nat : s % u = 0 => (s \div u) * u = s
    OBVIOUS
  <2> QED
    BY <1>1, <2>1
<1>4. PICK k \in 0..f.end - f.start :
        LET m == k * (size \div UNIT) * UNIT
            left == f.end - f.start - m
        IN  /\ f.start + m < f.end
            /\ g = [id |-> f.id, start |-> f.start + m,
                    end |-> f.start + m + Least(left, n),
                    mf |-> left > size \/ f.mf]
  BY DEF ip4_frag
<1>5. PICK m : m = k * (size \div UNIT) * UNIT
  OBVIOUS
<1>6. m \in Nat
  <2>1. k \in Nat /\ size \div UNIT \in Nat /\ UNIT \in Nat
    BY <1>1, <1>2
  <2>2. \A a, b, c \in Nat : a * b * c \in Nat
    OBVIOUS
  <2> QED
    BY <1>5, <2>1, <2>2
<1>7. PICK left : left = f.end - f.start - m
  OBVIOUS
<1>8. /\ f.start + m < f.end
      /\ g.id = f.id /\ g.start = f.start + m
      /\ g.end = f.start + m + Least(left, size)
      /\ g.mf <=> left > size \/ f.mf
  BY <1>3, <1>4, <1>5, <1>7, Zenon
<1>9. left \in Nat /\ left > 0
  BY <1>2, <1>6, <1>7, <1>8
<1>10. CASE left < size
  <2>1. g.end = f.end
    BY <1>1, <1>2, <1>6, <1>7, <1>8, <1>10 DEF Least
  <2> QED
    BY <1>1, <1>2, <1>6, <1>7, <1>8, <1>9, <1>10, <2>1 DEF Piece
<1>11. CASE ~(left < size)
  <2>1. g.end = f.start + m + size /\ g.end <= f.end /\ g.end \in Nat
    BY <1>1, <1>2, <1>6, <1>7, <1>8, <1>9, <1>11 DEF Least
  <2>2. left > size <=> g.end # f.end
    BY <1>1, <1>2, <1>6, <1>7, <1>9, <1>11, <2>1
  <2>3. g.end # f.end => g.end # DataLen
    BY <1>1, <1>2, <2>1 DEF Piece
  <2> QED
    BY <1>1, <1>2, <1>6, <1>8, <2>1, <2>2, <2>3 DEF Piece
<1> QED
  BY <1>10, <1>11

\* Every fragment that arrives is a piece of its datagram.
LEMMA FragmentsAre == \A f \in Fragments : Piece(f)
<1>1. ASSUME NEW id \in Datagrams PROVE Piece(Whole(id))
  BY ReassAssumption DEF Piece, Whole
<1> DEFINE once == UNION {ip4_frag(Whole(id), s) : id \in Datagrams, s \in LinkSizes}
<1>2. ASSUME NEW f \in once PROVE Piece(f)
  <2>1. PICK id \in Datagrams, s \in LinkSizes : f \in ip4_frag(Whole(id), s)
    OBVIOUS
  <2>2. PICK w : w = Whole(id)
    OBVIOUS
  <2> QED
    BY <1>1, <2>1, <2>2, CutIs
<1>3. ASSUME NEW f \in Fragments PROVE Piece(f)
  <2>1. f \in once \/ \E g \in once, s \in LinkSizes : f \in ip4_frag(g, s)
    BY DEF Fragments
  <2> HIDE DEF once
  <2> QED
    BY <1>2, <2>1, CutIs
<1> QED
  BY <1>3

\* One that starts inside another, or reaches into one, overlaps.
LEMMA ApartIs ==
  ASSUME NEW p \in Seq(Parts), NEW id, GoodParts(p, id), NEW e \in Parts,
         e.start < e.end
  PROVE  ~Overlaps(p, e) <=>
           \A k \in 1..Len(p) : p[k].end <= e.start \/ e.end <= p[k].start
<1>1. Len(p) \in Nat /\ DOMAIN p = 1..Len(p)
  BY LenProperties
<1>2. \A k \in 1..Len(p) :
        /\ p[k].start \in Nat /\ p[k].end \in Nat /\ p[k].start < p[k].end
  <2>1. \A k \in 1..Len(p) : p[k] \in Parts
    BY ElementOfSeq
  <2> QED
    BY <2>1 DEF Parts, GoodParts
<1>3. e.start \in Nat /\ e.end \in Nat
  BY DEF Parts
<1>4. PICK n : n = Place(p, e)
  OBVIOUS
<1>5. /\ n \in 1..Len(p) + 1
      /\ \A k \in 1..Len(p) : p[k].start <= e.start <=> k < n
  BY <1>4, PlaceIs
<1>6. ASSUME NEW k \in 1..Len(p), p[k].end > e.start, e.end > p[k].start
      PROVE  Overlaps(p, e)
  <2>1. CASE p[k].start <= e.start
    BY <1>1, <1>2, <1>3, <1>6, <2>1 DEF Overlaps
  <2>2. CASE ~(p[k].start <= e.start)
    <3>1. n <= k /\ n \in 1..Len(p)
      BY <1>1, <1>5, <2>2
    <3>2. p[n].start <= p[k].start
      <4>1. CASE n = k
        BY <1>2, <4>1
      <4>2. CASE n < k
        <5>1. p[n].end <= p[k].start
          BY <3>1, <4>2 DEF GoodParts
        <5> QED
          BY <1>2, <3>1, <5>1
      <4> QED
        BY <3>1, <4>1, <4>2
    <3>3. e.end > p[n].start
      BY <1>2, <1>3, <1>6, <3>1, <3>2
    <3> QED
      BY <1>1, <1>4, <3>1, <3>3 DEF Overlaps
  <2> QED
    BY <2>1, <2>2
<1>7. ASSUME Overlaps(p, e)
      PROVE  \E k \in 1..Len(p) : p[k].end > e.start /\ e.end > p[k].start
  <2>1. PICK k \in 1..Len(p) :
          \/ p[k].start = e.start
          \/ p[k].start <= e.start /\ e.start < p[k].end
          \/ k = n /\ e.end > p[k].start
    BY <1>1, <1>4, <1>7 DEF Overlaps
  <2>2. k = n => p[k].end > e.start
    BY <1>2, <1>3, <1>5
  <2>3. p[k].end > e.start /\ e.end > p[k].start
    BY <1>2, <1>3, <2>1, <2>2
  <2> QED
    BY <2>3
<1>8. \A k \in 1..Len(p) : /\ p[k].end > e.start <=> ~(p[k].end <= e.start)
                           /\ e.end > p[k].start <=> ~(e.end <= p[k].start)
  BY <1>2, <1>3
<1> QED
  BY <1>6, <1>7, <1>8

\* new has the elements of p and e.
LEMMA PutHas ==
  ASSUME NEW p, NEW e, NEW new, Len(p) \in Nat, NEW k \in 1..Len(p) + 1,
         PutAt(p, e, new, k)
  PROVE  /\ \A j \in 1..Len(new) :
              \/ j = k /\ new[j] = e
              \/ j < k /\ j \in 1..Len(p) /\ new[j] = p[j]
              \/ j > k /\ j - 1 \in 1..Len(p) /\ new[j] = p[j - 1]
         /\ \A i \in 1..Len(p) : \E j \in 1..Len(new) : new[j] = p[i]
         /\ k \in 1..Len(new) /\ new[k] = e /\ Len(new) = Len(p) + 1
<1>1. /\ Len(new) = Len(p) + 1
      /\ \A j \in 1..Len(new) : new[j] = IF j < k THEN p[j]
                                         ELSE IF j = k THEN e ELSE p[j - 1]
  BY DEF PutAt
<1>2. ASSUME NEW i \in 1..Len(p)
      PROVE  \E j \in 1..Len(new) : new[j] = p[i]
  <2>1. CASE i < k
    <3>1. i \in 1..Len(new) /\ new[i] = p[i]
      BY <1>1, <2>1
    <3> QED
      BY <3>1
  <2>2. CASE ~(i < k)
    <3>1. i + 1 \in 1..Len(new) /\ ~(i + 1 < k) /\ i + 1 # k /\ (i + 1) - 1 = i
      BY <1>1, <2>2
    <3>2. new[i + 1] = p[i]
      BY <1>1, <3>1
    <3> QED
      BY <3>1, <3>2
  <2> QED
    BY <2>1, <2>2
<1>3. ASSUME NEW j \in 1..Len(new)
      PROVE  \/ j = k /\ new[j] = e
             \/ j < k /\ j \in 1..Len(p) /\ new[j] = p[j]
             \/ j > k /\ j - 1 \in 1..Len(p) /\ new[j] = p[j - 1]
  BY <1>1
<1>4. k \in 1..Len(new) /\ new[k] = e
  BY <1>1
<1> QED
  BY <1>1, <1>2, <1>3, <1>4

\* A fragment that overlaps no other takes its place among them.
LEMMA PartsGood ==
  ASSUME NEW p \in Seq(Parts), NEW id, GoodParts(p, id), NEW e \in Parts,
         e.start < e.end, e.end <= DataLen, e.of = id, ~Overlaps(p, e),
         \A k \in 1..Len(p) : p[k].pbuf # e.pbuf
  PROVE  /\ Inserted(p, e) \in Seq(Parts) /\ GoodParts(Inserted(p, e), id)
         /\ \E k \in 1..Len(p) + 1 : PutAt(p, e, Inserted(p, e), k)
<1>1. PICK n : n = Place(p, e)
  OBVIOUS
<1>2. /\ n \in 1..Len(p) + 1
      /\ \A k \in 1..Len(p) : p[k].start <= e.start <=> k < n
  BY <1>1, PlaceIs
<1>3. PICK new : new = Inserted(p, e)
  OBVIOUS
<1>4. new \in Seq(Parts) /\ PutAt(p, e, new, n)
  BY <1>1, <1>2, <1>3, InsertedIs
<1>5. Len(p) \in Nat
  BY LenProperties
<1>6. /\ \A j \in 1..Len(new) :
           \/ j = n /\ new[j] = e
           \/ j < n /\ j \in 1..Len(p) /\ new[j] = p[j]
           \/ j > n /\ j - 1 \in 1..Len(p) /\ new[j] = p[j - 1]
      /\ Len(new) = Len(p) + 1
  BY <1>2, <1>4, <1>5, PutHas
<1>7. \A k \in 1..Len(p) : p[k].end <= e.start \/ e.end <= p[k].start
  BY ApartIs
<1>8. /\ \A k \in 1..Len(p) :
           /\ p[k].start \in Nat /\ p[k].end \in Nat /\ p[k].start < p[k].end
      /\ e.start \in Nat /\ e.end \in Nat
  <2>1. \A k \in 1..Len(p) : p[k] \in Parts
    BY ElementOfSeq
  <2> QED
    BY <2>1 DEF Parts, GoodParts
<1>9. \A k \in 1..Len(p) : IF k < n THEN p[k].end <= e.start
                                    ELSE e.end <= p[k].start
  BY <1>2, <1>7, <1>8
<1>10. /\ \A k \in 1..Len(p) : p[k].of = id /\ p[k].end <= DataLen
       /\ \A k, l \in 1..Len(p) : k < l => p[k].end <= p[l].start
       /\ \A k, l \in 1..Len(p) : p[k].pbuf = p[l].pbuf => k = l
  BY DEF GoodParts
<1>11. \A j \in 1..Len(new) :
         new[j].of = id /\ new[j].start < new[j].end /\ new[j].end <= DataLen
  BY <1>6, <1>8, <1>10
<1>12. ASSUME NEW i \in 1..Len(new), NEW j \in 1..Len(new), i < j
       PROVE  new[i].end <= new[j].start
  <2>1. CASE i = n
    <3>1. new[i] = e /\ j - 1 \in 1..Len(p) /\ new[j] = p[j - 1] /\ ~(j - 1 < n)
      BY <1>2, <1>6, <1>12, <2>1
    <3> QED
      BY <1>9, <3>1
  <2>2. CASE j = n
    <3>1. new[j] = e /\ i \in 1..Len(p) /\ new[i] = p[i] /\ i < n
      BY <1>2, <1>6, <1>12, <2>2
    <3> QED
      BY <1>9, <3>1
  <2>3. CASE i # n /\ j # n
    <3>1. PICK x \in 1..Len(p), y \in 1..Len(p) :
            x < y /\ new[i] = p[x] /\ new[j] = p[y]
      <4>1. CASE j < n
        BY <1>2, <1>6, <1>12, <2>3, <4>1
      <4>2. CASE i > n
        <5>1. /\ i - 1 \in 1..Len(p) /\ new[i] = p[i - 1]
              /\ j - 1 \in 1..Len(p) /\ new[j] = p[j - 1] /\ i - 1 < j - 1
          BY <1>2, <1>6, <1>12, <2>3, <4>2
        <5> QED
          BY <5>1
      <4>3. CASE i < n /\ j > n
        <5>1. /\ i \in 1..Len(p) /\ new[i] = p[i]
              /\ j - 1 \in 1..Len(p) /\ new[j] = p[j - 1] /\ i < j - 1
          BY <1>2, <1>6, <1>12, <2>3, <4>3
        <5> QED
          BY <5>1
      <4> QED
        BY <1>2, <1>12, <2>3, <4>1, <4>2, <4>3
    <3> QED
      BY <1>10, <3>1
  <2> QED
    BY <2>1, <2>2, <2>3
<1>13. ASSUME NEW i \in 1..Len(new), NEW j \in 1..Len(new),
              new[i].pbuf = new[j].pbuf
       PROVE  i = j
  <2>1. \A x \in 1..Len(p) : p[x].pbuf # e.pbuf
    OBVIOUS
  <2>2. CASE i = n \/ j = n
    BY <1>6, <1>13, <2>1, <2>2
  <2>3. CASE i # n /\ j # n
    <3>1. PICK x \in 1..Len(p) :
            /\ new[i] = p[x]
            /\ (i < n /\ x = i) \/ (i > n /\ x = i - 1)
      <4>1. CASE i < n
        <5>1. i \in 1..Len(p) /\ new[i] = p[i]
          BY <1>2, <1>6, <4>1
        <5> QED
          BY <4>1, <5>1
      <4>2. CASE i > n
        <5>1. i - 1 \in 1..Len(p) /\ new[i] = p[i - 1]
          BY <1>2, <1>6, <4>2
        <5> QED
          BY <4>2, <5>1
      <4> QED
        BY <1>2, <2>3, <4>1, <4>2
    <3>2. PICK y \in 1..Len(p) :
            /\ new[j] = p[y]
            /\ (j < n /\ y = j) \/ (j > n /\ y = j - 1)
      <4>1. CASE j < n
        <5>1. j \in 1..Len(p) /\ new[j] = p[j]
          BY <1>2, <1>6, <4>1
        <5> QED
          BY <4>1, <5>1
      <4>2. CASE j > n
        <5>1. j - 1 \in 1..Len(p) /\ new[j] = p[j - 1]
          BY <1>2, <1>6, <4>2
        <5> QED
          BY <4>2, <5>1
      <4> QED
        BY <1>2, <2>3, <4>1, <4>2
    <3>3. p[x].pbuf = p[y].pbuf
      BY <1>13, <3>1, <3>2
    <3>4. x = y
      BY <1>10, <3>3
    <3> QED
      BY <1>2, <3>1, <3>2, <3>4
  <2> QED
    BY <2>2, <2>3
<1>14. GoodParts(new, id)
  BY <1>11, <1>12, <1>13 DEF GoodParts
<1> QED
  BY <1>2, <1>3, <1>4, <1>14

\* The entry of a datagram takes the header of its first fragment.
LEMMA EntryKeeps ==
  ASSUME NEW r \in Entries, GoodEntry(r), NEW f
  PROVE  /\ Entry(r, f) \in Entries /\ GoodEntry(Entry(r, f))
         /\ Entry(r, f).id = r.id /\ Entry(r, f).p = r.p
         /\ Entry(r, f).timer = r.timer
         /\ Entry(r, f).datagram_len = r.datagram_len
         /\ f.start = 0 => Entry(r, f).hdr = 0
<1>1. PICK h : h = IF f.start = 0 THEN 0 ELSE r.hdr
  OBVIOUS
<1>2. Entry(r, f) = [r EXCEPT !.hdr = h]
  BY <1>1 DEF Entry
<1>3. h \in Nat /\ (r.hdr = 0 => h = 0)
  BY <1>1 DEF Entries
<1>4. PICK s : s = [r EXCEPT !.hdr = h]
  OBVIOUS
<1>5. /\ s \in Entries /\ s.id = r.id /\ s.p = r.p /\ s.timer = r.timer
      /\ s.datagram_len = r.datagram_len /\ s.hdr = h
  BY <1>3, <1>4 DEF Entries
<1>6. GoodEntry(s)
  BY <1>3, <1>5 DEF GoodEntry
<1> QED
  BY <1>1, <1>2, <1>4, <1>5, <1>6

\* An entry takes a fragment.
LEMMA ChainGood ==
  ASSUME NEW s \in Entries, GoodEntry(s), NEW f, Piece(f), f.id = s.id,
         f.start = 0 => s.hdr = 0,
         NEW p \in FragPbufs, p \notin PbufsOf(s),
         ~Overlaps(s.p, PartOf(f, p))
  PROVE  LET r == Chain(s, f, PartOf(f, p))
         IN  /\ r \in Entries /\ GoodEntry(r) /\ r.p # <<>>
             /\ r.id = s.id /\ r.timer = s.timer /\ r.hdr = s.hdr
             /\ PbufsOf(r) = PbufsOf(s) \union {p}
             /\ \E k \in 1..Len(s.p) + 1 : PutAt(s.p, PartOf(f, p), r.p, k)
<1> DEFINE e == PartOf(f, p)
           r == Chain(s, f, e)
<1>1. /\ s.p \in Seq(Parts) /\ Len(s.p) \in Nat /\ GoodParts(s.p, s.id)
      /\ PbufsOf(s) = {s.p[k].pbuf : k \in 1..Len(s.p)}
      /\ \A k \in 1..Len(s.p) : s.p[k].start \in Nat /\ s.p[k].end \in Nat
  BY EntryHas DEF GoodEntry
<1>2. /\ e \in Parts /\ e.start = f.start /\ e.end = f.end /\ e.pbuf = p
      /\ e.of = f.id
  BY DEF Piece, Parts, PartOf
<1>3. /\ f.start < f.end /\ f.end <= DataLen /\ f.start \in Nat /\ f.end \in Nat
      /\ DataLen \in Nat /\ DataLen # 0 /\ (f.mf <=> f.end # DataLen)
  BY ReassAssumption DEF Piece
<1> HIDE DEF e
<1>4. \A k \in 1..Len(s.p) : s.p[k].pbuf # e.pbuf
  BY <1>1, <1>2
<1>5. PICK new : new = Inserted(s.p, e)
  OBVIOUS
<1>6. /\ new \in Seq(Parts) /\ GoodParts(new, s.id)
      /\ \E k \in 1..Len(s.p) + 1 : PutAt(s.p, e, new, k)
  <2>1. ~Overlaps(s.p, e)
    BY DEF e
  <2>2. PICK ps, id : ps = s.p /\ id = s.id
    OBVIOUS
  <2>3. /\ e.start < e.end /\ e.end <= DataLen /\ e.of = id
    BY <1>2, <1>3, <2>2
  <2>4. /\ Inserted(ps, e) \in Seq(Parts) /\ GoodParts(Inserted(ps, e), id)
        /\ \E k \in 1..Len(ps) + 1 : PutAt(ps, e, Inserted(ps, e), k)
    BY <1>1, <1>2, <1>4, <2>1, <2>2, <2>3, PartsGood
  <2> QED
    BY <1>5, <2>2, <2>4
<1>7. PICK k \in 1..Len(s.p) + 1 : PutAt(s.p, e, new, k)
  BY <1>6
<1>8. /\ \A j \in 1..Len(new) :
           \/ j = k /\ new[j] = e
           \/ j < k /\ j \in 1..Len(s.p) /\ new[j] = s.p[j]
           \/ j > k /\ j - 1 \in 1..Len(s.p) /\ new[j] = s.p[j - 1]
      /\ \A i \in 1..Len(s.p) : \E j \in 1..Len(new) : new[j] = s.p[i]
      /\ k \in 1..Len(new) /\ new[k] = e /\ Len(new) = Len(s.p) + 1
  <2>1. PICK ps : ps = s.p
    OBVIOUS
  <2>3. Len(ps) \in Nat /\ k \in 1..Len(ps) + 1 /\ PutAt(ps, e, new, k)
    BY <1>1, <1>7, <2>1
  <2>2. /\ \A j \in 1..Len(new) :
             \/ j = k /\ new[j] = e
             \/ j < k /\ j \in 1..Len(ps) /\ new[j] = ps[j]
             \/ j > k /\ j - 1 \in 1..Len(ps) /\ new[j] = ps[j - 1]
        /\ \A i \in 1..Len(ps) : \E j \in 1..Len(new) : new[j] = ps[i]
        /\ k \in 1..Len(new) /\ new[k] = e /\ Len(new) = Len(ps) + 1
    BY <2>3, PutHas
  <2> QED
    BY <2>1, <2>2
<1>9. /\ \A j \in 1..Len(new) : new[j] = e \/ \E i \in 1..Len(s.p) : new[j] = s.p[i]
      /\ \A i \in 1..Len(s.p) : \E j \in 1..Len(new) : new[j] = s.p[i]
      /\ \E j \in 1..Len(new) : new[j] = e
      /\ new # <<>>
  BY <1>1, <1>8
<1>10. PICK len : len = IF f.mf THEN s.datagram_len ELSE f.end
  OBVIOUS
<1>11. len \in Nat
  BY <1>3, <1>10, EntryHas
<1>12. r = [s EXCEPT !.p = new, !.datagram_len = len]
  BY <1>5, <1>10 DEF Chain
<1> HIDE DEF r
<1>13. /\ r \in Entries /\ r.id = s.id /\ r.timer = s.timer /\ r.hdr = s.hdr
       /\ r.p = new /\ r.datagram_len = len
  BY <1>6, <1>11, <1>12 DEF Entries
<1>14. PbufsOf(r) = PbufsOf(s) \union {p}
  <2>1. PbufsOf(r) = {new[j].pbuf : j \in 1..Len(new)}
    BY <1>13, EntryHas
  <2>2. ASSUME NEW j \in 1..Len(new)
        PROVE  new[j].pbuf \in PbufsOf(s) \union {p}
    BY <1>1, <1>2, <1>9
  <2>3. ASSUME NEW i \in 1..Len(s.p) PROVE s.p[i].pbuf \in PbufsOf(r)
    <3>1. PICK j \in 1..Len(new) : new[j] = s.p[i]
      BY <1>9
    <3>2. new[j].pbuf \in PbufsOf(r)
      BY <2>1
    <3> QED
      BY <3>1, <3>2
  <2>4. p \in PbufsOf(r)
    BY <1>2, <1>9, <2>1
  <2>5. PbufsOf(s) = {s.p[i].pbuf : i \in 1..Len(s.p)}
    BY <1>1, EntryHas
  <2>6. PbufsOf(r) \subseteq PbufsOf(s) \union {p}
    BY <2>1, <2>2
  <2>7. PbufsOf(s) \union {p} \subseteq PbufsOf(r)
    BY <2>3, <2>4, <2>5
  <2> QED
    BY <2>6, <2>7
<1>15. GoodEntry(r)
  <2>1. (\E j \in 1..Len(new) : new[j].end = DataLen) <=>
          f.end = DataLen \/ \E i \in 1..Len(s.p) : s.p[i].end = DataLen
    BY <1>2, <1>9
  <2>2. r.datagram_len =
          IF \E j \in 1..Len(r.p) : r.p[j].end = DataLen THEN DataLen ELSE 0
    BY <1>3, <1>10, <1>13, <2>1 DEF GoodEntry
  <2>3. (\E j \in 1..Len(new) : new[j].start = 0) =>
          f.start = 0 \/ \E i \in 1..Len(s.p) : s.p[i].start = 0
    BY <1>2, <1>9
  <2>4. (\E j \in 1..Len(r.p) : r.p[j].start = 0) => r.hdr = 0
    BY <1>13, <2>3 DEF GoodEntry
  <2> QED
    BY <1>6, <1>13, <2>2, <2>4 DEF GoodEntry
<1>16. r = Chain(s, f, PartOf(f, p))
  BY DEF r, e
<1>17. \E i \in 1..Len(s.p) + 1 : PutAt(s.p, PartOf(f, p), r.p, i)
  BY <1>7, <1>13 DEF e
<1> QED
  BY <1>9, <1>13, <1>14, <1>15, <1>16, <1>17

\* new is list with r for the entry i of the same name.
Renewed(list, i, r, new) ==
  /\ OpenList(new) /\ Len(new) = Len(list)
  /\ (r.p # <<>> /\ \A j \in 1..Len(list) : j # i => list[j].p # <<>>)
       => GoodList(new)
  /\ Members(new) = {s \in Members(list) : s.id # r.id} \union {r}
  /\ Queued(new) = (Queued(list) \ PbufsOf(list[i])) \union PbufsOf(r)

\* An entry changes and takes at most new pbufs.
LEMMA ReplaceKeeps ==
  ASSUME NEW list, OpenList(list), NEW i \in 1..Len(list),
         NEW r \in Entries, GoodEntry(r), r.id = list[i].id,
         NEW P, P \cap Queued(list) = {},
         PbufsOf(r) \subseteq PbufsOf(list[i]) \union P,
         NEW new, new = [list EXCEPT ![i] = r]
  PROVE  Renewed(list, i, r, new)
<1>1. list \in Seq(Entries) /\ Len(list) \in Nat
  BY ListHas
<1>2. new = [list EXCEPT ![i] = r]
  OBVIOUS
<1>3. /\ new \in Seq(Entries) /\ Len(new) = Len(list)
      /\ \A j \in 1..Len(list) : new[j] = IF j = i THEN r ELSE list[j]
  BY <1>1, <1>2, ReplacedIs
<1>4. \A j \in 1..Len(list) : PbufsOf(list[j]) \subseteq Queued(list)
  BY DEF Queued, Members
<1>5. OpenList(new)
  <2>1. \A j \in 1..Len(new) : GoodEntry(new[j])
    BY <1>3 DEF OpenList
  <2>2. ASSUME NEW j \in 1..Len(new), NEW k \in 1..Len(new), j # k
        PROVE  /\ new[j].id # new[k].id
               /\ PbufsOf(new[j]) \cap PbufsOf(new[k]) = {}
    <3>1. /\ list[j].id # list[k].id
          /\ PbufsOf(list[j]) \cap PbufsOf(list[k]) = {}
      BY <1>3, <2>2 DEF OpenList
    <3>2. CASE j = i
      <4>1. new[j] = r /\ new[k] = list[k]
        BY <1>3, <2>2, <3>2
      <4> QED
        BY <1>3, <1>4, <3>1, <3>2, <4>1
    <3>3. CASE k = i
      <4>1. new[k] = r /\ new[j] = list[j]
        BY <1>3, <2>2, <3>3
      <4> QED
        BY <1>3, <1>4, <3>1, <3>3, <4>1
    <3>4. CASE j # i /\ k # i
      BY <1>3, <3>1, <3>4
    <3> QED
      BY <3>2, <3>3, <3>4
  <2> QED
    BY <1>3, <2>1, <2>2 DEF OpenList
<1>6. (r.p # <<>> /\ \A j \in 1..Len(list) : j # i => list[j].p # <<>>)
         => GoodList(new)
  BY <1>3, <1>5 DEF GoodList
<1>7. \A j \in 1..Len(list) : list[j].id = r.id <=> j = i
  BY DEF OpenList
<1>8. Members(new) = {s \in Members(list) : s.id # r.id} \union {r}
  <2>1. ASSUME NEW s \in Members(new)
        PROVE  s \in {m \in Members(list) : m.id # r.id} \union {r}
    BY <1>3, <1>7 DEF Members
  <2>2. ASSUME NEW s \in Members(list), s.id # r.id PROVE s \in Members(new)
    <3>1. PICK j \in 1..Len(list) : s = list[j]
      BY DEF Members
    <3>2. new[j] = s /\ j \in 1..Len(new)
      BY <1>3, <1>7, <2>2, <3>1
    <3> QED
      BY <3>2 DEF Members
  <2>3. r \in Members(new)
    BY <1>3 DEF Members
  <2> QED
    BY <2>1, <2>2, <2>3
<1>9. Queued(new) = (Queued(list) \ PbufsOf(list[i])) \union PbufsOf(r)
  <2>1. \A s \in Members(list) :
          IF s.id = r.id THEN s = list[i]
                         ELSE PbufsOf(s) \cap PbufsOf(list[i]) = {}
    BY MemberIs
  <2>2. list[i] \in Members(list)
    BY DEF Members
  <2>3. PICK M, N, d : M = Members(list) /\ N = Members(new) /\ d = r.id
    OBVIOUS
  <2>4. PICK L : L = PbufsOf(list[i])
    OBVIOUS
  <2>5. /\ N = {s \in M : s.id # d} \union {r}
        /\ \A s \in M : s.id = d => PbufsOf(s) = L
        /\ \A s \in M : s.id # d => PbufsOf(s) \cap L = {}
    BY <1>8, <2>1, <2>3, <2>4
  <2>6. UNION {PbufsOf(s) : s \in N} =
          ((UNION {PbufsOf(s) : s \in M}) \ L) \union PbufsOf(r)
    <3>1. ASSUME NEW x, NEW s \in N, x \in PbufsOf(s)
          PROVE  x \in ((UNION {PbufsOf(m) : m \in M}) \ L) \union PbufsOf(r)
      <4>1. CASE s = r
        BY <3>1, <4>1
      <4>2. CASE s # r
        <5>1. s \in M /\ s.id # d
          BY <2>5, <4>2
        <5>2. x \notin L
          BY <2>5, <3>1, <5>1
        <5> QED
          BY <3>1, <5>1, <5>2
      <4> QED
        BY <4>1, <4>2
    <3>2. ASSUME NEW x, NEW s \in M, x \in PbufsOf(s), x \notin L
          PROVE  x \in UNION {PbufsOf(m) : m \in N}
      <4>1. s \in N
        BY <2>5, <3>2
      <4> QED
        BY <3>2, <4>1
    <3>3. ASSUME NEW x \in PbufsOf(r)
          PROVE  x \in UNION {PbufsOf(m) : m \in N}
      BY <2>5
    <3> QED
      BY <3>1, <3>2, <3>3
  <2> QED
    BY <2>3, <2>4, <2>6 DEF Queued
<1> QED
  BY <1>3, <1>5, <1>6, <1>8, <1>9 DEF Renewed

\* A new entry in front.
LEMMA InFrontKeeps ==
  ASSUME NEW list, GoodList(list), NEW f, Piece(f),
         \A s \in Members(list) : s.id # f.id
  PROVE  LET new == <<NewEntry(f)>> \o list
         IN  /\ OpenList(new) /\ Len(new) = Len(list) + 1
             /\ new[1] = NewEntry(f)
             /\ \A j \in 1..Len(new) : j # 1 => new[j].p # <<>>
             /\ Members(new) = Members(list) \union {NewEntry(f)}
             /\ Queued(new) = Queued(list)
<1>1. list \in Seq(Entries) /\ Len(list) \in Nat /\ OpenList(list)
  BY ListHas DEF GoodList
<1>2. PICK r : r = NewEntry(f)
  OBVIOUS
<1>3. /\ r \in Entries /\ r.id = f.id /\ r.p = <<>> /\ Len(r.p) = 0
      /\ r.datagram_len = 0
  BY <1>2, ReassAssumption DEF NewEntry, Entries, Piece
<1>4. PbufsOf(r) = {}
  BY <1>3, EntryHas
<1>5. GoodEntry(r)
  BY <1>3 DEF GoodEntry, GoodParts
<1>6. PICK new : new = <<r>> \o list
  OBVIOUS
<1>7. /\ new \in Seq(Entries) /\ Len(new) = Len(list) + 1
      /\ \A j \in 1..Len(new) : new[j] = IF j = 1 THEN r ELSE list[j - 1]
  BY <1>1, <1>3, <1>6, InFrontIs
<1>8. /\ new[1] = r /\ 1 \in 1..Len(new)
      /\ \A j \in 1..Len(new) : j # 1 => j - 1 \in 1..Len(list)
                                          /\ new[j] = list[j - 1]
  BY <1>1, <1>7
<1>9. OpenList(new)
  <2>1. \A j \in 1..Len(new) : GoodEntry(new[j])
    BY <1>1, <1>5, <1>8 DEF OpenList
  <2>2. ASSUME NEW j \in 1..Len(new), NEW k \in 1..Len(new), j # k
        PROVE  /\ new[j].id # new[k].id
               /\ PbufsOf(new[j]) \cap PbufsOf(new[k]) = {}
    <3>1. \A i \in 1..Len(list) : list[i].id # f.id
      BY <1>1, MemberIs
    <3>2. CASE j = 1
      BY <1>3, <1>4, <1>8, <2>2, <3>1, <3>2
    <3>3. CASE k = 1
      BY <1>3, <1>4, <1>8, <2>2, <3>1, <3>3
    <3>4. CASE j # 1 /\ k # 1
      <4>1. PICK x \in 1..Len(list), y \in 1..Len(list) :
              x # y /\ new[j] = list[x] /\ new[k] = list[y]
        <5>1. j - 1 # k - 1
          BY <2>2
        <5> QED
          BY <1>8, <3>4, <5>1
      <4>2. /\ list[x].id # list[y].id
            /\ PbufsOf(list[x]) \cap PbufsOf(list[y]) = {}
        BY <1>1, <4>1 DEF OpenList
      <4> QED
        BY <4>1, <4>2
    <3> QED
      BY <3>2, <3>3, <3>4
  <2> QED
    BY <1>7, <2>1, <2>2 DEF OpenList
<1>10. \A j \in 1..Len(new) : j # 1 => new[j].p # <<>>
  BY <1>8 DEF GoodList
<1>11. Members(new) = Members(list) \union {r}
  <2>1. ASSUME NEW i \in 1..Len(list) PROVE list[i] \in Members(new)
    <3>1. i + 1 \in 1..Len(new) /\ i + 1 # 1 /\ (i + 1) - 1 = i
      BY <1>1, <1>7
    <3>2. new[i + 1] = list[i]
      BY <1>8, <3>1
    <3> QED
      BY <3>1, <3>2 DEF Members
  <2>2. \A j \in 1..Len(new) : new[j] \in Members(list) \union {r}
    BY <1>8 DEF Members
  <2>3. r \in Members(new)
    BY <1>8 DEF Members
  <2> QED
    BY <2>1, <2>2, <2>3 DEF Members
<1>12. Queued(new) = Queued(list)
  BY <1>4, <1>11 DEF Queued
<1> QED
  BY <1>2, <1>6, <1>7, <1>8, <1>9, <1>10, <1>11, <1>12

-----------------------------------------------------------------------------
(* Steps.                                                                  *)

OpenStates ==
  {S \in [list : Seq(Entries), count : Nat, freed : SUBSET FragPbufs,
          told : SUBSET Datagrams] :
     /\ OpenList(S.list) /\ IsFiniteSet(Queued(S.list))
     /\ S.count = Clen(Queued(S.list))}

Rest(S, f) == {m \in Members(S.list) : m.id # f.id}

\* The ways a fragment can go: refused, taken, or the last that was missing.
Overlapping(S, i, f, p) ==
  /\ Overlaps(S.list[i].p, PartOf(f, p))
  /\ Members(reassdatagrams') = Rest(S, f) \union {Entry(S.list[i], f)}
  /\ Queued(reassdatagrams') = Queued(S.list)
  /\ busy' = busy \ S.freed
  /\ out' = {} /\ refused' = {f}

Taking(S, i, f, p, r) ==
  /\ ~Overlaps(S.list[i].p, PartOf(f, p)) /\ ~Finished(r)
  /\ Members(reassdatagrams') = Rest(S, f) \union {r}
  /\ Queued(reassdatagrams') = Queued(S.list) \union {p}
  /\ busy' = (busy \ S.freed) \union {p}
  /\ out' = {} /\ refused' = {}

Finishing(S, i, f, p, r) ==
  /\ ~Overlaps(S.list[i].p, PartOf(f, p)) /\ Finished(r)
  /\ Members(reassdatagrams') = Rest(S, f)
  /\ Queued(reassdatagrams') = Queued(S.list) \ PbufsOf(r)
  /\ busy' = busy \ (S.freed \union PbufsOf(r))
  /\ out' = {[id |-> r.id, len |-> r.datagram_len, hdr |-> r.hdr, parts |-> r.p]}
  /\ refused' = {}

Entered(S, i, f, p, r) ==
  /\ GoodList(reassdatagrams') /\ Len(reassdatagrams') <= Len(S.list)
  /\ IsFiniteSet(Queued(reassdatagrams'))
  /\ ip_reass_pbufcount' = Clen(Queued(reassdatagrams'))
  /\ ip_reass_pbufcount' <= S.count + pbuf_clen(p)
  /\ exceeded' = S.told
  /\ \/ Overlapping(S, i, f, p)
     \/ Taking(S, i, f, p, r)
     \/ Finishing(S, i, f, p, r)

\* Entering a fragment links it into its datagram's chain, or drops it.
LEMMA EnterIs ==
  ASSUME NEW S \in OpenStates, NEW i \in 1..Len(S.list),
         \A j \in 1..Len(S.list) : j # i => S.list[j].p # <<>>,
         NEW f, Piece(f), f.id = S.list[i].id,
         NEW p \in FragPbufs, p \notin Queued(S.list),
         Enter(S, i, f, p)
  PROVE  Entered(S, i, f, p, Chain(Entry(S.list[i], f), f, PartOf(f, p)))
<1>1. /\ S = [list |-> S.list, count |-> S.count, freed |-> S.freed,
              told |-> S.told]
      /\ S.count \in Nat /\ S.count = Clen(Queued(S.list))
      /\ OpenList(S.list) /\ IsFiniteSet(Queued(S.list))
  BY DEF OpenStates
<1>2. PICK list : list = S.list
  OBVIOUS
<1>3. PICK s : s = list[i]
  OBVIOUS
<1>4. /\ OpenList(list) /\ i \in 1..Len(list) /\ s \in Entries /\ GoodEntry(s)
      /\ p \notin Queued(list) /\ s \in Members(list) /\ Len(list) \in Nat
      /\ \A j \in 1..Len(list) : j # i => list[j].p # <<>>
  BY <1>1, <1>2, <1>3, ListHas, MemberIs
<1>5. PICK s1, e : s1 = Entry(s, f) /\ e = PartOf(f, p)
  OBVIOUS
<1>6. /\ s1 \in Entries /\ GoodEntry(s1) /\ s1.id = s.id /\ s1.p = s.p
      /\ f.start = 0 => s1.hdr = 0
  BY <1>4, <1>5, EntryKeeps
<1>7. PICK r : r = Chain(s1, f, e)
  OBVIOUS
<1>8. PbufsOf(s1) = PbufsOf(s)
  BY <1>6 DEF PbufsOf
<1>9. PbufsOf(s) \subseteq Queued(list) /\ p \notin PbufsOf(s)
  BY <1>4 DEF Queued
<1>10. PICK n, count : n = pbuf_clen(p) /\ count = S.count
  OBVIOUS
<1>11. n \in 1..2 /\ Clen({p}) = n /\ IsFiniteSet({p}) /\ count \in Nat
  BY <1>1, <1>10, ClenOne
<1>12. Rest(S, f) = {m \in Members(list) : m.id # s.id}
  BY <1>2, <1>3 DEF Rest
<1>13. ASSUME Overlaps(s.p, e)
       PROVE  Entered(S, i, f, p, r)
  <2>1. PICK new : new = [list EXCEPT ![i] = s1]
    OBVIOUS
  <2>2. Drop([S EXCEPT !.list[i] = Entry(@, f)], {f})
    BY <1>2, <1>3, <1>5, <1>13 DEF Enter, PartOf
  <2>3. [S EXCEPT !.list[i] = Entry(@, f)] =
          [list |-> new, count |-> S.count, freed |-> S.freed, told |-> S.told]
    <3>1. [S EXCEPT !.list[i] = Entry(@, f)] =
            [S EXCEPT !.list = [S.list EXCEPT ![i] = Entry(S.list[i], f)]]
      OBVIOUS
    <3>2. [S.list EXCEPT ![i] = Entry(S.list[i], f)] = new
      BY <1>2, <1>3, <1>5, <2>1
    <3>3. [S EXCEPT !.list = new] =
            [list |-> new, count |-> S.count, freed |-> S.freed, told |-> S.told]
      BY <1>1
    <3> QED
      BY <3>1, <3>2, <3>3, Zenon
  <2>4. /\ reassdatagrams' = new /\ ip_reass_pbufcount' = S.count
        /\ busy' = busy \ S.freed /\ out' = {} /\ refused' = {f}
        /\ exceeded' = S.told
    BY <2>2, <2>3 DEF Drop
  <2>5. s.p # <<>>
    <3>1. PICK k \in DOMAIN s.p : TRUE
      BY <1>13 DEF Overlaps
    <3> QED
      BY <3>1
  <2>6. /\ GoodList(new) /\ Len(new) = Len(list)
        /\ Members(new) = {m \in Members(list) : m.id # s1.id} \union {s1}
        /\ Queued(new) = (Queued(list) \ PbufsOf(list[i])) \union PbufsOf(s1)
    <3>5. PICK P : P = {}
      OBVIOUS
    <3>1. /\ s1.id = list[i].id /\ P \cap Queued(list) = {}
          /\ PbufsOf(s1) \subseteq PbufsOf(list[i]) \union P
      BY <1>3, <1>6, <1>8, <3>5
    <3>2. s1.p # <<>> /\ \A j \in 1..Len(list) : j # i => list[j].p # <<>>
      BY <1>4, <1>6, <2>5
    <3>3. /\ OpenList(list) /\ i \in 1..Len(list)
          /\ s1 \in Entries /\ GoodEntry(s1)
      BY <1>4, <1>6
    <3>4. Renewed(list, i, s1, new)
      BY <2>1, <3>1, <3>3, ReplaceKeeps
    <3> QED
      BY <3>2, <3>4 DEF Renewed
  <2>7. Queued(new) = Queued(list)
    BY <1>3, <1>8, <1>9, <2>6
  <2>8. Overlapping(S, i, f, p)
    BY <1>2, <1>3, <1>5, <1>6, <1>12, <1>13, <2>4, <2>6, <2>7 DEF Overlapping
  <2>9. ip_reass_pbufcount' <= S.count + pbuf_clen(p)
    BY <1>10, <1>11, <2>4
  <2>10. Len(new) <= Len(S.list)
    BY <1>2, <1>4, <2>6
  <2> QED
    BY <1>1, <1>2, <2>4, <2>6, <2>7, <2>8, <2>9, <2>10 DEF Entered
<1>14. ASSUME ~Overlaps(s.p, e)
       PROVE  /\ r \in Entries /\ GoodEntry(r) /\ r.p # <<>> /\ r.id = s.id
              /\ PbufsOf(r) = PbufsOf(s) \union {p}
  <2>1. ~Overlaps(s1.p, e) /\ p \notin PbufsOf(s1) /\ f.id = s1.id
    BY <1>2, <1>3, <1>6, <1>8, <1>9, <1>14
  <2> QED
    BY <1>5, <1>6, <1>7, <1>8, <2>1, ChainGood
<1>15. ASSUME ~Overlaps(s.p, e), ~Finished(r)
       PROVE  Entered(S, i, f, p, r)
  <2>1. PICK new : new = [list EXCEPT ![i] = r]
    OBVIOUS
  <2>2. /\ reassdatagrams' = new /\ ip_reass_pbufcount' = S.count + pbuf_clen(p)
        /\ busy' = (busy \ S.freed) \union {p} /\ out' = {} /\ refused' = {}
        /\ exceeded' = S.told
    BY <1>2, <1>3, <1>5, <1>7, <1>15, <2>1 DEF Enter, PartOf
  <2>3. /\ GoodList(new) /\ Len(new) = Len(list)
        /\ Members(new) = {m \in Members(list) : m.id # r.id} \union {r}
        /\ Queued(new) = (Queued(list) \ PbufsOf(list[i])) \union PbufsOf(r)
    <3>1. /\ r.id = list[i].id /\ PbufsOf(r) \subseteq PbufsOf(list[i]) \union {p}
          /\ r \in Entries /\ GoodEntry(r) /\ r.p # <<>>
      BY <1>3, <1>14, <1>15
    <3>4. PICK P : P = {p}
      OBVIOUS
    <3>2. /\ OpenList(list) /\ i \in 1..Len(list) /\ P \cap Queued(list) = {}
          /\ PbufsOf(r) \subseteq PbufsOf(list[i]) \union P
      BY <1>4, <3>1, <3>4
    <3>3. Renewed(list, i, r, new)
      BY <2>1, <3>1, <3>2, ReplaceKeeps
    <3> QED
      BY <1>4, <3>1, <3>3 DEF Renewed
  <2>4. Queued(new) = Queued(list) \union {p}
    BY <1>3, <1>9, <1>14, <1>15, <2>3
  <2>5. PICK Q : Q = Queued(list)
    OBVIOUS
  <2>6. IsFiniteSet(Q) /\ Q \cap {p} = {} /\ Clen(Q) = count
    BY <1>1, <1>2, <1>4, <1>10, <2>5
  <2>7. IsFiniteSet(Q \union {p}) /\ Clen(Q \union {p}) = Clen(Q) + Clen({p})
    BY <1>11, <2>6, ClenAdd
  <2>8. /\ IsFiniteSet(Queued(new)) /\ ip_reass_pbufcount' = Clen(Queued(new))
        /\ ip_reass_pbufcount' <= S.count + pbuf_clen(p)
    BY <1>10, <1>11, <2>2, <2>4, <2>5, <2>6, <2>7
  <2>9. r.id = s.id
    BY <1>14, <1>15
  <2>10. Taking(S, i, f, p, r)
    BY <1>2, <1>3, <1>5, <1>12, <1>15, <2>2, <2>3, <2>4, <2>9 DEF Taking
  <2>11. Len(new) <= Len(S.list)
    BY <1>2, <1>4, <2>3
  <2> QED
    BY <2>2, <2>3, <2>8, <2>10, <2>11 DEF Entered
<1>16. ASSUME ~Overlaps(s.p, e), Finished(r)
       PROVE  Entered(S, i, f, p, r)
  <2>1. PICK new : new = Without(list, i)
    OBVIOUS
  <2>2. /\ reassdatagrams' = new
        /\ ip_reass_pbufcount' = (S.count + pbuf_clen(p)) - Clen(PbufsOf(r))
        /\ busy' = busy \ (S.freed \union PbufsOf(r)) /\ refused' = {}
        /\ out' = {[id |-> r.id, len |-> r.datagram_len, hdr |-> r.hdr,
                    parts |-> r.p]}
        /\ exceeded' = S.told
    <3>1. /\ S.list[i] = s /\ Entry(S.list[i], f) = s1 /\ Without(S.list, i) = new
          /\ Chain(Entry(S.list[i], f), f, PartOf(f, p)) = r
          /\ PartOf(f, p) = e
      BY <1>2, <1>3, <1>5, <1>7, <2>1
    <3>2. PICK e1 : e1 = PartOf(f, p)
      OBVIOUS
    <3>3. e1 = [start |-> f.start, end |-> f.end, pbuf |-> p, of |-> f.id]
      BY <3>2 DEF PartOf
    <3>5. /\ ~Overlaps(S.list[i].p, e1)
          /\ Finished(Chain(Entry(S.list[i], f), f, e1))
      BY <1>16, <3>1, <3>2
    <3>4. LET q == Chain(Entry(S.list[i], f), f, e1)
          IN  /\ exceeded' = S.told /\ refused' = {}
              /\ reassdatagrams' = Without(S.list, i)
              /\ ip_reass_pbufcount' = (S.count + pbuf_clen(p)) - Clen(PbufsOf(q))
              /\ out' = {[id |-> q.id, len |-> q.datagram_len, hdr |-> q.hdr,
                          parts |-> q.p]}
              /\ busy' = busy \ (S.freed \union PbufsOf(q))
      <4>1. Enter(S, i, f, p)
        OBVIOUS
      <4> DEFINE q == Chain(Entry(S.list[i], f), f, e1)
      <4>2. exceeded' = S.told /\ refused' = {}
        BY <3>3, <3>5, <4>1 DEF Enter
      <4>3. reassdatagrams' = Without(S.list, i)
        BY <3>3, <3>5, <4>1 DEF Enter
      <4>4. ip_reass_pbufcount' = (S.count + pbuf_clen(p)) - Clen(PbufsOf(q))
        BY <3>3, <3>5, <4>1 DEF Enter
      <4>5. out' = {[id |-> q.id, len |-> q.datagram_len, hdr |-> q.hdr,
                     parts |-> q.p]}
        BY <3>3, <3>5, <4>1 DEF Enter
      <4>6. busy' = busy \ (S.freed \union PbufsOf(q))
        BY <3>3, <3>5, <4>1 DEF Enter
      <4> QED
        BY <4>2, <4>3, <4>4, <4>5, <4>6
    <3> QED
      BY <3>1, <3>2, <3>4, Zenon
  <2>3. /\ GoodList(new) /\ Len(new) = Len(list) - 1
        /\ Members(new) = {m \in Members(list) : m.id # list[i].id}
        /\ Queued(new) = Queued(list) \ PbufsOf(list[i])
    BY <1>4, <2>1, WithoutKeeps
  <2>4. PbufsOf(r) = PbufsOf(s) \union {p}
    BY <1>14, <1>16
  <2>5. Queued(new) = Queued(list) \ PbufsOf(r)
    BY <1>3, <1>4, <2>3, <2>4
  <2>6. PICK Q, P : Q = Queued(list) /\ P = PbufsOf(s)
    OBVIOUS
  <2>7. IsFiniteSet(Q) /\ P \subseteq Q /\ Clen(Q) = count
    BY <1>1, <1>2, <1>9, <1>10, <2>6
  <2>8. /\ IsFiniteSet(Q \ P) /\ IsFiniteSet(P) /\ Clen(Q \ P) = Clen(Q) - Clen(P)
        /\ Clen(P) \in Nat /\ Clen(Q) \in Nat
    BY <2>7, ClenLess
  <2>9. P \cap {p} = {}
    BY <1>9, <2>6
  <2>10. Clen(P \union {p}) = Clen(P) + Clen({p})
    BY <1>11, <2>8, <2>9, ClenAdd
  <2>11. Queued(new) = Q \ P
    BY <1>3, <2>3, <2>6
  <2>12. ip_reass_pbufcount' = (count + n) - Clen(P \union {p})
    BY <1>10, <2>2, <2>4, <2>6
  <2>13. /\ ip_reass_pbufcount' = Clen(Queued(new))
         /\ ip_reass_pbufcount' <= S.count + pbuf_clen(p)
    <3>1. ip_reass_pbufcount' = count - Clen(P)
      BY <1>11, <2>8, <2>10, <2>12
    <3>2. count - Clen(P) = Clen(Q \ P) /\ count - Clen(P) <= count + n
      BY <1>11, <2>7, <2>8
    <3> QED
      BY <1>10, <2>11, <3>1, <3>2
  <2>14. IsFiniteSet(Queued(new))
    BY <2>8, <2>11
  <2>15. Finishing(S, i, f, p, r)
    BY <1>2, <1>3, <1>5, <1>12, <1>16, <2>2, <2>3, <2>5 DEF Finishing
  <2>16. Len(new) <= Len(S.list)
    BY <1>2, <1>4, <2>3
  <2> QED
    BY <2>2, <2>3, <2>13, <2>14, <2>15, <2>16 DEF Entered
<1> QED
  BY <1>2, <1>3, <1>5, <1>7, <1>13, <1>15, <1>16

\* The pbufs in use are those that are queued and those that are freed.
Owned(S) ==
  /\ IsFiniteSet(busy) /\ S.freed \subseteq busy
  /\ Queued(S.list) = busy \ S.freed

Room(S) == Len(S.list) <= MEMP_NUM_REASSDATA

\* Dropping datagrams keeps the count, and the owners of what is left.
LEMMA GoneOwned ==
  ASSUME NEW S \in GoodStates, NEW T, NEW G, Gone(S, T, G), Owned(S)
  PROVE  Owned(T) /\ T.count <= S.count /\ S.count \in Nat /\ T.count \in Nat
<1>1. /\ T \in GoodStates /\ T.freed = S.freed \union Lost(S, G)
      /\ Queued(T.list) = Queued(S.list) \ Lost(S, G)
  BY DEF Gone
<1>2. Lost(S, G) \subseteq Queued(S.list)
  BY DEF Lost, Given, Queued
<1>3. Owned(T)
  BY <1>1, <1>2 DEF Owned
<1>4. PICK Q, P : Q = Queued(S.list) /\ P = Lost(S, G)
  OBVIOUS
<1>5. /\ IsFiniteSet(Q) /\ P \subseteq Q /\ S.count = Clen(Q) /\ S.count \in Nat
      /\ T.count = Clen(Q \ P) /\ T.count \in Nat
  BY <1>1, <1>2, <1>4, StateHas
<1>6. Clen(Q \ P) = Clen(Q) - Clen(P) /\ Clen(Q) \in Nat /\ Clen(P) \in Nat
  BY <1>5, ClenLess
<1>7. T.count <= S.count
  BY <1>5, <1>6
<1> QED
  BY <1>3, <1>5, <1>7

\* Dropping a fragment keeps the invariant.
LEMMA DropKeeps ==
  ASSUME NEW S \in GoodStates, Owned(S), Room(S), S.count <= IP_REASS_MAX_PBUFS,
         NEW fs, Drop(S, fs)
  PROVE  IInv'
<1>1. /\ GoodList(S.list) /\ IsFiniteSet(Queued(S.list))
      /\ S.count = Clen(Queued(S.list))
  BY StateHas
<1>2. /\ reassdatagrams' = S.list /\ ip_reass_pbufcount' = S.count
      /\ busy' = busy \ S.freed
  BY DEF Drop
<1>3. busy' = Queued(S.list)
  BY <1>2 DEF Owned
<1> QED
  BY <1>1, <1>2, <1>3 DEF IInv, Room

\* Entering a fragment keeps the invariant.
LEMMA EnteredKeeps ==
  ASSUME NEW S \in OpenStates, Owned(S), Room(S),
         NEW p, S.count + pbuf_clen(p) <= IP_REASS_MAX_PBUFS,
         NEW i, NEW f, NEW r, Entered(S, i, f, p, r)
  PROVE  IInv'
<1>1. /\ GoodList(reassdatagrams') /\ Len(reassdatagrams') <= Len(S.list)
      /\ IsFiniteSet(Queued(reassdatagrams'))
      /\ ip_reass_pbufcount' = Clen(Queued(reassdatagrams'))
      /\ ip_reass_pbufcount' <= S.count + pbuf_clen(p)
  BY DEF Entered
<1>2. busy' = Queued(reassdatagrams')
  <2>1. CASE Overlapping(S, i, f, p)
    BY <2>1 DEF Overlapping, Owned
  <2>2. CASE Taking(S, i, f, p, r)
    BY <2>2 DEF Taking, Owned
  <2>3. CASE Finishing(S, i, f, p, r)
    BY <2>3 DEF Finishing, Owned
  <2> QED
    BY <2>1, <2>2, <2>3 DEF Entered
<1>3. ip_reass_pbufcount' <= IP_REASS_MAX_PBUFS
  <2>1. /\ ip_reass_pbufcount' \in Nat /\ S.count \in Nat
        /\ pbuf_clen(p) \in Nat /\ IP_REASS_MAX_PBUFS \in Nat
    BY <1>1, ClenType, ClenOne, ReassAssumption DEF OpenStates
  <2> QED
    BY <1>1, <2>1
<1>4. Len(reassdatagrams') <= MEMP_NUM_REASSDATA
  <2>1. /\ Len(reassdatagrams') \in Nat /\ Len(S.list) \in Nat
        /\ MEMP_NUM_REASSDATA \in Nat
    <3>1. OpenList(S.list) /\ OpenList(reassdatagrams')
      BY <1>1 DEF OpenStates, GoodList
    <3> QED
      BY <3>1, ListHas, ReassAssumption
  <2> QED
    BY <1>1, <2>1 DEF Room
<1> QED
  BY <1>1, <1>2, <1>3, <1>4 DEF IInv

\* Who is given up leaves pbufs.
LEMMA LostSome ==
  ASSUME NEW S \in GoodStates, NEW T, NEW G, Gone(S, T, G), G # {}
  PROVE  IsFiniteSet(Lost(S, G)) /\ Clen(Lost(S, G)) > 0 /\ Lost(S, G) # {}
         /\ Lost(S, G) \subseteq Queued(S.list)
<1>1. GoodList(S.list) /\ OpenList(S.list) /\ IsFiniteSet(Queued(S.list))
  BY StateHas
<1>2. Lost(S, G) \subseteq Queued(S.list)
  BY DEF Lost, Given, Queued
<1>3. PICK r \in Given(S, G) : TRUE
  BY DEF Gone, Given
<1>4. PICK i \in 1..Len(S.list) : r = S.list[i]
  BY DEF Given, Members
<1>5. r \in Entries /\ r.p # <<>>
  BY <1>1, <1>4, ListHas DEF GoodList
<1>6. /\ r.p \in Seq(Parts) /\ Len(r.p) \in Nat
      /\ PbufsOf(r) = {r.p[k].pbuf : k \in 1..Len(r.p)}
  BY <1>5, EntryHas
<1>7. 1 \in 1..Len(r.p)
  BY <1>5, <1>6, EmptySeq
<1>8. PbufsOf(r) # {}
  BY <1>6, <1>7
<1>9. Lost(S, G) # {}
  BY <1>8 DEF Lost
<1>10. IsFiniteSet(Lost(S, G))
  BY <1>1, <1>2, FS_Subset
<1> QED
  BY <1>2, <1>9, <1>10, ClenType

\* What is freed for one purpose is freed with what was before.
LEMMA GoneBesides ==
  ASSUME NEW S \in GoodStates, NEW S0, S0 = [S EXCEPT !.freed = {}],
         NEW T, NEW G, Gone(S0, T, G),
         NEW B, B = [T EXCEPT !.freed = @ \union S.freed]
  PROVE  Gone(S, B, G) /\ B.list = T.list /\ T.freed = Lost(S, G)
<1>1. /\ S = [list |-> S.list, count |-> S.count, freed |-> S.freed,
              told |-> S.told]
      /\ S.freed \subseteq FragPbufs
  BY StateHas
<1>2. S0.list = S.list /\ S0.told = S.told /\ S0.freed = {}
  BY <1>1
<1>3. /\ T \in GoodStates
      /\ T.freed = Lost(S0, G)
  BY <1>2 DEF Gone
<1>4. T = [list |-> T.list, count |-> T.count, freed |-> T.freed,
           told |-> T.told]
      /\ T.freed \subseteq FragPbufs
  BY <1>3, StateHas
<1>5. /\ B.list = T.list /\ B.count = T.count /\ B.told = T.told
      /\ B.freed = T.freed \union S.freed
      /\ B = [list |-> T.list, count |-> T.count,
              freed |-> T.freed \union S.freed, told |-> T.told]
  BY <1>4
<1>6. /\ Given(S, G) = Given(S0, G) /\ Lost(S, G) = Lost(S0, G)
      /\ Told(S, G) = Told(S0, G)
  BY <1>2 DEF Given, Lost, Told
<1>7. B \in GoodStates
  BY <1>1, <1>3, <1>4, <1>5 DEF GoodStates
<1>8. Gone(S, B, G)
  BY <1>2, <1>3, <1>5, <1>6, <1>7 DEF Gone
<1> QED
  BY <1>3, <1>5, <1>6, <1>8

\* The fragment goes into its datagram, or into a new one.
Joined(S, f, p) ==
  \E i \in 1..Len(S.list) :
    /\ S.list[i].id = f.id
    /\ Entered(S, i, f, p, Chain(Entry(S.list[i], f), f, PartOf(f, p)))

Begun(B, f, p) ==
  \E N : /\ N = [B EXCEPT !.list = <<NewEntry(f)>> \o @]
         /\ N \in OpenStates /\ Members(N.list) = Members(B.list) \union {NewEntry(f)}
         /\ N.list[1] = NewEntry(f) /\ Len(N.list) = Len(B.list) + 1
         /\ Queued(N.list) = Queued(B.list)
         /\ Entered(N, 1, f, p, Chain(Entry(NewEntry(f), f), f, PartOf(f, p)))

\* One that is alone is refused only if there is no other to give up.
Hopeless(S, f, p) ==
  pbuf_clen(p) = 1 => \A r \in Members(S.list) : r.id = f.id

Found(S, f, p) ==
  \/ Joined(S, f, p)
  \/ /\ \A r \in Members(S.list) : r.id # f.id
     /\ \E B, G :
          /\ Gone(S, B, G) /\ Spent(S, G, f.id)
          /\ Len(S.list) < MEMP_NUM_REASSDATA => G = {}
          /\ \/ Len(B.list) < MEMP_NUM_REASSDATA /\ Begun(B, f, p)
             \/ /\ Drop(B, {f}) /\ Hopeless(S, f, p)
                /\ Len(S.list) >= MEMP_NUM_REASSDATA

\* The first fragment to come begins an entry of its own.
LEMMA BeginIs ==
  ASSUME NEW B \in GoodStates, NEW f, Piece(f),
         \A r \in Members(B.list) : r.id # f.id,
         NEW p \in FragPbufs, p \notin Queued(B.list),
         Enter([B EXCEPT !.list = <<NewEntry(f)>> \o @], 1, f, p)
  PROVE  Begun(B, f, p)
<1>1. PICK N : N = [B EXCEPT !.list = <<NewEntry(f)>> \o @]
  OBVIOUS
<1>2. PICK new, list, e : /\ list = B.list /\ e = NewEntry(f)
                          /\ new = <<e>> \o list
  OBVIOUS
<1>3. /\ B = [list |-> list, count |-> B.count, freed |-> B.freed,
              told |-> B.told]
      /\ GoodList(list) /\ IsFiniteSet(Queued(list))
      /\ B.count = Clen(Queued(list)) /\ B.count \in Nat
      /\ B.freed \subseteq FragPbufs /\ B.told \subseteq Datagrams
  BY <1>2, StateHas
<1>4. /\ OpenList(new) /\ Len(new) = Len(list) + 1 /\ new[1] = e
      /\ \A j \in 1..Len(new) : j # 1 => new[j].p # <<>>
      /\ Members(new) = Members(list) \union {e}
      /\ Queued(new) = Queued(list)
  <2>1. GoodList(list) /\ \A r \in Members(list) : r.id # f.id
    BY <1>2, <1>3
  <2>2. LET n == <<NewEntry(f)>> \o list
        IN  /\ OpenList(n) /\ Len(n) = Len(list) + 1
            /\ n[1] = NewEntry(f)
            /\ \A j \in 1..Len(n) : j # 1 => n[j].p # <<>>
            /\ Members(n) = Members(list) \union {NewEntry(f)}
            /\ Queued(n) = Queued(list)
    BY <2>1, InFrontKeeps
  <2>3. <<NewEntry(f)>> \o list = new
    BY <1>2
  <2> QED
    BY <1>2, <2>2, <2>3
<1>5. N = [list |-> new, count |-> B.count, freed |-> B.freed, told |-> B.told]
  BY <1>1, <1>2, <1>3
<1>6. /\ N.list = new /\ N.count = B.count /\ N.freed = B.freed
      /\ N.told = B.told
  BY <1>5
<1>7. new \in Seq(Entries) /\ Len(list) \in Nat
  BY <1>3, <1>4, ListHas DEF OpenList, GoodList
<1>8. N \in OpenStates
  <2>1. N \in [list : Seq(Entries), count : Nat, freed : SUBSET FragPbufs,
               told : SUBSET Datagrams]
    BY <1>3, <1>5, <1>7
  <2> QED
    BY <1>3, <1>4, <1>6, <2>1 DEF OpenStates
<1>9. PICK i : i = 1
  OBVIOUS
<1>10. /\ i \in 1..Len(N.list) /\ N.list[i] = e /\ f.id = N.list[i].id
       /\ \A j \in 1..Len(N.list) : j # i => N.list[j].p # <<>>
       /\ p \notin Queued(N.list)
  BY <1>2, <1>4, <1>6, <1>7, <1>9 DEF NewEntry
<1>11. Enter(N, i, f, p)
  BY <1>1, <1>9
<1>12. Entered(N, i, f, p, Chain(Entry(N.list[i], f), f, PartOf(f, p)))
  BY <1>8, <1>10, <1>11, EnterIs
<1>13. Entered(N, 1, f, p, Chain(Entry(NewEntry(f), f), f, PartOf(f, p)))
  BY <1>2, <1>9, <1>10, <1>12
<1>14. /\ Members(N.list) = Members(B.list) \union {NewEntry(f)}
       /\ N.list[1] = NewEntry(f) /\ Len(N.list) = Len(B.list) + 1
       /\ Queued(N.list) = Queued(B.list)
  BY <1>2, <1>4, <1>6
<1> QED
  BY <1>1, <1>8, <1>13, <1>14 DEF Begun

\* A fragment is entered into its datagram's entry, or begins one.
LEMMA FindIs ==
  ASSUME NEW S \in GoodStates, Room(S), NEW f, Piece(f),
         NEW p \in FragPbufs, p \notin Queued(S.list), Find(S, f, p)
  PROVE  Found(S, f, p)
<1> DEFINE known == {i \in DOMAIN S.list : Matches(S.list[i].id, f.id)}
<1>1. /\ GoodList(S.list) /\ OpenList(S.list) /\ Len(S.list) \in Nat
      /\ DOMAIN S.list = 1..Len(S.list) /\ MEMP_NUM_REASSDATA \in Nat
      /\ \A i \in 1..Len(S.list) : S.list[i].id \in Datagrams
      /\ f.id \in Datagrams
  BY StateHas, ListHas, EntryHas, ReassAssumption DEF Piece
<1>2. known = {i \in 1..Len(S.list) : S.list[i].id = f.id}
  BY <1>1, MatchesIs
<1>3. CASE known # {}
  <2>1. PICK i : i = CHOOSE m \in known : \A j \in known : m <= j
    OBVIOUS
  <2>2. known \subseteq Nat
    BY <1>2
  <2>3. i \in known
    <3> HIDE DEF known
    <3>1. \E x \in known : \A y \in known : x <= y
      BY <1>3, <2>2, LeastOf
    <3> QED
      BY <2>1, <3>1
  <2>4. Enter(S, i, f, p)
    BY <1>3, <2>1 DEF Find
  <2>5. i \in 1..Len(S.list) /\ S.list[i].id = f.id
    BY <1>2, <2>3
  <2>6. S \in OpenStates
    BY <1>1 DEF GoodStates, OpenStates
  <2>7. \A j \in 1..Len(S.list) : j # i => S.list[j].p # <<>>
    BY <1>1 DEF GoodList
  <2>8. Entered(S, i, f, p, Chain(Entry(S.list[i], f), f, PartOf(f, p)))
    BY <2>4, <2>5, <2>6, <2>7, EnterIs
  <2> QED
    BY <2>5, <2>8 DEF Joined, Found
<1>4. CASE known = {}
  <2> DEFINE few == Len(S.list) < MEMP_NUM_REASSDATA
  <2>1. \A r \in Members(S.list) : r.id # f.id
    BY <1>2, <1>4 DEF Members
  <2>2. PICK n, S0 : n = pbuf_clen(p) /\ S0 = [S EXCEPT !.freed = {}]
    OBVIOUS
  <2>3. n \in 1..2
    BY <2>2, ClenOne
  <2>4. PICK T : T = IF few THEN S
                     ELSE ip_reass_remove_oldest_datagram(S0, f.id, n)
    OBVIOUS
  <2>5. PICK B : B = [T EXCEPT !.freed = @ \union S.freed]
    OBVIOUS
  <2>6. IF few \/ (Len(T.list) < Len(S.list) /\ Clen(T.freed) >= n)
        THEN Enter([B EXCEPT !.list = <<NewEntry(f)>> \o @], 1, f, p)
        ELSE Drop(B, {f})
    BY <1>4, <2>2, <2>4, <2>5 DEF Find
  <2>7. \E G : /\ Gone(S, B, G) /\ Spent(S, G, f.id)
               /\ few => G = {}
               /\ few \/ (Len(T.list) < Len(S.list) /\ Clen(T.freed) >= n)
                    => Len(B.list) < MEMP_NUM_REASSDATA
               /\ few \/ (Len(T.list) < Len(S.list) /\ Clen(T.freed) >= n)
                    \/ Hopeless(S, f, p)
    <3>1. CASE few
      <4>1. B = S
        BY <2>4, <2>5, <3>1, StateHas
      <4>2. Gone(S, B, {}) /\ Spent(S, {}, f.id)
        BY <4>1, GoneNone DEF Spent
      <4> QED
        BY <3>1, <4>1, <4>2
    <3>2. CASE ~few
      <4>1. /\ S0 \in GoodStates /\ S0.freed = {} /\ S0.list = S.list
        <5>1. /\ S = [list |-> S.list, count |-> S.count, freed |-> S.freed,
                      told |-> S.told]
          BY StateHas
        <5>2. S0 = [list |-> S.list, count |-> S.count, freed |-> {},
                    told |-> S.told]
          BY <2>2, <5>1
        <5>3. /\ GoodList(S.list) /\ IsFiniteSet(Queued(S.list))
              /\ S.count = Clen(Queued(S.list)) /\ S.told \subseteq Datagrams
          BY StateHas
        <5>4. PICK list, count, told : list = S.list /\ count = S.count /\ told = S.told
          OBVIOUS
        <5>5. [list |-> list, count |-> count, freed |-> {}, told |-> told]
                \in GoodStates
          <6>1. PICK none : none = {}
            OBVIOUS
          <6>2. /\ none \in SUBSET FragPbufs /\ told \in SUBSET Datagrams
                /\ GoodList(list) /\ IsFiniteSet(Queued(list))
                /\ count = Clen(Queued(list))
            BY <5>3, <5>4, <6>1
          <6>3. [list |-> list, count |-> count, freed |-> none, told |-> told]
                  \in GoodStates
            BY <6>2, MakeState
          <6> QED
            BY <6>1, <6>3
        <5> QED
          BY <5>2, <5>4, <5>5
      <4>2. T = ip_reass_remove_oldest_datagram(S0, f.id, n)
        BY <2>4, <3>2
      <4>3. PICK id : id = f.id
        OBVIOUS
      <4>4. id \in Datagrams
        BY <1>1, <4>3
      <4>5. PICK G : /\ Gone(S0, T, G) /\ Spent(S0, G, id)
                     /\ S0.freed = {} /\ (\E r \in Members(S0.list) : r.id # id)
                          => G # {}
        BY <2>3, <4>1, <4>2, <4>3, <4>4, RemoveOldestIs
      <4>6. Gone(S, B, G) /\ B.list = T.list /\ T.freed = Lost(S, G)
        BY <2>2, <2>5, <4>5, GoneBesides
      <4>7. Spent(S, G, f.id)
        BY <4>1, <4>3, <4>5 DEF Spent
      <4>8. Len(T.list) < Len(S.list) => Len(B.list) < MEMP_NUM_REASSDATA
        <5>1. Len(T.list) \in Nat
          BY <4>5, StateHas, ListHas DEF Gone
        <5> QED
          BY <1>1, <4>6, <5>1 DEF Room
      <4>9. (Len(T.list) < Len(S.list) /\ Clen(T.freed) >= n)
              \/ Hopeless(S, f, p)
        <5> SUFFICES ASSUME n = 1, NEW r \in Members(S.list), r.id # f.id
                     PROVE  Len(T.list) < Len(S.list) /\ Clen(T.freed) >= n
          BY <2>2 DEF Hopeless
        <5>1. G # {}
          BY <4>1, <4>3, <4>5
        <5>2. Len(B.list) < Len(S.list)
          BY <4>6, <5>1 DEF Gone
        <5>3. IsFiniteSet(Lost(S, G)) /\ Clen(Lost(S, G)) > 0
          BY <4>6, <5>1, LostSome
        <5>4. Clen(Lost(S, G)) \in Nat
          BY <5>3, ClenType
        <5> QED
          BY <4>6, <5>2, <5>3, <5>4
      <4> QED
        BY <3>2, <4>6, <4>7, <4>8, <4>9
    <3> QED
      BY <3>1, <3>2
  <2>8. PICK G : /\ Gone(S, B, G) /\ Spent(S, G, f.id)
                 /\ few => G = {}
                 /\ few \/ (Len(T.list) < Len(S.list) /\ Clen(T.freed) >= n)
                      => Len(B.list) < MEMP_NUM_REASSDATA
                 /\ few \/ (Len(T.list) < Len(S.list) /\ Clen(T.freed) >= n)
                      \/ Hopeless(S, f, p)
    BY <2>7
  <2>9. CASE few \/ (Len(T.list) < Len(S.list) /\ Clen(T.freed) >= n)
    <3>1. Enter([B EXCEPT !.list = <<NewEntry(f)>> \o @], 1, f, p)
      BY <2>6, <2>9
    <3>2. /\ B \in GoodStates /\ \A r \in Members(B.list) : r.id # f.id
          /\ p \notin Queued(B.list)
      BY <2>1, <2>8 DEF Gone
    <3>3. Begun(B, f, p)
      BY <3>1, <3>2, BeginIs
    <3> QED
      BY <2>1, <2>8, <2>9, <3>3 DEF Found
  <2>10. CASE ~(few \/ (Len(T.list) < Len(S.list) /\ Clen(T.freed) >= n))
    <3>1. Drop(B, {f}) /\ Hopeless(S, f, p) /\ Len(S.list) >= MEMP_NUM_REASSDATA
      BY <1>1, <2>6, <2>8, <2>10
    <3> QED
      BY <2>1, <2>8, <3>1 DEF Found
  <2> QED
    BY <2>9, <2>10
<1> QED
  BY <1>3, <1>4

\* Either of these keeps the invariant.
LEMMA FoundKeeps ==
  ASSUME NEW S \in GoodStates, Owned(S), Room(S), NEW f, NEW p,
         Fits(S.count, p), Found(S, f, p)
  PROVE  IInv'
<1>1. /\ pbuf_clen(p) \in Nat /\ S.count \in Nat /\ IP_REASS_MAX_PBUFS \in Nat
      /\ MEMP_NUM_REASSDATA \in Nat
  <2>1. pbuf_clen(p) \in 1..2
    BY ClenOne
  <2>2. S.count \in Nat
    BY StateHas
  <2> QED
    BY <2>1, <2>2, ReassAssumption
<1>2. S.count + pbuf_clen(p) <= IP_REASS_MAX_PBUFS
  BY DEF Fits
<1>3. S \in OpenStates
  BY StateHas DEF OpenStates, GoodStates
<1>4. CASE Joined(S, f, p)
  <2>1. PICK i, r : Entered(S, i, f, p, r)
    BY <1>4 DEF Joined
  <2> QED
    BY <1>2, <1>3, <2>1, EnteredKeeps
<1>5. CASE ~Joined(S, f, p)
  <2>1. PICK B, G : /\ Gone(S, B, G)
                    /\ \/ Len(B.list) < MEMP_NUM_REASSDATA /\ Begun(B, f, p)
                       \/ Drop(B, {f})
    BY <1>5 DEF Found
  <2>2. /\ Owned(B) /\ B.count <= S.count /\ B.count \in Nat
        /\ B \in GoodStates
    BY <2>1, GoneOwned DEF Gone
  <2>3. Len(B.list) \in Nat /\ Room(B)
    <3>1. Len(B.list) \in Nat /\ Len(S.list) \in Nat
      BY <2>2, StateHas, ListHas
    <3>2. Len(B.list) <= Len(S.list)
      BY <2>1 DEF Gone
    <3> QED
      BY <1>1, <3>1, <3>2 DEF Room
  <2>4. CASE Len(B.list) < MEMP_NUM_REASSDATA /\ Begun(B, f, p)
    <3>1. PICK N : /\ N = [B EXCEPT !.list = <<NewEntry(f)>> \o @]
                   /\ N \in OpenStates /\ Len(N.list) = Len(B.list) + 1
                   /\ Queued(N.list) = Queued(B.list)
                   /\ \E r : Entered(N, 1, f, p, r)
      BY <2>4 DEF Begun
    <3>2. N.freed = B.freed /\ N.count = B.count
      <4>1. B = [list |-> B.list, count |-> B.count, freed |-> B.freed,
                 told |-> B.told]
        BY <2>2, StateHas
      <4>2. PICK new : new = <<NewEntry(f)>> \o B.list
        OBVIOUS
      <4>3. N = [B EXCEPT !.list = new]
        BY <3>1, <4>2
      <4> QED
        BY <4>1, <4>3
    <3>3. Owned(N) /\ Room(N)
      BY <1>1, <2>2, <2>3, <2>4, <3>1, <3>2 DEF Owned, Room
    <3>4. N.count + pbuf_clen(p) <= IP_REASS_MAX_PBUFS
      BY <1>1, <1>2, <2>2, <3>2
    <3>5. PICK i, r : Entered(N, i, f, p, r)
      BY <3>1
    <3> QED
      BY <3>1, <3>3, <3>4, <3>5, EnteredKeeps
  <2>5. CASE Drop(B, {f})
    <3>1. B.count <= IP_REASS_MAX_PBUFS
      BY <1>1, <1>2, <2>2
    <3> QED
      BY <2>2, <2>3, <2>5, <3>1, DropKeeps
  <2> QED
    BY <2>1, <2>4, <2>5
<1> QED
  BY <1>4, <1>5

\* The variables as a state of ip4_reass.
LEMMA StateIs ==
  ASSUME IInv
  PROVE  /\ State \in GoodStates /\ Owned(State) /\ Room(State)
         /\ State.count <= IP_REASS_MAX_PBUFS
         /\ State.list = reassdatagrams /\ State.freed = {} /\ State.told = {}
         /\ State.count = ip_reass_pbufcount
<1>1. PICK list, count, none, told :
        list = reassdatagrams /\ count = ip_reass_pbufcount /\ none = {} /\ told = {}
  OBVIOUS
<1>2. /\ GoodList(list) /\ busy = Queued(list) /\ IsFiniteSet(busy)
      /\ count = Clen(busy) /\ count <= IP_REASS_MAX_PBUFS
      /\ Len(list) <= MEMP_NUM_REASSDATA
  BY <1>1 DEF IInv
<1>3. none \in SUBSET FragPbufs /\ told \in SUBSET Datagrams
  BY <1>1
<1>4. [list |-> list, count |-> count, freed |-> none, told |-> told]
        \in GoodStates
  BY <1>2, <1>3, MakeState
<1>5. State = [list |-> list, count |-> count, freed |-> none, told |-> told]
  BY <1>1 DEF State
<1> QED
  BY <1>1, <1>2, <1>4, <1>5 DEF Owned, Room

\* ip4_reass keeps the invariant.
LEMMA ReassKeeps ==
  ASSUME IInv, NEW f, Piece(f), NEW p \in FragPbufs, p \notin busy,
         ip4_reass(f, p)
  PROVE  IInv'
<1>1. PICK S : S = State
  OBVIOUS
<1>2. /\ S \in GoodStates /\ Owned(S) /\ Room(S)
      /\ S.count <= IP_REASS_MAX_PBUFS /\ S.freed = {} /\ S.list = reassdatagrams
  BY <1>1, StateIs
<1>3. p \notin Queued(S.list)
  BY <1>2 DEF Owned
<1>4. PICK n, id : n = pbuf_clen(p) /\ id = f.id
  OBVIOUS
<1>5. n \in 1..2 /\ id \in Datagrams
  BY <1>4, ClenOne DEF Piece
<1>6. PICK T : T = ip_reass_remove_oldest_datagram(S, id, n)
  OBVIOUS
<1>7. PICK G : Gone(S, T, G)
  BY <1>2, <1>5, <1>6, RemoveOldestIs
<1>8. /\ T \in GoodStates /\ Owned(T) /\ Room(T)
      /\ T.count <= IP_REASS_MAX_PBUFS /\ p \notin Queued(T.list)
  <2>1. T \in GoodStates /\ Len(T.list) <= Len(S.list) /\ p \notin Queued(T.list)
    BY <1>3, <1>7 DEF Gone
  <2>2. Owned(T) /\ T.count <= S.count /\ T.count \in Nat /\ S.count \in Nat
    BY <1>2, <1>7, GoneOwned
  <2>3. /\ Len(T.list) \in Nat /\ Len(S.list) \in Nat
        /\ IP_REASS_MAX_PBUFS \in Nat /\ MEMP_NUM_REASSDATA \in Nat
    BY <1>2, <2>1, StateHas, ListHas, ReassAssumption
  <2> QED
    BY <1>2, <2>1, <2>2, <2>3 DEF Room
<1>9. \/ Drop(S, {f})
      \/ Fits(S.count, p) /\ Find(S, f, p)
      \/ Fits(T.count, p) /\ Find(T, f, p)
      \/ Drop(T, {f})
  BY <1>1, <1>4, <1>6 DEF ip4_reass
<1>10. CASE Drop(S, {f})
  BY <1>2, <1>10, DropKeeps
<1>11. CASE Fits(S.count, p) /\ Find(S, f, p)
  <2>1. Found(S, f, p)
    BY <1>2, <1>3, <1>11, FindIs
  <2> QED
    BY <1>2, <1>11, <2>1, FoundKeeps
<1>12. CASE Fits(T.count, p) /\ Find(T, f, p)
  <2>1. Found(T, f, p)
    BY <1>8, <1>12, FindIs
  <2> QED
    BY <1>8, <1>12, <2>1, FoundKeeps
<1>13. CASE Drop(T, {f})
  BY <1>8, <1>13, DropKeeps
<1> QED
  BY <1>9, <1>10, <1>11, <1>12, <1>13

-----------------------------------------------------------------------------
(* What the receiver of a datagram gets.                                   *)

\* After pbuf p came: no other pbuf is in use that was not; the pbufs of a
\* datagram that is handed on are no longer the list's.
Handed(p) ==
  /\ busy' \subseteq busy \union {p}
  /\ \/ out' = {}
     \/ \E o : /\ out' = {o} /\ o.parts \in Seq(Parts) /\ o.parts # <<>>
               /\ \A k \in DOMAIN o.parts :
                    o.parts[k].pbuf \in (busy \union {p}) \ busy'

\* Entering a fragment holds its pbufs, hands them on or frees them.
LEMMA EnteredHands ==
  ASSUME NEW S, Owned(S), NEW p \in FragPbufs, p \notin Queued(S.list),
         NEW f, Piece(f), NEW i, NEW s \in Entries, S.list[i] = s,
         GoodEntry(s), f.id = s.id, PbufsOf(s) \subseteq Queued(S.list),
         Entered(S, i, f, p, Chain(Entry(s, f), f, PartOf(f, p)))
  PROVE  Handed(p)
<1>1. PICK r : r = Chain(Entry(s, f), f, PartOf(f, p))
  OBVIOUS
<1>2. /\ S.freed \subseteq busy /\ Queued(S.list) = busy \ S.freed
  BY DEF Owned
<1>3. CASE Overlapping(S, i, f, p)
  BY <1>2, <1>3 DEF Overlapping, Handed
<1>4. CASE Taking(S, i, f, p, r)
  BY <1>2, <1>4 DEF Taking, Handed
<1>5. CASE Finishing(S, i, f, p, r)
  <2>1. PICK s1 : s1 = Entry(s, f)
    OBVIOUS
  <2>2. /\ s1 \in Entries /\ GoodEntry(s1) /\ s1.id = s.id /\ s1.p = s.p
        /\ f.start = 0 => s1.hdr = 0
    BY <2>1, EntryKeeps
  <2>3. PbufsOf(s1) = PbufsOf(s)
    BY <2>2 DEF PbufsOf
  <2>4. ~Overlaps(s1.p, PartOf(f, p))
    BY <1>5, <2>2 DEF Finishing
  <2>5. r = Chain(s1, f, PartOf(f, p))
    BY <1>1, <2>1
  <2>6. r \in Entries /\ r.p # <<>> /\ PbufsOf(r) = PbufsOf(s1) \union {p}
    BY <2>2, <2>3, <2>4, <2>5, ChainGood
  <2>7. PbufsOf(r) \subseteq busy \union {p}
    BY <1>2, <2>3, <2>6
  <2>8. /\ busy' = busy \ (S.freed \union PbufsOf(r))
        /\ out' = {[id |-> r.id, len |-> r.datagram_len, hdr |-> r.hdr,
                    parts |-> r.p]}
    BY <1>5 DEF Finishing
  <2>9. PICK o : o = [id |-> r.id, len |-> r.datagram_len, hdr |-> r.hdr,
                      parts |-> r.p]
    OBVIOUS
  <2>10. o.parts = r.p /\ r.p \in Seq(Parts)
    BY <2>6, <2>9, EntryHas
  <2>11. \A k \in DOMAIN o.parts : o.parts[k].pbuf \in PbufsOf(r)
    BY <2>10 DEF PbufsOf
  <2> QED
    BY <2>6, <2>7, <2>8, <2>9, <2>10, <2>11 DEF Handed
<1> QED
  BY <1>1, <1>3, <1>4, <1>5 DEF Entered

\* So does finding its datagram.
LEMMA FoundHands ==
  ASSUME NEW S \in GoodStates, Owned(S), NEW f, Piece(f), NEW p \in FragPbufs,
         p \notin busy, Found(S, f, p)
  PROVE  Handed(p)
<1>1. CASE Joined(S, f, p)
  <2>1. PICK i \in 1..Len(S.list) :
          /\ S.list[i].id = f.id
          /\ Entered(S, i, f, p, Chain(Entry(S.list[i], f), f, PartOf(f, p)))
    BY <1>1 DEF Joined
  <2>2. GoodList(S.list) /\ OpenList(S.list)
    BY StateHas
  <2>3. PICK s : s = S.list[i]
    OBVIOUS
  <2>4. s \in Entries /\ GoodEntry(s) /\ s \in Members(S.list) /\ f.id = s.id
    BY <2>1, <2>2, <2>3, ListHas, MemberIs
  <2>5. PbufsOf(s) \subseteq Queued(S.list)
    BY <2>4 DEF Queued
  <2>6. p \notin Queued(S.list)
    BY DEF Owned
  <2>7. Entered(S, i, f, p, Chain(Entry(s, f), f, PartOf(f, p)))
    BY <2>1, <2>3
  <2> QED
    BY <2>3, <2>4, <2>5, <2>6, <2>7, EnteredHands
<1>2. CASE ~Joined(S, f, p)
  <2>1. PICK B, G : /\ Gone(S, B, G)
                    /\ Begun(B, f, p) \/ Drop(B, {f})
    BY <1>2 DEF Found
  <2>2. Owned(B) /\ B \in GoodStates
    BY <2>1, GoneOwned DEF Gone
  <2>3. CASE Drop(B, {f})
    BY <2>3 DEF Drop, Handed
  <2>4. CASE Begun(B, f, p)
    <3>1. PICK N : /\ N = [B EXCEPT !.list = <<NewEntry(f)>> \o @]
                   /\ N \in OpenStates /\ N.list[1] = NewEntry(f)
                   /\ Len(N.list) = Len(B.list) + 1
                   /\ Queued(N.list) = Queued(B.list)
                   /\ Members(N.list) = Members(B.list) \union {NewEntry(f)}
                   /\ Entered(N, 1, f, p, Chain(Entry(NewEntry(f), f), f, PartOf(f, p)))
      BY <2>4 DEF Begun
    <3>2. N.freed = B.freed
      <4>1. B = [list |-> B.list, count |-> B.count, freed |-> B.freed,
                 told |-> B.told]
        BY <2>2, StateHas
      <4>2. PICK new : new = <<NewEntry(f)>> \o B.list
        OBVIOUS
      <4>3. N = [B EXCEPT !.list = new]
        BY <3>1, <4>2
      <4> QED
        BY <4>1, <4>3
    <3>3. Owned(N)
      BY <2>2, <3>1, <3>2 DEF Owned
    <3>4. PICK s : s = NewEntry(f)
      OBVIOUS
    <3>5. Len(N.list) \in Nat /\ Len(B.list) \in Nat /\ OpenList(N.list)
      BY <2>2, <3>1, StateHas, ListHas DEF OpenStates
    <3>6. 1 \in 1..Len(N.list) /\ N.list[1] = s
      BY <3>1, <3>4, <3>5
    <3>7. s \in Entries /\ GoodEntry(s)
      BY <3>5, <3>6, ListHas
    <3>8. f.id = s.id /\ s \in Members(N.list)
      BY <3>1, <3>4 DEF NewEntry
    <3>9. PbufsOf(s) \subseteq Queued(N.list)
      BY <3>8 DEF Queued
    <3>10. p \notin Queued(N.list)
      BY <3>3 DEF Owned
    <3>11. Entered(N, 1, f, p, Chain(Entry(s, f), f, PartOf(f, p)))
      BY <3>1, <3>4
    <3> QED
      BY <3>3, <3>6, <3>7, <3>8, <3>9, <3>10, <3>11, EnteredHands
  <2> QED
    BY <2>1, <2>3, <2>4
<1> QED
  BY <1>1, <1>2

\* So does ip4_reass as a whole.
LEMMA ReassHands ==
  ASSUME IInv, NEW f, Piece(f), NEW p \in FragPbufs, p \notin busy,
         ip4_reass(f, p)
  PROVE  Handed(p)
<1>1. PICK S : S = State
  OBVIOUS
<1>2. /\ S \in GoodStates /\ Owned(S) /\ Room(S)
  BY <1>1, StateIs
<1>3. PICK n, id : n = pbuf_clen(p) /\ id = f.id
  OBVIOUS
<1>4. n \in 1..2 /\ id \in Datagrams
  BY <1>3, ClenOne DEF Piece
<1>5. PICK T : T = ip_reass_remove_oldest_datagram(S, id, n)
  OBVIOUS
<1>6. PICK G : Gone(S, T, G)
  BY <1>2, <1>4, <1>5, RemoveOldestIs
<1>7. T \in GoodStates /\ Owned(T) /\ Room(T)
  <2>1. T \in GoodStates /\ Owned(T) /\ Len(T.list) <= Len(S.list)
    BY <1>2, <1>6, GoneOwned DEF Gone
  <2>2. /\ Len(T.list) \in Nat /\ Len(S.list) \in Nat
        /\ MEMP_NUM_REASSDATA \in Nat
    BY <1>2, <2>1, StateHas, ListHas, ReassAssumption
  <2> QED
    BY <1>2, <2>1, <2>2 DEF Room
<1>8. \/ Drop(S, {f}) \/ Find(S, f, p) \/ Find(T, f, p) \/ Drop(T, {f})
  BY <1>1, <1>3, <1>5 DEF ip4_reass
<1>9. ASSUME NEW U \in {S, T}, Drop(U, {f})
      PROVE  Handed(p)
  BY <1>9 DEF Drop, Handed
<1>10. ASSUME NEW U \in GoodStates, Owned(U), Room(U), Find(U, f, p)
       PROVE  Handed(p)
  <2>1. p \notin Queued(U.list)
    BY <1>10 DEF Owned
  <2>2. Found(U, f, p)
    BY <1>10, <2>1, FindIs
  <2> QED
    BY <1>10, <2>2, FoundHands
<1> QED
  BY <1>2, <1>7, <1>8, <1>9, <1>10

-----------------------------------------------------------------------------
(* Time.                                                                   *)

Aged(r) == [r EXCEPT !.timer = @ - 1]

Ended(T, i, U) ==
  /\ Gone(T, U, {T.list[i].id})
  /\ Len(U.list) = Len(T.list) - 1
  /\ \A j \in 1..i - 1 : U.list[j] = T.list[j]

Lessened(T, i, U) ==
  /\ U \in GoodStates
  /\ U.freed = T.freed /\ U.told = T.told /\ U.count = T.count
  /\ Len(U.list) = Len(T.list)
  /\ \A j \in 1..i - 1 : U.list[j] = T.list[j]
  /\ Members(U.list) =
       {m \in Members(T.list) : m.id # T.list[i].id} \union {Aged(T.list[i])}
  /\ Queued(U.list) = Queued(T.list)

\* A datagram one tick older.
LEMMA AgedIs ==
  ASSUME NEW r \in Entries, GoodEntry(r), r.timer # 0
  PROVE  /\ Aged(r) \in Entries /\ GoodEntry(Aged(r))
         /\ Aged(r).id = r.id /\ Aged(r).p = r.p /\ Aged(r).timer = r.timer - 1
         /\ PbufsOf(Aged(r)) = PbufsOf(r)
<1>1. PICK t : t = r.timer - 1
  OBVIOUS
<1>2. t \in 0..IP_REASS_MAXAGE
  <2>1. r.timer \in 0..IP_REASS_MAXAGE /\ IP_REASS_MAXAGE \in Nat
    BY EntryHas, ReassAssumption
  <2> QED
    BY <1>1, <2>1
<1>3. PICK s : s = [r EXCEPT !.timer = t]
  OBVIOUS
<1>4. /\ s \in Entries /\ s.id = r.id /\ s.p = r.p /\ s.timer = t
      /\ s.datagram_len = r.datagram_len /\ s.hdr = r.hdr
  BY <1>2, <1>3 DEF Entries
<1>5. Aged(r) = s
  BY <1>1, <1>3 DEF Aged
<1>6. GoodEntry(s)
  BY <1>4 DEF GoodEntry
<1>7. PbufsOf(s) = PbufsOf(r)
  BY <1>4 DEF PbufsOf
<1> QED
  BY <1>1, <1>4, <1>5, <1>6, <1>7

\* A tick ages a datagram, or ends it at the end of its time.
LEMMA TickIs ==
  ASSUME NEW T \in GoodStates, NEW i \in 1..Len(T.list)
  PROVE  IF T.list[i].timer = 0 THEN Ended(T, i, Tick(T, i))
         ELSE Lessened(T, i, Tick(T, i))
<1>1. PICK list, r : list = T.list /\ r = list[i]
  OBVIOUS
<1>2. /\ GoodList(list) /\ OpenList(list) /\ list \in Seq(Entries)
      /\ Len(list) \in Nat /\ i \in 1..Len(list) /\ r \in Entries
      /\ GoodEntry(r) /\ r \in Members(list)
      /\ T = [list |-> list, count |-> T.count, freed |-> T.freed,
              told |-> T.told]
      /\ IsFiniteSet(Queued(list)) /\ T.count = Clen(Queued(list))
      /\ T.freed \subseteq FragPbufs /\ T.told \subseteq Datagrams
  BY <1>1, StateHas, ListHas, MemberIs
<1>3. PICK U : U = Tick(T, i)
  OBVIOUS
<1>4. CASE r.timer = 0
  <2>1. U = ip_reass_free_complete_datagram(T, i)
    BY <1>1, <1>3, <1>4 DEF Tick
  <2>2. Gone(T, U, {T.list[i].id})
    BY <2>1, FreeGone
  <2>3. U.list = Without(list, i)
    BY <1>1, <2>1 DEF ip_reass_free_complete_datagram
  <2>4. PICK new : new = Without(list, i)
    OBVIOUS
  <2>5. /\ Len(new) = Len(list) - 1
        /\ \A j \in 1..Len(list) - 1 :
             new[j] = IF j < i THEN list[j] ELSE list[j + 1]
    BY <1>2, <2>4, WithoutIs
  <2>6. \A j \in 1..i - 1 : new[j] = list[j]
    BY <1>2, <2>5
  <2>7. Ended(T, i, U)
    BY <1>1, <2>2, <2>3, <2>4, <2>5, <2>6 DEF Ended
  <2> QED
    BY <1>1, <1>3, <1>4, <2>7
<1>5. CASE r.timer # 0
  <2>1. PICK s, new : s = Aged(r) /\ new = [list EXCEPT ![i] = s]
    OBVIOUS
  <2>2. /\ s \in Entries /\ GoodEntry(s) /\ s.id = r.id /\ s.p = r.p
        /\ PbufsOf(s) = PbufsOf(r)
    BY <1>2, <1>5, <2>1, AgedIs
  <2>3. U = [T EXCEPT !.list[i].timer = @ - 1]
    BY <1>1, <1>3, <1>5 DEF Tick
  <2>4. U = [list |-> new, count |-> T.count, freed |-> T.freed,
             told |-> T.told]
    <3>1. U = [T EXCEPT !.list = [T.list EXCEPT ![i] =
                 [T.list[i] EXCEPT !.timer = T.list[i].timer - 1]]]
      BY <2>3
    <3>2. [T.list[i] EXCEPT !.timer = T.list[i].timer - 1] = s
      BY <1>1, <2>1 DEF Aged
    <3>3. U = [T EXCEPT !.list = new]
      BY <1>1, <2>1, <3>1, <3>2, Zenon
    <3> QED
      BY <1>2, <3>3
  <2>5. PICK P : P = {}
    OBVIOUS
  <2>6. /\ s.id = list[i].id /\ P \cap Queued(list) = {}
        /\ PbufsOf(s) \subseteq PbufsOf(list[i]) \union P
    BY <1>1, <2>2, <2>5
  <2>7. Renewed(list, i, s, new)
    BY <1>2, <2>1, <2>2, <2>6, ReplaceKeeps
  <2>8. s.p # <<>> /\ \A j \in 1..Len(list) : j # i => list[j].p # <<>>
    BY <1>1, <1>2, <2>2 DEF GoodList
  <2>9. /\ GoodList(new) /\ Len(new) = Len(list)
        /\ Members(new) = {m \in Members(list) : m.id # s.id} \union {s}
        /\ Queued(new) = (Queued(list) \ PbufsOf(list[i])) \union PbufsOf(s)
    BY <2>7, <2>8 DEF Renewed
  <2>10. Queued(new) = Queued(list)
    <3>1. PbufsOf(r) \subseteq Queued(list)
      BY <1>2 DEF Queued
    <3> QED
      BY <1>1, <2>2, <2>9, <3>1
  <2>11. U \in GoodStates
    <3>1. PICK count, freed, told :
            count = T.count /\ freed = T.freed /\ told = T.told
      OBVIOUS
    <3>2. /\ freed \in SUBSET FragPbufs /\ told \in SUBSET Datagrams
          /\ IsFiniteSet(Queued(new)) /\ count = Clen(Queued(new))
      BY <1>2, <2>10, <3>1
    <3>3. [list |-> new, count |-> count, freed |-> freed, told |-> told]
            \in GoodStates
      BY <2>9, <3>2, MakeState
    <3> QED
      BY <2>4, <3>1, <3>3
  <2>12. \A j \in 1..i - 1 : new[j] = list[j]
    BY <1>2, <2>1, <2>2, ReplacedIs
  <2>13. /\ U.list = new /\ U.count = T.count /\ U.freed = T.freed
         /\ U.told = T.told
    BY <2>4
  <2>14. Members(U.list) = {m \in Members(T.list) : m.id # T.list[i].id}
                             \union {Aged(T.list[i])}
    BY <1>1, <2>1, <2>2, <2>9, <2>13
  <2>15. Lessened(T, i, U)
    BY <1>1, <2>9, <2>10, <2>11, <2>12, <2>13, <2>14 DEF Lessened
  <2> QED
    BY <1>1, <1>3, <1>5, <2>15
<1> QED
  BY <1>4, <1>5

\* T is S after the last n of its datagrams were looked at.
Before(S, n) == {S.list[j] : j \in 1..Len(S.list) - n}
Behind(S, n) == {S.list[j] : j \in (Len(S.list) - n) + 1..Len(S.list)}
Kept(R)  == {Aged(r) : r \in {r \in R : r.timer # 0}}
Known(R) == {r.id : r \in {r \in R : r.timer = 0 /\ r.p[1].start = 0}}

Ticked(S, T, n) ==
  /\ T \in GoodStates /\ Owned(T) /\ T.count <= S.count
  /\ Len(T.list) <= Len(S.list) /\ Len(S.list) - n <= Len(T.list)
  /\ \A j \in 1..Len(S.list) - n : T.list[j] = S.list[j]
  /\ Members(T.list) = Before(S, n) \union Kept(Behind(S, n))
  /\ T.told = S.told \union Known(Behind(S, n))

\* Before the first turn of ip_reass_tmr nothing has aged.
LEMMA TickedNone ==
  ASSUME NEW S \in GoodStates, Owned(S)
  PROVE  Ticked(S, S, 0)
<1>1. Len(S.list) \in Nat /\ S.count \in Nat
  BY StateHas, ListHas
<1>2. Before(S, 0) = Members(S.list)
  BY <1>1 DEF Before, Members
<1>3. Behind(S, 0) = {}
  BY <1>1 DEF Behind
<1>4. Kept({}) = {} /\ Known({}) = {}
  BY DEF Kept, Known
<1>5. /\ Members(S.list) = Before(S, 0) \union Kept(Behind(S, 0))
      /\ S.told = S.told \union Known(Behind(S, 0))
  BY <1>2, <1>3, <1>4
<1>6. S.count <= S.count /\ Len(S.list) <= Len(S.list)
      /\ Len(S.list) - 0 <= Len(S.list)
  BY <1>1
<1> QED
  BY <1>5, <1>6, Zenon DEF Ticked

\* Each turn ages or ends one more datagram.
LEMMA TickedMore ==
  ASSUME NEW S \in GoodStates, NEW n \in 1..Len(S.list), NEW T,
         Ticked(S, T, n - 1), NEW i, i = Len(S.list) + 1 - n
  PROVE  /\ i \in 1..Len(T.list) /\ T.list[i] = S.list[i]
         /\ Ticked(S, Tick(T, i), n)
<1>1. /\ OpenList(S.list) /\ Len(S.list) \in Nat /\ S.count \in Nat
      /\ T \in GoodStates /\ Len(T.list) \in Nat /\ T.count \in Nat
  BY StateHas, ListHas DEF Ticked
<1>2. /\ i \in 1..Len(S.list) /\ i \in 1..Len(S.list) - (n - 1)
      /\ i - 1 = Len(S.list) - n /\ i \in 1..Len(T.list)
  <2>1. Len(S.list) - (n - 1) <= Len(T.list)
    BY DEF Ticked
  <2> QED
    BY <1>1, <2>1
<1>3. PICK r : r = S.list[i]
  OBVIOUS
<1>4. T.list[i] = r
  BY <1>2, <1>3 DEF Ticked
<1>5. PICK Bn, Bo, An, Ao :
        /\ Bn = Before(S, n) /\ Bo = Before(S, n - 1)
        /\ An = Behind(S, n) /\ Ao = Behind(S, n - 1)
  OBVIOUS
<1>6. /\ \A m \in Bn : m.id # r.id
      /\ \A m \in Ao : m.id # r.id /\ m \in Entries /\ GoodEntry(m)
      /\ Bo = Bn \union {r} /\ An = Ao \union {r}
  <2>1. \A j \in 1..Len(S.list) : /\ S.list[j] \in Entries /\ GoodEntry(S.list[j])
                                  /\ j # i => S.list[j].id # r.id
    BY <1>1, <1>2, <1>3, ListHas DEF OpenList
  <2>2. \A j \in 1..Len(S.list) - n : j \in 1..Len(S.list) /\ j # i
    BY <1>1, <1>2
  <2>3. \A j \in (Len(S.list) - (n - 1)) + 1..Len(S.list) :
          j \in 1..Len(S.list) /\ j # i
    BY <1>1, <1>2
  <2>4. \A j : j \in 1..Len(S.list) - (n - 1) <=> j \in 1..Len(S.list) - n \/ j = i
    BY <1>1, <1>2
  <2>5. \A j : j \in (Len(S.list) - n) + 1..Len(S.list) <=>
          j \in (Len(S.list) - (n - 1)) + 1..Len(S.list) \/ j = i
    BY <1>1, <1>2
  <2>6. Bo = Bn \union {r}
    BY <1>3, <1>5, <2>4 DEF Before
  <2>7. An = Ao \union {r}
    BY <1>3, <1>5, <2>5 DEF Behind
  <2>8. \A m \in Bn : m.id # r.id
    BY <1>5, <2>1, <2>2 DEF Before
  <2>9. \A m \in Ao : m.id # r.id /\ m \in Entries /\ GoodEntry(m)
    BY <1>5, <2>1, <2>3 DEF Behind
  <2> QED
    BY <2>6, <2>7, <2>8, <2>9
<1>7. \A m \in Kept(Ao) : m.id # r.id
  BY <1>6, AgedIs DEF Kept
<1>8. {m \in Members(T.list) : m.id # r.id} = Bn \union Kept(Ao)
  <2>1. Members(T.list) = Bo \union Kept(Ao)
    BY <1>5 DEF Ticked
  <2> QED
    BY <1>6, <1>7, <2>1
<1>9. PICK U : U = Tick(T, i)
  OBVIOUS
<1>10. IF r.timer = 0 THEN Ended(T, i, U) ELSE Lessened(T, i, U)
  BY <1>1, <1>2, <1>4, <1>9, TickIs
<1>11. Owned(T) /\ T.count <= S.count /\ T.told = S.told \union Known(Ao)
       /\ Len(T.list) <= Len(S.list) /\ Len(S.list) - (n - 1) <= Len(T.list)
       /\ \A j \in 1..Len(S.list) - (n - 1) : T.list[j] = S.list[j]
  BY <1>5 DEF Ticked
<1>12. \A j \in 1..i - 1 : T.list[j] = S.list[j]
  BY <1>1, <1>2, <1>11
<1>13. CASE r.timer = 0
  <2>1. Gone(T, U, {r.id}) /\ Len(U.list) = Len(T.list) - 1
        /\ \A j \in 1..i - 1 : U.list[j] = T.list[j]
    BY <1>4, <1>10, <1>13 DEF Ended
  <2>2. U \in GoodStates /\ Members(U.list) = {m \in Members(T.list) : m.id # r.id}
        /\ U.told = T.told \union Told(T, {r.id})
    BY <2>1 DEF Gone
  <2>3. Owned(U) /\ U.count <= T.count /\ U.count \in Nat
    BY <1>1, <1>11, <2>1, GoneOwned
  <2>4. Kept(An) = Kept(Ao)
    BY <1>6, <1>13 DEF Kept
  <2>5. Told(T, {r.id}) = IF r.p[1].start = 0 THEN {r.id} ELSE {}
    <3>1. r \in Members(T.list) /\ OpenList(T.list)
      BY <1>1, <1>2, <1>4, StateHas, MemberIs
    <3>2. \A m \in Members(T.list) : m.id = r.id => m = r
      BY <3>1, MemberIs
    <3>3. Given(T, {r.id}) = {r}
      BY <3>1, <3>2 DEF Given
    <3> QED
      BY <3>3 DEF Told
  <2>6. Known(An) = Known(Ao) \union Told(T, {r.id})
    BY <1>6, <1>13, <2>5 DEF Known
  <2>7. U.count <= S.count
    BY <1>1, <1>11, <2>3
  <2>8. Len(U.list) <= Len(S.list) /\ Len(S.list) - n <= Len(U.list)
    BY <1>1, <1>11, <2>1
  <2>9. \A j \in 1..Len(S.list) - n : U.list[j] = S.list[j]
    BY <1>2, <1>12, <2>1
  <2>10. Members(U.list) = Bn \union Kept(An)
    BY <1>8, <2>2, <2>4
  <2>11. U.told = S.told \union Known(An)
    BY <1>11, <2>2, <2>6
  <2>12. Ticked(S, U, n)
    BY <1>5, <2>2, <2>3, <2>7, <2>8, <2>9, <2>10, <2>11 DEF Ticked
  <2> QED
    BY <1>2, <1>3, <1>4, <1>9, <2>12
<1>14. CASE r.timer # 0
  <2>1. /\ U \in GoodStates
        /\ U.freed = T.freed /\ U.told = T.told /\ U.count = T.count
        /\ Len(U.list) = Len(T.list)
        /\ \A j \in 1..i - 1 : U.list[j] = T.list[j]
        /\ Members(U.list) = {m \in Members(T.list) : m.id # r.id} \union {Aged(r)}
        /\ Queued(U.list) = Queued(T.list)
    BY <1>4, <1>10, <1>14 DEF Lessened
  <2>2. Owned(U)
    BY <1>11, <2>1 DEF Owned
  <2>3. Kept(An) = Kept(Ao) \union {Aged(r)} /\ Known(An) = Known(Ao)
    BY <1>6, <1>14 DEF Kept, Known
  <2>4. Len(U.list) <= Len(S.list) /\ Len(S.list) - n <= Len(U.list)
    BY <1>1, <1>11, <2>1
  <2>5. \A j \in 1..Len(S.list) - n : U.list[j] = S.list[j]
    BY <1>2, <1>12, <2>1
  <2>6. Members(U.list) = Bn \union Kept(An)
    BY <1>8, <2>1, <2>3
  <2>7. Ticked(S, U, n)
    BY <1>5, <1>11, <2>1, <2>2, <2>3, <2>4, <2>5, <2>6 DEF Ticked
  <2> QED
    BY <1>2, <1>3, <1>4, <1>9, <2>7
<1> QED
  BY <1>13, <1>14

\* After the last turn of ip_reass_tmr all of them have.
LEMMA AllTicked ==
  ASSUME NEW S \in GoodStates, Owned(S), NEW L, L = Len(S.list),
         NEW g, g[0] = S,
         \A n \in 1..L : L + 1 - n \in 1..Len(g[n - 1].list)
                           => g[n] = Tick(g[n - 1], L + 1 - n)
  PROVE  \A n \in 0..L : Ticked(S, g[n], n)
<1>1. L \in Nat
  BY StateHas, ListHas
<1> DEFINE B == {n \in 0..L : Ticked(S, g[n], n)}
<1>2. 0 \in B
  BY <1>1, TickedNone
<1>3. ASSUME NEW n \in 1..L, n - 1 \in B
      PROVE  n \in B
  <2>1. PICK T, i : T = g[n - 1] /\ i = L + 1 - n
    OBVIOUS
  <2>2. Ticked(S, T, n - 1) /\ n \in 1..Len(S.list) /\ i = Len(S.list) + 1 - n
    BY <1>3, <2>1
  <2>3. i \in 1..Len(T.list) /\ Ticked(S, Tick(T, i), n)
    BY <2>2, TickedMore
  <2>4. g[n] = Tick(T, i)
    BY <2>1, <2>3
  <2> QED
    BY <2>3, <2>4
<1>4. \A n \in 1..L : n - 1 \in B => n \in B
  BY <1>3
<1>5. \A n \in 0..L : n \in B
  <2> HIDE DEF B
  <2> QED
    BY <1>1, <1>2, <1>4, UpTo
<1> QED
  BY <1>5

\* The timer looks at every datagram, from the last to the first.
LEMMA TmrIs ==
  ASSUME IInv, ip_reass_tmr
  PROVE  \E T : Ticked(State, T, Len(reassdatagrams)) /\ Drop(T, {})
<1> DEFINE L == Len(reassdatagrams)
           At(n) == L + 1 - n
<1>1. PICK S : S = State
  OBVIOUS
<1>2. S \in GoodStates /\ Owned(S) /\ L = Len(S.list) /\ L \in Nat
  <2>1. S \in GoodStates /\ Owned(S) /\ S.list = reassdatagrams
    BY <1>1, StateIs
  <2> QED
    BY <2>1, StateHas, ListHas
<1> HIDE DEF L
<1>3. \E g : g = [n \in 0..L |-> IF n = 0 THEN S ELSE Tick(g[n - 1], At(n))]
  <2> DEFINE Step(T, n) == IF At(n) \in 1..Len(T.list) THEN Tick(T, At(n)) ELSE T
             G == [n \in 1..L |-> [T \in GoodStates |-> Step(T, n)]]
  <2>1. ASSUME NEW n \in 1..L, NEW T \in GoodStates PROVE Step(T, n) \in GoodStates
    <3>1. CASE At(n) \in 1..Len(T.list)
      <4>1. PICK i : i = At(n)
        OBVIOUS
      <4>2. IF T.list[i].timer = 0 THEN Ended(T, i, Tick(T, i))
            ELSE Lessened(T, i, Tick(T, i))
        BY <3>1, <4>1, TickIs
      <4>3. Tick(T, i) \in GoodStates
        BY <4>2 DEF Ended, Lessened, Gone
      <4> QED
        BY <3>1, <4>1, <4>3
    <3>2. CASE At(n) \notin 1..Len(T.list)
      BY <3>2
    <3> QED
      BY <3>1, <3>2
  <2> HIDE DEF Step
  <2>2. G \in [1..L -> [GoodStates -> GoodStates]]
    BY <2>1
  <2>3. \A n \in 1..L, T \in GoodStates : G[n][T] = Step(T, n)
    OBVIOUS
  <2> HIDE DEF G
  <2>4. PICK g : Follows(g, GoodStates, S, L, G)
    BY <1>2, <2>2, Defined
  <2>5. /\ g \in [0..L -> GoodStates]
        /\ g = [n \in 0..L |-> IF n = 0 THEN S ELSE G[n][g[n - 1]]]
    BY <2>4 DEF Follows
  <2>6. \A n \in 0..L : n # 0 => n \in 1..L /\ n - 1 \in 0..L
    BY <1>2
  <2>7. g[0] = S /\ \A n \in 1..L : g[n] = Step(g[n - 1], n)
    <3>1. 0 \in 0..L /\ \A n \in 1..L : n \in 0..L /\ n # 0 /\ n - 1 \in 0..L
      BY <1>2
    <3>2. g[0] = S /\ \A n \in 1..L : g[n] = G[n][g[n - 1]]
      BY <2>5, <3>1
    <3> QED
      BY <2>3, <2>5, <3>1, <3>2
  <2>8. \A n \in 1..L : At(n) \in 1..Len(g[n - 1].list)
                          => g[n] = Tick(g[n - 1], At(n))
    BY <2>7 DEF Step
  <2>9. \A n \in 0..L : Ticked(S, g[n], n)
    BY <1>2, <2>7, <2>8, AllTicked
  <2>10. ASSUME NEW n \in 1..L PROVE g[n] = Tick(g[n - 1], At(n))
    <3>1. PICK T, i : T = g[n - 1] /\ i = At(n)
      OBVIOUS
    <3>2. n - 1 \in 0..L
      BY <1>2
    <3>3. Ticked(S, T, n - 1) /\ n \in 1..Len(S.list) /\ i = Len(S.list) + 1 - n
      BY <1>2, <2>9, <3>1, <3>2
    <3>4. i \in 1..Len(T.list)
      BY <1>2, <3>3, TickedMore
    <3> QED
      BY <2>8, <3>1, <3>4
  <2>11. \A n \in 0..L : g[n] = IF n = 0 THEN S ELSE Tick(g[n - 1], At(n))
    BY <2>6, <2>7, <2>10
  <2>12. g = [n \in 0..L |-> IF n = 0 THEN S ELSE Tick(g[n - 1], At(n))]
    <3>1. g = [n \in 0..L |-> g[n]]
      BY <2>5
    <3> HIDE DEF At
    <3> QED
      BY <2>11, <3>1
  <2> QED
    BY <2>12
<1> DEFINE after == CHOOSE g : g = [n \in 0..L |-> IF n = 0 THEN S
                                                   ELSE Tick(g[n - 1], At(n))]
<1>4. after = [n \in 0..L |-> IF n = 0 THEN S ELSE Tick(after[n - 1], At(n))]
  BY <1>3
<1>5. Drop(after[L], {})
  BY <1>1 DEF ip_reass_tmr, L
<1> HIDE DEF after
<1>6. PICK g : g = after
  OBVIOUS
<1>7. g[0] = S /\ \A n \in 1..L : g[n] = Tick(g[n - 1], L + 1 - n)
  BY <1>2, <1>4, <1>6
<1>8. \A n \in 0..L : Ticked(S, g[n], n)
  BY <1>2, <1>7, AllTicked
<1>9. Ticked(S, g[L], L)
  BY <1>2, <1>8
<1> QED
  BY <1>1, <1>5, <1>6, <1>9 DEF L

-----------------------------------------------------------------------------
(* The invariant.                                                          *)

\* The invariant holds initially.
LEMMA InitInvariant == Init => IInv
<1> SUFFICES ASSUME Init PROVE IInv
  OBVIOUS
<1>1. PICK list : list = <<>>
  OBVIOUS
<1>2. list \in Seq(Entries) /\ Len(list) = 0
  BY <1>1
<1>3. Members(list) = {} /\ Queued(list) = {}
  BY <1>2 DEF Members, Queued
<1>4. GoodList(list)
  BY <1>2 DEF GoodList, OpenList
<1>5. IsFiniteSet({}) /\ Clen({}) = 0
  BY ClenType, FS_EmptySet
<1>6. reassdatagrams = list /\ busy = {} /\ ip_reass_pbufcount = 0
  BY <1>1 DEF Init
<1> QED
  BY <1>2, <1>3, <1>4, <1>5, <1>6, ReassAssumption DEF IInv

\* A fragment that arrives is one ip4_reass is given in pbufs of its own.
LEMMA ArriveIs ==
  ASSUME Arrive
  PROVE  \E f : Piece(f) /\ \E p \in FragPbufs \ busy : ip4_reass(f, p)
<1>1. PICK f \in Fragments, S \in {FragPbufs \ Chained, Chained} :
        /\ S \ busy # {}
        /\ ip4_reass(f, CHOOSE p \in S \ busy : \A q \in S \ busy : p <= q)
  BY DEF Arrive
<1>2. PICK free : free = S \ busy
  OBVIOUS
<1>3. free # {} /\ free \subseteq Nat /\ free \subseteq FragPbufs
  BY <1>1, <1>2, ReassAssumption
<1>4. PICK p : p = CHOOSE m \in free : \A q \in free : m <= q
  OBVIOUS
<1>5. p \in free
  <2>1. \E x \in free : \A y \in free : x <= y
    BY <1>3, LeastOf
  <2> QED
    BY <1>4, <2>1
<1>6. ip4_reass(f, p)
  BY <1>1, <1>2, <1>4
<1>7. p \in FragPbufs \ busy
  BY <1>2, <1>3, <1>5
<1>8. Piece(f)
  BY FragmentsAre
<1> QED
  BY <1>6, <1>7, <1>8

\* ip_reass_tmr keeps the invariant and only frees.
LEMMA TmrKeeps ==
  ASSUME IInv, ip_reass_tmr
  PROVE  IInv' /\ busy' \subseteq busy /\ out' = {}
<1>1. PICK T : Ticked(State, T, Len(reassdatagrams)) /\ Drop(T, {})
  BY TmrIs
<1>2. PICK S : S = State
  OBVIOUS
<1>3. /\ S \in GoodStates /\ Room(S) /\ S.count <= IP_REASS_MAX_PBUFS
  BY <1>2, StateIs
<1>4. /\ T \in GoodStates /\ Owned(T) /\ T.count <= S.count
      /\ Len(T.list) <= Len(S.list)
  BY <1>1, <1>2 DEF Ticked
<1>5. Room(T) /\ T.count <= IP_REASS_MAX_PBUFS
  <2>1. /\ Len(S.list) \in Nat /\ Len(T.list) \in Nat /\ S.count \in Nat
        /\ T.count \in Nat
    BY <1>3, <1>4, StateHas, ListHas
  <2> QED
    BY <1>3, <1>4, <2>1, ReassAssumption DEF Room
<1>6. PICK fs : fs = {} /\ Drop(T, fs)
  BY <1>1
<1>7. IInv'
  BY <1>4, <1>5, <1>6, DropKeeps
<1> QED
  BY <1>6, <1>7 DEF Drop

\* Every step keeps the invariant.
LEMMA NextInvariant == IInv /\ [Next]_vars => IInv'
<1> SUFFICES ASSUME IInv, [Next]_vars PROVE IInv'
  OBVIOUS
<1>1. CASE Arrive
  BY <1>1, ArriveIs, ReassKeeps
<1>2. CASE ip_reass_tmr
  BY <1>2, TmrKeeps
<1>3. CASE UNCHANGED vars
  <2>1. /\ reassdatagrams' = reassdatagrams /\ busy' = busy
        /\ ip_reass_pbufcount' = ip_reass_pbufcount
    BY <1>3 DEF vars
  <2> QED
    BY <2>1 DEF IInv
<1> QED
  BY <1>1, <1>2, <1>3 DEF Next

\* Whatever arrives in whatever order, and whatever is given up, the list is
\* in order: every datagram has one entry with its own fragments, sorted and
\* apart, and its length once the last is there (ip4_frag.c:345-694).
THEOREM Invariance == Spec => []IInv
<1>1. Init => IInv
  BY InitInvariant
<1>2. IInv /\ [Next]_vars => IInv'
  BY NextInvariant
<1> QED
  BY <1>1, <1>2, PTL DEF Spec

\* The invariant holds the count of pbufs to its limit.
LEMMA InvariantPbufs == IInv => PbufsHeld
<1> SUFFICES ASSUME IInv PROVE PbufsHeld
  OBVIOUS
<1>1. PICK list : list = reassdatagrams
  OBVIOUS
<1>2. GoodList(list) /\ OpenList(list) /\ busy = Queued(list)
  BY <1>1 DEF IInv, GoodList
<1>3. /\ DOMAIN list = 1..Len(list)
      /\ \A i \in 1..Len(list) : list[i] \in Entries /\ GoodEntry(list[i])
  BY <1>2, ListHas
<1>4. Queued(list) = UNION Queues
  BY <1>1, <1>3 DEF Queued, Members, Queues
<1>5. ASSUME NEW i \in DOMAIN list, NEW j \in DOMAIN list,
             NEW k \in DOMAIN list[i].p, NEW l \in DOMAIN list[j].p,
             list[i].p[k].pbuf = list[j].p[l].pbuf
      PROVE  i = j /\ k = l
  <2>1. PICK r, s : r = list[i] /\ s = list[j]
    OBVIOUS
  <2>2. r \in Entries /\ s \in Entries /\ GoodEntry(r)
    BY <1>3, <2>1
  <2>3. k \in 1..Len(r.p) /\ l \in 1..Len(s.p)
    BY <2>1, <2>2, EntryHas
  <2>4. r.p[k].pbuf \in PbufsOf(r) /\ s.p[l].pbuf \in PbufsOf(s)
    BY <2>2, <2>3, EntryHas
  <2>5. i = j
    <3>1. i # j => PbufsOf(list[i]) \cap PbufsOf(list[j]) = {}
      BY <1>2, <1>3 DEF OpenList
    <3> QED
      BY <1>5, <2>1, <2>4, <3>1
  <2>6. k = l
    BY <1>5, <2>1, <2>2, <2>3, <2>5 DEF GoodEntry, GoodParts
  <2> QED
    BY <2>5, <2>6
<1> QED
  BY <1>1, <1>2, <1>4, <1>5 DEF PbufsHeld, IInv

\* Every pbuf that arrives is freed, handed on or queued in one place, and the
\* count that limits them is true and within the limit, whatever fragments
\* come and whatever is given up for them (ip4_frag.c:189-216, 537-552, 609,
\* 670).
THEOREM PbufsAccounted == Spec => []PbufsHeld
  BY Invariance, InvariantPbufs, PTL

-----------------------------------------------------------------------------
(* What the collector of module Collector sees of the list.                *)

Seen(r) == [bytes |-> ByteSet(r.p), age |-> IP_REASS_MAXAGE - r.timer]
View(M) == [id \in {r.id : r \in M} |-> Seen(CHOOSE r \in M : r.id = id)]
Unique(M) == \A r, s \in M : r.id = s.id => r = s
Names(M) == {r.id : r \in M}

\* What the collector sees of datagrams with different names.
LEMMA ViewHas ==
  ASSUME NEW M, Unique(M)
  PROVE  /\ DOMAIN View(M) = Names(M)
         /\ \A r \in M : View(M)[r.id] = Seen(r)
         /\ View(M) = [id \in Names(M) |-> View(M)[id]]
<1>1. DOMAIN View(M) = Names(M)
  BY DEF View, Names
<1>2. ASSUME NEW r \in M PROVE View(M)[r.id] = Seen(r)
  <2>1. (CHOOSE s \in M : s.id = r.id) = r
    <3>1. \E s \in M : s.id = r.id
      OBVIOUS
    <3> QED
      BY <3>1 DEF Unique
  <2> QED
    BY <2>1 DEF View
<1>3. View(M) = [id \in Names(M) |-> View(M)[id]]
  BY DEF View, Names
<1> QED
  BY <1>1, <1>2, <1>3

\* Whatever shows each datagram as the collector sees it is that view.
LEMMA ViewIs ==
  ASSUME NEW M, Unique(M), NEW g, g = [id \in Names(M) |-> g[id]],
         \A r \in M : g[r.id] = Seen(r)
  PROVE  g = View(M)
<1>1. ASSUME NEW id \in Names(M) PROVE g[id] = View(M)[id]
  <2>1. PICK r \in M : r.id = id
    BY DEF Names
  <2>2. g[r.id] = Seen(r) /\ View(M)[r.id] = Seen(r)
    BY ViewHas
  <2> QED
    BY <2>1, <2>2
<1> QED
  BY <1>1, ViewHas

\* The list as a function of names.
OpenOf(list) ==
  [id \in {list[i].id : i \in DOMAIN list} |->
     LET r == list[CHOOSE i \in DOMAIN list : list[i].id = id]
     IN  [bytes |-> ByteSet(r.p), age |-> IP_REASS_MAXAGE - r.timer]]

\* The collector's open datagrams are those of the list.
LEMMA OpenIs ==
  ASSUME NEW list, OpenList(list)
  PROVE  OpenOf(list) = View(Members(list)) /\ Unique(Members(list))
<1>1. /\ DOMAIN list = 1..Len(list)
      /\ \A i \in 1..Len(list) : list[i] \in Members(list)
      /\ Unique(Members(list))
  BY ListHas, MemberIs DEF Unique
<1>2. {list[i].id : i \in DOMAIN list} = Names(Members(list))
  BY <1>1 DEF Names, Members
<1>3. ASSUME NEW id \in Names(Members(list))
      PROVE  OpenOf(list)[id] = View(Members(list))[id]
  <2>1. PICK i : i = CHOOSE j \in DOMAIN list : list[j].id = id
    OBVIOUS
  <2>2. i \in DOMAIN list /\ list[i].id = id
    BY <1>2, <2>1
  <2>3. OpenOf(list)[id] = Seen(list[i])
    BY <1>2, <2>1 DEF OpenOf, Seen
  <2>4. View(Members(list))[id] = Seen(list[i])
    BY <1>1, <2>2, ViewHas
  <2> QED
    BY <2>3, <2>4
<1>4. OpenOf(list) = [id \in Names(Members(list)) |-> OpenOf(list)[id]]
  BY <1>2 DEF OpenOf
<1> QED
  BY <1>1, <1>3, <1>4, ViewHas

-----------------------------------------------------------------------------
(* The bytes of a datagram.                                                *)

Span(id, a, b) == {id} \X (a..b - 1)

\* The bytes of good fragments, by position.
LEMMA BytesAre ==
  ASSUME NEW p \in Seq(Parts), NEW id, GoodParts(p, id)
  PROVE  /\ ByteSet(p) = UNION {Span(id, p[k].start, p[k].end) : k \in 1..Len(p)}
         /\ \A b : <<id, b>> \in ByteSet(p) <=>
              b \in Nat /\ \E k \in 1..Len(p) : p[k].start <= b /\ b < p[k].end
         /\ ByteSet(p) \subseteq Span(id, 0, DataLen)
<1>1. Len(p) \in Nat /\ DOMAIN p = 1..Len(p)
  BY LenProperties
<1>2. \A k \in 1..Len(p) :
        /\ p[k].of = id /\ p[k].start \in Nat /\ p[k].end \in Nat
        /\ p[k].start < p[k].end /\ p[k].end <= DataLen
  <2>1. \A k \in 1..Len(p) : p[k] \in Parts
    BY ElementOfSeq
  <2> QED
    BY <2>1 DEF Parts, GoodParts
<1>3. ByteSet(p) = UNION {Span(id, p[k].start, p[k].end) : k \in 1..Len(p)}
  BY <1>1, <1>2 DEF ByteSet, Span
<1>4. \A b : \A k \in 1..Len(p) :
        <<id, b>> \in Span(id, p[k].start, p[k].end) <=>
          b \in Nat /\ p[k].start <= b /\ b < p[k].end
  BY <1>2 DEF Span
<1>5. \A k \in 1..Len(p) : Span(id, p[k].start, p[k].end) \subseteq Span(id, 0, DataLen)
  BY <1>2, ReassAssumption DEF Span
<1>6. \A b : <<id, b>> \in ByteSet(p) <=>
        b \in Nat /\ \E k \in 1..Len(p) : p[k].start <= b /\ b < p[k].end
  BY <1>3, <1>4
<1>7. ByteSet(p) \subseteq Span(id, 0, DataLen)
  BY <1>3, <1>5
<1> QED
  BY <1>3, <1>6, <1>7

\* The first byte is there if the fragment in front is the first.
LEMMA FirstByte ==
  ASSUME NEW r \in Entries, GoodEntry(r), r.p # <<>>
  PROVE  /\ 1 \in 1..Len(r.p)
         /\ r.p[1].start = 0 <=> <<r.id, 0>> \in ByteSet(r.p)
         /\ \A k \in 1..Len(r.p) : r.p[k].start = 0 => k = 1
<1>1. /\ r.p \in Seq(Parts) /\ Len(r.p) \in Nat /\ GoodParts(r.p, r.id)
      /\ \A k \in 1..Len(r.p) : r.p[k].start \in Nat /\ r.p[k].end \in Nat
  BY EntryHas DEF GoodEntry
<1>2. 1 \in 1..Len(r.p)
  BY <1>1, EmptySeq
<1>3. \A b : <<r.id, b>> \in ByteSet(r.p) <=>
        b \in Nat /\ \E k \in 1..Len(r.p) : r.p[k].start <= b /\ b < r.p[k].end
  <2>1. PICK p, id : p = r.p /\ id = r.id
    OBVIOUS
  <2>2. \A b : <<id, b>> \in ByteSet(p) <=>
          b \in Nat /\ \E k \in 1..Len(p) : p[k].start <= b /\ b < p[k].end
    BY <1>1, <2>1, BytesAre
  <2> QED
    BY <2>1, <2>2
<1>4. \A k \in 1..Len(r.p) : r.p[k].start < r.p[k].end
  BY <1>1 DEF GoodParts
<1>5. ASSUME NEW k \in 1..Len(r.p), r.p[k].start = 0 PROVE k = 1
  <2>1. 1 < k => r.p[1].end <= r.p[k].start
    BY <1>1, <1>2 DEF GoodParts
  <2> QED
    BY <1>1, <1>2, <1>4, <1>5, <2>1
<1>6. <<r.id, 0>> \in ByteSet(r.p) <=> \E k \in 1..Len(r.p) : r.p[k].start = 0
  <2>1. \A k \in 1..Len(r.p) : r.p[k].start <= 0 /\ 0 < r.p[k].end <=>
                                 r.p[k].start = 0
    BY <1>1, <1>4
  <2> QED
    BY <1>3, <2>1
<1> QED
  BY <1>2, <1>5, <1>6

\* What the check of the chain finds out is that every byte is there.
LEMMA FinishedIs ==
  ASSUME NEW r \in Entries, GoodEntry(r), r.p # <<>>
  PROVE  Finished(r) <=> ByteSet(r.p) = Span(r.id, 0, DataLen)
<1>1. /\ r.p \in Seq(Parts) /\ Len(r.p) \in Nat /\ GoodParts(r.p, r.id)
      /\ \A k \in 1..Len(r.p) : r.p[k].start \in Nat /\ r.p[k].end \in Nat
      /\ DataLen \in Nat /\ DataLen > 0
  BY EntryHas, ReassAssumption DEF GoodEntry
<1>2. PICK p, id, L : p = r.p /\ id = r.id /\ L = Len(r.p)
  OBVIOUS
<1>3. /\ L \in Nat /\ 1 \in 1..L /\ L \in 1..L
      /\ \A k \in 1..L : p[k].start \in Nat /\ p[k].end \in Nat
                         /\ p[k].start < p[k].end /\ p[k].end <= DataLen
      /\ \A k, l \in 1..L : k < l => p[k].end <= p[l].start
      /\ p[1].start = 0 <=> <<id, 0>> \in ByteSet(p)
  <2>1. 1 \in 1..L /\ (p[1].start = 0 <=> <<id, 0>> \in ByteSet(p))
    BY <1>2, FirstByte
  <2>2. /\ \A k \in 1..L : p[k].start < p[k].end /\ p[k].end <= DataLen
        /\ \A k, l \in 1..L : k < l => p[k].end <= p[l].start
    BY <1>1, <1>2 DEF GoodParts
  <2>3. L \in Nat /\ L \in 1..L
    BY <1>1, <1>2, <2>1
  <2> QED
    BY <1>1, <1>2, <2>1, <2>2, <2>3
<1>4. /\ \A b : <<id, b>> \in ByteSet(p) <=>
           b \in Nat /\ \E k \in 1..L : p[k].start <= b /\ b < p[k].end
      /\ ByteSet(p) \subseteq Span(id, 0, DataLen)
  <2>1. p \in Seq(Parts) /\ GoodParts(p, id) /\ L = Len(p)
    BY <1>1, <1>2
  <2>2. /\ \A b : <<id, b>> \in ByteSet(p) <=>
             b \in Nat /\ \E k \in 1..Len(p) : p[k].start <= b /\ b < p[k].end
        /\ ByteSet(p) \subseteq Span(id, 0, DataLen)
    BY <2>1, BytesAre
  <2> QED
    BY <2>1, <2>2
<1>5. r.datagram_len > 0 <=> \E k \in 1..L : p[k].end = DataLen
  BY <1>1, <1>2 DEF GoodEntry
<1>6. ASSUME Finished(r) PROVE ByteSet(p) = Span(id, 0, DataLen)
  <2>1. /\ p[1].start = 0 /\ \E k \in 1..L : p[k].end = DataLen
        /\ \A k \in 1..L - 1 : p[k].end = p[k + 1].start
    BY <1>2, <1>5, <1>6 DEF Finished
  <2>2. ASSUME NEW b \in 0..DataLen - 1 PROVE <<id, b>> \in ByteSet(p)
    <3> DEFINE D == {k \in 1..L : b < p[k].end}
    <3>1. D \subseteq Nat /\ D # {}
      <4>1. PICK k \in 1..L : p[k].end = DataLen
        BY <2>1
      <4>2. k \in D
        BY <1>1, <4>1
      <4> QED
        BY <1>3, <4>2
    <3> HIDE DEF D
    <3>2. PICK k \in D : \A l \in D : k <= l
      BY <3>1, LeastOf
    <3> USE DEF D
    <3>3. k \in 1..L /\ b < p[k].end
      OBVIOUS
    <3>4. p[k].start <= b
      <4>1. CASE k = 1
        BY <2>1, <4>1
      <4>2. CASE k # 1
        <5>1. k - 1 \in 1..L - 1 /\ k - 1 \in 1..L /\ (k - 1) + 1 = k
          BY <1>3, <3>3, <4>2
        <5>2. k - 1 \notin D
          BY <1>3, <3>2, <3>3, <5>1
        <5>3. ~(b < p[k - 1].end) /\ p[k - 1].end = p[k].start
          BY <2>1, <5>1, <5>2
        <5> QED
          BY <1>3, <3>3, <5>1, <5>3
      <4> QED
        BY <4>1, <4>2
    <3> QED
      BY <1>4, <3>3, <3>4
  <2> QED
    BY <1>4, <2>2 DEF Span
<1>7. ASSUME ByteSet(p) = Span(id, 0, DataLen) PROVE Finished(r)
  <2>1. \A b \in 0..DataLen - 1 : \E k \in 1..L : p[k].start <= b /\ b < p[k].end
    <3>1. \A b \in 0..DataLen - 1 : <<id, b>> \in ByteSet(p)
      BY <1>7 DEF Span
    <3> QED
      BY <1>4, <3>1
  <2>2. 0 \in 0..DataLen - 1 /\ DataLen - 1 \in 0..DataLen - 1
    BY <1>1
  <2>3. p[1].start = 0
    BY <1>3, <1>7, <2>2 DEF Span
  <2>4. \E k \in 1..L : p[k].end = DataLen
    <3>1. PICK k \in 1..L : DataLen - 1 < p[k].end
      BY <2>1, <2>2
    <3>2. p[k].end = DataLen
      BY <1>1, <1>3, <3>1
    <3> QED
      BY <3>2
  <2>5. ASSUME NEW k \in 1..L - 1 PROVE p[k].end = p[k + 1].start
    <3>1. k \in 1..L /\ k + 1 \in 1..L /\ k < k + 1
      BY <1>3
    <3>2. p[k].end <= p[k + 1].start
      BY <1>3, <3>1
    <3> SUFFICES ASSUME p[k].end < p[k + 1].start PROVE FALSE
      BY <1>3, <3>1, <3>2
    <3>3. p[k].end \in 0..DataLen - 1
      <4>1. p[k + 1].start < p[k + 1].end /\ p[k + 1].end <= DataLen
        BY <1>3, <3>1
      <4>2. /\ p[k].end \in Nat /\ p[k + 1].start \in Nat
            /\ p[k + 1].end \in Nat /\ p[k].end < p[k + 1].start
        BY <1>3, <3>1
      <4> QED
        BY <1>1, <4>1, <4>2
    <3>4. PICK j \in 1..L : p[j].start <= p[k].end /\ p[k].end < p[j].end
      BY <2>1, <3>3
    <3>5. CASE j <= k
      <4>1. j = k \/ p[j].end <= p[k].start
        BY <1>3, <3>1, <3>5
      <4> QED
        BY <1>3, <3>1, <3>4, <4>1
    <3>6. CASE j > k
      <4>1. j = k + 1 \/ p[k + 1].end <= p[j].start
        BY <1>3, <3>1, <3>6
      <4> QED
        BY <1>3, <3>1, <3>4, <4>1
    <3> QED
      BY <1>3, <3>1, <3>5, <3>6
  <2> QED
    BY <1>2, <1>5, <2>3, <2>4, <2>5 DEF Finished
<1> QED
  BY <1>2, <1>6, <1>7

\* A taken fragment brings its bytes; one that overlaps has some that are
\* there.
LEMMA BytesJoin ==
  ASSUME NEW s \in Entries, GoodEntry(s), NEW r \in Entries, GoodEntry(r),
         r.id = s.id, NEW e \in Parts, e.start < e.end, NEW k \in 1..Len(s.p) + 1,
         PutAt(s.p, e, r.p, k)
  PROVE  ByteSet(r.p) = ByteSet(s.p) \union Span(s.id, e.start, e.end)
<1>1. PICK p, q, id : p = s.p /\ q = r.p /\ id = s.id
  OBVIOUS
<1>2. /\ p \in Seq(Parts) /\ GoodParts(p, id) /\ q \in Seq(Parts)
      /\ GoodParts(q, id) /\ Len(p) \in Nat
  BY <1>1, EntryHas DEF GoodEntry
<1>3. /\ ByteSet(p) = UNION {Span(id, p[j].start, p[j].end) : j \in 1..Len(p)}
      /\ ByteSet(q) = UNION {Span(id, q[j].start, q[j].end) : j \in 1..Len(q)}
  BY <1>2, BytesAre
<1>4. k \in 1..Len(p) + 1 /\ PutAt(p, e, q, k)
  BY <1>1
<1>5. /\ \A j \in 1..Len(q) :
           \/ j = k /\ q[j] = e
           \/ j < k /\ j \in 1..Len(p) /\ q[j] = p[j]
           \/ j > k /\ j - 1 \in 1..Len(p) /\ q[j] = p[j - 1]
      /\ \A i \in 1..Len(p) : \E j \in 1..Len(q) : q[j] = p[i]
      /\ k \in 1..Len(q) /\ q[k] = e /\ Len(q) = Len(p) + 1
  BY <1>2, <1>4, PutHas
<1>6. \A j \in 1..Len(q) : q[j] = e \/ \E i \in 1..Len(p) : q[j] = p[i]
  BY <1>5
<1>7. ByteSet(q) = ByteSet(p) \union Span(id, e.start, e.end)
  <2>1. ASSUME NEW x, NEW j \in 1..Len(q), x \in Span(id, q[j].start, q[j].end)
        PROVE  x \in ByteSet(p) \union Span(id, e.start, e.end)
    <3>1. CASE q[j] = e
      BY <2>1, <3>1
    <3>2. CASE q[j] # e
      <4>1. PICK i \in 1..Len(p) : q[j] = p[i]
        BY <1>6, <3>2
      <4> QED
        BY <1>3, <2>1, <4>1
    <3> QED
      BY <3>1, <3>2
  <2>2. ASSUME NEW x, NEW i \in 1..Len(p), x \in Span(id, p[i].start, p[i].end)
        PROVE  x \in ByteSet(q)
    <3>1. PICK j \in 1..Len(q) : q[j] = p[i]
      BY <1>5
    <3> QED
      BY <1>3, <2>2, <3>1
  <2>3. Span(id, e.start, e.end) \subseteq ByteSet(q)
    BY <1>3, <1>5
  <2> QED
    BY <1>3, <2>1, <2>2, <2>3
<1> QED
  BY <1>1, <1>7

\* Fragments overlap where they hold a byte in common.
LEMMA BytesMeet ==
  ASSUME NEW s \in Entries, GoodEntry(s), NEW e \in Parts, e.start < e.end
  PROVE  Overlaps(s.p, e) <=> ByteSet(s.p) \cap Span(s.id, e.start, e.end) # {}
<1>1. PICK p, id : p = s.p /\ id = s.id
  OBVIOUS
<1>2. /\ p \in Seq(Parts) /\ GoodParts(p, id) /\ Len(p) \in Nat
      /\ \A j \in 1..Len(p) : p[j].start \in Nat /\ p[j].end \in Nat
      /\ e.start \in Nat /\ e.end \in Nat
  BY <1>1, EntryHas DEF GoodEntry, Parts
<1>3. ~Overlaps(p, e) <=>
        \A k \in 1..Len(p) : p[k].end <= e.start \/ e.end <= p[k].start
  BY <1>2, ApartIs
<1>4. /\ \A b : <<id, b>> \in ByteSet(p) <=>
           b \in Nat /\ \E k \in 1..Len(p) : p[k].start <= b /\ b < p[k].end
  BY <1>2, BytesAre
<1>5. ASSUME NEW k \in 1..Len(p), p[k].end > e.start, e.end > p[k].start
      PROVE  ByteSet(p) \cap Span(id, e.start, e.end) # {}
  <2>1. p[k].start < p[k].end
    BY <1>2 DEF GoodParts
  <2>2. PICK b \in Nat : /\ p[k].start <= b /\ b < p[k].end
                         /\ e.start <= b /\ b < e.end
    <3>1. CASE p[k].start <= e.start
      BY <1>2, <1>5, <3>1
    <3>2. CASE e.start < p[k].start
      BY <1>2, <1>5, <2>1, <3>2
    <3> QED
      BY <1>2, <3>1, <3>2
  <2>3. <<id, b>> \in ByteSet(p)
    BY <1>4, <2>2
  <2>4. <<id, b>> \in Span(id, e.start, e.end)
    BY <1>2, <2>2 DEF Span
  <2> QED
    BY <2>3, <2>4
<1>6. ASSUME NEW x \in ByteSet(p), x \in Span(id, e.start, e.end)
      PROVE  \E k \in 1..Len(p) : p[k].end > e.start /\ e.end > p[k].start
  <2>1. PICK b \in e.start..e.end - 1 : x = <<id, b>>
    BY <1>6 DEF Span
  <2>2. PICK k \in 1..Len(p) : p[k].start <= b /\ b < p[k].end
    BY <1>4, <2>1
  <2> QED
    BY <1>2, <2>1, <2>2
<1>7. \A k \in 1..Len(p) : /\ p[k].end > e.start <=> ~(p[k].end <= e.start)
                           /\ e.end > p[k].start <=> ~(e.end <= p[k].start)
  BY <1>2
<1> QED
  BY <1>1, <1>3, <1>5, <1>6, <1>7

-----------------------------------------------------------------------------
(* What is delivered.                                                      *)

Run(id, a, m) == [n \in 1..m |-> <<id, a + n - 1>>]

\* A run of a datagram's bytes.
LEMMA RunIs ==
  ASSUME NEW id, NEW a \in Nat, NEW m \in Nat
  PROVE  /\ Run(id, a, m) \in Seq({id} \X Nat) /\ Len(Run(id, a, m)) = m
         /\ \A n \in 1..m : Run(id, a, m)[n] = <<id, a + n - 1>>
<1>1. \A n \in 1..m : Run(id, a, m)[n] = <<id, a + n - 1>>
  BY DEF Run
<1>2. \A n \in 1..m : <<id, a + n - 1>> \in {id} \X Nat
  OBVIOUS
<1>3. Run(id, a, m) \in [1..m -> {id} \X Nat]
  BY <1>2 DEF Run
<1>4. Run(id, a, m) \in Seq({id} \X Nat)
  BY <1>3, SeqDef
<1>5. Len(Run(id, a, m)) = m
  BY <1>3, <1>4, LenProperties
<1> QED
  BY <1>1, <1>4, <1>5

\* Two runs that meet make one.
LEMMA RunOn ==
  ASSUME NEW id, NEW a \in Nat, NEW m \in Nat
  PROVE  Run(id, 0, a) \o Run(id, a, m) = Run(id, 0, a + m)
<1> DEFINE X == {id} \X Nat
<1>1. PICK s, t, u : /\ s = Run(id, 0, a) /\ t = Run(id, a, m)
                     /\ u = Run(id, 0, a + m)
  OBVIOUS
<1>2. /\ s \in Seq(X) /\ Len(s) = a /\ \A n \in 1..a : s[n] = <<id, n - 1>>
      /\ t \in Seq(X) /\ Len(t) = m /\ \A n \in 1..m : t[n] = <<id, a + n - 1>>
      /\ u \in Seq(X) /\ Len(u) = a + m
      /\ \A n \in 1..a + m : u[n] = <<id, n - 1>>
  <2>1. 0 \in Nat /\ a + m \in Nat /\ \A n \in Nat : 0 + n - 1 = n - 1
    OBVIOUS
  <2>2. /\ s \in Seq(X) /\ Len(s) = a /\ \A n \in 1..a : s[n] = <<id, 0 + n - 1>>
    BY <1>1, <2>1, RunIs
  <2>3. /\ t \in Seq(X) /\ Len(t) = m /\ \A n \in 1..m : t[n] = <<id, a + n - 1>>
    BY <1>1, <2>1, RunIs
  <2>4. /\ u \in Seq(X) /\ Len(u) = a + m
        /\ \A n \in 1..a + m : u[n] = <<id, 0 + n - 1>>
    <3>1. PICK z, l : z = 0 /\ l = a + m
      OBVIOUS
    <3>2. /\ Run(id, z, l) \in Seq(X) /\ Len(Run(id, z, l)) = l
          /\ \A n \in 1..l : Run(id, z, l)[n] = <<id, z + n - 1>>
      BY <2>1, <3>1, RunIs
    <3> QED
      BY <1>1, <3>1, <3>2
  <2> QED
    BY <2>1, <2>2, <2>3, <2>4
<1> HIDE DEF X
<1>3. PICK v : v = s \o t
  OBVIOUS
<1>4. /\ v \in Seq(X) /\ Len(v) = a + m
      /\ \A n \in 1..a + m : v[n] = IF n <= a THEN s[n] ELSE t[n - a]
  BY <1>2, <1>3, ConcatProperties
<1>5. ASSUME NEW n \in 1..a + m PROVE v[n] = u[n]
  <2>1. CASE n <= a
    <3>1. n \in 1..a
      BY <2>1
    <3>2. s[n] = <<id, n - 1>> /\ u[n] = <<id, n - 1>>
      BY <1>2, <3>1
    <3> QED
      BY <1>4, <2>1, <3>2
  <2>2. CASE ~(n <= a)
    <3>1. n - a \in 1..m /\ a + (n - a) - 1 = n - 1
      BY <2>2
    <3>2. t[n - a] = <<id, a + (n - a) - 1>>
      BY <1>2, <3>1
    <3> QED
      BY <1>2, <1>4, <2>2, <3>1, <3>2
  <2> QED
    BY <2>1, <2>2
<1>6. v = u
  <2>1. Len(v) = Len(u) /\ \A n \in 1..Len(v) : v[n] = u[n]
    BY <1>2, <1>4, <1>5
  <2> QED
    BY <1>2, <1>4, <2>1, SeqEqual
<1> QED
  BY <1>1, <1>3, <1>6

\* A finished datagram holds each of its bytes, in order.
LEMMA DeliveryIs ==
  ASSUME NEW r \in Entries, GoodEntry(r), r.p # <<>>, Finished(r)
  PROVE  /\ r.datagram_len = DataLen /\ r.hdr = 0
         /\ BytesOf(r.p) = [k \in 1..DataLen |-> <<r.id, k - 1>>]
<1>1. PICK p, id, L : p = r.p /\ id = r.id /\ L = Len(r.p)
  OBVIOUS
<1>2. /\ p \in Seq(Parts) /\ L \in Nat /\ DataLen \in Nat /\ DataLen > 0
      /\ \A k \in 1..L : p[k].of = id /\ p[k].start \in Nat /\ p[k].end \in Nat
                         /\ p[k].start < p[k].end
      /\ \A k, l \in 1..L : k < l => p[k].end <= p[l].start
      /\ \A k \in 1..L : p[k].end <= DataLen
  <2>1. GoodParts(p, id)
    BY <1>1 DEF GoodEntry
  <2>2. /\ p \in Seq(Parts) /\ L \in Nat
        /\ \A k \in 1..L : p[k].start \in Nat /\ p[k].end \in Nat
    BY <1>1, EntryHas
  <2> QED
    BY <1>1, <2>1, <2>2, ReassAssumption DEF GoodParts
<1>3. /\ p[1].start = 0 /\ 1 \in 1..L
      /\ \A k \in 1..L - 1 : p[k].end = p[k + 1].start
      /\ \E k \in 1..L : p[k].end = DataLen
      /\ r.datagram_len = DataLen
  <2>1. 1 \in 1..L
    BY <1>1, FirstByte
  <2>2. p[1].start = 0 /\ \A k \in 1..L - 1 : p[k].end = p[k + 1].start
    BY <1>1 DEF Finished
  <2>3. r.datagram_len > 0
    BY DEF Finished
  <2>4. (\E k \in 1..L : p[k].end = DataLen) /\ r.datagram_len = DataLen
    BY <1>1, <2>3 DEF GoodEntry
  <2> QED
    BY <2>1, <2>2, <2>4
<1>4. r.hdr = 0
  BY <1>1, <1>3 DEF GoodEntry
<1>5. p[L].end = DataLen
  <2>1. PICK k \in 1..L : p[k].end = DataLen
    BY <1>3
  <2>2. L \in 1..L /\ (k = L \/ p[k].end <= p[L].start)
    BY <1>2, <1>3
  <2> QED
    BY <1>2, <2>1, <2>2
<1> DEFINE X == Seq(Datagrams \X Nat)
           Chunk(k) == [n \in 1..p[k].end - p[k].start |->
                          <<p[k].of, p[k].start + n - 1>>]
           End(k) == IF k = 0 THEN 0 ELSE p[k].end
<1>6. ASSUME NEW k \in 1..L
      PROVE  Chunk(k) \in X /\ End(k - 1) \in Nat /\ End(k) \in Nat
             /\ \E m \in Nat : Chunk(k) = Run(id, End(k - 1), m)
                               /\ End(k - 1) + m = End(k)
  <2>1. PICK m \in Nat : m = p[k].end - p[k].start
    BY <1>2
  <2>2. End(k - 1) = p[k].start /\ End(k) = p[k].end
    <3>1. CASE k = 1
      BY <1>3, <3>1
    <3>2. CASE k # 1
      <4>1. k - 1 \in 1..L - 1 /\ (k - 1) + 1 = k /\ k - 1 # 0
        BY <1>2, <3>2
      <4> QED
        BY <1>3, <4>1
    <3> QED
      BY <3>1, <3>2
  <2>3. Chunk(k) = Run(id, p[k].start, m)
    BY <1>2, <2>1 DEF Run
  <2>4. Run(id, p[k].start, m) \in Seq({id} \X Nat)
    BY <1>2, RunIs
  <2>5. id \in Datagrams
    BY <1>1, EntryHas
  <2>6. {id} \X Nat \subseteq Datagrams \X Nat
    BY <2>5
  <2>7. Run(id, p[k].start, m) \in X
    <3>1. PICK s, S, T : /\ s = Run(id, p[k].start, m) /\ S = {id} \X Nat
                         /\ T = Datagrams \X Nat
      OBVIOUS
    <3>2. s \in Seq(S) /\ S \subseteq T
      BY <2>4, <2>6, <3>1
    <3>3. s \in Seq(T)
      BY <3>2, SeqMonotonic
    <3> QED
      BY <3>1, <3>3
  <2>8. p[k].start + m = p[k].end /\ p[k].start \in Nat /\ p[k].end \in Nat
    BY <1>2, <2>1
  <2> HIDE DEF Chunk, X, End
  <2> QED
    BY <2>2, <2>3, <2>7, <2>8
<1>7. BytesOf(p) = (LET upto[k \in 0..L] ==
                          IF k = 0 THEN <<>> ELSE upto[k - 1] \o Chunk(k)
                    IN  upto[L])
  BY <1>1 DEF BytesOf
<1> HIDE DEF Chunk, X, End
<1>8. \E g : g = [k \in 0..L |-> IF k = 0 THEN <<>> ELSE g[k - 1] \o Chunk(k)]
  <2> DEFINE G == [k \in 1..L |-> [s \in X |-> s \o Chunk(k)]]
  <2>1. PICK none : none = <<>>
    OBVIOUS
  <2>2. none \in X
    BY <2>1, EmptySeq DEF X
  <2>3. G \in [1..L -> [X -> X]]
    <3>1. \A k \in 1..L, s \in X : s \o Chunk(k) \in X
      BY <1>6, ConcatProperties DEF X
    <3> QED
      BY <3>1
  <2>4. \A k \in 1..L, s \in X : G[k][s] = s \o Chunk(k)
    OBVIOUS
  <2> HIDE DEF G
  <2>5. PICK g : Follows(g, X, none, L, G)
    BY <1>2, <2>2, <2>3, Defined
  <2>6. /\ g \in [0..L -> X]
        /\ g = [k \in 0..L |-> IF k = 0 THEN none ELSE G[k][g[k - 1]]]
    BY <2>5 DEF Follows
  <2>7. \A k \in 0..L : k # 0 => k \in 1..L /\ g[k - 1] \in X
    BY <1>2, <2>6
  <2>8. g = [k \in 0..L |-> IF k = 0 THEN <<>> ELSE g[k - 1] \o Chunk(k)]
    BY <2>1, <2>4, <2>6, <2>7
  <2> QED
    BY <2>8
<1> DEFINE upto == CHOOSE g : g = [k \in 0..L |-> IF k = 0 THEN <<>>
                                                  ELSE g[k - 1] \o Chunk(k)]
<1>9. upto = [k \in 0..L |-> IF k = 0 THEN <<>> ELSE upto[k - 1] \o Chunk(k)]
  BY <1>8
<1>10. BytesOf(p) = upto[L]
  BY <1>7
<1> HIDE DEF upto
<1>11. upto[0] = <<>> /\ \A k \in 1..L : upto[k] = upto[k - 1] \o Chunk(k)
  <2>1. 0 \in 0..L /\ \A k \in 1..L : k \in 0..L /\ k # 0
    BY <1>2
  <2>2. PICK g : g = upto
    OBVIOUS
  <2>3. g = [k \in 0..L |-> IF k = 0 THEN <<>> ELSE g[k - 1] \o Chunk(k)]
    BY <1>9, <2>2
  <2>4. g[0] = <<>> /\ \A k \in 1..L : g[k] = g[k - 1] \o Chunk(k)
    BY <2>1, <2>3, Zenon
  <2> QED
    BY <2>2, <2>4
<1> DEFINE B == {k \in 0..L : upto[k] = Run(id, 0, End(k))}
<1>12. 0 \in B
  <2>1. Run(id, 0, 0) = <<>>
    <3>1. Run(id, 0, 0) \in Seq({id} \X Nat) /\ Len(Run(id, 0, 0)) = 0
      <4>1. PICK z \in Nat : z = 0
        OBVIOUS
      <4>2. Run(id, z, z) \in Seq({id} \X Nat) /\ Len(Run(id, z, z)) = z
        BY RunIs
      <4> QED
        BY <4>1, <4>2
    <3> QED
      BY <3>1, EmptySeq
  <2> QED
    BY <1>2, <1>11, <2>1 DEF End
<1>13. \A k \in 1..L : k - 1 \in B => k \in B
  <2> SUFFICES ASSUME NEW k \in 1..L, k - 1 \in B PROVE k \in B
    OBVIOUS
  <2>1. PICK m \in Nat : Chunk(k) = Run(id, End(k - 1), m)
                         /\ End(k - 1) + m = End(k)
    BY <1>6
  <2>2. PICK a : a = End(k - 1)
    OBVIOUS
  <2>3. a \in Nat /\ upto[k - 1] = Run(id, 0, a)
    BY <1>6, <2>2
  <2>4. Run(id, 0, a) \o Run(id, a, m) = Run(id, 0, a + m)
    BY <2>3, RunOn
  <2>5. upto[k] = Run(id, 0, End(k))
    BY <1>11, <2>1, <2>2, <2>3, <2>4
  <2>6. k \in 0..L
    BY <1>2
  <2> QED
    BY <2>5, <2>6
<1>14. upto[L] = Run(id, 0, DataLen)
  <2>1. \A k \in 0..L : k \in B
    <3> HIDE DEF B
    <3> QED
      BY <1>2, <1>12, <1>13, UpTo
  <2>2. L \in 0..L /\ End(L) = DataLen
    BY <1>2, <1>3, <1>5 DEF End
  <2> QED
    BY <2>1, <2>2
<1>15. Run(id, 0, DataLen) = [k \in 1..DataLen |-> <<id, k - 1>>]
  <2>1. \A k \in 1..DataLen : 0 + k - 1 = k - 1
    OBVIOUS
  <2> QED
    BY <2>1 DEF Run
<1> QED
  BY <1>1, <1>3, <1>4, <1>10, <1>14, <1>15

-----------------------------------------------------------------------------
(* Steps of the list as steps of the collector.                            *)

\* There are as many names as entries.
LEMMA NamesCount ==
  ASSUME NEW list, OpenList(list)
  PROVE  Cardinality(Names(Members(list))) = Len(list)
<1> DEFINE L == Len(list)
           N == Names(Members(list))
           f == [i \in 1..L |-> list[i].id]
<1>1. L \in Nat
  BY ListHas
<1>2. \A i, j \in 1..L : list[i].id = list[j].id => i = j
  BY DEF OpenList
<1>3. N = {list[i].id : i \in 1..L}
  BY DEF Names, Members
<1>4. f \in Bijection(1..L, N)
  <2>1. f \in [1..L -> N]
    BY <1>3
  <2>2. \A i, j \in 1..L : f[i] = f[j] => i = j
    BY <1>2
  <2>3. \A x \in N : \E i \in 1..L : f[i] = x
    BY <1>3
  <2> HIDE DEF f, N, L
  <2> QED
    BY <2>1, <2>2, <2>3 DEF Bijection, Injection, Surjection, IsInjective
<1>5. PICK n, m, b : n = L /\ m = N /\ b = f
  OBVIOUS
<1>6. ExistsBijection(1..n, m)
  BY <1>4, <1>5 DEF ExistsBijection
<1>7. Cardinality(m) = n
  BY <1>1, <1>5, <1>6, FS_CountingElements
<1> QED
  BY <1>5, <1>7

\* The view of a part of the list.
LEMMA LessIs ==
  ASSUME NEW M, Unique(M), NEW G
  PROVE  View({m \in M : m.id \notin G}) = [g \in Names(M) \ G |-> View(M)[g]]
<1> DEFINE K == {m \in M : m.id \notin G}
           g == [id \in Names(M) \ G |-> View(M)[id]]
<1>1. Unique(K)
  BY DEF Unique
<1>2. Names(K) = Names(M) \ G
  BY DEF Names
<1>3. g = [id \in Names(K) |-> g[id]]
  BY <1>2
<1>4. \A r \in K : g[r.id] = Seen(r)
  <2>1. \A r \in M : View(M)[r.id] = Seen(r)
    BY ViewHas
  <2>2. \A r \in K : r \in M /\ r.id \in Names(M) \ G
    BY DEF Names
  <2> QED
    BY <2>1, <2>2
<1>5. PICK k, h : k = K /\ h = g
  OBVIOUS
<1>6. h = View(k)
  <2>1. Unique(k) /\ h = [id \in Names(k) |-> h[id]] /\ \A r \in k : h[r.id] = Seen(r)
    BY <1>1, <1>3, <1>4, <1>5
  <2> HIDE DEF K, g
  <2> QED
    BY <2>1, ViewIs
<1> QED
  BY <1>5, <1>6

\* The view with one entry changed or new.
LEMMA MoreIs ==
  ASSUME NEW M, Unique(M), NEW G, NEW id, id \notin G, NEW r, r.id = id
  PROVE  View({m \in M : m.id \notin G \union {id}} \union {r}) =
           [g \in (Names(M) \ G) \union {id} |->
              IF g = id THEN Seen(r) ELSE View(M)[g]]
<1> DEFINE K == {m \in M : m.id \notin G \union {id}} \union {r}
           g == [x \in (Names(M) \ G) \union {id} |->
                   IF x = id THEN Seen(r) ELSE View(M)[x]]
<1>1. Unique(K)
  BY DEF Unique
<1>2. Names(K) = (Names(M) \ G) \union {id}
  BY DEF Names
<1>3. g = [x \in Names(K) |-> g[x]]
  BY <1>2
<1>4. \A m \in K : g[m.id] = Seen(m)
  <2>1. \A m \in M : View(M)[m.id] = Seen(m)
    BY ViewHas
  <2>2. \A m \in K : m = r \/ (m \in M /\ m.id # id /\ m.id \in Names(M) \ G)
    BY DEF Names
  <2> QED
    BY <2>1, <2>2
<1>5. PICK k, h : k = K /\ h = g
  OBVIOUS
<1>6. h = View(k)
  <2>1. Unique(k) /\ h = [x \in Names(k) |-> h[x]] /\ \A m \in k : h[m.id] = Seen(m)
    BY <1>1, <1>3, <1>4, <1>5
  <2> HIDE DEF K, g
  <2> QED
    BY <2>1, ViewIs
<1> QED
  BY <1>5, <1>6

\* Whose first byte is there is told.
LEMMA ToldIs ==
  ASSUME NEW S \in GoodStates, NEW M, M = Members(S.list), NEW G,
         G \subseteq Names(M)
  PROVE  Told(S, G) = {g \in G : <<g, 0>> \in View(M)[g].bytes}
<1>1. GoodList(S.list) /\ OpenList(S.list)
  BY StateHas
<1>2. /\ Unique(M) /\ \A r \in M : View(M)[r.id] = Seen(r)
  BY <1>1, OpenIs, ViewHas
<1>3. ASSUME NEW r \in M
      PROVE  r.p[1].start = 0 <=> <<r.id, 0>> \in View(M)[r.id].bytes
  <2>1. r \in Entries /\ GoodEntry(r) /\ r.p # <<>>
    <3>1. PICK i \in 1..Len(S.list) : r = S.list[i]
      BY DEF Members
    <3> QED
      BY <1>1, <3>1, ListHas DEF GoodList
  <2>2. r.p[1].start = 0 <=> <<r.id, 0>> \in ByteSet(r.p)
    BY <2>1, FirstByte
  <2>3. View(M)[r.id].bytes = ByteSet(r.p)
    <3>1. Seen(r).bytes = ByteSet(r.p)
      BY DEF Seen
    <3>2. View(M)[r.id] = Seen(r)
      BY <1>2
    <3> QED
      BY <3>1, <3>2, Zenon
  <2> QED
    BY <2>2, <2>3
<1>4. Told(S, G) = {r.id : r \in {r \in M : r.id \in G /\ r.p[1].start = 0}}
  BY DEF Told, Given
<1>5. \A g \in G : \E r \in M : r.id = g
  BY DEF Names
<1> QED
  BY <1>3, <1>4, <1>5

\* What is given up is no younger than what is left.
LEMMA SpentIs ==
  ASSUME NEW S \in GoodStates, NEW M, M = Members(S.list), NEW id, NEW G,
         G \subseteq Names(M), Spent(S, G, id)
  PROVE  \A g \in G, h \in Names(M) \ ({id} \union G) :
           View(M)[g].age >= View(M)[h].age
<1>1. OpenList(S.list)
  BY StateHas
<1>2. /\ Unique(M) /\ \A r \in M : View(M)[r.id] = Seen(r) /\ r \in Entries
  BY <1>1, OpenIs, ViewHas, MemberIs
<1> SUFFICES ASSUME NEW g \in G, NEW h \in Names(M) \ ({id} \union G)
             PROVE  View(M)[g].age >= View(M)[h].age
  OBVIOUS
<1>3. PICK r \in M : r.id = g
  BY DEF Names
<1>4. PICK s \in M : s.id = h
  BY DEF Names
<1>5. r.timer <= s.timer
  BY <1>3, <1>4 DEF Spent
<1>6. r.timer \in Nat /\ s.timer \in Nat /\ IP_REASS_MAXAGE \in Nat
  BY <1>2, EntryHas, ReassAssumption
<1>7. View(M)[g].age = IP_REASS_MAXAGE - r.timer
      /\ View(M)[h].age = IP_REASS_MAXAGE - s.timer
  <2>1. \A m : Seen(m).age = IP_REASS_MAXAGE - m.timer
    BY DEF Seen
  <2>2. View(M)[r.id] = Seen(r) /\ View(M)[s.id] = Seen(s)
    BY <1>2
  <2> QED
    BY <1>3, <1>4, <2>1, <2>2, Zenon
<1> QED
  BY <1>5, <1>6, <1>7

\* The list, and the list after the step, as the collector sees them.
Now   == Members(reassdatagrams)
After == Members(reassdatagrams')

\* The collector's view of the present state.
LEMMA NowIs ==
  ASSUME IInv
  PROVE  /\ Open = View(Now) /\ Unique(Now) /\ DOMAIN Open = Names(Now)
         /\ Cardinality(Names(Now)) = Len(reassdatagrams)
         /\ \A r \in Now : Open[r.id] = Seen(r)
         /\ State \in GoodStates /\ Members(State.list) = Now
<1>1. Open = OpenOf(reassdatagrams)
  BY DEF Open, OpenOf, Ids, Of
<1>2. PICK list : list = reassdatagrams
  OBVIOUS
<1>3. OpenList(list)
  BY <1>2 DEF IInv, GoodList
<1>4. /\ OpenOf(list) = View(Members(list)) /\ Unique(Members(list))
      /\ Cardinality(Names(Members(list))) = Len(list)
  BY <1>3, OpenIs, NamesCount
<1>5. Open = View(Now) /\ Unique(Now)
  BY <1>1, <1>2, <1>4 DEF Now
<1>6. /\ DOMAIN View(Now) = Names(Now)
      /\ \A r \in Now : View(Now)[r.id] = Seen(r)
  BY <1>5, ViewHas
<1>7. State \in GoodStates /\ Members(State.list) = Now
  BY StateIs DEF Now
<1> QED
  BY <1>2, <1>4, <1>5, <1>6, <1>7 DEF Now

\* The collector's view of the next state.
LEMMA AfterIs ==
  ASSUME IInv'
  PROVE  Open' = View(After) /\ Unique(After)
<1>1. Open' = OpenOf(reassdatagrams')
  BY DEF Open, OpenOf, Ids, Of
<1>2. PICK list : list = reassdatagrams'
  OBVIOUS
<1>3. OpenList(list)
  BY <1>2 DEF IInv, GoodList
<1>4. OpenOf(list) = View(Members(list)) /\ Unique(Members(list))
  BY <1>3, OpenIs
<1> QED
  BY <1>1, <1>2, <1>4 DEF After

\* The space left is a number.
LEMMA SpaceIs == (IInv => Space \in Int) /\ (IInv' => Space' \in Int)
<1>1. ASSUME IInv PROVE Space \in Int
  <2>1. ip_reass_pbufcount \in Nat /\ IP_REASS_MAX_PBUFS \in Nat
    BY <1>1, ClenType, ReassAssumption DEF IInv
  <2> QED
    BY <2>1 DEF Space
<1>2. ASSUME IInv' PROVE Space' \in Int
  <2>1. ip_reass_pbufcount' \in Nat /\ IP_REASS_MAX_PBUFS \in Nat
    <3>1. IsFiniteSet(busy') /\ ip_reass_pbufcount' = Clen(busy')
      BY <1>2 DEF IInv
    <3>2. PICK S : S = busy'
      OBVIOUS
    <3> QED
      BY <3>1, <3>2, ClenType, ReassAssumption
  <2> QED
    BY <2>1 DEF Space
<1> QED
  BY <1>1, <1>2

\* The collector counts as the list does.
LEMMA CollectorCounts ==
  ASSUME NEW S
  PROVE  C!Cardinality(S) = Cardinality(S)
  BY DEF C!Cardinality, Cardinality

\* When a fragment wants what others have.
LEMMA WantIs ==
  ASSUME IInv, NEW id, NEW n
  PROVE  C!Want(id, n) <=>
           \/ IP_REASS_MAX_PBUFS - ip_reass_pbufcount < n
           \/ /\ \A r \in Now : r.id # id
              /\ Len(reassdatagrams) = MEMP_NUM_REASSDATA
<1>1. C!Cardinality(DOMAIN Open) = Len(reassdatagrams)
  BY NowIs, CollectorCounts
<1>2. id \notin DOMAIN Open <=> \A r \in Now : r.id # id
  BY NowIs DEF Names
<1> QED
  BY <1>1, <1>2 DEF C!Want, Space

\* What is given up for room is what the collector may give up.
LEMMA GivenUp ==
  ASSUME IInv, NEW G, G \subseteq Names(Now), NEW id, Spent(State, G, id)
  PROVE  G \in C!Expendable(id) /\ (exceeded' = Told(State, G) => C!GiveUp(G))
<1>1. PICK S, M : S = State /\ M = Now
  OBVIOUS
<1>2. /\ S \in GoodStates /\ M = Members(S.list) /\ Open = View(M)
      /\ DOMAIN Open = Names(M) /\ G \subseteq Names(M) /\ Spent(S, G, id)
  BY <1>1, NowIs
<1>3. /\ \A g \in G, h \in Names(M) \ ({id} \union G) :
           View(M)[g].age >= View(M)[h].age
      /\ Told(S, G) = {g \in G : <<g, 0>> \in View(M)[g].bytes}
  BY <1>2, SpentIs, ToldIs
<1>4. id \notin G
  BY <1>2 DEF Spent
<1>5. G \in C!Expendable(id)
  <2>1. G \in SUBSET (DOMAIN Open \ {id})
    BY <1>2, <1>4
  <2>2. \A g \in G, h \in DOMAIN Open \ ({id} \union G) : Open[g].age >= Open[h].age
    BY <1>2, <1>3
  <2> QED
    BY <2>1, <2>2 DEF C!Expendable
<1>6. exceeded' = Told(S, G) => C!GiveUp(G)
  BY <1>2, <1>3 DEF C!GiveUp
<1> QED
  BY <1>1, <1>5, <1>6

\* Datagrams that are dropped are gone from the collector's view.
LEMMA CollectorLess ==
  ASSUME IInv, NEW G
  PROVE  View({m \in Now : m.id \notin G}) = C!Less(G)
<1>1. PICK M : M = Now
  OBVIOUS
<1>2. Unique(M) /\ Open = View(M) /\ DOMAIN Open = Names(M)
  BY <1>1, NowIs
<1>3. View({m \in M : m.id \notin G}) = [g \in Names(M) \ G |-> View(M)[g]]
  BY <1>2, LessIs
<1> QED
  BY <1>1, <1>2, <1>3 DEF C!Less

\* The bytes of a fragment are a part of its datagram.
LEMMA PieceIs ==
  ASSUME NEW f, Piece(f)
  PROVE  /\ Span(f.id, f.start, f.end) \in C!Parts(f.id)
         /\ Span(f.id, f.start, f.end) # {}
<1>1. /\ f.start \in 0..DataLen - 1 /\ f.end - 1 \in 0..DataLen - 1
      /\ f.start \in f.start..f.end - 1
  BY ReassAssumption DEF Piece
<1>2. <<f.id, f.start>> \in Span(f.id, f.start, f.end)
  BY <1>1 DEF Span
<1> QED
  BY <1>1, <1>2 DEF C!Parts, Span

\* Fragment f in p goes into entry s after G were given up.
Enters(S, i, s, f, p, G) ==
  /\ S.list[i] = s /\ s \in Entries /\ GoodEntry(s) /\ s.id = f.id
  /\ p \notin PbufsOf(s)
  /\ s \in Now \/ (s.p = <<>> /\ s.timer = IP_REASS_MAXAGE /\ \A m \in Now : m.id # f.id)
  /\ Rest(S, f) = {m \in Now : m.id \notin G \union {f.id}}
  /\ S.told = Told(State, G)
  /\ G \subseteq Names(Now) /\ Spent(State, G, f.id)
  /\ G # {} => C!Want(f.id, pbuf_clen(p))
  /\ Entered(S, i, f, p, Chain(Entry(s, f), f, PartOf(f, p)))

\* Entering a fragment is the collector's step.
LEMMA EnteredRefines ==
  ASSUME IInv, IInv', NEW f, Piece(f), NEW p \in FragPbufs,
         NEW S, NEW i, NEW s, NEW G, Enters(S, i, s, f, p, G)
  PROVE  C!Fragment(f.id, pbuf_clen(p), G)
<1>1. PICK id, B, M : /\ id = f.id /\ B = Span(f.id, f.start, f.end) /\ M = Now
  OBVIOUS
<1>2. /\ B \in C!Parts(id) /\ B # {}
  BY <1>1, PieceIs
<1>3. /\ Open = View(M) /\ Unique(M) /\ DOMAIN Open = Names(M)
      /\ \A r \in M : Open[r.id] = Seen(r)
      /\ Open' = View(After)
  BY <1>1, NowIs, AfterIs
<1>4. PICK s1, e : s1 = Entry(s, f) /\ e = PartOf(f, p)
  OBVIOUS
<1>5. /\ s \in Entries /\ GoodEntry(s) /\ s.id = id /\ p \notin PbufsOf(s)
      /\ S.list[i] = s
  BY <1>1 DEF Enters
<1>6. /\ s1 \in Entries /\ GoodEntry(s1) /\ s1.id = id /\ s1.p = s.p
      /\ s1.timer = s.timer /\ (f.start = 0 => s1.hdr = 0)
      /\ PbufsOf(s1) = PbufsOf(s)
  <2>1. /\ s1 \in Entries /\ GoodEntry(s1) /\ s1.id = id /\ s1.p = s.p
        /\ s1.timer = s.timer /\ (f.start = 0 => s1.hdr = 0)
    BY <1>4, <1>5, EntryKeeps
  <2> QED
    BY <2>1 DEF PbufsOf
<1>7. PICK r : r = Chain(s1, f, e)
  OBVIOUS
<1>8. Entered(S, i, f, p, r)
  BY <1>4, <1>7 DEF Enters
<1>9. exceeded' = Told(State, G)
  BY <1>8 DEF Entered, Enters
<1>10. C!GiveUp(G) /\ (G # {} => C!Want(id, pbuf_clen(p))) /\ Space' \in Int
  BY <1>1, <1>9, GivenUp, SpaceIs DEF Enters
<1>11. /\ C!Have(id) = ByteSet(s.p) /\ C!Age(id) = IP_REASS_MAXAGE - s.timer
       /\ (s.p # <<>> => id \in Names(M) /\ Open[id] = Seen(s))
  <2>1. CASE s \in Now
    <3>1. id \in DOMAIN Open /\ Open[id] = Seen(s)
      BY <1>1, <1>3, <1>5, <2>1 DEF Names
    <3>2. Seen(s).bytes = ByteSet(s.p) /\ Seen(s).age = IP_REASS_MAXAGE - s.timer
      BY DEF Seen
    <3> QED
      BY <1>3, <3>1, <3>2 DEF C!Have, C!Age
  <2>2. CASE s.p = <<>> /\ s.timer = IP_REASS_MAXAGE /\ \A m \in Now : m.id # f.id
    <3>1. id \notin DOMAIN Open
      BY <1>1, <1>3, <2>2 DEF Names
    <3>2. ByteSet(s.p) = {}
      <4>1. Len(s.p) \in Nat /\ DOMAIN s.p = 1..Len(s.p) /\ Len(s.p) = 0
        BY <1>5, <2>2, EntryHas
      <4>2. DOMAIN s.p = {}
        BY <4>1
      <4> QED
        BY <4>2 DEF ByteSet
    <3>3. IP_REASS_MAXAGE - s.timer = 0
      BY <2>2, ReassAssumption
    <3> QED
      BY <2>2, <3>1, <3>2, <3>3 DEF C!Have, C!Age
  <2> QED
    BY <2>1, <2>2 DEF Enters
<1>12. /\ e \in Parts /\ e.start < e.end /\ e.start = f.start /\ e.end = f.end
  BY <1>4 DEF Piece, PartOf, Parts
<1>13. Overlaps(s.p, e) <=> C!Have(id) \cap B # {}
  <2>1. Overlaps(s.p, e) <=> ByteSet(s.p) \cap Span(s.id, e.start, e.end) # {}
    BY <1>5, <1>12, BytesMeet
  <2>2. Span(s.id, e.start, e.end) = B
    BY <1>1, <1>5, <1>12
  <2> QED
    BY <1>11, <2>1, <2>2
<1>14. Rest(S, f) = {m \in M : m.id \notin G \union {id}} /\ id \notin G
  BY <1>1 DEF Enters, Spent
<1>15. ASSUME ~Overlaps(s.p, e)
       PROVE  /\ r \in Entries /\ GoodEntry(r) /\ r.p # <<>> /\ r.id = id
              /\ r.timer = s.timer /\ ByteSet(r.p) = C!Have(id) \union B
              /\ Finished(r) <=> C!Have(id) \union B = C!All(id)
  <2>1. /\ r \in Entries /\ GoodEntry(r) /\ r.p # <<>> /\ r.id = s1.id
        /\ r.timer = s1.timer
        /\ \E k \in 1..Len(s1.p) + 1 : PutAt(s1.p, e, r.p, k)
    <3>1. ~Overlaps(s1.p, e) /\ p \notin PbufsOf(s1) /\ f.id = s1.id
      BY <1>1, <1>5, <1>6, <1>15
    <3> QED
      BY <1>4, <1>6, <1>7, <3>1, ChainGood
  <2>2. PICK k \in 1..Len(s1.p) + 1 : PutAt(s1.p, e, r.p, k)
    BY <2>1
  <2>3. ByteSet(r.p) = ByteSet(s1.p) \union Span(s1.id, e.start, e.end)
    BY <1>6, <1>12, <2>1, <2>2, BytesJoin
  <2>4. ByteSet(r.p) = C!Have(id) \union B
    BY <1>1, <1>6, <1>11, <1>12, <2>3
  <2>5. Finished(r) <=> ByteSet(r.p) = Span(r.id, 0, DataLen)
    BY <2>1, FinishedIs
  <2>6. C!All(id) = Span(id, 0, DataLen)
    BY DEF C!All, Span
  <2> QED
    BY <1>6, <2>1, <2>4, <2>5, <2>6
<1>16. CASE Overlapping(S, i, f, p)
  <2>1. Overlaps(s.p, e)
    BY <1>4, <1>5, <1>16 DEF Overlapping
  <2>2. id \in Names(M) /\ Open[id] = Seen(s1)
    <3>1. s.p # <<>>
      <4>1. PICK k \in DOMAIN s.p : TRUE
        BY <2>1 DEF Overlaps
      <4> QED
        BY <4>1
    <3>2. Seen(s1) = Seen(s)
      BY <1>6 DEF Seen
    <3> QED
      BY <1>11, <3>1, <3>2
  <2>3. After = {m \in M : m.id \notin G \union {id}} \union {s1}
    BY <1>4, <1>5, <1>14, <1>16 DEF Overlapping, After
  <2>4. Open' = [g \in (Names(M) \ G) \union {id} |->
                   IF g = id THEN Seen(s1) ELSE View(M)[g]]
    <3>1. Unique(M) /\ id \notin G /\ s1.id = id
      BY <1>3, <1>6, <1>14
    <3>2. View({m \in M : m.id \notin G \union {id}} \union {s1}) =
            [g \in (Names(M) \ G) \union {id} |->
               IF g = id THEN Seen(s1) ELSE View(M)[g]]
      BY <3>1, MoreIs
    <3> QED
      BY <1>3, <2>3, <3>2
  <2>5. Open' = C!Less(G)
    <3>1. (Names(M) \ G) \union {id} = DOMAIN Open \ G
      BY <1>3, <1>14, <2>2
    <3> QED
      BY <1>3, <2>2, <2>4, <3>1 DEF C!Less
  <2>6. Delivered' = {} /\ Ignored' = {[id |-> id, bytes |-> B]}
    BY <1>1, <1>16 DEF Overlapping, Delivered, Ignored, Span
  <2>7. C!Refuse(id, B, G)
    BY <2>5, <2>6 DEF C!Refuse
  <2> QED
    BY <1>1, <1>2, <1>10, <1>13, <2>1, <2>7 DEF C!Fragment
<1>17. CASE Taking(S, i, f, p, r)
  <2>1. ~Overlaps(s.p, e) /\ ~Finished(r)
    BY <1>4, <1>5, <1>17 DEF Taking
  <2>2. PICK have : have = C!Have(id) \union B
    OBVIOUS
  <2>3. have # C!All(id) /\ ByteSet(r.p) = have /\ r.timer = s.timer /\ r.id = id
    BY <1>15, <2>1, <2>2
  <2>4. After = {m \in M : m.id \notin G \union {id}} \union {r}
    BY <1>14, <1>17 DEF Taking, After
  <2>5. Open' = [g \in (Names(M) \ G) \union {id} |->
                   IF g = id THEN Seen(r) ELSE View(M)[g]]
    <3>1. Unique(M) /\ id \notin G /\ r.id = id
      BY <1>3, <1>14, <2>3
    <3>2. View({m \in M : m.id \notin G \union {id}} \union {r}) =
            [g \in (Names(M) \ G) \union {id} |->
               IF g = id THEN Seen(r) ELSE View(M)[g]]
      BY <3>1, MoreIs
    <3> QED
      BY <1>3, <2>4, <3>2
  <2>6. Seen(r) = [bytes |-> have, age |-> C!Age(id)]
    BY <1>11, <2>3 DEF Seen
  <2>7. Open' = [g \in (DOMAIN Open \ G) \union {id} |->
                   IF g = id THEN [bytes |-> have, age |-> C!Age(id)]
                   ELSE Open[g]]
    BY <1>3, <2>5, <2>6
  <2>8. Delivered' = {} /\ Ignored' = {}
    BY <1>17 DEF Taking, Delivered, Ignored
  <2>9. C!Take(id, B, G)
    BY <2>2, <2>3, <2>7, <2>8 DEF C!Take
  <2> QED
    BY <1>1, <1>2, <1>10, <1>13, <2>1, <2>9 DEF C!Fragment
<1>18. CASE Finishing(S, i, f, p, r)
  <2>1. ~Overlaps(s.p, e) /\ Finished(r)
    BY <1>4, <1>5, <1>18 DEF Finishing
  <2>2. PICK have : have = C!Have(id) \union B
    OBVIOUS
  <2>3. /\ have = C!All(id) /\ r \in Entries /\ GoodEntry(r) /\ r.p # <<>>
        /\ r.id = id
    BY <1>15, <2>1, <2>2
  <2>4. /\ r.datagram_len = DataLen /\ r.hdr = 0
        /\ BytesOf(r.p) = [k \in 1..DataLen |-> <<r.id, k - 1>>]
    BY <2>1, <2>3, DeliveryIs
  <2>5. PICK o : o = [id |-> r.id, len |-> r.datagram_len, hdr |-> r.hdr,
                      parts |-> r.p]
    OBVIOUS
  <2>6. out' = {o} /\ refused' = {}
    BY <1>18, <2>5 DEF Finishing
  <2>7. Delivered' = {[id |-> o.id, len |-> o.len, hdr |-> o.hdr,
                       bytes |-> BytesOf(o.parts)]}
    BY <2>6 DEF Delivered
  <2>8. /\ o.id = id /\ o.len = DataLen /\ o.hdr = 0
        /\ BytesOf(o.parts) = [k \in 1..DataLen |-> <<id, k - 1>>]
    BY <2>3, <2>4, <2>5
  <2>9. Delivered' = {[id |-> id, len |-> DataLen, hdr |-> 0,
                       bytes |-> [k \in 1..DataLen |-> <<id, k - 1>>]]}
    BY <2>7, <2>8
  <2>10. After = {m \in M : m.id \notin G \union {id}}
    BY <1>14, <1>18 DEF Finishing, After
  <2>11. Open' = C!Less(G \union {id})
    BY <1>1, <1>3, <2>10, CollectorLess
  <2>12. Ignored' = {}
    BY <2>6 DEF Ignored
  <2>13. C!Take(id, B, G)
    BY <2>2, <2>3, <2>9, <2>11, <2>12 DEF C!Take
  <2> QED
    BY <1>1, <1>2, <1>10, <1>13, <2>1, <2>13 DEF C!Fragment
<1> QED
  BY <1>8, <1>16, <1>17, <1>18 DEF Entered

\* After G were given up, the fragment is not taken.
LEMMA RefuseRefines ==
  ASSUME IInv, IInv', NEW f, Piece(f), NEW n, NEW T, NEW G,
         Gone(State, T, G), Spent(State, G, f.id), Drop(T, {f}),
         C!Want(f.id, n), n = 1 => Names(Now) \subseteq {f.id}
  PROVE  C!Fragment(f.id, n, G)
<1>1. PICK id, B : id = f.id /\ B = Span(f.id, f.start, f.end)
  OBVIOUS
<1>2. B \in C!Parts(id)
  BY <1>1, PieceIs
<1>3. /\ State.told = {} /\ Members(State.list) = Now /\ DOMAIN Open = Names(Now)
  BY StateIs, NowIs
<1>4. /\ Members(T.list) = {m \in Now : m.id \notin G}
      /\ T.told = Told(State, G) /\ G \subseteq Names(Now)
  BY <1>3 DEF Gone, Names
<1>5. /\ reassdatagrams' = T.list /\ out' = {} /\ refused' = {f}
      /\ exceeded' = T.told
  BY DEF Drop
<1>6. C!GiveUp(G)
  BY <1>4, <1>5, GivenUp
<1>7. Open' = C!Less(G)
  <2>1. After = {m \in Now : m.id \notin G}
    BY <1>4, <1>5 DEF After
  <2>2. Open' = View(After)
    BY AfterIs
  <2> QED
    BY <2>1, <2>2, CollectorLess
<1>8. Delivered' = {} /\ Ignored' = {[id |-> id, bytes |-> B]}
  BY <1>1, <1>5 DEF Delivered, Ignored, Span
<1>9. C!Refuse(id, B, G)
  BY <1>7, <1>8 DEF C!Refuse
<1>10. Space' \in Int
  BY SpaceIs
<1>11. n = 1 => DOMAIN Open \subseteq {id}
  BY <1>1, <1>3
<1> QED
  BY <1>1, <1>2, <1>6, <1>9, <1>10, <1>11 DEF C!Fragment

\* S has room for fragment f, if need be after G were given up.
Ready(S, f, p, G) ==
  /\ Gone(State, S, G) /\ Spent(State, G, f.id)
  /\ G # {} => C!Want(f.id, pbuf_clen(p)) /\ Len(S.list) < MEMP_NUM_REASSDATA

\* So is joining it to a datagram that is known,
LEMMA JoinedRefines ==
  ASSUME IInv, IInv', NEW f, Piece(f), NEW p \in FragPbufs, p \notin busy,
         NEW S, NEW G, Ready(S, f, p, G), Joined(S, f, p)
  PROVE  C!Fragment(f.id, pbuf_clen(p), G)
<1>1. /\ State.told = {} /\ Members(State.list) = Now /\ Queued(State.list) = busy
  BY StateIs, NowIs DEF IInv
<1>2. /\ Members(S.list) = {m \in Now : m.id \notin G} /\ S \in GoodStates
      /\ S.told = Told(State, G) /\ G \subseteq Names(Now)
      /\ Queued(S.list) \subseteq busy
  BY <1>1 DEF Ready, Gone, Names
<1>3. PICK i \in 1..Len(S.list) :
        /\ S.list[i].id = f.id
        /\ Entered(S, i, f, p, Chain(Entry(S.list[i], f), f, PartOf(f, p)))
  BY DEF Joined
<1>4. PICK s : s = S.list[i]
  OBVIOUS
<1>5. s \in Members(S.list) /\ s \in Entries /\ GoodEntry(s) /\ s \in Now
  <2>1. OpenList(S.list)
    BY <1>2, StateHas
  <2> QED
    BY <1>2, <1>4, <2>1, MemberIs
<1>6. p \notin PbufsOf(s)
  BY <1>2, <1>5 DEF Queued
<1>7. Rest(S, f) = {m \in Now : m.id \notin G \union {f.id}}
  BY <1>2 DEF Rest
<1>8. Enters(S, i, s, f, p, G)
  BY <1>2, <1>3, <1>4, <1>5, <1>6, <1>7 DEF Enters, Ready
<1> QED
  BY <1>8, EnteredRefines

\* and so is beginning a new one.
LEMMA BegunRefines ==
  ASSUME IInv, IInv', NEW f, Piece(f), NEW p \in FragPbufs,
         NEW B, NEW G, Gone(State, B, G), Spent(State, G, f.id),
         G # {} => C!Want(f.id, pbuf_clen(p)),
         \A m \in Now : m.id # f.id, Begun(B, f, p)
  PROVE  C!Fragment(f.id, pbuf_clen(p), G)
<1>1. /\ State.told = {} /\ Members(State.list) = Now
  BY StateIs, NowIs
<1>2. /\ Members(B.list) = {m \in Now : m.id \notin G} /\ B \in GoodStates
      /\ B.told = Told(State, G) /\ G \subseteq Names(Now)
  BY <1>1 DEF Gone, Names
<1>3. PICK s : s = NewEntry(f)
  OBVIOUS
<1>4. PICK N : /\ N = [B EXCEPT !.list = <<s>> \o @]
               /\ N \in OpenStates /\ Members(N.list) = Members(B.list) \union {s}
               /\ N.list[1] = s /\ Len(N.list) = Len(B.list) + 1
               /\ Entered(N, 1, f, p, Chain(Entry(s, f), f, PartOf(f, p)))
  BY <1>3 DEF Begun
<1>5. s.id = f.id /\ s.p = <<>> /\ s.timer = IP_REASS_MAXAGE
  BY <1>3 DEF NewEntry
<1>6. N.told = B.told
  <2>1. B = [list |-> B.list, count |-> B.count, freed |-> B.freed,
             told |-> B.told]
    BY <1>2, StateHas
  <2>2. PICK new : new = <<s>> \o B.list
    OBVIOUS
  <2>3. N = [B EXCEPT !.list = new]
    BY <1>4, <2>2
  <2> QED
    BY <2>1, <2>3
<1>7. s \in Entries /\ GoodEntry(s)
  <2>1. OpenList(N.list)
    BY <1>4 DEF OpenStates
  <2>2. s \in Members(N.list)
    BY <1>4
  <2> QED
    BY <2>1, <2>2, MemberIs
<1>8. p \notin PbufsOf(s)
  <2>1. Len(s.p) = 0 /\ PbufsOf(s) = {s.p[k].pbuf : k \in 1..Len(s.p)}
    BY <1>5, <1>7, EntryHas
  <2> QED
    BY <2>1
<1>9. Rest(N, f) = {m \in Now : m.id \notin G \union {f.id}}
  BY <1>2, <1>4, <1>5 DEF Rest
<1>10. PICK i : i = 1
  OBVIOUS
<1>11. Enters(N, i, s, f, p, G)
  BY <1>2, <1>4, <1>5, <1>6, <1>7, <1>8, <1>9, <1>10 DEF Enters
<1> QED
  BY <1>11, EnteredRefines

\* The fragment is taken or refused by a list that has room for its pbufs.
LEMMA FoundRefines ==
  ASSUME IInv, IInv', NEW f, Piece(f), NEW p \in FragPbufs, p \notin busy,
         NEW S, NEW G, Ready(S, f, p, G), Found(S, f, p)
  PROVE  \E H \in C!Expendable(f.id) : C!Fragment(f.id, pbuf_clen(p), H)
<1>1. /\ State.told = {} /\ Members(State.list) = Now /\ State \in GoodStates
      /\ Room(State) /\ State.list = reassdatagrams
  BY StateIs, NowIs
<1>2. /\ Members(S.list) = {m \in Now : m.id \notin G} /\ S \in GoodStates
      /\ Len(S.list) <= Len(State.list) /\ f.id \notin G
      /\ G \subseteq Names(Now)
  BY <1>1 DEF Ready, Gone, Names, Spent
<1>3. CASE Joined(S, f, p)
  <2>1. G \in C!Expendable(f.id)
    BY <1>2, GivenUp DEF Ready
  <2> QED
    BY <1>3, <2>1, JoinedRefines
<1>4. CASE ~Joined(S, f, p)
  <2>1. /\ \A r \in Members(S.list) : r.id # f.id
        /\ \E B, H :
             /\ Gone(S, B, H) /\ Spent(S, H, f.id)
             /\ Len(S.list) < MEMP_NUM_REASSDATA => H = {}
             /\ \/ Len(B.list) < MEMP_NUM_REASSDATA /\ Begun(B, f, p)
                \/ /\ Drop(B, {f}) /\ Hopeless(S, f, p)
                   /\ Len(S.list) >= MEMP_NUM_REASSDATA
    BY <1>4 DEF Found
  <2>2. PICK B, H : /\ Gone(S, B, H) /\ Spent(S, H, f.id)
                    /\ Len(S.list) < MEMP_NUM_REASSDATA => H = {}
                    /\ \/ Len(B.list) < MEMP_NUM_REASSDATA /\ Begun(B, f, p)
                       \/ /\ Drop(B, {f}) /\ Hopeless(S, f, p)
                          /\ Len(S.list) >= MEMP_NUM_REASSDATA
    BY <2>1
  <2>3. PICK U : U = G \union H
    OBVIOUS
  <2>4. Gone(State, B, U)
    BY <1>1, <2>2, <2>3, GoneMore DEF Ready
  <2>5. \A m \in Now : m.id # f.id
    BY <1>2, <2>1
  <2>6. G # {} => H = {}
    BY <2>2 DEF Ready
  <2>7. Spent(State, U, f.id)
    BY <1>1, <1>2, <2>2, <2>3, <2>6 DEF Spent, Ready
  <2>8. Len(S.list) >= MEMP_NUM_REASSDATA =>
          /\ G = {} /\ C!Want(f.id, pbuf_clen(p))
    <3> SUFFICES ASSUME Len(S.list) >= MEMP_NUM_REASSDATA
                 PROVE  G = {} /\ C!Want(f.id, pbuf_clen(p))
      OBVIOUS
    <3>1. /\ Len(S.list) \in Nat /\ Len(State.list) \in Nat
          /\ MEMP_NUM_REASSDATA \in Nat
      BY <1>1, <1>2, StateHas, ListHas, ReassAssumption
    <3>2. Len(reassdatagrams) = MEMP_NUM_REASSDATA
      BY <1>1, <1>2, <3>1 DEF Room
    <3>3. G = {}
      BY <3>1 DEF Ready
    <3> QED
      BY <2>5, <3>2, <3>3, WantIs
  <2>9. U # {} => C!Want(f.id, pbuf_clen(p))
    <3>1. CASE G # {}
      BY <3>1 DEF Ready
    <3>2. CASE G = {}
      <4>1. /\ Len(S.list) \in Nat /\ MEMP_NUM_REASSDATA \in Nat
        BY <1>2, StateHas, ListHas, ReassAssumption
      <4>2. H # {} => Len(S.list) >= MEMP_NUM_REASSDATA
        BY <2>2, <4>1
      <4> QED
        BY <2>3, <2>8, <3>2, <4>2
    <3> QED
      BY <3>1, <3>2
  <2>10. U \in C!Expendable(f.id)
    <3>1. U \subseteq Names(Now)
      BY <1>1, <2>4 DEF Gone, Names
    <3> QED
      BY <2>7, <3>1, GivenUp
  <2>11. CASE Begun(B, f, p)
    BY <2>4, <2>5, <2>7, <2>9, <2>10, <2>11, BegunRefines
  <2>12. CASE /\ Drop(B, {f}) /\ Hopeless(S, f, p)
              /\ Len(S.list) >= MEMP_NUM_REASSDATA
    <3>1. PICK n : n = pbuf_clen(p)
      OBVIOUS
    <3>2. n = 1 => Names(Now) \subseteq {f.id}
      BY <1>2, <2>8, <2>12, <3>1 DEF Hopeless, Names
    <3>3. C!Want(f.id, n)
      BY <2>8, <2>12, <3>1
    <3>4. C!Fragment(f.id, n, U)
      BY <2>4, <2>7, <2>12, <3>2, <3>3, RefuseRefines
    <3> QED
      BY <2>10, <3>1, <3>4
  <2> QED
    BY <2>2, <2>11, <2>12
<1> QED
  BY <1>3, <1>4

\* A fragment that arrives is a fragment for the collector.
LEMMA ReassRefines ==
  ASSUME IInv, IInv', NEW f, Piece(f), NEW p \in FragPbufs, p \notin busy,
         ip4_reass(f, p)
  PROVE  C!Next
<1>1. PICK S, n, id : S = State /\ n = pbuf_clen(p) /\ id = f.id
  OBVIOUS
<1>2. PICK T : T = ip_reass_remove_oldest_datagram(S, id, n)
  OBVIOUS
<1>3. /\ S \in GoodStates /\ Owned(S) /\ Room(S) /\ S.freed = {} /\ S.told = {}
      /\ S.count \in Nat /\ S.count <= IP_REASS_MAX_PBUFS
      /\ S.list = reassdatagrams /\ S.count = ip_reass_pbufcount
      /\ Members(S.list) = Now /\ IP_REASS_MAX_PBUFS \in Nat
      /\ p \notin Queued(S.list) /\ Len(S.list) \in Nat
      /\ MEMP_NUM_REASSDATA \in Nat
  <2>1. /\ S \in GoodStates /\ Owned(S) /\ Room(S) /\ S.freed = {} /\ S.told = {}
        /\ S.count <= IP_REASS_MAX_PBUFS
        /\ S.list = reassdatagrams /\ S.count = ip_reass_pbufcount
        /\ Members(S.list) = Now
    BY <1>1, StateIs, NowIs
  <2>2. p \notin Queued(S.list)
    BY <2>1 DEF Owned
  <2> QED
    BY <2>1, <2>2, StateHas, ListHas, ReassAssumption
<1>4. n \in 1..2 /\ id \in Datagrams
  BY <1>1, ClenOne DEF Piece
<1>5. PICK G : /\ Gone(S, T, G) /\ Spent(S, G, id)
               /\ S.freed = {} /\ (\E r \in Members(S.list) : r.id # id)
                    => G # {}
  BY <1>2, <1>3, <1>4, RemoveOldestIs
<1>6. \/ id \in WithOptions /\ Drop(S, {f})
      \/ id \notin WithOptions /\ Fits(S.count, p) /\ Find(S, f, p)
      \/ /\ id \notin WithOptions /\ ~Fits(S.count, p)
         /\ T.freed # {} /\ Fits(T.count, p) /\ Find(T, f, p)
      \/ /\ id \notin WithOptions /\ ~Fits(S.count, p)
         /\ ~(T.freed # {} /\ Fits(T.count, p)) /\ Drop(T, {f})
  BY <1>1, <1>2 DEF ip4_reass
<1>7. ~Fits(S.count, p) => C!Want(id, n)
  <2>1. ~Fits(S.count, p) => IP_REASS_MAX_PBUFS - ip_reass_pbufcount < n
    BY <1>1, <1>3, <1>4 DEF Fits
  <2> QED
    BY <2>1, WantIs
<1>8. ASSUME id \notin WithOptions, NEW H \in C!Expendable(id),
             C!Fragment(id, n, H)
      PROVE  C!Next
  BY <1>4, <1>8 DEF C!Next
<1>9. /\ T \in GoodStates /\ T.freed = Lost(S, G) /\ Owned(T)
      /\ T.count \in Nat
      /\ G # {} => Len(T.list) < MEMP_NUM_REASSDATA
      /\ p \notin Queued(T.list) /\ Room(T)
  <2>1. /\ T \in GoodStates /\ T.freed = Lost(S, G)
        /\ Len(T.list) <= Len(S.list) /\ (G # {} => Len(T.list) < Len(S.list))
        /\ p \notin Queued(T.list)
    BY <1>3, <1>5 DEF Gone
  <2>2. Owned(T) /\ T.count \in Nat /\ Len(T.list) \in Nat
    BY <1>3, <1>5, <2>1, GoneOwned, StateHas, ListHas
  <2> QED
    BY <1>3, <2>1, <2>2 DEF Room
<1>10. CASE id \in WithOptions /\ Drop(S, {f})
  <2>1. PICK B : B = Span(f.id, f.start, f.end)
    OBVIOUS
  <2>2. B \in C!Parts(id)
    BY <1>1, <2>1, PieceIs
  <2>3. /\ reassdatagrams' = reassdatagrams
        /\ ip_reass_pbufcount' = ip_reass_pbufcount
        /\ out' = {} /\ refused' = {f} /\ exceeded' = {}
    BY <1>3, <1>10 DEF Drop
  <2>4. PICK none : none = {}
    OBVIOUS
  <2>5. Open' = C!Less(none)
    <3>1. After = {m \in Now : m.id \notin none}
      BY <2>3, <2>4 DEF After, Now
    <3>2. Open' = View(After)
      BY AfterIs
    <3> QED
      BY <3>1, <3>2, CollectorLess
  <2>6. /\ Delivered' = {} /\ Ignored' = {[id |-> id, bytes |-> B]}
        /\ Space' = Space
    BY <1>1, <2>1, <2>3 DEF Delivered, Ignored, Span, Space
  <2>7. C!Unsupported(id, B)
    BY <1>10, <2>3, <2>4, <2>5, <2>6 DEF C!Unsupported, C!Refuse
  <2> QED
    BY <1>10, <2>2, <2>7 DEF C!Next
<1>11. CASE id \notin WithOptions /\ Fits(S.count, p) /\ Find(S, f, p)
  <2>1. Found(S, f, p)
    BY <1>3, <1>11, FindIs
  <2>2. PICK none : none = {}
    OBVIOUS
  <2>3. Gone(State, S, none) /\ Spent(State, none, f.id)
    BY <1>1, <1>3, <2>2, GoneNone DEF Spent
  <2>4. Ready(S, f, p, none)
    BY <2>2, <2>3 DEF Ready
  <2>5. \E H \in C!Expendable(f.id) : C!Fragment(f.id, pbuf_clen(p), H)
    BY <2>1, <2>4, FoundRefines
  <2> QED
    BY <1>1, <1>8, <1>11, <2>5
<1>12. CASE /\ id \notin WithOptions /\ ~Fits(S.count, p)
            /\ T.freed # {} /\ Fits(T.count, p) /\ Find(T, f, p)
  <2>1. Found(T, f, p)
    BY <1>9, <1>12, FindIs
  <2>2. Ready(T, f, p, G)
    BY <1>1, <1>5, <1>7, <1>9, <1>12 DEF Ready
  <2>3. \E H \in C!Expendable(f.id) : C!Fragment(f.id, pbuf_clen(p), H)
    BY <2>1, <2>2, FoundRefines
  <2> QED
    BY <1>1, <1>8, <1>12, <2>3
<1>13. CASE /\ id \notin WithOptions /\ ~Fits(S.count, p)
            /\ ~(T.freed # {} /\ Fits(T.count, p)) /\ Drop(T, {f})
  <2>1. n = 1 => Names(Now) \subseteq {id}
    <3> SUFFICES ASSUME n = 1, NEW r \in Now, r.id # id PROVE FALSE
      BY DEF Names
    <3>1. G # {}
      BY <1>3, <1>5
    <3>2. PICK Q, P : Q = Queued(S.list) /\ P = Lost(S, G)
      OBVIOUS
    <3>3. IsFiniteSet(Q) /\ P \subseteq Q /\ Clen(P) > 0 /\ P # {}
          /\ S.count = Clen(Q)
      BY <1>3, <1>5, <3>1, <3>2, LostSome, StateHas
    <3>4. Clen(Q \ P) = Clen(Q) - Clen(P) /\ Clen(Q) \in Nat /\ Clen(P) \in Nat
      BY <3>3, ClenLess
    <3>5. T.count = Clen(Q \ P)
      BY <1>5, <1>9, <3>2, StateHas DEF Gone
    <3>6. T.count + 1 <= IP_REASS_MAX_PBUFS
      BY <1>3, <3>3, <3>4, <3>5
    <3>7. Fits(T.count, p) /\ T.freed # {}
      BY <1>1, <1>9, <3>2, <3>3, <3>6 DEF Fits
    <3> QED
      BY <1>13, <3>7
  <2>2. C!Fragment(f.id, n, G)
    BY <1>1, <1>5, <1>7, <1>13, <2>1, RefuseRefines
  <2>3. G \in C!Expendable(id)
    <3>1. G \subseteq Names(Now)
      BY <1>3, <1>5 DEF Gone, Names
    <3> QED
      BY <1>1, <1>5, <3>1, GivenUp
  <2> QED
    BY <1>1, <1>8, <1>13, <2>2, <2>3
<1> QED
  BY <1>6, <1>10, <1>11, <1>12, <1>13

\* A turn of the timer is a tick for the collector.
LEMMA TickRefines ==
  ASSUME IInv, IInv', ip_reass_tmr
  PROVE  C!Tick
<1>1. PICK T : Ticked(State, T, Len(reassdatagrams)) /\ Drop(T, {})
  BY TmrIs
<1>2. /\ State.list = reassdatagrams /\ State.told = {} /\ State \in GoodStates
      /\ Now = Members(State.list)
      /\ Open = View(Now) /\ DOMAIN Open = Names(Now) /\ Unique(Now)
      /\ \A r \in Now : Open[r.id] = Seen(r)
  BY StateIs, NowIs
<1>3. Len(reassdatagrams) \in Nat
  BY <1>2, StateHas, ListHas
<1>4. \A r \in Now : /\ r \in Entries /\ GoodEntry(r) /\ r.timer \in Nat
                     /\ r.timer # 0 => /\ Aged(r).id = r.id /\ Aged(r).p = r.p
                                       /\ Aged(r).timer = r.timer - 1
  BY <1>2, StateHas, MemberIs, EntryHas, AgedIs
<1>5. /\ Before(State, Len(reassdatagrams)) = {}
      /\ Behind(State, Len(reassdatagrams)) = Now
  BY <1>2, <1>3 DEF Before, Behind, Now, Members
<1>6. /\ reassdatagrams' = T.list /\ out' = {} /\ refused' = {}
      /\ exceeded' = T.told
  BY <1>1 DEF Drop
<1>7. After = Kept(Now) /\ exceeded' = Known(Now)
  BY <1>1, <1>2, <1>5, <1>6 DEF Ticked, After
<1>8. PICK old : old = {id \in DOMAIN Open : Open[id].age = IP_REASS_MAXAGE}
  OBVIOUS
<1>9. \A r \in Now : r.id \in old <=> r.timer = 0
  <2> SUFFICES ASSUME NEW r \in Now PROVE r.id \in old <=> r.timer = 0
    OBVIOUS
  <2>1. Seen(r).age = IP_REASS_MAXAGE - r.timer
    BY DEF Seen
  <2>2. Open[r.id].age = IP_REASS_MAXAGE - r.timer
    BY <1>2, <2>1
  <2>3. IP_REASS_MAXAGE - r.timer = IP_REASS_MAXAGE <=> r.timer = 0
    BY <1>4, ReassAssumption
  <2> QED
    BY <1>2, <1>8, <2>2, <2>3 DEF Names
<1>10. C!GiveUp(old)
  <2>1. PICK S, M : S = State /\ M = Now
    OBVIOUS
  <2>2. old \subseteq Names(M)
    BY <1>2, <1>8, <2>1
  <2>3. Told(S, old) = {g \in old : <<g, 0>> \in View(M)[g].bytes}
    BY <1>2, <2>1, <2>2, ToldIs
  <2>4. Known(Now) = Told(State, old)
    BY <1>2, <1>9 DEF Known, Told, Given
  <2> QED
    BY <1>2, <1>7, <2>1, <2>3, <2>4 DEF C!GiveUp
<1>11. PICK g : g = [id \in DOMAIN Open \ old |-> [Open[id] EXCEPT !.age = @ + 1]]
  OBVIOUS
<1>12. Open' = g
  <2>1. Names(After) = DOMAIN Open \ old
    <3>1. \A m \in After : \E r \in Now : r.timer # 0 /\ m = Aged(r)
      BY <1>7 DEF Kept
    <3>2. \A r \in Now : r.timer # 0 => Aged(r) \in After
      BY <1>7 DEF Kept
    <3>3. ASSUME NEW m \in After PROVE m.id \in DOMAIN Open \ old
      BY <1>2, <1>4, <1>9, <3>1 DEF Names
    <3>4. ASSUME NEW x \in DOMAIN Open \ old PROVE x \in Names(After)
      <4>1. PICK r \in Now : r.id = x
        BY <1>2 DEF Names
      <4>2. Aged(r) \in After /\ Aged(r).id = x
        BY <1>4, <1>9, <3>2, <4>1
      <4> QED
        BY <4>2 DEF Names
    <3> QED
      BY <3>3, <3>4 DEF Names
  <2>2. ASSUME NEW m \in After PROVE g[m.id] = Seen(m)
    <3>1. PICK r \in Now : r.timer # 0 /\ m = Aged(r)
      BY <1>7 DEF Kept
    <3>2. m.id = r.id /\ m.p = r.p /\ m.timer = r.timer - 1
      BY <1>4, <3>1
    <3>3. m.id \in DOMAIN Open \ old
      BY <2>1 DEF Names
    <3>4. g[m.id] = [Seen(r) EXCEPT !.age = @ + 1]
      BY <1>2, <1>11, <3>2, <3>3
    <3>5. /\ Seen(r) = [bytes |-> ByteSet(r.p), age |-> IP_REASS_MAXAGE - r.timer]
          /\ Seen(m) = [bytes |-> ByteSet(r.p),
                        age |-> IP_REASS_MAXAGE - (r.timer - 1)]
      BY <3>2 DEF Seen
    <3>6. (IP_REASS_MAXAGE - r.timer) + 1 = IP_REASS_MAXAGE - (r.timer - 1)
      BY <1>4, ReassAssumption
    <3> QED
      BY <3>4, <3>5, <3>6
  <2>3. PICK a : a = After
    OBVIOUS
  <2>4. Unique(a) /\ Open' = View(a)
    BY <2>3, AfterIs
  <2>5. g = [id \in Names(a) |-> g[id]] /\ \A m \in a : g[m.id] = Seen(m)
    BY <1>11, <2>1, <2>2, <2>3
  <2>6. g = View(a)
    BY <2>4, <2>5, ViewIs
  <2> QED
    BY <2>4, <2>6
<1>13. Delivered' = {} /\ Ignored' = {} /\ Space' \in Int
  BY <1>6, SpaceIs DEF Delivered, Ignored
<1> QED
  BY <1>8, <1>10, <1>11, <1>12, <1>13 DEF C!Tick

\* The list starts as the collector does.
LEMMA InitRefines == Init => C!Init
<1> SUFFICES ASSUME Init PROVE C!Init
  OBVIOUS
<1>1. /\ reassdatagrams = <<>> /\ ip_reass_pbufcount = 0 /\ out = {}
      /\ refused = {} /\ exceeded = {}
  BY DEF Init
<1>2. Ids = {}
  BY <1>1 DEF Ids
<1>3. Open = [id \in {} |-> {}]
  BY <1>2 DEF Open
<1>4. Space \in Int
  BY <1>1, ReassAssumption DEF Space
<1>5. Delivered = {} /\ Ignored = {}
  BY <1>1 DEF Delivered, Ignored
<1> QED
  BY <1>1, <1>3, <1>4, <1>5 DEF C!Init

\* Every step of reassembly is a step of the collector, or none.
LEMMA NextRefines == IInv /\ IInv' /\ [Next]_vars => [C!Next]_(C!vars)
<1> SUFFICES ASSUME IInv, IInv', [Next]_vars PROVE [C!Next]_(C!vars)
  OBVIOUS
<1>1. CASE Arrive
  <2>1. PICK f : Piece(f) /\ \E p \in FragPbufs \ busy : ip4_reass(f, p)
    BY <1>1, ArriveIs
  <2>2. PICK p \in FragPbufs \ busy : ip4_reass(f, p)
    BY <2>1
  <2>3. C!Next
    BY <2>1, <2>2, ReassRefines
  <2> QED
    BY <2>3
<1>2. CASE ip_reass_tmr
  <2>1. C!Tick
    BY <1>2, TickRefines
  <2> QED
    BY <2>1 DEF C!Next
<1>3. CASE UNCHANGED vars
  <2>1. /\ reassdatagrams' = reassdatagrams /\ out' = out /\ refused' = refused
        /\ ip_reass_pbufcount' = ip_reass_pbufcount /\ exceeded' = exceeded
    BY <1>3 DEF vars
  <2>2. Open' = Open
    BY <2>1 DEF Open, Ids, Of
  <2>3. Space' = Space /\ Delivered' = Delivered /\ Ignored' = Ignored
    BY <2>1 DEF Space, Delivered, Ignored
  <2> QED
    BY <2>1, <2>2, <2>3 DEF C!vars
<1> QED
  BY <1>1, <1>2, <1>3 DEF Next

\* Reassembly does what a collector does: a datagram is delivered as soon as
\* its last byte has come, whole, in order and with the first fragment's
\* header; a fragment is refused only if it brings bytes that are there or for
\* want of space, and only the oldest others are given up for it
\* (ip4_frag.c:127-216, 229-296, 345-694).
THEOREM ImplementsCollector == Spec => CollectorSpec
<1>1. Init => C!Init
  BY InitRefines
<1>2. IInv /\ IInv' /\ [Next]_vars => [C!Next]_(C!vars)
  BY NextRefines
<1> QED
  BY <1>1, <1>2, Invariance, PTL DEF Spec, CollectorSpec, C!Spec

=============================================================================
