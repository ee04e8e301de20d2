----------------------------- MODULE HeapProofs -----------------------------
(***************************************************************************)
(* Proofs about the heap (Heap): for every size of the memory, alignment   *)
(* and struct mem, its list of blocks stays sound, lfree never overlooks a *)
(* free block, and it keeps the promises of module Allocator.              *)
(***************************************************************************)
EXTENDS Heap, WellFoundedInduction, TLAPS

-----------------------------------------------------------------------------
(* The inductive invariant.                                                *)

Structs == [next : 0..MEM_SIZE_ALIGNED, prev : 0..MEM_SIZE_ALIGNED, used : BOOLEAN]
Block(h) == DOMAIN h \ {ram_end}

\* What holds of one block of the list h ...
GoodBlock(h, b) ==
  /\ b % MEM_ALIGNMENT = 0
  /\ h[b].next \in DOMAIN h
  /\ h[b].next - (b + SIZEOF_STRUCT_MEM) >= MIN_SIZE_ALIGNED
  /\ \A c \in DOMAIN h : c <= b \/ c >= h[b].next

\* ... of its way back ...
GoodPrev(h, b) ==
  h[b].prev \in DOMAIN h /\ h[b].prev < b /\ h[h[b].prev].next = b

\* ... and of the list.
List(h) ==
  /\ h \in [DOMAIN h -> Structs]
  /\ DOMAIN h \subseteq 0..ram_end /\ 0 \in DOMAIN h /\ ram_end \in DOMAIN h
  /\ h[0].prev = 0
  /\ h[ram_end] = [next |-> ram_end, prev |-> ram_end, used |-> TRUE]
  /\ \A b \in Block(h) : GoodBlock(h, b)
  /\ \A b \in Block(h) \ {0} : GoodPrev(h, b)

\* No two free blocks in a row.
Plugged(h) == \A b \in Block(h) : h[b].used \/ h[h[b].next].used

\* lf is the lowest free block, or ram_end.
LowestFree(h, lf) ==
  /\ lf \in DOMAIN h
  /\ lf = ram_end \/ ~h[lf].used
  /\ \A b \in Block(h) : ~h[b].used => lf <= b

\* The blocks in use are those that were given out, and large enough.
InUse(h) == {b \in Block(h) : h[b].used}

Held(h, o) ==
  /\ DOMAIN o = {Data(b) : b \in InUse(h)}
  /\ \A b \in InUse(h) :
       /\ o[Data(b)] \in 0..MEM_SIZE_T - 1 /\ ~Impossible(o[Data(b)])
       /\ h[b].next >= Data(b) + Expand(o[Data(b)])

HeapInv == /\ List(heap) /\ Plugged(heap)
           /\ LowestFree(heap, lfree) /\ Held(heap, owned)

-----------------------------------------------------------------------------
(* Arithmetic of the alignment.                                            *)

\* Division with remainder.
LEMMA Division ==
  ASSUME NEW a \in Nat, a > 0, NEW x \in Int
  PROVE  x = a * (x \div a) + (x % a) /\ x % a \in 0..a - 1 /\ x \div a \in Int
  OBVIOUS

\* What is divided without rest is a multiple.
LEMMA Quotient ==
  ASSUME NEW a \in Nat, a > 0, NEW x \in Int, x % a = 0
  PROVE  \E k \in Int : x = a * k
<1>1. PICK k \in Int : k = x \div a
  BY Division
<1>2. x = a * k + 0
  BY <1>1, Division
<1>3. a * k \in Int
  OBVIOUS
<1> QED
  BY <1>2, <1>3

\* Sums of multiples.
LEMMA Multiples ==
  ASSUME NEW a \in Nat, a > 0, NEW x \in Int, NEW y \in Int, x % a = 0, y % a = 0
  PROVE  (x + y) % a = 0 /\ (x - y) % a = 0
<1>1. PICK k \in Int : x = a * k
  BY Quotient
<1>2. PICK m \in Int : y = a * m
  BY Quotient
<1>3. x + y = a * (k + m) /\ x - y = a * (k - m)
  BY <1>1, <1>2
<1>4. \A j \in Int : (a * j) % a = 0
  OBVIOUS
<1> QED
  BY <1>3, <1>4

\* Sums and differences of aligned addresses are aligned.
LEMMA AlignedSum ==
  ASSUME NEW x \in Nat, NEW y \in Nat, NEW z \in Int, z = x + y \/ z = x - y,
         x % MEM_ALIGNMENT = 0, y % MEM_ALIGNMENT = 0
  PROVE  z % MEM_ALIGNMENT = 0
<1>1. PICK a \in Nat : a = MEM_ALIGNMENT /\ a > 0
  BY HeapAssumption
<1>2. x \in Int /\ y \in Int /\ x % a = 0 /\ y % a = 0
  BY <1>1
<1>3. (x + y) % a = 0 /\ (x - y) % a = 0
  BY <1>1, <1>2, Multiples
<1> QED
  BY <1>1, <1>3

\* The least multiple that is not below a number.
Aligned(n) == ((n + MEM_ALIGNMENT - 1) \div MEM_ALIGNMENT) * MEM_ALIGNMENT

\* LWIP_MEM_ALIGN_SIZE is the least aligned size that is large enough.
LEMMA AlignedIs ==
  ASSUME NEW n \in Nat
  PROVE  /\ Aligned(n) \in Nat /\ Aligned(n) % MEM_ALIGNMENT = 0
         /\ n <= Aligned(n) /\ Aligned(n) < n + MEM_ALIGNMENT
         /\ \A x \in Nat : n <= x /\ x % MEM_ALIGNMENT = 0 => Aligned(n) <= x
<1>1. PICK a \in Nat : a = MEM_ALIGNMENT /\ a > 0
  BY HeapAssumption
<1>2. PICK m \in Int : m = n + a - 1
  OBVIOUS
<1>3. PICK q \in Int : q = m \div a
  BY <1>1, Division
<1>4. m = a * q + (m % a) /\ m % a \in 0..a - 1
  BY <1>1, <1>3, Division
<1>5. PICK z \in Int : z = a * q
  OBVIOUS
<1>6. Aligned(n) = z
  <2>1. q * a = a * q
    OBVIOUS
  <2> QED
    BY <1>1, <1>2, <1>3, <1>5, <2>1 DEF Aligned
<1>7. z % a = 0
  BY <1>1, <1>5
<1>8. n <= z /\ z < n + a
  BY <1>1, <1>2, <1>4, <1>5
<1>9. ASSUME NEW x \in Nat, n <= x, x % a = 0
      PROVE  z <= x
  <2>1. PICK k \in Int : x = a * k
    BY <1>1, <1>9, Quotient
  <2>2. a * q < a * (k + 1)
    <3>1. a * (k + 1) = a * k + a
      OBVIOUS
    <3> QED
      BY <1>5, <1>8, <1>9, <2>1, <3>1
  <2>3. q < k + 1
    BY <1>1, <2>2
  <2>4. a * q <= a * k
    <3>1. q <= k
      BY <2>3
    <3> QED
      BY <1>1, <3>1
  <2> QED
    BY <1>5, <2>1, <2>4
<1> QED
  BY <1>1, <1>6, <1>7, <1>8, <1>9

\* The constants.
LEMMA Sizings ==
  /\ MEM_ALIGNMENT \in Nat /\ MEM_ALIGNMENT > 0
  /\ MEM_SIZE_ALIGNED \in Nat /\ SIZEOF_STRUCT_MEM \in Nat
  /\ MIN_SIZE_ALIGNED \in Nat /\ MEM_SIZE_T \in Nat
  /\ MEM_SIZE_ALIGNED % MEM_ALIGNMENT = 0 /\ SIZEOF_STRUCT_MEM % MEM_ALIGNMENT = 0
  /\ MIN_SIZE_ALIGNED % MEM_ALIGNMENT = 0 /\ MEM_SIZE_T % MEM_ALIGNMENT = 0
  /\ MIN_SIZE_ALIGNED > 0 /\ SIZEOF_STRUCT_MEM > 0
  /\ SIZEOF_STRUCT_MEM >= MEM_ALIGNMENT
  /\ SIZEOF_STRUCT_MEM + MIN_SIZE_ALIGNED <= MEM_SIZE_ALIGNED
  /\ MEM_SIZE_ALIGNED + SIZEOF_STRUCT_MEM < MEM_SIZE_T
  /\ ram_end = MEM_SIZE_ALIGNED
<1>1. MEM_ALIGNMENT \in Nat /\ MEM_ALIGNMENT > 0
  BY HeapAssumption
<1>2. /\ MEM_SIZE_ALIGNED \in Nat \ {0} /\ SIZEOF_STRUCT_MEM \in Nat \ {0}
      /\ MIN_SIZE_ALIGNED \in Nat \ {0} /\ MEM_SIZE_T \in Nat \ {0}
      /\ MEM_SIZE_ALIGNED % MEM_ALIGNMENT = 0
      /\ SIZEOF_STRUCT_MEM % MEM_ALIGNMENT = 0
      /\ MIN_SIZE_ALIGNED % MEM_ALIGNMENT = 0 /\ MEM_SIZE_T % MEM_ALIGNMENT = 0
  BY HeapAssumption, Zenon
<1>3. /\ MEM_SIZE_ALIGNED \in Nat /\ SIZEOF_STRUCT_MEM \in Nat
      /\ MIN_SIZE_ALIGNED \in Nat /\ MEM_SIZE_T \in Nat
      /\ MIN_SIZE_ALIGNED > 0 /\ SIZEOF_STRUCT_MEM > 0
  BY <1>2
<1>4. /\ SIZEOF_STRUCT_MEM + MIN_SIZE_ALIGNED <= MEM_SIZE_ALIGNED
      /\ MEM_SIZE_ALIGNED + SIZEOF_STRUCT_MEM < MEM_SIZE_T
  BY HeapAssumption, Zenon
<1>5. SIZEOF_STRUCT_MEM >= MEM_ALIGNMENT
  <2>1. \A a, x \in Nat : a > 0 /\ x > 0 /\ x % a = 0 => x >= a
    OBVIOUS
  <2> QED
    BY <1>1, <1>2, <1>3, <2>1
<1> QED
  BY <1>1, <1>2, <1>3, <1>4, <1>5 DEF ram_end

\* The bytes from the data of one aligned offset to another one.
LEMMA RoomAligned ==
  ASSUME NEW b \in Nat, NEW e \in Nat, b % MEM_ALIGNMENT = 0, e % MEM_ALIGNMENT = 0
  PROVE  (e - (b + SIZEOF_STRUCT_MEM)) % MEM_ALIGNMENT = 0
<1>1. PICK a \in Nat : a = MEM_ALIGNMENT /\ a > 0
  BY Sizings
<1>2. PICK y \in Int : y = SIZEOF_STRUCT_MEM /\ y % a = 0
  BY <1>1, Sizings
<1>3. PICK x \in Int : x = b + y
  BY <1>2
<1>4. b \in Int /\ e \in Int /\ b % a = 0 /\ e % a = 0
  BY <1>1
<1>5. x % a = 0
  BY <1>1, <1>2, <1>3, <1>4, Multiples, Zenon
<1>6. (e - x) % a = 0
  BY <1>1, <1>4, <1>5, Multiples, Zenon
<1> QED
  BY <1>1, <1>2, <1>3, <1>6, Zenon


\* The size of a block for n bytes.
LEMMA ExpandIs ==
  ASSUME NEW n \in 0..MEM_SIZE_T - 1
  PROVE  /\ Expand(n) \in Nat /\ Expand(n) % MEM_ALIGNMENT = 0
         /\ MIN_SIZE_ALIGNED <= Expand(n)
         /\ \A x \in Nat : n <= x /\ MIN_SIZE_ALIGNED <= x /\ x % MEM_ALIGNMENT = 0
                             => Expand(n) <= x
         /\ ~Impossible(n) => n <= Expand(n) /\ Expand(n) <= MEM_SIZE_ALIGNED
         /\ n + SIZEOF_STRUCT_MEM <= MEM_SIZE_ALIGNED => ~Impossible(n)
         /\ n <= Expand(n) <=> Aligned(n) < MEM_SIZE_T
<1> DEFINE z == Aligned(n)
<1>1. /\ MEM_ALIGNMENT \in Nat /\ MEM_ALIGNMENT > 0
      /\ MEM_SIZE_ALIGNED \in Nat /\ SIZEOF_STRUCT_MEM \in Nat
      /\ MIN_SIZE_ALIGNED \in Nat /\ MEM_SIZE_T \in Nat
      /\ SIZEOF_STRUCT_MEM >= MEM_ALIGNMENT
      /\ SIZEOF_STRUCT_MEM + MIN_SIZE_ALIGNED <= MEM_SIZE_ALIGNED
      /\ MEM_SIZE_ALIGNED + SIZEOF_STRUCT_MEM < MEM_SIZE_T
      /\ n \in Nat /\ n < MEM_SIZE_T
  BY Sizings
<1>2. /\ z \in Nat /\ z % MEM_ALIGNMENT = 0 /\ n <= z /\ z < n + MEM_ALIGNMENT
      /\ \A x \in Nat : n <= x /\ x % MEM_ALIGNMENT = 0 => z <= x
  BY <1>1, AlignedIs
<1>3. z <= MEM_SIZE_T
  BY <1>1, <1>2, Sizings
<1>4. /\ MEM_SIZE_T % MEM_SIZE_T = 0
      /\ z < MEM_SIZE_T => z % MEM_SIZE_T = z
  BY <1>1, <1>2
<1>5. Expand(n) = LET size == z % MEM_SIZE_T
                  IN  IF size < MIN_SIZE_ALIGNED THEN MIN_SIZE_ALIGNED ELSE size
  BY DEF Expand, Aligned
<1> HIDE DEF z
<1>6. CASE z = MEM_SIZE_T
  <2>1. Expand(n) = MIN_SIZE_ALIGNED
    <3>1. z % MEM_SIZE_T = 0
      BY <1>4, <1>6
    <3> QED
      BY <1>1, <1>5, <3>1
  <2>2. MIN_SIZE_ALIGNED < n
    BY <1>1, <1>2, <1>6
  <2>3. Impossible(n)
    BY <1>1, <2>1, <2>2 DEF Impossible
  <2>4. ~(n + SIZEOF_STRUCT_MEM <= MEM_SIZE_ALIGNED)
    BY <1>1, <1>2, <1>6
  <2> QED
    BY <1>1, <1>6, <2>1, <2>2, <2>3, <2>4, Sizings DEF z
<1>7. CASE z < MEM_SIZE_T
  <2>1. Expand(n) = IF z < MIN_SIZE_ALIGNED THEN MIN_SIZE_ALIGNED ELSE z
    BY <1>4, <1>5, <1>7
  <2>2. Expand(n) \in Nat /\ MIN_SIZE_ALIGNED <= Expand(n) /\ n <= Expand(n)
    BY <1>1, <1>2, <2>1
  <2>3. Expand(n) % MEM_ALIGNMENT = 0
    BY <1>2, <2>1, Sizings
  <2>4. \A x \in Nat : n <= x /\ MIN_SIZE_ALIGNED <= x /\ x % MEM_ALIGNMENT = 0
                         => Expand(n) <= x
    BY <1>2, <2>1
  <2>5. ~Impossible(n) => Expand(n) <= MEM_SIZE_ALIGNED
    BY <1>1, <2>2 DEF Impossible
  <2>6. n + SIZEOF_STRUCT_MEM <= MEM_SIZE_ALIGNED => ~Impossible(n)
    <3> SUFFICES ASSUME n + SIZEOF_STRUCT_MEM <= MEM_SIZE_ALIGNED
                 PROVE  ~Impossible(n)
      OBVIOUS
    <3>1. Expand(n) <= MEM_SIZE_ALIGNED
      <4>1. MEM_SIZE_ALIGNED % MEM_ALIGNMENT = 0
        BY Sizings
      <4>2. n <= MEM_SIZE_ALIGNED /\ MIN_SIZE_ALIGNED <= MEM_SIZE_ALIGNED
        BY <1>1
      <4> QED
        BY <1>1, <2>4, <4>1, <4>2
    <3> QED
      BY <1>1, <2>2, <3>1 DEF Impossible
  <2> QED
    BY <1>7, <2>2, <2>3, <2>4, <2>5, <2>6 DEF z
<1> QED
  BY <1>1, <1>2, <1>3, <1>6, <1>7

\* Less is not more.
LEMMA ExpandLess ==
  ASSUME NEW n \in 0..MEM_SIZE_T - 1, ~Impossible(n), NEW m \in 0..n
  PROVE  ~Impossible(m) /\ Expand(m) <= Expand(n) /\ m <= Expand(m)
<1>1. MEM_SIZE_T \in Nat /\ MEM_SIZE_ALIGNED \in Nat
  BY Sizings
<1>2. m \in 0..MEM_SIZE_T - 1 /\ m <= n
  BY <1>1
<1>3. /\ Expand(n) \in Nat /\ Expand(n) % MEM_ALIGNMENT = 0
      /\ n <= Expand(n) /\ Expand(n) <= MEM_SIZE_ALIGNED
      /\ MIN_SIZE_ALIGNED <= Expand(n)
  BY ExpandIs
<1>4. Expand(m) <= Expand(n) /\ Expand(m) \in Nat
  <2>1. /\ Expand(m) \in Nat
        /\ \A x \in Nat : m <= x /\ MIN_SIZE_ALIGNED <= x /\ x % MEM_ALIGNMENT = 0
                            => Expand(m) <= x
    BY <1>2, ExpandIs
  <2> QED
    BY <1>2, <1>3, <2>1
<1>5. m <= Expand(m)
  <2>1. Aligned(n) < MEM_SIZE_T
    BY <1>3, ExpandIs
  <2>2. /\ Aligned(n) \in Nat /\ Aligned(n) % MEM_ALIGNMENT = 0 /\ n <= Aligned(n)
    BY <1>1, AlignedIs
  <2>3. Aligned(m) \in Nat /\ Aligned(m) <= Aligned(n)
    <3>1. m \in Nat /\ m <= Aligned(n)
      BY <1>2, <2>2
    <3> QED
      BY <2>2, <3>1, AlignedIs
  <2>4. Aligned(m) < MEM_SIZE_T
    BY <1>1, <2>1, <2>2, <2>3
  <2> QED
    BY <1>2, <2>4, ExpandIs
<1> QED
  BY <1>1, <1>4, <1>5, <1>3 DEF Impossible

-----------------------------------------------------------------------------
(* Lists of blocks.                                                        *)

\* The fields of a block and of its neighbours.
LEMMA ListHas ==
  ASSUME NEW h, List(h)
  PROVE  /\ \A b \in DOMAIN h :
              /\ b \in Nat /\ b <= ram_end /\ b \in 0..ram_end /\ h[b] \in Structs
              /\ h[b].next \in Nat /\ h[b].prev \in Nat /\ h[b].used \in BOOLEAN
         /\ \A b \in Block(h) :
              /\ b \in DOMAIN h /\ b < ram_end /\ b % MEM_ALIGNMENT = 0
              /\ h[b].next \in DOMAIN h /\ h[b].next <= ram_end
              /\ b + SIZEOF_STRUCT_MEM + MIN_SIZE_ALIGNED <= h[b].next
              /\ b < h[b].next
              /\ h[b].next % MEM_ALIGNMENT = 0
              /\ \A c \in DOMAIN h : c <= b \/ c >= h[b].next
              /\ h[b].prev \in Block(h)
              /\ b # 0 => h[b].prev < b /\ h[h[b].prev].next = b
              /\ h[b].next # ram_end => h[b].next \in Block(h)
         /\ h[ram_end].used = TRUE /\ ram_end \in Nat /\ ram_end # 0
         /\ 0 \in Block(h) /\ h[0].prev = 0
<1>1. /\ MEM_SIZE_ALIGNED \in Nat /\ SIZEOF_STRUCT_MEM \in Nat
      /\ MIN_SIZE_ALIGNED \in Nat /\ MIN_SIZE_ALIGNED > 0
      /\ SIZEOF_STRUCT_MEM + MIN_SIZE_ALIGNED <= MEM_SIZE_ALIGNED
      /\ MEM_SIZE_ALIGNED % MEM_ALIGNMENT = 0 /\ ram_end = MEM_SIZE_ALIGNED
  BY Sizings
<1>2. /\ h \in [DOMAIN h -> Structs] /\ DOMAIN h \subseteq 0..ram_end
      /\ 0 \in DOMAIN h /\ ram_end \in DOMAIN h /\ h[0].prev = 0
      /\ h[ram_end] = [next |-> ram_end, prev |-> ram_end, used |-> TRUE]
      /\ \A b \in Block(h) : GoodBlock(h, b)
      /\ \A b \in Block(h) \ {0} : GoodPrev(h, b)
  BY DEF List
<1>3. \A b \in DOMAIN h :
        /\ b \in Nat /\ b <= ram_end /\ b \in 0..ram_end /\ h[b] \in Structs
        /\ h[b].next \in Nat /\ h[b].prev \in Nat /\ h[b].used \in BOOLEAN
  BY <1>1, <1>2 DEF Structs
<1>4. h[ram_end].used = TRUE /\ ram_end \in Nat /\ ram_end # 0
  BY <1>1, <1>2
<1>5. 0 \in Block(h)
  BY <1>2, <1>4 DEF Block
<1>6. ASSUME NEW b \in Block(h)
      PROVE  /\ b \in DOMAIN h /\ b < ram_end /\ b % MEM_ALIGNMENT = 0
             /\ h[b].next \in DOMAIN h /\ h[b].next <= ram_end
             /\ b + SIZEOF_STRUCT_MEM + MIN_SIZE_ALIGNED <= h[b].next
             /\ b < h[b].next
             /\ h[b].next % MEM_ALIGNMENT = 0
             /\ \A c \in DOMAIN h : c <= b \/ c >= h[b].next
             /\ h[b].prev \in Block(h)
             /\ b # 0 => h[b].prev < b /\ h[h[b].prev].next = b
             /\ h[b].next # ram_end => h[b].next \in Block(h)
  <2>1. b \in DOMAIN h /\ b # ram_end
    BY DEF Block
  <2>2. b \in Nat /\ b < ram_end
    BY <1>3, <1>4, <2>1
  <2>3. /\ b % MEM_ALIGNMENT = 0 /\ h[b].next \in DOMAIN h
        /\ h[b].next - (b + SIZEOF_STRUCT_MEM) >= MIN_SIZE_ALIGNED
        /\ \A c \in DOMAIN h : c <= b \/ c >= h[b].next
    BY <1>2 DEF GoodBlock
  <2>4. h[b].next \in Nat /\ h[b].next <= ram_end
    BY <1>3, <2>3
  <2>5. b + SIZEOF_STRUCT_MEM + MIN_SIZE_ALIGNED <= h[b].next /\ b < h[b].next
    BY <1>1, <2>2, <2>3, <2>4
  <2>6. h[b].next # ram_end => h[b].next \in Block(h)
    BY <2>3 DEF Block
  <2>7. h[b].next % MEM_ALIGNMENT = 0
    <3>1. CASE h[b].next = ram_end
      BY <1>1, <3>1
    <3>2. CASE h[b].next # ram_end
      BY <1>2, <2>6, <3>2 DEF GoodBlock
    <3> QED
      BY <3>1, <3>2
  <2>8. b # 0 => h[b].prev \in DOMAIN h /\ h[b].prev < b /\ h[h[b].prev].next = b
    BY <1>2 DEF GoodPrev
  <2>9. h[b].prev \in Block(h)
    <3>1. CASE b = 0
      BY <1>2, <1>5, <3>1
    <3>2. CASE b # 0
      BY <1>3, <1>4, <2>2, <2>8, <3>2 DEF Block
    <3> QED
      BY <3>1, <3>2
  <2> QED
    BY <2>1, <2>2, <2>3, <2>4, <2>5, <2>6, <2>7, <2>8, <2>9
<1> QED
  BY <1>2, <1>3, <1>4, <1>5, <1>6

\* The next block leads back.
LEMMA NextPrev ==
  ASSUME NEW h, List(h), NEW b \in Block(h), h[b].next # ram_end
  PROVE  h[h[b].next].prev = b
<1> DEFINE n == h[b].next
           p == h[n].prev
<1>1. /\ n \in Block(h) /\ b < n /\ b \in DOMAIN h
      /\ \A c \in DOMAIN h : c <= b \/ c >= n
  BY ListHas
<1>2. b \in Nat /\ n \in Nat /\ n # 0
  <2>1. b \in DOMAIN h /\ n \in DOMAIN h
    BY <1>1 DEF Block
  <2>2. b \in Nat /\ n \in Nat
    <3> HIDE DEF n
    <3> QED
      BY <2>1, ListHas
  <2> QED
    BY <1>1, <2>2
<1>3. /\ p \in Block(h) /\ p < n /\ h[p].next = n
      /\ \A c \in DOMAIN h : c <= p \/ c >= h[p].next
  <2>1. p \in Block(h) /\ p < n /\ h[p].next = n
    BY <1>1, <1>2, ListHas
  <2> HIDE DEF p
  <2> QED
    BY <2>1, ListHas
<1>4. p \in Nat /\ p \in DOMAIN h
  BY <1>3, ListHas
<1> HIDE DEF n, p
<1>5. p <= b /\ b <= p
  BY <1>1, <1>2, <1>3, <1>4
<1> QED
  BY <1>2, <1>4, <1>5 DEF n, p

\* What the lists say that the code checks.
LEMMA ListLinked ==
  ASSUME List(heap), Plugged(heap), LowestFree(heap, lfree)
  PROVE  Linked /\ LfreeLowest
<1>1. ASSUME NEW b \in Blocks \ {ram_end}
      PROVE  /\ heap[b].next > b
             /\ \A c \in Blocks : c <= b \/ c >= heap[b].next
             /\ heap[b].next # ram_end => heap[heap[b].next].prev = b
             /\ Used(b) \/ Used(heap[b].next)
             /\ b % MEM_ALIGNMENT = 0
             /\ DataSize(b) >= MIN_SIZE_ALIGNED
  <2>1. b \in Block(heap)
    BY DEF Block, Blocks
  <2>2. /\ b < heap[b].next /\ b % MEM_ALIGNMENT = 0
        /\ b + SIZEOF_STRUCT_MEM + MIN_SIZE_ALIGNED <= heap[b].next
        /\ \A c \in Blocks : c <= b \/ c >= heap[b].next
        /\ heap[b].next \in Nat /\ b \in Nat
    BY <2>1, ListHas DEF Blocks
  <2>3. DataSize(b) >= MIN_SIZE_ALIGNED
    BY <2>2, Sizings DEF DataSize
  <2>4. Used(b) \/ Used(heap[b].next)
    BY <2>1 DEF Plugged, Used
  <2> QED
    BY <2>1, <2>2, <2>3, <2>4, NextPrev
<1>2. /\ heap[0].prev = 0
      /\ heap[ram_end] = [next |-> ram_end, prev |-> ram_end, used |-> TRUE]
  BY DEF List
<1>3. Linked
  BY <1>1, <1>2 DEF Linked
<1>4. LfreeLowest
  <2>1. \A b \in Blocks : ~Used(b) => b \in Block(heap)
    BY ListHas DEF Blocks, Block, Used
  <2> QED
    BY <2>1 DEF LowestFree, LfreeLowest, Used
<1> QED
  BY <1>3, <1>4

-----------------------------------------------------------------------------
(* What the operators on lists return.                                     *)

\* A block is marked used or free.
Marks(g, h, a, u) ==
  /\ List(g) /\ DOMAIN g = DOMAIN h /\ Block(g) = Block(h)
  /\ \A c \in DOMAIN h : /\ g[c].next = h[c].next /\ g[c].prev = h[c].prev
                         /\ g[c].used = IF c = a THEN u ELSE h[c].used

\* Marking a block as used or free changes nothing else.
LEMMA Marked ==
  ASSUME NEW h, List(h), NEW a \in Block(h), NEW u \in BOOLEAN,
         NEW g, g = MarkUsed(h, a, u)
  PROVE  Marks(g, h, a, u)
<1>1. a \in DOMAIN h /\ a # ram_end
  BY DEF Block
<1>2. /\ g = [h EXCEPT ![a].used = u] /\ h \in [DOMAIN h -> Structs]
  BY DEF MarkUsed, List
<1>3. /\ DOMAIN g = DOMAIN h
      /\ \A c \in DOMAIN h : c # a => g[c] = h[c]
      /\ g[a] = [h[a] EXCEPT !.used = u]
  BY <1>1, <1>2
<1>4. h[a] \in Structs
  BY <1>1, <1>2
<1>5. /\ g[a] \in Structs /\ g[a].next = h[a].next /\ g[a].prev = h[a].prev
      /\ g[a].used = u
  BY <1>3, <1>4 DEF Structs
<1>6. \A c \in DOMAIN h : /\ g[c].next = h[c].next /\ g[c].prev = h[c].prev
                          /\ g[c].used = IF c = a THEN u ELSE h[c].used
                          /\ g[c] \in Structs
  BY <1>2, <1>3, <1>5
<1>7. Block(g) = Block(h)
  BY <1>3 DEF Block
<1>8. List(g)
  <2>1. g \in [DOMAIN g -> Structs]
    <3>1. g = [c \in DOMAIN h |-> g[c]]
      BY <1>2
    <3> QED
      BY <1>3, <1>6, <3>1
  <2>2. /\ DOMAIN g \subseteq 0..ram_end /\ 0 \in DOMAIN g /\ ram_end \in DOMAIN g
        /\ g[0].prev = 0
        /\ g[ram_end] = [next |-> ram_end, prev |-> ram_end, used |-> TRUE]
    BY <1>1, <1>3, <1>6 DEF List
  <2>3. ASSUME NEW b \in Block(h) PROVE GoodBlock(g, b)
    <3>1. GoodBlock(h, b) /\ b \in DOMAIN h
      BY DEF List, Block
    <3> QED
      BY <1>3, <1>6, <3>1 DEF GoodBlock
  <2>4. ASSUME NEW b \in Block(h) \ {0} PROVE GoodPrev(g, b)
    <3>1. GoodPrev(h, b) /\ b \in DOMAIN h
      BY DEF List, Block
    <3> QED
      BY <1>3, <1>6, <3>1 DEF GoodPrev
  <2> QED
    BY <1>7, <2>1, <2>2, <2>3, <2>4 DEF List
<1> QED
  BY <1>3, <1>6, <1>7, <1>8 DEF Marks

\* Two blocks are linked.
LinkIs(g, D, h, a, b) ==
  /\ g \in [D -> Structs]
  /\ \A c \in D :
       /\ g[c].next = IF c = a THEN b ELSE h[c].next
       /\ g[c].prev = IF c = b /\ b # ram_end THEN a ELSE h[c].prev
       /\ g[c].used = h[c].used

\* The fields of two blocks once they are linked.
LEMMA Linking ==
  ASSUME NEW h, NEW D, h \in [D -> Structs],
         NEW a \in D, NEW b \in D, a # b, a \in 0..ram_end, b \in 0..ram_end,
         NEW g, g = Link(h, a, b)
  PROVE  LinkIs(g, D, h, a, b)
<1>1. ram_end = MEM_SIZE_ALIGNED
  BY DEF ram_end
<1>2. ASSUME NEW c \in D
      PROVE  /\ g[c] \in Structs
             /\ g[c].next = IF c = a THEN b ELSE h[c].next
             /\ g[c].prev = IF c = b /\ b # ram_end THEN a ELSE h[c].prev
             /\ g[c].used = h[c].used
  <2>1. h[c] \in Structs
    OBVIOUS
  <2>2. g[c] = IF c = a THEN [h[c] EXCEPT !.next = b]
               ELSE IF c = b /\ b # ram_end THEN [h[c] EXCEPT !.prev = a]
               ELSE h[c]
    BY DEF Link
  <2>3. CASE c = a
    BY <1>1, <2>1, <2>2, <2>3 DEF Structs
  <2>4. CASE c # a /\ c = b /\ b # ram_end
    <3>1. g[c] = [h[c] EXCEPT !.prev = a]
      BY <2>2, <2>4
    <3> QED
      BY <1>1, <2>1, <2>4, <3>1 DEF Structs
  <2>5. CASE c # a /\ ~(c = b /\ b # ram_end)
    BY <2>1, <2>2, <2>5
  <2> QED
    BY <2>3, <2>4, <2>5
<1>3. g \in [D -> Structs]
  <2>1. g = [c \in D |-> g[c]]
    BY DEF Link
  <2> QED
    BY <1>2, <2>1
<1> QED
  BY <1>2, <1>3 DEF LinkIs

\* A free block begins at b, inside a.
SplitIs(g, h, a, b) ==
  /\ b \notin DOMAIN h /\ b < ram_end
  /\ g \in [DOMAIN h \union {b} -> Structs]
  /\ \A c \in DOMAIN h :
       /\ g[c].next = IF c = a THEN b ELSE h[c].next
       /\ g[c].prev = IF c = h[a].next /\ c # ram_end THEN b ELSE h[c].prev
       /\ g[c].used = h[c].used
  /\ g[b].next = h[a].next /\ g[b].prev = a /\ g[b].used = FALSE

\* The fields of the blocks once mem_malloc has split one.
LEMMA SplitFields ==
  ASSUME NEW h, List(h), NEW a \in Block(h), NEW b \in Nat, a < b, b < h[a].next,
         NEW g, g = Split(h, a, b)
  PROVE  SplitIs(g, h, a, b)
<1>1. /\ h \in [DOMAIN h -> Structs] /\ ram_end \in Nat
      /\ a \in DOMAIN h /\ a \in Nat /\ a \in 0..ram_end
      /\ h[a].next \in DOMAIN h /\ h[a].next <= ram_end /\ h[a].next \in 0..ram_end
      /\ \A c \in DOMAIN h : c <= a \/ c >= h[a].next
      /\ ram_end = MEM_SIZE_ALIGNED
  <2>1. /\ a \in DOMAIN h /\ h[a].next \in DOMAIN h /\ h[a].next <= ram_end
        /\ \A c \in DOMAIN h : c <= a \/ c >= h[a].next
    BY ListHas
  <2>2. a \in Nat /\ a \in 0..ram_end
    BY <2>1, ListHas
  <2>3. PICK n : n = h[a].next
    OBVIOUS
  <2>4. n \in 0..ram_end
    BY <2>1, <2>3, ListHas
  <2> QED
    BY <2>1, <2>2, <2>3, <2>4, ListHas DEF List, ram_end
<1>2. PICK n \in DOMAIN h : n = h[a].next
  BY <1>1
<1>3. /\ b \notin DOMAIN h /\ b < ram_end /\ b \in 0..ram_end
      /\ b # a /\ b # n /\ a # n /\ n \in Nat
  BY <1>1, <1>2
<1> DEFINE D == DOMAIN h \union {b}
           free == [next |-> b, prev |-> b, used |-> FALSE]
           h2 == [c \in D |-> IF c = b THEN free ELSE h[c]]
           k == Link(h2, b, n)
<1>4. /\ h2 \in [D -> Structs]
      /\ h2[b].next = b /\ h2[b].prev = b /\ h2[b].used = FALSE
      /\ \A c \in DOMAIN h : h2[c] = h[c]
  <2>1. free \in Structs
    BY <1>1, <1>3 DEF Structs
  <2> QED
    BY <1>1, <1>3, <2>1
<1>5. PICK h3 : h3 = k
  OBVIOUS
<1>6. g = Link(h3, a, b) /\ h3 = Link(h2, b, n)
  BY <1>2, <1>5 DEF Split
<1> HIDE DEF h2, k
<1>7. LinkIs(h3, D, h2, b, n)
  <2>1. b \in D /\ n \in D /\ b # n /\ b \in 0..ram_end /\ n \in 0..ram_end
    BY <1>1, <1>2, <1>3
  <2> HIDE DEF D
  <2> QED
    BY <1>4, <1>6, <2>1, Linking
<1>8. LinkIs(g, D, h3, a, b)
  <2>1. b \in D /\ a \in D /\ a # b /\ b \in 0..ram_end /\ a \in 0..ram_end
    BY <1>1, <1>3
  <2>2. h3 \in [D -> Structs]
    BY <1>7 DEF LinkIs
  <2> HIDE DEF D
  <2> QED
    BY <1>6, <2>1, <2>2, Linking
<1>9. /\ g[b].next = n /\ g[b].prev = a /\ g[b].used = FALSE
  BY <1>1, <1>3, <1>4, <1>7, <1>8 DEF LinkIs
<1>10. ASSUME NEW c \in DOMAIN h
      PROVE  /\ g[c].next = IF c = a THEN b ELSE h[c].next
             /\ g[c].prev = IF c = n /\ c # ram_end THEN b ELSE h[c].prev
             /\ g[c].used = h[c].used
  <2>1. c \in D /\ c # b
    BY <1>3
  <2> QED
    BY <1>4, <1>7, <1>8, <2>1 DEF LinkIs
<1>11. g \in [D -> Structs]
  BY <1>8 DEF LinkIs
<1> QED
  BY <1>2, <1>3, <1>9, <1>10, <1>11 DEF SplitIs

Splits(g, h, a, b) ==
  /\ List(g) /\ b \notin DOMAIN h /\ b \in Block(g)
  /\ DOMAIN g = DOMAIN h \union {b} /\ Block(g) = Block(h) \union {b}
  /\ \A c \in DOMAIN h : /\ g[c].next = IF c = a THEN b ELSE h[c].next
                         /\ g[c].used = h[c].used
  /\ g[b].next = h[a].next /\ g[b].used = FALSE

\* A block that is split leaves a well-formed list, with one more block.
LEMMA SplitList ==
  ASSUME NEW h, List(h), NEW a \in Block(h), NEW b \in Nat, b % MEM_ALIGNMENT = 0,
         a + SIZEOF_STRUCT_MEM + MIN_SIZE_ALIGNED <= b,
         b + SIZEOF_STRUCT_MEM + MIN_SIZE_ALIGNED <= h[a].next,
         NEW g, g = Split(h, a, b)
  PROVE  Splits(g, h, a, b)
<1> DEFINE n == h[a].next
<1>1. /\ ram_end \in Nat /\ SIZEOF_STRUCT_MEM \in Nat /\ MIN_SIZE_ALIGNED \in Nat
      /\ MIN_SIZE_ALIGNED > 0
  BY Sizings
<1>2. /\ a \in DOMAIN h /\ n \in DOMAIN h /\ a < ram_end /\ n <= ram_end /\ a < n
      /\ n # ram_end => n \in Block(h)
      /\ \A c \in DOMAIN h : c <= a \/ c >= n
  BY ListHas
<1>3. a \in Nat /\ n \in Nat
  BY <1>2, ListHas
<1>4. a < b /\ b < n
  BY <1>1, <1>3
<1>5. /\ b \notin DOMAIN h /\ b < ram_end
      /\ g \in [DOMAIN h \union {b} -> Structs]
      /\ \A c \in DOMAIN h :
           /\ g[c].next = IF c = a THEN b ELSE h[c].next
           /\ g[c].prev = IF c = n /\ c # ram_end THEN b ELSE h[c].prev
           /\ g[c].used = h[c].used
      /\ g[b].next = n /\ g[b].prev = a /\ g[b].used = FALSE
  <2>1. b < h[a].next
    BY <1>4
  <2>2. SplitIs(g, h, a, b)
    <3> HIDE DEF n
    <3> QED
      BY <1>4, <2>1, SplitFields
  <2> QED
    BY <2>2 DEF SplitIs
<1> HIDE DEF n
<1>6. /\ DOMAIN g = DOMAIN h \union {b} /\ Block(g) = Block(h) \union {b}
      /\ b \in Block(g)
  BY <1>1, <1>5 DEF Block
<1>7. /\ DOMAIN h \subseteq 0..ram_end /\ 0 \in DOMAIN h /\ ram_end \in DOMAIN h
      /\ h[0].prev = 0
      /\ h[ram_end] = [next |-> ram_end, prev |-> ram_end, used |-> TRUE]
      /\ \A c \in Block(h) : GoodBlock(h, c)
      /\ \A c \in Block(h) \ {0} : GoodPrev(h, c)
  BY DEF List
<1>8. /\ DOMAIN g \subseteq 0..ram_end /\ 0 \in DOMAIN g /\ ram_end \in DOMAIN g
      /\ g \in [DOMAIN g -> Structs]
  BY <1>1, <1>5, <1>6, <1>7
<1>9. g[0].prev = 0
  BY <1>2, <1>3, <1>5, <1>7
<1>10. g[ram_end] = [next |-> ram_end, prev |-> ram_end, used |-> TRUE]
  <2>1. /\ g[ram_end].next = ram_end /\ g[ram_end].prev = ram_end
        /\ g[ram_end].used = TRUE
    BY <1>1, <1>2, <1>3, <1>5, <1>7
  <2>2. g[ram_end] \in Structs
    BY <1>8
  <2> QED
    BY <2>1, <2>2 DEF Structs
<1>11. ASSUME NEW c \in Block(g) PROVE GoodBlock(g, c)
  <2>1. CASE c = b
    <3>1. g[b].next - (b + SIZEOF_STRUCT_MEM) >= MIN_SIZE_ALIGNED
      BY <1>1, <1>3, <1>5 DEF n
    <3>2. \A d \in DOMAIN g : d <= b \/ d >= g[b].next
      BY <1>1, <1>2, <1>3, <1>4, <1>5, <1>6, <1>8
    <3> QED
      BY <1>2, <1>5, <1>6, <2>1, <3>1, <3>2 DEF GoodBlock
  <2>2. CASE c = a
    <3>1. a % MEM_ALIGNMENT = 0
      BY ListHas
    <3>2. g[a].next = b
      BY <1>2, <1>5
    <3>3. b - (a + SIZEOF_STRUCT_MEM) >= MIN_SIZE_ALIGNED
      BY <1>1, <1>3
    <3>4. \A d \in DOMAIN g : d <= a \/ d >= b
      BY <1>2, <1>3, <1>4, <1>6, <1>8, <1>1
    <3> QED
      BY <1>6, <2>2, <3>1, <3>2, <3>3, <3>4 DEF GoodBlock
  <2>3. CASE c # a /\ c # b
    <3>1. c \in Block(h) /\ c \in DOMAIN h
      BY <1>6, <2>3 DEF Block
    <3>2. GoodBlock(h, c) /\ g[c].next = h[c].next
      BY <1>5, <1>7, <2>3, <3>1
    <3>3. b <= c \/ b >= h[c].next
      <4>1. /\ c \in Nat /\ h[c].next \in Nat /\ h[c].next \in DOMAIN h
            /\ c <= a \/ c >= n
            /\ h[c].next <= a \/ h[c].next >= n
            /\ a <= c \/ a >= h[c].next
        BY <1>2, <3>1, ListHas
      <4> QED
        BY <1>3, <1>4, <2>3, <4>1
    <3> QED
      BY <1>6, <3>2, <3>3 DEF GoodBlock
  <2> QED
    BY <2>1, <2>2, <2>3
<1>12. ASSUME NEW c \in Block(g) \ {0} PROVE GoodPrev(g, c)
  <2>1. CASE c = b
    BY <1>2, <1>4, <1>5, <1>6, <2>1 DEF GoodPrev
  <2>2. CASE c # b /\ c = n
    <3>1. c # ram_end /\ c \in DOMAIN h
      BY <1>2, <2>2 DEF Block
    <3>2. g[c].prev = b
      BY <1>5, <2>2, <3>1
    <3> QED
      BY <1>4, <1>5, <1>6, <2>2, <3>2 DEF GoodPrev
  <2>3. CASE c # b /\ c # n
    <3>1. c \in Block(h) \ {0} /\ c \in DOMAIN h
      BY <1>6, <2>3 DEF Block
    <3>2. GoodPrev(h, c) /\ g[c].prev = h[c].prev
      BY <1>5, <1>7, <2>3, <3>1
    <3>3. h[c].prev # a
      BY <2>3, <3>2 DEF GoodPrev, n
    <3> QED
      BY <1>5, <1>6, <3>2, <3>3 DEF GoodPrev
  <2> QED
    BY <2>1, <2>2, <2>3
<1>13. List(g)
  BY <1>8, <1>9, <1>10, <1>11, <1>12 DEF List
<1> QED
  BY <1>5, <1>6, <1>13 DEF n, Splits

\* b, which follows a, becomes part of it.
MergeIs(g, h, a, b) ==
  /\ g \in [DOMAIN h \ {b} -> Structs]
  /\ \A c \in DOMAIN h \ {b} :
       /\ g[c].next = IF c = a THEN h[b].next ELSE h[c].next
       /\ g[c].prev = IF c = h[b].next /\ c # ram_end THEN a ELSE h[c].prev
       /\ g[c].used = h[c].used

\* The fields of the blocks once plug_holes has merged two.
LEMMA MergeFields ==
  ASSUME NEW h, List(h), NEW a \in Block(h), NEW b \in Block(h), b = h[a].next,
         NEW g, g = Merge(h, a, b)
  PROVE  MergeIs(g, h, a, b)
<1>1. PICK n : n = h[b].next
  OBVIOUS
<1>2. /\ a \in DOMAIN h /\ b \in DOMAIN h /\ n \in DOMAIN h
      /\ a < b /\ b < n
  BY <1>1, ListHas
<1>3. a \in 0..ram_end /\ n \in 0..ram_end /\ a \in Nat /\ b \in Nat /\ n \in Nat
  BY <1>2, ListHas
<1>4. h \in [DOMAIN h -> Structs]
  BY DEF List
<1> DEFINE D == DOMAIN h \ {b}
<1>5. PICK h2 : h2 = [c \in D |-> h[c]]
  OBVIOUS
<1>6. h2 \in [D -> Structs] /\ \A c \in D : h2[c] = h[c]
  BY <1>4, <1>5
<1>7. g = Link(h2, a, n)
  BY <1>1, <1>5 DEF Merge
<1>8. LinkIs(g, D, h2, a, n)
  <2>1. a \in D /\ n \in D /\ a # n
    BY <1>2, <1>3
  <2> HIDE DEF D
  <2> QED
    BY <1>3, <1>6, <1>7, <2>1, Linking
<1> QED
  BY <1>1, <1>6, <1>8 DEF LinkIs, MergeIs

Merges(g, h, a, b) ==
  /\ List(g) /\ DOMAIN g = DOMAIN h \ {b} /\ Block(g) = Block(h) \ {b}
  /\ a \in Block(g)
  /\ \A c \in DOMAIN g : /\ g[c].next = IF c = a THEN h[b].next ELSE h[c].next
                         /\ g[c].used = h[c].used

\* Two blocks merged leave a well-formed list, with one block fewer.
LEMMA MergeList ==
  ASSUME NEW h, List(h), NEW a \in Block(h), NEW b \in Block(h), b = h[a].next,
         NEW g, g = Merge(h, a, b)
  PROVE  Merges(g, h, a, b)
<1>1. PICK n : n = h[b].next
  OBVIOUS
<1>2. /\ a \in DOMAIN h /\ b \in DOMAIN h /\ n \in DOMAIN h
      /\ a < ram_end /\ b < ram_end /\ n <= ram_end /\ a < b /\ b < n
      /\ n # ram_end => n \in Block(h)
      /\ \A c \in DOMAIN h : c <= b \/ c >= n
      /\ \A c \in DOMAIN h : c <= a \/ c >= b
      /\ a % MEM_ALIGNMENT = 0
      /\ a + SIZEOF_STRUCT_MEM + MIN_SIZE_ALIGNED <= b
  BY <1>1, ListHas
<1>3. /\ a \in Nat /\ b \in Nat /\ n \in Nat /\ ram_end \in Nat
      /\ SIZEOF_STRUCT_MEM \in Nat /\ MIN_SIZE_ALIGNED \in Nat
  BY <1>2, ListHas, Sizings
<1>4. MergeIs(g, h, a, b)
  BY MergeFields
<1>5. /\ g \in [DOMAIN h \ {b} -> Structs] /\ DOMAIN g = DOMAIN h \ {b}
      /\ \A c \in DOMAIN g :
           /\ g[c].next = IF c = a THEN n ELSE h[c].next
           /\ g[c].prev = IF c = n /\ c # ram_end THEN a ELSE h[c].prev
           /\ g[c].used = h[c].used
  BY <1>1, <1>4 DEF MergeIs
<1>6. Block(g) = Block(h) \ {b} /\ a \in Block(g) /\ a \in DOMAIN g
  BY <1>2, <1>3, <1>5 DEF Block
<1>7. /\ DOMAIN h \subseteq 0..ram_end /\ 0 \in DOMAIN h /\ ram_end \in DOMAIN h
      /\ h[0].prev = 0
      /\ h[ram_end] = [next |-> ram_end, prev |-> ram_end, used |-> TRUE]
      /\ \A c \in Block(h) : GoodBlock(h, c)
      /\ \A c \in Block(h) \ {0} : GoodPrev(h, c)
  BY DEF List
<1>8. /\ DOMAIN g \subseteq 0..ram_end /\ 0 \in DOMAIN g /\ ram_end \in DOMAIN g
      /\ g \in [DOMAIN g -> Structs]
  BY <1>2, <1>3, <1>5, <1>7
<1>9. g[0].prev = 0
  BY <1>2, <1>3, <1>5, <1>7, <1>8
<1>10. g[ram_end] = [next |-> ram_end, prev |-> ram_end, used |-> TRUE]
  <2>1. /\ g[ram_end].next = ram_end /\ g[ram_end].prev = ram_end
        /\ g[ram_end].used = TRUE
    BY <1>2, <1>3, <1>5, <1>7, <1>8
  <2>2. g[ram_end] \in Structs
    BY <1>8
  <2> QED
    BY <2>1, <2>2 DEF Structs
<1>11. ASSUME NEW c \in Block(g) PROVE GoodBlock(g, c)
  <2>1. CASE c = a
    <3>1. g[a].next = n /\ n \in DOMAIN g
      BY <1>2, <1>3, <1>5, <1>6
    <3>2. n - (a + SIZEOF_STRUCT_MEM) >= MIN_SIZE_ALIGNED
      BY <1>2, <1>3
    <3>3. \A d \in DOMAIN g : d <= a \/ d >= n
      BY <1>2, <1>3, <1>5, <1>7
    <3> QED
      BY <1>2, <2>1, <3>1, <3>2, <3>3 DEF GoodBlock
  <2>2. CASE c # a
    <3>1. c \in Block(h) /\ c \in DOMAIN h /\ c # b /\ c \in DOMAIN g
      BY <1>6 DEF Block
    <3>2. GoodBlock(h, c) /\ g[c].next = h[c].next
      BY <1>5, <1>7, <2>2, <3>1
    <3>3. h[c].next # b
      <4>1. /\ c \in Nat /\ h[c].next \in Nat /\ c < h[c].next
            /\ c <= a \/ c >= b
            /\ a <= c \/ a >= h[c].next
        BY <1>2, <3>1, ListHas
      <4> QED
        BY <1>2, <1>3, <2>2, <3>1, <4>1
    <3> QED
      BY <1>5, <3>2, <3>3 DEF GoodBlock
  <2> QED
    BY <2>1, <2>2
<1>12. ASSUME NEW c \in Block(g) \ {0} PROVE GoodPrev(g, c)
  <2>1. c \in Block(h) \ {0} /\ c \in DOMAIN g /\ c # b /\ c # ram_end
    BY <1>6 DEF Block
  <2>2. GoodPrev(h, c)
    BY <1>7, <2>1
  <2>3. CASE c = n
    <3>1. g[c].prev = a /\ g[a].next = n
      BY <1>5, <1>6, <2>1, <2>3
    <3> QED
      BY <1>2, <1>3, <1>6, <2>3, <3>1 DEF GoodPrev
  <2>4. CASE c # n
    <3>1. g[c].prev = h[c].prev
      BY <1>5, <2>1, <2>4
    <3>2. h[c].prev # b /\ h[c].prev # a
      BY <1>1, <2>1, <2>2, <2>4 DEF GoodPrev
    <3> QED
      BY <1>5, <2>2, <3>1, <3>2 DEF GoodPrev
  <2> QED
    BY <2>3, <2>4
<1>13. List(g)
  BY <1>8, <1>9, <1>10, <1>11, <1>12 DEF List
<1> QED
  BY <1>1, <1>5, <1>6, <1>13 DEF Merges

\* Every set of offsets has a lowest one.
LEMMA LowestIs ==
  ASSUME NEW S, S \subseteq Nat, S # {}
  PROVE  Lowest(S) \in S /\ \A c \in S : Lowest(S) <= c
<1>1. PICK b \in S : \A c \in S : ~(<<c, b>> \in OpToRel(<, Nat))
  BY WFMin, NatLessThanWellFounded, Zenon
<1>2. \A c \in S : ~(c < b)
  BY <1>1 DEF OpToRel
<1>3. \A c \in S : b <= c
  BY <1>2
<1> QED
  BY <1>3 DEF Lowest

\* A pointer that was given out, and its block.
LEMMA PointerOf ==
  ASSUME NEW h, NEW o, List(h), Held(h, o), NEW p \in DOMAIN o
  PROVE  /\ Mem(p) \in InUse(h) /\ Mem(p) \in Block(h) /\ Mem(p) \in DOMAIN h
         /\ Mem(p) \in Nat /\ p \in Nat /\ p = Data(Mem(p)) /\ p > Mem(p)
         /\ p = Mem(p) + SIZEOF_STRUCT_MEM
         /\ h[Mem(p)].used /\ o[p] \in 0..MEM_SIZE_T - 1 /\ ~Impossible(o[p])
         /\ h[Mem(p)].next >= p + Expand(o[p])
<1>1. PICK b \in InUse(h) : p = Data(b)
  BY DEF Held
<1>2. b \in Block(h) /\ b \in DOMAIN h /\ h[b].used
  BY DEF InUse, Block
<1>3. b \in Nat /\ SIZEOF_STRUCT_MEM \in Nat /\ SIZEOF_STRUCT_MEM > 0
  <2>1. b \in Nat
    BY <1>2, ListHas
  <2> QED
    BY <2>1, Sizings
<1>4. Mem(p) = b /\ p = b + SIZEOF_STRUCT_MEM /\ p \in Nat /\ p > b
  BY <1>1, <1>3 DEF Mem, Data
<1>5. /\ o[p] \in 0..MEM_SIZE_T - 1 /\ ~Impossible(o[p])
      /\ h[b].next >= p + Expand(o[p])
  BY <1>1 DEF Held
<1> QED
  BY <1>1, <1>2, <1>3, <1>4, <1>5

\* Different blocks have different pointers.
LEMMA DataOf ==
  ASSUME NEW b \in Nat, NEW c \in Nat
  PROVE  Data(b) \in Nat /\ Mem(Data(b)) = b /\ (Data(b) = Data(c) => b = c)
  BY Sizings DEF Data, Mem

-----------------------------------------------------------------------------
(* mem_malloc.                                                             *)

\* What is known of the block that is taken.
LEMMA Taken ==
  ASSUME HeapInv, NEW n \in 0..MEM_SIZE_T - 1, ~Impossible(n),
         NEW size, size = Expand(n), Candidates(size) # {},
         NEW mem, mem = Lowest(Candidates(size))
  PROVE  /\ mem \in Block(heap) /\ ~heap[mem].used /\ lfree <= mem
         /\ mem + SIZEOF_STRUCT_MEM + size <= heap[mem].next
         /\ size \in Nat /\ size % MEM_ALIGNMENT = 0 /\ MIN_SIZE_ALIGNED <= size
<1>1. List(heap) /\ LowestFree(heap, lfree)
  BY DEF HeapInv
<1>2. Blocks \subseteq Nat
  BY <1>1, ListHas DEF Blocks
<1>3. mem \in Candidates(size)
  <2>1. Candidates(size) \subseteq Nat
    BY <1>2 DEF Candidates
  <2> QED
    BY <2>1, LowestIs
<1>4. size \in Nat /\ size % MEM_ALIGNMENT = 0 /\ MIN_SIZE_ALIGNED <= size
  BY ExpandIs
<1>5. /\ mem \in DOMAIN heap /\ lfree <= mem /\ mem < MEM_SIZE_ALIGNED - size
      /\ ~heap[mem].used /\ DataSize(mem) >= size
  BY <1>3 DEF Candidates, Blocks, Used
<1>6. mem \in Nat /\ heap[mem].next \in Nat
  BY <1>1, <1>5, ListHas
<1>7. mem \in Block(heap)
  BY <1>4, <1>5, <1>6, Sizings DEF Block
<1>8. mem + SIZEOF_STRUCT_MEM + size <= heap[mem].next
  BY <1>4, <1>5, <1>6, Sizings DEF DataSize
<1> QED
  BY <1>4, <1>5, <1>7, <1>8

\* The heap after mem_malloc, up to the pointer that is returned.
Taking(g, h, mem, size) ==
  /\ List(g) /\ Plugged(g) /\ mem \in Block(g)
  /\ InUse(g) = InUse(h) \union {mem} /\ mem \notin InUse(h)
  /\ \A c \in InUse(h) : g[c].next = h[c].next
  /\ mem + SIZEOF_STRUCT_MEM + size <= g[mem].next /\ g[mem].next <= h[mem].next
  /\ DOMAIN h \subseteq DOMAIN g
  /\ \A c \in DOMAIN h : c # mem => g[c].used = h[c].used
  /\ \A c \in Block(g) : c \in Block(h) \/ c > mem

\* What mem_malloc does to a free block that is large enough: it is taken whole or
\* split, and the rest stays free.
LEMMA MallocTakes ==
  ASSUME NEW h, List(h), Plugged(h), NEW mem \in Block(h), ~h[mem].used,
         NEW size \in Nat, size % MEM_ALIGNMENT = 0, MIN_SIZE_ALIGNED <= size,
         mem + SIZEOF_STRUCT_MEM + size <= h[mem].next,
         NEW s, \/ s = h
                \/ /\ mem + SIZEOF_STRUCT_MEM + size
                        + SIZEOF_STRUCT_MEM + MIN_SIZE_ALIGNED <= h[mem].next
                   /\ s = Split(h, mem, mem + SIZEOF_STRUCT_MEM + size),
         NEW g, g = MarkUsed(s, mem, TRUE)
  PROVE  Taking(g, h, mem, size)
<1>1. /\ mem \in DOMAIN h /\ mem \in Nat /\ h[mem].next \in Nat
      /\ SIZEOF_STRUCT_MEM \in Nat /\ SIZEOF_STRUCT_MEM > 0
      /\ MIN_SIZE_ALIGNED \in Nat
      /\ mem % MEM_ALIGNMENT = 0 /\ SIZEOF_STRUCT_MEM % MEM_ALIGNMENT = 0
      /\ MEM_ALIGNMENT \in Nat /\ MEM_ALIGNMENT > 0
  <2>1. mem \in DOMAIN h /\ mem % MEM_ALIGNMENT = 0
    BY ListHas
  <2>2. SIZEOF_STRUCT_MEM > 0
    BY Sizings
  <2> QED
    BY <2>1, <2>2, ListHas, Sizings
<1>2. PICK b \in Nat : b = mem + SIZEOF_STRUCT_MEM + size
  BY <1>1
<1>3. b % MEM_ALIGNMENT = 0
  <2>1. PICK x \in Nat : x = mem + SIZEOF_STRUCT_MEM
    BY <1>1
  <2>2. x % MEM_ALIGNMENT = 0
    <3>1. PICK y \in Nat : y = SIZEOF_STRUCT_MEM
      BY <1>1
    <3>2. /\ x = mem + y /\ y % MEM_ALIGNMENT = 0 /\ mem % MEM_ALIGNMENT = 0
          /\ mem \in Nat /\ x \in Int
      BY <1>1, <2>1, <3>1
    <3> QED
      BY <3>2, AlignedSum, Zenon
  <2>3. b = x + size
    BY <1>2, <2>1
  <2> QED
    BY <2>1, <2>2, <2>3, AlignedSum
<1>4. s = h \/ Splits(s, h, mem, b)
  <2>1. CASE s = h
    BY <2>1
  <2>2. CASE /\ b + SIZEOF_STRUCT_MEM + MIN_SIZE_ALIGNED <= h[mem].next
             /\ s = Split(h, mem, b)
    <3>1. mem + SIZEOF_STRUCT_MEM + MIN_SIZE_ALIGNED <= b
      BY <1>1, <1>2
    <3> QED
      BY <1>3, <2>2, <3>1, SplitList
  <2> QED
    BY <1>2, <2>1, <2>2
<1>5. /\ List(s) /\ mem \in Block(s) /\ DOMAIN h \subseteq DOMAIN s
      /\ Block(h) \subseteq Block(s)
      /\ Block(s) \subseteq Block(h) \union {b}
      /\ \A c \in DOMAIN h : s[c].used = h[c].used
      /\ \A c \in DOMAIN h : c # mem => s[c].next = h[c].next
      /\ b \in Block(s) \ Block(h) => s[b].next = h[mem].next /\ ~s[b].used
      /\ s[mem].next >= b /\ s[mem].next <= h[mem].next
  <2>1. CASE s = h
    BY <1>1, <1>2, <2>1
  <2>2. CASE Splits(s, h, mem, b)
    BY <1>1, <1>2, <2>2 DEF Splits
  <2> QED
    BY <1>4, <2>1, <2>2
<1>6. /\ List(g) /\ DOMAIN g = DOMAIN s /\ Block(g) = Block(s)
      /\ \A c \in DOMAIN s : /\ g[c].next = s[c].next
                             /\ g[c].used = IF c = mem THEN TRUE ELSE s[c].used
  <2>1. PICK u \in BOOLEAN : u = TRUE
    OBVIOUS
  <2>2. Marks(g, s, mem, u)
    BY <1>5, <2>1, Marked
  <2> QED
    BY <2>1, <2>2 DEF Marks
<1>7. \A c \in Block(h) : c \in DOMAIN h /\ h[c].next \in DOMAIN h
  BY ListHas
<1>8. \A c \in Block(s) : c \in DOMAIN s
  BY DEF Block
<1>9. Plugged(g)
  <2> SUFFICES ASSUME NEW c \in Block(s) PROVE g[c].used \/ g[g[c].next].used
    BY <1>6 DEF Plugged
  <2>1. CASE c = mem
    BY <1>6, <1>8, <2>1
  <2>2. CASE c # mem /\ c \in Block(h)
    <3>1. h[c].used \/ h[h[c].next].used
      BY <2>2 DEF Plugged
    <3>2. g[c].next = h[c].next /\ \A d \in DOMAIN h : h[d].used => g[d].used
      BY <1>5, <1>6, <1>7, <1>8, <2>2
    <3> QED
      BY <1>7, <2>2, <3>1, <3>2
  <2>3. CASE c \notin Block(h)
    <3>1. c = b /\ s[c].next = h[mem].next
      BY <1>5, <2>3
    <3>2. PICK d : d = h[mem].next
      OBVIOUS
    <3>3. d \in DOMAIN h /\ h[d].used
      BY <1>7, <3>2 DEF Plugged
    <3>4. d \in DOMAIN s /\ s[d].used
      BY <1>5, <3>3
    <3>5. g[c].next = d
      BY <1>6, <1>8, <3>1, <3>2
    <3>6. g[d].used
      BY <1>6, <3>4
    <3> QED
      BY <3>5, <3>6
  <2> QED
    BY <2>1, <2>2, <2>3
<1>10. InUse(g) = InUse(h) \union {mem} /\ mem \notin InUse(h)
  <2>1. ASSUME NEW c \in Block(s)
        PROVE  g[c].used <=> c = mem \/ (c \in Block(h) /\ h[c].used)
    BY <1>5, <1>6, <1>7, <1>8, <2>1
  <2> QED
    BY <1>5, <1>6, <2>1 DEF InUse
<1>11. \A c \in InUse(h) : g[c].next = h[c].next
  BY <1>5, <1>6, <1>7, <1>8 DEF InUse
<1>12. mem + SIZEOF_STRUCT_MEM + size <= g[mem].next /\ g[mem].next <= h[mem].next
  BY <1>1, <1>2, <1>5, <1>6, <1>8
<1>13. \A c \in Block(g) : c \in Block(h) \/ c > mem
  <2>1. b > mem
    BY <1>1, <1>2
  <2> QED
    BY <1>5, <1>6, <2>1
<1>14. \A c \in DOMAIN h : c # mem => g[c].used = h[c].used
  BY <1>5, <1>6
<1> QED
  BY <1>5, <1>6, <1>9, <1>10, <1>11, <1>12, <1>13, <1>14 DEF Taking

\* The step, with the block that is taken.
LEMMA MallocIs ==
  ASSUME HeapInv, NEW n \in Sizes, mem_malloc(n)
  PROVE  \E mem \in Block(heap) :
           /\ Taking(heap', heap, mem, Expand(n)) /\ lfree <= mem
           /\ lfree' = NextFree(heap', mem)
           /\ ret' = Data(mem)
           /\ owned' = [p \in DOMAIN owned \union {Data(mem)} |->
                          IF p = Data(mem) THEN n ELSE owned[p]]
<1>1. n \in 0..MEM_SIZE_T - 1 /\ ~Impossible(n)
  BY HeapAssumption DEF mem_malloc
<1>2. PICK size : size = Expand(n)
  OBVIOUS
<1>3. PICK mem : mem = Lowest(Candidates(size))
  OBVIOUS
<1>4. PICK s : s = IF LeavesBlock(mem, size)
                   THEN Split(heap, mem, mem + SIZEOF_STRUCT_MEM + size) ELSE heap
  OBVIOUS
<1>5. /\ Candidates(size) # {}
      /\ heap' = MarkUsed(s, mem, TRUE)
      /\ lfree' = NextFree(heap', mem)
      /\ ret' = Data(mem)
      /\ owned' = [p \in DOMAIN owned \union {Data(mem)} |->
                     IF p = Data(mem) THEN n ELSE owned[p]]
  BY <1>2, <1>3, <1>4 DEF mem_malloc
<1>6. /\ mem \in Block(heap) /\ ~heap[mem].used /\ lfree <= mem
      /\ mem + SIZEOF_STRUCT_MEM + size <= heap[mem].next
      /\ size \in Nat /\ size % MEM_ALIGNMENT = 0 /\ MIN_SIZE_ALIGNED <= size
  BY <1>1, <1>2, <1>3, <1>5, Taken
<1>7. List(heap) /\ Plugged(heap)
  BY DEF HeapInv
<1>8. \/ s = heap
      \/ /\ mem + SIZEOF_STRUCT_MEM + size
              + SIZEOF_STRUCT_MEM + MIN_SIZE_ALIGNED <= heap[mem].next
         /\ s = Split(heap, mem, mem + SIZEOF_STRUCT_MEM + size)
  <2>1. mem \in Nat /\ heap[mem].next \in Nat
    BY <1>6, <1>7, ListHas DEF Block
  <2> QED
    BY <1>4, <1>6, <2>1, Sizings DEF LeavesBlock, DataSize
<1>9. Taking(heap', heap, mem, size)
  <2>1. PICK g : g = heap'
    OBVIOUS
  <2>2. g = MarkUsed(s, mem, TRUE)
    BY <1>5, <2>1
  <2>3. Taking(g, heap, mem, size)
    BY <1>6, <1>7, <1>8, <2>2, MallocTakes
  <2> QED
    BY <2>1, <2>3
<1> QED
  BY <1>2, <1>5, <1>6, <1>9

\* lfree after mem_malloc.
LEMMA NextFreeIs ==
  ASSUME HeapInv, NEW mem \in Block(heap), NEW size, NEW g,
         Taking(g, heap, mem, size), lfree <= mem
  PROVE  LowestFree(g, NextFree(g, mem))
<1>1. List(heap) /\ LowestFree(heap, lfree) /\ List(g) /\ mem \in Block(g)
  BY DEF HeapInv, Taking
<1>2. /\ mem \in Nat /\ lfree \in Nat /\ lfree \in DOMAIN heap
      /\ ram_end \in Nat /\ mem < ram_end /\ ram_end \in DOMAIN g
      /\ DOMAIN g \subseteq Nat
  BY <1>1, ListHas DEF LowestFree, Block, List
<1>3. mem \in InUse(g) /\ g[mem].used
  BY DEF Taking, InUse
<1>4. ASSUME NEW c \in Block(g), ~g[c].used PROVE lfree <= c
  <2>1. c # mem /\ c \in Nat /\ (c \in Block(heap) \/ c > mem)
    BY <1>2, <1>3, <1>4 DEF Taking, Block
  <2>2. CASE c > mem
    BY <1>2, <2>1, <2>2
  <2>3. CASE c \in Block(heap)
    <3>1. ~heap[c].used
      BY <1>4, <2>1, <2>3 DEF Taking, Block
    <3> QED
      BY <1>1, <2>3, <3>1 DEF LowestFree
  <2> QED
    BY <2>1, <2>2, <2>3
<1>5. CASE mem # lfree
  <2>1. lfree # ram_end
    BY <1>2
  <2>2. lfree \in DOMAIN g /\ ~g[lfree].used
    BY <1>1, <1>2, <1>5, <2>1 DEF LowestFree, Taking
  <2> QED
    BY <1>4, <1>5, <2>2 DEF LowestFree, NextFree
<1>6. CASE mem = lfree
  <2> DEFINE S == {b \in DOMAIN g : mem <= b /\ (~g[b].used \/ b = ram_end)}
  <2>1. ram_end \in S /\ S \subseteq Nat
    BY <1>2
  <2>2. PICK low : low = Lowest(S)
    OBVIOUS
  <2>3. low \in S /\ \A c \in S : low <= c
    <3> HIDE DEF S
    <3> QED
      BY <2>1, <2>2, LowestIs
  <2>4. low = NextFree(g, mem)
    BY <1>6, <2>2 DEF NextFree
  <2>5. ASSUME NEW c \in Block(g), ~g[c].used PROVE low <= c
    BY <1>4, <1>6, <2>3, <2>5 DEF Block
  <2> QED
    BY <2>3, <2>4, <2>5 DEF LowestFree
<1> QED
  BY <1>5, <1>6

\* mem_malloc keeps the invariant.
LEMMA MallocStep ==
  ASSUME HeapInv, NEW n \in Sizes, mem_malloc(n)
  PROVE  HeapInv'
<1>1. PICK mem \in Block(heap) :
        /\ Taking(heap', heap, mem, Expand(n)) /\ lfree <= mem
        /\ lfree' = NextFree(heap', mem)
        /\ owned' = [p \in DOMAIN owned \union {Data(mem)} |->
                       IF p = Data(mem) THEN n ELSE owned[p]]
  BY MallocIs
<1>2. PICK size : size = Expand(n)
  OBVIOUS
<1>3. PICK g : g = heap'
  OBVIOUS
<1>4. Taking(g, heap, mem, size) /\ List(heap) /\ Held(heap, owned)
  BY <1>1, <1>2, <1>3 DEF HeapInv
<1>5. n \in 0..MEM_SIZE_T - 1 /\ ~Impossible(n)
  BY HeapAssumption DEF mem_malloc
<1>6. LowestFree(g, NextFree(g, mem))
  BY <1>1, <1>4, NextFreeIs
<1>7. /\ List(g) /\ Plugged(g) /\ mem \in Block(g)
      /\ InUse(g) = InUse(heap) \union {mem} /\ mem \notin InUse(heap)
      /\ \A c \in InUse(heap) : g[c].next = heap[c].next
      /\ mem + SIZEOF_STRUCT_MEM + size <= g[mem].next
  BY <1>4 DEF Taking
<1>8. \A c \in InUse(g) : c \in Nat
  BY <1>7, ListHas DEF InUse, Block
<1>9. PICK o : o = owned'
  OBVIOUS
<1>10. /\ DOMAIN o = DOMAIN owned \union {Data(mem)}
       /\ \A p \in DOMAIN o : o[p] = IF p = Data(mem) THEN n ELSE owned[p]
  BY <1>1, <1>9
<1>11. Held(g, o)
  <2>1. DOMAIN o = {Data(b) : b \in InUse(g)}
    BY <1>4, <1>7, <1>10 DEF Held
  <2>2. ASSUME NEW b \in InUse(g)
        PROVE  /\ o[Data(b)] \in 0..MEM_SIZE_T - 1 /\ ~Impossible(o[Data(b)])
               /\ g[b].next >= Data(b) + Expand(o[Data(b)])
    <3>1. CASE b = mem
      <4>1. o[Data(b)] = n
        BY <1>10, <3>1
      <4> QED
        BY <1>2, <1>5, <1>7, <3>1, <4>1 DEF Data
    <3>2. CASE b # mem
      <4>1. b \in InUse(heap) /\ g[b].next = heap[b].next
        BY <1>7, <3>2
      <4>2. Data(b) # Data(mem)
        BY <1>7, <1>8, <3>2, DataOf
      <4>3. o[Data(b)] = owned[Data(b)]
        BY <1>10, <2>1, <4>2
      <4> QED
        BY <1>4, <4>1, <4>3 DEF Held
    <3> QED
      BY <3>1, <3>2
  <2> QED
    BY <2>1, <2>2 DEF Held
<1> QED
  BY <1>1, <1>3, <1>6, <1>7, <1>9, <1>11 DEF HeapInv

-----------------------------------------------------------------------------
(* mem_free.                                                               *)

\* The list while mem, a free block, is made part of its neighbours: no
\* others that are free follow each other, and what is in use is as it was.
Plugging(g, lf, mem, h, U) ==
  /\ List(g) /\ mem \in Block(g) /\ ~g[mem].used /\ LowestFree(g, lf)
  /\ InUse(g) = U /\ \A c \in U : g[c].next = h[c].next
  /\ \A c \in Block(g) \ {mem} :
       g[c].next # mem => g[c].used \/ g[g[c].next].used

\* Only one block leads to the next one.
LEMMA OneBefore ==
  ASSUME NEW h, List(h), NEW b \in Block(h), NEW c \in Block(h), NEW n,
         n = h[b].next, n = h[c].next, n # ram_end
  PROVE  b = c
  BY NextPrev

\* A free block behind mem is made part of it.
LEMMA Forward ==
  ASSUME NEW g, NEW lf, NEW mem, NEW h, NEW U, Plugging(g, lf, mem, h, U),
         NEW r, r = PlugForward(g, lf, mem)
  PROVE  /\ Plugging(r.heap, r.lfree, mem, h, U)
         /\ r.heap[r.heap[mem].next].used
<1>1. PICK n : n = g[mem].next
  OBVIOUS
<1>2. /\ List(g) /\ mem \in Block(g) /\ ~g[mem].used /\ LowestFree(g, lf)
      /\ InUse(g) = U /\ \A c \in U : g[c].next = h[c].next
      /\ \A c \in Block(g) \ {mem} :
           g[c].next # mem => g[c].used \/ g[g[c].next].used
  BY DEF Plugging
<1>3. /\ mem \in DOMAIN g /\ mem < ram_end /\ n \in DOMAIN g /\ mem < n
      /\ n # ram_end => n \in Block(g)
      /\ g[ram_end].used
  BY <1>1, <1>2, ListHas
<1>4. mem \in Nat /\ n \in Nat /\ ram_end \in Nat /\ lf \in DOMAIN g /\ lf \in Nat
  BY <1>2, <1>3, ListHas DEF LowestFree
<1>5. CASE g[n].used \/ n = ram_end
  <2>1. r = [heap |-> g, lfree |-> lf]
    BY <1>1, <1>5 DEF PlugForward
  <2>2. r.heap = g /\ r.lfree = lf
    BY <2>1
  <2> QED
    BY <1>1, <1>3, <1>5, <2>2
<1>6. CASE ~g[n].used /\ n # ram_end
  <2>1. n \in Block(g) /\ n # mem
    BY <1>3, <1>4, <1>6
  <2>2. PICK m : m = Merge(g, mem, n)
    OBVIOUS
  <2>3. /\ r = [heap  |-> Merge(g, mem, n),
                lfree |-> IF lf = n THEN mem ELSE lf]
    BY <1>1, <1>6, <2>1 DEF PlugForward
  <2>4. lf <= mem
    BY <1>2 DEF LowestFree
  <2>5. r.heap = m /\ r.lfree = lf /\ lf # n
    BY <1>3, <1>4, <2>2, <2>3, <2>4
  <2>6. Merges(m, g, mem, n)
    BY <1>1, <1>2, <2>1, <2>2, MergeList
  <2>7. /\ List(m) /\ DOMAIN m = DOMAIN g \ {n} /\ Block(m) = Block(g) \ {n}
        /\ mem \in Block(m)
        /\ \A c \in DOMAIN m : /\ m[c].next = IF c = mem THEN g[n].next ELSE g[c].next
                               /\ m[c].used = g[c].used
    BY <2>6 DEF Merges
  <2>8. /\ n \in DOMAIN g /\ g[n].next \in DOMAIN g /\ n < g[n].next
        /\ g[n].next \in Nat
    <3>1. n \in DOMAIN g /\ g[n].next \in DOMAIN g /\ n < g[n].next
      BY <1>2, <2>1, ListHas
    <3> QED
      BY <1>2, <3>1, ListHas
  <2>9. m[mem].next = g[n].next /\ g[n].next \in DOMAIN m /\ g[n].next # mem
        /\ mem \in DOMAIN m
    BY <1>3, <1>4, <2>1, <2>7, <2>8
  <2>10. m[m[mem].next].used
    <3>1. g[g[n].next].used
      BY <1>2, <1>6, <2>1, <2>9
    <3> QED
      BY <2>7, <2>9, <3>1
  <2>11. InUse(m) = U
    <3>1. \A c \in Block(m) : c \in DOMAIN m
      BY DEF Block
    <3>2. n \notin InUse(g)
      BY <1>6 DEF InUse
    <3> QED
      BY <1>2, <2>7, <3>1, <3>2 DEF InUse
  <2>12. \A c \in U : m[c].next = h[c].next
    <3> SUFFICES ASSUME NEW c \in U PROVE m[c].next = h[c].next
      OBVIOUS
    <3>1. c # mem /\ c \in DOMAIN m
      BY <1>2, <2>7, <2>11 DEF InUse, Block
    <3> QED
      BY <1>2, <2>7, <3>1
  <2>13. LowestFree(m, lf)
    <3>1. lf \in DOMAIN m /\ (lf = ram_end \/ ~m[lf].used)
      BY <1>2, <1>4, <2>5, <2>7 DEF LowestFree
    <3>2. ASSUME NEW c \in Block(m), ~m[c].used PROVE lf <= c
      BY <1>2, <2>7, <3>2 DEF LowestFree, Block
    <3> QED
      BY <3>1, <3>2 DEF LowestFree
  <2>14. ASSUME NEW c \in Block(m) \ {mem}, m[c].next # mem
         PROVE  m[c].used \/ m[m[c].next].used
    <3>1. c \in Block(g) \ {mem} /\ c \in DOMAIN m /\ m[c].next = g[c].next
      BY <2>7, <2>14 DEF Block
    <3>2. g[c].used \/ g[g[c].next].used
      BY <1>2, <2>14, <3>1
    <3>3. m[c].next \in DOMAIN m
      BY <2>7, <2>14, ListHas
    <3> QED
      BY <2>7, <3>1, <3>2, <3>3
  <2>15. ~m[mem].used
    BY <1>2, <2>7, <2>9
  <2> QED
    BY <2>5, <2>7, <2>10, <2>11, <2>12, <2>13, <2>14, <2>15 DEF Plugging
<1> QED
  BY <1>5, <1>6

\* mem becomes part of a free block before it: no two free ones are left.
LEMMA Backward ==
  ASSUME NEW g, NEW lf, NEW mem, NEW h, NEW U, Plugging(g, lf, mem, h, U),
         g[g[mem].next].used,
         NEW r, r = PlugBackward(g, lf, mem)
  PROVE  /\ List(r.heap) /\ Plugged(r.heap) /\ LowestFree(r.heap, r.lfree)
         /\ InUse(r.heap) = U /\ \A c \in U : r.heap[c].next = h[c].next
<1>1. PICK p : p = g[mem].prev
  OBVIOUS
<1>2. /\ List(g) /\ mem \in Block(g) /\ ~g[mem].used /\ LowestFree(g, lf)
      /\ InUse(g) = U /\ \A c \in U : g[c].next = h[c].next
      /\ \A c \in Block(g) \ {mem} :
           g[c].next # mem => g[c].used \/ g[g[c].next].used
  BY DEF Plugging
<1>3. /\ mem \in DOMAIN g /\ mem < ram_end /\ p \in Block(g)
      /\ mem # 0 => p < mem /\ g[p].next = mem
      /\ mem = 0 => p = mem
      /\ mem < g[mem].next /\ g[mem].next \in DOMAIN g
  BY <1>1, <1>2, ListHas
<1>4. /\ mem \in Nat /\ p \in Nat /\ p \in DOMAIN g /\ ram_end \in Nat
      /\ lf \in DOMAIN g /\ lf \in Nat /\ g[mem].next \in Nat
  BY <1>2, <1>3, ListHas DEF LowestFree, Block
\* Only p leads to mem.
<1>5. \A c \in Block(g) : g[c].next = mem => c = p
  BY <1>1, <1>2, <1>3, <1>4, NextPrev
<1>6. CASE p = mem \/ g[p].used
  <2>1. r = [heap |-> g, lfree |-> lf]
    BY <1>1, <1>6 DEF PlugBackward
  <2>2. r.heap = g /\ r.lfree = lf
    BY <2>1
  <2>3. ASSUME NEW c \in Block(g) PROVE g[c].used \/ g[g[c].next].used
    <3>1. CASE c = mem
      BY <3>1
    <3>2. CASE c # mem /\ g[c].next # mem
      BY <1>2, <3>2
    <3>3. CASE c # mem /\ g[c].next = mem
      <4>1. c = p
        BY <1>5, <3>3
      <4> QED
        BY <1>6, <3>3, <4>1
    <3> QED
      BY <3>1, <3>2, <3>3
  <2> QED
    BY <1>2, <2>2, <2>3 DEF Plugged
<1>7. CASE p # mem /\ ~g[p].used
  <2>1. p < mem /\ g[p].next = mem
    BY <1>3, <1>7
  <2>2. PICK m : m = Merge(g, p, mem)
    OBVIOUS
  <2>3. r = [heap |-> Merge(g, p, mem), lfree |-> IF lf = mem THEN p ELSE lf]
    BY <1>1, <1>7 DEF PlugBackward
  <2>4. lf <= p
    BY <1>2, <1>3, <1>7 DEF LowestFree
  <2>5. r.heap = m /\ r.lfree = lf /\ lf # mem
    BY <1>4, <2>1, <2>2, <2>3, <2>4
  <2>6. Merges(m, g, p, mem)
    BY <1>2, <1>3, <2>1, <2>2, MergeList
  <2>7. /\ List(m) /\ DOMAIN m = DOMAIN g \ {mem} /\ Block(m) = Block(g) \ {mem}
        /\ p \in Block(m)
        /\ \A c \in DOMAIN m : /\ m[c].next = IF c = p THEN g[mem].next ELSE g[c].next
                               /\ m[c].used = g[c].used
    BY <2>6 DEF Merges
  <2>8. \A c \in Block(m) : c \in DOMAIN m /\ m[c].next \in DOMAIN m
    BY <2>7, ListHas
  <2>9. InUse(m) = U
    <3>1. mem \notin InUse(g)
      BY <1>2 DEF InUse
    <3> QED
      BY <1>2, <2>7, <2>8, <3>1 DEF InUse
  <2>10. \A c \in U : m[c].next = h[c].next
    <3> SUFFICES ASSUME NEW c \in U PROVE m[c].next = h[c].next
      OBVIOUS
    <3>1. c # p /\ c \in DOMAIN m
      BY <1>2, <1>7, <2>8, <2>9 DEF InUse
    <3> QED
      BY <1>2, <2>7, <3>1
  <2>11. LowestFree(m, lf)
    <3>1. lf \in DOMAIN m /\ (lf = ram_end \/ ~m[lf].used)
      BY <1>2, <1>4, <2>5, <2>7 DEF LowestFree
    <3>2. ASSUME NEW c \in Block(m), ~m[c].used PROVE lf <= c
      BY <1>2, <2>7, <2>8, <3>2 DEF LowestFree
    <3> QED
      BY <3>1, <3>2 DEF LowestFree
  <2>12. ASSUME NEW c \in Block(m) PROVE m[c].used \/ m[m[c].next].used
    <3>1. CASE c = p
      BY <2>7, <2>8, <3>1
    <3>2. CASE c # p
      <4>1. c \in Block(g) \ {mem} /\ g[c].next # mem /\ m[c].next = g[c].next
        BY <1>5, <2>7, <2>8, <3>2
      <4>2. g[c].used \/ g[g[c].next].used
        BY <1>2, <4>1
      <4> QED
        BY <2>7, <2>8, <4>1, <4>2
    <3> QED
      BY <3>1, <3>2
  <2> QED
    BY <2>5, <2>7, <2>9, <2>10, <2>11, <2>12 DEF Plugged
<1> QED
  BY <1>6, <1>7

\* What is given out passes the checks of mem_free.
LEMMA ChecksPass ==
  ASSUME HeapInv, NEW rmem \in DOMAIN owned, NEW mem, mem = Mem(rmem)
  PROVE  /\ rmem % MEM_ALIGNMENT = 0 /\ mem >= 0 /\ rmem + MIN_SIZE_ALIGNED <= ram_end
         /\ Used(mem) /\ mem_link_valid(mem)
<1>1. List(heap) /\ Held(heap, owned)
  BY DEF HeapInv
<1>2. /\ mem \in Block(heap) /\ mem \in Nat /\ mem \in DOMAIN heap
      /\ rmem = mem + SIZEOF_STRUCT_MEM /\ rmem \in Nat /\ heap[mem].used
  BY <1>1, PointerOf
<1>3. PICK n : n = heap[mem].next
  OBVIOUS
<1>4. /\ mem % MEM_ALIGNMENT = 0 /\ n \in DOMAIN heap /\ n <= ram_end
      /\ mem + SIZEOF_STRUCT_MEM + MIN_SIZE_ALIGNED <= n
      /\ heap[mem].prev \in Block(heap)
      /\ mem # 0 => heap[heap[mem].prev].next = mem
      /\ mem = 0 => heap[mem].prev = mem
      /\ n # ram_end => n \in Block(heap)
  BY <1>1, <1>2, <1>3, ListHas
<1>5. rmem % MEM_ALIGNMENT = 0
  <2>1. PICK y \in Nat : y = SIZEOF_STRUCT_MEM
    BY Sizings
  <2>2. /\ rmem = mem + y /\ y % MEM_ALIGNMENT = 0 /\ mem % MEM_ALIGNMENT = 0
        /\ mem \in Nat /\ rmem \in Int
    BY <1>2, <1>4, <2>1, Sizings
  <2> QED
    BY <2>2, AlignedSum, Zenon
<1>6. rmem + MIN_SIZE_ALIGNED <= ram_end
  <2>1. n \in Nat
    BY <1>1, <1>4, ListHas
  <2> QED
    BY <1>2, <1>4, <2>1, Sizings
<1>7. mem_link_valid(mem)
  <2>1. heap[mem].prev \in Nat /\ heap[mem].prev <= MEM_SIZE_ALIGNED
    BY <1>1, <1>4, ListHas DEF ram_end, Block
  <2>2. n <= MEM_SIZE_ALIGNED
    BY <1>4 DEF ram_end
  <2>3. n = ram_end \/ heap[n].prev = mem
    BY <1>1, <1>2, <1>3, NextPrev
  <2> QED
    BY <1>3, <1>4, <2>1, <2>2, <2>3 DEF mem_link_valid
<1> QED
  BY <1>2, <1>5, <1>6, <1>7 DEF Used

\* The step, by what it does to the blocks in use.
LEMMA FreeIs ==
  ASSUME HeapInv, NEW rmem \in DOMAIN owned, mem_free(rmem)
  PROVE  /\ List(heap') /\ Plugged(heap') /\ LowestFree(heap', lfree')
         /\ InUse(heap') = InUse(heap) \ {Mem(rmem)}
         /\ \A c \in InUse(heap') : heap'[c].next = heap[c].next
         /\ owned' = [p \in DOMAIN owned \ {rmem} |-> owned[p]]
         /\ ret' = ret
<1>1. PICK mem : mem = Mem(rmem)
  OBVIOUS
<1>2. List(heap) /\ Plugged(heap) /\ LowestFree(heap, lfree) /\ Held(heap, owned)
  BY DEF HeapInv
<1>3. /\ mem \in Block(heap) /\ mem \in Nat /\ mem \in DOMAIN heap /\ heap[mem].used
  BY <1>1, <1>2, PointerOf
<1>4. PICK g : g = MarkUsed(heap, mem, FALSE)
  OBVIOUS
<1>5. PICK lf : lf = Lowered(mem)
  OBVIOUS
<1>6. PICK f : f = PlugForward(g, lf, mem)
  OBVIOUS
<1>7. PICK r : r = PlugBackward(f.heap, f.lfree, mem)
  OBVIOUS
<1>8. /\ heap' = r.heap /\ lfree' = r.lfree /\ ret' = ret
      /\ owned' = [p \in DOMAIN owned \ {rmem} |-> owned[p]]
  BY <1>1, <1>4, <1>5, <1>6, <1>7, ChecksPass DEF mem_free, plug_holes
<1>9. Marks(g, heap, mem, FALSE)
  <2>1. PICK u \in BOOLEAN : u = FALSE
    OBVIOUS
  <2> QED
    BY <1>2, <1>3, <1>4, <2>1, Marked
<1>10. /\ List(g) /\ DOMAIN g = DOMAIN heap /\ Block(g) = Block(heap)
       /\ \A c \in DOMAIN heap : /\ g[c].next = heap[c].next
                                 /\ g[c].used = IF c = mem THEN FALSE ELSE heap[c].used
  BY <1>9 DEF Marks
<1>11. \A c \in Block(heap) : c \in DOMAIN heap /\ heap[c].next \in DOMAIN heap
  BY <1>2, ListHas
<1>12. PICK U : U = InUse(heap) \ {mem}
  OBVIOUS
<1>13. Plugging(g, lf, mem, heap, U)
  <2>1. InUse(g) = U
    BY <1>10, <1>11, <1>12 DEF InUse
  <2>2. \A c \in U : g[c].next = heap[c].next
    BY <1>10, <1>11, <1>12 DEF InUse
  <2>3. ASSUME NEW c \in Block(g) \ {mem}, g[c].next # mem
        PROVE  g[c].used \/ g[g[c].next].used
    <3>1. heap[c].used \/ heap[heap[c].next].used
      BY <1>2, <1>10 DEF Plugged
    <3> QED
      BY <1>10, <1>11, <2>3, <3>1
  <2>4. LowestFree(g, lf)
    <3>1. lfree \in Nat /\ lfree \in DOMAIN heap /\ (lfree = ram_end \/ ~heap[lfree].used)
      BY <1>2, ListHas DEF LowestFree
    <3>2. lf = IF mem < lfree THEN mem ELSE lfree
      BY <1>5 DEF Lowered
    <3>3. lf \in DOMAIN g /\ (lf = ram_end \/ ~g[lf].used)
      BY <1>3, <1>10, <3>1, <3>2
    <3>4. ASSUME NEW c \in Block(g), ~g[c].used PROVE lf <= c
      <4>1. CASE c = mem
        BY <1>3, <3>1, <3>2, <4>1
      <4>2. CASE c # mem
        <5>1. ~heap[c].used /\ c \in Block(heap) /\ c \in Nat
          BY <1>2, <1>10, <1>11, <3>4, <4>2, ListHas
        <5>2. lfree <= c
          BY <1>2, <5>1 DEF LowestFree
        <5> QED
          BY <1>3, <3>1, <3>2, <5>1, <5>2
      <4> QED
        BY <4>1, <4>2
    <3> QED
      BY <3>3, <3>4 DEF LowestFree
  <2> QED
    BY <1>3, <1>10, <2>1, <2>2, <2>3, <2>4 DEF Plugging
<1>14. /\ Plugging(f.heap, f.lfree, mem, heap, U)
       /\ f.heap[f.heap[mem].next].used
  BY <1>6, <1>13, Forward
<1>15. /\ List(r.heap) /\ Plugged(r.heap) /\ LowestFree(r.heap, r.lfree)
       /\ InUse(r.heap) = U /\ \A c \in U : r.heap[c].next = heap[c].next
  <2>1. PICK fh, fl : fh = f.heap /\ fl = f.lfree
    OBVIOUS
  <2>2. Plugging(fh, fl, mem, heap, U) /\ fh[fh[mem].next].used
    BY <1>14, <2>1
  <2>3. r = PlugBackward(fh, fl, mem)
    BY <1>7, <2>1
  <2> QED
    BY <2>2, <2>3, Backward
<1> QED
  BY <1>1, <1>8, <1>12, <1>15

\* mem_free keeps the invariant.
LEMMA FreeStep ==
  ASSUME HeapInv, NEW rmem \in DOMAIN owned, mem_free(rmem)
  PROVE  HeapInv'
<1>1. PICK g : g = heap'
  OBVIOUS
<1>2. PICK o : o = owned'
  OBVIOUS
<1>3. /\ List(g) /\ Plugged(g) /\ LowestFree(g, lfree')
      /\ InUse(g) = InUse(heap) \ {Mem(rmem)}
      /\ \A c \in InUse(g) : g[c].next = heap[c].next
      /\ DOMAIN o = DOMAIN owned \ {rmem} /\ \A p \in DOMAIN o : o[p] = owned[p]
  BY <1>1, <1>2, FreeIs
<1>4. List(heap) /\ Held(heap, owned)
  BY DEF HeapInv
<1>5. Held(g, o)
  <2>1. \A b \in InUse(heap) : b \in Nat
    BY <1>4, ListHas DEF InUse, Block
  <2>2. Mem(rmem) \in Nat /\ rmem = Data(Mem(rmem))
    BY <1>4, PointerOf
  <2>3. \A b \in InUse(heap) : Data(b) = rmem => b = Mem(rmem)
    BY <2>1, <2>2, DataOf
  <2>4. DOMAIN owned = {Data(b) : b \in InUse(heap)}
    BY <1>4 DEF Held
  <2>5. DOMAIN o = {Data(b) : b \in InUse(g)}
    BY <1>3, <2>2, <2>3, <2>4
  <2>6. ASSUME NEW b \in InUse(g)
        PROVE  /\ o[Data(b)] \in 0..MEM_SIZE_T - 1 /\ ~Impossible(o[Data(b)])
               /\ g[b].next >= Data(b) + Expand(o[Data(b)])
    <3>1. b \in InUse(heap) /\ g[b].next = heap[b].next
      BY <1>3
    <3>2. o[Data(b)] = owned[Data(b)]
      BY <1>3, <2>5
    <3> QED
      BY <1>4, <3>1, <3>2 DEF Held
  <2> QED
    BY <2>5, <2>6 DEF Held
<1> QED
  BY <1>1, <1>2, <1>3, <1>5 DEF HeapInv

-----------------------------------------------------------------------------
(* mem_trim.                                                               *)

\* The list g, with lfree lf, after mem of list h was cut to newsize.
Cut(g, lf, h, mem, newsize) ==
  /\ List(g) /\ Plugged(g) /\ LowestFree(g, lf)
  /\ InUse(g) = InUse(h) /\ \A c \in InUse(h) \ {mem} : g[c].next = h[c].next
  /\ mem + SIZEOF_STRUCT_MEM + newsize <= g[mem].next /\ g[mem].next <= h[mem].next

\* A block cannot be cut by nothing, nor to more than it has.
LEMMA NewSize ==
  ASSUME HeapInv, NEW rmem \in DOMAIN owned, NEW n \in Sizes, n <= owned[rmem],
         NEW mem, mem = Mem(rmem), NEW newsize, newsize = Expand(n)
  PROVE  /\ ~Impossible(n) /\ newsize \in Nat /\ newsize % MEM_ALIGNMENT = 0
         /\ MIN_SIZE_ALIGNED <= newsize /\ n <= newsize /\ n \in 0..MEM_SIZE_T - 1
         /\ mem + SIZEOF_STRUCT_MEM + newsize <= heap[mem].next
         /\ newsize <= DataSize(mem)
         /\ mem \in Block(heap) /\ heap[mem].used /\ rmem = mem + SIZEOF_STRUCT_MEM
<1>1. List(heap) /\ Held(heap, owned)
  BY DEF HeapInv
<1>2. /\ mem \in Block(heap) /\ mem \in Nat /\ heap[mem].used /\ mem \in DOMAIN heap
      /\ rmem = mem + SIZEOF_STRUCT_MEM /\ rmem \in Nat
      /\ owned[rmem] \in 0..MEM_SIZE_T - 1 /\ ~Impossible(owned[rmem])
      /\ heap[mem].next >= rmem + Expand(owned[rmem])
  BY <1>1, PointerOf
<1>3. PICK old \in 0..MEM_SIZE_T - 1 : old = owned[rmem]
  BY <1>2
<1>4. n \in 0..MEM_SIZE_T - 1 /\ n \in 0..old
  BY <1>3, HeapAssumption
<1>5. ~Impossible(n) /\ newsize <= Expand(old) /\ n <= newsize
  BY <1>2, <1>3, <1>4, ExpandLess
<1>6. newsize \in Nat /\ newsize % MEM_ALIGNMENT = 0 /\ MIN_SIZE_ALIGNED <= newsize
  BY <1>4, ExpandIs
<1>7. Expand(old) \in Nat
  BY ExpandIs
<1>8. heap[mem].next \in Nat
  BY <1>1, <1>2, ListHas
<1>9. mem + SIZEOF_STRUCT_MEM + newsize <= heap[mem].next
  BY <1>2, <1>3, <1>5, <1>6, <1>7, <1>8, Sizings
<1>10. newsize <= DataSize(mem)
  BY <1>2, <1>6, <1>8, <1>9, Sizings DEF DataSize
<1> QED
  BY <1>2, <1>4, <1>5, <1>6, <1>9, <1>10

\* The block after which the heap is cut, and where.
LEMMA CutAt ==
  ASSUME NEW h, List(h), NEW mem \in Block(h),
         NEW newsize \in Nat, newsize % MEM_ALIGNMENT = 0, MIN_SIZE_ALIGNED <= newsize,
         NEW b, b = mem + SIZEOF_STRUCT_MEM + newsize
  PROVE  /\ b \in Nat /\ b % MEM_ALIGNMENT = 0 /\ mem < b /\ mem \in Nat
         /\ mem + SIZEOF_STRUCT_MEM + MIN_SIZE_ALIGNED <= b
<1>1. mem \in DOMAIN h /\ mem % MEM_ALIGNMENT = 0
  BY ListHas
<1>2. mem \in Nat
  BY <1>1, ListHas
<1>3. PICK y \in Nat : y = SIZEOF_STRUCT_MEM
  BY Sizings
<1>4. PICK x \in Nat : x = mem + y
  BY <1>2
<1>5. x % MEM_ALIGNMENT = 0
  <2>1. y % MEM_ALIGNMENT = 0 /\ x \in Int
    BY <1>3, Sizings
  <2> QED
    BY <1>1, <1>2, <1>4, <2>1, AlignedSum, Zenon
<1>6. b = x + newsize /\ b \in Nat /\ b \in Int
  BY <1>3, <1>4
<1>7. b % MEM_ALIGNMENT = 0
  BY <1>5, <1>6, AlignedSum, Zenon
<1>8. y > 0 /\ MIN_SIZE_ALIGNED \in Nat /\ MIN_SIZE_ALIGNED > 0
  BY <1>3, Sizings
<1> QED
  BY <1>2, <1>3, <1>4, <1>6, <1>7, <1>8

\* A block of its own is cut off.
LEMMA SplitCuts ==
  ASSUME NEW h, NEW lf, List(h), Plugged(h), LowestFree(h, lf),
         NEW mem \in Block(h), h[mem].used, h[h[mem].next].used,
         NEW newsize \in Nat, newsize % MEM_ALIGNMENT = 0, MIN_SIZE_ALIGNED <= newsize,
         NEW b, b = mem + SIZEOF_STRUCT_MEM + newsize,
         b + SIZEOF_STRUCT_MEM + MIN_SIZE_ALIGNED <= h[mem].next,
         NEW g, g = Split(h, mem, b),
         NEW lf2, lf2 = IF b < lf THEN b ELSE lf
  PROVE  Cut(g, lf2, h, mem, newsize)
<1>1. /\ b \in Nat /\ b % MEM_ALIGNMENT = 0 /\ mem < b /\ mem \in Nat
      /\ mem + SIZEOF_STRUCT_MEM + MIN_SIZE_ALIGNED <= b
  BY CutAt
<1>2. Splits(g, h, mem, b)
  BY <1>1, SplitList
<1>3. /\ List(g) /\ b \notin DOMAIN h /\ b \in Block(g)
      /\ DOMAIN g = DOMAIN h \union {b} /\ Block(g) = Block(h) \union {b}
      /\ \A c \in DOMAIN h : /\ g[c].next = IF c = mem THEN b ELSE h[c].next
                             /\ g[c].used = h[c].used
      /\ g[b].next = h[mem].next /\ g[b].used = FALSE
  BY <1>2 DEF Splits
<1>4. \A c \in Block(h) : c \in DOMAIN h /\ h[c].next \in DOMAIN h /\ c \in Nat
  BY ListHas
<1>5. ASSUME NEW c \in Block(g) PROVE g[c].used \/ g[g[c].next].used
  <2>1. CASE c = b
    BY <1>3, <1>4, <2>1
  <2>2. CASE c = mem
    BY <1>3, <1>4, <2>2
  <2>3. CASE c # b /\ c # mem
    <3>1. c \in Block(h) /\ g[c].next = h[c].next
      BY <1>3, <1>4, <2>3
    <3> QED
      BY <1>3, <1>4, <3>1 DEF Plugged
  <2> QED
    BY <2>1, <2>2, <2>3
<1>6. InUse(g) = InUse(h)
  BY <1>3, <1>4 DEF InUse
<1>7. \A c \in InUse(h) \ {mem} : g[c].next = h[c].next
  BY <1>3, <1>4 DEF InUse
<1>8. LowestFree(g, lf2)
  <2>1. lf \in DOMAIN h /\ lf \in Nat /\ (lf = ram_end \/ ~h[lf].used)
    BY ListHas DEF LowestFree
  <2>2. lf2 \in DOMAIN g /\ (lf2 = ram_end \/ ~g[lf2].used)
    BY <1>3, <2>1
  <2>3. ASSUME NEW c \in Block(g), ~g[c].used PROVE lf2 <= c
    <3>1. CASE c = b
      BY <1>1, <2>1, <3>1
    <3>2. CASE c # b
      <4>1. c \in Block(h) /\ ~h[c].used /\ c \in Nat
        BY <1>3, <1>4, <2>3, <3>2
      <4>2. lf <= c
        BY <4>1 DEF LowestFree
      <4> QED
        BY <1>1, <2>1, <4>1, <4>2
    <3> QED
      BY <3>1, <3>2
  <2> QED
    BY <2>2, <2>3 DEF LowestFree
<1>9. g[mem].next = b /\ b <= h[mem].next
  <2>1. h[mem].next \in Nat
    BY <1>4, ListHas
  <2> QED
    BY <1>1, <1>3, <1>4, <2>1, Sizings
<1>10. mem + SIZEOF_STRUCT_MEM + newsize <= g[mem].next
  BY <1>1, <1>9
<1> QED
  BY <1>3, <1>5, <1>6, <1>7, <1>8, <1>9, <1>10 DEF Cut, Plugged

\* The free block behind is moved down.
LEMMA MoveCuts ==
  ASSUME NEW h, NEW lf, List(h), Plugged(h), LowestFree(h, lf),
         NEW mem \in Block(h), h[mem].used,
         NEW n, n = h[mem].next, ~h[n].used,
         NEW newsize \in Nat, newsize % MEM_ALIGNMENT = 0, MIN_SIZE_ALIGNED <= newsize,
         NEW b, b = mem + SIZEOF_STRUCT_MEM + newsize, b <= n,
         NEW g, g = Split(Merge(h, mem, n), mem, b),
         NEW lf2, lf2 = IF lf = n THEN b ELSE lf
  PROVE  Cut(g, lf2, h, mem, newsize)
<1>1. /\ b \in Nat /\ b % MEM_ALIGNMENT = 0 /\ mem < b /\ mem \in Nat
      /\ mem + SIZEOF_STRUCT_MEM + MIN_SIZE_ALIGNED <= b
  BY CutAt
<1>2. /\ h[ram_end].used /\ n \in DOMAIN h /\ n # ram_end /\ n \in Block(h) /\ mem < n
      /\ \A c \in DOMAIN h : c <= mem \/ c >= n
      /\ mem \in DOMAIN h
  BY ListHas
<1>3. PICK e : e = h[n].next
  OBVIOUS
<1>4. /\ e \in DOMAIN h /\ n < e /\ n + SIZEOF_STRUCT_MEM + MIN_SIZE_ALIGNED <= e
  BY <1>2, <1>3, ListHas
<1>5. n \in Nat /\ e \in Nat
  BY <1>2, <1>4, ListHas
<1>6. PICK m : m = Merge(h, mem, n)
  OBVIOUS
<1>7. Merges(m, h, mem, n)
  BY <1>2, <1>6, MergeList
<1>8. /\ List(m) /\ DOMAIN m = DOMAIN h \ {n} /\ Block(m) = Block(h) \ {n}
      /\ mem \in Block(m) /\ mem \in DOMAIN m
      /\ \A c \in DOMAIN m : /\ m[c].next = IF c = mem THEN e ELSE h[c].next
                             /\ m[c].used = h[c].used
  BY <1>3, <1>7 DEF Merges, Block
<1>9. m[mem].next = e
  BY <1>8
<1>10. b + SIZEOF_STRUCT_MEM + MIN_SIZE_ALIGNED <= m[mem].next
  BY <1>1, <1>4, <1>5, <1>9, Sizings
<1>11. Splits(g, m, mem, b)
  BY <1>1, <1>6, <1>8, <1>10, SplitList
<1>12. /\ List(g) /\ b \notin DOMAIN m /\ b \in Block(g)
       /\ DOMAIN g = DOMAIN m \union {b} /\ Block(g) = Block(m) \union {b}
       /\ \A c \in DOMAIN m : /\ g[c].next = IF c = mem THEN b ELSE m[c].next
                              /\ g[c].used = m[c].used
       /\ g[b].next = e /\ g[b].used = FALSE
  BY <1>9, <1>11 DEF Splits
<1>13. \A c \in Block(h) : c \in DOMAIN h /\ h[c].next \in DOMAIN h /\ c \in Nat
  BY ListHas
<1>14. \A c \in Block(m) : /\ c \in DOMAIN m /\ c \in Block(h) /\ c # n
                           /\ g[c].used = h[c].used
  BY <1>8, <1>12 DEF Block
\* Only mem led to n.
<1>15. \A c \in Block(m) \ {mem} : g[c].next = h[c].next /\ h[c].next \in DOMAIN m
  <2> SUFFICES ASSUME NEW c \in Block(m) \ {mem}
               PROVE  g[c].next = h[c].next /\ h[c].next \in DOMAIN m
    OBVIOUS
  <2>1. h[c].next # n
    BY <1>2, <1>14, OneBefore
  <2> QED
    BY <1>8, <1>12, <1>13, <1>14, <2>1
<1>16. ASSUME NEW c \in Block(g) PROVE g[c].used \/ g[g[c].next].used
  <2>1. CASE c = b
    <3>1. h[e].used /\ e \in DOMAIN m
      BY <1>2, <1>3, <1>4, <1>5, <1>8 DEF Plugged
    <3> QED
      BY <1>8, <1>12, <2>1, <3>1
  <2>2. CASE c = mem
    BY <1>8, <1>14, <2>2
  <2>3. CASE c # b /\ c # mem
    <3>1. c \in Block(m) \ {mem}
      BY <1>12, <2>3
    <3>2. h[c].used \/ h[h[c].next].used
      BY <1>14, <3>1 DEF Plugged
    <3> QED
      BY <1>8, <1>12, <1>14, <1>15, <3>1, <3>2
  <2> QED
    BY <2>1, <2>2, <2>3
<1>17. InUse(g) = InUse(h)
  BY <1>8, <1>12, <1>14 DEF InUse
<1>18. \A c \in InUse(h) \ {mem} : g[c].next = h[c].next
  <2> SUFFICES ASSUME NEW c \in InUse(h) \ {mem} PROVE g[c].next = h[c].next
    OBVIOUS
  <2>1. c \in Block(m) \ {mem}
    BY <1>8 DEF InUse
  <2> QED
    BY <1>15, <2>1
<1>19. LowestFree(g, lf2)
  <2>1. lf \in DOMAIN h /\ lf \in Nat /\ (lf = ram_end \/ ~h[lf].used) /\ lf <= n
    BY <1>2, ListHas DEF LowestFree
  <2>2. CASE lf = n
    <3>1. lf2 = b /\ lf2 \in DOMAIN g /\ ~g[lf2].used
      BY <1>12, <2>2
    <3>2. ASSUME NEW c \in Block(g), ~g[c].used PROVE b <= c
      <4>1. CASE c = b
        BY <1>1, <4>1
      <4>2. CASE c # b
        <5>1. c \in Block(m) /\ ~h[c].used /\ c \in Block(h) /\ c \in Nat
          BY <1>12, <1>13, <1>14, <3>2, <4>2
        <5>2. n <= c
          BY <2>2, <5>1 DEF LowestFree
        <5> QED
          BY <1>1, <1>5, <5>1, <5>2
      <4> QED
        BY <4>1, <4>2
    <3> QED
      BY <3>1, <3>2 DEF LowestFree
  <2>3. CASE lf # n
    <3>1. lf2 = lf /\ lf \in DOMAIN m /\ lf # ram_end
      <4>1. n <= ram_end
        BY <1>2, ListHas
      <4> QED
        BY <1>2, <1>5, <1>8, <2>1, <2>3, <4>1, ListHas
    <3>2. lf \in DOMAIN g /\ ~g[lf].used
      BY <1>8, <1>12, <2>1, <3>1
    <3>3. lf < b
      <4>1. lf <= mem
        BY <1>1, <1>2, <1>5, <2>1, <2>3
      <4> QED
        BY <1>1, <2>1, <4>1
    <3>4. ASSUME NEW c \in Block(g), ~g[c].used PROVE lf <= c
      <4>1. CASE c = b
        BY <1>1, <2>1, <3>3, <4>1
      <4>2. CASE c # b
        <5>1. c \in Block(h) /\ ~h[c].used
          BY <1>12, <1>14, <3>4, <4>2
        <5> QED
          BY <5>1 DEF LowestFree
      <4> QED
        BY <4>1, <4>2
    <3> QED
      BY <3>1, <3>2, <3>4 DEF LowestFree
  <2> QED
    BY <2>2, <2>3
<1>20. g[mem].next = b
  BY <1>8, <1>12
<1>21. mem + SIZEOF_STRUCT_MEM + newsize <= g[mem].next
  BY <1>1, <1>20
<1>22. Plugged(g)
  BY <1>16 DEF Plugged
<1>23. g[mem].next <= h[mem].next /\ List(g)
  BY <1>1, <1>12, <1>20
<1> QED
  BY <1>17, <1>18, <1>19, <1>21, <1>22, <1>23 DEF Cut

\* The step: the block is cut in one of the ways of the code, or left alone.
LEMMA TrimIs ==
  ASSUME HeapInv, NEW rmem \in DOMAIN owned, NEW n \in Sizes, mem_trim(rmem, n)
  PROVE  /\ Cut(heap', lfree', heap, Mem(rmem), Expand(n))
         /\ n <= owned[rmem] /\ ret' = rmem /\ owned' = [owned EXCEPT ![rmem] = n]
<1>1. PICK mem : mem = Mem(rmem)
  OBVIOUS
<1>2. PICK newsize : newsize = Expand(n)
  OBVIOUS
<1>3. n <= owned[rmem]
  BY DEF mem_trim
<1>4. /\ ~Impossible(n) /\ newsize \in Nat /\ newsize % MEM_ALIGNMENT = 0
      /\ MIN_SIZE_ALIGNED <= newsize /\ newsize <= DataSize(mem)
      /\ mem + SIZEOF_STRUCT_MEM + newsize <= heap[mem].next
      /\ mem \in Block(heap) /\ heap[mem].used
  BY <1>1, <1>2, <1>3, NewSize
<1>5. List(heap) /\ Plugged(heap) /\ LowestFree(heap, lfree)
  BY DEF HeapInv
<1>6. mem \in Nat /\ heap[mem].next \in Nat /\ DataSize(mem) \in Int
  <2>1. mem \in Nat /\ heap[mem].next \in Nat
    BY <1>4, <1>5, ListHas DEF Block
  <2> QED
    BY <2>1, Sizings DEF DataSize
<1>7. /\ TrimTo(mem, newsize) /\ ret' = rmem /\ owned' = [owned EXCEPT ![rmem] = n]
  <2>1. ~(Impossible(n) \/ newsize > DataSize(mem))
    BY <1>4, <1>6
  <2> QED
    BY <1>1, <1>2, <2>1 DEF mem_trim
<1>8. PICK b : b = mem + SIZEOF_STRUCT_MEM + newsize
  OBVIOUS
<1>9. PICK next : next = heap[mem].next
  OBVIOUS
<1>10. TrimEnd(mem, newsize) = b
  BY <1>8 DEF TrimEnd
<1>11. Cut(heap', lfree', heap, mem, newsize)
  <2>1. CASE UNCHANGED <<heap, lfree>>
    <3>1. heap' = heap /\ lfree' = lfree
      BY <2>1
    <3> QED
      BY <1>4, <1>5, <1>6, <3>1 DEF Cut
  <2>2. CASE ~heap[next].used /\ TrimMove(mem, b)
    <3>1. /\ heap' = Split(Merge(heap, mem, next), mem, b)
          /\ lfree' = IF lfree = next THEN b ELSE lfree
      BY <1>9, <2>2 DEF TrimMove
    <3>2. PICK g, lf : g = heap' /\ lf = lfree'
      OBVIOUS
    <3>3. /\ g = Split(Merge(heap, mem, next), mem, b)
          /\ lf = IF lfree = next THEN b ELSE lfree
          /\ b <= next
      BY <1>4, <1>8, <1>9, <3>1, <3>2
    <3>4. Cut(g, lf, heap, mem, newsize)
      BY <1>4, <1>5, <1>8, <1>9, <2>2, <3>3, MoveCuts
    <3> QED
      BY <3>2, <3>4
  <2>3. CASE heap[next].used /\ LeavesBlock(mem, newsize) /\ TrimSplit(mem, b)
    <3>1. heap' = Split(heap, mem, b) /\ lfree' = IF b < lfree THEN b ELSE lfree
      BY <2>3 DEF TrimSplit
    <3>2. PICK g, lf : g = heap' /\ lf = lfree'
      OBVIOUS
    <3>3. g = Split(heap, mem, b) /\ lf = IF b < lfree THEN b ELSE lfree
      BY <3>1, <3>2
    <3>4. b + SIZEOF_STRUCT_MEM + MIN_SIZE_ALIGNED <= heap[mem].next
      BY <1>4, <1>6, <1>8, <2>3, Sizings DEF LeavesBlock, DataSize
    <3>5. heap[heap[mem].next].used
      BY <1>9, <2>3
    <3>6. Cut(g, lf, heap, mem, newsize)
      BY <1>4, <1>5, <1>8, <3>3, <3>4, <3>5, SplitCuts
    <3> QED
      BY <3>2, <3>6
  <2>4. \/ UNCHANGED <<heap, lfree>>
        \/ ~heap[next].used /\ TrimMove(mem, b)
        \/ heap[next].used /\ LeavesBlock(mem, newsize) /\ TrimSplit(mem, b)
    <3>1. CASE newsize = DataSize(mem)
      BY <1>7, <3>1 DEF TrimTo
    <3>2. CASE newsize # DataSize(mem) /\ ~heap[next].used
      BY <1>7, <1>9, <1>10, <3>2 DEF TrimTo, Used
    <3>3. CASE newsize # DataSize(mem) /\ heap[next].used
      BY <1>7, <1>9, <1>10, <3>3 DEF TrimTo, Used
    <3> QED
      BY <3>1, <3>2, <3>3
  <2> QED
    BY <2>1, <2>2, <2>3, <2>4
<1> QED
  BY <1>1, <1>2, <1>3, <1>7, <1>11

\* mem_trim keeps the invariant.
LEMMA TrimStep ==
  ASSUME HeapInv, NEW rmem \in DOMAIN owned, NEW n \in Sizes, mem_trim(rmem, n)
  PROVE  HeapInv'
<1>1. PICK g : g = heap'
  OBVIOUS
<1>2. PICK o : o = owned'
  OBVIOUS
<1>3. PICK mem : mem = Mem(rmem)
  OBVIOUS
<1>4. PICK newsize : newsize = Expand(n)
  OBVIOUS
<1>5. /\ List(g) /\ Plugged(g) /\ LowestFree(g, lfree')
      /\ InUse(g) = InUse(heap)
      /\ \A c \in InUse(heap) \ {mem} : g[c].next = heap[c].next
      /\ mem + SIZEOF_STRUCT_MEM + newsize <= g[mem].next
  BY <1>1, <1>3, <1>4, TrimIs DEF Cut
<1>6. /\ DOMAIN o = DOMAIN owned /\ o[rmem] = n
      /\ \A p \in DOMAIN o : p # rmem => o[p] = owned[p]
  BY <1>2, TrimIs
<1>7. /\ ~Impossible(n) /\ n \in 0..MEM_SIZE_T - 1 /\ rmem = mem + SIZEOF_STRUCT_MEM
  BY <1>3, <1>4, TrimIs, NewSize
<1>8. List(heap) /\ Held(heap, owned)
  BY DEF HeapInv
<1>9. Held(g, o)
  <2>1. DOMAIN o = {Data(b) : b \in InUse(g)}
    BY <1>5, <1>6, <1>8 DEF Held
  <2>2. ASSUME NEW b \in InUse(g)
        PROVE  /\ o[Data(b)] \in 0..MEM_SIZE_T - 1 /\ ~Impossible(o[Data(b)])
               /\ g[b].next >= Data(b) + Expand(o[Data(b)])
    <3>1. CASE b = mem
      <4>1. Data(b) = rmem
        BY <1>7, <3>1 DEF Data
      <4>2. mem \in Nat /\ newsize \in Nat /\ g[mem].next \in Nat
        <5>1. mem \in DOMAIN g
          BY <3>1 DEF InUse, Block
        <5>2. mem \in Nat /\ g[mem].next \in Nat
          BY <1>5, <5>1, ListHas
        <5> QED
          BY <1>4, <1>7, <5>2, ExpandIs
      <4>3. g[b].next >= rmem + newsize
        BY <1>5, <1>7, <3>1, <4>2, Sizings
      <4> QED
        BY <1>4, <1>6, <1>7, <4>1, <4>3
    <3>2. CASE b # mem
      <4>1. b \in InUse(heap) /\ g[b].next = heap[b].next /\ b \in Nat
        BY <1>5, <1>8, <3>2, ListHas DEF InUse, Block
      <4>2. mem \in Nat /\ rmem = Data(mem)
        BY <1>3, <1>8, PointerOf
      <4>3. Data(b) # rmem
        BY <3>2, <4>1, <4>2, DataOf
      <4>4. o[Data(b)] = owned[Data(b)]
        BY <1>6, <2>1, <4>3
      <4> QED
        BY <1>8, <4>1, <4>4 DEF Held
    <3> QED
      BY <3>1, <3>2
  <2> QED
    BY <2>1, <2>2 DEF Held
<1> QED
  BY <1>1, <1>2, <1>5, <1>9 DEF HeapInv

-----------------------------------------------------------------------------
(* The invariant.                                                          *)

\* mem_init.
LEMMA InitHeap ==
  ASSUME Init
  PROVE  HeapInv
<1>1. /\ ram_end \in Nat /\ ram_end # 0 /\ ram_end > 0 /\ ram_end = MEM_SIZE_ALIGNED
      /\ SIZEOF_STRUCT_MEM + MIN_SIZE_ALIGNED <= ram_end
      /\ SIZEOF_STRUCT_MEM \in Nat /\ MIN_SIZE_ALIGNED \in Nat
  <2>1. MIN_SIZE_ALIGNED > 0 /\ SIZEOF_STRUCT_MEM > 0
    BY Sizings
  <2> QED
    BY <2>1, Sizings
<1>2. heap = [b \in {0, ram_end} |->
                [next |-> ram_end, prev |-> b, used |-> b = ram_end]]
  BY <1>1 DEF Init
<1>3. /\ DOMAIN heap = {0, ram_end}
      /\ heap[0] = [next |-> ram_end, prev |-> 0, used |-> FALSE]
      /\ heap[ram_end] = [next |-> ram_end, prev |-> ram_end, used |-> TRUE]
  BY <1>1, <1>2
<1>4. heap \in [DOMAIN heap -> Structs]
  <2>1. heap[0] \in Structs /\ heap[ram_end] \in Structs
    BY <1>1, <1>3 DEF Structs
  <2> QED
    BY <1>2, <1>3, <2>1
<1>5. Block(heap) = {0}
  BY <1>1, <1>3 DEF Block
<1>6. GoodBlock(heap, 0)
  <2>1. 0 % MEM_ALIGNMENT = 0
    BY Sizings
  <2> QED
    BY <1>1, <1>3, <2>1 DEF GoodBlock
<1>7. List(heap)
  BY <1>1, <1>3, <1>4, <1>5, <1>6 DEF List
<1>8. Plugged(heap)
  BY <1>3, <1>5 DEF Plugged
<1>9. LowestFree(heap, lfree)
  BY <1>3, <1>5 DEF LowestFree, Init
<1>10. Held(heap, owned)
  <2>1. InUse(heap) = {} /\ DOMAIN owned = {}
    BY <1>3, <1>5 DEF InUse, Init
  <2> QED
    BY <2>1 DEF Held
<1> QED
  BY <1>7, <1>8, <1>9, <1>10 DEF HeapInv

\* Every step keeps the heap's invariant.
LEMMA NextHeap ==
  ASSUME HeapInv, [Next]_vars
  PROVE  HeapInv'
<1>1. CASE \E n \in Sizes : mem_malloc(n)
  BY <1>1, MallocStep
<1>2. CASE \E n \in Sizes : MallocFails(n)
  BY <1>2 DEF MallocFails, HeapInv
<1>3. CASE \E rmem \in DOMAIN owned : mem_free(rmem)
  BY <1>3, FreeStep
<1>4. CASE \E rmem \in DOMAIN owned, n \in Sizes : mem_trim(rmem, n)
  BY <1>4, TrimStep
<1>5. CASE UNCHANGED vars
  BY <1>5 DEF vars, HeapInv
<1> QED
  BY <1>1, <1>2, <1>3, <1>4, <1>5 DEF Next

\* The invariant, whatever is asked for, given back and cut.
THEOREM HeapInvariance == Spec => []HeapInv
<1>1. Init => HeapInv
  BY InitHeap
<1>2. HeapInv /\ [Next]_vars => HeapInv'
  BY NextHeap
<1> QED
  BY <1>1, <1>2, PTL DEF Spec

\* The list of blocks stays what mem_sanity (mem.c:555-594) asks for: mem_malloc,
\* mem_free with plug_holes, and mem_trim keep every link right in both ways.
THEOREM ListSound == Spec => []Linked
<1>1. HeapInv => Linked
  BY ListLinked DEF HeapInv
<1> QED
  BY <1>1, HeapInvariance, PTL

\* lfree never passes a free block, so that the search of mem_malloc, which
\* begins there (mem.c:857), overlooks none.
THEOREM NoneOverlooked == Spec => []LfreeLowest
<1>1. HeapInv => LfreeLowest
  BY ListLinked DEF HeapInv
<1> QED
  BY <1>1, HeapInvariance, PTL

-----------------------------------------------------------------------------
(* The promises of module Allocator.                                       *)

\* Two blocks share no byte.
LEMMA Apart ==
  ASSUME NEW h, List(h), NEW b \in Block(h), NEW c \in Block(h), b # c
  PROVE  h[b].next <= c \/ h[c].next <= b
<1>1. /\ b \in DOMAIN h /\ c \in DOMAIN h
      /\ \A d \in DOMAIN h : d <= b \/ d >= h[b].next
      /\ \A d \in DOMAIN h : d <= c \/ d >= h[c].next
  BY ListHas
<1>2. b \in Nat /\ c \in Nat /\ h[b].next \in Nat /\ h[c].next \in Nat
  BY <1>1, ListHas
<1> QED
  BY <1>1, <1>2

\* Every byte of the memory is one of a block.
LEMMA Within ==
  ASSUME NEW h, List(h), NEW x \in Nat, x < ram_end
  PROVE  \E b \in Block(h) : b <= x /\ x < h[b].next
<1>1. 0 \in DOMAIN h /\ ram_end \in Nat /\ \A c \in DOMAIN h : c \in Nat
  BY ListHas DEF List
<1> DEFINE S == {x - c : c \in {d \in DOMAIN h : d <= x}}
<1>2. S \subseteq Nat /\ S # {}
  BY <1>1
<1>3. PICK low : low = Lowest(S)
  OBVIOUS
<1>4. low \in S /\ \A y \in S : low <= y
  <2> HIDE DEF S
  <2> QED
    BY <1>2, <1>3, LowestIs
<1>5. PICK b \in DOMAIN h : b <= x /\ low = x - b
  BY <1>4
<1>6. b \in Block(h) /\ b \in Nat
  BY <1>1, <1>5 DEF Block
<1>7. PICK n : n = h[b].next
  OBVIOUS
<1>8. n \in DOMAIN h /\ b < n
  BY <1>6, <1>7, ListHas
<1>9. n \in Nat
  BY <1>1, <1>8
<1>10. x < n
  <2> SUFFICES ASSUME n <= x PROVE FALSE
    BY <1>9
  <2>1. low <= x - n
    BY <1>4, <1>8
  <2> QED
    BY <1>5, <1>6, <1>8, <1>9, <2>1
<1> QED
  BY <1>5, <1>6, <1>7, <1>10

Regions == {[start |-> Mem(p), end |-> heap[Mem(p)].next,
             size |-> owned[p]] : p \in DOMAIN owned}
Result == IF ret = NULL THEN -1 ELSE Mem(ret)

\* The regions are the blocks in use.
LEMMA RegionsAre ==
  ASSUME HeapInv, NEW s \in Regions
  PROVE  \E c \in InUse(heap) : s.start = c /\ s.end = heap[c].next
<1>1. PICK p \in DOMAIN owned : s = [start |-> Mem(p), end |-> heap[Mem(p)].next,
                                     size |-> owned[p]]
  BY DEF Regions
<1>2. Mem(p) \in InUse(heap)
  BY PointerOf DEF HeapInv
<1> QED
  BY <1>1, <1>2

\* So is each block that is in use.
LEMMA RegionOf ==
  ASSUME HeapInv, NEW c \in InUse(heap)
  PROVE  \E s \in Regions : s.start = c /\ s.end = heap[c].next
<1>1. c \in Nat
  BY ListHas DEF HeapInv, InUse, Block
<1>2. Data(c) \in DOMAIN owned /\ Mem(Data(c)) = c
  BY <1>1, DataOf DEF HeapInv, Held
<1>3. PICK s : s = [start |-> Mem(Data(c)), end |-> heap[Mem(Data(c))].next,
                    size |-> owned[Data(c)]]
  OBVIOUS
<1>4. s \in Regions
  BY <1>2, <1>3, Zenon DEF Regions
<1>5. s.start = c /\ s.end = heap[c].next
  BY <1>2, <1>3
<1> QED
  BY <1>4, <1>5

\* What mem_malloc gives out is a region of its own.
LEMMA MallocRefines ==
  ASSUME HeapInv, NEW n \in Sizes, mem_malloc(n)
  PROVE  A!Malloc(n)
<1>1. PICK mem \in Block(heap) :
        /\ Taking(heap', heap, mem, Expand(n))
        /\ ret' = Data(mem)
        /\ owned' = [p \in DOMAIN owned \union {Data(mem)} |->
                       IF p = Data(mem) THEN n ELSE owned[p]]
  BY MallocIs
<1>2. PICK g : g = heap'
  OBVIOUS
<1>3. PICK size : size = Expand(n)
  OBVIOUS
<1>4. PICK o : o = owned'
  OBVIOUS
<1>5. List(heap) /\ Held(heap, owned)
  BY DEF HeapInv
<1>6. n \in 0..MEM_SIZE_T - 1 /\ ~Impossible(n)
  BY HeapAssumption DEF mem_malloc
<1>7. size \in Nat /\ n <= size /\ n \in Nat
  BY <1>3, <1>6, ExpandIs, Sizings
<1>8. PICK e : e = g[mem].next
  OBVIOUS
<1>9. /\ List(g) /\ mem \in Block(g) /\ mem \notin InUse(heap)
      /\ \A c \in InUse(heap) : g[c].next = heap[c].next
      /\ mem + SIZEOF_STRUCT_MEM + size <= e /\ e <= heap[mem].next
  BY <1>1, <1>2, <1>3, <1>8 DEF Taking
<1>10. mem \in Nat /\ mem < ram_end /\ mem % MEM_ALIGNMENT = 0 /\ heap[mem].next \in Nat
  BY <1>5, ListHas DEF Block
<1>11. e \in Nat /\ e <= ram_end
  BY <1>8, <1>9, ListHas DEF Block
<1>12. ret' # NULL /\ Mem(ret') = mem
  <2>1. Data(mem) \in Nat /\ Mem(Data(mem)) = mem
    BY <1>10, DataOf
  <2> QED
    BY <1>1, <2>1 DEF NULL
<1>13. PICK r : r = [start |-> mem, end |-> e, size |-> n]
  OBVIOUS
<1>14. A!Fits(r)
  <2>1. r.start = mem /\ r.end = e /\ r.size = n
    BY <1>13
  <2>2. e - mem >= SIZEOF_STRUCT_MEM + n
    BY <1>7, <1>9, <1>10, <1>11, Sizings
  <2>3. mem \in 0..MEM_SIZE_ALIGNED /\ e \in 0..MEM_SIZE_ALIGNED
    BY <1>10, <1>11, Sizings
  <2> QED
    BY <1>10, <2>1, <2>2, <2>3 DEF A!Fits
<1>15. ASSUME NEW s \in Regions PROVE ~A!Overlap(r, s)
  <2>1. PICK c \in InUse(heap) : s.start = c /\ s.end = heap[c].next
    BY RegionsAre
  <2>2. c \in Block(heap) /\ c # mem /\ c \in Nat /\ heap[c].next \in Nat
    BY <1>5, <1>9, ListHas DEF InUse, Block
  <2>3. heap[mem].next <= c \/ heap[c].next <= mem
    BY <1>5, <2>2, Apart
  <2>4. ~(mem < heap[c].next /\ c < e)
    BY <1>9, <1>10, <1>11, <2>2, <2>3
  <2> QED
    BY <1>13, <2>1, <2>4 DEF A!Overlap
<1>16. Regions' = Regions \union {r}
  <2>1. /\ DOMAIN o = DOMAIN owned \union {Data(mem)} /\ o[Data(mem)] = n
        /\ \A p \in DOMAIN owned : p # Data(mem) => o[p] = owned[p]
    BY <1>1, <1>4
  <2>2. \A p \in DOMAIN owned : /\ g[Mem(p)].next = heap[Mem(p)].next
                                /\ p # Data(mem)
    <3> SUFFICES ASSUME NEW p \in DOMAIN owned
                 PROVE  g[Mem(p)].next = heap[Mem(p)].next /\ p # Data(mem)
      OBVIOUS
    <3>1. Mem(p) \in InUse(heap)
      BY <1>5, PointerOf
    <3> QED
      BY <1>9, <1>10, <3>1, DataOf
  <2>3. Regions' = {[start |-> Mem(p), end |-> g[Mem(p)].next,
                     size |-> o[p]] : p \in DOMAIN o}
    BY <1>2, <1>4 DEF Regions, Mem
  <2>4. Mem(Data(mem)) = mem
    BY <1>10, DataOf
  <2>5. r = [start |-> Mem(Data(mem)), end |-> g[Mem(Data(mem))].next,
             size |-> o[Data(mem)]]
    BY <1>8, <1>13, <2>1, <2>4
  <2>6. \A p \in DOMAIN owned :
          [start |-> Mem(p), end |-> g[Mem(p)].next, size |-> o[p]]
            = [start |-> Mem(p), end |-> heap[Mem(p)].next, size |-> owned[p]]
    BY <2>1, <2>2
  <2> DEFINE Old(p) == [start |-> Mem(p), end |-> heap[Mem(p)].next, size |-> owned[p]]
             New(p) == [start |-> Mem(p), end |-> g[Mem(p)].next, size |-> o[p]]
  <2>7. /\ Regions' = {New(p) : p \in DOMAIN o} /\ Regions = {Old(p) : p \in DOMAIN owned}
        /\ r = New(Data(mem)) /\ \A p \in DOMAIN owned : New(p) = Old(p)
    BY <2>3, <2>5, <2>6 DEF Regions
  <2> HIDE DEF Old, New
  <2> QED
    BY <2>1, <2>7
<1>17. Result' = mem
  BY <1>12 DEF Result, Mem, NULL
<1>18. e \in 0..MEM_SIZE_ALIGNED /\ r = A!Region(Result', e, n) /\ A!Free(r)
  BY <1>11, <1>13, <1>14, <1>15, <1>17, Sizings DEF A!Region, A!Free, Regions
<1> QED
  BY <1>16, <1>18 DEF A!Malloc, Regions, Result

\* A place for n bytes lies in one free block, which mem_malloc would find.
LEMMA PlaceFound ==
  ASSUME HeapInv, NEW n \in Sizes, n # 0, NEW start \in 0..MEM_SIZE_ALIGNED,
         A!Free(A!Region(start, start + SIZEOF_STRUCT_MEM + n, n))
  PROVE  ~Impossible(n) /\ Candidates(Expand(n)) # {}
<1>1. n \in 0..MEM_SIZE_T - 1 /\ n \in Nat /\ n > 0
  BY HeapAssumption, Sizings
<1>2. /\ SIZEOF_STRUCT_MEM \in Nat /\ SIZEOF_STRUCT_MEM > 0 /\ MIN_SIZE_ALIGNED \in Nat
      /\ start \in Nat /\ ram_end \in Nat /\ ram_end = MEM_SIZE_ALIGNED
  BY Sizings
<1>3. PICK stop \in Nat : stop = start + SIZEOF_STRUCT_MEM + n
  BY <1>1, <1>2
<1>4. PICK r : r = [start |-> start, end |-> stop, size |-> n]
  OBVIOUS
<1>5. A!Fits(r) /\ \A s \in Regions : ~A!Overlap(r, s)
  BY <1>3, <1>4 DEF A!Free, A!Region, Regions
<1>6. stop <= ram_end /\ start < stop
  BY <1>1, <1>2, <1>3, <1>4, <1>5 DEF A!Fits
<1>7. List(heap) /\ Plugged(heap) /\ LowestFree(heap, lfree)
  BY DEF HeapInv
\* No block in use reaches into it.
<1>8. ASSUME NEW c \in Block(heap), c < stop, start < heap[c].next
      PROVE  ~heap[c].used
  <2> SUFFICES ASSUME heap[c].used PROVE FALSE
    OBVIOUS
  <2>1. c \in InUse(heap)
    BY DEF InUse
  <2>2. PICK s \in Regions : s.start = c /\ s.end = heap[c].next
    BY <2>1, RegionOf
  <2>3. A!Overlap(r, s)
    BY <1>4, <1>8, <2>2 DEF A!Overlap
  <2> QED
    BY <1>5, <2>3
<1>9. PICK b \in Block(heap) : b <= start /\ start < heap[b].next
  BY <1>2, <1>6, <1>7, Within
<1>10. PICK e : e = heap[b].next
  OBVIOUS
<1>11. /\ b \in DOMAIN heap /\ e \in DOMAIN heap /\ e <= ram_end
       /\ b + SIZEOF_STRUCT_MEM + MIN_SIZE_ALIGNED <= e
       /\ b % MEM_ALIGNMENT = 0 /\ e % MEM_ALIGNMENT = 0
       /\ e # ram_end => e \in Block(heap)
  BY <1>7, <1>10, ListHas
<1>12. b \in Nat /\ e \in Nat
  BY <1>7, <1>11, ListHas
<1>13. ~heap[b].used
  BY <1>2, <1>6, <1>8, <1>9, <1>12
<1>14. stop <= e
  <2> SUFFICES ASSUME e < stop PROVE FALSE
    BY <1>12
  <2>1. e \in Block(heap)
    BY <1>2, <1>6, <1>11, <1>12
  <2>2. e < heap[e].next /\ heap[e].next \in Nat
    BY <1>7, <2>1, ListHas DEF Block
  <2>3. ~heap[e].used
    BY <1>2, <1>8, <1>9, <1>10, <1>12, <2>1, <2>2
  <2> QED
    BY <1>7, <1>10, <1>13, <2>3 DEF Plugged
<1>15. ~Impossible(n)
  <2>1. n + SIZEOF_STRUCT_MEM <= MEM_SIZE_ALIGNED
    BY <1>1, <1>2, <1>3, <1>6
  <2> QED
    BY <1>1, <2>1, ExpandIs
<1>16. PICK room \in Nat : room = e - (b + SIZEOF_STRUCT_MEM)
  BY <1>2, <1>11, <1>12
<1>17. n <= room /\ MIN_SIZE_ALIGNED <= room
  BY <1>1, <1>2, <1>3, <1>9, <1>11, <1>12, <1>14, <1>16
<1>18. room % MEM_ALIGNMENT = 0
  <2>1. b % MEM_ALIGNMENT = 0 /\ e % MEM_ALIGNMENT = 0 /\ b \in Nat /\ e \in Nat
    BY <1>11, <1>12
  <2>2. (e - (b + SIZEOF_STRUCT_MEM)) % MEM_ALIGNMENT = 0
    BY <2>1, RoomAligned, Zenon
  <2> QED
    BY <1>16, <2>2, Zenon
<1>19. PICK size : size = Expand(n)
  OBVIOUS
<1>20. size \in Nat /\ size <= room
  <2>1. /\ Expand(n) \in Nat
        /\ \A x \in Nat : n <= x /\ MIN_SIZE_ALIGNED <= x /\ x % MEM_ALIGNMENT = 0
                            => Expand(n) <= x
    BY <1>1, ExpandIs
  <2> QED
    BY <1>17, <1>18, <1>19, <2>1
<1>21. b \in Candidates(size)
  <2>1. b < MEM_SIZE_ALIGNED - size
    BY <1>2, <1>11, <1>12, <1>16, <1>20
  <2>2. lfree <= b
    BY <1>7, <1>13 DEF LowestFree
  <2>3. DataSize(b) >= size
    BY <1>2, <1>10, <1>12, <1>16, <1>20 DEF DataSize
  <2> QED
    BY <1>11, <1>13, <2>1, <2>2, <2>3 DEF Candidates, Blocks, Used
<1> QED
  BY <1>15, <1>19, <1>21

\* mem_malloc refuses only what has no place.
LEMMA RefuseRefines ==
  ASSUME HeapInv, NEW n \in Sizes, MallocFails(n)
  PROVE  A!Refuse(n)
<1>1. n # 0 => Impossible(n) \/ Candidates(Expand(n)) = {}
  BY DEF MallocFails
<1>2. n = 0 \/ \A start \in 0..MEM_SIZE_ALIGNED :
                 ~A!Free(A!Region(start, start + SIZEOF_STRUCT_MEM + n, n))
  BY <1>1, PlaceFound
<1>3. ret' = NULL /\ heap' = heap /\ owned' = owned
  BY DEF MallocFails
<1>4. Result' = -1
  BY <1>3 DEF Result, NULL
<1>5. Regions' = Regions
  BY <1>3 DEF Regions, Mem
<1> QED
  BY <1>2, <1>4, <1>5 DEF A!Refuse, A!None, Regions, Result

\* mem_free ends one region and leaves the others where they are.
LEMMA FreeRefines ==
  ASSUME HeapInv, NEW rmem \in DOMAIN owned, mem_free(rmem)
  PROVE  A!GiveBack
<1>1. PICK g, o : g = heap' /\ o = owned'
  OBVIOUS
<1>2. /\ InUse(g) = InUse(heap) \ {Mem(rmem)}
      /\ \A c \in InUse(g) : g[c].next = heap[c].next
      /\ DOMAIN o = DOMAIN owned \ {rmem} /\ \A p \in DOMAIN o : o[p] = owned[p]
      /\ ret' = ret
  BY <1>1, FreeIs
<1>3. \A p \in DOMAIN owned : /\ Mem(p) \in InUse(heap)
                              /\ Mem(p) = Mem(rmem) => p = rmem
  <2> SUFFICES ASSUME NEW p \in DOMAIN owned
               PROVE  Mem(p) \in InUse(heap) /\ (Mem(p) = Mem(rmem) => p = rmem)
    OBVIOUS
  <2>1. p = Data(Mem(p)) /\ rmem = Data(Mem(rmem)) /\ Mem(p) \in InUse(heap)
    BY PointerOf DEF HeapInv
  <2> QED
    BY <2>1
<1> DEFINE Old(p) == [start |-> Mem(p), end |-> heap[Mem(p)].next, size |-> owned[p]]
           New(p) == [start |-> Mem(p), end |-> g[Mem(p)].next, size |-> o[p]]
<1>4. \A p \in DOMAIN o : New(p) = Old(p)
  BY <1>2, <1>3
<1>5. \A p \in DOMAIN o : Old(p) # Old(rmem)
  <2> SUFFICES ASSUME NEW p \in DOMAIN o, Old(p) = Old(rmem) PROVE FALSE
    OBVIOUS
  <2>1. Old(p).start = Mem(p) /\ Old(rmem).start = Mem(rmem)
    OBVIOUS
  <2>2. Mem(p) = Mem(rmem)
    <3> HIDE DEF Old
    <3> QED
      BY <2>1
  <2> QED
    BY <1>2, <1>3, <2>2
<1>6. Regions = {Old(p) : p \in DOMAIN owned} /\ Regions' = {New(p) : p \in DOMAIN o}
  BY <1>1 DEF Regions, Mem
<1> HIDE DEF Old, New
<1>7. Old(rmem) \in Regions /\ Regions' = Regions \ {Old(rmem)}
  BY <1>2, <1>4, <1>5, <1>6
<1>8. Result' = Result
  BY <1>2 DEF Result, Mem
<1> QED
  BY <1>7, <1>8 DEF A!GiveBack, Regions, Result

\* mem_trim shortens one region.
LEMMA TrimRefines ==
  ASSUME HeapInv, NEW rmem \in DOMAIN owned, NEW n \in Sizes, mem_trim(rmem, n)
  PROVE  A!Trim(n)
<1>1. PICK g, o : g = heap' /\ o = owned'
  OBVIOUS
<1>2. PICK mem : mem = Mem(rmem)
  OBVIOUS
<1>3. PICK newsize : newsize = Expand(n)
  OBVIOUS
<1>4. PICK e : e = g[mem].next
  OBVIOUS
<1>5. /\ List(g) /\ InUse(g) = InUse(heap)
      /\ \A c \in InUse(heap) \ {mem} : g[c].next = heap[c].next
      /\ mem + SIZEOF_STRUCT_MEM + newsize <= e /\ e <= heap[mem].next
  BY <1>1, <1>2, <1>3, <1>4, TrimIs DEF Cut
<1>6. /\ DOMAIN o = DOMAIN owned /\ o[rmem] = n
      /\ \A p \in DOMAIN o : p # rmem => o[p] = owned[p]
      /\ ret' = rmem /\ n <= owned[rmem]
  BY <1>1, TrimIs
<1>7. /\ newsize \in Nat /\ n <= newsize /\ n \in 0..MEM_SIZE_T - 1
      /\ mem \in Block(heap) /\ rmem = mem + SIZEOF_STRUCT_MEM /\ heap[mem].used
  BY <1>2, <1>3, <1>6, NewSize
<1>8. \A p \in DOMAIN owned : /\ Mem(p) \in InUse(heap) /\ p \in Nat
                              /\ Mem(p) = mem => p = rmem
  <2> SUFFICES ASSUME NEW p \in DOMAIN owned
               PROVE  Mem(p) \in InUse(heap) /\ p \in Nat /\ (Mem(p) = mem => p = rmem)
    OBVIOUS
  <2>1. p = Data(Mem(p)) /\ rmem = Data(mem) /\ Mem(p) \in InUse(heap) /\ p \in Nat
    BY <1>2, PointerOf DEF HeapInv
  <2> QED
    BY <2>1
<1>9. mem \in InUse(g) /\ mem \in Nat /\ mem < ram_end /\ mem % MEM_ALIGNMENT = 0
  BY <1>5, <1>7, ListHas DEF InUse, Block, HeapInv
<1>10. e \in Nat /\ e <= ram_end
  BY <1>4, <1>5, <1>9, ListHas DEF InUse
<1> DEFINE Old(p) == [start |-> Mem(p), end |-> heap[Mem(p)].next, size |-> owned[p]]
           New(p) == [start |-> Mem(p), end |-> g[Mem(p)].next, size |-> o[p]]
<1>11. Old(rmem).start = mem /\ Old(rmem).end = heap[mem].next
  BY <1>2
<1>12. New(rmem) = [start |-> mem, end |-> e, size |-> n]
  BY <1>2, <1>4, <1>6
<1>13. \A p \in DOMAIN owned : p # rmem => New(p) = Old(p)
  BY <1>5, <1>6, <1>8
<1>14. \A p \in DOMAIN owned : p # rmem => Old(p) # Old(rmem)
  <2> SUFFICES ASSUME NEW p \in DOMAIN owned, p # rmem, Old(p) = Old(rmem) PROVE FALSE
    OBVIOUS
  <2>1. Old(p).start = Mem(p)
    OBVIOUS
  <2>2. Mem(p) = mem
    <3> HIDE DEF Old
    <3> QED
      BY <1>11, <2>1
  <2> QED
    BY <1>8, <2>2
<1>15. Regions = {Old(p) : p \in DOMAIN owned} /\ Regions' = {New(p) : p \in DOMAIN o}
  BY <1>1 DEF Regions, Mem
<1> HIDE DEF Old, New
<1>16. PICK r : r = Old(rmem)
  OBVIOUS
<1>17. PICK s : s = New(rmem)
  OBVIOUS
<1>18. r \in Regions /\ Regions' = (Regions \ {r}) \union {s}
  BY <1>6, <1>13, <1>14, <1>15, <1>16, <1>17
<1>19. Result' = mem
  BY <1>2, <1>6, <1>7, <1>8 DEF Result, NULL, Mem
<1>20. A!Fits(s)
  <2>1. s.start = mem /\ s.end = e /\ s.size = n
    BY <1>12, <1>17
  <2>2. e - mem >= SIZEOF_STRUCT_MEM + n
    BY <1>5, <1>7, <1>9, <1>10, Sizings
  <2>3. mem \in 0..MEM_SIZE_ALIGNED /\ e \in 0..MEM_SIZE_ALIGNED
    BY <1>9, <1>10, Sizings
  <2> QED
    BY <1>9, <2>1, <2>2, <2>3 DEF A!Fits
<1>21. /\ s = A!Region(r.start, e, n) /\ e <= r.end /\ e \in 0..MEM_SIZE_ALIGNED
       /\ Result' = r.start
  BY <1>5, <1>10, <1>11, <1>12, <1>16, <1>17, <1>19, Sizings DEF A!Region
<1> QED
  BY <1>18, <1>20, <1>21 DEF A!Trim, Regions, Result

\* The heap starts as the abstract allocator does.
LEMMA InitAllocator ==
  ASSUME Init
  PROVE  A!Init
<1>1. DOMAIN owned = {} /\ ret = NULL
  BY DEF Init
<1>2. Regions = {} /\ Result = -1
  BY <1>1 DEF Regions, Result
<1> QED
  BY <1>2 DEF A!Init, A!None, Regions, Result

\* Every step of the heap is a step of the abstract allocator, or none.
LEMMA NextAllocator ==
  ASSUME HeapInv, [Next]_vars
  PROVE  [A!Next]_(A!vars)
<1>1. CASE \E n \in Sizes : mem_malloc(n)
  BY <1>1, MallocRefines DEF A!Next
<1>2. CASE \E n \in Sizes : MallocFails(n)
  BY <1>2, RefuseRefines DEF A!Next
<1>3. CASE \E rmem \in DOMAIN owned : mem_free(rmem)
  BY <1>3, FreeRefines DEF A!Next
<1>4. CASE \E rmem \in DOMAIN owned, n \in Sizes : mem_trim(rmem, n)
  BY <1>4, TrimRefines DEF A!Next
<1>5. CASE UNCHANGED vars
  <2>1. Regions' = Regions /\ Result' = Result
    BY <1>5 DEF vars, Regions, Result, Mem, NULL
  <2> QED
    BY <2>1 DEF A!vars, Regions, Result
<1> QED
  BY <1>1, <1>2, <1>3, <1>4, <1>5 DEF Next

\* mem_malloc, mem_free and mem_trim (mem.c:604-960) keep the promises of
\* Allocator: what is given out is inside the memory, aligned, large enough and
\* shares no byte with another region, it stays until it is given back, and a
\* request is refused only when no place is left for it.
THEOREM ImplementsAllocator == Spec => AllocatorSpec
<1>1. Init => A!Init
  BY InitAllocator
<1>2. HeapInv /\ [Next]_vars => [A!Next]_(A!vars)
  BY NextAllocator
<1> QED
  BY <1>1, <1>2, HeapInvariance, PTL DEF Spec, AllocatorSpec, A!Spec
=============================================================================
