-------------------------------- MODULE Pbuf --------------------------------
(***************************************************************************)
(* Packet buffers (pbuf.c) and the pools they come from (memp.c).          *)
(*                                                                         *)
(* Calls do not interleave (NO_SYS), but the two loops in which memory     *)
(* changes hands are taken apart: pbuf_alloc takes one buffer per step     *)
(* from the pool, and pbuf_free, which calls itself through a custom free  *)
(* function, drops one reference per step.  No other call begins meanwhile.*)
(*                                                                         *)
(* The callers obey the comments of pbuf.c: they use a pbuf only while     *)
(* they hold a reference, and they reshape packets only at their first     *)
(* pbuf.  handles counts their references.  The record of a pbuf that is   *)
(* not in use is Blank.                                                    *)
(***************************************************************************)
EXTENDS Integers, Sequences, FiniteSets

CONSTANTS PoolPbufs,        \* memory of MEMP_PBUF_POOL
          RefPbufs,         \* memory of MEMP_PBUF
          CustomPbufs,      \* memory of MEMP_FRAG_PBUF
          HeapPbufs,        \* bound: pbufs from the heap at a time
          BUFSIZE,          \* PBUF_POOL_BUFSIZE_ALIGNED
          MEM_ALIGNMENT,
          SIZEOF_STRUCT_PBUF,
          U16,              \* 2^16: the values of a u16_t
          Layers,           \* room that callers reserve for headers
          Lengths,          \* lengths that callers ask for
          Headers,          \* lengths of headers that they add and remove
          MaxHandles,       \* bound: references that callers hold at a time
          MaxUsed,          \* bound: pbufs in use when a caller allocates
          NULL

Pbufs == PoolPbufs \union RefPbufs \union CustomPbufs \union HeapPbufs
Pools == {PoolPbufs, RefPbufs, CustomPbufs}

Align(n) == ((n + MEM_ALIGNMENT - 1) \div MEM_ALIGNMENT) * MEM_ALIGNMENT

\* A pbuf_alloc under way: the first and the last pbuf of the packet so far,
\* and the bytes for which there is none yet.
Allocs == [first : Pbufs, last : Pbufs, rem_len : Nat]

ASSUME PbufAssumption ==
  /\ \A S \in Pools \union {HeapPbufs} : S \subseteq Nat /\ IsFiniteSet(S)
  /\ \A S, T \in Pools : S # T => S \intersect T = {}
  /\ \A S \in Pools : S \intersect HeapPbufs = {}
  /\ PoolPbufs # RefPbufs /\ RefPbufs # CustomPbufs /\ CustomPbufs # PoolPbufs
  /\ MEM_ALIGNMENT \in Nat \ {0} /\ SIZEOF_STRUCT_PBUF \in Nat
  /\ U16 \in Nat \ {0} /\ BUFSIZE \in 0..U16 - 1
  /\ Layers \subseteq Nat /\ \A l \in Layers : Align(l) < BUFSIZE
  /\ Lengths \subseteq 0..U16 - 1 /\ Headers \subseteq 1..U16 - 1
  /\ MaxHandles \in Nat /\ MaxUsed \in Nat
  /\ NULL \notin Pbufs \union Allocs

VARIABLES pbuf,      \* the struct pbufs
          memp,      \* the free list of each pool
          handles,   \* references that callers hold
          freeing,   \* the pbufs whose pbuf_free is under way, innermost first
          alloc      \* the pbuf_alloc under way, or NULL

pbufVars == <<pbuf, memp, handles, freeing, alloc>>

Idle == alloc = NULL /\ freeing = <<>>

Blank == [ref |-> 0, next |-> NULL, original |-> NULL,
          len |-> 0, tot_len |-> 0, off |-> 0, cap |-> 0]

\* ref 1; the payload begins off bytes into memory of cap bytes.
pbuf_init_alloced_pbuf(off, cap, tot_len, len) ==
  [Blank EXCEPT !.ref = 1, !.off = off, !.cap = cap,
                !.tot_len = tot_len, !.len = len]

Contiguous(p) == p \in PoolPbufs \union HeapPbufs

Used == {p \in Pbufs : pbuf[p].ref > 0}
Linked == {pbuf[p].next : p \in Pbufs}

\* A caller may take another reference.
MayHold ==
  Cardinality(UNION {{p} \X (1..handles[p]) : p \in Pbufs}) < MaxHandles

MayAlloc == Idle /\ MayHold /\ Cardinality(Used) < MaxUsed

\* The pbufs that a caller holds, and of those the first of their packets.
Held  == {p \in Pbufs : handles[p] > 0}
Heads == Held \ Linked

SeqOf(p) == IF p = NULL THEN <<>> ELSE <<p>>
Lowest(S) == CHOOSE p \in S : \A q \in S : p <= q

\* The pbufs of a packet in order.
Chain[p \in Pbufs] ==
  <<p>> \o IF pbuf[p].next = NULL THEN <<>> ELSE Chain[pbuf[p].next]

InChain(p) == {Chain[p][i] : i \in DOMAIN Chain[p]}

-----------------------------------------------------------------------------
(* memp.c.  The pool's first element is taken, and put back first.         *)

PoolOf(p) == CHOOSE S \in Pools : p \in S

memp_malloc(pool) == memp' = [memp EXCEPT ![pool] = Tail(@)]

MempFree(p) ==
  IF p \in HeapPbufs THEN memp
  ELSE [memp EXCEPT ![PoolOf(p)] = <<p>> \o @]

-----------------------------------------------------------------------------
(* pbuf_alloc and its kin.                                                 *)

\* One turn of the loop for PBUF_POOL: a buffer, of which offset bytes are
\* for headers, joins the packet that ends with last.
TakeBuffer(last, rem_len, offset) ==
  LET q    == Head(memp[PoolPbufs])
      room == BUFSIZE - Align(offset)
      qlen == IF rem_len < room THEN rem_len ELSE room
      new  == [pbuf EXCEPT ![q] = pbuf_init_alloced_pbuf(Align(offset), BUFSIZE,
                                                         rem_len, qlen)]
  IN  /\ memp[PoolPbufs] # <<>>
      /\ memp_malloc(PoolPbufs)
      /\ pbuf' = IF last = NULL THEN new ELSE [new EXCEPT ![last].next = q]
      /\ handles' = IF last = NULL THEN [handles EXCEPT ![q] = 1] ELSE handles
      /\ alloc' = IF rem_len = qlen THEN NULL
                  ELSE [first |-> IF last = NULL THEN q ELSE alloc.first,
                        last |-> q, rem_len |-> rem_len - qlen]
      /\ UNCHANGED freeing

AllocPool ==
  /\ MayAlloc
  /\ \E layer \in Layers, length \in Lengths : TakeBuffer(NULL, length, layer)

AllocPoolMore ==
  /\ alloc # NULL /\ TakeBuffer(alloc.last, alloc.rem_len, 0)

\* Variant: only the first buffer is given back.
AllocFreed_First(p) ==
  /\ freeing' = <<p>>
  /\ pbuf' = [pbuf EXCEPT ![p].next = NULL]

AllocFreed(p) == freeing' = <<p>> /\ UNCHANGED pbuf

\* The pool is empty: the buffers taken so far are freed.
AllocPoolFails ==
  /\ alloc # NULL /\ memp[PoolPbufs] = <<>>
  /\ AllocFreed(alloc.first)
  /\ handles' = [handles EXCEPT ![alloc.first] = 0]
  /\ alloc' = NULL
  /\ UNCHANGED memp

\* Bytes for the payload of a PBUF_RAM: no pbuf if their number, or with the
\* struct pbuf the number asked of the heap, is seen to wrap.
HeapLen(layer, length) ==
  {n \in {(Align(layer) + Align(length)) % U16} :
     /\ n >= Align(length)
     /\ (Align(SIZEOF_STRUCT_PBUF) + n) % U16 >= Align(length)}

\* A pbuf in the heap, if there is memory.
NewInHeap(p, layer, length) ==
  \E n \in HeapLen(layer, length) :
    pbuf' = [pbuf EXCEPT ![p] = pbuf_init_alloced_pbuf(Align(layer), n,
                                                       length, length)]

FreeHeap == HeapPbufs \ Used

AllocRam ==
  /\ MayAlloc /\ FreeHeap # {}
  /\ \E layer \in Layers, length \in Lengths :
       NewInHeap(Lowest(FreeHeap), layer, length)
  /\ handles' = [handles EXCEPT ![Lowest(FreeHeap)] = 1]
  /\ UNCHANGED <<memp, freeing, alloc>>

\* Payload elsewhere; headers cannot be added.
pbuf_alloc_reference(length) ==
  LET p == Head(memp[RefPbufs])
  IN  /\ MayAlloc /\ memp[RefPbufs] # <<>>
      /\ memp_malloc(RefPbufs)
      /\ pbuf' = [pbuf EXCEPT ![p] = pbuf_init_alloced_pbuf(0, length, length, length)]
      /\ handles' = [handles EXCEPT ![p] = 1]
      /\ UNCHANGED <<freeing, alloc>>

\* A pbuf for a part of the payload of o, which is kept for it.
CustomOf(p, o, length) ==
  [pbuf EXCEPT ![p] = [pbuf_init_alloced_pbuf(0, length, length, length)
                         EXCEPT !.original = o],
               ![o].ref = @ + 1]

\* As ip4_frag makes the pbufs of a fragment.
pbuf_alloced_custom(o, length) ==
  LET p == Head(memp[CustomPbufs])
  IN  /\ MayAlloc /\ memp[CustomPbufs] # <<>>
      /\ o \in Held /\ length <= pbuf[o].len
      /\ memp_malloc(CustomPbufs)
      /\ pbuf' = CustomOf(p, o, length)
      /\ handles' = [handles EXCEPT ![p] = 1]
      /\ UNCHANGED <<freeing, alloc>>

-----------------------------------------------------------------------------
(* pbuf_free.                                                              *)

\* A caller gives its reference back.
pbuf_free(p) ==
  /\ Idle /\ p \in Held
  /\ freeing' = <<p>>
  /\ handles' = [handles EXCEPT ![p] = @ - 1]
  /\ UNCHANGED <<pbuf, memp, alloc>>

\* The calls that follow from one turn of the loop: the original of a custom
\* pbuf (ipfrag_free_pbuf_custom), then the rest of the packet.
FreeNext(p) ==
  IF pbuf[p].ref = 1 THEN SeqOf(pbuf[p].original) \o SeqOf(pbuf[p].next)
  ELSE <<>>

FreeStep ==
  LET p == Head(freeing)
  IN  /\ freeing # <<>>
      /\ freeing' = FreeNext(p) \o Tail(freeing)
      /\ IF pbuf[p].ref = 1
         THEN pbuf' = [pbuf EXCEPT ![p] = Blank] /\ memp' = MempFree(p)
         ELSE pbuf' = [pbuf EXCEPT ![p].ref = @ - 1] /\ UNCHANGED memp
      /\ UNCHANGED <<handles, alloc>>

pbuf_ref(p) ==
  /\ Idle /\ MayHold /\ p \in Held
  /\ pbuf' = [pbuf EXCEPT ![p].ref = @ + 1]
  /\ handles' = [handles EXCEPT ![p] = @ + 1]
  /\ UNCHANGED <<memp, freeing, alloc>>

-----------------------------------------------------------------------------
(* Packets are cut and joined.                                             *)

\* The pbuf of a packet that byte n falls into and n counted from there; the
\* last byte of a pbuf is before the first of the next one.  NULL if the
\* packet is shorter.
WalkTo[p \in Pbufs \union {NULL}] == [n \in Nat |->
  IF p # NULL /\ n > pbuf[p].len THEN WalkTo[pbuf[p].next][n - pbuf[p].len]
  ELSE [at |-> p, left |-> n]]

\* Variant: the pbufs before the cut keep their tot_len.
CutBefore_Stale(r, shrink) == r

CutBefore(r, shrink) == [r EXCEPT !.tot_len = @ - shrink]

\* The heap takes back what a pbuf of its own does not need.
CutAt(q, rem_len) ==
  [pbuf[q] EXCEPT !.len = rem_len, !.tot_len = rem_len, !.next = NULL,
                  !.cap = IF q \in HeapPbufs /\ rem_len # pbuf[q].len
                          THEN Align(pbuf[q].off + rem_len) ELSE @]

pbuf_realloc(p, new_len) ==
  LET q == WalkTo[p][new_len].at
  IN  /\ Idle /\ p \in Heads /\ new_len < pbuf[p].tot_len
      /\ pbuf' = [r \in Pbufs |->
                    IF r = q THEN CutAt(q, WalkTo[p][new_len].left)
                    ELSE IF r \in InChain(p) \ InChain(q)
                         THEN CutBefore(pbuf[r], pbuf[p].tot_len - new_len)
                         ELSE pbuf[r]]
      /\ freeing' = SeqOf(pbuf[q].next)
      /\ UNCHANGED <<memp, handles, alloc>>

HasRoom(p, n, force) == IF Contiguous(p) THEN n <= pbuf[p].off ELSE force

\* Forced only where a header was removed before.
pbuf_add_header_impl(p, n, force) ==
  /\ Idle /\ p \in Heads
  /\ (n + pbuf[p].tot_len) % U16 >= n
  /\ force => n <= pbuf[p].off
  /\ HasRoom(p, n, force)
  /\ pbuf' = [pbuf EXCEPT ![p].off = @ - n, ![p].len = @ + n, ![p].tot_len = @ + n]
  /\ UNCHANGED <<memp, handles, freeing, alloc>>

HeaderRemoved(r, n) ==
  [r EXCEPT !.off = @ + n, !.len = @ - n, !.tot_len = @ - n]

pbuf_remove_header(p, n) ==
  /\ Idle /\ p \in Heads
  /\ n <= pbuf[p].len
  /\ pbuf' = [pbuf EXCEPT ![p] = HeaderRemoved(@, n)]
  /\ UNCHANGED <<memp, handles, freeing, alloc>>

\* What is left when n bytes are freed from the front: the pbuf it begins in,
\* or NULL, and how many of its bytes.
FreeTo[p \in Pbufs \union {NULL}] == [n \in Nat |->
  IF p = NULL \/ n = 0 THEN [at |-> p, left |-> 0]
  ELSE IF n >= pbuf[p].len THEN FreeTo[pbuf[p].next][n - pbuf[p].len]
       ELSE [at |-> p, left |-> n]]

\* Used on packets that nobody shares: a pbuf that outlived its removal would
\* keep the tot_len of the whole packet.  The reference of the last link that
\* is cut becomes the caller's.
pbuf_free_header(q, size) ==
  LET to   == FreeTo[q][size]
      gone == {i \in DOMAIN Chain[q] : \A j \in 1..i : Chain[q][j] # to.at}
  IN  /\ Idle /\ q \in Heads /\ size > 0
      /\ \A r \in InChain(q) : pbuf[r].ref = 1
      /\ pbuf' = [r \in Pbufs |->
                    IF r = to.at THEN HeaderRemoved(pbuf[r], to.left)
                    ELSE IF \E i \in gone : Chain[q][i] = r
                         THEN [pbuf[r] EXCEPT !.next = NULL] ELSE pbuf[r]]
      /\ freeing' = SubSeq(Chain[q], 1, Cardinality(gone))
      /\ handles' = [r \in Pbufs |-> IF r = to.at THEN 1
                                     ELSE IF r = q THEN 0 ELSE handles[r]]
      /\ UNCHANGED <<memp, alloc>>

\* Both packets belong to the callers, and their lengths add up in 16 bits:
\* pbuf_cat does not check that.  No caller appends a fragment to the packet
\* that it was cut from: the two would keep each other alive for ever.
Joinable(h, t) ==
  /\ Idle /\ h \in Heads /\ t \in Heads /\ h # t
  /\ pbuf[h].tot_len + pbuf[t].tot_len < U16
  /\ \A c \in InChain(t) : pbuf[c].original # NULL =>
       InChain(pbuf[c].original) \intersect InChain(h) = {}

Joined(h, t) ==
  [p \in Pbufs |->
     IF p \notin InChain(h) THEN pbuf[p]
     ELSE [pbuf[p] EXCEPT !.tot_len = @ + pbuf[t].tot_len,
                          !.next = IF @ = NULL THEN t ELSE @]]

\* The caller's reference to t becomes that of the link.
pbuf_cat(h, t) ==
  /\ Joinable(h, t)
  /\ pbuf' = Joined(h, t)
  /\ handles' = [handles EXCEPT ![t] = @ - 1]
  /\ UNCHANGED <<memp, freeing, alloc>>

\* The caller keeps its reference.
pbuf_chain(h, t) ==
  /\ Joinable(h, t)
  /\ pbuf' = [Joined(h, t) EXCEPT ![t].ref = @ + 1]
  /\ UNCHANGED <<memp, handles, freeing, alloc>>

pbuf_dechain(p) ==
  LET q == pbuf[p].next
  IN  /\ Idle /\ p \in Heads /\ q # NULL
      /\ pbuf' = [pbuf EXCEPT ![q].tot_len = pbuf[p].tot_len - pbuf[p].len,
                              ![p].next = NULL, ![p].tot_len = pbuf[p].len]
      /\ freeing' = <<q>>
      /\ UNCHANGED <<memp, handles, alloc>>

\* pbuf_clone into one pbuf of the heap; what is copied is in PbufCopy.
pbuf_clone(p, layer) ==
  /\ Idle /\ p \in Heads /\ FreeHeap # {}
  /\ NewInHeap(Lowest(FreeHeap), layer, pbuf[p].tot_len)
  /\ UNCHANGED <<memp, alloc>>

\* The packet is replaced by its copy, or is a copy as well.
Coalesce(p, layer) ==
  /\ pbuf[p].next # NULL
  /\ pbuf_clone(p, layer)
  /\ handles' = [handles EXCEPT ![Lowest(FreeHeap)] = 1, ![p] = @ - 1]
  /\ freeing' = <<p>>

Clone(p, layer) ==
  /\ MayAlloc
  /\ pbuf_clone(p, layer)
  /\ handles' = [handles EXCEPT ![Lowest(FreeHeap)] = 1]
  /\ UNCHANGED freeing

-----------------------------------------------------------------------------
\* A pool, by the order in which memp_init_pool leaves its elements: the
\* last is first.
InitList(S) ==
  [i \in 1..Cardinality(S) |->
     CHOOSE p \in S : Cardinality({q \in S : q > p}) = i - 1]

PbufInit ==
  /\ pbuf = [p \in Pbufs |-> Blank]
  /\ memp = [S \in Pools |-> InitList(S)]
  /\ handles = [p \in Pbufs |-> 0]
  /\ freeing = <<>>
  /\ alloc = NULL

PbufNext ==
  \/ AllocPool \/ AllocPoolMore \/ AllocPoolFails \/ AllocRam
  \/ \E n \in Lengths : pbuf_alloc_reference(n)
  \/ \E o \in Pbufs, n \in Lengths : pbuf_alloced_custom(o, n)
  \/ FreeStep
  \/ \E p \in Pbufs : pbuf_free(p) \/ pbuf_ref(p) \/ pbuf_dechain(p)
  \/ \E p \in Pbufs, n \in Lengths : pbuf_realloc(p, n) \/ pbuf_free_header(p, n)
  \/ \E p \in Pbufs, n \in Headers :
       \/ pbuf_remove_header(p, n)
       \/ \E force \in BOOLEAN : pbuf_add_header_impl(p, n, force)
  \/ \E h, t \in Pbufs : pbuf_cat(h, t) \/ pbuf_chain(h, t)
  \/ \E p \in Pbufs, layer \in Layers : Coalesce(p, layer) \/ Clone(p, layer)

PbufSpec == PbufInit /\ [][PbufNext]_pbufVars

-----------------------------------------------------------------------------
(* Properties.                                                             *)

Times(s, p) == Cardinality({i \in DOMAIN s : s[i] = p})

\* A pbuf's count is the number of references there are (pbuf.c:727-804,
\* 832-906): the callers', the links', those of custom pbufs and those that
\* are being given back.  So nothing in use is free, and what nobody refers to
\* is in its pool again, once.
ReferencesExact ==
  /\ \A p \in Pbufs :
       pbuf[p].ref = handles[p] + Times(freeing, p)
                     + Cardinality({q \in Pbufs : pbuf[q].next = p})
                     + Cardinality({q \in Pbufs : pbuf[q].original = p})
  /\ \A S \in Pools : \A p \in S :
       Times(memp[S], p) = IF pbuf[p].ref = 0 THEN 1 ELSE 0

\* Between calls the lengths of a packet agree (the invariant of pbuf.h:198),
\* however it was cut, joined and shared, and every payload is inside the
\* memory of its pbuf.
ChainLengths ==
  Idle => \A p \in Used :
    /\ pbuf[p].tot_len = pbuf[p].len
         + IF pbuf[p].next = NULL THEN 0 ELSE pbuf[pbuf[p].next].tot_len
    /\ pbuf[p].off >= 0 /\ pbuf[p].off + pbuf[p].len <= pbuf[p].cap
=============================================================================
