-------------------------------- MODULE Heap --------------------------------
(***************************************************************************)
(* The heap of lwIP (mem.c): one array of bytes, divided into blocks that  *)
(* each begin with a struct mem, which links them in both directions and   *)
(* says whether the block is used.  NO_SYS: calls do not interleave, so a  *)
(* call is one step.                                                       *)
(*                                                                         *)
(* A block is known by its offset in ram, as in the code.  heap holds the  *)
(* struct mem of the linked blocks only: a struct that was unlinked is     *)
(* user data from then on.                                                 *)
(***************************************************************************)
EXTENDS Integers, FiniteSets

CONSTANTS MEM_SIZE_ALIGNED,   \* bytes of the heap
          MEM_ALIGNMENT,
          SIZEOF_STRUCT_MEM,
          MIN_SIZE_ALIGNED,   \* smallest data part of a block
          MEM_SIZE_T,         \* 2^16: the values of a mem_size_t
          Sizes,              \* sizes asked for
          MaxOwned            \* bound: blocks in use at a time

ASSUME HeapAssumption ==
  /\ MEM_ALIGNMENT \in Nat \ {0}
  /\ \A n \in {MEM_SIZE_ALIGNED, SIZEOF_STRUCT_MEM, MIN_SIZE_ALIGNED,
               MEM_SIZE_T} :
       n \in Nat \ {0} /\ n % MEM_ALIGNMENT = 0
  /\ SIZEOF_STRUCT_MEM + MIN_SIZE_ALIGNED <= MEM_SIZE_ALIGNED
  /\ MEM_SIZE_ALIGNED + SIZEOF_STRUCT_MEM < MEM_SIZE_T
  /\ Sizes \subseteq 0..MEM_SIZE_T - 1
  /\ MaxOwned \in Nat

VARIABLES heap,    \* the struct mem of each block, by its offset
          lfree,   \* the lowest free block, or ram_end
          ret,     \* what the last call returned: an offset, or NULL
          owned    \* the size asked for, by the pointer that was returned

vars == <<heap, lfree, ret, owned>>

NULL    == -1
ram_end == MEM_SIZE_ALIGNED

Blocks == DOMAIN heap
Used(b) == heap[b].used

\* Bytes of a block behind its struct mem.
DataSize(b) == heap[b].next - (b + SIZEOF_STRUCT_MEM)

\* The pointer returned for a block, and the block of a pointer.
Data(mem) == mem + SIZEOF_STRUCT_MEM
Mem(rmem) == rmem - SIZEOF_STRUCT_MEM

Lowest(S) == CHOOSE b \in S : \A c \in S : b <= c

\* LWIP_MEM_ALIGN_SIZE, cast to mem_size_t, and at least the minimum.
Expand(n) ==
  LET size == (((n + MEM_ALIGNMENT - 1) \div MEM_ALIGNMENT) * MEM_ALIGNMENT)
                % MEM_SIZE_T
  IN  IF size < MIN_SIZE_ALIGNED THEN MIN_SIZE_ALIGNED ELSE size

\* Variant: a size that wrapped is not noticed.
Impossible_NoWrap(n) == Expand(n) > MEM_SIZE_ALIGNED

Impossible(n) == Expand(n) > MEM_SIZE_ALIGNED \/ Expand(n) < n

-----------------------------------------------------------------------------
(* Changes of the list h.                                                  *)

\* Variant: the way back is not set.
Link_OneWay(h, a, b) == [h EXCEPT ![a].next = b]

\* b follows a; ram_end keeps its prev.
Link(h, a, b) ==
  [c \in DOMAIN h |->
     IF c = a THEN [h[c] EXCEPT !.next = b]
     ELSE IF c = b /\ b # ram_end THEN [h[c] EXCEPT !.prev = a]
     ELSE h[c]]

\* b is no longer a block: a, which it follows, takes its bytes.
Merge(h, a, b) ==
  Link([c \in DOMAIN h \ {b} |-> h[c]], a, h[b].next)

\* A free block begins at b, inside a.
Split(h, a, b) ==
  LET free == [next |-> b, prev |-> b, used |-> FALSE]
      h2   == [c \in DOMAIN h \union {b} |-> IF c = b THEN free ELSE h[c]]
  IN  Link(Link(h2, b, h[a].next), a, b)

MarkUsed(h, a, u) == [h EXCEPT ![a].used = u]

-----------------------------------------------------------------------------
(* mem_malloc.                                                             *)

\* First fit from lfree on.
Candidates(size) ==
  {b \in Blocks : /\ lfree <= b /\ b < MEM_SIZE_ALIGNED - size
                  /\ ~Used(b) /\ DataSize(b) >= size}

\* lfree goes on to the next free block if it was taken.
NextFree(h, mem) ==
  IF mem # lfree THEN lfree
  ELSE Lowest({b \in DOMAIN h : mem <= b /\ (~h[b].used \/ b = ram_end)})

\* What is left of the block is large enough to be one.
LeavesBlock(mem, size) ==
  DataSize(mem) >= size + SIZEOF_STRUCT_MEM + MIN_SIZE_ALIGNED

mem_malloc(size_in) ==
  /\ Cardinality(DOMAIN owned) < MaxOwned
  /\ size_in # 0 /\ ~Impossible(size_in)
  /\ LET size == Expand(size_in)
     IN  /\ Candidates(size) # {}
         /\ LET mem == Lowest(Candidates(size))
                h   == IF LeavesBlock(mem, size)
                       THEN Split(heap, mem, mem + SIZEOF_STRUCT_MEM + size)
                       ELSE heap
            IN  /\ heap' = MarkUsed(h, mem, TRUE)
                /\ lfree' = NextFree(heap', mem)
                /\ ret' = Data(mem)
                /\ owned' = [p \in DOMAIN owned \union {Data(mem)} |->
                               IF p = Data(mem) THEN size_in ELSE owned[p]]

\* NULL is returned.
MallocFails(size_in) ==
  /\ \/ size_in = 0
     \/ Impossible(size_in)
     \/ Candidates(Expand(size_in)) = {}
  /\ ret' = NULL
  /\ UNCHANGED <<heap, lfree, owned>>

-----------------------------------------------------------------------------
(* mem_free.                                                               *)

mem_link_valid(mem) ==
  LET s == heap[mem]
  IN  /\ s.next <= MEM_SIZE_ALIGNED /\ s.prev <= MEM_SIZE_ALIGNED
      /\ s.prev = mem \/ heap[s.prev].next = mem
      /\ s.next = ram_end \/ heap[s.next].prev = mem

\* plug_holes, forward: a free block behind mem becomes part of it
PlugForward(h, lf, mem) ==
  LET nmem == h[mem].next
  IN  IF nmem # mem /\ ~h[nmem].used /\ nmem # ram_end
      THEN [heap  |-> Merge(h, mem, nmem),
            lfree |-> IF lf = nmem THEN mem ELSE lf]
      ELSE [heap |-> h, lfree |-> lf]

\* ... backward: mem becomes part of a free block before it
PlugBackward(h, lf, mem) ==
  LET pmem == h[mem].prev
  IN  IF pmem # mem /\ ~h[pmem].used
      THEN [heap  |-> Merge(h, pmem, mem),
            lfree |-> IF lf = mem THEN pmem ELSE lf]
      ELSE [heap |-> h, lfree |-> lf]

plug_holes(h, lf, mem) ==
  LET f == PlugForward(h, lf, mem) IN PlugBackward(f.heap, f.lfree, mem)

\* Variant: lfree is not lowered.
Lowered_Never(mem) == lfree

\* lfree after mem was freed, before holes are plugged.
Lowered(mem) == IF mem < lfree THEN mem ELSE lfree

\* A pointer is given back.  The checks of the code refuse it unless it is
\* that of a used, linked block.
mem_free(rmem) ==
  LET mem == Mem(rmem)
  IN  /\ rmem \in DOMAIN owned
      /\ owned' = [p \in DOMAIN owned \ {rmem} |-> owned[p]]
      /\ IF /\ rmem % MEM_ALIGNMENT = 0
            /\ mem >= 0 /\ rmem + MIN_SIZE_ALIGNED <= ram_end
            /\ Used(mem) /\ mem_link_valid(mem)
         THEN LET r == plug_holes(MarkUsed(heap, mem, FALSE),
                                  Lowered(mem), mem)
              IN  heap' = r.heap /\ lfree' = r.lfree
         ELSE UNCHANGED <<heap, lfree>>
      /\ UNCHANGED ret

-----------------------------------------------------------------------------
(* mem_trim.                                                               *)

\* The free block behind mem is moved down to ptr2.
TrimMove(mem, ptr2) ==
  LET mem2 == heap[mem].next
  IN  /\ heap' = Split(Merge(heap, mem, mem2), mem, ptr2)
      /\ lfree' = IF lfree = mem2 THEN ptr2 ELSE lfree

\* What is cut off becomes a free block of its own.
TrimSplit(mem, ptr2) ==
  /\ heap' = Split(heap, mem, ptr2)
  /\ lfree' = IF ptr2 < lfree THEN ptr2 ELSE lfree

\* Where the block ends when it has been cut to newsize.
TrimEnd(mem, newsize) == mem + SIZEOF_STRUCT_MEM + newsize

\* A block is cut to newsize, if that makes a difference.
TrimTo(mem, newsize) ==
  LET ptr2 == TrimEnd(mem, newsize)
  IN  CASE newsize = DataSize(mem) -> UNCHANGED <<heap, lfree>>
        [] newsize # DataSize(mem) /\ ~Used(heap[mem].next) ->
             TrimMove(mem, ptr2)
        [] newsize # DataSize(mem) /\ Used(heap[mem].next) ->
             IF LeavesBlock(mem, newsize) THEN TrimSplit(mem, ptr2)
                                          ELSE UNCHANGED <<heap, lfree>>

\* A user cuts what it was given to new_size, not more than it asked for.
mem_trim(rmem, new_size) ==
  LET mem     == Mem(rmem)
      newsize == Expand(new_size)
  IN  /\ rmem \in DOMAIN owned /\ new_size <= owned[rmem]
      /\ IF Impossible(new_size) \/ newsize > DataSize(mem)
         THEN ret' = NULL /\ UNCHANGED <<heap, lfree, owned>>
         ELSE /\ TrimTo(mem, newsize)
              /\ ret' = rmem
              /\ owned' = [owned EXCEPT ![rmem] = new_size]

-----------------------------------------------------------------------------
\* mem_init
Init ==
  /\ heap = [b \in {0, ram_end} |->
               [next |-> MEM_SIZE_ALIGNED, prev |-> b, used |-> b = ram_end]]
  /\ lfree = 0
  /\ ret = NULL
  /\ owned = [p \in {} |-> 0]

Next == \/ \E size \in Sizes : mem_malloc(size) \/ MallocFails(size)
        \/ \E rmem \in DOMAIN owned : mem_free(rmem)
        \/ \E rmem \in DOMAIN owned, size \in Sizes : mem_trim(rmem, size)

Spec == Init /\ [][Next]_vars

-----------------------------------------------------------------------------
(* Properties.                                                             *)

\* What mem_sanity of mem.c:555-594 asks of the list: every block is linked
\* with the next higher one, both ways, is aligned, and no two blocks in a
\* row are free; and each has room for the smallest data.
Linked ==
  /\ \A b \in Blocks \ {ram_end} :
       /\ heap[b].next > b
       /\ \A c \in Blocks : c <= b \/ c >= heap[b].next
       /\ heap[b].next # ram_end => heap[heap[b].next].prev = b
       /\ Used(b) \/ Used(heap[b].next)
       /\ b % MEM_ALIGNMENT = 0
       /\ DataSize(b) >= MIN_SIZE_ALIGNED
  /\ heap[0].prev = 0
  /\ heap[ram_end] = [next |-> ram_end, prev |-> ram_end, used |-> TRUE]

\* lfree is the lowest free block, or ram_end when none is (mem.c:407,
\* 659-662, 749-751, 779-781, 918-937): no free block is ever overlooked.
LfreeLowest ==
  /\ lfree = ram_end \/ ~Used(lfree)
  /\ \A b \in Blocks : ~Used(b) => lfree <= b

\* The heap as its users see it: the regions of module Allocator.
A == INSTANCE Allocator WITH
  Memory <- MEM_SIZE_ALIGNED, Header <- SIZEOF_STRUCT_MEM,
  Align <- MEM_ALIGNMENT, Requests <- Sizes,
  regions <- {[start |-> Mem(p), end |-> heap[Mem(p)].next,
               size |-> owned[p]] : p \in DOMAIN owned},
  result <- IF ret = NULL THEN -1 ELSE Mem(ret)
AllocatorSpec == A!Spec

=============================================================================
