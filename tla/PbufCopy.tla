------------------------------ MODULE PbufCopy ------------------------------
(***************************************************************************)
(* The functions of pbuf.c that read and write the bytes of a packet.  They*)
(* change no pbuf, so they are operators, evaluated on the packets of every*)
(* state that Pbuf reaches.                                                *)
(*                                                                         *)
(* A byte is known by its place: the pbuf and the offset into its memory.  *)
(* What is copied is a sequence of places (read, or written), so a byte    *)
(* skipped, taken twice or out of its pbuf is seen whatever its value.     *)
(***************************************************************************)
EXTENDS Pbuf, Chksum

CONSTANT ByteValues   \* of the bytes that are summed

\* A length fits a word.
ASSUME PbufCopyAssumption == ByteValues \subseteq 0..BASE - 1 /\ U16 <= BASE * BASE

Least(m, n) == IF m < n THEN m ELSE n

\* n bytes of one pbuf from its byte i.
Span(p, i, n) == [k \in 1..n |-> <<p, pbuf[p].off + i + k - 1>>]

\* Variant: a pbuf that ends with byte n - 1 is the one of byte n.
SkipFrom_Boundary[q \in Pbufs \union {NULL}] == [n \in Nat |->
  IF q # NULL /\ pbuf[q].len < n
  THEN SkipFrom_Boundary[pbuf[q].next][n - pbuf[q].len]
  ELSE [at |-> q, left |-> n]]

\* The pbuf of byte n, and n counted from there; NULL if the packet is
\* shorter.
SkipFrom[q \in Pbufs \union {NULL}] == [n \in Nat |->
  IF q # NULL /\ pbuf[q].len <= n
  THEN SkipFrom[pbuf[q].next][n - pbuf[q].len]
  ELSE [at |-> q, left |-> n]]

pbuf_skip_Boundary(p, n) == SkipFrom_Boundary[p][n]

pbuf_skip(p, n) == SkipFrom[p][n]

\* The bytes that pbuf_copy_partial reads.
CopyFrom[p \in Pbufs \union {NULL}] == [len \in Nat |-> [offset \in Nat |->
  IF len = 0 \/ p = NULL THEN <<>>
  ELSE IF offset # 0 /\ offset >= pbuf[p].len
  THEN CopyFrom[pbuf[p].next][len][offset - pbuf[p].len]
  ELSE LET n == Least(pbuf[p].len - offset, len)
       IN  Span(p, offset, n) \o CopyFrom[pbuf[p].next][len - n][0]]]

pbuf_copy_partial(p, len, offset) == CopyFrom[p][len][offset]

\* The bytes that pbuf_take writes: the n-th byte of the caller to the n-th.
TakeTo[p \in Pbufs \union {NULL}] == [len \in Nat |->
  IF len = 0 \/ p = NULL THEN <<>>
  ELSE LET n == Least(len, pbuf[p].len)
       IN  Span(p, 0, n) \o TakeTo[pbuf[p].next][len - n]]

\* {} where the packet is too short: ERR_MEM.  The end of a packet that is
\* long enough is not passed (pbuf.c:1253).
pbuf_take(p, len) == IF pbuf[p].tot_len < len THEN {} ELSE {TakeTo[p][len]}

pbuf_take_at(p, len, offset) ==
  LET s == pbuf_skip(p, offset)
      n == Least(pbuf[s.at].len - s.left, len)
  IN  IF s.at = NULL THEN {}
      ELSE IF pbuf[s.at].tot_len < s.left + len THEN {}
      ELSE IF len = n THEN {Span(s.at, s.left, n)}
      ELSE {Span(s.at, s.left, n) \o r : r \in pbuf_take(pbuf[s.at].next, len - n)}

\* The byte that pbuf_try_get_at and pbuf_get_at read, pbuf_put_at writes.
ByteAt(p, offset) ==
  LET s == pbuf_skip(p, offset)
  IN  IF s.at # NULL THEN Span(s.at, s.left, 1) ELSE <<>>

\* In place, or in the caller's buffer if there is one.
pbuf_get_contiguous(p, buffer, len, offset) ==
  LET s == pbuf_skip(p, offset)
      c == pbuf_copy_partial(s.at, len, s.left)
  IN  IF s.at = NULL THEN {}
      ELSE IF pbuf[s.at].len >= s.left + len THEN {Span(s.at, s.left, len)}
      ELSE {r \in {c} : buffer /\ Len(r) = len}

\* The first of the bytes from offset that differs from s2, counted from 1;
\* 0 for none, U16 - 1 if there are not so many.
pbuf_memcmp(p, offset, s2) ==
  LET s == pbuf_skip(p, offset)
      differ == {i \in 1..Len(s2) : ByteAt(s.at, s.left + i - 1) # <<s2[i]>>}
  IN  IF pbuf[p].tot_len < offset + Len(s2) THEN U16 - 1
      ELSE IF differ = {} THEN 0 ELSE Lowest(differ)

pbuf_memfind(p, mem, start) ==
  LET found == {i \in start..pbuf[p].tot_len - Len(mem) : pbuf_memcmp(p, i, mem) = 0}
  IN  IF found = {} THEN U16 - 1 ELSE Lowest(found)

\* A pbuf that says it ends its packet, though others follow it.
Queue(p) == p # NULL /\ pbuf[p].len = pbuf[p].tot_len /\ pbuf[p].next # NULL

\* Variant: the offset is kept when the next pbuf is taken.
Offset_Kept(same, i) == i

\* Where the copy goes on: in the same pbuf, or at the start of the next.
Offset(same, i) == IF same THEN i ELSE 0

\* One turn of the loop of pbuf_copy_partial_pbuf.  c is how far it is: in the
\* pbufs to and from, at their bytes i and j, what is left, pairs of a byte
\* written and the byte read, and the error.
CopyPart(c) ==
  LET n  == Least(c.left, Least(pbuf[c.to].len - c.i, pbuf[c.from].len - c.j))
      t2 == IF c.i + n = pbuf[c.to].len THEN pbuf[c.to].next ELSE c.to
      f2 == IF c.j + n >= pbuf[c.from].len THEN pbuf[c.from].next ELSE c.from
      done == [k \in 1..n |-> <<Span(c.to, c.i, n)[k], Span(c.from, c.j, n)[k]>>]
  IN  [to |-> t2, i |-> Offset(t2 = c.to, c.i + n),
       from |-> f2, j |-> Offset(f2 = c.from, c.j + n),
       left |-> c.left - n, bytes |-> c.bytes \o done,
       err |-> IF (t2 = NULL \/ f2 = NULL) /\ c.left # n THEN "ERR_ARG"
               ELSE IF Queue(f2) \/ Queue(t2) THEN "ERR_VAL"
               ELSE IF c.left = n THEN "ERR_OK" ELSE "none yet"]

\* The loop: a turn ends a pbuf, or it is the last.
CopyLoop(t, f, offset, left) ==
  LET start == [to |-> t, i |-> offset, from |-> f, j |-> 0, left |-> left,
                bytes |-> <<>>, err |-> "none yet"]
      after[k \in 0..Len(Chain[t]) + Len(Chain[f])] ==
        IF k = 0 THEN start
        ELSE IF after[k - 1].err = "none yet" THEN CopyPart(after[k - 1])
        ELSE after[k - 1]
  IN  after[Len(Chain[t]) + Len(Chain[f])]

\* offset is inside the first pbuf of the target, as in every call.
pbuf_copy_partial_pbuf(to, from, copy_len, offset) ==
  IF pbuf[from].tot_len < copy_len \/ pbuf[to].tot_len < offset + copy_len
  THEN [err |-> "ERR_ARG", bytes |-> <<>>]
  ELSE CopyLoop(to, from, offset, copy_len)

-----------------------------------------------------------------------------
(* Properties.                                                             *)

\* All bytes of a packet in order.
Bytes[p \in Pbufs \union {NULL}] ==
  IF p = NULL THEN <<>> ELSE Span(p, 0, pbuf[p].len) \o Bytes[pbuf[p].next]

Part(p, offset, len) == SubSeq(Bytes[p], offset + 1, offset + len)

\* Nothing is shared, so a packet is just its bytes.
Unshared == Idle /\ \A r \in Used : pbuf[r].ref = 1 /\ pbuf[r].original = NULL

\* A packet without empty pbufs at its end.
NoQueue(p) == \A r \in InChain(p) : ~Queue(r)

\* Whatever packets were cut and joined to, the functions that walk them read
\* and write the bytes asked for, in order, and refuse just where the packet
\* is too short (pbuf.c:1060-1138, 1191-1302, 1410-1529).
ReadsTrue ==
  Unshared => \A p \in Heads, offset, len \in 0..U16 - 1 :
    LET fits == offset + len <= Len(Bytes[p])
        here == offset < Len(Bytes[p])
        part == Part(p, offset, len)
    IN  /\ pbuf_copy_partial(p, len, offset)
             = SubSeq(Bytes[p], offset + 1, Least(offset + len, Len(Bytes[p])))
        /\ pbuf_take_at(p, len, offset) = IF fits /\ here THEN {part} ELSE {}
        /\ ByteAt(p, offset) = IF here THEN Part(p, offset, 1) ELSE <<>>
        /\ pbuf_get_contiguous(p, TRUE, len, offset)
             = IF fits /\ here THEN {part} ELSE {}
        /\ fits /\ len > 0 => pbuf_memfind(p, part, 0) = offset

\* A copy that succeeds is byte for byte the original, in the place asked for;
\* it succeeds if both are long enough and neither ends with empty pbufs
\* (pbuf.c:988-1046).
CopiesTrue ==
  Unshared => \A to, from \in Heads :
    to # from => \A len \in 0..pbuf[from].tot_len, offset \in 0..pbuf[to].len :
      LET c == pbuf_copy_partial_pbuf(to, from, len, offset)
      IN  /\ c.err = "ERR_OK" =>
               c.bytes = [k \in 1..len |-> <<Part(to, offset, len)[k],
                                            Part(from, 0, len)[k]>>]
          /\ NoQueue(to) /\ NoQueue(from) =>
               (c.err = "ERR_OK" <=> offset + len <= pbuf[to].tot_len)

\* The parts of a packet whose n-th byte has value v[n]; memory begins at an
\* even address.
Segments(p, v) ==
  LET at(k) == Len(Bytes[p]) - pbuf[Chain[p][k]].tot_len
  IN  [k \in DOMAIN Chain[p] |->
         [odd |-> pbuf[Chain[p][k]].off % 2 = 1,
          bytes |-> [n \in 1..pbuf[Chain[p][k]].len |-> v[at(k) + n]]]]

\* The checksum of a packet does not depend on how it is cut into pbufs, odd
\* lengths and odd addresses included, and carries are not lost (inet_chksum.c:
\* 132-173, 259-473, 567-588; ip4.c:944-982).
ChecksumTrue ==
  Unshared => \A p \in Heads : \A v \in [1..Len(Bytes[p]) -> ByteValues] :
    LET segs == Segments(p, v)
    IN  /\ inet_chksum_pbuf(segs) = Reference(v)
        /\ inet_chksum_pseudo(segs, BASE - 1, Len(v), <<BASE - 1, BASE - 1>>)
             = Reference(<<BASE - 1, BASE - 1, 0, BASE - 1, 0, Len(v)>> \o v)
        /\ \A n \in 0..Len(v) :
             inet_chksum_pseudo_partial(segs, BASE - 1, n, n, <<>>)
               = Reference(<<0, BASE - 1, 0, n>> \o SubSeq(v, 1, n))
        /\ Len(v) % 2 = 0 => HeaderChksum(v) = Reference(v)
=============================================================================
