------------------------------- MODULE Reass --------------------------------
(***************************************************************************)
(* Reassembly of IPv4 datagrams (ip4_frag.c).  NO_SYS: a call is one step. *)
(*                                                                         *)
(* What arrives is what senders and routers make of datagrams with         *)
(* ip4_frag, for two sizes of links: any fragment, at any time, any number *)
(* of times, in any order.  A datagram is known by its sender and its      *)
(* identification; its data by byte positions.  Lengths fit 16 bits.       *)
(***************************************************************************)
EXTENDS Integers, Sequences, FiniteSets

CONSTANTS Datagrams,            \* pairs of a source and an identification
          WithOptions,          \* those with IP options, which are not taken
          DataLen,              \* bytes of data in each
          UNIT,                 \* unit of fragment offsets, 8 bytes
          LinkSizes,            \* data per frame, of the links on the way
          FragPbufs,            \* pbufs that fragments arrive in
          Chained,              \* those that are chains of two
          IP_REASS_MAX_PBUFS, MEMP_NUM_REASSDATA, IP_REASS_MAXAGE

ASSUME ReassAssumption ==
  /\ Datagrams \subseteq Nat \X Nat /\ WithOptions \subseteq Datagrams
  /\ DataLen \in Nat \ {0} /\ UNIT \in Nat \ {0}
  /\ \A s \in LinkSizes : s \in Nat \ {0} /\ s % UNIT = 0
  /\ FragPbufs \subseteq Nat /\ Chained \subseteq FragPbufs
  /\ IP_REASS_MAX_PBUFS \in Nat /\ MEMP_NUM_REASSDATA \in Nat
  /\ IP_REASS_MAXAGE \in Nat

VARIABLES reassdatagrams,       \* newest first
          ip_reass_pbufcount,
          busy,                 \* fragment pbufs in use
          out,                  \* the datagram returned in this step
          refused,              \* the fragment that was not taken in this step
          exceeded              \* datagrams whose sender was told in this
                                \* step that they were given up

vars == <<reassdatagrams, ip_reass_pbufcount, busy, out, refused,
          exceeded>>

pbuf_clen(p) == IF p \in Chained THEN 2 ELSE 1

\* The sum of pbuf_clen over the packets of S.
Clen(S) == Cardinality(S) + Cardinality(S \cap Chained)

-----------------------------------------------------------------------------
(* ip4_frag.                                                               *)

Least(m, n) == IF m < n THEN m ELSE n

\* The packets that packet f is sent as where a frame holds size bytes.
ip4_frag(f, size) ==
  LET nfb  == size \div UNIT
      Part(k) == LET left == f.end - f.start - k * nfb * UNIT
                 IN  [id |-> f.id, start |-> f.start + k * nfb * UNIT,
                      end |-> f.start + k * nfb * UNIT + Least(left, nfb * UNIT),
                      mf |-> left > size \/ f.mf]
  IN  {Part(k) : k \in {k \in 0..f.end - f.start : f.start + k * nfb * UNIT < f.end}}

Whole(id) == [id |-> id, start |-> 0, end |-> DataLen, mf |-> FALSE]

\* The fragments that may arrive: made by the sender, or out of those by a
\* router.
Fragments ==
  LET once == UNION {ip4_frag(Whole(id), s) : id \in Datagrams, s \in LinkSizes}
  IN  {f \in once \union UNION {ip4_frag(f, s) : f \in once, s \in LinkSizes} :
         f.mf \/ f.start > 0}

-----------------------------------------------------------------------------
(* The list of datagrams.  Operators take and return it together with what *)
(* goes with it: the count, the pbufs freed and the senders told.          *)

State == [list |-> reassdatagrams, count |-> ip_reass_pbufcount,
          freed |-> {}, told |-> {}]

\* Variant: sources that use the same identification are mixed up.
Matches_Id(a, b) == a[2] = b[2]

\* IP_ADDRESSES_AND_ID_MATCH.
Matches(a, b) == a[1] = b[1] /\ a[2] = b[2]

PbufsOf(r) == {r.p[k].pbuf : k \in DOMAIN r.p}

Without(list, i) == SubSeq(list, 1, i - 1) \o SubSeq(list, i + 1, Len(list))

\* The sender is told if the first fragment is there to tell it by.
ip_reass_free_complete_datagram(S, i) ==
  [list  |-> Without(S.list, i),
   count |-> S.count - Clen(PbufsOf(S.list[i])),
   freed |-> S.freed \union PbufsOf(S.list[i]),
   told  |-> IF S.list[i].p[1].start = 0 THEN S.told \union {S.list[i].id}
             ELSE S.told]

Others(S, id) == {i \in DOMAIN S.list : ~Matches(S.list[i].id, id)}

\* The last of those with the least time left.
Oldest(S, id) ==
  CHOOSE i \in Others(S, id) : \A j \in Others(S, id) :
    \/ S.list[i].timer < S.list[j].timer
    \/ S.list[i].timer = S.list[j].timer /\ j <= i

\* Other datagrams are given up until enough pbufs are free or none is left.
GiveUp(S, id, pbufs_needed) ==
  IF Clen(S.freed) >= pbufs_needed \/ Others(S, id) = {} THEN S
  ELSE ip_reass_free_complete_datagram(S, Oldest(S, id))

ip_reass_remove_oldest_datagram(S, id, pbufs_needed) ==
  LET after[n \in 0..Len(S.list)] ==
        IF n = 0 THEN S ELSE GiveUp(after[n - 1], id, pbufs_needed)
  IN  after[Len(S.list)]

-----------------------------------------------------------------------------
(* A fragment in a datagram.                                               *)

\* The place of e in a list of fragments that is sorted by start.
Place(frags, e) ==
  Cardinality({k \in DOMAIN frags : frags[k].start <= e.start}) + 1

\* It is not taken if it begins where another does or inside of it, or
\* reaches into the one behind it.
Overlaps(frags, e) ==
  \E k \in DOMAIN frags :
    \/ frags[k].start = e.start
    \/ frags[k].start <= e.start /\ e.start < frags[k].end
    \/ k = Place(frags, e) /\ e.end > frags[k].start

Inserted(frags, e) ==
  LET k == Place(frags, e)
  IN  SubSeq(frags, 1, k - 1) \o <<e>> \o SubSeq(frags, k, Len(frags))

\* Every fragment is there, from the first to the one that is the last.
Finished(r) ==
  /\ r.datagram_len > 0
  /\ r.p[1].start = 0
  /\ \A k \in 1..Len(r.p) - 1 : r.p[k].end = r.p[k + 1].start

\* ip_reass_chain_frag_into_datagram_and_validate, where e is taken, and
\* what ip4_reass notes of a last fragment; datagram_len is 0 before.
\* hdr is the start of the fragment whose IP header is kept.
Chain(r, f, e) ==
  [r EXCEPT !.p = Inserted(@, e),
            !.datagram_len = IF f.mf THEN @ ELSE f.end]

\* Variant: a fragment gives its datagram new time.
Entry_Fresh(r, f) ==
  [r EXCEPT !.hdr = IF f.start = 0 THEN 0 ELSE @, !.timer = IP_REASS_MAXAGE]

\* The header is that of the first fragment, once that has come.
Entry(r, f) == [r EXCEPT !.hdr = IF f.start = 0 THEN 0 ELSE @]

NewEntry(f) ==
  [id |-> f.id, timer |-> IP_REASS_MAXAGE, p |-> <<>>, datagram_len |-> 0,
   hdr |-> f.start]

\* Nothing is delivered; a fragment that came is freed.
Drop(S, fs) ==
  /\ reassdatagrams' = S.list
  /\ ip_reass_pbufcount' = S.count
  /\ busy' = busy \ S.freed
  /\ out' = {}
  /\ refused' = fs
  /\ exceeded' = S.told

\* The fragment goes into datagram i of the list.  A datagram that is
\* complete leaves the list; its receiver frees it.
Enter(S, i, f, p) ==
  LET e == [start |-> f.start, end |-> f.end, pbuf |-> p, of |-> f.id]
      r == Chain(Entry(S.list[i], f), f, e)
      count == S.count + pbuf_clen(p)
  IN  IF Overlaps(S.list[i].p, e)
      THEN Drop([S EXCEPT !.list[i] = Entry(@, f)], {f})
      ELSE /\ exceeded' = S.told /\ refused' = {}
           /\ IF Finished(r)
              THEN /\ reassdatagrams' = Without(S.list, i)
                   /\ ip_reass_pbufcount' = count - Clen(PbufsOf(r))
                   /\ out' = {[id |-> r.id, len |-> r.datagram_len, hdr |-> r.hdr,
                               parts |-> r.p]}
                   /\ busy' = busy \ (S.freed \union PbufsOf(r))
              ELSE /\ reassdatagrams' = [S.list EXCEPT ![i] = r]
                   /\ ip_reass_pbufcount' = count
                   /\ out' = {}
                   /\ busy' = (busy \ S.freed) \union {p}

\* The datagram that fragment f belongs to, or a new one in front, for which
\* another may be given up.
Find(S, f, p) ==
  LET known == {i \in DOMAIN S.list : Matches(S.list[i].id, f.id)}
      T == IF Len(S.list) < MEMP_NUM_REASSDATA THEN S
           ELSE ip_reass_remove_oldest_datagram([S EXCEPT !.freed = {}], f.id,
                                                pbuf_clen(p))
      both == [T EXCEPT !.freed = @ \union S.freed]
  IN  IF known # {}
      THEN Enter(S, CHOOSE i \in known : \A j \in known : i <= j, f, p)
      ELSE IF \/ Len(S.list) < MEMP_NUM_REASSDATA
              \/ Len(T.list) < Len(S.list) /\ Clen(T.freed) >= pbuf_clen(p)
      THEN Enter([both EXCEPT !.list = <<NewEntry(f)>> \o @], 1, f, p)
      ELSE Drop(both, {f})

\* Variant: the limit is exceeded by a fragment that is a chain.
Fits_One(count, p) == count < IP_REASS_MAX_PBUFS

Fits(count, p) == count + pbuf_clen(p) <= IP_REASS_MAX_PBUFS

ip4_reass(f, p) ==
  LET S == State
      T == ip_reass_remove_oldest_datagram(S, f.id, pbuf_clen(p))
  IN  IF f.id \in WithOptions THEN Drop(S, {f})
      ELSE IF Fits(S.count, p) THEN Find(S, f, p)
      ELSE IF T.freed # {} /\ Fits(T.count, p) THEN Find(T, f, p)
      ELSE Drop(T, {f})

-----------------------------------------------------------------------------
\* A datagram that has no time left is given up.
Tick(S, i) ==
  IF S.list[i].timer = 0 THEN ip_reass_free_complete_datagram(S, i)
  ELSE [S EXCEPT !.list[i].timer = @ - 1]

ip_reass_tmr ==
  LET count == Len(reassdatagrams)
      after[n \in 0..count] ==
        IF n = 0 THEN State ELSE Tick(after[n - 1], count + 1 - n)
  IN  Drop(after[count], {})

Init ==
  /\ reassdatagrams = <<>>
  /\ ip_reass_pbufcount = 0
  /\ busy = {}
  /\ out = {}
  /\ refused = {}
  /\ exceeded = {}

\* A fragment arrives in a free pbuf; the first of a kind stands for all.
Arrive ==
  \E f \in Fragments, S \in {FragPbufs \ Chained, Chained} :
    /\ S \ busy # {}
    /\ ip4_reass(f, CHOOSE p \in S \ busy : \A q \in S \ busy : p <= q)

Next == Arrive \/ ip_reass_tmr

\* The timer is cyclic: it is called again and again.
Spec == Init /\ [][Next]_vars /\ WF_vars(ip_reass_tmr)

-----------------------------------------------------------------------------
(* Properties.                                                             *)

Queues == {PbufsOf(reassdatagrams[i]) : i \in DOMAIN reassdatagrams}

\* Every pbuf that arrives is freed, handed on or queued once, and the count
\* that limits them is true and within the limit, whatever is given up on the
\* way (ip4_frag.c:189-216, 537-552, 609, 670).
PbufsHeld ==
  /\ busy = UNION Queues
  /\ ip_reass_pbufcount = Clen(busy)
  /\ ip_reass_pbufcount <= IP_REASS_MAX_PBUFS
  /\ Len(reassdatagrams) <= MEMP_NUM_REASSDATA
  /\ \A i, j \in DOMAIN reassdatagrams :
       \A k \in DOMAIN reassdatagrams[i].p, l \in DOMAIN reassdatagrams[j].p :
         reassdatagrams[i].p[k].pbuf = reassdatagrams[j].p[l].pbuf =>
           i = j /\ k = l

Ids == {reassdatagrams[i].id : i \in DOMAIN reassdatagrams}
Of(id) == reassdatagrams[CHOOSE i \in DOMAIN reassdatagrams : reassdatagrams[i].id = id]

\* The bytes of fragments in order: whose, and which.
BytesOf(parts) ==
  LET upto[k \in 0..Len(parts)] ==
        IF k = 0 THEN <<>>
        ELSE upto[k - 1] \o [n \in 1..parts[k].end - parts[k].start |->
                               <<parts[k].of, parts[k].start + n - 1>>]
  IN  upto[Len(parts)]

ByteSet(parts) ==
  UNION {{parts[k].of} \X (parts[k].start..parts[k].end - 1) : k \in DOMAIN parts}

\* What the list, the count and the last step amount to.
Open == [id \in Ids |-> [bytes |-> ByteSet(Of(id).p),
                         age |-> IP_REASS_MAXAGE - Of(id).timer]]
Space == IP_REASS_MAX_PBUFS - ip_reass_pbufcount
Delivered == {[id |-> o.id, len |-> o.len, hdr |-> o.hdr,
               bytes |-> BytesOf(o.parts)] : o \in out}
Ignored == {[id |-> f.id, bytes |-> {f.id} \X (f.start..f.end - 1)] : f \in refused}

\* A datagram is delivered as soon as it is complete, whole, in order and with
\* the first fragment's header, never mixed with another; fragments are
\* refused only if they bring bytes that are there, or for want of space; a
\* datagram is given up only when its time is over or another needs the space
\* (module Collector; ip4_frag.c:345-694).
C == INSTANCE Collector WITH
  MaxAge <- IP_REASS_MAXAGE, MaxOpen <- MEMP_NUM_REASSDATA, open <- Open,
  space <- Space, delivered <- Delivered, ignored <- Ignored, told <- exceeded
CollectorSpec == C!Spec

\* No datagram is collected for ever, also if fragments keep coming
\* (ip4_frag.c:127-152).
DatagramsEnd == \A id \in Datagrams : id \in Ids ~> id \notin Ids
=============================================================================
