----------------------------- MODULE NodeProofs -----------------------------
(***************************************************************************)
(* A pbuf of the node has one owner, for pools of any size, any hosts and  *)
(* whatever arrives.  What Etharp and Reass do with their parts of memory  *)
(* was proved for them alone; here it is put together with the handlers,   *)
(* which move pbufs from one owner to another.                             *)
(***************************************************************************)
EXTENDS Node, FiniteSetTheorems, WellFoundedInduction, TLAPS

\* The components, with what is proved about them.
EP == INSTANCE EtharpProofs WITH
        IPs <- Hosts, MACs <- {Mac[h] : h \in Hosts}, Packets <- Pbufs,
        out <- sent, heard <- Mac

RP == INSTANCE ReassProofs WITH
        WithOptions <- {}, FragPbufs <- Pool, Chained <- {}, out <- datagram

-----------------------------------------------------------------------------
(* The inductive invariant.                                                *)

\* A part of a packet; those behind it are pbufs.
IsContent(c) ==
  /\ c = [src |-> c.src, dst |-> c.dst, proto |-> c.proto, bytes |-> c.bytes,
          next |-> c.next]
  /\ c.next \in Seq(Pbufs)

IsMemory(ct) ==
  /\ ct = [p \in Pbufs |-> ct[p]]
  /\ \A p \in Pbufs : IsContent(ct[p])

ChainOf(ct, p) == {p} \union Range(ct[p].next)

\* In memory ct, pbuf table, a set of busy ones and the reply in rs are apart,
\* with what is chained to them; the reply is the chain of its first.
Apart(ct, table, others, rs) ==
  /\ others \intersect Range(rs) = {}
  /\ \A p \in table : ChainOf(ct, p) \intersect (others \union Range(rs)) = {}
  /\ \A p, q \in table : p # q => ChainOf(ct, p) \intersect ChainOf(ct, q) = {}
  /\ rs # <<>> => ChainOf(ct, rs[1]) \subseteq Range(rs)

Table == {p \in Pbufs : refs[p] > 0}

\* The handler's part.
Handling ==
  /\ IsMemory(content)
  /\ reply \in Seq(Pbufs)
  /\ \A e \in errors : IsContent(e) /\ e.next = <<>>
  /\ Apart(content, Table, busy, reply)

Inv == EP!IInv /\ RP!IInv /\ Handling

-----------------------------------------------------------------------------
(* The ARP table.                                                          *)

\* The constants of the node satisfy what its parts assume of theirs.
LEMMA Assumed == EP!EtharpAssumption /\ RP!ReassAssumption
BY PartsAssumption DEF A!EtharpAssumption, EP!EtharpAssumption,
     R!ReassAssumption, RP!ReassAssumption

\* The operators of A are those of EP.
LEMMA SameFind ==
  /\ \A ip : A!Match(ip) = EP!Match(ip) /\ A!Find(ip) = EP!Find(ip)
  /\ \A ip : A!Found(ip) = EP!Found(ip) /\ A!Dropped(ip) = EP!Dropped(ip)
  /\ \A ip : A!NewQuiet(ip) = EP!NewQuiet(ip)
  /\ \A ip : A!StableEntry(ip) = EP!StableEntry(ip)
  /\ \A qs : A!Freed(qs) = EP!Freed(qs)
BY DEF A!Match, A!Entries, A!Index, A!States, A!Stable, A!Find, A!Lowest,
       A!Victim, A!Oldest, A!Waiting, A!Found, A!etharp_free_entry, A!Dropped,
       A!NewQuiet, A!StableEntry, A!Cached, A!Freed,
       EP!Match, EP!Entries, EP!Index, EP!States, EP!Stable, EP!Find, EP!Lowest,
       EP!Victim, EP!Oldest, EP!Waiting, EP!Found, EP!etharp_free_entry,
       EP!Dropped, EP!NewQuiet, EP!StableEntry, EP!Cached, EP!Freed

\* etharp_update_arp_entry of the node is that of the ARP proofs.
LEMMA SameUpdate ==
  ASSUME NEW ip, NEW mac, A!etharp_update_arp_entry(ip, mac)
  PROVE  EP!etharp_update_arp_entry(ip, mac)
BY SameFind DEF A!etharp_update_arp_entry, A!Resolved, A!Frame,
                EP!etharp_update_arp_entry, EP!Resolved, EP!Frame

\* So is sending to a host of the local network,
LEMMA SameOutput ==
  ASSUME NEW ip, NEW q, A!OutputLocal(ip, q)
  PROVE  EP!OutputLocal(ip, q)
BY SameFind DEF A!OutputLocal, A!etharp_output_to_arp_index, A!RequestDue,
     A!Rerequested, A!etharp_query, A!Queue, A!Queued, A!Lowest, A!Frame,
     EP!OutputLocal, EP!etharp_output_to_arp_index, EP!RequestDue,
     EP!Rerequested, EP!etharp_query, EP!Queue, EP!Queued, EP!Lowest, EP!Frame

\* and so is etharp_tmr.
LEMMA SameTimer == A!etharp_tmr => EP!etharp_tmr
BY SameFind DEF A!etharp_tmr, A!Aged, A!Expired, A!etharp_free_entry, A!Entries,
     A!Index, A!Stable, EP!etharp_tmr, EP!Aged, EP!Expired,
     EP!etharp_free_entry, EP!Entries, EP!Index, EP!Stable
\* What a call of ARP leaves: the table is in order, and has taken no packet
\* but those in S.
Resolves(S) == EP!IInv' /\ Table' \subseteq Table \union S

\* What the ARP invariant says after a step.
LEMMA KeptIs ==
  ASSUME EP!Kept'
  PROVE  EP!IInv' /\ refs' \in [Pbufs -> 0..1]
<1>1. Mac \in [Hosts -> {Mac[h] : h \in Hosts} \union {NoMAC}]
  BY NodeAssumption
<1> QED
  BY <1>1 DEF EP!Kept, EP!TypeRest, EP!IInv, EP!TypeOK

\* A pbuf is referenced by the ARP table exactly while it is queued there.
LEMMA RefsType ==
  ASSUME EP!IInv
  PROVE  refs \in [Pbufs -> 0..1] /\ \A p \in Pbufs : refs[p] # 0 <=> p \in Table
BY DEF EP!IInv, EP!TypeOK, Table

\* Freeing takes nothing.
LEMMA FreedLess ==
  ASSUME EP!IInv, EP!Kept', NEW qs, NEW q,
         \A p \in Pbufs \ {q} : refs'[p] = EP!Freed(qs)[p]
  PROVE  Resolves({q})
<1>1. refs' \in [Pbufs -> 0..1] /\ refs \in [Pbufs -> 0..1]
  BY KeptIs, RefsType
<1>2. ASSUME NEW p \in Pbufs, p # q, refs'[p] > 0
      PROVE  refs[p] > 0
  <2>1. refs'[p] \in {refs[p], refs[p] - 1}
    BY <1>2 DEF EP!Freed
  <2> QED
    BY <1>1, <1>2, <2>1
<1> QED
  BY <1>2, KeptIs DEF Resolves, Table

\* Sending to a local host queues at most the packet sent.
LEMMA LocalResolves ==
  ASSUME EP!IInv, NEW ip \in Hosts, NEW q \in Pbufs, q \notin Table,
         A!OutputLocal(ip, q)
  PROVE  Resolves({q})
<1>1. EP!OutputLocal(ip, q) /\ EP!EtharpAssumption
  BY SameOutput, Assumed
<1>2. refs[q] = 0 /\ refs \in [Pbufs -> 0..1]
  BY RefsType
<1>3. EP!Kept'
  BY <1>1, <1>2, EP!OutputKeeps
<1>4. \E qs : \A p \in Pbufs \ {q} : refs'[p] = EP!Freed(qs)[p]
  <2>1. CASE refs' = refs
    <3>1. \A p \in Pbufs : refs'[p] = EP!Freed({})[p]
      BY <2>1 DEF EP!Freed
    <3> QED
      BY <3>1
  <2>2. CASE refs' # refs
    <3>1. EP!etharp_query(ip, q)
      BY <1>1, <2>2 DEF EP!OutputLocal
    <3>2. PICK d, e : EP!Queue(EP!Find(ip), e, q, d)
      BY <3>1 DEF EP!etharp_query
    <3>3. \/ refs' = [EP!Freed(d \union {e.q}) EXCEPT ![q] = 1]
          \/ refs' = EP!Freed(d)
      BY <3>2 DEF EP!Queue
    <3>4. \A qs : EP!Freed(qs) = [p \in Pbufs |-> EP!Freed(qs)[p]]
      BY DEF EP!Freed
    <3>5. CASE refs' = [EP!Freed(d \union {e.q}) EXCEPT ![q] = 1]
      BY <3>4, <3>5
    <3>6. CASE refs' = EP!Freed(d)
      BY <3>6
    <3> QED
      BY <3>3, <3>5, <3>6
  <2> QED
    BY <2>1, <2>2
<1> QED
  BY <1>3, <1>4, FreedLess

\* A step that leaves ARP alone queues nothing.
LEMMA NoArpResolves ==
  ASSUME EP!IInv, UNCHANGED <<arp_table, etharp_cached_entry, refs, quiet>>
  PROVE  Resolves({}) /\ Table' = Table
<1>1. EP!Kept'
  BY EP!StutterKeeps, Assumed
<1> QED
  BY <1>1, KeptIs DEF Resolves, Table

\* Sending through the gateway queues at most the packet sent.
LEMMA RemoteResolves ==
  ASSUME EP!IInv, NEW q \in Pbufs, q \notin Table, A!OutputRemote(q)
  PROVE  Resolves({q})
<1>1. CASE Gateway = NoIP
  BY <1>1, NoArpResolves DEF A!OutputRemote, Resolves
<1>2. CASE Gateway # NoIP
  <2>1. Gateway \in Hosts
    BY <1>2, Assumed DEF EP!EtharpAssumption
  <2> QED
    BY <1>2, <2>1, LocalResolves DEF A!OutputRemote
<1> QED
  BY <1>1, <1>2

\* An ARP packet that arrives queues nothing.
LEMMA InputResolves ==
  ASSUME EP!IInv, NEW ip \in Hosts \union {NoIP}, NEW mac \in {Mac[h] : h \in Hosts},
         NEW for_us, A!etharp_input(ip, mac, for_us)
  PROVE  Resolves({})
<1>1. CASE ip # NoIP /\ (for_us \/ A!Match(ip) # {})
  <2>1. EP!etharp_update_arp_entry(ip, mac) /\ UNCHANGED etharp_cached_entry
    BY <1>1, SameUpdate DEF A!etharp_input
  <2>2. EP!Kept' /\ ip \in Hosts
    BY <1>1, <2>1, EP!UpdateKeeps, Assumed
  <2>3. PICK qs : refs' = EP!Freed(qs)
    BY <2>1 DEF EP!etharp_update_arp_entry
  <2>4. \A q : Resolves({q})
    BY <2>2, <2>3, FreedLess
  <2> QED
    BY <2>4 DEF Resolves, Table
<1>2. CASE ~(ip # NoIP /\ (for_us \/ A!Match(ip) # {}))
  BY <1>2, NoArpResolves DEF A!etharp_input
<1> QED
  BY <1>1, <1>2

\* The ARP timer queues nothing.
LEMMA TimerResolves ==
  ASSUME EP!IInv, A!etharp_tmr
  PROVE  Resolves({})
<1>1. EP!etharp_tmr
  BY SameTimer
<1>2. EP!Kept'
  BY <1>1, EP!TimerKeeps, Assumed
<1>3. PICK qs : refs' = EP!Freed(qs)
  BY <1>1 DEF EP!etharp_tmr
<1>4. \A q : Resolves({q})
  BY <1>2, <1>3, FreedLess
<1> QED
  BY <1>4 DEF Resolves, Table

-----------------------------------------------------------------------------
(* The list of fragments.                                                  *)

\* The fragments of the node are those of the reassembly proofs.
LEMMA SameFragments == R!Fragments = RP!Fragments
BY DEF R!Fragments, R!ip4_frag, R!Least, R!Whole,
       RP!Fragments, RP!ip4_frag, RP!Least, RP!Whole

\* So is making room among the datagrams,
LEMMA SameRemove ==
  /\ R!State = RP!State
  /\ \A p : R!pbuf_clen(p) = RP!pbuf_clen(p)
  /\ \A S : R!Clen(S) = RP!Clen(S)
  /\ \A S, id, n : R!ip_reass_remove_oldest_datagram(S, id, n)
                     = RP!ip_reass_remove_oldest_datagram(S, id, n)
<1>1. /\ R!State = RP!State
      /\ \A p : R!pbuf_clen(p) = RP!pbuf_clen(p)
      /\ \A S : R!Clen(S) = RP!Clen(S)
  BY DEF R!State, R!pbuf_clen, R!Clen, R!Cardinality,
         RP!State, RP!pbuf_clen, RP!Clen, RP!Cardinality
<1>2. ASSUME NEW S, NEW id, NEW n
      PROVE  R!ip_reass_remove_oldest_datagram(S, id, n)
               = RP!ip_reass_remove_oldest_datagram(S, id, n)
  BY Zenon DEF R!ip_reass_remove_oldest_datagram, R!GiveUp,
       R!Others, R!Matches, R!Oldest, R!ip_reass_free_complete_datagram,
       R!Without, R!PbufsOf, R!Clen, R!Cardinality,
       RP!ip_reass_remove_oldest_datagram,
       RP!GiveUp, RP!Others, RP!Matches, RP!Oldest,
       RP!ip_reass_free_complete_datagram, RP!Without, RP!PbufsOf, RP!Clen,
       RP!Cardinality
<1> QED
  BY <1>1, <1>2

\* entering a fragment into its datagram or dropping it,
LEMMA SameEnter ==
  /\ \A S, fs : R!Drop(S, fs) <=> RP!Drop(S, fs)
  /\ \A S, i, f, p : R!Enter(S, i, f, p) <=> RP!Enter(S, i, f, p)
<1>1. ASSUME NEW S, NEW fs
      PROVE  R!Drop(S, fs) <=> RP!Drop(S, fs)
  BY DEF R!Drop, RP!Drop
<1>2. ASSUME NEW S, NEW i, NEW f, NEW p
      PROVE  R!Enter(S, i, f, p) <=> RP!Enter(S, i, f, p)
  BY Zenon DEF R!Drop, R!Enter, R!Chain, R!Entry, R!Inserted, R!Place, R!Overlaps,
       R!Finished, R!Without, R!PbufsOf, R!pbuf_clen, R!Clen,
       R!Cardinality,
       RP!Drop, RP!Enter, RP!Chain, RP!Entry, RP!Inserted, RP!Place,
       RP!Overlaps, RP!Finished, RP!Without, RP!PbufsOf, RP!pbuf_clen,
       RP!Clen, RP!Cardinality
<1> QED
  BY <1>1, <1>2

\* ip4_reass as a whole,
LEMMA SameReass ==
  ASSUME NEW f, NEW p, R!ip4_reass(f, p)
  PROVE  RP!ip4_reass(f, p)
<1>1. ASSUME NEW S, R!Find(S, f, p) PROVE RP!Find(S, f, p)
  BY <1>1, SameRemove, SameEnter
     DEF R!Find, R!Matches, R!NewEntry, RP!Find, RP!Matches, RP!NewEntry
<1> QED
  BY <1>1, SameRemove, SameEnter
     DEF R!ip4_reass, R!Fits, RP!ip4_reass, RP!Fits

\* and its timer.
LEMMA SameTmr == R!ip_reass_tmr => RP!ip_reass_tmr
BY Zenon DEF R!ip_reass_tmr, R!State, R!Tick, R!ip_reass_free_complete_datagram,
       R!Without, R!PbufsOf, R!Clen, R!Drop, R!Cardinality,
       RP!ip_reass_tmr, RP!State, RP!Tick, RP!ip_reass_free_complete_datagram,
       RP!Without, RP!PbufsOf, RP!Clen, RP!Drop, RP!Cardinality

\* The pbufs held by reassembly are pool elements.
LEMMA BusyType ==
  ASSUME RP!IInv
  PROVE  busy \subseteq Pool
<1>1. RP!OpenList(reassdatagrams) /\ busy = RP!Queued(reassdatagrams)
  BY DEF RP!IInv, RP!GoodList
<1> QED
  BY <1>1, RP!ListHas, Assumed

\* ip4_reass keeps the invariant of reassembly, and either holds the fragment's
\* pbufs, hands them on or frees them.
LEMMA FragmentKeeps ==
  ASSUME RP!IInv, NEW f \in R!Fragments, NEW p \in Pool, p \notin busy,
         R!ip4_reass(f, p)
  PROVE  RP!IInv' /\ RP!Handed(p)
<1>1. RP!Piece(f) /\ RP!ip4_reass(f, p) /\ RP!ReassAssumption
  BY SameFragments, SameReass, RP!FragmentsAre, Assumed
<1> QED
  BY <1>1, RP!ReassKeeps, RP!ReassHands

\* ip_reass_tmr keeps the invariant of reassembly and only frees.
LEMMA ListTmrKeeps ==
  ASSUME RP!IInv, R!ip_reass_tmr
  PROVE  RP!IInv' /\ busy' \subseteq busy
BY SameTmr, RP!TmrKeeps, Assumed

\* A step that leaves reassembly alone keeps its invariant.
LEMMA NoReassKeeps ==
  ASSUME RP!IInv, UNCHANGED <<reassdatagrams, ip_reass_pbufcount, busy>>
  PROVE  RP!IInv'
BY DEF RP!IInv, RP!GoodList, RP!OpenList, RP!Queued, RP!Members, RP!Clen
-----------------------------------------------------------------------------
(* Memory.                                                                 *)

\* A pbuf with nothing in it has the type of a content.
LEMMA NothingIs == IsContent(Nothing)
BY DEF IsContent, Nothing

\* What leaves an owner, or has none any more, stays apart.
LEMMA ApartLess ==
  ASSUME NEW ct, NEW T, NEW B, NEW rs, Apart(ct, T, B, rs),
         NEW U, U \subseteq T, NEW D, D \subseteq B
  PROVE  Apart(ct, U, D, rs) /\ Apart(ct, U, D, <<>>)
BY DEF Apart, Range

\* Only what is chained to the heads and to the reply counts.
LEMMA ApartSame ==
  ASSUME NEW ct, NEW T, NEW B, NEW rs, Apart(ct, T, B, rs), NEW cu,
         \A p \in T : cu[p].next = ct[p].next,
         rs # <<>> => cu[rs[1]].next = ct[rs[1]].next
  PROVE  Apart(cu, T, B, rs)
<1>1. \A p \in T : ChainOf(cu, p) = ChainOf(ct, p)
  BY DEF ChainOf
<1>2. rs # <<>> => ChainOf(cu, rs[1]) = ChainOf(ct, rs[1])
  BY DEF ChainOf
<1> QED
  BY <1>1, <1>2 DEF Apart

\* The first pbuf of a chain is one of the chain's.
LEMMA FirstIn ==
  ASSUME NEW X, NEW s \in Seq(X), s # <<>>
  PROVE  1 \in DOMAIN s /\ s[1] \in Range(s) /\ s[1] \in X /\ Range(s) \subseteq X
<1>1. Len(s) \in Nat /\ DOMAIN s = 1..Len(s) /\ Len(s) # 0
  OBVIOUS
<1> QED
  BY <1>1 DEF Range

\* Contents that respect their owners still do when they are taken over.
LEMMA MemoryKeeps ==
  ASSUME NEW ct, IsMemory(ct), Memory(ct), reply' \in Seq(Pbufs),
         Apart(ct, Table', busy', reply')
  PROVE  IsMemory(content') /\ Apart(content', Table', busy', reply')
<1> DEFINE Held(p) == \/ p \in busy' \union Range(reply')
                      \/ \E q \in Pbufs : refs'[q] > 0 /\ p \in {q} \union Range(ct[q].next)
<1>1. content' = [p \in Pbufs |-> IF Held(p) THEN ct[p] ELSE Nothing]
  BY DEF Memory
<1>2. \A p \in Table' : Held(p) /\ p \in Pbufs
  BY DEF Table
<1>3. reply' # <<>> => Held(reply'[1]) /\ reply'[1] \in Pbufs
  BY FirstIn
<1> HIDE DEF Held
<1>4. \A p \in Table' : content'[p] = ct[p]
  BY <1>1, <1>2
<1>5. reply' # <<>> => content'[reply'[1]] = ct[reply'[1]]
  BY <1>1, <1>3
<1>6. Apart(content', Table', busy', reply')
  <2>1. PICK cu, T, B, rs :
          cu = content' /\ T = Table' /\ B = busy' /\ rs = reply'
    OBVIOUS
  <2>2. Apart(cu, T, B, rs)
    BY <1>4, <1>5, <2>1, ApartSame
  <2> QED
    BY <2>1, <2>2
<1>7. content' = [p \in Pbufs |-> content'[p]]
  BY <1>1
<1>8. \A p \in Pbufs : IsContent(content'[p])
  BY <1>1, NothingIs DEF IsMemory
<1> QED
  BY <1>6, <1>7, <1>8 DEF IsMemory

\* The pbufs in use are those of the three owners.
LEMMA InUseIs ==
  ASSUME IsMemory(content), reply \in Seq(Pbufs), busy \subseteq Pbufs
  PROVE  /\ busy \subseteq InUse /\ Range(reply) \subseteq InUse
         /\ \A p \in Table : ChainOf(content, p) \subseteq InUse
BY DEF InUse, ChainOf, Table

-----------------------------------------------------------------------------
(* pbuf_alloc.                                                             *)

\* A finite set of numbers has one with each number of others below it.
LEMMA NthIs ==
  ASSUME NEW S, S \subseteq Nat, IsFiniteSet(S), NEW k \in 1..Cardinality(S)
  PROVE  \E p \in S : Cardinality({q \in S : q < p}) = k - 1
<1> DEFINE Below(p) == {q \in S : q < p}
           B == {m \in Nat : \E p \in S : Cardinality(Below(p)) = m}
           C == Cardinality(S)
<1>1. C \in Nat /\ C # 0 /\ S # {}
  BY FS_CardinalityType, FS_EmptySet
<1>2. \A q \in S : q \in Nat
  OBVIOUS
<1>3. 0 \in B
  <2>1. PICK p \in S : \A q \in S : p <= q
    BY <1>1, RP!LeastOf, Assumed
  <2>2. \A q \in S : ~(q < p)
    BY <1>2, <2>1
  <2>3. Below(p) = {}
    BY <2>2
  <2>4. Cardinality(Below(p)) = 0
    BY <2>3, FS_EmptySet
  <2> QED
    BY <2>4
<1>4. ASSUME NEW n \in 1..C - 1, n - 1 \in B
      PROVE  n \in B
  <2>1. PICK p \in S : Cardinality(Below(p)) = n - 1
    BY <1>4
  <2>2. n \in Nat /\ n - 1 \in Nat /\ n - 1 + 1 = n /\ n # C
    BY <1>1
  <2>3. PICK L : L = Below(p)
    OBVIOUS
  <2>4. IsFiniteSet(L)
    BY <2>3, FS_Subset
  <2>5. p \notin L
    BY <1>2, <2>3
  <2>6. Cardinality(L \union {p}) = n
    BY <2>1, <2>2, <2>3, <2>4, <2>5, FS_AddElement
  <2> DEFINE Above == {q \in S : p < q}
  <2>7. Above # {}
    <3>1. ASSUME Above = {}
          PROVE  S = L \union {p}
      <4>1. \A q \in S : q < p \/ q = p
        BY <1>2, <3>1
      <4> QED
        BY <2>3, <4>1
    <3>2. S # L \union {p}
      BY <2>2, <2>6
    <3> QED
      BY <3>1, <3>2
  <2>8. PICK r \in Above : \A q \in Above : r <= q
    <3>1. Above \subseteq Nat
      OBVIOUS
    <3> HIDE DEF Above
    <3> QED
      BY <2>7, <3>1, RP!LeastOf, Assumed
  <2>9. r \in S /\ p < r /\ \A q \in S : p < q => r <= q
    BY <2>8
  <2>10. \A q \in S : q < r <=> q < p \/ q = p
    BY <1>2, <2>9
  <2>11. Below(r) = L \union {p}
    BY <2>3, <2>10
  <2>12. Cardinality(Below(r)) = n
    BY <2>6, <2>11
  <2> HIDE DEF Below
  <2> QED
    BY <2>2, <2>9, <2>12
<1>5. C - 1 \in Nat
  BY <1>1
<1>6. \A n \in 0..C - 1 : n \in B
  <2> HIDE DEF B, C
  <2> QED
    BY <1>3, <1>4, <1>5, RP!UpTo, Assumed
<1>7. k - 1 \in 0..C - 1
  BY <1>1
<1> QED
  BY <1>6, <1>7

\* What is allocated was not in use.
LEMMA AllocIs ==
  ASSUME NEW n \in Nat
  PROVE  Alloc(n) \in Seq(Pool \ InUse)
<1> DEFINE free == Pool \ InUse
           count == IF n = 0 THEN 1 ELSE (n + BUFSIZE - 1) \div BUFSIZE
           Nth(k) == CHOOSE p \in free : Cardinality({q \in free : q < p}) = k - 1
<1>1. free \subseteq Nat /\ IsFiniteSet(free) /\ Cardinality(free) \in Nat
  BY NodeAssumption, FS_Subset, FS_CardinalityType
<1>2. count \in Nat
  <2>1. BUFSIZE \in Nat \ {0}
    BY NodeAssumption
  <2>2. PICK m : m = n + BUFSIZE - 1
    OBVIOUS
  <2>3. m \in Nat
    BY <2>1, <2>2
  <2>4. m \div BUFSIZE \in Nat
    BY <2>1, <2>3
  <2> QED
    BY <2>2, <2>4
<1>3. Alloc(n) = IF Cardinality(free) < count THEN <<>>
                 ELSE [k \in 1..count |-> Nth(k)]
  BY DEF Alloc
<1>4. ASSUME ~(Cardinality(free) < count), NEW k \in 1..count
      PROVE  Nth(k) \in free
  <2>1. k \in 1..Cardinality(free)
    BY <1>1, <1>2, <1>4
  <2> HIDE DEF free
  <2>2. \E p \in free : Cardinality({q \in free : q < p}) = k - 1
    BY <1>1, <2>1, NthIs
  <2> QED
    BY <2>2
<1> HIDE DEF free, count, Nth
<1>5. CASE Cardinality(free) < count
  <2>1. Alloc(n) = <<>>
    BY <1>3, <1>5
  <2> QED
    BY <2>1
<1>6. CASE ~(Cardinality(free) < count)
  <2>1. Alloc(n) = [k \in 1..count |-> Nth(k)]
    BY <1>3, <1>6
  <2>2. Alloc(n) \in Seq(free)
    BY <1>2, <1>4, <1>6, <2>1
  <2> QED
    BY <2>2 DEF free
<1> QED
  BY <1>5, <1>6
-----------------------------------------------------------------------------
(* ICMP.                                                                   *)

\* Errors that have no pbuf yet, and so nothing behind it.
Loose(S) == \A e \in S : IsContent(e) /\ e.next = <<>>

\* An ICMP error is a packet of its own, in no chain.
LEMMA ErrorIs ==
  ASSUME NEW type, NEW c
  PROVE  Loose({Error(type, c)})
<1>1. PICK bytes : bytes = Checked(type, SubSeq(c.bytes, 1,
                             Least(Len(c.bytes), ICMP_DEST_UNREACH_DATASIZE)))
  OBVIOUS
<1>2. Error(type, c) = [src |-> Us, dst |-> c.src, proto |-> "ICMP",
                        bytes |-> bytes, next |-> <<>>]
  BY <1>1 DEF Error
<1>3. PICK e : e = Error(type, c)
  OBVIOUS
<1>4. IsContent(e) /\ e.next = <<>>
  BY <1>2, <1>3 DEF IsContent
<1> QED
  BY <1>3, <1>4 DEF Loose

\* So are the errors ip_reass_free_complete_datagram sends.
LEMMA TimeExceededIs ==
  ASSUME NEW S
  PROVE  Loose(TimeExceeded(S))
BY ErrorIs DEF TimeExceeded, Loose

\* icmp_input turns a request into a reply in place, and leaves its chain alone.
LEMMA RepliedIs ==
  ASSUME NEW c, IsContent(c)
  PROVE  IsContent(Replied(c)) /\ Replied(c).next = c.next
<1>1. PICK src, dst, proto, bytes, next :
        c = [src |-> src, dst |-> dst, proto |-> proto, bytes |-> bytes,
             next |-> next]
  BY DEF IsContent
<1>2. next = c.next
  BY <1>1
<1>3. PICK new : new = <<ICMP_ER, c.bytes[2],
                         EchoChksum(WordAt(c.bytes, 3), ICMP_ECHO) % BASE,
                         EchoChksum(WordAt(c.bytes, 3), ICMP_ECHO) \div BASE>>
                       \o SubSeq(c.bytes, 5, Len(c.bytes))
  OBVIOUS
<1>4. Replied(c) = [c EXCEPT !.src = c.dst, !.dst = c.src, !.bytes = new]
  BY <1>1, <1>3 DEF Replied
<1>5. Replied(c) = [src |-> dst, dst |-> src, proto |-> proto, bytes |-> new,
                    next |-> next]
  BY <1>1, <1>4
<1> QED
  BY <1>2, <1>5 DEF IsContent

-----------------------------------------------------------------------------
(* Input.                                                                  *)

\* What a handler has to leave behind for its part of the invariant.
LEMMA HandlingIs ==
  ASSUME NEW ct, IsMemory(ct), Memory(ct), reply' \in Seq(Pbufs),
         Loose(errors'), Apart(ct, Table', busy', reply')
  PROVE  Handling'
<1>1. IsMemory(content') /\ Apart(content', Table', busy', reply')
  BY MemoryKeeps
<1> QED
  BY <1>1 DEF Handling, Loose

\* Handing a datagram to its protocol keeps the handler's part of the invariant.
LEMMA DeliverKeeps ==
  ASSUME NEW chain \in Seq(Pbufs), chain # <<>>, NEW ct, IsMemory(ct),
         Apart(ct, Table', busy', chain), NEW told, Loose(told),
         Deliver(chain, ct, told)
  PROVE  Handling'
<1>1. PICK p, c : p = chain[1] /\ c = ct[p]
  OBVIOUS
<1>2. p \in Pbufs
  BY <1>1, FirstIn
<1>3. Loose(errors')
  <2>1. Loose({Error(ICMP_DUR, c)})
    BY ErrorIs
  <2> QED
    BY <1>1, <2>1 DEF Deliver, Loose
<1>4. CASE reply' = <<>> /\ Memory(ct)
  <2>1. reply' \in Seq(Pbufs)
    BY <1>4
  <2>2. PICK T, B : T = Table' /\ B = busy'
    OBVIOUS
  <2>3. Apart(ct, T, B, <<>>)
    BY <2>2, ApartLess
  <2> QED
    BY <1>3, <1>4, <2>1, <2>2, <2>3, HandlingIs
<1>5. CASE reply' = chain /\ Memory([ct EXCEPT ![chain[1]] = Replied(@)])
  <2>1. PICK cu : cu = [ct EXCEPT ![p] = Replied(c)]
    OBVIOUS
  <2>2. Memory(cu)
    BY <1>1, <1>5, <2>1
  <2>3. IsContent(c) /\ ct = [q \in Pbufs |-> ct[q]]
    BY <1>1, <1>2 DEF IsMemory
  <2>4. /\ cu = [q \in Pbufs |-> cu[q]] /\ cu[p] = Replied(c)
        /\ \A q \in Pbufs : q # p => cu[q] = ct[q]
    BY <1>2, <2>1, <2>3
  <2>5. IsContent(Replied(c)) /\ Replied(c).next = c.next
    BY <2>3, RepliedIs
  <2>6. IsMemory(cu) /\ \A q \in Pbufs : cu[q].next = ct[q].next
    BY <1>1, <2>4, <2>5 DEF IsMemory
  <2>7. PICK T, B : T = Table' /\ B = busy'
    OBVIOUS
  <2>8. T \subseteq Pbufs
    BY <2>7 DEF Table
  <2>9. Apart(cu, T, B, chain)
    BY <1>1, <1>2, <2>6, <2>7, <2>8, ApartSame
  <2> QED
    BY <1>3, <1>5, <2>2, <2>6, <2>7, <2>9, HandlingIs
<1> QED
  BY <1>4, <1>5 DEF Deliver

\* So does letting go of the frame.
LEMMA DiscardKeeps ==
  ASSUME Handling, Table' \subseteq Table, busy' \subseteq busy, Discard
  PROVE  Handling'
<1>1. PICK T, B : T = Table' /\ B = busy'
  OBVIOUS
<1>2. Apart(content, T, B, <<>>)
  BY <1>1, ApartLess DEF Handling
<1>3. reply' = <<>> /\ Loose(errors') /\ Memory(content)
  BY DEF Discard, Loose
<1>4. reply' \in Seq(Pbufs)
  BY <1>3
<1> QED
  BY <1>1, <1>2, <1>3, <1>4, HandlingIs DEF Handling

\* A packet in one piece comes into pbufs that had no owner.
LEMMA InOnePieceKeeps ==
  ASSUME Inv, NEW f \in Arriving, NoArp, InOnePiece(f)
  PROVE  Inv'
<1>1. EP!IInv' /\ Table' = Table /\ RP!IInv' /\ busy' = busy
  BY NoArpResolves, NoReassKeeps
     DEF Inv, NoArp, InOnePiece, NoReass, Resolves
<1>2. busy \subseteq Pbufs
  BY BusyType DEF Inv, Pbufs
<1>3. PICK chain, ct : chain = Alloc(Len(f.bytes)) /\ ct = pbuf_take(chain, f)
  OBVIOUS
<1>4. chain \in Seq(Pool \ InUse)
  <2>1. Len(f.bytes) \in Nat
    BY NodeAssumption
  <2> QED
    BY <1>3, <2>1, AllocIs
<1>5. Handling'
  <2>1. CASE Discard
    BY <1>1, <2>1, DiscardKeeps DEF Inv
  <2>2. CASE chain # <<>> /\ Deliver(chain, ct, {})
    <3>1. chain \in Seq(Pbufs) /\ Range(chain) \subseteq Pbufs \ InUse
          /\ chain[1] \in Range(chain)
      <4>1. Pool \ InUse \subseteq Pbufs \ InUse
        BY DEF Pbufs
      <4>2. chain \in Seq(Pbufs)
        BY <1>4, <4>1
      <4> QED
        BY <1>4, <2>2, <4>1, <4>2, FirstIn
    <3>2. Tail(chain) \in Seq(Pbufs) /\ Range(Tail(chain)) \subseteq Range(chain)
      BY <2>2, <3>1 DEF Range
    <3>3. /\ ct = [p \in Pbufs |-> ct[p]]
          /\ \A p \in Pbufs : p \notin Range(chain) => ct[p] = content[p]
      BY <1>3 DEF pbuf_take
    <3>4. ASSUME NEW p \in Range(chain)
          PROVE  IsContent(ct[p]) /\ ct[p].next \in {Tail(chain), <<>>}
      <4> DEFINE k == CHOOSE k \in DOMAIN chain : chain[k] = p
                 to == IF k = Len(chain) THEN Len(f.bytes) ELSE k * BUFSIZE
      <4>1. PICK bytes, next : /\ bytes = SubSeq(f.bytes, (k - 1) * BUFSIZE + 1, to)
                               /\ next = IF k = 1 THEN Tail(chain) ELSE <<>>
        OBVIOUS
      <4>2. p \in Pbufs
        BY <3>1
      <4>3. ct[p] = [src |-> f.src, dst |-> f.dst, proto |-> f.proto,
                     bytes |-> bytes, next |-> next]
        BY <1>3, <4>1, <4>2 DEF pbuf_take
      <4>4. next \in {Tail(chain), <<>>} /\ next \in Seq(Pbufs)
        BY <3>2, <4>1
      <4> HIDE DEF k, to
      <4> QED
        BY <4>3, <4>4 DEF IsContent
    <3>5. IsMemory(ct)
      BY <3>3, <3>4 DEF IsMemory, Inv, Handling
    <3>6. /\ IsMemory(content) /\ reply \in Seq(Pbufs)
          /\ Apart(content, Table, busy, reply)
      BY DEF Inv, Handling
    <3>7. Apart(content, Table, busy, <<>>)
      BY <3>6, ApartLess
    <3>8. /\ busy \intersect Range(chain) = {}
          /\ \A p \in Table : ChainOf(content, p) \intersect Range(chain) = {}
      BY <1>2, <3>1, <3>6, InUseIs
    <3>9. \A p \in Table : p \notin Range(chain) /\ p \in Pbufs
      BY <3>8 DEF ChainOf, Table
    <3>10. \A p \in Table : ChainOf(ct, p) = ChainOf(content, p)
      BY <3>3, <3>9 DEF ChainOf
    <3>11. ChainOf(ct, chain[1]) \subseteq Range(chain)
      BY <3>1, <3>2, <3>4 DEF ChainOf, Range
    <3>12. Apart(ct, Table, busy, chain)
      BY <3>7, <3>8, <3>10, <3>11 DEF Apart
    <3>13. Loose({})
      BY DEF Loose
    <3> QED
      BY <1>1, <2>2, <3>1, <3>5, <3>12, <3>13, DeliverKeeps
  <2> QED
    BY <1>3, <2>1, <2>2 DEF InOnePiece
<1> QED
  BY <1>1, <1>5 DEF Inv
LEMMA LowestIs ==
  ASSUME NEW S, S \subseteq Nat, S # {}
  PROVE  Lowest(S) \in S
<1>1. \E x \in S : \A y \in S : x <= y
  BY RP!LeastOf, Assumed
<1> QED
  BY <1>1 DEF Lowest

\* A fragment comes into a pbuf that had no owner.  The list keeps it, or
\* frees it, or hands it on with those it had.
LEMMA InFragmentKeeps ==
  ASSUME Inv, NEW f \in R!Fragments, NEW p \in Pool \ InUse, NoArp,
         InFragment(f, p)
  PROVE  Inv'
<1>1. EP!IInv' /\ Table' = Table
  BY NoArpResolves DEF Inv, NoArp, Resolves
<1>2. busy \subseteq Pool /\ Pool \subseteq Pbufs
  BY BusyType DEF Inv, Pbufs
<1>3. /\ IsMemory(content) /\ reply \in Seq(Pbufs)
      /\ Apart(content, Table, busy, reply)
  BY DEF Inv, Handling
<1>4. /\ p \in Pool /\ p \in Pbufs /\ p \notin busy
      /\ \A q \in Table : p \notin ChainOf(content, q)
  BY <1>2, <1>3, InUseIs
<1>5. PICK m : m = MessageOf[f.id]
  OBVIOUS
<1>6. PICK ct : ct = [content EXCEPT ![p] =
                        [src |-> m.src, dst |-> m.dst, proto |-> m.proto,
                         bytes |-> SubSeq(m.bytes, f.start + 1, f.end), next |-> <<>>]]
  OBVIOUS
<1>7. R!ip4_reass(f, p)
  BY DEF InFragment
<1>8. RP!IInv' /\ RP!Handed(p)
  BY <1>4, <1>7, FragmentKeeps DEF Inv
<1>9. /\ ct = [q \in Pbufs |-> ct[q]]
      /\ \A q \in Pbufs : q # p => ct[q] = content[q]
  BY <1>3, <1>4, <1>6 DEF IsMemory
<1>10. IsContent(ct[p])
  <2>1. PICK bytes : bytes = SubSeq(m.bytes, f.start + 1, f.end)
    OBVIOUS
  <2>2. ct[p] = [src |-> m.src, dst |-> m.dst, proto |-> m.proto,
                 bytes |-> bytes, next |-> <<>>]
    BY <1>3, <1>4, <1>6, <2>1 DEF IsMemory
  <2> QED
    BY <2>2 DEF IsContent
<1>11. IsMemory(ct)
  BY <1>3, <1>9, <1>10 DEF IsMemory
<1>12. \A q \in Table : q # p /\ q \in Pbufs /\ ct[q] = content[q]
  BY <1>4, <1>9 DEF ChainOf, Table
\* What waits for ARP is not touched by this.
<1>13. /\ \A q \in Table : ChainOf(ct, q) \intersect (busy \union {p}) = {}
       /\ \A q, r \in Table : q # r => ChainOf(ct, q) \intersect ChainOf(ct, r) = {}
  <2>1. \A q \in Table : ChainOf(ct, q) = ChainOf(content, q)
    BY <1>12 DEF ChainOf
  <2>2. /\ \A q \in Table : ChainOf(content, q) \intersect busy = {}
        /\ \A q, r \in Table :
             q # r => ChainOf(content, q) \intersect ChainOf(content, r) = {}
    BY <1>3 DEF Apart
  <2> QED
    BY <1>4, <2>1, <2>2
<1>14. busy' \subseteq busy \union {p}
  BY <1>8 DEF RP!Handed
<1>15. CASE datagram' = {}
  <2>1. reply' = <<>> /\ errors' = TimeExceeded(exceeded') /\ Memory(ct)
    BY <1>5, <1>6, <1>15 DEF InFragment
  <2>2. Apart(ct, Table, busy', <<>>)
    BY <1>13, <1>14 DEF Apart, Range
  <2>3. Loose(errors') /\ reply' \in Seq(Pbufs)
    BY <2>1, TimeExceededIs
  <2>4. Handling'
    BY <1>1, <1>11, <2>1, <2>2, <2>3, HandlingIs
  <2> QED
    BY <1>1, <1>8, <2>4 DEF Inv
<1>16. CASE datagram' # {}
  <2>1. PICK o : /\ datagram' = {o} /\ o.parts \in Seq(RP!Parts) /\ o.parts # <<>>
                 /\ \A k \in DOMAIN o.parts :
                      o.parts[k].pbuf \in (busy \union {p}) \ busy'
    BY <1>8, <1>16 DEF RP!Handed
  <2>2. PICK d : d = CHOOSE g \in datagram' : TRUE
    OBVIOUS
  <2>3. d = o
    BY <2>1, <2>2
  <2>4. PICK chain : chain = [k \in DOMAIN d.parts |-> d.parts[k].pbuf]
    OBVIOUS
  <2>5. PICK told : told = TimeExceeded(exceeded')
    OBVIOUS
  <2>6. PICK cu : cu = [ct EXCEPT ![chain[1]].next = Tail(chain)]
    OBVIOUS
  <2>7. Deliver(chain, cu, told)
    BY <1>5, <1>6, <1>16, <2>2, <2>4, <2>5, <2>6 DEF InFragment
  <2>8. /\ chain \in Seq(Pbufs) /\ chain # <<>>
        /\ Range(chain) \subseteq (busy \union {p}) \ busy'
    <3>1. Len(o.parts) \in Nat /\ DOMAIN o.parts = 1..Len(o.parts) /\ Len(o.parts) # 0
      BY <2>1
    <3>2. PICK n : n = Len(o.parts)
      OBVIOUS
    <3>3. /\ n \in Nat /\ n # 0 /\ chain = [k \in 1..n |-> o.parts[k].pbuf]
          /\ \A k \in 1..n : o.parts[k].pbuf \in (busy \union {p}) \ busy'
      BY <2>1, <2>3, <2>4, <3>1, <3>2
    <3>4. /\ DOMAIN chain = 1..n
          /\ \A k \in 1..n : chain[k] \in (busy \union {p}) \ busy'
      BY <3>3
    <3>5. \A k \in 1..n : chain[k] \in Pbufs
      BY <1>2, <1>4, <3>4
    <3>6. chain \in Seq(Pbufs)
      BY <3>3, <3>5
    <3>7. chain # <<>>
      BY <3>3, <3>4, <3>6
    <3> QED
      BY <3>4, <3>6, <3>7 DEF Range
  <2>9. /\ chain[1] \in Range(chain) /\ chain[1] \in Pbufs
        /\ Range(chain) \subseteq Pbufs /\ Tail(chain) \in Seq(Pbufs)
        /\ Range(Tail(chain)) \subseteq Range(chain)
    <3>1. chain[1] \in Range(chain) /\ chain[1] \in Pbufs /\ Range(chain) \subseteq Pbufs
      BY <2>8, FirstIn
    <3>2. Tail(chain) \in Seq(Pbufs)
      BY <2>8
    <3>3. Range(Tail(chain)) \subseteq Range(chain)
      BY <2>8 DEF Range
    <3> QED
      BY <3>1, <3>2, <3>3
  <2>10. PICK h, t, c : h = chain[1] /\ t = Tail(chain) /\ c = ct[chain[1]]
    OBVIOUS
  <2>11. /\ cu = [q \in Pbufs |-> cu[q]] /\ cu[h] = [c EXCEPT !.next = t]
         /\ \A q \in Pbufs : q # h => cu[q] = ct[q]
    BY <1>9, <2>6, <2>9, <2>10
  <2>12. IsContent(cu[h]) /\ cu[h].next = t
    <3>1. IsContent(c)
      BY <1>11, <2>9, <2>10 DEF IsMemory
    <3>2. PICK src, dst, proto, bytes, next :
            c = [src |-> src, dst |-> dst, proto |-> proto, bytes |-> bytes,
                 next |-> next]
      BY <3>1 DEF IsContent
    <3>3. cu[h] = [src |-> src, dst |-> dst, proto |-> proto, bytes |-> bytes,
                   next |-> t]
      BY <2>11, <3>2
    <3> QED
      BY <2>9, <2>10, <3>3 DEF IsContent
  <2>13. IsMemory(cu)
    BY <1>11, <2>11, <2>12 DEF IsMemory
  <2>14. \A q \in Table : q # h /\ cu[q] = ct[q]
    <3>1. h \in busy \union {p}
      BY <2>8, <2>9, <2>10
    <3>2. \A q \in Table : q \notin busy \union {p}
      BY <1>13 DEF ChainOf
    <3> QED
      BY <1>12, <2>11, <3>1, <3>2
  <2>15. /\ \A q \in Table : ChainOf(cu, q) \intersect (busy' \union Range(chain)) = {}
         /\ \A q, r \in Table : q # r => ChainOf(cu, q) \intersect ChainOf(cu, r) = {}
    <3>1. \A q \in Table : ChainOf(cu, q) = ChainOf(ct, q)
      BY <2>14 DEF ChainOf
    <3> QED
      BY <1>13, <1>14, <2>8, <3>1
  <2>16. ChainOf(cu, chain[1]) \subseteq Range(chain)
    BY <2>9, <2>10, <2>12 DEF ChainOf
  <2>17. busy' \intersect Range(chain) = {}
    BY <2>8
  <2>18. Apart(cu, Table, busy', chain)
    BY <2>15, <2>16, <2>17 DEF Apart
  <2>19. Loose(told)
    BY <2>5, TimeExceededIs
  <2>20. Handling'
    BY <1>1, <2>7, <2>8, <2>13, <2>18, <2>19, DeliverKeeps
  <2> QED
    BY <1>1, <1>8, <2>20 DEF Inv
<1> QED
  BY <1>15, <1>16
\* Nothing comes in; at most something ends.
LEMMA EndKeeps ==
  ASSUME Inv, Resolves({}), RP!IInv', busy' \subseteq busy, reply' = <<>>,
         Loose(errors'), Memory(content)
  PROVE  Inv'
<1>1. PICK T, B : T = Table' /\ B = busy'
  OBVIOUS
<1>2. Apart(content, T, B, <<>>)
  BY <1>1, ApartLess DEF Inv, Handling, Resolves
<1>3. reply' \in Seq(Pbufs)
  OBVIOUS
<1>4. Handling'
  BY <1>1, <1>2, <1>3, HandlingIs DEF Inv, Handling
<1> QED
  BY <1>4 DEF Inv, Resolves

\* A frame for which there is no pbuf keeps the invariant.
LEMMA LostFrameKeeps == Inv /\ LostFrame => Inv'
<1> SUFFICES ASSUME Inv, LostFrame PROVE Inv'
  OBVIOUS
<1>1. Resolves({})
  BY NoArpResolves DEF Inv, LostFrame, NoArp
<1>2. RP!IInv' /\ busy' \subseteq busy
  BY NoReassKeeps DEF Inv, LostFrame, NoReass
<1>3. reply' = <<>> /\ Loose(errors') /\ Memory(content)
  BY DEF LostFrame, Discard, Loose
<1> QED
  BY <1>1, <1>2, <1>3, EndKeeps

\* So does an ARP frame,
LEMMA ArpFrameKeeps == Inv /\ ArpFrame => Inv'
<1> SUFFICES ASSUME Inv, ArpFrame PROVE Inv'
  OBVIOUS
<1>1. PICK m \in ArpMessages : A!etharp_input(m.src, m.mac, m.for_us)
  BY DEF ArpFrame
<1>2. /\ m.src \in Hosts \union {NoIP} /\ m.mac \in {Mac[h] : h \in Hosts}
  BY NodeAssumption
<1>3. Resolves({})
  BY <1>1, <1>2, InputResolves DEF Inv
<1>4. RP!IInv' /\ busy' \subseteq busy
  BY NoReassKeeps DEF Inv, ArpFrame, NoReass
<1>5. reply' = <<>> /\ Loose(errors') /\ Memory(content)
  BY DEF ArpFrame, Discard, Loose
<1> QED
  BY <1>3, <1>4, <1>5, EndKeeps

\* an IP frame that takes ip4_input,
LEMMA Ip4InputKeeps ==
  ASSUME Inv, Pool \ InUse # {}, ip4_input
  PROVE  Inv'
<1>1. NoArp
  BY DEF ip4_input
<1>2. CASE \E f \in Arriving : InOnePiece(f)
  BY <1>1, <1>2, InOnePieceKeeps
<1>3. CASE \E f \in R!Fragments : InFragment(f, Lowest(Pool \ InUse))
  <2>1. PICK free, p : free = Pool \ InUse /\ p = Lowest(free)
    OBVIOUS
  <2>2. p \in free
    BY <2>1, LowestIs, NodeAssumption
  <2> QED
    BY <1>1, <1>3, <2>1, <2>2, InFragmentKeeps
<1> QED
  BY <1>2, <1>3 DEF ip4_input

\* and any frame low_level_input reads.
LEMMA InputKeeps == Inv /\ low_level_input => Inv'
BY LostFrameKeeps, ArpFrameKeeps, Ip4InputKeeps
   DEF low_level_input, ethernet_input

-----------------------------------------------------------------------------
(* Timers.                                                                 *)

\* The ARP timer keeps the invariant.
LEMMA ArpTimerKeeps == Inv /\ arp_timer => Inv'
<1> SUFFICES ASSUME Inv, arp_timer PROVE Inv'
  OBVIOUS
<1>1. Resolves({})
  BY TimerResolves DEF Inv, arp_timer
<1>2. RP!IInv' /\ busy' \subseteq busy
  BY NoReassKeeps DEF Inv, arp_timer, NoReass
<1>3. reply' = <<>> /\ Loose(errors') /\ Memory(content)
  BY DEF arp_timer, Discard, Loose
<1> QED
  BY <1>1, <1>2, <1>3, EndKeeps

\* The reassembly timer keeps the invariant.
LEMMA ReassTimerKeeps == Inv /\ ip_reass_timer => Inv'
<1> SUFFICES ASSUME Inv, ip_reass_timer PROVE Inv'
  OBVIOUS
<1>1. Resolves({})
  BY NoArpResolves DEF Inv, ip_reass_timer, NoArp
<1>2. RP!IInv' /\ busy' \subseteq busy
  BY ListTmrKeeps DEF Inv, ip_reass_timer
<1>3. reply' = <<>> /\ Loose(errors') /\ Memory(content)
  BY TimeExceededIs DEF ip_reass_timer
<1> QED
  BY <1>1, <1>2, <1>3, EndKeeps

-----------------------------------------------------------------------------
(* Output.                                                                 *)

\* Sending a packet leaves reassembly alone and queues at most that packet.
LEMMA IpOutputKeeps ==
  ASSUME Inv, NEW ct, NEW q \in Pbufs, q \notin Table, ip4_output_if(ct, q)
  PROVE  Resolves({q}) /\ RP!IInv' /\ busy' = busy
<1>1. Resolves({q})
  BY LocalResolves, RemoteResolves DEF Inv, ip4_output_if
<1>2. RP!IInv' /\ busy' = busy
  BY NoReassKeeps DEF Inv, ip4_output_if, NoReass
<1> QED
  BY <1>1, <1>2

\* An error comes into a pbuf of the heap that had no owner.
LEMMA SendErrorKeeps == Inv /\ icmp_send_response => Inv'
<1> SUFFICES ASSUME Inv, icmp_send_response PROVE Inv'
  OBVIOUS
<1>1. PICK e \in errors :
        /\ errors' = errors \ {e} /\ UNCHANGED reply
        /\ \/ /\ Ram \ InUse # {}
              /\ LET q == Lowest(Ram \ InUse)
                     ct == [content EXCEPT ![q] = e]
                 IN  ip4_output_if(ct, q) /\ Memory(ct)
           \/ NoArp /\ NoReass /\ wire' = {} /\ Memory(content)
  BY DEF icmp_send_response
<1>2. /\ IsMemory(content) /\ reply \in Seq(Pbufs) /\ Loose(errors)
      /\ Apart(content, Table, busy, reply)
  BY DEF Inv, Handling, Loose
<1>3. Loose(errors') /\ reply' \in Seq(Pbufs) /\ reply' = reply
  BY <1>1, <1>2 DEF Loose
<1>4. CASE NoArp /\ NoReass /\ Memory(content)
  <2>1. Resolves({}) /\ RP!IInv' /\ busy' = busy /\ Table' = Table
    BY <1>4, NoArpResolves, NoReassKeeps DEF Inv, NoArp, NoReass
  <2>2. Handling'
    BY <1>2, <1>3, <1>4, <2>1, HandlingIs
  <2> QED
    BY <2>1, <2>2 DEF Inv, Resolves
<1>5. CASE /\ Ram \ InUse # {}
           /\ LET q == Lowest(Ram \ InUse)
                  ct == [content EXCEPT ![q] = e]
              IN  ip4_output_if(ct, q) /\ Memory(ct)
  <2>1. PICK free, q, ct : /\ free = Ram \ InUse /\ q = Lowest(free)
                           /\ ct = [content EXCEPT ![q] = e]
    OBVIOUS
  <2>2. ip4_output_if(ct, q) /\ Memory(ct) /\ q \in free
    BY <1>5, <2>1, LowestIs, NodeAssumption
  <2>3. busy \subseteq Pbufs
    BY BusyType DEF Inv, Pbufs
  <2>4. /\ q \in Pbufs /\ q \notin busy \union Range(reply)
        /\ \A p \in Table : q \notin ChainOf(content, p)
    BY <1>2, <2>1, <2>2, <2>3, InUseIs DEF Pbufs
  <2>5. \A p \in Table : p # q /\ p \in Pbufs
    BY <2>4 DEF ChainOf, Table
  <2>6. Resolves({q}) /\ RP!IInv' /\ busy' = busy
    BY <2>2, <2>4, <2>5, IpOutputKeeps
  <2>7. /\ ct = [p \in Pbufs |-> ct[p]] /\ ct[q] = e
        /\ \A p \in Pbufs : p # q => ct[p] = content[p]
    BY <1>2, <2>1, <2>4 DEF IsMemory
  <2>8. IsContent(e) /\ e.next = <<>>
    BY <1>2 DEF Loose
  <2>9. IsMemory(ct)
    BY <1>2, <2>7, <2>8 DEF IsMemory
  <2>10. ChainOf(ct, q) = {q}
    BY <2>7, <2>8 DEF ChainOf, Range
  <2>11. \A p \in Table : ChainOf(ct, p) = ChainOf(content, p)
    BY <2>5, <2>7 DEF ChainOf
  <2>12. Apart(ct, Table \union {q}, busy, reply)
    <3>1. \A p \in Table \union {q} :
            ChainOf(ct, p) \intersect (busy \union Range(reply)) = {}
      BY <1>2, <2>4, <2>10, <2>11 DEF Apart
    <3>2. \A p, r \in Table \union {q} :
            p # r => ChainOf(ct, p) \intersect ChainOf(ct, r) = {}
      BY <1>2, <2>4, <2>10, <2>11 DEF Apart
    <3>3. reply # <<>> => ChainOf(ct, reply[1]) \subseteq Range(reply)
      <4>1. ASSUME reply # <<>>
            PROVE  reply[1] \in Pbufs /\ reply[1] # q
        BY <1>2, <2>4, <4>1, FirstIn
      <4>2. ASSUME reply # <<>>
            PROVE  ChainOf(ct, reply[1]) = ChainOf(content, reply[1])
        BY <2>7, <4>1, <4>2 DEF ChainOf
      <4> QED
        BY <1>2, <4>2 DEF Apart
    <3> QED
      BY <1>2, <3>1, <3>2, <3>3 DEF Apart
  <2>13. PICK T, B : T = Table' /\ B = busy'
    OBVIOUS
  <2>14. Apart(ct, T, B, reply)
    BY <2>6, <2>12, <2>13, ApartLess DEF Resolves
  <2>15. Handling'
    BY <1>3, <2>2, <2>9, <2>13, <2>14, HandlingIs
  <2> QED
    BY <2>6, <2>15 DEF Inv, Resolves
<1> QED
  BY <1>1, <1>4, <1>5

\* The reply is freed by the handler; the ARP table may keep it.
LEMMA SendReplyKeeps == Inv /\ SendReply => Inv'
<1> SUFFICES ASSUME Inv, SendReply PROVE Inv'
  OBVIOUS
<1>1. /\ errors = {} /\ errors' = errors /\ reply # <<>> /\ reply' = <<>>
      /\ ip4_output_if(content, reply[1]) /\ Memory(content)
  BY DEF SendReply
<1>2. /\ IsMemory(content) /\ reply \in Seq(Pbufs)
      /\ Apart(content, Table, busy, reply)
  BY DEF Inv, Handling
<1>3. PICK q : q = reply[1]
  OBVIOUS
<1>4. q \in Pbufs /\ q \in Range(reply) /\ ChainOf(content, q) \subseteq Range(reply)
  BY <1>1, <1>2, <1>3, FirstIn DEF Apart
<1>5. q \notin Table
  BY <1>2, <1>4 DEF Apart, ChainOf
<1>6. Resolves({q}) /\ RP!IInv' /\ busy' = busy
  BY <1>1, <1>3, <1>4, <1>5, IpOutputKeeps
<1>7. Apart(content, Table \union {q}, busy, <<>>)
  <2>1. \A p \in Table \union {q} : ChainOf(content, p) \intersect busy = {}
    BY <1>2, <1>4 DEF Apart
  <2>2. \A p, r \in Table \union {q} :
          p # r => ChainOf(content, p) \intersect ChainOf(content, r) = {}
    BY <1>2, <1>4 DEF Apart
  <2> QED
    BY <2>1, <2>2 DEF Apart, Range
<1>8. PICK T, B : T = Table' /\ B = busy'
  OBVIOUS
<1>9. Apart(content, T, B, <<>>)
  BY <1>6, <1>7, <1>8, ApartLess DEF Resolves
<1>10. Loose(errors') /\ reply' \in Seq(Pbufs)
  BY <1>1 DEF Loose
<1>11. Handling'
  BY <1>1, <1>2, <1>8, <1>9, <1>10, HandlingIs
<1> QED
  BY <1>6, <1>11 DEF Inv, Resolves

-----------------------------------------------------------------------------
(* The theorems.                                                           *)

\* The invariant holds initially.
LEMMA InitInvariant == Init => Inv
<1> SUFFICES ASSUME Init PROVE Inv
  OBVIOUS
<1>1. EP!Unset
  BY DEF Init, EP!Unset, EP!Index, A!Index
<1>2. EP!IInv
  <2>1. EP!Kept
    BY <1>1, EP!UnsetKept, Assumed
  <2>2. Mac \in [Hosts -> {Mac[h] : h \in Hosts} \union {NoMAC}]
    BY NodeAssumption
  <2> QED
    BY <2>1, <2>2 DEF EP!Kept, EP!TypeRest, EP!IInv, EP!TypeOK
<1>3. RP!IInv
  <2>1. RP!Init
    BY DEF Init, R!Init, RP!Init
  <2> QED
    BY <2>1, RP!InitInvariant, Assumed
<1>4. Table = {} /\ busy = {} /\ reply = <<>> /\ errors = {}
  BY DEF Init, R!Init, Table
<1>5. IsMemory(content)
  BY NothingIs DEF Init, IsMemory
<1>6. Apart(content, Table, busy, reply)
  BY <1>4 DEF Apart, Range
<1>7. reply \in Seq(Pbufs)
  BY <1>4
<1> QED
  BY <1>2, <1>3, <1>4, <1>5, <1>6, <1>7 DEF Inv, Handling

\* A step that changes nothing keeps the invariant.
LEMMA StutterKeeps == Inv /\ UNCHANGED vars => Inv'
<1> SUFFICES ASSUME Inv, UNCHANGED vars PROVE Inv'
  OBVIOUS
<1>1. EP!IInv' /\ Table' = Table
  BY NoArpResolves DEF Inv, vars, arpVars, Resolves
<1>2. RP!IInv' /\ busy' = busy
  BY NoReassKeeps DEF Inv, vars, reassVars
<1>3. content' = content /\ reply' = reply /\ errors' = errors
  BY DEF vars
<1>4. Handling'
  BY <1>1, <1>2, <1>3 DEF Inv, Handling
<1> QED
  BY <1>1, <1>2, <1>4 DEF Inv

\* Whatever arrives and whenever timers run, the ARP table and the list of
\* fragments are in order, and every pbuf in use is in one place (main.c:33,
\* icmp.c:207-283, etharp.c:1024-1060, ip4_frag.c:655-672).
THEOREM Invariance == Spec => []Inv
<1>1. Inv /\ [Next]_vars => Inv'
  BY InputKeeps, ArpTimerKeeps, ReassTimerKeeps, SendErrorKeeps, SendReplyKeeps,
     StutterKeeps DEF Next, Output
<1> QED
  BY <1>1, InitInvariant, PTL DEF Spec

\* The invariant gives every pbuf one owner at most.
LEMMA InvOneOwner == Inv => OneOwner
<1> SUFFICES ASSUME Inv PROVE OneOwner
  OBVIOUS
<1>1. /\ Apart(content, Table, busy, reply)
  BY DEF Inv, Handling
<1>2. Table = {arp_table[i].q : i \in Waiting}
  <2>1. /\ \A p \in Pbufs : p \in Table <=> EP!Queues(p) # {}
        /\ A!Index = EP!Index
        /\ \A i \in EP!Index : arp_table[i].q \in Pbufs \union {NULL}
    <3>1. \A p \in Pbufs : p \in Table <=> EP!Queues(p) # {}
      BY DEF Inv, EP!IInv, EP!PacketsHeld, Table
    <3>2. A!Index = EP!Index
      BY DEF A!Index, EP!Index
    <3>3. \A i \in EP!Index : arp_table[i].q \in Pbufs \union {NULL}
      BY DEF Inv, EP!IInv, EP!TypeOK, EP!Entry
    <3> QED
      BY <3>1, <3>2, <3>3
  <2>2. NULL \notin Pbufs
    BY Assumed DEF EP!EtharpAssumption
  <2> QED
    BY <2>1, <2>2 DEF Waiting, EP!Queues, Table
<1> QED
  BY <1>1, <1>2 DEF OneOwner, Apart, ChainOf, Table

\* A pbuf has one owner, also when the memory of a request becomes its reply
\* and waits for ARP (icmp.c:207-283).
THEOREM OnePbufOneOwner == Spec => []OneOwner
<1> QED
  BY Invariance, InvOneOwner, PTL
=============================================================================
