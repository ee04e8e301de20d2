---------------------------- MODULE EtharpProofs ----------------------------
(***************************************************************************)
(* Proofs about Etharp, for tables of any size, any hosts and packets and  *)
(* any ages.                                                               *)
(***************************************************************************)
EXTENDS Etharp, FiniteSetTheorems, WellFoundedInduction, TLAPS

-----------------------------------------------------------------------------
(* The inductive invariant.                                                *)

Queues(p) == {i \in Index : arp_table[i].q = p}

\* PacketsAccounted without counting: no two entries have the same packet.
PacketsHeld ==
  /\ \A p \in Packets : refs[p] = IF Queues(p) = {} THEN 0 ELSE 1
  /\ \A i, j \in Index :
       arp_table[i].q # NULL /\ arp_table[i].q = arp_table[j].q => i = j
  /\ \A i \in Index : arp_table[i].q # NULL => arp_table[i].state = "PENDING"

\* The states tell how many ticks ago the host was asked again at least; an
\* entry announced since then is not older than that.
QuietSince ==
  \A i \in Index :
    /\ arp_table[i].state = "REREQUESTING_2" => quiet[i] >= 1
    /\ arp_table[i].state = "STABLE" =>
         quiet[i] = 2 \/ quiet[i] >= arp_table[i].ctime

\* An entry in use has not expired.
InTime ==
  \A i \in Index : arp_table[i].state # "EMPTY" => arp_table[i].ctime < ARP_MAXAGE

IInv == TypeOK /\ OneEntryPerHost /\ PacketsHeld /\ QuietSince /\ InTime

-----------------------------------------------------------------------------
(* What is found in the table.                                             *)

\* Every set of numbers has a least one.
LEMMA Least ==
  ASSUME NEW S, S \subseteq Nat, S # {}
  PROVE  \E x \in S : \A y \in S : x <= y
<1>1. PICK x \in S : \A y \in S : ~(<<y, x>> \in OpToRel(<, Nat))
  BY WFMin, NatLessThanWellFounded, Zenon
<1>2. \A y \in S : ~(y < x)
  BY <1>1 DEF OpToRel
<1> QED BY <1>2

\* Lowest is one of the entries it chooses from.
LEMMA LowestIn ==
  ASSUME NEW S, S \subseteq Index, S # {}
  PROVE  Lowest(S) \in S
<1>1. S \subseteq Nat
  BY EtharpAssumption DEF Index
<1>2. \E i \in S : \A j \in S : i <= j
  BY <1>1, Least
<1> QED BY <1>2 DEF Lowest

\* So is Oldest: the ages of a set have a greatest one, and so have the
\* indices of those of this age.
LEMMA OldestIn ==
  ASSUME TypeOK, NEW S, S \subseteq Index, S # {}
  PROVE  /\ Oldest(S) \in S
         /\ \A j \in S : arp_table[j].ctime <= arp_table[Oldest(S)].ctime
<1> DEFINE age(i) == arp_table[i].ctime
           Youth  == {ARP_MAXAGE - age(i) : i \in S}
<1>1. \A i \in S : age(i) \in Nat /\ age(i) <= ARP_MAXAGE /\ i \in Nat
                   /\ i <= ARP_TABLE_SIZE
  BY EtharpAssumption DEF TypeOK, Entry, Index
<1>2. Youth \subseteq Nat /\ Youth # {}
  BY <1>1, EtharpAssumption
<1>3. PICK y \in Youth : \A z \in Youth : y <= z
  BY <1>2, Least
<1>4. PICK o \in S : \A j \in S : age(j) <= age(o)
  <2>1. PICK o \in S : y = ARP_MAXAGE - age(o)
    OBVIOUS
  <2>2. \A j \in S : ARP_MAXAGE - age(o) <= ARP_MAXAGE - age(j)
    BY <1>3, <2>1
  <2> QED BY <1>1, <2>2, EtharpAssumption
<1> DEFINE T    == {i \in S : age(i) = age(o)}
           Back == {ARP_TABLE_SIZE - i : i \in T}
<1> HIDE DEF age
<1>5. Back \subseteq Nat /\ Back # {}
  BY <1>1, EtharpAssumption
<1>6. PICK b \in Back : \A z \in Back : b <= z
  BY <1>5, Least
<1>7. PICK l \in T : \A j \in T : j <= l
  <2>1. PICK l \in T : b = ARP_TABLE_SIZE - l
    OBVIOUS
  <2>2. \A j \in T : ARP_TABLE_SIZE - l <= ARP_TABLE_SIZE - j
    BY <1>6, <2>1
  <2> QED BY <1>1, <2>2, EtharpAssumption
<1>8. l \in S /\ \A j \in S : age(j) < age(l) \/ (age(j) = age(l) /\ j <= l)
  <2>1. age(l) = age(o) /\ l \in S
    BY <1>7
  <2>2. \A j \in S : age(j) < age(o) \/ age(j) = age(o)
    BY <1>1, <1>4
  <2>3. \A j \in S : age(j) = age(o) => j <= l
    BY <1>7
  <2> QED BY <2>1, <2>2, <2>3
<1>9. \E i \in S : \A j \in S :
        \/ arp_table[j].ctime < arp_table[i].ctime
        \/ arp_table[j].ctime = arp_table[i].ctime /\ j <= i
  BY <1>8 DEF age
<1> DEFINE P(i) == \A j \in S :
             \/ arp_table[j].ctime < arp_table[i].ctime
             \/ arp_table[j].ctime = arp_table[i].ctime /\ j <= i
           c == CHOOSE i \in S : P(i)
<1> HIDE DEF P
<1>10. c \in S /\ P(c)
  BY <1>9 DEF P
<1>11. \A j \in S : arp_table[j].ctime \in Int
  BY <1>1 DEF age
<1> HIDE DEF c
<1>12. \A j \in S : arp_table[j].ctime <= arp_table[c].ctime
  BY <1>10, <1>11 DEF P
<1> QED BY <1>10, <1>12 DEF c, P, Oldest

\* There is always an entry to recycle.
LEMMA VictimIn ==
  ASSUME TypeOK
  PROVE  Victim \in Index
<1>1. \A S : Entries(S) \subseteq Index
  BY DEF Entries
<1>2. 0 \in Index
  BY EtharpAssumption DEF Index
<1>3. Entries({"EMPTY"}) # {} \/ Entries(Stable) # {} \/ Entries({"PENDING"}) # {}
  BY <1>2 DEF Entries, TypeOK, Entry, States
<1>4. CASE Entries({"EMPTY"}) # {}
  BY <1>1, <1>4, LowestIn DEF Victim
<1>5. CASE Entries({"EMPTY"}) = {} /\ Entries(Stable) # {}
  BY <1>1, <1>5, OldestIn DEF Victim
<1>6. CASE /\ Entries({"EMPTY"}) = {} /\ Entries(Stable) = {}
           /\ Entries({"PENDING"}) \ Waiting # {}
  <2>1. Oldest(Entries({"PENDING"}) \ Waiting) \in Index
    BY <1>1, <1>6, OldestIn
  <2> QED BY <1>6, <2>1 DEF Victim
<1>7. CASE /\ Entries({"EMPTY"}) = {} /\ Entries(Stable) = {}
           /\ Entries({"PENDING"}) \ Waiting = {}
  <2>1. Waiting # {} /\ Waiting \subseteq Index
    BY <1>1, <1>3, <1>7 DEF Waiting
  <2>2. Oldest(Waiting) \in Index
    BY <2>1, OldestIn
  <2> QED BY <1>7, <2>2 DEF Victim
<1> QED BY <1>4, <1>5, <1>6, <1>7

\* What etharp_find_entry finds: the entry of the host, or one that no host
\* has any longer.
LEMMA FindIn ==
  ASSUME IInv, NEW ip \in IPs
  PROVE  /\ Find(ip) \in Index
         /\ \A j \in Index :
              arp_table[j].state # "EMPTY" /\ arp_table[j].ipaddr = ip =>
                j = Find(ip)
         /\ Found(ip) \in Entry /\ Found(ip).ipaddr = ip
         /\ Found(ip).ctime < ARP_MAXAGE
         /\ Found(ip).q \in {NULL, arp_table[Find(ip)].q}
         /\ Dropped(ip) \subseteq {arp_table[Find(ip)].q}
         /\ arp_table[Find(ip)].q \in Dropped(ip) \union {Found(ip).q}
         /\ Found(ip).q # NULL => Dropped(ip) = {}
         /\ NewQuiet(ip) \in [Index -> 0..2]
         /\ \A j \in Index \ {Find(ip)} : NewQuiet(ip)[j] = quiet[j]
<1> USE DEF IInv
<1>1. \A j \in Index : j \in Match(ip) <=> /\ arp_table[j].state # "EMPTY"
                                           /\ arp_table[j].ipaddr = ip
  BY DEF Match, Entries, TypeOK, Entry
<1>2. Match(ip) \subseteq Index
  BY DEF Match, Entries
<1>3. CASE Match(ip) # {}
  <2>1. Find(ip) \in Match(ip)
    BY <1>2, <1>3, LowestIn DEF Find
  <2>2. \A j \in Match(ip) : j = Find(ip)
    BY <1>1, <1>2, <2>1 DEF OneEntryPerHost, Entries, Match
  <2>3. Found(ip) = arp_table[Find(ip)] /\ Dropped(ip) = {}
    BY <1>3 DEF Found, Dropped
  <2>4. NewQuiet(ip) = quiet
    BY <1>3 DEF NewQuiet
  <2>5. Found(ip).ctime < ARP_MAXAGE
    BY <1>1, <1>2, <2>1, <2>3 DEF InTime
  <2> QED BY <1>1, <1>2, <2>1, <2>2, <2>3, <2>4, <2>5 DEF TypeOK
<1>4. CASE Match(ip) = {}
  <2>1. Find(ip) = Victim /\ Victim \in Index
    BY <1>4, VictimIn DEF Find
  <2>2. Found(ip) = [etharp_free_entry(arp_table[Victim]) EXCEPT
                       !.ipaddr = ip, !.ctime = 0]
    BY <1>4, <2>1 DEF Found
  <2>3. arp_table[Victim] \in Entry
    BY <2>1 DEF TypeOK
  <2>4. /\ Found(ip) \in Entry /\ Found(ip).ipaddr = ip /\ Found(ip).q = NULL
        /\ Found(ip).ctime < ARP_MAXAGE
    <3> DEFINE e == arp_table[Victim]
               f == [e EXCEPT !.q = NULL, !.state = "EMPTY"]
    <3>1. f \in Entry /\ f.q = NULL
      BY <2>3 DEF Entry, States
    <3>2. Found(ip) = [f EXCEPT !.ipaddr = ip, !.ctime = 0]
      BY <2>2 DEF etharp_free_entry
    <3>3. 0 \in 0..ARP_MAXAGE /\ 0 < ARP_MAXAGE
      BY EtharpAssumption
    <3> HIDE DEF f
    <3> QED BY <3>1, <3>2, <3>3 DEF Entry
  <2>5. Dropped(ip) = {arp_table[Victim].q}
    BY <1>4 DEF Dropped
  <2>6. NewQuiet(ip) = [quiet EXCEPT ![Victim] = 2]
    BY <1>4, <2>1 DEF NewQuiet
  <2>7. NewQuiet(ip) \in [Index -> 0..2]
        /\ \A j \in Index \ {Victim} : NewQuiet(ip)[j] = quiet[j]
    BY <2>1, <2>6 DEF TypeOK
  <2> QED BY <1>1, <1>4, <2>1, <2>4, <2>5, <2>7
<1> QED BY <1>3, <1>4

-----------------------------------------------------------------------------
(* What a step preserves.  heard is left to the end.                       *)

TypeRest ==
  /\ arp_table \in [Index -> Entry]
  /\ \A i \in Index : arp_table[i].state # "EMPTY" =>
                        arp_table[i].ipaddr \in IPs
  /\ etharp_cached_entry \in Index
  /\ refs \in [Packets -> 0..1]
  /\ quiet \in [Index -> 0..2]

Kept == TypeRest /\ OneEntryPerHost /\ PacketsHeld /\ QuietSince /\ InTime

\* Packets of the table that are freed are not in use afterwards.
LEMMA FreedOnce ==
  ASSUME IInv, NEW qs,
         \A p \in Packets : p \in qs => Queues(p) # {}
  PROVE  /\ Freed(qs) \in [Packets -> 0..1]
         /\ \A p \in Packets :
              Freed(qs)[p] = IF p \in qs \/ Queues(p) = {} THEN 0 ELSE 1
<1>1. \A p \in Packets : refs[p] = IF Queues(p) = {} THEN 0 ELSE 1
  BY DEF IInv, PacketsHeld
<1>2. \A p \in Packets :
        Freed(qs)[p] = IF p \in qs \/ Queues(p) = {} THEN 0 ELSE 1
  BY <1>1 DEF Freed
<1>3. Freed(qs) = [p \in Packets |-> Freed(qs)[p]]
  BY DEF Freed
<1> QED BY <1>2, <1>3

\* A host that is entered where it was found has this one entry only.
LEMMA EnteredOnce ==
  ASSUME IInv, NEW ip \in IPs, NEW e \in Entry,
         e.state # "EMPTY", e.ipaddr = ip,
         arp_table' = [arp_table EXCEPT ![Find(ip)] = e]
  PROVE  /\ arp_table' \in [Index -> Entry]
         /\ \A i \in Index : arp_table'[i].state # "EMPTY" =>
                               arp_table'[i].ipaddr \in IPs
         /\ OneEntryPerHost'
         /\ arp_table'[Find(ip)] = e
         /\ \A j \in Index \ {Find(ip)} : arp_table'[j] = arp_table[j]
<1>1. Find(ip) \in Index
      /\ \A j \in Index : arp_table[j].state # "EMPTY" /\ arp_table[j].ipaddr = ip
                            => j = Find(ip)
  BY FindIn
<1>2. /\ arp_table' \in [Index -> Entry]
      /\ arp_table'[Find(ip)] = e
      /\ \A j \in Index \ {Find(ip)} : arp_table'[j] = arp_table[j]
  BY <1>1 DEF IInv, TypeOK
<1>3. \A i \in Index : arp_table'[i].state # "EMPTY" => arp_table'[i].ipaddr \in IPs
  BY <1>2 DEF IInv, TypeOK
<1>4. ASSUME NEW i \in Index, NEW j \in Index,
             arp_table'[i].state # "EMPTY", arp_table'[j].state # "EMPTY",
             arp_table'[i].ipaddr = arp_table'[j].ipaddr
      PROVE  i = j
  <2>1. CASE i = Find(ip) \/ j = Find(ip)
    BY <1>1, <1>2, <1>4, <2>1
  <2>2. CASE i # Find(ip) /\ j # Find(ip)
    <3>1. /\ arp_table[i].state \in States \ {"EMPTY"}
          /\ arp_table[j].state \in States \ {"EMPTY"}
          /\ arp_table[i].ipaddr = arp_table[j].ipaddr
      BY <1>2, <1>4, <2>2 DEF Entry
    <3> QED BY <3>1 DEF IInv, OneEntryPerHost, Entries
  <2> QED BY <2>1, <2>2
<1>5. OneEntryPerHost'
  BY <1>2, <1>4 DEF OneEntryPerHost, Entries
<1> QED BY <1>1, <1>2, <1>3, <1>5

\* An announcement.
LEMMA UpdateKeeps ==
  ASSUME IInv, NEW ip \in IPs, NEW mac \in MACs,
         etharp_update_arp_entry(ip, mac), UNCHANGED etharp_cached_entry
  PROVE  Kept'
<1> DEFINE f == Find(ip)
           e == Resolved(Found(ip), mac)
           qs == Dropped(ip) \union {Found(ip).q}
<1>1. /\ f \in Index /\ Found(ip) \in Entry /\ Found(ip).ipaddr = ip
      /\ arp_table[f].q \in qs
      /\ qs \subseteq {NULL, arp_table[f].q}
      /\ NewQuiet(ip) \in [Index -> 0..2]
      /\ \A j \in Index \ {f} : NewQuiet(ip)[j] = quiet[j]
  BY FindIn
<1>2. e \in Entry /\ e.state = "STABLE" /\ e.ipaddr = ip /\ e.ctime = 0
      /\ e.q = NULL
  <2>1. 0 \in 0..ARP_MAXAGE /\ "STABLE" \in States
    BY EtharpAssumption DEF States, Stable
  <2> QED BY <1>1, <2>1 DEF Resolved, Entry
<1>3. arp_table' = [arp_table EXCEPT ![f] = e] /\ refs' = Freed(qs)
      /\ quiet' = NewQuiet(ip)
  BY DEF etharp_update_arp_entry
<1> HIDE DEF f, e, qs
<1>4. /\ arp_table' \in [Index -> Entry]
      /\ \A i \in Index : arp_table'[i].state # "EMPTY" =>
                            arp_table'[i].ipaddr \in IPs
      /\ OneEntryPerHost'
      /\ arp_table'[f] = e
      /\ \A j \in Index \ {f} : arp_table'[j] = arp_table[j]
  BY <1>2, <1>3, EnteredOnce DEF f
<1>5. \A p \in Packets : p \in qs => Queues(p) # {}
  BY <1>1, EtharpAssumption DEF Queues
<1>6. refs' \in [Packets -> 0..1]
      /\ \A p \in Packets :
           refs'[p] = IF p \in qs \/ Queues(p) = {} THEN 0 ELSE 1
  BY <1>3, <1>5, FreedOnce
<1>7. PacketsHeld'
  <2>1. \A i, j \in Index :
          arp_table[i].q # NULL /\ arp_table[i].q = arp_table[j].q => i = j
    BY DEF IInv, PacketsHeld
  <2>2. ASSUME NEW p \in Packets
        PROVE  refs'[p] = IF Queues(p)' = {} THEN 0 ELSE 1
    <3>1. p # NULL
      BY EtharpAssumption
    <3>2. Queues(p)' = Queues(p) \ {f}
      BY <1>1, <1>2, <1>4, <3>1 DEF Queues
    <3>3. p \in qs => Queues(p) = {f}
      BY <1>1, <2>1, <3>1 DEF Queues
    <3>4. p \notin qs => f \notin Queues(p)
      BY <1>1 DEF Queues
    <3> QED BY <1>6, <3>2, <3>3, <3>4
  <2>3. \A i, j \in Index :
          arp_table'[i].q # NULL /\ arp_table'[i].q = arp_table'[j].q => i = j
    BY <1>2, <1>4, <2>1
  <2>4. \A i \in Index : arp_table'[i].q # NULL => arp_table'[i].state = "PENDING"
    BY <1>2, <1>4 DEF IInv, PacketsHeld
  <2> QED BY <2>2, <2>3, <2>4 DEF PacketsHeld
<1>8. QuietSince'
  <2>1. quiet'[f] \in 0..2
    BY <1>1, <1>3
  <2>2. \A j \in Index \ {f} : quiet'[j] = quiet[j]
    BY <1>1, <1>3
  <2> QED BY <1>2, <1>4, <2>1, <2>2 DEF IInv, QuietSince
<1>9. TypeRest'
  BY <1>1, <1>3, <1>4, <1>6 DEF TypeRest, IInv, TypeOK
<1>10. InTime'
  BY <1>2, <1>4, EtharpAssumption DEF IInv, InTime
<1> QED BY <1>4, <1>7, <1>8, <1>9, <1>10 DEF Kept

\* A packet for a host that is not known.
LEMMA QueryKeeps ==
  ASSUME IInv, NEW ip \in IPs, NEW q \in Packets, refs[q] = 0,
         etharp_query(ip, q)
  PROVE  Kept'
<1> DEFINE f == Find(ip)
           e == [Found(ip) EXCEPT !.state = "PENDING"]
<1>1. /\ f \in Index /\ Found(ip) \in Entry /\ Found(ip).ipaddr = ip
      /\ Found(ip).q \in {NULL, arp_table[f].q}
      /\ Dropped(ip) \subseteq {arp_table[f].q}
      /\ arp_table[f].q \in Dropped(ip) \union {Found(ip).q}
      /\ Found(ip).q # NULL => Dropped(ip) = {}
      /\ Found(ip).ctime < ARP_MAXAGE
      /\ NewQuiet(ip) \in [Index -> 0..2]
      /\ \A j \in Index \ {f} : NewQuiet(ip)[j] = quiet[j]
  BY FindIn
<1>2. e \in Entry /\ e.state = "PENDING" /\ e.ipaddr = ip /\ e.q = Found(ip).q
      /\ e.ctime = Found(ip).ctime
      /\ [e EXCEPT !.q = q] \in Entry
      /\ [e EXCEPT !.q = q].state = "PENDING"
      /\ [e EXCEPT !.q = q].ctime = Found(ip).ctime
      /\ [e EXCEPT !.q = q].ipaddr = ip /\ [e EXCEPT !.q = q].q = q
  BY <1>1 DEF Entry, States
<1>3. quiet' = NewQuiet(ip) /\ Queue(f, e, q, Dropped(ip))
      /\ UNCHANGED etharp_cached_entry
  BY DEF etharp_query
<1>4. q # NULL /\ Queues(q) = {}
  BY EtharpAssumption DEF IInv, PacketsHeld
<1>5. \A i, j \in Index :
        arp_table[i].q # NULL /\ arp_table[i].q = arp_table[j].q => i = j
  BY DEF IInv, PacketsHeld
<1> HIDE DEF f, e
<1>6. PICK n \in Entry :
        /\ n.state = "PENDING" /\ n.ipaddr = ip /\ n.ctime = Found(ip).ctime
        /\ arp_table' = [arp_table EXCEPT ![f] = n]
        /\ \/ /\ n.q = q
              /\ refs' = [Freed(Dropped(ip) \union {Found(ip).q}) EXCEPT ![q] = 1]
           \/ n.q = Found(ip).q /\ refs' = Freed(Dropped(ip))
  <2>1. CASE /\ arp_table' = [arp_table EXCEPT ![f] = [e EXCEPT !.q = q]]
             /\ refs' = [Freed(Dropped(ip) \union {e.q}) EXCEPT ![q] = 1]
    BY <1>2, <2>1
  <2>2. CASE arp_table' = [arp_table EXCEPT ![f] = e] /\ refs' = Freed(Dropped(ip))
    BY <1>2, <2>2
  <2> QED BY <1>3, <2>1, <2>2 DEF Queue, Queued
<1>7. /\ arp_table' \in [Index -> Entry]
      /\ \A i \in Index : arp_table'[i].state # "EMPTY" =>
                            arp_table'[i].ipaddr \in IPs
      /\ OneEntryPerHost'
      /\ arp_table'[f] = n
      /\ \A j \in Index \ {f} : arp_table'[j] = arp_table[j]
  BY <1>6, EnteredOnce DEF f
<1>8. refs' \in [Packets -> 0..1]
      /\ \A p \in Packets : refs'[p] = IF Queues(p)' = {} THEN 0 ELSE 1
  <2>1. \A p \in Packets : p # NULL
    BY EtharpAssumption
  <2>2. \A p \in Packets : p \in Dropped(ip) \union {Found(ip).q} => Queues(p) # {}
    BY <1>1, <2>1 DEF Queues
  <2>3. \A p \in Packets : p = arp_table[f].q => Queues(p) = {f}
    BY <1>1, <1>5, <2>1 DEF Queues
  <2>4. CASE /\ n.q = q
             /\ refs' = [Freed(Dropped(ip) \union {Found(ip).q}) EXCEPT ![q] = 1]
    <3> DEFINE qs == Dropped(ip) \union {Found(ip).q}
    <3>1. /\ Freed(qs) \in [Packets -> 0..1]
          /\ \A p \in Packets :
               Freed(qs)[p] = IF p \in qs \/ Queues(p) = {} THEN 0 ELSE 1
      BY <2>2, FreedOnce
    <3>2. \A p \in Packets : p \in qs <=> p = arp_table[f].q
      BY <1>1, <2>1
    <3> HIDE DEF qs
    <3>3. /\ refs' \in [Packets -> 0..1] /\ refs'[q] = 1
          /\ \A p \in Packets \ {q} : refs'[p] = Freed(qs)[p]
      <4> DEFINE g == Freed(qs)
      <4>1. refs' = [g EXCEPT ![q] = 1]
        BY <2>4 DEF qs
      <4>2. g \in [Packets -> 0..1]
        BY <3>1
      <4> HIDE DEF g
      <4>3. /\ refs' \in [Packets -> 0..1] /\ refs'[q] = 1
            /\ \A p \in Packets \ {q} : refs'[p] = g[p]
        BY <4>1, <4>2
      <4> QED BY <4>3 DEF g
    <3>4. f \in Queues(q)'
      BY <1>1, <1>7, <2>4 DEF Queues
    <3>5. \A p \in Packets \ {q} : Queues(p)' = Queues(p) \ {f}
      BY <1>1, <1>7, <2>4 DEF Queues
    <3>6. \A p \in Packets : p # arp_table[f].q => f \notin Queues(p)
      BY DEF Queues
    <3>7. \A p \in Packets \ {q} : refs'[p] = IF Queues(p)' = {} THEN 0 ELSE 1
      BY <2>3, <3>1, <3>2, <3>3, <3>5, <3>6
    <3> QED BY <3>3, <3>4, <3>7
  <2>5. CASE n.q = Found(ip).q /\ refs' = Freed(Dropped(ip))
    <3>1. /\ refs' \in [Packets -> 0..1]
          /\ \A p \in Packets :
               refs'[p] = IF p \in Dropped(ip) \/ Queues(p) = {} THEN 0 ELSE 1
      BY <2>2, <2>5, FreedOnce
    <3>2. CASE Found(ip).q = arp_table[f].q
      <4>1. \A p \in Packets : Queues(p)' = Queues(p)
        BY <1>1, <1>7, <2>5, <3>2 DEF Queues
      <4>2. \A p \in Packets : p \notin Dropped(ip)
        BY <1>1, <2>1, <3>2
      <4> QED BY <3>1, <4>1, <4>2
    <3>3. CASE Found(ip).q # arp_table[f].q
      <4>1. Found(ip).q = NULL /\ Dropped(ip) = {arp_table[f].q}
        BY <1>1, <3>3
      <4>2. \A p \in Packets : Queues(p)' = Queues(p) \ {f}
        BY <1>1, <1>7, <2>1, <2>5, <4>1 DEF Queues
      <4>3. \A p \in Packets : p # arp_table[f].q => f \notin Queues(p)
        BY DEF Queues
      <4> QED BY <2>3, <3>1, <4>1, <4>2, <4>3
    <3> QED BY <3>2, <3>3
  <2> QED BY <1>6, <2>4, <2>5
<1>9. PacketsHeld'
  <2>1. \A j \in Index : arp_table[j].q # q
    BY <1>4 DEF Queues
  <2>2. n.q = q \/ n.q = NULL \/ n.q = arp_table[f].q
    BY <1>1, <1>6
  <2>3. \A i, j \in Index :
          arp_table'[i].q # NULL /\ arp_table'[i].q = arp_table'[j].q => i = j
    BY <1>1, <1>5, <1>7, <2>1, <2>2
  <2>4. \A i \in Index : arp_table'[i].q # NULL => arp_table'[i].state = "PENDING"
    BY <1>6, <1>7 DEF IInv, PacketsHeld
  <2> QED BY <1>8, <2>3, <2>4 DEF PacketsHeld
<1>10. QuietSince'
  BY <1>1, <1>3, <1>6, <1>7 DEF IInv, QuietSince
<1>11. TypeRest'
  BY <1>1, <1>3, <1>7, <1>8 DEF TypeRest, IInv, TypeOK
<1>12. InTime'
  BY <1>1, <1>6, <1>7 DEF IInv, InTime
<1> QED BY <1>7, <1>9, <1>10, <1>11, <1>12 DEF Kept

\* A packet for a host that is known: nothing but the state of its entry may
\* change.
LEMMA OutputKeeps ==
  ASSUME IInv, NEW ip \in IPs, NEW q \in Packets, refs[q] = 0,
         OutputLocal(ip, q)
  PROVE  Kept'
<1>1. CASE StableEntry(ip) = {}
  BY <1>1, QueryKeeps DEF OutputLocal
<1>2. CASE StableEntry(ip) # {}
  <2>1. StableEntry(ip) \subseteq Entries(Stable)
    BY DEF StableEntry, Cached, Entries, IInv, TypeOK
  <2>2. Lowest(StableEntry(ip)) \in Entries(Stable)
    <3>1. StableEntry(ip) \subseteq Index
      BY <2>1 DEF Entries
    <3>2. Lowest(StableEntry(ip)) \in StableEntry(ip)
      BY <1>2, <3>1, LowestIn
    <3> QED BY <2>1, <3>2
  <2>3. PICK i \in Index :
          /\ arp_table[i].state \in Stable
          /\ etharp_cached_entry' = i /\ refs' = refs
          /\ \/ /\ arp_table' = [arp_table EXCEPT ![i] = Rerequested(@)]
                /\ quiet' = [quiet EXCEPT ![i] = 0]
             \/ UNCHANGED <<arp_table, quiet>>
    BY <1>2, <2>2 DEF OutputLocal, etharp_output_to_arp_index, Entries
  <2>4. CASE UNCHANGED <<arp_table, quiet>>
    BY <2>3, <2>4 DEF Kept, TypeRest, IInv, TypeOK, OneEntryPerHost,
         Entries, PacketsHeld, Queues, QuietSince, InTime
  <2>5. CASE /\ arp_table' = [arp_table EXCEPT ![i] = Rerequested(@)]
             /\ quiet' = [quiet EXCEPT ![i] = 0]
    <3>1. /\ arp_table' \in [Index -> Entry]
          /\ arp_table'[i].state = "REREQUESTING_1"
          /\ \A j \in Index : /\ arp_table'[j].q = arp_table[j].q
                              /\ arp_table'[j].ipaddr = arp_table[j].ipaddr
                              /\ arp_table'[j].ctime = arp_table[j].ctime
          /\ \A j \in Index \ {i} : arp_table'[j] = arp_table[j]
      BY <2>3, <2>5 DEF Rerequested, IInv, TypeOK, Entry, States, Stable
    <3>2. \A j \in Index : arp_table'[j].state # "EMPTY" <=>
                             arp_table[j].state # "EMPTY"
      BY <2>3, <3>1 DEF Stable
    <3>3. /\ quiet' \in [Index -> 0..2]
          /\ \A j \in Index \ {i} : quiet'[j] = quiet[j]
      BY <2>3, <2>5 DEF IInv, TypeOK
    <3>4. TypeRest'
      BY <2>3, <3>1, <3>2, <3>3 DEF TypeRest, IInv, TypeOK
    <3>5. OneEntryPerHost'
      <4>1. \A j \in Index : arp_table'[j].state \in States /\ arp_table[j].state \in States
        BY <3>1 DEF IInv, TypeOK, Entry
      <4> QED BY <3>1, <3>2, <4>1 DEF IInv, OneEntryPerHost, Entries
    <3>6. arp_table[i].q = NULL
      BY <2>3 DEF IInv, PacketsHeld, Stable
    <3>7. PacketsHeld'
      <4>1. \A p : Queues(p)' = Queues(p)
        BY <3>1 DEF Queues
      <4> QED BY <2>3, <3>1, <3>6, <4>1 DEF IInv, PacketsHeld
    <3>8. QuietSince'
      BY <3>1, <3>3 DEF IInv, QuietSince
    <3>9. InTime'
      BY <3>1, <3>2 DEF IInv, InTime
    <3> QED BY <3>4, <3>5, <3>7, <3>8, <3>9 DEF Kept
  <2> QED BY <2>3, <2>4, <2>5
<1> QED BY <1>1, <1>2


\* What a tick makes of one entry.
LEMMA AgedEntry ==
  ASSUME NEW e \in Entry, e.q # NULL => e.state = "PENDING",
         e.state # "EMPTY" => e.ctime < ARP_MAXAGE
  PROVE  /\ Aged(e) \in Entry
         /\ Aged(e).ipaddr = e.ipaddr
         /\ Aged(e).state = "EMPTY" => Aged(e).q = NULL
         /\ Aged(e).state # "EMPTY" =>
              /\ e.state # "EMPTY" /\ Aged(e).q = e.q
              /\ Aged(e).ctime = e.ctime + 1 /\ Aged(e).ctime < ARP_MAXAGE
              /\ e.state = "PENDING" => Aged(e).state = "PENDING"
         /\ Aged(e).state = "REREQUESTING_2" => e.state = "REREQUESTING_1"
         /\ Aged(e).state = "STABLE" => e.state \in {"STABLE", "REREQUESTING_2"}
<1> DEFINE o == [e EXCEPT !.ctime = @ + 1]
<1>1. CASE e.state = "EMPTY"
  <2>1. Aged(e) = e
    BY <1>1 DEF Aged
  <2> QED BY <1>1, <2>1
<1>2. CASE e.state # "EMPTY"
  <2>1. o \in Entry
    BY <1>2, EtharpAssumption DEF Entry
  <2>2. o.state = e.state /\ o.ipaddr = e.ipaddr /\ o.q = e.q /\ o.ctime = e.ctime + 1
    BY DEF Entry
  <2>3. Aged(e) = CASE e.state = "EMPTY"    -> e
        [] e.state # "EMPTY" /\ Expired(o) -> etharp_free_entry(o)
        [] e.state = "REREQUESTING_1" /\ ~Expired(o) ->
             [o EXCEPT !.state = "REREQUESTING_2"]
        [] e.state = "REREQUESTING_2" /\ ~Expired(o) ->
             [o EXCEPT !.state = "STABLE"]
        [] e.state \in {"PENDING", "STABLE"} /\ ~Expired(o) -> o
    BY DEF Aged
  <2>4. e.state \in {"PENDING", "STABLE", "REREQUESTING_1", "REREQUESTING_2"}
    BY <1>2 DEF Entry, States, Stable
  <2>5. ~Expired(o) => o.ctime < ARP_MAXAGE
    BY <2>1, EtharpAssumption DEF Expired, Entry
  <2> HIDE DEF o
  <2>6. CASE Expired(o)
    <3>1. Aged(e) = etharp_free_entry(o)
      BY <1>2, <2>3, <2>6
    <3>2. /\ Aged(e) \in Entry /\ Aged(e).ipaddr = o.ipaddr
          /\ Aged(e).state = "EMPTY" /\ Aged(e).q = NULL
      BY <2>1, <3>1 DEF etharp_free_entry, Entry, States
    <3> QED BY <2>2, <3>2
  <2>7. CASE ~Expired(o) /\ e.state = "REREQUESTING_1"
    <3>1. Aged(e) = [o EXCEPT !.state = "REREQUESTING_2"]
      BY <2>3, <2>7
    <3>2. /\ Aged(e) \in Entry /\ Aged(e).ipaddr = o.ipaddr
          /\ Aged(e).state = "REREQUESTING_2" /\ Aged(e).q = o.q
          /\ Aged(e).ctime = o.ctime
      BY <2>1, <3>1 DEF Entry, States, Stable
    <3> QED BY <2>2, <2>5, <2>7, <3>2
  <2>8. CASE ~Expired(o) /\ e.state = "REREQUESTING_2"
    <3>1. Aged(e) = [o EXCEPT !.state = "STABLE"]
      BY <2>3, <2>8
    <3>2. /\ Aged(e) \in Entry /\ Aged(e).ipaddr = o.ipaddr
          /\ Aged(e).state = "STABLE" /\ Aged(e).q = o.q
          /\ Aged(e).ctime = o.ctime
      BY <2>1, <3>1 DEF Entry, States, Stable
    <3> QED BY <2>2, <2>5, <2>8, <3>2
  <2>9. CASE ~Expired(o) /\ e.state \in {"PENDING", "STABLE"}
    <3>1. Aged(e) = o
      BY <2>3, <2>9
    <3> QED BY <2>1, <2>2, <2>5, <2>9, <3>1
  <2> QED BY <2>4, <2>6, <2>7, <2>8, <2>9
<1> QED BY <1>1, <1>2

\* Entries that stay keep host and packet, and the packets of those that do
\* not are freed: the table stays consistent.
LEMMA EntriesEnd ==
  ASSUME IInv, NEW qs,
         arp_table' \in [Index -> Entry],
         \A i \in Index :
           /\ arp_table'[i].ipaddr = arp_table[i].ipaddr
           /\ arp_table'[i].state = "EMPTY" => arp_table'[i].q = NULL
           /\ arp_table'[i].state # "EMPTY" =>
                /\ arp_table[i].state # "EMPTY"
                /\ arp_table'[i].q = arp_table[i].q
                /\ arp_table'[i].ctime < ARP_MAXAGE
                /\ arp_table[i].state = "PENDING" => arp_table'[i].state = "PENDING",
         \A p \in Packets : p \in qs <=>
           \E i \in Queues(p) : arp_table'[i].state = "EMPTY",
         refs' = Freed(qs),
         quiet' \in [Index -> 0..2], UNCHANGED etharp_cached_entry
  PROVE  TypeRest' /\ OneEntryPerHost' /\ PacketsHeld' /\ InTime'
<1>1. /\ refs' \in [Packets -> 0..1]
      /\ \A p \in Packets :
           refs'[p] = IF p \in qs \/ Queues(p) = {} THEN 0 ELSE 1
  BY FreedOnce
<1>2. TypeRest'
  BY <1>1 DEF TypeRest, IInv, TypeOK
<1>3. OneEntryPerHost'
  <2>1. \A i \in Index : arp_table[i].state \in States
    BY DEF IInv, TypeOK, Entry
  <2>2. \A i \in Entries(States \ {"EMPTY"})' :
          i \in Index /\ i \in Entries(States \ {"EMPTY"})
    BY <2>1 DEF Entries
  <2> QED BY <2>2 DEF IInv, OneEntryPerHost
<1>4. InTime'
  BY DEF InTime
<1>5. \A i, j \in Index :
        arp_table[i].q # NULL /\ arp_table[i].q = arp_table[j].q => i = j
  BY DEF IInv, PacketsHeld
<1>6. \A i \in Index : arp_table[i].q # NULL => arp_table[i].state = "PENDING"
  BY DEF IInv, PacketsHeld
<1>7. PacketsHeld'
  <2>1. ASSUME NEW p \in Packets
        PROVE  refs'[p] = IF Queues(p)' = {} THEN 0 ELSE 1
    <3>1. p # NULL
      BY EtharpAssumption
    <3>2. Queues(p)' = {i \in Queues(p) : arp_table'[i].state # "EMPTY"}
      BY <3>1 DEF Queues
    <3>3. \A i, j \in Queues(p) : i = j
      BY <1>5, <3>1 DEF Queues
    <3>4. p \in qs <=> \E i \in Queues(p) : arp_table'[i].state = "EMPTY"
      OBVIOUS
    <3> QED BY <1>1, <3>2, <3>3, <3>4
  <2>2. \A i, j \in Index :
          arp_table'[i].q # NULL /\ arp_table'[i].q = arp_table'[j].q => i = j
    BY <1>5
  <2>3. \A i \in Index : arp_table'[i].q # NULL => arp_table'[i].state = "PENDING"
    BY <1>6
  <2> QED BY <2>1, <2>2, <2>3 DEF PacketsHeld
<1> QED BY <1>2, <1>3, <1>4, <1>7

\* A tick of the timer.
LEMMA TimerKeeps ==
  ASSUME IInv, etharp_tmr
  PROVE  Kept'
<1> DEFINE qs == {arp_table[i].q : i \in {j \in Entries({"PENDING"}) :
                    Aged(arp_table[j]).state = "EMPTY"}}
<1>1. \A i \in Index : /\ arp_table[i] \in Entry
                       /\ arp_table[i].q # NULL => arp_table[i].state = "PENDING"
                       /\ arp_table[i].state # "EMPTY" =>
                            arp_table[i].ctime < ARP_MAXAGE
  BY DEF IInv, TypeOK, PacketsHeld, InTime
<1>2. arp_table' = [i \in Index |-> Aged(arp_table[i])]
      /\ refs' = Freed(qs) /\ UNCHANGED etharp_cached_entry
  BY DEF etharp_tmr
<1>3. \A i \in Index : arp_table'[i] = Aged(arp_table[i])
  BY <1>2
<1>4. \A i \in Index :
        /\ arp_table'[i] \in Entry
        /\ arp_table'[i].ipaddr = arp_table[i].ipaddr
        /\ arp_table'[i].state = "EMPTY" => arp_table'[i].q = NULL
        /\ arp_table'[i].state # "EMPTY" =>
             /\ arp_table[i].state # "EMPTY"
             /\ arp_table'[i].q = arp_table[i].q
             /\ arp_table'[i].ctime = arp_table[i].ctime + 1
             /\ arp_table'[i].ctime < ARP_MAXAGE
             /\ arp_table[i].state = "PENDING" => arp_table'[i].state = "PENDING"
        /\ arp_table'[i].state = "REREQUESTING_2" =>
             arp_table[i].state = "REREQUESTING_1"
        /\ arp_table'[i].state = "STABLE" =>
             arp_table[i].state \in {"STABLE", "REREQUESTING_2"}
  <2> TAKE i \in Index
  <2> QED BY <1>1, <1>3, AgedEntry
<1>5. arp_table' \in [Index -> Entry]
  BY <1>2, <1>4
<1>6. \A p \in Packets : p \in qs <=>
        \E i \in Queues(p) : arp_table'[i].state = "EMPTY"
  <2>1. \A p \in Packets : p # NULL
    BY EtharpAssumption
  <2> QED BY <1>1, <1>3, <2>1 DEF Queues, Entries
<1>7. \A i \in Index : /\ quiet[i] \in 0..2
                       /\ quiet'[i] = IF arp_table'[i].state \in Stable /\ quiet[i] < 2
                                      THEN quiet[i] + 1 ELSE 2
  BY <1>3 DEF etharp_tmr, IInv, TypeOK
<1>8. quiet' \in [Index -> 0..2]
  <2>1. quiet' = [i \in Index |-> quiet'[i]]
    BY DEF etharp_tmr
  <2>2. \A i \in Index : quiet'[i] \in 0..2
    BY <1>7
  <2> QED BY <2>1, <2>2
<1> HIDE DEF qs
<1>9. TypeRest' /\ OneEntryPerHost' /\ PacketsHeld' /\ InTime'
  BY <1>2, <1>4, <1>5, <1>6, <1>8, EntriesEnd
<1>10. QuietSince'
  <2> SUFFICES ASSUME NEW i \in Index
               PROVE  /\ arp_table'[i].state = "REREQUESTING_2" => quiet'[i] >= 1
                      /\ arp_table'[i].state = "STABLE" =>
                           quiet'[i] = 2 \/ quiet'[i] >= arp_table'[i].ctime
    BY DEF QuietSince
  <2>1. arp_table'[i].state = "REREQUESTING_2" => quiet'[i] >= 1
    BY <1>7
  <2>2. ASSUME arp_table'[i].state = "STABLE"
        PROVE  quiet'[i] = 2 \/ quiet'[i] >= arp_table'[i].ctime
    <3>1. arp_table[i].ctime \in Nat /\ arp_table'[i].ctime = arp_table[i].ctime + 1
      BY <1>1, <1>4, <2>2 DEF Entry
    <3>2. \/ quiet[i] >= 1
          \/ quiet[i] >= arp_table[i].ctime
      BY <1>4, <1>7, <2>2 DEF IInv, QuietSince
    <3> QED BY <1>7, <2>2, <3>1, <3>2 DEF Stable
  <2> QED BY <2>1, <2>2
<1> QED BY <1>9, <1>10 DEF Kept

\* The interface goes down.
LEMMA CleanupKeeps ==
  ASSUME IInv, etharp_cleanup_netif
  PROVE  Kept'
<1> DEFINE qs == {arp_table[i].q : i \in Index}
<1>1. \A i \in Index : /\ arp_table[i] \in Entry
                       /\ arp_table[i].q # NULL => arp_table[i].state = "PENDING"
  BY DEF IInv, TypeOK, PacketsHeld
<1>2. /\ arp_table' = [i \in Index |->
                         IF arp_table[i].state = "EMPTY" THEN arp_table[i]
                         ELSE [arp_table[i] EXCEPT !.q = NULL, !.state = "EMPTY"]]
      /\ refs' = Freed(qs) /\ UNCHANGED etharp_cached_entry
      /\ quiet' = [i \in Index |-> 2]
  BY DEF etharp_cleanup_netif, etharp_free_entry
<1>3. \A i \in Index :
        /\ arp_table'[i] \in Entry
        /\ arp_table'[i].ipaddr = arp_table[i].ipaddr
        /\ arp_table'[i].state = "EMPTY" /\ arp_table'[i].q = NULL
  <2> TAKE i \in Index
  <2>1. CASE arp_table[i].state = "EMPTY"
    BY <1>1, <1>2, <2>1
  <2>2. CASE arp_table[i].state # "EMPTY"
    <3>1. arp_table'[i] = [arp_table[i] EXCEPT !.q = NULL, !.state = "EMPTY"]
      BY <1>2, <2>2
    <3> QED BY <1>1, <3>1 DEF Entry, States
  <2> QED BY <2>1, <2>2
<1>4. arp_table' \in [Index -> Entry]
  BY <1>2, <1>3
<1>5. \A p \in Packets : p \in qs <=>
        \E i \in Queues(p) : arp_table'[i].state = "EMPTY"
  BY <1>3 DEF Queues
<1>6. quiet' \in [Index -> 0..2]
  <2>1. 2 \in 0..2
    OBVIOUS
  <2> QED BY <1>2, <2>1
<1> HIDE DEF qs
<1>7. TypeRest' /\ OneEntryPerHost' /\ PacketsHeld' /\ InTime'
  BY <1>2, <1>3, <1>4, <1>5, <1>6, EntriesEnd
<1>8. QuietSince'
  BY <1>3 DEF QuietSince
<1> QED BY <1>7, <1>8 DEF Kept

\* A step that leaves the table and the packets alone.
LEMMA StutterKeeps ==
  ASSUME IInv, UNCHANGED <<arp_table, etharp_cached_entry, refs, quiet>>
  PROVE  Kept'
BY DEF Kept, TypeRest, IInv, TypeOK, OneEntryPerHost, Entries, PacketsHeld,
     Queues, QuietSince, InTime

-----------------------------------------------------------------------------
(* The theorems.                                                           *)

\* Every step of the table keeps the invariant.
LEMMA StepKeeps ==
  ASSUME IInv, Next
  PROVE  IInv'
<1>1. ASSUME Input PROVE Kept' /\ heard' \in [IPs -> MACs \union {NoMAC}]
  <2>1. PICK s \in IPs \union {NoIP}, m \in MACs, u \in BOOLEAN :
          /\ etharp_input(s, m, u)
          /\ Hear([ip \in IPs |-> IF ip = s THEN m ELSE heard[ip]])
    BY <1>1 DEF Input
  <2>2. Kept'
    <3>1. CASE s # NoIP /\ (u \/ Match(s) # {})
      BY <2>1, <3>1, UpdateKeeps DEF etharp_input
    <3>2. CASE ~(s # NoIP /\ (u \/ Match(s) # {}))
      BY <2>1, <3>2, StutterKeeps DEF etharp_input
    <3> QED BY <3>1, <3>2
  <2>3. heard' \in [IPs -> MACs \union {NoMAC}]
    BY <2>1 DEF Hear, IInv, TypeOK
  <2> QED BY <2>2, <2>3
<1>2. ASSUME Output PROVE Kept'
  <2> DEFINE q == Lowest(Free)
  <2>1. q \in Packets /\ refs[q] = 0
    <3>1. Free \subseteq Nat /\ Free # {}
      BY <1>2, EtharpAssumption DEF Free, Output
    <3>2. \E x \in Free : \A y \in Free : x <= y
      BY <3>1, Least
    <3>3. q \in Free
      BY <3>2 DEF Lowest
    <3> QED BY <3>3 DEF Free
  <2>2. (\E ip \in IPs : OutputLocal(ip, q)) \/ OutputGroup(q) \/ OutputRemote(q)
    BY <1>2 DEF Output
  <2> HIDE DEF q
  <2>3. CASE \E ip \in IPs : OutputLocal(ip, q)
    BY <2>1, <2>3, OutputKeeps
  <2>4. CASE OutputGroup(q)
    BY <2>4, StutterKeeps DEF OutputGroup
  <2>5. CASE OutputRemote(q)
    <3>1. CASE Gateway = NoIP
      BY <2>5, <3>1, StutterKeeps DEF OutputRemote
    <3>2. CASE Gateway # NoIP
      <4>1. Gateway \in IPs /\ OutputLocal(Gateway, q)
        BY <2>5, <3>2, EtharpAssumption DEF OutputRemote
      <4> QED BY <2>1, <4>1, OutputKeeps
    <3> QED BY <3>1, <3>2
  <2> QED BY <2>2, <2>3, <2>4, <2>5
<1>3. Hear(heard) => heard' \in [IPs -> MACs \union {NoMAC}]
  BY DEF Hear, IInv, TypeOK
<1>4. Kept' /\ heard' \in [IPs -> MACs \union {NoMAC}]
  BY <1>1, <1>2, <1>3, TimerKeeps, CleanupKeeps DEF Next, Timer
<1> QED BY <1>4 DEF Kept, TypeRest, IInv, TypeOK

\* An empty table is in order.
Unset ==
  /\ arp_table = [i \in Index |-> [state |-> "EMPTY", ipaddr |-> NoIP,
                                   ethaddr |-> NoMAC, ctime |-> 0, q |-> NULL]]
  /\ etharp_cached_entry = 0
  /\ refs = [p \in Packets |-> 0]
  /\ quiet = [i \in Index |-> 2]

\* So the invariant holds of it.
LEMMA UnsetKept == Unset => Kept
<1> SUFFICES ASSUME Unset PROVE Kept
  OBVIOUS
<1>1. 0 \in Index /\ 0 \in 0..ARP_MAXAGE
  BY EtharpAssumption DEF Index
<1>2. \A i \in Index : /\ arp_table[i] = [state |-> "EMPTY", ipaddr |-> NoIP,
                            ethaddr |-> NoMAC, ctime |-> 0, q |-> NULL]
                       /\ arp_table[i].state = "EMPTY" /\ arp_table[i].q = NULL
  BY DEF Unset
<1>3. arp_table \in [Index -> Entry]
  <2>1. [state |-> "EMPTY", ipaddr |-> NoIP, ethaddr |-> NoMAC, ctime |-> 0,
         q |-> NULL] \in Entry
    BY <1>1 DEF Entry, States
  <2> QED BY <2>1 DEF Unset
<1>4. TypeRest
  BY <1>1, <1>2, <1>3 DEF Unset, TypeRest
<1>5. PacketsHeld
  <2>1. \A p \in Packets : Queues(p) = {} /\ refs[p] = 0
    BY <1>2, EtharpAssumption DEF Queues, Unset
  <2> QED BY <1>2, <2>1 DEF PacketsHeld
<1>6. OneEntryPerHost /\ QuietSince /\ InTime
  BY <1>2 DEF OneEntryPerHost, Entries, QuietSince, InTime
<1> QED BY <1>4, <1>5, <1>6 DEF Kept

\* The invariant holds in every state that is reached.
THEOREM Invariance == Spec => []IInv
<1>1. Init => IInv
  <2>1. Init => Kept /\ heard \in [IPs -> MACs \union {NoMAC}]
    BY UnsetKept DEF Init, Unset
  <2> QED BY <2>1 DEF Kept, TypeRest, IInv, TypeOK
<1>2. IInv /\ [Next]_vars => IInv'
  <2> SUFFICES ASSUME IInv, [Next]_vars PROVE IInv'
    OBVIOUS
  <2>1. CASE Next
    BY <2>1, StepKeeps
  <2>2. CASE UNCHANGED vars
    <3>1. Kept' /\ heard' = heard
      BY <2>2, StutterKeeps DEF vars
    <3> QED BY <3>1 DEF Kept, TypeRest, IInv, TypeOK
  <2> QED BY <2>1, <2>2
<1> QED BY <1>1, <1>2, PTL DEF Spec

\* The types of the table, the packets and the histories (etharp.c:91-110).
THEOREM TypeCorrect == Spec => []TypeOK
<1>1. IInv => TypeOK
  BY DEF IInv
<1> QED BY <1>1, Invariance, PTL

\* However entries are recycled, refreshed and expired, no host gets a
\* second one (etharp_find_entry, etharp.c:255-402).
THEOREM OneHostOneEntry == Spec => []OneEntryPerHost
<1>1. IInv => OneEntryPerHost
  BY DEF IInv
<1> QED BY <1>1, Invariance, PTL

\* No packet is leaked or freed twice, whether it is sent, replaced, dropped
\* with its entry or refused for want of memory (etharp.c:177, 489, 1079).
THEOREM NoPacketLost == Spec => []PacketsAccounted
<1>1. ASSUME IInv PROVE PacketsAccounted
  <2>1. ASSUME NEW p \in Packets
        PROVE  refs[p] = Cardinality({i \in Index : arp_table[i].q = p})
    <3>1. refs[p] = IF Queues(p) = {} THEN 0 ELSE 1
      BY <1>1 DEF IInv, PacketsHeld
    <3>2. \A i, j \in Queues(p) : i = j
      BY <1>1, EtharpAssumption DEF IInv, PacketsHeld, Queues
    <3>3. Cardinality(Queues(p)) = refs[p]
      <4>1. CASE Queues(p) = {}
        BY <3>1, <4>1, FS_EmptySet
      <4>2. CASE Queues(p) # {}
        <5>1. PICK i : Queues(p) = {i}
          BY <3>2, <4>2
        <5> QED BY <3>1, <4>2, <5>1, FS_Singleton
      <4> QED BY <4>1, <4>2
    <3> QED BY <3>3 DEF Queues
  <2>2. \A i \in Index : arp_table[i].q # NULL => arp_table[i].state = "PENDING"
    BY <1>1 DEF IInv, PacketsHeld
  <2> QED BY <2>1, <2>2 DEF PacketsAccounted
<1> QED BY <1>1, Invariance, PTL

\* An entry that would be asked for again has not been for two ticks, also if
\* an announcement made it stable in between (etharp.c:221, 753-756).
THEOREM RequestsPaced == Spec => []RerequestsPaced
<1>1. ASSUME IInv PROVE RerequestsPaced
  <2> SUFFICES ASSUME NEW i \in Index, RequestDue(arp_table[i])
               PROVE  quiet[i] = 2
    BY DEF RerequestsPaced
  <2>1. arp_table[i].state = "STABLE" /\ arp_table[i].ctime >= 2
    <3>1. arp_table[i].ctime \in Nat
      BY <1>1 DEF IInv, TypeOK, Entry
    <3> QED BY <3>1, EtharpAssumption DEF RequestDue
  <2>2. quiet[i] \in 0..2 /\ arp_table[i].ctime \in Nat
    BY <1>1 DEF IInv, TypeOK, Entry
  <2> QED BY <1>1, <2>1, <2>2 DEF IInv, QuietSince
<1> QED BY <1>1, Invariance, PTL

-----------------------------------------------------------------------------
(***************************************************************************)
(* Etharp implements ArpCache.  The proof uses the invariant above and one *)
(* fact more: a stable entry has the address its host announced last.      *)
(***************************************************************************)

HeardTrue ==
  \A i \in Index : arp_table[i].state \in Stable =>
                     arp_table[i].ethaddr = heard[arp_table[i].ipaddr]

Inv == IInv /\ HeardTrue

-----------------------------------------------------------------------------
(* The abstract state, entry by entry.                                     *)

IsStable(i)  == arp_table[i].state \in Stable
IsPending(i) == arp_table[i].state = "PENDING"
Host(i)      == arp_table[i].ipaddr

\* Known and Asked as the table has them.
MapTrue ==
  /\ \A h : h \in DOMAIN Known <=> \E i \in Index : IsStable(i) /\ Host(i) = h
  /\ \A i \in Index : IsStable(i) =>
       Known[Host(i)] = [mac |-> arp_table[i].ethaddr, age |-> arp_table[i].ctime]
  /\ Known = [h \in DOMAIN Known |-> Known[h]]
  /\ \A h : h \in DOMAIN Asked <=> \E i \in Index : IsPending(i) /\ Host(i) = h
  /\ \A i \in Index : IsPending(i) => Asked[Host(i)] = arp_table[i].q
  /\ Asked = [h \in DOMAIN Asked |-> Asked[h]]

\* The entry of a host is the only one, so CHOOSE finds it.
LEMMA EntryOfIs ==
  ASSUME IInv, NEW S, S \subseteq States \ {"EMPTY"},
         NEW i \in Index, arp_table[i].state \in S
  PROVE  EntryOf(arp_table[i].ipaddr, S) = arp_table[i]
<1> DEFINE h == arp_table[i].ipaddr
           c == CHOOSE j \in Entries(S) : arp_table[j].ipaddr = h
<1>1. i \in Entries(S)
  BY DEF Entries
<1>2. c \in Entries(S) /\ arp_table[c].ipaddr = h
  BY <1>1
<1>3. c = i
  BY <1>1, <1>2 DEF IInv, OneEntryPerHost, Entries
<1> QED
  BY <1>3 DEF EntryOf

\* The cache's Known and Asked are what the table holds.
LEMMA MapIsTrue == Inv => MapTrue
<1> SUFFICES ASSUME Inv PROVE MapTrue
  OBVIOUS
<1>1. IInv /\ HeardTrue
  BY DEF Inv
<1>2. Stable \subseteq States \ {"EMPTY"} /\ {"PENDING"} \subseteq States \ {"EMPTY"}
  BY DEF Stable, States
<1>3. /\ \A h : h \in DOMAIN Known <=> \E i \in Index : IsStable(i) /\ Host(i) = h
      /\ Known = [h \in DOMAIN Known |-> Known[h]]
  BY DEF Known, HostsOf, Entries, IsStable, Host
<1>4. /\ \A h : h \in DOMAIN Asked <=> \E i \in Index : IsPending(i) /\ Host(i) = h
      /\ Asked = [h \in DOMAIN Asked |-> Asked[h]]
  BY DEF Asked, HostsOf, Entries, IsPending, Host
<1>5. ASSUME NEW i \in Index, IsStable(i)
      PROVE  Known[Host(i)] = [mac |-> arp_table[i].ethaddr,
                               age |-> arp_table[i].ctime]
  <2>1. EntryOf(Host(i), Stable) = arp_table[i]
    BY <1>1, <1>2, <1>5, EntryOfIs DEF IsStable, Host
  <2>2. heard[Host(i)] = arp_table[i].ethaddr
    BY <1>1, <1>5 DEF HeardTrue, IsStable, Host
  <2>3. Host(i) \in HostsOf(Stable)
    BY <1>5 DEF HostsOf, Entries, IsStable, Host
  <2> QED
    BY <2>1, <2>2, <2>3 DEF Known
<1>6. ASSUME NEW i \in Index, IsPending(i)
      PROVE  Asked[Host(i)] = arp_table[i].q
  <2>1. EntryOf(Host(i), {"PENDING"}) = arp_table[i]
    BY <1>1, <1>2, <1>6, EntryOfIs DEF IsPending, Host
  <2>2. Host(i) \in HostsOf({"PENDING"})
    BY <1>6 DEF HostsOf, Entries, IsPending, Host
  <2> QED
    BY <2>1, <2>2 DEF Asked
<1> QED
  BY <1>3, <1>4, <1>5, <1>6 DEF MapTrue

\* So they are after a step.
LEMMA MapIsTrueNext == Inv' => MapTrue'
  BY MapIsTrue, PTL

\* Two functions are equal that map the same hosts alike.
LEMMA SameMap ==
  ASSUME NEW f, NEW g, f = [h \in DOMAIN f |-> f[h]],
         g = [h \in DOMAIN g |-> g[h]],
         \A h : h \in DOMAIN f <=> h \in DOMAIN g,
         \A h \in DOMAIN g : f[h] = g[h]
  PROVE  f = g
<1>1. DOMAIN f = DOMAIN g
  OBVIOUS
<1> QED
  BY <1>1

-----------------------------------------------------------------------------
(* What is lost when a host enters the table.                              *)

\* The entry that is recycled.
LEMMA VictimIs ==
  ASSUME TypeOK
  PROVE  /\ Entries({"EMPTY"}) # {} => arp_table[Victim].state = "EMPTY"
         /\ Entries({"EMPTY"}) = {} =>
              /\ Entries(Stable) # {} =>
                   /\ Victim \in Entries(Stable)
                   /\ \A j \in Entries(Stable) :
                        arp_table[j].ctime <= arp_table[Victim].ctime
              /\ Entries(Stable) = {} =>
                   /\ Victim \in Entries({"PENDING"})
                   /\ Entries({"PENDING"}) \ Waiting # {} =>
                        arp_table[Victim].q = NULL
<1>1. \A S : Entries(S) \subseteq Index
  BY DEF Entries
<1>2. 0 \in Index
  BY EtharpAssumption DEF Index
<1>3. Entries({"EMPTY"}) # {} \/ Entries(Stable) # {} \/ Entries({"PENDING"}) # {}
  BY <1>2 DEF Entries, TypeOK, Entry, States
<1>4. CASE Entries({"EMPTY"}) # {}
  <2>1. Victim \in Entries({"EMPTY"})
    BY <1>1, <1>4, LowestIn DEF Victim
  <2> QED
    BY <1>4, <2>1 DEF Entries
<1>5. CASE Entries({"EMPTY"}) = {} /\ Entries(Stable) # {}
  <2>1. Victim = Oldest(Entries(Stable))
    BY <1>5 DEF Victim
  <2> QED
    BY <1>1, <1>5, <2>1, OldestIn
<1>6. CASE /\ Entries({"EMPTY"}) = {} /\ Entries(Stable) = {}
           /\ Entries({"PENDING"}) \ Waiting # {}
  <2> DEFINE S == Entries({"PENDING"}) \ Waiting
  <2>1. Victim = Oldest(S)
    BY <1>6 DEF Victim
  <2>2. Victim \in S
    BY <1>1, <1>6, <2>1, OldestIn
  <2> QED
    BY <1>6, <2>2 DEF Waiting
<1>7. CASE /\ Entries({"EMPTY"}) = {} /\ Entries(Stable) = {}
           /\ Entries({"PENDING"}) \ Waiting = {}
  <2>1. Waiting # {} /\ Waiting \subseteq Index
    BY <1>1, <1>3, <1>7 DEF Waiting
  <2>2. Victim = Oldest(Waiting)
    BY <1>7 DEF Victim
  <2>3. Victim \in Waiting
    BY <2>1, <2>2, OldestIn
  <2> QED
    BY <1>7, <2>3 DEF Waiting
<1> QED
  BY <1>4, <1>5, <1>6, <1>7

\* The cache counts as the table does.
LEMMA SameCardinality ==
  ASSUME NEW S
  PROVE  C!Cardinality(S) = Cardinality(S)
  BY DEF C!Cardinality, Cardinality

\* The hosts in the cache are as many as the entries in use, so the cache is
\* full just when the table is.
LEMMA FullWhenFull ==
  ASSUME Inv
  PROVE  Cardinality(C!Held) < ARP_TABLE_SIZE <=> Entries({"EMPTY"}) # {}
<1> DEFINE U == Index \ Entries({"EMPTY"})
           f == [i \in U |-> Host(i)]
<1>1. MapTrue /\ IInv
  BY MapIsTrue DEF Inv
<1>2. \A i \in Index : i \in U <=> IsStable(i) \/ IsPending(i)
  BY <1>1 DEF IInv, TypeOK, Entry, Entries, States, Stable, IsStable, IsPending
<1>3. \A h : h \in C!Held <=> \E i \in U : Host(i) = h
  BY <1>1, <1>2 DEF C!Held, MapTrue
<1>4. \A i, j \in U : Host(i) = Host(j) => i = j
  BY <1>1 DEF IInv, TypeOK, Entry, OneEntryPerHost, Entries, Host
<1>5. f \in Bijection(U, C!Held)
  <2>1. f \in [U -> C!Held]
    BY <1>3
  <2>2. f \in Injection(U, C!Held)
    BY <2>1, <1>4 DEF Injection, IsInjective
  <2>3. f \in Surjection(U, C!Held)
    BY <2>1, <1>3 DEF Surjection
  <2> QED
    BY <2>2, <2>3 DEF Bijection
<1>6. IsFiniteSet(Index) /\ Cardinality(Index) = ARP_TABLE_SIZE
  <2>1. ARP_TABLE_SIZE \in Nat \ {0}
    BY EtharpAssumption
  <2> QED
    BY <2>1, FS_Interval DEF Index
<1>7. IsFiniteSet(U) /\ Cardinality(U) <= Cardinality(Index)
        /\ (Cardinality(Index) = Cardinality(U) => Index = U)
  BY <1>6, FS_Subset
<1>8. Cardinality(C!Held) = Cardinality(U)
  BY <1>5, <1>7, FS_Bijection DEF ExistsBijection
<1>9. Cardinality(U) \in Nat /\ ARP_TABLE_SIZE \in Nat
  BY <1>7, FS_CardinalityType, EtharpAssumption
<1>10. U = Index <=> Entries({"EMPTY"}) = {}
  BY DEF Entries
<1> QED
  BY <1>6, <1>7, <1>8, <1>9, <1>10

\* The host whose entry is recycled, if any.
Recycled(ip) == IF Match(ip) # {} \/ arp_table[Victim].state = "EMPTY"
                THEN {} ELSE {Host(Victim)}

\* A host is forgotten for another only if the cache is full, and the right
\* one is.
LEMMA RecycledIsLost ==
  ASSUME Inv, NEW ip \in IPs
  PROVE  Recycled(ip) \in C!Lost(ip)
<1>1. MapTrue /\ IInv /\ TypeOK
  BY MapIsTrue DEF Inv, IInv
<1>2. ip \in C!Held <=> Match(ip) # {}
  BY <1>1 DEF C!Held, MapTrue, Match, Entries, TypeOK, Entry, States, Stable,
     IsStable, IsPending, Host
<1>3. Cardinality(C!Held) < ARP_TABLE_SIZE <=> Entries({"EMPTY"}) # {}
  BY FullWhenFull
<1>4. CASE Match(ip) # {}
  BY <1>2, <1>4 DEF C!Lost, Recycled
<1>5. CASE Match(ip) = {} /\ Entries({"EMPTY"}) # {}
  <2>1. arp_table[Victim].state = "EMPTY"
    BY <1>1, <1>5, VictimIs
  <2>2. C!Lost(ip) = {{}}
    BY <1>3, <1>5, SameCardinality DEF C!Lost
  <2> QED
    BY <1>5, <2>1, <2>2 DEF Recycled
<1>6. CASE Match(ip) = {} /\ Entries({"EMPTY"}) = {}
  <2>1. Victim \in Index /\ arp_table[Victim].state # "EMPTY"
    BY <1>1, <1>6, VictimIn DEF Entries
  <2>2. Recycled(ip) = {Host(Victim)}
    BY <1>6, <2>1 DEF Recycled
  <2>3. Host(Victim) \in C!Expendable
    <3>1. CASE Entries(Stable) # {}
      <4>1. /\ Victim \in Entries(Stable)
            /\ \A j \in Entries(Stable) :
                 arp_table[j].ctime <= arp_table[Victim].ctime
        BY <1>1, <1>6, <3>1, VictimIs
      <4>2. IsStable(Victim) /\ Host(Victim) \in DOMAIN Known
        BY <1>1, <2>1, <4>1 DEF MapTrue, IsStable, Entries
      <4>3. \A g \in DOMAIN Known : Known[g].age <= Known[Host(Victim)].age
        <5> TAKE g \in DOMAIN Known
        <5>1. PICK j \in Index : IsStable(j) /\ Host(j) = g
          BY <1>1 DEF MapTrue
        <5>2. /\ Known[g].age = arp_table[j].ctime
              /\ Known[Host(Victim)].age = arp_table[Victim].ctime
          <6>1. /\ Known[g] = [mac |-> arp_table[j].ethaddr,
                               age |-> arp_table[j].ctime]
                /\ Known[Host(Victim)] = [mac |-> arp_table[Victim].ethaddr,
                                          age |-> arp_table[Victim].ctime]
            BY <1>1, <2>1, <4>2, <5>1 DEF MapTrue
          <6> QED
            BY <6>1
        <5> QED
          BY <4>1, <5>1, <5>2 DEF IsStable, Entries
      <4> QED
        BY <4>2, <4>3 DEF C!Expendable
    <3>2. CASE Entries(Stable) = {}
      <4>1. /\ Victim \in Entries({"PENDING"})
            /\ Entries({"PENDING"}) \ Waiting # {} => arp_table[Victim].q = NULL
        BY <1>1, <1>6, <3>2, VictimIs
      <4>2. DOMAIN Known = {}
        BY <1>1, <3>2 DEF MapTrue, IsStable, Entries
      <4>3. /\ IsPending(Victim) /\ Host(Victim) \in DOMAIN Asked
            /\ Asked[Host(Victim)] = arp_table[Victim].q
        BY <1>1, <2>1, <4>1 DEF MapTrue, IsPending, Entries
      <4>4. ASSUME NEW g \in DOMAIN Asked, Asked[g] = NULL
            PROVE  arp_table[Victim].q = NULL
        <5>1. PICK j \in Index : IsPending(j) /\ Host(j) = g
          BY <1>1 DEF MapTrue
        <5>2. arp_table[j].q = NULL
          BY <1>1, <4>4, <5>1 DEF MapTrue
        <5>3. j \in Entries({"PENDING"}) \ Waiting
          BY <5>1, <5>2 DEF IsPending, Entries, Waiting
        <5> QED
          BY <4>1, <5>3
      <4> QED
        BY <4>2, <4>3, <4>4 DEF C!Expendable
    <3> QED
      BY <3>1, <3>2
  <2>4. ip \notin C!Held /\ ~(Cardinality(C!Held) < ARP_TABLE_SIZE)
    BY <1>2, <1>3, <1>6
  <2>5. C!Lost(ip) = {{g} : g \in C!Expendable}
    BY <2>4, SameCardinality DEF C!Lost
  <2> QED
    BY <2>2, <2>3, <2>5
<1> QED
  BY <1>4, <1>5, <1>6

-----------------------------------------------------------------------------
(* The steps.                                                              *)

\* What the other hosts see of a host that enters the table, or has its entry
\* changed: one of them may be forgotten, nothing else.
LEMMA OthersKept ==
  ASSUME Inv, Inv', NEW ip \in IPs,
         arp_table'[Find(ip)].ipaddr = ip,
         \A j \in Index \ {Find(ip)} : arp_table'[j] = arp_table[j],
         NEW h, h # ip
  PROVE  /\ h \in DOMAIN Known' <=> h \in DOMAIN Known \ Recycled(ip)
         /\ h \in DOMAIN Known' => Known'[h] = Known[h]
         /\ h \in DOMAIN Asked' <=> h \in DOMAIN Asked \ Recycled(ip)
         /\ h \in DOMAIN Asked' => Asked'[h] = Asked[h]
<1> DEFINE f == Find(ip)
<1>1. MapTrue /\ MapTrue' /\ IInv
  BY MapIsTrue, MapIsTrueNext DEF Inv
<1>2. f \in Index
      /\ \A j \in Index : arp_table[j].state # "EMPTY" /\ arp_table[j].ipaddr = ip
                            => j = f
  BY <1>1, FindIn
<1>3. \A i, j \in Index :
        /\ IsStable(i) \/ IsPending(i)
        /\ IsStable(j) \/ IsPending(j)
        /\ Host(i) = Host(j)
        => i = j
  BY <1>1 DEF IInv, TypeOK, Entry, OneEntryPerHost, Entries, States, Stable,
     IsStable, IsPending, Host
<1>4. h \notin Recycled(ip) => ~((IsStable(f) \/ IsPending(f)) /\ Host(f) = h)
  <2> SUFFICES ASSUME IsStable(f) \/ IsPending(f), Host(f) = h
               PROVE  h \in Recycled(ip)
    OBVIOUS
  <2>1. arp_table[f].state # "EMPTY"
    BY DEF IsStable, IsPending, Stable
  <2>2. Match(ip) = {}
    <3> SUFFICES ASSUME NEW j \in Match(ip) PROVE FALSE
      OBVIOUS
    <3>1. j \in Index /\ arp_table[j].state # "EMPTY" /\ arp_table[j].ipaddr = ip
      BY DEF Match, Entries
    <3> QED
      BY <3>1, <1>2 DEF Host
  <2>3. f = Victim
    BY <2>2 DEF Find
  <2> QED
    BY <2>1, <2>2, <2>3 DEF Recycled
<1>5. h \in Recycled(ip) => f = Victim /\ Host(f) = h /\ arp_table[f].state # "EMPTY"
  BY DEF Recycled, Find
<1> HIDE DEF f
<1>6. /\ \A j \in Index \ {f} : /\ IsStable(j)' <=> IsStable(j)
                                /\ IsPending(j)' <=> IsPending(j)
                                /\ Host(j)' = Host(j)
      /\ \A j \in Index : j = f => Host(j)' # h
  BY DEF IsStable, IsPending, Host, f
<1>7. \A j \in Index \ {f} : arp_table'[j] = arp_table[j]
  BY DEF f
<1>8. arp_table[f].state # "EMPTY" => IsStable(f) \/ IsPending(f)
  BY <1>1, <1>2 DEF IInv, TypeOK, Entry, States, Stable, IsStable, IsPending
<1>9. ASSUME h \in DOMAIN Known'
      PROVE  h \in DOMAIN Known \ Recycled(ip) /\ Known'[h] = Known[h]
  <2>1. PICK i \in Index : IsStable(i)' /\ Host(i)' = h
    BY <1>1, <1>9 DEF MapTrue
  <2>2. i # f /\ IsStable(i) /\ Host(i) = h
    BY <2>1, <1>6
  <2>3. Known'[h] = Known[h]
    <3>1. Known'[h] = [mac |-> arp_table'[i].ethaddr, age |-> arp_table'[i].ctime]
      BY <1>1, <2>1 DEF MapTrue
    <3>2. Known[h] = [mac |-> arp_table[i].ethaddr, age |-> arp_table[i].ctime]
      BY <1>1, <2>2 DEF MapTrue
    <3> QED
      BY <3>1, <3>2, <1>7, <2>2
  <2>4. h \notin Recycled(ip)
    BY <1>2, <1>3, <1>5, <1>8, <2>2
  <2> QED
    BY <1>1, <2>2, <2>3, <2>4 DEF MapTrue
<1>10. ASSUME h \in DOMAIN Known \ Recycled(ip)
       PROVE  h \in DOMAIN Known'
  <2>1. PICK i \in Index : IsStable(i) /\ Host(i) = h
    BY <1>1, <1>10 DEF MapTrue
  <2>2. i # f
    BY <1>4, <1>10, <2>1
  <2>3. IsStable(i)' /\ Host(i)' = h
    BY <1>6, <2>1, <2>2
  <2> QED
    BY <1>1, <2>3 DEF MapTrue
<1>11. ASSUME h \in DOMAIN Asked'
       PROVE  h \in DOMAIN Asked \ Recycled(ip) /\ Asked'[h] = Asked[h]
  <2>1. PICK i \in Index : IsPending(i)' /\ Host(i)' = h
    BY <1>1, <1>11 DEF MapTrue
  <2>2. i # f /\ IsPending(i) /\ Host(i) = h
    BY <2>1, <1>6
  <2>3. Asked'[h] = Asked[h]
    BY <1>1, <1>7, <2>1, <2>2 DEF MapTrue
  <2>4. h \notin Recycled(ip)
    BY <1>2, <1>3, <1>5, <1>8, <2>2
  <2> QED
    BY <1>1, <2>2, <2>3, <2>4 DEF MapTrue
<1>12. ASSUME h \in DOMAIN Asked \ Recycled(ip)
       PROVE  h \in DOMAIN Asked'
  <2>1. PICK i \in Index : IsPending(i) /\ Host(i) = h
    BY <1>1, <1>12 DEF MapTrue
  <2>2. i # f
    BY <1>4, <1>12, <2>1
  <2>3. IsPending(i)' /\ Host(i)' = h
    BY <1>6, <2>1, <2>2
  <2> QED
    BY <1>1, <2>3 DEF MapTrue
<1> QED
  BY <1>9, <1>10, <1>11, <1>12

\* A host announces its address: the cache learns it, and what waits leaves.
LEMMA UpdateStep ==
  ASSUME Inv, Inv', NEW ip \in IPs, NEW mac \in MACs,
         etharp_update_arp_entry(ip, mac)
  PROVE  C!Announce(ip, mac)
<1> DEFINE f == Find(ip)
           e == Resolved(Found(ip), mac)
           lost == Recycled(ip)
           K == C!Plus(C!Less(Known, lost), ip, [mac |-> mac, age |-> 0])
           A == C!Less(Asked, lost \union {ip})
<1>1. MapTrue /\ MapTrue' /\ IInv
  BY MapIsTrue, MapIsTrueNext DEF Inv
<1>2. f \in Index /\ Found(ip) \in Entry /\ Found(ip).ipaddr = ip
      /\ \A j \in Index : arp_table[j].state # "EMPTY" /\ arp_table[j].ipaddr = ip
                            => j = f
  BY <1>1, FindIn
<1>3. /\ e.state = "STABLE" /\ e.ipaddr = ip /\ e.ctime = 0 /\ e.q = NULL
      /\ e.ethaddr = mac
  BY <1>2 DEF Resolved, Entry
<1>4. /\ arp_table'[f] = e
      /\ \A j \in Index \ {f} : arp_table'[j] = arp_table[j]
  BY <1>1, <1>2 DEF etharp_update_arp_entry, IInv, TypeOK
<1> HIDE DEF f, e
<1>6. ip \in DOMAIN Known' /\ Known'[ip] = [mac |-> mac, age |-> 0]
  <2>1. ASSUME NEW i \in Index, IsStable(i)', Host(i)' = ip
        PROVE  ip \in DOMAIN Known' /\ Known'[ip] = [mac |-> arp_table'[i].ethaddr,
                                                     age |-> arp_table'[i].ctime]
    BY <2>1, <1>1 DEF MapTrue
  <2>2. PICK i \in Index : i = f
    BY <1>2
  <2>3. IsStable(i)' /\ Host(i)' = ip
    BY <2>2, <1>3, <1>4 DEF IsStable, Host, Stable
  <2> QED
    BY <2>1, <2>2, <2>3, <1>3, <1>4
<1>7. ip \notin DOMAIN Asked'
  <2> SUFFICES ASSUME NEW i \in Index, IsPending(i)', Host(i)' = ip PROVE FALSE
    BY <1>1 DEF MapTrue
  <2>1. i # f
    BY <1>3, <1>4 DEF IsPending
  <2>2. arp_table[i].state # "EMPTY" /\ arp_table[i].ipaddr = ip
    BY <2>1, <1>4 DEF IsPending, Host
  <2> QED
    BY <2>1, <2>2, <1>2
<1>8. ASSUME NEW h, h # ip
      PROVE  /\ h \in DOMAIN Known' <=> h \in DOMAIN Known \ lost
             /\ h \in DOMAIN Known' => Known'[h] = Known[h]
             /\ h \in DOMAIN Asked' <=> h \in DOMAIN Asked \ lost
             /\ h \in DOMAIN Asked' => Asked'[h] = Asked[h]
  BY <1>3, <1>4, <1>8, OthersKept DEF f
<1>9. Known' = K
  <2>1. /\ DOMAIN K = (DOMAIN Known \ lost) \union {ip}
        /\ K[ip] = [mac |-> mac, age |-> 0]
        /\ \A h \in DOMAIN Known \ lost : h # ip => K[h] = Known[h]
        /\ K = [h \in DOMAIN K |-> K[h]]
    <3> DEFINE L == C!Less(Known, lost)
    <3>1. DOMAIN L = DOMAIN Known \ lost /\ \A h \in DOMAIN L : L[h] = Known[h]
      BY DEF C!Less
    <3> HIDE DEF L, lost
    <3>2. K = C!Plus(L, ip, [mac |-> mac, age |-> 0])
      BY DEF L
    <3> HIDE DEF K
    <3>3. /\ DOMAIN K = DOMAIN L \union {ip}
          /\ \A g \in DOMAIN L \union {ip} :
               K[g] = IF g = ip THEN [mac |-> mac, age |-> 0] ELSE L[g]
          /\ K = [h \in DOMAIN K |-> K[h]]
      BY <3>2 DEF C!Plus
    <3> QED
      BY <3>1, <3>3
  <2> HIDE DEF K, lost
  <2>2. Known' = [h \in DOMAIN Known' |-> Known'[h]]
    BY <1>1 DEF MapTrue
  <2>3. \A h : h \in DOMAIN Known' <=> h \in DOMAIN K
    BY <2>1, <1>6, <1>8
  <2>4. \A h \in DOMAIN K : Known'[h] = K[h]
    BY <2>1, <1>6, <1>8
  <2> QED
    BY <2>1, <2>2, <2>3, <2>4, SameMap
<1>10. Asked' = A
  <2>1. /\ DOMAIN A = DOMAIN Asked \ (lost \union {ip})
        /\ \A h \in DOMAIN A : A[h] = Asked[h]
        /\ A = [h \in DOMAIN A |-> A[h]]
    BY DEF C!Less
  <2> HIDE DEF A, lost
  <2>2. Asked' = [h \in DOMAIN Asked' |-> Asked'[h]]
    BY <1>1 DEF MapTrue
  <2>3. \A h : h \in DOMAIN Asked' <=> h \in DOMAIN A
    BY <2>1, <1>7, <1>8
  <2>4. \A h \in DOMAIN A : Asked'[h] = A[h]
    BY <2>1, <2>3, <1>7, <1>8
  <2> QED
    BY <2>1, <2>2, <2>3, <2>4, SameMap
<1>11. lost \in C!Lost(ip)
  BY RecycledIsLost
<1>12. out' = IF ip \in DOMAIN Asked /\ Asked[ip] # NULL
              THEN {C!Frame(Asked[ip], ip, mac)} ELSE {}
  <2>1. out' = IF Found(ip).q = NULL THEN {} ELSE {Frame(Found(ip).q, ip, mac)}
    BY DEF etharp_update_arp_entry
  <2>2. Found(ip).q # NULL <=> ip \in DOMAIN Asked /\ Asked[ip] # NULL
    <3>1. Found(ip).q # NULL => Match(ip) # {}
      <4> SUFFICES ASSUME Match(ip) = {} PROVE Found(ip).q = NULL
        OBVIOUS
      <4>1. f \in Index /\ arp_table[f] \in Entry
        BY <1>1, <1>2 DEF IInv, TypeOK
      <4>2. Found(ip) = [etharp_free_entry(arp_table[f]) EXCEPT !.ipaddr = ip, !.ctime = 0]
        BY DEF Found, f
      <4> QED
        BY <4>1, <4>2 DEF etharp_free_entry, Entry
    <3>2. Match(ip) # {} => Found(ip) = arp_table[f]
      BY DEF Found, f
    <3>3. ASSUME Found(ip).q # NULL
          PROVE  ip \in DOMAIN Asked /\ Asked[ip] # NULL
      <4>1. arp_table[f].q # NULL /\ Found(ip) = arp_table[f]
        BY <3>1, <3>2, <3>3
      <4>2. IsPending(f) /\ Host(f) = ip
        BY <4>1, <1>1, <1>2 DEF IInv, PacketsHeld, IsPending, Host
      <4> QED
        BY <4>1, <4>2, <1>1, <1>2 DEF MapTrue
    <3>4. ASSUME ip \in DOMAIN Asked, Asked[ip] # NULL
          PROVE  Found(ip).q # NULL
      <4>1. PICK i \in Index : IsPending(i) /\ Host(i) = ip
        BY <3>4, <1>1 DEF MapTrue
      <4>2. i = f
        BY <4>1, <1>2 DEF IsPending, Host
      <4>3. i \in Match(ip)
        BY <4>1 DEF Match, Entries, IsPending, Host, States
      <4>4. Asked[ip] = arp_table[f].q
        BY <4>1, <4>2, <1>1 DEF MapTrue
      <4> QED
        BY <4>3, <4>4, <3>2, <3>4
    <3> QED
      BY <3>3, <3>4
  <2>3. Found(ip).q # NULL => Found(ip).q = Asked[ip]
    <3> SUFFICES ASSUME Found(ip).q # NULL PROVE Found(ip).q = Asked[ip]
      OBVIOUS
    <3>1. PICK i \in Index : IsPending(i) /\ Host(i) = ip
      BY <2>2, <1>1 DEF MapTrue
    <3>2. i = f
      BY <3>1, <1>2 DEF IsPending, Host
    <3>3. i \in Match(ip)
      BY <3>1 DEF Match, Entries, IsPending, Host, States
    <3>4. Asked[ip] = arp_table[f].q
      BY <3>1, <3>2, <1>1 DEF MapTrue
    <3>5. Found(ip) = arp_table[f]
      BY <3>3 DEF Found, f
    <3> QED
      BY <3>4, <3>5
  <2>4. \A p, h, t : Frame(p, h, t) = C!Frame(p, h, t)
    BY DEF Frame, C!Frame
  <2> QED
    BY <2>1, <2>2, <2>3, <2>4
<1> QED
  BY <1>9, <1>10, <1>11, <1>12 DEF C!Announce

\* A packet waits for a host that is not known, or is refused.
LEMMA QueryStep ==
  ASSUME Inv, Inv', NEW ip \in IPs, NEW q \in Packets,
         StableEntry(ip) = {}, etharp_query(ip, q)
  PROVE  C!Wait(ip)
<1> DEFINE f == Find(ip)
           e == [Found(ip) EXCEPT !.state = "PENDING"]
           lost == Recycled(ip)
           before == IF ip \in DOMAIN Asked THEN Asked[ip] ELSE NULL
<1>1. MapTrue /\ MapTrue' /\ IInv
  BY MapIsTrue, MapIsTrueNext DEF Inv
<1>2. f \in Index /\ Found(ip) \in Entry /\ Found(ip).ipaddr = ip
      /\ \A j \in Index : arp_table[j].state # "EMPTY" /\ arp_table[j].ipaddr = ip
                            => j = f
  BY <1>1, FindIn
<1>3. /\ e \in Entry /\ e.state = "PENDING" /\ e.ipaddr = ip
      /\ e.q = Found(ip).q
  BY <1>2 DEF Entry, States
<1> HIDE DEF f, e
<1>4. PICK n : /\ n.state = "PENDING" /\ n.ipaddr = ip
               /\ n.q = q \/ n.q = Found(ip).q
               /\ arp_table' = [arp_table EXCEPT ![f] = n]
  <2>1. \/ arp_table' = [arp_table EXCEPT ![f] = Queued(e, q)]
        \/ arp_table' = [arp_table EXCEPT ![f] = e]
    BY DEF etharp_query, Queue, e, f
  <2>2. /\ Queued(e, q).state = "PENDING" /\ Queued(e, q).ipaddr = ip
        /\ Queued(e, q).q = q
    BY <1>3 DEF Queued, Entry
  <2> QED
    BY <2>1, <2>2, <1>3
<1>5. /\ arp_table'[f] = n
      /\ \A j \in Index \ {f} : arp_table'[j] = arp_table[j]
  BY <1>1, <1>2, <1>4 DEF IInv, TypeOK
<1>6. ip \notin DOMAIN Known
  <2> SUFFICES ASSUME NEW i \in Index, IsStable(i), Host(i) = ip PROVE FALSE
    BY <1>1 DEF MapTrue
  <2>1. i \in Entries(Stable) /\ arp_table[i].ipaddr = ip
    BY DEF IsStable, Host, Entries
  <2>2. Cached(ip) => StableEntry(ip) # {}
    BY DEF StableEntry
  <2> QED
    BY <2>1, <2>2 DEF StableEntry
<1>7. Found(ip).q = before
  <2>1. CASE Match(ip) = {}
    <3>1. arp_table[f] \in Entry
      BY <1>1, <1>2 DEF IInv, TypeOK
    <3>2. Found(ip) = [etharp_free_entry(arp_table[f]) EXCEPT !.ipaddr = ip,
                                                              !.ctime = 0]
      BY <2>1 DEF Found, f
    <3>3. Found(ip).q = NULL
      BY <3>1, <3>2 DEF etharp_free_entry, Entry
    <3>4. ip \notin DOMAIN Asked
      BY <2>1, <1>1 DEF MapTrue, Match, Entries, IsPending, Host, States
    <3> QED
      BY <3>3, <3>4
  <2>2. CASE Match(ip) # {}
    <3>1. PICK i \in Match(ip) : TRUE
      BY <2>2
    <3>2. /\ i \in Index /\ arp_table[i].state \in States \ {"EMPTY"}
          /\ Host(i) = ip
      BY DEF Match, Entries, Host
    <3>3. i = f
      BY <3>2, <1>2 DEF Host
    <3>4. IsPending(i)
      BY <3>2, <1>1, <1>6 DEF MapTrue, IsStable, IsPending, States
    <3>5. ip \in DOMAIN Asked /\ Asked[ip] = arp_table[f].q
      BY <3>2, <3>3, <3>4, <1>1 DEF MapTrue
    <3>6. Found(ip) = arp_table[f]
      BY <2>2 DEF Found, f
    <3> QED
      BY <3>5, <3>6
  <2> QED
    BY <2>1, <2>2
<1>8. ip \in DOMAIN Asked' /\ Asked'[ip] = n.q
  <2>1. PICK i \in Index : i = f
    BY <1>2
  <2>2. IsPending(i)' /\ Host(i)' = ip /\ arp_table'[i].q = n.q
    BY <2>1, <1>4, <1>5 DEF IsPending, Host
  <2> QED
    BY <2>2, <1>1 DEF MapTrue
<1>9. ip \notin DOMAIN Known'
  <2> SUFFICES ASSUME NEW i \in Index, IsStable(i)', Host(i)' = ip PROVE FALSE
    BY <1>1 DEF MapTrue
  <2>1. i # f
    BY <1>4, <1>5 DEF IsStable, Stable
  <2>2. arp_table[i].state # "EMPTY" /\ arp_table[i].ipaddr = ip
    BY <2>1, <1>5 DEF IsStable, Host, Stable
  <2> QED
    BY <2>1, <2>2, <1>2
<1>10. ASSUME NEW h, h # ip
       PROVE  /\ h \in DOMAIN Known' <=> h \in DOMAIN Known \ lost
              /\ h \in DOMAIN Known' => Known'[h] = Known[h]
              /\ h \in DOMAIN Asked' <=> h \in DOMAIN Asked \ lost
              /\ h \in DOMAIN Asked' => Asked'[h] = Asked[h]
  BY <1>4, <1>5, <1>10, OthersKept DEF f
<1>11. Known' = C!Less(Known, lost)
  <2> DEFINE K == C!Less(Known, lost)
  <2>1. /\ DOMAIN K = DOMAIN Known \ lost
        /\ \A h \in DOMAIN K : K[h] = Known[h]
        /\ K = [h \in DOMAIN K |-> K[h]]
    BY DEF C!Less
  <2> HIDE DEF K, lost
  <2>2. Known' = [h \in DOMAIN Known' |-> Known'[h]]
    BY <1>1 DEF MapTrue
  <2>3. \A h : h \in DOMAIN Known' <=> h \in DOMAIN K
    BY <2>1, <1>6, <1>9, <1>10
  <2>4. \A h \in DOMAIN K : Known'[h] = K[h]
    BY <2>1, <2>3, <1>9, <1>10
  <2>5. Known' = K
    BY <2>1, <2>2, <2>3, <2>4, SameMap
  <2> QED
    BY <2>5 DEF K
<1>12. Asked' = C!Plus(C!Less(Asked, lost), ip, n.q)
  <2> DEFINE L == C!Less(Asked, lost)
             A == C!Plus(L, ip, n.q)
  <2>1. DOMAIN L = DOMAIN Asked \ lost /\ \A h \in DOMAIN L : L[h] = Asked[h]
    BY DEF C!Less
  <2> HIDE DEF L, lost
  <2>2. /\ DOMAIN A = DOMAIN L \union {ip}
        /\ \A g \in DOMAIN L \union {ip} : A[g] = IF g = ip THEN n.q ELSE L[g]
        /\ A = [h \in DOMAIN A |-> A[h]]
    BY DEF C!Plus
  <2> HIDE DEF A
  <2>3. Asked' = [h \in DOMAIN Asked' |-> Asked'[h]]
    BY <1>1 DEF MapTrue
  <2>4. \A h : h \in DOMAIN Asked' <=> h \in DOMAIN A
    BY <2>1, <2>2, <1>8, <1>10
  <2>5. \A h \in DOMAIN A : Asked'[h] = A[h]
    BY <2>1, <2>2, <1>8, <1>10
  <2>6. Asked' = A
    BY <2>2, <2>3, <2>4, <2>5, SameMap
  <2> QED
    BY <2>6 DEF A, L
<1>13. lost \in C!Lost(ip)
  BY RecycledIsLost
<1>14. out' = {}
  BY DEF etharp_query
<1>15. n.q \in Packets \union {before}
  BY <1>4, <1>7
<1> QED
  BY <1>6, <1>11, <1>12, <1>13, <1>14, <1>15 DEF C!Wait

\* A step that changes nothing the cache shows.
LEMMA SameCache ==
  ASSUME Inv, Inv',
         \A i \in Index :
           /\ IsStable(i)' <=> IsStable(i)
           /\ IsPending(i)' <=> IsPending(i)
           /\ arp_table'[i].ipaddr = arp_table[i].ipaddr
           /\ arp_table'[i].ethaddr = arp_table[i].ethaddr
           /\ arp_table'[i].ctime = arp_table[i].ctime
           /\ arp_table'[i].q = arp_table[i].q
  PROVE  Known' = Known /\ Asked' = Asked
<1>1. MapTrue /\ MapTrue'
  BY MapIsTrue, MapIsTrueNext
<1>2. \A i \in Index : Host(i)' = Host(i)
  BY DEF Host
<1>3. /\ \A h : h \in DOMAIN Known' <=> h \in DOMAIN Known
      /\ \A h : h \in DOMAIN Asked' <=> h \in DOMAIN Asked
  BY <1>1, <1>2 DEF MapTrue
<1>4. ASSUME NEW h \in DOMAIN Known PROVE Known'[h] = Known[h]
  <2>1. PICK i \in Index : IsStable(i) /\ Host(i) = h
    BY <1>1 DEF MapTrue
  <2>2. Known[h] = [mac |-> arp_table[i].ethaddr, age |-> arp_table[i].ctime]
    BY <1>1, <2>1 DEF MapTrue
  <2>3. Known'[h] = [mac |-> arp_table'[i].ethaddr, age |-> arp_table'[i].ctime]
    BY <1>1, <1>2, <2>1 DEF MapTrue
  <2> QED
    BY <2>2, <2>3
<1>5. ASSUME NEW h \in DOMAIN Asked PROVE Asked'[h] = Asked[h]
  <2>1. PICK i \in Index : IsPending(i) /\ Host(i) = h
    BY <1>1 DEF MapTrue
  <2> QED
    BY <1>1, <1>2, <2>1 DEF MapTrue
<1>6. /\ Known = [h \in DOMAIN Known |-> Known[h]]
      /\ Known' = [h \in DOMAIN Known' |-> Known'[h]]
      /\ Asked = [h \in DOMAIN Asked |-> Asked[h]]
      /\ Asked' = [h \in DOMAIN Asked' |-> Asked'[h]]
  BY <1>1 DEF MapTrue
<1> QED
  BY <1>3, <1>4, <1>5, <1>6, SameMap

\* A stable entry in use, asked for again or not, shows the same.
LEMMA OutputShows ==
  ASSUME TypeOK, NEW ip \in IPs, NEW q \in Packets,
         StableEntry(ip) # {}, OutputLocal(ip, q)
  PROVE  \E i \in Index :
           /\ IsStable(i) /\ Host(i) = ip
           /\ out' = {Frame(q, ip, arp_table[i].ethaddr)}
           /\ \A j \in Index :
                /\ IsStable(j)' <=> IsStable(j)
                /\ IsPending(j)' <=> IsPending(j)
                /\ arp_table'[j].ipaddr = arp_table[j].ipaddr
                /\ arp_table'[j].ethaddr = arp_table[j].ethaddr
                /\ arp_table'[j].ctime = arp_table[j].ctime
                /\ arp_table'[j].q = arp_table[j].q
<1>1. \A i \in StableEntry(ip) : i \in Index /\ IsStable(i) /\ Host(i) = ip
  BY DEF StableEntry, Cached, Entries, TypeOK, IsStable, Host
<1>2. PICK i \in StableEntry(ip) :
        /\ out' = {Frame(q, ip, arp_table[i].ethaddr)}
        /\ \/ arp_table' = [arp_table EXCEPT ![i] = Rerequested(@)]
           \/ UNCHANGED arp_table
  <2>1. StableEntry(ip) \subseteq Index
    BY <1>1
  <2>2. Lowest(StableEntry(ip)) \in StableEntry(ip)
    BY <2>1, LowestIn
  <2> QED
    BY <2>2 DEF OutputLocal, etharp_output_to_arp_index
<1>3. i \in Index /\ IsStable(i) /\ Host(i) = ip
  BY <1>1, <1>2
<1>4. CASE UNCHANGED arp_table
  <2>1. \A j \in Index : /\ IsStable(j)' <=> IsStable(j)
                         /\ IsPending(j)' <=> IsPending(j)
    BY <1>4 DEF IsStable, IsPending
  <2> QED
    BY <1>2, <1>3, <1>4, <2>1
<1>5. CASE arp_table' = [arp_table EXCEPT ![i] = Rerequested(@)]
  <2>1. /\ arp_table[i] \in Entry
        /\ \A j \in Index \ {i} : arp_table'[j] = arp_table[j]
        /\ arp_table'[i] = [arp_table[i] EXCEPT !.state = "REREQUESTING_1"]
    BY <1>3, <1>5 DEF TypeOK, Rerequested
  <2>2. /\ arp_table'[i].state = "REREQUESTING_1"
        /\ arp_table'[i].ipaddr = arp_table[i].ipaddr
        /\ arp_table'[i].ethaddr = arp_table[i].ethaddr
        /\ arp_table'[i].ctime = arp_table[i].ctime
        /\ arp_table'[i].q = arp_table[i].q
    BY <2>1 DEF Entry
  <2>3. \A j \in Index : /\ IsStable(j)' <=> IsStable(j)
                         /\ IsPending(j)' <=> IsPending(j)
    BY <2>1, <2>2, <1>3 DEF IsStable, IsPending, Stable
  <2> QED
    BY <2>1, <2>2, <2>3, <1>2, <1>3
<1> QED
  BY <1>2, <1>4, <1>5

\* A packet for a host that is known leaves for the address announced last.
LEMMA SendStep ==
  ASSUME Inv, Inv', NEW ip \in IPs, NEW q \in Packets,
         StableEntry(ip) # {}, OutputLocal(ip, q)
  PROVE  \E h \in DOMAIN Known : C!Send(h)
<1>1. MapTrue /\ TypeOK
  BY MapIsTrue DEF Inv, IInv
<1>2. PICK i \in Index :
        /\ IsStable(i) /\ Host(i) = ip
        /\ out' = {Frame(q, ip, arp_table[i].ethaddr)}
        /\ \A j \in Index :
             /\ IsStable(j)' <=> IsStable(j)
             /\ IsPending(j)' <=> IsPending(j)
             /\ arp_table'[j].ipaddr = arp_table[j].ipaddr
             /\ arp_table'[j].ethaddr = arp_table[j].ethaddr
             /\ arp_table'[j].ctime = arp_table[j].ctime
             /\ arp_table'[j].q = arp_table[j].q
  BY <1>1, OutputShows
<1>3. ip \in DOMAIN Known /\ Known[ip].mac = arp_table[i].ethaddr
  <2>1. ip \in DOMAIN Known
          /\ Known[ip] = [mac |-> arp_table[i].ethaddr, age |-> arp_table[i].ctime]
    BY <1>1, <1>2 DEF MapTrue
  <2> QED
    BY <2>1
<1>4. UNCHANGED <<Known, Asked>>
  BY <1>2, SameCache
<1>5. out' = {C!Frame(q, ip, Known[ip].mac)}
  BY <1>2, <1>3 DEF Frame, C!Frame
<1> QED
  BY <1>3, <1>4, <1>5 DEF C!Send

\* What a tick makes of an entry in use, as far as the cache shows it.
LEMMA AgedShows ==
  ASSUME NEW e \in Entry, e.state # "EMPTY", e.ctime < ARP_MAXAGE
  PROVE  /\ e.state \in Stable =>
              (Aged(e).state \in Stable <=> e.ctime + 1 < ARP_MAXAGE)
         /\ e.state \in Stable => Aged(e).state # "PENDING"
         /\ e.state = "PENDING" => Aged(e).state \in {"PENDING", "EMPTY"}
         /\ Aged(e).state # "EMPTY" =>
              Aged(e).ethaddr = e.ethaddr /\ Aged(e).ctime = e.ctime + 1
<1> DEFINE o == [e EXCEPT !.ctime = @ + 1]
<1>1. o \in Entry
  BY EtharpAssumption DEF Entry
<1>2. /\ o.state = e.state /\ o.ethaddr = e.ethaddr
      /\ o.ctime = e.ctime + 1 /\ o.ctime \in Nat
  BY EtharpAssumption DEF Entry
<1>3. Aged(e) = CASE e.state = "EMPTY"    -> e
      [] e.state # "EMPTY" /\ Expired(o) -> etharp_free_entry(o)
      [] e.state = "REREQUESTING_1" /\ ~Expired(o) ->
           [o EXCEPT !.state = "REREQUESTING_2"]
      [] e.state = "REREQUESTING_2" /\ ~Expired(o) ->
           [o EXCEPT !.state = "STABLE"]
      [] e.state \in {"PENDING", "STABLE"} /\ ~Expired(o) -> o
  BY DEF Aged
<1>4. e.state \in {"PENDING", "STABLE", "REREQUESTING_1", "REREQUESTING_2"}
  BY DEF Entry, States, Stable
<1>5. e.state \in Stable => (Expired(o) <=> ~(e.ctime + 1 < ARP_MAXAGE))
  BY <1>2, EtharpAssumption DEF Expired, Stable
<1> HIDE DEF o
<1>6. CASE Expired(o)
  <2>1. Aged(e) = etharp_free_entry(o)
    BY <1>3, <1>6
  <2>2. Aged(e).state = "EMPTY"
    BY <2>1, <1>1 DEF etharp_free_entry, Entry
  <2> QED
    BY <1>5, <1>6, <2>2 DEF Stable
<1>7. CASE ~Expired(o) /\ e.state = "REREQUESTING_1"
  <2>1. Aged(e) = [o EXCEPT !.state = "REREQUESTING_2"]
    BY <1>3, <1>7
  <2>2. /\ Aged(e).state = "REREQUESTING_2" /\ Aged(e).ethaddr = o.ethaddr
        /\ Aged(e).ctime = o.ctime
    BY <2>1, <1>1 DEF Entry
  <2> QED
    BY <1>2, <1>5, <1>7, <2>2 DEF Stable
<1>8. CASE ~Expired(o) /\ e.state = "REREQUESTING_2"
  <2>1. Aged(e) = [o EXCEPT !.state = "STABLE"]
    BY <1>3, <1>8
  <2>2. /\ Aged(e).state = "STABLE" /\ Aged(e).ethaddr = o.ethaddr
        /\ Aged(e).ctime = o.ctime
    BY <2>1, <1>1 DEF Entry
  <2> QED
    BY <1>2, <1>5, <1>8, <2>2 DEF Stable
<1>9. CASE ~Expired(o) /\ e.state \in {"PENDING", "STABLE"}
  <2>1. Aged(e) = o
    BY <1>3, <1>9
  <2> QED
    BY <1>2, <1>5, <1>9, <2>1 DEF Stable
<1> QED
  BY <1>4, <1>6, <1>7, <1>8, <1>9

\* A tick.
LEMMA TimerStep ==
  ASSUME Inv, Inv', etharp_tmr
  PROVE  C!Tick
<1>1. MapTrue /\ MapTrue' /\ IInv
  BY MapIsTrue, MapIsTrueNext DEF Inv
<1>2. \A i \in Index : /\ arp_table[i] \in Entry
                       /\ arp_table[i].q # NULL => arp_table[i].state = "PENDING"
                       /\ arp_table[i].state # "EMPTY" =>
                            arp_table[i].ctime < ARP_MAXAGE
  BY <1>1 DEF IInv, TypeOK, PacketsHeld, InTime
<1>3. \A i \in Index : arp_table'[i] = Aged(arp_table[i])
  BY DEF etharp_tmr
<1>4. ASSUME NEW i \in Index
      PROVE  /\ Host(i)' = Host(i)
             /\ IsStable(i)' <=> IsStable(i) /\ arp_table[i].ctime + 1 < ARP_MAXAGE
             /\ IsPending(i)' => IsPending(i)
             /\ IsPending(i)' => arp_table'[i].q = arp_table[i].q
             /\ IsStable(i)' => /\ arp_table'[i].ethaddr = arp_table[i].ethaddr
                                /\ arp_table'[i].ctime = arp_table[i].ctime + 1
  <2> DEFINE e == arp_table[i]
             a == arp_table'[i]
  <2>1. /\ a.ipaddr = e.ipaddr
        /\ a.state # "EMPTY" => e.state # "EMPTY" /\ a.q = e.q
    BY <1>2, <1>3, AgedEntry
  <2>2. e.state # "EMPTY" =>
          /\ e.state \in Stable => (a.state \in Stable <=> e.ctime + 1 < ARP_MAXAGE)
          /\ e.state \in Stable => a.state # "PENDING"
          /\ e.state = "PENDING" => a.state \in {"PENDING", "EMPTY"}
          /\ a.state # "EMPTY" => a.ethaddr = e.ethaddr /\ a.ctime = e.ctime + 1
    BY <1>2, <1>3, AgedShows
  <2>3. e.state \in {"EMPTY", "PENDING"} \union Stable
    BY <1>2 DEF Entry, States
  <2> HIDE DEF e, a
  <2>4. /\ a.state \in Stable <=> e.state \in Stable /\ e.ctime + 1 < ARP_MAXAGE
        /\ a.state = "PENDING" => e.state = "PENDING" /\ a.q = e.q
        /\ a.state \in Stable => a.ethaddr = e.ethaddr /\ a.ctime = e.ctime + 1
    BY <2>1, <2>2, <2>3 DEF Stable
  <2> QED
    BY <2>1, <2>4 DEF e, a, Host, IsStable, IsPending
<1>5. Known' = [h \in {g \in DOMAIN Known : Known[g].age + 1 < ARP_MAXAGE} |->
                  [Known[h] EXCEPT !.age = @ + 1]]
  <2> DEFINE S == {g \in DOMAIN Known : Known[g].age + 1 < ARP_MAXAGE}
             K == [h \in S |-> [Known[h] EXCEPT !.age = @ + 1]]
  <2>1. ASSUME NEW i \in Index, IsStable(i)
        PROVE  /\ Host(i) \in DOMAIN Known
               /\ Known[Host(i)] = [mac |-> arp_table[i].ethaddr,
                                    age |-> arp_table[i].ctime]
               /\ Known[Host(i)].age = arp_table[i].ctime
               /\ [Known[Host(i)] EXCEPT !.age = @ + 1] =
                    [mac |-> arp_table[i].ethaddr, age |-> arp_table[i].ctime + 1]
    <3>1. /\ Host(i) \in DOMAIN Known
          /\ Known[Host(i)] = [mac |-> arp_table[i].ethaddr,
                               age |-> arp_table[i].ctime]
      BY <1>1, <2>1 DEF MapTrue
    <3> QED
      BY <3>1
  <2>2. ASSUME NEW i \in Index, IsStable(i)'
        PROVE  Known'[Host(i)'] = [mac |-> arp_table'[i].ethaddr,
                                   age |-> arp_table'[i].ctime]
    BY <1>1, <2>2 DEF MapTrue
  <2>3. \A h : h \in DOMAIN Known' <=> h \in S
    <3> TAKE h
    <3>1. h \in DOMAIN Known' <=> \E i \in Index : IsStable(i)' /\ Host(i)' = h
      BY <1>1 DEF MapTrue
    <3>2. h \in DOMAIN Known <=> \E i \in Index : IsStable(i) /\ Host(i) = h
      BY <1>1 DEF MapTrue
    <3>3. ASSUME h \in DOMAIN Known' PROVE h \in S
      <4>1. PICK i \in Index : IsStable(i)' /\ Host(i)' = h
        BY <3>1, <3>3
      <4>2. IsStable(i) /\ Host(i) = h /\ arp_table[i].ctime + 1 < ARP_MAXAGE
        BY <1>4, <4>1
      <4> QED
        BY <2>1, <4>2
    <3>4. ASSUME h \in S PROVE h \in DOMAIN Known'
      <4>1. PICK i \in Index : IsStable(i) /\ Host(i) = h
        BY <3>2, <3>4
      <4>2. arp_table[i].ctime + 1 < ARP_MAXAGE
        BY <2>1, <3>4, <4>1
      <4>3. IsStable(i)' /\ Host(i)' = h
        BY <1>4, <4>1, <4>2
      <4> QED
        BY <3>1, <4>3
    <3> QED
      BY <3>3, <3>4
  <2>4. \A h \in S : Known'[h] = K[h]
    <3> TAKE h \in S
    <3>1. PICK i \in Index : IsStable(i)' /\ Host(i)' = h
      BY <2>3, <1>1 DEF MapTrue
    <3>2. IsStable(i) /\ Host(i) = h
      BY <1>4, <3>1
    <3>3. K[h] = [mac |-> arp_table[i].ethaddr, age |-> arp_table[i].ctime + 1]
      BY <2>1, <3>2
    <3>4. Known'[h] = [mac |-> arp_table'[i].ethaddr, age |-> arp_table'[i].ctime]
      BY <2>2, <3>1
    <3> QED
      BY <1>4, <3>1, <3>3, <3>4
  <2>5. DOMAIN K = S /\ K = [h \in DOMAIN K |-> K[h]]
    OBVIOUS
  <2> HIDE DEF K, S
  <2>6. Known' = [h \in DOMAIN Known' |-> Known'[h]]
    BY <1>1 DEF MapTrue
  <2>7. Known' = K
    BY <2>3, <2>4, <2>5, <2>6, SameMap
  <2> QED
    BY <2>7 DEF K, S
<1>6. \E givenUp \in SUBSET DOMAIN Asked : Asked' = C!Less(Asked, givenUp)
  <2> DEFINE G == DOMAIN Asked \ DOMAIN Asked'
             A == C!Less(Asked, G)
  <2>1. ASSUME NEW h \in DOMAIN Asked'
        PROVE  h \in DOMAIN Asked /\ Asked'[h] = Asked[h]
    <3>1. PICK i \in Index : IsPending(i)' /\ Host(i)' = h
      BY <1>1 DEF MapTrue
    <3>2. Asked'[h] = arp_table'[i].q
      BY <3>1, <1>1 DEF MapTrue
    <3>3. IsPending(i) /\ Host(i) = h /\ arp_table'[i].q = arp_table[i].q
      BY <1>4, <3>1
    <3>4. h \in DOMAIN Asked /\ Asked[h] = arp_table[i].q
      BY <1>1, <3>3 DEF MapTrue
    <3> QED
      BY <3>2, <3>3, <3>4
  <2>2. /\ DOMAIN A = DOMAIN Asked \ G
        /\ \A h \in DOMAIN A : A[h] = Asked[h]
        /\ A = [h \in DOMAIN A |-> A[h]]
    BY DEF C!Less
  <2>3. Asked' = [h \in DOMAIN Asked' |-> Asked'[h]]
    BY <1>1 DEF MapTrue
  <2>4. \A h : h \in DOMAIN Asked' <=> h \in DOMAIN A
    BY <2>1, <2>2
  <2>5. G \in SUBSET DOMAIN Asked
    OBVIOUS
  <2> HIDE DEF A, G
  <2>6. Asked' = A
    BY <2>1, <2>2, <2>3, <2>4, SameMap
  <2> QED
    BY <2>5, <2>6 DEF A
<1>7. out' = {}
  BY DEF etharp_tmr
<1> QED
  BY <1>5, <1>6, <1>7 DEF C!Tick

Unused == \A i \in Index : arp_table[i].state = "EMPTY"

\* The cache is empty when no entry is in use.
LEMMA NothingLeft == Inv /\ Unused => Known = C!Nothing /\ Asked = C!Nothing
<1> SUFFICES ASSUME MapTrue, Unused
             PROVE  Known = C!Nothing /\ Asked = C!Nothing
  BY MapIsTrue
<1>1. \A i \in Index : ~IsStable(i) /\ ~IsPending(i)
  BY DEF Unused, IsStable, IsPending, Stable
<1>2. DOMAIN Known = {} /\ DOMAIN Asked = {}
  BY <1>1 DEF MapTrue
<1>3. DOMAIN C!Nothing = {} /\ C!Nothing = [h \in DOMAIN C!Nothing |-> C!Nothing[h]]
  BY DEF C!Nothing
<1>4. Known = [h \in DOMAIN Known |-> Known[h]] /\ Asked = [h \in DOMAIN Asked |-> Asked[h]]
  BY DEF MapTrue
<1> QED
  BY <1>2, <1>3, <1>4, SameMap

\* The interface goes down: no entry is left in use.
LEMMA CleanupEmpties ==
  ASSUME TypeOK, etharp_cleanup_netif
  PROVE  \A i \in Index : arp_table'[i].state = "EMPTY"
<1> TAKE i \in Index
<1>1. arp_table[i] \in Entry
  BY DEF TypeOK
<1>2. CASE arp_table[i].state = "EMPTY"
  BY <1>2 DEF etharp_cleanup_netif
<1>3. CASE arp_table[i].state # "EMPTY"
  <2>1. arp_table'[i] = [arp_table[i] EXCEPT !.q = NULL, !.state = "EMPTY"]
    BY <1>3 DEF etharp_cleanup_netif, etharp_free_entry
  <2> QED
    BY <1>1, <2>1 DEF Entry
<1> QED
  BY <1>2, <1>3

\* etharp_cleanup_netif empties the cache, as the abstract cache does.
LEMMA CleanupStep ==
  ASSUME Inv, Inv', etharp_cleanup_netif
  PROVE  C!Clear
<1>1. \A i \in Index : arp_table'[i].state = "EMPTY"
  BY CleanupEmpties DEF Inv, IInv
<1>2. (Known = C!Nothing /\ Asked = C!Nothing)'
  <2>1. Unused'
    BY <1>1 DEF Unused
  <2> QED
    BY <2>1, NothingLeft, PTL
<1>3. C!Nothing' = C!Nothing
  BY DEF C!Nothing
<1>4. out' = {}
  BY DEF etharp_cleanup_netif
<1> QED
  BY <1>2, <1>3, <1>4 DEF C!Clear

-----------------------------------------------------------------------------
(* HeardTrue is an invariant.                                              *)

\* heard follows the table.
LEMMA HearKeeps ==
  ASSUME IInv', NEW h, Hear(h),
         \A i \in Index : arp_table'[i].state \in Stable =>
                            arp_table'[i].ethaddr = h[arp_table'[i].ipaddr]
  PROVE  HeardTrue'
<1>1. ASSUME NEW i \in Index, arp_table'[i].state \in Stable
      PROVE  arp_table'[i].ethaddr = heard'[arp_table'[i].ipaddr]
  <2>1. arp_table'[i].state # "EMPTY" /\ arp_table'[i].ipaddr \in IPs
    BY <1>1 DEF Stable, IInv, TypeOK
  <2>2. heard'[arp_table'[i].ipaddr] = h[arp_table'[i].ipaddr]
    BY <2>1 DEF Hear
  <2> QED
    BY <1>1, <2>2
<1> QED
  BY <1>1 DEF HeardTrue

\* Nobody is heard, and no stable entry gets another host or address.
LEMMA AddressesKept ==
  ASSUME HeardTrue, IInv', Hear(heard),
         \A i \in Index : arp_table'[i].state \in Stable =>
           /\ arp_table[i].state \in Stable
           /\ arp_table'[i].ipaddr = arp_table[i].ipaddr
           /\ arp_table'[i].ethaddr = arp_table[i].ethaddr
  PROVE  HeardTrue'
<1>1. \A i \in Index : arp_table'[i].state \in Stable =>
                         arp_table'[i].ethaddr = heard[arp_table'[i].ipaddr]
  BY DEF HeardTrue
<1> QED
  BY <1>1, HearKeeps

\* A host announces its address.
LEMMA InputHeard ==
  ASSUME Inv, IInv', Input
  PROVE  HeardTrue'
<1>1. IInv /\ TypeOK /\ HeardTrue
  BY DEF Inv, IInv
<1>2. PICK s \in IPs \union {NoIP}, m \in MACs, u \in BOOLEAN :
        /\ etharp_input(s, m, u)
        /\ Hear([ip \in IPs |-> IF ip = s THEN m ELSE heard[ip]])
  BY DEF Input
<1> DEFINE h == [ip \in IPs |-> IF ip = s THEN m ELSE heard[ip]]
<1>3. \A i \in Index : arp_table[i].state \in Stable =>
        /\ arp_table[i].ipaddr \in IPs
        /\ arp_table[i].ipaddr # s => arp_table[i].ethaddr = h[arp_table[i].ipaddr]
  BY <1>1 DEF HeardTrue, TypeOK, Stable
<1>4. CASE s # NoIP /\ (u \/ Match(s) # {})
  <2> DEFINE f == Find(s)
             e == Resolved(Found(s), m)
  <2>1. s \in IPs /\ etharp_update_arp_entry(s, m)
    BY <1>2, <1>4 DEF etharp_input
  <2>2. /\ f \in Index /\ Found(s) \in Entry /\ Found(s).ipaddr = s
        /\ \A j \in Index : arp_table[j].state # "EMPTY" /\ arp_table[j].ipaddr = s
                              => j = f
    BY <1>1, <2>1, FindIn
  <2>3. e.ipaddr = s /\ e.ethaddr = m
    BY <2>2 DEF Resolved, Entry
  <2>4. /\ arp_table'[f] = e
        /\ \A j \in Index \ {f} : arp_table'[j] = arp_table[j]
    BY <1>1, <2>1, <2>2 DEF etharp_update_arp_entry, TypeOK
  <2>5. h[s] = m
    BY <2>1
  <2> HIDE DEF f, e, h
  <2>6. ASSUME NEW i \in Index, arp_table'[i].state \in Stable
        PROVE  arp_table'[i].ethaddr = h[arp_table'[i].ipaddr]
    <3>1. CASE i = f
      BY <2>3, <2>4, <2>5, <3>1
    <3>2. CASE i # f
      <4>1. arp_table'[i] = arp_table[i] /\ arp_table[i].state # "EMPTY"
        BY <2>4, <2>6, <3>2 DEF Stable
      <4>2. arp_table[i].ipaddr # s
        BY <2>2, <3>2, <4>1
      <4> QED
        BY <1>3, <2>6, <4>1, <4>2
    <3> QED
      BY <3>1, <3>2
  <2> QED
    BY <1>2, <2>6, HearKeeps DEF h
<1>5. CASE ~(s # NoIP /\ (u \/ Match(s) # {}))
  <2>1. UNCHANGED arp_table
    BY <1>2, <1>5 DEF etharp_input
  <2>2. ASSUME NEW i \in Index, arp_table[i].state \in Stable
        PROVE  arp_table[i].ipaddr # s
    <3>1. arp_table[i].ipaddr \in IPs
            /\ arp_table[i].state \in States \ {"EMPTY"}
      BY <1>3, <2>2 DEF Stable, States
    <3>2. s = NoIP \/ Match(s) = {}
      BY <1>5
    <3> QED
      BY <3>1, <3>2, EtharpAssumption DEF Match, Entries
  <2> HIDE DEF h
  <2>3. \A i \in Index : arp_table'[i].state \in Stable =>
                           arp_table'[i].ethaddr = h[arp_table'[i].ipaddr]
    BY <1>3, <2>1, <2>2
  <2> QED
    BY <1>2, <2>3, HearKeeps DEF h
<1> QED
  BY <1>4, <1>5

\* A packet is sent, or left with an entry.
LEMMA LocalHeard ==
  ASSUME Inv, IInv', NEW ip \in IPs, NEW q \in Packets, OutputLocal(ip, q),
         Hear(heard)
  PROVE  HeardTrue'
<1>1. IInv /\ TypeOK /\ HeardTrue
  BY DEF Inv, IInv
<1>2. CASE StableEntry(ip) # {}
  <2>1. \A j \in Index : /\ IsStable(j)' <=> IsStable(j)
                         /\ arp_table'[j].ipaddr = arp_table[j].ipaddr
                         /\ arp_table'[j].ethaddr = arp_table[j].ethaddr
    BY <1>1, <1>2, OutputShows
  <2> QED
    BY <1>1, <2>1, AddressesKept DEF IsStable
<1>3. CASE StableEntry(ip) = {}
  <2> DEFINE f == Find(ip)
             e == [Found(ip) EXCEPT !.state = "PENDING"]
  <2>1. f \in Index /\ Found(ip) \in Entry
    BY <1>1, FindIn
  <2>2. e \in Entry /\ e.state = "PENDING" /\ Queued(e, q).state = "PENDING"
    BY <2>1 DEF Entry, States, Queued
  <2> HIDE DEF f, e
  <2>3. \/ arp_table' = [arp_table EXCEPT ![f] = Queued(e, q)]
        \/ arp_table' = [arp_table EXCEPT ![f] = e]
    BY <1>3 DEF OutputLocal, etharp_query, Queue, e, f
  <2>4. /\ arp_table'[f].state = "PENDING"
        /\ \A j \in Index \ {f} : arp_table'[j] = arp_table[j]
    BY <1>1, <2>1, <2>2, <2>3 DEF TypeOK
  <2> QED
    BY <1>1, <2>4, AddressesKept DEF Stable
<1> QED
  BY <1>2, <1>3

\* Time passes.
LEMMA TimerHeard ==
  ASSUME Inv, IInv', etharp_tmr, Hear(heard)
  PROVE  HeardTrue'
<1>1. ASSUME NEW i \in Index, arp_table'[i].state \in Stable
      PROVE  /\ arp_table[i].state \in Stable
             /\ arp_table'[i].ipaddr = arp_table[i].ipaddr
             /\ arp_table'[i].ethaddr = arp_table[i].ethaddr
  <2> DEFINE e == arp_table[i]
  <2>1. /\ e \in Entry
        /\ e.q # NULL => e.state = "PENDING"
        /\ e.state # "EMPTY" => e.ctime < ARP_MAXAGE
    BY DEF Inv, IInv, TypeOK, PacketsHeld, InTime
  <2>2. arp_table'[i] = Aged(e)
    BY DEF etharp_tmr
  <2>3. Aged(e).ipaddr = e.ipaddr /\ e.state # "EMPTY"
    BY <1>1, <2>1, <2>2, AgedEntry DEF Stable
  <2>4. /\ e.state = "PENDING" => Aged(e).state \in {"PENDING", "EMPTY"}
        /\ Aged(e).ethaddr = e.ethaddr
    BY <1>1, <2>1, <2>2, <2>3, AgedShows DEF Stable
  <2>5. e.state \in Stable
    BY <1>1, <2>1, <2>2, <2>3, <2>4 DEF Entry, States, Stable
  <2> QED
    BY <2>2, <2>3, <2>4, <2>5
<1> QED
  BY <1>1, AddressesKept DEF Inv

\* The interface goes down.
LEMMA CleanupHeard ==
  ASSUME Inv, IInv', etharp_cleanup_netif, Hear(heard)
  PROVE  HeardTrue'
<1>1. \A i \in Index : arp_table'[i].state = "EMPTY"
  BY CleanupEmpties DEF Inv, IInv
<1> QED
  BY <1>1, AddressesKept DEF Inv, Stable

\* A packet to send is one that is not in use.
LEMMA FreePacket ==
  ASSUME Free # {}
  PROVE  Lowest(Free) \in Packets
<1>1. Free \subseteq Nat
  BY EtharpAssumption DEF Free
<1>2. \E x \in Free : \A y \in Free : x <= y
  BY <1>1, Least
<1>3. Lowest(Free) \in Free
  BY <1>2 DEF Lowest
<1> QED
  BY <1>3 DEF Free

\* A packet for the gateway is one for a host of the local network.
LEMMA Outputs ==
  ASSUME Output
  PROVE  \E q \in Packets :
           \/ \E ip \in IPs : OutputLocal(ip, q)
           \/ OutputGroup(q)
           \/ out' = {} /\ UNCHANGED arp_table
<1> DEFINE q == Lowest(Free)
<1>1. q \in Packets
  BY FreePacket DEF Output
<1>2. (\E ip \in IPs : OutputLocal(ip, q)) \/ OutputGroup(q) \/ OutputRemote(q)
  BY DEF Output
<1> HIDE DEF q
<1>3. OutputRemote(q) => \/ \E ip \in IPs : OutputLocal(ip, q)
                         \/ out' = {} /\ UNCHANGED arp_table
  BY EtharpAssumption DEF OutputRemote
<1> QED
  BY <1>1, <1>2, <1>3

\* Every step keeps the invariant.
LEMMA HeardKept ==
  ASSUME Inv, Next
  PROVE  Inv'
<1>1. IInv'
  BY StepKeeps DEF Inv
<1>2. CASE Input
  BY <1>1, <1>2, InputHeard DEF Inv
<1>3. CASE Output /\ Hear(heard)
  <2>1. PICK q \in Packets : \/ \E ip \in IPs : OutputLocal(ip, q)
                             \/ OutputGroup(q)
                             \/ out' = {} /\ UNCHANGED arp_table
    BY <1>3, Outputs
  <2>2. CASE \E ip \in IPs : OutputLocal(ip, q)
    BY <1>1, <1>3, <2>2, LocalHeard DEF Inv
  <2>3. CASE UNCHANGED arp_table
    BY <1>1, <1>3, <2>3, AddressesKept DEF Inv
  <2> QED
    BY <2>1, <2>2, <2>3 DEF OutputGroup
<1>4. CASE etharp_cleanup_netif /\ Hear(heard)
  BY <1>1, <1>4, CleanupHeard DEF Inv
<1>5. CASE Timer
  BY <1>1, <1>5, TimerHeard DEF Inv, Timer
<1> QED
  BY <1>2, <1>3, <1>4, <1>5 DEF Next

\* A stable entry has the address that its host announced last, in every
\* state that is reached: an update is never lost or given to another host
\* (etharp_update_arp_entry, etharp.c:421-502).
THEOREM AddressesTrue == Spec => []Inv
<1>1. Init => HeardTrue
  BY DEF Init, HeardTrue, Stable
<1>2. IInv /\ HeardTrue /\ [Next]_vars => HeardTrue'
  <2> SUFFICES ASSUME Inv, [Next]_vars PROVE HeardTrue'
    BY DEF Inv
  <2>1. CASE Next
    BY <2>1, HeardKept DEF Inv
  <2>2. CASE UNCHANGED vars
    BY <2>2 DEF vars, Inv, HeardTrue
  <2> QED
    BY <2>1, <2>2
<1>3. IInv /\ HeardTrue => Inv
  BY DEF Inv
<1> QED
  BY <1>1, <1>2, <1>3, Invariance, PTL DEF Spec

-----------------------------------------------------------------------------
(* The refinement.                                                         *)

\* Every step of the table is one of the cache.
LEMMA CacheStep ==
  ASSUME Inv, Inv', Next
  PROVE  C!Next
<1>1. UNCHANGED arp_table => UNCHANGED <<Known, Asked>>
  BY SameCache DEF IsStable, IsPending
<1>2. CASE Input
  <2>1. PICK s \in IPs \union {NoIP}, m \in MACs, u \in BOOLEAN :
          etharp_input(s, m, u)
    BY <1>2 DEF Input
  <2>2. CASE s # NoIP /\ (u \/ Match(s) # {})
    <3>1. s \in IPs /\ etharp_update_arp_entry(s, m)
      BY <2>1, <2>2 DEF etharp_input
    <3> QED
      BY <3>1, UpdateStep DEF C!Next
  <2>3. CASE ~(s # NoIP /\ (u \/ Match(s) # {}))
    <3>1. out' = {} /\ UNCHANGED arp_table
      BY <2>1, <2>3 DEF etharp_input
    <3> QED
      BY <1>1, <3>1 DEF C!Next, C!Ignore
  <2> QED
    BY <2>2, <2>3
<1>3. CASE Output
  <2>1. PICK q \in Packets : \/ \E ip \in IPs : OutputLocal(ip, q)
                             \/ OutputGroup(q)
                             \/ out' = {} /\ UNCHANGED arp_table
    BY <1>3, Outputs
  <2>2. ASSUME NEW ip \in IPs, OutputLocal(ip, q) PROVE C!Next
    <3>1. CASE StableEntry(ip) # {}
      BY <2>2, <3>1, SendStep DEF C!Next
    <3>2. CASE StableEntry(ip) = {}
      <4>1. etharp_query(ip, q)
        BY <2>2, <3>2 DEF OutputLocal
      <4> QED
        BY <3>2, <4>1, QueryStep DEF C!Next
    <3> QED
      BY <3>1, <3>2
  <2>3. CASE OutputGroup(q)
    BY <1>1, <2>3 DEF OutputGroup, Frame, C!Frame, C!Group, C!Next
  <2>4. CASE out' = {} /\ UNCHANGED arp_table
    BY <1>1, <2>4 DEF C!Ignore, C!Next
  <2> QED
    BY <2>1, <2>2, <2>3, <2>4
<1>4. CASE etharp_cleanup_netif
  BY <1>4, CleanupStep DEF C!Next
<1>5. CASE Timer
  BY <1>5, TimerStep DEF C!Next, Timer
<1> QED
  BY <1>2, <1>3, <1>4, <1>5 DEF Next

\* The table implements the cache: whatever is recycled, cached, refreshed,
\* expired or refused, a packet leaves only for the address that its next hop
\* announced last and in time, and a host makes room for another only when
\* the table is full, the right one first (etharp.c:189-1147).
THEOREM ImplementsCache == Spec => CacheSpec
<1>1. Init => C!Init
  <2> SUFFICES ASSUME Init PROVE C!Init
    OBVIOUS
  <2>1. Entries(Stable) = {} /\ Entries({"PENDING"}) = {}
    BY DEF Init, Entries, Stable
  <2>2. HostsOf(Stable) = {} /\ HostsOf({"PENDING"}) = {}
    BY <2>1 DEF HostsOf
  <2>3. Known = C!Nothing
    BY <2>2 DEF Known, C!Nothing
  <2>4. Asked = C!Nothing
    BY <2>2 DEF Asked, C!Nothing
  <2> QED
    BY <2>3, <2>4 DEF Init, C!Init
<1>2. Inv /\ Inv' /\ [Next]_vars => [C!Next]_(C!vars)
  <2> SUFFICES ASSUME Inv, Inv', [Next]_vars PROVE [C!Next]_(C!vars)
    OBVIOUS
  <2>1. CASE Next
    BY <2>1, CacheStep
  <2>2. CASE UNCHANGED vars
    <3>1. UNCHANGED <<Known, Asked>>
      BY <2>2, SameCache DEF vars, IsStable, IsPending
    <3> QED
      BY <2>2, <3>1 DEF vars, C!vars
  <2> QED
    BY <2>1, <2>2
<1> QED
  BY <1>1, <1>2, AddressesTrue, PTL DEF Spec, CacheSpec, C!Spec
=============================================================================
