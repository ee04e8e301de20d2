------------------------------- MODULE Etharp -------------------------------
(***************************************************************************)
(* Address resolution (etharp.c) as it is configured: one packet waits per *)
(* entry, no static entries, one interface.  NO_SYS: a call is one step.   *)
(*                                                                         *)
(* An empty entry keeps what it last held, as in the code.                 *)
(***************************************************************************)
EXTENDS Integers, FiniteSets

CONSTANTS ARP_TABLE_SIZE, ARP_MAXAGE, ARP_MAXPENDING,
          ARP_AGE_REREQUEST_USED_UNICAST,
          IPs,        \* unicast addresses of the local network
          MACs,
          Packets,    \* pbufs
          Gateway,    \* netif's gateway, or NoIP
          NoIP,       \* stands for every address that no host can have
          NoMAC, NULL,
          Broadcast   \* an Ethernet address of many

ASSUME EtharpAssumption ==
  /\ ARP_TABLE_SIZE \in Nat \ {0}
  /\ ARP_MAXAGE \in Nat /\ ARP_MAXPENDING \in 1..ARP_MAXAGE
  /\ ARP_AGE_REREQUEST_USED_UNICAST \in 2..ARP_MAXAGE
  /\ Gateway \in IPs \union {NoIP} /\ NoIP \notin IPs
  /\ Packets \subseteq Nat /\ NULL \notin Packets
  /\ NoMAC \notin MACs /\ Broadcast \notin MACs

VARIABLES arp_table,
          etharp_cached_entry,
          refs,    \* references to each packet, 0 for one not in use
          out,     \* the IP packet given to ethernet_output in this step
          quiet,   \* history: ticks, up to 2, since the host of an entry in
                   \* use was asked again
          heard    \* history: the MAC that each host in the table announced
                   \* last

vars == <<arp_table, etharp_cached_entry, refs, out, quiet, heard>>

Index  == 0..ARP_TABLE_SIZE - 1
Stable == {"STABLE", "REREQUESTING_1", "REREQUESTING_2"}
States == {"EMPTY", "PENDING"} \union Stable

Entries(S) == {i \in Index : arp_table[i].state \in S}

Lowest(S) == CHOOSE i \in S : \A j \in S : i <= j

\* A packet for ip that leaves for an Ethernet address.
Frame(p, ip, to) == [packet |-> p, host |-> ip, to |-> to]

\* Variant: a packet that is dropped keeps its reference.
Freed_Never(qs) == refs

\* pbuf_free of those of qs that are packets.
Freed(qs) == [p \in Packets |-> IF p \in qs THEN refs[p] - 1 ELSE refs[p]]

-----------------------------------------------------------------------------
(* etharp_find_entry and what it is made of.                               *)

\* Variant: a matching entry is taken only if it is stable.
Match_Stable(ip) == {i \in Entries(Stable) : arp_table[i].ipaddr = ip}

Match(ip) == {i \in Entries(States \ {"EMPTY"}) : arp_table[i].ipaddr = ip}

\* The last of the oldest.
Oldest(S) ==
  CHOOSE i \in S : \A j \in S :
    \/ arp_table[j].ctime < arp_table[i].ctime
    \/ arp_table[j].ctime = arp_table[i].ctime /\ j <= i

Waiting == {i \in Entries({"PENDING"}) : arp_table[i].q # NULL}

\* The entry for a new address: an empty one, the oldest stable one, the
\* oldest that waits without a packet, the oldest with one.
Victim ==
  IF Entries({"EMPTY"}) # {} THEN Lowest(Entries({"EMPTY"}))
  ELSE IF Entries(Stable) # {} THEN Oldest(Entries(Stable))
  ELSE IF Entries({"PENDING"}) \ Waiting # {}
       THEN Oldest(Entries({"PENDING"}) \ Waiting)
       ELSE Oldest(Waiting)

etharp_free_entry(e) == [e EXCEPT !.q = NULL, !.state = "EMPTY"]

\* The index that etharp_find_entry returns when it may try hard, what it
\* leaves in this entry, and the packets it frees.
Find(ip) == IF Match(ip) # {} THEN Lowest(Match(ip)) ELSE Victim

Found(ip) ==
  LET e == arp_table[Find(ip)]
  IN  IF Match(ip) # {} THEN e
      ELSE [etharp_free_entry(e) EXCEPT !.ipaddr = ip, !.ctime = 0]

\* A new host has not been asked again.
NewQuiet(ip) == IF Match(ip) # {} THEN quiet ELSE [quiet EXCEPT ![Find(ip)] = 2]

Dropped(ip) == IF Match(ip) # {} THEN {} ELSE {arp_table[Victim].q}

-----------------------------------------------------------------------------
(* Input.                                                                  *)

Resolved(e, mac) ==
  [e EXCEPT !.state = "STABLE", !.ctime = 0, !.q = NULL, !.ethaddr = mac]

\* An address pair is entered; a packet that waits for it is sent, freed.
etharp_update_arp_entry(ip, mac) ==
  LET q == Found(ip).q
  IN  /\ arp_table' = [arp_table EXCEPT ![Find(ip)] = Resolved(Found(ip), mac)]
      /\ refs' = Freed(Dropped(ip) \union {q})
      /\ out' = IF q = NULL THEN {} ELSE {Frame(q, ip, mac)}
      /\ quiet' = NewQuiet(ip)

\* An ARP message: its sender is entered if it is for us, and brought up to
\* date if it is in the table.  That a request for us is answered changes
\* nothing here.
etharp_input(sipaddr, shwaddr, for_us) ==
  /\ IF sipaddr # NoIP /\ (for_us \/ Match(sipaddr) # {})
     THEN etharp_update_arp_entry(sipaddr, shwaddr)
     ELSE out' = {} /\ UNCHANGED <<arp_table, refs, quiet>>
  /\ UNCHANGED etharp_cached_entry

-----------------------------------------------------------------------------
(* Output.  The caller allocated q and frees it after the call.            *)

\* Variant: the index is trusted as it is.
Cached_Any(ip) ==
  arp_table[etharp_cached_entry].state \in Stable

\* The entry used last is the one needed.
Cached(ip) ==
  /\ arp_table[etharp_cached_entry].state \in Stable
  /\ arp_table[etharp_cached_entry].ipaddr = ip

StableEntry(ip) ==
  IF Cached(ip) THEN {etharp_cached_entry}
  ELSE {i \in Entries(Stable) : arp_table[i].ipaddr = ip}

\* An entry in use is about to expire: its host is asked again, at first
\* with a unicast, then with a broadcast.
RequestDue(e) == e.state = "STABLE" /\ e.ctime >= ARP_AGE_REREQUEST_USED_UNICAST

\* Variant: the state does not tell that a request was sent.
Rerequested_Forget(e) == e

Rerequested(e) == [e EXCEPT !.state = "REREQUESTING_1"]

\* There may be no memory for the request.
etharp_output_to_arp_index(ip, q, i) ==
  /\ out' = {Frame(q, ip, arp_table[i].ethaddr)}
  /\ \/ /\ RequestDue(arp_table[i])
        /\ arp_table' = [arp_table EXCEPT ![i] = Rerequested(@)]
        /\ quiet' = [quiet EXCEPT ![i] = 0]
     \/ UNCHANGED <<arp_table, quiet>>

\* Variant: the entry stays pending from now.
Queued_Anew(e, q) == [e EXCEPT !.q = q, !.ctime = 0]

Queued(e, q) == [e EXCEPT !.q = q]

\* A packet is left with a pending entry, the packet before it is freed; or
\* it needs to be copied and there is no memory for that.
Queue(i, e, q, dropped) ==
  \/ /\ arp_table' = [arp_table EXCEPT ![i] = Queued(e, q)]
     /\ refs' = [Freed(dropped \union {e.q}) EXCEPT ![q] = 1]
  \/ /\ arp_table' = [arp_table EXCEPT ![i] = e]
     /\ refs' = Freed(dropped)

\* Called from etharp_output only, so with a packet and no stable entry.  A
\* new entry also sends a request; if that fails, the timer sends one.
etharp_query(ip, q) ==
  /\ Queue(Find(ip), [Found(ip) EXCEPT !.state = "PENDING"], q, Dropped(ip))
  /\ out' = {}
  /\ quiet' = NewQuiet(ip)
  /\ UNCHANGED etharp_cached_entry

\* A packet for a host of the local network.
OutputLocal(ip, q) ==
  IF StableEntry(ip) # {}
  THEN /\ etharp_cached_entry' = Lowest(StableEntry(ip))
       /\ etharp_output_to_arp_index(ip, q, Lowest(StableEntry(ip)))
       /\ UNCHANGED refs
  ELSE etharp_query(ip, q)

\* A packet for all hosts or for many; sent at once.
OutputGroup(q) ==
  /\ out' = {Frame(q, NoIP, Broadcast)}
  /\ UNCHANGED <<arp_table, etharp_cached_entry, refs, quiet>>

\* A packet for a host elsewhere: through the gateway, if there is one.
OutputRemote(q) ==
  IF Gateway # NoIP THEN OutputLocal(Gateway, q)
  ELSE /\ out' = {}
       /\ UNCHANGED <<arp_table, etharp_cached_entry, refs, quiet>>

-----------------------------------------------------------------------------
(* The timer, and an interface that goes down.                             *)

Expired(e) ==
  \/ e.ctime >= ARP_MAXAGE
  \/ e.state = "PENDING" /\ e.ctime >= ARP_MAXPENDING

Aged(e) ==
  LET older == [e EXCEPT !.ctime = @ + 1]
  IN  CASE e.state = "EMPTY"    -> e
        [] e.state # "EMPTY" /\ Expired(older) -> etharp_free_entry(older)
        [] e.state = "REREQUESTING_1" /\ ~Expired(older) ->
             [older EXCEPT !.state = "REREQUESTING_2"]
        [] e.state = "REREQUESTING_2" /\ ~Expired(older) ->
             [older EXCEPT !.state = "STABLE"]
        [] e.state \in {"PENDING", "STABLE"} /\ ~Expired(older) -> older

\* An entry that stays pending is asked for again.
etharp_tmr ==
  /\ arp_table' = [i \in Index |-> Aged(arp_table[i])]
  /\ refs' = Freed({arp_table[i].q : i \in {j \in Entries({"PENDING"}) :
                      Aged(arp_table[j]).state = "EMPTY"}})
  /\ out' = {}
  /\ quiet' = [i \in Index |-> IF Aged(arp_table[i]).state \in Stable /\ quiet[i] < 2
                             THEN quiet[i] + 1 ELSE 2]
  /\ UNCHANGED etharp_cached_entry

etharp_cleanup_netif ==
  /\ arp_table' = [i \in Index |->
                     IF arp_table[i].state = "EMPTY" THEN arp_table[i]
                     ELSE etharp_free_entry(arp_table[i])]
  /\ refs' = Freed({arp_table[i].q : i \in Index})
  /\ out' = {}
  /\ quiet' = [i \in Index |-> 2]
  /\ UNCHANGED etharp_cached_entry

-----------------------------------------------------------------------------
Init ==
  /\ arp_table = [i \in Index |-> [state |-> "EMPTY", ipaddr |-> NoIP,
                                   ethaddr |-> NoMAC, ctime |-> 0, q |-> NULL]]
  /\ etharp_cached_entry = 0
  /\ refs = [p \in Packets |-> 0]
  /\ out = {}
  /\ quiet = [i \in Index |-> 2]
  /\ heard = [ip \in IPs |-> NoMAC]

Free == {p \in Packets : refs[p] = 0}

\* heard, after an announcement or none.
Hear(h) ==
  heard' = [ip \in IPs |->
    IF \E i \in Index : arp_table'[i].state # "EMPTY" /\ arp_table'[i].ipaddr = ip
    THEN h[ip] ELSE NoMAC]

Input == \E sipaddr \in IPs \union {NoIP}, shwaddr \in MACs, for_us \in BOOLEAN :
           /\ etharp_input(sipaddr, shwaddr, for_us)
           /\ Hear([ip \in IPs |-> IF ip = sipaddr THEN shwaddr ELSE heard[ip]])

\* A packet to send is any that is not in use; the first stands for all.
Output == /\ Free # {}
          /\ LET q == Lowest(Free)
             IN  \/ \E ip \in IPs : OutputLocal(ip, q)
                 \/ OutputGroup(q)
                 \/ OutputRemote(q)

Timer == etharp_tmr /\ Hear(heard)

Next == \/ Input
        \/ (Output \/ etharp_cleanup_netif) /\ Hear(heard)
        \/ Timer

Spec == Init /\ [][Next]_vars /\ WF_vars(Timer)

-----------------------------------------------------------------------------
(* Properties.                                                             *)

Entry == [state : States, ipaddr : IPs \union {NoIP},
          ethaddr : MACs \union {NoMAC}, ctime : 0..ARP_MAXAGE,
          q : Packets \union {NULL}]

\* Types; an entry that is in use names a host.
TypeOK ==
  /\ arp_table \in [Index -> Entry]
  /\ \A i \in Index : arp_table[i].state # "EMPTY" =>
                        arp_table[i].ipaddr \in IPs
  /\ etharp_cached_entry \in Index
  /\ refs \in [Packets -> 0..1]
  /\ quiet \in [Index -> 0..2]
  /\ heard \in [IPs -> MACs \union {NoMAC}]

\* No host has two entries (etharp.c:255-402 searches all of them before it
\* makes a new one): one of the two would be left out of date.
OneEntryPerHost ==
  \A i, j \in Entries(States \ {"EMPTY"}) :
    arp_table[i].ipaddr = arp_table[j].ipaddr => i = j

\* Every reference that the table took is given back exactly once (etharp.c:
\* 177, 489, 1079): a packet is in use just while one entry has it, and only
\* a pending entry does (the assertion of line 366).
PacketsAccounted ==
  /\ \A p \in Packets :
       refs[p] = Cardinality({i \in Index : arp_table[i].q = p})
  /\ \A i \in Index : arp_table[i].q # NULL => arp_table[i].state = "PENDING"

\* Requests to keep an entry in use do not flood the network (etharp.c:221,
\* 753-756): an entry that would be asked for again has not been for two
\* ticks, also if it was announced in between.
RerequestsPaced ==
  \A i \in Index :
    RequestDue(arp_table[i]) => quiet[i] = 2

HostsOf(S)    == {arp_table[i].ipaddr : i \in Entries(S)}
EntryOf(h, S) == arp_table[CHOOSE i \in Entries(S) : arp_table[i].ipaddr = h]

Known == [h \in HostsOf(Stable) |->
            [mac |-> heard[h], age |-> EntryOf(h, Stable).ctime]]
Asked == [h \in HostsOf({"PENDING"}) |-> EntryOf(h, {"PENDING"}).q]

\* Packets leave only for the address that the host announced last, and in
\* time, and hosts are forgotten only when they should be: module ArpCache,
\* which knows nothing of indices, recycling and the cached entry
\* (etharp.c:255-402, 854-893).
C == INSTANCE ArpCache WITH
  Capacity <- ARP_TABLE_SIZE, MaxAge <- ARP_MAXAGE, Hosts <- IPs,
  Addresses <- MACs, NoPacket <- NULL, Everyone <- Broadcast, sent <- out,
  Nobody <- NoIP, known <- Known, asked <- Asked
CacheSpec == C!Spec

\* No host stays pending for ever, so its packet is sent or freed in the end
\* (etharp.c:212-214).
PendingEnds ==
  \A ip \in IPs : ip \in HostsOf({"PENDING"}) ~> ip \notin HostsOf({"PENDING"})
=============================================================================
