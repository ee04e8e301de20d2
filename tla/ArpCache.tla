------------------------------ MODULE ArpCache ------------------------------
(***************************************************************************)
(* What an ARP cache promises its users: an IP packet leaves only for the  *)
(* hardware address that its next hop announced last, and not longer than  *)
(* MaxAge ticks ago; a packet for a host not yet known waits, one for each *)
(* host, and leaves when the host announces itself; and a host in the      *)
(* cache makes room for another only if the cache is full, the one heard   *)
(* of longest ago first, those with packets waiting last.                  *)
(***************************************************************************)
EXTENDS Integers, FiniteSets

CONSTANTS Capacity, MaxAge, Hosts, Addresses, Packets,
          Nobody,     \* in place of a host
          NoPacket,   \* in place of a packet
          Everyone    \* in place of an address: all of them

VARIABLES known,   \* host -> the address it announced last, and its age
          asked,   \* host that was asked for -> the packet that waits for it
          sent     \* the packet that left in the last step, if any

vars == <<known, asked, sent>>

\* A packet for a host, and the address for which it leaves.
Frame(p, h, to) == [packet |-> p, host |-> h, to |-> to]

Nothing       == [h \in {} |-> NoPacket]
Less(f, S)    == [h \in DOMAIN f \ S |-> f[h]]
Plus(f, h, v) == [g \in DOMAIN f \union {h} |-> IF g = h THEN v ELSE f[g]]

Held == DOMAIN known \union DOMAIN asked

\* The hosts of which one is forgotten to make room.
Expendable ==
  LET idle == {h \in DOMAIN asked : asked[h] = NoPacket}
  IN  IF DOMAIN known # {}
      THEN {h \in DOMAIN known :
              \A g \in DOMAIN known : known[g].age <= known[h].age}
      ELSE IF idle # {} THEN idle ELSE DOMAIN asked

\* Who may be lost when h enters the cache.
Lost(h) == IF h \in Held \/ Cardinality(Held) < Capacity
           THEN {{}} ELSE {{g} : g \in Expendable}

Init == known = Nothing /\ asked = Nothing /\ sent = {}

\* A packet for a host that is known.
Send(h) ==
  /\ \E p \in Packets : sent' = {Frame(p, h, known[h].mac)}
  /\ UNCHANGED <<known, asked>>

\* A packet for a host that is not known, which is asked.  The packet takes
\* the place of one that waits, or is refused.
Wait(h) ==
  /\ sent' = {}
  /\ h \notin DOMAIN known
  /\ \E lost \in Lost(h),
        q \in Packets \union
               {IF h \in DOMAIN asked THEN asked[h] ELSE NoPacket} :
       /\ asked' = Plus(Less(asked, lost), h, q)
       /\ known' = Less(known, lost)

\* A host announces its address; what waits for it leaves.
Announce(h, mac) ==
  /\ sent' = IF h \in DOMAIN asked /\ asked[h] # NoPacket
             THEN {Frame(asked[h], h, mac)} ELSE {}
  /\ \E lost \in Lost(h) :
       /\ known' = Plus(Less(known, lost), h, [mac |-> mac, age |-> 0])
       /\ asked' = Less(asked, lost \union {h})

\* A host announces its address, but it is not in the cache, and nobody
\* here wants to talk to it; or a packet has no route.
Ignore == sent' = {} /\ UNCHANGED <<known, asked>>

\* A packet that needs no address of a host.
Group ==
  /\ \E p \in Packets : sent' = {Frame(p, Nobody, Everyone)}
  /\ UNCHANGED <<known, asked>>

\* Every address gets older.  Some of the hosts asked for are given up.
Tick ==
  /\ sent' = {}
  /\ known' = [h \in {g \in DOMAIN known : known[g].age + 1 < MaxAge} |->
                 [known[h] EXCEPT !.age = @ + 1]]
  /\ \E givenUp \in SUBSET DOMAIN asked : asked' = Less(asked, givenUp)

Clear == sent' = {} /\ known' = Nothing /\ asked' = Nothing

Next ==
  \/ Ignore \/ Group \/ Clear \/ Tick
  \/ \E h \in DOMAIN known : Send(h)
  \/ \E h \in Hosts : Wait(h)
  \/ \E h \in Hosts, mac \in Addresses : Announce(h, mac)

Spec == Init /\ [][Next]_vars
=============================================================================
