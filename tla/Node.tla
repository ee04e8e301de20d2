-------------------------------- MODULE Node --------------------------------
(***************************************************************************)
(* The node as a whole: main's loop, ethernet_input, IPv4 and ICMP, over   *)
(* the ARP table of module Etharp, the reassembly of module Reass and one  *)
(* pool of pbufs that they all share.                                      *)
(*                                                                         *)
(* NO_SYS: a frame is handled to its end before a timer or another frame.  *)
(* A handler begins with a step of its own; every ICMP message that it     *)
(* sends is a further step, and nothing else happens before the last one.  *)
(***************************************************************************)
EXTENDS Integers, Sequences, FiniteSets, Functions, Chksum

CONSTANTS Pool, Ram,        \* pbufs of the pool, pbufs in the heap
          BUFSIZE,          \* bytes of a packet that a pbuf of the pool holds
          Us,               \* our address
          GroupIPs,         \* broadcast and multicast addresses
          Hosts, Mac,       \* hosts of the local network, and their MACs
          ArpMessages, Arriving,   \* what may arrive, in one piece
          Datagrams, MessageOf, DataLen, UNIT, LinkSizes,  \* in fragments
          IP_REASS_MAX_PBUFS, MEMP_NUM_REASSDATA, IP_REASS_MAXAGE,
          ARP_TABLE_SIZE, ARP_MAXAGE, ARP_MAXPENDING,
          ARP_AGE_REREQUEST_USED_UNICAST,
          Gateway, NoIP, NoMAC, NULL, Broadcast,
          ICMP_ECHO, ICMP_ER, ICMP_DUR, ICMP_TE,
          ICMP_DEST_UNREACH_DATASIZE   \* bytes of a packet that an error quotes

Least(m, n) == IF m < n THEN m ELSE n

ASSUME NodeAssumption ==
  /\ Pool \union Ram \subseteq Nat /\ Pool \intersect Ram = {} /\ Pool # {}
  /\ IsFiniteSet(Pool)
  /\ Us \notin Hosts \union GroupIPs /\ Hosts \intersect GroupIPs = {}
  /\ Mac = [h \in Hosts |-> Mac[h]]
  /\ \A f \in Arriving \union {MessageOf[d] : d \in Datagrams} :
       f.bytes \in Seq(0..BASE - 1) /\ Len(f.bytes) < WORD
  /\ \A m \in ArpMessages : /\ m.src \in Hosts \union {NoIP}
                            /\ m.mac \in {Mac[h] : h \in Hosts}
                            /\ m.src \in Hosts => m.mac = Mac[m.src]
  /\ BUFSIZE \in Nat \ {0} /\ \A s \in LinkSizes : s <= BUFSIZE
  /\ \A d \in Datagrams : Len(MessageOf[d].bytes) = DataLen
  /\ ICMP_DEST_UNREACH_DATASIZE \in 0..Least(UNIT, BUFSIZE)
  /\ ICMP_DEST_UNREACH_DATASIZE + 4 < WORD
  /\ ICMP_ER = 0 /\ {ICMP_ECHO, ICMP_DUR, ICMP_TE} \subseteq 1..BASE - 1

VARIABLES arp_table, etharp_cached_entry, refs, sent, quiet,      \* of Etharp
          reassdatagrams, ip_reass_pbufcount, busy, datagram,     \* of Reass
          refused, exceeded,
          content,   \* what is in each pbuf that is in use
          reply,     \* the pbufs of the reply that is to be sent
          errors,    \* the ICMP errors that are to be sent
          wire       \* IP packets that left in this step, and for which MAC

arpVars   == <<arp_table, etharp_cached_entry, refs, sent, quiet>>
reassVars == <<reassdatagrams, ip_reass_pbufcount, busy, datagram, refused,
               exceeded>>
vars == <<arpVars, reassVars, content, reply, errors, wire>>

Pbufs == Pool \union Ram

A == INSTANCE Etharp WITH
       IPs <- Hosts, MACs <- {Mac[h] : h \in Hosts}, Packets <- Pbufs,
       out <- sent, heard <- Mac

R == INSTANCE Reass WITH
       WithOptions <- {}, FragPbufs <- Pool, Chained <- {}, out <- datagram

\* What the ARP table and the reassembly assume of their constants.
ASSUME PartsAssumption == A!EtharpAssumption /\ R!ReassAssumption

-----------------------------------------------------------------------------
(* Pbufs.  A pbuf that is in use has a part of a packet; the first of a    *)
(* chain knows the addresses and those behind it.                          *)

Nothing == [src |-> NoIP, dst |-> NoIP, proto |-> "", bytes |-> <<>>, next |-> <<>>]

\* Variant: of a packet that waits for ARP, only the first pbuf is kept.
InUse_First == {p \in Pbufs : refs[p] > 0} \union busy \union Range(reply)

\* The pbufs in use: by the ARP table, with what is chained to them, by
\* datagrams that are not complete, by the handler.
InUse ==
  (UNION {{p} \union Range(content[p].next) : p \in {p \in Pbufs : refs[p] > 0}})
  \union busy \union Range(reply)

Lowest(S) == CHOOSE p \in S : \A q \in S : p <= q

\* pbuf_alloc from the pool, for n bytes: all the pbufs it takes, or none.
Alloc(n) ==
  LET free == Pool \ InUse
      count == IF n = 0 THEN 1 ELSE (n + BUFSIZE - 1) \div BUFSIZE
      Nth(k) == CHOOSE p \in free : Cardinality({q \in free : q < p}) = k - 1
  IN  IF Cardinality(free) < count THEN <<>> ELSE [k \in 1..count |-> Nth(k)]

\* Memory after packet f is put into the pbufs of a chain.
pbuf_take(chain, f) ==
  [p \in Pbufs |->
     IF p \notin Range(chain) THEN content[p]
     ELSE LET k == CHOOSE k \in DOMAIN chain : chain[k] = p
              to == IF k = Len(chain) THEN Len(f.bytes) ELSE k * BUFSIZE
          IN  [src |-> f.src, dst |-> f.dst, proto |-> f.proto,
               bytes |-> SubSeq(f.bytes, (k - 1) * BUFSIZE + 1, to),
               next |-> IF k = 1 THEN Tail(chain) ELSE <<>>]]

\* The bytes of a packet that begins with pbuf p in memory ct.
BytesOf(ct, p) ==
  LET upto[k \in 0..Len(ct[p].next)] ==
        IF k = 0 THEN ct[p].bytes ELSE upto[k - 1] \o ct[ct[p].next[k]].bytes
  IN  upto[Len(ct[p].next)]

Message(ct, p) ==
  [src |-> ct[p].src, dst |-> ct[p].dst, proto |-> ct[p].proto,
   bytes |-> BytesOf(ct, p)]

Segments(ct, chain) ==
  [k \in DOMAIN chain |-> [bytes |-> ct[chain[k]].bytes, odd |-> FALSE]]

\* Memory after a step: ct, as far as it is still in use.
Memory(ct) ==
  content' = [p \in Pbufs |->
    IF \/ p \in busy' \union Range(reply')
       \/ \E q \in Pbufs : refs'[q] > 0 /\ p \in {q} \union Range(ct[q].next)
    THEN ct[p] ELSE Nothing]

\* ethernet_output and low_level_output: what ARP sends goes out of memory
\* ct.
ethernet_output(ct) ==
  wire' = {[to |-> o.to, msg |-> Message(ct, o.packet)] : o \in sent'}

NoArp == /\ sent' = {}
         /\ UNCHANGED <<arp_table, etharp_cached_entry, refs, quiet>>

NoReass == /\ datagram' = {} /\ refused' = {} /\ exceeded' = {}
           /\ UNCHANGED <<reassdatagrams, ip_reass_pbufcount, busy>>

-----------------------------------------------------------------------------
(* ICMP.  A message begins with its type, code and checksum; an echo has   *)
(* two more bytes, its identifier and its number.                          *)

ICMP_HLEN == 4
ECHO_HLEN == 6

ip4_addr_isbroadcast(ip) == ip \in GroupIPs \union {NoIP}

\* A message of a type with its checksum.
Checked(type, data) ==
  LET c == inet_chksum(<<type, 0, 0, 0>> \o data, FALSE)
  IN  <<type, 0, c % BASE, c \div BASE>> \o data

\* icmp_send_response quotes the beginning of the packet that it is about,
\* which is in the first pbuf.
Error(type, c) ==
  LET n == Least(Len(c.bytes), ICMP_DEST_UNREACH_DATASIZE)
  IN  [src |-> Us, dst |-> c.src, proto |-> "ICMP",
       bytes |-> Checked(type, SubSeq(c.bytes, 1, n)), next |-> <<>>]

\* icmp_input turns a request into its reply where it is: the addresses are
\* exchanged, the checksum is brought up to date.
Replied(c) ==
  LET sum == EchoChksum(WordAt(c.bytes, 3), ICMP_ECHO)
  IN  [c EXCEPT !.src = c.dst, !.dst = c.src,
                !.bytes = <<ICMP_ER, @[2], sum % BASE, sum \div BASE>>
                          \o SubSeq(@, 5, Len(@))]

\* The message is a request that icmp_input answers; others are dropped.
IsRequest(ct, chain) ==
  /\ Len(ct[chain[1]].bytes) >= ICMP_HLEN
  /\ TotalLength(Segments(ct, chain)) >= ECHO_HLEN
  /\ ct[chain[1]].bytes[1] = ICMP_ECHO
  /\ ~ip4_addr_isbroadcast(ct[chain[1]].dst)
  /\ inet_chksum_pbuf(Segments(ct, chain)) = 0

\* The datagrams in S were given up: the errors to their senders.
TimeExceeded(S) ==
  {Error(ICMP_TE, content[reassdatagrams[i].p[1].pbuf]) :
     i \in {i \in DOMAIN reassdatagrams : reassdatagrams[i].id \in S}}

-----------------------------------------------------------------------------
(* IPv4 input.                                                             *)

ip4_input_accept(dst) == dst = Us \/ ip4_addr_isbroadcast(dst)

\* What is taken: for the node or for everyone, and from a single host.
Accepted(m) == m.ok /\ ~ip4_addr_isbroadcast(m.src) /\ ip4_input_accept(m.dst)

\* The packet in a chain of pbufs is given to its protocol.  There is only
\* ICMP; the sender of another is told, unless it was for everyone.  told are
\* the errors that come first.
Deliver(chain, ct, told) ==
  LET c == ct[chain[1]]
  IN  IF c.proto = "ICMP"
      THEN /\ errors' = told
           /\ IF IsRequest(ct, chain)
              THEN reply' = chain /\ Memory([ct EXCEPT ![chain[1]] = Replied(@)])
              ELSE reply' = <<>> /\ Memory(ct)
      ELSE /\ errors' = IF ip4_addr_isbroadcast(c.dst) THEN told
                        ELSE told \union {Error(ICMP_DUR, c)}
           /\ reply' = <<>> /\ Memory(ct)

Discard == reply' = <<>> /\ errors' = {} /\ Memory(content)

\* A packet in one piece, in as many pbufs as it takes; without them, it is
\* lost.
InOnePiece(f) ==
  LET chain == Alloc(Len(f.bytes))
  IN  /\ NoReass
      /\ IF chain # <<>> /\ Accepted(f)
         THEN Deliver(chain, pbuf_take(chain, f), {})
         ELSE Discard

\* A fragment in pbuf p: it waits, or is dropped, or completes its datagram,
\* whose pbufs are then chained behind the first.
InFragment(f, p) ==
  LET m  == MessageOf[f.id]
      ct == [content EXCEPT ![p] =
               [src |-> m.src, dst |-> m.dst, proto |-> m.proto,
                bytes |-> SubSeq(m.bytes, f.start + 1, f.end), next |-> <<>>]]
  IN  /\ R!ip4_reass(f, p)
      /\ IF datagram' = {}
         THEN reply' = <<>> /\ errors' = TimeExceeded(exceeded') /\ Memory(ct)
         ELSE LET d == CHOOSE d \in datagram' : TRUE
                  chain == [k \in DOMAIN d.parts |-> d.parts[k].pbuf]
              IN  Deliver(chain, [ct EXCEPT ![chain[1]].next = Tail(chain)],
                          TimeExceeded(exceeded'))

ip4_input ==
  /\ NoArp /\ wire' = {}
  /\ \/ \E f \in Arriving : InOnePiece(f)
     \/ \E f \in R!Fragments :
          Accepted(MessageOf[f.id]) /\ InFragment(f, Lowest(Pool \ InUse))

-----------------------------------------------------------------------------
(* main's loop: a frame, and the timers between frames.                    *)

Idle == reply = <<>> /\ errors = {}

ArpFrame ==
  /\ \E m \in ArpMessages : A!etharp_input(m.src, m.mac, m.for_us)
  /\ NoReass /\ ethernet_output(content)
  /\ Discard

\* A frame of another type; one for which there is no pbuf; a fragment that is
\* not accepted.
LostFrame == NoArp /\ NoReass /\ wire' = {} /\ Discard

ethernet_input == ArpFrame \/ ip4_input \/ LostFrame

\* low_level_input takes pbufs from the pool; without one, a frame is lost.
low_level_input ==
  /\ Idle
  /\ IF Pool \ InUse = {} THEN LostFrame ELSE ethernet_input

arp_timer ==
  /\ Idle
  /\ A!etharp_tmr /\ NoReass /\ wire' = {} /\ Discard

ip_reass_timer ==
  /\ Idle
  /\ R!ip_reass_tmr
  /\ NoArp /\ wire' = {}
  /\ reply' = <<>> /\ errors' = TimeExceeded(exceeded') /\ Memory(content)

-----------------------------------------------------------------------------
(* Output.                                                                 *)

\* ip4_output_if and etharp_output, for the packet in pbuf p of memory ct;
\* its destination is a single host.
ip4_output_if(ct, p) ==
  /\ IF ct[p].dst \in Hosts THEN A!OutputLocal(ct[p].dst, p) ELSE A!OutputRemote(p)
  /\ NoReass /\ ethernet_output(ct)

\* An error is sent in a pbuf of the heap, if there is memory.
icmp_send_response ==
  \E e \in errors :
    /\ errors' = errors \ {e} /\ UNCHANGED reply
    /\ \/ /\ Ram \ InUse # {}
          /\ LET q == Lowest(Ram \ InUse)
                 ct == [content EXCEPT ![q] = e]
             IN  ip4_output_if(ct, q) /\ Memory(ct)
       \/ NoArp /\ NoReass /\ wire' = {} /\ Memory(content)

\* The reply is sent, and freed.
SendReply ==
  /\ errors = {} /\ reply # <<>>
  /\ reply' = <<>> /\ UNCHANGED errors
  /\ ip4_output_if(content, reply[1])
  /\ Memory(content)

-----------------------------------------------------------------------------
\* After lwip_init, netif_add, netif_set_default and netif_set_up.
Init ==
  /\ arp_table = [i \in A!Index |-> [state |-> "EMPTY", ipaddr |-> NoIP,
                                     ethaddr |-> NoMAC, ctime |-> 0, q |-> NULL]]
  /\ etharp_cached_entry = 0
  /\ refs = [p \in Pbufs |-> 0] /\ sent = {}
  /\ quiet = [i \in A!Index |-> 2]
  /\ R!Init
  /\ content = [p \in Pbufs |-> Nothing]
  /\ reply = <<>> /\ errors = {} /\ wire = {}

Output == icmp_send_response \/ SendReply

Next == low_level_input \/ arp_timer \/ ip_reass_timer \/ Output

\* Calls return, and main's loop calls sys_check_timeouts after every frame:
\* no timer is passed over for ever.
Spec == /\ Init /\ [][Next]_vars
        /\ WF_vars(Output) /\ SF_vars(arp_timer) /\ SF_vars(ip_reass_timer)

-----------------------------------------------------------------------------
(* Properties.                                                             *)

Waiting == {i \in A!Index : arp_table[i].q # NULL}

Whole(f) == [src |-> f.src, dst |-> f.dst, proto |-> f.proto, bytes |-> f.bytes,
             ok |-> f.ok, single |-> ~ip4_addr_isbroadcast(f.src)]

\* The node sends just what it owes (module Responder), although the reply is
\* made in the memory of the request, which may wait there for ARP while
\* other frames arrive (icmp.c:207-252, etharp.c:1024-1060, main.c:33).
N == INSTANCE Responder WITH
  Arriving <- {Whole(f) : f \in Arriving},
  Fragmented <- {Whole(MessageOf[d]) : d \in Datagrams},
  due <- {[src |-> e.src, dst |-> e.dst, proto |-> e.proto, bytes |-> e.bytes] :
            e \in errors}
         \union (IF reply = <<>> THEN {} ELSE {Message(content, reply[1])}),
  waiting <- [h \in {arp_table[i].ipaddr : i \in Waiting} |->
                Message(content,
                  arp_table[CHOOSE i \in Waiting : arp_table[i].ipaddr = h].q)]
ResponderSpec == N!Spec

\* A pbuf has one owner: the ARP table, a datagram that is not complete, or
\* the handler (main.c:33, icmp.c:251-283, ip4_frag.c:655-672); also one
\* behind another in a chain, which only its head leads to.
OneOwner ==
  LET table    == {p \in Pbufs : refs[p] > 0}
      Chain(p) == {p} \union Range(content[p].next)
  IN  /\ busy \intersect Range(reply) = {}
      /\ \A p \in table : Chain(p) \intersect (busy \union Range(reply)) = {}
      /\ \A p, q \in table : p # q => Chain(p) \intersect Chain(q) = {}
      /\ table = {arp_table[i].q : i \in Waiting}

\* Every pbuf is given back in the end: a reply or an error that waits for
\* ARP, fragments that wait for others, a pbuf in a chain (main.c:33-36: a
\* frame that finds none is lost).
PbufsReturn == \A p \in Pbufs : []<>(p \notin InUse)
=============================================================================
