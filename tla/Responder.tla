----------------------------- MODULE Responder ------------------------------
(***************************************************************************)
(* What the node promises the network: it sends nothing but the messages   *)
(* that a packet for it calls for, each once, to the host that is owed it: *)
(* an echo of a request with the data unchanged, an error for a protocol   *)
(* it does not have, an error for a datagram of which parts were lost.  A  *)
(* message whose host must first be found waits, one for each host, and    *)
(* does not change while it does.  Messages may be lost.                   *)
(***************************************************************************)
EXTENDS Integers, Sequences, Chksum

CONSTANTS Us, Hosts, Mac,
          Gateway,      \* the host that forwards for others, if there is one
          Arriving,     \* packets that may arrive, in one piece
          Fragmented,   \* packets that may arrive in pieces
          ICMP_ECHO, ICMP_ER, ICMP_DUR, ICMP_TE,
          ICMP_DEST_UNREACH_DATASIZE   \* bytes of a packet that an error quotes

VARIABLES due,       \* messages to be sent now
          waiting,   \* host -> the message that waits for it
          wire       \* what left in the last step

vars == <<due, waiting, wire>>

\* s is the beginning of t that an error quotes.
Quotes(s, t) ==
  s = SubSeq(t, 1, IF Len(t) < ICMP_DEST_UNREACH_DATASIZE THEN Len(t)
                   ELSE ICMP_DEST_UNREACH_DATASIZE)

Rest(bytes) == SubSeq(bytes, 5, Len(bytes))

\* m is a well-formed ICMP message for the sender of packet r.
Back(r, m, type) ==
  /\ m.src = Us /\ m.dst = r.src /\ m.proto = "ICMP"
  /\ m.bytes[1] = type
  /\ Reference(m.bytes) = 0

Echoes(r, m) ==
  /\ Back(r, m, ICMP_ER)
  /\ r.proto = "ICMP" /\ r.bytes[1] = ICMP_ECHO /\ Reference(r.bytes) = 0
  /\ Len(r.bytes) >= 6
  /\ m.bytes[2] = r.bytes[2] /\ Rest(m.bytes) = Rest(r.bytes)

Unreachable(r, m) ==
  Back(r, m, ICMP_DUR) /\ r.proto # "ICMP" /\ Quotes(Rest(m.bytes), r.bytes)

Exceeded(m) ==
  \E r \in Fragmented : Back(r, m, ICMP_TE) /\ Quotes(Rest(m.bytes), r.bytes)

\* What may call for an answer: well-formed, for the node alone, and from a
\* single host.
Answerable(r) == r.ok /\ r.dst = Us /\ r.single

Owed(m) ==
  \E r \in Arriving \union Fragmented :
    Answerable(r) /\ (Echoes(r, m) \/ Unreachable(r, m))

Less(f, S) == [h \in DOMAIN f \ S |-> f[h]]

Init == due = {} /\ waiting = [h \in {} |-> 0] /\ wire = {}

\* A packet arrives or time passes: one answer, and errors.  Messages that
\* have waited for too long are lost.
Begin ==
  /\ due = {}
  /\ \E S \in SUBSET due' :
       /\ \A m \in S : Exceeded(m)
       /\ \A m, n \in due' \ S : Owed(m) /\ m = n
  /\ \E L \in SUBSET DOMAIN waiting : waiting' = Less(waiting, L)
  /\ wire' = {}

\* The host that a message is handed to on its way to ip.
Hop(ip) == IF ip \in Hosts THEN ip ELSE Gateway

\* A message leaves, or waits for its host, or is lost.  Others that wait may
\* have to make room.
Send(m) ==
  LET h == Hop(m.dst)
  IN  /\ due' = due \ {m}
      /\ \/ /\ h \in Hosts
            /\ wire' = {[to |-> Mac[h], msg |-> m]}
            /\ UNCHANGED waiting
         \/ /\ wire' = {}
            /\ \E L \in SUBSET (DOMAIN waiting \ {h}) :
                 \/ waiting' = Less(waiting, L)
                 \/ /\ h \in Hosts
                    /\ waiting' = [g \in (DOMAIN waiting \ L) \union {h} |->
                                     IF g = h THEN m ELSE waiting[g]]

\* A host announces itself.
Heard(h) ==
  /\ due = {} /\ due' = {}
  /\ wire' = IF h \in DOMAIN waiting
             THEN {[to |-> Mac[h], msg |-> waiting[h]]} ELSE {}
  /\ \E L \in SUBSET DOMAIN waiting : waiting' = Less(waiting, L \union {h})

Next == Begin \/ (\E m \in due : Send(m)) \/ (\E h \in Hosts : Heard(h))

Spec == Init /\ [][Next]_vars
=============================================================================
