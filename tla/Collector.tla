----------------------------- MODULE Collector ------------------------------
(***************************************************************************)
(* What reassembly promises: datagrams are collected byte by byte and      *)
(* delivered when they are complete, whole and in order.  One that is not  *)
(* complete after MaxAge ticks is given up, and so are the oldest when     *)
(* there is no space for a fragment of another.  The sender of one whose   *)
(* first byte has come is told.                                            *)
(***************************************************************************)
EXTENDS Integers, FiniteSets

CONSTANTS Datagrams, WithOptions, DataLen, MaxAge, MaxOpen

VARIABLES open,        \* datagram -> the bytes that have come, and its age
          space,       \* how much may still come
          delivered,   \* the datagram delivered in the last step
          ignored,     \* the fragment not taken in the last step
          told         \* datagrams whose senders were told in the last step

vars == <<open, space, delivered, ignored, told>>

\* The bytes of a datagram, and the parts that may arrive together.
All(id) == {id} \X (0..DataLen - 1)
Parts(id) == {{id} \X (a..b) : a, b \in 0..DataLen - 1} \ {{}}

Have(id) == IF id \in DOMAIN open THEN open[id].bytes ELSE {}
Age(id)  == IF id \in DOMAIN open THEN open[id].age ELSE 0

\* A fragment of id of size n needs space that others have.
Want(id, n) ==
  space < n \/ (id \notin DOMAIN open /\ Cardinality(DOMAIN open) = MaxOpen)

\* Those that may be given up for id: the oldest others.
Expendable(id) ==
  {G \in SUBSET (DOMAIN open \ {id}) :
     \A g \in G, h \in DOMAIN open \ ({id} \union G) : open[g].age >= open[h].age}

GiveUp(G) == told' = {g \in G : <<g, 0>> \in open[g].bytes}

Less(G) == [g \in DOMAIN open \ G |-> open[g]]

\* Bytes that are all new are taken.
Take(id, B, G) ==
  LET have == Have(id) \union B
  IN  /\ ignored' = {}
      /\ IF have = All(id)
         THEN /\ open' = Less(G \union {id})
              /\ delivered' = {[id |-> id, len |-> DataLen, hdr |-> 0,
                                bytes |-> [k \in 1..DataLen |-> <<id, k - 1>>]]}
         ELSE /\ open' = [g \in (DOMAIN open \ G) \union {id} |->
                            IF g = id THEN [bytes |-> have, age |-> Age(id)]
                            ELSE open[g]]
              /\ delivered' = {}

Refuse(id, B, G) ==
  /\ open' = Less(G)
  /\ ignored' = {[id |-> id, bytes |-> B]}
  /\ delivered' = {}

\* A fragment of size n arrives, and G is given up for it.  One of size 1 is
\* refused for want of space only if its own datagram has it all.
Fragment(id, n, G) ==
  /\ GiveUp(G)
  /\ G # {} => Want(id, n)
  /\ space' \in Int
  /\ \E B \in Parts(id) :
       \/ Have(id) \intersect B = {} /\ Take(id, B, G)
       \/ /\ Refuse(id, B, G)
          /\ \/ Have(id) \intersect B # {}
             \/ Want(id, n) /\ (n = 1 => DOMAIN open \subseteq {id})

\* Options are not supported.
Unsupported(id, B) ==
  id \in WithOptions /\ Refuse(id, B, {}) /\ told' = {} /\ UNCHANGED space

Tick ==
  LET old == {id \in DOMAIN open : open[id].age = MaxAge}
  IN  /\ open' = [id \in DOMAIN open \ old |-> [open[id] EXCEPT !.age = @ + 1]]
      /\ GiveUp(old)
      /\ space' \in Int
      /\ delivered' = {} /\ ignored' = {}

Init == open = [id \in {} |-> {}] /\ space \in Int /\ delivered = {}
        /\ ignored = {} /\ told = {}

Next ==
  \/ \E id \in Datagrams \ WithOptions, n \in 1..2 :
       \E G \in Expendable(id) : Fragment(id, n, G)
  \/ \E id \in WithOptions : \E B \in Parts(id) : Unsupported(id, B)
  \/ Tick

Spec == Init /\ [][Next]_vars
=============================================================================
