------------------------------- MODULE Chksum -------------------------------
(***************************************************************************)
(* The Internet checksum (inet_chksum.c, and the two places that compute it*)
(* in passing: ip4_output_if_src and icmp_input).  The machine is little   *)
(* endian; a byte has BASE values, a word is two bytes.                    *)
(***************************************************************************)
LOCAL INSTANCE Integers
LOCAL INSTANCE Sequences

CONSTANT BASE   \* 256

ASSUME ChksumAssumption == BASE \in Nat \ {0, 1}

WORD == BASE * BASE

FOLD_U32T(u) == (u \div WORD) + (u % WORD)

SWAP_BYTES_IN_WORD(w) == (w % BASE) * BASE + ((w \div BASE) % BASE)

\* lwip_htons; the same as swapping here.
lwip_htons(n) == SWAP_BYTES_IN_WORD(n)

\* The word that begins at byte i, and the sum of the words up to byte i.
WordAt(bytes, i) == bytes[i] + BASE * bytes[i + 1]

WordsTo(bytes) ==
  LET sum[i \in 0..Len(bytes)] ==
        IF i < 2 THEN 0 ELSE sum[i - 2] + WordAt(bytes, i - 1)
  IN  sum[Len(bytes) - (Len(bytes) % 2)]

\* odd: the bytes begin at an odd address.  The first and the last byte,
\* where they are not part of a word, make one together.
lwip_standard_chksum(bytes, odd) ==
  LET first == odd /\ bytes # <<>>
      rest  == IF first THEN Tail(bytes) ELSE bytes
      t     == (IF first THEN BASE * bytes[1] ELSE 0)
               + (IF Len(rest) % 2 = 1 THEN rest[Len(rest)] ELSE 0)
      sum   == FOLD_U32T(FOLD_U32T(WordsTo(rest) + t))
  IN  (IF odd THEN SWAP_BYTES_IN_WORD(sum) ELSE sum) % WORD

inet_chksum(bytes, odd) == WORD - 1 - lwip_standard_chksum(bytes, odd)

\* Variant: a pbuf of odd length does not shift those behind it.
Swap_Never(acc, len) == acc

\* The bytes behind a pbuf of odd length change places in their words.
Swap(acc, len) == IF len % 2 # 0 THEN SWAP_BYTES_IN_WORD(acc) ELSE acc

\* The loop that inet_chksum_pbuf and the sums with a pseudo header share:
\* segs are the parts of a packet, of which bytes from the front count.
Accumulate(segs, count, acc) ==
  LET Least(m, n) == IF m < n THEN m ELSE n
      \* After k parts: the sum, the bytes seen, whether it is swapped.
      after[k \in 0..Len(segs)] ==
        IF k = 0 THEN [acc |-> acc, left |-> count, swapped |-> FALSE]
        ELSE LET a == after[k - 1]
                 q == segs[k]
                 n == Least(Len(q.bytes), a.left)
                 sum == FOLD_U32T(a.acc +
                          lwip_standard_chksum(SubSeq(q.bytes, 1, n), q.odd))
             IN  IF a.left = 0 THEN a
                 ELSE [acc |-> Swap(sum, Len(q.bytes)), left |-> a.left - n,
                       swapped |-> a.swapped # (Len(q.bytes) % 2 # 0)]
      end == after[Len(segs)]
  IN  IF end.swapped THEN SWAP_BYTES_IN_WORD(end.acc) ELSE end.acc

TotalLength(segs) ==
  LET sum[k \in 0..Len(segs)] == IF k = 0 THEN 0 ELSE sum[k - 1] + Len(segs[k].bytes)
  IN  sum[Len(segs)]

inet_chksum_pbuf(segs) ==
  WORD - 1 - (Accumulate(segs, TotalLength(segs), 0) % WORD)

\* addr is the words of the two addresses.
inet_chksum_pseudo_partial(segs, proto, proto_len, chksum_len, addr) ==
  LET base == FOLD_U32T(FOLD_U32T(WordsTo(addr)))
      acc  == Accumulate(segs, chksum_len, base)
              + lwip_htons(proto) + lwip_htons(proto_len)
  IN  WORD - 1 - (FOLD_U32T(FOLD_U32T(acc)) % WORD)

inet_chksum_pseudo(segs, proto, proto_len, addr) ==
  inet_chksum_pseudo_partial(segs, proto, proto_len, TotalLength(segs), addr)

\* ip4_output_if_src sums up the header while it writes it.
HeaderChksum(bytes) ==
  LET once  == FOLD_U32T(WordsTo(bytes))
      twice == (once \div WORD) + once
  IN  WORD - 1 - (twice % WORD)

\* Variant: the carry is lost.
EchoChksum_NoCarry(chksum, ICMP_ECHO) == (chksum + lwip_htons(ICMP_ECHO * BASE)) % WORD

\* icmp_input brings the checksum of a request, whose type becomes 0, up to
\* date.
EchoChksum(chksum, ICMP_ECHO) ==
  IF chksum > lwip_htons(WORD - 1 - ICMP_ECHO * BASE)
  THEN (chksum + lwip_htons(ICMP_ECHO * BASE) + 1) % WORD
  ELSE chksum + lwip_htons(ICMP_ECHO * BASE)

-----------------------------------------------------------------------------
\* The reference: the one's complement of the one's complement sum of the
\* words, a last odd byte taken with a zero (RFC 1071).
OnesSum(bytes) ==
  LET n == WordsTo(bytes) + IF Len(bytes) % 2 = 1 THEN bytes[Len(bytes)] ELSE 0
  IN  IF n = 0 THEN 0 ELSE ((n - 1) % (WORD - 1)) + 1

Reference(bytes) == WORD - 1 - OnesSum(bytes)
=============================================================================
