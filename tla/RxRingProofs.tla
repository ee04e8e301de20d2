---------------------------- MODULE RxRingProofs ----------------------------
(***************************************************************************)
(* Proofs about RxRing, for a ring of any size, frames of any length and   *)
(* any bound on their number.                                              *)
(***************************************************************************)
EXTENDS RxRing, SequenceTheorems, TLAPS

-----------------------------------------------------------------------------
(* The inductive invariant.  The bytes of the ring are split at Base, the  *)
(* first byte not yet given back to the receiver: from Base on come, in    *)
(* order of arrival and without overlap, the frames still held, and after  *)
(* them, from ERXWRPT on, the free space.                                  *)

\* Where the i-th frame ends and the next begins.
End(i) == IF i = 0 THEN RX_BUFFER_START_ADDR ELSE NextPacketPtr(log[i])

\* How many frames have been given back.
Freed == IF pc = "count" THEN Current ELSE Len(received)

Base == End(Freed)

Size(i) == Footprint(log[i].count)

Counted ==
  /\ Len(log) = Len(received) + EPKTCNT
  /\ pc # "poll" => EPKTCNT # 0

Chained ==
  /\ \A i \in 1..Len(log) : log[i].start = End(i - 1)
  /\ ERXWRPT = End(Len(log))

Ordered ==
  /\ Dist(Base, ERXWRPT) < RX_BUFFER_END_ADDR
  /\ \A i \in Freed + 1..Len(log) :
       /\ Dist(Base, log[i].start) + Size(i) <= Dist(Base, ERXWRPT)
       /\ \A j \in i + 1..Len(log) :
            Dist(Base, log[i].start) + Size(i) <= Dist(Base, log[j].start)

HeldIntact == \A i \in Freed + 1..Len(log) : Intact(i)

Pointers ==
  /\ ERXRDPT = ReleasePtr(Base)
  /\ next_rx_packet_ptr = IF pc \in {"release", "count"} THEN End(Current)
                                                         ELSE End(Current - 1)
  /\ pc = "header" => ERDPT = End(Current - 1)
  /\ pc = "payload" => ERDPT = Wrap(End(Current - 1) + ENC_HEADER_SIZE)

HeaderRead ==
  pc \in {"payload", "advance", "release", "count"} =>
    /\ enc_header = [next_packet_ptr |-> End(Current),
                     byte_count      |-> log[Current].count]
    /\ len = RxLen(log[Current].count)

\* The bytes of frame i that belong in the caller's buffer.
PayloadOf(i) ==
  [k \in 1..RxLen(log[i].count) |-> <<i, ENC_HEADER_SIZE + k - 1>>]

Copied ==
  /\ pc \in {"advance", "release", "count"} => buf = PayloadOf(Current)
  /\ \A i \in 1..Len(received) : received[i] = PayloadOf(i)

IInv == /\ TypeOK
        /\ Counted
        /\ Chained
        /\ Ordered
        /\ HeldIntact
        /\ Pointers
        /\ HeaderRead
        /\ Copied

-----------------------------------------------------------------------------
(* Ring arithmetic.                                                        *)

\* The distance between two addresses of the ring is smaller than the ring:
\* the receiver's free space is never negative.
LEMMA DistType ==
  \A a, b \in Addr : Dist(a, b) \in 0..RX_BUFFER_END_ADDR /\ Dist(a, a) = 0
BY RingAssumption DEF Dist, Addr, RX_BUFFER_START_ADDR, RingSize

\* Going k bytes forward from x, with the wrap of the controller's pointers,
\* adds k to the distance from any u that stays behind.
LEMMA DistWrap ==
  ASSUME NEW u \in Addr, NEW x \in Addr, NEW k \in Nat,
         Dist(u, x) + k <= RX_BUFFER_END_ADDR
  PROVE  Wrap(x + k) \in Addr /\ Dist(u, Wrap(x + k)) = Dist(u, x) + k
BY RingAssumption DEF Dist, Wrap, Addr, RX_BUFFER_START_ADDR, RingSize

\* Distances from v, when v lies between u and x.
LEMMA DistShift ==
  ASSUME NEW u \in Addr, NEW v \in Addr, NEW x \in Addr,
         Dist(u, v) <= Dist(u, x)
  PROVE  Dist(v, x) = Dist(u, x) - Dist(u, v)
BY RingAssumption DEF Dist, Addr, RX_BUFFER_START_ADDR, RingSize

\* A byte held (closer to the base than the write pointer) is at least a
\* ring minus the held bytes away from the write pointer.
LEMMA DistAcross ==
  ASSUME NEW u \in Addr, NEW w \in Addr, NEW a \in Addr,
         Dist(u, a) < Dist(u, w)
  PROVE  Dist(w, a) = RingSize - Dist(u, w) + Dist(u, a)
BY RingAssumption DEF Dist, Addr, RX_BUFFER_START_ADDR, RingSize

\* Two steps of the reading pointer are one.
LEMMA WrapTwice ==
  ASSUME NEW x \in Addr, NEW j \in Nat, NEW k \in Nat,
         j + k <= RX_BUFFER_END_ADDR
  PROVE  Wrap(Wrap(x + j) + k) = Wrap(x + (j + k))
BY RingAssumption DEF Wrap, Addr, RX_BUFFER_START_ADDR, RingSize

\* The value the driver writes to ERXRDPT leaves the receiver the whole ring
\* but for the bytes held and two more.
LEMMA FreeSpaceIs ==
  ASSUME NEW u \in Addr, ERXWRPT \in Addr, ERXRDPT = ReleasePtr(u),
         Dist(u, ERXWRPT) < RX_BUFFER_END_ADDR
  PROVE  /\ ERXRDPT \in Addr
         /\ FreeSpace = RX_BUFFER_END_ADDR - 1 - Dist(u, ERXWRPT)
BY RingAssumption
   DEF FreeSpace, ReleasePtr, Dist, Addr, RX_BUFFER_START_ADDR, RingSize

\* A frame takes room for its header and all its bytes.
LEMMA FootprintType ==
  \A c \in FrameCounts :
    /\ Footprint(c) \in Nat
    /\ Footprint(c) >= ENC_HEADER_SIZE + c
    /\ Footprint(c) > 0
BY RingAssumption DEF Footprint

\* The driver never takes more bytes of a frame than it has.
LEMMA RxLenType ==
  \A c \in Nat : RxLen(c) \in 0..BUF_SIZE /\ RxLen(c) <= c
BY RingAssumption DEF RxLen

\* The value written to ERXRDPT is an address of the ring.
LEMMA ReleasePtrType ==
  \A a \in Addr : ReleasePtr(a) \in Addr
BY RingAssumption DEF ReleasePtr, Addr, RX_BUFFER_START_ADDR

-----------------------------------------------------------------------------
(* The inductive invariant holds initially.                                *)

\* The state in which enc28j60_init leaves driver and controller satisfies
\* the inductive invariant.
LEMMA InitInvariant == Init => IInv
<1> SUFFICES ASSUME Init PROVE IInv
  OBVIOUS
<1> USE DEF Init
<1>1. TypeOK
  BY RingAssumption
  DEF TypeOK, Cell, Junk, RxHeader, Addr, RX_BUFFER_START_ADDR
<1>2. Counted /\ Chained
  BY DEF Counted, Chained, End
<1>3. Base = RX_BUFFER_START_ADDR /\ Current = 1 /\ Freed = 0
  BY DEF Base, Freed, End, Current
<1>4. Ordered
  BY <1>3, RingAssumption DEF Ordered, Dist, RX_BUFFER_START_ADDR
<1>5. HeldIntact /\ HeaderRead /\ Copied
  BY <1>3 DEF HeldIntact, HeaderRead, Copied
<1>6. Pointers
  BY <1>3 DEF Pointers, ReleasePtr, End, RX_BUFFER_START_ADDR
<1> QED
  BY <1>1, <1>2, <1>4, <1>5, <1>6 DEF IInv

-----------------------------------------------------------------------------
(* What the invariant says of the frames held.                             *)

\* Frame boundaries are addresses of the ring, and so is the base.
LEMMA EndType ==
  ASSUME IInv
  PROVE  /\ Len(log) \in Nat /\ Len(received) \in Nat
         /\ \A i \in 0..Len(log) : End(i) \in Addr
         /\ \A i \in 1..Len(log) : /\ log[i] \in Frame
                                   /\ Size(i) \in Nat /\ Size(i) > 0
                                   /\ End(i) = Wrap(log[i].start + Size(i))
         /\ Freed \in 0..Len(log)
         /\ Base \in Addr
         /\ pc # "poll" => Current \in 1..Len(log)
<1> USE DEF IInv
<1>1. /\ Len(log) \in Nat /\ Len(received) \in Nat
      /\ \A i \in 1..Len(log) : log[i] \in Frame
      /\ EPKTCNT \in Nat
  BY RingAssumption DEF TypeOK
<1>2. \A i \in 1..Len(log) : /\ Size(i) \in Nat /\ Size(i) > 0
                             /\ End(i) = Wrap(log[i].start + Size(i))
  BY <1>1, FootprintType DEF Size, End, NextPacketPtr, Frame
<1>3. End(Len(log)) \in Addr /\ End(0) \in Addr
  BY RingAssumption
  DEF Chained, TypeOK, End, Addr, RX_BUFFER_START_ADDR
<1>4. \A i \in 0..Len(log) : End(i) \in Addr
  <2> SUFFICES ASSUME NEW i \in 0..Len(log), i # 0, i # Len(log)
               PROVE  End(i) \in Addr
    BY <1>3
  <2>1. i + 1 \in 1..Len(log) /\ (i + 1) - 1 = i
    BY <1>1
  <2>2. log[i + 1].start = End(i)
    BY <2>1 DEF Chained
  <2> QED
    BY <1>1, <2>1, <2>2 DEF Frame
<1>5. Freed \in 0..Len(log) /\ (pc # "poll" => Current \in 1..Len(log))
  BY <1>1 DEF Freed, Current, Counted
<1> QED
  BY <1>1, <1>2, <1>4, <1>5 DEF Base

\* The receiver has just the space after the last frame held.
LEMMA SpaceLeft ==
  ASSUME IInv
  PROVE  FreeSpace = RX_BUFFER_END_ADDR - 1 - Dist(Base, ERXWRPT)
BY EndType, FreeSpaceIs DEF IInv, TypeOK, Ordered, Pointers

\* The free space is a number, and never the whole ring.
LEMMA FreeSpaceType ==
  ASSUME IInv
  PROVE  FreeSpace \in Int /\ FreeSpace < RX_BUFFER_END_ADDR
<1>1. Dist(Base, ERXWRPT) \in 0..RX_BUFFER_END_ADDR
  BY EndType, DistType DEF IInv, TypeOK
<1> QED
  BY <1>1, SpaceLeft, RingAssumption

\* Byte k of a frame held is an address of the ring, the receiver is at least
\* the free space away from reaching it, and it is where the k-th byte was
\* put.
LEMMA HeldByte ==
  ASSUME IInv, NEW i \in Freed + 1..Len(log), NEW k \in 0..Size(i) - 1
  PROVE  /\ log[i].start \in Addr
         /\ Wrap(log[i].start + k) \in Addr
         /\ Dist(ERXWRPT, Wrap(log[i].start + k)) > FreeSpace
         /\ mem[Wrap(log[i].start + k)] = <<i, k>>
<1> DEFINE a == Wrap(log[i].start + k)
<1>1. i \in 1..Len(log) /\ Size(i) \in Nat /\ log[i].start \in Addr
  BY EndType DEF Frame
<1>2. Dist(Base, log[i].start) + Size(i) <= Dist(Base, ERXWRPT)
  BY DEF IInv, Ordered
<1>3. Base \in Addr /\ ERXWRPT \in Addr
  BY EndType DEF IInv, TypeOK
<1>4. /\ Dist(Base, ERXWRPT) \in 0..RX_BUFFER_END_ADDR
      /\ Dist(Base, log[i].start) \in 0..RX_BUFFER_END_ADDR
  BY <1>1, <1>3, DistType
<1>5. a \in Addr /\ Dist(Base, a) = Dist(Base, log[i].start) + k
  <2>1. k \in Nat /\ Dist(Base, log[i].start) + k <= RX_BUFFER_END_ADDR
    BY <1>1, <1>2, <1>4, RingAssumption
  <2> QED
    BY <1>1, <1>3, <2>1, DistWrap
<1>6. Dist(ERXWRPT, a) = RingSize - Dist(Base, ERXWRPT) + Dist(Base, a)
  BY <1>1, <1>2, <1>3, <1>4, <1>5, DistAcross
<1>7. Dist(ERXWRPT, a) > FreeSpace
  BY <1>4, <1>5, <1>6, SpaceLeft, RingAssumption DEF RingSize
<1>8. mem[a] = <<i, k>>
  BY <1>1 DEF IInv, HeldIntact, Intact, Size
<1> QED
  BY <1>1, <1>5, <1>7, <1>8

-----------------------------------------------------------------------------
(* The receiver's steps preserve the invariant.                            *)

\* A frame that is dropped after part of it was written disturbs no frame
\* held: it was written to free space only.
LEMMA RejectInvariant ==
  ASSUME IInv, NEW count \in FrameCounts, RxReject(count)
  PROVE  IInv'
<1> USE DEF RxReject, driverVars
<1> DEFINE n == IF Footprint(count) <= FreeSpace THEN Footprint(count)
                                                 ELSE FreeSpace
<1>0. FreeSpace \in Int /\ n \in Int /\ n <= FreeSpace
  BY FootprintType, FreeSpaceType
<1>1. mem' = [a \in Addr |-> IF Dist(ERXWRPT, a) < n THEN Junk ELSE mem[a]]
  <2>1. \A a \in Addr : Dist(ERXWRPT, a) \in Addr
    BY DistType, RingAssumption DEF IInv, TypeOK, Addr, RX_BUFFER_START_ADDR
  <2>2. mem' = Written(n, [k \in Addr |-> Junk])
    OBVIOUS
  <2> QED
    BY <2>1, <2>2 DEF Written
<1>2. UNCHANGED <<Freed, Current, Base, FreeSpace>>
  BY DEF Freed, Current, Base, End, NextPacketPtr, FreeSpace, Dist
<1>3. \A i \in 0..Len(log) : UNCHANGED <<End(i), Size(i), PayloadOf(i)>>
  BY DEF End, NextPacketPtr, Size, PayloadOf
<1>4. TypeOK'
  <2>1. Junk \in Cell
    BY RingAssumption DEF Cell, Junk
  <2>2. mem' \in [Addr -> Cell]
    BY <1>1, <2>1 DEF IInv, TypeOK
  <2> QED
    BY <2>2 DEF IInv, TypeOK
<1>5. HeldIntact'
  <2> SUFFICES ASSUME NEW i \in Freed + 1..Len(log), NEW k \in 0..Size(i) - 1
               PROVE  mem'[Wrap(log[i].start + k)] = <<i, k>>
    BY <1>2 DEF HeldIntact, Intact, Size
  <2> DEFINE b == Wrap(log[i].start + k)
  <2>1. b \in Addr /\ Dist(ERXWRPT, b) > FreeSpace /\ mem[b] = <<i, k>>
    BY HeldByte
  <2>2. Dist(ERXWRPT, b) \in Int
    BY <2>1, DistType DEF IInv, TypeOK
  <2>3. ~(Dist(ERXWRPT, b) < n)
    BY <1>0, <2>1, <2>2
  <2> QED
    BY <1>1, <2>1, <2>3
<1>6. Counted' /\ Chained' /\ Ordered' /\ Pointers' /\ HeaderRead' /\ Copied'
  BY <1>2, <1>3
  DEF IInv, Counted, Chained, Ordered, Pointers, HeaderRead, Copied, End,
      NextPacketPtr, Size, PayloadOf
<1> QED
  BY <1>4, <1>5, <1>6 DEF IInv

\* A frame accepted, at whatever point of enc28j60_receive_packet, lies
\* behind the frames held and overlaps none of them.
LEMMA AcceptInvariant ==
  ASSUME IInv, NEW count \in FrameCounts, RxAccept(count)
  PROVE  IInv'
<1> PICK n \in Nat : n = Len(log)
  BY EndType
<1> DEFINE m == n + 1
           f == Footprint(count)
<1>0. /\ f \in Nat /\ f > 0 /\ f <= FreeSpace
      /\ FreeSpace \in Int /\ n < MaxFrames
      /\ log \in Seq(Frame) /\ ERXWRPT \in Addr /\ Base \in Addr
  BY EndType, FootprintType, FreeSpaceType DEF RxAccept, IInv, TypeOK
<1>1. /\ log' \in Seq(Frame) /\ Len(log') = m
      /\ log'[m] = [start |-> ERXWRPT, count |-> count]
      /\ \A i \in 1..n : log'[i] = log[i]
  BY <1>0 DEF RxAccept, Frame
<1>2. /\ UNCHANGED <<Freed, Current, ERXRDPT, ERDPT, driverVars>>
      /\ EPKTCNT' = EPKTCNT + 1
  BY DEF RxAccept, Freed, Current, driverVars
<1>3. \A i \in 0..n : UNCHANGED End(i)
  BY <1>0, <1>1 DEF End, NextPacketPtr
<1>4. \A i \in 1..n : UNCHANGED <<Size(i), PayloadOf(i)>>
  BY <1>1 DEF Size, PayloadOf
<1>5. Base' = Base /\ Freed \in 0..n
  BY <1>2, <1>3, EndType DEF Base
<1>6. Size(m)' = f /\ log'[m].start = ERXWRPT /\ log'[m].count = count
  BY <1>1 DEF Size
<1>7. /\ Dist(Base, ERXWRPT) \in 0..RX_BUFFER_END_ADDR
      /\ f <= RX_BUFFER_END_ADDR - 1 - Dist(Base, ERXWRPT)
  BY <1>0, DistType, SpaceLeft
<1>8. /\ ERXWRPT' \in Addr
      /\ Dist(Base, ERXWRPT)' = Dist(Base, ERXWRPT) + f
  <2>1. ERXWRPT' = Wrap(ERXWRPT + f)
    BY DEF RxAccept
  <2>2. Dist(Base, ERXWRPT) + f <= RX_BUFFER_END_ADDR
    BY <1>0, <1>7, RingAssumption
  <2>3. Dist(Base, Wrap(ERXWRPT + f)) = Dist(Base, ERXWRPT) + f
    BY <1>0, <2>2, DistWrap
  <2>4. Dist(Base, ERXWRPT)' = Dist(Base, ERXWRPT')
    BY <1>5 DEF Dist
  <2> QED
    BY <1>0, <2>1, <2>2, <2>3, <2>4, DistWrap
<1>9. ERXWRPT' = End(m)'
  BY <1>0, <1>6 DEF End, NextPacketPtr, RxAccept
<1>10. mem' = [a \in Addr |-> IF Dist(ERXWRPT, a) < f
                              THEN <<m, Dist(ERXWRPT, a)>> ELSE mem[a]]
  <2>1. \A a \in Addr : Dist(ERXWRPT, a) \in Addr
    BY <1>0, DistType, RingAssumption DEF Addr, RX_BUFFER_START_ADDR
  <2>2. mem' = Written(f, [k \in Addr |-> <<m, k>>])
    BY DEF RxAccept
  <2> QED
    BY <2>1, <2>2 DEF Written
<1>11. TypeOK'
  <2>1. mem' \in [Addr -> Cell]
    <3>1. \A a \in Addr : <<m, Dist(ERXWRPT, a)>> \in Cell
      BY <1>0, DistType, RingAssumption DEF Cell
    <3> QED
      BY <1>10, <3>1 DEF IInv, TypeOK
  <2>2. EPKTCNT' \in 0..MAX_PKTCNT
    BY RingAssumption DEF RxAccept, IInv, TypeOK
  <2> QED
    BY <1>1, <1>2, <1>8, <2>1, <2>2 DEF IInv, TypeOK, driverVars
<1>12. Counted'
  BY <1>0, <1>1, <1>2, EndType
  DEF IInv, TypeOK, Counted, driverVars
<1>13. Chained'
  <2> SUFFICES ASSUME NEW i \in 1..m PROVE log'[i].start = End(i - 1)'
    BY <1>1, <1>9 DEF Chained
  <2>1. CASE i = m
    BY <1>0, <1>3, <1>6, <2>1 DEF IInv, Chained
  <2>2. CASE i \in 1..n
    BY <1>0, <1>1, <1>3, <2>2 DEF IInv, Chained
  <2> QED
    BY <1>0, <2>1, <2>2
<1>14. Ordered'
  <2>1. Dist(Base, ERXWRPT)' < RX_BUFFER_END_ADDR
    BY <1>0, <1>7, <1>8, RingAssumption
  <2>2. \A i \in 1..n : Dist(Base, log[i].start)' = Dist(Base, log[i].start)
    BY <1>1, <1>5 DEF Dist
  <2>3. Dist(Base, log[m].start)' = Dist(Base, ERXWRPT)
    BY <1>5, <1>6 DEF Dist
  <2>4. \A i \in Freed + 1..n : i \in 1..n /\ Size(i) \in Nat
    BY <1>5, EndType
  <2>5. \A i \in Freed + 1..n :
          /\ Dist(Base, log[i].start) \in Int
          /\ Dist(Base, log[i].start) + Size(i) <= Dist(Base, ERXWRPT)
    <3> SUFFICES ASSUME NEW i \in Freed + 1..n
                 PROVE  /\ Dist(Base, log[i].start) \in Int
                        /\ Dist(Base, log[i].start) + Size(i)
                             <= Dist(Base, ERXWRPT)
      OBVIOUS
    <3>1. log[i].start \in Addr
      BY <2>4, EndType DEF Frame
    <3> QED
      BY <1>0, <3>1, DistType DEF IInv, Ordered
  <2> SUFFICES ASSUME NEW i \in Freed + 1..m
               PROVE  /\ (Dist(Base, log[i].start) + Size(i)
                            <= Dist(Base, ERXWRPT))'
                      /\ \A j \in i + 1..m :
                           (Dist(Base, log[i].start) + Size(i)
                              <= Dist(Base, log[j].start))'
    BY <1>1, <1>2, <2>1 DEF Ordered
  <2>6. CASE i = m
    BY <1>0, <1>6, <1>7, <1>8, <2>3, <2>6
  <2>7. CASE i \in Freed + 1..n
    <3>1. (Dist(Base, log[i].start) + Size(i))'
            = Dist(Base, log[i].start) + Size(i)
      BY <1>4, <2>2, <2>4, <2>7
    <3>2. (Dist(Base, log[i].start) + Size(i) <= Dist(Base, ERXWRPT))'
      BY <1>0, <1>7, <1>8, <2>4, <2>5, <2>7, <3>1
    <3>3. ASSUME NEW j \in i + 1..m
          PROVE  (Dist(Base, log[i].start) + Size(i)
                    <= Dist(Base, log[j].start))'
      <4>1. CASE j = m
        BY <2>3, <2>5, <2>7, <3>1, <4>1
      <4>2. CASE j # m
        <5>1. j \in i + 1..n /\ j \in 1..n
          BY <1>0, <1>5, <2>7, <4>2
        <5> QED
          BY <2>2, <2>7, <3>1, <5>1 DEF IInv, Ordered
      <4> QED
        BY <4>1, <4>2
    <3> QED
      BY <3>2, <3>3
  <2> QED
    BY <1>0, <1>5, <2>6, <2>7
<1>15. HeldIntact'
  <2> SUFFICES ASSUME NEW i \in Freed + 1..m,
                      NEW k \in 0..Size(i)' - 1
               PROVE  mem'[Wrap(log'[i].start + k)] = <<i, k>>
    BY <1>1, <1>2 DEF HeldIntact, Intact, Size
  <2>1. CASE i = m
    <3>1. k \in 0..f - 1 /\ Dist(ERXWRPT, ERXWRPT) = 0
      BY <1>0, <1>6, <2>1, DistType
    <3>2. k \in Nat /\ Dist(ERXWRPT, ERXWRPT) + k <= RX_BUFFER_END_ADDR
      BY <1>0, <1>7, <3>1, RingAssumption
    <3>3. /\ Wrap(ERXWRPT + k) \in Addr
          /\ Dist(ERXWRPT, Wrap(ERXWRPT + k)) = k
      BY <1>0, <3>1, <3>2, DistWrap
    <3> QED
      BY <1>0, <1>6, <1>10, <2>1, <3>1, <3>3
  <2>2. CASE i \in Freed + 1..n
    <3> DEFINE b == Wrap(log[i].start + k)
    <3>1. i \in 1..n /\ k \in 0..Size(i) - 1
      BY <1>4, <1>5, <2>2
    <3>2. b \in Addr /\ Dist(ERXWRPT, b) > FreeSpace /\ mem[b] = <<i, k>>
      BY <2>2, <3>1, HeldByte
    <3>3. ~(Dist(ERXWRPT, b) < f)
      BY <1>0, <3>2, DistType
    <3> QED
      BY <1>1, <1>10, <3>1, <3>2, <3>3
  <2> QED
    BY <1>0, <1>5, <2>1, <2>2
<1>16. Current \in 1..m /\ (pc # "poll" => Current \in 1..n)
       /\ Current - 1 \in 0..n
  BY <1>0, EndType DEF IInv, Counted, TypeOK, Current
<1>17. Pointers'
  BY <1>2, <1>3, <1>5, <1>16
  DEF IInv, Pointers, driverVars, Wrap, RingSize
<1>18. HeaderRead'
  BY <1>1, <1>2, <1>3, <1>16 DEF IInv, HeaderRead, driverVars
<1>19. Copied'
  <2>1. UNCHANGED <<pc, buf, received, Current>>
    BY <1>2 DEF driverVars
  <2>2. Copied /\ Len(received) \in Nat /\ Len(received) <= n
    BY EndType DEF IInv, Counted, TypeOK
  <2>3. ASSUME pc \in {"advance", "release", "count"}
        PROVE  buf' = PayloadOf(Current)'
    <3>1. Current \in 1..n
      BY <1>16, <2>3
    <3> QED
      BY <1>4, <2>1, <2>2, <2>3, <3>1 DEF Copied, PayloadOf
  <2>4. ASSUME NEW i \in 1..Len(received)
        PROVE  received'[i] = PayloadOf(i)'
    <3>1. i \in 1..n
      BY <2>2
    <3> QED
      BY <1>4, <2>1, <2>2, <3>1 DEF Copied
  <2> QED
    BY <2>1, <2>3, <2>4 DEF Copied
<1> QED
  BY <1>11, <1>12, <1>13, <1>14, <1>15, <1>17, <1>18, <1>19 DEF IInv

-----------------------------------------------------------------------------
(* The driver's steps preserve the invariant.                              *)

\* The two steps before the header is read only move pc and ERDPT.
LEMMA PollInvariant ==
  ASSUME IInv, PollFrame
  PROVE  IInv'
<1>1. UNCHANGED <<Freed, Current, Base>>
  BY DEF PollFrame, chipVars, Freed, Current, Base, End, NextPacketPtr
<1>2. Ordered' /\ HeldIntact' /\ Chained'
  BY <1>1 DEF PollFrame, chipVars, IInv, Ordered, HeldIntact, Intact, Chained,
              Size, End, NextPacketPtr
<1>3. TypeOK' /\ Counted' /\ Copied' /\ HeaderRead'
  BY <1>1 DEF PollFrame, chipVars, IInv, TypeOK, Counted, Copied, HeaderRead,
              PayloadOf
<1>4. Pointers'
  BY <1>1 DEF PollFrame, chipVars, IInv, Pointers, End, NextPacketPtr
<1> QED
  BY <1>2, <1>3, <1>4 DEF IInv

\* Writing ERDPT (enc28j60.c:47) points it at the oldest frame held.
LEMMA PointInvariant ==
  ASSUME IInv, PointAtFrame
  PROVE  IInv'
<1>1. UNCHANGED <<Freed, Current, Base>>
  BY DEF PointAtFrame, chipVars, Freed, Current, Base, End, NextPacketPtr
<1>2. Ordered' /\ HeldIntact' /\ Chained'
  BY <1>1 DEF PointAtFrame, chipVars, IInv, Ordered, HeldIntact, Intact,
              Chained, Size, End, NextPacketPtr
<1>3. TypeOK' /\ Counted' /\ Copied' /\ HeaderRead'
  BY <1>1 DEF PointAtFrame, chipVars, IInv, TypeOK, Counted, Copied,
              HeaderRead, PayloadOf
<1>4. Pointers'
  BY <1>1 DEF PointAtFrame, chipVars, IInv, Pointers, End, NextPacketPtr
<1> QED
  BY <1>2, <1>3, <1>4 DEF IInv

\* At "header" ERDPT is at the start of the oldest frame, and its header is
\* the only one that can be read there.
LEMMA HeaderIsOfCurrent ==
  ASSUME IInv, pc = "header"
  PROVE  HeadersAt(ERDPT) = {[next_packet_ptr |-> End(Current),
                              byte_count      |-> log[Current].count]}
<1>1. /\ Current \in 1..Len(log) /\ Current \in Freed + 1..Len(log)
      /\ ERDPT = log[Current].start /\ ERDPT \in Addr
      /\ Size(Current) \in Nat
  <2>1. Freed + 1 = Current /\ Current \in 1..Len(log)
    BY EndType DEF Freed, Current
  <2>2. ERDPT = End(Current - 1) /\ log[Current].start = End(Current - 1)
    BY <2>1 DEF IInv, Pointers, Chained
  <2> QED
    BY <2>1, <2>2, EndType DEF IInv, TypeOK
<1>2. ENC_HEADER_SIZE <= Size(Current)
  <2>1. log[Current].count \in FrameCounts
    BY <1>1, EndType DEF Frame
  <2> QED
    <3> DEFINE c == log[Current].count
    <3>1. c \in Nat /\ Footprint(c) \in Nat
          /\ Footprint(c) >= ENC_HEADER_SIZE + c
      BY <2>1, FootprintType, RingAssumption
    <3>2. ENC_HEADER_SIZE <= Footprint(c)
      BY <3>1, RingAssumption
    <3> QED
      BY <3>2 DEF Size
<1>3. \A k \in 0..ENC_HEADER_SIZE - 1 : mem[Wrap(ERDPT + k)] = <<Current, k>>
  <2> SUFFICES ASSUME NEW k \in 0..ENC_HEADER_SIZE - 1
               PROVE  mem[Wrap(ERDPT + k)] = <<Current, k>>
    OBVIOUS
  <2>1. k \in 0..Size(Current) - 1
    BY <1>1, <1>2, RingAssumption
  <2> QED
    BY <1>1, <2>1, HeldByte
<1>4. 0 \in 0..ENC_HEADER_SIZE - 1
  BY RingAssumption
<1>5. {i \in 1..Len(log) : \A k \in 0..ENC_HEADER_SIZE - 1 :
          mem[Wrap(ERDPT + k)] = <<i, k>>} = {Current}
  <2>1. ASSUME NEW i \in 1..Len(log),
               \A k \in 0..ENC_HEADER_SIZE - 1 :
                 mem[Wrap(ERDPT + k)] = <<i, k>>
        PROVE  i = Current
    <3>1. <<i, 0>> = <<Current, 0>>
      BY <1>3, <1>4, <2>1
    <3> QED
      BY <3>1
  <2> QED
    BY <1>1, <1>3, <2>1
<1>6. End(Current) = NextPacketPtr(log[Current])
  BY <1>1 DEF End
<1> QED
  BY <1>5, <1>6 DEF HeadersAt

\* enc28j60_read_rx_header reads the header of the oldest frame, and len is
\* computed from its count.
LEMMA HeaderInvariant ==
  ASSUME IInv, ReadHeader
  PROVE  IInv'
<1>1. UNCHANGED <<Freed, Current, Base>>
  BY DEF ReadHeader, chipVars, Freed, Current, Base, End, NextPacketPtr
<1>2. Ordered' /\ HeldIntact' /\ Chained'
  BY <1>1 DEF ReadHeader, chipVars, IInv, Ordered, HeldIntact, Intact,
              Chained, Size, End, NextPacketPtr
<1>3. Counted' /\ Copied'
  BY <1>1 DEF ReadHeader, chipVars, IInv, Counted, Copied, PayloadOf
<1>4. /\ enc_header' = [next_packet_ptr |-> End(Current),
                        byte_count      |-> log[Current].count]
      /\ len' = RxLen(log[Current].count)
  BY HeaderIsOfCurrent DEF ReadHeader
<1>5. /\ Current \in 1..Len(log) /\ log[Current].count \in FrameCounts
      /\ End(Current) \in Addr /\ log[Current].start \in Addr
  BY EndType DEF ReadHeader, Frame
<1>6. ERDPT' \in Addr
  BY RingAssumption
  DEF ReadHeader, IInv, TypeOK, Addr, RX_BUFFER_START_ADDR, Wrap, RingSize
<1>7. TypeOK'
  <2>1. len' \in 0..BUF_SIZE
    BY <1>4, <1>5, RxLenType, RingAssumption
  <2>2. enc_header' \in RxHeader
    BY <1>4, <1>5 DEF RxHeader
  <2> QED
    BY <1>6, <2>1, <2>2 DEF ReadHeader, chipVars, IInv, TypeOK
<1>8. Pointers'
  BY <1>1 DEF ReadHeader, chipVars, IInv, Pointers, End, NextPacketPtr
<1>9. HeaderRead'
  BY <1>1, <1>4 DEF ReadHeader, chipVars, HeaderRead, End, NextPacketPtr
<1> QED
  BY <1>2, <1>3, <1>7, <1>8, <1>9 DEF IInv

\* The frame the driver works on is the first one held, it starts at the
\* base, and it is smaller than the ring.
LEMMA CurrentIsHeld ==
  ASSUME IInv, pc \in {"header", "payload", "advance", "release"}
  PROVE  /\ Freed + 1 = Current /\ Current \in Freed + 1..Len(log)
         /\ log[Current].start = Base /\ End(Current - 1) = Base
         /\ Size(Current) \in Nat /\ Size(Current) <= RX_BUFFER_END_ADDR
         /\ log[Current].count \in Nat
         /\ ENC_HEADER_SIZE + log[Current].count <= Size(Current)
<1>1. Freed + 1 = Current /\ Current \in Freed + 1..Len(log)
      /\ Current \in 1..Len(log)
  BY EndType DEF Freed, Current
<1>2. End(Current - 1) = Base /\ log[Current].start = End(Current - 1)
  BY <1>1, EndType DEF IInv, Chained, Base, Freed, Current
<1>3. Dist(Base, Base) = 0 /\ Dist(Base, ERXWRPT) \in 0..RX_BUFFER_END_ADDR
  BY EndType, DistType DEF IInv, TypeOK
<1>4. Dist(Base, log[Current].start) + Size(Current) <= Dist(Base, ERXWRPT)
  BY <1>1 DEF IInv, Ordered
<1>5. Size(Current) \in Nat /\ log[Current].count \in FrameCounts
  BY <1>1, EndType DEF Frame
<1>6. Size(Current) <= RX_BUFFER_END_ADDR
  BY <1>2, <1>3, <1>4, <1>5, RingAssumption
<1>7. /\ log[Current].count \in Nat
      /\ ENC_HEADER_SIZE + log[Current].count <= Size(Current)
  <2> DEFINE c == log[Current].count
  <2>1. /\ c \in Nat
        /\ Footprint(c) \in Nat
        /\ Footprint(c) >= ENC_HEADER_SIZE + c
    BY <1>5, FootprintType, RingAssumption
  <2>2. ENC_HEADER_SIZE + c <= Footprint(c)
    BY <2>1, RingAssumption
  <2> QED
    BY <2>1, <2>2 DEF Size
<1> QED
  BY <1>1, <1>2, <1>5, <1>6, <1>7

\* enc28j60_read_buf copies the bytes of the oldest frame, whatever has
\* arrived since its header was read.
LEMMA PayloadInvariant ==
  ASSUME IInv, ReadPayload
  PROVE  IInv'
<1>1. UNCHANGED <<Freed, Current, Base>>
  BY DEF ReadPayload, chipVars, Freed, Current, Base, End, NextPacketPtr
<1>2. Ordered' /\ HeldIntact' /\ Chained' /\ Counted'
  BY <1>1 DEF ReadPayload, chipVars, IInv, Ordered, HeldIntact, Intact,
              Chained, Size, End, NextPacketPtr, Counted
<1>3. pc = "payload" /\ Base \in Addr
  BY EndType DEF ReadPayload
<1>4. /\ ERDPT = Wrap(Base + ENC_HEADER_SIZE)
      /\ len = RxLen(log[Current].count)
  BY <1>3, CurrentIsHeld DEF IInv, Pointers, HeaderRead
<1>5. len \in Nat /\ len <= log[Current].count
  BY <1>3, <1>4, CurrentIsHeld, RxLenType, RingAssumption
<1>6. \A k \in 1..len :
        /\ mem[Wrap(ERDPT + k - 1)] = <<Current, ENC_HEADER_SIZE + k - 1>>
        /\ mem[Wrap(ERDPT + k - 1)] \in Cell
  <2> SUFFICES ASSUME NEW k \in 1..len
               PROVE  /\ mem[Wrap(ERDPT + k - 1)]
                           = <<Current, ENC_HEADER_SIZE + k - 1>>
                      /\ mem[Wrap(ERDPT + k - 1)] \in Cell
    OBVIOUS
  <2> DEFINE h == ENC_HEADER_SIZE
  <2>a. /\ log[Current].count \in Nat /\ Size(Current) \in Nat
        /\ h + log[Current].count <= Size(Current)
        /\ Size(Current) <= RX_BUFFER_END_ADDR
    BY <1>3, CurrentIsHeld
  <2>b. h \in Nat /\ RX_BUFFER_END_ADDR \in Nat /\ k \in Nat /\ 1 <= k
    BY <1>5, RingAssumption
  <2>1. /\ h \in Nat /\ k - 1 \in Nat
        /\ h + (k - 1) \in 0..Size(Current) - 1
        /\ h + (k - 1) <= RX_BUFFER_END_ADDR
    BY <1>5, <2>a, <2>b
  <2>2. Wrap(Wrap(Base + h) + (k - 1)) = Wrap(Base + (h + (k - 1)))
    BY <1>3, <2>1, WrapTwice
  <2>3. ERDPT + k - 1 = Wrap(Base + h) + (k - 1)
    BY <1>4, <1>5, RingAssumption
    DEF IInv, TypeOK, Addr, RX_BUFFER_START_ADDR
  <2>4. Wrap(ERDPT + k - 1) = Wrap(log[Current].start + (h + (k - 1)))
    BY <1>3, <2>2, <2>3, CurrentIsHeld
  <2>5. /\ Wrap(log[Current].start + (h + (k - 1))) \in Addr
        /\ mem[Wrap(log[Current].start + (h + (k - 1)))]
             = <<Current, h + (k - 1)>>
    BY <1>3, <2>1, CurrentIsHeld, HeldByte
  <2>6. h + (k - 1) = h + k - 1
    BY <2>1, <1>5
  <2> QED
    BY <2>4, <2>5, <2>6 DEF IInv, TypeOK
<1>7. buf' = PayloadOf(Current) /\ buf' \in Seq(Cell)
  <2>1. buf' = [k \in 1..len |-> mem[Wrap(ERDPT + k - 1)]]
    BY DEF ReadPayload
  <2>2. buf' = [k \in 1..len |-> <<Current, ENC_HEADER_SIZE + k - 1>>]
    BY <1>6, <2>1
  <2>3. buf' \in [1..len -> Cell]
    BY <1>6, <2>1
  <2>4. buf' \in Seq(Cell)
    BY <1>5, <2>3, SeqDef
  <2>5. buf' = PayloadOf(Current)
    BY <1>4, <2>2 DEF PayloadOf
  <2> QED
    BY <2>4, <2>5
<1>8. ERDPT' \in Addr
  <2>1. len <= RX_BUFFER_END_ADDR
    <3>1. PICK s \in Nat : s = Size(Current)
      BY <1>3, CurrentIsHeld
    <3>2. PICK c \in Nat : c = log[Current].count
      BY <1>3, CurrentIsHeld
    <3>3. ENC_HEADER_SIZE + c <= s /\ s <= RX_BUFFER_END_ADDR
      BY <1>3, <3>1, <3>2, CurrentIsHeld
    <3>4. ENC_HEADER_SIZE \in Nat /\ RX_BUFFER_END_ADDR \in Nat
      BY RingAssumption
    <3>5. len \in Nat /\ len <= c
      BY <1>5, <3>2
    <3> QED
      BY <3>3, <3>4, <3>5
  <2>2. ERDPT \in Addr /\ ERDPT' = Wrap(ERDPT + len)
    BY DEF ReadPayload, IInv, TypeOK
  <2> QED
    BY <1>5, <2>1, <2>2, RingAssumption
    DEF Addr, RX_BUFFER_START_ADDR, Wrap, RingSize
<1>9. TypeOK'
  BY <1>7, <1>8 DEF ReadPayload, chipVars, IInv, TypeOK
<1>10. Pointers' /\ HeaderRead'
  BY <1>1 DEF ReadPayload, chipVars, IInv, Pointers, HeaderRead, End,
              NextPacketPtr
<1>11. Copied'
  BY <1>1, <1>7 DEF ReadPayload, chipVars, IInv, Copied, PayloadOf
<1> QED
  BY <1>2, <1>9, <1>10, <1>11 DEF IInv

\* The pointers of the driver move to the frame after the current one
\* (enc28j60.c:58-59).
LEMMA AdvanceInvariant ==
  ASSUME IInv, AdvancePointers
  PROVE  IInv'
<1>1. UNCHANGED <<Freed, Current, Base>>
  BY DEF AdvancePointers, chipVars, Freed, Current, Base, End, NextPacketPtr
<1>2. Ordered' /\ HeldIntact' /\ Chained' /\ Counted' /\ Copied'
  BY <1>1 DEF AdvancePointers, chipVars, IInv, Ordered, HeldIntact, Intact,
              Chained, Size, End, NextPacketPtr, Counted, Copied, PayloadOf
<1>3. enc_header.next_packet_ptr = End(Current) /\ End(Current) \in Addr
  BY EndType DEF AdvancePointers, IInv, HeaderRead
<1>4. TypeOK'
  BY <1>3 DEF AdvancePointers, chipVars, IInv, TypeOK
<1>5. Pointers' /\ HeaderRead'
  BY <1>1, <1>3 DEF AdvancePointers, chipVars, IInv, Pointers, HeaderRead, End,
                    NextPacketPtr
<1> QED
  BY <1>2, <1>4, <1>5 DEF IInv

\* Writing ERXRDPT moves the base past the frame that was copied.
LEMMA ReleaseInvariant ==
  ASSUME IInv, ReleaseSpace
  PROVE  IInv'
<1>1. pc = "release" /\ Current' = Current /\ UNCHANGED chipVars
  BY DEF ReleaseSpace, Current
<1>2. \A i : UNCHANGED <<End(i), Size(i), PayloadOf(i)>>
  BY <1>1 DEF chipVars, End, NextPacketPtr, Size, PayloadOf
<1> PICK c \in Nat : c = Current
  BY <1>1, EndType DEF Current
<1> PICK s \in Nat : s = Size(c)
  BY <1>1, CurrentIsHeld
<1> PICK b \in Addr : b = Base
  BY EndType
<1>3. Freed' = c /\ Base' = End(c) /\ End(c) \in Addr /\ c \in 1..Len(log)
  BY <1>1, <1>2, EndType DEF Freed, Base, ReleaseSpace
<1>4. enc_header.next_packet_ptr = End(c)
  BY <1>1 DEF IInv, HeaderRead
<1>5. /\ End(c) = Wrap(b + s) /\ s <= RX_BUFFER_END_ADDR
      /\ Dist(b, b) = 0
  BY <1>1, <1>3, CurrentIsHeld, EndType, DistType
<1>6. Dist(b, End(c)) = s
  BY <1>5, DistWrap
<1>7. /\ Dist(b, ERXWRPT) \in Nat
      /\ s <= Dist(b, ERXWRPT)
      /\ Dist(b, ERXWRPT) < RX_BUFFER_END_ADDR
      /\ \A i \in c + 1..Len(log) : s <= Dist(b, log[i].start)
  <2>1. /\ c \in Freed + 1..Len(log) /\ log[c].start = b
        /\ Dist(b, log[c].start) = 0
    BY <1>1, <1>5, CurrentIsHeld
  <2>2. Dist(b, ERXWRPT) \in Nat
    BY DistType DEF IInv, TypeOK
  <2>3. /\ Dist(b, log[c].start) + s <= Dist(b, ERXWRPT)
        /\ Dist(b, ERXWRPT) < RX_BUFFER_END_ADDR
        /\ \A i \in c + 1..Len(log) :
             Dist(b, log[c].start) + s <= Dist(b, log[i].start)
    BY <2>1 DEF IInv, Ordered
  <2> QED
    BY <2>1, <2>2, <2>3
<1>8. Dist(End(c), ERXWRPT) = Dist(b, ERXWRPT) - s
  BY <1>3, <1>6, <1>7, DistShift DEF IInv, TypeOK
<1>9. \A i \in c + 1..Len(log) :
        /\ i \in Freed + 1..Len(log)
        /\ Size(i) \in Nat
        /\ Dist(b, log[i].start) \in Nat
        /\ Dist(End(c), log[i].start) = Dist(b, log[i].start) - s
  <2> SUFFICES ASSUME NEW i \in c + 1..Len(log)
               PROVE  /\ i \in Freed + 1..Len(log)
                      /\ Size(i) \in Nat
                      /\ Dist(b, log[i].start) \in Nat
                      /\ Dist(End(c), log[i].start) = Dist(b, log[i].start) - s
    OBVIOUS
  <2>1. i \in Freed + 1..Len(log) /\ i \in 1..Len(log)
    BY <1>1, <1>3, CurrentIsHeld, EndType
  <2>2. Size(i) \in Nat /\ log[i].start \in Addr
    BY <2>1, EndType DEF Frame
  <2>3. Dist(b, log[i].start) \in Nat
    BY <2>2, DistType
  <2> QED
    BY <1>3, <1>6, <1>7, <2>1, <2>2, <2>3, DistShift
<1>10. Dist(Base, ERXWRPT)' = Dist(b, ERXWRPT) - s
  BY <1>1, <1>3, <1>8 DEF chipVars, Dist
<1>11. \A i \in c + 1..Len(log) :
         Dist(Base, log[i].start)' = Dist(b, log[i].start) - s
  BY <1>1, <1>3, <1>9 DEF chipVars, Dist
<1>12. Ordered'
  <2>1. Dist(Base, ERXWRPT)' < RX_BUFFER_END_ADDR
    BY <1>7, <1>10, RingAssumption
  <2> SUFFICES ASSUME NEW i \in c + 1..Len(log)
               PROVE  /\ (Dist(Base, log[i].start) + Size(i)
                            <= Dist(Base, ERXWRPT))'
                      /\ \A j \in i + 1..Len(log) :
                           (Dist(Base, log[i].start) + Size(i)
                              <= Dist(Base, log[j].start))'
    BY <1>1, <1>3, <2>1 DEF Ordered, chipVars
  <2>2. Size(i)' = Size(i)
    BY <1>2
  <2>3. Dist(b, log[i].start) + Size(i) <= Dist(b, ERXWRPT)
    BY <1>9 DEF IInv, Ordered
  <2>4. (Dist(Base, log[i].start) + Size(i) <= Dist(Base, ERXWRPT))'
    BY <1>7, <1>9, <1>10, <1>11, <2>2, <2>3
  <2>5. ASSUME NEW j \in i + 1..Len(log)
        PROVE  (Dist(Base, log[i].start) + Size(i)
                  <= Dist(Base, log[j].start))'
    <3>1. j \in c + 1..Len(log)
      BY <1>3
    <3>2. Dist(b, log[i].start) + Size(i) <= Dist(b, log[j].start)
      BY <1>9 DEF IInv, Ordered
    <3> QED
      BY <1>9, <1>11, <2>2, <3>1, <3>2
  <2> QED
    BY <2>4, <2>5
<1>13. HeldIntact'
  BY <1>1, <1>2, <1>3, <1>9
  DEF IInv, HeldIntact, Intact, chipVars
<1>14. Chained' /\ Counted' /\ HeaderRead' /\ Copied'
  BY <1>1, <1>2
  DEF ReleaseSpace, chipVars, IInv, Chained, Counted, HeaderRead, Copied
<1>15. TypeOK'
  BY <1>3, <1>4, ReleasePtrType DEF ReleaseSpace, chipVars, IInv, TypeOK
<1>16. Pointers'
  BY <1>1, <1>2, <1>3, <1>4 DEF ReleaseSpace, IInv, Pointers
<1> QED
  BY <1>12, <1>13, <1>14, <1>15, <1>16 DEF IInv

\* Counting the frame off and returning it (enc28j60.c:67-72) keeps the
\* number of waiting frames and the frames themselves in step.
LEMMA CountInvariant ==
  ASSUME IInv, CountOff
  PROVE  IInv'
<1>1. /\ pc = "count" /\ pc' = "poll" /\ UNCHANGED <<mem, ERXWRPT, log>>
      /\ received' = Append(received, buf)
  BY DEF CountOff
<1>2. /\ received \in Seq(Seq(Cell)) /\ buf \in Seq(Cell)
      /\ Len(received) \in Nat /\ Current = Len(received) + 1
  BY EndType DEF IInv, TypeOK, Current
<1>3. /\ received' \in Seq(Seq(Cell)) /\ Len(received') = Current
      /\ received'[Current] = buf
      /\ \A i \in 1..Len(received) : received'[i] = received[i]
  BY <1>1, <1>2
<1>4. \A i : UNCHANGED <<End(i), Size(i), PayloadOf(i)>>
  BY <1>1 DEF End, NextPacketPtr, Size, PayloadOf
<1>5. UNCHANGED <<Freed, Base>> /\ (Current - 1)' = Current
  BY <1>1, <1>2, <1>3, <1>4 DEF Freed, Current, Base
<1>6. Ordered' /\ HeldIntact' /\ Chained'
  BY <1>1, <1>4, <1>5
  DEF IInv, Ordered, HeldIntact, Intact, Chained, Dist
<1>7. EPKTCNT' = EPKTCNT - 1 /\ EPKTCNT # 0 /\ EPKTCNT \in 0..MAX_PKTCNT
  BY <1>1 DEF CountOff, IInv, TypeOK, Counted
<1>8. TypeOK'
  BY <1>3, <1>7, RingAssumption DEF CountOff, IInv, TypeOK
<1>9. Counted'
  BY <1>1, <1>2, <1>3, <1>7, RingAssumption DEF IInv, Counted
<1>10. Pointers'
  BY <1>1, <1>4, <1>5 DEF CountOff, IInv, Pointers
<1>11. HeaderRead'
  BY <1>1 DEF HeaderRead
<1>12. Copied'
  <2>1. buf = PayloadOf(Current)
    BY <1>1 DEF IInv, Copied
  <2>2. \A i \in 1..Len(received') : received'[i] = PayloadOf(i)
    <3> SUFFICES ASSUME NEW i \in 1..Len(received') PROVE received'[i] = PayloadOf(i)
      OBVIOUS
    <3>1. CASE i = Current
      BY <1>3, <2>1, <3>1
    <3>2. CASE i # Current
      <4>1. i \in 1..Len(received)
        BY <1>2, <1>3, <3>2
      <4>2. received[i] = PayloadOf(i)
        BY <4>1 DEF IInv, Copied
      <4> QED
        BY <1>3, <4>1, <4>2
    <3> QED
      BY <3>1, <3>2
  <2> QED
    BY <1>1, <1>4, <2>2 DEF Copied
<1> QED
  BY <1>6, <1>8, <1>9, <1>10, <1>11, <1>12 DEF IInv

-----------------------------------------------------------------------------
(* The theorems.                                                           *)

\* Every step of controller and driver preserves the inductive invariant.
LEMMA NextInvariant == IInv /\ [Next]_vars => IInv'
<1> SUFFICES ASSUME IInv, [Next]_vars PROVE IInv'
  OBVIOUS
<1>1. CASE Receiver
  BY <1>1, AcceptInvariant, RejectInvariant DEF Receiver
<1>2. CASE PollFrame
  BY <1>2, PollInvariant
<1>3. CASE PointAtFrame
  BY <1>3, PointInvariant
<1>4. CASE ReadHeader
  BY <1>4, HeaderInvariant
<1>5. CASE ReadPayload
  BY <1>5, PayloadInvariant
<1>6. CASE AdvancePointers
  BY <1>6, AdvanceInvariant
<1>7. CASE ReleaseSpace
  BY <1>7, ReleaseInvariant
<1>8. CASE CountOff
  BY <1>8, CountInvariant
<1>9. CASE PollNone \/ UNCHANGED vars
  <2>1. UNCHANGED vars
    BY <1>9 DEF PollNone
  <2>2. UNCHANGED <<Freed, Current, Base>>
    BY <2>1 DEF vars, Freed, Current, Base, End, NextPacketPtr
  <2>3. \A i : UNCHANGED <<End(i), Size(i), PayloadOf(i), Intact(i)>>
    BY <2>1 DEF vars, End, NextPacketPtr, Size, PayloadOf, Intact
  <2>4. TypeOK' /\ Counted' /\ Chained'
    BY <2>1, <2>3 DEF vars, IInv, TypeOK, Counted, Chained
  <2>5. Ordered' /\ HeldIntact'
    BY <2>1, <2>2, <2>3 DEF vars, IInv, Ordered, HeldIntact, Dist
  <2>6. Pointers' /\ HeaderRead' /\ Copied'
    BY <2>1, <2>2, <2>3 DEF vars, IInv, Pointers, HeaderRead, Copied
  <2> QED
    BY <2>4, <2>5, <2>6 DEF IInv
<1> QED
  BY <1>1, <1>2, <1>3, <1>4, <1>5, <1>6, <1>7, <1>8, <1>9 DEF Next, Driver

\* The inductive invariant holds throughout, whatever the receiver does
\* between two SPI transactions of enc28j60_receive_packet.
THEOREM Invariance == Spec => []IInv
<1>1. Init => IInv
  BY InitInvariant
<1>2. IInv /\ [Next]_vars => IInv'
  BY NextInvariant
<1> QED
  BY <1>1, <1>2, PTL DEF Spec

\* Type correctness: no pointer leaves the ring, EPKTCNT never underflows.
THEOREM TypeCorrect == Spec => []TypeOK
<1>1. IInv => TypeOK
  BY DEF IInv
<1> QED
  BY <1>1, Invariance, PTL

\* No frame that is still to be read is ever overwritten.
THEOREM UnreadFramesSafe == Spec => []UnreadFramesIntact
<1>1. IInv => UnreadFramesIntact
  <2> SUFFICES ASSUME IInv, NEW i \in FirstUnread..Len(log)
               PROVE  Intact(i)
    BY DEF UnreadFramesIntact
  <2>1. i \in Freed + 1..Len(log)
    BY EndType DEF Freed, FirstUnread, Current
  <2> QED
    BY <2>1 DEF IInv, HeldIntact
<1> QED
  BY <1>1, Invariance, PTL

\* The ring does not leak space.
THEOREM RingNeverLeaks == Spec => []NoSpaceLost
<1>1. IInv => NoSpaceLost
  <2> SUFFICES ASSUME IInv, pc = "poll", EPKTCNT = 0
               PROVE  FreeSpace = RX_BUFFER_END_ADDR - 1
    BY DEF NoSpaceLost
  <2>1. Len(log) = Len(received) /\ Freed = Len(received)
    BY EndType DEF IInv, Counted, Freed
  <2>2. Base = ERXWRPT
    BY <2>1 DEF IInv, Chained, Base
  <2>3. Dist(Base, ERXWRPT) = 0
    BY <2>2, DistType DEF IInv, TypeOK
  <2> QED
    BY <2>3, SpaceLeft, RingAssumption
<1> QED
  BY <1>1, Invariance, PTL

-----------------------------------------------------------------------------
(* Refinement: the ring implements the FIFO of module RxFifo.              *)

\* The byte counts of the accepted frames, as the FIFO sees them.
Arrived == [i \in 1..Len(log) |-> log[i].count]

\* Both specifications take the same bytes of a frame.
LEMMA SamePayload ==
  \A i : Fifo!Payload(i, log[i].count) = PayloadOf(i)
BY DEF Fifo!Payload, PayloadOf, RxLen

\* Every step is a step of the FIFO, or changes nothing there: accepting a
\* frame is an arrival, counting it off hands it over.
LEMMA FifoStep == IInv /\ [Next]_vars => [Fifo!Next]_(Fifo!vars)
<1> SUFFICES ASSUME IInv, [Next]_vars
             PROVE  Fifo!Next \/ UNCHANGED <<Arrived, received>>
  BY DEF Fifo!vars, Arrived
<1>0. /\ log \in Seq(Frame) /\ Len(log) \in Nat
      /\ Arrived \in Seq(FrameCounts) /\ Len(Arrived) = Len(log)
      /\ \A i \in 1..Len(log) : Arrived[i] = log[i].count
  <2>1. log \in Seq(Frame) /\ Len(log) \in Nat
    BY EndType DEF IInv, TypeOK
  <2>2. Arrived \in [1..Len(log) -> FrameCounts]
    <3>1. \A i \in 1..Len(log) : log[i].count \in FrameCounts
      BY EndType DEF Frame
    <3> QED
      BY <3>1 DEF Arrived
  <2>3. Arrived \in Seq(FrameCounts)
    BY <2>1, <2>2, SeqDef
  <2> QED
    BY <2>1, <2>2, <2>3 DEF Arrived
<1>1. ASSUME NEW count \in FrameCounts, RxAccept(count)
      PROVE  Fifo!Arrive(count)
  <2>1. /\ log' = Append(log, [start |-> ERXWRPT, count |-> count])
        /\ UNCHANGED received /\ Len(log) < MaxFrames
    BY <1>1 DEF RxAccept, driverVars
  <2>2. [start |-> ERXWRPT, count |-> count] \in Frame
    BY DEF IInv, TypeOK, Frame
  <2>3. /\ Len(log') = Len(log) + 1
        /\ \A i \in 1..Len(log) + 1 :
             log'[i].count = IF i = Len(log) + 1 THEN count ELSE log[i].count
    BY <1>0, <2>1, <2>2
  <2>4. Arrived' = Append(Arrived, count)
    <3>1. /\ Append(Arrived, count) \in Seq(FrameCounts)
          /\ Len(Append(Arrived, count)) = Len(log) + 1
          /\ \A i \in 1..Len(log) + 1 :
               Append(Arrived, count)[i]
                 = IF i = Len(log) + 1 THEN count ELSE Arrived[i]
      BY <1>0
    <3>2. Arrived' = [i \in 1..Len(log) + 1 |->
                        IF i = Len(log) + 1 THEN count ELSE Arrived[i]]
      BY <1>0, <2>3 DEF Arrived
    <3>3. Arrived' \in [1..Len(log) + 1 -> FrameCounts]
      BY <1>0, <3>1, <3>2
    <3>4. Arrived' \in Seq(FrameCounts) /\ Len(Arrived') = Len(log) + 1
      BY <1>0, <3>2, <3>3, SeqDef
    <3> QED
      BY <3>1, <3>2, <3>4, SeqEqual
  <2> QED
    BY <1>0, <2>1, <2>4 DEF Fifo!Arrive, Arrived
<1>2. ASSUME CountOff
      PROVE  Fifo!HandOver
  <2>1. /\ received' = Append(received, buf) /\ UNCHANGED log
        /\ pc = "count"
    BY <1>2 DEF CountOff
  <2>2. Current \in 1..Len(log) /\ Current = Len(received) + 1
    BY <2>1, EndType DEF Current
  <2>3. buf = Fifo!Payload(Current, Arrived[Current])
    BY <1>0, <2>1, <2>2, SamePayload DEF IInv, Copied
  <2>4. Current <= Len(Arrived) /\ UNCHANGED Arrived
    BY <1>0, <2>1, <2>2 DEF Arrived
  <2> QED
    BY <2>1, <2>2, <2>3, <2>4 DEF Fifo!HandOver, Arrived
<1>3. CASE UNCHANGED <<log, received>>
  BY <1>3 DEF Arrived
<1>4. ASSUME [Next]_vars
      PROVE  \/ \E count \in FrameCounts : RxAccept(count)
             \/ CountOff
             \/ UNCHANGED <<log, received>>
  BY <1>4 DEF Next, Receiver, Driver, RxReject, PollFrame, PollNone,
     PointAtFrame, ReadHeader, ReadPayload, AdvancePointers, ReleaseSpace,
     chipVars, driverVars, vars
<1> QED
  BY <1>1, <1>2, <1>3, <1>4 DEF Fifo!Next

\* enc28j60_receive_packet hands the accepted frames over in order, each
\* exactly once, with its own bytes.
THEOREM ImplementsFifo == Spec => FifoSpec
<1>1. Init => Fifo!Init
  <2> SUFFICES ASSUME Init PROVE Fifo!Init
    OBVIOUS
  <2>1. Len(log) = 0 /\ received = <<>>
    BY DEF Init
  <2>2. [i \in 1..Len(log) |-> log[i].count] = <<>>
    BY <2>1
  <2> QED
    BY <2>1, <2>2 DEF Fifo!Init
<1> QED
  BY <1>1, FifoStep, Invariance, PTL DEF Spec, FifoSpec, Fifo!Spec

=============================================================================
