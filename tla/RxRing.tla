------------------------------- MODULE RxRing -------------------------------
(***************************************************************************)
(* The receive path: enc28j60_receive_packet (enc28j60.c:43-75) against    *)
(* the receiver of the ENC28J60, which goes on writing frames into the     *)
(* ring RX_BUFFER_START_ADDR..RX_BUFFER_END_ADDR of its buffer memory      *)
(* while the driver, one SPI transaction at a time, reads the oldest one   *)
(* and gives its space back.                                               *)
(*                                                                         *)
(* The buffer memory is modelled byte by byte, but a byte is only the name *)
(* of what is stored there: <<i, k>> is byte k of the i-th frame accepted, *)
(* counted from the first byte of the header the controller puts before    *)
(* the frame, and Junk is a byte of no accepted frame.                     *)
(***************************************************************************)
EXTENDS Integers, Sequences

CONSTANTS RX_BUFFER_END_ADDR,  \* last byte of the ring (odd)
          ENC_HEADER_SIZE,     \* next_packet_ptr, byte_count, status: 6 bytes
          CRC_SIZE,            \* the 4 bytes dropped from every frame
          BUF_SIZE,            \* maxlen, sizeof(eth_buffer)
          MAX_PKTCNT,          \* largest value of the 8-bit EPKTCNT
          FrameCounts,         \* byte counts of the frames on the wire
          MaxFrames            \* bound: frames accepted in a behaviour

ASSUME RingAssumption ==
  /\ RX_BUFFER_END_ADDR \in Nat
  /\ RX_BUFFER_END_ADDR % 2 = 1
  /\ ENC_HEADER_SIZE \in Nat \ {0}
  /\ ENC_HEADER_SIZE % 2 = 0
  /\ ENC_HEADER_SIZE <= RX_BUFFER_END_ADDR
  /\ CRC_SIZE \in Nat
  /\ BUF_SIZE \in Nat
  /\ MAX_PKTCNT \in Nat
  /\ FrameCounts \subseteq Nat
  /\ MaxFrames \in Nat

VARIABLES
  \* the controller
  mem,                 \* buffer memory of the receive ring
  ERXWRPT,             \* where the receiver writes the next frame
  ERXRDPT,             \* the byte the receiver may not reach
  ERDPT,               \* where the next buffer read takes its byte
  EPKTCNT,             \* accepted frames the driver has not counted off
  log,                 \* history: the accepted frames, [start, count]
  \* the driver
  pc,                  \* next SPI transaction of enc28j60_receive_packet
  next_rx_packet_ptr,  \* dev->next_rx_packet_ptr
  enc_header,          \* dev->enc_header
  len,                 \* local of enc28j60_receive_packet
  buf,                 \* the caller's buffer, as far as it was filled
  received             \* history: the contents returned, call by call

chipVars   == <<mem, ERXWRPT, EPKTCNT, log>>
driverVars == <<pc, next_rx_packet_ptr, enc_header, len, buf, received>>
vars == <<mem, ERXWRPT, ERXRDPT, ERDPT, EPKTCNT, log,
          pc, next_rx_packet_ptr, enc_header, len, buf, received>>

RX_BUFFER_START_ADDR == 0
RingSize == RX_BUFFER_END_ADDR + 1
Addr     == RX_BUFFER_START_ADDR..RX_BUFFER_END_ADDR
Junk     == <<0, 0>>

-----------------------------------------------------------------------------
(* Ring arithmetic of the controller.                                      *)

\* An address past the end of the ring continues at its start.
Wrap(a) == IF a > RX_BUFFER_END_ADDR THEN a - RingSize ELSE a

\* Bytes from a forward to b.
Dist(a, b) == IF b >= a THEN b - a ELSE b - a + RingSize

\* Bytes the receiver may write without reaching ERXRDPT.
FreeSpace == RX_BUFFER_END_ADDR - Dist(ERXRDPT, ERXWRPT)

\* Bytes a frame takes in the ring: header, frame, and a filler byte so
\* that the next frame starts at an even address.
Footprint(count) == ENC_HEADER_SIZE + count + (count % 2)

NextPacketPtr(frame) == Wrap(frame.start + Footprint(frame.count))

\* The memory after the receiver wrote n bytes, byte k being cell[k].
Written(n, cell) ==
  [a \in Addr |-> IF Dist(ERXWRPT, a) < n THEN cell[Dist(ERXWRPT, a)]
                                          ELSE mem[a]]

-----------------------------------------------------------------------------
(* The receiver.                                                           *)

\* A frame passes the filters, its CRC is good and it fits.
RxAccept(count) ==
  /\ Len(log) < MaxFrames
  /\ EPKTCNT < MAX_PKTCNT
  /\ Footprint(count) <= FreeSpace
  /\ mem' = Written(Footprint(count), [k \in Addr |-> <<Len(log) + 1, k>>])
  /\ log' = Append(log, [start |-> ERXWRPT, count |-> count])
  /\ ERXWRPT' = Wrap(ERXWRPT + Footprint(count))
  /\ EPKTCNT' = EPKTCNT + 1
  /\ UNCHANGED <<ERXRDPT, ERDPT, driverVars>>

\* A frame fails its CRC check, or finds no room: what was written of it
\* stays in the memory, but the write pointer returns to where it was.
RxReject(count) ==
  /\ LET n == IF Footprint(count) <= FreeSpace THEN Footprint(count)
                                               ELSE FreeSpace
     IN  mem' = Written(n, [k \in Addr |-> Junk])
  /\ UNCHANGED <<ERXWRPT, EPKTCNT, log, ERXRDPT, ERDPT, driverVars>>

-----------------------------------------------------------------------------
(* The driver: enc28j60_receive_packet, one action per SPI transaction.    *)

\* Variant: the last waiting frame is not noticed.
PollFrame_OffByOne ==
  /\ pc = "poll"
  /\ EPKTCNT > 1
  /\ pc' = "point"
  /\ UNCHANGED <<chipVars, ERXRDPT, ERDPT, next_rx_packet_ptr, enc_header,
                 len, buf, received>>

\* if(enc28j60_read_reg(dev, &EPKTCNT))
PollFrame ==
  /\ pc = "poll"
  /\ EPKTCNT # 0
  /\ pc' = "point"
  /\ UNCHANGED <<chipVars, ERXRDPT, ERDPT, next_rx_packet_ptr, enc_header,
                 len, buf, received>>

\* EPKTCNT is 0: return 0, low_level_input returns NULL.
PollNone ==
  /\ pc = "poll"
  /\ EPKTCNT = 0
  /\ UNCHANGED vars

\* enc28j60_write_reg(dev, &ERDPTL, dev->next_rx_packet_ptr)
PointAtFrame ==
  /\ pc = "point"
  /\ ERDPT' = next_rx_packet_ptr
  /\ pc' = "header"
  /\ UNCHANGED <<chipVars, ERXRDPT, next_rx_packet_ptr, enc_header, len,
                 buf, received>>

\* The headers that the bytes from p on can be read as: the one of frame i
\* when they are its header, anything at all when they are not.
HeadersAt(p) ==
  LET IsHeaderOf(i) ==
        \A k \in 0..ENC_HEADER_SIZE - 1 : mem[Wrap(p + k)] = <<i, k>>
      found == {i \in 1..Len(log) : IsHeaderOf(i)}
  IN  IF found # {}
      THEN {[next_packet_ptr |-> NextPacketPtr(log[i]),
             byte_count      |-> log[i].count] : i \in found}
      ELSE [next_packet_ptr : Addr, byte_count : FrameCounts]

\* Variant: the CRC is not dropped.
RxLen_KeepCrc(count) == IF count > BUF_SIZE THEN BUF_SIZE ELSE count

\* Variant: the CRC is dropped from frames that are too short for one, too,
\* and the 16 bits of len wrap.
RxLen_Wrap(count) ==
  LET stripped == (count - CRC_SIZE) % 65536
  IN  IF stripped > BUF_SIZE THEN BUF_SIZE ELSE stripped

\* uint16_t len: the CRC is dropped and the rest cut at maxlen.
RxLen(count) ==
  LET stripped == IF count > CRC_SIZE THEN count - CRC_SIZE ELSE count
  IN  IF stripped > BUF_SIZE THEN BUF_SIZE ELSE stripped

\* Variant: the space is given back as soon as the header is known.
ReadHeader_ReleaseEarly ==
  /\ pc = "header"
  /\ \E h \in HeadersAt(ERDPT) :
       /\ enc_header' = h
       /\ len' = RxLen(h.byte_count)
       /\ ERXRDPT' = IF h.next_packet_ptr = RX_BUFFER_START_ADDR
                     THEN RX_BUFFER_END_ADDR ELSE h.next_packet_ptr - 1
  /\ ERDPT' = Wrap(ERDPT + ENC_HEADER_SIZE)
  /\ pc' = "payload"
  /\ UNCHANGED <<chipVars, next_rx_packet_ptr, buf, received>>

\* enc28j60_read_rx_header, and the length from its byte_count
ReadHeader ==
  /\ pc = "header"
  /\ \E h \in HeadersAt(ERDPT) : enc_header' = h /\ len' = RxLen(h.byte_count)
  /\ ERDPT' = Wrap(ERDPT + ENC_HEADER_SIZE)
  /\ pc' = "payload"
  /\ UNCHANGED <<chipVars, ERXRDPT, next_rx_packet_ptr, buf, received>>

\* enc28j60_read_buf(dev, buf, len)
ReadPayload ==
  /\ pc = "payload"
  /\ buf' = [k \in 1..len |-> mem[Wrap(ERDPT + k - 1)]]
  /\ ERDPT' = Wrap(ERDPT + len)
  /\ pc' = "advance"
  /\ UNCHANGED <<chipVars, ERXRDPT, next_rx_packet_ptr, enc_header, len,
                 received>>

\* dev->next_rx_packet_ptr and ERDPT move to the next frame
AdvancePointers ==
  /\ pc = "advance"
  /\ next_rx_packet_ptr' = enc_header.next_packet_ptr
  /\ ERDPT' = enc_header.next_packet_ptr
  /\ pc' = "release"
  /\ UNCHANGED <<chipVars, ERXRDPT, enc_header, len, buf, received>>

\* Variant: the pointer is not moved back by one.
ReleasePtr_NoDecrement(next) ==
  IF next = RX_BUFFER_START_ADDR THEN RX_BUFFER_END_ADDR ELSE next

\* The value written to ERXRDPT once everything before next was read.
ReleasePtr(next) == IF next = RX_BUFFER_START_ADDR THEN RX_BUFFER_END_ADDR
                                                   ELSE next - 1

\* ERXRDPT gives the space of the frame back to the receiver
ReleaseSpace ==
  /\ pc = "release"
  /\ ERXRDPT' = ReleasePtr(enc_header.next_packet_ptr)
  /\ pc' = "count"
  /\ UNCHANGED <<chipVars, ERDPT, next_rx_packet_ptr, enc_header, len, buf,
                 received>>

\* ECON2.PKTDEC decrements EPKTCNT, and len is returned
CountOff ==
  /\ pc = "count"
  /\ EPKTCNT' = EPKTCNT - 1
  /\ received' = Append(received, buf)
  /\ pc' = "poll"
  /\ UNCHANGED <<mem, ERXWRPT, log, ERXRDPT, ERDPT, next_rx_packet_ptr,
                 enc_header, len, buf>>

-----------------------------------------------------------------------------
\* enc28j60_init and the end of enc28j60_ll_init, where reception starts
Init ==
  /\ mem = [a \in Addr |-> Junk]
  /\ ERXWRPT = RX_BUFFER_START_ADDR
  /\ ERXRDPT = RX_BUFFER_END_ADDR
  /\ ERDPT \in Addr
  /\ EPKTCNT = 0
  /\ log = <<>>
  /\ pc = "poll"
  /\ next_rx_packet_ptr = RX_BUFFER_START_ADDR
  /\ enc_header = [next_packet_ptr |-> RX_BUFFER_START_ADDR, byte_count |-> 0]
  /\ len = 0
  /\ buf = <<>>
  /\ received = <<>>

Receiver == \E count \in FrameCounts : RxAccept(count) \/ RxReject(count)

Driver == \/ PollFrame \/ PollNone \/ PointAtFrame \/ ReadHeader
          \/ ReadPayload \/ AdvancePointers \/ ReleaseSpace \/ CountOff

Next == Receiver \/ Driver

Spec == Init /\ [][Next]_vars

\* main never stops calling low_level_input, and no step of it waits for
\* the receiver; the receiver is free to do nothing at all.
FairSpec == Spec /\ WF_vars(Driver)

-----------------------------------------------------------------------------
(* Properties.                                                             *)

Cell      == (0..MaxFrames) \X Nat
Frame     == [start : Addr, count : FrameCounts]
RxHeader  == [next_packet_ptr : Addr, byte_count : FrameCounts \union {0}]

\* Every register, pointer and history variable keeps its type: in
\* particular no pointer the driver writes ever leaves the ring
\* (enc28j60.c:58-65).
TypeOK ==
  /\ mem \in [Addr -> Cell]
  /\ ERXWRPT \in Addr /\ ERXRDPT \in Addr /\ ERDPT \in Addr
  /\ EPKTCNT \in 0..MAX_PKTCNT
  /\ log \in Seq(Frame)
  /\ pc \in {"poll", "point", "header", "payload", "advance", "release",
            "count"}
  /\ next_rx_packet_ptr \in Addr
  /\ enc_header \in RxHeader
  /\ len \in 0..BUF_SIZE
  /\ buf \in Seq(Cell)
  /\ received \in Seq(Seq(Cell))

\* The frame enc28j60_receive_packet works on, or would work on next.
Current == Len(received) + 1

\* The first frame whose payload is still needed from the buffer memory.
FirstUnread == IF pc \in {"advance", "release", "count"} THEN Current + 1
                                                        ELSE Current

Intact(i) == \A k \in 0..Footprint(log[i].count) - 1 :
               mem[Wrap(log[i].start + k)] = <<i, k>>

\* The receiver never overwrites a byte of a frame that the driver has still
\* to read, whatever it writes and at whatever point of
\* enc28j60_receive_packet it writes it: the order "copy, then move ERXRDPT"
\* of enc28j60.c:55-65 is what this rests on.
UnreadFramesIntact == \A i \in FirstUnread..Len(log) : Intact(i)

\* No space is lost: whenever no frame is waiting between two calls of
\* enc28j60_receive_packet, the receiver can use the whole ring again but for
\* the two bytes that keep its pointers apart (enc28j60.c:60-65, with the
\* special case at the start of the ring).
NoSpaceLost == pc = "poll" /\ EPKTCNT = 0 => FreeSpace = RX_BUFFER_END_ADDR - 1

\* enc28j60_receive_packet hands over exactly the frames the controller has
\* accepted, in order, each once, as its own bytes without header and CRC:
\* the FIFO of module RxFifo.
Fifo == INSTANCE RxFifo WITH arrived <- [i \in 1..Len(log) |-> log[i].count],
                             handed  <- received
FifoSpec == Fifo!Spec

\* Every accepted frame is handed over in the end: the polling of EPKTCNT in
\* main's loop never leaves one behind (enc28j60.c:45, main.c:120-123).
EveryFrameReceived ==
  \A i \in 1..MaxFrames : Len(log) >= i ~> Len(received) >= i

=============================================================================
