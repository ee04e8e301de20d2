------------------------------- MODULE RxFifo -------------------------------
(***************************************************************************)
(* What the receive path promises to the network stack, with the ring      *)
(* buffer, its pointers and the SPI transactions left out: the frames the  *)
(* controller has accepted are handed over one at a time, in the order in  *)
(* which they arrived, each exactly once, as the bytes of that very frame  *)
(* without its CRC and cut at the size of the caller's buffer.             *)
(* A frame is identified by its position in the order of arrival; a byte   *)
(* of it by its position in the frame, counted from the start of the       *)
(* header the controller puts before it.                                   *)
(***************************************************************************)
EXTENDS Naturals, Sequences

CONSTANTS FrameCounts,       \* byte counts a frame may have, CRC included
          BUF_SIZE,          \* maxlen: size of the buffer of the caller
          ENC_HEADER_SIZE,   \* bytes of header before a frame
          CRC_SIZE,          \* bytes of CRC at the end of a frame
          MaxFrames          \* bound: frames that arrive in a behaviour

VARIABLES arrived,           \* byte counts of the frames accepted so far
          handed             \* what has been handed over so far

vars == <<arrived, handed>>

Payload(i, count) ==
  LET stripped == IF count > CRC_SIZE THEN count - CRC_SIZE ELSE count
      len      == IF stripped > BUF_SIZE THEN BUF_SIZE ELSE stripped
  IN  [k \in 1..len |-> <<i, ENC_HEADER_SIZE + k - 1>>]

Init == arrived = <<>> /\ handed = <<>>

Arrive(count) ==
  /\ Len(arrived) < MaxFrames
  /\ arrived' = Append(arrived, count)
  /\ UNCHANGED handed

HandOver ==
  LET i == Len(handed) + 1
  IN  /\ i <= Len(arrived)
      /\ handed' = Append(handed, Payload(i, arrived[i]))
      /\ UNCHANGED arrived

Next == HandOver \/ \E count \in FrameCounts : Arrive(count)

Spec == Init /\ [][Next]_vars

FairSpec == Spec /\ WF_vars(HandOver)
=============================================================================
