------------------------------ MODULE MCRxRing ------------------------------
(***************************************************************************)
(* RxRing on a ring of 40 bytes, in which frames take 8, 10, 12 or 14, so  *)
(* that the wrap falls inside headers, inside payloads and (12+14+14,      *)
(* 8+8+10+14) exactly between two frames; not any three frames fit. Counts *)
(* of 1 and 5 are odd (filler byte). 1 is below and 4 at CRC_SIZE: both    *)
(* keep all their bytes, the 4 up to BUF_SIZE; 8 is cut at BUF_SIZE after  *)
(* its CRC was dropped. EPKTCNT is full at 3 while the space of the oldest *)
(* frame is already back with the receiver.                                *)
(***************************************************************************)
EXTENDS RxRing

const_FrameCounts == {1, 4, 5, 8}
=============================================================================
