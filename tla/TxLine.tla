------------------------------- MODULE TxLine -------------------------------
(***************************************************************************)
(* What the transmit path promises to the network stack: a frame given to  *)
(* it goes out at most once, complete, as the bytes of that very frame and *)
(* before any later one, and the call returns only when the frame has left *)
(* or has been given up by the controller.                                 *)
(* A frame is identified by its position in the order of the calls, a byte *)
(* of it by its position in the frame, from 1.                             *)
(***************************************************************************)
EXTENDS Naturals, Sequences

CONSTANTS FrameLengths,  \* lengths of the frames
          MaxFrames      \* bound: calls in a behaviour

VARIABLES requested,     \* lengths of the frames given to the driver so far
          line,          \* the frames on the line so far
          phase          \* "idle", "queued", or "ended" before the return

vars == <<requested, line, phase>>

Bytes(i, n) == [k \in 1..n |-> <<i, k>>]

Init == requested = <<>> /\ line = <<>> /\ phase = "idle"

Submit(n) ==
  /\ phase = "idle"
  /\ Len(requested) < MaxFrames
  /\ requested' = Append(requested, n)
  /\ phase' = "queued"
  /\ UNCHANGED line

Transmit ==
  /\ phase = "queued"
  /\ LET i == Len(requested) IN line' = Append(line, Bytes(i, requested[i]))
  /\ phase' = "ended"
  /\ UNCHANGED requested

GiveUp == /\ phase = "queued"
          /\ phase' = "ended"
          /\ UNCHANGED <<requested, line>>

Return == /\ phase = "ended"
          /\ phase' = "idle"
          /\ UNCHANGED <<requested, line>>

Next == (\E n \in FrameLengths : Submit(n)) \/ Transmit \/ GiveUp \/ Return

Spec == Init /\ [][Next]_vars
=============================================================================
