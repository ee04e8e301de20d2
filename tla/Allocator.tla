----------------------------- MODULE Allocator -----------------------------
(***************************************************************************)
(* What a heap promises: a region that is given out is inside the memory,  *)
(* aligned, large enough for its header and the bytes asked for, and       *)
(* shares no byte with any other; it stays where it is until it is given   *)
(* back; and a request is refused only if no place is left for it.         *)
(***************************************************************************)
EXTENDS Integers

CONSTANTS Memory,   \* its bytes are 0..Memory - 1
          Header,   \* bytes in front of every region
          Align,    \* every region starts at a multiple of this
          Requests  \* numbers of bytes that are asked for

VARIABLES regions,  \* regions given out: the first byte, the first byte
                    \* behind it, and the number of bytes asked for
          result    \* of the last call: a region's first byte, or None

vars == <<regions, result>>

None == -1

Region(start, end, size) == [start |-> start, end |-> end, size |-> size]

Overlap(r, s) == r.start < s.end /\ s.start < r.end

Fits(r) == /\ r.start \in 0..Memory /\ r.end \in 0..Memory
           /\ r.start % Align = 0
           /\ r.end - r.start >= Header + r.size

Free(r) == Fits(r) /\ \A s \in regions : ~Overlap(r, s)

Init == regions = {} /\ result = None

\* A region for n bytes.
Malloc(n) ==
  \E end \in 0..Memory :
    LET r == Region(result', end, n)
    IN  Free(r) /\ regions' = regions \union {r}

\* Refused: nothing was asked for, or there is no place.
Refuse(n) ==
  /\ \/ n = 0
     \/ \A start \in 0..Memory : ~Free(Region(start, start + Header + n, n))
  /\ result' = None
  /\ UNCHANGED regions

GiveBack == \E r \in regions : regions' = regions \ {r} /\ UNCHANGED result

\* A region is shortened to n bytes or more.
Trim(n) ==
  \E r \in regions, end \in 0..Memory :
    LET s == Region(r.start, end, n)
    IN  /\ Fits(s) /\ end <= r.end
        /\ regions' = (regions \ {r}) \union {s}
        /\ result' = r.start

Next == \/ \E n \in Requests : Malloc(n) \/ Refuse(n) \/ Trim(n)
        \/ GiveBack

Spec == Init /\ [][Next]_vars
=============================================================================
