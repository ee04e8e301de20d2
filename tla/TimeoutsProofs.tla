--------------------------- MODULE TimeoutsProofs ---------------------------
(***************************************************************************)
(* Proofs about Timeouts, for a clock of any range, any cyclic timers,     *)
(* intervals and pool size, and any lateness of main's loop that the range *)
(* of the clock can bear.                                                  *)
(***************************************************************************)
EXTENDS Timeouts, SequenceTheorems,
        WellFoundedInduction, NaturalsInduction, TLAPS

-----------------------------------------------------------------------------
(* The inductive invariant.                                                *)

Timers  == Cyclic \union OneShot
Time    == 0..TIME_MOD - 1
Entries == [timer : Timers, time : Time, left : Int]

TypeOK ==
  /\ sys_time \in Time
  /\ next_timeout \in Seq(Entries)
  /\ running \in Timers \union {NoTimer}
  /\ current_timeout_due_time \in Time
  /\ pc \in {"init", "main", "loop", "handler"}
  /\ started \in Time
  /\ behind \in 0..MaxLate
  /\ late \in 0..MaxLate

\* The numbers the code keeps are the real distances, as the clock shows them.
TimesTrue ==
  \A i \in 1..Len(next_timeout) :
    next_timeout[i].time = U32(sys_time + next_timeout[i].left)

CallTrue ==
  /\ pc \in {"loop", "handler"} => started = U32(sys_time - late)
  /\ pc = "handler" => current_timeout_due_time = U32(sys_time - behind)

\* No two times that are ever compared are half the range or more apart.
InWindow ==
  /\ \A i \in 1..Len(next_timeout) :
       /\ -MaxLate <= next_timeout[i].left
       /\ next_timeout[i].left + late <= LWIP_MAX_TIMEOUT
  /\ \A i, j \in 1..Len(next_timeout) :
       next_timeout[j].left - next_timeout[i].left <= LWIP_MAX_TIMEOUT

\* What holds only during a call.
Calls ==
  /\ pc \in {"init", "main"} => late = 0
  /\ pc # "handler" => behind = 0 /\ running = NoTimer

\* A running cyclic timer has its place in the pool.
PlaceKept ==
  /\ Len(next_timeout) <= MEMP_NUM_SYS_TIMEOUT
  /\ running \in Cyclic => Len(next_timeout) < MEMP_NUM_SYS_TIMEOUT
  /\ pc = "init" => Len(next_timeout) < Len(lwip_cyclic_timers)

Listed(t) == \E i \in 1..Len(next_timeout) : next_timeout[i].timer = t

\* No cyclic timer is there twice.
Unique ==
  \A i, j \in 1..Len(next_timeout) :
    next_timeout[i].timer \in Cyclic
      /\ next_timeout[j].timer = next_timeout[i].timer => i = j

Once == Unique /\ (running \in Cyclic => ~Listed(running))

\* sys_timeouts_init has registered the first of the cyclic timers; from then
\* on all are there.
Present ==
  /\ pc = "init" =>
       \A t : Listed(t) <=> \E k \in 1..Len(next_timeout) :
                              t = lwip_cyclic_timers[k]
  /\ pc # "init" => \A t \in Cyclic : running = t \/ Listed(t)

IInv == TypeOK /\ TimesTrue /\ CallTrue /\ InWindow /\ Calls /\ PlaceKept
          /\ Once /\ Present /\ Sorted

-----------------------------------------------------------------------------
(* The clock.                                                              *)

\* What the assumptions say of the range of the clock.
LEMMA ClockRange ==
  /\ TIME_MOD \in Nat \ {0} /\ LWIP_MAX_TIMEOUT \in Nat /\ MaxLate \in Nat
  /\ TIME_MOD = 2 * LWIP_MAX_TIMEOUT + 2
  /\ 2 * MaxLate <= LWIP_MAX_TIMEOUT
<1>1. /\ TIME_MOD \in Nat /\ TIME_MOD % 4 = 0 /\ TIME_MOD > 0
      /\ MaxLate \in Nat /\ 2 * MaxLate <= LWIP_MAX_TIMEOUT
  BY TimeoutsAssumption
<1>2. ASSUME NEW m \in Nat, m % 4 = 0, m > 0
      PROVE  m = 2 * (m \div 2 - 1) + 2 /\ m \div 2 - 1 \in Nat
  BY <1>2, SMT
<1> QED
  BY <1>1, <1>2 DEF LWIP_MAX_TIMEOUT

\* The conversion to u32_t, for a value at most one turn outside the range.
LEMMA U32Is ==
  ASSUME NEW n \in Int, -TIME_MOD <= n, n < 2 * TIME_MOD
  PROVE  /\ U32(n) = IF n < 0 THEN n + TIME_MOD
                     ELSE IF n < TIME_MOD THEN n ELSE n - TIME_MOD
         /\ U32(n) \in Time
<1>1. TIME_MOD \in Nat /\ TIME_MOD > 0
  BY ClockRange
<1>2. ASSUME NEW m \in Nat, m > 0, -m <= n, n < 2 * m
      PROVE  n % m = IF n < 0 THEN n + m ELSE IF n < m THEN n ELSE n - m
  BY <1>2, SMT
<1> QED
  BY <1>1, <1>2 DEF U32, Time

\* Two moments less than half the range away from each other, however the
\* clock wraps between them, are compared as they are in reality.
LEMMA ComparedTrue ==
  ASSUME NEW now \in Time, NEW x \in Int, NEW y \in Int,
         -LWIP_MAX_TIMEOUT <= x, x <= LWIP_MAX_TIMEOUT,
         -LWIP_MAX_TIMEOUT <= y, y <= LWIP_MAX_TIMEOUT,
         x - y <= LWIP_MAX_TIMEOUT, y - x <= LWIP_MAX_TIMEOUT
  PROVE  TIME_LESS_THAN(U32(now + x), U32(now + y)) <=> x < y
<1> DEFINE a == U32(now + x)
           b == U32(now + y)
<1>1. now \in Int /\ 0 <= now /\ now < TIME_MOD
  BY ClockRange DEF Time
<1>2. /\ a = IF now + x < 0 THEN (now + x) + TIME_MOD
             ELSE IF now + x < TIME_MOD THEN now + x
             ELSE (now + x) - TIME_MOD
      /\ a \in Time
  BY <1>1, ClockRange, U32Is
<1>3. /\ b = IF now + y < 0 THEN (now + y) + TIME_MOD
             ELSE IF now + y < TIME_MOD THEN now + y
             ELSE (now + y) - TIME_MOD
      /\ b \in Time
  BY <1>1, ClockRange, U32Is
<1>4. a \in Int /\ b \in Int /\ 0 <= a /\ a < TIME_MOD /\ 0 <= b /\ b < TIME_MOD
  BY <1>2, <1>3, ClockRange DEF Time
<1>5. U32(a - b) = IF a - b < 0 THEN (a - b) + TIME_MOD ELSE a - b
  BY <1>4, ClockRange, U32Is
<1> HIDE DEF a, b
<1>6. U32(a - b) > LWIP_MAX_TIMEOUT <=> x < y
  BY <1>1, <1>2, <1>3, <1>4, <1>5, ClockRange
<1> QED
  BY <1>6 DEF TIME_LESS_THAN, a, b

\* A moment reached in two steps.
LEMMA AddTwice ==
  ASSUME NEW now \in Time, NEW x \in Int, NEW y \in Int,
         -LWIP_MAX_TIMEOUT <= x, x <= LWIP_MAX_TIMEOUT,
         -LWIP_MAX_TIMEOUT - 1 <= y, y <= LWIP_MAX_TIMEOUT,
         -LWIP_MAX_TIMEOUT <= x + y, x + y <= LWIP_MAX_TIMEOUT
  PROVE  U32(now + x) \in Time /\ U32(U32(now + x) + y) = U32(now + (x + y))
<1> DEFINE a == U32(now + x)
<1>1. now \in Int /\ 0 <= now /\ now < TIME_MOD
  BY ClockRange DEF Time
<1>2. a = (IF now + x < 0 THEN (now + x) + TIME_MOD
           ELSE IF now + x < TIME_MOD THEN now + x
           ELSE (now + x) - TIME_MOD)
      /\ a \in Time
  BY <1>1, ClockRange, U32Is
<1>3. a \in Int /\ 0 <= a /\ a < TIME_MOD
  BY <1>2, ClockRange DEF Time
<1> HIDE DEF a
<1>4. U32(a + y) = IF a + y < 0 THEN (a + y) + TIME_MOD
                   ELSE IF a + y < TIME_MOD THEN a + y
                   ELSE (a + y) - TIME_MOD
  BY <1>3, ClockRange, U32Is
<1>5. U32(now + (x + y)) =
        IF now + (x + y) < 0 THEN (now + (x + y)) + TIME_MOD
        ELSE IF now + (x + y) < TIME_MOD THEN now + (x + y)
        ELSE (now + (x + y)) - TIME_MOD
  BY <1>1, ClockRange, U32Is
<1>6. U32(a + y) = U32(now + (x + y))
  BY <1>1, <1>2, <1>3, <1>4, <1>5, ClockRange
<1> QED
  BY <1>2, <1>6 DEF a

\* The distance between two moments, carried over to another.
LEMMA Rebase ==
  ASSUME NEW now \in Time, NEW x \in Int, NEW y \in Int,
         -LWIP_MAX_TIMEOUT <= x, x <= LWIP_MAX_TIMEOUT,
         -LWIP_MAX_TIMEOUT <= y, y <= LWIP_MAX_TIMEOUT,
         0 <= x - y, x - y <= LWIP_MAX_TIMEOUT
  PROVE  /\ U32((U32(now + x) - U32(now + y)) + now) = U32(now + (x - y))
         /\ U32(now + (x - y)) \in Time
<1> DEFINE a == U32(now + x)
           b == U32(now + y)
<1>1. now \in Int /\ 0 <= now /\ now < TIME_MOD
  BY ClockRange DEF Time
<1>2. a = (IF now + x < 0 THEN (now + x) + TIME_MOD
           ELSE IF now + x < TIME_MOD THEN now + x
           ELSE (now + x) - TIME_MOD)
      /\ a \in Time
  BY <1>1, ClockRange, U32Is
<1>3. b = (IF now + y < 0 THEN (now + y) + TIME_MOD
           ELSE IF now + y < TIME_MOD THEN now + y
           ELSE (now + y) - TIME_MOD)
      /\ b \in Time
  BY <1>1, ClockRange, U32Is
<1>4. a \in Int /\ b \in Int /\ 0 <= a /\ a < TIME_MOD /\ 0 <= b /\ b < TIME_MOD
  BY <1>2, <1>3, ClockRange DEF Time
<1> HIDE DEF a, b
<1>5. U32((a - b) + now) =
        IF (a - b) + now < 0 THEN ((a - b) + now) + TIME_MOD
        ELSE IF (a - b) + now < TIME_MOD THEN (a - b) + now
        ELSE ((a - b) + now) - TIME_MOD
  BY <1>1, <1>4, ClockRange, U32Is
<1>6. /\ U32(now + (x - y)) =
           IF now + (x - y) < TIME_MOD THEN now + (x - y)
           ELSE (now + (x - y)) - TIME_MOD
      /\ U32(now + (x - y)) \in Time
  BY <1>1, ClockRange, U32Is
<1>7. U32((a - b) + now) = U32(now + (x - y))
  BY <1>1, <1>2, <1>3, <1>4, <1>5, <1>6, ClockRange
<1> QED
  BY <1>6, <1>7 DEF a, b

-----------------------------------------------------------------------------
(* The list.                                                               *)

\* new is list with e after its first n elements.
Placed(list, e, new, n) ==
  /\ n \in 0..Len(list)
  /\ Len(new) = Len(list) + 1
  /\ \A i \in 1..Len(new) : new[i] = IF i <= n THEN list[i]
                                     ELSE IF i = n + 1 THEN e ELSE list[i - 1]

\* The least of a set of natural numbers exists and is the one chosen.
LEMMA Least ==
  ASSUME NEW S, S \subseteq Nat, S # {}
  PROVE  /\ (CHOOSE i \in S : \A j \in S : i <= j) \in S
         /\ \A j \in S : (CHOOSE i \in S : \A k \in S : i <= k) <= j
<1>1. PICK x \in S : \A y \in S : ~(<<y, x>> \in OpToRel(<, Nat))
  BY WFMin, NatLessThanWellFounded, Zenon
<1>2. \A y \in S : ~(y < x)
  BY <1>1 DEF OpToRel
<1> DEFINE c == CHOOSE i \in S : \A j \in S : i <= j
<1>3. \E i \in S : \A j \in S : i <= j
  BY <1>2
<1>4. c \in S /\ \A j \in S : c <= j
  BY <1>3
<1> QED
  BY <1>4

\* What Insert returns: the list with the timeout after all that are not
\* later and before the first that is.
LEMMA InsertPlaces ==
  ASSUME NEW list \in Seq(Entries), NEW e \in Entries
  PROVE  /\ Insert(list, e) \in Seq(Entries)
         /\ \E n \in 0..Len(list) :
              /\ Placed(list, e, Insert(list, e), n)
              /\ \A i \in 1..n : ~TIME_LESS_THAN(e.time, list[i].time)
              /\ n < Len(list) => TIME_LESS_THAN(e.time, list[n + 1].time)
<1> DEFINE later == {i \in 1..Len(list) :
                       TIME_LESS_THAN(e.time, list[i].time)}
           first == CHOOSE i \in later : \A j \in later : i <= j
           n == IF later = {} THEN Len(list) ELSE first - 1
           a == SubSeq(list, 1, n)
           b == SubSeq(list, n + 1, Len(list))
<1>1. Len(list) \in Nat /\ \A i \in 1..Len(list) : list[i] \in Entries
  BY LenProperties, ElementOfSeq
<1>2. later # {} => first \in later /\ \A j \in later : first <= j
  <2>1. later \subseteq Nat
    BY <1>1
  <2> HIDE DEF later
  <2> QED
    BY <2>1, Least
<1>3. /\ n \in 0..Len(list)
      /\ \A i \in 1..n : ~TIME_LESS_THAN(e.time, list[i].time)
      /\ n < Len(list) => TIME_LESS_THAN(e.time, list[n + 1].time)
  <2>1. CASE later = {}
    BY <1>1, <2>1
  <2>2. CASE later # {}
    <3> DEFINE f == first
    <3>1. f \in later /\ \A j \in later : f <= j
      BY <1>2, <2>2
    <3>2. n = f - 1
      BY <2>2
    <3> HIDE DEF f, n
    <3>3. f \in 1..Len(list) /\ TIME_LESS_THAN(e.time, list[f].time)
      BY <3>1
    <3>4. \A i \in 1..n : i \in 1..Len(list) /\ i \notin later
      BY <3>1, <3>2, <3>3, <1>1
    <3>5. n + 1 = f /\ n \in 0..Len(list)
      BY <3>2, <3>3, <1>1
    <3> QED
      BY <3>3, <3>4, <3>5
  <2> QED
    BY <2>1, <2>2
<1> HIDE DEF n
<1>4. /\ a \in Seq(Entries) /\ Len(a) = n
      /\ \A i \in 1..n : a[i] = list[i]
  BY <1>1, <1>3, SubSeqProperties
<1>5. /\ b \in Seq(Entries) /\ Len(b) = Len(list) - n
      /\ \A i \in 1..Len(b) : b[i] = list[n + i]
  BY <1>1, <1>3, SubSeqProperties
<1> HIDE DEF a, b
<1> DEFINE new == a \o <<e>> \o b
<1>6. Insert(list, e) = new
  BY DEF Insert, a, b, n
<1>7. /\ a \o <<e>> \in Seq(Entries) /\ Len(a \o <<e>>) = n + 1
      /\ \A i \in 1..n : (a \o <<e>>)[i] = list[i]
      /\ (a \o <<e>>)[n + 1] = e
  BY <1>3, <1>4
<1> DEFINE ae == a \o <<e>>
<1> HIDE DEF ae
<1>8. new = ae \o b
  BY DEF ae
<1>9. /\ ae \in Seq(Entries) /\ Len(ae) = n + 1
      /\ \A i \in 1..n : ae[i] = list[i]
      /\ ae[n + 1] = e
  BY <1>7 DEF ae
<1> HIDE DEF new
<1>10. /\ new \in Seq(Entries) /\ Len(new) = Len(ae) + Len(b)
       /\ \A i \in 1..Len(ae) + Len(b) :
            new[i] = IF i <= Len(ae) THEN ae[i] ELSE b[i - Len(ae)]
  BY <1>8, <1>9, <1>5, ConcatProperties
<1>11. Placed(list, e, new, n)
  <2>1. Len(new) = Len(list) + 1
    BY <1>1, <1>3, <1>5, <1>9, <1>10
  <2>2. ASSUME NEW i \in 1..Len(new)
        PROVE  new[i] = IF i <= n THEN list[i]
                        ELSE IF i = n + 1 THEN e ELSE list[i - 1]
    <3>1. i \in 1..Len(ae) + Len(b)
      BY <1>10
    <3>2. new[i] = IF i <= n + 1 THEN ae[i] ELSE b[i - (n + 1)]
      BY <3>1, <1>10, <1>9
    <3>3. CASE i <= n
      BY <3>2, <3>3, <1>9, <1>3
    <3>4. CASE i = n + 1
      BY <3>2, <3>4, <1>9, <1>3
    <3>5. CASE i > n + 1
      <4>1. i - (n + 1) \in 1..Len(b) /\ n + (i - (n + 1)) = i - 1
        BY <3>5, <2>1, <1>5, <1>3, <1>1
      <4> QED
        BY <4>1, <3>2, <3>5, <1>5, <1>3
    <3> QED
      BY <3>3, <3>4, <3>5, <1>3
  <2> QED
    BY <2>1, <2>2, <1>3 DEF Placed
<1> QED
  BY <1>3, <1>6, <1>10, <1>11

\* A timeout that leaves the list: the others keep their order.
LEMMA RemoveCloses ==
  ASSUME NEW list \in Seq(Entries), NEW k \in 1..Len(list)
  PROVE  LET new == SubSeq(list, 1, k - 1) \o SubSeq(list, k + 1, Len(list))
         IN  /\ new \in Seq(Entries)
             /\ Len(new) = Len(list) - 1
             /\ \A i \in 1..Len(new) :
                  new[i] = IF i < k THEN list[i] ELSE list[i + 1]
<1> DEFINE a == SubSeq(list, 1, k - 1)
           b == SubSeq(list, k + 1, Len(list))
           new == a \o b
<1>1. /\ Len(list) \in Nat /\ k \in Nat /\ 1 <= k /\ k <= Len(list)
      /\ \A i \in 1..Len(list) : list[i] \in Entries
  BY LenProperties, ElementOfSeq
<1>2. /\ a \in Seq(Entries) /\ Len(a) = k - 1
      /\ \A i \in 1..k - 1 : a[i] = list[i]
  BY <1>1, SubSeqProperties
<1>3. /\ b \in Seq(Entries) /\ Len(b) = Len(list) - k
      /\ \A i \in 1..Len(b) : b[i] = list[k + i]
  BY <1>1, SubSeqProperties
<1> HIDE DEF a, b
<1>4. /\ new \in Seq(Entries) /\ Len(new) = Len(a) + Len(b)
      /\ \A i \in 1..Len(a) + Len(b) :
           new[i] = IF i <= Len(a) THEN a[i] ELSE b[i - Len(a)]
  BY <1>2, <1>3, ConcatProperties
<1> HIDE DEF new
<1>5. ASSUME NEW i \in 1..Len(new)
      PROVE  new[i] = IF i < k THEN list[i] ELSE list[i + 1]
  <2>1. CASE i < k
    BY <1>1, <1>2, <1>3, <1>4, <2>1
  <2>2. CASE i >= k
    <3>1. i - (k - 1) \in 1..Len(b) /\ k + (i - (k - 1)) = i + 1
      BY <1>1, <1>2, <1>3, <1>4, <2>2
    <3> QED
      BY <1>1, <1>2, <1>3, <1>4, <2>2, <3>1
  <2> QED
    BY <1>1, <2>1, <2>2
<1>6. Len(new) = Len(list) - 1
  BY <1>1, <1>2, <1>3, <1>4
<1> QED
  BY <1>4, <1>5, <1>6 DEF new, a, b

\* The types of the list and its entries.
LEMMA ListTyped ==
  ASSUME TypeOK
  PROVE  /\ Len(next_timeout) \in Nat
         /\ \A i \in 1..Len(next_timeout) :
              /\ next_timeout[i] \in Entries
              /\ next_timeout[i].timer \in Timers
              /\ next_timeout[i].time \in Time
              /\ next_timeout[i].left \in Int
<1>1. next_timeout \in Seq(Entries)
  BY DEF TypeOK
<1>2. Len(next_timeout) \in Nat
  BY <1>1, LenProperties
<1>3. \A i \in 1..Len(next_timeout) : next_timeout[i] \in Entries
  BY <1>1, ElementOfSeq
<1> QED
  BY <1>2, <1>3 DEF Entries

\* A timeout that is registered for a time the range can bear takes its place
\* in the order.
LEMMA InsertKeeps ==
  ASSUME IInv,
         NEW timer \in Timers, NEW left \in Int,
         0 <= left, left + MaxLate <= LWIP_MAX_TIMEOUT,
         next_timeout' = Insert(next_timeout,
                                Entry(timer, U32(sys_time + left), left)),
         sys_time' = sys_time, late' = late
  PROVE  /\ next_timeout' \in Seq(Entries)
         /\ TimesTrue' /\ InWindow' /\ Sorted'
         /\ \E n \in 0..Len(next_timeout) :
              Placed(next_timeout, Entry(timer, U32(sys_time + left), left),
                     next_timeout', n)
<1> DEFINE e == Entry(timer, U32(sys_time + left), left)
           list == next_timeout
           N == Len(next_timeout)
<1>1. /\ sys_time \in Time /\ list \in Seq(Entries) /\ late \in 0..MaxLate
      /\ N \in Nat
      /\ \A i \in 1..N : list[i] \in Entries /\ list[i].left \in Int
  <2>1. TypeOK
    BY DEF IInv
  <2> QED
    BY <2>1, ListTyped DEF TypeOK
<1>2. e \in Entries /\ e.left = left /\ e.time = U32(sys_time + left)
  <2>1. sys_time + left \in Int /\ -TIME_MOD <= sys_time + left
          /\ sys_time + left < 2 * TIME_MOD
    BY <1>1, ClockRange DEF Time
  <2>2. U32(sys_time + left) \in Time
    BY <2>1, U32Is
  <2> QED
    BY <2>2 DEF Entries, Entry
<1> HIDE DEF e
<1>3. PICK n \in 0..N :
        /\ Placed(list, e, next_timeout', n)
        /\ \A i \in 1..n : ~TIME_LESS_THAN(e.time, list[i].time)
        /\ n < N => TIME_LESS_THAN(e.time, list[n + 1].time)
  BY <1>1, <1>2, InsertPlaces DEF e
<1>4. next_timeout' \in Seq(Entries)
  BY <1>1, <1>2, InsertPlaces DEF e
<1>5. /\ Len(next_timeout') = N + 1
      /\ \A i \in 1..N + 1 :
           next_timeout'[i] = IF i <= n THEN list[i]
                              ELSE IF i = n + 1 THEN e ELSE list[i - 1]
  BY <1>3 DEF Placed
<1> DEFINE L(i) == list[i].left
           M(i) == next_timeout'[i].left
<1>6. \A i \in 1..N :
        /\ L(i) \in Int
        /\ list[i].time = U32(sys_time + L(i))
        /\ -MaxLate <= L(i)
        /\ L(i) + late <= LWIP_MAX_TIMEOUT
        /\ \A j \in 1..N : L(j) - L(i) <= LWIP_MAX_TIMEOUT
        /\ \A j \in 1..N : i <= j => L(i) <= L(j)
  BY <1>1 DEF IInv, TimesTrue, InWindow, Sorted
<1>7. \A i \in 1..N + 1 :
        M(i) = IF i <= n THEN L(i) ELSE IF i = n + 1 THEN left ELSE L(i - 1)
  BY <1>5, <1>2
<1> HIDE DEF L
<1>8. late \in Int /\ 0 <= late /\ late <= MaxLate /\ MaxLate \in Int
        /\ LWIP_MAX_TIMEOUT \in Int /\ 2 * MaxLate <= LWIP_MAX_TIMEOUT
  BY <1>1, ClockRange
<1>9. ASSUME NEW i \in 1..N
      PROVE  TIME_LESS_THAN(e.time, list[i].time) <=> left < L(i)
  <2>1. /\ L(i) \in Int /\ -MaxLate <= L(i) /\ L(i) <= LWIP_MAX_TIMEOUT
    BY <1>6, <1>8
  <2>2. TIME_LESS_THAN(U32(sys_time + left), U32(sys_time + L(i)))
          <=> left < L(i)
    <3>1. /\ -LWIP_MAX_TIMEOUT <= left /\ left <= LWIP_MAX_TIMEOUT
          /\ -LWIP_MAX_TIMEOUT <= L(i) /\ L(i) <= LWIP_MAX_TIMEOUT
          /\ left - L(i) <= LWIP_MAX_TIMEOUT /\ L(i) - left <= LWIP_MAX_TIMEOUT
      BY <1>8, <2>1
    <3> QED
      BY <3>1, <1>1, <2>1, ComparedTrue
  <2> QED
    BY <2>2, <1>2, <1>6
<1>10. \A i \in 1..n : L(i) <= left
  <2> TAKE i \in 1..n
  <2>1. i \in 1..N
    BY <1>1
  <2> QED
    BY <2>1, <1>3, <1>6, <1>9
<1>11. \A i \in n + 1..N : left < L(i)
  <2> TAKE i \in n + 1..N
  <2>1. n + 1 \in 1..N /\ n + 1 <= i /\ i \in 1..N /\ n < N
    BY <1>1
  <2>2. left < L(n + 1)
    BY <2>1, <1>3, <1>9
  <2> QED
    BY <2>1, <2>2, <1>6
<1>12. TimesTrue'
  <2>1. ASSUME NEW i \in 1..N + 1
        PROVE  next_timeout'[i].time = U32(sys_time + M(i))
    <3>1. CASE i <= n
      <4>1. i \in 1..N /\ next_timeout'[i] = list[i] /\ M(i) = L(i)
        BY <3>1, <1>1, <1>5, <1>7
      <4> QED
        BY <4>1, <1>6
    <3>2. CASE i = n + 1
      <4>1. next_timeout'[i] = e /\ M(i) = left
        BY <3>2, <1>1, <1>5, <1>7
      <4> QED
        BY <4>1, <1>2
    <3>3. CASE i > n + 1
      <4>1. i - 1 \in 1..N /\ next_timeout'[i] = list[i - 1] /\ M(i) = L(i - 1)
        BY <3>3, <1>1, <1>5, <1>7
      <4> QED
        BY <4>1, <1>6
    <3> QED
      BY <1>1, <3>1, <3>2, <3>3
  <2> QED
    BY <2>1, <1>5 DEF TimesTrue
<1>13. \A i \in 1..N + 1 : \/ i = n + 1 /\ M(i) = left
                           \/ i \in 1..n /\ i \in 1..N /\ M(i) = L(i)
                           \/ i - 1 \in n + 1..N /\ i - 1 \in 1..N
                                /\ M(i) = L(i - 1)
  BY <1>1, <1>7
<1> HIDE DEF M, list, N
<1>14. \A i \in 1..N + 1 :
         M(i) \in Int /\ -MaxLate <= M(i) /\ M(i) + late <= LWIP_MAX_TIMEOUT
  <2> TAKE i \in 1..N + 1
  <2>1. CASE M(i) = left
    BY <2>1, <1>8
  <2>2. CASE \E k \in 1..N : M(i) = L(k)
    BY <2>2, <1>6
  <2> QED
    BY <1>13, <2>1, <2>2
<1>15. ASSUME NEW i \in 1..N + 1, NEW j \in 1..N + 1
       PROVE  M(j) - M(i) <= LWIP_MAX_TIMEOUT
  <2>1. CASE M(i) = left \/ M(j) = left
    BY <2>1, <1>8, <1>14
  <2>2. CASE \E k, l \in 1..N : M(i) = L(k) /\ M(j) = L(l)
    BY <2>2, <1>6
  <2> QED
    BY <1>13, <2>1, <2>2
<1>16. ASSUME NEW i \in 1..N + 1, NEW j \in 1..N + 1, i <= j
       PROVE  M(i) <= M(j)
  <2>1. CASE i = n + 1 /\ j = n + 1
    BY <2>1, <1>14
  <2>2. CASE i = n + 1 /\ j > n + 1
    BY <2>2, <1>13, <1>11, <1>14
  <2>3. CASE i < n + 1 /\ j = n + 1
    BY <2>3, <1>13, <1>10, <1>14
  <2>4. CASE i < n + 1 /\ j > n + 1
    BY <2>4, <1>13, <1>10, <1>11, <1>6
  <2>5. CASE i < n + 1 /\ j < n + 1
    BY <2>5, <1>16, <1>13, <1>6
  <2>6. CASE i > n + 1 /\ j > n + 1
    BY <2>6, <1>16, <1>13, <1>6
  <2> QED
    BY <1>16, <2>1, <2>2, <2>3, <2>4, <2>5, <2>6
<1>17. InWindow'
  BY <1>5, <1>14, <1>15 DEF InWindow, M, N
<1>18. Sorted'
  BY <1>5, <1>16 DEF Sorted, M, N
<1> QED
  BY <1>3, <1>4, <1>12, <1>17, <1>18 DEF e, list, N

\* Which timers are in the list after one was registered.
LEMMA InsertTimers ==
  ASSUME Len(next_timeout) \in Nat, NEW e, NEW n,
         Placed(next_timeout, e, next_timeout', n)
  PROVE  /\ \A t : Listed(t)' <=> Listed(t) \/ t = e.timer
         /\ Unique /\ (e.timer \in Cyclic => ~Listed(e.timer)) => Unique'
<1> DEFINE N == Len(next_timeout)
<1>1. /\ n \in 0..N /\ Len(next_timeout') = N + 1
      /\ \A i \in 1..N + 1 :
           next_timeout'[i] = IF i <= n THEN next_timeout[i]
                              ELSE IF i = n + 1 THEN e ELSE next_timeout[i - 1]
  BY DEF Placed
<1>2. ASSUME NEW t PROVE Listed(t)' <=> Listed(t) \/ t = e.timer
  <2>1. ASSUME Listed(t)' PROVE Listed(t) \/ t = e.timer
    <3>1. PICK i \in 1..N + 1 : next_timeout'[i].timer = t
      BY <2>1, <1>1 DEF Listed
    <3>2. CASE i <= n
      BY <3>1, <3>2, <1>1 DEF Listed
    <3>3. CASE i = n + 1
      BY <3>1, <3>3, <1>1
    <3>4. CASE i > n + 1
      <4>1. i - 1 \in 1..N /\ next_timeout[i - 1].timer = t
        BY <3>1, <3>4, <1>1
      <4> QED
        BY <4>1 DEF Listed
    <3> QED
      BY <1>1, <3>2, <3>3, <3>4
  <2>2. ASSUME Listed(t) PROVE Listed(t)'
    <3>1. PICK i \in 1..N : next_timeout[i].timer = t
      BY <2>2 DEF Listed
    <3>2. CASE i <= n
      <4>1. i \in 1..N + 1 /\ next_timeout'[i].timer = t
        BY <3>1, <3>2, <1>1
      <4> QED
        BY <4>1, <1>1 DEF Listed
    <3>3. CASE i > n
      <4>1. i + 1 \in 1..N + 1 /\ next_timeout'[i + 1].timer = t
        BY <3>1, <3>3, <1>1
      <4> QED
        BY <4>1, <1>1 DEF Listed
    <3> QED
      BY <1>1, <3>2, <3>3
  <2>3. ASSUME t = e.timer PROVE Listed(t)'
    <3>1. n + 1 \in 1..N + 1 /\ next_timeout'[n + 1] = e
      BY <1>1
    <3> QED
      BY <3>1, <2>3, <1>1 DEF Listed
  <2> QED
    BY <2>1, <2>2, <2>3
<1>3. ASSUME Unique, e.timer \in Cyclic => ~Listed(e.timer) PROVE Unique'
  <2>1. ASSUME NEW i \in 1..N + 1, NEW j \in 1..N + 1,
               next_timeout'[i].timer \in Cyclic,
               next_timeout'[j].timer = next_timeout'[i].timer
        PROVE  i = j
    <3> DEFINE Old(x) == IF x <= n THEN x ELSE x - 1
    <3>1. \A x \in 1..N + 1 :
            \/ x = n + 1 /\ next_timeout'[x].timer = e.timer
            \/ x # n + 1 /\ Old(x) \in 1..N
                 /\ next_timeout'[x].timer = next_timeout[Old(x)].timer
      BY <1>1
    <3>2. CASE i = n + 1 /\ j = n + 1
      BY <3>2
    <3>3. CASE i = n + 1 /\ j # n + 1
      <4>1. e.timer \in Cyclic /\ Old(j) \in 1..N
              /\ next_timeout[Old(j)].timer = e.timer
        BY <3>1, <3>3, <2>1
      <4> QED
        BY <4>1, <1>3 DEF Listed
    <3>4. CASE i # n + 1 /\ j = n + 1
      <4>1. e.timer \in Cyclic /\ Old(i) \in 1..N
              /\ next_timeout[Old(i)].timer = e.timer
        BY <3>1, <3>4, <2>1
      <4> QED
        BY <4>1, <1>3 DEF Listed
    <3>5. CASE i # n + 1 /\ j # n + 1
      <4>1. Old(i) \in 1..N /\ Old(j) \in 1..N
              /\ next_timeout[Old(i)].timer \in Cyclic
              /\ next_timeout[Old(j)].timer = next_timeout[Old(i)].timer
        BY <3>1, <3>5, <2>1
      <4>2. Old(i) = Old(j)
        BY <4>1, <1>3 DEF Unique
      <4> QED
        BY <4>2, <3>5, <1>1
    <3> QED
      BY <3>2, <3>3, <3>4, <3>5
  <2> QED
    BY <2>1, <1>1 DEF Unique
<1> QED
  BY <1>2, <1>3

\* The list without its k-th timeout.
Closed(k) ==
  /\ k \in 1..Len(next_timeout)
  /\ next_timeout' \in Seq(Entries)
  /\ Len(next_timeout') = Len(next_timeout) - 1
  /\ \A i \in 1..Len(next_timeout') :
       next_timeout'[i] = IF i < k THEN next_timeout[i] ELSE next_timeout[i + 1]

\* A timeout that is taken from the list leaves the others as they were.
LEMMA RemoveKeeps ==
  ASSUME IInv, NEW k, Closed(k), sys_time' = sys_time, late' = late
  PROVE  /\ TimesTrue' /\ InWindow' /\ Sorted'
         /\ \A t : Listed(t)' => Listed(t)
         /\ \A t : Listed(t) => Listed(t)' \/ t = next_timeout[k].timer
         /\ Unique'
         /\ \A t \in Cyclic : t = next_timeout[k].timer => ~Listed(t)'
<1> DEFINE N == Len(next_timeout)
           Old(i) == IF i < k THEN i ELSE i + 1
<1>1. N \in Nat /\ k \in 1..N /\ Len(next_timeout') = N - 1
  <2>1. TypeOK
    BY DEF IInv
  <2> QED
    BY <2>1, ListTyped DEF Closed
<1>2. \A i \in 1..N - 1 :
        Old(i) \in 1..N /\ Old(i) # k /\ next_timeout'[i] = next_timeout[Old(i)]
  BY <1>1 DEF Closed
<1>3. \A i, j \in 1..N - 1 : /\ i <= j => Old(i) <= Old(j)
                             /\ Old(i) = Old(j) => i = j
  BY <1>1
<1>4. \A i \in 1..N : i # k => \E j \in 1..N - 1 : Old(j) = i
  <2> TAKE i \in 1..N
  <2>1. CASE i < k
    BY <2>1, <1>1
  <2>2. CASE i > k
    <3>1. i - 1 \in 1..N - 1 /\ Old(i - 1) = i
      BY <2>2, <1>1
    <3> QED
      BY <3>1
  <2> QED
    BY <1>1, <2>1, <2>2
<1> HIDE DEF Old
<1>5. TimesTrue' /\ InWindow' /\ Sorted'
  <2>1. TimesTrue'
    BY <1>1, <1>2 DEF IInv, TimesTrue
  <2>2. InWindow'
    BY <1>1, <1>2 DEF IInv, InWindow
  <2>3. Sorted'
    BY <1>1, <1>2, <1>3 DEF IInv, Sorted
  <2> QED
    BY <2>1, <2>2, <2>3
<1>6. Unique
  BY DEF IInv, Once
<1>7. ASSUME NEW t, Listed(t)' PROVE Listed(t)
  BY <1>7, <1>1, <1>2 DEF Listed
<1>8. ASSUME NEW t, Listed(t), t # next_timeout[k].timer PROVE Listed(t)'
  <2>1. PICK i \in 1..N : next_timeout[i].timer = t
    BY <1>8 DEF Listed
  <2>2. PICK j \in 1..N - 1 : Old(j) = i
    BY <1>4, <1>8, <2>1
  <2> QED
    BY <2>1, <2>2, <1>1, <1>2 DEF Listed
<1>9. Unique'
  BY <1>1, <1>2, <1>3, <1>6 DEF Unique
<1>10. ASSUME NEW t \in Cyclic, t = next_timeout[k].timer, Listed(t)'
       PROVE  FALSE
  <2>1. PICK i \in 1..N - 1 : next_timeout'[i].timer = t
    BY <1>1, <1>10 DEF Listed
  <2> QED
    BY <2>1, <1>1, <1>2, <1>6, <1>10 DEF Unique
<1> QED
  BY <1>5, <1>7, <1>8, <1>9, <1>10

-----------------------------------------------------------------------------
(* The steps.                                                              *)

\* The invariant holds initially.
LEMMA InitInvariant == Init => IInv
<1> SUFFICES ASSUME Init PROVE IInv
  OBVIOUS
<1>1. /\ sys_time \in Time /\ next_timeout = <<>> /\ running = NoTimer
      /\ current_timeout_due_time = 0 /\ pc = "init" /\ started = 0
      /\ behind = 0 /\ late = 0
  BY DEF Init, Time
<1>2. Len(next_timeout) = 0 /\ next_timeout \in Seq(Entries)
  BY <1>1
<1>3. TypeOK
  BY <1>1, <1>2, ClockRange DEF TypeOK, Time
<1>4. TimesTrue /\ CallTrue /\ InWindow /\ Calls /\ Sorted
  BY <1>1, <1>2 DEF TimesTrue, CallTrue, InWindow, Calls, Sorted
<1>5. PlaceKept
  BY <1>1, <1>2, TimeoutsAssumption DEF PlaceKept
<1>6. Once /\ Present
  BY <1>1, <1>2, TimeoutsAssumption DEF Once, Unique, Present, Listed
<1> QED
  BY <1>3, <1>4, <1>5, <1>6 DEF IInv

\* sys_timeouts_init registers the next cyclic timer, which is not in the
\* list yet.
LEMMA InitStepInvariant == IInv /\ sys_timeouts_init => IInv'
<1> SUFFICES ASSUME IInv, sys_timeouts_init PROVE IInv'
  OBVIOUS
<1> DEFINE N == Len(next_timeout)
           timer == lwip_cyclic_timers[N + 1]
           left == interval_ms[timer]
           e == Entry(timer, U32(sys_time + left), left)
<1>1. /\ TypeOK /\ CallTrue /\ InWindow /\ Calls /\ Unique
      /\ N < Len(lwip_cyclic_timers) /\ running = NoTimer /\ late = 0
      /\ \A t : Listed(t) <=> \E k \in 1..N : t = lwip_cyclic_timers[k]
      /\ pc = "init"
  BY DEF IInv, sys_timeouts_init, Calls, PlaceKept, Once, Present
<1>2. /\ Len(lwip_cyclic_timers) \in Nat /\ MEMP_NUM_SYS_TIMEOUT \in Nat
      /\ Len(lwip_cyclic_timers) <= MEMP_NUM_SYS_TIMEOUT
      /\ lwip_cyclic_timers \in Seq(Cyclic)
      /\ DOMAIN lwip_cyclic_timers = 1..Len(lwip_cyclic_timers)
      /\ \A i, j \in 1..Len(lwip_cyclic_timers) :
           i # j => lwip_cyclic_timers[i] # lwip_cyclic_timers[j]
      /\ NoTimer \notin Cyclic
  <2>1. PICK n \in Nat : n = Len(lwip_cyclic_timers)
    BY TimeoutsAssumption, LenProperties
  <2>2. lwip_cyclic_timers \in Seq(Cyclic) /\ DOMAIN lwip_cyclic_timers = 1..n
    BY <2>1, TimeoutsAssumption, LenProperties
  <2>3. MEMP_NUM_SYS_TIMEOUT \in Nat /\ n \in 1..MEMP_NUM_SYS_TIMEOUT
    BY <2>1, TimeoutsAssumption
  <2>4. /\ \A i, j \in 1..n :
             i # j => lwip_cyclic_timers[i] # lwip_cyclic_timers[j]
        /\ NoTimer \notin Cyclic
    BY <2>2, TimeoutsAssumption
  <2> QED
    BY <2>1, <2>2, <2>3, <2>4
<1>3. N \in Nat /\ N + 1 \in 1..Len(lwip_cyclic_timers)
  BY <1>1, <1>2, ListTyped
<1>4. timer \in Cyclic /\ timer \in Timers
  BY <1>2, <1>3 DEF Cyclic, Timers
<1>5. left \in Int /\ 0 <= left /\ left + MaxLate <= LWIP_MAX_TIMEOUT
  BY <1>4, TimeoutsAssumption
<1>6. /\ next_timeout' = Insert(next_timeout, e)
      /\ pc' = IF Len(next_timeout') = Len(lwip_cyclic_timers) THEN "main"
                                                               ELSE "init"
      /\ UNCHANGED <<sys_time, started, late, running, behind,
                     current_timeout_due_time>>
  BY <1>1, <1>2, <1>3 DEF sys_timeouts_init, sys_timeout_abs, handler
<1>7. /\ next_timeout' \in Seq(Entries) /\ TimesTrue' /\ InWindow' /\ Sorted'
      /\ \E n \in 0..N : Placed(next_timeout, e, next_timeout', n)
  <2> HIDE DEF timer, left
  <2> QED
    BY <1>4, <1>5, <1>6, InsertKeeps
<1>8. Len(next_timeout') = N + 1
  BY <1>7 DEF Placed
<1>9. ~Listed(timer)
  BY <1>1, <1>2, <1>3
<1>10. /\ \A t : Listed(t)' <=> Listed(t) \/ t = timer
       /\ Unique'
  <2>1. PICK n : Placed(next_timeout, e, next_timeout', n)
    BY <1>7
  <2>2. e.timer = timer
    BY DEF Entry
  <2> HIDE DEF e, timer
  <2> QED
    BY <2>1, <2>2, <1>1, <1>3, <1>9, InsertTimers
<1>11. TypeOK'
  BY <1>1, <1>6, <1>7 DEF TypeOK
<1>12. CallTrue' /\ Calls'
  BY <1>1, <1>6 DEF CallTrue, Calls
<1>13. PlaceKept' /\ Once'
  BY <1>1, <1>2, <1>3, <1>6, <1>8, <1>10 DEF PlaceKept, Once
<1>14. Present'
  <2>1. \A t : Listed(t)' <=> \E k \in 1..N + 1 : t = lwip_cyclic_timers[k]
    BY <1>1, <1>3, <1>10
  <2>2. CASE N + 1 = Len(lwip_cyclic_timers)
    <3>1. \A t \in Cyclic : Listed(t)'
      BY <2>1, <2>2, <1>2 DEF Cyclic
    <3> QED
      BY <3>1, <2>2, <1>6, <1>8 DEF Present
  <2>3. CASE N + 1 # Len(lwip_cyclic_timers)
    BY <2>1, <2>3, <1>6, <1>8 DEF Present
  <2> QED
    BY <2>2, <2>3
<1> QED
  BY <1>7, <1>11, <1>12, <1>13, <1>14 DEF IInv

\* sys_timeout leaves a cyclic timer that runs its place in the pool.
LEMMA TimeoutInvariant ==
  ASSUME IInv, NEW timer \in OneShot, NEW msecs \in Msecs,
         sys_timeout(timer, msecs)
  PROVE  IInv'
<1> DEFINE N == Len(next_timeout)
           e == Entry(timer, U32(sys_time + msecs), msecs)
           idle == {t \in Cyclic : \A i \in 1..N : next_timeout[i].timer # t}
           held == IF idle = {} THEN 0 ELSE 1
<1>1. /\ TypeOK /\ CallTrue /\ Calls /\ Once /\ Present /\ PlaceKept
      /\ pc \in {"main", "handler"}
  BY DEF IInv, sys_timeout
<1>2. N \in Nat /\ MEMP_NUM_SYS_TIMEOUT \in Nat
  BY <1>1, ListTyped, TimeoutsAssumption
<1>3. N + held < MEMP_NUM_SYS_TIMEOUT
  BY DEF sys_timeout
<1>4. N < MEMP_NUM_SYS_TIMEOUT
  BY <1>2, <1>3
<1>5. /\ next_timeout' = Insert(next_timeout, e)
      /\ UNCHANGED <<sys_time, pc, started, late, running, behind,
                     current_timeout_due_time>>
  BY <1>4 DEF sys_timeout, sys_timeout_abs, call, handler
<1>6. timer \in Timers /\ timer \notin Cyclic
  BY TimeoutsAssumption DEF Timers
<1>7. msecs \in Int /\ 0 <= msecs /\ msecs + MaxLate <= LWIP_MAX_TIMEOUT
  BY TimeoutsAssumption
<1>8. /\ next_timeout' \in Seq(Entries) /\ TimesTrue' /\ InWindow' /\ Sorted'
      /\ \E n \in 0..N : Placed(next_timeout, e, next_timeout', n)
  BY <1>5, <1>6, <1>7, InsertKeeps
<1>9. Len(next_timeout') = N + 1
  BY <1>8 DEF Placed
<1>10. /\ \A t : Listed(t)' <=> Listed(t) \/ t = timer
       /\ Unique'
  <2>1. PICK n : Placed(next_timeout, e, next_timeout', n)
    BY <1>8
  <2>2. e.timer = timer
    BY DEF Entry
  <2> HIDE DEF e
  <2> QED
    BY <2>1, <2>2, <1>1, <1>2, <1>6, InsertTimers DEF Once
<1>11. running \in Cyclic => Len(next_timeout') < MEMP_NUM_SYS_TIMEOUT
  <2> SUFFICES ASSUME running \in Cyclic
               PROVE  Len(next_timeout') < MEMP_NUM_SYS_TIMEOUT
    OBVIOUS
  <2>1. running \in idle
    BY <1>1 DEF Once, Listed
  <2> QED
    BY <2>1, <1>2, <1>3, <1>9
<1>12. TypeOK' /\ CallTrue' /\ Calls'
  BY <1>1, <1>5, <1>8 DEF TypeOK, CallTrue, Calls
<1>13. PlaceKept'
  BY <1>1, <1>2, <1>4, <1>5, <1>9, <1>11 DEF PlaceKept
<1>14. Once' /\ Present'
  BY <1>1, <1>5, <1>6, <1>10 DEF Once, Present
<1> QED
  BY <1>8, <1>12, <1>13, <1>14 DEF IInv

\* sys_untimeout takes the first entry of a timer, and no other.
LEMMA UntimeoutInvariant ==
  ASSUME IInv, NEW timer \in OneShot, sys_untimeout(timer)
  PROVE  IInv'
<1> DEFINE N == Len(next_timeout)
           match == {i \in 1..N : next_timeout[i].timer = timer}
           k == CHOOSE i \in match : \A j \in match : i <= j
<1>1. /\ TypeOK /\ CallTrue /\ Calls /\ Once /\ Present /\ PlaceKept
      /\ pc \in {"main", "handler"}
  BY DEF IInv, sys_untimeout
<1>2. N \in Nat /\ MEMP_NUM_SYS_TIMEOUT \in Nat /\ timer \notin Cyclic
  BY <1>1, ListTyped, TimeoutsAssumption
<1>3. /\ match # {}
      /\ next_timeout' = SubSeq(next_timeout, 1, k - 1)
                           \o SubSeq(next_timeout, k + 1, N)
      /\ UNCHANGED <<sys_time, pc, started, late, running, behind,
                     current_timeout_due_time>>
  BY DEF sys_untimeout, call, handler
<1>4. k \in match
  <2>1. match \subseteq Nat
    BY <1>2
  <2> HIDE DEF match
  <2> QED
    BY <2>1, <1>3, Least
<1>5. k \in 1..N /\ next_timeout[k].timer = timer
  BY <1>4
<1> HIDE DEF k
<1>6. next_timeout \in Seq(Entries)
  BY <1>1 DEF TypeOK
<1>7. Closed(k)
  BY <1>3, <1>5, <1>6, RemoveCloses DEF Closed
<1>8. /\ TimesTrue' /\ InWindow' /\ Sorted'
      /\ \A t : Listed(t)' => Listed(t)
      /\ \A t : Listed(t) => Listed(t)' \/ t = timer
      /\ Unique'
  BY <1>3, <1>5, <1>7, RemoveKeeps
<1>9. TypeOK' /\ CallTrue' /\ Calls'
  BY <1>1, <1>3, <1>7 DEF TypeOK, CallTrue, Calls, Closed
<1>10. Len(next_timeout') = N - 1
  BY <1>7 DEF Closed
<1>11. PlaceKept'
  <2>1. /\ Len(next_timeout') <= MEMP_NUM_SYS_TIMEOUT
        /\ running \in Cyclic => Len(next_timeout') < MEMP_NUM_SYS_TIMEOUT
    BY <1>1, <1>2, <1>10 DEF PlaceKept
  <2>2. pc' # "init"
    BY <1>1, <1>3
  <2> QED
    BY <2>1, <2>2, <1>3 DEF PlaceKept
<1>12. Once' /\ Present'
  BY <1>1, <1>2, <1>3, <1>8 DEF Once, Present
<1> QED
  BY <1>8, <1>9, <1>11, <1>12 DEF IInv

\* When the times of all entries are changed and nothing else, the timers in
\* the list stay the same.
LEMMA SameTimers ==
  ASSUME Len(next_timeout') = Len(next_timeout),
         \A i \in 1..Len(next_timeout) :
           next_timeout'[i].timer = next_timeout[i].timer
  PROVE  /\ \A t : Listed(t)' <=> Listed(t)
         /\ Unique => Unique'
  BY DEF Listed, Unique

\* sys_restart_timeouts moves all timeouts by the same distance.
LEMMA RestartInvariant == IInv /\ sys_restart_timeouts => IInv'
<1> SUFFICES ASSUME IInv, sys_restart_timeouts PROVE IInv'
  OBVIOUS
<1> DEFINE N == Len(next_timeout)
           L(i) == next_timeout[i].left
           new(i) == [next_timeout[i] EXCEPT
                        !.time = U32((@ - next_timeout[1].time) + sys_time),
                        !.left = @ - next_timeout[1].left]
<1>1. /\ TypeOK /\ TimesTrue /\ CallTrue /\ InWindow /\ Calls /\ Once
      /\ Present /\ PlaceKept /\ Sorted
      /\ pc = "main" /\ next_timeout # <<>>
  BY DEF IInv, sys_restart_timeouts
<1>2. /\ N \in Nat /\ next_timeout \in Seq(Entries) /\ sys_time \in Time
      /\ \A i \in 1..N : next_timeout[i] \in Entries /\ L(i) \in Int
  BY <1>1, ListTyped DEF TypeOK
<1>3. 1 \in 1..N /\ Head(next_timeout) = next_timeout[1] /\ late = 0
  BY <1>1, <1>2, EmptySeq DEF Calls
<1>4. \A i \in 1..N :
        /\ next_timeout[i].time = U32(sys_time + L(i))
        /\ -MaxLate <= L(i) /\ L(i) + late <= LWIP_MAX_TIMEOUT
        /\ \A j \in 1..N : L(j) - L(i) <= LWIP_MAX_TIMEOUT
        /\ \A j \in 1..N : i <= j => L(i) <= L(j)
  BY <1>1 DEF TimesTrue, InWindow, Sorted
<1>5. ASSUME NEW i \in 1..N
      PROVE  /\ 0 <= L(i) - L(1) /\ L(i) - L(1) <= LWIP_MAX_TIMEOUT
             /\ L(i) - L(1) \in Int
             /\ U32((next_timeout[i].time - next_timeout[1].time) + sys_time)
                  = U32(sys_time + (L(i) - L(1)))
             /\ U32(sys_time + (L(i) - L(1))) \in Time
  <2> HIDE DEF L
  <2>1. /\ L(i) \in Int /\ L(1) \in Int
        /\ 0 <= L(i) - L(1) /\ L(i) - L(1) <= LWIP_MAX_TIMEOUT
        /\ -LWIP_MAX_TIMEOUT <= L(i) /\ L(i) <= LWIP_MAX_TIMEOUT
        /\ -LWIP_MAX_TIMEOUT <= L(1) /\ L(1) <= LWIP_MAX_TIMEOUT
    BY <1>2, <1>3, <1>4, ClockRange
  <2>2. /\ next_timeout[i].time = U32(sys_time + L(i))
        /\ next_timeout[1].time = U32(sys_time + L(1))
    BY <1>3, <1>4
  <2> QED
    BY <2>1, <2>2, <1>2, Rebase
<1>6. next_timeout' = [i \in 1..N |-> new(i)]
  BY <1>3 DEF sys_restart_timeouts
<1>7. UNCHANGED <<sys_time, pc, started, late, running, behind,
                  current_timeout_due_time>>
  BY DEF sys_restart_timeouts, call, handler
<1>8. ASSUME NEW i \in 1..N
      PROVE  /\ new(i) \in Entries
             /\ new(i).timer = next_timeout[i].timer
             /\ new(i).time = U32(sys_time + (L(i) - L(1)))
             /\ new(i).left = L(i) - L(1)
  <2> DEFINE a == U32((next_timeout[i].time - next_timeout[1].time) + sys_time)
             b == next_timeout[i].left - next_timeout[1].left
  <2>2. next_timeout[i] \in Entries
    BY <1>2
  <2>3. a = U32(sys_time + (L(i) - L(1))) /\ b = L(i) - L(1)
    BY <1>5
  <2>4. a \in Time /\ b \in Int
    BY <1>5, <2>3
  <2>5. new(i) = [next_timeout[i] EXCEPT !.time = a, !.left = b]
    OBVIOUS
  <2> HIDE DEF a, b, new
  <2>6. /\ new(i) \in Entries /\ new(i).timer = next_timeout[i].timer
        /\ new(i).time = a /\ new(i).left = b
    BY <2>2, <2>4, <2>5 DEF Entries
  <2> QED
    BY <2>3, <2>6
<1>9. next_timeout' \in Seq(Entries) /\ Len(next_timeout') = N
  <2> HIDE DEF new
  <2> QED
    BY <1>2, <1>6, <1>8
<1>10. \A i \in 1..N : /\ next_timeout'[i].timer = next_timeout[i].timer
                       /\ next_timeout'[i].time = U32(sys_time + (L(i) - L(1)))
                       /\ next_timeout'[i].left = L(i) - L(1)
  BY <1>6, <1>8
<1> HIDE DEF L
<1>11. TimesTrue'
  BY <1>7, <1>9, <1>10 DEF TimesTrue
<1>12. InWindow'
  <2>1. \A i \in 1..N : L(i) \in Int /\ L(i) - L(1) \in Int
    BY <1>2, <1>5 DEF L
  <2>2. \A i \in 1..N : /\ -MaxLate <= L(i) - L(1)
                        /\ (L(i) - L(1)) + late <= LWIP_MAX_TIMEOUT
    <3> TAKE i \in 1..N
    <3> DEFINE d == L(i) - L(1)
    <3>1. 0 <= d /\ d <= LWIP_MAX_TIMEOUT /\ d \in Int
      BY <1>5 DEF L
    <3> HIDE DEF d
    <3>2. -MaxLate <= d /\ d + late <= LWIP_MAX_TIMEOUT
      BY <3>1, <1>3, ClockRange
    <3> QED
      BY <3>2 DEF d
  <2>3. \A i, j \in 1..N : (L(j) - L(1)) - (L(i) - L(1)) <= LWIP_MAX_TIMEOUT
    BY <1>3, <1>4, <2>1
  <2> QED
    BY <2>2, <2>3, <1>7, <1>9, <1>10 DEF InWindow
<1>13. Sorted'
  <2>1. \A i, j \in 1..N : i <= j => L(i) - L(1) <= L(j) - L(1)
    BY <1>2, <1>3, <1>4 DEF L
  <2> QED
    BY <2>1, <1>9, <1>10 DEF Sorted
<1>14. Once' /\ Present'
  BY <1>1, <1>7, <1>9, <1>10, SameTimers DEF Once, Present
<1>15. TypeOK' /\ CallTrue' /\ Calls' /\ PlaceKept'
  BY <1>1, <1>7, <1>9 DEF TypeOK, CallTrue, Calls, PlaceKept
<1> QED
  BY <1>11, <1>12, <1>13, <1>14, <1>15 DEF IInv

\* How the first timeout compares with the time at which sys_check_timeouts
\* began: as it does in reality.
LEMMA ExpiredTrue ==
  ASSUME IInv, pc = "loop", next_timeout # <<>>
  PROVE  /\ 1 \in 1..Len(next_timeout) /\ Head(next_timeout) = next_timeout[1]
         /\ Expired <=> next_timeout[1].left + late <= 0
<1> DEFINE l == next_timeout[1].left
<1>1. TypeOK /\ TimesTrue /\ CallTrue /\ InWindow
  BY DEF IInv
<1>2. /\ Len(next_timeout) \in Nat /\ next_timeout \in Seq(Entries)
      /\ sys_time \in Time /\ late \in 0..MaxLate
  BY <1>1, ListTyped DEF TypeOK
<1>3. 1 \in 1..Len(next_timeout) /\ Head(next_timeout) = next_timeout[1]
  BY <1>2, EmptySeq
<1>4. /\ l \in Int /\ next_timeout[1].time = U32(sys_time + l)
      /\ -MaxLate <= l /\ l + late <= LWIP_MAX_TIMEOUT
  BY <1>1, <1>3, ListTyped DEF TimesTrue, InWindow
<1>5. started = U32(sys_time + (-late))
  <2>1. sys_time - late = sys_time + (-late)
    BY <1>2, ClockRange DEF Time
  <2> QED
    BY <2>1, <1>1 DEF CallTrue
<1> HIDE DEF l
<1>6. TIME_LESS_THAN(U32(sys_time + (-late)), U32(sys_time + l)) <=> -late < l
  <2>1. /\ -late \in Int /\ -LWIP_MAX_TIMEOUT <= -late
        /\ -late <= LWIP_MAX_TIMEOUT
        /\ -LWIP_MAX_TIMEOUT <= l /\ l <= LWIP_MAX_TIMEOUT
        /\ -late - l <= LWIP_MAX_TIMEOUT /\ l - (-late) <= LWIP_MAX_TIMEOUT
    BY <1>2, <1>4, ClockRange
  <2> QED
    BY <2>1, <1>2, <1>4, ComparedTrue
<1>7. -late < l <=> ~(l + late <= 0)
  BY <1>2, <1>4, ClockRange
<1> QED
  BY <1>3, <1>4, <1>5, <1>6, <1>7 DEF Expired, l

\* Calling a function of the timers keeps the invariant.
LEMMA EnterInvariant == IInv /\ Enter => IInv'
<1> SUFFICES ASSUME IInv, Enter PROVE IInv'
  OBVIOUS
<1>1. /\ TypeOK /\ TimesTrue /\ InWindow /\ Calls /\ PlaceKept /\ Once
      /\ Present /\ Sorted
  BY DEF IInv
<1>2. /\ pc = "main" /\ pc' = "loop" /\ started' = sys_time /\ late' = 0
      /\ UNCHANGED <<sys_time, next_timeout, running, behind,
                     current_timeout_due_time>>
  BY DEF Enter, handler
<1>3. late = 0 /\ behind = 0 /\ running = NoTimer
  BY <1>1, <1>2 DEF Calls
<1>4. TypeOK'
  BY <1>1, <1>2, <1>3 DEF TypeOK
<1>5. CallTrue'
  <2>1. sys_time \in Time /\ sys_time \in Int
    BY <1>1, ClockRange DEF TypeOK, Time
  <2>2. U32(sys_time - 0) = sys_time
    BY <2>1, ClockRange, U32Is DEF Time
  <2> QED
    BY <2>2, <1>2 DEF CallTrue
<1>6. TimesTrue' /\ InWindow' /\ Sorted'
  BY <1>1, <1>2, <1>3 DEF TimesTrue, InWindow, Sorted
<1>7. Calls' /\ PlaceKept' /\ Once' /\ Present'
  BY <1>1, <1>2, <1>3 DEF Calls, PlaceKept, Once, Unique, Present, Listed
<1> QED
  BY <1>4, <1>5, <1>6, <1>7 DEF IInv

\* Returning from it keeps the invariant.
LEMMA LeaveInvariant == IInv /\ Leave => IInv'
<1> SUFFICES ASSUME IInv, Leave PROVE IInv'
  OBVIOUS
<1>1. /\ TypeOK /\ TimesTrue /\ InWindow /\ Calls /\ PlaceKept /\ Once
      /\ Present /\ Sorted
  BY DEF IInv
<1>2. /\ pc = "loop" /\ pc' = "main" /\ started' = 0 /\ late' = 0
      /\ UNCHANGED <<sys_time, next_timeout, running, behind,
                     current_timeout_due_time>>
  BY DEF Leave, handler
<1>3. TypeOK' /\ CallTrue' /\ Calls'
  BY <1>1, <1>2, ClockRange DEF TypeOK, CallTrue, Calls, Time
<1>4. InWindow'
  <2>1. late \in 0..MaxLate
    BY <1>1 DEF TypeOK
  <2>2. \A i \in 1..Len(next_timeout) : next_timeout[i].left \in Int
    BY <1>1, ListTyped
  <2>3. \A i \in 1..Len(next_timeout) :
          next_timeout[i].left + 0 <= LWIP_MAX_TIMEOUT
    BY <2>1, <2>2, <1>1, ClockRange DEF InWindow
  <2> QED
    BY <2>3, <1>1, <1>2 DEF InWindow
<1>5. TimesTrue' /\ Sorted' /\ PlaceKept' /\ Once' /\ Present'
  BY <1>1, <1>2 DEF TimesTrue, Sorted, PlaceKept, Once, Unique, Present, Listed
<1> QED
  BY <1>3, <1>4, <1>5 DEF IInv

\* The timeout whose handler is called is not in the list any more, and its
\* place in the pool is free.
LEMMA ExpireInvariant == IInv /\ Expire => IInv' /\ behind' >= 0
<1> SUFFICES ASSUME IInv, Expire PROVE IInv' /\ behind' >= 0
  OBVIOUS
<1> DEFINE N == Len(next_timeout)
           e == next_timeout[1]
<1>1. /\ TypeOK /\ TimesTrue /\ CallTrue /\ InWindow /\ Calls /\ PlaceKept
      /\ Once /\ Present
  BY DEF IInv
<1>2. pc = "loop" /\ Expired /\ next_timeout # <<>>
  BY DEF Expire, Expired
<1>3. 1 \in 1..N /\ Head(next_timeout) = e /\ e.left + late <= 0
  BY <1>2, ExpiredTrue
<1>4. /\ next_timeout' = Tail(next_timeout) /\ running' = e.timer
      /\ current_timeout_due_time' = e.time /\ behind' = -e.left
      /\ pc' = "handler" /\ UNCHANGED <<sys_time, started, late>>
  BY <1>3 DEF Expire
<1>5. /\ N \in Nat /\ e.timer \in Timers /\ e.time \in Time /\ e.left \in Int
      /\ e.time = U32(sys_time + e.left) /\ -MaxLate <= e.left
      /\ late \in 0..MaxLate /\ sys_time \in Time
  BY <1>1, <1>3, ListTyped DEF TimesTrue, InWindow, TypeOK
<1>6. Closed(1)
  <2>1. next_timeout \in Seq(Entries)
    BY <1>1 DEF TypeOK
  <2>2. /\ Tail(next_timeout) \in Seq(Entries)
        /\ Len(Tail(next_timeout)) = N - 1
        /\ \A i \in 1..N - 1 : Tail(next_timeout)[i] = next_timeout[i + 1]
    BY <2>1, <1>2, HeadTailProperties
  <2> QED
    BY <2>2, <1>3, <1>4, <1>5 DEF Closed
<1>7. /\ TimesTrue' /\ InWindow' /\ Sorted'
      /\ \A t : Listed(t)' => Listed(t)
      /\ \A t : Listed(t) => Listed(t)' \/ t = e.timer
      /\ Unique'
      /\ \A t \in Cyclic : t = e.timer => ~Listed(t)'
  BY <1>4, <1>6, RemoveKeeps
<1>8. behind' \in 0..MaxLate
  BY <1>3, <1>4, <1>5, ClockRange
<1>9. TypeOK'
  BY <1>1, <1>4, <1>5, <1>6, <1>8 DEF TypeOK, Closed
<1>10. CallTrue'
  <2>1. sys_time - behind' = sys_time + e.left
    BY <1>4, <1>5, ClockRange DEF Time
  <2> QED
    BY <2>1, <1>1, <1>2, <1>4, <1>5 DEF CallTrue
<1>11. Calls'
  BY <1>4 DEF Calls
<1>12. PlaceKept'
  <2>1. Len(next_timeout') = N - 1 /\ MEMP_NUM_SYS_TIMEOUT \in Nat
    BY <1>6, TimeoutsAssumption DEF Closed
  <2>2. N - 1 < MEMP_NUM_SYS_TIMEOUT
    BY <2>1, <1>1, <1>5 DEF PlaceKept
  <2> QED
    BY <2>1, <2>2, <1>4, <1>5 DEF PlaceKept
<1>13. Once'
  <2>1. ASSUME NEW t, running' = t, t \in Cyclic PROVE ~Listed(t)'
    BY <2>1, <1>4, <1>7
  <2>2. running' \in Cyclic => ~Listed(running)'
    BY <2>1
  <2> QED
    BY <2>2, <1>7 DEF Once
<1>14. Present'
  <2>1. running = NoTimer /\ NoTimer \notin Cyclic
    BY <1>1, <1>2, TimeoutsAssumption DEF Calls
  <2>2. \A t \in Cyclic : Listed(t)
    BY <2>1, <1>1, <1>2 DEF Present
  <2> QED
    BY <2>2, <1>4, <1>7 DEF Present
<1> QED
  BY <1>7, <1>8, <1>9, <1>10, <1>11, <1>12, <1>13, <1>14, ClockRange DEF IInv

\* When a cyclic timer is due again, in reality: after its interval, less what
\* it is behind, or after a whole interval if that has passed; never in the
\* past.
LEMMA DueTrue ==
  ASSUME IInv, pc = "handler", running \in Cyclic
  PROVE  /\ Due.left \in Int /\ 0 <= Due.left
         /\ Due.left + MaxLate <= LWIP_MAX_TIMEOUT
         /\ Due.left >= interval_ms[running] - behind
         /\ Due.time = U32(sys_time + Due.left)
<1> DEFINE iv == interval_ms[running]
           next == U32(current_timeout_due_time + iv)
<1>1. /\ sys_time \in Time /\ behind \in 0..MaxLate
      /\ current_timeout_due_time = U32(sys_time - behind)
  BY DEF IInv, TypeOK, CallTrue
<1>2. iv \in Int /\ 1 <= iv /\ iv + MaxLate <= LWIP_MAX_TIMEOUT
  BY TimeoutsAssumption
<1> HIDE DEF iv
<1>3. behind \in Int /\ 0 <= behind /\ behind <= MaxLate
  BY <1>1, ClockRange
<1>4. next = U32(sys_time + (iv - behind))
  <2>1. sys_time - behind = sys_time + (-behind) /\ (-behind) + iv = iv - behind
    BY <1>1, <1>2, <1>3, ClockRange DEF Time
  <2>2. U32(U32(sys_time + (-behind)) + iv) = U32(sys_time + ((-behind) + iv))
    <3>1. /\ -behind \in Int /\ -LWIP_MAX_TIMEOUT <= -behind
          /\ -behind <= LWIP_MAX_TIMEOUT /\ -LWIP_MAX_TIMEOUT - 1 <= iv
          /\ iv <= LWIP_MAX_TIMEOUT
          /\ -LWIP_MAX_TIMEOUT <= (-behind) + iv
          /\ (-behind) + iv <= LWIP_MAX_TIMEOUT
      BY <1>2, <1>3, ClockRange
    <3> QED
      BY <3>1, <1>1, <1>2, AddTwice
  <2> QED
    BY <2>1, <2>2, <1>1
<1>5. TIME_LESS_THAN(next, sys_time) <=> iv - behind < 0
  <2>1. sys_time = U32(sys_time + 0)
    BY <1>1, ClockRange, U32Is DEF Time
  <2> DEFINE d == iv - behind
  <2>2. /\ d \in Int /\ -LWIP_MAX_TIMEOUT <= d /\ d <= LWIP_MAX_TIMEOUT
        /\ d - 0 <= LWIP_MAX_TIMEOUT /\ 0 - d <= LWIP_MAX_TIMEOUT
        /\ -LWIP_MAX_TIMEOUT <= 0 /\ 0 <= LWIP_MAX_TIMEOUT
    BY <1>2, <1>3, ClockRange
  <2> HIDE DEF d
  <2>3. TIME_LESS_THAN(U32(sys_time + d), U32(sys_time + 0)) <=> d < 0
    BY <2>2, <1>1, ComparedTrue
  <2> QED
    BY <2>1, <2>3, <1>4 DEF d
<1>6. Due = IF TIME_LESS_THAN(next, sys_time)
            THEN [time |-> U32(sys_time + iv), left |-> iv]
            ELSE [time |-> next, left |-> iv - behind]
  BY DEF Due, iv
<1> HIDE DEF next
<1>7. CASE iv - behind < 0
  <2>1. Due = [time |-> U32(sys_time + iv), left |-> iv]
    BY <1>5, <1>6, <1>7
  <2>2. Due.left = iv /\ Due.time = U32(sys_time + iv)
    BY <2>1
  <2>3. iv >= iv - behind /\ 0 <= iv
    BY <1>2, <1>3
  <2> QED
    BY <2>2, <2>3, <1>2 DEF iv
<1>8. CASE ~(iv - behind < 0)
  <2>1. Due = [time |-> next, left |-> iv - behind]
    BY <1>5, <1>6, <1>8
  <2>2. Due.left = iv - behind /\ Due.time = next
    BY <2>1
  <2>3. /\ iv - behind \in Int /\ 0 <= iv - behind
        /\ (iv - behind) + MaxLate <= LWIP_MAX_TIMEOUT
        /\ iv - behind >= iv - behind
    BY <1>2, <1>3, <1>8, ClockRange
  <2> QED
    BY <2>2, <2>3, <1>4 DEF iv
<1> QED
  BY <1>7, <1>8

\* What the return of a cyclic timer's handler does to the list: there is
\* always a place in the pool.
LEMMA RegisterKeeps ==
  ASSUME IInv, HandlerReturns, running \in Cyclic
  PROVE  /\ next_timeout' \in Seq(Entries) /\ TimesTrue' /\ InWindow'
         /\ Sorted' /\ Unique'
         /\ Len(next_timeout') = Len(next_timeout) + 1
         /\ \A t : Listed(t)' <=> Listed(t) \/ t = running
         /\ \E i \in 1..Len(next_timeout') :
              /\ next_timeout'[i].timer = running
              /\ next_timeout'[i].left = Due.left
<1> DEFINE N == Len(next_timeout)
           left == Due.left
           e == Entry(running, U32(sys_time + left), left)
<1>1. /\ TypeOK /\ Once /\ PlaceKept /\ pc = "handler"
  BY DEF IInv, HandlerReturns
<1>2. /\ left \in Int /\ 0 <= left /\ left + MaxLate <= LWIP_MAX_TIMEOUT
      /\ Due.time = U32(sys_time + left)
  BY <1>1, DueTrue
<1>3. N < MEMP_NUM_SYS_TIMEOUT
  BY <1>1 DEF PlaceKept
<1>4. next_timeout' = Insert(next_timeout, e) /\ UNCHANGED <<sys_time, late>>
  BY <1>2, <1>3 DEF HandlerReturns, Registers, sys_timeout_abs
<1> HIDE DEF left
<1>5. running \in Timers /\ N \in Nat
  BY <1>1, ListTyped DEF Timers
<1>6. /\ next_timeout' \in Seq(Entries) /\ TimesTrue' /\ InWindow' /\ Sorted'
      /\ \E n \in 0..N : Placed(next_timeout, e, next_timeout', n)
  BY <1>2, <1>4, <1>5, InsertKeeps
<1>7. PICK n \in 0..N : Placed(next_timeout, e, next_timeout', n)
  BY <1>6
<1>8. e.timer = running /\ e.left = left
  BY DEF Entry
<1> HIDE DEF e
<1>9. /\ \A t : Listed(t)' <=> Listed(t) \/ t = running
      /\ Unique'
  BY <1>1, <1>5, <1>7, <1>8, InsertTimers DEF Once
<1>10. /\ Len(next_timeout') = N + 1 /\ n + 1 \in 1..N + 1
       /\ next_timeout'[n + 1] = e
  BY <1>5, <1>7 DEF Placed
<1> QED
  BY <1>6, <1>8, <1>9, <1>10 DEF left

\* A handler that returns to sys_check_timeouts keeps the invariant.
LEMMA HandlerReturnsInvariant == IInv /\ HandlerReturns => IInv'
<1> SUFFICES ASSUME IInv, HandlerReturns PROVE IInv'
  OBVIOUS
<1> DEFINE N == Len(next_timeout)
<1>1. /\ TypeOK /\ TimesTrue /\ CallTrue /\ InWindow /\ Calls /\ PlaceKept
      /\ Once /\ Present /\ Sorted
  BY DEF IInv
<1>2. /\ pc = "handler" /\ pc' = "loop" /\ running' = NoTimer /\ behind' = 0
      /\ UNCHANGED <<sys_time, started, late, current_timeout_due_time>>
  BY DEF HandlerReturns
<1>3. /\ N \in Nat /\ MEMP_NUM_SYS_TIMEOUT \in Nat /\ NoTimer \notin Cyclic
      /\ next_timeout \in Seq(Entries) /\ MaxLate \in Nat
  BY <1>1, ListTyped, TimeoutsAssumption DEF TypeOK
<1>4. /\ next_timeout' \in Seq(Entries) /\ TimesTrue' /\ InWindow'
      /\ Sorted' /\ Unique' /\ Len(next_timeout') <= MEMP_NUM_SYS_TIMEOUT
      /\ \A t \in Cyclic : Listed(t)'
  <2>1. CASE running \in Cyclic
    <3>1. N < MEMP_NUM_SYS_TIMEOUT /\ Len(next_timeout') = N + 1
      BY <2>1, <1>1, RegisterKeeps DEF PlaceKept
    <3>2. \A t \in Cyclic : Listed(t)'
      BY <2>1, <1>1, <1>2, RegisterKeeps DEF Present
    <3> QED
      BY <2>1, <3>1, <3>2, <1>3, RegisterKeeps
  <2>2. CASE running \notin Cyclic
    <3>1. next_timeout' = next_timeout
      BY <2>2 DEF HandlerReturns, Registers
    <3>2. \A t \in Cyclic : Listed(t)
      BY <2>2, <1>1, <1>2 DEF Present
    <3>3. \A t : Listed(t)' <=> Listed(t)
      BY <3>1 DEF Listed
    <3>4. TimesTrue' /\ InWindow' /\ Sorted' /\ Unique'
      BY <3>1, <1>1, <1>2 DEF TimesTrue, InWindow, Sorted, Once, Unique
    <3> QED
      BY <3>1, <3>2, <3>3, <3>4, <1>1, <1>3 DEF PlaceKept
  <2> QED
    BY <2>1, <2>2
<1>5. TypeOK' /\ CallTrue' /\ Calls'
  BY <1>1, <1>2, <1>3, <1>4 DEF TypeOK, CallTrue, Calls
<1>6. PlaceKept' /\ Once' /\ Present'
  BY <1>2, <1>3, <1>4 DEF PlaceKept, Once, Present
<1> QED
  BY <1>4, <1>5, <1>6 DEF IInv

\* A tick brings every moment one millisecond nearer, and takes the call
\* under way one further.
LEMMA SysTickInvariant == IInv /\ SysTick => IInv'
<1> SUFFICES ASSUME IInv, SysTick PROVE IInv'
  OBVIOUS
<1> DEFINE N == Len(next_timeout)
           L(i) == next_timeout[i].left
           new(i) == [next_timeout[i] EXCEPT !.left = @ - 1]
<1>1. /\ TypeOK /\ TimesTrue /\ CallTrue /\ InWindow /\ Calls /\ PlaceKept
      /\ Once /\ Present /\ Sorted
  BY DEF IInv
<1>2. /\ sys_time' = U32(sys_time + 1)
      /\ next_timeout' = [i \in 1..N |-> new(i)]
      /\ behind' = (IF pc = "handler" THEN behind + 1 ELSE 0)
      /\ late' = (IF pc \in {"loop", "handler"} THEN late + 1 ELSE 0)
      /\ UNCHANGED <<running, current_timeout_due_time, pc, started>>
      /\ \A i \in 1..N : L(i) > -MaxLate
      /\ behind < MaxLate /\ late < MaxLate
  BY DEF SysTick
<1>3. /\ N \in Nat /\ sys_time \in Time /\ behind \in 0..MaxLate
      /\ late \in 0..MaxLate /\ pc \in {"init", "main", "loop", "handler"}
      /\ \A i \in 1..N : next_timeout[i] \in Entries /\ L(i) \in Int
  BY <1>1, ListTyped DEF TypeOK
<1>4. ASSUME NEW i \in 1..N
      PROVE  /\ new(i) \in Entries /\ new(i).timer = next_timeout[i].timer
             /\ new(i).time = next_timeout[i].time /\ new(i).left = L(i) - 1
  <2>1. next_timeout[i] \in Entries /\ L(i) - 1 \in Int
    BY <1>3
  <2> QED
    BY <2>1 DEF Entries
<1>5. /\ next_timeout' \in Seq(Entries) /\ Len(next_timeout') = N
      /\ \A i \in 1..N : next_timeout'[i] = new(i)
  <2> HIDE DEF new
  <2> QED
    BY <1>2, <1>3, <1>4
<1> HIDE DEF new
<1>6. \A i \in 1..N : /\ next_timeout[i].time = U32(sys_time + L(i))
                      /\ L(i) + late <= LWIP_MAX_TIMEOUT
                      /\ \A j \in 1..N : L(j) - L(i) <= LWIP_MAX_TIMEOUT
                      /\ \A j \in 1..N : i <= j => L(i) <= L(j)
  BY <1>1 DEF TimesTrue, InWindow, Sorted
<1> HIDE DEF L
<1>7. sys_time \in Int /\ U32(sys_time + 1) \in Time
  <2>1. sys_time \in Int /\ 0 <= sys_time /\ sys_time < TIME_MOD
    BY <1>3, ClockRange DEF Time
  <2> QED
    BY <2>1, ClockRange, U32Is
<1>8. ASSUME NEW x \in Int, -MaxLate <= x, x <= LWIP_MAX_TIMEOUT
      PROVE  U32(U32(sys_time + 1) + (x - 1)) = U32(sys_time + x)
  <2>1. CASE LWIP_MAX_TIMEOUT = 0
    <3>1. x = 0 /\ MaxLate = 0
      BY <2>1, <1>8, ClockRange
    <3> QED
      BY <3>1, <1>2, <1>3
  <2>2. CASE LWIP_MAX_TIMEOUT # 0
    <3>2. 1 + (x - 1) = x
      BY <1>8
    <3>3. /\ -LWIP_MAX_TIMEOUT <= 1 /\ 1 <= LWIP_MAX_TIMEOUT
          /\ x - 1 \in Int /\ -LWIP_MAX_TIMEOUT - 1 <= x - 1
          /\ x - 1 <= LWIP_MAX_TIMEOUT
          /\ -LWIP_MAX_TIMEOUT <= 1 + (x - 1)
          /\ 1 + (x - 1) <= LWIP_MAX_TIMEOUT
      BY <2>2, <1>8, ClockRange
    <3>4. U32(U32(sys_time + 1) + (x - 1)) = U32(sys_time + (1 + (x - 1)))
      BY <3>3, <1>3, AddTwice
    <3> QED
      BY <3>2, <3>4
  <2> QED
    BY <2>1, <2>2
<1>9. TimesTrue'
  <2>1. ASSUME NEW i \in 1..N
        PROVE  next_timeout[i].time = U32(U32(sys_time + 1) + (L(i) - 1))
    <3>1. /\ L(i) \in Int /\ -MaxLate <= L(i) /\ L(i) <= LWIP_MAX_TIMEOUT
      BY <1>2, <1>3, <1>6, ClockRange DEF L
    <3> QED
      BY <3>1, <1>6, <1>8
  <2> QED
    BY <2>1, <1>2, <1>4, <1>5 DEF TimesTrue
<1>10. TypeOK'
  <2>1. behind' \in 0..MaxLate /\ late' \in 0..MaxLate
    BY <1>2, <1>3, ClockRange
  <2> QED
    BY <2>1, <1>1, <1>2, <1>5, <1>7 DEF TypeOK
<1>11. CallTrue'
  <2>1. ASSUME NEW b \in 0..MaxLate
        PROVE  U32(sys_time' - (b + 1)) = U32(sys_time - b)
    <3>1. /\ -b \in Int /\ -MaxLate <= -b /\ -b <= LWIP_MAX_TIMEOUT
          /\ U32(sys_time + 1) \in Int
      BY <1>7, ClockRange DEF Time
    <3>2. U32(U32(sys_time + 1) + (-b - 1)) = U32(sys_time + (-b))
      BY <3>1, <1>8
    <3>3. /\ U32(sys_time + 1) + (-b - 1) = U32(sys_time + 1) - (b + 1)
          /\ sys_time + (-b) = sys_time - b
      BY <3>1, <1>7
    <3> QED
      BY <3>2, <3>3, <1>2
  <2>2. U32(sys_time' - (late + 1)) = U32(sys_time - late)
          /\ U32(sys_time' - (behind + 1)) = U32(sys_time - behind)
    BY <2>1, <1>3
  <2> QED
    BY <2>2, <1>1, <1>2 DEF CallTrue
<1>12. InWindow'
  <2>1. \A i \in 1..N : L(i) \in Int
    BY <1>3 DEF L
  <2>2. \A i \in 1..N : -MaxLate <= L(i) - 1
    BY <2>1, <1>2, ClockRange DEF L
  <2>3. \A i \in 1..N : (L(i) - 1) + late' <= LWIP_MAX_TIMEOUT
    BY <2>1, <1>2, <1>3, <1>6, ClockRange
  <2>4. \A i, j \in 1..N : (L(j) - 1) - (L(i) - 1) <= LWIP_MAX_TIMEOUT
    BY <2>1, <1>6
  <2> QED
    BY <2>2, <2>3, <2>4, <1>4, <1>5 DEF InWindow
<1>13. Sorted'
  <2>1. ASSUME NEW i \in 1..N, NEW j \in 1..N, i <= j
        PROVE  L(i) - 1 <= L(j) - 1
    <3>1. L(i) \in Int /\ L(j) \in Int
      BY <1>3 DEF L
    <3>2. L(i) <= L(j)
      BY <1>6, <2>1
    <3> QED
      BY <3>1, <3>2
  <2> QED
    BY <2>1, <1>4, <1>5 DEF Sorted
<1>14. Calls' /\ PlaceKept'
  BY <1>1, <1>2, <1>5 DEF Calls, PlaceKept
<1>15. Once' /\ Present'
  <2>1. (\A t : Listed(t)' <=> Listed(t)) /\ (Unique => Unique')
    BY <1>4, <1>5, SameTimers
  <2> QED
    BY <2>1, <1>1, <1>2, <1>5 DEF Once, Present
<1> QED
  BY <1>9, <1>10, <1>11, <1>12, <1>13, <1>14, <1>15 DEF IInv

\* Every step keeps the invariant.
LEMMA NextInvariant == IInv /\ [Next]_vars => IInv'
<1> SUFFICES ASSUME IInv, [Next]_vars PROVE IInv'
  OBVIOUS
<1>1. CASE sys_timeouts_init
  BY <1>1, InitStepInvariant
<1>2. CASE Enter
  BY <1>2, EnterInvariant
<1>3. CASE Expire
  BY <1>3, ExpireInvariant
<1>4. CASE HandlerReturns
  BY <1>4, HandlerReturnsInvariant
<1>5. CASE Leave
  BY <1>5, LeaveInvariant
<1>6. CASE \E timer \in OneShot, msecs \in Msecs : sys_timeout(timer, msecs)
  BY <1>6, TimeoutInvariant
<1>7. CASE \E timer \in OneShot : sys_untimeout(timer)
  BY <1>7, UntimeoutInvariant
<1>8. CASE sys_restart_timeouts
  BY <1>8, RestartInvariant
<1>9. CASE SysTick
  BY <1>9, SysTickInvariant
<1>10. CASE UNCHANGED vars
  BY <1>10 DEF vars, IInv, TypeOK, TimesTrue, CallTrue, InWindow, Calls,
     PlaceKept, Once, Unique, Listed, Present, Sorted
<1> QED
  BY <1>1, <1>2, <1>3, <1>4, <1>5, <1>6, <1>7, <1>8, <1>9, <1>10
  DEF Next, sys_check_timeouts, Caller

-----------------------------------------------------------------------------
(* The theorems.                                                           *)

\* The inductive invariant holds in every state: the code's times agree with
\* the real distances, and none is too far away to be compared
\* (timeouts.c:73, 180-222).
THEOREM Invariance == Spec => []IInv
<1>1. Init => IInv
  BY InitInvariant
<1>2. IInv /\ [Next]_vars => IInv'
  BY NextInvariant
<1> QED
  BY <1>1, <1>2, PTL DEF Spec

\* The list is in order of the real times, across every wrap of the clock
\* (timeouts.c:209-219).
THEOREM ListSorted == Spec => []Sorted
<1>1. IInv => Sorted
  BY DEF IInv
<1> QED
  BY <1>1, Invariance, PTL

\* From one entry per listed timer to the entries as CyclicKept counts them.
LEMMA KeptOnce == IInv => CyclicKept
<1> SUFFICES ASSUME IInv, pc # "init", NEW t \in Cyclic
             PROVE  LET entries == {i \in 1..Len(next_timeout) :
                                      next_timeout[i].timer = t}
                    IN  IF running = t THEN entries = {}
                        ELSE \E i \in entries : entries = {i}
  BY DEF CyclicKept
<1> DEFINE entries == {i \in 1..Len(next_timeout) : next_timeout[i].timer = t}
<1>1. CASE running = t
  <2>1. ~Listed(t)
    BY <1>1 DEF IInv, Once
  <2> QED
    BY <2>1, <1>1 DEF Listed
<1>2. CASE running # t
  <2>1. PICK i \in 1..Len(next_timeout) : next_timeout[i].timer = t
    BY <1>2 DEF IInv, Present, Listed
  <2>2. \A j \in entries : j = i
    BY <2>1 DEF IInv, Once, Unique
  <2>3. i \in entries /\ entries = {i}
    BY <2>1, <2>2
  <2> QED
    BY <2>3, <1>2
<1> QED
  BY <1>1, <1>2

\* No cyclic timer is lost or registered twice, whatever one-shot timeouts
\* share the pool (timeouts.c:232-261, 377-391).
THEOREM NoTimerLost == Spec => []CyclicKept
  BY KeptOnce, Invariance, PTL

\* No handler is called early, although its time and the clock are numbers
\* that wrap (timeouts.c:373).
THEOREM HandlersNotEarly == Spec => NeverEarly
<1>1. IInv /\ [Next]_vars
        => [pc = "loop" /\ pc' = "handler" => behind' >= 0]_vars
  <2> SUFFICES ASSUME IInv, Next, pc = "loop", pc' = "handler"
               PROVE  behind' >= 0
    BY DEF vars
  <2>1. Expire
    BY DEF Next, sys_timeouts_init, sys_check_timeouts, Enter, HandlerReturns,
       Leave, Caller, sys_timeout, sys_untimeout, sys_restart_timeouts, SysTick,
       call
  <2> QED
    BY <2>1, ExpireInvariant
<1> QED
  BY <1>1, Invariance, PTL DEF Spec, NeverEarly

\* sys_check_timeouts returns only when nothing is left that was due when it
\* began (timeouts.c:358-395).
THEOREM AllDueCalled == Spec => NothingOverdue
<1>1. IInv /\ [Next]_vars
        => [pc = "loop" /\ pc' = "main" =>
              \A i \in 1..Len(next_timeout) : next_timeout[i].left + late > 0]_vars
  <2> SUFFICES ASSUME IInv, Next, pc = "loop", pc' = "main",
                      NEW i \in 1..Len(next_timeout)
               PROVE  next_timeout[i].left + late > 0
    BY DEF vars
  <2>1. Leave
    BY DEF Next, sys_timeouts_init, sys_check_timeouts, Enter, HandlerReturns,
       Expire, Caller, sys_timeout, sys_untimeout, sys_restart_timeouts, SysTick,
       call
  <2>2. TypeOK /\ Sorted
    BY DEF IInv
  <2>3. next_timeout # <<>>
    BY <2>2, EmptySeq, ListTyped DEF TypeOK
  <2>4. 1 \in 1..Len(next_timeout) /\ ~(next_timeout[1].left + late <= 0)
    BY <2>1, <2>3, ExpiredTrue DEF Leave
  <2>5. next_timeout[1].left <= next_timeout[i].left
    BY <2>2, <2>4 DEF Sorted
  <2>6. /\ next_timeout[1].left \in Int /\ next_timeout[i].left \in Int
        /\ late \in Int
    BY <2>2, <2>4, ListTyped, ClockRange DEF TypeOK
  <2> QED
    BY <2>4, <2>5, <2>6
<1> QED
  BY <1>1, Invariance, PTL DEF Spec, NothingOverdue

\* A cyclic timer is registered at its pace, and never in the past
\* (timeouts.c:243-260).
THEOREM TimersPaced == Spec => Paced
<1> DEFINE Again ==
      \E i \in 1..Len(next_timeout') :
        /\ next_timeout'[i].timer = running
        /\ next_timeout'[i].left >= 0
        /\ next_timeout'[i].left >= interval_ms[running] - behind
<1>1. IInv /\ [Next]_vars
        => [pc = "handler" /\ pc' = "loop" /\ running \in Cyclic => Again]_vars
  <2> SUFFICES ASSUME IInv, Next, pc = "handler", pc' = "loop",
                      running \in Cyclic
               PROVE  Again
    BY DEF vars
  <2>1. HandlerReturns
    BY DEF Next, sys_timeouts_init, sys_check_timeouts, Enter, Leave,
       Expire, Caller, sys_timeout, sys_untimeout, sys_restart_timeouts, SysTick,
       call
  <2>2. PICK i \in 1..Len(next_timeout') :
          next_timeout'[i].timer = running /\ next_timeout'[i].left = Due.left
    BY <2>1, RegisterKeeps
  <2>3. /\ Due.left \in Int /\ 0 <= Due.left
        /\ Due.left >= interval_ms[running] - behind
    BY DueTrue
  <2>4. next_timeout'[i].left >= 0
    BY <2>2, <2>3
  <2> QED
    BY <2>2, <2>3, <2>4
<1> QED
  BY <1>1, Invariance, PTL DEF Spec, Paced
=============================================================================
