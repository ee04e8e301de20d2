------------------------------ MODULE Timeouts ------------------------------
(***************************************************************************)
(* The timeouts of lwIP (timeouts.c) as main's loop runs them: a list of   *)
(* timeouts ordered by their time, cyclic timers that register themselves  *)
(* again, one-shot timeouts, and a millisecond clock that is advanced by   *)
(* an interrupt at any moment and wraps.                                   *)
(*                                                                         *)
(* Each entry also carries, as history, left: the milliseconds that really *)
(* remain until it is due, negative once they have passed.  The code knows *)
(* only its time, a number modulo TIME_MOD.                                *)
(***************************************************************************)
EXTENDS Integers, Sequences

CONSTANTS TIME_MOD,              \* 2^32: the values of a u32_t
          MEMP_NUM_SYS_TIMEOUT,  \* timeouts in the pool
          lwip_cyclic_timers,    \* the cyclic timers, a sequence
          interval_ms,           \* their intervals, by timer
          OneShot,               \* handlers given to sys_timeout
          Msecs,                 \* times given to sys_timeout
          MaxLate                \* bound: how late main's loop may be, in ms

Cyclic  == {lwip_cyclic_timers[i] : i \in DOMAIN lwip_cyclic_timers}
NoTimer == "none"

LWIP_MAX_TIMEOUT == TIME_MOD \div 2 - 1

\* sys_timeout asserts that no time is more than a quarter of the range.  A
\* loop that is not late by more than 24 days satisfies the second line.
ASSUME TimeoutsAssumption ==
  /\ TIME_MOD \in Nat /\ TIME_MOD % 4 = 0 /\ TIME_MOD > 0
  /\ MaxLate \in Nat /\ 2 * MaxLate <= LWIP_MAX_TIMEOUT
  /\ interval_ms \in [Cyclic -> 1..TIME_MOD \div 4]
  /\ \A t \in Cyclic : interval_ms[t] + MaxLate <= LWIP_MAX_TIMEOUT
  /\ Msecs \subseteq 0..TIME_MOD \div 4
  /\ \A m \in Msecs : m + MaxLate <= LWIP_MAX_TIMEOUT
  /\ MEMP_NUM_SYS_TIMEOUT \in Nat
  /\ lwip_cyclic_timers \in Seq(Cyclic)
  /\ Len(lwip_cyclic_timers) \in 1..MEMP_NUM_SYS_TIMEOUT
  /\ \A i, j \in DOMAIN lwip_cyclic_timers :
       i # j => lwip_cyclic_timers[i] # lwip_cyclic_timers[j]
  /\ Cyclic \cap OneShot = {} /\ NoTimer \notin Cyclic \union OneShot

VARIABLES
  sys_time,                  \* main.c: the clock, counted by SysTick_Handler
  next_timeout,              \* the list
  running,                   \* the timer whose handler runs, or NoTimer
  current_timeout_due_time,  \* its time
  pc,                        \* "init", "main", "loop" or "handler"
  started,                   \* now of sys_check_timeouts
  behind,                    \* history: ms since the running timer was due
  late                       \* history: ms since sys_check_timeouts began

vars == <<sys_time, next_timeout, running, current_timeout_due_time, pc,
          started, behind, late>>
call == <<pc, started, late>>
handler == <<running, current_timeout_due_time, behind>>

U32(n) == n % TIME_MOD

-----------------------------------------------------------------------------
(* The list.                                                               *)

\* Variant: times are compared as they are.
TIME_LESS_THAN_Plain(t, compare_to) == t < compare_to

TIME_LESS_THAN(t, compare_to) == U32(t - compare_to) > LWIP_MAX_TIMEOUT

Entry(timer, time, left) == [timer |-> timer, time |-> time, left |-> left]

\* Variant: the first timeout of the list is not compared.
Insert_NotFirst(list, e) ==
  LET later == {i \in 2..Len(list) : TIME_LESS_THAN(e.time, list[i].time)}
      n == IF later = {} THEN Len(list)
           ELSE (CHOOSE i \in later : \A j \in later : i <= j) - 1
  IN  SubSeq(list, 1, n) \o <<e>> \o SubSeq(list, n + 1, Len(list))

\* The place of a new timeout is before the first one that is later.
Insert(list, e) ==
  LET later == {i \in 1..Len(list) : TIME_LESS_THAN(e.time, list[i].time)}
      n == IF later = {} THEN Len(list)
           ELSE (CHOOSE i \in later : \A j \in later : i <= j) - 1
  IN  SubSeq(list, 1, n) \o <<e>> \o SubSeq(list, n + 1, Len(list))

\* sys_timeout_abs; without a free timeout in the pool nothing happens
sys_timeout_abs(time, timer, left) ==
  IF Len(next_timeout) < MEMP_NUM_SYS_TIMEOUT
  THEN next_timeout' = Insert(next_timeout, Entry(timer, time, left))
  ELSE UNCHANGED next_timeout

\* sys_timeout, called from main or from a handler.  Its callers leave the
\* cyclic timers their place in the pool.
sys_timeout(timer, msecs) ==
  /\ pc \in {"main", "handler"}
  /\ LET idle == {t \in Cyclic : \A i \in 1..Len(next_timeout) :
                                   next_timeout[i].timer # t}
         held == IF idle = {} THEN 0 ELSE 1
     IN  Len(next_timeout) + held < MEMP_NUM_SYS_TIMEOUT
  /\ sys_timeout_abs(U32(sys_time + msecs), timer, msecs)
  /\ UNCHANGED <<sys_time, call, handler>>

\* sys_untimeout: the first entry of the timer goes
sys_untimeout(timer) ==
  /\ pc \in {"main", "handler"}
  /\ LET match == {i \in 1..Len(next_timeout) :
                     next_timeout[i].timer = timer}
     IN  /\ match # {}
         /\ LET i == CHOOSE i \in match : \A j \in match : i <= j
            IN  next_timeout' = SubSeq(next_timeout, 1, i - 1)
                                  \o SubSeq(next_timeout, i + 1,
                                            Len(next_timeout))
  /\ UNCHANGED <<sys_time, call, handler>>

\* sys_restart_timeouts: the first timeout becomes due, the others keep
\* their distance to it
sys_restart_timeouts ==
  /\ pc = "main"
  /\ next_timeout # <<>>
  /\ LET base == Head(next_timeout)
     IN  next_timeout' =
           [i \in 1..Len(next_timeout) |->
              [next_timeout[i] EXCEPT !.time = U32((@ - base.time) + sys_time),
                                      !.left = @ - base.left]]
  /\ UNCHANGED <<sys_time, call, handler>>

-----------------------------------------------------------------------------
(* sys_check_timeouts.                                                     *)

Enter ==
  /\ pc = "main"
  /\ pc' = "loop"
  /\ started' = sys_time
  /\ late' = 0
  /\ UNCHANGED <<sys_time, next_timeout, handler>>

\* Variant: a timeout that is due in this millisecond has not expired.
Expired_OffByOne == /\ next_timeout # <<>>
                    /\ TIME_LESS_THAN(Head(next_timeout).time, started)

\* Variant: now is read again for each timeout.
Expired_Moving == /\ next_timeout # <<>>
                  /\ ~TIME_LESS_THAN(sys_time, Head(next_timeout).time)

Expired == /\ next_timeout # <<>>
           /\ ~TIME_LESS_THAN(started, Head(next_timeout).time)

\* The first timeout has expired: it is taken from the list, and its handler
\* is called.
Expire ==
  /\ pc = "loop"
  /\ Expired
  /\ next_timeout' = Tail(next_timeout)
  /\ running' = Head(next_timeout).timer
  /\ current_timeout_due_time' = Head(next_timeout).time
  /\ behind' = -Head(next_timeout).left
  /\ pc' = "handler"
  /\ UNCHANGED <<sys_time, started, late>>

\* Variant: no overload correction.
Due_NoRestart ==
  [time |-> U32(current_timeout_due_time + interval_ms[running]),
   left |-> interval_ms[running] - behind]

\* When a cyclic timer is due again: an interval after it was due last, but
\* if that has passed already an interval from now.
Due ==
  LET next == U32(current_timeout_due_time + interval_ms[running])
  IN  IF TIME_LESS_THAN(next, sys_time)
      THEN [time |-> U32(sys_time + interval_ms[running]),
            left |-> interval_ms[running]]
      ELSE [time |-> next, left |-> interval_ms[running] - behind]

\* Variant: a cyclic timer that is overdue again is not registered.
Registers_IfOnTime == /\ running \in Cyclic
                      /\ behind <= interval_ms[running]

\* lwip_cyclic_timer registers itself, however late it is.
Registers == running \in Cyclic

\* The handler returns; a cyclic timer (lwip_cyclic_timer) registers itself.
HandlerReturns ==
  /\ pc = "handler"
  /\ IF Registers THEN sys_timeout_abs(Due.time, running, Due.left)
                  ELSE UNCHANGED next_timeout
  /\ running' = NoTimer
  /\ behind' = 0
  /\ UNCHANGED current_timeout_due_time
  /\ pc' = "loop"
  /\ UNCHANGED <<sys_time, started, late>>

\* What is left is not due; now, a local variable, is gone.
Leave ==
  /\ pc = "loop"
  /\ ~Expired
  /\ pc' = "main"
  /\ started' = 0
  /\ late' = 0
  /\ UNCHANGED <<sys_time, next_timeout, handler>>

-----------------------------------------------------------------------------
\* SysTick_Handler.  It interrupts anything; the loop is bounded in how far
\* it may be behind.
SysTick ==
  /\ \A i \in 1..Len(next_timeout) : next_timeout[i].left > -MaxLate
  /\ behind < MaxLate
  /\ late < MaxLate
  /\ sys_time' = U32(sys_time + 1)
  /\ next_timeout' = [i \in 1..Len(next_timeout) |->
                        [next_timeout[i] EXCEPT !.left = @ - 1]]
  /\ behind' = IF pc = "handler" THEN behind + 1 ELSE 0
  /\ late' = IF pc \in {"loop", "handler"} THEN late + 1 ELSE 0
  /\ UNCHANGED <<running, current_timeout_due_time, pc, started>>

\* sys_timeouts_init: the cyclic timers are registered one by one.
sys_timeouts_init ==
  /\ pc = "init"
  /\ LET t == lwip_cyclic_timers[Len(next_timeout) + 1]
     IN  sys_timeout_abs(U32(sys_time + interval_ms[t]), t, interval_ms[t])
  /\ pc' = IF Len(next_timeout') = Len(lwip_cyclic_timers) THEN "main"
                                                           ELSE "init"
  /\ UNCHANGED <<sys_time, started, late, handler>>

\* SysTick has been running for any time before lwip_init.
Init ==
  /\ sys_time \in 0..TIME_MOD - 1
  /\ next_timeout = <<>>
  /\ running = NoTimer
  /\ current_timeout_due_time = 0
  /\ pc = "init"
  /\ started = 0
  /\ behind = 0
  /\ late = 0

sys_check_timeouts == Enter \/ Expire \/ HandlerReturns \/ Leave

Caller == \/ \E timer \in OneShot, msecs \in Msecs : sys_timeout(timer, msecs)
          \/ \E timer \in OneShot : sys_untimeout(timer)
          \/ sys_restart_timeouts

Next == sys_timeouts_init \/ sys_check_timeouts \/ Caller \/ SysTick

Spec == Init /\ [][Next]_vars

\* main calls sys_check_timeouts for ever and every handler returns; the
\* clock runs.
FairSpec == /\ Spec
            /\ WF_vars(sys_timeouts_init)
            /\ WF_vars(sys_check_timeouts)
            /\ WF_vars(SysTick)

-----------------------------------------------------------------------------
(* Properties.                                                             *)

\* The list is ordered by the real time at which its timeouts are due,
\* although the code compares numbers that wrap (timeouts.c:73, 209-219).
Sorted == \A i, j \in 1..Len(next_timeout) :
            i <= j => next_timeout[i].left <= next_timeout[j].left

\* No cyclic timer is ever lost or registered twice: it is in the list, or
\* its handler runs and will register it (timeouts.c:232-261, 377-391).
CyclicKept ==
  pc # "init" =>
    \A t \in Cyclic :
      LET entries == {i \in 1..Len(next_timeout) : next_timeout[i].timer = t}
      IN  IF running = t THEN entries = {}
          ELSE \E i \in entries : entries = {i}

\* No handler is called before its time (timeouts.c:373).
NeverEarly == [][pc = "loop" /\ pc' = "handler" => behind' >= 0]_vars

\* When sys_check_timeouts returns, everything that was due when it began
\* has been called (timeouts.c:358-395).
NothingOverdue ==
  [][pc = "loop" /\ pc' = "main" =>
       \A i \in 1..Len(next_timeout) : next_timeout[i].left + late > 0]_vars

\* A cyclic timer keeps its pace: it is due again not earlier than one
\* interval after it was due, and however long it was delayed it does not
\* have to catch up: it is never overdue as it is registered
\* (timeouts.c:243-260).
Paced ==
  [][pc = "handler" /\ pc' = "loop" /\ running \in Cyclic =>
       \E i \in 1..Len(next_timeout') :
         /\ next_timeout'[i].timer = running
         /\ next_timeout'[i].left >= 0
         /\ next_timeout'[i].left >= interval_ms[running] - behind]_vars

\* sys_check_timeouts returns to the loop that polls for frames, also when
\* handlers ask to be called at once (timeouts.c:358-359).
ChecksReturn == []<>(pc = "main")

\* Every cyclic timer runs again and again (timeouts.c:232-261), unless the
\* program never stops to call sys_restart_timeouts, which puts off every
\* timeout but the first.
EveryTimerRuns == <>[][~sys_restart_timeouts]_vars
                    => \A t \in Cyclic : []<>(running = t)

=============================================================================
