----------------------------- MODULE MCTimeouts -----------------------------
(***************************************************************************)
(* Timeouts with a clock of 4 bits, which wraps every 16 ms, two cyclic    *)
(* timers as in the program, of different intervals, and one one-shot      *)
(* timeout in the third place of the pool.                                 *)
(***************************************************************************)
EXTENDS Timeouts

const_timers   == <<"ip_reass_tmr", "etharp_tmr">>
const_interval == [t \in {"ip_reass_tmr", "etharp_tmr"} |->
                     IF t = "etharp_tmr" THEN 3 ELSE 2]
=============================================================================
