------------------------------ MODULE LoadMath ------------------------------
(***************************************************************************)
(* The arithmetic of the load averages and of rq->cpu_load[] (core.c),     *)
(* against its definition step by step: what the bulk forms for CPUs that  *)
(* missed ticks compute, and by how much they differ from doing each tick. *)
(***************************************************************************)
EXTENDS Integers, Sequences

CONSTANTS
  FSHIFT, Exps,       \* 11; {EXP_1, EXP_5, EXP_15} = {1884, 2014, 2037}
  DEGRADE_SHIFT,      \* 7
  MaxPeriods, Loads, MaxMissed    \* bounds: the inputs that are compared

FIXED_1 == 2^FSHIFT
Half == 2^(FSHIFT - 1)

\* a0 * e + a * (1 - e), rounded.
calc_load(load, exp, active) ==
  (load * exp + active * (FIXED_1 - exp) + Half) \div FIXED_1

Mul(a, b) == (a * b + Half) \div FIXED_1

\* Mutant: the square is multiplied in when the bit is clear.
fixed_power_int_Bits(x0, n0) ==
  LET Loop[n \in Nat, x \in Nat, result \in Nat] ==
        IF n = 0 THEN result
        ELSE Loop[n \div 2, Mul(x, x), IF n % 2 = 0 THEN Mul(result, x) ELSE result]
  IN  Loop[n0, x0, FIXED_1]

\* The loop over the bits of n, by squaring.
fixed_power_int(x0, n0) ==
  LET Loop[n \in Nat, x \in Nat, result \in Nat] ==
        IF n = 0 THEN result
        ELSE Loop[n \div 2, Mul(x, x), IF n % 2 = 1 THEN Mul(result, x) ELSE result]
  IN  Loop[n0, x0, FIXED_1]

calc_load_n(load, exp, active, n) == calc_load(load, fixed_power_int(exp, n), active)

-----------------------------------------------------------------------------
(* rq->cpu_load[1 .. 4]: exponential averages of the run queue's weight.   *)

Indices == 1 .. 4
Scale(i) == 2^i

degrade_zero_ticks == << 8, 32, 64, 128 >>

degrade_factor == << << 64, 32, 8, 0, 0, 0, 0, 0 >>,
                     << 96, 72, 40, 12, 1, 0, 0, 0 >>,
                     << 112, 98, 75, 43, 15, 1, 0, 0 >>,
                     << 120, 112, 98, 76, 45, 16, 2, 0 >> >>

\* Mutant: the row of the index below.
decay_load_missed_Row(load0, missed0, i) ==
  LET Loop[missed \in Nat, j \in Nat, load \in Nat] ==
        IF missed = 0 THEN load
        ELSE Loop[missed \div 2, j + 1,
                  IF missed % 2 = 1
                  THEN (load * degrade_factor[i - 1][j]) \div 2^DEGRADE_SHIFT ELSE load]
  IN  CASE missed0 = 0 -> load0
        [] missed0 >= degrade_zero_ticks[i] -> 0
        [] missed0 # 0 /\ missed0 < degrade_zero_ticks[i] ->
             IF i = 1 THEN load0 \div 2^missed0 ELSE Loop[missed0, 1, load0]

decay_load_missed(load0, missed0, i) ==
  LET Loop[missed \in Nat, j \in Nat, load \in Nat] ==
        IF missed = 0 THEN load
        ELSE Loop[missed \div 2, j + 1,
                  IF missed % 2 = 1
                  THEN (load * degrade_factor[i][j]) \div 2^DEGRADE_SHIFT ELSE load]
  IN  CASE missed0 = 0 -> load0
        [] missed0 >= degrade_zero_ticks[i] -> 0
        [] missed0 # 0 /\ missed0 < degrade_zero_ticks[i] ->
             IF i = 1 THEN load0 \div 2^missed0 ELSE Loop[missed0, 1, load0]

\* One index of update_cpu_load, pending ticks after the last one.
update_cpu_load(load, this_load, pending, i) ==
  LET old == decay_load_missed(load, pending - 1, i)
      new == IF this_load > old THEN this_load + Scale(i) - 1 ELSE this_load
  IN  (old * (Scale(i) - 1) + new) \div Scale(i)

-----------------------------------------------------------------------------
(* Properties, of the operators alone.                                     *)

\* A load after n periods with the same number of active tasks, one at a
\* time (calc_global_load).
Stepwise(load, exp, active, n) ==
  LET After[k \in Nat] == IF k = 0 THEN load ELSE calc_load(After[k-1], exp, active)
  IN  After[n]

Distance(a, b) == IF a < b THEN b - a ELSE a - b

\* Catching up on n periods at once (calc_load_n, core.c:2451-2457) differs
\* from n single updates by rounding only: at most half a unit (of 2048) for each,
\* and four for the powers.
BulkNearStepwise ==
  \A exp \in Exps : \A n \in 1 .. MaxPeriods : \A load \in Loads : \A tasks \in 0 .. 2 :
    LET active == tasks * FIXED_1
    IN  Distance(calc_load_n(load, exp, active, n), Stepwise(load, exp, active, n))
          <= n \div 2 + 4

\* The decay table (core.c:2589-2597) is that of single ticks without load, up
\* to a 128th of the load, and what a tick computes is at most the higher of
\* the two loads, at least the lower, and not stuck below this_load.
DecayNearStepwise ==
  \A i \in Indices : \A load \in Loads :
    LET Ticks[k \in Nat] == IF k = 0 THEN load ELSE (Ticks[k-1] * (Scale(i) - 1)) \div Scale(i)
    IN  /\ \A n \in 0 .. MaxMissed :
             Distance(decay_load_missed(load, n, i), Ticks[n]) <= load \div 128 + Scale(i)
        /\ \A this \in Loads :
             LET new == update_cpu_load(load, this, 1, i)
             IN  IF this > load THEN new > load /\ new <= this ELSE new >= this /\ new <= load
=============================================================================
