------------------------------ MODULE CalcLoad ------------------------------
(***************************************************************************)
(* The global load average (core.c): every LOAD_FREQ each CPU adds the     *)
(* change of its number of active tasks to calc_load_tasks, and Window     *)
(* ticks later the timekeeper takes the sum as a sample.  CPUs that stop   *)
(* their tick put the change into one of two idle deltas instead.  The     *)
(* timekeeper and the CPUs share no lock: a step here is an access to      *)
(* what they share.                                                        *)
(***************************************************************************)
EXTENDS LoadMath, FiniteSets, Functions

CONSTANTS
  Cpus,
  LOAD_FREQ, Window,    \* 5 s and 10 ticks
  NrActive,             \* bound: what nr_running + nr_uninterruptible may be
  MaxJump, MaxJiffies,  \* bounds: ticks missed while all CPUs are idle, and in all
  MaxDebt               \* bound: CPUs do not go while an idle delta is more

ASSUME CalcLoadAssumption ==
  /\ IsFiniteSet(Cpus)
  /\ Window \in Nat /\ LOAD_FREQ \in Nat /\ 0 < Window /\ Window < LOAD_FREQ
  /\ NrActive \subseteq Int /\ 0 \in NrActive
  /\ MaxJump \in Nat /\ MaxJiffies \in Nat /\ MaxDebt \in Nat

VARIABLES
  jiffies,
  calc_load_update, calc_load_tasks,
  calc_load_idx, calc_load_idle,    \* the index modulo 2, the two idle deltas
  nr_active,                        \* rq->nr_running + rq->nr_uninterruptible
  rq_active, rq_update,             \* rq->calc_load_active, rq->calc_load_update
  ticked,                           \* the CPUs whose tick has come in this jiffy
  cpu,                              \* "busy", "entering", "idle" or "off"
  entry,                            \* of those entering: delta, index read, and
                                    \*   whether it was amid calc_global_load
  tk, tk_delta,                     \* where the timekeeper is in calc_global_load
  periods,                          \* history: times avenrun has been decayed
  early,                            \* history: slots with deltas of before the window
  settled,                          \* history: CPUs that were sampled or woke in
                                    \*   this window
  skipper                           \* history: those that last woke before a window,
                                    \*   having slept through one

vars == << jiffies, calc_load_update, calc_load_tasks, calc_load_idx, calc_load_idle,
           nr_active, rq_active, rq_update, ticked, cpu, entry, tk, tk_delta,
           periods, early, settled, skipper >>

timeVars == << jiffies, ticked, tk, tk_delta, periods, calc_load_update, calc_load_idx >>
history == << early, settled, skipper >>

NoEntry == [delta |-> 0, slot |-> 0, torn |-> FALSE]

Init ==
  /\ jiffies = 0
  /\ calc_load_update = LOAD_FREQ
  /\ calc_load_tasks = 0
  /\ calc_load_idx = 0
  /\ calc_load_idle = [s \in 0 .. 1 |-> 0]
  /\ nr_active = [c \in Cpus |-> 0]
  /\ rq_active = [c \in Cpus |-> 0]
  /\ rq_update = [c \in Cpus |-> LOAD_FREQ]
  /\ ticked = {}
  /\ cpu = [c \in Cpus |-> "busy"]
  /\ entry = [c \in Cpus |-> NoEntry]
  /\ tk = "wait" /\ tk_delta = 0
  /\ periods = 0
  /\ early = {}
  /\ settled = {}
  /\ skipper = {}

-----------------------------------------------------------------------------
(* The timekeeper: calc_global_load, called at each update of jiffies.     *)

Busy == {c \in Cpus : cpu[c] = "busy"}
Entering == {c \in Cpus : cpu[c] = "entering"}

\* The assumption of the comment at core.c:2209-2214: within Window ticks
\* every CPU whose tick runs has taken its sample, and none is held up with
\* interrupts off.
OnTime(now) ==
  now >= calc_load_update + Window =>
    /\ \A c \in Busy : rq_update[c] > calc_load_update
    /\ Entering = {}

\* n > 1: all CPUs were idle.
do_timer(n) ==
  /\ tk = "wait"
  /\ n > 1 => Busy \cup Entering = {}
  /\ jiffies + n <= MaxJiffies
  /\ OnTime(jiffies + n)
  /\ jiffies' = jiffies + n
  /\ ticked' = {}
  /\ tk' = IF jiffies' < calc_load_update + Window THEN "wait" ELSE "fold"
  /\ UNCHANGED << calc_load_update, calc_load_tasks, calc_load_idx, calc_load_idle, nr_active,
                  rq_active, rq_update, cpu, entry, tk_delta, periods, history >>

calc_load_fold_idle ==
  /\ tk = "fold"
  /\ tk_delta' = calc_load_idle[calc_load_idx]
  /\ calc_load_idle' = [calc_load_idle EXCEPT ![calc_load_idx] = 0]
  /\ early' = early \ {calc_load_idx}
  /\ tk' = "sample"
  /\ UNCHANGED << jiffies, ticked, calc_load_update, calc_load_tasks, calc_load_idx, nr_active,
                  rq_active, rq_update, cpu, entry, periods, settled, skipper >>

\* avenrun gets calc_load of calc_load_tasks.
calc_global_load ==
  /\ tk = "sample"
  /\ calc_load_tasks' = calc_load_tasks + tk_delta
  /\ tk_delta' = 0
  /\ calc_load_update' = calc_load_update + LOAD_FREQ
  /\ periods' = periods + 1
  /\ settled' = {}
  /\ tk' = "catchup"
  /\ UNCHANGED << jiffies, ticked, calc_load_idx, calc_load_idle, nr_active, rq_active, rq_update,
                  cpu, entry, early, skipper >>

\* Mutant: the period that has begun is not counted.
CatchUp_OneLess ==
  /\ tk = "catchup"
  /\ LET n == (jiffies - calc_load_update - Window) \div LOAD_FREQ
     IN  IF jiffies < calc_load_update + Window
         THEN UNCHANGED << calc_load_update, periods >>
         ELSE calc_load_update' = calc_load_update + n * LOAD_FREQ /\ periods' = periods + n
  /\ tk' = "flip"
  /\ UNCHANGED << jiffies, ticked, calc_load_tasks, calc_load_idx, calc_load_idle, nr_active, rq_active,
                  rq_update, cpu, entry, tk_delta, history >>

\* calc_global_nohz but for its last line: calc_load_n over n periods.
CatchUp ==
  /\ tk = "catchup"
  /\ LET n == 1 + (jiffies - calc_load_update - Window) \div LOAD_FREQ
     IN  IF jiffies < calc_load_update + Window
         THEN UNCHANGED << calc_load_update, periods >>
         ELSE calc_load_update' = calc_load_update + n * LOAD_FREQ /\ periods' = periods + n
  /\ tk' = "flip"
  /\ UNCHANGED << jiffies, ticked, calc_load_tasks, calc_load_idx, calc_load_idle, nr_active, rq_active,
                  rq_update, cpu, entry, tk_delta, history >>

Flip ==
  /\ tk = "flip"
  /\ calc_load_idx' = 1 - calc_load_idx
  /\ tk' = "wait"
  /\ UNCHANGED << jiffies, ticked, calc_load_update, calc_load_tasks, calc_load_idle, nr_active,
                  rq_active, rq_update, cpu, entry, tk_delta, periods, history >>

-----------------------------------------------------------------------------
(* The CPUs.                                                               *)

InWindow ==
  tk = "wait" /\ calc_load_update <= jiffies /\ jiffies < calc_load_update + Window

\* Tasks come and go.
SetActive(c, n) ==
  /\ cpu[c] = "busy" /\ n # nr_active[c]
  /\ nr_active' = [nr_active EXCEPT ![c] = n]
  /\ UNCHANGED << timeVars, calc_load_tasks, calc_load_idle, rq_active, rq_update, cpu, entry,
                  history >>

\* The tick of c in the window: with calc_load_fold_active.
calc_load_account_active(c) ==
  /\ cpu[c] = "busy"
  /\ c \notin ticked /\ jiffies >= rq_update[c]
  /\ ticked' = ticked \cup {c}
  /\ calc_load_tasks' = calc_load_tasks + nr_active[c] - rq_active[c]
  /\ rq_active' = [rq_active EXCEPT ![c] = nr_active[c]]
  /\ rq_update' = [rq_update EXCEPT ![c] = @ + LOAD_FREQ]
  /\ settled' = IF InWindow /\ calc_load_update <= rq_update[c] THEN settled \cup {c} ELSE settled
  /\ skipper' = skipper \ {c}
  /\ UNCHANGED << jiffies, tk, tk_delta, periods, calc_load_update, calc_load_idx,
                  calc_load_idle, nr_active, cpu, entry, early >>

\* calc_load_enter_idle: calc_load_fold_active, and the index is read.
calc_load_enter_idle(c) ==
  /\ cpu[c] = "busy"
  /\ rq_active' = [rq_active EXCEPT ![c] = nr_active[c]]
  /\ LET delta == nr_active[c] - rq_active[c]
     IN IF delta = 0
        THEN cpu' = [cpu EXCEPT ![c] = "idle"] /\ UNCHANGED entry
        ELSE /\ cpu' = [cpu EXCEPT ![c] = "entering"]
             /\ entry' = [entry EXCEPT ![c] =
                  [delta |-> delta, slot |-> calc_load_idx, torn |-> tk # "wait"]]
  /\ UNCHANGED << timeVars, calc_load_tasks, calc_load_idle, nr_active, rq_update, history >>

\* Mutant: the index is never moved on.
AddIdle_SameSlot(c) ==
  /\ cpu[c] = "entering"
  /\ LET slot == entry[c].slot IN
     /\ calc_load_idle' = [calc_load_idle EXCEPT ![slot] = @ + entry[c].delta]
     /\ early' = IF jiffies < calc_load_update /\ ~entry[c].torn THEN early \cup {slot} ELSE early
  /\ cpu' = [cpu EXCEPT ![c] = "idle"]
  /\ entry' = [entry EXCEPT ![c] = NoEntry]
  /\ UNCHANGED << timeVars, calc_load_tasks, nr_active, rq_active, rq_update, settled, skipper >>

\* Mutant: the index is moved on before the window too.
AddIdle_NextSlot(c) ==
  /\ cpu[c] = "entering"
  /\ LET slot == 1 - entry[c].slot IN
     /\ calc_load_idle' = [calc_load_idle EXCEPT ![slot] = @ + entry[c].delta]
     /\ early' = IF jiffies < calc_load_update /\ ~entry[c].torn THEN early \cup {slot} ELSE early
  /\ cpu' = [cpu EXCEPT ![c] = "idle"]
  /\ entry' = [entry EXCEPT ![c] = NoEntry]
  /\ UNCHANGED << timeVars, calc_load_tasks, nr_active, rq_active, rq_update, settled, skipper >>

\* The rest of calc_load_write_idx, which reads the times after the index,
\* and the addition.
AddIdle(c) ==
  /\ cpu[c] = "entering"
  /\ LET slot == IF jiffies < calc_load_update THEN entry[c].slot ELSE 1 - entry[c].slot IN
     /\ calc_load_idle' = [calc_load_idle EXCEPT ![slot] = @ + entry[c].delta]
     /\ early' = IF jiffies < calc_load_update /\ ~entry[c].torn THEN early \cup {slot} ELSE early
  /\ cpu' = [cpu EXCEPT ![c] = "idle"]
  /\ entry' = [entry EXCEPT ![c] = NoEntry]
  /\ UNCHANGED << timeVars, calc_load_tasks, nr_active, rq_active, rq_update, settled, skipper >>

Woke(c) ==
  IF jiffies < rq_update[c] THEN UNCHANGED << settled, skipper >>
  ELSE IF InWindow THEN settled' = settled \cup {c} /\ skipper' = skipper \ {c}
  ELSE settled' = settled \ {c} /\ skipper' = skipper \cup {c}

\* Mutant: one that is not due is moved on as well.
calc_load_exit_idle_NoReturn(c) ==
  /\ cpu[c] = "idle"
  /\ cpu' = [cpu EXCEPT ![c] = "busy"]
  /\ rq_update' = [rq_update EXCEPT ![c] =
       IF jiffies < calc_load_update + Window THEN calc_load_update + LOAD_FREQ
       ELSE calc_load_update]
  /\ Woke(c)
  /\ UNCHANGED << timeVars, calc_load_tasks, calc_load_idle, nr_active, rq_active, entry,
                  early >>

calc_load_exit_idle(c) ==
  /\ cpu[c] = "idle"
  /\ cpu' = [cpu EXCEPT ![c] = "busy"]
  /\ rq_update' = [rq_update EXCEPT ![c] =
       IF jiffies < @ THEN @
       ELSE IF jiffies < calc_load_update + Window THEN calc_load_update + LOAD_FREQ
       ELSE calc_load_update]
  /\ Woke(c)
  /\ UNCHANGED << timeVars, calc_load_tasks, calc_load_idle, nr_active, rq_active, entry,
                  early >>

\* Mutant: what the CPU has accounted is taken back and kept.
calc_global_load_remove_Keeps(c, d) ==
  /\ tk = "wait"
  /\ cpu[c] = "busy" /\ cpu[d] = "busy" /\ c # d
  /\ \A e \in Cpus : cpu[e] \in {"busy", "off"}
  /\ nr_active[c] + nr_active[d] \in NrActive
  /\ \A s \in 0 .. 1 : calc_load_idle[s] \in -MaxDebt .. MaxDebt
  /\ nr_active' = [nr_active EXCEPT ![d] = @ + nr_active[c], ![c] = 0]
  /\ calc_load_tasks' = calc_load_tasks - rq_active[c]
  /\ UNCHANGED rq_active
  /\ cpu' = [cpu EXCEPT ![c] = "off"]
  /\ settled' = settled \ {c}
  /\ UNCHANGED << timeVars, calc_load_idle, rq_update, entry, early, skipper >>

\* CPU_DYING, under stop_machine: migrate_tasks and
\* migrate_nr_uninterruptible move what is active to d, and
\* calc_global_load_remove takes the contribution of c back.
calc_global_load_remove(c, d) ==
  /\ tk = "wait"
  /\ cpu[c] = "busy" /\ cpu[d] = "busy" /\ c # d
  /\ \A e \in Cpus : cpu[e] \in {"busy", "off"}
  /\ nr_active[c] + nr_active[d] \in NrActive
  /\ \A s \in 0 .. 1 : calc_load_idle[s] \in -MaxDebt .. MaxDebt
  /\ nr_active' = [nr_active EXCEPT ![d] = @ + nr_active[c], ![c] = 0]
  /\ calc_load_tasks' = calc_load_tasks - rq_active[c]
  /\ rq_active' = [rq_active EXCEPT ![c] = 0]
  /\ cpu' = [cpu EXCEPT ![c] = "off"]
  /\ settled' = settled \ {c}
  /\ UNCHANGED << timeVars, calc_load_idle, rq_update, entry, early, skipper >>

\* CPU_UP_PREPARE.
migration_call_up(c) ==
  /\ cpu[c] = "off"
  /\ rq_update' = [rq_update EXCEPT ![c] = calc_load_update]
  /\ cpu' = [cpu EXCEPT ![c] = "busy"]
  /\ UNCHANGED << timeVars, calc_load_tasks, calc_load_idle, nr_active, rq_active, entry, history >>

Next ==
  \/ \E n \in 1 .. MaxJump : do_timer(n)
  \/ calc_load_fold_idle \/ calc_global_load \/ CatchUp \/ Flip
  \/ \E c \in Cpus :
       \/ \E n \in NrActive : SetActive(c, n)
       \/ calc_load_account_active(c)
       \/ calc_load_enter_idle(c) \/ AddIdle(c) \/ calc_load_exit_idle(c)
       \/ \E d \in Cpus : calc_global_load_remove(c, d)
       \/ migration_call_up(c)

Spec == Init /\ [][Next]_vars

-----------------------------------------------------------------------------
(* Properties.                                                             *)

\* Every variable keeps its type.
TypeOK ==
  /\ jiffies \in Nat /\ calc_load_update \in Nat
  /\ calc_load_tasks \in Int
  /\ calc_load_idx \in 0 .. 1 /\ calc_load_idle \in [0 .. 1 -> Int]
  /\ nr_active \in [Cpus -> NrActive]
  /\ rq_active \in [Cpus -> NrActive] /\ rq_update \in [Cpus -> Nat]
  /\ cpu \in [Cpus -> {"busy", "entering", "idle", "off"}]
  /\ entry \in [Cpus -> [delta : Int, slot : 0 .. 1, torn : BOOLEAN]]
  /\ tk \in {"wait", "fold", "sample", "catchup", "flip"} /\ tk_delta \in Int
  /\ periods \in Nat
  /\ ticked \subseteq Cpus
  /\ early \subseteq 0 .. 1
  /\ settled \subseteq Cpus /\ skipper \subseteq Cpus

\* What the CPUs have accounted is in calc_load_tasks, in an idle delta or
\* on its way: no delta is lost or counted twice, whatever races, and when
\* CPUs go and come ("being late doesn't loose the delta", core.c:2215).
DeltasConserved ==
  SumFunction(rq_active) =
    calc_load_tasks + calc_load_idle[0] + calc_load_idle[1] + tk_delta
      + SumFunction([c \in Cpus |-> entry[c].delta])

\* Deltas of the right types that balance.
Consistent == TypeOK /\ DeltasConserved

\* A CPU does not move the sum twice in a window (core.c:2288-2305): one that
\* goes idle after its sample leaves its delta where the fold will not read,
\* and one that wakes is not due before the next window.
OneSamplePerWindow ==
  [][\A c \in settled : tk \in {"wait", "fold"} /\ tk' = tk =>
       /\ cpu[c] = "entering" /\ cpu'[c] = "idle" =>
            calc_load_idle'[calc_load_idx] = calc_load_idle[calc_load_idx]
       /\ cpu[c] = "busy" /\ cpu'[c] = "busy" => rq_active'[c] = rq_active[c]]_vars

\* A delta of before the window is folded in the window, unless
\* calc_load_write_idx read the index before the flip and the time after
\* calc_load_update had moved, which its barrier does not prevent.
OnlyTornWritesAreLate ==
  tk = "sample" => 1 - calc_load_idx \notin early

\* avenrun is decayed once for each LOAD_FREQ, however many ticks were
\* missed, and afterwards the next sample is ahead.
EveryPeriodCounts ==
  /\ calc_load_update = LOAD_FREQ * (periods + 1)
  /\ tk = "wait" => jiffies < calc_load_update + Window

\* A CPU passes over a window that is still to come only if it has slept
\* through one and woke between the two: calc_load_exit_idle looks whether
\* the old window is over (core.c:2364-2376) and not whether the new has begun.
OnlyLateWakersSkip ==
  tk = "wait" /\ jiffies < calc_load_update =>
    \A c \in Busy : rq_update[c] > calc_load_update => c \in skipper

\* The catching up of the load averages after missed periods, and of cpu_load
\* after missed ticks, is what one step for each would have been, but for
\* rounding: BulkNearStepwise and DecayNearStepwise of LoadMath, which speak of
\* the operators alone, so that one state is enough to look at them in.
CatchingUpIsStepwise == jiffies = 0 => BulkNearStepwise /\ DecayNearStepwise
=============================================================================
