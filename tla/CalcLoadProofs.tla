--------------------------- MODULE CalcLoadProofs ---------------------------
(***************************************************************************)
(* Proofs about module CalcLoad: for every number of CPUs, every LOAD_FREQ *)
(* and every window shorter than it, each period is sampled once, a CPU    *)
(* moves the sum once in a window, and the two races are the only ones.    *)
(***************************************************************************)
EXTENDS CalcLoad, DataProofs

Window_End == calc_load_update + Window
NextUpdate == calc_load_update + LOAD_FREQ

\* The updates are at the multiples of LOAD_FREQ.
Multiple(t) == \E k \in 0 .. t : t = LOAD_FREQ * k

PeriodInv ==
  /\ EveryPeriodCounts
  /\ tk = "flip" => jiffies < Window_End

\* When c is due.  After a jump over periods (all CPUs were idle) one that
\* wakes is not ahead until its tick; one that is ahead of the next window
\* before that begins woke late.
DueOK(c) ==
  /\ Multiple(rq_update[c]) /\ rq_update[c] <= NextUpdate
  /\ jiffies >= NextUpdate /\ cpu[c] = "busy" /\ c \notin ticked =>
       rq_update[c] <= calc_load_update
  /\ tk \in {"wait", "catchup", "flip"} /\ jiffies < calc_load_update
       /\ rq_update[c] > calc_load_update => c \in skipper

DueInv == \A c \in Cpus : DueOK(c)

\* Who has been sampled in the window is not due in it any more, and what it
\* may be adding to an idle delta is for the next.
SettledOK(c) ==
  /\ jiffies >= calc_load_update /\ rq_update[c] > calc_load_update
  /\ cpu[c] # "off"
  /\ cpu[c] = "busy" => jiffies < rq_update[c]
  /\ cpu[c] = "entering" => entry[c].slot = calc_load_idx

SettledInv ==
  /\ tk \in {"catchup", "flip"} => settled = {}
  /\ \A c \in settled : SettledOK(c)

\* Deltas of before the window are in the slot that will be folded.
EarlyInv ==
  /\ \A c \in Entering : ~entry[c].torn => tk = "wait" /\ entry[c].slot = calc_load_idx
  /\ early \subseteq {calc_load_idx}
  /\ tk \in {"sample", "catchup", "flip"} => early = {}

IInv == TypeOK /\ PeriodInv /\ DueInv /\ SettledInv /\ EarlyInv
-----------------------------------------------------------------------------
(* Multiples of LOAD_FREQ.                                                 *)

LEMMA MultipleOf ==
  ASSUME NEW k \in Nat
  PROVE  Multiple(LOAD_FREQ * k)
<1>1. LOAD_FREQ * k \in Nat /\ k <= LOAD_FREQ * k
  BY CalcLoadAssumption
<1> QED BY <1>1 DEF Multiple

LEMMA NextMultiple ==
  ASSUME NEW t \in Nat, Multiple(t)
  PROVE  Multiple(t + LOAD_FREQ)
<1>1. PICK k \in 0 .. t : t = LOAD_FREQ * k
  BY DEF Multiple
<1>2. t + LOAD_FREQ = LOAD_FREQ * (k + 1)
  BY <1>1, CalcLoadAssumption
<1> QED BY <1>1, <1>2, MultipleOf

\* Between two multiples that follow each other there is none.
LEMMA MultiplesApart ==
  ASSUME NEW s \in Nat, NEW t \in Nat, Multiple(s), Multiple(t), s < t + LOAD_FREQ
  PROVE  s <= t
<1>1. PICK k \in 0 .. s : s = LOAD_FREQ * k
  BY DEF Multiple
<1>2. PICK m \in 0 .. t : t = LOAD_FREQ * m
  BY DEF Multiple
<1>3. CASE k <= m
  BY <1>1, <1>2, <1>3, CalcLoadAssumption
<1>4. CASE m < k
  <2>1. PICK d \in Nat : k = m + 1 + d
    <3>1. k - m - 1 \in Nat /\ k = m + 1 + (k - m - 1)
      BY <1>4
    <3> QED BY <3>1
  <2>2. LOAD_FREQ * k = LOAD_FREQ * m + LOAD_FREQ + LOAD_FREQ * d
    BY <2>1, CalcLoadAssumption
  <2>3. LOAD_FREQ * d \in Nat
    BY <2>1, CalcLoadAssumption
  <2> QED BY <1>1, <1>2, <2>2, <2>3, CalcLoadAssumption
<1> QED BY <1>3, <1>4

LEMMA UpdateIsMultiple ==
  ASSUME TypeOK, PeriodInv
  PROVE  Multiple(calc_load_update)
BY MultipleOf DEF TypeOK, PeriodInv, EveryPeriodCounts

-----------------------------------------------------------------------------
LEMMA Starts == Init => IInv
<1> SUFFICES ASSUME Init PROVE IInv
  OBVIOUS
<1>1. TypeOK
  BY CalcLoadAssumption DEF Init, TypeOK, NoEntry
<1>2. PeriodInv
  BY CalcLoadAssumption DEF Init, PeriodInv, EveryPeriodCounts, Window_End
<1>3. DueInv
  <2>1. Multiple(LOAD_FREQ)
    BY MultipleOf, CalcLoadAssumption, LOAD_FREQ * 1 = LOAD_FREQ
  <2> QED BY <2>1, CalcLoadAssumption DEF Init, DueInv, DueOK, NextUpdate
<1>4. SettledInv
  BY DEF Init, SettledInv
<1>5. EarlyInv
  BY DEF Init, EarlyInv, Entering
<1> QED BY <1>1, <1>2, <1>3, <1>4, <1>5 DEF IInv

(* The steps of the timekeeper. *)

LEMMA TimerStep ==
  ASSUME IInv, NEW n \in 1 .. MaxJump, do_timer(n)
  PROVE  IInv'
<1> USE DEF IInv, do_timer, history, Window_End, NextUpdate
<1>0. MaxJump \in Nat /\ Window \in Nat /\ LOAD_FREQ \in Nat /\ Window < LOAD_FREQ
  BY CalcLoadAssumption
<1>1. TypeOK'
  BY <1>0 DEF TypeOK
<1>2. PeriodInv'
  BY <1>0, <1>1 DEF PeriodInv, EveryPeriodCounts, TypeOK
<1>3. jiffies < calc_load_update + Window
  BY DEF PeriodInv, EveryPeriodCounts
<1>4. DueInv'
  <2> SUFFICES ASSUME NEW c \in Cpus PROVE DueOK(c)'
    BY DEF DueInv
  <2>1. DueOK(c)
    BY DEF DueInv
  <2>2. n > 1 => cpu[c] # "busy"
    BY DEF Busy
  <2>3. jiffies' >= NextUpdate => n > 1
    BY <1>0, <1>3 DEF TypeOK
  <2>4. Multiple(rq_update[c])'
    BY <2>1 DEF DueOK, Multiple
  <2> QED BY <2>1, <2>2, <2>3, <2>4, <1>0 DEF DueOK, TypeOK
<1>5. SettledInv'
  <2> SUFFICES ASSUME NEW c \in settled PROVE SettledOK(c)'
    BY DEF SettledInv
  <2>0. c \in Cpus
    BY DEF TypeOK
  <2>1. SettledOK(c) /\ DueOK(c)
    BY <2>0 DEF SettledInv, DueInv
  <2>2. n > 1 => cpu[c] # "busy"
    BY <2>0 DEF Busy
  <2>3. NextUpdate <= rq_update[c]
    <3>1. Multiple(calc_load_update) /\ Multiple(rq_update[c])
      BY <2>1, UpdateIsMultiple DEF DueOK
    <3>2. rq_update[c] \in Nat /\ calc_load_update \in Nat
      BY <2>0 DEF TypeOK
    <3> QED BY <3>1, <3>2, <2>1, <1>0, MultiplesApart DEF SettledOK
  <2>4. n = 1 => jiffies' < NextUpdate
    BY <1>0, <1>3 DEF TypeOK
  <2> QED BY <2>0, <2>1, <2>2, <2>3, <2>4, <1>0 DEF SettledOK, TypeOK
<1>6. EarlyInv'
  <2>1. tk' = "fold" => Entering = {}
    BY <1>0 DEF OnTime, TypeOK
  <2> QED BY <2>1 DEF EarlyInv, Entering
<1> QED BY <1>1, <1>2, <1>4, <1>5, <1>6

LEMMA FoldStep ==
  ASSUME IInv, calc_load_fold_idle
  PROVE  IInv'
<1> USE DEF IInv, calc_load_fold_idle, Window_End, NextUpdate
<1>1. TypeOK'
  BY DEF TypeOK
<1>2. PeriodInv'
  BY DEF PeriodInv, EveryPeriodCounts
<1>3. DueInv'
  BY DEF DueInv, DueOK, Multiple
<1>4. SettledInv'
  BY DEF SettledInv, SettledOK
<1>5. EarlyInv'
  BY DEF EarlyInv, Entering
<1> QED BY <1>1, <1>2, <1>3, <1>4, <1>5

LEMMA SampleStep ==
  ASSUME IInv, calc_global_load
  PROVE  IInv'
<1> USE DEF IInv, calc_global_load, Window_End, NextUpdate
<1>0. LOAD_FREQ \in Nat
  BY CalcLoadAssumption
<1>1. TypeOK'
  BY <1>0 DEF TypeOK
<1>2. PeriodInv'
  <2>1. LOAD_FREQ * (periods + 1) + LOAD_FREQ = LOAD_FREQ * (periods + 1 + 1)
    BY <1>0 DEF TypeOK
  <2> QED BY <2>1 DEF PeriodInv, EveryPeriodCounts
<1>3. DueInv'
  <2> SUFFICES ASSUME NEW c \in Cpus PROVE DueOK(c)'
    BY DEF DueInv
  <2>1. DueOK(c) /\ Multiple(rq_update[c])'
    BY DEF DueInv, DueOK, Multiple
  <2> QED BY <2>1, <1>0 DEF DueOK, TypeOK
<1>4. SettledInv'
  BY DEF SettledInv
<1>5. EarlyInv'
  BY DEF EarlyInv, Entering
<1> QED BY <1>1, <1>2, <1>3, <1>4, <1>5

\* What is left of a number after its quotient by LOAD_FREQ.
LEMMA Quotient ==
  ASSUME NEW t \in Nat
  PROVE  /\ t \div LOAD_FREQ \in Nat
         /\ t < (1 + t \div LOAD_FREQ) * LOAD_FREQ
BY CalcLoadAssumption

LEMMA CatchUpStep ==
  ASSUME IInv, CatchUp
  PROVE  IInv'
<1> USE DEF IInv, CatchUp, history, Window_End, NextUpdate
<1>0. LOAD_FREQ \in Nat /\ Window \in Nat
  BY CalcLoadAssumption
<1> DEFINE n == 1 + (jiffies - calc_load_update - Window) \div LOAD_FREQ
<1>1. CASE jiffies < calc_load_update + Window
  <2>1. TypeOK'
    BY <1>1 DEF TypeOK
  <2>2. PeriodInv'
    BY <1>1 DEF PeriodInv, EveryPeriodCounts
  <2>3. DueInv'
    BY <1>1 DEF DueInv, DueOK, Multiple
  <2>4. SettledInv' /\ EarlyInv'
    BY <1>1 DEF SettledInv, EarlyInv, Entering
  <2> QED BY <2>1, <2>2, <2>3, <2>4
<1>2. CASE ~(jiffies < calc_load_update + Window)
  <2>0. calc_load_update' = calc_load_update + n * LOAD_FREQ /\ periods' = periods + n
    BY <1>2
  <2>1. jiffies - calc_load_update - Window \in Nat
    BY <1>0, <1>2 DEF TypeOK
  <2>2. n \in Nat \ {0} /\ jiffies - calc_load_update - Window < n * LOAD_FREQ
    BY <2>1, Quotient
  <2> HIDE DEF n
  <2>3. n * LOAD_FREQ \in Nat /\ LOAD_FREQ <= n * LOAD_FREQ
    BY <1>0, <2>2
  <2>4. TypeOK'
    BY <2>0, <2>2, <2>3 DEF TypeOK
  <2>5. PeriodInv'
    <3>1. LOAD_FREQ * (periods + 1) + n * LOAD_FREQ = LOAD_FREQ * (periods + n + 1)
      BY <1>0, <2>2 DEF TypeOK
    <3>2. jiffies < calc_load_update' + Window
      BY <1>0, <2>0, <2>2, <2>3 DEF TypeOK
    <3> QED BY <2>0, <3>1, <3>2 DEF PeriodInv, EveryPeriodCounts
  <2>6. DueInv'
    <3> SUFFICES ASSUME NEW c \in Cpus PROVE DueOK(c)'
      BY DEF DueInv
    <3>1. DueOK(c) /\ Multiple(rq_update[c])'
      BY DEF DueInv, DueOK, Multiple
    <3> QED BY <3>1, <1>0, <2>0, <2>3 DEF DueOK, TypeOK
  <2>7. SettledInv' /\ EarlyInv'
    BY DEF SettledInv, EarlyInv, Entering
  <2> QED BY <2>4, <2>5, <2>6, <2>7
<1> QED BY <1>1, <1>2

LEMMA FlipStep ==
  ASSUME IInv, Flip
  PROVE  IInv'
<1> USE DEF IInv, Flip, history, Window_End, NextUpdate
<1>1. TypeOK'
  BY DEF TypeOK
<1>2. PeriodInv'
  BY DEF PeriodInv, EveryPeriodCounts
<1>3. DueInv'
  BY DEF DueInv, DueOK, Multiple
<1>4. SettledInv' /\ EarlyInv'
  BY DEF SettledInv, EarlyInv, Entering
<1> QED BY <1>1, <1>2, <1>3, <1>4

(* The steps of a CPU. *)

LEMMA ActiveStep ==
  ASSUME IInv, NEW c \in Cpus, NEW n \in NrActive, SetActive(c, n)
  PROVE  IInv'
<1> USE DEF IInv, SetActive, timeVars, history, Window_End, NextUpdate
<1>1. TypeOK'
  BY DEF TypeOK
<1>2. PeriodInv'
  BY DEF PeriodInv, EveryPeriodCounts
<1>3. DueInv'
  BY DEF DueInv, DueOK, Multiple
<1>4. SettledInv' /\ EarlyInv'
  BY DEF SettledInv, SettledOK, EarlyInv, Entering
<1> QED BY <1>1, <1>2, <1>3, <1>4

\* A CPU that is due is at a window it has not been sampled in.
LEMMA AccountStep ==
  ASSUME IInv, NEW c \in Cpus, calc_load_account_active(c)
  PROVE  IInv'
<1> USE DEF IInv, calc_load_account_active, Window_End, NextUpdate
<1>0. LOAD_FREQ \in Nat /\ Window \in Nat /\ Window < LOAD_FREQ /\ NrActive \subseteq Int
  BY CalcLoadAssumption
<1>1. TypeOK'
  BY <1>0 DEF TypeOK
<1>2. PeriodInv'
  BY DEF PeriodInv, EveryPeriodCounts
<1>3. DueOK(c) /\ rq_update[c] \in Nat /\ calc_load_update \in Nat /\ jiffies \in Nat
  BY DEF DueInv, TypeOK
<1>4. rq_update[c] <= calc_load_update
  <2>1. CASE jiffies < NextUpdate
    <3>1. rq_update[c] < calc_load_update + LOAD_FREQ
      BY <2>1, <1>0, <1>3
    <3> QED BY <3>1, <1>3, UpdateIsMultiple, MultiplesApart DEF DueOK
  <2>2. CASE ~(jiffies < NextUpdate)
    BY <2>2, <1>0, <1>3 DEF DueOK
  <2> QED BY <2>1, <2>2
<1>5. rq_update'[c] = rq_update[c] + LOAD_FREQ
  BY DEF TypeOK
<1>6. \A e \in Cpus \ {c} : rq_update'[e] = rq_update[e]
  BY DEF TypeOK
<1>7. DueInv'
  <2> SUFFICES ASSUME NEW e \in Cpus PROVE DueOK(e)'
    BY DEF DueInv
  <2>1. CASE e = c
    <3>1. Multiple(rq_update[c])'
      BY <1>3, <1>5, NextMultiple DEF DueOK, Multiple
    <3>2. jiffies < calc_load_update => rq_update'[c] <= calc_load_update
      <4> SUFFICES ASSUME jiffies < calc_load_update PROVE rq_update'[c] <= calc_load_update
        OBVIOUS
      <4>1. Multiple(rq_update[c] + LOAD_FREQ) /\ rq_update[c] + LOAD_FREQ \in Nat
        BY <1>0, <1>3, NextMultiple DEF DueOK
      <4>2. rq_update[c] + LOAD_FREQ < calc_load_update + LOAD_FREQ
        BY <1>0, <1>3
      <4> QED BY <4>1, <4>2, <1>3, <1>5, UpdateIsMultiple, MultiplesApart
    <3> QED BY <2>1, <3>1, <3>2, <1>0, <1>3, <1>4, <1>5 DEF DueOK
  <2>2. CASE e # c
    <3>1. DueOK(e)
      BY DEF DueInv
    <3> QED BY <2>2, <3>1, <1>6 DEF DueOK, Multiple
  <2> QED BY <2>1, <2>2
<1>8. SettledInv'
  <2>1. c \notin settled
    BY <1>3 DEF SettledInv, SettledOK
  <2>2. \A e \in settled : SettledOK(e)'
    BY <2>1, <1>6 DEF SettledInv, SettledOK, TypeOK
  <2>3. InWindow /\ calc_load_update <= rq_update[c] => SettledOK(c)' /\ tk = "wait"
    BY <1>0, <1>3, <1>5 DEF InWindow, SettledOK
  <2> QED BY <2>2, <2>3 DEF SettledInv
<1>9. EarlyInv'
  BY DEF EarlyInv, Entering
<1> QED BY <1>1, <1>2, <1>7, <1>8, <1>9

LEMMA EnterStep ==
  ASSUME IInv, NEW c \in Cpus, calc_load_enter_idle(c)
  PROVE  IInv'
<1> USE DEF IInv, calc_load_enter_idle, timeVars, history, Window_End, NextUpdate
<1>0. NrActive \subseteq Int
  BY CalcLoadAssumption
<1>1. TypeOK'
  <2>1. nr_active[c] - rq_active[c] \in Int /\ calc_load_idx \in 0 .. 1
    BY <1>0 DEF TypeOK
  <2>2. entry' \in [Cpus -> [delta : Int, slot : 0 .. 1, torn : BOOLEAN]]
    <3> DEFINE new == [delta |-> nr_active[c] - rq_active[c], slot |-> calc_load_idx,
                       torn |-> tk # "wait"]
    <3>1. new \in [delta : Int, slot : 0 .. 1, torn : BOOLEAN]
      BY <2>1
    <3>2. entry' = entry \/ entry' = [entry EXCEPT ![c] = new]
      OBVIOUS
    <3> QED BY <3>1, <3>2 DEF TypeOK
  <2> QED BY <2>2 DEF TypeOK
<1>2. PeriodInv'
  BY DEF PeriodInv, EveryPeriodCounts
<1>3. \A e \in Cpus \ {c} : cpu'[e] = cpu[e] /\ entry'[e] = entry[e]
  BY DEF TypeOK
<1>4. \/ cpu'[c] = "idle"
      \/ cpu'[c] = "entering" /\ entry'[c].slot = calc_load_idx /\ entry'[c].torn = (tk # "wait")
  BY DEF TypeOK
<1>5. DueInv'
  BY <1>3, <1>4 DEF DueInv, DueOK, Multiple
<1>6. SettledInv'
  BY <1>3, <1>4 DEF SettledInv, SettledOK, TypeOK
<1>7. EarlyInv'
  BY <1>3, <1>4 DEF EarlyInv, Entering
<1> QED BY <1>1, <1>2, <1>5, <1>6, <1>7

LEMMA AddStep ==
  ASSUME IInv, NEW c \in Cpus, AddIdle(c)
  PROVE  IInv'
<1> USE DEF IInv, AddIdle, timeVars, Window_End, NextUpdate
<1>1. TypeOK'
  <2>1. entry[c].slot \in 0 .. 1 /\ entry[c].delta \in Int
    BY DEF TypeOK
  <2>2. entry' \in [Cpus -> [delta : Int, slot : 0 .. 1, torn : BOOLEAN]]
    <3> DEFINE E == [delta : Int, slot : 0 .. 1, torn : BOOLEAN]
    <3>1. NoEntry \in E
      BY DEF NoEntry
    <3>2. entry \in [Cpus -> E] /\ entry' = [entry EXCEPT ![c] = NoEntry]
      BY DEF TypeOK
    <3> HIDE DEF E
    <3>3. entry' \in [Cpus -> E]
      BY <3>1, <3>2
    <3> QED BY <3>3 DEF E
  <2>3. cpu' \in [Cpus -> {"busy", "entering", "idle", "off"}]
    BY DEF TypeOK
  <2>4. calc_load_idle' \in [0 .. 1 -> Int] /\ early' \subseteq 0 .. 1
    <3> DEFINE slot == IF jiffies < calc_load_update THEN entry[c].slot ELSE 1 - entry[c].slot
    <3>1. slot \in 0 .. 1
      BY <2>1
    <3>2. /\ calc_load_idle' = [calc_load_idle EXCEPT ![slot] = @ + entry[c].delta]
          /\ early' = IF jiffies < calc_load_update /\ ~entry[c].torn
                      THEN early \cup {slot} ELSE early
      OBVIOUS
    <3>3. calc_load_idle \in [0 .. 1 -> Int] /\ early \subseteq 0 .. 1
      BY DEF TypeOK
    <3> HIDE DEF slot
    <3>4. calc_load_idle[slot] + entry[c].delta \in Int
      BY <2>1, <3>1, <3>3
    <3>5. calc_load_idle' \in [0 .. 1 -> Int]
      BY <3>1, <3>2, <3>3, <3>4
    <3>6. early' \subseteq 0 .. 1
      BY <3>1, <3>2, <3>3
    <3> QED BY <3>5, <3>6
  <2> QED BY <2>2, <2>3, <2>4 DEF TypeOK
<1>2. PeriodInv'
  BY DEF PeriodInv, EveryPeriodCounts
<1>3. \A e \in Cpus \ {c} : cpu'[e] = cpu[e] /\ entry'[e] = entry[e]
  BY DEF TypeOK
<1>4. cpu'[c] = "idle"
  BY DEF TypeOK
<1>5. DueInv'
  BY <1>3, <1>4 DEF DueInv, DueOK, Multiple
<1>6. SettledInv'
  BY <1>3, <1>4 DEF SettledInv, SettledOK, TypeOK
<1>7. EarlyInv'
  <2>1. c \in Entering
    BY DEF Entering
  <2>2. early' = early \/ (early' = early \cup {calc_load_idx} /\ tk = "wait")
    BY <2>1 DEF EarlyInv
  <2> QED BY <2>2, <1>3, <1>4 DEF EarlyInv, Entering
<1> QED BY <1>1, <1>2, <1>5, <1>6, <1>7

LEMMA ExitStep ==
  ASSUME IInv, NEW c \in Cpus, calc_load_exit_idle(c)
  PROVE  IInv'
<1> USE DEF IInv, calc_load_exit_idle, timeVars, Window_End, NextUpdate
<1>0. LOAD_FREQ \in Nat /\ Window \in Nat /\ Window < LOAD_FREQ
  BY CalcLoadAssumption
<1>1. TypeOK'
  BY <1>0 DEF TypeOK, Woke
<1>2. PeriodInv'
  BY DEF PeriodInv, EveryPeriodCounts
<1>3. \A e \in Cpus \ {c} : cpu'[e] = cpu[e] /\ rq_update'[e] = rq_update[e]
  BY DEF TypeOK
<1>4. /\ cpu'[c] = "busy"
      /\ rq_update'[c] = IF jiffies < rq_update[c] THEN rq_update[c]
                         ELSE IF jiffies < Window_End THEN NextUpdate ELSE calc_load_update
  BY DEF TypeOK
<1>5. DueOK(c) /\ rq_update[c] \in Nat /\ calc_load_update \in Nat /\ jiffies \in Nat
  BY DEF DueInv, TypeOK
<1>6. Multiple(calc_load_update) /\ Multiple(NextUpdate)
  BY <1>5, UpdateIsMultiple, NextMultiple
<1>7. DueInv'
  <2> SUFFICES ASSUME NEW e \in Cpus PROVE DueOK(e)'
    BY DEF DueInv
  <2>1. CASE e = c
    <3>1. Multiple(rq_update[c])'
      BY <1>4, <1>5, <1>6 DEF DueOK, Multiple
    <3> QED BY <2>1, <3>1, <1>0, <1>4, <1>5 DEF DueOK, Woke, InWindow
  <2>2. CASE e # c
    <3>1. DueOK(e) /\ (e \in skipper => e \in skipper')
      BY <2>2 DEF DueInv, Woke
    <3> QED BY <2>2, <3>1, <1>3 DEF DueOK, Multiple
  <2> QED BY <2>1, <2>2
<1>8. SettledInv'
  <2>1. \A e \in settled \ {c} : SettledOK(e)'
    BY <1>3 DEF SettledInv, SettledOK, TypeOK
  <2>2. c \in settled' => SettledOK(c)'
    BY <1>0, <1>4, <1>5 DEF SettledInv, SettledOK, Woke, InWindow
  <2>3. settled' \subseteq settled \cup {c} /\ (settled' \subseteq settled \/ tk = "wait")
    BY DEF Woke, InWindow
  <2> QED BY <2>1, <2>2, <2>3 DEF SettledInv
<1>9. EarlyInv'
  BY <1>3, <1>4 DEF EarlyInv, Entering
<1> QED BY <1>1, <1>2, <1>7, <1>8, <1>9

LEMMA DyingStep ==
  ASSUME IInv, NEW c \in Cpus, NEW d \in Cpus, calc_global_load_remove(c, d)
  PROVE  IInv'
<1> USE DEF IInv, calc_global_load_remove, timeVars, Window_End, NextUpdate
<1>0. NrActive \subseteq Int /\ 0 \in NrActive
  BY CalcLoadAssumption
<1>1. TypeOK'
  <2>1. nr_active' \in [Cpus -> NrActive]
    <3>1. nr_active[c] \in Int /\ nr_active[d] \in Int
      BY <1>0 DEF TypeOK
    <3>2. nr_active[d] + nr_active[c] \in NrActive
      BY <3>1
    <3> QED BY <1>0, <3>2 DEF TypeOK
  <2>2. rq_active' \in [Cpus -> NrActive] /\ calc_load_tasks' \in Int
    BY <1>0 DEF TypeOK
  <2>3. cpu' \in [Cpus -> {"busy", "entering", "idle", "off"}]
    BY DEF TypeOK
  <2> QED BY <2>1, <2>2, <2>3 DEF TypeOK
<1>2. PeriodInv'
  BY DEF PeriodInv, EveryPeriodCounts
<1>3. cpu'[c] = "off" /\ \A e \in Cpus \ {c} : cpu'[e] = cpu[e]
  BY DEF TypeOK
<1>4. DueInv'
  BY <1>3 DEF DueInv, DueOK, Multiple
<1>5. SettledInv'
  BY <1>3 DEF SettledInv, SettledOK, TypeOK
<1>6. EarlyInv'
  BY <1>3 DEF EarlyInv, Entering
<1> QED BY <1>1, <1>2, <1>4, <1>5, <1>6

LEMMA UpStep ==
  ASSUME IInv, NEW c \in Cpus, migration_call_up(c)
  PROVE  IInv'
<1> USE DEF IInv, migration_call_up, timeVars, history, Window_End, NextUpdate
<1>0. LOAD_FREQ \in Nat
  BY CalcLoadAssumption
<1>1. TypeOK'
  BY DEF TypeOK
<1>2. PeriodInv'
  BY DEF PeriodInv, EveryPeriodCounts
<1>3. /\ cpu'[c] = "busy" /\ rq_update'[c] = calc_load_update
      /\ \A e \in Cpus \ {c} : cpu'[e] = cpu[e] /\ rq_update'[e] = rq_update[e]
  BY DEF TypeOK
<1>4. DueInv'
  <2> SUFFICES ASSUME NEW e \in Cpus PROVE DueOK(e)'
    BY DEF DueInv
  <2>1. CASE e = c
    <3>1. Multiple(rq_update[c])'
      BY <1>3, UpdateIsMultiple DEF Multiple
    <3> QED BY <2>1, <3>1, <1>0, <1>3 DEF DueOK, TypeOK
  <2>2. CASE e # c
    <3>1. DueOK(e)
      BY DEF DueInv
    <3> QED BY <2>2, <3>1, <1>3 DEF DueOK, Multiple
  <2> QED BY <2>1, <2>2
<1>5. SettledInv'
  <2>1. c \notin settled
    BY DEF SettledInv, SettledOK
  <2> QED BY <2>1, <1>3 DEF SettledInv, SettledOK, TypeOK
<1>6. EarlyInv'
  BY <1>3 DEF EarlyInv, Entering
<1> QED BY <1>1, <1>2, <1>4, <1>5, <1>6

LEMMA StutterStep ==
  ASSUME IInv, UNCHANGED vars
  PROVE  IInv'
BY DEF IInv, vars, TypeOK, PeriodInv, EveryPeriodCounts, Window_End, NextUpdate, DueInv, DueOK,
       Multiple, SettledInv, SettledOK, EarlyInv, Entering

LEMMA NextStep == IInv /\ [Next]_vars => IInv'
<1> SUFFICES ASSUME IInv, [Next]_vars PROVE IInv'
  OBVIOUS
<1>1. CASE Next
  <2>1. CASE \E n \in 1 .. MaxJump : do_timer(n)
    BY <2>1, TimerStep
  <2>2. CASE calc_load_fold_idle \/ calc_global_load \/ CatchUp \/ Flip
    BY <2>2, FoldStep, SampleStep, CatchUpStep, FlipStep
  <2>3. ASSUME NEW c \in Cpus,
               \/ \E n \in NrActive : SetActive(c, n)
               \/ calc_load_account_active(c)
               \/ calc_load_enter_idle(c) \/ AddIdle(c) \/ calc_load_exit_idle(c)
               \/ \E d \in Cpus : calc_global_load_remove(c, d)
               \/ migration_call_up(c)
        PROVE  IInv'
    BY <2>3, ActiveStep, AccountStep, EnterStep, AddStep, ExitStep, DyingStep, UpStep
  <2> QED BY <1>1, <2>1, <2>2, <2>3 DEF Next
<1>2. CASE UNCHANGED vars
  BY <1>2, StutterStep
<1> QED BY <1>1, <1>2

-----------------------------------------------------------------------------
(* No delta is lost or counted twice.                                      *)

Owed == [c \in Cpus |-> entry[c].delta]

\* A CPU has a delta under way only while it stops its tick, the timekeeper
\* only between its fold and its sample.
BooksInv ==
  /\ DeltasConserved
  /\ tk # "sample" => tk_delta = 0
  /\ \A c \in Cpus : cpu[c] # "entering" => entry[c].delta = 0

\* If one CPU accounts for more, or has more under way, the sums change by that.
LEMMA OneAccounts ==
  ASSUME TypeOK, TypeOK', NEW c \in Cpus,
         \A e \in Cpus \ {c} : rq_active'[e] = rq_active[e] /\ entry'[e].delta = entry[e].delta
  PROVE  /\ SumFunction(rq_active') = SumFunction(rq_active) - rq_active[c] + rq_active'[c]
         /\ SumFunction(Owed') = SumFunction(Owed) - entry[c].delta + entry'[c].delta
         /\ SumFunction(rq_active) \in Int /\ SumFunction(Owed) \in Int
<1>1. IsFiniteSet(Cpus) /\ NrActive \subseteq Int
  BY CalcLoadAssumption
<1>2. /\ DOMAIN rq_active = Cpus /\ DOMAIN rq_active' = Cpus
      /\ \A e \in Cpus : rq_active[e] \in Int /\ rq_active'[e] \in Int
  BY <1>1 DEF TypeOK
<1>3. /\ DOMAIN Owed = Cpus /\ DOMAIN Owed' = Cpus
      /\ \A e \in Cpus : Owed[e] \in Int /\ Owed'[e] \in Int
      /\ Owed[c] = entry[c].delta /\ Owed'[c] = entry'[c].delta
      /\ \A e \in Cpus \ {c} : Owed[e] = Owed'[e]
  BY DEF TypeOK, Owed
<1>4. SumFunctionOnSet(rq_active', Cpus)
        = SumFunctionOnSet(rq_active, Cpus) - rq_active[c] + rq_active'[c]
  BY <1>1, <1>2, SumChange
<1>5. SumFunctionOnSet(Owed', Cpus) = SumFunctionOnSet(Owed, Cpus) - Owed[c] + Owed'[c]
  <2> HIDE DEF Owed
  <2> QED BY <1>1, <1>3, SumChange
<1>6. SumFunctionOnSet(rq_active, Cpus) \in Int /\ SumFunctionOnSet(Owed, Cpus) \in Int
  <2> HIDE DEF Owed
  <2> QED BY <1>1, <1>2, <1>3, SumType
<1> HIDE DEF Owed
<1> QED BY <1>2, <1>3, <1>4, <1>5, <1>6 DEF SumFunction

LEMMA BooksKept == TypeOK /\ TypeOK' /\ BooksInv /\ [Next]_vars => BooksInv'
<1> SUFFICES ASSUME TypeOK, TypeOK', BooksInv, [Next]_vars PROVE BooksInv'
  OBVIOUS
<1> DEFINE A == SumFunction(rq_active)
           O == SumFunction(Owed)
<1>1. /\ DeltasConserved <=>
           A = calc_load_tasks + calc_load_idle[0] + calc_load_idle[1] + tk_delta + O
      /\ DeltasConserved' <=>
           A' = calc_load_tasks' + calc_load_idle'[0] + calc_load_idle'[1] + tk_delta' + O'
  BY DEF DeltasConserved, Owed
<1>2. /\ calc_load_tasks \in Int /\ calc_load_idle \in [0 .. 1 -> Int] /\ tk_delta \in Int
      /\ calc_load_idx \in 0 .. 1 /\ NrActive \subseteq Int
      /\ cpu \in [Cpus -> {"busy", "entering", "idle", "off"}]
      /\ rq_active \in [Cpus -> NrActive] /\ nr_active \in [Cpus -> NrActive]
      /\ entry \in [Cpus -> [delta : Int, slot : 0 .. 1, torn : BOOLEAN]]
  BY CalcLoadAssumption DEF TypeOK
<1>3. /\ A = calc_load_tasks + calc_load_idle[0] + calc_load_idle[1] + tk_delta + O
      /\ \A c \in Cpus : cpu[c] # "entering" => entry[c].delta = 0
      /\ tk # "sample" => tk_delta = 0
  BY <1>1 DEF BooksInv
<1>4. ASSUME NEW c \in Cpus,
             \A e \in Cpus \ {c} : rq_active'[e] = rq_active[e] /\ entry'[e].delta = entry[e].delta
      PROVE  /\ A' = A - rq_active[c] + rq_active'[c]
             /\ O' = O - entry[c].delta + entry'[c].delta
             /\ A \in Int /\ O \in Int
  BY <1>4, OneAccounts
<1>5. ASSUME UNCHANGED << rq_active, entry >> PROVE A' = A /\ O' = O
  BY <1>5 DEF Owed
<1>7. A \in Int /\ O \in Int
  <2>1. IsFiniteSet(Cpus)
    BY CalcLoadAssumption
  <2>2. DOMAIN rq_active = Cpus /\ DOMAIN Owed = Cpus
        /\ \A e \in Cpus : rq_active[e] \in Int /\ Owed[e] \in Int
    BY <1>2 DEF Owed
  <2> HIDE DEF Owed
  <2> QED BY <2>1, <2>2, SumType DEF SumFunction
<1>6. /\ calc_load_idle[0] \in Int /\ calc_load_idle[1] \in Int
      /\ \A c \in Cpus : nr_active[c] \in Int /\ rq_active[c] \in Int /\ entry[c].delta \in Int
  <2>1. \A n \in NrActive : n \in Int
    BY <1>2
  <2>2. \A c \in Cpus : nr_active[c] \in NrActive /\ rq_active[c] \in NrActive
    BY <1>2
  <2>3. \A c \in Cpus : entry[c].delta \in Int
    BY <1>2
  <2>4. calc_load_idle[0] \in Int /\ calc_load_idle[1] \in Int
    BY <1>2
  <2> QED BY <2>1, <2>2, <2>3, <2>4
<1> HIDE DEF A, O
<1>8. CASE \E n \in 1 .. MaxJump : do_timer(n)
  BY <1>1, <1>3, <1>5, <1>8 DEF do_timer, BooksInv
<1>9. CASE calc_load_fold_idle
  <2> USE <1>9 DEF calc_load_fold_idle
  <2>1. A' = A /\ O' = O
    BY <1>5
  <2>4. tk_delta = 0
    BY <1>3
  <2>2. calc_load_idle[0] + calc_load_idle[1] + tk_delta
          = calc_load_idle'[0] + calc_load_idle'[1] + tk_delta'
    <3>1. CASE calc_load_idx = 0
      BY <1>2, <1>6, <2>4, <3>1
    <3>2. CASE calc_load_idx = 1
      BY <1>2, <1>6, <2>4, <3>2
    <3> QED BY <1>2, <3>1, <3>2
  <2>3. calc_load_idle'[0] \in Int /\ calc_load_idle'[1] \in Int /\ tk_delta' \in Int
    BY <1>2 DEF TypeOK
  <2> QED BY <1>1, <1>2, <1>3, <1>6, <1>7, <2>1, <2>2, <2>3 DEF BooksInv
<1>10. CASE calc_global_load
  BY <1>1, <1>2, <1>3, <1>5, <1>7, <1>10 DEF calc_global_load, BooksInv
<1>11. CASE CatchUp \/ Flip \/ UNCHANGED vars
  BY <1>1, <1>3, <1>5, <1>11 DEF CatchUp, Flip, BooksInv, vars
<1>12. ASSUME NEW c \in Cpus, NEW n \in NrActive, SetActive(c, n) PROVE BooksInv'
  BY <1>1, <1>3, <1>5, <1>12 DEF SetActive, BooksInv, timeVars
<1>13. ASSUME NEW c \in Cpus, calc_load_account_active(c) PROVE BooksInv'
  <2> USE <1>13 DEF calc_load_account_active
  <2>1. A' = A - rq_active[c] + nr_active[c] /\ O' = O
    BY <1>2, <1>4, <1>6, <1>7
  <2>2. DeltasConserved'
    BY <1>1, <1>2, <1>3, <1>6, <1>7, <2>1
  <2> QED BY <1>3, <2>2 DEF BooksInv
<1>14. ASSUME NEW c \in Cpus, calc_load_enter_idle(c) PROVE BooksInv'
  <2> USE <1>14 DEF calc_load_enter_idle, timeVars
  <2>1. A' = A - rq_active[c] + nr_active[c] /\ O' = O + (nr_active[c] - rq_active[c])
    <3>1. entry[c].delta = 0
      BY <1>3
    <3>2. entry'[c].delta = nr_active[c] - rq_active[c]
      BY <1>2, <3>1
    <3> QED BY <1>2, <1>4, <1>7, <3>1, <3>2
  <2>2. \A e \in Cpus : cpu'[e] # "entering" => entry'[e].delta = 0
    BY <1>2, <1>3
  <2>3. DeltasConserved'
    BY <1>1, <1>2, <1>3, <1>6, <1>7, <2>1
  <2> QED BY <1>3, <2>2, <2>3 DEF BooksInv
<1>15. ASSUME NEW c \in Cpus, AddIdle(c) PROVE BooksInv'
  <2> USE <1>15 DEF AddIdle, timeVars, NoEntry
  <2>1. A' = A /\ O' = O - entry[c].delta
    <3>1. /\ \A e \in Cpus \ {c} : rq_active'[e] = rq_active[e] /\ entry'[e].delta = entry[e].delta
          /\ rq_active'[c] = rq_active[c] /\ entry'[c].delta = 0
      BY <1>2
    <3> QED BY <1>4, <1>6, <3>1
  <2>2. calc_load_idle'[0] + calc_load_idle'[1]
          = calc_load_idle[0] + calc_load_idle[1] + entry[c].delta
    <3> DEFINE slot == IF jiffies < calc_load_update THEN entry[c].slot ELSE 1 - entry[c].slot
    <3>1. slot \in {0, 1}
      BY <1>2
    <3>2. calc_load_idle' = [calc_load_idle EXCEPT ![slot] = @ + entry[c].delta]
      OBVIOUS
    <3> HIDE DEF slot
    <3>3. CASE slot = 0
      BY <1>2, <1>6, <3>2, <3>3
    <3>4. CASE slot = 1
      BY <1>2, <1>6, <3>2, <3>4
    <3> QED BY <3>1, <3>3, <3>4
  <2>3. \A e \in Cpus : cpu'[e] # "entering" => entry'[e].delta = 0
    BY <1>2, <1>3
  <2>4. calc_load_idle' \in [0 .. 1 -> Int] /\ entry[c].delta \in Int
    BY <1>2 DEF TypeOK
  <2> QED BY <1>1, <1>2, <1>3, <1>7, <2>1, <2>2, <2>3, <2>4 DEF BooksInv
<1>16. ASSUME NEW c \in Cpus, calc_load_exit_idle(c) \/ migration_call_up(c) PROVE BooksInv'
  BY <1>1, <1>2, <1>3, <1>5, <1>16 DEF calc_load_exit_idle, migration_call_up, timeVars, BooksInv
<1>17. ASSUME NEW c \in Cpus, NEW d \in Cpus, calc_global_load_remove(c, d) PROVE BooksInv'
  <2> USE <1>17 DEF calc_global_load_remove, timeVars
  <2>1. A' = A - rq_active[c] /\ O' = O
    <3>1. /\ \A e \in Cpus \ {c} : rq_active'[e] = rq_active[e] /\ entry'[e].delta = entry[e].delta
          /\ rq_active'[c] = 0 /\ entry'[c].delta = entry[c].delta
      BY <1>2
    <3> QED BY <1>4, <1>6, <1>7, <3>1
  <2>2. \A e \in Cpus : cpu'[e] # "entering" => entry'[e].delta = 0
    BY <1>2, <1>3
  <2>3. DeltasConserved'
    BY <1>1, <1>2, <1>3, <1>6, <1>7, <2>1
  <2> QED BY <1>3, <2>2, <2>3 DEF BooksInv
<1> QED
  BY <1>8, <1>9, <1>10, <1>11, <1>12, <1>13, <1>14, <1>15, <1>16, <1>17 DEF Next

-----------------------------------------------------------------------------
(* The theorems.                                                           *)

\* The invariant the theorems follow from, inductive in calc_load_account_*,
\* calc_global_load and the hotplug steps.
THEOREM Inductive == Spec => []IInv
<1> QED BY Starts, NextStep, PTL DEF Spec

\* Every variable of the load average keeps its type.
THEOREM TypeCorrect == Spec => []TypeOK
<1>1. IInv => TypeOK
  BY DEF IInv
<1> QED BY <1>1, Inductive, PTL

\* calc_global_load and calc_global_nohz decay avenrun once for each LOAD_FREQ,
\* however many ticks were missed.
THEOREM PeriodsCounted == Spec => []EveryPeriodCounts
<1>1. IInv => EveryPeriodCounts
  BY DEF IInv, PeriodInv
<1> QED BY <1>1, Inductive, PTL

\* A busy CPU is ahead of a window that has not begun only if it slept through
\* one and called calc_load_exit_idle between the two.
THEOREM OthersSkipNone == Spec => []OnlyLateWakersSkip
<1>1. IInv => OnlyLateWakersSkip
  BY DEF IInv, DueInv, DueOK, OnlyLateWakersSkip, Busy
<1> QED BY <1>1, Inductive, PTL

\* calc_load_fold_idle leaves no delta of before the window behind, but for one
\* whose calc_load_write_idx overlapped calc_global_load.
THEOREM OthersAreInTime == Spec => []OnlyTornWritesAreLate
<1>1. IInv => OnlyTornWritesAreLate
  BY DEF IInv, EarlyInv, OnlyTornWritesAreLate, TypeOK
<1> QED BY <1>1, Inductive, PTL

\* No CPU moves the sum twice in a window: neither by a second
\* calc_load_account_active nor by going idle after its sample.
THEOREM SampledOnce == Spec => OneSamplePerWindow
<1> DEFINE Kept(c) ==
      /\ cpu[c] = "entering" /\ cpu'[c] = "idle" =>
           calc_load_idle'[calc_load_idx] = calc_load_idle[calc_load_idx]
      /\ cpu[c] = "busy" /\ cpu'[c] = "busy" => rq_active'[c] = rq_active[c]
      Sampled == \A c \in settled : tk \in {"wait", "fold"} /\ tk' = tk => Kept(c)
<1>1. IInv /\ [Next]_vars => [Sampled]_vars
  <2> SUFFICES ASSUME IInv, Next, NEW c \in settled PROVE Kept(c)
    OBVIOUS
  <2>0. c \in Cpus /\ SettledOK(c) /\ jiffies \in Nat /\ calc_load_update \in Nat
        /\ calc_load_idx \in 0 .. 1
    BY DEF IInv, TypeOK, SettledInv
  <2>1. CASE \E n \in 1 .. MaxJump : do_timer(n)
    BY <2>1 DEF do_timer
  <2>2. CASE calc_load_fold_idle \/ calc_global_load \/ CatchUp \/ Flip
    BY <2>2 DEF calc_load_fold_idle, calc_global_load, CatchUp, Flip
  <2>3. ASSUME NEW e \in Cpus,
               \/ \E n \in NrActive : SetActive(e, n)
               \/ \E d \in Cpus : calc_global_load_remove(e, d)
               \/ migration_call_up(e)
               \/ calc_load_exit_idle(e)
        PROVE  Kept(c)
    BY <2>0, <2>3 DEF SetActive, calc_global_load_remove, migration_call_up,
                      calc_load_exit_idle, timeVars, history, IInv, TypeOK
  <2>4. ASSUME NEW e \in Cpus, calc_load_account_active(e) PROVE Kept(c)
    <3>1. e # c \/ cpu[c] # "busy"
      BY <2>0, <2>4 DEF calc_load_account_active, SettledOK, IInv, TypeOK
    <3> QED BY <2>0, <2>4, <3>1 DEF calc_load_account_active, IInv, TypeOK
  <2>5. ASSUME NEW e \in Cpus, calc_load_enter_idle(e) PROVE Kept(c)
    BY <2>0, <2>5 DEF calc_load_enter_idle, timeVars, history, IInv, TypeOK
  <2>6. ASSUME NEW e \in Cpus, AddIdle(e) PROVE Kept(c)
    <3>1. CASE e = c
      <4>1. cpu[c] = "entering" => 1 - entry[c].slot # calc_load_idx /\ ~(jiffies < calc_load_update)
        BY <2>0 DEF SettledOK
      <4> QED BY <2>0, <2>6, <3>1, <4>1 DEF AddIdle, timeVars, IInv, TypeOK
    <3>2. CASE e # c
      BY <2>0, <2>6, <3>2 DEF AddIdle, timeVars, IInv, TypeOK
    <3> QED BY <3>1, <3>2
  <2> QED BY <2>1, <2>2, <2>3, <2>4, <2>5, <2>6 DEF Next
<1> QED BY <1>1, Inductive, PTL DEF Spec, OneSamplePerWindow

\* "Being late doesn't loose the delta" (core.c:2215): what the CPUs have
\* accounted is in calc_load_tasks, in an idle delta or under way.
THEOREM NoDeltaLost == Spec => []Consistent
<1>1. Init => BooksInv
  <2> SUFFICES ASSUME Init PROVE BooksInv
    OBVIOUS
  <2>1. IsFiniteSet(Cpus)
    BY CalcLoadAssumption
  <2>2. SumFunctionOnSet([c \in Cpus |-> 0], Cpus) = 0
    BY <2>1, SumZero
  <2>3. SumFunction(rq_active) = 0
    BY <2>2 DEF Init, SumFunction
  <2>4. [c \in Cpus |-> entry[c].delta] = [c \in Cpus |-> 0]
    BY DEF Init, NoEntry
  <2>5. SumFunction([c \in Cpus |-> entry[c].delta]) = 0
    BY <2>2, <2>4 DEF SumFunction
  <2>6. /\ calc_load_tasks = 0 /\ calc_load_idle[0] = 0 /\ calc_load_idle[1] = 0 /\ tk_delta = 0
        /\ \A c \in Cpus : entry[c].delta = 0
    BY DEF Init, NoEntry
  <2> QED BY <2>3, <2>5, <2>6 DEF BooksInv, DeltasConserved
<1>2. TypeOK /\ BooksInv => Consistent
  BY DEF BooksInv, Consistent
<1> QED BY <1>1, <1>2, BooksKept, TypeCorrect, PTL DEF Spec
=============================================================================
