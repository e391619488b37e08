--------------------------- MODULE SchedSMPProofs ---------------------------
(***************************************************************************)
(* Proofs about module SchedSMP, for any number of CPUs and tasks, any     *)
(* priorities and any affinities: the safety properties follow from one    *)
(* inductive invariant.  Its key is that the CPU on whose stack a task is  *)
(* stays its task_cpu, because every step that moves a task has seen that  *)
(* it is on none.                                                          *)
(*                                                                         *)
(* That no task is left behind, with at most two CPUs, has an invariant of *)
(* its own on top of that one: wherever a task waits that the other CPU    *)
(* could run at once, something is under way that will look at it, and     *)
(* whatever ends it either sees the task or hands on.                      *)
(***************************************************************************)
EXTENDS SchedSMP, TLAPS, FiniteSetTheorems, WellFoundedInduction

-----------------------------------------------------------------------------
(* The inductive invariant.                                                *)

States == {"running", "sleep", "waking", "dead"}
PcType == [at : {"run", "pull", "pick", "switch", "put"}, prev : Tasks \cup {Idle, Stop},
           was : States, todo : SUBSET Cpus, post : BOOLEAN]
PusherType == [at : {"no", "pick", "lock"}, rq : Cpus \cup {Idle},
               task : Tasks \cup {Idle}, dest : Cpus \cup {Idle}]
WorkType == [task : Tasks, dest : Cpus]

\* TypeOK, but for the bound of puts.
TypeInv ==
  /\ state \in [Tasks -> States]
  /\ allowed \in [Tasks -> SUBSET Cpus] /\ task_cpu \in [Tasks -> Cpus]
  /\ on_cpu \in [Tasks -> BOOLEAN] /\ cond \in [Tasks -> BOOLEAN]
  /\ prog \in [Tasks -> {"work", "test", "sleep"}]
  /\ waker \in [Tasks -> {"no", "call", "remote", "on_cpu", "queue"}]
  /\ queue \in [Cpus -> SUBSET Tasks] /\ curr \in [Cpus -> Tasks \cup {Idle, Stop}]
  /\ need_resched \in [Cpus -> BOOLEAN]
  /\ pc \in [Cpus -> PcType]
  /\ pusher \in [Cpus \cup Tasks -> PusherType]
  /\ wake_list \in [Cpus -> SUBSET Tasks] /\ pending \in [Cpus -> SUBSET Tasks]
  /\ ipi \in [Cpus -> BOOLEAN]
  /\ stop_work \in [Cpus -> SUBSET WorkType]
  /\ puts \in [Tasks -> Nat] /\ strayed \subseteq Tasks /\ masked \in 0 .. MaxMasks

\* A push knows where it pushes from, and what and where to.
PushOK(r) ==
  /\ r.at # "no" => r.rq \in Cpus
  /\ r.at = "lock" => r.dest \in Cpus /\ r.task \in Tasks

PushInv == \A x \in Cpus \cup Tasks : PushOK(pusher[x])

\* The task is on a run queue, which is that of its task_cpu.
Queued(p) == p \in queue[task_cpu[p]]

\* The CPU is on the stack of the task.
On(c, p) == curr[c] = p \/ (pc[c].at = "switch" /\ pc[c].prev = p)

\* Where a task is.
PlaceInv ==
  /\ \A c \in Cpus : \A p \in queue[c] : task_cpu[p] = c
  /\ \A c \in Cpus : pc[c].at \in {"run", "switch", "put"} /\ curr[c] \in Tasks =>
       curr[c] \in queue[c]
  /\ \A c \in Cpus :
       /\ pc[c].at \in {"pull", "pick"} => pc[c].prev = curr[c]
       /\ pc[c].at = "switch" => pc[c].prev # curr[c]
       /\ pc[c].at = "put" => pc[c].prev \in Tasks
  /\ \A c \in Cpus, p \in Tasks : On(c, p) => task_cpu[p] = c
  /\ \A p \in Tasks : on_cpu[p] <=> On(task_cpu[p], p)

\* Who is waiting, who is being woken, and by what.
WakeOK(p) ==
  /\ waker[p] \in {"remote", "on_cpu"} => state[p] \in {"running", "sleep"}
  /\ waker[p] = "on_cpu" => ~Queued(p)
  /\ waker[p] = "queue" => state[p] = "waking"
  /\ state[p] = "running" => Queued(p)
  /\ state[p] = "waking" =>
       /\ ~Queued(p) /\ ~on_cpu[p]
       /\ \/ waker[p] = "queue"
          \/ p \in wake_list[task_cpu[p]] \/ p \in pending[task_cpu[p]]
  /\ prog[p] = "test" => Queued(p)
  /\ cond[p] /\ waker[p] = "no" =>
       state[p] \in {"running", "waking", "dead"} \/ prog[p] = "test"

\* Who is on the list of a CPU, and that its interrupt will come.
ListOK(c) ==
  /\ \A p \in wake_list[c] \cup pending[c] :
       state[p] = "waking" /\ task_cpu[p] = c /\ waker[p] # "queue"
  /\ wake_list[c] \cap pending[c] = {}
  /\ wake_list[c] # {} => ipi[c]

WakeInv == (\A p \in Tasks : WakeOK(p)) /\ (\A c \in Cpus : ListOK(c))

\* The CPU will drop the reference of the dead task p.
WillPut(c, p) == pc[c].at = "put" /\ pc[c].prev = p /\ pc[c].was = "dead"

\* A dead task runs on until it calls schedule, is put once, and that is all.
DeadOK(p) ==
  /\ state[p] = "dead" /\ Queued(p) =>
       curr[task_cpu[p]] = p /\ pc[task_cpu[p]].at = "run"
  /\ \A c \in Cpus : WillPut(c, p) =>
       state[p] = "dead" /\ ~Queued(p) /\ ~on_cpu[p] /\ task_cpu[p] = c /\ puts[p] = 0
  /\ puts[p] # 0 => puts[p] = 1 /\ state[p] = "dead" /\ ~Queued(p) /\ ~on_cpu[p]

DeadInv == \A p \in Tasks : DeadOK(p)

\* Who is queued where it must not run.
MaskInv ==
  /\ \A c \in Cpus : \A p \in queue[c] : c \notin allowed[p] =>
       p \in strayed \/ \E w \in stop_work[c] : w.task = p /\ w.dest \in allowed[p]
  /\ \A p \in Tasks : state[p] = "waking" /\ task_cpu[p] \notin allowed[p] => p \in strayed

IInv == TypeInv /\ PushInv /\ PlaceInv /\ WakeInv /\ DeadInv /\ MaskInv

-----------------------------------------------------------------------------
(* What follows from it, and what the steps have in common.                *)

\* on_rq, which the code reads without asking where, is on_rq of task_cpu.
LEMMA OnRqIsQueued ==
  ASSUME TypeInv, PlaceInv, NEW p \in Tasks
  PROVE  OnRq(p) <=> Queued(p)
BY DEF OnRq, Queued, PlaceInv, TypeInv

\* A CPU is on the stack of tasks that are its own.
LEMMA OnItsCpu ==
  ASSUME TypeInv, PlaceInv, NEW p \in Tasks, NEW c \in Cpus, On(c, p)
  PROVE  task_cpu[p] = c /\ on_cpu[p]
BY DEF PlaceInv, TypeInv

\* The task that is executed is queued where it runs.
LEMMA Executing ==
  ASSUME TypeInv, PlaceInv, NEW p \in Tasks, NEW c \in Cpus, Executes(c, p)
  PROVE  /\ curr[c] = p /\ pc[c].at = "run" /\ p \in queue[c]
         /\ task_cpu[p] = c /\ Queued(p) /\ on_cpu[p]
<1>1. curr[c] = p /\ pc[c].at = "run" /\ On(c, p)
  BY DEF Executes, On
<1>2. p \in queue[c]
  BY <1>1 DEF PlaceInv
<1>3. task_cpu[p] = c /\ on_cpu[p]
  BY <1>1, OnItsCpu
<1> QED BY <1>1, <1>2, <1>3 DEF Queued

\* What the places are made of.
placeVars == << task_cpu, on_cpu, queue, curr, pc >>

\* Without a change of the places they are as they were.
LEMMA PlaceSame ==
  ASSUME PlaceInv, UNCHANGED placeVars
  PROVE  PlaceInv'
BY DEF PlaceInv, placeVars, On

\* So are the masks.
LEMMA MaskSame ==
  ASSUME MaskInv, UNCHANGED << queue, task_cpu, allowed, strayed, stop_work >>,
         \A p \in Tasks : state'[p] = "waking" => state[p] = "waking"
  PROVE  MaskInv'
BY DEF MaskInv

\* So is who is dead.
LEMMA DeadSame ==
  ASSUME DeadInv, UNCHANGED << placeVars, state, puts >>
  PROVE  DeadInv'
BY DEF DeadInv, DeadOK, WillPut, placeVars, Queued

\* So is who waits.
LEMMA WakeSame ==
  ASSUME WakeInv, UNCHANGED << state, prog, cond, waker, queue, task_cpu, on_cpu, wakeVars >>
  PROVE  WakeInv'
BY DEF WakeInv, WakeOK, ListOK, Queued, wakeVars

\* So are the pushes.
LEMMA PushSame ==
  ASSUME PushInv, UNCHANGED pusher
  PROVE  PushInv'
BY DEF PushInv

-----------------------------------------------------------------------------
(* A task waits.                                                           *)

\* It is queued, so that whoever lets it happen will find it or its state.
LEMMA SetStateStep ==
  ASSUME IInv, NEW c \in Cpus, NEW p \in Tasks, SetState(c, p)
  PROVE  IInv'
<1>1. Queued(p) /\ state[p] = "running"
  BY Executing DEF IInv, SetState
<1>2. /\ state' = [state EXCEPT ![p] = "sleep"] /\ prog' = [prog EXCEPT ![p] = "test"]
      /\ UNCHANGED << allowed, placeVars, cond, waker, need_resched, pusher, wakeVars, stop_work,
                      history >>
  BY DEF SetState, rqVars, placeVars
<1>3. TypeInv'
  BY <1>2 DEF IInv, TypeInv, States, placeVars, wakeVars, history
<1>4. WakeInv'
  BY <1>1, <1>2 DEF IInv, TypeInv, WakeInv, WakeOK, ListOK, Queued, placeVars, wakeVars
<1>5. DeadInv'
  BY <1>1, <1>2 DEF IInv, TypeInv, DeadInv, DeadOK, WillPut, Queued, placeVars, history
<1>6. MaskInv'
  BY <1>2, MaskSame DEF IInv, TypeInv, placeVars, history
<1> QED BY <1>2, <1>3, <1>4, <1>5, <1>6, PlaceSame, PushSame DEF IInv

\* Who goes on is queued; who sleeps has seen that it has not happened.
LEMMA TestConditionStep ==
  ASSUME IInv, NEW c \in Cpus, NEW p \in Tasks, TestCondition(c, p)
  PROVE  IInv'
<1>1. Queued(p) /\ prog[p] = "test"
  BY Executing DEF IInv, TestCondition
<1>2. UNCHANGED << allowed, placeVars, waker, need_resched, pusher, wakeVars, stop_work, history >>
  BY DEF TestCondition, rqVars, placeVars
<1>3. \/ /\ state' = [state EXCEPT ![p] = "running"] /\ cond' = [cond EXCEPT ![p] = FALSE]
         /\ prog' = [prog EXCEPT ![p] = "work"]
      \/ ~cond[p] /\ prog' = [prog EXCEPT ![p] = "sleep"] /\ UNCHANGED << state, cond >>
  BY DEF TestCondition
<1>4. TypeInv'
  BY <1>2, <1>3 DEF IInv, TypeInv, States, placeVars, wakeVars, history
<1>5. WakeInv'
  BY <1>1, <1>2, <1>3 DEF IInv, TypeInv, WakeInv, WakeOK, ListOK, Queued, placeVars, wakeVars
<1>6. DeadInv'
  BY <1>1, <1>2, <1>3 DEF IInv, TypeInv, DeadInv, DeadOK, WillPut, Queued, placeVars, history
<1>7. MaskInv'
  BY <1>2, <1>3, MaskSame DEF IInv, TypeInv, placeVars, history
<1> QED BY <1>2, <1>4, <1>5, <1>6, <1>7, PlaceSame, PushSame DEF IInv

\* It dies on the CPU, and no wake-up of it has looked at its state.
LEMMA ExitStep ==
  ASSUME IInv, NEW c \in Cpus, NEW p \in Tasks, Exit(c, p)
  PROVE  IInv'
<1>1. /\ Queued(p) /\ task_cpu[p] = c /\ curr[c] = p /\ pc[c].at = "run"
      /\ state[p] = "running" /\ waker[p] \in {"no", "call"}
  BY Executing DEF IInv, Exit, PiLocked
<1>2. /\ state' = [state EXCEPT ![p] = "dead"] /\ prog' = [prog EXCEPT ![p] = "sleep"]
      /\ UNCHANGED << allowed, placeVars, cond, waker, need_resched, pusher, wakeVars, stop_work,
                      history >>
  BY DEF Exit, rqVars, placeVars
<1>3. TypeInv'
  BY <1>2 DEF IInv, TypeInv, States, placeVars, wakeVars, history
<1>4. WakeInv'
  BY <1>1, <1>2 DEF IInv, TypeInv, WakeInv, WakeOK, ListOK, Queued, placeVars, wakeVars
<1>5. DeadInv'
  BY <1>1, <1>2 DEF IInv, TypeInv, DeadInv, DeadOK, WillPut, Queued, placeVars, history
<1>6. MaskInv'
  BY <1>2, MaskSame DEF IInv, TypeInv, placeVars, history
<1> QED BY <1>2, <1>3, <1>4, <1>5, <1>6, PlaceSame, PushSame DEF IInv

-----------------------------------------------------------------------------
(* A wake-up.                                                              *)

\* Whoever lets it happen is its waker from then on.
LEMMA HappensStep ==
  ASSUME IInv, NEW p \in Tasks, Happens(p)
  PROVE  IInv'
<1>1. /\ waker[p] = "no"
      /\ cond' = [cond EXCEPT ![p] = TRUE] /\ waker' = [waker EXCEPT ![p] = "call"]
      /\ UNCHANGED << state, allowed, placeVars, prog, need_resched, pusher, wakeVars, stop_work,
                      history >>
  BY DEF Happens, rqVars, placeVars
<1>2. TypeInv'
  BY <1>1 DEF IInv, TypeInv, placeVars, wakeVars, history
<1>3. WakeInv'
  BY <1>1 DEF IInv, TypeInv, WakeInv, WakeOK, ListOK, Queued, placeVars, wakeVars
<1>4. MaskInv'
  BY <1>1, MaskSame DEF IInv, placeVars, history
<1>5. DeadInv'
  BY <1>1, DeadSame DEF IInv, history
<1> QED BY <1>1, <1>2, <1>3, <1>4, <1>5, PlaceSame, PushSame DEF IInv

\* The waker goes on only if it has found the task asleep.
LEMMA WakeCalledStep ==
  ASSUME IInv, NEW p \in Tasks, WakeCalled(p)
  PROVE  IInv'
<1>1. OnRq(p) <=> Queued(p)
  BY OnRqIsQueued DEF IInv
<1>2. /\ waker[p] = "call"
      /\ UNCHANGED << state, cond, allowed, placeVars, prog, need_resched, pusher, wakeVars,
                      stop_work, history >>
  BY DEF WakeCalled, rqVars, taskVars, placeVars
<1>3. \/ state[p] # "sleep" /\ waker' = [waker EXCEPT ![p] = "no"]
      \/ state[p] = "sleep" /\ waker' = [waker EXCEPT ![p] = "remote"]
      \/ state[p] = "sleep" /\ ~Queued(p) /\ waker' = [waker EXCEPT ![p] = "on_cpu"]
  BY <1>1 DEF WakeCalled
<1>4. TypeInv'
  <2>1. waker' \in [Tasks -> {"no", "call", "remote", "on_cpu", "queue"}]
    BY <1>3 DEF IInv, TypeInv
  <2> QED BY <1>2, <2>1 DEF IInv, TypeInv, placeVars, wakeVars, history
<1>5. WakeInv'
  BY <1>2, <1>3 DEF IInv, TypeInv, States, WakeInv, WakeOK, ListOK, Queued, placeVars, wakeVars
<1>6. MaskInv'
  BY <1>2, MaskSame DEF IInv, placeVars, history
<1>7. DeadInv'
  BY <1>2, DeadSame DEF IInv, history
<1> QED BY <1>2, <1>4, <1>5, <1>6, <1>7, PlaceSame, PushSame DEF IInv

-----------------------------------------------------------------------------
(* Pushes begin and end.                                                   *)

\* One record takes the place of another.
LEMMA SetPusher ==
  ASSUME TypeInv, PushInv, NEW x \in Cpus \cup Tasks, NEW r \in PusherType, PushOK(r),
         pusher' = [pusher EXCEPT ![x] = r]
  PROVE  pusher' \in [Cpus \cup Tasks -> PusherType] /\ PushInv'
BY DEF TypeInv, PushInv

\* The records of a push that begins and of one that is over.
LEMMA PushRecords ==
  /\ NotPushing \in PusherType /\ PushOK(NotPushing)
  /\ \A c \in Cpus : Push(c) \in PusherType /\ PushOK(Push(c))
<1>1. NotPushing \in PusherType /\ PushOK(NotPushing)
  BY DEF NotPushing, PusherType, PushOK
<1>2. ASSUME NEW c \in Cpus
      PROVE  Push(c) \in PusherType /\ PushOK(Push(c))
  <2> DEFINE v == [NotPushing EXCEPT !.at = "pick"]
  <2>1. v = [at |-> "pick", rq |-> Idle, task |-> Idle, dest |-> Idle]
    BY DEF NotPushing
  <2>2. Push(c) = [v EXCEPT !.rq = c]
    BY Zenon DEF Push
  <2> HIDE DEF v
  <2>3. Push(c) = [at |-> "pick", rq |-> c, task |-> Idle, dest |-> Idle]
    BY <2>1, <2>2
  <2> QED BY <2>3 DEF PusherType, PushOK
<1> QED BY <1>1, <1>2

\* A push has found what and where to.
LEMMA PushToStep ==
  ASSUME TypeInv, PushInv, NEW x \in Cpus \cup Tasks, NEW p \in Tasks, NEW d \in Cpus,
         pusher[x].at # "no", PushTo(x, p, d)
  PROVE  pusher' \in [Cpus \cup Tasks -> PusherType] /\ PushInv'
<1> DEFINE r == [at |-> "lock", rq |-> pusher[x].rq, task |-> p, dest |-> d]
<1>1. pusher[x] \in PusherType /\ pusher[x].rq \in Cpus
  BY DEF TypeInv, PushInv, PushOK
<1>2. r \in PusherType /\ PushOK(r)
  BY <1>1 DEF PusherType, PushOK
<1>3. [[[pusher[x] EXCEPT !.at = "lock"] EXCEPT !.task = p] EXCEPT !.dest = d] = r
  <2> DEFINE u == [pusher[x] EXCEPT !.at = "lock"]
             v == [u EXCEPT !.task = p]
             rq == pusher[x].rq
             dest == pusher[x].dest
  <2>1. u = [at |-> "lock", rq |-> rq, task |-> pusher[x].task, dest |-> dest]
    BY <1>1 DEF PusherType
  <2> HIDE DEF u, rq, dest
  <2>2. v = [at |-> "lock", rq |-> rq, task |-> p, dest |-> dest]
    BY <2>1
  <2> HIDE DEF v
  <2>3. [v EXCEPT !.dest = d] = [at |-> "lock", rq |-> rq, task |-> p, dest |-> d]
    BY <2>2
  <2> QED BY <2>3 DEF u, v, rq
<1>4. pusher' = [pusher EXCEPT ![x] = r]
  BY <1>3 DEF PushTo, TypeInv
<1> QED BY <1>2, <1>4, SetPusher

\* The push of who has woken a task, or of __schedule, begins or does not.
LEMMA MayPushStep ==
  ASSUME TypeInv, PushInv, NEW x \in Cpus \cup Tasks, NEW c \in Cpus, NEW b,
         pusher' = [pusher EXCEPT ![x] = IF b THEN Push(c) ELSE @]
  PROVE  pusher' \in [Cpus \cup Tasks -> PusherType] /\ PushInv'
<1> DEFINE r == IF b THEN Push(c) ELSE pusher[x]
<1>1. r \in PusherType /\ PushOK(r)
  BY PushRecords DEF TypeInv, PushInv
<1>2. pusher' = [pusher EXCEPT ![x] = r]
  OBVIOUS
<1> HIDE DEF r
<1> QED BY <1>1, <1>2, SetPusher

\* What ttwu_do_wakeup does.
LEMMA WakeupEffect ==
  ASSUME TypeInv, PushInv, NEW p \in Tasks, NEW c \in Cpus, NEW x \in Cpus \cup Tasks,
         ttwu_do_wakeup(p, c, x)
  PROVE  /\ state' = [state EXCEPT ![p] = "running"]
         /\ need_resched' \in [Cpus -> BOOLEAN]
         /\ pusher' \in [Cpus \cup Tasks -> PusherType] /\ PushInv'
<1>1. state' = [state EXCEPT ![p] = "running"] /\ need_resched' \in [Cpus -> BOOLEAN]
  BY DEF ttwu_do_wakeup, TypeInv
<1>2. pusher' = [pusher EXCEPT ![x] = IF WokenPushes(p, c) THEN Push(c) ELSE @]
  BY DEF ttwu_do_wakeup
<1>3. pusher' \in [Cpus \cup Tasks -> PusherType] /\ PushInv'
  BY <1>2, MayPushStep
<1> QED BY <1>1, <1>3

-----------------------------------------------------------------------------
(* The waker finds the task.                                               *)

\* It is still queued, or goes on to wait for the CPU that leaves it.
LEMMA ttwu_remoteStep ==
  ASSUME IInv, NEW p \in Tasks, ttwu_remote(p)
  PROVE  IInv'
<1>1. /\ OnRq(p) <=> Queued(p)
      /\ state[p] \in {"running", "sleep"} /\ waker[p] = "remote" /\ task_cpu[p] \in Cpus
  BY OnRqIsQueued DEF IInv, TypeInv, ttwu_remote, WakeInv, WakeOK
<1>2. UNCHANGED << allowed, placeVars, prog, cond, wakeVars, stop_work, history >>
  BY DEF ttwu_remote, placeVars
<1>3. \/ /\ Queued(p) /\ waker' = [waker EXCEPT ![p] = "no"]
         /\ ttwu_do_wakeup(p, task_cpu[p], p)
      \/ /\ ~Queued(p) /\ waker' = [waker EXCEPT ![p] = "on_cpu"]
         /\ UNCHANGED << need_resched, state, pusher >>
  BY <1>1 DEF ttwu_remote
<1>4. /\ \/ /\ Queued(p) /\ waker' = [waker EXCEPT ![p] = "no"]
            /\ state' = [state EXCEPT ![p] = "running"]
         \/ ~Queued(p) /\ waker' = [waker EXCEPT ![p] = "on_cpu"] /\ UNCHANGED state
      /\ need_resched' \in [Cpus -> BOOLEAN]
      /\ pusher' \in [Cpus \cup Tasks -> PusherType] /\ PushInv'
  BY <1>1, <1>3, WakeupEffect, PushSame DEF IInv, TypeInv
<1>5. TypeInv'
  <2>1. /\ waker' \in [Tasks -> {"no", "call", "remote", "on_cpu", "queue"}]
        /\ state' \in [Tasks -> States]
    <3>1. CASE waker' = [waker EXCEPT ![p] = "no"] /\ state' = [state EXCEPT ![p] = "running"]
      BY <3>1 DEF IInv, TypeInv, States
    <3>2. CASE waker' = [waker EXCEPT ![p] = "on_cpu"] /\ UNCHANGED state
      BY <3>2 DEF IInv, TypeInv
    <3> QED BY <1>4, <3>1, <3>2
  <2> QED BY <1>2, <1>4, <2>1 DEF IInv, TypeInv, placeVars, wakeVars, history
<1>6. WakeInv'
  BY <1>1, <1>2, <1>4 DEF IInv, TypeInv, WakeInv, WakeOK, ListOK, Queued, placeVars, wakeVars
<1>7. DeadInv'
  BY <1>1, <1>2, <1>4 DEF IInv, TypeInv, DeadInv, DeadOK, WillPut, Queued, placeVars, history
<1>8. MaskInv'
  BY <1>2, <1>4, MaskSame DEF IInv, TypeInv, placeVars, history
<1> QED BY <1>2, <1>4, <1>5, <1>6, <1>7, <1>8, PlaceSame DEF IInv

\* It is on no CPU's stack and on no queue, and gets a CPU it may run on.
LEMMA WaitOnCpuStep ==
  ASSUME IInv, NEW p \in Tasks, WaitOnCpu(p)
  PROVE  IInv'
<1>1. /\ waker[p] = "on_cpu" /\ ~on_cpu[p] /\ ~Queued(p) /\ state[p] = "sleep"
      /\ \A c \in Cpus : p \notin queue[c]
      /\ \A c \in Cpus : p \notin wake_list[c] \cup pending[c]
  BY DEF IInv, WakeInv, WakeOK, ListOK, WaitOnCpu, PlaceInv, Queued
<1>2. \A c \in Cpus : ~On(c, p)
  BY <1>1, OnItsCpu DEF IInv
<1>3. SelectTaskRq(p) \subseteq allowed[p]
  BY DEF SelectTaskRq
<1>4. PICK d \in allowed[p] : task_cpu' = [task_cpu EXCEPT ![p] = d]
  BY <1>3 DEF WaitOnCpu
<1>5. d \in Cpus
  BY <1>4 DEF IInv, TypeInv
<1>6. /\ state' = [state EXCEPT ![p] = "waking"] /\ waker' = [waker EXCEPT ![p] = "queue"]
      /\ strayed' = strayed \ {p}
      /\ UNCHANGED << allowed, on_cpu, prog, cond, queue, curr, need_resched, pc, pusher, wakeVars,
                      stop_work, puts, masked >>
  BY DEF WaitOnCpu, rqVars
<1>7. TypeInv'
  BY <1>4, <1>5, <1>6 DEF IInv, TypeInv, States, wakeVars
<1>8. PlaceInv'
  <2>1. \A c \in Cpus, q \in Tasks : On(c, q)' <=> On(c, q)
    BY <1>6 DEF On
  <2>2. \A q \in Tasks : on_cpu'[q] <=> On(task_cpu[q], q)'
    BY <1>1, <1>2, <1>4, <1>5, <1>6, <2>1 DEF IInv, TypeInv, PlaceInv
  <2>3. \A q \in Tasks \ {p} : task_cpu'[q] = task_cpu[q]
    BY <1>4 DEF IInv, TypeInv
  <2>4. \A c \in Cpus : \A q \in queue[c] : q \in Tasks \ {p}
    BY <1>1 DEF IInv, TypeInv
  <2> QED BY <1>2, <1>6, <2>1, <2>2, <2>3, <2>4 DEF IInv, PlaceInv
<1>9. ~Queued(p)' /\ \A q \in Tasks \ {p} : task_cpu'[q] = task_cpu[q] /\ (Queued(q)' <=> Queued(q))
  BY <1>1, <1>4, <1>5, <1>6 DEF IInv, TypeInv, Queued
<1>10. WakeInv'
  <2>1. \A q \in Tasks : WakeOK(q)'
    BY <1>1, <1>6, <1>9 DEF IInv, TypeInv, WakeInv, WakeOK, wakeVars
  <2>2. \A c \in Cpus : ListOK(c)'
    BY <1>1, <1>6, <1>9 DEF IInv, TypeInv, WakeInv, ListOK, wakeVars
  <2> QED BY <2>1, <2>2 DEF WakeInv
<1>11. DeadInv'
  BY <1>1, <1>6, <1>9 DEF IInv, TypeInv, DeadInv, DeadOK, WillPut
<1>12. MaskInv'
  BY <1>1, <1>4, <1>5, <1>6, <1>9 DEF IInv, TypeInv, MaskInv
<1> QED BY <1>6, <1>7, <1>8, <1>10, <1>11, <1>12, PushSame DEF IInv

\* A task that is on no queue is put on that of its task_cpu and is runnable:
\* what ttwu_queue and sched_ttwu_pending have in common.
LEMMA EnqueueStep ==
  ASSUME IInv, NEW p \in Tasks, state[p] = "waking",
         queue' = [queue EXCEPT ![task_cpu[p]] = @ \cup {p}],
         state' = [state EXCEPT ![p] = "running"],
         UNCHANGED << allowed, task_cpu, on_cpu, prog, cond, curr, pc, stop_work, history >>,
         need_resched' \in [Cpus -> BOOLEAN],
         waker' \in [Tasks -> {"no", "call", "remote", "on_cpu", "queue"}],
         \A q \in Tasks \ {p} : waker'[q] = waker[q],
         waker'[p] \in {"no", "call"},
         pending' \in [Cpus -> SUBSET Tasks],
         \A c \in Cpus : pending'[c] = pending[c] \ {p},
         \A c \in Cpus : p \notin wake_list[c],
         UNCHANGED << wake_list, ipi >>,
         pusher' \in [Cpus \cup Tasks -> PusherType], PushInv'
  PROVE  IInv'
<1>1. /\ ~Queued(p) /\ ~on_cpu[p] /\ task_cpu[p] \in Cpus
      /\ \A c \in Cpus : ~WillPut(c, p)
      /\ puts[p] = 0
  BY DEF IInv, TypeInv, WakeInv, WakeOK, DeadInv, DeadOK
<1>2. /\ queue' \in [Cpus -> SUBSET Tasks]
      /\ \A c \in Cpus : queue[c] \subseteq queue'[c]
      /\ \A c \in Cpus, q \in Tasks : q \in queue'[c] => q \in queue[c] \/ (q = p /\ c = task_cpu[p])
      /\ Queued(p)' /\ \A q \in Tasks \ {p} : Queued(q)' <=> Queued(q)
  BY <1>1 DEF IInv, TypeInv, Queued
<1>3. TypeInv'
  BY <1>2 DEF IInv, TypeInv, States, history
<1>4. PlaceInv'
  <2>1. \A c \in Cpus, q \in Tasks : On(c, q)' <=> On(c, q)
    BY DEF On
  <2>2. \A c \in Cpus : \A q \in queue'[c] : task_cpu[q] = c
    BY <1>2 DEF IInv, TypeInv, PlaceInv
  <2>3. \A c \in Cpus : pc[c].at \in {"run", "switch", "put"} /\ curr[c] \in Tasks =>
          curr[c] \in queue'[c]
    BY <1>2 DEF IInv, PlaceInv
  <2>4. \A q \in Tasks : task_cpu[q] \in Cpus
    BY DEF IInv, TypeInv
  <2> QED BY <2>1, <2>2, <2>3, <2>4 DEF IInv, PlaceInv
<1>5. WakeInv'
  <2>1. \A q \in Tasks : WakeOK(q)'
    BY <1>1, <1>2 DEF IInv, TypeInv, WakeInv, WakeOK
  <2>2. \A c \in Cpus : ListOK(c)'
    BY <1>1, <1>2 DEF IInv, TypeInv, WakeInv, ListOK
  <2> QED BY <2>1, <2>2 DEF WakeInv
<1>6. DeadInv'
  BY <1>1, <1>2 DEF IInv, TypeInv, DeadInv, DeadOK, WillPut, history
<1>7. MaskInv'
  BY <1>2 DEF IInv, TypeInv, MaskInv, history
<1> QED BY <1>3, <1>4, <1>5, <1>6, <1>7 DEF IInv

\* By its waker.
LEMMA ttwu_queueStep ==
  ASSUME IInv, NEW p \in Tasks, ttwu_queue(p)
  PROVE  IInv'
<1>1. /\ waker[p] = "queue" /\ state[p] = "waking" /\ task_cpu[p] \in Cpus
      /\ \A c \in Cpus : p \notin wake_list[c] \cup pending[c]
  BY DEF ttwu_queue, IInv, TypeInv, WakeInv, WakeOK, ListOK
<1>2. /\ state' = [state EXCEPT ![p] = "running"] /\ need_resched' \in [Cpus -> BOOLEAN]
      /\ pusher' \in [Cpus \cup Tasks -> PusherType] /\ PushInv'
  BY <1>1, WakeupEffect DEF ttwu_queue, IInv
<1>3. /\ queue' = [queue EXCEPT ![task_cpu[p]] = @ \cup {p}]
      /\ waker' = [waker EXCEPT ![p] = "no"]
      /\ UNCHANGED << allowed, task_cpu, on_cpu, prog, cond, curr, pc, wakeVars, stop_work, history >>
  BY DEF ttwu_queue
<1>4. /\ waker' \in [Tasks -> {"no", "call", "remote", "on_cpu", "queue"}]
      /\ \A q \in Tasks \ {p} : waker'[q] = waker[q]
      /\ waker'[p] \in {"no", "call"}
  BY <1>3 DEF IInv, TypeInv
<1>5. /\ pending' \in [Cpus -> SUBSET Tasks]
      /\ \A c \in Cpus : pending'[c] = pending[c] \ {p}
      /\ \A c \in Cpus : p \notin wake_list[c]
      /\ UNCHANGED << wake_list, ipi >>
  BY <1>1, <1>3 DEF IInv, TypeInv, wakeVars
<1> QED BY <1>1, <1>2, <1>3, <1>4, <1>5, EnqueueStep

\* By the interrupt of its CPU.
LEMMA sched_ttwu_pendingStep ==
  ASSUME IInv, NEW c \in Cpus, NEW p \in Tasks, sched_ttwu_pending(c, p)
  PROVE  IInv'
<1>1. /\ p \in pending[c] /\ state[p] = "waking" /\ task_cpu[p] = c
      /\ waker[p] \in {"no", "call"}
      /\ \A d \in Cpus : p \notin wake_list[d]
      /\ \A d \in Cpus : p \in pending[d] => d = c
  <2>1. p \in pending[c] /\ ListOK(c) /\ WakeOK(p)
    BY DEF sched_ttwu_pending, IInv, WakeInv
  <2>2. state[p] = "waking" /\ task_cpu[p] = c /\ waker[p] # "queue" /\ p \notin wake_list[c]
    BY <2>1 DEF ListOK
  <2>3. waker[p] \in {"no", "call"}
    BY <2>1, <2>2 DEF WakeOK, IInv, TypeInv
  <2>4. \A d \in Cpus : p \in wake_list[d] \cup pending[d] => d = c
    BY <2>2 DEF IInv, WakeInv, ListOK
  <2> QED BY <2>1, <2>2, <2>3, <2>4
<1>2. /\ state' = [state EXCEPT ![p] = "running"] /\ need_resched' \in [Cpus -> BOOLEAN]
      /\ pusher' \in [Cpus \cup Tasks -> PusherType] /\ PushInv'
  BY WakeupEffect DEF sched_ttwu_pending, IInv
<1>3. /\ queue' = [queue EXCEPT ![task_cpu[p]] = @ \cup {p}]
      /\ pending' = [pending EXCEPT ![c] = @ \ {p}]
      /\ UNCHANGED << allowed, task_cpu, on_cpu, prog, cond, waker, curr, pc, wake_list, ipi,
                      stop_work, history >>
  BY <1>1 DEF sched_ttwu_pending
<1>4. /\ pending' \in [Cpus -> SUBSET Tasks]
      /\ \A d \in Cpus : pending'[d] = pending[d] \ {p}
  BY <1>1, <1>3 DEF IInv, TypeInv
<1>5. waker' \in [Tasks -> {"no", "call", "remote", "on_cpu", "queue"}]
  BY <1>3 DEF IInv, TypeInv
<1> QED BY <1>1, <1>2, <1>3, <1>4, <1>5, EnqueueStep

\* It is left to another CPU, whose interrupt comes.
LEMMA ttwu_queue_remoteStep ==
  ASSUME IInv, NEW p \in Tasks, ttwu_queue_remote(p)
  PROVE  IInv'
<1>1. /\ waker[p] = "queue" /\ state[p] = "waking" /\ task_cpu[p] \in Cpus
      /\ \A c \in Cpus : p \notin wake_list[c] \cup pending[c]
  BY DEF ttwu_queue_remote, IInv, TypeInv, WakeInv, WakeOK, ListOK
<1>2. /\ wake_list' = [wake_list EXCEPT ![task_cpu[p]] = @ \cup {p}]
      /\ ipi' = [ipi EXCEPT ![task_cpu[p]] = @ \/ wake_list[task_cpu[p]] = {}]
      /\ waker' = [waker EXCEPT ![p] = "no"]
      /\ UNCHANGED << state, allowed, cond, prog, placeVars, need_resched, pusher, pending, stop_work,
                      history >>
  BY DEF ttwu_queue_remote, taskVars, rqVars, placeVars
<1>3. TypeInv'
  BY <1>1, <1>2 DEF IInv, TypeInv, placeVars, history
<1>4. \A c \in Cpus : ListOK(c)'
  <2> TAKE c \in Cpus
  <2>1. CASE c = task_cpu[p]
    <3>1. /\ wake_list'[c] = wake_list[c] \cup {p} /\ pending'[c] = pending[c]
          /\ wake_list[c] = {} => ipi'[c]
          /\ ipi[c] => ipi'[c]
      BY <1>2, <2>1 DEF IInv, TypeInv
    <3>2. \A q \in Tasks : waker'[q] = "queue" => waker[q] = "queue" /\ q # p
      BY <1>2 DEF IInv, TypeInv
    <3>3. ListOK(c) /\ wake_list[c] \subseteq Tasks /\ pending[c] \subseteq Tasks
      BY DEF IInv, TypeInv, WakeInv
    <3>4. \A q \in wake_list'[c] \cup pending'[c] :
            state'[q] = "waking" /\ task_cpu'[q] = c /\ waker'[q] # "queue"
      BY <1>1, <1>2, <2>1, <3>1, <3>2, <3>3 DEF ListOK, placeVars
    <3> QED BY <1>1, <3>1, <3>3, <3>4 DEF ListOK
  <2>2. CASE c # task_cpu[p]
    BY <1>1, <1>2, <2>2 DEF IInv, TypeInv, WakeInv, ListOK, placeVars
  <2> QED BY <2>1, <2>2
<1>5. \A q \in Tasks : WakeOK(q)'
  BY <1>1, <1>2 DEF IInv, TypeInv, WakeInv, WakeOK, Queued, placeVars
<1>6. MaskInv'
  BY <1>2, MaskSame DEF IInv, placeVars, history
<1>7. DeadInv'
  BY <1>2, DeadSame DEF IInv, history
<1> QED BY <1>2, <1>3, <1>4, <1>5, <1>6, <1>7, PlaceSame, PushSame DEF IInv, WakeInv

\* The list becomes what the interrupt works through.
LEMMA scheduler_ipiStep ==
  ASSUME IInv, NEW c \in Cpus, scheduler_ipi(c)
  PROVE  IInv'
<1>1. /\ pending[c] = {}
      /\ ipi' = [ipi EXCEPT ![c] = FALSE]
      /\ pending' = [pending EXCEPT ![c] = wake_list[c]]
      /\ wake_list' = [wake_list EXCEPT ![c] = {}]
      /\ UNCHANGED << state, allowed, cond, prog, waker, placeVars, need_resched, pusher, stop_work,
                      history >>
  BY DEF scheduler_ipi, taskVars, rqVars, placeVars
<1>2. TypeInv'
  BY <1>1 DEF IInv, TypeInv, placeVars, history
<1>3. WakeInv'
  BY <1>1 DEF IInv, TypeInv, WakeInv, WakeOK, ListOK, Queued, placeVars
<1>4. MaskInv'
  BY <1>1, MaskSame DEF IInv, placeVars, history
<1>5. DeadInv'
  BY <1>1, DeadSame DEF IInv, history
<1> QED BY <1>1, <1>2, <1>3, <1>4, <1>5, PlaceSame, PushSame DEF IInv

-----------------------------------------------------------------------------
(* A task is moved to another CPU.                                         *)

\* It is queued and on nobody's stack, and goes where it may run.  The CPU that
\* moves it may be about to pick; a request to move it may be used up.
LEMMA MoveStep ==
  ASSUME TypeInv, PlaceInv, WakeInv, DeadInv, MaskInv,
         NEW p \in Tasks, NEW c \in Cpus, NEW d \in Cpus,
         p \in queue[c], ~on_cpu[p], d \in allowed[p], MoveTask(p, c, d),
         UNCHANGED << state, allowed, on_cpu, prog, cond, waker, curr, wakeVars, puts, strayed >>,
         \A e \in Cpus : \/ pc'[e] = pc[e]
                         \/ /\ pc[e].at \in {"pull", "pick"} /\ pc'[e].at \in {"pull", "pick"}
                            /\ pc'[e].prev = pc[e].prev,
         \A e \in Cpus : \A w \in stop_work[e] : w \in stop_work'[e] \/ w.task = p
  PROVE  /\ queue' \in [Cpus -> SUBSET Tasks] /\ task_cpu' \in [Tasks -> Cpus]
         /\ PlaceInv' /\ WakeInv' /\ DeadInv' /\ MaskInv'
<1>1. task_cpu[p] = c /\ Queued(p) /\ \A e \in Cpus : ~On(e, p)
  <2>1. task_cpu[p] = c
    BY DEF PlaceInv
  <2> QED BY <2>1, OnItsCpu DEF Queued
<1>2. /\ queue' \in [Cpus -> SUBSET Tasks] /\ task_cpu' \in [Tasks -> Cpus]
      /\ task_cpu'[p] = d /\ \A q \in Tasks \ {p} : task_cpu'[q] = task_cpu[q]
      /\ \A e \in Cpus : p \in queue'[e] <=> e = d
      /\ \A e \in Cpus, q \in Tasks \ {p} : q \in queue'[e] <=> q \in queue[e]
  <2> DEFINE left == [queue EXCEPT ![c] = @ \ {p}]
  <2>1. left \in [Cpus -> SUBSET Tasks] /\ \A e \in Cpus : left[e] = queue[e] \ {p}
    BY <1>1 DEF TypeInv, PlaceInv
  <2>2. queue' = [left EXCEPT ![d] = @ \cup {p}] /\ task_cpu' = [task_cpu EXCEPT ![p] = d]
    BY DEF MoveTask
  <2> HIDE DEF left
  <2> QED BY <2>1, <2>2 DEF TypeInv
<1>3. \A q \in Tasks : Queued(q)' <=> Queued(q)
  BY <1>1, <1>2 DEF Queued, TypeInv
<1>4. \A e \in Cpus, q \in Tasks : On(e, q)' <=> On(e, q)
  BY DEF On
<1>5. PlaceInv'
  <2>1. \A e \in Cpus : \A q \in queue'[e] : task_cpu'[q] = e
    <3> TAKE e \in Cpus
    <3> TAKE q \in queue'[e]
    <3>1. q \in Tasks
      BY <1>2
    <3>2. q # p => q \in queue[e] /\ task_cpu'[q] = task_cpu[q]
      BY <1>2, <3>1
    <3>3. q # p => task_cpu[q] = e
      BY <3>2 DEF PlaceInv
    <3> QED BY <1>2, <3>2, <3>3
  <2>2. \A e \in Cpus : pc'[e].at \in {"run", "switch", "put"} /\ curr'[e] \in Tasks =>
          curr'[e] \in queue'[e]
    BY <1>1, <1>2 DEF PlaceInv, On
  <2>3. \A e \in Cpus :
          /\ pc'[e].at \in {"pull", "pick"} => pc'[e].prev = curr'[e]
          /\ pc'[e].at = "switch" => pc'[e].prev # curr'[e]
          /\ pc'[e].at = "put" => pc'[e].prev \in Tasks
    BY DEF PlaceInv
  <2>4. \A e \in Cpus, q \in Tasks : On(e, q)' => task_cpu'[q] = e
    BY <1>1, <1>2, <1>4 DEF PlaceInv
  <2>5. \A q \in Tasks : on_cpu'[q] <=> On(task_cpu[q], q)'
    BY <1>1, <1>2, <1>4 DEF PlaceInv, TypeInv
  <2> QED BY <2>1, <2>2, <2>3, <2>4, <2>5 DEF PlaceInv
<1>6. WakeInv'
  <2>1. \A q \in Tasks : WakeOK(q)'
    BY <1>1, <1>2, <1>3 DEF WakeInv, WakeOK, wakeVars
  <2>2. \A e \in Cpus : ListOK(e)'
    BY <1>1, <1>2 DEF TypeInv, WakeInv, WakeOK, ListOK, wakeVars
  <2> QED BY <2>1, <2>2 DEF WakeInv
<1>7. DeadInv'
  <2>1. state[p] # "dead" /\ \A e \in Cpus : ~WillPut(e, p)
    BY <1>1 DEF DeadInv, DeadOK, On
  <2>2. \A e \in Cpus, q \in Tasks : WillPut(e, q)' => WillPut(e, q)
    BY DEF WillPut
  <2>3. \A q \in Tasks \ {p} : state[q] = "dead" /\ Queued(q) =>
          curr'[task_cpu'[q]] = q /\ pc'[task_cpu'[q]].at = "run"
    <3> TAKE q \in Tasks \ {p}
    <3>1. task_cpu'[q] = task_cpu[q] /\ task_cpu[q] \in Cpus /\ DeadOK(q)
      BY <1>2 DEF DeadInv, TypeInv
    <3>2. pc[task_cpu[q]].at = "run" => pc'[task_cpu[q]] = pc[task_cpu[q]]
      BY <3>1
    <3> QED BY <3>1, <3>2 DEF DeadOK
  <2> QED BY <1>1, <1>2, <1>3, <2>1, <2>2, <2>3 DEF DeadInv, DeadOK
<1>8. MaskInv'
  <2>1. ASSUME NEW e \in Cpus, NEW q \in queue'[e], e \notin allowed[q]
        PROVE  q \in strayed \/ \E w \in stop_work'[e] : w.task = q /\ w.dest \in allowed[q]
    <3>1. q \in Tasks /\ q # p /\ q \in queue[e]
      BY <1>2, <2>1
    <3>2. q \in strayed \/ \E w \in stop_work[e] : w.task = q /\ w.dest \in allowed[q]
      BY <2>1, <3>1 DEF MaskInv
    <3> QED BY <3>1, <3>2
  <2>2. \A q \in Tasks : state[q] = "waking" /\ task_cpu'[q] \notin allowed[q] => q \in strayed
    BY <1>2 DEF MaskInv
  <2> QED BY <2>1, <2>2 DEF MaskInv
<1> QED BY <1>2, <1>5, <1>6, <1>7, <1>8

\* Nothing is moved, and the rest is as for MoveStep.
LEMMA StayStep ==
  ASSUME TypeInv, PlaceInv, WakeInv, DeadInv, MaskInv,
         UNCHANGED << queue, task_cpu, state, allowed, on_cpu, prog, cond, waker, curr, wakeVars,
                      puts, strayed, stop_work >>,
         \A e \in Cpus : \/ pc'[e] = pc[e]
                         \/ /\ pc[e].at \in {"pull", "pick"} /\ pc'[e].at \in {"pull", "pick"}
                            /\ pc'[e].prev = pc[e].prev
  PROVE  PlaceInv' /\ WakeInv' /\ DeadInv' /\ MaskInv'
<1>1. \A e \in Cpus, q \in Tasks : (On(e, q)' <=> On(e, q)) /\ (WillPut(e, q)' <=> WillPut(e, q))
  BY DEF On, WillPut
<1>2. PlaceInv'
  BY <1>1 DEF PlaceInv, TypeInv
<1>3. WakeInv'
  BY WakeSame
<1>4. DeadInv'
  <2>1. \A q \in Tasks : Queued(q)' <=> Queued(q)
    BY DEF Queued
  <2>2. \A e \in Cpus : pc[e].at = "run" => pc'[e].at = "run"
    OBVIOUS
  <2>3. \A q \in Tasks : task_cpu[q] \in Cpus
    BY DEF TypeInv
  <2> QED BY <1>1, <2>1, <2>2, <2>3 DEF DeadInv, DeadOK
<1>5. MaskInv'
  BY DEF MaskInv
<1> QED BY <1>2, <1>3, <1>4, <1>5

\* A push looks, and moves nothing yet.
LEMMA PushPickStep ==
  ASSUME IInv, NEW x \in Cpus \cup Tasks, PushPick(x)
  PROVE  IInv'
<1> DEFINE c == pusher[x].rq
<1>1. pusher[x].at # "no" /\ c \in Cpus
  BY DEF PushPick, IInv, PushInv, PushOK
<1>2. UNCHANGED << taskVars, waker, queue, curr, pc, wakeVars, stop_work, history >>
  BY DEF PushPick
<1>3. need_resched' \in [Cpus -> BOOLEAN]
  BY <1>1 DEF PushPick, IInv, TypeInv
<1>4. \/ PushDone(x)
      \/ \E p \in Urgent(Pushable(c)) : \E d \in LowestRqs(p) \ {c} : PushTo(x, p, d)
  BY DEF PushPick
<1>5. /\ Urgent(Pushable(c)) \subseteq Tasks
      /\ \A p \in Tasks : LowestRqs(p) \subseteq Cpus
  <2>1. Urgent(Pushable(c)) \subseteq Tasks
    BY <1>1 DEF Urgent, Pushable, IInv, TypeInv
  <2>2. ASSUME NEW p \in Tasks
        PROVE  LowestRqs(p) \subseteq Cpus
    BY DEF LowestRqs, IInv, TypeInv
  <2> QED BY <2>1, <2>2
<1>6. pusher' \in [Cpus \cup Tasks -> PusherType] /\ PushInv'
  <2>1. CASE PushDone(x)
    BY <2>1, PushRecords, SetPusher DEF PushDone, IInv
  <2>2. CASE \E p \in Urgent(Pushable(c)) : \E d \in LowestRqs(p) \ {c} : PushTo(x, p, d)
    BY <1>1, <1>5, <2>2, PushToStep DEF IInv
  <2> QED BY <1>4, <2>1, <2>2
<1>7. TypeInv'
  BY <1>2, <1>3, <1>6 DEF IInv, TypeInv, taskVars, wakeVars, history
<1>8. PlaceInv' /\ WakeInv' /\ DeadInv' /\ MaskInv'
  BY <1>2, StayStep DEF IInv, taskVars, history
<1> QED BY <1>6, <1>7, <1>8 DEF IInv

\* A push moves a task that is still where it was, and not running, and still
\* may run there.
LEMMA PushLockedStep ==
  ASSUME IInv, NEW x \in Cpus \cup Tasks, PushLocked(x)
  PROVE  IInv'
<1> DEFINE c == pusher[x].rq  p == pusher[x].task  d == pusher[x].dest
<1>1. pusher[x].at # "no" /\ c \in Cpus /\ d \in Cpus /\ p \in Tasks
  BY DEF PushLocked, IInv, PushInv, PushOK
<1>2. UNCHANGED << state, allowed, on_cpu, prog, cond, waker, curr, pc, wakeVars, stop_work, history >>
  BY DEF PushLocked
<1>3. CASE /\ StillPushable(p, c, d) /\ MoveTask(p, c, d)
           /\ need_resched' = [need_resched EXCEPT ![d] = TRUE]
           /\ pusher' = [pusher EXCEPT ![x] = Push(c)]
  <2>1. pusher' \in [Cpus \cup Tasks -> PusherType] /\ PushInv'
    BY <1>1, <1>3, PushRecords, SetPusher DEF IInv
  <2>2. /\ queue' \in [Cpus -> SUBSET Tasks] /\ task_cpu' \in [Tasks -> Cpus]
        /\ PlaceInv' /\ WakeInv' /\ DeadInv' /\ MaskInv'
    BY <1>1, <1>2, <1>3, MoveStep DEF IInv, StillPushable, history
  <2>3. TypeInv'
    BY <1>1, <1>2, <1>3, <2>1, <2>2 DEF IInv, TypeInv, wakeVars, history
  <2> QED BY <2>1, <2>2, <2>3 DEF IInv
<1>4. CASE /\ UNCHANGED << queue, task_cpu, need_resched >>
           /\ \/ \E e \in LowestRqs(p) \ {c} : PushTo(x, p, e)
              \/ PushDone(x)
              \/ pusher' = [pusher EXCEPT ![x] = Push(c)]
  <2>1. LowestRqs(p) \subseteq Cpus
    BY <1>1 DEF LowestRqs, IInv, TypeInv
  <2>2. pusher' \in [Cpus \cup Tasks -> PusherType] /\ PushInv'
    <3>1. CASE \E e \in LowestRqs(p) \ {c} : PushTo(x, p, e)
      BY <1>1, <2>1, <3>1, PushToStep DEF IInv
    <3>2. CASE PushDone(x)
      BY <3>2, PushRecords, SetPusher DEF PushDone, IInv
    <3>3. CASE pusher' = [pusher EXCEPT ![x] = Push(c)]
      BY <1>1, <3>3, PushRecords, SetPusher DEF IInv
    <3> QED BY <1>4, <3>1, <3>2, <3>3
  <2>3. TypeInv'
    BY <1>2, <1>4, <2>2 DEF IInv, TypeInv, wakeVars, history
  <2>4. PlaceInv' /\ WakeInv' /\ DeadInv' /\ MaskInv'
    BY <1>2, <1>4, StayStep DEF IInv, history
  <2> QED BY <2>2, <2>3, <2>4 DEF IInv
<1> QED BY <1>3, <1>4 DEF PushLocked

\* A pull takes a task that nobody runs and that may run here.
LEMMA PullStep ==
  ASSUME IInv, NEW c \in Cpus, NEW d \in Cpus, Pull(c, d)
  PROVE  IInv'
<1>1. /\ pc[c].at = "pull" /\ pc[c] \in PcType
      /\ UNCHANGED << state, allowed, on_cpu, prog, cond, waker, curr, need_resched, pusher, wakeVars,
                      stop_work, history >>
  BY DEF Pull, IInv, TypeInv
<1>2. /\ pc' \in [Cpus -> PcType]
      /\ \A e \in Cpus : \/ pc'[e] = pc[e]
                         \/ /\ pc[e].at \in {"pull", "pick"} /\ pc'[e].at \in {"pull", "pick"}
                            /\ pc'[e].prev = pc[e].prev
  <2> DEFINE todo == pc[c].todo \ {d}
             at == IF pc[c].todo = {d} THEN "pick" ELSE pc[c].at
             r == [at |-> at, prev |-> pc[c].prev, was |-> pc[c].was, todo |-> todo,
                   post |-> pc[c].post]
  <2>1. at \in {"pull", "pick"}
    BY <1>1
  <2> HIDE DEF at
  <2>2. r \in PcType /\ r.at \in {"pull", "pick"} /\ r.prev = pc[c].prev
    BY <1>1, <2>1 DEF PcType
  <2>3. [[pc[c] EXCEPT !.todo = todo] EXCEPT !.at = at] = r
    <3> DEFINE u == pc[c]
               v == [u EXCEPT !.todo = todo]
    <3>1. v = [at |-> u.at, prev |-> u.prev, was |-> u.was, todo |-> todo, post |-> u.post]
      BY <1>1 DEF PcType
    <3> HIDE DEF u, v, todo
    <3>2. [v EXCEPT !.at = at] =
            [at |-> at, prev |-> u.prev, was |-> u.was, todo |-> todo, post |-> u.post]
      BY <3>1
    <3> QED BY <3>2 DEF u, v
  <2>4. pc' = [pc EXCEPT ![c] = r]
    BY <2>3 DEF Pull, IInv, TypeInv, at
  <2> HIDE DEF r
  <2> QED BY <1>1, <2>2, <2>4 DEF IInv, TypeInv
<1>3. CASE UNCHANGED << queue, task_cpu >>
  <2>1. PlaceInv' /\ WakeInv' /\ DeadInv' /\ MaskInv'
    BY <1>1, <1>2, <1>3, StayStep DEF IInv, history
  <2>2. TypeInv'
    BY <1>1, <1>2, <1>3 DEF IInv, TypeInv, wakeVars, history
  <2> QED BY <1>1, <2>1, <2>2, PushSame DEF IInv
<1>4. CASE \E p \in Pullable(d, c) : MoveTask(p, d, c)
  <2>1. PICK p \in Pullable(d, c) : MoveTask(p, d, c)
    BY <1>4
  <2>2. p \in Tasks /\ p \in queue[d] /\ ~on_cpu[p] /\ c \in allowed[p]
    BY <2>1 DEF Pullable, IInv, TypeInv
  <2>3. /\ queue' \in [Cpus -> SUBSET Tasks] /\ task_cpu' \in [Tasks -> Cpus]
        /\ PlaceInv' /\ WakeInv' /\ DeadInv' /\ MaskInv'
    BY <1>1, <1>2, <2>1, <2>2, MoveStep DEF IInv, history
  <2>4. TypeInv'
    BY <1>1, <1>2, <2>3 DEF IInv, TypeInv, wakeVars, history
  <2> QED BY <1>1, <2>3, <2>4, PushSame DEF IInv
<1> QED BY <1>3, <1>4 DEF Pull, Urgent

-----------------------------------------------------------------------------
(* Affinities.                                                             *)

\* Where the mask leaves a task that is queued the stopper is asked for it; one
\* that is being woken has strayed.
LEMMA set_cpus_allowed_ptrStep ==
  ASSUME IInv, NEW p \in Tasks, NEW mask \in Masks, set_cpus_allowed_ptr(p, mask)
  PROVE  IInv'
<1> DEFINE c == task_cpu[p]
<1>1. c \in Cpus /\ (OnRq(p) <=> Queued(p)) /\ mask \in SUBSET Cpus
  BY OnRqIsQueued, SchedSMPAssumption DEF IInv, TypeInv
<1>2. /\ allowed' = [allowed EXCEPT ![p] = mask] /\ masked < MaxMasks /\ masked' = masked + 1
      /\ strayed' = IF c \notin mask /\ state[p] = "waking" THEN strayed \cup {p} ELSE strayed
      /\ UNCHANGED << state, task_cpu, on_cpu, prog, cond, waker, queue, curr, pc, pusher, wakeVars,
                      puts >>
  BY DEF set_cpus_allowed_ptr
<1>3. /\ stop_work' \in [Cpus -> SUBSET WorkType] /\ need_resched' \in [Cpus -> BOOLEAN]
      /\ \A e \in Cpus : stop_work[e] \subseteq stop_work'[e]
      /\ c \notin mask /\ Queued(p) => \E w \in stop_work'[c] : w.task = p /\ w.dest \in mask
  <2>1. CASE c \notin mask /\ Queued(p)
    <3>1. PICK d \in mask : stop_work' = [stop_work EXCEPT ![c] = @ \cup {[task |-> p, dest |-> d]}]
      BY <1>1, <2>1 DEF set_cpus_allowed_ptr
    <3>2. need_resched' = [need_resched EXCEPT ![c] = TRUE]
      BY <1>1, <2>1 DEF set_cpus_allowed_ptr
    <3> DEFINE w == [task |-> p, dest |-> d]
    <3>3. w \in WorkType /\ w.task = p /\ w.dest \in mask
      BY <1>1 DEF WorkType
    <3> HIDE DEF w
    <3>4. stop_work' = [stop_work EXCEPT ![c] = @ \cup {w}]
      BY <3>1 DEF w
    <3>5. w \in stop_work'[c]
      BY <1>1, <3>4 DEF IInv, TypeInv
    <3>6. \A e \in Cpus : stop_work[e] \subseteq stop_work'[e]
      BY <1>1, <3>4 DEF IInv, TypeInv
    <3>7. stop_work' \in [Cpus -> SUBSET WorkType]
      BY <1>1, <3>3, <3>4 DEF IInv, TypeInv
    <3> QED BY <1>1, <3>2, <3>3, <3>5, <3>6, <3>7 DEF IInv, TypeInv
  <2>2. CASE ~(c \notin mask /\ Queued(p))
    BY <1>1, <2>2 DEF set_cpus_allowed_ptr, IInv, TypeInv
  <2> QED BY <2>1, <2>2
<1>4. TypeInv'
  BY <1>1, <1>2, <1>3, SchedSMPAssumption DEF IInv, TypeInv, wakeVars
<1>5. MaskInv'
  <2>1. ASSUME NEW e \in Cpus, NEW q \in queue'[e], e \notin allowed'[q]
        PROVE  q \in strayed' \/ \E w \in stop_work'[e] : w.task = q /\ w.dest \in allowed'[q]
    <3>1. q \in Tasks /\ q \in queue[e] /\ task_cpu[q] = e
      BY <1>2, <2>1 DEF IInv, TypeInv, PlaceInv
    <3>2. CASE q = p
      BY <1>1, <1>2, <1>3, <2>1, <3>1, <3>2 DEF IInv, TypeInv, Queued
    <3>3. CASE q # p
      BY <1>2, <1>3, <2>1, <3>1, <3>3 DEF IInv, TypeInv, MaskInv
    <3> QED BY <3>2, <3>3
  <2>2. \A q \in Tasks : state'[q] = "waking" /\ task_cpu'[q] \notin allowed'[q] => q \in strayed'
    BY <1>1, <1>2 DEF IInv, TypeInv, MaskInv
  <2> QED BY <2>1, <2>2 DEF MaskInv
<1>6. DeadInv'
  BY <1>2, DeadSame DEF IInv, placeVars
<1>7. WakeInv'
  BY <1>2, WakeSame DEF IInv
<1>8. PlaceInv'
  BY <1>2, PlaceSame DEF IInv, placeVars
<1> QED BY <1>2, <1>4, <1>5, <1>6, <1>7, <1>8, PushSame DEF IInv

\* The stopper runs instead of the task, so that nobody is on its stack.
LEMMA migrate_taskStep ==
  ASSUME IInv, NEW c \in Cpus, NEW w \in stop_work[c], migrate_task(c, w)
  PROVE  IInv'
<1> DEFINE p == w.task  d == w.dest
<1>1. w \in WorkType /\ p \in Tasks /\ d \in Cpus
  BY DEF IInv, TypeInv, WorkType
<1>2. /\ OnRq(p) <=> Queued(p)
      /\ curr[c] = Stop /\ pc[c].at = "run" /\ ~On(c, p)
  BY <1>1, OnRqIsQueued, SchedSMPAssumption DEF migrate_task, Executes, IInv, On
<1>3. /\ stop_work' = [stop_work EXCEPT ![c] = @ \ {w}]
      /\ UNCHANGED << state, allowed, on_cpu, prog, cond, waker, curr, pc, pusher, wakeVars, history >>
  BY DEF migrate_task
<1>4. /\ stop_work' \in [Cpus -> SUBSET WorkType]
      /\ \A e \in Cpus : \A v \in stop_work[e] : v \in stop_work'[e] \/ (e = c /\ v = w)
  BY <1>3 DEF IInv, TypeInv
<1>5. CASE task_cpu[p] = c /\ d \in allowed[p] /\ Queued(p)
  <2>1. /\ MoveTask(p, c, d)
        /\ need_resched' = [need_resched EXCEPT ![d] = @ \/ Preempts(p, d)]
    BY <1>2, <1>5 DEF migrate_task
  <2>2. p \in queue[c] /\ ~on_cpu[p]
    BY <1>1, <1>2, <1>5 DEF Queued, IInv, PlaceInv, TypeInv
  <2>3. /\ queue' \in [Cpus -> SUBSET Tasks] /\ task_cpu' \in [Tasks -> Cpus]
        /\ PlaceInv' /\ WakeInv' /\ DeadInv' /\ MaskInv'
    BY <1>1, <1>3, <1>4, <1>5, <2>1, <2>2, MoveStep DEF IInv, history
  <2>4. need_resched' \in [Cpus -> BOOLEAN]
    BY <1>1, <2>1 DEF IInv, TypeInv
  <2>5. TypeInv'
    BY <1>3, <1>4, <2>3, <2>4 DEF IInv, TypeInv, wakeVars, history
  <2> QED BY <1>3, <2>3, <2>5, PushSame DEF IInv
<1>6. CASE ~(task_cpu[p] = c /\ d \in allowed[p] /\ Queued(p))
  <2>1. UNCHANGED << queue, task_cpu, need_resched >>
    BY <1>2, <1>6 DEF migrate_task
  <2>2. TypeInv'
    BY <1>3, <1>4, <2>1 DEF IInv, TypeInv, wakeVars, history
  <2>3. MaskInv'
    <3>1. ASSUME NEW e \in Cpus, NEW q \in queue[e], e \notin allowed[q], q \notin strayed
          PROVE  \E v \in stop_work'[e] : v.task = q /\ v.dest \in allowed[q]
      <4>1. PICK v \in stop_work[e] : v.task = q /\ v.dest \in allowed[q]
        BY <3>1 DEF IInv, MaskInv
      <4>2. q \in Tasks /\ task_cpu[q] = e /\ Queued(q)
        BY DEF IInv, TypeInv, PlaceInv, Queued
      <4>3. ~(e = c /\ v = w)
        BY <1>6, <4>1, <4>2
      <4> QED BY <1>4, <4>1, <4>3
    <3> QED BY <1>3, <2>1, <3>1 DEF IInv, MaskInv, history
  <2>4. PlaceInv' /\ DeadInv' /\ WakeInv'
    BY <1>3, <2>1, PlaceSame, DeadSame, WakeSame DEF IInv, placeVars, history
  <2> QED BY <1>3, <2>2, <2>3, <2>4, PushSame DEF IInv
<1> QED BY <1>5, <1>6

-----------------------------------------------------------------------------
(* __schedule.                                                             *)

\* The record of a CPU that goes on in the task.
LEMMA RunRecord == At("run") \in PcType /\ At("run").at = "run"
BY DEF At, PcType, States

\* That of one that leaves prev.
Leaving(prev, post) == [At("switch") EXCEPT !.prev = prev, !.post = post]

\* It is a record, of the CPU that is between the two.
LEMMA SwitchRecord ==
  ASSUME NEW prev \in Tasks \cup {Idle, Stop}, NEW post \in BOOLEAN
  PROVE  /\ Leaving(prev, post) \in PcType
         /\ Leaving(prev, post).at = "switch" /\ Leaving(prev, post).prev = prev
<1> DEFINE at == "switch"  was == "running"  none == {}  no == FALSE
           s == At("switch")
           v == [s EXCEPT !.prev = prev]
           r == [s EXCEPT !.prev = prev, !.post = post]
<1>1. s = [at |-> at, prev |-> Idle, was |-> was, todo |-> none, post |-> no]
  BY Zenon DEF At
<1>2. r = [v EXCEPT !.post = post]
  BY Zenon
<1>3. was \in States /\ none \in SUBSET Cpus /\ at = "switch" /\ no \in BOOLEAN
  BY DEF States
<1> HIDE DEF at, was, none, no, s, r
<1>4. v = [at |-> at, prev |-> prev, was |-> was, todo |-> none, post |-> no]
  BY <1>1
<1> HIDE DEF v
<1>5. r = [at |-> at, prev |-> prev, was |-> was, todo |-> none, post |-> post]
  BY <1>2, <1>4
<1>6. r \in PcType /\ r.at = "switch" /\ r.prev = prev
  BY <1>3, <1>5 DEF PcType, States
<1> QED BY <1>6, Zenon DEF Leaving, r, s

\* That of one that drops its lock to pull from others.
LEMMA PullRecord ==
  ASSUME NEW prev \in Tasks \cup {Idle, Stop}, NEW todo \in SUBSET Cpus
  PROVE  /\ [At("pull") EXCEPT !.prev = prev, !.todo = todo] \in PcType
         /\ [At("pull") EXCEPT !.prev = prev, !.todo = todo].at = "pull"
         /\ [At("pull") EXCEPT !.prev = prev, !.todo = todo].prev = prev
<1> DEFINE at == "pull"  was == "running"  none == {}  no == FALSE
           s == At("pull")
           v == [s EXCEPT !.prev = prev]
           r == [s EXCEPT !.prev = prev, !.todo = todo]
<1>1. s = [at |-> at, prev |-> Idle, was |-> was, todo |-> none, post |-> no]
  BY Zenon DEF At
<1>2. r = [v EXCEPT !.todo = todo]
  BY Zenon
<1>3. was \in States /\ none \in SUBSET Cpus /\ at = "pull" /\ no \in BOOLEAN
  BY DEF States
<1> HIDE DEF at, was, none, no, s, r
<1>4. v = [at |-> at, prev |-> prev, was |-> was, todo |-> none, post |-> no]
  BY <1>1
<1> HIDE DEF v
<1>5. r = [at |-> at, prev |-> prev, was |-> was, todo |-> todo, post |-> no]
  BY <1>2, <1>4
<1>6. r \in PcType /\ r.at = "pull" /\ r.prev = prev
  BY <1>3, <1>5 DEF PcType, States
<1> QED BY <1>6 DEF r, s

\* What the CPU does to the places when it picks: it is on the stack of the
\* task it picks, and still on that of the one it leaves.
LEMMA SwitchFromStep ==
  ASSUME TypeInv, PlaceInv, PushInv, NEW c \in Cpus, NEW prev,
         prev = curr[c], pc[c].at \in {"run", "pick"},
         queue' \in [Cpus -> SUBSET Tasks],
         \A e \in Cpus : queue'[e] \subseteq queue[e],
         \A e \in Cpus \ {c} : queue'[e] = queue[e],
         UNCHANGED task_cpu, SwitchFrom(c, prev)
  PROVE  /\ curr' \in [Cpus -> Tasks \cup {Idle, Stop}] /\ on_cpu' \in [Tasks -> BOOLEAN]
         /\ pc' \in [Cpus -> PcType] /\ need_resched' \in [Cpus -> BOOLEAN]
         /\ pusher' \in [Cpus \cup Tasks -> PusherType] /\ PushInv'
         /\ PlaceInv'
         /\ \A e \in Cpus \ {c} : curr'[e] = curr[e] /\ pc'[e] = pc[e]
         /\ pc'[c].at \in {"run", "switch"}
         /\ \A q \in Tasks : on_cpu'[q] => on_cpu[q] \/ Queued(q)'
<1>1. prev \in Tasks \cup {Idle, Stop}
  BY DEF TypeInv
<1>2. PICK next \in IF stop_work[c] # {} THEN {Stop}
                    ELSE IF queue'[c] = {} THEN {Idle} ELSE Urgent(queue'[c]) :
       LET post == next # Stop /\ \E p \in queue'[c] \ {next} : Migratory(p) IN
       /\ curr' = [curr EXCEPT ![c] = next]
       /\ on_cpu' = IF next \in Tasks THEN [on_cpu EXCEPT ![next] = TRUE] ELSE on_cpu
       /\ IF next = prev
          THEN /\ pc' = [pc EXCEPT ![c] = At("run")]
               /\ pusher' = [pusher EXCEPT ![c] = IF post THEN Push(c) ELSE @]
          ELSE /\ pc' = [pc EXCEPT ![c] = [At("switch") EXCEPT !.prev = prev, !.post = post]]
               /\ UNCHANGED pusher
  BY DEF SwitchFrom
<1> DEFINE post == next # Stop /\ \E p \in queue'[c] \ {next} : Migratory(p)
<1>3. /\ next \in Tasks \cup {Idle, Stop}
      /\ next \in Tasks => next \in queue'[c]
  BY SchedSMPAssumption DEF Urgent
<1>4. need_resched' \in [Cpus -> BOOLEAN]
  BY DEF SwitchFrom, TypeInv
<1>5. post \in BOOLEAN
  OBVIOUS
<1>6. \/ /\ next = prev /\ pc' = [pc EXCEPT ![c] = At("run")]
         /\ pusher' = [pusher EXCEPT ![c] = IF post THEN Push(c) ELSE @]
      \/ /\ next # prev
         /\ pc' = [pc EXCEPT ![c] = [At("switch") EXCEPT !.prev = prev, !.post = post]]
         /\ UNCHANGED pusher
  BY <1>2
<1> HIDE DEF post
<1>7. pusher' \in [Cpus \cup Tasks -> PusherType] /\ PushInv'
  BY <1>6, MayPushStep, PushSame DEF TypeInv
<1>8. PICK r \in PcType :
        /\ pc' = [pc EXCEPT ![c] = r]
        /\ \/ r.at = "run" /\ next = prev
           \/ r.at = "switch" /\ r.prev = prev /\ next # prev
  <2>1. CASE next = prev
    BY <1>6, <2>1, RunRecord
  <2>2. CASE next # prev
    <3>1. PICK b \in BOOLEAN : pc' = [pc EXCEPT ![c] = Leaving(prev, b)]
      BY <1>5, <1>6, <2>2, Zenon DEF Leaving
    <3> QED BY <1>1, <2>2, <3>1, SwitchRecord
  <2> QED BY <2>1, <2>2
<1>9. /\ pc' \in [Cpus -> PcType] /\ pc'[c] = r
      /\ curr' \in [Cpus -> Tasks \cup {Idle, Stop}] /\ curr'[c] = next
      /\ \A e \in Cpus \ {c} : curr'[e] = curr[e] /\ pc'[e] = pc[e]
  BY <1>2, <1>3, <1>8 DEF TypeInv
<1>10. /\ on_cpu' \in [Tasks -> BOOLEAN]
       /\ \A q \in Tasks : on_cpu'[q] <=> on_cpu[q] \/ q = next
  BY <1>2 DEF TypeInv
<1>11. next \in Tasks => task_cpu[next] = c
  BY <1>3 DEF PlaceInv
<1>12. prev \in Tasks => task_cpu[prev] = c
  BY OnItsCpu DEF On
<1>13. PlaceInv'
  <2>1. \A e \in Cpus : \A q \in queue'[e] : task_cpu'[q] = e
    BY DEF PlaceInv
  <2>2. \A e \in Cpus : pc'[e].at \in {"run", "switch", "put"} /\ curr'[e] \in Tasks =>
          curr'[e] \in queue'[e]
    BY <1>3, <1>9 DEF PlaceInv
  <2>3. \A e \in Cpus :
          /\ pc'[e].at \in {"pull", "pick"} => pc'[e].prev = curr'[e]
          /\ pc'[e].at = "switch" => pc'[e].prev # curr'[e]
          /\ pc'[e].at = "put" => pc'[e].prev \in Tasks
    BY <1>8, <1>9 DEF PlaceInv
  <2>4. \A q \in Tasks : On(c, q)' <=> q = next \/ q = prev
    BY <1>8, <1>9 DEF On
  <2>5. \A e \in Cpus \ {c}, q \in Tasks : On(e, q)' <=> On(e, q)
    BY <1>9 DEF On
  <2>6. \A q \in Tasks : On(c, q) <=> q = prev
    BY DEF On
  <2>7. \A e \in Cpus, q \in Tasks : On(e, q)' => task_cpu'[q] = e
    BY <1>11, <1>12, <2>4, <2>5 DEF PlaceInv
  <2>8. \A q \in Tasks : on_cpu'[q] <=> On(task_cpu[q], q)'
    <3> TAKE q \in Tasks
    <3>1. task_cpu[q] \in Cpus /\ (on_cpu[q] <=> On(task_cpu[q], q))
      BY DEF PlaceInv, TypeInv
    <3>2. CASE task_cpu[q] = c
      BY <1>10, <2>4, <2>6, <3>1, <3>2
    <3>3. CASE task_cpu[q] # c
      BY <1>10, <1>11, <2>5, <3>1, <3>3
    <3> QED BY <3>2, <3>3
  <2> QED BY <2>1, <2>2, <2>3, <2>7, <2>8 DEF PlaceInv
<1>14. \A q \in Tasks : on_cpu'[q] => on_cpu[q] \/ Queued(q)'
  BY <1>3, <1>10, <1>11 DEF Queued
<1> QED BY <1>4, <1>7, <1>8, <1>9, <1>10, <1>13, <1>14

\* The rest of the invariant, when a CPU has left its task or not, and taken it
\* off the queue or not.
LEMMA AfterSwitch ==
  ASSUME IInv, NEW c \in Cpus,
         UNCHANGED << state, allowed, task_cpu, cond, waker, wakeVars, stop_work, history >>,
         \A e \in Cpus : queue'[e] \subseteq queue[e],
         \A e \in Cpus \ {c} : curr'[e] = curr[e] /\ pc'[e] = pc[e],
         pc'[c].at \in {"run", "pull", "switch"},
         \A q \in Tasks : on_cpu'[q] => on_cpu[q] \/ Queued(q)',
         \A q \in Tasks : Queued(q) /\ (state[q] = "running" \/ prog'[q] = "test") => Queued(q)',
         \A q \in Tasks : prog'[q] = "test" <=> prog[q] = "test",
         \A q \in queue'[c] : state[q] # "dead"
  PROVE  WakeInv' /\ DeadInv' /\ MaskInv'
<1>1. \A q \in Tasks : Queued(q)' => Queued(q)
  BY DEF Queued, IInv, TypeInv
<1>2. WakeInv'
  <2>1. \A q \in Tasks : WakeOK(q)'
    BY <1>1 DEF IInv, WakeInv, WakeOK, wakeVars
  <2>2. \A e \in Cpus : ListOK(e)'
    BY DEF IInv, WakeInv, ListOK, wakeVars
  <2> QED BY <2>1, <2>2 DEF WakeInv
<1>3. DeadInv'
  <2>1. \A e \in Cpus, q \in Tasks : WillPut(e, q)' => WillPut(e, q)
    BY DEF WillPut
  <2>2. ASSUME NEW q \in Tasks
        PROVE  state[q] = "dead" /\ Queued(q)' =>
                 curr'[task_cpu[q]] = q /\ pc'[task_cpu[q]].at = "run"
    BY <1>1 DEF IInv, TypeInv, DeadInv, DeadOK, Queued
  <2> QED BY <1>1, <2>1, <2>2 DEF IInv, DeadInv, DeadOK, history
<1>4. MaskInv'
  BY DEF IInv, MaskInv, history
<1> QED BY <1>2, <1>3, <1>4

\* A CPU calls __schedule: who does not want to run leaves the queue.
LEMMA ScheduleStep ==
  ASSUME IInv, NEW c \in Cpus, Schedule(c)
  PROVE  IInv'
<1> DEFINE prev == curr[c]
<1>1. /\ pc[c].at = "run" /\ prev \in Tasks \cup {Idle, Stop}
      /\ prev \in Tasks => prev \in queue[c] /\ task_cpu[prev] = c
  BY Executing DEF Schedule, Executes, IInv, TypeInv
<1>2. PICK volunteers \in BOOLEAN :
       /\ IF volunteers THEN Sleeps(c)
          ELSE need_resched[c] /\ (prev \in Tasks => state[prev] # "dead")
       /\ queue' = [queue EXCEPT ![c] =
            IF volunteers /\ prev \in Tasks /\ state[prev] # "running" THEN @ \ {prev} ELSE @]
       /\ prog' = IF volunteers /\ prev \in Tasks /\ state[prev] # "dead"
                  THEN [prog EXCEPT ![prev] = "work"] ELSE prog
  BY DEF Schedule
<1>3. UNCHANGED << state, allowed, task_cpu, cond, waker, wakeVars, stop_work, history >>
  BY DEF Schedule
<1>4. /\ queue' \in [Cpus -> SUBSET Tasks]
      /\ \A e \in Cpus : queue'[e] \subseteq queue[e]
      /\ \A e \in Cpus \ {c} : queue'[e] = queue[e]
      /\ \A e \in Cpus : \A q \in queue[e] \ queue'[e] :
           volunteers /\ e = c /\ q = prev /\ state[q] # "running"
      /\ volunteers /\ prev \in Tasks /\ state[prev] = "dead" => prev \notin queue'[c]
  BY <1>2 DEF IInv, TypeInv
<1>5. volunteers /\ prev \in Tasks => prog[prev] = "sleep"
  BY <1>2, SchedSMPAssumption DEF Sleeps
<1>6. /\ prog' \in [Tasks -> {"work", "test", "sleep"}]
      /\ \A q \in Tasks : prog'[q] = "test" <=> prog[q] = "test"
  BY <1>2, <1>5 DEF IInv, TypeInv
<1>7. \A q \in Tasks : Queued(q) /\ (state[q] = "running" \/ prog'[q] = "test") => Queued(q)'
  BY <1>3, <1>4, <1>5, <1>6 DEF Queued, IInv, TypeInv
<1>8. \A q \in queue'[c] : state[q] # "dead"
  <2> SUFFICES ASSUME NEW q \in queue'[c], state[q] = "dead"
               PROVE  FALSE
    OBVIOUS
  <2>1. q \in Tasks /\ q \in queue[c] /\ task_cpu[q] = c /\ Queued(q)
    BY <1>4 DEF IInv, TypeInv, PlaceInv, Queued
  <2>2. q = prev
    BY <2>1 DEF IInv, DeadInv, DeadOK
  <2> QED BY <1>2, <1>4, <2>1, <2>2
<1>9. /\ curr' \in [Cpus -> Tasks \cup {Idle, Stop}] /\ on_cpu' \in [Tasks -> BOOLEAN]
      /\ pc' \in [Cpus -> PcType] /\ need_resched' \in [Cpus -> BOOLEAN]
      /\ pusher' \in [Cpus \cup Tasks -> PusherType] /\ PushInv'
      /\ PlaceInv'
      /\ \A e \in Cpus \ {c} : curr'[e] = curr[e] /\ pc'[e] = pc[e]
      /\ pc'[c].at \in {"run", "pull", "switch"}
      /\ \A q \in Tasks : on_cpu'[q] => on_cpu[q] \/ Queued(q)'
  <2>1. CASE SwitchFrom(c, prev)
    BY <1>1, <1>3, <1>4, <2>1, SwitchFromStep DEF IInv
  <2>2. CASE \E others \in SUBSET Cpus :
               /\ pc' = [pc EXCEPT ![c] = [At("pull") EXCEPT !.prev = prev, !.todo = others]]
               /\ UNCHANGED << on_cpu, curr, need_resched, pusher >>
    <3>1. PICK r \in PcType :
            pc' = [pc EXCEPT ![c] = r] /\ r.at = "pull" /\ r.prev = prev
      <4>1. PICK others \in SUBSET Cpus :
              pc' = [pc EXCEPT ![c] = [At("pull") EXCEPT !.prev = prev, !.todo = others]]
        BY <2>2
      <4> DEFINE r == [At("pull") EXCEPT !.prev = prev, !.todo = others]
      <4>2. r \in PcType /\ r.at = "pull" /\ r.prev = prev
        BY <1>1, PullRecord
      <4>3. pc' = [pc EXCEPT ![c] = r]
        BY <4>1
      <4> HIDE DEF r
      <4> QED BY <4>2, <4>3
    <3>2. /\ pc' \in [Cpus -> PcType] /\ pc'[c] = r
          /\ \A e \in Cpus \ {c} : pc'[e] = pc[e]
      BY <3>1 DEF IInv, TypeInv
    <3>3. \A e \in Cpus, q \in Tasks : On(e, q)' <=> On(e, q)
      BY <1>1, <2>2, <3>1, <3>2 DEF On
    <3>4. PlaceInv'
      <4>1. \A e \in Cpus : pc'[e].at \in {"run", "switch", "put"} /\ curr'[e] \in Tasks =>
              curr'[e] \in queue'[e]
        BY <1>4, <2>2, <3>1, <3>2 DEF IInv, PlaceInv
      <4>2. \A e \in Cpus :
              /\ pc'[e].at \in {"pull", "pick"} => pc'[e].prev = curr'[e]
              /\ pc'[e].at = "switch" => pc'[e].prev # curr'[e]
              /\ pc'[e].at = "put" => pc'[e].prev \in Tasks
        BY <2>2, <3>1, <3>2 DEF IInv, PlaceInv
      <4> QED BY <1>3, <1>4, <2>2, <3>3, <4>1, <4>2 DEF IInv, PlaceInv, TypeInv
    <3> QED BY <2>2, <3>1, <3>2, <3>4, PushSame DEF IInv, TypeInv
  <2> DEFINE others == {d \in Cpus \ {c} : Overloaded(d)}
  <2>3. \/ SwitchFrom(c, prev)
        \/ /\ pc' = [pc EXCEPT ![c] = [At("pull") EXCEPT !.prev = prev, !.todo = others]]
           /\ UNCHANGED << on_cpu, curr, need_resched, pusher >>
    BY Zenon DEF Schedule
  <2>4. others \in SUBSET Cpus
    OBVIOUS
  <2> HIDE DEF others
  <2> QED BY <2>1, <2>2, <2>3, <2>4
<1>10. WakeInv' /\ DeadInv' /\ MaskInv'
  BY <1>3, <1>4, <1>6, <1>7, <1>8, <1>9, AfterSwitch
<1>11. TypeInv'
  BY <1>3, <1>4, <1>6, <1>9 DEF IInv, TypeInv, wakeVars, history
<1> QED BY <1>9, <1>10, <1>11 DEF IInv

\* It goes on after it has pulled.
LEMMA PickNextStep ==
  ASSUME IInv, NEW c \in Cpus, PickNext(c)
  PROVE  IInv'
<1>1. /\ pc[c].at = "pick" /\ pc[c].prev = curr[c]
      /\ UNCHANGED << queue, state, allowed, task_cpu, prog, cond, waker, wakeVars, stop_work,
                      history >>
      /\ SwitchFrom(c, curr[c])
  BY DEF PickNext, IInv, PlaceInv
<1>2. /\ curr' \in [Cpus -> Tasks \cup {Idle, Stop}] /\ on_cpu' \in [Tasks -> BOOLEAN]
      /\ pc' \in [Cpus -> PcType] /\ need_resched' \in [Cpus -> BOOLEAN]
      /\ pusher' \in [Cpus \cup Tasks -> PusherType] /\ PushInv'
      /\ PlaceInv'
      /\ \A e \in Cpus \ {c} : curr'[e] = curr[e] /\ pc'[e] = pc[e]
      /\ pc'[c].at \in {"run", "switch"}
      /\ \A q \in Tasks : on_cpu'[q] => on_cpu[q] \/ Queued(q)'
  <2>1. queue' \in [Cpus -> SUBSET Tasks] /\ \A e \in Cpus : queue'[e] = queue[e]
    BY <1>1 DEF IInv, TypeInv
  <2> QED BY <1>1, <2>1, SwitchFromStep DEF IInv
<1>3. \A q \in queue'[c] : state[q] # "dead"
  BY <1>1 DEF IInv, TypeInv, PlaceInv, DeadInv, DeadOK, Queued
<1>4. \A q \in Tasks : Queued(q) => Queued(q)'
  BY <1>1 DEF Queued
<1>5. WakeInv' /\ DeadInv' /\ MaskInv'
  BY <1>1, <1>2, <1>3, <1>4, AfterSwitch
<1>6. TypeInv'
  BY <1>1, <1>2 DEF IInv, TypeInv, wakeVars, history
<1> QED BY <1>2, <1>5, <1>6 DEF IInv

\* post_schedule begins a push, or not.
LEMMA PostScheduleStep ==
  ASSUME IInv, NEW c \in Cpus, PostSchedule(c)
  PROVE  pusher' \in [Cpus \cup Tasks -> PusherType] /\ PushInv'
BY MayPushStep DEF PostSchedule, IInv

\* The CPU leaves the stack of the task.
LEMMA finish_task_switchStep ==
  ASSUME IInv, NEW c \in Cpus, finish_task_switch(c)
  PROVE  IInv'
<1>1. PICK prev \in Tasks \cup {Idle, Stop} : prev = pc[c].prev
  BY DEF IInv, TypeInv, PcType
<1>2. /\ pc[c].at = "switch" /\ prev # curr[c] /\ pc[c] \in PcType
      /\ curr[c] \in Tasks => curr[c] \in queue[c]
      /\ UNCHANGED << state, allowed, task_cpu, prog, cond, waker, queue, curr, need_resched, wakeVars,
                      stop_work, history >>
  BY <1>1 DEF finish_task_switch, IInv, TypeInv, PlaceInv, rqVars
<1>3. CASE prev \in Tasks
  <2>1. /\ on_cpu' = [on_cpu EXCEPT ![prev] = FALSE] /\ UNCHANGED pusher
        /\ pc' = [pc EXCEPT ![c].at = "put", ![c].was = state[prev]]
    BY <1>1, <1>3 DEF finish_task_switch
  <2> DEFINE r == [at |-> "put", prev |-> prev, was |-> state[prev], todo |-> pc[c].todo,
                   post |-> pc[c].post]
  <2>2. r \in PcType /\ r.at = "put" /\ r.prev = prev /\ r.was = state[prev]
    BY <1>2, <1>3 DEF PcType, IInv, TypeInv
  <2>3. [[pc[c] EXCEPT !.at = "put"] EXCEPT !.was = state[prev]] = r
    <3> DEFINE u == pc[c]
               v == [u EXCEPT !.at = "put"]
               was == state[prev]
    <3>1. v = [at |-> "put", prev |-> u.prev, was |-> u.was, todo |-> u.todo, post |-> u.post]
      BY <1>2 DEF PcType
    <3> HIDE DEF u, v, was
    <3>2. [v EXCEPT !.was = was] =
            [at |-> "put", prev |-> u.prev, was |-> was, todo |-> u.todo, post |-> u.post]
      BY <3>1
    <3> QED BY <1>1, <3>2 DEF u, v, was
  <2>4. pc' = [pc EXCEPT ![c] = r]
    BY <2>1, <2>3 DEF IInv, TypeInv
  <2> HIDE DEF r
  <2>6. /\ pc' \in [Cpus -> PcType] /\ pc'[c] = r
        /\ \A e \in Cpus \ {c} : pc'[e] = pc[e]
        /\ on_cpu' \in [Tasks -> BOOLEAN] /\ ~on_cpu'[prev]
        /\ \A q \in Tasks \ {prev} : on_cpu'[q] = on_cpu[q]
    <3>1. pc' \in [Cpus -> PcType] /\ pc'[c] = r /\ \A e \in Cpus \ {c} : pc'[e] = pc[e]
      BY <2>2, <2>4 DEF IInv, TypeInv
    <3>2. /\ on_cpu' \in [Tasks -> BOOLEAN] /\ ~on_cpu'[prev]
          /\ \A q \in Tasks \ {prev} : on_cpu'[q] = on_cpu[q]
      BY <1>3, <2>1 DEF IInv, TypeInv
    <3> QED BY <3>1, <3>2
  <2>7. On(c, prev) /\ task_cpu[prev] = c /\ on_cpu[prev]
    BY <1>2, <1>3, <1>1, OnItsCpu DEF On, IInv
  <2>8. /\ \A q \in Tasks \ {prev} : On(c, q)' <=> On(c, q)
        /\ ~On(c, prev)'
        /\ \A e \in Cpus \ {c}, q \in Tasks : On(e, q)' <=> On(e, q)
    <3>1. curr' = curr /\ pc'[c].at = "put" /\ prev # curr[c]
      BY <1>2, <2>2, <2>6
    <3>2. \A q \in Tasks \ {prev} : On(c, q)' <=> On(c, q)
      BY <1>1, <3>1 DEF On
    <3>3. ~On(c, prev)'
      BY <3>1 DEF On
    <3>4. \A e \in Cpus \ {c}, q \in Tasks : On(e, q)' <=> On(e, q)
      BY <2>6, <3>1 DEF On
    <3> QED BY <3>2, <3>3, <3>4
  <2>9. PlaceInv'
    <3>1. \A e \in Cpus : pc'[e].at \in {"run", "switch", "put"} /\ curr'[e] \in Tasks =>
            curr'[e] \in queue'[e]
      BY <1>2, <2>6 DEF IInv, PlaceInv
    <3>2. \A e \in Cpus :
            /\ pc'[e].at \in {"pull", "pick"} => pc'[e].prev = curr'[e]
            /\ pc'[e].at = "switch" => pc'[e].prev # curr'[e]
            /\ pc'[e].at = "put" => pc'[e].prev \in Tasks
      BY <1>2, <1>3, <2>2, <2>6 DEF IInv, PlaceInv
    <3>3. \A e \in Cpus, q \in Tasks : On(e, q)' => task_cpu'[q] = e
      BY <1>2, <2>8 DEF IInv, PlaceInv
    <3>4. \A q \in Tasks : on_cpu'[q] <=> On(task_cpu[q], q)'
      <4> TAKE q \in Tasks
      <4>1. task_cpu[q] \in Cpus /\ (on_cpu[q] <=> On(task_cpu[q], q))
        BY DEF IInv, PlaceInv, TypeInv
      <4>2. CASE q = prev
        BY <1>2, <2>6, <2>7, <2>8, <4>2
      <4>3. CASE q # prev
        BY <1>2, <2>6, <2>8, <4>1, <4>3
      <4> QED BY <4>2, <4>3
    <3> QED BY <1>2, <3>1, <3>2, <3>3, <3>4 DEF IInv, PlaceInv
  <2>10. \A q \in Tasks : (Queued(q)' <=> Queued(q)) /\ (on_cpu'[q] => on_cpu[q])
    BY <1>2, <2>6 DEF Queued
  <2>11. WakeInv'
    <3>1. \A q \in Tasks : WakeOK(q)'
      BY <1>2, <2>10 DEF IInv, WakeInv, WakeOK, wakeVars
    <3>2. \A e \in Cpus : ListOK(e)'
      BY <1>2 DEF IInv, WakeInv, ListOK, wakeVars
    <3> QED BY <3>1, <3>2 DEF WakeInv
  <2>12. DeadInv'
    <3>1. puts[prev] = 0
      BY <1>3, <2>7 DEF IInv, DeadInv, DeadOK
    <3>2. state[prev] = "dead" => ~Queued(prev)
      BY <1>2, <1>3, <2>7 DEF IInv, DeadInv, DeadOK
    <3>3. \A e \in Cpus, q \in Tasks : WillPut(e, q)' =>
            WillPut(e, q) \/ (e = c /\ q = prev /\ state[prev] = "dead")
      BY <2>2, <2>6 DEF WillPut
    <3>4. \A q \in Tasks : state[q] = "dead" /\ Queued(q) =>
            curr'[task_cpu[q]] = q /\ pc'[task_cpu[q]].at = "run"
      BY <1>2, <2>6 DEF IInv, TypeInv, DeadInv, DeadOK
    <3> QED BY <1>2, <2>6, <2>7, <2>10, <3>1, <3>2, <3>3, <3>4 DEF IInv, DeadInv, DeadOK, history
  <2>13. TypeInv'
    BY <1>2, <2>1, <2>6 DEF IInv, TypeInv, wakeVars, history
  <2>14. MaskInv'
    BY <1>2, MaskSame DEF IInv, history
  <2> QED BY <2>1, <2>9, <2>11, <2>12, <2>13, <2>14, PushSame DEF IInv
<1>4. CASE prev \notin Tasks
  <2>1. pc' = [pc EXCEPT ![c] = At("run")] /\ PostSchedule(c) /\ UNCHANGED on_cpu
    BY <1>4, <1>1 DEF finish_task_switch
  <2>2. PICK r \in PcType : pc' = [pc EXCEPT ![c] = r] /\ r.at = "run"
    BY <2>1, RunRecord
  <2>3. /\ pc' \in [Cpus -> PcType] /\ pc'[c] = r
        /\ \A e \in Cpus \ {c} : pc'[e] = pc[e]
    BY <2>2 DEF IInv, TypeInv
  <2>4. pusher' \in [Cpus \cup Tasks -> PusherType] /\ PushInv'
    BY <2>1, PostScheduleStep
  <2>5. \A e \in Cpus, q \in Tasks : On(e, q)' <=> On(e, q)
    BY <1>2, <1>4, <1>1, <2>2, <2>3 DEF On
  <2>6. PlaceInv'
    BY <1>2, <2>1, <2>2, <2>3, <2>5 DEF IInv, TypeInv, PlaceInv
  <2>7. DeadInv'
    <3>1. \A e \in Cpus, q \in Tasks : WillPut(e, q)' => WillPut(e, q)
      BY <2>2, <2>3 DEF WillPut
    <3>2. \A q \in Tasks : state[q] = "dead" /\ Queued(q) =>
            curr'[task_cpu[q]] = q /\ pc'[task_cpu[q]].at = "run"
      BY <1>2, <2>2, <2>3 DEF IInv, TypeInv, DeadInv, DeadOK
    <3>3. \A q \in Tasks : Queued(q)' <=> Queued(q)
      BY <1>2 DEF Queued
    <3> QED BY <1>2, <2>1, <3>1, <3>2, <3>3 DEF IInv, DeadInv, DeadOK, history
  <2>8. WakeInv'
    BY <1>2, <2>1, WakeSame DEF IInv
  <2>9. MaskInv'
    BY <1>2, MaskSame DEF IInv, history
  <2>10. TypeInv'
    BY <1>2, <2>1, <2>3, <2>4 DEF IInv, TypeInv, wakeVars, history
  <2> QED BY <2>4, <2>6, <2>7, <2>8, <2>9, <2>10 DEF IInv
<1> QED BY <1>3, <1>4

\* The reference of the task is dropped if it was dead when it was left.
LEMMA PutPrevStep ==
  ASSUME IInv, NEW c \in Cpus, PutPrev(c)
  PROVE  IInv'
<1> DEFINE prev == pc[c].prev
<1>1. /\ pc[c].at = "put" /\ prev \in Tasks
      /\ curr[c] \in Tasks => curr[c] \in queue[c]
      /\ puts' = IF pc[c].was = "dead" THEN [puts EXCEPT ![prev] = @ + 1] ELSE puts
      /\ UNCHANGED << state, allowed, task_cpu, on_cpu, prog, cond, waker, queue, curr, need_resched,
                      wakeVars, stop_work, strayed, masked >>
  BY DEF PutPrev, IInv, PlaceInv, rqVars, taskVars
<1>2. PICK r \in PcType : pc' = [pc EXCEPT ![c] = r] /\ r.at = "run"
  BY RunRecord DEF PutPrev
<1>3. /\ pc' \in [Cpus -> PcType] /\ pc'[c] = r
      /\ \A e \in Cpus \ {c} : pc'[e] = pc[e]
  BY <1>2 DEF IInv, TypeInv
<1>4. pusher' \in [Cpus \cup Tasks -> PusherType] /\ PushInv'
  BY PostScheduleStep DEF PutPrev
<1>5. \A e \in Cpus, q \in Tasks : On(e, q)' <=> On(e, q)
  BY <1>1, <1>2, <1>3 DEF On
<1>6. PlaceInv'
  BY <1>1, <1>2, <1>3, <1>5 DEF IInv, TypeInv, PlaceInv
<1>7. /\ puts' \in [Tasks -> Nat]
      /\ \A q \in Tasks : puts'[q] = IF WillPut(c, q) THEN puts[q] + 1 ELSE puts[q]
  BY <1>1 DEF IInv, TypeInv, WillPut
<1>8. DeadInv'
  <2>1. \A e \in Cpus, q \in Tasks : WillPut(e, q)' => WillPut(e, q) /\ e # c
    BY <1>2, <1>3 DEF WillPut
  <2>2. \A q \in Tasks : state[q] = "dead" /\ Queued(q) =>
          curr'[task_cpu[q]] = q /\ pc'[task_cpu[q]].at = "run"
    BY <1>1, <1>2, <1>3 DEF IInv, TypeInv, DeadInv, DeadOK
  <2>3. \A q \in Tasks : Queued(q)' <=> Queued(q)
    BY <1>1 DEF Queued
  <2>4. ASSUME NEW q \in Tasks
        PROVE  DeadOK(q)'
    <3>1. CASE WillPut(c, q)
      <4>1. state[q] = "dead" /\ ~Queued(q) /\ ~on_cpu[q] /\ task_cpu[q] = c /\ puts[q] = 0
        BY <3>1 DEF IInv, DeadInv, DeadOK
      <4>2. puts'[q] = 1
        BY <1>7, <3>1, <4>1
      <4>3. \A e \in Cpus : ~WillPut(e, q)'
        BY <2>1, <4>1 DEF IInv, DeadInv, DeadOK
      <4> QED BY <1>1, <2>3, <4>1, <4>2, <4>3 DEF DeadOK
    <3>2. CASE ~WillPut(c, q)
      BY <1>1, <1>7, <2>1, <2>2, <2>3, <3>2 DEF IInv, DeadInv, DeadOK
    <3> QED BY <3>1, <3>2
  <2> QED BY <2>4 DEF DeadInv
<1>9. WakeInv'
  BY <1>1, WakeSame DEF IInv
<1>10. MaskInv'
  BY <1>1, MaskSame DEF IInv
<1>11. TypeInv'
  BY <1>1, <1>3, <1>4, <1>7 DEF IInv, TypeInv, wakeVars
<1> QED BY <1>4, <1>6, <1>8, <1>9, <1>10, <1>11 DEF IInv

-----------------------------------------------------------------------------
(* The theorems of this invariant.                                         *)

\* All CPUs idle, all tasks asleep.
LEMMA InitStep ==
  ASSUME Init
  PROVE  IInv
<1>1. TypeInv
  BY SchedSMPAssumption, RunRecord, PushRecords DEF Init, TypeInv, States
<1>2. \A c \in Cpus, p \in Tasks : ~On(c, p) /\ ~WillPut(c, p)
  BY SchedSMPAssumption DEF Init, On, WillPut, At
<1>3. PushInv
  BY PushRecords DEF Init, PushInv
<1>4. \A c \in Cpus : pc[c].at = "run" /\ curr[c] \notin Tasks
  BY SchedSMPAssumption DEF Init, At
<1>5. PlaceInv
  BY <1>1, <1>2, <1>4 DEF Init, PlaceInv, TypeInv
<1>6. \A p \in Tasks : ~Queued(p)
  BY <1>1 DEF Init, Queued, TypeInv
<1>7. WakeInv
  BY <1>6 DEF Init, WakeInv, WakeOK, ListOK
<1>8. DeadInv
  BY <1>2, <1>6 DEF Init, DeadInv, DeadOK
<1>9. MaskInv
  BY DEF Init, MaskInv
<1> QED BY <1>1, <1>3, <1>5, <1>7, <1>8, <1>9 DEF IInv

\* A step that changes nothing.
LEMMA StutterStep ==
  ASSUME IInv, UNCHANGED vars
  PROVE  IInv'
<1>1. TypeInv'
  BY DEF IInv, TypeInv, vars, taskVars, rqVars, wakeVars, history
<1>2. WakeInv' /\ PushInv'
  BY WakeSame, PushSame DEF IInv, vars, taskVars, rqVars
<1>3. PlaceInv' /\ DeadInv' /\ MaskInv'
  BY PlaceSame, DeadSame, MaskSame DEF IInv, vars, taskVars, rqVars, history, placeVars
<1> QED BY <1>1, <1>2, <1>3 DEF IInv

\* The invariant holds from boot on, whatever order the CPUs' steps come in.
THEOREM Inductive == Spec => []IInv
<1>1. Init => IInv
  BY InitStep
<1>2. IInv /\ [Next]_vars => IInv'
  <2> SUFFICES ASSUME IInv, [Next]_vars PROVE IInv'
    OBVIOUS
  <2>1. ASSUME NEW c \in Cpus, NEW p \in Tasks,
               SetState(c, p) \/ TestCondition(c, p) \/ Exit(c, p) \/ sched_ttwu_pending(c, p)
        PROVE  IInv'
    BY <2>1, SetStateStep, TestConditionStep, ExitStep, sched_ttwu_pendingStep
  <2>2. ASSUME NEW c \in Cpus,
               \/ scheduler_ipi(c)
               \/ Schedule(c) \/ PickNext(c) \/ finish_task_switch(c) \/ PutPrev(c)
        PROVE  IInv'
    BY <2>2, scheduler_ipiStep, ScheduleStep, PickNextStep, finish_task_switchStep, PutPrevStep
  <2>3. ASSUME NEW c \in Cpus, NEW d \in Cpus, Pull(c, d)
        PROVE  IInv'
    BY <2>3, PullStep
  <2>4. ASSUME NEW c \in Cpus, NEW w \in stop_work[c], migrate_task(c, w)
        PROVE  IInv'
    BY <2>4, migrate_taskStep
  <2>5. ASSUME NEW p \in Tasks,
               \/ Happens(p) \/ WakeCalled(p) \/ ttwu_remote(p) \/ WaitOnCpu(p)
               \/ ttwu_queue(p) \/ ttwu_queue_remote(p)
        PROVE  IInv'
    BY <2>5, HappensStep, WakeCalledStep, ttwu_remoteStep, WaitOnCpuStep, ttwu_queueStep,
       ttwu_queue_remoteStep
  <2>6. ASSUME NEW p \in Tasks, NEW mask \in Masks, set_cpus_allowed_ptr(p, mask)
        PROVE  IInv'
    BY <2>6, set_cpus_allowed_ptrStep
  <2>7. ASSUME NEW x \in Cpus \cup Tasks, PushPick(x) \/ PushLocked(x)
        PROVE  IInv'
    BY <2>7, PushPickStep, PushLockedStep
  <2>8. CASE UNCHANGED vars
    BY <2>8, StutterStep
  <2> QED BY <2>1, <2>2, <2>3, <2>4, <2>5, <2>6, <2>7, <2>8 DEF Next
<1> QED BY <1>1, <1>2, PTL DEF Spec

\* The types, for any number of CPUs and tasks.
THEOREM TypeCorrect == Spec => []TypeOK
<1>1. IInv => TypeOK
  <2> SUFFICES ASSUME IInv PROVE TypeOK
    OBVIOUS
  <2>1. puts \in [Tasks -> 0 .. 1]
    BY DEF IInv, TypeInv, DeadInv, DeadOK
  <2> QED BY <2>1 DEF IInv, TypeInv, TypeOK, States, PcType, PusherType, WorkType
<1> QED BY <1>1, Inductive, PTL

\* The CPUs on the stack of a task are its task_cpu or none.
LEMMA StackIsOne ==
  ASSUME IInv, NEW p \in Tasks
  PROVE  /\ OnStack(p) = {} \/ OnStack(p) = {task_cpu[p]}
         /\ on_cpu[p] <=> OnStack(p) # {}
<1>1. task_cpu[p] \in Cpus
  BY DEF IInv, TypeInv
<1>2. \A c \in Cpus : c \in OnStack(p) <=> On(c, p)
  BY DEF OnStack, On
<1>3. OnStack(p) \subseteq Cpus
  BY DEF OnStack
<1>4. /\ \A c \in Cpus : On(c, p) => task_cpu[p] = c
      /\ on_cpu[p] <=> On(task_cpu[p], p)
  BY DEF IInv, PlaceInv
<1> QED BY <1>1, <1>2, <1>3, <1>4

\* Two CPUs never have a task at a time, wherever wake-ups, pushes, pulls and
\* migrations meet.
THEOREM NeverOnTwoCpus == Spec => []OneCpuAtATime
<1>1. IInv => OneCpuAtATime
  <2> SUFFICES ASSUME IInv, NEW p \in Tasks
               PROVE  /\ \A c \in Cpus : p \in queue[c] => task_cpu[p] = c
                      /\ Cardinality(OnStack(p)) <= 1
                      /\ on_cpu[p] <=> OnStack(p) # {}
    BY DEF OneCpuAtATime
  <2>1. \A c \in Cpus : p \in queue[c] => task_cpu[p] = c
    BY DEF IInv, PlaceInv
  <2>2. Cardinality({}) = 0
    BY FS_EmptySet
  <2>3. Cardinality({task_cpu[p]}) = 1
    BY FS_Singleton
  <2>4. Cardinality(OnStack(p)) <= 1
    BY <2>2, <2>3, StackIsOne
  <2> QED BY <2>1, <2>4, StackIsOne
<1> QED BY <1>1, Inductive, PTL

\* Whoever sleeps for what has happened has a waker, or an interrupt to come.
THEOREM NoneSleepsOn == Spec => []NoLostWakeup
<1>1. IInv => NoLostWakeup
  <2> SUFFICES ASSUME IInv, NEW p \in Tasks, cond[p], ~OnRq(p), state[p] # "dead", waker[p] = "no"
               PROVE  \E c \in Cpus : p \in pending[c] \/ (p \in wake_list[c] /\ ipi[c])
    BY DEF NoLostWakeup
  <2>1. ~Queued(p)
    BY OnRqIsQueued DEF IInv
  <2>2. WakeOK(p) /\ task_cpu[p] \in Cpus
    BY DEF IInv, WakeInv, TypeInv
  <2>3. p \in wake_list[task_cpu[p]] \/ p \in pending[task_cpu[p]]
    BY <2>1, <2>2 DEF WakeOK
  <2> QED BY <2>2, <2>3 DEF IInv, WakeInv, ListOK
<1> QED BY <1>1, Inductive, PTL

\* The last reference of a dead task is not dropped twice, nor while it runs.
THEOREM DeadArePutOnce == Spec => []DeadPutOnce
<1>1. IInv => DeadPutOnce
  <2> SUFFICES ASSUME IInv, NEW p \in Tasks, puts[p] > 0
               PROVE  puts[p] = 1 /\ OnStack(p) = {} /\ ~OnRq(p)
    BY DEF DeadPutOnce
  <2>1. puts[p] = 1 /\ ~Queued(p) /\ ~on_cpu[p]
    BY DEF IInv, TypeInv, DeadInv, DeadOK
  <2> QED BY <2>1, StackIsOne, OnRqIsQueued DEF IInv
<1> QED BY <1>1, Inductive, PTL

\* The affinity is kept, but for the one race that the property names.
THEOREM AffinityKept == Spec => []OnlyWakeListStrays
<1>1. IInv => OnlyWakeListStrays
  BY DEF IInv, TypeInv, MaskInv, OnlyWakeListStrays
<1> QED BY <1>1, Inductive, PTL

-----------------------------------------------------------------------------
(* Who is the most urgent.                                                 *)

\* A priority that is held by some is the least of some.
LEMMA MinIs ==
  ASSUME NEW T \in SUBSET Nat, T # {}
  PROVE  Min(T) \in T /\ \A y \in T : Min(T) <= y
<1> DEFINE R == OpToRel(<, Nat)
<1>1. IsWellFoundedOn(R, Nat)
  BY NatLessThanWellFounded
<1>2. \A x, y \in Nat : <<y, x>> \in R <=> y < x
  BY DEF OpToRel
<1> HIDE DEF R
<1>3. PICK x \in T : \A y \in T : ~(<<y, x>> \in R)
  BY <1>1, WFMin
<1>4. \A y \in T : ~(y < x) /\ x \in Nat /\ y \in Nat
  BY <1>2, <1>3
<1>5. \A y \in T : x <= y
  BY <1>4
<1> QED BY <1>5 DEF Min

\* MinPrio is the priority of the most urgent, and IdlePrio if there is none.
LEMMA MinPrioIs ==
  ASSUME NEW S \in SUBSET Tasks
  PROVE  /\ MinPrio(S) \in 1 .. IdlePrio
         /\ \A p \in S : PrioOf(p) = Prio[p] /\ MinPrio(S) <= Prio[p]
         /\ S = {} => MinPrio(S) = IdlePrio
         /\ S # {} => \E p \in S : Prio[p] = MinPrio(S)
<1> DEFINE T == {PrioOf(p) : p \in S} \cup {IdlePrio}
<1>1. \A p \in S : PrioOf(p) = Prio[p] /\ Prio[p] \in 1 .. IdlePrio - 1
  BY SchedSMPAssumption DEF PrioOf
<1>2. T \in SUBSET (1 .. IdlePrio)
  BY <1>1 DEF IdlePrio
<1>4. MinPrio(S) = Min(T)
  BY DEF MinPrio
<1>5. IdlePrio \in T /\ \A p \in S : Prio[p] \in T
  BY <1>1
<1>6. \A x \in T : x = IdlePrio \/ \E p \in S : Prio[p] = x
  BY <1>1
<1> HIDE DEF T
<1>3. Min(T) \in T /\ \A y \in T : Min(T) <= y
  <2>1. T \in SUBSET Nat /\ T # {}
    BY <1>2, <1>5 DEF IdlePrio
  <2> QED BY <2>1, MinIs
<1>7. S = {} => MinPrio(S) = IdlePrio
  BY <1>3, <1>4, <1>6
<1>8. ASSUME S # {}
      PROVE  \E p \in S : Prio[p] = MinPrio(S)
  <2>1. PICK p \in S : Prio[p] < IdlePrio /\ Prio[p] \in T
    BY <1>1, <1>5, <1>8 DEF IdlePrio
  <2>2. Min(T) # IdlePrio
    <3>1. Min(T) <= Prio[p] /\ Prio[p] \in 1 .. IdlePrio
      BY <1>2, <1>3, <2>1
    <3> QED BY <2>1, <3>1 DEF IdlePrio
  <2> QED BY <1>3, <1>4, <1>6, <2>2
<1>9. MinPrio(S) \in 1 .. IdlePrio
  BY <1>2, <1>3, <1>4
<1> QED BY <1>1, <1>3, <1>4, <1>5, <1>7, <1>8, <1>9

\* The most urgent are those of that priority, and there are some.
LEMMA UrgentIs ==
  ASSUME NEW S \in SUBSET Tasks
  PROVE  /\ S # {} => Urgent(S) # {}
         /\ \A p \in Urgent(S) : p \in S /\ Prio[p] = MinPrio(S) /\ \A q \in S : Prio[p] <= Prio[q]
BY MinPrioIs DEF Urgent

\* Who comes can only be more urgent, and who goes leaves the less urgent.
LEMMA MinPrioMonotone ==
  ASSUME NEW S \in SUBSET Tasks, NEW T \in SUBSET Tasks, S \subseteq T
  PROVE  MinPrio(T) <= MinPrio(S)
BY MinPrioIs DEF IdlePrio

\* Without p nothing is less urgent, if what is left is as urgent.
LEMMA MinPrioWithout ==
  ASSUME NEW S \in SUBSET Tasks, NEW p \in S, MinPrio(S \ {p}) <= Prio[p]
  PROVE  MinPrio(S \ {p}) = MinPrio(S)
<1>1. S \ {p} \in SUBSET Tasks
  OBVIOUS
<1>2. MinPrio(S) <= MinPrio(S \ {p})
  BY <1>1, MinPrioMonotone
<1>3. PICK q \in S : Prio[q] = MinPrio(S)
  BY MinPrioIs
<1>4. MinPrio(S \ {p}) <= Prio[q]
  BY <1>1, MinPrioIs
<1> DEFINE m == MinPrio(S)  n == MinPrio(S \ {p})
<1>5. m \in 1 .. IdlePrio /\ n \in 1 .. IdlePrio
  BY <1>1, MinPrioIs
<1>6. m <= n /\ n <= m
  BY <1>2, <1>3, <1>4
<1> HIDE DEF m, n
<1>7. n = m
  BY <1>5, <1>6 DEF IdlePrio
<1> QED BY <1>7 DEF m, n

\* And with p, if it was not more urgent.
LEMMA MinPrioWith ==
  ASSUME NEW S \in SUBSET Tasks, NEW p \in Tasks
  PROVE  MinPrio(S \cup {p}) = MinPrio(S) \/ MinPrio(S \cup {p}) = Prio[p]
<1>1. S \cup {p} \in SUBSET Tasks
  OBVIOUS
<1>2. MinPrio(S \cup {p}) <= MinPrio(S)
  BY <1>1, MinPrioMonotone
<1>3. PICK q \in S \cup {p} : Prio[q] = MinPrio(S \cup {p})
  BY <1>1, MinPrioIs
<1>4. q # p => MinPrio(S) <= Prio[q]
  BY MinPrioIs
<1> DEFINE m == MinPrio(S)  n == MinPrio(S \cup {p})
<1>5. m \in 1 .. IdlePrio /\ n \in 1 .. IdlePrio
  BY <1>1, MinPrioIs
<1>6. n <= m /\ (n = Prio[p] \/ m <= n)
  BY <1>2, <1>3, <1>4
<1> HIDE DEF m, n
<1>7. n = m \/ n = Prio[p]
  BY <1>5, <1>6 DEF IdlePrio
<1> QED BY <1>7 DEF m, n

\* The priority of a CPU is that of its queue, before a step and after it.
LEMMA HighestIs ==
  \A c \in Cpus : Highest(c) = MinPrio(queue[c]) /\ Highest(c)' = MinPrio(queue'[c])
<1>1. \A c \in Cpus : Highest(c) = MinPrio(queue[c])
  BY DEF Highest
<1>2. \A c \in Cpus : Highest(c)' = MinPrio(queue'[c])
  BY DEF Highest, MinPrio, PrioOf
<1> QED BY <1>1, <1>2

\* Two CPUs are all there are.
LEMMA TwoCpus ==
  ASSUME Cardinality(Cpus) <= 2, NEW c \in Cpus, NEW d \in Cpus, c # d
  PROVE  Cpus = {c, d} /\ Cardinality(Cpus) = 2
<1>1. IsFiniteSet({c}) /\ Cardinality({c}) = 1
  BY FS_Singleton
<1>2. IsFiniteSet({c, d}) /\ Cardinality({c, d}) = 2
  <2>1. {c, d} = {c} \cup {d}
    OBVIOUS
  <2>2. IsFiniteSet({c} \cup {d}) /\ Cardinality({c} \cup {d}) = Cardinality({c}) + 1
    BY <1>1, FS_AddElement
  <2> QED BY <1>1, <2>1, <2>2
<1>3. IsFiniteSet(Cpus) /\ Cardinality(Cpus) \in Nat
  BY SchedSMPAssumption, FS_CardinalityType
<1>4. {c, d} \subseteq Cpus
  OBVIOUS
<1>5. Cardinality({c, d}) <= Cardinality(Cpus) /\ (Cardinality(Cpus) = Cardinality({c, d}) => Cpus = {c, d})
  BY <1>3, <1>4, FS_Subset
<1> QED BY <1>2, <1>3, <1>5

\* A queue with two tasks has more than one.
LEMMA TwoQueued ==
  ASSUME NEW S \in SUBSET Tasks, NEW p \in S, NEW q \in S, p # q
  PROVE  Cardinality(S) > 1
<1>1. IsFiniteSet(S) /\ Cardinality(S) \in Nat
  BY SchedSMPAssumption, FS_Subset, FS_CardinalityType
<1>2. IsFiniteSet({p}) /\ Cardinality({p}) = 1
  BY FS_Singleton
<1>3. Cardinality({p}) <= Cardinality(S) /\ (Cardinality(S) = Cardinality({p}) => S = {p})
  BY <1>1, FS_Subset
<1> QED BY <1>1, <1>2, <1>3

-----------------------------------------------------------------------------
(* No task is left behind.  Where one waits that another CPU could run at  *)
(* once, something is under way that will see it; the invariant says what. *)

\* The CPU is in __schedule and has not picked yet.
Picks(c) == pc[c].at \in {"pull", "pick"}

CurrPrio(c) == PrioOf(curr[c])

\* The CPU runs the most urgent of its tasks, or will pick.
PreemptOK(c) == CurrPrio(c) > Highest(c) => need_resched[c] \/ Picks(c)

\* A push from c is under way.
Pushing(c) == \E x \in Cpus \cup Tasks : pusher[x].at # "no" /\ pusher[x].rq = c

\* Somebody will look what of c's tasks could run on d: c itself when it has
\* picked, who pushes from it, or d when it pulls.
Obliged(c, d) ==
  \/ need_resched[c] \/ Picks(c)
  \/ pc[c].at \in {"switch", "put"} /\ pc[c].post
  \/ pc[d].at = "pull" /\ c \in pc[d].todo
  \/ Pushing(c)

\* A task that is not running on c is not left behind there by d.
LeftOK(c, d) ==
  \A p \in queue[c] : p # curr[c] /\ Highest(d) > Prio[p] => Obliged(c, d)

\* A CPU is in one function at a time, and so is a waker; nobody pushes to, or
\* pulls from, where he is.
OneCallInv ==
  /\ \A c \in Cpus : pc[c].at # "run" => pusher[c].at = "no" /\ pending[c] = {}
  /\ \A p \in Tasks : waker[p] \notin {"no", "call"} => pusher[p].at = "no"
  /\ \A x \in Cpus \cup Tasks : pusher[x].at = "lock" => pusher[x].dest # pusher[x].rq
  /\ \A c \in Cpus : pc[c].at = "pull" => c \notin pc[c].todo

\* While no affinity has been changed, the stopper has nothing to do.
HomeInv ==
  /\ \A p \in Tasks : allowed[p] = Cpus
  /\ \A c \in Cpus : stop_work[c] = {} /\ curr[c] # Stop

OffersInv ==
  /\ HomeInv
  /\ \A c \in Cpus : PreemptOK(c)
  /\ \A c, d \in Cpus : c # d => LeftOK(c, d)

LeftInv == OneCallInv /\ (masked = 0 => OffersInv)

-----------------------------------------------------------------------------
(* What the steps have in common.                                          *)

\* The priorities of a CPU are priorities.
LEMMA HighestOf ==
  ASSUME TypeInv, NEW c \in Cpus
  PROVE  /\ Highest(c) \in 1 .. IdlePrio
         /\ \A p \in queue[c] : p \in Tasks /\ Highest(c) <= Prio[p] /\ Prio[p] \in 1 .. IdlePrio - 1
<1>1. queue[c] \in SUBSET Tasks
  BY DEF TypeInv
<1> QED BY <1>1, HighestIs, MinPrioIs, SchedSMPAssumption

\* So are those of who runs on it.
LEMMA CurrPrioIs ==
  ASSUME TypeInv, HomeInv, NEW c \in Cpus
  PROVE  /\ CurrPrio(c) \in 1 .. IdlePrio
         /\ curr[c] \in Tasks => CurrPrio(c) = Prio[curr[c]]
         /\ curr[c] \notin Tasks => curr[c] = Idle /\ CurrPrio(c) = IdlePrio
BY SchedSMPAssumption DEF TypeInv, HomeInv, CurrPrio, PrioOf, IdlePrio

\* Priorities are numbers.
LEMMA PrioOrder ==
  /\ \A n \in 1 .. IdlePrio : n \in Int /\ n <= n
  /\ \A n \in 1 .. IdlePrio - 1 : n \in 1 .. IdlePrio /\ n # IdlePrio
  /\ \A h, m \in 1 .. IdlePrio : (h <= m <=> ~(h > m)) /\ (m < h <=> h > m)
  /\ \A h, m, n \in 1 .. IdlePrio : (h > n /\ m <= n => h > m) /\ (h > n /\ h <= m => m > n)
<1>1. \A n \in 1 .. IdlePrio : n \in Int
  BY DEF IdlePrio
<1>2. \A n \in 1 .. IdlePrio - 1 : n \in 1 .. IdlePrio /\ n # IdlePrio
  BY DEF IdlePrio
<1>3. \A h, m, n \in Int : (h > n /\ m <= n => h > m) /\ (h > n /\ h <= m => m > n)
  OBVIOUS
<1>4. \A h, m \in Int : (h <= m <=> ~(h > m)) /\ (m < h <=> h > m) /\ h <= h
  OBVIOUS
<1> QED BY <1>1, <1>2, <1>3, <1>4

\* A step may change what a definition looks at, or not.
LEMMA CurrPrioNext == \A c \in Cpus : CurrPrio(c)' = PrioOf(curr'[c])
BY DEF CurrPrio, PrioOf

\* With two CPUs every task that may run anywhere can be moved.
LEMMA AllMigratory ==
  ASSUME Cardinality(Cpus) <= 2, HomeInv, NEW c \in Cpus, NEW d \in Cpus, c # d
  PROVE  /\ Cpus = {c, d}
         /\ \A p \in Tasks : Migratory(p) /\ allowed[p] = {c, d}
BY TwoCpus DEF HomeInv, Migratory

\* A CPU with one task runs it, or will pick.
LEMMA OneTaskRuns ==
  ASSUME IInv, HomeInv, NEW c \in Cpus, PreemptOK(c),
         NEW p \in queue[c], p # curr[c], ~(Cardinality(queue[c]) > 1)
  PROVE  need_resched[c] \/ Picks(c)
<1>1. queue[c] \in SUBSET Tasks /\ pc[c] \in PcType
  BY DEF IInv, TypeInv
<1>2. CASE curr[c] \in queue[c]
  BY <1>1, <1>2, TwoQueued
<1>3. CASE pc[c].at \in {"run", "switch", "put"} /\ curr[c] \notin queue[c]
  <2>1. curr[c] \notin Tasks
    BY <1>3 DEF IInv, PlaceInv
  <2>2. CurrPrio(c) = IdlePrio
    BY <2>1, CurrPrioIs DEF IInv
  <2>3. Highest(c) <= Prio[p] /\ Prio[p] \in 1 .. IdlePrio - 1 /\ Highest(c) \in 1 .. IdlePrio
    BY HighestOf DEF IInv
  <2>4. \A h, k, i \in Int : h <= k /\ k <= i - 1 => i > h
    OBVIOUS
  <2>5. CurrPrio(c) > Highest(c)
    BY <2>2, <2>3, <2>4 DEF IdlePrio
  <2> QED BY <2>5 DEF PreemptOK
<1> QED BY <1>1, <1>2, <1>3 DEF PcType, Picks

\* With nothing changed but for what only looks, everything is as it was.
LEMMA OffersSame ==
  ASSUME OffersInv, UNCHANGED << queue, curr, need_resched, pc, pusher, allowed, stop_work >>
  PROVE  OffersInv'
<1>1. \A c \in Cpus : Highest(c)' = Highest(c) /\ CurrPrio(c)' = CurrPrio(c)
  BY HighestIs, CurrPrioNext DEF CurrPrio
<1>2. \A c \in Cpus : Picks(c)' = Picks(c) /\ Pushing(c)' = Pushing(c)
  BY DEF Picks, Pushing
<1>3. \A c \in Cpus : PreemptOK(c)'
  BY <1>1, <1>2 DEF OffersInv, PreemptOK
<1>4. \A c, d \in Cpus : Obliged(c, d)' <=> Obliged(c, d)
  BY <1>2 DEF Obliged
<1>5. \A c, d \in Cpus : c # d => LeftOK(c, d)'
  BY <1>1, <1>4 DEF OffersInv, LeftOK
<1> QED BY <1>3, <1>5 DEF OffersInv, HomeInv

\* What is left behind in c by d after a step was so before.
LEMMA LeftKept ==
  ASSUME TypeInv, NEW c \in Cpus, NEW d \in Cpus, LeftOK(c, d),
         \A p \in queue'[c] : p # curr'[c] => p \in queue[c] /\ p # curr[c],
         Highest(d)' <= Highest(d), Highest(d)' \in 1 .. IdlePrio,
         Obliged(c, d) => Obliged(c, d)'
  PROVE  LeftOK(c, d)'
<1> SUFFICES ASSUME NEW p \in queue'[c], p # curr'[c], Highest(d)' > Prio[p]
             PROVE  Obliged(c, d)'
  BY DEF LeftOK
<1>1. p \in queue[c] /\ p # curr[c]
  OBVIOUS
<1>2. Prio[p] \in 1 .. IdlePrio - 1 /\ Highest(d) \in 1 .. IdlePrio
  BY <1>1, HighestOf
<1>3. Highest(d) > Prio[p]
  BY <1>2, PrioOrder
<1> QED BY <1>1, <1>3 DEF LeftOK

\* The record of a push that begins.
LEMMA PushIs == \A c : Push(c).at = "pick" /\ Push(c).rq = c
BY DEF Push, NotPushing

\* What becomes of the record of a push that has found what and where to.
LEMMA PushToIs ==
  ASSUME TypeInv, NEW x \in Cpus \cup Tasks, NEW p, NEW d, PushTo(x, p, d)
  PROVE  /\ \A y \in (Cpus \cup Tasks) \ {x} : pusher'[y] = pusher[y]
         /\ pusher'[x].at = "lock" /\ pusher'[x].rq = pusher[x].rq
         /\ pusher'[x].task = p /\ pusher'[x].dest = d
BY DEF PushTo, TypeInv, PusherType

\* Of the CPU that pulls.
LEMMA PullIs ==
  ASSUME TypeInv, NEW c \in Cpus, NEW d \in Cpus, Pull(c, d)
  PROVE  /\ \A y \in Cpus \ {c} : pc'[y] = pc[y]
         /\ pc'[c].at \in {"pull", "pick"} /\ pc'[c].todo = pc[c].todo \ {d}
<1>1. pc[c] \in PcType /\ pc \in [Cpus -> PcType]
  BY DEF TypeInv
<1>2. pc' = [pc EXCEPT ![c].todo = @ \ {d}, ![c].at = IF pc[c].todo = {d} THEN "pick" ELSE @] /\ pc[c].at = "pull"
  BY DEF Pull
<1>3. \A y \in Cpus \ {c} : pc'[y] = pc[y]
  BY <1>1, <1>2
<1> DEFINE r == IF pc[c].todo = {d} THEN "pick" ELSE pc[c].at
<1>4. pc'[c] = [pc[c] EXCEPT !.todo = @ \ {d}, !.at = r]
  BY <1>1, <1>2
<1>5. r \in {"pull", "pick"}
  BY <1>2
<1> HIDE DEF r
<1>6. pc'[c].at = r /\ pc'[c].todo = pc[c].todo \ {d}
  BY <1>1, <1>4 DEF PcType
<1> QED BY <1>3, <1>5, <1>6

\* Of the CPU that picks, and what it will push.
LEMMA SwitchEffect ==
  ASSUME TypeInv, NEW c \in Cpus, NEW prev, SwitchFrom(c, prev)
  PROVE \E next \in IF stop_work[c] # {} THEN {Stop}
                 ELSE IF queue'[c] = {} THEN {Idle} ELSE Urgent(queue'[c]), post \in BOOLEAN :
     /\ post <=> (next # Stop /\ \E p \in queue'[c] \ {next} : Migratory(p))
     /\ curr' = [curr EXCEPT ![c] = next]
     /\ \A e \in Cpus \ {c} : pc'[e] = pc[e]
     /\ \/ /\ pc'[c].at = "run"
           /\ pusher' = [pusher EXCEPT ![c] = IF post THEN Push(c) ELSE @]
        \/ pc'[c].at = "switch" /\ pc'[c].post = post /\ UNCHANGED pusher
<1>1. PICK next \in IF stop_work[c] # {} THEN {Stop}
                    ELSE IF queue'[c] = {} THEN {Idle} ELSE Urgent(queue'[c]) :
       LET post == next # Stop /\ \E p \in queue'[c] \ {next} : Migratory(p) IN
       /\ curr' = [curr EXCEPT ![c] = next]
       /\ IF next = prev
          THEN /\ pc' = [pc EXCEPT ![c] = At("run")]
               /\ pusher' = [pusher EXCEPT ![c] = IF post THEN Push(c) ELSE @]
          ELSE /\ pc' = [pc EXCEPT ![c] = [At("switch") EXCEPT !.prev = prev, !.post = post]]
               /\ UNCHANGED pusher
  BY Zenon DEF SwitchFrom
<1> DEFINE post == next # Stop /\ \E p \in queue'[c] \ {next} : Migratory(p)
<1>2. post \in BOOLEAN
  OBVIOUS
<1>3. /\ curr' = [curr EXCEPT ![c] = next]
      /\ \/ /\ pc' = [pc EXCEPT ![c] = At("run")]
            /\ pusher' = [pusher EXCEPT ![c] = IF post THEN Push(c) ELSE @]
         \/ pc' = [pc EXCEPT ![c] = [At("switch") EXCEPT !.prev = prev, !.post = post]] /\ UNCHANGED pusher
  BY <1>1, Zenon
<1>4. post <=> (next # Stop /\ \E p \in queue'[c] \ {next} : Migratory(p))
  OBVIOUS
<1> HIDE DEF post
<1>5. /\ At("run").at = "run"
      /\ [At("switch") EXCEPT !.prev = prev, !.post = post].at = "switch"
      /\ [At("switch") EXCEPT !.prev = prev, !.post = post].post = post
  BY DEF At
<1>6. \A e \in Cpus \ {c} : pc'[e] = pc[e]
  BY <1>3 DEF TypeInv
<1>7. \/ /\ pc'[c].at = "run"
           /\ pusher' = [pusher EXCEPT ![c] = IF post THEN Push(c) ELSE @]
      \/ pc'[c].at = "switch" /\ pc'[c].post = post /\ UNCHANGED pusher
  BY <1>3, <1>5 DEF TypeInv
<1> QED BY <1>2, <1>3, <1>4, <1>6, <1>7

\* The priorities of a CPU after a step.
LEMMA HighestAfter ==
  ASSUME TypeInv', NEW c \in Cpus
  PROVE  /\ Highest(c)' = MinPrio(queue'[c]) /\ Highest(c)' \in 1 .. IdlePrio
         /\ \A p \in queue'[c] : p \in Tasks /\ Highest(c)' <= Prio[p] /\ Prio[p] \in 1 .. IdlePrio - 1
<1>1. queue'[c] \in SUBSET Tasks
  BY DEF TypeInv
<1> QED BY <1>1, HighestIs, MinPrioIs, SchedSMPAssumption

-----------------------------------------------------------------------------
(* Wake-ups.                                                               *)

\* A step that moves nobody.
LEMMA LookStep ==
  ASSUME LeftInv, OneCallInv',
         UNCHANGED << queue, curr, need_resched, pc, pusher, allowed, stop_work, masked >>
  PROVE  LeftInv'
BY OffersSame DEF LeftInv

\* Who begins a push had none under way.
LEMMA WokenCall ==
  ASSUME IInv, LeftInv, NEW p \in Tasks, NEW c \in Cpus, NEW x \in Cpus \cup Tasks,
         ttwu_do_wakeup(p, c, x), pusher[x].at = "no",
         UNCHANGED pc,
         x \in Cpus => pc[x].at = "run",
         x \in Tasks => waker'[x] = "no",
         \A e \in Cpus : pending[e] = {} => pending'[e] = {},
         \A q \in Tasks : waker'[q] \notin {"no", "call"} => waker[q] \notin {"no", "call"}
  PROVE  OneCallInv'
<1>1. pusher' = [pusher EXCEPT ![x] = IF WokenPushes(p, c) THEN Push(c) ELSE @]
  BY DEF ttwu_do_wakeup
<1>2. /\ \A y \in (Cpus \cup Tasks) \ {x} : pusher'[y] = pusher[y]
      /\ pusher'[x].at \in {"no", "pick"}
  BY <1>1, PushIs DEF IInv, TypeInv
<1> QED BY <1>2 DEF LeftInv, OneCallInv

\* Who has woken a task pushes, unless it will run here at once.
LEMMA WokenStep ==
  ASSUME IInv, IInv', LeftInv, masked = 0, Cardinality(Cpus) <= 2,
         NEW p \in Tasks, NEW c \in Cpus, NEW x \in Cpus \cup Tasks,
         ttwu_do_wakeup(p, c, x), pusher[x].at = "no",
         \/ UNCHANGED queue
         \/ queue' = [queue EXCEPT ![c] = @ \cup {p}] /\ ~on_cpu[p],
         UNCHANGED << curr, pc, allowed, stop_work >>
  PROVE  OffersInv'
<1>1. OffersInv /\ HomeInv
  BY DEF LeftInv, OffersInv
<1>2. /\ need_resched' = [need_resched EXCEPT ![c] = @ \/ Preempts(p, c)]
      /\ pusher' = [pusher EXCEPT ![x] = IF WokenPushes(p, c) THEN Push(c) ELSE @]
  BY DEF ttwu_do_wakeup
<1>3. /\ \A y \in (Cpus \cup Tasks) \ {x} : pusher'[y] = pusher[y]
      /\ WokenPushes(p, c) => pusher'[x].at # "no" /\ pusher'[x].rq = c
  BY <1>2, PushIs DEF IInv, TypeInv
<1>4. \A e \in Cpus : Pushing(e) => Pushing(e)'
  BY <1>3 DEF Pushing
<1>5. /\ \A e \in Cpus : need_resched[e] => need_resched'[e]
      /\ Preempts(p, c) => need_resched'[c]
  BY <1>2 DEF IInv, TypeInv
<1>6. \A e \in Cpus : Picks(e)' = Picks(e) /\ CurrPrio(e)' = CurrPrio(e)
  BY CurrPrioNext DEF Picks, CurrPrio
<1>7. \A e, d \in Cpus : Obliged(e, d) => Obliged(e, d)'
  BY <1>4, <1>5, <1>6 DEF Obliged
<1>8. \A e \in Cpus : /\ queue'[e] = queue[e] \/ (e = c /\ queue'[e] = queue[e] \cup {p} /\ ~on_cpu[p])
                      /\ queue[e] \in SUBSET Tasks /\ queue'[e] \in SUBSET Tasks
  BY DEF IInv, TypeInv
<1>9. \A e \in Cpus : Highest(e)' <= Highest(e) /\ Highest(e)' \in 1 .. IdlePrio
  BY <1>8, HighestIs, HighestAfter, MinPrioMonotone DEF IInv
<1>10. CurrPrio(c) > Prio[p] => need_resched'[c]
  BY <1>5 DEF Preempts, CurrPrio
<1>11. ASSUME NEW e \in Cpus
       PROVE  PreemptOK(e)'
  <2>1. PreemptOK(e)
    BY <1>1 DEF OffersInv
  <2>2. Highest(e)' = Highest(e) \/ (e = c /\ Highest(e)' = Prio[p])
    BY <1>8, HighestIs, MinPrioWith
  <2> QED BY <1>5, <1>6, <1>10, <2>1, <2>2 DEF PreemptOK
<1>12. ASSUME NEW e \in Cpus, NEW d \in Cpus, e # d
       PROVE  LeftOK(e, d)'
  <2>1. LeftOK(e, d)
    BY <1>1, <1>12 DEF OffersInv
  <2>2. CASE queue'[e] = queue[e]
    BY <1>7, <1>9, <2>1, <2>2, LeftKept DEF IInv
  <2>3. CASE e = c /\ queue'[c] = queue[c] \cup {p} /\ ~on_cpu[p]
    <3> SUFFICES ASSUME ~Obliged(c, d)'
                 PROVE  LeftOK(c, d)'
      BY <2>3 DEF LeftOK
    <3>1. ~need_resched'[c] /\ ~Pushing(c)'
      BY DEF Obliged
    <3>2. ~WokenPushes(p, c)
      BY <1>3, <3>1 DEF Pushing
    <3>3. Migratory(p)
      BY <1>1, <1>12, AllMigratory
    <3>4. ~(CurrPrio(c) > Prio[p]) /\ Prio[p] \in 1 .. IdlePrio - 1 /\ CurrPrio(c) \in 1 .. IdlePrio
      BY <1>1, <1>10, <3>1, CurrPrioIs, SchedSMPAssumption DEF IInv
    <3>5. CurrPrio(c) <= Prio[p] /\ CurrPrio(c) # IdlePrio
      BY <3>4, PrioOrder
    <3>6. curr[c] \in Tasks
      BY <1>1, <3>5, CurrPrioIs DEF IInv
    <3>7. WokenPushes(p, c)
      BY <2>3, <3>1, <3>3, <3>5, <3>6 DEF WokenPushes, CurrPrio
    <3> QED BY <3>2, <3>7
  <2> QED BY <1>8, <2>2, <2>3
<1> QED BY <1>1, <1>11, <1>12 DEF OffersInv, HomeInv

\* The steps of tasks and wakers that move nobody.
LEMMA TaskLooksLeft ==
  ASSUME LeftInv, NEW c \in Cpus, NEW p \in Tasks,
         SetState(c, p) \/ TestCondition(c, p) \/ Exit(c, p)
  PROVE  LeftInv'
<1>1. UNCHANGED << waker, rqVars, pc, pusher, allowed, wakeVars, stop_work, history >>
  BY DEF SetState, TestCondition, Exit
<1>2. OneCallInv'
  BY <1>1 DEF LeftInv, OneCallInv, wakeVars
<1> QED BY <1>1, <1>2, LookStep DEF rqVars, history

\* A waker that takes the pi_lock has no push under way.
LEMMA WakerLooksLeft ==
  ASSUME IInv, LeftInv, NEW p \in Tasks,
         Happens(p) \/ WakeCalled(p) \/ WaitOnCpu(p) \/ ttwu_queue_remote(p)
  PROVE  LeftInv'
<1>1. UNCHANGED << rqVars, pc, pusher, allowed, pending, stop_work, masked >>
  BY DEF Happens, WakeCalled, WaitOnCpu, ttwu_queue_remote, taskVars, wakeVars, history
<1>2. \A q \in Tasks : waker'[q] \notin {"no", "call"} =>
        waker[q] \notin {"no", "call"} \/ pusher[q].at = "no"
  BY DEF Happens, WakeCalled, PiLocked, WaitOnCpu, ttwu_queue_remote, IInv, TypeInv
<1>3. OneCallInv'
  BY <1>1, <1>2 DEF LeftInv, OneCallInv
<1> QED BY <1>1, <1>3, LookStep DEF rqVars

\* The interrupt comes when the CPU is not in __schedule.
LEMMA scheduler_ipiLeft ==
  ASSUME IInv, LeftInv, NEW c \in Cpus, scheduler_ipi(c)
  PROVE  LeftInv'
<1>1. /\ UNCHANGED << waker, rqVars, pc, pusher, allowed, stop_work, history >>
      /\ pc[c].at = "run" /\ \A e \in Cpus \ {c} : pending'[e] = pending[e]
  BY DEF scheduler_ipi, taskVars, IInv, TypeInv
<1>2. OneCallInv'
  BY <1>1 DEF LeftInv, OneCallInv
<1> QED BY <1>1, <1>2, LookStep DEF rqVars, history

\* The waker of a task has woken it, which is on c already or comes there.
LEMMA WakerLeft ==
  ASSUME IInv, IInv', LeftInv, Cardinality(Cpus) <= 2, NEW p \in Tasks, NEW c \in Cpus,
         waker[p] \notin {"no", "call"}, waker' = [waker EXCEPT ![p] = "no"],
         ttwu_do_wakeup(p, c, p),
         \/ UNCHANGED queue
         \/ queue' = [queue EXCEPT ![c] = @ \cup {p}] /\ ~on_cpu[p],
         UNCHANGED << allowed, curr, pc, pending, stop_work, masked >>
  PROVE  LeftInv'
<1>1. pusher[p].at = "no" /\ p \in Cpus \cup Tasks /\ p \notin Cpus
  BY SchedSMPAssumption DEF LeftInv, OneCallInv
<1>2. waker'[p] = "no" /\ \A q \in Tasks \ {p} : waker'[q] = waker[q]
  BY DEF IInv, TypeInv
<1>3. OneCallInv'
  BY <1>1, <1>2, WokenCall
<1>4. masked = 0 => OffersInv'
  BY <1>1, WokenStep
<1> QED BY <1>3, <1>4 DEF LeftInv

\* A task that is still queued is marked; the push sees what else there is.
LEMMA ttwu_remoteLeft ==
  ASSUME IInv, IInv', LeftInv, Cardinality(Cpus) <= 2, NEW p \in Tasks, ttwu_remote(p)
  PROVE  LeftInv'
<1>1. /\ waker[p] = "remote" /\ task_cpu[p] \in Cpus
      /\ UNCHANGED << allowed, queue, curr, pc, wakeVars, stop_work, history >>
  BY DEF ttwu_remote, IInv, TypeInv
<1>2. CASE ttwu_do_wakeup(p, task_cpu[p], p) /\ waker' = [waker EXCEPT ![p] = "no"]
  BY <1>1, <1>2, WakerLeft DEF wakeVars, history
<1>3. CASE waker' = [waker EXCEPT ![p] = "on_cpu"] /\ UNCHANGED << need_resched, state, pusher >>
  <2>1. \A q \in Tasks : waker'[q] \notin {"no", "call"} => waker[q] \notin {"no", "call"}
    BY <1>1, <1>3 DEF IInv, TypeInv
  <2>2. OneCallInv'
    BY <1>1, <1>3, <2>1 DEF LeftInv, OneCallInv, wakeVars
  <2> QED BY <1>1, <1>3, <2>2, LookStep DEF history
<1> QED BY <1>2, <1>3 DEF ttwu_remote

\* A woken task comes to a CPU by its waker.
LEMMA ttwu_queueLeft ==
  ASSUME IInv, IInv', LeftInv, Cardinality(Cpus) <= 2, NEW p \in Tasks, ttwu_queue(p)
  PROVE  LeftInv'
<1>1. waker[p] = "queue" /\ task_cpu[p] \in Cpus /\ ~on_cpu[p]
  BY DEF ttwu_queue, IInv, TypeInv, WakeInv, WakeOK
<1> QED BY <1>1, WakerLeft DEF ttwu_queue, wakeVars, history

\* And by the interrupt.
LEMMA sched_ttwu_pendingLeft ==
  ASSUME IInv, IInv', LeftInv, Cardinality(Cpus) <= 2, NEW c \in Cpus, NEW p \in Tasks,
         sched_ttwu_pending(c, p)
  PROVE  LeftInv'
<1>1. /\ ttwu_do_wakeup(p, c, c) /\ pusher[c].at = "no"
      /\ queue' = [queue EXCEPT ![c] = @ \cup {p}]
      /\ UNCHANGED << allowed, waker, curr, pc, stop_work, history >>
      /\ pending' = [pending EXCEPT ![c] = @ \ {p}]
      /\ p \in pending[c]
  BY DEF sched_ttwu_pending
<1>2. ~on_cpu[p]
  BY <1>1 DEF IInv, WakeInv, WakeOK, ListOK
<1>3. pc[c].at = "run" /\ c \notin Tasks /\ c \in Cpus \cup Tasks
  BY <1>1, SchedSMPAssumption DEF LeftInv, OneCallInv
<1>4. \A e \in Cpus : pending[e] = {} => pending'[e] = {}
  BY <1>1 DEF IInv, TypeInv
<1>5. OneCallInv'
  BY <1>1, <1>3, <1>4, WokenCall
<1>6. masked = 0 => OffersInv'
  BY <1>1, <1>2, <1>3, WokenStep
<1> QED BY <1>1, <1>5, <1>6 DEF LeftInv, history

-----------------------------------------------------------------------------
(* Affinities.                                                             *)

\* Once one has been changed nothing is promised.
LEMMA set_cpus_allowed_ptrLeft ==
  ASSUME IInv, LeftInv, NEW p \in Tasks, NEW mask \in Masks, set_cpus_allowed_ptr(p, mask)
  PROVE  LeftInv'
<1>1. masked' # 0
  BY SchedSMPAssumption DEF set_cpus_allowed_ptr, IInv, TypeInv
<1>2. OneCallInv'
  BY DEF set_cpus_allowed_ptr, LeftInv, OneCallInv, wakeVars
<1> QED BY <1>1, <1>2 DEF LeftInv

\* And before that the stopper has no work.
LEMMA migrate_taskLeft ==
  ASSUME LeftInv, NEW c \in Cpus, NEW w \in stop_work[c], migrate_task(c, w)
  PROVE  LeftInv'
<1>1. masked # 0 /\ UNCHANGED << waker, pc, pusher, wakeVars, masked >>
  BY DEF LeftInv, OffersInv, HomeInv, migrate_task, history
<1>2. OneCallInv'
  BY <1>1 DEF LeftInv, OneCallInv, wakeVars
<1> QED BY <1>1, <1>2 DEF LeftInv

-----------------------------------------------------------------------------
(* Pushes.                                                                 *)

\* Who is not running and can go to d is pushable, and is what d could run.
LEMMA PushableIs ==
  ASSUME IInv, HomeInv, Cardinality(Cpus) <= 2, NEW c \in Cpus, NEW d \in Cpus, c # d
  PROVE  /\ Pushable(c) = {p \in queue[c] : p # curr[c]} /\ Pushable(c) \in SUBSET Tasks
         /\ Pushable(c) # {} => Urgent(Pushable(c)) # {}
         /\ \A p \in Urgent(Pushable(c)) :
              /\ p \in Tasks /\ p \in queue[c] /\ p # curr[c] /\ Prio[p] = MinPrio(Pushable(c))
              /\ \A q \in queue[c] : q # curr[c] => Prio[p] <= Prio[q]
<1>1. Pushable(c) = {p \in queue[c] : p # curr[c]} /\ Pushable(c) \in SUBSET Tasks
  BY AllMigratory DEF Pushable, IInv, TypeInv
<1> QED BY <1>1, UrgentIs

\* Its push finds d if d runs something less urgent.
LEMMA FindsLowest ==
  ASSUME IInv, HomeInv, Cardinality(Cpus) <= 2, NEW c \in Cpus, NEW d \in Cpus, c # d,
         NEW p \in queue[c], Highest(d) > Prio[p]
  PROVE  LowestRqs(p) = {d}
<1> DEFINE below == {e \in allowed[p] : Highest(e) > Prio[p]}
           mask == {e \in below : \A f \in below : Highest(e) >= Highest(f)}
<1>1. p \in Tasks /\ Highest(c) <= Prio[p] /\ Prio[p] \in 1 .. IdlePrio - 1
      /\ Highest(c) \in 1 .. IdlePrio /\ Highest(d) \in 1 .. IdlePrio
  BY HighestOf DEF IInv
<1>2. Migratory(p) /\ allowed[p] = {c, d}
  BY <1>1, AllMigratory
<1>3. ~(Highest(c) > Prio[p])
  BY <1>1, PrioOrder
<1>4. below = {d}
  BY <1>2, <1>3
<1>5. mask = {d}
  BY <1>1, <1>4 DEF IdlePrio
<1>6. LowestRqs(p) = IF ~Migratory(p) THEN {}
                     ELSE IF task_cpu[p] \in mask THEN {task_cpu[p]} ELSE mask
  BY Zenon DEF LowestRqs
<1> HIDE DEF mask
<1> QED BY <1>2, <1>5, <1>6

\* A push looks: it is over only where it has found nothing.
LEMMA PushPickOffers ==
  ASSUME IInv, IInv', LeftInv, masked = 0, Cardinality(Cpus) <= 2,
         NEW x \in Cpus \cup Tasks, PushPick(x)
  PROVE  OffersInv'
<1>1. OffersInv /\ HomeInv
  BY DEF LeftInv, OffersInv
<1> PICK c \in Cpus : c = pusher[x].rq
  BY DEF PushPick, IInv, PushInv, PushOK
<1>2. /\ pusher[x].at = "pick" /\ ~Locked(c)
      /\ UNCHANGED << queue, curr, pc, allowed, stop_work >>
  BY DEF PushPick, taskVars
<1>3. /\ \A e \in Cpus : Highest(e)' = Highest(e) /\ CurrPrio(e)' = CurrPrio(e)
      /\ \A e \in Cpus : Picks(e)' = Picks(e)
  BY <1>2, HighestIs, CurrPrioNext DEF CurrPrio, Picks
<1>4. \A e \in Cpus : need_resched[e] => need_resched'[e]
  BY <1>2 DEF PushPick, IInv, TypeInv
<1>5. /\ \A y \in (Cpus \cup Tasks) \ {x} : pusher'[y] = pusher[y]
      /\ pusher'[x].at = "no" \/ (pusher'[x].at = "lock" /\ pusher'[x].rq = c)
  <2>1. PushDone(x) \/ \E p, d : PushTo(x, p, d)
    BY <1>2 DEF PushPick
  <2>2. CASE PushDone(x)
    BY <2>2 DEF PushDone, NotPushing, IInv, TypeInv
  <2>3. CASE \E p, d : PushTo(x, p, d)
    BY <2>3, PushToIs DEF IInv
  <2> QED BY <2>1, <2>2, <2>3
<1>6. \A e \in Cpus : Pushing(e) => Pushing(e)' \/ e = c
  BY <1>5 DEF Pushing
<1>7. \A e \in Cpus : PreemptOK(e)'
  BY <1>1, <1>3, <1>4 DEF OffersInv, PreemptOK
<1>8. ASSUME NEW e \in Cpus, NEW d \in Cpus, e # d
      PROVE  LeftOK(e, d)'
  <2>1. LeftOK(e, d)
    BY <1>1, <1>8 DEF OffersInv
  <2>2. Highest(d)' <= Highest(d) /\ Highest(d)' \in 1 .. IdlePrio
    BY <1>3, HighestOf, PrioOrder DEF IInv
  <2>3. CASE Obliged(e, d) => Obliged(e, d)'
    <3>1. TypeInv /\ \A p \in queue'[e] : p # curr'[e] => p \in queue[e] /\ p # curr[e]
      BY <1>2 DEF IInv
    <3> QED BY <2>1, <2>2, <2>3, <3>1, LeftKept
  <2>4. CASE ~(Obliged(e, d) => Obliged(e, d)')
    <3>1. e = c /\ ~Obliged(c, d)'
      BY <1>2, <1>3, <1>4, <1>6, <2>4 DEF Obliged
    <3>2. ~need_resched'[c] /\ ~need_resched[c] /\ ~Picks(c) /\ ~Pushing(c)'
      BY <1>2, <1>3, <1>4, <3>1 DEF Obliged
    <3>3. pusher'[x].at = "no"
      BY <1>5, <3>2 DEF Pushing
    <3> SUFFICES ASSUME NEW q \in queue[c], q # curr[c], Highest(d) > Prio[q]
                 PROVE  FALSE
      BY <1>2, <1>3, <3>1 DEF LeftOK
    <3>4. q \in Pushable(c)
      BY <1>1, <1>2, <1>8, <3>1, PushableIs
    <3>5. Cardinality(queue[c]) > 1
      BY <1>1, <1>2, <3>2, OneTaskRuns DEF OffersInv
    <3>6. Overloaded(c)
      BY <1>1, <1>2, <1>8, <3>1, <3>5, AllMigratory DEF Overloaded, IInv, TypeInv
    <3>7. PICK p \in Urgent(Pushable(c)) :
            IF Prio[p] < PrioOf(curr[c])
            THEN need_resched' = [need_resched EXCEPT ![c] = TRUE] /\ PushDone(x)
            ELSE /\ UNCHANGED need_resched
                 /\ IF LowestRqs(p) \subseteq {c} THEN PushDone(x)
                    ELSE \E f \in LowestRqs(p) \ {c} : PushTo(x, p, f)
      BY <3>4, <3>6 DEF PushPick
    <3>8. ~(need_resched' = [need_resched EXCEPT ![c] = TRUE])
      BY <1>2, <3>2 DEF IInv, TypeInv
    <3>9. ~\E f : PushTo(x, p, f)
      BY <3>3, PushToIs DEF IInv
    <3>10. LowestRqs(p) \subseteq {c}
      BY <3>7, <3>8, <3>9
    <3>11. p \in queue[c] /\ Prio[p] <= Prio[q] /\ p \in Tasks
      BY <1>1, <1>2, <1>8, <3>1, <3>4, PushableIs
    <3>12. Highest(d) > Prio[p]
      <4>1. /\ Prio[p] \in 1 .. IdlePrio - 1 /\ Prio[q] \in 1 .. IdlePrio - 1
            /\ Highest(d) \in 1 .. IdlePrio
        BY <3>11, HighestOf DEF IInv
      <4> QED BY <3>11, <4>1, PrioOrder
    <3>13. LowestRqs(p) = {d}
      BY <1>1, <1>2, <1>8, <3>1, <3>11, <3>12, FindsLowest
    <3> QED BY <1>8, <3>1, <3>10, <3>13
  <2> QED BY <2>3, <2>4
<1> QED BY <1>1, <1>2, <1>7, <1>8 DEF OffersInv, HomeInv

\* A push goes on, or on elsewhere.
LEMMA PushCall ==
  ASSUME IInv, LeftInv, NEW x \in Cpus \cup Tasks, PushPick(x) \/ PushLocked(x)
  PROVE  OneCallInv'
<1> PICK c \in Cpus : c = pusher[x].rq
  BY DEF PushPick, PushLocked, IInv, PushInv, PushOK
<1>1. pusher[x].at # "no" /\ UNCHANGED << waker, pc, wakeVars >>
  BY DEF PushPick, PushLocked
<1>2. \/ PushDone(x)
      \/ pusher' = [pusher EXCEPT ![x] = Push(c)]
      \/ \E p : \E d \in Cpus \ {c} : PushTo(x, p, d)
  <2>1. CASE PushPick(x)
    <3>1. PushDone(x) \/ \E p \in Urgent(Pushable(c)) : \E d \in LowestRqs(p) \ {c} : PushTo(x, p, d)
      BY <2>1 DEF PushPick
    <3>2. \A p \in Urgent(Pushable(c)) : LowestRqs(p) \subseteq Cpus
      BY DEF Urgent, Pushable, LowestRqs, IInv, TypeInv
    <3> QED BY <3>1, <3>2
  <2>2. CASE PushLocked(x)
    <3> PICK p \in Tasks : p = pusher[x].task
      BY <2>2 DEF PushLocked, IInv, PushInv, PushOK
    <3>1. LowestRqs(p) \subseteq Cpus
      BY DEF LowestRqs, IInv, TypeInv
    <3> QED BY <2>2, <3>1 DEF PushLocked
  <2> QED BY <2>1, <2>2
<1>3. /\ \A y \in (Cpus \cup Tasks) \ {x} : pusher'[y] = pusher[y]
      /\ pusher'[x].at = "lock" => pusher'[x].dest # pusher'[x].rq
  <2>1. CASE PushDone(x)
    BY <2>1 DEF PushDone, NotPushing, IInv, TypeInv
  <2>2. CASE pusher' = [pusher EXCEPT ![x] = Push(c)]
    BY <2>2, PushIs DEF IInv, TypeInv
  <2>3. CASE \E p : \E d \in Cpus \ {c} : PushTo(x, p, d)
    BY <2>3, PushToIs DEF IInv
  <2> QED BY <1>2, <2>1, <2>2, <2>3
<1> QED BY <1>1, <1>3 DEF LeftInv, OneCallInv, wakeVars

\* A task is moved to d, which will pick; the push goes on.
LEMMA PushMoves ==
  ASSUME IInv, IInv', LeftInv, masked = 0, Cardinality(Cpus) <= 2,
         NEW x \in Cpus \cup Tasks, NEW c \in Cpus, NEW d \in Cpus, c # d, NEW p \in Tasks,
         MoveTask(p, c, d),
         need_resched' = [need_resched EXCEPT ![d] = TRUE],
         pusher[x].at # "no", pusher[x].rq = c,
         pusher' = [pusher EXCEPT ![x] = Push(c)],
         UNCHANGED << curr, pc, allowed, stop_work >>
  PROVE  OffersInv'
<1>1. OffersInv /\ HomeInv
  BY DEF LeftInv, OffersInv
<1>2. Cpus = {c, d}
  BY <1>1, AllMigratory
<1>3. /\ queue'[c] \in SUBSET Tasks /\ queue[c] \in SUBSET Tasks /\ queue'[c] \subseteq queue[c]
  BY DEF MoveTask, IInv, TypeInv
<1>4. Highest(c) <= Highest(c)' /\ Highest(c) \in 1 .. IdlePrio /\ Highest(c)' \in 1 .. IdlePrio
  BY <1>3, HighestIs, HighestAfter, HighestOf, MinPrioMonotone DEF IInv
<1>5. need_resched'[d] /\ (need_resched[c] <=> need_resched'[c]) /\ Picks(c)' = Picks(c)
  BY DEF Picks, IInv, TypeInv
<1>6. CurrPrio(c)' = CurrPrio(c) /\ CurrPrio(c) \in 1 .. IdlePrio
  BY <1>1, CurrPrioIs, CurrPrioNext DEF CurrPrio, IInv
<1>7. Pushing(c)'
  BY PushIs DEF Pushing, IInv, TypeInv
<1>8. PreemptOK(c)'
  <2>1. CurrPrio(c) > Highest(c)' => CurrPrio(c) > Highest(c)
    BY <1>4, <1>6, PrioOrder
  <2> QED BY <1>1, <1>5, <1>6, <2>1 DEF OffersInv, PreemptOK
<1>9. PreemptOK(d)'
  BY <1>5 DEF PreemptOK
<1>10. LeftOK(c, d)' /\ LeftOK(d, c)'
  BY <1>5, <1>7 DEF LeftOK, Obliged
<1> QED BY <1>1, <1>2, <1>8, <1>9, <1>10 DEF OffersInv, HomeInv

\* It moves nobody, and is over only where it has found nothing.
LEMMA PushStays ==
  ASSUME IInv, IInv', LeftInv, masked = 0, Cardinality(Cpus) <= 2,
         NEW x \in Cpus \cup Tasks, NEW c \in Cpus, NEW d \in Cpus, c # d, NEW p \in Tasks,
         ~Locked(c), pusher[x].rq = c,
         StillPushable(p, c, d) => Highest(d) <= Prio[p],
         \/ \E e : PushTo(x, p, e)
         \/ pusher' = [pusher EXCEPT ![x] = Push(c)]
         \/ PushDone(x) /\ (Pushable(c) = {} \/ p \in Urgent(Pushable(c))),
         UNCHANGED << queue, need_resched, curr, pc, allowed, stop_work >>
  PROVE  OffersInv'
<1>1. OffersInv /\ HomeInv
  BY DEF LeftInv, OffersInv
<1>2. Cpus = {c, d}
  BY <1>1, AllMigratory
<1>3. /\ \A e \in Cpus : Highest(e)' = Highest(e) /\ CurrPrio(e)' = CurrPrio(e)
      /\ \A e \in Cpus : Picks(e)' = Picks(e)
  BY HighestIs, CurrPrioNext DEF CurrPrio, Picks
<1>4. /\ \A y \in (Cpus \cup Tasks) \ {x} : pusher'[y] = pusher[y]
      /\ \/ pusher'[x].at # "no" /\ pusher'[x].rq = c
         \/ Pushable(c) = {} \/ p \in Urgent(Pushable(c))
  <2>1. CASE \E e : PushTo(x, p, e)
    BY <2>1, PushToIs DEF IInv
  <2>2. CASE pusher' = [pusher EXCEPT ![x] = Push(c)]
    BY <2>2, PushIs DEF IInv, TypeInv
  <2>3. CASE PushDone(x) /\ (Pushable(c) = {} \/ p \in Urgent(Pushable(c)))
    BY <2>3 DEF PushDone, IInv, TypeInv
  <2> QED BY <2>1, <2>2, <2>3
<1>5. \A e \in Cpus : Pushing(e) => Pushing(e)' \/ e = c
  BY <1>4 DEF Pushing
<1>6. \A e \in Cpus : PreemptOK(e)'
  BY <1>1, <1>3 DEF OffersInv, PreemptOK
<1>7. ASSUME NEW e \in Cpus, NEW f \in Cpus, e # f, Obliged(e, f) => Obliged(e, f)'
      PROVE  LeftOK(e, f)'
  <2>1. TypeInv /\ \A q \in queue'[e] : q # curr'[e] => q \in queue[e] /\ q # curr[e]
    BY DEF IInv
  <2>2. Highest(f)' <= Highest(f) /\ Highest(f)' \in 1 .. IdlePrio
    BY <1>3, HighestOf, PrioOrder DEF IInv
  <2> QED BY <1>1, <1>7, <2>1, <2>2, LeftKept DEF OffersInv
<1>8. LeftOK(d, c)'
  <2>1. Obliged(d, c) => Obliged(d, c)'
    BY <1>3, <1>5 DEF Obliged
  <2> QED BY <1>7, <2>1
<1>9. LeftOK(c, d)'
  <2>1. CASE pusher'[x].at # "no" /\ pusher'[x].rq = c
    BY <2>1 DEF LeftOK, Obliged, Pushing
  <2>2. CASE Pushable(c) = {} \/ p \in Urgent(Pushable(c))
    <3> SUFFICES ASSUME NEW q \in queue[c], q # curr[c], Highest(d) > Prio[q], ~Picks(c)
                 PROVE  FALSE
      BY <1>3 DEF LeftOK, Obliged
    <3>1. q \in Pushable(c)
      BY <1>1, PushableIs
    <3>2. p \in queue[c] /\ p # curr[c] /\ Prio[p] <= Prio[q]
      BY <1>1, <2>2, <3>1, PushableIs
    <3>3. ~on_cpu[p]
      <4>1. task_cpu[p] = c /\ (on_cpu[p] <=> On(task_cpu[p], p))
        BY <3>2 DEF IInv, PlaceInv
      <4> QED BY <3>2, <4>1 DEF Locked, On
    <3>4. Highest(d) <= Prio[p]
      BY <1>1, <3>2, <3>3 DEF StillPushable, HomeInv
    <3>5. /\ Prio[p] \in 1 .. IdlePrio - 1 /\ Prio[q] \in 1 .. IdlePrio - 1
          /\ Highest(d) \in 1 .. IdlePrio
      BY <3>2, HighestOf DEF IInv
    <3> QED BY <3>2, <3>4, <3>5, PrioOrder
  <2> QED BY <1>4, <2>1, <2>2
<1> QED BY <1>1, <1>2, <1>6, <1>8, <1>9 DEF OffersInv, HomeInv

\* The two kinds of a push's second step.
LEMMA PushLockedOffers ==
  ASSUME IInv, IInv', LeftInv, masked = 0, Cardinality(Cpus) <= 2,
         NEW x \in Cpus \cup Tasks, PushLocked(x)
  PROVE  OffersInv'
<1> PICK c \in Cpus, d \in Cpus, p \in Tasks :
      c = pusher[x].rq /\ d = pusher[x].dest /\ p = pusher[x].task
  BY DEF PushLocked, IInv, PushInv, PushOK
<1>1. c # d
  BY DEF PushLocked, LeftInv, OneCallInv
<1>2. pusher[x].at # "no" /\ ~Locked(c) /\ UNCHANGED << curr, pc, allowed, stop_work >>
  BY DEF PushLocked
<1>3. CASE /\ MoveTask(p, c, d)
           /\ need_resched' = [need_resched EXCEPT ![d] = TRUE]
           /\ pusher' = [pusher EXCEPT ![x] = Push(c)]
  BY <1>1, <1>2, <1>3, PushMoves
<1>4. CASE /\ StillPushable(p, c, d) => Highest(d) <= Prio[p]
           /\ UNCHANGED << queue, need_resched >>
           /\ \/ \E e : PushTo(x, p, e)
              \/ pusher' = [pusher EXCEPT ![x] = Push(c)]
              \/ PushDone(x) /\ (Pushable(c) = {} \/ p \in Urgent(Pushable(c)))
  BY <1>1, <1>2, <1>4, PushStays
<1> QED BY <1>3, <1>4 DEF PushLocked

\* A push keeps what is owed.
LEMMA PushLeft ==
  ASSUME IInv, IInv', LeftInv, Cardinality(Cpus) <= 2,
         NEW x \in Cpus \cup Tasks, PushPick(x) \/ PushLocked(x)
  PROVE  LeftInv'
<1>1. masked' = masked
  BY DEF PushPick, PushLocked, history
<1> QED BY <1>1, PushCall, PushPickOffers, PushLockedOffers DEF LeftInv

-----------------------------------------------------------------------------
(* __schedule.                                                             *)

\* The CPU picks the most urgent, and remembers to push if there are others.
\* What it takes from its queue makes nobody elsewhere be left behind, or who
\* he is left with will pick.
LEMMA SwitchOffers ==
  ASSUME IInv, IInv', LeftInv, masked = 0, Cardinality(Cpus) <= 2,
         NEW c \in Cpus, NEW prev, SwitchFrom(c, prev),
         pc[c].at \in {"run", "pick"}, pusher[c].at = "no",
         queue'[c] \subseteq queue[c], \A e \in Cpus \ {c} : queue'[e] = queue[e],
         UNCHANGED << allowed, stop_work >>,
         \A e \in Cpus \ {c} :
           \/ Highest(c)' <= Highest(c)
           \/ \A p \in queue[e] : p # curr[e] => need_resched[e] \/ Picks(e)
  PROVE  OffersInv'
<1>1. OffersInv /\ HomeInv /\ stop_work[c] = {}
  BY DEF LeftInv, OffersInv, HomeInv
<1>2. PICK next \in IF queue'[c] = {} THEN {Idle} ELSE Urgent(queue'[c]), post \in BOOLEAN :
     /\ post <=> (next # Stop /\ \E p \in queue'[c] \ {next} : Migratory(p))
     /\ curr' = [curr EXCEPT ![c] = next]
     /\ \A e \in Cpus \ {c} : pc'[e] = pc[e]
     /\ \/ /\ pc'[c].at = "run"
           /\ pusher' = [pusher EXCEPT ![c] = IF post THEN Push(c) ELSE @]
        \/ pc'[c].at = "switch" /\ pc'[c].post = post /\ UNCHANGED pusher
  BY <1>1, SwitchEffect DEF IInv
<1>3. need_resched' = [need_resched EXCEPT ![c] = FALSE]
  BY DEF SwitchFrom
<1>4. queue'[c] \in SUBSET Tasks
  BY DEF IInv, TypeInv
<1>5. /\ next \in Tasks \cup {Idle} /\ next # Stop
      /\ curr'[c] = next /\ \A e \in Cpus \ {c} : curr'[e] = curr[e]
      /\ CurrPrio(c)' = Highest(c)'
  <2>1. CASE queue'[c] = {}
    <3>1. next = Idle /\ MinPrio(queue'[c]) = IdlePrio
      BY <1>2, <1>4, <2>1, MinPrioIs
    <3> QED BY <1>2, <3>1, CurrPrioNext, HighestIs, SchedSMPAssumption DEF IInv, TypeInv, PrioOf
  <2>2. CASE queue'[c] # {}
    <3>1. next \in Urgent(queue'[c])
      BY <1>2, <2>2
    <3>2. next \in Tasks /\ PrioOf(next) = MinPrio(queue'[c])
      BY <1>4, <3>1 DEF Urgent
    <3> QED BY <1>2, <3>2, CurrPrioNext, HighestIs, SchedSMPAssumption DEF IInv, TypeInv
  <2> QED BY <2>1, <2>2
<1>6. HomeInv'
  BY <1>1, <1>5 DEF HomeInv
<1>7. ASSUME NEW e \in Cpus \ {c}
      PROVE  /\ CurrPrio(e)' = CurrPrio(e) /\ Highest(e)' = Highest(e)
             /\ need_resched'[e] = need_resched[e] /\ Picks(e)' = Picks(e)
             /\ Pushing(e) => Pushing(e)'
             /\ Obliged(e, c) => Obliged(e, c)'
  <2>1. CurrPrio(e)' = CurrPrio(e) /\ Highest(e)' = Highest(e)
    BY <1>5, CurrPrioNext, HighestIs DEF CurrPrio
  <2>2. need_resched'[e] = need_resched[e] /\ Picks(e)' = Picks(e) /\ pc'[e] = pc[e]
    BY <1>2, <1>3 DEF Picks, IInv, TypeInv
  <2>3. \A y \in (Cpus \cup Tasks) \ {c} : pusher'[y] = pusher[y]
    BY <1>2 DEF IInv, TypeInv
  <2>4. Pushing(e) => Pushing(e)'
    BY <2>3 DEF Pushing
  <2>5. Obliged(e, c) => Obliged(e, c)'
    BY <2>2, <2>4 DEF Obliged
  <2> QED BY <2>1, <2>2, <2>4, <2>5
<1>8. ASSUME NEW e \in Cpus
      PROVE  PreemptOK(e)'
  <2>1. CASE e = c
    <3>1. Highest(c)' \in 1 .. IdlePrio
      BY HighestAfter DEF IInv
    <3> QED BY <1>5, <2>1, <3>1, PrioOrder DEF PreemptOK
  <2>2. CASE e # c
    BY <1>1, <1>7, <2>2 DEF OffersInv, PreemptOK
  <2> QED BY <2>1, <2>2
<1>9. ASSUME NEW d \in Cpus \ {c}
      PROVE  LeftOK(c, d)'
  <2> SUFFICES ASSUME NEW p \in queue'[c], p # next
               PROVE  Obliged(c, d)'
    BY <1>5 DEF LeftOK
  <2>1. Migratory(p)
    BY <1>1, <1>4, AllMigratory
  <2>2. post
    BY <1>2, <1>5, <2>1
  <2>3. CASE pc'[c].at = "switch" /\ pc'[c].post = post
    BY <2>2, <2>3 DEF Obliged
  <2>4. CASE pusher' = [pusher EXCEPT ![c] = IF post THEN Push(c) ELSE @]
    <3>1. pusher'[c] = Push(c)
      BY <2>2, <2>4 DEF IInv, TypeInv
    <3> QED BY <3>1, PushIs DEF Obliged, Pushing
  <2> QED BY <1>2, <2>3, <2>4
<1>10. ASSUME NEW e \in Cpus \ {c}
       PROVE  LeftOK(e, c)'
  <2>1. CASE \A p \in queue[e] : p # curr[e] => need_resched[e] \/ Picks(e)
    BY <1>5, <1>7, <2>1 DEF LeftOK, Obliged
  <2>2. CASE Highest(c)' <= Highest(c)
    <3>1. TypeInv /\ LeftOK(e, c) /\ Highest(c)' \in 1 .. IdlePrio
      BY <1>1, HighestAfter DEF IInv, OffersInv
    <3>2. \A p \in queue'[e] : p # curr'[e] => p \in queue[e] /\ p # curr[e]
      BY <1>5
    <3> QED BY <1>7, <2>2, <3>1, <3>2, LeftKept
  <2> QED BY <2>1, <2>2
<1>11. ASSUME NEW e \in Cpus, NEW f \in Cpus, e # f
       PROVE  e = c \/ f = c
  BY <1>1, <1>11, AllMigratory
<1> QED BY <1>6, <1>8, <1>9, <1>10, <1>11 DEF OffersInv

\* It is in one function at a time.
LEMMA SwitchCall ==
  ASSUME IInv, LeftInv, NEW c \in Cpus, NEW prev, SwitchFrom(c, prev),
         pusher[c].at = "no", pending[c] = {}, UNCHANGED << waker, wakeVars >>
  PROVE  OneCallInv'
<1>1. /\ \A e \in Cpus \ {c} : pc'[e] = pc[e]
      /\ pc'[c].at # "pull"
      /\ pc'[c].at # "run" => UNCHANGED pusher
  BY SwitchEffect DEF IInv
<1>2. /\ \A y \in (Cpus \cup Tasks) \ {c} : pusher'[y] = pusher[y]
      /\ pusher'[c].at # "lock"
  BY SwitchEffect, PushIs DEF IInv, TypeInv
<1> QED BY <1>1, <1>2, SchedSMPAssumption DEF LeftInv, OneCallInv, wakeVars

\* It goes on after having pulled.
LEMMA PickNextLeft ==
  ASSUME IInv, IInv', LeftInv, Cardinality(Cpus) <= 2, NEW c \in Cpus, PickNext(c)
  PROVE  LeftInv'
<1>1. /\ pc[c].at = "pick" /\ SwitchFrom(c, pc[c].prev)
      /\ UNCHANGED << queue, allowed, waker, wakeVars, stop_work, history >>
  BY DEF PickNext
<1>2. pusher[c].at = "no" /\ pending[c] = {}
  BY <1>1 DEF LeftInv, OneCallInv
<1>3. OneCallInv'
  BY <1>1, <1>2, SwitchCall
<1>4. Highest(c)' <= Highest(c)
  BY <1>1, HighestIs, HighestOf, PrioOrder DEF IInv
<1>5. masked = 0 => OffersInv'
  BY <1>1, <1>2, <1>4, SwitchOffers
<1> QED BY <1>1, <1>3, <1>5 DEF LeftInv, history

\* While it leaves a task it does not forget to push.
LEMMA LeavingOffers ==
  ASSUME IInv, OffersInv, NEW c \in Cpus, pc[c].at \in {"switch", "put"},
         \A e \in Cpus \ {c} : pc'[e] = pc[e],
         pc'[c].at \in {"put", "run"},
         pc[c].post => Pushing(c)' \/ (pc'[c].at = "put" /\ pc'[c].post),
         \A e \in Cpus : Pushing(e) => Pushing(e)',
         UNCHANGED << queue, curr, need_resched, stop_work, allowed >>
  PROVE  OffersInv'
<1>1. \A e \in Cpus : Highest(e)' = Highest(e) /\ CurrPrio(e)' = CurrPrio(e) /\ Picks(e)' = Picks(e)
  BY HighestIs, CurrPrioNext DEF CurrPrio, Picks
<1>2. \A e \in Cpus : PreemptOK(e)'
  BY <1>1 DEF OffersInv, PreemptOK
<1>3. \A e, f \in Cpus : Obliged(e, f) => Obliged(e, f)'
  BY <1>1 DEF Obliged
<1>4. ASSUME NEW e \in Cpus, NEW f \in Cpus, e # f
      PROVE  LeftOK(e, f)'
  <2>1. TypeInv /\ \A q \in queue'[e] : q # curr'[e] => q \in queue[e] /\ q # curr[e]
    BY DEF IInv
  <2>2. Highest(f)' <= Highest(f) /\ Highest(f)' \in 1 .. IdlePrio
    BY <1>1, HighestOf, PrioOrder DEF IInv
  <2> QED BY <1>3, <1>4, <2>1, <2>2, LeftKept DEF OffersInv
<1> QED BY <1>2, <1>4 DEF OffersInv, HomeInv

\* post_schedule pushes what the switch has left over.
LEMMA PostLeft ==
  ASSUME IInv, LeftInv, NEW c \in Cpus,
         pc[c].at \in {"switch", "put"}, PostSchedule(c), pc' = [pc EXCEPT ![c] = At("run")],
         UNCHANGED << allowed, waker, rqVars, wakeVars, stop_work, masked >>
  PROVE  LeftInv'
<1>1. /\ \A e \in Cpus \ {c} : pc'[e] = pc[e]
      /\ pc'[c].at = "run"
  BY DEF IInv, TypeInv, At
<1>2. /\ \A y \in (Cpus \cup Tasks) \ {c} : pusher'[y] = pusher[y]
      /\ pc[c].post => pusher'[c] = Push(c)
      /\ pusher[c].at = "no" /\ pusher'[c].at # "lock"
  BY PushIs DEF PostSchedule, LeftInv, OneCallInv, IInv, TypeInv
<1>3. OneCallInv'
  BY <1>1, <1>2, SchedSMPAssumption DEF LeftInv, OneCallInv, wakeVars
<1>4. \A e \in Cpus : Pushing(e) => Pushing(e)'
  BY <1>2 DEF Pushing
<1>5. pc[c].post => Pushing(c)'
  BY <1>2, PushIs DEF Pushing
<1>6. masked = 0 => OffersInv'
  BY <1>1, <1>4, <1>5, LeavingOffers DEF LeftInv, rqVars
<1> QED BY <1>3, <1>6 DEF LeftInv

\* With the reference dropped.
LEMMA PutPrevLeft ==
  ASSUME IInv, LeftInv, NEW c \in Cpus, PutPrev(c)
  PROVE  LeftInv'
BY PostLeft DEF PutPrev, taskVars

\* Or with none to drop; if there may be one it will push later.
LEMMA finish_task_switchLeft ==
  ASSUME IInv, LeftInv, NEW c \in Cpus, finish_task_switch(c)
  PROVE  LeftInv'
<1>1. /\ pc[c].at = "switch" /\ pc[c] \in PcType
      /\ UNCHANGED << state, allowed, task_cpu, prog, cond, waker, rqVars, wakeVars, stop_work, history >>
  BY DEF finish_task_switch, IInv, TypeInv
<1>2. CASE pc' = [pc EXCEPT ![c] = At("run")] /\ PostSchedule(c)
  BY <1>1, <1>2, PostLeft DEF history
<1>3. CASE pc[c].prev \in Tasks
  <2>1. pc' = [pc EXCEPT ![c].at = "put", ![c].was = state[pc[c].prev]] /\ UNCHANGED pusher
    BY <1>3 DEF finish_task_switch
  <2>2. /\ \A e \in Cpus \ {c} : pc'[e] = pc[e]
        /\ pc'[c].at = "put" /\ pc'[c].post = pc[c].post
    BY <1>1, <2>1 DEF IInv, TypeInv, PcType
  <2>3. OneCallInv'
    BY <1>1, <2>1, <2>2 DEF LeftInv, OneCallInv, wakeVars
  <2>4. \A e \in Cpus : Pushing(e) => Pushing(e)'
    BY <2>1 DEF Pushing
  <2>5. masked = 0 => OffersInv'
    BY <1>1, <2>2, <2>4, LeavingOffers DEF LeftInv, rqVars
  <2> QED BY <1>1, <2>3, <2>5 DEF LeftInv, history
<1> QED BY <1>2, <1>3 DEF finish_task_switch

\* Who calls __schedule sees what its queue is left with, and pulls if that is
\* less urgent than what it leaves and anybody has more than one task.
LEMMA ScheduleLeft ==
  ASSUME IInv, IInv', LeftInv, Cardinality(Cpus) <= 2, NEW c \in Cpus, Schedule(c)
  PROVE  LeftInv'
<1> PICK prev \in Tasks \cup {Idle, Stop} : prev = curr[c]
  BY DEF IInv, TypeInv
<1> DEFINE others == {d \in Cpus \ {c} : Overloaded(d)}
<1>1. /\ pc[c].at = "run" /\ pusher[c].at = "no" /\ pending[c] = {}
      /\ UNCHANGED << allowed, waker, wakeVars, stop_work, history >>
  BY DEF Schedule, Executes
<1>2. /\ \A e \in Cpus \ {c} : queue'[e] = queue[e]
      /\ queue'[c] \subseteq queue[c]
      /\ queue'[c] = queue[c] \/ (prev \in Tasks /\ queue'[c] = queue[c] \ {prev})
  BY DEF Schedule, IInv, TypeInv
<1>3. \/ /\ pc' = [pc EXCEPT ![c] = [At("pull") EXCEPT !.prev = prev, !.todo = others]]
         /\ UNCHANGED << on_cpu, curr, need_resched, pusher >>
      \/ /\ ~(prev \in Tasks /\ Highest(c)' > PrioOf(prev) /\ others # {})
         /\ SwitchFrom(c, prev)
  BY Zenon DEF Schedule
<1>4. ASSUME NEW e \in Cpus \ {c}, masked = 0
      PROVE  /\ OffersInv
             /\ \A p \in queue[e] : p # curr[e] /\ ~Overloaded(e) => need_resched[e] \/ Picks(e)
  <2>1. OffersInv /\ HomeInv /\ PreemptOK(e)
    BY <1>4 DEF LeftInv, OffersInv
  <2> SUFFICES ASSUME NEW p \in queue[e], p # curr[e], ~Overloaded(e)
               PROVE  need_resched[e] \/ Picks(e)
    BY <2>1
  <2>2. Migratory(p)
    BY <2>1, AllMigratory DEF IInv, TypeInv
  <2>3. ~(Cardinality(queue[e]) > 1)
    BY <2>2 DEF Overloaded
  <2> QED BY <2>1, <2>3, OneTaskRuns
<1>5. CASE /\ pc' = [pc EXCEPT ![c] = [At("pull") EXCEPT !.prev = prev, !.todo = others]]
           /\ UNCHANGED << on_cpu, curr, need_resched, pusher >>
  <2>1. c \notin others /\ \A e \in Cpus \ {c} : e \in others <=> Overloaded(e)
    OBVIOUS
  <2> HIDE DEF others
  <2>2. /\ \A e \in Cpus \ {c} : pc'[e] = pc[e]
        /\ pc'[c].at = "pull" /\ pc'[c].todo = others
    BY <1>5 DEF At, IInv, TypeInv
  <2>3. OneCallInv'
    BY <1>1, <1>5, <2>1, <2>2 DEF LeftInv, OneCallInv, wakeVars
  <2>4. ASSUME masked = 0
        PROVE  OffersInv'
    <3>1. OffersInv /\ HomeInv
      BY <2>4 DEF LeftInv, OffersInv
    <3>2. Picks(c)' /\ \A e \in Cpus \ {c} : Picks(e)' = Picks(e)
      BY <2>2 DEF Picks
    <3>3. \A e \in Cpus \ {c} : CurrPrio(e)' = CurrPrio(e) /\ Highest(e)' = Highest(e)
      BY <1>2, <1>5, CurrPrioNext, HighestIs DEF CurrPrio
    <3>4. \A e \in Cpus : PreemptOK(e)'
      BY <1>5, <3>1, <3>2, <3>3 DEF OffersInv, PreemptOK
    <3>5. ASSUME NEW d \in Cpus
          PROVE  LeftOK(c, d)'
      BY <3>2 DEF LeftOK, Obliged
    <3>6. ASSUME NEW e \in Cpus \ {c}
          PROVE  LeftOK(e, c)'
      <4> SUFFICES ASSUME NEW p \in queue[e], p # curr[e]
                   PROVE  Obliged(e, c)'
        BY <1>2, <1>5 DEF LeftOK
      <4>1. CASE Overloaded(e)
        BY <2>1, <2>2, <4>1 DEF Obliged
      <4>2. CASE ~Overloaded(e)
        BY <1>4, <1>5, <2>4, <3>2, <4>2 DEF Obliged
      <4> QED BY <4>1, <4>2
    <3>7. ASSUME NEW e \in Cpus, NEW f \in Cpus, e # f
          PROVE  e = c \/ f = c
      BY <3>1, <3>7, AllMigratory
    <3> QED BY <1>1, <1>5, <3>1, <3>4, <3>5, <3>6, <3>7 DEF OffersInv, HomeInv
  <2> QED BY <1>1, <2>3, <2>4 DEF LeftInv, history
<1>6. CASE /\ ~(prev \in Tasks /\ Highest(c)' > PrioOf(prev) /\ others # {})
           /\ SwitchFrom(c, prev)
  <2>1. OneCallInv'
    BY <1>1, <1>6, SwitchCall
  <2>2. ASSUME masked = 0, NEW e \in Cpus \ {c}, ~(Highest(c)' <= Highest(c))
        PROVE  \A p \in queue[e] : p # curr[e] => need_resched[e] \/ Picks(e)
    <3>1. Highest(c) \in 1 .. IdlePrio /\ Highest(c)' \in 1 .. IdlePrio
          /\ queue[c] \in SUBSET Tasks /\ queue'[c] \in SUBSET Tasks
      BY HighestOf, HighestAfter DEF IInv, TypeInv
    <3>2. queue'[c] # queue[c]
      BY <2>2, <3>1, HighestIs, PrioOrder
    <3>3. prev \in Tasks /\ prev \in queue[c] /\ queue'[c] = queue[c] \ {prev}
      BY <1>2, <3>2
    <3>4. PrioOf(prev) = Prio[prev] /\ Prio[prev] \in 1 .. IdlePrio - 1
      BY <3>1, <3>3, MinPrioIs, HighestOf DEF IInv
    <3>5. Highest(c)' > PrioOf(prev)
      <4>1. SUFFICES ASSUME Highest(c)' <= Prio[prev]
                     PROVE  FALSE
        BY <3>1, <3>4, PrioOrder
      <4>2. MinPrio(queue[c] \ {prev}) = MinPrio(queue[c])
        BY <3>1, <3>3, <4>1, HighestIs, MinPrioWithout
      <4>3. Highest(c)' = Highest(c)
        BY <3>3, <4>2, HighestIs
      <4> QED BY <2>2, <3>1, <4>3, PrioOrder
    <3>6. ~Overloaded(e)
      BY <1>6, <3>3, <3>5
    <3> QED BY <1>4, <2>2, <3>6
  <2>3. masked = 0 => OffersInv'
    BY <1>1, <1>2, <1>6, <2>2, SwitchOffers
  <2> QED BY <1>1, <2>1, <2>3 DEF LeftInv, history
<1> QED BY <1>3, <1>5, <1>6

\* A pull that has looked at d leaves nothing there for c, or d will pick.
LEMMA PullLooks ==
  ASSUME IInv, OffersInv, Cardinality(Cpus) <= 2,
         NEW c \in Cpus, NEW d \in Cpus, c # d, Pull(c, d), UNCHANGED queue,
         NEW p \in queue[d], p # curr[d], Highest(c) > Prio[p], ~Picks(d), ~need_resched[d]
  PROVE  FALSE
<1> DEFINE found == {q \in Urgent(Pullable(d, c)) : Prio[q] < Highest(c) /\ Prio[q] >= PrioOf(curr[d])}
<1>1. HomeInv /\ PreemptOK(d) /\ p \in Pushable(d) /\ Pushable(d) \in SUBSET Tasks
  BY PushableIs DEF OffersInv
<1>2. /\ Highest(c) \in 1 .. IdlePrio /\ Prio[p] \in 1 .. IdlePrio - 1
      /\ MinPrio(Pushable(d)) \in 1 .. IdlePrio /\ MinPrio(Pushable(d)) <= Prio[p]
  BY <1>1, HighestOf, MinPrioIs DEF IInv
<1>3. ~(MinPrio(Pushable(d)) >= Highest(c))
  BY <1>2, PrioOrder
<1>4. Cardinality(queue[d]) > 1
  BY <1>1, OneTaskRuns
<1>5. ~Locked(d) /\ (found = {} \/ \E q \in found : MoveTask(q, d, c))
  <2>1. ~(Cardinality(queue[d]) <= 1)
    <3>1. IsFiniteSet(queue[d])
      BY FS_Subset, SchedSMPAssumption DEF IInv, TypeInv
    <3>2. Cardinality(queue[d]) \in Nat
      BY <3>1, FS_CardinalityType
    <3> QED BY <1>4, <3>2
  <2>2. ~Locked(d) /\ (Cardinality(queue[d]) <= 1 \/ found = {} \/ \E q \in found : MoveTask(q, d, c))
    BY <1>3, Zenon DEF Pull
  <2> QED BY <2>1, <2>2
<1>6. Pullable(d, c) = Pushable(d)
  <2>1. \A q \in queue[d] : q \in Tasks /\ Migratory(q) /\ c \in allowed[q]
    BY <1>1, AllMigratory DEF IInv, TypeInv
  <2>2. \A q \in queue[d] : on_cpu[q] <=> q = curr[d]
    BY <1>5 DEF Locked, On, IInv, TypeInv, PlaceInv
  <2> QED BY <2>1, <2>2 DEF Pullable, Pushable
<1>7. PICK q \in Urgent(Pushable(d)) : q \in Tasks /\ q \in queue[d] /\ Prio[q] <= Prio[p]
  BY <1>1, PushableIs
<1>8. /\ Prio[q] \in 1 .. IdlePrio - 1 /\ Highest(d) \in 1 .. IdlePrio /\ Highest(d) <= Prio[q]
      /\ CurrPrio(d) \in 1 .. IdlePrio
  BY <1>1, <1>7, HighestOf, CurrPrioIs DEF IInv
<1>9. Prio[q] < Highest(c)
  BY <1>2, <1>7, <1>8, PrioOrder
<1>10. ~(CurrPrio(d) > Prio[q])
  BY <1>1, <1>8, PrioOrder DEF PreemptOK
<1>11. q \in found
  BY <1>6, <1>7, <1>8, <1>9, <1>10, PrioOrder DEF CurrPrio
<1>12. PICK f \in found : MoveTask(f, d, c)
  BY <1>5, <1>11
<1>13. f \in queue[d] /\ f \notin queue'[d]
  BY <1>12 DEF Urgent, Pullable, MoveTask, IInv, TypeInv
<1> QED BY <1>13

\* A pull takes the most urgent, so that what is left on d is left behind by
\* nobody.
LEMMA PullOffers ==
  ASSUME IInv, IInv', OffersInv, Cardinality(Cpus) <= 2,
         NEW c \in Cpus, NEW d \in Cpus, c # d, Pull(c, d)
  PROVE  OffersInv'
<1>1. HomeInv /\ Cpus = {c, d}
  BY AllMigratory DEF OffersInv
<1>2. /\ pc[c].at = "pull" /\ UNCHANGED << allowed, curr, need_resched, pusher, stop_work >>
      /\ pc'[c].at \in {"pull", "pick"} /\ pc'[d] = pc[d]
      /\ pc'[c].todo = pc[c].todo \ {d}
  BY PullIs DEF Pull, IInv
<1>3. Picks(c)' /\ Picks(d)' = Picks(d)
  BY <1>2 DEF Picks
<1>4. \/ UNCHANGED queue
      \/ \E q \in Urgent(Pullable(d, c)) : MoveTask(q, d, c) /\ Prio[q] < Highest(c) /\ ~Locked(d)
  BY DEF Pull
<1>5. PreemptOK(d)'
  <2>1. queue'[d] \in SUBSET Tasks /\ queue[d] \in SUBSET Tasks /\ queue'[d] \subseteq queue[d]
    BY <1>4 DEF MoveTask, IInv, TypeInv
  <2>2. Highest(d) <= Highest(d)' /\ Highest(d) \in 1 .. IdlePrio /\ Highest(d)' \in 1 .. IdlePrio
    BY <2>1, HighestIs, HighestAfter, HighestOf, MinPrioMonotone DEF IInv
  <2>3. CurrPrio(d)' = CurrPrio(d) /\ CurrPrio(d) \in 1 .. IdlePrio
    BY <1>1, <1>2, CurrPrioIs, CurrPrioNext DEF CurrPrio, IInv
  <2>4. CurrPrio(d) > Highest(d)' => CurrPrio(d) > Highest(d)
    BY <2>2, <2>3, PrioOrder
  <2> QED BY <1>2, <1>3, <2>3, <2>4 DEF OffersInv, PreemptOK
<1>6. PreemptOK(c)' /\ LeftOK(c, d)'
  BY <1>3 DEF PreemptOK, LeftOK, Obliged
<1>7. LeftOK(d, c)'
  <2> SUFFICES ASSUME NEW p \in queue'[d], p # curr[d], Highest(c)' > Prio[p],
                      ~need_resched[d], ~Picks(d)
               PROVE  FALSE
    BY <1>2, <1>3 DEF LeftOK, Obliged
  <2>1. CASE UNCHANGED queue
    <3>1. Highest(c)' = Highest(c)
      BY <2>1, HighestIs
    <3> QED BY <2>1, <3>1, PullLooks
  <2>2. CASE \E q \in Urgent(Pullable(d, c)) : MoveTask(q, d, c) /\ ~Locked(d)
    <3>1. PICK q \in Urgent(Pullable(d, c)) : MoveTask(q, d, c) /\ ~Locked(d)
      BY <2>2
    <3>2. Pullable(d, c) \in SUBSET Tasks
      BY DEF Pullable, IInv, TypeInv
    <3>3. q \in Tasks /\ q \in queue[d] /\ \A r \in Pullable(d, c) : Prio[q] <= Prio[r]
      BY <3>1, <3>2, UrgentIs DEF Pullable
    <3>4. q \in queue'[c] /\ p \in queue[d] /\ p \in Tasks
      BY <3>1, <3>3 DEF MoveTask, IInv, TypeInv
    <3>5. ~on_cpu[p]
      <4>1. task_cpu[p] = d /\ (on_cpu[p] <=> On(task_cpu[p], p))
        BY <3>4 DEF IInv, PlaceInv
      <4> QED BY <3>1, <4>1 DEF Locked, On
    <3>6. p \in Pullable(d, c)
      BY <1>1, <3>4, <3>5, AllMigratory DEF Pullable
    <3>7. /\ Highest(c)' <= Prio[q] /\ Prio[q] <= Prio[p] /\ Highest(c)' \in 1 .. IdlePrio
          /\ Prio[q] \in 1 .. IdlePrio - 1 /\ Prio[p] \in 1 .. IdlePrio - 1
      BY <3>3, <3>4, <3>6, HighestAfter, HighestOf DEF IInv
    <3>8. Highest(c)' > Prio[q]
      BY <3>7, PrioOrder
    <3> QED BY <3>7, <3>8, PrioOrder
  <2> QED BY <1>4, <2>1, <2>2
<1> QED BY <1>1, <1>2, <1>5, <1>6, <1>7 DEF OffersInv, HomeInv

\* A pull keeps what is owed.
LEMMA PullLeft ==
  ASSUME IInv, IInv', LeftInv, Cardinality(Cpus) <= 2, NEW c \in Cpus, NEW d \in Cpus, Pull(c, d)
  PROVE  LeftInv'
<1>1. /\ pc[c].at = "pull" /\ d \in pc[c].todo
      /\ UNCHANGED << waker, pusher, wakeVars, masked >>
  BY DEF Pull, history
<1>2. c # d
  BY <1>1 DEF LeftInv, OneCallInv
<1>3. /\ \A e \in Cpus \ {c} : pc'[e] = pc[e]
      /\ pc'[c].todo = pc[c].todo \ {d}
  BY PullIs DEF IInv
<1>4. OneCallInv'
  BY <1>1, <1>3 DEF LeftInv, OneCallInv, wakeVars
<1> QED BY <1>1, <1>2, <1>4, PullOffers DEF LeftInv

-----------------------------------------------------------------------------
(* The theorem of that.                                                    *)

\* At boot nobody is left behind and nothing is owed.
LEMMA InitLeft ==
  ASSUME Init
  PROVE  LeftInv
<1>1. OneCallInv
  BY SchedSMPAssumption DEF Init, OneCallInv, At, NotPushing
<1>2. HomeInv
  BY SchedSMPAssumption DEF Init, HomeInv
<1>3. \A c \in Cpus : Highest(c) = IdlePrio /\ CurrPrio(c) = IdlePrio
  BY HighestIs, MinPrioIs DEF Init, CurrPrio, PrioOf
<1>4. \A c \in Cpus : PreemptOK(c)
  BY <1>3 DEF PreemptOK, IdlePrio
<1>5. \A c, d \in Cpus : LeftOK(c, d)
  BY DEF Init, LeftOK
<1> QED BY <1>1, <1>2, <1>4, <1>5 DEF LeftInv, OffersInv

\* With two CPUs, or one, no task is left behind where the other CPU could run
\* it at once, whatever order wake-ups, switches, pushes and pulls come in.
\* With more, a push that has looked for a CPU three times gives up.
THEOREM NoneLeftBehind ==
  ASSUME Cardinality(Cpus) <= 2
  PROVE  Spec => []NoTaskLeftBehind
<1>1. Init => LeftInv
  BY InitLeft
<1>2. IInv /\ IInv' /\ LeftInv /\ [Next]_vars => LeftInv'
  <2> SUFFICES ASSUME IInv, IInv', LeftInv, [Next]_vars PROVE LeftInv'
    OBVIOUS
  <2>1. ASSUME NEW c \in Cpus, NEW p \in Tasks,
               SetState(c, p) \/ TestCondition(c, p) \/ Exit(c, p) \/ sched_ttwu_pending(c, p)
        PROVE  LeftInv'
    BY <2>1, TaskLooksLeft, sched_ttwu_pendingLeft
  <2>2. ASSUME NEW c \in Cpus,
               \/ Schedule(c) \/ PickNext(c) \/ finish_task_switch(c) \/ PutPrev(c)
        PROVE  LeftInv'
    BY <2>2, ScheduleLeft, PickNextLeft, finish_task_switchLeft, PutPrevLeft
  <2>3. ASSUME NEW c \in Cpus, scheduler_ipi(c)
        PROVE  LeftInv'
    BY <2>3, scheduler_ipiLeft
  <2>4. ASSUME NEW c \in Cpus, NEW d \in Cpus, Pull(c, d)
        PROVE  LeftInv'
    BY <2>4, PullLeft
  <2>5. ASSUME NEW c \in Cpus, NEW w \in stop_work[c], migrate_task(c, w)
        PROVE  LeftInv'
    BY <2>5, migrate_taskLeft
  <2>6. ASSUME NEW p \in Tasks,
               \/ Happens(p) \/ WakeCalled(p) \/ ttwu_remote(p) \/ WaitOnCpu(p)
               \/ ttwu_queue(p) \/ ttwu_queue_remote(p)
        PROVE  LeftInv'
    BY <2>6, WakerLooksLeft, ttwu_remoteLeft, ttwu_queueLeft
  <2>7. ASSUME NEW p \in Tasks, NEW mask \in Masks, set_cpus_allowed_ptr(p, mask)
        PROVE  LeftInv'
    BY <2>7, set_cpus_allowed_ptrLeft
  <2>8. ASSUME NEW x \in Cpus \cup Tasks, PushPick(x) \/ PushLocked(x)
        PROVE  LeftInv'
    BY <2>8, PushLeft
  <2>9. CASE UNCHANGED vars
    <3>1. UNCHANGED << queue, curr, need_resched, pc, pusher, allowed, stop_work, masked, waker, pending >>
      BY <2>9 DEF vars, taskVars, rqVars, wakeVars, history
    <3>2. OneCallInv'
      BY <3>1 DEF LeftInv, OneCallInv
    <3> QED BY <3>1, <3>2, LookStep
  <2> QED BY <2>1, <2>2, <2>3, <2>4, <2>5, <2>6, <2>7, <2>8, <2>9 DEF Next
<1>3. IInv /\ LeftInv => NoTaskLeftBehind
  <2> SUFFICES ASSUME IInv, LeftInv, Quiet, masked = 0, NEW c \in Cpus, NEW d \in Cpus,
                      NEW p \in Pushable(c)
               PROVE  Highest(d) <= Prio[p]
    BY DEF NoTaskLeftBehind
  <2>1. /\ p \in queue[c] /\ p # curr[c] /\ Prio[p] \in 1 .. IdlePrio - 1
        /\ Highest(d) \in 1 .. IdlePrio /\ Highest(c) <= Prio[p]
    BY HighestOf DEF Pushable, IInv
  <2>2. ~Obliged(c, d)
    BY DEF Quiet, Obliged, Picks, Pushing
  <2>3. CASE c = d
    BY <2>1, <2>3
  <2>4. CASE c # d
    BY <2>1, <2>2, <2>4, PrioOrder DEF LeftInv, OffersInv, LeftOK
  <2> QED BY <2>3, <2>4
<1>4. Spec => []IInv
  BY Inductive
<1> QED BY <1>1, <1>2, <1>3, <1>4, PTL DEF Spec
=============================================================================
