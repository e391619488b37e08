----------------------------- MODULE Completion -----------------------------
(***************************************************************************)
(* Completions (kernel/sched/core.c): a counter and a wait queue under one *)
(* spinlock, which is taken with interrupts off, so that each section      *)
(* under it is one step.  A waiter drops the lock to sleep; before it has  *)
(* it again, the timer may fire, a signal come, others complete or take.   *)
(***************************************************************************)
EXTENDS LinkedList, FiniteSets

CONSTANTS
  Threads,
  Calls,          \* bound: the kinds of waits that are made
  UINT_MAX,       \* of the unsigned counter
  MaxDone         \* bound: nobody signals beyond it; UINT_MAX: no wrap-around

ASSUME ThreadsFinite == IsFiniteSet(Threads)

ASSUME CompletionAssumption ==
  /\ UINT_MAX \in Nat \ {0}
  /\ MaxDone \in Nat
  /\ Calls \subseteq {"plain", "timeout", "intr", "intr_timeout"}

VARIABLES
  done, queue,    \* struct completion: the counter, the tasks on wait.task_list
  state,          \* p->state of each thread
  call,           \* what each thread waits for completion with, or "none"
  expired,        \* the timer of its schedule_timeout has run out
  signalled,      \* it has a signal pending that its kind of sleep listens to
  released        \* history: those complete_all found waiting, until they return

vars == << done, queue, state, call, expired, signalled, released >>

\* wait_for_completion, _timeout, _interruptible or _killable, and both.
Interruptible == {"intr", "intr_timeout"}
Timed == {"timeout", "intr_timeout"}

Waiting(t) == call[t] # "none"
Sleeps(t) == state[t] = "sleep"

-----------------------------------------------------------------------------
(* __wake_up_common on a queue of exclusive waiters: those of the tasks    *)
(* on it that try_to_wake_up finds asleep, up to nr of them; 0 is all.     *)

\* Mutant: one that is awake already counts.
__wake_up_common_CountsAwake(nr) ==
  {t \in Range(queue) : Sleeps(t)
     /\ (nr = 0 \/ \E i \in 1 .. Len(queue) : queue[i] = t /\ i <= nr)}

__wake_up_common(nr) ==
  {t \in Range(queue) : Sleeps(t)
     /\ (nr = 0 \/ Cardinality({u \in Range(queue) : Sleeps(u) /\ Ahead(u, t, queue)}) < nr)}

Wake(woken) == state' = [t \in Threads |-> IF t \in woken THEN "running" ELSE state[t]]

-----------------------------------------------------------------------------
Init ==
  /\ done = 0
  /\ queue = << >>
  /\ state = [t \in Threads |-> "running"]
  /\ call = [t \in Threads |-> "none"]
  /\ expired = [t \in Threads |-> FALSE]
  /\ signalled = [t \in Threads |-> FALSE]
  /\ released = {}

Plus(n) == (done + n) % (UINT_MAX + 1)

complete ==
  /\ done + 1 <= MaxDone
  /\ done' = Plus(1)
  /\ Wake(__wake_up_common(1))
  /\ UNCHANGED << queue, call, expired, signalled, released >>

complete_all ==
  /\ done + UINT_MAX \div 2 <= MaxDone
  /\ done' = Plus(UINT_MAX \div 2)
  /\ Wake(__wake_up_common(0))
  /\ released' = released \cup Range(queue)
  /\ UNCHANGED << queue, call, expired, signalled >>

try_wait_for_completion ==
  /\ done # 0
  /\ done' = done - 1
  /\ UNCHANGED << queue, state, call, expired, signalled, released >>

-----------------------------------------------------------------------------
(* do_wait_for_common.  The queue argument q is the list with t on it.     *)

\* The end of a call but for the queue and the counter.
Return(t) ==
  /\ call' = [call EXCEPT ![t] = "none"]
  /\ expired' = [expired EXCEPT ![t] = FALSE]
  /\ signalled' = [signalled EXCEPT ![t] = FALSE]
  /\ released' = released \ {t}
  /\ UNCHANGED state

Unlinked(t, q) == IF Linked(t, q) THEN list_del_init(t, q) ELSE q

\* Mutant: after a time-out the counter is not looked at again.
Leave_TimedOut(t, q) ==
  /\ queue' = Unlinked(t, q)
  /\ done' = IF done # 0 /\ ~expired[t] THEN done - 1 ELSE done
  /\ Return(t)

\* t leaves the queue, with a token if there is one, and returns.
Leave(t, q) ==
  /\ queue' = Unlinked(t, q)
  /\ done' = IF done # 0 THEN done - 1 ELSE done
  /\ Return(t)

\* signal_pending_state
signal_pending_state(t, kind) == kind \in Interruptible /\ signalled[t]

\* The top of the loop: t gives in to a signal, or drops the lock and sleeps.
Sleep(t, kind, q) ==
  \/ signal_pending_state(t, kind) /\ Leave(t, q)
  \/ /\ ~signal_pending_state(t, kind)
     /\ queue' = q
     /\ call' = [call EXCEPT ![t] = kind]
     /\ state' = [state EXCEPT ![t] = "sleep"]
     /\ UNCHANGED << done, expired, signalled, released >>

wait_for_common(t, kind) ==
  /\ ~Waiting(t)
  /\ \/ done # 0 /\ Leave(t, queue)
     \/ done = 0 /\ Sleep(t, kind, list_add_tail(t, queue))

\* while (!x->done && timeout)
Again(t) == done = 0 /\ ~expired[t]

\* Mutant: the loop ends with the time-out only.
Recheck_Deaf(t) ==
  /\ Waiting(t) /\ ~Sleeps(t)
  /\ \/ ~expired[t] /\ Sleep(t, call[t], queue)
     \/ expired[t] /\ Leave(t, queue)

\* Back from schedule_timeout, with the lock.
Recheck(t) ==
  /\ Waiting(t) /\ ~Sleeps(t)
  /\ \/ Again(t) /\ Sleep(t, call[t], queue)
     \/ ~Again(t) /\ Leave(t, queue)

-----------------------------------------------------------------------------
(* What wakes a waiter beside complete. *)

\* process_timeout (kernel/timer.c).  It may also run out between the wake-up
\* and the return of schedule_timeout, which then returns 0 all the same.
Expire(t) ==
  /\ call[t] \in Timed
  /\ ~expired[t]
  /\ expired' = [expired EXCEPT ![t] = TRUE]
  /\ Wake({t})
  /\ UNCHANGED << done, queue, call, signalled, released >>

\* signal_wake_up (kernel/signal.c)
Signal(t) ==
  /\ ~signalled[t]
  /\ signalled' = [signalled EXCEPT ![t] = TRUE]
  /\ Wake(IF call[t] \in Interruptible THEN {t} ELSE {})
  /\ UNCHANGED << done, queue, call, expired, released >>

Next ==
  \/ complete
  \/ complete_all
  \/ try_wait_for_completion
  \/ \E t \in Threads :
       \/ \E kind \in Calls : wait_for_common(t, kind)
       \/ Recheck(t)
       \/ Expire(t)
       \/ Signal(t)

Spec == Init /\ [][Next]_vars

\* A runnable thread runs.
FairSpec == Spec /\ \A t \in Threads : WF_vars(Recheck(t))

-----------------------------------------------------------------------------
(* Properties. *)

\* The variables keep their types; who sleeps here waits, and waits on the queue once.
TypeOK ==
  /\ done \in 0 .. UINT_MAX
  /\ queue \in Seq(Threads) /\ NoDuplicates(queue)
  /\ state \in [Threads -> {"running", "sleep"}]
  /\ call \in [Threads -> Calls \cup {"none"}]
  /\ expired \in [Threads -> BOOLEAN]
  /\ signalled \in [Threads -> BOOLEAN]
  /\ released \subseteq {t \in Threads : Waiting(t)}
  /\ Range(queue) = {t \in Threads : Waiting(t)}
  /\ \A t \in Threads : Sleeps(t) => Waiting(t)

Awake == {t \in Range(queue) : ~Sleeps(t)}

\* No token lies there while those it is for sleep: as many waiters are on their
\* way to look at the counter as it has tokens, or all of them.  Somebody else may
\* take the token first, a wake-up may hit one that a timer or a signal has woken.
NoStrandedWaiter ==
  Awake = Range(queue) \/ Cardinality(Awake) >= done

\* A completion is a counting semaphore: no token is taken twice or dropped when a
\* time-out or a signal races complete(), and nobody is told of a time-out or of a
\* signal while there is a token for it.
Semaphore == INSTANCE CountingSemaphore WITH
  Clients <- Threads, value <- done, waiting <- {t \in Threads : Waiting(t)}

\* The same, as a property of this specification.
ImplementsSemaphore == Semaphore!Spec

\* A waiter, of whatever kind, returns or sees the tokens taken by others.
WaiterReturns ==
  \A t \in Threads : Waiting(t) /\ done > 0 ~> ~Waiting(t) \/ done = 0

\* "complete_all: This will wake up all threads waiting on this particular
\* completion event" (core.c:3680): they stay awake until they return.
AllReleased == \A t \in released : ~Sleeps(t)
=============================================================================
