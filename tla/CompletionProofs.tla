-------------------------- MODULE CompletionProofs --------------------------
(***************************************************************************)
(* A completion wakes a waiter for every token, and is a counting          *)
(* semaphore as long as its counter does not wrap round; for every finite  *)
(* set of threads and every width of the counter.                          *)
(***************************************************************************)
EXTENDS Completion, DataProofs, FiniteSetTheorems, TLAPS

Waiters == {t \in Threads : Waiting(t)}

-----------------------------------------------------------------------------
(* Sets of waiters. *)

\* Sets of threads are finite, and the counter of each is a natural number.
LEMMA ThreadSets ==
  ASSUME NEW X \in SUBSET Threads
  PROVE  IsFiniteSet(X) /\ Cardinality(X) \in Nat
BY ThreadsFinite, FS_Subset, FS_CardinalityType

\* A counter that is not larger has no stranded waiters when more of them are awake.
LEMMA MoreAwake ==
  ASSUME TypeOK, TypeOK', NoStrandedWaiter,
         done' <= done, Range(queue)' = Range(queue), Awake \subseteq Awake'
  PROVE  NoStrandedWaiter'
<1>1. Awake' \subseteq Range(queue)' /\ Range(queue)' \subseteq Threads
  BY DEF Awake, TypeOK
<1>2. CASE Awake = Range(queue)
  BY <1>1, <1>2 DEF NoStrandedWaiter
<1>3. CASE Cardinality(Awake) >= done
  <2>1. Awake \in SUBSET Awake' /\ Awake' \in SUBSET Threads
    BY <1>1
  <2>2. Cardinality(Awake) <= Cardinality(Awake')
    BY <2>1, ThreadSets, FS_Subset
  <2>3. Cardinality(Awake) \in Nat /\ Cardinality(Awake') \in Nat
    BY <2>1, ThreadSets
  <2>4. done \in Nat /\ done' \in Nat
    BY CompletionAssumption DEF TypeOK
  <2> QED  BY <1>3, <2>2, <2>3, <2>4 DEF NoStrandedWaiter
<1> QED  BY <1>2, <1>3 DEF NoStrandedWaiter

\* Without tokens nobody is stranded.
LEMMA NoToken ==
  ASSUME TypeOK', done' = 0
  PROVE  NoStrandedWaiter'
<1>1. Awake' \in SUBSET Threads
  BY DEF Awake, TypeOK
<1>2. Cardinality(Awake') \in Nat
  BY <1>1, ThreadSets
<1> QED  BY <1>2 DEF NoStrandedWaiter

-----------------------------------------------------------------------------
(* The types. *)

\* Adding to the counter gives a value of its type.
LEMMA PlusType ==
  ASSUME done \in 0 .. UINT_MAX, NEW n \in Nat
  PROVE  /\ Plus(n) \in 0 .. UINT_MAX
         /\ Plus(n) <= done + n
<1> DEFINE M == UINT_MAX + 1
           s == done + n
<1>1. M \in Nat \ {0} /\ s \in Nat
  BY CompletionAssumption
<1>2. Plus(n) = s % M
  BY DEF Plus
<1> HIDE DEF M, s
<1>3. s % M \in 0 .. (M - 1)
  BY <1>1
<1>4. s % M <= s
  <2>1. CASE s < M
    BY <1>1, <2>1
  <2>2. CASE s >= M
    BY <1>1, <1>3, <2>2
  <2> QED  BY <1>1, <2>1, <2>2
<1> QED  BY <1>2, <1>3, <1>4, CompletionAssumption DEF M, s

\* Leaving the queue keeps the types: q is the queue, or the queue with t added.
LEMMA LeaveType ==
  ASSUME TypeOK, NEW t \in Threads, NEW q \in Seq(Threads), NoDuplicates(q),
         Range(q) \ {t} = Waiters \ {t}, Leave(t, q), ~Sleeps(t)
  PROVE  /\ TypeOK'
         /\ done' = IF done # 0 THEN done - 1 ELSE done
         /\ Range(queue') = Range(q) \ {t}
         /\ Waiters' = Waiters \ {t}
<1>1. /\ Unlinked(t, q) \in Seq(Threads)
      /\ NoDuplicates(Unlinked(t, q))
      /\ Range(Unlinked(t, q)) = Range(q) \ {t}
  <2>1. CASE t \in Range(q)
    BY <2>1, ListDel DEF Unlinked, Linked
  <2>2. CASE t \notin Range(q)
    BY <2>2 DEF Unlinked, Linked
  <2> QED  BY <2>1, <2>2
<1>2. queue' = Unlinked(t, q)
  BY DEF Leave
<1>3. done' \in 0 .. UINT_MAX /\ done' = IF done # 0 THEN done - 1 ELSE done
  BY CompletionAssumption DEF Leave, TypeOK
<1>4. /\ call' = [call EXCEPT ![t] = "none"]
      /\ expired' = [expired EXCEPT ![t] = FALSE]
      /\ signalled' = [signalled EXCEPT ![t] = FALSE]
      /\ released' = released \ {t}
      /\ state' = state
  BY DEF Leave, Return
<1>5. /\ call' \in [Threads -> Calls \cup {"none"}]
      /\ state' \in [Threads -> {"running", "sleep"}]
      /\ expired' \in [Threads -> BOOLEAN]
      /\ signalled' \in [Threads -> BOOLEAN]
  BY <1>4 DEF TypeOK
<1>6. \A u \in Threads : call'[u] = IF u = t THEN "none" ELSE call[u]
  BY <1>4 DEF TypeOK
<1>7. Waiters' = Waiters \ {t}
  BY <1>6 DEF Waiters, Waiting
<1>8. released' \subseteq Waiters'
  BY <1>4, <1>7 DEF TypeOK, Waiters
<1>9. Range(queue') = Waiters'
  BY <1>1, <1>2, <1>7
<1>10. \A u \in Threads : Sleeps(u)' => Waiting(u)'
  BY <1>4, <1>6 DEF TypeOK, Sleeps, Waiting
<1> QED  BY <1>1, <1>2, <1>3, <1>5, <1>7, <1>8, <1>9, <1>10 DEF TypeOK, Waiters

\* So does going to sleep on it.
LEMMA SleepType ==
  ASSUME TypeOK, NEW t \in Threads, NEW kind \in Calls, NEW q \in Seq(Threads),
         NoDuplicates(q), Range(q) = Waiters \cup {t},
         queue' = q, call' = [call EXCEPT ![t] = kind],
         state' = [state EXCEPT ![t] = "sleep"],
         UNCHANGED << done, expired, signalled, released >>
  PROVE  TypeOK' /\ Waiters' = Waiters \cup {t}
<1>1. kind # "none"
  BY CompletionAssumption
<1>2. \A u \in Threads : /\ call'[u] = IF u = t THEN kind ELSE call[u]
                         /\ state'[u] = IF u = t THEN "sleep" ELSE state[u]
  BY DEF TypeOK
<1>3. Waiters' = Waiters \cup {t}
  BY <1>1, <1>2 DEF Waiters, Waiting
<1>4. /\ call' \in [Threads -> Calls \cup {"none"}]
      /\ state' \in [Threads -> {"running", "sleep"}]
  BY DEF TypeOK
<1>5. \A u \in Threads : Sleeps(u)' => Waiting(u)'
  BY <1>1, <1>2 DEF TypeOK, Sleeps, Waiting
<1>6. released' \subseteq Waiters' /\ Range(queue') = Waiters'
  BY <1>3 DEF TypeOK, Waiters
<1> QED  BY <1>3, <1>4, <1>5, <1>6 DEF TypeOK, Waiters

-----------------------------------------------------------------------------
(* The invariant, action by action. *)

IInv == TypeOK /\ NoStrandedWaiter

\* A thread is in one of the two states.
LEMMA TwoStates ==
  ASSUME TypeOK, NEW t \in Threads
  PROVE  state[t] = "running" <=> ~Sleeps(t)
BY DEF TypeOK, Sleeps

\* Waking threads keeps the types and takes nobody off Awake.
LEMMA WakeOK ==
  ASSUME TypeOK, NEW woken \in SUBSET Threads, Wake(woken),
         done' \in 0 .. UINT_MAX, UNCHANGED << queue, call >>,
         expired' \in [Threads -> BOOLEAN], signalled' \in [Threads -> BOOLEAN],
         released' \subseteq Waiters
  PROVE  /\ TypeOK'
         /\ Awake' = Awake \cup (woken \cap Range(queue))
         /\ Range(queue)' = Range(queue)
<1>1. state' \in [Threads -> {"running", "sleep"}]
  BY DEF TypeOK, Wake
<1>2. \A t \in Threads : state'[t] = IF t \in woken THEN "running" ELSE state[t]
  BY DEF Wake
<1>3. \A t \in Threads : Sleeps(t)' <=> Sleeps(t) /\ t \notin woken
  BY <1>2 DEF Sleeps
<1>4. Range(queue) \subseteq Threads
  BY DEF TypeOK
<1>5. TypeOK'
  BY <1>1, <1>3 DEF TypeOK, Waiters, Waiting
<1> QED  BY <1>3, <1>4, <1>5 DEF Awake

\* complete() adds a token and wakes a waiter, unless none sleeps.
LEMMA CompleteOK == IInv /\ complete => IInv'
<1> SUFFICES ASSUME IInv, complete PROVE IInv'
  OBVIOUS
<1> DEFINE woken == __wake_up_common(1)
<1>1. TypeOK /\ NoStrandedWaiter
  BY DEF IInv
<1>2. woken \in SUBSET Threads /\ Wake(woken)
  BY <1>1 DEF __wake_up_common, complete, TypeOK
<1>3. done' \in 0 .. UINT_MAX /\ done' <= done + 1
  BY <1>1, PlusType DEF complete, TypeOK
<1>4. /\ TypeOK'
      /\ Awake' = Awake \cup (woken \cap Range(queue))
      /\ Range(queue)' = Range(queue)
  BY <1>1, <1>2, <1>3, WakeOK DEF complete, TypeOK, Waiters
<1>5. CASE Awake = Range(queue)
  BY <1>4, <1>5 DEF NoStrandedWaiter, IInv
<1>6. CASE Awake # Range(queue)
  <2> DEFINE X == {t \in Range(queue) : Sleeps(t)}
  <2>1. X \cap Range(queue) # {}
    BY <1>6 DEF Awake
  <2>2. PICK e \in X \cap Range(queue) : \A x \in X : ~Ahead(x, e, queue)
    BY <1>1, <2>1, FirstOnList DEF TypeOK
  <2>3. {u \in Range(queue) : Sleeps(u) /\ Ahead(u, e, queue)} = {}
    BY <2>2
  <2>4. e \in woken
    BY <2>2, <2>3, FS_EmptySet DEF __wake_up_common
  <2>5. e \notin Awake /\ e \in Awake'
    BY <1>4, <2>2, <2>4 DEF Awake
  <2>6. Awake \in SUBSET Threads /\ Awake \cup {e} \in SUBSET Awake' /\ Awake' \in SUBSET Threads
    BY <1>1, <1>4, <2>5 DEF Awake, TypeOK
  <2>7. Cardinality(Awake \cup {e}) = Cardinality(Awake) + 1
    BY <2>5, <2>6, ThreadSets, FS_AddElement
  <2>8. Cardinality(Awake \cup {e}) <= Cardinality(Awake')
    BY <2>6, ThreadSets, FS_Subset
  <2>9. Cardinality(Awake) \in Nat /\ Cardinality(Awake') \in Nat
    BY <2>6, ThreadSets
  <2>10. Cardinality(Awake) >= done
    BY <1>1, <1>6 DEF NoStrandedWaiter
  <2>11. done \in Nat /\ done' \in Nat
    BY <1>1, <1>3, CompletionAssumption DEF TypeOK
  <2>12. Cardinality(Awake') >= done'
    BY <1>3, <2>7, <2>8, <2>9, <2>10, <2>11
  <2> QED  BY <1>4, <2>12 DEF NoStrandedWaiter, IInv
<1> QED  BY <1>5, <1>6

\* complete_all() leaves no waiter asleep, even if its addition wraps round.
LEMMA CompleteAllOK == IInv /\ complete_all => IInv'
<1> SUFFICES ASSUME IInv, complete_all PROVE IInv'
  OBVIOUS
<1> DEFINE woken == __wake_up_common(0)
<1>1. TypeOK
  BY DEF IInv
<1>2. woken \in SUBSET Threads /\ Wake(woken)
  BY <1>1 DEF __wake_up_common, complete_all, TypeOK
<1>3. UINT_MAX \div 2 \in Nat
  BY CompletionAssumption
<1>4. done' \in 0 .. UINT_MAX
  BY <1>1, <1>3, PlusType DEF complete_all, TypeOK
<1>5. /\ TypeOK'
      /\ Awake' = Awake \cup (woken \cap Range(queue))
      /\ Range(queue)' = Range(queue)
  BY <1>1, <1>2, <1>4, WakeOK DEF complete_all, TypeOK, Waiters
<1>6. Awake' = Range(queue)'
  BY <1>5 DEF Awake, __wake_up_common
<1> QED  BY <1>5, <1>6 DEF NoStrandedWaiter, IInv

\* A token taken by somebody who did not wait strands nobody.
LEMMA TryWaitOK == IInv /\ try_wait_for_completion => IInv'
<1> SUFFICES ASSUME IInv, try_wait_for_completion PROVE IInv'
  OBVIOUS
<1>1. TypeOK /\ NoStrandedWaiter
  BY DEF IInv
<1>2. done' \in 0 .. UINT_MAX /\ done' <= done
  BY <1>1, CompletionAssumption DEF TypeOK, try_wait_for_completion
<1>3. TypeOK'
  BY <1>1, <1>2 DEF TypeOK, try_wait_for_completion, Waiting, Sleeps
<1>4. Awake' = Awake /\ Range(queue)' = Range(queue)
  BY DEF Awake, Sleeps, try_wait_for_completion
<1> QED  BY <1>1, <1>2, <1>3, <1>4, MoreAwake DEF IInv

\* A waiter that is awake leaves with a token, or there is none.
LEMMA LeaveOK ==
  ASSUME IInv, NEW t \in Threads, NEW q \in Seq(Threads), NoDuplicates(q),
         Leave(t, q), ~Sleeps(t),
         \/ q = queue
         \/ done = 0 /\ Range(q) = Waiters \cup {t}
  PROVE  IInv'
<1>1. TypeOK /\ NoStrandedWaiter /\ Range(queue) = Waiters
  BY DEF IInv, TypeOK, Waiters
<1>2. /\ TypeOK'
      /\ done' = IF done # 0 THEN done - 1 ELSE done
      /\ Range(queue') = Range(q) \ {t}
  BY <1>1, LeaveType
<1>3. CASE done = 0
  BY <1>2, <1>3, NoToken DEF IInv
<1>4. CASE done # 0
  <2>1. state' = state /\ Range(queue)' = Range(queue) \ {t}
    BY <1>2, <1>4 DEF Leave, Return
  <2>2. Awake' = Awake \ {t}
    BY <2>1 DEF Awake, Sleeps
  <2>3. CASE Awake = Range(queue)
    BY <1>2, <2>1, <2>2, <2>3 DEF NoStrandedWaiter, IInv
  <2>4. CASE Cardinality(Awake) >= done
    <3>1. Awake \in SUBSET Threads
      BY <1>1 DEF Awake, TypeOK
    <3>2. Cardinality(Awake') >= Cardinality(Awake) - 1
      <4>1. Cardinality(Awake \ {t}) = IF t \in Awake THEN Cardinality(Awake) - 1
                                                      ELSE Cardinality(Awake)
        BY <3>1, ThreadSets, FS_RemoveElement
      <4>2. Cardinality(Awake) \in Nat
        BY <3>1, ThreadSets
      <4> QED  BY <2>2, <4>1, <4>2
    <3>3. Cardinality(Awake) \in Nat /\ Cardinality(Awake') \in Nat
      BY <2>2, <3>1, ThreadSets
    <3>4. done \in Nat /\ done' = done - 1
      BY <1>1, <1>2, <1>4, CompletionAssumption DEF TypeOK
    <3>5. Cardinality(Awake') >= done'
      BY <2>4, <3>2, <3>3, <3>4
    <3> QED  BY <1>2, <3>5 DEF NoStrandedWaiter, IInv
  <2> QED  BY <1>1, <2>3, <2>4 DEF NoStrandedWaiter
<1> QED  BY <1>3, <1>4

\* Nobody goes to sleep while there is a token.
LEMMA SleepOK ==
  ASSUME IInv, NEW t \in Threads, NEW kind \in Calls, NEW q \in Seq(Threads),
         NoDuplicates(q), Range(q) = Waiters \cup {t},
         done = 0, ~Sleeps(t), Sleep(t, kind, q)
  PROVE  IInv'
<1>1. TypeOK
  BY DEF IInv
<1>2. CASE Leave(t, q)
  BY <1>2, LeaveOK
<1>3. CASE ~Leave(t, q)
  <2>1. /\ queue' = q
        /\ call' = [call EXCEPT ![t] = kind]
        /\ state' = [state EXCEPT ![t] = "sleep"]
        /\ UNCHANGED << done, expired, signalled, released >>
    BY <1>3 DEF Sleep
  <2>2. TypeOK'
    BY <1>1, <2>1, SleepType
  <2> QED  BY <2>1, <2>2, NoToken DEF IInv
<1> QED  BY <1>2, <1>3

\* A wait that begins takes a token, or finds none.
LEMMA WaitForCommonOK ==
  ASSUME IInv, NEW t \in Threads, NEW kind \in Calls, wait_for_common(t, kind)
  PROVE  IInv'
<1>1. TypeOK /\ Range(queue) = Waiters
  BY DEF IInv, TypeOK, Waiters
<1>2. t \notin Range(queue) /\ ~Sleeps(t)
  BY <1>1 DEF wait_for_common, Waiters, TypeOK
<1>3. CASE done # 0
  BY <1>1, <1>2, <1>3, LeaveOK DEF wait_for_common, TypeOK
<1>4. CASE done = 0
  <2> DEFINE q == list_add_tail(t, queue)
  <2>1. q \in Seq(Threads) /\ NoDuplicates(q) /\ Range(q) = Range(queue) \cup {t}
    BY <1>1, <1>2, ListAddTail DEF TypeOK
  <2>2. Sleep(t, kind, q)
    BY <1>4 DEF wait_for_common
  <2> HIDE DEF q
  <2> QED  BY <1>1, <1>2, <1>4, <2>1, <2>2, SleepOK
<1> QED  BY <1>3, <1>4

\* A waiter back from schedule_timeout leaves, or finds no token.
LEMMA RecheckOK ==
  ASSUME IInv, NEW t \in Threads, Recheck(t)
  PROVE  IInv'
<1>1. TypeOK /\ Range(queue) = Waiters
  BY DEF IInv, TypeOK, Waiters
<1>2. ~Sleeps(t) /\ t \in Waiters /\ call[t] \in Calls
  BY <1>1 DEF Recheck, Waiters, Waiting, TypeOK
<1>3. CASE Again(t)
  <2>1. done = 0 /\ Sleep(t, call[t], queue)
    BY <1>3 DEF Recheck, Again
  <2> QED  BY <1>1, <1>2, <2>1, SleepOK DEF TypeOK
<1>4. CASE ~Again(t)
  BY <1>1, <1>2, <1>4, LeaveOK DEF Recheck, TypeOK
<1> QED  BY <1>3, <1>4

\* A timer or a signal wakes at most one more.
LEMMA ExpireSignalOK ==
  ASSUME IInv, NEW t \in Threads, Expire(t) \/ Signal(t)
  PROVE  IInv'
<1>1. TypeOK /\ NoStrandedWaiter
  BY DEF IInv
<1>2. PICK woken \in SUBSET Threads : Wake(woken)
  BY DEF Expire, Signal
<1>3. /\ UNCHANGED << done, queue, call, released >>
      /\ done' \in 0 .. UINT_MAX
      /\ expired' \in [Threads -> BOOLEAN]
      /\ signalled' \in [Threads -> BOOLEAN]
      /\ released' \subseteq Waiters
  BY <1>1 DEF Expire, Signal, TypeOK, Waiters
<1>4. /\ TypeOK'
      /\ Awake' = Awake \cup (woken \cap Range(queue))
      /\ Range(queue)' = Range(queue)
  BY <1>1, <1>2, <1>3, WakeOK
<1>5. done' <= done
  BY <1>1, <1>3, CompletionAssumption DEF TypeOK
<1> QED  BY <1>1, <1>4, <1>5, MoreAwake DEF IInv

\* A completion starts with no token and no waiter.
LEMMA InitOK == Init => IInv
<1> SUFFICES ASSUME Init PROVE IInv
  OBVIOUS
<1>1. Range(queue) = {}
  BY DEF Init, Range
<1>2. TypeOK
  BY <1>1, CompletionAssumption DEF Init, TypeOK, Waiting, Sleeps, NoDuplicates
<1>3. NoStrandedWaiter
  BY <1>1 DEF NoStrandedWaiter, Awake
<1> QED  BY <1>2, <1>3 DEF IInv

\* Every step keeps the invariant.
LEMMA NextOK == IInv /\ [Next]_vars => IInv'
<1> SUFFICES ASSUME IInv, [Next]_vars PROVE IInv'
  OBVIOUS
<1>1. CASE complete
  BY <1>1, CompleteOK
<1>2. CASE complete_all
  BY <1>2, CompleteAllOK
<1>3. CASE try_wait_for_completion
  BY <1>3, TryWaitOK
<1>4. ASSUME NEW t \in Threads, NEW kind \in Calls, wait_for_common(t, kind) PROVE IInv'
  BY <1>4, WaitForCommonOK
<1>5. ASSUME NEW t \in Threads, Recheck(t) PROVE IInv'
  BY <1>5, RecheckOK
<1>6. ASSUME NEW t \in Threads, Expire(t) \/ Signal(t) PROVE IInv'
  BY <1>6, ExpireSignalOK
<1>7. CASE UNCHANGED vars
  BY <1>7 DEF vars, IInv, TypeOK, NoStrandedWaiter, Awake, Waiting, Sleeps
<1> QED  BY <1>1, <1>2, <1>3, <1>4, <1>5, <1>6, <1>7 DEF Next

\* The invariant holds of every behaviour: the types of struct completion and of its
\* waiters, and NoStrandedWaiter.
THEOREM InvariantHolds == Spec => []IInv
BY InitOK, NextOK, PTL DEF Spec

\* Every variable keeps its type, the waiters are on the wait queue once each.
THEOREM TypeCorrect == Spec => []TypeOK
BY InvariantHolds, PTL DEF IInv

\* No token of complete() lies in x->done while those it is for sleep.
THEOREM NobodyStranded == Spec => []NoStrandedWaiter
BY InvariantHolds, PTL DEF IInv

-----------------------------------------------------------------------------
(* The refinement, as long as the counter does not wrap round. *)

\* Leaving takes a token, or there is none and a waiter gives up, or one that has
\* not been seen waiting goes again.
LEMMA LeaveRefines ==
  ASSUME TypeOK, NEW t \in Threads, NEW q, Leave(t, q)
  PROVE  [Semaphore!Next]_(Semaphore!vars)
<1>1. done \in Nat
  BY CompletionAssumption DEF TypeOK
<1>2. /\ done' = IF done # 0 THEN done - 1 ELSE done
      /\ call' = [call EXCEPT ![t] = "none"]
  BY DEF Leave, Return
<1>3. Waiters' = Waiters \ {t}
  BY <1>2 DEF TypeOK, Waiters, Waiting
<1>4. CASE done # 0
  <2>1. Semaphore!Take
    BY <1>1, <1>2, <1>3, <1>4 DEF Semaphore!Take, Waiters
  <2> QED  BY <2>1 DEF Semaphore!Next
<1>5. CASE done = 0 /\ t \in Waiters
  <2>1. Semaphore!GiveUp(t)
    BY <1>2, <1>3, <1>5 DEF Semaphore!GiveUp, Waiters
  <2> QED  BY <2>1 DEF Semaphore!Next
<1>6. CASE done = 0 /\ t \notin Waiters
  <2>1. done' = done /\ Waiters' = Waiters
    BY <1>2, <1>3, <1>6
  <2> QED  BY <2>1 DEF Semaphore!vars, Waiters
<1> QED  BY <1>4, <1>5, <1>6

\* Going to sleep starts a wait, or goes on with it.
LEMMA SleepRefines ==
  ASSUME TypeOK, NEW t \in Threads, NEW kind \in Calls, NEW q, done = 0,
         Sleep(t, kind, q)
  PROVE  [Semaphore!Next]_(Semaphore!vars)
<1>1. CASE Leave(t, q)
  BY <1>1, LeaveRefines
<1>2. CASE ~Leave(t, q)
  <2>1. call' = [call EXCEPT ![t] = kind] /\ done' = done /\ kind # "none"
    BY <1>2, CompletionAssumption DEF Sleep
  <2>2. Waiters' = Waiters \cup {t}
    BY <2>1 DEF TypeOK, Waiters, Waiting
  <2>3. CASE t \in Waiters
    <3>1. Waiters' = Waiters
      BY <2>2, <2>3
    <3> QED  BY <2>1, <3>1 DEF Semaphore!vars, Waiters
  <2>4. CASE t \notin Waiters
    <3>1. Semaphore!StartWaiting(t)
      BY <2>1, <2>2, <2>4 DEF Semaphore!StartWaiting, Waiters
    <3> QED  BY <3>1 DEF Semaphore!Next
  <2> QED  BY <2>3, <2>4
<1> QED  BY <1>1, <1>2

\* Within the width of the counter Plus is an addition.
LEMMA NoWrap ==
  ASSUME done \in 0 .. UINT_MAX, NEW n \in Nat, done + n <= UINT_MAX
  PROVE  Plus(n) = done + n
<1>1. done + n \in Nat /\ UINT_MAX + 1 \in Nat \ {0} /\ done + n < UINT_MAX + 1
  BY CompletionAssumption
<1>2. (done + n) % (UINT_MAX + 1) = done + n
  BY <1>1
<1> QED  BY <1>2 DEF Plus

\* Every step is one of the semaphore, or none.
LEMMA StepRefines ==
  ASSUME MaxDone <= UINT_MAX, TypeOK, [Next]_vars
  PROVE  [Semaphore!Next]_(Semaphore!vars)
<1>1. done \in Nat /\ UINT_MAX \in Nat /\ MaxDone \in Nat
  BY CompletionAssumption DEF TypeOK
<1>2. CASE complete \/ complete_all
  <2>1. PICK n \in Nat : done' = Plus(n) /\ done + n <= MaxDone
    <3>1. UINT_MAX \div 2 \in Nat
      BY <1>1
    <3> QED  BY <1>2, <3>1 DEF complete, complete_all
  <2>2. done + n <= UINT_MAX
    BY <1>1, <2>1
  <2>3. done' = done + n
    BY <2>1, <2>2, NoWrap DEF TypeOK
  <2>4. Waiters' = Waiters
    BY <1>2 DEF complete, complete_all, Waiters, Waiting
  <2>5. CASE n = 0
    <3>1. done' = done
      BY <1>1, <2>3, <2>5
    <3> QED  BY <2>4, <3>1 DEF Semaphore!vars, Waiters
  <2>6. CASE n # 0
    <3>1. done' \in Nat /\ done' > done
      BY <1>1, <2>3, <2>6
    <3>2. Semaphore!Post
      BY <2>4, <3>1 DEF Semaphore!Post, Waiters
    <3> QED  BY <3>2 DEF Semaphore!Next
  <2> QED  BY <2>5, <2>6
<1>3. CASE try_wait_for_completion
  <2>1. done > 0 /\ done' = done - 1 /\ Waiters' = Waiters
    BY <1>1, <1>3 DEF try_wait_for_completion, Waiters, Waiting
  <2>2. Semaphore!Take
    BY <2>1 DEF Semaphore!Take, Waiters
  <2> QED  BY <2>2 DEF Semaphore!Next
<1>4. ASSUME NEW t \in Threads, NEW kind \in Calls, wait_for_common(t, kind)
      PROVE  [Semaphore!Next]_(Semaphore!vars)
  BY <1>4, LeaveRefines, SleepRefines DEF wait_for_common
<1>5. ASSUME NEW t \in Threads, Recheck(t)
      PROVE  [Semaphore!Next]_(Semaphore!vars)
  <2>1. call[t] \in Calls
    BY <1>5 DEF Recheck, Waiting, TypeOK
  <2> QED  BY <1>5, <2>1, LeaveRefines, SleepRefines DEF Recheck, Again
<1>6. ASSUME NEW t \in Threads, Expire(t) \/ Signal(t)
      PROVE  [Semaphore!Next]_(Semaphore!vars)
  <2>1. done' = done /\ Waiters' = Waiters
    BY <1>6 DEF Expire, Signal, Waiters, Waiting
  <2> QED  BY <2>1 DEF Semaphore!vars, Waiters
<1>7. CASE UNCHANGED vars
  BY <1>7 DEF vars, Semaphore!vars, Waiting
<1> QED  BY <1>2, <1>3, <1>4, <1>5, <1>6, <1>7 DEF Next

\* A completion whose counter is never raised beyond UINT_MAX is a counting semaphore:
\* tokens are neither lost nor taken twice, whatever timers and signals do.
THEOREM Refinement == MaxDone <= UINT_MAX /\ Spec => ImplementsSemaphore
<1> SUFFICES ASSUME MaxDone <= UINT_MAX PROVE Spec => ImplementsSemaphore
  OBVIOUS
<1>1. Init => Semaphore!Init
  BY DEF Init, Semaphore!Init, Waiting
<1>2. TypeOK /\ [Next]_vars => [Semaphore!Next]_(Semaphore!vars)
  BY StepRefines
<1> QED  BY <1>1, <1>2, TypeCorrect, PTL DEF Spec, ImplementsSemaphore, Semaphore!Spec
=============================================================================
