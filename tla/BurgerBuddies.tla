--------------------------- MODULE BurgerBuddies ---------------------------
(***************************************************************************)
(* Prj1/problem4/BurgerBuddies.c: cooks put burgers on a rack, cashiers    *)
(* take orders and hand burgers over, customers order, take and leave; all *)
(* are POSIX threads that meet at eight semaphores.                        *)
(*                                                                         *)
(* What a thread does is a table: the sequence of its semaphore operations *)
(* and accesses to shared variables, one step each.  A name that module    *)
(* ProcTree has too carries BB: Prj1Proofs is about both.                  *)
(***************************************************************************)
EXTENDS Integers, Sequences, FiniteSets

CONSTANTS
  Cooks, Cashiers, Customers,   \* the threads
  rack_num                      \* places on the rack

\* arg_parser refuses numbers that are not positive.
ASSUME arg_parser ==
  /\ IsFiniteSet(Cooks) /\ IsFiniteSet(Cashiers) /\ IsFiniteSet(Customers)
  /\ Cooks # {} /\ Cashiers # {} /\ Customers # {}
  /\ Cooks \cap Cashiers = {} /\ Cooks \cap Customers = {} /\ Cashiers \cap Customers = {}
  /\ rack_num \in Nat \ {0}

Threads == Cooks \cup Cashiers \cup Customers
cust_num == Cardinality(Customers)

Mutexes == {"mutex_print", "mutex_rack", "mutex_entry", "mutex_leave"}
Sems == Mutexes \cup {"empty_rack", "burger_num", "order_num", "provide_num"}

VARIABLES
  sem,                \* the values of the semaphores
  ip,                 \* the next step of each thread; 0 before its creation
  tmp,                \* the value of left_num a customer has loaded
  left_num,
  terminate_signal,
  main,               \* where main is
  hoisted             \* the compiler has moved main's read out of its loop

bbVars == << sem, ip, tmp, left_num, terminate_signal, main, hoisted >>

-----------------------------------------------------------------------------
wait(s) == << "wait", s >>
post(s) == << "post", s >>
access(what) == << what, "" >>

\* Mutant: the cook does not wait for an empty place.
cook_func_NoPlace ==
  << wait("mutex_rack"), wait("mutex_print"), post("mutex_print"),
     post("mutex_rack"), post("burger_num") >>

cook_func ==
  << wait("empty_rack"), wait("mutex_rack"),
     wait("mutex_print"), post("mutex_print"),        \* "make a burger"
     post("mutex_rack"), post("burger_num") >>

\* Mutant: the cashier locks the rack before there is a burger.
cashier_func_LockFirst ==
  << wait("order_num"),
     wait("mutex_print"), post("mutex_print"),
     wait("mutex_rack"), wait("burger_num"),
     wait("mutex_print"), post("mutex_print"),
     post("provide_num"), post("empty_rack"), post("mutex_rack") >>

cashier_func ==
  << wait("order_num"),
     wait("mutex_print"), post("mutex_print"),        \* "accepts an order"
     wait("burger_num"), wait("mutex_rack"),
     wait("mutex_print"), post("mutex_print"),        \* "take a burger"
     post("provide_num"), post("empty_rack"), post("mutex_rack") >>

custom_func ==
  << wait("mutex_entry"),
     wait("mutex_print"), post("mutex_print"),        \* "come"
     post("order_num"), post("mutex_entry"),
     wait("provide_num"), wait("mutex_leave"),
     access("load"), access("store"), access("check"),
     post("mutex_leave") >>

Code(t) == IF t \in Cooks THEN cook_func ELSE IF t \in Cashiers THEN cashier_func
           ELSE custom_func

\* The thread has been created and has a step to take (main's return ends the
\* whole process).
Runs(t) == main # "exit" /\ ip[t] \in DOMAIN Code(t)

\* Cooks and cashiers go round for ever.
Advance(t) ==
  ip' = [ip EXCEPT ![t] = IF t \notin Customers /\ @ = Len(Code(t)) THEN 1 ELSE @ + 1]

-----------------------------------------------------------------------------
BBInit ==
  /\ sem = [s \in Sems |-> IF s \in Mutexes THEN 1
                           ELSE IF s = "empty_rack" THEN rack_num ELSE 0]
  /\ ip = [t \in Threads |-> 0]
  /\ tmp = [t \in Customers |-> 0]
  /\ left_num = 0
  /\ terminate_signal = 0
  /\ main = "create"
  /\ hoisted \in BOOLEAN

sem_wait(t) ==
  /\ Runs(t)
  /\ Code(t)[ip[t]][1] = "wait"
  /\ LET s == Code(t)[ip[t]][2]
     IN  sem[s] > 0 /\ sem' = [sem EXCEPT ![s] = @ - 1]
  /\ Advance(t)
  /\ UNCHANGED << tmp, left_num, terminate_signal, main, hoisted >>

sem_post(t) ==
  /\ Runs(t)
  /\ Code(t)[ip[t]][1] = "post"
  /\ LET s == Code(t)[ip[t]][2]
     IN  sem' = [sem EXCEPT ![s] = @ + 1]
  /\ Advance(t)
  /\ UNCHANGED << tmp, left_num, terminate_signal, main, hoisted >>

\* left_num++ is a load and a store.
LoadLeftNum(t) ==
  /\ Runs(t)
  /\ Code(t)[ip[t]][1] = "load"
  /\ tmp' = [tmp EXCEPT ![t] = left_num]
  /\ Advance(t)
  /\ UNCHANGED << sem, left_num, terminate_signal, main, hoisted >>

StoreLeftNum(t) ==
  /\ Runs(t)
  /\ Code(t)[ip[t]][1] = "store"
  /\ left_num' = tmp[t] + 1
  /\ Advance(t)
  /\ UNCHANGED << sem, tmp, terminate_signal, main, hoisted >>

\* Mutant: the last but one customer turns the light off.
IsLast_OffByOne == left_num >= cust_num - 1

\* Mutant: nobody is the last.
IsLast_Beyond == left_num > cust_num

IsLast == left_num = cust_num

CheckLeftNum(t) ==
  /\ Runs(t)
  /\ Code(t)[ip[t]][1] = "check"
  /\ terminate_signal' = IF IsLast THEN 1 ELSE terminate_signal
  /\ Advance(t)
  /\ UNCHANGED << sem, tmp, left_num, main, hoisted >>

ThreadStep(t) ==
  sem_wait(t) \/ sem_post(t) \/ LoadLeftNum(t) \/ StoreLeftNum(t) \/ CheckLeftNum(t)

-----------------------------------------------------------------------------
(* main. *)

Created(t) == ip[t] # 0

\* thread_create starts the cooks, then the cashiers, then the customers.
thread_create(t) ==
  /\ main = "create"
  /\ ~Created(t)
  /\ t \notin Cooks => \A c \in Cooks : Created(c)
  /\ t \in Customers => \A c \in Cashiers : Created(c)
  /\ ip' = [ip EXCEPT ![t] = 1]
  /\ main' = IF \A u \in Threads \ {t} : Created(u) THEN "loop" ELSE "create"
  /\ UNCHANGED << sem, tmp, left_num, terminate_signal, hoisted >>

\* pthread_create fails: main returns, and ends the threads there are.
thread_create_fails ==
  /\ main = "create"
  /\ main' = "exit"
  /\ UNCHANGED << sem, ip, tmp, left_num, terminate_signal, hoisted >>

\* while(!terminate_signal): an unsynchronised read of a plain int in a loop
\* without side effects, which the compiler may do once, before the loop.
ReadTerminateSignal ==
  /\ main = "loop"
  /\ main' = IF terminate_signal = 1 THEN "kill" ELSE IF hoisted THEN "spin" ELSE "loop"
  /\ UNCHANGED << sem, ip, tmp, left_num, terminate_signal, hoisted >>

\* thread_kill sends signal 0, which does nothing; thread_free; return.
main_returns ==
  /\ main = "kill"
  /\ main' = "exit"
  /\ UNCHANGED << sem, ip, tmp, left_num, terminate_signal, hoisted >>

BBNext ==
  \/ \E t \in Threads : ThreadStep(t) \/ thread_create(t)
  \/ thread_create_fails
  \/ ReadTerminateSignal
  \/ main_returns

BBSpec == BBInit /\ [][BBNext]_bbVars

\* The operating system schedules every thread.
Fairness ==
  /\ \A t \in Threads : WF_bbVars(ThreadStep(t)) /\ WF_bbVars(thread_create(t))
  /\ WF_bbVars(ReadTerminateSignal)
  /\ WF_bbVars(main_returns)

BBFairSpec == BBSpec /\ Fairness

-----------------------------------------------------------------------------
(* What the program promises. *)

\* Every variable has its type; no semaphore is ever negative.
BBTypeOK ==
  /\ sem \in [Sems -> Nat]
  /\ ip \in [Threads -> 0 .. 12]
  /\ \A t \in Threads : ip[t] <= Len(Code(t)) + (IF t \in Customers THEN 1 ELSE 0)
  /\ tmp \in [Customers -> Nat]
  /\ left_num \in Nat
  /\ terminate_signal \in {0, 1}
  /\ main \in {"create", "loop", "spin", "kill", "exit"}
  /\ hoisted \in BOOLEAN

\* The threads at steps a to b.
At(T, a, b) == {t \in T : ip[t] \in a .. b}
Count(T, a, b) == Cardinality(At(T, a, b))

\* The threads between their wait and their post of a mutex.
Holders(m) ==
  CASE m = "mutex_print" -> At(Cooks, 4, 4) \cup At(Cashiers, 3, 3) \cup At(Cashiers, 7, 7)
                                           \cup At(Customers, 3, 3)
    [] m = "mutex_rack"  -> At(Cooks, 3, 5) \cup At(Cashiers, 6, 10)
    [] m = "mutex_entry" -> At(Customers, 2, 5)
    [] m = "mutex_leave" -> At(Customers, 8, 11)

\* At most one thread is inside each critical section, and the mutex is free
\* when none is.
MutualExclusion ==
  \A m \in Mutexes : sem[m] + Cardinality(Holders(m)) = 1

\* Every place on the rack is empty, or holds a burger, or is being filled by
\* one cook or emptied by one cashier: there are never more burgers than
\* places, and no place is lost.
RackConserved ==
  sem["empty_rack"] + sem["burger_num"] + Count(Cooks, 2, 6) + Count(Cashiers, 5, 9) = rack_num

\* Every customer who has ordered and not yet taken a burger is matched by an
\* order on the counter, a cashier serving one, or a burger handed over:
\* nobody's order is lost, nobody is served twice.
OrdersMatched ==
  sem["order_num"] + Count(Cashiers, 2, 8) + sem["provide_num"] = Count(Customers, 5, 6)

\* The books of cooks, cashiers and customers agree at every step, within the
\* types: they are kept by semaphores that are posted in one order and waited
\* for in another (BurgerBuddies.c:69-129), here by all of them at once.
Consistent == BBTypeOK /\ MutualExclusion /\ RackConserved /\ OrdersMatched

\* left_num counts the customers who have left, and the last one is the last.
LeavesCounted ==
  /\ left_num = Count(Customers, 10, 12)
  /\ terminate_signal = 1 => \A c \in Customers : ip[c] >= 10
  /\ main = "kill" => terminate_signal = 1

\* left_num++ is not atomic, and yet main leaves its loop only when every
\* customer has been served.  Sooner, under threads that are at work, it ends
\* the process for one reason only: a thread that it could not create
\* (BurgerBuddies.c:143, 146, 149).
LastCustomerEndsMain ==
  /\ LeavesCounted
  /\ main = "exit" /\ (\E c \in Customers : ip[c] < 10) => \E t \in Threads : ~Created(t)

\* Once all threads exist, every customer is served: the semaphores of the
\* three kinds of threads never close a circle.
EveryoneServed == (main = "loop") ~> (\A c \in Customers : ip[c] = 12 \/ main = "exit")

\* main returns after the last customer, if the compiler reads
\* terminate_signal each time round.
MainReturns == (main = "loop" /\ ~hoisted) ~> (main = "exit")
=============================================================================
