------------------------------ MODULE ProcTree ------------------------------
(***************************************************************************)
(* The ptree system call (Prj1/problem1, 2, 3: hello.c): each kernel       *)
(* module puts its function in the same slot of the system call table;     *)
(* the call walks the tree of the tasks under the read side of             *)
(* tasklist_lock and copies a record for each to the caller.  A step of    *)
(* the walk is one record or one return of dfs_ptree; calls run in         *)
(* parallel, tasks fork and exit when nobody holds the lock.  The model    *)
(* stops where a walk writes beyond the records that are allocated: that   *)
(* memory is somebody else's, and what comes of it is undefined.           *)
(***************************************************************************)
EXTENDS LinkedList, FiniteSets

CONSTANTS
  Tasks, InitTask,
  Callers,          \* the processes that call
  Mods,             \* the kernel modules, one for each problem
  Orig,             \* what the slot holds at boot: sys_ni_syscall
  None,             \* pid 0, a parent pointer that is NULL, the list head
  BufRecords,       \* the records that are allocated: 1024
  MaxLost           \* bound: nobody calls once more blocks are lost

ASSUME TreeAssumption ==
  /\ InitTask \in Tasks
  /\ None \notin Tasks
  /\ Orig \notin Mods
  /\ BufRecords \in Nat \ {0} /\ MaxLost \in Nat
  /\ IsFiniteSet(Tasks)

VARIABLES
  parent, children,     \* of each task; of one that does not exist: None, << >>
  slot,                 \* syscall[__NR_hellocall]
  oldcall,              \* of each kernel module
  loaded,               \* history: the loaded modules in the order they came
  outOfOrder,           \* history: one went before one that came after it
  pc, stack,            \* of each call: the frames of dfs_ptree, innermost last
  ker_buf,              \* the records written: ker_nr is their number
  overrun,              \* one is written beyond the last that is allocated
  allocated,            \* the blocks the call has a pointer to
  lost,                 \* the blocks nobody has a pointer to any more
  halfFailed,           \* history: calls one of whose allocations failed
  user                  \* buf and nr of the caller, and what it was returned

treeVars == << parent, children >>
slotVars == << slot, oldcall, loaded, outOfOrder >>
callVars == << pc, stack, ker_buf, overrun, allocated, lost, halfFailed, user >>
vars == << parent, children, slot, oldcall, loaded, outOfOrder,
           pc, stack, ker_buf, overrun, allocated, lost, halfFailed, user >>

Live(t) == t = InitTask \/ parent[t] # None

\* The calls that hold tasklist_lock for reading.
Readers == {c \in Callers : pc[c] = "walk"}

-----------------------------------------------------------------------------
(* The tree (kernel/fork.c, kernel/exit.c), under the write lock.          *)

Init ==
  /\ parent = [t \in Tasks |-> None]
  /\ children = [t \in Tasks |-> << >>]
  /\ slot = Orig
  /\ oldcall = [m \in Mods |-> None]
  /\ loaded = << >>
  /\ outOfOrder = FALSE
  /\ pc = [c \in Callers |-> "user"]
  /\ stack = [c \in Callers |-> << >>]
  /\ ker_buf = [c \in Callers |-> << >>]
  /\ overrun = FALSE
  /\ allocated = [c \in Callers |-> {}]
  /\ lost = 0
  /\ halfFailed = 0
  /\ user = [c \in Callers |-> [recs |-> 0, nr |-> 0, ret |-> 0]]

Fork(p, t) ==
  /\ Readers = {}
  /\ Live(p) /\ ~Live(t)
  /\ parent' = [parent EXCEPT ![t] = p]
  /\ children' = [children EXCEPT ![p] = list_add_tail(t, @)]
  /\ UNCHANGED << slotVars, callVars >>

\* The children go to init; the parent reaps the task.
Exit(t) ==
  /\ Readers = {}
  /\ Live(t) /\ t # InitTask
  /\ parent' = [u \in Tasks |-> IF u = t THEN None
                                ELSE IF parent[u] = t THEN InitTask ELSE parent[u]]
  /\ LET left == [children EXCEPT ![parent[t]] = list_del_init(t, @), ![t] = << >>]
     IN  children' = [left EXCEPT ![InitTask] = @ \o children[t]]
  /\ UNCHANGED << slotVars, callVars >>

-----------------------------------------------------------------------------
(* Loading and unloading.  Nothing in the code stops a module from going   *)
(* while a call executes in it; what then happens is not modelled.         *)

addsyscall_init(m) ==
  /\ m \notin Range(loaded)
  /\ oldcall' = [oldcall EXCEPT ![m] = slot]
  /\ slot' = m
  /\ loaded' = Append(loaded, m)
  /\ UNCHANGED << outOfOrder, treeVars, callVars >>

\* Mutant: the slot is given back what it held at boot.
addsyscall_exit_Boot(m) ==
  /\ \A c \in Callers : pc[c] = "user"
  /\ m \in Range(loaded)
  /\ slot' = Orig
  /\ loaded' = list_del_init(m, loaded)
  /\ outOfOrder' = (outOfOrder \/ m # loaded[Len(loaded)])
  /\ UNCHANGED << oldcall, treeVars, callVars >>

addsyscall_exit(m) ==
  /\ \A c \in Callers : pc[c] = "user"
  /\ m \in Range(loaded)
  /\ slot' = oldcall[m]
  /\ loaded' = list_del_init(m, loaded)
  /\ outOfOrder' = (outOfOrder \/ m # loaded[Len(loaded)])
  /\ UNCHANGED << oldcall, treeVars, callVars >>

-----------------------------------------------------------------------------
(* The walk.                                                               *)

\* Of both lists, list_entry makes the entry it was given out of the head's
\* address and out of the address of a next pointer: the task itself.
get_prinfo(t, depth) ==
  [parent_pid |-> parent[t],
   pid |-> t,
   first_child_pid |-> IF children[t] = << >> THEN None ELSE t,
   next_sibling_pid |-> IF t = InitTask THEN None ELSE t,
   depth |-> depth]

Frame(t, depth) == [task |-> t, depth |-> depth, pos |-> None]

\* list_for_each: the entry after pos, None at the end; pos None is the head.
NextOn(s, pos) ==
  LET i == IF pos = None THEN 0 ELSE CHOOSE j \in 1 .. Len(s) : s[j] = pos
  IN  IF i < Len(s) THEN s[i + 1] ELSE None

\* To buf + *nr, for which nothing in the code says that there is room.
Write(c, record) ==
  IF Len(ker_buf[c]) < BufRecords
    THEN ker_buf' = [ker_buf EXCEPT ![c] = Append(@, record)] /\ UNCHANGED overrun
    ELSE overrun' = TRUE /\ UNCHANGED ker_buf

\* Mutant: the depth is counted up on the way down and not on the way back.
dfs_ptree_OneDepth(c) ==
  /\ pc[c] = "walk" /\ stack[c] # << >>
  /\ LET s == stack[c]
         top == s[Len(s)]
         next == NextOn(children[top.task], top.pos)
     IN IF next # None
        THEN /\ stack' = [stack EXCEPT ![c] =
                            Append([s EXCEPT ![Len(s)].pos = next], Frame(next, Len(ker_buf[c])))]
             /\ Write(c, get_prinfo(next, Len(ker_buf[c])))
        ELSE /\ stack' = [stack EXCEPT ![c] = SubSeq(s, 1, Len(s) - 1)]
             /\ UNCHANGED << ker_buf, overrun >>
  /\ UNCHANGED << pc, allocated, lost, halfFailed, user, treeVars, slotVars >>

\* Mutant: a task with children is written again on the way back.
dfs_ptree_Twice(c) ==
  /\ pc[c] = "walk" /\ stack[c] # << >>
  /\ LET s == stack[c]
         top == s[Len(s)]
         next == NextOn(children[top.task], top.pos)
     IN IF next # None
        THEN /\ stack' = [stack EXCEPT ![c] =
                            Append([s EXCEPT ![Len(s)].pos = next], Frame(next, top.depth + 1))]
             /\ Write(c, get_prinfo(next, top.depth + 1))
        ELSE /\ stack' = [stack EXCEPT ![c] = SubSeq(s, 1, Len(s) - 1)]
             /\ IF top.pos = None THEN UNCHANGED << ker_buf, overrun >>
                ELSE Write(c, get_prinfo(top.task, top.depth))
  /\ UNCHANGED << pc, allocated, lost, halfFailed, user, treeVars, slotVars >>

\* To the next child, whose record goes where *nr points, or back.
dfs_ptree(c) ==
  /\ pc[c] = "walk" /\ stack[c] # << >>
  /\ LET s == stack[c]
         top == s[Len(s)]
         next == NextOn(children[top.task], top.pos)
     IN IF next # None
        THEN /\ stack' = [stack EXCEPT ![c] =
                            Append([s EXCEPT ![Len(s)].pos = next], Frame(next, top.depth + 1))]
             /\ Write(c, get_prinfo(next, top.depth + 1))
        ELSE /\ stack' = [stack EXCEPT ![c] = SubSeq(s, 1, Len(s) - 1)]
             /\ UNCHANGED << ker_buf, overrun >>
  /\ UNCHANGED << pc, allocated, lost, halfFailed, user, treeVars, slotVars >>

-----------------------------------------------------------------------------
(* The call.  A caller enters it with a buffer and nr = 0 (the test        *)
(* programs' main).                                                        *)

Blocks == {"buf", "nr"}

\* The blocks in got are the allocations that succeed.
ptree(c, got) ==
  /\ pc[c] = "user"
  /\ slot \in Range(loaded)
  /\ lost < MaxLost
  /\ IF got = Blocks
     THEN /\ pc' = [pc EXCEPT ![c] = "lock"]
          /\ allocated' = [allocated EXCEPT ![c] = got]
          /\ user' = [user EXCEPT ![c] = [recs |-> 0, nr |-> 0, ret |-> 1]]
          /\ UNCHANGED << lost, halfFailed >>
     ELSE /\ lost' = lost + Cardinality(got)
          /\ halfFailed' = IF got = {} THEN halfFailed ELSE halfFailed + 1
          /\ user' = [user EXCEPT ![c] = [recs |-> 0, nr |-> 0, ret |-> 1]]
          /\ UNCHANGED << pc, allocated >>
  /\ UNCHANGED << stack, ker_buf, overrun, treeVars, slotVars >>

read_lock(c) ==
  /\ pc[c] = "lock"
  /\ pc' = [pc EXCEPT ![c] = "walk"]
  /\ stack' = [stack EXCEPT ![c] = << Frame(InitTask, 0) >>]
  /\ ker_buf' = [ker_buf EXCEPT ![c] = << get_prinfo(InitTask, 0) >>]
  /\ UNCHANGED << overrun, allocated, lost, halfFailed, user, treeVars, slotVars >>

read_unlock(c) ==
  /\ pc[c] = "walk" /\ stack[c] = << >>
  /\ pc' = [pc EXCEPT ![c] = "copy"]
  /\ UNCHANGED << stack, ker_buf, overrun, allocated, lost, halfFailed, user, treeVars, slotVars >>

\* The two kfree and the return.
Return(c, freed) ==
  /\ pc' = [pc EXCEPT ![c] = "user"]
  /\ allocated' = [allocated EXCEPT ![c] = {}]
  /\ lost' = lost + Cardinality(allocated[c] \ freed)
  /\ ker_buf' = [ker_buf EXCEPT ![c] = << >>]
  /\ UNCHANGED << stack, overrun, halfFailed, treeVars, slotVars >>

\* Mutant: the error path frees the records only.
copy_fails_Leaks(c) ==
  /\ \/ /\ pc[c] = "copy"
        /\ \E n \in 0 .. Len(ker_buf[c]) - 1 : user' = [user EXCEPT ![c].recs = n]
     \/ pc[c] = "copy_nr" /\ UNCHANGED user
  /\ Return(c, {"buf"})

\* copy_to_user stops at a page that is not there, with some records copied,
\* or at nr.
copy_fails(c) ==
  /\ \/ /\ pc[c] = "copy"
        /\ \E n \in 0 .. Len(ker_buf[c]) - 1 : user' = [user EXCEPT ![c].recs = n]
     \/ pc[c] = "copy_nr" /\ UNCHANGED user
  /\ Return(c, Blocks)

copy_buf(c) ==
  /\ pc[c] = "copy"
  /\ user' = [user EXCEPT ![c].recs = Len(ker_buf[c])]
  /\ pc' = [pc EXCEPT ![c] = "copy_nr"]
  /\ UNCHANGED << stack, ker_buf, overrun, allocated, lost, halfFailed, treeVars, slotVars >>

copy_nr(c) ==
  /\ pc[c] = "copy_nr"
  /\ user' = [user EXCEPT ![c].nr = Len(ker_buf[c]), ![c].ret = 0]
  /\ Return(c, Blocks)

Next ==
  /\ ~overrun
  /\ \/ \E p, t \in Tasks : Fork(p, t)
     \/ \E t \in Tasks : Exit(t)
     \/ \E m \in Mods : addsyscall_init(m) \/ addsyscall_exit(m)
     \/ \E c \in Callers :
          \/ \E got \in SUBSET Blocks : ptree(c, got)
          \/ read_lock(c) \/ dfs_ptree(c) \/ read_unlock(c)
          \/ copy_buf(c) \/ copy_nr(c) \/ copy_fails(c)

Spec == Init /\ [][Next]_vars

-----------------------------------------------------------------------------
(* Properties.                                                             *)

PidOrNone == Tasks \cup {None}

Record == [parent_pid : PidOrNone, pid : Tasks, first_child_pid : PidOrNone,
           next_sibling_pid : PidOrNone, depth : Nat]

\* Every variable keeps its type, and the two directions of the tree agree.
TypeOK ==
  /\ parent \in [Tasks -> PidOrNone]
  /\ children \in [Tasks -> Seq(Tasks)]
  /\ \A t \in Tasks : NoDuplicates(children[t])
       /\ Range(children[t]) = {u \in Tasks : parent[u] = t}
  /\ slot \in Mods \cup {Orig}
  /\ oldcall \in [Mods -> Mods \cup {Orig, None}]
  /\ loaded \in Seq(Mods) /\ NoDuplicates(loaded)
  /\ outOfOrder \in BOOLEAN
  /\ pc \in [Callers -> {"user", "lock", "walk", "copy", "copy_nr"}]
  /\ stack \in [Callers -> Seq([task : Tasks, depth : Nat, pos : PidOrNone])]
  /\ ker_buf \in [Callers -> Seq(Record)] /\ overrun \in BOOLEAN
  /\ allocated \in [Callers -> SUBSET Blocks]
  /\ lost \in Nat /\ halfFailed \in Nat
  /\ user \in [Callers -> [recs : Nat, nr : Nat, ret : {0, 1}]]

\* How far a task is from the root.
DepthOf[t \in Tasks] == IF parent[t] = None THEN 0 ELSE DepthOf[parent[t]] + 1

\* When the walk (dfs_ptree, problem2/hello.c:47-57) is over, the records
\* are one for each task, each at its depth, siblings in the order of their
\* list, and the parent of each is the last record above it that is one
\* level up: what the tabs of problem2/jni/syscall_ptree.c:17-19 show.
RecordsShowTree ==
  \A c \in Callers : pc[c] = "walk" /\ stack[c] = << >> =>
    LET b == ker_buf[c]
        above(i) == {j \in 1 .. i - 1 : b[j].depth = b[i].depth - 1}
    IN /\ {b[i].pid : i \in DOMAIN b} = {t \in Tasks : Live(t)}
       /\ \A i, j \in DOMAIN b : b[i].pid = b[j].pid => i = j
       /\ \A i \in DOMAIN b : b[i].depth = DepthOf[b[i].pid]
       /\ \A i \in DOMAIN b : b[i].parent_pid # None =>
            \E j \in above(i) : b[i].parent_pid = b[j].pid /\ \A k \in above(i) : k <= j
       /\ \A i, j \in DOMAIN b : i < j /\ b[i].parent_pid = b[j].parent_pid =>
            Ahead(b[i].pid, b[j].pid, children[b[i].parent_pid])

\* A walk writes beyond the 1024 records (hello.c:64, which nothing compares
\* with the number of tasks) exactly when there are more tasks: no walk that
\* has come to its end did, and none does because a task is written twice or
\* records of an earlier call count.
OnlyManyTasksOverrun ==
  LET tasks == Cardinality({t \in Tasks : Live(t)})
  IN  /\ overrun => tasks > BufRecords
      /\ \A c \in Callers : pc[c] = "walk" /\ stack[c] = << >> => tasks <= BufRecords

\* What a call has walked when it is done with it: the whole tree, or more
\* than its buffer has room for, which no other walk is.
WalkShowsTree == RecordsShowTree /\ OnlyManyTasksOverrun

\* A block is lost only by a call one of whose two allocations fails
\* (problem1/hello.c:65-69 returns without kfree), one by each.
OnlyHalfFailedCallsLeak ==
  /\ lost = halfFailed
  /\ \A c \in Callers : pc[c] = "user" => allocated[c] = {}

\* At no time, and after no failed copy, does the caller's nr (read by the
\* loops of the test programs) count records that have not been copied.
NrCountsCopied == \A c \in Callers : user[c].nr <= user[c].recs

\* The slot names a function that is there, the one of the module that came
\* last, unless modules were unloaded in another order than the reverse one
\* (addsyscall_exit puts back what addsyscall_init found).
OnlyOutOfOrderUnloadsDangle ==
  ~outOfOrder => slot = IF loaded = << >> THEN Orig ELSE loaded[Len(loaded)]
=============================================================================
