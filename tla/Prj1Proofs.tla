----------------------------- MODULE Prj1Proofs -----------------------------
(***************************************************************************)
(* Proofs about the two programs of Prj1.  Module ProcTree, for any number *)
(* of tasks, callers and kernel modules: the tree, its depths, the slots,  *)
(* the calls and the walks have an invariant each; the calls only read the *)
(* tree.  Module BurgerBuddies, for every number of threads and places on  *)
(* the rack: the books of the eight semaphores balance, and main is told   *)
(* to end by the last customer only.                                       *)
(***************************************************************************)
EXTENDS ProcTree, BurgerBuddies, DataProofs, SequenceTheorems

-----------------------------------------------------------------------------
(* The tree.                                                               *)

\* The two directions agree, init is the root and nobody its own parent.
TreeInv ==
  /\ parent \in [Tasks -> PidOrNone]
  /\ children \in [Tasks -> Seq(Tasks)]
  /\ \A t \in Tasks : NoDuplicates(children[t])
       /\ Range(children[t]) = {u \in Tasks : parent[u] = t}
  /\ parent[InitTask] = None
  /\ \A t \in Tasks : parent[t] # t

\* list_splice_tail: two lists without common entries make one.
LEMMA ListConcat ==
  ASSUME NEW S, NEW s \in Seq(S), NEW r \in Seq(S), NoDuplicates(s), NoDuplicates(r),
         Range(s) \cap Range(r) = {}
  PROVE  /\ s \o r \in Seq(S)
         /\ NoDuplicates(s \o r)
         /\ Range(s \o r) = Range(s) \cup Range(r)
<1> DEFINE q == s \o r
<1>1. /\ q \in Seq(S) /\ Len(q) = Len(s) + Len(r)
      /\ Len(s) \in Nat /\ Len(r) \in Nat
      /\ DOMAIN q = 1 .. Len(s) + Len(r)
      /\ \A i \in 1 .. Len(s) : q[i] = s[i] /\ s[i] \in Range(s)
      /\ \A i \in 1 .. Len(r) : q[Len(s) + i] = r[i] /\ r[i] \in Range(r)
  BY DEF Range
<1>2. \A i \in 1 .. Len(q) : i \in 1 .. Len(s) \/ i - Len(s) \in 1 .. Len(r)
  BY <1>1
<1>3. \A i \in 1 .. Len(q) :
        \/ i \in 1 .. Len(s) /\ q[i] = s[i] /\ q[i] \in Range(s)
        \/ i - Len(s) \in 1 .. Len(r) /\ q[i] = r[i - Len(s)] /\ q[i] \in Range(r)
  <2> TAKE i \in 1 .. Len(q)
  <2>1. CASE i \in 1 .. Len(s)
    BY <1>1, <2>1
  <2>2. CASE i - Len(s) \in 1 .. Len(r)
    <3> DEFINE k == i - Len(s)
    <3>1. k \in 1 .. Len(r) /\ Len(s) + k = i
      BY <1>1, <2>2
    <3>2. q[Len(s) + k] = r[k] /\ r[k] \in Range(r)
      BY <1>1, <3>1
    <3> QED BY <3>1, <3>2
  <2> QED BY <1>2, <2>1, <2>2
<1>4. NoDuplicates(q)
  <2> SUFFICES ASSUME NEW i \in 1 .. Len(q), NEW j \in 1 .. Len(q), q[i] = q[j]
               PROVE  i = j
    BY DEF NoDuplicates
  <2> HIDE DEF q
  <2>1. CASE i \in 1 .. Len(s) /\ j \in 1 .. Len(s) /\ s[i] = s[j]
    BY <2>1 DEF NoDuplicates
  <2>2. CASE i - Len(s) \in 1 .. Len(r) /\ j - Len(s) \in 1 .. Len(r)
               /\ r[i - Len(s)] = r[j - Len(s)]
    <3>1. i - Len(s) = j - Len(s)
      BY <2>2 DEF NoDuplicates
    <3> QED BY <1>1, <3>1
  <2> QED BY <1>3, <2>1, <2>2
<1>5. Range(q) = Range(s) \cup Range(r)
  <2>1. Range(q) \subseteq Range(s) \cup Range(r)
    BY <1>1, <1>3 DEF Range
  <2>2. Range(s) \subseteq Range(q)
    BY <1>1 DEF Range
  <2>3. ASSUME NEW i \in 1 .. Len(r)
        PROVE  r[i] \in Range(q)
    <3>1. Len(s) + i \in DOMAIN q
      BY <1>1
    <3> QED BY <1>1, <3>1 DEF Range
  <2>4. Range(r) \subseteq Range(q)
    <3>1. DOMAIN r = 1 .. Len(r)
      OBVIOUS
    <3> HIDE DEF q
    <3> QED BY <2>3, <3>1 DEF Range
  <2> QED BY <2>1, <2>2, <2>4
<1> QED BY <1>1, <1>4, <1>5

\* The empty list.
LEMMA ListEmpty ==
  ASSUME NEW S
  PROVE  << >> \in Seq(S) /\ NoDuplicates(<< >>) /\ Range(<< >>) = {}
BY DEF NoDuplicates, Range

\* At boot there is init only.
LEMMA TreeInit == ASSUME Init PROVE TreeInv
<1>1. \A t \in Tasks : parent[t] = None /\ children[t] = << >> /\ t # None
  BY TreeAssumption DEF Init
<1>2. InitTask \in Tasks
  BY TreeAssumption
<1>3. parent \in [Tasks -> PidOrNone] /\ children \in [Tasks -> Seq(Tasks)]
  BY ListEmpty DEF Init, PidOrNone
<1>4. \A t \in Tasks : NoDuplicates(children[t])
       /\ Range(children[t]) = {u \in Tasks : parent[u] = t}
  BY <1>1, ListEmpty
<1> QED BY <1>1, <1>2, <1>3, <1>4 DEF TreeInv

\* A child is added at the end of the list of its parent.
LEMMA TreeFork ==
  ASSUME TreeInv, NEW p \in Tasks, NEW t \in Tasks, Fork(p, t)
  PROVE  TreeInv'
<1>1. /\ parent' = [parent EXCEPT ![t] = p]
      /\ children' = [children EXCEPT ![p] = list_add_tail(t, @)]
      /\ parent[t] = None /\ t # InitTask
      /\ t # p
  BY DEF Fork, Live
<1>2. InitTask \in Tasks /\ None \notin Tasks
  BY TreeAssumption
<1>3. t \notin Range(children[p])
  BY <1>1, <1>2 DEF TreeInv
<1>4. /\ list_add_tail(t, children[p]) \in Seq(Tasks)
      /\ NoDuplicates(list_add_tail(t, children[p]))
      /\ Range(list_add_tail(t, children[p])) = Range(children[p]) \cup {t}
  <2> children[p] \in Seq(Tasks) /\ NoDuplicates(children[p])
    BY DEF TreeInv
  <2> HIDE DEF TreeInv
  <2> QED BY <1>3, ListAddTail
<1>5. parent' \in [Tasks -> PidOrNone] /\ children' \in [Tasks -> Seq(Tasks)]
  BY <1>1, <1>4 DEF TreeInv, PidOrNone
<1>6. ASSUME NEW u \in Tasks
      PROVE  /\ NoDuplicates(children'[u])
             /\ Range(children'[u]) = {v \in Tasks : parent'[v] = u}
  <2>1. CASE u = p
    <3>1. children'[u] = list_add_tail(t, children[p])
      BY <1>1, <2>1 DEF TreeInv
    <3>2. {v \in Tasks : parent'[v] = u} = {v \in Tasks : parent[v] = p} \cup {t}
      BY <1>1, <1>2, <2>1 DEF TreeInv
    <3> QED BY <1>4, <3>1, <3>2 DEF TreeInv
  <2>2. CASE u # p
    <3>1. children'[u] = children[u]
      BY <1>1, <2>2 DEF TreeInv
    <3>2. {v \in Tasks : parent'[v] = u} = {v \in Tasks : parent[v] = u}
      BY <1>1, <1>2, <2>2 DEF TreeInv
    <3> QED BY <3>1, <3>2 DEF TreeInv
  <2> QED BY <2>1, <2>2
<1>7. parent'[InitTask] = None /\ \A u \in Tasks : parent'[u] # u
  BY <1>1, <1>2 DEF TreeInv
<1> QED BY <1>5, <1>6, <1>7 DEF TreeInv

\* The children of a task that exits are appended to init's.
LEMMA TreeExit ==
  ASSUME TreeInv, NEW t \in Tasks, Exit(t)
  PROVE  TreeInv'
<1> DEFINE p == parent[t]
           rest == list_del_init(t, children[p])
           left == [children EXCEPT ![p] = rest, ![t] = << >>]
           mine == left[InitTask]
<1>1. /\ parent' = [u \in Tasks |-> IF u = t THEN None
                                    ELSE IF parent[u] = t THEN InitTask ELSE parent[u]]
      /\ children' = [left EXCEPT ![InitTask] = @ \o children[t]]
      /\ t # InitTask /\ p # None
  BY DEF Exit, Live
<1>2. InitTask \in Tasks /\ None \notin Tasks
  BY TreeAssumption
<1>3. /\ p \in Tasks /\ p # t
      /\ t \in Range(children[p])
  BY <1>1, <1>2 DEF TreeInv, PidOrNone
<1>4. /\ rest \in Seq(Tasks) /\ NoDuplicates(rest)
      /\ Range(rest) = {u \in Tasks : parent[u] = p} \ {t}
  <2>1. /\ children[p] \in Seq(Tasks) /\ NoDuplicates(children[p])
        /\ Range(children[p]) = {u \in Tasks : parent[u] = p}
    BY <1>3 DEF TreeInv
  <2> HIDE DEF p
  <2> QED BY <1>3, <2>1, ListDel
<1>5. ASSUME NEW u \in Tasks
      PROVE  /\ left[u] \in Seq(Tasks) /\ NoDuplicates(left[u])
             /\ Range(left[u]) = IF u = t THEN {} ELSE {v \in Tasks : parent[v] = u} \ {t}
  <2>1. CASE u = t
    <3>1. left[u] = << >>
      BY <2>1 DEF TreeInv
    <3> QED BY <2>1, <3>1, ListEmpty
  <2>2. CASE u = p
    <3>1. left[u] = rest
      BY <1>3, <2>2 DEF TreeInv
    <3> HIDE DEF rest, left
    <3> QED BY <1>3, <1>4, <2>2, <3>1
  <2>3. CASE u # t /\ u # p
    <3>1. left[u] = children[u]
      BY <2>3 DEF TreeInv
    <3>2. t \notin {v \in Tasks : parent[v] = u}
      BY <2>3
    <3> HIDE DEF rest, left
    <3> QED BY <2>3, <3>1, <3>2 DEF TreeInv
  <2> QED BY <2>1, <2>2, <2>3
<1>6. left \in [Tasks -> Seq(Tasks)]
  <2>1. left = [u \in Tasks |-> left[u]]
    BY DEF TreeInv
  <2> HIDE DEF left
  <2> QED BY <1>5, <2>1
<1> HIDE DEF left, rest
<1>7. /\ mine \o children[t] \in Seq(Tasks)
      /\ NoDuplicates(mine \o children[t])
      /\ Range(mine \o children[t]) =
           ({v \in Tasks : parent[v] = InitTask} \ {t}) \cup {v \in Tasks : parent[v] = t}
  <2>1. /\ mine \in Seq(Tasks) /\ NoDuplicates(mine)
        /\ Range(mine) = {v \in Tasks : parent[v] = InitTask} \ {t}
    BY <1>1, <1>2, <1>5
  <2>2. /\ children[t] \in Seq(Tasks) /\ NoDuplicates(children[t])
        /\ Range(children[t]) = {v \in Tasks : parent[v] = t}
    BY DEF TreeInv
  <2>3. Range(mine) \cap Range(children[t]) = {}
    BY <1>1, <2>1, <2>2
  <2> HIDE DEF mine
  <2> QED BY <2>1, <2>2, <2>3, ListConcat
<1>8. children' \in [Tasks -> Seq(Tasks)]
  BY <1>1, <1>2, <1>6, <1>7
<1>9. parent' \in [Tasks -> PidOrNone]
  BY <1>1, <1>2 DEF TreeInv, PidOrNone
<1>10. ASSUME NEW u \in Tasks
       PROVE  /\ NoDuplicates(children'[u])
              /\ Range(children'[u]) = {v \in Tasks : parent'[v] = u}
  <2>1. CASE u = InitTask
    <3>1. children'[u] = mine \o children[t]
      BY <1>1, <1>2, <1>6, <2>1
    <3>2. {v \in Tasks : parent'[v] = u} =
            ({v \in Tasks : parent[v] = InitTask} \ {t}) \cup {v \in Tasks : parent[v] = t}
      <4>1. ASSUME NEW v \in Tasks
            PROVE  parent'[v] = u <=> \/ parent[v] = InitTask /\ v # t
                                      \/ parent[v] = t
        BY <1>1, <1>2, <1>3, <2>1
      <4> QED BY <4>1
    <3> HIDE DEF mine
    <3> QED BY <1>7, <3>1, <3>2
  <2>2. CASE u # InitTask
    <3>1. children'[u] = left[u]
      BY <1>1, <1>6, <2>2
    <3>2. {v \in Tasks : parent'[v] = u} =
            IF u = t THEN {} ELSE {v \in Tasks : parent[v] = u} \ {t}
      <4>1. ASSUME NEW v \in Tasks
            PROVE  parent'[v] = u <=> u # t /\ parent[v] = u /\ v # t
        BY <1>1, <1>2, <2>2
      <4> QED BY <4>1
    <3> QED BY <1>5, <3>1, <3>2
  <2> QED BY <2>1, <2>2
<1>11. parent'[InitTask] = None /\ \A u \in Tasks : parent'[u] # u
  BY <1>1, <1>2 DEF TreeInv
<1> QED BY <1>8, <1>9, <1>10, <1>11 DEF TreeInv

\* Only fork and exit change the tree.
LEMMA TreeStep == ASSUME TreeInv, [Next]_vars PROVE TreeInv'
<1>1. ASSUME NEW p \in Tasks, NEW t \in Tasks, Fork(p, t)
      PROVE  TreeInv'
  BY <1>1, TreeFork
<1>2. ASSUME NEW t \in Tasks, Exit(t)
      PROVE  TreeInv'
  BY <1>2, TreeExit
<1>3. ASSUME UNCHANGED treeVars
      PROVE  TreeInv'
  BY <1>3 DEF TreeInv, treeVars
<1>4. ASSUME NEW m \in Mods, addsyscall_init(m) \/ addsyscall_exit(m)
      PROVE  UNCHANGED treeVars
  BY <1>4 DEF addsyscall_init, addsyscall_exit
<1>5. ASSUME NEW c \in Callers, NEW got \in SUBSET Blocks, ptree(c, got)
      PROVE  UNCHANGED treeVars
  BY <1>5 DEF ptree
<1>6. ASSUME NEW c \in Callers,
             \/ read_lock(c) \/ dfs_ptree(c) \/ read_unlock(c)
             \/ copy_buf(c) \/ copy_nr(c) \/ copy_fails(c)
      PROVE  UNCHANGED treeVars
  BY <1>6 DEF read_lock, dfs_ptree, read_unlock, copy_buf, copy_nr, copy_fails, Return
<1>7. CASE UNCHANGED vars
  <2>1. UNCHANGED treeVars
    BY <1>7 DEF vars, treeVars
  <2> QED BY <1>3, <2>1
<1> QED BY <1>1, <1>2, <1>3, <1>4, <1>5, <1>6, <1>7 DEF Next
-----------------------------------------------------------------------------
(* Depths.                                                                 *)

\* A function that gives each task one more than its parent.
Depths(f) == f = [t \in Tasks |-> IF parent[t] = None THEN 0 ELSE f[parent[t]] + 1]

\* The tree has no cycle, and hangs together.
HasDepths == \E f \in [Tasks -> Nat] : Depths(f)
HangsTogether == \A t \in Tasks : parent[t] # None => Live(parent[t])
DepthInv == HasDepths /\ HangsTogether

\* What has a solution is one.
LEMMA DepthOfParent ==
  ASSUME DepthInv
  PROVE  \A t \in Tasks : DepthOf[t] = IF parent[t] = None THEN 0 ELSE DepthOf[parent[t]] + 1
<1>1. \E f : Depths(f)
  BY DEF DepthInv, HasDepths
<1>2. DepthOf = CHOOSE f : Depths(f)
  BY DEF DepthOf, Depths
<1>3. Depths(DepthOf)
  BY <1>1, <1>2
<1> HIDE DEF DepthOf
<1> QED BY <1>3 DEF Depths

\* At boot there is init.
LEMMA DepthInit == ASSUME Init PROVE DepthInv
<1>1. \A t \in Tasks : parent[t] = None
  BY DEF Init
<1> DEFINE zero == [t \in Tasks |-> 0]
<1>2. zero \in [Tasks -> Nat] /\ zero = [t \in Tasks |-> IF parent[t] = None THEN 0 ELSE zero[parent[t]] + 1]
  BY <1>1
<1> HIDE DEF zero
<1>3. Depths(zero)
  BY <1>2 DEF Depths
<1>5. HasDepths
  BY <1>2, <1>3, Zenon DEF HasDepths
<1>4. HangsTogether
  BY <1>1 DEF HangsTogether
<1> QED BY <1>4, <1>5 DEF DepthInv

\* A task that is forked is below its parent, and nothing below it.
LEMMA DepthFork ==
  ASSUME TreeInv, DepthInv, NEW p \in Tasks, NEW t \in Tasks, Fork(p, t)
  PROVE  DepthInv'
<1>1. PICK f \in [Tasks -> Nat] : Depths(f)
  BY DEF DepthInv, HasDepths
<1>2. /\ parent' = [parent EXCEPT ![t] = p]
      /\ Live(p) /\ ~Live(t)
  BY DEF Fork
<1>3. /\ parent[t] = None /\ t # InitTask /\ t # p
      /\ \A u \in Tasks : parent[u] # t
  BY <1>2, TreeAssumption DEF Live, DepthInv, HangsTogether
<1> DEFINE g == [f EXCEPT ![t] = f[p] + 1]
<1>4. g \in [Tasks -> Nat]
  BY <1>1
<1>5. ASSUME NEW u \in Tasks
      PROVE  g[u] = IF parent'[u] = None THEN 0 ELSE g[parent'[u]] + 1
  <2>1. f[u] = IF parent[u] = None THEN 0 ELSE f[parent[u]] + 1
    BY <1>1 DEF Depths
  <2>2. p # None /\ parent \in [Tasks -> PidOrNone]
    BY TreeAssumption DEF TreeInv
  <2>3. CASE u = t
    BY <1>2, <1>3, <2>2, <2>3
  <2>4. CASE u # t
    <3>1. parent'[u] = parent[u] /\ g[u] = f[u]
      BY <1>1, <1>2, <2>2, <2>4
    <3>2. parent[u] # None => parent[u] \in Tasks /\ g[parent[u]] = f[parent[u]]
      BY <1>1, <1>3, <2>2 DEF PidOrNone
    <3> QED BY <2>1, <3>1, <3>2
  <2> QED BY <2>3, <2>4
<1> HIDE DEF g
<1>6. HasDepths'
  <2>1. g = [u \in Tasks |-> g[u]]
    BY <1>4
  <2>2. g = [u \in Tasks |-> IF parent'[u] = None THEN 0 ELSE g[parent'[u]] + 1]
    BY <1>5, <2>1
  <2> QED BY <1>4, <2>2 DEF HasDepths, Depths
<1>7. HangsTogether'
  BY <1>2, <1>3 DEF DepthInv, HangsTogether, Live, TreeInv, PidOrNone
<1> QED BY <1>6, <1>7 DEF DepthInv

\* Sets of tasks that have the children of their tasks.
Closed(S) == \A v \in Tasks : parent[v] \in S => v \in S

\* A task, its children and theirs.
Descendants(t) == {u \in Tasks : \A S \in SUBSET Tasks : t \in S /\ Closed(S) => u \in S}

\* Other tasks are among them exactly if their parents are.
LEMMA DescendantsOf ==
  ASSUME NEW t \in Tasks
  PROVE  /\ t \in Descendants(t)
         /\ \A u \in Tasks \ {t} : u \in Descendants(t) <=> parent[u] \in Descendants(t)
<1> DEFINE D == Descendants(t)
<1>1. t \in D
  BY DEF Descendants
<1>2. ASSUME NEW u \in Tasks, parent[u] \in D PROVE u \in D
  <2> SUFFICES ASSUME NEW S \in SUBSET Tasks, t \in S, Closed(S) PROVE u \in S
    BY DEF Descendants
  <2>1. parent[u] \in S
    BY <1>2 DEF Descendants
  <2> QED BY <2>1 DEF Closed
<1>3. ASSUME NEW u \in D, u # t, parent[u] \notin D PROVE FALSE
  <2> DEFINE S == D \ {u}
  <2>1. S \in SUBSET Tasks /\ t \in S /\ u \in Tasks
    BY <1>1, <1>3 DEF Descendants
  <2>2. Closed(S)
    <3> SUFFICES ASSUME NEW v \in Tasks, parent[v] \in S PROVE v \in S
      BY DEF Closed
    <3>1. v \in D
      BY <1>2
    <3>2. v # u
      BY <1>3
    <3> QED BY <3>1, <3>2
  <2>3. u \in S
    BY <2>1, <2>2 DEF Descendants
  <2> QED BY <2>3
<1>4. D \subseteq Tasks
  BY DEF Descendants
<1> HIDE DEF D
<1> QED BY <1>1, <1>2, <1>3, <1>4 DEF D

\* What hangs from a task that exits comes up to init.
LEMMA DepthExit ==
  ASSUME TreeInv, DepthInv, NEW t \in Tasks, Exit(t)
  PROVE  DepthInv'
<1>1. PICK f \in [Tasks -> Nat] : Depths(f)
  BY DEF DepthInv, HasDepths
<1> DEFINE D == Descendants(t)
           g == [u \in Tasks |-> IF u = t THEN 0 ELSE IF u \in D THEN f[u] - f[t] ELSE f[u]]
<1>2. /\ \A u \in Tasks : parent'[u] = IF u = t THEN None
                                       ELSE IF parent[u] = t THEN InitTask ELSE parent[u]
      /\ t # InitTask
  BY DEF Exit
<1>3. /\ t \in D /\ \A u \in Tasks \ {t} : u \in D <=> parent[u] \in D
      /\ D \subseteq Tasks
  BY DescendantsOf DEF Descendants
<1>4. /\ \A u \in Tasks : f[u] \in Nat
      /\ \A u \in Tasks : f[u] = IF parent[u] = None THEN 0 ELSE f[parent[u]] + 1
      /\ \A u \in Tasks : parent[u] = None \/ parent[u] \in Tasks
      /\ None \notin Tasks /\ InitTask \in Tasks /\ parent[InitTask] = None
  BY <1>1, TreeAssumption DEF Depths, TreeInv, PidOrNone
<1>5. \A u \in D : f[u] >= f[t]
  <2> DEFINE S == {u \in Tasks : f[u] >= f[t]}
  <2>1. Closed(S) /\ t \in S
    BY <1>4 DEF Closed
  <2>2. D \subseteq S
    BY <2>1 DEF Descendants
  <2> QED BY <2>2
<1>6. InitTask \notin D
  BY <1>2, <1>3, <1>4
<1> HIDE DEF D
<1>7. g \in [Tasks -> Nat]
  BY <1>3, <1>4, <1>5
<1>8. ASSUME NEW u \in Tasks
      PROVE  g[u] = IF parent'[u] = None THEN 0 ELSE g[parent'[u]] + 1
  <2>1. CASE u = t
    BY <1>2, <2>1
  <2>2. CASE u # t /\ parent[u] = t
    <3>1. parent'[u] = InitTask /\ u \in D /\ f[u] = f[t] + 1
      BY <1>2, <1>3, <1>4, <2>2
    <3>2. g[u] = 1
      BY <1>4, <2>2, <3>1
    <3>3. g[InitTask] = 0
      BY <1>2, <1>4, <1>6
    <3> QED BY <1>4, <3>1, <3>2, <3>3
  <2>3. CASE u # t /\ parent[u] # t /\ parent[u] # None
    <3>1. /\ parent'[u] = parent[u] /\ parent[u] \in Tasks /\ f[u] = f[parent[u]] + 1
          /\ u \in D <=> parent[u] \in D
      BY <1>2, <1>3, <1>4, <2>3
    <3>2. f[u] \in Nat /\ f[parent[u]] \in Nat /\ f[t] \in Nat
      BY <1>4, <3>1
    <3> QED BY <2>3, <3>1, <3>2
  <2>4. CASE u # t /\ parent[u] = None
    <3>1. parent'[u] = None /\ u \notin D /\ f[u] = 0
      BY <1>2, <1>3, <1>4, <2>4
    <3> QED BY <2>4, <3>1
  <2> QED BY <2>1, <2>2, <2>3, <2>4
<1>9. HasDepths'
  <2>1. g = [u \in Tasks |-> g[u]]
    OBVIOUS
  <2> HIDE DEF g
  <2>2. g = [u \in Tasks |-> IF parent'[u] = None THEN 0 ELSE g[parent'[u]] + 1]
    BY <1>8, <2>1
  <2> QED BY <1>7, <2>2 DEF HasDepths, Depths
<1>10. ASSUME NEW u \in Tasks, parent'[u] # None, parent'[u] # InitTask
       PROVE  parent'[parent'[u]] # None
  <2>1. u # t /\ parent'[u] = parent[u] /\ parent[u] # t
    BY <1>2, <1>10
  <2>2. parent[u] \in Tasks /\ parent[parent[u]] # None
    BY <1>4, <1>10, <2>1 DEF DepthInv, HangsTogether, Live
  <2>3. parent'[parent[u]] # None
    BY <1>2, <1>4, <2>1, <2>2
  <2> QED BY <2>1, <2>3
<1>11. HangsTogether'
  BY <1>10 DEF HangsTogether, Live
<1> QED BY <1>9, <1>11 DEF DepthInv

\* Only forks and exits change the tree.
LEMMA DepthStep == ASSUME TreeInv, DepthInv, [Next]_vars PROVE DepthInv'
<1>1. ASSUME UNCHANGED treeVars PROVE DepthInv'
  BY <1>1 DEF treeVars, DepthInv, HasDepths, HangsTogether, Depths, Live
<1>2. ASSUME NEW m \in Mods, addsyscall_init(m) \/ addsyscall_exit(m)
      PROVE  UNCHANGED treeVars
  BY <1>2 DEF addsyscall_init, addsyscall_exit
<1>3. ASSUME NEW c \in Callers, NEW got \in SUBSET Blocks, ptree(c, got)
      PROVE  UNCHANGED treeVars
  BY <1>3 DEF ptree
<1>4. ASSUME NEW c \in Callers,
             \/ read_lock(c) \/ dfs_ptree(c) \/ read_unlock(c)
             \/ copy_buf(c) \/ copy_nr(c) \/ copy_fails(c)
      PROVE  UNCHANGED treeVars
  BY <1>4 DEF read_lock, dfs_ptree, read_unlock, copy_buf, copy_nr, copy_fails, Return
<1>5. CASE UNCHANGED vars
  <2>1. UNCHANGED treeVars
    BY <1>5 DEF vars, treeVars
  <2> QED BY <1>1, <2>1
<1> QED BY <1>1, <1>2, <1>3, <1>4, <1>5, DepthFork, DepthExit DEF Next

-----------------------------------------------------------------------------
(* The slot of the system call table.                                      *)

\* What the slot holds when modules are unloaded in the reverse order.
Newest(l) == IF l = << >> THEN Orig ELSE l[Len(l)]

\* Each module keeps what the slot held before it: as long as all were
\* unloaded in the reverse order, the module before it.
SlotInv ==
  /\ slot \in Mods \cup {Orig}
  /\ oldcall \in [Mods -> Mods \cup {Orig, None}]
  /\ loaded \in Seq(Mods) /\ NoDuplicates(loaded)
  /\ \A i \in 1 .. Len(loaded) : oldcall[loaded[i]] \in Mods \cup {Orig}
  /\ outOfOrder \in BOOLEAN
  /\ ~outOfOrder =>
       /\ slot = Newest(loaded)
       /\ \A i \in 1 .. Len(loaded) :
            oldcall[loaded[i]] = IF i = 1 THEN Orig ELSE loaded[i - 1]

\* At boot no module is loaded.
LEMMA SlotInit == ASSUME Init PROVE SlotInv
<1>1. /\ loaded = << >> /\ slot = Orig /\ outOfOrder = FALSE
      /\ oldcall \in [Mods -> Mods \cup {Orig, None}]
  BY DEF Init
<1>2. loaded \in Seq(Mods) /\ NoDuplicates(loaded) /\ 1 .. Len(loaded) = {}
  BY <1>1, ListEmpty
<1> QED BY <1>1, <1>2 DEF SlotInv, Newest

\* Loading: the new module keeps the newest.
LEMMA SlotLoad ==
  ASSUME SlotInv, NEW m \in Mods, addsyscall_init(m)
  PROVE  SlotInv'
<1> DEFINE n == Len(loaded)
<1>1. /\ m \notin Range(loaded)
      /\ oldcall' = [oldcall EXCEPT ![m] = slot]
      /\ slot' = m
      /\ loaded' = Append(loaded, m)
      /\ outOfOrder' = outOfOrder
  BY DEF addsyscall_init
<1>2. /\ slot \in Mods \cup {Orig}
      /\ oldcall \in [Mods -> Mods \cup {Orig, None}]
      /\ loaded \in Seq(Mods) /\ NoDuplicates(loaded)
      /\ n \in Nat /\ DOMAIN loaded = 1 .. n
      /\ \A i \in 1 .. n : loaded[i] \in Mods /\ oldcall[loaded[i]] \in Mods \cup {Orig}
  BY DEF SlotInv
<1>3. /\ loaded' \in Seq(Mods) /\ Len(loaded') = n + 1 /\ NoDuplicates(loaded')
      /\ loaded'[n + 1] = m
      /\ \A i \in 1 .. n : loaded'[i] = loaded[i]
  <2>1. /\ Append(loaded, m) \in Seq(Mods) /\ Len(Append(loaded, m)) = n + 1
        /\ Append(loaded, m)[n + 1] = m
        /\ \A i \in 1 .. n : Append(loaded, m)[i] = loaded[i]
    BY <1>2
  <2>2. NoDuplicates(list_add_tail(m, loaded))
    BY <1>1, <1>2, ListAddTail
  <2> QED BY <1>1, <2>1, <2>2 DEF list_add_tail
<1>4. \A i \in 1 .. n : loaded[i] # m
  BY <1>1, <1>2 DEF Range
<1>5. oldcall' \in [Mods -> Mods \cup {Orig, None}] /\ slot' \in Mods \cup {Orig}
  BY <1>1, <1>2
<1>6. /\ oldcall'[loaded'[n + 1]] = slot
      /\ \A i \in 1 .. n : oldcall'[loaded'[i]] = oldcall[loaded[i]]
  BY <1>1, <1>2, <1>3, <1>4
<1> DEFINE n1 == Len(loaded')
<1>7. n1 = n + 1 /\ \A i \in 1 .. n1 : i \in 1 .. n \/ i = n + 1
  BY <1>2, <1>3
<1>8. \A i \in 1 .. n1 : oldcall'[loaded'[i]] \in Mods \cup {Orig}
  BY <1>2, <1>6, <1>7
<1>9. ASSUME ~outOfOrder'
      PROVE  /\ slot' = Newest(loaded)'
             /\ \A i \in 1 .. n1 :
                  oldcall'[loaded'[i]] = IF i = 1 THEN Orig ELSE loaded'[i - 1]
  <2>1. /\ slot = Newest(loaded)
        /\ \A i \in 1 .. n : oldcall[loaded[i]] = IF i = 1 THEN Orig ELSE loaded[i - 1]
    BY <1>1, <1>9 DEF SlotInv
  <2>2. slot' = Newest(loaded)'
    <3>1. loaded' # << >>
      BY <1>2, <1>3
    <3> QED BY <1>1, <1>3, <3>1 DEF Newest
  <2>3. ASSUME NEW i \in 1 .. n1
        PROVE  oldcall'[loaded'[i]] = IF i = 1 THEN Orig ELSE loaded'[i - 1]
    <3>1. CASE i \in 1 .. n
      <4>1. i # 1 => i - 1 \in 1 .. n
        BY <1>2, <3>1
      <4> QED BY <1>3, <1>6, <2>1, <3>1, <4>1
    <3>2. CASE i = n + 1 /\ n = 0
      <4>1. slot = Orig
        BY <1>2, <2>1, <3>2 DEF Newest
      <4> QED BY <1>6, <3>2, <4>1
    <3>3. CASE i = n + 1 /\ n # 0
      <4>1. slot = loaded[n]
        BY <1>2, <2>1, <3>3 DEF Newest
      <4>2. n \in 1 .. n /\ i - 1 = n /\ i # 1
        BY <1>2, <3>3
      <4> QED BY <1>3, <1>6, <3>3, <4>1, <4>2
    <3> QED BY <1>2, <1>7, <3>1, <3>2, <3>3
  <2> QED BY <2>2, <2>3
<1> QED BY <1>1, <1>3, <1>5, <1>8, <1>9 DEF SlotInv

\* Unloading: the one that goes puts back what it has kept.
LEMMA SlotUnload ==
  ASSUME SlotInv, NEW m \in Mods, addsyscall_exit(m)
  PROVE  SlotInv'
<1> DEFINE n == Len(loaded)
           n1 == Len(loaded')
<1>1. /\ m \in Range(loaded)
      /\ slot' = oldcall[m]
      /\ loaded' = list_del_init(m, loaded)
      /\ outOfOrder' = (outOfOrder \/ m # loaded[n])
      /\ oldcall' = oldcall
  BY DEF addsyscall_exit
<1>2. /\ oldcall \in [Mods -> Mods \cup {Orig, None}]
      /\ loaded \in Seq(Mods) /\ NoDuplicates(loaded)
      /\ n \in Nat /\ DOMAIN loaded = 1 .. n
      /\ \A i \in 1 .. n : loaded[i] \in Mods /\ oldcall[loaded[i]] \in Mods \cup {Orig}
      /\ outOfOrder \in BOOLEAN
  BY DEF SlotInv
<1>3. /\ loaded' \in Seq(Mods) /\ n1 = n - 1 /\ NoDuplicates(loaded')
      /\ Range(loaded') = Range(loaded) \ {m}
  BY <1>1, <1>2, ListDel
<1>4. PICK k \in 1 .. n : loaded[k] = m
  BY <1>1, <1>2 DEF Range
<1>5. slot' \in Mods \cup {Orig}
  BY <1>1, <1>2, <1>4
<1>6. \A i \in 1 .. n1 : oldcall'[loaded'[i]] \in Mods \cup {Orig}
  <2>1. \A i \in 1 .. n1 : loaded'[i] \in Range(loaded')
    BY <1>3 DEF Range
  <2>2. \A x \in Range(loaded) : oldcall[x] \in Mods \cup {Orig}
    BY <1>2 DEF Range
  <2> QED BY <1>1, <1>3, <2>1, <2>2
<1>7. ASSUME ~outOfOrder'
      PROVE  /\ slot' = Newest(loaded)'
             /\ \A i \in 1 .. n1 :
                  oldcall'[loaded'[i]] = IF i = 1 THEN Orig ELSE loaded'[i - 1]
  <2>1. /\ m = loaded[n]
        /\ \A i \in 1 .. n : oldcall[loaded[i]] = IF i = 1 THEN Orig ELSE loaded[i - 1]
    BY <1>1, <1>7 DEF SlotInv
  <2>2. n \in 1 .. n
    BY <1>2, <1>4
  <2>3. \A i \in 1 .. n1 : loaded'[i] = loaded[i]
    <3> DEFINE j == CHOOSE j \in 1 .. n : loaded[j] = m
    <3>1. j = n
      <4>1. j \in 1 .. n /\ loaded[j] = m
        BY <2>1, <2>2
      <4> HIDE DEF j
      <4> QED BY <1>2, <2>1, <2>2, <4>1 DEF NoDuplicates
    <3>2. loaded' = [i \in 1 .. (n - 1) |-> IF i < j THEN loaded[i] ELSE loaded[i + 1]]
      BY <1>1 DEF list_del_init
    <3> HIDE DEF j
    <3>3. ASSUME NEW i \in 1 .. n1
          PROVE  loaded'[i] = loaded[i]
      <4>1. i \in 1 .. (n - 1) /\ i < n
        BY <1>2, <1>3
      <4> QED BY <3>1, <3>2, <4>1
    <3> QED BY <3>3
  <2>4. slot' = Newest(loaded)'
    <3>1. CASE n = 1
      <4>1. loaded' = << >> /\ slot' = Orig
        BY <1>1, <1>3, <2>1, <2>2, <3>1
      <4> QED BY <4>1 DEF Newest
    <3>2. CASE n # 1
      <4>1. n1 \in 1 .. n1 /\ n - 1 = n1 /\ loaded' # << >>
        BY <1>2, <1>3, <2>2, <3>2
      <4>2. slot' = loaded[n1]
        BY <1>1, <2>1, <2>2, <3>2, <4>1
      <4> QED BY <2>3, <4>1, <4>2 DEF Newest
    <3> QED BY <3>1, <3>2
  <2>5. ASSUME NEW i \in 1 .. n1
        PROVE  oldcall'[loaded'[i]] = IF i = 1 THEN Orig ELSE loaded'[i - 1]
    <3>1. i \in 1 .. n /\ (i # 1 => i - 1 \in 1 .. n1)
      BY <1>2, <1>3
    <3> QED BY <1>1, <2>1, <2>3, <3>1
  <2> QED BY <2>4, <2>5
<1>8. outOfOrder' \in BOOLEAN
  BY <1>1, <1>2
<1> QED BY <1>1, <1>2, <1>3, <1>5, <1>6, <1>7, <1>8 DEF SlotInv

\* Only loading and unloading change the slot.
LEMMA SlotStep == ASSUME SlotInv, [Next]_vars PROVE SlotInv'
<1>1. ASSUME NEW m \in Mods, addsyscall_init(m) \/ addsyscall_exit(m)
      PROVE  SlotInv'
  BY <1>1, SlotLoad, SlotUnload
<1>2. ASSUME UNCHANGED slotVars
      PROVE  SlotInv'
  BY <1>2 DEF SlotInv, slotVars, Newest
<1>3. ASSUME NEW p \in Tasks, NEW t \in Tasks, Fork(p, t) \/ Exit(t)
      PROVE  UNCHANGED slotVars
  BY <1>3 DEF Fork, Exit
<1>4. ASSUME NEW c \in Callers, NEW got \in SUBSET Blocks, ptree(c, got)
      PROVE  UNCHANGED slotVars
  BY <1>4 DEF ptree
<1>5. ASSUME NEW c \in Callers,
             \/ read_lock(c) \/ dfs_ptree(c) \/ read_unlock(c)
             \/ copy_buf(c) \/ copy_nr(c) \/ copy_fails(c)
      PROVE  UNCHANGED slotVars
  BY <1>5 DEF read_lock, dfs_ptree, read_unlock, copy_buf, copy_nr, copy_fails, Return
<1>6. CASE UNCHANGED vars
  <2>1. UNCHANGED slotVars
    BY <1>6 DEF vars, slotVars
  <2> QED BY <1>2, <2>1
<1> QED BY <1>1, <1>2, <1>3, <1>4, <1>5, <1>6 DEF Next
-----------------------------------------------------------------------------
(* The calls.                                                              *)

FrameType == [task : Tasks, depth : Nat, pos : PidOrNone]
UserType == [recs : Nat, nr : Nat, ret : {0, 1}]

\* What one call holds and what its caller has been given, by where it is.
CallOK(c) ==
  /\ allocated[c] = IF pc[c] = "user" THEN {} ELSE Blocks
  /\ user[c].nr <= user[c].recs
  /\ pc[c] # "user" => user[c].nr = 0
  /\ pc[c] = "copy_nr" => user[c].recs = Len(ker_buf[c])

\* Types, the blocks of each call, and the count of those lost.
CallInv ==
  /\ pc \in [Callers -> {"user", "lock", "walk", "copy", "copy_nr"}]
  /\ stack \in [Callers -> Seq(FrameType)]
  /\ ker_buf \in [Callers -> Seq(Record)]
  /\ allocated \in [Callers -> SUBSET Blocks]
  /\ lost \in Nat /\ halfFailed \in Nat
  /\ user \in [Callers -> UserType]
  /\ lost = halfFailed
  /\ \A c \in Callers : CallOK(c)

\* At boot nobody calls.
LEMMA CallInit == ASSUME Init PROVE CallInv
<1>1. /\ pc \in [Callers -> {"user", "lock", "walk", "copy", "copy_nr"}]
      /\ stack \in [Callers -> Seq(FrameType)]
      /\ ker_buf \in [Callers -> Seq(Record)]
      /\ allocated \in [Callers -> SUBSET Blocks]
  BY ListEmpty DEF Init
<1>2. user \in [Callers -> UserType]
  BY DEF Init, UserType
<1>3. ASSUME NEW c \in Callers
      PROVE  CallOK(c)
  BY DEF Init, CallOK
<1>4. lost = 0 /\ halfFailed = 0
  BY DEF Init
<1> QED BY <1>1, <1>2, <1>3, <1>4 DEF CallInv

\* The record of a task has its type.
LEMMA RecordType ==
  ASSUME TreeInv, NEW t \in Tasks, NEW d \in Nat
  PROVE  get_prinfo(t, d) \in Record /\ Frame(t, d) \in FrameType
<1>1. parent[t] \in PidOrNone /\ t \in PidOrNone /\ None \in PidOrNone
  BY DEF TreeInv, PidOrNone
<1>2. Frame(t, d) \in FrameType
  BY <1>1 DEF Frame, FrameType
<1> DEFINE f == IF children[t] = << >> THEN None ELSE t
           n == IF t = InitTask THEN None ELSE t
<1>3. f \in PidOrNone /\ n \in PidOrNone
  BY <1>1
<1>4. get_prinfo(t, d) = [parent_pid |-> parent[t], pid |-> t, first_child_pid |-> f,
                          next_sibling_pid |-> n, depth |-> d]
  BY DEF get_prinfo
<1> HIDE DEF f, n
<1>5. get_prinfo(t, d) \in Record
  BY <1>1, <1>3, <1>4 DEF Record
<1> QED BY <1>2, <1>5

\* The last of a sequence, taken off or replaced.
LEMMA SeqLast ==
  ASSUME NEW S, NEW s \in Seq(S), s # << >>, NEW e \in S
  PROVE  /\ Len(s) \in 1 .. Len(s) /\ s[Len(s)] \in S
         /\ SubSeq(s, 1, Len(s) - 1) \in Seq(S)
         /\ [s EXCEPT ![Len(s)] = e] \in Seq(S)
<1> DEFINE n == Len(s)
<1>1. n \in Nat \ {0} /\ s \in [1 .. n -> S]
  BY LenProperties, EmptySeq
<1>2. n \in 1 .. n /\ s[n] \in S
  BY <1>1
<1>3. SubSeq(s, 1, n - 1) \in Seq(S)
  BY <1>1
<1>4. [s EXCEPT ![n] = e] \in Seq(S)
  BY <1>2, ExceptSeq
<1> QED BY <1>2, <1>3, <1>4

-----------------------------------------------------------------------------
(* The walk.                                                               *)

\* The walk of the list l, at its entry pos, has come to v.
Passed(v, pos, l) == pos # None /\ (v = pos \/ Ahead(v, pos, l))

\* list_for_each comes to each entry, one after the other.
LEMMA NextOnComesToAll ==
  ASSUME NEW S, NEW l \in Seq(S), NoDuplicates(l), None \notin Range(l),
         NEW pos, pos = None \/ pos \in Range(l)
  PROVE  \/ /\ NextOn(l, pos) = None
            /\ \A v \in Range(l) : Passed(v, pos, l)
         \/ /\ NextOn(l, pos) \in Range(l)
            /\ NextOn(l, pos) # None
            /\ ~Passed(NextOn(l, pos), pos, l)
            /\ \A v \in Range(l) :
                 Passed(v, NextOn(l, pos), l) <=> v = NextOn(l, pos) \/ Passed(v, pos, l)
<1> DEFINE n == Len(l)
           j0 == CHOOSE j \in 1 .. n : l[j] = pos
           i == IF pos = None THEN 0 ELSE j0
<1>1. n \in Nat /\ \A k \in 1 .. n : l[k] \in Range(l) /\ l[k] # None
  BY DEF Range
<1>2. \A v \in Range(l) : \E k \in 1 .. n : l[k] = v
  BY DEF Range
<1>3. \A k, m \in 1 .. n : l[k] = l[m] => k = m
  BY DEF NoDuplicates
<1>4. i \in 0 .. n /\ (pos = None <=> i = 0) /\ (i # 0 => l[i] = pos)
  <2>1. CASE pos = None
    BY <1>1, <2>1
  <2>2. CASE pos # None
    <3>1. j0 \in 1 .. n /\ l[j0] = pos
      BY <1>2, <2>2
    <3> HIDE DEF j0
    <3> QED BY <1>1, <2>2, <3>1
  <2> QED BY <2>1, <2>2
<1>5. NextOn(l, pos) = IF i < n THEN l[i + 1] ELSE None
  BY DEF NextOn
<1> HIDE DEF i
<1>6. ASSUME NEW k \in 1 .. n, NEW m \in 1 .. n
      PROVE  Ahead(l[k], l[m], l) <=> k < m
  <2>1. n = Len(l)
    OBVIOUS
  <2> HIDE DEF n
  <2> QED BY <1>3, <2>1 DEF Ahead
<1>7. ASSUME NEW k \in 1 .. n PROVE Passed(l[k], pos, l) <=> k <= i
  <2>1. CASE i = 0
    BY <1>4, <2>1 DEF Passed
  <2>2. CASE i # 0
    <3>1. i \in 1 .. n /\ l[i] = pos /\ pos # None
      BY <1>1, <1>4, <2>2
    <3>2. Ahead(l[k], pos, l) <=> k < i
      BY <1>6, <3>1
    <3>3. l[k] = pos <=> k = i
      BY <1>3, <3>1
    <3> QED BY <3>1, <3>2, <3>3 DEF Passed
  <2> QED BY <2>1, <2>2
<1>8. CASE i < n
  <2> DEFINE next == l[i + 1]
  <2>1. i + 1 \in 1 .. n
    BY <1>1, <1>4, <1>8
  <2>2. NextOn(l, pos) = next /\ next \in Range(l) /\ next # None
    BY <1>1, <1>5, <1>8, <2>1
  <2>3. ~Passed(next, pos, l)
    BY <1>4, <1>7, <2>1
  <2>4. ASSUME NEW k \in 1 .. n
        PROVE  Passed(l[k], next, l) <=> l[k] = next \/ Passed(l[k], pos, l)
    <3>1. Ahead(l[k], next, l) <=> k < i + 1
      BY <1>6, <2>1
    <3>2. l[k] = next <=> k = i + 1
      BY <1>3, <2>1
    <3>3. Passed(l[k], next, l) <=> k <= i + 1
      BY <1>4, <2>1, <2>2, <3>1, <3>2 DEF Passed
    <3> QED BY <1>4, <1>7, <3>2, <3>3
  <2>5. \A v \in Range(l) : Passed(v, next, l) <=> v = next \/ Passed(v, pos, l)
    BY <1>2, <2>4
  <2> QED BY <2>2, <2>3, <2>5
<1>9. CASE ~(i < n)
  <2>1. NextOn(l, pos) = None
    BY <1>5, <1>9
  <2>2. \A k \in 1 .. n : k <= i
    BY <1>1, <1>4, <1>9
  <2>3. \A v \in Range(l) : Passed(v, pos, l)
    BY <1>2, <1>7, <2>2
  <2> QED BY <2>1, <2>3
<1> QED BY <1>8, <1>9

\* The records b have one of v.
Seen(v, b) == \E i \in 1 .. Len(b) : b[i].pid = v

\* Each record is right, each task has one at most, and init has one.
RecordsOK(b) ==
  /\ \A i \in 1 .. Len(b) :
       /\ Live(b[i].pid)
       /\ b[i].parent_pid = parent[b[i].pid]
       /\ b[i].depth = DepthOf[b[i].pid]
  /\ \A i, j \in 1 .. Len(b) : b[i].pid = b[j].pid => i = j
  /\ Seen(InitTask, b)

\* The record of the parent is the last one above that is one level up.
Above(b, i) == {j \in 1 .. i - 1 : b[j].depth = b[i].depth - 1}
ParentsAbove(b) ==
  \A i \in 1 .. Len(b) : b[i].parent_pid # None =>
    \E j \in Above(b, i) : b[i].parent_pid = b[j].pid /\ \A k \in Above(b, i) : k <= j

SiblingsOrdered(b) ==
  \A i, j \in 1 .. Len(b) : i < j /\ b[i].parent_pid = b[j].parent_pid =>
    Ahead(b[i].pid, b[j].pid, children[b[i].parent_pid])

\* The record of the frame at m, below which are all that came after it.
Holds(b, j, f, m) ==
  /\ b[j].pid = f.task /\ b[j].depth = m - 1
  /\ \A k \in j + 1 .. Len(b) : b[k].depth > m - 1

\* The frames are a way down, of tasks that have been seen.
FramesOK(s, b) ==
  \A m \in 1 .. Len(s) :
    /\ s[m].depth = m - 1
    /\ s[m].pos = None \/ s[m].pos \in Range(children[s[m].task])
    /\ \E j \in 1 .. Len(b) : Holds(b, j, s[m], m)

\* A task has been seen if its parent has and, while the parent has a frame,
\* if that has come to it.
ReachedFrom(u, v, s) ==
  \A m \in 1 .. Len(s) : s[m].task = u => Passed(v, s[m].pos, children[u])
VisitedOK(s, b) ==
  \A v \in Tasks : parent[v] # None =>
    (Seen(v, b) <=> Seen(parent[v], b) /\ ReachedFrom(parent[v], v, s))

Walked(s, b) ==
  RecordsOK(b) /\ ParentsAbove(b) /\ SiblingsOrdered(b) /\ FramesOK(s, b) /\ VisitedOK(s, b)

Walking == \A c \in Callers : pc[c] = "walk" => Walked(stack[c], ker_buf[c])

\* A walk that writes beyond the last record ends there, on its way down.
WalkInv ==
  \A c \in Callers : pc[c] = "walk" =>
    Walked(stack[c], ker_buf[c]) \/ (overrun /\ stack[c] # << >>)

\* The lists of the tree, as the walk reads them.
LEMMA ChildLists ==
  ASSUME TreeInv, NEW u \in Tasks
  PROVE  /\ children[u] \in Seq(Tasks) /\ NoDuplicates(children[u])
         /\ \A v : v \in Range(children[u]) <=> v \in Tasks /\ parent[v] = u
         /\ None \notin Range(children[u])
<1>1. Range(children[u]) = {v \in Tasks : parent[v] = u}
  BY DEF TreeInv
<1>2. None \notin Range(children[u])
  BY <1>1, TreeAssumption
<1> QED BY <1>1, <1>2 DEF TreeInv

\* It begins at init.
LEMMA WalkBegins ==
  ASSUME TreeInv, DepthInv
  PROVE  Walked(<< Frame(InitTask, 0) >>, << get_prinfo(InitTask, 0) >>)
<1> DEFINE f == Frame(InitTask, 0)
           r == get_prinfo(InitTask, 0)
           s == << f >>
           b == << r >>
<1>1. f.task = InitTask /\ f.depth = 0 /\ f.pos = None
  BY DEF Frame
<1>2. r.pid = InitTask /\ r.depth = 0 /\ r.parent_pid = None
  BY DEF get_prinfo, TreeInv
<1>3. DepthOf[InitTask] = 0 /\ Live(InitTask) /\ InitTask \in Tasks /\ parent[InitTask] = None
  <2>1. InitTask \in Tasks /\ parent[InitTask] = None
    BY TreeAssumption DEF TreeInv
  <2> QED BY <2>1, DepthOfParent DEF Live
<1>4. Len(s) = 1 /\ s[1] = f /\ Len(b) = 1 /\ b[1] = r
  OBVIOUS
<1> HIDE DEF f, r, s, b
<1>5. RecordsOK(b) /\ Seen(InitTask, b)
  BY <1>2, <1>3, <1>4 DEF RecordsOK, Seen
<1>6. ParentsAbove(b) /\ SiblingsOrdered(b)
  BY <1>2, <1>4 DEF ParentsAbove, SiblingsOrdered
<1>7. FramesOK(s, b)
  BY <1>1, <1>2, <1>4 DEF FramesOK, Holds
<1>8. VisitedOK(s, b)
  <2> SUFFICES ASSUME NEW v \in Tasks, parent[v] # None
               PROVE  ~Seen(v, b) /\ ~(Seen(parent[v], b) /\ ReachedFrom(parent[v], v, s))
    BY DEF VisitedOK
  <2>1. ~Seen(v, b)
    BY <1>2, <1>3, <1>4 DEF Seen
  <2>2. ASSUME parent[v] = InitTask PROVE ~ReachedFrom(parent[v], v, s)
    <3>1. 1 \in 1 .. Len(s) /\ s[1].task = InitTask /\ s[1].pos = None
      BY <1>1, <1>4
    <3> QED BY <2>2, <3>1 DEF ReachedFrom, Passed
  <2>3. ASSUME Seen(parent[v], b) PROVE parent[v] = InitTask
    BY <1>2, <1>4, <2>3 DEF Seen
  <2> QED BY <2>1, <2>2, <2>3
<1>9. Walked(s, b)
  BY <1>5, <1>6, <1>7, <1>8 DEF Walked
<1> QED BY <1>9 DEF s, b, f, r

\* A task is on the way down once.
LEMMA FramesDiffer ==
  ASSUME NEW s \in Seq(FrameType), NEW b \in Seq(Record), RecordsOK(b), FramesOK(s, b),
         NEW m \in 1 .. Len(s), NEW k \in 1 .. Len(s), s[m].task = s[k].task
  PROVE  m = k
<1>1. PICK i \in 1 .. Len(b) : b[i].pid = s[m].task /\ b[i].depth = m - 1
  BY DEF FramesOK, Holds
<1>2. PICK j \in 1 .. Len(b) : b[j].pid = s[k].task /\ b[j].depth = k - 1
  BY DEF FramesOK, Holds
<1>3. i = j
  BY <1>1, <1>2 DEF RecordsOK
<1> QED BY <1>1, <1>2, <1>3

\* Down to the next child, whose record is added.
LEMMA WalkDown ==
  ASSUME TreeInv, DepthInv, NEW s \in Seq(FrameType), NEW b \in Seq(Record),
         s # << >>, Walked(s, b),
         NEW next, next = NextOn(children[s[Len(s)].task], s[Len(s)].pos), next # None,
         NEW s2 \in Seq(FrameType), NEW b2 \in Seq(Record),
         Len(s2) = Len(s) + 1,
         \A m \in 1 .. Len(s) : m # Len(s) => s2[m] = s[m],
         s2[Len(s)].task = s[Len(s)].task,
         s2[Len(s)].depth = s[Len(s)].depth,
         s2[Len(s)].pos = next,
         s2[Len(s) + 1].task = next,
         s2[Len(s) + 1].depth = s[Len(s)].depth + 1,
         s2[Len(s) + 1].pos = None,
         Len(b2) = Len(b) + 1,
         \A i \in 1 .. Len(b) : b2[i] = b[i],
         b2[Len(b) + 1].pid = next,
         b2[Len(b) + 1].parent_pid = parent[next],
         b2[Len(b) + 1].depth = s[Len(s)].depth + 1
  PROVE  Walked(s2, b2)
<1> DEFINE n == Len(s)
           N == Len(b)
           u == s[n].task
           pos == s[n].pos
<1>1. /\ n \in Nat \ {0} /\ n \in 1 .. n /\ N \in Nat
      /\ \A m \in 1 .. n : s[m] \in FrameType
      /\ \A i \in 1 .. N : b[i] \in Record
      /\ 1 .. n + 1 = (1 .. n) \cup {n + 1} /\ 1 .. N + 1 = (1 .. N) \cup {N + 1}
  <2>1. n \in Nat /\ N \in Nat /\ n # 0
    BY EmptySeq
  <2> QED BY <2>1
<1>2. /\ RecordsOK(b) /\ ParentsAbove(b) /\ SiblingsOrdered(b) /\ FramesOK(s, b)
      /\ VisitedOK(s, b)
  BY DEF Walked
<1>3. /\ s[n].depth = n - 1 /\ u \in Tasks
      /\ pos = None \/ pos \in Range(children[u])
  BY <1>1, <1>2 DEF FramesOK, FrameType
<1>4. PICK j \in 1 .. N : Holds(b, j, s[n], n)
  BY <1>1, <1>2 DEF FramesOK
<1>5. /\ next \in Range(children[u])
      /\ ~Passed(next, pos, children[u])
      /\ \A v \in Range(children[u]) :
           Passed(v, next, children[u]) <=> v = next \/ Passed(v, pos, children[u])
  BY <1>3, ChildLists, NextOnComesToAll
<1>6. /\ next \in Tasks /\ parent[next] = u /\ u # None /\ u # next
      /\ \A v : v \in Range(children[u]) <=> v \in Tasks /\ parent[v] = u
  BY <1>3, <1>5, ChildLists, TreeAssumption DEF TreeInv
<1>7. ~Seen(next, b)
  BY <1>1, <1>2, <1>5, <1>6 DEF VisitedOK, ReachedFrom
<1>8. DepthOf[next] = n /\ Live(next) /\ DepthOf[u] = n - 1
  <2>1. DepthOf[u] = n - 1
    BY <1>2, <1>4 DEF RecordsOK, Holds
  <2>2. DepthOf[next] = DepthOf[u] + 1
    BY <1>6, DepthOfParent
  <2> QED BY <1>1, <1>6, <2>1, <2>2 DEF Live
<1>9. /\ \A v : Seen(v, b2) <=> v = next \/ Seen(v, b)
      /\ Seen(u, b) /\ Seen(next, b2)
  BY <1>1, <1>4 DEF Seen, Holds
<1>10. RecordsOK(b2)
  <2>1. ASSUME NEW i \in 1 .. N + 1
        PROVE  /\ Live(b2[i].pid) /\ b2[i].parent_pid = parent[b2[i].pid]
               /\ b2[i].depth = DepthOf[b2[i].pid]
    <3>1. CASE i \in 1 .. N
      BY <1>2, <3>1 DEF RecordsOK
    <3>2. CASE i = N + 1
      BY <1>1, <1>3, <1>8, <3>2
    <3> QED BY <1>1, <3>1, <3>2
  <2>2. ASSUME NEW i \in 1 .. N + 1, NEW k \in 1 .. N + 1, b2[i].pid = b2[k].pid
        PROVE  i = k
    <3>1. \A h \in 1 .. N : b2[h].pid = b[h].pid /\ b[h].pid # next
      BY <1>7 DEF Seen
    <3>2. CASE i \in 1 .. N /\ k \in 1 .. N
      BY <1>2, <2>2, <3>1, <3>2 DEF RecordsOK
    <3> QED BY <1>1, <2>2, <3>1, <3>2
  <2>3. Seen(InitTask, b2)
    BY <1>2, <1>9 DEF RecordsOK
  <2> QED BY <2>1, <2>2, <2>3 DEF RecordsOK
<1>11. ParentsAbove(b2)
  <2> SUFFICES ASSUME NEW i \in 1 .. N + 1, b2[i].parent_pid # None
               PROVE  \E k \in Above(b2, i) : /\ b2[i].parent_pid = b2[k].pid
                                              /\ \A h \in Above(b2, i) : h <= k
    BY DEF ParentsAbove
  <2>1. CASE i \in 1 .. N
    <3>1. b2[i] = b[i] /\ Above(b2, i) = Above(b, i)
      BY <1>1, <2>1 DEF Above
    <3>2. PICK k \in Above(b, i) : b[i].parent_pid = b[k].pid /\ \A h \in Above(b, i) : h <= k
      BY <1>2, <2>1, <3>1 DEF ParentsAbove
    <3>3. b2[k] = b[k]
      BY <1>1, <2>1, <3>2 DEF Above
    <3> QED BY <3>1, <3>2, <3>3
  <2>2. CASE i = N + 1
    <3>1. /\ b2[j] = b[j] /\ b[j].pid = u /\ b[j].depth = n - 1
          /\ \A k \in j + 1 .. N : b[k].depth > n - 1
          /\ \A k \in 1 .. N : b[k].depth \in Nat
      BY <1>1, <1>4 DEF Holds, Record
    <3>2. b2[i].depth - 1 = n - 1 /\ b2[i].parent_pid = u
      BY <1>1, <1>3, <1>6, <2>2
    <3>3. j \in Above(b2, i)
      BY <1>1, <2>2, <3>1, <3>2 DEF Above
    <3>4. ASSUME NEW h \in Above(b2, i) PROVE h <= j
      <4>1. h \in 1 .. N /\ b2[h].depth = n - 1 /\ b2[h] = b[h]
        BY <1>1, <2>2, <3>2 DEF Above
      <4> QED BY <1>1, <3>1, <4>1
    <3> QED BY <3>1, <3>2, <3>3, <3>4
  <2> QED BY <1>1, <2>1, <2>2
<1>12. SiblingsOrdered(b2)
  <2> SUFFICES ASSUME NEW i \in 1 .. N + 1, NEW k \in 1 .. N + 1, i < k,
                      b2[i].parent_pid = b2[k].parent_pid
               PROVE  Ahead(b2[i].pid, b2[k].pid, children[b2[i].parent_pid])
    BY DEF SiblingsOrdered
  <2>1. i \in 1 .. N /\ b2[i] = b[i]
    BY <1>1
  <2>2. CASE k \in 1 .. N
    BY <1>2, <2>1, <2>2 DEF SiblingsOrdered
  <2>3. CASE k = N + 1
    <3> DEFINE v == b[i].pid
    <3>1. b[i].parent_pid = u /\ b2[k].pid = next
      BY <1>6, <2>1, <2>3
    <3>2. v \in Tasks /\ parent[v] = u /\ Seen(v, b)
      BY <1>1, <1>2, <2>1, <3>1 DEF RecordsOK, Record, Seen
    <3>3. Passed(v, pos, children[u])
      BY <1>1, <1>2, <1>6, <3>2 DEF VisitedOK, ReachedFrom
    <3>4. v # next
      BY <1>7, <3>2
    <3>5. Ahead(v, next, children[u])
      BY <1>5, <1>6, <3>2, <3>3, <3>4 DEF Passed
    <3> QED BY <2>1, <3>1, <3>5
  <2> QED BY <1>1, <2>2, <2>3
<1>13. FramesOK(s2, b2)
  <2> SUFFICES ASSUME NEW m \in 1 .. n + 1
               PROVE  /\ s2[m].depth = m - 1
                      /\ s2[m].pos = None \/ s2[m].pos \in Range(children[s2[m].task])
                      /\ \E i \in 1 .. N + 1 : Holds(b2, i, s2[m], m)
    BY DEF FramesOK
  <2>1. CASE m \in 1 .. n
    <3>1. s2[m].depth = m - 1 /\ s2[m].task = s[m].task
      BY <1>1, <1>2, <1>3, <2>1 DEF FramesOK
    <3>2. s2[m].pos = None \/ s2[m].pos \in Range(children[s2[m].task])
      <4>1. CASE m = n
        BY <1>5, <4>1
      <4>2. CASE m # n
        <5>1. s2[m] = s[m]
          BY <2>1, <4>2
        <5> QED BY <1>2, <2>1, <5>1 DEF FramesOK
      <4> QED BY <4>1, <4>2
    <3>3. PICK i \in 1 .. N : Holds(b, i, s[m], m)
      BY <1>2, <2>1 DEF FramesOK
    <3>4. Holds(b2, i, s2[m], m)
      <4>1. b2[i].pid = s2[m].task /\ b2[i].depth = m - 1
        BY <1>1, <3>1, <3>3 DEF Holds
      <4>2. ASSUME NEW k \in i + 1 .. N + 1 PROVE b2[k].depth > m - 1
        <5>1. CASE k = N + 1
          BY <1>1, <1>3, <2>1, <5>1
        <5>2. CASE k # N + 1
          <6>1. k \in i + 1 .. N /\ k \in 1 .. N
            BY <1>1, <5>2
          <6> QED BY <1>1, <3>3, <6>1 DEF Holds
        <5> QED BY <5>1, <5>2
      <4> QED BY <4>1, <4>2 DEF Holds
    <3> QED BY <1>1, <3>1, <3>2, <3>4
  <2>2. CASE m = n + 1
    <3>1. s2[m].depth = m - 1 /\ s2[m].pos = None /\ s2[m].task = next
      BY <1>1, <1>3, <2>2
    <3>2. Holds(b2, N + 1, s2[m], m)
      BY <1>1, <1>3, <2>2, <3>1 DEF Holds
    <3>3. N + 1 \in 1 .. N + 1
      BY <1>1
    <3> QED BY <3>1, <3>2, <3>3
  <2> QED BY <1>1, <2>1, <2>2
<1>14. VisitedOK(s2, b2)
  <2> SUFFICES ASSUME NEW v \in Tasks, parent[v] # None
               PROVE  Seen(v, b2) <=> Seen(parent[v], b2) /\ ReachedFrom(parent[v], v, s2)
    BY DEF VisitedOK
  <2>0. Seen(v, b) <=> Seen(parent[v], b) /\ ReachedFrom(parent[v], v, s)
    BY <1>2 DEF VisitedOK
  <2>1. CASE parent[v] = u
    <3>1. \A m \in 1 .. n : s[m].task = u => m = n
      BY <1>1, <1>2, FramesDiffer
    <3>2. ReachedFrom(u, v, s) <=> Passed(v, pos, children[u])
      BY <1>1, <3>1 DEF ReachedFrom
    <3>3. \A m \in 1 .. n + 1 : s2[m].task = u => m = n
      BY <1>1, <1>6, <3>1
    <3>4. ReachedFrom(u, v, s2) <=> Passed(v, next, children[u])
      <4>1. n \in 1 .. n + 1 /\ s2[n].task = u /\ s2[n].pos = next
        BY <1>1
      <4> QED BY <3>3, <4>1 DEF ReachedFrom
    <3> QED BY <1>5, <1>6, <1>9, <2>0, <2>1, <3>2, <3>4
  <2>2. CASE parent[v] = next
    <3>1. ~Seen(v, b) /\ v # next
      BY <1>6, <1>7, <2>0, <2>2
    <3>2. ~ReachedFrom(next, v, s2)
      <4>1. n + 1 \in 1 .. n + 1 /\ s2[n + 1].task = next /\ s2[n + 1].pos = None
        BY <1>1
      <4> QED BY <4>1 DEF ReachedFrom, Passed
    <3> QED BY <1>9, <2>2, <3>1, <3>2
  <2>3. CASE parent[v] # u /\ parent[v] # next
    <3>1. v # next
      BY <1>6, <2>3
    <3>2. ReachedFrom(parent[v], v, s2) <=> ReachedFrom(parent[v], v, s)
      BY <1>1, <2>3 DEF ReachedFrom
    <3> QED BY <1>9, <2>0, <2>3, <3>1, <3>2
  <2> QED BY <2>1, <2>2, <2>3
<1> QED BY <1>10, <1>11, <1>12, <1>13, <1>14 DEF Walked

\* Back from the last child.
LEMMA WalkBack ==
  ASSUME TreeInv, DepthInv, NEW s \in Seq(FrameType), NEW b \in Seq(Record),
         s # << >>, Walked(s, b),
         NextOn(children[s[Len(s)].task], s[Len(s)].pos) = None,
         NEW s2 \in Seq(FrameType), Len(s2) = Len(s) - 1,
         \A m \in 1 .. Len(s) - 1 : s2[m] = s[m]
  PROVE  Walked(s2, b)
<1> DEFINE n == Len(s)
           u == s[n].task
           pos == s[n].pos
<1>1. /\ n \in Nat \ {0} /\ n \in 1 .. n /\ n - 1 \in Nat
      /\ \A m \in 1 .. n : s[m] \in FrameType
      /\ 1 .. n = (1 .. n - 1) \cup {n}
  <2>1. n \in Nat /\ n # 0
    BY EmptySeq
  <2> QED BY <2>1
<1>2. /\ RecordsOK(b) /\ ParentsAbove(b) /\ SiblingsOrdered(b) /\ FramesOK(s, b)
      /\ VisitedOK(s, b)
  BY DEF Walked
<1>3. u \in Tasks /\ (pos = None \/ pos \in Range(children[u]))
  BY <1>1, <1>2 DEF FramesOK, FrameType
<1>4. \A v \in Range(children[u]) : Passed(v, pos, children[u])
  BY <1>3, ChildLists, NextOnComesToAll
<1>5. FramesOK(s2, b)
  BY <1>1, <1>2 DEF FramesOK
<1>6. VisitedOK(s2, b)
  <2> SUFFICES ASSUME NEW v \in Tasks, parent[v] # None
               PROVE  ReachedFrom(parent[v], v, s2) <=> ReachedFrom(parent[v], v, s)
    BY <1>2 DEF VisitedOK
  <2>1. CASE parent[v] = u
    <3>1. \A m \in 1 .. n : s[m].task = u => m = n
      BY <1>1, <1>2, FramesDiffer
    <3>2. ReachedFrom(u, v, s2)
      BY <1>1, <3>1 DEF ReachedFrom
    <3>3. Passed(v, pos, children[u])
      BY <1>3, <1>4, <2>1, ChildLists
    <3>4. ReachedFrom(u, v, s)
      BY <1>1, <3>1, <3>3 DEF ReachedFrom
    <3> QED BY <2>1, <3>2, <3>4
  <2>2. CASE parent[v] # u
    BY <1>1, <2>2 DEF ReachedFrom
  <2> QED BY <2>1, <2>2
<1> QED BY <1>2, <1>5, <1>6 DEF Walked

\* While the tree stays what it is, so does what has been walked.
LEMMA WalkedSame ==
  ASSUME NEW s, NEW b, Walked(s, b), UNCHANGED treeVars
  PROVE  Walked(s, b)'
<1>1. parent' = parent /\ children' = children
  BY DEF treeVars
<1>2. DepthOf' = DepthOf
  BY <1>1 DEF DepthOf
<1>3. RecordsOK(b)'
  BY <1>1, <1>2 DEF Walked, RecordsOK, Live, Seen
<1>4. ParentsAbove(b)' /\ SiblingsOrdered(b)'
  BY <1>1 DEF Walked, ParentsAbove, SiblingsOrdered, Above
<1>5. FramesOK(s, b)'
  BY <1>1 DEF Walked, FramesOK, Holds
<1>6. VisitedOK(s, b)'
  BY <1>1 DEF Walked, VisitedOK, ReachedFrom, Seen
<1> QED BY <1>3, <1>4, <1>5, <1>6 DEF Walked

\* The end of the way down, as the steps of dfs_ptree change it.
LEMMA FrameAt ==
  ASSUME NEW s \in Seq(FrameType), s # << >>, NEW pos \in PidOrNone, NEW f \in FrameType
  PROVE  LET n == Len(s)
             r == [s EXCEPT ![n].pos = pos]
             t == Append(r, f)
         IN  /\ n \in Nat \ {0}
             /\ t \in Seq(FrameType) /\ Len(t) = n + 1 /\ t[n + 1] = f
             /\ \A m \in 1 .. n : m # n => t[m] = s[m]
             /\ t[n].task = s[n].task /\ t[n].depth = s[n].depth /\ t[n].pos = pos
<1> DEFINE n == Len(s)
           top == s[n]
           moved == [top EXCEPT !.pos = pos]
           r == [s EXCEPT ![n] = moved]
           t == Append(r, f)
<1>1. n \in 1 .. n /\ n \in Nat \ {0} /\ top \in FrameType
  BY SeqLast, EmptySeq
<1>2. /\ moved \in FrameType
      /\ moved.task = top.task /\ moved.depth = top.depth /\ moved.pos = pos
  BY <1>1 DEF FrameType
<1> HIDE DEF moved
<1>3. /\ r \in Seq(FrameType) /\ Len(r) = n /\ r[n] = moved
      /\ \A m \in 1 .. n : m # n => r[m] = s[m]
  BY <1>1, <1>2, SeqLast, ExceptSeq
<1> HIDE DEF r, n, top
<1>4. /\ t \in Seq(FrameType) /\ Len(t) = n + 1 /\ t[n + 1] = f
      /\ \A m \in 1 .. n : t[m] = r[m]
  BY <1>1, <1>3
<1> HIDE DEF t
<1>5. /\ n \in Nat \ {0}
      /\ t \in Seq(FrameType) /\ Len(t) = n + 1 /\ t[n + 1] = f
      /\ \A m \in 1 .. n : m # n => t[m] = s[m]
      /\ t[n].task = s[n].task /\ t[n].depth = s[n].depth /\ t[n].pos = pos
  BY <1>1, <1>2, <1>3, <1>4 DEF top
<1> QED BY <1>5 DEF t, r, moved, top, n

\* The next child is a task that is there and has not been seen.
LEMMA NextUnseen ==
  ASSUME TreeInv, NEW s \in Seq(FrameType), NEW b \in Seq(Record), s # << >>, Walked(s, b),
         NEW next, next = NextOn(children[s[Len(s)].task], s[Len(s)].pos), next # None
  PROVE  next \in Tasks /\ Live(next) /\ ~Seen(next, b)
<1> DEFINE n == Len(s)
           u == s[n].task
           pos == s[n].pos
<1>1. n \in 1 .. n /\ s[n] \in FrameType
  BY SeqLast
<1>2. u \in Tasks /\ (pos = None \/ pos \in Range(children[u]))
  BY <1>1 DEF FrameType, Walked, FramesOK
<1>3. next \in Range(children[u]) /\ ~Passed(next, pos, children[u])
  BY <1>2, ChildLists, NextOnComesToAll
<1>4. next \in Tasks /\ parent[next] = u /\ u # None
  BY <1>2, <1>3, ChildLists, TreeAssumption
<1>5. ~ReachedFrom(u, next, s)
  BY <1>1, <1>3 DEF ReachedFrom
<1> HIDE DEF n, u, pos
<1> QED BY <1>4, <1>5 DEF Walked, VisitedOK, Live

\* A step of the walk.
LEMMA WalkMoves ==
  ASSUME TreeInv, DepthInv, CallInv, NEW c \in Callers,
         Walked(stack[c], ker_buf[c]), dfs_ptree(c)
  PROVE  \/ Walked(stack'[c], ker_buf'[c])
         \/ overrun' /\ stack'[c] # << >>
<1> DEFINE s == stack[c]
           b == ker_buf[c]
           n == Len(s)
           top == s[n]
           next == NextOn(children[top.task], top.pos)
<1>1. s \in Seq(FrameType) /\ b \in Seq(Record) /\ s # << >>
  BY DEF CallInv, dfs_ptree
<1>2. n \in 1 .. n /\ top \in FrameType /\ n \in Nat \ {0}
  BY <1>1, SeqLast, EmptySeq
<1>3. top.task \in Tasks /\ top.depth \in Nat /\ (top.pos = None \/ top.pos \in Range(children[top.task]))
  BY <1>2 DEF FrameType, Walked, FramesOK
<1>4. CASE next # None
  <2> DEFINE f == Frame(next, top.depth + 1)
             r == get_prinfo(next, top.depth + 1)
             s2 == Append([s EXCEPT ![n].pos = next], f)
             b2 == Append(b, r)
  <2>1. /\ stack'[c] = s2
        /\ IF Len(b) < BufRecords THEN ker_buf'[c] = b2 ELSE overrun'
    BY <1>4 DEF dfs_ptree, CallInv, Write
  <2>2. next \in Tasks
    BY <1>3, <1>4, ChildLists, NextOnComesToAll
  <2>3. /\ f \in FrameType /\ r \in Record
        /\ f.task = next /\ f.depth = top.depth + 1 /\ f.pos = None
        /\ r.pid = next /\ r.parent_pid = parent[next] /\ r.depth = top.depth + 1
    <3>1. f \in FrameType /\ r \in Record
      BY <1>3, <2>2, RecordType
    <3> QED BY <3>1 DEF Frame, get_prinfo
  <2>4. next \in PidOrNone
    BY <2>2 DEF PidOrNone
  <2> HIDE DEF f, r, next
  <2>5. /\ s2 \in Seq(FrameType) /\ Len(s2) = n + 1 /\ s2[n + 1] = f
        /\ \A m \in 1 .. n : m # n => s2[m] = s[m]
        /\ s2[n].task = s[n].task /\ s2[n].depth = s[n].depth /\ s2[n].pos = next
    <3> HIDE DEF s
    <3> QED BY <1>1, <2>3, <2>4, FrameAt
  <2>6. /\ b2 \in Seq(Record) /\ Len(b2) = Len(b) + 1 /\ b2[Len(b) + 1] = r
        /\ \A i \in 1 .. Len(b) : b2[i] = b[i]
    BY <1>1, <2>3
  <2>7. next = NextOn(children[s[Len(s)].task], s[Len(s)].pos)
    BY DEF next
  <2> HIDE DEF s2, b2, s, b
  <2>8. Walked(s2, b2)
    <3>1. Walked(s, b)
      BY DEF s, b
    <3> QED BY <1>1, <1>4, <2>3, <2>5, <2>6, <2>7, <3>1, WalkDown
  <2>9. s2 # << >>
    BY <1>2, <2>5
  <2> QED BY <2>1, <2>8, <2>9
<1>5. CASE next = None
  <2> DEFINE s2 == SubSeq(s, 1, n - 1)
  <2>1. stack'[c] = s2 /\ ker_buf'[c] = b
    BY <1>5 DEF dfs_ptree, CallInv
  <2>2. s2 \in Seq(FrameType) /\ Len(s2) = n - 1 /\ \A m \in 1 .. n - 1 : s2[m] = s[m]
    BY <1>1, <1>2
  <2> HIDE DEF s2
  <2>3. Walked(s2, b)
    BY <1>1, <1>5, <2>2, WalkBack
  <2> QED BY <2>1, <2>3
<1> QED BY <1>4, <1>5

\* Nobody forks or exits while a call walks, and its walk is its own.
LEMMA WalkStep ==
  ASSUME TreeInv, DepthInv, CallInv, Walking, Next
  PROVE  WalkInv'
<1> SUFFICES ASSUME NEW d \in Callers, pc'[d] = "walk"
             PROVE  \/ Walked(stack[d], ker_buf[d])'
                    \/ overrun' /\ stack'[d] # << >>
  BY DEF WalkInv
<1> DEFINE Stays == /\ UNCHANGED treeVars
                    /\ \/ Walked(stack'[d], ker_buf'[d])
                       \/ overrun' /\ stack'[d] # << >>
<1>1. SUFFICES Stays
  BY WalkedSame
<1>2. ASSUME UNCHANGED << pc, stack, ker_buf >>, UNCHANGED treeVars PROVE Stays
  BY <1>2 DEF Walking
<1>3. ASSUME NEW p \in Tasks, NEW t \in Tasks, Fork(p, t) \/ Exit(t) PROVE FALSE
  <2>1. Readers = {} /\ pc' = pc
    BY <1>3 DEF Fork, Exit, callVars
  <2> QED BY <2>1 DEF Readers
<1>4. ASSUME NEW m \in Mods, addsyscall_init(m) \/ addsyscall_exit(m) PROVE Stays
  BY <1>2, <1>4 DEF addsyscall_init, addsyscall_exit, callVars
<1>5. ASSUME NEW c \in Callers, c # d,
             pc' = [pc EXCEPT ![c] = pc'[c]], stack' = [stack EXCEPT ![c] = stack'[c]],
             ker_buf' = [ker_buf EXCEPT ![c] = ker_buf'[c]], UNCHANGED treeVars
      PROVE  Stays
  <2>1. pc'[d] = pc[d] /\ stack'[d] = stack[d] /\ ker_buf'[d] = ker_buf[d]
    BY <1>5 DEF CallInv
  <2> QED BY <1>5, <2>1 DEF Walking
<1>6. ASSUME NEW c \in Callers, NEW got \in SUBSET Blocks, ptree(c, got) PROVE Stays
  <2>1. stack' = stack /\ ker_buf' = ker_buf /\ UNCHANGED treeVars
    BY <1>6 DEF ptree
  <2>2. pc[d] = "walk"
    BY <1>6 DEF ptree, CallInv
  <2> QED BY <2>1, <2>2 DEF Walking
<1>7. ASSUME NEW c \in Callers, read_lock(c) PROVE Stays
  <2>1. /\ UNCHANGED treeVars
        /\ pc' = [pc EXCEPT ![c] = "walk"]
        /\ stack' = [stack EXCEPT ![c] = << Frame(InitTask, 0) >>]
        /\ ker_buf' = [ker_buf EXCEPT ![c] = << get_prinfo(InitTask, 0) >>]
    BY <1>7 DEF read_lock
  <2>2. CASE c = d
    BY <2>1, <2>2, WalkBegins DEF CallInv
  <2>3. CASE c # d
    BY <1>5, <2>1, <2>3 DEF CallInv
  <2> QED BY <2>2, <2>3
<1>8. ASSUME NEW c \in Callers, dfs_ptree(c) PROVE Stays
  <2>1. UNCHANGED treeVars /\ pc' = pc /\ pc[c] = "walk"
    BY <1>8 DEF dfs_ptree
  <2>2. CASE c = d
    BY <1>8, <2>1, <2>2, WalkMoves DEF Walking
  <2>3. CASE c # d
    <3>1. stack'[d] = stack[d] /\ ker_buf'[d] = ker_buf[d]
      BY <1>8, <2>3 DEF dfs_ptree, CallInv, Write
    <3> QED BY <2>1, <3>1 DEF Walking
  <2> QED BY <2>2, <2>3
<1>9. ASSUME NEW c \in Callers,
             read_unlock(c) \/ copy_buf(c) \/ copy_nr(c) \/ copy_fails(c)
      PROVE  Stays
  <2>1. /\ UNCHANGED treeVars /\ stack' = stack
        /\ pc[c] \in {"walk", "copy", "copy_nr"}
        /\ \E q \in {"user", "copy", "copy_nr"} : pc' = [pc EXCEPT ![c] = q]
        /\ ker_buf' = ker_buf \/ ker_buf' = [ker_buf EXCEPT ![c] = << >>]
    BY <1>9 DEF read_unlock, copy_buf, copy_nr, copy_fails, Return
  <2>2. c # d /\ pc[d] = "walk" /\ ker_buf'[d] = ker_buf[d]
    BY <2>1 DEF CallInv
  <2> QED BY <2>1, <2>2 DEF Walking
<1> HIDE DEF Stays
<1> QED BY <1>3, <1>4, <1>6, <1>7, <1>8, <1>9 DEF Next

\* A way down that is over has come to all.
LEMMA AllSeen ==
  ASSUME TreeInv, DepthInv, NEW b, VisitedOK(<< >>, b), Seen(InitTask, b),
         NEW t \in Tasks, Live(t)
  PROVE  Seen(t, b)
<1>1. PICK f \in [Tasks -> Nat] : Depths(f)
  BY DEF DepthInv, HasDepths
<1> DEFINE Left == {u \in Tasks : Live(u) /\ ~Seen(u, b)}
           B == {f[u] : u \in Left}
<1>2. SUFFICES ASSUME t \in Left PROVE FALSE
  OBVIOUS
<1>3. B \in SUBSET Nat /\ B # {}
  BY <1>2
<1>4. PICK i \in B : \A j \in B : i <= j
  BY <1>3, LeastElement
<1>5. PICK u \in Left : f[u] = i
  BY <1>4
<1>6. u \in Tasks /\ u # InitTask /\ parent[u] # None /\ Live(parent[u])
  BY <1>5 DEF Live, DepthInv, HangsTogether
<1>7. parent[u] \in Tasks
  BY <1>6 DEF TreeInv, PidOrNone
<1>8. ~Seen(parent[u], b)
  <2>1. ReachedFrom(parent[u], u, << >>)
    BY DEF ReachedFrom
  <2> QED BY <1>5, <1>6, <2>1 DEF VisitedOK
<1>9. f[parent[u]] \in B
  BY <1>6, <1>7, <1>8
<1>10. f[u] = f[parent[u]] + 1
  BY <1>1, <1>6 DEF Depths
<1>11. f[u] \in Nat /\ f[parent[u]] \in Nat
  BY <1>6, <1>7
<1> HIDE DEF B
<1>12. f[u] <= f[parent[u]]
  BY <1>4, <1>5, <1>9
<1> QED BY <1>10, <1>11, <1>12

-----------------------------------------------------------------------------
(* The steps of a call.                                                    *)

\* A step of c that sets what is its own.
Moves(c, p, f, b, a, u) ==
  /\ pc' = [pc EXCEPT ![c] = p] /\ stack' = [stack EXCEPT ![c] = f]
  /\ ker_buf' = [ker_buf EXCEPT ![c] = b] /\ allocated' = [allocated EXCEPT ![c] = a]
  /\ user' = [user EXCEPT ![c] = u]

\* If it sets it to what is in order there, all is.
LEMMA OneCall ==
  ASSUME CallInv, NEW c \in Callers,
         NEW p \in {"user", "lock", "walk", "copy", "copy_nr"}, NEW f \in Seq(FrameType),
         NEW b \in Seq(Record), NEW a \in SUBSET Blocks, NEW u \in UserType,
         Moves(c, p, f, b, a, u),
         a = IF p = "user" THEN {} ELSE Blocks,
         u.nr <= u.recs,
         p # "user" => u.nr = 0,
         p = "copy_nr" => u.recs = Len(b),
         lost' \in Nat, halfFailed' \in Nat, lost' = halfFailed'
  PROVE  CallInv'
<1>1. /\ pc' \in [Callers -> {"user", "lock", "walk", "copy", "copy_nr"}]
      /\ stack' \in [Callers -> Seq(FrameType)]
      /\ ker_buf' \in [Callers -> Seq(Record)]
      /\ allocated' \in [Callers -> SUBSET Blocks]
      /\ user' \in [Callers -> UserType]
  BY DEF CallInv, Moves
<1>2. ASSUME NEW d \in Callers
      PROVE  CallOK(d)'
  <2>1. CASE d = c
    <3>1. pc'[c] = p /\ ker_buf'[c] = b /\ allocated'[c] = a /\ user'[c] = u
      BY DEF CallInv, Moves
    <3> QED BY <2>1, <3>1 DEF CallOK
  <2>2. CASE d # c
    <3>1. /\ pc'[d] = pc[d] /\ ker_buf'[d] = ker_buf[d]
          /\ allocated'[d] = allocated[d] /\ user'[d] = user[d]
      BY <2>2 DEF CallInv, Moves
    <3>2. CallOK(d)
      BY DEF CallInv
    <3> QED BY <3>1, <3>2 DEF CallOK
  <2> QED BY <2>1, <2>2
<1> QED BY <1>1, <1>2 DEF CallInv

\* What is in order of a call, by its fields.
LEMMA CallFields ==
  ASSUME CallInv, NEW c \in Callers
  PROVE  /\ pc[c] \in {"user", "lock", "walk", "copy", "copy_nr"}
         /\ stack[c] \in Seq(FrameType) /\ ker_buf[c] \in Seq(Record)
         /\ allocated[c] \in SUBSET Blocks /\ user[c] \in UserType
         /\ pc = [pc EXCEPT ![c] = pc[c]] /\ stack = [stack EXCEPT ![c] = stack[c]]
         /\ ker_buf = [ker_buf EXCEPT ![c] = ker_buf[c]]
         /\ allocated = [allocated EXCEPT ![c] = allocated[c]]
         /\ user = [user EXCEPT ![c] = user[c]]
         /\ lost \in Nat /\ halfFailed \in Nat /\ lost = halfFailed
         /\ CallOK(c)
BY DEF CallInv

\* The allocations.  One that succeeds alone is one block lost.
LEMMA CallPtree ==
  ASSUME CallInv, NEW c \in Callers, NEW got \in SUBSET Blocks, ptree(c, got)
  PROVE  CallInv'
<1> DEFINE u == [recs |-> 0, nr |-> 0, ret |-> 1]
<1>1. u \in UserType
  BY DEF UserType
<1>2. CASE got = Blocks
  <2>1. /\ pc' = [pc EXCEPT ![c] = "lock"] /\ allocated' = [allocated EXCEPT ![c] = Blocks]
        /\ user' = [user EXCEPT ![c] = u]
        /\ lost' = lost /\ halfFailed' = halfFailed /\ stack' = stack /\ ker_buf' = ker_buf
    BY <1>2 DEF ptree
  <2>2. Moves(c, "lock", stack[c], ker_buf[c], Blocks, u)
    BY <2>1, CallFields DEF Moves
  <2>3. u.nr = 0 /\ u.nr <= u.recs
    OBVIOUS
  <2> HIDE DEF u
  <2> QED BY <1>1, <2>1, <2>2, <2>3, CallFields, OneCall
<1>3. CASE got # Blocks
  <2>1. /\ lost' = lost + Cardinality(got)
        /\ halfFailed' = IF got = {} THEN halfFailed ELSE halfFailed + 1
        /\ user' = [user EXCEPT ![c] = u]
        /\ pc' = pc /\ allocated' = allocated /\ stack' = stack /\ ker_buf' = ker_buf
        /\ pc[c] = "user"
    BY <1>3 DEF ptree
  <2>2. got = {} \/ got = {"buf"} \/ got = {"nr"}
    BY <1>3 DEF Blocks
  <2>3. Cardinality(got) = IF got = {} THEN 0 ELSE 1
    <3>1. Cardinality({}) = 0 /\ Cardinality({"buf"}) = 1 /\ Cardinality({"nr"}) = 1
      BY FS_EmptySet, FS_Singleton
    <3> QED BY <2>2, <3>1
  <2>4. lost' \in Nat /\ halfFailed' \in Nat /\ lost' = halfFailed'
    BY <2>1, <2>3, CallFields
  <2>5. allocated[c] = {}
    BY <2>1, CallFields DEF CallOK
  <2>6. Moves(c, "user", stack[c], ker_buf[c], {}, u)
    BY <2>1, <2>5, CallFields DEF Moves
  <2> QED BY <1>1, <2>4, <2>6, CallFields, OneCall
<1> QED BY <1>2, <1>3

\* The walk.
LEMMA CallWalk ==
  ASSUME TreeInv, CallInv, Walking, NEW c \in Callers, read_lock(c) \/ dfs_ptree(c) \/ read_unlock(c)
  PROVE  CallInv'
<1>1. /\ allocated' = allocated /\ lost' = lost /\ halfFailed' = halfFailed /\ user' = user
      /\ pc[c] \in {"lock", "walk"}
  BY DEF read_lock, dfs_ptree, read_unlock
<1>2. allocated[c] = Blocks /\ user[c].nr = 0 /\ user[c].nr <= user[c].recs
  BY <1>1, CallFields DEF CallOK
<1>3. CASE read_lock(c)
  <2> DEFINE f == << Frame(InitTask, 0) >>
             b == << get_prinfo(InitTask, 0) >>
  <2>1. /\ pc' = [pc EXCEPT ![c] = "walk"]
        /\ stack' = [stack EXCEPT ![c] = f] /\ ker_buf' = [ker_buf EXCEPT ![c] = b]
    BY <1>3 DEF read_lock
  <2>2. Frame(InitTask, 0) \in FrameType /\ get_prinfo(InitTask, 0) \in Record
    BY RecordType, TreeAssumption
  <2>3. f \in Seq(FrameType) /\ b \in Seq(Record)
    BY <2>2
  <2> HIDE DEF f, b
  <2>4. Moves(c, "walk", f, b, Blocks, user[c])
    BY <1>1, <1>2, <2>1, CallFields DEF Moves
  <2> QED BY <1>1, <1>2, <2>3, <2>4, CallFields, OneCall
<1>4. CASE dfs_ptree(c)
  <2> DEFINE s == stack[c]
             top == s[Len(s)]
             next == NextOn(children[top.task], top.pos)
  <2>1. /\ s # << >> /\ s \in Seq(FrameType) /\ ker_buf[c] \in Seq(Record)
        /\ pc' = pc /\ pc[c] = "walk"
    BY <1>4, CallFields DEF dfs_ptree
  <2>2. Len(s) \in 1 .. Len(s) /\ top \in FrameType
    BY <2>1, SeqLast
  <2>3. /\ top.task \in Tasks /\ top.depth + 1 \in Nat
        /\ children[top.task] \in Seq(Tasks)
    BY <2>2 DEF FrameType, TreeInv
  <2>4. next = None \/ next \in Tasks
    <3>1. top.pos = None \/ top.pos \in Range(children[top.task])
      BY <2>1, <2>2 DEF Walking, Walked, FramesOK
    <3> QED BY <2>3, <3>1, ChildLists, NextOnComesToAll
  <2>5. CASE next # None
    <3> DEFINE moved == [top EXCEPT !.pos = next]
               f == Append([s EXCEPT ![Len(s)] = moved], Frame(next, top.depth + 1))
               b == Append(ker_buf[c], get_prinfo(next, top.depth + 1))
    <3>1. /\ stack' = [stack EXCEPT ![c] = f]
          /\ ker_buf' = [ker_buf EXCEPT ![c] = b] \/ ker_buf' = ker_buf
      BY <1>4, <2>5 DEF dfs_ptree, Write
    <3>2. next \in Tasks /\ moved \in FrameType
      BY <2>2, <2>4, <2>5 DEF FrameType, PidOrNone
    <3> HIDE DEF next, top, moved
    <3>3. /\ [s EXCEPT ![Len(s)] = moved] \in Seq(FrameType)
          /\ Frame(next, top.depth + 1) \in FrameType
          /\ get_prinfo(next, top.depth + 1) \in Record
      BY <2>1, <2>3, <3>2, SeqLast, RecordType
    <3>4. f \in Seq(FrameType) /\ b \in Seq(Record)
      BY <2>1, <3>3
    <3> HIDE DEF f, b, s
    <3>5. \/ Moves(c, "walk", f, b, Blocks, user[c])
          \/ Moves(c, "walk", f, ker_buf[c], Blocks, user[c])
      BY <1>1, <1>2, <2>1, <3>1, CallFields DEF Moves
    <3> QED BY <1>1, <1>2, <2>1, <3>4, <3>5, CallFields, OneCall
  <2>6. CASE next = None
    <3> DEFINE f == SubSeq(s, 1, Len(s) - 1)
    <3>1. stack' = [stack EXCEPT ![c] = f] /\ ker_buf' = ker_buf
      BY <1>4, <2>6 DEF dfs_ptree
    <3>2. f \in Seq(FrameType)
      BY <2>1, <2>2, SeqLast
    <3> HIDE DEF f
    <3>3. Moves(c, "walk", f, ker_buf[c], Blocks, user[c])
      BY <1>1, <1>2, <2>1, <3>1, CallFields DEF Moves
    <3> QED BY <1>1, <1>2, <3>2, <3>3, CallFields, OneCall
  <2> QED BY <2>5, <2>6
<1>5. CASE read_unlock(c)
  <2>1. pc' = [pc EXCEPT ![c] = "copy"] /\ stack' = stack /\ ker_buf' = ker_buf
    BY <1>5 DEF read_unlock
  <2>2. Moves(c, "copy", stack[c], ker_buf[c], Blocks, user[c])
    BY <1>1, <1>2, <2>1, CallFields DEF Moves
  <2> QED BY <1>1, <1>2, <2>2, CallFields, OneCall
<1> QED BY <1>3, <1>4, <1>5

\* The copies, and the return with both blocks freed.
LEMMA CallCopy ==
  ASSUME CallInv, NEW c \in Callers, copy_buf(c) \/ copy_nr(c) \/ copy_fails(c)
  PROVE  CallInv'
<1> DEFINE u == user[c]
           n == Len(ker_buf[c])
<1>1. /\ pc[c] \in {"copy", "copy_nr"} /\ stack' = stack /\ halfFailed' = halfFailed
  BY DEF copy_buf, copy_nr, copy_fails, Return
<1>2. allocated[c] = Blocks /\ u.nr = 0 /\ u.nr <= u.recs /\ n \in Nat /\ u \in UserType
  BY <1>1, CallFields DEF CallOK
<1>3. CASE copy_buf(c)
  <2> DEFINE v == [u EXCEPT !.recs = n]
  <2>1. /\ user' = [user EXCEPT ![c] = v] /\ pc' = [pc EXCEPT ![c] = "copy_nr"]
        /\ ker_buf' = ker_buf /\ allocated' = allocated /\ lost' = lost
    BY <1>3 DEF copy_buf
  <2>2. v \in UserType /\ v.nr = 0 /\ v.recs = n /\ v.nr <= v.recs
    BY <1>2 DEF UserType
  <2> HIDE DEF v
  <2>3. Moves(c, "copy_nr", stack[c], ker_buf[c], Blocks, v)
    BY <1>1, <1>2, <2>1, CallFields DEF Moves
  <2> QED BY <1>1, <1>2, <2>1, <2>2, <2>3, CallFields, OneCall
<1>4. ASSUME NEW v \in UserType, v.nr <= v.recs, user' = [user EXCEPT ![c] = v], Return(c, Blocks)
      PROVE  CallInv'
  <2>1. /\ pc' = [pc EXCEPT ![c] = "user"] /\ allocated' = [allocated EXCEPT ![c] = {}]
        /\ ker_buf' = [ker_buf EXCEPT ![c] = << >>]
        /\ lost' = lost + Cardinality(allocated[c] \ Blocks)
    BY <1>4 DEF Return
  <2>2. allocated[c] \ Blocks = {}
    BY <1>2
  <2>3. lost' = lost
    <3>1. Cardinality(allocated[c] \ Blocks) = 0
      BY <2>2, FS_EmptySet
    <3>2. lost \in Nat
      BY CallFields
    <3> QED BY <2>1, <3>1, <3>2
  <2>4. << >> \in Seq(Record)
    BY ListEmpty
  <2>5. Moves(c, "user", stack[c], << >>, {}, v)
    BY <1>1, <1>4, <2>1, CallFields DEF Moves
  <2> QED BY <1>1, <1>4, <2>3, <2>4, <2>5, CallFields, OneCall
<1>5. CASE copy_nr(c)
  <2> DEFINE v == [u EXCEPT !.nr = n, !.ret = 0]
  <2>1. user' = [user EXCEPT ![c] = v] /\ Return(c, Blocks) /\ pc[c] = "copy_nr"
    BY <1>5 DEF copy_nr
  <2>2. u.recs = n
    BY <2>1, CallFields DEF CallOK
  <2>3. v \in UserType /\ v.nr <= v.recs
    <3>1. v = [recs |-> u.recs, nr |-> n, ret |-> 0]
      <4>1. u = [recs |-> u.recs, nr |-> u.nr, ret |-> u.ret]
        BY <1>2 DEF UserType
      <4> DEFINE w == [u EXCEPT !.nr = n]
      <4> HIDE DEF n, u
      <4>2. w = [recs |-> u.recs, nr |-> n, ret |-> u.ret]
        BY <4>1
      <4>3. v = [w EXCEPT !.ret = 0]
        BY Zenon
      <4> HIDE DEF w, v
      <4> QED BY <4>2, <4>3
    <3>2. n <= n /\ u.recs \in Nat
      BY <1>2 DEF UserType
    <3> HIDE DEF n, u
    <3> QED BY <1>2, <2>2, <3>1, <3>2 DEF UserType
  <2> HIDE DEF v
  <2> QED BY <1>2, <1>4, <2>1, <2>3
<1>6. CASE copy_fails(c)
  <2>1. Return(c, Blocks)
    BY <1>6 DEF copy_fails
  <2>2. CASE user' = user
    BY <1>2, <1>4, <2>1, <2>2, CallFields
  <2>3. CASE \E k \in 0 .. n - 1 : user' = [user EXCEPT ![c].recs = k]
    <3>1. PICK k \in 0 .. n - 1 : user' = [user EXCEPT ![c].recs = k]
      BY <2>3
    <3> DEFINE v == [u EXCEPT !.recs = k]
    <3>2. user' = [user EXCEPT ![c] = v]
      BY <3>1
    <3>3. k \in Nat
      BY <1>2
    <3>4. v \in UserType /\ v.nr <= v.recs
      BY <1>2, <3>3 DEF UserType
    <3> HIDE DEF v
    <3> QED BY <1>4, <2>1, <3>2, <3>4
  <2> QED BY <1>6, <2>2, <2>3 DEF copy_fails
<1> QED BY <1>3, <1>5, <1>6

\* Only its own steps change a call.
LEMMA CallStep == ASSUME TreeInv, CallInv, Walking, Next PROVE CallInv'
<1>1. ASSUME NEW c \in Callers, NEW got \in SUBSET Blocks, ptree(c, got)
      PROVE  CallInv'
  BY <1>1, CallPtree
<1>2. ASSUME NEW c \in Callers, read_lock(c) \/ dfs_ptree(c) \/ read_unlock(c)
      PROVE  CallInv'
  BY <1>2, CallWalk
<1>3. ASSUME NEW c \in Callers, copy_buf(c) \/ copy_nr(c) \/ copy_fails(c)
      PROVE  CallInv'
  BY <1>3, CallCopy
<1>4. ASSUME UNCHANGED callVars
      PROVE  CallInv'
  BY <1>4 DEF CallInv, CallOK, callVars
<1>5. ASSUME NEW p \in Tasks, NEW t \in Tasks, Fork(p, t) \/ Exit(t)
      PROVE  UNCHANGED callVars
  BY <1>5 DEF Fork, Exit
<1>6. ASSUME NEW m \in Mods, addsyscall_init(m) \/ addsyscall_exit(m)
      PROVE  UNCHANGED callVars
  BY <1>6 DEF addsyscall_init, addsyscall_exit
<1> QED BY <1>1, <1>2, <1>3, <1>4, <1>5, <1>6 DEF Next

-----------------------------------------------------------------------------
(* The room for the records.                                               *)

LiveTasks == {t \in Tasks : Live(t)}
Pids(b) == {b[i].pid : i \in 1 .. Len(b)}

\* No record is beyond the last, and the one that would have been is of a task
\* none of the others is of.
RoomInv ==
  /\ overrun \in BOOLEAN
  /\ \A c \in Callers : Len(ker_buf[c]) <= BufRecords
  /\ overrun => Cardinality(LiveTasks) > BufRecords

\* As many tasks as records, all of them live.
LEMMA RecordsCount ==
  ASSUME NEW b \in Seq(Record), RecordsOK(b)
  PROVE  /\ IsFiniteSet(Pids(b)) /\ Cardinality(Pids(b)) = Len(b)
         /\ Pids(b) \subseteq LiveTasks
<1> DEFINE n == Len(b)
           f == [i \in 1 .. n |-> b[i].pid]
<1>1. n \in Nat /\ \A i \in 1 .. n : b[i] \in Record
  OBVIOUS
<1>2. \A i, j \in 1 .. n : b[i].pid = b[j].pid => i = j
  BY DEF RecordsOK
<1>3. \A i \in 1 .. n : b[i].pid \in LiveTasks
  BY <1>1 DEF RecordsOK, LiveTasks, Record
<1>4. f \in Bijection(1 .. n, Pids(b))
  <2>1. f \in [1 .. n -> Pids(b)]
    BY DEF Pids
  <2>2. \A i, j \in 1 .. n : f[i] = f[j] => i = j
    BY <1>2
  <2>3. \A p \in Pids(b) : \E i \in 1 .. n : f[i] = p
    BY DEF Pids
  <2>4. DOMAIN f = 1 .. n
    OBVIOUS
  <2> HIDE DEF f, n
  <2>5. f \in Injection(1 .. n, Pids(b))
    BY <2>1, <2>2, <2>4 DEF Injection, IsInjective
  <2>6. f \in Surjection(1 .. n, Pids(b))
    BY <2>1, <2>3, <2>4 DEF Surjection
  <2> QED BY <2>5, <2>6 DEF Bijection
<1>5. IsFiniteSet(1 .. n) /\ Cardinality(1 .. n) = n
  <2>1. n \in Nat /\ n \in Int /\ 1 \in Int
    BY <1>1
  <2> HIDE DEF n
  <2>2. IsFiniteSet(1 .. n) /\ Cardinality(1 .. n) = IF 1 > n THEN 0 ELSE n - 1 + 1
    BY <2>1, FS_Interval, Zenon
  <2> QED BY <2>1, <2>2
<1>6. ExistsBijection(1 .. n, Pids(b))
  <2> HIDE DEF f
  <2> QED BY <1>4, Zenon DEF ExistsBijection
<1>7. IsFiniteSet(Pids(b)) /\ Cardinality(Pids(b)) = Cardinality(1 .. n)
  BY <1>5, <1>6, FS_Bijection
<1>8. Pids(b) \subseteq LiveTasks
  BY <1>3 DEF Pids
<1> QED BY <1>5, <1>7, <1>8

LEMMA LiveFinite == IsFiniteSet(LiveTasks) /\ Cardinality(LiveTasks) \in Nat
<1>1. IsFiniteSet(LiveTasks)
  BY TreeAssumption, FS_Subset DEF LiveTasks
<1> QED BY <1>1, FS_CardinalityType

\* The record for which there is no room is of a task that has none yet.
LEMMA RoomWalk ==
  ASSUME TreeInv, DepthInv, CallInv, Walking, RoomInv, ~overrun, NEW c \in Callers, dfs_ptree(c)
  PROVE  RoomInv'
<1> DEFINE s == stack[c]
           b == ker_buf[c]
           top == s[Len(s)]
           next == NextOn(children[top.task], top.pos)
<1>1. /\ s \in Seq(FrameType) /\ b \in Seq(Record) /\ s # << >> /\ Walked(s, b)
      /\ UNCHANGED treeVars
  BY CallFields DEF Walking, dfs_ptree
<1>2. top \in FrameType
  BY <1>1, SeqLast
<1>3. LiveTasks' = LiveTasks
  BY <1>1 DEF LiveTasks, Live, treeVars
<1>4. ASSUME UNCHANGED << ker_buf, overrun >>
      PROVE  RoomInv'
  BY <1>3, <1>4 DEF RoomInv
<1>5. CASE next # None
  <2> DEFINE r == get_prinfo(next, top.depth + 1)
  <2>1. Write(c, r)
    BY <1>5 DEF dfs_ptree
  <2> HIDE DEF r
  <2>2. CASE Len(b) < BufRecords
    <3>1. ker_buf' = [ker_buf EXCEPT ![c] = Append(b, r)] /\ overrun' = overrun
      BY <2>1, <2>2 DEF Write
    <3>2. Len(Append(b, r)) <= BufRecords
      <4>1. Len(Append(b, r)) = Len(b) + 1 /\ Len(b) \in Nat
        BY <1>1
      <4> HIDE DEF b
      <4> QED BY <2>2, <4>1, TreeAssumption
    <3>3. \A d \in Callers : Len(ker_buf'[d]) <= BufRecords
      BY <3>1, <3>2 DEF CallInv, RoomInv
    <3> QED BY <1>3, <3>1, <3>3 DEF RoomInv
  <2>3. CASE ~(Len(b) < BufRecords)
    <3>1. ker_buf' = ker_buf /\ overrun'
      BY <2>1, <2>3 DEF Write
    <3>2. Len(b) = BufRecords
      <4>1. Len(b) <= BufRecords /\ Len(b) \in Nat
        BY <1>1 DEF RoomInv
      <4> HIDE DEF b
      <4> QED BY <2>3, <4>1, TreeAssumption
    <3>3. next \in LiveTasks /\ next \notin Pids(b)
      BY <1>1, <1>2, <1>5, NextUnseen DEF LiveTasks, Pids, Seen
    <3>4. /\ IsFiniteSet(Pids(b)) /\ Cardinality(Pids(b)) = BufRecords
          /\ Pids(b) \cup {next} \subseteq LiveTasks
      BY <1>1, <3>2, <3>3, RecordsCount DEF Walked
    <3>5. Cardinality(Pids(b) \cup {next}) = BufRecords + 1
      BY <3>3, <3>4, FS_AddElement
    <3>6. Cardinality(Pids(b) \cup {next}) <= Cardinality(LiveTasks)
      BY <3>4, LiveFinite, FS_Subset
    <3> HIDE DEF b, next
    <3>7. Cardinality(LiveTasks) > BufRecords
      BY <3>5, <3>6, LiveFinite, TreeAssumption
    <3>8. overrun' \in BOOLEAN
      BY <2>1, <2>3 DEF Write, b
    <3> QED BY <1>3, <3>1, <3>7, <3>8 DEF RoomInv
  <2> QED BY <2>2, <2>3
<1>6. CASE next = None
  BY <1>4, <1>6 DEF dfs_ptree
<1> QED BY <1>5, <1>6

\* Only a walk adds records.
LEMMA RoomStep == ASSUME TreeInv, DepthInv, CallInv, Walking, RoomInv, Next PROVE RoomInv'
<1>1. ~overrun
  BY DEF Next
<1>2. ASSUME NEW c \in Callers, dfs_ptree(c)
      PROVE  RoomInv'
  BY <1>1, <1>2, RoomWalk
<1>3. ASSUME overrun' = overrun, \A c \in Callers : Len(ker_buf'[c]) <= BufRecords
      PROVE  RoomInv'
  BY <1>1, <1>3 DEF RoomInv
<1>4. ASSUME UNCHANGED << ker_buf, overrun >>
      PROVE  RoomInv'
  BY <1>3, <1>4 DEF RoomInv
<1>5. ASSUME NEW p \in Tasks, NEW t \in Tasks, Fork(p, t) \/ Exit(t)
      PROVE  RoomInv'
  BY <1>4, <1>5 DEF Fork, Exit, callVars
<1>6. ASSUME NEW m \in Mods, addsyscall_init(m) \/ addsyscall_exit(m)
      PROVE  RoomInv'
  BY <1>4, <1>6 DEF addsyscall_init, addsyscall_exit, callVars
<1>7. ASSUME NEW c \in Callers, NEW got \in SUBSET Blocks, ptree(c, got)
      PROVE  RoomInv'
  BY <1>4, <1>7 DEF ptree
<1>8. ASSUME NEW c \in Callers, NEW b, Len(b) <= 1,
             ker_buf' = [ker_buf EXCEPT ![c] = b], overrun' = overrun
      PROVE  RoomInv'
  <2>1. Len(b) <= BufRecords
    BY <1>8, TreeAssumption
  <2>2. \A d \in Callers : Len(ker_buf'[d]) <= BufRecords
    BY <1>8, <2>1 DEF CallInv, RoomInv
  <2> QED BY <1>3, <1>8, <2>2
<1>9. ASSUME NEW c \in Callers,
             \/ read_lock(c) \/ read_unlock(c)
             \/ copy_buf(c) \/ copy_nr(c) \/ copy_fails(c)
      PROVE  RoomInv'
  <2>1. CASE read_lock(c)
    <3> DEFINE b == << get_prinfo(InitTask, 0) >>
    <3>1. ker_buf' = [ker_buf EXCEPT ![c] = b] /\ overrun' = overrun
      BY <2>1 DEF read_lock
    <3>2. Len(b) <= 1
      OBVIOUS
    <3> HIDE DEF b
    <3> QED BY <1>8, <3>1, <3>2
  <2>2. CASE read_unlock(c) \/ copy_buf(c)
    BY <1>4, <2>2 DEF read_unlock, copy_buf
  <2>3. CASE copy_nr(c) \/ copy_fails(c)
    <3> DEFINE b == << >>
    <3>1. ker_buf' = [ker_buf EXCEPT ![c] = b] /\ overrun' = overrun
      BY <2>3 DEF copy_nr, copy_fails, Return
    <3>2. Len(b) <= 1
      OBVIOUS
    <3> HIDE DEF b
    <3> QED BY <1>8, <3>1, <3>2
  <2> QED BY <1>9, <2>1, <2>2, <2>3
<1> QED BY <1>2, <1>5, <1>6, <1>7, <1>9 DEF Next

-----------------------------------------------------------------------------
(* The theorems.                                                           *)

\* The invariants, from boot on.
IInv == TreeInv /\ DepthInv /\ SlotInv /\ CallInv /\ WalkInv /\ RoomInv

\* They are inductive together: each step of the system is a step of one of
\* the parts, and nobody changes the tree under a walk.
THEOREM Inductive == Spec => []IInv
<1>1. Init => IInv
  <2> SUFFICES ASSUME Init PROVE IInv
    OBVIOUS
  <2>1. WalkInv
    BY DEF Init, WalkInv
  <2>2. RoomInv
    <3>1. \A c \in Callers : Len(ker_buf[c]) = 0
      BY DEF Init
    <3>2. ~overrun /\ overrun \in BOOLEAN
      BY DEF Init
    <3> QED BY <3>1, <3>2, TreeAssumption DEF RoomInv
  <2> QED BY <2>1, <2>2, TreeInit, DepthInit, SlotInit, CallInit DEF IInv
<1>2. IInv /\ [Next]_vars => IInv'
  <2> SUFFICES ASSUME IInv, [Next]_vars PROVE IInv'
    OBVIOUS
  <2>1. TreeInv /\ DepthInv /\ SlotInv /\ CallInv /\ WalkInv /\ RoomInv
    BY DEF IInv
  <2>2. TreeInv' /\ DepthInv' /\ SlotInv'
    BY <2>1, TreeStep, DepthStep, SlotStep
  <2>3. CASE Next
    <3>1. Walking
      BY <2>1, <2>3 DEF Next, WalkInv, Walking
    <3> QED BY <2>1, <2>2, <2>3, <3>1, CallStep, WalkStep, RoomStep DEF IInv
  <2>4. CASE UNCHANGED vars
    <3>1. CallInv'
      BY <2>1, <2>4 DEF CallInv, CallOK, vars
    <3>2. RoomInv'
      BY <2>1, <2>4 DEF RoomInv, LiveTasks, Live, vars
    <3>3. WalkInv'
      <4> SUFFICES ASSUME NEW c \in Callers, pc[c] = "walk"
                   PROVE  Walked(stack[c], ker_buf[c])' \/ (overrun /\ stack[c] # << >>)
        BY <2>4 DEF WalkInv, vars
      <4>1. UNCHANGED treeVars /\ stack'[c] = stack[c] /\ ker_buf'[c] = ker_buf[c]
        BY <2>4 DEF vars, treeVars
      <4> QED BY <2>1, <4>1, WalkedSame DEF WalkInv
    <3> QED BY <2>2, <3>1, <3>2, <3>3 DEF IInv
  <2> QED BY <2>3, <2>4
<1> QED BY <1>1, <1>2, PTL DEF Spec

\* The types, and the two directions of the tree, for every set of tasks.
THEOREM TypeCorrect == Spec => []TypeOK
<1>1. IInv => TypeOK
  BY DEF IInv, TreeInv, SlotInv, CallInv, RoomInv, TypeOK, FrameType, UserType
<1> QED BY <1>1, Inductive, PTL

\* What RecordsShowTree and OnlyManyTasksOverrun need of one walk that is over.
LEMMA WalkOver ==
  ASSUME IInv, NEW c \in Callers, pc[c] = "walk", stack[c] = << >>
  PROVE  /\ Walked(<< >>, ker_buf[c]) /\ ker_buf[c] \in Seq(Record)
         /\ Pids(ker_buf[c]) = LiveTasks
<1> DEFINE b == ker_buf[c]
<1>1. Walked(<< >>, b) /\ TreeInv /\ DepthInv /\ CallInv
  BY DEF IInv, WalkInv
<1>2. b \in Seq(Record)
  BY <1>1 DEF CallInv
<1>3. RecordsOK(b) /\ VisitedOK(<< >>, b)
  BY <1>1 DEF Walked
<1> HIDE DEF b
<1>4. ASSUME NEW t \in LiveTasks PROVE t \in Pids(b)
  <2>1. t \in Tasks /\ Live(t)
    BY DEF LiveTasks
  <2>2. Seen(t, b)
    BY <1>1, <1>3, <2>1, AllSeen DEF RecordsOK
  <2> QED BY <2>2 DEF Seen, Pids
<1>5. Pids(b) \subseteq LiveTasks
  BY <1>2, <1>3, RecordsCount
<1>6. Walked(<< >>, b) /\ b \in Seq(Record) /\ Pids(b) = LiveTasks
  BY <1>1, <1>2, <1>4, <1>5
<1> QED BY <1>6 DEF b

\* However many tasks there are, whatever they have forked and whichever have
\* exited before, and whatever other calls do meanwhile: a walk that comes to
\* its end lists each task once, at its depth, below its parent and after its
\* elder siblings.  When one does not come to its end, ManyTasksOverrun says.
THEOREM RecordsAreTheTree == Spec => []RecordsShowTree
<1>1. ASSUME IInv PROVE RecordsShowTree
  <2> SUFFICES ASSUME NEW c \in Callers, pc[c] = "walk", stack[c] = << >>
               PROVE  LET b == ker_buf[c]
                          above(i) == {j \in 1 .. i - 1 : b[j].depth = b[i].depth - 1}
                      IN /\ {b[i].pid : i \in DOMAIN b} = {t \in Tasks : Live(t)}
                         /\ \A i, j \in DOMAIN b : b[i].pid = b[j].pid => i = j
                         /\ \A i \in DOMAIN b : b[i].depth = DepthOf[b[i].pid]
                         /\ \A i \in DOMAIN b : b[i].parent_pid # None =>
                              \E j \in above(i) : /\ b[i].parent_pid = b[j].pid
                                                  /\ \A k \in above(i) : k <= j
                         /\ \A i, j \in DOMAIN b : i < j /\ b[i].parent_pid = b[j].parent_pid =>
                              Ahead(b[i].pid, b[j].pid, children[b[i].parent_pid])
    BY DEF RecordsShowTree
  <2> DEFINE b == ker_buf[c]
  <2>1. /\ RecordsOK(b) /\ ParentsAbove(b) /\ SiblingsOrdered(b)
        /\ b \in Seq(Record) /\ Pids(b) = LiveTasks
    BY <1>1, WalkOver DEF Walked
  <2>2. DOMAIN b = 1 .. Len(b)
    <3> HIDE DEF b
    <3> QED BY <2>1
  <2>3. {b[i].pid : i \in DOMAIN b} = {t \in Tasks : Live(t)}
    BY <2>1, <2>2 DEF Pids, LiveTasks
  <2>4. /\ \A i, j \in DOMAIN b : b[i].pid = b[j].pid => i = j
        /\ \A i \in DOMAIN b : b[i].depth = DepthOf[b[i].pid]
    BY <2>1, <2>2 DEF RecordsOK
  <2>5. \A i \in DOMAIN b : b[i].parent_pid # None =>
          \E j \in Above(b, i) : b[i].parent_pid = b[j].pid /\ \A k \in Above(b, i) : k <= j
    BY <2>1, <2>2 DEF ParentsAbove
  <2>6. \A i, j \in DOMAIN b : i < j /\ b[i].parent_pid = b[j].parent_pid =>
          Ahead(b[i].pid, b[j].pid, children[b[i].parent_pid])
    BY <2>1, <2>2 DEF SiblingsOrdered
  <2> QED BY <2>3, <2>4, <2>5, <2>6 DEF Above
<1> QED BY <1>1, Inductive, PTL

\* For every number of records and of tasks: dfs_ptree, which compares the two
\* with nothing, writes beyond the records only when the tasks are more, and
\* comes to its end only when they are not.
THEOREM ManyTasksOverrun == Spec => []OnlyManyTasksOverrun
<1>1. ASSUME IInv PROVE OnlyManyTasksOverrun
  <2>1. overrun => Cardinality(LiveTasks) > BufRecords
    BY <1>1 DEF IInv, RoomInv
  <2>2. ASSUME NEW c \in Callers, pc[c] = "walk", stack[c] = << >>
        PROVE  Cardinality(LiveTasks) <= BufRecords
    <3>1. Len(ker_buf[c]) <= BufRecords
      BY <1>1 DEF IInv, RoomInv
    <3>2. Cardinality(LiveTasks) = Len(ker_buf[c])
      <4>1. /\ RecordsOK(ker_buf[c]) /\ ker_buf[c] \in Seq(Record)
            /\ Pids(ker_buf[c]) = LiveTasks
        BY <1>1, <2>2, WalkOver DEF Walked
      <4> QED BY <4>1, RecordsCount
    <3> QED BY <3>1, <3>2
  <2> QED BY <2>1, <2>2 DEF OnlyManyTasksOverrun, LiveTasks
<1> QED BY <1>1, Inductive, PTL

\* For any number of tasks, any number of records and any calls, and without
\* the assumption that the records are enough: dfs_ptree either comes to its
\* end, with the tree in the buffer, or writes behind the buffer, and which of
\* the two depends on the number of tasks and of records alone.
THEOREM WalkIsTheTree == Spec => []WalkShowsTree
BY RecordsAreTheTree, ManyTasksOverrun, PTL DEF WalkShowsTree

\* However many modules patch the slot: those that are unloaded in the reverse
\* order leave in it what was there before them.
THEOREM SlotRestored == Spec => []OnlyOutOfOrderUnloadsDangle
<1>1. IInv => OnlyOutOfOrderUnloadsDangle
  BY DEF IInv, SlotInv, Newest, OnlyOutOfOrderUnloadsDangle
<1> QED BY <1>1, Inductive, PTL

\* However many calls fail wherever they can: each way out frees what the call
\* has, but for the one after half an allocation.
THEOREM NothingElseLeaks == Spec => []OnlyHalfFailedCallsLeak
<1>1. IInv => OnlyHalfFailedCallsLeak
  BY DEF IInv, CallInv, CallOK, OnlyHalfFailedCallsLeak
<1> QED BY <1>1, Inductive, PTL

\* The caller's nr counts copied records, on every way out.
THEOREM CountNotAhead == Spec => []NrCountsCopied
<1>1. IInv => NrCountsCopied
  BY DEF IInv, CallInv, CallOK, NrCountsCopied
<1> QED BY <1>1, Inductive, PTL

-----------------------------------------------------------------------------
(* BurgerBuddies.                                                          *)

\* Every semaphore against the threads that have waited for it and not yet
\* posted it, or posted it and not yet waited.
PrintBook ==
  sem["mutex_print"] + Count(Cooks, 4, 4) + Count(Cashiers, 3, 3) + Count(Cashiers, 7, 7)
    + Count(Customers, 3, 3) = 1
RackBook == sem["mutex_rack"] + Count(Cooks, 3, 5) + Count(Cashiers, 6, 10) = 1
EntryBook == sem["mutex_entry"] + Count(Customers, 2, 5) = 1
LeaveBook == sem["mutex_leave"] + Count(Customers, 8, 11) = 1

Books ==
  PrintBook /\ RackBook /\ EntryBook /\ LeaveBook /\ RackConserved /\ OrdersMatched

\* What a customer has loaded under mutex_leave is still left_num.
LoadedOK == \A c \in Customers : ip[c] = 9 => tmp[c] = left_num

BBInv == BBTypeOK /\ Books /\ LoadedOK /\ LeavesCounted

-----------------------------------------------------------------------------
(* Counting threads.                                                       *)

In(x, a, b) == IF x \in a .. b THEN 1 ELSE 0

LEMMA CountType ==
  ASSUME NEW T, IsFiniteSet(T), NEW a \in Nat, NEW b \in Nat
  PROVE  IsFiniteSet(At(T, a, b)) /\ Count(T, a, b) \in Nat
<1>1. At(T, a, b) \in SUBSET T
  BY DEF At
<1> QED BY <1>1, FS_Subset, FS_CardinalityType DEF Count

\* A thread that goes to another step counts there instead.
LEMMA Moved ==
  ASSUME NEW T \in SUBSET Threads, IsFiniteSet(T), NEW a \in Nat, NEW b \in Nat,
         BBTypeOK, NEW t \in T, NEW k \in 0 .. 12, ip' = [ip EXCEPT ![t] = k]
  PROVE  Count(T, a, b)' = Count(T, a, b) - In(ip[t], a, b) + In(k, a, b)
<1>1. IsFiniteSet(At(T, a, b)) /\ Count(T, a, b) \in Nat
  BY CountType
<1> DEFINE Rest == At(T, a, b) \ {t}
<1>2. IsFiniteSet(Rest) /\ Cardinality(Rest) \in Nat
      /\ Cardinality(Rest) = Count(T, a, b) - In(ip[t], a, b)
  <2>1. t \in At(T, a, b) <=> ip[t] \in a .. b
    BY DEF At
  <2> QED BY <1>1, <2>1, FS_RemoveElement, FS_CardinalityType DEF Count, In
<1>3. At(T, a, b)' = IF k \in a .. b THEN Rest \cup {t} ELSE Rest
  BY DEF At, BBTypeOK
<1>4. Cardinality(Rest \cup {t}) = Cardinality(Rest) + 1
  BY <1>2, FS_AddElement
<1> QED BY <1>2, <1>3, <1>4 DEF Count, In

\* One of another kind does not.
LEMMA NotMoved ==
  ASSUME NEW T \in SUBSET Threads, NEW a \in Nat, NEW b \in Nat,
         BBTypeOK, NEW t \in Threads \ T, NEW k, ip' = [ip EXCEPT ![t] = k]
  PROVE  Count(T, a, b)' = Count(T, a, b)
<1>1. At(T, a, b)' = At(T, a, b)
  BY DEF At, BBTypeOK
<1> QED BY <1>1 DEF Count

LEMMA Kinds ==
  /\ IsFiniteSet(Cooks) /\ IsFiniteSet(Cashiers) /\ IsFiniteSet(Customers)
  /\ Cooks \in SUBSET Threads /\ Cashiers \in SUBSET Threads /\ Customers \in SUBSET Threads
  /\ \A t \in Cooks : t \notin Cashiers /\ t \notin Customers
  /\ \A t \in Cashiers : t \notin Cooks /\ t \notin Customers
  /\ \A t \in Customers : t \notin Cooks /\ t \notin Cashiers
BY arg_parser DEF Threads

LEMMA CookMoves ==
  ASSUME NEW a \in Nat, NEW b \in Nat,
         BBTypeOK, NEW t \in Cooks, NEW k \in 0 .. 12, ip' = [ip EXCEPT ![t] = k]
  PROVE  /\ Count(Cooks, a, b)' = Count(Cooks, a, b) - In(ip[t], a, b) + In(k, a, b)
         /\ Count(Cashiers, a, b)' = Count(Cashiers, a, b)
         /\ Count(Customers, a, b)' = Count(Customers, a, b)
<1>1. Count(Cooks, a, b)' = Count(Cooks, a, b) - In(ip[t], a, b) + In(k, a, b)
  <2>1. Cooks \in SUBSET Threads /\ IsFiniteSet(Cooks)
    BY Kinds
  <2> QED BY <2>1, Moved
<1>2. t \in Threads \ Cashiers /\ t \in Threads \ Customers
  BY Kinds
<1>3. Count(Cashiers, a, b)' = Count(Cashiers, a, b)
  BY <1>2, Kinds, NotMoved
<1>4. Count(Customers, a, b)' = Count(Customers, a, b)
  BY <1>2, Kinds, NotMoved
<1> QED BY <1>1, <1>3, <1>4

LEMMA CashierMoves ==
  ASSUME NEW a \in Nat, NEW b \in Nat,
         BBTypeOK, NEW t \in Cashiers, NEW k \in 0 .. 12, ip' = [ip EXCEPT ![t] = k]
  PROVE  /\ Count(Cashiers, a, b)' = Count(Cashiers, a, b) - In(ip[t], a, b) + In(k, a, b)
         /\ Count(Cooks, a, b)' = Count(Cooks, a, b)
         /\ Count(Customers, a, b)' = Count(Customers, a, b)
<1>1. Count(Cashiers, a, b)' = Count(Cashiers, a, b) - In(ip[t], a, b) + In(k, a, b)
  <2>1. Cashiers \in SUBSET Threads /\ IsFiniteSet(Cashiers)
    BY Kinds
  <2> QED BY <2>1, Moved
<1>2. t \in Threads \ Cooks /\ t \in Threads \ Customers
  BY Kinds
<1>3. Count(Cooks, a, b)' = Count(Cooks, a, b)
  BY <1>2, Kinds, NotMoved
<1>4. Count(Customers, a, b)' = Count(Customers, a, b)
  BY <1>2, Kinds, NotMoved
<1> QED BY <1>1, <1>3, <1>4

LEMMA CustomerMoves ==
  ASSUME NEW a \in Nat, NEW b \in Nat,
         BBTypeOK, NEW t \in Customers, NEW k \in 0 .. 12, ip' = [ip EXCEPT ![t] = k]
  PROVE  /\ Count(Customers, a, b)' = Count(Customers, a, b) - In(ip[t], a, b) + In(k, a, b)
         /\ Count(Cooks, a, b)' = Count(Cooks, a, b)
         /\ Count(Cashiers, a, b)' = Count(Cashiers, a, b)
<1>1. Count(Customers, a, b)' = Count(Customers, a, b) - In(ip[t], a, b) + In(k, a, b)
  <2>1. Customers \in SUBSET Threads /\ IsFiniteSet(Customers)
    BY Kinds
  <2> QED BY <2>1, Moved
<1>2. t \in Threads \ Cooks /\ t \in Threads \ Cashiers
  BY Kinds
<1>3. Count(Cooks, a, b)' = Count(Cooks, a, b)
  BY <1>2, Kinds, NotMoved
<1>4. Count(Cashiers, a, b)' = Count(Cashiers, a, b)
  BY <1>2, Kinds, NotMoved
<1> QED BY <1>1, <1>3, <1>4

LEMMA CountsAreNat ==
  \A a, b \in Nat : /\ Count(Cooks, a, b) \in Nat
                    /\ Count(Cashiers, a, b) \in Nat
                    /\ Count(Customers, a, b) \in Nat
BY Kinds, CountType

-----------------------------------------------------------------------------
(* What a step of a thread is, from the tables.                            *)

Takes(t, s, k) ==
  /\ sem[s] > 0 /\ sem' = [sem EXCEPT ![s] = @ - 1]
  /\ ip' = [ip EXCEPT ![t] = k]
  /\ UNCHANGED << tmp, left_num, terminate_signal, main, hoisted >>

Gives(t, s, k) ==
  /\ sem' = [sem EXCEPT ![s] = @ + 1]
  /\ ip' = [ip EXCEPT ![t] = k]
  /\ UNCHANGED << tmp, left_num, terminate_signal, main, hoisted >>

CookStep(t) ==
  \/ ip[t] = 1 /\ Takes(t, "empty_rack", 2)
  \/ ip[t] = 2 /\ Takes(t, "mutex_rack", 3)
  \/ ip[t] = 3 /\ Takes(t, "mutex_print", 4)
  \/ ip[t] = 4 /\ Gives(t, "mutex_print", 5)
  \/ ip[t] = 5 /\ Gives(t, "mutex_rack", 6)
  \/ ip[t] = 6 /\ Gives(t, "burger_num", 1)

CashierStep(t) ==
  \/ ip[t] = 1 /\ Takes(t, "order_num", 2)
  \/ ip[t] = 2 /\ Takes(t, "mutex_print", 3)
  \/ ip[t] = 3 /\ Gives(t, "mutex_print", 4)
  \/ ip[t] = 4 /\ Takes(t, "burger_num", 5)
  \/ ip[t] = 5 /\ Takes(t, "mutex_rack", 6)
  \/ ip[t] = 6 /\ Takes(t, "mutex_print", 7)
  \/ ip[t] = 7 /\ Gives(t, "mutex_print", 8)
  \/ ip[t] = 8 /\ Gives(t, "provide_num", 9)
  \/ ip[t] = 9 /\ Gives(t, "empty_rack", 10)
  \/ ip[t] = 10 /\ Gives(t, "mutex_rack", 1)

CustomerMeets(t) ==
  \/ ip[t] = 1 /\ Takes(t, "mutex_entry", 2)
  \/ ip[t] = 2 /\ Takes(t, "mutex_print", 3)
  \/ ip[t] = 3 /\ Gives(t, "mutex_print", 4)
  \/ ip[t] = 4 /\ Gives(t, "order_num", 5)
  \/ ip[t] = 5 /\ Gives(t, "mutex_entry", 6)
  \/ ip[t] = 6 /\ Takes(t, "provide_num", 7)
  \/ ip[t] = 7 /\ Takes(t, "mutex_leave", 8)
  \/ ip[t] = 11 /\ Gives(t, "mutex_leave", 12)

CustomerLeaves(t) ==
  /\ \/ /\ ip[t] = 8 /\ ip' = [ip EXCEPT ![t] = 9]
        /\ tmp' = [tmp EXCEPT ![t] = left_num]
        /\ UNCHANGED << left_num, terminate_signal >>
     \/ /\ ip[t] = 9 /\ ip' = [ip EXCEPT ![t] = 10]
        /\ left_num' = tmp[t] + 1
        /\ UNCHANGED << tmp, terminate_signal >>
     \/ /\ ip[t] = 10 /\ ip' = [ip EXCEPT ![t] = 11]
        /\ terminate_signal' = IF left_num = cust_num THEN 1 ELSE terminate_signal
        /\ UNCHANGED << tmp, left_num >>
  /\ UNCHANGED << sem, main, hoisted >>

LEMMA CookTable ==
  ASSUME BBTypeOK, NEW t \in Cooks, ThreadStep(t)
  PROVE  CookStep(t)
<1> USE DEF ThreadStep, sem_wait, sem_post, LoadLeftNum, StoreLeftNum, CheckLeftNum, Runs, Advance
<1>1. Code(t) = cook_func /\ t \notin Customers
  BY Kinds DEF Code
<1>2. ip[t] \in 1 .. 6 /\ Len(cook_func) = 6
  BY <1>1 DEF cook_func
<1> USE DEF CookStep, Takes, Gives
<1>3. CASE ip[t] = 1
  <2>1. cook_func[1] = << "wait", "empty_rack" >>
    BY DEF cook_func, wait
  <2> QED BY <1>1, <1>2, <1>3, <2>1
<1>4. CASE ip[t] = 2
  <2>1. cook_func[2] = << "wait", "mutex_rack" >>
    BY DEF cook_func, wait
  <2> QED BY <1>1, <1>2, <1>4, <2>1
<1>5. CASE ip[t] = 3
  <2>1. cook_func[3] = << "wait", "mutex_print" >>
    BY DEF cook_func, wait
  <2> QED BY <1>1, <1>2, <1>5, <2>1
<1>6. CASE ip[t] = 4
  <2>1. cook_func[4] = << "post", "mutex_print" >>
    BY DEF cook_func, post
  <2> QED BY <1>1, <1>2, <1>6, <2>1
<1>7. CASE ip[t] = 5
  <2>1. cook_func[5] = << "post", "mutex_rack" >>
    BY DEF cook_func, post
  <2> QED BY <1>1, <1>2, <1>7, <2>1
<1>8. CASE ip[t] = 6
  <2>1. cook_func[6] = << "post", "burger_num" >>
    BY DEF cook_func, post
  <2> QED BY <1>1, <1>2, <1>8, <2>1
<1> QED BY <1>2, <1>3, <1>4, <1>5, <1>6, <1>7, <1>8

LEMMA CashierTable ==
  ASSUME BBTypeOK, NEW t \in Cashiers, ThreadStep(t)
  PROVE  CashierStep(t)
<1> USE DEF ThreadStep, sem_wait, sem_post, LoadLeftNum, StoreLeftNum, CheckLeftNum, Runs, Advance
<1>1. Code(t) = cashier_func /\ t \notin Customers
  BY Kinds DEF Code
<1>2. ip[t] \in 1 .. 10 /\ Len(cashier_func) = 10
  BY <1>1 DEF cashier_func
<1> USE DEF CashierStep, Takes, Gives
<1>3. CASE ip[t] = 1
  <2>1. cashier_func[1] = << "wait", "order_num" >>
    BY DEF cashier_func, wait
  <2> QED BY <1>1, <1>2, <1>3, <2>1
<1>4. CASE ip[t] = 2
  <2>1. cashier_func[2] = << "wait", "mutex_print" >>
    BY DEF cashier_func, wait
  <2> QED BY <1>1, <1>2, <1>4, <2>1
<1>5. CASE ip[t] = 3
  <2>1. cashier_func[3] = << "post", "mutex_print" >>
    BY DEF cashier_func, post
  <2> QED BY <1>1, <1>2, <1>5, <2>1
<1>6. CASE ip[t] = 4
  <2>1. cashier_func[4] = << "wait", "burger_num" >>
    BY DEF cashier_func, wait
  <2> QED BY <1>1, <1>2, <1>6, <2>1
<1>7. CASE ip[t] = 5
  <2>1. cashier_func[5] = << "wait", "mutex_rack" >>
    BY DEF cashier_func, wait
  <2> QED BY <1>1, <1>2, <1>7, <2>1
<1>8. CASE ip[t] = 6
  <2>1. cashier_func[6] = << "wait", "mutex_print" >>
    BY DEF cashier_func, wait
  <2> QED BY <1>1, <1>2, <1>8, <2>1
<1>9. CASE ip[t] = 7
  <2>1. cashier_func[7] = << "post", "mutex_print" >>
    BY DEF cashier_func, post
  <2> QED BY <1>1, <1>2, <1>9, <2>1
<1>10. CASE ip[t] = 8
  <2>1. cashier_func[8] = << "post", "provide_num" >>
    BY DEF cashier_func, post
  <2> QED BY <1>1, <1>2, <1>10, <2>1
<1>11. CASE ip[t] = 9
  <2>1. cashier_func[9] = << "post", "empty_rack" >>
    BY DEF cashier_func, post
  <2> QED BY <1>1, <1>2, <1>11, <2>1
<1>12. CASE ip[t] = 10
  <2>1. cashier_func[10] = << "post", "mutex_rack" >>
    BY DEF cashier_func, post
  <2> QED BY <1>1, <1>2, <1>12, <2>1
<1> QED BY <1>2, <1>3, <1>4, <1>5, <1>6, <1>7, <1>8, <1>9, <1>10, <1>11, <1>12

LEMMA CustomerTable ==
  ASSUME BBTypeOK, NEW t \in Customers, ThreadStep(t)
  PROVE  CustomerMeets(t) \/ CustomerLeaves(t)
<1> USE DEF ThreadStep, sem_wait, sem_post, LoadLeftNum, StoreLeftNum, CheckLeftNum, Runs, Advance
<1>1. Code(t) = custom_func /\ t \in Customers
  BY Kinds DEF Code
<1>2. ip[t] \in 1 .. 11 /\ Len(custom_func) = 11
  BY <1>1 DEF custom_func
<1> USE DEF CustomerMeets, CustomerLeaves, Takes, Gives
<1>3. CASE ip[t] = 1
  <2>1. custom_func[1] = << "wait", "mutex_entry" >>
    BY DEF custom_func, wait
  <2> QED BY <1>1, <1>2, <1>3, <2>1
<1>4. CASE ip[t] = 2
  <2>1. custom_func[2] = << "wait", "mutex_print" >>
    BY DEF custom_func, wait
  <2> QED BY <1>1, <1>2, <1>4, <2>1
<1>5. CASE ip[t] = 3
  <2>1. custom_func[3] = << "post", "mutex_print" >>
    BY DEF custom_func, post
  <2> QED BY <1>1, <1>2, <1>5, <2>1
<1>6. CASE ip[t] = 4
  <2>1. custom_func[4] = << "post", "order_num" >>
    BY DEF custom_func, post
  <2> QED BY <1>1, <1>2, <1>6, <2>1
<1>7. CASE ip[t] = 5
  <2>1. custom_func[5] = << "post", "mutex_entry" >>
    BY DEF custom_func, post
  <2> QED BY <1>1, <1>2, <1>7, <2>1
<1>8. CASE ip[t] = 6
  <2>1. custom_func[6] = << "wait", "provide_num" >>
    BY DEF custom_func, wait
  <2> QED BY <1>1, <1>2, <1>8, <2>1
<1>9. CASE ip[t] = 7
  <2>1. custom_func[7] = << "wait", "mutex_leave" >>
    BY DEF custom_func, wait
  <2> QED BY <1>1, <1>2, <1>9, <2>1
<1>10. CASE ip[t] = 8
  <2>1. custom_func[8][1] = "load"
    BY DEF custom_func, access
  <2>2. LoadLeftNum(t)
    BY <1>1, <1>10, <2>1
  <2>3. CustomerLeaves(t)
    BY <1>1, <1>2, <1>10, <2>2
  <2> QED BY <2>3
<1>11. CASE ip[t] = 9
  <2>1. custom_func[9][1] = "store"
    BY DEF custom_func, access
  <2>2. StoreLeftNum(t)
    BY <1>1, <1>11, <2>1
  <2>3. CustomerLeaves(t)
    BY <1>1, <1>2, <1>11, <2>2
  <2> QED BY <2>3
<1>12. CASE ip[t] = 10
  <2>1. custom_func[10][1] = "check"
    BY DEF custom_func, access
  <2>2. CheckLeftNum(t)
    BY <1>1, <1>12, <2>1
  <2>3. CustomerLeaves(t)
    BY <1>1, <1>2, <1>12, <2>2 DEF IsLast
  <2> QED BY <2>3
<1>13. CASE ip[t] = 11
  <2>1. custom_func[11] = << "post", "mutex_leave" >>
    BY DEF custom_func, post
  <2> QED BY <1>1, <1>2, <1>13, <2>1
<1> QED BY <1>2, <1>3, <1>4, <1>5, <1>6, <1>7, <1>8, <1>9, <1>10, <1>11, <1>12, <1>13

-----------------------------------------------------------------------------
(* The books.                                                              *)

LEMMA CountTypes ==
  /\ Count(Cooks, 4, 4) \in Nat
  /\ Count(Cooks, 3, 5) \in Nat
  /\ Count(Cooks, 2, 6) \in Nat
  /\ Count(Cashiers, 3, 3) \in Nat
  /\ Count(Cashiers, 7, 7) \in Nat
  /\ Count(Cashiers, 6, 10) \in Nat
  /\ Count(Cashiers, 5, 9) \in Nat
  /\ Count(Cashiers, 2, 8) \in Nat
  /\ Count(Customers, 3, 3) \in Nat
  /\ Count(Customers, 2, 5) \in Nat
  /\ Count(Customers, 8, 11) \in Nat
  /\ Count(Customers, 5, 6) \in Nat
  /\ Count(Customers, 10, 12) \in Nat
BY CountsAreNat

LEMMA SemTypes ==
  ASSUME BBTypeOK
  PROVE  /\ sem["mutex_print"] \in Nat
         /\ sem["mutex_rack"] \in Nat
         /\ sem["mutex_entry"] \in Nat
         /\ sem["mutex_leave"] \in Nat
         /\ sem["empty_rack"] \in Nat
         /\ sem["burger_num"] \in Nat
         /\ sem["order_num"] \in Nat
         /\ sem["provide_num"] \in Nat
BY DEF BBTypeOK, Sems, Mutexes

LEMMA StepNumbers ==
  /\ 1 \in 0 .. 12 /\ 2 \in 0 .. 12 /\ 3 \in 0 .. 12 /\ 4 \in 0 .. 12
  /\ 5 \in 0 .. 12 /\ 6 \in 0 .. 12 /\ 7 \in 0 .. 12 /\ 8 \in 0 .. 12
  /\ 9 \in 0 .. 12 /\ 10 \in 0 .. 12 /\ 11 \in 0 .. 12 /\ 12 \in 0 .. 12
OBVIOUS

\* The counts in the books when a cook goes from step j to step k, and so on.
CookCounted(j, k) ==
  /\ Count(Cooks, 4, 4)' = Count(Cooks, 4, 4) - In(j, 4, 4) + In(k, 4, 4)
  /\ Count(Cooks, 3, 5)' = Count(Cooks, 3, 5) - In(j, 3, 5) + In(k, 3, 5)
  /\ Count(Cooks, 2, 6)' = Count(Cooks, 2, 6) - In(j, 2, 6) + In(k, 2, 6)
  /\ Count(Cashiers, 3, 3)' = Count(Cashiers, 3, 3)
  /\ Count(Cashiers, 7, 7)' = Count(Cashiers, 7, 7)
  /\ Count(Cashiers, 6, 10)' = Count(Cashiers, 6, 10)
  /\ Count(Cashiers, 5, 9)' = Count(Cashiers, 5, 9)
  /\ Count(Cashiers, 2, 8)' = Count(Cashiers, 2, 8)
  /\ Count(Customers, 3, 3)' = Count(Customers, 3, 3)
  /\ Count(Customers, 2, 5)' = Count(Customers, 2, 5)
  /\ Count(Customers, 8, 11)' = Count(Customers, 8, 11)
  /\ Count(Customers, 5, 6)' = Count(Customers, 5, 6)
  /\ Count(Customers, 10, 12)' = Count(Customers, 10, 12)

CashierCounted(j, k) ==
  /\ Count(Cooks, 4, 4)' = Count(Cooks, 4, 4)
  /\ Count(Cooks, 3, 5)' = Count(Cooks, 3, 5)
  /\ Count(Cooks, 2, 6)' = Count(Cooks, 2, 6)
  /\ Count(Cashiers, 3, 3)' = Count(Cashiers, 3, 3) - In(j, 3, 3) + In(k, 3, 3)
  /\ Count(Cashiers, 7, 7)' = Count(Cashiers, 7, 7) - In(j, 7, 7) + In(k, 7, 7)
  /\ Count(Cashiers, 6, 10)' = Count(Cashiers, 6, 10) - In(j, 6, 10) + In(k, 6, 10)
  /\ Count(Cashiers, 5, 9)' = Count(Cashiers, 5, 9) - In(j, 5, 9) + In(k, 5, 9)
  /\ Count(Cashiers, 2, 8)' = Count(Cashiers, 2, 8) - In(j, 2, 8) + In(k, 2, 8)
  /\ Count(Customers, 3, 3)' = Count(Customers, 3, 3)
  /\ Count(Customers, 2, 5)' = Count(Customers, 2, 5)
  /\ Count(Customers, 8, 11)' = Count(Customers, 8, 11)
  /\ Count(Customers, 5, 6)' = Count(Customers, 5, 6)
  /\ Count(Customers, 10, 12)' = Count(Customers, 10, 12)

CustomerCounted(j, k) ==
  /\ Count(Cooks, 4, 4)' = Count(Cooks, 4, 4)
  /\ Count(Cooks, 3, 5)' = Count(Cooks, 3, 5)
  /\ Count(Cooks, 2, 6)' = Count(Cooks, 2, 6)
  /\ Count(Cashiers, 3, 3)' = Count(Cashiers, 3, 3)
  /\ Count(Cashiers, 7, 7)' = Count(Cashiers, 7, 7)
  /\ Count(Cashiers, 6, 10)' = Count(Cashiers, 6, 10)
  /\ Count(Cashiers, 5, 9)' = Count(Cashiers, 5, 9)
  /\ Count(Cashiers, 2, 8)' = Count(Cashiers, 2, 8)
  /\ Count(Customers, 3, 3)' = Count(Customers, 3, 3) - In(j, 3, 3) + In(k, 3, 3)
  /\ Count(Customers, 2, 5)' = Count(Customers, 2, 5) - In(j, 2, 5) + In(k, 2, 5)
  /\ Count(Customers, 8, 11)' = Count(Customers, 8, 11) - In(j, 8, 11) + In(k, 8, 11)
  /\ Count(Customers, 5, 6)' = Count(Customers, 5, 6) - In(j, 5, 6) + In(k, 5, 6)
  /\ Count(Customers, 10, 12)' = Count(Customers, 10, 12) - In(j, 10, 12) + In(k, 10, 12)

LEMMA CookCounts ==
  ASSUME BBTypeOK, NEW t \in Cooks, NEW j, NEW k \in 0 .. 12,
         ip[t] = j, ip' = [ip EXCEPT ![t] = k]
  PROVE  CookCounted(j, k)
BY CookMoves DEF CookCounted

LEMMA CashierCounts ==
  ASSUME BBTypeOK, NEW t \in Cashiers, NEW j, NEW k \in 0 .. 12,
         ip[t] = j, ip' = [ip EXCEPT ![t] = k]
  PROVE  CashierCounted(j, k)
BY CashierMoves DEF CashierCounted

LEMMA CustomerCounts ==
  ASSUME BBTypeOK, NEW t \in Customers, NEW j, NEW k \in 0 .. 12,
         ip[t] = j, ip' = [ip EXCEPT ![t] = k]
  PROVE  CustomerCounted(j, k)
BY CustomerMoves DEF CustomerCounted

\* The semaphores when d is added to s.
SemsAdd(s, d) ==
  /\ sem'["mutex_print"] = sem["mutex_print"] + (IF s = "mutex_print" THEN d ELSE 0)
  /\ sem'["mutex_rack"] = sem["mutex_rack"] + (IF s = "mutex_rack" THEN d ELSE 0)
  /\ sem'["mutex_entry"] = sem["mutex_entry"] + (IF s = "mutex_entry" THEN d ELSE 0)
  /\ sem'["mutex_leave"] = sem["mutex_leave"] + (IF s = "mutex_leave" THEN d ELSE 0)
  /\ sem'["empty_rack"] = sem["empty_rack"] + (IF s = "empty_rack" THEN d ELSE 0)
  /\ sem'["burger_num"] = sem["burger_num"] + (IF s = "burger_num" THEN d ELSE 0)
  /\ sem'["order_num"] = sem["order_num"] + (IF s = "order_num" THEN d ELSE 0)
  /\ sem'["provide_num"] = sem["provide_num"] + (IF s = "provide_num" THEN d ELSE 0)

LEMMA TakesSem ==
  ASSUME BBTypeOK, NEW t, NEW s \in Sems, NEW k, Takes(t, s, k)
  PROVE  sem' \in [Sems -> Nat] /\ SemsAdd(s, -1)
<1>1. sem' \in [Sems -> Nat]
  BY DEF BBTypeOK, Takes
<1>2. \A r \in Sems : sem'[r] = sem[r] + (IF s = r THEN -1 ELSE 0)
  BY DEF BBTypeOK, Takes
<1>3. SemsAdd(s, -1)
  BY <1>2 DEF SemsAdd, Sems, Mutexes
<1> QED BY <1>1, <1>3

LEMMA GivesSem ==
  ASSUME BBTypeOK, NEW t, NEW s \in Sems, NEW k, Gives(t, s, k)
  PROVE  sem' \in [Sems -> Nat] /\ SemsAdd(s, 1)
<1>1. sem' \in [Sems -> Nat]
  BY DEF BBTypeOK, Gives
<1>2. \A r \in Sems : sem'[r] = sem[r] + (IF s = r THEN 1 ELSE 0)
  BY DEF BBTypeOK, Gives
<1>3. SemsAdd(s, 1)
  BY <1>2 DEF SemsAdd, Sems, Mutexes
<1> QED BY <1>1, <1>3

\* The books after a cook has gone from step j to step k and d has been
\* added to s, for the pairs of the table.
CookRow(j, s, d, k) ==
  \/ j = 1 /\ s = "empty_rack" /\ d = -1 /\ k = 2
  \/ j = 2 /\ s = "mutex_rack" /\ d = -1 /\ k = 3
  \/ j = 3 /\ s = "mutex_print" /\ d = -1 /\ k = 4
  \/ j = 4 /\ s = "mutex_print" /\ d = 1 /\ k = 5
  \/ j = 5 /\ s = "mutex_rack" /\ d = 1 /\ k = 6
  \/ j = 6 /\ s = "burger_num" /\ d = 1 /\ k = 1

LEMMA CookBalance ==
  ASSUME BBTypeOK, Books, NEW j, NEW s, NEW d, NEW k, CookRow(j, s, d, k),
         CookCounted(j, k), SemsAdd(s, d)
  PROVE  Books'
<1> USE SemTypes, CountTypes DEF CookRow, CookCounted, SemsAdd, Books, In
<1>1. PrintBook'
  BY DEF PrintBook
<1>2. RackBook'
  BY DEF RackBook
<1>3. EntryBook'
  BY DEF EntryBook
<1>4. LeaveBook'
  BY DEF LeaveBook
<1>5. RackConserved'
  BY DEF RackConserved
<1>6. OrdersMatched'
  BY DEF OrdersMatched
<1> QED BY <1>1, <1>2, <1>3, <1>4, <1>5, <1>6

\* The books after a cashier has gone from step j to step k and d has been
\* added to s, for the pairs of the table.
CashierRow(j, s, d, k) ==
  \/ j = 1 /\ s = "order_num" /\ d = -1 /\ k = 2
  \/ j = 2 /\ s = "mutex_print" /\ d = -1 /\ k = 3
  \/ j = 3 /\ s = "mutex_print" /\ d = 1 /\ k = 4
  \/ j = 4 /\ s = "burger_num" /\ d = -1 /\ k = 5
  \/ j = 5 /\ s = "mutex_rack" /\ d = -1 /\ k = 6
  \/ j = 6 /\ s = "mutex_print" /\ d = -1 /\ k = 7
  \/ j = 7 /\ s = "mutex_print" /\ d = 1 /\ k = 8
  \/ j = 8 /\ s = "provide_num" /\ d = 1 /\ k = 9
  \/ j = 9 /\ s = "empty_rack" /\ d = 1 /\ k = 10
  \/ j = 10 /\ s = "mutex_rack" /\ d = 1 /\ k = 1

LEMMA CashierBalance ==
  ASSUME BBTypeOK, Books, NEW j, NEW s, NEW d, NEW k, CashierRow(j, s, d, k),
         CashierCounted(j, k), SemsAdd(s, d)
  PROVE  Books'
<1> USE SemTypes, CountTypes DEF CashierRow, CashierCounted, SemsAdd, Books, In
<1>1. PrintBook'
  BY DEF PrintBook
<1>2. RackBook'
  BY DEF RackBook
<1>3. EntryBook'
  BY DEF EntryBook
<1>4. LeaveBook'
  BY DEF LeaveBook
<1>5. RackConserved'
  BY DEF RackConserved
<1>6. OrdersMatched'
  BY DEF OrdersMatched
<1> QED BY <1>1, <1>2, <1>3, <1>4, <1>5, <1>6

\* The books after a customer has gone from step j to step k and d has been
\* added to s, for the pairs of the table.
CustomerRow(j, s, d, k) ==
  \/ j = 1 /\ s = "mutex_entry" /\ d = -1 /\ k = 2
  \/ j = 2 /\ s = "mutex_print" /\ d = -1 /\ k = 3
  \/ j = 3 /\ s = "mutex_print" /\ d = 1 /\ k = 4
  \/ j = 4 /\ s = "order_num" /\ d = 1 /\ k = 5
  \/ j = 5 /\ s = "mutex_entry" /\ d = 1 /\ k = 6
  \/ j = 6 /\ s = "provide_num" /\ d = -1 /\ k = 7
  \/ j = 7 /\ s = "mutex_leave" /\ d = -1 /\ k = 8
  \/ j = 11 /\ s = "mutex_leave" /\ d = 1 /\ k = 12

LEMMA CustomerBalance ==
  ASSUME BBTypeOK, Books, NEW j, NEW s, NEW d, NEW k, CustomerRow(j, s, d, k),
         CustomerCounted(j, k), SemsAdd(s, d)
  PROVE  Books'
<1> USE SemTypes, CountTypes DEF CustomerRow, CustomerCounted, SemsAdd, Books, In
<1>1. PrintBook'
  BY DEF PrintBook
<1>2. RackBook'
  BY DEF RackBook
<1>3. EntryBook'
  BY DEF EntryBook
<1>4. LeaveBook'
  BY DEF LeaveBook
<1>5. RackConserved'
  BY DEF RackConserved
<1>6. OrdersMatched'
  BY DEF OrdersMatched
<1> QED BY <1>1, <1>2, <1>3, <1>4, <1>5, <1>6

LEMMA SemNames ==
  /\ "mutex_print" \in Sems
  /\ "mutex_rack" \in Sems
  /\ "mutex_entry" \in Sems
  /\ "mutex_leave" \in Sems
  /\ "empty_rack" \in Sems
  /\ "burger_num" \in Sems
  /\ "order_num" \in Sems
  /\ "provide_num" \in Sems
BY DEF Sems, Mutexes

LEMMA CookBooks ==
  ASSUME BBTypeOK, Books, NEW t \in Cooks, CookStep(t)
  PROVE  Books' /\ sem' \in [Sems -> Nat]
<1>1. ASSUME NEW j, NEW s \in Sems, NEW k \in 0 .. 12, CookRow(j, s, -1, k),
             ip[t] = j, Takes(t, s, k)
      PROVE  Books' /\ sem' \in [Sems -> Nat]
  <2>1. CookCounted(j, k)
    BY <1>1, CookCounts DEF Takes
  <2>2. sem' \in [Sems -> Nat] /\ SemsAdd(s, -1)
    BY <1>1, TakesSem
  <2> QED BY <1>1, <2>1, <2>2, CookBalance
<1>2. ASSUME NEW j, NEW s \in Sems, NEW k \in 0 .. 12, CookRow(j, s, 1, k),
             ip[t] = j, Gives(t, s, k)
      PROVE  Books' /\ sem' \in [Sems -> Nat]
  <2>1. CookCounted(j, k)
    BY <1>2, CookCounts DEF Gives
  <2>2. sem' \in [Sems -> Nat] /\ SemsAdd(s, 1)
    BY <1>2, GivesSem
  <2> QED BY <1>2, <2>1, <2>2, CookBalance
<1>3. CASE ip[t] = 1 /\ Takes(t, "empty_rack", 2)
  <2>1. CookRow(1, "empty_rack", -1, 2)
    BY DEF CookRow
  <2> QED BY <1>1, <1>3, <2>1, SemNames, StepNumbers
<1>4. CASE ip[t] = 2 /\ Takes(t, "mutex_rack", 3)
  <2>1. CookRow(2, "mutex_rack", -1, 3)
    BY DEF CookRow
  <2> QED BY <1>1, <1>4, <2>1, SemNames, StepNumbers
<1>5. CASE ip[t] = 3 /\ Takes(t, "mutex_print", 4)
  <2>1. CookRow(3, "mutex_print", -1, 4)
    BY DEF CookRow
  <2> QED BY <1>1, <1>5, <2>1, SemNames, StepNumbers
<1>6. CASE ip[t] = 4 /\ Gives(t, "mutex_print", 5)
  <2>1. CookRow(4, "mutex_print", 1, 5)
    BY DEF CookRow
  <2> QED BY <1>2, <1>6, <2>1, SemNames, StepNumbers
<1>7. CASE ip[t] = 5 /\ Gives(t, "mutex_rack", 6)
  <2>1. CookRow(5, "mutex_rack", 1, 6)
    BY DEF CookRow
  <2> QED BY <1>2, <1>7, <2>1, SemNames, StepNumbers
<1>8. CASE ip[t] = 6 /\ Gives(t, "burger_num", 1)
  <2>1. CookRow(6, "burger_num", 1, 1)
    BY DEF CookRow
  <2> QED BY <1>2, <1>8, <2>1, SemNames, StepNumbers
<1> QED BY <1>3, <1>4, <1>5, <1>6, <1>7, <1>8 DEF CookStep

LEMMA CashierBooks ==
  ASSUME BBTypeOK, Books, NEW t \in Cashiers, CashierStep(t)
  PROVE  Books' /\ sem' \in [Sems -> Nat]
<1>1. ASSUME NEW j, NEW s \in Sems, NEW k \in 0 .. 12, CashierRow(j, s, -1, k),
             ip[t] = j, Takes(t, s, k)
      PROVE  Books' /\ sem' \in [Sems -> Nat]
  <2>1. CashierCounted(j, k)
    BY <1>1, CashierCounts DEF Takes
  <2>2. sem' \in [Sems -> Nat] /\ SemsAdd(s, -1)
    BY <1>1, TakesSem
  <2> QED BY <1>1, <2>1, <2>2, CashierBalance
<1>2. ASSUME NEW j, NEW s \in Sems, NEW k \in 0 .. 12, CashierRow(j, s, 1, k),
             ip[t] = j, Gives(t, s, k)
      PROVE  Books' /\ sem' \in [Sems -> Nat]
  <2>1. CashierCounted(j, k)
    BY <1>2, CashierCounts DEF Gives
  <2>2. sem' \in [Sems -> Nat] /\ SemsAdd(s, 1)
    BY <1>2, GivesSem
  <2> QED BY <1>2, <2>1, <2>2, CashierBalance
<1>3. CASE ip[t] = 1 /\ Takes(t, "order_num", 2)
  <2>1. CashierRow(1, "order_num", -1, 2)
    BY DEF CashierRow
  <2> QED BY <1>1, <1>3, <2>1, SemNames, StepNumbers
<1>4. CASE ip[t] = 2 /\ Takes(t, "mutex_print", 3)
  <2>1. CashierRow(2, "mutex_print", -1, 3)
    BY DEF CashierRow
  <2> QED BY <1>1, <1>4, <2>1, SemNames, StepNumbers
<1>5. CASE ip[t] = 3 /\ Gives(t, "mutex_print", 4)
  <2>1. CashierRow(3, "mutex_print", 1, 4)
    BY DEF CashierRow
  <2> QED BY <1>2, <1>5, <2>1, SemNames, StepNumbers
<1>6. CASE ip[t] = 4 /\ Takes(t, "burger_num", 5)
  <2>1. CashierRow(4, "burger_num", -1, 5)
    BY DEF CashierRow
  <2> QED BY <1>1, <1>6, <2>1, SemNames, StepNumbers
<1>7. CASE ip[t] = 5 /\ Takes(t, "mutex_rack", 6)
  <2>1. CashierRow(5, "mutex_rack", -1, 6)
    BY DEF CashierRow
  <2> QED BY <1>1, <1>7, <2>1, SemNames, StepNumbers
<1>8. CASE ip[t] = 6 /\ Takes(t, "mutex_print", 7)
  <2>1. CashierRow(6, "mutex_print", -1, 7)
    BY DEF CashierRow
  <2> QED BY <1>1, <1>8, <2>1, SemNames, StepNumbers
<1>9. CASE ip[t] = 7 /\ Gives(t, "mutex_print", 8)
  <2>1. CashierRow(7, "mutex_print", 1, 8)
    BY DEF CashierRow
  <2> QED BY <1>2, <1>9, <2>1, SemNames, StepNumbers
<1>10. CASE ip[t] = 8 /\ Gives(t, "provide_num", 9)
  <2>1. CashierRow(8, "provide_num", 1, 9)
    BY DEF CashierRow
  <2> QED BY <1>2, <1>10, <2>1, SemNames, StepNumbers
<1>11. CASE ip[t] = 9 /\ Gives(t, "empty_rack", 10)
  <2>1. CashierRow(9, "empty_rack", 1, 10)
    BY DEF CashierRow
  <2> QED BY <1>2, <1>11, <2>1, SemNames, StepNumbers
<1>12. CASE ip[t] = 10 /\ Gives(t, "mutex_rack", 1)
  <2>1. CashierRow(10, "mutex_rack", 1, 1)
    BY DEF CashierRow
  <2> QED BY <1>2, <1>12, <2>1, SemNames, StepNumbers
<1> QED BY <1>3, <1>4, <1>5, <1>6, <1>7, <1>8, <1>9, <1>10, <1>11, <1>12 DEF CashierStep

LEMMA CustomerBooks ==
  ASSUME BBTypeOK, Books, NEW t \in Customers, CustomerMeets(t)
  PROVE  Books' /\ sem' \in [Sems -> Nat]
<1>1. ASSUME NEW j, NEW s \in Sems, NEW k \in 0 .. 12, CustomerRow(j, s, -1, k),
             ip[t] = j, Takes(t, s, k)
      PROVE  Books' /\ sem' \in [Sems -> Nat]
  <2>1. CustomerCounted(j, k)
    BY <1>1, CustomerCounts DEF Takes
  <2>2. sem' \in [Sems -> Nat] /\ SemsAdd(s, -1)
    BY <1>1, TakesSem
  <2> QED BY <1>1, <2>1, <2>2, CustomerBalance
<1>2. ASSUME NEW j, NEW s \in Sems, NEW k \in 0 .. 12, CustomerRow(j, s, 1, k),
             ip[t] = j, Gives(t, s, k)
      PROVE  Books' /\ sem' \in [Sems -> Nat]
  <2>1. CustomerCounted(j, k)
    BY <1>2, CustomerCounts DEF Gives
  <2>2. sem' \in [Sems -> Nat] /\ SemsAdd(s, 1)
    BY <1>2, GivesSem
  <2> QED BY <1>2, <2>1, <2>2, CustomerBalance
<1>3. CASE ip[t] = 1 /\ Takes(t, "mutex_entry", 2)
  <2>1. CustomerRow(1, "mutex_entry", -1, 2)
    BY DEF CustomerRow
  <2> QED BY <1>1, <1>3, <2>1, SemNames, StepNumbers
<1>4. CASE ip[t] = 2 /\ Takes(t, "mutex_print", 3)
  <2>1. CustomerRow(2, "mutex_print", -1, 3)
    BY DEF CustomerRow
  <2> QED BY <1>1, <1>4, <2>1, SemNames, StepNumbers
<1>5. CASE ip[t] = 3 /\ Gives(t, "mutex_print", 4)
  <2>1. CustomerRow(3, "mutex_print", 1, 4)
    BY DEF CustomerRow
  <2> QED BY <1>2, <1>5, <2>1, SemNames, StepNumbers
<1>6. CASE ip[t] = 4 /\ Gives(t, "order_num", 5)
  <2>1. CustomerRow(4, "order_num", 1, 5)
    BY DEF CustomerRow
  <2> QED BY <1>2, <1>6, <2>1, SemNames, StepNumbers
<1>7. CASE ip[t] = 5 /\ Gives(t, "mutex_entry", 6)
  <2>1. CustomerRow(5, "mutex_entry", 1, 6)
    BY DEF CustomerRow
  <2> QED BY <1>2, <1>7, <2>1, SemNames, StepNumbers
<1>8. CASE ip[t] = 6 /\ Takes(t, "provide_num", 7)
  <2>1. CustomerRow(6, "provide_num", -1, 7)
    BY DEF CustomerRow
  <2> QED BY <1>1, <1>8, <2>1, SemNames, StepNumbers
<1>9. CASE ip[t] = 7 /\ Takes(t, "mutex_leave", 8)
  <2>1. CustomerRow(7, "mutex_leave", -1, 8)
    BY DEF CustomerRow
  <2> QED BY <1>1, <1>9, <2>1, SemNames, StepNumbers
<1>10. CASE ip[t] = 11 /\ Gives(t, "mutex_leave", 12)
  <2>1. CustomerRow(11, "mutex_leave", 1, 12)
    BY DEF CustomerRow
  <2> QED BY <1>2, <1>10, <2>1, SemNames, StepNumbers
<1> QED BY <1>3, <1>4, <1>5, <1>6, <1>7, <1>8, <1>9, <1>10 DEF CustomerMeets

-----------------------------------------------------------------------------
(* The customers at the door.                                              *)

\* mutex_leave lets one customer count.
LEMMA OneLeaves ==
  ASSUME BBTypeOK, LeaveBook, NEW c \in Customers, NEW d \in Customers,
         ip[c] \in 8 .. 11, ip[d] \in 8 .. 11
  PROVE  c = d
<1>1. IsFiniteSet(At(Customers, 8, 11)) /\ Count(Customers, 8, 11) \in Nat
  BY Kinds, CountType
<1>2. Count(Customers, 8, 11) <= 1
  BY <1>1, SemTypes DEF LeaveBook
<1>3. c \in At(Customers, 8, 11) /\ d \in At(Customers, 8, 11)
  BY DEF At
<1>4. IsFiniteSet(At(Customers, 8, 11) \ {c})
      /\ Cardinality(At(Customers, 8, 11) \ {c}) = Count(Customers, 8, 11) - 1
  BY <1>1, <1>3, FS_RemoveElement DEF Count
<1>5. Cardinality(At(Customers, 8, 11) \ {c}) \in Nat
  BY <1>4, FS_CardinalityType
<1>6. Cardinality(At(Customers, 8, 11) \ {c}) = 0
  BY <1>1, <1>2, <1>4, <1>5
<1>7. At(Customers, 8, 11) \ {c} = {}
  BY <1>4, <1>6, FS_EmptySet
<1> QED BY <1>3, <1>7

\* When the count is that of the customers, every customer has counted.
LEMMA AllHaveLeft ==
  ASSUME BBTypeOK, Count(Customers, 10, 12) = cust_num
  PROVE  \A c \in Customers : ip[c] >= 10
<1>1. At(Customers, 10, 12) \in SUBSET Customers
  BY DEF At
<1>2. At(Customers, 10, 12) = Customers
  BY <1>1, Kinds, FS_Subset DEF Count, cust_num
<1>3. \A c \in Customers : c \in At(Customers, 10, 12)
  BY <1>2
<1>4. \A c \in Customers : ip[c] \in 10 .. 12
  BY <1>3 DEF At
<1> QED BY <1>4

-----------------------------------------------------------------------------
(* The invariant.                                                          *)

LEMMA Goes ==
  ASSUME BBTypeOK, NEW t \in Threads, NEW k \in 0 .. 12, ip' = [ip EXCEPT ![t] = k],
         k <= Len(Code(t)) + (IF t \in Customers THEN 1 ELSE 0)
  PROVE  /\ ip' \in [Threads -> 0 .. 12]
         /\ \A u \in Threads : ip'[u] <= Len(Code(u)) + (IF u \in Customers THEN 1 ELSE 0)
         /\ ip'[t] = k /\ \A u \in Threads \ {t} : ip'[u] = ip[u]
BY DEF BBTypeOK

LEMMA Lengths ==
  /\ \A t \in Cooks : Len(Code(t)) = 6
  /\ \A t \in Cashiers : Len(Code(t)) = 10
  /\ \A t \in Customers : Len(Code(t)) = 11
BY Kinds DEF Code, cook_func, cashier_func, custom_func

LEMMA CookKeeps ==
  ASSUME BBInv, NEW t \in Cooks, CookStep(t)
  PROVE  BBInv'
<1>1. Books' /\ sem' \in [Sems -> Nat]
  BY CookBooks DEF BBInv
<1>2. /\ \E k \in 0 .. 6 : ip' = [ip EXCEPT ![t] = k]
      /\ UNCHANGED << tmp, left_num, terminate_signal, main, hoisted >>
  BY DEF CookStep, Takes, Gives
<1>3. PICK k \in 0 .. 6 : ip' = [ip EXCEPT ![t] = k]
  BY <1>2
<1>4. t \in Threads /\ t \notin Customers /\ Len(Code(t)) = 6 /\ Customers \in SUBSET Threads
  BY Kinds, Lengths
<1>5. k \in 0 .. 12 /\ k <= Len(Code(t)) + (IF t \in Customers THEN 1 ELSE 0)
  BY <1>4
<1>6. /\ ip' \in [Threads -> 0 .. 12]
      /\ \A u \in Threads : ip'[u] <= Len(Code(u)) + (IF u \in Customers THEN 1 ELSE 0)
      /\ \A u \in Threads \ {t} : ip'[u] = ip[u]
  BY <1>3, <1>4, <1>5, Goes DEF BBInv
<1>7. BBTypeOK'
  BY <1>1, <1>2, <1>6 DEF BBInv, BBTypeOK
<1>8. \A c \in Customers : ip'[c] = ip[c]
  BY <1>4, <1>6
<1>9. LoadedOK'
  BY <1>2, <1>8 DEF BBInv, LoadedOK
<1>10. Count(Customers, 10, 12)' = Count(Customers, 10, 12)
  BY <1>3, <1>5, CookCounts DEF CookCounted, BBInv
<1>11. LeavesCounted'
  BY <1>2, <1>8, <1>10 DEF BBInv, LeavesCounted
<1> QED BY <1>1, <1>7, <1>9, <1>11 DEF BBInv

LEMMA CashierKeeps ==
  ASSUME BBInv, NEW t \in Cashiers, CashierStep(t)
  PROVE  BBInv'
<1>1. Books' /\ sem' \in [Sems -> Nat]
  BY CashierBooks DEF BBInv
<1>2. /\ \E k \in 0 .. 10 : ip' = [ip EXCEPT ![t] = k]
      /\ UNCHANGED << tmp, left_num, terminate_signal, main, hoisted >>
  BY DEF CashierStep, Takes, Gives
<1>3. PICK k \in 0 .. 10 : ip' = [ip EXCEPT ![t] = k]
  BY <1>2
<1>4. t \in Threads /\ t \notin Customers /\ Len(Code(t)) = 10 /\ Customers \in SUBSET Threads
  BY Kinds, Lengths
<1>5. k \in 0 .. 12 /\ k <= Len(Code(t)) + (IF t \in Customers THEN 1 ELSE 0)
  BY <1>4
<1>6. /\ ip' \in [Threads -> 0 .. 12]
      /\ \A u \in Threads : ip'[u] <= Len(Code(u)) + (IF u \in Customers THEN 1 ELSE 0)
      /\ \A u \in Threads \ {t} : ip'[u] = ip[u]
  BY <1>3, <1>4, <1>5, Goes DEF BBInv
<1>7. BBTypeOK'
  BY <1>1, <1>2, <1>6 DEF BBInv, BBTypeOK
<1>8. \A c \in Customers : ip'[c] = ip[c]
  BY <1>4, <1>6
<1>9. LoadedOK'
  BY <1>2, <1>8 DEF BBInv, LoadedOK
<1>10. Count(Customers, 10, 12)' = Count(Customers, 10, 12)
  BY <1>3, <1>5, CashierCounts DEF CashierCounted, BBInv
<1>11. LeavesCounted'
  BY <1>2, <1>8, <1>10 DEF BBInv, LeavesCounted
<1> QED BY <1>1, <1>7, <1>9, <1>11 DEF BBInv

LEMMA CustomerMeetsKeeps ==
  ASSUME BBInv, NEW t \in Customers, CustomerMeets(t)
  PROVE  BBInv'
<1>1. Books' /\ sem' \in [Sems -> Nat]
  BY CustomerBooks DEF BBInv
<1>2. /\ \E k \in 2 .. 12 : /\ ip' = [ip EXCEPT ![t] = k]
                           /\ k = ip[t] + 1 /\ k \notin 9 .. 11
      /\ UNCHANGED << tmp, left_num, terminate_signal, main, hoisted >>
  BY DEF CustomerMeets, Takes, Gives
<1>3. PICK k \in 2 .. 12 : /\ ip' = [ip EXCEPT ![t] = k]
                          /\ k = ip[t] + 1 /\ k \notin 9 .. 11
  BY <1>2
<1>4. t \in Threads /\ Len(Code(t)) = 11 /\ Customers \in SUBSET Threads
  BY Kinds, Lengths
<1>5. k \in 0 .. 12 /\ k <= Len(Code(t)) + (IF t \in Customers THEN 1 ELSE 0)
  BY <1>4
<1>6. /\ ip' \in [Threads -> 0 .. 12]
      /\ \A u \in Threads : ip'[u] <= Len(Code(u)) + (IF u \in Customers THEN 1 ELSE 0)
      /\ ip'[t] = k /\ \A u \in Threads \ {t} : ip'[u] = ip[u]
  BY <1>3, <1>4, <1>5, Goes DEF BBInv
<1>7. BBTypeOK'
  BY <1>1, <1>2, <1>6 DEF BBInv, BBTypeOK
<1>8. /\ ip'[t] = ip[t] + 1 /\ ip'[t] \in 2 .. 12 /\ ip'[t] \notin 9 .. 11 /\ ip[t] \in 0 .. 12
      /\ \A c \in Customers \ {t} : ip'[c] = ip[c]
  BY <1>3, <1>4, <1>6 DEF BBInv, BBTypeOK
<1>9. LoadedOK'
  BY <1>2, <1>8 DEF BBInv, LoadedOK
<1>10. Count(Customers, 10, 12)' = Count(Customers, 10, 12)
  <2>1. CustomerCounted(ip[t], k)
    BY <1>3, <1>5, CustomerCounts DEF BBInv
  <2>2. k \in 2 .. 12 /\ k \notin 9 .. 11 /\ ip[t] = k - 1
    BY <1>3, <1>8
  <2>3. In(ip[t], 10, 12) = In(k, 10, 12)
    BY <2>2 DEF In
  <2>4. In(k, 10, 12) \in {0, 1}
    BY DEF In
  <2> QED BY <2>1, <2>3, <2>4, CountTypes DEF CustomerCounted
<1>11. LeavesCounted'
  <2>1. terminate_signal = 1 => \A c \in Customers : ip'[c] >= 10
    <3> SUFFICES ASSUME terminate_signal = 1, NEW c \in Customers PROVE ip'[c] >= 10
      OBVIOUS
    <3>1. ip[c] >= 10
      BY DEF BBInv, LeavesCounted
    <3> QED BY <1>8, <3>1
  <2> QED BY <1>2, <1>10, <2>1 DEF BBInv, LeavesCounted
<1> QED BY <1>1, <1>7, <1>9, <1>11 DEF BBInv

SemsSame ==
  /\ sem'["mutex_print"] = sem["mutex_print"]
  /\ sem'["mutex_rack"] = sem["mutex_rack"]
  /\ sem'["mutex_entry"] = sem["mutex_entry"]
  /\ sem'["mutex_leave"] = sem["mutex_leave"]
  /\ sem'["empty_rack"] = sem["empty_rack"]
  /\ sem'["burger_num"] = sem["burger_num"]
  /\ sem'["order_num"] = sem["order_num"]
  /\ sem'["provide_num"] = sem["provide_num"]

CountsSame ==
  /\ Count(Cooks, 4, 4)' = Count(Cooks, 4, 4)
  /\ Count(Cooks, 3, 5)' = Count(Cooks, 3, 5)
  /\ Count(Cooks, 2, 6)' = Count(Cooks, 2, 6)
  /\ Count(Cashiers, 3, 3)' = Count(Cashiers, 3, 3)
  /\ Count(Cashiers, 7, 7)' = Count(Cashiers, 7, 7)
  /\ Count(Cashiers, 6, 10)' = Count(Cashiers, 6, 10)
  /\ Count(Cashiers, 5, 9)' = Count(Cashiers, 5, 9)
  /\ Count(Cashiers, 2, 8)' = Count(Cashiers, 2, 8)
  /\ Count(Customers, 3, 3)' = Count(Customers, 3, 3)
  /\ Count(Customers, 2, 5)' = Count(Customers, 2, 5)
  /\ Count(Customers, 8, 11)' = Count(Customers, 8, 11)
  /\ Count(Customers, 5, 6)' = Count(Customers, 5, 6)

\* The customer counts itself under mutex_leave.
LEMMA CustomerLeavesKeeps ==
  ASSUME BBInv, NEW t \in Customers, CustomerLeaves(t)
  PROVE  BBInv'
<1> DEFINE k == ip[t] + 1
<1>1. /\ ip[t] \in 8 .. 10 /\ ip' = [ip EXCEPT ![t] = k]
      /\ UNCHANGED << sem, main, hoisted >>
  BY DEF CustomerLeaves
<1>2. t \in Threads /\ Len(Code(t)) = 11 /\ Customers \in SUBSET Threads
  BY Kinds, Lengths
<1>3. k \in 9 .. 11 /\ k \in 0 .. 12 /\ k <= Len(Code(t)) + (IF t \in Customers THEN 1 ELSE 0)
  BY <1>1, <1>2
<1>4. /\ ip' \in [Threads -> 0 .. 12]
      /\ \A u \in Threads : ip'[u] <= Len(Code(u)) + (IF u \in Customers THEN 1 ELSE 0)
      /\ ip'[t] = k /\ \A u \in Threads \ {t} : ip'[u] = ip[u]
  BY <1>1, <1>2, <1>3, Goes DEF BBInv
<1>5. /\ tmp' \in [Customers -> Nat] /\ left_num' \in Nat /\ terminate_signal' \in {0, 1}
  <2>1. left_num' \in Nat
    BY DEF CustomerLeaves, BBInv, BBTypeOK
  <2>2. tmp' \in [Customers -> Nat]
    BY DEF CustomerLeaves, BBInv, BBTypeOK
  <2>3. terminate_signal' \in {0, 1}
    BY DEF CustomerLeaves, BBInv, BBTypeOK
  <2> QED BY <2>1, <2>2, <2>3
<1>6. BBTypeOK'
  BY <1>1, <1>4, <1>5 DEF BBInv, BBTypeOK
<1>7. CustomerCounted(ip[t], k)
  BY <1>1, <1>3, CustomerCounts DEF BBInv
<1>8. Books'
  <2>1. /\ In(ip[t], 3, 3) = 0 /\ In(k, 3, 3) = 0
        /\ In(ip[t], 2, 5) = 0 /\ In(k, 2, 5) = 0
        /\ In(ip[t], 8, 11) = 1 /\ In(k, 8, 11) = 1
        /\ In(ip[t], 5, 6) = 0 /\ In(k, 5, 6) = 0
    BY <1>1 DEF In
  <2> HIDE DEF k
  <2>2. CountsSame
    BY <1>7, <2>1, CountTypes DEF CustomerCounted, CountsSame
  <2> QED BY <1>1, <2>2 DEF BBInv, Books, PrintBook, RackBook, EntryBook, LeaveBook,
                            RackConserved, OrdersMatched, CountsSame
<1>9. \A c \in Customers \ {t} : ip'[c] = ip[c] /\ ip[c] # 9
  <2> SUFFICES ASSUME NEW c \in Customers \ {t} PROVE ip'[c] = ip[c] /\ ip[c] # 9
    OBVIOUS
  <2>1. ip'[c] = ip[c]
    BY <1>2, <1>4
  <2>2. ASSUME ip[c] = 9 PROVE FALSE
    BY <2>2, <1>1, OneLeaves DEF BBInv, Books
  <2> QED BY <2>1, <2>2
<1>10. LoadedOK'
  <2> SUFFICES ASSUME NEW c \in Customers, ip'[c] = 9 PROVE tmp'[c] = left_num'
    BY DEF LoadedOK
  <2>1. c = t
    BY <1>9
  <2>2. ip[t] = 8
    BY <1>1, <1>4, <2>1
  <2> QED BY <2>1, <2>2 DEF CustomerLeaves, BBInv, BBTypeOK
<1>11. left_num' = Count(Customers, 10, 12)'
  <2>1. left_num = Count(Customers, 10, 12)
    BY DEF BBInv, LeavesCounted
  <2>2. CASE ip[t] = 9
    <3>1. left_num' = left_num + 1
      BY <2>2 DEF CustomerLeaves, BBInv, LoadedOK
    <3>2. Count(Customers, 10, 12)' = Count(Customers, 10, 12) + 1
      BY <2>2, <1>7, CountTypes DEF CustomerCounted, In
    <3> QED BY <2>1, <3>1, <3>2
  <2>3. CASE ip[t] # 9
    <3>1. left_num' = left_num
      BY <2>3 DEF CustomerLeaves
    <3>2. In(ip[t], 10, 12) = In(k, 10, 12) /\ In(k, 10, 12) \in {0, 1}
      BY <2>3, <1>1 DEF In
    <3>3. Count(Customers, 10, 12)' = Count(Customers, 10, 12)
      BY <3>2, <1>7, CountTypes DEF CustomerCounted
    <3> QED BY <2>1, <3>1, <3>3
  <2> QED BY <2>2, <2>3
<1>12. ASSUME terminate_signal' = 1, NEW c \in Customers PROVE ip'[c] >= 10
  <2>1. \A d \in Customers : ip[d] >= 10
    <3>1. CASE terminate_signal = 1
      BY <3>1 DEF BBInv, LeavesCounted
    <3>2. CASE terminate_signal # 1
      <4>1. left_num = cust_num
        BY <1>12, <3>2 DEF CustomerLeaves
      <4> QED BY <4>1, AllHaveLeft DEF BBInv, LeavesCounted
    <3> QED BY <3>1, <3>2
  <2>2. ip[t] >= 10 /\ ip[c] >= 10
    BY <2>1
  <2>3. CASE c = t
    BY <2>2, <2>3, <1>1, <1>4
  <2>4. CASE c # t
    BY <2>2, <2>4, <1>9
  <2> QED BY <2>3, <2>4
<1>13. main' = "kill" => terminate_signal' = 1
  <2>1. terminate_signal' = 1 \/ terminate_signal' = terminate_signal
    BY DEF CustomerLeaves
  <2> QED BY <1>1, <2>1 DEF BBInv, LeavesCounted
<1>14. LeavesCounted'
  BY <1>11, <1>12, <1>13 DEF LeavesCounted
<1> QED BY <1>6, <1>8, <1>10, <1>14 DEF BBInv

\* Nothing is counted at the first step of a thread.
LEMMA CreateKeeps ==
  ASSUME BBInv, NEW t \in Threads, thread_create(t)
  PROVE  BBInv'
<1>1. /\ ip[t] = 0 /\ ip' = [ip EXCEPT ![t] = 1]
      /\ main' \in {"create", "loop"}
      /\ UNCHANGED << sem, tmp, left_num, terminate_signal, hoisted >>
  BY DEF thread_create, Created
<1>2. 1 <= Len(Code(t)) + (IF t \in Customers THEN 1 ELSE 0) /\ Customers \in SUBSET Threads
  BY Kinds, Lengths DEF Threads
<1>3. /\ ip' \in [Threads -> 0 .. 12]
      /\ \A u \in Threads : ip'[u] <= Len(Code(u)) + (IF u \in Customers THEN 1 ELSE 0)
      /\ ip'[t] = 1 /\ \A u \in Threads \ {t} : ip'[u] = ip[u]
  BY <1>1, <1>2, StepNumbers, Goes DEF BBInv
<1>4. BBTypeOK'
  BY <1>1, <1>3 DEF BBInv, BBTypeOK
<1>5. SemsSame /\ CountsSame /\ Count(Customers, 10, 12)' = Count(Customers, 10, 12)
  <2>1. CASE t \in Cooks
    <3>1. CookCounted(0, 1)
      BY <2>1, <1>1, StepNumbers, CookCounts DEF BBInv
    <3> QED BY <1>1, <3>1, CountTypes DEF CookCounted, In, SemsSame, CountsSame
  <2>2. CASE t \in Cashiers
    <3>1. CashierCounted(0, 1)
      BY <2>2, <1>1, StepNumbers, CashierCounts DEF BBInv
    <3> QED BY <1>1, <3>1, CountTypes DEF CashierCounted, In, SemsSame, CountsSame
  <2>3. CASE t \in Customers
    <3>1. CustomerCounted(0, 1)
      BY <2>3, <1>1, StepNumbers, CustomerCounts DEF BBInv
    <3> QED BY <1>1, <3>1, CountTypes DEF CustomerCounted, In, SemsSame, CountsSame
  <2> QED BY <2>1, <2>2, <2>3 DEF Threads
<1>6. Books'
  BY <1>5 DEF BBInv, Books, PrintBook, RackBook, EntryBook, LeaveBook, RackConserved,
              OrdersMatched, SemsSame, CountsSame
<1>7. LoadedOK'
  BY <1>1, <1>2, <1>3 DEF BBInv, LoadedOK
<1>8. ASSUME terminate_signal = 1, NEW c \in Customers PROVE ip'[c] >= 10
  <2>1. ip[c] >= 10
    BY <1>8 DEF BBInv, LeavesCounted
  <2>2. c # t
    BY <2>1, <1>1
  <2> QED BY <2>1, <2>2, <1>2, <1>3
<1>9. LeavesCounted'
  BY <1>1, <1>5, <1>8 DEF BBInv, LeavesCounted, CountsSame
<1> QED BY <1>4, <1>6, <1>7, <1>9 DEF BBInv

LEMMA MainKeeps ==
  ASSUME BBInv, \/ thread_create_fails \/ ReadTerminateSignal \/ main_returns \/ UNCHANGED bbVars
  PROVE  BBInv'
<1>1. /\ UNCHANGED << sem, ip, tmp, left_num, terminate_signal, hoisted >>
      /\ main' \in {"create", "loop", "spin", "kill", "exit"}
      /\ main' = "kill" => terminate_signal = 1
  BY DEF BBInv, BBTypeOK, LeavesCounted, thread_create_fails, ReadTerminateSignal,
     main_returns, bbVars
<1>2. BBTypeOK'
  BY <1>1 DEF BBInv, BBTypeOK
<1>3. Books'
  BY <1>1 DEF BBInv, Books, PrintBook, RackBook, EntryBook, LeaveBook, RackConserved,
              OrdersMatched, Count, At
<1>4. LoadedOK'
  BY <1>1 DEF BBInv, LoadedOK
<1>5. LeavesCounted'
  BY <1>1 DEF BBInv, LeavesCounted, Count, At
<1> QED BY <1>2, <1>3, <1>4, <1>5 DEF BBInv

LEMMA InitKeeps == BBInit => BBInv
<1> SUFFICES ASSUME BBInit PROVE BBInv
  OBVIOUS
<1>1. BBTypeOK
  <2>1. \A t \in Threads : 0 <= Len(Code(t)) + (IF t \in Customers THEN 1 ELSE 0)
    BY Lengths DEF Threads
  <2>2. sem \in [Sems -> Nat]
    BY arg_parser DEF BBInit
  <2> QED BY <2>1, <2>2 DEF BBInit, BBTypeOK
<1>2. ASSUME NEW T \in SUBSET Threads, NEW a \in 1 .. 12, NEW b \in 1 .. 12
      PROVE  Count(T, a, b) = 0
  <2>1. At(T, a, b) = {}
    BY DEF At, BBInit
  <2> QED BY <2>1, FS_EmptySet DEF Count
<1>3. /\ Count(Cooks, 4, 4) = 0
      /\ Count(Cooks, 3, 5) = 0
      /\ Count(Cooks, 2, 6) = 0
      /\ Count(Cashiers, 3, 3) = 0
      /\ Count(Cashiers, 7, 7) = 0
      /\ Count(Cashiers, 6, 10) = 0
      /\ Count(Cashiers, 5, 9) = 0
      /\ Count(Cashiers, 2, 8) = 0
      /\ Count(Customers, 3, 3) = 0
      /\ Count(Customers, 2, 5) = 0
      /\ Count(Customers, 8, 11) = 0
      /\ Count(Customers, 5, 6) = 0
      /\ Count(Customers, 10, 12) = 0
  BY <1>2, Kinds
<1>4. /\ sem["mutex_print"] = 1
      /\ sem["mutex_rack"] = 1
      /\ sem["mutex_entry"] = 1
      /\ sem["mutex_leave"] = 1
      /\ sem["empty_rack"] = rack_num
      /\ sem["burger_num"] = 0
      /\ sem["order_num"] = 0
      /\ sem["provide_num"] = 0
  BY DEF BBInit, Sems, Mutexes
<1>5. Books
  BY <1>3, <1>4, arg_parser DEF Books, PrintBook, RackBook, EntryBook, LeaveBook, RackConserved,
                     OrdersMatched
<1>6. LoadedOK
  BY Kinds DEF LoadedOK, BBInit
<1>7. LeavesCounted
  BY <1>3 DEF LeavesCounted, BBInit
<1> QED BY <1>1, <1>5, <1>6, <1>7 DEF BBInv

\* The books balance and the customers' count is right for every number of
\* threads and places (BurgerBuddies.c:60-150).
THEOREM BooksInductive == BBSpec => []BBInv
<1>1. BBInv /\ [BBNext]_bbVars => BBInv'
  <2> SUFFICES ASSUME BBInv, [BBNext]_bbVars PROVE BBInv'
    OBVIOUS
  <2>1. ASSUME NEW t \in Threads, ThreadStep(t) PROVE BBInv'
    <3>1. CASE t \in Cooks
      BY <2>1, <3>1, CookTable, CookKeeps DEF BBInv
    <3>2. CASE t \in Cashiers
      BY <2>1, <3>2, CashierTable, CashierKeeps DEF BBInv
    <3>3. CASE t \in Customers
      BY <2>1, <3>3, CustomerTable, CustomerMeetsKeeps, CustomerLeavesKeeps DEF BBInv
    <3> QED BY <3>1, <3>2, <3>3 DEF Threads
  <2>2. ASSUME NEW t \in Threads, thread_create(t) PROVE BBInv'
    BY <2>2, CreateKeeps
  <2>3. CASE thread_create_fails \/ ReadTerminateSignal \/ main_returns \/ UNCHANGED bbVars
    BY <2>3, MainKeeps
  <2> QED BY <2>1, <2>2, <2>3 DEF BBNext
<1> QED BY InitKeeps, <1>1, PTL DEF BBSpec

-----------------------------------------------------------------------------
(* The properties.                                                         *)

\* A mutex is 1 less the threads between its wait and its post.
LEMMA HoldersCounted ==
  ASSUME BBTypeOK, Books
  PROVE  MutualExclusion
<1>1. ASSUME NEW S, NEW T, IsFiniteSet(S), IsFiniteSet(T), S \cap T = {}
      PROVE  IsFiniteSet(S \cup T) /\ Cardinality(S \cup T) = Cardinality(S) + Cardinality(T)
  <2>1. Cardinality(S \cap T) = 0
    BY <1>1, FS_EmptySet
  <2>2. Cardinality(S) \in Nat /\ Cardinality(T) \in Nat
    BY <1>1, FS_CardinalityType
  <2>3. /\ IsFiniteSet(S \cup T)
        /\ Cardinality(S \cup T) = Cardinality(S) + Cardinality(T) - Cardinality(S \cap T)
    BY <1>1, FS_Union, Zenon
  <2> QED BY <2>1, <2>2, <2>3
<1>2. /\ \A a, b \in Nat : IsFiniteSet(At(Cooks, a, b)) /\ At(Cooks, a, b) \in SUBSET Cooks
      /\ \A a, b \in Nat : IsFiniteSet(At(Cashiers, a, b)) /\ At(Cashiers, a, b) \in SUBSET Cashiers
      /\ \A a, b \in Nat : IsFiniteSet(At(Customers, a, b)) /\ At(Customers, a, b) \in SUBSET Customers
  <2>1. \A a, b \in Nat : /\ IsFiniteSet(At(Cooks, a, b)) /\ IsFiniteSet(At(Cashiers, a, b))
                          /\ IsFiniteSet(At(Customers, a, b))
    BY Kinds, CountType
  <2> QED BY <2>1 DEF At
<1>3. sem["mutex_print"] + Cardinality(Holders("mutex_print")) = 1
  <2> DEFINE A == At(Cooks, 4, 4)  B == At(Cashiers, 3, 3)  C == At(Cashiers, 7, 7)
             D == At(Customers, 3, 3)
  <2>1. IsFiniteSet(A) /\ IsFiniteSet(B) /\ IsFiniteSet(C) /\ IsFiniteSet(D)
    BY <1>2
  <2>2. B \cap C = {}
    BY DEF At
  <2>3. A \cap B = {} /\ (A \cup B) \cap C = {} /\ (A \cup B \cup C) \cap D = {}
    BY <1>2, <2>2, Kinds
  <2> HIDE DEF A, B, C, D
  <2>4. IsFiniteSet(A \cup B) /\ Cardinality(A \cup B) = Cardinality(A) + Cardinality(B)
    BY <1>1, <2>1, <2>3
  <2>5. IsFiniteSet(A \cup B \cup C)
        /\ Cardinality(A \cup B \cup C) = Cardinality(A \cup B) + Cardinality(C)
    BY <1>1, <2>1, <2>3, <2>4
  <2>6. Cardinality(A \cup B \cup C \cup D) = Cardinality(A \cup B \cup C) + Cardinality(D)
    BY <1>1, <2>1, <2>3, <2>5
  <2>7. Holders("mutex_print") = A \cup B \cup C \cup D
    BY DEF Holders, A, B, C, D
  <2>8. /\ Cardinality(A) = Count(Cooks, 4, 4) /\ Cardinality(B) = Count(Cashiers, 3, 3)
        /\ Cardinality(C) = Count(Cashiers, 7, 7) /\ Cardinality(D) = Count(Customers, 3, 3)
    BY DEF Count, A, B, C, D
  <2>9. Cardinality(Holders("mutex_print"))
        = Count(Cooks, 4, 4) + Count(Cashiers, 3, 3) + Count(Cashiers, 7, 7) + Count(Customers, 3, 3)
    BY <2>4, <2>5, <2>6, <2>7, <2>8, Zenon
  <2> QED BY <2>9, CountTypes, SemTypes DEF Books, PrintBook
<1>4. sem["mutex_rack"] + Cardinality(Holders("mutex_rack")) = 1
  <2>1. At(Cooks, 3, 5) \cap At(Cashiers, 6, 10) = {}
    BY <1>2, Kinds
  <2>2. Cardinality(At(Cooks, 3, 5) \cup At(Cashiers, 6, 10)) = Count(Cooks, 3, 5) + Count(Cashiers, 6, 10)
    <3>1. IsFiniteSet(At(Cooks, 3, 5)) /\ IsFiniteSet(At(Cashiers, 6, 10))
      BY <1>2
    <3> QED BY <1>1, <2>1, <3>1, Zenon DEF Count
  <2>3. Holders("mutex_rack") = At(Cooks, 3, 5) \cup At(Cashiers, 6, 10)
    BY DEF Holders
  <2>4. Cardinality(Holders("mutex_rack")) = Count(Cooks, 3, 5) + Count(Cashiers, 6, 10)
    BY <2>2, <2>3, Zenon
  <2> QED BY <2>4, CountTypes, SemTypes DEF Books, RackBook
<1>5. sem["mutex_entry"] + Cardinality(Holders("mutex_entry")) = 1
  BY DEF Holders, Books, EntryBook, Count
<1>6. sem["mutex_leave"] + Cardinality(Holders("mutex_leave")) = 1
  BY DEF Holders, Books, LeaveBook, Count
<1> QED BY <1>3, <1>4, <1>5, <1>6 DEF MutualExclusion, Mutexes

\* The semaphores' books agree: at most one thread holds a mutex, no place on
\* the rack and no order is lost (cook_func, cashier_func and custom_func).
THEOREM BooksBalance == BBSpec => []Consistent
<1>1. BBInv => Consistent
  BY HoldersCounted DEF BBInv, Books, Consistent
<1> QED BY BooksInductive, <1>1, PTL

\* main creates until all are, and leaves before only if it cannot.
CreationInv ==
  /\ main = "create" => \E t \in Threads : ~Created(t)
  /\ main = "exit" => terminate_signal = 1 \/ \E t \in Threads : ~Created(t)

\* A thread that runs has been created.
LEMMA RunningIsCreated ==
  ASSUME NEW t \in Threads, Runs(t)
  PROVE  Created(t)
<1>1. 0 \notin DOMAIN Code(t)
  BY DEF Code, cook_func, cashier_func, custom_func
<1> QED BY <1>1 DEF Runs, Created

LEMMA CreationStep ==
  ASSUME BBInv, CreationInv, [BBNext]_bbVars
  PROVE  CreationInv'
<1>1. ASSUME NEW t \in Threads, ThreadStep(t) PROVE CreationInv'
  <2>1. /\ Runs(t) /\ Advance(t) /\ main' = main
        /\ terminate_signal = 1 => terminate_signal' = 1
    BY <1>1 DEF ThreadStep, sem_wait, sem_post, LoadLeftNum, StoreLeftNum, CheckLeftNum
  <2>2. \A u \in Threads : ~Created(u) => ~Created(u)'
    BY <2>1, RunningIsCreated DEF Advance, Created, BBInv, BBTypeOK
  <2> QED BY <2>1, <2>2 DEF CreationInv
<1>2. ASSUME NEW t \in Threads, thread_create(t) PROVE CreationInv'
  <2>1. /\ ip' = [ip EXCEPT ![t] = 1]
        /\ main' = IF \A u \in Threads \ {t} : Created(u) THEN "loop" ELSE "create"
    BY <1>2 DEF thread_create
  <2>2. ASSUME NEW u \in Threads \ {t}, ~Created(u) PROVE ~Created(u)'
    BY <2>1, <2>2 DEF Created, BBInv, BBTypeOK
  <2> QED BY <2>1, <2>2 DEF CreationInv
<1>3. CASE thread_create_fails
  BY <1>3 DEF thread_create_fails, CreationInv, Created
<1>4. CASE ReadTerminateSignal
  BY <1>4 DEF ReadTerminateSignal, CreationInv, Created
<1>5. CASE main_returns
  BY <1>5 DEF main_returns, CreationInv, Created, BBInv, LeavesCounted
<1>6. CASE UNCHANGED bbVars
  BY <1>6 DEF bbVars, CreationInv, Created
<1> QED BY <1>1, <1>2, <1>3, <1>4, <1>5, <1>6 DEF BBNext

\* left_num counts the customers who have left although left_num++ is a load
\* and a store, main is told to end by the last one (custom_func), and it does
\* not end before but for a thread it could not create (thread_create).
THEOREM LastEndsMain == BBSpec => []LastCustomerEndsMain
<1>1. BBInit => CreationInv
  <2> SUFFICES ASSUME BBInit PROVE CreationInv
    OBVIOUS
  <2>1. PICK t \in Customers : TRUE
    BY arg_parser
  <2>2. t \in Threads /\ ~Created(t) /\ main = "create"
    BY DEF BBInit, Threads, Created
  <2> QED BY <2>2 DEF CreationInv
<1>2. BBInv /\ CreationInv /\ [BBNext]_bbVars => CreationInv'
  BY CreationStep
<1>3. BBInv /\ CreationInv => LastCustomerEndsMain
  <2> SUFFICES ASSUME BBInv, CreationInv PROVE LastCustomerEndsMain
    OBVIOUS
  <2>1. ASSUME terminate_signal = 1, NEW c \in Customers PROVE ~(ip[c] < 10)
    <3>1. ip[c] >= 10 /\ ip[c] \in 0 .. 12
      BY <2>1, Kinds DEF BBInv, LeavesCounted, BBTypeOK, Threads
    <3> QED BY <3>1
  <2> QED BY <2>1 DEF CreationInv, BBInv, LastCustomerEndsMain
<1> QED BY BooksInductive, <1>1, <1>2, <1>3, PTL DEF BBSpec
=============================================================================
