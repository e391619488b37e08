----------------------------- MODULE DataProofs -----------------------------
(***************************************************************************)
(* Facts about data that the proofs of several modules cite: what the      *)
(* operations on a list without duplicates preserve, sums over sets, and   *)
(* the runs of a loop whose body may do several things.                    *)
(***************************************************************************)
EXTENDS LinkedList, WellFoundedInduction, FiniteSetTheorems, TLAPS

-----------------------------------------------------------------------------
(* Lists. *)

\* The entries of a list are its elements at positions 1 to its length.
LEMMA LinkedIsElement ==
  ASSUME NEW S, NEW s \in Seq(S), NEW e
  PROVE  /\ Linked(e, s) <=> \E i \in 1 .. Len(s) : s[i] = e
         /\ Range(s) \subseteq S
BY DEF Linked, Range

\* list_del_init takes one entry off and leaves the others.
LEMMA ListDel ==
  ASSUME NEW S, NEW s \in Seq(S), NoDuplicates(s), NEW e \in Range(s)
  PROVE  /\ list_del_init(e, s) \in Seq(S)
         /\ Len(list_del_init(e, s)) = Len(s) - 1
         /\ NoDuplicates(list_del_init(e, s))
         /\ Range(list_del_init(e, s)) = Range(s) \ {e}
<1> DEFINE i == CHOOSE j \in 1 .. Len(s) : s[j] = e
           r == list_del_init(e, s)
<1>1. i \in 1 .. Len(s) /\ s[i] = e
  BY DEF Range
<1>2. r = [j \in 1 .. (Len(s) - 1) |-> IF j < i THEN s[j] ELSE s[j+1]]
  BY DEF list_del_init
<1> HIDE DEF i, r
<1>3. Len(s) \in Nat /\ Len(s) - 1 \in Nat
  BY <1>1
<1>4. \A j \in 1 .. (Len(s) - 1) : r[j] \in S
  BY <1>1, <1>2, <1>3
<1>5. r \in Seq(S) /\ Len(r) = Len(s) - 1 /\ DOMAIN r = 1 .. (Len(s) - 1)
  BY <1>2, <1>3, <1>4
<1>6. NoDuplicates(r)
  BY <1>1, <1>2, <1>3, <1>5 DEF NoDuplicates
<1>7. Range(r) \subseteq Range(s) \ {e}
  BY <1>1, <1>2, <1>3, <1>5 DEF NoDuplicates, Range
<1>8. ASSUME NEW x \in Range(s) \ {e} PROVE x \in Range(r)
  <2>1. PICK k \in 1 .. Len(s) : s[k] = x /\ k # i
    BY <1>1 DEF Range
  <2>2. CASE k < i
    <3>1. k \in 1 .. (Len(s) - 1) /\ r[k] = x
      BY <1>1, <1>2, <1>3, <2>1, <2>2
    <3> QED  BY <3>1, <1>5 DEF Range
  <2>3. CASE k > i
    <3>1. k - 1 \in 1 .. (Len(s) - 1) /\ r[k - 1] = x
      BY <1>1, <1>2, <1>3, <2>1, <2>3
    <3> QED  BY <3>1, <1>5 DEF Range
  <2> QED  BY <1>1, <2>1, <2>2, <2>3
<1> QED  BY <1>5, <1>6, <1>7, <1>8 DEF r

\* list_add puts one entry on, at the head.
LEMMA ListAdd ==
  ASSUME NEW S, NEW s \in Seq(S), NoDuplicates(s), NEW e \in S, e \notin Range(s)
  PROVE  /\ list_add(e, s) \in Seq(S)
         /\ Len(list_add(e, s)) = Len(s) + 1
         /\ NoDuplicates(list_add(e, s))
         /\ Range(list_add(e, s)) = Range(s) \cup {e}
<1> DEFINE r == <<e>> \o s
<1>1. /\ Len(s) \in Nat
      /\ r \in Seq(S) /\ Len(r) = Len(s) + 1 /\ r[1] = e
      /\ \A i \in 1 .. Len(s) : r[i + 1] = s[i]
  OBVIOUS
<1> HIDE DEF r
<1>2. \A j \in 2 .. Len(r) : j - 1 \in 1 .. Len(s) /\ r[j] = s[j - 1]
  BY <1>1
<1>3. \A k \in 1 .. Len(s) : s[k] # e
  BY DEF Range
<1>4. \A j \in 2 .. Len(r) : r[j] # e
  BY <1>2, <1>3
<1>5. ASSUME NEW j \in 1 .. Len(r), NEW k \in 1 .. Len(r), r[j] = r[k]
      PROVE  j = k
  <2>1. CASE j = 1
    BY <1>1, <1>4, <1>5, <2>1
  <2>2. CASE k = 1
    BY <1>1, <1>4, <1>5, <2>2
  <2>3. CASE j # 1 /\ k # 1
    <3>1. j \in 2 .. Len(r) /\ k \in 2 .. Len(r)
      BY <1>1, <2>3
    <3>2. s[j - 1] = s[k - 1] /\ j - 1 \in 1 .. Len(s) /\ k - 1 \in 1 .. Len(s)
      BY <1>2, <1>5, <3>1
    <3>3. j - 1 = k - 1
      BY <3>2 DEF NoDuplicates
    <3> QED  BY <3>3
  <2> QED  BY <2>1, <2>2, <2>3
<1>6. NoDuplicates(r)
  BY <1>5 DEF NoDuplicates
<1>7. Range(r) \subseteq Range(s) \cup {e}
  <2>1. ASSUME NEW j \in 1 .. Len(r) PROVE r[j] \in Range(s) \cup {e}
    <3>1. CASE j = 1
      BY <1>1, <3>1
    <3>2. CASE j \in 2 .. Len(r)
      BY <1>2, <3>2 DEF Range
    <3> QED  BY <1>1, <3>1, <3>2
  <2> QED  BY <1>1, <2>1 DEF Range
<1>8. Range(s) \cup {e} \subseteq Range(r)
  BY <1>1 DEF Range
<1> QED  BY <1>1, <1>6, <1>7, <1>8 DEF r, list_add

\* list_add_tail puts one entry on, at the tail.
LEMMA ListAddTail ==
  ASSUME NEW S, NEW s \in Seq(S), NoDuplicates(s), NEW e \in S, e \notin Range(s)
  PROVE  /\ list_add_tail(e, s) \in Seq(S)
         /\ Len(list_add_tail(e, s)) = Len(s) + 1
         /\ NoDuplicates(list_add_tail(e, s))
         /\ Range(list_add_tail(e, s)) = Range(s) \cup {e}
<1> DEFINE r == Append(s, e)
<1>1. r \in Seq(S) /\ Len(r) = Len(s) + 1 /\ r[Len(s) + 1] = e
      /\ \A i \in 1 .. Len(s) : r[i] = s[i]
  OBVIOUS
<1> HIDE DEF r
<1>2. NoDuplicates(r)
  BY <1>1 DEF NoDuplicates, Range
<1>3. Range(r) \subseteq Range(s) \cup {e}
  BY <1>1 DEF Range
<1>4. Range(s) \cup {e} \subseteq Range(r)
  BY <1>1 DEF Range
<1> QED  BY <1>1, <1>2, <1>3, <1>4 DEF r, list_add_tail

\* Insert puts one entry on, at either end.
LEMMA ListInsert ==
  ASSUME NEW S, NEW s \in Seq(S), NoDuplicates(s), NEW e \in S, e \notin Range(s),
         NEW head \in BOOLEAN
  PROVE  /\ Insert(e, s, head) \in Seq(S)
         /\ Len(Insert(e, s, head)) = Len(s) + 1
         /\ NoDuplicates(Insert(e, s, head))
         /\ Range(Insert(e, s, head)) = Range(s) \cup {e}
<1>1. CASE head
  <2>1. Insert(e, s, head) = list_add(e, s)
    BY <1>1 DEF Insert
  <2> QED  BY <2>1, ListAdd
<1>2. CASE ~head
  <2>1. Insert(e, s, head) = list_add_tail(e, s)
    BY <1>2 DEF Insert
  <2> QED  BY <2>1, ListAddTail
<1> QED  BY <1>1, <1>2

\* list_move_tail keeps the entries.
LEMMA ListMoveTail ==
  ASSUME NEW S, NEW s \in Seq(S), NoDuplicates(s), NEW e \in Range(s)
  PROVE  /\ list_move_tail(e, s) \in Seq(S)
         /\ Len(list_move_tail(e, s)) = Len(s)
         /\ NoDuplicates(list_move_tail(e, s))
         /\ Range(list_move_tail(e, s)) = Range(s)
<1> DEFINE r == list_del_init(e, s)
<1>1. r \in Seq(S) /\ Len(r) = Len(s) - 1 /\ NoDuplicates(r) /\ Range(r) = Range(s) \ {e}
  BY ListDel
<1>2. e \in S
  BY LinkedIsElement
<1>3. list_move_tail(e, s) = list_add_tail(e, r)
  BY DEF list_move_tail
<1> HIDE DEF r
<1>4. e \notin Range(r)
  BY <1>1
<1>5. /\ list_add_tail(e, r) \in Seq(S)
      /\ Len(list_add_tail(e, r)) = Len(r) + 1
      /\ NoDuplicates(list_add_tail(e, r))
      /\ Range(list_add_tail(e, r)) = Range(r) \cup {e}
  BY <1>1, <1>2, <1>4, ListAddTail
<1>6. Len(s) \in Nat
  OBVIOUS
<1> QED  BY <1>1, <1>3, <1>5, <1>6

\* A set of natural numbers has a least element: sched_find_first_bit finds a bit
\* whenever one is set, a scan of a list meets somebody first.
LEMMA LeastElement ==
  ASSUME NEW B \in SUBSET Nat, B # {}
  PROVE  \E i \in B : \A j \in B : i <= j
<1> DEFINE R == OpToRel(<, Nat)
<1>1. IsWellFoundedOn(R, Nat)
  BY NatLessThanWellFounded
<1>2. \A x, y \in Nat : <<y, x>> \in R <=> y < x
  BY DEF OpToRel
<1> HIDE DEF R
<1>3. PICK x \in B : \A y \in B : ~ (<<y, x>> \in R)
  BY <1>1, WFMin
<1>4. ASSUME NEW y \in B PROVE x <= y
  <2>1. x \in Nat /\ y \in Nat
    OBVIOUS
  <2>2. ~ (y < x)
    BY <1>2, <1>3, <2>1
  <2> QED  BY <2>1, <2>2
<1> QED  BY <1>4

\* Of the entries that are looked for, one comes before the others.
LEMMA FirstOnList ==
  ASSUME NEW S, NEW s \in Seq(S), NoDuplicates(s), NEW X, X \cap Range(s) # {}
  PROVE  \E e \in X \cap Range(s) : \A x \in X : ~Ahead(x, e, s)
<1> DEFINE B == {i \in 1 .. Len(s) : s[i] \in X}
<1>1. B \in SUBSET Nat /\ B # {}
  BY DEF Range
<1>2. PICK i \in B : \A j \in B : i <= j
  BY <1>1, LeastElement
<1>3. s[i] \in X \cap Range(s)
  BY <1>2 DEF Range
<1>4. ASSUME NEW x \in X, Ahead(x, s[i], s) PROVE FALSE
  <2>1. PICK j, k \in 1 .. Len(s) : j < k /\ s[j] = x /\ s[k] = s[i]
    BY <1>4 DEF Ahead
  <2>2. k = i /\ j \in B
    BY <1>2, <2>1 DEF NoDuplicates
  <2> QED  BY <1>2, <2>1, <2>2
<1> QED  BY <1>3, <1>4

-----------------------------------------------------------------------------
(* Induction over the subsets of a set, and sums over sets. *)

\* What holds of the empty set, and of a set if of those with one element less,
\* holds of all subsets of a finite set.  Good is the set of those of which it
\* holds, for a property cannot be a parameter.
LEMMA SubsetInduction ==
  ASSUME NEW S, IsFiniteSet(S), NEW Good,
         \A T \in SUBSET S : (T # {} => \A x \in T : T \ {x} \in Good) => T \in Good
  PROVE  \A T \in SUBSET S : T \in Good
<1> DEFINE Bad == {T \in SUBSET S : T \notin Good}
           Sizes == {Cardinality(T) : T \in Bad}
<1>1. \A T \in SUBSET S : IsFiniteSet(T) /\ Cardinality(T) \in Nat
  BY FS_Subset, FS_CardinalityType
<1>2. SUFFICES ASSUME Bad # {} PROVE FALSE
  OBVIOUS
<1>3. Sizes \in SUBSET Nat /\ Sizes # {}
  BY <1>1, <1>2
<1>4. PICK n \in Sizes : \A m \in Sizes : n <= m
  BY <1>3, LeastElement
<1>5. PICK T \in Bad : Cardinality(T) = n
  BY <1>4
<1>6. ASSUME NEW x \in T PROVE T \ {x} \in Good
  <2>1. Cardinality(T \ {x}) = n - 1
    BY <1>1, <1>5, FS_RemoveElement
  <2>2. T \ {x} \in SUBSET S
    BY <1>5
  <2>3. n \in Nat
    BY <1>3
  <2> QED BY <1>4, <2>1, <2>2, <2>3
<1> QED BY <1>5, <1>6

Chosen(s) == CHOOSE x \in s : TRUE
Sums(F, S, sum) ==
  sum = [s \in SUBSET S |-> IF s = {} THEN 0 ELSE F[Chosen(s)] + sum[s \ {Chosen(s)}]]

\* SumFunctionOnSet is recursive; this says that it is about some function ...
LEMMA SumDef ==
  ASSUME NEW F, NEW S
  PROVE  SumFunctionOnSet(F, S) = (CHOOSE sum : Sums(F, S, sum))[S]
BY DEF SumFunctionOnSet, FoldFunctionOnSet, MapThenFoldSet, Sums, Chosen

\* ... there is one ...
LEMMA SumExists ==
  ASSUME NEW F, NEW S, IsFiniteSet(S)
  PROVE  \E sum : Sums(F, S, sum)
<1> DEFINE Below(n) == {s \in SUBSET S : Cardinality(s) <= n}
           P(n, f) == f = [s \in Below(n) |->
                             IF s = {} THEN 0 ELSE F[Chosen(s)] + f[s \ {Chosen(s)}]]
           Bad == {n \in Nat : ~ \E f : P(n, f)}
<1>1. \A T \in SUBSET S : IsFiniteSet(T) /\ Cardinality(T) \in Nat /\ Cardinality(T) <= Cardinality(S)
  BY FS_Subset, FS_CardinalityType
<1>2. \A n \in Nat : \E f : P(n, f)
  <2> SUFFICES ASSUME Bad # {} PROVE FALSE
    OBVIOUS
  <2>1. PICK n \in Bad : \A m \in Bad : n <= m
    <3>1. Bad \in SUBSET Nat
      OBVIOUS
    <3> QED BY <3>1, LeastElement
  <2>2. n # 0
    <3>1. Below(0) = {{}}
      BY <1>1, FS_EmptySet
    <3>2. P(0, [s \in {{}} |-> 0])
      BY <3>1
    <3>3. 0 \notin Bad
      <4> HIDE DEF P
      <4> QED BY <3>2
    <3> QED BY <2>1, <3>3
  <2>3. n \in Nat /\ n - 1 \in Nat /\ n - 1 \notin Bad
    <3>1. n \in Nat
      OBVIOUS
    <3> HIDE DEF Bad
    <3> QED BY <2>1, <2>2, <3>1
  <2>4. PICK f : P(n - 1, f)
    BY <2>3
  <2> DEFINE g == [s \in Below(n) |-> IF s = {} THEN 0 ELSE F[Chosen(s)] + f[s \ {Chosen(s)}]]
  <2>5. ASSUME NEW s \in Below(n), s # {} PROVE s \ {Chosen(s)} \in Below(n - 1)
    <3>1. Chosen(s) \in s
      BY <2>5 DEF Chosen
    <3>2. Cardinality(s \ {Chosen(s)}) = Cardinality(s) - 1
      BY <1>1, <3>1, FS_RemoveElement
    <3> QED BY <1>1, <2>3, <3>2
  <2>6. ASSUME NEW s \in Below(n - 1) PROVE s \in Below(n) /\ g[s] = f[s]
    <3>1. s \in Below(n)
      BY <1>1, <2>3
    <3>2. f[s] = IF s = {} THEN 0 ELSE F[Chosen(s)] + f[s \ {Chosen(s)}]
      BY <2>4
    <3> QED BY <3>1, <3>2
  <2>7. P(n, g)
    <3>1. ASSUME NEW s \in Below(n)
          PROVE  g[s] = IF s = {} THEN 0 ELSE F[Chosen(s)] + g[s \ {Chosen(s)}]
      <4> HIDE DEF Below
      <4> QED BY <2>5, <2>6
    <3> HIDE DEF Below
    <3> QED BY <3>1
  <2> QED BY <2>1, <2>7
<1>3. Below(Cardinality(S)) = SUBSET S
  BY <1>1
<1>4. Cardinality(S) \in Nat
  BY FS_CardinalityType
<1> QED BY <1>2, <1>3, <1>4 DEF Sums

\* ... and any two agree.
LEMMA SumsAgree ==
  ASSUME NEW F, NEW S, IsFiniteSet(S), NEW T \in SUBSET S,
         NEW f, Sums(F, S, f), NEW g, Sums(F, T, g)
  PROVE  g[T] = f[T]
<1> DEFINE Good == {U \in SUBSET T : g[U] = f[U]}
<1>1. IsFiniteSet(T)
  BY FS_Subset
<1>2. ASSUME NEW U \in SUBSET T, U # {} => \A x \in U : U \ {x} \in Good PROVE U \in Good
  <2>1. f[U] = IF U = {} THEN 0 ELSE F[Chosen(U)] + f[U \ {Chosen(U)}]
    BY DEF Sums
  <2>2. g[U] = IF U = {} THEN 0 ELSE F[Chosen(U)] + g[U \ {Chosen(U)}]
    BY DEF Sums
  <2>3. U # {} => Chosen(U) \in U
    BY DEF Chosen
  <2> QED BY <1>2, <2>1, <2>2, <2>3
<1>3. \A U \in SUBSET T : U \in Good
  <2> HIDE DEF Good
  <2> QED BY <1>1, <1>2, SubsetInduction
<1> QED BY <1>3

\* So a sum is that of one element and that of the others.
LEMMA SumStep ==
  ASSUME NEW F, NEW S, IsFiniteSet(S)
  PROVE  SumFunctionOnSet(F, S) =
           IF S = {} THEN 0 ELSE F[Chosen(S)] + SumFunctionOnSet(F, S \ {Chosen(S)})
<1> DEFINE f == CHOOSE sum : Sums(F, S, sum)
           T == S \ {Chosen(S)}
           g == CHOOSE sum : Sums(F, T, sum)
<1>1. IsFiniteSet(T)
  BY FS_Subset
<1>2. Sums(F, S, f) /\ Sums(F, T, g)
  BY <1>1, SumExists
<1>3. SumFunctionOnSet(F, S) = f[S] /\ SumFunctionOnSet(F, T) = g[T]
  BY SumDef
<1>4. g[T] = f[T]
  <2> HIDE DEF f, g
  <2> QED BY <1>2, SumsAgree
<1>5. f[S] = IF S = {} THEN 0 ELSE F[Chosen(S)] + f[T]
  <2> HIDE DEF f
  <2> QED BY <1>2 DEF Sums
<1> QED BY <1>3, <1>4, <1>5

\* The sum of integers, or of naturals, is one.
LEMMA SumType ==
  ASSUME NEW F, NEW S, IsFiniteSet(S), \A x \in S : F[x] \in Int
  PROVE  /\ SumFunctionOnSet(F, S) \in Int
         /\ (\A x \in S : F[x] >= 0) => SumFunctionOnSet(F, S) >= 0
<1> DEFINE Good == {T \in SUBSET S : /\ SumFunctionOnSet(F, T) \in Int
                                     /\ (\A x \in S : F[x] >= 0) => SumFunctionOnSet(F, T) >= 0}
<1>1. ASSUME NEW T \in SUBSET S, T # {} => \A x \in T : T \ {x} \in Good PROVE T \in Good
  <2>1. IsFiniteSet(T)
    BY FS_Subset
  <2>2. SumFunctionOnSet(F, T) =
          IF T = {} THEN 0 ELSE F[Chosen(T)] + SumFunctionOnSet(F, T \ {Chosen(T)})
    BY <2>1, SumStep
  <2>3. T # {} => Chosen(T) \in T
    BY DEF Chosen
  <2> QED BY <1>1, <2>2, <2>3
<1>2. \A T \in SUBSET S : T \in Good
  <2> HIDE DEF Good
  <2> QED BY <1>1, SubsetInduction
<1> QED BY <1>2

\* Any element can be the one that is added last.
LEMMA SumRemove ==
  ASSUME NEW F, NEW S, IsFiniteSet(S), \A x \in S : F[x] \in Int, NEW e \in S
  PROVE  SumFunctionOnSet(F, S) = F[e] + SumFunctionOnSet(F, S \ {e})
<1> DEFINE Without(T, x) == SumFunctionOnSet(F, T) = F[x] + SumFunctionOnSet(F, T \ {x})
           Good == {T \in SUBSET S : \A x \in T : Without(T, x)}
<1>1. ASSUME NEW T \in SUBSET S, T # {} => \A x \in T : T \ {x} \in Good PROVE T \in Good
  <2> SUFFICES ASSUME NEW x \in T PROVE Without(T, x)
    OBVIOUS
  <2> DEFINE c == Chosen(T)
  <2>1. IsFiniteSet(T) /\ c \in T
    BY FS_Subset DEF Chosen
  <2>2. Without(T, c)
    BY <2>1, SumStep
  <2>3. CASE x = c
    BY <2>2, <2>3
  <2>4. CASE x # c
    <3> DEFINE U == T \ {c, x}
    <3>1. T \ {c} \in Good /\ T \ {x} \in Good
      BY <1>1, <2>1
    <3>2. (T \ {c}) \ {x} = U /\ (T \ {x}) \ {c} = U /\ x \in T \ {c} /\ c \in T \ {x}
      BY <2>1, <2>4
    <3>3. Without(T \ {c}, x) /\ Without(T \ {x}, c)
      BY <3>1, <3>2
    <3>4. SumFunctionOnSet(F, U) \in Int /\ F[x] \in Int /\ F[c] \in Int
      <4>1. IsFiniteSet(U)
        BY FS_Subset
      <4> QED BY <2>1, <4>1, SumType
    <3>5. SumFunctionOnSet(F, T \ {c}) = F[x] + SumFunctionOnSet(F, U)
      <4> HIDE DEF c, U
      <4> QED BY <3>2, <3>3, Zenon
    <3>6. SumFunctionOnSet(F, T \ {x}) = F[c] + SumFunctionOnSet(F, U)
      <4> HIDE DEF c, U
      <4> QED BY <3>2, <3>3, Zenon
    <3> HIDE DEF c, U
    <3> QED BY <2>2, <3>4, <3>5, <3>6
  <2> QED BY <2>3, <2>4
<1>2. \A T \in SUBSET S : T \in Good
  <2> HIDE DEF Good
  <2> QED BY <1>1, SubsetInduction
<1> QED BY <1>2

\* Only the values of the elements count.
LEMMA SumSame ==
  ASSUME NEW F, NEW G, NEW S, IsFiniteSet(S), \A x \in S : F[x] = G[x]
  PROVE  SumFunctionOnSet(F, S) = SumFunctionOnSet(G, S)
<1> DEFINE Good == {T \in SUBSET S : SumFunctionOnSet(F, T) = SumFunctionOnSet(G, T)}
<1>1. ASSUME NEW T \in SUBSET S, T # {} => \A x \in T : T \ {x} \in Good PROVE T \in Good
  <2>1. IsFiniteSet(T)
    BY FS_Subset
  <2>2. SumFunctionOnSet(F, T) =
          IF T = {} THEN 0 ELSE F[Chosen(T)] + SumFunctionOnSet(F, T \ {Chosen(T)})
    BY <2>1, SumStep
  <2>3. SumFunctionOnSet(G, T) =
          IF T = {} THEN 0 ELSE G[Chosen(T)] + SumFunctionOnSet(G, T \ {Chosen(T)})
    BY <2>1, SumStep
  <2>4. T # {} => Chosen(T) \in T
    BY DEF Chosen
  <2> QED BY <1>1, <2>2, <2>3, <2>4
<1>2. \A T \in SUBSET S : T \in Good
  <2> HIDE DEF Good
  <2> QED BY <1>1, SubsetInduction
<1> QED BY <1>2

\* A sum changes as the one value does that changes.
LEMMA SumChange ==
  ASSUME NEW F, NEW G, NEW S, IsFiniteSet(S), NEW e \in S,
         \A x \in S : F[x] \in Int /\ G[x] \in Int,
         \A x \in S \ {e} : F[x] = G[x]
  PROVE  SumFunctionOnSet(G, S) = SumFunctionOnSet(F, S) - F[e] + G[e]
<1> DEFINE T == S \ {e}
<1>1. IsFiniteSet(T)
  BY FS_Subset
<1>2. SumFunctionOnSet(F, T) = SumFunctionOnSet(G, T) /\ SumFunctionOnSet(F, T) \in Int
  BY <1>1, SumSame, SumType
<1>3. SumFunctionOnSet(F, S) = F[e] + SumFunctionOnSet(F, T)
  BY SumRemove
<1>4. SumFunctionOnSet(G, S) = G[e] + SumFunctionOnSet(G, T)
  BY SumRemove
<1> QED BY <1>2, <1>3, <1>4

\* Zeros add up to zero.
LEMMA SumZero ==
  ASSUME NEW F, NEW S, IsFiniteSet(S), \A x \in S : F[x] = 0
  PROVE  SumFunctionOnSet(F, S) = 0
<1> DEFINE Good == {T \in SUBSET S : SumFunctionOnSet(F, T) = 0}
<1>1. ASSUME NEW T \in SUBSET S, T # {} => \A x \in T : T \ {x} \in Good PROVE T \in Good
  <2>1. IsFiniteSet(T)
    BY FS_Subset
  <2>2. SumFunctionOnSet(F, T) =
          IF T = {} THEN 0 ELSE F[Chosen(T)] + SumFunctionOnSet(F, T \ {Chosen(T)})
    BY <2>1, SumStep
  <2>4. T # {} => Chosen(T) \in T
    BY DEF Chosen
  <2> QED BY <1>1, <2>2, <2>4
<1>2. \A T \in SUBSET S : T \in Good
  <2> HIDE DEF Good
  <2> QED BY <1>1, SubsetInduction
<1> QED BY <1>2

\* Equal values add up to a multiple.
LEMMA SumConst ==
  ASSUME NEW F, NEW S, IsFiniteSet(S), NEW k \in Int, \A x \in S : F[x] = k
  PROVE  SumFunctionOnSet(F, S) = Cardinality(S) * k
<1> DEFINE Good == {T \in SUBSET S : SumFunctionOnSet(F, T) = Cardinality(T) * k}
<1>1. ASSUME NEW T \in SUBSET S, T # {} => \A x \in T : T \ {x} \in Good PROVE T \in Good
  <2>1. IsFiniteSet(T)
    BY FS_Subset
  <2>2. SumFunctionOnSet(F, T) =
          IF T = {} THEN 0 ELSE F[Chosen(T)] + SumFunctionOnSet(F, T \ {Chosen(T)})
    BY <2>1, SumStep
  <2>3. CASE T = {}
    BY <2>2, <2>3, FS_EmptySet
  <2>4. CASE T # {}
    <3> DEFINE x == Chosen(T)
    <3>1. x \in T
      BY <2>4 DEF Chosen
    <3>2. SumFunctionOnSet(F, T \ {x}) = Cardinality(T \ {x}) * k
      BY <1>1, <2>4, <3>1
    <3>3. Cardinality(T \ {x}) = Cardinality(T) - 1 /\ Cardinality(T) \in Nat
      BY <2>1, <3>1, FS_RemoveElement, FS_CardinalityType
    <3>4. (Cardinality(T) - 1) * k = Cardinality(T) * k - k /\ Cardinality(T) * k \in Int
      BY <3>3
    <3>5. SumFunctionOnSet(F, T) = k + (Cardinality(T) * k - k)
      <4> HIDE DEF x
      <4> QED BY <2>2, <2>4, <3>1, <3>2, <3>3, <3>4 DEF x
    <3>6. SumFunctionOnSet(F, T) = Cardinality(T) * k
      BY <3>4, <3>5
    <3> QED BY <3>6
  <2> QED BY <2>3, <2>4
<1>2. \A T \in SUBSET S : T \in Good
  <2> HIDE DEF Good
  <2> QED BY <1>1, SubsetInduction
<1> QED BY <1>2

-----------------------------------------------------------------------------
(* Loops that count. *)

\* What holds at first, and after a pass if before it, holds all along.  Good is
\* the set of the counts at which it holds.
LEMMA Upwards ==
  ASSUME NEW n \in Nat, NEW Good, 0 \in Good, \A i \in 1 .. n : i - 1 \in Good => i \in Good
  PROVE  \A i \in 0 .. n : i \in Good
<1> DEFINE Bad == {i \in 0 .. n : i \notin Good}
<1>1. SUFFICES ASSUME Bad # {} PROVE FALSE
  OBVIOUS
<1>2. Bad \in SUBSET Nat
  OBVIOUS
<1>3. PICK i \in Bad : \A j \in Bad : i <= j
  <2> HIDE DEF Bad
  <2> QED BY <1>1, <1>2, LeastElement
<1>4. i \in 1 .. n /\ i - 1 \in 0 .. n
  BY <1>3
<1>5. i - 1 \notin Bad
  BY <1>2, <1>3, <1>4
<1> QED BY <1>3, <1>4, <1>5

\* What the passes of a loop of n passes do to a state in S, and the states that
\* it goes through.
Passes(S, n) == [0 .. n - 1 -> [S -> S]]
Iteration(S, n, first, Pass, f) ==
  f \in [0 .. n -> S] /\ f[0] = first /\ \A i \in 1 .. n : f[i] = Pass[i - 1][f[i - 1]]

\* It goes through some.
LEMMA Iterates ==
  ASSUME NEW S, NEW n \in Nat, NEW first \in S, NEW Pass \in Passes(S, n)
  PROVE  \E f : Iteration(S, n, first, Pass, f)
<1> DEFINE To(k, f) == Iteration(S, k, first, Pass, f)
           Good == {k \in 0 .. n : \E f : To(k, f)}
<1>1. 0 \in Good
  <2>1. To(0, [i \in 0 .. 0 |-> first])
    BY DEF Iteration
  <2> QED BY <2>1
<1>2. ASSUME NEW k \in 1 .. n, k - 1 \in Good PROVE k \in Good
  <2>1. PICK f : To(k - 1, f)
    BY <1>2
  <2>0. /\ f \in [0 .. k - 1 -> S] /\ f[0] = first
        /\ \A i \in 1 .. k - 1 : f[i] = Pass[i - 1][f[i - 1]]
    BY <2>1 DEF Iteration
  <2> DEFINE g == [i \in 0 .. k |-> IF i = k THEN Pass[k - 1][f[k - 1]] ELSE f[i]]
  <2>2. f[k - 1] \in S /\ k - 1 \in 0 .. n - 1
    BY <2>0
  <2>3. Pass[k - 1][f[k - 1]] \in S
    BY <2>2 DEF Passes
  <2>4. \A i \in 0 .. k - 1 : g[i] = f[i] /\ f[i] \in S
    BY <2>0
  <2>5. g[k] = Pass[k - 1][g[k - 1]]
    BY <2>4
  <2>6. To(k, g)
    <3>1. g \in [0 .. k -> S]
      <4>1. ASSUME NEW i \in 0 .. k
            PROVE  (IF i = k THEN Pass[k - 1][f[k - 1]] ELSE f[i]) \in S
        <5>1. CASE i = k
          BY <2>3, <5>1
        <5>2. CASE i # k
          <6>1. i \in 0 .. k - 1
            BY <5>2
          <6> QED BY <2>4, <5>2, <6>1
        <5> QED BY <5>1, <5>2
      <4> QED BY <4>1
    <3>2. g[0] = first
      BY <2>0, <2>4
    <3>3. ASSUME NEW i \in 1 .. k PROVE g[i] = Pass[i - 1][g[i - 1]]
      <4>1. CASE i = k
        BY <2>5, <4>1
      <4>2. CASE i # k
        <5>1. i \in 1 .. k - 1 /\ i \in 0 .. k - 1 /\ i - 1 \in 0 .. k - 1
          BY <4>2
        <5>2. g[i] = f[i] /\ g[i - 1] = f[i - 1]
          BY <2>4, <5>1
        <5>3. f[i] = Pass[i - 1][f[i - 1]]
          BY <2>0, <5>1
        <5> QED BY <5>2, <5>3
      <4> QED BY <4>1, <4>2
    <3> HIDE DEF g
    <3> QED BY <3>1, <3>2, <3>3 DEF Iteration
  <2> HIDE DEF g, To
  <2> QED BY <2>6
<1>3. n \in Good
  <2> HIDE DEF Good
  <2> QED BY <1>1, <1>2, Upwards
<1> QED BY <1>3
=============================================================================
