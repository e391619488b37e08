------------------------- MODULE RtBandwidthProofs -------------------------
(***************************************************************************)
(* The invariants of module RtBandwidth, for any number of CPUs, any       *)
(* period and runtime and any values written to the sysctl.                *)
(***************************************************************************)
EXTENDS RtBandwidth, DataProofs

-----------------------------------------------------------------------------
(* The inductive invariant. *)

\* What has been written, and accepted.
Settings == Runtimes \cup {BootRuntime}
Limits == {v \in Settings : v >= 0}

\* What each CPU is to have: once all are reset, the value that is being stored.
Limit == IF writer.at = "store" THEN global_rt_runtime(sysctl) ELSE b_runtime

SettingsOK ==
  /\ sysctl \in Settings /\ writer.old \in Settings /\ b_runtime \in Limits \cup {RUNTIME_INF}
  /\ writer.at = "store" => sysctl # 0

\* What is known of a CPU while its rq->lock is held.
Holder(c) ==
  /\ held[c] \in {"timer balance", "refill"} => timer.state = "running" /\ timer.at = c
  /\ held[c] = "timer balance" => rt_throttled[c]
  /\ held[c] \in {"balance", "throttle"} => rt_nr_running[c] > 0
  /\ held[c] = "refill" => rt_time[c] > 0
  /\ held[c] \in {"balance", "timer balance"} => mixed \/ cpu[c] \in {"up", "online again"}
Holders == \A c \in Cpus : Holder(c)

\* The runtimes of the enabled CPUs, whatever they have lent, are what the
\* limit allots to them.
Shared ==
  IF Limit = RUNTIME_INF THEN \A c \in Cpus : rt_runtime[c] = RUNTIME_INF
  ELSE /\ Total(Enabled) = Cardinality(Enabled) * Limit
       /\ \A c \in Cpus \ Enabled : rt_runtime[c] = RUNTIME_INF

Conserved == ~mixed => Shared /\ (writer.at = "store" => Enabled = Cpus)

\* Nobody is past its runtime and not throttled, the CPU that is being refilled
\* included.
Over(c) == ~rt_throttled[c] /\ rt_runtime[c] < Period /\ rt_time[c] > rt_runtime[c]
Within ==
  \A c \in OnlineCpus : held[c] \in {"no", "refill"} /\ Over(c) => c \in reclaimed \/ mixed

\* Who needs the timer, and has missed it if it is off, or is about to stop.
Needing(c) == cpu[c] # "dead" /\ (rt_nr_running[c] > 0 \/ (rt_throttled[c] /\ cpu[c] # "online"))
Seen(c) ==
  /\ rt_throttled[c] => rt_time[c] > 0
  /\ cpu[c] = "dead" => rt_nr_running[c] = 0
  /\ timer.state = "off" /\ Needing(c) => c \in unstarted
  /\ timer.state = "running" /\ timer.at > c /\ timer.idle /\ Needing(c) => c \in unstarted
TimerSeen == \A c \in Cpus : Seen(c)

Stopped == wanting => mixed /\ \A c \in Cpus : held[c] = "stuck"

IInv ==
  /\ TypeOK
  /\ SettingsOK
  /\ Holders
  /\ Conserved
  /\ Within
  /\ TimerSeen
  /\ Stopped

-----------------------------------------------------------------------------
(* Widths. *)

\* A multiple is not less; a product grows with its factor.
LEMMA Products ==
  /\ \A n \in Nat \ {0} : \A x \in Nat : n * x \in Nat /\ x <= n * x
  /\ \A m, n, x \in Nat : m <= n => m * x \in Nat /\ m * x <= n * x
<1>1. \A n \in Nat \ {0} : \A x \in Nat : n * x \in Nat /\ x <= n * x
  OBVIOUS
<1>2. ASSUME NEW m \in Nat, NEW n \in Nat, NEW x \in Nat, m <= n
      PROVE  m * x \in Nat /\ m * x <= n * x
  <2>1. (n - m) * x = n * x - m * x /\ n - m \in Nat
    BY <1>2
  <2>2. \A k \in Nat : k * x \in Nat
    OBVIOUS
  <2> QED BY <2>1, <2>2
<1> QED BY <1>1, <1>2

\* Twice what all CPUs may have, and twice what is used, fit in a u64.
LEMMA Widths ==
  /\ NCpus \in Nat /\ NCpus >= 1 /\ U64 \in Nat /\ U64 > 2 * MaxTime /\ U64 > 2 * Period
  /\ U64 >= 2 /\ U64 > 2 * (Period + MaxTime)
  /\ U64 \div 2 \in Nat /\ 2 * (U64 \div 2) = U64
  /\ MaxTime \in Nat /\ Period \in Nat /\ BootRuntime \in 1 .. Period
  /\ Cpus \subseteq Nat /\ IsFiniteSet(Cpus)
  /\ \A v \in Limits : v \in Nat /\ 2 * (NCpus * v) < U64 /\ 2 * v < U64 /\ v # RUNTIME_INF
  /\ \A v \in Settings : v \in Int /\ v >= -1
<1>1. /\ NCpus \in Nat \ {0} /\ U64 \in Nat /\ U64 % 2 = 0 /\ MaxTime \in Nat
      /\ Period \in Nat /\ BootRuntime \in 1 .. Period
      /\ 2 * NCpus * (Period + MaxTime) < U64
      /\ Runtimes \subseteq Int /\ \A v \in Runtimes : v >= -1 /\ 2 * NCpus * v < U64
  BY RtBandwidthAssumption
<1>2. U64 > 2 * (Period + MaxTime) /\ 2 * (NCpus * (Period + MaxTime)) < U64
  <2> DEFINE x == Period + MaxTime
  <2>1. x \in Nat /\ NCpus * x \in Nat /\ x <= NCpus * x
    BY <1>1, Products
  <2>2. 2 * NCpus * x = 2 * (NCpus * x)
    BY <1>1
  <2> HIDE DEF x
  <2>3. 2 * (NCpus * x) < U64
    BY <1>1, <2>2 DEF x
  <2>4. 2 * x < U64
    BY <1>1, <2>1, <2>3
  <2> QED BY <2>3, <2>4 DEF x
<1>3. \A v \in Nat : 2 * NCpus * v < U64 => 2 * (NCpus * v) < U64 /\ 2 * v < U64
  <2> SUFFICES ASSUME NEW v \in Nat, 2 * NCpus * v < U64
               PROVE 2 * (NCpus * v) < U64 /\ 2 * v < U64
    OBVIOUS
  <2>1. 2 * NCpus * v = 2 * (NCpus * v)
    BY <1>1
  <2>2. NCpus * v \in Nat /\ v <= NCpus * v
    BY <1>1, Products
  <2> QED BY <1>1, <2>1, <2>2
<1>4. 2 * NCpus * BootRuntime < U64 /\ BootRuntime \in Nat
  <2>1. NCpus * BootRuntime <= NCpus * (Period + MaxTime) /\ NCpus * BootRuntime \in Nat
    <3> DEFINE y == Period + MaxTime
    <3>1. BootRuntime \in Nat /\ y \in Nat /\ BootRuntime <= y
      BY <1>1
    <3>2. BootRuntime * NCpus <= y * NCpus /\ BootRuntime * NCpus \in Nat
      BY <1>1, <3>1, Products
    <3>3. BootRuntime * NCpus = NCpus * BootRuntime /\ y * NCpus = NCpus * y
      BY <1>1, <3>1
    <3> QED BY <3>2, <3>3
  <2>2. 2 * NCpus * BootRuntime = 2 * (NCpus * BootRuntime)
    BY <1>1
  <2> DEFINE y == NCpus * (Period + MaxTime)
             z == NCpus * BootRuntime
  <2>3. y \in Nat
    BY <1>1
  <2>4. 2 * z < U64
    <3>1. z <= y /\ z \in Nat /\ 2 * y < U64
      BY <1>2, <2>1
    <3> HIDE DEF y, z
    <3> QED BY <1>1, <2>3, <3>1
  <2> QED BY <1>1, <2>2, <2>4
<1>5. \A v \in Limits : v \in Nat /\ 2 * (NCpus * v) < U64 /\ 2 * v < U64
  BY <1>1, <1>3, <1>4 DEF Limits, Settings
<1>6. U64 >= 2 /\ U64 \div 2 \in Nat /\ 2 * (U64 \div 2) = U64
  BY <1>1, <1>2
<1>7. \A v \in Limits : v # RUNTIME_INF
  BY <1>1, <1>5, <1>6 DEF RUNTIME_INF
<1>8. IsFiniteSet(Cpus) /\ Cpus \subseteq Nat
  BY <1>1, FS_Interval DEF Cpus
<1> QED BY <1>1, <1>2, <1>5, <1>6, <1>7, <1>8 DEF Settings

\* An s64 holds a difference of small numbers.
LEMMA S64Exact ==
  ASSUME NEW x \in Int, -U64 < 2 * x, 2 * x < U64
  PROVE  S64(x) = x
<1>1. U64 \in Nat /\ U64 \div 2 \in Nat /\ 2 * (U64 \div 2) = U64
  BY Widths
<1>2. CASE x >= 0
  <2>1. x % U64 = x
    BY <1>1, <1>2
  <2> QED BY <1>1, <1>2, <2>1 DEF S64
<1>3. CASE x < 0
  <2>1. x % U64 = x + U64
    BY <1>1, <1>3
  <2> QED BY <1>1, <1>3, <2>1 DEF S64
<1> QED BY <1>2, <1>3

\* What the bitmaps say.
LEMMA EnabledIs ==
  ASSUME TypeOK
  PROVE  Enabled \subseteq OnlineCpus /\ OnlineCpus \subseteq Cpus /\ IsFiniteSet(Enabled)
<1>1. Enabled \subseteq OnlineCpus /\ OnlineCpus \subseteq Cpus
  BY DEF Enabled, OnlineCpus
<1> QED BY <1>1, Widths, FS_Subset

Lengths(r) == \A x \in Cpus : r[x] \in Int /\ r[x] >= 0

\* Runtimes and times are natural numbers.
LEMMA RuntimesAreLengths ==
  /\ \A r \in [Cpus -> 0 .. U64 - 1] : Lengths(r)
  /\ \A r \in [Cpus -> 0 .. MaxTime] : Lengths(r)
<1>1. ASSUME NEW n \in Int, NEW r \in [Cpus -> 0 .. n] PROVE Lengths(r)
  BY DEF Lengths
<1>2. U64 - 1 \in Int /\ MaxTime \in Int
  BY Widths
<1> QED BY <1>1, <1>2

-----------------------------------------------------------------------------
(* Runtimes that are shared out. *)

Runtime == [Cpus -> 0 .. U64 - 1]
Allotted(r, l) ==
  /\ SumFunctionOnSet(r, Enabled) = Cardinality(Enabled) * l
  /\ \A c \in Cpus \ Enabled : r[c] = RUNTIME_INF

\* No share, and no two, can reach half of a u64.
LEMMA SharesFit ==
  ASSUME TypeOK, NEW r \in Runtime, NEW l \in Limits, Allotted(r, l)
  PROVE  /\ \A e \in Enabled : r[e] \in Nat /\ 2 * r[e] < U64 /\ r[e] # RUNTIME_INF
         /\ \A e \in Enabled : \A d \in Enabled \ {e} : 2 * (r[d] + r[e]) < U64
<1> DEFINE sum(S) == SumFunctionOnSet(r, S)
           n == Cardinality(Enabled)
<1>1. Enabled \subseteq Cpus /\ IsFiniteSet(Enabled) /\ IsFiniteSet(Cpus)
  BY EnabledIs, Widths
<1>2. \A e \in Cpus : r[e] \in Nat
  BY Widths DEF Runtime
<1>3. n \in Nat /\ n <= NCpus
  <2>1. Cardinality(Cpus) = NCpus
    BY Widths, FS_Interval DEF Cpus
  <2> QED BY <1>1, <2>1, FS_Subset, FS_CardinalityType
<1>4. n * l \in Nat /\ 2 * (n * l) < U64
  <2>1. l \in Nat /\ 2 * (NCpus * l) < U64 /\ U64 \in Nat /\ NCpus \in Nat
    BY Widths
  <2>2. n * l \in Nat /\ n * l <= NCpus * l /\ NCpus * l \in Nat
    BY <1>3, <2>1, Products
  <2> HIDE DEF n
  <2> QED BY <2>1, <2>2
<1>5. ASSUME NEW e \in Enabled
      PROVE  /\ r[e] \in Nat /\ r[e] <= n * l
             /\ \A d \in Enabled \ {e} : r[d] + r[e] <= n * l
  <2>1. sum(Enabled) = r[e] + sum(Enabled \ {e}) /\ sum(Enabled) = n * l
    BY <1>1, <1>2, SumRemove DEF Allotted
  <2>2. IsFiniteSet(Enabled \ {e}) /\ \A x \in Enabled \ {e} : r[x] \in Int /\ r[x] >= 0
    BY <1>1, <1>2, FS_Subset
  <2>3. sum(Enabled \ {e}) \in Int /\ sum(Enabled \ {e}) >= 0
    BY <2>2, SumType
  <2>4. ASSUME NEW d \in Enabled \ {e} PROVE r[d] + r[e] <= n * l
    <3>1. sum(Enabled \ {e}) = r[d] + sum((Enabled \ {e}) \ {d})
      BY <2>2, SumRemove
    <3>2. IsFiniteSet((Enabled \ {e}) \ {d})
          /\ \A x \in (Enabled \ {e}) \ {d} : r[x] \in Int /\ r[x] >= 0
      BY <2>2, FS_Subset
    <3>3. sum((Enabled \ {e}) \ {d}) \in Int /\ sum((Enabled \ {e}) \ {d}) >= 0
      BY <3>2, SumType
    <3>4. r[d] \in Nat /\ r[e] \in Nat
      BY <1>1, <1>2
    <3> HIDE DEF n, sum
    <3> QED BY <1>4, <2>1, <3>1, <3>3, <3>4
  <2>5. r[e] \in Nat
    BY <1>1, <1>2
  <2> HIDE DEF n, sum
  <2> QED BY <1>4, <2>1, <2>3, <2>4, <2>5
<1>6. U64 \in Nat /\ U64 >= 2
  BY Widths
<1> HIDE DEF n, sum
<1>7. \A e \in Enabled : r[e] \in Nat /\ 2 * r[e] < U64 /\ r[e] # RUNTIME_INF
  BY <1>4, <1>5, <1>6 DEF RUNTIME_INF
<1>8. ASSUME NEW e \in Enabled, NEW d \in Enabled \ {e} PROVE 2 * (r[d] + r[e]) < U64
  <2>1. r[d] + r[e] <= n * l /\ r[d] \in Nat /\ r[e] \in Nat
    BY <1>5
  <2> QED BY <1>4, <1>6, <2>1
<1> QED BY <1>7, <1>8

Move(r, from, to, diff) == [r EXCEPT ![from] = (@ - diff) % U64, ![to] = (@ + diff) % U64]

\* Moving runtime from one enabled CPU to another leaves the allotment.
LEMMA Moved ==
  ASSUME TypeOK, NEW r \in Runtime, NEW l \in Limits, Allotted(r, l),
         NEW from \in Enabled, NEW to \in Enabled \ {from}, NEW diff \in Int,
         diff <= r[from], r[to] + diff >= 0, 2 * diff < U64, -U64 < 2 * diff
  PROVE  LET s == Move(r, from, to, diff) IN
         /\ s \in Runtime /\ Allotted(s, l)
         /\ s[from] = r[from] - diff /\ s[to] = r[to] + diff
         /\ \A c \in Cpus \ {from, to} : s[c] = r[c]
<1> DEFINE s == Move(r, from, to, diff)
           t == [r EXCEPT ![from] = r[from] - diff]
<1>1. Enabled \subseteq Cpus /\ IsFiniteSet(Enabled) /\ from \in Cpus /\ to \in Cpus /\ from # to
  BY EnabledIs
<1>2. /\ r[from] \in Nat /\ 2 * r[from] < U64 /\ r[to] \in Nat /\ 2 * r[to] < U64
      /\ U64 \in Nat
  BY SharesFit, Widths
<1>3. (r[from] - diff) % U64 = r[from] - diff /\ (r[to] + diff) % U64 = r[to] + diff
  <2>1. r[from] - diff \in 0 .. U64 - 1 /\ r[to] + diff \in 0 .. U64 - 1
    BY <1>2
  <2>2. \A x \in 0 .. U64 - 1 : x % U64 = x
    BY <1>2
  <2> QED BY <2>1, <2>2
<1>4. s[from] = r[from] - diff /\ s[to] = r[to] + diff /\ \A c \in Cpus \ {from, to} : s[c] = r[c]
  BY <1>1, <1>3 DEF Runtime, Move
<1>5. s \in Runtime
  <2>1. r[from] - diff \in 0 .. U64 - 1 /\ r[to] + diff \in 0 .. U64 - 1
    BY <1>2
  <2> QED BY <1>3, <2>1 DEF Runtime, Move
<1>6. t[from] = r[from] - diff /\ \A c \in Cpus \ {from} : t[c] = r[c]
  BY <1>1 DEF Runtime
<1>7. \A x \in Enabled : r[x] \in Int /\ s[x] \in Int /\ t[x] \in Int
  BY <1>1, <1>2, <1>4, <1>6 DEF Runtime
<1> HIDE DEF s, t
<1>8. SumFunctionOnSet(t, Enabled) = SumFunctionOnSet(r, Enabled) - r[from] + t[from]
  BY <1>1, <1>6, <1>7, SumChange
<1>9. SumFunctionOnSet(s, Enabled) = SumFunctionOnSet(t, Enabled) - t[to] + s[to]
  <2>1. \A x \in Enabled \ {to} : t[x] = s[x]
    BY <1>1, <1>4, <1>6
  <2> QED BY <1>1, <1>7, <2>1, SumChange
<1>10. SumFunctionOnSet(r, Enabled) \in Int
  BY <1>1, <1>7, SumType
<1>11. t[to] = r[to]
  BY <1>1, <1>6
<1>12. SumFunctionOnSet(s, Enabled) = SumFunctionOnSet(r, Enabled)
  BY <1>2, <1>4, <1>6, <1>8, <1>9, <1>10, <1>11
<1>13. Allotted(s, l)
  BY <1>1, <1>4, <1>12 DEF Allotted
<1> QED BY <1>4, <1>5, <1>13 DEF s

-----------------------------------------------------------------------------
(* Borrowing. *)

Balancing == [runtime : Runtime, full : BOOLEAN]

\* A remainder is below its modulus.
LEMMA Wrapped ==
  \A x \in Int : x % U64 \in 0 .. U64 - 1 /\ S64(x) \in Int
<1>1. U64 \in Nat /\ U64 >= 2
  BY Widths
<1> QED BY <1>1 DEF S64

\* The types of what is lent.
LEMMA LendType ==
  ASSUME TypeOK, NEW r \in Runtime, NEW from \in Cpus, NEW to \in Cpus
  PROVE  Lend(r, from, to) \in Runtime /\ Spare(r, from) \in Int
<1>1. rt_time[from] \in Int /\ r[from] \in Int /\ r[to] \in Int
  <2>1. rt_time[from] \in 0 .. MaxTime /\ r[from] \in 0 .. U64 - 1 /\ r[to] \in 0 .. U64 - 1
    BY DEF TypeOK, Runtime
  <2> QED BY <2>1
<1>2. Spare(r, from) \in Int
  BY <1>1, Wrapped DEF Spare
<1> DEFINE part == Spare(r, from) \div NCpus
           diff == IF (r[to] + part) % U64 > Period THEN Period - r[to] ELSE part
<1>3. diff \in Int
  <2>1. NCpus \in Nat /\ NCpus >= 1 /\ Period \in Nat
    BY Widths
  <2>2. part \in Int
    BY <1>2, <2>1
  <2> HIDE DEF part
  <2> QED BY <1>1, <2>1, <2>2
<1>4. Lend(r, from, to) = [r EXCEPT ![from] = (@ - diff) % U64, ![to] = (@ + diff) % U64]
  BY DEF Lend
<1> HIDE DEF diff
<1>5. \A x \in Int : (x - diff) % U64 \in 0 .. U64 - 1 /\ (x + diff) % U64 \in 0 .. U64 - 1
  BY <1>3, Wrapped
<1>6. Lend(r, from, to) \in Runtime
  BY <1>4, <1>5, Widths DEF Runtime
<1> QED BY <1>2, <1>6

\* do_balance_runtime goes through some sequence of runtimes.
LEMMA BalanceLoop ==
  ASSUME TypeOK, NEW c \in Cpus
  PROVE  \E f \in [0 .. NCpus -> Balancing] :
           /\ f[0] = [runtime |-> rt_runtime, full |-> FALSE]
           /\ \A i \in 1 .. NCpus : f[i] = BorrowFrom(f[i - 1], i - 1, c)
           /\ do_balance_runtime(c) = f[NCpus].runtime
<1> DEFINE first == [runtime |-> rt_runtime, full |-> FALSE]
           Pass == [i \in 0 .. NCpus - 1 |-> [b \in Balancing |-> BorrowFrom(b, i, c)]]
           Loop(f) == f = [i \in 0 .. NCpus |-> IF i = 0 THEN first
                                                ELSE BorrowFrom(f[i - 1], i - 1, c)]
<1>1. first \in Balancing
  BY DEF TypeOK, Balancing, Runtime
<1>2. ASSUME NEW b \in Balancing, NEW i \in 0 .. NCpus - 1 PROVE BorrowFrom(b, i, c) \in Balancing
  <2>1. Lend(b.runtime, i, c) \in Runtime
    BY LendType DEF Balancing, Cpus
  <2> QED BY <2>1 DEF BorrowFrom, Balancing
<1>3. Pass \in Passes(Balancing, NCpus)
  BY <1>2 DEF Passes
<1>0. NCpus \in Nat
  BY Widths
<1>4. PICK g : Iteration(Balancing, NCpus, first, Pass, g)
  <2> HIDE DEF first, Pass
  <2> QED BY <1>0, <1>1, <1>3, Iterates
<1>11. g \in [0 .. NCpus -> Balancing] /\ g[0] = first
  BY <1>4 DEF Iteration
<1>5. \A i \in 1 .. NCpus : g[i] = BorrowFrom(g[i - 1], i - 1, c)
  <2> SUFFICES ASSUME NEW i \in 1 .. NCpus PROVE g[i] = BorrowFrom(g[i - 1], i - 1, c)
    OBVIOUS
  <2>1. i - 1 \in 0 .. NCpus /\ i - 1 \in 0 .. NCpus - 1
    BY <1>0
  <2>2. g[i - 1] \in Balancing
    BY <1>11, <2>1
  <2> QED BY <1>4, <2>1, <2>2 DEF Iteration
<1>6. Loop(g)
  <2> HIDE DEF first
  <2> QED BY <1>5, <1>11
<1>7. do_balance_runtime(c) = (CHOOSE f : Loop(f))[NCpus].runtime
  BY DEF do_balance_runtime
<1> DEFINE h == CHOOSE f : Loop(f)
<1>8. Loop(h)
  <2> HIDE DEF Loop
  <2> QED BY <1>6
<1>9. h = g
  <2> DEFINE Good == {i \in 0 .. NCpus : h[i] = g[i]}
  <2> HIDE DEF h, first
  <2>1. 0 \in Good
    BY <1>0, <1>8, <1>11
  <2>2. ASSUME NEW i \in 1 .. NCpus, i - 1 \in Good PROVE i \in Good
    BY <1>5, <1>8, <2>2
  <2>3. \A i \in 0 .. NCpus : i \in Good
    <3> HIDE DEF Good
    <3> QED BY <1>0, <2>1, <2>2, Upwards
  <2>4. \A i \in 0 .. NCpus : h[i] = g[i]
    BY <2>3
  <2>5. h = [i \in 0 .. NCpus |-> h[i]] /\ g = [i \in 0 .. NCpus |-> g[i]]
    BY <1>8, <1>11
  <2> QED BY <2>4, <2>5
<1> HIDE DEF h
<1> QED BY <1>5, <1>7, <1>9, <1>11 DEF h

\* What is lent comes from what is spare, and leaves the allotment.
LEMMA LendShares ==
  ASSUME TypeOK, NEW r \in Runtime, NEW l \in Limits, Allotted(r, l),
         NEW from \in Enabled, NEW to \in Enabled \ {from}, Spare(r, from) > 0
  PROVE  LET s == Lend(r, from, to) IN
         /\ s \in Runtime /\ Allotted(s, l) /\ s[from] >= rt_time[from]
         /\ \A c \in Cpus \ {from, to} : s[c] = r[c]
<1> DEFINE spare == Spare(r, from)
           part == spare \div NCpus
           diff == IF (r[to] + part) % U64 > Period THEN Period - r[to] ELSE part
<1>1. from \in Cpus /\ to \in Cpus /\ from # to
  BY EnabledIs
<1>2. /\ r[from] \in Nat /\ r[to] \in Nat /\ 2 * (r[from] + r[to]) < U64
      /\ 2 * r[from] < U64
  BY SharesFit
<1>3. /\ rt_time[from] \in Nat /\ 2 * rt_time[from] < U64
      /\ U64 \in Nat /\ Period \in Nat /\ 2 * Period < U64 /\ NCpus \in Nat /\ NCpus >= 1
  <2>1. rt_time[from] \in 0 .. MaxTime
    BY <1>1 DEF TypeOK
  <2> QED BY <2>1, Widths
<1>4. spare = r[from] - rt_time[from] /\ spare \in Nat
  <2>1. S64(r[from] - rt_time[from]) = r[from] - rt_time[from]
    BY <1>2, <1>3, S64Exact
  <2> QED BY <1>2, <1>3, <2>1 DEF Spare
<1> HIDE DEF spare
<1>5. part \in Nat /\ part <= spare
  BY <1>3, <1>4
<1> HIDE DEF part
<1>6. (r[to] + part) % U64 = r[to] + part
  <2>1. r[to] + part \in 0 .. U64 - 1
    BY <1>2, <1>3, <1>4, <1>5
  <2> QED BY <1>3, <2>1
<1>7. /\ diff \in Int /\ diff <= spare /\ r[to] + diff >= 0
      /\ 2 * diff < U64 /\ -U64 < 2 * diff
  <2>1. CASE r[to] + part > Period
    <3>1. diff = Period - r[to]
      BY <1>6, <2>1
    <3> HIDE DEF diff
    <3> QED BY <1>2, <1>3, <1>4, <1>5, <2>1, <3>1
  <2>2. CASE ~(r[to] + part > Period)
    <3>1. diff = part
      BY <1>6, <2>2
    <3> HIDE DEF diff
    <3> QED BY <1>2, <1>3, <1>4, <1>5, <2>2, <3>1
  <2> QED BY <2>1, <2>2
<1> DEFINE s == Move(r, from, to, diff)
<1>8. Lend(r, from, to) = s
  BY DEF Lend, part, spare, Move
<1> HIDE DEF diff
<1>9. diff <= r[from]
  BY <1>2, <1>3, <1>4, <1>7
<1>10. /\ s \in Runtime /\ Allotted(s, l) /\ s[from] = r[from] - diff
       /\ \A c \in Cpus \ {from, to} : s[c] = r[c]
  BY <1>7, <1>9, Moved
<1> HIDE DEF s
<1>11. s[from] >= rt_time[from]
  BY <1>2, <1>3, <1>4, <1>7, <1>10
<1> QED BY <1>8, <1>10, <1>11

\* So a CPU that borrows leaves the others what they have used, and all the
\* allotment.
LEMMA Balanced ==
  ASSUME TypeOK, NEW l \in Limits, Allotted(rt_runtime, l), NEW c \in Enabled
  PROVE  LET r == do_balance_runtime(c) IN
         /\ Allotted(r, l)
         /\ \A e \in Cpus \ {c} : r[e] = rt_runtime[e] \/ r[e] >= rt_time[e]
<1>1. c \in Cpus /\ NCpus \in Nat /\ Enabled \subseteq Cpus
  BY EnabledIs, Widths
<1>2. PICK f \in [0 .. NCpus -> Balancing] :
           /\ f[0] = [runtime |-> rt_runtime, full |-> FALSE]
           /\ \A i \in 1 .. NCpus : f[i] = BorrowFrom(f[i - 1], i - 1, c)
           /\ do_balance_runtime(c) = f[NCpus].runtime
  BY <1>1, BalanceLoop
<1> DEFINE Kept(r) == /\ Allotted(r, l)
                      /\ \A e \in Cpus \ {c} : r[e] = rt_runtime[e] \/ r[e] >= rt_time[e]
           Good == {i \in 0 .. NCpus : Kept(f[i].runtime)}
<1>3. 0 \in Good
  BY <1>1, <1>2
<1>4. ASSUME NEW i \in 1 .. NCpus, i - 1 \in Good PROVE i \in Good
  <2> DEFINE j == i - 1
             b == f[j]
             s == Lend(b.runtime, j, c)
  <2>1. j \in Cpus /\ j \in 0 .. NCpus
    BY <1>1 DEF Cpus
  <2>2. b \in Balancing /\ b.runtime \in Runtime /\ Kept(b.runtime) /\ f[i] = BorrowFrom(b, j, c)
    <3>1. b \in Balancing
      BY <1>2, <2>1
    <3>2. Kept(b.runtime)
      BY <1>4
    <3> QED BY <1>2, <3>1, <3>2 DEF Balancing
  <2> HIDE DEF b, j
  <2>3. CASE f[i] = b
    BY <2>2, <2>3
  <2>4. CASE f[i] # b
    <3>1. j # c /\ b.runtime[j] # RUNTIME_INF /\ Spare(b.runtime, j) > 0 /\ f[i].runtime = s
      <4>1. ~(b.full \/ j = c \/ b.runtime[j] = RUNTIME_INF \/ Spare(b.runtime, j) <= 0)
        BY <2>2, <2>4 DEF BorrowFrom
      <4>2. Spare(b.runtime, j) \in Int
        BY <1>1, <2>1, <2>2, LendType
      <4>3. f[i] = [runtime |-> s, full |-> s[c] = Period]
        BY <2>2, <4>1 DEF BorrowFrom
      <4> QED BY <4>1, <4>2, <4>3
    <3>2. j \in Enabled
      BY <2>1, <2>2, <3>1 DEF Allotted
    <3>3. /\ Allotted(s, l) /\ s[j] >= rt_time[j]
          /\ \A e \in Cpus \ {j, c} : s[e] = b.runtime[e]
      <4>1. c \in Enabled \ {j}
        BY <3>1
      <4> QED BY <2>2, <3>1, <3>2, <4>1, LendShares
    <3>4. Kept(s)
      <4> HIDE DEF s
      <4> QED BY <2>2, <3>3
    <3> HIDE DEF s, Kept
    <3> QED BY <3>1, <3>4
  <2> QED BY <2>3, <2>4
<1>5. NCpus \in Good
  <2> HIDE DEF Good
  <2> QED BY <1>1, <1>3, <1>4, Upwards
<1> QED BY <1>2, <1>5

\* Without a limit there is nothing to borrow.
LEMMA NothingToBorrow ==
  ASSUME TypeOK, \A e \in Cpus : rt_runtime[e] = RUNTIME_INF, NEW c \in Cpus
  PROVE  do_balance_runtime(c) = rt_runtime
<1>1. NCpus \in Nat
  BY Widths
<1>2. PICK f \in [0 .. NCpus -> Balancing] :
           /\ f[0] = [runtime |-> rt_runtime, full |-> FALSE]
           /\ \A i \in 1 .. NCpus : f[i] = BorrowFrom(f[i - 1], i - 1, c)
           /\ do_balance_runtime(c) = f[NCpus].runtime
  BY BalanceLoop
<1> DEFINE Good == {i \in 0 .. NCpus : f[i].runtime = rt_runtime}
<1>3. 0 \in Good
  BY <1>1, <1>2
<1>4. ASSUME NEW i \in 1 .. NCpus, i - 1 \in Good PROVE i \in Good
  <2>1. i - 1 \in Cpus /\ f[i - 1].runtime = rt_runtime
    BY <1>1, <1>4 DEF Cpus
  <2>2. f[i] = f[i - 1]
    BY <1>2, <2>1 DEF BorrowFrom
  <2> QED BY <2>1, <2>2
<1>5. NCpus \in Good
  <2> HIDE DEF Good
  <2> QED BY <1>1, <1>3, <1>4, Upwards
<1> QED BY <1>2, <1>5

-----------------------------------------------------------------------------
(* Taking back what was lent. *)

Reclaiming == [runtime : Runtime, want : Int]

LEMMA MinOf ==
  ASSUME NEW x \in Int, NEW y \in Int
  PROVE  Min({x, y}) = IF x <= y THEN x ELSE y
BY DEF Min

\* The types of what is taken back.
LEMMA TakeBackType ==
  ASSUME NEW b \in Reclaiming, NEW i \in Cpus, NEW c
  PROVE  TakeBack(b, i, c) \in Reclaiming
<1> DEFINE part == IF b.want > 0 THEN Min({S64(b.runtime[i]), b.want}) ELSE b.want
<1>1. b.runtime \in Runtime /\ b.want \in Int /\ b.runtime[i] \in Int
  <2>1. b.runtime \in Runtime /\ b.want \in Int
    BY DEF Reclaiming
  <2>2. b.runtime[i] \in 0 .. U64 - 1
    BY <2>1 DEF Runtime
  <2> QED BY <2>1, <2>2
<1>2. part \in Int
  <2>1. S64(b.runtime[i]) \in Int
    BY <1>1, Wrapped
  <2> QED BY <1>1, <2>1, MinOf
<1> HIDE DEF part
<1>3. (b.runtime[i] - part) % U64 \in 0 .. U64 - 1 /\ b.want - part \in Int
  BY <1>1, <1>2, Wrapped
<1>4. [b.runtime EXCEPT ![i] = (@ - part) % U64] \in Runtime
  BY <1>1, <1>3 DEF Runtime
<1> QED BY <1>3, <1>4 DEF TakeBack, Reclaiming, part

\* __disable_runtime goes through some sequence of runtimes, with less and less
\* wanting.
LEMMA DisableLoop ==
  ASSUME TypeOK, NEW c \in Cpus, rt_runtime[c] \notin {RUNTIME_INF, b_runtime}
  PROVE  \E f \in [0 .. NCpus -> Reclaiming] :
           /\ f[0] = [runtime |-> rt_runtime, want |-> S64(b_runtime - rt_runtime[c])]
           /\ \A i \in 1 .. NCpus : f[i] = TakeBack(f[i - 1], i - 1, c)
           /\ disable_runtime(c) = f[NCpus]
<1> DEFINE first == [runtime |-> rt_runtime, want |-> S64(b_runtime - rt_runtime[c])]
           Pass == [i \in 0 .. NCpus - 1 |-> [b \in Reclaiming |-> TakeBack(b, i, c)]]
           Loop(f) == f = [i \in 0 .. NCpus |-> IF i = 0 THEN first
                                                ELSE TakeBack(f[i - 1], i - 1, c)]
<1>1. NCpus \in Nat
  BY Widths
<1>2. first \in Reclaiming
  <2>1. rt_runtime[c] \in 0 .. U64 - 1 /\ b_runtime \in 0 .. U64 - 1 /\ rt_runtime \in Runtime
    BY DEF TypeOK, Runtime
  <2>2. S64(b_runtime - rt_runtime[c]) \in Int
    BY <2>1, Wrapped
  <2> QED BY <2>1, <2>2 DEF Reclaiming
<1>3. Pass \in Passes(Reclaiming, NCpus)
  BY TakeBackType DEF Passes, Cpus
<1>4. PICK g : Iteration(Reclaiming, NCpus, first, Pass, g)
  <2> HIDE DEF first, Pass
  <2> QED BY <1>1, <1>2, <1>3, Iterates
<1>5. g \in [0 .. NCpus -> Reclaiming] /\ g[0] = first
  BY <1>4 DEF Iteration
<1>6. \A i \in 1 .. NCpus : g[i] = TakeBack(g[i - 1], i - 1, c)
  <2> SUFFICES ASSUME NEW i \in 1 .. NCpus PROVE g[i] = TakeBack(g[i - 1], i - 1, c)
    OBVIOUS
  <2>1. i - 1 \in 0 .. NCpus /\ i - 1 \in 0 .. NCpus - 1
    BY <1>1
  <2>2. g[i - 1] \in Reclaiming
    BY <1>5, <2>1
  <2> QED BY <1>4, <2>1, <2>2 DEF Iteration
<1>7. Loop(g)
  <2> HIDE DEF first
  <2> QED BY <1>5, <1>6
<1>8. disable_runtime(c) = (CHOOSE f : Loop(f))[NCpus]
  BY DEF disable_runtime
<1> DEFINE h == CHOOSE f : Loop(f)
<1>9. Loop(h)
  <2> HIDE DEF Loop
  <2> QED BY <1>7
<1>10. h = g
  <2> DEFINE Good == {i \in 0 .. NCpus : h[i] = g[i]}
  <2> HIDE DEF h, first
  <2>1. 0 \in Good
    BY <1>1, <1>5, <1>9
  <2>2. ASSUME NEW i \in 1 .. NCpus, i - 1 \in Good PROVE i \in Good
    BY <1>6, <1>9, <2>2
  <2>3. \A i \in 0 .. NCpus : i \in Good
    <3> HIDE DEF Good
    <3> QED BY <1>1, <2>1, <2>2, Upwards
  <2>4. \A i \in 0 .. NCpus : h[i] = g[i]
    BY <2>3
  <2>5. h = [i \in 0 .. NCpus |-> h[i]] /\ g = [i \in 0 .. NCpus |-> g[i]]
    BY <1>5, <1>9
  <2> QED BY <2>4, <2>5
<1> HIDE DEF h
<1> QED BY <1>5, <1>6, <1>8, <1>10 DEF h

\* Its types.
LEMMA DisableType ==
  ASSUME TypeOK, NEW c \in Cpus
  PROVE  disable_runtime(c) \in Reclaiming
<1>1. CASE rt_runtime[c] \in {RUNTIME_INF, b_runtime}
  <2>1. disable_runtime(c) = [runtime |-> rt_runtime, want |-> 0]
    BY <1>1 DEF disable_runtime
  <2>2. rt_runtime \in Runtime
    BY DEF TypeOK, Runtime
  <2> QED BY <2>1, <2>2 DEF Reclaiming
<1>2. CASE rt_runtime[c] \notin {RUNTIME_INF, b_runtime}
  <2>1. PICK f \in [0 .. NCpus -> Reclaiming] : disable_runtime(c) = f[NCpus]
    BY <1>2, DisableLoop
  <2>2. NCpus \in 0 .. NCpus
    BY Widths
  <2> QED BY <2>1, <2>2
<1> QED BY <1>1, <1>2

\* What is left in the loop: what the others have, less what is wanting, is what
\* is allotted to them.  While c wants, nobody is given anything, and those that
\* are passed have nothing left; while it owes, there was none but c.
Owing(c, b, i) ==
  LET others == Enabled \ {c} IN
  /\ SumFunctionOnSet(b.runtime, others) - b.want = (Cardinality(Enabled) - 1) * b_runtime
  /\ \A e \in Cpus : b.runtime[e] = RUNTIME_INF <=> e \notin Enabled
  /\ b.want > 0 => /\ \A e \in others : e < i => b.runtime[e] = 0
                   /\ \A e \in others : b.runtime[e] <= rt_runtime[e]
  /\ b.want < 0 => /\ b.runtime = rt_runtime /\ b.want = b_runtime - rt_runtime[c]
                   /\ \A e \in others : ~(e < i)

\* What c wants at first.
LEMMA WantingFirst ==
  ASSUME TypeOK, b_runtime \in Limits, Allotted(rt_runtime, b_runtime), NEW c \in Enabled
  PROVE  /\ SumFunctionOnSet(rt_runtime, Enabled \ {c}) - (b_runtime - rt_runtime[c])
              = (Cardinality(Enabled) - 1) * b_runtime
         /\ S64(b_runtime - rt_runtime[c]) = b_runtime - rt_runtime[c]
         /\ b_runtime \in Nat /\ Cardinality(Enabled) \in Nat \ {0}
<1>1. Enabled \subseteq Cpus /\ IsFiniteSet(Enabled) /\ rt_runtime \in Runtime
  BY EnabledIs DEF TypeOK, Runtime
<1>2. \A e \in Enabled : rt_runtime[e] \in Nat /\ 2 * rt_runtime[e] < U64
  BY <1>1, SharesFit
<1>3. b_runtime \in Nat /\ 2 * b_runtime < U64 /\ U64 \in Nat
  BY Widths
<1>4. S64(b_runtime - rt_runtime[c]) = b_runtime - rt_runtime[c]
  BY <1>2, <1>3, S64Exact
<1> DEFINE n == Cardinality(Enabled)
           sum(S) == SumFunctionOnSet(rt_runtime, S)
<1>5. n \in Nat \ {0}
  BY <1>1, FS_CardinalityType, FS_EmptySet
<1>6. sum(Enabled) = rt_runtime[c] + sum(Enabled \ {c}) /\ sum(Enabled) = n * b_runtime
  <2>1. \A x \in Enabled : rt_runtime[x] \in Int
    BY <1>2
  <2> QED BY <1>1, <2>1, SumRemove DEF Allotted
<1>7. sum(Enabled \ {c}) \in Int
  <2>1. IsFiniteSet(Enabled \ {c}) /\ \A x \in Enabled \ {c} : rt_runtime[x] \in Int
    BY <1>1, <1>2, FS_Subset
  <2> QED BY <2>1, SumType
<1> HIDE DEF n, sum
<1>8. (n - 1) * b_runtime = n * b_runtime - b_runtime /\ n * b_runtime \in Nat
  BY <1>3, <1>5
<1>9. sum(Enabled \ {c}) - (b_runtime - rt_runtime[c]) = (n - 1) * b_runtime
  BY <1>2, <1>3, <1>6, <1>7, <1>8
<1> QED BY <1>3, <1>4, <1>5, <1>9 DEF n, sum

\* A pass keeps the books.
LEMMA OwingKept ==
  ASSUME TypeOK, b_runtime \in Limits, Allotted(rt_runtime, b_runtime), NEW c \in Enabled,
         NEW i \in Cpus, NEW b \in Reclaiming, Owing(c, b, i)
  PROVE  Owing(c, TakeBack(b, i, c), i + 1)
<1> DEFINE others == Enabled \ {c}
           part == IF b.want > 0 THEN Min({S64(b.runtime[i]), b.want}) ELSE b.want
           t == TakeBack(b, i, c)
           r == [b.runtime EXCEPT ![i] = (@ - part) % U64]
<1>1. /\ Enabled \subseteq Cpus /\ IsFiniteSet(others) /\ c \in Cpus /\ i \in Nat
      /\ \A e \in Cpus : e \in Nat
  BY EnabledIs, FS_Subset, Widths
<1>2. b.runtime \in Runtime /\ b.want \in Int
  BY DEF Reclaiming
<1>3. \A e \in Cpus : b.runtime[e] \in 0 .. U64 - 1
  BY <1>2 DEF Runtime
<1>4. b_runtime \in Nat /\ U64 \in Nat /\ U64 >= 2
  BY Widths
<1>5. SumFunctionOnSet(b.runtime, others) \in Int
  <2>1. \A x \in others : b.runtime[x] \in Int
    BY <1>1, <1>3
  <2> QED BY <1>1, <2>1, SumType
<1>6. CASE b.want = 0 \/ i = c \/ b.runtime[i] = RUNTIME_INF
  <2>1. t = b
    BY <1>6 DEF TakeBack
  <2>2. b.want > 0 => \A e \in others : e < i + 1 => b.runtime[e] = 0
    <3>1. SUFFICES ASSUME b.want > 0, NEW e \in others, e < i + 1 PROVE b.runtime[e] = 0
      OBVIOUS
    <3>2. CASE e < i
      BY <3>1, <3>2 DEF Owing
    <3>3. CASE e = i
      <4>1. b.runtime[i] = RUNTIME_INF /\ i \in others
        BY <1>6, <3>1, <3>3
      <4> QED BY <1>1, <4>1 DEF Owing
    <3> QED BY <1>1, <3>1, <3>2, <3>3
  <2>3. b.want < 0 => \A e \in others : ~(e < i + 1)
    <3>1. SUFFICES ASSUME b.want < 0, NEW e \in others, e < i + 1 PROVE FALSE
      OBVIOUS
    <3>2. ~(e < i)
      BY <3>1 DEF Owing
    <3>3. e = i
      BY <1>1, <3>1, <3>2
    <3>4. b.runtime[i] = RUNTIME_INF
      BY <1>6, <3>1, <3>3
    <3> QED BY <1>1, <3>3, <3>4 DEF Owing
  <2>4. Owing(c, b, i + 1)
    <3> HIDE DEF others
    <3> QED BY <2>2, <2>3 DEF Owing, others
  <2> QED BY <2>1, <2>4
<1>7. CASE ~(b.want = 0 \/ i = c \/ b.runtime[i] = RUNTIME_INF)
  <2>1. t = [runtime |-> r, want |-> b.want - part] /\ t.runtime = r /\ t.want = b.want - part
    BY <1>7 DEF TakeBack
  <2>2. i \in others
    BY <1>7 DEF Owing
  <2>3. /\ part \in Int /\ b.runtime[i] - part \in 0 .. U64 - 1
        /\ b.runtime[i] - part # RUNTIME_INF
        /\ b.want > 0 => /\ part = b.want \/ part = b.runtime[i]
                         /\ part <= b.want
        /\ b.want < 0 => part = b.want
    <3>1. CASE b.want > 0
      <4>0. S64(b.runtime[i]) = b.runtime[i] /\ b.runtime[i] \in Int
        <5>1. b.runtime[i] <= rt_runtime[i]
          BY <2>2, <3>1 DEF Owing
        <5>2. 2 * rt_runtime[i] < U64 /\ rt_runtime[i] \in Nat
          <6>1. rt_runtime \in Runtime
            BY DEF TypeOK, Runtime
          <6> QED BY <2>2, <6>1, SharesFit
        <5>3. b.runtime[i] \in Int /\ b.runtime[i] >= 0
          BY <1>3
        <5> QED BY <1>4, <5>1, <5>2, <5>3, S64Exact
      <4>1. part = IF b.runtime[i] <= b.want THEN b.runtime[i] ELSE b.want
        BY <1>2, <3>1, <4>0, MinOf
      <4> HIDE DEF part
      <4>2. b.runtime[i] \in 0 .. U64 - 1 /\ b.runtime[i] # RUNTIME_INF
        BY <1>3, <1>7
      <4> QED BY <1>2, <1>4, <3>1, <4>1, <4>2 DEF RUNTIME_INF
    <3>2. CASE b.want < 0
      <4>1. part = b.want
        BY <1>2, <3>2
      <4> HIDE DEF part
      <4>2. b.runtime = rt_runtime /\ b.want = b_runtime - rt_runtime[c]
        BY <3>2 DEF Owing
      <4>3. 2 * (rt_runtime[c] + rt_runtime[i]) < U64
            /\ rt_runtime[c] \in Nat /\ rt_runtime[i] \in Nat
        <5>1. i \in Enabled /\ c \in Enabled \ {i} /\ rt_runtime \in Runtime
          BY <2>2 DEF TypeOK, Runtime
        <5> QED BY <5>1, SharesFit
      <4> QED BY <1>2, <1>4, <3>2, <4>1, <4>2, <4>3 DEF RUNTIME_INF
    <3> QED BY <1>2, <1>7, <3>1, <3>2
  <2> HIDE DEF part
  <2>4. (b.runtime[i] - part) % U64 = b.runtime[i] - part
    BY <1>4, <2>3
  <2>5. r[i] = b.runtime[i] - part /\ \A e \in Cpus \ {i} : r[e] = b.runtime[e]
    BY <1>2, <2>4 DEF Runtime
  <2> HIDE DEF r
  <2>6. SumFunctionOnSet(r, others) = SumFunctionOnSet(b.runtime, others) - b.runtime[i] + r[i]
    <3> DEFINE q == b.runtime
    <3>1. \A x \in others : b.runtime[x] \in Int /\ r[x] \in Int
      BY <1>1, <1>3, <2>3, <2>5
    <3>2. \A x \in others \ {i} : b.runtime[x] = r[x]
      BY <1>1, <2>5
    <3>3. IsFiniteSet(others) /\ (\A x \in others : q[x] \in Int /\ r[x] \in Int)
          /\ \A x \in others \ {i} : q[x] = r[x]
      BY <1>1, <3>1, <3>2
    <3>4. SumFunctionOnSet(r, others) = SumFunctionOnSet(q, others) - q[i] + r[i]
      <4> HIDE DEF others, q
      <4> QED BY <2>2, <3>3, SumChange
    <3> QED BY <3>4
  <2>7. SumFunctionOnSet(r, others) - t.want = SumFunctionOnSet(b.runtime, others) - b.want
    <3>1. b.runtime[i] \in Int
      BY <1>3
    <3> HIDE DEF others
    <3> QED BY <1>2, <1>5, <2>1, <2>3, <2>5, <2>6, <3>1
  <2>8. \A e \in Cpus : r[e] = RUNTIME_INF <=> e \notin Enabled
    <3>1. r[i] # RUNTIME_INF
      BY <2>3, <2>5
    <3> QED BY <2>2, <2>5, <3>1 DEF Owing
  <2>9. ~(t.want < 0)
    BY <1>2, <1>7, <2>1, <2>3
  <2>10. t.want > 0 => \A e \in others : e < i + 1 => r[e] = 0
    <3>1. SUFFICES ASSUME t.want > 0, NEW e \in others, e < i + 1 PROVE r[e] = 0
      OBVIOUS
    <3>2. b.want > 0 /\ part = b.runtime[i]
      BY <1>2, <1>7, <2>1, <2>3, <3>1
    <3>3. CASE e = i
      <4>1. b.runtime[i] \in Int
        BY <1>3
      <4> QED BY <2>5, <3>2, <3>3, <4>1
    <3>4. CASE e # i
      <4>1. e < i /\ e \in Cpus
        BY <1>1, <3>1, <3>4
      <4>2. b.runtime[e] = 0
        BY <3>2, <4>1 DEF Owing
      <4> QED BY <2>5, <3>4, <4>1, <4>2
    <3> QED BY <3>3, <3>4
  <2>11. t.want > 0 => \A e \in others : r[e] <= rt_runtime[e]
    <3>1. SUFFICES ASSUME t.want > 0, NEW e \in others PROVE r[e] <= rt_runtime[e]
      OBVIOUS
    <3>2. b.want > 0 /\ part = b.runtime[i]
      BY <1>2, <1>7, <2>1, <2>3, <3>1
    <3>3. b.runtime[e] <= rt_runtime[e] /\ e \in Cpus
      BY <1>1, <3>2 DEF Owing
    <3>4. CASE e # i
      BY <2>5, <3>3, <3>4
    <3>5. CASE e = i
      <4>1. b.runtime[i] \in Int /\ b.runtime[i] >= 0
        BY <1>3
      <4>2. rt_runtime[i] \in Int
        <5>1. rt_runtime \in [Cpus -> 0 .. U64 - 1]
          BY DEF TypeOK
        <5> QED BY <5>1
      <4> QED BY <2>5, <3>2, <3>3, <3>5, <4>1, <4>2
    <3> QED BY <3>4, <3>5
  <2>12. Owing(c, t, i + 1)
    <3> HIDE DEF others, t
    <3> QED BY <2>1, <2>7, <2>8, <2>9, <2>10, <2>11 DEF Owing, others
  <2> QED BY <2>12
<1> QED BY <1>6, <1>7

\* "We cannot be left wanting": when the runtimes are what is allotted, c gets
\* back all it lent, and the others are left with their allotment.
LEMMA AllTakenBack ==
  ASSUME TypeOK, b_runtime \in Limits, Allotted(rt_runtime, b_runtime), NEW c \in Enabled
  PROVE  LET d == disable_runtime(c) IN
         /\ d.want = 0
         /\ SumFunctionOnSet(d.runtime, Enabled \ {c}) = (Cardinality(Enabled) - 1) * b_runtime
         /\ \A e \in Cpus \ Enabled : d.runtime[e] = RUNTIME_INF
<1> DEFINE others == Enabled \ {c}
           d == disable_runtime(c)
           n == Cardinality(Enabled)
<1>1. Enabled \subseteq Cpus /\ IsFiniteSet(Enabled) /\ c \in Cpus /\ rt_runtime \in Runtime
  BY EnabledIs DEF TypeOK, Runtime
<1>2. /\ SumFunctionOnSet(rt_runtime, others) - (b_runtime - rt_runtime[c]) = (n - 1) * b_runtime
      /\ S64(b_runtime - rt_runtime[c]) = b_runtime - rt_runtime[c]
      /\ b_runtime \in Nat /\ n \in Nat \ {0}
  BY WantingFirst
<1>3. /\ rt_runtime[c] \in Nat /\ rt_runtime[c] # RUNTIME_INF
      /\ \A x \in others : rt_runtime[x] \in Int
  BY <1>1, SharesFit
<1>4. IsFiniteSet(others) /\ SumFunctionOnSet(rt_runtime, others) \in Int
  <2>1. IsFiniteSet(others)
    BY <1>1, FS_Subset
  <2> QED BY <1>3, <2>1, SumType
<1>5. CASE rt_runtime[c] = b_runtime
  <2>1. d = [runtime |-> rt_runtime, want |-> 0]
    BY <1>5 DEF disable_runtime
  <2>2. d.runtime = rt_runtime /\ d.want = 0
    BY <2>1
  <2> HIDE DEF d, n, others
  <2>3. SumFunctionOnSet(rt_runtime, others) = (n - 1) * b_runtime
    BY <1>2, <1>3, <1>4, <1>5
  <2> QED BY <2>2, <2>3 DEF d, n, others, Allotted
<1>6. CASE rt_runtime[c] # b_runtime
  <2>1. PICK f \in [0 .. NCpus -> Reclaiming] :
           /\ f[0] = [runtime |-> rt_runtime, want |-> S64(b_runtime - rt_runtime[c])]
           /\ \A i \in 1 .. NCpus : f[i] = TakeBack(f[i - 1], i - 1, c)
           /\ disable_runtime(c) = f[NCpus]
    BY <1>1, <1>3, <1>6, DisableLoop
  <2>2. NCpus \in Nat /\ Cpus \subseteq Nat
    BY Widths
  <2> DEFINE Good == {i \in 0 .. NCpus : Owing(c, f[i], i)}
  <2>3. 0 \in Good
    <3>1. f[0].runtime = rt_runtime /\ f[0].want = b_runtime - rt_runtime[c]
      BY <1>2, <2>1
    <3>2. \A e \in others : ~(e < 0)
      BY <1>1, <2>2
    <3>3. \A e \in Cpus : rt_runtime[e] = RUNTIME_INF <=> e \notin Enabled
      BY <1>1, SharesFit DEF Allotted
    <3>4. \A e \in others : f[0].runtime[e] <= rt_runtime[e]
      BY <1>3, <3>1
    <3>5. Owing(c, f[0], 0)
      <4> HIDE DEF others, n
      <4> QED BY <1>2, <3>1, <3>2, <3>3, <3>4 DEF Owing, others, n
    <3> QED BY <2>2, <3>5
  <2>4. ASSUME NEW i \in 1 .. NCpus, i - 1 \in Good PROVE i \in Good
    <3>1. i - 1 \in Cpus /\ i - 1 \in 0 .. NCpus /\ (i - 1) + 1 = i
      BY <2>2 DEF Cpus
    <3>2. f[i - 1] \in Reclaiming /\ Owing(c, f[i - 1], i - 1)
      BY <2>1, <2>4, <3>1
    <3>3. Owing(c, TakeBack(f[i - 1], i - 1, c), (i - 1) + 1)
      BY <3>1, <3>2, OwingKept
    <3> QED BY <2>1, <3>1, <3>3
  <2>5. NCpus \in Good
    <3> HIDE DEF Good
    <3> QED BY <2>2, <2>3, <2>4, Upwards
  <2>6. Owing(c, d, NCpus) /\ d \in Reclaiming
    <3>1. NCpus \in 0 .. NCpus
      BY <2>2
    <3> QED BY <2>1, <2>5, <3>1
  <2> HIDE DEF d
  <2>7. d.want \in Int /\ d.runtime \in Runtime
    BY <2>6 DEF Reclaiming
  <2>8. \A e \in others : e < NCpus
    BY <1>1, <2>2 DEF Cpus
  <2>9. SumFunctionOnSet(d.runtime, others) - d.want = (n - 1) * b_runtime
    BY <2>6 DEF Owing
  <2>10. ~(d.want > 0)
    <3>1. SUFFICES ASSUME d.want > 0 PROVE FALSE
      OBVIOUS
    <3>2. \A e \in others : d.runtime[e] = 0
      BY <2>6, <2>8, <3>1 DEF Owing
    <3>3. SumFunctionOnSet(d.runtime, others) = 0
      BY <1>4, <3>2, SumZero
    <3>4. (n - 1) * b_runtime \in Nat
      BY <1>2
    <3> HIDE DEF n, others
    <3> QED BY <2>7, <2>9, <3>1, <3>3, <3>4
  <2>11. ~(d.want < 0)
    <3>1. SUFFICES ASSUME d.want < 0 PROVE FALSE
      OBVIOUS
    <3>2. others = {}
      BY <2>6, <2>8, <3>1 DEF Owing
    <3>3. Enabled = {c}
      BY <3>2
    <3>4. n = 1
      BY <3>3, FS_Singleton
    <3>5. SumFunctionOnSet(d.runtime, others) = 0
      BY <1>4, <3>2, SumZero
    <3> HIDE DEF n, others
    <3>6. (n - 1) * b_runtime = 0
      BY <1>2, <3>4
    <3> QED BY <2>7, <2>9, <3>1, <3>5, <3>6
  <2>12. d.want = 0
    BY <2>7, <2>10, <2>11
  <2>13. SumFunctionOnSet(d.runtime, others) = (n - 1) * b_runtime
    <3>1. \A x \in others : d.runtime[x] \in Int
      <4>1. Lengths(d.runtime)
        BY <2>7, RuntimesAreLengths DEF Runtime
      <4> QED BY <1>1, <4>1 DEF Lengths
    <3>2. SumFunctionOnSet(d.runtime, others) \in Int
      BY <1>4, <3>1, SumType
    <3> HIDE DEF n, others
    <3> QED BY <2>9, <2>12, <3>2
  <2> QED BY <2>6, <2>12, <2>13 DEF Owing, d
<1> QED BY <1>5, <1>6

\* Without a limit nothing is owed.
LEMMA NothingWanting ==
  ASSUME NEW c \in Cpus, rt_runtime[c] \in {RUNTIME_INF, b_runtime}
  PROVE  disable_runtime(c) = [runtime |-> rt_runtime, want |-> 0]
BY DEF disable_runtime

-----------------------------------------------------------------------------
(* The initial state. *)

LEMMA InitInv ==
  ASSUME Init
  PROVE  IInv
<1>1. /\ BootRuntime \in 1 .. Period /\ Period \in Nat /\ U64 \in Nat /\ 2 * Period < U64
      /\ MaxTime \in Nat /\ NCpus \in Nat /\ NCpus >= 1 /\ IsFiniteSet(Cpus)
      /\ BootRuntime # RUNTIME_INF
  BY Widths DEF RUNTIME_INF
<1>2. TypeOK
  <2>1. BootRuntime \in 0 .. U64 - 1 /\ MaxWrites \in Nat
    BY <1>1, RtBandwidthAssumption
  <2>2. 0 \in 0 .. NCpus /\ 0 \in Nat /\ 0 \in 0 .. MaxTime /\ 0 \in 0 .. MaxWrites
    BY <1>1, <2>1
  <2>3. TimerOff \in [state : {"off", "armed", "running"}, at : 0 .. NCpus, overrun : Nat,
                      idle : BOOLEAN, throttled : BOOLEAN]
    BY <2>2 DEF TimerOff
  <2>4. 0 \in 0 .. 1 /\ BootRuntime \in Int
    BY <1>1
  <2> QED BY <2>1, <2>2, <2>3, <2>4 DEF Init, TypeOK
<1>3. SettingsOK
  BY <1>1 DEF Init, SettingsOK, Settings, Limits
<1>4. Holders /\ Within /\ TimerSeen /\ Stopped
  BY <1>1 DEF Init, Holders, Holder, Within, Over, TimerSeen, Seen, Stopped, Needing, OnlineCpus
<1>5. Conserved
  <2>1. Enabled = Cpus /\ Limit = BootRuntime /\ \A c \in Cpus : rt_runtime[c] = BootRuntime
    BY DEF Init, Enabled, Limit
  <2>2. Total(Cpus) = Cardinality(Cpus) * BootRuntime
    BY <1>1, <2>1, SumConst DEF Total
  <2> QED BY <1>1, <2>1, <2>2 DEF Conserved, Shared
<1> QED BY <1>2, <1>3, <1>4, <1>5 DEF IInv

-----------------------------------------------------------------------------
(* Every step keeps the types. *)

TimerType == [state : {"off", "armed", "running"}, at : 0 .. NCpus, overrun : Nat,
              idle : BOOLEAN, throttled : BOOLEAN]

LEMMA TimerTypes ==
  /\ TimerOff \in TimerType /\ TimerArmed \in TimerType
  /\ \A n \in 1 .. MaxOverrun :
       [TimerArmed EXCEPT !.state = "running", !.overrun = n] \in TimerType
<1>1. 0 \in 0 .. NCpus /\ 0 \in Nat /\ 1 .. MaxOverrun \subseteq Nat
  BY Widths
<1> QED BY <1>1 DEF TimerOff, TimerArmed, TimerType

LEMMA StartType ==
  ASSUME TypeOK, NEW c \in Cpus, start_rt_bandwidth(c)
  PROVE  timer' \in TimerType /\ unstarted' \subseteq Cpus
BY TimerTypes DEF start_rt_bandwidth, TypeOK, TimerType

LEMMA DisableTypes ==
  ASSUME TypeOK, NEW c \in Cpus, Disable(c)
  PROVE  /\ rt_runtime' \in Runtime /\ wanting' \in BOOLEAN /\ reclaimed' \subseteq Cpus
         /\ held' \in [Cpus -> {"no", "balance", "throttle", "timer balance", "refill", "stuck"}]
<1> DEFINE d == disable_runtime(c)
<1>1. d.runtime \in Runtime
  BY DisableType DEF Reclaiming
<1>2. RUNTIME_INF \in 0 .. U64 - 1
  BY Widths DEF RUNTIME_INF
<1>3. rt_runtime' = [d.runtime EXCEPT ![c] = RUNTIME_INF]
  BY DEF Disable
<1> HIDE DEF d
<1>4. rt_runtime' \in Runtime
  BY <1>1, <1>2, <1>3 DEF Runtime
<1>5. /\ wanting' \in BOOLEAN /\ reclaimed' \subseteq Cpus
      /\ held' \in [Cpus -> {"no", "balance", "throttle", "timer balance", "refill", "stuck"}]
  BY DEF Disable, TypeOK
<1> QED BY <1>4, <1>5

LEMMA EnableTypes ==
  ASSUME TypeOK, NEW c \in Cpus, Enable(c)
  PROVE  /\ rt_runtime' \in Runtime /\ rt_time' \in [Cpus -> 0 .. MaxTime]
         /\ rt_throttled' \in [Cpus -> BOOLEAN] /\ mixed' \in BOOLEAN
<1>1. 0 \in 0 .. MaxTime
  BY Widths
<1> QED BY <1>1 DEF Enable, TypeOK, Runtime

\* What the sysctl says is a limit, or that there is none.
LEMMA GlobalRuntime ==
  ASSUME SettingsOK
  PROVE  /\ global_rt_runtime(sysctl) \in 0 .. U64 - 1
         /\ global_rt_runtime(sysctl) \in Limits \cup {RUNTIME_INF}
<1>1. U64 \in Nat /\ U64 >= 2 /\ sysctl \in Int
  BY Widths DEF SettingsOK
<1>2. CASE sysctl < 0
  BY <1>1, <1>2 DEF global_rt_runtime, RUNTIME_INF
<1>3. CASE ~(sysctl < 0)
  <2>1. sysctl \in Limits
    BY <1>1, <1>3 DEF Limits, SettingsOK
  <2>2. sysctl \in Nat /\ 2 * sysctl < U64
    BY <2>1, Widths
  <2> QED BY <1>1, <1>3, <2>1, <2>2 DEF global_rt_runtime
<1> QED BY <1>2, <1>3

\* What is refilled.
LEMMA RefillTime ==
  ASSUME TypeOK, NEW c \in Cpus, Refill(c)
  PROVE  LET m == (timer.overrun * rt_runtime[c]) % U64 IN
         /\ m \in Nat
         /\ rt_time' = [rt_time EXCEPT ![c] = rt_time[c] - (IF rt_time[c] <= m THEN rt_time[c] ELSE m)]
         /\ rt_time' \in [Cpus -> 0 .. MaxTime] /\ rt_time'[c] <= rt_time[c]
<1> DEFINE m == (timer.overrun * rt_runtime[c]) % U64
<1>1. rt_time[c] \in 0 .. MaxTime /\ MaxTime \in Nat
  BY Widths DEF TypeOK
<1>2. m \in Nat
  <2>1. timer.overrun \in Nat /\ rt_runtime[c] \in 0 .. U64 - 1 /\ U64 \in Nat
    BY Widths DEF TypeOK
  <2>2. timer.overrun * rt_runtime[c] \in Int
    BY <2>1
  <2>3. m \in 0 .. U64 - 1
    BY <2>2, Wrapped
  <2> QED BY <2>1, <2>3
<1>3. rt_time' = [rt_time EXCEPT ![c] = rt_time[c] - Min({rt_time[c], m})]
  BY DEF Refill
<1> HIDE DEF m
<1>4. Min({rt_time[c], m}) = IF rt_time[c] <= m THEN rt_time[c] ELSE m
  BY <1>1, <1>2, MinOf
<1>5. rt_time' = [rt_time EXCEPT ![c] = rt_time[c] - (IF rt_time[c] <= m THEN rt_time[c] ELSE m)]
  BY <1>3, <1>4
<1>6. rt_time[c] - (IF rt_time[c] <= m THEN rt_time[c] ELSE m) \in 0 .. rt_time[c]
  BY <1>1, <1>2
<1> DEFINE t == rt_time[c] - (IF rt_time[c] <= m THEN rt_time[c] ELSE m)
<1>8. t \in 0 .. MaxTime /\ t <= rt_time[c]
  BY <1>1, <1>6
<1>9. rt_time \in [Cpus -> 0 .. MaxTime]
  BY DEF TypeOK
<1>7. rt_time' \in [Cpus -> 0 .. MaxTime] /\ rt_time'[c] <= rt_time[c]
  <2> HIDE DEF t
  <2>1. rt_time' = [rt_time EXCEPT ![c] = t]
    BY <1>5 DEF t
  <2> QED BY <1>8, <1>9, <2>1
<1> QED BY <1>2, <1>5, <1>7 DEF m

LEMMA TypeStep ==
  ASSUME IInv, [Next]_vars
  PROVE  TypeOK'
<1>1. TypeOK /\ SettingsOK /\ Holders
  BY DEF IInv
<1>21. timer \in TimerType /\ \A c \in Cpus : c + 1 \in 0 .. NCpus
  <2>1. timer \in TimerType
    BY <1>1 DEF TypeOK, TimerType
  <2>2. \A c \in Cpus : c + 1 \in 0 .. NCpus
    BY Widths DEF Cpus
  <2> QED BY <2>1, <2>2
<1>22. /\ rt_nr_running \in [Cpus -> 0 .. 1] /\ 0 \in 0 .. 1 /\ 1 \in 0 .. 1
       /\ unstarted \subseteq Cpus /\ reclaimed \subseteq Cpus
  <2>1. /\ rt_nr_running \in [Cpus -> 0 .. 1]
        /\ unstarted \subseteq Cpus /\ reclaimed \subseteq Cpus
    BY <1>1 DEF TypeOK
  <2>2. 0 \in 0 .. 1 /\ 1 \in 0 .. 1
    OBVIOUS
  <2> QED BY <2>1, <2>2
<1>2. ASSUME NEW c \in Cpus, Enqueue(c) PROVE TypeOK'
  <2>1. timer' \in TimerType /\ unstarted' \subseteq Cpus
    BY <1>1, <1>2, StartType DEF Enqueue
  <2>2. rt_nr_running' \in [Cpus -> 0 .. 1]
    BY <1>2, <1>22 DEF Enqueue
  <2> QED BY <1>1, <1>2, <2>1, <2>2 DEF Enqueue, TypeOK, TimerType, sysctlVars
<1>3. ASSUME NEW c \in Cpus, Dequeue(c) PROVE TypeOK'
  <2>1. rt_nr_running' \in [Cpus -> 0 .. 1] /\ unstarted' \subseteq Cpus
    BY <1>3, <1>22 DEF Dequeue
  <2> QED BY <1>1, <1>3, <2>1 DEF Dequeue, TypeOK, sysctlVars
<1>4. ASSUME NEW c \in Cpus, update_curr_rt(c) PROVE TypeOK'
  <2>1. rt_time' \in [Cpus -> 0 .. MaxTime]
    <3>1. rt_time[c] \in 0 .. MaxTime /\ rt_time[c] < MaxTime /\ MaxTime \in Nat
      BY <1>1, <1>4, Widths DEF TypeOK, update_curr_rt
    <3>2. rt_time[c] + 1 \in 0 .. MaxTime
      BY <3>1
    <3> QED BY <1>1, <1>4, <3>2 DEF update_curr_rt, TypeOK
  <2> QED BY <1>1, <1>4, <2>1 DEF update_curr_rt, TypeOK, sysctlVars
<1>5. ASSUME NEW c \in Cpus, BalanceRuntime(c) PROVE TypeOK'
  <2>1. do_balance_runtime(c) \in Runtime
    <3>1. PICK f \in [0 .. NCpus -> Balancing] : do_balance_runtime(c) = f[NCpus].runtime
      BY <1>1, BalanceLoop
    <3>2. NCpus \in 0 .. NCpus
      BY Widths
    <3> QED BY <3>1, <3>2 DEF Balancing
  <2> QED BY <1>1, <1>5, <2>1 DEF BalanceRuntime, TypeOK, Runtime, sysctlVars, history
<1>6. ASSUME NEW c \in Cpus, Throttle(c) PROVE TypeOK'
  <2>1. rt_time' \in [Cpus -> 0 .. MaxTime]
    <3>1. 0 \in 0 .. MaxTime
      BY Widths
    <3> QED BY <1>1, <1>6, <3>1 DEF Throttle, TypeOK
  <2>2. rt_throttled' \in [Cpus -> BOOLEAN]
    BY <1>1, <1>6 DEF Throttle, TypeOK
  <2> QED BY <1>1, <1>6, <2>1, <2>2 DEF Throttle, TypeOK, sysctlVars, history
<1>7. ASSUME NEW c \in Cpus, TimerVisits(c) PROVE TypeOK'
  <2>1. timer' \in TimerType
    <3>1. timer \in TimerType /\ timer.at + 1 \in 0 .. NCpus
      BY <1>7, <1>21 DEF TimerVisits
    <3>2. \A idle, throttled \in BOOLEAN :
            /\ [timer EXCEPT !.at = timer.at + 1, !.idle = idle, !.throttled = throttled] \in TimerType
            /\ [timer EXCEPT !.at = timer.at + 1] \in TimerType
      BY <3>1 DEF TimerType
    <3>3. timer.idle \in BOOLEAN /\ timer.throttled \in BOOLEAN /\ rt_throttled'[c] \in BOOLEAN
      BY <1>1, <1>7 DEF TimerVisits, TypeOK, rtVars
    <3> QED BY <1>7, <3>1, <3>2, <3>3 DEF TimerVisits, Passed
  <2> QED BY <1>1, <1>7, <2>1 DEF TimerVisits, Passed, TypeOK, TimerType, rtVars, sysctlVars, history
<1>8. ASSUME NEW c \in Cpus, Refill(c) PROVE TypeOK'
  <2>1. rt_time' \in [Cpus -> 0 .. MaxTime]
    BY <1>1, <1>8, RefillTime
  <2>2. rt_throttled' \in [Cpus -> BOOLEAN]
    BY <1>1, <1>8 DEF Refill, TypeOK
  <2>3. timer' \in TimerType
    <3>1. timer.at = c
      BY <1>1, <1>8 DEF Refill, Holders, Holder
    <3>2. timer \in TimerType /\ timer.at + 1 \in 0 .. NCpus
      BY <1>21, <3>1
    <3>3. \A idle, throttled \in BOOLEAN :
            [timer EXCEPT !.at = timer.at + 1, !.idle = idle, !.throttled = throttled] \in TimerType
      BY <3>2 DEF TimerType
    <3>4. timer.idle \in BOOLEAN /\ timer.throttled \in BOOLEAN /\ rt_throttled'[c] \in BOOLEAN
      BY <1>1, <2>2 DEF TypeOK
    <3> QED BY <1>8, <3>3, <3>4 DEF Refill, Passed
  <2> QED BY <1>1, <1>8, <2>1, <2>2, <2>3 DEF Refill, TypeOK, TimerType, sysctlVars, history
<1>9. ASSUME NEW c \in Cpus, DownPrepare(c) PROVE TypeOK'
  <2>1. /\ rt_runtime' \in Runtime /\ wanting' \in BOOLEAN /\ reclaimed' \subseteq Cpus
        /\ held' \in [Cpus -> {"no", "balance", "throttle", "timer balance", "refill", "stuck"}]
    BY <1>1, <1>9, DisableTypes DEF DownPrepare
  <2> QED BY <1>1, <1>9, <2>1 DEF DownPrepare, TypeOK, Runtime, sysctlVars
<1>10. ASSUME NEW c \in Cpus, DownFailed(c) PROVE TypeOK'
  <2>1. /\ rt_runtime' \in Runtime /\ rt_time' \in [Cpus -> 0 .. MaxTime]
        /\ rt_throttled' \in [Cpus -> BOOLEAN] /\ mixed' \in BOOLEAN
    BY <1>1, <1>10, EnableTypes DEF DownFailed
  <2> QED BY <1>1, <1>10, <2>1 DEF DownFailed, TypeOK, Runtime, sysctlVars
<1>11. ASSUME NEW c \in Cpus, CpuUp(c) PROVE TypeOK'
  BY <1>1, <1>11 DEF CpuUp, TypeOK, rtVars, sysctlVars, history
<1>12. ASSUME NEW c \in Cpus, Online(c) PROVE TypeOK'
  <2>1. /\ rt_runtime' \in Runtime /\ rt_time' \in [Cpus -> 0 .. MaxTime]
        /\ rt_throttled' \in [Cpus -> BOOLEAN] /\ mixed' \in BOOLEAN
    BY <1>1, <1>12, EnableTypes DEF Online
  <2> QED BY <1>1, <1>12, <2>1 DEF Online, TypeOK, Runtime, sysctlVars
<1>13. ASSUME NEW c \in Cpus, DyingStuck(c) PROVE TypeOK'
  BY <1>1, <1>13 DEF DyingStuck, TypeOK, rtVars, sysctlVars, history
<1>14. ASSUME NEW c \in Cpus, NEW d \in Cpus, Dying(c, d) PROVE TypeOK'
  <2>1. /\ rt_runtime' \in Runtime /\ wanting' \in BOOLEAN /\ reclaimed' \subseteq Cpus
        /\ held' \in [Cpus -> {"no", "balance", "throttle", "timer balance", "refill", "stuck"}]
    BY <1>1, <1>14, DisableTypes DEF Dying
  <2>2. timer' \in TimerType /\ unstarted' \subseteq Cpus
    <3>1. CASE start_rt_bandwidth(d)
      BY <1>1, <3>1, StartType
    <3>2. CASE UNCHANGED << timer, unstarted >>
      BY <1>1, <3>2 DEF TypeOK, TimerType
    <3> QED BY <1>14, <3>1, <3>2 DEF Dying
  <2>3. rt_nr_running' \in [Cpus -> 0 .. 1]
    BY <1>14, <1>22 DEF Dying
  <2> QED BY <1>1, <1>14, <2>1, <2>2, <2>3 DEF Dying, TypeOK, Runtime, TimerType, sysctlVars
<1>15. ASSUME NEW n \in 1 .. MaxOverrun, TimerExpires(n) PROVE TypeOK'
  <2>1. timer' \in TimerType
    BY <1>15, TimerTypes DEF TimerExpires
  <2> QED BY <1>1, <1>15, <2>1 DEF TimerExpires, TypeOK, TimerType, rtVars, sysctlVars, history
<1>16. ASSUME TimerReturns PROVE TypeOK'
  <2>1. timer' \in TimerType
    BY <1>16, TimerTypes DEF TimerReturns
  <2>2. unstarted' \subseteq Cpus
    BY <1>1, <1>16 DEF TimerReturns, TypeOK
  <2> QED BY <1>1, <1>16, <2>1, <2>2 DEF TimerReturns, TypeOK, TimerType, rtVars, sysctlVars
<1>17. ASSUME NEW v \in Runtimes, SysctlWrite(v) PROVE TypeOK'
  <2>1. writes' \in 0 .. MaxWrites /\ v \in Int
    <3>1. writes \in 0 .. MaxWrites /\ MaxWrites \in Nat /\ Runtimes \subseteq Int
      BY <1>1, RtBandwidthAssumption DEF TypeOK
    <3>2. writes < MaxWrites /\ writes' = writes + 1
      BY <1>17 DEF SysctlWrite
    <3> QED BY <3>1, <3>2
  <2> QED BY <1>1, <1>17, <2>1 DEF SysctlWrite, TypeOK, rtVars, history
<1>18. ASSUME SysctlConstraints PROVE TypeOK'
  <2>1. global_rt_runtime(sysctl) \in 0 .. U64 - 1
    BY <1>1, GlobalRuntime
  <2>3. /\ rt_runtime \in [Cpus -> 0 .. U64 - 1] /\ mixed \in BOOLEAN /\ sysctl \in Int
        /\ writer \in [at : {"no", "constraints", "store"}, old : Int]
    BY <1>1 DEF TypeOK
  <2>2. /\ rt_runtime' \in [Cpus -> 0 .. U64 - 1] /\ mixed' \in BOOLEAN /\ reclaimed' \subseteq Cpus
        /\ sysctl' \in Int /\ writer' \in [at : {"no", "constraints", "store"}, old : Int]
    BY <1>18, <1>22, <2>1, <2>3 DEF SysctlConstraints
  <2> QED BY <1>1, <1>18, <2>2 DEF SysctlConstraints, TypeOK
<1>19. ASSUME SysctlStore PROVE TypeOK'
  <2>1. global_rt_runtime(sysctl) \in 0 .. U64 - 1
    BY <1>1, GlobalRuntime
  <2> QED BY <1>1, <1>19, <2>1 DEF SysctlStore, TypeOK, rtVars, history
<1>20. ASSUME UNCHANGED vars PROVE TypeOK'
  BY <1>1, <1>20 DEF TypeOK, vars
<1> QED
  BY <1>2, <1>3, <1>4, <1>5, <1>6, <1>7, <1>8, <1>9, <1>10, <1>11, <1>12, <1>13, <1>14, <1>15,
     <1>16, <1>17, <1>18, <1>19, <1>20 DEF Next

-----------------------------------------------------------------------------
(* Every step keeps the settings, and what is known of those who hold a lock. *)

\* Only sched_rt_handler touches the settings.
LEMMA SettingsSame ==
  ASSUME [Next]_vars, ~ \E v \in Runtimes : SysctlWrite(v), ~SysctlConstraints, ~SysctlStore
  PROVE  UNCHANGED << b_runtime, sysctl, writer >>
<1>1. ASSUME NEW c \in Cpus,
             \/ Enqueue(c) \/ Dequeue(c) \/ update_curr_rt(c) \/ BalanceRuntime(c)
             \/ Throttle(c) \/ TimerVisits(c) \/ Refill(c) \/ DownPrepare(c) \/ DownFailed(c)
             \/ CpuUp(c) \/ Online(c) \/ DyingStuck(c) \/ \E d \in Cpus : Dying(c, d)
      PROVE  UNCHANGED sysctlVars
  BY <1>1 DEF Enqueue, Dequeue, update_curr_rt, BalanceRuntime, Throttle, TimerVisits, Refill,
     DownPrepare, DownFailed, CpuUp, Online, DyingStuck, Dying
<1>2. ASSUME NEW n \in 1 .. MaxOverrun, TimerExpires(n) PROVE UNCHANGED sysctlVars
  BY <1>2 DEF TimerExpires
<1>3. ASSUME TimerReturns PROVE UNCHANGED sysctlVars
  BY <1>3 DEF TimerReturns
<1>4. ASSUME UNCHANGED vars PROVE UNCHANGED sysctlVars
  BY <1>4 DEF vars, sysctlVars
<1>5. UNCHANGED sysctlVars
  BY <1>1, <1>2, <1>3, <1>4 DEF Next
<1> QED BY <1>5 DEF sysctlVars

LEMMA SettingsStep ==
  ASSUME IInv, [Next]_vars
  PROVE  SettingsOK'
<1>1. SettingsOK /\ writer \in [at : {"no", "constraints", "store"}, old : Int]
  BY DEF IInv, TypeOK
<1>2. ASSUME NEW v \in Runtimes, SysctlWrite(v) PROVE SettingsOK'
  BY <1>1, <1>2 DEF SysctlWrite, SettingsOK, Settings, Limits
<1>3. ASSUME SysctlConstraints PROVE SettingsOK'
  BY <1>1, <1>3 DEF SysctlConstraints, SettingsOK, Settings, Limits
<1>4. ASSUME SysctlStore PROVE SettingsOK'
  <2>1. global_rt_runtime(sysctl) \in Limits \cup {RUNTIME_INF}
    BY <1>1, GlobalRuntime
  <2> QED BY <1>1, <1>4, <2>1 DEF SysctlStore, SettingsOK, Settings, Limits
<1>5. ASSUME UNCHANGED << b_runtime, sysctl, writer >> PROVE SettingsOK'
  BY <1>1, <1>5 DEF SettingsOK, Settings, Limits
<1> QED BY <1>2, <1>3, <1>4, <1>5, SettingsSame

\* Who has runtime is enabled, if nothing is mixed up.
LEMMA LimitedIsEnabled ==
  ASSUME IInv, ~mixed, NEW c \in Cpus, rt_runtime[c] # RUNTIME_INF
  PROVE  c \in Enabled /\ Limit # RUNTIME_INF
BY DEF IInv, Conserved, Shared

\* Who is past its runtime has some.
LEMMA PastIsLimited ==
  ASSUME TypeOK, NEW c \in Cpus, rt_time[c] > rt_runtime[c]
  PROVE  rt_runtime[c] # RUNTIME_INF
<1>1. rt_time[c] \in 0 .. MaxTime
  BY DEF TypeOK
<1>2. U64 > 2 * MaxTime /\ U64 \in Nat /\ MaxTime \in Nat /\ U64 >= 2
  BY Widths
<1> QED BY <1>1, <1>2 DEF RUNTIME_INF

LEMMA HoldersStep ==
  ASSUME IInv, [Next]_vars
  PROVE  Holders'
<1>1. TypeOK /\ Holders /\ TimerSeen
  BY DEF IInv
<1>2. /\ held \in [Cpus -> {"no", "balance", "throttle", "timer balance", "refill", "stuck"}]
      /\ cpu \in [Cpus -> {"up", "down", "dead", "online", "online again", "stuck"}]
      /\ rt_nr_running \in [Cpus -> 0 .. 1] /\ rt_time \in [Cpus -> 0 .. MaxTime]
      /\ rt_throttled \in [Cpus -> BOOLEAN]
  BY <1>1 DEF TypeOK
<1>3. \A e \in Cpus : Holder(e)
  BY <1>1 DEF Holders
<1>4. SUFFICES ASSUME NEW e \in Cpus PROVE Holder(e)'
  BY DEF Holders
<1>5. ASSUME NEW c \in Cpus, Enqueue(c) PROVE Holder(e)'
  <2>1. held' = held /\ UNCHANGED << rt_throttled, rt_time, mixed, cpu >>
        /\ rt_nr_running'[c] = 1 /\ (e # c => rt_nr_running'[e] = rt_nr_running[e])
    BY <1>2, <1>5 DEF Enqueue
  <2>2. timer.state = "running" => timer' = timer
    BY <1>5 DEF Enqueue, start_rt_bandwidth
  <2>3. rt_nr_running[e] > 0 => rt_nr_running'[e] > 0
    <3>1. CASE e = c
      BY <2>1, <3>1
    <3>2. CASE e # c
      BY <2>1, <3>2
    <3> QED BY <3>1, <3>2
  <2>4. UNCHANGED << held, rt_throttled, rt_time, mixed, cpu >>
    BY <2>1
  <2> QED BY <1>3, <2>2, <2>3, <2>4 DEF Holder
<1>6. ASSUME NEW c \in Cpus, Dequeue(c) PROVE Holder(e)'
  <2>1. held' = held /\ UNCHANGED << rt_throttled, rt_time, mixed, cpu, timer >>
        /\ held[c] = "no" /\ (e # c => rt_nr_running'[e] = rt_nr_running[e])
    BY <1>2, <1>6 DEF Dequeue
  <2> QED BY <1>3, <2>1 DEF Holder
<1>7. ASSUME NEW c \in Cpus, update_curr_rt(c) PROVE Holder(e)'
  <2>1. /\ held'[c] \in {"no", "balance"} /\ rt_nr_running[c] > 0
        /\ UNCHANGED << rt_throttled, rt_nr_running, mixed, cpu, timer >>
        /\ e # c => held'[e] = held[e] /\ rt_time'[e] = rt_time[e]
    BY <1>2, <1>7 DEF update_curr_rt
  <2>2. mixed \/ cpu[c] \in {"up", "online again"}
    BY <1>7, LimitedIsEnabled DEF update_curr_rt, Enabled
  <2> QED BY <1>3, <2>1, <2>2 DEF Holder
<1>8. ASSUME NEW c \in Cpus, BalanceRuntime(c) PROVE Holder(e)'
  <2>1. /\ held[c] \in {"balance", "timer balance"}
        /\ held'[c] = IF held[c] = "balance" THEN "throttle" ELSE "refill"
        /\ UNCHANGED << rt_throttled, rt_nr_running, rt_time, mixed, cpu, timer >>
        /\ e # c => held'[e] = held[e]
    BY <1>2, <1>8 DEF BalanceRuntime, history
  <2>2. rt_throttled[c] => rt_time[c] > 0
    BY <1>1 DEF TimerSeen, Seen
  <2> QED BY <1>3, <2>1, <2>2 DEF Holder
<1>9. ASSUME NEW c \in Cpus, Throttle(c) PROVE Holder(e)'
  <2>1. /\ held'[c] = "no"
        /\ UNCHANGED << rt_nr_running, mixed, cpu, timer >>
        /\ e # c => held'[e] = held[e] /\ rt_throttled'[e] = rt_throttled[e]
                    /\ rt_time'[e] = rt_time[e]
    BY <1>2, <1>9 DEF Throttle, history
  <2> QED BY <1>3, <2>1 DEF Holder
<1>10. ASSUME NEW c \in Cpus, TimerVisits(c) PROVE Holder(e)'
  <2>1. timer.state = "running" /\ timer.at = c /\ held[c] = "no"
        /\ UNCHANGED << rt_throttled, rt_nr_running, rt_time, mixed, cpu >>
    BY <1>10 DEF TimerVisits, rtVars, history
  <2>2. CASE held' = held
    <3>1. e # c => held[e] \notin {"timer balance", "refill"}
      BY <1>3, <2>1 DEF Holder
    <3> QED BY <1>3, <2>1, <2>2, <3>1 DEF Holder
  <2>3. CASE held' # held
    <3>1. /\ rt_time[c] # 0 /\ timer' = timer
          /\ held' = [held EXCEPT ![c] =
               IF rt_throttled[c] /\ rt_time[c] > rt_runtime[c] THEN "timer balance" ELSE "refill"]
      BY <1>10, <2>3 DEF TimerVisits, Passed
    <3>2. rt_time[c] > 0
      <4>1. rt_time[c] \in 0 .. MaxTime
        BY <1>2
      <4>2. rt_time[c] # 0
        BY <3>1
      <4> QED BY <4>1, <4>2
    <3>3. held'[c] = "timer balance" => mixed \/ cpu[c] \in {"up", "online again"}
      <4>1. SUFFICES ASSUME held'[c] = "timer balance", ~mixed
                     PROVE cpu[c] \in {"up", "online again"}
        OBVIOUS
      <4>2. rt_time[c] > rt_runtime[c]
        BY <1>2, <3>1, <4>1
      <4> QED BY <1>1, <4>1, <4>2, PastIsLimited, LimitedIsEnabled DEF Enabled
    <3>4. /\ held'[c] \in {"timer balance", "refill"}
          /\ held'[c] = "timer balance" => rt_throttled[c]
          /\ e # c => held'[e] = held[e]
      BY <1>2, <3>1
    <3> QED BY <1>3, <2>1, <3>1, <3>2, <3>3, <3>4 DEF Holder
  <2> QED BY <2>2, <2>3
<1>11. ASSUME NEW c \in Cpus, Refill(c) PROVE Holder(e)'
  <2>1. held[c] = "refill" /\ held'[c] = "no" /\ UNCHANGED << rt_nr_running, mixed, cpu >>
        /\ (e # c => held'[e] = held[e] /\ rt_time'[e] = rt_time[e]
                     /\ rt_throttled'[e] = rt_throttled[e])
    BY <1>2, <1>11 DEF Refill, history
  <2>2. e # c => held[e] \notin {"timer balance", "refill"}
    BY <1>3, <2>1 DEF Holder
  <2> QED BY <1>3, <2>1, <2>2 DEF Holder
<1>12. ASSUME NEW c \in Cpus, DownPrepare(c) PROVE Holder(e)'
  <2>1. /\ held[c] = "no" /\ UNCHANGED << rt_nr_running, rt_time, rt_throttled, timer >>
        /\ mixed => mixed'
        /\ e # c => cpu'[e] = cpu[e]
        /\ held'[e] = held[e] \/ held'[e] = "stuck"
    BY <1>2, <1>12 DEF DownPrepare, Disable
  <2> QED BY <1>3, <2>1 DEF Holder
<1>13. ASSUME NEW c \in Cpus, Enable(c), held[c] = "no", e # c => cpu'[e] = cpu[e],
              UNCHANGED << held, rt_nr_running, timer >>
       PROVE  Holder(e)'
  <2>1. (mixed => mixed') /\ (e # c => rt_time'[e] = rt_time[e] /\ rt_throttled'[e] = rt_throttled[e])
    BY <1>2, <1>13 DEF Enable
  <2> QED BY <1>3, <1>13, <2>1 DEF Holder
<1>14. ASSUME NEW c \in Cpus, DownFailed(c) \/ Online(c) PROVE Holder(e)'
  <2>1. Enable(c) /\ held[c] = "no" /\ (e # c => cpu'[e] = cpu[e])
        /\ UNCHANGED << held, rt_nr_running, timer >>
    BY <1>2, <1>14 DEF DownFailed, Online
  <2> QED BY <1>13, <2>1
<1>15. ASSUME NEW c \in Cpus, CpuUp(c) PROVE Holder(e)'
  <2>1. cpu[c] = "dead" /\ (e # c => cpu'[e] = cpu[e])
        /\ UNCHANGED << rt_nr_running, rt_time, rt_throttled, held, timer, mixed >>
    BY <1>2, <1>15 DEF CpuUp, rtVars, history
  <2> QED BY <1>3, <2>1 DEF Holder
<1>16. ASSUME NEW c \in Cpus, DyingStuck(c) PROVE Holder(e)'
  BY <1>16 DEF DyingStuck, Holder
<1>17. ASSUME NEW c \in Cpus, NEW d \in Cpus, Dying(c, d) PROVE Holder(e)'
  <2>1. held'[e] \in {"no", "stuck"}
    BY <1>17 DEF Dying, Disable
  <2> QED BY <2>1 DEF Holder
<1>18. ASSUME NEW n \in 1 .. MaxOverrun, TimerExpires(n) PROVE Holder(e)'
  <2>1. held[e] \notin {"timer balance", "refill"}
    BY <1>3, <1>18 DEF TimerExpires, Holder
  <2> QED BY <1>3, <1>18, <2>1 DEF TimerExpires, Holder, rtVars, history
<1>19. ASSUME TimerReturns PROVE Holder(e)'
  <2>1. e # NCpus
    BY Widths DEF Cpus
  <2>2. held[e] \notin {"timer balance", "refill"}
    BY <1>3, <1>19, <2>1 DEF TimerReturns, Holder
  <2> QED BY <1>3, <1>19, <2>2 DEF TimerReturns, Holder, rtVars
<1>20. ASSUME NEW v \in Runtimes, SysctlWrite(v) PROVE Holder(e)'
  BY <1>3, <1>20 DEF SysctlWrite, Holder, rtVars, history
<1>21. ASSUME SysctlConstraints PROVE Holder(e)'
  <2>1. UNCHANGED << rt_nr_running, rt_time, rt_throttled, held, timer, cpu >>
    BY <1>21 DEF SysctlConstraints
  <2>2. (mixed => mixed') \/ mixed' \/ cpu[e] = "up"
    BY <1>21 DEF SysctlConstraints
  <2>3. held[e] \in {"balance", "timer balance"} => mixed' \/ cpu[e] \in {"up", "online again"}
    BY <1>3, <2>2 DEF Holder
  <2> QED BY <1>3, <2>1, <2>3 DEF Holder
<1>22. ASSUME SysctlStore PROVE Holder(e)'
  BY <1>3, <1>22 DEF SysctlStore, Holder, rtVars, history
<1>23. ASSUME UNCHANGED vars PROVE Holder(e)'
  BY <1>3, <1>23 DEF vars, Holder
<1> QED
  BY <1>5, <1>6, <1>7, <1>8, <1>9, <1>10, <1>11, <1>12, <1>14, <1>15, <1>16, <1>17, <1>18, <1>19,
     <1>20, <1>21, <1>22, <1>23 DEF Next

-----------------------------------------------------------------------------
(* Nobody is left wanting, and no wakeup of the timer is missed. *)

\* What is allotted while no write is in progress.
LEMMA SharedIsAllotted ==
  ASSUME IInv, ~mixed
  PROVE  /\ Limit \in Limits \cup {RUNTIME_INF}
         /\ Limit = RUNTIME_INF => \A c \in Cpus : rt_runtime[c] = RUNTIME_INF
         /\ Limit # RUNTIME_INF => Allotted(rt_runtime, Limit)
<1>1. Limit \in Limits \cup {RUNTIME_INF}
  BY GlobalRuntime DEF IInv, SettingsOK, Limit
<1> QED BY <1>1 DEF IInv, Conserved, Shared, Allotted, Total

LEMMA NotWanting ==
  ASSUME IInv, ~mixed, writer.at # "store", NEW c \in Cpus
  PROVE  disable_runtime(c).want = 0
<1>1. Limit = b_runtime /\ TypeOK
  BY DEF Limit, IInv
<1>2. CASE rt_runtime[c] = RUNTIME_INF
  <2>1. disable_runtime(c) = [runtime |-> rt_runtime, want |-> 0]
    BY <1>2, NothingWanting
  <2> QED BY <2>1
<1>3. CASE rt_runtime[c] # RUNTIME_INF
  <2>1. c \in Enabled /\ b_runtime # RUNTIME_INF
    BY <1>1, <1>3, LimitedIsEnabled
  <2>2. b_runtime \in Limits /\ Allotted(rt_runtime, b_runtime)
    BY <1>1, <2>1, SharedIsAllotted
  <2> QED BY <1>1, <2>1, <2>2, AllTakenBack
<1> QED BY <1>2, <1>3

LEMMA StoppedStep ==
  ASSUME IInv, [Next]_vars
  PROVE  Stopped'
<1>1. TypeOK /\ (wanting => mixed /\ \A c \in Cpus : held[c] = "stuck")
  BY DEF IInv, Stopped
<1>2. ASSUME NEW c \in Cpus, Disable(c), mixed' = (mixed \/ writer.at = "store") PROVE Stopped'
  <2>1. SUFFICES ASSUME wanting' PROVE mixed' /\ \A e \in Cpus : held'[e] = "stuck"
    BY DEF Stopped
  <2>2. \A e \in Cpus : held'[e] = "stuck"
    BY <1>2, <2>1 DEF Disable
  <2>3. disable_runtime(c).want # 0
    BY <1>2, <2>1 DEF Disable
  <2>4. mixed \/ writer.at = "store"
    BY <2>3, NotWanting
  <2> QED BY <1>2, <2>2, <2>4
<1>3. ASSUME NEW c \in Cpus, held[c] # "stuck", wanting' = wanting PROVE Stopped'
  BY <1>1, <1>3 DEF Stopped
<1>4. ASSUME UNCHANGED << wanting, held, mixed >> PROVE Stopped'
  BY <1>1, <1>4 DEF Stopped
<1>5. ASSUME NEW c \in Cpus,
             \/ Enqueue(c) \/ Dequeue(c) \/ update_curr_rt(c) \/ BalanceRuntime(c)
             \/ Throttle(c) \/ TimerVisits(c) \/ Refill(c) \/ DownFailed(c) \/ Online(c)
      PROVE  Stopped'
  <2>1. held[c] # "stuck" /\ wanting' = wanting
    BY <1>5 DEF Enqueue, Dequeue, update_curr_rt, BalanceRuntime, Throttle, TimerVisits, Refill,
       DownFailed, Online
  <2> QED BY <1>3, <2>1
<1>6. ASSUME NEW c \in Cpus, DownPrepare(c) PROVE Stopped'
  BY <1>2, <1>6 DEF DownPrepare
<1>7. ASSUME NEW c \in Cpus, NEW d \in Cpus, Dying(c, d) PROVE Stopped'
  BY <1>2, <1>7 DEF Dying
<1>8. ASSUME NEW c \in Cpus, CpuUp(c) PROVE Stopped'
  BY <1>4, <1>8 DEF CpuUp, history
<1>9. ASSUME NEW c \in Cpus, DyingStuck(c) PROVE Stopped'
  BY <1>3, <1>9 DEF DyingStuck
<1>10. ASSUME NEW n \in 1 .. MaxOverrun, TimerExpires(n) PROVE Stopped'
  BY <1>4, <1>10 DEF TimerExpires, history
<1>11. ASSUME TimerReturns PROVE Stopped'
  BY <1>4, <1>11 DEF TimerReturns
<1>12. ASSUME NEW v \in Runtimes, SysctlWrite(v) PROVE Stopped'
  BY <1>4, <1>12 DEF SysctlWrite, history
<1>13. ASSUME SysctlConstraints PROVE Stopped'
  <2>1. 0 \in Cpus
    BY Widths DEF Cpus
  <2>2. held[0] # "stuck" /\ wanting' = wanting
    BY <1>13, <2>1 DEF SysctlConstraints
  <2> QED BY <1>3, <2>1, <2>2
<1>14. ASSUME SysctlStore PROVE Stopped'
  BY <1>4, <1>14 DEF SysctlStore, history
<1>15. ASSUME UNCHANGED vars PROVE Stopped'
  BY <1>4, <1>15 DEF vars
<1> QED
  BY <1>5, <1>6, <1>7, <1>8, <1>9, <1>10, <1>11, <1>12, <1>13, <1>14, <1>15 DEF Next

\* Who is queued starts the timer, or has missed it.
LEMMA StartSeen ==
  ASSUME TypeOK, NEW c \in Cpus, start_rt_bandwidth(c), NEW e \in Cpus
  PROVE  /\ timer'.state = "off" => timer = timer' /\ unstarted' = unstarted \cup {c}
         /\ timer'.state = "running" =>
              timer = timer' /\ (e \in unstarted => e \in unstarted')
              /\ (timer.at > c => c \in unstarted')
<1>1. TimerArmed.state = "armed"
  BY DEF TimerArmed, TimerOff
<1> QED BY <1>1 DEF start_rt_bandwidth

LEMMA TimerSeenStep ==
  ASSUME IInv, [Next]_vars
  PROVE  TimerSeen'
<1>1. TypeOK /\ Holders /\ TimerSeen
  BY DEF IInv
<1>2. /\ held \in [Cpus -> {"no", "balance", "throttle", "timer balance", "refill", "stuck"}]
      /\ cpu \in [Cpus -> {"up", "down", "dead", "online", "online again", "stuck"}]
      /\ rt_throttled \in [Cpus -> BOOLEAN]
      /\ timer \in TimerType
  BY <1>1 DEF TypeOK, TimerType
<1>3. rt_nr_running \in [Cpus -> 0 .. 1] /\ rt_time \in [Cpus -> 0 .. MaxTime]
  BY <1>1 DEF TypeOK
<1>4. \A e \in Cpus : Seen(e) /\ Holder(e)
  BY <1>1 DEF TimerSeen, Holders
<1>5. \A e \in Cpus : rt_time[e] \in Nat /\ rt_nr_running[e] \in 0 .. 1 /\ e \in Int
  <2>1. \A e \in Cpus : rt_time[e] \in 0 .. MaxTime /\ rt_nr_running[e] \in 0 .. 1
    BY <1>3
  <2> QED BY <2>1, Widths
<1>6. SUFFICES ASSUME NEW e \in Cpus PROVE Seen(e)'
  BY DEF TimerSeen
<1>7. ASSUME UNCHANGED << rt_throttled, rt_time, rt_nr_running, timer, cpu, unstarted >>
      PROVE  Seen(e)'
  BY <1>4, <1>7 DEF Seen, Needing
<1>8. ASSUME NEW c \in Cpus, Enqueue(c) PROVE Seen(e)'
  <2>1. /\ UNCHANGED << rt_throttled, rt_time, cpu >> /\ start_rt_bandwidth(c)
        /\ cpu[c] # "dead" /\ (e # c => rt_nr_running'[e] = rt_nr_running[e])
    BY <1>3, <1>8 DEF Enqueue, OnlineCpus
  <2>2. Seen(e)
    BY <1>4
  <2>3. CASE e = c
    <3>1. timer'.state = "off" => c \in unstarted'
      BY <1>1, <2>1, StartSeen
    <3>2. timer'.state = "running" /\ timer'.at > c => c \in unstarted'
      BY <1>1, <2>1, StartSeen
    <3> QED BY <2>1, <2>2, <2>3, <3>1, <3>2 DEF Seen, Needing
  <2>4. CASE e # c
    <3>1. Needing(e)' => Needing(e)
      BY <2>1, <2>4 DEF Needing
    <3>2. timer'.state = "off" => timer = timer' /\ (e \in unstarted => e \in unstarted')
      BY <1>1, <2>1, StartSeen
    <3>3. timer'.state = "running" => timer = timer' /\ (e \in unstarted => e \in unstarted')
      BY <1>1, <2>1, StartSeen
    <3>4. rt_nr_running'[e] = rt_nr_running[e] /\ UNCHANGED << rt_throttled, rt_time, cpu >>
      BY <2>1, <2>4
    <3> QED BY <2>2, <3>1, <3>2, <3>3, <3>4 DEF Seen
  <2> QED BY <2>3, <2>4
<1>9. ASSUME NEW c \in Cpus, Dequeue(c) PROVE Seen(e)'
  <2>1. /\ UNCHANGED << rt_throttled, rt_time, cpu, timer >>
        /\ rt_nr_running'[c] = 0
        /\ e # c => rt_nr_running'[e] = rt_nr_running[e] /\ (e \in unstarted => e \in unstarted')
        /\ rt_throttled[c] => unstarted' = unstarted
    BY <1>3, <1>9 DEF Dequeue
  <2>2. Seen(e)
    BY <1>4
  <2>3. Needing(e)' => Needing(e) /\ (e \in unstarted => e \in unstarted')
    <3>1. CASE e = c
      <4>1. ~(0 > 0)
        OBVIOUS
      <4> QED BY <2>1, <3>1, <4>1 DEF Needing
    <3>2. CASE e # c
      BY <2>1, <3>2 DEF Needing
    <3> QED BY <3>1, <3>2
  <2>4. rt_nr_running'[e] = 0 \/ rt_nr_running'[e] = rt_nr_running[e]
    BY <2>1
  <2>5. UNCHANGED << rt_throttled, rt_time, cpu, timer >>
    BY <2>1
  <2> QED BY <2>2, <2>3, <2>4, <2>5 DEF Seen
<1>10. ASSUME NEW c \in Cpus, update_curr_rt(c) PROVE Seen(e)'
  <2>1. /\ UNCHANGED << rt_throttled, rt_nr_running, cpu, timer, unstarted >>
        /\ ~rt_throttled[c] /\ (e # c => rt_time'[e] = rt_time[e])
    BY <1>3, <1>10 DEF update_curr_rt
  <2> QED BY <1>4, <2>1 DEF Seen, Needing
<1>11. ASSUME NEW c \in Cpus, BalanceRuntime(c) PROVE Seen(e)'
  BY <1>7, <1>11 DEF BalanceRuntime, history
<1>12. ASSUME NEW c \in Cpus, Throttle(c) PROVE Seen(e)'
  <2>1. /\ held[c] = "throttle" /\ UNCHANGED << rt_nr_running, cpu, timer, unstarted >>
        /\ e # c => rt_throttled'[e] = rt_throttled[e] /\ rt_time'[e] = rt_time[e]
    BY <1>2, <1>3, <1>12 DEF Throttle, history
  <2>2. rt_throttled'[c] => rt_time'[c] > 0
    <3>1. SUFFICES ASSUME rt_throttled'[c] PROVE rt_time'[c] > 0
      OBVIOUS
    <3>2. rt_time[c] > rt_runtime[c] /\ b_runtime # 0
      BY <1>2, <1>12, <3>1 DEF Throttle
    <3>3. rt_time'[c] = rt_time[c]
      BY <1>3, <1>12, <3>2 DEF Throttle
    <3>4. rt_runtime[c] \in 0 .. U64 - 1
      BY <1>1 DEF TypeOK
    <3>5. rt_time[c] > 0
      BY <1>5, <3>2, <3>4
    <3> QED BY <3>3, <3>5
  <2>3. rt_nr_running[c] > 0
    BY <1>4, <2>1 DEF Holder
  <2>4. Needing(e)' => Needing(e)
    BY <2>1, <2>3 DEF Needing
  <2>5. rt_throttled'[e] => rt_time'[e] > 0
    <3>1. CASE e = c
      BY <2>2, <3>1
    <3>2. CASE e # c
      BY <1>4, <2>1, <3>2 DEF Seen
    <3> QED BY <3>1, <3>2
  <2> QED BY <1>4, <2>1, <2>4, <2>5 DEF Seen
<1>13. ASSUME NEW c \in Cpus, TimerVisits(c) PROVE Seen(e)'
  <2>1. /\ timer.state = "running" /\ timer.at = c
        /\ UNCHANGED << rt_throttled, rt_time, rt_nr_running, cpu, unstarted >>
    BY <1>13 DEF TimerVisits, rtVars, history
  <2>2. CASE timer' = timer
    BY <1>7, <2>1, <2>2
  <2>3. CASE c \notin OnlineCpus /\ timer' = [timer EXCEPT !.at = @ + 1]
    <3>1. timer'.state = "running" /\ timer'.at = c + 1 /\ timer'.idle = timer.idle
      BY <1>2, <2>1, <2>3 DEF TimerType
    <3>2. cpu[c] = "dead"
      BY <2>3 DEF OnlineCpus
    <3>3. timer'.at > e => timer.at > e \/ e = c
      BY <1>5, <2>1, <3>1
    <3> QED BY <1>4, <2>1, <3>1, <3>2, <3>3 DEF Seen, Needing
  <2>4. CASE rt_time[c] = 0 /\ Passed(c, rt_nr_running[c] > 0)
    <3>1. /\ timer'.state = "running" /\ timer'.at = c + 1
          /\ timer'.idle = (timer.idle /\ ~(rt_nr_running[c] > 0))
      BY <1>2, <2>1, <2>4 DEF TimerType, Passed
    <3>2. timer'.at > e => timer.at > e \/ e = c
      BY <1>5, <2>1, <3>1
    <3>3. timer'.idle => timer.idle /\ ~(rt_nr_running[c] > 0)
      BY <3>1
    <3>4. ~rt_throttled[c]
      <4>1. ~(0 > 0)
        OBVIOUS
      <4> QED BY <1>4, <2>4, <4>1 DEF Seen
    <3>5. timer'.idle => ~Needing(c)
      BY <3>3, <3>4 DEF Needing
    <3>6. timer'.state = "running"
      BY <3>1
    <3> QED BY <1>4, <2>1, <3>2, <3>3, <3>5, <3>6 DEF Seen, Needing
  <2> QED BY <1>13, <2>2, <2>3, <2>4 DEF TimerVisits
<1>14. ASSUME NEW c \in Cpus, Refill(c) PROVE Seen(e)'
  <2>1. /\ held[c] = "refill" /\ Passed(c, rt_time'[c] > 0 \/ rt_nr_running[c] > 0)
        /\ UNCHANGED << rt_nr_running, cpu, unstarted, rt_runtime >>
        /\ rt_throttled'[c] = (rt_throttled[c] /\ rt_time'[c] >= rt_runtime[c])
        /\ e # c => rt_throttled'[e] = rt_throttled[e] /\ rt_time'[e] = rt_time[e]
    BY <1>2, <1>3, <1>14 DEF Refill, history
  <2>2. timer.state = "running" /\ timer.at = c /\ rt_time[c] > 0
    BY <1>4, <2>1 DEF Holder
  <2>3. rt_throttled'[c] => rt_time'[c] > 0
    <3> DEFINE m == (timer.overrun * rt_runtime[c]) % U64
    <3>1. SUFFICES ASSUME rt_throttled'[c] PROVE rt_time'[c] > 0
      OBVIOUS
    <3>2. rt_time'[c] >= rt_runtime[c] /\ rt_runtime[c] \in Nat
      <4>1. rt_runtime[c] \in Nat
        <5>1. rt_runtime[c] \in 0 .. U64 - 1
          BY <1>1 DEF TypeOK
        <5> QED BY <5>1
      <4>2. rt_time'[c] >= rt_runtime[c]
        <5>1. rt_throttled'[c] = (rt_throttled[c] /\ rt_time'[c] >= rt_runtime[c])
          BY <2>1
        <5> QED BY <3>1, <5>1, Zenon
      <4> QED BY <4>1, <4>2
    <3>3. CASE rt_runtime[c] = 0
      <4>1. timer.overrun \in Nat /\ U64 \in Nat /\ U64 >= 2
        BY <1>2, Widths DEF TimerType
      <4>2. m = 0
        BY <3>3, <4>1
      <4>3. rt_time' = [rt_time EXCEPT ![c] = rt_time[c] - (IF rt_time[c] <= m THEN rt_time[c] ELSE m)]
        BY <1>1, <1>14, RefillTime
      <4> HIDE DEF m
      <4>4. rt_time'[c] = rt_time[c] - (IF rt_time[c] <= m THEN rt_time[c] ELSE m)
        BY <1>3, <4>3
      <4> QED BY <1>5, <2>2, <4>2, <4>4
    <3>4. CASE rt_runtime[c] # 0
      <4>1. rt_time'[c] \in 0 .. MaxTime
        BY <1>1, <1>14, RefillTime
      <4> QED BY <3>2, <3>4, <4>1
    <3> QED BY <3>3, <3>4
  <2>4. /\ timer'.state = "running" /\ timer'.at = c + 1
        /\ timer'.idle = (timer.idle /\ ~(rt_time'[c] > 0 \/ rt_nr_running[c] > 0))
    BY <1>2, <2>1, <2>2 DEF TimerType, Passed
  <2>5. timer'.state = "running" /\ (timer'.at > e => timer.at > e \/ e = c)
    BY <1>5, <2>2, <2>4
  <2>6. timer'.idle => timer.idle /\ ~(rt_time'[c] > 0) /\ ~(rt_nr_running[c] > 0)
    BY <2>4
  <2>7. CASE e = c
    <3>1. timer'.idle => ~Needing(c)'
      BY <2>1, <2>3, <2>6 DEF Needing
    <3>2. cpu'[e] = cpu[e] /\ rt_nr_running'[e] = rt_nr_running[e]
      BY <2>1
    <3> QED BY <1>4, <2>3, <2>5, <2>7, <3>1, <3>2 DEF Seen
  <2>8. CASE e # c
    <3>1. UNCHANGED << rt_nr_running, cpu, unstarted >>
          /\ rt_throttled'[e] = rt_throttled[e] /\ rt_time'[e] = rt_time[e]
      BY <2>1, <2>8
    <3>2. timer'.idle => timer.idle
      BY <2>6
    <3> QED BY <1>4, <2>2, <2>5, <2>8, <3>1, <3>2 DEF Seen, Needing
  <2> QED BY <2>7, <2>8
<1>15. ASSUME NEW c \in Cpus, DownPrepare(c) PROVE Seen(e)'
  <2>1. /\ UNCHANGED << rt_throttled, rt_time, rt_nr_running, timer, unstarted >>
        /\ cpu[c] = "up" /\ cpu'[c] = "down" /\ (e # c => cpu'[e] = cpu[e])
    BY <1>2, <1>15 DEF DownPrepare
  <2> QED BY <1>4, <2>1 DEF Seen, Needing
<1>16. ASSUME NEW c \in Cpus, DownFailed(c) \/ Online(c) PROVE Seen(e)'
  <2>1. /\ UNCHANGED << rt_nr_running, timer, unstarted >>
        /\ cpu[c] # "dead" /\ cpu'[c] # "dead" /\ (e # c => cpu'[e] = cpu[e])
    BY <1>2, <1>16 DEF DownFailed, Online
  <2>2. /\ ~rt_throttled'[c]
        /\ e # c => rt_throttled'[e] = rt_throttled[e] /\ rt_time'[e] = rt_time[e]
    BY <1>2, <1>3, <1>16 DEF DownFailed, Online, Enable
  <2>3. CASE e = c
    BY <1>4, <2>1, <2>2, <2>3 DEF Seen, Needing
  <2>4. CASE e # c
    BY <1>4, <2>1, <2>2, <2>4 DEF Seen, Needing
  <2> QED BY <2>3, <2>4
<1>17. ASSUME NEW c \in Cpus, CpuUp(c) PROVE Seen(e)'
  <2>1. /\ UNCHANGED << rt_throttled, rt_time, rt_nr_running, timer, unstarted >>
        /\ cpu[c] = "dead" /\ cpu'[c] = "online" /\ (e # c => cpu'[e] = cpu[e])
    BY <1>2, <1>17 DEF CpuUp, rtVars, history
  <2>2. ~(0 > 0)
    OBVIOUS
  <2>3. CASE e = c
    <3>1. rt_nr_running[c] = 0
      BY <1>4, <2>1 DEF Seen
    <3> QED BY <1>4, <2>1, <2>2, <2>3, <3>1 DEF Seen, Needing
  <2>4. CASE e # c
    BY <1>4, <2>1, <2>4 DEF Seen, Needing
  <2> QED BY <2>3, <2>4
<1>18. ASSUME NEW c \in Cpus, DyingStuck(c) PROVE Seen(e)'
  <2>1. /\ UNCHANGED << rt_throttled, rt_time, rt_nr_running, timer, unstarted >>
        /\ cpu[c] = "down" /\ cpu'[c] = "stuck" /\ (e # c => cpu'[e] = cpu[e])
    BY <1>2, <1>18 DEF DyingStuck, rtVars, history
  <2> QED BY <1>4, <2>1 DEF Seen, Needing
<1>19. ASSUME NEW c \in Cpus, NEW d \in Cpus, Dying(c, d) PROVE Seen(e)'
  <2>1. /\ UNCHANGED << rt_throttled, rt_time >> /\ timer.state # "running"
        /\ cpu[c] = "down" /\ cpu[d] = "up" /\ cpu' = [cpu EXCEPT ![c] = "dead"]
    BY <1>19 DEF Dying
  <2>2. cpu'[c] = "dead" /\ (e # c => cpu'[e] = cpu[e]) /\ c # d
    BY <1>2, <2>1
  <2>3. rt_nr_running'[c] = 0 /\ (e # c /\ e # d => rt_nr_running'[e] = rt_nr_running[e])
    <3>1. rt_nr_running' = [rt_nr_running EXCEPT ![c] = 0, ![d] = 1]
          \/ rt_nr_running' = [rt_nr_running EXCEPT ![c] = 0]
      BY <1>19 DEF Dying
    <3> QED BY <1>3, <2>2, <3>1
  <2>4. CASE e = c
    BY <1>4, <2>1, <2>2, <2>3, <2>4 DEF Seen, Needing
  <2>5. CASE e # c /\ start_rt_bandwidth(d)
    <3>1. timer'.state # "running" /\ (timer'.state = "off" => timer = timer' /\ unstarted' = unstarted \cup {d})
      BY <1>1, <2>1, <2>5, StartSeen
    <3>2. e # d => (Needing(e)' => Needing(e))
      BY <2>1, <2>2, <2>3, <2>5 DEF Needing
    <3>3. timer'.state = "off" /\ Needing(e)' => e \in unstarted'
      <4>1. CASE e = d
        BY <3>1, <4>1
      <4>2. CASE e # d
        BY <1>4, <3>1, <3>2, <4>2 DEF Seen
      <4> QED BY <4>1, <4>2
    <3>4. cpu'[e] = "dead" => rt_nr_running'[e] = 0
      <4>1. CASE e = d
        BY <2>1, <2>2, <2>5, <4>1
      <4>2. CASE e # d
        BY <1>4, <2>2, <2>3, <2>5, <4>2 DEF Seen
      <4> QED BY <4>1, <4>2
    <3>5. UNCHANGED << rt_throttled, rt_time >>
      BY <2>1
    <3> QED BY <1>4, <3>1, <3>3, <3>4, <3>5 DEF Seen
  <2>6. CASE e # c /\ ~start_rt_bandwidth(d)
    <3>1. rt_nr_running' = [rt_nr_running EXCEPT ![c] = 0] /\ UNCHANGED << timer, unstarted >>
      BY <1>19, <2>6 DEF Dying
    <3>2. rt_nr_running'[e] = rt_nr_running[e] /\ cpu'[e] = cpu[e]
      BY <1>3, <2>2, <2>6, <3>1
    <3> QED BY <1>4, <2>1, <3>1, <3>2 DEF Seen, Needing
  <2> QED BY <2>4, <2>5, <2>6
<1>20. ASSUME NEW n \in 1 .. MaxOverrun, TimerExpires(n) PROVE Seen(e)'
  <2>1. UNCHANGED << rt_throttled, rt_time, rt_nr_running, cpu, unstarted >>
    BY <1>20 DEF TimerExpires, rtVars, history
  <2>2. timer'.state = "running" /\ timer'.at = 0
    BY <1>20 DEF TimerExpires, TimerArmed, TimerOff
  <2>3. ~(timer'.at > e)
    BY <2>2, Widths DEF Cpus
  <2> QED BY <1>4, <2>1, <2>2, <2>3 DEF Seen
<1>21. ASSUME TimerReturns PROVE Seen(e)'
  <2>1. /\ UNCHANGED << rt_throttled, rt_time, rt_nr_running, cpu >>
        /\ timer.state = "running" /\ timer.at = NCpus
    BY <1>21 DEF TimerReturns, rtVars
  <2>2. timer.at > e
    BY <2>1, Widths DEF Cpus
  <2>3. CASE timer' = TimerArmed
    <3>1. timer'.state = "armed"
      BY <2>3 DEF TimerArmed, TimerOff
    <3> QED BY <1>4, <2>1, <3>1 DEF Seen
  <2>4. CASE timer' = TimerOff
    <3>1. timer'.state = "off" /\ TimerOff # TimerArmed
      BY <2>4 DEF TimerArmed, TimerOff
    <3>2. timer.idle \/ (\A c \in Cpus : rt_nr_running[c] > 0 \/ rt_throttled[c] => c \in unstarted')
      BY <1>21, <2>4, <3>1 DEF TimerReturns
    <3>3. e \in unstarted => e \in unstarted'
      BY <1>21, <2>4, <3>1 DEF TimerReturns
    <3>4. Needing(e) => e \in unstarted'
      <4>1. CASE timer.idle
        BY <1>4, <2>1, <2>2, <3>3, <4>1 DEF Seen
      <4>2. CASE ~timer.idle
        BY <3>2, <4>2 DEF Needing
      <4> QED BY <4>1, <4>2
    <3> QED BY <1>4, <2>1, <3>1, <3>4 DEF Seen, Needing
  <2> QED BY <1>21, <2>3, <2>4 DEF TimerReturns
<1>22. ASSUME NEW v \in Runtimes, SysctlWrite(v) PROVE Seen(e)'
  BY <1>7, <1>22 DEF SysctlWrite, rtVars, history
<1>23. ASSUME SysctlConstraints PROVE Seen(e)'
  BY <1>7, <1>23 DEF SysctlConstraints
<1>24. ASSUME SysctlStore PROVE Seen(e)'
  BY <1>7, <1>24 DEF SysctlStore, rtVars, history
<1>25. ASSUME UNCHANGED vars PROVE Seen(e)'
  BY <1>7, <1>25 DEF vars
<1> QED
  BY <1>8, <1>9, <1>10, <1>11, <1>12, <1>13, <1>14, <1>15, <1>16, <1>17, <1>18, <1>19, <1>20,
     <1>21, <1>22, <1>23, <1>24, <1>25 DEF Next

-----------------------------------------------------------------------------
(* Runtime is conserved. *)

\* Who has not touched the runtimes, the CPUs and the sysctl.
LEMMA ConservedSame ==
  ASSUME Conserved, mixed => mixed', rt_runtime' = rt_runtime, Enabled' = Enabled, Limit' = Limit,
         writer'.at = "store" => writer.at = "store"
  PROVE  Conserved'
BY DEF Conserved, Shared, Total

LEMMA ConservedBalance ==
  ASSUME IInv, NEW c \in Cpus, BalanceRuntime(c)
  PROVE  Conserved'
<1>1. /\ UNCHANGED << cpu, sysctl, b_runtime, writer, mixed >>
      /\ rt_runtime' = do_balance_runtime(c) /\ held[c] \in {"balance", "timer balance"}
  BY DEF BalanceRuntime, sysctlVars, history
<1>2. Enabled' = Enabled /\ Limit' = Limit
  BY <1>1 DEF Enabled, Limit, global_rt_runtime
<1>3. TypeOK /\ Conserved /\ Holder(c)
  BY DEF IInv, Holders
<1>4. SUFFICES ASSUME ~mixed PROVE Conserved'
  BY <1>1 DEF Conserved
<1>5. /\ Limit \in Limits \cup {RUNTIME_INF}
      /\ Limit = RUNTIME_INF => \A e \in Cpus : rt_runtime[e] = RUNTIME_INF
      /\ Limit # RUNTIME_INF => Allotted(rt_runtime, Limit)
  BY <1>4, SharedIsAllotted
<1>6. CASE Limit = RUNTIME_INF
  <2>1. rt_runtime' = rt_runtime
    BY <1>1, <1>3, <1>5, <1>6, NothingToBorrow
  <2> QED BY <1>1, <1>2, <1>3, <2>1, ConservedSame
<1>7. CASE Limit # RUNTIME_INF
  <2>1. c \in Enabled
    BY <1>1, <1>3, <1>4 DEF Holder, Enabled
  <2>2. Allotted(rt_runtime', Limit)
    BY <1>1, <1>3, <1>5, <1>7, <2>1, Balanced
  <2> QED BY <1>1, <1>2, <1>3, <1>4, <1>7, <2>2 DEF Conserved, Shared, Total, Allotted
<1> QED BY <1>6, <1>7

\* A CPU that goes down takes back what it lent, and leaves.
LEMMA ConservedDownPrepare ==
  ASSUME IInv, NEW c \in Cpus, DownPrepare(c)
  PROVE  Conserved'
<1> DEFINE d == disable_runtime(c)
<1>1. /\ UNCHANGED << sysctl, b_runtime, writer >> /\ cpu[c] = "up"
      /\ cpu' = [cpu EXCEPT ![c] = "down"] /\ mixed' = (mixed \/ writer.at = "store")
      /\ rt_runtime' = [d.runtime EXCEPT ![c] = RUNTIME_INF]
  BY DEF DownPrepare, Disable, sysctlVars
<1>2. TypeOK /\ cpu \in [Cpus -> {"up", "down", "dead", "online", "online again", "stuck"}]
  BY DEF IInv, TypeOK
<1>3. SUFFICES ASSUME ~mixed' PROVE Conserved'
  BY DEF Conserved
<1>4. ~mixed /\ writer.at # "store" /\ writer'.at # "store" /\ Limit = b_runtime /\ Limit' = b_runtime
  BY <1>1, <1>3 DEF Limit
<1>5. c \in Enabled /\ Enabled' = Enabled \ {c}
  BY <1>1, <1>2 DEF Enabled
<1>6. /\ Limit \in Limits \cup {RUNTIME_INF}
      /\ Limit = RUNTIME_INF => \A e \in Cpus : rt_runtime[e] = RUNTIME_INF
      /\ Limit # RUNTIME_INF => Allotted(rt_runtime, Limit)
  BY <1>4, SharedIsAllotted
<1>7. d.runtime \in Runtime
  BY <1>2, DisableType DEF Reclaiming
<1>8. rt_runtime'[c] = RUNTIME_INF /\ \A e \in Cpus \ {c} : rt_runtime'[e] = d.runtime[e]
  BY <1>1, <1>7 DEF Runtime
<1>9. CASE Limit = RUNTIME_INF
  <2>1. d.runtime = rt_runtime
    BY <1>6, <1>9, NothingWanting
  <2> HIDE DEF d
  <2>2. \A e \in Cpus : rt_runtime'[e] = RUNTIME_INF
    BY <1>6, <1>8, <1>9, <2>1
  <2> QED BY <1>4, <1>9, <2>2 DEF Conserved, Shared
<1>10. CASE Limit # RUNTIME_INF
  <2>1. /\ SumFunctionOnSet(d.runtime, Enabled \ {c}) = (Cardinality(Enabled) - 1) * b_runtime
        /\ \A e \in Cpus \ Enabled : d.runtime[e] = RUNTIME_INF
    BY <1>2, <1>4, <1>5, <1>6, <1>10, AllTakenBack
  <2> HIDE DEF d
  <2>2. /\ Enabled \subseteq Cpus /\ IsFiniteSet(Enabled) /\ IsFiniteSet(Enabled \ {c})
        /\ Cardinality(Enabled \ {c}) = Cardinality(Enabled) - 1
    BY <1>2, <1>5, EnabledIs, FS_RemoveElement
  <2>3. SumFunctionOnSet(rt_runtime', Enabled \ {c}) = SumFunctionOnSet(d.runtime, Enabled \ {c})
    BY <1>8, <2>2, SumSame
  <2>4. Total(Enabled)' = Cardinality(Enabled') * b_runtime
    BY <1>5, <2>1, <2>2, <2>3 DEF Total
  <2>5. \A e \in Cpus \ Enabled' : rt_runtime'[e] = RUNTIME_INF
    BY <1>5, <1>8, <2>1
  <2> QED BY <1>4, <1>10, <2>4, <2>5 DEF Conserved, Shared
<1> QED BY <1>9, <1>10

\* One that is dying has left.
LEMMA ConservedDying ==
  ASSUME IInv, NEW c \in Cpus, NEW x \in Cpus, Dying(c, x)
  PROVE  Conserved'
<1>1. /\ UNCHANGED << sysctl, b_runtime, writer >> /\ cpu[c] = "down"
      /\ cpu' = [cpu EXCEPT ![c] = "dead"] /\ mixed' = (mixed \/ writer.at = "store")
      /\ rt_runtime' = [disable_runtime(c).runtime EXCEPT ![c] = RUNTIME_INF]
  BY DEF Dying, Disable, sysctlVars
<1>2. /\ Conserved /\ rt_runtime \in [Cpus -> 0 .. U64 - 1]
      /\ cpu \in [Cpus -> {"up", "down", "dead", "online", "online again", "stuck"}]
  BY DEF IInv, TypeOK
<1>3. SUFFICES ASSUME ~mixed' PROVE Conserved'
  BY DEF Conserved
<1>4. ~mixed /\ writer'.at # "store" /\ Limit' = Limit
  BY <1>1, <1>3 DEF Limit
<1>5. c \notin Enabled /\ Enabled' = Enabled
  BY <1>1, <1>2 DEF Enabled
<1>6. rt_runtime[c] = RUNTIME_INF
  BY <1>4, <1>5, LimitedIsEnabled
<1>7. rt_runtime' = rt_runtime
  <2>1. disable_runtime(c).runtime = rt_runtime
    BY <1>6, NothingWanting
  <2> QED BY <1>1, <1>2, <1>6, <2>1
<1> QED BY <1>2, <1>4, <1>5, <1>7, ConservedSame

\* A CPU that is reset gets its allotment, once.
LEMMA ConservedEnable ==
  ASSUME IInv, NEW c \in Cpus, DownFailed(c) \/ Online(c)
  PROVE  Conserved'
<1>1. /\ UNCHANGED << sysctl, b_runtime, writer >>
      /\ cpu[c] \in {"down", "online", "online again"}
      /\ cpu' = [cpu EXCEPT ![c] = IF cpu[c] = "online" THEN "online again" ELSE "up"]
      /\ mixed' = (mixed \/ writer.at = "store" \/ rt_runtime[c] \notin {RUNTIME_INF, b_runtime})
      /\ rt_runtime' = [rt_runtime EXCEPT ![c] = b_runtime]
  BY DEF DownFailed, Online, Enable, sysctlVars
<1>2. /\ TypeOK /\ Conserved /\ rt_runtime \in [Cpus -> 0 .. U64 - 1] /\ b_runtime \in 0 .. U64 - 1
      /\ cpu \in [Cpus -> {"up", "down", "dead", "online", "online again", "stuck"}]
  BY DEF IInv, TypeOK
<1>3. SUFFICES ASSUME ~mixed' PROVE Conserved'
  BY DEF Conserved
<1>4. /\ ~mixed /\ writer.at # "store" /\ writer'.at # "store"
      /\ Limit = b_runtime /\ Limit' = b_runtime /\ rt_runtime[c] \in {RUNTIME_INF, b_runtime}
  BY <1>1, <1>3 DEF Limit
<1>5. Enabled' = Enabled \cup {c} /\ Enabled \subseteq Cpus /\ IsFiniteSet(Enabled)
  <2>1. Enabled \subseteq Cpus /\ IsFiniteSet(Enabled)
    BY <1>2, EnabledIs
  <2>2. Enabled' = Enabled \cup {c}
    BY <1>1, <1>2 DEF Enabled
  <2> QED BY <2>1, <2>2
<1>6. /\ Limit \in Limits \cup {RUNTIME_INF}
      /\ Limit = RUNTIME_INF => \A e \in Cpus : rt_runtime[e] = RUNTIME_INF
      /\ Limit # RUNTIME_INF => Allotted(rt_runtime, Limit)
  BY <1>4, SharedIsAllotted
<1>7. rt_runtime'[c] = b_runtime /\ \A e \in Cpus \ {c} : rt_runtime'[e] = rt_runtime[e]
  BY <1>1, <1>2
<1>8. CASE Limit = RUNTIME_INF
  <2>1. \A e \in Cpus : rt_runtime'[e] = RUNTIME_INF
    BY <1>4, <1>6, <1>7, <1>8
  <2> QED BY <1>4, <1>8, <2>1 DEF Conserved, Shared
<1>9. CASE Limit # RUNTIME_INF /\ c \in Enabled
  <2>1. rt_runtime[c] # RUNTIME_INF
    BY <1>2, <1>4, <1>6, <1>9, SharesFit DEF Runtime
  <2>2. rt_runtime' = rt_runtime
    BY <1>1, <1>2, <1>4, <2>1
  <2> QED BY <1>2, <1>4, <1>5, <1>9, <2>2, ConservedSame
<1>10. CASE Limit # RUNTIME_INF /\ c \notin Enabled
  <2> DEFINE n == Cardinality(Enabled)
             r == rt_runtime'
  <2>1. IsFiniteSet(Enabled') /\ Cardinality(Enabled') = n + 1 /\ n \in Nat
    BY <1>5, <1>10, FS_AddElement, FS_CardinalityType
  <2>2. b_runtime \in Nat /\ \A e \in Enabled' : r[e] \in Int
    <3>1. \A e \in Cpus : rt_runtime[e] \in Int
      BY <1>2, RuntimesAreLengths DEF Lengths
    <3>2. b_runtime \in Nat
      <4>1. b_runtime \in Limits
        BY <1>4, <1>6, <1>10
      <4> QED BY <4>1, Widths
    <3> QED BY <1>5, <1>7, <3>1, <3>2
  <2>3. c \in Enabled' /\ Enabled' \ {c} = Enabled
    BY <1>5, <1>10
  <2> HIDE DEF r
  <2>4. SumFunctionOnSet(r, Enabled') = r[c] + SumFunctionOnSet(r, Enabled' \ {c})
    BY <2>1, <2>2, <2>3, SumRemove
  <2>5. SumFunctionOnSet(r, Enabled) = SumFunctionOnSet(rt_runtime, Enabled)
    <3>1. \A e \in Enabled : r[e] = rt_runtime[e]
      BY <1>5, <1>7, <1>10 DEF r
    <3> QED BY <1>5, <3>1, SumSame
  <2>6. SumFunctionOnSet(rt_runtime, Enabled) = n * b_runtime
    BY <1>4, <1>6, <1>10 DEF Allotted
  <2>7. SumFunctionOnSet(r, Enabled') = (n + 1) * b_runtime
    <3>1. SumFunctionOnSet(r, Enabled') = b_runtime + n * b_runtime
      BY <1>7, <2>3, <2>4, <2>5, <2>6 DEF r
    <3> HIDE DEF n
    <3> QED BY <2>1, <2>2, <3>1
  <2>8. Total(Enabled)' = Cardinality(Enabled') * b_runtime
    BY <2>1, <2>7 DEF r, Total
  <2>9. \A e \in Cpus \ Enabled' : rt_runtime'[e] = RUNTIME_INF
    BY <1>4, <1>5, <1>6, <1>7, <1>10 DEF Allotted
  <2> QED BY <1>4, <1>10, <2>8, <2>9 DEF Conserved, Shared
<1> QED BY <1>8, <1>9, <1>10

\* A write gives every CPU the new limit.
LEMMA ConservedWrite ==
  ASSUME IInv, (\E v \in Runtimes : SysctlWrite(v)) \/ SysctlConstraints \/ SysctlStore
  PROVE  Conserved'
<1>1. /\ UNCHANGED cpu /\ Enabled' = Enabled
  BY DEF SysctlWrite, SysctlConstraints, SysctlStore, Enabled
<1>2. /\ TypeOK /\ Conserved /\ SettingsOK /\ writer \in [at : {"no", "constraints", "store"}, old : Int]
  BY DEF IInv, TypeOK
<1>3. CASE \E v \in Runtimes : SysctlWrite(v)
  <2>1. UNCHANGED << rt_runtime, mixed, b_runtime >> /\ writer.at = "no" /\ writer'.at = "constraints"
    BY <1>3 DEF SysctlWrite, rtVars, history
  <2>2. Limit' = Limit
    BY <2>1 DEF Limit
  <2> QED BY <1>1, <1>2, <2>1, <2>2, ConservedSame
<1>4. CASE SysctlStore
  <2>1. /\ UNCHANGED << rt_runtime, mixed, sysctl >> /\ writer.at = "store"
        /\ b_runtime' = global_rt_runtime(sysctl) /\ writer'.at = "no"
    BY <1>2, <1>4 DEF SysctlStore, rtVars, history
  <2>2. Limit' = Limit
    BY <2>1 DEF Limit
  <2> QED BY <1>1, <1>2, <2>1, <2>2, ConservedSame
<1>5. CASE SysctlConstraints /\ sysctl = 0
  <2>1. /\ UNCHANGED << rt_runtime, mixed, b_runtime >> /\ writer.at = "constraints"
        /\ writer'.at = "no"
    BY <1>2, <1>5 DEF SysctlConstraints
  <2>2. Limit' = Limit
    BY <2>1 DEF Limit
  <2> QED BY <1>1, <1>2, <2>1, <2>2, ConservedSame
<1>6. CASE SysctlConstraints /\ sysctl # 0
  <2> DEFINE l == global_rt_runtime(sysctl)
  <2>1. /\ UNCHANGED << sysctl >> /\ writer'.at = "store"
        /\ mixed' = (\E c \in Cpus : cpu[c] # "up")
        /\ rt_runtime' = [c \in Cpus |-> l]
    BY <1>2, <1>6 DEF SysctlConstraints
  <2>2. Limit' = l
    BY <2>1 DEF Limit, global_rt_runtime
  <2>3. SUFFICES ASSUME ~mixed' PROVE Conserved'
    BY DEF Conserved
  <2>4. Enabled' = Cpus
    BY <1>1, <2>1, <2>3 DEF Enabled
  <2>5. l \in Limits \cup {RUNTIME_INF}
    BY <1>2, GlobalRuntime
  <2>6. \A c \in Cpus : rt_runtime'[c] = l
    BY <2>1
  <2> HIDE DEF l
  <2>7. l # RUNTIME_INF => Total(Enabled)' = Cardinality(Enabled') * l
    <3>1. SUFFICES ASSUME l \in Limits PROVE Total(Enabled)' = Cardinality(Enabled') * l
      BY <2>5
    <3>2. l \in Int /\ IsFiniteSet(Cpus)
      BY <3>1, Widths
    <3>3. SumFunctionOnSet(rt_runtime', Cpus) = Cardinality(Cpus) * l
      BY <2>6, <3>2, SumConst
    <3> QED BY <2>4, <3>3 DEF Total
  <2> QED BY <2>2, <2>4, <2>6, <2>7 DEF Conserved, Shared
<1> QED BY <1>3, <1>4, <1>5, <1>6

LEMMA ConservedStep ==
  ASSUME IInv, [Next]_vars
  PROVE  Conserved'
<1>1. Conserved /\ cpu \in [Cpus -> {"up", "down", "dead", "online", "online again", "stuck"}]
  BY DEF IInv, TypeOK
<1>2. ASSUME UNCHANGED << rt_runtime, mixed, sysctl, b_runtime, writer >>, Enabled' = Enabled
      PROVE  Conserved'
  <2>1. Limit' = Limit
    BY <1>2 DEF Limit, global_rt_runtime
  <2> QED BY <1>1, <1>2, <2>1, ConservedSame
<1>3. CASE UNCHANGED vars
  BY <1>2, <1>3 DEF vars, Enabled
<1>4. ASSUME NEW c \in Cpus,
             \/ Enqueue(c) \/ Dequeue(c) \/ update_curr_rt(c) \/ Throttle(c) \/ TimerVisits(c)
             \/ Refill(c)
      PROVE  Conserved'
  <2>1. UNCHANGED << rt_runtime, mixed, sysctl, b_runtime, writer, cpu >>
    BY <1>4 DEF Enqueue, Dequeue, update_curr_rt, Throttle, TimerVisits, Refill, rtVars, sysctlVars,
       history
  <2> QED BY <1>2, <2>1 DEF Enabled
<1>5. ASSUME (\E n \in 1 .. MaxOverrun : TimerExpires(n)) \/ TimerReturns PROVE Conserved'
  <2>1. UNCHANGED << rt_runtime, mixed, sysctl, b_runtime, writer, cpu >>
    BY <1>5 DEF TimerExpires, TimerReturns, rtVars, sysctlVars, history
  <2> QED BY <1>2, <2>1 DEF Enabled
<1>6. ASSUME NEW c \in Cpus, CpuUp(c) \/ DyingStuck(c) PROVE Conserved'
  <2>1. /\ UNCHANGED << rt_runtime, mixed, sysctl, b_runtime, writer >>
        /\ cpu[c] \in {"dead", "down"}
        /\ cpu' = [cpu EXCEPT ![c] = "online"] \/ cpu' = [cpu EXCEPT ![c] = "stuck"]
    BY <1>6 DEF CpuUp, DyingStuck, rtVars, sysctlVars, history
  <2>2. Enabled' = Enabled
    BY <1>1, <2>1 DEF Enabled
  <2> QED BY <1>2, <2>1, <2>2
<1>7. ASSUME NEW c \in Cpus, BalanceRuntime(c) PROVE Conserved'
  BY <1>7, ConservedBalance
<1>8. ASSUME NEW c \in Cpus, DownPrepare(c) PROVE Conserved'
  BY <1>8, ConservedDownPrepare
<1>9. ASSUME NEW c \in Cpus, NEW d \in Cpus, Dying(c, d) PROVE Conserved'
  BY <1>9, ConservedDying
<1>10. ASSUME NEW c \in Cpus, DownFailed(c) \/ Online(c) PROVE Conserved'
  BY <1>10, ConservedEnable
<1>11. ASSUME (\E v \in Runtimes : SysctlWrite(v)) \/ SysctlConstraints \/ SysctlStore
       PROVE  Conserved'
  BY <1>11, ConservedWrite
<1> QED BY <1>3, <1>4, <1>5, <1>6, <1>7, <1>8, <1>9, <1>10, <1>11 DEF Next

-----------------------------------------------------------------------------
(* Who is past its runtime has been cut. *)

\* A CPU that lends keeps what it has used; one that is taken from, or written to, is cut.
LEMMA WithinStep ==
  ASSUME IInv, [Next]_vars
  PROVE  Within'
<1>1. /\ rt_runtime \in [Cpus -> 0 .. U64 - 1] /\ rt_time \in [Cpus -> 0 .. MaxTime]
      /\ rt_throttled \in [Cpus -> BOOLEAN]
      /\ held \in [Cpus -> {"no", "balance", "throttle", "timer balance", "refill", "stuck"}]
  BY DEF IInv, TypeOK
<1>2. \A x \in Cpus : /\ rt_runtime[x] \in Int /\ rt_runtime[x] >= 0
                      /\ rt_time[x] \in Int /\ rt_time[x] >= 0
                      /\ rt_runtime'[x] \in Int /\ rt_runtime'[x] >= 0
                      /\ rt_time'[x] \in Int /\ rt_time'[x] >= 0
  <2>1. rt_runtime' \in [Cpus -> 0 .. U64 - 1] /\ rt_time' \in [Cpus -> 0 .. MaxTime]
    BY TypeStep DEF TypeOK
  <2>2. Lengths(rt_runtime) /\ Lengths(rt_time) /\ Lengths(rt_runtime') /\ Lengths(rt_time')
    BY <1>1, <2>1, RuntimesAreLengths
  <2> QED BY <2>2 DEF Lengths
<1>3. Period \in Int /\ RUNTIME_INF \in Int /\ Period < RUNTIME_INF
  <2>1. U64 \in Nat /\ Period \in Nat /\ U64 > 2 * Period /\ U64 >= 2
    BY Widths
  <2> QED BY <2>1 DEF RUNTIME_INF
<1>4. TypeOK /\ Holders /\ Within
  BY DEF IInv
<1>5. SUFFICES ASSUME NEW e \in Cpus, held'[e] \in {"no", "refill"}, ~mixed', ~rt_throttled'[e],
                      rt_runtime'[e] < Period, rt_time'[e] > rt_runtime'[e]
               PROVE  e \in reclaimed'
  BY DEF Within, Over, OnlineCpus
<1>6. ASSUME ~mixed, held[e] \in {"no", "refill"}, ~rt_throttled[e],
             rt_runtime[e] < Period, rt_time[e] > rt_runtime[e]
      PROVE  e \in reclaimed
  <2>1. rt_runtime[e] # RUNTIME_INF
    BY <1>2, <1>6, <1>3
  <2>2. e \in OnlineCpus
    BY <1>4, <1>6, <2>1, LimitedIsEnabled, EnabledIs
  <2> QED BY <1>4, <1>6, <2>2 DEF Within, Over
<1>7. ASSUME held'[e] = held[e], rt_throttled'[e] = rt_throttled[e], mixed => mixed',
             rt_runtime'[e] = rt_runtime[e], rt_time'[e] = rt_time[e], e \in reclaimed => e \in reclaimed'
      PROVE  e \in reclaimed'
  BY <1>5, <1>6, <1>7
<1>8. CASE UNCHANGED vars
  BY <1>7, <1>8 DEF vars
<1>9. ASSUME NEW c \in Cpus, Enqueue(c) \/ Dequeue(c) \/ CpuUp(c) PROVE e \in reclaimed'
  <2>1. UNCHANGED << held, rt_throttled, mixed, rt_runtime, rt_time, reclaimed >>
    BY <1>9 DEF Enqueue, Dequeue, CpuUp, rtVars, history
  <2> QED BY <1>7, <2>1
<1>10. CASE (\E n \in 1 .. MaxOverrun : TimerExpires(n)) \/ TimerReturns \/ SysctlStore
           \/ \E v \in Runtimes : SysctlWrite(v)
  <2>1. UNCHANGED << held, rt_throttled, mixed, rt_runtime, rt_time, reclaimed >>
    BY <1>10 DEF TimerExpires, TimerReturns, SysctlStore, SysctlWrite, rtVars, history
  <2> QED BY <1>7, <2>1
<1>11. CASE SysctlConstraints
  <2>1. UNCHANGED << held, rt_throttled, rt_time >>
    BY <1>11 DEF SysctlConstraints
  <2>2. CASE sysctl = 0
    <3>1. UNCHANGED << mixed, rt_runtime, reclaimed >>
      BY <1>11, <2>2 DEF SysctlConstraints
    <3> QED BY <1>7, <2>1, <3>1
  <2>3. CASE sysctl # 0
    <3>1. reclaimed' = {c \in Cpus : rt_time[c] > rt_runtime'[c]}
      BY <1>11, <2>3 DEF SysctlConstraints
    <3> QED BY <1>5, <2>1, <3>1
  <2> QED BY <2>2, <2>3
<1>12. ASSUME NEW c \in Cpus, DyingStuck(c) PROVE e \in reclaimed'
  <2>1. held'[e] = "stuck"
    BY <1>12 DEF DyingStuck
  <2> QED BY <1>5, <2>1
<1>13. ASSUME NEW c \in Cpus, update_curr_rt(c) PROVE e \in reclaimed'
  <2>1. /\ UNCHANGED << rt_throttled, mixed, rt_runtime >>
        /\ reclaimed' = reclaimed \ {c} /\ rt_time' = [rt_time EXCEPT ![c] = rt_time[c] + 1]
        /\ held' = [held EXCEPT ![c] = IF rt_runtime[c] >= Period THEN "no"
                                       ELSE IF rt_time'[c] > rt_runtime[c] THEN "balance" ELSE "no"]
    BY <1>13 DEF update_curr_rt
  <2>2. CASE e = c
    <3>1. rt_runtime'[e] = rt_runtime[e]
      BY <2>1
    <3>2. ~(rt_runtime[c] >= Period) /\ rt_time'[c] > rt_runtime[c]
      BY <1>2, <1>5, <1>3, <2>2, <3>1
    <3>3. held'[c] = "balance"
      BY <1>1, <2>1, <3>2
    <3> QED BY <1>5, <2>2, <3>3
  <2>3. CASE e # c
    BY <1>1, <1>7, <2>1, <2>3
  <2> QED BY <2>2, <2>3
<1>14. ASSUME NEW c \in Cpus, BalanceRuntime(c) PROVE e \in reclaimed'
  <2>1. /\ UNCHANGED << rt_throttled, mixed, rt_time, reclaimed >>
        /\ rt_runtime' = do_balance_runtime(c) /\ held[c] \in {"balance", "timer balance"}
        /\ held' = [held EXCEPT ![c] = IF held[c] = "balance" THEN "throttle" ELSE "refill"]
    BY <1>14 DEF BalanceRuntime, history
  <2>2. CASE e = c
    <3>1. held[c] = "timer balance"
      BY <1>1, <1>5, <2>1, <2>2
    <3>2. rt_throttled[c]
      BY <1>4, <3>1 DEF Holders, Holder
    <3> QED BY <1>5, <2>1, <2>2, <3>2
  <2>3. CASE e # c
    <3>1. held'[e] = held[e]
      BY <1>1, <2>1, <2>3
    <3>2. rt_runtime'[e] = rt_runtime[e] \/ rt_runtime'[e] >= rt_time[e]
      <4>1. ~mixed
        BY <1>5, <2>1
      <4>2. CASE Limit = RUNTIME_INF
        BY <1>4, <2>1, <4>1, <4>2, SharedIsAllotted, NothingToBorrow
      <4>3. CASE Limit # RUNTIME_INF
        <5>1. Limit \in Limits /\ Allotted(rt_runtime, Limit)
          BY <4>1, <4>3, SharedIsAllotted
        <5>2. c \in Enabled
          BY <1>4, <2>1, <4>1 DEF Holders, Holder, Enabled
        <5> QED BY <1>4, <2>1, <2>3, <5>1, <5>2, Balanced
      <4> QED BY <4>2, <4>3
    <3>3. CASE rt_runtime'[e] = rt_runtime[e]
      BY <1>7, <2>1, <3>1, <3>3
    <3>4. CASE rt_runtime'[e] >= rt_time[e]
      <4>1. rt_time'[e] = rt_time[e]
        BY <2>1
      <4> QED BY <1>2, <1>5, <3>4, <4>1
    <3> QED BY <3>2, <3>3, <3>4
  <2> QED BY <2>2, <2>3
<1>15. ASSUME NEW c \in Cpus, Throttle(c) PROVE e \in reclaimed'
  <2> DEFINE over == rt_runtime[c] # RUNTIME_INF /\ rt_time[c] > rt_runtime[c]
  <2>1. /\ UNCHANGED << mixed, rt_runtime, reclaimed >>
        /\ held' = [held EXCEPT ![c] = "no"]
        /\ rt_throttled' = [rt_throttled EXCEPT ![c] = over /\ b_runtime # 0]
        /\ rt_time' = [rt_time EXCEPT ![c] = IF over /\ b_runtime = 0 THEN 0 ELSE rt_time[c]]
    BY <1>15 DEF Throttle, history
  <2>2. CASE e = c
    <3>1. ~(over /\ b_runtime # 0)
      BY <1>1, <1>5, <2>1, <2>2
    <3>2. rt_time'[c] = IF over /\ b_runtime = 0 THEN 0 ELSE rt_time[c]
      BY <1>1, <2>1
    <3>3. rt_runtime[c] < Period /\ rt_time'[c] > rt_runtime[c]
      BY <1>5, <2>1, <2>2
    <3>4. ~over
      <4>1. CASE over /\ b_runtime = 0
        <5>1. rt_time'[c] = 0
          BY <3>2, <4>1, Zenon
        <5> QED BY <1>2, <3>3, <5>1
      <4> QED BY <3>1, <4>1
    <3>5. rt_time'[c] = rt_time[c]
      BY <3>2, <3>4, Zenon
    <3>6. rt_runtime[c] # RUNTIME_INF
      BY <1>2, <1>3, <3>3
    <3> QED BY <3>3, <3>4, <3>5, <3>6
  <2>3. CASE e # c
    BY <1>1, <1>7, <2>1, <2>3
  <2> QED BY <2>2, <2>3
<1>16. ASSUME NEW c \in Cpus, TimerVisits(c) PROVE e \in reclaimed'
  <2>1. /\ UNCHANGED << rt_throttled, mixed, rt_runtime, rt_time, reclaimed >> /\ held[c] = "no"
        /\ e # c => held'[e] = held[e]
    BY <1>1, <1>16 DEF TimerVisits, rtVars, history
  <2>2. held[e] \in {"no", "refill"}
    BY <1>5, <2>1
  <2> QED BY <1>5, <1>6, <2>1, <2>2
<1>17. ASSUME NEW c \in Cpus, Refill(c) PROVE e \in reclaimed'
  <2>1. /\ UNCHANGED << mixed, rt_runtime, reclaimed >> /\ held[c] = "refill"
        /\ held' = [held EXCEPT ![c] = "no"]
        /\ rt_throttled' = [rt_throttled EXCEPT ![c] = rt_throttled[c] /\ rt_time'[c] >= rt_runtime[c]]
        /\ e # c => rt_time'[e] = rt_time[e]
    BY <1>1, <1>17 DEF Refill, history
  <2>2. CASE e = c
    <3>1. rt_time' \in [Cpus -> 0 .. MaxTime] /\ rt_time'[c] <= rt_time[c]
      BY <1>4, <1>17, RefillTime
    <3>2. rt_runtime[c] < Period /\ rt_time'[c] > rt_runtime[c]
      BY <1>5, <2>1, <2>2
    <3>3. rt_time[c] > rt_runtime[c] /\ rt_time'[c] >= rt_runtime[c]
      BY <1>2, <3>1, <3>2
    <3>4. ~(rt_throttled[c] /\ rt_time'[c] >= rt_runtime[c])
      <4>1. rt_throttled'[c] = (rt_throttled[c] /\ rt_time'[c] >= rt_runtime[c])
        BY <1>1, <2>1, Zenon
      <4>2. ~rt_throttled'[c]
        BY <1>5, <2>2
      <4> QED BY <4>1, <4>2, Zenon
    <3> QED BY <1>5, <1>6, <2>1, <2>2, <3>2, <3>3, <3>4
  <2>3. CASE e # c
    BY <1>1, <1>7, <2>1, <2>3
  <2> QED BY <2>2, <2>3
<1>18. ASSUME NEW c \in Cpus, Disable(c), UNCHANGED << rt_time, rt_throttled >>, mixed => mixed'
       PROVE  e \in reclaimed'
  <2> DEFINE d == disable_runtime(c)
  <2>1. /\ rt_runtime' = [d.runtime EXCEPT ![c] = RUNTIME_INF]
        /\ held'[e] = "stuck" \/ held'[e] = held[e]
        /\ reclaimed' = reclaimed \cup {x \in Cpus \ {c} :
                          d.runtime[x] # rt_runtime[x] /\ rt_time[x] > d.runtime[x]}
    BY <1>18 DEF Disable
  <2>2. d.runtime \in [Cpus -> 0 .. U64 - 1]
    BY <1>4, DisableType DEF Reclaiming, Runtime
  <2> HIDE DEF d
  <2>3. e # c
    <3>1. rt_runtime'[c] = RUNTIME_INF
      BY <2>1, <2>2
    <3> QED BY <1>2, <1>5, <1>3, <3>1
  <2>4. rt_runtime'[e] = d.runtime[e] /\ rt_time'[e] = rt_time[e]
    BY <1>18, <2>1, <2>2, <2>3
  <2>5. CASE d.runtime[e] # rt_runtime[e]
    BY <1>5, <2>1, <2>3, <2>4, <2>5
  <2>6. CASE d.runtime[e] = rt_runtime[e]
    BY <1>5, <1>7, <1>18, <2>1, <2>4, <2>6
  <2> QED BY <2>5, <2>6
<1>19. ASSUME NEW c \in Cpus, DownPrepare(c) \/ \E d \in Cpus : Dying(c, d) PROVE e \in reclaimed'
  BY <1>18, <1>19 DEF DownPrepare, Dying
<1>20. ASSUME NEW c \in Cpus, DownFailed(c) \/ Online(c) PROVE e \in reclaimed'
  <2>1. /\ UNCHANGED << held, reclaimed >>
        /\ mixed => mixed'
        /\ rt_runtime' = [rt_runtime EXCEPT ![c] = b_runtime]
        /\ rt_time' = [rt_time EXCEPT ![c] = 0]
        /\ rt_throttled' = [rt_throttled EXCEPT ![c] = FALSE]
        /\ b_runtime \in 0 .. U64 - 1
    BY <1>4, <1>20 DEF DownFailed, Online, Enable, TypeOK
  <2>2. CASE e = c
    <3>1. rt_time'[e] = 0 /\ rt_runtime'[e] = b_runtime
      BY <1>1, <2>1, <2>2
    <3> QED BY <1>2, <1>5, <3>1
  <2>3. CASE e # c
    <3>1. /\ rt_runtime'[e] = rt_runtime[e] /\ rt_time'[e] = rt_time[e]
          /\ rt_throttled'[e] = rt_throttled[e]
      BY <1>1, <2>1, <2>3
    <3> QED BY <1>7, <2>1, <3>1
  <2> QED BY <2>2, <2>3
<1> QED BY <1>8, <1>9, <1>10, <1>11, <1>12, <1>13, <1>14, <1>15, <1>16, <1>17, <1>19, <1>20 DEF Next

-----------------------------------------------------------------------------
(* The results. *)

LEMMA Step ==
  ASSUME IInv, [Next]_vars
  PROVE  IInv'
BY TypeStep, SettingsStep, HoldersStep, ConservedStep, WithinStep, TimerSeenStep, StoppedStep
   DEF IInv

\* The inductive invariant holds in every state of the program.
THEOREM Inductive == Spec => []IInv
<1> USE DEF Spec
<1> QED BY InitInv, Step, PTL

\* rt.c, do_balance_runtime and __disable_runtime: whatever the CPUs lend each
\* other, take back and give back, and however CPUs go and come, the runtimes of
\* the enabled CPUs add up to the limit times their number, and no s64 or u64 of
\* these computations wraps: unless a CPU was reset amid a loan or a write.
THEOREM RuntimeShared == Spec => []Consistent
<1>1. IInv => Consistent
  <2> SUFFICES ASSUME IInv PROVE Consistent
    OBVIOUS
  <2>1. RuntimeConserved
    BY DEF RuntimeConserved, IInv, Conserved, Shared, Limit
  <2> QED BY <2>1 DEF IInv, Consistent
<1> QED BY <1>1, Inductive, PTL

\* rt.c:677-681: the BUG_ON(want) is hit only after a CPU was reset amid a loan
\* or a write.
THEOREM LeftWanting == Spec => []OnlyResetsLeaveWanting
<1>1. IInv => OnlyResetsLeaveWanting
  BY DEF IInv, Stopped, OnlyResetsLeaveWanting
<1> QED BY <1>1, Inductive, PTL

\* rt.c, sched_rt_runtime_exceeded: between its checks a CPU whose tasks may run
\* is not past its runtime, whatever it has lent since it was last checked, but
\* for the cuts that the property names.
THEOREM OverrunExplained == Spec => []OnlyReclaimedOverrun
<1>1. IInv => OnlyReclaimedOverrun
  <2> SUFFICES ASSUME IInv, NEW c \in OnlineCpus, held[c] = "no", ~rt_throttled[c],
                      rt_runtime[c] < Period
               PROVE  rt_time[c] <= rt_runtime[c] \/ c \in reclaimed \/ mixed
    BY DEF OnlyReclaimedOverrun
  <2>1. rt_time[c] \in Int /\ rt_runtime[c] \in Int
    <3>1. rt_time \in [Cpus -> 0 .. MaxTime] /\ rt_runtime \in [Cpus -> 0 .. U64 - 1] /\ c \in Cpus
      BY DEF IInv, TypeOK, OnlineCpus
    <3> QED BY <3>1
  <2>2. Over(c) => c \in reclaimed \/ mixed
    BY DEF IInv, Within
  <2> QED BY <2>1, <2>2 DEF Over
<1> QED BY <1>1, Inductive, PTL

\* rt.c, start_rt_bandwidth and sched_rt_period_timer: the timer is off while a
\* CPU has real-time tasks, or is throttled, only in the ways that the property
\* names.
THEOREM TimerMissedExplained == Spec => []TimerRunsUnlessMissed
<1>1. IInv => TimerRunsUnlessMissed
  BY DEF IInv, TimerSeen, Seen, Needing, TimerRunsUnlessMissed, OnlineCpus
<1> QED BY <1>1, Inductive, PTL
=============================================================================
