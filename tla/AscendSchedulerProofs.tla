----------------------- MODULE AscendSchedulerProofs -----------------------
(***************************************************************************)
(* Proofs about AscendScheduler, for any finite set of requests, any size  *)
(* of the KV cache and any limits.                                         *)
(***************************************************************************)
EXTENDS AscendScheduler, LibraryFacts

WaitingStatuses == {"waiting", "waitingForFsm", "preempted"}
Statuses == {"new", "running", "finished", "ignored"} \cup WaitingStatuses

\* The types of the variables.
TypeOK ==
    /\ requests \subseteq Requests
    /\ status \in [Requests -> Statuses]
    /\ tokens \in [Requests -> Nat]
    /\ computed \in [Requests -> Nat]
    /\ blocks \in [Requests -> Nat]
    /\ grammar \subseteq Requests
    /\ waiting \in Seq(Requests)
    /\ running \in Seq(Requests)
    /\ scheduledIds \subseteq Requests
    /\ forcedMode \in Modes
    /\ inFlight \in Seq([Requests -> Nat])
    /\ pc \in {"idle", "prefill", "decode", "output"}
    /\ skipped \in Seq(Requests)
    /\ budget \in Nat
    /\ batch \in [Requests -> Nat]
    /\ reqIndex \in Nat \ {0}

\* The requests that some batch in flight computes tokens for.
Flying == {r \in Requests : \E i \in 1..Len(inFlight) : inFlight[i][r] > 0}

\* Where a request is follows from its status.
Places ==
    /\ IsInjective(waiting) /\ IsInjective(running) /\ IsInjective(skipped)
    /\ ToSet(waiting) \cap ToSet(skipped) = {}
    /\ ToSet(running) = {r \in Requests : status[r] = "running"}
    /\ ToSet(waiting) \cup ToSet(skipped) = {r \in Requests : status[r] \in WaitingStatuses}
    /\ requests = {r \in Requests : status[r] \notin {"new", "finished"}}
    /\ \A r \in Requests : blocks[r] > 0 => status[r] = "running"

\* A request in flight was not preempted, and is not scheduled a second time.
Flight ==
    /\ \A r \in Flying : status[r] \in {"running", "finished"}
    /\ \A r \in Requests : status[r] = "running" =>
          \A i, j \in 1..Len(inFlight) :
              inFlight[i][r] > 0 /\ inFlight[j][r] > 0 => i = j
    /\ \A r \in Requests : batch[r] > 0 => status[r] = "running" /\ r \notin Flying
    /\ \A r \in Requests : status[r] = "running" =>
          (r \in scheduledIds <=> r \in Flying \/ batch[r] > 0)
    /\ ~AbortByName => \A r \in scheduledIds : status[r] = "running"

\* How many tokens of a request are computed.
Counts ==
    \A r \in Requests :
        /\ status[r] \in {"new"} \cup WaitingStatuses => computed[r] = 0
        /\ status[r] \in WaitingStatuses => tokens[r] > 0
        /\ status[r] = "running" /\ batch[r] > 0 => tokens[r] = computed[r] + batch[r]
        /\ status[r] = "running" /\ batch[r] = 0 => computed[r] > 0
        /\ status[r] = "running" /\ r \in Flying => tokens[r] = computed[r]
        /\ status[r] = "running" /\ r \notin Flying /\ batch[r] = 0 =>
              tokens[r] = computed[r] + 1 /\ tokens[r] < MaxModelLen

\* The batch is of one kind, and during the decode loop it is what that loop has gone through.
Phases ==
    /\ pc = "idle" => \A r \in Requests : batch[r] = 0
    /\ pc = "prefill" => \A r \in Requests : batch[r] > 0 => computed[r] = 0
    /\ pc = "decode" =>
          /\ \A r \in Requests : batch[r] > 0 => computed[r] > 0 /\ batch[r] = 1
          /\ \A r \in Requests : status[r] = "running" => r \notin Flying
          /\ \A i \in 1..Len(running) : batch[running[i]] > 0 <=> i < reqIndex
    /\ pc = "output" =>
          \/ \A r \in Requests : batch[r] > 0 => computed[r] = 0
          \/ \A r \in Requests : batch[r] > 0 => computed[r] > 0 /\ batch[r] = 1
    /\ pc \in {"idle", "prefill"} => reqIndex = 1
    /\ pc # "prefill" => skipped = <<>>

SchedulerInv ==
    /\ TypeOK
    /\ Places
    /\ Flight
    /\ Counts
    /\ Phases
    /\ BlocksSuffice


-----------------------------------------------------------------------------
(* Lists without some of their elements                                     *)

\* Without keeps the order: position k of the new list has what is at position f[k] of the
\* old one, f is strictly increasing, and it skips only what is to be removed.
LEMMA WithoutPositions ==
  ASSUME NEW S, NEW s \in Seq(S), NEW rs
  PROVE  /\ Without(s, rs) \in Seq(S)
         /\ \E f \in [1..Len(Without(s, rs)) -> 1..Len(s)] :
              /\ \A k \in 1..Len(Without(s, rs)) :
                    Without(s, rs)[k] = s[f[k]] /\ s[f[k]] \notin rs
              /\ \A k, l \in 1..Len(Without(s, rs)) : k < l => f[k] < f[l]
              /\ \A i \in 1..Len(s) :
                    s[i] \notin rs => \E k \in 1..Len(Without(s, rs)) : f[k] = i
<1> DEFINE kept == {i \in 1..Len(s) : s[i] \notin rs}
           upto(i) == {j \in kept : j <= i}
           rank == [i \in kept |-> Cardinality(upto(i))]
           n == Cardinality(kept)
           nth(k) == CHOOSE i \in kept : Cardinality(upto(i)) = k
           f == [k \in 1..n |-> nth(k)]
           w == [k \in 1..n |-> s[nth(k)]]
<1>1. IsFiniteSet(kept) /\ n \in Nat /\ kept \subseteq 1..Len(s) /\ Len(s) \in Nat
  <2>1. IsFiniteSet(1..Len(s)) /\ Len(s) \in Nat
    BY FS_Interval
  <2> QED
    BY <2>1, FS_Subset, FS_CardinalityType
<1>2. ASSUME NEW i \in kept
      PROVE  /\ IsFiniteSet(upto(i)) /\ Cardinality(upto(i)) \in 1..n
             /\ rank[i] = Cardinality(upto(i))
  <2>1. IsFiniteSet(upto(i)) /\ Cardinality(upto(i)) <= n /\ Cardinality(upto(i)) \in Nat
    BY <1>1, FS_Subset, FS_CardinalityType
  <2>2. i \in upto(i)
    BY <1>1
  <2>3. Cardinality(upto(i)) # 0
    BY <2>1, <2>2, FS_EmptySet
  <2> QED
    BY <1>1, <2>1, <2>3
<1>3. ASSUME NEW i \in kept, NEW j \in kept, i < j
      PROVE  rank[i] < rank[j]
  <2>1. upto(i) \subseteq upto(j) /\ j \in upto(j) /\ j \notin upto(i)
    BY <1>1, <1>3
  <2>2. Cardinality(upto(i)) <= Cardinality(upto(j))
        /\ Cardinality(upto(i)) # Cardinality(upto(j))
    BY <1>2, <2>1, FS_Subset
  <2>3. Cardinality(upto(i)) \in Int /\ Cardinality(upto(j)) \in Int
    <3> HIDE DEF upto, kept, n
    <3> QED
      BY <1>2
  <2> HIDE DEF upto, kept
  <2>4. Cardinality(upto(i)) < Cardinality(upto(j))
    BY <2>2, <2>3
  <2> QED
    BY <2>4
<1>4. rank \in Surjection(kept, 1..n)
  <2>1. rank \in [kept -> 1..n]
    BY <1>2
  <2>2. ASSUME NEW i \in kept, NEW j \in kept, rank[i] = rank[j] PROVE i = j
    <3> HIDE DEF rank, kept
    <3>1. i \in Int /\ j \in Int /\ rank[i] \in Int
      BY <1>1, <2>1
    <3> QED
      BY <1>3, <2>2, <3>1
  <2>3. rank \in Injection(kept, 1..n)
    BY <2>1, <2>2 DEF Injection, IsInjective
  <2>4. IsFiniteSet(1..n) /\ Cardinality(1..n) = n
    BY <1>1, FS_Interval
  <2> QED
    BY <2>3, <2>4, FS_Injection
<1>5. ASSUME NEW k \in 1..n PROVE f[k] \in kept /\ rank[f[k]] = k
  <2>1. \E i \in kept : Cardinality(upto(i)) = k
    BY <1>4 DEF Surjection
  <2>2. nth(k) \in kept /\ Cardinality(upto(nth(k))) = k
    <3> HIDE DEF upto, kept
    <3> QED
      BY <2>1
  <2> HIDE DEF upto, kept, nth
  <2> QED
    BY <2>2
<1>6. Without(s, rs) = w
  BY DEF Without
<1>7. \A k \in 1..n : f[k] = nth(k) /\ f[k] \in 1..Len(s) /\ s[f[k]] \notin rs
  <2>1. \A k \in 1..n : f[k] = nth(k)
    <3> HIDE DEF nth
    <3> QED
      OBVIOUS
  <2>2. \A k \in 1..n : f[k] \in kept
    BY <1>5
  <2> HIDE DEF f, nth, n
  <2> QED
    BY <2>1, <2>2
<1>8. f \in [1..n -> 1..Len(s)]
  <2> HIDE DEF nth, n
  <2> QED
    BY <1>7
<1>9. \A k \in 1..n : w[k] = s[f[k]] /\ s[f[k]] \notin rs
  <2> HIDE DEF f, nth, n
  <2> QED
    BY <1>7
<1>14. w \in Seq(S) /\ Len(w) = n
  <2> HIDE DEF f, nth, n
  <2>1. \A k \in 1..n : s[nth(k)] \in S
    BY <1>7
  <2> HIDE DEF kept
  <2> QED
    BY <1>1, <2>1
<1>10. ASSUME NEW k \in 1..n, NEW l \in 1..n, k < l PROVE f[k] < f[l]
  <2> HIDE DEF rank, f, kept
  <2>1. f[k] \in kept /\ rank[f[k]] = k /\ f[l] \in kept /\ rank[f[l]] = l
    BY <1>5
  <2>2. f[k] \in Int /\ f[l] \in Int /\ k \in Int /\ l \in Int
    <3> HIDE DEF n
    <3>1. \A i \in kept : i \in Int
      BY <1>1
    <3> QED
      BY <2>1, <3>1
  <2>3. rank[f[k]] \in Int /\ rank[f[l]] \in Int
    BY <2>1, <2>2
  <2>4. ~(f[l] < f[k]) /\ f[l] # f[k]
    BY <1>3, <1>10, <2>1, <2>2
  <2> QED
    BY <2>2, <2>4
<1>11. ASSUME NEW i \in 1..Len(s), s[i] \notin rs PROVE \E k \in 1..n : f[k] = i
  <2>1. i \in kept
    BY <1>11
  <2> HIDE DEF rank, f, kept
  <2>2. rank[i] \in 1..n
    BY <1>2, <2>1
  <2>3. f[rank[i]] \in kept /\ rank[f[rank[i]]] = rank[i]
    BY <1>5, <2>2
  <2>4. f[rank[i]] = i
    <3>1. f[rank[i]] \in Int /\ i \in Int /\ rank[i] \in Int
      <4>1. \A k \in kept : k \in Int
        BY <1>1
      <4> HIDE DEF n, upto, nth
      <4> QED
        <5>1. i \in Int /\ f[rank[i]] \in Int
          BY <2>1, <2>3, <4>1
        <5>2. rank[i] \in Int
          BY <2>2
        <5> QED
          BY <5>1, <5>2
    <3> QED
      BY <1>3, <2>1, <2>3, <3>1
  <2> QED
    BY <2>2, <2>4
<1> HIDE DEF w, f, n
<1>12. \A k, l \in 1..n : k < l => f[k] < f[l]
  BY <1>10
<1>13. \A i \in 1..Len(s) : s[i] \notin rs => \E k \in 1..n : f[k] = i
  BY <1>11
<1> HIDE DEF kept, upto, rank, nth
<1> DEFINE Kept(v) ==
       /\ v \in Seq(S)
       /\ \E g \in [1..Len(v) -> 1..Len(s)] :
             /\ \A k \in 1..Len(v) : v[k] = s[g[k]] /\ s[g[k]] \notin rs
             /\ \A k, l \in 1..Len(v) : k < l => g[k] < g[l]
             /\ \A i \in 1..Len(s) : s[i] \notin rs => \E k \in 1..Len(v) : g[k] = i
<1>15. Kept(w)
  <2>1. w \in Seq(S) /\ Len(w) = n
    BY <1>14
  <2>2. f \in [1..Len(w) -> 1..Len(s)]
    BY <2>1, <1>8
  <2>3. \A k \in 1..Len(w) : w[k] = s[f[k]] /\ s[f[k]] \notin rs
    BY <2>1, <1>9
  <2>4. \A k, l \in 1..Len(w) : k < l => f[k] < f[l]
    BY <2>1, <1>12, Zenon
  <2>5. \A i \in 1..Len(s) : s[i] \notin rs => \E k \in 1..Len(w) : f[k] = i
    BY <2>1, <1>13, Zenon
  <2> QED
    BY <2>1, <2>2, <2>3, <2>4, <2>5, Zenon
<1>16. Kept(Without(s, rs))
  <2> HIDE DEF Kept
  <2> QED
    BY <1>6, <1>15
<1> QED
  BY <1>16

\* What that says of the elements of the new list, of their number, and of lists whose
\* elements are different.
LEMMA WithoutFacts ==
  ASSUME NEW S, NEW s \in Seq(S), NEW rs
  PROVE  /\ Without(s, rs) \in Seq(S)
         /\ ToSet(Without(s, rs)) = ToSet(s) \ rs
         /\ IsInjective(s) => IsInjective(Without(s, rs))
<1> DEFINE w == Without(s, rs)
<1>1. PICK f \in [1..Len(w) -> 1..Len(s)] :
              /\ \A k \in 1..Len(w) : w[k] = s[f[k]] /\ s[f[k]] \notin rs
              /\ \A k, l \in 1..Len(w) : k < l => f[k] < f[l]
              /\ \A i \in 1..Len(s) : s[i] \notin rs => \E k \in 1..Len(w) : f[k] = i
  BY WithoutPositions, SMTT(40)
<1>2. w \in Seq(S)
  BY WithoutPositions
<1> HIDE DEF w
<1>3. Len(w) \in Nat /\ Len(s) \in Nat /\ DOMAIN w = 1..Len(w) /\ DOMAIN s = 1..Len(s)
  BY <1>2
<1>4. ASSUME NEW x PROVE x \in ToSet(w) <=> x \in ToSet(s) /\ x \notin rs
  <2>1. (\E k \in 1..Len(w) : w[k] = x) <=> (\E i \in 1..Len(s) : s[i] = x) /\ x \notin rs
    <3>1. ASSUME NEW k \in 1..Len(w), w[k] = x
          PROVE  (\E i \in 1..Len(s) : s[i] = x) /\ x \notin rs
      <4>1. f[k] \in 1..Len(s) /\ s[f[k]] = x /\ x \notin rs
        BY <1>1, <3>1
      <4> QED
        BY <4>1
    <3>2. ASSUME NEW i \in 1..Len(s), s[i] = x, x \notin rs
          PROVE  \E k \in 1..Len(w) : w[k] = x
      BY <1>1, <3>2
    <3> QED
      BY <3>1, <3>2
  <2> QED
    BY <1>2, <2>1, ToSetDef, Zenon
<1>5. ASSUME IsInjective(s) PROVE IsInjective(w)
  <2>1. ASSUME NEW k \in 1..Len(w), NEW l \in 1..Len(w), w[k] = w[l] PROVE k = l
    <3>1. f[k] = f[l]
      BY <1>1, <1>3, <1>5, <2>1 DEF IsInjective
    <3>2. f[k] \in Int /\ f[l] \in Int /\ k \in Int /\ l \in Int
      BY <1>3
    <3> QED
      BY <1>1, <3>1, <3>2
  <2> QED
    BY <1>3, <2>1 DEF IsInjective
<1>6. ToSet(w) = ToSet(s) \ rs
  BY <1>4
<1> QED
  BY <1>2, <1>5, <1>6 DEF w

\* Popping the last element of a list of different elements leaves the others in place.
LEMMA WithoutLast ==
  ASSUME NEW S, NEW s \in Seq(S), s # <<>>, IsInjective(s)
  PROVE  /\ Last(s) = s[Len(s)]
         /\ Len(Without(s, {Last(s)})) = Len(s) - 1
         /\ \A i \in 1..Len(s) - 1 : Without(s, {Last(s)})[i] = s[i]
<1> DEFINE rs == {Last(s)}
           w == Without(s, rs)
           n == Len(s)
<1> HIDE DEF rs
<1>1. n \in Nat \ {0} /\ Last(s) = s[n] /\ DOMAIN s = 1..n
  BY EmptySeq DEF Last
<1>2. PICK f \in [1..Len(w) -> 1..n] :
              /\ \A k \in 1..Len(w) : w[k] = s[f[k]] /\ s[f[k]] \notin rs
              /\ \A k, l \in 1..Len(w) : k < l => f[k] < f[l]
              /\ \A i \in 1..n : s[i] \notin rs => \E k \in 1..Len(w) : f[k] = i
  BY WithoutPositions
<1>3. w \in Seq(S)
  BY WithoutPositions
<1> HIDE DEF w
<1>4. Len(w) \in Nat
  BY <1>3
<1>5. \A i \in 1..n - 1 : s[i] # Last(s)
  BY <1>1 DEF IsInjective
<1> USE DEF rs
<1> HIDE DEF n
<1>6. \A k \in 1..Len(w) : f[k] \in 1..n - 1
  BY <1>1, <1>2
<1>7. \A i \in 1..n - 1 : \E k \in 1..Len(w) : f[k] = i
  BY <1>1, <1>2, <1>5
<1>8. ASSUME NEW k \in 1..Len(w), \A l \in 1..Len(w) : l < k => f[l] = l
      PROVE  f[k] = k
  <2>0. k \in Int /\ f[k] \in Int /\ f[k] >= 1
    BY <1>1, <1>6
  <2>1. ~(f[k] < k)
    <3>1. SUFFICES ASSUME f[k] < k PROVE FALSE
      OBVIOUS
    <3>2. f[k] \in 1..Len(w) /\ f[f[k]] = f[k]
      BY <1>4, <1>8, <2>0, <3>1
    <3>3. f[f[k]] < f[k]
      BY <1>2, <3>1, <3>2
    <3> QED
      BY <2>0, <3>2, <3>3
  <2>2. ~(f[k] > k)
    <3>1. SUFFICES ASSUME f[k] > k PROVE FALSE
      OBVIOUS
    <3>2. k \in 1..n - 1
      BY <1>1, <1>4, <1>6, <2>0, <3>1
    <3>3. PICK m \in 1..Len(w) : f[m] = k
      BY <1>7, <3>2
    <3>4. m \in Int
      BY <1>4
    <3>5. ~(k < m) /\ k # m
      BY <1>2, <2>0, <3>1, <3>3
    <3>6. f[m] = m
      BY <1>8, <2>0, <3>4, <3>5
    <3> QED
      BY <3>3, <3>5, <3>6
  <2> QED
    BY <2>0, <2>1, <2>2
<1>9. \A k \in 1..Len(w) : f[k] = k
  <2>1. SUFFICES ASSUME {k \in 1..Len(w) : f[k] # k} # {} PROVE FALSE
    OBVIOUS
  <2> DEFINE T == {j \in 1..Len(w) : f[j] # j}
  <2>4. T \in SUBSET Nat /\ T # {}
    BY <1>4, <2>1
  <2>2. PICK k \in T : \A l \in T : k <= l
    <3> HIDE DEF T
    <3> QED
      BY <2>4, LeastNat
  <2>3. \A l \in 1..Len(w) : l < k => f[l] = l
    BY <1>4, <2>2
  <2> QED
    BY <1>8, <2>2, <2>3
<1>10. Len(w) = n - 1
  <2>1. ~(Len(w) > n - 1)
    <3>1. SUFFICES ASSUME Len(w) > n - 1 PROVE FALSE
      OBVIOUS
    <3>2. Len(w) \in 1..Len(w)
      BY <1>1, <1>4, <3>1
    <3>3. f[Len(w)] = Len(w) /\ f[Len(w)] \in 1..n - 1
      BY <1>6, <1>9, <3>2
    <3> QED
      BY <1>1, <1>4, <3>1, <3>3
  <2>2. ~(Len(w) < n - 1)
    <3>1. SUFFICES ASSUME Len(w) < n - 1 PROVE FALSE
      OBVIOUS
    <3>2. n - 1 \in 1..n - 1
      BY <1>1, <1>4, <3>1
    <3>3. PICK k \in 1..Len(w) : f[k] = n - 1
      BY <1>7, <3>2
    <3>4. k = n - 1
      BY <1>9, <3>3
    <3> QED
      BY <1>1, <1>4, <3>1, <3>4
  <2> QED
    BY <1>1, <1>4, <2>1, <2>2
<1>11. \A i \in 1..n - 1 : w[i] = s[i]
  BY <1>2, <1>9, <1>10
<1> QED
  BY <1>1, <1>10, <1>11 DEF w, n, rs

-----------------------------------------------------------------------------
(* The blocks that are held                                                 *)

\* The blocks that are held when request r holds b[r] of them.
Held(b) == UNION {{r} \X (1..b[r]) : r \in Requests}

\* Which blocks are held, and that their number is finite.
LEMMA HeldFinite ==
  ASSUME NEW b \in [Requests -> Nat]
  PROVE  /\ IsFiniteSet(Held(b)) /\ Cardinality(Held(b)) \in Nat
         /\ \A p : p \in Held(b) <=> \E r \in Requests : p \in {r} \X (1..b[r])
<1>1. \A p : p \in Held(b) <=> \E r \in Requests : p \in {r} \X (1..b[r])
  BY DEF Held
<1> DEFINE D == {b[r] : r \in Requests}
           Piece(r) == {r} \X (1..b[r])
           F == [r \in Requests |-> Piece(r)]
           Pieces == {Piece(r) : r \in Requests}
<1>2. IsFiniteSet(Pieces)
  <2>1. F \in Surjection(Requests, Pieces)
    BY DEF Surjection
  <2> HIDE DEF F, Pieces
  <2> QED
    BY <2>1, FS_Surjection, SchedulerAssumption
<1>3. ASSUME NEW r \in Requests PROVE IsFiniteSet(Piece(r))
  <2>0. b[r] \in Int /\ 1 \in Int
    OBVIOUS
  <2>1. IsFiniteSet({r}) /\ IsFiniteSet(1..b[r])
    BY <2>0, FS_Singleton, FS_Interval, Zenon
  <2> QED
    BY <2>1, FS_Product
<1>4. \A P \in Pieces : IsFiniteSet(P)
  BY <1>3
<1>5. Held(b) = UNION Pieces
  BY DEF Held
<1>6. IsFiniteSet(Held(b))
  <2> HIDE DEF Pieces
  <2> QED
    BY <1>2, <1>4, <1>5, FS_UNION
<1> QED
  BY <1>1, <1>6, FS_CardinalityType

\* Who holds no more than before leaves as many blocks free.
LEMMA HeldLess ==
  ASSUME NEW a \in [Requests -> Nat], NEW b \in [Requests -> Nat],
         \A r \in Requests : a[r] <= b[r]
  PROVE  Cardinality(Held(a)) <= Cardinality(Held(b))
<1>1. \A p : p \in Held(a) <=> \E r \in Requests : p \in {r} \X (1..a[r])
  BY HeldFinite
<1>2. \A p : p \in Held(b) <=> \E r \in Requests : p \in {r} \X (1..b[r])
  BY HeldFinite
<1>3. ASSUME NEW r \in Requests PROVE {r} \X (1..a[r]) \subseteq {r} \X (1..b[r])
  <2>1. 1..a[r] \subseteq 1..b[r]
    BY a[r] <= b[r], a[r] \in Nat, b[r] \in Nat
  <2> QED
    BY <2>1
<1>4. Held(a) \subseteq Held(b)
  BY <1>1, <1>2, <1>3, Zenon
<1> QED
  BY <1>4, HeldFinite, FS_Subset

\* When one request holds more or fewer blocks, the number changes by the difference.
LEMMA HeldUpdate ==
  ASSUME NEW b \in [Requests -> Nat], NEW e \in [Requests -> Nat], NEW r \in Requests,
         \A q \in Requests : q # r => e[q] = b[q]
  PROVE  Cardinality(Held(e)) = Cardinality(Held(b)) - b[r] + e[r]
<1> DEFINE c == [b EXCEPT ![r] = 0]
<1>0. c \in [Requests -> Nat] /\ \A q \in Requests : c[q] = IF q = r THEN 0 ELSE b[q]
  OBVIOUS
<1>1. ASSUME NEW d \in [Requests -> Nat], \A q \in Requests : q # r => d[q] = b[q]
      PROVE  Cardinality(Held(d)) = Cardinality(Held(c)) + d[r]
  <2> HIDE DEF c
  <2> DEFINE own == {r} \X (1..d[r])
  <2>1. \A p : p \in Held(d) <=> \E q \in Requests : p \in {q} \X (1..d[q])
    BY HeldFinite
  <2>2. \A p : p \in Held(c) <=> \E q \in Requests : p \in {q} \X (1..c[q])
    BY <1>0, HeldFinite
  <2>3. 1..c[r] = {}
    BY <1>0
  <2>4. \A q \in Requests : q # r => c[q] = d[q]
    BY <1>0, <1>1
  <2>5. Held(d) = Held(c) \cup own
    <3>1. ASSUME NEW p \in Held(d) PROVE p \in Held(c) \cup own
      <4>1. PICK q \in Requests : p \in {q} \X (1..d[q])
        BY <2>1
      <4>2. CASE q = r
        BY <4>1, <4>2
      <4>3. CASE q # r
        BY <2>2, <2>4, <4>1, <4>3
      <4> QED
        BY <4>2, <4>3
    <3>2. ASSUME NEW p \in Held(c) PROVE p \in Held(d)
      <4>1. PICK q \in Requests : p \in {q} \X (1..c[q])
        BY <2>2
      <4>2. q # r
        BY <2>3, <4>1
      <4> QED
        BY <2>1, <2>4, <4>1, <4>2
    <3>3. own \subseteq Held(d)
      BY <2>1
    <3> QED
      BY <3>1, <3>2, <3>3
  <2>6. Held(c) \cap own = {}
    <3>1. SUFFICES ASSUME NEW p \in Held(c), p \in own PROVE FALSE
      OBVIOUS
    <3>2. PICK q \in Requests : p \in {q} \X (1..c[q])
      BY <2>2
    <3>3. q = r
      BY <3>1, <3>2
    <3> QED
      BY <2>3, <3>2, <3>3
  <2>7. IsFiniteSet(own) /\ Cardinality(own) = d[r]
    <3>0. d[r] \in Int /\ 1 \in Int
      OBVIOUS
    <3>1. IsFiniteSet({r}) /\ IsFiniteSet(1..d[r]) /\ Cardinality({r}) = 1
      BY <3>0, FS_Singleton, FS_Interval, Zenon
    <3>2. Cardinality(1..d[r]) = d[r] /\ d[r] \in Nat
      BY FS_Interval
    <3>3. IsFiniteSet(own) /\ Cardinality(own) = Cardinality({r}) * Cardinality(1..d[r])
      BY <3>1, FS_Product, Zenon
    <3> QED
      BY <3>1, <3>2, <3>3
  <2>8. IsFiniteSet(Held(c)) /\ Cardinality(Held(c)) \in Nat
    BY <1>0, HeldFinite
  <2> HIDE DEF own
  <2>9. Cardinality(Held(d)) = Cardinality(Held(c)) + Cardinality(own) - Cardinality({})
    BY <2>5, <2>6, <2>7, <2>8, FS_Union
  <2>10. Cardinality({}) = 0 /\ d[r] \in Nat
    BY FS_EmptySet
  <2> QED
    BY <2>7, <2>8, <2>9, <2>10
<1> HIDE DEF c
<1>3. Cardinality(Held(b)) = Cardinality(Held(c)) + b[r]
  BY <1>1
<1>4. Cardinality(Held(e)) = Cardinality(Held(c)) + e[r]
  BY <1>1
<1>5. Cardinality(Held(c)) \in Nat /\ b[r] \in Nat /\ e[r] \in Nat
  BY <1>0, HeldFinite
<1> QED
  BY <1>3, <1>4, <1>5

-----------------------------------------------------------------------------
(* The inductive invariant                                                  *)

\* What the assumptions on the constants give the arithmetic of the cache and the limits.
LEMMA Bounds ==
  /\ PromptLens \subseteq Nat \ {0}
  /\ NumBlocks \in Nat \ {0} /\ BlockSize \in Nat \ {0} /\ MaxModelLen \in Nat \ {0}
  /\ MaxTokens \in Nat \ {0} /\ MaxRunning \in Nat \ {0}
  /\ Watermark \in Nat
  /\ "auto" \in Modes
  /\ \A n \in Nat : BlocksFor(n) \in Nat
<1>1. ASSUME NEW n \in Nat PROVE BlocksFor(n) \in Nat
  <2>1. BlockSize \in Nat \ {0}
    BY SchedulerAssumption
  <2>2. n + BlockSize - 1 \in Nat
    BY <2>1
  <2>3. \A a \in Nat : a \div BlockSize \in Nat
    BY <2>1
  <2> QED
    BY <2>2, <2>3 DEF BlocksFor, cdiv
<1> QED
  BY <1>1, SchedulerAssumption

\* The blocks that are free, by what every request holds.
LEMMA FreeBlocksDef ==
  ASSUME TypeOK
  PROVE  /\ FreeBlocks = NumBlocks - 1 - Cardinality(Held(blocks))
         /\ Cardinality(Held(blocks)) \in Nat
         /\ FreeBlocks \in Int
<1>1. blocks \in [Requests -> Nat]
  BY DEF TypeOK
<1>2. Cardinality(Held(blocks)) \in Nat
  BY <1>1, HeldFinite
<1>3. FreeBlocks = NumBlocks - 1 - Cardinality(Held(blocks))
  BY DEF FreeBlocks, HeldBlocks, Held
<1> QED
  BY <1>2, <1>3, Bounds

\* Nothing is held at first, and every place is empty.
LEMMA InitInv == Init => SchedulerInv
<1> SUFFICES ASSUME Init PROVE SchedulerInv
  OBVIOUS
<1>1. TypeOK
  BY Bounds DEF Init, TypeOK, Statuses, EmptyBatch
<1>2. ToSet(<<>>) = {} /\ IsInjective(<<>>)
  BY ToSetFacts, InjectiveFacts
<1>3. Places
  BY <1>2 DEF Init, Places, WaitingStatuses
<1>4. Flying = {}
  BY DEF Init, Flying
<1>5. Flight
  BY <1>4 DEF Init, Flight, EmptyBatch
<1>6. Counts
  BY DEF Init, Counts, WaitingStatuses
<1>7. Phases
  BY DEF Init, Phases, EmptyBatch
<1>8. BlocksSuffice
  <2>1. \A p : p \notin Held(blocks)
    BY DEF Init, Held
  <2>2. Cardinality(Held(blocks)) = 0
    BY <2>1, FS_EmptySet
  <2>3. ToSet(running) = {}
    BY <1>2 DEF Init
  <2> QED
    BY <1>1, <2>2, <2>3, FreeBlocksDef, Bounds DEF BlocksSuffice
<1> QED
  BY <1>1, <1>3, <1>5, <1>6, <1>7, <1>8 DEF SchedulerInv

\* A step that leaves the requests' blocks, the running requests, the batch and what is
\* computed alone keeps BlocksSuffice.
LEMMA BlocksFrame ==
  ASSUME BlocksSuffice, UNCHANGED <<blocks, running, computed, batch>>
  PROVE  BlocksSuffice'
BY DEF BlocksSuffice, FreeBlocks, HeldBlocks, BlocksFor, cdiv

\* add_request.
LEMMA AddRequestInv ==
  ASSUME SchedulerInv, NEW r \in Requests, NEW n \in PromptLens, NEW g \in BOOLEAN,
         AddRequest(r, n, g)
  PROVE  SchedulerInv'
<1> USE DEF SchedulerInv, localVars
<1>1. n \in Nat \ {0}
  BY Bounds
<1>2. TypeOK'
  <2>1. Append(waiting, r) \in Seq(Requests)
    BY ToSetFacts DEF TypeOK
  <2> QED
    BY <1>1, <2>1 DEF TypeOK, AddRequest, Statuses, WaitingStatuses
<1>3. status[r] = "new" /\ r \notin ToSet(waiting) /\ r \notin ToSet(skipped) /\ batch[r] = 0
      /\ r \notin Flying
  <2>1. status[r] = "new"
    BY DEF AddRequest
  <2>2. r \notin ToSet(waiting) /\ r \notin ToSet(skipped)
    BY <2>1 DEF Places, WaitingStatuses
  <2>3. batch[r] \in Nat /\ ~(batch[r] > 0)
    BY <2>1 DEF Flight, TypeOK
  <2>4. r \notin Flying
    BY <2>1 DEF Flight
  <2> QED
    BY <2>1, <2>2, <2>3, <2>4
<1>4. ToSet(waiting') = ToSet(waiting) \cup {r} /\ IsInjective(waiting')
  BY <1>3, ToSetFacts, InjectiveFacts DEF AddRequest, Places, TypeOK
<1>5. status' \in [Requests -> Statuses] /\ status'[r] \in WaitingStatuses
      /\ \A q \in Requests : q # r => status'[q] = status[q]
  BY <1>2 DEF TypeOK, AddRequest, WaitingStatuses
<1>6. Places'
  <2>1. requests' = {q \in Requests : status'[q] \notin {"new", "finished"}}
    BY <1>5 DEF Places, AddRequest, WaitingStatuses
  <2>2. ToSet(running') = {q \in Requests : status'[q] = "running"}
    BY <1>3, <1>5 DEF Places, AddRequest, WaitingStatuses
  <2>3. ToSet(waiting') \cup ToSet(skipped')
           = {q \in Requests : status'[q] \in WaitingStatuses}
    BY <1>3, <1>4, <1>5 DEF Places, AddRequest
  <2>4. \A q \in Requests : blocks'[q] > 0 => status'[q] = "running"
    BY <1>3, <1>5 DEF Places, AddRequest
  <2> QED
    BY <1>3, <1>4, <2>1, <2>2, <2>3, <2>4 DEF Places, AddRequest
<1>7. Flying' = Flying
  BY DEF AddRequest, Flying
<1>8. \A q \in Requests : status'[q] = "running" <=> status[q] = "running"
  BY <1>3, <1>5 DEF WaitingStatuses
<1>9. Flight'
  BY <1>3, <1>5, <1>7, <1>8 DEF Flight, AddRequest, Flying
<1>10. Counts'
  BY <1>1, <1>3, <1>5, <1>7, <1>8 DEF Counts, AddRequest, TypeOK, WaitingStatuses
<1>11. Phases'
  BY <1>7, <1>8 DEF Phases, AddRequest
<1>12. BlocksSuffice'
  BY BlocksFrame DEF AddRequest
<1> QED
  BY <1>2, <1>6, <1>9, <1>10, <1>11, <1>12

\* A grammar becomes ready, the mode is set, schedule() begins, or its decode loop ends.
LEMMA LittleInv ==
  ASSUME SchedulerInv,
         \/ \E r \in Requests : GrammarReady(r)
         \/ \E m \in Modes : SetForcedMode(m)
         \/ BeginSchedule
         \/ EndDecode
         \/ UNCHANGED vars
  PROVE  SchedulerInv'
<1> USE DEF SchedulerInv
<1>1. UNCHANGED <<requests, status, tokens, computed, blocks, waiting, running, scheduledIds,
                  inFlight, skipped, batch, reqIndex>>
  BY DEF GrammarReady, SetForcedMode, BeginSchedule, EndDecode, vars, reqVars, queueVars,
         localVars
<1>2. \/ pc' = pc
      \/ pc = "idle" /\ pc' = "prefill"
      \/ pc = "decode" /\ pc' = "output"
  BY DEF GrammarReady, SetForcedMode, BeginSchedule, EndDecode, vars, reqVars, queueVars,
         localVars
<1>3. grammar' \subseteq Requests /\ forcedMode' \in Modes /\ budget' \in Nat
  BY Bounds DEF GrammarReady, SetForcedMode, BeginSchedule, EndDecode, vars, reqVars,
                queueVars, localVars, TypeOK
<1>4. TypeOK'
  BY <1>1, <1>2, <1>3 DEF TypeOK
<1>5. Places'
  BY <1>1 DEF Places
<1>6. Flying' = Flying
  BY <1>1 DEF Flying
<1>7. Flight'
  BY <1>1, <1>6 DEF Flight
<1>8. Counts'
  BY <1>1, <1>6 DEF Counts
<1>9. Phases'
  <2>1. CASE pc' = pc
    BY <1>1, <1>6, <2>1 DEF Phases
  <2>2. CASE pc = "idle" /\ pc' = "prefill"
    BY <1>1, <1>6, <2>2 DEF Phases
  <2>3. CASE pc = "decode" /\ pc' = "output"
    BY <1>1, <1>6, <2>3 DEF Phases
  <2> QED
    BY <1>2, <2>1, <2>2, <2>3
<1>10. BlocksSuffice'
  BY <1>1, BlocksFrame
<1> QED
  BY <1>4, <1>5, <1>7, <1>8, <1>9, <1>10

\* _free_request: the requests leave the running list, and nobody holds more blocks.
LEMMA FreeRequestsFacts ==
  ASSUME SchedulerInv, NEW rs \in SUBSET requests, FreeRequests(rs),
         UNCHANGED <<computed, batch>>
  PROVE  /\ rs \subseteq Requests
         /\ requests' \subseteq Requests
         /\ status' \in [Requests -> Statuses]
         /\ \A r \in Requests : status'[r] = IF r \in rs THEN "finished" ELSE status[r]
         /\ blocks' \in [Requests -> Nat]
         /\ running' \in Seq(Requests)
         /\ ToSet(running') = ToSet(running) \ rs
         /\ ToSet(running') = {r \in Requests : status'[r] = "running"}
         /\ IsInjective(running')
         /\ requests' = {r \in Requests : status'[r] \notin {"new", "finished"}}
         /\ \A r \in Requests : blocks'[r] > 0 => status'[r] = "running"
         /\ BlocksSuffice'
<1> USE DEF SchedulerInv
<1>1. rs \subseteq Requests
  BY DEF TypeOK
<1>2. /\ status' \in [Requests -> Statuses]
      /\ \A r \in Requests : status'[r] = IF r \in rs THEN "finished" ELSE status[r]
  BY DEF TypeOK, FreeRequests, Statuses
<1>3. /\ blocks' \in [Requests -> Nat]
      /\ \A r \in Requests : blocks'[r] = IF r \in rs THEN 0 ELSE blocks[r]
  BY DEF TypeOK, FreeRequests
<1>4. /\ running' \in Seq(Requests) /\ ToSet(running') = ToSet(running) \ rs
      /\ IsInjective(running')
  BY WithoutFacts DEF TypeOK, Places, FreeRequests
<1>5. requests' = requests \ rs
  BY DEF FreeRequests
<1>6. requests' = {r \in Requests : status'[r] \notin {"new", "finished"}}
  BY <1>2, <1>5 DEF Places
<1>7. ToSet(running') = {r \in Requests : status'[r] = "running"}
  BY <1>2, <1>4 DEF Places
<1>8. \A r \in Requests : blocks'[r] > 0 => status'[r] = "running"
  BY <1>2, <1>3 DEF Places
<1>9. FreeBlocks' >= 0
  <2>1. FreeBlocks' = NumBlocks - 1 - Cardinality(Held(blocks'))
    BY DEF FreeBlocks, HeldBlocks, Held
  <2>4. blocks \in [Requests -> Nat]
    BY DEF TypeOK
  <2>2. \A r \in Requests : blocks'[r] <= blocks[r]
    BY <1>3, <2>4
  <2>3. Cardinality(Held(blocks')) <= Cardinality(Held(blocks))
        /\ Cardinality(Held(blocks')) \in Nat
    BY <1>3, <2>2, <2>4, HeldLess, HeldFinite
  <2> QED
    BY <2>1, <2>3, FreeBlocksDef, Bounds DEF BlocksSuffice
<1>10. ASSUME NEW r \in ToSet(running')
       PROVE  (BlocksFor(computed[r] + batch[r]))' <= blocks'[r]
  <2>1. r \in ToSet(running) /\ r \notin rs /\ r \in Requests
    BY <1>4 DEF Places
  <2>2. blocks'[r] = blocks[r]
    BY <1>3, <2>1
  <2>3. BlocksFor(computed[r] + batch[r]) <= blocks[r]
    BY <2>1 DEF BlocksSuffice
  <2> QED
    BY <2>2, <2>3 DEF BlocksFor, cdiv
<1>11. BlocksSuffice'
  BY <1>9, <1>10 DEF BlocksSuffice
<1> QED
  BY <1>1, <1>2, <1>3, <1>4, <1>5, <1>6, <1>7, <1>8, <1>11 DEF TypeOK

\* finish_requests.  Called with a string, it leaves the request in scheduled_req_ids, where
\* it no longer belongs; the requests that run are not affected.
LEMMA FinishRequestInv ==
  ASSUME SchedulerInv, NEW r \in Requests, FinishRequest(r)
  PROVE  SchedulerInv'
<1> USE DEF SchedulerInv, localVars
<1>1. {r} \in SUBSET requests /\ FreeRequests({r}) /\ UNCHANGED <<computed, batch>>
  BY DEF FinishRequest
<1>2. /\ requests' \subseteq Requests
      /\ status' \in [Requests -> Statuses]
      /\ \A q \in Requests : status'[q] = IF q \in {r} THEN "finished" ELSE status[q]
      /\ blocks' \in [Requests -> Nat]
      /\ running' \in Seq(Requests)
      /\ ToSet(running') = {q \in Requests : status'[q] = "running"}
      /\ IsInjective(running')
      /\ requests' = {q \in Requests : status'[q] \notin {"new", "finished"}}
      /\ \A q \in Requests : blocks'[q] > 0 => status'[q] = "running"
      /\ BlocksSuffice'
  BY <1>1, FreeRequestsFacts
<1>3. /\ waiting' \in Seq(Requests) /\ ToSet(waiting') = ToSet(waiting) \ {r}
      /\ IsInjective(waiting')
  BY WithoutFacts DEF FinishRequest, TypeOK, Places
<1>4. skipped = <<>> /\ skipped' = <<>> /\ ToSet(<<>>) = {} /\ pc = "idle" /\ pc' = "idle"
      /\ \A q \in Requests : batch[q] = 0
  BY ToSetFacts DEF FinishRequest, Phases
<1>5. /\ scheduledIds' \subseteq scheduledIds /\ scheduledIds \subseteq scheduledIds' \cup {r}
      /\ ~AbortByName => r \notin scheduledIds'
  BY DEF FinishRequest
<1>6. TypeOK'
  BY <1>2, <1>3, <1>5 DEF TypeOK, FinishRequest
<1>7. Places'
  <2>1. ToSet(waiting') \cup ToSet(skipped')
           = {q \in Requests : status'[q] \in WaitingStatuses}
    BY <1>2, <1>3, <1>4 DEF Places, WaitingStatuses
  <2> QED
    BY <1>2, <1>3, <1>4, <2>1 DEF Places
<1>8. Flying' = Flying
  BY DEF FinishRequest, Flying
<1>9. Flight'
  <2>1. /\ \A q \in Requests : status'[q] = "running" =>
             (q \in scheduledIds' <=> q \in Flying' \/ batch'[q] > 0)
        /\ ~AbortByName => \A q \in scheduledIds' : status'[q] = "running"
    <3>1. scheduledIds \subseteq Requests /\ batch' = batch
      BY DEF TypeOK, FinishRequest
    <3> QED
      BY <1>2, <1>4, <1>5, <1>8, <3>1 DEF Flight
  <2>2. \A q \in Flying' : status'[q] \in {"running", "finished"}
    BY <1>2, <1>8 DEF Flight, Flying
  <2>3. \A q \in Requests : batch'[q] > 0 => status'[q] = "running" /\ q \notin Flying'
    BY <1>4 DEF FinishRequest
  <2>4. \A q \in Requests : status'[q] = "running" =>
          \A i, j \in 1..Len(inFlight') :
              inFlight'[i][q] > 0 /\ inFlight'[j][q] > 0 => i = j
    BY <1>2 DEF FinishRequest, Flight
  <2> QED
    BY <2>1, <2>2, <2>3, <2>4 DEF Flight
<1>10. Counts'
  BY <1>2, <1>8 DEF Counts, FinishRequest, WaitingStatuses
<1>11. Phases'
  BY <1>4 DEF Phases, FinishRequest
<1> QED
  BY <1>2, <1>6, <1>7, <1>9, <1>10, <1>11

\* update_from_output: the requests of the oldest batch that are still there are running,
\* and their new token is the one that is not computed.
LEMMA UpdateInv ==
  ASSUME SchedulerInv, NEW stopped \in SUBSET Requests, UpdateFromOutput(stopped)
  PROVE  SchedulerInv'
<1> USE DEF SchedulerInv, localVars
<1> DEFINE b == Head(inFlight)
           alive == {r \in requests : b[r] > 0}
<1>1. /\ inFlight # <<>> /\ b = inFlight[1] /\ b \in [Requests -> Nat]
      /\ inFlight' \in Seq([Requests -> Nat]) /\ Len(inFlight') = Len(inFlight) - 1
      /\ Len(inFlight) \in Nat /\ Len(inFlight) > 0
      /\ \A i \in 1..Len(inFlight') : inFlight'[i] = inFlight[i + 1]
  BY ToSetFacts DEF UpdateFromOutput, TypeOK
<1>2. /\ stopped \subseteq alive
      /\ {r \in alive : tokens[r] + 1 >= MaxModelLen} \subseteq stopped
      /\ tokens' = [r \in Requests |-> IF r \in alive THEN tokens[r] + 1 ELSE tokens[r]]
      /\ FreeRequests(stopped)
      /\ scheduledIds' = scheduledIds \ Deschedule(b)
  BY DEF UpdateFromOutput
<1>3. /\ pc = "idle" /\ pc' = "idle" /\ skipped = <<>> /\ reqIndex = 1
      /\ \A q \in Requests : batch[q] = 0
      /\ UNCHANGED <<computed, grammar, waiting, forcedMode, pc, skipped, budget, batch,
                     reqIndex>>
  BY DEF UpdateFromOutput, Phases
<1>4. /\ requests' \subseteq Requests
      /\ status' \in [Requests -> Statuses]
      /\ \A q \in Requests : status'[q] = IF q \in stopped THEN "finished" ELSE status[q]
      /\ blocks' \in [Requests -> Nat]
      /\ running' \in Seq(Requests)
      /\ ToSet(running') = {q \in Requests : status'[q] = "running"}
      /\ IsInjective(running')
      /\ requests' = {q \in Requests : status'[q] \notin {"new", "finished"}}
      /\ \A q \in Requests : blocks'[q] > 0 => status'[q] = "running"
      /\ BlocksSuffice'
  <2>1. stopped \in SUBSET requests
    BY <1>2
  <2> QED
    BY <1>2, <1>3, <2>1, FreeRequestsFacts
<1>5. \A q \in Requests : tokens'[q] = IF q \in alive THEN tokens[q] + 1 ELSE tokens[q]
  BY <1>2
<1>6. \A q \in Requests : b[q] > 0 => q \in Flying
  <2>1. 1 \in 1..Len(inFlight)
    BY <1>1
  <2> QED
    BY <1>1, <2>1 DEF Flying
<1>7. \A q \in Requests : q \in alive <=> status[q] = "running" /\ b[q] > 0
  BY <1>6 DEF Places, Flight, TypeOK
<1>8. Deschedule(b) = alive
  BY <1>7 DEF Deschedule, Places
<1> HIDE DEF b, alive
<1>9. \A q \in Requests : q \in Flying' <=> \E i \in 1..Len(inFlight') : inFlight'[i][q] > 0
  BY DEF Flying
<1>10. ASSUME NEW q \in Requests, NEW i \in 1..Len(inFlight')
       PROVE  i + 1 \in 1..Len(inFlight) /\ inFlight'[i][q] = inFlight[i + 1][q] /\ i \in Int
  BY <1>1
<1>11. \A q \in Requests : q \in Flying' => q \in Flying
  BY <1>9, <1>10 DEF Flying
<1>12. ASSUME NEW q \in Requests, status[q] = "running", b[q] > 0 PROVE q \notin Flying'
  <2>1. SUFFICES ASSUME NEW i \in 1..Len(inFlight'), inFlight'[i][q] > 0 PROVE FALSE
    BY <1>9
  <2>2. i + 1 \in 1..Len(inFlight) /\ inFlight[i + 1][q] > 0 /\ i \in Int /\ i >= 1
    BY <1>1, <1>10, <2>1
  <2>3. 1 \in 1..Len(inFlight) /\ inFlight[1][q] > 0
    BY <1>1, <1>12
  <2>4. i + 1 = 1
    BY <1>12, <2>2, <2>3 DEF Flight
  <2> QED
    BY <2>2, <2>4
<1>13. ASSUME NEW q \in Requests, ~(b[q] > 0), q \in Flying PROVE q \in Flying'
  <2>1. PICK i \in 1..Len(inFlight) : inFlight[i][q] > 0
    BY <1>13 DEF Flying
  <2>2. i # 1
    BY <1>1, <1>13, <2>1
  <2>3. i - 1 \in 1..Len(inFlight') /\ (i - 1) + 1 = i
    BY <1>1, <2>2
  <2>4. inFlight'[i - 1] = inFlight[i]
    BY <1>1, <2>3
  <2> QED
    BY <1>9, <2>1, <2>3, <2>4
<1>14. TypeOK'
  <2>1. tokens' \in [Requests -> Nat]
    BY <1>2 DEF TypeOK
  <2> QED
    BY <1>1, <1>2, <1>3, <1>4, <2>1 DEF TypeOK
<1>15. \A q \in stopped : q \in Requests /\ status[q] = "running" /\ b[q] > 0
  BY <1>2, <1>7
<1>16. Places'
  <2>1. ToSet(waiting') \cup ToSet(skipped')
           = {q \in Requests : status'[q] \in WaitingStatuses}
    BY <1>3, <1>4, <1>15 DEF Places, WaitingStatuses
  <2> QED
    BY <1>3, <1>4, <2>1 DEF Places
<1>17. Flight'
  <2>1. \A q \in Requests : q \in scheduledIds' <=>
           q \in scheduledIds /\ ~(status[q] = "running" /\ b[q] > 0)
    BY <1>2, <1>7, <1>8
  <2>2. \A q \in Flying' : status'[q] \in {"running", "finished"}
    BY <1>4, <1>11 DEF Flight, Flying
  <2>3. \A q \in Requests : batch'[q] > 0 => status'[q] = "running" /\ q \notin Flying'
    BY <1>3
  <2>4. ASSUME NEW q \in Requests, status'[q] = "running",
               NEW i \in 1..Len(inFlight'), NEW j \in 1..Len(inFlight'),
               inFlight'[i][q] > 0, inFlight'[j][q] > 0
        PROVE  i = j
    <3>1. status[q] = "running"
      BY <1>4, <2>4
    <3>2. i + 1 \in 1..Len(inFlight) /\ inFlight[i + 1][q] > 0 /\ i \in Int
      BY <1>10, <2>4
    <3>3. j + 1 \in 1..Len(inFlight) /\ inFlight[j + 1][q] > 0 /\ j \in Int
      BY <1>10, <2>4
    <3>4. i + 1 = j + 1
      BY <3>1, <3>2, <3>3 DEF Flight
    <3> QED
      BY <3>2, <3>3, <3>4
  <2>5. /\ \A q \in Requests : status'[q] = "running" =>
             (q \in scheduledIds' <=> q \in Flying' \/ batch'[q] > 0)
        /\ ~AbortByName => \A q \in scheduledIds' : status'[q] = "running"
    <3>1. ASSUME NEW q \in Requests, status'[q] = "running"
          PROVE  q \in scheduledIds' <=> q \in Flying' \/ batch'[q] > 0
      <4>1. status[q] = "running" /\ ~(batch'[q] > 0) /\ ~(batch[q] > 0)
        BY <1>3, <1>4, <3>1
      <4>2. q \in scheduledIds <=> q \in Flying
        BY <4>1 DEF Flight
      <4> QED
        BY <1>11, <1>12, <1>13, <2>1, <4>1, <4>2
    <3>2. ASSUME ~AbortByName, NEW q \in scheduledIds' PROVE status'[q] = "running"
      <4>1. q \in Requests
        BY <1>14 DEF TypeOK
      <4>2. q \in scheduledIds /\ ~(status[q] = "running" /\ b[q] > 0)
        BY <2>1, <4>1
      <4>3. status[q] = "running"
        BY <3>2, <4>2 DEF Flight
      <4> QED
        BY <1>4, <1>15, <4>1, <4>2, <4>3
    <3> QED
      BY <3>1, <3>2
  <2> QED
    BY <2>2, <2>3, <2>4, <2>5 DEF Flight
<1>18. Counts'
  <2> SUFFICES ASSUME NEW q \in Requests
               PROVE  /\ status'[q] \in {"new"} \cup WaitingStatuses => computed'[q] = 0
                      /\ status'[q] \in WaitingStatuses => tokens'[q] > 0
                      /\ status'[q] = "running" /\ batch'[q] > 0
                            => tokens'[q] = computed'[q] + batch'[q]
                      /\ status'[q] = "running" /\ batch'[q] = 0 => computed'[q] > 0
                      /\ status'[q] = "running" /\ q \in Flying' => tokens'[q] = computed'[q]
                      /\ status'[q] = "running" /\ q \notin Flying' /\ batch'[q] = 0 =>
                            tokens'[q] = computed'[q] + 1 /\ tokens'[q] < MaxModelLen
    BY DEF Counts
  <2>1. CASE q \in stopped
    BY <1>4, <2>1 DEF WaitingStatuses
  <2>2. CASE q \notin stopped /\ q \in alive
    <3>1. status[q] = "running" /\ b[q] > 0 /\ q \in Flying /\ q \notin Flying' /\ batch[q] = 0
      BY <1>3, <1>6, <1>7, <1>12, <2>2
    <3>2. tokens[q] = computed[q] /\ computed[q] > 0 /\ tokens[q] \in Nat
      BY <3>1 DEF Counts, TypeOK
    <3>3. tokens'[q] = tokens[q] + 1 /\ ~(tokens[q] + 1 >= MaxModelLen)
      BY <1>2, <1>5, <2>2
    <3>4. status'[q] = "running" /\ computed'[q] = computed[q] /\ batch'[q] = 0
      BY <1>3, <1>4, <2>2, <3>1
    <3> QED
      BY <3>1, <3>2, <3>3, <3>4, Bounds DEF WaitingStatuses
  <2>3. CASE q \notin stopped /\ q \notin alive
    <3>1. tokens'[q] = tokens[q] /\ status'[q] = status[q] /\ computed'[q] = computed[q]
          /\ batch'[q] = batch[q]
      BY <1>3, <1>4, <1>5, <2>3
    <3>2. status[q] = "running" => (q \in Flying' <=> q \in Flying)
      BY <1>7, <1>11, <1>13, <2>3
    <3> QED
      BY <3>1, <3>2 DEF Counts
  <2> QED
    BY <2>1, <2>2, <2>3
<1>19. Phases'
  BY <1>3 DEF Phases
<1> QED
  BY <1>4, <1>14, <1>16, <1>17, <1>18, <1>19

\* The request at the head of the queue, when the loop over self.waiting goes on: it waits,
\* holds no blocks, is in no batch, and all of its tokens are to be computed.
LEMMA CandidateFacts ==
  ASSUME SchedulerInv, pc = "prefill", waiting # <<>>
  PROVE  /\ Candidate \in Requests /\ status[Candidate] \in WaitingStatuses
         /\ Candidate \in ToSet(waiting) /\ Candidate \notin ToSet(skipped)
         /\ Candidate \notin ToSet(running)
         /\ Tail(waiting) \in Seq(Requests) /\ IsInjective(Tail(waiting))
         /\ ToSet(Tail(waiting)) = ToSet(waiting) \ {Candidate}
         /\ batch[Candidate] = 0 /\ Candidate \notin Flying
         /\ blocks[Candidate] = 0 /\ computed[Candidate] = 0
         /\ tokens[Candidate] \in Nat /\ tokens[Candidate] > 0
<1> USE DEF SchedulerInv
<1> DEFINE c == Candidate
<1>1. waiting \in Seq(Requests) /\ IsInjective(waiting)
  BY DEF TypeOK, Places
<1>2. /\ c \in Requests
      /\ Tail(waiting) \in Seq(Requests) /\ IsInjective(Tail(waiting))
      /\ ToSet(waiting) = {c} \cup ToSet(Tail(waiting)) /\ c \notin ToSet(Tail(waiting))
  BY <1>1, ToSetFacts, InjectiveFacts DEF Candidate
<1> HIDE DEF c
<1>3. c \in ToSet(waiting) /\ ToSet(Tail(waiting)) = ToSet(waiting) \ {c}
  BY <1>2
<1>4. status[c] \in WaitingStatuses /\ c \notin ToSet(skipped) /\ c \notin ToSet(running)
  BY <1>3 DEF Places, WaitingStatuses
<1>5. batch[c] = 0 /\ c \notin Flying /\ blocks[c] = 0
  <2>1. status[c] # "running" /\ status[c] # "finished"
    BY <1>4 DEF WaitingStatuses
  <2>2. ~(batch[c] > 0) /\ c \notin Flying
    BY <1>2, <2>1 DEF Flight
  <2>3. ~(blocks[c] > 0)
    BY <1>2, <2>1 DEF Places
  <2>4. batch[c] \in Nat /\ blocks[c] \in Nat
    BY <1>2 DEF TypeOK
  <2> QED
    BY <2>2, <2>3, <2>4
<1>6. computed[c] = 0 /\ tokens[c] > 0 /\ tokens[c] \in Nat
  BY <1>2, <1>4 DEF Counts, TypeOK
<1> QED
  BY <1>2, <1>3, <1>4, <1>5, <1>6 DEF c

\* A request is skipped.
LEMMA SkipInv ==
  ASSUME SchedulerInv, SkipCurRequest
  PROVE  SchedulerInv'
<1> USE DEF SchedulerInv
<1> DEFINE c == Candidate
<1>1. /\ pc = "prefill" /\ waiting # <<>>
      /\ skipped' = <<c>> \o skipped /\ waiting' = Tail(waiting)
      /\ UNCHANGED <<requests, tokens, computed, blocks, grammar, running,
                     scheduledIds, forcedMode, inFlight, pc, budget, batch, reqIndex>>
  BY DEF SkipCurRequest, MorePrefill
<1>2. /\ c \in Requests /\ status[c] \in WaitingStatuses
      /\ c \in ToSet(waiting) /\ c \notin ToSet(skipped)
      /\ Tail(waiting) \in Seq(Requests) /\ IsInjective(Tail(waiting))
      /\ ToSet(Tail(waiting)) = ToSet(waiting) \ {c}
      /\ batch[c] = 0 /\ c \notin Flying /\ blocks[c] = 0
      /\ computed[c] = 0 /\ tokens[c] > 0
  BY <1>1, CandidateFacts
<1>3. /\ status' \in [Requests -> Statuses]
      /\ status'[c] \in WaitingStatuses
      /\ \A q \in Requests : q # c => status'[q] = status[q]
  <2>1. status' = [status EXCEPT ![c] = IF status[c] = "waitingForFsm" /\ ~GrammarMissing(c)
                                        THEN "waiting" ELSE status[c]]
    BY DEF SkipCurRequest, Unblocked
  <2> QED
    BY <1>2, <2>1 DEF TypeOK, Statuses, WaitingStatuses
<1> HIDE DEF c
<1>4. /\ skipped' \in Seq(Requests) /\ IsInjective(skipped')
      /\ ToSet(skipped') = {c} \cup ToSet(skipped)
  <2>1. skipped \in Seq(Requests) /\ IsInjective(skipped)
    BY DEF TypeOK, Places
  <2>2. <<c>> \in Seq(Requests) /\ ToSet(<<c>>) = {c} /\ IsInjective(<<c>>)
    BY <1>2, ToSetFacts, InjectiveFacts
  <2> QED
    <3>1. ToSet(<<c>>) \cap ToSet(skipped) = {}
      BY <1>2, <2>2
    <3> DEFINE one == <<c>>
    <3>2. one \in Seq(Requests) /\ ToSet(one) = {c} /\ IsInjective(one)
          /\ ToSet(one) \cap ToSet(skipped) = {} /\ skipped' = one \o skipped
      BY <1>1, <2>2, <3>1
    <3> HIDE DEF one
    <3>3. one \o skipped \in Seq(Requests)
          /\ ToSet(one \o skipped) = ToSet(one) \cup ToSet(skipped)
      BY <2>1, <3>2, ToSetFacts
    <3>4. IsInjective(one \o skipped)
      BY <2>1, <3>2, InjectiveFacts
    <3> QED
      BY <3>2, <3>3, <3>4
<1>5. TypeOK'
  BY <1>1, <1>2, <1>3, <1>4 DEF TypeOK
<1>6. Places'
  <2>1. requests' = {q \in Requests : status'[q] \notin {"new", "finished"}}
    BY <1>1, <1>2, <1>3 DEF Places, WaitingStatuses
  <2>2. ToSet(running') = {q \in Requests : status'[q] = "running"}
    BY <1>1, <1>2, <1>3 DEF Places, WaitingStatuses
  <2>3. ToSet(waiting') \cup ToSet(skipped')
           = {q \in Requests : status'[q] \in WaitingStatuses}
    BY <1>1, <1>2, <1>3, <1>4 DEF Places
  <2>4. \A q \in Requests : blocks'[q] > 0 => status'[q] = "running"
    BY <1>1, <1>2, <1>3 DEF Places
  <2>5. ToSet(waiting') \cap ToSet(skipped') = {}
    BY <1>1, <1>2, <1>4 DEF Places
  <2> QED
    BY <1>1, <1>2, <1>4, <2>1, <2>2, <2>3, <2>4, <2>5 DEF Places
<1>7. Flying' = Flying
  BY <1>1 DEF Flying
<1>8. \A q \in Requests : status'[q] = "running" <=> status[q] = "running"
  BY <1>2, <1>3 DEF WaitingStatuses
<1>9. Flight'
  <2>1. scheduledIds \subseteq Requests
    BY DEF TypeOK
  <2>2. \A q \in Flying' : status'[q] \in {"running", "finished"}
    BY <1>2, <1>3, <1>7 DEF Flight, Flying
  <2> QED
    BY <1>1, <1>7, <1>8, <2>1, <2>2 DEF Flight
<1>10. Counts'
  BY <1>1, <1>2, <1>3, <1>7, <1>8 DEF Counts, WaitingStatuses
<1>11. Phases'
  BY <1>1 DEF Phases
<1>12. BlocksSuffice'
  BY <1>1, BlocksFrame
<1> QED
  BY <1>5, <1>6, <1>9, <1>10, <1>11, <1>12

\* A prompt that is too long is ignored.
LEMMA IgnoreInv ==
  ASSUME SchedulerInv, IgnoreRequest
  PROVE  SchedulerInv'
<1> USE DEF SchedulerInv
<1> DEFINE c == Candidate
<1>1. /\ pc = "prefill" /\ waiting # <<>> /\ waiting' = Tail(waiting)
      /\ status' = [status EXCEPT ![c] = "ignored"]
      /\ UNCHANGED <<requests, tokens, computed, blocks, grammar, running, scheduledIds,
                     forcedMode, inFlight, pc, skipped, budget, batch, reqIndex>>
  BY DEF IgnoreRequest, MorePrefill
<1>2. /\ c \in Requests /\ status[c] \in WaitingStatuses
      /\ c \in ToSet(waiting) /\ c \notin ToSet(skipped)
      /\ Tail(waiting) \in Seq(Requests) /\ IsInjective(Tail(waiting))
      /\ ToSet(Tail(waiting)) = ToSet(waiting) \ {c}
      /\ batch[c] = 0 /\ c \notin Flying /\ blocks[c] = 0
  BY <1>1, CandidateFacts
<1> HIDE DEF c
<1>3. /\ status' \in [Requests -> Statuses]
      /\ status'[c] = "ignored"
      /\ \A q \in Requests : q # c => status'[q] = status[q]
  BY <1>1, <1>2 DEF TypeOK, Statuses
<1>5. TypeOK'
  BY <1>1, <1>2, <1>3 DEF TypeOK
<1>6. Places'
  <2>1. requests' = {q \in Requests : status'[q] \notin {"new", "finished"}}
    BY <1>1, <1>2, <1>3 DEF Places, WaitingStatuses
  <2>2. ToSet(running') = {q \in Requests : status'[q] = "running"}
    BY <1>1, <1>2, <1>3 DEF Places, WaitingStatuses
  <2>3. ToSet(waiting') \cup ToSet(skipped')
           = {q \in Requests : status'[q] \in WaitingStatuses}
    BY <1>1, <1>2, <1>3 DEF Places, WaitingStatuses
  <2>4. \A q \in Requests : blocks'[q] > 0 => status'[q] = "running"
    BY <1>1, <1>2, <1>3 DEF Places
  <2> QED
    BY <1>1, <1>2, <2>1, <2>2, <2>3, <2>4 DEF Places
<1>7. Flying' = Flying
  BY <1>1 DEF Flying
<1>8. \A q \in Requests : status'[q] = "running" <=> status[q] = "running"
  BY <1>2, <1>3 DEF WaitingStatuses
<1>9. Flight'
  <2>1. scheduledIds \subseteq Requests
    BY DEF TypeOK
  <2>2. \A q \in Flying' : status'[q] \in {"running", "finished"}
    BY <1>2, <1>3, <1>7 DEF Flight, Flying
  <2> QED
    BY <1>1, <1>7, <1>8, <2>1, <2>2 DEF Flight
<1>10. Counts'
  BY <1>1, <1>2, <1>3, <1>7, <1>8 DEF Counts, WaitingStatuses
<1>11. Phases'
  BY <1>1 DEF Phases
<1>12. BlocksSuffice'
  BY <1>1, BlocksFrame
<1> QED
  BY <1>5, <1>6, <1>9, <1>10, <1>11, <1>12

\* Request r gets as many blocks as n more tokens need.
LEMMA BlocksGrow ==
  ASSUME SchedulerInv, NEW r \in Requests, NEW n \in Nat,
         blocks' = [blocks EXCEPT ![r] = BlocksFor(computed[r] + n)],
         NewBlocks(r, n) <= FreeBlocks,
         batch' = [batch EXCEPT ![r] = n],
         computed' = computed,
         ToSet(running') \subseteq ToSet(running) \cup {r}
  PROVE  blocks' \in [Requests -> Nat] /\ BlocksSuffice'
<1> USE DEF SchedulerInv
<1> DEFINE k == BlocksFor(computed[r] + n)
<1>1. blocks \in [Requests -> Nat] /\ computed[r] + n \in Nat
  BY DEF TypeOK
<1>2. k \in Nat
  BY <1>1, Bounds
<1>3. NewBlocks(r, n) = k - blocks[r]
  BY DEF NewBlocks
<1> HIDE DEF k
<1>4. /\ blocks' = [blocks EXCEPT ![r] = k]
      /\ blocks' \in [Requests -> Nat]
      /\ Cardinality(Held(blocks')) = Cardinality(Held(blocks)) - blocks[r] + k
  <2>1. blocks' = [blocks EXCEPT ![r] = k]
    BY DEF k
  <2> QED
    <3>1. /\ blocks' \in [Requests -> Nat] /\ blocks'[r] = k
          /\ \A q \in Requests : q # r => blocks'[q] = blocks[q]
      BY <1>1, <1>2, <2>1
    <3>2. Cardinality(Held(blocks')) = Cardinality(Held(blocks)) - blocks[r] + blocks'[r]
      BY <1>1, <3>1, HeldUpdate, Zenon
    <3> QED
      BY <2>1, <3>1, <3>2
<1>5. FreeBlocks' >= 0
  <2>1. FreeBlocks' = NumBlocks - 1 - Cardinality(Held(blocks'))
    BY DEF FreeBlocks, HeldBlocks, Held
  <2>2. blocks[r] \in Nat
    BY <1>1
  <2> QED
    BY <1>2, <1>3, <1>4, <2>1, <2>2, FreeBlocksDef, Bounds
<1>6. ASSUME NEW q \in ToSet(running')
      PROVE  (BlocksFor(computed[q] + batch[q]))' <= blocks'[q]
  <2>1. batch \in [Requests -> Nat] /\ ToSet(running) \subseteq Requests
    BY DEF TypeOK, Places
  <2>2. CASE q = r
    <3>1. batch'[q] = n /\ blocks'[q] = k
      BY <1>1, <1>4, <2>1, <2>2
    <3>2. (BlocksFor(computed[q] + batch[q]))' = k
      BY <2>2, <3>1 DEF k, BlocksFor, cdiv
    <3> QED
      BY <1>2, <3>1, <3>2
  <2>3. CASE q # r
    <3>1. q \in ToSet(running) /\ q \in Requests
      BY <2>1, <2>3
    <3>2. batch'[q] = batch[q] /\ blocks'[q] = blocks[q]
      BY <1>1, <1>4, <2>1, <2>3, <3>1
    <3>3. BlocksFor(computed[q] + batch[q]) <= blocks[q]
      BY <3>1 DEF BlocksSuffice
    <3> QED
      BY <3>2, <3>3 DEF BlocksFor, cdiv
  <2> QED
    BY <2>2, <2>3
<1> QED
  BY <1>4, <1>5, <1>6 DEF BlocksSuffice

\* allocate_slots never returns None for a request that passed the watermark: the free blocks
\* that remain may be few, but not negative.
LEMMA WatermarkSuffices ==
  ASSUME SchedulerInv, pc = "prefill", waiting # <<>>, Admissible(Candidate)
  PROVE  ~AllocationFails
<1> USE DEF SchedulerInv
<1> DEFINE c == Candidate
           n == NumNewTokens(c)
<1>1. /\ c \in Requests /\ computed[c] = 0
      /\ tokens[c] \in Nat /\ tokens[c] > 0
  BY CandidateFacts
<1>2. computed[c] + n \in Nat /\ blocks[c] \in Nat
  BY <1>1 DEF NumNewTokens, TypeOK
<1>3. CheckWatermark(c, n)
  BY DEF Admissible
<1> HIDE DEF c, n
<1>4. NewBlocks(c, n) \in Int
  BY <1>2, Bounds DEF NewBlocks
<1>5. Watermark * NumBlocks >= 0 /\ Watermark * NumBlocks \in Int
  BY Bounds
<1>6. 100 * (FreeBlocks - NewBlocks(c, n)) >= Watermark * NumBlocks
  BY <1>3 DEF CheckWatermark
<1>7. FreeBlocks \in Int
  BY FreeBlocksDef
<1>8. NewBlocks(c, n) <= FreeBlocks
  BY <1>4, <1>5, <1>6, <1>7
<1> QED
  BY <1>8 DEF AllocationFails, SlotsLeft, c, n

\* The loop over the waiting requests ends for its own conditions only.
LEMMA AllocationSucceeds ==
  ASSUME SchedulerInv, EndPrefill
  PROVE  status' = status
<1>1. /\ pc = "prefill" /\ (MorePrefill => AllocationFails)
      /\ status' = IF MorePrefill THEN Unblocked(Candidate) ELSE status
  BY DEF EndPrefill
<1>2. MorePrefill => waiting # <<>>
  BY DEF MorePrefill
<1>3. AllocationFails => Admissible(Candidate)
  BY DEF AllocationFails
<1> QED
  BY <1>1, <1>2, <1>3, WatermarkSuffices

\* A request is admitted: the watermark leaves the blocks it needs.
LEMMA SchedulePrefillInv ==
  ASSUME SchedulerInv, SchedulePrefill
  PROVE  SchedulerInv'
<1> USE DEF SchedulerInv
<1> DEFINE c == Candidate
           n == tokens[c]
<1>1. pc = "prefill" /\ waiting # <<>>
  BY DEF SchedulePrefill, MorePrefill
<1>2. /\ c \in Requests /\ status[c] \in WaitingStatuses
      /\ c \in ToSet(waiting) /\ c \notin ToSet(skipped) /\ c \notin ToSet(running)
      /\ Tail(waiting) \in Seq(Requests) /\ IsInjective(Tail(waiting))
      /\ ToSet(Tail(waiting)) = ToSet(waiting) \ {c}
      /\ batch[c] = 0 /\ c \notin Flying /\ blocks[c] = 0
      /\ computed[c] = 0 /\ n \in Nat /\ n > 0
  BY <1>1, CandidateFacts
<1>3. NumNewTokens(c) = n
  BY <1>2 DEF NumNewTokens
<1> HIDE DEF c
<1>4. /\ blocks' = [blocks EXCEPT ![c] = BlocksFor(computed[c] + n)]
      /\ status' = [status EXCEPT ![c] = "running"]
      /\ running' = Append(running, c)
      /\ scheduledIds' = scheduledIds \cup {c}
      /\ batch' = [batch EXCEPT ![c] = n]
      /\ budget' = budget - n
      /\ waiting' = Tail(waiting)
      /\ UNCHANGED <<requests, tokens, computed, grammar, forcedMode, inFlight, pc,
                     skipped, reqIndex>>
      /\ n <= budget
  BY <1>3 DEF SchedulePrefill, Admissible, c
<1> HIDE DEF n
<1>5. NewBlocks(c, n) <= FreeBlocks
  <2>1. ~AllocationFails /\ Admissible(c)
    BY DEF SchedulePrefill, c
  <2> QED
    BY <1>3, <2>1 DEF AllocationFails, SlotsLeft, c
<1>6. /\ running' \in Seq(Requests) /\ ToSet(running') = ToSet(running) \cup {c}
      /\ IsInjective(running')
  BY <1>2, <1>4, ToSetFacts, InjectiveFacts, SMTT(40) DEF TypeOK, Places
<1>7. blocks' \in [Requests -> Nat] /\ BlocksSuffice'
  BY <1>2, <1>4, <1>5, <1>6, BlocksGrow
<1>8. /\ status' \in [Requests -> Statuses] /\ status'[c] = "running"
      /\ \A q \in Requests : q # c => status'[q] = status[q]
  BY <1>2, <1>4 DEF TypeOK, Statuses
<1>9. /\ batch' \in [Requests -> Nat] /\ batch'[c] = n
      /\ \A q \in Requests : q # c => batch'[q] = batch[q]
  BY <1>2, <1>4 DEF TypeOK
<1>10. blocks'[c] \in Nat /\ \A q \in Requests : q # c => blocks'[q] = blocks[q]
  BY <1>2, <1>4, <1>7 DEF TypeOK
<1>11. TypeOK'
  <2>1. budget' \in Nat
    BY <1>2, <1>4 DEF TypeOK
  <2> QED
    BY <1>2, <1>4, <1>6, <1>7, <1>8, <1>9, <2>1 DEF TypeOK
<1>12. Places'
  <2>1. requests' = {q \in Requests : status'[q] \notin {"new", "finished"}}
    BY <1>4, <1>2, <1>8 DEF Places, WaitingStatuses
  <2>2. ToSet(running') = {q \in Requests : status'[q] = "running"}
    BY <1>2, <1>6, <1>8 DEF Places
  <2>3. ToSet(waiting') \cup ToSet(skipped')
           = {q \in Requests : status'[q] \in WaitingStatuses}
    BY <1>4, <1>2, <1>8 DEF Places, WaitingStatuses
  <2>4. \A q \in Requests : blocks'[q] > 0 => status'[q] = "running"
    BY <1>8, <1>10 DEF Places
  <2> QED
    BY <1>2, <1>4, <1>6, <2>1, <2>2, <2>3, <2>4 DEF Places
<1>13. Flying' = Flying
  BY <1>4 DEF Flying
<1>14. Flight'
  <2>1. \A q \in Flying' : status'[q] \in {"running", "finished"}
    BY <1>8, <1>13 DEF Flight, Flying
  <2>2. \A q \in Requests : status'[q] = "running" =>
          \A i, j \in 1..Len(inFlight') :
              inFlight'[i][q] > 0 /\ inFlight'[j][q] > 0 => i = j
    BY <1>2, <1>4, <1>8 DEF Flight, Flying
  <2>3. \A q \in Requests : batch'[q] > 0 => status'[q] = "running" /\ q \notin Flying'
    BY <1>2, <1>8, <1>9, <1>13 DEF Flight
  <2>4. /\ \A q \in Requests : status'[q] = "running" =>
             (q \in scheduledIds' <=> q \in Flying' \/ batch'[q] > 0)
        /\ ~AbortByName => \A q \in scheduledIds' : status'[q] = "running"
    BY <1>2, <1>4, <1>8, <1>9, <1>13 DEF Flight
  <2> QED
    BY <2>1, <2>2, <2>3, <2>4 DEF Flight
<1>15. Counts'
  BY <1>2, <1>4, <1>8, <1>9, <1>13 DEF Counts, WaitingStatuses, n
<1>16. Phases'
  BY <1>1, <1>2, <1>4, <1>9 DEF Phases
<1> QED
  BY <1>7, <1>11, <1>12, <1>14, <1>15, <1>16

\* The skipped requests go back to the front of the queue.  The decode loop starts only when
\* no request is scheduled, so none is in flight and the batch is empty.
LEMMA EndPrefillInv ==
  ASSUME SchedulerInv, EndPrefill
  PROVE  SchedulerInv'
<1> USE DEF SchedulerInv
<1>1. /\ pc = "prefill"
      /\ waiting' = Reverse(skipped) \o waiting
      /\ pc' = "output" \/ (pc' = "decode" /\ scheduledIds = {})
      /\ skipped' = <<>>
      /\ UNCHANGED <<requests, status, tokens, computed, blocks, grammar, running,
                     scheduledIds, forcedMode, inFlight, budget, batch, reqIndex>>
  BY AllocationSucceeds DEF EndPrefill
<1>2. /\ waiting' \in Seq(Requests) /\ IsInjective(waiting')
      /\ ToSet(waiting') = ToSet(skipped) \cup ToSet(waiting)
  <2>1. /\ skipped \in Seq(Requests) /\ waiting \in Seq(Requests)
        /\ IsInjective(skipped) /\ IsInjective(waiting)
        /\ ToSet(skipped) \cap ToSet(waiting) = {}
    BY DEF TypeOK, Places
  <2>2. /\ Reverse(skipped) \in Seq(Requests) /\ IsInjective(Reverse(skipped))
        /\ ToSet(Reverse(skipped)) = ToSet(skipped)
    BY <2>1, ReverseFacts, InjectiveFacts
  <2> QED
    BY <1>1, <2>1, <2>2, ToSetFacts, InjectiveFacts
<1>3. /\ skipped' \in Seq(Requests) /\ ToSet(skipped') = {} /\ IsInjective(skipped')
  BY <1>1, ToSetFacts, InjectiveFacts
<1>4. TypeOK'
  BY <1>1, <1>2, <1>3 DEF TypeOK
<1>5. Places'
  BY <1>1, <1>2, <1>3 DEF Places
<1>6. Flying' = Flying
  BY <1>1 DEF Flying
<1>7. Flight'
  BY <1>1, <1>6 DEF Flight
<1>8. Counts'
  BY <1>1, <1>6 DEF Counts
<1>9. Phases'
  <2>1. reqIndex = 1 /\ \A r \in Requests : batch[r] > 0 => computed[r] = 0
    BY <1>1 DEF Phases
  <2>2. CASE pc' = "output"
    BY <1>1, <2>1, <2>2 DEF Phases
  <2>3. CASE pc' = "decode" /\ scheduledIds = {}
    <3>1. \A r \in Requests : ~(batch[r] > 0)
      BY <2>3 DEF Flight
    <3>2. \A r \in Requests : status[r] = "running" => r \notin Flying
      BY <2>3 DEF Flight
    <3>3. \A i \in 1..Len(running) : running[i] \in Requests /\ ~(i < 1)
      BY DEF TypeOK
    <3> QED
      BY <1>1, <1>6, <2>1, <2>3, <3>1, <3>2, <3>3 DEF Phases
  <2> QED
    BY <1>1, <2>2, <2>3
<1>10. BlocksSuffice'
  BY <1>1, BlocksFrame
<1> QED
  BY <1>4, <1>5, <1>7, <1>8, <1>9, <1>10

\* The request the decode loop is at runs, is in no batch, and has one token to compute.
LEMMA DecoderFacts ==
  ASSUME SchedulerInv, pc = "decode", MoreDecode
  PROVE  /\ reqIndex \in 1..Len(running)
         /\ \A i \in reqIndex..Len(running) :
               /\ i \in 1..Len(running)
               /\ running[i] \in Requests /\ status[running[i]] = "running"
               /\ batch[running[i]] = 0
               /\ running[i] \notin Flying /\ running[i] \notin scheduledIds
               /\ tokens[running[i]] = computed[running[i]] + 1
               /\ tokens[running[i]] < MaxModelLen
               /\ tokens[running[i]] \in Nat /\ computed[running[i]] \in Nat
               /\ computed[running[i]] > 0
<1> USE DEF SchedulerInv
<1>1. reqIndex \in Nat \ {0} /\ running \in Seq(Requests) /\ Len(running) \in Nat
  BY DEF TypeOK
<1>2. reqIndex \in 1..Len(running)
  BY <1>1 DEF MoreDecode
<1>3. ASSUME NEW i \in reqIndex..Len(running)
      PROVE  /\ i \in 1..Len(running)
             /\ running[i] \in Requests /\ status[running[i]] = "running"
             /\ batch[running[i]] = 0
             /\ running[i] \notin Flying /\ running[i] \notin scheduledIds
             /\ tokens[running[i]] = computed[running[i]] + 1
             /\ tokens[running[i]] < MaxModelLen
             /\ tokens[running[i]] \in Nat /\ computed[running[i]] \in Nat
             /\ computed[running[i]] > 0
  <2> DEFINE r == running[i]
  <2>1. i \in 1..Len(running) /\ ~(i < reqIndex) /\ r \in Requests
    BY <1>1
  <2>2. r \in ToSet(running)
    BY <1>1, <2>1, ToSetDef
  <2>3. ~(batch[r] > 0) /\ status[r] = "running" /\ r \notin Flying
    BY <2>1, <2>2 DEF Phases, Places
  <2> HIDE DEF r
  <2>4. batch[r] \in Nat /\ tokens[r] \in Nat /\ computed[r] \in Nat
    BY <2>1 DEF TypeOK
  <2>5. batch[r] = 0
    BY <2>3, <2>4
  <2>6. r \notin scheduledIds
    BY <2>1, <2>3 DEF Flight
  <2>7. tokens[r] = computed[r] + 1 /\ tokens[r] < MaxModelLen /\ computed[r] > 0
    BY <2>1, <2>3, <2>5 DEF Counts
  <2> QED
    BY <2>1, <2>3, <2>4, <2>5, <2>6, <2>7 DEF r
<1> QED
  BY <1>2, <1>3

\* A running request joins the batch with its last token.
LEMMA ScheduleDecodeInv ==
  ASSUME SchedulerInv, ScheduleDecode
  PROVE  SchedulerInv'
<1> USE DEF SchedulerInv
<1> DEFINE r == running[reqIndex]
<1>1. pc = "decode" /\ MoreDecode /\ budget \in Nat /\ budget > 0
  BY DEF ScheduleDecode, MoreDecode, TypeOK
<1>2. /\ reqIndex \in 1..Len(running) /\ r \in Requests /\ status[r] = "running"
      /\ batch[r] = 0 /\ r \notin Flying /\ r \notin scheduledIds
      /\ tokens[r] = computed[r] + 1 /\ tokens[r] < MaxModelLen
      /\ tokens[r] \in Nat /\ computed[r] \in Nat /\ computed[r] > 0
      /\ reqIndex \in Nat
  <2>1. reqIndex \in 1..Len(running)
    BY <1>1, DecoderFacts
  <2>2. Len(running) \in Nat
    BY DEF TypeOK
  <2>3. reqIndex \in reqIndex..Len(running) /\ reqIndex \in Nat
    BY <2>1, <2>2
  <2> QED
    BY <1>1, <2>1, <2>3, DecoderFacts
<1>3. Decoder = r
  BY DEF Decoder
<1> HIDE DEF r
<1>4. NumDecodeTokens(r) = 1
  <2> DEFINE T == {tokens[r] - computed[r], budget, MaxModelLen - computed[r]}
  <2>1. T \in SUBSET Nat /\ 1 \in T /\ \A y \in T : 1 <= y
    <3>1. tokens[r] - computed[r] = 1
      BY <1>2
    <3>2. MaxModelLen - computed[r] \in Nat /\ 1 <= MaxModelLen - computed[r]
      <4>1. MaxModelLen \in Nat
        BY Bounds
      <4>2. computed[r] \in Nat /\ computed[r] + 1 < MaxModelLen
        BY <1>2
      <4> QED
        BY <4>1, <4>2
    <3>3. budget \in Nat /\ 1 <= budget
      BY <1>1
    <3> QED
      BY <3>1, <3>2, <3>3
  <2> HIDE DEF T
  <2>2. Min(T) \in T /\ \A y \in T : Min(T) <= y
    BY <2>1, MinFacts
  <2>3. Min(T) = 1
    <3>1. Min(T) \in Nat /\ 1 <= Min(T) /\ Min(T) <= 1
      BY <2>1, <2>2
    <3> QED
      BY <3>1
  <2> QED
    BY <2>3 DEF NumDecodeTokens, T
<1>5. /\ NewBlocks(r, 1) <= FreeBlocks
      /\ blocks' = [blocks EXCEPT ![r] = blocks[r] + NewBlocks(r, 1)]
      /\ scheduledIds' = scheduledIds \cup {r}
      /\ batch' = [batch EXCEPT ![r] = 1]
      /\ budget' = budget - 1
      /\ reqIndex' = reqIndex + 1
      /\ UNCHANGED <<requests, status, tokens, computed, grammar, waiting, running,
                     forcedMode, inFlight, pc, skipped>>
  BY <1>3, <1>4 DEF ScheduleDecode, CanAllocate, SlotsLeft
<1>6. blocks' = [blocks EXCEPT ![r] = BlocksFor(computed[r] + 1)]
  <2>1. blocks[r] \in Nat
    BY <1>2 DEF TypeOK
  <2>2. BlocksFor(computed[r] + 1) \in Nat
    BY <1>2, Bounds
  <2>3. blocks[r] + NewBlocks(r, 1) = BlocksFor(computed[r] + 1)
    BY <2>1, <2>2 DEF NewBlocks
  <2> QED
    BY <1>5, <2>3
<1>7. blocks' \in [Requests -> Nat] /\ BlocksSuffice'
  BY <1>2, <1>5, <1>6, BlocksGrow
<1>8. /\ batch' \in [Requests -> Nat] /\ batch'[r] = 1
      /\ \A q \in Requests : q # r => batch'[q] = batch[q]
  BY <1>2, <1>5 DEF TypeOK
<1>9. \A q \in Requests : q # r => blocks'[q] = blocks[q]
  BY <1>5 DEF TypeOK
<1>10. TypeOK'
  <2>1. budget' \in Nat /\ reqIndex' \in Nat \ {0}
    BY <1>1, <1>2, <1>5
  <2> QED
    BY <1>2, <1>5, <1>7, <1>8, <2>1 DEF TypeOK
<1>11. Places'
  <2>1. \A q \in Requests : blocks'[q] > 0 => status'[q] = "running"
    BY <1>2, <1>5, <1>9 DEF Places
  <2> QED
    BY <1>5, <2>1 DEF Places
<1>12. Flying' = Flying
  BY <1>5 DEF Flying
<1>13. Flight'
  <2>1. \A q \in Requests : batch'[q] > 0 => status'[q] = "running" /\ q \notin Flying'
    BY <1>2, <1>5, <1>8, <1>12 DEF Flight
  <2>2. /\ \A q \in Requests : status'[q] = "running" =>
             (q \in scheduledIds' <=> q \in Flying' \/ batch'[q] > 0)
        /\ ~AbortByName => \A q \in scheduledIds' : status'[q] = "running"
    BY <1>2, <1>5, <1>8, <1>12 DEF Flight
  <2> QED
    BY <1>5, <1>12, <2>1, <2>2 DEF Flight
<1>14. Counts'
  BY <1>2, <1>5, <1>8, <1>12 DEF Counts, WaitingStatuses
<1>15. Phases'
  <2>1. \A q \in Requests : batch'[q] > 0 => computed'[q] > 0 /\ batch'[q] = 1
    BY <1>1, <1>2, <1>5, <1>8 DEF Phases
  <2>2. ASSUME NEW i \in 1..Len(running)
        PROVE  batch'[running[i]] > 0 <=> i < reqIndex + 1
    <3>1. running[i] \in Requests /\ i \in Int
      BY DEF TypeOK
    <3>2. CASE i = reqIndex
      BY <1>2, <1>8, <3>2 DEF r
    <3>3. CASE i # reqIndex
      <4>1. running[i] # r
        <5>1. running \in Seq(Requests) /\ IsInjective(running)
          BY DEF TypeOK, Places
        <5> QED
          BY <1>2, <3>3, <5>1, InjectiveDef DEF r
      <4>2. batch'[running[i]] = batch[running[i]]
        BY <1>8, <3>1, <4>1
      <4>3. batch[running[i]] > 0 <=> i < reqIndex
        BY <1>1 DEF Phases
      <4> QED
        BY <1>2, <3>1, <3>3, <4>2, <4>3
    <3> QED
      BY <3>2, <3>3
  <2> QED
    BY <1>1, <1>5, <1>12, <2>1, <2>2 DEF Phases
<1> QED
  BY <1>7, <1>10, <1>11, <1>13, <1>14, <1>15

\* The last of the running requests is preempted.  The loop has not reached it, so it is in
\* no batch, and what it has computed can be forgotten.
LEMMA PreemptInv ==
  ASSUME SchedulerInv, Preempt
  PROVE  SchedulerInv'
<1> USE DEF SchedulerInv
<1> DEFINE v == Victim
           n == Len(running)
<1>1. pc = "decode" /\ MoreDecode
  BY DEF Preempt
<1>2. running \in Seq(Requests) /\ n \in Nat /\ IsInjective(running)
  BY DEF TypeOK, Places
<1>3. reqIndex \in 1..n
  BY <1>1, DecoderFacts
<1>4. n \in reqIndex..n /\ n \in 1..n /\ running # <<>>
  BY <1>2, <1>3
<1>5. v = running[n]
  BY <1>2, <1>4, WithoutLast DEF Victim
<1>6. /\ v \in Requests /\ status[v] = "running" /\ batch[v] = 0
      /\ v \notin Flying /\ v \notin scheduledIds
      /\ tokens[v] = computed[v] + 1 /\ tokens[v] \in Nat /\ computed[v] \in Nat
  <2> HIDE DEF v, n
  <2> QED
    BY <1>1, <1>4, <1>5, DecoderFacts DEF n
<1>7. /\ running' \in Seq(Requests) /\ IsInjective(running')
      /\ ToSet(running') = ToSet(running) \ {v}
      /\ Len(running') = n - 1
      /\ \A i \in 1..n - 1 : running'[i] = running[i]
  <2>1. running' = Without(running, {v}) /\ v = Last(running)
    BY DEF Preempt, Victim
  <2> QED
    BY <1>2, <1>4, <2>1, WithoutFacts, WithoutLast
<1>8. /\ blocks' = [blocks EXCEPT ![v] = 0]
      /\ status' = [status EXCEPT ![v] = "preempted"]
      /\ computed' = [computed EXCEPT ![v] = 0]
      /\ waiting' = <<v>> \o waiting
      /\ pc' \in {"output", "decode"}
      /\ UNCHANGED <<requests, tokens, grammar, scheduledIds, forcedMode, inFlight,
                     skipped, budget, batch, reqIndex>>
  BY DEF Preempt, Freed
<1> HIDE DEF v
<1>9. skipped = <<>> /\ ToSet(skipped) = {}
  BY <1>1, ToSetFacts DEF Phases
<1>10. v \notin ToSet(waiting)
  BY <1>6 DEF Places, WaitingStatuses
<1>11. /\ waiting' \in Seq(Requests) /\ IsInjective(waiting')
       /\ ToSet(waiting') = {v} \cup ToSet(waiting)
  <2> DEFINE one == <<v>>
  <2>1. /\ one \in Seq(Requests) /\ ToSet(one) = {v} /\ IsInjective(one)
        /\ waiting' = one \o waiting
    BY <1>6, <1>8, ToSetFacts, InjectiveFacts
  <2>2. waiting \in Seq(Requests) /\ IsInjective(waiting)
    BY DEF TypeOK, Places
  <2> HIDE DEF one
  <2>3. ToSet(one) \cap ToSet(waiting) = {}
    BY <1>10, <2>1
  <2>4. one \o waiting \in Seq(Requests)
        /\ ToSet(one \o waiting) = ToSet(one) \cup ToSet(waiting)
    BY <2>1, <2>2, ToSetFacts
  <2>5. IsInjective(one \o waiting)
    BY <2>1, <2>2, <2>3, InjectiveFacts
  <2> QED
    BY <2>1, <2>4, <2>5
<1>12. /\ status' \in [Requests -> Statuses] /\ status'[v] = "preempted"
       /\ \A q \in Requests : q # v => status'[q] = status[q]
  BY <1>6, <1>8 DEF TypeOK, Statuses, WaitingStatuses
<1>13. /\ blocks' \in [Requests -> Nat] /\ blocks'[v] = 0
       /\ \A q \in Requests : q # v => blocks'[q] = blocks[q]
  BY <1>6, <1>8 DEF TypeOK
<1>14. /\ computed' \in [Requests -> Nat] /\ computed'[v] = 0
       /\ \A q \in Requests : q # v => computed'[q] = computed[q]
  BY <1>6, <1>8 DEF TypeOK
<1>15. TypeOK'
  BY <1>7, <1>8, <1>11, <1>12, <1>13, <1>14 DEF TypeOK
<1>16. Places'
  <2>1. requests' = {q \in Requests : status'[q] \notin {"new", "finished"}}
    BY <1>6, <1>8, <1>12 DEF Places
  <2>2. ToSet(running') = {q \in Requests : status'[q] = "running"}
    BY <1>6, <1>7, <1>12 DEF Places
  <2>3. ToSet(waiting') \cup ToSet(skipped')
           = {q \in Requests : status'[q] \in WaitingStatuses}
    BY <1>6, <1>8, <1>11, <1>12 DEF Places, WaitingStatuses
  <2>4. \A q \in Requests : blocks'[q] > 0 => status'[q] = "running"
    BY <1>12, <1>13 DEF Places
  <2>5. ToSet(waiting') \cap ToSet(skipped') = {} /\ IsInjective(skipped')
    BY <1>8, <1>9 DEF Places
  <2> QED
    BY <1>7, <1>11, <2>1, <2>2, <2>3, <2>4, <2>5 DEF Places
<1>17. Flying' = Flying
  BY <1>8 DEF Flying
<1>18. Flight'
  <2>1. \A q \in Flying' : status'[q] \in {"running", "finished"}
    BY <1>6, <1>12, <1>17 DEF Flight, Flying
  <2>2. \A q \in Requests : status'[q] = "running" =>
          \A i, j \in 1..Len(inFlight') :
              inFlight'[i][q] > 0 /\ inFlight'[j][q] > 0 => i = j
    BY <1>8, <1>12 DEF Flight
  <2>3. \A q \in Requests : batch'[q] > 0 => status'[q] = "running" /\ q \notin Flying'
    BY <1>6, <1>8, <1>12, <1>17 DEF Flight
  <2>4. /\ \A q \in Requests : status'[q] = "running" =>
             (q \in scheduledIds' <=> q \in Flying' \/ batch'[q] > 0)
        /\ ~AbortByName => \A q \in scheduledIds' : status'[q] = "running"
    BY <1>6, <1>8, <1>12, <1>17 DEF Flight
  <2> QED
    BY <2>1, <2>2, <2>3, <2>4 DEF Flight
<1>19. Counts'
  BY <1>6, <1>8, <1>12, <1>14, <1>17 DEF Counts, WaitingStatuses
<1>20. Phases'
  <2>1. \A q \in Requests : batch'[q] > 0 => computed'[q] > 0 /\ batch'[q] = 1
    BY <1>1, <1>6, <1>8, <1>14 DEF Phases
  <2>2. \A q \in Requests : status'[q] = "running" => q \notin Flying'
    BY <1>1, <1>12, <1>17 DEF Phases
  <2>3. \A i \in 1..Len(running') : batch'[running'[i]] > 0 <=> i < reqIndex'
    <3>1. ASSUME NEW i \in 1..n - 1 PROVE batch[running[i]] > 0 <=> i < reqIndex
      <4>1. i \in 1..n
        BY <1>2
      <4> QED
        BY <1>1, <4>1 DEF Phases
    <3> QED
      BY <1>7, <1>8, <3>1
  <2> QED
    BY <1>8, <1>9, <2>1, <2>2, <2>3 DEF Phases
<1>21. BlocksSuffice'
  <2>0. blocks \in [Requests -> Nat]
    BY DEF TypeOK
  <2>1. FreeBlocks' = NumBlocks - 1 - Cardinality(Held(blocks'))
    BY DEF FreeBlocks, HeldBlocks, Held
  <2>2. \A q \in Requests : blocks'[q] <= blocks[q]
    BY <1>13, <2>0
  <2>3. Cardinality(Held(blocks')) <= Cardinality(Held(blocks))
        /\ Cardinality(Held(blocks')) \in Nat
    BY <1>13, <2>0, <2>2, HeldLess, HeldFinite
  <2>4. FreeBlocks' >= 0
    BY <2>1, <2>3, FreeBlocksDef, Bounds DEF BlocksSuffice
  <2>5. ASSUME NEW q \in ToSet(running')
        PROVE  (BlocksFor(computed[q] + batch[q]))' <= blocks'[q]
    <3>1. q \in ToSet(running) /\ q # v /\ q \in Requests
      BY <1>7 DEF Places
    <3>2. computed'[q] = computed[q] /\ batch'[q] = batch[q] /\ blocks'[q] = blocks[q]
      BY <1>8, <1>13, <1>14, <3>1
    <3>3. BlocksFor(computed[q] + batch[q]) <= blocks[q]
      BY <3>1 DEF BlocksSuffice
    <3> QED
      BY <3>2, <3>3 DEF BlocksFor, cdiv
  <2> QED
    BY <2>4, <2>5 DEF BlocksSuffice
<1> QED
  BY <1>15, <1>16, <1>18, <1>19, <1>20, <1>21

\* The batch is handed out: its requests are in flight, and its tokens count as computed.
LEMMA OutputInv ==
  ASSUME SchedulerInv, Output
  PROVE  SchedulerInv'
<1> USE DEF SchedulerInv
<1>1. /\ pc = "output" /\ pc' = "idle"
      /\ inFlight' = Append(inFlight, batch)
      /\ computed' = [r \in Requests |-> computed[r] + batch[r]]
      /\ batch' = [r \in Requests |-> 0]
      /\ budget' = 0
      /\ reqIndex' = 1
      /\ UNCHANGED <<requests, status, tokens, blocks, grammar, waiting, running,
                     scheduledIds, forcedMode, skipped>>
  BY DEF Output, EmptyBatch
<1>2. batch \in [Requests -> Nat] /\ computed \in [Requests -> Nat]
      /\ inFlight \in Seq([Requests -> Nat]) /\ Len(inFlight) \in Nat
  BY DEF TypeOK
<1>3. /\ inFlight' \in Seq([Requests -> Nat]) /\ Len(inFlight') = Len(inFlight) + 1
      /\ \A i \in 1..Len(inFlight) : inFlight'[i] = inFlight[i]
      /\ inFlight'[Len(inFlight) + 1] = batch
  BY <1>1, <1>2, ToSetFacts
<1>4. \A q \in Requests : computed'[q] = computed[q] + batch[q] /\ batch'[q] = 0
                          /\ batch[q] \in Nat /\ computed[q] \in Nat
  BY <1>1, <1>2
<1>5. computed' \in [Requests -> Nat] /\ batch' \in [Requests -> Nat]
  BY <1>1, <1>2
<1>6. TypeOK'
  BY <1>1, <1>3, <1>5 DEF TypeOK
<1>7. Places'
  BY <1>1 DEF Places
<1>8. \A q \in Requests : q \in Flying' <=> q \in Flying \/ batch[q] > 0
  <2>1. ASSUME NEW q \in Requests, q \in Flying \/ batch[q] > 0 PROVE q \in Flying'
    <3>1. CASE q \in Flying
      <4>1. PICK i \in 1..Len(inFlight) : inFlight[i][q] > 0
        BY <3>1 DEF Flying
      <4>2. i \in 1..Len(inFlight') /\ inFlight'[i][q] > 0
        BY <1>2, <1>3, <4>1
      <4> QED
        BY <4>2 DEF Flying
    <3>2. CASE batch[q] > 0
      <4>1. Len(inFlight') \in 1..Len(inFlight') /\ inFlight'[Len(inFlight')][q] > 0
        BY <1>2, <1>3, <3>2
      <4> QED
        BY <4>1 DEF Flying
    <3> QED
      BY <2>1, <3>1, <3>2
  <2>2. ASSUME NEW q \in Requests, q \in Flying' PROVE q \in Flying \/ batch[q] > 0
    <3>1. PICK i \in 1..Len(inFlight') : inFlight'[i][q] > 0
      BY <2>2 DEF Flying
    <3>2. i \in 1..Len(inFlight) \/ i = Len(inFlight) + 1
      BY <1>2, <1>3
    <3> QED
      BY <1>3, <3>1, <3>2 DEF Flying
  <2> QED
    BY <2>1, <2>2
<1>9. Flight'
  <2>1. \A q \in Flying' : status'[q] \in {"running", "finished"}
    BY <1>1, <1>8 DEF Flight, Flying
  <2>2. ASSUME NEW q \in Requests, status'[q] = "running",
               NEW i \in 1..Len(inFlight'), NEW j \in 1..Len(inFlight'),
               inFlight'[i][q] > 0, inFlight'[j][q] > 0
        PROVE  i = j
    <3>1. status[q] = "running" /\ i \in Int /\ j \in Int
      BY <1>1, <1>2, <2>2
    <3>2. i \in 1..Len(inFlight) => inFlight[i][q] > 0 /\ q \in Flying
      BY <1>3, <2>2 DEF Flying
    <3>3. j \in 1..Len(inFlight) => inFlight[j][q] > 0 /\ q \in Flying
      BY <1>3, <2>2 DEF Flying
    <3>4. i \in 1..Len(inFlight) \/ i = Len(inFlight) + 1
      BY <1>2, <1>3
    <3>5. j \in 1..Len(inFlight) \/ j = Len(inFlight) + 1
      BY <1>2, <1>3
    <3>6. batch[q] > 0 => q \notin Flying
      BY DEF Flight
    <3>7. CASE i \in 1..Len(inFlight) /\ j \in 1..Len(inFlight)
      BY <3>1, <3>2, <3>3, <3>7 DEF Flight
    <3>8. CASE i = Len(inFlight) + 1
      BY <1>3, <2>2, <3>3, <3>5, <3>6, <3>8
    <3>9. CASE j = Len(inFlight) + 1
      BY <1>3, <2>2, <3>2, <3>4, <3>6, <3>9
    <3> QED
      BY <3>4, <3>5, <3>7, <3>8, <3>9
  <2>3. \A q \in Requests : batch'[q] > 0 => status'[q] = "running" /\ q \notin Flying'
    BY <1>4
  <2>4. /\ \A q \in Requests : status'[q] = "running" =>
             (q \in scheduledIds' <=> q \in Flying' \/ batch'[q] > 0)
        /\ ~AbortByName => \A q \in scheduledIds' : status'[q] = "running"
    <3>1. \A q \in Requests : ~(batch'[q] > 0)
      BY <1>4
    <3> QED
      BY <1>1, <1>8, <3>1 DEF Flight
  <2> QED
    BY <2>1, <2>2, <2>3, <2>4 DEF Flight
<1>10. Counts'
  <2> SUFFICES ASSUME NEW q \in Requests
               PROVE  /\ status'[q] \in {"new"} \cup WaitingStatuses => computed'[q] = 0
                      /\ status'[q] \in WaitingStatuses => tokens'[q] > 0
                      /\ status'[q] = "running" /\ batch'[q] > 0
                            => tokens'[q] = computed'[q] + batch'[q]
                      /\ status'[q] = "running" /\ batch'[q] = 0 => computed'[q] > 0
                      /\ status'[q] = "running" /\ q \in Flying' => tokens'[q] = computed'[q]
                      /\ status'[q] = "running" /\ q \notin Flying' /\ batch'[q] = 0 =>
                            tokens'[q] = computed'[q] + 1 /\ tokens'[q] < MaxModelLen
    BY DEF Counts
  <2>1. /\ computed'[q] = computed[q] + batch[q] /\ batch'[q] = 0
        /\ batch[q] \in Nat /\ computed[q] \in Nat /\ tokens[q] \in Nat
        /\ tokens'[q] = tokens[q] /\ status'[q] = status[q]
    BY <1>1, <1>4 DEF TypeOK
  <2>2. CASE batch[q] > 0
    BY <1>8, <2>1, <2>2 DEF Counts, Flight, WaitingStatuses
  <2>3. CASE batch[q] = 0
    BY <1>8, <2>1, <2>3 DEF Counts
  <2> QED
    BY <2>1, <2>2, <2>3
<1>11. Phases'
  BY <1>1, <1>4 DEF Phases
<1>12. BlocksSuffice'
  <2>1. ASSUME NEW q \in ToSet(running')
        PROVE  (BlocksFor(computed[q] + batch[q]))' <= blocks'[q]
    <3>1. q \in ToSet(running) /\ q \in Requests
      BY <1>1 DEF Places
    <3>2. computed'[q] + batch'[q] = computed[q] + batch[q]
      BY <1>4, <3>1
    <3>3. BlocksFor(computed[q] + batch[q]) <= blocks[q]
      BY <3>1 DEF BlocksSuffice
    <3> QED
      BY <1>1, <3>2, <3>3 DEF BlocksFor, cdiv
  <2>2. FreeBlocks' = FreeBlocks
    BY <1>1 DEF FreeBlocks, HeldBlocks
  <2> QED
    BY <2>1, <2>2 DEF BlocksSuffice
<1> QED
  BY <1>6, <1>7, <1>9, <1>10, <1>11, <1>12

\* Every step keeps the invariant.
LEMMA NextInv ==
  ASSUME SchedulerInv, [Next]_vars
  PROVE  SchedulerInv'
<1>1. ASSUME NEW r \in Requests, NEW n \in PromptLens, NEW g \in BOOLEAN, AddRequest(r, n, g)
      PROVE  SchedulerInv'
  BY <1>1, AddRequestInv
<1>2. ASSUME NEW r \in Requests, FinishRequest(r) PROVE SchedulerInv'
  BY <1>2, FinishRequestInv
<1>3. CASE Update
  BY <1>3, UpdateInv DEF Update
<1>4. CASE \/ \E r \in Requests : GrammarReady(r)
           \/ \E m \in Modes : SetForcedMode(m)
           \/ BeginSchedule
           \/ EndDecode
           \/ UNCHANGED vars
  BY <1>4, LittleInv
<1>5. CASE SkipCurRequest
  BY <1>5, SkipInv
<1>6. CASE IgnoreRequest
  BY <1>6, IgnoreInv
<1>7. CASE SchedulePrefill
  BY <1>7, SchedulePrefillInv
<1>8. CASE EndPrefill
  BY <1>8, EndPrefillInv
<1>9. CASE ScheduleDecode
  BY <1>9, ScheduleDecodeInv
<1>10. CASE Preempt
  BY <1>10, PreemptInv
<1>11. CASE Output
  BY <1>11, OutputInv
<1> QED
  BY <1>1, <1>2, <1>3, <1>4, <1>5, <1>6, <1>7, <1>8, <1>9, <1>10, <1>11 DEF Next, Schedule

\* The invariant holds for ever.
LEMMA AlwaysInv == Spec => []SchedulerInv
<1>1. SchedulerInv /\ [Next]_vars => SchedulerInv'
  BY NextInv
<1> QED
  BY <1>1, InitInv, PTL DEF Spec

\* The variables of the scheduler have their types: no counter of tokens, blocks or budget
\* becomes negative, and no queue holds anything that is not a request.
THEOREM TypeCorrect == Spec => []TypeOK
<1>1. SchedulerInv => TypeOK
  BY DEF SchedulerInv
<1> QED
  BY <1>1, AlwaysInv, PTL

\* schedule(), finish_requests() and update_from_output() keep every request in the one queue
\* that its status names, and scheduled_req_ids exactly the requests in flight, when
\* finish_requests is called with a collection.
THEOREM QueuesAlwaysMatch ==
  ASSUME ~AbortByName
  PROVE  Spec => []QueuesMatchStatus
<1>1. SchedulerInv => QueuesMatchStatus
  <2> SUFFICES ASSUME SchedulerInv PROVE QueuesMatchStatus
    OBVIOUS
  <2> USE DEF SchedulerInv
  <2>1. /\ waiting \in Seq(Requests) /\ running \in Seq(Requests) /\ skipped \in Seq(Requests)
        /\ inFlight \in Seq([Requests -> Nat])
    BY DEF TypeOK
  <2>2. /\ waiting \o running \in Seq(Requests) /\ waiting \o skipped \in Seq(Requests)
        /\ ToSet(waiting \o running) = ToSet(waiting) \cup ToSet(running)
        /\ ToSet(waiting \o skipped) = ToSet(waiting) \cup ToSet(skipped)
    BY <2>1, ToSetFacts
  <2>3. ToSet(running) \cap (ToSet(waiting) \cup ToSet(skipped)) = {}
    BY DEF Places, WaitingStatuses
  <2>4. IsInjective(waiting \o running)
    BY <2>1, <2>3, InjectiveFacts DEF Places
  <2>5. IsInjective((waiting \o running) \o skipped)
    <3>1. ToSet(waiting \o running) \cap ToSet(skipped) = {}
      BY <2>2, <2>3 DEF Places
    <3> QED
      BY <2>1, <2>2, <2>4, <3>1, InjectiveFacts DEF Places
  <2>6. \A r \in Requests :
          /\ r \in ToSet(running) <=> status[r] = "running"
          /\ r \in ToSet(waiting \o skipped)
                <=> status[r] \in {"waiting", "waitingForFsm", "preempted"}
          /\ blocks[r] > 0 => status[r] = "running"
    BY <2>2 DEF Places, WaitingStatuses
  <2>7. ASSUME pc = "idle"
        PROVE  /\ scheduledIds = {r \in ToSet(running) :
                                \E i \in 1..Len(inFlight) : inFlight[i][r] > 0}
               /\ \A r \in scheduledIds : \A i, j \in 1..Len(inFlight) :
                     inFlight[i][r] > 0 /\ inFlight[j][r] > 0 => i = j
    <3>1. \A r \in Requests : ~(batch[r] > 0)
      BY <2>7 DEF Phases
    <3>2. scheduledIds = {r \in Requests : status[r] = "running" /\ r \in Flying}
      BY <3>1 DEF Flight, TypeOK
    <3>3. scheduledIds = {r \in ToSet(running) :
                                \E i \in 1..Len(inFlight) : inFlight[i][r] > 0}
      BY <3>2 DEF Places, Flying
    <3>4. \A r \in scheduledIds : r \in Requests /\ status[r] = "running"
      BY <3>2
    <3> QED
      BY <3>3, <3>4 DEF Flight
  <2> QED
    BY <2>5, <2>6, <2>7 DEF QueuesMatchStatus
<1> QED
  BY <1>1, AlwaysInv, PTL

\* The blocks are never handed out twice: prefills by the watermark, decodes by preemption,
\* the running requests always have the blocks that their tokens need.
THEOREM BlocksAlwaysSuffice == Spec => []BlocksSuffice
<1>1. SchedulerInv => BlocksSuffice
  BY DEF SchedulerInv
<1> QED
  BY <1>1, AlwaysInv, PTL

\* Batches are never mixed, a request that was put into the batch is never preempted in the
\* same schedule(), and the decode loop's assertion that one token is to be computed holds.
THEOREM BatchesAlwaysConsistent == Spec => []BatchConsistent
<1>1. SchedulerInv => BatchConsistent
  <2> SUFFICES ASSUME SchedulerInv PROVE BatchConsistent
    OBVIOUS
  <2> USE DEF SchedulerInv
  <2>1. \A r \in Requests : batch[r] > 0 => status[r] = "running"
    BY DEF Flight
  <2>2. pc \in {"decode", "output"} =>
          \/ \A r \in Requests : batch[r] > 0 => computed[r] = 0
          \/ \A r \in Requests : batch[r] > 0 => computed[r] > 0 /\ batch[r] = 1
    BY DEF Phases
  <2>3. ASSUME pc = "decode", NEW i \in reqIndex..Len(running)
        PROVE  tokens[running[i]] = computed[running[i]] + 1
    <3> DEFINE r == running[i]
    <3>1. running \in Seq(Requests) /\ reqIndex \in Nat \ {0}
      BY DEF TypeOK
    <3>2. i \in 1..Len(running) /\ ~(i < reqIndex) /\ r \in Requests
      BY <3>1
    <3>3. r \in ToSet(running)
      BY <3>1, <3>2, ToSetDef
    <3>4. ~(batch[r] > 0) /\ status[r] = "running" /\ r \notin Flying
      BY <2>3, <3>2, <3>3 DEF Phases, Places
    <3> HIDE DEF r
    <3>5. batch[r] = 0
      BY <3>2, <3>4 DEF TypeOK
    <3>6. tokens[r] = computed[r] + 1
      BY <3>2, <3>4, <3>5 DEF Counts
    <3> QED
      BY <3>6 DEF r
  <2> QED
    BY <2>1, <2>2, <2>3 DEF BatchConsistent
<1> QED
  BY <1>1, AlwaysInv, PTL

-----------------------------------------------------------------------------
(* The order of the queue                                                   *)

\* When one element comes before another in a list that is put together from two.
LEMMA OrderConcat ==
  ASSUME NEW S, NEW s \in Seq(S), NEW t \in Seq(S), NEW a, NEW b
  PROVE  Order(s \o t, a, b) <=> \/ Order(s, a, b)
                                 \/ Order(t, a, b)
                                 \/ a \in ToSet(s) /\ b \in ToSet(t)
<1> DEFINE u == s \o t
           m == Len(s)
           n == Len(t)
<1>1. /\ u \in Seq(S) /\ Len(u) = m + n /\ m \in Nat /\ n \in Nat
      /\ \A i \in 1..m : u[i] = s[i]
      /\ \A i \in 1..n : u[m + i] = t[i]
  BY ToSetFacts
<1>2. \A x : x \in ToSet(s) <=> \E i \in 1..m : s[i] = x
  BY ToSetDef
<1>3. \A x : x \in ToSet(t) <=> \E i \in 1..n : t[i] = x
  BY ToSetDef
<1> HIDE DEF u
<1>4. ASSUME NEW i \in 1..m + n PROVE i \in 1..m \/ (i - m \in 1..n /\ u[i] = t[i - m])
  <2>1. CASE i \in 1..m
    BY <2>1
  <2>2. CASE i \notin 1..m
    <3>1. i - m \in 1..n /\ m + (i - m) = i
      BY <1>1, <2>2
    <3> QED
      BY <1>1, <3>1
  <2> QED
    BY <2>1, <2>2
<1>5. ASSUME NEW i \in 1..m + n, NEW j \in 1..m + n, i < j, u[i] = a, u[j] = b
      PROVE  \/ Order(s, a, b)
             \/ Order(t, a, b)
             \/ a \in ToSet(s) /\ b \in ToSet(t)
  <2>1. CASE i \in 1..m /\ j \in 1..m
    <3>1. s[i] = a /\ s[j] = b
      BY <1>1, <1>5, <2>1
    <3> QED
      BY <1>5, <2>1, <3>1 DEF Order
  <2>2. CASE i \in 1..m /\ j - m \in 1..n /\ u[j] = t[j - m]
    BY <1>1, <1>2, <1>3, <1>5, <2>2
  <2>3. CASE i \notin 1..m /\ i - m \in 1..n /\ u[i] = t[i - m]
    <3>1. j \notin 1..m
      BY <1>1, <1>5, <2>3
    <3>2. j - m \in 1..n /\ u[j] = t[j - m]
      BY <1>4, <3>1
    <3>3. i - m < j - m
      BY <1>1, <1>5
    <3> QED
      BY <1>5, <2>3, <3>2, <3>3 DEF Order
  <2> QED
    BY <1>4, <2>1, <2>2, <2>3
<1>6. ASSUME Order(s, a, b) PROVE Order(u, a, b)
  <2>1. PICK i \in 1..m, j \in 1..m : i < j /\ s[i] = a /\ s[j] = b
    BY <1>6 DEF Order
  <2>2. i \in 1..Len(u) /\ j \in 1..Len(u) /\ u[i] = a /\ u[j] = b
    BY <1>1, <2>1
  <2> QED
    BY <2>1, <2>2 DEF Order
<1>7. ASSUME Order(t, a, b) PROVE Order(u, a, b)
  <2>1. PICK i \in 1..n, j \in 1..n : i < j /\ t[i] = a /\ t[j] = b
    BY <1>7 DEF Order
  <2>2. m + i \in 1..Len(u) /\ m + j \in 1..Len(u) /\ m + i < m + j
    BY <1>1, <2>1
  <2>3. u[m + i] = a /\ u[m + j] = b
    BY <1>1, <2>1
  <2> QED
    BY <2>2, <2>3 DEF Order
<1>8. ASSUME a \in ToSet(s), b \in ToSet(t) PROVE Order(u, a, b)
  <2>1. PICK i \in 1..m : s[i] = a
    BY <1>2, <1>8
  <2>2. PICK j \in 1..n : t[j] = b
    BY <1>3, <1>8
  <2>3. i \in 1..Len(u) /\ m + j \in 1..Len(u) /\ i < m + j
    BY <1>1
  <2>4. u[i] = a /\ u[m + j] = b
    BY <1>1, <2>1, <2>2
  <2> QED
    BY <2>3, <2>4 DEF Order
<1>9. Order(u, a, b) => \E i, j \in 1..m + n : i < j /\ u[i] = a /\ u[j] = b
  BY <1>1 DEF Order
<1>10. Order(u, a, b) <=> \/ Order(s, a, b)
                          \/ Order(t, a, b)
                          \/ a \in ToSet(s) /\ b \in ToSet(t)
  BY <1>5, <1>6, <1>7, <1>8, <1>9
<1> QED
  BY <1>10 DEF u

\* Reversing a list reverses the order.
LEMMA OrderReverse ==
  ASSUME NEW S, NEW s \in Seq(S), NEW a, NEW b
  PROVE  Order(Reverse(s), a, b) <=> Order(s, b, a)
<1> DEFINE n == Len(s)
           u == Reverse(s)
<1>1. Len(u) = n /\ n \in Nat /\ \A i \in 1..n : u[i] = s[n - i + 1]
  BY ReverseFacts
<1> HIDE DEF u
<1>2. ASSUME Order(u, a, b) PROVE Order(s, b, a)
  <2>1. PICK i \in 1..n, j \in 1..n : i < j /\ u[i] = a /\ u[j] = b
    BY <1>1, <1>2 DEF Order
  <2>2. n - i + 1 \in 1..n /\ n - j + 1 \in 1..n /\ n - j + 1 < n - i + 1
    BY <1>1, <2>1
  <2>3. s[n - i + 1] = a /\ s[n - j + 1] = b
    BY <1>1, <2>1
  <2> QED
    BY <2>2, <2>3 DEF Order
<1>3. ASSUME Order(s, b, a) PROVE Order(u, a, b)
  <2>1. PICK i \in 1..n, j \in 1..n : i < j /\ s[i] = b /\ s[j] = a
    BY <1>3 DEF Order
  <2>2. /\ n - i + 1 \in 1..n /\ n - j + 1 \in 1..n /\ n - j + 1 < n - i + 1
        /\ n - (n - i + 1) + 1 = i /\ n - (n - j + 1) + 1 = j
    BY <1>1, <2>1
  <2>3. u[n - i + 1] = b /\ u[n - j + 1] = a
    BY <1>1, <2>1, <2>2
  <2> QED
    BY <1>1, <2>2, <2>3 DEF Order
<1> QED
  BY <1>2, <1>3 DEF u

\* Removing other elements keeps the order of two elements.
LEMMA OrderWithout ==
  ASSUME NEW S, NEW s \in Seq(S), NEW rs, NEW a, NEW b, a \notin rs, b \notin rs,
         Order(s, a, b)
  PROVE  Order(Without(s, rs), a, b)
<1> DEFINE w == Without(s, rs)
<1>1. PICK f \in [1..Len(w) -> 1..Len(s)] :
              /\ \A k \in 1..Len(w) : w[k] = s[f[k]] /\ s[f[k]] \notin rs
              /\ \A k, l \in 1..Len(w) : k < l => f[k] < f[l]
              /\ \A i \in 1..Len(s) : s[i] \notin rs => \E k \in 1..Len(w) : f[k] = i
  BY WithoutPositions, SMTT(40)
<1>2. w \in Seq(S)
  BY WithoutPositions
<1> HIDE DEF w
<1>3. PICK i \in 1..Len(s), j \in 1..Len(s) : i < j /\ s[i] = a /\ s[j] = b
  BY DEF Order
<1>4. PICK k \in 1..Len(w) : f[k] = i
  BY <1>1, <1>3
<1>5. PICK l \in 1..Len(w) : f[l] = j
  BY <1>1, <1>3
<1>6. w[k] = a /\ w[l] = b
  BY <1>1, <1>3, <1>4, <1>5
<1>7. k < l
  <2>1. k \in Int /\ l \in Int /\ i \in Int /\ j \in Int
    BY <1>2
  <2>2. ~(l < k) /\ k # l
    BY <1>1, <1>3, <1>4, <1>5, <2>1
  <2> QED
    BY <2>1, <2>2
<1> QED
  BY <1>6, <1>7 DEF Order, w

\* Who comes first among those who wait: the skipped requests are in reverse order, and
\* before the others.
LEMMA OrderQueue ==
  ASSUME NEW s \in Seq(Requests), NEW w \in Seq(Requests), NEW a, NEW b
  PROVE  Order(Reverse(s) \o w, a, b) <=> \/ Order(s, b, a)
                                          \/ Order(w, a, b)
                                          \/ a \in ToSet(s) /\ b \in ToSet(w)
<1>1. Reverse(s) \in Seq(Requests) /\ ToSet(Reverse(s)) = ToSet(s)
  BY ReverseFacts
<1>2. Order(Reverse(s), a, b) <=> Order(s, b, a)
  BY OrderReverse
<1> HIDE DEF Order
<1>3. Order(Reverse(s) \o w, a, b) <=> \/ Order(Reverse(s), a, b)
                                       \/ Order(w, a, b)
                                       \/ a \in ToSet(Reverse(s)) /\ b \in ToSet(w)
  BY <1>1, OrderConcat
<1> QED
  BY <1>1, <1>2, <1>3

\* The same for a list with one more element at its front, or at its end.
LEMMA OrderOne ==
  ASSUME NEW s \in Seq(Requests), NEW c \in Requests, NEW a, NEW b
  PROVE  /\ Order(<<c>> \o s, a, b) <=> Order(s, a, b) \/ (a = c /\ b \in ToSet(s))
         /\ Order(s, a, b) => Order(Append(s, c), a, b)
         /\ ~Order(<<>>, a, b)
         /\ ToSet(<<c>> \o s) = {c} \cup ToSet(s)
<1> DEFINE one == <<c>>
<1>1. one \in Seq(Requests) /\ ToSet(one) = {c} /\ Append(s, c) = s \o one
  BY ToSetFacts, AppendIsConcat
<1>2. ~Order(one, a, b) /\ ~Order(<<>>, a, b)
  BY DEF Order
<1> HIDE DEF one
<1>3. Order(one \o s, a, b) <=> \/ Order(one, a, b)
                                \/ Order(s, a, b)
                                \/ a \in ToSet(one) /\ b \in ToSet(s)
  BY <1>1, OrderConcat
<1>4. Order(s, a, b) => Order(s \o one, a, b)
  BY <1>1, OrderConcat
<1>5. ToSet(one \o s) = ToSet(one) \cup ToSet(s)
  BY <1>1, ToSetFacts
<1> QED
  BY <1>1, <1>2, <1>3, <1>4, <1>5 DEF one

\* schedule() never changes the order of the requests that wait: not when it skips some of
\* them and puts them back with extendleft, nor when it preempts, and nor does a request that
\* is added or given up.
THEOREM OrderAlwaysKept == Spec => QueueOrderKept
<1> DEFINE Kept == \A a, b \in Requests :
                      (/\ Order(Reverse(skipped) \o waiting, a, b)
                       /\ {a, b} \subseteq ToSet(waiting' \o skipped'))
                           => Order(Reverse(skipped') \o waiting', a, b)
<1>1. ASSUME SchedulerInv, SchedulerInv', [Next]_vars PROVE [Kept]_vars
  <2>0. /\ waiting \in Seq(Requests) /\ skipped \in Seq(Requests)
        /\ waiting' \in Seq(Requests) /\ skipped' \in Seq(Requests)
    BY <1>1 DEF SchedulerInv, TypeOK
  <2>1. SUFFICES ASSUME NEW a \in Requests, NEW b \in Requests, Next,
                        Order(Reverse(skipped) \o waiting, a, b),
                        {a, b} \subseteq ToSet(waiting' \o skipped')
                 PROVE  Order(Reverse(skipped') \o waiting', a, b)
    BY <1>1
  <2>2. \/ Order(skipped, b, a)
        \/ Order(waiting, a, b)
        \/ a \in ToSet(skipped) /\ b \in ToSet(waiting)
    BY <2>0, <2>1, OrderQueue
  <2>3. {a, b} \subseteq ToSet(waiting') \cup ToSet(skipped')
    BY <2>0, <2>1, ToSetFacts
  <2>4. SUFFICES \/ Order(skipped', b, a)
                 \/ Order(waiting', a, b)
                 \/ a \in ToSet(skipped') /\ b \in ToSet(waiting')
    BY <2>0, OrderQueue
  <2>5. CASE UNCHANGED <<waiting, skipped>>
    BY <2>2, <2>5
  <2>6. ASSUME NEW r \in Requests, NEW n \in PromptLens, NEW g \in BOOLEAN,
               AddRequest(r, n, g)
        PROVE  \/ Order(skipped', b, a)
               \/ Order(waiting', a, b)
               \/ a \in ToSet(skipped') /\ b \in ToSet(waiting')
    <3>1. waiting' = Append(waiting, r) /\ skipped' = skipped
      BY <2>6 DEF AddRequest, localVars
    <3>2. ToSet(waiting') = ToSet(waiting) \cup {r}
      BY <2>0, <3>1, ToSetFacts
    <3>3. Order(waiting, a, b) => Order(waiting', a, b)
      BY <2>0, <3>1, OrderOne
    <3> QED
      BY <2>2, <3>1, <3>2, <3>3
  <2>7. ASSUME NEW r \in Requests, FinishRequest(r)
        PROVE  Order(waiting', a, b)
    <3>1. waiting' = Without(waiting, {r}) /\ skipped' = skipped /\ pc = "idle"
      BY <2>7 DEF FinishRequest, localVars
    <3>2. skipped = <<>> /\ ToSet(<<>>) = {}
      BY <1>1, <3>1, ToSetFacts DEF SchedulerInv, Phases
    <3>3. a \notin {r} /\ b \notin {r}
      BY <2>0, <2>3, <3>1, <3>2, WithoutFacts
    <3>4. Order(waiting, a, b)
      BY <2>0, <2>2, <3>2, OrderOne
    <3> QED
      BY <2>0, <3>1, <3>3, <3>4, OrderWithout
  <2>8. CASE SkipCurRequest
    <3> DEFINE c == Candidate
    <3>1. /\ pc = "prefill" /\ waiting # <<>>
          /\ skipped' = <<c>> \o skipped /\ waiting' = Tail(waiting)
      BY <2>8 DEF SkipCurRequest, MorePrefill
    <3>2. c \in Requests /\ waiting = <<c>> \o waiting'
      <4>1. c \in Requests
        BY <1>1, <3>1, CandidateFacts
      <4>2. waiting = <<Head(waiting)>> \o Tail(waiting)
        BY <2>0, <3>1
      <4> QED
        BY <3>1, <4>1, <4>2 DEF Candidate
    <3> HIDE DEF c
    <3>3. Order(waiting, a, b) <=> Order(waiting', a, b) \/ (a = c /\ b \in ToSet(waiting'))
      BY <2>0, <3>2, OrderOne
    <3>4. Order(skipped', b, a) <=> Order(skipped, b, a) \/ (b = c /\ a \in ToSet(skipped))
      BY <2>0, <3>1, <3>2, OrderOne
    <3>6. ToSet(skipped') = {c} \cup ToSet(skipped)
      BY <2>0, <3>1, <3>2, OrderOne
    <3>7. ToSet(waiting) = {c} \cup ToSet(waiting')
      BY <2>0, <3>2, OrderOne
    <3> QED
      BY <2>2, <3>3, <3>4, <3>6, <3>7
  <2>9. CASE IgnoreRequest \/ SchedulePrefill
    <3> DEFINE c == Candidate
    <3>1. /\ pc = "prefill" /\ waiting # <<>>
          /\ skipped' = skipped /\ waiting' = Tail(waiting)
      BY <2>9 DEF IgnoreRequest, SchedulePrefill, MorePrefill
    <3>2. /\ c \in Requests /\ waiting = <<c>> \o waiting'
          /\ c \notin ToSet(waiting') /\ c \notin ToSet(skipped')
      <4>1. c \in Requests /\ ToSet(Tail(waiting)) = ToSet(waiting) \ {c}
            /\ c \notin ToSet(skipped)
        BY <1>1, <3>1, CandidateFacts
      <4>2. waiting = <<Head(waiting)>> \o Tail(waiting)
        BY <2>0, <3>1
      <4> QED
        BY <3>1, <4>1, <4>2 DEF Candidate
    <3> HIDE DEF c
    <3>3. Order(waiting, a, b) <=> Order(waiting', a, b) \/ (a = c /\ b \in ToSet(waiting'))
      BY <2>0, <3>2, OrderOne
    <3>7. ToSet(waiting) = {c} \cup ToSet(waiting')
      BY <2>0, <3>2, OrderOne
    <3> QED
      BY <2>2, <2>3, <3>1, <3>2, <3>3, <3>7
  <2>10. CASE EndPrefill
    <3>1. waiting' = Reverse(skipped) \o waiting
      BY <2>10 DEF EndPrefill
    <3> QED
      BY <2>1, <3>1
  <2>11. CASE Preempt
    <3>1. waiting' = <<Victim>> \o waiting /\ pc = "decode" /\ MoreDecode
      BY <2>11 DEF Preempt
    <3>2. skipped = <<>> /\ ToSet(<<>>) = {}
      BY <1>1, <3>1, ToSetFacts DEF SchedulerInv, Phases
    <3>3. Order(waiting, a, b)
      BY <2>0, <2>2, <3>2, OrderOne
    <3>4. Victim \in Requests
      <4>1. running \in Seq(Requests) /\ reqIndex \in 1..Len(running)
        BY <1>1, <3>1, DecoderFacts DEF SchedulerInv, TypeOK
      <4> QED
        BY <4>1 DEF Victim, Last
    <3> QED
      BY <2>0, <3>1, <3>3, <3>4, OrderOne
  <2>12. ASSUME \/ \E r \in Requests : GrammarReady(r)
                \/ \E m \in Modes : SetForcedMode(m)
                \/ Update
                \/ BeginSchedule
                \/ ScheduleDecode
                \/ EndDecode
                \/ Output
         PROVE  UNCHANGED <<waiting, skipped>>
    BY <2>12 DEF GrammarReady, SetForcedMode, Update, UpdateFromOutput, BeginSchedule,
                 ScheduleDecode, EndDecode, Output, queueVars, localVars
  <2> QED
    BY <2>1, <2>5, <2>6, <2>7, <2>8, <2>9, <2>10, <2>11, <2>12 DEF Next, Schedule
<1>2. Spec => [][Kept]_vars
  <2> HIDE DEF Kept
  <2> QED
    BY <1>1, AlwaysInv, PTL DEF Spec
<1> QED
  BY <1>2 DEF QueueOrderKept

=============================================================================
