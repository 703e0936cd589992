---------------------------- MODULE WorkerProofs ----------------------------
(***************************************************************************)
(* Proofs about Worker, for every set of configurations: what serving      *)
(* calls was compiled while warming up, and a worker that serves fails on  *)
(* no batch.                                                               *)
(***************************************************************************)
EXTENDS Worker, LibraryFacts, TLAPS

\* A configuration as the platform leaves it.
ConfigOK(c) ==
    /\ c \in ConfigType
    /\ {c.len, c.seqs, c.tokens, c.batch, c.devices} \subseteq Nat \ {0}
    /\ {c.len, c.tokens, c.minContext} \subseteq 0..2 ^ MaxExponent

\* What the warm-up compiles.
Warm(c) == IF c.pooling THEN CapturePooling(c) ELSE CaptureGenerative(c)

Early == {"start", "configured", "device", "loaded", "profiled", "cached"}

\* The constructor's assertion held, the profiling run found a row for every request, and what
\* the warm-up compiled was counted.
WorkerInv ==
    /\ ConfigOK(config)
    /\ phase \in Early \cup {"serving", "failed"}
    /\ pending \in SUBSET Batches(config)
    /\ phase \in Early => pending = {}
    /\ config.pooling => pending = {}
    /\ phase \notin {"start", "configured", "failed"} /\ config.pooling =>
          PoolingConstructible(config)
    /\ phase \in {"profiled", "cached", "serving"} /\ ~config.pooling =>
          \A v \in Variants(config) : Users(config, v) = config.seqs
    /\ phase = "serving" /\ ~config.eager => Warm(config) \subseteq counted
    /\ ServedFromWarmUp

-----------------------------------------------------------------------------
(* Paddings                                                                 *)

\* Finitely many integers have an upper bound.
LEMMA ImageBounded ==
  ASSUME NEW n \in Nat, NEW f, \A k \in 0..n : f[k] \in Int
  PROVE  \E b \in Int : \A k \in 0..n : f[k] <= b
<1> DEFINE Bounded(m) == \E b \in Int : \A k \in 0..m : f[k] <= b
           T == {m \in 0..n : ~Bounded(m)}
<1>1. SUFFICES ASSUME T # {} PROVE FALSE
  OBVIOUS
<1>2. PICK m \in T : \A y \in T : m <= y
  <2> HIDE DEF Bounded
  <2>1. T \in SUBSET Nat
    OBVIOUS
  <2> QED
    BY <1>1, <2>1, LeastNat
<1>3. m \in 0..n /\ ~Bounded(m)
  OBVIOUS
<1>4. CASE m = 0
  <2>1. \A k \in 0..m : f[k] <= f[0]
    BY <1>4
  <2> QED
    BY <1>3, <1>4, <2>1
<1>5. CASE m # 0
  <2>1. m - 1 \in 0..n /\ m - 1 \notin T
    <3>1. m - 1 \in 0..n
      BY <1>3, <1>5
    <3>2. ~(m <= m - 1)
      BY <1>3
    <3> HIDE DEF T
    <3> QED
      BY <1>2, <3>1, <3>2
  <2>2. Bounded(m - 1)
    BY <2>1
  <2>3. PICK b \in Int : \A k \in 0..(m - 1) : f[k] <= b
    BY <2>2
  <2>4. \A k \in 0..m : k \in 0..(m - 1) \/ k = m
    BY <1>3
  <2>5. CASE f[m] <= b
    BY <1>3, <2>3, <2>4, <2>5
  <2>6. CASE ~(f[m] <= b)
    <3>1. f[m] \in Int /\ \A k \in 0..m : k \in 0..n
      BY <1>3
    <3>2. ASSUME NEW k \in 0..m PROVE f[k] <= f[m]
      <4>1. f[k] \in Int
        BY <3>1
      <4>2. CASE k = m
        BY <3>1, <4>2
      <4>3. CASE k \in 0..(m - 1)
        <5>1. f[k] <= b
          BY <2>3, <4>3
        <5> QED
          BY <2>6, <3>1, <4>1, <5>1
      <4> QED
        BY <2>4, <4>2, <4>3
    <3> QED
      BY <1>3, <3>1, <3>2
  <2> QED
    BY <2>5, <2>6
<1> QED
  BY <1>4, <1>5

\* NextPowerOf2 is at least its argument.
LEMMA NextPowerFacts ==
  ASSUME NEW n \in 0..2 ^ MaxExponent
  PROVE  NextPowerOf2(n) \in Int /\ NextPowerOf2(n) >= n
<1> DEFINE T == {p \in {2 ^ k : k \in Exponents} : p >= n}
<1>1. \A k \in Exponents : 2 ^ k \in Int
  BY WorkerAssumption DEF Exponents
<1>2. T \in SUBSET Nat
  BY <1>1
<1>3. MaxExponent \in Exponents
  BY WorkerAssumption DEF Exponents
<1>4. T # {}
  BY <1>1, <1>3
<1>5. Min(T) \in T
  BY <1>2, <1>4, MinFacts
<1>6. Min(T) \in Int /\ Min(T) >= n
  BY <1>2, <1>5
<1> QED
  BY <1>6 DEF NextPowerOf2

\* The smallest padding is at least 32.
LEMMA AdjustFacts ==
  ASSUME NEW n \in 0..2 ^ MaxExponent
  PROVE  AdjustMinToken(n) \in Int /\ AdjustMinToken(n) >= 32
<1> DEFINE p == NextPowerOf2(n)
           T == {32, p}
<1>1. p \in Int
  BY NextPowerFacts
<1> HIDE DEF p
<1>2. PICK b \in Int : \A x \in T : x <= b
  BY <1>1
<1>3. T \in SUBSET Int /\ T # {}
  BY <1>1
<1>4. Max(T) \in T /\ \A y \in T : y <= Max(T)
  BY <1>2, <1>3, MaxFacts
<1>5. AdjustMinToken(n) = Max(T)
  BY DEF AdjustMinToken, p
<1> QED
  BY <1>3, <1>4, <1>5

\* The doubled paddings: they are bounded, and one covers the longest input.
LEMMA ExponentialFacts ==
  ASSUME NEW min \in 0..2 ^ MaxExponent, NEW max \in 0..2 ^ MaxExponent
  PROVE  /\ Exponential(min, max) \in SUBSET Int
         /\ \E b \in Int : \A x \in Exponential(min, max) : x <= b
         /\ \E x \in Exponential(min, max) : x >= max
<1> DEFINE a == AdjustMinToken(min)
           f == [k \in Exponents |-> a * 2 ^ k]
<1>1. a \in Int /\ a >= 32
  BY AdjustFacts
<1> HIDE DEF a
<1>2. \A k \in Exponents : 2 ^ k \in Int /\ k \in Nat
  BY WorkerAssumption DEF Exponents
<1>3. \A k \in Exponents : f[k] \in Int /\ f[k] = a * 2 ^ k
  BY <1>1, <1>2
<1>4. Exponential(min, max) = {f[k] : k \in {j \in Exponents : j = 0 \/ a * 2 ^ (j - 1) < max}}
  BY <1>3 DEF Exponential, a
<1> HIDE DEF f
<1>5. Exponential(min, max) \in SUBSET Int
  BY <1>3, <1>4
<1>6. \E b \in Int : \A k \in Exponents : f[k] <= b
  <2>1. MaxExponent \in Nat /\ \A k \in 0..MaxExponent : f[k] \in Int
    BY <1>3, WorkerAssumption DEF Exponents
  <2>2. \E b \in Int : \A k \in 0..MaxExponent : f[k] <= b
    BY <2>1, ImageBounded
  <2> QED
    BY <2>2 DEF Exponents
<1>7. \E b \in Int : \A x \in Exponential(min, max) : x <= b
  BY <1>4, <1>6
<1> DEFINE Covers == {k \in Exponents : f[k] >= max}
<1>8. MaxExponent \in Covers
  <2>1. MaxExponent \in Exponents
    BY WorkerAssumption DEF Exponents
  <2> DEFINE e == 2 ^ MaxExponent
  <2>2. e \in Int /\ max \in Int /\ e >= max /\ max >= 0
    BY <1>2, <2>1
  <2> HIDE DEF e
  <2>3. a * e >= e
    BY <1>1, <2>2
  <2>4. a * e >= max
    BY <1>1, <2>2, <2>3
  <2>5. f[MaxExponent] = a * e
    BY <1>3, <2>1 DEF e
  <2> QED
    BY <2>1, <2>4, <2>5
<1>9. PICK k \in Covers : \A y \in Covers : k <= y
  <2>1. Covers \in SUBSET Nat
    BY <1>2
  <2> QED
    BY <1>8, <2>1, LeastNat
<1>10. k = 0 \/ a * 2 ^ (k - 1) < max
  <2>1. SUFFICES ASSUME k # 0 PROVE a * 2 ^ (k - 1) < max
    OBVIOUS
  <2>2. k - 1 \in Exponents
    BY <1>9, <2>1, WorkerAssumption DEF Exponents
  <2>3. k - 1 \notin Covers
    BY <1>2, <1>9, <2>2
  <2>4. ~(f[k - 1] >= max)
    BY <2>2, <2>3
  <2>5. max \in Int
    <3>1. 2 ^ MaxExponent \in Int
      BY WorkerAssumption
    <3> QED
      BY <3>1
  <2>6. f[k - 1] = a * 2 ^ (k - 1) /\ f[k - 1] \in Int
    BY <1>3, <2>2
  <2>7. f[k - 1] < max
    BY <2>4, <2>5, <2>6
  <2> QED
    BY <2>6, <2>7
<1>11. f[k] \in Exponential(min, max) /\ f[k] >= max
  BY <1>4, <1>9, <1>10
<1> QED
  BY <1>5, <1>7, <1>11

\* What ConfigOK says of the numbers.
LEMMA ConfigNumbers ==
  ASSUME NEW c, ConfigOK(c)
  PROVE  /\ c.len \in Nat \ {0} /\ c.seqs \in Nat \ {0} /\ c.tokens \in Nat \ {0}
         /\ c.batch \in Nat \ {0} /\ c.devices \in Nat \ {0} /\ c.minContext \in Nat
         /\ c.len \in 0..2 ^ MaxExponent /\ c.tokens \in 0..2 ^ MaxExponent
         /\ c.minContext \in 0..2 ^ MaxExponent
         /\ c.pooling \in BOOLEAN
<1>1. 2 ^ MaxExponent \in Int
  BY WorkerAssumption
<1> QED
  BY <1>1 DEF ConfigOK, ConfigType

\* The longest padding covers the model's length, or, where requests are fused into one
\* input, the largest batch.
LEMMA PaddingFacts ==
  ASSUME NEW c, ConfigOK(c)
  PROVE  /\ Paddings(c) \in SUBSET Int
         /\ MaxNumTokens(c) \in Paddings(c) /\ MaxNumTokens(c) \in Int
         /\ \A p \in Paddings(c) : p <= MaxNumTokens(c)
         /\ ~c.pooling \/ c.batch # 1 => MaxNumTokens(c) >= c.len
         /\ c.pooling /\ c.batch = 1 => MaxNumTokens(c) >= c.tokens
<1> DEFINE P == Paddings(c)
           max == IF c.pooling /\ c.batch = 1 THEN c.tokens ELSE c.len
           min == IF c.pooling THEN c.minContext ELSE Min({c.minContext, c.tokens})
           E == Exponential(min, max)
<1>1. max \in 0..2 ^ MaxExponent
  BY ConfigNumbers
<1>2. min \in 0..2 ^ MaxExponent
  <2> DEFINE T == {c.minContext, c.tokens}
  <2>1. T \in SUBSET Nat /\ T # {} /\ T \subseteq 0..2 ^ MaxExponent
    BY ConfigNumbers
  <2>2. Min(T) \in T
    BY <2>1, MinFacts
  <2> QED
    BY <2>1, <2>2, ConfigNumbers
<1>3. P = E \/ P = {1} \cup E
  BY ConfigNumbers DEF Paddings, PoolingPaddings, GenerativePaddings
<1>4. /\ E \in SUBSET Int
      /\ \E b \in Int : \A x \in E : x <= b
      /\ \E x \in E : x >= max
  BY <1>1, <1>2, ExponentialFacts
<1> HIDE DEF E, P, min, max
<1>5. P \in SUBSET Int
  <2>1. \A x \in P : x \in E \/ x = 1
    BY <1>3
  <2>2. \A x \in E : x \in Int
    BY <1>4
  <2>3. \A x \in P : x \in Int
    BY <2>1, <2>2
  <2> QED
    BY <2>3
<1>6. PICK b \in Int : \A x \in E : x <= b
  BY <1>4
<1>7. PICK e \in E : e >= max
  BY <1>4
<1>8. P # {} /\ e \in P
  BY <1>3, <1>7
<1>9. \E d \in Int : \A x \in P : x <= d
  <2>1. CASE b >= 1
    BY <1>3, <1>4, <1>6, <2>1
  <2>2. CASE ~(b >= 1)
    <3>1. \A x \in P : x \in Int /\ (x <= b \/ x = 1)
      BY <1>3, <1>5, <1>6
    <3>2. \A x \in P : x <= 1
      BY <2>2, <3>1
    <3> QED
      BY <3>2
  <2> QED
    BY <2>1, <2>2
<1>10. PICK d \in Int : \A x \in P : x <= d
  BY <1>9
<1>11. Max(P) \in P /\ \A y \in P : y <= Max(P)
  BY <1>5, <1>8, <1>10, MaxFacts
<1>12. MaxNumTokens(c) = Max(P)
  BY DEF MaxNumTokens, P
<1>13. Max(P) \in Int /\ e \in Int /\ max \in Int
  <2>1. 2 ^ MaxExponent \in Int
    BY WorkerAssumption
  <2>2. max \in Int
    BY <1>1, <2>1
  <2>3. Max(P) \in Int /\ e \in Int
    BY <1>5, <1>8, <1>11
  <2> QED
    BY <2>2, <2>3
<1>14. Max(P) >= max
  <2>1. e <= Max(P)
    BY <1>8, <1>11
  <2> QED
    BY <1>7, <1>13, <2>1
<1>15. Paddings(c) = P
  BY DEF P
<1>16. /\ P \in SUBSET Int
       /\ MaxNumTokens(c) \in P /\ MaxNumTokens(c) \in Int
       /\ \A p \in P : p <= MaxNumTokens(c)
       /\ MaxNumTokens(c) >= max
  BY <1>5, <1>11, <1>12, <1>13, <1>14
<1>17. ~c.pooling \/ c.batch # 1 => max = c.len
  BY DEF max
<1>18. c.pooling /\ c.batch = 1 => max = c.tokens
  BY DEF max
<1> QED
  BY <1>15, <1>16, <1>17, <1>18

\* An input that is not longer than the longest padding has a padded length.
LEMMA PaddedFacts ==
  ASSUME NEW c, ConfigOK(c), NEW n \in Nat \ {0}, n <= MaxNumTokens(c)
  PROVE  PaddedLen(c, n) \in Paddings(c) /\ PaddedLen(c, n) \in Int /\ PaddedLen(c, n) > 0
<1> DEFINE T == {p \in Paddings(c) : p >= n}
<1>1. T \in SUBSET Nat
  <2>1. Paddings(c) \in SUBSET Int
    BY PaddingFacts
  <2> QED
    BY <2>1
<1>2. MaxNumTokens(c) \in T
  <2>1. MaxNumTokens(c) \in Paddings(c) /\ MaxNumTokens(c) \in Int
    BY PaddingFacts
  <2> QED
    BY <2>1
<1>3. Min(T) \in T
  BY <1>1, <1>2, MinFacts
<1>4. PaddedLen(c, n) = Min(T)
  <2>1. MaxNumTokens(c) = Max(Paddings(c)) /\ MaxNumTokens(c) \in Int
    BY PaddingFacts DEF MaxNumTokens
  <2>2. ~(n > Max(Paddings(c)))
    BY <2>1
  <2> QED
    BY <2>2 DEF PaddedLen
<1>5. T \subseteq Paddings(c) /\ \A x \in T : x >= n
  OBVIOUS
<1>6. Min(T) \in Paddings(c) /\ Min(T) \in Int /\ Min(T) >= n
  BY <1>1, <1>3, <1>5
<1> QED
  BY <1>4, <1>6

-----------------------------------------------------------------------------
(* What serving calls                                                       *)

\* The size and the longest request of a batch.
LEMMA BatchFacts ==
  ASSUME NEW c, ConfigOK(c), NEW b \in Batches(c)
  PROVE  b.n \in 1..c.seqs /\ b.longest \in 1..c.len
<1>1. c.len \in Nat \ {0} /\ c.seqs \in Nat \ {0}
  BY ConfigNumbers
<1>2. b.n \in 1..c.seqs /\ b.longest \in {1, c.len \div 2 + 1, c.len}
  BY DEF Batches
<1>3. c.len \div 2 + 1 \in 1..c.len
  BY <1>1
<1> QED
  BY <1>1, <1>2, <1>3

\* The longest request of a batch has a padded length.
LEMMA LongestPadded ==
  ASSUME NEW c, ConfigOK(c), NEW b \in Batches(c), ~c.pooling \/ c.batch # 1
  PROVE  PaddedLen(c, b.longest) \in Paddings(c) /\ PaddedLen(c, b.longest) > 0
<1>1. b.longest \in 1..c.len /\ c.len \in Nat
  BY BatchFacts, ConfigNumbers
<1>2. MaxNumTokens(c) >= c.len /\ MaxNumTokens(c) \in Int
  BY PaddingFacts
<1>3. b.longest \in Nat \ {0} /\ b.longest <= MaxNumTokens(c)
  BY <1>1, <1>2
<1> QED
  BY <1>3, PaddedFacts

\* So have all tokens of a batch, where they are fused into one input.
LEMMA TotalPadded ==
  ASSUME NEW c, ConfigOK(c), NEW b \in Batches(c), c.pooling /\ c.batch = 1
  PROVE  PaddedLen(c, Total(c, b)) \in Paddings(c) /\ PaddedLen(c, Total(c, b)) > 0
<1> DEFINE t == IF b.full THEN b.n * b.longest ELSE b.n - 1 + b.longest
           T == {c.tokens, t}
<1>1. b.longest \in Nat \ {0} /\ b.n \in Nat \ {0} /\ c.tokens \in Nat \ {0}
  BY BatchFacts, ConfigNumbers
<1>2. b.n * b.longest \in Nat \ {0}
  BY <1>1
<1>3. t \in Nat \ {0}
  BY <1>1, <1>2
<1>4. Total(c, b) = Min(T)
  BY DEF Total
<1> HIDE DEF t
<1>5. T \in SUBSET Nat /\ T # {} /\ 0 \notin T
  BY <1>1, <1>3
<1>6. Min(T) \in T /\ Min(T) <= c.tokens
  BY <1>5, MinFacts
<1>7. MaxNumTokens(c) >= c.tokens /\ MaxNumTokens(c) \in Int
  BY PaddingFacts
<1>8. Min(T) \in Nat \ {0}
  BY <1>5, <1>6
<1>9. Min(T) <= MaxNumTokens(c)
  BY <1>1, <1>6, <1>7, <1>8
<1> QED
  BY <1>4, <1>8, <1>9, PaddedFacts

\* The variant of a batch is one that the warm-up goes through.
LEMMA UseMaxVariant ==
  ASSUME NEW c, NEW b
  PROVE  UseMax(c, b) \in Variants(c)
BY DEF UseMax, Variants

\* Every graph of a generative batch that runs was compiled by the warm-up or is lazy.
LEMMA GenerativeServed ==
  ASSUME ConfigOK(config), ~config.pooling, NEW b \in Batches(config),
         \A v \in Variants(config) : Users(config, v) = config.seqs,
         NEW g \in GenerativeGraphs(config, b), Runs(g)
  PROVE  g \in CaptureGenerative(config) \/ Lazy(g)
<1> DEFINE len == PaddedLen(config, b.longest)
           v == UseMax(config, b)
           pos == Min({Users(config, v), MaxNumTokens(config)})
           model == Backbone("cache", config.seqs, len, Users(config, v), pos,
                             Blocks(config, v))
<1>1. len \in Paddings(config)
  BY LongestPadded
<1>2. v \in Variants(config)
  BY UseMaxVariant
<1>3. Users(config, v) = config.seqs
  BY <1>2
<1>4. \/ g = model
      \/ g = <<"select_hidden_states", len>>
      \/ g \in {<<"compute_logits">>, <<"structured_decode">>, <<"gather_logprobs">>}
      \/ g = SampleGraph(b)
  BY DEF GenerativeGraphs
<1> HIDE DEF len, v, pos
<1>5. CASE g = model
  <2>1. pos = config.seqs
    BY <1>5 DEF Runs, Backbone
  <2>2. model = Backbone("cache", config.seqs, len, Users(config, v), Users(config, v),
                         Blocks(config, v))
    BY <1>3, <2>1
  <2>3. model \in DummyRun(config, "cache", len)
    BY <1>2, <2>2 DEF DummyRun
  <2>4. model \in PrecompileBackbone(config)
    BY <1>1, <2>3 DEF PrecompileBackbone
  <2> QED
    BY <1>5, <2>4 DEF CaptureGenerative
<1>6. CASE g = <<"select_hidden_states", len>>
  BY <1>1, <1>6 DEF CaptureGenerative, PrecompileSelectHiddenStates
<1>7. CASE g \in {<<"compute_logits">>, <<"structured_decode">>, <<"gather_logprobs">>}
  BY <1>7 DEF CaptureGenerative, PrecompileComputeLogits, PrecompileStructuredDecoding,
              PrecompileGatherLogprobs
<1>8. CASE g = SampleGraph(b)
  <2>1. CASE b.kind = "greedy" /\ b.features = {}
    <3>1. g = <<"argmax">>
      BY <1>8, <2>1 DEF SampleGraph
    <3> QED
      BY <3>1 DEF CaptureGenerative, PrecompileSampleFromLogits, Lazy
  <2>2. CASE ~(b.kind = "greedy" /\ b.features = {})
    <3>1. g = <<"sampler", b.kind = "random", b.features>>
      BY <1>8, <2>2 DEF SampleGraph
    <3>2. CASE b.kind = "random" /\ b.features = {}
      <4>1. g = <<"sampler", TRUE, {}>>
        BY <3>1, <3>2
      <4> QED
        BY <4>1 DEF CaptureGenerative, PrecompileSampleFromLogits, Lazy
    <3>3. CASE b.features # {}
      BY <3>1, <3>3 DEF Lazy
    <3>4. CASE b.kind # "random"
      BY <3>1, <3>4 DEF Lazy
    <3> QED
      BY <3>2, <3>3, <3>4
  <2> QED
    BY <2>1, <2>2
<1> QED
  BY <1>4, <1>5, <1>6, <1>7, <1>8

\* If the lengths of a batch fit their array, then all its graphs run.
LEMMA GenerativeRuns ==
  ASSUME NEW c, ConfigOK(c), ~c.pooling, NEW b \in Batches(c),
         \A v \in Variants(c) : Users(c, v) = c.seqs, c.seqs <= MaxNumTokens(c),
         NEW g \in GenerativeGraphs(c, b)
  PROVE  Runs(g)
<1> DEFINE len == PaddedLen(c, b.longest)
           v == UseMax(c, b)
           users == Users(c, v)
           T == {users, MaxNumTokens(c)}
           model == Backbone("cache", c.seqs, len, users, Min(T), Blocks(c, v))
<1>1. len > 0
  BY LongestPadded
<1>2. v \in Variants(c)
  BY UseMaxVariant
<1>3. users = c.seqs
  BY <1>2
<1>4. Min(T) = c.seqs
  <2>1. c.seqs \in Nat /\ MaxNumTokens(c) \in Int
    BY ConfigNumbers, PaddingFacts
  <2> HIDE DEF users
  <2>2. T \in SUBSET Nat /\ T # {}
    BY <1>3, <2>1
  <2>3. Min(T) \in T /\ Min(T) <= c.seqs
    BY <1>3, <2>2, MinFacts
  <2>4. Min(T) = c.seqs \/ Min(T) = MaxNumTokens(c)
    BY <1>3, <2>3
  <2> QED
    BY <2>1, <2>3, <2>4
<1>5. \/ g = model
      \/ g = <<"select_hidden_states", len>>
      \/ g \in {<<"compute_logits">>, <<"structured_decode">>, <<"gather_logprobs">>}
      \/ g = SampleGraph(b)
  BY DEF GenerativeGraphs
<1> HIDE DEF len, v, users, T
<1>6. CASE g = model
  BY <1>1, <1>4, <1>6 DEF Runs, Backbone
<1>7. CASE g # model
  <2>1. g[1] \notin {"backbone", "pooling"}
    BY <1>5, <1>7 DEF SampleGraph
  <2> QED
    BY <2>1 DEF Runs
<1> QED
  BY <1>6, <1>7

\* A number divided with remainder.
LEMMA DivMod ==
  ASSUME NEW n \in Nat, NEW d \in Nat \ {0}
  PROVE  n = d * (n \div d) + (n % d)
<1>1. n \in Int /\ d \in Int /\ d > 0
  OBVIOUS
<1> QED
  BY <1>1, Z3

\* Rounded up to a multiple of d, a number does not pass a multiple of d.
LEMMA RoundUp ==
  ASSUME NEW n \in Nat \ {0}, NEW d \in Nat \ {0}, NEW m \in Nat,
         n <= m, m % d = 0, n % d > 0
  PROVE  n + (d - (n % d)) \in 1..m /\ (n + (d - (n % d))) % d = 0
<1> DEFINE q == n \div d
           r == n % d
           p == m \div d
           k == n + (d - r)
<1>1. q \in Int /\ p \in Int /\ r \in Nat /\ r < d /\ q >= 0
  OBVIOUS
<1>2. n = d * q + r /\ m = d * p
  BY DivMod
<1> HIDE DEF q, r, p, k
<1>3. d * q < d * p
  BY <1>1, <1>2
<1>4. q < p
  BY <1>1, <1>3
<1>5. d * (q + 1) <= d * p
  BY <1>1, <1>4
<1>6. d * (q + 1) = d * q + d
  BY <1>1
<1>7. k = d * (q + 1) /\ k \in Int
  BY <1>1, <1>2, <1>6 DEF k
<1>8. (d * (q + 1)) % d = 0
  BY <1>1
<1>9. k >= 1
  BY <1>1 DEF k
<1>10. k \in 1..m /\ k % d = 0
  BY <1>2, <1>5, <1>7, <1>8, <1>9
<1> QED
  BY <1>10 DEF k, r

\* The graph of a pooled batch always runs.
LEMMA PoolingRuns ==
  ASSUME NEW c, ConfigOK(c), c.pooling, NEW b \in Batches(c)
  PROVE  Runs(PoolingGraph(c, b))
<1>1. CASE c.batch = 1
  <2> DEFINE len == PaddedLen(c, Total(c, b))
  <2>1. len > 0
    BY <1>1, TotalPadded
  <2> HIDE DEF len
  <2>2. PoolingGraph(c, b) = <<"pooling", 1, len>>
    BY <1>1 DEF PoolingGraph, PoolingBackbone, len
  <2> QED
    BY <2>1, <2>2 DEF Runs
<1>2. CASE c.batch # 1
  <2> DEFINE len == PaddedLen(c, b.longest)
             n == b.n + AdditionalInputs(c, b)
  <2>1. len > 0
    BY <1>2, LongestPadded
  <2> HIDE DEF len, n
  <2>2. PoolingGraph(c, b) = <<"pooling", n, len>>
    BY <1>2 DEF PoolingGraph, PoolingBackbone, len, n
  <2> QED
    BY <2>1, <2>2 DEF Runs
<1> QED
  BY <1>1, <1>2

\* The warm-up compiled it, if it went through all sizes of a batch.
LEMMA PoolingServed ==
  ASSUME NEW c, ConfigOK(c), c.pooling, PoolingConstructible(c), WarmsUp(c),
         NEW b \in Batches(c)
  PROVE  PoolingGraph(c, b) \in CapturePooling(c)
<1>1. c.all /\ (DataParallel(c) => c.batch % c.devices = 0)
  BY DEF WarmsUp
<1>2. c.batch \in Nat \ {0} /\ c.devices \in Nat \ {0}
  BY ConfigNumbers
<1>3. CASE c.batch = 1
  <2> DEFINE len == PaddedLen(c, Total(c, b))
  <2>1. len \in Paddings(c)
    BY <1>3, TotalPadded
  <2> HIDE DEF len
  <2>2. PoolingGraph(c, b) = PoolingBackbone(1, len)
    BY <1>3 DEF PoolingGraph, len
  <2>3. ~DataParallel(c)
    BY <1>3 DEF DataParallel
  <2>4. 1 \in BatchVariants(c)
    BY <1>1, <1>3, <2>3 DEF BatchVariants
  <2> QED
    BY <2>1, <2>2, <2>4 DEF CapturePooling
<1>4. CASE c.batch # 1
  <2> DEFINE len == PaddedLen(c, b.longest)
             n == b.n + AdditionalInputs(c, b)
  <2>1. len \in Paddings(c)
    BY <1>4, LongestPadded
  <2>2. PoolingGraph(c, b) = PoolingBackbone(n, len)
    BY <1>4 DEF PoolingGraph
  <2>3. c.batch = c.seqs
    BY <1>4 DEF PoolingConstructible
  <2>4. b.n \in Nat \ {0} /\ b.n <= c.batch
    BY <2>3, BatchFacts, ConfigNumbers
  <2>5. n \in 1..c.batch /\ (DataParallel(c) => n % c.devices = 0)
    <3>1. CASE DataParallel(c) /\ b.n % c.devices > 0
      <4>1. n = b.n + (c.devices - (b.n % c.devices))
        BY <3>1 DEF AdditionalInputs
      <4>2. c.batch % c.devices = 0
        BY <1>1, <3>1
      <4>3. /\ b.n + (c.devices - (b.n % c.devices)) \in 1..c.batch
            /\ (b.n + (c.devices - (b.n % c.devices))) % c.devices = 0
        BY <1>2, <2>4, <3>1, <4>2, RoundUp
      <4> QED
        BY <4>1, <4>3
    <3>2. CASE ~(DataParallel(c) /\ b.n % c.devices > 0)
      <4>1. n = b.n
        BY <2>4, <3>2 DEF AdditionalInputs
      <4>2. b.n % c.devices \in Nat
        BY <1>2, <2>4
      <4>3. DataParallel(c) => b.n % c.devices = 0
        BY <3>2, <4>2
      <4> QED
        BY <1>2, <2>4, <4>1, <4>3
    <3> QED
      BY <3>1, <3>2
  <2> HIDE DEF len, n
  <2>6. n \in BatchVariants(c)
    BY <1>1, <2>5 DEF BatchVariants
  <2> QED
    BY <2>1, <2>2, <2>6 DEF CapturePooling
<1> QED
  BY <1>3, <1>4

-----------------------------------------------------------------------------
(* The inductive invariant                                                  *)

\* A worker starts with a configuration within the bounds.
LEMMA InitInv == Init => WorkerInv
<1> SUFFICES ASSUME Init PROVE WorkerInv
  OBVIOUS
<1>1. ConfigOK(config)
  BY WorkerAssumption DEF Init, ConfigOK
<1> QED
  BY <1>1 DEF Init, WorkerInv, Early, ServedFromWarmUp

\* The platform raises max_num_batched_tokens to a length within the bound.
LEMMA CheckPreserves ==
  ASSUME WorkerInv, CheckAndUpdateConfig
  PROVE  WorkerInv'
<1>1. ConfigOK(config')
  <2>1. CASE config' = config
    BY <2>1 DEF WorkerInv
  <2>2. CASE config' # config
    <3> DEFINE T == {config.len, 2048}
               t == Max(T)
    <3>1. config' = [config EXCEPT !.tokens = t]
      BY <2>2 DEF CheckAndUpdateConfig, DefaultTokens
    <3>2. ConfigOK(config)
      BY DEF WorkerInv
    <3>3. config.len \in Nat \ {0} /\ config.len \in 0..2 ^ MaxExponent
      BY <3>2, ConfigNumbers
    <3>4. 2 ^ MaxExponent \in Int /\ 2 ^ MaxExponent >= 2048
      BY WorkerAssumption
    <3>5. T \in SUBSET Int /\ T # {} /\ \A x \in T : x <= 2 ^ MaxExponent /\ x > 0
      BY <3>3, <3>4
    <3>6. t \in T
      BY <3>4, <3>5, MaxFacts
    <3>7. t \in Nat \ {0} /\ t \in 0..2 ^ MaxExponent
      <4> HIDE DEF t
      <4> QED
        BY <3>4, <3>5, <3>6
    <3> HIDE DEF t
    <3>8. config \in ConfigType
      BY <3>2 DEF ConfigOK
    <3>9. config' \in ConfigType
      BY <3>1, <3>7, <3>8 DEF ConfigType
    <3>10. /\ config'.len = config.len /\ config'.seqs = config.seqs /\ config'.tokens = t
           /\ config'.batch = config.batch /\ config'.devices = config.devices
           /\ config'.minContext = config.minContext
      BY <3>1, <3>8 DEF ConfigType
    <3> QED
      BY <3>2, <3>7, <3>9, <3>10 DEF ConfigOK
  <2> QED
    BY <2>1, <2>2
<1>2. phase' \in {"failed", "configured"} /\ pending' = {}
  BY DEF CheckAndUpdateConfig, WorkerInv, Early
<1> QED
  BY <1>1, <1>2 DEF WorkerInv, Early, ServedFromWarmUp

\* The constructor of the pooling runner asserts what its batches need.
LEMMA InitDevicePreserves ==
  ASSUME WorkerInv, InitDevice
  PROVE  WorkerInv'
BY DEF WorkerInv, InitDevice, Early, ServedFromWarmUp

\* Loading the model compiles nothing.
LEMMA LoadModelPreserves ==
  ASSUME WorkerInv, LoadModel
  PROVE  WorkerInv'
BY DEF WorkerInv, LoadModel, Early, ServedFromWarmUp

\* The profiling run succeeds only if there is a row for every request.
LEMMA ProfilePreserves ==
  ASSUME WorkerInv, DetermineAvailableMemory
  PROVE  WorkerInv'
<1>1. phase' = "profiled" /\ ~config.pooling =>
        \A v \in Variants(config) : Users(config, v) = config.seqs
  <2>1. SUFFICES ASSUME phase' = "profiled", ~config.pooling, NEW v \in Variants(config)
                 PROVE  Users(config, v) = config.seqs
    OBVIOUS
  <2> DEFINE u == Users(config, v)
             g == Backbone("profile", config.seqs, MaxNumTokens(config), u, u, Blocks(config, v))
  <2>2. g \in ProfileRun(config)
    BY DEF ProfileRun, DummyRun
  <2>3. Runs(g)
    BY <2>1, <2>2 DEF DetermineAvailableMemory
  <2> HIDE DEF u
  <2>4. u = config.seqs
    BY <2>3 DEF Runs, Backbone
  <2> QED
    BY <2>4 DEF u
<1>2. phase = "loaded" /\ phase' \in {"profiled", "failed"}
      /\ UNCHANGED <<config, counted, pending>>
  BY DEF DetermineAvailableMemory
<1> QED
  BY <1>1, <1>2 DEF WorkerInv, Early, ServedFromWarmUp

\* The KV cache is allocated, or the worker has failed.
LEMMA KVCachePreserves ==
  ASSUME WorkerInv, InitializeKVCache
  PROVE  WorkerInv'
BY DEF WorkerInv, InitializeKVCache, Early, ServedFromWarmUp

\* After the warm-up all graphs are counted.
LEMMA WarmUpPreserves ==
  ASSUME WorkerInv, CompileOrWarmUp
  PROVE  WorkerInv'
<1>1. phase = "cached" /\ phase' = "serving" /\ UNCHANGED <<config, pending>>
  BY DEF CompileOrWarmUp
<1>2. ~config.eager => Warm(config) \subseteq counted' /\ graphs' = counted'
  BY DEF CompileOrWarmUp, Warm, UpdateNumXlaGraphs
<1>3. ServedFromWarmUp'
  BY <1>1, <1>2 DEF ServedFromWarmUp, WarmsUp
<1> QED
  BY <1>1, <1>2, <1>3 DEF WorkerInv, Early

\* The batch that execute_model leaves is one that the scheduler may schedule.
LEMMA ExecutePreserves ==
  ASSUME WorkerInv, NEW b \in Batches(config), ExecuteModel(b)
  PROVE  WorkerInv'
<1>1. phase = "serving" /\ ~config.pooling /\ pending' = {b}
      /\ UNCHANGED <<config, phase, graphs, counted>>
  BY DEF ExecuteModel
<1>2. ServedFromWarmUp'
  BY <1>1 DEF WorkerInv, ServedFromWarmUp, Lazy
<1> QED
  BY <1>1, <1>2 DEF WorkerInv, Early

\* The graphs that sample_tokens runs were counted, or are lazy.
LEMMA SamplePreserves ==
  ASSUME WorkerInv, SampleTokens
  PROVE  WorkerInv'
<1>1. phase = "serving" /\ pending' = {} /\ phase' \in {"serving", "failed"}
      /\ ~config.pooling /\ UNCHANGED <<config, counted>>
  BY DEF SampleTokens, WorkerInv
<1>2. ServedFromWarmUp'
  <2>1. SUFFICES ASSUME phase' = "serving", WarmsUp(config), NEW g \in graphs' \ counted
                 PROVE  Lazy(g)
    BY <1>1 DEF ServedFromWarmUp, Lazy
  <2>2. CASE g \in graphs
    BY <1>1, <2>1, <2>2 DEF WorkerInv, ServedFromWarmUp
  <2>3. CASE g \notin graphs
    <3> DEFINE used == UNION {GenerativeGraphs(config, b) : b \in pending}
    <3>1. (\A h \in used : Runs(h)) /\ graphs' = graphs \cup used
      BY <2>1 DEF SampleTokens
    <3>2. PICK b \in pending : g \in GenerativeGraphs(config, b)
      BY <2>1, <2>3, <3>1
    <3>3. Runs(g) /\ b \in Batches(config)
      BY <3>1, <3>2 DEF WorkerInv
    <3>4. ConfigOK(config) /\ \A v \in Variants(config) : Users(config, v) = config.seqs
      BY <1>1 DEF WorkerInv
    <3>5. g \in CaptureGenerative(config) \/ Lazy(g)
      BY <1>1, <3>2, <3>3, <3>4, GenerativeServed
    <3>6. Warm(config) \subseteq counted /\ Warm(config) = CaptureGenerative(config)
      BY <1>1, <2>1 DEF WorkerInv, Warm, WarmsUp
    <3> QED
      BY <2>1, <3>5, <3>6
  <2> QED
    BY <2>2, <2>3
<1> QED
  BY <1>1, <1>2 DEF WorkerInv, Early

\* So is the graph that a pooled batch runs.
LEMMA PoolPreserves ==
  ASSUME WorkerInv, NEW b \in Batches(config), Pool(b)
  PROVE  WorkerInv'
<1>1. phase = "serving" /\ config.pooling /\ phase' \in {"serving", "failed"}
      /\ UNCHANGED <<config, counted, pending>>
      /\ graphs' \subseteq graphs \cup {PoolingGraph(config, b)}
  BY DEF Pool
<1>2. ServedFromWarmUp'
  <2>1. SUFFICES ASSUME phase' = "serving", WarmsUp(config), NEW g \in graphs' \ counted
                 PROVE  Lazy(g)
    BY <1>1 DEF ServedFromWarmUp, Lazy
  <2>2. PoolingGraph(config, b) \in CapturePooling(config)
    BY <1>1, <2>1, PoolingServed DEF WorkerInv
  <2>3. Warm(config) \subseteq counted /\ Warm(config) = CapturePooling(config)
    BY <1>1, <2>1 DEF WorkerInv, Warm, WarmsUp
  <2>4. g \in graphs
    BY <1>1, <2>1, <2>2, <2>3
  <2> QED
    BY <1>1, <2>1, <2>4 DEF WorkerInv, ServedFromWarmUp
<1> QED
  BY <1>1, <1>2 DEF WorkerInv, Early

\* Every step of the engine keeps the invariant.
LEMMA StepInv == WorkerInv /\ [Next]_vars => WorkerInv'
<1> SUFFICES ASSUME WorkerInv, [Next]_vars PROVE WorkerInv'
  OBVIOUS
<1>1. CASE CheckAndUpdateConfig
  BY <1>1, CheckPreserves
<1>2. CASE InitDevice
  BY <1>2, InitDevicePreserves
<1>3. CASE LoadModel
  BY <1>3, LoadModelPreserves
<1>4. CASE DetermineAvailableMemory
  BY <1>4, ProfilePreserves
<1>5. CASE InitializeKVCache
  BY <1>5, KVCachePreserves
<1>6. CASE CompileOrWarmUp
  BY <1>6, WarmUpPreserves
<1>7. ASSUME NEW b \in Batches(config), ExecuteModel(b) \/ Pool(b) PROVE WorkerInv'
  BY <1>7, ExecutePreserves, PoolPreserves
<1>8. CASE SampleTokens
  BY <1>8, SamplePreserves
<1>9. CASE UNCHANGED vars
  <2>1. UNCHANGED <<config, phase, graphs, counted, pending>>
    BY <1>9 DEF vars
  <2>2. ServedFromWarmUp'
    BY <2>1 DEF WorkerInv, ServedFromWarmUp, Lazy
  <2> QED
    BY <2>1, <2>2 DEF WorkerInv
<1> QED
  BY <1>1, <1>2, <1>3, <1>4, <1>5, <1>6, <1>7, <1>8, <1>9 DEF Next

-----------------------------------------------------------------------------
(* Theorems                                                                 *)

\* The inductive invariant holds in every reachable state of a worker.
THEOREM AlwaysInv == Spec => []WorkerInv
  BY InitInv, StepInv, PTL DEF Spec

\* Whatever is served, capture_model compiled it: beyond the named sampler variants no
\* batch needs a graph that _verify_num_xla_graphs did not count.
THEOREM AlwaysServedFromWarmUp == Spec => []ServedFromWarmUp
<1>1. WorkerInv => ServedFromWarmUp
  BY DEF WorkerInv
<1> QED
  BY <1>1, AlwaysInv, PTL

\* A step of a worker that serves does not fail: every batch has a padded length, and the
\* page table has a row for each of its requests.
LEMMA ServingStep ==
  ASSUME WorkerInv, [Next]_vars, phase = "serving", config.seqs <= MaxNumTokens(config)
  PROVE  /\ phase' # "failed"
         /\ ~config.pooling => \A v \in Variants(config) : Users(config, v) = config.seqs
<1>1. ~config.pooling => \A v \in Variants(config) : Users(config, v) = config.seqs
  BY DEF WorkerInv
<1>2. phase' # "failed"
  <2>1. CASE SampleTokens
    <3> DEFINE used == UNION {GenerativeGraphs(config, b) : b \in pending}
    <3>1. \A g \in used : Runs(g)
      <4>1. SUFFICES ASSUME NEW g \in used PROVE Runs(g)
        OBVIOUS
      <4>2. PICK b \in pending : g \in GenerativeGraphs(config, b)
        BY <4>1
      <4>3. ~config.pooling /\ b \in Batches(config) /\ ConfigOK(config)
        BY <2>1, <4>2 DEF WorkerInv, SampleTokens
      <4> QED
        BY <1>1, <4>2, <4>3, GenerativeRuns
    <3> QED
      BY <2>1, <3>1 DEF SampleTokens
  <2>2. ASSUME NEW b \in Batches(config), ExecuteModel(b) PROVE phase' # "failed"
    BY <2>2 DEF ExecuteModel
  <2>3. ASSUME NEW b \in Batches(config), Pool(b) PROVE phase' # "failed"
    <3>1. Runs(PoolingGraph(config, b))
      BY <2>3, PoolingRuns DEF WorkerInv, Pool
    <3> QED
      BY <2>3, <3>1 DEF Pool
  <2>4. CASE UNCHANGED vars
    BY <2>4 DEF vars
  <2> QED
    BY <2>1, <2>2, <2>3, <2>4 DEF Next, CheckAndUpdateConfig, InitDevice, LoadModel,
       DetermineAvailableMemory, InitializeKVCache, CompileOrWarmUp
<1> QED
  BY <1>1, <1>2

\* A worker that serves never fails on a batch.
THEOREM NeverFailsLate == Spec => NoLateFailure
<1>1. WorkerInv /\ [Next]_vars =>
        [phase = "serving" /\ config.seqs <= MaxNumTokens(config) =>
            /\ phase' # "failed"
            /\ ~config.pooling => \A v \in Variants(config) :
                                      Users(config, v) = config.seqs]_vars
  BY ServingStep
<1> QED
  BY <1>1, AlwaysInv, PTL DEF Spec, NoLateFailure

=============================================================================
