-------------------------- MODULE PagedCacheProofs --------------------------
(***************************************************************************)
(* Proofs about PagedCache, for any finite set of requests, any pool of    *)
(* blocks and any paddings: until a batch leaves rows of others in the     *)
(* page table, no write of any row overwrites a key that a running request *)
(* will read, and a token is sampled from the request's own tokens.  Then  *)
(* about the other custom operations, those of the expert layers           *)
(* (SparseMLP), for layers of any size.                                    *)
(***************************************************************************)
EXTENDS PagedCache, LibraryFacts, FiniteSetTheorems, SequenceTheorems, TLAPS

\* No block is in two places of the requests' lists.
Distinct(blocks) ==
    \A r1, r2 \in Requests : \A i \in 1..Len(blocks[r1]), j \in 1..Len(blocks[r2]) :
        blocks[r1][i] = blocks[r2][j] => r1 = r2 /\ i = j

\* n blocks hold c tokens, and none of them is superfluous.
Hold(n, c) == c <= n * BlockSize /\ (n - 1) * BlockSize < c

TypeOK ==
    /\ owned \in [Requests -> Seq(Blocks)]
    /\ computed \in [Requests -> 0..MaxLen]
    /\ pageTable \in [1..Rows -> [1..MaxBlocks -> Blocks \cup {NullBlock}]]
    /\ seqLens \in [1..Rows -> 0..MaxLen]
    /\ DOMAIN cache = Blocks \cup {NullBlock}
    /\ \A b \in DOMAIN cache : DOMAIN cache[b] = 0..BlockSize - 1
    /\ exposed \in BOOLEAN

\* Every request has the blocks its computed tokens need, for itself.
Held ==
    /\ \A r \in Requests : Hold(Len(owned[r]), computed[r])
    /\ Distinct(owned)
    /\ Cardinality(Running) <= Rows

CacheInv ==
    /\ TypeOK
    /\ Held
    /\ KeysIntact
    /\ SampledFromOwnTokens

-----------------------------------------------------------------------------
(* Constants, positions and lists                                           *)

\* The longest padding fits the page table.
LEMMA Bounds ==
  /\ BlockSize \in Nat \ {0} /\ MaxBlocks \in Nat \ {0} /\ Rows \in Nat \ {0}
  /\ Paddings \in SUBSET Nat
  /\ MaxLen \in Paddings /\ MaxLen \in Nat \ {0} /\ MaxLen <= MaxBlocks * BlockSize
  /\ \A p \in Paddings : p \in Nat \ {0} /\ p <= MaxLen
<1>1. /\ BlockSize \in Nat \ {0} /\ MaxBlocks \in Nat \ {0} /\ Rows \in Nat \ {0}
      /\ 1 \in Paddings
      /\ \A p \in Paddings : p \in Nat \ {0} /\ p <= MaxBlocks * BlockSize
  BY CacheAssumption
<1>2. MaxBlocks * BlockSize \in Int
  BY <1>1
<1>3. Paddings \in SUBSET Int /\ Paddings # {} /\ Paddings \in SUBSET Nat
  BY <1>1
<1>4. Max(Paddings) \in Paddings /\ \A y \in Paddings : y <= Max(Paddings)
  <2> DEFINE b == MaxBlocks * BlockSize
  <2>1. b \in Int /\ \A x \in Paddings : x <= b
    BY <1>1, <1>2
  <2> HIDE DEF b
  <2> QED
    BY <1>3, <2>1, MaxFacts
<1> QED
  BY <1>1, <1>3, <1>4 DEF MaxLen

\* A number divided with remainder.
LEMMA DivMod ==
  ASSUME NEW n \in Nat, NEW d \in Nat \ {0}
  PROVE  /\ n = d * (n \div d) + (n % d)
         /\ n \div d \in Nat /\ n % d \in 0..d - 1
<1>1. n \in Int /\ d \in Int /\ d > 0
  OBVIOUS
<1>2. n = d * (n \div d) + (n % d)
  BY <1>1, Z3
<1>3. n \div d \in Nat /\ n % d \in 0..d - 1
  OBVIOUS
<1> QED
  BY <1>2, <1>3

\* A position is in one of the blocks that hold it.
LEMMA InBlock ==
  ASSUME NEW p \in Nat, NEW n \in Nat, p < n * BlockSize
  PROVE  /\ p \div BlockSize + 1 \in 1..n /\ p % BlockSize \in 0..BlockSize - 1
         /\ p = (p \div BlockSize) * BlockSize + (p % BlockSize)
<1> DEFINE d == BlockSize
           k == p \div d
           r == p % d
<1>1. d \in Nat \ {0}
  BY Bounds
<1>2. p = d * k + r /\ k \in Nat /\ r \in 0..d - 1
  BY <1>1, DivMod
<1> HIDE DEF k, r, d
<1>3. k < n
  <2>1. SUFFICES ASSUME n <= k PROVE FALSE
    BY <1>2
  <2>2. d * n <= d * k
    BY <1>1, <1>2, <2>1
  <2>3. n * d = d * n
    BY <1>1
  <2>4. p < n * d
    BY DEF d
  <2>5. d * k \in Int /\ d * n \in Int
    BY <1>1, <1>2
  <2> QED
    BY <1>2, <2>2, <2>3, <2>4, <2>5
<1>4. k * d = d * k
  BY <1>1, <1>2
<1>5. k + 1 \in 1..n
  BY <1>2, <1>3
<1>6. p = k * d + r
  BY <1>2, <1>4
<1>7. k + 1 \in 1..n /\ r \in 0..d - 1 /\ p = k * d + r
  BY <1>2, <1>5, <1>6
<1> QED
  BY <1>7, Zenon DEF k, r, d

\* Requests have at most as many blocks as the page table has columns.
LEMMA FewBlocks ==
  ASSUME NEW n \in Nat, NEW c \in Nat, Hold(n, c), c <= MaxLen
  PROVE  n <= MaxBlocks
<1> DEFINE d == BlockSize
           m == MaxBlocks
<1>1. d \in Nat \ {0} /\ m \in Nat /\ MaxLen \in Nat /\ MaxLen <= m * d
  BY Bounds
<1>2. (n - 1) * d < c
  BY DEF Hold
<1> HIDE DEF d, m
<1>3. SUFFICES ASSUME m <= n - 1 PROVE FALSE
  BY <1>1 DEF m
<1>4. m * d <= (n - 1) * d
  BY <1>1, <1>3
<1>5. m * d \in Int /\ (n - 1) * d \in Int
  BY <1>1
<1> QED
  BY <1>1, <1>2, <1>4, <1>5

\* The blocks of a prompt.
LEMMA PromptBlocks ==
  ASSUME NEW n \in Nat \ {0}
  PROVE  CDiv(n, BlockSize) \in Nat /\ Hold(CDiv(n, BlockSize), n)
<1> DEFINE d == BlockSize
           m == n + d - 1
           k == m \div d
           r == m % d
<1>1. d \in Nat \ {0}
  BY Bounds
<1>2. m \in Nat /\ m = n + d - 1
  BY <1>1
<1>3. m = d * k + r /\ k \in Nat /\ r \in 0..d - 1
  BY <1>1, <1>2, DivMod
<1> HIDE DEF d, m, k, r
<1>4. k * d = d * k /\ (k - 1) * d = d * k - d /\ d * k \in Int
  BY <1>1, <1>3
<1>5. n <= k * d /\ (k - 1) * d < n
  BY <1>1, <1>2, <1>3, <1>4
<1>6. CDiv(n, BlockSize) = k
  BY DEF CDiv, k, m, d
<1> QED
  BY <1>3, <1>5, <1>6 DEF Hold, d

\* Another token needs another block if the last one is full.
LEMMA NextBlock ==
  ASSUME NEW n \in Nat, NEW c \in Nat, Hold(n, c)
  PROVE  Hold(n + (IF c % BlockSize = 0 THEN 1 ELSE 0), c + 1)
<1> DEFINE d == BlockSize
           k == c \div d
           r == c % d
<1>1. d \in Nat \ {0}
  BY Bounds
<1>2. c = d * k + r /\ k \in Nat /\ r \in 0..d - 1
  BY <1>1, DivMod
<1>3. c <= n * d /\ (n - 1) * d < c
  BY DEF Hold
<1> HIDE DEF d, k, r
<1>4. n * d = d * n /\ (n - 1) * d = d * n - d /\ (n + 1 - 1) * d = d * n
      /\ (n + 1) * d = d * n + d /\ d * n \in Int /\ d * k \in Int
      /\ (n - 1) * d \in Int
  BY <1>1, <1>2
<1>5. CASE r = 0
  <2>1. d * k <= d * n
    BY <1>2, <1>3, <1>4, <1>5
  <2>2. c + 1 <= (n + 1) * d
    BY <1>1, <1>2, <1>4, <1>5, <2>1
  <2>3. k >= n
    <3>1. SUFFICES ASSUME k <= n - 1 PROVE FALSE
      BY <1>2
    <3>2. d * k <= d * (n - 1)
      BY <1>1, <1>2, <3>1
    <3>3. d * (n - 1) = d * n - d
      BY <1>1
    <3> QED
      BY <1>1, <1>2, <1>3, <1>4, <1>5, <3>2, <3>3
  <2>4. d * n <= d * k
    BY <1>1, <1>2, <2>3
  <2>5. (n + 1 - 1) * d < c + 1
    BY <1>2, <1>4, <1>5, <2>4
  <2> QED
    BY <1>5, <2>2, <2>5 DEF Hold, d, r
<1>6. CASE r # 0
  <2>1. c # n * d
    <3>1. SUFFICES ASSUME c = d * n PROVE FALSE
      BY <1>4
    <3>2. (d * n) % d = 0
      BY <1>1
    <3> QED
      BY <1>6, <3>1, <3>2 DEF r
  <2>2. c + 1 <= n * d
    BY <1>3, <1>4, <2>1
  <2>3. (n - 1) * d < c + 1
    BY <1>3, <1>4
  <2>4. n + 0 = n
    OBVIOUS
  <2> QED
    BY <1>6, <2>2, <2>3, <2>4 DEF Hold, d, r
<1> QED
  BY <1>5, <1>6

\* A request without blocks has computed nothing.
LEMMA NoBlocks ==
  ASSUME NEW c \in Nat, Hold(0, c)
  PROVE  c = 0
<1>1. 0 * BlockSize = 0
  BY Bounds
<1> QED
  BY <1>1 DEF Hold

-----------------------------------------------------------------------------
(* A step of the runner                                                     *)

\* What the scheduler hands to a step: a batch q without repetitions, with blocks that
\* are the requests' own and hold what will have been computed; only requests without
\* computed tokens have several tokens scheduled.
StepOK(q, blocks, from, num) ==
    /\ q \in Seq(Requests) /\ IsInjective(q) /\ Len(q) \in 1..Rows
    /\ blocks \in [Requests -> Seq(Blocks)] /\ Distinct(blocks)
    /\ \A r \in Requests : r \notin ToSet(q) => blocks[r] = owned[r]
    /\ \A r \in ToSet(q) :
          /\ from[r] = computed[r]
          /\ Len(owned[r]) <= Len(blocks[r])
          /\ \A i \in 1..Len(owned[r]) : blocks[r][i] = owned[r][i]
          /\ num[r] \in Nat \ {0} /\ from[r] + num[r] <= MaxLen
          /\ Hold(Len(blocks[r]), from[r] + num[r])
    /\ (\A r \in ToSet(q) : num[r] = 1) \/ (\A r \in ToSet(q) : from[r] = 0)

\* Whether a row after the batch is that of another request.
Exposes(q, table) == Len(q) > 1 /\ \E u \in Len(q) + 1..Rows : table[u] # NullRow

Padded(q, num) == PaddedLen(Max({num[r] : r \in ToSet(q)}))

\* The padded length is at least every request's number of tokens, and 1 only for decoding.
LEMMA PaddedFacts ==
  ASSUME TypeOK, NEW q, NEW blocks, NEW from, NEW num, StepOK(q, blocks, from, num)
  PROVE  /\ Padded(q, num) \in Nat \ {0}
         /\ \A r \in ToSet(q) : num[r] <= Padded(q, num)
         /\ Padded(q, num) # 1 => \A r \in ToSet(q) : from[r] = 0
<1> DEFINE T == {num[r] : r \in ToSet(q)}
           m == Max(T)
           P == {p \in Paddings : p >= m}
<1>1. \A r \in ToSet(q) : num[r] \in Nat \ {0} /\ num[r] <= MaxLen
  <2>1. SUFFICES ASSUME NEW r \in ToSet(q) PROVE num[r] \in Nat \ {0} /\ num[r] <= MaxLen
    OBVIOUS
  <2>2. r \in Requests
    BY ToSetFacts DEF StepOK
  <2>3. from[r] = computed[r] /\ num[r] \in Nat \ {0} /\ from[r] + num[r] <= MaxLen
    BY DEF StepOK
  <2>4. computed[r] \in 0..MaxLen /\ MaxLen \in Nat
    BY <2>2, Bounds DEF TypeOK
  <2> QED
    BY <2>3, <2>4
<1>2. T # {}
  <2>1. q \in Seq(Requests) /\ 1 \in 1..Len(q)
    BY DEF StepOK
  <2>2. q[1] \in ToSet(q)
    BY <2>1, ToSetDef
  <2> QED
    BY <2>2
<1>3. T \in SUBSET Int /\ \A x \in T : x <= MaxLen /\ x \in Nat \ {0}
  BY <1>1
<1>4. MaxLen \in Int /\ MaxLen \in Paddings /\ Paddings \in SUBSET Nat
  BY Bounds
<1>5. m \in T /\ \A y \in T : y <= m
  BY <1>2, <1>3, <1>4, MaxFacts
<1>6. m \in Nat \ {0} /\ m <= MaxLen /\ \A r \in ToSet(q) : num[r] <= m
  BY <1>3, <1>5
<1>7. Padded(q, num) = Min(P)
  BY DEF Padded, PaddedLen
<1> HIDE DEF m
<1>8. MaxLen \in P /\ P \in SUBSET Nat
  BY <1>4, <1>6
<1>9. Min(P) \in P /\ \A y \in P : Min(P) <= y
  BY <1>8, MinFacts
<1>10. Min(P) \in Nat /\ Min(P) >= m
  BY <1>8, <1>9
<1>11. ASSUME Min(P) # 1 PROVE \A r \in ToSet(q) : from[r] = 0
  <2>1. 1 \in Paddings
    BY CacheAssumption
  <2>2. m # 1
    <3>1. SUFFICES ASSUME m = 1 PROVE FALSE
      OBVIOUS
    <3>2. 1 \in P
      BY <2>1, <3>1
    <3> QED
      BY <1>9, <1>10, <1>11, <3>1, <3>2
  <2>3. ~(\A r \in ToSet(q) : num[r] = 1)
    <3>1. \E r \in ToSet(q) : num[r] = m
      BY <1>5 DEF m
    <3> QED
      BY <2>2, <3>1
  <2> QED
    BY <2>3 DEF StepOK
<1>12. \A r \in ToSet(q) : num[r] <= Min(P)
  BY <1>1, <1>6, <1>10
<1> HIDE DEF P
<1> QED
  BY <1>6, <1>7, <1>10, <1>11, <1>12

\* The row of a request names its blocks and nothing else.
LEMMA TableFacts ==
  ASSUME TypeOK, NEW q, NEW blocks, NEW from, NEW num, StepOK(q, blocks, from, num)
  PROVE  LET table == PageTable(q, blocks)
         IN  /\ table \in [1..Rows -> [1..MaxBlocks -> Blocks \cup {NullBlock}]]
             /\ \A u \in 1..Len(q) :
                   /\ u \in 1..Rows /\ q[u] \in Requests /\ q[u] \in ToSet(q)
                   /\ Len(blocks[q[u]]) \in 0..MaxBlocks
                   /\ \A c \in 1..MaxBlocks :
                         table[u][c] = IF c <= Len(blocks[q[u]]) THEN blocks[q[u]][c]
                                       ELSE NullBlock
             /\ ~Exposes(q, table) => \A u \in 1..Rows : u > Len(q) => table[u] = NullRow
<1> DEFINE table == PageTable(q, blocks)
<1>1. /\ q \in Seq(Requests) /\ Len(q) \in 1..Rows /\ Rows \in Nat /\ MaxBlocks \in Nat
      /\ blocks \in [Requests -> Seq(Blocks)]
  BY Bounds DEF StepOK
<1>2. ASSUME NEW u \in 1..Len(q)
      PROVE  /\ u \in 1..Rows /\ q[u] \in Requests /\ q[u] \in ToSet(q)
             /\ Len(blocks[q[u]]) \in 0..MaxBlocks
  <2>1. u \in 1..Rows /\ q[u] \in Requests
    BY <1>1
  <2>2. q[u] \in ToSet(q)
    BY <1>1, ToSetDef
  <2>3. blocks[q[u]] \in Seq(Blocks)
    BY <1>1, <2>1
  <2>4. Len(blocks[q[u]]) \in Nat
    BY <2>3
  <2>5. /\ from[q[u]] = computed[q[u]] /\ from[q[u]] + num[q[u]] <= MaxLen
        /\ num[q[u]] \in Nat /\ Hold(Len(blocks[q[u]]), from[q[u]] + num[q[u]])
    BY <2>2 DEF StepOK
  <2>6. computed[q[u]] \in Nat
    BY <2>1, Bounds DEF TypeOK
  <2>7. from[q[u]] + num[q[u]] \in Nat
    BY <2>5, <2>6
  <2>8. Len(blocks[q[u]]) <= MaxBlocks
    BY <2>4, <2>5, <2>7, FewBlocks
  <2> QED
    BY <1>1, <2>1, <2>2, <2>4, <2>8
<1>3. ASSUME NEW u \in 1..Len(q), NEW c \in 1..MaxBlocks
      PROVE  table[u][c] = IF c <= Len(blocks[q[u]]) THEN blocks[q[u]][c] ELSE NullBlock
  <2>1. u \in 1..Rows /\ u <= Len(q)
    BY <1>1
  <2> QED
    BY <2>1 DEF PageTable
<1>4. NullRow \in [1..MaxBlocks -> Blocks \cup {NullBlock}]
  BY DEF NullRow
<1>5. table \in [1..Rows -> [1..MaxBlocks -> Blocks \cup {NullBlock}]]
  <2>1. SUFFICES ASSUME NEW u \in 1..Rows
                 PROVE  table[u] \in [1..MaxBlocks -> Blocks \cup {NullBlock}]
    BY DEF PageTable
  <2>2. CASE u <= Len(q)
    <3>1. u \in 1..Len(q)
      BY <1>1, <2>2
    <3>2. blocks[q[u]] \in Seq(Blocks)
      BY <1>1, <1>2, <3>1
    <3>3. ASSUME NEW c \in 1..MaxBlocks
          PROVE  (IF c <= Len(blocks[q[u]]) THEN blocks[q[u]][c] ELSE NullBlock)
                     \in Blocks \cup {NullBlock}
      BY <3>2
    <3>4. table[u] = [c \in 1..MaxBlocks |-> IF c <= Len(blocks[q[u]])
                                             THEN blocks[q[u]][c] ELSE NullBlock]
      BY <2>2 DEF PageTable
    <3> QED
      BY <3>3, <3>4
  <2>3. CASE ~(u <= Len(q))
    <3>1. table[u] = NullRow \/ table[u] = pageTable[u]
      BY <2>3 DEF PageTable
    <3> QED
      BY <1>4, <3>1 DEF TypeOK
  <2> QED
    BY <2>2, <2>3
<1>6. ASSUME ~Exposes(q, table), NEW u \in 1..Rows, u > Len(q) PROVE table[u] = NullRow
  <2>1. ~(u <= Len(q)) /\ u \in Len(q) + 1..Rows
    BY <1>1, <1>6
  <2>2. CASE Len(q) = 1
    BY <2>1, <2>2 DEF PageTable
  <2>3. CASE Len(q) > 1
    BY <1>6, <2>1, <2>3 DEF Exposes
  <2>4. \A n \in 1..Rows : n = 1 \/ n > 1
    BY <1>1
  <2> QED
    BY <1>1, <2>2, <2>3, <2>4
<1> HIDE DEF table
<1>7. /\ table \in [1..Rows -> [1..MaxBlocks -> Blocks \cup {NullBlock}]]
      /\ \A u \in 1..Len(q) :
            /\ u \in 1..Rows /\ q[u] \in Requests /\ q[u] \in ToSet(q)
            /\ Len(blocks[q[u]]) \in 0..MaxBlocks
            /\ \A c \in 1..MaxBlocks :
                  table[u][c] = IF c <= Len(blocks[q[u]]) THEN blocks[q[u]][c]
                                ELSE NullBlock
      /\ ~Exposes(q, table) => \A u \in 1..Rows : u > Len(q) => table[u] = NullRow
  BY <1>2, <1>3, <1>5, <1>6, Zenon
<1> QED
  BY <1>7, Zenon DEF table

\* A block of a request is named by that request's row only, in one column, unless rows of
\* others are exposed.
LEMMA NamedOnce ==
  ASSUME TypeOK, NEW q, NEW blocks, NEW from, NEW num, StepOK(q, blocks, from, num),
         ~Exposes(q, PageTable(q, blocks)),
         NEW r \in Requests, NEW i \in 1..Len(blocks[r]),
         NEW u \in 1..Rows, NEW c \in 1..MaxBlocks,
         PageTable(q, blocks)[u][c] = blocks[r][i]
  PROVE  u \in 1..Len(q) /\ q[u] = r /\ c = i
<1> DEFINE table == PageTable(q, blocks)
<1>1. /\ \A v \in 1..Len(q) :
            /\ q[v] \in Requests /\ Len(blocks[q[v]]) \in 0..MaxBlocks
            /\ \A d \in 1..MaxBlocks :
                  table[v][d] = IF d <= Len(blocks[q[v]]) THEN blocks[q[v]][d] ELSE NullBlock
      /\ \A v \in 1..Rows : v > Len(q) => table[v] = NullRow
  BY TableFacts
<1>2. table[u][c] = blocks[r][i]
  OBVIOUS
<1> HIDE DEF table
<1>3. blocks[r] \in Seq(Blocks) /\ Len(q) \in Nat /\ MaxBlocks \in Nat /\ Rows \in Nat
      /\ Distinct(blocks)
  BY Bounds DEF StepOK
<1>4. blocks[r][i] \in Blocks /\ NullBlock \notin Blocks
  BY <1>3, CacheAssumption
<1>5. u <= Len(q)
  <2>1. SUFFICES ASSUME u > Len(q) PROVE FALSE
    BY <1>3
  <2>2. table[u] = NullRow
    BY <1>1, <2>1
  <2>3. table[u][c] = NullBlock
    BY <2>2 DEF NullRow
  <2> QED
    BY <1>2, <1>4, <2>3
<1>6. u \in 1..Len(q)
  BY <1>3, <1>5
<1>7. c <= Len(blocks[q[u]]) /\ blocks[q[u]][c] = blocks[r][i]
  BY <1>1, <1>2, <1>4, <1>6
<1>8. c \in 1..Len(blocks[q[u]]) /\ q[u] \in Requests
  BY <1>1, <1>3, <1>6, <1>7
<1> QED
  BY <1>3, <1>6, <1>7, <1>8 DEF Distinct

\* The sequence lengths and the cache positions stay within the page table.
LEMMA PositionFacts ==
  ASSUME TypeOK, NEW q, NEW blocks, NEW from, NEW num, StepOK(q, blocks, from, num)
  PROVE  LET lens == SeqLens(q, from, num)
             pos == CachePosition(q, lens)
         IN  /\ lens \in [1..Rows -> 0..MaxLen]
             /\ \A u \in 1..Rows :
                   (IF pos[u] < 0 THEN MaxBlocks ELSE pos[u] \div BlockSize + 1) \in 1..MaxBlocks
             /\ \A u \in 1..Len(q) :
                   pos[u] = from[q[u]] + num[q[u]] - 1 /\ pos[u] \in Nat
<1> DEFINE lens == SeqLens(q, from, num)
           pos == CachePosition(q, lens)
<1>1. /\ q \in Seq(Requests) /\ Len(q) \in 1..Rows /\ Rows \in Nat /\ MaxBlocks \in Nat \ {0}
      /\ BlockSize \in Nat \ {0} /\ MaxLen \in Nat /\ MaxLen <= MaxBlocks * BlockSize
      /\ MaxBlocks * BlockSize \in Nat
  BY Bounds DEF StepOK
<1>2. ASSUME NEW u \in 1..Len(q)
      PROVE  /\ u \in 1..Rows /\ from[q[u]] + num[q[u]] \in 1..MaxLen
             /\ lens[u] = from[q[u]] + num[q[u]]
  <2>1. u \in 1..Rows /\ u <= Len(q) /\ q[u] \in Requests /\ q[u] \in ToSet(q)
    BY <1>1, ToSetDef
  <2>2. /\ from[q[u]] = computed[q[u]] /\ num[q[u]] \in Nat \ {0}
        /\ from[q[u]] + num[q[u]] <= MaxLen
    BY <2>1 DEF StepOK
  <2>3. computed[q[u]] \in Nat
    BY <1>1, <2>1 DEF TypeOK
  <2>4. lens[u] = from[q[u]] + num[q[u]]
    BY <2>1 DEF SeqLens
  <2> QED
    BY <1>1, <2>1, <2>2, <2>3, <2>4
<1>3. ASSUME NEW u \in 1..Rows PROVE lens[u] \in 0..MaxLen
  <2>1. CASE u <= Len(q)
    <3>1. u \in 1..Len(q)
      BY <1>1, <2>1
    <3> QED
      BY <1>1, <1>2, <3>1
  <2>2. CASE ~(u <= Len(q))
    <3>1. lens[u] = seqLens[u]
      BY <2>2 DEF SeqLens
    <3> QED
      BY <3>1 DEF TypeOK
  <2> QED
    BY <2>1, <2>2
<1>4. lens \in [1..Rows -> 0..MaxLen]
  BY <1>3 DEF SeqLens
<1>5. \A u \in 1..Rows : pos[u] = -1 \/ pos[u] = lens[u] - 1
  BY DEF CachePosition
<1>6. ASSUME NEW u \in 1..Rows
      PROVE  (IF pos[u] < 0 THEN MaxBlocks ELSE pos[u] \div BlockSize + 1) \in 1..MaxBlocks
  <2> DEFINE p == pos[u]
  <2>1. p \in Int /\ p < MaxBlocks * BlockSize
    <3> DEFINE l == lens[u]
    <3>1. l \in 0..MaxLen /\ (p = -1 \/ p = l - 1)
      BY <1>3, <1>5
    <3> HIDE DEF l, p
    <3> QED
      BY <1>1, <3>1
  <2> HIDE DEF p
  <2>2. CASE p < 0
    BY <1>1, <2>2 DEF p
  <2>3. CASE ~(p < 0)
    <3>1. p \in Nat
      BY <2>1, <2>3
    <3>2. p \div BlockSize + 1 \in 1..MaxBlocks
      BY <1>1, <2>1, <3>1, InBlock
    <3> QED
      BY <2>3, <3>2 DEF p
  <2> QED
    BY <2>2, <2>3
<1>7. ASSUME NEW u \in 1..Len(q)
      PROVE  pos[u] = from[q[u]] + num[q[u]] - 1 /\ pos[u] \in Nat
  <2>1. u \in 1..Rows /\ lens[u] = from[q[u]] + num[q[u]] /\ lens[u] \in 1..MaxLen
    BY <1>2
  <2>2. ~(Len(q) = 1 /\ u > 1)
    <3>1. \A n \in Nat : \A v \in 1..n : ~(n = 1 /\ v > 1)
      OBVIOUS
    <3> QED
      BY <1>1, <3>1
  <2>3. pos[u] = lens[u] - 1
    BY <2>1, <2>2 DEF CachePosition
  <2> DEFINE l == lens[u]
  <2>4. l \in 1..MaxLen /\ MaxLen \in Nat
    BY <1>1, <2>1
  <2>5. l - 1 \in Nat
    <3> HIDE DEF l
    <3> QED
      BY <2>4
  <2>6. pos[u] \in Nat
    BY <2>3, <2>5
  <2>7. pos[u] = from[q[u]] + num[q[u]] - 1
    <3>1. q[u] \in Requests /\ q[u] \in ToSet(q)
      BY <1>1, ToSetDef
    <3>2. from[q[u]] = computed[q[u]] /\ num[q[u]] \in Int
      BY <3>1 DEF StepOK
    <3>3. from[q[u]] \in Int
      BY <1>1, <3>1, <3>2 DEF TypeOK
    <3> HIDE DEF lens, pos
    <3> QED
      BY <2>1, <2>3, <3>2, <3>3
  <2> QED
    BY <2>6, <2>7
<1> HIDE DEF lens, pos
<1>8. /\ lens \in [1..Rows -> 0..MaxLen]
      /\ \A u \in 1..Rows :
            (IF pos[u] < 0 THEN MaxBlocks ELSE pos[u] \div BlockSize + 1) \in 1..MaxBlocks
      /\ \A u \in 1..Len(q) : pos[u] = from[q[u]] + num[q[u]] - 1 /\ pos[u] \in Nat
  BY <1>4, <1>6, <1>7, Zenon
<1> QED
  BY <1>8, Zenon DEF lens, pos

\* The largest and the smallest of one.
LEMMA OneElement ==
  ASSUME NEW x \in Nat
  PROVE  Max({x}) = x /\ Min({x}) = x
<1>1. Min({x}) = x
  BY MinFacts
<1>2. Max({x}) = x
  <2>1. {x} \in SUBSET Int /\ {x} # {} /\ x \in Int /\ \A y \in {x} : y <= x
    OBVIOUS
  <2> QED
    BY <2>1, MaxFacts
<1> QED
  BY <1>1, <1>2

\* The cache after a decoding step.
Decoded(q, blocks, from, num, lastWins) ==
    PagedUpdateCache(cache, [u \in 1..Rows |-> Key(q, from, num, u, 0)],
        CachePosition(q, SeqLens(q, from, num)), PageTable(q, blocks), lastWins)

\* Decoding writes one key per request of the batch, and over no key of a request.
LEMMA DecodeWrites ==
  ASSUME TypeOK, NEW q, NEW blocks, NEW from, NEW num, StepOK(q, blocks, from, num),
         ~Exposes(q, PageTable(q, blocks)), \A x \in ToSet(q) : num[x] = 1,
         NEW lastWins \in BOOLEAN,
         NEW r \in Requests, NEW p \in Nat, p < Len(blocks[r]) * BlockSize
  PROVE  LET b == blocks[r][p \div BlockSize + 1]
             s == p % BlockSize
         IN  Decoded(q, blocks, from, num, lastWins)[b][s]
                 = IF r \in ToSet(q) /\ p = from[r] THEN <<r, p>> ELSE cache[b][s]
<1> DEFINE table == PageTable(q, blocks)
           pos == CachePosition(q, SeqLens(q, from, num))
           keys == [u \in 1..Rows |-> Key(q, from, num, u, 0)]
           i == p \div BlockSize + 1
           b == blocks[r][i]
           s == p % BlockSize
           col(u) == IF pos[u] < 0 THEN MaxBlocks ELSE pos[u] \div BlockSize + 1
           W == {u \in 1..Rows : table[u][col(u)] = b /\ pos[u] % BlockSize = s}
           new == Decoded(q, blocks, from, num, lastWins)
<1>1. /\ q \in Seq(Requests) /\ IsInjective(q) /\ Len(q) \in 1..Rows /\ Rows \in Nat
      /\ BlockSize \in Nat \ {0}
      /\ blocks[r] \in Seq(Blocks) /\ Len(blocks[r]) \in Nat
  BY Bounds DEF StepOK
<1>2. /\ i \in 1..Len(blocks[r]) /\ s \in 0..BlockSize - 1
      /\ p = (p \div BlockSize) * BlockSize + s
  BY <1>1, InBlock
<1>3. b \in DOMAIN cache
  <2>1. b \in Blocks
    BY <1>1, <1>2
  <2> QED
    BY <2>1 DEF TypeOK
<1>4. new[b][s] = IF W = {} THEN cache[b][s] ELSE keys[IF lastWins THEN Max(W) ELSE Min(W)]
  BY <1>2, <1>3, Zenon DEF Decoded, PagedUpdateCache, BlockOf, Offset
<1>5. /\ \A u \in 1..Rows : col(u) \in 1..MaxBlocks
      /\ \A u \in 1..Len(q) : pos[u] = from[q[u]] + num[q[u]] - 1 /\ pos[u] \in Nat
  BY PositionFacts
<1>6. \A u \in 1..Len(q) : q[u] \in ToSet(q) /\ u \in 1..Rows /\ u \in Nat
  BY <1>1, ToSetDef
<1>7. \A u \in 1..Len(q) : pos[u] = from[q[u]]
  <2>1. SUFFICES ASSUME NEW u \in 1..Len(q) PROVE pos[u] = from[q[u]]
    OBVIOUS
  <2>2. num[q[u]] = 1 /\ q[u] \in Requests /\ from[q[u]] = computed[q[u]]
    BY <1>1, <1>6 DEF StepOK
  <2>3. computed[q[u]] \in Int
    BY <2>2, Bounds DEF TypeOK
  <2> HIDE DEF pos
  <2> QED
    BY <1>5, <2>2, <2>3
<1>8. ASSUME NEW u \in W PROVE u \in 1..Len(q) /\ q[u] = r /\ from[r] = p
  <2>1. u \in 1..Rows /\ table[u][col(u)] = blocks[r][i] /\ pos[u] % BlockSize = s
    OBVIOUS
  <2>2. u \in 1..Len(q) /\ q[u] = r /\ col(u) = i
    <3> DEFINE c == col(u)
    <3>1. c \in 1..MaxBlocks /\ PageTable(q, blocks)[u][c] = blocks[r][i]
      BY <1>5, <2>1
    <3> HIDE DEF c, i
    <3>2. u \in 1..Len(q) /\ q[u] = r /\ c = i
      BY <1>2, <2>1, <3>1, NamedOnce
    <3> QED
      BY <3>2 DEF c
  <2> DEFINE f == pos[u]
  <2>3. f \in Nat /\ f = from[r]
    BY <1>5, <1>7, <2>2
  <2>4. f \div BlockSize + 1 = p \div BlockSize + 1 /\ f % BlockSize = s
    <3>1. ~(f < 0)
      BY <2>3
    <3> QED
      BY <2>1, <2>2, <3>1
  <2>5. f = BlockSize * (f \div BlockSize) + (f % BlockSize)
    BY <1>1, <2>3, DivMod
  <2>6. p = BlockSize * (p \div BlockSize) + (p % BlockSize)
    BY <1>1, DivMod
  <2>7. f \div BlockSize \in Int /\ p \div BlockSize \in Int
    BY <1>1, <2>3
  <2>8. f \div BlockSize = p \div BlockSize
    BY <2>4, <2>7
  <2>9. f = p
    BY <2>4, <2>5, <2>6, <2>8
  <2> QED
    BY <2>2, <2>3, <2>9
<1>9. CASE ~(r \in ToSet(q) /\ p = from[r])
  <2>1. W = {}
    BY <1>6, <1>8, <1>9
  <2> QED
    BY <1>4, <1>9, <2>1
<1>10. CASE r \in ToSet(q) /\ p = from[r]
  <2>1. PICK u \in 1..Len(q) : q[u] = r
    BY <1>1, <1>10, ToSetDef
  <2>2. u \in W
    <3>1. pos[u] = p /\ ~(p < 0) /\ u \in 1..Rows
      BY <1>6, <1>7, <1>10, <2>1
    <3>2. col(u) = i
      BY <3>1
    <3>3. i <= Len(blocks[q[u]]) /\ i \in 1..MaxBlocks
      BY <1>2, <1>5, <2>1, <3>1, <3>2
    <3>4. table[u][i] = IF i <= Len(blocks[q[u]]) THEN blocks[q[u]][i] ELSE NullBlock
      BY <2>1, <3>3, TableFacts
    <3>5. table[u][i] = b
      BY <2>1, <3>3, <3>4
    <3> HIDE DEF table, pos, i, b
    <3> QED
      BY <3>1, <3>2, <3>5
  <2>3. ASSUME NEW v \in W PROVE v = u
    <3>1. v \in 1..Len(q) /\ q[v] = q[u]
      BY <1>8, <2>1
    <3> QED
      BY <1>1, <2>1, <3>1, InjectiveDef
  <2> HIDE DEF W
  <2>4. W = {u}
    BY <2>2, <2>3
  <2>5. Max(W) = u /\ Min(W) = u /\ W # {}
    BY <1>6, <2>1, <2>4, OneElement
  <2>6. new[b][s] = keys[u]
    BY <1>4, <2>5
  <2>7. u <= Len(q) /\ 0 < num[q[u]] /\ u \in 1..Rows
    BY <1>1, <1>6, <2>1
  <2>8. keys[u] = <<q[u], from[q[u]] + 0>>
    BY <2>7 DEF Key
  <2>9. from[q[u]] + 0 = p
    BY <1>10, <2>1
  <2> QED
    BY <1>10, <2>1, <2>6, <2>8, <2>9
<1> QED
  BY <1>9, <1>10

\* The cache after a prefill.
Filled(q, blocks, from, num, padded) ==
    PagedFillCache(cache, [u \in 1..Rows |-> [k \in 0..padded - 1 |->
                              Key(q, from, num, u, k)]], PageTable(q, blocks))

\* A prefill writes the keys of the requests of the batch, and over no key of another.
LEMMA PrefillWrites ==
  ASSUME TypeOK, NEW q, NEW blocks, NEW from, NEW num, StepOK(q, blocks, from, num),
         ~Exposes(q, PageTable(q, blocks)), \A x \in ToSet(q) : from[x] = 0,
         NEW padded \in Nat, \A x \in ToSet(q) : num[x] <= padded,
         NEW r \in Requests, NEW p \in Nat, p < Len(blocks[r]) * BlockSize,
         r \in ToSet(q) => p < num[r]
  PROVE  LET b == blocks[r][p \div BlockSize + 1]
             s == p % BlockSize
         IN  Filled(q, blocks, from, num, padded)[b][s]
                 = IF r \in ToSet(q) THEN <<r, p>> ELSE cache[b][s]
<1> DEFINE table == PageTable(q, blocks)
           keys == [u \in 1..Rows |-> [k \in 0..padded - 1 |-> Key(q, from, num, u, k)]]
           i == p \div BlockSize + 1
           b == blocks[r][i]
           s == p % BlockSize
           C(u) == {c \in 1..MaxBlocks : table[u][c] = b
                                         /\ (c - 1) * BlockSize + s \in DOMAIN keys[u]}
           F == {u \in 1..Rows : C(u) # {}}
           new == Filled(q, blocks, from, num, padded)
<1>1. /\ q \in Seq(Requests) /\ IsInjective(q) /\ Len(q) \in 1..Rows /\ Rows \in Nat
      /\ BlockSize \in Nat \ {0} /\ MaxBlocks \in Nat
      /\ blocks[r] \in Seq(Blocks) /\ Len(blocks[r]) \in Nat
  BY Bounds DEF StepOK
<1>2. /\ i \in 1..Len(blocks[r]) /\ s \in 0..BlockSize - 1
      /\ p = (p \div BlockSize) * BlockSize + s
  BY <1>1, InBlock
<1>3. b \in DOMAIN cache
  <2>1. b \in Blocks
    BY <1>1, <1>2
  <2> QED
    BY <2>1 DEF TypeOK
<1>4. new[b][s] = IF F = {} THEN cache[b][s]
                  ELSE keys[Max(F)][(Max(C(Max(F))) - 1) * BlockSize + s]
  BY <1>2, <1>3, Zenon DEF Filled, PagedFillCache
<1>5. ASSUME NEW u \in 1..Rows, NEW c \in C(u) PROVE u \in 1..Len(q) /\ q[u] = r /\ c = i
  <2>1. c \in 1..MaxBlocks /\ PageTable(q, blocks)[u][c] = blocks[r][i]
    BY <1>5
  <2> HIDE DEF i
  <2> QED
    BY <1>2, <2>1, NamedOnce
<1>6. CASE r \notin ToSet(q)
  <2>1. F = {}
    <3>1. ASSUME NEW u \in F PROVE FALSE
      <4>1. PICK c \in C(u) : u \in 1..Rows
        BY <3>1
      <4>2. u \in 1..Len(q) /\ q[u] = r
        BY <1>5, <4>1
      <4> QED
        BY <1>1, <1>6, <4>2, ToSetDef
    <3> HIDE DEF F
    <3> QED
      BY <3>1
  <2> QED
    BY <1>4, <1>6, <2>1
<1>7. CASE r \in ToSet(q)
  <2>1. PICK u \in 1..Len(q) : q[u] = r
    BY <1>1, <1>7, ToSetDef
  <2>2. u \in 1..Rows /\ u \in Nat
    BY <1>1
  <2>3. (i - 1) * BlockSize + s = p
    <3> DEFINE k == p \div BlockSize
    <3>1. k \in Int /\ i = k + 1 /\ p = k * BlockSize + s
      BY <1>1, <1>2
    <3> HIDE DEF i, k, s
    <3>2. i - 1 = k
      BY <3>1
    <3> QED
      BY <3>1, <3>2
  <2>4. num[r] \in Nat /\ p < num[r] /\ num[r] <= padded
    BY <1>7 DEF StepOK
  <2>5. p \in 0..padded - 1
    BY <2>4
  <2>6. DOMAIN keys[u] = 0..padded - 1
    BY <2>2
  <2>7. i \in C(u)
    <3>1. i <= Len(blocks[q[u]]) /\ i \in 1..MaxBlocks
      <4>1. Len(blocks[q[u]]) \in 0..MaxBlocks
        BY TableFacts
      <4> HIDE DEF i
      <4> QED
        BY <1>1, <1>2, <2>1, <4>1
    <3>2. table[u][i] = IF i <= Len(blocks[q[u]]) THEN blocks[q[u]][i] ELSE NullBlock
      BY <2>1, <3>1, TableFacts
    <3>3. table[u][i] = b
      BY <2>1, <3>1, <3>2
    <3> HIDE DEF table, i, b, keys
    <3> QED
      BY <2>3, <2>5, <2>6, <3>1, <3>3
  <2>8. C(u) = {i}
    <3>1. \A c \in C(u) : c = i
      BY <1>5, <2>2
    <3> HIDE DEF C, i
    <3> QED
      BY <2>7, <3>1
  <2>9. F = {u}
    <3>1. u \in F
      BY <2>2, <2>8
    <3>2. ASSUME NEW v \in F PROVE v = u
      <4>1. PICK c \in C(v) : v \in 1..Rows
        BY <3>2
      <4>2. v \in 1..Len(q) /\ q[v] = r
        BY <1>5, <4>1
      <4>3. \A i1, i2 \in 1..Len(q) : q[i1] = q[i2] => i1 = i2
        BY <1>1, InjectiveDef
      <4> QED
        BY <2>1, <4>2, <4>3
    <3> HIDE DEF F
    <3> QED
      BY <3>1, <3>2
  <2> HIDE DEF C, F
  <2>10. Max(F) = u
    BY <2>2, <2>9, OneElement
  <2>11. Max(C(u)) = i
    <3>1. i \in Nat
      BY <1>2
    <3> HIDE DEF i
    <3> QED
      BY <2>8, <3>1, OneElement
  <2>12. new[b][s] = keys[u][p]
    <3>1. F # {}
      BY <2>9
    <3>2. new[b][s] = keys[Max(F)][(Max(C(Max(F))) - 1) * BlockSize + s]
      BY <1>4, <3>1, Zenon
    <3> HIDE DEF new, keys, i, b, s
    <3> QED
      BY <2>3, <2>10, <2>11, <3>2
  <2>13. keys[u][p] = Key(q, from, num, u, p)
    BY <2>2, <2>5
  <2>14. u <= Len(q) /\ p < num[q[u]] /\ from[q[u]] = 0
    BY <1>1, <1>7, <2>1, <2>4
  <2>15. Key(q, from, num, u, p) = <<r, from[r] + p>>
    BY <2>1, <2>14 DEF Key
  <2>16. from[r] + p = p
    BY <2>1, <2>14
  <2> QED
    BY <1>7, <2>12, <2>13, <2>15, <2>16
<1> QED
  BY <1>6, <1>7

\* What KeysIntact says of one key.
LEMMA OldKey ==
  ASSUME TypeOK, Held, KeysIntact, ~exposed, NEW r \in Requests, NEW p \in Nat, p < computed[r]
  PROVE  /\ p \div BlockSize + 1 \in 1..Len(owned[r])
         /\ cache[owned[r][p \div BlockSize + 1]][p % BlockSize] = <<r, p>>
<1> DEFINE n == Len(owned[r])
           c == computed[r]
<1>1. n \in Nat /\ c \in 0..MaxLen /\ owned[r] \in Seq(Blocks) /\ BlockSize \in Nat \ {0}
  BY Bounds DEF TypeOK
<1>2. c \in Nat /\ p < c
  BY <1>1, Bounds
<1>3. c <= n * BlockSize
  BY DEF Held, Hold
<1> HIDE DEF n, c
<1>4. n * BlockSize \in Int
  BY <1>1
<1>5. p < n * BlockSize
  BY <1>2, <1>3, <1>4
<1>6. p \div BlockSize + 1 \in 1..n
  BY <1>1, <1>5, InBlock
<1>7. n # 0
  BY <1>1, <1>6
<1>8. r \in Running
  <2>1. owned[r] # <<>>
    BY <1>1, <1>7, EmptySeq DEF n
  <2> QED
    BY <2>1 DEF Running
<1>9. p \in 0..c - 1
  BY <1>2
<1> QED
  BY <1>6, <1>8, <1>9 DEF KeysIntact, n, c

\* How many tokens of a request are computed after a step.
After(q, from, num, r) == IF r \in ToSet(q) THEN from[r] + num[r] ELSE computed[r]

\* The blocks of every request hold what will have been computed.
LEMMA AfterFacts ==
  ASSUME TypeOK, Held, NEW q, NEW blocks, NEW from, NEW num, StepOK(q, blocks, from, num),
         NEW r \in Requests
  PROVE  /\ After(q, from, num, r) \in 0..MaxLen
         /\ Hold(Len(blocks[r]), After(q, from, num, r))
<1>1. CASE r \in ToSet(q)
  <2>1. /\ from[r] = computed[r] /\ num[r] \in Nat \ {0} /\ from[r] + num[r] <= MaxLen
        /\ Hold(Len(blocks[r]), from[r] + num[r])
    BY <1>1 DEF StepOK
  <2>2. computed[r] \in Nat /\ MaxLen \in Nat
    BY Bounds DEF TypeOK
  <2> QED
    BY <1>1, <2>1, <2>2 DEF After
<1>2. CASE r \notin ToSet(q)
  <2>1. blocks[r] = owned[r]
    BY <1>2 DEF StepOK
  <2> QED
    BY <1>2, <2>1 DEF After, TypeOK, Held
<1> QED
  BY <1>1, <1>2

\* The cache after a step.
Stepped(q, blocks, from, num, lastWins) ==
    HandlePagedAttention(q, from, num, PageTable(q, blocks),
        CachePosition(q, SeqLens(q, from, num)), Padded(q, num), lastWins)

\* Key p of request r is where it will be looked for.
Found(new, blocks, r, p) ==
    /\ p \div BlockSize + 1 \in 1..Len(blocks[r])
    /\ new[blocks[r][p \div BlockSize + 1]][p % BlockSize] = <<r, p>>

\* After a step all keys of all requests are where they will be looked for.
LEMMA NewKey ==
  ASSUME TypeOK, Held, KeysIntact, ~exposed,
         NEW q, NEW blocks, NEW from, NEW num, StepOK(q, blocks, from, num),
         ~Exposes(q, PageTable(q, blocks)), NEW lastWins \in BOOLEAN,
         NEW r \in Requests, NEW p \in Nat, p < After(q, from, num, r)
  PROVE  Found(Stepped(q, blocks, from, num, lastWins), blocks, r, p)
<1> DEFINE padded == Padded(q, num)
           new == Stepped(q, blocks, from, num, lastWins)
           i == p \div BlockSize + 1
           s == p % BlockSize
<1>1. /\ padded \in Nat \ {0}
      /\ \A x \in ToSet(q) : num[x] <= padded
      /\ padded # 1 => \A x \in ToSet(q) : from[x] = 0
  BY PaddedFacts
<1>2. p < Len(blocks[r]) * BlockSize /\ Len(blocks[r]) \in Nat
  <2> DEFINE n == Len(blocks[r])
             c == After(q, from, num, r)
  <2>1. n \in Nat /\ BlockSize \in Nat
    BY Bounds DEF StepOK
  <2>2. c \in 0..MaxLen /\ MaxLen \in Nat /\ c <= n * BlockSize
    BY AfterFacts, Bounds DEF Hold
  <2>3. p < c
    OBVIOUS
  <2> HIDE DEF n, c
  <2>4. n * BlockSize \in Int
    BY <2>1
  <2>5. p < n * BlockSize
    BY <2>2, <2>3, <2>4
  <2> QED
    BY <2>1, <2>5 DEF n
<1>3. i \in 1..Len(blocks[r])
  BY <1>2, InBlock
<1>4. ASSUME p < computed[r] PROVE cache[blocks[r][i]][s] = <<r, p>>
  <2>1. i \in 1..Len(owned[r]) /\ cache[owned[r][i]][s] = <<r, p>>
    BY <1>4, OldKey
  <2>2. blocks[r][i] = owned[r][i]
    <3>1. CASE r \in ToSet(q)
      <4>1. \A k \in 1..Len(owned[r]) : blocks[r][k] = owned[r][k]
        BY <3>1 DEF StepOK
      <4> QED
        BY <2>1, <4>1
    <3>2. CASE r \notin ToSet(q)
      BY <3>2 DEF StepOK
    <3> QED
      BY <3>1, <3>2
  <2> QED
    BY <2>1, <2>2
<1>5. ASSUME r \in ToSet(q)
      PROVE  /\ from[r] = computed[r] /\ from[r] \in Nat /\ num[r] \in Nat \ {0}
             /\ p < from[r] + num[r]
  <2>1. from[r] = computed[r] /\ num[r] \in Nat \ {0}
    BY <1>5 DEF StepOK
  <2>2. computed[r] \in Nat
    BY Bounds DEF TypeOK
  <2> QED
    BY <1>5, <2>1, <2>2 DEF After
<1>6. ASSUME r \notin ToSet(q) PROVE p < computed[r]
  BY <1>6 DEF After
<1>7. ASSUME padded = 1 PROVE new[blocks[r][i]][s] = <<r, p>>
  <2>1. \A x \in ToSet(q) : num[x] = 1
    <3>1. \A x \in ToSet(q) : num[x] \in Nat \ {0}
      BY DEF StepOK
    <3> HIDE DEF padded
    <3> QED
      BY <1>1, <1>7, <3>1
  <2>2. new[blocks[r][i]][s] = IF r \in ToSet(q) /\ p = from[r] THEN <<r, p>>
                               ELSE cache[blocks[r][i]][s]
    <3>1. new = Decoded(q, blocks, from, num, lastWins)
      BY <1>7 DEF HandlePagedAttention, Decoded, Stepped
    <3> HIDE DEF new
    <3> QED
      BY <1>2, <2>1, <3>1, DecodeWrites
  <2>3. CASE r \in ToSet(q) /\ p = from[r]
    BY <1>3, <2>2, <2>3
  <2>4. CASE ~(r \in ToSet(q) /\ p = from[r])
    <3>1. p < computed[r]
      <4>1. CASE r \notin ToSet(q)
        BY <1>6, <4>1
      <4>2. CASE r \in ToSet(q)
        <5>1. num[r] = 1 /\ p # from[r]
          BY <2>1, <2>4, <4>2
        <5> QED
          BY <1>5, <4>2, <5>1
      <4> QED
        BY <4>1, <4>2
    <3> QED
      BY <1>3, <1>4, <2>2, <2>4, <3>1
  <2> QED
    BY <2>3, <2>4
<1>8. ASSUME padded # 1 PROVE new[blocks[r][i]][s] = <<r, p>>
  <2>1. \A x \in ToSet(q) : from[x] = 0
    BY <1>1, <1>8
  <2>2. r \in ToSet(q) => p < num[r]
    BY <1>5, <2>1
  <2>3. new[blocks[r][i]][s] = IF r \in ToSet(q) THEN <<r, p>> ELSE cache[blocks[r][i]][s]
    <3>1. new = Filled(q, blocks, from, num, padded)
      BY <1>8 DEF HandlePagedAttention, Filled, Stepped
    <3>2. padded \in Nat
      BY <1>1
    <3> HIDE DEF padded, new
    <3> QED
      BY <1>1, <1>2, <2>1, <2>2, <3>1, <3>2, PrefillWrites
  <2> QED
    BY <1>3, <1>4, <1>6, <2>3
<1>9. i \in 1..Len(blocks[r]) /\ new[blocks[r][i]][s] = <<r, p>>
  BY <1>3, <1>7, <1>8
<1> QED
  BY <1>9 DEF Found

\* The logits index of the first row is that request's last token.
LEMMA FirstIndex ==
  ASSUME NEW q, NEW num, NEW padded \in Nat, num[q[1]] \in Nat \ {0}, num[q[1]] <= padded
  PROVE  LogitsIndex(q, num, 1, padded) = num[q[1]] - 1
<1> DEFINE n == num[q[1]]
           S == UNION {{v} \X (1..num[q[v]]) : v \in 1..1}
<1>1. n \in Nat \ {0} /\ n <= padded
  OBVIOUS
<1>2. S = {1} \X (1..n)
  <2>1. 1..1 = {1}
    OBVIOUS
  <2> QED
    BY <2>1, Zenon
<1>3. Cardinality({1} \X (1..n)) = 1 * n
  <2>1. IsFiniteSet({1}) /\ Cardinality({1}) = 1
    BY FS_Singleton
  <2>2. IsFiniteSet(1..n) /\ Cardinality(1..n) = n
    <3> HIDE DEF n
    <3>1. 1 \in Int /\ n \in Int /\ ~(1 > n) /\ n - 1 + 1 = n
      BY <1>1
    <3> QED
      BY <3>1, FS_Interval
  <2> DEFINE A == {1}
             B == 1..n
  <2>3. IsFiniteSet(A) /\ IsFiniteSet(B) /\ Cardinality(A) = 1 /\ Cardinality(B) = n
    BY <2>1, <2>2
  <2> HIDE DEF n, A, B
  <2>4. Cardinality(A \X B) = Cardinality(A) * Cardinality(B)
    BY <2>3, FS_Product
  <2>5. Cardinality(A \X B) = 1 * n
    BY <2>3, <2>4
  <2> QED
    BY <2>5 DEF A, B
<1>4. RunningTotal(q, num, 1) = Cardinality(S)
  BY DEF RunningTotal
<1> HIDE DEF S, n
<1>5. RunningTotal(q, num, 1) = n
  BY <1>1, <1>2, <1>3, <1>4
<1>6. Min({n, padded}) = n
  <2>1. {n, padded} \in SUBSET Nat /\ {n, padded} # {}
    BY <1>1
  <2>2. Min({n, padded}) \in {n, padded} /\ Min({n, padded}) <= n
    BY <2>1, MinFacts
  <2> QED
    BY <1>1, <2>2
<1> QED
  BY <1>5, <1>6 DEF LogitsIndex, n

\* What the token of row u sees, in the cache after a step.
Sees(new, q, blocks, from, num, u) ==
    Attention(new, q, from, num, u, PageTable(q, blocks),
        CachePosition(q, SeqLens(q, from, num)), Padded(q, num))

\* What the token of row u sees is the request's own tokens, in a decode or in the first row.
LEMMA SeesOwn ==
  ASSUME TypeOK, Held, KeysIntact, ~exposed,
         NEW q, NEW blocks, NEW from, NEW num, StepOK(q, blocks, from, num),
         ~Exposes(q, PageTable(q, blocks)), NEW lastWins \in BOOLEAN, NEW new,
         new = Stepped(q, blocks, from, num, lastWins),
         NEW u \in 1..Len(q), ~(u > 1 /\ Padded(q, num) > 1)
  PROVE  Sees(new, q, blocks, from, num, u) = {q[u]} \X (0..from[q[u]] + num[q[u]] - 1)
<1> DEFINE padded == Padded(q, num)
           table == PageTable(q, blocks)
           pos == CachePosition(q, SeqLens(q, from, num))
           r == q[u]
           last == from[r] + num[r] - 1
<1>1. q \in Seq(Requests) /\ r \in Requests /\ r \in ToSet(q)
  BY ToSetDef DEF StepOK
<1>2. from[r] = computed[r] /\ num[r] \in Nat \ {0}
  BY <1>1 DEF StepOK
<1>3. from[r] \in Nat
  BY <1>1, <1>2, Bounds DEF TypeOK
<1>4. last \in Nat /\ After(q, from, num, r) = last + 1
  <2>1. After(q, from, num, r) = from[r] + num[r]
    BY <1>1 DEF After
  <2> QED
    BY <1>2, <1>3, <2>1
<1>5. /\ padded \in Nat \ {0} /\ num[r] <= padded
      /\ padded # 1 => from[r] = 0
  BY <1>1, PaddedFacts
<1>6. CASE padded = 1
  <2>1. pos[u] = last
    BY PositionFacts
  <2>2. ASSUME NEW p \in 0..last PROVE new[BlockOf(table[u], p)][Offset(p)] = <<r, p>>
    <3>1. p \in Nat /\ p < After(q, from, num, r)
      <4> HIDE DEF last
      <4> QED
        BY <1>4
    <3>2. /\ p \div BlockSize + 1 \in 1..Len(blocks[r])
          /\ new[blocks[r][p \div BlockSize + 1]][p % BlockSize] = <<r, p>>
      <4> HIDE DEF last, table, pos, padded, r
      <4>1. Found(new, blocks, r, p)
        BY <1>1, <3>1, NewKey
      <4> QED
        BY <4>1 DEF Found
    <3> DEFINE i == p \div BlockSize + 1
    <3>3. i <= Len(blocks[r]) /\ i \in 1..MaxBlocks
      <4>1. Len(blocks[r]) \in 0..MaxBlocks /\ MaxBlocks \in Nat
        BY TableFacts, Bounds
      <4>2. i \in 1..Len(blocks[r])
        BY <3>2
      <4> HIDE DEF i
      <4> QED
        BY <4>1, <4>2
    <3>4. table[u][i] = IF i <= Len(blocks[r]) THEN blocks[r][i] ELSE NullBlock
      BY <3>3, TableFacts
    <3>5. table[u][i] = blocks[r][i]
      BY <3>3, <3>4
    <3>6. BlockOf(table[u], p) = table[u][i]
      <4>1. ~(p < 0)
        BY <3>1
      <4> QED
        BY <4>1 DEF BlockOf
    <3> QED
      BY <3>2, <3>5, <3>6 DEF Offset
  <2>3. Attention(new, q, from, num, u, table, pos, padded)
          = {new[BlockOf(table[u], p)][Offset(p)] : p \in 0..last}
    BY <1>6, <2>1 DEF Attention, PagedDecodeAttention
  <2> HIDE DEF last, table, pos, padded, r
  <2>4. {new[BlockOf(table[u], p)][Offset(p)] : p \in 0..last} = {<<r, p>> : p \in 0..last}
    BY <2>2
  <2>5. {<<r, p>> : p \in 0..last} = {r} \X (0..last)
    OBVIOUS
  <2> QED
    BY <2>3, <2>4, <2>5 DEF Sees, last, table, pos, padded, r
<1>7. CASE padded # 1
  <2>1. u = 1
    <3>1. padded > 1
      <4> HIDE DEF padded
      <4> QED
        BY <1>5, <1>7
    <3>2. ~(u > 1) /\ u \in Nat /\ u >= 1
      BY <3>1
    <3> QED
      BY <3>2
  <2>2. from[r] = 0
    BY <1>5, <1>7
  <2>3. LogitsIndex(q, num, u, padded) = last
    <3>1. LogitsIndex(q, num, 1, padded) = num[q[1]] - 1
      <4> HIDE DEF padded
      <4> QED
        BY <1>2, <1>5, <2>1, FirstIndex
    <3> QED
      BY <1>2, <2>1, <2>2, <3>1
  <2>4. ASSUME NEW p \in 0..last PROVE Key(q, from, num, u, p) = <<r, p>>
    <3>1. p \in Nat /\ p < num[r] /\ from[r] + p = p
      BY <1>2, <2>2
    <3>2. u <= Len(q)
      BY <1>1
    <3> QED
      BY <3>1, <3>2 DEF Key
  <2>5. Attention(new, q, from, num, u, table, pos, padded)
          = {Key(q, from, num, u, p) : p \in 0..last}
    BY <1>7, <2>3 DEF Attention, FullAttention
  <2> HIDE DEF last, table, pos, padded, r
  <2>6. {Key(q, from, num, u, p) : p \in 0..last} = {r} \X (0..last)
    BY <2>4
  <2> QED
    BY <2>5, <2>6 DEF Sees, last, table, pos, padded, r
<1> QED
  BY <1>6, <1>7
\* A step of the runner on what the scheduler hands it keeps the invariant.
LEMMA StepKeeps ==
  ASSUME CacheInv, ~exposed, NEW q, NEW blocks, NEW from, NEW num,
         StepOK(q, blocks, from, num), SampleTokens(q, blocks, from, num),
         Cardinality({r \in Requests : blocks[r] # <<>>}) <= Rows
  PROVE  CacheInv'
<1> DEFINE padded == Padded(q, num)
           table == PageTable(q, blocks)
           pos == CachePosition(q, SeqLens(q, from, num))
<1>1. TypeOK /\ Held /\ KeysIntact
  BY DEF CacheInv
<1>2. PICK lastWins \in BOOLEAN : cache' = Stepped(q, blocks, from, num, lastWins)
  BY DEF SampleTokens, Stepped, Padded
<1>3. /\ pageTable' = table /\ seqLens' = SeqLens(q, from, num) /\ owned' = blocks
      /\ computed' = [r \in Requests |-> After(q, from, num, r)]
      /\ sampled' = [u \in DOMAIN q |->
            [req |-> q[u], len |-> from[q[u]] + num[q[u]], later |-> u > 1 /\ padded > 1,
             sees |-> Attention(cache', q, from, num, u, table, pos, padded)]]
  BY DEF SampleTokens, After, Padded
<1>4. exposed' = Exposes(q, table)
  BY DEF SampleTokens, Exposes
<1>5. blocks \in [Requests -> Seq(Blocks)] /\ Distinct(blocks) /\ q \in Seq(Requests)
  BY DEF StepOK
<1>6. \A r \in Requests : /\ computed'[r] = After(q, from, num, r)
                          /\ After(q, from, num, r) \in 0..MaxLen
                          /\ Hold(Len(blocks[r]), After(q, from, num, r))
  BY <1>1, <1>3, AfterFacts
<1>7. TypeOK'
  <2>1. computed' \in [Requests -> 0..MaxLen]
    BY <1>3, <1>6
  <2>2. pageTable' \in [1..Rows -> [1..MaxBlocks -> Blocks \cup {NullBlock}]]
    BY <1>1, <1>3, TableFacts
  <2>3. seqLens' \in [1..Rows -> 0..MaxLen]
    BY <1>1, <1>3, PositionFacts
  <2>4. DOMAIN cache' = DOMAIN cache
        /\ \A b \in DOMAIN cache' : DOMAIN cache'[b] = 0..BlockSize - 1
    BY <1>2 DEF Stepped, HandlePagedAttention, PagedUpdateCache, PagedFillCache
  <2>5. exposed' \in BOOLEAN
    BY <1>4 DEF Exposes
  <2>6. DOMAIN cache = Blocks \cup {NullBlock}
    BY <1>1 DEF TypeOK
  <2>7. owned' \in [Requests -> Seq(Blocks)]
    BY <1>3, <1>5
  <2> HIDE DEF table
  <2> QED
    BY <2>1, <2>2, <2>3, <2>4, <2>5, <2>6, <2>7 DEF TypeOK, MaxLen
<1>8. Held'
  <2>1. \A r \in Requests : Hold(Len(owned'[r]), computed'[r])
    BY <1>3, <1>6
  <2>2. Distinct(owned')
    BY <1>3, <1>5
  <2>3. Cardinality({r \in Requests : owned'[r] # <<>>}) <= Rows
    BY <1>3
  <2> QED
    BY <2>1, <2>2, <2>3 DEF Held, Running, Hold, Distinct
<1>9. KeysIntact'
  <2>1. SUFFICES ASSUME ~exposed', NEW r \in Requests, NEW p \in 0..computed'[r] - 1
                 PROVE  cache'[owned'[r][p \div BlockSize + 1]][p % BlockSize] = <<r, p>>
    BY DEF KeysIntact, Running
  <2>2. p \in Nat /\ p < After(q, from, num, r)
    <3> DEFINE a == After(q, from, num, r)
    <3>1. a \in 0..MaxLen /\ p \in 0..a - 1 /\ MaxLen \in Nat
      BY <1>6, Bounds
    <3> HIDE DEF a
    <3>2. p \in Nat /\ p < a
      BY <3>1
    <3> QED
      BY <3>2 DEF a
  <2>3. ~Exposes(q, PageTable(q, blocks))
    BY <1>4, <2>1
  <2>4. Found(Stepped(q, blocks, from, num, lastWins), blocks, r, p)
    <3> HIDE DEF table, pos, padded
    <3> QED
      BY <1>1, <2>2, <2>3, NewKey
  <2> QED
    BY <1>2, <1>3, <2>4 DEF Found
<1>10. SampledFromOwnTokens'
  <2>1. SUFFICES ASSUME ~exposed', NEW u \in DOMAIN sampled', ~sampled'[u].later
                 PROVE  sampled'[u].sees = {sampled'[u].req} \X (0..sampled'[u].len - 1)
    BY DEF SampledFromOwnTokens
  <2>2. u \in 1..Len(q)
    BY <1>3, <1>5
  <2>3. u \in DOMAIN q
    BY <1>5, <2>2
  <2>4. /\ sampled'[u].req = q[u] /\ sampled'[u].len = from[q[u]] + num[q[u]]
        /\ sampled'[u].later = (u > 1 /\ padded > 1)
        /\ sampled'[u].sees = Attention(cache', q, from, num, u, table, pos, padded)
    <3> HIDE DEF table, pos, padded
    <3> QED
      BY <1>3, <2>3
  <2>5. ~(u > 1 /\ Padded(q, num) > 1) /\ ~Exposes(q, PageTable(q, blocks))
    BY <1>4, <2>1, <2>4
  <2>6. Attention(cache', q, from, num, u, table, pos, padded)
          = {q[u]} \X (0..from[q[u]] + num[q[u]] - 1)
    <3>1. Sees(cache', q, blocks, from, num, u) = {q[u]} \X (0..from[q[u]] + num[q[u]] - 1)
      BY <1>1, <1>2, <2>2, <2>5, SeesOwn
    <3> QED
      BY <3>1 DEF Sees
  <2>7. from[q[u]] + num[q[u]] - 1 = (from[q[u]] + num[q[u]]) - 1
    <3>1. q[u] \in Requests /\ q[u] \in ToSet(q)
      BY <1>5, <2>2, ToSetDef
    <3>2. from[q[u]] = computed[q[u]] /\ num[q[u]] \in Int
      BY <3>1 DEF StepOK
    <3>3. computed[q[u]] \in Int
      BY <1>1, <3>1, Bounds DEF TypeOK
    <3> QED
      BY <3>2, <3>3
  <2> HIDE DEF table, pos, padded
  <2> QED
    BY <2>4, <2>6, <2>7
<1> QED
  BY <1>7, <1>8, <1>9, <1>10 DEF CacheInv

-----------------------------------------------------------------------------
(* What the scheduler hands to a step                                       *)

\* An order of a set of requests is a batch without repetitions.
LEMMA OrderFacts ==
  ASSUME NEW rs \in SUBSET Requests, NEW q \in Orders(rs)
  PROVE  /\ q \in Seq(Requests) /\ IsInjective(q)
         /\ Len(q) = Cardinality(rs) /\ Cardinality(rs) \in Nat /\ ToSet(q) = rs
<1> DEFINE n == Cardinality(rs)
<1>1. IsFiniteSet(rs) /\ n \in Nat
  BY CacheAssumption, FS_Subset, FS_CardinalityType
<1>2. q \in [1..n -> rs] /\ ToSet(q) = rs
  BY DEF Orders
<1> HIDE DEF n
<1>3. q \in Seq(rs) /\ q \in Seq(Requests) /\ Len(q) = n /\ DOMAIN q = 1..n
  BY <1>1, <1>2
<1>4. q \in Surjection(1..n, rs)
  <2>1. \A t \in rs : \E s \in 1..n : q[s] = t
    BY <1>2, <1>3, ToSetDef
  <2> QED
    BY <1>2, <2>1 DEF Surjection
<1>5. IsFiniteSet(1..n) /\ Cardinality(1..n) = n
  <2>1. 1 \in Int /\ n \in Int /\ (IF 1 > n THEN 0 ELSE n - 1 + 1) = n
    BY <1>1
  <2> QED
    BY <2>1, FS_Interval
<1>6. q \in Injection(1..n, rs)
  <2> DEFINE D == 1..n
  <2>1. IsFiniteSet(D) /\ Cardinality(D) = Cardinality(rs) /\ q \in Surjection(D, rs)
    BY <1>4, <1>5 DEF n
  <2> HIDE DEF D
  <2>2. q \in Injection(D, rs)
    BY <2>1, FS_SurjSameCardinalityImpliesInj
  <2> QED
    BY <2>2 DEF D
<1>7. IsInjective(q)
  BY <1>6 DEF Injection
<1> QED
  BY <1>1, <1>2, <1>3, <1>7 DEF n

\* The requests rs have their blocks, and more of them after those.
Allocated(rs, more, blocks) ==
    /\ blocks \in [Requests -> Seq(Blocks)]
    /\ Distinct(blocks)
    /\ \A r \in Requests : r \notin rs => blocks[r] = owned[r]
    /\ \A r \in rs : /\ Len(blocks[r]) = Len(owned[r]) + more[r]
                     /\ \A i \in 1..Len(owned[r]) : blocks[r][i] = owned[r][i]

\* Allocated blocks are put after the requests' own, and no block is given twice.
LEMMA AllocationFacts ==
  ASSUME TypeOK, Held, NEW rs \in SUBSET Requests, NEW more, \A r \in rs : more[r] \in Nat,
         NEW blocks \in Allocations(rs, more)
  PROVE  Allocated(rs, more, blocks)
<1> DEFINE slots == UNION {{r} \X (1..more[r]) : r \in rs}
<1>1. PICK new \in Injection(slots, Blocks \ Used) :
         blocks = [r \in Requests |-> IF r \in rs
                       THEN owned[r] \o [i \in 1..more[r] |-> new[<<r, i>>]] ELSE owned[r]]
  BY Zenon DEF Allocations
<1>2. \A r \in rs : \A i \in 1..more[r] : <<r, i>> \in slots
  OBVIOUS
<1>3. new \in [slots -> Blocks \ Used]
      /\ \A a, b \in slots : new[a] = new[b] => a = b
  BY <1>1 DEF Injection, IsInjective
<1> HIDE DEF slots
<1>4. \A r \in Requests : owned[r] \in Seq(Blocks) /\ Len(owned[r]) \in Nat
  BY DEF TypeOK
<1>5. ASSUME NEW r \in rs
      PROVE  LET t == [i \in 1..more[r] |-> new[<<r, i>>]]
             IN  /\ t \in Seq(Blocks) /\ Len(t) = more[r]
                 /\ \A i \in 1..more[r] : t[i] = new[<<r, i>>]
  <2> DEFINE t == [i \in 1..more[r] |-> new[<<r, i>>]]
  <2>1. more[r] \in Nat /\ \A i \in 1..more[r] : new[<<r, i>>] \in Blocks
    BY <1>2, <1>3
  <2>2. t \in [1..more[r] -> Blocks] /\ \A i \in 1..more[r] : t[i] = new[<<r, i>>]
    BY <2>1
  <2> HIDE DEF t
  <2>3. t \in Seq(Blocks) /\ Len(t) = more[r]
    BY <2>1, <2>2
  <2>4. t \in Seq(Blocks) /\ Len(t) = more[r] /\ \A i \in 1..more[r] : t[i] = new[<<r, i>>]
    BY <2>2, <2>3
  <2> QED
    BY <2>4, Zenon DEF t
<1>6. ASSUME NEW r \in rs
      PROVE  /\ blocks[r] \in Seq(Blocks) /\ Len(blocks[r]) = Len(owned[r]) + more[r]
             /\ \A i \in 1..Len(owned[r]) : blocks[r][i] = owned[r][i]
             /\ \A i \in 1..Len(blocks[r]) : i > Len(owned[r]) =>
                   /\ i - Len(owned[r]) \in 1..more[r]
                   /\ blocks[r][i] = new[<<r, i - Len(owned[r])>>]
  <2> DEFINE t == [i \in 1..more[r] |-> new[<<r, i>>]]
             o == owned[r]
             m == more[r]
  <2>1. t \in Seq(Blocks) /\ Len(t) = m /\ \A i \in 1..m : t[i] = new[<<r, i>>]
    BY <1>5
  <2>2. o \in Seq(Blocks) /\ Len(o) \in Nat /\ m \in Nat
    BY <1>4
  <2>3. blocks[r] = o \o t
    BY <1>1
  <2> HIDE DEF t, o, m
  <2>4. /\ o \o t \in Seq(Blocks) /\ Len(o \o t) = Len(o) + m
        /\ \A i \in 1..Len(o) : (o \o t)[i] = o[i]
    BY <2>1, <2>2
  <2>5. ASSUME NEW i \in 1..Len(o \o t), i > Len(o)
        PROVE  i - Len(o) \in 1..m /\ (o \o t)[i] = new[<<r, i - Len(o)>>]
    <3>1. i - Len(o) \in 1..m
      BY <2>2, <2>4, <2>5
    <3>2. (o \o t)[i] = t[i - Len(o)]
      BY <2>1, <2>2, <2>4, <2>5
    <3> QED
      BY <2>1, <3>1, <3>2
  <2> QED
    BY <2>3, <2>4, <2>5 DEF o, m
<1>7. ASSUME NEW r \in Requests, r \notin rs PROVE blocks[r] = owned[r]
  BY <1>1, <1>7
<1>8. blocks \in [Requests -> Seq(Blocks)]
  <2>1. DOMAIN blocks = Requests /\ blocks = [r \in Requests |-> blocks[r]]
    BY <1>1
  <2>2. \A r \in Requests : blocks[r] \in Seq(Blocks)
    BY <1>4, <1>6, <1>7
  <2> QED
    BY <2>1, <2>2
<1>9. ASSUME NEW r \in Requests, NEW i \in 1..Len(blocks[r])
      PROVE  \/ i \in 1..Len(owned[r]) /\ blocks[r][i] = owned[r][i] /\ blocks[r][i] \in Used
             \/ /\ r \in rs /\ i > Len(owned[r]) /\ <<r, i - Len(owned[r])>> \in slots
                /\ blocks[r][i] = new[<<r, i - Len(owned[r])>>] /\ blocks[r][i] \notin Used
  <2>1. \A j \in 1..Len(owned[r]) : owned[r][j] \in Used
    <3>1. \A j \in 1..Len(owned[r]) : owned[r][j] \in ToSet(owned[r])
      BY <1>4, ToSetDef
    <3> QED
      BY <3>1 DEF Used
  <2>2. CASE r \notin rs
    BY <1>7, <2>1, <2>2
  <2>3. CASE r \in rs
    <3>1. i \in Nat /\ Len(owned[r]) \in Nat /\ i >= 1
      BY <1>4, <1>8
    <3>2. CASE i <= Len(owned[r])
      <4>1. i \in 1..Len(owned[r])
        BY <3>1, <3>2
      <4> QED
        BY <1>6, <2>1, <2>3, <4>1
    <3>3. CASE i > Len(owned[r])
      <4> DEFINE x == <<r, i - Len(owned[r])>>
      <4>1. i - Len(owned[r]) \in 1..more[r] /\ blocks[r][i] = new[x]
        BY <1>6, <2>3, <3>3
      <4>2. x \in slots
        BY <1>2, <2>3, <4>1
      <4>3. new[x] \notin Used
        BY <1>3, <4>2
      <4> QED
        BY <2>3, <3>3, <4>1, <4>2, <4>3
    <3> QED
      BY <3>1, <3>2, <3>3
  <2> QED
    BY <2>2, <2>3
<1>10. Distinct(blocks)
  <2>1. SUFFICES ASSUME NEW r1 \in Requests, NEW r2 \in Requests,
                        NEW i \in 1..Len(blocks[r1]), NEW j \in 1..Len(blocks[r2]),
                        blocks[r1][i] = blocks[r2][j]
                 PROVE  r1 = r2 /\ i = j
    BY DEF Distinct
  <2>2. CASE blocks[r1][i] \in Used
    <3>1. /\ i \in 1..Len(owned[r1]) /\ blocks[r1][i] = owned[r1][i]
          /\ j \in 1..Len(owned[r2]) /\ blocks[r2][j] = owned[r2][j]
      BY <1>9, <2>1, <2>2
    <3>2. Distinct(owned) /\ owned[r1][i] = owned[r2][j]
      BY <2>1, <3>1 DEF Held
    <3> QED
      BY <3>1, <3>2, ZenonT(60) DEF Distinct
  <2>3. CASE blocks[r1][i] \notin Used
    <3> DEFINE a == i - Len(owned[r1])
               b == j - Len(owned[r2])
    <3>1. /\ <<r1, a>> \in slots /\ <<r2, b>> \in slots
          /\ blocks[r1][i] = new[<<r1, a>>] /\ blocks[r2][j] = new[<<r2, b>>]
      BY <1>9, <2>1, <2>3
    <3>2. <<r1, a>> = <<r2, b>>
      BY <1>3, <2>1, <3>1
    <3>3. r1 = r2 /\ a = b
      BY <3>2
    <3>4. i \in Int /\ j \in Int /\ Len(owned[r1]) \in Int /\ Len(owned[r2]) \in Int
      BY <1>4, <1>8
    <3>5. \A x, y, z \in Int : x - z = y - z => x = y
      OBVIOUS
    <3> QED
      BY <3>3, <3>4, <3>5
  <2> QED
    BY <2>2, <2>3
<1> QED
  BY <1>6, <1>7, <1>8, <1>10 DEF Allocated

-----------------------------------------------------------------------------
(* The actions                                                              *)

\* The invariant holds initially.
LEMMA InitInv ==
  ASSUME Init
  PROVE  CacheInv
<1>1. MaxLen \in Nat /\ Rows \in Nat /\ BlockSize \in Nat \ {0}
  BY Bounds
<1>2. TypeOK
  <2>1. /\ computed \in [Requests -> 0..MaxLen] /\ seqLens \in [1..Rows -> 0..MaxLen]
        /\ exposed \in BOOLEAN
    <3>1. 0 \in 0..MaxLen
      BY <1>1
    <3> QED
      BY <3>1, Zenon DEF Init
  <2>2. pageTable \in [1..Rows -> [1..MaxBlocks -> Blocks \cup {NullBlock}]]
    <3>1. NullRow \in [1..MaxBlocks -> Blocks \cup {NullBlock}]
      BY DEF NullRow
    <3> QED
      BY <3>1 DEF Init
  <2>3. DOMAIN cache = Blocks \cup {NullBlock}
        /\ \A b \in DOMAIN cache : DOMAIN cache[b] = 0..BlockSize - 1
    BY DEF Init
  <2>4. owned \in [Requests -> Seq(Blocks)]
    <3>1. <<>> \in Seq(Blocks)
      OBVIOUS
    <3>2. owned = [r \in Requests |-> <<>>]
      BY DEF Init
    <3> QED
      BY <3>1, <3>2, Zenon
  <2> QED
    BY <2>1, <2>2, <2>3, <2>4 DEF TypeOK
<1>3. Running = {}
  BY DEF Init, Running
<1>4. Held
  <2>1. \A r \in Requests : owned[r] = <<>> /\ computed[r] = 0
    BY DEF Init
  <2>2. Hold(0, 0)
    <3>1. 0 * BlockSize = 0 /\ (0 - 1) * BlockSize < 0
      BY <1>1
    <3> QED
      BY <3>1 DEF Hold
  <2>3. Len(<<>>) = 0
    OBVIOUS
  <2>4. \A r \in Requests : Hold(Len(owned[r]), computed[r])
    BY <2>1, <2>2, <2>3
  <2>5. Distinct(owned)
    <3>1. \A r \in Requests : \A i \in 1..Len(owned[r]) : FALSE
      BY <2>1, <2>3
    <3> QED
      BY <3>1 DEF Distinct
  <2>6. Cardinality(Running) <= Rows
    BY <1>1, <1>3, FS_EmptySet
  <2> QED
    BY <2>4, <2>5, <2>6 DEF Held
<1>5. KeysIntact
  BY <1>3 DEF KeysIntact
<1>6. SampledFromOwnTokens
  BY DEF Init, SampledFromOwnTokens
<1> QED
  BY <1>2, <1>4, <1>5, <1>6 DEF CacheInv

\* A prefill gives new requests the blocks their prompts need.
LEMMA PrefillPreserves ==
  ASSUME CacheInv, NEW rs \in SUBSET (Requests \ Running), NEW num \in [rs -> Prompts],
         Prefill(rs, num)
  PROVE  CacheInv'
<1> DEFINE more == [r \in rs |-> CDiv(num[r], BlockSize)]
           from == [r \in Requests |-> 0]
<1>1. TypeOK /\ Held /\ ~exposed /\ rs \in SUBSET Requests /\ rs # {}
      /\ Cardinality(rs \cup Running) <= Rows
  BY DEF CacheInv, Prefill
<1>2. PICK q \in Orders(rs), blocks \in Allocations(rs, more) :
         SampleTokens(q, blocks, from, num)
  BY DEF Prefill
<1>3. MaxLen \in Nat /\ Rows \in Nat
  BY Bounds
<1>4. ASSUME NEW r \in rs
      PROVE  /\ r \in Requests /\ owned[r] = <<>> /\ Len(owned[r]) = 0 /\ computed[r] = 0
             /\ from[r] = 0 /\ num[r] \in Nat \ {0} /\ num[r] <= MaxLen
             /\ more[r] \in Nat /\ Hold(more[r], num[r])
  <2>1. r \in Requests /\ owned[r] = <<>>
    BY DEF Running
  <2>2. Len(owned[r]) = 0
    BY <2>1
  <2>3. computed[r] = 0
    <3>1. Hold(0, computed[r]) /\ computed[r] \in Nat
      BY <1>1, <1>3, <2>1, <2>2 DEF Held, TypeOK
    <3> QED
      BY <3>1, NoBlocks
  <2>4. num[r] \in Nat \ {0} /\ num[r] <= MaxLen
    <3>1. num[r] \in 1..MaxLen
      BY CacheAssumption DEF MaxLen
    <3> QED
      BY <1>3, <3>1
  <2>5. more[r] = CDiv(num[r], BlockSize)
    OBVIOUS
  <2>6. more[r] \in Nat /\ Hold(more[r], num[r])
    BY <2>4, <2>5, PromptBlocks
  <2> QED
    BY <2>1, <2>2, <2>3, <2>4, <2>6
<1> HIDE DEF more
<1>5. /\ q \in Seq(Requests) /\ IsInjective(q)
      /\ Len(q) = Cardinality(rs) /\ Cardinality(rs) \in Nat /\ ToSet(q) = rs
  BY <1>1, OrderFacts
<1>6. /\ blocks \in [Requests -> Seq(Blocks)] /\ Distinct(blocks)
      /\ \A r \in Requests : r \notin rs => blocks[r] = owned[r]
      /\ \A r \in rs : /\ Len(blocks[r]) = Len(owned[r]) + more[r]
                       /\ \A i \in 1..Len(owned[r]) : blocks[r][i] = owned[r][i]
  <2>1. \A r \in rs : more[r] \in Nat
    BY <1>4
  <2>2. TypeOK /\ Held /\ rs \in SUBSET Requests
    BY <1>1
  <2>3. Allocated(rs, more, blocks)
    BY <1>2, <2>1, <2>2, AllocationFacts
  <2> QED
    BY <2>3 DEF Allocated
<1>7. /\ IsFiniteSet(rs \cup Running) /\ Cardinality(rs \cup Running) \in Nat
      /\ Cardinality(rs) <= Cardinality(rs \cup Running)
      /\ Cardinality({r \in Requests : blocks[r] # <<>>}) <= Cardinality(rs \cup Running)
      /\ Cardinality({r \in Requests : blocks[r] # <<>>}) \in Nat
  <2> DEFINE U == rs \cup Running
             B == {r \in Requests : blocks[r] # <<>>}
  <2>1. U \in SUBSET Requests /\ rs \in SUBSET U /\ B \in SUBSET U
    BY <1>1, <1>6 DEF Running
  <2> HIDE DEF U, B
  <2>2. IsFiniteSet(U) /\ Cardinality(U) \in Nat
    BY <2>1, CacheAssumption, FS_Subset, FS_CardinalityType
  <2>3. Cardinality(rs) <= Cardinality(U) /\ Cardinality(B) <= Cardinality(U)
        /\ IsFiniteSet(B)
    BY <2>1, <2>2, FS_Subset
  <2>4. Cardinality(B) \in Nat
    BY <2>3, FS_CardinalityType
  <2> QED
    BY <2>2, <2>3, <2>4 DEF U, B
<1>8. Cardinality(rs) \in 1..Rows
  <2>1. Cardinality(rs) # 0
    BY <1>1, CacheAssumption, FS_Subset, FS_EmptySet
  <2> QED
    BY <1>1, <1>3, <1>5, <1>7, <2>1
<1>9. StepOK(q, blocks, from, num)
  <2>1. ASSUME NEW r \in rs
        PROVE  /\ from[r] = computed[r]
               /\ Len(owned[r]) <= Len(blocks[r])
               /\ \A i \in 1..Len(owned[r]) : blocks[r][i] = owned[r][i]
               /\ num[r] \in Nat \ {0} /\ from[r] + num[r] <= MaxLen
               /\ Hold(Len(blocks[r]), from[r] + num[r])
    <3>1. /\ computed[r] = 0 /\ from[r] = 0 /\ num[r] \in Nat \ {0} /\ num[r] <= MaxLen
          /\ more[r] \in Nat /\ Hold(more[r], num[r]) /\ Len(owned[r]) = 0
      BY <1>4
    <3>2. from[r] + num[r] = num[r] /\ Len(owned[r]) + more[r] = more[r]
      <4> HIDE DEF from
      <4> QED
        BY <3>1
    <3>3. Len(blocks[r]) = more[r] /\ \A i \in 1..Len(owned[r]) : blocks[r][i] = owned[r][i]
      BY <1>6, <3>2
    <3>4. Len(owned[r]) <= Len(blocks[r])
      <4>1. \A n, m \in Nat : n = 0 => n <= m
        OBVIOUS
      <4>2. 0 \in Nat
        OBVIOUS
      <4> QED
        BY <3>1, <3>3, <4>1, <4>2
    <3> HIDE DEF from
    <3> QED
      BY <3>1, <3>2, <3>3, <3>4
  <2>2. \A r \in ToSet(q) : from[r] = 0
    BY <1>4, <1>5
  <2>3. Len(q) \in 1..Rows
    BY <1>5, <1>8
  <2> HIDE DEF from
  <2> QED
    BY <1>5, <1>6, <2>1, <2>2, <2>3 DEF StepOK
<1>10. Cardinality({r \in Requests : blocks[r] # <<>>}) <= Rows
  BY <1>1, <1>3, <1>7
<1> HIDE DEF from
<1> QED
  BY <1>1, <1>2, <1>9, <1>10, StepKeeps

\* Decoding gives a request another block where its last one is full.
LEMMA DecodePreserves ==
  ASSUME CacheInv, Decode
  PROVE  CacheInv'
<1> DEFINE rs == Running
           more == [r \in rs |-> IF computed[r] % BlockSize = 0 THEN 1 ELSE 0]
           num == [r \in rs |-> 1]
<1>1. TypeOK /\ Held /\ ~exposed /\ rs # {} /\ rs \in SUBSET Requests
      /\ \A r \in rs : computed[r] < MaxLen
  BY DEF CacheInv, Decode, Running
<1>2. PICK q \in Orders(rs), blocks \in Allocations(rs, more) :
         SampleTokens(q, blocks, computed, num)
  BY DEF Decode
<1>3. MaxLen \in Nat /\ Rows \in Nat
  BY Bounds
<1>4. ASSUME NEW r \in rs
      PROVE  /\ r \in Requests /\ computed[r] \in Nat /\ computed[r] < MaxLen
             /\ num[r] = 1 /\ more[r] \in Nat /\ owned[r] \in Seq(Blocks)
             /\ Len(owned[r]) \in Nat /\ Hold(Len(owned[r]) + more[r], computed[r] + 1)
  <2>1. /\ r \in Requests /\ computed[r] \in Nat /\ computed[r] < MaxLen
        /\ owned[r] \in Seq(Blocks) /\ Len(owned[r]) \in Nat
    BY <1>1, <1>3 DEF TypeOK
  <2>2. more[r] = IF computed[r] % BlockSize = 0 THEN 1 ELSE 0
    OBVIOUS
  <2>3. num[r] = 1 /\ more[r] \in Nat
    BY <2>2
  <2>4. Hold(Len(owned[r]), computed[r])
    BY <1>1, <2>1 DEF Held
  <2>5. Hold(Len(owned[r]) + more[r], computed[r] + 1)
    BY <2>1, <2>2, <2>4, NextBlock
  <2> QED
    BY <2>1, <2>3, <2>5
<1> HIDE DEF more, num, rs
<1>5. /\ q \in Seq(Requests) /\ IsInjective(q)
      /\ Len(q) = Cardinality(rs) /\ Cardinality(rs) \in Nat /\ ToSet(q) = rs
  BY <1>1, <1>2, OrderFacts
<1>6. /\ blocks \in [Requests -> Seq(Blocks)] /\ Distinct(blocks)
      /\ \A r \in Requests : r \notin rs => blocks[r] = owned[r]
      /\ \A r \in rs : /\ Len(blocks[r]) = Len(owned[r]) + more[r]
                       /\ \A i \in 1..Len(owned[r]) : blocks[r][i] = owned[r][i]
  <2>1. Allocated(rs, more, blocks)
    BY <1>1, <1>2, <1>4, AllocationFacts
  <2> QED
    BY <2>1 DEF Allocated
<1>7. Cardinality(rs) \in 1..Rows
  <2>1. Cardinality(rs) # 0
    BY <1>1, CacheAssumption, FS_Subset, FS_EmptySet
  <2>2. Cardinality(rs) <= Rows
    BY <1>1 DEF Held, rs
  <2> QED
    BY <1>3, <1>5, <2>1, <2>2
<1>8. Cardinality({r \in Requests : blocks[r] # <<>>}) <= Rows
  <2> DEFINE B == {r \in Requests : blocks[r] # <<>>}
  <2>1. B \in SUBSET rs
    BY <1>6 DEF rs, Running
  <2> HIDE DEF B
  <2>2. IsFiniteSet(rs)
    BY <1>1, CacheAssumption, FS_Subset
  <2>3. IsFiniteSet(B) /\ Cardinality(B) <= Cardinality(rs)
    BY <2>1, <2>2, FS_Subset
  <2>4. Cardinality(B) \in Nat
    BY <2>3, FS_CardinalityType
  <2>5. Cardinality(B) <= Rows
    BY <1>3, <1>5, <1>7, <2>3, <2>4
  <2> QED
    BY <2>5 DEF B
<1>9. StepOK(q, blocks, computed, num)
  <2>1. ASSUME NEW r \in rs
        PROVE  /\ Len(owned[r]) <= Len(blocks[r])
               /\ \A i \in 1..Len(owned[r]) : blocks[r][i] = owned[r][i]
               /\ num[r] \in Nat \ {0} /\ computed[r] + num[r] <= MaxLen
               /\ Hold(Len(blocks[r]), computed[r] + num[r])
    <3>1. /\ computed[r] \in Nat /\ computed[r] < MaxLen /\ num[r] = 1 /\ more[r] \in Nat
          /\ Len(owned[r]) \in Nat /\ Hold(Len(owned[r]) + more[r], computed[r] + 1)
      BY <1>4
    <3>2. Len(blocks[r]) = Len(owned[r]) + more[r]
          /\ \A i \in 1..Len(owned[r]) : blocks[r][i] = owned[r][i]
      BY <1>6
    <3> QED
      BY <1>3, <3>1, <3>2
  <2>2. \A r \in ToSet(q) : num[r] = 1
    BY <1>4, <1>5
  <2>3. Len(q) \in 1..Rows
    BY <1>5, <1>7
  <2> QED
    BY <1>5, <1>6, <2>1, <2>2, <2>3 DEF StepOK
<1> QED
  BY <1>1, <1>2, <1>8, <1>9, StepKeeps

\* A request that leaves takes only its own keys with it.
LEMMA LeavePreserves ==
  ASSUME CacheInv, NEW r \in Requests, Leave(r)
  PROVE  CacheInv'
<1>1. TypeOK /\ Held /\ KeysIntact
  BY DEF CacheInv
<1>2. /\ owned' = [owned EXCEPT ![r] = <<>>] /\ computed' = [computed EXCEPT ![r] = 0]
      /\ cache' = [b \in DOMAIN cache |-> [s \in 0..BlockSize - 1 |->
            IF cache[b][s] # Junk /\ cache[b][s][1] = r THEN Junk ELSE cache[b][s]]]
      /\ sampled' = <<>> /\ pageTable' = pageTable /\ seqLens' = seqLens /\ exposed' = exposed
  BY DEF Leave
<1>3. MaxLen \in Nat /\ Rows \in Nat /\ BlockSize \in Nat \ {0}
  BY Bounds
<1>4. owned \in [Requests -> Seq(Blocks)] /\ computed \in [Requests -> 0..MaxLen]
  BY <1>1 DEF TypeOK
<1>5. /\ owned'[r] = <<>> /\ computed'[r] = 0
      /\ \A x \in Requests : x # r => owned'[x] = owned[x] /\ computed'[x] = computed[x]
  BY <1>2, <1>4
<1>6. TypeOK'
  <2>1. owned' \in [Requests -> Seq(Blocks)] /\ computed' \in [Requests -> 0..MaxLen]
    BY <1>2, <1>3, <1>4
  <2>2. DOMAIN cache' = DOMAIN cache
        /\ \A b \in DOMAIN cache' : DOMAIN cache'[b] = 0..BlockSize - 1
    BY <1>2
  <2>3. /\ DOMAIN cache = Blocks \cup {NullBlock} /\ exposed' \in BOOLEAN
        /\ pageTable' \in [1..Rows -> [1..MaxBlocks -> Blocks \cup {NullBlock}]]
        /\ seqLens' \in [1..Rows -> 0..MaxLen]
    BY <1>1, <1>2 DEF TypeOK
  <2> QED
    BY <2>1, <2>2, <2>3 DEF TypeOK, MaxLen
<1>7. Held'
  <2>1. \A x \in Requests : Hold(Len(owned[x]), computed[x])
    BY <1>1 DEF Held
  <2>2. Hold(0, 0) /\ Len(<<>>) = 0
    <3>1. 0 * BlockSize = 0 /\ (0 - 1) * BlockSize < 0
      BY <1>3
    <3> QED
      BY <3>1 DEF Hold
  <2>3. \A x \in Requests : Hold(Len(owned'[x]), computed'[x])
    BY <1>5, <2>1, <2>2
  <2>4. Distinct(owned')
    <3>1. SUFFICES ASSUME NEW x \in Requests, NEW y \in Requests,
                          NEW i \in 1..Len(owned'[x]), NEW j \in 1..Len(owned'[y]),
                          owned'[x][i] = owned'[y][j]
                   PROVE  x = y /\ i = j
      BY DEF Distinct
    <3>2. x # r /\ y # r
      BY <1>5, <2>2
    <3>3. owned'[x] = owned[x] /\ owned'[y] = owned[y] /\ Distinct(owned)
      BY <1>1, <1>5, <3>2 DEF Held
    <3>4. i \in 1..Len(owned[x]) /\ j \in 1..Len(owned[y]) /\ owned[x][i] = owned[y][j]
      BY <3>1, <3>3
    <3> QED
      BY <3>3, <3>4, ZenonT(60) DEF Distinct
  <2>5. Cardinality({x \in Requests : owned'[x] # <<>>}) <= Rows
    <3> DEFINE B == {x \in Requests : owned'[x] # <<>>}
    <3>1. B \in SUBSET Running /\ Running \in SUBSET Requests
      BY <1>5 DEF Running
    <3> HIDE DEF B
    <3>2. IsFiniteSet(Running)
      BY <3>1, CacheAssumption, FS_Subset
    <3>3. /\ IsFiniteSet(B) /\ Cardinality(B) <= Cardinality(Running)
          /\ Cardinality(Running) \in Nat /\ Cardinality(Running) <= Rows
      BY <1>1, <3>1, <3>2, FS_Subset, FS_CardinalityType DEF Held
    <3>4. Cardinality(B) \in Nat
      BY <3>3, FS_CardinalityType
    <3>5. Cardinality(B) <= Rows
      BY <1>3, <3>3, <3>4
    <3> QED
      BY <3>5 DEF B
  <2> QED
    BY <2>3, <2>4, <2>5 DEF Held, Running, Hold, Distinct
<1>8. KeysIntact'
  <2>1. SUFFICES ASSUME ~exposed', NEW x \in Requests, owned'[x] # <<>>,
                        NEW p \in 0..computed'[x] - 1
                 PROVE  cache'[owned'[x][p \div BlockSize + 1]][p % BlockSize] = <<x, p>>
    BY DEF KeysIntact, Running
  <2>2. x # r /\ owned'[x] = owned[x] /\ computed'[x] = computed[x]
    BY <1>5, <2>1
  <2>3. p \in Nat /\ p < computed[x]
    <3> DEFINE c == computed[x]
    <3>1. c \in 0..MaxLen /\ p \in 0..c - 1
      BY <1>4, <2>2
    <3> HIDE DEF c
    <3>2. p \in Nat /\ p < c
      BY <1>3, <3>1
    <3> QED
      BY <3>2 DEF c
  <2> DEFINE i == p \div BlockSize + 1
             s == p % BlockSize
             b == owned[x][i]
  <2>4. i \in 1..Len(owned[x]) /\ cache[b][s] = <<x, p>>
    BY <1>1, <1>2, <2>1, <2>3, OldKey
  <2>5. s \in 0..BlockSize - 1
    BY <1>3, <2>3, DivMod
  <2>6. b \in DOMAIN cache
    <3>1. owned[x] \in Seq(Blocks)
      BY <1>4
    <3> HIDE DEF i
    <3>2. b \in Blocks
      BY <2>4, <3>1
    <3> QED
      BY <1>1, <3>2 DEF TypeOK
  <2> HIDE DEF i, s, b
  <2>7. cache'[b][s] = IF cache[b][s] # Junk /\ cache[b][s][1] = r THEN Junk ELSE cache[b][s]
    BY <1>2, <2>5, <2>6
  <2>8. cache[b][s][1] # r
    BY <2>2, <2>4
  <2>9. cache'[b][s] = <<x, p>>
    BY <2>4, <2>7, <2>8
  <2> QED
    BY <2>2, <2>9 DEF i, s, b
<1>9. SampledFromOwnTokens'
  BY <1>2 DEF SampledFromOwnTokens
<1> QED
  BY <1>6, <1>7, <1>8, <1>9 DEF CacheInv

\* Every step keeps the invariant.
LEMMA StepInv ==
  ASSUME CacheInv, [Next]_vars
  PROVE  CacheInv'
<1>1. ASSUME NEW rs \in SUBSET (Requests \ Running), NEW num \in [rs -> Prompts],
             Prefill(rs, num)
      PROVE  CacheInv'
  BY <1>1, PrefillPreserves
<1>2. CASE Decode
  BY <1>2, DecodePreserves
<1>3. ASSUME NEW r \in Requests, Leave(r) PROVE CacheInv'
  BY <1>3, LeavePreserves
<1>4. CASE UNCHANGED vars
  <2>1. /\ owned' = owned /\ computed' = computed /\ pageTable' = pageTable
        /\ seqLens' = seqLens /\ cache' = cache /\ exposed' = exposed /\ sampled' = sampled
    BY <1>4 DEF vars
  <2>2. TypeOK'
    BY <2>1 DEF CacheInv, TypeOK, MaxLen
  <2>3. Held'
    BY <2>1, ZenonT(60) DEF CacheInv, Held, Running, Distinct, Hold
  <2>4. KeysIntact'
    BY <2>1, ZenonT(60) DEF CacheInv, KeysIntact, Running
  <2>5. SampledFromOwnTokens'
    BY <2>1, Zenon DEF CacheInv, SampledFromOwnTokens
  <2> QED
    BY <2>2, <2>3, <2>4, <2>5 DEF CacheInv
<1> QED
  BY <1>1, <1>2, <1>3, <1>4 DEF Next

-----------------------------------------------------------------------------
(* The theorems                                                             *)

\* The inductive invariant of the paged cache.
THEOREM AlwaysCacheInv == Spec => []CacheInv
<1>1. Init => CacheInv
  BY InitInv
<1>2. CacheInv /\ [Next]_vars => CacheInv'
  BY StepInv
<1> QED
  BY <1>1, <1>2, PTL DEF Spec

\* For any number of requests, rows and blocks and any block size: until a batch of several
\* requests leaves rows of others in the page table (_prepare_inputs), nothing that
\* paged_update_cache or paged_fill_cache writes, for padded rows and for rows of the null
\* block too, overwrites a key that a running request will attend to.
THEOREM KeysAlwaysIntact == Spec => []KeysIntact
<1>1. CacheInv => KeysIntact
  BY DEF CacheInv
<1> QED
  BY <1>1, AlwaysCacheInv, PTL

\* Until then the next token of a request is sampled from all of its own tokens and from
\* nothing else, in every row of a decode and in the first row of a prefill.
THEOREM AlwaysSampledFromOwn == Spec => []SampledFromOwnTokens
<1>1. CacheInv => SampledFromOwnTokens
  BY DEF CacheInv
<1> QED
  BY <1>1, AlwaysCacheInv, PTL

-----------------------------------------------------------------------------
(* Expert layers, the other custom operations: for layers of any size      *)

MoE == INSTANCE SparseMLP

\* The expert layers there are: any sizes, and each of the implementations.
ExpertLayer ==
    [B : Nat \ {0}, S : Nat \ {0}, E : Nat \ {0}, K : Nat \ {0}, M : Nat \ {0},
     D : Nat \ {0}, I : Nat \ {0}, impl : {"sparse", "stacked", "dense", "fused", "manual"},
     host : BOOLEAN, adapter : BOOLEAN]

\* What a router may choose: K experts for every token.
Routing(c) == [MoE!Tokens(c) -> [1..c.K -> MoE!Experts(c)]]

LEMMA LayerSizes ==
  ASSUME NEW c \in ExpertLayer
  PROVE  /\ c.B \in Nat /\ c.S \in Nat /\ c.E \in Nat /\ c.K \in Nat /\ c.M \in Nat
         /\ c.D \in Nat /\ c.I \in Nat
         /\ c.B > 0 /\ c.S > 0 /\ c.M > 0 /\ c.D > 0 /\ c.I > 0
         /\ c.impl \in {"sparse", "stacked", "dense", "fused", "manual"}
BY DEF ExpertLayer

\* The quotient of a number whose remainder is known.
LEMMA Quotient ==
  ASSUME NEW j \in Nat, NEW d \in Nat \ {0}, NEW r \in 0..d - 1
  PROVE  (d * j + r) \div d = j
<1> DEFINE n == d * j + r
           q == n \div d
           e == n % d
<1>1. n \in Nat
  OBVIOUS
<1>2. n = d * q + e /\ q \in Nat /\ e \in 0..d - 1
  BY <1>1, DivMod
<1>3. n = d * j + r
  OBVIOUS
<1> HIDE DEF n, q, e
<1>4. ASSUME j < q PROVE FALSE
  <2>1. d * (j + 1) <= d * q
    BY <1>2, <1>4
  <2>2. d * (j + 1) = d * j + d
    OBVIOUS
  <2>3. d * j \in Nat /\ d * q \in Nat
    BY <1>2
  <2> QED
    BY <1>2, <1>3, <2>1, <2>2, <2>3
<1>5. ASSUME q < j PROVE FALSE
  <2>1. d * (q + 1) <= d * j
    BY <1>2, <1>5
  <2>2. d * (q + 1) = d * q + d
    BY <1>2
  <2>3. d * j \in Nat /\ d * q \in Nat
    BY <1>2
  <2> QED
    BY <1>2, <1>3, <2>1, <2>2, <2>3
<1>6. q = j
  BY <1>2, <1>4, <1>5
<1> QED
  BY <1>6 DEF q, n

\* The halves of a sequence.
Halved(v, g, u) == /\ SubSeq(v, 1, Len(v) \div 2) = g
                   /\ SubSeq(v, Len(v) \div 2 + 1, Len(v)) = u

\* Two sequences of the same length, one after the other, are the halves of the whole.
LEMMA Halves ==
  ASSUME NEW S, NEW g \in Seq(S), NEW u \in Seq(S), Len(g) = Len(u)
  PROVE  Halved(g \o u, g, u)
<1> DEFINE n == Len(g)
<1>a. n \in Nat /\ Len(g) = n /\ Len(u) = n
  OBVIOUS
<1> HIDE DEF n
<1> DEFINE v == g \o u
<1>1. v \in Seq(S) /\ Len(v) = n + n /\ \A i \in 1..n + n : v[i] = IF i <= n THEN g[i] ELSE u[i - n]
  BY <1>a, ConcatProperties
<1> HIDE DEF v
<1>2. \A i \in 1..n : v[i] = g[i] /\ v[n + i] = u[i] /\ v[(n + 1) + i - 1] = u[i]
  <2> TAKE i \in 1..n
  <2>1. i \in 1..n + n /\ n + i \in 1..n + n /\ (n + i) - n = i /\ ~(n + i <= n)
        /\ (n + 1) + i - 1 = n + i /\ i <= n
    BY <1>a
  <2> QED
    BY <1>1, <2>1
<1>3. /\ \A i \in 1..n : g[i] \in S /\ u[i] \in S
      /\ \A i \in 1..n + n : v[i] \in S
  BY <1>a, <1>1
<1>4. SubSeq(v, 1, n) = g
  <2>1. SubSeq(v, 1, n) \in Seq(S) /\ Len(SubSeq(v, 1, n)) = n
        /\ \A i \in 1..n : SubSeq(v, 1, n)[i] = v[i]
    <3>1. \A i \in 1..n : v[i] \in S
      BY <1>2, <1>3
    <3>2. /\ SubSeq(v, 1, n) \in Seq(S)
          /\ Len(SubSeq(v, 1, n)) = IF 1 <= n THEN n - 1 + 1 ELSE 0
          /\ \A i \in 1..n - 1 + 1 : SubSeq(v, 1, n)[i] = v[1 + i - 1]
      BY <1>a, <3>1, SubSeqProperties
    <3>3. n - 1 + 1 = n /\ \A i \in 1..n : 1 + i - 1 = i
      BY <1>a
    <3> QED
      BY <1>a, <3>2, <3>3
  <2> QED
    BY <1>a, <1>2, <2>1, SeqEqual
<1>5. SubSeq(v, n + 1, n + n) = u
  <2> DEFINE q == SubSeq(v, n + 1, n + n)
  <2>1. q \in Seq(S) /\ Len(q) = n /\ \A i \in 1..n : q[i] = v[(n + 1) + i - 1]
    <3>1. \A i \in n + 1..n + n : v[i] \in S
      BY <1>a, <1>3
    <3>2. /\ q \in Seq(S)
          /\ Len(q) = IF n + 1 <= n + n THEN (n + n) - (n + 1) + 1 ELSE 0
          /\ \A i \in 1..(n + n) - (n + 1) + 1 : q[i] = v[(n + 1) + i - 1]
      BY <1>a, <3>1, SubSeqProperties
    <3>3. (n + n) - (n + 1) + 1 = n
      BY <1>a
    <3> HIDE DEF q
    <3> QED
      BY <1>a, <3>2, <3>3
  <2> HIDE DEF q
  <2>2. q = u
    BY <1>a, <1>2, <2>1, SeqEqual
  <2> QED
    BY <2>2 DEF q
<1>6. Len(v) = n + n /\ (n + n) \div 2 = n
  BY <1>a, <1>1
<1>7. Halved(v, g, u)
  BY <1>4, <1>5, <1>6, Zenon DEF Halved
<1> QED
  BY <1>7 DEF v

\* The columns of gate and up are paired as they were, however they are stored.
LEMMA ColumnsPaired ==
  ASSUME NEW c \in ExpertLayer
  PROVE  MoE!Columns(c) = MoE!Strided(MoE!Interleaved(c))
<1> DEFINE w == MoE!Interleaved(c)
           g == MoE!Strided(w).gate
           u == MoE!Strided(w).up
           S == {w[i] : i \in 1..2 * c.I}
<1>1. c.I \in Nat
  BY LayerSizes
<1>2. Len(w) = 2 * c.I /\ Len(w) \div 2 = c.I
  BY <1>1 DEF MoE!Interleaved
<1>3. /\ g = [i \in 1..c.I |-> w[2 * i - 1]] /\ u = [i \in 1..c.I |-> w[2 * i]]
      /\ MoE!Strided(w) = [gate |-> g, up |-> u]
  BY <1>2 DEF MoE!Strided
<1> HIDE DEF g, u
<1>4. MoE!Deinterleaved(w) = g \o u
  BY DEF MoE!Deinterleaved, g, u
<1> HIDE DEF w
<1>5. g \in Seq(S) /\ u \in Seq(S) /\ Len(g) = c.I /\ Len(u) = c.I
  <2>1. \A i \in 1..c.I : 2 * i - 1 \in 1..2 * c.I /\ 2 * i \in 1..2 * c.I
    BY <1>1
  <2>2. \A i \in 1..c.I : w[2 * i - 1] \in S /\ w[2 * i] \in S
    BY <2>1
  <2>3. g \in [1..c.I -> S] /\ u \in [1..c.I -> S]
    BY <1>3, <2>2
  <2> HIDE DEF S
  <2>4. ASSUME NEW n \in Nat, NEW f \in [1..n -> S] PROVE f \in Seq(S) /\ Len(f) = n
    OBVIOUS
  <2> QED
    BY <1>1, <2>3, <2>4
<1> HIDE DEF S
<1>6. MoE!Contiguous(g \o u) = [gate |-> g, up |-> u]
  <2>1. Halved(g \o u, g, u)
    <3>1. Len(g) = Len(u)
      BY <1>5
    <3> QED
      BY <1>5, <3>1, Halves, Zenon
  <2> QED
    BY <2>1, Zenon DEF MoE!Contiguous, Halved
<1> QED
  BY <1>3, <1>4, <1>6 DEF MoE!Columns, w

\* A number put together again from its quotient and its remainder.
LEMMA PutTogether ==
  ASSUME NEW n \in Nat, NEW d \in Nat \ {0}
  PROVE  (n \div d) * d + (n % d) = n
<1> DEFINE q == n \div d
           r == n % d
<1>1. n = d * q + r /\ q \in Nat /\ r \in 0..d - 1
  BY DivMod
<1> HIDE DEF q, r
<1>2. q * d = d * q
  BY <1>1
<1>3. q * d + r = n
  BY <1>1, <1>2
<1> QED
  BY <1>3 DEF q, r

\* The run that a place is in, if rows consist of whole runs.
InRun(b, s, m, k) == (b * (m * k) + s) \div m = b * k + (s \div m)

LEMMA RunOf ==
  ASSUME NEW b \in Nat, NEW s \in Nat, NEW m \in Nat \ {0}, NEW k \in Nat
  PROVE  InRun(b, s, m, k)
<1> DEFINE q == s \div m
           r == s % m
           j == b * k + q
<1>1. s = m * q + r /\ q \in Nat /\ r \in 0..m - 1
  BY DivMod
<1> HIDE DEF q, r
<1>2. b * k \in Nat /\ m * (b * k) \in Nat /\ m * q \in Nat /\ m * k \in Nat /\ r \in Nat
  BY <1>1
<1>3. j \in Nat
  BY <1>1, <1>2
<1>4. b * (m * k) = m * (b * k)
  OBVIOUS
<1>5. m * j = m * (b * k) + m * q
  BY <1>1, <1>2
<1> HIDE DEF j
<1>6. m * j \in Nat
  BY <1>2, <1>3
<1>7. b * (m * k) + s = m * j + r
  <2>1. b * (m * k) + s = m * (b * k) + (m * q + r)
    BY <1>1, <1>4
  <2>2. m * (b * k) + (m * q + r) = (m * (b * k) + m * q) + r
    BY <1>2
  <2> QED
    BY <1>5, <2>1, <2>2
<1>8. (m * j + r) \div m = j
  BY <1>1, <1>3, Quotient
<1> QED
  BY <1>7, <1>8 DEF j, q, InRun

\* The places of the dispatched rows.
Places(c) == (0..MoE!BD(c) - 1) \X (0..c.S - 1)

\* The result of a tile goes where the token came from.
LEMMA PlaceOfTile ==
  ASSUME NEW c \in ExpertLayer, NEW p \in Places(c)
  PROVE  MoE!PlaceOf(c, MoE!TileOf(c, p[1], p[2])) = p
<1>1. /\ c.M \in Nat \ {0} /\ c.S \in Nat /\ MoE!BD(c) \in Nat
  BY LayerSizes DEF MoE!BD
<1>2. p[1] \in Nat /\ p[2] \in Nat /\ p = <<p[1], p[2]>>
  BY <1>1 DEF Places
<1>3. (p[1] \div c.M) * c.M + (p[1] % c.M) = p[1] /\ (p[2] \div c.M) * c.M + (p[2] % c.M) = p[2]
  BY <1>1, <1>2, PutTogether
<1> DEFINE t == MoE!TileOf(c, p[1], p[2])
<1>4. CASE MoE!SplitSeq(c)
  <2>1. t.row = p[1] /\ t.column = p[2] \div c.M /\ t.at = p[2] % c.M
    BY <1>4 DEF MoE!TileOf
  <2> HIDE DEF t
  <2>2. MoE!PlaceOf(c, t) = <<t.row, t.column * c.M + t.at>>
    BY <1>4, Zenon DEF MoE!PlaceOf
  <2>3. MoE!PlaceOf(c, t) = p
    BY <1>2, <1>3, <2>1, <2>2, Zenon
  <2> QED
    BY <2>3 DEF t
<1>5. CASE ~MoE!SplitSeq(c)
  <2>1. t.row = p[1] \div c.M /\ t.column = p[2] /\ t.at = p[1] % c.M
    BY <1>5 DEF MoE!TileOf
  <2> HIDE DEF t
  <2>2. MoE!PlaceOf(c, t) = <<t.row * c.M + t.at, t.column>>
    BY <1>5, Zenon DEF MoE!PlaceOf
  <2>3. MoE!PlaceOf(c, t) = p
    BY <1>2, <1>3, <2>1, <2>2, Zenon
  <2> QED
    BY <2>3 DEF t
<1> QED
  BY <1>4, <1>5

\* The runs of M tokens that moe_expert_token_remap reduces are the tiles of the fused path,
\* if rows are cut into tiles or have a single token.
LEMMA RunIsTile ==
  ASSUME NEW c \in ExpertLayer, NEW p \in Places(c), MoE!SplitSeq(c) \/ c.S = 1
  PROVE  (p[1] * c.S + p[2]) \div c.M
            = MoE!TileOf(c, p[1], p[2]).row * MoE!DimB(c) + MoE!TileOf(c, p[1], p[2]).column
<1> DEFINE t == MoE!TileOf(c, p[1], p[2])
<1>1. /\ c.M \in Nat \ {0} /\ c.S \in Nat \ {0} /\ MoE!BD(c) \in Nat
  BY LayerSizes DEF MoE!BD
<1>2. p[1] \in Nat /\ p[2] \in Nat /\ p[2] < c.S
  BY <1>1 DEF Places
<1>3. CASE MoE!SplitSeq(c)
  <2>1. /\ t.row = p[1] /\ t.column = p[2] \div c.M
        /\ MoE!DimB(c) = c.S \div c.M
    BY <1>3 DEF MoE!TileOf, MoE!DimB
  <2>2. c.S = c.M * (c.S \div c.M) /\ c.S \div c.M \in Nat
    <3>1. (c.S \div c.M) * c.M + (c.S % c.M) = c.S /\ c.S \div c.M \in Nat
      BY <1>1, PutTogether, DivMod
    <3>2. c.S % c.M = 0
      BY <1>3 DEF MoE!SplitSeq
    <3> QED
      BY <1>1, <3>1, <3>2
  <2>3. (p[1] * (c.M * (c.S \div c.M)) + p[2]) \div c.M = p[1] * (c.S \div c.M) + (p[2] \div c.M)
    <3>1. InRun(p[1], p[2], c.M, c.S \div c.M)
      BY <1>1, <1>2, <2>2, RunOf
    <3> QED
      BY <3>1, Zenon DEF InRun
  <2> HIDE DEF t
  <2>4. (p[1] * c.S + p[2]) \div c.M = t.row * MoE!DimB(c) + t.column
    BY <2>1, <2>2, <2>3, Zenon
  <2> QED
    BY <2>4 DEF t
<1>4. CASE ~MoE!SplitSeq(c) /\ c.S = 1
  <2>1. /\ t.row = p[1] \div c.M /\ t.column = p[2]
        /\ MoE!DimB(c) = 1
    BY <1>4 DEF MoE!TileOf, MoE!DimB
  <2>2. p[2] = 0 /\ p[1] * c.S + p[2] = p[1]
    BY <1>2, <1>4
  <2>3. p[1] \div c.M \in Nat
    BY <1>1, <1>2, DivMod
  <2>4. (p[1] \div c.M) * 1 + 0 = p[1] \div c.M
    BY <2>3
  <2> HIDE DEF t
  <2>5. (p[1] * c.S + p[2]) \div c.M = t.row * MoE!DimB(c) + t.column
    BY <2>1, <2>2, <2>4, Zenon
  <2> QED
    BY <2>5 DEF t
<1> QED
  BY <1>3, <1>4

\* The experts that a router has chosen for a token.
LEMMA OwnExperts ==
  ASSUME NEW c \in ExpertLayer, NEW route \in Routing(c), NEW token \in MoE!Tokens(c)
  PROVE  /\ \A k \in 1..c.K : route[token][k] \in MoE!Experts(c)
         /\ MoE!ToSet(route[token]) = {route[token][k] : k \in 1..c.K}
<1>1. route[token] \in [1..c.K -> MoE!Experts(c)]
  BY DEF Routing
<1>2. DOMAIN route[token] = 1..c.K
  BY <1>1
<1> QED
  BY <1>1, <1>2 DEF MoE!ToSet

\* The first copy of a token is dispatched at its own place.
LEMMA FirstCopy ==
  ASSUME NEW c \in ExpertLayer, NEW token \in MoE!Tokens(c)
  PROVE  /\ token \in Places(c) /\ token = <<token[1], token[2]>>
         /\ MoE!Dispatched(c, token[1], token[2]) = token
<1>1. c.B \in Nat /\ c.B > 0 /\ c.D \in Nat /\ c.D > 0
  BY LayerSizes
<1>2. /\ token[1] \in 0..c.B - 1 /\ token[2] \in 0..c.S - 1
      /\ token = <<token[1], token[2]>>
  BY DEF MoE!Tokens
<1>3. token[1] \in 0..(c.B * c.D) - 1
  <2>1. ASSUME NEW b \in Nat, NEW d \in Nat, d > 0 PROVE b * d \in Nat /\ b <= b * d
    <3>1. b * d = b * (d - 1) + b /\ d - 1 \in Nat
      BY <2>1
    <3>2. b * (d - 1) \in Nat
      BY <3>1
    <3> QED
      BY <3>1, <3>2
  <2>2. c.B * c.D \in Nat /\ c.B <= c.B * c.D
    BY <1>1, <2>1
  <2> QED
    BY <1>1, <1>2, <2>2
<1>4. token[1] % c.B = token[1]
  BY <1>1, <1>2
<1>5. MoE!Dispatched(c, token[1], token[2]) = token
  BY <1>2, <1>4, Zenon DEF MoE!Dispatched
<1>6. token \in Places(c)
  BY <1>2, <1>3 DEF Places, MoE!BD
<1> QED
  BY <1>2, <1>5, <1>6

\* What an expert computes, with its columns as the model has them.
Expected(c, token, e) == {[token |-> token, expert |-> e,
                           columns |-> MoE!Strided(MoE!Interleaved(c))]}

LEMMA ComputedAsExpected ==
  ASSUME NEW c \in ExpertLayer, NEW token, NEW e, NEW mask, e \in mask
  PROVE  MoE!SparseMatmul(c, mask, token, e) = Expected(c, token, e)
BY ColumnsPaired DEF MoE!SparseMatmul, MoE!Computed, Expected

\* The tile whose result goes to a place, and the place of it, are found.
LEMMA TileFound ==
  ASSUME NEW c \in ExpertLayer, NEW p \in Places(c)
  PROVE  LET t == CHOOSE t \in {MoE!TileOf(c, q[1], q[2]) : q \in Places(c)} :
                      MoE!PlaceOf(c, t) = p
         IN /\ t = MoE!TileOf(c, p[1], p[2])
            /\ (CHOOSE q \in Places(c) : MoE!TileOf(c, q[1], q[2]) = t) = p
<1> DEFINE T == {MoE!TileOf(c, q[1], q[2]) : q \in Places(c)}
           t == CHOOSE t \in T : MoE!PlaceOf(c, t) = p
           r == CHOOSE q \in Places(c) : MoE!TileOf(c, q[1], q[2]) = t
<1>1. MoE!TileOf(c, p[1], p[2]) \in T /\ MoE!PlaceOf(c, MoE!TileOf(c, p[1], p[2])) = p
  BY PlaceOfTile
<1>2. t \in T /\ MoE!PlaceOf(c, t) = p
  BY <1>1, Zenon
<1> HIDE DEF t
<1>3. PICK q \in Places(c) : t = MoE!TileOf(c, q[1], q[2])
  BY <1>2
<1>4. q = p
  BY <1>2, <1>3, PlaceOfTile, Zenon
<1>5. t = MoE!TileOf(c, p[1], p[2])
  BY <1>3, <1>4, Zenon
<1>6. r \in Places(c) /\ MoE!TileOf(c, r[1], r[2]) = t
  BY <1>3, Zenon
<1> HIDE DEF r
<1>7. r = p
  BY <1>2, <1>6, PlaceOfTile, Zenon
<1> QED
  BY <1>5, <1>7, Zenon DEF t, r

\* A tile is computed for the experts of each of its tokens.
LEMMA NotSkipped ==
  ASSUME NEW c \in ExpertLayer, NEW route \in Routing(c), NEW token \in MoE!Tokens(c),
         NEW e \in MoE!ToSet(route[token]),
         c.impl = "fused" => MoE!SplitSeq(c) \/ c.S = 1
  PROVE  LET t == MoE!TileOf(c, token[1], token[2])
         IN /\ c.impl = "fused" => e \in MoE!FusedMask(c, route, t)
            /\ e \in MoE!ManualMask(c, route, t)
            /\ e \in MoE!DenseMask(c, route, t)
            /\ e \in MoE!StackedMask(c, route, token)
<1> DEFINE t == MoE!TileOf(c, token[1], token[2])
<1>1. /\ token \in Places(c) /\ token = <<token[1], token[2]>>
      /\ MoE!Dispatched(c, token[1], token[2]) = token
  BY FirstCopy
<1>2. e \in MoE!ToSet(route[MoE!Dispatched(c, token[1], token[2])])
  BY <1>1, Zenon
<1>3. ASSUME c.impl = "fused" PROVE e \in MoE!FusedMask(c, route, t)
  <2>1. (token[1] * c.S + token[2]) \div c.M = t.row * MoE!DimB(c) + t.column
    <3>1. MoE!SplitSeq(c) \/ c.S = 1
      BY <1>3
    <3> QED
      BY <1>1, <3>1, RunIsTile, Zenon
  <2>2. token \in {p \in Places(c) : (p[1] * c.S + p[2]) \div c.M = t.row * MoE!DimB(c) + t.column}
    BY <1>1, <2>1, Zenon
  <2> HIDE DEF t
  <2> QED
    BY <1>2, <2>2, Zenon DEF MoE!FusedMask, MoE!MoeExpertTokenRemap, Places
<1>4. e \in MoE!ManualMask(c, route, t)
  <2>1. token \in {p \in Places(c) : LET u == MoE!TileOf(c, p[1], p[2])
                                     IN u.row = t.row /\ u.column = t.column}
    BY <1>1, Zenon
  <2> HIDE DEF t
  <2> QED
    BY <1>2, <2>1, Zenon DEF MoE!ManualMask, Places
<1>5. e \in MoE!DenseMask(c, route, t)
  BY OwnExperts DEF MoE!DenseMask
<1> QED
  BY <1>3, <1>4, <1>5, Zenon DEF MoE!StackedMask

\* The result that the down projection has for a token and an expert of its own.
LEMMA DownOutOwn ==
  ASSUME NEW c \in ExpertLayer, NEW route \in Routing(c), NEW token \in MoE!Tokens(c),
         NEW e \in MoE!ToSet(route[token]), c.impl # "sparse",
         c.impl = "fused" => MoE!SplitSeq(c) \/ c.S = 1
  PROVE  MoE!DownOut(c, route, e, token[1], token[2]) = Expected(c, token, e)
<1> DEFINE t == CHOOSE t \in {MoE!TileOf(c, q[1], q[2]) : q \in Places(c)} :
                    MoE!PlaceOf(c, t) = token
           p == CHOOSE q \in Places(c) : MoE!TileOf(c, q[1], q[2]) = t
           own == MoE!Dispatched(c, p[1], p[2])
           first == MoE!Dispatched(c, token[1], token[2])
<1>1. token \in Places(c) /\ token = <<token[1], token[2]>> /\ first = token
  BY FirstCopy
<1>2. t = MoE!TileOf(c, token[1], token[2]) /\ p = token
  BY <1>1, TileFound, Zenon
<1>3. MoE!DownOut(c, route, e, token[1], token[2]) =
         CASE c.impl = "fused" -> MoE!SparseMatmul(c, MoE!FusedMask(c, route, t), own, e)
           [] c.impl = "manual" -> MoE!SparseMatmul(c, MoE!ManualMask(c, route, t), own, e)
           [] c.impl = "dense" -> MoE!SparseMatmul(c, MoE!DenseMask(c, route, t), own, e)
           [] c.impl = "stacked" ->
                  MoE!SparseMatmul(c, MoE!StackedMask(c, route, first), first, e)
  BY <1>1, Zenon DEF MoE!DownOut, Places
<1>4. own = token
  BY <1>1, <1>2, Zenon
<1> HIDE DEF t, p, own, first
<1>5. /\ c.impl = "fused" => e \in MoE!FusedMask(c, route, t)
      /\ e \in MoE!ManualMask(c, route, t)
      /\ e \in MoE!DenseMask(c, route, t)
      /\ e \in MoE!StackedMask(c, route, first)
  BY <1>1, <1>2, NotSkipped, Zenon
<1>6. c.impl \in {"stacked", "dense", "fused", "manual"}
  BY LayerSizes
<1> QED
  BY <1>1, <1>3, <1>4, <1>5, <1>6, ComputedAsExpected, Zenon

\* On the host, too, the experts that are hit are applied to the tokens that chose them.
LEMMA GoldenForwardOwn ==
  ASSUME NEW c \in ExpertLayer, NEW route \in Routing(c), NEW token \in MoE!Tokens(c)
  PROVE  MoE!GoldenForward(c, route, token)
            = {[score |-> e, value |-> Expected(c, token, e)] : e \in MoE!ToSet(route[token])}
<1> DEFINE own == MoE!ToSet(route[token])
           hit == UNION {MoE!ToSet(route[t]) : t \in MoE!Tokens(c)}
           tokens(e) == {t \in MoE!Tokens(c) : e \in MoE!ToSet(route[t])}
<1>1. {e \in hit : token \in tokens(e)} = own
  OBVIOUS
<1>2. MoE!GoldenForward(c, route, token)
        = {[score |-> e, value |-> MoE!Computed(c, token, e)] :
              e \in {e \in hit : token \in tokens(e)}}
  BY Zenon DEF MoE!GoldenForward
<1>3. \A e \in own : MoE!Computed(c, token, e) = Expected(c, token, e)
  BY ColumnsPaired, Zenon DEF MoE!Computed, Expected
<1> HIDE DEF own, hit, tokens
<1> QED
  BY <1>1, <1>2, <1>3 DEF own

\* Whatever the sizes of an expert layer, the form its weights have and the experts the
\* router chooses, every token gets the outputs of its own experts on the device and on the
\* host, as long as the layer does not raise and, on the fused path, its tiles are those of
\* the mask (SparseMLP, A2aSparseStackedMlp, A2aSparseMLP).
THEOREM AlwaysRoutedToOwnExperts ==
  ASSUME NEW c \in ExpertLayer, NEW route \in Routing(c)
  PROVE  MoE!RoutedToOwnExperts(c, route)
<1> SUFFICES ASSUME MoE!Aligned(c), NEW token \in MoE!Tokens(c)
             PROVE  MoE!Forward(c, route, token) = MoE!Reference(c, route, token)
  BY Zenon DEF MoE!RoutedToOwnExperts
<1>a. (c.impl = "fused" /\ ~c.host) => (MoE!SplitSeq(c) \/ c.S = 1)
  BY DEF MoE!Aligned
<1> DEFINE own == MoE!ToSet(route[token])
<1>1. /\ \A k \in 1..c.K : route[token][k] \in MoE!Experts(c)
      /\ own = {route[token][k] : k \in 1..c.K}
  BY OwnExperts
<1>2. MoE!Reference(c, route, token) = {[score |-> e, value |-> Expected(c, token, e)] : e \in own}
  BY DEF MoE!Reference, Expected
<1> HIDE DEF own
<1>3. CASE c.impl = "sparse"
  <2>1. \A e \in own : MoE!SparseMatmul(c, own, token, e) = Expected(c, token, e)
    BY ComputedAsExpected
  <2>2. MoE!Forward(c, route, token) =
          {[score |-> e, value |-> MoE!SparseMatmul(c, own, token, e)] : e \in own}
    BY <1>3, Zenon DEF MoE!Forward, MoE!SparseForward, own
  <2> QED
    BY <1>2, <2>1, <2>2
<1>4. CASE c.impl # "sparse" /\ c.impl \in MoE!A2A /\ c.host
  <2>1. MoE!Forward(c, route, token) = MoE!GoldenForward(c, route, token)
    BY <1>4, Zenon DEF MoE!Forward
  <2> QED
    BY <1>2, <2>1, GoldenForwardOwn, Zenon DEF own
<1>5. CASE c.impl # "sparse" /\ ~(c.impl \in MoE!A2A /\ c.host)
  <2>a. c.impl = "fused" => (MoE!SplitSeq(c) \/ c.S = 1)
    BY <1>a, <1>5 DEF MoE!A2A
  <2> DEFINE downOut == [e \in MoE!Experts(c) |->
                            [p \in Places(c) |-> MoE!DownOut(c, route, e, p[1], p[2])]]
             combined == MoE!AllToAllCombine(c, route, downOut, token)
  <2>1. MoE!Forward(c, route, token) = {[score |-> route[token][k], value |-> combined[k]] :
                                           k \in 1..c.K}
    BY <1>5, Zenon DEF MoE!Forward, MoE!Weighted, Places
  <2>2. token \in Places(c)
    BY FirstCopy
  <2>3. ASSUME NEW k \in 1..c.K
        PROVE  combined[k] = Expected(c, token, route[token][k])
    <3>1. combined[k] = downOut[route[token][k]][token]
      BY DEF MoE!AllToAllCombine
    <3>2. route[token][k] \in MoE!Experts(c) /\ route[token][k] \in own
      BY <1>1
    <3>3. downOut[route[token][k]][token]
            = MoE!DownOut(c, route, route[token][k], token[1], token[2])
      BY <2>2, <3>2
    <3>4. MoE!DownOut(c, route, route[token][k], token[1], token[2])
            = Expected(c, token, route[token][k])
      BY <1>5, <2>a, <3>2, DownOutOwn, Zenon DEF own
    <3> QED
      BY <3>1, <3>3, <3>4, Zenon
  <2> HIDE DEF combined
  <2>4. MoE!Forward(c, route, token) =
          {[score |-> route[token][k], value |-> Expected(c, token, route[token][k])] :
              k \in 1..c.K}
    BY <2>1, <2>3
  <2>5. {[score |-> route[token][k], value |-> Expected(c, token, route[token][k])] :
              k \in 1..c.K}
          = {[score |-> e, value |-> Expected(c, token, e)] : e \in own}
    BY <1>1
  <2> QED
    BY <1>2, <2>4, <2>5
<1> QED
  BY <1>3, <1>4, <1>5
=============================================================================
