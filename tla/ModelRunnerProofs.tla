------------------------- MODULE ModelRunnerProofs -------------------------
(***************************************************************************)
(* Proofs about ModelRunner, for any finite set of requests and any size   *)
(* of the batch: when the model runs, the batch is what was scheduled, and *)
(* the batch that is kept from step to step implements PersistentBatch.    *)
(* Then about the pure parts of the runner, for all their inputs: sampling *)
(* (Sampler) and the expert layers of a model (ModelLoading).              *)
(***************************************************************************)
EXTENDS ModelRunner, LibraryFacts

\* The cached state of a request.  (Its tokens are bounded by the guards of SchedulerOutputs
\* when it is scheduled, and by nothing else.)
Cached == [has : Options, tokens : Nat \ {0}, blocks : 1..MaxBlocks]

\* The types of the variables that the proofs are about.
TypeOK ==
    /\ requests \in [Requests -> Cached \cup {NoOne}]
    /\ reqIds \in Seq(Requests \cup {NoOne})
    /\ Len(reqIds) <= MaxReqs
    /\ index \in [Requests -> Slots \cup {NoOne}]
    /\ row \in [Slots -> [req : Requests \cup {NoOne}, tokens : Nat, blocks : Nat]]
    /\ params \in [Slots -> Requests \cup {NoOne}]
    /\ pc \in {"idle", "add", "condense", "sample"}
    /\ scheduled \subseteq Requests
    /\ toAdd \in Seq(Requests)
    /\ removed \subseteq 1..Len(reqIds)
    /\ last \in Nat
    /\ start \in Nat \ {0}

\* The slots in use.
Occupied == {s \in 1..Len(reqIds) : reqIds[s] # NoOne}

\* _req_ids and req_id_to_index are inverses of each other.
Inverses ==
    /\ \A r \in Requests : index[r] # NoOne => /\ index[r] \in 1..Len(reqIds)
                                               /\ reqIds[index[r]] = r
    /\ \A s \in Occupied : index[reqIds[s]] = s

\* The empty slots are the removed ones; condense also leaves empty ones behind it.
Gaps ==
    /\ pc # "condense" => \A s \in 1..Len(reqIds) : reqIds[s] = NoOne <=> s \in removed
    /\ pc = "condense" =>
          /\ last <= Len(reqIds)
          /\ \A s \in 1..Len(reqIds) : reqIds[s] = NoOne <=> s \in removed \/ s > last
    /\ pc \in {"idle", "sample"} => removed = {}

\* The requests of the batch are those of the step.
Members ==
    /\ InBatch \subseteq {r \in Requests : requests[r] # NoOne}
    /\ scheduled \subseteq {r \in Requests : requests[r] # NoOne}
    /\ Cardinality(scheduled) <= MaxReqs
    /\ pc = "add" => /\ InBatch \cup ToSet(toAdd) = scheduled
                     /\ InBatch \cap ToSet(toAdd) = {}
                     /\ IsInjective(toAdd)
    /\ pc \in {"condense", "sample"} => InBatch = scheduled
    /\ pc \in {"condense", "sample"} => scheduled # {}
    /\ pc = "idle" => scheduled = {}

\* A slot in use holds the row and the parameters of its request, and the other slots no
\* parameters.
Contents ==
    /\ \A s \in Occupied : LET r == reqIds[s] IN
          /\ row[s] = [req |-> r, tokens |-> requests[r].tokens, blocks |-> requests[r].blocks]
          /\ params[s] = IF "params" \in requests[r].has THEN r ELSE NoOne
    /\ \A s \in Slots : s \notin Occupied => params[s] = NoOne

\* One execution of the model is enough for the whole batch.
OneChunk == ChunkSize >= MaxReqs => start = 1

RunnerInv ==
    /\ TypeOK
    /\ Inverses
    /\ Gaps
    /\ Members
    /\ Contents
    /\ OneChunk

-----------------------------------------------------------------------------

\* The assumptions on the constants, one by one.
LEMMA Bounds ==
  /\ IsFiniteSet(Requests)
  /\ MaxReqs \in Nat \ {0} /\ ChunkSize \in Nat \ {0} /\ MaxTokens \in Nat \ {0}
  /\ MaxBlocks \in Nat \ {0}
  /\ NoOne \notin Requests /\ NoOne \notin Nat /\ NoOne \notin Cached /\ NoOne \notin Slots
<1>1. NoOne \notin Requests /\ NoOne \notin Nat
  BY RunnerAssumption
<1>2. NoOne \notin Cached
  BY RunnerAssumption DEF Cached
<1>3. MaxReqs \in Nat \ {0}
  BY RunnerAssumption
<1>4. NoOne \notin Slots
  BY <1>1, <1>3 DEF Slots
<1> QED
  BY <1>1, <1>2, <1>3, <1>4, RunnerAssumption

\* The batch has as many requests as slots in use.
LEMMA Count ==
  ASSUME TypeOK, Inverses
  PROVE  /\ IsFiniteSet(InBatch) /\ IsFiniteSet(Occupied)
         /\ NumReqs = Cardinality(Occupied) /\ NumReqs \in Nat
         /\ \A r \in InBatch : r \in Requests /\ index[r] \in Occupied /\ reqIds[index[r]] = r
         /\ \A s \in Occupied : /\ reqIds[s] \in InBatch /\ index[reqIds[s]] = s
                                /\ s \in Nat /\ s >= 1
         /\ Occupied \subseteq 1..Len(reqIds) /\ Len(reqIds) \in Nat
<1>1. Len(reqIds) \in Nat /\ Occupied \subseteq 1..Len(reqIds)
      /\ reqIds \in Seq(Requests \cup {NoOne})
  BY DEF TypeOK, Occupied
<1>2. \A r \in InBatch : r \in Requests /\ index[r] \in Occupied /\ reqIds[index[r]] = r
  BY Bounds DEF InBatch, Occupied, Inverses
<1>3. \A s \in Occupied : reqIds[s] \in InBatch /\ index[reqIds[s]] = s
  <2>1. SUFFICES ASSUME NEW s \in Occupied PROVE reqIds[s] \in InBatch /\ index[reqIds[s]] = s
    OBVIOUS
  <2>2. s \in 1..Len(reqIds) /\ reqIds[s] # NoOne /\ reqIds[s] \in Requests
    BY <1>1 DEF Occupied
  <2>3. index[reqIds[s]] = s
    BY DEF Inverses
  <2>4. s # NoOne
    BY <1>1, <2>2, Bounds
  <2> QED
    BY <2>2, <2>3, <2>4 DEF InBatch
<1>4. IsFiniteSet(Occupied)
  <2>1. IsFiniteSet(1..Len(reqIds))
    BY <1>1, FS_Interval
  <2> QED
    BY <1>1, <2>1, FS_Subset
<1> DEFINE f == [s \in Occupied |-> reqIds[s]]
<1>5. f \in Bijection(Occupied, InBatch)
  <2>1. f \in [Occupied -> InBatch]
    BY <1>3
  <2>2. \A r \in InBatch : \E s \in Occupied : f[s] = r
    BY <1>2
  <2>3. \A s, t \in Occupied : f[s] = f[t] => s = t
    BY <1>3
  <2> HIDE DEF f
  <2> QED
    BY <2>1, <2>2, <2>3 DEF Bijection, Injection, Surjection, IsInjective
<1>6. IsFiniteSet(InBatch) /\ Cardinality(InBatch) = Cardinality(Occupied)
  <2>1. ExistsBijection(Occupied, InBatch)
    BY <1>5 DEF ExistsBijection
  <2> QED
    BY <1>4, <2>1, FS_Bijection
<1>7. NumReqs = Cardinality(Occupied) /\ NumReqs \in Nat
  BY <1>4, <1>6, FS_CardinalityType DEF NumReqs
<1>8. \A s \in Occupied : s \in Nat /\ s >= 1
  BY <1>1
<1> QED
  BY <1>1, <1>2, <1>3, <1>4, <1>6, <1>7, <1>8

\* Before condense the batch and the removed slots fill the list.
LEMMA Full ==
  ASSUME TypeOK, Inverses, Gaps, pc # "condense"
  PROVE  /\ Occupied = (1..Len(reqIds)) \ removed
         /\ IsFiniteSet(removed) /\ Cardinality(removed) \in Nat
         /\ NumReqs + Cardinality(removed) = Len(reqIds)
<1>1. Len(reqIds) \in Nat /\ removed \subseteq 1..Len(reqIds)
  BY DEF TypeOK
<1>2. Occupied = (1..Len(reqIds)) \ removed
  BY DEF Gaps, Occupied
<1>3. IsFiniteSet(1..Len(reqIds)) /\ Cardinality(1..Len(reqIds)) = Len(reqIds)
  <2> DEFINE n == Len(reqIds)
  <2>1. n \in Int /\ 1 \in Int
    BY <1>1
  <2> HIDE DEF n
  <2>2. IsFiniteSet(1..n) /\ Cardinality(1..n) = IF 1 > n THEN 0 ELSE n - 1 + 1
    BY <2>1, FS_Interval, Zenon
  <2>3. n \in Nat
    BY <1>1 DEF n
  <2>4. Cardinality(1..n) = n
    BY <2>2, <2>3
  <2> QED
    BY <2>2, <2>4 DEF n
<1>4. IsFiniteSet(removed) /\ Cardinality(removed) \in Nat
  BY <1>1, <1>3, FS_Subset, FS_CardinalityType
<1>5. (1..Len(reqIds)) \cap removed = removed
  BY <1>1
<1>6. Cardinality(Occupied) = Cardinality(1..Len(reqIds)) - Cardinality(removed)
  <2> DEFINE S == 1..Len(reqIds)
  <2>1. IsFiniteSet(S) /\ S \cap removed = removed /\ Occupied = S \ removed
    BY <1>2, <1>3, <1>5
  <2> HIDE DEF S
  <2>2. Cardinality(S \ removed) = Cardinality(S) - Cardinality(S \cap removed)
    BY <2>1, FS_Difference, Zenon
  <2> QED
    BY <2>1, <2>2 DEF S
<1>7. NumReqs = Cardinality(Occupied) /\ NumReqs \in Nat
  BY Count
<1> QED
  BY <1>1, <1>2, <1>3, <1>4, <1>6, <1>7

\* Nothing is in the batch at first.
LEMMA InitInv == Init => RunnerInv
<1> SUFFICES ASSUME Init PROVE RunnerInv
  OBVIOUS
<1>0. Occupied = {} /\ InBatch = {} /\ Len(<<>>) = 0
  BY DEF Init, Occupied, InBatch
<1>1. TypeOK
  BY <1>0, Bounds DEF Init, TypeOK
<1>2. Inverses
  BY <1>0 DEF Init, Inverses
<1>3. Gaps
  BY <1>0 DEF Init, Gaps
<1>4. Members
  BY <1>0, FS_EmptySet, Bounds DEF Init, Members
<1>5. Contents
  BY <1>0 DEF Init, Contents
<1> QED
  BY <1>1, <1>2, <1>3, <1>4, <1>5 DEF Init, RunnerInv, OneChunk

\* InputBatch.add_request: the request gets an empty slot, or one more at the end.
LEMMA AddSlotFacts ==
  ASSUME RunnerInv, AddRequest
  PROVE  LET r == Head(toAdd)
             s == AddSlot
         IN /\ r \in Requests /\ r \in scheduled /\ r \notin InBatch /\ requests[r] \in Cached
            /\ toAdd' \in Seq(Requests) /\ IsInjective(toAdd')
            /\ ToSet(toAdd) = {r} \cup ToSet(toAdd') /\ r \notin ToSet(toAdd')
            /\ s \in Slots /\ s \notin Occupied
            /\ reqIds' \in Seq(Requests \cup {NoOne})
            /\ Len(reqIds') <= MaxReqs /\ Len(reqIds') \in Nat
            /\ s \in 1..Len(reqIds') /\ reqIds'[s] = r
            /\ 1..Len(reqIds') = (1..Len(reqIds)) \cup {s}
            /\ \A q \in 1..Len(reqIds') : q # s => reqIds'[q] = reqIds[q]
            /\ Occupied' = Occupied \cup {s}
            /\ removed' = removed \ {s}
<1> USE DEF RunnerInv
<1> DEFINE r == Head(toAdd)
           s == AddSlot
<1>1. /\ pc = "add" /\ toAdd # <<>> /\ toAdd' = Tail(toAdd)
      /\ reqIds' = IF s = Len(reqIds) + 1 THEN Append(reqIds, r) ELSE [reqIds EXCEPT ![s] = r]
      /\ removed' = removed \ {s}
  BY DEF AddRequest
<1>2. /\ r \in Requests /\ toAdd' \in Seq(Requests) /\ IsInjective(toAdd')
      /\ ToSet(toAdd) = {r} \cup ToSet(toAdd') /\ r \notin ToSet(toAdd')
  <2>1. toAdd \in Seq(Requests) /\ IsInjective(toAdd)
    BY <1>1 DEF TypeOK, Members
  <2> QED
    BY <1>1, <2>1, ToSetFacts, InjectiveFacts
<1> HIDE DEF r
<1>3. r \in scheduled /\ r \notin InBatch /\ requests[r] \in Cached
  <2>1. r \in scheduled /\ r \notin InBatch
    BY <1>1, <1>2 DEF Members
  <2>2. requests[r] # NoOne
    BY <2>1 DEF Members
  <2> QED
    BY <1>2, <2>1, <2>2 DEF TypeOK
<1>4. /\ Occupied = (1..Len(reqIds)) \ removed
      /\ IsFiniteSet(removed) /\ Cardinality(removed) \in Nat
      /\ NumReqs + Cardinality(removed) = Len(reqIds)
  BY <1>1, Full
<1>5. /\ reqIds \in Seq(Requests \cup {NoOne}) /\ Len(reqIds) \in Nat
      /\ Len(reqIds) <= MaxReqs /\ removed \subseteq 1..Len(reqIds) /\ MaxReqs \in Nat
      /\ NumReqs \in Nat
  BY Bounds, Count DEF TypeOK
<1>6. CASE removed # {}
  <2>1. s \in removed
    <3>1. removed \in SUBSET Nat
      BY <1>5
    <3>2. Min(removed) \in removed
      BY <1>6, <3>1, MinFacts
    <3> QED
      BY <1>6, <3>2 DEF AddSlot
  <2>2. s \in 1..Len(reqIds) /\ s # Len(reqIds) + 1 /\ s \in Slots
    BY <1>5, <2>1 DEF Slots
  <2> HIDE DEF s
  <2>3. /\ reqIds' = [reqIds EXCEPT ![s] = r]
        /\ reqIds' \in Seq(Requests \cup {NoOne}) /\ Len(reqIds') = Len(reqIds)
        /\ reqIds'[s] = r
        /\ \A q \in 1..Len(reqIds) : q # s => reqIds'[q] = reqIds[q]
    BY <1>1, <1>2, <1>5, <2>2
  <2>4. s \notin Occupied
    BY <1>4, <2>1
  <2>5. Occupied' = Occupied \cup {s}
    <3>1. Occupied' = {q \in 1..Len(reqIds) : reqIds'[q] # NoOne}
      BY <2>3 DEF Occupied
    <3>2. r # NoOne
      BY <1>2, Bounds
    <3> QED
      BY <2>2, <2>3, <3>1, <3>2 DEF Occupied
  <2> QED
    BY <1>1, <1>2, <1>3, <1>5, <2>2, <2>3, <2>4, <2>5 DEF s, r
<1>7. CASE removed = {}
  <2>1. s = Len(reqIds) + 1 /\ NumReqs = Len(reqIds)
    <3>1. Cardinality(removed) = 0
      BY <1>7, FS_EmptySet
    <3> QED
      BY <1>4, <1>5, <1>7, <3>1 DEF AddSlot
  <2>2. Len(reqIds) + 1 <= MaxReqs
    <3>1. IsFiniteSet(InBatch) /\ IsFiniteSet(scheduled)
      BY Count, Bounds, FS_Subset DEF TypeOK
    <3>2. Cardinality(InBatch \cup {r}) = Cardinality(InBatch) + 1
          /\ IsFiniteSet(InBatch \cup {r})
      BY <1>3, <3>1, FS_AddElement
    <3>3. InBatch \cup {r} \subseteq scheduled
      BY <1>1, <1>3 DEF Members
    <3>4. Cardinality(InBatch \cup {r}) <= Cardinality(scheduled)
      BY <3>1, <3>3, FS_Subset
    <3>5. Cardinality(scheduled) <= MaxReqs /\ Cardinality(scheduled) \in Nat
      BY <3>1, FS_CardinalityType DEF Members
    <3>6. Cardinality(InBatch) = Len(reqIds)
      BY <2>1 DEF NumReqs
    <3> QED
      BY <1>5, <3>2, <3>4, <3>5, <3>6
  <2> HIDE DEF s
  <2>3. /\ reqIds' \in Seq(Requests \cup {NoOne}) /\ Len(reqIds') = Len(reqIds) + 1
        /\ reqIds'[s] = r
        /\ \A q \in 1..Len(reqIds) : reqIds'[q] = reqIds[q]
    <3>1. reqIds' = Append(reqIds, r) /\ r \in Requests \cup {NoOne}
      BY <1>1, <1>2, <2>1
    <3> QED
      BY <1>5, <2>1, <3>1, ToSetFacts
  <2>4. /\ s \in Slots /\ s \in 1..Len(reqIds')
        /\ 1..Len(reqIds') = (1..Len(reqIds)) \cup {s}
        /\ s \notin 1..Len(reqIds)
    BY <1>5, <2>1, <2>2, <2>3 DEF Slots
  <2>5. s \notin Occupied
    BY <2>4 DEF Occupied
  <2>6. Occupied' = Occupied \cup {s}
    <3>1. Occupied' = {q \in 1..Len(reqIds') : reqIds'[q] # NoOne}
      BY DEF Occupied
    <3>2. r # NoOne
      BY <1>2, Bounds
    <3> QED
      BY <2>3, <2>4, <3>1, <3>2 DEF Occupied
  <2>7. \A q \in 1..Len(reqIds') : q # s => reqIds'[q] = reqIds[q]
    BY <2>3, <2>4
  <2>8. Len(reqIds') <= MaxReqs /\ Len(reqIds') \in Nat
    BY <1>5, <2>2, <2>3
  <2> QED
    BY <1>1, <1>2, <1>3, <2>3, <2>4, <2>5, <2>6, <2>7, <2>8 DEF s, r
<1> QED
  BY <1>6, <1>7


\* The step that adds a request.
LEMMA AddRequestInv == RunnerInv /\ AddRequest => RunnerInv'
<1> SUFFICES ASSUME RunnerInv, AddRequest PROVE RunnerInv'
  OBVIOUS
<1> DEFINE r == Head(toAdd)
           s == AddSlot
<1>1. /\ pc = "add" /\ pc' = "add" /\ requests' = requests /\ scheduled' = scheduled
      /\ last' = last /\ start' = start
      /\ index' = [index EXCEPT ![r] = s]
      /\ row' = [row EXCEPT ![s] = [req |-> r, tokens |-> requests[r].tokens,
                                    blocks |-> requests[r].blocks]]
      /\ params' = IF "params" \in requests[r].has THEN [params EXCEPT ![s] = r] ELSE params
  BY DEF AddRequest
<1>2. /\ r \in Requests /\ r \in scheduled /\ r \notin InBatch /\ requests[r] \in Cached
      /\ toAdd' \in Seq(Requests) /\ IsInjective(toAdd')
      /\ ToSet(toAdd) = {r} \cup ToSet(toAdd') /\ r \notin ToSet(toAdd')
      /\ s \in Slots /\ s \notin Occupied
      /\ reqIds' \in Seq(Requests \cup {NoOne})
      /\ Len(reqIds') <= MaxReqs /\ Len(reqIds') \in Nat
      /\ s \in 1..Len(reqIds') /\ reqIds'[s] = r
      /\ 1..Len(reqIds') = (1..Len(reqIds)) \cup {s}
      /\ \A q \in 1..Len(reqIds') : q # s => reqIds'[q] = reqIds[q]
      /\ Occupied' = Occupied \cup {s}
      /\ removed' = removed \ {s}
  BY AddSlotFacts
<1> HIDE DEF r, s
<1>3. TypeOK /\ Inverses /\ Gaps /\ Members /\ Contents /\ OneChunk
  BY DEF RunnerInv
<1>4. r # NoOne /\ s # NoOne /\ index[r] = NoOne
  BY <1>2, Bounds DEF InBatch
<1>5. \A q \in Requests : index'[q] = IF q = r THEN s ELSE index[q]
  BY <1>1, <1>2, <1>3 DEF TypeOK
<1>6. TypeOK'
  <2>1. index' \in [Requests -> Slots \cup {NoOne}]
    BY <1>1, <1>2, <1>3 DEF TypeOK
  <2>2. row' \in [Slots -> [req : Requests \cup {NoOne}, tokens : Nat, blocks : Nat]]
    BY <1>1, <1>2, <1>3 DEF TypeOK, Cached
  <2>3. params' \in [Slots -> Requests \cup {NoOne}]
    BY <1>1, <1>2, <1>3 DEF TypeOK
  <2>4. removed' \subseteq 1..Len(reqIds')
    BY <1>2, <1>3 DEF TypeOK
  <2> QED
    BY <1>1, <1>2, <1>3, <2>1, <2>2, <2>3, <2>4 DEF TypeOK
<1>7. Inverses'
  <2>1. ASSUME NEW q \in Requests, index'[q] # NoOne
        PROVE  index'[q] \in 1..Len(reqIds') /\ reqIds'[index'[q]] = q
    <3>1. CASE q = r
      BY <1>2, <1>5, <3>1
    <3>2. CASE q # r
      <4>1. index'[q] = index[q] /\ index[q] \in 1..Len(reqIds) /\ reqIds[index[q]] = q
        BY <1>3, <1>5, <2>1, <3>2 DEF Inverses
      <4>2. index[q] \in Occupied
        BY <4>1, Bounds DEF Occupied
      <4> QED
        BY <1>2, <4>1, <4>2
    <3> QED
      BY <3>1, <3>2
  <2>2. ASSUME NEW q \in Occupied' PROVE index'[reqIds'[q]] = q
    <3>1. CASE q = s
      BY <1>2, <1>5, <3>1
    <3>2. CASE q # s
      <4>1. q \in Occupied /\ q \in 1..Len(reqIds) /\ reqIds'[q] = reqIds[q]
        BY <1>2, <3>2 DEF Occupied
      <4>2. index[reqIds[q]] = q /\ reqIds[q] \in InBatch /\ reqIds[q] \in Requests
        BY <1>3, <4>1, Count
      <4> QED
        BY <1>2, <1>5, <4>1, <4>2
    <3> QED
      BY <3>1, <3>2
  <2> QED
    BY <2>1, <2>2 DEF Inverses
<1>8. Gaps'
  <2>1. \A q \in 1..Len(reqIds') : reqIds'[q] = NoOne <=> q \in removed'
    <3> SUFFICES ASSUME NEW q \in 1..Len(reqIds') PROVE reqIds'[q] = NoOne <=> q \in removed'
      OBVIOUS
    <3>1. CASE q = s
      BY <1>2, <1>4, <3>1
    <3>2. CASE q # s
      BY <1>1, <1>2, <1>3, <3>2 DEF Gaps
    <3> QED
      BY <3>1, <3>2
  <2> QED
    BY <1>1, <2>1 DEF Gaps
<1>9. Members'
  <2>1. InBatch' = InBatch \cup {r}
    BY <1>2, <1>4, <1>5 DEF InBatch
  <2>2. InBatch \cup ToSet(toAdd) = scheduled /\ InBatch \cap ToSet(toAdd) = {}
    BY <1>1, <1>3 DEF Members
  <2>3. /\ InBatch' \cup ToSet(toAdd') = scheduled
        /\ InBatch' \cap ToSet(toAdd') = {}
    BY <1>2, <2>1, <2>2
  <2>4. InBatch' \subseteq {q \in Requests : requests[q] # NoOne}
    BY <1>2, <1>3, <2>1 DEF Members
  <2> QED
    BY <1>1, <1>2, <1>3, <2>3, <2>4 DEF Members
<1>10. Contents'
  <2>1. \A q \in Slots : /\ row'[q] = IF q = s THEN [req |-> r, tokens |-> requests[r].tokens,
                                                    blocks |-> requests[r].blocks]
                                      ELSE row[q]
                         /\ params'[q] = IF q = s /\ "params" \in requests[r].has THEN r
                                         ELSE params[q]
    BY <1>1, <1>2, <1>3 DEF TypeOK
  <2>2. params[s] = NoOne
    BY <1>2, <1>3 DEF Contents
  <2>3. ASSUME NEW q \in Occupied'
        PROVE  /\ row'[q] = [req |-> reqIds'[q], tokens |-> requests'[reqIds'[q]].tokens,
                             blocks |-> requests'[reqIds'[q]].blocks]
               /\ params'[q] = IF "params" \in requests'[reqIds'[q]].has THEN reqIds'[q]
                               ELSE NoOne
    <3>1. CASE q = s
      BY <1>1, <1>2, <2>1, <2>2, <3>1
    <3>2. CASE q # s
      <4>1. q \in Occupied /\ reqIds'[q] = reqIds[q] /\ q \in Slots
        <5>1. q \in 1..Len(reqIds') /\ q \in Occupied
          BY <1>2, <3>2 DEF Occupied
        <5>2. q \in Slots
          BY <1>2, <5>1, Bounds DEF Slots
        <5> QED
          BY <1>2, <3>2, <5>1, <5>2
      <4>2. row'[q] = row[q] /\ params'[q] = params[q]
        BY <2>1, <3>2, <4>1
      <4> QED
        BY <1>1, <1>3, <4>1, <4>2 DEF Contents
    <3> QED
      BY <3>1, <3>2
  <2>4. ASSUME NEW q \in Slots, q \notin Occupied' PROVE params'[q] = NoOne
    <3>1. q # s /\ q \notin Occupied
      BY <1>2, <2>4
    <3> QED
      BY <1>3, <2>1, <3>1 DEF Contents
  <2> QED
    BY <2>3, <2>4 DEF Contents
<1> QED
  BY <1>1, <1>3, <1>6, <1>7, <1>8, <1>9, <1>10 DEF RunnerInv, OneChunk

\* An order of a set lists each of its members once.
LEMMA OrdersFacts ==
  ASSUME NEW rs \in SUBSET Requests, NEW q \in Orders(rs)
  PROVE  q \in Seq(Requests) /\ ToSet(q) = rs /\ IsInjective(q)
<1> DEFINE n == Cardinality(rs)
<1>1. IsFiniteSet(rs) /\ n \in Nat
  BY Bounds, FS_Subset, FS_CardinalityType
<1> HIDE DEF n
<1>2. q \in [1..n -> Requests] /\ ToSet(q) = rs
  BY DEF Orders, n
<1>3. q \in Seq(Requests) /\ Len(q) = n
  BY <1>1, <1>2
<1>4. \A x : x \in rs <=> \E i \in 1..n : q[i] = x
  BY <1>2, <1>3, ToSetDef
<1>5. q \in Surjection(1..n, rs)
  BY <1>2, <1>4 DEF Surjection
<1>6. IsFiniteSet(1..n) /\ Cardinality(1..n) = n
  <2>1. n \in Int /\ 1 \in Int
    BY <1>1
  <2>2. IsFiniteSet(1..n) /\ Cardinality(1..n) = IF 1 > n THEN 0 ELSE n - 1 + 1
    BY <2>1, FS_Interval, Zenon
  <2> QED
    BY <1>1, <2>2
<1>7. Cardinality(rs) = Cardinality(1..n)
  BY <1>6 DEF n
<1>8. q \in Injection(1..n, rs)
  BY <1>5, <1>6, <1>7, FS_Surjection, Zenon
<1> QED
  BY <1>2, <1>3, <1>8 DEF Injection

\* The scheduler's output is applied: what leaves the batch, what stays, what is to be added.
LEMMA ExecuteModelInv ==
  ASSUME RunnerInv, NEW out \in SchedulerOutputs,
         NEW opts \in [{r \in Requests : out[r] \in {"new", "again"}} -> Options],
         ExecuteModel(out, opts)
  PROVE  RunnerInv'
<1> DEFINE finished == {r \in Requests : out[r] \in {"finished", "again"}}
           new == {r \in Requests : out[r] \in {"new", "again"}}
           cached == {r \in Requests : out[r] \in {"cached", "grown", "resumed"}}
           gone == InBatch \cap (finished \cup (Requests \ (new \cup cached)))
           slots == {index[r] : r \in gone}
<1>1. TypeOK /\ Inverses /\ Gaps /\ Members /\ Contents /\ OneChunk
  BY DEF RunnerInv
<1>2. out \in [Requests -> Kinds] /\ \A r \in Requests : Possible(r, out[r])
  BY DEF SchedulerOutputs
<1>3. /\ pc = "idle" /\ pc' = "add" /\ last' = last /\ start' = start
      /\ Cardinality(new \cup cached) <= MaxReqs
      /\ scheduled' = new \cup cached
      /\ removed' = slots
      /\ reqIds' = [s \in 1..Len(reqIds) |-> IF s \in slots THEN NoOne ELSE reqIds[s]]
      /\ index' = [r \in Requests |-> IF r \in gone THEN NoOne ELSE index[r]]
      /\ params' = [s \in Slots |-> IF s \in slots THEN NoOne ELSE params[s]]
      /\ requests' = [r \in Requests |->
                CASE r \in new -> [has |-> opts[r], tokens |-> 1, blocks |-> 1]
                  [] out[r] = "finished" -> NoOne
                  [] out[r] = "grown" -> [requests[r] EXCEPT !.blocks = @ + 1]
                  [] out[r] = "resumed" -> [requests[r] EXCEPT !.blocks = 1]
                  [] OTHER -> requests[r]]
      /\ row' = [s \in Slots |-> AppendRow(s, out)]
      /\ \E news \in Orders(new), olds \in Orders(cached \ InBatch) : toAdd' = news \o olds
  BY DEF ExecuteModel, Gone, Cleared
<1>4. removed = {} /\ Occupied = 1..Len(reqIds)
      /\ \A s \in 1..Len(reqIds) : reqIds[s] # NoOne
  BY <1>1, <1>3 DEF Gaps, Occupied
<1>5. /\ Len(reqIds) \in Nat /\ Len(reqIds) <= MaxReqs /\ 1..Len(reqIds) \subseteq Slots
      /\ reqIds \in Seq(Requests \cup {NoOne})
  BY <1>1, Bounds DEF TypeOK, Slots
<1>6. /\ \A r \in InBatch : r \in Requests /\ index[r] \in Occupied /\ reqIds[index[r]] = r
      /\ \A s \in Occupied : reqIds[s] \in InBatch /\ index[reqIds[s]] = s
  BY <1>1, Count
<1>7. \A r \in InBatch : r \in Requests /\ requests[r] # NoOne /\ requests[r] \in Cached
  BY <1>1 DEF Members, TypeOK
<1>8. \A r \in Requests : /\ out[r] \in Kinds
                          /\ out[r] = "new" => requests[r] = NoOne
                          /\ out[r] \in {"cached", "grown", "resumed", "finished", "again"}
                                => requests[r] # NoOne /\ requests[r] \in Cached
                          /\ out[r] = "resumed" => r \notin InBatch
                          /\ out[r] = "grown" => requests[r].blocks < MaxBlocks
  <2> SUFFICES ASSUME NEW r \in Requests
               PROVE  /\ out[r] \in Kinds
                      /\ out[r] = "new" => requests[r] = NoOne
                      /\ out[r] \in {"cached", "grown", "resumed", "finished", "again"}
                            => requests[r] # NoOne /\ requests[r] \in Cached
                      /\ out[r] = "resumed" => r \notin InBatch
                      /\ out[r] = "grown" => requests[r].blocks < MaxBlocks
    OBVIOUS
  <2>1. Possible(r, out[r]) /\ out[r] \in Kinds
    BY <1>2
  <2>2. requests[r] \in Cached \cup {NoOne}
    BY <1>1 DEF TypeOK
  <2> QED
    BY <2>1, <2>2 DEF Possible
<1>9. InBatch' = InBatch \cap cached /\ InBatch \ gone = InBatch \cap cached
  <2>1. InBatch' = InBatch \ gone
    BY <1>3 DEF InBatch
  <2>2. \A r \in InBatch : r \notin gone <=> r \in cached
    <3> SUFFICES ASSUME NEW r \in InBatch PROVE r \notin gone <=> r \in cached
      OBVIOUS
    <3>1. r \in Requests /\ out[r] \in Kinds /\ out[r] # "new"
      BY <1>7, <1>8
    <3> QED
      BY <3>1 DEF Kinds
  <2> QED
    BY <2>1, <2>2
<1>10. slots \subseteq Occupied /\ \A s \in Occupied : s \in slots <=> reqIds[s] \in gone
  BY <1>6
<1>11. /\ reqIds' \in Seq(Requests \cup {NoOne}) /\ Len(reqIds') = Len(reqIds)
       /\ \A s \in 1..Len(reqIds) : reqIds'[s] = IF s \in slots THEN NoOne ELSE reqIds[s]
  BY <1>3, <1>5
<1>12. Occupied' = Occupied \ slots
  BY <1>4, <1>11 DEF Occupied
<1> HIDE DEF gone, slots
<1>13. \A r \in Requests : requests'[r] =
                CASE r \in new -> [has |-> opts[r], tokens |-> 1, blocks |-> 1]
                  [] out[r] = "finished" -> NoOne
                  [] out[r] = "grown" -> [requests[r] EXCEPT !.blocks = @ + 1]
                  [] out[r] = "resumed" -> [requests[r] EXCEPT !.blocks = 1]
                  [] OTHER -> requests[r]
  BY <1>3
<1>14. \A r \in Requests : /\ requests'[r] \in Cached \cup {NoOne}
                           /\ r \in new \cup cached => requests'[r] # NoOne
                           /\ out[r] = "cached" => requests'[r] = requests[r]
                           /\ out[r] = "grown" =>
                                 requests'[r] = [requests[r] EXCEPT !.blocks = @ + 1]
  <2> SUFFICES ASSUME NEW r \in Requests
               PROVE  /\ requests'[r] \in Cached \cup {NoOne}
                      /\ r \in new \cup cached => requests'[r] # NoOne
                      /\ out[r] = "cached" => requests'[r] = requests[r]
                      /\ out[r] = "grown" =>
                            requests'[r] = [requests[r] EXCEPT !.blocks = @ + 1]
    OBVIOUS
  <2>0. out[r] \in Kinds /\ requests[r] \in Cached \cup {NoOne} /\ MaxBlocks \in Nat \ {0}
        /\ NoOne \notin Cached
    BY <1>1, <1>8, Bounds DEF TypeOK
  <2>1. CASE out[r] \in {"new", "again"}
    <3>1. requests'[r] = [has |-> opts[r], tokens |-> 1, blocks |-> 1] /\ opts[r] \in Options
      BY <1>13, <2>1
    <3>2. requests'[r] \in Cached
      BY <2>0, <3>1 DEF Cached
    <3> QED
      BY <2>0, <2>1, <3>2
  <2>2. CASE out[r] = "finished"
    BY <1>13, <2>2
  <2>3. CASE out[r] = "grown"
    <3>1. requests'[r] = [requests[r] EXCEPT !.blocks = @ + 1]
      BY <1>13, <2>3
    <3>2. requests[r] \in Cached /\ requests[r].blocks < MaxBlocks
      BY <1>8, <2>3
    <3>3. requests'[r] \in Cached
      BY <2>0, <3>1, <3>2 DEF Cached
    <3> QED
      BY <2>0, <2>3, <3>1, <3>3
  <2>4. CASE out[r] = "resumed"
    <3>1. requests'[r] = [requests[r] EXCEPT !.blocks = 1] /\ requests[r] \in Cached
      BY <1>8, <1>13, <2>4
    <3>2. requests'[r] \in Cached
      BY <2>0, <3>1 DEF Cached
    <3> QED
      BY <2>0, <2>4, <3>2
  <2>5. CASE out[r] \in {"none", "cached"}
    <3>1. requests'[r] = requests[r]
      BY <1>13, <2>5
    <3> QED
      BY <1>8, <2>0, <2>5, <3>1
  <2> QED
    BY <2>0, <2>1, <2>2, <2>3, <2>4, <2>5 DEF Kinds
<1>15. /\ toAdd' \in Seq(Requests) /\ IsInjective(toAdd')
       /\ ToSet(toAdd') = new \cup (cached \ InBatch)
  <2>1. PICK news \in Orders(new), olds \in Orders(cached \ InBatch) : toAdd' = news \o olds
    BY <1>3
  <2>2. news \in Seq(Requests) /\ ToSet(news) = new /\ IsInjective(news)
    <3>1. new \in SUBSET Requests
      OBVIOUS
    <3> QED
      BY <2>1, <3>1, OrdersFacts, Zenon
  <2>3. olds \in Seq(Requests) /\ ToSet(olds) = cached \ InBatch /\ IsInjective(olds)
    <3>1. cached \ InBatch \in SUBSET Requests
      OBVIOUS
    <3> QED
      BY <2>1, <3>1, OrdersFacts, Zenon
  <2>4. ToSet(news) \cap ToSet(olds) = {}
    BY <2>2, <2>3
  <2>5. news \o olds \in Seq(Requests) /\ ToSet(news \o olds) = ToSet(news) \cup ToSet(olds)
    BY <2>2, <2>3, ToSetFacts
  <2>6. IsInjective(news \o olds)
    BY <2>2, <2>3, <2>4, InjectiveFacts
  <2> HIDE DEF new, cached
  <2> QED
    BY <2>1, <2>2, <2>3, <2>5, <2>6
<1>16. \A s \in Slots : row'[s] = AppendRow(s, out)
  BY <1>3
<1>17. TypeOK'
  <2>1. requests' \in [Requests -> Cached \cup {NoOne}]
    BY <1>3, <1>14
  <2>2. index' \in [Requests -> Slots \cup {NoOne}]
    BY <1>1, <1>3 DEF TypeOK
  <2>3. row' \in [Slots -> [req : Requests \cup {NoOne}, tokens : Nat, blocks : Nat]]
    <3>1. ASSUME NEW s \in Slots
          PROVE  AppendRow(s, out) \in [req : Requests \cup {NoOne}, tokens : Nat, blocks : Nat]
      <4>1. row[s] \in [req : Requests \cup {NoOne}, tokens : Nat, blocks : Nat]
        BY <1>1 DEF TypeOK
      <4> QED
        BY <4>1 DEF AppendRow
    <3> QED
      BY <1>3, <3>1
  <2>4. params' \in [Slots -> Requests \cup {NoOne}]
    BY <1>1, <1>3 DEF TypeOK
  <2>5. removed' \subseteq 1..Len(reqIds')
    BY <1>3, <1>4, <1>10, <1>11
  <2>6. scheduled' \subseteq Requests
    BY <1>3
  <2>7. Len(reqIds') <= MaxReqs
    BY <1>5, <1>11
  <2> HIDE DEF new, cached
  <2> QED
    BY <1>1, <1>3, <1>11, <1>15, <2>1, <2>2, <2>3, <2>4, <2>5, <2>6, <2>7 DEF TypeOK
<1>18. Inverses'
  <2>1. ASSUME NEW r \in Requests, index'[r] # NoOne
        PROVE  index'[r] \in 1..Len(reqIds') /\ reqIds'[index'[r]] = r
    <3>1. r \in InBatch /\ r \notin gone /\ index'[r] = index[r]
      BY <1>3, <2>1 DEF InBatch
    <3>2. index[r] \in Occupied /\ reqIds[index[r]] = r
      BY <1>6, <3>1
    <3>3. index[r] \notin slots
      BY <1>10, <3>1, <3>2
    <3> QED
      BY <1>4, <1>11, <3>1, <3>2, <3>3
  <2>2. ASSUME NEW s \in Occupied' PROVE index'[reqIds'[s]] = s
    <3>1. s \in Occupied /\ s \notin slots /\ reqIds'[s] = reqIds[s]
      BY <1>4, <1>11, <1>12
    <3>2. reqIds[s] \in InBatch /\ index[reqIds[s]] = s /\ reqIds[s] \notin gone
          /\ reqIds[s] \in Requests
      BY <1>6, <1>10, <3>1
    <3> QED
      BY <1>3, <3>1, <3>2
  <2> QED
    BY <2>1, <2>2 DEF Inverses
<1>19. Gaps'
  <2>1. \A s \in 1..Len(reqIds') : reqIds'[s] = NoOne <=> s \in removed'
    BY <1>3, <1>4, <1>11
  <2> QED
    BY <1>3, <2>1 DEF Gaps
<1>20. Members'
  <2>1. InBatch' \subseteq {r \in Requests : requests'[r] # NoOne}
    BY <1>9, <1>14
  <2>2. scheduled' \subseteq {r \in Requests : requests'[r] # NoOne}
    BY <1>3, <1>14
  <2>3. InBatch' \cup ToSet(toAdd') = scheduled'
    BY <1>3, <1>9, <1>15
  <2>4. InBatch' \cap ToSet(toAdd') = {}
    BY <1>9, <1>15
  <2>5. Cardinality(scheduled') <= MaxReqs
    BY <1>3
  <2> HIDE DEF new, cached
  <2> QED
    BY <1>3, <1>15, <2>1, <2>2, <2>3, <2>4, <2>5 DEF Members
<1>21. Contents'
  <2>1. ASSUME NEW s \in Occupied'
        PROVE  /\ row'[s] = [req |-> reqIds'[s], tokens |-> requests'[reqIds'[s]].tokens,
                             blocks |-> requests'[reqIds'[s]].blocks]
               /\ params'[s] = IF "params" \in requests'[reqIds'[s]].has THEN reqIds'[s]
                               ELSE NoOne
    <3>1. s \in Occupied /\ s \notin slots /\ reqIds'[s] = reqIds[s] /\ s \in Slots
      BY <1>4, <1>5, <1>11, <1>12
    <3> DEFINE r == reqIds[s]
    <3>2. r \in InBatch /\ index[r] = s /\ r \notin gone /\ r \in Requests
      BY <1>6, <1>10, <3>1
    <3>3. out[r] \in {"cached", "grown"} /\ requests[r] \in Cached
      <4>1. out[r] \in {"cached", "grown", "resumed"}
        BY <1>9, <3>2
      <4> QED
        BY <1>7, <1>8, <3>2, <4>1
    <3>4. /\ row[s] = [req |-> r, tokens |-> requests[r].tokens, blocks |-> requests[r].blocks]
          /\ params[s] = IF "params" \in requests[r].has THEN r ELSE NoOne
      BY <1>1, <3>1 DEF Contents
    <3>5. params'[s] = params[s]
      BY <1>3, <3>1
    <3> HIDE DEF r, new, cached, finished
    <3>6. \A q \in InBatch : index[q] = s => q = r
      BY <1>6 DEF r
    <3>7. CASE out[r] = "cached"
      <4>1. row'[s] = row[s]
        BY <1>16, <3>1, <3>6, <3>7 DEF AppendRow
      <4>2. requests'[r] = requests[r]
        BY <1>14, <3>2, <3>7
      <4> QED
        BY <3>1, <3>4, <3>5, <4>1, <4>2 DEF r
    <3>8. CASE out[r] = "grown"
      <4>1. row'[s] = [row[s] EXCEPT !.blocks = @ + 1]
        BY <1>16, <3>1, <3>2, <3>8 DEF AppendRow
      <4>2. requests'[r] = [requests[r] EXCEPT !.blocks = @ + 1]
        BY <1>14, <3>2, <3>8
      <4>3. /\ requests'[r].tokens = requests[r].tokens /\ requests'[r].has = requests[r].has
            /\ requests'[r].blocks = requests[r].blocks + 1
        BY <3>3, <4>2 DEF Cached
      <4>4. row'[s] = [req |-> r, tokens |-> requests[r].tokens,
                       blocks |-> requests[r].blocks + 1]
        BY <3>4, <4>1
      <4> QED
        BY <3>1, <3>4, <3>5, <4>3, <4>4 DEF r
    <3> QED
      BY <3>3, <3>7, <3>8
  <2>2. ASSUME NEW s \in Slots, s \notin Occupied' PROVE params'[s] = NoOne
    BY <1>1, <1>3, <1>12, <2>2 DEF Contents
  <2> QED
    BY <2>1, <2>2 DEF Contents
<1> QED
  BY <1>1, <1>3, <1>17, <1>18, <1>19, <1>20, <1>21 DEF RunnerInv, OneChunk

\* The end of the loop that adds: the gaps are closed, or there are none, or the batch is
\* empty.
LEMMA BeginCondenseInv == RunnerInv /\ BeginCondense => RunnerInv'
<1> SUFFICES ASSUME RunnerInv, BeginCondense PROVE RunnerInv'
  OBVIOUS
<1>1. TypeOK /\ Inverses /\ Gaps /\ Members /\ Contents /\ OneChunk
  BY DEF RunnerInv
<1>2. /\ pc = "add" /\ toAdd = <<>> /\ requests' = requests /\ index' = index /\ row' = row
      /\ params' = params /\ scheduled' = scheduled /\ toAdd' = toAdd /\ start' = start
  BY DEF BeginCondense
<1>3. InBatch' = InBatch /\ InBatch = scheduled
  <2>1. ToSet(toAdd) = {}
    BY <1>2, ToSetFacts
  <2>2. InBatch \cup ToSet(toAdd) = scheduled
    BY <1>1, <1>2 DEF Members
  <2> QED
    BY <1>2, <2>1, <2>2 DEF InBatch
<1>4. /\ Occupied = (1..Len(reqIds)) \ removed
      /\ NumReqs + Cardinality(removed) = Len(reqIds)
  BY <1>1, <1>2, Full
<1>5. NumReqs \in Nat /\ (NumReqs > 0 => InBatch # {}) /\ (NumReqs = 0 => InBatch = {})
  BY <1>1, Count, FS_EmptySet DEF NumReqs
<1>6. CASE removed # {} /\ NumReqs > 0
  <2>1. /\ pc' = "condense" /\ last' = Len(reqIds) /\ reqIds' = reqIds /\ removed' = removed
    BY <1>4, <1>6 DEF BeginCondense
  <2>2. Occupied' = Occupied
    BY <2>1 DEF Occupied
  <2>3. TypeOK'
    BY <1>1, <1>2, <2>1 DEF TypeOK
  <2>4. Inverses' /\ Contents'
    BY <1>1, <1>2, <2>1, <2>2 DEF Inverses, Contents
  <2>5. Gaps'
    <3>1. \A s \in 1..Len(reqIds) : reqIds[s] = NoOne <=> s \in removed
      BY <1>1, <1>2 DEF Gaps
    <3>2. \A s \in 1..Len(reqIds) : ~(s > Len(reqIds))
      BY <1>1 DEF TypeOK
    <3>3. last' <= Len(reqIds')
      BY <1>1, <2>1 DEF TypeOK
    <3> QED
      BY <2>1, <3>1, <3>2, <3>3 DEF Gaps
  <2>6. Members'
    BY <1>1, <1>2, <1>3, <1>5, <1>6, <2>1 DEF Members
  <2> QED
    BY <1>1, <1>2, <2>3, <2>4, <2>5, <2>6 DEF RunnerInv, OneChunk
<1>7. CASE removed = {} /\ reqIds' = reqIds
  <2>1. pc' = (IF scheduled = {} THEN "idle" ELSE "sample") /\ removed' = {} /\ last' = last
    BY <1>7 DEF BeginCondense, AfterUpdate
  <2>2. Occupied' = Occupied
    BY <1>7 DEF Occupied
  <2>3. TypeOK'
    BY <1>1, <1>2, <1>7, <2>1 DEF TypeOK
  <2>4. Inverses' /\ Contents'
    BY <1>1, <1>2, <1>7, <2>1, <2>2 DEF Inverses, Contents
  <2>5. Gaps'
    BY <1>1, <1>2, <1>7, <2>1 DEF Gaps
  <2>6. Members'
    BY <1>1, <1>2, <1>3, <2>1 DEF Members
  <2> QED
    BY <1>1, <1>2, <2>3, <2>4, <2>5, <2>6 DEF RunnerInv, OneChunk
<1>8. CASE removed # {} /\ NumReqs = 0
  <2>1. /\ pc' = (IF scheduled = {} THEN "idle" ELSE "sample") /\ removed' = {} /\ last' = last
        /\ reqIds' = <<>>
    BY <1>8 DEF BeginCondense, AfterUpdate
  <2>2. InBatch = {} /\ scheduled = {} /\ Occupied = {}
    <3>1. InBatch = {}
      BY <1>5, <1>8
    <3>2. \A s \in Occupied : reqIds[s] \in InBatch
      BY <1>1, Count
    <3> QED
      BY <1>3, <3>1, <3>2
  <2>3. Occupied' = {} /\ Len(reqIds') = 0 /\ reqIds' \in Seq(Requests \cup {NoOne})
    BY <2>1 DEF Occupied
  <2>4. TypeOK'
    BY <1>1, <1>2, <2>1, <2>3, Bounds DEF TypeOK
  <2>5. Inverses'
    BY <1>2, <2>2, <2>3 DEF Inverses, InBatch
  <2>6. Contents'
    BY <1>1, <1>2, <2>2, <2>3 DEF Contents
  <2>7. Gaps'
    BY <2>1, <2>2, <2>3 DEF Gaps
  <2>8. Members'
    BY <1>1, <1>2, <1>3, <2>1, <2>2 DEF Members
  <2> QED
    BY <1>1, <1>2, <2>4, <2>5, <2>6, <2>7, <2>8 DEF RunnerInv, OneChunk
<1>9. removed = {} => reqIds' = reqIds
  BY DEF BeginCondense
<1> QED
  BY <1>5, <1>6, <1>7, <1>8, <1>9

\* In condense: the last request and the first gap are found, and every slot beyond `last'
\* is empty.
LEMMA CondenseFacts ==
  ASSUME RunnerInv, pc = "condense"
  PROVE  /\ LastNonEmpty \in Occupied /\ LastNonEmpty <= last /\ LastNonEmpty \in Nat
         /\ LastNonEmpty \notin removed
         /\ \A s \in Occupied : s <= LastNonEmpty
         /\ removed # {} => /\ Min(removed) \in removed /\ Min(removed) \notin Occupied
                            /\ Min(removed) \in 1..Len(reqIds) /\ Min(removed) \in Nat
                            /\ \A s \in removed : Min(removed) <= s
<1>1. TypeOK /\ Inverses /\ Gaps /\ Members
  BY DEF RunnerInv
<1>2. /\ Len(reqIds) \in Nat /\ last \in Nat /\ removed \subseteq 1..Len(reqIds)
  BY <1>1 DEF TypeOK
<1>3. \A s \in 1..Len(reqIds) : s \in Occupied <=> s \notin removed /\ s <= last
  BY <1>1, <1>2 DEF Gaps, Occupied
<1>4. Occupied # {} /\ Occupied \subseteq 1..Len(reqIds)
  <2>1. InBatch # {}
    BY <1>1 DEF Members
  <2> QED
    BY <1>1, <2>1, Count
<1> DEFINE T == {s \in 1..last : s \notin removed}
<1>5. T = Occupied
  <2>1. last <= Len(reqIds)
    BY <1>1 DEF Gaps
  <2>2. \A s \in T : s \in 1..Len(reqIds) /\ s <= last /\ s \notin removed
    BY <1>2, <2>1
  <2>3. \A s \in Occupied : s \in 1..last /\ s \notin removed
    BY <1>2, <1>3, <1>4
  <2> QED
    BY <1>3, <2>2, <2>3
<1>6. T \in SUBSET Int /\ T # {} /\ last \in Int /\ \A x \in T : x <= last
  BY <1>2, <1>4, <1>5
<1>7. LastNonEmpty = Max(T)
  BY DEF LastNonEmpty
<1> HIDE DEF T
<1>8. LastNonEmpty \in Occupied /\ \A s \in Occupied : s <= LastNonEmpty
  BY <1>5, <1>6, <1>7, MaxFacts
<1>9. LastNonEmpty \in Nat /\ LastNonEmpty <= last /\ LastNonEmpty \notin removed
  BY <1>2, <1>3, <1>4, <1>8
<1>10. ASSUME removed # {}
       PROVE  /\ Min(removed) \in removed /\ Min(removed) \notin Occupied
              /\ Min(removed) \in 1..Len(reqIds) /\ Min(removed) \in Nat
              /\ \A s \in removed : Min(removed) <= s
  <2>1. removed \in SUBSET Nat
    BY <1>2
  <2>2. Min(removed) \in removed /\ \A s \in removed : Min(removed) <= s
    BY <1>10, <2>1, MinFacts
  <2> QED
    BY <1>2, <1>3, <2>1, <2>2
<1> QED
  BY <1>8, <1>9, <1>10

\* The last request moves to the first gap, with its row and its parameters.
LEMMA CondenseMoveInv == RunnerInv /\ CondenseMove => RunnerInv'
<1> SUFFICES ASSUME RunnerInv, CondenseMove PROVE RunnerInv'
  OBVIOUS
<1> DEFINE from == LastNonEmpty
           to == Min(removed)
           r == reqIds[from]
<1>1. TypeOK /\ Inverses /\ Gaps /\ Members /\ Contents /\ OneChunk
  BY DEF RunnerInv
<1>2. /\ pc = "condense" /\ removed # {} /\ to < from
      /\ reqIds' = [reqIds EXCEPT ![to] = r, ![from] = NoOne]
      /\ index' = [index EXCEPT ![r] = to]
      /\ row' = [row EXCEPT ![to] = row[from]]
      /\ params' = [params EXCEPT ![from] = NoOne,
                                  ![to] = IF params[from] # NoOne THEN params[from] ELSE @]
      /\ removed' = removed \ {to}
      /\ last' = from - 1
      /\ requests' = requests /\ pc' = pc /\ scheduled' = scheduled /\ toAdd' = toAdd
      /\ start' = start
  BY DEF CondenseMove, MoreToMove, MoveParams
<1>3. /\ from \in Occupied /\ from <= last /\ from \in Nat /\ from \notin removed
      /\ \A s \in Occupied : s <= from
      /\ to \in removed /\ to \notin Occupied /\ to \in 1..Len(reqIds) /\ to \in Nat
  BY <1>2, CondenseFacts
<1> HIDE DEF from, to
<1>4. /\ reqIds \in Seq(Requests \cup {NoOne}) /\ Len(reqIds) \in Nat /\ Len(reqIds) <= MaxReqs
      /\ MaxReqs \in Nat /\ last \in Nat /\ removed \subseteq 1..Len(reqIds)
      /\ 1..Len(reqIds) \subseteq Slots
  BY <1>1, Bounds DEF TypeOK, Slots
<1>5. /\ r \in InBatch /\ r \in Requests /\ r # NoOne /\ index[r] = from
      /\ from \in 1..Len(reqIds) /\ from # to
      /\ \A q \in InBatch : index[q] \in Occupied /\ reqIds[index[q]] = q
      /\ \A s \in Occupied : reqIds[s] \in InBatch /\ index[reqIds[s]] = s
  <2>1. /\ \A q \in InBatch : q \in Requests /\ index[q] \in Occupied /\ reqIds[index[q]] = q
        /\ \A s \in Occupied : reqIds[s] \in InBatch /\ index[reqIds[s]] = s
        /\ Occupied \subseteq 1..Len(reqIds)
    BY <1>1, Count
  <2>2. from # to
    BY <1>2, <1>3
  <2> QED
    BY <1>3, <2>1, <2>2, Bounds
<1>6. /\ reqIds' \in Seq(Requests \cup {NoOne}) /\ Len(reqIds') = Len(reqIds)
      /\ reqIds'[to] = r /\ reqIds'[from] = NoOne
      /\ \A s \in 1..Len(reqIds) : s # to /\ s # from => reqIds'[s] = reqIds[s]
  <2> HIDE DEF r
  <2> QED
    BY <1>2, <1>3, <1>4, <1>5
<1> HIDE DEF r
<1>7. Occupied' = (Occupied \ {from}) \cup {to}
  <2>1. Occupied' = {s \in 1..Len(reqIds) : reqIds'[s] # NoOne}
    BY <1>6 DEF Occupied
  <2> QED
    BY <1>3, <1>5, <1>6, <2>1 DEF Occupied
<1>8. \A q \in Requests : index'[q] = IF q = r THEN to ELSE index[q]
  BY <1>1, <1>2, <1>5 DEF TypeOK
<1>9. /\ to \in Slots /\ from \in Slots /\ to # NoOne
      /\ params[to] = NoOne
  BY <1>1, <1>3, <1>4, <1>5, Bounds DEF Contents
<1>10. /\ row' \in [Slots -> [req : Requests \cup {NoOne}, tokens : Nat, blocks : Nat]]
       /\ \A s \in Slots : row'[s] = IF s = to THEN row[from] ELSE row[s]
  BY <1>1, <1>2, <1>9 DEF TypeOK
<1>11. /\ params' \in [Slots -> Requests \cup {NoOne}]
       /\ \A s \in Slots : params'[s] = IF s = to THEN params[from]
                                        ELSE IF s = from THEN NoOne ELSE params[s]
  <2>1. params \in [Slots -> Requests \cup {NoOne}]
    BY <1>1 DEF TypeOK
  <2>2. CASE params[from] # NoOne
    BY <1>2, <1>5, <1>9, <2>1, <2>2
  <2>3. CASE params[from] = NoOne
    BY <1>2, <1>5, <1>9, <2>1, <2>3
  <2> QED
    BY <2>2, <2>3
<1>12. TypeOK'
  <2>1. index' \in [Requests -> Slots \cup {NoOne}]
    BY <1>1, <1>2, <1>5, <1>9 DEF TypeOK
  <2>2. last' \in Nat
    BY <1>2, <1>3
  <2>3. removed' \subseteq 1..Len(reqIds')
    BY <1>2, <1>4, <1>6
  <2>4. Len(reqIds') <= MaxReqs
    BY <1>4, <1>6
  <2> QED
    BY <1>1, <1>2, <1>6, <1>10, <1>11, <2>1, <2>2, <2>3, <2>4 DEF TypeOK
<1>13. Inverses'
  <2>1. ASSUME NEW q \in Requests, index'[q] # NoOne
        PROVE  index'[q] \in 1..Len(reqIds') /\ reqIds'[index'[q]] = q
    <3>1. CASE q = r
      BY <1>3, <1>6, <1>8, <3>1
    <3>2. CASE q # r
      <4>1. index'[q] = index[q] /\ q \in InBatch
        BY <1>8, <2>1, <3>2 DEF InBatch
      <4>2. index[q] \in Occupied /\ reqIds[index[q]] = q /\ index[q] # from
        BY <1>5, <3>2, <4>1 DEF r
      <4>3. index[q] # to /\ index[q] \in 1..Len(reqIds)
        BY <1>3, <4>2 DEF Occupied
      <4> QED
        BY <1>6, <4>1, <4>2, <4>3
    <3> QED
      BY <3>1, <3>2
  <2>2. ASSUME NEW s \in Occupied' PROVE index'[reqIds'[s]] = s
    <3>1. CASE s = to
      BY <1>5, <1>6, <1>8, <3>1
    <3>2. CASE s # to
      <4>1. s \in Occupied /\ s # from /\ s \in 1..Len(reqIds)
        BY <1>7, <3>2 DEF Occupied
      <4>2. reqIds'[s] = reqIds[s] /\ reqIds[s] \in InBatch /\ index[reqIds[s]] = s
        BY <1>5, <1>6, <3>2, <4>1
      <4>3. reqIds[s] # r /\ reqIds[s] \in Requests
        BY <1>5, <4>1, <4>2 DEF InBatch
      <4> QED
        BY <1>8, <4>2, <4>3
    <3> QED
      BY <3>1, <3>2
  <2> QED
    BY <2>1, <2>2 DEF Inverses
<1>14. Gaps'
  <2>1. last' <= Len(reqIds')
    BY <1>2, <1>3, <1>4, <1>5, <1>6
  <2>2. ASSUME NEW s \in 1..Len(reqIds)
        PROVE  reqIds'[s] = NoOne <=> s \in removed' \/ s > last'
    <3>1. CASE s = to
      BY <1>2, <1>3, <1>5, <1>6, <3>1
    <3>2. CASE s = from
      BY <1>2, <1>3, <1>6, <3>2
    <3>3. CASE s # to /\ s # from
      <4>1. reqIds'[s] = reqIds[s] /\ (s \in removed' <=> s \in removed)
        BY <1>2, <1>6, <3>3
      <4>2. reqIds[s] = NoOne <=> s \in removed \/ s > last
        BY <1>1, <1>2 DEF Gaps
      <4>3. s > last' <=> s > from
        BY <1>2, <1>3, <1>4, <3>3
      <4>4. s > from => reqIds[s] = NoOne
        <5>1. s \in Occupied => s <= from
          BY <1>3
        <5>2. s <= from => ~(s > from)
          BY <1>3, <1>4
        <5> QED
          BY <5>1, <5>2 DEF Occupied
      <4>5. s > last => s > from
        BY <1>3, <1>4
      <4> QED
        BY <4>1, <4>2, <4>3, <4>4, <4>5
    <3> QED
      BY <3>1, <3>2, <3>3
  <2> QED
    BY <1>2, <1>6, <2>1, <2>2 DEF Gaps
<1>15. Members'
  <2>1. InBatch' = InBatch
    BY <1>5, <1>8, <1>9 DEF InBatch
  <2> QED
    BY <1>1, <1>2, <2>1 DEF Members
<1>16. Contents'
  <2>1. ASSUME NEW s \in Occupied'
        PROVE  /\ row'[s] = [req |-> reqIds'[s], tokens |-> requests'[reqIds'[s]].tokens,
                             blocks |-> requests'[reqIds'[s]].blocks]
               /\ params'[s] = IF "params" \in requests'[reqIds'[s]].has THEN reqIds'[s]
                               ELSE NoOne
    <3>1. CASE s = to
      <4>1. row'[s] = row[from] /\ params'[s] = params[from] /\ reqIds'[s] = reqIds[from]
        BY <1>6, <1>9, <1>10, <1>11, <3>1 DEF r
      <4> QED
        BY <1>1, <1>2, <1>3, <4>1 DEF Contents
    <3>2. CASE s # to
      <4>1. s \in Occupied /\ s # from /\ s \in 1..Len(reqIds) /\ s \in Slots
        BY <1>4, <1>7, <3>2 DEF Occupied
      <4>2. row'[s] = row[s] /\ params'[s] = params[s] /\ reqIds'[s] = reqIds[s]
        BY <1>6, <1>10, <1>11, <3>2, <4>1
      <4> QED
        BY <1>1, <1>2, <4>1, <4>2 DEF Contents
    <3> QED
      BY <3>1, <3>2
  <2>2. ASSUME NEW s \in Slots, s \notin Occupied' PROVE params'[s] = NoOne
    <3>1. s # to /\ (s = from \/ s \notin Occupied)
      BY <1>7, <2>2
    <3> QED
      BY <1>1, <1>11, <3>1 DEF Contents
  <2> QED
    BY <2>1, <2>2 DEF Contents
<1> QED
  BY <1>1, <1>2, <1>12, <1>13, <1>14, <1>15, <1>16 DEF RunnerInv, OneChunk

\* No gap is left: the list is cut behind the last request.
LEMMA CondenseEndInv == RunnerInv /\ CondenseEnd => RunnerInv'
<1> SUFFICES ASSUME RunnerInv, CondenseEnd PROVE RunnerInv'
  OBVIOUS
<1> DEFINE n == LastNonEmpty
<1>1. TypeOK /\ Inverses /\ Gaps /\ Members /\ Contents /\ OneChunk
  BY DEF RunnerInv
<1>2. /\ pc = "condense" /\ (removed # {} => ~(Min(removed) < n))
      /\ reqIds' = SubSeq(reqIds, 1, NumReqs) /\ removed' = {} /\ last' = 0
      /\ pc' = (IF scheduled = {} THEN "idle" ELSE "sample")
      /\ requests' = requests /\ index' = index /\ row' = row /\ params' = params
      /\ scheduled' = scheduled /\ toAdd' = toAdd /\ start' = start
  BY DEF CondenseEnd, MoreToMove, AfterUpdate
<1>3. /\ n \in Occupied /\ n <= last /\ n \in Nat /\ n \notin removed
      /\ \A s \in Occupied : s <= n
      /\ removed # {} => Min(removed) \in Nat /\ \A s \in removed : Min(removed) <= s
  BY <1>2, CondenseFacts
<1> HIDE DEF n
<1>4. /\ reqIds \in Seq(Requests \cup {NoOne}) /\ Len(reqIds) \in Nat /\ Len(reqIds) <= MaxReqs
      /\ MaxReqs \in Nat /\ last \in Nat /\ removed \subseteq 1..Len(reqIds)
      /\ last <= Len(reqIds)
      /\ \A s \in 1..Len(reqIds) : reqIds[s] = NoOne <=> s \in removed \/ s > last
  BY <1>1, <1>2, Bounds DEF TypeOK, Gaps
<1>5. \A s \in removed : s > n
  <2> SUFFICES ASSUME NEW s \in removed PROVE s > n
    OBVIOUS
  <2>1. Min(removed) \in Nat /\ Min(removed) <= s /\ ~(Min(removed) < n) /\ s # n /\ s \in Nat
    BY <1>2, <1>3, <1>4
  <2> QED
    BY <1>3, <2>1
<1>6. n \in 1..Len(reqIds) /\ Occupied = 1..n
  <2>1. n \in 1..Len(reqIds)
    BY <1>3 DEF Occupied
  <2>2. ASSUME NEW s \in 1..n PROVE s \in Occupied
    <3>1. s \in 1..Len(reqIds) /\ ~(s > n) /\ ~(s > last)
      BY <1>3, <1>4, <2>1
    <3>2. s \notin removed
      BY <1>5, <3>1
    <3> QED
      BY <1>4, <3>1, <3>2 DEF Occupied
  <2>3. ASSUME NEW s \in Occupied PROVE s \in 1..n
    BY <1>3, <1>4 DEF Occupied
  <2> QED
    BY <2>1, <2>2, <2>3
<1>7. NumReqs = n
  <2>1. NumReqs = Cardinality(Occupied)
    BY <1>1, Count
  <2>2. n \in Int /\ 1 \in Int
    BY <1>3
  <2>3. Cardinality(1..n) = IF 1 > n THEN 0 ELSE n - 1 + 1
    BY <2>2, FS_Interval, Zenon
  <2>4. Cardinality(1..n) = n
    BY <1>3, <2>3
  <2> QED
    BY <1>6, <2>1, <2>4
<1>8. /\ reqIds' \in Seq(Requests \cup {NoOne}) /\ Len(reqIds') = n
      /\ \A s \in 1..n : reqIds'[s] = reqIds[s]
  <2>1. reqIds' = SubSeq(reqIds, 1, n)
    BY <1>2, <1>7
  <2> QED
    BY <1>3, <1>4, <1>6, <2>1, SubSeqProperties
<1>9. Occupied' = Occupied
  <2>1. Occupied' = {s \in 1..n : reqIds'[s] # NoOne}
    BY <1>8 DEF Occupied
  <2>2. \A s \in 1..n : reqIds[s] # NoOne
    BY <1>6 DEF Occupied
  <2> QED
    BY <1>6, <1>8, <2>1, <2>2
<1>10. TypeOK'
  <2>1. Len(reqIds') <= MaxReqs
    BY <1>3, <1>4, <1>6, <1>8
  <2> QED
    BY <1>1, <1>2, <1>8, <2>1 DEF TypeOK
<1>11. Inverses'
  <2>1. ASSUME NEW q \in Requests, index[q] # NoOne
        PROVE  index[q] \in 1..n /\ reqIds'[index[q]] = q
    <3>1. index[q] \in Occupied /\ reqIds[index[q]] = q
      BY <1>1, <2>1, Bounds DEF Inverses, Occupied
    <3> QED
      BY <1>6, <1>8, <3>1
  <2>2. ASSUME NEW s \in Occupied PROVE index[reqIds'[s]] = s
    BY <1>1, <1>6, <1>8 DEF Inverses
  <2> QED
    BY <1>2, <1>8, <1>9, <2>1, <2>2 DEF Inverses
<1>12. Gaps'
  <2>1. \A s \in 1..n : reqIds'[s] # NoOne
    BY <1>6, <1>8 DEF Occupied
  <2> QED
    BY <1>2, <1>8, <2>1 DEF Gaps
<1>13. Members'
  <2>1. InBatch' = InBatch /\ InBatch = scheduled /\ scheduled # {}
    BY <1>1, <1>2 DEF InBatch, Members
  <2> QED
    BY <1>1, <1>2, <2>1 DEF Members
<1>14. Contents'
  <2>1. \A s \in Occupied : reqIds'[s] = reqIds[s]
    BY <1>6, <1>8
  <2> QED
    BY <1>1, <1>2, <1>9, <2>1, ZenonT(60) DEF Contents
<1> QED
  BY <1>1, <1>2, <1>10, <1>11, <1>12, <1>13, <1>14 DEF RunnerInv, OneChunk

\* The batch when the model runs.
LEMMA ReadyFacts ==
  ASSUME RunnerInv, pc = "sample"
  PROVE  /\ Len(reqIds) = NumReqs /\ Occupied = 1..NumReqs /\ NumReqs \in 1..MaxReqs
         /\ ToSet(reqIds) = scheduled /\ InBatch = scheduled
         /\ \A s \in 1..Len(reqIds) : reqIds[s] \in scheduled /\ index[reqIds[s]] = s
         /\ \A r \in scheduled : index[r] \in 1..NumReqs /\ reqIds[index[r]] = r
<1>1. TypeOK /\ Inverses /\ Gaps /\ Members
  BY DEF RunnerInv
<1>2. removed = {} /\ InBatch = scheduled /\ scheduled # {}
  BY <1>1 DEF Gaps, Members
<1>3. /\ Occupied = (1..Len(reqIds)) \ removed
      /\ NumReqs + Cardinality(removed) = Len(reqIds)
  BY <1>1, Full
<1>4. /\ NumReqs \in Nat /\ Occupied \subseteq 1..Len(reqIds) /\ Len(reqIds) \in Nat
      /\ \A r \in InBatch : r \in Requests /\ index[r] \in Occupied /\ reqIds[index[r]] = r
      /\ \A s \in Occupied : reqIds[s] \in InBatch /\ index[reqIds[s]] = s
  BY <1>1, Count
<1>5. NumReqs = Len(reqIds) /\ Occupied = 1..NumReqs
  <2>1. Cardinality(removed) = 0
    BY <1>2, FS_EmptySet
  <2> QED
    BY <1>2, <1>3, <1>4, <2>1
<1>6. NumReqs \in 1..MaxReqs
  <2>1. NumReqs # 0
    BY <1>2, <1>4, <1>5
  <2> QED
    BY <1>1, <1>4, <1>5, <2>1, Bounds DEF TypeOK
<1>7. ToSet(reqIds) = scheduled
  <2>1. \A x : x \in ToSet(reqIds) <=> \E i \in 1..Len(reqIds) : reqIds[i] = x
    <3>1. reqIds \in Seq(Requests \cup {NoOne})
      BY <1>1 DEF TypeOK
    <3> QED
      BY <3>1, ToSetDef
  <2> QED
    BY <1>2, <1>4, <1>5, <2>1
<1> QED
  BY <1>2, <1>4, <1>5, <1>6, <1>7

\* If one execution of the model takes the whole batch, the first one does.
LEMMA ChunkFacts ==
  ASSUME RunnerInv, pc = "sample", ChunkSize >= MaxReqs
  PROVE  start = 1 /\ NumReqs \in Chunk
<1>1. start = 1 /\ NumReqs \in 1..MaxReqs /\ MaxReqs \in Nat /\ ChunkSize \in Nat
  BY ReadyFacts, Bounds DEF RunnerInv, OneChunk
<1> DEFINE T == {start + ChunkSize - 1, NumReqs}
<1>2. T \in SUBSET Nat /\ T # {} /\ \A x \in T : x >= NumReqs
  BY <1>1
<1>3. Min(T) \in T
  <2> HIDE DEF T
  <2> QED
    BY <1>2, MinFacts
<1>4. Min(T) \in Nat /\ Min(T) >= NumReqs
  <2> HIDE DEF T
  <2> QED
    BY <1>2, <1>3
<1>5. Chunk = start..Min(T)
  BY DEF Chunk
<1> HIDE DEF T
<1> QED
  BY <1>1, <1>4, <1>5

\* Every request of the batch gets its token, in its row and in its cached state.
LEMMA SampleTokensInv == RunnerInv /\ SampleTokens => RunnerInv'
<1> SUFFICES ASSUME RunnerInv, SampleTokens PROVE RunnerInv'
  OBVIOUS
<1>1. TypeOK /\ Inverses /\ Gaps /\ Members /\ Contents /\ OneChunk
  BY DEF RunnerInv
<1>2. /\ pc = "sample" /\ reqIds' = reqIds /\ index' = index /\ params' = params
      /\ toAdd' = toAdd /\ removed' = removed /\ last' = last
  BY DEF SampleTokens
<1>3. Occupied' = Occupied /\ InBatch' = InBatch /\ Inverses'
  BY <1>1, <1>2 DEF Occupied, InBatch, Inverses
<1>4. CASE NumReqs \in Chunk
  <2>1. /\ row' = [s \in Slots |-> IF s <= NumReqs THEN Appended(s) ELSE row[s]]
        /\ requests' = [r \in Requests |->
              IF r \in ToSet(reqIds) THEN [requests[r] EXCEPT !.tokens = @ + 1]
              ELSE requests[r]]
        /\ pc' = "idle" /\ scheduled' = {} /\ start' = 1
    BY <1>4 DEF SampleTokens
  <2>2. /\ Occupied = 1..NumReqs /\ NumReqs \in 1..MaxReqs
        /\ ToSet(reqIds) = scheduled /\ InBatch = scheduled
        /\ \A s \in Occupied : reqIds[s] \in scheduled
    BY <1>2, ReadyFacts
  <2>3. \A r \in scheduled : r \in Requests /\ requests[r] \in Cached
    BY <1>1 DEF TypeOK, Members
  <2>4. \A r \in Requests : requests'[r] = IF r \in scheduled
                                           THEN [requests[r] EXCEPT !.tokens = @ + 1]
                                           ELSE requests[r]
    BY <2>1, <2>2
  <2>5. \A r \in scheduled : /\ requests'[r] \in Cached
                             /\ requests'[r].tokens = requests[r].tokens + 1
                             /\ requests'[r].has = requests[r].has
                             /\ requests'[r].blocks = requests[r].blocks
    <3> SUFFICES ASSUME NEW r \in scheduled
                 PROVE  /\ requests'[r] \in Cached
                        /\ requests'[r].tokens = requests[r].tokens + 1
                        /\ requests'[r].has = requests[r].has
                        /\ requests'[r].blocks = requests[r].blocks
      OBVIOUS
    <3>1. r \in Requests /\ requests[r] \in Cached
      BY <2>3
    <3>2. requests'[r] = [requests[r] EXCEPT !.tokens = @ + 1]
      BY <2>4, <3>1
    <3> QED
      BY <3>1, <3>2 DEF Cached
  <2>6. requests' \in [Requests -> Cached \cup {NoOne}]
    <3>1. \A r \in Requests : requests'[r] \in Cached \cup {NoOne}
      BY <1>1, <2>4, <2>5 DEF TypeOK
    <3> QED
      BY <2>1, <3>1
  <2>7. row' \in [Slots -> [req : Requests \cup {NoOne}, tokens : Nat, blocks : Nat]]
    <3>1. \A s \in Slots : row[s] \in [req : Requests \cup {NoOne}, tokens : Nat, blocks : Nat]
      BY <1>1 DEF TypeOK
    <3>2. \A s \in Slots :
             Appended(s) \in [req : Requests \cup {NoOne}, tokens : Nat, blocks : Nat]
      BY <3>1 DEF Appended
    <3> QED
      BY <2>1, <3>1, <3>2
  <2>8. TypeOK'
    BY <1>1, <1>2, <2>1, <2>6, <2>7 DEF TypeOK
  <2>9. Gaps'
    BY <1>1, <1>2, <2>1 DEF Gaps
  <2>10. Members'
    <3>1. InBatch \subseteq {r \in Requests : requests'[r] # NoOne}
      BY <2>2, <2>3, <2>5, Bounds
    <3>2. Cardinality(scheduled') <= MaxReqs
      BY <2>1, FS_EmptySet, Bounds
    <3> QED
      BY <1>3, <2>1, <3>1, <3>2 DEF Members
  <2>11. Contents'
    <3>1. ASSUME NEW s \in Occupied
          PROVE  /\ row'[s] = [req |-> reqIds[s], tokens |-> requests'[reqIds[s]].tokens,
                               blocks |-> requests'[reqIds[s]].blocks]
                 /\ params[s] = IF "params" \in requests'[reqIds[s]].has THEN reqIds[s]
                                ELSE NoOne
      <4>1. s \in Slots /\ s <= NumReqs
        BY <2>2, Bounds DEF Slots
      <4>2. row'[s] = [row[s] EXCEPT !.tokens = @ + 1]
        BY <2>1, <4>1 DEF Appended
      <4> DEFINE r == reqIds[s]
      <4>3. /\ row[s] = [req |-> r, tokens |-> requests[r].tokens, blocks |-> requests[r].blocks]
            /\ params[s] = IF "params" \in requests[r].has THEN r ELSE NoOne
        BY <1>1 DEF Contents
      <4>4. r \in scheduled
        BY <2>2
      <4> HIDE DEF r
      <4>5. row'[s] = [req |-> r, tokens |-> requests[r].tokens + 1,
                       blocks |-> requests[r].blocks]
        BY <4>2, <4>3
      <4>6. /\ requests'[r].tokens = requests[r].tokens + 1
            /\ requests'[r].has = requests[r].has /\ requests'[r].blocks = requests[r].blocks
        BY <2>5, <4>4
      <4> QED
        BY <4>3, <4>5, <4>6 DEF r
    <3> QED
      BY <1>1, <1>2, <1>3, <3>1 DEF Contents
  <2> QED
    BY <1>3, <2>1, <2>8, <2>9, <2>10, <2>11 DEF RunnerInv, OneChunk
<1>5. CASE NumReqs \notin Chunk
  <2>1. /\ start' = start + ChunkSize /\ row' = row /\ requests' = requests /\ pc' = pc
        /\ scheduled' = scheduled
    BY <1>5 DEF SampleTokens, NextStart
  <2>2. TypeOK'
    BY <1>1, <1>2, <2>1, Bounds DEF TypeOK
  <2>3. Gaps' /\ Members'
    BY <1>1, <1>2, <1>3, <2>1 DEF Gaps, Members
  <2>4. Contents'
    BY <1>1, <1>2, <1>3, <2>1 DEF Contents
  <2>5. OneChunk'
    BY <1>2, <1>5, ChunkFacts DEF OneChunk
  <2> QED
    BY <1>3, <2>2, <2>3, <2>4, <2>5 DEF RunnerInv
<1> QED
  BY <1>4, <1>5

\* Every step keeps the invariant.
LEMMA NextInv == RunnerInv /\ [Next]_vars => RunnerInv'
<1> SUFFICES ASSUME RunnerInv, [Next]_vars PROVE RunnerInv'
  OBVIOUS
<1>1. ASSUME NEW out \in SchedulerOutputs,
             NEW opts \in [{r \in Requests : out[r] \in {"new", "again"}} -> Options],
             ExecuteModel(out, opts)
      PROVE  RunnerInv'
  BY <1>1, ExecuteModelInv
<1>2. CASE UNCHANGED vars
  BY <1>2 DEF vars, batchVars, stepVars, RunnerInv, TypeOK, Inverses, Gaps, Members, Contents,
              OneChunk, Occupied, InBatch
<1> QED
  BY <1>1, <1>2, AddRequestInv, BeginCondenseInv, CondenseMoveInv, CondenseEndInv,
     SampleTokensInv DEF Next

\* The invariant of the runner, for any number of requests and slots.
THEOREM AlwaysInv == Spec => []RunnerInv
<1> QED
  BY InitInv, NextInv, PTL DEF Spec

\* Whatever was removed, added and moved, the model runs on exactly the scheduled requests,
\* without gaps (sample_tokens asserts that no id is None), for any batch size.
THEOREM BatchAlwaysScheduled == Spec => []BatchIsScheduled
<1>1. RunnerInv => BatchIsScheduled
  BY ReadyFacts DEF BatchIsScheduled
<1> QED
  BY <1>1, AlwaysInv, PTL

-----------------------------------------------------------------------------
(* The batch implements PersistentBatch: steps that schedule, prepare and   *)
(* sample are its steps, and what goes on between them it does not see.     *)

\* When the model runs, what it is given for every request of the batch is its cached state.
BatchGiven ==
    pc = "sample" => [r \in ToSet(reqIds) |-> Given(index[r])] = [r \in scheduled |-> requests[r]]

\* The rows and parameters that the invariant speaks of are the ones that are read.
LEMMA ReadyGiven ==
  ASSUME ChunkSize >= MaxReqs, Options \subseteq SUBSET {"params"}
  PROVE  RunnerInv => BatchGiven
<1> SUFFICES ASSUME RunnerInv, pc = "sample"
             PROVE  [r \in ToSet(reqIds) |-> Given(index[r])] = [r \in scheduled |-> requests[r]]
  BY DEF BatchGiven
<1>1. /\ Occupied = 1..NumReqs /\ NumReqs \in Nat /\ ToSet(reqIds) = scheduled
      /\ \A r \in scheduled : index[r] \in 1..NumReqs /\ reqIds[index[r]] = r
  BY ReadyFacts
<1>2. start = 1
  BY ChunkFacts
<1>3. ASSUME NEW r \in scheduled PROVE Given(index[r]) = requests[r]
  <2> DEFINE s == index[r]
  <2>1. s \in Occupied /\ s \in Nat /\ reqIds[s] = r
    BY <1>1
  <2>2. r \in Requests /\ r # NoOne /\ requests[r] \in Cached
    BY Bounds DEF RunnerInv, TypeOK, Members
  <2>3. /\ row[s] = [req |-> r, tokens |-> requests[r].tokens, blocks |-> requests[r].blocks]
        /\ params[s] = IF "params" \in requests[r].has THEN r ELSE NoOne
    BY <2>1 DEF RunnerInv, Contents
  <2> HIDE DEF s
  <2>4. InputRow(s) = s
    BY <1>2, <2>1 DEF InputRow
  <2>5. row[s].req = r /\ row[s].tokens = requests[r].tokens /\ row[s].blocks = requests[r].blocks
    BY <2>3
  <2>6. requests[r].has = IF params[s] = NoOne THEN {}
                          ELSE IF params[s] = r THEN {"params"} ELSE {params[s]}
    <3>1. requests[r].has \in SUBSET {"params"}
      BY <2>2 DEF Cached
    <3>2. CASE "params" \in requests[r].has
      <4>1. requests[r].has = {"params"} /\ params[s] = r
        BY <2>3, <3>1, <3>2
      <4> QED
        BY <2>2, <4>1
    <3>3. CASE "params" \notin requests[r].has
      <4>1. requests[r].has = {} /\ params[s] = NoOne
        BY <2>3, <3>1, <3>3
      <4> QED
        BY <4>1
    <3> QED
      BY <3>2, <3>3
  <2>7. Given(s) = [has    |-> IF params[s] = NoOne THEN {}
                               ELSE IF params[s] = r THEN {"params"} ELSE {params[s]},
                    tokens |-> row[s].tokens,
                    blocks |-> row[s].blocks]
    BY <2>1, <2>4, <2>5 DEF Given
  <2>8. Given(s) = [has |-> requests[r].has, tokens |-> requests[r].tokens,
                    blocks |-> requests[r].blocks]
    BY <2>5, <2>6, <2>7
  <2>9. requests[r] = [has |-> requests[r].has, tokens |-> requests[r].tokens,
                       blocks |-> requests[r].blocks]
    BY <2>2 DEF Cached
  <2> QED
    BY <2>8, <2>9 DEF s
<1> QED
  BY <1>1, <1>3

\* The scheduler's output is a Schedule step of PersistentBatch.
LEMMA ScheduleStep ==
  ASSUME RunnerInv, NEW out \in SchedulerOutputs,
         NEW opts \in [{r \in Requests : out[r] \in {"new", "again"}} -> Options],
         ExecuteModel(out, opts)
  PROVE  Batch!Schedule
<1> DEFINE new == {r \in Requests : out[r] \in {"new", "again"}}
           cached == {r \in Requests : out[r] \in {"cached", "grown", "resumed"}}
<1>1. /\ pc = "idle" /\ pc' = "add"
      /\ Cardinality(new \cup cached) <= MaxReqs
      /\ scheduled' = new \cup cached
      /\ requests' = [r \in Requests |->
                CASE r \in new -> [has |-> opts[r], tokens |-> 1, blocks |-> 1]
                  [] out[r] = "finished" -> NoOne
                  [] out[r] = "grown" -> [requests[r] EXCEPT !.blocks = @ + 1]
                  [] out[r] = "resumed" -> [requests[r] EXCEPT !.blocks = 1]
                  [] OTHER -> requests[r]]
  BY DEF ExecuteModel
<1>2. ASSUME NEW r \in Requests
      PROVE  /\ requests'[r] \in States \cup {NoOne}
             /\ r \in scheduled' => requests'[r] # NoOne
             /\ requests'[r] \notin {NoOne, requests[r]} => r \in scheduled'
             /\ r \in scheduled' =>
                   \/ requests'[r].tokens = 1
                   \/ /\ requests[r] # NoOne
                      /\ requests'[r].tokens = requests[r].tokens
                      /\ requests'[r].has = requests[r].has
  <2>1. /\ out[r] \in Kinds /\ Possible(r, out[r]) /\ requests[r] \in Cached \cup {NoOne}
        /\ MaxBlocks \in Nat \ {0} /\ MaxTokens \in Nat \ {0} /\ NoOne \notin Cached
    BY Bounds DEF SchedulerOutputs, RunnerInv, TypeOK
  <2>2. States \subseteq Cached
    BY <2>1 DEF States, Cached
  <2>3. requests'[r] = CASE r \in new -> [has |-> opts[r], tokens |-> 1, blocks |-> 1]
                         [] out[r] = "finished" -> NoOne
                         [] out[r] = "grown" -> [requests[r] EXCEPT !.blocks = @ + 1]
                         [] out[r] = "resumed" -> [requests[r] EXCEPT !.blocks = 1]
                         [] OTHER -> requests[r]
    BY <1>1
  <2>4. CASE out[r] \in {"new", "again"}
    <3>1. requests'[r] = [has |-> opts[r], tokens |-> 1, blocks |-> 1] /\ opts[r] \in Options
      BY <2>3, <2>4
    <3>2. requests'[r] \in States /\ requests'[r].tokens = 1
      BY <2>1, <3>1 DEF States
    <3> QED
      BY <1>1, <2>1, <2>2, <2>4, <3>2
  <2>5. CASE out[r] = "finished"
    <3>1. requests'[r] = NoOne /\ r \notin scheduled'
      BY <1>1, <2>3, <2>5
    <3> QED
      BY <3>1
  <2>6. CASE out[r] \in {"cached", "grown", "resumed"}
    <3>1. /\ requests[r] # NoOne /\ requests[r] \in Cached /\ requests[r].tokens < MaxTokens
          /\ out[r] = "grown" => requests[r].blocks < MaxBlocks
      BY <2>1, <2>6 DEF Possible
    <3>2. /\ out[r] = "cached" => requests'[r] = requests[r]
          /\ out[r] = "grown" => requests'[r] = [requests[r] EXCEPT !.blocks = @ + 1]
          /\ out[r] = "resumed" => requests'[r] = [requests[r] EXCEPT !.blocks = 1]
      BY <2>3, <2>6
    <3>3. requests'[r] \in States /\ requests'[r].tokens = requests[r].tokens
          /\ requests'[r].has = requests[r].has
      <4>1. CASE out[r] = "cached"
        BY <2>1, <3>1, <3>2, <4>1 DEF Cached, States
      <4>2. CASE out[r] = "grown"
        BY <2>1, <3>1, <3>2, <4>2 DEF Cached, States
      <4>3. CASE out[r] = "resumed"
        BY <2>1, <3>1, <3>2, <4>3 DEF Cached, States
      <4> QED
        BY <2>6, <4>1, <4>2, <4>3
    <3>4. r \in scheduled'
      BY <1>1, <2>6
    <3> QED
      BY <2>1, <2>2, <3>1, <3>3, <3>4
  <2>7. CASE out[r] = "none"
    <3>1. requests'[r] = requests[r] /\ r \notin scheduled'
      BY <1>1, <2>3, <2>7
    <3>2. requests[r] \in Cached => requests[r].tokens < MaxTokens
      BY <2>1, <2>7 DEF Possible
    <3>3. requests[r] \in States \cup {NoOne}
      BY <2>1, <3>2 DEF Cached, States
    <3> QED
      BY <3>1, <3>3
  <2> QED
    BY <2>1, <2>4, <2>5, <2>6, <2>7 DEF Kinds
<1>3. requests' \in [Requests -> States \cup {NoOne}]
  BY <1>1, <1>2
<1>4. scheduled' \in SUBSET Requests /\ Cardinality(scheduled') <= MaxReqs
  BY <1>1
<1> HIDE DEF new, cached
<1>5. Batch!Cardinality(scheduled') = Cardinality(scheduled')
  BY DEF Batch!Cardinality, Cardinality
<1> QED
  BY <1>1, <1>2, <1>3, <1>4, <1>5 DEF Batch!Schedule, Batch!State, States

\* Every step of the runner is a step of PersistentBatch or leaves its state alone.
LEMMA NextBatch ==
  RunnerInv /\ BatchGiven' /\ [Next]_vars /\ (ChunkSize >= MaxReqs) => [Batch!Next]_(Batch!vars)
<1> SUFFICES ASSUME RunnerInv, BatchGiven', [Next]_vars, ChunkSize >= MaxReqs
             PROVE  [Batch!Next]_(Batch!vars)
  OBVIOUS
<1>1. ASSUME NEW out \in SchedulerOutputs,
             NEW opts \in [{r \in Requests : out[r] \in {"new", "again"}} -> Options],
             ExecuteModel(out, opts)
      PROVE  Batch!Next
  BY <1>1, ScheduleStep DEF Batch!Next
<1>2. ASSUME requests' = requests, scheduled' = scheduled,
             pc \in {"add", "condense"}, pc' \in {"add", "condense"}
      PROVE  UNCHANGED Batch!vars
  BY <1>2 DEF Batch!vars
<1>3. ASSUME requests' = requests, scheduled' = scheduled,
             pc \in {"add", "condense"}, pc' = AfterUpdate
      PROVE  Batch!Next
  <2>1. CASE scheduled = {}
    BY <1>3, <2>1 DEF Batch!Next, Batch!Prepare, AfterUpdate
  <2>2. CASE scheduled # {}
    <3>1. pc' = "sample"
      BY <1>3, <2>2 DEF AfterUpdate
    <3>2. [r \in ToSet(reqIds)' |-> Given(index[r])'] = [r \in scheduled |-> requests[r]]
      BY <1>3, <3>1 DEF BatchGiven
    <3> QED
      BY <1>3, <2>2, <3>1, <3>2 DEF Batch!Next, Batch!Prepare
  <2> QED
    BY <2>1, <2>2
<1>4. CASE AddRequest
  BY <1>2, <1>4 DEF AddRequest
<1>5. CASE BeginCondense
  BY <1>2, <1>3, <1>5 DEF BeginCondense
<1>6. CASE CondenseMove
  BY <1>2, <1>6 DEF CondenseMove
<1>7. CASE CondenseEnd
  BY <1>3, <1>7 DEF CondenseEnd
<1>8. CASE SampleTokens
  <2>1. pc = "sample" /\ NumReqs \in Chunk /\ ToSet(reqIds) = scheduled
    BY <1>8, ChunkFacts, ReadyFacts DEF SampleTokens
  <2>2. /\ requests' = [r \in Requests |->
              IF r \in scheduled THEN [requests[r] EXCEPT !.tokens = @ + 1] ELSE requests[r]]
        /\ pc' = "idle" /\ scheduled' = {}
    BY <1>8, <2>1 DEF SampleTokens
  <2> QED
    BY <2>1, <2>2 DEF Batch!Next, Batch!Sample, Batch!NoInputs
<1>9. CASE UNCHANGED vars
  <2>1. UNCHANGED <<requests, reqIds, index, row, params, pc, scheduled, start>>
    BY <1>9 DEF vars, batchVars, stepVars
  <2> QED
    BY <2>1 DEF Batch!vars, Given, InputRow
<1> QED
  BY <1>1, <1>4, <1>5, <1>6, <1>7, <1>8, <1>9 DEF Next

\* With one execution of the model for the whole batch, and for all that is moved with a
\* request (its row, and the dictionaries keyed by slot), the batch that is kept from step
\* to step gives the model what a batch built anew for every step would.
THEOREM RunnerImplementsBatch ==
  ASSUME ChunkSize >= MaxReqs, Options \subseteq SUBSET {"params"}
  PROVE  Spec => ImplementsBatch
<1>1. Init => Batch!Init
  BY DEF Init, Batch!Init, Batch!NoInputs
<1>2. RunnerInv => BatchGiven
  BY ReadyGiven
<1>3. RunnerInv /\ BatchGiven' /\ [Next]_vars => [Batch!Next]_(Batch!vars)
  BY NextBatch
<1> QED
  BY <1>1, <1>2, <1>3, AlwaysInv, PTL DEF Spec, ImplementsBatch, Batch!Spec

-----------------------------------------------------------------------------
(* Sampling, for any batch and any vocabulary                              *)

CONSTANT VocabSize
Sampling == INSTANCE Sampler

\* What the requests of a batch may ask for.
SamplingRequest ==
    [logits : [1..VocabSize -> Int], temp : Nat, k : Nat, p : Nat, minP : Nat,
     allowed : SUBSET Sampling!Vocab, minTokens : Nat, stops : SUBSET Sampling!Vocab,
     badWords : SUBSET Seq(Sampling!Vocab), bias : {<<>>} \cup [1..VocabSize -> Int],
     rep : Nat \ {0}, freq : Int, pres : Int, seeded : BOOLEAN,
     prompt : Seq(Sampling!Vocab), out : Seq(Sampling!Vocab)]

\* The flags of a batch are set if one of its requests needs them.
LEMMA Flags ==
  ASSUME NEW batch, \A i \in DOMAIN batch : batch[i].temp \in Nat
  PROVE  LET m == Sampling!Metadata(batch)
         IN /\ m.allGreedy <=> \A i \in DOMAIN batch : batch[i].temp = 0
            /\ m.allRandom <=> \A i \in DOMAIN batch : batch[i].temp # 0
            /\ m.penalties <=> \E i \in DOMAIN batch : Sampling!HasPenalties(batch[i])
            /\ m.bias <=> \E i \in DOMAIN batch : batch[i].bias # <<>>
            /\ m.badWords <=> \E i \in DOMAIN batch : batch[i].badWords # {}
            /\ m.allowed <=> \E i \in DOMAIN batch : batch[i].allowed # {}
            /\ m.minTokens <=> \E i \in DOMAIN batch : Sampling!BelowMin(batch[i])
            /\ m.generators <=> \E i \in DOMAIN batch : batch[i].seeded
<1> DEFINE m == Sampling!Metadata(batch)
<1>1. m.allGreedy <=> \A i \in DOMAIN batch : batch[i].temp = 0
  <2>1. m.allGreedy <=> ~\E i \in DOMAIN batch : batch[i].temp > 0
    BY DEF Sampling!Metadata
  <2> QED
    BY <2>1
<1>2. m.allRandom <=> \A i \in DOMAIN batch : batch[i].temp # 0
  BY DEF Sampling!Metadata
<1>3. m.penalties <=> \E i \in DOMAIN batch : Sampling!HasPenalties(batch[i])
  BY DEF Sampling!Metadata
<1>4. m.bias <=> \E i \in DOMAIN batch : batch[i].bias # <<>>
  BY DEF Sampling!Metadata
<1>5. m.badWords <=> \E i \in DOMAIN batch : batch[i].badWords # {}
  BY DEF Sampling!Metadata
<1>6. m.allowed <=> \E i \in DOMAIN batch : batch[i].allowed # {}
  BY DEF Sampling!Metadata
<1>7. m.minTokens <=> \E i \in DOMAIN batch : Sampling!BelowMin(batch[i])
  BY DEF Sampling!Metadata
<1>8. m.generators <=> \E i \in DOMAIN batch : batch[i].seeded
  BY DEF Sampling!Metadata
<1> HIDE DEF m
<1>9. /\ m.allGreedy <=> \A i \in DOMAIN batch : batch[i].temp = 0
      /\ m.allRandom <=> \A i \in DOMAIN batch : batch[i].temp # 0
      /\ m.penalties <=> \E i \in DOMAIN batch : Sampling!HasPenalties(batch[i])
      /\ m.bias <=> \E i \in DOMAIN batch : batch[i].bias # <<>>
      /\ m.badWords <=> \E i \in DOMAIN batch : batch[i].badWords # {}
      /\ m.allowed <=> \E i \in DOMAIN batch : batch[i].allowed # {}
      /\ m.minTokens <=> \E i \in DOMAIN batch : Sampling!BelowMin(batch[i])
      /\ m.generators <=> \E i \in DOMAIN batch : batch[i].seeded
  BY <1>1, <1>2, <1>3, <1>4, <1>5, <1>6, <1>7, <1>8, Zenon
<1> QED
  BY <1>9 DEF m

\* The number of tokens is one.
LEMMA TokenCount ==
  ASSUME NEW r \in SamplingRequest, NEW t
  PROVE  Sampling!TokenCounts(r, t) \in Nat
<1>1. r.out \in Seq(Sampling!Vocab)
  BY DEF SamplingRequest
<1>2. DOMAIN r.out = 1..Len(r.out) /\ Len(r.out) \in Nat
  BY <1>1
<1>3. {j \in DOMAIN r.out : r.out[j] = t} \subseteq 1..Len(r.out)
  BY <1>2
<1>4. IsFiniteSet({j \in DOMAIN r.out : r.out[j] = t})
  <2>1. IsFiniteSet(1..Len(r.out))
    BY <1>2, FS_Interval
  <2> QED
    BY <1>3, <2>1, FS_Subset
<1>5. Cardinality({j \in DOMAIN r.out : r.out[j] = t}) \in Nat
  BY <1>4, FS_CardinalityType
<1> QED
  BY <1>5 DEF Sampling!TokenCounts, Sampling!Cardinality, Cardinality

\* A mask or a penalty that a request does not ask for changes nothing.
LEMMA Neutral ==
  ASSUME NEW r \in SamplingRequest, NEW t \in Sampling!Vocab, VocabSize \in Nat
  PROVE  /\ r.bias = <<>> \/ r.bias[t + 1] \in Int
         /\ r.logits[t + 1] \in Int
         /\ r.allowed = {} => Sampling!AllowedMask(r, t) = 0
         /\ ~Sampling!BelowMin(r) => Sampling!MinTokensMask(r, t) = 0
         /\ r.badWords = {} => Sampling!BadWordsMask(r, t) = 0
         /\ Sampling!AllowedMask(r, t) \in Int
         /\ Sampling!MinTokensMask(r, t) \in Int
         /\ Sampling!BadWordsMask(r, t) \in Int
         /\ ~Sampling!HasPenalties(r) =>
               \A x \in Int : Sampling!ApplyPenalties(r, t, x) = x
<1>1. /\ r.bias \in {<<>>} \cup [1..VocabSize -> Int]
      /\ r.logits \in [1..VocabSize -> Int]
      /\ r.rep \in Nat /\ r.freq \in Int /\ r.pres \in Int
  BY DEF SamplingRequest
<1>2. t \in Int /\ t + 1 \in 1..VocabSize
  BY DEF Sampling!Vocab
<1>3. r.logits[t + 1] \in Int /\ (r.bias = <<>> \/ r.bias[t + 1] \in Int)
  BY <1>1, <1>2
<1>4. ASSUME ~Sampling!HasPenalties(r), NEW x \in Int
      PROVE  Sampling!ApplyPenalties(r, t, x) = x
  <2> DEFINE seen == Sampling!TokenCounts(r, t)
  <2>1. r.rep = 1 /\ r.freq = 0 /\ r.pres = 0
    BY <1>4 DEF Sampling!HasPenalties
  <2>2. seen \in Nat
    BY TokenCount
  <2> HIDE DEF seen
  <2>3. x \div 1 = x /\ x * 1 = x
    BY <1>4
  <2>4. -(0 * seen) - (IF seen > 0 THEN 0 ELSE 0) = 0
    BY <2>2
  <2>5. Sampling!Plus(x, 0) = x
    BY <1>4 DEF Sampling!Plus, Sampling!NegInf
  <2> QED
    BY <2>1, <2>3, <2>4, <2>5 DEF Sampling!ApplyPenalties, seen
<1>5. /\ r.allowed = {} => Sampling!AllowedMask(r, t) = 0
      /\ ~Sampling!BelowMin(r) => Sampling!MinTokensMask(r, t) = 0
      /\ r.badWords = {} => Sampling!BadWordsMask(r, t) = 0
  BY DEF Sampling!AllowedMask, Sampling!MinTokensMask, Sampling!BadWordsMask
<1>6. /\ Sampling!AllowedMask(r, t) \in Int
      /\ Sampling!MinTokensMask(r, t) \in Int
      /\ Sampling!BadWordsMask(r, t) \in Int
  BY DEF Sampling!AllowedMask, Sampling!MinTokensMask, Sampling!BadWordsMask, Sampling!NegInf
<1> QED
  BY <1>3, <1>4, <1>5, <1>6

\* Flags that are set where the request r needs them, ...
Serves(m, r) ==
    /\ Sampling!HasPenalties(r) => m.penalties
    /\ r.bias # <<>> => m.bias
    /\ r.badWords # {} => m.badWords
    /\ r.allowed # {} => m.allowed
    /\ Sampling!BelowMin(r) => m.minTokens
    /\ r.seeded => m.generators
    /\ m.allGreedy => r.temp = 0
    /\ m.allRandom => r.temp # 0

\* ... give it the same logits.
LEMMA SameLogits ==
  ASSUME NEW r \in SamplingRequest, NEW t \in Sampling!Vocab, VocabSize \in Nat,
         NEW m, Serves(m, r), NEW n, Serves(n, r)
  PROVE  Sampling!Logits(m, r, t) = Sampling!Logits(n, r, t)
<1> DEFINE a == Sampling!AllowedMask(r, t)
           s == Sampling!MinTokensMask(r, t)
           w == Sampling!BadWordsMask(r, t)
           b == IF r.bias # <<>> THEN r.bias[t + 1] ELSE 0
           x == Sampling!Plus(Sampling!Plus(Sampling!Plus(
                    Sampling!Plus(r.logits[t + 1], a), s), w), b)
<1>1. x \in Int
  <2>1. a \in Int /\ s \in Int /\ w \in Int /\ b \in Int /\ r.logits[t + 1] \in Int
    BY Neutral
  <2>2. \A y, z \in Int : Sampling!Plus(y, z) \in Int
    BY DEF Sampling!Plus, Sampling!NegInf
  <2> HIDE DEF a, s, w, b
  <2> QED
    BY <2>1, <2>2
<1>2. ASSUME NEW f, Serves(f, r)
      PROVE  Sampling!Logits(f, r, t) = IF Sampling!HasPenalties(r)
                                        THEN Sampling!ApplyPenalties(r, t, x) ELSE x
  <2>1. /\ a = (IF f.allowed THEN a ELSE 0)
        /\ s = (IF f.minTokens THEN s ELSE 0)
        /\ w = (IF f.badWords THEN w ELSE 0)
        /\ b = (IF f.bias /\ r.bias # <<>> THEN r.bias[t + 1] ELSE 0)
    BY <1>2, Neutral DEF Serves
  <2>2. Sampling!Logits(f, r, t) = IF f.penalties THEN Sampling!ApplyPenalties(r, t, x) ELSE x
    BY <2>1 DEF Sampling!Logits
  <2>3. ~Sampling!HasPenalties(r) => Sampling!ApplyPenalties(r, t, x) = x
    BY <1>1, Neutral
  <2> HIDE DEF x
  <2> QED
    BY <1>2, <2>2, <2>3 DEF Serves
<1> QED
  BY <1>2

\* What the request r of a batch gets, with the flags m of the batch.
SampleWith(m, r) ==
    LET x == [t \in Sampling!Vocab |-> Sampling!Logits(m, r, t)]
        w == Sampling!ApplyMinP(Sampling!Softmax(Sampling!ApplyTemperature(m, r, x)), r.minP)
        random == {t \in Sampling!TopKTopP(w, r.k, r.p) : w[t] > 0}
    IN IF Sampling!FastPath(m)
       THEN [tokens |-> {Sampling!ArgMax([t \in Sampling!Vocab |-> r.logits[t + 1]])},
             noise |-> "none"]
       ELSE IF r.temp = 0 THEN [tokens |-> {Sampling!ArgMax(x)}, noise |-> "none"]
       ELSE [tokens |-> random, noise |-> Sampling!Noise(m, r)]

\* Whatever the flags, as long as they serve the request.
LEMMA SameSample ==
  ASSUME NEW r \in SamplingRequest, VocabSize \in Nat,
         NEW m, Serves(m, r), NEW n, Serves(n, r)
  PROVE  SampleWith(m, r) = SampleWith(n, r)
<1> DEFINE x(f) == [t \in Sampling!Vocab |-> Sampling!Logits(f, r, t)]
           plain == [t \in Sampling!Vocab |-> r.logits[t + 1]]
<1>1. x(m) = x(n)
  BY SameLogits
<1>2. ASSUME NEW f, Serves(f, r), Sampling!FastPath(f) PROVE x(f) = plain /\ r.temp = 0
  <2>1. ASSUME NEW t \in Sampling!Vocab PROVE Sampling!Logits(f, r, t) = r.logits[t + 1]
    <3>1. /\ ~f.allowed /\ ~f.minTokens /\ ~f.badWords /\ ~f.bias /\ ~f.penalties
      BY <1>2 DEF Sampling!FastPath
    <3>2. r.logits[t + 1] \in Int
      BY Neutral
    <3>3. \A y \in Int : Sampling!Plus(y, 0) = y
      BY DEF Sampling!Plus, Sampling!NegInf
    <3> QED
      BY <3>1, <3>2, <3>3 DEF Sampling!Logits
  <2> QED
    BY <1>2, <2>1 DEF Serves, Sampling!FastPath
<1>3. CASE r.temp = 0
  <2>1. ASSUME NEW f, Serves(f, r), x(f) = x(m)
        PROVE  SampleWith(f, r) = [tokens |-> {Sampling!ArgMax(x(m))}, noise |-> "none"]
    BY <1>2, <1>3, <2>1 DEF SampleWith
  <2> QED
    BY <1>1, <2>1
<1>4. CASE r.temp # 0
  <2>1. ASSUME NEW f, Serves(f, r)
        PROVE  /\ ~Sampling!FastPath(f)
               /\ Sampling!Noise(f, r) = IF r.seeded THEN "own" ELSE "shared"
               /\ \A y : Sampling!ApplyTemperature(f, r, y)
                       = [t \in Sampling!Vocab |-> IF y[t] = Sampling!NegInf
                             THEN Sampling!NegInf ELSE y[t] \div r.temp]
    BY <1>2, <1>4, <2>1 DEF Serves, Sampling!Noise, Sampling!ApplyTemperature
  <2>2. Sampling!ApplyTemperature(m, r, x(m)) = Sampling!ApplyTemperature(n, r, x(n))
    BY <1>1, <2>1
  <2> QED
    BY <1>1, <1>4, <2>1, <2>2 DEF SampleWith
<1> QED
  BY <1>3, <1>4

\* The flags of its batch serve a request.
LEMMA BatchServes ==
  ASSUME NEW batch \in Seq(SamplingRequest), NEW i \in DOMAIN batch
  PROVE  /\ batch[i] \in SamplingRequest
         /\ Serves(Sampling!Metadata(batch), batch[i])
         /\ Sampling!Sample(batch, i) = SampleWith(Sampling!Metadata(batch), batch[i])
<1>1. DOMAIN batch = 1..Len(batch) /\ \A j \in DOMAIN batch : batch[j] \in SamplingRequest
  OBVIOUS
<1>2. \A q \in SamplingRequest : q.temp \in Nat
  BY DEF SamplingRequest
<1>3. Serves(Sampling!Metadata(batch), batch[i])
  BY <1>1, <1>2, Flags DEF Serves
<1>4. Sampling!Sample(batch, i) = SampleWith(Sampling!Metadata(batch), batch[i])
  BY DEF Sampling!Sample, SampleWith
<1> QED
  BY <1>1, <1>3, <1>4

\* The flags of a batch decide which masks are made and which path is taken; still, for
\* any batch, a request gets the candidates and the generator it would have got alone
\* (XLASupportedSamplingMetadata.from_input_batch, sample_from_logits).
THEOREM AlwaysSampledAsIfAlone ==
  ASSUME VocabSize \in Nat, NEW batch \in Seq(SamplingRequest)
  PROVE  Sampling!SampledAsIfAlone(batch)
<1> SUFFICES ASSUME NEW i \in DOMAIN batch
             PROVE  Sampling!Sample(batch, i) = Sampling!Sample(<<batch[i]>>, 1)
  BY DEF Sampling!SampledAsIfAlone
<1> DEFINE r == batch[i]
           m == Sampling!Metadata(batch)
           one == <<r>>
           n == Sampling!Metadata(one)
<1>1. /\ r \in SamplingRequest /\ Serves(m, r)
      /\ Sampling!Sample(batch, i) = SampleWith(m, r)
  BY BatchServes
<1> HIDE DEF r
<1>2. one \in Seq(SamplingRequest) /\ 1 \in DOMAIN one /\ one[1] = r
  BY <1>1
<1> HIDE DEF one
<1>3. Serves(n, r) /\ Sampling!Sample(one, 1) = SampleWith(n, r)
  BY <1>2, BatchServes
<1> QED
  BY <1>1, <1>3, SameSample DEF r, one

\* Parameters whose sums with a logit stay far from minus infinity.
Within(x, n) == x \in Int /\ 0 <= n + x /\ x <= n

Moderate(r) ==
    /\ \A j \in 1..VocabSize : Within(r.logits[j], 1000)
    /\ r.bias # <<>> => \A j \in 1..VocabSize : Within(r.bias[j], 1000)
    /\ r.rep \in 1..2 /\ Within(r.freq, 2) /\ Within(r.pres, 2) /\ Len(r.out) <= 100000

\* A word is bad for a token where the mask says so.
LEMMA BadWord ==
  ASSUME NEW r \in SamplingRequest, NEW t \in Sampling!Vocab, <<>> \notin r.badWords
  PROVE  Sampling!BadWordsMask(r, t) =
            IF \E w \in r.badWords : Sampling!IsSuffix(w, Append(r.out, t))
            THEN Sampling!NegInf ELSE 0
<1>1. r.badWords \subseteq Seq(Sampling!Vocab) /\ r.out \in Seq(Sampling!Vocab)
  BY DEF SamplingRequest
<1>2. \A w, o : /\ Sampling!IsSuffix(w, o) <=> IsSuffix(w, o)
                /\ Sampling!Last(w) = Last(w) /\ Sampling!Front(w) = Front(w)
  BY DEF Sampling!IsSuffix, IsSuffix, Sampling!IsPrefix, IsPrefix, Sampling!Reverse, Reverse,
         Sampling!Last, Last, Sampling!Front, Front
<1>3. ASSUME NEW w \in r.badWords
      PROVE  Sampling!IsSuffix(w, Append(r.out, t))
                <=> /\ Len(w) <= Len(r.out) + 1 /\ Sampling!Last(w) = t
                    /\ Sampling!IsSuffix(Sampling!Front(w), r.out)
  <2>1. w \in Seq(Sampling!Vocab) /\ w # <<>>
    BY <1>1
  <2>2. IsSuffix(w, Append(r.out, t))
           <=> Len(w) <= Len(r.out) + 1 /\ Last(w) = t /\ IsSuffix(Front(w), r.out)
    BY <1>1, <2>1, SuffixOfAppend
  <2> QED
    BY <1>2, <2>2
<1> QED
  BY <1>3 DEF Sampling!BadWordsMask

\* The masks of a token are minus infinity if it is banned, and nothing otherwise.
LEMMA Masks ==
  ASSUME NEW r \in SamplingRequest, NEW t \in Sampling!Vocab,
         Sampling!Banned(r) # Sampling!Vocab
  PROVE  LET a == Sampling!AllowedMask(r, t)
             s == Sampling!MinTokensMask(r, t)
             w == Sampling!BadWordsMask(r, t)
         IN /\ t \in Sampling!Banned(r) => Sampling!NegInf \in {a, s, w}
            /\ t \notin Sampling!Banned(r) => a = 0 /\ s = 0 /\ w = 0
<1>1. r.out \in Seq(Sampling!Vocab)
  BY DEF SamplingRequest
<1>2. <<>> \notin r.badWords
  <2> SUFFICES ASSUME <<>> \in r.badWords PROVE FALSE
    OBVIOUS
  <2>1. ASSUME NEW u \in Sampling!Vocab PROVE u \in Sampling!Banned(r)
    <3>1. Append(r.out, u) \in Seq(Sampling!Vocab) /\ <<>> \in Seq(Sampling!Vocab)
      BY <1>1
    <3>2. IsSuffix(<<>>, Append(r.out, u))
      <4>1. Len(<<>>) = 0 /\ Len(<<>>) <= Len(Append(r.out, u)) /\ 0..Len(<<>>) - 1 = {}
        BY <3>1
      <4> QED
        BY <3>1, <4>1, SuffixFacts
    <3>3. Sampling!IsSuffix(<<>>, Append(r.out, u))
      BY <3>2 DEF Sampling!IsSuffix, IsSuffix, Sampling!IsPrefix, IsPrefix,
                  Sampling!Reverse, Reverse
    <3> QED
      BY <3>3 DEF Sampling!Banned
  <2> QED
    BY <2>1 DEF Sampling!Banned
<1>3. t \in Sampling!Banned(r) <=>
         \/ r.allowed # {} /\ t \notin r.allowed
         \/ Sampling!BelowMin(r) /\ t \in r.stops
         \/ \E w \in r.badWords : Sampling!IsSuffix(w, Append(r.out, t))
  BY DEF Sampling!Banned, Sampling!BelowMin
<1>4. Sampling!BadWordsMask(r, t) =
         IF \E w \in r.badWords : Sampling!IsSuffix(w, Append(r.out, t))
         THEN Sampling!NegInf ELSE 0
  BY <1>2, BadWord
<1> QED
  BY <1>3, <1>4 DEF Sampling!AllowedMask, Sampling!MinTokensMask

\* A banned token has the logit minus infinity, ...
LEMMA BannedLogit ==
  ASSUME VocabSize \in Nat, NEW r \in SamplingRequest, Sampling!Banned(r) # Sampling!Vocab,
         NEW m, Serves(m, r), NEW t \in Sampling!Banned(r)
  PROVE  Sampling!Logits(m, r, t) = Sampling!NegInf
<1> DEFINE l == r.logits[t + 1]
           a == IF m.allowed THEN Sampling!AllowedMask(r, t) ELSE 0
           s == IF m.minTokens THEN Sampling!MinTokensMask(r, t) ELSE 0
           w == IF m.badWords THEN Sampling!BadWordsMask(r, t) ELSE 0
           b == IF m.bias /\ r.bias # <<>> THEN r.bias[t + 1] ELSE 0
           x == Sampling!Plus(Sampling!Plus(Sampling!Plus(Sampling!Plus(l, a), s), w), b)
<1>1. t \in Sampling!Vocab
  BY DEF Sampling!Banned
<1>2. /\ a = Sampling!AllowedMask(r, t) /\ s = Sampling!MinTokensMask(r, t)
      /\ w = Sampling!BadWordsMask(r, t)
  BY <1>1, Neutral DEF Serves
<1>3. Sampling!NegInf \in {a, s, w}
  BY <1>1, <1>2, Masks
<1>4. Sampling!Logits(m, r, t) = IF m.penalties THEN Sampling!ApplyPenalties(r, t, x) ELSE x
  BY DEF Sampling!Logits
<1> HIDE DEF l, a, s, w, b
<1>5. \A y : /\ Sampling!Plus(Sampling!NegInf, y) = Sampling!NegInf
             /\ Sampling!Plus(y, Sampling!NegInf) = Sampling!NegInf
  BY DEF Sampling!Plus
<1>6. x = Sampling!NegInf
  BY <1>3, <1>5
<1> HIDE DEF x
<1>7. Sampling!ApplyPenalties(r, t, x) = Sampling!NegInf
  BY <1>5, <1>6 DEF Sampling!ApplyPenalties
<1> QED
  BY <1>4, <1>6, <1>7

\* Numbers that are far from minus infinity are added.
LEMMA FiniteSum ==
  ASSUME NEW x, NEW y, Within(x, 300000), Within(y, 300000)
  PROVE  /\ Sampling!Plus(x, y) = x + y /\ Sampling!Plus(x, y) \in Int
         /\ Sampling!Plus(x, y) > Sampling!NegInf /\ Sampling!Plus(x, y) <= 600000
<1>1. /\ x \in Int /\ 0 <= 300000 + x /\ y \in Int /\ 0 <= 300000 + y
      /\ x <= 300000 /\ y <= 300000
  BY DEF Within
<1>2. Sampling!NegInf + 1000000 = 0 /\ Sampling!NegInf \in Int
  BY DEF Sampling!NegInf
<1>3. x # Sampling!NegInf /\ y # Sampling!NegInf
  BY <1>1, <1>2
<1>4. Sampling!Plus(x, y) = x + y
  BY <1>3 DEF Sampling!Plus
<1> QED
  BY <1>1, <1>2, <1>4

\* ... and every other one has more.
LEMMA OtherLogit ==
  ASSUME VocabSize \in Nat, NEW r \in SamplingRequest, Sampling!Banned(r) # Sampling!Vocab,
         Moderate(r), NEW m, Serves(m, r), NEW t \in Sampling!Vocab \ Sampling!Banned(r)
  PROVE  /\ Sampling!Logits(m, r, t) \in Int
         /\ Sampling!Logits(m, r, t) > Sampling!NegInf
         /\ Sampling!Logits(m, r, t) <= 600000
<1> DEFINE l == r.logits[t + 1]
           b == IF m.bias /\ r.bias # <<>> THEN r.bias[t + 1] ELSE 0
           seen == Sampling!TokenCounts(r, t)
<1>1. t + 1 \in 1..VocabSize
  BY DEF Sampling!Vocab
<1>2. Within(l, 1000) /\ Within(b, 1000)
  <2>1. Within(0, 1000)
    BY DEF Within
  <2> QED
    BY <1>1, <2>1 DEF Moderate
<1>3. seen \in Nat /\ seen <= 100000
  <2>1. r.out \in Seq(Sampling!Vocab)
    BY DEF SamplingRequest
  <2>2. DOMAIN r.out = 1..Len(r.out) /\ Len(r.out) \in Nat
    BY <2>1
  <2>3. {j \in DOMAIN r.out : r.out[j] = t} \subseteq 1..Len(r.out)
    BY <2>2
  <2>4. IsFiniteSet(1..Len(r.out)) /\ Cardinality(1..Len(r.out)) = Len(r.out)
    BY <2>2, FS_Interval
  <2>5. Cardinality({j \in DOMAIN r.out : r.out[j] = t}) <= Len(r.out)
    BY <2>3, <2>4, FS_Subset
  <2>6. seen <= Len(r.out)
    BY <2>5 DEF Sampling!TokenCounts, Sampling!Cardinality, Cardinality
  <2>7. seen \in Nat
    BY TokenCount
  <2>8. Len(r.out) <= 100000
    BY DEF Moderate
  <2> HIDE DEF seen
  <2> QED
    BY <2>2, <2>6, <2>7, <2>8
<1>4. Sampling!Logits(m, r, t) = IF m.penalties THEN Sampling!ApplyPenalties(r, t, l + b) ELSE l + b
  <2>1. /\ (IF m.allowed THEN Sampling!AllowedMask(r, t) ELSE 0) = 0
        /\ (IF m.minTokens THEN Sampling!MinTokensMask(r, t) ELSE 0) = 0
        /\ (IF m.badWords THEN Sampling!BadWordsMask(r, t) ELSE 0) = 0
    BY Masks
  <2>2. Sampling!Logits(m, r, t) =
          IF m.penalties
          THEN Sampling!ApplyPenalties(r, t, Sampling!Plus(Sampling!Plus(Sampling!Plus(
                   Sampling!Plus(l, 0), 0), 0), b))
          ELSE Sampling!Plus(Sampling!Plus(Sampling!Plus(Sampling!Plus(l, 0), 0), 0), b)
    BY <2>1 DEF Sampling!Logits
  <2> HIDE DEF l, b
  <2>3. Sampling!Plus(l, 0) = l /\ Sampling!Plus(l, b) = l + b
    <3>1. Within(l, 300000) /\ Within(b, 300000) /\ Within(0, 300000) /\ l + 0 = l
      BY <1>2 DEF Within
    <3> QED
      BY <3>1, FiniteSum
  <2> QED
    BY <2>2, <2>3
<1> DEFINE x == l + b
<1> HIDE DEF l, b
<1>5. Within(x, 2000)
  BY <1>2 DEF Within
<1> HIDE DEF x
<1>6. /\ Sampling!ApplyPenalties(r, t, x) \in Int
      /\ Sampling!ApplyPenalties(r, t, x) > Sampling!NegInf
      /\ Sampling!ApplyPenalties(r, t, x) <= 600000
  <2> DEFINE y == IF ~Sampling!Repeated(r, t) \/ x = Sampling!NegInf THEN x
                  ELSE IF x > 0 THEN x \div r.rep ELSE x * r.rep
             f == r.freq * seen
             c == IF seen > 0 THEN r.pres ELSE 0
             z == -f - c
  <2>1. Within(y, 4000)
    <3>1. Within(x, 4000)
      BY <1>5 DEF Within
    <3>2. x > 0 => Within(x \div 1, 4000) /\ Within(x \div 2, 4000)
      BY <1>5 DEF Within
    <3>3. Within(x * 1, 4000) /\ Within(x * 2, 4000)
      BY <1>5 DEF Within
    <3>4. r.rep = 1 \/ r.rep = 2
      BY DEF Moderate
    <3> QED
      BY <3>1, <3>2, <3>3, <3>4
  <2>2. Within(f, 200000)
    <3> DEFINE g == r.freq
    <3>1. g \in Int /\ 0 <= 2 + g /\ g <= 2
      BY DEF Moderate, Within
    <3> HIDE DEF seen, g
    <3>2. g + 2 = 0 \/ g + 1 = 0 \/ g = 0 \/ g = 1 \/ g = 2
      BY <3>1
    <3>3. g * seen \in Int /\ 0 <= 200000 + g * seen /\ g * seen <= 200000
      <4>1. CASE g + 2 = 0
        <5>1. g * seen + 2 * seen = 0
          BY <1>3, <3>1, <4>1
        <5> QED
          BY <1>3, <3>1, <5>1
      <4>2. CASE g + 1 = 0
        <5>1. g * seen + seen = 0
          BY <1>3, <3>1, <4>2
        <5> QED
          BY <1>3, <3>1, <5>1
      <4>3. CASE g = 0 \/ g = 1 \/ g = 2
        BY <1>3, <4>3
      <4> QED
        BY <3>2, <4>1, <4>2, <4>3
    <3> QED
      BY <3>3 DEF g, Within
  <2>3. Within(c, 2)
    <3>1. Within(0, 2)
      BY DEF Within
    <3> QED
      BY <3>1 DEF Moderate
  <2>4. Sampling!ApplyPenalties(r, t, x) = Sampling!Plus(y, z)
    BY DEF Sampling!ApplyPenalties
  <2> HIDE DEF y, f, c
  <2>5. Within(z, 200002)
    BY <2>2, <2>3 DEF Within
  <2> HIDE DEF z
  <2>6. Within(y, 300000) /\ Within(z, 300000)
    BY <2>1, <2>5 DEF Within
  <2> QED
    BY <2>4, <2>6, FiniteSum
<1>7. x \in Int /\ x > Sampling!NegInf /\ x <= 600000
  BY <1>5 DEF Within, Sampling!NegInf
<1> QED
  BY <1>4, <1>6, <1>7 DEF x

\* argmax does not choose a token with the logit minus infinity, if there is another.
LEMMA ArgMaxFinite ==
  ASSUME VocabSize \in Nat, NEW b \in Int, NEW x,
         NEW B \in SUBSET Sampling!Vocab, B # Sampling!Vocab,
         \A t \in B : x[t] = Sampling!NegInf,
         \A t \in Sampling!Vocab \ B : x[t] \in Int /\ x[t] > Sampling!NegInf /\ x[t] <= b,
         Sampling!NegInf <= b
  PROVE  Sampling!ArgMax(x) \in Sampling!Vocab \ B
<1> DEFINE T == {x[t] : t \in Sampling!Vocab}
           A == {t \in Sampling!Vocab : \A u \in Sampling!Vocab : x[u] <= x[t]}
<1>1. PICK o \in Sampling!Vocab : o \notin B
  OBVIOUS
<1>2. Sampling!NegInf \in Int
  BY DEF Sampling!NegInf
<1>3. T \in SUBSET Int /\ T # {} /\ \A v \in T : v <= b
  BY <1>1, <1>2
<1>4. \E v \in T : \A w \in T : w <= v
  <2>1. T \in SUBSET Int /\ T # {} /\ b \in Int /\ \A v \in T : v <= b
    BY <1>3
  <2> HIDE DEF T
  <2> QED
    BY <2>1, GreatestInt, Zenon
<1>5. A # {} /\ A \in SUBSET Nat
  <2>1. PICK t \in Sampling!Vocab : \A w \in T : w <= x[t]
    BY <1>4
  <2>2. t \in A
    BY <2>1
  <2>3. Sampling!Vocab \subseteq Nat /\ A \subseteq Sampling!Vocab
    BY DEF Sampling!Vocab
  <2> HIDE DEF A
  <2> QED
    BY <2>2, <2>3
<1>6. Min(A) \in A
  BY <1>5, MinFacts
<1>7. Sampling!ArgMax(x) = Min(A)
  BY DEF Sampling!ArgMax, Sampling!Min, Min
<1> DEFINE a == Min(A)
<1>8. a \in Sampling!Vocab /\ x[o] <= x[a]
  BY <1>1, <1>6
<1> HIDE DEF a
<1>9. a \notin B
  BY <1>1, <1>2, <1>8
<1> QED
  BY <1>7, <1>8, <1>9 DEF a

\* Whatever a batch asks for, no request of it is given a token that is not allowed for it,
\* that would stop it too early or that would complete a bad word: neither by the plain
\* argmax, nor by that of the sampler, nor at random (Sampler.sample).
THEOREM BannedNeverSampled ==
  ASSUME VocabSize \in Nat, NEW batch \in Seq(SamplingRequest),
         \A i \in DOMAIN batch : Moderate(batch[i])
  PROVE  Sampling!BannedNotSampled(batch)
<1> SUFFICES ASSUME NEW i \in DOMAIN batch, Moderate(batch[i]),
                    Sampling!Banned(batch[i]) # Sampling!Vocab
             PROVE  Sampling!Sample(batch, i).tokens \cap Sampling!Banned(batch[i]) = {}
  BY DEF Sampling!BannedNotSampled
<1> DEFINE r == batch[i]
           m == Sampling!Metadata(batch)
           x == [t \in Sampling!Vocab |-> Sampling!Logits(m, r, t)]
           w == Sampling!ApplyMinP(Sampling!Softmax(Sampling!ApplyTemperature(m, r, x)), r.minP)
           B == Sampling!Banned(r)
<1>1. /\ r \in SamplingRequest /\ Serves(m, r)
      /\ Sampling!Sample(batch, i) = SampleWith(m, r)
  BY BatchServes
<1>2. B \in SUBSET Sampling!Vocab /\ B # Sampling!Vocab
  BY DEF Sampling!Banned
<1>3. \A t \in B : x[t] = Sampling!NegInf
  BY <1>1, <1>2, BannedLogit
<1>4. \A t \in Sampling!Vocab \ B :
         x[t] \in Int /\ x[t] > Sampling!NegInf /\ x[t] <= 600000
  BY <1>1, OtherLogit
<1>5. CASE Sampling!FastPath(m)
  <2>1. r.allowed = {} /\ ~Sampling!BelowMin(r) /\ r.badWords = {}
    BY <1>1, <1>5 DEF Serves, Sampling!FastPath
  <2>2. B = {}
    BY <2>1 DEF Sampling!Banned, Sampling!BelowMin
  <2> QED
    BY <2>2
<1>6. CASE ~Sampling!FastPath(m) /\ r.temp = 0
  <2>1. Sampling!Sample(batch, i).tokens = {Sampling!ArgMax(x)}
    BY <1>1, <1>6 DEF SampleWith
  <2> HIDE DEF x
  <2>2. Sampling!ArgMax(x) \in Sampling!Vocab \ B
    <3> DEFINE b == 600000
    <3>1. b \in Int /\ Sampling!NegInf <= b
      BY DEF Sampling!NegInf
    <3>2. \A t \in Sampling!Vocab \ B :
             x[t] \in Int /\ x[t] > Sampling!NegInf /\ x[t] <= b
      BY <1>4
    <3> HIDE DEF b, B
    <3> QED
      BY <1>2, <1>3, <3>1, <3>2, ArgMaxFinite, Zenon
  <2> QED
    BY <2>1, <2>2
<1>7. CASE ~Sampling!FastPath(m) /\ r.temp # 0
  <2>1. Sampling!Sample(batch, i).tokens = {t \in Sampling!TopKTopP(w, r.k, r.p) : w[t] > 0}
    BY <1>1, <1>7 DEF SampleWith
  <2> HIDE DEF x
  <2>2. ASSUME NEW t \in B PROVE w[t] = 0
    <3> DEFINE y == Sampling!ApplyTemperature(m, r, x)
               z == Sampling!Softmax(y)
    <3>1. t \in Sampling!Vocab /\ x[t] = Sampling!NegInf
      BY <1>2, <1>3
    <3>2. y[t] = Sampling!NegInf
      BY <3>1 DEF Sampling!ApplyTemperature
    <3> HIDE DEF y
    <3>3. z[t] = 0
      BY <3>1, <3>2 DEF Sampling!Softmax
    <3> HIDE DEF z
    <3>4. Sampling!ApplyMinP(z, r.minP)[t] = 0
      BY <3>1, <3>3 DEF Sampling!ApplyMinP
    <3> QED
      BY <3>4 DEF z, y
  <2> HIDE DEF w, B
  <2>3. \A t : t \in Sampling!Sample(batch, i).tokens => t \notin B
    <3>1. ~(0 > 0)
      OBVIOUS
    <3> QED
      BY <2>1, <2>2, <3>1, Zenon
  <2> QED
    BY <2>3, Zenon DEF B
<1> QED
  BY <1>5, <1>6, <1>7

-----------------------------------------------------------------------------
(* Loading, for any model                                                  *)

Loading == INSTANCE ModelLoading

\* The modules of a model.
MoeModule ==
    [family : {"deepseek", "listed", "other"},
     attributes : SUBSET {"router", "gate", "experts", "gate_up_proj"}, experts : Nat]

\* A model is a tree: with a path it has all paths that lead there.
IsModel(model) ==
    /\ \E Names : DOMAIN model \subseteq Seq(Names)
    /\ \A p \in DOMAIN model : model[p] \in MoeModule /\ Loading!Ancestors(p) \subseteq DOMAIN model

\* A path cut off twice.
LEMMA CutTwice ==
  ASSUME NEW N, NEW p \in Seq(N), NEW i \in 0..Len(p), NEW j \in 0..i
  PROVE  /\ SubSeq(p, 1, i) \in Seq(N) /\ Len(SubSeq(p, 1, i)) = i
         /\ SubSeq(SubSeq(p, 1, i), 1, j) = SubSeq(p, 1, j)
<1> DEFINE q == SubSeq(p, 1, i)
           r == SubSeq(q, 1, j)
           w == SubSeq(p, 1, j)
<1>1. j \in 0..Len(p)
  OBVIOUS
<1>2. q \in Seq(N) /\ Len(q) = i /\ \A x \in 1..i : q[x] = p[x]
  BY CutFacts
<1> HIDE DEF q
<1>3. r \in Seq(N) /\ Len(r) = j /\ \A x \in 1..j : r[x] = q[x]
  BY <1>2, CutFacts
<1>4. w \in Seq(N) /\ Len(w) = j /\ \A x \in 1..j : w[x] = p[x]
  BY <1>1, CutFacts
<1> HIDE DEF r, w
<1>5. r = w
  <2>1. \A x \in 1..j : r[x] = w[x]
    BY <1>2, <1>3, <1>4
  <2> QED
    BY <1>3, <1>4, <2>1, SeqEqual
<1> QED
  BY <1>2, <1>5 DEF q, r, w

\* The paths that lead to a path, and their own.
LEMMA AncestorsCut ==
  ASSUME NEW N, NEW p \in Seq(N), NEW i \in 0..Len(p)
  PROVE  Loading!Ancestors(SubSeq(p, 1, i)) = {SubSeq(p, 1, j) : j \in 0..i - 1}
<1> DEFINE q == SubSeq(p, 1, i)
<1>1. Len(q) = i /\ i \in Nat
  BY CutTwice
<1>2. \A j \in 0..i - 1 : SubSeq(q, 1, j) = SubSeq(p, 1, j)
  BY CutTwice
<1> HIDE DEF q
<1>3. Loading!Ancestors(q) = {SubSeq(q, 1, j) : j \in 0..i - 1}
  BY <1>1 DEF Loading!Ancestors
<1>4. Loading!Ancestors(q) = {SubSeq(p, 1, j) : j \in 0..i - 1}
  BY <1>2, <1>3
<1> QED
  BY <1>4 DEF q

\* A path is itself, cut off nowhere.
LEMMA WholePath ==
  ASSUME NEW N, NEW p \in Seq(N)
  PROVE  Len(p) \in Nat /\ SubSeq(p, 1, Len(p)) = p
<1> DEFINE n == Len(p)
           q == SubSeq(p, 1, n)
<1>1. n \in Nat /\ \A x \in 1..n : p[x] \in N
  OBVIOUS
<1>2. /\ q \in Seq(N)
      /\ Len(q) = IF 1 <= n THEN n - 1 + 1 ELSE 0
      /\ \A x \in 1..n - 1 + 1 : q[x] = p[1 + x - 1]
  BY <1>1, SubSeqProperties
<1> HIDE DEF q
<1>3. n - 1 + 1 = n /\ \A x \in 1..n : 1 + x - 1 = x
  BY <1>1
<1>4. Len(q) = Len(p) /\ \A x \in 1..Len(p) : q[x] = p[x]
  BY <1>1, <1>2, <1>3
<1>5. q = p
  BY <1>2, <1>4, SeqEqual
<1> QED
  BY <1>1, <1>5 DEF q

\* Of the modules on a path that are to be replaced, other than the root, one contains the
\* others.
LEMMA OutermostReplaced ==
  ASSUME NEW model, NEW targets, NEW local, IsModel(model), NEW p \in DOMAIN model, p # <<>>,
         Loading!Replaces(model[p], targets, local)
  PROVE  (Loading!Ancestors(p) \cup {p})
            \cap (Loading!ReplacedModules(model, targets, local) \ {<<>>}) # {}
<1>1. PICK N : DOMAIN model \subseteq Seq(N)
  BY DEF IsModel
<1>2. p \in Seq(N)
  BY <1>1
<1> DEFINE n == Len(p)
           at(i) == SubSeq(p, 1, i)
           bad == {i \in 1..n : Loading!Replaces(model[at(i)], targets, local)}
<1>3. n \in Nat /\ at(n) = p
  BY <1>2, WholePath
<1>4. Loading!Ancestors(p) = {at(i) : i \in 0..n - 1}
  BY DEF Loading!Ancestors
<1>5. \A i \in 0..n : Loading!Ancestors(at(i)) = {at(j) : j \in 0..i - 1} /\ Len(at(i)) = i
  BY <1>2, AncestorsCut, CutTwice
<1>a. n \in 1..n
  <2>1. Len(p) # 0
    BY <1>2
  <2> QED
    BY <1>3, <2>1
<1> HIDE DEF n, at
<1>b. \A i \in 0..n : (at(i) = <<>>) => (i = 0)
  <2>1. Len(<<>>) = 0
    OBVIOUS
  <2> QED
    BY <1>5, <2>1, Zenon
<1>6. bad \in SUBSET Nat /\ n \in bad
  BY <1>3, <1>a
<1>7. PICK i \in bad : \A j \in bad : i <= j
  BY <1>6, LeastNat
<1>8. i \in 1..n /\ i \in 0..n /\ Loading!Replaces(model[at(i)], targets, local)
  BY <1>3
<1>9. \A j \in 1..i - 1 : ~Loading!Replaces(model[at(j)], targets, local)
  <2>1. \A j \in 1..i - 1 : j \in 1..n /\ ~(i <= j)
    BY <1>3, <1>8
  <2> QED
    BY <1>7, <2>1
<1>10. at(i) \in Loading!Ancestors(p) \cup {p}
  <2>1. i = n \/ i \in 0..n - 1
    BY <1>3, <1>8
  <2> QED
    BY <1>3, <1>4, <2>1
<1>11. at(i) \in DOMAIN model
  <2>1. Loading!Ancestors(p) \subseteq DOMAIN model
    BY DEF IsModel
  <2> QED
    BY <1>10, <2>1
<1>c. at(i) # <<>>
  BY <1>3, <1>8, <1>b
<1>d. at(0) = <<>>
  <2>1. SubSeq(p, 1, 0) = <<>>
    BY <1>2
  <2> QED
    BY <2>1 DEF at
<1>12. \A q \in Loading!Ancestors(at(i)) \ {<<>>} : ~Loading!Replaces(model[q], targets, local)
  <2> TAKE q \in Loading!Ancestors(at(i)) \ {<<>>}
  <2>1. PICK j \in 0..i - 1 : q = at(j)
    BY <1>5, <1>8
  <2>2. j # 0
    BY <1>d, <2>1
  <2>3. j \in 1..i - 1
    BY <1>8, <2>2
  <2> QED
    BY <1>9, <2>1, <2>3
<1>13. at(i) \in Loading!ReplacedModules(model, targets, local)
  BY <1>8, <1>11, <1>12, Zenon DEF Loading!ReplacedModules
<1> QED
  BY <1>10, <1>13, <1>c, Zenon

\* In every model, of whatever depth, whichever of its classes pass for expert layers and
\* whichever are given as targets: unless enable_sparse_mlp raises, every expert layer below
\* the root that is to be replaced is, once, by itself or with the layer that contains it,
\* and no module without experts is.
THEOREM ExpertLayersAlwaysReplaced ==
  ASSUME NEW model, NEW targets, NEW local \in Nat, IsModel(model)
  PROVE  Loading!ExpertLayersReplaced(model, targets, local)
<1> DEFINE replaced == Loading!ReplacedModules(model, targets, local)
           running == Loading!StillRun(model, targets, local)
<1> SUFFICES ASSUME ~Loading!EnableRaises(model, targets, local)
             PROVE  /\ \A p \in running \ {<<>>} : ~Loading!ToReplace(model[p], targets)
                    /\ \A p \in replaced : "experts" \in model[p].attributes
                    /\ \A p, q \in replaced \ {<<>>} : q \notin Loading!Ancestors(p)
  BY Zenon DEF Loading!ExpertLayersReplaced
<1>1. ASSUME NEW p \in running \ {<<>>}, Loading!ToReplace(model[p], targets) PROVE FALSE
  <2>1. /\ p \in DOMAIN model /\ p # <<>>
        /\ (Loading!Ancestors(p) \cup {p}) \cap (replaced \ {<<>>}) = {}
    BY Zenon DEF Loading!StillRun
  <2>2. Loading!Replaces(model[p], targets, local)
    BY <1>1 DEF Loading!ToReplace, Loading!Replaces, Loading!MoeConfig
  <2> QED
    BY <2>1, <2>2, OutermostReplaced
<1>2. ASSUME NEW p \in replaced PROVE "experts" \in model[p].attributes
  <2>1. \/ Loading!FromDeepseek(model[p])
        \/ {"router", "experts", "gate_up_proj"} \subseteq model[p].attributes
    BY Zenon DEF Loading!EnableRaises
  <2> QED
    BY <2>1 DEF Loading!FromDeepseek
<1>3. ASSUME NEW p \in replaced \ {<<>>}, NEW q \in replaced \ {<<>>}
      PROVE  q \notin Loading!Ancestors(p)
  BY DEF Loading!ReplacedModules
<1> QED
  BY <1>1, <1>2, <1>3
=============================================================================
