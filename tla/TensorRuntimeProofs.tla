------------------------ MODULE TensorRuntimeProofs ------------------------
(***************************************************************************)
(* Proofs about TensorRuntime, for any number of buffers, devices, mesh    *)
(* shapes and contents: the references between buffers and tensors stay    *)
(* consistent, and no sharing, splitting, move or reshape changes what a   *)
(* buffer holds.                                                           *)
(***************************************************************************)
EXTENDS TensorRuntime, FiniteSetTheorems, TLAPS

\* The vectors a tensor is constructed with: a single buffer, or one buffer per device.
Vectors == {s \in Seq(Buffers) : /\ Len(s) > 0
                                 /\ Len(s) > 1 => \A i \in 1..Len(s) : Device[s[i]] = i}

\* Runtime tensors.
Rts == [where : {"host", "device", "stale"}, parts : Seq(Values)]

Fields(h) == {"pool", "ref", "shards", "rt", "fault"} \subseteq DOMAIN h

\* A tensor t of heap h lists, of the vector it was constructed with, or of its first shard
\* only, those that still reference it; the first one always does.
Listed(h, t) ==
    /\ h.shards[t] \in Seq(Buffers \cup {null})
    /\ Len(h.shards[t]) \in 1..Len(t)
    /\ \A i \in 1..Len(h.shards[t]) : h.shards[t][i] = IF h.ref[t[i]] = t THEN t[i] ELSE null
    /\ h.ref[t[1]] = t
    /\ Len(h.rt[t].parts) \in {1, Len(h.shards[t])}

\* A heap in which every buffer is listed by its tensor, with the contents v, except for the
\* buffers of `leaving', which are about to join another tensor.
HeapOK(h, v, leaving) ==
    /\ Fields(h)
    /\ h.ref \in [Buffers -> Vectors \cup {null}]
    /\ h.pool = Referenced(h.ref)
    /\ h.rt \in [h.pool -> Rts]
    /\ \A t \in h.pool : Listed(h, t)
    /\ \A b \in Buffers \ leaving : h.ref[b] # null =>
          /\ h.ref[b][1] \notin leaving
          /\ \E i \in 1..Len(h.shards[h.ref[b]]) : h.ref[b][i] = b
    /\ \A t \in h.pool : \A i \in 1..Len(h.shards[t]) :
          h.ref[t[i]] = t /\ t[i] \notin leaving => Part(h.rt[t], i) = v[t[i]]

\* What is on the mesh m, or shared by the shards of one of its programs, has one shard per
\* device of m.
OnMesh(h, m) == \A t \in h.pool :
    h.rt[t].where = "device" \/ (h.rt[t].where = "host" /\ Len(h.shards[t]) > 1)
       => m \in Shapes /\ Len(h.shards[t]) = NumDevices[m]

\* Only codegen leaves shared tensors on the host.
HostSingle(h) == \A t \in h.pool : h.rt[t].where = "host" => Len(h.shards[t]) = 1

\* Nothing is left of a mesh that was closed.
NoneStale(h) == h.fault = "none" /\ \A t \in h.pool : h.rt[t].where # "stale"

\* What holds of a heap on mesh m with the past p.
Fit(h, m, p) ==
    /\ OnMesh(h, m)
    /\ p # "codegen" => HostSingle(h)
    /\ p # "failed" => NoneStale(h)

RuntimeInv ==
    /\ val \in [Buffers -> Values \cup {null}]
    /\ mesh \in Shapes \cup {NoMesh}
    /\ past \in {"clean", "codegen", "failed"}
    /\ past # "failed" => mesh # NoMesh
    /\ HeapOK(heap, val, {})
    /\ \A b \in Buffers : val[b] # null <=> heap.ref[b] # null
    /\ Fit(heap, mesh, past)
    /\ seen.got = seen.want

-----------------------------------------------------------------------------
(* Vectors, and what they are made of.                                      *)

\* The assumptions on the constants that the proofs need, one by one.
LEMMA Constants ==
  /\ null \notin Buffers /\ null \notin Values /\ null \notin Vectors
  /\ InitialShape \in Shapes /\ NoMesh \notin Shapes
  /\ \A b \in Buffers : Device[b] \in Nat \ {0}
  /\ \A s \in Shapes : NumDevices[s] \in Nat \ {0}
  BY RuntimeAssumption DEF Vectors

\* A vector names no buffer twice.
LEMMA VectorFacts ==
  ASSUME NEW t \in Vectors
  PROVE  /\ t \in Seq(Buffers) /\ Len(t) \in Nat /\ Len(t) > 0 /\ 1 \in 1..Len(t)
         /\ \A i \in 1..Len(t) : t[i] \in Buffers
         /\ \A i, j \in 1..Len(t) : t[i] = t[j] => i = j
         /\ \A b : b \in Elems(t) <=> \E i \in 1..Len(t) : t[i] = b
<1>1. t \in Seq(Buffers) /\ Len(t) \in Nat /\ Len(t) > 0 /\ 1 \in 1..Len(t)
  BY DEF Vectors
<1>2. \A i \in 1..Len(t) : t[i] \in Buffers
  BY <1>1
<1>3. ASSUME NEW i \in 1..Len(t), NEW j \in 1..Len(t), t[i] = t[j] PROVE i = j
  <2>1. CASE Len(t) > 1
    BY <1>3, <2>1 DEF Vectors
  <2>2. CASE ~(Len(t) > 1)
    BY <1>1, <2>2
  <2> QED
    BY <2>1, <2>2
<1>4. \A b : b \in Elems(t) <=> \E i \in 1..Len(t) : t[i] = b
  BY DEF Elems
<1> QED
  BY <1>1, <1>2, <1>3, <1>4

\* A vector of a single buffer.
LEMMA SingleVector ==
  ASSUME NEW b \in Buffers
  PROVE  <<b>> \in Vectors /\ Len(<<b>>) = 1 /\ <<b>>[1] = b /\ Elems(<<b>>) = {b}
<1>1. <<b>> \in Seq(Buffers) /\ Len(<<b>>) = 1 /\ <<b>>[1] = b
  OBVIOUS
<1>2. <<b>> \in Vectors
  BY <1>1 DEF Vectors
<1>3. Elems(<<b>>) = {b}
  BY <1>1 DEF Elems
<1> QED
  BY <1>1, <1>2, <1>3

\* The vectors of shards of an argument or of an output.
LEMMA ShardVectorFacts ==
  ASSUME NEW s \in ShardVectors
  PROVE  s \in Vectors /\ \A i \in 1..Len(s) : Device[s[i]] = i
<1>1. PICK n \in 1..Cardinality(Buffers) : s \in [1..n -> Buffers]
  BY DEF ShardVectors
<1>2. Cardinality(Buffers) \in Nat
  BY RuntimeAssumption, FS_CardinalityType
<1>3. n \in Nat /\ n > 0
  BY <1>1, <1>2
<1>4. s \in Seq(Buffers) /\ Len(s) = n
  BY <1>1, <1>3
<1>5. \A i \in 1..Len(s) : Device[s[i]] = i
  BY DEF ShardVectors
<1> QED
  BY <1>3, <1>4, <1>5 DEF Vectors

\* The tensors of a heap.
LEMMA PoolFacts ==
  ASSUME NEW h, NEW v, NEW out, HeapOK(h, v, out)
  PROVE  /\ Fields(h)
         /\ \A b \in Buffers : h.ref[b] # null => h.ref[b] \in h.pool
         /\ \A t \in h.pool :
               /\ t \in Vectors /\ t # null /\ h.rt[t] \in Rts /\ t[1] \in Buffers
               /\ \E b \in Buffers : h.ref[b] = t
               /\ h.shards[t] \in Seq(Buffers \cup {null})
               /\ Len(h.shards[t]) \in Nat /\ Len(h.shards[t]) >= 1 /\ Len(h.shards[t]) <= Len(t)
               /\ h.ref[t[1]] = t /\ h.shards[t][1] = t[1]
               /\ \A i \in 1..Len(h.shards[t]) :
                     /\ i \in 1..Len(t) /\ t[i] \in Buffers
                     /\ h.shards[t][i] = IF h.ref[t[i]] = t THEN t[i] ELSE null
               /\ h.rt[t].parts \in Seq(Values)
               /\ Len(h.rt[t].parts) \in {1, Len(h.shards[t])}
               /\ \A i \in 1..Len(h.shards[t]) : Part(h.rt[t], i) \in Values
<1>1. Fields(h) /\ h.pool = Referenced(h.ref) /\ h.ref \in [Buffers -> Vectors \cup {null}]
      /\ h.rt \in [h.pool -> Rts] /\ \A t \in h.pool : Listed(h, t)
  BY DEF HeapOK
<1>2. \A b \in Buffers : h.ref[b] # null => h.ref[b] \in h.pool
  BY <1>1 DEF Referenced
<1>3. ASSUME NEW t \in h.pool
      PROVE  /\ t \in Vectors /\ t # null /\ h.rt[t] \in Rts /\ t[1] \in Buffers
             /\ \E b \in Buffers : h.ref[b] = t
             /\ h.shards[t] \in Seq(Buffers \cup {null})
             /\ Len(h.shards[t]) \in Nat /\ Len(h.shards[t]) >= 1 /\ Len(h.shards[t]) <= Len(t)
             /\ h.ref[t[1]] = t /\ h.shards[t][1] = t[1]
             /\ \A i \in 1..Len(h.shards[t]) :
                   /\ i \in 1..Len(t) /\ t[i] \in Buffers
                   /\ h.shards[t][i] = IF h.ref[t[i]] = t THEN t[i] ELSE null
             /\ h.rt[t].parts \in Seq(Values)
             /\ Len(h.rt[t].parts) \in {1, Len(h.shards[t])}
             /\ \A i \in 1..Len(h.shards[t]) : Part(h.rt[t], i) \in Values
  <2>1. t \in Vectors /\ t # null /\ h.rt[t] \in Rts /\ \E b \in Buffers : h.ref[b] = t
    BY <1>1 DEF Referenced
  <2>2. /\ h.shards[t] \in Seq(Buffers \cup {null})
        /\ Len(h.shards[t]) \in 1..Len(t)
        /\ \A i \in 1..Len(h.shards[t]) : h.shards[t][i] = IF h.ref[t[i]] = t THEN t[i] ELSE null
        /\ h.ref[t[1]] = t
        /\ Len(h.rt[t].parts) \in {1, Len(h.shards[t])}
    BY <1>1 DEF Listed
  <2>3. Len(t) \in Nat /\ \A i \in 1..Len(t) : t[i] \in Buffers
    BY <2>1, VectorFacts
  <2>4. Len(h.shards[t]) \in Nat /\ Len(h.shards[t]) >= 1 /\ Len(h.shards[t]) <= Len(t)
        /\ 1 \in 1..Len(h.shards[t]) /\ 1 \in 1..Len(t)
    BY <2>2, <2>3
  <2>5. t[1] \in Buffers /\ h.shards[t][1] = t[1]
    BY <2>2, <2>3, <2>4
  <2>6. \A i \in 1..Len(h.shards[t]) : i \in 1..Len(t) /\ t[i] \in Buffers
    BY <2>3, <2>4
  <2>7. h.rt[t].parts \in Seq(Values)
    BY <2>1 DEF Rts
  <2>8. \A i \in 1..Len(h.shards[t]) : Part(h.rt[t], i) \in Values
    <3> SUFFICES ASSUME NEW i \in 1..Len(h.shards[t]) PROVE Part(h.rt[t], i) \in Values
      OBVIOUS
    <3>1. CASE Len(h.rt[t].parts) = 1
      BY <2>7, <3>1 DEF Part
    <3>2. CASE Len(h.rt[t].parts) # 1
      <4>1. i \in 1..Len(h.rt[t].parts)
        BY <2>2, <3>2
      <4> QED
        BY <2>7, <3>2, <4>1 DEF Part
    <3> QED
      BY <3>1, <3>2
  <2> QED
    BY <2>1, <2>2, <2>4, <2>5, <2>6, <2>7, <2>8
<1> QED
  BY <1>1, <1>2, <1>3

\* remove_shard of several buffers.
LEMMA WithoutShardsFacts ==
  ASSUME NEW s \in Seq(Buffers \cup {null}), NEW bs
  PROVE  /\ WithoutShards(s, bs) \in Seq(Buffers \cup {null})
         /\ Len(WithoutShards(s, bs)) = Len(s)
         /\ \A i \in 1..Len(s) : WithoutShards(s, bs)[i] = IF s[i] \in bs THEN null ELSE s[i]
  BY DEF WithoutShards

-----------------------------------------------------------------------------
(* Buffers leave their tensors and join others.                             *)

\* Runtime tensors for the new vectors D, with the contents v.
NewOK(D, rts, v) == \A n \in D :
    /\ rts[n] \in Rts
    /\ Len(rts[n].parts) \in {1, Len(n)}
    /\ \A i \in 1..Len(n) : Part(rts[n], i) = v[n[i]]

\* Heap h is k after the buffers of `moved' took the references ref: those of the vectors D
\* joined the new tensors, the others have none.
Rejoined(k, h, moved, D, rts) ==
    /\ Fields(h)
    /\ h.ref \in [Buffers -> Vectors \cup {null}]
    /\ \A b \in Buffers \ moved : h.ref[b] = k.ref[b]
    /\ \A b \in moved : h.ref[b] = null \/ (h.ref[b] \in D /\ b \in Elems(h.ref[b]))
    /\ \A n \in D : \A i \in 1..Len(n) : n[i] \in moved /\ h.ref[n[i]] = n
    /\ h.pool = Referenced(h.ref)
    /\ h.shards = [t \in h.pool |-> IF t \in D THEN t ELSE WithoutShards(k.shards[t], moved)]
    /\ h.rt = [t \in h.pool |-> IF t \in D THEN rts[t] ELSE k.rt[t]]

\* A tensor of the heap after the move is a new one, or one that its first shard kept.
NewOrKept(k, h, moved, D, rts) == \A t \in h.pool :
    \/ t \in D /\ h.rt[t] = rts[t] /\ h.shards[t] = t
    \/ /\ t \notin D /\ t \in k.pool /\ t[1] \notin moved
       /\ h.rt[t] = k.rt[t] /\ Len(h.shards[t]) = Len(k.shards[t])

\* The heap after such a move is as it should be, if the heap before it was, but for the
\* buffers that moved.
LEMMA Rejoin ==
  ASSUME NEW k, NEW h, NEW v, NEW moved \in SUBSET Buffers, NEW D \in SUBSET Vectors, NEW rts,
         HeapOK(k, v, moved), NewOK(D, rts, v), Rejoined(k, h, moved, D, rts)
  PROVE  HeapOK(h, v, {}) /\ NewOrKept(k, h, moved, D, rts)
<1>1. /\ Fields(h)
      /\ h.ref \in [Buffers -> Vectors \cup {null}]
      /\ \A b \in Buffers \ moved : h.ref[b] = k.ref[b]
      /\ \A b \in moved : h.ref[b] = null \/ (h.ref[b] \in D /\ b \in Elems(h.ref[b]))
      /\ \A n \in D : \A i \in 1..Len(n) : n[i] \in moved /\ h.ref[n[i]] = n
      /\ h.pool = Referenced(h.ref)
  BY DEF Rejoined
<1>2. \A t \in h.pool : /\ h.shards[t] = IF t \in D THEN t ELSE WithoutShards(k.shards[t], moved)
                        /\ h.rt[t] = IF t \in D THEN rts[t] ELSE k.rt[t]
  BY DEF Rejoined
<1>3. /\ \A b \in Buffers : k.ref[b] # null => k.ref[b] \in k.pool
      /\ \A t \in k.pool :
               /\ t \in Vectors /\ t # null /\ t[1] \in Buffers
               /\ k.shards[t] \in Seq(Buffers \cup {null})
               /\ Len(k.shards[t]) \in Nat /\ Len(k.shards[t]) >= 1 /\ Len(k.shards[t]) <= Len(t)
               /\ k.ref[t[1]] = t
               /\ \A i \in 1..Len(k.shards[t]) :
                     /\ i \in 1..Len(t) /\ t[i] \in Buffers
                     /\ k.shards[t][i] = IF k.ref[t[i]] = t THEN t[i] ELSE null
               /\ k.rt[t] \in Rts
               /\ Len(k.rt[t].parts) \in {1, Len(k.shards[t])}
  <2>1. \A t \in k.pool : k.rt[t] \in Rts
    BY DEF HeapOK
  <2> QED
    BY <2>1, PoolFacts
<1>4. ASSUME NEW t \in h.pool, t \notin D
      PROVE  /\ t \in k.pool /\ t[1] \notin moved
             /\ h.rt[t] = k.rt[t]
             /\ h.shards[t] \in Seq(Buffers \cup {null})
             /\ Len(h.shards[t]) = Len(k.shards[t])
             /\ \A i \in 1..Len(h.shards[t]) :
                   /\ h.shards[t][i] = IF k.shards[t][i] \in moved THEN null ELSE k.shards[t][i]
                   /\ h.ref[t[i]] = t <=> k.ref[t[i]] = t /\ t[i] \notin moved
  <2>1. PICK b \in Buffers : h.ref[b] = t /\ t # null
    BY <1>1 DEF Referenced
  <2>2. b \notin moved /\ k.ref[b] = t
    BY <1>1, <1>4, <2>1
  <2>3. t \in k.pool
    BY <1>3, <2>1, <2>2
  <2>4. t[1] \notin moved
    BY <2>1, <2>2 DEF HeapOK
  <2>5. h.rt[t] = k.rt[t] /\ h.shards[t] = WithoutShards(k.shards[t], moved)
    BY <1>2, <1>4
  <2>6. k.shards[t] \in Seq(Buffers \cup {null})
    BY <1>3, <2>3
  <2>7. /\ h.shards[t] \in Seq(Buffers \cup {null})
        /\ Len(h.shards[t]) = Len(k.shards[t])
        /\ \A i \in 1..Len(h.shards[t]) :
              h.shards[t][i] = IF k.shards[t][i] \in moved THEN null ELSE k.shards[t][i]
    BY <2>5, <2>6, WithoutShardsFacts
  <2>8. ASSUME NEW i \in 1..Len(h.shards[t])
        PROVE  h.ref[t[i]] = t <=> k.ref[t[i]] = t /\ t[i] \notin moved
    <3>1. t[i] \in Buffers
      BY <1>3, <2>3, <2>7
    <3> QED
      BY <1>1, <1>4, <2>1, <3>1
  <2> QED
    BY <2>3, <2>4, <2>5, <2>7, <2>8
<1>5. ASSUME NEW t \in h.pool, t \in D
      PROVE  /\ t \in Vectors /\ h.rt[t] = rts[t] /\ h.shards[t] = t
             /\ t \in Seq(Buffers) /\ Len(t) \in Nat /\ Len(t) > 0
             /\ \A i \in 1..Len(t) : h.ref[t[i]] = t
  BY <1>1, <1>2, <1>5, VectorFacts
<1>6. h.rt \in [h.pool -> Rts]
  <2>1. \A t \in h.pool : h.rt[t] \in Rts
    BY <1>3, <1>4, <1>5 DEF NewOK
  <2>2. h.rt = [t \in h.pool |-> h.rt[t]]
    BY DEF Rejoined
  <2> QED
    BY <2>1, <2>2
<1>7. ASSUME NEW t \in h.pool PROVE Listed(h, t)
  <2>1. CASE t \in D
    <3>1. /\ t \in Seq(Buffers) /\ Len(t) \in Nat /\ Len(t) > 0 /\ h.shards[t] = t
          /\ \A i \in 1..Len(t) : h.ref[t[i]] = t
          /\ h.rt[t] = rts[t]
      BY <1>5, <2>1
    <3>2. Len(rts[t].parts) \in {1, Len(t)}
      BY <2>1 DEF NewOK
    <3>3. 1 \in 1..Len(t) /\ Len(t) \in 1..Len(t) /\ t \in Seq(Buffers \cup {null})
      BY <3>1
    <3> QED
      BY <3>1, <3>2, <3>3 DEF Listed
  <2>2. CASE t \notin D
    <3>1. /\ t \in k.pool /\ t[1] \notin moved
          /\ h.rt[t] = k.rt[t]
          /\ h.shards[t] \in Seq(Buffers \cup {null})
          /\ Len(h.shards[t]) = Len(k.shards[t])
          /\ \A i \in 1..Len(h.shards[t]) :
                /\ h.shards[t][i] = IF k.shards[t][i] \in moved THEN null ELSE k.shards[t][i]
                /\ h.ref[t[i]] = t <=> k.ref[t[i]] = t /\ t[i] \notin moved
      BY <1>4, <2>2
    <3>2. Len(h.shards[t]) \in 1..Len(t) /\ Len(h.rt[t].parts) \in {1, Len(h.shards[t])}
          /\ 1 \in 1..Len(h.shards[t])
      <4>1. Len(k.shards[t]) \in Nat /\ Len(k.shards[t]) >= 1 /\ Len(k.shards[t]) <= Len(t)
            /\ t \in Vectors
        BY <1>3, <3>1
      <4>2. Len(t) \in Nat
        BY <4>1, VectorFacts
      <4>3. Len(k.rt[t].parts) \in {1, Len(k.shards[t])}
        BY <1>3, <3>1
      <4> QED
        BY <3>1, <4>1, <4>2, <4>3
    <3>3. h.ref[t[1]] = t
      BY <1>3, <3>1, <3>2
    <3>4. ASSUME NEW i \in 1..Len(h.shards[t])
          PROVE  h.shards[t][i] = IF h.ref[t[i]] = t THEN t[i] ELSE null
      <4>1. k.shards[t][i] = IF k.ref[t[i]] = t THEN t[i] ELSE null
        BY <1>3, <3>1
      <4>2. null \notin moved
        BY Constants
      <4> QED
        BY <3>1, <4>1, <4>2
    <3> QED
      BY <3>1, <3>2, <3>3, <3>4 DEF Listed
  <2> QED
    BY <2>1, <2>2
<1>8. ASSUME NEW b \in Buffers, h.ref[b] # null
      PROVE  \E i \in 1..Len(h.shards[h.ref[b]]) : h.ref[b][i] = b
  <2>0. h.ref[b] \in h.pool
    BY <1>1, <1>8 DEF Referenced
  <2>1. CASE b \in moved
    <3>1. h.ref[b] \in D /\ b \in Elems(h.ref[b])
      BY <1>1, <1>8, <2>1
    <3>2. h.shards[h.ref[b]] = h.ref[b] /\ h.ref[b] \in Vectors
      BY <1>5, <2>0, <3>1
    <3> QED
      BY <3>1, <3>2, VectorFacts
  <2>2. CASE b \notin moved
    <3>1. h.ref[b] = k.ref[b] /\ k.ref[b] # null
      BY <1>1, <1>8, <2>2
    <3>2. k.ref[b][1] \notin moved /\ \E i \in 1..Len(k.shards[k.ref[b]]) : k.ref[b][i] = b
      BY <2>2, <3>1 DEF HeapOK
    <3>3. h.ref[b] \notin D
      <4> SUFFICES ASSUME h.ref[b] \in D PROVE FALSE
        OBVIOUS
      <4>1. 1 \in 1..Len(h.ref[b])
        BY VectorFacts
      <4> QED
        BY <1>1, <3>1, <3>2, <4>1
    <3>4. Len(h.shards[h.ref[b]]) = Len(k.shards[h.ref[b]])
      BY <1>4, <2>0, <3>3
    <3> QED
      BY <3>1, <3>2, <3>4
  <2> QED
    BY <2>1, <2>2
<1>9. ASSUME NEW t \in h.pool, NEW i \in 1..Len(h.shards[t]), h.ref[t[i]] = t
      PROVE  Part(h.rt[t], i) = v[t[i]]
  <2>1. CASE t \in D
    BY <1>5, <2>1 DEF NewOK
  <2>2. CASE t \notin D
    <3>1. /\ t \in k.pool /\ h.rt[t] = k.rt[t] /\ i \in 1..Len(k.shards[t])
          /\ k.ref[t[i]] = t /\ t[i] \notin moved
      BY <1>4, <1>9, <2>2
    <3> QED
      BY <3>1 DEF HeapOK
  <2> QED
    BY <2>1, <2>2
<1>10. HeapOK(h, v, {})
  BY <1>1, <1>6, <1>7, <1>8, <1>9 DEF HeapOK
<1>11. NewOrKept(k, h, moved, D, rts)
  BY <1>4, <1>5 DEF NewOrKept
<1> QED
  BY <1>10, <1>11

\* The vectors of D have the buffers of `moved', and none in common.
Apart(D, moved) ==
    /\ \A b : b \in moved <=> \E n \in D : b \in Elems(n)
    /\ \A m, n \in D : \A b \in Elems(m) : b \in Elems(n) => m = n

\* from_runtime_tensor for several vectors that have no buffer in common.
LEMMA Join ==
  ASSUME NEW k, NEW v, NEW moved, NEW D \in SUBSET Vectors, NEW rts, DOMAIN rts = D,
         Apart(D, moved), HeapOK(k, v, moved), NewOK(D, rts, v),
         NEW h, h = FromRuntimeTensors(k, rts)
  PROVE  /\ HeapOK(h, v, {}) /\ NewOrKept(k, h, moved, D, rts)
         /\ h.fault = k.fault
         /\ \A b \in Buffers \ moved : h.ref[b] = k.ref[b]
         /\ \A n \in D : \A i \in 1..Len(n) : h.ref[n[i]] = n
<1> USE DEF Apart
<1> DEFINE ref == [b \in Buffers |-> IF b \in moved THEN CHOOSE n \in D : b \in Elems(n)
                                     ELSE k.ref[b]]
           pool == Referenced(ref)
           sh == [t \in pool |-> IF t \in D THEN t ELSE WithoutShards(k.shards[t], moved)]
           rt == [t \in pool |-> IF t \in D THEN rts[t] ELSE k.rt[t]]
<1>1. h = [k EXCEPT !.pool = pool, !.ref = ref, !.shards = sh, !.rt = rt]
  <2>1. moved = UNION {Elems(n) : n \in DOMAIN rts}
    OBVIOUS
  <2> QED
    BY <2>1 DEF FromRuntimeTensors
<1>2. Fields(k) /\ k.ref \in [Buffers -> Vectors \cup {null}]
  BY DEF HeapOK
<1>3. moved \in SUBSET Buffers
  <2>1. \A n \in D : Elems(n) \subseteq Buffers
    BY VectorFacts
  <2> QED
    BY <2>1
<1>4. \A b \in moved : ref[b] \in D /\ b \in Elems(ref[b])
  <2> SUFFICES ASSUME NEW b \in moved PROVE ref[b] \in D /\ b \in Elems(ref[b])
    OBVIOUS
  <2>1. \E n \in D : b \in Elems(n)
    OBVIOUS
  <2>2. ref[b] = CHOOSE n \in D : b \in Elems(n)
    BY <1>3
  <2> QED
    BY <2>1, <2>2
<1>5. \A b \in Buffers \ moved : ref[b] = k.ref[b]
  OBVIOUS
<1>6. ref \in [Buffers -> Vectors \cup {null}]
  <2>1. \A b \in Buffers : ref[b] \in Vectors \cup {null}
    BY <1>2, <1>4, <1>5
  <2> QED
    BY <2>1
<1> HIDE DEF ref
<1>7. \A n \in D : \A i \in 1..Len(n) : n[i] \in moved /\ ref[n[i]] = n
  <2> SUFFICES ASSUME NEW n \in D, NEW i \in 1..Len(n) PROVE n[i] \in moved /\ ref[n[i]] = n
    OBVIOUS
  <2>1. n[i] \in Elems(n)
    BY VectorFacts
  <2>2. n[i] \in moved
    BY <2>1
  <2>3. ref[n[i]] \in D /\ n[i] \in Elems(ref[n[i]])
    BY <1>4, <2>2
  <2> QED
    BY <2>1, <2>2, <2>3
<1> HIDE DEF pool, sh, rt
<1>8. /\ Fields(h) /\ h.pool = pool /\ h.ref = ref /\ h.shards = sh /\ h.rt = rt
      /\ h.fault = k.fault
  BY <1>1, <1>2 DEF Fields
<1>9. h.pool = Referenced(h.ref)
  BY <1>8 DEF pool
<1>10. h.shards = [t \in h.pool |-> IF t \in D THEN t ELSE WithoutShards(k.shards[t], moved)]
       /\ h.rt = [t \in h.pool |-> IF t \in D THEN rts[t] ELSE k.rt[t]]
  BY <1>8 DEF sh, rt
<1>11. Rejoined(k, h, moved, D, rts)
  BY <1>4, <1>5, <1>6, <1>7, <1>8, <1>9, <1>10 DEF Rejoined
<1>12. HeapOK(h, v, {}) /\ NewOrKept(k, h, moved, D, rts)
  BY <1>3, <1>11, Rejoin
<1> QED
  BY <1>5, <1>7, <1>8, <1>12

\* Where a tensor lists a buffer, and what it holds for it.
LEMMA PositionFacts ==
  ASSUME NEW h, NEW v, HeapOK(h, v, {}), NEW b \in Buffers, h.ref[b] # null
  PROVE  /\ h.ref[b] \in h.pool
         /\ Position(h, b) \in 1..Len(h.shards[h.ref[b]])
         /\ h.ref[b][Position(h, b)] = b /\ h.shards[h.ref[b]][Position(h, b)] = b
         /\ \A i \in 1..Len(h.shards[h.ref[b]]) :
               h.shards[h.ref[b]][i] = b => i = Position(h, b)
         /\ Part(h.rt[h.ref[b]], Position(h, b)) = v[b]
         /\ Part(h.rt[h.ref[b]], Position(h, b)) \in Values
<1> DEFINE t == h.ref[b]
           n == Len(h.shards[t])
<1>1. /\ t \in h.pool /\ t \in Vectors /\ n \in Nat /\ n <= Len(t)
      /\ \A i \in 1..n : i \in 1..Len(t) /\ t[i] \in Buffers
                         /\ h.shards[t][i] = IF h.ref[t[i]] = t THEN t[i] ELSE null
      /\ \A i \in 1..n : Part(h.rt[t], i) \in Values
  <2>1. t \in h.pool
    BY PoolFacts
  <2> QED
    BY <2>1, PoolFacts
<1>2. PICK i \in 1..n : t[i] = b
  BY DEF HeapOK
<1>3. h.shards[t][i] = b
  BY <1>1, <1>2
<1>4. \A j \in 1..n : h.shards[t][j] = b => j = i
  <2> SUFFICES ASSUME NEW j \in 1..n, h.shards[t][j] = b PROVE j = i
    OBVIOUS
  <2>1. t[j] = b
    BY <1>1, Constants
  <2> QED
    BY <1>1, <1>2, <2>1, VectorFacts
<1>5. Position(h, b) = i
  <2>1. Position(h, b) = CHOOSE j \in 1..n : h.shards[t][j] = b
    BY DEF Position
  <2> QED
    BY <1>3, <1>4, <2>1
<1>6. Part(h.rt[t], i) = v[b]
  BY <1>1, <1>2 DEF HeapOK
<1> QED
  BY <1>1, <1>2, <1>3, <1>4, <1>5, <1>6

\* A heap that is as it should be may let buffers go, and give them other contents, if no
\* tensor loses its first shard before the others.
LEMMA Leave ==
  ASSUME NEW h, NEW v, NEW w, NEW out, HeapOK(h, v, {}),
         \A b \in Buffers \ out : h.ref[b] # null => h.ref[b][1] \notin out,
         \A b \in Buffers \ out : w[b] = v[b]
  PROVE  HeapOK(h, w, out)
<1>1. ASSUME NEW t \in h.pool, NEW i \in 1..Len(h.shards[t]), h.ref[t[i]] = t, t[i] \notin out
      PROVE  Part(h.rt[t], i) = w[t[i]]
  <2>1. t[i] \in Buffers
    BY PoolFacts
  <2>2. Part(h.rt[t], i) = v[t[i]]
    BY <1>1 DEF HeapOK
  <2> QED
    BY <1>1, <2>1, <2>2
<1> QED
  BY <1>1 DEF HeapOK

\* A buffer is destroyed that is not the first shard of a tensor that has others.
LEMMA Drop ==
  ASSUME NEW h, NEW v, NEW w, HeapOK(h, v, {}), NEW b \in Buffers,
         \A c \in Buffers : h.ref[c] # null /\ h.ref[c][1] = b => c = b,
         \A c \in Buffers \ {b} : w[c] = v[c]
  PROVE  LET k == DropRef(h, b)
         IN  /\ HeapOK(k, w, {}) /\ k.fault = h.fault
             /\ k.ref[b] = null /\ \A c \in Buffers \ {b} : k.ref[c] = h.ref[c]
             /\ \A t \in k.pool : /\ t \in h.pool /\ k.rt[t] = h.rt[t]
                                  /\ Len(k.shards[t]) = Len(h.shards[t])
<1> DEFINE ref == [h.ref EXCEPT ![b] = null]
           pool == Referenced(ref)
           sh == [t \in pool |-> WithoutShards(h.shards[t], {b})]
           rt == [t \in pool |-> h.rt[t]]
           k == DropRef(h, b)
<1>1. k = [h EXCEPT !.pool = pool, !.ref = ref, !.shards = sh, !.rt = rt]
  BY DEF DropRef
<1>2. Fields(h) /\ h.ref \in [Buffers -> Vectors \cup {null}]
  BY DEF HeapOK
<1>3. /\ ref \in [Buffers -> Vectors \cup {null}] /\ ref[b] = null
      /\ \A c \in Buffers \ {b} : ref[c] = h.ref[c]
  BY <1>2
<1> HIDE DEF ref, pool, sh, rt, k
<1>4. /\ Fields(k) /\ k.pool = pool /\ k.ref = ref /\ k.shards = sh /\ k.rt = rt
      /\ k.fault = h.fault
  BY <1>1, <1>2 DEF Fields
<1>5. k.pool = Referenced(k.ref)
  BY <1>4 DEF pool
<1>6. k.shards = [t \in k.pool |-> IF t \in {} THEN t ELSE WithoutShards(h.shards[t], {b})]
      /\ k.rt = [t \in k.pool |-> IF t \in {} THEN <<>>[t] ELSE h.rt[t]]
  BY <1>4 DEF sh, rt
<1>7. Rejoined(h, k, {b}, {}, <<>>)
  BY <1>3, <1>4, <1>5, <1>6 DEF Rejoined
<1>8. HeapOK(h, w, {b})
  BY Leave
<1>9. NewOK({}, <<>>, w)
  BY DEF NewOK
<1>10. HeapOK(k, w, {}) /\ NewOrKept(h, k, {b}, {}, <<>>)
  BY <1>7, <1>8, <1>9, Rejoin
<1> QED
  BY <1>3, <1>4, <1>10 DEF NewOrKept, k

\* The first half of move_to_host: the first shards keep their tensors.
LEMMA Keep ==
  ASSUME NEW h, NEW v, HeapOK(h, v, {}), NEW ts \in SUBSET h.pool
  PROVE  LET k == KeepFirst(h, ts)
         IN  /\ HeapOK(k, v, Followers(h, ts))
             /\ k.ref = h.ref /\ k.pool = h.pool
             /\ k.fault = IF \E t \in ts : h.rt[t].where = "stale" THEN "stale" ELSE h.fault
             /\ \A t \in ts : k.rt[t].where = "host" /\ Len(k.shards[t]) = 1
             /\ \A t \in h.pool \ ts : k.rt[t] = h.rt[t] /\ k.shards[t] = h.shards[t]
<1> DEFINE F == Followers(h, ts)
           k == KeepFirst(h, ts)
           sh == [t \in h.pool |-> IF t \in ts THEN <<h.shards[t][1]>> ELSE h.shards[t]]
           rt == [t \in h.pool |-> IF t \in ts THEN OnHost(<<Part(h.rt[t], 1)>>) ELSE h.rt[t]]
           ft == IF \E t \in ts : h.rt[t].where = "stale" THEN "stale"
                 ELSE IF \E t \in ts : h.shards[t][1] = null THEN "freed" ELSE h.fault
<1>1. k = [h EXCEPT !.shards = sh, !.rt = rt, !.fault = ft]
  BY DEF KeepFirst
<1>2. Fields(h) /\ h.ref \in [Buffers -> Vectors \cup {null}] /\ h.pool = Referenced(h.ref)
      /\ h.rt \in [h.pool -> Rts]
  BY DEF HeapOK
<1>3. \A t \in h.pool :
         /\ t \in Vectors /\ t # null /\ t[1] \in Buffers
         /\ h.shards[t] \in Seq(Buffers \cup {null})
         /\ Len(h.shards[t]) \in Nat /\ Len(h.shards[t]) >= 1 /\ Len(h.shards[t]) <= Len(t)
         /\ h.ref[t[1]] = t /\ h.shards[t][1] = t[1]
         /\ 1 \in 1..Len(h.shards[t])
         /\ \A i \in 1..Len(h.shards[t]) : Part(h.rt[t], i) \in Values
  <2>1. \A t \in h.pool : Len(h.shards[t]) \in Nat /\ Len(h.shards[t]) >= 1
    BY PoolFacts
  <2>2. \A t \in h.pool : 1 \in 1..Len(h.shards[t])
    BY <2>1
  <2> QED
    BY <2>2, PoolFacts
<1>4. ft = IF \E t \in ts : h.rt[t].where = "stale" THEN "stale" ELSE h.fault
  BY <1>3, Constants
<1> HIDE DEF sh, rt, ft, k
<1>5. /\ Fields(k) /\ k.pool = h.pool /\ k.ref = h.ref /\ k.shards = sh /\ k.rt = rt
      /\ k.fault = ft
  BY <1>1, <1>2 DEF Fields
<1>6. \A t \in h.pool \ ts : k.rt[t] = h.rt[t] /\ k.shards[t] = h.shards[t]
  BY <1>5 DEF sh, rt
<1>7. ASSUME NEW t \in ts
      PROVE  /\ k.shards[t] = <<t[1]>> /\ k.shards[t] \in Seq(Buffers \cup {null})
             /\ Len(k.shards[t]) = 1 /\ k.shards[t][1] = t[1]
             /\ k.rt[t] \in Rts /\ k.rt[t].where = "host" /\ Len(k.rt[t].parts) = 1
             /\ Part(k.rt[t], 1) = Part(h.rt[t], 1)
  <2>1. k.shards[t] = <<h.shards[t][1]>> /\ k.rt[t] = OnHost(<<Part(h.rt[t], 1)>>)
    BY <1>5 DEF sh, rt
  <2>2. h.shards[t][1] = t[1] /\ t[1] \in Buffers /\ Part(h.rt[t], 1) \in Values
    BY <1>3
  <2>3. k.shards[t] = <<t[1]>> /\ k.shards[t] \in Seq(Buffers \cup {null})
        /\ Len(k.shards[t]) = 1 /\ k.shards[t][1] = t[1]
    BY <2>1, <2>2
  <2> DEFINE x == Part(h.rt[t], 1)
  <2>4. <<x>> \in Seq(Values) /\ Len(<<x>>) = 1 /\ <<x>>[1] = x
    BY <2>2
  <2> HIDE DEF x
  <2>5. k.rt[t] = [where |-> "host", parts |-> <<x>>]
    BY <2>1 DEF OnHost, x
  <2>6. k.rt[t] \in Rts /\ k.rt[t].where = "host" /\ Len(k.rt[t].parts) = 1
        /\ k.rt[t].parts[1] = x
    BY <2>4, <2>5 DEF Rts
  <2>7. Part(k.rt[t], 1) = x
    BY <2>6 DEF Part
  <2> QED
    BY <2>3, <2>6, <2>7 DEF x
<1>8. k.rt \in [k.pool -> Rts]
  <2>1. \A t \in h.pool : k.rt[t] \in Rts
    BY <1>2, <1>6, <1>7
  <2>2. k.rt = [t \in h.pool |-> k.rt[t]]
    BY <1>5 DEF rt
  <2> QED
    BY <1>5, <2>1, <2>2
<1>9. ASSUME NEW t \in k.pool PROVE Listed(k, t)
  <2>0. t \in h.pool /\ Listed(h, t)
    BY <1>5 DEF HeapOK
  <2>1. CASE t \in ts
    <3>1. /\ k.shards[t] \in Seq(Buffers \cup {null})
          /\ Len(k.shards[t]) = 1 /\ k.shards[t][1] = t[1] /\ Len(k.rt[t].parts) = 1
      BY <1>7, <2>1
    <3>2. t \in Vectors /\ h.ref[t[1]] = t
      BY <1>3, <2>0
    <3>3. 1 \in 1..Len(t)
      BY <3>2, VectorFacts
    <3> QED
      BY <1>5, <3>1, <3>2, <3>3 DEF Listed
  <2>2. CASE t \notin ts
    BY <1>5, <1>6, <2>0, <2>2 DEF Listed
  <2> QED
    BY <2>1, <2>2
<1>10. ASSUME NEW b \in Buffers \ F, h.ref[b] # null
       PROVE  /\ h.ref[b][1] \notin F
              /\ \E i \in 1..Len(k.shards[h.ref[b]]) : h.ref[b][i] = b
  <2> DEFINE t == h.ref[b]
  <2>1. t \in h.pool
    BY <1>10, PoolFacts
  <2>2. t[1] \in Buffers /\ h.ref[t[1]] = t /\ h.shards[t][1] = t[1]
    BY <1>3, <2>1
  <2>3. t[1] \notin F
    BY <2>2 DEF Followers
  <2>4. CASE t \in ts
    <3>1. h.shards[t][1] = b
      BY <1>10, <2>4 DEF Followers
    <3>2. 1 \in 1..Len(k.shards[t]) /\ t[1] = b
      BY <1>7, <2>2, <2>4, <3>1
    <3> QED
      BY <2>3, <3>2
  <2>5. CASE t \notin ts
    <3>1. k.shards[t] = h.shards[t]
      BY <1>6, <2>1, <2>5
    <3>2. \E i \in 1..Len(h.shards[t]) : t[i] = b
      BY <1>10 DEF HeapOK
    <3> QED
      BY <2>3, <3>1, <3>2
  <2> QED
    BY <2>4, <2>5
<1>11. ASSUME NEW t \in h.pool, NEW i \in 1..Len(k.shards[t]), h.ref[t[i]] = t
       PROVE  Part(k.rt[t], i) = v[t[i]]
  <2>1. CASE t \in ts
    <3>1. i = 1 /\ Part(k.rt[t], 1) = Part(h.rt[t], 1)
      <4>1. Len(k.shards[t]) = 1 /\ Part(k.rt[t], 1) = Part(h.rt[t], 1)
        BY <1>7, <2>1
      <4>2. i \in 1..1
        BY <4>1
      <4> QED
        BY <4>1, <4>2
    <3>2. Part(h.rt[t], 1) = v[t[1]]
      BY <1>3 DEF HeapOK
    <3> QED
      BY <3>1, <3>2
  <2>2. CASE t \notin ts
    <3>1. k.rt[t] = h.rt[t] /\ i \in 1..Len(h.shards[t])
      BY <1>6, <2>2
    <3> QED
      BY <1>11, <3>1 DEF HeapOK
  <2> QED
    BY <2>1, <2>2
<1>12. HeapOK(k, v, F)
  <2> HIDE DEF F
  <2> QED
    BY <1>2, <1>5, <1>8, <1>9, <1>10, <1>11 DEF HeapOK
<1> QED
  BY <1>4, <1>5, <1>6, <1>7, <1>12 DEF k

\* move_to_host: every shard of a moved tensor has a tensor of its own, on the host, with what
\* it held; nothing else changes.
LEMMA Split ==
  ASSUME NEW h, NEW v, HeapOK(h, v, {}), NEW ts \in SUBSET h.pool
  PROVE  LET k == MoveToHost(h, ts)
         IN  /\ HeapOK(k, v, {})
             /\ \A b \in Buffers : k.ref[b] # null <=> h.ref[b] # null
             /\ k.fault = IF \E t \in ts : h.rt[t].where = "stale" THEN "stale" ELSE h.fault
             /\ \A t \in k.pool :
                   \/ k.rt[t].where = "host" /\ Len(k.shards[t]) = 1
                   \/ /\ t \in h.pool \ ts /\ k.rt[t] = h.rt[t]
                      /\ Len(k.shards[t]) = Len(h.shards[t])
             /\ \A b \in Buffers : h.ref[b] \in ts =>
                   k.rt[k.ref[b]].where = "host" /\ Len(k.shards[k.ref[b]]) = 1
<1> DEFINE F == Followers(h, ts)
           D == {<<b>> : b \in F}
           j == KeepFirst(h, ts)
           rts == [n \in D |-> OnHost(<<Part(h.rt[h.ref[n[1]]], Position(h, n[1]))>>)]
           k == MoveToHost(h, ts)
<1>1. k = FromRuntimeTensors(j, rts)
  BY DEF MoveToHost
<1>2. /\ HeapOK(j, v, F)
      /\ j.ref = h.ref /\ j.pool = h.pool
      /\ j.fault = IF \E t \in ts : h.rt[t].where = "stale" THEN "stale" ELSE h.fault
      /\ \A t \in ts : j.rt[t].where = "host" /\ Len(j.shards[t]) = 1
      /\ \A t \in h.pool \ ts : j.rt[t] = h.rt[t] /\ j.shards[t] = h.shards[t]
  BY Keep
<1>3. F \subseteq Buffers /\ \A b \in F : h.ref[b] \in ts /\ h.ref[b] # null
  <2>1. \A t \in h.pool : t # null
    BY PoolFacts
  <2> QED
    BY <2>1 DEF Followers
<1>4. \A b \in F : /\ <<b>> \in D /\ <<b>> \in Vectors /\ Len(<<b>>) = 1 /\ <<b>>[1] = b
                   /\ Elems(<<b>>) = {b}
  BY <1>3, SingleVector
<1>5. \A n \in D : /\ n \in Vectors /\ Len(n) = 1 /\ n[1] \in F /\ Elems(n) = {n[1]}
                   /\ n = <<n[1]>>
  BY <1>4
<1>6. DOMAIN rts = D /\ \A n \in D :
         rts[n] = [where |-> "host",
                   parts |-> <<Part(h.rt[h.ref[n[1]]], Position(h, n[1]))>>]
  BY DEF OnHost
<1> HIDE DEF F, D, j, rts, k
<1>7. \A b : b \in F <=> \E n \in D : b \in Elems(n)
  <2>1. ASSUME NEW b \in F PROVE \E n \in D : b \in Elems(n)
    <3>1. <<b>> \in D /\ b \in Elems(<<b>>)
      BY <1>4
    <3> QED
      BY <3>1, Zenon
  <2>2. ASSUME NEW n \in D, NEW b \in Elems(n) PROVE b \in F
    BY <1>5
  <2> QED
    BY <2>1, <2>2
<1>8. \A m, n \in D : \A b \in Elems(m) : b \in Elems(n) => m = n
  <2> SUFFICES ASSUME NEW m \in D, NEW n \in D, NEW b \in Elems(m), b \in Elems(n) PROVE m = n
    OBVIOUS
  <2>1. b = m[1] /\ b = n[1]
    BY <1>5
  <2> QED
    BY <1>5, <2>1
<1>9. NewOK(D, rts, v)
  <2> SUFFICES ASSUME NEW n \in D
               PROVE  /\ rts[n] \in Rts
                      /\ Len(rts[n].parts) \in {1, Len(n)}
                      /\ \A i \in 1..Len(n) : Part(rts[n], i) = v[n[i]]
    BY DEF NewOK
  <2> DEFINE b == n[1]
             x == Part(h.rt[h.ref[b]], Position(h, b))
  <2>1. b \in Buffers /\ h.ref[b] # null /\ Len(n) = 1
    BY <1>3, <1>5
  <2>2. x = v[b] /\ x \in Values
    BY <2>1, PositionFacts
  <2>3. rts[n] = [where |-> "host", parts |-> <<x>>]
    BY <1>6
  <2> HIDE DEF x, b
  <2>4. <<x>> \in Seq(Values) /\ Len(<<x>>) = 1 /\ <<x>>[1] = x
    BY <2>2
  <2>5. rts[n] \in Rts /\ Len(rts[n].parts) = 1 /\ rts[n].parts[1] = x
    BY <2>3, <2>4 DEF Rts
  <2>6. Part(rts[n], 1) = v[b]
    BY <2>2, <2>5 DEF Part
  <2>7. \A i \in 1..Len(n) : i = 1
    BY <2>1
  <2> QED
    BY <2>5, <2>6, <2>7 DEF b
<1>10. D \in SUBSET Vectors
  BY <1>5
<1>11. /\ HeapOK(k, v, {}) /\ NewOrKept(j, k, F, D, rts)
       /\ k.fault = j.fault
       /\ \A b \in Buffers \ F : k.ref[b] = j.ref[b]
       /\ \A n \in D : \A i \in 1..Len(n) : k.ref[n[i]] = n
  <2>1. DOMAIN rts = D
    BY <1>6
  <2>2. HeapOK(j, v, F)
    BY <1>2
  <2>3. Apart(D, F)
    BY <1>7, <1>8 DEF Apart
  <2> QED
    BY <1>1, <1>9, <1>10, <2>1, <2>2, <2>3, Join
<1>12. \A b \in F : k.ref[b] = <<b>> /\ <<b>> \in D /\ k.ref[b] # null
  <2> SUFFICES ASSUME NEW b \in F PROVE k.ref[b] = <<b>> /\ <<b>> \in D /\ k.ref[b] # null
    OBVIOUS
  <2> DEFINE n == <<b>>
  <2>1. n \in D /\ n \in Vectors /\ Len(n) = 1 /\ n[1] = b
    BY <1>4
  <2> HIDE DEF n
  <2>2. 1 \in 1..Len(n)
    BY <2>1
  <2>3. k.ref[b] = n
    BY <1>11, <2>1, <2>2
  <2>4. n # null
    BY <2>1, Constants
  <2> QED
    BY <2>1, <2>3, <2>4 DEF n
<1>13. \A b \in Buffers : k.ref[b] # null <=> h.ref[b] # null
  BY <1>2, <1>3, <1>11, <1>12
<1>14. ASSUME NEW t \in k.pool
       PROVE  /\ t \in D \/ t \in ts => k.rt[t].where = "host" /\ Len(k.shards[t]) = 1
              /\ t \notin D => t \in h.pool
              /\ t \notin D /\ t \notin ts => /\ k.rt[t] = h.rt[t]
                                              /\ Len(k.shards[t]) = Len(h.shards[t])
  <2>1. CASE t \in D
    <3>1. t[1] \in F /\ Len(t) = 1 /\ rts[t].where = "host"
      BY <1>5, <1>6, <2>1
    <3>2. k.rt[t] = rts[t] /\ k.shards[t] = t
      BY <1>11, <2>1 DEF NewOrKept
    <3> QED
      BY <2>1, <3>1, <3>2
  <2>2. CASE t \notin D
    <3>1. t \in j.pool /\ k.rt[t] = j.rt[t] /\ Len(k.shards[t]) = Len(j.shards[t])
      BY <1>11, <2>2 DEF NewOrKept
    <3> QED
      BY <1>2, <2>2, <3>1
  <2> QED
    BY <2>1, <2>2
<1>15. ASSUME NEW b \in Buffers, h.ref[b] \in ts
       PROVE  k.rt[k.ref[b]].where = "host" /\ Len(k.shards[k.ref[b]]) = 1
  <2>1. h.ref[b] # null
    BY <1>15, PoolFacts
  <2>2. k.ref[b] \in k.pool
    BY <1>11, <1>13, <2>1, PoolFacts
  <2>3. k.ref[b] \in D \/ k.ref[b] \in ts
    BY <1>2, <1>11, <1>12, <1>15
  <2> QED
    BY <1>14, <2>2, <2>3
<1> QED
  BY <1>2, <1>11, <1>13, <1>14, <1>15 DEF k

\* closeMeshDevice.
LEMMA Close ==
  ASSUME NEW h, NEW v, HeapOK(h, v, {})
  PROVE  LET k == CloseMesh(h)
         IN  /\ HeapOK(k, v, {}) /\ k.ref = h.ref /\ k.pool = h.pool /\ k.fault = h.fault
             /\ k.shards = h.shards
             /\ \A t \in k.pool : k.rt[t].where = IF h.rt[t].where = "device" THEN "stale"
                                                  ELSE h.rt[t].where
<1> DEFINE rt == [t \in h.pool |-> IF h.rt[t].where = "device"
                                   THEN [h.rt[t] EXCEPT !.where = "stale"] ELSE h.rt[t]]
           k == CloseMesh(h)
<1>1. k = [h EXCEPT !.rt = rt]
  BY DEF CloseMesh
<1>2. Fields(h) /\ h.rt \in [h.pool -> Rts]
  BY DEF HeapOK
<1>3. /\ rt \in [h.pool -> Rts]
      /\ \A t \in h.pool : /\ rt[t].parts = h.rt[t].parts
                           /\ rt[t].where = IF h.rt[t].where = "device" THEN "stale"
                                            ELSE h.rt[t].where
  <2>1. ASSUME NEW t \in h.pool
        PROVE  /\ rt[t] \in Rts /\ rt[t].parts = h.rt[t].parts
               /\ rt[t].where = IF h.rt[t].where = "device" THEN "stale" ELSE h.rt[t].where
    <3>1. h.rt[t] \in Rts
      BY <1>2
    <3>2. CASE h.rt[t].where = "device"
      <4>1. rt[t] = [h.rt[t] EXCEPT !.where = "stale"]
        BY <3>2
      <4> QED
        BY <3>1, <3>2, <4>1 DEF Rts
    <3>3. CASE h.rt[t].where # "device"
      <4>1. rt[t] = h.rt[t]
        BY <3>3
      <4> QED
        BY <3>1, <3>3, <4>1
    <3> QED
      BY <3>2, <3>3
  <2> QED
    BY <2>1
<1> HIDE DEF rt, k
<1>4. /\ Fields(k) /\ k.ref = h.ref /\ k.pool = h.pool /\ k.fault = h.fault
      /\ k.shards = h.shards /\ k.rt = rt
  BY <1>1, <1>2 DEF Fields
<1>5. \A t \in k.pool : Listed(k, t)
  <2>1. \A t \in k.pool : Listed(h, t) /\ k.rt[t].parts = h.rt[t].parts
    BY <1>3, <1>4 DEF HeapOK
  <2> QED
    BY <1>4, <2>1 DEF Listed
<1>6. \A t \in k.pool : \A i \in 1..Len(k.shards[t]) : Part(k.rt[t], i) = Part(h.rt[t], i)
  BY <1>3, <1>4 DEF Part
<1>7. HeapOK(k, v, {})
  BY <1>3, <1>4, <1>5, <1>6 DEF HeapOK
<1> QED
  BY <1>3, <1>4, <1>7 DEF k

\* getOrCreateMeshDevice: what there was stays as it is, or is moved to the host.
LEMMA Mesh ==
  ASSUME NEW h, NEW v, NEW s \in Shapes, NEW p, HeapOK(h, v, {}), Fit(h, mesh, p),
         mesh \in Shapes \cup {NoMesh}
  PROVE  LET k == GetOrCreateMesh(h, s)
         IN  /\ HeapOK(k, v, {}) /\ Fit(k, s, p)
             /\ \A b \in Buffers : k.ref[b] # null <=> h.ref[b] # null
<1> DEFINE k == GetOrCreateMesh(h, s)
<1>1. CASE mesh \in {NoMesh, s}
  <2>1. k = h
    BY <1>1 DEF GetOrCreateMesh
  <2>2. OnMesh(h, s)
    BY <1>1, Constants DEF Fit, OnMesh
  <2> QED
    BY <2>1, <2>2 DEF Fit
<1>2. CASE mesh \notin {NoMesh, s}
  <2> DEFINE j == MoveToHost(h, h.pool)
  <2>1. k = CloseMesh(j)
    BY <1>2 DEF GetOrCreateMesh
  <2>2. /\ HeapOK(j, v, {})
        /\ \A b \in Buffers : j.ref[b] # null <=> h.ref[b] # null
        /\ j.fault = IF \E t \in h.pool : h.rt[t].where = "stale" THEN "stale" ELSE h.fault
        /\ \A t \in j.pool : j.rt[t].where = "host" /\ Len(j.shards[t]) = 1
    <3>1. h.pool \in SUBSET h.pool /\ h.pool \ h.pool = {}
      OBVIOUS
    <3> HIDE DEF j
    <3> QED
      BY <3>1, Split DEF j
  <2> HIDE DEF j
  <2>3. /\ HeapOK(k, v, {}) /\ k.ref = j.ref /\ k.pool = j.pool /\ k.fault = j.fault
        /\ k.shards = j.shards
        /\ \A t \in k.pool : k.rt[t].where = IF j.rt[t].where = "device" THEN "stale"
                                             ELSE j.rt[t].where
    BY <2>1, <2>2, Close
  <2> HIDE DEF k
  <2>4. \A t \in k.pool : k.rt[t].where = "host" /\ Len(k.shards[t]) = 1
    BY <2>2, <2>3
  <2>5. OnMesh(k, s) /\ HostSingle(k)
    <3>1. ASSUME NEW t \in k.pool
          PROVE  ~(k.rt[t].where = "device") /\ ~(Len(k.shards[t]) > 1)
      <4>1. k.rt[t].where = "host" /\ Len(k.shards[t]) = 1
        BY <2>4, Zenon
      <4>2. ~(Len(k.shards[t]) > 1)
        <5> DEFINE n == Len(k.shards[t])
        <5>1. n = 1
          BY <4>1
        <5> HIDE DEF n
        <5>2. ~(n > 1)
          BY <5>1
        <5> QED
          BY <5>2 DEF n
      <4> QED
        BY <4>1, <4>2
    <3>2. OnMesh(k, s)
      BY <3>1, Zenon DEF OnMesh
    <3>3. HostSingle(k)
      BY <2>4, Zenon DEF HostSingle
    <3> QED
      BY <3>2, <3>3
  <2>6. p # "failed" => NoneStale(k)
    BY <2>2, <2>3, <2>4 DEF Fit, NoneStale
  <2> QED
    BY <2>2, <2>3, <2>5, <2>6 DEF Fit, k
<1> QED
  BY <1>1, <1>2

-----------------------------------------------------------------------------
(* The argument of a program.                                               *)

\* The shards of an argument share tensor t.
Share(h, args, t) == \A i \in 1..Len(args) : h.ref[args[i]] = t

\* If the shards of an argument share a tensor then it is their tensor, in mesh order, and
\* unless its mesh was closed a program reads from it what they hold.
LEMMA Shared ==
  ASSUME NEW h, NEW v, HeapOK(h, v, {}), NEW s \in Shapes, OnMesh(h, s),
         NEW args \in ShardVectors, Len(args) = NumDevices[s],
         NEW t \in h.pool, Share(h, args, t)
  PROVE  /\ \A i \in 1..Len(args) : i \in 1..Len(h.shards[t]) /\ t[i] = args[i]
         /\ h.rt[t].where # "stale" =>
               /\ Len(h.shards[t]) = Len(args)
               /\ Input(h.rt[t], Len(args)) = [i \in 1..Len(args) |-> v[args[i]]]
<1> DEFINE n == Len(args)
           m == Len(h.shards[t])
<1> USE DEF Share
<1>1. /\ args \in Vectors /\ \A i \in 1..n : Device[args[i]] = i
  BY ShardVectorFacts
<1>2. n \in Nat /\ n > 0 /\ 1 \in 1..n /\ \A i \in 1..n : args[i] \in Buffers
  BY <1>1, VectorFacts
<1>3. /\ t \in Vectors /\ t # null /\ m \in Nat /\ m >= 1 /\ m <= Len(t)
      /\ h.rt[t] \in Rts /\ h.rt[t].parts \in Seq(Values) /\ Len(h.rt[t].parts) \in {1, m}
  BY PoolFacts
<1>4. Len(t) \in Nat /\ Len(t) > 1 => \A i \in 1..Len(t) : Device[t[i]] = i
  BY <1>3 DEF Vectors
<1>10. ASSUME NEW i \in 1..n PROVE \E q \in 1..m : t[q] = args[i]
  <2>1. args[i] \in Buffers /\ h.ref[args[i]] = t
    BY <1>2
  <2>2. \A b \in Buffers : h.ref[b] # null =>
           \E q \in 1..Len(h.shards[h.ref[b]]) : h.ref[b][q] = b
    BY DEF HeapOK
  <2>3. \E q \in 1..Len(h.shards[h.ref[args[i]]]) : h.ref[args[i]][q] = args[i]
    BY <1>3, <2>1, <2>2
  <2> QED
    BY <2>1, <2>3
<1>5. ASSUME NEW i \in 1..n PROVE i \in 1..m /\ t[i] = args[i]
  <2>1. PICK j \in 1..m : t[j] = args[i]
    BY <1>10
  <2>2. j \in 1..Len(t)
    BY <1>3, <2>1, VectorFacts
  <2>3. j = i
    <3>1. CASE Len(t) > 1
      BY <1>1, <1>3, <1>4, <2>1, <2>2, <3>1, VectorFacts
    <3>2. CASE ~(Len(t) > 1)
      <4>1. \A q \in 1..m : q = 1
        BY <1>3, <3>2, VectorFacts
      <4>2. \E q \in 1..m : t[q] = args[1]
        BY <1>2, <1>10
      <4>3. args[1] = args[i] /\ j = 1
        BY <2>1, <4>1, <4>2
      <4> QED
        BY <1>1, <1>2, <4>3
    <3> QED
      BY <3>1, <3>2
  <2> QED
    BY <2>1, <2>3
<1>6. \A i \in 1..n : Part(h.rt[t], i) = v[args[i]]
  <2> SUFFICES ASSUME NEW i \in 1..n PROVE Part(h.rt[t], i) = v[args[i]]
    OBVIOUS
  <2>1. i \in 1..m /\ t[i] = args[i] /\ h.ref[t[i]] = t
    BY <1>5
  <2> QED
    BY <2>1 DEF HeapOK
<1>7. ASSUME h.rt[t].where # "stale" PROVE m = n
  <2>1. n <= m
    <3>1. n \in 1..n
      BY <1>2
    <3> QED
      BY <1>2, <1>3, <1>5, <3>1
  <2>2. CASE m > 1
    <3>1. h.rt[t].where \in {"host", "device"}
      BY <1>3, <1>7 DEF Rts
    <3> QED
      BY <2>2, <3>1 DEF OnMesh
  <2>3. CASE ~(m > 1)
    BY <1>2, <1>3, <2>1, <2>3
  <2> QED
    BY <2>2, <2>3
<1>8. ASSUME h.rt[t].where # "stale" PROVE Input(h.rt[t], n) = [i \in 1..n |-> v[args[i]]]
  <2> DEFINE ps == h.rt[t].parts
  <2>1. ps \in Seq(Values) /\ Len(ps) \in {1, n}
    BY <1>3, <1>7, <1>8
  <2>2. CASE Len(ps) = 1
    <3>1. Input(h.rt[t], n) = [i \in 1..n |-> ps[1]]
      BY <2>2 DEF Input
    <3>2. \A i \in 1..n : ps[1] = v[args[i]]
      BY <1>6, <2>2 DEF Part
    <3> HIDE DEF n, ps
    <3> QED
      BY <3>1, <3>2
  <2>3. CASE Len(ps) # 1
    <3>1. Input(h.rt[t], n) = ps /\ Len(ps) = n
      BY <2>1, <2>3 DEF Input
    <3>2. \A i \in 1..n : ps[i] = v[args[i]]
      BY <1>6, <2>3 DEF Part
    <3>3. ps = [i \in 1..n |-> ps[i]]
      BY <2>1, <3>1
    <3> HIDE DEF n, ps
    <3> QED
      BY <3>1, <3>2, <3>3
  <2> QED
    BY <2>2, <2>3
<1> QED
  BY <1>5, <1>7, <1>8

\* rt_tensor_from_strategy for shards that have one tensor each.
LEMMA Strategy ==
  ASSUME NEW h, NEW v, HeapOK(h, v, {}), NEW s \in Shapes, OnMesh(h, s),
         NEW args \in ShardVectors, Len(args) = NumDevices[s],
         \A i \in 1..Len(args) : h.ref[args[i]] # null,
         NEW st \in {"identity", "multi"},
         st = "identity" => \A i \in 1..Len(args) : v[args[i]] = v[args[1]],
         ~HaveSameTensor(h, args),
         \A i \in 1..Len(args) : Len(h.shards[h.ref[args[i]]]) = 1,
         NEW r, r = RtTensorFromStrategy(h, args, st)
  PROVE  /\ r \in Rts /\ r.where # "device" /\ Len(r.parts) \in {1, Len(args)}
         /\ \A i \in 1..Len(args) : Part(r, i) = v[args[i]]
         /\ NoneStale(h) => r.where = "host" /\ StrategyFault(h, args, st) = "none"
<1> DEFINE n == Len(args)
<1>1. /\ args \in Vectors /\ \A i \in 1..n : Device[args[i]] = i
  BY ShardVectorFacts
<1>2. n \in Nat /\ n > 0 /\ 1 \in 1..n /\ \A i \in 1..n : args[i] \in Buffers
  BY <1>1, VectorFacts
<1>3. n # 1
  <2> SUFFICES ASSUME n = 1 PROVE FALSE
    OBVIOUS
  <2>1. \A i \in 1..n : i = 1
    OBVIOUS
  <2> QED
    BY <2>1 DEF HaveSameTensor
<1>4. ASSUME NEW i \in 1..n
      PROVE  LET q == h.rt[h.ref[args[i]]]
             IN  /\ q \in Rts /\ q.where \in {"host", "stale"} /\ h.ref[args[i]] \in h.pool
                 /\ q.parts \in Seq(Values) /\ Len(q.parts) = 1
                 /\ q.parts[1] = v[args[i]] /\ q.parts[1] \in Values
  <2> DEFINE t == h.ref[args[i]]
             q == h.rt[t]
  <2>1. args[i] \in Buffers /\ t # null /\ Len(h.shards[t]) = 1
    BY <1>2
  <2>2. t \in h.pool
    BY <2>1, PoolFacts
  <2>3. q \in Rts /\ q.parts \in Seq(Values) /\ Len(q.parts) \in {1, Len(h.shards[t])}
    BY <2>2, PoolFacts
  <2>4. Len(q.parts) = 1
    BY <2>1, <2>3
  <2>5. q.where # "device"
    <3> SUFFICES ASSUME q.where = "device" PROVE FALSE
      OBVIOUS
    <3>1. Len(h.shards[t]) = NumDevices[s]
      BY <2>2 DEF OnMesh
    <3> QED
      BY <1>3, <2>1, <3>1
  <2>6. Part(q, Position(h, args[i])) = v[args[i]]
    BY <2>1, PositionFacts
  <2>7. q.parts[1] = v[args[i]] /\ q.parts[1] \in Values
    BY <2>3, <2>4, <2>6 DEF Part
  <2>8. q.where \in {"host", "stale"}
    BY <2>3, <2>5 DEF Rts
  <2> QED
    BY <2>2, <2>3, <2>4, <2>7, <2>8
<1>5. CASE st = "identity"
  <2>1. r = h.rt[h.ref[args[1]]]
    BY <1>5 DEF RtTensorFromStrategy
  <2>2. /\ r \in Rts /\ r.where \in {"host", "stale"} /\ Len(r.parts) = 1
        /\ r.parts[1] = v[args[1]] /\ h.ref[args[1]] \in h.pool
    BY <1>2, <1>4, <2>1
  <2>3. \A i \in 1..n : Part(r, i) = v[args[i]]
    BY <1>5, <2>2 DEF Part
  <2>4. ASSUME NoneStale(h) PROVE r.where = "host" /\ StrategyFault(h, args, st) = "none"
    <3>1. h.fault = "none" /\ r.where # "stale"
      BY <2>1, <2>2, <2>4 DEF NoneStale
    <3>2. StrategyFault(h, args, st) =
            IF \E q \in {r} : q.where = "stale" THEN "stale"
            ELSE IF \E q \in {r} : Len(q.parts) > 1 \/ (q.where # "host" /\ st # "identity")
            THEN "mixed" ELSE h.fault
      <4>1. {h.rt[h.ref[args[i]]] : i \in {1}} = {r}
        BY <2>1
      <4> QED
        BY <1>5, <4>1 DEF StrategyFault
    <3>3. ~(Len(r.parts) > 1)
      BY <2>2
    <3>4. StrategyFault(h, args, st) = h.fault
      BY <1>5, <3>1, <3>2, <3>3
    <3> QED
      BY <2>2, <3>1, <3>4
  <2> QED
    BY <2>2, <2>3, <2>4
<1>6. CASE st = "multi"
  <2> DEFINE ps == [i \in 1..n |-> h.rt[h.ref[args[i]]].parts[1]]
  <2>1. r = [where |-> "host", parts |-> ps]
    BY <1>6 DEF RtTensorFromStrategy, OnHost
  <2>2. ps \in Seq(Values) /\ Len(ps) = n /\ \A i \in 1..n : ps[i] = v[args[i]]
    <3>1. \A i \in 1..n : ps[i] = v[args[i]] /\ ps[i] \in Values
      BY <1>4
    <3>2. ps \in [1..n -> Values]
      BY <1>4
    <3> HIDE DEF ps
    <3> QED
      BY <1>2, <3>1, <3>2
  <2> HIDE DEF ps
  <2>3. r \in Rts /\ r.where = "host" /\ r.parts = ps
    BY <2>1, <2>2 DEF Rts
  <2>4. \A i \in 1..n : Part(r, i) = v[args[i]]
    BY <1>3, <2>2, <2>3 DEF Part
  <2>5. ASSUME NoneStale(h) PROVE StrategyFault(h, args, st) = "none"
    <3> DEFINE qs == {h.rt[h.ref[args[i]]] : i \in 1..n}
    <3>1. \A q \in qs : q.where = "host" /\ ~(Len(q.parts) > 1)
      <4> SUFFICES ASSUME NEW i \in 1..n
                   PROVE  LET q == h.rt[h.ref[args[i]]] IN q.where = "host" /\ ~(Len(q.parts) > 1)
        OBVIOUS
      <4> DEFINE q == h.rt[h.ref[args[i]]]
      <4>1. q.where \in {"host", "stale"} /\ h.ref[args[i]] \in h.pool /\ Len(q.parts) = 1
        BY <1>4
      <4>2. q.where # "stale"
        BY <2>5, <4>1 DEF NoneStale
      <4>3. ~(Len(q.parts) > 1)
        BY <4>1
      <4> QED
        BY <4>1, <4>2, <4>3
    <3>2. StrategyFault(h, args, st) =
            IF \E q \in qs : q.where = "stale" THEN "stale"
            ELSE IF \E q \in qs : Len(q.parts) > 1 \/ (q.where # "host" /\ st # "identity")
            THEN "mixed" ELSE h.fault
      BY <1>6 DEF StrategyFault
    <3> HIDE DEF qs
    <3>3. ~\E q \in qs : q.where = "stale"
      BY <3>1
    <3>4. ~\E q \in qs : Len(q.parts) > 1 \/ (q.where # "host" /\ st # "identity")
      BY <3>1
    <3> QED
      BY <2>5, <3>2, <3>3, <3>4 DEF NoneStale
  <2> QED
    BY <2>2, <2>3, <2>4, <2>5
<1> QED
  BY <1>5, <1>6

\* A heap that notes a fault.
LEMMA Note ==
  ASSUME NEW j, NEW v, HeapOK(j, v, {}), NEW f, NEW k, k = [j EXCEPT !.fault = f]
  PROVE  /\ HeapOK(k, v, {}) /\ k.fault = f
         /\ k.pool = j.pool /\ k.ref = j.ref /\ k.shards = j.shards /\ k.rt = j.rt
<1>1. Fields(j)
  BY DEF HeapOK
<1>2. /\ Fields(k) /\ k.fault = f
      /\ k.pool = j.pool /\ k.ref = j.ref /\ k.shards = j.shards /\ k.rt = j.rt
  BY <1>1 DEF Fields
<1>3. \A t \in k.pool : Listed(k, t)
  <2>1. \A t \in k.pool : Listed(j, t)
    BY <1>2 DEF HeapOK
  <2> QED
    BY <1>2, <2>1 DEF Listed
<1>4. HeapOK(k, v, {})
  BY <1>2, <1>3 DEF HeapOK
<1> QED
  BY <1>2, <1>4

\* One tensor for the vector n.
LEMMA JoinOne ==
  ASSUME NEW k, NEW v, NEW n \in Vectors, NEW r, HeapOK(k, v, Elems(n)),
         r \in Rts, Len(r.parts) \in {1, Len(n)},
         \A i \in 1..Len(n) : Part(r, i) = v[n[i]],
         NEW h, h = FromRuntimeTensor(k, n, r)
  PROVE  /\ HeapOK(h, v, {}) /\ h.fault = k.fault
         /\ \A b \in Buffers \ Elems(n) : h.ref[b] = k.ref[b]
         /\ \A i \in 1..Len(n) : h.ref[n[i]] = n
         /\ n \in h.pool /\ h.rt[n] = r /\ h.shards[n] = n
         /\ \A t \in h.pool \ {n} : /\ t \in k.pool /\ h.rt[t] = k.rt[t]
                                    /\ Len(h.shards[t]) = Len(k.shards[t])
<1> DEFINE D == {n}
           rts == [m \in D |-> r]
           moved == Elems(n)
<1>1. h = FromRuntimeTensors(k, rts) /\ DOMAIN rts = D /\ D \in SUBSET Vectors
  BY DEF FromRuntimeTensor
<1>2. Apart(D, moved)
  BY DEF Apart
<1>3. NewOK(D, rts, v)
  <2>1. rts[n] = r
    OBVIOUS
  <2> HIDE DEF rts
  <2> QED
    BY <2>1 DEF NewOK
<1>4. rts[n] = r /\ n \in D /\ \A m \in D : m = n
  OBVIOUS
<1> HIDE DEF D, rts, moved
<1>5. /\ HeapOK(h, v, {}) /\ NewOrKept(k, h, moved, D, rts)
      /\ h.fault = k.fault
      /\ \A b \in Buffers \ moved : h.ref[b] = k.ref[b]
      /\ \A m \in D : \A i \in 1..Len(m) : h.ref[m[i]] = m
  <2>1. HeapOK(k, v, moved)
    BY DEF moved
  <2> QED
    BY <1>1, <1>2, <1>3, <2>1, Join
<1>6. \A i \in 1..Len(n) : h.ref[n[i]] = n
  BY <1>4, <1>5
<1>7. n \in h.pool
  <2>1. 1 \in 1..Len(n) /\ n[1] \in Buffers /\ n # null
    BY VectorFacts, Constants
  <2>2. h.ref[n[1]] = n
    BY <1>6, <2>1
  <2> QED
    BY <1>5, <2>1, <2>2, PoolFacts
<1>8. h.rt[n] = r /\ h.shards[n] = n
  BY <1>4, <1>5, <1>7 DEF NewOrKept
<1>9. \A t \in h.pool \ {n} : /\ t \in k.pool /\ h.rt[t] = k.rt[t]
                              /\ Len(h.shards[t]) = Len(k.shards[t])
  BY <1>4, <1>5 DEF NewOrKept
<1> QED
  BY <1>5, <1>6, <1>7, <1>8, <1>9 DEF moved

\* The heap k once the shards args of an argument share a tensor, on mesh s: only that tensor
\* may be a shared one on the host.
Grouped(k, v, s, p, args) ==
    /\ HeapOK(k, v, {}) /\ OnMesh(k, s)
    /\ p # "failed" => NoneStale(k)
    /\ k.ref[args[1]] \in k.pool
    /\ \A i \in 1..Len(args) : k.ref[args[i]] = k.ref[args[1]]
    /\ p # "codegen" => \A t \in k.pool \ {k.ref[args[1]]} :
                           k.rt[t].where = "host" => Len(k.shards[t]) = 1

\* from_pjrt_buffers.
LEMMA Group ==
  ASSUME NEW h, NEW v, HeapOK(h, v, {}), NEW s \in Shapes, NEW p, Fit(h, s, p),
         NEW args \in ShardVectors, Len(args) = NumDevices[s],
         \A i \in 1..Len(args) : h.ref[args[i]] # null,
         NEW st \in {"identity", "multi"},
         st = "identity" => \A i \in 1..Len(args) : v[args[i]] = v[args[1]],
         ~Regroup, WellGrouped(h, args),
         NEW k, k = FromPjrtBuffers(h, args, st)
  PROVE  /\ Grouped(k, v, s, p, args)
         /\ \A b \in Buffers : k.ref[b] # null <=> h.ref[b] # null
<1> DEFINE n == Len(args)
<1>1. /\ args \in Vectors /\ \A i \in 1..n : Device[args[i]] = i
  BY ShardVectorFacts
<1>2. n \in Nat /\ n > 0 /\ 1 \in 1..n /\ \A i \in 1..n : args[i] \in Buffers
  BY <1>1, VectorFacts
<1>3. CASE HaveSameTensor(h, args)
  <2>1. k = h
    BY <1>3 DEF FromPjrtBuffers
  <2>2. h.ref[args[1]] \in h.pool
    BY <1>2, PoolFacts
  <2>3. \A i \in 1..n : h.ref[args[i]] = h.ref[args[1]]
    BY <1>3 DEF HaveSameTensor
  <2>4. OnMesh(h, s) /\ (p # "failed" => NoneStale(h)) /\ (p # "codegen" => HostSingle(h))
    BY DEF Fit
  <2>5. Grouped(h, v, s, p, args)
    BY <2>2, <2>3, <2>4 DEF Grouped, HostSingle
  <2> QED
    BY <2>1, <2>5
<1>4. CASE ~HaveSameTensor(h, args)
  <2> DEFINE r == RtTensorFromStrategy(h, args, st)
             f == StrategyFault(h, args, st)
             j == FromRuntimeTensor(h, args, r)
  <2>1. k = [j EXCEPT !.fault = f]
    BY <1>4 DEF FromPjrtBuffers
  <2>2. \A i \in 1..n : Len(h.shards[h.ref[args[i]]]) = 1
    BY <1>4 DEF WellGrouped
  <2>3. OnMesh(h, s) /\ (p # "failed" => NoneStale(h)) /\ (p # "codegen" => HostSingle(h))
    BY DEF Fit
  <2>4. /\ r \in Rts /\ r.where # "device" /\ Len(r.parts) \in {1, n}
        /\ \A i \in 1..n : Part(r, i) = v[args[i]]
        /\ NoneStale(h) => r.where = "host" /\ f = "none"
    <3> HIDE DEF r
    <3> QED
      BY <1>4, <2>2, <2>3, Strategy DEF r
  <2> HIDE DEF r, f, j
  <2>5. \A i \in 1..n : \A b \in Buffers :
           h.ref[b] # null /\ h.ref[b][1] = args[i] => b = args[i]
    <3> SUFFICES ASSUME NEW i \in 1..n, NEW b \in Buffers, h.ref[b] # null,
                        h.ref[b][1] = args[i]
                 PROVE  b = args[i]
      OBVIOUS
    <3> DEFINE t == h.ref[b]
    <3>1. t \in h.pool /\ h.ref[t[1]] = t
      BY PoolFacts
    <3>2. Len(h.shards[t]) = 1
      BY <2>2, <3>1
    <3>3. PICK q \in 1..Len(h.shards[t]) : t[q] = b
      BY DEF HeapOK
    <3>4. q = 1
      BY <3>2, <3>3
    <3> QED
      BY <3>3, <3>4
  <2>6. HeapOK(h, v, Elems(args))
    <3>1. \A b \in Buffers \ Elems(args) : h.ref[b] # null => h.ref[b][1] \notin Elems(args)
      BY <2>5 DEF Elems
    <3> QED
      BY <3>1, Leave
  <2>7. /\ HeapOK(j, v, {}) /\ j.fault = h.fault
        /\ \A b \in Buffers \ Elems(args) : j.ref[b] = h.ref[b]
        /\ \A i \in 1..n : j.ref[args[i]] = args
        /\ args \in j.pool /\ j.rt[args] = r /\ j.shards[args] = args
        /\ \A t \in j.pool \ {args} : /\ t \in h.pool /\ j.rt[t] = h.rt[t]
                                      /\ Len(j.shards[t]) = Len(h.shards[t])
    BY <1>1, <2>4, <2>6, JoinOne DEF j
  <2>8. /\ HeapOK(k, v, {}) /\ k.fault = f
        /\ k.pool = j.pool /\ k.ref = j.ref /\ k.shards = j.shards /\ k.rt = j.rt
    BY <2>1, <2>7, Note
  <2>9. \A b \in Buffers : k.ref[b] # null <=> h.ref[b] # null
    <3>1. args # null
      BY <1>1, Constants
    <3>2. \A b \in Elems(args) : j.ref[b] = args /\ h.ref[b] # null
      BY <2>7 DEF Elems
    <3> QED
      BY <2>7, <2>8, <3>1, <3>2
  <2>10. OnMesh(k, s)
    <3> SUFFICES ASSUME NEW t \in k.pool,
                        \/ k.rt[t].where = "device"
                        \/ k.rt[t].where = "host" /\ Len(k.shards[t]) > 1
                 PROVE  s \in Shapes /\ Len(k.shards[t]) = NumDevices[s]
      BY DEF OnMesh
    <3>1. CASE t = args
      BY <2>7, <2>8, <3>1
    <3>2. CASE t # args
      BY <2>3, <2>7, <2>8, <3>2 DEF OnMesh
    <3> QED
      BY <3>1, <3>2
  <2>11. ASSUME p # "failed" PROVE NoneStale(k)
    <3>1. NoneStale(h) /\ r.where = "host" /\ f = "none"
      BY <2>3, <2>4, <2>11
    <3> QED
      BY <2>7, <2>8, <3>1 DEF NoneStale
  <2>12. k.ref[args[1]] = args /\ \A i \in 1..n : k.ref[args[i]] = k.ref[args[1]]
    BY <1>2, <2>7, <2>8
  <2>13. ASSUME p # "codegen"
         PROVE  \A t \in k.pool \ {args} : k.rt[t].where = "host" => Len(k.shards[t]) = 1
    BY <2>3, <2>7, <2>8, <2>13 DEF HostSingle
  <2>14. Grouped(k, v, s, p, args)
    BY <2>7, <2>8, <2>10, <2>11, <2>12, <2>13 DEF Grouped
  <2> QED
    BY <2>9, <2>14
<1> QED
  BY <1>3, <1>4

\* A program reads from the tensor of its argument what the buffers args hold.
ReadsArgs(h, v, args) ==
    LET r == h.rt[h.ref[args[1]]]
    IN  r.where # "stale" => Input(r, Len(args)) = [i \in 1..Len(args) |-> v[args[i]]]

\* ensure_layout: nothing but the tensor of the argument goes to the device.
LEMMA Layout ==
  ASSUME NEW h, NEW v, NEW s \in Shapes, NEW p, NEW args \in ShardVectors,
         Grouped(h, v, s, p, args), Len(args) = NumDevices[s],
         NEW k, k = EnsureLayout(h, h.ref[args[1]])
  PROVE  /\ HeapOK(k, v, {}) /\ Fit(k, s, p)
         /\ k.ref = h.ref /\ k.pool = h.pool /\ k.fault = h.fault
         /\ ReadsArgs(k, v, args)
<1> USE DEF ReadsArgs
<1> DEFINE n == Len(args)
           t == h.ref[args[1]]
<1>1. /\ HeapOK(h, v, {}) /\ OnMesh(h, s) /\ (p # "failed" => NoneStale(h))
      /\ t \in h.pool /\ \A i \in 1..n : h.ref[args[i]] = t
      /\ p # "codegen" => \A u \in h.pool \ {t} :
                             h.rt[u].where = "host" => Len(h.shards[u]) = 1
  BY DEF Grouped
<1>2. h.rt[t].where # "stale" => /\ Len(h.shards[t]) = n
                                 /\ Input(h.rt[t], n) = [i \in 1..n |-> v[args[i]]]
  <2>1. Share(h, args, t)
    BY <1>1 DEF Share
  <2> QED
    BY <1>1, <2>1, Shared
<1>3. CASE h.rt[t].where = "host"
  <2> DEFINE rt == [h.rt EXCEPT ![t].where = "device"]
  <2>1. k = [h EXCEPT !.rt = rt]
    BY <1>3 DEF EnsureLayout
  <2>2. Fields(h) /\ h.rt \in [h.pool -> Rts]
    BY <1>1 DEF HeapOK
  <2>3. /\ rt \in [h.pool -> Rts] /\ rt[t].where = "device" /\ rt[t].parts = h.rt[t].parts
        /\ \A u \in h.pool \ {t} : rt[u] = h.rt[u]
    <3>1. rt = [u \in h.pool |-> IF u = t THEN [h.rt[t] EXCEPT !.where = "device"] ELSE h.rt[u]]
      BY <2>2
    <3>2. h.rt[t] \in Rts
      BY <1>1, <2>2
    <3>3. LET x == [h.rt[t] EXCEPT !.where = "device"]
          IN  x \in Rts /\ x.where = "device" /\ x.parts = h.rt[t].parts
      BY <3>2 DEF Rts
    <3> QED
      BY <1>1, <2>2, <3>1, <3>3
  <2> HIDE DEF rt
  <2>4. /\ Fields(k) /\ k.ref = h.ref /\ k.pool = h.pool /\ k.fault = h.fault
        /\ k.shards = h.shards /\ k.rt = rt
    BY <2>1, <2>2 DEF Fields
  <2>5. \A u \in h.pool : k.rt[u].parts = h.rt[u].parts
    BY <2>3, <2>4
  <2>6. \A u \in k.pool : Listed(k, u)
    <3>1. \A u \in k.pool : Listed(h, u)
      BY <1>1, <2>4 DEF HeapOK
    <3> QED
      BY <2>4, <2>5, <3>1, SMTT(40) DEF Listed
  <2>7. \A u \in k.pool : \A i \in 1..Len(k.shards[u]) : Part(k.rt[u], i) = Part(h.rt[u], i)
    BY <2>4, <2>5 DEF Part
  <2>8. HeapOK(k, v, {})
    BY <1>1, <2>3, <2>4, <2>6, <2>7 DEF HeapOK
  <2>9. OnMesh(k, s)
    <3> SUFFICES ASSUME NEW u \in k.pool,
                        \/ k.rt[u].where = "device"
                        \/ k.rt[u].where = "host" /\ Len(k.shards[u]) > 1
                 PROVE  s \in Shapes /\ Len(k.shards[u]) = NumDevices[s]
      BY DEF OnMesh
    <3>1. CASE u = t
      BY <1>2, <1>3, <2>4, <3>1
    <3>2. CASE u # t
      BY <1>1, <2>3, <2>4, <3>2 DEF OnMesh
    <3> QED
      BY <3>1, <3>2
  <2>10. p # "codegen" => HostSingle(k)
    BY <1>1, <2>3, <2>4 DEF HostSingle
  <2>11. p # "failed" => NoneStale(k)
    BY <1>1, <2>3, <2>4 DEF NoneStale
  <2>12. Fit(k, s, p)
    BY <2>9, <2>10, <2>11 DEF Fit
  <2>13. k.ref[args[1]] = t /\ Input(k.rt[t], n) = Input(h.rt[t], n)
    BY <1>1, <2>4, <2>5 DEF Input
  <2> QED
    BY <1>2, <1>3, <2>4, <2>8, <2>12, <2>13
<1>4. CASE h.rt[t].where # "host"
  <2>1. k = h
    BY <1>4 DEF EnsureLayout
  <2>2. p # "codegen" => HostSingle(h)
    BY <1>1, <1>4 DEF HostSingle
  <2>3. Fit(h, s, p)
    BY <1>1, <2>2 DEF Fit
  <2> QED
    BY <1>1, <1>2, <2>1, <2>3
<1> QED
  BY <1>3, <1>4

-----------------------------------------------------------------------------
(* The calls.                                                               *)

\* Buffers that do not exist yet are nobody's first shard, so they may join a tensor.
LEMMA Arrive ==
  ASSUME NEW h, NEW v, NEW w, NEW out \in SUBSET Buffers, HeapOK(h, v, {}),
         \A b \in out : h.ref[b] = null,
         \A b \in Buffers \ out : w[b] = v[b]
  PROVE  HeapOK(h, w, out)
<1>1. \A b \in Buffers \ out : h.ref[b] # null => h.ref[b][1] \notin out
  <2> SUFFICES ASSUME NEW b \in Buffers \ out, h.ref[b] # null, h.ref[b][1] \in out
               PROVE  FALSE
    OBVIOUS
  <2>1. h.ref[h.ref[b][1]] = h.ref[b]
    BY PoolFacts
  <2> QED
    BY <2>1
<1> QED
  BY <1>1, Leave

\* The runtime tensor r holds what the new buffers of n are to hold according to w, which
\* agrees with v on the others.
Arriving(h, v, w, n, r) ==
    /\ \A i \in 1..Len(n) : h.ref[n[i]] = null
    /\ \A b \in Buffers \ Elems(n) : w[b] = v[b]
    /\ Len(r.parts) \in {1, Len(n)}
    /\ \A i \in 1..Len(n) : Part(r, i) = w[n[i]]

\* The runtime tensor of one buffer is on the host, or it is on mesh m with one shard per device.
Placed(r, n, m) ==
    \/ r.where = "host" /\ Len(n) = 1
    \/ r.where = "device" /\ m \in Shapes /\ Len(n) = NumDevices[m]

\* A tensor for new buffers: a single one on the host, or one per device of the mesh.
LEMMA Add ==
  ASSUME NEW h, NEW v, NEW w, NEW m, NEW p, HeapOK(h, v, {}), Fit(h, m, p),
         NEW n \in Vectors, NEW r \in Rts, Arriving(h, v, w, n, r), Placed(r, n, m),
         NEW k, k = FromRuntimeTensor(h, n, r)
  PROVE  /\ HeapOK(k, w, {}) /\ Fit(k, m, p)
         /\ \A b \in Buffers : k.ref[b] # null <=> h.ref[b] # null \/ b \in Elems(n)
<1> USE DEF Arriving, Placed
<1>1. Elems(n) \in SUBSET Buffers /\ n # null
  BY VectorFacts, Constants
<1>2. \A b \in Elems(n) : h.ref[b] = null
  BY DEF Elems
<1>3. HeapOK(h, w, Elems(n))
  BY <1>1, <1>2, Arrive
<1>4. /\ HeapOK(k, w, {}) /\ k.fault = h.fault
      /\ \A b \in Buffers \ Elems(n) : k.ref[b] = h.ref[b]
      /\ \A i \in 1..Len(n) : k.ref[n[i]] = n
      /\ n \in k.pool /\ k.rt[n] = r /\ k.shards[n] = n
      /\ \A t \in k.pool \ {n} : /\ t \in h.pool /\ k.rt[t] = h.rt[t]
                                 /\ Len(k.shards[t]) = Len(h.shards[t])
  BY <1>3, JoinOne
<1>5. \A b \in Elems(n) : k.ref[b] = n
  BY <1>4 DEF Elems
<1>6. OnMesh(k, m)
  <2> SUFFICES ASSUME NEW t \in k.pool,
                      \/ k.rt[t].where = "device"
                      \/ k.rt[t].where = "host" /\ Len(k.shards[t]) > 1
               PROVE  m \in Shapes /\ Len(k.shards[t]) = NumDevices[m]
    BY DEF OnMesh
  <2>1. CASE t = n
    <3>1. k.rt[t] = r /\ k.shards[t] = n
      BY <1>4, <2>1
    <3>2. CASE r.where = "host" /\ Len(n) = 1
      <4>1. ~(Len(n) > 1)
        BY <3>2
      <4> QED
        BY <3>1, <3>2, <4>1
    <3>3. CASE r.where = "device" /\ m \in Shapes /\ Len(n) = NumDevices[m]
      BY <3>1, <3>3
    <3> QED
      BY <3>2, <3>3
  <2>2. CASE t # n
    BY <1>4, <2>2 DEF Fit, OnMesh
  <2> QED
    BY <2>1, <2>2
<1>7. p # "codegen" => HostSingle(k)
  BY <1>4 DEF Fit, HostSingle
<1>8. p # "failed" => NoneStale(k)
  BY <1>4 DEF Fit, NoneStale
<1>9. Fit(k, m, p)
  BY <1>6, <1>7, <1>8 DEF Fit
<1> QED
  BY <1>1, <1>4, <1>5, <1>9

\* move_to_host keeps the rest of the invariant.
LEMMA SplitFit ==
  ASSUME NEW h, NEW v, NEW m, NEW p, HeapOK(h, v, {}), Fit(h, m, p),
         NEW b \in Buffers, h.ref[b] # null,
         NEW k, k = MoveToHost(h, {h.ref[b]})
  PROVE  /\ HeapOK(k, v, {}) /\ Fit(k, m, p)
         /\ \A c \in Buffers : k.ref[c] # null <=> h.ref[c] # null
         /\ k.rt[k.ref[b]].parts = <<v[b]>> /\ v[b] \in Values
<1> DEFINE ts == {h.ref[b]}
<1>1. ts \in SUBSET h.pool
  BY PoolFacts
<1>2. /\ HeapOK(k, v, {})
      /\ \A c \in Buffers : k.ref[c] # null <=> h.ref[c] # null
      /\ k.fault = IF \E t \in ts : h.rt[t].where = "stale" THEN "stale" ELSE h.fault
      /\ \A t \in k.pool :
            \/ k.rt[t].where = "host" /\ Len(k.shards[t]) = 1
            \/ t \in h.pool \ ts /\ k.rt[t] = h.rt[t] /\ Len(k.shards[t]) = Len(h.shards[t])
      /\ k.rt[k.ref[b]].where = "host" /\ Len(k.shards[k.ref[b]]) = 1
  <2>1. h.ref[b] \in ts
    OBVIOUS
  <2> HIDE DEF ts
  <2> DEFINE j == MoveToHost(h, ts)
  <2>2. /\ HeapOK(j, v, {})
        /\ \A c \in Buffers : j.ref[c] # null <=> h.ref[c] # null
        /\ j.fault = IF \E t \in ts : h.rt[t].where = "stale" THEN "stale" ELSE h.fault
        /\ \A t \in j.pool :
              \/ j.rt[t].where = "host" /\ Len(j.shards[t]) = 1
              \/ t \in h.pool \ ts /\ j.rt[t] = h.rt[t] /\ Len(j.shards[t]) = Len(h.shards[t])
        /\ j.rt[j.ref[b]].where = "host" /\ Len(j.shards[j.ref[b]]) = 1
    BY <1>1, <2>1, Split
  <2>3. k = j
    BY DEF ts
  <2> HIDE DEF j
  <2> QED
    BY <2>2, <2>3
<1> HIDE DEF ts
<1>3. OnMesh(k, m)
  <2> SUFFICES ASSUME NEW t \in k.pool,
                      \/ k.rt[t].where = "device"
                      \/ k.rt[t].where = "host" /\ Len(k.shards[t]) > 1
               PROVE  m \in Shapes /\ Len(k.shards[t]) = NumDevices[m]
    BY DEF OnMesh
  <2>1. CASE k.rt[t].where = "host" /\ Len(k.shards[t]) = 1
    <3> DEFINE n == Len(k.shards[t])
    <3>1. n = 1
      BY <2>1
    <3> HIDE DEF n
    <3>2. ~(n > 1)
      BY <3>1
    <3> QED
      BY <2>1, <3>2 DEF n
  <2>2. CASE t \in h.pool \ ts /\ k.rt[t] = h.rt[t] /\ Len(k.shards[t]) = Len(h.shards[t])
    BY <2>2 DEF Fit, OnMesh
  <2> QED
    BY <1>2, <2>1, <2>2
<1>4. p # "codegen" => HostSingle(k)
  BY <1>2 DEF Fit, HostSingle
<1>5. p # "failed" => NoneStale(k)
  BY <1>1, <1>2 DEF Fit, NoneStale
<1>6. k.rt[k.ref[b]].parts = <<v[b]>> /\ v[b] \in Values
  <2> DEFINE q == k.rt[k.ref[b]]
  <2>1. k.ref[b] # null
    BY <1>2
  <2>2. k.ref[b] \in k.pool /\ Part(q, Position(k, b)) = v[b] /\ Part(q, Position(k, b)) \in Values
    BY <1>2, <2>1, PositionFacts
  <2>3. q.parts \in Seq(Values) /\ Len(q.parts) \in {1, Len(k.shards[k.ref[b]])}
    BY <1>2, <2>2, PoolFacts
  <2>4. Len(q.parts) = 1
    BY <1>2, <2>3
  <2>5. q.parts[1] = v[b]
    BY <2>2, <2>4 DEF Part
  <2> DEFINE ps == q.parts
  <2>6. ps \in Seq(Values) /\ Len(ps) = 1 /\ ps[1] = v[b]
    BY <2>3, <2>4, <2>5
  <2> HIDE DEF ps
  <2>7. ps = <<v[b]>>
    BY <2>6
  <2> QED
    BY <2>2, <2>7 DEF ps
<1> QED
  BY <1>2, <1>3, <1>4, <1>5, <1>6 DEF Fit

\* The heap of a call that got the mesh and the tensor of its argument.
LEMMA Ready ==
  ASSUME RuntimeInv, ~Regroup, ~IdentityMayDiffer, NEW s \in Shapes, NEW args \in ShardVectors,
         NEW st \in {"identity", "multi"}, MayExecute(s, args, st)
  PROVE  LET h == FromPjrtBuffers(GetOrCreateMesh(heap, s), args, st)
         IN  /\ Grouped(h, val, s, past, args) /\ Len(args) = NumDevices[s]
             /\ \A b \in Buffers : h.ref[b] # null <=> val[b] # null
<1> DEFINE g == GetOrCreateMesh(heap, s)
           h == FromPjrtBuffers(g, args, st)
<1>1. /\ Len(args) = NumDevices[s] /\ \A i \in 1..Len(args) : val[args[i]] # null
      /\ WellGrouped(g, args) /\ st \in Strategies(args)
  BY DEF MayExecute, Argument, Exists
<1>2. /\ HeapOK(g, val, {}) /\ Fit(g, s, past)
      /\ \A b \in Buffers : g.ref[b] # null <=> heap.ref[b] # null
  BY Mesh DEF RuntimeInv
<1>3. \A b \in Buffers : g.ref[b] # null <=> val[b] # null
  BY <1>2 DEF RuntimeInv
<1>4. \A i \in 1..Len(args) : g.ref[args[i]] # null
  BY <1>1, <1>3, ShardVectorFacts, VectorFacts
<1>5. st = "identity" => \A i \in 1..Len(args) : val[args[i]] = val[args[1]]
  <2>1. Len(args) = 1 => \A i \in 1..Len(args) : val[args[i]] = val[args[1]]
    OBVIOUS
  <2>2. Len(args) # 1 => (st = "identity" => "Identity" \in Shardings(args))
    BY <1>1 DEF Strategies, FillStrategyMap, Shardings
  <2>3. "Identity" \in Shardings(args)
           => \A i \in 1..Len(args) : val[args[i]] = val[args[1]]
    BY DEF Shardings
  <2> QED
    BY <2>1, <2>2, <2>3
<1> HIDE DEF g, h
<1>6. /\ Grouped(h, val, s, past, args)
      /\ \A b \in Buffers : h.ref[b] # null <=> g.ref[b] # null
  <2>1. h = FromPjrtBuffers(g, args, st)
    BY DEF h
  <2> QED
    BY <1>1, <1>2, <1>4, <1>5, <2>1, Group
<1> QED
  BY <1>1, <1>3, <1>6 DEF g, h

\* The heap of a call that may submit.
LEMMA Submittable ==
  ASSUME RuntimeInv, ~Regroup, ~IdentityMayDiffer, NEW s \in Shapes, NEW args \in ShardVectors,
         NEW st \in {"identity", "multi"}, MayExecute(s, args, st)
  PROVE  LET h == Prepare(s, args, st)
         IN  /\ HeapOK(h, val, {}) /\ Fit(h, s, past) /\ ReadsArgs(h, val, args)
             /\ \A b \in Buffers : h.ref[b] # null <=> val[b] # null
<1> DEFINE g == FromPjrtBuffers(GetOrCreateMesh(heap, s), args, st)
           h == Prepare(s, args, st)
<1>1. /\ Grouped(g, val, s, past, args) /\ Len(args) = NumDevices[s]
      /\ \A b \in Buffers : g.ref[b] # null <=> val[b] # null
  BY Ready
<1>2. h = EnsureLayout(g, g.ref[args[1]])
  BY DEF Prepare
<1> HIDE DEF g, h
<1>3. HeapOK(h, val, {}) /\ Fit(h, s, past) /\ h.ref = g.ref /\ ReadsArgs(h, val, args)
  BY <1>1, <1>2, Layout
<1> QED
  BY <1>1, <1>3 DEF h

\* The empty heap of a new client.
LEMMA InitInv ==
  ASSUME Init PROVE RuntimeInv
<1>1. /\ heap = EmptyHeap /\ val = [b \in Buffers |-> null] /\ mesh = InitialShape
      /\ seen = [got |-> <<>>, want |-> <<>>] /\ past = "clean"
  BY DEF Init
<1>2. /\ Fields(heap) /\ heap.pool = {} /\ heap.ref = [b \in Buffers |-> null]
      /\ heap.rt = <<>> /\ heap.fault = "none"
  BY <1>1 DEF EmptyHeap, Fields
<1>3. heap.pool = Referenced(heap.ref)
  BY <1>2 DEF Referenced
<1>4. heap.rt \in [heap.pool -> Rts]
  BY <1>2
<1>5. HeapOK(heap, val, {})
  BY <1>1, <1>2, <1>3, <1>4 DEF HeapOK
<1>6. Fit(heap, mesh, past)
  BY <1>2 DEF Fit, OnMesh, HostSingle, NoneStale
<1>7. mesh \in Shapes /\ mesh # NoMesh
  BY <1>1, Constants
<1> QED
  BY <1>1, <1>2, <1>5, <1>6, <1>7 DEF RuntimeInv

\* A new buffer gets a host tensor of its own.
LEMMA CopyFromHostInv ==
  ASSUME RuntimeInv, NEW b \in Buffers, NEW x \in Values, CopyFromHost(b, x)
  PROVE  RuntimeInv'
<1> DEFINE n == <<b>>
           ps == <<x>>
           r == OnHost(ps)
<1>1. n \in Vectors /\ Len(n) = 1 /\ n[1] = b /\ Elems(n) = {b}
  BY SingleVector
<1>2. ps \in Seq(Values) /\ Len(ps) = 1 /\ ps[1] = x
  OBVIOUS
<1>3. heap' = FromRuntimeTensor(heap, n, r) /\ val' = [val EXCEPT ![b] = x]
      /\ mesh' = mesh /\ seen' = seen /\ past' = past /\ val[b] = null
  BY DEF CopyFromHost, Exists
<1> HIDE DEF n, ps
<1>4. r \in Rts /\ r.where = "host" /\ r.parts = ps
  BY <1>2 DEF OnHost, Rts
<1>5. Part(r, 1) = x
  BY <1>2, <1>4 DEF Part
<1> HIDE DEF r
<1>6. /\ val' \in [Buffers -> Values \cup {null}] /\ val'[b] = x /\ x # null
      /\ \A c \in Buffers \ {b} : val'[c] = val[c]
  BY <1>3, Constants DEF RuntimeInv
<1>7. \A i \in 1..Len(n) : heap.ref[n[i]] = null /\ Part(r, i) = val'[n[i]]
  <2>1. \A i \in 1..Len(n) : i = 1
    BY <1>1
  <2>2. heap.ref[b] = null
    BY <1>3 DEF RuntimeInv
  <2> QED
    BY <1>1, <1>5, <1>6, <2>1, <2>2
<1>8. /\ HeapOK(heap', val', {}) /\ Fit(heap', mesh, past)
      /\ \A c \in Buffers : heap'.ref[c] # null <=> heap.ref[c] # null \/ c \in Elems(n)
  <2>1. HeapOK(heap, val, {}) /\ Fit(heap, mesh, past)
    BY DEF RuntimeInv
  <2>2. \A c \in Buffers \ Elems(n) : val'[c] = val[c]
    BY <1>1, <1>6
  <2>3. Len(r.parts) \in {1, Len(n)}
    BY <1>2, <1>4
  <2>4. Arriving(heap, val, val', n, r) /\ Placed(r, n, mesh)
    BY <1>1, <1>4, <1>7, <2>2, <2>3 DEF Arriving, Placed
  <2>5. n \in Vectors /\ r \in Rts /\ heap' = FromRuntimeTensor(heap, n, r)
    BY <1>1, <1>3, <1>4
  <2> QED
    BY <2>1, <2>4, <2>5, Add
<1> QED
  BY <1>1, <1>3, <1>6, <1>8 DEF RuntimeInv

\* The tensor is split, and the part that is read is the one of this buffer.
LEMMA CopyToHostInv ==
  ASSUME RuntimeInv, NEW b \in Buffers, CopyToHost(b)
  PROVE  RuntimeInv'
<1>1. /\ heap' = MoveToHost(heap, {heap.ref[b]})
      /\ seen' = [got |-> heap'.rt[heap'.ref[b]].parts, want |-> <<val[b]>>]
      /\ val' = val /\ mesh' = mesh /\ past' = past /\ val[b] # null
  BY DEF CopyToHost, Exists
<1>2. HeapOK(heap, val, {}) /\ Fit(heap, mesh, past) /\ heap.ref[b] # null
  BY <1>1 DEF RuntimeInv
<1> DEFINE k == MoveToHost(heap, {heap.ref[b]})
<1>3. /\ HeapOK(k, val, {}) /\ Fit(k, mesh, past)
      /\ \A c \in Buffers : k.ref[c] # null <=> heap.ref[c] # null
      /\ k.rt[k.ref[b]].parts = <<val[b]>>
  BY <1>2, SplitFit
<1> HIDE DEF k
<1>4. heap' = k
  BY <1>1 DEF k
<1>5. seen'.got = seen'.want
  BY <1>1, <1>3, <1>4
<1> QED
  BY <1>1, <1>3, <1>4, <1>5 DEF RuntimeInv

\* The tensor of the source is split; the new buffer gets a copy of its part.
LEMMA CopyToDeviceMemoryInv ==
  ASSUME RuntimeInv, NEW src \in Buffers, NEW dst \in Buffers, CopyToDeviceMemory(src, dst)
  PROVE  RuntimeInv'
<1> DEFINE h == MoveToHost(heap, {heap.ref[src]})
           n == <<dst>>
           ps == h.rt[h.ref[src]].parts
           r == OnHost(ps)
<1>1. /\ heap' = FromRuntimeTensor(h, n, r) /\ val' = [val EXCEPT ![dst] = val[src]]
      /\ mesh' = mesh /\ seen' = seen /\ past' = past /\ val[src] # null /\ val[dst] = null
  BY DEF CopyToDeviceMemory, Exists
<1>2. n \in Vectors /\ Len(n) = 1 /\ n[1] = dst /\ Elems(n) = {dst}
  BY SingleVector
<1>3. HeapOK(heap, val, {}) /\ Fit(heap, mesh, past) /\ heap.ref[src] # null
      /\ heap.ref[dst] = null
  BY <1>1 DEF RuntimeInv
<1>4. /\ HeapOK(h, val, {}) /\ Fit(h, mesh, past)
      /\ \A c \in Buffers : h.ref[c] # null <=> heap.ref[c] # null
      /\ ps = <<val[src]>> /\ val[src] \in Values
  BY <1>3, SplitFit
<1> HIDE DEF h, n, ps
<1>5. ps \in Seq(Values) /\ Len(ps) = 1 /\ ps[1] = val[src]
  BY <1>4
<1>6. r \in Rts /\ r.where = "host" /\ r.parts = ps
  BY <1>5 DEF OnHost, Rts
<1>7. Part(r, 1) = val[src]
  BY <1>5, <1>6 DEF Part
<1> HIDE DEF r
<1>8. /\ val' \in [Buffers -> Values \cup {null}] /\ val'[dst] = val[src]
      /\ \A c \in Buffers \ {dst} : val'[c] = val[c]
  BY <1>1, <1>4 DEF RuntimeInv
<1>9. \A i \in 1..Len(n) : h.ref[n[i]] = null /\ Part(r, i) = val'[n[i]]
  <2>1. \A i \in 1..Len(n) : i = 1
    BY <1>2
  <2>2. h.ref[dst] = null
    BY <1>3, <1>4
  <2> QED
    BY <1>2, <1>7, <1>8, <2>1, <2>2
<1>10. /\ HeapOK(heap', val', {}) /\ Fit(heap', mesh, past)
       /\ \A c \in Buffers : heap'.ref[c] # null <=> h.ref[c] # null \/ c \in Elems(n)
  <2>1. \A c \in Buffers \ Elems(n) : val'[c] = val[c]
    BY <1>2, <1>8
  <2>2. Len(r.parts) \in {1, Len(n)}
    BY <1>5, <1>6
  <2>3. Arriving(h, val, val', n, r) /\ Placed(r, n, mesh)
    BY <1>2, <1>6, <1>9, <2>1, <2>2 DEF Arriving, Placed
  <2> QED
    BY <1>1, <1>2, <1>4, <1>6, <2>3, Add
<1> QED
  BY <1>1, <1>2, <1>4, <1>8, <1>10 DEF RuntimeInv

\* A buffer that goes leaves a hole in m_shards, or takes its tensor with it.
LEMMA DestroyBufferInv ==
  ASSUME RuntimeInv, ~LeadMayDie, NEW b \in Buffers, DestroyBuffer(b)
  PROVE  RuntimeInv'
<1> DEFINE s == heap.shards[heap.ref[b]]
<1>1. /\ heap' = DropRef(heap, b) /\ val' = [val EXCEPT ![b] = null]
      /\ mesh' = mesh /\ seen' = seen /\ past' = past /\ val[b] # null
      /\ s[1] # b \/ \A i \in 2..Len(s) : s[i] = null
  BY DEF DestroyBuffer, Exists
<1>2. HeapOK(heap, val, {}) /\ Fit(heap, mesh, past)
  BY DEF RuntimeInv
<1>3. ASSUME NEW c \in Buffers, heap.ref[c] # null, heap.ref[c][1] = b PROVE c = b
  <2> DEFINE t == heap.ref[c]
  <2>1. t \in heap.pool /\ heap.ref[t[1]] = t /\ heap.shards[t][1] = t[1]
    BY <1>2, <1>3, PoolFacts
  <2>2. heap.ref[b] = t /\ s[1] = b /\ s = heap.shards[t]
    BY <1>3, <2>1
  <2> DEFINE q == Position(heap, c)
  <2>3. q \in 1..Len(s) /\ s[q] = c
    BY <1>2, <1>3, <2>2, PositionFacts
  <2>4. Len(s) \in Nat
    BY <1>2, <2>1, <2>2, PoolFacts
  <2> HIDE DEF q, s
  <2>5. q = 1 \/ q \in 2..Len(s)
    BY <2>3, <2>4
  <2>6. c # null
    BY Constants
  <2> QED
    BY <1>1, <2>2, <2>3, <2>5, <2>6
<1>4. /\ val' \in [Buffers -> Values \cup {null}] /\ val'[b] = null
      /\ \A c \in Buffers \ {b} : val'[c] = val[c]
  BY <1>1 DEF RuntimeInv
<1> DEFINE k == DropRef(heap, b)
<1>5. /\ HeapOK(k, val', {}) /\ k.fault = heap.fault
      /\ k.ref[b] = null /\ \A c \in Buffers \ {b} : k.ref[c] = heap.ref[c]
      /\ \A t \in k.pool : /\ t \in heap.pool /\ k.rt[t] = heap.rt[t]
                           /\ Len(k.shards[t]) = Len(heap.shards[t])
  BY <1>2, <1>3, <1>4, Drop
<1>6. heap' = k
  BY <1>1
<1> HIDE DEF k
<1>7. Fit(k, mesh, past)
  <2>1. OnMesh(k, mesh)
    BY <1>2, <1>5 DEF Fit, OnMesh
  <2>2. past # "codegen" => HostSingle(k)
    BY <1>2, <1>5 DEF Fit, HostSingle
  <2>3. past # "failed" => NoneStale(k)
    BY <1>2, <1>5 DEF Fit, NoneStale
  <2> QED
    BY <2>1, <2>2, <2>3 DEF Fit
<1> QED
  BY <1>1, <1>4, <1>5, <1>6, <1>7 DEF RuntimeInv

\* The optimizer may reshape the mesh.
LEMMA CompileInv ==
  ASSUME RuntimeInv, NEW s \in Shapes, NEW o \in BOOLEAN, Compile(s, o)
  PROVE  RuntimeInv'
<1>1. /\ heap' = GetOrCreateMesh(heap, s) /\ mesh' = s
      /\ val' = val /\ seen' = seen /\ past' = past
  BY DEF Compile
<1> DEFINE k == GetOrCreateMesh(heap, s)
<1>2. /\ HeapOK(k, val, {}) /\ Fit(k, s, past)
      /\ \A b \in Buffers : k.ref[b] # null <=> heap.ref[b] # null
  BY Mesh DEF RuntimeInv
<1>3. heap' = k /\ s # NoMesh
  BY <1>1, Constants
<1> HIDE DEF k
<1> QED
  BY <1>1, <1>2, <1>3 DEF RuntimeInv

\* The contents of an output.
LEMMA OutputFacts ==
  ASSUME NEW s \in Shapes, NEW outs \in ShardVectors, Len(outs) = NumDevices[s],
         NEW parts \in Outputs(NumDevices[s]),
         NEW r, r.parts = parts
  PROVE  /\ parts \in Seq(Values) /\ Len(parts) \in {1, Len(outs)}
         /\ \A i \in 1..Len(outs) : Device[outs[i]] = i /\ Part(r, i) \in Values
<1>1. NumDevices[s] \in Nat \ {0}
  BY Constants
<1>2. parts \in [1..NumDevices[s] -> Values] \/ parts \in [1..1 -> Values]
  BY DEF Outputs
<1>3. parts \in Seq(Values) /\ Len(parts) \in {1, Len(outs)}
  <2>1. ASSUME NEW d \in Nat, parts \in [1..d -> Values]
        PROVE  parts \in Seq(Values) /\ Len(parts) = d
    BY <2>1
  <2>2. CASE parts \in [1..NumDevices[s] -> Values]
    BY <1>1, <2>1, <2>2
  <2>3. CASE parts \in [1..1 -> Values]
    <3>1. 1 \in Nat
      OBVIOUS
    <3>2. parts \in Seq(Values) /\ Len(parts) = 1
      BY <2>1, <2>3, <3>1, Zenon
    <3> QED
      BY <3>2
  <2> QED
    BY <1>2, <2>2, <2>3
<1>4. \A i \in 1..Len(outs) : Part(r, i) \in Values
  <2> SUFFICES ASSUME NEW i \in 1..Len(outs) PROVE Part(r, i) \in Values
    OBVIOUS
  <2>1. CASE Len(parts) = 1
    <3>1. \A x \in Seq(Values) : Len(x) = 1 => x[1] \in Values
      OBVIOUS
    <3> QED
      BY <1>3, <2>1, <3>1, Zenon DEF Part
  <2>2. CASE Len(parts) # 1
    <3>1. i \in 1..Len(parts)
      BY <1>3, <2>2
    <3> QED
      BY <1>3, <2>2, <3>1 DEF Part
  <2> QED
    BY <2>1, <2>2
<1> QED
  BY <1>3, <1>4, ShardVectorFacts

\* The buffers hold w after those of outs got their parts of r; before, they held v.
Stored(w, v, outs, r) ==
    w = [b \in Buffers |-> IF b \in Elems(outs) THEN Part(r, Device[b]) ELSE v[b]]

\* What the buffers hold, w, after those of outs got the contents of an output.
LEMMA OutputVal ==
  ASSUME NEW s \in Shapes, NEW outs \in ShardVectors, Len(outs) = NumDevices[s],
         NEW parts \in Outputs(NumDevices[s]), NEW r, r.parts = parts,
         NEW v \in [Buffers -> Values \cup {null}], NEW w,
         Stored(w, v, outs, r)
  PROVE  /\ \A i \in 1..Len(outs) : Part(r, i) = w[outs[i]]
         /\ \A b \in Elems(outs) : /\ b \in Buffers /\ w[b] = Part(r, Device[b])
                                   /\ w[b] \in Values /\ w[b] # null
         /\ \A b \in Buffers \ Elems(outs) : w[b] = v[b]
         /\ w \in [Buffers -> Values \cup {null}]
<1> USE DEF Stored
<1>1. \A i \in 1..Len(outs) : Device[outs[i]] = i /\ Part(r, i) \in Values
  BY OutputFacts
<1>2. /\ outs \in Vectors
      /\ \A i \in 1..Len(outs) : outs[i] \in Buffers
      /\ \A b : b \in Elems(outs) <=> \E i \in 1..Len(outs) : outs[i] = b
  BY ShardVectorFacts, VectorFacts
<1>3. ASSUME NEW i \in 1..Len(outs)
      PROVE  Part(r, i) = w[outs[i]] /\ w[outs[i]] \in Values /\ outs[i] \in Buffers
  <2>1. outs[i] \in Buffers /\ outs[i] \in Elems(outs)
    BY <1>2
  <2>2. w[outs[i]] = Part(r, Device[outs[i]])
    BY <2>1
  <2>3. Device[outs[i]] = i /\ Part(r, i) \in Values
    BY <1>1
  <2> QED
    BY <2>1, <2>2, <2>3
<1>4. ASSUME NEW b \in Elems(outs)
      PROVE  b \in Buffers /\ w[b] = Part(r, Device[b]) /\ w[b] \in Values /\ w[b] # null
  <2>1. PICK i \in 1..Len(outs) : outs[i] = b
    BY <1>2, Zenon
  <2>2. w[b] \in Values /\ b \in Buffers
    BY <1>3, <2>1
  <2> QED
    BY <2>2, Constants
<1>5. \A b \in Buffers \ Elems(outs) : w[b] = v[b]
  OBVIOUS
<1>6. w \in [Buffers -> Values \cup {null}]
  <2>1. \A b \in Buffers : w[b] \in Values \cup {null}
    BY <1>4, <1>5
  <2>2. w = [b \in Buffers |-> w[b]]
    OBVIOUS
  <2> QED
    BY <2>1, <2>2
<1> QED
  BY <1>3, <1>4, <1>5, <1>6

\* A program reads what its argument holds; its outputs share a tensor on the mesh.
LEMMA ExecuteInv ==
  ASSUME RuntimeInv, ~Regroup, ~IdentityMayDiffer, NEW s \in Shapes, NEW args \in ShardVectors,
         NEW st \in {"identity", "multi"}, NEW outs \in ShardVectors,
         NEW parts \in Outputs(NumDevices[s]), Execute(s, args, st, outs, parts)
  PROVE  RuntimeInv'
<1> DEFINE h == Prepare(s, args, st)
           q == h.rt[h.ref[args[1]]]
           r == OnDevice(parts)
<1>1. /\ Len(outs) = NumDevices[s] /\ \A i \in 1..Len(outs) : val[outs[i]] = null
      /\ MayExecute(s, args, st) /\ q.where # "stale"
      /\ seen' = [got |-> Input(q, Len(args)), want |-> [i \in 1..Len(args) |-> val[args[i]]]]
      /\ heap' = FromRuntimeTensor(h, outs, r)
      /\ val' = [b \in Buffers |-> IF b \in Elems(outs) THEN Part(r, Device[b]) ELSE val[b]]
      /\ mesh' = s /\ past' = past
  BY DEF Execute, FreshOutputs, Exists, Allocated
<1>2. /\ HeapOK(h, val, {}) /\ Fit(h, s, past) /\ ReadsArgs(h, val, args)
      /\ \A b \in Buffers : h.ref[b] # null <=> val[b] # null
  BY <1>1, Submittable
<1>3. seen'.got = seen'.want
  BY <1>1, <1>2 DEF ReadsArgs
<1> HIDE DEF h, q
<1>4. r.parts = parts /\ r.where = "device"
  BY DEF OnDevice
<1>5. /\ parts \in Seq(Values) /\ Len(parts) \in {1, Len(outs)}
      /\ \A i \in 1..Len(outs) : Device[outs[i]] = i /\ Part(r, i) \in Values
  BY <1>1, <1>4, OutputFacts, SMTT(40)
<1>6. r \in Rts
  BY <1>5 DEF OnDevice, Rts
<1> HIDE DEF r
<1>7. /\ outs \in Vectors
      /\ \A i \in 1..Len(outs) : outs[i] \in Buffers
      /\ \A b : b \in Elems(outs) <=> \E i \in 1..Len(outs) : outs[i] = b
  BY ShardVectorFacts, VectorFacts
<1>8. /\ \A i \in 1..Len(outs) : Part(r, i) = val'[outs[i]] /\ h.ref[outs[i]] = null
      /\ \A b \in Elems(outs) : val'[b] # null
      /\ \A b \in Buffers \ Elems(outs) : val'[b] = val[b]
      /\ val' \in [Buffers -> Values \cup {null}]
  <2>1. \A i \in 1..Len(outs) : h.ref[outs[i]] = null
    BY <1>1, <1>2, <1>7
  <2>2. val \in [Buffers -> Values \cup {null}]
    BY DEF RuntimeInv
  <2> DEFINE w == val'
  <2>3. Stored(w, val, outs, r) /\ Len(outs) = NumDevices[s]
    BY <1>1 DEF Stored
  <2> HIDE DEF w
  <2>4. r.parts = parts
    BY <1>4
  <2>5. /\ \A i \in 1..Len(outs) : Part(r, i) = w[outs[i]]
        /\ \A b \in Elems(outs) : /\ b \in Buffers /\ w[b] = Part(r, Device[b])
                                  /\ w[b] \in Values /\ w[b] # null
        /\ \A b \in Buffers \ Elems(outs) : w[b] = val[b]
        /\ w \in [Buffers -> Values \cup {null}]
    BY <2>2, <2>3, <2>4, OutputVal, SMTT(90)
  <2> QED
    BY <2>1, <2>5 DEF w
<1>9. /\ HeapOK(heap', val', {}) /\ Fit(heap', s, past)
      /\ \A b \in Buffers : heap'.ref[b] # null <=> h.ref[b] # null \/ b \in Elems(outs)
  <2>1. Arriving(h, val, val', outs, r) /\ Placed(r, outs, s)
    BY <1>1, <1>4, <1>5, <1>8 DEF Arriving, Placed
  <2> DEFINE k == FromRuntimeTensor(h, outs, r)
             w == val'
  <2>2. /\ HeapOK(k, w, {}) /\ Fit(k, s, past)
        /\ \A b \in Buffers : k.ref[b] # null <=> h.ref[b] # null \/ b \in Elems(outs)
    <3>1. outs \in Vectors /\ r \in Rts
      BY <1>6, <1>7
    <3>2. HeapOK(h, val, {}) /\ Fit(h, s, past)
      BY <1>2
    <3>3. Arriving(h, val, w, outs, r) /\ Placed(r, outs, s)
      BY <2>1
    <3> HIDE DEF k, w
    <3>4. k = FromRuntimeTensor(h, outs, r)
      BY DEF k
    <3>6. HeapOK(k, w, {})
      BY <3>1, <3>2, <3>3, <3>4, Add
    <3>7. Fit(k, s, past)
      BY <3>1, <3>2, <3>3, <3>4, Add
    <3>8. ASSUME NEW b \in Buffers
          PROVE  k.ref[b] # null <=> h.ref[b] # null \/ b \in Elems(outs)
      BY <3>1, <3>2, <3>3, <3>4, Add
    <3> QED
      BY <3>6, <3>7, <3>8
  <2> QED
    BY <1>1, <2>2
<1>10. \A b \in Buffers : val'[b] # null <=> heap'.ref[b] # null
  BY <1>2, <1>8, <1>9
<1>11. s # NoMesh
  BY Constants
<1> QED
  BY <1>1, <1>3, <1>8, <1>9, <1>10, <1>11 DEF RuntimeInv

\* After a failed submission, what was on the mesh is stale.
LEMMA ExecuteSubmitFailsInv ==
  ASSUME RuntimeInv, ~Regroup, ~IdentityMayDiffer, NEW s \in Shapes, NEW args \in ShardVectors,
         NEW st \in {"identity", "multi"}, ExecuteSubmitFails(s, args, st)
  PROVE  RuntimeInv'
<1> DEFINE h == Prepare(s, args, st)
           k == CloseMesh(h)
<1>1. /\ MayExecute(s, args, st) /\ heap' = k /\ mesh' = NoMesh /\ past' = "failed"
      /\ val' = val /\ seen' = seen /\ past # "codegen"
  BY DEF ExecuteSubmitFails
<1>2. /\ HeapOK(h, val, {}) /\ Fit(h, s, past)
      /\ \A b \in Buffers : h.ref[b] # null <=> val[b] # null
  BY <1>1, Submittable
<1> HIDE DEF h
<1>3. /\ HeapOK(k, val, {}) /\ k.ref = h.ref /\ k.pool = h.pool /\ k.shards = h.shards
      /\ \A t \in k.pool : k.rt[t].where = IF h.rt[t].where = "device" THEN "stale"
                                           ELSE h.rt[t].where
  BY <1>2, Close
<1> HIDE DEF k
<1>4. \A t \in k.pool : /\ k.rt[t].where # "device"
                        /\ k.rt[t].where = "host" => Len(k.shards[t]) = 1
  BY <1>1, <1>2, <1>3 DEF Fit, HostSingle
<1>5. OnMesh(k, NoMesh)
  <2>1. ASSUME NEW t \in k.pool, k.rt[t].where = "host" PROVE ~(Len(k.shards[t]) > 1)
    <3> DEFINE n == Len(k.shards[t])
    <3>1. n = 1
      BY <1>4, <2>1
    <3> HIDE DEF n
    <3>2. ~(n > 1)
      BY <3>1
    <3> QED
      BY <3>2 DEF n
  <2> QED
    BY <1>4, <2>1, Zenon DEF OnMesh
<1>6. Fit(k, NoMesh, "failed")
  BY <1>4, <1>5 DEF Fit, HostSingle
<1> QED
  BY <1>1, <1>2, <1>3, <1>6 DEF RuntimeInv

\* A call that is refused has prepared its argument.
LEMMA ExecuteRejectedInv ==
  ASSUME RuntimeInv, ~Regroup, ~IdentityMayDiffer, NEW s \in Shapes, NEW args \in ShardVectors,
         NEW st \in {"identity", "multi"}, ExecuteRejected(s, args, st)
  PROVE  RuntimeInv'
<1> DEFINE h == Prepare(s, args, st)
<1>1. /\ MayExecute(s, args, st) /\ heap' = h /\ mesh' = s
      /\ val' = val /\ seen' = seen /\ past' = past
  BY DEF ExecuteRejected
<1>2. /\ HeapOK(h, val, {}) /\ Fit(h, s, past)
      /\ \A b \in Buffers : h.ref[b] # null <=> val[b] # null
  BY <1>1, Submittable
<1> HIDE DEF h
<1>3. s # NoMesh
  BY Constants
<1> QED
  BY <1>1, <1>2, <1>3 DEF RuntimeInv

\* Codegen groups its argument and gives every output a host tensor of its own.
LEMMA ExecuteCodegenInv ==
  ASSUME RuntimeInv, ~Regroup, ~IdentityMayDiffer, NEW s \in Shapes, NEW args \in ShardVectors,
         NEW st \in {"identity", "multi"}, NEW outs \in ShardVectors,
         NEW parts \in Outputs(NumDevices[s]), ExecuteCodegen(s, args, st, outs, parts)
  PROVE  RuntimeInv'
<1> DEFINE h == FromPjrtBuffers(GetOrCreateMesh(heap, s), args, st)
           r == OnHost(parts)
           B == Elems(outs)
           D == {<<b>> : b \in B}
           rts == [n \in D |-> OnHost(<<Part(r, Device[n[1]])>>)]
           w == val'
<1>1. /\ Len(outs) = NumDevices[s] /\ \A i \in 1..Len(outs) : val[outs[i]] = null
      /\ MayExecute(s, args, st) /\ past # "failed"
      /\ heap' = FromRuntimeTensors(h, rts)
      /\ w = [b \in Buffers |-> IF b \in Elems(outs) THEN Part(r, Device[b]) ELSE val[b]]
      /\ mesh' = s /\ past' = "codegen" /\ seen' = seen
  BY DEF ExecuteCodegen, FreshOutputs, Exists
<1>2. /\ Grouped(h, val, s, past, args)
      /\ \A b \in Buffers : h.ref[b] # null <=> val[b] # null
  BY <1>1, Ready
<1> HIDE DEF h, w
<1>3. r.parts = parts
  BY DEF OnHost
<1> HIDE DEF r
<1>4. /\ \A b \in B : b \in Buffers /\ w[b] = Part(r, Device[b]) /\ w[b] \in Values /\ w[b] # null
      /\ \A b \in Buffers \ B : w[b] = val[b]
      /\ w \in [Buffers -> Values \cup {null}]
  <2>1. val \in [Buffers -> Values \cup {null}]
    BY DEF RuntimeInv
  <2>2. Stored(w, val, outs, r) /\ Len(outs) = NumDevices[s]
    BY <1>1 DEF Stored
  <2>3. ASSUME NEW b \in B
        PROVE  b \in Buffers /\ w[b] = Part(r, Device[b]) /\ w[b] \in Values /\ w[b] # null
    <3>1. b \in Buffers /\ w[b] \in Values
      BY <1>3, <2>1, <2>2, OutputVal
    <3>2. w[b] = Part(r, Device[b])
      BY <2>2, <3>1 DEF Stored
    <3> QED
      BY <3>1, <3>2, Constants
  <2>4. /\ \A b \in Buffers \ B : w[b] = val[b]
        /\ w \in [Buffers -> Values \cup {null}]
    BY <1>3, <2>1, <2>2, OutputVal
  <2> QED
    BY <2>3, <2>4
<1>5. \A b \in B : h.ref[b] = null /\ val[b] = null
  <2>1. \A b \in B : val[b] = null
    BY <1>1 DEF Elems
  <2> QED
    BY <1>2, <1>4, <2>1
<1> HIDE DEF B
<1>6. \A b \in B : /\ <<b>> \in D /\ <<b>> \in Vectors /\ Len(<<b>>) = 1 /\ <<b>>[1] = b
                   /\ Elems(<<b>>) = {b}
  BY <1>4, SingleVector
<1>7. \A n \in D : /\ n \in Vectors /\ Len(n) = 1 /\ n[1] \in B /\ Elems(n) = {n[1]}
                   /\ n = <<n[1]>>
  BY <1>6
<1>8. DOMAIN rts = D /\ \A n \in D : rts[n] = [where |-> "host", parts |-> <<Part(r, Device[n[1]])>>]
  BY DEF OnHost
<1> HIDE DEF D, rts
<1>9. Apart(D, B)
  <2>1. ASSUME NEW b \in B PROVE \E n \in D : b \in Elems(n)
    <3>1. <<b>> \in D /\ b \in Elems(<<b>>)
      BY <1>6
    <3> QED
      BY <3>1, Zenon
  <2>2. ASSUME NEW n \in D, NEW b \in Elems(n) PROVE b \in B
    BY <1>7
  <2>3. ASSUME NEW m \in D, NEW n \in D, NEW b \in Elems(m), b \in Elems(n) PROVE m = n
    <3>1. b = m[1] /\ b = n[1]
      BY <1>7, <2>3
    <3> QED
      BY <1>7, <3>1
  <2> QED
    BY <2>1, <2>2, <2>3 DEF Apart
<1>10. NewOK(D, rts, w)
  <2> SUFFICES ASSUME NEW n \in D
               PROVE  /\ rts[n] \in Rts
                      /\ Len(rts[n].parts) \in {1, Len(n)}
                      /\ \A i \in 1..Len(n) : Part(rts[n], i) = w[n[i]]
    BY DEF NewOK
  <2> DEFINE b == n[1]
             x == Part(r, Device[b])
  <2>1. b \in B /\ Len(n) = 1
    BY <1>7
  <2>2. x = w[b] /\ x \in Values
    BY <1>4, <2>1
  <2>3. rts[n] = [where |-> "host", parts |-> <<x>>]
    BY <1>8
  <2> HIDE DEF x, b
  <2>4. <<x>> \in Seq(Values) /\ Len(<<x>>) = 1 /\ <<x>>[1] = x
    BY <2>2
  <2>5. rts[n] \in Rts /\ Len(rts[n].parts) = 1 /\ rts[n].parts[1] = x
    BY <2>3, <2>4 DEF Rts
  <2>6. Part(rts[n], 1) = w[b]
    BY <2>2, <2>5 DEF Part
  <2>7. \A i \in 1..Len(n) : i = 1
    BY <2>1
  <2> QED
    BY <2>5, <2>6, <2>7 DEF b
<1>11. HeapOK(h, w, B)
  <2>1. HeapOK(h, val, {}) /\ B \in SUBSET Buffers
    BY <1>2, <1>4 DEF Grouped
  <2> QED
    BY <1>4, <1>5, <2>1, Arrive
<1> DEFINE k == FromRuntimeTensors(h, rts)
<1>12. heap' = k
  BY <1>1
<1> HIDE DEF k
<1>13. /\ HeapOK(k, w, {}) /\ NewOrKept(h, k, B, D, rts)
       /\ k.fault = h.fault
       /\ \A b \in Buffers \ B : k.ref[b] = h.ref[b]
       /\ \A n \in D : \A i \in 1..Len(n) : k.ref[n[i]] = n
  <2>1. D \in SUBSET Vectors /\ DOMAIN rts = D
    BY <1>7, <1>8
  <2>2. k = FromRuntimeTensors(h, rts)
    BY DEF k
  <2> QED
    BY <1>9, <1>10, <1>11, <2>1, <2>2, Join
<1>14. \A b \in B : k.ref[b] # null
  <2> SUFFICES ASSUME NEW b \in B PROVE k.ref[b] # null
    OBVIOUS
  <2> DEFINE n == <<b>>
  <2>1. n \in D /\ n \in Vectors /\ Len(n) = 1 /\ n[1] = b
    BY <1>6
  <2> HIDE DEF n
  <2>2. 1 \in 1..Len(n)
    BY <2>1
  <2>3. k.ref[b] = n
    BY <1>13, <2>1, <2>2
  <2> QED
    BY <2>1, <2>3, Constants
<1>15. \A b \in Buffers : w[b] # null <=> k.ref[b] # null
  BY <1>2, <1>4, <1>13, <1>14
<1>16. ASSUME NEW t \in k.pool
       PROVE  \/ k.rt[t].where = "host" /\ Len(k.shards[t]) = 1
              \/ t \in h.pool /\ k.rt[t] = h.rt[t] /\ Len(k.shards[t]) = Len(h.shards[t])
  <2>1. CASE t \in D
    <3>1. k.rt[t] = rts[t] /\ k.shards[t] = t
      BY <1>13, <2>1 DEF NewOrKept
    <3>2. rts[t].where = "host" /\ Len(t) = 1
      BY <1>7, <1>8, <2>1
    <3> QED
      BY <3>1, <3>2
  <2>2. CASE t \notin D
    BY <1>13, <2>2 DEF NewOrKept
  <2> QED
    BY <2>1, <2>2
<1>17. OnMesh(k, s)
  <2> SUFFICES ASSUME NEW t \in k.pool,
                      \/ k.rt[t].where = "device"
                      \/ k.rt[t].where = "host" /\ Len(k.shards[t]) > 1
               PROVE  s \in Shapes /\ Len(k.shards[t]) = NumDevices[s]
    BY DEF OnMesh
  <2>1. CASE k.rt[t].where = "host" /\ Len(k.shards[t]) = 1
    <3> DEFINE n == Len(k.shards[t])
    <3>1. n = 1
      BY <2>1
    <3> HIDE DEF n
    <3>2. ~(n > 1)
      BY <3>1
    <3> QED
      BY <2>1, <3>2 DEF n
  <2>2. CASE t \in h.pool /\ k.rt[t] = h.rt[t] /\ Len(k.shards[t]) = Len(h.shards[t])
    <3>1. OnMesh(h, s)
      BY <1>2 DEF Grouped
    <3> QED
      BY <2>2, <3>1 DEF OnMesh
  <2> QED
    BY <1>16, <2>1, <2>2
<1>18. NoneStale(k)
  <2>1. NoneStale(h)
    BY <1>1, <1>2 DEF Grouped
  <2> QED
    BY <1>13, <1>16, <2>1 DEF NoneStale
<1>19. Fit(k, s, "codegen")
  BY <1>17, <1>18 DEF Fit
<1>20. s # NoMesh
  BY Constants
<1> QED
  BY <1>1, <1>4, <1>12, <1>13, <1>15, <1>19, <1>20 DEF RuntimeInv, w

-----------------------------------------------------------------------------
(* The theorems.                                                            *)

\* No call breaks the invariant.
LEMMA NextInv ==
  ASSUME RuntimeInv, [Next]_vars, ~LeadMayDie, ~Regroup, ~IdentityMayDiffer
  PROVE  RuntimeInv'
<1>1. ASSUME NEW b \in Buffers, NEW x \in Values, CopyFromHost(b, x) PROVE RuntimeInv'
  BY <1>1, CopyFromHostInv
<1>2. ASSUME NEW b \in Buffers, CopyToHost(b) PROVE RuntimeInv'
  BY <1>2, CopyToHostInv
<1>3. ASSUME NEW src \in Buffers, NEW dst \in Buffers, CopyToDeviceMemory(src, dst)
      PROVE  RuntimeInv'
  BY <1>3, CopyToDeviceMemoryInv
<1>4. ASSUME NEW b \in Buffers, DestroyBuffer(b) PROVE RuntimeInv'
  BY <1>4, DestroyBufferInv
<1>5. ASSUME NEW s \in Shapes, NEW o \in BOOLEAN, Compile(s, o) PROVE RuntimeInv'
  BY <1>5, CompileInv
<1>6. ASSUME NEW s \in Shapes, NEW args \in ShardVectors, NEW st \in {"identity", "multi"},
             NEW outs \in ShardVectors, NEW parts \in Outputs(NumDevices[s]),
             Execute(s, args, st, outs, parts)
      PROVE  RuntimeInv'
  BY <1>6, ExecuteInv
<1>7. ASSUME NEW s \in Shapes, NEW args \in ShardVectors, NEW st \in {"identity", "multi"},
             NEW outs \in ShardVectors, NEW parts \in Outputs(NumDevices[s]),
             ExecuteCodegen(s, args, st, outs, parts)
      PROVE  RuntimeInv'
  BY <1>7, ExecuteCodegenInv
<1>8. ASSUME NEW s \in Shapes, NEW args \in ShardVectors, NEW st \in {"identity", "multi"},
             ExecuteSubmitFails(s, args, st)
      PROVE  RuntimeInv'
  BY <1>8, ExecuteSubmitFailsInv
<1>9. ASSUME NEW s \in Shapes, NEW args \in ShardVectors, NEW st \in {"identity", "multi"},
             ExecuteRejected(s, args, st)
      PROVE  RuntimeInv'
  BY <1>9, ExecuteRejectedInv
<1>10. CASE UNCHANGED vars
  BY <1>10 DEF RuntimeInv, vars
<1> QED
  BY <1>1, <1>2, <1>3, <1>4, <1>5, <1>6, <1>7, <1>8, <1>9, <1>10 DEF Next

\* Buffers and tensors refer to each other as RuntimeInv says, in every reachable state of a
\* process whose client destroys the first shard of a tensor last, and passes as one argument
\* shards of one tensor, or that have one tensor each, and shards of different contents only
\* where the compiler did not annotate Identity.
THEOREM AlwaysInv ==
  ASSUME ~LeadMayDie, ~Regroup, ~IdentityMayDiffer
  PROVE  Spec => []RuntimeInv
<1>1. Init => RuntimeInv
  BY InitInv
<1>2. RuntimeInv /\ [Next]_vars => RuntimeInv'
  BY NextInv
<1> QED
  BY <1>1, <1>2, PTL DEF Spec

\* The TT_FATALs of PjrtTensorRef::reset, remove_shard and TensorPool never fire: a buffer that
\* exists is listed exactly once by the tensor it references, and a tensor lists nobody else.
THEOREM RefsAlwaysConsistent ==
  ASSUME ~LeadMayDie, ~Regroup, ~IdentityMayDiffer
  PROVE  Spec => []RefsConsistent
<1>1. ASSUME RuntimeInv PROVE RefsConsistent
  <2>1. /\ HeapOK(heap, val, {})
        /\ \A b \in Buffers : val[b] # null <=> heap.ref[b] # null
    BY <1>1 DEF RuntimeInv
  <2>2. heap.pool = Referenced(heap.ref)
    BY <2>1 DEF HeapOK
  <2>3. ASSUME NEW t \in heap.pool, NEW i \in 1..Len(heap.shards[t]), heap.shards[t][i] # null
        PROVE  heap.ref[heap.shards[t][i]] = t
    <3>1. heap.shards[t][i] = IF heap.ref[t[i]] = t THEN t[i] ELSE null
      BY <2>1, PoolFacts
    <3> QED
      BY <2>3, <3>1
  <2>4. ASSUME NEW b \in Buffers, val[b] # null
        PROVE  Cardinality({i \in 1..Len(heap.shards[heap.ref[b]]) :
                              heap.shards[heap.ref[b]][i] = b}) = 1
    <3> DEFINE q == Position(heap, b)
               t == heap.ref[b]
    <3>1. /\ q \in 1..Len(heap.shards[t]) /\ heap.shards[t][q] = b
          /\ \A i \in 1..Len(heap.shards[t]) : heap.shards[t][i] = b => i = q
      BY <2>1, <2>4, PositionFacts
    <3> HIDE DEF q, t
    <3>2. {i \in 1..Len(heap.shards[t]) : heap.shards[t][i] = b} = {q}
      BY <3>1
    <3> QED
      BY <3>2, FS_Singleton DEF t
  <2> QED
    BY <2>1, <2>2, <2>3, <2>4 DEF RefsConsistent, Exists
<1> QED
  BY <1>1, AlwaysInv, PTL

\* A buffer keeps its contents through every sharing, splitting, move and reshape: no call
\* gives it the part of another shard.
THEOREM DataAlwaysIntact ==
  ASSUME ~LeadMayDie, ~Regroup, ~IdentityMayDiffer
  PROVE  Spec => []DataIntact
<1>1. ASSUME RuntimeInv PROVE DataIntact
  <2>1. /\ HeapOK(heap, val, {})
        /\ \A b \in Buffers : val[b] # null <=> heap.ref[b] # null
    BY <1>1 DEF RuntimeInv
  <2> QED
    BY <2>1, PositionFacts DEF DataIntact, Exists
<1> QED
  BY <1>1, AlwaysInv, PTL

\* A copy to the host, and a program that runs, read exactly what the buffers they were given
\* hold, in mesh order.
THEOREM ReadsAlwaysMatch ==
  ASSUME ~LeadMayDie, ~Regroup, ~IdentityMayDiffer
  PROVE  Spec => []ReadsMatch
<1>1. RuntimeInv => ReadsMatch
  BY DEF RuntimeInv, ReadsMatch
<1> QED
  BY <1>1, AlwaysInv, PTL

\* Unless a submission failed, closing a mesh leaves no buffer with a tensor of that mesh.
THEOREM NeverStale ==
  ASSUME ~LeadMayDie, ~Regroup, ~IdentityMayDiffer
  PROVE  Spec => []NoStaleTensor
<1>1. RuntimeInv => NoStaleTensor
  BY DEF RuntimeInv, Fit, NoneStale, NoStaleTensor
<1> QED
  BY <1>1, AlwaysInv, PTL

=============================================================================
