--------------------------- MODULE TensorRuntime ---------------------------
(***************************************************************************)
(* How PJRT buffers share runtime tensors, and what happens to them when   *)
(* the mesh device is reshaped, closed or used (tensor.cc, tensor_pool.cc, *)
(* the mesh part of client_instance.cc, the execute path of the loaded     *)
(* executables, the data path of buffer_instance.cc).                      *)
(*                                                                         *)
(* A BufferInstance is one shard.  Its PjrtTensorRef points to a           *)
(* PjrtTensor, which points back to all of its shards and owns one runtime *)
(* tensor, on the host or on the mesh.  API calls come from one client     *)
(* thread and are atomic here; BufferInstance models their threads.        *)
(*                                                                         *)
(* A PjrtTensor is identified by the shard vector it is constructed with:  *)
(* constructing another one from the same vector takes the last reference  *)
(* away from the first, so two live tensors never have the same identity.  *)
(***************************************************************************)
EXTENDS Naturals, Sequences, FiniteSets

CONSTANTS
    Buffers,         \* BufferInstance objects, each used once
    Device,          \* Device[b]: the position in the mesh of b's device
    Values,          \* contents of a shard
    Shapes,          \* mesh shapes the compiler can ask for
    NumDevices,      \* NumDevices[s]: devices of a mesh of shape s
    InitialShape,    \* the shape {1, number of devices}
    NoMesh,          \* m_parent_mesh = std::nullopt
    null,            \* a null pointer
    SubmitMayFail,   \* can tt::runtime::submit throw, in a process without codegen?
    CodegenMayRun,   \* may the process run codegen executables, if no submit threw?
    LeadMayDie,      \* may a shard be destroyed before the later shards?
    Regroup,         \* may shards of several shared tensors form one argument?
    IdentityMayDiffer \* may shards of different contents form an argument that the
                      \* compiler annotates as Identity?

ASSUME RuntimeAssumption ==
    /\ IsFiniteSet(Buffers)
    /\ null \notin Buffers \cup Values
    /\ null \notin Seq(Buffers)
    /\ InitialShape \in Shapes
    /\ NoMesh \notin Shapes
    /\ Device \in [Buffers -> Nat \ {0}]
    /\ NumDevices \in [Shapes -> Nat \ {0}]
    /\ SubmitMayFail \in BOOLEAN
    /\ CodegenMayRun \in BOOLEAN
    /\ LeadMayDie \in BOOLEAN
    /\ Regroup \in BOOLEAN
    /\ IdentityMayDiffer \in BOOLEAN

VARIABLES
    heap,     \* the tensors, see Heap
    val,      \* val[b]: what the client stored in b, null if b does not exist
    mesh,     \* shape of m_parent_mesh, or NoMesh
    seen,     \* what the last call read, against what the client stored
    past      \* "clean"; "codegen" or "failed" once a codegen executable ran or a
              \* submission failed

vars == <<heap, val, mesh, seen, past>>

-----------------------------------------------------------------------------
(* Runtime tensors: parts holds one content per shard, or a single content  *)
(* that every shard has.  where is "stale" once the mesh that held it was   *)
(* closed.                                                                  *)

OnHost(parts) == [where |-> "host", parts |-> parts]
OnDevice(parts) == [where |-> "device", parts |-> parts]

\* What shard i of a runtime tensor with these parts holds.
Part(r, i) == IF Len(r.parts) = 1 THEN r.parts[1] ELSE r.parts[i]

\* Vectors of shards, in mesh order.
Elems(s) == {s[i] : i \in 1..Len(s)}
ShardVectors == {s \in UNION {[1..n -> Buffers] : n \in 1..Cardinality(Buffers)} :
                    \A i \in 1..Len(s) : Device[s[i]] = i}

(***************************************************************************)
(* A heap h:  h.pool   the PjrtTensors in the TensorPool                   *)
(*            h.ref    the PjrtTensorRef of every buffer                   *)
(*            h.shards m_shards of every tensor in the pool                *)
(*            h.rt     m_runtime_tensor of every tensor in the pool        *)
(*            h.fault  "none", or what the process did wrong:              *)
(*                     "freed": used a PjrtTensor after its destructor ran *)
(*                     "stale": read a device tensor of a closed mesh,     *)
(*                     inside a noexcept function                          *)
(*                     "mixed": built a multi-device tensor from a shard   *)
(*                     whose runtime tensor holds other shards as well     *)
(***************************************************************************)
EmptyHeap == [pool   |-> {},
              ref    |-> [b \in Buffers |-> null],
              shards |-> <<>>,
              rt     |-> <<>>,
              fault  |-> "none"]

\* The tensors that some buffer references: shared_ptr destroys the others, and
\* ~PjrtTensor erases them from the pool.
Referenced(ref) == {ref[b] : b \in Buffers} \ {null}

\* Mutant: remove_shard does not find the shard.
WithoutShardsNoop(s, bs) == s

\* m_shards after remove_shard of every buffer of bs.
WithoutShards(s, bs) == [i \in 1..Len(s) |-> IF s[i] \in bs THEN null ELSE s[i]]

\* from_runtime_tensor for each of the vectors of DOMAIN rts, at once: every buffer
\* of a vector leaves its old tensor (PjrtTensorRef::reset) and joins the new one.
FromRuntimeTensors(h, rts) ==
    LET moved == UNION {Elems(n) : n \in DOMAIN rts}
        ref == [b \in Buffers |->
                  IF b \in moved THEN CHOOSE n \in DOMAIN rts : b \in Elems(n)
                  ELSE h.ref[b]]
        pool == Referenced(ref)
    IN [h EXCEPT !.pool = pool,
                 !.ref = ref,
                 !.shards = [t \in pool |-> IF t \in DOMAIN rts THEN t
                                            ELSE WithoutShards(h.shards[t], moved)],
                 !.rt = [t \in pool |-> IF t \in DOMAIN rts THEN rts[t] ELSE h.rt[t]]]

FromRuntimeTensor(h, bs, r) == FromRuntimeTensors(h, [n \in {bs} |-> r])

\* PjrtTensorRef::reset() of a buffer that is destroyed.
DropRef(h, b) ==
    LET ref == [h.ref EXCEPT ![b] = null]
        pool == Referenced(ref)
    IN [h EXCEPT !.pool = pool,
                 !.ref = ref,
                 !.shards = [t \in pool |-> WithoutShards(h.shards[t], {b})],
                 !.rt = [t \in pool |-> h.rt[t]]]

-----------------------------------------------------------------------------
(* move_to_host of every tensor of ts.                                      *)

\* Shards after the first get a tensor of their own.
Followers(h, ts) ==
    {b \in Buffers : /\ h.ref[b] \in ts
                     /\ h.shards[h.ref[b]][1] # b}

Position(h, b) == CHOOSE i \in 1..Len(h.shards[h.ref[b]]) :
                      h.shards[h.ref[b]][i] = b

\* The first shard keeps the tensor, with the first host tensor, and m_shards is
\* resized to 1. If the first shard is gone, the last follower that leaves takes
\* the last reference with it: the rest of the function runs on a destroyed tensor.
KeepFirst(h, ts) ==
    [h EXCEPT !.shards = [t \in h.pool |-> IF t \in ts THEN <<h.shards[t][1]>>
                                           ELSE h.shards[t]],
              !.rt = [t \in h.pool |-> IF t \in ts
                                       THEN OnHost(<<Part(h.rt[t], 1)>>)
                                       ELSE h.rt[t]],
              !.fault = IF \E t \in ts : h.rt[t].where = "stale" THEN "stale"
                        ELSE IF \E t \in ts : h.shards[t][1] = null THEN "freed"
                        ELSE @]

\* Mutant: every follower is given the first part.
MoveToHostFirstPart(h, ts) ==
    FromRuntimeTensors(KeepFirst(h, ts),
        [n \in {<<b>> : b \in Followers(h, ts)} |->
            OnHost(<<Part(h.rt[h.ref[n[1]]], 1)>>)])

MoveToHost(h, ts) ==
    FromRuntimeTensors(KeepFirst(h, ts),
        [n \in {<<b>> : b \in Followers(h, ts)} |->
            OnHost(<<Part(h.rt[h.ref[n[1]]], Position(h, n[1]))>>)])

-----------------------------------------------------------------------------
(* The mesh.                                                                *)

\* closeMeshDevice: what was on the mesh is deallocated.
CloseMesh(h) ==
    [h EXCEPT !.rt = [t \in h.pool |->
                        IF h.rt[t].where = "device" THEN [h.rt[t] EXCEPT !.where = "stale"]
                        ELSE h.rt[t]]]

\* Mutant: the mesh is closed under the tensors.
GetOrCreateMeshWithoutMove(h, s) == IF mesh \in {NoMesh, s} THEN h ELSE CloseMesh(h)

\* getOrCreateMeshDevice: open the mesh, reuse it, or move every tensor of the
\* pool to the host before closing it and opening one of the wanted shape.
GetOrCreateMesh(h, s) ==
    IF mesh \in {NoMesh, s} THEN h ELSE CloseMesh(MoveToHost(h, h.pool))

-----------------------------------------------------------------------------
(* Preparing an argument.                                                   *)

HaveSameTensor(h, args) == \A i \in 1..Len(args) : h.ref[args[i]] = h.ref[args[1]]

\* rt_tensor_from_strategy. "identity" takes the runtime tensor of the first shard;
\* the other strategies make a multi-device tensor from one tensor per shard.
RtTensorFromStrategy(h, args, strategy) ==
    IF strategy = "identity" THEN h.rt[h.ref[args[1]]]
    ELSE OnHost([i \in 1..Len(args) |-> h.rt[h.ref[args[i]]].parts[1]])

\* The runtime tensors that strategy reads, and what goes wrong if one of them is
\* not the host tensor of a single shard.
StrategyFault(h, args, strategy) ==
    LET rts == {h.rt[h.ref[args[i]]] : i \in IF strategy = "identity" THEN {1}
                                             ELSE 1..Len(args)}
    IN IF \E r \in rts : r.where = "stale" THEN "stale"
       ELSE IF \E r \in rts : Len(r.parts) > 1
                    \/ (r.where # "host" /\ strategy # "identity")
       THEN "mixed" ELSE h.fault

\* from_pjrt_buffers: reuse the tensor that the shards share, or make a new one.
FromPjrtBuffers(h, args, strategy) ==
    IF HaveSameTensor(h, args) THEN h
    ELSE [FromRuntimeTensor(h, args, RtTensorFromStrategy(h, args, strategy))
            EXCEPT !.fault = StrategyFault(h, args, strategy)]

\* ensure_layout: programs take their inputs on the device. A stale tensor already
\* has the layout.
EnsureLayout(h, t) ==
    IF h.rt[t].where = "host" THEN [h EXCEPT !.rt[t].where = "device"] ELSE h

\* Mutant: without the check of isTensorAllocated.
AllocatedAlways(r) == TRUE

\* tt::runtime::isTensorAllocated.
Allocated(r) == r.where # "stale"

-----------------------------------------------------------------------------
(* The calls of the PJRT client.                                            *)

Exists(b) == val[b] # null

Init ==
    /\ heap = EmptyHeap
    /\ val = [b \in Buffers |-> null]
    /\ mesh = InitialShape
    /\ seen = [got |-> <<>>, want |-> <<>>]
    /\ past = "clean"

Alive == heap.fault = "none"

\* PJRT_Client_BufferFromHostBuffer.
CopyFromHost(b, v) ==
    /\ Alive
    /\ ~Exists(b)
    /\ heap' = FromRuntimeTensor(heap, <<b>>, OnHost(<<v>>))
    /\ val' = [val EXCEPT ![b] = v]
    /\ UNCHANGED <<mesh, seen, past>>

\* PJRT_Buffer_ToHostBuffer, with the body of the copy thread.
CopyToHost(b) ==
    /\ Alive
    /\ Exists(b)
    /\ heap' = MoveToHost(heap, {heap.ref[b]})
    /\ seen' = [got |-> heap'.rt[heap'.ref[b]].parts, want |-> <<val[b]>>]
    /\ UNCHANGED <<val, mesh, past>>

\* PJRT_Buffer_CopyToDevice and _CopyToMemory: a copy on the same device is
\* refused, which leaves every variable alone.
CopyToDeviceMemory(src, dst) ==
    /\ Alive
    /\ Exists(src)
    /\ ~Exists(dst)
    /\ Device[src] # Device[dst]
    /\ LET h == MoveToHost(heap, {heap.ref[src]})
       IN heap' = FromRuntimeTensor(h, <<dst>>, OnHost(h.rt[h.ref[src]].parts))
    /\ val' = [val EXCEPT ![dst] = val[src]]
    /\ UNCHANGED <<mesh, seen, past>>

\* PJRT_Buffer_Destroy.
DestroyBuffer(b) ==
    /\ Alive
    /\ Exists(b)
    /\ LET s == heap.shards[heap.ref[b]]
       IN LeadMayDie \/ s[1] # b \/ \A i \in 2..Len(s) : s[i] = null
    /\ heap' = DropRef(heap, b)
    /\ val' = [val EXCEPT ![b] = null]
    /\ UNCHANGED <<mesh, seen, past>>

\* PJRT_Client_Compile: the optimizer, if enabled, opens a submesh of a mesh of
\* the program's shape and releases it; a mesh that was open when the compilation
\* started has the program's shape when it ends.
Compile(s, optimizer) ==
    /\ Alive
    /\ optimizer \/ mesh # NoMesh
    /\ mesh # s
    /\ heap' = GetOrCreateMesh(heap, s)
    /\ mesh' = s
    /\ UNCHANGED <<val, seen, past>>

\* Shards of one argument, one per device, in mesh order.
Argument(s, args) ==
    /\ Len(args) = NumDevices[s]
    /\ \A i \in 1..Len(args) : Exists(args[i])

\* The mesh shardings the compiler annotates arguments with. A shard type other than
\* these is an error, which leaves only the mesh changed, like Compile.
Shardings(args) ==
    {"Replicate", "Devices"} \cup
        {sh \in {"Identity"} : \/ IdentityMayDiffer
                              \/ \A i \in 1..Len(args) : val[args[i]] = val[args[1]]}

\* Mutant: without the case of several devices.
ReplicateOnOneDevice(sharding, n) ==
    IF sharding # "Devices" THEN "identity" ELSE "multi"

\* fillStrategyMapFromSharding. replicate, shard and shard_2d all make one tensor of
\* the tensors of the n shards.
FillStrategyMap(sharding, n) ==
    IF sharding = "Identity" \/ (sharding = "Replicate" /\ n = 1) THEN "identity"
    ELSE "multi"

Strategies(args) == {FillStrategyMap(sh, Len(args)) : sh \in Shardings(args)}

\* Unless Regroup, shards that do not share one tensor have one tensor each.
WellGrouped(h, args) ==
    \/ Regroup
    \/ HaveSameTensor(h, args)
    \/ \A i \in 1..Len(args) : Len(h.shards[h.ref[args[i]]]) = 1

\* execute() up to submit, for one argument: get the mesh, then the tensor of the
\* argument, then its layout.
Prepare(s, args, strategy) ==
    LET h == FromPjrtBuffers(GetOrCreateMesh(heap, s), args, strategy)
    IN EnsureLayout(h, h.ref[args[1]])

MayExecute(s, args, strategy) ==
    /\ Alive
    /\ Argument(s, args)
    /\ strategy \in Strategies(args)
    /\ WellGrouped(GetOrCreateMesh(heap, s), args)

\* The buffers of an output, one per device.
FreshOutputs(s, outs) ==
    /\ Len(outs) = NumDevices[s]
    /\ \A i \in 1..Len(outs) : ~Exists(outs[i])

\* What a program on n devices reads from its input.
Input(r, n) == IF Len(r.parts) = 1 THEN [i \in 1..n |-> r.parts[1]] ELSE r.parts

\* execute() that succeeds; fillPJRTOutputLists makes one tensor for all shards of
\* the output. A program reads nothing sensible from a deallocated tensor.
Execute(s, args, strategy, outs, parts) ==
    /\ FreshOutputs(s, outs)
    /\ MayExecute(s, args, strategy)
    /\ LET h == Prepare(s, args, strategy)
           r == h.rt[h.ref[args[1]]]
       IN /\ h.fault = "none"
          /\ Allocated(r)
          /\ seen' = [got  |-> IF r.where = "stale" THEN <<>>
                               ELSE Input(r, Len(args)),
                      want |-> [i \in 1..Len(args) |-> val[args[i]]]]
          /\ heap' = FromRuntimeTensor(h, outs, OnDevice(parts))
    /\ val' = [b \in Buffers |-> IF b \in Elems(outs)
                                 THEN Part(OnDevice(parts), Device[b]) ELSE val[b]]
    /\ mesh' = s
    /\ UNCHANGED past

\* execute() whose submit throws: the mesh is closed.
ExecuteSubmitFails(s, args, strategy) ==
    /\ SubmitMayFail /\ past # "codegen"
    /\ MayExecute(s, args, strategy)
    /\ LET h == Prepare(s, args, strategy)
       IN /\ h.fault = "none"
          /\ Allocated(h.rt[h.ref[args[1]]])
          /\ heap' = CloseMesh(h)
    /\ mesh' = NoMesh
    /\ past' = "failed"
    /\ UNCHANGED <<val, seen>>

\* execute() that returns kInternal because the input is not allocated, or that
\* does not survive the preparation of its input.
ExecuteRejected(s, args, strategy) ==
    /\ MayExecute(s, args, strategy)
    /\ LET h == Prepare(s, args, strategy)
       IN /\ h.fault # "none" \/ ~Allocated(h.rt[h.ref[args[1]]])
          /\ heap' = h
    /\ mesh' = s
    /\ UNCHANGED <<val, seen, past>>

\* execute() of a codegen executable (SOLoadedExecutableInstance): the arguments are
\* grouped, nothing is laid out or submitted, and every output buffer gets a host
\* tensor of its own, whose contents were never written.
ExecuteCodegen(s, args, strategy, outs, parts) ==
    /\ CodegenMayRun /\ past # "failed"
    /\ FreshOutputs(s, outs)
    /\ MayExecute(s, args, strategy)
    /\ LET h == FromPjrtBuffers(GetOrCreateMesh(heap, s), args, strategy)
       IN /\ h.fault = "none"
          /\ Allocated(h.rt[h.ref[args[1]]])
          /\ heap' = FromRuntimeTensors(h, [n \in {<<b>> : b \in Elems(outs)} |->
                                              OnHost(<<Part(OnHost(parts), Device[n[1]])>>)])
    /\ val' = [b \in Buffers |-> IF b \in Elems(outs)
                                 THEN Part(OnHost(parts), Device[b]) ELSE val[b]]
    /\ mesh' = s
    /\ past' = "codegen"
    /\ UNCHANGED seen

\* Contents of an output on n devices: one per shard, or one for all of them.
Outputs(n) == [1..n -> Values] \cup [1..1 -> Values]

Next ==
    \/ \E b \in Buffers, v \in Values : CopyFromHost(b, v)
    \/ \E b \in Buffers : CopyToHost(b)
    \/ \E src, dst \in Buffers : CopyToDeviceMemory(src, dst)
    \/ \E b \in Buffers : DestroyBuffer(b)
    \/ \E s \in Shapes, o \in BOOLEAN : Compile(s, o)
    \/ \E s \in Shapes, args \in ShardVectors, st \in {"identity", "multi"} :
          \/ \E outs \in ShardVectors, parts \in Outputs(NumDevices[s]) :
                \/ Execute(s, args, st, outs, parts)
                \/ ExecuteCodegen(s, args, st, outs, parts)
          \/ ExecuteSubmitFails(s, args, st)
          \/ ExecuteRejected(s, args, st)

Spec == Init /\ [][Next]_vars

-----------------------------------------------------------------------------
(* Properties *)

\* PjrtTensorRef and m_shards agree: a buffer that exists references a tensor of
\* the pool that lists it exactly once, and a tensor lists nobody else. This is
\* what the TT_FATALs of PjrtTensorRef::reset, remove_shard and TensorPool insist
\* on, in functions that are noexcept.
RefsConsistent ==
    /\ \A b \in Buffers : Exists(b) <=> heap.ref[b] # null
    /\ heap.pool = Referenced(heap.ref)
    /\ \A t \in heap.pool : \A i \in 1..Len(heap.shards[t]) :
          heap.shards[t][i] # null => heap.ref[heap.shards[t][i]] = t
    /\ \A b \in Buffers : Exists(b) =>
          Cardinality({i \in 1..Len(heap.shards[heap.ref[b]]) :
                          heap.shards[heap.ref[b]][i] = b}) = 1

\* A buffer keeps the contents the client gave it, or the program that made it,
\* through every sharing, splitting and move of its tensor.
DataIntact ==
    \A b \in Buffers : Exists(b) =>
        Part(heap.rt[heap.ref[b]], Position(heap, b)) = val[b]

\* A copy to the host reads what the buffer holds, and a program reads from its
\* argument exactly what the buffers passed for it hold, in mesh order, although
\* have_same_tensor only compares pointers.
ReadsMatch == seen.got = seen.want

\* Unless a submission failed, no buffer holds a reference to a tensor of a mesh that was
\* closed: getOrCreateMeshDevice moved it to the host before.
NoStaleTensor == past # "failed" => \A t \in heap.pool : heap.rt[t].where # "stale"

\* Unless a submission failed, no call uses a destroyed PjrtTensor, reads a deallocated
\* device tensor in a noexcept function, or builds a multi-device tensor from a shared one.
NoFault == past # "failed" => heap.fault = "none"

=============================================================================
