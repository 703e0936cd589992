# A verification of tt-xla in TLA+

tt-xla connects JAX and PyTorch/XLA to Tenstorrent hardware.  This project models the
parts of it that carry its own logic: the PJRT plugin's events, buffers, tensors and
mesh (C++); the vLLM plugin's scheduler, runners, sampler, paged cache and worker
(Python); and the graph passes, expert layers and weight formats of `tt_torch`.

Run a model with `tlc -config X.cfg M`, and check proofs with `tlapm M.tla`, where M is
`LibraryFacts` or one of the modules whose name ends in `Proofs`.  `PROJECT.json` lists the runs, the lines each
definition stands for, and the hazards the properties are aimed at.

## 1. The system

### The PJRT plugin (`pjrt_implementation/`)

| Component | State | Operations | What makes it correct |
|---|---|---|---|
| **EventInstance** | `m_ready`, `m_status`, `m_on_ready_callbacks`, `m_awaiters_count`, `m_indestructible`, one mutex, one condition variable | await, onReady, error, isReady, destroy; markAsReadyAndCallback | every callback runs once, with the status of the work; every await returns; nobody uses a destroyed event |
| **BufferInstance** | data-deleted flag and its mutex, the copy thread and its mutex, one global mutex for all copies, ready and done-with-host-buffer events | copyToHost (spawns a thread), deleteData, destructor, copyToDeviceMemory, createDataReadyEvent | no deadlock between two mutexes, a join and a global mutex; no copy of deleted data; never a joinable thread destroyed or overwritten |
| **PjrtTensor, TensorPool** | a runtime tensor and the list of buffers (shards) that share it; the pool of live tensors | from_pjrt_buffers, from_runtime_tensor, ensure_layout, move_to_host, remove_shard | references and shard lists agree; a buffer keeps its data through every regrouping |
| **ClientInstance** | parent mesh, optimizer submesh, cached system descriptor | getOrCreateMeshDevice, closeParentMesh, compile | what is on the device is on the open mesh |
| **LoadedExecutableInstance** (flatbuffer, codegen) | image, deleted flag | execute, delete | a program reads what the buffers it was given hold; a failed submission harms nobody else |
| ModuleBuilder, frontend passes, compile options | none that survives a compilation | compilation pipeline | not modelled, except that it takes a mesh |
| devices, memories, errors, attributes, images | immutable after construction | getters | not modelled |

Client threads call the C API.  A copy to the host runs on a thread of the buffer,
which holds a global mutex while it moves the tensor, copies, marks the event and
runs the event's callbacks; those callbacks are client code, and may call the API
again.  Executing a program may reshape the mesh, which moves every tensor of the
pool to the host first.  Destroying one shard of a tensor leaves the others.

### The vLLM plugin (`integrations/vllm_plugin/vllm_tt/`)

| Component | State | Operations | What makes it correct |
|---|---|---|---|
| **AscendScheduler** | waiting and running queues, `scheduled_req_ids`, forced mode, KV cache blocks | schedule, update_from_output, finish_requests | one token per decode; no overcommitted cache; queue order kept; every request ends |
| **InputBatch** | request ids, the index by id, a dozen parallel arrays and slot-keyed dictionaries | add_request, remove_request, condense | a request's slot holds that request's data and nobody else's |
| **TTModelRunner** | cached request states, the batch, page table and sequence lengths that outlive a step, buffers for grammars | _update_states, _prepare_inputs, sample_tokens, prompt logprobs, structured decoding | the batch is what was scheduled; every execution reads its own rows; results belong to the request and the position they are returned for |
| **attention, paged custom operations** | the KV cache | paged_fill_cache, paged_update_cache, decode and full attention | no row overwrites a key of another; a token sees its own past |
| **sampler, metadata** | none | masks, penalties, cut-offs, choice of the path | nothing banned is sampled; the rest of the batch makes no difference |
| **TTPoolingModelRunner** | the batch | _update_states, _prepare_inputs, generate_attn_mask, execute_model | the result of a request is what it would be alone, in any layout |
| **TTWorker, platform** | configuration, compiled graphs, the pending batch | the engine's calls from check_and_update_config to execute_model | what is compiled while warming up is what serving needs; a worker that serves does not fail |
| **overrides, distributed layers** | none | replacement, wrapping and partitioning of modules | the model computes what it did |

The engine calls `schedule()`, hands the batch to the runner, and may call
`schedule()` again before the output of earlier batches has come back through
`update_from_output`.  Requests are aborted at any time in between.  The runner keeps
its arrays from step to step and pads every input to one of a few shapes, for which the
worker has compiled graphs.

### The torch package (`python_package/tt_torch/`)

| Component | State | Operations | What makes it correct |
|---|---|---|---|
| **backend, passes** | the compiled graph, copies of parameters, the constants of the first call | tt_backend, XLAExecutor | every call returns and writes what the graph as written does |
| **expert layers** | none | three forward functions, all-to-all and sparse custom operations, enable_sparse_mlp | every token gets its own experts; every expert layer is replaced once |
| **weight formats** | parametrizations of a model | apply, remove | removal undoes exactly what was applied |

### Not modelled

* Frontend passes and compile options: rewrites of compiler IR and parsing of options,
  without state of their own; executables, images, devices, memories, errors: getters over
  values set at construction.
* The client singleton, the deletion of executables, and the system descriptor.
* Decompositions, sharding strings, metadata of locations, serialization, code
  generation, the JAX plugin and registration: tables, strings and files.
* The specifications of KV caches and the sharing of caches between layers
  (`model_runner.py:105-140`, `get_kv_cache_spec`): one pass over a dictionary that vLLM's
  models decide.
* Multimodal inputs, LoRA, KV connectors, speculative decoding: the plugin disables
  them or passes them on to vLLM.
* Floating-point rounding: tensors are abstracted to what they were computed from.
* Tests, CI scripts and examples are not part of the system.

* Known and outside the models: `onBufferCopyToDevice` ignores the status of
  `copyToDeviceMemory` (`buffer_instance.cc:538`); a codegen execution uses an output's
  shape after moving it (`so_loaded_executable_instance.cc:169`); every client removes the
  same cached descriptor (`client_instance.cc:274`); a request that is too long is popped
  but not answered by the scheduler (`ascend_scheduler.py:195`), which `RequestsEnd`
  counts as an end; a cache shared with a layer that shares one raises
  (`model_runner.py:129`).

`PROJECT.json` gives a reason for each component.

## 2. Modules

    Promise         <. EventInstance <- EventInstanceProofs
    BufferInstance  <- BufferInstanceProofs
    TensorRuntime   <- MCTensorRuntime,   TensorRuntimeProofs
    AscendScheduler <- MCAscendScheduler, AscendSchedulerProofs
    PersistentBatch <. ModelRunner <- MCModelRunner, ModelRunnerProofs
    PagedCache      <- MCPagedCache,      PagedCacheProofs
    Worker          <- MCWorker,          WorkerProofs
    LibraryFacts    <- AscendSchedulerProofs, ModelRunnerProofs, WorkerProofs,
                       PagedCacheProofs
    PoolingRunner, RunnerOutputs, Sampler,
    SparseMLP, ModelLoading, TorchBackend  <. MCAlgorithms
    Sampler, ModelLoading                  <. ModelRunnerProofs
    SparseMLP                              <. PagedCacheProofs

A solid arrow means EXTENDS, a dotted one INSTANCE.  The MC modules give values to
constants and define symmetry sets; MCAlgorithms enumerates inputs.  Every module
holds, next to some of its definitions, variants
marked `Mutant`: what the code would do with a plausible bug.  No specification
uses them; they show that the properties can fail.

**EventInstance** — one event.  `Clients` are threads of the PJRT client; `Markers`
are plugin threads holding a raw pointer to the event.  Each critical section of
`m_ready_mutex` is an action, and so is each stretch of code after it: `AwaitWake`
(the counter goes down under the lock) and `GetErrorFromStatus` (`m_status` is read
without it) are two steps, because a destruction fits between them.  The threads that
sleep on `m_ready_condition` are the set `asleep`: `AwaitSleep` is `wait()` with a false
predicate, the first mark empties the set (`notify_all`), `SpuriousWakeup` removes a
thread at any time, and only a thread that is awake can evaluate the predicate again.  A read of a
destroyed event yields an arbitrary status.  `m_awaiters_count` is the cardinality of
`awaiting`.  `OrderlyDestroy` clients destroy an event when it is ready and none of
their other threads is in a call; `m_indestructible`, chosen in the initial state, is the
workaround where the owning buffer marks and deletes the event, once the client deletes
the buffer.  `PJRT_Event_IsReady` only reads
`m_ready` and has no action.

**Promise** — what an event promises, without locks, queues or destructors: a value that is
set once; every thread that asks is answered after that, with the value; every callback
that was registered is told it, once.  EventInstance implements it (`ImplementsPromise`)
with `value` taken from `m_ready` and `m_status` together, and `asking` from the threads
inside `PJRT_Event_Await` and `PJRT_Event_Error`; the wake-up, the release of the lock and
what an indestructible event's owner does are stutters.

**BufferInstance** — the threads and locks of buffers.  A call is a record with a
control point; each acquisition, each join and each stretch in between is a step.
In copyToHost the join of the old thread (`JoinedForCopy`) and the assignment of the new
one (`Spawn`) are two steps under `m_copy_to_host_thread_mutex`, and an assignment to a
thread that is joinable crashes.
The copy thread of buffer b is b itself, so a callback that runs on it appears as a
call made by b.  `MayCall` states the rules of `pjrt_c_api.h` for clients; the
`Liberties` relax them or enable further operations, and a behaviour starts with one of
the sets in `Behaviours`.  All buffers exist
and are ready in the initial state, which is what copyFromHost and an execution
leave behind.

**TensorRuntime** — the data.  A PjrtTensor is identified by the shard vector it is
made from, which keeps the heap canonical.  A runtime tensor is a place (host,
device, stale) and one content per shard.  `MoveToHost` splits a shared tensor: the
first shard keeps it, the others get new ones.  `GetOrCreateMesh`, `FromPjrtBuffers`
and `EnsureLayout` compose to the preparation of an argument, and `Execute` adds the
outputs.  The sharding of an argument (`Shardings`) decides
between its first shard's tensor and one made of all shards as
`fillStrategyMapFromSharding` does.  API calls are atomic: BufferInstance covers their
interleaving.  `val` and
`seen` are what the client knows, and `past` is what has happened; they are not state of
the plugin.

**AscendScheduler** — `schedule()` is a run of steps, one per iteration of the
prefill loop and of the decode loop, with its local variables as variables.  Between
calls the front end adds and aborts requests, the mode is forced, and outputs
arrive.  When `allocate_slots` returns None the prefill loop is left (`AllocationFails`)
and the decode loop preempts; the watermark, checked before, leaves the first no case
(lemma `WatermarkSuffices`).  vLLM's base class, its queues and its KV cache manager are external: they
are modelled from how the plugin calls them.  LoRA, prefix caching, remote KV
transfer and speculative decoding are off.

**PersistentBatch** — what a batch promises, without slots: a step gives the model and
the sampler the state of every scheduled request.  **ModelRunner** implements it: one
call of `execute_model` and `sample_tokens` is a run of steps:
removals and updates, one step per `add_request`, one per iteration of `condense`,
one per execution.  What a slot contains is abstracted to *whose* it is, in the
three ways the code treats its arrays: always overwritten (`row`), slot-keyed
dictionaries (`params`), and written only by requests that use them (`bias`).
The refinement mapping takes `inputs` from the rows that are read at each execution, and
hides slots, gaps and moves; the steps of `condense` are stutters.
The scheduler's outputs are arbitrary except that prefills and decodes are not
mixed, which is what AscendScheduler's `BatchConsistent` establishes.

**PagedCache** — what a step of the runner does to the KV cache.  A key is the request
and the position it is of.  The page table and the sequence lengths are kept from step
to step, as in the code; `HandlePagedAttention` writes the rows of all requests, of the
padding and of whoever was there before.  Where two rows of a decode have the same slot,
either may be the last.

**Worker** — the engine's calls in their order, with the set of graphs that have been
compiled.  A graph is the shapes and flags that a trace depends on.  Both runners'
constructors, paddings, profiling and warm-up are functions of the configuration.

**PoolingRunner, RunnerOutputs, Sampler, SparseMLP, ModelLoading, TorchBackend** —
code that is a function of its inputs, or a short sequence of calls on explicit state, as
operators.  A tensor is abstracted to what its elements were computed from: a hidden
state is a token with what it attended to, the output of an expert is the token, the
expert and the paired columns, the value of a graph's node is a term.  Every property
compares with a reference that is written without the layouts, masks and caches: the
request alone, the token's own experts, the graph run as it was written.

In SparseMLP a layer is also run on the host, where `A2aSparseMLP.forward` takes the golden
path (`GoldenForward`, the loop over experts of `torch_overrides.py`), and with the router of
`DeepseekV3MoEToA2AAdapter`, with which it raises (`Raises`).  In ModelLoading,
`enable_sparse_mlp` goes by class names ("deepseek" or another pattern), attributes or
`target_classes`, and the replacement of the root is a child that nothing calls
(`StillRun`).

## 3. Runs

### Passing

| Run | Shows |
|---|---|
| `event` | Nobody waits for ever, also when several threads sleep on the condition variable; no callback is lost or stranded, every callback gets the status of the first mark, and the destructor finds nobody waiting; EventInstance implements Promise; with two clients, two markers with different statuses, and a callback that destroys the event. |
| `tensor` | Buffers keep their data, and programs read it, across meshes of two sizes and three shapes, and with codegen executions or failing submissions in between.  Data on a mesh that a failure closed is lost, but never replaced by data of another buffer. |
| `buffer` | For clients that keep the rules: no deadlock, no thread overwritten or destroyed while it is joinable, no copy of deleted data.  For all: copies exclude each other. |
| `sched_safety` | The assertions of `schedule()`, the cache bound, and the order of the queue, with two batches in flight, aborts and forced modes. |
| `sched_ends` | Every request ends, although prefills go first and decodes are preempted. |
| `runner_batch` | The batch is what was scheduled, and ModelRunner implements PersistentBatch: tokens, block tables and parameters that are read for a request are its own, also when blocks are added or, after a preemption, replaced. |
| `paged` | The keys of live requests survive the padding, stale rows and the reuse of blocks, and a next token is sampled from the request's own tokens. |
| `worker` | The warm-up has compiled what serving needs, and serving does not fail, for 23 generative and 216 pooling configurations. |
| `algorithms` | Eleven properties of functions, each over all inputs of a small family (530 000 in all). |

The properties of `algorithms`: a pooled request gets what it would have got alone
(`PooledAsIfAlone`); prompt logprobs belong to their positions, however the prompt is cut
(`PromptLogprobsRight`); grammars bind their own requests (`MaskedAsAsked`); banned
tokens are not sampled (`BansHold`); the batch makes no difference to a request
(`SampledAsIfAlone`); the cut-offs are top-k and top-p (`TopKTopPExact`); tokens get
their own experts (`RoutedToOwnExperts`); loading keeps what a model computes
(`LoadedModelSame`); expert layers are replaced once (`ExpertLayersReplaced`);
overrides can be undone (`OverridesUndone`); a compiled model does what was written, twice
(`CompiledAsWritten`).

### Violations

Each of these runs checks one property that a comment of the repository states, and
finds a behaviour of the code against it.  `PROJECT.json` quotes the line.

| Run | The behaviour |
|---|---|
| `tensor_lead_dies` | If the first shard of an output was destroyed, `move_to_host` for another shard releases the last reference to the tensor it is running on. |
| `buffer_move_race` | `copyToDevice` moves its source to the host without the global mutex. |
| `runner_bias` | `condense` leaves a logit bias behind in the old slot, for the next request without one. |

### What the passing runs assume

The assumptions are constants, or conditions of the properties that are definitions of
their own.  Without them TLC finds the behaviour on the right.

| Assumed in | Assumption | Otherwise |
|---|---|---|
| `event` | `OrderlyDestroy = TRUE` | `ImplementsPromise` fails: a woken awaiter is no longer counted, but has yet to read `m_status` (`event_instance.cc:86`, `:199`). |
| `tensor` | `past # "failed"` in `NoStaleTensor` and `NoFault` | they fail: a failed submission closes the mesh under the tensors on it (`flatbuffer_loaded_executable_instance.cc:240`). |
| `tensor` | codegen and failed submissions not in one behaviour (`past`) | `ReadsMatch` fails: a host tensor of two shards, grouped by a codegen execution, survives the failure and is reused for one device. |
| `tensor` | `Regroup = FALSE` | `NoFault` fails: an argument made of shards of two outputs is built from whole multi-device tensors (`tensor.cc:193`). |
| `tensor` | `IdentityMayDiffer = FALSE`: shards of an argument whose sharding the compiler annotates as the identity hold the same | `DataIntact` and `ReadsMatch` fail: the first shard's tensor stands for all (`tensor.cc:186`). |
| `buffer` | no `ConcurrentDelete` | `NoCrash` fails: a copy starts after `deleteData` joined, and the destructor, which returns early, destroys a joinable thread (`buffer_instance.cc:138`). |
| `buffer` | no `CallbacksMayDestroy` | `CallsReturn` fails: a callback runs under the global mutex and joins a thread that waits for it (`buffer_instance.cc:356`). |
| `buffer` | no `ReadyEventAgain` | `NoCrash` fails: the second request for a ready event throws across the C API (`buffer_instance.cc:408`). |
| `sched_ends` | `NumBlocks = 4` | with 3, `RequestsEnd` fails: a prompt that fits the cache, but not what watermark and null block leave of it, waits for ever (`ascend_scheduler.py:501`). |
| `sched_*` | `AbortByName = FALSE` | with `MayAbort`, `RequestsEnd` fails: `finish_requests("id")` leaves the id in `scheduled_req_ids` and decoding stops (`ascend_scheduler.py:526`). |
| `runner_batch` | `ChunkSize = 3` | with 2, `ImplementsBatch` fails: the second execution of a batch reads the rows of the first (`model_runner.py:983`).  `NoLateFailure` shows that a worker that serves does not get there. |
| `paged` | `~exposed` | `KeysIntact` fails: only a batch of one resets the rows after it (`model_runner.py:1027`), and a stale row names blocks that are another request's now. |
| `paged` | `~later` | `SampledFromOwnTokens` fails in the second row of a prefill: its logits index is the running total of the tokens (`model_runner.py:1056`). |
| `worker` | `Lazy`, `WarmsUp` | mixed batches, optional features and every sampler under `cpu_sampling` are compiled while serving; so is everything if the warm-up is switched off or the devices do not divide the batch. |
| `worker` | `seqs <= MaxNumTokens` | `NoLateFailure` fails: `seq_lens` has too few elements for the requests (`model_runner.py:387`). |
| `algorithms` | `Len(q) <= c.limit`, `~Raises` | a step of several executions returns the results of the last (`pooling_runner.py:1414`); a request that is scheduled twice in a row meets an unassigned variable (`:719`). |
| `algorithms` | `leftOut` | a request that is left out of a step in the middle of its prompt loses the logprobs it had (`input_batch.py:403`).  AscendScheduler, which the platform sets for generative models (`platform.py:176`), never leaves one out there: it runs a prompt whole. |
| `algorithms` | grammars of requests in the batch | the masks after that of an absent request go to the wrong rows (`model_runner.py:2343`). |
| `algorithms` | `Aligned` | `RoutedToOwnExperts` fails for the fused path, which is the default: if rows of several tokens are split, its mask is for other tokens than the tile, and experts are skipped that a token needs (`sparse_mlp.py:456`).  This happens on one device too, where the class promises "identical results to SparseMLP" (`sparse_mlp.py:254`). |
| `algorithms` | `~Raises` of a layer | a layer with the router of `DeepseekV3MoEToA2AAdapter`, which returns two values (`sparse_mlp.py:893`) where forward unpacks three (`:321`), raises, although the adapter is to be "A2aSparseMLP-compatible" (`:863`); so does, on the device, a shape that cannot be cut into tiles (`:357`). |
| `algorithms` | `~EnableRaises`, and modules below the root | a class that passes by its name (`sparse_mlp.py:1016`) and has no router makes `enable_sparse_mlp` raise (`:290`); an expert layer that is the model itself gets a child named "" (`:1159`) and runs as it was, which is how `tests/torch/graphs/test_mlp.py:520` calls it. |
| `algorithms` | `callable` | a query-key-value layer with `skip_bias_add` raises (`vllm_distributed_utils.py:204`). |
| `algorithms` | `Compilable` | a fused norm loses a cast to another type (`fusion_providers.py:170`); the legacy flow does not move tensors of the host. |

### Bounds

* Events: two clients let one wait or run a callback while the other destroys.  Two
  markers are needed for a second mark.  Two callbacks, one
  of which destroys the event, give every order of queueing and running.
* Tensors: two devices with two buffers each allow two shared tensors, an argument
  taken from both, and an argument that fits; three shapes give a reshape with and
  without a change in the number of devices.  Two contents make a mix-up visible.
* Buffers: two buffers, one of which aliases host memory, and two clients with
  `MaxCalls` = 2 calls each (3 in `buffer_move_race`) cover two copy
  threads waiting for each other's mutexes.
* Scheduler: three requests, of which `MaxRunning` = 2 run, so that one waits, one
  decodes and one is preempted; blocks of two tokens and a cache of three usable
  blocks, so that two requests outgrow it; `MaxBatches` = 2 in flight.  A request
  grows to `MaxModelLen` tokens.
* Runner: three requests in three slots let the batch have a gap in front, in the
  middle and at the end, and a request move while another enters.  A request ends
  when it has `MaxTokens` = 3 tokens, that is after a prefill and a decode, with any
  number of steps in between in which it is not scheduled; `MaxBlocks` = 2 lets it be
  given a block, and lose one by a preemption.
* Paged cache: three rows and requests, so that a batch of two leaves a row over; four
  blocks of two tokens, two per request, so that blocks are used again; prompts of one
  token and of three, which end in the middle of a block.
* Worker: model lengths at and beyond a padding, page tables with room for eight pages
  (`Smem` = 32), one, two and four devices, batches up to `max_num_seqs`.  Lengths are at
  most 2 ^ `MaxExponent`, which bounds the loops that double them.
* Algorithms: three pooled requests of up to three tokens; a prompt of up to five tokens
  in three steps; a vocabulary of three; up to four tokens, or two rows of three, in
  tiles of two on one or two devices, three experts; layers of up to three parts; graphs of three computations and a write,
  called twice.  Each is the smallest at which two of a kind can be mixed up with one
  between them.

Symmetry is used where requests, contents, blocks or buffers of a device are
interchangeable, and never in a run with a liveness property.  Deadlock is not
checked where clients may simply stop calling, or where a bound ends the behaviour;
`CallsReturn`, `AwaitEventuallyReturns` and `RequestsEnd` say what must not hang.  The
runner can always be called again, and its runs check deadlock.

### Fairness

* EventInstance: threads inside a call, and plugin threads with work to do, are
  scheduled (weak fairness each).  That marker threads mark is what the `try`/`catch` of
  copyToHost ensures.  Clients need not call anything: the owner of an indestructible
  event marks and deletes it when the client deletes its buffer, and nothing makes the
  client do so.
* BufferInstance: each thread in a call and each copy thread takes a step if it can
  continuously.  A mutex that is free again and again need not be obtained by a
  particular thread; since calls are bounded, every mutex finally stays free.
* AscendScheduler: the engine core loop calls `schedule()` while there are requests,
  the runner returns every batch, grammars are compiled.  No fairness is assumed of
  arrivals, aborts or forced modes; `sched_ends` leaves the mode automatic, since a
  forced mode may stop decoding for as long as it is set.
* The other modules state no fairness: only safety is checked of them.

## 4. Proofs

Each theorem holds for every value of the constants that satisfies the `ASSUME` of its
module, and the hypotheses named below.  The hypotheses on the program's clients and
configuration are those of the table "What the passing runs assume"; where one is missing
here, the proof does not need it.  Every inductive invariant was checked by TLC, on the
constants of the run, before it was proved.

| Module | Theorem | Property | Hypotheses |
|---|---|---|---|
| EventInstance | `TypeCorrect`, `StatusNeverChanges` | `TypeOK`, `StatusFinal` | |
| | `CallbacksCorrect`, `NoneStranded`, `DestructorNeverTerminates` | `CallbackSeesFinalStatus`, `NoStrandedCallback`, `NeverTerminates` | `OrderlyDestroy` |
| | `EventKeepsPromise` | `ImplementsPromise` | `OrderlyDestroy` |
| BufferInstance | `TypeCorrect`, `CopyThreadsExclude`, `PlainClientsSafe` | `TypeOK`, `CopiesExclude`, `NoCrash` | |
| TensorRuntime | `RefsAlwaysConsistent`, `DataAlwaysIntact`, `ReadsAlwaysMatch`, `NeverStale` | `RefsConsistent`, `DataIntact`, `ReadsMatch`, `NoStaleTensor` | `~LeadMayDie`, `~Regroup`, `~IdentityMayDiffer` |
| AscendScheduler | `TypeCorrect`, `BlocksAlwaysSuffice`, `BatchesAlwaysConsistent`, `OrderAlwaysKept` | `TypeOK`, `BlocksSuffice`, `BatchConsistent`, `QueueOrderKept` | |
| | `QueuesAlwaysMatch` | `QueuesMatchStatus` | `~AbortByName` |
| ModelRunner | `BatchAlwaysScheduled` | `BatchIsScheduled` | |
| | `RunnerImplementsBatch` | `ImplementsBatch` | `ChunkSize >= MaxReqs`, no request has a logit bias |
| Worker | `AlwaysServedFromWarmUp`, `NeverFailsLate` | `ServedFromWarmUp`, `NoLateFailure` | |
| PagedCache | `KeysAlwaysIntact`, `AlwaysSampledFromOwn` | `KeysIntact`, `SampledFromOwnTokens` | |
| Sampler | `AlwaysSampledAsIfAlone` | `SampledAsIfAlone` | |
| | `BannedNeverSampled` | `BannedNotSampled`, a part of `BansHold` | `Moderate` |
| ModelLoading | `ExpertLayersAlwaysReplaced` | `ExpertLayersReplaced` | `IsModel` |
| SparseMLP | `AlwaysRoutedToOwnExperts` | `RoutedToOwnExperts` | |

`LibraryFacts` holds what several modules need: every set of naturals has a least
element, and so what `Min` and `Max` return; what `ToSet`, `Reverse` and `IsInjective` are
of heads, tails and longer sequences; what a sequence ends with once an element is
appended (`SuffixOfAppend`).  Where a proof needs an induction over a number (a
bound of finitely many paddings, a cardinality), it takes the least counterexample.

### EventInstance

For any sets of clients, markers, callbacks and statuses:

* `TypeCorrect`: `Spec => []TypeOK`.
* The lemma `EventLifetime`, on which the others rest: an orderly client's threads never
  touch a destroyed event (`NoUseAfterDestroy`).  The rules of the client give this for the
  step that destroys; that it stays so is `LifetimeInv`, with `Control` (the control points
  that clients and markers can be at, that only a thread inside the calling loop has
  callbacks left, and a client at most one) and `Ownership` (the owner of an indestructible
  event starts when every client has let go of it, and is done once it has deleted it).
* `CallbacksCorrect`: a registered callback runs at most once, with the status of the
  first mark, for an orderly client.  `CallbackInv` accounts for
  the callbacks: they are in the queue only before the event is ready and in threads'
  lists only after (`Queues`), never twice (`Unique`), and not run yet (`Fresh`); a
  marker that carries callbacks is the first, so that its argument is `status`
  (`FirstMarker`).  One lemma per action
  that moves callbacks carries the induction.
* `NoneStranded`: no callback stays in the queue of a ready event; it follows from
  `Queues`.
* `DestructorNeverTerminates`: the destructor, which throws if it finds threads waiting
  or callbacks queued, never does, for an orderly client.  `DestructorInv` adds that
  exactly the clients that wait are counted, none of them for an indestructible event
  (`Counted`); that a destroyed event was ready, and so has no callbacks queued, comes
  from `CallbackInv`.
* `StatusNeverChanges`: `Spec => StatusFinal`, for any client.  No run lists `StatusFinal`,
  since `ImplementsPromise` says it too, but only of an orderly client.
* `EventKeepsPromise`: `Spec => ImplementsPromise`, for an orderly client, step by step: the
  first mark is `Fulfil`, entering and leaving a call are `Ask` and `Answer`, running a
  callback is `Tell`, and everything else is a stutter.  An answer is read after the lock
  was released, so `KeepsPromise` needs `LifetimeInv` (the event is still there, so the
  status is read and not arbitrary), `CallbackInv` (a callback that is run was registered
  and was not told before) and that a thread that was woken found the event ready
  (`Answerable`).

### BufferInstance

For any sets of buffers and clients, any number of calls, and any sets of liberties:

* `CopyThreadsExclude`: the invariant is `MoverOwnsLock`, a copy thread that moves or runs
  callbacks owns the global mutex.  Nothing is assumed of the clients.
* `PlainClientsSafe`: `NoCrash` says of clients that take no liberties that the plugin
  never destroys or overwrites a joinable thread, copies deleted data or throws.
  `PlainInv` adds which calls on one buffer may overlap (`CallsOrderly`) and that a buffer
  has no copy thread from the join in `deleteData` on (`ThreadGone`): that no copy
  starts after the join depends on what all other threads are doing, which `NoCrash`
  alone does not say.

### TensorRuntime

For any finite set of buffers, any meshes and any contents.  The properties relate
references, shard lists and contents, and each operation on the heap goes through states in
which some buffers have left one tensor and not yet joined another; so the invariant is
stated for a heap with a set of buffers that are `leaving` (`HeapOK`), and there is a
lemma per operation: joining a tensor, splitting one in `move_to_host`, closing and opening a mesh,
grouping the shards of an argument, `ensure_layout`.  `Listed` says that a tensor
lists, of the shards it was made from, exactly those that still reference it, and that the
first of them still does; this is where `~LeadMayDie` is needed.  `Fit` says how large
tensors are on which mesh: a shared tensor has one shard per device of the open mesh
(`OnMesh`), is not on the host unless codegen put it there (`HostSingle`), and is not stale
unless a submission failed (`NoneStale`).  `~Regroup` is needed where the shards of an
argument come from several tensors, `~IdentityMayDiffer` where one tensor stands for all of
them.  `NoFault` is model-checked only: what these hypotheses leave of it is `NoStaleTensor`
and `ReadsMatch`.

### AscendScheduler

For any finite set of requests, any cache, limits and number of batches in flight.
`SchedulerInv` says where a request is by its status (`Places`), that no
request is in two batches in flight and which ones `scheduled_req_ids` holds (`Flight`), how
many tokens it has at each stage (`Counts`), and what batch each phase of `schedule()` has
made so far (`Phases`).  `BatchConsistent` is not inductive: that the decode loop meets
requests with exactly one token to compute depends on every path by which a
request comes to be running, not in flight and not in the batch.  That the pool is not
overdrawn is a fact about sums over requests, `HeldBlocks`, and needs a lemma on how a
sum changes with one of its terms.  `QueueOrderKept` is an action property: with lemmas on what
removal, concatenation and reversal do to the order of two elements, each step keeps it.

### ModelRunner

For any requests, slots and sizes.  `RunnerInv`: the list of ids and the index are inverses
(`Inverses`); the empty slots are the removed ones, and during `condense` those behind the
last one too (`Gaps`); together with what is still to be added, the batch is what was scheduled
(`Members`); every occupied slot holds the row and the parameters of its
request, and no other holds parameters (`Contents`).  That the runner implements
PersistentBatch follows step by step: an execution maps to `Batch`'s, since by
`Contents` it reads the requests' own rows; everything else is a stutter or changes the
same requests in both.  The theorem excludes exactly the two cases in which TLC finds the
refinement to fail: executions in chunks, and logit biases (`runner_bias`).

### Worker

For every set of configurations whose lengths are within the bound.  `WorkerInv` keeps what each call established: the
constructor's assertion on batches, from the profiling run that the page table has a row
for every request, and that what was compiled was counted.  The rest is about paddings: the doubled
lengths are bounded, the largest covers the model (or all tokens of a
fused batch), so a padded length exists and is one of those the warm-up went through
(`PaddingFacts`, `PaddedFacts`); a number of rows rounded up to a multiple of the devices
is no larger than a batch size that is such a multiple (`RoundUp`).

### PagedCache

For any finite set of requests, any pool, block size, paddings and number of rows.  Both
properties are about the behaviour up to the first batch that leaves rows of others in
the page table (`~exposed`), and say so themselves; no further hypothesis is made.
`CacheInv` adds that no block is in two places of the requests' lists (`Distinct`) and that
a request has just the blocks its computed tokens need (`Hold`), so that the row of a request
fits the page table and a token that starts a block gets one.  `StepOK` is what `Prefill`
and `Decode` hand to a step; `NamedOnce` is the core of the argument: a block of a
request is named in one column of one row, its own, because every row after the
batch is a null row.  So whatever a padded row writes, at position -1 or beyond its tokens,
lands in the null block, and `DecodeWrites` and `PrefillWrites` say which key is in a slot
after the step, whichever of two rows with the same slot is written last.

### Sampler, ModelLoading and SparseMLP

TLC checks these functions on small inputs, and four theorems extend that to all.  They are
in `ModelRunnerProofs` and `PagedCacheProofs`.

* `AlwaysSampledAsIfAlone`: for any vocabulary and batch.  A flag of the batch that a
  request does not need switches on a mask or a penalty that is neutral for it (`Neutral`);
  so all flags that serve a request (`Serves`) give it the same logits (`SameLogits`), and
  the plain argmax is taken only where the sampler would have taken it of the same logits
  (`SameSample`).  Those of its batch serve it, and so do those of a batch of its own.
* `BannedNeverSampled`: a banned token has the logit minus infinity whatever is added
  (`BannedLogit`), and every other has more (`OtherLogit`); so argmax passes it over, and
  its weight is zero.  That the mask of bad words, which looks at the last token and the
  history by turns, bans just the tokens that complete a word is `BadWord`.  In the
  specification minus infinity is a number, and `Moderate` says that the other numbers stay
  clear of it: logits and biases up to 1000, penalties up to 2, which is what vLLM accepts,
  and outputs of at most 100000 tokens.
* `ExpertLayersAlwaysReplaced`: for any tree of modules (`IsModel`), of any depth, any class
  names and attributes, and any `target_classes`, unless the call raises.  Of the modules on
  a path below the root that qualify, the outermost is replaced (`OutermostReplaced`).
* `AlwaysRoutedToOwnExperts`: for layers of any size, each of the five implementations and
  any routing.  Cutting the tokens into tiles can be undone (`PlaceOfTile`), so the tile and
  the place that `DownOut` looks for are unique (`TileFound`); a tile's mask has the experts
  of each of its tokens (`NotSkipped`), which for the fused path is the arithmetic that
  runs of M consecutive tokens are the tiles (`RunIsTile`); and de-interleaving the weights
  keeps gate and up columns paired (`ColumnsPaired`).  On the host the experts that were hit
  are run for the tokens that chose them (`GoldenForwardOwn`).  `~Raises` and `Aligned` are
  premises of the property itself.

### Only model-checked

* Liveness (`CallbackEventuallyRuns`, `AwaitEventuallyReturns`,
  `CallsReturn`, `RequestsEnd`): the prover handles neither fairness nor ENABLED.
* The other properties of the algorithm modules.  `PooledAsIfAlone`, `PromptLogprobsRight`,
  `MaskedAsAsked`, `LoadedModelSame`, `OverridesUndone` and `CompiledAsWritten` are about
  sums, concatenations and rewrites made by folds over sequences and sets,
  `TopKTopPExact` about a sorted sequence and its partial sums: each needs an induction with
  the property as a parameter.  So does the rest of `BansHold`, that a request is given a
  token at all, since it is given one above the cut-offs.

## 5. Plan

Done: EventInstance with Promise, BufferInstance, TensorRuntime, AscendScheduler,
ModelRunner with PersistentBatch, Worker and PagedCache, each with proofs of the safety
properties that its runs check; the six algorithm modules, with proofs where no fold
stands in the way.

There is no abstract module for TensorRuntime: its history variables `val` (what each buffer
holds) and `seen` (what the last reader should have got) are that module's state, and
`DataIntact` and `ReadsMatch` are the refinement, stated as invariants.

What is left, in order:

1. *Compositions.*  AscendScheduler with ModelRunner, so that the runner's inputs
   are the scheduler's outputs instead of `Possible`, and with PagedCache, whose
   `Allocations` are the scheduler's; the reshaping of the mesh by
   one client thread while copy threads run, which `tensor_pool.cc` documents as
   not thread safe.
2. *More of the system.*  Deletion of executables while they execute; the client
   singleton and its cached descriptor; sharding specifications.
