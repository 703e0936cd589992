------------------------------- MODULE Worker -------------------------------
(***************************************************************************)
(* The life of a vLLM worker (vllm_tt/worker.py): the platform adjusts the *)
(* configuration, the worker creates one of the two runners, loads the     *)
(* model, profiles it, allocates the KV cache, compiles the graphs it will *)
(* need, and serves.                                                       *)
(*                                                                         *)
(* A graph stands for one XLA computation: it is compiled the first time a *)
(* function is called with tensors of some shapes and with some values of  *)
(* the Python flags its trace depends on.  The order of the calls is that  *)
(* of vLLM's engine.                                                       *)
(***************************************************************************)
EXTENDS Integers, FiniteSetsExt

CONSTANTS
    Configs,       \* the configurations of a run, see ConfigType
    Smem,          \* bytes a page table may take: 1024 * 1024 // 2 in attention.py
    Features,      \* what requests ask of the sampler: seeds, penalties, biases, ...
    MaxExponent    \* bound: lengths are at most 2 ^ MaxExponent

ConfigType == [
    pooling : BOOLEAN,        \* runner_type
    spec : BOOLEAN,           \* speculative_config is not None
    mla : BOOLEAN,
    len : Nat,                \* max_model_len
    seqs : Nat,               \* max_num_seqs
    tokens : Nat,             \* max_num_batched_tokens
    minContext : Nat,         \* min_context_len
    most : Nat,               \* VLLM_TPU_MOST_MODEL_LEN, 0 for None
    eager : BOOLEAN,          \* enforce_eager
    cpuSampling : BOOLEAN,
    batch : Nat,              \* batch_size
    all : BOOLEAN,            \* enable_precompile_all
    dp : BOOLEAN,             \* enable_data_parallel
    tp : Nat,                 \* tensor_parallel_size under SPMD, 0 if not enabled
    kvHeads : Nat,
    devices : Nat]

ASSUME WorkerAssumption ==
    /\ Configs \subseteq ConfigType
    /\ \A c \in Configs : {c.len, c.seqs, c.tokens, c.batch, c.devices} \subseteq Nat \ {0}
    /\ \A c \in Configs : {c.len, c.tokens, c.minContext} \subseteq 0..2 ^ MaxExponent
    /\ Smem \in Nat
    /\ MaxExponent \in Nat /\ 2 ^ MaxExponent >= 2048

VARIABLES
    config,        \* the configuration, as the platform and the runner change it
    phase,         \* the last of the engine's calls that returned, or "failed"
    graphs,        \* the graphs compiled so far
    counted,       \* the graphs num_xla_graphs counts: those at the last update
    pending        \* self.scheduler_output: the batch execute_model left for sample_tokens, if any

vars == <<config, phase, graphs, counted, pending>>

-----------------------------------------------------------------------------
(* The platform. *)

DefaultTokens == 2048       \* DEFAULT_MAX_NUM_BATCHED_TOKENS
BlockSize == 32             \* get_page_size

CDiv(a, b) == (a + b - 1) \div b

\* TTPlatform.check_and_update_config.
CheckAndUpdateConfig ==
    /\ phase = "start"
    /\ IF config.spec
       THEN phase' = "failed" /\ UNCHANGED config
       ELSE /\ phase' = "configured"
            /\ config' = IF config.mla
                         THEN [config EXCEPT !.tokens = Max({config.len, DefaultTokens})]
                         ELSE config
    /\ UNCHANGED <<graphs, counted, pending>>

-----------------------------------------------------------------------------
(* The runners' constructors. *)

\* How often a length may be doubled.
Exponents == 0..MaxExponent

\* The smallest power of two that is at least n.
NextPowerOf2(n) == Min({p \in {2 ^ k : k \in Exponents} : p >= n})

\* _adjust_min_token
AdjustMinToken(n) == Max({32, NextPowerOf2(n)})

\* Mutant: the doubling stops one too early.
ExponentialShort(min, max) ==
    {AdjustMinToken(min) * 2 ^ k : k \in {j \in Exponents : AdjustMinToken(min) * 2 ^ j < max}}
        \cup {AdjustMinToken(min)}

\* The loop of _get_token_paddings: the minimum, doubled until it covers max.
Exponential(min, max) ==
    {AdjustMinToken(min) * 2 ^ k :
        k \in {j \in Exponents : j = 0 \/ AdjustMinToken(min) * 2 ^ (j - 1) < max}}

\* The minimum of the generative runner is at most max_num_batched_tokens; 1 is
\* for decoding.
GenerativePaddings(c) == {1} \cup Exponential(Min({c.minContext, c.tokens}), c.len)

\* Pooled requests are batched, or all are fused into one.
PoolingPaddings(c) == Exponential(c.minContext, IF c.batch = 1 THEN c.tokens ELSE c.len)

\* num_tokens_paddings
Paddings(c) == IF c.pooling THEN PoolingPaddings(c) ELSE GenerativePaddings(c)

\* _get_padded_token_len; it asserts that there is one, here by 0.
PaddedLen(c, n) ==
    IF n > Max(Paddings(c)) THEN 0 ELSE Min({p \in Paddings(c) : p >= n})

\* max_num_tokens: the length of query_start_loc, of seq_lens and of arange.
MaxNumTokens(c) == Max(Paddings(c))

\* TTAttentionBackend.get_max_num_seqs
MaxNumSeqs(len) == (Smem \div CDiv(len, BlockSize)) \div 4

\* num_reqs_max_model_len, or num_reqs_most_model_len; max_num_reqs is max_num_seqs.
Users(c, useMax) == Min({MaxNumSeqs(IF useMax THEN c.len ELSE c.most), c.seqs})

\* max_num_blocks_per_req, or num_blocks_per_most_len_req.
Blocks(c, useMax) == CDiv(IF useMax THEN c.len ELSE c.most, BlockSize)

\* The variants of a call: most_model_len adds one for shorter requests.
Variants(c) == {TRUE} \cup (IF c.most = 0 THEN {} ELSE {FALSE})

\* Data parallel execution is disabled for one input or one device.
DataParallel(c) == c.dp /\ c.batch > 1 /\ c.devices > 1

\* The assertions of the two constructors.
GenerativeConstructible(c) == c.len * c.seqs <= c.tokens
PoolingConstructible(c) == c.batch = 1 \/ c.batch = c.seqs

\* _update_num_xla_graphs
UpdateNumXlaGraphs == counted' = graphs'

\* TTWorker.init_device creates the runner; both count the graphs.
InitDevice ==
    /\ phase = "configured"
    /\ phase' = IF IF config.pooling THEN PoolingConstructible(config)
                   ELSE GenerativeConstructible(config)
                THEN "device" ELSE "failed"
    /\ UNCHANGED <<config, graphs, pending>>
    /\ UpdateNumXlaGraphs

\* load_model compiles nothing: the model is compiled when it is called (what it loads is
\* the subject of ModelLoading).
LoadModel ==
    /\ phase = "device"
    /\ phase' = "loaded"
    /\ UNCHANGED <<config, graphs, counted, pending>>

-----------------------------------------------------------------------------
(* Profiling and the KV cache. *)

\* The model, called on `rows' rows of `len' tokens with a page table for `users'
\* users; positions says for how many users there is a cache position.
Backbone(kv, rows, len, users, positions, blocks) ==
    <<"backbone", kv, rows, len, users, positions, blocks>>

\* _prepare_inputs of the attention asserts that there is a user for every row.
Runs(graph) ==
    CASE graph[1] = "backbone" -> graph[3] = graph[6] /\ graph[4] > 0
      [] graph[1] = "pooling" -> graph[3] > 0
      [] OTHER -> TRUE

\* The graphs of _dummy_run, for one number of tokens.
DummyRun(c, kv, len) ==
    {Backbone(kv, c.seqs, len, Users(c, v), Users(c, v), Blocks(c, v)) : v \in Variants(c)}

\* profile_run
ProfileRun(c) == DummyRun(c, "profile", MaxNumTokens(c))

\* determine_available_memory profiles a generative model on the longest input, with
\* caches of one element; then the model's graphs are traced again (reset_dynamo_cache).
DetermineAvailableMemory ==
    /\ phase = "loaded"
    /\ LET new == IF config.pooling THEN {} ELSE ProfileRun(config)
       IN IF \A g \in new : Runs(g)
          THEN phase' = "profiled" /\ graphs' = graphs \cup new
          ELSE phase' = "failed" /\ UNCHANGED graphs
    /\ UNCHANGED <<config, counted, pending>>

\* initialize_kv_cache; pooling models have no cache.
InitializeKVCache ==
    /\ phase = "profiled"
    /\ phase' = IF config.pooling \/ config.tp = 0 \/ config.kvHeads % config.tp = 0
                THEN "cached" ELSE "failed"
    /\ UNCHANGED <<config, graphs, counted, pending>>

-----------------------------------------------------------------------------
(* Warm-up: capture_model. *)

\* The generative _precompile_backbone.
PrecompileBackbone(c) == UNION {DummyRun(c, "cache", len) : len \in Paddings(c)}

\* _precompile_select_hidden_states
PrecompileSelectHiddenStates(c) == {<<"select_hidden_states", len>> : len \in Paddings(c)}

\* _precompile_sample_from_logits.  The batch is empty, so that no request is greedy.
PrecompileSampleFromLogits(c) == {<<"sampler", TRUE, {}>>, <<"argmax">>}

\* The rest is always called with max_num_reqs rows.
PrecompileComputeLogits == {<<"compute_logits">>}
PrecompileStructuredDecoding == {<<"structured_decode">>}
PrecompileGatherLogprobs == {<<"gather_logprobs">>}

\* capture_model of TTModelRunner; multimodal inputs are disabled.
CaptureGenerative(c) ==
    PrecompileBackbone(c) \cup PrecompileSelectHiddenStates(c)
        \cup PrecompileComputeLogits \cup PrecompileStructuredDecoding
        \cup PrecompileGatherLogprobs
        \cup (IF c.cpuSampling THEN {} ELSE PrecompileSampleFromLogits(c))

\* The model of the pooling runner, on `rows' rows of `len' tokens.
PoolingBackbone(rows, len) == <<"pooling", rows, len>>

\* Mutant: the batch sizes stop before batch_size.
BatchVariantsShort(c) ==
    {b \in IF c.all THEN 1..(c.batch - 1) ELSE {c.batch} :
        DataParallel(c) => b % c.devices = 0}

\* batch_variants
BatchVariants(c) ==
    {b \in IF c.all THEN 1..c.batch ELSE {c.batch} :
        DataParallel(c) => b % c.devices = 0}

\* capture_model of TTPoolingModelRunner.
CapturePooling(c) ==
    {PoolingBackbone(b, len) : b \in BatchVariants(c), len \in Paddings(c)}

\* compile_or_warm_up_model.
CompileOrWarmUp ==
    /\ phase = "cached"
    /\ phase' = "serving"
    /\ IF config.eager
       THEN UNCHANGED <<graphs, counted>>
       ELSE /\ graphs' = graphs \cup (IF config.pooling THEN CapturePooling(config)
                                      ELSE CaptureGenerative(config))
            /\ UpdateNumXlaGraphs
    /\ UNCHANGED <<config, pending>>

-----------------------------------------------------------------------------
(* Serving. *)

\* A batch as the scheduler may schedule it: its number of requests, the most tokens of
\* one, whether the others are as long, and what the sampler has to do for it.
Batches(c) ==
    {b \in [n : {1, 2, c.seqs - 1, c.seqs} \cap 1..c.seqs,
            longest : {1, c.len \div 2 + 1, c.len},
            full : IF c.pooling THEN BOOLEAN ELSE {FALSE},
            kind : IF c.pooling THEN {"pool"} ELSE {"greedy", "random", "mixed"},
            features : IF c.pooling THEN {{}} ELSE SUBSET Features,
            grammar : IF c.pooling THEN {FALSE} ELSE BOOLEAN,
            logprobs : IF c.pooling THEN {FALSE} ELSE BOOLEAN] :
        b.kind = "mixed" => b.n > 1}

\* All tokens of the batch: the scheduler stops at max_num_batched_tokens.
Total(c, b) == Min({c.tokens, IF b.full THEN b.n * b.longest ELSE b.n - 1 + b.longest})

\* Is any request longer than most_model_len?
UseMax(c, b) == c.most = 0 \/ b.longest > c.most

\* The graph of sample_from_logits: its flags are guarded by the trace.
SampleGraph(b) ==
    IF b.kind = "greedy" /\ b.features = {} THEN <<"argmax">>
    ELSE <<"sampler", b.kind = "random", b.features>>

\* What the generative runner calls in one piece of sample_tokens.
GenerativeGraphs(c, b) ==
    LET len == PaddedLen(c, b.longest)
        users == Users(c, UseMax(c, b))
    IN {Backbone("cache", c.seqs, len, users, Min({users, MaxNumTokens(c)}),
                 Blocks(c, UseMax(c, b))),
        <<"select_hidden_states", len>>, <<"compute_logits">>, SampleGraph(b)}
           \cup (IF b.grammar THEN {<<"structured_decode">>} ELSE {})
           \cup (IF b.logprobs THEN {<<"gather_logprobs">>} ELSE {})

\* The rows that make the batch divisible by the number of devices.
AdditionalInputs(c, b) ==
    IF DataParallel(c) /\ b.n % c.devices > 0 THEN c.devices - (b.n % c.devices) ELSE 0

\* The shape _prepare_inputs of the pooling runner gives the model.
PoolingGraph(c, b) ==
    IF c.batch = 1 THEN PoolingBackbone(1, PaddedLen(c, Total(c, b)))
    ELSE PoolingBackbone(b.n + AdditionalInputs(c, b), PaddedLen(c, b.longest))

\* TTModelRunner.execute_model; a batch must not be pending.
ExecuteModel(b) ==
    /\ phase = "serving" /\ ~config.pooling
    /\ pending = {}
    /\ pending' = {b}
    /\ UNCHANGED <<config, phase, graphs, counted>>

\* TTModelRunner.sample_tokens, for a batch that fits one execution.
SampleTokens ==
    /\ phase = "serving" /\ pending # {}
    /\ LET used == UNION {GenerativeGraphs(config, b) : b \in pending}
       IN IF \A g \in used : Runs(g)
          THEN graphs' = graphs \cup used /\ UNCHANGED phase
          ELSE phase' = "failed" /\ UNCHANGED graphs
    /\ pending' = {}
    /\ UNCHANGED <<config, counted>>

\* TTPoolingModelRunner.execute_model.
Pool(b) ==
    /\ phase = "serving" /\ config.pooling
    /\ IF Runs(PoolingGraph(config, b))
       THEN graphs' = graphs \cup {PoolingGraph(config, b)} /\ UNCHANGED phase
       ELSE phase' = "failed" /\ UNCHANGED graphs
    /\ UNCHANGED <<config, counted, pending>>

-----------------------------------------------------------------------------

Init ==
    /\ config \in Configs
    /\ phase = "start"
    /\ graphs = {}
    /\ counted = {}
    /\ pending = {}

Next ==
    \/ CheckAndUpdateConfig
    \/ InitDevice
    \/ LoadModel
    \/ DetermineAvailableMemory
    \/ InitializeKVCache
    \/ CompileOrWarmUp
    \/ \E b \in Batches(config) : ExecuteModel(b) \/ Pool(b)
    \/ SampleTokens

Spec == Init /\ [][Next]_vars

-----------------------------------------------------------------------------
(* Properties *)

\* The graphs that are compiled when they are first needed.  The code says so of the
\* sampler's variants for seeds (NOTE in _precompile_sample_from_logits); it is also so
\* for the other features, for a batch that mixes greedy and random requests, and for
\* every sampler under cpu_sampling, because sample_tokens does not use
\* sample_from_logits_func.
Lazy(g) == \/ g[1] = "sampler" /\ (g[3] # {} \/ ~g[2])
           \/ g[1] \in {"sampler", "argmax"} /\ config.cpuSampling

\* The configurations whose warm-up is meant to be complete: graphs are captured, for
\* all sizes of a batch, and the devices divide the largest.
WarmsUp(c) == ~c.eager /\ (c.pooling => c.all /\ (DataParallel(c) => c.batch % c.devices = 0))

\* Serving compiles nothing but lazy graphs (the assertion of _verify_num_xla_graphs):
\* whatever the batch, it is padded to a shape that the warm-up has gone through.
ServedFromWarmUp ==
    phase = "serving" /\ WarmsUp(config) => \A g \in graphs \ counted : Lazy(g)

\* A worker that got as far as serving fails on no batch: there is a padded length for
\* every one.  The profiling run has shown
\* that the page table has a row for every request, so that no batch is split into
\* executions; the sequence lengths must fit their array, which is as long as the
\* (padded) model.
NoLateFailure == [][phase = "serving" /\ config.seqs <= MaxNumTokens(config) =>
                        /\ phase' # "failed"
                        /\ ~config.pooling => \A v \in Variants(config) :
                                                  Users(config, v) = config.seqs]_vars
=============================================================================
