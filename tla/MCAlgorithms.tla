---------------------------- MODULE MCAlgorithms ----------------------------
(***************************************************************************)
(* The pure parts of the Python packages, on every small input: a state    *)
(* holds one call, and the invariants say what its result must be.         *)
(***************************************************************************)
EXTENDS Integers, FiniteSets, Sequences, SequencesExt, TLC

CONSTANTS NoOne, Zero, Stale, VocabSize

VARIABLE call

Pooling == INSTANCE PoolingRunner
Sampling == INSTANCE Sampler
MoE == INSTANCE SparseMLP
Loading == INSTANCE ModelLoading
Results == INSTANCE RunnerOutputs
Backend == INSTANCE TorchBackend

-----------------------------------------------------------------------------
(* Pooling: three requests of up to three tokens, fused into one row or in *)
(* a row each, on one or two devices; another request was in the batch.    *)

PoolingConfigs ==
    {[batch |-> b, seqs |-> n, limit |-> 3, paddings |-> {2, 4, 16}, devices |-> d,
      decoder |-> causal] : b \in {1, 3}, n \in {1, 3}, d \in {1, 2}, causal \in BOOLEAN}

PoolStep ==
    \E c \in PoolingConfigs, n \in 1..3, whole, num \in [1..3 -> 1..3] :
        /\ c.batch \in {1, c.seqs} /\ (c.batch = 1 => c.devices = 1)
        /\ n <= c.seqs
        /\ \A r \in 1..3 : IF r <= n THEN num[r] <= whole[r] ELSE num[r] = 1 /\ whole[r] = 1
        /\ call' = [kind |-> "pool", c |-> c, slots |-> <<4, 5>>, new |-> [i \in 1..n |-> i],
                    cached |-> <<>>, len |-> whole, num |-> num]

-----------------------------------------------------------------------------
(* Outputs: two prompts in three steps, of which the first may be          *)
(* preempted; two steps of structured decoding on the same buffers.        *)

\* The tokens computed of a request before a step, and the chunks the scheduler gives it:
\* pieces of the prompt, then single tokens.
Before(n, preempted, i) ==
    FoldSeq(+, 0, [k \in 1..i - 1 |-> IF \E j \in k..i - 1 : preempted[j] THEN 0 ELSE n[k]])
Chunks(n, preempted, len) ==
    \A i \in 1..3 : /\ n[i] <= 1 \/ Before(n, preempted, i) + n[i] <= len
                    /\ preempted[i] => n[i] = 0

PromptStep ==
    \E len \in 1..5, n1 \in [1..3 -> 0..3], n2 \in [1..3 -> 0..1],
       preempted \in [1..3 -> BOOLEAN], rows \in {1, 2} :
        /\ Chunks(n1, preempted, len)
        /\ call' = [kind |-> "prompt", len |-> <<len, 2>>, rows |-> rows,
                    steps |-> [i \in 1..3 |-> [num |-> <<n1[i], n2[i]>>,
                                    preempted |-> IF preempted[i] THEN {1} ELSE {}]]]

Grammars == [1..2 -> SUBSET (0..2)]

GrammarStep ==
    \E batch \in {<<1>>, <<2>>, <<1, 2>>, <<2, 1>>},
       ids \in {<<>>, <<1>>, <<2>>, <<1, 2>>, <<2, 1>>},
       allowed \in Grammars, required \in [1..2 -> BOOLEAN],
       mask \in [1..2 -> [1..2 -> {0, 1, 3}]] :
        call' = [kind |-> "grammar", batch |-> batch, ids |-> ids, allowed |-> allowed,
                 buffers |-> [required |-> required, mask |-> mask]]

-----------------------------------------------------------------------------
(* Sampling: pairs of requests that differ in what they ask for.           *)

Plain == [logits |-> <<2, 5, 3>>, temp |-> 0, k |-> 0, p |-> 100, minP |-> 0, allowed |-> {},
          minTokens |-> 0, stops |-> {1}, badWords |-> {}, bias |-> <<>>, rep |-> 1,
          freq |-> 0, pres |-> 0, seeded |-> FALSE, prompt |-> <<0>>, out |-> <<1>>]

Asking ==
    {Plain} \cup {[Plain EXCEPT !.allowed = a] : a \in {{0}, {0, 2}}}
    \cup {[Plain EXCEPT !.minTokens = n] : n \in {1, 2}}
    \cup {[Plain EXCEPT !.badWords = w] : w \in {{<<1>>}, {<<1, 1>>, <<0, 2>>}, {<<2, 1, 1>>}}}
    \cup {[Plain EXCEPT !.bias = <<4, 0, 0>>], [Plain EXCEPT !.bias = <<0, -4, 0>>]}
    \cup {[Plain EXCEPT !.rep = 2], [Plain EXCEPT !.freq = 3], [Plain EXCEPT !.pres = 3]}
    \cup {[Plain EXCEPT !.seeded = TRUE],
          [Plain EXCEPT !.out = <<>>, !.logits = <<-3, -3, -4>>],
          [Plain EXCEPT !.allowed = {1, 2}, !.minTokens = 2, !.badWords = {<<1, 0>>}]}

Requests ==
    Asking \cup {[r EXCEPT !.temp = t, !.k = k, !.p = p, !.minP = m] :
                    r \in Asking, t \in {1, 2}, k \in {0, 1, 2},
                    p \in {60, 100}, m \in {0, 30}}

SampleStep ==
    \E r \in Requests, s \in Asking \cup {[x EXCEPT !.temp = 1] : x \in Asking} :
        call' = [kind |-> "sample", batch |-> <<r, s>>]

TopStep ==
    \E w \in [Sampling!Vocab -> {0, 1, 2, 4, 7}], k \in 0..VocabSize,
       p \in {5, 30, 50, 75, 100} :
        /\ \E t \in Sampling!Vocab : w[t] > 0
        /\ call' = [kind |-> "top", w |-> w, k |-> k, p |-> p]

-----------------------------------------------------------------------------
(* Experts: tiles of two tokens, up to four of them, or two rows of three. *)

Routes(c) ==
    [MoE!Tokens(c) -> {s \in [1..c.K -> MoE!Experts(c)] :
                          \A i, j \in 1..c.K : s[i] = s[j] => i = j}]

ExpertStep ==
    \E i \in {"sparse", "stacked"} \cup MoE!A2A,
       b, s \in 1..4, d \in 1..2, k \in 1..2, host, adapter \in BOOLEAN :
        LET c == [B |-> b, S |-> s, E |-> 3, K |-> k, M |-> 2, D |-> d, I |-> 2, impl |-> i,
                  host |-> host, adapter |-> adapter]
        IN /\ adapter => i \in MoE!A2A
           /\ host \/ adapter => d = 1 /\ b * s <= 2
           /\ \/ b * s <= (IF k = 1 THEN 4 ELSE 2)
              \/ <<b, s, d, k>> = <<2, 3, 1, 1>>
           /\ \E route \in Routes(c) : call' = [kind |-> "experts", c |-> c, route |-> route]

-----------------------------------------------------------------------------
(* Loading. *)

Sizes == [1..3 -> 0..2] \cup [1..2 -> 1..2]
Outputs(sizes) == FoldSeq(+, 0, sizes)
Layers == {"MergedColumnParallelLinear", "QKVParallelLinear", "ColumnParallelLinear",
           "RowParallelLinear", "ParallelLMHead", "VocabParallelEmbedding"}

\* A layer whose rows are numbered from a place on.
Layer(class, sizes, bias, skip, from) ==
    [class |-> class, sizes |-> sizes, skip |-> skip, partition |-> <<>>,
     weight |-> [i \in 1..Outputs(sizes) |-> from + i],
     bias |-> IF bias THEN [i \in 1..Outputs(sizes) |-> from + 10 + i] ELSE <<>>]

Name(text, number) == [text |-> text, number |-> number]
Container == Layer("Module", <<0, 0>>, FALSE, FALSE, 0)

\* Two blocks of layers, of which the override may leave one.
LoadStep ==
    \E class \in Layers \cup {"RMSNorm"}, sizes \in Sizes, bias, skip, parallel \in BOOLEAN,
       second \in Layers \cup {"RMSNorm"}, target \in {0, 1} :
        LET block(n) == <<Name("layers", -1), Name("block", n)>>
            layer(n) == Append(block(n), Name("layer", -1))
            checkpoint == (<<>> :> Container) @@ (<<Name("layers", -1)>> :> Container)
                          @@ (block(0) :> Container) @@ (block(1) :> Container)
                          @@ (layer(0) :> Layer(class, sizes, bias, skip, 0))
                          @@ (layer(1) :> Layer(second, <<1, 1, 1>>, bias, FALSE, 20))
            built == IF target = 0 THEN DOMAIN checkpoint
                     ELSE DOMAIN checkpoint \ {block(1), layer(1)}
        IN /\ class = "QKVParallelLinear" => Len(sizes) = 3
           /\ call' = [kind |-> "load", checkpoint |-> checkpoint, target |-> target,
                       parallel |-> parallel, model |-> [p \in built |->
                           [checkpoint[p] EXCEPT !.weight = <<>>, !.bias = <<>>]]]

\* Layers of classes with and without experts; those that tell how many have them fused.
Modules ==
    {[family |-> f, attributes |-> a, experts |-> IF "gate_up_proj" \in a THEN 4 ELSE 0] :
        f \in {"deepseek", "listed", "other"},
        a \in {{}, {"router"}, {"router", "experts"}, {"gate", "experts"},
               {"router", "experts", "gate_up_proj"}}}

\* A module that contains another one, in a model that may be a layer itself.
ModelStep ==
    \E f \in [{<<"a">>, <<"a", "b">>} -> Modules], local \in {0, 4},
       targets \in {{}, {"deepseek", "other"}},
       root \in {m \in Modules : m.attributes \in
                    {{}, {"router", "experts", "gate_up_proj"}}} :
        call' = [kind |-> "model", local |-> local, targets |-> targets,
                 model |-> (<<>> :> root) @@ f]

OverrideStep ==
    \E params \in [{"w1", "w2", "b"} -> {<<>>, <<<<"other", "none">>>>}],
       default \in {"none", "bf8"}, names1, names2, others \in SUBSET {"w1", "w2", "b"} :
        call' = [kind |-> "override", params |-> params, default |-> default,
                 others |-> others,
                 first |-> <<[names |-> names1, dtype |-> "bf4"],
                            [names |-> names2, dtype |-> "bf16"]>>,
                 second |-> <<[names |-> names2, dtype |-> "bf4"]>>]

-----------------------------------------------------------------------------
(* Compiled models: an input, a parameter, a buffer, three computations of *)
(* which the first uses the input and the others what precedes, a write.   *)

Op(op, target, args, k, dtype) ==
    [op |-> op, target |-> target, args |-> args, k |-> k, dtype |-> dtype, user |-> TRUE]
Function(target, args, k) == Op("call_function", target, args, k, "any")

Computations(a, b) ==
    {Function("add", <<a, b>>, 0), Function("softmax", <<a>>, 0), Function("topk", <<a>>, 0),
     Function("tuple_getitem", <<a, b>>, 1), Op("call_method", "topk", <<a>>, 0, "any"),
     Op("call_function", "cast", <<a>>, 0, "f32"), Op("assert", "assert", <<a>>, 0, "any")}
    \cup {Op("call_module", "LayerNorm", <<a>>, k, "any") : k \in 0..2}
    \cup {Op("call_module", t, <<a>>, k, "any") :
             t \in {"AdaptiveAvgPool1d", "AdaptiveAvgPool2d"}, k \in 1..2}
    \cup {Op("call_function", "norm_pattern", <<a, b>>, 0, d) : d \in {"bf16", "f32"}}

\* Only results of topk are indexed, and they are not used otherwise.
Indexed(a) == {Function("getitem", <<a>>, k) : k \in 0..1}
WellFormed(g) ==
    \A n \in DOMAIN g : \A i \in DOMAIN g[n].args :
        LET arg == g[g[n].args[i]]
        IN arg.op # "assert" /\ (g[n].target = "getitem" <=> arg.target = "topk")

Attributes == [p |-> "parameter", weight |-> "parameter", bias |-> "parameter",
               b |-> "buffer", x |-> "user"]
Tensor(t, dtype) == Backend!Term(t, 0, <<>>, dtype)

CompileStep ==
    \E dtype \in {"bf16", "f32"},
       options \in {{"aot", "fusion"}, {"composite"}, {"fusion", "composite"}},
       how \in {[legacy |-> l, onHost |-> h, set |-> s] :
                    l \in BOOLEAN, h \in {{}, {"b", "x"}}, s \in {{}, {"b"}}},
       one \in Computations(10, 20), dest \in {0, 10, 30}, out \in {<<60>>, <<50, 60>>} :
    \E two \in Computations(40, 30) \cup Indexed(40),
       three \in {Function("add", <<50, 40>>, 0), Function("softmax", <<50>>, 0)} \cup Indexed(40) :
        LET nodes == (10 :> Op("placeholder", "x", <<>>, 0, "any"))
                     @@ (20 :> Op("get_attr", "p", <<>>, 0, "any"))
                     @@ (30 :> Op("get_attr", "b", <<>>, 0, "any"))
                     @@ (40 :> one) @@ (50 :> two) @@ (60 :> three)
                     @@ (80 :> Op("output", "output", out, 0, "any"))
            g == IF dest = 0 THEN nodes
                 ELSE nodes @@ (70 :> Op("copy_", "copy_", <<dest, 60>>, 0, "any"))
        IN /\ WellFormed(g)
           /\ how.legacy => how.onHost = {}
           /\ how.set # {} => dest = 30 /\ how.onHost = {}
           /\ call' = [kind |-> "compile", g |-> g, options |-> options, how |-> how,
                       attrs |-> [t \in {"p", "weight", "bias", "b"} |-> Tensor(t, dtype)],
                       args |-> <<[x |-> Tensor("x1", dtype)], [x |-> Tensor("x2", dtype)]>>]

-----------------------------------------------------------------------------

Init == call = [kind |-> "none"]

Next ==
    /\ call.kind = "none"
    /\ \/ PoolStep
       \/ PromptStep
       \/ GrammarStep
       \/ TopStep
       \/ SampleStep
       \/ ExpertStep
       \/ LoadStep
       \/ ModelStep
       \/ OverrideStep
       \/ CompileStep

Spec == Init /\ [][Next]_call

-----------------------------------------------------------------------------

\* Every pooled request gets what it would have got alone (PoolingRunner.PooledAsIfAlone).
PooledAsIfAlone == call.kind = "pool" /\ ~Pooling!Raises(call.slots, call.cached) =>
    Pooling!PooledAsIfAlone(call.c, Pooling!UpdateStates(call.slots, call.new, call.cached),
                            call.len, call.num)

\* Prompt logprobs belong to their positions (RunnerOutputs.PromptLogprobsRight).
PromptLogprobsRight == call.kind = "prompt" =>
    Results!PromptLogprobsRight(call.steps, call.rows, call.len)

\* Grammars bind their own requests (RunnerOutputs.MaskedAsAsked).
MaskedAsAsked == call.kind = "grammar" =>
    Results!MaskedAsAsked(call.buffers, call.batch, call.ids, call.allowed, 0..2)

\* No request of a batch is given a token that is banned for it (Sampler.BansHold).
BansHold == call.kind = "sample" => Sampling!BansHold(call.batch)

\* The other requests of the batch make no difference (Sampler.SampledAsIfAlone).
SampledAsIfAlone == call.kind = "sample" => Sampling!SampledAsIfAlone(call.batch)

\* The cut-offs are those of top-k and top-p (Sampler.TopKTopPExact).
TopKTopPExact == call.kind = "top" => Sampling!TopKTopPExact(call.w, call.k, call.p)

\* Every token gets the outputs of its own experts (SparseMLP.RoutedToOwnExperts).
RoutedToOwnExperts == call.kind = "experts" => MoE!RoutedToOwnExperts(call.c, call.route)

\* Loading leaves what a model computes as it was (ModelLoading.LoadedModelSame).
LoadedModelSame == call.kind = "load" =>
    Loading!LoadedModelSame(call.model, call.checkpoint, call.target, call.parallel)

\* The expert layers of a model are replaced, and only those
\* (ModelLoading.ExpertLayersReplaced).
ExpertLayersReplaced == call.kind = "model" =>
    Loading!ExpertLayersReplaced(call.model, call.targets, call.local)

\* A compiled model does what was written (TorchBackend.CompiledAsWritten).
CompiledAsWritten == call.kind = "compile" =>
    Backend!CompiledAsWritten(call.g, Attributes, call.attrs, call.how.onHost,
                              call.how.legacy, call.options, call.args, call.how.set)

\* Overrides of weight formats can be undone (ModelLoading.OverridesUndone).
OverridesUndone == call.kind = "override" =>
    Loading!OverridesUndone(call.params, {"w1", "w2"}, call.default, call.first, call.second,
                            call.others)
=============================================================================
