---------------------------- MODULE ModelLoading ----------------------------
(***************************************************************************)
(* What happens to a model between its construction and its first call:    *)
(* load_model of the vLLM runners (weights of layers that were cut off are *)
(* left out, modules are replaced and sharded), and the rewrites of        *)
(* tt_torch: expert layers (sparse_mlp.py) and weight formats              *)
(* (weight_dtype.py).                                                      *)
(*                                                                         *)
(* A model is a function from paths, sequences of names, to modules; the   *)
(* root is <<>>.  A name has a text and the number it is, -1 if none.      *)
(* A tensor is a sequence of rows.  `None' is "none".                      *)
(***************************************************************************)
EXTENDS Integers, FiniteSets, Sequences, SequencesExt

None == "none"

-----------------------------------------------------------------------------
(* load_model of the runners *)

\* _filter_weights_for_layer_override.  The first number after a name "layers" that is too
\* large drops the weight; a name there that is no number ends the search (ValueError).
SkipsWeight(path, target) ==
    LET places == {i \in 1..Len(path) - 1 : path[i].text = "layers"}
        bad == {i \in places : path[i + 1].number < 0}
    IN \E i \in places : path[i + 1].number >= target /\ \A j \in bad : i < j

\* target = 0: there is no override.
FilterWeights(paths, target) ==
    IF target = 0 THEN paths ELSE {path \in paths : ~SkipsWeight(path, target)}

\* The loader of vLLM: the weights of the checkpoint, put into the model as constructed.
LoadWeights(model, checkpoint, target) ==
    [p \in DOMAIN model |->
        IF p \in FilterWeights(DOMAIN checkpoint, target)
        THEN [model[p] EXCEPT !.weight = checkpoint[p].weight, !.bias = checkpoint[p].bias]
        ELSE model[p]]

\* A weight whose module the model does not have: KeyError.
LoadRaises(model, checkpoint, target) ==
    ~(FilterWeights(DOMAIN checkpoint, target) \subseteq DOMAIN model)

Ancestors(path) == {SubSeq(path, 1, i) : i \in 0..Len(path) - 1}

\* replace_modules: the override keeps the layer's own parameters and has no children.
ReplaceModules(model) ==
    LET kept == {p \in DOMAIN model : \A q \in Ancestors(p) : model[q].class # "RMSNorm"}
    IN [p \in kept |-> IF model[p].class = "RMSNorm"
                       THEN [model[p] EXCEPT !.class = "TTRMSNorm"] ELSE model[p]]

\* MODULE_TYPE_TO_WRAPPING_FUNC: the partition of the weight of a class.
Partition(class) ==
    CASE class \in {"MergedColumnParallelLinear", "QKVParallelLinear"} -> <<"batch", "model">>
      [] class \in {"ColumnParallelLinear", "ParallelLMHead"} -> <<"batch", None>>
      [] class = "RowParallelLinear" -> <<"model", "batch">>
      [] class = "VocabParallelEmbedding" -> <<None, "batch">>
      [] OTHER -> <<>>

\* The layers that are replaced, and not only marked.
Wrapped(class) ==
    CASE class = "MergedColumnParallelLinear" -> "XlaMergedColumnParallelLinear"
      [] class = "QKVParallelLinear" -> "XlaQKVParallelLinear"
      [] OTHER -> class

\* shard_model
ShardModel(model) ==
    LET replaced(p) == Wrapped(model[p].class) # model[p].class
        kept == {p \in DOMAIN model : \A q \in Ancestors(p) : ~replaced(q)}
    IN [p \in kept |-> [model[p] EXCEPT !.class = Wrapped(model[p].class),
                                        !.partition = Partition(model[p].class)]]

\* The model as load_model leaves it.
LoadModel(model, checkpoint, target, tensorParallel) ==
    LET loaded == ReplaceModules(LoadWeights(model, checkpoint, target))
    IN IF tensorParallel THEN ShardModel(loaded) ELSE loaded

-----------------------------------------------------------------------------
(* vllm_distributed_utils.py: merged linear layers.  A layer has the sizes *)
(* of its outputs, a weight and a bias (<<>> for None), and the flags      *)
(* skip_bias_add and return_bias.                                          *)

\* _load_weights_from_merged_column_parallel_linear
MergedSlices(rows, sizes) ==
    [i \in DOMAIN sizes |-> LET from == FoldSeq(+, 0, SubSeq(sizes, 1, i - 1))
                            IN SubSeq(rows, from + 1, from + sizes[i])]

\* Mutant: the key projection is cut where the query's size ends, counted from the front.
QKVSlicesOverlap(rows, sizes) ==
    <<SubSeq(rows, 1, sizes[1]), SubSeq(rows, sizes[1] + 1, sizes[1] + sizes[2]),
      SubSeq(rows, sizes[2] + 1, Len(rows))>>

\* _load_weights_from_qkv_linear: the value projection has what remains.
QKVSlices(rows, sizes) ==
    <<SubSeq(rows, 1, sizes[1]), SubSeq(rows, sizes[1] + 1, sizes[1] + sizes[2]),
      SubSeq(rows, sizes[1] + sizes[2] + 1, Len(rows))>>

\* F.linear: every output is a row of the weight with its element of the bias.
Linear(weight, bias) ==
    [i \in DOMAIN weight |-> <<weight[i], IF bias = <<>> THEN None ELSE bias[i]>>]

\* XlaMergedColumnParallelLinear.forward: the projections, and the bias that was not added.
MergedForward(layer) ==
    LET weights == MergedSlices(layer.weight, layer.sizes)
        biases == IF layer.bias = <<>> THEN [i \in DOMAIN layer.sizes |-> <<>>]
                  ELSE MergedSlices(layer.bias, layer.sizes)
    IN [out |-> FlattenSeq([i \in DOMAIN weights |->
                    Linear(weights[i], IF layer.skip THEN <<>> ELSE biases[i])]),
        bias |-> IF layer.skip THEN FlattenSeq(biases) ELSE <<>>]

\* XlaQKVParallelLinear.forward.  With skip_bias_add it concatenates three times None,
\* which raises.
QKVForward(layer) ==
    LET weights == QKVSlices(layer.weight, layer.sizes)
        biases == IF layer.bias = <<>> THEN <<<<>>, <<>>, <<>>>>
                  ELSE QKVSlices(layer.bias, layer.sizes)
    IN IF layer.skip THEN "raises"
       ELSE [out |-> FlattenSeq([i \in 1..3 |-> Linear(weights[i], biases[i])]), bias |-> <<>>]

\* What a layer computes, by its class; the layers of vLLM (external) use their weight as a
\* whole.  TTRMSNorm.forward is RMSNorm's, of the same weight.
Forward(layer) ==
    CASE layer.class = "XlaMergedColumnParallelLinear" -> MergedForward(layer)
      [] layer.class = "XlaQKVParallelLinear" -> QKVForward(layer)
      [] OTHER -> [out |-> Linear(layer.weight, IF layer.skip THEN <<>> ELSE layer.bias),
                   bias |-> IF layer.skip THEN layer.bias ELSE <<>>]

-----------------------------------------------------------------------------
(* sparse_mlp.py: enable_sparse_mlp.  A module has a family (what its      *)
(* class name contains: "deepseek", another one that is "listed", or       *)
(* "other"), its attributes ("gate_up_proj" is one of its experts), and    *)
(* the number of experts they tell, 0 if none.  `targets' are the families *)
(* of target_classes, {} if they are not given.                            *)

\* _is_moe_mlp
IsMoeMLP(m) == m.family # "other" \/ {"router", "experts"} \subseteq m.attributes

\* should_replace
ShouldReplace(m, targets) == IF targets = {} THEN IsMoeMLP(m) ELSE m.family \in targets

\* _get_moe_config, then the configuration of the model.
MoeConfig(m, localExperts) ==
    IF "experts" \in m.attributes /\ m.experts > 0 THEN m.experts ELSE localExperts

\* create_a2a_from_deepseek_v3_moe
FromDeepseek(m) == m.family = "deepseek" /\ {"gate", "experts"} \subseteq m.attributes

\* replace_mlp
Replaces(m, targets, localExperts) ==
    ShouldReplace(m, targets) /\ (FromDeepseek(m) \/ MoeConfig(m, localExperts) > 0)

\* Mutant: the children of a module that was replaced are visited.
ReplacedModulesNested(model, targets, localExperts) ==
    {p \in DOMAIN model : Replaces(model[p], targets, localExperts)}

\* The traversal of enable_sparse_mlp is from the root on and skips what is below a module
\* that was replaced.  The name of the root is "", which is no prefix of "a.b" with a dot
\* after it: nothing is skipped because of the root.
ReplacedModules(model, targets, localExperts) ==
    {p \in DOMAIN model :
        /\ Replaces(model[p], targets, localExperts)
        /\ \A q \in Ancestors(p) \ {<<>>} : ~Replaces(model[q], targets, localExperts)}

\* A2aSparseMLP.__init__ takes a router and experts with fused weights.
EnableRaises(model, targets, localExperts) ==
    \E p \in ReplacedModules(model, targets, localExperts) :
        ~FromDeepseek(model[p]) /\ ~({"router", "experts", "gate_up_proj"}
                                        \subseteq model[p].attributes)

\* The modules whose own forward runs when the model that is returned is called.  The
\* replacement of the root becomes a child named "" that nothing calls.
StillRun(model, targets, localExperts) ==
    LET replaced == ReplacedModules(model, targets, localExperts) \ {<<>>}
    IN {p \in DOMAIN model : (Ancestors(p) \cup {p}) \cap replaced = {}}

-----------------------------------------------------------------------------
(* weight_dtype.py.  A model is a function from parameters to the sequence *)
(* of their parametrizations; "ours" are those of this module.             *)

\* resolved: the pattern that comes last, or the default for weights.  A pattern is the
\* set of the names it matches, with a dtype.
Resolved(p, isWeight, default, patterns) ==
    LET matching == {i \in DOMAIN patterns : p \in patterns[i].names}
    IN IF matching # {} THEN patterns[Max(matching)].dtype
       ELSE IF isWeight THEN default ELSE None

\* apply_weight_dtype_overrides; a parameter that is parametrized is no Parameter any more,
\* and is left alone.
ApplyOverrides(params, weights, default, patterns) ==
    [p \in DOMAIN params |->
        LET dtype == Resolved(p, p \in weights, default, patterns)
        IN IF dtype # None /\ params[p] = <<>> THEN <<<<"ours", dtype>>>> ELSE params[p]]

\* Another library registers a parametrization.
Register(params, p) == [params EXCEPT ![p] = Append(@, <<"other", None>>)]

\* Mutant: all parametrizations of an overridden parameter are removed.
RemoveOverridesAll(params) ==
    [p \in DOMAIN params |->
        IF \E i \in DOMAIN params[p] : params[p][i][1] = "ours" THEN <<>> ELSE params[p]]

\* remove_weight_dtype_overrides
RemoveOverrides(params) ==
    [p \in DOMAIN params |-> SelectSeq(params[p], LAMBDA q : q[1] # "ours")]

-----------------------------------------------------------------------------
(* Properties *)

\* Loading changes the classes of a model and nothing else: every module that was built is
\* there, computes what the layer of the checkpoint does ("Same forward functionality as
\* QKVParallelLinear"), and on a mesh every linear layer and embedding is partitioned.  The
\* weights of the layers that were cut off are not looked for.  A query-key-value layer
\* that leaves its bias to the caller cannot be called.
LoadedModelSame(model, checkpoint, target, tensorParallel) ==
    LET loaded == LoadModel(model, checkpoint, target, tensorParallel)
        callable(p) == ~(loaded[p].class = "XlaQKVParallelLinear" /\ loaded[p].skip)
    IN /\ ~LoadRaises(model, checkpoint, target)
       /\ DOMAIN loaded = DOMAIN model
       /\ \A p \in DOMAIN model : callable(p) => Forward(loaded[p]) = Forward(checkpoint[p])
       /\ tensorParallel => \A p \in DOMAIN model :
              model[p].class \in {"RMSNorm", "Module"} <=> loaded[p].partition = <<>>

\* An expert layer that enable_sparse_mlp is to replace: by the patterns, or of a class it
\* was given.
ToReplace(m, targets) ==
    /\ ShouldReplace(m, targets)
    /\ \/ FromDeepseek(m)
       \/ {"router", "experts"} \subseteq m.attributes /\ m.experts > 0

\* Below the root, no expert layer that is to be replaced runs as it was, no module without
\* experts is replaced, and none inside another one.  (A model that is an expert layer
\* itself runs its own forward, see StillRun.  A module whose class name passes for an
\* expert layer and that has no router or no fused weights makes the call raise, if it or
\* the configuration of the model tells a number of experts.)
ExpertLayersReplaced(model, targets, localExperts) ==
    ~EnableRaises(model, targets, localExperts) =>
        LET replaced == ReplacedModules(model, targets, localExperts)
        IN /\ \A p \in StillRun(model, targets, localExperts) \ {<<>>} :
                  ~ToReplace(model[p], targets)
           /\ \A p \in replaced : "experts" \in model[p].attributes
           /\ \A p, q \in replaced \ {<<>>} : q \notin Ancestors(p)

\* Removing the overrides gives back the model as it was, with what others have
\* registered before and after, whichever patterns were applied and however often.  (A
\* pattern that ends in a wildcard matches the original of a parametrization, too; here
\* the patterns are those that match parameters only.)
OverridesUndone(params, weights, default, first, second, others) ==
    LET applied == ApplyOverrides(ApplyOverrides(params, weights, default, first),
                                  weights, default, second)
        register(ps) == FoldSet(LAMBDA p, acc : Register(acc, p), ps, others)
    IN /\ RemoveOverrides(register(applied)) = register(params)
       /\ \A p \in DOMAIN params : Len(applied[p]) <= Len(params[p]) + 1
=============================================================================
