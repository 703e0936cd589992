---------------------------- MODULE TorchBackend ----------------------------
(***************************************************************************)
(* The torch.compile backend "tt" (tt_torch/backend): the passes over an   *)
(* FX graph (backend.py torch_pass_pipeline, passes.py, composite_ops.py,  *)
(* fusion_providers.py) and the executor that runs the result again and    *)
(* again on a device (XLAExecutor).                                        *)
(*                                                                         *)
(* A graph is a function from node numbers, in the order of the graph, to  *)
(* nodes.  Those the user wrote are multiples of ten, so that passes can   *)
(* put others between them.  A node has an op, a target, the nodes it uses *)
(* (args), a number k (the index of a getitem, the size of a pooling, the  *)
(* parameters of a layer norm), a dtype (of a cast) and user (a cast the   *)
(* user wrote, and not a decomposition).  What a node computes is a term   *)
(* over the inputs; a composite operation means what the operation it      *)
(* replaces does.  Writes (copy_) come last in an exported graph, so that  *)
(* every node reads what was there before.                                 *)
(***************************************************************************)
EXTENDS Integers, FiniteSets, Sequences, SequencesExt

Uses(g, n) == {m \in DOMAIN g : n \in ToSet(g[m].args)}

\* replace_all_uses_with, for some of the users.
Redirect(g, users, n, by) ==
    [m \in DOMAIN g |-> IF m \notin users THEN g[m]
        ELSE [g[m] EXCEPT !.args = [i \in DOMAIN @ |-> IF @[i] = n THEN by ELSE @[i]]]]

Erase(g, ns) == [m \in DOMAIN g \ ns |-> g[m]]
Added(g, n, node) == [m \in DOMAIN g \cup {n} |-> IF m = n THEN node ELSE g[m]]
Node(op, target, args) ==
    [op |-> op, target |-> target, args |-> args, k |-> 0, dtype |-> "any", user |-> FALSE]

Ordered(ns) ==
    [i \in 1..Cardinality(ns) |-> CHOOSE n \in ns : Cardinality({m \in ns : m < n}) = i - 1]

-----------------------------------------------------------------------------
(* What a graph computes, for the values of its inputs and, of those whose *)
(* constant evaluation is cached, the values at the first call.            *)

LayerNormAttrs == <<"weight", "bias">>

Canonical(target) ==
    CASE target = "composite_topk" -> "topk"
      [] target = "composite_rms_norm" -> "rms_norm"
      [] target = "composite_layer_norm" -> "layer_norm"
      [] OTHER -> target

Term(f, k, args, dtype) == [f |-> f, k |-> k, args |-> args, dtype |-> dtype]

\* One node, from the terms of its arguments.
Apply(node, args, inputs) ==
    LET dtype == args[1].dtype
        topk(k) == Term("getitem", k, <<Term("topk", 0, args, dtype)>>, dtype)
    IN CASE node.target = "cast" ->
                IF dtype = node.dtype THEN args[1] ELSE Term("cast", 0, args, node.dtype)
         [] node.target = "tuple_getitem" -> args[node.k + 1]
         [] node.target = "topk_values" -> topk(0)
         [] node.target = "topk_indices" -> topk(1)
         [] node.target = "mean" ->
                Term(IF node.k = 1 THEN "AdaptiveAvgPool1d" ELSE "AdaptiveAvgPool2d", 1,
                     args, dtype)
         [] node.target = "norm_pattern" -> Term("rms_norm", 0, args, node.dtype)
         [] node.target = "LayerNorm" ->
                Term("layer_norm", 0,
                     args \o [i \in 1..node.k |-> inputs[LayerNormAttrs[i]]], dtype)
         [] OTHER -> Term(Canonical(node.target), node.k, args, dtype)

\* The terms of the nodes, in the order of the graph.  A marked constant or parameter is
\* evaluated once.
Values(g, inputs, first) ==
    LET term(val, node) ==
            CASE node.op \in {"placeholder", "get_attr"} -> inputs[node.target]
              [] node.op = "mark" -> IF node.dtype = "input" THEN val[node.args[1]]
                                     ELSE first[g[node.args[1]].target]
              [] node.op \in {"output", "copy_", "assert"} -> Term(node.op, 0, <<>>, "any")
              [] OTHER -> Apply(node, [i \in DOMAIN node.args |-> val[node.args[i]]], inputs)
    IN FoldLeft(LAMBDA val, n : Added(val, n, term(val, g[n])), <<>>, Ordered(DOMAIN g))

\* The results of a run: what is returned, and what is written to which input.
Run(g, inputs, first) ==
    LET val == Values(g, inputs, first)
        out == CHOOSE n \in DOMAIN g : g[n].op = "output"
        writes == {n \in DOMAIN g : g[n].op = "copy_"}
    IN [returned |-> [i \in DOMAIN g[out].args |-> val[g[out].args[i]]],
        written |-> [t \in {g[g[n].args[1]].target : n \in writes} |->
            val[g[CHOOSE n \in writes : g[g[n].args[1]].target = t].args[2]]]]

-----------------------------------------------------------------------------
(* passes.py, before the export *)

\* rewrite_adaptive_avgpool_to_mean
RewriteAdaptiveAvgPool(g) ==
    [n \in DOMAIN g |->
        IF g[n].target \in {"AdaptiveAvgPool1d", "AdaptiveAvgPool2d"} /\ g[n].k = 1
        THEN [g[n] EXCEPT !.op = "call_function", !.target = "mean",
                          !.k = IF g[n].target = "AdaptiveAvgPool1d" THEN 1 ELSE 2]
        ELSE g[n]]

\* run_fusion_passes: the nodes of an RMS norm, one node here, become one.  The replacement
\* has no cast, whatever dtype the pattern matched.
RunFusionPasses(g) ==
    [n \in DOMAIN g |->
        IF g[n].target = "norm_pattern"
        THEN [g[n] EXCEPT !.op = "call_function", !.target = "rms_norm", !.dtype = "any"]
        ELSE g[n]]

\* _get_used_output_indices
UsedOutputIndices(g, n) ==
    {g[u].k : u \in {u \in Uses(g, n) : g[u].target = "getitem" /\ Uses(g, u) # {}}}

\* _replace_multi_output_op; without a variant for the outputs that are used, that for all.
ReplaceMultiOutputOp(g, n) ==
    LET used == UsedOutputIndices(g, n)
        variant == CASE used = {0} -> "topk_values"
                     [] used = {1} -> "topk_indices"
                     [] OTHER -> "composite_topk"
        items == {u \in Uses(g, n) : g[u].target = "getitem"}
        replaced == [g EXCEPT ![n].target = variant, ![n].op = "call_function"]
        redirect(h, u) == IF h[u].k \in used THEN Redirect(h, Uses(h, u), u, n) ELSE h
    IN IF Cardinality(used) # 1 THEN replaced
       ELSE Erase(FoldLeft(redirect, replaced, Ordered(items)), items)

\* replace_layer_norm_module: the parameters become nodes of the graph.
ReplaceLayerNormModule(g, n) ==
    LET attr(i) == n - 10 + 2 * i
        with == FoldLeft(LAMBDA h, i : Added(h, attr(i),
                                             Node("get_attr", LayerNormAttrs[i], <<>>)),
                         g, [i \in 1..g[n].k |-> i])
    IN [with EXCEPT ![n].op = "call_function", ![n].target = "composite_layer_norm",
                    ![n].args = @ \o [i \in 1..g[n].k |-> attr(i)], ![n].k = 0]

\* handle_composite_ops; a method is looked up by its name.
HandleCompositeOps(g) ==
    LET step(h, n) ==
            CASE n \notin DOMAIN h -> h
              [] n \in DOMAIN h /\ h[n].target = "topk" -> ReplaceMultiOutputOp(h, n)
              [] n \in DOMAIN h /\ h[n].target = "LayerNorm" -> ReplaceLayerNormModule(h, n)
              [] n \in DOMAIN h /\ h[n].target = "rms_norm" ->
                     [h EXCEPT ![n].target = "composite_rms_norm"]
              [] OTHER -> h
    IN FoldLeft(step, g, Ordered(DOMAIN g))

-----------------------------------------------------------------------------
(* torch.export (external): an operation on a narrow type is decomposed    *)
(* into one on float32, between casts.  The signature tells of what kind   *)
(* the inputs are and which are written.                                   *)

Dtypes(g, inputs) ==
    LET values == Values(g, inputs, inputs)
    IN [n \in DOMAIN g |-> values[n].dtype]

RunDecompositions(g, inputs) ==
    LET dtypes == Dtypes(g, inputs)
        promoted == {n \in DOMAIN g : g[n].target = "softmax" /\ dtypes[n] = "bf16"}
        cast(arg, dtype) == [Node("call_function", "cast", <<arg>>) EXCEPT !.dtype = dtype]
        step(h, n) == [Added(Added(h, n - 3, cast(h[n].args[1], "f32")),
                             n - 2, [h[n] EXCEPT !.args = <<n - 3>>])
                       EXCEPT ![n] = cast(n - 2, "bf16")]
    IN FoldLeft(step, g, Ordered(promoted))

MutatedTargets(g) == {g[g[n].args[1]].target : n \in {n \in DOMAIN g : g[n].op = "copy_"}}

-----------------------------------------------------------------------------
(* passes.py, after the export *)

\* Mutant: a buffer is a constant, also when the graph writes to it.
ArgumentTypeConstant(g, kinds, target) ==
    CASE kinds[target] = "user" -> "input"
      [] kinds[target] = "parameter" -> "parameter"
      [] OTHER -> "constant"

\* The type of an argument.  A buffer that the graph writes to must not be hoisted.
ArgumentType(g, kinds, target) ==
    CASE kinds[target] = "user" -> "input"
      [] kinds[target] = "parameter" -> "parameter"
      [] kinds[target] = "buffer" /\ target \in MutatedTargets(g) -> "input"
      [] OTHER -> "constant"

\* insert_argument_type_markers: every use but that as the destination of a copy_.
InsertArgumentTypeMarkers(g, kinds) ==
    LET inputs == {n \in DOMAIN g : g[n].op \in {"placeholder", "get_attr"} /\ Uses(g, n) # {}}
        users(n) == {u \in Uses(g, n) : ~(g[u].op = "copy_" /\ g[u].args[1] = n)}
        mark(n) == [Node("mark", "mark", <<n>>)
                    EXCEPT !.dtype = ArgumentType(g, kinds, g[n].target)]
        step(h, n) == Added(Redirect(h, users(n), n, n + 1), n + 1, mark(n))
    IN FoldLeft(step, g, Ordered(inputs))

IsPromotion(node) == node.target = "cast" /\ ~node.user /\ node.dtype = "f32"

\* One pass over the casts, with the dtypes known of the nodes before it.
BypassCasts(g, dtypes) ==
    LET step(h, n) ==
            LET arg == h[n].args[1]
            IN IF IsPromotion(h[n]) \/ (arg \in DOMAIN dtypes /\ dtypes[arg] = h[n].dtype)
               THEN Erase(Redirect(h, Uses(h, n), n, arg), {n}) ELSE h
    IN FoldLeft(step, g, Ordered({n \in DOMAIN g : g[n].target = "cast"}))

\* bypass_dtype_promotion_and_redundant_cast: again, if promotions were removed, with the
\* dtypes propagated anew (run_shape_prop).  The export told none of the markers.
BypassDtypePromotion(g, inputs) ==
    LET once == BypassCasts(g, Erase(Dtypes(g, inputs), {n \in DOMAIN g : g[n].op = "mark"}))
    IN IF \E n \in DOMAIN g : IsPromotion(g[n]) THEN BypassCasts(once, Dtypes(once, inputs))
       ELSE once

\* bypass_redundant_getitem
BypassRedundantGetitem(g) ==
    FoldLeft(LAMBDA h, n : Redirect(h, Uses(h, n), n, h[n].args[h[n].k + 1]), g,
             Ordered({n \in DOMAIN g : g[n].target = "tuple_getitem"}))

\* bypass_assert_tensor_metadata
BypassAssert(g) == Erase(g, {n \in DOMAIN g : g[n].op = "assert"})

\* torch_pass_pipeline
TorchPassPipeline(g, kinds, inputs, options) ==
    LET fused == IF "fusion" \in options THEN RunFusionPasses(g) ELSE g
        composite == IF "composite" \in options THEN HandleCompositeOps(fused) ELSE fused
        marked == InsertArgumentTypeMarkers(RunDecompositions(composite, inputs), kinds)
    IN BypassAssert(BypassRedundantGetitem(BypassDtypePromotion(marked, inputs)))

\* tt_backend.  AOTAutograd (external) traces the graph to primitive operations, which the
\* passes before the export do not know, and lifts all of the module's own inputs.
TtBackend(g, kinds, inputs, options) ==
    IF "aot" \in options
    THEN TorchPassPipeline(RewriteAdaptiveAvgPool(g), [t \in DOMAIN kinds |-> "user"], inputs,
                           {})
    ELSE TorchPassPipeline(g, kinds, inputs, options)

-----------------------------------------------------------------------------
(* XLAExecutor.  Its state has the module's own inputs (state_dict and     *)
(* constants), the copies on the device of those that are elsewhere        *)
(* (params_and_consts) and, once called, the inputs of the first call.     *)

NewExecutor(attrs) == [attrs |-> attrs, called |-> FALSE, copies |-> <<>>, first |-> <<>>]

\* _build_params_and_consts, at the first call: an argument on the device is passed itself,
\* so that what is written to it is seen by the module.
BuildParamsAndConsts(ex, onHost) == [t \in onHost \cap DOMAIN ex.attrs |-> ex.attrs[t]]

Over(f, g) == [t \in DOMAIN f |-> IF t \in DOMAIN g THEN g[t] ELSE f[t]]
Joined(f, g) == [t \in DOMAIN f \cup DOMAIN g |-> IF t \in DOMAIN g THEN g[t] ELSE f[t]]

\* __call__: an argument on the host is moved, and what is written goes to the moved one.
\* The legacy flow cuts the graph at the outputs if the signature has no writes, and
\* else synchronises everything.
Call(ex, g, onHost, legacy, args) ==
    LET copies == IF legacy \/ ex.called THEN ex.copies ELSE BuildParamsAndConsts(ex, onHost)
        inputs == Joined(Over(ex.attrs, copies), args)
        first == IF ex.called THEN ex.first ELSE inputs
        run == Run(g, inputs, first)
        cut == legacy /\ MutatedTargets(g) = {}
        written == IF cut THEN <<>> ELSE run.written
    IN [executor |-> [attrs |-> Over(ex.attrs, Erase(written, onHost)), called |-> TRUE,
                      copies |-> Over(copies, written), first |-> first],
        returned |-> run.returned,
        args |-> Over(args, Erase(written, onHost))]

-----------------------------------------------------------------------------
(* Properties *)

\* The graph as it was written, run by torch.
Eager(g, attrs, args) ==
    LET inputs == Joined(attrs, args)
        run == Run(g, inputs, inputs)
    IN [attrs |-> Over(attrs, run.written), returned |-> run.returned,
        args |-> Over(args, run.written)]

\* What the backend takes for granted: a fused norm is cast to the type it came in, and the
\* legacy flow is given no tensor of the host.
Compilable(g, inputs, onHost, legacy) ==
    /\ \A n \in DOMAIN g : g[n].target = "norm_pattern" =>
            g[n].dtype = Dtypes(g, inputs)[g[n].args[1]]
    /\ legacy => onHost = {}

\* Two calls of a compiled model, between which the user may set buffers that the model
\* writes to (a static cache), return what the model as written returns, and leave the same
\* in its buffers and in the arguments: no pass changes the meaning of the graph, and
\* nothing that changes between the calls is kept from the first one.  What was on the host
\* is written on the device only.
CompiledAsWritten(g, kinds, attrs, onHost, legacy, options, args, set) ==
    LET compiled == TtBackend(g, kinds, Joined(attrs, args[1]), options)
        again(state) == Over(state, [t \in set |-> Term("set", 0, <<>>, state[t].dtype)])
        same(call, state, eager) ==
            /\ call.returned = eager.returned
            /\ Erase(call.args, onHost) = Erase(eager.args, onHost)
            /\ Erase(state, onHost) = Erase(eager.attrs, onHost)
        eager1 == Eager(g, attrs, args[1])
        call1 == Call(NewExecutor(attrs), compiled, onHost, legacy, args[1])
        between == [call1.executor EXCEPT !.attrs = again(@)]
        eager2 == Eager(g, again(eager1.attrs), args[2])
        call2 == Call(between, compiled, onHost, legacy, args[2])
    IN Compilable(g, Joined(attrs, args[1]), onHost, legacy) =>
           /\ same(call1, call1.executor.attrs, eager1)
           /\ same(call2, call2.executor.attrs, eager2)
=============================================================================
