----------------------------- MODULE SparseMLP -----------------------------
(***************************************************************************)
(* The mixture-of-experts layers of tt_torch/sparse_mlp.py and the custom  *)
(* operations they are made of (tt_torch/custom_ops.py, whose CPU          *)
(* fallbacks define what the device operations compute).                   *)
(*                                                                         *)
(* A token is the pair of its row and its place in the row; `route' says   *)
(* which experts the router chose for it, in order.  What an expert        *)
(* computes is abstracted to the token, the expert and the columns of the  *)
(* weights that were paired.  The layouts, the tiles of M tokens and the   *)
(* masks that say which experts a tile needs are kept.                     *)
(*                                                                         *)
(* A layer c has B rows of S tokens, E experts, K of them for a token,     *)
(* tiles of M tokens (32 in the code), D dispatch devices, I pairs of gate *)
(* and up columns, impl, one of                                            *)
(*   "sparse"   SparseMLP                                                  *)
(*   "stacked"  A2aSparseStackedMlp                                        *)
(*   "dense", "fused", "manual"  the three paths of A2aSparseMLP           *)
(* and whether its input is on the host and its router is the adapter that *)
(* enable_sparse_mlp makes for DeepSeek (both matter to A2aSparseMLP).     *)
(***************************************************************************)
EXTENDS Integers, FiniteSets, Sequences, SequencesExt

A2A == {"dense", "fused", "manual"}

Experts(c) == 0..c.E - 1
Tokens(c) == (0..c.B - 1) \X (0..c.S - 1)
BD(c) == c.B * c.D

-----------------------------------------------------------------------------
(* Weights *)

\* gate_up_proj as the models have it, and as StackedExperts makes it for DeepSeek: gate
\* and up columns alternate.
Interleaved(c) == [j \in 1..2 * c.I |-> IF j % 2 = 1 THEN <<"gate", (j + 1) \div 2>>
                                        ELSE <<"up", j \div 2>>]

\* gate_up_out[..., ::2] and [..., 1::2]
Strided(w) == [gate |-> [i \in 1..Len(w) \div 2 |-> w[2 * i - 1]],
               up |-> [i \in 1..Len(w) \div 2 |-> w[2 * i]]]

\* A2aSparseStackedMlp.__init__: all gate columns, then all up columns.
Deinterleaved(w) == Strided(w).gate \o Strided(w).up

\* gate_up_out[..., :inter] and [..., inter:]
Contiguous(w) == [gate |-> SubSeq(w, 1, Len(w) \div 2),
                  up |-> SubSeq(w, Len(w) \div 2 + 1, Len(w))]

\* The columns that the activation combines.
Columns(c) == IF c.impl = "stacked" THEN Contiguous(Deinterleaved(Interleaved(c)))
              ELSE Strided(Interleaved(c))

\* What an expert computes for a token, and nothing (but its bias) where it is skipped.
Computed(c, token, e) == {[token |-> token, expert |-> e, columns |-> Columns(c)]}
Skipped == {}

-----------------------------------------------------------------------------
(* Custom operations *)

\* all_to_all_dispatch: D copies of the rows, one after the other; the routes likewise.
Dispatched(c, bd, s) == <<bd % c.B, s>>

\* sparse_matmul: a tile is computed for the experts of its mask.
SparseMatmul(c, mask, token, e) == IF e \in mask THEN Computed(c, token, e) ELSE Skipped

\* moe_expert_token_remap: the experts of a run of M consecutive tokens, row by row.
MoeExpertTokenRemap(c, route, chunk) ==
    UNION {ToSet(route[Dispatched(c, p[1], p[2])]) :
              p \in {p \in (0..BD(c) - 1) \X (0..c.S - 1) :
                        (p[1] * c.S + p[2]) \div c.M = chunk}}

\* all_to_all_combine: the output of each of a token's experts, from the first copy.
AllToAllCombine(c, route, downOut, token) ==
    [k \in 1..c.K |-> downOut[route[token][k]][token]]

-----------------------------------------------------------------------------
(* A2aSparseMLP.forward *)

SplitSeq(c) == c.S % c.M = 0
SplitBD(c) == BD(c) % c.M = 0

\* The assertion on the shapes.
Divisible(c) == SplitSeq(c) \/ SplitBD(c)

\* dim_b: tiles are numbered by rows of dim_b.
DimB(c) == IF SplitSeq(c) THEN c.S \div c.M ELSE c.S

\* Mutant: the tiles are made without the transposition.
TileOfFlat(c, bd, s) ==
    LET flat == bd * c.S + s
    IN [row |-> (flat \div c.M) \div DimB(c), column |-> (flat \div c.M) % DimB(c),
        at |-> flat % c.M]

\* hidden_4d: the tile that a token is in, and its place in it.
TileOf(c, bd, s) ==
    IF SplitSeq(c) THEN [row |-> bd, column |-> s \div c.M, at |-> s % c.M]
    ELSE [row |-> bd \div c.M, column |-> s, at |-> bd % c.M]

\* The reshapes after the down projection: where the result of a place in a tile goes.
PlaceOf(c, t) ==
    IF SplitSeq(c) THEN <<t.row, t.column * c.M + t.at>>
    ELSE <<t.row * c.M + t.at, t.column>>

\* The experts of a tile: as the operation has reduced the routes, ...
FusedMask(c, route, t) == MoeExpertTokenRemap(c, route, t.row * DimB(c) + t.column)

\* ... as the code reduces them itself, ...
ManualMask(c, route, t) ==
    UNION {ToSet(route[Dispatched(c, p[1], p[2])]) :
              p \in {p \in (0..BD(c) - 1) \X (0..c.S - 1) :
                        LET u == TileOf(c, p[1], p[2])
                        IN u.row = t.row /\ u.column = t.column}}

\* ... or all, without a mask.
DenseMask(c, route, t) == Experts(c)

\* A tile of the stacked layer is one token.
StackedMask(c, route, token) == ToSet(route[token])

\* down_out, the results of an expert for all tokens.
DownOut(c, route, e, bd, s) ==
    LET t == CHOOSE t \in {TileOf(c, p[1], p[2]) : p \in (0..BD(c) - 1) \X (0..c.S - 1)} :
                 PlaceOf(c, t) = <<bd, s>>
        p == CHOOSE p \in (0..BD(c) - 1) \X (0..c.S - 1) : TileOf(c, p[1], p[2]) = t
        token == Dispatched(c, p[1], p[2])
    IN CASE c.impl = "fused" -> SparseMatmul(c, FusedMask(c, route, t), token, e)
         [] c.impl = "manual" -> SparseMatmul(c, ManualMask(c, route, t), token, e)
         [] c.impl = "dense" -> SparseMatmul(c, DenseMask(c, route, t), token, e)
         [] c.impl = "stacked" ->
                SparseMatmul(c, StackedMask(c, route, Dispatched(c, bd, s)),
                             Dispatched(c, bd, s), e)

\* The sum over the chosen experts: each output with the score of its expert.
Weighted(c, route, combined, token) ==
    {[score |-> route[token][k], value |-> combined[k]] : k \in 1..c.K}

\* SparseMLP.forward: the experts' outputs for a token, masked by its own route and
\* weighted by the scattered scores, which are zero for the others.
SparseForward(c, route, token) ==
    {[score |-> e, value |-> SparseMatmul(c, ToSet(route[token]), token, e)] :
        e \in ToSet(route[token])}

\* What the router returns: logits, scores and indices, or for DeepSeek scores and indices.
RouterOutputs(c) == IF c.adapter THEN 2 ELSE 3

\* A2aSparseMLP.forward takes three values from its router and, on the device, a shape it
\* can cut into tiles.
Raises(c) == c.impl \in A2A /\ (RouterOutputs(c) # 3 \/ (~c.host /\ ~Divisible(c)))

\* The CPU golden path, _experts_forward: the experts that were hit, one after the other,
\* each for the tokens that chose it.
GoldenForward(c, route, token) ==
    LET hit == UNION {ToSet(route[t]) : t \in Tokens(c)}
        tokens(e) == {t \in Tokens(c) : e \in ToSet(route[t])}
    IN {[score |-> e, value |-> Computed(c, token, e)] :
            e \in {e \in hit : token \in tokens(e)}}

Forward(c, route, token) ==
    IF c.impl = "sparse" THEN SparseForward(c, route, token)
    ELSE IF c.impl \in A2A /\ c.host THEN GoldenForward(c, route, token)
    ELSE LET downOut == [e \in Experts(c) |->
                            [p \in (0..BD(c) - 1) \X (0..c.S - 1) |->
                                DownOut(c, route, e, p[1], p[2])]]
         IN Weighted(c, route, AllToAllCombine(c, route, downOut, token), token)

-----------------------------------------------------------------------------
(* Properties *)

\* The experts that a token was routed to, applied to that token.
Reference(c, route, token) ==
    {[score |-> e, value |-> {[token |-> token, expert |-> e,
                               columns |-> Strided(Interleaved(c))]}] :
        e \in ToSet(route[token])}

\* The tiles of the fused path hold M consecutive tokens, as its mask does, unless the rows
\* are split and there are several tokens in a row.
Aligned(c) == c.impl = "fused" /\ ~c.host => SplitSeq(c) \/ c.S = 1

\* Whatever the layout, every token gets the outputs of its own experts, weighted by their
\* scores: no expert is skipped for a tile that has one of its tokens.  In the fused path of
\* other shapes (Aligned) experts are skipped that a token was routed to.
RoutedToOwnExperts(c, route) ==
    ~Raises(c) /\ Aligned(c) => \A token \in Tokens(c) :
        Forward(c, route, token) = Reference(c, route, token)
=============================================================================
