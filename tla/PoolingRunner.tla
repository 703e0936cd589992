--------------------------- MODULE PoolingRunner ---------------------------
(***************************************************************************)
(* A step of TTPoolingModelRunner (vllm_tt/pooling_runner.py) as a         *)
(* function of the batch: _update_states, _prepare_inputs,                 *)
(* generate_attn_mask and execute_model.                                   *)
(*                                                                         *)
(* A token is abstracted to the request and the place it is of.  What the  *)
(* model computes for a token is abstracted to what it depends on: the     *)
(* token, its position, and the tokens it attends to.  The pooler is       *)
(* external: it splits the hidden states by the numbers of scheduled       *)
(* tokens.  Slots, rows and columns count from 1, positions from 0.        *)
(***************************************************************************)
EXTENDS Integers, FiniteSets, Sequences, SequencesExt

CONSTANTS
    NoOne,      \* None
    Zero,       \* token id 0, the padding
    Stale       \* what an earlier request left in a row after the tokens of this one

Total(ns) == FoldSeq(+, 0, ns)

-----------------------------------------------------------------------------
(* _update_states.  `slots' are the requests of the last batch; those of   *)
(* `new' are new in this step, those of `cached' were scheduled before.    *)

\* A request that was scheduled before and is still in the batch: the code reads
\* new_block_ids, which nothing has assigned (NameError).
Raises(slots, cached) == ToSet(cached) \cap ToSet(slots) # {}

\* req_ids_to_add, of a step that does not raise.
ToAdd(new, cached) == new \o cached

\* Every other request of the last batch has finished or is not scheduled, so that every
\* slot is emptied.  The smallest ones are filled first, and condense cuts off the rest.
UpdateStates(slots, new, cached) == ToAdd(new, cached)

-----------------------------------------------------------------------------
(* _prepare_inputs, for a batch q with num[r] scheduled tokens each, from  *)
(* the request at `start' on.  The configuration c has batch (batch_size), *)
(* seqs (max_num_reqs), limit (num_reqs_max_model_len), paddings, devices  *)
(* (1 if not data parallel) and decoder (is_decoder_only_attn_layers).     *)

\* num_scheduled_tokens_per_req: what fits one execution.
Scheduled(c, q, start, num) ==
    [i \in 1..Min({Len(q) - start + 1, c.limit}) |-> num[q[start + i - 1]]]

PaddedTokenLen(c, ns) ==
    LET n == IF c.batch = 1 THEN Total(ns) ELSE Max(ToSet(ns))
    IN Min({p \in c.paddings : p >= n})

\* token_ids_cpu, row i: the rows count from the first of the batch, whatever start is.
TokenIds(q, len, i, place) == IF place < len[q[i]] THEN <<q[i], place>> ELSE Stale

\* batch_size 1: the requests of the execution are concatenated into one row.
FusedInputs(c, q, len, ns) ==
    LET row == FlattenSeq([i \in DOMAIN ns |-> [k \in 1..ns[i] |->
                   [id |-> TokenIds(q, len, i, k - 1), pos |-> k - 1]]])
    IN <<[k \in 1..PaddedTokenLen(c, ns) |-> IF k <= Len(row) THEN row[k]
                                             ELSE [id |-> Zero, pos |-> 0]]>>

\* num_additional_inputs: rows of zeros that make the batch divisible by the devices.
AdditionalInputs(c, rows) == IF rows % c.devices = 0 THEN 0 ELSE c.devices - (rows % c.devices)

\* A row for every request; the columns up to the longest are the row's, also beyond
\* the request's own tokens.
BatchedInputs(c, q, len, ns) ==
    [i \in 1..Len(ns) + AdditionalInputs(c, Len(ns)) |-> [k \in 1..PaddedTokenLen(c, ns) |->
        [id |-> IF i <= Len(ns) /\ k <= Max(ToSet(ns)) THEN TokenIds(q, len, i, k - 1) ELSE Zero,
         pos |-> IF i <= Len(ns) /\ k <= ns[i] THEN k - 1 ELSE 0]]]

Inputs(c, q, len, ns) ==
    IF c.batch = 1 THEN FusedInputs(c, q, len, ns) ELSE BatchedInputs(c, q, len, ns)

\* Mutant: every segment starts at the first column.
SegmentStartZero(c, lens, i) == 1

\* The column where the segment of the i-th length starts.
SegmentStart(c, lens, i) == IF c.batch = 1 THEN Total(SubSeq(lens, 1, i - 1)) + 1 ELSE 1

\* generate_attn_mask: a segment attends to itself, up to the column itself if causal.
\* With one row there are all segments in it, else one for every row.
Unmasked(c, lens, row, column) ==
    UNION {
        LET from == SegmentStart(c, lens, i)
            to == from + lens[i] - 1
        IN IF (c.batch > 1 => i = row) /\ column \in from..to
           THEN from..(IF c.decoder THEN column ELSE to) ELSE {} : i \in DOMAIN lens}

\* No mask is needed where every row holds one causal sequence.
NeedsMask(c) == (c.batch = 1 /\ c.seqs > 1) \/ ~c.decoder

\* The columns that a column attends to.
Attended(c, lens, row, column) ==
    IF NeedsMask(c) THEN Unmasked(c, lens, row, column) ELSE 1..column

-----------------------------------------------------------------------------
(* execute_model *)

\* What the model is given, and what it computes for every token of a row.
HiddenStates(c, q, len, ns) ==
    LET in == Inputs(c, q, len, ns)
    IN [b \in DOMAIN in |-> [k \in DOMAIN in[b] |->
            [at |-> in[b][k], sees |-> {in[b][j] : j \in Attended(c, ns, b, k)}]]]

\* hidden_states_for_pooler: the tokens of the requests, one after the other.
Pieces(c, hidden, ns) ==
    IF c.batch = 1 THEN SubSeq(hidden[1], 1, Total(ns))
    ELSE FlattenSeq([i \in DOMAIN ns |-> SubSeq(hidden[i], 1, ns[i])])

\* The pooler, by its cursor: request i has ns[i] of the states.
Pooler(states, ns) ==
    [i \in DOMAIN ns |-> SubSeq(states, Total(SubSeq(ns, 1, i - 1)) + 1,
                                Total(SubSeq(ns, 1, i)))]

\* pooler_output of one execution: None for a prompt that is not complete.
PoolerOutput(c, q, len, ns) ==
    LET pooled == Pooler(Pieces(c, HiddenStates(c, q, len, ns), ns), ns)
    IN [i \in DOMAIN ns |-> IF ns[i] = len[q[i]] THEN pooled[i] ELSE NoOne]

\* The results of a step: pooler_output is that of its last execution.  Requests whose
\* prompt is not cut have len[r] = num[r].
ExecuteModel(c, q, len, num) ==
    LET start == ((Len(q) - 1) \div c.limit) * c.limit + 1
    IN PoolerOutput(c, q, len, Scheduled(c, q, start, num))

-----------------------------------------------------------------------------
(* Properties *)

\* What the model computes for a request that is alone in the world: each of its tokens,
\* at its position, attends to the whole prompt, or to what precedes it.
Alone(c, r, n) ==
    LET token(k) == [id |-> <<r, k>>, pos |-> k]
    IN [k \in 1..n |-> [at |-> token(k - 1),
                        sees |-> {token(j) : j \in 0..(IF c.decoder THEN k ELSE n) - 1}]]

\* Whatever the layout (fused or batched), the padding, the rows added for the devices and
\* what earlier requests left in the arrays, every request gets what it would have got
\* alone, in its own place; one whose prompt was cut gets nothing.
PooledAsIfAlone(c, q, len, num) ==
    Len(q) <= c.limit =>
        ExecuteModel(c, q, len, num) = [i \in DOMAIN q |->
            IF num[q[i]] = len[q[i]] THEN Alone(c, q[i], len[q[i]]) ELSE NoOne]

=============================================================================
