---------------------------- MODULE RunnerOutputs ----------------------------
(***************************************************************************)
(* What the model runner returns beside the sampled tokens: the logprobs   *)
(* of a prompt, put together over the steps of its prefill                 *)
(* (_get_prompt_logprobs_dict), and the logits that the grammars of        *)
(* structured requests leave (prepare_structured_decoding_input and        *)
(* structured_decode).                                                     *)
(*                                                                         *)
(* Positions are counted from 0, as in the code.  The hidden state of a    *)
(* position, and a prompt token, are <<request, position>>; a gathered     *)
(* logprob is the pair of the hidden state and the target token it was     *)
(* computed from.                                                          *)
(***************************************************************************)
EXTENDS Integers, Sequences, SequencesExt

Empty == "empty"                          \* what LogprobsTensors.empty_cpu holds

-----------------------------------------------------------------------------
(* Prompt logprobs.  A state has the tokens computed of every request, the *)
(* requests that still want prompt logprobs (num_prompt_logprobs), the     *)
(* tensors in progress, those returned, and the requests that were left    *)
(* out of a step in the middle of their prompts (which no code records).   *)
(* A step has the tokens scheduled of every request, and those preempted.  *)

NewPrompts(len) ==
    [computed |-> [r \in DOMAIN len |-> 0], want |-> DOMAIN len, progress |-> <<>>,
     returned |-> <<>>, leftOut |-> {}]

Scheduled(step) == {r \in DOMAIN step.num : step.num[r] > 0}

\* _update_states: a request that is not scheduled is removed from the batch, and
\* remove_request forgets its tensor.  A preempted one is computed from the start again.
RemoveUnscheduled(s, step) ==
    [s EXCEPT !.progress = [r \in DOMAIN @ \cap Scheduled(step) |-> @[r]],
              !.computed = [r \in DOMAIN @ |-> IF r \in step.preempted THEN 0 ELSE @[r]],
              !.leftOut = (@ \cup {r \in s.want \ Scheduled(step) : s.computed[r] > 0})
                          \ step.preempted]

\* The hidden states of a request's row: those of the tokens computed in this step.
HiddenStates(s, r, num) == [i \in 0..num - 1 |-> <<r, s.computed[r] + i>>]

\* Mutant: the target of a position is the token at it.
StartTokSame(s, r) == s.computed[r]

\* start_tok: the target of a position is the token after it.
StartTok(s, r) == s.computed[r] + 1

NumLogits(s, step, len, r) == Min({step.num[r], len[r] - StartTok(s, r)})

\* One pass of a prompt's positions through the compiled graphs, `rows' at a time; the
\* rows beyond the batch are zeroed and cut off.
GatherBatch(s, step, rows, r, numLogits, start, tensor) ==
    LET size == Min({rows, numLogits - start})
        hidden == HiddenStates(s, r, step.num[r])
    IN [p \in DOMAIN tensor |->
           LET i == p - s.computed[r] - start
           IN IF i \in 0..size - 1
              THEN <<hidden[start + i], <<r, StartTok(s, r) + start + i>>>> ELSE tensor[p]]

\* The body of the loop over the requests.
PromptLogprobs(s, step, rows, len, r) ==
    LET numLogits == NumLogits(s, step, len, r)
        tensor == IF r \in DOMAIN s.progress THEN s.progress[r]
                  ELSE [p \in 0..len[r] - 2 |-> Empty]
        starts == SelectSeq([i \in 1..Max({numLogits, 0}) |-> i - 1], LAMBDA i : i % rows = 0)
        filled == FoldLeft(LAMBDA t, i : GatherBatch(s, step, rows, r, numLogits, i, t),
                           tensor, starts)
        with(f) == [q \in DOMAIN f \cup {r} |-> IF q = r THEN filled ELSE f[q]]
    IN IF step.num[r] <= len[r] - StartTok(s, r)
       THEN [s EXCEPT !.progress = with(@)]
       ELSE [s EXCEPT !.returned = with(@), !.want = @ \ {r},
                      !.progress = [q \in DOMAIN @ \ {r} |-> @[q]]]

\* One step of the runner: execute_model, then sample_tokens.
PromptStep(s, step, rows, len) ==
    LET removed == RemoveUnscheduled(s, step)
        after == FoldSet(LAMBDA r, t : PromptLogprobs(t, step, rows, len, r), removed,
                         removed.want \cap Scheduled(step))
    IN [after EXCEPT !.computed = [r \in DOMAIN @ |-> @[r] + step.num[r]]]

-----------------------------------------------------------------------------
(* Structured decoding.  A mask is a sequence of words of WordBits bits    *)
(* (32 in the code), a bit for a token.  The buffers have a row for every  *)
(* request of the batch and outlive the step.                              *)

WordBits == 2

\* Mutant: the buffers are not reset.
ResetNot(buffers) == buffers

\* The reset of the pre-allocated tensors.
Reset(buffers) ==
    [required |-> [i \in DOMAIN buffers.required |-> FALSE],
     mask |-> [i \in DOMAIN buffers.mask |-> [w \in DOMAIN buffers.mask[i] |-> 0]]]

\* prepare_structured_decoding_input.  `ids' are the structured requests, in the order of
\* the masks; the mask of one that is not in the batch is not passed over.
PrepareStructured(buffers, batch, ids, masks) ==
    LET present == SelectSeq(ids, LAMBDA r : Contains(batch, r))
        place(b, i) == LET row == SelectInSeq(batch, LAMBDA r : r = present[i])
                       IN [required |-> [b.required EXCEPT ![row] = TRUE],
                           mask |-> [b.mask EXCEPT ![row] = masks[i]]]
    IN FoldLeft(place, Reset(buffers), [i \in DOMAIN present |-> i])

\* apply_grammar_bitmask: the tokens whose bit is set.
Unpacked(mask, vocab) ==
    {t \in vocab : (mask[t \div WordBits + 1] \div 2 ^ (t % WordBits)) % 2 = 1}

\* structured_decode: the tokens of a row whose logits are kept.
Kept(buffers, row, vocab) ==
    IF buffers.required[row] THEN Unpacked(buffers.mask[row], vocab) ELSE vocab

-----------------------------------------------------------------------------
(* Properties *)

\* The logprobs of a prompt are "accumulate[d] ... across prefill steps" (InputBatch): when
\* they are returned, every position has that of the next token, computed from its own
\* hidden state, however the prompt was cut and whoever else was in the batch.  A request
\* that was left out of a step in the middle of its prompt has lost what it had.
PromptLogprobsRight(steps, rows, len) ==
    LET s == FoldLeft(LAMBDA t, step : PromptStep(t, step, rows, len), NewPrompts(len), steps)
    IN /\ \A r \in DOMAIN s.returned \ s.leftOut : \A p \in 0..len[r] - 2 :
             s.returned[r][p] = <<<<r, p>>, <<r, p + 1>>>>
       /\ \A r \in DOMAIN len : s.computed[r] >= len[r] => r \in DOMAIN s.returned

Total(ns) == FoldSet(+, 0, ns)

\* The grammar manager packs the tokens a grammar allows.
Packed(tokens, words) ==
    [w \in 1..words |->
        Total({2 ^ (t % WordBits) : t \in {u \in tokens : u \div WordBits = w - 1}})]

\* A request keeps exactly the tokens its grammar allows, and one without a grammar all of
\* them, whatever the buffers held.  allowed[i] is for the i-th of the ids; the grammars
\* are those of requests in the batch.
MaskedAsAsked(buffers, batch, ids, allowed, vocab) ==
    ToSet(ids) \subseteq ToSet(batch) =>
        LET masks == [i \in DOMAIN ids |-> Packed(allowed[i], Len(buffers.mask[1]))]
            b == PrepareStructured(buffers, batch, ids, masks)
        IN \A row \in DOMAIN batch :
              Kept(b, row, vocab) = {t \in vocab : \A i \in DOMAIN ids :
                                        ids[i] = batch[row] => t \in allowed[i]}
=============================================================================
