------------------------------ MODULE Sampler ------------------------------
(***************************************************************************)
(* Sampling: XLASupportedSamplingMetadata.from_input_batch                 *)
(* (vllm_tt/metadata.py) turns the parameters of the requests of a batch   *)
(* into tensors and flags of the whole batch, Sampler.sample               *)
(* (vllm_tt/sampler.py) applies them to the logits, and sample_from_logits *)
(* of the model runner chooses between it and a plain argmax.              *)
(*                                                                         *)
(* Logits are integers and 2^x stands for exp(x); probabilities are left   *)
(* unnormalised, and p and min_p are in percent.  A random choice is       *)
(* abstracted to the tokens it may yield and to whose generator makes it.  *)
(* A request is a record of its sampling parameters, its prompt and output *)
(* tokens and its logits.                                                  *)
(***************************************************************************)
EXTENDS Integers, FiniteSets, Sequences, SequencesExt

CONSTANT VocabSize

Vocab == 0..VocabSize - 1
NegInf == -1000000

\* Addition of logits, or of a logit and a mask.
Plus(x, y) == IF NegInf \in {x, y} THEN NegInf ELSE x + y

-----------------------------------------------------------------------------
(* metadata.py *)

\* _compute_token_counts
TokenCounts(r, t) == Cardinality({j \in DOMAIN r.out : r.out[j] = t})

\* _compute_prompt_mask; the repetition penalty is for tokens of prompt and output.
Repeated(r, t) == TokenCounts(r, t) > 0 \/ t \in ToSet(r.prompt)

\* Mutant: the history has to be as long as the whole word.
BadWordsMaskLate(r, t) ==
    IF \E w \in r.badWords : /\ Len(w) <= Len(r.out)
                             /\ Last(w) = t
                             /\ IsSuffix(Front(w), r.out)
    THEN NegInf ELSE 0

\* _compute_bad_words_mask: the last token of a word is banned if the output ends with
\* the tokens before it.
BadWordsMask(r, t) ==
    IF \E w \in r.badWords : /\ Len(w) <= Len(r.out) + 1
                             /\ Last(w) = t
                             /\ IsSuffix(Front(w), r.out)
    THEN NegInf ELSE 0

BelowMin(r) == Len(r.out) < r.minTokens

\* _compute_min_tokens_mask
MinTokensMask(r, t) == IF BelowMin(r) /\ t \in r.stops THEN NegInf ELSE 0

\* allowed_token_ids_mask; a request without allowed tokens may use all.
AllowedMask(r, t) == IF r.allowed = {} \/ t \in r.allowed THEN 0 ELSE NegInf

HasPenalties(r) == r.rep # 1 \/ r.freq # 0 \/ r.pres # 0

\* from_input_batch: what is set for the batch as soon as one request needs it.
Metadata(batch) ==
    LET any(P(_)) == \E i \in DOMAIN batch : P(batch[i])
    IN [allGreedy |-> ~any(LAMBDA r : r.temp > 0),
        allRandom |-> ~any(LAMBDA r : r.temp = 0),
        penalties |-> any(HasPenalties),
        bias |-> any(LAMBDA r : r.bias # <<>>),
        badWords |-> any(LAMBDA r : r.badWords # {}),
        allowed |-> any(LAMBDA r : r.allowed # {}),
        minTokens |-> any(BelowMin),
        generators |-> any(LAMBDA r : r.seeded)]

\* q_samples: a seeded request draws from its own generator.
Noise(m, r) == IF m.generators /\ r.seeded THEN "own" ELSE "shared"

-----------------------------------------------------------------------------
(* sampler.py *)

\* apply_penalties; the repetition penalty is a factor of 1 or 2 here.
ApplyPenalties(r, t, x) ==
    LET repeated == IF ~Repeated(r, t) \/ x = NegInf THEN x
                    ELSE IF x > 0 THEN x \div r.rep ELSE x * r.rep
        seen == TokenCounts(r, t)
    IN Plus(repeated, -(r.freq * seen) - (IF seen > 0 THEN r.pres ELSE 0))

\* The first part of Sampler.sample: masks and bias are added, then the penalties.
Logits(m, r, t) ==
    LET allowed == IF m.allowed THEN AllowedMask(r, t) ELSE 0
        stops == IF m.minTokens THEN MinTokensMask(r, t) ELSE 0
        words == IF m.badWords THEN BadWordsMask(r, t) ELSE 0
        bias == IF m.bias /\ r.bias # <<>> THEN r.bias[t + 1] ELSE 0
        x == Plus(Plus(Plus(Plus(r.logits[t + 1], allowed), stops), words), bias)
    IN IF m.penalties THEN ApplyPenalties(r, t, x) ELSE x

\* argmax: the first of the largest.
ArgMax(x) == Min({t \in Vocab : \A u \in Vocab : x[u] <= x[t]})

\* apply_temperature; a greedy row is divided by 1, and the result not used.
ApplyTemperature(m, r, x) ==
    LET temp == IF ~m.allRandom /\ r.temp = 0 THEN 1 ELSE r.temp
    IN [t \in Vocab |-> IF x[t] = NegInf THEN NegInf ELSE x[t] \div temp]

\* softmax, not normalised.
Softmax(x) == [t \in Vocab |-> IF x[t] = NegInf THEN 0 ELSE 2 ^ (x[t] + 10)]

\* apply_min_p
ApplyMinP(w, minP) ==
    [t \in Vocab |-> IF w[t] * 100 >= minP * Max({w[u] : u \in Vocab}) THEN w[t] ELSE 0]

\* Mutant: the cut-off of top_p is the last element that is masked.
CutoffEarly(sorted, count) == sorted[IF count = 0 THEN 1 ELSE count]

\* The element of the ascending order that `count' elements precede.
Cutoff(sorted, count) == sorted[count + 1]

\* apply_top_k_top_p: the tokens whose probability is at least both cut-offs, which are
\* taken from the same ascending order.
TopKTopP(w, k, p) ==
    LET sorted == SortSeq([i \in 1..VocabSize |-> w[i - 1]], <)
        sum(j) == FoldSeq(+, 0, SubSeq(sorted, 1, j))
        topK == Cutoff(sorted, Min({VocabSize - k, VocabSize - 1}))
        topPMask == {j \in 1..VocabSize - 1 : sum(j) * 100 <= (100 - p) * sum(VocabSize)}
        topP == Cutoff(sorted, Cardinality(topPMask))
    IN {t \in Vocab : (k > 0 /\ k # VocabSize => w[t] >= topK) /\ w[t] >= topP}

\* Mutant: the bias of a greedy batch is forgotten.
FastPathBiased(m) == m.allGreedy /\ ~m.penalties /\ ~m.badWords /\ ~m.allowed
                     /\ ~m.minTokens /\ ~m.generators

\* sample_from_logits: when is a plain argmax enough?
FastPath(m) == m.allGreedy /\ ~m.penalties /\ ~m.bias /\ ~m.badWords /\ ~m.allowed
               /\ ~m.minTokens /\ ~m.generators

\* The outcomes of sampling for the i-th request of a batch.
Sample(batch, i) ==
    LET m == Metadata(batch)
        r == batch[i]
        x == [t \in Vocab |-> Logits(m, r, t)]
        w == ApplyMinP(Softmax(ApplyTemperature(m, r, x)), r.minP)
        random == {t \in TopKTopP(w, r.k, r.p) : w[t] > 0}
    IN IF FastPath(m)
       THEN [tokens |-> {ArgMax([t \in Vocab |-> r.logits[t + 1]])}, noise |-> "none"]
       ELSE IF r.temp = 0 THEN [tokens |-> {ArgMax(x)}, noise |-> "none"]
       ELSE [tokens |-> random, noise |-> Noise(m, r)]

-----------------------------------------------------------------------------
(* Properties *)

\* What a request must not be given: a token that is not allowed, a stop token before the
\* minimum, or the last token of a bad word.
Banned(r) ==
    {t \in Vocab : \/ r.allowed # {} /\ t \notin r.allowed
                   \/ Len(r.out) < r.minTokens /\ t \in r.stops
                   \/ \E w \in r.badWords : IsSuffix(w, Append(r.out, t))}

\* A banned token is never sampled, whatever the bias, the penalties, the filters and the
\* other requests of the batch.
BannedNotSampled(batch) ==
    \A i \in DOMAIN batch : Banned(batch[i]) # Vocab =>
        Sample(batch, i).tokens \cap Banned(batch[i]) = {}

\* Moreover a request that has a token left gets one.
BansHold(batch) ==
    /\ BannedNotSampled(batch)
    /\ \A i \in DOMAIN batch : Banned(batch[i]) # Vocab => Sample(batch, i).tokens # {}

\* The flags are of the whole batch, and the paths they choose differ; still a request is
\* sampled as if it were alone, from the same candidates and with its own generator.
SampledAsIfAlone(batch) ==
    \A i \in DOMAIN batch : Sample(batch, i) = Sample(<<batch[i]>>, 1)

\* The cut-offs in the ascending order are top-k and top-p: a token stays if fewer than k
\* are more probable, and if those have less than p of the probability; ties are kept and
\* so is the most probable token.
TopKTopPExact(w, k, p) ==
    LET above(t) == {u \in Vocab : w[u] > w[t]}
        mass(S) == FoldSet(LAMBDA t, sum : sum + w[t], 0, S)
    IN TopKTopP(w, k, p) =
        {t \in Vocab : /\ k > 0 => Cardinality(above(t)) < k
                       /\ above(t) = {} \/ mass(above(t)) * 100 < p * mass(Vocab)}
=============================================================================
