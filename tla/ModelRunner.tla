---------------------------- MODULE ModelRunner ----------------------------
(***************************************************************************)
(* The persistent batch of the vLLM plugin: InputBatch                     *)
(* (vllm_tt/input_batch.py) and the parts of TTModelRunner                 *)
(* (vllm_tt/model_runner.py) that change it or read it, _update_states,    *)
(* _prepare_inputs and sample_tokens.                                      *)
(*                                                                         *)
(* A request occupies a slot of the batch.  What a slot holds is           *)
(* abstracted to whose it is: the arrays that add_request always writes    *)
(* are `row', the dictionaries keyed by slot (min_tokens, generators,      *)
(* bad_words_token_ids) are `params', and the lists that it writes only    *)
(* for some requests (logit_bias, and allowed_token_ids_mask alike) are    *)
(* `bias'.  Slots count from 1.  The runner is called by one thread;       *)
(* prefills are never split, as the scheduler guarantees.                  *)
(***************************************************************************)
EXTENDS Integers, FiniteSets, Sequences, SequencesExt

CONSTANTS
    Requests,       \* request identifiers; one may be used again after it finished
    MaxReqs,        \* max_num_reqs
    ChunkSize,      \* num_reqs_max_model_len: requests per execution of the model
    MaxTokens,      \* bound on the tokens of a request, which ends when it has them
    MaxBlocks,      \* bound on its KV cache blocks
    Options,        \* what requests may come with: sets of "params" and "bias"
    NoOne           \* None

ASSUME RunnerAssumption ==
    /\ IsFiniteSet(Requests)
    /\ {MaxReqs, ChunkSize, MaxTokens, MaxBlocks} \subseteq Nat \ {0}
    /\ Options \subseteq SUBSET {"params", "bias"}
    /\ NoOne \notin Requests \cup Nat
    /\ NoOne \notin [has : Options, tokens : Nat, blocks : Nat]

VARIABLES
    requests,       \* self.requests: the cached state of a request, or NoOne
    reqIds,         \* input_batch._req_ids
    index,          \* input_batch.req_id_to_index, NoOne for an absent key
    row,            \* token ids, their number, and the block table
    params,         \* the dictionaries keyed by slot: whose value it is
    bias,           \* logit_bias: whose it is
    pc,             \* where the runner is
    scheduled,      \* keys of scheduler_output.num_scheduled_tokens
    toAdd,          \* req_ids_to_add
    removed,        \* removed_req_indices, and empty_req_indices of condense
    last,           \* last_req_index of condense
    start           \* start_index of sample_tokens

batchVars == <<reqIds, index, row, params, bias>>
stepVars == <<pc, scheduled, toAdd, removed, last, start>>
vars == <<requests, batchVars, stepVars>>

Slots == 1..MaxReqs
States == [has : Options, tokens : 1..MaxTokens, blocks : 1..MaxBlocks]
Rows == [req : Requests \cup {NoOne}, tokens : 0..MaxTokens, blocks : 0..MaxBlocks]

Init ==
    /\ requests = [r \in Requests |-> NoOne]
    /\ reqIds = <<>>
    /\ index = [r \in Requests |-> NoOne]
    /\ row = [s \in Slots |-> [req |-> NoOne, tokens |-> 0, blocks |-> 0]]
    /\ params = [s \in Slots |-> NoOne]
    /\ bias = [s \in Slots |-> NoOne]
    /\ pc = "idle"
    /\ scheduled = {}
    /\ toAdd = <<>>
    /\ removed = {}
    /\ last = 0
    /\ start = 1

InBatch == {r \in Requests : index[r] # NoOne}
NumReqs == Cardinality(InBatch)

-----------------------------------------------------------------------------
(* _update_states                                                           *)

\* remove_request, for the requests in `gone', takes these slots' dictionary
\* entries and biases away.
Cleared(f, slots) == [s \in Slots |-> IF s \in slots THEN NoOne ELSE f[s]]

\* Mutant: unscheduled requests stay in the batch.
GoneFinished(finished, sched) == InBatch \cap finished

\* The requests that leave the batch: finished, or not scheduled in this step.
Gone(finished, sched) == InBatch \cap (finished \cup (Requests \ sched))

\* The orders in which the scheduler's output may list the requests rs.
Orders(rs) == {q \in [1..Cardinality(rs) -> Requests] : ToSet(q) = rs}

\* What the scheduler's output says of a request: nothing; it finished; it is new, or
\* again new under the name of one that finished; it is cached and scheduled, with
\* the same blocks, with another one, or with other blocks after a preemption.
Kinds == {"none", "finished", "new", "again", "cached", "grown", "resumed"}

\* The outputs the scheduler may produce: a request that has all its tokens is finished by
\* the next one, and a preempted request was not in the last batch.
Possible(r, kind) ==
    IF requests[r] = NoOne THEN kind \in {"none", "new"}
    ELSE \/ kind \in {"finished", "again"}
         \/ /\ kind \in {"none", "cached", "grown", "resumed"}
            /\ requests[r].tokens < MaxTokens
            /\ kind = "resumed" => r \notin InBatch
            /\ kind = "grown" => requests[r].blocks < MaxBlocks

\* The scheduler never mixes prefills and decodes (AscendScheduler, BatchConsistent).
PrefillOrDecode(out) ==
    \/ \A r \in Requests : out[r] \notin {"new", "again", "resumed"}
    \/ \A r \in Requests : out[r] \notin {"cached", "grown"}

SchedulerOutputs == {out \in [Requests -> Kinds] :
    PrefillOrDecode(out) /\ \A r \in Requests : Possible(r, out[r])}

\* block_table.append_row, for a request in the batch that got another block.
AppendRow(s, out) ==
    IF \E r \in InBatch : index[r] = s /\ out[r] = "grown"
    THEN [row[s] EXCEPT !.blocks = @ + 1] ELSE row[s]

\* execute_model up to the loop that adds requests.
ExecuteModel(out, opts) ==
    /\ pc = "idle"
    /\ LET finished == {r \in Requests : out[r] \in {"finished", "again"}}
           new == {r \in Requests : out[r] \in {"new", "again"}}
           cached == {r \in Requests : out[r] \in {"cached", "grown", "resumed"}}
           gone == Gone(finished, new \cup cached)
           slots == {index[r] : r \in gone}
       IN /\ Cardinality(new \cup cached) <= MaxReqs
          /\ scheduled' = new \cup cached
          /\ removed' = slots
          /\ reqIds' = [s \in 1..Len(reqIds) |-> IF s \in slots THEN NoOne ELSE reqIds[s]]
          /\ index' = [r \in Requests |-> IF r \in gone THEN NoOne ELSE index[r]]
          /\ params' = Cleared(params, slots)
          /\ bias' = Cleared(bias, slots)
          /\ requests' = [r \in Requests |->
                CASE r \in new -> [has |-> opts[r], tokens |-> 1, blocks |-> 1]
                  [] out[r] = "finished" -> NoOne
                  [] out[r] = "grown" -> [requests[r] EXCEPT !.blocks = @ + 1]
                  [] out[r] = "resumed" -> [requests[r] EXCEPT !.blocks = 1]
                  [] OTHER -> requests[r]]
          /\ row' = [s \in Slots |-> AppendRow(s, out)]
          /\ \E news \in Orders(new), olds \in Orders(cached \ InBatch) :
                toAdd' = news \o olds
    /\ pc' = "add"
    /\ UNCHANGED <<last, start>>

\* The smallest empty slot, or the end of the batch.
AddSlot == IF removed # {} THEN Min(removed) ELSE NumReqs + 1

\* InputBatch.add_request for the next of req_ids_to_add.
AddRequest ==
    /\ pc = "add"
    /\ toAdd # <<>>
    /\ LET r == Head(toAdd)
           s == AddSlot
           st == requests[r]
       IN /\ reqIds' = IF s = Len(reqIds) + 1 THEN Append(reqIds, r)
                       ELSE [reqIds EXCEPT ![s] = r]
          /\ index' = [index EXCEPT ![r] = s]
          /\ row' = [row EXCEPT ![s] =
                        [req |-> r, tokens |-> st.tokens, blocks |-> st.blocks]]
          /\ params' = IF "params" \in st.has THEN [params EXCEPT ![s] = r] ELSE params
          /\ bias' = IF "bias" \in st.has THEN [bias EXCEPT ![s] = r] ELSE bias
          /\ removed' = removed \ {s}
    /\ toAdd' = Tail(toAdd)
    /\ UNCHANGED <<requests, pc, scheduled, last, start>>

\* The end of _update_states: execute_model returns at once if nothing is scheduled.
AfterUpdate == IF scheduled = {} THEN "idle" ELSE "sample"

\* condense is called if slots are empty; it returns early if the batch is.
BeginCondense ==
    /\ pc = "add"
    /\ toAdd = <<>>
    /\ IF removed # {} /\ NumReqs > 0
       THEN /\ pc' = "condense"
            /\ last' = NumReqs + Cardinality(removed)
            /\ UNCHANGED <<reqIds, removed>>
       ELSE /\ pc' = AfterUpdate
            /\ reqIds' = IF removed # {} THEN <<>> ELSE reqIds
            /\ removed' = {}
            /\ UNCHANGED last
    /\ UNCHANGED <<requests, index, row, params, bias, scheduled, toAdd, start>>

\* The largest non-empty index.
LastNonEmpty == Max({s \in 1..last : s \notin removed})

MoreToMove == removed # {} /\ Min(removed) < LastNonEmpty

\* Mutant: the parameters of the moved request stay behind.
MoveParamsNot(from, to) == params

\* A dictionary entry is popped and stored again under the new index.
MoveParams(from, to) ==
    [params EXCEPT ![from] = NoOne, ![to] = IF params[from] # NoOne THEN params[from]
                                            ELSE @]

\* One iteration of the loop of condense: the last request moves to the first gap.
\* The entry of logit_bias is copied, and stays where it was.
CondenseMove ==
    /\ pc = "condense"
    /\ MoreToMove
    /\ LET from == LastNonEmpty
           to == Min(removed)
           r == reqIds[from]
       IN /\ reqIds' = [reqIds EXCEPT ![to] = r, ![from] = NoOne]
          /\ index' = [index EXCEPT ![r] = to]
          /\ row' = [row EXCEPT ![to] = row[from]]
          /\ params' = MoveParams(from, to)
          /\ bias' = [bias EXCEPT ![to] = bias[from]]
          /\ removed' = removed \ {to}
          /\ last' = from - 1
    /\ UNCHANGED <<requests, pc, scheduled, toAdd, start>>

\* The lists are trimmed to the batch size.
CondenseEnd ==
    /\ pc = "condense"
    /\ ~MoreToMove
    /\ reqIds' = SubSeq(reqIds, 1, NumReqs)
    /\ removed' = {}
    /\ last' = 0
    /\ pc' = AfterUpdate
    /\ UNCHANGED <<requests, index, row, params, bias, scheduled, toAdd, start>>

-----------------------------------------------------------------------------
(* sample_tokens                                                            *)

\* _prepare_inputs: the slots from start_index on, as many as fit one execution.
Chunk == start..Min({start + ChunkSize - 1, NumReqs})

\* end_index
NextStart == start + ChunkSize

\* The slot whose arrays and sampling parameters the model and the sampler read for
\* the request in slot s: they count from the first row, whatever start_index is.
InputRow(s) == s - start + 1

\* The sampled token is appended to the row of its request.
Appended(s) == [row[s] EXCEPT !.tokens = @ + 1]

\* One execution; after the last one every request gets its token, in the batch and
\* in its cached state.
SampleTokens ==
    /\ pc = "sample"
    /\ IF NumReqs \in Chunk
       THEN /\ row' = [s \in Slots |-> IF s <= NumReqs THEN Appended(s) ELSE row[s]]
            /\ requests' = [r \in Requests |->
                  IF r \in ToSet(reqIds) THEN [requests[r] EXCEPT !.tokens = @ + 1]
                  ELSE requests[r]]
            /\ pc' = "idle"
            /\ scheduled' = {}
            /\ start' = 1
       ELSE /\ start' = NextStart
            /\ UNCHANGED <<row, requests, pc, scheduled>>
    /\ UNCHANGED <<reqIds, index, params, bias, toAdd, removed, last>>

-----------------------------------------------------------------------------

Next ==
    \/ /\ pc = "idle"
       /\ \E out \in SchedulerOutputs :
             \E opts \in [{r \in Requests : out[r] \in {"new", "again"}} -> Options] :
                ExecuteModel(out, opts)
    \/ AddRequest
    \/ BeginCondense
    \/ CondenseMove
    \/ CondenseEnd
    \/ SampleTokens

Spec == Init /\ [][Next]_vars

-----------------------------------------------------------------------------
(* Properties *)

\* When the model is run the batch holds exactly the scheduled requests, without
\* gaps, whatever was removed, added and moved; the two ways to find a request
\* agree. (sample_tokens asserts that no id in the batch is None.)
BatchIsScheduled ==
    pc = "sample" =>
        /\ Len(reqIds) = NumReqs
        /\ ToSet(reqIds) = scheduled
        /\ \A s \in 1..Len(reqIds) : index[reqIds[s]] = s

\* What the model and the sampler read for the request in slot s, where the rows are
\* another request's or the parameters are, that one's name.
Given(s) ==
    LET r == reqIds[s]
        in == InputRow(s)
    IN IF row[in].req # r THEN row[in].req
       ELSE [has    |-> IF params[in] = NoOne THEN {}
                        ELSE IF params[in] = r THEN {"params"} ELSE {params[in]},
             tokens |-> row[in].tokens,
             blocks |-> row[in].blocks]

Batch == INSTANCE PersistentBatch WITH
    states <- requests,
    inputs <- IF pc = "sample" THEN [r \in ToSet(reqIds) |-> Given(index[r])]
              ELSE [r \in {} |-> NoOne],
    phase  <- CASE pc = "idle" -> "idle" [] pc = "sample" -> "ready" [] OTHER -> "scheduled"

\* The batch that is kept from step to step, with its gaps, moves and reused slots, gives
\* the model and the sampler what one built anew for every step would: each scheduled
\* request with the tokens, the block table and the min_tokens, generator and bad words of
\* its cached state.
ImplementsBatch == Batch!Spec

\* When the sampler runs, every request of the execution is sampled with its own logit_bias,
\* whoever held the slot before.
OwnBias ==
    pc = "sample" => \A s \in Chunk :
        bias[InputRow(s)] = IF "bias" \in requests[reqIds[s]].has THEN reqIds[s] ELSE NoOne

=============================================================================
