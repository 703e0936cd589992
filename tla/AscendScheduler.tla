-------------------------- MODULE AscendScheduler --------------------------
(***************************************************************************)
(* The prefill-first scheduler of the vLLM plugin                          *)
(* (vllm_tt/scheduler/ascend_scheduler.py), over the parts of vLLM's own   *)
(* scheduler that it calls: the request queues, the KV cache manager and   *)
(* the base class's update_from_output and finish_requests.                *)
(*                                                                         *)
(* schedule() is a run of steps, one per iteration of its two loops; while *)
(* it runs (pc # "idle") only a grammar may become ready.  The engine may  *)
(* schedule again before the output of earlier batches has arrived.  LoRA, *)
(* remote KV transfer, prefix caching and speculative decoding are off.    *)
(***************************************************************************)
EXTENDS Integers, FiniteSets, Sequences, SequencesExt

CONSTANTS
    Requests,       \* each is added once
    PromptLens,     \* possible prompt lengths
    NumBlocks,      \* kv_cache_config.num_blocks; one of them is the null block
    BlockSize,
    Watermark,      \* scheduler_config.watermark, in percent
    MaxModelLen,
    MaxTokens,      \* max_num_scheduled_tokens
    MaxRunning,     \* max_num_running_reqs
    MaxBatches,     \* batches the engine keeps in flight
    Modes,          \* values of _forced_mode that are used, with "auto" for None
    MayAbort,       \* does the front end abort requests?
    AbortByName     \* is finish_requests given a string, not a collection?

ASSUME SchedulerAssumption ==
    /\ IsFiniteSet(Requests)
    /\ PromptLens \subseteq Nat \ {0}
    /\ {NumBlocks, BlockSize, MaxModelLen, MaxTokens, MaxRunning, MaxBatches}
          \subseteq Nat \ {0}
    /\ Watermark \in 0..100
    /\ "auto" \in Modes /\ Modes \subseteq {"auto", "prefill", "decode"}
    /\ MayAbort \in BOOLEAN
    /\ AbortByName \in BOOLEAN

VARIABLES
    requests,       \* keys of self.requests
    status,         \* request.status
    tokens,         \* request.num_tokens
    computed,       \* request.num_computed_tokens
    blocks,         \* number of KV cache blocks a request holds
    grammar,        \* requests whose grammar is compiled
    waiting,        \* self.waiting
    running,        \* self.running
    scheduledIds,   \* self.scheduled_req_ids
    forcedMode,     \* self._forced_mode
    inFlight,       \* batches whose output has not arrived, oldest first
    pc,             \* where schedule() is
    skipped,        \* skipped_waiting_requests
    budget,         \* token_budget
    batch,          \* num_scheduled_tokens, 0 for a request not in it
    reqIndex        \* req_index of the decode loop, counted from 1

reqVars == <<requests, status, tokens, computed, blocks, grammar>>
queueVars == <<waiting, running, scheduledIds, forcedMode, inFlight>>
localVars == <<pc, skipped, budget, batch, reqIndex>>
vars == <<reqVars, queueVars, localVars>>

EmptyBatch == [r \in Requests |-> 0]

Init ==
    /\ requests = {}
    /\ status = [r \in Requests |-> "new"]
    /\ tokens = [r \in Requests |-> 0]
    /\ computed = [r \in Requests |-> 0]
    /\ blocks = [r \in Requests |-> 0]
    /\ grammar = {}
    /\ waiting = <<>>
    /\ running = <<>>
    /\ scheduledIds = {}
    /\ forcedMode = "auto"
    /\ inFlight = <<>>
    /\ pc = "idle"
    /\ skipped = <<>>
    /\ budget = 0
    /\ batch = EmptyBatch
    /\ reqIndex = 1

-----------------------------------------------------------------------------
(* The KV cache                                                             *)

cdiv(a, b) == (a + b - 1) \div b
HeldBlocks == UNION {{r} \X (1..blocks[r]) : r \in Requests}
FreeBlocks == NumBlocks - 1 - Cardinality(HeldBlocks)
BlocksFor(n) == cdiv(n, BlockSize)
NewBlocks(r, n) == BlocksFor(computed[r] + n) - blocks[r]

\* allocate_slots returns blocks, not None.
SlotsLeft(r, n) == NewBlocks(r, n) <= FreeBlocks

\* _check_watermark_for_prefill
CheckWatermark(r, n) ==
    100 * (FreeBlocks - NewBlocks(r, n)) >= Watermark * NumBlocks

\* _get_prompt_limit, and the size of the KV cache.
PromptLimit == Min({MaxModelLen, MaxTokens, NumBlocks * BlockSize})

-----------------------------------------------------------------------------
(* Outside schedule()                                                       *)

\* Scheduler.add_request of vLLM.
AddRequest(r, n, needsGrammar) ==
    /\ pc = "idle"
    /\ status[r] = "new"
    /\ requests' = requests \cup {r}
    /\ status' = [status EXCEPT ![r] = IF needsGrammar THEN "waitingForFsm"
                                       ELSE "waiting"]
    /\ tokens' = [tokens EXCEPT ![r] = n]
    /\ waiting' = Append(waiting, r)
    /\ UNCHANGED <<computed, blocks, grammar, running, scheduledIds, forcedMode,
                   inFlight, localVars>>

\* The structured output manager has compiled the grammar of r.
GrammarReady(r) ==
    /\ status[r] = "waitingForFsm"
    /\ r \notin grammar
    /\ grammar' = grammar \cup {r}
    /\ UNCHANGED <<requests, status, tokens, computed, blocks, queueVars, localVars>>

SetForcedMode(m) ==
    /\ pc = "idle"
    /\ m # forcedMode
    /\ forcedMode' = m
    /\ UNCHANGED <<reqVars, waiting, running, scheduledIds, inFlight, localVars>>

\* The list s without the requests rs: position k has what is at the k-th of the
\* positions that are kept.
Without(s, rs) ==
    LET kept == {i \in 1..Len(s) : s[i] \notin rs}
        rank(i) == Cardinality({j \in kept : j <= i})
    IN [k \in 1..Cardinality(kept) |-> s[CHOOSE i \in kept : rank(i) = k]]

\* _free_request of the base class, for the requests rs.
FreeRequests(rs) ==
    /\ requests' = requests \ rs
    /\ status' = [r \in Requests |-> IF r \in rs THEN "finished" ELSE status[r]]
    /\ blocks' = [r \in Requests |-> IF r \in rs THEN 0 ELSE blocks[r]]
    /\ running' = Without(running, rs)

\* finish_requests(request_ids). The loop over a string visits its characters,
\* none of which is the identifier of a request. The base class ignores
\* requests that are finished.
FinishRequest(r) ==
    /\ pc = "idle"
    /\ MayAbort
    /\ r \in requests
    /\ status[r] # "ignored"
    /\ FreeRequests({r})
    /\ waiting' = Without(waiting, {r})
    /\ scheduledIds' = IF AbortByName THEN scheduledIds ELSE scheduledIds \ {r}
    /\ UNCHANGED <<tokens, computed, grammar, forcedMode, inFlight, localVars>>

\* Mutant: update_from_output does not clear scheduled_req_ids.
DescheduleNone(b) == {}

\* The ids that update_from_output takes out of scheduled_req_ids.
Deschedule(b) == {r \in ToSet(running) : b[r] > 0}

\* update_from_output: every request of the batch that is still there gets its next
\* token; the base class ends those that reach the length limit, and any other
\* whose token is a stop token.
UpdateFromOutput(stopped) ==
    /\ pc = "idle"
    /\ inFlight # <<>>
    /\ LET b == Head(inFlight)
           alive == {r \in requests : b[r] > 0}
       IN /\ stopped \subseteq alive
          /\ {r \in alive : tokens[r] + 1 >= MaxModelLen} \subseteq stopped
          /\ tokens' = [r \in Requests |-> IF r \in alive THEN tokens[r] + 1
                                           ELSE tokens[r]]
          /\ FreeRequests(stopped)
          /\ scheduledIds' = scheduledIds \ Deschedule(b)
    /\ inFlight' = Tail(inFlight)
    /\ UNCHANGED <<computed, grammar, waiting, forcedMode, localVars>>

-----------------------------------------------------------------------------
(* schedule()                                                               *)

\* The engine calls schedule() while it has requests and room for a batch.
BeginSchedule ==
    /\ pc = "idle"
    /\ waiting # <<>> \/ running # <<>>
    /\ Len(inFlight) < MaxBatches
    /\ pc' = "prefill"
    /\ budget' = MaxTokens
    /\ UNCHANGED <<reqVars, queueVars, skipped, batch, reqIndex>>

\* The loop over self.waiting has another iteration.
MorePrefill ==
    /\ waiting # <<>>
    /\ budget > 0
    /\ forcedMode # "decode"
    /\ Len(running) # MaxRunning

Candidate == Head(waiting)
GrammarMissing(r) == status[r] = "waitingForFsm" /\ r \notin grammar

\* A request is prefilled in one piece; a resumed one with its output tokens.
NumNewTokens(r) == tokens[r] - computed[r]
TooLong(r) == NumNewTokens(r) > PromptLimit

\* Nothing to skip the request for.
Admissible(r) ==
    /\ ~GrammarMissing(r)
    /\ ~TooLong(r)
    /\ NumNewTokens(r) <= budget
    /\ CheckWatermark(r, NumNewTokens(r))

\* allocate_slots returns None for an admissible request: the loop is left.
AllocationFails ==
    /\ Admissible(Candidate)
    /\ ~SlotsLeft(Candidate, NumNewTokens(Candidate))

\* A request whose grammar is there does not wait for it any more, scheduled or not.
Unblocked(r) ==
    [status EXCEPT ![r] = IF @ = "waitingForFsm" /\ ~GrammarMissing(r)
                          THEN "waiting" ELSE @]

\* skip_cur_request: for its grammar, the token budget or the watermark.
SkipCurRequest ==
    /\ pc = "prefill"
    /\ MorePrefill
    /\ GrammarMissing(Candidate) \/ ~TooLong(Candidate)
    /\ ~Admissible(Candidate)
    /\ skipped' = <<Candidate>> \o skipped
    /\ waiting' = Tail(waiting)
    /\ status' = Unblocked(Candidate)
    /\ UNCHANGED <<requests, tokens, computed, blocks, grammar, running,
                   scheduledIds, forcedMode, inFlight, pc, budget, batch, reqIndex>>

\* The prompt is too long for the model or for the KV cache.
IgnoreRequest ==
    /\ pc = "prefill"
    /\ MorePrefill
    /\ ~GrammarMissing(Candidate)
    /\ TooLong(Candidate)
    /\ status' = [status EXCEPT ![Candidate] = "ignored"]
    /\ waiting' = Tail(waiting)
    /\ UNCHANGED <<requests, tokens, computed, blocks, grammar, running,
                   scheduledIds, forcedMode, inFlight, pc, skipped, budget, batch,
                   reqIndex>>

\* The request joins the batch and the running requests.
SchedulePrefill ==
    /\ pc = "prefill"
    /\ MorePrefill
    /\ Admissible(Candidate) /\ ~AllocationFails
    /\ LET r == Candidate
           n == NumNewTokens(r)
       IN /\ blocks' = [blocks EXCEPT ![r] = BlocksFor(computed[r] + n)]
          /\ status' = [status EXCEPT ![r] = "running"]
          /\ running' = Append(running, r)
          /\ scheduledIds' = scheduledIds \cup {r}
          /\ batch' = [batch EXCEPT ![r] = n]
          /\ budget' = budget - n
    /\ waiting' = Tail(waiting)
    /\ UNCHANGED <<requests, tokens, computed, grammar, forcedMode, inFlight, pc,
                   skipped, reqIndex>>

\* Mutant: the skipped requests come back in the wrong order.
EndPrefillReversed ==
    /\ pc = "prefill"
    /\ MorePrefill => AllocationFails
    /\ waiting' = skipped \o waiting
    /\ status' = IF MorePrefill THEN Unblocked(Candidate) ELSE status
    /\ pc' = IF scheduledIds = {} /\ forcedMode # "prefill" THEN "decode" ELSE "output"
    /\ skipped' = <<>>
    /\ UNCHANGED <<requests, tokens, computed, blocks, grammar, running, scheduledIds,
                   forcedMode, inFlight, budget, batch, reqIndex>>

\* Put the skipped requests back (extendleft reverses them); decode only if nothing is
\* scheduled, in this step or in an earlier one that is still in flight.
EndPrefill ==
    /\ pc = "prefill"
    /\ MorePrefill => AllocationFails
    /\ waiting' = Reverse(skipped) \o waiting
    /\ status' = IF MorePrefill THEN Unblocked(Candidate) ELSE status
    /\ pc' = IF scheduledIds = {} /\ forcedMode # "prefill" THEN "decode" ELSE "output"
    /\ skipped' = <<>>
    /\ UNCHANGED <<requests, tokens, computed, blocks, grammar, running, scheduledIds,
                   forcedMode, inFlight, budget, batch, reqIndex>>

\* The loop over self.running has another iteration.
MoreDecode == reqIndex <= Len(running) /\ budget > 0
Decoder == running[reqIndex]
NumDecodeTokens(r) == Min({tokens[r] - computed[r], budget, MaxModelLen - computed[r]})

\* Mutant: a decode goes on without blocks.
AllocateAlways(r) == TRUE

CanAllocate(r) == SlotsLeft(r, NumDecodeTokens(r))

\* The next running request joins the batch.
ScheduleDecode ==
    /\ pc = "decode"
    /\ MoreDecode
    /\ Decoder \notin scheduledIds
    /\ CanAllocate(Decoder)
    /\ LET r == Decoder
           n == NumDecodeTokens(r)
       IN /\ blocks' = [blocks EXCEPT ![r] = @ + NewBlocks(r, n)]
          /\ scheduledIds' = scheduledIds \cup {r}
          /\ batch' = [batch EXCEPT ![r] = n]
          /\ budget' = budget - n
    /\ reqIndex' = reqIndex + 1
    /\ UNCHANGED <<requests, status, tokens, computed, grammar, waiting, running,
                   forcedMode, inFlight, pc, skipped>>

\* Mutant: the oldest request is preempted.
VictimFirst == Head(running)

\* self.running.pop()
Victim == Last(running)

\* Mutant: the preempted request keeps its blocks.
FreedKeeps(v) == blocks

\* kv_cache_manager.free
Freed(v) == [blocks EXCEPT ![v] = 0]

\* No blocks: preempt a request and try again, unless it was this request.
Preempt ==
    /\ pc = "decode"
    /\ MoreDecode
    /\ Decoder \notin scheduledIds
    /\ ~CanAllocate(Decoder)
    /\ running' = Without(running, {Victim})
    /\ blocks' = Freed(Victim)
    /\ status' = [status EXCEPT ![Victim] = "preempted"]
    /\ computed' = [computed EXCEPT ![Victim] = 0]
    /\ waiting' = <<Victim>> \o waiting
    /\ pc' = IF Victim = Decoder THEN "output" ELSE "decode"
    /\ UNCHANGED <<requests, tokens, grammar, scheduledIds, forcedMode, inFlight,
                   skipped, budget, batch, reqIndex>>

EndDecode ==
    /\ pc = "decode"
    /\ ~MoreDecode
    /\ pc' = "output"
    /\ UNCHANGED <<reqVars, queueVars, skipped, budget, batch, reqIndex>>

\* The rest of schedule(): hand the batch out, and count its tokens as computed.
Output ==
    /\ pc = "output"
    /\ inFlight' = Append(inFlight, batch)
    /\ computed' = [r \in Requests |-> computed[r] + batch[r]]
    /\ pc' = "idle"
    /\ batch' = EmptyBatch
    /\ budget' = 0
    /\ reqIndex' = 1
    /\ UNCHANGED <<requests, status, tokens, blocks, grammar, waiting, running,
                   scheduledIds, forcedMode, skipped>>

-----------------------------------------------------------------------------

Schedule ==
    \/ BeginSchedule
    \/ SkipCurRequest
    \/ IgnoreRequest
    \/ SchedulePrefill
    \/ EndPrefill
    \/ ScheduleDecode
    \/ Preempt
    \/ EndDecode
    \/ Output

Update == \E stopped \in SUBSET Requests : UpdateFromOutput(stopped)

Next ==
    \/ \E r \in Requests, n \in PromptLens, g \in BOOLEAN : AddRequest(r, n, g)
    \/ \E r \in Requests : GrammarReady(r)
    \/ \E m \in Modes : SetForcedMode(m)
    \/ \E r \in Requests : FinishRequest(r)
    \/ Update
    \/ Schedule

\* The engine core loop schedules while there are requests, the model runner returns
\* every batch, and grammars are compiled.
Fairness ==
    /\ WF_vars(Schedule)
    /\ WF_vars(Update)
    /\ \A r \in Requests : WF_vars(GrammarReady(r))

Spec == Init /\ [][Next]_vars /\ Fairness

-----------------------------------------------------------------------------
(* Properties *)

\* A request is in exactly one place, in the one its status says, and only running
\* requests hold KV cache blocks. Between calls scheduled_req_ids, which the gate in front
\* of the decode loop depends on, holds exactly the running requests whose output is still
\* to arrive, none of them in two batches.
QueuesMatchStatus ==
    /\ IsInjective(waiting \o running \o skipped)
    /\ \A r \in Requests :
          /\ r \in ToSet(running) <=> status[r] = "running"
          /\ r \in ToSet(waiting \o skipped)
                <=> status[r] \in {"waiting", "waitingForFsm", "preempted"}
          /\ blocks[r] > 0 => status[r] = "running"
    /\ pc = "idle" =>
          /\ scheduledIds = {r \in ToSet(running) :
                                \E i \in 1..Len(inFlight) : inFlight[i][r] > 0}
          /\ \A r \in scheduledIds : \A i, j \in 1..Len(inFlight) :
                inFlight[i][r] > 0 /\ inFlight[j][r] > 0 => i = j

\* The running requests have the blocks for every token the batch computes, and
\* together they hold no more blocks than there are.
BlocksSuffice ==
    /\ FreeBlocks >= 0
    /\ \A r \in ToSet(running) :
          BlocksFor(computed[r] + batch[r]) <= blocks[r]

\* A request that was put into the batch is not preempted in the same step, prefills and
\* decodes are never mixed in one batch, and a request that is decoded has exactly one token
\* that is not computed yet, its last, as the decode loop asserts, whatever was in flight,
\* preempted or resumed before.
BatchConsistent ==
    /\ \A r \in Requests : batch[r] > 0 => status[r] = "running"
    /\ pc \in {"decode", "output"} =>
          \/ \A r \in Requests : batch[r] > 0 => computed[r] = 0
          \/ \A r \in Requests : batch[r] > 0 => computed[r] > 0 /\ batch[r] = 1
    /\ pc = "decode" =>
          \A i \in reqIndex..Len(running) : tokens[running[i]] = computed[running[i]] + 1

\* Requests are admitted in the order of the queue: skipping some of them, or
\* preempting others, never changes the order of those that wait.
Order(s, a, b) == \E i, j \in 1..Len(s) : i < j /\ s[i] = a /\ s[j] = b
QueueOrderKept ==
    [][\A a, b \in Requests :
          (/\ Order(Reverse(skipped) \o waiting, a, b)
           /\ {a, b} \subseteq ToSet(waiting' \o skipped'))
               => Order(Reverse(skipped') \o waiting', a, b)]_vars

\* Every request ends: it finishes, or is found to be too long. Prefills do not
\* starve decodes, preemption does not go on for ever, and no request is skipped
\* for ever.
RequestsEnd == \A r \in Requests :
    r \in requests ~> (r \notin requests \/ status[r] = "ignored")

=============================================================================
