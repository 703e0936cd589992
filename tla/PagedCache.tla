----------------------------- MODULE PagedCache -----------------------------
(***************************************************************************)
(* The paged KV cache of the generative runner: _prepare_inputs            *)
(* (vllm_tt/model_runner.py) builds the page table and the cache positions *)
(* for a fixed number of rows, the attention layer (attention.py) writes   *)
(* every row's keys and values through them with the paged operations of   *)
(* tt_torch/custom_ops.py.                                                 *)
(*                                                                         *)
(* A key (and its value) is abstracted to the request and the position it  *)
(* is of.  Blocks are handed out by vLLM's block pool, which is external:  *)
(* any free block will do.  Its block table holds the null block beyond    *)
(* the blocks of a request.  Prefixes are not cached.                      *)
(***************************************************************************)
EXTENDS Integers, FiniteSets, Sequences, SequencesExt

CONSTANTS
    Requests,       \* request identifiers
    Rows,           \* max_num_reqs, the rows of every tensor
    Blocks,         \* blocks of the pool
    NullBlock,      \* block 0, which vLLM never hands out
    BlockSize,
    MaxBlocks,      \* max_num_blocks_per_req, the columns of the page table
    Paddings,       \* num_tokens_paddings
    Prompts,        \* lengths of the requests' prompts
    Junk            \* a key that is no request's: of padding, or of a request that left

ASSUME CacheAssumption ==
    /\ IsFiniteSet(Requests)
    /\ {Rows, BlockSize, MaxBlocks} \subseteq Nat \ {0}
    /\ NullBlock \notin Blocks
    /\ 1 \in Paddings
    /\ Prompts \subseteq 1..Max(Paddings)
    /\ \A p \in Paddings : p \in Nat \ {0} /\ p <= MaxBlocks * BlockSize

VARIABLES
    owned,          \* the blocks of a request, in order; empty if it is not running
    computed,       \* num_computed_tokens: how many of its keys are in the cache
    pageTable,      \* block_table_cpu, kept from step to step
    seqLens,        \* seq_lens_cpu, kept from step to step
    cache,          \* the key in every slot of every block
    exposed,        \* has a batch of several requests left rows of others in the page table?
    sampled         \* for every request of the last step, what its next token was sampled from

vars == <<owned, computed, pageTable, seqLens, cache, exposed, sampled>>

MaxLen == Max(Paddings)
CDiv(a, b) == (a + b - 1) \div b
Running == {r \in Requests : owned[r] # <<>>}
Used == UNION {ToSet(owned[r]) : r \in Requests}
NullRow == [c \in 1..MaxBlocks |-> NullBlock]

Init ==
    /\ owned = [r \in Requests |-> <<>>]
    /\ computed = [r \in Requests |-> 0]
    /\ pageTable = [u \in 1..Rows |-> NullRow]
    /\ seqLens = [u \in 1..Rows |-> 0]
    /\ cache = [b \in Blocks \cup {NullBlock} |-> [s \in 0..BlockSize - 1 |-> Junk]]
    /\ exposed = FALSE
    /\ sampled = <<>>

-----------------------------------------------------------------------------
(* _prepare_inputs, for a batch q of requests with their blocks and their *)
(* numbers of computed and of scheduled tokens.                           *)

PaddedLen(x) == Min({p \in Paddings : p >= x})

\* Mutant: the rows after a single request are left as they were.
PageTableKept(q, blocks) ==
    [u \in 1..Rows |-> IF u <= Len(q)
                       THEN [c \in 1..MaxBlocks |-> IF c <= Len(blocks[q[u]])
                                                    THEN blocks[q[u]][c] ELSE NullBlock]
                       ELSE pageTable[u]]

\* The rows of the batch are copied from the block table.  The rows after it are
\* reset only if it has a single request.
PageTable(q, blocks) ==
    [u \in 1..Rows |-> IF u <= Len(q)
                       THEN [c \in 1..MaxBlocks |-> IF c <= Len(blocks[q[u]])
                                                    THEN blocks[q[u]][c] ELSE NullBlock]
                       ELSE IF Len(q) = 1 THEN NullRow ELSE pageTable[u]]

\* seq_lens_np; the rows after the batch are never reset.
SeqLens(q, from, num) ==
    [u \in 1..Rows |-> IF u <= Len(q) THEN from[q[u]] + num[q[u]] ELSE seqLens[u]]

\* cache_position
CachePosition(q, lens) ==
    [u \in 1..Rows |-> IF Len(q) = 1 /\ u > 1 THEN -1 ELSE lens[u] - 1]

\* input_ids and position_ids: what the keys of a row are of, 0 <= p < padded.
Key(q, from, num, u, p) ==
    IF u <= Len(q) /\ p < num[q[u]] THEN <<q[u], from[q[u]] + p>> ELSE Junk

\* query_start_loc: how many tokens are scheduled for the first u requests.
RunningTotal(q, num, u) == Cardinality(UNION {{v} \X (1..num[q[v]]) : v \in 1..u})

\* Mutant: the total is not made an index.
LogitsIndexTotal(q, num, u, padded) == Min({RunningTotal(q, num, u), padded})

\* logits_indices: the running total of the scheduled tokens, less one; as an index
\* into a row it is clamped to the padded length.
LogitsIndex(q, num, u, padded) == Min({RunningTotal(q, num, u), padded}) - 1

-----------------------------------------------------------------------------
(* custom_ops.py *)

\* How deep into its block a position is; a negative one counts from the end.
Offset(pos) == pos % BlockSize

\* The block of a position, through a row of the page table.
BlockOf(tableRow, pos) == tableRow[IF pos < 0 THEN MaxBlocks ELSE pos \div BlockSize + 1]

\* paged_update_cache: one key per row.  If two rows have the same slot it is not
\* defined which of them is written last.
PagedUpdateCache(old, key, position, table, lastWins) ==
    LET writers(b, s) == {u \in 1..Rows : BlockOf(table[u], position[u]) = b
                                          /\ Offset(position[u]) = s}
    IN [b \in DOMAIN old |-> [s \in 0..BlockSize - 1 |->
            IF writers(b, s) = {} THEN old[b][s]
            ELSE key[IF lastWins THEN Max(writers(b, s)) ELSE Min(writers(b, s))]]]

\* paged_fill_cache, for one row after the other: the keys of a row fill its blocks from
\* the first slot on.  Where a block is in the table twice, what a later row, or a later
\* column of the row, writes stays.
PagedFillCache(old, keys, table) ==
    LET columns(u, b, s) == {c \in 1..MaxBlocks : table[u][c] = b
                                /\ (c - 1) * BlockSize + s \in DOMAIN keys[u]}
        fillers(b, s) == {u \in 1..Rows : columns(u, b, s) # {}}
        last(u, b, s) == keys[u][(Max(columns(u, b, s)) - 1) * BlockSize + s]
    IN [b \in DOMAIN old |-> [s \in 0..BlockSize - 1 |->
            IF fillers(b, s) = {} THEN old[b][s] ELSE last(Max(fillers(b, s)), b, s)]]

\* paged_scaled_dot_product_attention_decode: the blocks of a row of the page table are put
\* together and what is after the current position is masked.
PagedDecodeAttention(new, tableRow, pos) ==
    {new[BlockOf(tableRow, p)][Offset(p)] : p \in 0..pos}

\* scaled_dot_product_attention, causal: the keys of the row itself; the cache is not read.
FullAttention(q, from, num, u, at) == {Key(q, from, num, u, p) : p \in 0..at}

-----------------------------------------------------------------------------
(* A step of the runner. *)

\* _handle_paged_attention: a single token per row is decoding, more are a prefill,
\* which fills the cache row by row.
HandlePagedAttention(q, from, num, table, position, padded, lastWins) ==
    IF padded = 1
    THEN PagedUpdateCache(cache, [u \in 1..Rows |-> Key(q, from, num, u, 0)], position,
                          table, lastWins)
    ELSE PagedFillCache(cache, [u \in 1..Rows |-> [p \in 0..padded - 1 |->
                                   Key(q, from, num, u, p)]], table)

\* The keys that the token at the logits index of a row attends to.
Attention(new, q, from, num, u, table, position, padded) ==
    IF padded = 1 THEN PagedDecodeAttention(new, table[u], position[u])
    ELSE FullAttention(q, from, num, u, LogitsIndex(q, num, u, padded))

\* sample_tokens on the batch q, whose blocks the scheduler has allocated.
SampleTokens(q, blocks, from, num) ==
    LET padded == PaddedLen(Max({num[r] : r \in ToSet(q)}))
        table == PageTable(q, blocks)
        lens == SeqLens(q, from, num)
    IN /\ pageTable' = table
       /\ seqLens' = lens
       /\ \E lastWins \in BOOLEAN :
             cache' = HandlePagedAttention(q, from, num, table, CachePosition(q, lens),
                                           padded, lastWins)
       /\ sampled' = [u \in DOMAIN q |->
             [req |-> q[u], len |-> from[q[u]] + num[q[u]], later |-> u > 1 /\ padded > 1,
              sees |-> Attention(cache', q, from, num, u, table, CachePosition(q, lens), padded)]]
       /\ owned' = blocks
       /\ computed' = [r \in Requests |-> IF r \in ToSet(q) THEN from[r] + num[r]
                                          ELSE computed[r]]
       /\ exposed' = \/ exposed
                      \/ /\ Len(q) > 1
                         /\ \E u \in Len(q) + 1..Rows : table[u] # NullRow

\* The blocks of the requests after each of rs got more[r] free ones.
Allocations(rs, more) ==
    LET slots == UNION {{r} \X (1..more[r]) : r \in rs}
    IN {[r \in Requests |-> IF r \in rs THEN owned[r] \o [i \in 1..more[r] |-> new[<<r, i>>]]
                            ELSE owned[r]] : new \in Injection(slots, Blocks \ Used)}

Orders(rs) == {q \in [1..Cardinality(rs) -> rs] : ToSet(q) = rs}

\* New requests are prefilled, never together with running ones.
Prefill(rs, num) ==
    /\ ~exposed       \* a behaviour is followed up to the first step that exposes a request
    /\ rs # {} /\ Cardinality(rs \cup Running) <= Rows
    /\ \E q \in Orders(rs), blocks \in Allocations(rs, [r \in rs |-> CDiv(num[r], BlockSize)]) :
          SampleTokens(q, blocks, [r \in Requests |-> 0], num)

\* Every running request gets another token.
Decode ==
    LET more == [r \in Running |-> IF computed[r] % BlockSize = 0 THEN 1 ELSE 0]
    IN /\ ~exposed
       /\ Running # {}
       /\ \A r \in Running : computed[r] < MaxLen
       /\ \E q \in Orders(Running), blocks \in Allocations(Running, more) :
             SampleTokens(q, blocks, computed, [r \in Running |-> 1])

\* A request finishes, or it is preempted: its blocks go back to the pool.
Leave(r) ==
    /\ r \in Running
    /\ owned' = [owned EXCEPT ![r] = <<>>]
    /\ computed' = [computed EXCEPT ![r] = 0]
    /\ cache' = [b \in DOMAIN cache |-> [s \in 0..BlockSize - 1 |->
          IF cache[b][s] # Junk /\ cache[b][s][1] = r THEN Junk ELSE cache[b][s]]]
    /\ sampled' = <<>>
    /\ UNCHANGED <<pageTable, seqLens, exposed>>

Next ==
    \/ \E rs \in SUBSET (Requests \ Running) : \E num \in [rs -> Prompts] : Prefill(rs, num)
    \/ Decode
    \/ \E r \in Requests : Leave(r)

Spec == Init /\ [][Next]_vars

-----------------------------------------------------------------------------
(* Properties *)

\* The keys a running request will attend to are in its blocks, whatever other rows
\* were written in the same steps and whoever had the blocks before.  This does not
\* hold once a batch of several, but not of all rows has been written: the rows after it
\* may still name the blocks of requests that have left.
KeysIntact ==
    ~exposed => \A r \in Running : \A p \in 0..computed[r] - 1 :
        cache[owned[r][p \div BlockSize + 1]][p % BlockSize] = <<r, p>>

\* The next token of a request is sampled from all of its tokens and from nothing else: from
\* its last position ("Indices at which we sample (positions of last token in the
\* sequence)"), which sees the whole prompt, or the cache up to itself.  In the later rows
\* of a prefill the index counts the tokens of the rows before, too.
SampledFromOwnTokens ==
    ~exposed => \A u \in DOMAIN sampled : ~sampled[u].later =>
        sampled[u].sees = {sampled[u].req} \X (0..sampled[u].len - 1)
=============================================================================
