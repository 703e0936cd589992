-------------------------- MODULE PersistentBatch --------------------------
(***************************************************************************)
(* What the persistent batch of the vLLM plugin promises: whatever was     *)
(* computed before, a step gives the model and the sampler the tokens, the *)
(* block table and the parameters of every scheduled request, and of no    *)
(* other.  A batch that is built anew for every step does so by            *)
(* definition; ModelRunner keeps its arrays from step to step, and has     *)
(* slots, gaps and moves instead.                                          *)
(***************************************************************************)
EXTENDS Naturals, FiniteSets

CONSTANTS
    Requests,   \* request identifiers
    MaxReqs,    \* requests of one step
    MaxTokens,  \* bound on the tokens of a request
    MaxBlocks,  \* bound on its KV cache blocks
    Options,    \* what requests may come with
    NoOne       \* None

VARIABLES
    states,     \* the state of every live request
    scheduled,  \* the requests of the current step
    inputs,     \* what the model and the sampler are given, when they run
    phase       \* "idle", "scheduled" or "ready"

vars == <<states, scheduled, inputs, phase>>

State == [has : Options, tokens : 1..MaxTokens, blocks : 1..MaxBlocks]
NoInputs == [r \in {} |-> NoOne]

Init ==
    /\ states = [r \in Requests |-> NoOne]
    /\ scheduled = {}
    /\ inputs = NoInputs
    /\ phase = "idle"

\* Requests come, end, are given blocks, and some of those that live are scheduled.  One
\* that is scheduled has tokens, and nothing but the scheduler changes them.
Schedule ==
    /\ phase = "idle"
    /\ scheduled' \in {rs \in SUBSET Requests : Cardinality(rs) <= MaxReqs}
    /\ states' \in [Requests -> State \cup {NoOne}]
    /\ \A r \in scheduled' : states'[r] # NoOne
    /\ \A r \in Requests : states'[r] \notin {NoOne, states[r]} => r \in scheduled'
    /\ \A r \in scheduled' :
          \/ states'[r].tokens = 1
          \/ states[r] # NoOne /\ /\ states'[r].tokens = states[r].tokens
                                  /\ states'[r].has = states[r].has
    /\ phase' = "scheduled"
    /\ UNCHANGED inputs

\* The batch of the step: every scheduled request with its own state.
Prepare ==
    /\ phase = "scheduled"
    /\ phase' = IF scheduled = {} THEN "idle" ELSE "ready"
    /\ inputs' = [r \in scheduled |-> states[r]]
    /\ UNCHANGED <<states, scheduled>>

\* The model runs; every scheduled request gets one token.
Sample ==
    /\ phase = "ready"
    /\ states' = [r \in Requests |-> IF r \in scheduled THEN [states[r] EXCEPT !.tokens = @ + 1]
                                     ELSE states[r]]
    /\ scheduled' = {}
    /\ inputs' = NoInputs
    /\ phase' = "idle"

Next == Schedule \/ Prepare \/ Sample

Spec == Init /\ [][Next]_vars

=============================================================================
