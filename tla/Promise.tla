------------------------------ MODULE Promise ------------------------------
(***************************************************************************)
(* What a PJRT event promises its client: a value that is set once, after  *)
(* which, and not before, every thread that asks gets it, and every        *)
(* callback is told it once, whether it was registered before or after.    *)
(* There are no locks, queues, flags or destructors here; EventInstance    *)
(* has all of them.                                                        *)
(***************************************************************************)
EXTENDS Sequences

CONSTANTS
    Askers,     \* threads that may ask for the value
    Callbacks,  \* callbacks that may be registered, each once
    Values,     \* values of the promise
    NoValue     \* it has none yet

VARIABLES
    value,       \* the value, or NoValue
    asking,      \* threads that have asked and have no answer yet
    answers,     \* the last answer of every thread
    subscribed,  \* callbacks that were registered
    told         \* the values each callback was called with, in order

vars == <<value, asking, answers, subscribed, told>>

Init ==
    /\ value = NoValue
    /\ asking = {}
    /\ answers = [t \in Askers |-> NoValue]
    /\ subscribed = {}
    /\ told = [c \in Callbacks |-> <<>>]

\* The value is set, for good.
Fulfil ==
    /\ value = NoValue
    /\ value' \in Values
    /\ UNCHANGED <<asking, answers, subscribed, told>>

Ask(t) ==
    /\ t \notin asking
    /\ asking' = asking \cup {t}
    /\ UNCHANGED <<value, answers, subscribed, told>>

\* A thread that asked goes on, with the value.
Answer(t) ==
    /\ t \in asking
    /\ value # NoValue
    /\ asking' = asking \ {t}
    /\ answers' = [answers EXCEPT ![t] = value]
    /\ UNCHANGED <<value, subscribed, told>>

Subscribe(c) ==
    /\ c \notin subscribed
    /\ subscribed' = subscribed \cup {c}
    /\ UNCHANGED <<value, asking, answers, told>>

\* A callback that was registered is called, the first time.
Tell(c) ==
    /\ c \in subscribed
    /\ value # NoValue
    /\ told[c] = <<>>
    /\ told' = [told EXCEPT ![c] = <<value>>]
    /\ UNCHANGED <<value, asking, answers, subscribed>>

Next ==
    \/ Fulfil
    \/ \E t \in Askers : Ask(t) \/ Answer(t)
    \/ \E c \in Callbacks : Subscribe(c) \/ Tell(c)

Spec == Init /\ [][Next]_vars

=============================================================================
