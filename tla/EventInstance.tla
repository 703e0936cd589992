--------------------------- MODULE EventInstance ---------------------------
(***************************************************************************)
(* One PJRT event (pjrt_implementation/src/api/event_instance.cc): the     *)
(* object through which the plugin tells its client that asynchronous work *)
(* is complete.                                                            *)
(*                                                                         *)
(* Clients call PJRT_Event_Await, _OnReady, _Error and _Destroy on their   *)
(* own threads.  Markers are the plugin threads that hold a raw pointer to *)
(* the event and call markAsReadyAndCallback.  Every critical section of   *)
(* m_ready_mutex is one action; what the code does before taking the lock  *)
(* or after releasing it is an action of its own, because another thread   *)
(* may run in between.                                                     *)
(***************************************************************************)
EXTENDS Naturals, FiniteSets, Sequences

CONSTANTS
    Clients,              \* threads of the PJRT client
    Markers,              \* plugin threads that mark the event ready
    Callbacks,            \* callbacks a client may register, each once
    DestroyingCallbacks,  \* the callbacks that call PJRT_Event_Destroy
    Statuses,             \* tt_pjrt_status values the work can end with
    kUnknown,             \* the status of an event that is not ready
    OrderlyDestroy        \* does the client keep to the rules of Orderly below?

ASSUME EventAssumption ==
    /\ IsFiniteSet(Clients)
    /\ Clients \cap Markers = {}
    /\ DestroyingCallbacks \subseteq Callbacks
    /\ kUnknown \notin Statuses
    /\ OrderlyDestroy \in BOOLEAN

VARIABLES
    indestructible,  \* m_indestructible, set before the client sees the event
    destroyed,   \* the destructor ran to completion
    terminated,  \* the destructor called std::terminate
    released,    \* the client called PJRT_Event_Destroy
    ready,       \* m_ready
    status,      \* m_status
    callbacks,   \* m_on_ready_callbacks, in registration order
    awaiting,    \* threads counted by m_awaiters_count
    asleep,      \* those of them that sleep on m_ready_condition
    pc,          \* control point of each thread
    todo,        \* callbacks a thread has taken and must still run
    arg,         \* the status a thread passes to those callbacks
    registered,  \* callbacks the client has handed to onReady
    invoked,     \* the statuses each callback was called with, in order
    returned     \* what the last completed call of each client returned

vars == <<indestructible, destroyed, terminated, released, ready, status, callbacks,
          awaiting, asleep, pc, todo, arg, registered, invoked, returned>>

Threads == Clients \cup Markers

\* std::terminate has not been called.
Running == ~terminated

\* An event is marked by whoever has work to report, an indestructible one only by the
\* buffer that owns it.
Init ==
    /\ indestructible \in BOOLEAN
    /\ destroyed = FALSE
    /\ terminated = FALSE
    /\ released = FALSE
    /\ ready = FALSE
    /\ status = kUnknown
    /\ callbacks = <<>>
    /\ awaiting = {}
    /\ asleep = {}
    /\ \E owner \in Markers :
          pc = [t \in Threads |-> IF t \in Clients THEN "idle"
                                ELSE IF indestructible /\ t # owner THEN "done" ELSE "working"]
    /\ todo = [t \in Threads |-> <<>>]
    /\ arg = [t \in Threads |-> kUnknown]
    /\ registered = {}
    /\ invoked = [c \in Callbacks |-> <<>>]
    /\ returned = [t \in Clients |-> kUnknown]

-----------------------------------------------------------------------------
(* The client's calls. A client starts no call after it gave the event up. *)

MayCall(t) ==
    /\ Running
    /\ ~released
    /\ ~destroyed
    /\ pc[t] = "idle"

\* await(), before the lock is taken: the counter is incremented.  Nobody awaits an
\* indestructible event, which is marked after the client has given it up.
AwaitEnter(t) ==
    /\ MayCall(t)
    /\ ~indestructible
    /\ awaiting' = awaiting \cup {t}
    /\ pc' = [pc EXCEPT ![t] = "waiting"]
    /\ UNCHANGED <<indestructible, destroyed, terminated, released, ready, status,
                   callbacks, asleep, todo, arg, registered, invoked, returned>>

\* wait(), holding the lock, with the predicate false: release the lock and sleep.
AwaitSleep(t) ==
    /\ Running
    /\ pc[t] = "waiting"
    /\ t \notin asleep
    /\ ~ready
    /\ asleep' = asleep \cup {t}
    /\ UNCHANGED <<indestructible, destroyed, terminated, released, ready, status,
                   callbacks, awaiting, pc, todo, arg, registered, invoked, returned>>

\* A condition variable may wake a thread that nobody notified.
SpuriousWakeup(t) ==
    /\ Running
    /\ t \in asleep
    /\ asleep' = asleep \ {t}
    /\ UNCHANGED <<indestructible, destroyed, terminated, released, ready, status,
                   callbacks, awaiting, pc, todo, arg, registered, invoked, returned>>

\* Mutant: a woken awaiter stays counted.
AwaitWakeKeepsCount(t) ==
    /\ Running
    /\ pc[t] = "waiting"
    /\ t \notin asleep
    /\ ready
    /\ pc' = [pc EXCEPT ![t] = "awoken"]
    /\ UNCHANGED <<indestructible, destroyed, terminated, released, ready, status,
                   callbacks, awaiting, asleep, todo, arg, registered, invoked, returned>>

\* Mutant: wait without a predicate: whatever wakes the thread ends the wait.
AwaitWakeSpurious(t) ==
    /\ Running
    /\ pc[t] = "waiting"
    /\ t \notin asleep
    /\ awaiting' = awaiting \ {t}
    /\ pc' = [pc EXCEPT ![t] = "awoken"]
    /\ UNCHANGED <<indestructible, destroyed, terminated, released, ready, status,
                   callbacks, asleep, todo, arg, registered, invoked, returned>>

\* wait(), awake and holding the lock, with the predicate true: the counter is decremented
\* under the lock.
AwaitWake(t) ==
    /\ Running
    /\ pc[t] = "waiting"
    /\ t \notin asleep
    /\ ready
    /\ awaiting' = awaiting \ {t}
    /\ pc' = [pc EXCEPT ![t] = "awoken"]
    /\ UNCHANGED <<indestructible, destroyed, terminated, released, ready, status,
                   callbacks, asleep, todo, arg, registered, invoked, returned>>

\* onEventError, up to the read of m_status. It throws when the event is not
\* ready, which leaves every variable alone.
EventError(t) ==
    /\ MayCall(t)
    /\ ready
    /\ pc' = [pc EXCEPT ![t] = "reading"]
    /\ UNCHANGED <<indestructible, destroyed, terminated, released, ready, status,
                   callbacks, awaiting, asleep, todo, arg, registered, invoked,
                   returned>>

\* getErrorFromStatus, called by onEventAwait and onEventError after the lock was
\* released. The value read from a destroyed event is arbitrary.
GetErrorFromStatus(t) ==
    /\ Running
    /\ pc[t] \in {"awoken", "reading"}
    /\ \E s \in IF destroyed THEN Statuses \cup {kUnknown} ELSE {status} :
          returned' = [returned EXCEPT ![t] = s]
    /\ pc' = [pc EXCEPT ![t] = "idle"]
    /\ UNCHANGED <<indestructible, destroyed, terminated, released, ready, status,
                   callbacks, awaiting, asleep, todo, arg, registered, invoked>>

\* Mutant: onReady does not look at m_ready.
OnReadyAlwaysQueues(t, c) ==
    /\ MayCall(t)
    /\ c \notin registered
    /\ registered' = registered \cup {c}
    /\ callbacks' = Append(callbacks, c)
    /\ UNCHANGED <<indestructible, destroyed, terminated, released, ready, status,
                   awaiting, asleep, pc, todo, arg, invoked, returned>>

\* onReady(): queue the callback, or, when the event is already ready, leave the
\* critical section to run it on the calling thread.
OnReady(t, c) ==
    /\ MayCall(t)
    /\ c \notin registered
    /\ registered' = registered \cup {c}
    /\ \/ /\ ~ready
          /\ callbacks' = Append(callbacks, c)
          /\ UNCHANGED <<pc, todo>>
       \/ /\ ready
          /\ todo' = [todo EXCEPT ![t] = <<c>>]
          /\ pc' = [pc EXCEPT ![t] = "calling"]
          /\ UNCHANGED callbacks
    /\ UNCHANGED <<indestructible, destroyed, terminated, released, ready, status,
                   awaiting, asleep, arg, invoked, returned>>

\* ~EventInstance: crash the process if somebody still waits for the event.
Destructor ==
    IF awaiting # {} \/ callbacks # <<>>
    THEN terminated' = TRUE /\ UNCHANGED destroyed
    ELSE destroyed' = TRUE /\ UNCHANGED terminated

\* onEventDestroy: does nothing to an indestructible event.
Destroy ==
    /\ released' = TRUE
    /\ IF indestructible
       THEN UNCHANGED <<destroyed, terminated>>
       ELSE Destructor

\* An orderly client gives a destructible event up once it is ready, when none of
\* its other threads is inside a call and no second marker is outstanding.
OrderlyRelease(t) ==
    (OrderlyDestroy /\ ~indestructible) =>
        /\ ready
        /\ \A u \in Clients \ {t} : pc[u] = "idle"
        /\ \A m \in Markers : pc[m] # "working"

\* An orderly client deletes the buffer that owns an indestructible event after
\* it has given the event up on every thread.
OrderlyOwner ==
    (OrderlyDestroy /\ indestructible) =>
        /\ released
        /\ \A u \in Clients : pc[u] = "idle"

ClientDestroy(t) ==
    /\ MayCall(t)
    /\ OrderlyRelease(t)
    /\ Destroy
    /\ UNCHANGED <<indestructible, ready, status, callbacks, awaiting, asleep, pc, todo,
                   arg, registered, invoked, returned>>

-----------------------------------------------------------------------------
(* The plugin's side, and the callbacks, which run on whichever thread has  *)
(* taken them, without the lock.                                            *)

\* Mutant: notify_one instead of notify_all.
MarkAsReadyNotifyOne(s) ==
    /\ ready' = TRUE
    /\ status' = IF ready THEN status ELSE s
    /\ IF ready \/ asleep = {} THEN UNCHANGED asleep
       ELSE \E t \in asleep : asleep' = asleep \ {t}

\* markAsReadyNoLock: only the first mark counts, and it wakes whoever sleeps.
MarkAsReadyNoLock(s) ==
    /\ ready' = TRUE
    /\ status' = IF ready THEN status ELSE s
    /\ asleep' = IF ready THEN asleep ELSE {}

\* markAsReadyAndCallback, the critical section.
MarkAsReady(m, s) ==
    /\ Running
    /\ pc[m] = "working"
    /\ ~destroyed
    /\ OrderlyOwner
    /\ MarkAsReadyNoLock(s)
    /\ todo' = [todo EXCEPT ![m] = callbacks]
    /\ callbacks' = <<>>
    /\ arg' = [arg EXCEPT ![m] = s]
    /\ pc' = [pc EXCEPT ![m] = "calling"]
    /\ UNCHANGED <<indestructible, destroyed, terminated, released, awaiting, registered,
                   invoked, returned>>

\* Mutant: the marker reads m_status of the event after releasing the lock.
CallbackStatusFromEvent(t) ==
    IF destroyed THEN Statuses \cup {kUnknown} ELSE {status}

\* The status handed to a callback: a marker passes its own argument, onReady
\* reads m_status, which is arbitrary once the event is destroyed.
CallbackStatus(t) ==
    IF t \in Markers THEN {arg[t]}
    ELSE IF destroyed THEN Statuses \cup {kUnknown} ELSE {status}

\* A callback runs. One of DestroyingCallbacks gives the event up if nobody has.
RunCallback(t) ==
    /\ Running
    /\ pc[t] = "calling"
    /\ todo[t] # <<>>
    /\ LET c == Head(todo[t]) IN
       /\ \E s \in CallbackStatus(t) :
             invoked' = [invoked EXCEPT ![c] = Append(@, s)]
       /\ \/ /\ c \in DestroyingCallbacks
             /\ ~released
             /\ OrderlyRelease(t)
             /\ Destroy
          \/ /\ c \notin DestroyingCallbacks \/ released \/ ~OrderlyRelease(t)
             /\ UNCHANGED <<destroyed, terminated, released>>
    /\ todo' = [todo EXCEPT ![t] = Tail(@)]
    /\ UNCHANGED <<indestructible, ready, status, callbacks, awaiting, asleep, pc, arg,
                   registered, returned>>

\* All callbacks ran. The owner of an indestructible event goes on to delete it
\* (BufferInstance::deleteData).
CallbacksDone(t) ==
    /\ Running
    /\ pc[t] = "calling"
    /\ todo[t] = <<>>
    /\ pc' = [pc EXCEPT ![t] = CASE t \in Clients -> "idle"
                                 [] t \in Markers /\ indestructible -> "deleting"
                                 [] OTHER -> "done"]
    /\ UNCHANGED <<indestructible, destroyed, terminated, released, ready, status,
                   callbacks, awaiting, asleep, todo, arg, registered, invoked,
                   returned>>

OwnerDelete(m) ==
    /\ Running
    /\ pc[m] = "deleting"
    /\ Destructor
    /\ pc' = [pc EXCEPT ![m] = "done"]
    /\ UNCHANGED <<indestructible, released, ready, status, callbacks, awaiting, asleep,
                   todo, arg, registered, invoked, returned>>

-----------------------------------------------------------------------------

ClientStep(t) ==
    \/ AwaitEnter(t)
    \/ EventError(t)
    \/ ClientDestroy(t)
    \/ \E c \in Callbacks : OnReady(t, c)

Progress(t) ==
    \/ AwaitSleep(t)
    \/ AwaitWake(t)
    \/ GetErrorFromStatus(t)
    \/ RunCallback(t)
    \/ CallbacksDone(t)

MarkerStep(m) ==
    \/ \E s \in Statuses : MarkAsReady(m, s)
    \/ OwnerDelete(m)

Next ==
    \/ \E t \in Clients : ClientStep(t)
    \/ \E t \in Threads : Progress(t) \/ SpuriousWakeup(t)
    \/ \E m \in Markers : MarkerStep(m)

\* A plugin thread reports the end of its work, and a thread inside a call is scheduled
\* again.  Clients need not make any call: neither one of theirs, nor the one that deletes
\* the buffer which owns an indestructible event.
Fairness ==
    /\ \A t \in Threads : WF_vars(Progress(t))
    /\ \A m \in Markers : WF_vars(~indestructible /\ MarkerStep(m))

Spec == Init /\ [][Next]_vars /\ Fairness

-----------------------------------------------------------------------------
(* Properties *)

\* Every variable holds a value of its C++ type.
TypeOK ==
    /\ indestructible \in BOOLEAN
    /\ destroyed \in BOOLEAN
    /\ terminated \in BOOLEAN
    /\ released \in BOOLEAN
    /\ ready \in BOOLEAN
    /\ status \in Statuses \cup {kUnknown}
    /\ callbacks \in Seq(Callbacks)
    /\ pc \in [Threads -> {"idle", "waiting", "awoken", "reading", "calling",
                           "working", "deleting", "done"}]
    /\ awaiting \in SUBSET Threads
    /\ asleep \in SUBSET Threads
    /\ todo \in [Threads -> Seq(Callbacks)]
    /\ arg \in [Threads -> Statuses \cup {kUnknown}]
    /\ registered \in SUBSET Callbacks
    /\ invoked \in [Callbacks -> Seq(Statuses \cup {kUnknown})]
    /\ returned \in [Clients -> Statuses \cup {kUnknown}]

\* A callback handed to onReady runs at most once, and with the status the event
\* was first marked with, whichever of onReady and markAsReadyAndCallback runs it
\* and even if the event is destroyed before it runs.
CallbackSeesFinalStatus ==
    \A c \in Callbacks : invoked[c] \in {<<>>, <<status>>}

\* onReady never leaves a callback in m_on_ready_callbacks of an event that is
\* already ready: nobody would take it from there.
NoStrandedCallback == ready => callbacks = <<>>

\* ~EventInstance does not crash the process of a client that keeps to the rules.
NeverTerminates == ~terminated

\* An event is ready for good, and its status is what the first mark said: later
\* marks are ignored by markAsReadyNoLock.
StatusFinal == [][ready => ready' /\ status' = status]_vars

\* Threads inside PJRT_Event_Await or PJRT_Event_Error.
Asking == {t \in Clients : pc[t] \in {"waiting", "awoken", "reading"}}

\* The mutex, the condition variable, the callbacks taken out of the queue and run without
\* the lock, and m_status, read without it, come to a promise that is kept: no call returns
\* and no callback runs before the first mark, and what they get is its status.
P == INSTANCE Promise WITH
        Askers <- Clients, Values <- Statuses, NoValue <- kUnknown,
        value <- IF ready THEN status ELSE kUnknown,
        asking <- Asking, answers <- returned, subscribed <- registered, told <- invoked

\* The event implements the promise.
ImplementsPromise == P!Spec

\* Every registered callback eventually runs; those of an indestructible event once the
\* buffer that owns it is deleted, which is up to the client.
CallbackEventuallyRuns ==
    \A c \in Callbacks :
        c \in registered /\ (indestructible => ready) ~> invoked[c] # <<>>

\* Every PJRT_Event_Await returns, although the one mark that counts notifies only the
\* threads that sleep at that moment.
AwaitEventuallyReturns ==
    \A t \in Clients : pc[t] = "waiting" ~> pc[t] = "idle"

=============================================================================
