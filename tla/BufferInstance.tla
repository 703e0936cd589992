--------------------------- MODULE BufferInstance ---------------------------
(***************************************************************************)
(* The threads and locks of PJRT buffers (api/buffer_instance.cc): copies  *)
(* to the host run on a thread of the buffer, and PJRT_Buffer_Delete and   *)
(* _Destroy have to wait for it.                                           *)
(*                                                                         *)
(* A call of the API is a record [op, buf, at]: what is called, on which   *)
(* buffer, and the control point it is at.  Each acquisition of a mutex,   *)
(* each join and each stretch of code between them is a step.  The copy    *)
(* thread of buffer b is identified with b.  TensorRuntime models what the *)
(* copies do to the tensors.                                               *)
(***************************************************************************)
EXTENDS Naturals, FiniteSets

CONSTANTS
    Clients,             \* threads of the PJRT client
    Buffers,             \* buffers the client holds, whose data is ready
    Aliased,             \* those that alias host memory of the client
    MaxCalls,            \* bound: calls of each client thread
    NoOne,               \* owner of a mutex that is free
    Behaviours           \* the sets of liberties a client may take, see Liberties

(***************************************************************************)
(* What a client may do beyond copying to the host, deleting and           *)
(* destroying one after the other:                                         *)
(*   ConcurrentDelete     overlap PJRT_Buffer_Delete with a copy           *)
(*   CallbacksMayDestroy  destroy buffers in the callback of a copy        *)
(*   CopiesToDevice       use PJRT_Buffer_CopyToDevice                     *)
(*   ReadyEventAgain      ask twice for the ready event                    *)
(***************************************************************************)
Liberties == {"ConcurrentDelete", "CallbacksMayDestroy", "CopiesToDevice",
              "ReadyEventAgain"}

ASSUME BufferAssumption ==
    /\ Clients \cap Buffers = {}
    /\ Aliased \subseteq Buffers
    /\ MaxCalls \in Nat
    /\ NoOne \notin Clients \cup Buffers
    /\ Behaviours \subseteq SUBSET Liberties

VARIABLES
    liberties,    \* those the client of this process takes
    exists,       \* the buffers that are not freed
    deleted,      \* m_data_deleted
    deletedLock,  \* owner of m_data_deleted_mutex
    threadLock,   \* owner of m_copy_to_host_thread_mutex
    internalLock, \* owner of s_copy_to_host_internal_mutex
    thread,       \* m_copy_to_host_thread: what the copy thread is doing
    hostMemory,   \* "lent" until m_done_with_host_buffer_event is marked
    readyEvent,   \* m_data_ready_event is set
    call,         \* the call each thread is in
    calls,        \* how many calls each client thread has made
    crashed       \* std::terminate, or an exception nobody catches

vars == <<liberties, exists, deleted, deletedLock, threadLock, internalLock, thread,
          hostMemory, readyEvent, call, calls, crashed>>

Threads == Clients \cup Buffers
Idle == [op |-> "none", buf |-> NoOne, at |-> "idle"]
Running == ~crashed

Init ==
    /\ liberties \in Behaviours
    /\ exists = Buffers
    /\ deleted = [b \in Buffers |-> FALSE]
    /\ deletedLock = [b \in Buffers |-> NoOne]
    /\ threadLock = [b \in Buffers |-> NoOne]
    /\ internalLock = NoOne
    /\ thread = [b \in Buffers |-> "none"]
    /\ hostMemory = [b \in Buffers |-> IF b \in Aliased THEN "lent" ELSE "copied"]
    /\ readyEvent = [b \in Buffers |-> FALSE]
    /\ call = [t \in Threads |-> Idle]
    /\ calls = [c \in Clients |-> 0]
    /\ crashed = FALSE

-----------------------------------------------------------------------------
(* The rules of pjrt_c_api.h for the client.                                *)

CallsOn(b) == {t \in Threads : call[t].buf = b}

\* A buffer is only destroyed once, when no other call uses it, and after its data
\* was deleted it is only used with PJRT_Buffer_Delete, _IsDeleted and _Destroy.
MayCall(op, b) ==
    /\ b \in exists
    /\ \A t \in CallsOn(b) : op # "Destroy" /\ call[t].op # "Destroy"
    /\ op \in {"ToHost", "CopyToDevice", "ReadyEvent"} =>
          /\ ~deleted[b]
          /\ "ConcurrentDelete" \in liberties \/ \A t \in CallsOn(b) : call[t].op # "Delete"
    /\ op = "Delete" =>
          "ConcurrentDelete" \in liberties \/ \A t \in CallsOn(b) : call[t].op = "Delete"
    /\ op = "CopyToDevice" => "CopiesToDevice" \in liberties
    /\ op = "ReadyEvent" =>
          \/ "ReadyEventAgain" \in liberties
          \/ ~readyEvent[b] /\ \A t \in CallsOn(b) : call[t].op # "ReadyEvent"

FirstStep == [ToHost |-> "lockThread", Delete |-> "lockDeleted",
              Destroy |-> "lockDeleted", CopyToDevice |-> "move",
              ReadyEvent |-> "create"]

\* A client thread calls the API.
ClientCalls(c, op, b) ==
    /\ Running
    /\ call[c] = Idle
    /\ calls[c] < MaxCalls
    /\ MayCall(op, b)
    /\ call' = [call EXCEPT ![c] = [op |-> op, buf |-> b, at |-> FirstStep[op]]]
    /\ calls' = [calls EXCEPT ![c] = @ + 1]
    /\ UNCHANGED <<liberties, exists, deleted, deletedLock, threadLock, internalLock,
                   thread, hostMemory, readyEvent, crashed>>

\* The callback of a copy's event, which runs on the copy thread, calls the API.
CallbackCalls(t, b) ==
    /\ Running
    /\ "CallbacksMayDestroy" \in liberties
    /\ thread[t] \in {"calling", "failing"}
    /\ call[t] = Idle
    /\ MayCall("Destroy", b)
    /\ call' = [call EXCEPT ![t] = [op |-> "Destroy", buf |-> b, at |-> "lockDeleted"]]
    /\ UNCHANGED <<liberties, exists, deleted, deletedLock, threadLock, internalLock,
                   thread, hostMemory, readyEvent, calls, crashed>>

At(t, b, at) == Running /\ call[t].buf = b /\ call[t].at = at
Goto(t, at) == call' = [call EXCEPT ![t].at = at]
Return(t) == call' = [call EXCEPT ![t] = Idle]

-----------------------------------------------------------------------------
(* copyToHost and deleteData                                                *)

\* Mutant: nobody takes m_copy_to_host_thread_mutex.
LockThreadNot(t, b) ==
    /\ At(t, b, "lockThread")
    /\ Goto(t, "join")
    /\ UNCHANGED <<liberties, exists, deleted, deletedLock, threadLock, internalLock,
                   thread, hostMemory, readyEvent, calls, crashed>>

\* Both take m_copy_to_host_thread_mutex.
LockThread(t, b) ==
    /\ At(t, b, "lockThread")
    /\ threadLock[b] = NoOne
    /\ threadLock' = [threadLock EXCEPT ![b] = t]
    /\ Goto(t, "join")
    /\ UNCHANGED <<liberties, exists, deleted, deletedLock, internalLock, thread,
                   hostMemory, readyEvent, calls, crashed>>

\* join() returns: the thread is not joinable, or it has finished.
Joined(b) == thread[b] \in {"none", "finished"}

\* A thread that joins itself: std::system_error.
JoinSelf(t, b) ==
    /\ At(t, b, "join")
    /\ t = b
    /\ crashed' = TRUE
    /\ UNCHANGED <<liberties, exists, deleted, deletedLock, threadLock, internalLock,
                   thread, hostMemory, readyEvent, call, calls>>

\* copyToHost: the thread of the last copy is joined, if there is one.
JoinedForCopy(t, b) ==
    /\ At(t, b, "join")
    /\ call[t].op = "ToHost"
    /\ t # b
    /\ Joined(b)
    /\ thread' = [thread EXCEPT ![b] = "none"]
    /\ Goto(t, "spawn")
    /\ UNCHANGED <<liberties, exists, deleted, deletedLock, threadLock, internalLock,
                   hostMemory, readyEvent, calls, crashed>>

\* copyToHost: assign a new thread to m_copy_to_host_thread, unlock and return.  Assigning
\* to a std::thread that is joinable terminates the process.
Spawn(t, b) ==
    /\ At(t, b, "spawn")
    /\ IF thread[b] = "none"
       THEN thread' = [thread EXCEPT ![b] = "starting"] /\ UNCHANGED crashed
       ELSE crashed' = TRUE /\ UNCHANGED thread
    /\ threadLock' = [threadLock EXCEPT ![b] = NoOne]
    /\ Return(t)
    /\ UNCHANGED <<liberties, exists, deleted, deletedLock, internalLock, hostMemory,
                   readyEvent, calls>>

\* What follows deleteData in PJRT_Buffer_Delete and PJRT_Buffer_Destroy.
AfterDelete(t) == IF call[t].op = "Destroy" THEN Goto(t, "free") ELSE Return(t)

\* deleteData: take m_data_deleted_mutex; return if the data is deleted already.
LockDeleted(t, b) ==
    /\ At(t, b, "lockDeleted")
    /\ deletedLock[b] = NoOne
    /\ IF deleted[b]
       THEN AfterDelete(t) /\ UNCHANGED deletedLock
       ELSE /\ deletedLock' = [deletedLock EXCEPT ![b] = t]
            /\ Goto(t, "lockThread")
    /\ UNCHANGED <<liberties, exists, deleted, threadLock, internalLock, thread,
                   hostMemory, readyEvent, calls, crashed>>

\* Mutant: deleteData does not wait for the copy.
DeleteWithoutJoin(t, b) ==
    /\ At(t, b, "join")
    /\ call[t].op # "ToHost"
    /\ threadLock' = [threadLock EXCEPT ![b] = NoOne]
    /\ Goto(t, "mark")
    /\ UNCHANGED <<liberties, exists, deleted, deletedLock, internalLock, thread,
                   hostMemory, readyEvent, calls, crashed>>

\* deleteData after the join: unlock m_copy_to_host_thread_mutex.
JoinedForDelete(t, b) ==
    /\ At(t, b, "join")
    /\ call[t].op # "ToHost"
    /\ t # b
    /\ Joined(b)
    /\ thread' = [thread EXCEPT ![b] = "none"]
    /\ threadLock' = [threadLock EXCEPT ![b] = NoOne]
    /\ Goto(t, "mark")
    /\ UNCHANGED <<liberties, exists, deleted, deletedLock, internalLock, hostMemory,
                   readyEvent, calls, crashed>>

\* deleteData, the rest: give the host memory back to the client and unlock.
MarkDeleted(t, b) ==
    /\ At(t, b, "mark")
    /\ deleted' = [deleted EXCEPT ![b] = TRUE]
    /\ hostMemory' = [hostMemory EXCEPT ![b] = IF @ = "lent" THEN "returned" ELSE @]
    /\ deletedLock' = [deletedLock EXCEPT ![b] = NoOne]
    /\ AfterDelete(t)
    /\ UNCHANGED <<liberties, exists, threadLock, internalLock, thread, readyEvent, calls,
                   crashed>>

\* The members are destroyed. std::thread terminates the process if it is joinable.
Free(t, b) ==
    /\ At(t, b, "free")
    /\ IF thread[b] = "none"
       THEN exists' = exists \ {b} /\ UNCHANGED crashed
       ELSE crashed' = TRUE /\ UNCHANGED exists
    /\ Return(t)
    /\ UNCHANGED <<liberties, deleted, deletedLock, threadLock, internalLock, thread,
                   hostMemory, readyEvent, calls>>

\* createDataReadyEvent, under m_data_ready_mutex: TT_FATAL throws the second time.
CreateDataReadyEvent(t, b) ==
    /\ At(t, b, "create")
    /\ crashed' = readyEvent[b]
    /\ readyEvent' = [readyEvent EXCEPT ![b] = TRUE]
    /\ Return(t)
    /\ UNCHANGED <<liberties, exists, deleted, deletedLock, threadLock, internalLock,
                   thread, hostMemory, calls>>

\* copyToDeviceMemory: between "move" and "moving" the call enters move_to_host of
\* the source, and takes no lock.
EnterMoveToHost(t, b) ==
    /\ At(t, b, "move")
    /\ Goto(t, "moving")
    /\ UNCHANGED <<liberties, exists, deleted, deletedLock, threadLock, internalLock,
                   thread, hostMemory, readyEvent, calls, crashed>>

CopyFromBuffer(t, b) ==
    /\ At(t, b, "moving")
    /\ Return(t)
    /\ UNCHANGED <<liberties, exists, deleted, deletedLock, threadLock, internalLock,
                   thread, hostMemory, readyEvent, calls, crashed>>

-----------------------------------------------------------------------------
(* The copy thread of b                                                     *)

\* Mutant: the copy threads of different buffers run at the same time.
CopyLockOwn(b) ==
    /\ Running
    /\ thread[b] = "starting"
    /\ thread' = [thread EXCEPT ![b] = "moving"]
    /\ UNCHANGED <<liberties, exists, deleted, deletedLock, threadLock, internalLock,
                   hostMemory, readyEvent, call, calls, crashed>>

\* Take s_copy_to_host_internal_mutex and enter move_to_host.
CopyLock(b) ==
    /\ Running
    /\ thread[b] = "starting"
    /\ internalLock = NoOne
    /\ internalLock' = b
    /\ thread' = [thread EXCEPT ![b] = "moving"]
    /\ UNCHANGED <<liberties, exists, deleted, deletedLock, threadLock, hostMemory,
                   readyEvent, call, calls, crashed>>

\* Mutant: the lock is not released on the way out of the exception.
CopyMoveKeepsLock(b) ==
    /\ Running
    /\ thread[b] = "moving"
    /\ thread' \in {[thread EXCEPT ![b] = s] : s \in {"calling", "failing"}}
    /\ UNCHANGED <<liberties, exists, deleted, deletedLock, threadLock, internalLock,
                   hostMemory, readyEvent, call, calls, crashed>>

\* move_to_host, the size check and the copy. If they succeed the event is marked,
\* and its callbacks run, under the lock; an exception releases the lock first.
CopyMove(b) ==
    /\ Running
    /\ thread[b] = "moving"
    /\ \/ /\ thread' = [thread EXCEPT ![b] = "calling"]
          /\ UNCHANGED internalLock
       \/ /\ thread' = [thread EXCEPT ![b] = "failing"]
          /\ internalLock' = NoOne
    /\ UNCHANGED <<liberties, exists, deleted, deletedLock, threadLock, hostMemory,
                   readyEvent, call, calls, crashed>>

\* The callbacks have returned.
CopyDone(b) ==
    /\ Running
    /\ thread[b] \in {"calling", "failing"}
    /\ call[b] = Idle
    /\ internalLock' = IF thread[b] = "calling" THEN NoOne ELSE internalLock
    /\ thread' = [thread EXCEPT ![b] = "finished"]
    /\ UNCHANGED <<liberties, exists, deleted, deletedLock, threadLock, hostMemory,
                   readyEvent, call, calls, crashed>>

-----------------------------------------------------------------------------

Ops == {"ToHost", "Delete", "Destroy", "CopyToDevice", "ReadyEvent"}

CallStep(t) ==
    \E b \in Buffers :
        \/ LockThread(t, b)
        \/ JoinSelf(t, b)
        \/ JoinedForCopy(t, b)
        \/ Spawn(t, b)
        \/ LockDeleted(t, b)
        \/ JoinedForDelete(t, b)
        \/ MarkDeleted(t, b)
        \/ Free(t, b)
        \/ CreateDataReadyEvent(t, b)
        \/ EnterMoveToHost(t, b)
        \/ CopyFromBuffer(t, b)

CopyStep(b) == CopyLock(b) \/ CopyMove(b) \/ CopyDone(b)

Next ==
    \/ \E c \in Clients, op \in Ops, b \in Buffers : ClientCalls(c, op, b)
    \/ \E t, b \in Buffers : CallbackCalls(t, b)
    \/ \E t \in Threads : CallStep(t)
    \/ \E b \in Buffers : CopyStep(b)

\* A thread that can run is scheduled, and a mutex that stays free is acquired.
Fairness ==
    /\ \A t \in Threads : WF_vars(CallStep(t))
    /\ \A b \in Buffers : WF_vars(CopyStep(b))

Spec == Init /\ [][Next]_vars /\ Fairness

-----------------------------------------------------------------------------
(* Properties *)

\* A client that keeps to the plain sequence of calls.
Plain == liberties = {}

\* Once the client was told that its host memory is not used any more, or that the buffer
\* is gone, no copy thread of the buffer is going to read the tensor.
NoUseAfterDelete ==
    \A b \in Buffers : hostMemory[b] = "returned" \/ b \notin exists =>
        thread[b] \in {"none", "finished"}

\* Deleting and destroying buffers is safe: no copy thread reads what is gone, no joinable
\* std::thread is destroyed or assigned to, no thread joins itself and no exception leaves the API.
NoCrash == Plain => ~crashed /\ NoUseAfterDelete

\* The thread is inside move_to_host.
Moving(t) == \/ t \in Buffers /\ thread[t] = "moving"
             \/ call[t].at = "moving"

\* No two buffers are copied to the host concurrently, because untilizing on the
\* device is not thread safe (s_copy_to_host_internal_mutex).
OneMoveToHost == \A t, u \in Threads : Moving(t) /\ Moving(u) => t = u

\* The copy threads exclude each other, callbacks included, whatever the client does.
CopiesExclude ==
    \A a, b \in Buffers : {thread[a], thread[b]} \subseteq {"moving", "calling"} => a = b

\* The thread is inside a call, or it is a copy thread that has not finished.
Busy(t) ==
    \/ call[t] # Idle
    \/ t \in Buffers /\ thread[t] \in {"starting", "moving", "calling", "failing"}

\* Every call returns, and every copy that was started ends, so that its event is marked:
\* nobody waits forever for a mutex or for a copy thread.
CallsReturn == \A t \in Threads : Plain /\ Busy(t) ~> ~Busy(t)

=============================================================================
