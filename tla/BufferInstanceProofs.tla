------------------------ MODULE BufferInstanceProofs ------------------------
(***************************************************************************)
(* Proofs about BufferInstance, for any number of buffers, client threads  *)
(* and calls.                                                              *)
(***************************************************************************)
EXTENDS BufferInstance, TLAPS

AllPoints == {"idle", "lockThread", "join", "spawn", "lockDeleted", "mark", "free", "move",
              "moving", "create"}
CallType == [op : Ops \cup {"none"}, buf : Buffers \cup {NoOne}, at : AllPoints]

\* The control points a call of one operation can be at.
Control(c) ==
    \/ c = Idle
    \/ /\ c.op \in Ops
       /\ c.buf \in Buffers
       /\ c.at # "idle"
       /\ c.op = "CopyToDevice" <=> c.at \in {"move", "moving"}
       /\ c.op = "ReadyEvent" <=> c.at = "create"
       /\ c.op = "ToHost" => c.at \in {"lockThread", "join", "spawn"}
       /\ c.at = "spawn" => c.op = "ToHost"
       /\ c.op = "Delete" => c.at # "free"

CallsTyped ==
    /\ call \in [Threads -> CallType]
    /\ \A t \in Threads : Control(call[t])

\* The types of the variables, and which call can be at which control point.
TypeOK ==
    /\ liberties \in Behaviours
    /\ exists \subseteq Buffers
    /\ deleted \in [Buffers -> BOOLEAN]
    /\ deletedLock \in [Buffers -> Threads \cup {NoOne}]
    /\ threadLock \in [Buffers -> Threads \cup {NoOne}]
    /\ internalLock \in Buffers \cup {NoOne}
    /\ thread \in [Buffers -> {"none", "starting", "moving", "calling", "failing",
                               "finished"}]
    /\ hostMemory \in [Buffers -> {"lent", "copied", "returned"}]
    /\ readyEvent \in [Buffers -> BOOLEAN]
    /\ calls \in [Clients -> Nat]
    /\ crashed \in BOOLEAN
    /\ CallsTyped

\* What the steps of a call do to it: the others are left alone.
LEMMA CallFacts ==
  ASSUME CallsTyped, NEW t \in Threads
  PROVE  /\ \A p : Goto(t, p) =>
               /\ call'[t] = [call[t] EXCEPT !.at = p]
               /\ \A u \in Threads : u # t => call'[u] = call[u]
         /\ Return(t) => /\ call'[t] = Idle
                         /\ \A u \in Threads : u # t => call'[u] = call[u]
         /\ \A p \in AllPoints : Goto(t, p) /\ Control([call[t] EXCEPT !.at = p])
               => CallsTyped'
         /\ Return(t) => CallsTyped'
<1> USE DEF CallsTyped
<1>1. Idle \in CallType
  BY DEF Idle, CallType, AllPoints
<1>2. \A p \in AllPoints : [call[t] EXCEPT !.at = p] \in CallType
  BY DEF CallType
<1>3. \A p : Goto(t, p) => /\ call'[t] = [call[t] EXCEPT !.at = p]
                           /\ \A u \in Threads : u # t => call'[u] = call[u]
                           /\ DOMAIN call' = Threads
  BY DEF Goto
<1>4. Return(t) => call' = [call EXCEPT ![t] = Idle]
  BY DEF Return
<1>5. \A p \in AllPoints : Goto(t, p) /\ Control([call[t] EXCEPT !.at = p])  => CallsTyped'
  <2> SUFFICES ASSUME NEW p \in AllPoints, Goto(t, p), Control([call[t] EXCEPT !.at = p])
               PROVE  CallsTyped'
    OBVIOUS
  <2>1. call' = [call EXCEPT ![t] = [call[t] EXCEPT !.at = p]]
    BY DEF Goto
  <2> QED
    BY <1>2, <2>1
<1>6. Control(Idle)
  BY DEF Control
<1> QED
  BY <1>1, <1>3, <1>4, <1>5, <1>6

\* All buffers of the client are idle at the start.
LEMMA TypeInit == Init => TypeOK
<1> SUFFICES ASSUME Init PROVE TypeOK
  OBVIOUS
<1> USE DEF Init
<1>1. Idle \in CallType
  BY DEF Idle, CallType, AllPoints
<1>2. CallsTyped
  BY <1>1 DEF CallsTyped, Control
<1>3. hostMemory \in [Buffers -> {"lent", "copied", "returned"}]
  OBVIOUS
<1> QED
  BY <1>2, <1>3, BufferAssumption DEF TypeOK

\* A call moves along the control points of its operation.
LEMMA TypeStep == TypeOK /\ [Next]_vars => TypeOK'
<1> SUFFICES ASSUME TypeOK, [Next]_vars PROVE TypeOK'
  OBVIOUS
<1> USE BufferAssumption DEF TypeOK
<1>0. ASSUME NEW t \in Threads
      PROVE  /\ \A p \in AllPoints : Goto(t, p) /\ Control([call[t] EXCEPT !.at = p])
                   => CallsTyped'
             /\ Return(t) => CallsTyped'
             /\ call[t].buf \in Buffers => Control(call[t]) /\ call[t].op \in Ops
             /\ call[t] \in CallType
  BY CallFacts DEF CallsTyped, Control, Idle
<1>1. ASSUME NEW c \in Clients, NEW op \in Ops, NEW b \in Buffers, ClientCalls(c, op, b)
      PROVE  TypeOK'
  <2>1. CallsTyped'
    BY <1>1
    DEF ClientCalls, FirstStep, CallsTyped, CallType, Control, Ops, AllPoints, Threads
  <2> QED
    BY <1>1, <2>1 DEF ClientCalls
<1>2. ASSUME NEW t \in Buffers, NEW b \in Buffers, CallbackCalls(t, b) PROVE TypeOK'
  <2>1. CallsTyped'
    BY <1>2 DEF CallbackCalls, CallsTyped, CallType, Control, Ops, AllPoints, Threads
  <2> QED
    BY <1>2, <2>1 DEF CallbackCalls
<1>3. ASSUME NEW t \in Threads, NEW b \in Buffers, LockThread(t, b) PROVE TypeOK'
  <2>1. Control([call[t] EXCEPT !.at = "join"])
    BY <1>0, <1>3 DEF LockThread, At, Control, Ops, CallType, Idle
  <2>2. CallsTyped'
    BY <1>0, <1>3, <2>1 DEF LockThread, AllPoints
  <2> QED
    BY <1>3, <2>2 DEF LockThread
<1>4. ASSUME NEW t \in Threads, NEW b \in Buffers, JoinSelf(t, b) PROVE TypeOK'
  BY <1>4 DEF JoinSelf, CallsTyped
<1>5. ASSUME NEW t \in Threads, NEW b \in Buffers, Spawn(t, b) PROVE TypeOK'
  BY <1>0, <1>5 DEF Spawn
<1>15. ASSUME NEW t \in Threads, NEW b \in Buffers, JoinedForCopy(t, b) PROVE TypeOK'
  <2>1. Control([call[t] EXCEPT !.at = "spawn"])
    BY <1>0, <1>15 DEF JoinedForCopy, At, Control, Ops, CallType, Idle
  <2>2. CallsTyped'
    BY <1>0, <1>15, <2>1 DEF JoinedForCopy, AllPoints
  <2> QED
    BY <1>15, <2>2 DEF JoinedForCopy
<1>after. ASSUME NEW t \in Threads, call[t].buf \in Buffers,
                 call[t].at \in {"lockDeleted", "mark"}, AfterDelete(t)
          PROVE  CallsTyped'
  <2>1. call[t].op = "Destroy" => Control([call[t] EXCEPT !.at = "free"])
    BY <1>0, <1>after DEF Control, Ops, CallType, Idle
  <2> QED
    BY <1>0, <1>after, <2>1 DEF AfterDelete, AllPoints
<1>6. ASSUME NEW t \in Threads, NEW b \in Buffers, LockDeleted(t, b) PROVE TypeOK'
  <2>1. Control([call[t] EXCEPT !.at = "lockThread"])
    BY <1>0, <1>6 DEF LockDeleted, At, Control, Ops, CallType, Idle
  <2>2. CallsTyped'
    BY <1>0, <1>6, <1>after, <2>1 DEF LockDeleted, At, AllPoints
  <2> QED
    BY <1>6, <2>2 DEF LockDeleted
<1>7. ASSUME NEW t \in Threads, NEW b \in Buffers, JoinedForDelete(t, b) PROVE TypeOK'
  <2>1. Control([call[t] EXCEPT !.at = "mark"])
    BY <1>0, <1>7 DEF JoinedForDelete, At, Control, Ops, CallType, Idle
  <2>2. CallsTyped'
    BY <1>0, <1>7, <2>1 DEF JoinedForDelete, AllPoints
  <2> QED
    BY <1>7, <2>2 DEF JoinedForDelete
<1>8. ASSUME NEW t \in Threads, NEW b \in Buffers, MarkDeleted(t, b) PROVE TypeOK'
  <2>1. CallsTyped'
    BY <1>8, <1>after DEF MarkDeleted, At
  <2> QED
    BY <1>8, <2>1 DEF MarkDeleted
<1>9. ASSUME NEW t \in Threads, NEW b \in Buffers, Free(t, b) PROVE TypeOK'
  BY <1>0, <1>9 DEF Free
<1>10. ASSUME NEW t \in Threads, NEW b \in Buffers, CreateDataReadyEvent(t, b) PROVE TypeOK'
  BY <1>0, <1>10 DEF CreateDataReadyEvent
<1>11. ASSUME NEW t \in Threads, NEW b \in Buffers, EnterMoveToHost(t, b) PROVE TypeOK'
  <2>1. Control([call[t] EXCEPT !.at = "moving"])
    BY <1>0, <1>11 DEF EnterMoveToHost, At, Control, Ops, CallType, Idle
  <2>2. CallsTyped'
    BY <1>0, <1>11, <2>1 DEF EnterMoveToHost, AllPoints
  <2> QED
    BY <1>11, <2>2 DEF EnterMoveToHost
<1>12. ASSUME NEW t \in Threads, NEW b \in Buffers, CopyFromBuffer(t, b) PROVE TypeOK'
  BY <1>0, <1>12 DEF CopyFromBuffer
<1>13. ASSUME NEW b \in Buffers, CopyStep(b) PROVE TypeOK'
  BY <1>13 DEF CopyStep, CopyLock, CopyMove, CopyDone, CallsTyped
<1>14. CASE UNCHANGED vars
  BY <1>14 DEF vars, CallsTyped
<1> QED
  BY <1>1, <1>2, <1>3, <1>4, <1>5, <1>6, <1>7, <1>8, <1>9, <1>10, <1>11, <1>12, <1>13,
     <1>14, <1>15
  DEF Next, CallStep

\* Every call is at a control point of its operation in every reachable state.
THEOREM TypeCorrect == Spec => []TypeOK
  BY TypeInit, TypeStep, PTL DEF Spec

-----------------------------------------------------------------------------
(* The copy threads exclude each other.                                     *)

\* A copy thread inside move_to_host, or running callbacks after a success, owns
\* s_copy_to_host_internal_mutex.
MoverOwnsLock == \A b \in Buffers : thread[b] \in {"moving", "calling"} => internalLock = b

\* No other thread takes the global mutex away from the copy thread that owns it.
LEMMA MoverStep == TypeOK /\ MoverOwnsLock /\ [Next]_vars => MoverOwnsLock'
<1> SUFFICES ASSUME TypeOK, MoverOwnsLock, [Next]_vars PROVE MoverOwnsLock'
  OBVIOUS
<1> USE BufferAssumption DEF MoverOwnsLock
<1>0. thread \in [Buffers -> {"none", "starting", "moving", "calling", "failing", "finished"}]
  BY DEF TypeOK
<1>1. ASSUME UNCHANGED <<thread, internalLock>> PROVE MoverOwnsLock'
  BY <1>1
<1>2. ASSUME NEW t \in Threads, NEW b \in Buffers, Spawn(t, b) PROVE MoverOwnsLock'
  BY <1>0, <1>2 DEF Spawn
<1>3. ASSUME NEW t \in Threads, NEW b \in Buffers, JoinedForDelete(t, b) \/ JoinedForCopy(t, b)
      PROVE  MoverOwnsLock'
  BY <1>0, <1>3 DEF JoinedForDelete, JoinedForCopy
<1>4. ASSUME NEW b \in Buffers, CopyLock(b) PROVE MoverOwnsLock'
  BY <1>0, <1>4 DEF CopyLock
<1>5. ASSUME NEW b \in Buffers, CopyMove(b) PROVE MoverOwnsLock'
  BY <1>0, <1>5 DEF CopyMove
<1>6. ASSUME NEW b \in Buffers, CopyDone(b) PROVE MoverOwnsLock'
  BY <1>0, <1>6 DEF CopyDone
<1>7. CASE UNCHANGED vars
  BY <1>1, <1>7 DEF vars
<1> QED
  BY <1>1, <1>2, <1>3, <1>4, <1>5, <1>6, <1>7
  DEF Next, CallStep, CopyStep, ClientCalls, CallbackCalls, LockThread, JoinSelf, LockDeleted,
      MarkDeleted, Free, CreateDataReadyEvent, EnterMoveToHost, CopyFromBuffer

\* The owner of the global mutex is the copy thread that moves or runs callbacks, in every
\* reachable state and whatever liberties the client takes.
LEMMA MoverHolds == Spec => []MoverOwnsLock
<1>1. Init => MoverOwnsLock
  BY DEF Init, MoverOwnsLock
<1> QED
  BY <1>1, MoverStep, TypeCorrect, PTL DEF Spec

\* At most one copy thread is between taking s_copy_to_host_internal_mutex and the return of
\* the callbacks of its event, even if those callbacks destroy buffers and clients delete
\* them concurrently.
THEOREM CopyThreadsExclude == Spec => []CopiesExclude
<1>1. MoverOwnsLock => CopiesExclude
  BY DEF MoverOwnsLock, CopiesExclude
<1> QED
  BY <1>1, MoverHolds, PTL

-----------------------------------------------------------------------------
(* A client that keeps to the plain sequence of calls.                      *)

\* What the rules of pjrt_c_api.h come to: no callback calls the API, a buffer's deletion
\* does not overlap with another use of it, its destruction with nothing, and its ready event
\* is asked for once.
CallsOrderly ==
    /\ \A t \in Buffers : call[t] = Idle
    /\ \A t, u \in Threads : call[t].buf \in Buffers /\ call[t].buf = call[u].buf =>
          /\ call[t].op = "Destroy" => t = u
          /\ call[t].op = "Delete" => call[u].op = "Delete"
          /\ call[t].op = "ReadyEvent" /\ call[u].op = "ReadyEvent" => t = u
    /\ \A t \in Threads : call[t].op = "ReadyEvent" => ~readyEvent[call[t].buf]

\* Whoever joins the copy thread, or is about to start one, owns the buffer's mutex.
JoinerOwnsLock ==
    \A t \in Threads : call[t].at \in {"join", "spawn"} => threadLock[call[t].buf] = t

\* m_copy_to_host_thread_mutex is released by its owner only.
LEMMA JoinerStep == TypeOK /\ JoinerOwnsLock /\ [Next]_vars => JoinerOwnsLock'
<1> SUFFICES ASSUME TypeOK, JoinerOwnsLock, [Next]_vars PROVE JoinerOwnsLock'
  OBVIOUS
<1>0. /\ call \in [Threads -> CallType]
      /\ \A t \in Threads : Control(call[t])
      /\ threadLock \in [Buffers -> Threads \cup {NoOne}]
      /\ NoOne \notin Threads
      /\ Buffers \subseteq Threads /\ Clients \subseteq Threads
  BY BufferAssumption DEF TypeOK, CallsTyped, Threads
<1> USE <1>0 DEF JoinerOwnsLock
<1>goto. ASSUME NEW t \in Threads, NEW p, Goto(t, p)
         PROVE  /\ call'[t].at = p /\ call'[t].buf = call[t].buf
                /\ \A u \in Threads : u # t => call'[u] = call[u]
  BY <1>goto DEF Goto, CallType
<1>return. ASSUME NEW t \in Threads, Return(t)
           PROVE  /\ call'[t].at = "idle"
                  /\ \A u \in Threads : u # t => call'[u] = call[u]
  BY <1>return DEF Return, Idle
<1>at. \A t \in Threads : call[t].at # "idle" => call[t].buf \in Buffers
  BY DEF Control, Idle
<1>1. ASSUME NEW c \in Clients, NEW op \in Ops, NEW b \in Buffers, ClientCalls(c, op, b)
      PROVE  JoinerOwnsLock'
  <2>1. FirstStep[op] \notin {"join", "spawn"}
    BY DEF FirstStep, Ops
  <2> QED
    BY <1>1, <2>1 DEF ClientCalls
<1>2. ASSUME NEW t \in Buffers, NEW b \in Buffers, CallbackCalls(t, b) PROVE JoinerOwnsLock'
  BY <1>2 DEF CallbackCalls
<1>3. ASSUME NEW t \in Threads, NEW b \in Buffers, LockThread(t, b) PROVE JoinerOwnsLock'
  <2>1. /\ Goto(t, "join") /\ call[t].buf = b /\ threadLock[b] = NoOne
        /\ threadLock' = [threadLock EXCEPT ![b] = t]
    BY <1>3 DEF LockThread, At
  <2>2. \A u \in Threads : call[u].at \in {"join", "spawn"} => call[u].buf # b
    BY <2>1
  <2> QED
    BY <2>1, <2>2, <1>goto, <1>at
<1>4. ASSUME NEW t \in Threads, NEW b \in Buffers,
             JoinedForDelete(t, b) \/ Spawn(t, b)
      PROVE  JoinerOwnsLock'
  <2>1. /\ Goto(t, "mark") \/ Return(t)
        /\ call[t].buf = b /\ call[t].at \in {"join", "spawn"}
        /\ threadLock' = [threadLock EXCEPT ![b] = NoOne]
    BY <1>4 DEF JoinedForDelete, Spawn, At
  <2>2. \A u \in Threads : u # t /\ call[u].at \in {"join", "spawn"} => call[u].buf # b
    BY <2>1
  <2> QED
    BY <2>1, <2>2, <1>goto, <1>return, <1>at
<1>5. ASSUME NEW t \in Threads, NEW b \in Buffers, JoinedForCopy(t, b) PROVE JoinerOwnsLock'
  <2>1. /\ Goto(t, "spawn") /\ call[t].at = "join" /\ UNCHANGED threadLock
    BY <1>5 DEF JoinedForCopy, At
  <2> QED
    BY <2>1, <1>goto
<1>6. ASSUME NEW t \in Threads, NEW p, Goto(t, p), p \notin {"join", "spawn"},
             UNCHANGED threadLock
      PROVE  JoinerOwnsLock'
  BY <1>6, <1>goto
<1>7. ASSUME NEW t \in Threads, Return(t), UNCHANGED threadLock PROVE JoinerOwnsLock'
  BY <1>7, <1>return
<1>8. ASSUME UNCHANGED <<call, threadLock>> PROVE JoinerOwnsLock'
  BY <1>8
<1>9. ASSUME NEW t \in Threads, CallStep(t) PROVE JoinerOwnsLock'
  BY <1>3, <1>4, <1>5, <1>6, <1>7, <1>8, <1>9
  DEF CallStep, JoinSelf, LockDeleted, AfterDelete, MarkDeleted, Free,
      CreateDataReadyEvent, EnterMoveToHost, CopyFromBuffer
<1>10. ASSUME NEW b \in Buffers, CopyStep(b) PROVE JoinerOwnsLock'
  BY <1>8, <1>10 DEF CopyStep, CopyLock, CopyMove, CopyDone
<1>11. CASE UNCHANGED vars
  BY <1>8, <1>11 DEF vars
<1> QED
  BY <1>1, <1>2, <1>9, <1>10, <1>11 DEF Next

\* A buffer has no copy thread between the join and the start of the next one, nor from the
\* join in deleteData on.
ThreadGone ==
    /\ \A t \in Threads :
          call[t].at \in {"spawn", "mark", "free"} => thread[call[t].buf] = "none"
    /\ \A b \in Buffers : deleted[b] =>
          /\ thread[b] = "none"
          /\ \A t \in Threads : call[t].buf = b => call[t].op \in {"Delete", "Destroy"}
    /\ \A b \in Buffers : hostMemory[b] = "returned" => deleted[b]
    /\ \A b \in Buffers : b \notin exists =>
          thread[b] = "none" /\ \A t \in Threads : call[t].buf # b

PlainInv == Plain => CallsOrderly /\ ThreadGone /\ ~crashed

\* Every call of a plain client, and every step of a copy thread, keeps the order of calls
\* and finds no copy thread where the buffer is deleted or destroyed.
LEMMA PlainStep == TypeOK /\ JoinerOwnsLock /\ PlainInv /\ [Next]_vars => PlainInv'
<1> SUFFICES ASSUME TypeOK, JoinerOwnsLock, PlainInv, [Next]_vars PROVE PlainInv'
  OBVIOUS
<1> SUFFICES ASSUME Plain, Plain' PROVE PlainInv'
  <2>1. liberties' = liberties
    BY DEF Next, vars, CallStep, CopyStep, ClientCalls, CallbackCalls, LockThread, JoinSelf,
           JoinedForCopy, Spawn, LockDeleted, JoinedForDelete, MarkDeleted, Free,
           CreateDataReadyEvent,
           EnterMoveToHost, CopyFromBuffer, CopyLock, CopyMove, CopyDone
  <2>2. Plain <=> Plain'
    BY <2>1 DEF Plain
  <2>3. ~Plain' => PlainInv'
    BY DEF PlainInv
  <2> QED
    BY <2>2, <2>3
<1>0. /\ CallsOrderly /\ ThreadGone /\ ~crashed
      /\ call \in [Threads -> CallType]
      /\ \A t \in Threads : Control(call[t])
      /\ deleted \in [Buffers -> BOOLEAN]
      /\ thread \in [Buffers -> {"none", "starting", "moving", "calling", "failing",
                                 "finished"}]
      /\ hostMemory \in [Buffers -> {"lent", "copied", "returned"}]
      /\ readyEvent \in [Buffers -> BOOLEAN]
      /\ NoOne \notin Buffers
      /\ Buffers \subseteq Threads /\ Clients \subseteq Threads
      /\ \A c \in Clients : c \notin Buffers
  BY BufferAssumption DEF PlainInv, TypeOK, CallsTyped, Threads
<1> USE <1>0 DEF CallsOrderly, ThreadGone
<1>goto. ASSUME NEW t \in Threads, NEW p, Goto(t, p)
         PROVE  /\ call' \in [Threads -> CallType] => call'[t].op = call[t].op
                /\ call'[t].at = p /\ call'[t].buf = call[t].buf /\ call'[t].op = call[t].op
                /\ \A u \in Threads : u # t => call'[u] = call[u]
  BY <1>goto DEF Goto, CallType
<1>return. ASSUME NEW t \in Threads, Return(t)
           PROVE  /\ call'[t] = Idle
                  /\ \A u \in Threads : u # t => call'[u] = call[u]
  BY <1>return DEF Return
<1>idle. Idle.buf = NoOne /\ Idle.op = "none" /\ Idle.at = "idle"
  BY DEF Idle
<1>at. ASSUME NEW t \in Threads, NEW b \in Buffers, call[t].buf = b
       PROVE  t \in Clients /\ call[t] # Idle /\ call[t].op \in Ops
  BY <1>at, <1>idle DEF Threads, Control
<1>1. ASSUME NEW c \in Clients, NEW op \in Ops, NEW b \in Buffers, ClientCalls(c, op, b)
      PROVE  PlainInv'
  <2>1. /\ call[c] = Idle
        /\ call' = [call EXCEPT ![c] = [op |-> op, buf |-> b, at |-> FirstStep[op]]]
        /\ MayCall(op, b)
        /\ UNCHANGED <<exists, deleted, thread, hostMemory, readyEvent, crashed>>
    BY <1>1 DEF ClientCalls
  <2>2. /\ call'[c].op = op /\ call'[c].buf = b /\ call'[c].at = FirstStep[op]
        /\ \A u \in Threads : u # c => call'[u] = call[u]
    BY <2>1
  <2>3. FirstStep[op] \notin {"spawn", "mark", "free"}
    BY DEF FirstStep, Ops
  <2>4. /\ \A t \in Threads : call[t].buf = b =>
               /\ op # "Destroy" /\ call[t].op # "Destroy"
               /\ op \in {"ToHost", "CopyToDevice", "ReadyEvent"} => call[t].op # "Delete"
               /\ op = "Delete" => call[t].op = "Delete"
               /\ op = "ReadyEvent" => call[t].op # "ReadyEvent"
        /\ op \in {"ToHost", "CopyToDevice", "ReadyEvent"} => ~deleted[b]
        /\ op = "ReadyEvent" => ~readyEvent[b]
        /\ b \in exists
    BY <2>1 DEF MayCall, CallsOn, Plain
  <2>5. CallsOrderly'
    BY <2>1, <2>2, <2>4, <1>idle DEF Ops
  <2>6. ThreadGone'
    BY <2>1, <2>2, <2>3, <2>4 DEF Ops
  <2> QED
    BY <2>1, <2>5, <2>6 DEF PlainInv
<1>2. ASSUME NEW t \in Buffers, NEW b \in Buffers, CallbackCalls(t, b) PROVE FALSE
  BY <1>2 DEF CallbackCalls, Plain
<1>3. ASSUME NEW t \in Threads, NEW b \in Buffers, LockThread(t, b) PROVE PlainInv'
  <2>1. /\ Goto(t, "join")
        /\ call[t].buf = b
        /\ UNCHANGED <<exists, deleted, thread, hostMemory, readyEvent, crashed>>
    BY <1>3 DEF LockThread, At
  <2> QED
    BY <2>1, <1>goto, <1>at DEF PlainInv
<1>4. ASSUME NEW t \in Threads, NEW b \in Buffers, JoinSelf(t, b) PROVE FALSE
  BY <1>4, <1>at DEF JoinSelf, At
<1>5. ASSUME NEW t \in Threads, NEW b \in Buffers, Spawn(t, b) PROVE PlainInv'
  <2>1. /\ Return(t)
        /\ call[t].buf = b /\ call[t].op = "ToHost" /\ call[t].at = "spawn"
        /\ thread' = [thread EXCEPT ![b] = "starting"]
        /\ UNCHANGED <<exists, deleted, hostMemory, readyEvent, crashed>>
    <3>1. call[t].at = "spawn" /\ call[t].buf = b
      BY <1>5 DEF Spawn, At
    <3>2. call[t].op = "ToHost" /\ thread[b] = "none"
      BY <3>1, <1>idle DEF Control
    <3> QED
      BY <1>5, <3>1, <3>2 DEF Spawn
  <2>2. ~deleted[b] /\ b \in exists
    BY <2>1
  <2>3. CallsOrderly'
    BY <2>1, <1>return, <1>idle, <1>at
  <2>4. \A u \in Threads : call[u].at \in {"mark", "free"} =>
            call[u].buf \in Buffers /\ call[u].op \in {"Delete", "Destroy"}
    BY <1>idle DEF Control, Ops
  <2>5. \A u \in Threads : u # t /\ call[u].at = "spawn" =>
            call[u].buf \in Buffers /\ call[u].buf # b
    BY <2>1, <1>idle DEF JoinerOwnsLock, Control
  <2>6. ThreadGone'
    BY <2>1, <2>2, <2>4, <2>5, <1>return, <1>idle
  <2> QED
    BY <2>1, <2>3, <2>6 DEF PlainInv
<1>15. ASSUME NEW t \in Threads, NEW b \in Buffers, JoinedForCopy(t, b) PROVE PlainInv'
  <2>1. /\ call[t].buf = b /\ Goto(t, "spawn")
        /\ thread' = [thread EXCEPT ![b] = "none"]
        /\ UNCHANGED <<exists, deleted, hostMemory, readyEvent, crashed>>
    BY <1>15 DEF JoinedForCopy, At
  <2>2. CallsOrderly'
    BY <2>1, <1>goto, <1>at
  <2>3. \A u \in Threads : call[u].at \in {"spawn", "mark", "free"} => call[u].buf \in Buffers
    BY <1>idle DEF Control
  <2>4. ThreadGone'
    BY <2>1, <2>3, <1>goto
  <2> QED
    BY <2>1, <2>2, <2>4 DEF PlainInv
<1>6. ASSUME NEW t \in Threads, NEW b \in Buffers, LockDeleted(t, b) PROVE PlainInv'
  <2>1. /\ call[t].buf = b
        /\ \/ deleted[b] /\ Goto(t, "free")
           \/ Return(t)
           \/ Goto(t, "lockThread")
        /\ UNCHANGED <<exists, deleted, thread, hostMemory, readyEvent, crashed>>
    BY <1>6 DEF LockDeleted, AfterDelete, At
  <2>2. CallsOrderly'
    BY <2>1, <1>goto, <1>return, <1>idle, <1>at
  <2>3. ThreadGone'
    BY <2>1, <1>goto, <1>return, <1>idle
  <2> QED
    BY <2>1, <2>2, <2>3 DEF PlainInv
<1>7. ASSUME NEW t \in Threads, NEW b \in Buffers, JoinedForDelete(t, b) PROVE PlainInv'
  <2>1. /\ call[t].buf = b /\ Goto(t, "mark")
        /\ thread' = [thread EXCEPT ![b] = "none"]
        /\ UNCHANGED <<exists, deleted, hostMemory, readyEvent, crashed>>
    BY <1>7 DEF JoinedForDelete, At
  <2>2. CallsOrderly'
    BY <2>1, <1>goto, <1>at
  <2>3. \A u \in Threads : call[u].at \in {"spawn", "mark", "free"} => call[u].buf \in Buffers
    BY <1>idle DEF Control
  <2>4. ThreadGone'
    BY <2>1, <2>3, <1>goto
  <2> QED
    BY <2>1, <2>2, <2>4 DEF PlainInv
<1>8. ASSUME NEW t \in Threads, NEW b \in Buffers, MarkDeleted(t, b) PROVE PlainInv'
  <2>1. /\ call[t].buf = b /\ call[t].at = "mark"
        /\ (call[t].op = "Destroy" /\ Goto(t, "free")) \/ Return(t)
        /\ deleted' = [deleted EXCEPT ![b] = TRUE]
        /\ hostMemory' = [hostMemory EXCEPT ![b] = IF @ = "lent" THEN "returned" ELSE @]
        /\ UNCHANGED <<exists, thread, readyEvent, crashed>>
    BY <1>8 DEF MarkDeleted, AfterDelete, At
  <2>2. thread[b] = "none" /\ call[t].op \in {"Delete", "Destroy"}
    BY <2>1, <1>at DEF Control, Ops
  <2>3. \A u \in Threads : call[u].buf = b => call[u].op \in {"Delete", "Destroy"}
    BY <2>1, <2>2
  <2>4. CallsOrderly'
    BY <2>1, <1>goto, <1>return, <1>idle, <1>at
  <2>5. ThreadGone'
    BY <2>1, <2>2, <2>3, <1>goto, <1>return, <1>idle
  <2> QED
    BY <2>1, <2>4, <2>5 DEF PlainInv
<1>9. ASSUME NEW t \in Threads, NEW b \in Buffers, Free(t, b) PROVE PlainInv'
  <2>1. /\ call[t].buf = b /\ call[t].at = "free" /\ Return(t)
        /\ UNCHANGED <<deleted, thread, hostMemory, readyEvent>>
    BY <1>9 DEF Free, At
  <2>2. thread[b] = "none"
    BY <2>1
  <2>3. exists' = exists \ {b} /\ crashed' = crashed
    BY <1>9, <2>2 DEF Free
  <2>4. call[t].op = "Destroy"
    BY <2>1, <1>at DEF Control, Ops
  <2>5. \A u \in Threads : u # t => call[u].buf # b
    BY <2>1, <2>4
  <2>6. CallsOrderly'
    BY <2>1, <1>return, <1>idle, <1>at
  <2>7. ThreadGone'
    BY <2>1, <2>2, <2>3, <2>5, <1>return, <1>idle
  <2> QED
    BY <2>3, <2>6, <2>7 DEF PlainInv
<1>10. ASSUME NEW t \in Threads, NEW b \in Buffers, CreateDataReadyEvent(t, b)
       PROVE  PlainInv'
  <2>1. /\ call[t].buf = b /\ call[t].at = "create" /\ Return(t)
        /\ crashed' = readyEvent[b]
        /\ readyEvent' = [readyEvent EXCEPT ![b] = TRUE]
        /\ UNCHANGED <<exists, deleted, thread, hostMemory>>
    BY <1>10 DEF CreateDataReadyEvent, At
  <2>2. call[t].op = "ReadyEvent"
    BY <2>1, <1>at DEF Control
  <2>3. ~crashed'
    BY <2>1, <2>2
  <2>4. \A u \in Threads : call[u].op = "ReadyEvent" => call[u].buf \in Buffers
    BY <1>idle DEF Control
  <2>5. CallsOrderly'
    BY <2>1, <2>2, <2>4, <1>return, <1>idle, <1>at
  <2>6. ThreadGone'
    BY <2>1, <1>return, <1>idle
  <2> QED
    BY <2>3, <2>5, <2>6 DEF PlainInv
<1>11. ASSUME NEW t \in Threads, NEW b \in Buffers, EnterMoveToHost(t, b) PROVE PlainInv'
  <2>1. /\ call[t].buf = b /\ Goto(t, "moving")
        /\ UNCHANGED <<exists, deleted, thread, hostMemory, readyEvent, crashed>>
    BY <1>11 DEF EnterMoveToHost, At
  <2> QED
    BY <2>1, <1>goto, <1>at DEF PlainInv
<1>12. ASSUME NEW t \in Threads, NEW b \in Buffers, CopyFromBuffer(t, b) PROVE PlainInv'
  <2>1. /\ call[t].buf = b /\ Return(t)
        /\ UNCHANGED <<exists, deleted, thread, hostMemory, readyEvent, crashed>>
    BY <1>12 DEF CopyFromBuffer, At
  <2> QED
    BY <2>1, <1>return, <1>idle, <1>at DEF PlainInv
<1>13. ASSUME NEW b \in Buffers, CopyStep(b) PROVE PlainInv'
  <2>1. /\ thread[b] # "none"
        /\ \E s \in {"moving", "calling", "failing", "finished"} :
              thread' = [thread EXCEPT ![b] = s]
        /\ UNCHANGED <<exists, deleted, hostMemory, readyEvent, call, crashed>>
    BY <1>13 DEF CopyStep, CopyLock, CopyMove, CopyDone
  <2>2. CallsOrderly'
    BY <2>1
  <2>3. \A u \in Threads : call[u].at \in {"spawn", "mark", "free"} => call[u].buf \in Buffers
    BY <1>idle DEF Control
  <2>4. ThreadGone'
    BY <2>1, <2>3
  <2> QED
    BY <2>1, <2>2, <2>4 DEF PlainInv
<1>14. CASE UNCHANGED vars
  BY <1>14 DEF vars, PlainInv
<1> QED
  BY <1>1, <1>2, <1>3, <1>4, <1>5, <1>6, <1>7, <1>8, <1>9, <1>10, <1>11, <1>12, <1>13,
     <1>14, <1>15
  DEF Next, CallStep

\* PlainInv holds of every process.
LEMMA PlainInvHolds == Spec => []PlainInv
<1>1. Init => PlainInv
  BY BufferAssumption
  DEF Init, PlainInv, CallsOrderly, ThreadGone, Threads, Idle
<1>2. Init => JoinerOwnsLock
  BY DEF Init, JoinerOwnsLock, Threads, Idle
<1> QED
  BY <1>1, <1>2, JoinerStep, PlainStep, TypeCorrect, PTL DEF Spec

\* Whatever a client that keeps to the plain sequence of calls does on its threads: no
\* joinable std::thread is destroyed, no thread joins itself, no exception leaves the API,
\* and no copy thread is running once deleteData has given the host memory back.
THEOREM PlainClientsSafe == Spec => []NoCrash
<1>1. TypeOK /\ PlainInv => NoCrash
  BY DEF PlainInv, NoCrash, ThreadGone, NoUseAfterDelete, TypeOK
<1> QED
  BY <1>1, PlainInvHolds, TypeCorrect, PTL

=============================================================================
